---------------------------- MODULE ScanCommands ----------------------------
(***************************************************************************)
(* `noesis scan` from main to exit: the worker thread that reads the       *)
(* source, the confinement of each thread, and the order in which a        *)
(* handler produces its answer, creates the store and publishes.           *)
(* (crates/noesis/src/main.rs)                                             *)
(*                                                                         *)
(* The program confines a thread with Landlock layers.  A layer is         *)
(* modelled by the rights it leaves; a thread's layers intersect.          *)
(***************************************************************************)
EXTENDS FailureLanes, FiniteSets

CONSTANTS
    Starts      \* where a scan may start: records [args, repository, store, other] of an
                \* invocation in Selectors, whether --repository is a directory, the store
                \* root, and whether another scan of an absent root may come by

ASSUME StartsAssumption == \A s \in Starts : s.args \in Selectors

Rights == {"source", "nested", "index", "store", "parent"}

VARIABLES
    args,       \* the invocation
    repository, \* TRUE: --repository is a directory
    pc,         \* where the main thread is
    handler,    \* the handler main dispatched to
    worker,     \* the worker thread
    answer,     \* what the worker computed and main has received or awaits
    rights,     \* per thread, what its layers still allow
    preparation,\* plain handlers: what ensure_store_root_for_boundary said
    stdout,     \* the serialized answer exists
    store,      \* the store root as the file system shows it
    found,      \* the store root when main first looked
    rollback,   \* EmptyStoreRollback: "none", "armed", "disarmed"
    published,  \* this process's snapshot is committed
    failure,    \* the Failure to report, or NoFailure
    other       \* another process's use of the same store root

vars == << args, repository, pc, handler, worker, answer, rights, preparation, stdout, store,
           found, rollback, published, failure, other >>

NoFailure == [lane |-> "none", exit |-> 0]

---------------------------------------------------------------------------
(* The handlers.  lane: the envelope of the handler's own errors; errors:  *)
(* what its scan may fail with; nested, index: whether it reads nested     *)
(* repositories or a compiler index; confined: the lane of a failure to    *)
(* confine the main thread; upgrade: how it takes over the deadline;       *)
(* limit: the lane of an answer that is too large; commit: the lane of an  *)
(* internal publication error.                                             *)

SourceErrorsOf(lane) ==
    {"internal", "acquisition", "gitlink", "limit"} \cup
    CASE lane = "V9" -> {}
      [] lane = "V10" -> {"source", "workspace"}
      [] lane = "V11" -> {"source", "workspace", "manifest"}
      [] lane = "V12" -> {"source", "workspace", "manifest", "semantic"}
      [] lane = "V13" -> {"source", "workspace", "manifest", "semantic", "framework"}
      [] lane = "V14" -> {"source", "workspace", "manifest", "semantic", "framework", "index"}
      [] lane \in {"V16", "V18"} ->
            {"source", "workspace", "manifest", "semantic", "identity_conflict", "framework", "callable"}
      [] lane = "V20" -> {"extraction", "index", "composition", "snapshot"}
      [] lane \in {"V17", "V19", "V21", "V22", "V24"} -> {"extraction", "snapshot"}

scan_failure(lane, e) ==
    CASE lane = "V9" -> IF e \in PlainErrors THEN plain_scan_failure(e) ELSE boundary_scan_failure(e)
      [] lane = "V10" -> r3_scan_failure(e)
      [] lane = "V11" -> r4_scan_failure(e)
      [] lane = "V12" -> r5_scan_failure(e)
      [] lane = "V13" -> r6_scan_failure(e)
      [] lane = "V14" -> r7_scan_failure(e)
      [] lane = "V16" -> k1_scan_failure(e)
      [] lane = "V17" -> r10_scan_failure(e)
      [] lane = "V18" -> r11_scan_failure(e)
      [] lane = "V19" -> r12_scan_failure(e)
      [] lane = "V20" -> r13_scan_failure(e)
      [] lane = "V21" -> r14_scan_failure(e)
      [] lane = "V22" -> r15_scan_failure(e)
      [] lane = "V24" -> r16_scan_failure(e)

OnWorker(lane, schema) ==
    [ worker |-> TRUE, lane |-> lane, schema |-> schema, errors |-> SourceErrorsOf(lane),
      nested |-> FALSE, index |-> FALSE, confined |-> lane, upgrade |-> "none",
      limit |-> "Limit", commit |-> lane ]

\* The older profiles blame V9 when the layer that admits nested roots fails.
WithBoundaries(h) ==
    [h EXCEPT !.nested = TRUE, !.errors = (@ \ {"gitlink"}) \cup BoundaryErrors, !.confined = "V9"]

WithOwnBoundaries(h) == [WithBoundaries(h) EXCEPT !.confined = h.lane]

run_s4_r3 == [OnWorker("V10", 6) EXCEPT !.commit = "Internal"]
run_s4_r3_boundaries == WithBoundaries(run_s4_r3)
run_s4_r4 == [OnWorker("V11", 7) EXCEPT !.commit = "Internal"]
run_s4_r4_boundaries == WithBoundaries(run_s4_r4)
run_s4_r5 == OnWorker("V12", 8)
run_s4_r5_boundaries == WithBoundaries(run_s4_r5)
run_s4_r6 == OnWorker("V13", 9)
run_s4_r6_boundaries == WithBoundaries(run_s4_r6)
run_s4_r7 == [OnWorker("V14", 10) EXCEPT !.index = TRUE]
run_s4_r7_boundaries == WithBoundaries(run_s4_r7)
run_s4_k1 == OnWorker("V16", 11)
run_s4_r10 == OnWorker("V17", 12)
run_s4_r10_boundaries == WithBoundaries(run_s4_r10)
run_s4_r11_boundaries ==
    WithOwnBoundaries([OnWorker("V18", 13) EXCEPT !.upgrade = "limit", !.limit = "V18"])
run_s4_r12 == [OnWorker("V19", 14) EXCEPT !.upgrade = "limit"]
run_s4_r12_boundaries == WithOwnBoundaries(run_s4_r12)
run_s4_r13 == [OnWorker("V20", 15) EXCEPT !.index = TRUE, !.upgrade = "limit", !.limit = "V20"]
run_s4_r14 == [OnWorker("V21", 16) EXCEPT !.upgrade = "acquisition", !.limit = "V21"]
run_s4_r14_boundaries == WithOwnBoundaries(run_s4_r14)
run_s4_r15 == [OnWorker("V22", 17) EXCEPT !.upgrade = "acquisition", !.limit = "V22"]
run_s4_r15_boundaries == WithOwnBoundaries(run_s4_r15)
run_s4_r16 == [OnWorker("V24", 18) EXCEPT !.upgrade = "acquisition", !.limit = "V24"]
run_s4_r16_boundaries == WithOwnBoundaries(run_s4_r16)
run_s4_boundaries == [WithBoundaries(OnWorker("V9", 5)) EXCEPT !.commit = "Internal"]

\* The handlers that scan on the main thread.
OnMain(schema, errors) ==
    [ worker |-> FALSE, lane |-> "Internal", schema |-> schema, errors |-> errors, nested |-> FALSE,
      index |-> FALSE, confined |-> "Internal", upgrade |-> "none", limit |-> "Limit", commit |-> "Internal" ]

run_s0 == OnMain(1, {"internal", "acquisition", "gitlink"})
run_s1 == OnMain(2, {"internal", "acquisition", "gitlink", "limit"})
run_s2 == [OnMain(3, {"internal", "acquisition", "gitlink", "limit", "knowledge"}) EXCEPT !.limit = "Knowledge"]
run_s3 == run_s2
run_s4_base == OnMain(4, {"internal", "acquisition", "gitlink", "limit", "source"})

NoHandler == [run_s0 EXCEPT !.schema = 0]

Stored(h) == h.worker \/ h.schema = 4 \/ (h.schema = 3 /\ args.profile = "s3")

main_scan_failure(e) ==
    CASE e = "internal" -> Internal("Internal")
      [] e = "source" -> Plain("Workspace")
      [] OTHER -> plain_scan_failure(e)

\* run_s4 after parsing: the handler the flags select.
run_s4(flags) ==
    LET b == "boundary" \in flags
        pick(with, without) == IF b THEN with ELSE without
        lanes == << << "constant" \in flags, pick(run_s4_r16_boundaries, run_s4_r16) >>,
                    << "flow" \in flags, pick(run_s4_r15_boundaries, run_s4_r15) >>,
                    << "expression" \in flags, pick(run_s4_r14_boundaries, run_s4_r14) >>,
                    << {"callable", "compiler"} \subseteq flags, run_s4_r13 >>,
                    << {"cfg", "callable"} \subseteq flags, pick(run_s4_r12_boundaries, run_s4_r12) >>,
                    << "callable" \in flags, pick(run_s4_r11_boundaries, run_s4_k1) >>,
                    << "compiler" \in flags, pick(run_s4_r7_boundaries, run_s4_r7) >>,
                    << "framework" \in flags, pick(run_s4_r6_boundaries, run_s4_r6) >>,
                    << "cfg" \in flags, pick(run_s4_r10_boundaries, run_s4_r10) >>,
                    << "semantic" \in flags, pick(run_s4_r5_boundaries, run_s4_r5) >>,
                    << "manifest" \in flags, pick(run_s4_r4_boundaries, run_s4_r4) >>,
                    << "workspace" \in flags, pick(run_s4_r3_boundaries, run_s4_r3) >>,
                    << b, run_s4_boundaries >>,
                    << TRUE, run_s4_base >> >>
    IN  First(lanes)

---------------------------------------------------------------------------
(* Startup.                                                                *)

Init ==
    /\ \E s \in Starts : /\ args = s.args
                        /\ repository = s.repository
                        /\ store = s.store
                        /\ other = s.other
    /\ pc = "spawn"
    /\ handler = NoHandler
    /\ worker = "none"
    /\ answer = "none"
    /\ rights = [t \in {"main", "worker"} |-> Rights]
    /\ preparation = "none"
    /\ stdout = FALSE
    /\ found = store
    /\ rollback = "none"
    /\ published = FALSE
    /\ failure = NoFailure

Stop(f) == /\ failure' = f
           /\ pc' = "unwind"

\* main starts the worker before it confines the process; a failure to
\* start it is kept for later.
Spawn ==
    /\ pc = "spawn"
    /\ pc' = "sandbox"
    /\ worker' \in IF scan_worker_spawned(args) THEN {"none", "receiving"} ELSE {"none"}
    /\ UNCHANGED << args, repository, handler, answer, rights, preparation, stdout, store, found,
                    rollback, published, failure, other >>

Sandbox ==
    /\ pc = "sandbox"
    /\ \/ pc' = "dispatch" /\ UNCHANGED failure
       \/ Stop(Fail("V1", 70))
    /\ UNCHANGED << args, repository, handler, worker, answer, rights, preparation, stdout, store,
                    found, rollback, published, other >>

\* main's choice of a handler from the arguments alone; refresh is Refresh's subject.
Entry(a) ==
    IF scan_worker_spawned(a) \/ a.profile = "s4" THEN "run_s4"
    ELSE CASE a.profile = "s3" -> "run_s3"
           [] a.profile = "s2" -> "run_s2"
           [] a.profile \in {"s1", "s5", "other"} -> "run_s1"
           [] a.profile = "absent" -> "run_s0"

ParsedBy(a) ==
    CASE Entry(a) = "run_s4" -> parse_s4_invocation(a)
      [] Entry(a) = "run_s3" -> parse_command(a, "scan", "s3")
      [] Entry(a) = "run_s2" -> parse_command(a, "scan", "s2")
      [] Entry(a) = "run_s1" -> parse_command(a, "scan", "s1")
      [] Entry(a) = "run_s0" -> parse_command(a, "scan", "absent")

HandlerOf(a, inv) ==
    CASE Entry(a) = "run_s4" -> run_s4(inv.flags)
      [] Entry(a) = "run_s3" -> run_s3
      [] Entry(a) = "run_s2" -> run_s2
      [] Entry(a) = "run_s1" -> run_s1
      [] Entry(a) = "run_s0" -> run_s0

\* What becomes of each invocation: refused with a failure, or its handler.
Decided(a, parsed) ==
    IF parsed.ok THEN [ok |-> TRUE, handler |-> HandlerOf(a, parsed.inv), failure |-> NoFailure,
                       flags |-> parsed.inv.flags]
    ELSE [ok |-> FALSE, handler |-> NoHandler, flags |-> {},
          failure |-> IF Entry(a) = "run_s4" THEN s4_refusal(a, parsed.error)
                      ELSE invocation_failure(parsed.error)]
Decision(a) == Decided(a, ParsedBy(a))

Decisions == [a \in {s.args : s \in Starts} |-> Decision(a)]

Dispatch ==
    /\ pc = "dispatch"
    /\ \E d \in {Decisions[args]} :
           \/ /\ ~d.ok
              /\ Stop(d.failure)
              /\ UNCHANGED handler
           \/ /\ d.ok /\ d.handler.worker /\ worker = "none"
              /\ Stop(Internal(d.handler.lane))
              /\ UNCHANGED handler
           \/ /\ d.ok /\ (d.handler.worker => worker # "none")
              /\ handler' = d.handler
              /\ pc' = IF d.handler.worker THEN "prepare" ELSE "prepare_store"
              /\ UNCHANGED failure
    /\ UNCHANGED << args, repository, worker, answer, rights, preparation, stdout, store, found,
                    rollback, published, other >>

---------------------------------------------------------------------------
(* The worker lineages: what the main thread reads before the scan.        *)

Prepare ==
    /\ pc = "prepare"
    /\ \/ handler.nested /\ args.bmanifest = "file" /\ \E exit \in {2, 10} : Stop(Fail(handler.confined, exit))
       \/ handler.index /\ Stop(Fail(handler.lane, 10))
       \/ pc' = "send" /\ UNCHANGED failure
    /\ UNCHANGED << args, repository, handler, worker, answer, rights, preparation, stdout, store,
                    found, rollback, published, other >>

---------------------------------------------------------------------------
(* ScanWorker: both channels are rendezvous channels, so a send and the    *)
(* receive it meets are one step of both threads.                          *)

SendJob ==
    /\ pc = "send" /\ worker = "receiving"
    /\ pc' = "await"
    /\ worker' = "confining"
    /\ UNCHANGED << args, repository, handler, answer, rights, preparation, stdout, store, found,
                    rollback, published, failure, other >>

\* The layer the job installs on its thread before it reads anything.
ScanLayer ==
    CASE handler.index -> {"source", "index"} \cup (IF handler.nested THEN {"nested"} ELSE {})
      [] ~handler.index /\ handler.nested /\ args.bmanifest = "file" -> {"source", "nested"}
      [] OTHER -> {"source"}

\* Without a repository directory there is nothing to confine to, and only
\* the plain read-only boundary lets the scan report that itself.
run_confined_scan ==
    /\ worker = "confining"
    /\ LET plain == ~handler.index /\ ~(handler.nested /\ args.bmanifest = "file")
       IN  \/ /\ repository
              /\ rights' = [rights EXCEPT !["worker"] = @ \cap ScanLayer]
              /\ worker' = "scanning"
              /\ UNCHANGED answer
           \/ /\ ~repository /\ plain
              /\ worker' = "scanning"
              /\ UNCHANGED << rights, answer >>
           \/ /\ repository \/ ~plain
              /\ answer' = "refused"
              /\ worker' = "answering"
              /\ UNCHANGED rights
    /\ UNCHANGED << args, repository, pc, handler, preparation, stdout, store, found, rollback,
                    published, failure, other >>

WorkerScans ==
    /\ worker = "scanning"
    /\ \/ /\ answer' \in IF repository THEN handler.errors \cup {"ok"} ELSE {"acquisition", "internal"}
          /\ worker' = "answering"
       \/ /\ worker' = "panicking"
          /\ UNCHANGED answer
    /\ UNCHANGED << args, repository, pc, handler, rights, preparation, stdout, store, found,
                    rollback, published, failure, other >>

WorkerAnswers ==
    /\ worker = "answering" /\ pc = "await"
    /\ worker' = "finishing"
    /\ pc' = "join"
    /\ UNCHANGED << args, repository, handler, answer, rights, preparation, stdout, store, found,
                    rollback, published, failure, other >>

\* The thread ends: after its answer, by a panic, or because the sender was
\* dropped before any job was sent.
WorkerEnds ==
    /\ \/ worker \in {"finishing", "panicking"}
       \/ worker = "receiving" /\ pc = "drop"
    /\ worker' = "dead"
    /\ UNCHANGED << args, repository, pc, handler, answer, rights, preparation, stdout, store, found,
                    rollback, published, failure, other >>

\* The job panicked: its end of the result channel is gone.
AwaitFails ==
    /\ pc = "await" /\ worker \in {"panicking", "dead"}
    /\ Stop(Internal(handler.lane))
    /\ UNCHANGED << args, repository, handler, worker, answer, rights, preparation, stdout, store,
                    found, rollback, published, other >>

Join ==
    /\ pc = "join" /\ worker = "dead"
    /\ CASE answer = "ok" -> pc' = "deadline" /\ UNCHANGED failure
         [] answer = "refused" -> Stop(Internal(handler.lane))
         [] OTHER -> Stop(scan_failure(handler.lane, answer))
    /\ UNCHANGED << args, repository, handler, worker, answer, rights, preparation, stdout, store,
                    found, rollback, published, other >>

---------------------------------------------------------------------------
(* After the scan.                                                         *)

Upgraded(f) ==
    CASE handler.upgrade = "none" -> f
      [] handler.upgrade = "limit" -> limit_upgrade(f, handler.lane)
      [] handler.upgrade = "acquisition" -> acquisition_upgrade(f, handler.lane)

\* S3 and the base S4 publish first and serialize last; S0 has no deadline.
enforce_scan_deadline ==
    /\ pc = "deadline"
    /\ \/ pc' = (IF handler.worker THEN "serialize" ELSE IF Stored(handler) THEN "prepared" ELSE "done")
          /\ UNCHANGED failure
       \/ Stop(Upgraded(Plain("Limit")))
    /\ UNCHANGED << args, repository, handler, worker, answer, rights, preparation, stdout, store,
                    found, rollback, published, other >>

LimitFailure == IF handler.limit \in {"Limit", "Knowledge"} THEN Plain(handler.limit) ELSE Fail(handler.limit, 10)

serialize ==
    /\ pc = "serialize"
    /\ \/ /\ stdout' = TRUE
          /\ pc' = (IF handler.worker THEN "look" ELSE IF Stored(handler) \/ handler.schema = 1
                    THEN "done" ELSE "deadline")
          /\ UNCHANGED failure
       \/ handler.schema # 1 /\ Stop(LimitFailure) /\ UNCHANGED stdout
       \/ Stop(Internal(handler.lane)) /\ UNCHANGED stdout
       \/ handler.schema = 5 /\ Stop(Fail("V9", 10)) /\ UNCHANGED stdout
    /\ UNCHANGED << args, repository, handler, worker, answer, rights, preparation, store, found,
                    rollback, published, other >>

\* @mutant: the guard is never armed.
LookUnarmed ==
    /\ pc = "look"
    /\ rollback' = "disarmed"
    /\ pc' = "ensure"
    /\ UNCHANGED << args, repository, handler, worker, answer, rights, preparation, stdout, store,
                    found, published, failure, other >>

\* store_was_absent decides whether EmptyStoreRollback is armed.
LookAtStore ==
    /\ pc = "look"
    /\ rollback' = IF store = "absent" THEN "armed" ELSE "disarmed"
    /\ pc' = "ensure"
    /\ UNCHANGED << args, repository, handler, worker, answer, rights, preparation, stdout, store,
                    found, published, failure, other >>

Created == IF store = "absent" THEN "empty" ELSE store

ensure_store_root_for_boundary ==
    /\ pc = "ensure"
    /\ \/ store' = Created /\ pc' = "confine" /\ UNCHANGED failure
       \/ Stop(Plain("Storage")) /\ UNCHANGED store
    /\ UNCHANGED << args, repository, handler, worker, answer, rights, preparation, stdout, found,
                    rollback, published, other >>

StoreLayer == {"source", "store"} \cup (IF handler.nested THEN {"nested"} ELSE {})

ConfineMain ==
    /\ pc = "confine"
    /\ \/ /\ store # "absent"
          /\ rights' = [rights EXCEPT !["main"] = @ \cap StoreLayer]
          /\ pc' = "open" /\ UNCHANGED failure
       \/ Stop(Internal(handler.confined)) /\ UNCHANGED rights
    /\ UNCHANGED << args, repository, handler, worker, answer, preparation, stdout, store, found,
                    rollback, published, other >>

OpenStore ==
    /\ pc = "open"
    /\ \/ store # "absent" /\ store' = "used" /\ pc' = "publish" /\ UNCHANGED failure
       \/ Stop(Plain("Storage")) /\ store' \in {store, IF store = "empty" THEN "used" ELSE store}
    /\ UNCHANGED << args, repository, handler, worker, answer, rights, preparation, stdout, found,
                    rollback, published, other >>

\* PublicationService::publish_v<n>, then the best effort cache entries.
Publish ==
    /\ pc = "publish"
    /\ \/ /\ published' = TRUE
          /\ rollback' = "disarmed"
          /\ pc' = (IF handler.worker THEN "done" ELSE "serialize")
          /\ UNCHANGED failure
       \/ /\ \E f \in {Plain("Storage"), Internal(handler.commit)} : Stop(f)
          /\ UNCHANGED << published, rollback >>
    /\ UNCHANGED << args, repository, handler, worker, answer, rights, preparation, stdout, store,
                    found, other >>

---------------------------------------------------------------------------
(* The handlers that scan on the main thread.                              *)

\* S3 and the base S4 create the store first and keep a failure for later.
PrepareStore ==
    /\ pc = "prepare_store"
    /\ IF Stored(handler)
       THEN \/ store' = Created /\ preparation' = "ok"
            \/ UNCHANGED store /\ preparation' = "failed"
       ELSE UNCHANGED << store, preparation >>
    /\ pc' = "confine_scan"
    /\ UNCHANGED << args, repository, handler, worker, answer, rights, stdout, found, rollback,
                    published, failure, other >>

\* S0 runs without a layer of its own; so does a path that is no directory.
ConfineScan ==
    /\ pc = "confine_scan"
    /\ LET layer == CASE preparation = "ok" -> {"source", "store"}
                      [] preparation # "ok" /\ handler.schema # 1 /\ repository -> {"source"}
                      [] OTHER -> Rights
       IN  \/ /\ preparation = "ok" => repository
              /\ rights' = [rights EXCEPT !["main"] = @ \cap layer]
              /\ pc' = "scan" /\ UNCHANGED failure
           \/ layer # Rights /\ Stop(Internal("Internal")) /\ UNCHANGED rights
    /\ UNCHANGED << args, repository, handler, worker, answer, preparation, stdout, store, found,
                    rollback, published, other >>

MainScans ==
    /\ pc = "scan"
    /\ \/ repository /\ pc' = (IF Stored(handler) THEN "deadline" ELSE "serialize") /\ UNCHANGED failure
       \/ \E e \in IF repository THEN handler.errors ELSE {"acquisition", "internal"} :
             Stop(main_scan_failure(e))
    /\ UNCHANGED << args, repository, handler, worker, answer, rights, preparation, stdout, store,
                    found, rollback, published, other >>

PreparationResult ==
    /\ pc = "prepared"
    /\ IF preparation = "ok" THEN pc' = "open" /\ UNCHANGED failure ELSE Stop(Plain("Storage"))
    /\ UNCHANGED << args, repository, handler, worker, answer, rights, preparation, stdout, store,
                    found, rollback, published, other >>

---------------------------------------------------------------------------
(* The end.                                                                *)

\* @mutant: the root is removed with whatever it holds.
UnwindAll ==
    /\ pc = "unwind"
    /\ store' = IF rollback = "armed" /\ "parent" \in rights["main"] THEN "absent" ELSE store
    /\ failure' = envelope(args, failure)
    /\ pc' = "drop"
    /\ UNCHANGED << args, repository, handler, worker, answer, rights, preparation, stdout, found,
                    rollback, published, other >>

\* The handler returns with an error: EmptyStoreRollback is dropped.  An
\* empty directory goes, if the thread's layers still let it.
Unwind ==
    /\ pc = "unwind"
    /\ store' = IF rollback = "armed" /\ store = "empty" /\ "parent" \in rights["main"]
                THEN "absent" ELSE store
    /\ failure' = envelope(args, failure)
    /\ pc' = "drop"
    /\ UNCHANGED << args, repository, handler, worker, answer, rights, preparation, stdout, found,
                    rollback, published, other >>

WriteAnswer ==
    /\ pc = "done"
    /\ pc' = "drop"
    /\ failure' \in {NoFailure, StdoutEnvelope(args)}
    /\ UNCHANGED << args, repository, handler, worker, answer, rights, preparation, stdout, store,
                    found, rollback, published, other >>

\* ScanWorker is dropped: main waits for the thread if run has not.
Exit ==
    /\ pc = "drop" /\ worker \in {"none", "dead"}
    /\ pc' = "exit"
    /\ UNCHANGED << args, repository, handler, worker, answer, rights, preparation, stdout, store,
                    found, rollback, published, failure, other >>

---------------------------------------------------------------------------
(* Another scan of the same store root, which saw it absent as well.       *)

OtherScan ==
    /\ \/ other = "idle" /\ store = "absent" /\ other' = "armed" /\ UNCHANGED store
       \/ other = "armed" /\ other' = "created" /\ store' = Created
       \/ other = "created" /\ store # "absent" /\ other' = "done" /\ store' = "used"
       \/ other = "created" /\ other' = "done" /\ store' = IF store = "empty" THEN "absent" ELSE store
    /\ UNCHANGED << args, repository, pc, handler, worker, answer, rights, preparation, stdout, found,
                    rollback, published, failure >>

MainStep ==
    \/ Spawn \/ Sandbox \/ Dispatch \/ Prepare \/ SendJob \/ AwaitFails \/ Join
    \/ enforce_scan_deadline \/ serialize \/ LookAtStore \/ ensure_store_root_for_boundary
    \/ ConfineMain \/ OpenStore \/ Publish
    \/ PrepareStore \/ ConfineScan \/ MainScans \/ PreparationResult
    \/ Unwind \/ WriteAnswer \/ Exit

WorkerStep == run_confined_scan \/ WorkerScans \/ WorkerAnswers \/ WorkerEnds

Done == pc = "exit" /\ UNCHANGED vars

Next == MainStep \/ WorkerStep \/ OtherScan \/ Done

\* Both threads are scheduled; the other process may stop.
Spec == Init /\ [][Next]_vars /\ WF_vars(MainStep) /\ WF_vars(WorkerStep)

---------------------------------------------------------------------------
(* Properties.                                                             *)

\* The profiles a line asks for.
Asked(a) ==
    { o \in {"workspace", "manifest", "framework", "callable", "expression", "flow", "constant",
             "compiler", "boundary"} : option_requested(a, o) }
    \cup { f \in {"semantic"} : rust_semantic_requested(a) }
    \cup { f \in {"cfg"} : rust_cfg_alternatives_requested(a) }

\* Each profile stands on the ones it is built on.
WellBuilt(flags) ==
    /\ flags \cap {"semantic", "cfg"} # {} => {"workspace", "manifest"} \subseteq flags
    /\ "framework" \in flags => flags \cap {"semantic", "cfg"} # {}
    /\ flags \cap {"callable", "compiler"} # {} => "framework" \in flags
    /\ "expression" \in flags => "callable" \in flags /\ "compiler" \notin flags
    /\ "flow" \in flags => "expression" \in flags
    /\ "constant" \in flags => "flow" \in flags

\* No parser drops a selector: an accepted line runs with exactly the profiles it
\* asked for, and a profile runs only over the ones it is built on.
SelectorsHonoured ==
    \A d \in {Decisions[args]} : d.ok => d.flags = Asked(args) /\ WellBuilt(d.flags)

\* A failure reported in ErrorV9, the envelope of nested repositories, leaves no
\* trace in the store, whichever step of the scan failed: the root is what it was,
\* unless another process changed it.  Only an answer that was published and then
\* could not be written is excepted.
V9LeavesStore ==
    (pc = "exit" /\ failure.lane = "V9" /\ ~published /\ other \in {"idle", "never"}) => store = found

\* Removing an unused store root never takes a store that holds anything.
UsedStoreStays == [][store = "used" => store' = "used"]_vars

=============================================================================
