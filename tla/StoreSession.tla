---------------------------- MODULE StoreSession ----------------------------
(***************************************************************************)
(* The scan commands of `noesis` around one store root: each is a fixed    *)
(* sequence of steps that scans, makes and confines itself to the root,    *)
(* initializes or opens the store, publishes and reports.  Several         *)
(* processes run them at once, fail at any step, and may be killed.        *)
(*                                                                         *)
(*   run_s3, run_s4, run_s4_*   crates/noesis/src/main.rs                  *)
(*   LocalStore::open           crates/codenoesis-store-local/src/lib.rs   *)
(*   prepare, ensure_root       crates/codenoesis-store-local/src/path.rs  *)
(*   SqliteMetadataStore::open  crates/codenoesis-store-local/src/sqlite.rs*)
(*                                                                         *)
(* Publication itself is LocalStore; here it is one step that may fail     *)
(* before or after its commit.                                             *)
(***************************************************************************)
EXTENDS Naturals, Sequences

CONSTANTS
    Session,    \* processes
    Command     \* the handlers they run, a subset of Handlers

\* What can be on disk under the store path.
Layout == {"root", "objects", "blake3", "tmp", "database", "schema", "store.json"}

-----------------------------------------------------------------------------
(* The handlers, as the sequence of their store-visible steps *)

\* ensure_root: look for the root, make it if it is not there.
EnsureRoot == <<"look", "make">>

\* LocalStore::open: ensure_root again, then classify, then the layout.
Open == EnsureRoot \o
    <<"classify", "objects", "blake3", "tmp", "database", "schema", "store.json">>

\* The two oldest profiles make the root first and serialize last.  An error of
\* their ensure_root is returned after the scan, which changes nothing here.
run_s3 == EnsureRoot \o <<"confine", "scan", "deadline">> \o Open \o
    <<"publish", "serialize", "report">>
run_s4 == EnsureRoot \o <<"confine", "scan", "deadline">> \o Open \o
    <<"publish", "cache", "serialize", "report">>

\* The later ones scan on the confined worker and touch the store only once
\* their output is serialized.
BeforeCache == <<"scan", "deadline", "serialize", "absent">> \o EnsureRoot \o
    <<"confine">> \o Open \o <<"publish", "disarm">>
Confined == BeforeCache \o <<"cache", "report">>
WithManifest(steps) == <<"manifest">> \o steps
WithCompilerIndex(steps) == <<"index">> \o steps

run_s4_k1 == Confined
run_s4_r3 == Confined
run_s4_r4 == Confined
run_s4_r5 == Confined
run_s4_r6 == Confined
run_s4_r7 == WithCompilerIndex(Confined)
run_s4_r10 == Confined
run_s4_r12 == Confined
run_s4_r13 == WithCompilerIndex(Confined)
run_s4_r14 == Confined
run_s4_r15 == Confined
run_s4_r16 == Confined
run_s4_boundaries == WithManifest(Confined)
run_s4_r3_boundaries == WithManifest(Confined)
run_s4_r4_boundaries == WithManifest(Confined)
run_s4_r5_boundaries == WithManifest(Confined)
run_s4_r6_boundaries == WithManifest(Confined)
run_s4_r7_boundaries == WithManifest(WithCompilerIndex(Confined))
run_s4_r10_boundaries == WithManifest(Confined)
run_s4_r11_boundaries == WithManifest(Confined)
run_s4_r12_boundaries == WithManifest(Confined)
run_s4_r14_boundaries == WithManifest(Confined)
run_s4_r15_boundaries == WithManifest(Confined)
run_s4_r16_boundaries == WithManifest(Confined)

\* Java and Kotlin scans stage no analysis cache.
scan_java == BeforeCache \o <<"report">>
scan_kotlin == BeforeCache \o <<"report">>

Handlers ==
    {run_s3, run_s4, run_s4_k1, run_s4_r3, run_s4_r4, run_s4_r5, run_s4_r6,
     run_s4_r7, run_s4_r10, run_s4_r12, run_s4_r13, run_s4_r14, run_s4_r15,
     run_s4_r16, run_s4_boundaries, run_s4_r3_boundaries, run_s4_r4_boundaries,
     run_s4_r5_boundaries, run_s4_r6_boundaries, run_s4_r7_boundaries,
     run_s4_r10_boundaries, run_s4_r11_boundaries, run_s4_r12_boundaries,
     run_s4_r14_boundaries, run_s4_r15_boundaries, run_s4_r16_boundaries,
     scan_java, scan_kotlin}

CommandAssumption == Command \subseteq Handlers
ASSUME KnownCommands == CommandAssumption

-----------------------------------------------------------------------------
VARIABLES
    disk,       \* the part of Layout that exists
    committed,  \* a snapshot has been committed to the store's database
    todo,       \* the steps a session still has to take, empty when idle
    seen,       \* ensure_root found the root
    fresh,      \* the root was empty when it was classified
    armed,      \* EmptyStoreRollback will act
    boundary,   \* "none", confined to the "current" root or to one "removed" since
    landlock,   \* the machine is a Linux, where a confined process has no rights
                \* outside the repository and the root it was confined to
    faulted     \* some call has failed or some process has been killed

sessionVars == <<disk, committed, todo, seen, fresh, armed, boundary, landlock,
                 faulted>>

SessionInit ==
    /\ disk = {}
    /\ committed = FALSE
    /\ todo = [c \in Session |-> <<>>]
    /\ seen = [c \in Session |-> FALSE]
    /\ fresh = [c \in Session |-> FALSE]
    /\ armed = [c \in Session |-> FALSE]
    /\ boundary = [c \in Session |-> "none"]
    /\ landlock \in BOOLEAN
    /\ faulted = FALSE

Empty == disk = {"root"}

\* The next step of session c is one of these.
At(c, steps) == todo[c] # <<>> /\ Head(todo[c]) \in steps
Advance(c) == todo' = [todo EXCEPT ![c] = Tail(@)]

\* c may not change the directory that holds the root.
Shut(c) == boundary[c] # "none"

\* c may work below the root.
Reaches(c) == "root" \in disk /\ boundary[c] # "removed"

\* The process is gone, and with it its locals.  A boundary names a directory,
\* not a path: others confined to a root that goes stay confined to that one.
EndCommand(c) ==
    /\ todo' = [todo EXCEPT ![c] = <<>>]
    /\ seen' = [seen EXCEPT ![c] = FALSE]
    /\ fresh' = [fresh EXCEPT ![c] = FALSE]
    /\ armed' = [armed EXCEPT ![c] = FALSE]
    /\ boundary' = [s \in Session |->
         CASE s = c -> "none"
           [] s # c /\ boundary[s] = "current" /\ "root" \notin disk' -> "removed"
           [] OTHER -> boundary[s]]

\* Mutant: the rollback removes the root with all that is in it.
RollbackAll(c) == disk' = IF armed[c] /\ ~Shut(c) THEN {} ELSE disk

\* EmptyStoreRollback::drop, remove_dir: only an empty root goes.
Rollback(c) == disk' = IF armed[c] /\ Empty /\ ~Shut(c) THEN {} ELSE disk

\* An early return of the handler.
Abort(c) == Rollback(c) /\ EndCommand(c) /\ UNCHANGED committed

-----------------------------------------------------------------------------
(* Steps before the store *)

BeginCommand(c) ==
    /\ todo[c] = <<>>
    /\ \E steps \in Command : todo' = [todo EXCEPT ![c] = steps]
    /\ UNCHANGED <<disk, committed, seen, fresh, armed, boundary>>

\* Steps that leave the store alone: their error ends the command.
Compute(c) ==
    /\ At(c, {"manifest", "index", "scan", "deadline", "serialize"})
    /\ \/ Advance(c) /\ UNCHANGED <<disk, committed, seen, fresh, armed, boundary>>
       \/ Abort(c)

\* store_was_absent, EmptyStoreRollback::new
NoteAbsent(c) ==
    /\ At(c, {"absent"})
    /\ armed' = [armed EXCEPT ![c] = "root" \notin disk]
    /\ Advance(c)
    /\ UNCHANGED <<disk, committed, seen, fresh, boundary>>

\* ensure_root: root.exists() ...
Look(c) ==
    /\ At(c, {"look"})
    /\ seen' = [seen EXCEPT ![c] = "root" \in disk]
    /\ Advance(c)
    /\ UNCHANGED <<disk, committed, fresh, armed, boundary>>

\* ... and create_directory_noclobber, which fails if the root is there by now.
Make(c) ==
    /\ At(c, {"make"})
    /\ \/ /\ seen[c]
          /\ Advance(c)
          /\ UNCHANGED <<disk, committed, seen, fresh, armed, boundary>>
       \/ /\ ~seen[c] /\ "root" \notin disk /\ ~Shut(c)
          /\ disk' = {"root"}
          /\ Advance(c)
          /\ UNCHANGED <<committed, seen, fresh, armed, boundary>>
       \/ /\ ~seen[c] /\ ("root" \in disk \/ Shut(c))
          /\ Abort(c)

\* install_s3_filesystem_boundary opens the root to name it; elsewhere than on
\* Linux it does nothing.
Confine(c) ==
    /\ At(c, {"confine"})
    /\ \/ /\ landlock => "root" \in disk
          /\ boundary' = [boundary EXCEPT ![c] = IF landlock THEN "current" ELSE @]
          /\ Advance(c)
          /\ UNCHANGED <<disk, committed, seen, fresh, armed>>
       \/ landlock /\ Abort(c)

-----------------------------------------------------------------------------
(* LocalStore::open *)

\* prepare and classify_existing_root: a root that has gone again is made anew,
\* an empty one is initialized, a marked one opened, any other refused.
Classify(c) ==
    /\ At(c, {"classify"})
    /\ \/ /\ Reaches(c)
          /\ Empty \/ "store.json" \in disk
          /\ fresh' = [fresh EXCEPT ![c] = Empty]
          /\ Advance(c)
          /\ UNCHANGED <<disk, committed, seen, armed, boundary>>
       \/ /\ "root" \notin disk /\ ~Shut(c)
          /\ disk' = {"root"}
          /\ fresh' = [fresh EXCEPT ![c] = TRUE]
          /\ Advance(c)
          /\ UNCHANGED <<committed, seen, armed, boundary>>
       \/ /\ ~Reaches(c) /\ ("root" \in disk \/ Shut(c))
          /\ Abort(c)
       \/ /\ Reaches(c) /\ ~Empty /\ "store.json" \notin disk
          /\ Abort(c)

\* One part of the layout: made by a fresh opener, which fails if it is there
\* already, verified by any other, which fails if it is not.
LayDown(c, part) ==
    /\ At(c, {part})
    /\ \/ /\ Reaches(c)
          /\ fresh[c] <=> part \notin disk
          /\ disk' = disk \cup {part}
          /\ Advance(c)
          /\ UNCHANGED <<committed, seen, fresh, armed, boundary>>
       \/ /\ Reaches(c) => ~(fresh[c] <=> part \notin disk)
          /\ Abort(c)

-----------------------------------------------------------------------------
(* Steps after the store is open *)

\* PublicationService::publish: commits, or fails before or after its commit.
Publish(c) ==
    /\ At(c, {"publish"})
    /\ \/ /\ committed' = TRUE
          /\ Advance(c)
          /\ UNCHANGED <<disk, seen, fresh, armed, boundary>>
       \/ /\ committed' \in {committed, TRUE}
          /\ Rollback(c) /\ EndCommand(c)

Disarm(c) ==
    /\ At(c, {"disarm"})
    /\ armed' = [armed EXCEPT ![c] = FALSE]
    /\ Advance(c)
    /\ UNCHANGED <<disk, committed, seen, fresh, boundary>>

\* stage_analysis_cache_best_effort: every failure is ignored.
StageCache(c) ==
    /\ At(c, {"cache"})
    /\ Advance(c)
    /\ UNCHANGED <<disk, committed, seen, fresh, armed, boundary>>

\* main writes the bytes the handler returned and exits.
Report(c) == At(c, {"report"}) /\ Abort(c)

-----------------------------------------------------------------------------
(* Failures and the specifications *)

\* A call of the step at hand fails in the file system or in SQLite.
CallFails(c) ==
    /\ At(c, Layout \cup {"look", "make", "classify"})
    /\ Abort(c)

\* The process is killed: no destructor runs.
Kill(c) ==
    /\ todo[c] # <<>>
    /\ UNCHANGED <<disk, committed>>
    /\ EndCommand(c)

HandlerStep(c) ==
    \/ BeginCommand(c) \/ Compute(c) \/ NoteAbsent(c) \/ Look(c) \/ Make(c)
    \/ Confine(c) \/ Classify(c) \/ Publish(c) \/ Disarm(c)
    \/ StageCache(c) \/ Report(c)
    \/ \E part \in Layout : LayDown(c, part)

SessionNext ==
    /\ \E c \in Session :
         \/ HandlerStep(c) /\ UNCHANGED faulted
         \/ (CallFails(c) \/ Kill(c)) /\ faulted' = TRUE
    /\ UNCHANGED landlock
SessionSpec == SessionInit /\ [][SessionNext]_sessionVars

-----------------------------------------------------------------------------
(* Properties *)

\* Once some publication has committed, no rollback, refused initialization or
\* kill of any other session makes the store unopenable again.
PublishedStoreOpens == committed => disk = Layout

=============================================================================
