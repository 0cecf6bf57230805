--------------------------- MODULE CommandsProofs ---------------------------
(***************************************************************************)
(* Proofs about the commands of one process: what the scan parsers accept, *)
(* what a failed scan leaves in the store, and what the read commands      *)
(* join and print.                                                         *)
(***************************************************************************)
EXTENDS ScanCommands, ReadCommands, NaturalsInduction, WellFoundedInduction, TLAPS

-----------------------------------------------------------------------------
(* Tables of checks                                                         *)

\* An accepting table holds no row that refuses, and answers its invocation.
LEMMA VerdictOk ==
    ASSUME NEW checks, NEW inv, Verdict(checks, inv).ok
    PROVE  /\ \A i \in 1..Len(checks) : ~checks[i][1]
           /\ Verdict(checks, inv).inv = inv
  BY Zenon DEF Verdict, Holding, Refused, Parsed

-----------------------------------------------------------------------------
(* Lines and what is taken out of them                                      *)

Fields ==
    {"command", "profile", "workspace", "manifest", "semantic", "framework", "callable", "expression",
     "flow", "constant", "limit", "capacity", "compiler", "binding", "boundary", "bmanifest",
     "acquisition", "order", "rest"}

ScanLine(a) == a = [o \in Fields |-> a[o]]

LEMMA SelectorsAreLines == ASSUME NEW a \in Selectors PROVE ScanLine(a)
  BY DEF Selectors, ScanLine, Fields

LEMMA StripLine ==
    ASSUME NEW a, ScanLine(a), NEW os
    PROVE  /\ ScanLine(Strip(a, os))
           /\ \A o \in Fields : Strip(a, os)[o] = IF o \in os THEN "absent" ELSE a[o]
  BY DEF ScanLine, Strip

LEMMA AsR5Line ==
    ASSUME NEW a, ScanLine(a)
    PROVE  /\ ScanLine(AsR5(a))
           /\ \A o \in Fields : AsR5(a)[o] = IF o = "semantic" THEN "R5" ELSE a[o]
  BY DEF ScanLine, AsR5, Fields

LEMMA AsPackedLine ==
    ASSUME NEW a, ScanLine(a)
    PROVE  /\ ScanLine(AsPacked(a))
           /\ \A o \in Fields \ {"acquisition"} : AsPacked(a)[o] = a[o]
  BY DEF ScanLine, AsPacked, Fields

-----------------------------------------------------------------------------
(* The scan parsers                                                         *)

Shaped(inv) ==
    inv = [flags |-> inv.flags, acquisition |-> inv.acquisition, capacity |-> inv.capacity,
           limit |-> inv.limit, bmanifest |-> inv.bmanifest]

\* What a parser answers for a line it accepts.
Honours(a, inv) == inv.flags = Asked(a) /\ WellBuilt(inv.flags) /\ Shaped(inv)

LEMMA PlainParse ==
    ASSUME NEW a, ScanLine(a), NEW command, NEW required, parse_command(a, command, required).ok
    PROVE  /\ Honours(a, parse_command(a, command, required).inv)
           /\ ~Any(a, UnknownOptions) /\ ~rust_cfg_alternatives_requested(a)
  <1> DEFINE loop == OptionLoop(a, command, required)
             fl == SelectedFlags(a)
             profiles == ProfileChecks(a, fl)
  <1>1. /\ Verdict(loop, NoInvocation).ok /\ Verdict(profiles, NoInvocation).ok
        /\ parse_command(a, command, required).inv = Invocation(a, fl)
    BY VerdictOk DEF parse_command, Then
  <1>2. ~Any(a, UnknownOptions)
    <2>1. Len(loop) = 5 /\ loop[2][1] <=> Any(a, UnknownOptions)
      BY DEF OptionLoop
    <2> HIDE DEF loop
    <2> QED
      BY <1>1, <2>1, VerdictOk
  <1>3. /\ ~(option_requested(a, "framework") /\ "framework" \notin fl)
        /\ ~(option_requested(a, "boundary") /\ "boundary" \notin fl)
        /\ ~(option_requested(a, "workspace") /\ "workspace" \notin fl)
        /\ ~(option_requested(a, "semantic") /\ "semantic" \notin fl)
        /\ ~(option_requested(a, "manifest") /\ "manifest" \notin fl)
        /\ ~("framework" \in fl /\ ~({"workspace", "manifest", "semantic"} \subseteq fl))
        /\ ~("semantic" \in fl /\ ~({"workspace", "manifest"} \subseteq fl))
    <2>1. /\ Len(profiles) = 8
          /\ profiles[1][1] <=> option_requested(a, "framework") /\ "framework" \notin fl
          /\ profiles[2][1] <=> Any(a, {"boundary", "bmanifest"}) /\ "boundary" \notin fl
          /\ profiles[3][1] <=> option_requested(a, "workspace") /\ "workspace" \notin fl
          /\ profiles[4][1] <=> option_requested(a, "semantic") /\ "semantic" \notin fl
          /\ profiles[5][1] <=> option_requested(a, "manifest") /\ "manifest" \notin fl
          /\ profiles[6][1] <=> "framework" \in fl /\ ~({"workspace", "manifest", "semantic"} \subseteq fl)
          /\ profiles[7][1] <=> "semantic" \in fl /\ ~({"workspace", "manifest"} \subseteq fl)
      BY Zenon DEF ProfileChecks, Any
    <2>2. \A i \in 1..8 : ~profiles[i][1]
      BY <1>1, <2>1, VerdictOk, Zenon
    <2> HIDE DEF profiles, fl
    <2> QED
      BY <2>1, <2>2 DEF Any
  <1>4. /\ fl \subseteq { o \in {"workspace", "manifest", "semantic", "framework", "boundary"} :
                            option_requested(a, o) }
        /\ "semantic" \in fl => a.semantic = "R5"
    BY DEF SelectedFlags, option_requested
  <1>5. /\ ~rust_cfg_alternatives_requested(a)
        /\ rust_semantic_requested(a) <=> option_requested(a, "semantic")
    BY <1>3, <1>4 DEF rust_cfg_alternatives_requested, rust_semantic_requested, option_requested
  <1>6. fl = Asked(a)
    BY <1>2, <1>3, <1>4, <1>5 DEF Asked, Any, UnknownOptions
  <1>7. WellBuilt(fl)
    BY <1>3, <1>4, Zenon DEF WellBuilt
  <1> QED
    BY <1>1, <1>2, <1>5, <1>6, <1>7 DEF Honours, Shaped, Invocation

LEMMA K1Parse ==
    ASSUME NEW a, ScanLine(a), parse_k1(a).ok
    PROVE  Honours(a, parse_k1(a).inv) 
  <1> DEFINE b == Strip(a, {"callable", "capacity"})
             inner == parse(b).inv
  <1>1. /\ Verdict(K1Checks(a), NoInvocation).ok
        /\ parse(b).ok
        /\ SourceProfiles \subseteq inner.flags
        /\ parse_k1(a).inv = [inner EXCEPT !.flags = @ \cup {"callable"}, !.capacity = a.capacity]
    BY DEF parse_k1, Wrapping, Refused, Parsed
  <1>2. ~NotAPlainScan(a) /\ a.callable = "K1"
    <2>1. /\ Len(K1Checks(a)) = 6
          /\ K1Checks(a)[1][1] <=> NotAPlainScan(a)
          /\ K1Checks(a)[4][1] <=> a.callable # "K1"
      BY Zenon DEF K1Checks
    <2> QED
      BY <1>1, <2>1, VerdictOk
  <1>3. Honours(b, inner) /\ ~Any(b, UnknownOptions) /\ ~rust_cfg_alternatives_requested(b)
    BY <1>1, StripLine, PlainParse DEF parse
  <1>4. Asked(a) = Asked(b) \cup {"callable"}
    BY <1>2, StripLine DEF Asked, Fields, option_requested, rust_semantic_requested,
       rust_cfg_alternatives_requested
  <1> QED
    BY <1>1, <1>3, <1>4, Zenon DEF Honours, WellBuilt, Shaped, SourceProfiles

LEMMA R7Parse ==
    ASSUME NEW a, ScanLine(a), parse_r7(a).ok
    PROVE  Honours(a, parse_r7(a).inv) /\ "expression" \notin parse_r7(a).inv.flags
  <1> DEFINE b == Strip(a, CompilerOptions)
             inner == parse(b).inv
  <1>1. /\ Verdict(R7Checks(a), NoInvocation).ok
        /\ parse(b).ok
        /\ SourceProfiles \subseteq inner.flags
        /\ parse_r7(a).inv = [inner EXCEPT !.flags = @ \cup {"compiler"}]
    BY DEF parse_r7, Wrapping, Refused, Parsed
  <1>2. a.compiler = "R7"
    <2>1. /\ Len(R7Checks(a)) = 5
          /\ R7Checks(a)[3][1] <=> a.compiler # "R7"
      BY Zenon DEF R7Checks
    <2> QED
      BY <1>1, <2>1, VerdictOk
  <1>3. Honours(b, inner) /\ "expression" \notin Asked(b)
    BY <1>1, StripLine, PlainParse DEF parse, Asked, Any, UnknownOptions
  <1>4. Asked(a) = Asked(b) \cup {"compiler"}
    BY <1>2, StripLine DEF Asked, Fields, option_requested, rust_semantic_requested,
       rust_cfg_alternatives_requested, CompilerOptions
  <1> QED
    BY <1>1, <1>3, <1>4 DEF Honours, WellBuilt, Shaped, SourceProfiles

LEMMA R6OutputParse ==
    ASSUME NEW a, ScanLine(a), parse_r6_output(a).ok
    PROVE  Honours(a, parse_r6_output(a).inv)
  <1> DEFINE b == Strip(a, {"capacity"})
             inner == parse(b).inv
  <1>1. /\ Verdict(R6OutputChecks(a), NoInvocation).ok
        /\ parse(b).ok
        /\ "framework" \in inner.flags
        /\ parse_r6_output(a).inv = [inner EXCEPT !.capacity = a.capacity]
    BY DEF parse_r6_output, Wrapping, Refused, Parsed
  <1>2. a.capacity \in {"64M", "256M"}
    <2>1. /\ Len(R6OutputChecks(a)) = 2
          /\ R6OutputChecks(a)[2][1] <=> a.capacity \notin {"64M", "256M"}
      BY Zenon DEF R6OutputChecks
    <2> QED
      BY <1>1, <2>1, VerdictOk
  <1>3. Honours(b, inner)
    BY <1>1, StripLine, PlainParse DEF parse
  <1>4. Asked(a) = Asked(b)
    BY <1>2, StripLine DEF Asked, Fields, option_requested, rust_semantic_requested,
       rust_cfg_alternatives_requested
  <1> QED
    BY <1>1, <1>3, <1>4, ZenonT(40) DEF Honours, WellBuilt, Shaped

LEMMA R10Parse ==
    ASSUME NEW a, ScanLine(a), parse_r10(a).ok
    PROVE  Honours(a, parse_r10(a).inv)
  <1> DEFINE b == AsR5(a)
             inner == parse(b).inv
  <1>1. /\ Verdict(R10Checks(a), NoInvocation).ok
        /\ parse(b).ok
        /\ {"workspace", "manifest", "semantic"} \subseteq inner.flags
        /\ parse_r10(a).inv = [inner EXCEPT !.flags = (@ \ {"semantic"}) \cup {"cfg"}]
    BY DEF parse_r10, Wrapping, Refused, Parsed
  <1>2. a.semantic = "R10"
    <2>1. /\ Len(R10Checks(a)) = 3
          /\ R10Checks(a)[3][1] <=> a.semantic # "R10"
      BY Zenon DEF R10Checks
    <2> QED
      BY <1>1, <2>1, VerdictOk, SMTT(30)
  <1>3. Honours(b, inner)
    BY <1>1, AsR5Line, PlainParse DEF parse
  <1>4. Asked(a) = (Asked(b) \ {"semantic"}) \cup {"cfg"}
    BY <1>2, AsR5Line DEF Asked, Fields, option_requested, rust_semantic_requested,
       rust_cfg_alternatives_requested
  <1> QED
    BY <1>1, <1>3, <1>4, Zenon DEF Honours, WellBuilt, Shaped

LEMMA R12Parse ==
    ASSUME NEW a, ScanLine(a), parse_r12(a).ok
    PROVE  Honours(a, parse_r12(a).inv)
  <1> DEFINE b == AsR5(Strip(a, {"callable", "capacity"}))
             inner == parse(b).inv
  <1>1. /\ Verdict(R12Checks(a), NoInvocation).ok
        /\ parse(b).ok
        /\ SourceProfiles \subseteq inner.flags
        /\ parse_r12(a).inv = [inner EXCEPT !.flags = (@ \ {"semantic"}) \cup {"cfg", "callable"},
                                      !.capacity = a.capacity]
    BY DEF parse_r12, Wrapping, Refused, Parsed
  <1>2. a.semantic = "R10" /\ a.callable = "K1"
    <2>1. /\ Len(R12Checks(a)) = 6
          /\ R12Checks(a)[3][1] <=> a.semantic \notin {"absent", "R10"} \/ a.callable \notin {"absent", "K1"}
          /\ R12Checks(a)[4][1] <=> a.semantic = "absent" \/ a.callable = "absent"
      BY Zenon DEF R12Checks
    <2>2. ~R12Checks(a)[3][1] /\ ~R12Checks(a)[4][1]
      BY <1>1, <2>1, VerdictOk
    <2> QED
      BY <2>1, <2>2
  <1>3. Honours(b, inner) /\ "compiler" \notin Asked(b)
    BY <1>1, StripLine, AsR5Line, PlainParse, Zenon DEF parse, Asked, Any, UnknownOptions
  <1>4. Asked(a) = (Asked(b) \ {"semantic"}) \cup {"cfg", "callable"}
    BY <1>2, StripLine, AsR5Line, SMTT(30) DEF Asked, Fields, option_requested, rust_semantic_requested,
       rust_cfg_alternatives_requested
  <1> QED
    BY <1>1, <1>3, <1>4, Zenon DEF Honours, WellBuilt, Shaped, SourceProfiles

LEMMA R13Parse ==
    ASSUME NEW a, ScanLine(a), parse_r13(a).ok
    PROVE  Honours(a, parse_r13(a).inv)
  <1> DEFINE b == Strip(a, {"callable"})
             inner == parse_r7(b).inv
  <1>1. /\ Verdict(R13Checks(a), NoInvocation).ok
        /\ parse_r7(b).ok
        /\ SourceProfiles \cup {"compiler"} \subseteq inner.flags
        /\ parse_r13(a).inv = [inner EXCEPT !.flags = @ \cup {"callable"}]
    BY DEF parse_r13, Wrapping, Refused, Parsed
  <1>2. a.callable = "K1"
    <2>1. /\ Len(R13Checks(a)) = 3
          /\ R13Checks(a)[3][1] <=> a.callable # "K1"
      BY Zenon DEF R13Checks
    <2> QED
      BY <1>1, <2>1, VerdictOk, SMTT(30)
  <1>3. Honours(b, inner) /\ "expression" \notin inner.flags
    BY <1>1, StripLine, R7Parse
  <1>4. Asked(a) = Asked(b) \cup {"callable"}
    BY <1>2, StripLine DEF Asked, Fields, option_requested, rust_semantic_requested,
       rust_cfg_alternatives_requested
  <1> QED
    BY <1>1, <1>3, <1>4 DEF Honours, WellBuilt, Shaped, SourceProfiles

LEMMA R14Parse ==
    ASSUME NEW a, ScanLine(a), parse_r14(a).ok
    PROVE  Honours(a, parse_r14(a).inv)
  <1> DEFINE b == Strip(a, {"expression", "capacity"})
             inner == IF boundary_requested(a) \/ rust_cfg_alternatives_requested(a)
                      THEN parse_r12(b) ELSE parse_k1(b)
  <1>1. /\ Verdict(R14Checks(a), NoInvocation).ok
        /\ inner.ok
        /\ {"workspace", "manifest", "framework", "callable"} \subseteq inner.inv.flags
        /\ "compiler" \notin inner.inv.flags
        /\ parse_r14(a).inv = [inner.inv EXCEPT !.flags = @ \cup {"expression"}, !.capacity = a.capacity]
    BY Zenon DEF parse_r14, Wrapping, Refused, Parsed
  <1>2. a.expression = "R14"
    <2>1. /\ Len(R14Checks(a)) = 5
          /\ R14Checks(a)[4][1] <=> a.expression # "R14"
      BY Zenon DEF R14Checks
    <2> QED
      BY <1>1, <2>1, VerdictOk, SMTT(30)
  <1>3. Honours(b, inner.inv)
    BY <1>1, StripLine, R12Parse, K1Parse, Zenon
  <1>4. Asked(a) = Asked(b) \cup {"expression"}
    BY <1>2, StripLine DEF Asked, Fields, option_requested, rust_semantic_requested,
       rust_cfg_alternatives_requested
  <1> HIDE DEF inner
  <1> QED
    BY <1>1, <1>3, <1>4, Zenon DEF Honours, WellBuilt, Shaped

LEMMA R15Parse ==
    ASSUME NEW a, ScanLine(a), parse_r15(a).ok
    PROVE  Honours(a, parse_r15(a).inv)
  <1> DEFINE b == Strip(a, {"flow"})
             inner == parse_r14(b).inv
  <1>1. /\ Verdict(R15Checks(a), NoInvocation).ok
        /\ parse_r14(b).ok
        /\ "expression" \in inner.flags
        /\ parse_r15(a).inv = [inner EXCEPT !.flags = @ \cup {"flow"}]
    BY DEF parse_r15, Wrapping, Refused, Parsed
  <1>2. a.flow = "R15"
    <2>1. /\ Len(R15Checks(a)) = 4
          /\ R15Checks(a)[4][1] <=> a.flow # "R15"
      BY Zenon DEF R15Checks
    <2> QED
      BY <1>1, <2>1, VerdictOk, SMTT(30)
  <1>3. Honours(b, inner)
    BY <1>1, StripLine, R14Parse
  <1>4. Asked(a) = Asked(b) \cup {"flow"}
    BY <1>2, StripLine DEF Asked, Fields, option_requested, rust_semantic_requested,
       rust_cfg_alternatives_requested
  <1> QED
    BY <1>1, <1>3, <1>4, Zenon DEF Honours, WellBuilt, Shaped

LEMMA R16Parse ==
    ASSUME NEW a, ScanLine(a), parse_r16(a).ok
    PROVE  Honours(a, parse_r16(a).inv)
  <1> DEFINE b == AsPacked(Strip(a, {"constant", "limit"}))
             inner == parse_r15(b).inv
  <1>1. /\ Verdict(R16Checks(a), NoInvocation).ok
        /\ parse_r15(b).ok
        /\ "flow" \in inner.flags
        /\ parse_r16(a).inv = [inner EXCEPT !.flags = @ \cup {"constant"}, !.acquisition = a.acquisition,
                                          !.limit = a.limit]
    BY Zenon DEF parse_r16, Wrapping, Refused, Parsed
  <1>2. a.constant = "R16"
    <2>1. /\ Len(R16Checks(a)) = 4
          /\ R16Checks(a)[3][1] <=> a.constant # "R16"
      BY Zenon DEF R16Checks
    <2>2. ~R16Checks(a)[3][1]
      BY <1>1, <2>1, VerdictOk
    <2> QED
      BY <2>1, <2>2
  <1>3. Honours(b, inner)
    BY <1>1, StripLine, AsPackedLine, R15Parse
  <1>4. Asked(a) = Asked(b) \cup {"constant"}
    BY <1>2, StripLine, AsPackedLine DEF Asked, Fields, option_requested, rust_semantic_requested,
       rust_cfg_alternatives_requested
  <1> QED
    BY <1>1, <1>3, <1>4, Zenon DEF Honours, WellBuilt, Shaped

LEMMA S4Parse ==
    ASSUME NEW a, ScanLine(a), parse_s4_invocation(a).ok
    PROVE  Honours(a, parse_s4_invocation(a).inv)
  <1>1. parse_s4_invocation(a) \in
          { parse_r16(a), parse_r15(a), parse_r14(a), parse_r13(a), parse_r12(a), parse_r10(a),
            parse_r6_output(a), parse_k1(a), parse_r7(a), parse(a) }
    BY DEF parse_s4_invocation
  <1> QED
    BY <1>1, R16Parse, R15Parse, R14Parse, R13Parse, R12Parse, R10Parse, R6OutputParse, K1Parse,
       R7Parse, PlainParse, Zenon DEF parse

Started == args \in { s.args : s \in Starts }

LEMMA StartedStep == ASSUME Started, [Next]_vars PROVE Started'
  BY Zenon DEF Started, Next, MainStep, WorkerStep, OtherScan, Done, vars, Spawn, Sandbox, Dispatch,
     Prepare, SendJob, AwaitFails, Join, enforce_scan_deadline, serialize, LookAtStore,
     ensure_store_root_for_boundary, ConfineMain, OpenStore, Publish, PrepareStore, ConfineScan,
     MainScans, PreparationResult, Unwind, WriteAnswer, Exit, run_confined_scan, WorkerScans,
     WorkerAnswers, WorkerEnds

\* Every parser is faithful to the line, whatever its options and their values: an
\* accepted line runs with exactly the profiles it asked for.
THEOREM SelectorsAlwaysHonoured == Spec => []SelectorsHonoured
  <1>1. Init => Started
    BY DEF Init, Started
  <1>3. ASSUME NEW a \in { s.args : s \in Starts }, Decision(a).ok
        PROVE  Decision(a).flags = Asked(a) /\ WellBuilt(Decision(a).flags)
    <2>1. ScanLine(a) /\ a \in Selectors
      BY StartsAssumption, SelectorsAreLines
    <2>2. ParsedBy(a).ok /\ Decision(a).flags = ParsedBy(a).inv.flags
      BY <1>3, Zenon DEF Decision, Decided
    <2>3. Entry(a) \in {"run_s4", "run_s3", "run_s2", "run_s1", "run_s0"}
      BY <2>1 DEF Entry, Selectors
    <2>4. \/ ParsedBy(a) = parse_s4_invocation(a)
          \/ \E required \in {"s3", "s2", "s1", "absent"} :
                 ParsedBy(a) = parse_command(a, "scan", required)
      BY <2>3 DEF ParsedBy
    <2> QED
      BY <2>1, <2>2, <2>4, S4Parse, PlainParse DEF Honours
  <1>4. Started => SelectorsHonoured
    BY <1>3 DEF SelectorsHonoured, Decisions, Started
  <1> QED
    BY <1>1, <1>4, StartedStep, PTL DEF Spec

-----------------------------------------------------------------------------
(* What a failed scan leaves in the store                                   *)

\* Which of a handler's failures may be answered in ErrorV9.
LanesOf(h) ==
    /\ h.worker \in BOOLEAN
    /\ h.commit # "V9"
    /\ h.worker => h.schema \notin {0, 1, 2, 3, 4}
    /\ ~h.worker => h.upgrade = "none" /\ h.limit \in {"Limit", "Knowledge"} /\ h.lane = "Internal"
                    /\ h.schema # 5 /\ h.errors \subseteq {"internal", "source"} \cup PlainErrors

\* No other scan has come by.
Quiet == other \in {"idle", "never"}

\* EmptyStoreRollback will put the root back as it was found.
Restorable ==
    IF rollback = "armed" /\ store = "empty" /\ "parent" \in rights["main"]
    THEN found = "absent" ELSE store = found

\* Where only a handler with a worker is, and where only one without.
WorkerPlaces == {"prepare", "send", "await", "join", "look", "ensure", "confine"}
MainPlaces == {"prepare_store", "confine_scan", "scan", "prepared"}

\* Before the store root is looked at.
BeforeStore ==
    \/ pc \in {"spawn", "sandbox", "dispatch", "prepare", "send", "await", "join", "look", "prepare_store"}
    \/ pc \in {"deadline", "serialize"} /\ handler.worker

RootInv ==
    /\ DOMAIN rights = {"main", "worker"}
    /\ LanesOf(handler)
    /\ pc \in WorkerPlaces => handler.worker
    /\ pc \in MainPlaces => ~handler.worker
    /\ pc \in {"prepared", "open", "publish"} => Stored(handler)
    /\ BeforeStore => rollback = "none" /\ "parent" \in rights["main"]
    /\ pc \in {"ensure", "confine"} =>
          /\ "parent" \in rights["main"]
          /\ Quiet => rollback = IF found = "absent" THEN "armed" ELSE "disarmed"
    /\ Quiet =>
          /\ BeforeStore \/ pc = "ensure" => store = found
          /\ pc = "confine" => store = IF found = "absent" THEN "empty" ELSE found
          /\ pc \in {"confine_scan", "scan", "deadline"} /\ ~handler.worker /\ ~Stored(handler) => store = found
          /\ pc = "serialize" /\ ~handler.worker => IF Stored(handler) THEN published ELSE store = found
          /\ pc = "done" => published \/ store = found
          /\ pc = "unwind" /\ failure.lane = "V9" /\ ~published => Restorable
          /\ pc \in {"drop", "exit"} /\ failure.lane = "V9" /\ ~published => store = found

\* A chain of `if`s that ends in an `else` answers the outcome of one of its rows.
LEMMA FirstIsARow ==
    ASSUME NEW rows, Len(rows) \in Nat, NEW k \in 1..Len(rows), rows[k][1]
    PROVE  \E i \in 1..Len(rows) : First(rows) = rows[i][2]
  <1> DEFINE H == Holding(rows)
  <1>1. H \subseteq Nat /\ H # {}
    BY DEF Holding
  <1>2. \E i \in H : \A j \in H : i <= j
    <2> DEFINE R == { ss \in Nat \X Nat : ss[1] < ss[2] }
    <2>1. IsWellFoundedOn(R, Nat)
      BY NatLessThanWellFounded, Zenon DEF OpToRel
    <2> HIDE DEF H
    <2>2. PICK i \in H : \A j \in H : ~(<<j, i>> \in R)
      <3> HIDE DEF R
      <3> QED BY <1>1, <2>1, WFMin, Zenon
    <2>3. ASSUME NEW j \in H PROVE i <= j
      <3>1. i \in Nat /\ j \in Nat /\ <<j, i>> \notin R
        BY <1>1, <2>2
      <3> QED
        BY <3>1
    <2> QED
      BY <2>3
  <1>3. (CHOOSE i \in H : \A j \in H : i <= j) \in H
    BY <1>2
  <1> QED
    BY <1>3, Zenon DEF First, Holding

\* Only an error of the nested repositories is answered in ErrorV9.
LEMMA EnvelopeLane ==
    ASSUME NEW a, NEW f, envelope(a, f).lane = "V9"
    PROVE  f.lane = "V9"
  <1>1. LineageEnvelope(a) # "V9" /\ PackedOrLineage(a) # "V9"
    BY DEF LineageEnvelope, PackedOrLineage
  <1>2. InternalEnvelope(a) # "V9"
    <2> DEFINE rows == << << rust_callable_scip_requested(a), "V20" >>,
                    << rust_callable_cfg_alternatives_requested(a), "V19" >>,
                    << r11_requested(a), "V18" >>,
                    << k1_requested(a), "V16" >>,
                    << rust_cfg_alternatives_requested(a), "V17" >>,
                    << rust_semantic_requested(a), "V12" >>,
                    << TRUE, PackedOrLineage(a) >> >>
    <2>1. InternalEnvelope(a) = First(rows)
      BY DEF InternalEnvelope
    <2>2. Len(rows) = 7 /\ rows[7][1]
      OBVIOUS
    <2>3. \A i \in 1..7 : rows[i][2] # "V9"
      BY <1>1
    <2> HIDE DEF rows
    <2> QED
      BY <2>1, <2>2, <2>3, FirstIsARow
  <1> QED
    BY <1>1, <1>2 DEF envelope, Fail

LEMMA HandlerLanes ==
    ASSUME NEW flags
    PROVE  /\ LanesOf(run_s4(flags))
           /\ LanesOf(run_s0) /\ LanesOf(run_s1) /\ LanesOf(run_s2) /\ LanesOf(run_s3) /\ LanesOf(NoHandler)
  <1>1. /\ LanesOf(run_s4_r16) /\ LanesOf(run_s4_r16_boundaries)
        /\ LanesOf(run_s4_r15) /\ LanesOf(run_s4_r15_boundaries)
        /\ LanesOf(run_s4_r14) /\ LanesOf(run_s4_r14_boundaries)
    BY DEF LanesOf, OnWorker, WithBoundaries, WithOwnBoundaries, run_s4_r16, run_s4_r16_boundaries,
       run_s4_r15, run_s4_r15_boundaries, run_s4_r14, run_s4_r14_boundaries
  <1>2. /\ LanesOf(run_s4_r13) /\ LanesOf(run_s4_r12) /\ LanesOf(run_s4_r12_boundaries)
        /\ LanesOf(run_s4_k1) /\ LanesOf(run_s4_r11_boundaries)
    BY DEF LanesOf, OnWorker, WithBoundaries, WithOwnBoundaries, run_s4_r13, run_s4_r12,
       run_s4_r12_boundaries, run_s4_k1, run_s4_r11_boundaries
  <1>3. /\ LanesOf(run_s4_r7) /\ LanesOf(run_s4_r7_boundaries)
        /\ LanesOf(run_s4_r6) /\ LanesOf(run_s4_r6_boundaries)
        /\ LanesOf(run_s4_r10) /\ LanesOf(run_s4_r10_boundaries)
    BY DEF LanesOf, OnWorker, WithBoundaries, run_s4_r7, run_s4_r7_boundaries, run_s4_r6,
       run_s4_r6_boundaries, run_s4_r10, run_s4_r10_boundaries
  <1>4. /\ LanesOf(run_s4_r5) /\ LanesOf(run_s4_r5_boundaries)
        /\ LanesOf(run_s4_r4) /\ LanesOf(run_s4_r4_boundaries)
        /\ LanesOf(run_s4_r3) /\ LanesOf(run_s4_r3_boundaries)
    BY DEF LanesOf, OnWorker, WithBoundaries, run_s4_r5, run_s4_r5_boundaries, run_s4_r4,
       run_s4_r4_boundaries, run_s4_r3, run_s4_r3_boundaries
  <1>5. LanesOf(run_s4_boundaries) /\ LanesOf(run_s4_base)
    BY DEF LanesOf, OnWorker, WithBoundaries, OnMain, run_s4_boundaries, run_s4_base, PlainErrors
  <1>6. LanesOf(run_s0) /\ LanesOf(run_s1) /\ LanesOf(run_s2) /\ LanesOf(run_s3) /\ LanesOf(NoHandler)
    BY DEF LanesOf, OnMain, run_s0, run_s1, run_s2, run_s3, NoHandler, PlainErrors
  <1> DEFINE b == "boundary" \in flags
             pick(with, without) == IF b THEN with ELSE without
             rows == << << "constant" \in flags, pick(run_s4_r16_boundaries, run_s4_r16) >>,
                    << "flow" \in flags, pick(run_s4_r15_boundaries, run_s4_r15) >>,
                    << "expression" \in flags, pick(run_s4_r14_boundaries, run_s4_r14) >>,
                    << {"callable", "compiler"} \subseteq flags, run_s4_r13 >>,
                    << {"cfg", "callable"} \subseteq flags, pick(run_s4_r12_boundaries, run_s4_r12) >>,
                    << "callable" \in flags, pick(run_s4_r11_boundaries, run_s4_k1) >>,
                    << "compiler" \in flags, pick(run_s4_r7_boundaries, run_s4_r7) >>,
                    << "framework" \in flags, pick(run_s4_r6_boundaries, run_s4_r6) >>,
                    << "cfg" \in flags, pick(run_s4_r10_boundaries, run_s4_r10) >>,
                    << "semantic" \in flags, pick(run_s4_r5_boundaries, run_s4_r5) >>,
                    << "manifest" \in flags, pick(run_s4_r4_boundaries, run_s4_r4) >>,
                    << "workspace" \in flags, pick(run_s4_r3_boundaries, run_s4_r3) >>,
                    << b, run_s4_boundaries >>,
                    << TRUE, run_s4_base >> >>
  <1>7. run_s4(flags) = First(rows)
    BY Zenon DEF run_s4
  <1>8. Len(rows) = 14 /\ rows[14][1]
    OBVIOUS
  <1>9. \A i \in 1..14 : LanesOf(rows[i][2])
    <2> SUFFICES ASSUME NEW i \in 1..14 PROVE LanesOf(rows[i][2])
      BY Zenon
    <2>1. i \in {1, 2, 3, 4, 5, 6, 7, 8, 9, 10, 11, 12, 13, 14}
      OBVIOUS
    <2> QED
      BY <2>1, <1>1, <1>2, <1>3, <1>4, <1>5, SMTT(30)
  <1> HIDE DEF rows
  <1>10. PICK i \in 1..14 : First(rows) = rows[i][2]
    <2>1. Len(rows) \in Nat /\ 14 \in 1..Len(rows) /\ rows[14][1] /\ 1..Len(rows) = 1..14
      BY <1>8
    <2> QED
      BY ONLY <2>1, FirstIsARow, Zenon
  <1> QED
    BY <1>6, <1>7, <1>9, <1>10, Zenon

LEMMA DecidedLanes ==
    ASSUME Started
    PROVE  LanesOf(Decisions[args].handler)
  <1>1. args \in Selectors
    BY StartsAssumption DEF Started
  <1>2. Entry(args) \in {"run_s4", "run_s3", "run_s2", "run_s1", "run_s0"}
    BY <1>1 DEF Entry, Selectors
  <1>3. Decisions[args] = Decision(args)
    BY DEF Decisions, Started
  <1>4. Decision(args).handler \in {HandlerOf(args, ParsedBy(args).inv), NoHandler}
    BY Zenon DEF Decision, Decided
  <1>5. HandlerOf(args, ParsedBy(args).inv)
            \in {run_s4(ParsedBy(args).inv.flags), run_s3, run_s2, run_s1, run_s0}
    BY <1>2, Zenon DEF HandlerOf
  <1> QED
    BY <1>3, <1>4, <1>5, HandlerLanes, Zenon

LEMMA RootStart ==
    ASSUME Started, RootInv, Spawn \/ Sandbox \/ Dispatch \/ Prepare \/ SendJob
    PROVE  RootInv'
  <1> USE DEF RootInv, WorkerPlaces, MainPlaces, BeforeStore, Quiet, Restorable, Stored
  <1>1. CASE Spawn
    BY <1>1, Zenon DEF Spawn
  <1>2. CASE Sandbox
    BY <1>2, Zenon DEF Sandbox, Stop
  <1>3. CASE Dispatch
    BY <1>3, DecidedLanes, ZenonT(40) DEF Dispatch, Stop, LanesOf
  <1>4. CASE Prepare
    BY <1>4, Zenon DEF Prepare, Stop
  <1>5. CASE SendJob
    BY <1>5, Zenon DEF SendJob
  <1> QED
    BY <1>1, <1>2, <1>3, <1>4, <1>5, Zenon

LEMMA RootScan ==
    ASSUME RootInv, \/ AwaitFails \/ Join \/ run_confined_scan \/ WorkerScans \/ WorkerAnswers
                    \/ WorkerEnds \/ PrepareStore \/ ConfineScan \/ MainScans \/ PreparationResult
    PROVE  RootInv'
  <1> USE DEF RootInv, WorkerPlaces, MainPlaces, BeforeStore, Quiet, Restorable, Stored
  <1>1. CASE AwaitFails
    BY <1>1, Zenon DEF AwaitFails, Stop
  <1>2. CASE Join
    BY <1>2, Zenon DEF Join, Stop
  <1>3. CASE run_confined_scan
    BY <1>3, SMTT(30) DEF run_confined_scan
  <1>4. CASE WorkerScans \/ WorkerEnds
    BY <1>4, SMTT(30) DEF WorkerScans, WorkerEnds
  <1>5. CASE WorkerAnswers
    BY <1>5, Zenon DEF WorkerAnswers
  <1>6. CASE PrepareStore
    BY <1>6, Zenon DEF PrepareStore
  <1>7. CASE ConfineScan
    BY <1>7, SMTT(30) DEF ConfineScan, Stop, Internal, Fail
  <1>8. CASE MainScans
    <2>1. \A e \in {"internal", "source"} \cup PlainErrors : main_scan_failure(e).lane # "V9"
      BY DEF PlainErrors, main_scan_failure, Internal, Plain, Fail, plain_scan_failure
    <2>2. (IF repository THEN handler.errors ELSE {"acquisition", "internal"})
             \subseteq {"internal", "source"} \cup PlainErrors
      BY <1>8, Zenon DEF MainScans, LanesOf, PlainErrors
    <2> QED
      BY <1>8, <2>1, <2>2, Zenon DEF MainScans, Stop
  <1>9. CASE PreparationResult
    BY <1>9 DEF PreparationResult, Stop, Plain, Fail
  <1> QED
    BY <1>1, <1>2, <1>3, <1>4, <1>5, <1>6, <1>7, <1>8, <1>9, Zenon

LEMMA RootAfter ==
    ASSUME RootInv, \/ enforce_scan_deadline \/ serialize \/ LookAtStore
                    \/ ensure_store_root_for_boundary \/ ConfineMain \/ OpenStore \/ Publish
    PROVE  RootInv'
  <1> USE DEF RootInv, WorkerPlaces, MainPlaces, BeforeStore, Quiet, Restorable, Stored
  <1>1. CASE enforce_scan_deadline
    BY <1>1, SMTT(30) DEF enforce_scan_deadline, Stop, Upgraded, Plain, Fail, LanesOf
  <1>2. CASE serialize
    <2>1. CASE handler.worker
      BY <1>2, <2>1, Zenon DEF serialize, Stop
    <2>2. CASE ~handler.worker
      <3>1. LimitFailure.lane # "V9" /\ Internal(handler.lane).lane # "V9" /\ handler.schema # 5
        BY <2>2, Zenon DEF LanesOf, LimitFailure, Internal, Plain, Fail
      <3> QED
        BY <1>2, <2>2, <3>1, Zenon DEF serialize, Stop
    <2> QED
      BY <2>1, <2>2, Zenon
  <1>3. CASE LookAtStore
    BY <1>3, Zenon DEF LookAtStore
  <1>4. CASE ensure_store_root_for_boundary
    BY <1>4, Zenon DEF ensure_store_root_for_boundary, Created, Stop, Plain, Fail
  <1>5. CASE ConfineMain
    BY <1>5, Zenon DEF ConfineMain, Stop
  <1>6. CASE OpenStore
    BY <1>6, SMTT(30) DEF OpenStore, Stop, Plain, Fail
  <1>7. CASE Publish
    BY <1>7 DEF Publish, Stop, Plain, Internal, Fail, LanesOf
  <1> QED
    BY <1>1, <1>2, <1>3, <1>4, <1>5, <1>6, <1>7, ZenonT(60)

LEMMA RootEnd ==
    ASSUME RootInv, Unwind \/ WriteAnswer \/ Exit \/ OtherScan \/ UNCHANGED vars
    PROVE  RootInv'
  <1> USE DEF RootInv, WorkerPlaces, MainPlaces, BeforeStore, Quiet, Restorable, Stored
  <1>1. CASE Unwind
    BY <1>1, EnvelopeLane, Zenon DEF Unwind
  <1>2. CASE WriteAnswer
    BY <1>2, Zenon DEF WriteAnswer
  <1>3. CASE Exit
    BY <1>3, Zenon DEF Exit
  <1>4. CASE OtherScan
    BY <1>4, Zenon DEF OtherScan
  <1>5. CASE UNCHANGED vars
    BY <1>5, ZenonT(60) DEF vars
  <1> QED
    BY <1>1, <1>2, <1>3, <1>4, <1>5, Zenon

\* RootInv is inductive: the argument that EmptyStoreRollback, which only removes an
\* empty root, undoes all that a scan answered in ErrorV9 did to the store.
THEOREM RootInvariant == Spec => [](Started /\ RootInv)
  <1>1. Init => Started /\ RootInv
    BY HandlerLanes, Zenon DEF Init, Started, RootInv, WorkerPlaces, MainPlaces, BeforeStore, Quiet, Rights
  <1>2. Started /\ RootInv /\ [Next]_vars => Started' /\ RootInv'
    BY StartedStep, RootStart, RootScan, RootAfter, RootEnd, Zenon DEF Next, MainStep, WorkerStep, Done
  <1> QED
    BY <1>1, <1>2, PTL DEF Spec

\* A failure in ErrorV9 leaves the store root as it was found, for every line, at
\* whichever step the scan failed.
THEOREM V9AlwaysLeavesStore == Spec => []V9LeavesStore
  <1>1. RootInv => V9LeavesStore
    BY Zenon DEF RootInv, V9LeavesStore, Quiet
  <1> QED
    BY <1>1, RootInvariant, PTL

\* A store root that holds anything is never removed, by this scan's rollback or
\* by another's.
THEOREM UsedStoreIsKept == Spec => UsedStoreStays
  <1>1. [Next]_vars => (store = "used" => store' = "used")
    BY Zenon DEF Next, MainStep, WorkerStep, OtherScan, Done, vars, Spawn, Sandbox, Dispatch,
     Prepare, SendJob, AwaitFails, Join, enforce_scan_deadline, serialize, LookAtStore,
     ensure_store_root_for_boundary, ConfineMain, OpenStore, Publish, PrepareStore, ConfineScan,
     MainScans, PreparationResult, Unwind, WriteAnswer, Exit, run_confined_scan, WorkerScans,
     WorkerAnswers, WorkerEnds, Created
  <1> QED
    BY <1>1, PTL DEF Spec, UsedStoreStays

-----------------------------------------------------------------------------
(* The commands that read a store                                           *)

CallShape ==
    call = [ args |-> call.args, at |-> call.at, loaded |-> call.loaded, manifest |-> call.manifest,
             graph |-> call.graph, handler |-> call.handler, result |-> call.result ]

\* The places of each command; all of them start at "parse" and end at "done".
PlacesOf(command) ==
    {"parse", "done"} \cup
    CASE command = "query" -> {"load", "id", "manifest", "answer"}
      [] command = "source" -> {"load", "select", "retrieve", "reload"}
      [] command = "export" -> {"load", "schema", "output"}
      [] command = "docs" -> {"load", "root", "publish"}
      [] command = "explore" -> {"read", "output"}

\* What a command has in hand: a query holds a sound snapshot, and from the manifest
\* on the documents of that snapshot; `source` a snapshot of the given revision.
InHand ==
    /\ call.at \in {"id", "manifest", "answer"} =>
          call.loaded.state = "sound" /\ call.loaded.schema \in 4..18
    /\ call.at = "answer" => call.manifest.of = call.loaded.id /\ call.manifest.whole
    /\ call.at \in {"retrieve", "reload"} => call.loaded.commit = call.args.revision

ReadInv ==
    /\ CallShape
    /\ call.args \in Calls
    /\ head \in call.args.world.heads \cup {None}
    /\ call.at \in PlacesOf(Command)
    /\ call.at # "done" => call.result = None
    /\ InHand
    /\ AnswerOfOneSnapshot

\* The call moves to another place and keeps what it has.
Moves(to) ==
    /\ CallShape' /\ call'.at = to /\ call'.args = call.args /\ call'.result = call.result
    /\ call'.loaded = call.loaded /\ call'.manifest = call.manifest

LEMMA GotoMoves ==
    ASSUME CallShape, NEW to, Goto(to)
    PROVE  Moves(to)
  BY Zenon DEF CallShape, Goto, Moves

\* A refused call prints no answer.
LEMMA RefuseKeeps ==
    ASSUME ReadInv, NEW f, Refuse(f), UNCHANGED head
    PROVE  ReadInv' /\ call'.args = call.args /\ ~call'.result.ok
  <1>1. /\ CallShape' /\ call'.args = call.args /\ call'.at = "done"
        /\ call'.result = [ok |-> FALSE, lane |-> f.lane, exit |-> f.exit]
    BY Zenon DEF ReadInv, CallShape, Refuse
  <1>2. call'.at \in PlacesOf(Command)'
    BY <1>1 DEF PlacesOf
  <1> QED
    BY <1>1, <1>2 DEF ReadInv, InHand, AnswerOfOneSnapshot, Printed, Command

\* A call that is under way holds no answer yet.
LEMMA Unanswered ==
    ASSUME ReadInv, call.at # "done"
    PROVE  call.result = None /\ ~Printed("source") /\ ~Printed("query")
  BY Zenon DEF ReadInv, Printed

LEMMA MoveKeeps ==
    ASSUME ReadInv, call.at # "done", NEW to, Moves(to), to # "done", to \in PlacesOf(Command),
           UNCHANGED head, InHand'
    PROVE  ReadInv'
  BY Unanswered, Zenon DEF ReadInv, Moves, AnswerOfOneSnapshot, Printed, Command, PlacesOf

\* Each command stays in its own places.
LEMMA WhoseStep ==
    ASSUME ReadInv
    PROVE  /\ Command \in {"docs", "query", "export", "explore", "source"}
           /\ call.at \in {"id", "manifest", "answer"} => Command = "query"
           /\ call.at \in {"select", "retrieve", "reload"} => Command = "source"
           /\ call.at = "schema" => Command = "export"
           /\ call.at \in {"root", "publish"} => Command = "docs"
           /\ call.at = "read" => Command = "explore"
           /\ call.at = "output" => Command \in {"export", "explore"}
           /\ call.at = "load" => Command # "explore"
  BY CallsAssumption, Zenon DEF ReadInv, PlacesOf, Command

LEMMA QueryStep ==
    ASSUME ReadInv, QueryId \/ QueryManifest \/ QueryAnswer
    PROVE  ReadInv' /\ ~Printed("source")'
  <1>0. Command = "query" /\ call.at \in {"id", "manifest", "answer"} /\ UNCHANGED head
    BY WhoseStep, Zenon DEF QueryId, QueryManifest, QueryAnswer
  <1>1. CASE \E f : Refuse(f)
    BY <1>0, <1>1, RefuseKeeps, Zenon DEF Printed
  <1>2. CASE QueryId /\ Goto("manifest")
    <2>1. Moves("manifest") /\ call.at = "id"
      BY <1>2, GotoMoves, Zenon DEF ReadInv, QueryId
    <2>2. InHand'
      BY <2>1, Zenon DEF ReadInv, InHand, Moves
    <2>3. ReadInv'
      BY <1>0, <2>1, <2>2, MoveKeeps, Zenon DEF PlacesOf
    <2> QED
      BY <1>0, <2>1, <2>3, Zenon DEF Printed, Command, Moves
  <1>3. CASE QueryManifest /\ load_validated_manifest(documents, call.loaded)
    <2>1. /\ call.at = "manifest" /\ CallShape' /\ call'.at = "answer" /\ call'.args = call.args
          /\ call'.result = call.result /\ call'.loaded = call.loaded /\ call'.manifest = documents
      BY <1>3, Zenon DEF QueryManifest, ReadInv, CallShape
    <2>2. InHand'
      BY <1>3, <2>1, Zenon DEF ReadInv, InHand, load_validated_manifest
    <2>3. call'.result = None
      BY <2>1, Unanswered, Zenon
    <2>4. call'.at \in PlacesOf(Command)'
      BY <1>0, <2>1 DEF PlacesOf, Command
    <2> QED
      BY <1>0, <2>1, <2>2, <2>3, <2>4, Zenon DEF ReadInv, AnswerOfOneSnapshot, Printed, Command
  <1>4. CASE /\ QueryAnswer
             /\ (call.args.context = "none") \/ (call.loaded.schema = 18)
             /\ Answer([ version |-> IF call.args.context # "none" THEN FunctionContext
                                     ELSE QueryVersion(call.loaded.schema),
                         of |-> call.loaded, documents |-> call.manifest ])
    <2> DEFINE o == [ version |-> IF call.args.context # "none" THEN FunctionContext
                                  ELSE QueryVersion(call.loaded.schema),
                      of |-> call.loaded, documents |-> call.manifest ]
    <2>1. /\ CallShape' /\ call'.at = "done" /\ call'.args = call.args
          /\ call'.result = [ok |-> TRUE, output |-> o] /\ call.at = "answer"
      BY <1>4, Zenon DEF QueryAnswer, Answer, ReadInv, CallShape
    <2>2. /\ o.documents.of = o.of.id /\ o.documents.whole /\ o.of.state = "sound"
          /\ IF o.version = FunctionContext THEN o.of.schema = 18
             ELSE o.version = QueryVersion(o.of.schema)
      BY <1>4, <2>1 DEF ReadInv, InHand, FunctionContext, QueryVersion
    <2> HIDE DEF o
    <2>3. call'.result.output = o
      BY <2>1
    <2>4. AnswerOfOneSnapshot'
      BY <2>2, <2>3, Zenon DEF AnswerOfOneSnapshot
    <2>5. call'.at \in PlacesOf(Command)'
      BY <2>1, Zenon DEF PlacesOf
    <2> QED
      BY <1>0, <2>1, <2>4, <2>5, Zenon DEF ReadInv, InHand, Printed, Command
  <1> QED
    BY <1>1, <1>2, <1>3, <1>4, Zenon DEF QueryId, QueryManifest, QueryAnswer

\* What `source` may print in one step.
Excerpt == Printed("source")' => /\ head = call'.result.output.of
                                 /\ head.commit = call.args.revision

LEMMA SourceStep ==
    ASSUME ReadInv, SelectSource \/ RetrieveSource \/ ReloadHead
    PROVE  ReadInv' /\ Excerpt
  <1>0. Command = "source" /\ call.at \in {"select", "retrieve", "reload"} /\ UNCHANGED head
    BY WhoseStep, Zenon DEF SelectSource, RetrieveSource, ReloadHead
  <1>1. CASE \E f : Refuse(f)
    BY <1>0, <1>1, RefuseKeeps, Zenon DEF Printed, Excerpt
  <1>2. CASE \/ SelectSource /\ call.loaded.commit = call.args.revision /\ Goto("retrieve")
             \/ RetrieveSource /\ Goto("reload")
    <2>1. PICK to \in {"retrieve", "reload"} : Moves(to)
      BY <1>2, GotoMoves, Zenon DEF ReadInv
    <2>2. call.loaded.commit = call.args.revision
      BY <1>2, Zenon DEF ReadInv, InHand, RetrieveSource
    <2>3. InHand'
      BY <2>1, <2>2, Zenon DEF InHand, Moves
    <2>4. ReadInv'
      BY <1>0, <2>1, <2>3, MoveKeeps, Zenon DEF PlacesOf
    <2>5. call'.result = None
      BY <1>0, <2>1, Unanswered, Zenon DEF Moves
    <2> QED
      BY <2>4, <2>5, Zenon DEF Excerpt, Printed
  <1>3. CASE /\ ReloadHead /\ head = call.loaded
             /\ Answer([of |-> call.loaded, revision |-> call.args.revision])
    <2>1. /\ CallShape' /\ call'.at = "done" /\ call'.args = call.args /\ call.at = "reload"
          /\ call'.result = [ok |-> TRUE, output |-> [of |-> call.loaded, revision |-> call.args.revision]]
      BY <1>3, Zenon DEF ReloadHead, Answer, ReadInv, CallShape
    <2>2. head = call'.result.output.of /\ head.commit = call.args.revision
      BY <1>3, <2>1 DEF ReadInv, InHand
    <2>3. call'.at \in PlacesOf(Command)'
      BY <2>1 DEF PlacesOf
    <2>4. ReadInv'
      BY <1>0, <2>1, <2>3, Zenon DEF ReadInv, InHand, AnswerOfOneSnapshot, Printed, Command
    <2> QED
      BY <2>2, <2>4, Zenon DEF Excerpt
  <1> QED
    BY <1>1, <1>2, <1>3, Zenon DEF SelectSource, RetrieveSource, ReloadHead

LEMMA LoadStep ==
    ASSUME ReadInv, Parse \/ load_s4_snapshot
    PROVE  ReadInv' /\ ~Printed("source")'
  <1>0. call.at \in {"parse", "load"} /\ UNCHANGED head
    BY DEF Parse, load_s4_snapshot
  <1>1. CASE \E f : Refuse(f)
    BY <1>0, <1>1, RefuseKeeps, Zenon DEF Printed
  <1>2. CASE Parse /\ Command # "explore" /\ Goto("load")
    <2>1. Moves("load")
      BY <1>2, GotoMoves, Zenon DEF ReadInv
    <2>2. InHand'
      BY <2>1, Zenon DEF InHand, Moves
    <2>3. "load" \in PlacesOf(Command)
      BY <1>2, WhoseStep DEF PlacesOf
    <2>4. ReadInv' /\ call'.result = None
      BY <1>0, <2>1, <2>2, <2>3, MoveKeeps, Unanswered, Zenon DEF Moves
    <2> QED
      BY <2>4, Zenon DEF Printed
  <1>3. CASE /\ Parse /\ Command = "explore"
             /\ call' = [call EXCEPT !.at = "read",
                                     !.handler = ExploreHandler(ProfileOf(call.args.profile))]
    <2>1. Moves("read")
      BY <1>3, Zenon DEF Moves, ReadInv, CallShape
    <2>2. InHand'
      BY <2>1, Zenon DEF InHand, Moves
    <2>3. ReadInv' /\ call'.result = None
      BY <1>0, <1>3, <2>1, <2>2, MoveKeeps, Unanswered, SMTT(30) DEF Moves, PlacesOf
    <2> QED
      BY <2>3 DEF Printed
  <1>4. CASE /\ load_s4_snapshot /\ LoadError(head) = "none"
             /\ call' = [call EXCEPT !.loaded = head, !.at = AfterLoad]
    <2>1. head.state = "sound" /\ head.schema \in 4..18
      <3>1. head # None
        BY <1>4, Zenon DEF LoadError
      <3>2. head.schema \in Nat /\ head.state \in {"sound", "corrupt", "foreign"}
        BY <3>1, CallsAssumption, Zenon DEF ReadInv
      <3> QED
        BY <1>4, <3>1, <3>2, Zenon DEF LoadError
    <2>2. /\ CallShape' /\ call'.at = AfterLoad /\ call'.args = call.args /\ call'.result = call.result
          /\ call'.loaded = head
      BY <1>4, Zenon DEF ReadInv, CallShape
    <2>3. /\ AfterLoad \in PlacesOf(Command) /\ AfterLoad \in {"schema", "select", "root", "id"}
      <3>1. Command \in {"docs", "query", "export", "source"}
        BY <1>4, WhoseStep DEF load_s4_snapshot
      <3> QED
        BY <3>1 DEF AfterLoad, PlacesOf
    <2>4. InHand'
      BY <2>1, <2>2, <2>3, Zenon DEF InHand
    <2>5. call'.result = None
      BY <1>0, <2>2, Unanswered, Zenon
    <2>6. call'.at \in PlacesOf(Command)'
      BY <2>2, <2>3, Zenon DEF Command
    <2> QED
      BY <1>0, <2>2, <2>4, <2>5, <2>6, Zenon DEF ReadInv, AnswerOfOneSnapshot, Printed, Command
  <1> QED
    BY <1>1, <1>2, <1>3, <1>4, Zenon DEF Parse, load_s4_snapshot

LEMMA OutputStep ==
    ASSUME ReadInv, ExportDocuments \/ ReadPortable \/ PublishOutput \/ GenerateDocs
    PROVE  ReadInv' /\ ~Printed("source")'
  <1>0. /\ Command \in {"export", "explore", "docs"} /\ UNCHANGED head
        /\ call.at \in {"schema", "read", "output", "root", "publish"}
    BY WhoseStep, Zenon DEF ExportDocuments, ReadPortable, PublishOutput, GenerateDocs, run_docs
  <1>1. \/ /\ CallShape' /\ call'.args = call.args /\ call'.result = None
           /\ call'.at \in PlacesOf(Command) \ {"done", "id", "manifest", "answer", "retrieve", "reload"}
        \/ CallShape' /\ call'.args = call.args /\ call'.at = "done"
    <2>1. CASE \E f : Refuse(f)
      BY <2>1, Zenon DEF Refuse, ReadInv, CallShape
    <2>2. CASE \E o : Answer(o)
      BY <2>2, Zenon DEF Answer, ReadInv, CallShape
    <2>3. CASE GenerateDocs /\ call.at = "root" /\ Goto("publish")
      <3>1. Command = "docs"
        BY <2>3, WhoseStep, Zenon
      <3> QED
        BY <1>0, <2>3, <3>1, GotoMoves, Unanswered DEF Moves, ReadInv, PlacesOf
    <2>4. CASE \E h, m : call' = [call EXCEPT !.handler = h, !.manifest = m, !.at = "output"]
                   /\ call.at = "schema"
      <3>1. Command = "export"
        BY <2>4, WhoseStep, Zenon
      <3> QED
        BY <1>0, <2>4, <3>1, Unanswered, Zenon DEF ReadInv, CallShape, PlacesOf
    <2>5. CASE ReadPortable /\ call' = [call EXCEPT !.graph = portable, !.at = "output"]
      <3>1. Command = "explore"
        BY <2>5, WhoseStep DEF ReadPortable
      <3> QED
        BY <1>0, <2>5, <3>1, Unanswered, Zenon DEF ReadInv, CallShape, PlacesOf
    <2>6. CASE ReadPortable /\ call' = [call EXCEPT !.handler = Successor(call.handler, portable)]
      <3>1. Command = "explore" /\ call.at = "read"
        BY <2>6, WhoseStep DEF ReadPortable
      <3> QED
        BY <1>0, <2>6, <3>1, Unanswered, Zenon DEF ReadInv, CallShape, PlacesOf
    <2> QED
      BY <2>1, <2>2, <2>3, <2>4, <2>5, <2>6, ZenonT(60)
         DEF ExportDocuments, ReadPortable, PublishOutput, GenerateDocs, run_docs
  <1>2. call'.at \in PlacesOf(Command)'
    BY <1>1, Zenon DEF PlacesOf, Command
  <1> QED
    BY <1>0, <1>1, <1>2, Zenon DEF ReadInv, InHand, AnswerOfOneSnapshot, Printed, Command

LEMMA OthersStep ==
    ASSUME ReadInv, PublishNewHead \/ RegenerateDocuments \/ ReplacePortable \/ UNCHANGED readVars
    PROVE  ReadInv' /\ UNCHANGED call
  BY Zenon DEF PublishNewHead, RegenerateDocuments, ReplacePortable, readVars, ReadInv, CallShape, InHand,
     AnswerOfOneSnapshot, Printed, Command, PlacesOf

LEMMA ReadStep ==
    ASSUME ReadInv, [ReadCommandsNext]_readVars
    PROVE  ReadInv' /\ (~Printed("source") => Excerpt)
  <1>1. CASE CallStep
    BY <1>1, QueryStep, SourceStep, LoadStep, OutputStep, Zenon DEF CallStep, Excerpt
  <1>2. CASE PublishNewHead \/ RegenerateDocuments \/ ReplacePortable \/ UNCHANGED readVars
    BY <1>2, OthersStep, Zenon DEF Excerpt, Printed, Command
  <1> QED
    BY <1>1, <1>2, Zenon DEF ReadCommandsNext, Finished

\* ReadInv is inductive: each command holds one loaded snapshot and, from the manifest
\* on, the documents of that snapshot.
THEOREM ReadInvariant == ReadCommandsSpec => []ReadInv
  <1>1. ReadCommandsInit => ReadInv
    BY DEF ReadCommandsInit, NewCall, ReadInv, CallShape, InHand, AnswerOfOneSnapshot, Printed,
       Command, PlacesOf
  <1> QED
    BY <1>1, ReadStep, PTL DEF ReadCommandsSpec

\* A query answer joins one snapshot with its own documents, whatever is published or
\* regenerated while it runs.
THEOREM QueryJoinsOneSnapshot == ReadCommandsSpec => []AnswerOfOneSnapshot
  <1>1. ReadInv => AnswerOfOneSnapshot
    BY Zenon DEF ReadInv
  <1> QED
    BY <1>1, ReadInvariant, PTL

\* `source` prints an excerpt only of the snapshot that is the visible head at that
\* moment, and only at that snapshot's commit.
THEOREM SourcePrintsVisibleHead == ReadCommandsSpec => ExcerptOfVisibleHead
  <1>1. ReadInv /\ [ReadCommandsNext]_readVars =>
            (~Printed("source") /\ Printed("source")' =>
                head = call'.result.output.of /\ head.commit = call.args.revision)
    BY ReadStep, Zenon DEF Excerpt
  <1> QED
    BY <1>1, ReadInvariant, PTL DEF ReadCommandsSpec, ExcerptOfVisibleHead
=============================================================================
