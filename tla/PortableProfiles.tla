-------------------------- MODULE PortableProfiles --------------------------
(***************************************************************************)
(* The command lines of `docs`, `query`, `export`, `explore` and `source`, *)
(* the portable graph a profile exports or explores, and the envelope each *)
(* refusal is answered in.  (crates/noesis/src/main.rs)                    *)
(*                                                                         *)
(* A command line is a record.  Its fields hold "ok", "missing" or a named *)
(* defect of that argument; `profile` is the value of --portable-profile   *)
(* or --explorer-profile ("none" when absent, "K1-like" etc. for another   *)
(* value of that family), `order` tells whether each flag had a value.     *)
(***************************************************************************)
EXTENDS Naturals

Failed(lane, exit) == [ok |-> FALSE, lane |-> lane, exit |-> exit]
Accepted == [ok |-> TRUE, lane |-> "none", exit |-> 0]

\* The error envelope of each profile.
Lane(p) ==
    CASE p = "R8" -> "V15" [] p = "K1" -> "V16" [] p = "R10" -> "V17"
      [] p = "R11" -> "V18" [] p = "R12" -> "V19" [] p = "R13" -> "V20"
      [] p = "R14" -> "V21" [] p = "R15" -> "V22" [] p \in {"R16", "R17"} -> "V24"

-----------------------------------------------------------------------------
(* PortableProfile.                                                        *)

\* The profile whose envelope a malformed command line is answered in.
requested(profile) ==
    CASE profile \in {"R17", "R17-llm"} -> "R17"
      [] profile \in {"R16", "R15", "R14"} -> profile
      [] profile \in {"R10", "R10-like"} -> "R10"
      [] profile = "none" -> "R8"
      [] OTHER -> "K1"

requires_documents(p) == p \in {"R14", "R15", "R16"}

\* A value of --portable-profile or --explorer-profile that names no profile
\* is answered in the envelope of the family it looks like.
Unknown(profile) ==
    CASE profile = "R16-like" -> Failed("V24", 2)
      [] profile = "R15-like" -> Failed("V22", 2)
      [] profile = "R14-like" -> Failed("V21", 2)
      [] profile = "R10-like" -> Failed("V17", 2)
      [] OTHER -> Failed("V16", 2)

Known == {"K1", "R10", "R14", "R15", "R16"}

ProfileOf(profile) == IF profile = "none" THEN "R8" ELSE profile

invalid_export_profile(p) == Failed(Lane(p), 2)

invalid_explorer_profile(p) == Failed(Lane(p), 2)

reject_parent_output(output, p) ==
    IF output = "parent" THEN Failed(Lane(p), 2) ELSE Accepted

-----------------------------------------------------------------------------
(* The five parsers.                                                       *)

export_parse(a) ==
    LET invalid == invalid_export_profile(requested(a.profile)) IN
    IF a.order # "ok" \/ "missing" \in {a.store, a.output, a.format} \/ a.identity # "ok"
        THEN invalid
    ELSE IF a.profile = "R17" THEN invalid_export_profile("R17")
    ELSE IF a.profile \notin Known \cup {"none"} THEN Unknown(a.profile)
    ELSE IF requires_documents(ProfileOf(a.profile)) # (a.documents # "missing")
            \/ a.documents = "parent" THEN invalid
    ELSE reject_parent_output(a.output, ProfileOf(a.profile))

explore_parse(a) ==
    IF a.order # "ok" \/ "missing" \in {a.input, a.output, a.format}
        THEN invalid_explorer_profile(requested(a.profile))
    ELSE IF a.profile \notin Known \cup {"none", "R17"} THEN Unknown(a.profile)
    ELSE reject_parent_output(a.output, ProfileOf(a.profile))

source_parse(a) ==
    IF a.order = "ok" /\ a.store = "ok" /\ a.identity = "ok" /\ a.id = "evidence" /\ a.format = "ok"
    THEN Accepted ELSE Failed("V29", 2)

\* s3_error_lineage holds for `docs` and `query`: a plain input error is V4.
docs_parse(a) ==
    CASE a.order = "dangling output" -> Failed("V5", 2)
      [] a.order = "dangling store" -> Failed("V4", 2)
      [] a.order = "unknown" -> Failed("V5", 2)
      [] a.order = "ok" ->
            IF a.store = "missing" \/ a.identity # "ok" THEN Failed("V4", 2)
            ELSE IF a.output # "ok" \/ a.format = "missing" THEN Failed("V5", 2)
            ELSE Accepted

query_parse(a) ==
    CASE a.order \in {"dangling documents", "dangling id", "unknown"} -> Failed("V5", 2)
      [] a.order = "dangling context" -> Failed("V24", 2)
      [] a.order = "dangling store" -> Failed("V4", 2)
      [] a.order = "ok" ->
            IF a.store = "missing" \/ a.identity # "ok" THEN Failed("V4", 2)
            ELSE IF a.documents # "ok" \/ a.id = "malformed" \/ a.format = "missing"
                THEN Failed("V5", 2)
            ELSE IF a.context = "unknown" THEN Failed("V24", 2)
            ELSE Accepted

read_parse(a) ==
    CASE a.command = "export" -> export_parse(a)
      [] a.command = "explore" -> explore_parse(a)
      [] a.command = "source" -> source_parse(a)
      [] a.command = "docs" -> docs_parse(a)
      [] a.command = "query" -> query_parse(a)

-----------------------------------------------------------------------------
(* What each export handler takes and makes.  `schema` is the only snapshot *)
(* schema it accepts, `graph` the version of the portable graph it writes.  *)

Export(p, schema, graph) ==
    [profile |-> p, schema |-> schema, graph |-> graph, documents |-> requires_documents(p)]

run_export_r8 == Export("R8", 10, 1)
run_export_k1 == Export("K1", 11, 2)
run_export_r10 == Export("R10", 12, 3)
run_export_r11 == Export("R11", 13, 4)
run_export_r12 == Export("R12", 14, 5)
run_export_r13 == Export("R13", 15, 6)
run_export_r14 == Export("R14", 16, 7)
run_export_r15 == Export("R15", 17, 8)
run_export_r16 == Export("R16", 18, 9)

\* The K1 profile goes on to the handler of the schema it finds.
K1Family == {run_export_k1, run_export_r11, run_export_r12, run_export_r13}

ExportHandlers ==
    {run_export_r8, run_export_r10, run_export_r14, run_export_r15, run_export_r16} \cup K1Family

\* The handler for a profile and the schema of the loaded head; a head of
\* another schema is refused by the profile's own handler.
ExportHandler(p, schema) ==
    IF p = "K1" /\ \E h \in K1Family : h.schema = schema
    THEN CHOOSE h \in K1Family : h.schema = schema
    ELSE CHOOSE h \in ExportHandlers : h.profile = p

-----------------------------------------------------------------------------
(* What each explore handler reads and makes.                              *)

Explore(p, graph, explorer) == [profile |-> p, graph |-> graph, explorer |-> explorer]

run_explore_r8 == Explore("R8", 1, 1)
run_explore_k1 == Explore("K1", 2, 2)
run_explore_r10 == Explore("R10", 3, 3)
run_explore_r11 == Explore("R11", 4, 4)
run_explore_r12 == Explore("R12", 5, 5)
run_explore_r13 == Explore("R13", 6, 6)
run_explore_r14 == Explore("R14", 7, 7)
run_explore_r15 == Explore("R15", 8, 8)
run_explore_r16 == Explore("R16", 9, 9)
run_explore_r17 == Explore("R17", 9, 10)

ExploreHandlers ==
    { run_explore_r8, run_explore_k1, run_explore_r10, run_explore_r11, run_explore_r12,
      run_explore_r13, run_explore_r14, run_explore_r15, run_explore_r16, run_explore_r17 }

ExploreHandler(p) == CHOOSE h \in ExploreHandlers : h.profile = p

\* A portable graph has the K1 family's top-level keys, unless it carries the
\* repository boundaries or one of the R15 and R16 indexes.
K1Keys(g) == ~g.boundaries /\ g.version < 8

\* @mutant: a handler may hand over to an earlier one.
SuccessorBack(h, g) ==
    CASE h = run_explore_k1 /\ g.version \in {4, 5} -> run_explore_r11
      [] h = run_explore_r11 /\ g.version \in {5, 6} -> run_explore_r12
      [] h = run_explore_r12 /\ g.version = 4 -> run_explore_r11
      [] OTHER -> h

\* The handler that takes over when this one finds a graph it does not
\* support: it reads the input again from the start.
Successor(h, g) ==
    CASE h = run_explore_k1 /\ (g.version \in {4, 5} \/ (g.version # 2 /\ K1Keys(g))) -> run_explore_r11
      [] h = run_explore_r11 /\ g.version \in {5, 6} -> run_explore_r12
      [] h = run_explore_r12 /\ g.version = 6 -> run_explore_r13
      [] OTHER -> h

-----------------------------------------------------------------------------
(* The rN_portable_failure and rN_contract_failure maps: the three kinds of *)
(* PortableExplorerError a handler meets.                                   *)

PortableFailure(lane, error, code) ==
    CASE error = "UnsafeOutput" -> Failed(lane, 2)
      [] error = "Contract" -> Failed(lane, code)
      [] error = "Internal" -> Failed(lane, 70)

r8_portable_failure(error, code) == PortableFailure("V15", error, code)
k1_portable_failure(error, code) == PortableFailure("V16", error, code)
r10_portable_failure(error, code) == PortableFailure("V17", error, code)
r11_portable_failure(error, code) == PortableFailure("V18", error, code)
r12_portable_failure(error, code) == PortableFailure("V19", error, code)
r13_portable_failure(error, code) == PortableFailure("V20", error, code)
r14_portable_failure(error, code) == PortableFailure("V21", error, code)
r15_portable_failure(error, code) == PortableFailure("V22", error, code)
r16_portable_failure(error, code) == PortableFailure("V24", error, code)

portable_failure(p, error, code) ==
    CASE p = "R8" -> r8_portable_failure(error, code)
      [] p = "K1" -> k1_portable_failure(error, code)
      [] p = "R10" -> r10_portable_failure(error, code)
      [] p = "R11" -> r11_portable_failure(error, code)
      [] p = "R12" -> r12_portable_failure(error, code)
      [] p = "R13" -> r13_portable_failure(error, code)
      [] p = "R14" -> r14_portable_failure(error, code)
      [] p = "R15" -> r15_portable_failure(error, code)
      [] p \in {"R16", "R17"} -> r16_portable_failure(error, code)
=============================================================================
