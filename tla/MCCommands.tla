----------------------------- MODULE MCCommands -----------------------------
(***************************************************************************)
(* The commands of one `noesis` process: a scan (ScanCommands) or one of   *)
(* docs, export, explore, query and source (ReadCommands).  A behaviour is *)
(* one command; the state of the other kind stays as it starts.            *)
(***************************************************************************)
EXTENDS ScanCommands, ReadCommands

-----------------------------------------------------------------------------
(* Scans: every selector combination of well-formed options, and every      *)
(* single malformed option beside the combinations the parsers accept.      *)

Plainest ==
    [ command |-> "scan", profile |-> "s4", workspace |-> "absent", manifest |-> "absent",
      semantic |-> "absent", framework |-> "absent", callable |-> "absent", expression |-> "absent",
      flow |-> "absent", constant |-> "absent", limit |-> "absent", capacity |-> "absent",
      compiler |-> "absent", binding |-> "absent", boundary |-> "absent", bmanifest |-> "absent",
      acquisition |-> "absent", order |-> "compilerFirst", rest |-> "ok" ]

\* Every combination of the selectors, each with its accepted value.
WellFormed ==
    { [Plainest EXCEPT !.workspace = w, !.manifest = m, !.semantic = s, !.framework = f,
                       !.callable = c, !.expression = e[1], !.flow = e[2], !.constant = e[3],
                       !.capacity = k, !.compiler = i[1], !.binding = i[2], !.boundary = b[1],
                       !.bmanifest = b[2], !.order = o] :
        w \in {"absent", "R3"}, m \in {"absent", "R4"}, s \in {"absent", "R5", "R10"},
        f \in {"absent", "R6"}, c \in {"absent", "K1"},
        e \in {<<"absent", "absent", "absent">>, <<"R14", "absent", "absent">>,
               <<"R14", "R15", "absent">>, <<"R14", "R15", "R16">>, <<"absent", "R15", "R16">>},
        k \in {"absent", "64M"},
        i \in {<<"absent", "absent">>, <<"R7", "file">>, <<"R7", "absent">>},
        b \in {<<"absent", "absent">>, <<"gitlinks", "absent">>},
        o \in {"compilerFirst"} }

\* The order of the options matters only beside a compiler index option.
Reordered == { [a EXCEPT !.order = "legacyFirst"] : a \in { x \in WellFormed : x.compiler # "absent" } }

\* What the parser makes of a line: the profiles, or "refused".
Selected(said) == IF said.ok THEN said.inv.flags ELSE {"refused"}
SelectedBy(lines) == [a \in lines |-> Selected(parse_s4_invocation(a))]
AcceptedLines(table) == {a \in DOMAIN table : table[a] # {"refused"}}

Malformed(parsed) ==
    { [a EXCEPT ![o] = v] : a \in parsed,
        o \in {"workspace", "manifest", "semantic", "framework", "callable", "expression", "flow",
               "constant", "limit", "capacity", "compiler", "binding", "boundary", "bmanifest",
               "acquisition"},
        v \in CommonValues }

Variants(parsed) ==
    UNION { { [a EXCEPT !.command = "refresh"], [a EXCEPT !.rest = "early"], [a EXCEPT !.rest = "late"],
              [a EXCEPT !.semantic = "R10-like"], [a EXCEPT !.bmanifest = "empty"],
              [a EXCEPT !.acquisition = "packed"], [a EXCEPT !.acquisition = "symlinks"],
              [a EXCEPT !.capacity = "256M"], [a EXCEPT !.bmanifest = "file"],
              [a EXCEPT !.acquisition = "8M", !.limit = "75s", !.capacity = "256M"] } : a \in parsed }
    \cup { [Plainest EXCEPT !.profile = p, !.rest = r, !.acquisition = q, !.limit = l] :
             p \in {"absent", "s1", "s2", "s3", "s5", "other"}, r \in {"ok", "early", "late"},
             q \in {"absent", "packed"}, l \in {"absent", "75s"} }

\* One invocation for each handler, and the ones without selectors.
Representative(table) ==
    LET accepted == { a \in AcceptedLines(table) : a.order = "compilerFirst" /\ a.profile = "s4" }
        With(f, bs) == { a \in accepted : table[a] = f /\ a.bmanifest \in bs }
        flags == { table[a] : a \in accepted }
    IN  { CHOOSE a \in With(f, {b}) : TRUE : f \in { g \in flags : "boundary" \in g }, b \in {"absent", "file"} }
        \cup { CHOOSE a \in With(f, {"absent"}) : TRUE : f \in { g \in flags : "boundary" \notin g } }
        \cup { [Plainest EXCEPT !.profile = p] : p \in {"absent", "s1", "s2", "s3"} }

Undisturbed(a) == [args |-> a, repository |-> TRUE, store |-> "absent", other |-> "never"]
Disturbed(as) ==
    { [args |-> a, repository |-> r, store |-> s, other |-> "never"] : a \in as, r \in BOOLEAN, s \in {"empty", "used"} }
    \cup { [args |-> a, repository |-> r, store |-> "absent", other |-> "idle"] : a \in as, r \in BOOLEAN }

StartsOf(parsed) ==
    { Undisturbed(a) : a \in WellFormed \cup Reordered \cup Malformed(parsed) \cup Variants(parsed) }
    \cup Disturbed(Representative(SelectedBy(WellFormed \cup Variants(parsed))))
MCStarts == StartsOf(AcceptedLines(SelectedBy(WellFormed)))

-----------------------------------------------------------------------------
(* The other commands, each in a world where other processes publish,       *)
(* generate and replace what it reads.                                      *)

Snap(i, s) == [id |-> i, schema |-> s, state |-> "sound", commit |-> "c1", evidence |-> TRUE]
\* Two R16 snapshots of different commits, one of each schema the exports
\* tell apart, and one of each way to be refused.
Latest == {Snap(1, 18), [Snap(2, 18) EXCEPT !.commit = "c2"], [Snap(3, 18) EXCEPT !.evidence = FALSE]}
Unreadable == {[Snap(4, 8) EXCEPT !.state = "corrupt"], [Snap(5, 12) EXCEPT !.state = "foreign"], Snap(6, 3)}
Older == {Snap(s, s) : s \in {6, 7, 10, 11, 12, 13, 14, 15, 16, 17}}
Roots(ids) == [of : ids, whole : BOOLEAN, current : BOOLEAN]
Graphs == [version : 1..9, boundaries : {FALSE}] \cup [version : {4, 5, 7, 9}, boundaries : {TRUE}]
World(heads, roots, graphs) == [heads |-> heads, roots |-> roots, graphs |-> graphs]

Line(command, world) ==
    [ command |-> command, order |-> "ok", store |-> "ok", identity |-> "ok", input |-> "ok",
      output |-> "ok", format |-> "ok", documents |-> "missing", profile |-> "none", id |-> "entity",
      context |-> "none", revision |-> "c1", world |-> world ]

NoWorld == World({}, {}, {})
Profiles == {"none", "K1", "R10", "R14", "R15", "R16", "R17"}
Families == {"R17-llm", "R16-like", "R15-like", "R14-like", "R10-like", "other"}
Defects ==
    {[Line(c, NoWorld) EXCEPT !.profile = p] : c \in {"export", "explore"}, p \in Families}
    \cup {[Line(c, NoWorld) EXCEPT !.profile = p, !.format = "missing"] : c \in {"export", "explore"}, p \in Families}
    \cup {[Line(c, NoWorld) EXCEPT !.profile = p, !.documents = "ok", !.output = "parent"] :
            c \in {"export", "explore"}, p \in Profiles}
    \cup {[Line("docs", NoWorld) EXCEPT !.order = o] : o \in {"dangling output", "dangling store", "unknown"}}
    \cup {[Line("query", NoWorld) EXCEPT !.order = o] : o \in {"dangling documents", "dangling context", "dangling store"}}
    \cup {[Line(c, NoWorld) EXCEPT !.output = "parent", !.context = "unknown", !.documents = "ok"] : c \in {"docs", "query", "source"}}

MCCalls ==
    Defects
    \cup {[Line("export", World(Older, {}, {})) EXCEPT !.profile = p] : p \in {"none", "K1", "R10"}}
    \cup {[Line("export", World({Snap(s, s) : s \in {15, 16, 17}} \cup {Snap(1, 18)}, Roots({1, 16}), {})) EXCEPT
             !.profile = p, !.documents = "ok"] : p \in {"R14", "R15", "R16"}}
    \cup {[Line("explore", World({}, {}, Graphs)) EXCEPT !.profile = p] : p \in Profiles}
    \cup {[Line("query", World({Snap(1, 18), Snap(6, 6), Snap(7, 7), Snap(8, 8)} \cup Unreadable, Roots({1, 7}), {})) EXCEPT
             !.documents = "ok", !.id = i] : i \in {"entity", "evidence", "diagnostic"}}
    \cup {[Line("query", World({Snap(1, 18), Snap(17, 17)}, Roots({1, 17}), {})) EXCEPT
             !.documents = "ok", !.context = c] : c \in {"context", "llm-context"}}
    \cup {Line("docs", World(Older \cup Unreadable, {}, {}))}
    \cup {[Line("source", World(Latest \cup Older \cup Unreadable, {}, {})) EXCEPT !.id = "evidence", !.revision = r] : r \in {"c1", "c2"}}

-----------------------------------------------------------------------------
VARIABLE reading    \* the command is not a scan

commandVars == <<vars, readVars, reading>>

CommandsInit ==
    \/ /\ reading = FALSE
       /\ call = NewCall(Line("docs", World(Older \cup Unreadable, {}, {})))
       /\ head = None /\ documents = None /\ portable = None
       /\ Init
    \/ /\ reading = TRUE
       /\ args = Plainest /\ repository = TRUE /\ store = "absent" /\ other = "never"
       /\ Init
       /\ ReadCommandsInit

Scanning(step) == ~reading /\ step /\ UNCHANGED <<readVars, reading>>
Reading(step) == reading /\ step /\ UNCHANGED <<vars, reading>>

CommandsNext == Scanning(Next) \/ Reading(ReadCommandsNext)

CommandsSpec ==
    /\ CommandsInit /\ [][CommandsNext]_commandVars
    /\ WF_commandVars(Scanning(MainStep)) /\ WF_commandVars(Scanning(WorkerStep))
    /\ WF_commandVars(Reading(CallStep))

\* Every command ends: main is never left waiting for its scan worker, and no
\* chain of profile fall-throughs or reloads goes on for ever.
CommandsEnd == <>(IF reading THEN call.at = "done" ELSE pc = "exit")

=============================================================================
