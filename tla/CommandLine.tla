---------------------------- MODULE CommandLine ----------------------------
(***************************************************************************)
(* The selectors of `noesis scan`: which parser reads them, which handler  *)
(* they select, and in which error envelope a failure is reported.         *)
(* (crates/noesis/src/main.rs)                                             *)
(*                                                                         *)
(* An invocation is a record with one field per option.  A field says      *)
(* which value the option was given: "absent", its accepted value, another *)
(* one ("other"), the accepted value twice ("twice"), or the option as the *)
(* last word with no value after it ("dangling").  Some options have more  *)
(* values: see Selectors.  "order" is the one fact about the position of   *)
(* the options that the program uses, and "rest" stands for the options    *)
(* every scan needs: "ok", "early" when --repository, --repository-id or   *)
(* --revision is bad, "late" when --format or --store is.                  *)
(***************************************************************************)
EXTENDS Naturals, Sequences

CommonValues == {"absent", "twice", "dangling", "other"}

\* The values an option is told apart by.
Given(values) == CommonValues \cup values

Selectors ==
    [ command : {"scan", "refresh"}, profile : {"absent", "s1", "s2", "s3", "s4", "s5", "other"},
      workspace : Given({"R3"}), manifest : Given({"R4"}), semantic : Given({"R5", "R10", "R10-like"}),
      framework : Given({"R6"}), callable : Given({"K1"}), expression : Given({"R14"}),
      flow : Given({"R15"}), constant : Given({"R16"}), limit : Given({"75s"}),
      capacity : Given({"64M", "256M"}), compiler : Given({"R7"}), binding : Given({"file"}),
      boundary : Given({"gitlinks"}), bmanifest : Given({"file", "empty"}),
      acquisition : Given({"packed", "8M", "symlinks"}), order : {"compilerFirst", "legacyFirst"},
      rest : {"ok", "early", "late"} ]

\* A chain of `if`s is a sequence of rows <<condition, outcome>>.
Holding(rows) == { i \in 1..Len(rows) : rows[i][1] }

\* The outcome of the first row whose condition holds.
First(rows) == rows[CHOOSE i \in Holding(rows) : \A j \in Holding(rows) : i <= j][2]

---------------------------------------------------------------------------
(* What main and the parsers ask of the raw arguments.                     *)

option_requested(a, o) == a[o] # "absent"

Any(a, os) == \E o \in os : option_requested(a, o)

rust_cfg_alternatives_requested(a) == a.semantic \in {"R10", "R10-like"}

rust_callable_cfg_alternatives_requested(a) ==
    /\ rust_cfg_alternatives_requested(a)
    /\ option_requested(a, "callable")
    /\ option_requested(a, "framework")

\* An option of an older family stands before the first compiler option.
legacy_r13_lineage_precedes_compiler(a) ==
    /\ Any(a, {"boundary", "bmanifest", "capacity"}) \/ rust_cfg_alternatives_requested(a)
    /\ Any(a, {"compiler", "binding"})
    /\ a.order = "legacyFirst"

rust_callable_scip_requested(a) ==
    /\ option_requested(a, "callable")
    /\ option_requested(a, "compiler")
    /\ option_requested(a, "capacity") => option_requested(a, "binding")
    /\ ~legacy_r13_lineage_precedes_compiler(a)

boundary_requested(a) == Any(a, {"boundary", "bmanifest"})

k1_scan_requested(a) == Any(a, {"callable", "capacity", "expression", "flow", "constant"})

r11_requested(a) ==
    /\ k1_scan_requested(a)
    /\ boundary_requested(a)
    /\ ~rust_callable_cfg_alternatives_requested(a)
    /\ ~rust_callable_scip_requested(a)

k1_requested(a) ==
    /\ k1_scan_requested(a)
    /\ ~rust_cfg_alternatives_requested(a)
    /\ ~rust_callable_cfg_alternatives_requested(a)
    /\ ~rust_callable_scip_requested(a)
    /\ ~Any(a, {"expression", "flow", "constant"})

rust_semantic_requested(a) ==
    option_requested(a, "semantic") /\ ~rust_cfg_alternatives_requested(a)

\* main starts the scan worker, before any confinement, exactly for these.
scan_worker_spawned(a) ==
    \/ k1_scan_requested(a)
    \/ Any(a, {"compiler", "binding", "framework", "manifest", "workspace"})
    \/ rust_cfg_alternatives_requested(a)
    \/ rust_semantic_requested(a)
    \/ boundary_requested(a)

---------------------------------------------------------------------------
(* Parsing.  A parser is a table of checks in the order the code makes     *)
(* them; the first check that fails names the InvocationError returned.    *)

NoInvocation == [handler |-> "none"]

Refused(error) == [ok |-> FALSE, error |-> error, inv |-> NoInvocation]

Parsed(inv) == [ok |-> TRUE, error |-> "none", inv |-> inv]

Verdict(checks, inv) == IF Holding(checks) = {} THEN Parsed(inv) ELSE Refused(First(checks))

\* The second table is looked at when the first refuses nothing.
Then(first, second) == IF first.ok THEN second ELSE first

Dangling(a) == \E o \in DOMAIN a : a[o] = "dangling"

\* @mutant: the older parser is not shown the nested repository options.
StripBoundary(a, os) ==
    [o \in DOMAIN a |-> IF o \in os \cup {"boundary", "bmanifest"} THEN "absent" ELSE a[o]]

Strip(a, os) == [o \in DOMAIN a |-> IF o \in os THEN "absent" ELSE a[o]]

---------------------------------------------------------------------------
(* Invocation::parse_command, which every selector parser ends in.         *)

\* The family blamed when the command or --profile is not the one required.
BlamedFamily(a) ==
    First(<< << option_requested(a, "framework"), "RustFrameworkComposition" >>,
             << option_requested(a, "semantic"), "RustSemanticComposition" >>,
             << Any(a, {"boundary", "bmanifest"}), "BoundaryProfile" >>,
             << option_requested(a, "workspace"), "WorkspaceProfile" >>,
             << option_requested(a, "manifest"), "ManifestProfile" >>,
             << TRUE, "Input" >> >>)

\* The error of an option that is repeated, or last and without a value.
OptionError(a, bad) ==
    LET composed(error) ==
            IF option_requested(a, "framework") THEN "RustFrameworkComposition" ELSE error
    IN  CASE "acquisition" \in bad -> "AcquisitionProfile"
          [] "framework" \in bad -> "RustFrameworkProfile"
          [] "boundary" \in bad -> "BoundaryProfile"
          [] "bmanifest" \in bad -> "BoundaryManifest"
          [] "workspace" \in bad -> composed("WorkspaceProfile")
          [] "manifest" \in bad -> composed("ManifestProfile")
          [] "semantic" \in bad -> composed("RustSemanticProfile")
          [] OTHER -> "Input"

LoopOptions ==
    {"workspace", "manifest", "semantic", "framework", "boundary", "bmanifest", "acquisition"}

UnknownOptions ==
    {"callable", "expression", "flow", "constant", "limit", "capacity", "compiler", "binding"}

\* The option loop.  An invocation has at most one malformed option here, so
\* the order in which the loop would meet several does not matter.
OptionLoop(a, command, required) ==
    LET bad == { o \in LoopOptions : a[o] \in {"twice", "dangling"} }
    IN  << << a.command # command, BlamedFamily(a) >>,
           << Any(a, UnknownOptions), "Input" >>,
           << bad # {}, OptionError(a, bad) >>,
           << a.rest = "early", "Input" >>,
           << a.profile # required, BlamedFamily(a) >> >>

\* The profile flags the command ends up with.  A manifest profile counts
\* only beside one of the profiles it describes.
SelectedFlags(a) ==
    LET given == { f \in {"workspace", "semantic", "framework", "boundary"} :
                     a[f] = [workspace |-> "R3", semantic |-> "R5", framework |-> "R6",
                             boundary |-> "gitlinks"][f] }
    IN  given \cup (IF a.manifest = "R4" /\ given \cap {"workspace", "semantic", "framework"} # {}
                    THEN {"manifest"} ELSE {})

ProfileChecks(a, fl) ==
    LET unselected(o) == option_requested(a, o) /\ o \notin fl
        composed(error) == IF "framework" \in fl THEN "RustFrameworkComposition" ELSE error
    IN  << << unselected("framework"), "RustFrameworkProfile" >>,
           << unselected("boundary") \/ (option_requested(a, "bmanifest") /\ "boundary" \notin fl),
              "BoundaryProfile" >>,
           << unselected("workspace"), composed("WorkspaceProfile") >>,
           << unselected("semantic"), composed("RustSemanticProfile") >>,
           << unselected("manifest"), composed("ManifestProfile") >>,
           << "framework" \in fl /\ ~({"workspace", "manifest", "semantic"} \subseteq fl),
              "RustFrameworkComposition" >>,
           << "semantic" \in fl /\ ~({"workspace", "manifest"} \subseteq fl),
              "RustSemanticComposition" >>,
           << a.bmanifest = "empty", "BoundaryManifest" >> >>

Invocation(a, flags) ==
    [ flags |-> flags, acquisition |-> a.acquisition, capacity |-> "absent", limit |-> "absent",
      bmanifest |-> a.bmanifest ]

\* required: the --profile the command needs, "absent" for none.  Selector
\* options never reach it with another profile than s4: main sends them to run_s4.
parse_command(a, command, required) ==
    LET packable == IF required \in {"s1", "s2", "s3", "s4"} THEN {"packed", "8M"} ELSE {}
    IN  Then(Verdict(OptionLoop(a, command, required), NoInvocation),
        Then(Verdict(ProfileChecks(a, SelectedFlags(a)), NoInvocation),
             Verdict(<< << a.acquisition \notin packable \cup {"absent"}, "AcquisitionProfile" >>,
                        << a.rest = "late", "Input" >> >>,
                     Invocation(a, SelectedFlags(a)))))

parse(a) == parse_command(a, "scan", "s4")

---------------------------------------------------------------------------
(* The parsers of the later profiles.  Each takes its own options out,     *)
(* gives the rest to an older parser, and translates what that one refuses.*)

\* own: the parser's own checks; inner: the older parser's answer; lacks: the
\* composition misses a profile, or holds one it may not.
Wrapping(own, inner, remap(_), composition, lacks(_), finish(_)) ==
    LET mine == Verdict(own, NoInvocation)
    IN  IF ~mine.ok THEN mine
        ELSE IF ~inner.ok THEN Refused(remap(inner.error))
        ELSE IF lacks(inner.inv) THEN Refused(composition)
        ELSE Parsed(finish(inner.inv))

SourceProfiles == {"workspace", "manifest", "semantic", "framework"}

SourceErrors ==
    { "WorkspaceProfile", "ManifestProfile", "RustSemanticProfile", "RustSemanticComposition",
      "RustFrameworkProfile", "RustFrameworkComposition" }

CompilerOptions == {"compiler", "binding"}

NotAPlainScan(a) == a.command # "scan" \/ Any(a, CompilerOptions)

ManifestAlone(a) == option_requested(a, "bmanifest") /\ ~option_requested(a, "boundary")

\* The path of parse_s4_invocation that reads the compiler index options.
R7Checks(a) ==
    << << Dangling(a) \/ a.compiler = "twice" \/ a.binding = "twice", "CompilerIndexComposition" >>,
       << a.compiler = "absent", "CompilerIndexComposition" >>,
       << a.compiler # "R7", "CompilerIndexProfile" >>,
       << a.binding = "absent", "CompilerIndexComposition" >>,
       << ~( /\ a.profile = "s4"
             /\ a.workspace \in {"R3", "twice"} /\ a.manifest \in {"R4", "twice"}
             /\ a.semantic \in {"R5", "twice"} /\ a.framework \in {"R6", "twice"} ),
          "CompilerIndexComposition" >> >>

parse_r7(a) ==
    Wrapping(R7Checks(a), parse(Strip(a, CompilerOptions)),
             LAMBDA e : IF e \in SourceErrors THEN "CompilerIndexComposition" ELSE e,
             "CompilerIndexComposition",
             LAMBDA inv : ~(SourceProfiles \subseteq inv.flags),
             LAMBDA inv : [inv EXCEPT !.flags = @ \cup {"compiler"}])

K1Checks(a) ==
    << << NotAPlainScan(a), "RustCallableComposition" >>,
       << Dangling(a) \/ a.callable = "twice" \/ a.capacity = "twice", "RustCallableComposition" >>,
       << a.callable = "absent", "RustCallableComposition" >>,
       << a.callable # "K1", "RustCallableProfile" >>,
       << a.capacity \notin {"absent", "64M"}, "RustCallableComposition" >>,
       << ManifestAlone(a), "BoundaryManifest" >> >>

parse_k1(a) ==
    Wrapping(K1Checks(a), parse(Strip(a, {"callable", "capacity"})),
             LAMBDA e : IF e \in SourceErrors THEN "RustCallableComposition" ELSE e,
             "RustCallableComposition",
             LAMBDA inv : ~(SourceProfiles \subseteq inv.flags),
             LAMBDA inv : [inv EXCEPT !.flags = @ \cup {"callable"}, !.capacity = a.capacity])

R6OutputChecks(a) ==
    << << Dangling(a) \/ a.capacity = "twice", "RustFrameworkComposition" >>,
       << a.capacity \notin {"64M", "256M"}, "RustFrameworkComposition" >> >>

parse_r6_output(a) ==
    Wrapping(R6OutputChecks(a), parse(Strip(a, {"capacity"})),
             LAMBDA e : e,
             "RustFrameworkComposition",
             LAMBDA inv : "framework" \notin inv.flags,
             LAMBDA inv : [inv EXCEPT !.capacity = a.capacity])

\* R10 stands in for R5 while the older parser reads the line.
AsR5(a) == [a EXCEPT !.semantic = "R5"]

R10Checks(a) ==
    << << NotAPlainScan(a) \/ Any(a, {"framework", "callable", "capacity"}),
          "RustCfgAlternativesComposition" >>,
       << Dangling(a), "RustCfgAlternativesComposition" >>,
       << a.semantic # "R10", "RustCfgAlternativesProfile" >> >>

parse_r10(a) ==
    Wrapping(R10Checks(a), parse(AsR5(a)),
             LAMBDA e : IF e \in SourceErrors THEN "RustCfgAlternativesComposition" ELSE e,
             "RustCfgAlternativesComposition",
             LAMBDA inv : ~({"workspace", "manifest", "semantic"} \subseteq inv.flags),
             LAMBDA inv : [inv EXCEPT !.flags = (@ \ {"semantic"}) \cup {"cfg"}])

R12Checks(a) ==
    << << NotAPlainScan(a), "R12Composition" >>,
       << Dangling(a) \/ a.callable = "twice" \/ a.capacity = "twice", "R12Composition" >>,
       << a.semantic \notin {"absent", "R10"} \/ a.callable \notin {"absent", "K1"}, "R12Profile" >>,
       << a.semantic = "absent" \/ a.callable = "absent", "R12Composition" >>,
       << a.capacity \notin {"absent", "64M"}, "R12Profile" >>,
       << ManifestAlone(a), "BoundaryManifest" >> >>

parse_r12(a) ==
    Wrapping(R12Checks(a), parse(AsR5(Strip(a, {"callable", "capacity"}))),
             LAMBDA e : IF e \in {"BoundaryManifest", "BoundaryProfile"} THEN e ELSE "R12Composition",
             "R12Composition",
             LAMBDA inv : ~(SourceProfiles \subseteq inv.flags),
             LAMBDA inv : [inv EXCEPT !.flags = (@ \ {"semantic"}) \cup {"cfg", "callable"},
                                      !.capacity = a.capacity])

R13Checks(a) ==
    << << \/ a.command # "scan" \/ Any(a, {"boundary", "bmanifest", "capacity"})
          \/ rust_cfg_alternatives_requested(a), "R13Composition" >>,
       << Dangling(a) \/ a.callable = "twice", "R13Composition" >>,
       << a.callable # "K1", "R13Profile" >> >>

\* parse_s4_invocation on what remains: the compiler options are among it.
parse_r13(a) ==
    Wrapping(R13Checks(a), parse_r7(Strip(a, {"callable"})),
             LAMBDA e : CASE e = "Input" -> e
                          [] e = "CompilerIndexProfile" -> "R13Profile"
                          [] OTHER -> "R13Composition",
             "R13Composition",
             LAMBDA inv : ~(SourceProfiles \cup {"compiler"} \subseteq inv.flags),
             LAMBDA inv : [inv EXCEPT !.flags = @ \cup {"callable"}])

PassesThrough == {"Input", "BoundaryProfile", "BoundaryManifest"}

R14Checks(a) ==
    << << NotAPlainScan(a), "R14Composition" >>,
       << Dangling(a) \/ a.expression = "twice" \/ a.capacity = "twice", "R14Composition" >>,
       << a.expression = "absent", "R14Composition" >>,
       << a.expression # "R14", "R14Profile" >>,
       << a.capacity = "other", "R14Composition" >> >>

parse_r14(a) ==
    LET rest == Strip(a, {"expression", "capacity"})
        r12_composition == boundary_requested(a) \/ rust_cfg_alternatives_requested(a)
    IN  Wrapping(R14Checks(a), IF r12_composition THEN parse_r12(rest) ELSE parse_k1(rest),
                 LAMBDA e : IF e = "Input" \/ (r12_composition /\ e \in PassesThrough) THEN e
                            ELSE "R14Composition",
                 "R14Composition",
                 LAMBDA inv : ~( /\ {"workspace", "manifest", "framework", "callable"} \subseteq inv.flags
                                 /\ inv.flags \cap {"semantic", "cfg"} # {}
                                 /\ "compiler" \notin inv.flags ),
                 LAMBDA inv : [inv EXCEPT !.flags = @ \cup {"expression"}, !.capacity = a.capacity])

R15Checks(a) ==
    << << NotAPlainScan(a), "R15Composition" >>,
       << Dangling(a) \/ a.flow = "twice", "R15Composition" >>,
       << a.flow = "absent", "R15Composition" >>,
       << a.flow # "R15", "R15Profile" >> >>

parse_r15(a) ==
    Wrapping(R15Checks(a), parse_r14(Strip(a, {"flow"})),
             LAMBDA e : IF e \in PassesThrough THEN e ELSE "R15Composition",
             "R15Composition",
             LAMBDA inv : "expression" \notin inv.flags \/ "compiler" \in inv.flags,
             LAMBDA inv : [inv EXCEPT !.flags = @ \cup {"flow"}])

R16Checks(a) ==
    << << NotAPlainScan(a), "R16Composition" >>,
       << Dangling(a) \/ a.constant = "twice" \/ a.limit = "twice", "R16Composition" >>,
       << a.constant # "R16", "R16Profile" >>,
       << a.limit \notin {"absent", "75s"}, "R16Composition" >> >>

\* The older parsers know the larger acquisition, not the one with symlinks.
AsPacked(a) == [a EXCEPT !.acquisition = IF @ = "symlinks" THEN "8M" ELSE @]

parse_r16(a) ==
    LET packed(inv) == inv.acquisition \in {"packed", "8M"}
    IN  Wrapping(R16Checks(a), parse_r15(AsPacked(Strip(a, {"constant", "limit"}))),
                 LAMBDA e : IF e \in PassesThrough THEN e ELSE "R16Composition",
                 "R16Composition",
                 LAMBDA inv : \/ "flow" \notin inv.flags \/ "compiler" \in inv.flags
                              \/ a.limit = "75s" /\ ~(packed(inv) /\ inv.capacity = "256M"),
                 LAMBDA inv : [inv EXCEPT !.flags = @ \cup {"constant"}, !.acquisition = a.acquisition,
                                          !.limit = a.limit])

parse_s4_invocation(a) ==
    CASE option_requested(a, "constant") -> parse_r16(a)
      [] ~option_requested(a, "constant") /\ option_requested(a, "flow") -> parse_r15(a)
      [] ~Any(a, {"constant", "flow"}) /\ option_requested(a, "expression") -> parse_r14(a)
      [] OTHER ->
           IF rust_callable_scip_requested(a) THEN parse_r13(a)
           ELSE IF rust_callable_cfg_alternatives_requested(a) THEN parse_r12(a)
           ELSE IF rust_cfg_alternatives_requested(a) THEN parse_r10(a)
           ELSE IF Any(a, {"capacity"}) /\ Any(a, {"framework"}) /\ ~Any(a, {"callable"})
                THEN parse_r6_output(a)
           ELSE IF Any(a, {"callable", "capacity"}) THEN parse_k1(a)
           ELSE IF Any(a, CompilerOptions) THEN parse_r7(a)
           ELSE parse(a)
=============================================================================
