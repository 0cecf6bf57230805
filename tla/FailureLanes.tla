---------------------------- MODULE FailureLanes ----------------------------
(***************************************************************************)
(* Which numbered error envelope, and which exit code, a failed scan ends  *)
(* with.  (crates/noesis/src/main.rs)                                      *)
(*                                                                         *)
(* A failure is a record [lane, exit].  A lane "V<n>" is an error of that  *)
(* envelope.  The lanes "Input", "Acquisition", "Gitlink" (an acquisition  *)
(* refused because of a submodule), "Knowledge", "Workspace", "Limit",     *)
(* "Storage" and "Internal" carry no envelope yet: main picks one from the *)
(* arguments.                                                              *)
(***************************************************************************)
EXTENDS CommandLine

Fail(lane, exit) == [lane |-> lane, exit |-> exit]

\* Failure::Scan and Failure::Input: exit codes are main's.
Plain(lane) == Fail(lane, 0)

Internal(lane) == Fail(lane, 70)

---------------------------------------------------------------------------
(* A refused command line.                                                 *)

invocation_failure(error) ==
    CASE error = "Input" -> Plain("Input")
      [] error = "AcquisitionProfile" -> Fail("V6", 2)
      [] error = "WorkspaceProfile" -> Fail("V10", 2)
      [] error = "ManifestProfile" -> Fail("V11", 2)
      [] error = "RustSemanticProfile" -> Fail("V12", 2)
      [] error = "RustSemanticComposition" -> Fail("V12", 11)
      [] error \in {"RustCfgAlternativesProfile", "RustCfgAlternativesComposition"} -> Fail("V17", 2)
      [] error = "RustFrameworkProfile" -> Fail("V13", 2)
      [] error = "RustFrameworkComposition" -> Fail("V13", 11)
      [] error = "RustCallableProfile" -> Fail("V16", 2)
      [] error = "RustCallableComposition" -> Fail("V16", 11)
      [] error \in {"CompilerIndexProfile", "CompilerIndexComposition"} -> Fail("V14", 10)
      [] error \in {"BoundaryProfile", "BoundaryManifest"} -> Fail("V9", 2)
      [] error \in {"R12Profile", "R12Composition"} -> Fail("V19", 2)
      [] error \in {"R13Profile", "R13Composition"} -> Fail("V20", 2)
      [] error \in {"R14Profile", "R14Composition"} -> Fail("V21", 2)
      [] error \in {"R15Profile", "R15Composition"} -> Fail("V22", 2)
      [] error \in {"R16Profile", "R16Composition"} -> Fail("V24", 2)

\* R12 to R16 answer in their own envelope, except for the common inputs.
own_invocation_failure(error, lane) == IF error = "Input" THEN Plain("Input") ELSE Fail(lane, 2)

r16_invocation_failure(error) == own_invocation_failure(error, "V24")
r15_invocation_failure(error) ==
    IF error \in {"R16Profile", "R16Composition"} THEN Fail("V24", 2) ELSE own_invocation_failure(error, "V22")
r14_invocation_failure(error) == own_invocation_failure(error, "V21")
r13_invocation_failure(error) == own_invocation_failure(error, "V20")
r12_invocation_failure(error) == own_invocation_failure(error, "V19")

r11_invocation_failure(error) ==
    CASE error \in {"RustCallableProfile", "BoundaryProfile", "BoundaryManifest"} -> Fail("V18", 2)
      [] error \in SourceErrors \cup
            { "RustCfgAlternativesProfile", "RustCfgAlternativesComposition", "R12Profile",
              "R12Composition", "RustCallableComposition", "CompilerIndexProfile",
              "CompilerIndexComposition" } -> Fail("V18", 11)
      [] OTHER -> invocation_failure(error)

\* run_s4 translates a refusal by the lane the arguments asked for.
s4_refusal(a, error) ==
    LET r11 == /\ Any(a, {"callable", "capacity"})
               /\ boundary_requested(a)
               /\ ~rust_callable_cfg_alternatives_requested(a)
        lanes == << << option_requested(a, "constant"), r16_invocation_failure(error) >>,
                    << option_requested(a, "flow"), r15_invocation_failure(error) >>,
                    << option_requested(a, "expression"), r14_invocation_failure(error) >>,
                    << rust_callable_scip_requested(a), r13_invocation_failure(error) >>,
                    << rust_callable_cfg_alternatives_requested(a), r12_invocation_failure(error) >>,
                    << r11, r11_invocation_failure(error) >>,
                    << TRUE, invocation_failure(error) >> >>
    IN  First(lanes)

---------------------------------------------------------------------------
(* A failed scan.  An error of an extractor names the profile that raised  *)
(* it: "workspace" is R3's, "manifest" R4's, and so on; "source" is the    *)
(* source inventory under them.                                            *)

boundary_scan_failure(e) ==
    CASE e = "internal" -> Internal("V9")
      [] e = "boundary_report" -> Fail("V9", 70)
      [] e = "boundary_manifest" -> Fail("V9", 2)
      [] e = "boundary" -> Fail("V9", 10)

BoundaryErrors == {"boundary_report", "boundary_manifest", "boundary"}

PlainErrors == {"acquisition", "gitlink", "limit", "knowledge"}

plain_scan_failure(e) ==
    Plain([acquisition |-> "Acquisition", limit |-> "Limit", gitlink |-> "Gitlink", knowledge |-> "Knowledge"][e])

r3_scan_failure(e) ==
    CASE e = "internal" -> Internal("V10")
      [] e \in PlainErrors -> plain_scan_failure(e)
      [] e = "source" -> Plain("Workspace")
      [] e = "workspace" -> Fail("V10", 11)
      [] e \in BoundaryErrors -> boundary_scan_failure(e)

r4_scan_failure(e) ==
    CASE e = "internal" -> Internal("V11")
      [] e = "manifest" -> Fail("V11", 11)
      [] OTHER -> r3_scan_failure(e)

r5_scan_failure(e) ==
    CASE e = "internal" -> Internal("V12")
      [] e \in {"semantic", "identity_conflict"} -> Fail("V12", 11)
      [] OTHER -> r4_scan_failure(e)

r6_scan_failure(e) ==
    CASE e = "internal" -> Internal("V13")
      [] e = "framework" -> Fail("V13", 11)
      [] OTHER -> r5_scan_failure(e)

r7_scan_failure(e) ==
    CASE e = "internal" -> Internal("V14")
      [] e = "index" -> Fail("V14", 10)
      [] OTHER -> r6_scan_failure(e)

k1_scan_failure(e) ==
    CASE e = "internal" -> Internal("V16")
      [] e = "callable" -> Fail("V16", 11)
      [] OTHER -> r6_scan_failure(e)

\* The profiles composed of others report every extraction error as their own.
composed_scan_failure(e, lane) ==
    CASE e = "internal" -> Internal(lane)
      [] e \in {"extraction", "composition"} -> Fail(lane, 11)
      [] e = "index" -> Fail(lane, 10)
      [] e = "snapshot" -> Fail(lane, 12)
      [] e \in PlainErrors -> plain_scan_failure(e)
      [] e \in BoundaryErrors -> [boundary_scan_failure(e) EXCEPT !.lane = lane]

\* R11, R12 and R13 take over limits; R14, R15 and R16 every acquisition error.
limit_upgrade(f, lane) == IF f.lane = "Limit" THEN Fail(lane, 10) ELSE f

acquisition_upgrade(f, lane) ==
    CASE f.lane = "Gitlink" -> Fail(lane, 2)
      [] f.lane \in {"Acquisition", "Limit"} -> Fail(lane, 10)
      [] OTHER -> f

r10_scan_failure(e) ==
    IF e \in BoundaryErrors THEN boundary_scan_failure(e) ELSE composed_scan_failure(e, "V17")

r11_scan_failure(e) ==
    CASE e \in {"callable", "identity_conflict"} -> Fail("V18", 11)
      [] e \in {"source", "workspace", "manifest", "semantic", "framework"} -> r6_scan_failure(e)
      [] OTHER -> limit_upgrade(composed_scan_failure(e, "V18"), "V18")

r12_scan_failure(e) == limit_upgrade(composed_scan_failure(e, "V19"), "V19")
r13_scan_failure(e) == limit_upgrade(composed_scan_failure(e, "V20"), "V20")
r14_scan_failure(e) == acquisition_upgrade(composed_scan_failure(e, "V21"), "V21")
r15_scan_failure(e) == acquisition_upgrade(composed_scan_failure(e, "V22"), "V22")
r16_scan_failure(e) == acquisition_upgrade(composed_scan_failure(e, "V24"), "V24")

---------------------------------------------------------------------------
(* main: the envelope a plain failure gets.                                *)

LineageEnvelope(a) ==
    CASE a.profile \in {"s3", "s4"} -> "V4"
      [] a.profile = "s2" -> "V3"
      [] a.profile \in {"s1", "s5", "other"} -> "V2"
      [] OTHER -> "V1"

PackedOrLineage(a) == IF option_requested(a, "acquisition") THEN "V6" ELSE LineageEnvelope(a)

InternalEnvelope(a) ==
    LET lanes == << << rust_callable_scip_requested(a), "V20" >>,
                    << rust_callable_cfg_alternatives_requested(a), "V19" >>,
                    << r11_requested(a), "V18" >>,
                    << k1_requested(a), "V16" >>,
                    << rust_cfg_alternatives_requested(a), "V17" >>,
                    << rust_semantic_requested(a), "V12" >>,
                    << TRUE, PackedOrLineage(a) >> >>
    IN  First(lanes)

envelope(a, f) ==
    CASE f.lane = "Input" -> Fail(PackedOrLineage(a), 2)
      [] f.lane \in {"Acquisition", "Limit", "Gitlink"} -> Fail(PackedOrLineage(a), 10)
      [] f.lane = "Knowledge" /\ a.profile \in {"s2", "s3", "s4"} -> Fail(LineageEnvelope(a), 11)
      [] f.lane = "Workspace" /\ a.profile = "s4" -> Fail("V5", 11)
      [] f.lane = "Storage" /\ a.profile \in {"s3", "s4"} -> Fail("V4", 12)
      [] f.lane \in {"Knowledge", "Workspace", "Storage"} /\ LineageEnvelope(a) # "V4"
            /\ ~(f.lane = "Knowledge" /\ a.profile = "s2") -> Fail(LineageEnvelope(a), 70)
      [] f.lane = "Internal" -> Fail(InternalEnvelope(a), 70)
      [] OTHER -> f

\* The envelope when the answer cannot be written to standard output.
StdoutEnvelope(a) ==
    LET lanes == << << option_requested(a, "constant"), "V24" >>,
                    << option_requested(a, "flow"), "V22" >>,
                    << option_requested(a, "expression"), "V21" >>,
                    << rust_callable_scip_requested(a), "V20" >>,
                    << rust_callable_cfg_alternatives_requested(a), "V19" >>,
                    << r11_requested(a), "V18" >>,
                    << rust_cfg_alternatives_requested(a), "V17" >>,
                    << k1_requested(a), "V16" >>,
                    << a.command = "refresh", "V7" >>,
                    << Any(a, CompilerOptions), "V14" >>,
                    << option_requested(a, "framework"), "V13" >>,
                    << rust_semantic_requested(a), "V12" >>,
                    << option_requested(a, "manifest"), "V11" >>,
                    << option_requested(a, "workspace"), "V10" >>,
                    << boundary_requested(a), "V9" >>,
                    << TRUE, PackedOrLineage(a) >> >>
    IN  Fail(First(lanes), 70)
=============================================================================
