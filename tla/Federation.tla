----------------------------- MODULE Federation -----------------------------
(***************************************************************************)
(* `noesis federate`: one provider contract and the declarations of its    *)
(* clients, bound by digest in a workspace manifest, become one report of  *)
(* confirmed links, heuristic candidates, rejections and coverage gaps.    *)
(*                                                                         *)
(* The command reads the files of a workspace that others may still edit:  *)
(* it looks at each file once for its length and once for its bytes.  A    *)
(* digest is represented by the content it is the digest of.  Files are    *)
(* named by their place in path order, the order the report is built in;   *)
(* `Manifest` is the workspace manifest itself.  Every file holds          *)
(* [kind, size, value].                                                    *)
(***************************************************************************)
EXTENDS OpenApi

CONSTANTS
    Workspaces,         \* the workspaces a behaviour may start from
    Replacements,       \* what an outside editor may put in a file
    MaxEdits,           \* bound on those edits
    MaxRepositories,    \* FederationLimit::Repositories
    MaxClients,         \* FederationLimit::Clients
    MaxContractBytes,   \* FederationLimit::ContractBytesPerDocument
    MaxManifestBytes,   \* FederationLimit::WorkspaceManifestBytes
    MaxMemory,          \* FederationLimit::MemoryBytes
    MaxConfirmed,       \* FederationLimit::ConfirmedLinks
    MaxCandidates,      \* FederationLimit::Candidates
    MaxRejections       \* FederationLimit::Rejections

VARIABLES files, edits, fed

federationVars == <<files, edits, fed>>

Manifest == 0

Missing == [kind |-> "missing", size |-> 0, value |-> "none"]

-----------------------------------------------------------------------------
(* Identities of the report. *)

client_id(repository) == <<"client", repository>>

call_site_id(d) == <<"call", d.repository, d.revision, d.source, d.symbol>>

workspace_binding(d) == <<"workspace", d.repository, d.revision, d.path>>

Fingerprint(binding) == binding

ExplicitOperation(binding) ==
    operation_id(service_id(binding.authority), binding.method, binding.target,
                 binding.operation)

confirmed_link_id(operation, site) == <<"link", operation, site>>
heuristic_candidate_id(operation, site, binding) == <<"candidate", operation, site, binding>>
rejection_id(operation, site) == <<"rejection", operation, site>>
heuristic_gap_id(subject, reason, evidence) == <<"heuristic", subject, reason, evidence>>

-----------------------------------------------------------------------------
(* The domain: one declaration after the other, in path order. *)

NoReport == [error |-> "none", provider |-> NoContract("none"), subjects |-> <<>>,
             clients |-> <<>>, confirmed |-> <<>>, candidates |-> <<>>,
             rejections |-> <<>>, gaps |-> <<>>, evidence |-> {}]

Refused(report, error) == [report EXCEPT !.error = error]

HeuristicGap(subject, reason, evidence) ==
    [id |-> heuristic_gap_id(subject, reason, evidence), subject |-> subject,
     reason |-> reason, evidence |-> {evidence}]

push_heuristic_gap(report, subject, reason, evidence) ==
    IF Len(report.gaps) >= MaxGaps THEN Refused(report, "limit")
    ELSE [report EXCEPT !.gaps = Append(@, HeuristicGap(subject, reason, evidence))]

Confirm(report, d, operation, evidence) ==
    IF Len(report.confirmed) >= MaxConfirmed THEN Refused(report, "limit")
    ELSE [report EXCEPT !.confirmed =
            Append(@, [id |-> confirmed_link_id(operation.id, call_site_id(d)),
                       operation |-> operation.id, site |-> call_site_id(d),
                       client |-> client_id(d.repository),
                       evidence |-> {operation.primary, evidence}])]

\* The evidence that the operation is not there: some operation that is, or
\* the provider's first item.
Fallback(provider) ==
    IF provider.operations = {} THEN {CHOOSE e \in provider.evidence : TRUE}
    ELSE {(CHOOSE o \in provider.operations : TRUE).primary}

Reject(report, d, evidence) ==
    IF Len(report.rejections) >= MaxRejections THEN Refused(report, "limit")
    ELSE [report EXCEPT !.rejections =
            Append(@, [id |-> rejection_id(ExplicitOperation(d.binding), call_site_id(d)),
                       operation |-> ExplicitOperation(d.binding), site |-> call_site_id(d),
                       client |-> client_id(d.repository),
                       evidence |-> {evidence} \union Fallback(report.provider)])]

Propose(report, d, operation, evidence) ==
    LET id == heuristic_candidate_id(operation.id, call_site_id(d), d.binding)
        gap == HeuristicGap(id, "heuristic_requires_confirmation", evidence)
    IN  IF Len(report.candidates) >= MaxCandidates \/ Len(report.gaps) >= MaxGaps
        THEN Refused(report, "limit")
        ELSE [report EXCEPT
                !.candidates = Append(@, [id |-> id, operation |-> operation.id,
                                          site |-> call_site_id(d), binding |-> d.binding,
                                          client |-> client_id(d.repository), gap |-> gap.id,
                                          evidence |-> {operation.primary, evidence}]),
                !.gaps = Append(@, gap)]

\* @mutant of Exposed: the path of the operation is not compared.
ExposedByName(provider, binding) ==
    {o \in provider.operations : /\ o.name = binding.operation
                                 /\ o.method = binding.method}

Exposed(provider, binding) ==
    {o \in provider.operations : o.id = ExplicitOperation(binding)}

HeuristicMatches(provider, binding) ==
    {o \in provider.operations : /\ provider.title = binding.service
                                 /\ o.name = binding.operation}

\* What becomes of one call site.
Settle(report, d, evidence) ==
    LET provider == report.provider
        exposed == Exposed(provider, d.binding)
        matches == HeuristicMatches(provider, d.binding)
        The(set) == CHOOSE o \in set : TRUE
    IN  IF d.binding.kind = "explicit"
        THEN IF exposed # {} THEN Confirm(report, d, The(exposed), evidence)
                             ELSE Reject(report, d, evidence)
        ELSE CASE Cardinality(matches) = 1 -> Propose(report, d, The(matches), evidence)
               [] matches = {} -> push_heuristic_gap(report, call_site_id(d),
                                                     "heuristic_no_match", evidence)
               [] OTHER -> push_heuristic_gap(report, call_site_id(d),
                                              "heuristic_ambiguous", evidence)

\* @mutant of AddDeclaration: a repeated call site is not noticed.
AddsRepeated(report, d) ==
    LET evidence == workspace_binding(d)
        settled == Settle([report EXCEPT !.evidence = @ \union {evidence}], d, evidence)
    IN  IF report.error # "none" THEN report
        ELSE [settled EXCEPT
                !.clients = Append(@, [role |-> d.role, repository |-> d.repository,
                                       revision |-> d.revision, site |-> call_site_id(d),
                                       client |-> client_id(d.repository),
                                       binding |-> d.binding, evidence |-> {evidence}])]

AddDeclaration(report, d) ==
    LET site == call_site_id(d)
        evidence == workspace_binding(d)
        known == {s \in ToSet(report.subjects) : s[1] = site}
        grown == report.evidence \union {evidence}
        entered == [report EXCEPT !.subjects = Append(@, <<site, Fingerprint(d.binding)>>),
                                  !.evidence = grown]
        settled == Settle(entered, d, evidence)
    IN  CASE report.error # "none"            -> report
          [] <<site, Fingerprint(d.binding)>> \in known -> Refused(report, "invalid_declaration")
          [] known # {}                       -> Refused(report, "identity_conflict")
          [] Cardinality(grown) > MaxEvidence -> Refused(report, "limit")
          [] OTHER ->
              [settled EXCEPT
                 !.clients = Append(@, [role |-> d.role, repository |-> d.repository,
                                        revision |-> d.revision, site |-> site,
                                        client |-> client_id(d.repository),
                                        binding |-> d.binding, evidence |-> {evidence}])]

UniqueIds(list) == Cardinality({list[i].id : i \in DOMAIN list}) = Len(list)

\* The last checks of the domain: every list has unique identities.
OrderedUnique(report) ==
    /\ Cardinality({c.site : c \in ToSet(report.clients)}) = Len(report.clients)
    /\ UniqueIds(report.confirmed) /\ UniqueIds(report.candidates)
    /\ UniqueIds(report.rejections) /\ UniqueIds(report.gaps)
    /\ \A o, p \in report.provider.operations : o.id = p.id => o = p
    /\ \A o \in report.provider.operations :
          \A f, g \in o.fields : f.id = g.id => f = g

InPathOrder(declarations) ==
    SortSeq(declarations, LAMBDA a, b : a.path < b.path)

federate(provider, declarations) ==
    LET begun == [NoReport EXCEPT !.provider = provider, !.evidence = provider.evidence,
                                  !.gaps = SetToSeq(provider.gaps)]
        report == FoldLeft(AddDeclaration, begun, InPathOrder(declarations))
    IN  CASE Len(declarations) > MaxClients  -> Refused(begun, "limit")
          [] Cardinality(provider.evidence) > MaxEvidence -> Refused(begun, "limit")
          [] report.error # "none"           -> report
          [] ~OrderedUnique(report)          -> Refused(report, "report_invalid")
          [] OTHER                           -> report

-----------------------------------------------------------------------------
(* The report's own validator, which shares no code with the domain. *)

Nested(report) ==
    UNION {c.evidence : c \in ToSet(report.clients) \union ToSet(report.confirmed)
                              \union ToSet(report.candidates)
                              \union ToSet(report.rejections) \union ToSet(report.gaps)}
    \union UNION {{o.primary, o.evidence} : o \in report.provider.operations}

validate_nested_evidence_references(report) == Nested(report) \subseteq report.evidence

ValidOperations(report) ==
    \A o \in report.provider.operations :
        /\ o.id = operation_id(service_id(report.provider.authority),
                               o.method, o.path, o.name)
        /\ \A f \in o.fields : f.id = field_id(o.id, o.status, f.pointer)

ValidSites(report) ==
    LET sites == {<<c.client, c.site>> : c \in ToSet(report.clients)}
        known == {o.id : o \in report.provider.operations}
    IN  /\ Cardinality(sites) = Len(report.clients)
        /\ \A c \in ToSet(report.clients) : c.client = client_id(c.repository)
        /\ \A l \in ToSet(report.confirmed) :
              /\ <<l.client, l.site>> \in sites /\ l.operation \in known
              /\ l.id = confirmed_link_id(l.operation, l.site)
        /\ \A l \in ToSet(report.candidates) :
              /\ <<l.client, l.site>> \in sites /\ l.operation \in known
              /\ l.gap \in {g.id : g \in ToSet(report.gaps)}
              /\ l.id = heuristic_candidate_id(l.operation, l.site, l.binding)
        /\ \A l \in ToSet(report.rejections) :
              /\ <<l.client, l.site>> \in sites
              /\ l.id = rejection_id(l.operation, l.site)

ContractReasons ==
    {"unsupported_callbacks", "unsupported_links", "unsupported_media_type",
     "unsupported_security_semantics", "unsupported_server_variables",
     "unsupported_webhooks"}

validate_gap_identity(report, gap) ==
    LET evidence == CHOOSE e \in gap.evidence : TRUE
        subjects == {service_id(report.provider.authority)}
                    \union {o.id : o \in report.provider.operations}
    IN  /\ Cardinality(gap.evidence) = 1
        /\ CASE gap.reason = "heuristic_requires_confirmation" ->
                  /\ gap.subject \in {c.id : c \in ToSet(report.candidates)}
                  /\ gap.id = heuristic_gap_id(gap.subject, gap.reason, evidence)
             [] gap.reason \in {"heuristic_no_match", "heuristic_ambiguous"} ->
                  /\ gap.subject \in {c.site : c \in ToSet(report.clients)}
                  /\ gap.id = heuristic_gap_id(gap.subject, gap.reason, evidence)
             [] gap.reason \in ContractReasons ->
                  /\ gap.subject \in subjects
                  /\ gap.id = contract_gap_id(gap.subject, gap.reason, evidence[4])
             [] OTHER -> FALSE

validate_report_value(report) ==
    /\ validate_nested_evidence_references(report)
    /\ ValidOperations(report)
    /\ ValidSites(report)
    /\ \A g \in ToSet(report.gaps) : validate_gap_identity(report, g)

-----------------------------------------------------------------------------
(* The inputs. *)

\* The workspace manifest, once read.
parse_federation_workspace(content) ==
    CASE content.kind # "workspace"                       -> "invalid_manifest"
      [] Len(content.value.clients) + 1 > MaxRepositories -> "limit"
      [] Len(content.value.clients) > MaxClients          -> "limit"
      [] OTHER                                            -> "none"

parse_client_declaration(content, role) ==
    IF content.kind # "declaration" THEN "invalid_declaration"
    ELSE IF content.value.role # role THEN "invalid_declaration"
    ELSE "none"

Declaration(content, path) ==
    [path |-> path, role |-> content.value.role, repository |-> content.value.repository,
     revision |-> content.value.revision, source |-> content.value.source,
     symbol |-> content.value.symbol, binding |-> content.value.binding]

ProviderBinding(workspace, content) ==
    [repository |-> workspace.provider.repository, revision |-> workspace.provider.revision,
     authority |-> workspace.provider.authority, contract |-> content.value]

\* The service: the contract first, then every declaration, then the domain
\* and the report's validator.
Validated(report) ==
    IF report.error = "none" /\ ~validate_report_value(report) THEN Refused(report, "report_invalid") ELSE report
Federated(contract, bad, declarations) ==
    CASE contract.error # "none" -> Refused(NoReport, contract.error)
      [] contract.error = "none" /\ bad # {} -> Refused(NoReport, "invalid_declaration")
      [] OTHER -> Validated(federate(contract, declarations))
FederationService(workspace, provider, clients) ==
    LET bad == {i \in DOMAIN clients :
                   parse_client_declaration(clients[i], workspace.clients[i].role) # "none"}
    IN  IF provider.kind # "contract" THEN Refused(NoReport, "unsupported_capability")
        ELSE Federated(extract_contract(ProviderBinding(workspace, provider)), bad,
                       [i \in DOMAIN clients |-> Declaration(clients[i], workspace.clients[i].path)])

-----------------------------------------------------------------------------
(* The command. *)

NoWorkspace == [provider |-> [path |-> 0, digest |-> Missing, repository |-> "none",
                              revision |-> "none", authority |-> "none"],
                clients |-> <<>>]

FederationInit ==
    /\ \E w \in Workspaces : files = w
    /\ edits = 0
    /\ fed = [pc |-> "parse", workspace |-> NoWorkspace, bytes |-> <<>>, memory |-> 0,
              report |-> NoReport, failure |-> "none"]

At(pc) == fed.pc = pc

Fails(failure) == /\ fed' = [fed EXCEPT !.pc = "failed", !.failure = failure]
                  /\ UNCHANGED <<files, edits>>

Continues(next) == fed' = next /\ UNCHANGED <<files, edits>>

\* The arguments name a profile, a format and a manifest, each once.
FederationInvocation ==
    /\ At("parse")
    /\ \/ Continues([fed EXCEPT !.pc = "manifest"])
       \/ \E failure \in {"invalid_profile", "invalid_format", "invalid_manifest"} :
             Fails(failure)

read_manifest ==
    LET content == files[Manifest]
        parsed == parse_federation_workspace(content)
    IN  /\ At("manifest")
        /\ CASE content = Missing                 -> Fails("invalid_manifest")
             [] content.size > MaxManifestBytes   -> Fails("limit")
             [] parsed # "none"                   -> Fails(parsed)
             [] OTHER -> Continues([fed EXCEPT !.pc = "resolve",
                                               !.workspace = content.value,
                                               !.memory = content.size])

Bound(workspace) == {workspace.provider.path}
                    \union {workspace.clients[i].path : i \in DOMAIN workspace.clients}

SizeOf(path) == files[path].size

\* Every file is looked at for its length before the process is confined.
FederationSources ==
    LET clients == fed.workspace.clients
        provider == fed.workspace.provider.path
        total == FoldLeft(LAMBDA sum, c : sum + SizeOf(c.path),
                          fed.memory + SizeOf(provider), clients)
    IN  /\ At("resolve")
        /\ CASE \E p \in Bound(fed.workspace) : files[p] = Missing -> Fails("path_invalid")
             [] SizeOf(provider) > MaxContractBytes                -> Fails("limit")
             [] total > MaxMemory                                  -> Fails("limit")
             [] OTHER -> Continues([fed EXCEPT !.pc = "confine"])

install_s6_filesystem_boundary ==
    /\ At("confine")
    /\ \/ Continues([fed EXCEPT !.pc = "read"])
       \/ Fails("internal")

Inputs(workspace) ==
    <<workspace.provider>> \o workspace.clients

\* @mutant of read_and_verify: the bytes are not compared with their digest.
ReadsUnverified ==
    LET input == Inputs(fed.workspace)[Len(fed.bytes) + 1]
        content == files[input.path]
    IN  /\ At("read")
        /\ Len(fed.bytes) < Len(Inputs(fed.workspace))
        /\ IF content = Missing THEN Fails("path_invalid")
           ELSE Continues([fed EXCEPT !.bytes = Append(@, content)])

\* The next input is read: the provider, then each client.
read_and_verify ==
    LET input == Inputs(fed.workspace)[Len(fed.bytes) + 1]
        content == files[input.path]
        memory == fed.memory + content.size
    IN  /\ At("read")
        /\ Len(fed.bytes) < Len(Inputs(fed.workspace))
        /\ CASE content = Missing              -> Fails("path_invalid")
             [] fed.bytes = <<>> /\ content.size > MaxContractBytes -> Fails("limit")
             [] memory > MaxMemory             -> Fails("limit")
             [] content # input.digest         -> Fails("digest_mismatch")
             [] OTHER -> Continues([fed EXCEPT !.bytes = Append(@, content),
                                               !.memory = memory])

\* Reading and building the report may each pass the wall limit.
enforce_wall_limit ==
    /\ fed.pc \in {"resolve", "read", "output"}
    /\ Fails("limit")

federation_run ==
    /\ At("read")
    /\ Len(fed.bytes) = Len(Inputs(fed.workspace))
    /\ \E report \in {FederationService(fed.workspace, fed.bytes[1], Tail(fed.bytes))} :
           IF report.error # "none" THEN Fails(report.error)
           ELSE Continues([fed EXCEPT !.pc = "output", !.report = report])

FederationOutput ==
    At("output") /\ Continues([fed EXCEPT !.pc = "reported"])

\* An outside editor replaces or removes a file of the workspace.
EditFile ==
    /\ edits < MaxEdits
    /\ fed.pc \notin {"parse", "failed", "reported"}
    /\ \E p \in Bound(fed.workspace) \ {Manifest}, content \in Replacements \union {Missing} :
          files' = [files EXCEPT ![p] = content]
    /\ edits' = edits + 1
    /\ UNCHANGED fed

FederationStep ==
    \/ FederationInvocation \/ read_manifest \/ FederationSources
    \/ install_s6_filesystem_boundary \/ read_and_verify \/ enforce_wall_limit
    \/ federation_run \/ FederationOutput

FederationDone == fed.pc \in {"failed", "reported"} /\ UNCHANGED federationVars

FederationNext == FederationStep \/ EditFile \/ FederationDone

FederationSpec == FederationInit /\ [][FederationNext]_federationVars

=============================================================================
