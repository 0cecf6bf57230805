------------------------------- MODULE Impact -------------------------------
(***************************************************************************)
(* `noesis impact`: given the report of `noesis federate`, two revisions   *)
(* of a provider under one unchanged contract and the sources of its       *)
(* clients, which clients does an undocumented change of the response      *)
(* break?  The analysis runs on bound files or on Git objects; a report    *)
(* over Git can be asked for the source text behind one of its evidence    *)
(* items (`noesis impact-source`).                                         *)
(*                                                                         *)
(* The selected Rust callable is a sequence of statements [kind, fields,   *)
(* line]: "insert" puts one literal key in the response map, "if" puts its *)
(* keys there under a condition, "extend" merges another map, "other" is   *)
(* anything else.  The Kotlin decoder is a sequence of accesses            *)
(* [kind, field]: "getValue" throws when the field is absent, "safe" does  *)
(* not, "index" is an index outside a safe navigation, "other" is a call   *)
(* the extractor does not look at.                                         *)
(***************************************************************************)
EXTENDS Federation

CONSTANTS
    Analyses(_),        \* the impact workspaces written for a federation workspace
    MaxDiffs            \* S7Limit::SemanticDiffs

VARIABLE imp

impactVars == <<files, edits, fed, imp>>

-----------------------------------------------------------------------------
(* The federation report as the authority of the analysis. *)

HasHeuristicId(gap) ==
    /\ Cardinality(gap.evidence) = 1
    /\ gap.id = heuristic_gap_id(gap.subject, gap.reason, CHOOSE e \in gap.evidence : TRUE)

validate_s6_evidence_and_references(report) ==
    /\ \A g \in ToSet(report.gaps) : HasHeuristicId(g)
    /\ UniqueIds(report.gaps)
    /\ \A c \in ToSet(report.candidates) :
          /\ c.operation \in {o.id : o \in report.provider.operations}
          /\ c.gap \in {g.id : g \in ToSet(report.gaps)}
          /\ <<c.client, c.site>> \in {<<k.client, k.site>> : k \in ToSet(report.clients)}
    /\ Nested(report) \subseteq report.evidence

\* A call site is confirmed or rejected at most once, never both.
SettledOnce(report) ==
    \A c \in ToSet(report.clients) :
        Cardinality({i \in DOMAIN report.confirmed : report.confirmed[i].site = c.site})
        + Cardinality({i \in DOMAIN report.rejections : report.rejections[i].site = c.site}) <= 1

parse_s7_federation_authority(report) ==
    /\ report.provider.format = "yaml"
    /\ ValidOperations(report)
    /\ ValidSites(report)
    /\ SettledOnce(report)
    /\ validate_s6_evidence_and_references(report)

FederationState(report, site) ==
    CASE \E l \in ToSet(report.confirmed) : l.site = site  -> "confirmed"
      [] \E l \in ToSet(report.rejections) : l.site = site -> "rejected"
      [] OTHER                                            -> "unresolved"

ConfirmedOperation(report, site) ==
    (CHOOSE l \in ToSet(report.confirmed) : l.site = site).operation

-----------------------------------------------------------------------------
(* The provider's source. *)

source_evidence(repository, revision, path, line) ==
    <<"source", repository, revision, path, line>>

\* A closed body: only inserts, extends and plain conditional inserts.
require_closed_body(body) ==
    \A i \in DOMAIN body :
        \/ body[i].kind \in {"insert", "extend"}
        \/ /\ body[i].kind = "if"
           /\ body[i].fields # <<>>
           /\ ~body[i].alternative /\ ~body[i].effectful

Inserts(body) ==
    {<<i, j>> \in (DOMAIN body) \X (1..3) :
        body[i].kind \in {"insert", "if"} /\ j <= Len(body[i].fields)}

Presence(statement) == IF statement.kind = "if" THEN "may_be_absent" ELSE "guaranteed"

extract_provider(body) ==
    LET inserts == Inserts(body)
        names == {body[p[1]].fields[p[2]] : p \in inserts}
    IN  [supported |-> /\ require_closed_body(body)
                       /\ inserts # {}
                       /\ Cardinality(names) = Cardinality(inserts),
         fields |-> {[pointer |-> <<body[p[1]].fields[p[2]]>>,
                      presence |-> Presence(body[p[1]]), line |-> body[p[1]].line] :
                        p \in inserts},
         extends |-> {i \in DOMAIN body : body[i].kind = "extend"}]

\* The facts of one revision and the evidence they bring; the list of
\* evidence is as long as there are facts, whatever lines they share.
provider_facts(repository, revision) ==
    LET extraction == extract_provider(revision.body)
        Evidence(line) == source_evidence(repository, revision.revision, "body", line)
    IN  [fields |-> {[pointer |-> f.pointer, presence |-> f.presence,
                      evidence |-> Evidence(f.line)] : f \in extraction.fields},
         custom |-> {Evidence(revision.body[i].line) : i \in extraction.extends},
         contract |-> source_evidence(repository, revision.revision, "contract", 0),
         listed |-> Cardinality(extraction.fields) + Cardinality(extraction.extends) + 1]

EvidenceOf(facts) == {f.evidence : f \in facts.fields} \union facts.custom
                     \union {facts.contract}

-----------------------------------------------------------------------------
(* The client's source. *)

extract_assumptions(decoder) ==
    {[pointer |-> <<decoder[i].field>>,
      assumption |-> IF decoder[i].kind = "getValue" THEN "requires_present"
                                                     ELSE "handles_absent"] :
        i \in {j \in DOMAIN decoder : decoder[j].kind \in {"getValue", "safe"}}}

extract_client(source) ==
    LET decoder == source.decoder
        used == {i \in DOMAIN decoder : decoder[i].kind \in {"getValue", "safe"}}
    IN  /\ ~source.control
        /\ used # {}
        /\ \A i \in DOMAIN decoder : decoder[i].kind # "index"
        /\ \A i, j \in used : decoder[i].field = decoder[j].field => i = j

-----------------------------------------------------------------------------
(* The analysis. *)

ImplementationOf(facts, pointer) == {f \in facts.fields : f.pointer = pointer}

diff_id(analysis, field) == <<"diff", analysis.baseline, analysis.target, field>>

KnownPresenceDiff(analysis, field, before, after) ==
    LET contract == {analysis.before.contract, analysis.after.contract}
        implementation == {before.evidence, after.evidence}
    IN  [id |-> diff_id(analysis, field.id), pointer |-> field.pointer,
         classification |-> "breaking", affected |-> {},
         contract |-> contract, implementation |-> implementation,
         evidence |-> contract \union implementation, gaps |-> {}]

CustomMappingGap(analysis, field) ==
    [id |-> <<"custom", field.id, analysis.baseline, analysis.target>>,
     subject |-> field.id, evidence |-> analysis.before.custom \union analysis.after.custom]

UnresolvedPresenceDiff(analysis, field) ==
    LET contract == {analysis.before.contract, analysis.after.contract}
        gap == CustomMappingGap(analysis, field)
    IN  [id |-> diff_id(analysis, field.id), pointer |-> field.pointer,
         classification |-> "unresolved", affected |-> {},
         contract |-> contract, implementation |-> gap.evidence,
         evidence |-> contract \union gap.evidence, gaps |-> {gap.id}]

\* What became of one field of the contract: nothing, a diff, or a change
\* the analysis does not support.
FieldChange(analysis, field) ==
    LET before == ImplementationOf(analysis.before, field.pointer)
        after == ImplementationOf(analysis.after, field.pointer)
        Of(set) == CHOOSE f \in set : TRUE
    IN  CASE before # {} /\ after # {} /\ Of(before).presence = Of(after).presence -> "none"
          [] /\ before # {} /\ after # {} /\ ~field.required
             /\ Of(before).presence = "guaranteed"
             /\ Of(after).presence = "may_be_absent"                               -> "breaking"
          [] /\ before = {} /\ after = {} /\ ~field.required
             /\ analysis.before.custom # {} /\ analysis.after.custom # {}          -> "unresolved"
          [] OTHER                                                                 -> "unsupported"

DiffOf(analysis, field) ==
    IF FieldChange(analysis, field) = "breaking"
    THEN KnownPresenceDiff(analysis, field,
                           CHOOSE f \in ImplementationOf(analysis.before, field.pointer) : TRUE,
                           CHOOSE f \in ImplementationOf(analysis.after, field.pointer) : TRUE)
    ELSE UnresolvedPresenceDiff(analysis, field)

Changed(analysis, kinds) ==
    {f \in analysis.contract.fields : FieldChange(analysis, f) \in kinds}

classify_provider_changes(analysis) ==
    LET pointers == {f.pointer : f \in analysis.contract.fields}
        implemented == {f.pointer : f \in analysis.before.fields \union analysis.after.fields}
        diffs == {DiffOf(analysis, f) : f \in Changed(analysis, {"breaking", "unresolved"})}
    IN  IF \/ ~(implemented \subseteq pointers)
           \/ Changed(analysis, {"unsupported"}) # {}
           \/ Cardinality(diffs) > MaxDiffs
        THEN [error |-> "unsupported", diffs |-> {}, gaps |-> {}]
        ELSE [error |-> "none", diffs |-> diffs,
              gaps |-> {CustomMappingGap(analysis, f) :
                           f \in Changed(analysis, {"unresolved"})}]

validate_input(analysis) ==
    /\ analysis.baseline # analysis.target
    /\ analysis.same_contract
    /\ analysis.contract.method = "GET" /\ analysis.contract.status = "200"
    /\ Cardinality(analysis.evidence) = analysis.listed

Assumption(client, pointer) ==
    (CHOOSE a \in client.assumptions : a.pointer = pointer).assumption

\* @mutant of client_assessment: safe accesses are taken for strict ones.
AssessesStrictly(client, changed) ==
    [client |-> client.client, site |-> client.site, affected |-> TRUE,
     evidence |-> changed.contract \union changed.implementation \union {client.evidence}]

client_assessment(client, changed) ==
    [client |-> client.client, site |-> client.site,
     affected |-> Assumption(client, changed.pointer) = "requires_present",
     evidence |-> changed.contract \union changed.implementation \union {client.evidence}]

Assessed(analysis, client) ==
    /\ client.state = "confirmed" /\ client.operation = analysis.contract.operation
    /\ client.path = analysis.contract.path

classify_clients(analysis, changed) ==
    LET assessed == {c \in analysis.clients : Assessed(analysis, c)}
        rejected == {c \in analysis.clients :
                        c.state = "rejected" /\ c.path # analysis.contract.path}
    IN  CASE assessed \union rejected # analysis.clients ->
               [error |-> "invalid_authority", assessments |-> {}, rejected |-> {}]
          [] \E c \in assessed : changed.pointer \notin {a.pointer : a \in c.assumptions} ->
               [error |-> "unsupported", assessments |-> {}, rejected |-> {}]
          [] OTHER ->
               [error |-> "none",
                assessments |-> {client_assessment(c, changed) : c \in assessed},
                rejected |-> {[client |-> c.client, site |-> c.site,
                               evidence |-> {c.evidence}] : c \in rejected}]

NoImpact == [error |-> "none", diffs |-> {}, assessments |-> {}, rejected |-> {},
             gaps |-> {}, evidence |-> {}]

ReferencedEvidence(diffs, assessments, rejected, gaps) ==
    UNION {x.evidence : x \in diffs \union assessments \union rejected \union gaps}

analyze(analysis) ==
    LET changes == classify_provider_changes(analysis)
        breaking == {d \in changes.diffs : d.classification = "breaking"}
        changed == CHOOSE d \in breaking : TRUE
        classified == classify_clients(analysis, changed)
        affected == {a \in classified.assessments : a.affected}
        known == [changed EXCEPT
                    !.affected = {a.client : a \in affected},
                    !.evidence = @ \union (UNION {a.evidence : a \in affected}
                                           \intersect {c.evidence : c \in analysis.clients})]
        diffs == (changes.diffs \ {changed}) \union {known}
        referenced == ReferencedEvidence(diffs, classified.assessments,
                                         classified.rejected, changes.gaps)
    IN  CASE ~validate_input(analysis)            -> [NoImpact EXCEPT !.error = "invalid_authority"]
          [] changes.error # "none"               -> [NoImpact EXCEPT !.error = changes.error]
          [] Cardinality(breaking) # 1            -> [NoImpact EXCEPT !.error = "unsupported"]
          [] classified.error # "none"            -> [NoImpact EXCEPT !.error = classified.error]
          [] ~(referenced \subseteq analysis.evidence) ->
               [NoImpact EXCEPT !.error = "invalid_authority"]
          [] OTHER -> [error |-> "none", diffs |-> diffs, assessments |-> classified.assessments,
                       rejected |-> classified.rejected, gaps |-> changes.gaps,
                       evidence |-> referenced]

\* The report's own validator.
validate_semantic_report(report) ==
    /\ \A a, b \in report.assessments : a.client = b.client => a = b
    /\ \A d \in report.diffs :
          /\ d.affected \subseteq {a.client : a \in report.assessments}
          /\ d.gaps \subseteq {g.id : g \in report.gaps}
          /\ d.contract \union d.implementation \subseteq report.evidence
    /\ \A a \in report.assessments \union report.rejected :
          \E e \in a.evidence : SubSeq(e, 2, 4) = SubSeq(a.site, 2, 4)
    /\ ReferencedEvidence(report.diffs, report.assessments, report.rejected, report.gaps)
          = report.evidence

-----------------------------------------------------------------------------
(* The command. *)

NoAnalysis == [kind |-> "files"]

ImpactInit ==
    /\ FederationInit
    /\ imp = [pc |-> "idle", workspace |-> NoAnalysis, authority |-> NoReport,
              operation |-> [name |-> "none"], clients |-> {}, read |-> 0,
              sources |-> {}, excerpt |-> <<>>, report |-> NoImpact, failure |-> "none"]

ImpactFails(failure) == imp' = [imp EXCEPT !.pc = "failed", !.failure = failure]

ImpactAt(pc) == imp.pc = pc /\ UNCHANGED federationVars

\* One client per repository, none of them the provider's.
parse_impact_workspace(w) ==
    /\ w.baseline.revision # w.target.revision
    /\ w.clients # <<>>
    /\ \A i, j \in DOMAIN w.clients :
          w.clients[i].repository = w.clients[j].repository => i = j
    /\ \A i \in DOMAIN w.clients : w.clients[i].repository # w.repository

\* Over Git, one root for each repository besides.
parse_impact_git_workspace(w) ==
    /\ w.baseline.revision # w.target.revision
    /\ w.clients # <<>>
    /\ LET named == <<w.repository>> \o [i \in DOMAIN w.clients |-> w.clients[i].repository]
       IN  Cardinality(ToSet(named)) = Len(named)

\* The user goes on from the federation report they were given.
ImpactInvocation ==
    /\ imp.pc = "idle" /\ fed.pc = "reported"
    /\ \E w \in Analyses(fed.workspace) :
          imp' = IF IF w.kind = "git" THEN parse_impact_git_workspace(w)
                                      ELSE parse_impact_workspace(w)
                 THEN [imp EXCEPT !.pc = "read", !.workspace = w]
                 ELSE [imp EXCEPT !.pc = "failed", !.workspace = w,
                                  !.failure = "invalid_workspace"]
    /\ UNCHANGED federationVars

\* Bound files are read stably and checked against their digests; either
\* every input is the one bound or the command fails.
read_verified_inputs ==
    /\ ImpactAt("read") /\ imp.workspace.kind = "files"
    /\ \/ imp' = [imp EXCEPT !.pc = "authority", !.authority = fed.report]
       \/ ImpactFails("input_changed")

\* The Git files of a workspace: what evidence can be bound to.
SelectedSources(w) ==
    {[repository |-> w.repository, commit |-> r.revision, path |-> p] :
        r \in {w.baseline, w.target}, p \in {"contract", "body"}}
    \union {[repository |-> w.clients[i].repository, commit |-> w.clients[i].revision,
             path |-> w.clients[i].source] : i \in DOMAIN w.clients}

\* Over Git the report's bytes are checked and every repository acquired.
acquire ==
    /\ ImpactAt("read") /\ imp.workspace.kind = "git"
    /\ \/ imp' = [imp EXCEPT !.pc = "authority", !.authority = fed.report,
                             !.sources = SelectedSources(imp.workspace)]
       \/ \E failure \in {"invalid_report_digest", "acquisition_rejected", "limit_exceeded"} :
             ImpactFails(failure)

\* The revision the federation report knows the provider by.
FederatedRevision(w, revision) ==
    IF w.kind = "git" THEN revision.federation_revision ELSE revision.revision

ImpactAuthority ==
    LET report == imp.authority
        w == imp.workspace
    IN  /\ ImpactAt("authority")
        /\ CASE ~parse_s7_federation_authority(report) -> ImpactFails("invalid_report")
             [] \/ report.provider.binding.repository # w.repository
                \/ report.provider.binding.revision # FederatedRevision(w, w.baseline) ->
                  ImpactFails("authority_mismatch")
             [] Cardinality(report.provider.operations) # 1 ->
                  ImpactFails("unsupported_operation_set")
             [] OTHER -> imp' = [imp EXCEPT !.pc = "contracts",
                                   !.operation = CHOOSE o \in report.provider.operations : TRUE]

project_contract(revision) ==
    project_s7([repository |-> imp.workspace.repository, revision |-> revision.revision,
                authority |-> imp.authority.provider.authority,
                contract |-> revision.contract], imp.operation.id)

validate_contract_authority(contract) ==
    /\ contract.path = imp.operation.path /\ contract.method = imp.operation.method
    /\ contract.status = imp.operation.status
    /\ contract.fields = imp.operation.fields

ImpactContracts ==
    /\ ImpactAt("contracts")
    /\ \E before \in {project_contract(imp.workspace.baseline)},
          after \in {project_contract(imp.workspace.target)} :
           CASE "unsupported" \in {before.error, after.error} -> ImpactFails("unsupported")
             [] ~(validate_contract_authority(before) /\ validate_contract_authority(after)) ->
                  ImpactFails("contract_authority_mismatch")
             [] ~(/\ extract_provider(imp.workspace.baseline.body).supported
                  /\ extract_provider(imp.workspace.target.body).supported) ->
                  ImpactFails("unsupported")
             [] OTHER -> imp' = [imp EXCEPT !.pc = "clients"]

ClientFact(c, federated) ==
    [client |-> federated.client, path |-> c.path,
     site |-> call_site_id([repository |-> c.repository, revision |-> c.revision,
                            source |-> c.source, symbol |-> c.symbol]),
     state |-> FederationState(imp.authority, federated.site),
     operation |-> IF FederationState(imp.authority, federated.site) = "confirmed"
                   THEN ConfirmedOperation(imp.authority, federated.site) ELSE <<>>,
     assumptions |-> extract_assumptions(c.decoder),
     evidence |-> source_evidence(c.repository, c.revision, c.source, 0)]

\* The next client of the workspace.  Of several call sites the report has
\* for its repository one is taken: the one that hashes last.
ImpactClient ==
    LET c == imp.workspace.clients[imp.read + 1]
        sites == {k \in ToSet(imp.authority.clients) : k.repository = c.repository}
        revision == FederatedRevision(imp.workspace, c)
        site == call_site_id([repository |-> c.repository, revision |-> revision,
                              source |-> c.source, symbol |-> c.symbol])
    IN  /\ ImpactAt("clients")
        /\ imp.read < Len(imp.workspace.clients)
        /\ \/ sites = {} /\ ImpactFails("client_authority_missing")
           \/ \E federated \in sites :
                CASE federated.role # c.role \/ federated.revision # revision ->
                       ImpactFails("client_authority_mismatch")
                  [] ~extract_client(c)        -> ImpactFails("unsupported")
                  [] federated.site # site     -> ImpactFails("client_identity_mismatch")
                  [] FederationState(imp.authority, federated.site) = "unresolved" ->
                       ImpactFails("unresolved_client_authority")
                  [] OTHER -> imp' = [imp EXCEPT !.read = @ + 1,
                                        !.clients = @ \union {ClientFact(c, federated)}]

AnalysisInput ==
    LET w == imp.workspace
        before == provider_facts(w.repository, w.baseline)
        after == provider_facts(w.repository, w.target)
    IN  [baseline |-> w.baseline.revision, target |-> w.target.revision,
         same_contract |-> w.baseline.contract = w.target.contract,
         contract |-> project_contract(w.baseline),
         before |-> before, after |-> after, clients |-> imp.clients,
         evidence |-> EvidenceOf(before) \union EvidenceOf(after)
                      \union {c.evidence : c \in imp.clients},
         listed |-> before.listed + after.listed + Cardinality(imp.clients)]

\* Each evidence item of a report over Git lies in exactly one acquired file.
bind_evidence(evidence, sources) ==
    Cardinality({s \in sources : <<s.repository, s.commit, s.path>> = SubSeq(evidence, 2, 4)}) = 1

validate_git_report(report) ==
    /\ report.evidence # {}
    /\ ReferencedEvidence(report.diffs, report.assessments, report.rejected, report.gaps)
          \subseteq report.evidence

impact_run ==
    /\ ImpactAt("clients")
    /\ imp.read = Len(imp.workspace.clients)
    /\ \E report \in {analyze(AnalysisInput)} :
           CASE report.error # "none"               -> ImpactFails(report.error)
             [] ~validate_semantic_report(report)   -> ImpactFails("report_invalid")
             [] /\ imp.workspace.kind = "git"
                /\ ~(/\ \A e \in report.evidence : bind_evidence(e, imp.sources)
                     /\ validate_git_report(report)) -> ImpactFails("report_invalid")
             [] OTHER -> imp' = [imp EXCEPT !.pc = "reported", !.report = report]

Unknown == <<"source", "none", "none", "none", 0>>

\* The source behind one evidence item of a report over Git, from whatever
\* repository the user names: `present` if it has the commit.
impact_source ==
    /\ ImpactAt("reported") /\ imp.workspace.kind = "git"
    /\ \E e \in imp.report.evidence \union {Unknown}, named \in imp.sources, present \in BOOLEAN :
          CASE ~validate_git_report(imp.report)          -> ImpactFails("report_invalid")
            [] e \notin imp.report.evidence              -> ImpactFails("evidence_not_found")
            [] <<named.repository, named.commit>> # SubSeq(e, 2, 3) ->
                 ImpactFails("repository_mismatch")
            [] ~present                                  -> ImpactFails("acquisition_rejected")
            [] OTHER -> imp' = [imp EXCEPT !.pc = "retrieved", !.excerpt = e]

ImpactDone ==
    /\ \/ fed.pc = "failed"
       \/ imp.pc \in {"failed", "reported", "retrieved"}
    /\ UNCHANGED impactVars

ImpactNext ==
    \/ (FederationStep \/ EditFile) /\ UNCHANGED imp
    \/ ImpactInvocation \/ read_verified_inputs \/ acquire \/ ImpactAuthority \/ ImpactContracts
    \/ ImpactClient \/ impact_run \/ impact_source \/ ImpactDone

ImpactSpec == ImpactInit /\ [][ImpactNext]_impactVars

-----------------------------------------------------------------------------
(* What the provider and a client really do. *)

\* The sets of keys a body can answer with; a merged map may bring any.
RECURSIVE Responses(_, _)
Responses(body, names) ==
    IF body = <<>> THEN {{}}
    ELSE LET rest == Responses(Tail(body), names)
             fields == ToSet(Head(body).fields)
         IN  CASE Head(body).kind = "insert" -> {r \union fields : r \in rest}
               [] Head(body).kind = "if"     -> rest \union {r \union fields : r \in rest}
               [] OTHER -> {r \union extra : r \in rest, extra \in SUBSET names}

\* The client cannot decode a response that lacks the field.
Needs(client, field) ==
    \E i \in DOMAIN client.decoder :
        client.decoder[i].kind = "getValue" /\ client.decoder[i].field = field

\* Some field the client needs was in every response of the baseline and is
\* missing from some response of the target.
ReallyAffected(w, client) ==
    LET names == {p[Len(p)] : p \in {f.pointer : f \in imp.operation.fields}}
    IN  \E field \in names :
            /\ Needs(client, field)
            /\ \A r \in Responses(w.baseline.body, names) : field \in r
            /\ \E r \in Responses(w.target.body, names) : field \notin r

-----------------------------------------------------------------------------
(* Properties. *)

\* Every field of every operation the extractor accepts is a field of the
\* provider's document and the other way round, with the object that holds
\* it deciding whether it is required (openapi.rs, collect_fields): the
\* recursion through references neither loses nor invents one.
FieldsAreExact ==
    fed.pc = "reported" =>
        \A o \in fed.report.provider.operations :
            {[pointer |-> f.pointer, required |-> f.required] : f \in o.fields}
            = PromisedFields(fed.bytes[1].value.schemas, o.schema,
                             {"id", "name", "owner"}, 3)

\* Whatever an editor does to the files while the command runs, a report is
\* the one the digests of the manifest stand for (federation.rs,
\* read_and_verify): it equals the report of the bound bytes.
ReportOfBoundBytes ==
    fed.pc = "reported" =>
        fed.report = FederationService(fed.workspace, fed.workspace.provider.digest,
                        [i \in DOMAIN fed.workspace.clients |->
                            fed.workspace.clients[i].digest])

\* Every call site of a report is settled exactly once, and it is confirmed
\* exactly when the provider's document has the operation it names under the
\* authority it names (s6.rs, federate).
EachCallSiteSettledOnce ==
    fed.pc = "reported" =>
        LET report == fed.report
            document == fed.bytes[1].value
            Times(list, site) == Cardinality({i \in DOMAIN list : list[i].site = site})
            Open(site) == Cardinality({i \in DOMAIN report.gaps : report.gaps[i].subject = site})
        IN  \A i \in DOMAIN report.clients :
                LET c == report.clients[i]
                IN  /\ Times(report.confirmed, c.site) + Times(report.candidates, c.site)
                       + Times(report.rejections, c.site) + Open(c.site) = 1
                    /\ (Times(report.confirmed, c.site) = 1) <=>
                         /\ c.binding.kind = "explicit"
                         /\ c.binding.authority = fed.workspace.provider.authority
                         /\ \E o \in ToSet(document.operations) :
                               /\ o.name = c.binding.operation
                               /\ o.method = c.binding.method /\ o.path = c.binding.target

\* What one stage writes the next one reads: the report's own validator
\* never refuses a report the domain built, and the impact analysis never
\* calls invalid a YAML report whose contract left no gap (s6.rs,
\* validate_report_value; s7.rs, parse_s7_federation_authority and
\* validate_semantic_report).  Three validators written apart agree.
ReportsAreReadable ==
    /\ fed.failure # "report_invalid"
    /\ imp.failure # "report_invalid"
    /\ imp.failure = "invalid_report" =>
          \/ imp.authority.provider.format # "yaml"
          \/ imp.authority.provider.gaps # {}

\* A client is reported affected exactly when a field it needs was in every
\* baseline response and is missing from some target response (s7.rs,
\* analyze, with the presence rules of s7_provider.rs and of the Kotlin
\* decoder), and every client of the workspace is assessed or rejected.
AffectedIsExact ==
    imp.pc \in {"reported", "retrieved"} =>
        \A i \in DOMAIN imp.workspace.clients :
            LET c == imp.workspace.clients[i]
                assessed == {a \in imp.report.assessments : a.client = client_id(c.repository)}
            IN  /\ \A a \in assessed : a.affected <=> ReallyAffected(imp.workspace, c)
                /\ (assessed = {}) <=>
                      (client_id(c.repository) \in {r.client : r \in imp.report.rejected})

=============================================================================
