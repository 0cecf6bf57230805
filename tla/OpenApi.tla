------------------------------ MODULE OpenApi ------------------------------
(***************************************************************************)
(* What the OpenAPI 3.1 extractor makes of one provider contract, as pure  *)
(* operators: the restricted YAML reader, references to local schemas, the *)
(* choice of the one JSON response of an operation, the fields its schema  *)
(* promises, and the projection of one operation for the impact analysis.  *)
(*                                                                         *)
(* A contract is a record [format, yaml, openapi, title, servers, keys,    *)
(* schemas, operations].  `yaml` keeps what the event check looks at: how  *)
(* many documents, which unsupported features, the nesting, a repeated     *)
(* key.  A schema is [ref, type, required, properties]; `ref` is "none",   *)
(* "remote" or the name of a local schema, `properties` a sequence of      *)
(* [name, schema] in key order.  An identity is the tuple the code hashes. *)
(***************************************************************************)
EXTENDS Naturals, Sequences, FiniteSets, SequencesExt

CONSTANTS
    MaxYamlNesting,     \* FederationLimit::YamlNestingDepth
    MaxRefDepth,        \* FederationLimit::LocalRefDepth
    MaxSchemas,         \* FederationLimit::Schemas
    MaxPathItems,       \* FederationLimit::PathItems
    MaxOperations,      \* FederationLimit::Operations
    MaxFields,          \* FederationLimit::FieldsPerOperation
    MaxGaps,            \* FederationLimit::CoverageGaps
    MaxEvidence         \* FederationLimit::EvidenceItems

ASSUME OpenApiLimits ==
    {MaxYamlNesting, MaxRefDepth, MaxSchemas, MaxPathItems, MaxOperations,
     MaxFields, MaxGaps, MaxEvidence} \subseteq Nat \ {0}

SchemaTypes == {"array", "boolean", "integer", "number", "object", "string"}

-----------------------------------------------------------------------------
(* Identities. *)

service_id(authority) == <<"service", authority>>

operation_id(service, method, path, name) ==
    <<"operation", service, method, path, name>>

field_id(operation, status, pointer) == <<"field", operation, status, pointer>>

contract_gap_id(subject, reason, location) == <<"gap", subject, reason, location>>

\* The evidence item for one place of the contract; in YAML it has lines.
evidence_for(binding, pointer) ==
    <<"openapi", binding.repository, binding.revision, pointer,
      binding.contract.format>>

-----------------------------------------------------------------------------
(* The restricted YAML reader. *)

validate_yaml_events(yaml) ==
    CASE yaml.documents # 1              -> "unsupported_yaml"
      [] yaml.features # {}              -> "unsupported_yaml"
      [] yaml.nesting > MaxYamlNesting   -> "limit"
      [] OTHER                           -> "none"

parse_restricted_yaml(yaml) ==
    CASE "directive" \in yaml.features          -> "unsupported_yaml"
      [] ~yaml.well_formed                      -> "invalid_yaml"
      [] validate_yaml_events(yaml) # "none"    -> validate_yaml_events(yaml)
      [] yaml.repeated_key                      -> "duplicate_key"
      [] OTHER                                  -> "none"

-----------------------------------------------------------------------------
(* References. *)

Resolved(schema, pointer) == [error |-> "none", schema |-> schema, pointer |-> pointer]

Nothing == [ref |-> "none", type |-> "nothing", required |-> {}, properties |-> <<>>,
            well_shaped |-> FALSE]

NotResolved(error) == [error |-> error, schema |-> Nothing, pointer |-> <<>>]

\* Follows a chain of references; `stack` holds the ones already taken.
RECURSIVE resolve_schema(_, _, _, _, _)
resolve_schema(schemas, schema, pointer, depth, stack) ==
    CASE schema.ref = "none"                 -> Resolved(schema, pointer)
      [] schema.ref = "remote"               -> NotResolved("remote_reference")
      [] schema.ref \in stack                -> NotResolved("reference_cycle")
      [] depth + 1 > MaxRefDepth             -> NotResolved("limit")
      [] schema.ref \notin DOMAIN schemas    -> NotResolved("invalid_operation")
      [] OTHER -> resolve_schema(schemas, schemas[schema.ref], <<"schemas", schema.ref>>,
                                 depth + 1, stack \union {schema.ref})

Resolve(schemas, schema) == resolve_schema(schemas, schema, <<>>, 0, {})

\* Every schema written inside `schema`, itself included.
RECURSIVE Subschemas(_)
Subschemas(schema) ==
    {schema} \union UNION {Subschemas(schema.properties[i].schema) :
                              i \in DOMAIN schema.properties}

Written(contract) ==
    UNION {Subschemas(contract.schemas[n]) : n \in DOMAIN contract.schemas}
    \union UNION {UNION {Subschemas(contract.operations[o].responses[r].schema) :
                            r \in DOMAIN contract.operations[o].responses} :
                     o \in DOMAIN contract.operations}

\* The visit of the whole document.  Of several errors the code reports the
\* first in key order; which one it is makes no difference here.
validate_all_references(contract) ==
    LET errors == {Resolve(contract.schemas, s).error : s \in Written(contract)} \ {"none"}
    IN  IF errors = {} THEN "none" ELSE CHOOSE e \in errors : TRUE

-----------------------------------------------------------------------------
(* Fields. *)

\* @mutant of Required: the property's own schema decides.
RequiredBelow(object, property) == property.name \in property.schema.required

Required(object, property) == property.name \in object.required

\* The fields below `schema`, one per property, an object's own properties
\* after it.  The count is charged before a field is added.
RECURSIVE collect_fields(_, _, _, _)
collect_fields(schemas, schema, base, so_far) ==
    LET object == Resolve(schemas, schema).schema
        Add(collected, property) ==
            LET resolved == Resolve(schemas, property.schema)
                pointer == Append(base, property.name)
                next == Append(collected.fields,
                               [pointer |-> pointer, required |-> Required(object, property)])
            IN  CASE collected.error # "none"     -> collected
                  [] resolved.error # "none"      -> [collected EXCEPT !.error = resolved.error]
                  [] resolved.schema.type \notin SchemaTypes ->
                         [collected EXCEPT !.error = "invalid_operation"]
                  [] Len(collected.fields) >= MaxFields ->
                         [collected EXCEPT !.error = "limit"]
                  [] resolved.schema.type = "object" ->
                         collect_fields(schemas, resolved.schema, pointer, next)
                  [] OTHER                        -> [collected EXCEPT !.fields = next]
    IN  CASE object.type # "object"  -> [error |-> "none", fields |-> so_far]
          [] ~object.well_shaped     -> [error |-> "invalid_operation", fields |-> so_far]
          [] OTHER -> FoldLeft(Add, [error |-> "none", fields |-> so_far],
                               object.properties)

-----------------------------------------------------------------------------
(* Coverage gaps. *)

add_contract_gap(binding, subject, reason, pointer) ==
    [id |-> contract_gap_id(subject, reason, pointer), subject |-> subject,
     reason |-> reason, evidence |-> {evidence_for(binding, pointer)}]

add_service_gaps(binding) ==
    LET contract == binding.contract
        service == service_id(binding.authority)
        Of(key, reason) == {add_contract_gap(binding, service, reason, <<k>>) :
                               k \in contract.keys \intersect {key}}
    IN  Of("webhooks", "unsupported_webhooks")
        \union Of("security", "unsupported_security_semantics")
        \union {add_contract_gap(binding, service, "unsupported_server_variables",
                                 <<"servers", i, "variables">>) :
                   i \in {j \in DOMAIN contract.servers : contract.servers[j].variables}}

add_operation_gaps(binding, operation, id, pointer) ==
    LET Of(key, reason) == {add_contract_gap(binding, id, reason, Append(pointer, k)) :
                               k \in operation.keys \intersect {key}}
    IN  Of("callbacks", "unsupported_callbacks")
        \union Of("security", "unsupported_security_semantics")

\* The gaps select_json_response adds on its way through the responses.
ResponseGaps(binding, operation, id, pointer) ==
    UNION {LET response == operation.responses[r]
               place == pointer \o <<"responses", response.status>>
           IN  {add_contract_gap(binding, id, "unsupported_links", Append(place, "links")) :
                   l \in {x \in {TRUE} : response.links}}
               \union {add_contract_gap(binding, id, "unsupported_media_type",
                                        place \o <<"content", m>>) :
                          m \in response.media \ {"application/json"}} :
           r \in {x \in DOMAIN operation.responses : operation.responses[x].valid_status}}

\* The responses that carry JSON; there must be exactly one.
JsonResponses(operation) ==
    SelectSeq(operation.responses,
              LAMBDA r : r.valid_status /\ "application/json" \in r.media)

-----------------------------------------------------------------------------
(* Operations and the contract. *)

NoContract(error) == [error |-> error, title |-> "none", authority |-> "none",
                      format |-> "none", operations |-> {}, gaps |-> {}, evidence |-> {},
                      binding |-> [repository |-> "none", revision |-> "none"]]

\* One operation of a path item, added to what the ones before it gave.
AddOperation(binding, contract, operation) ==
    LET schemas == binding.contract.schemas
        id == operation_id(service_id(binding.authority), operation.method,
                           operation.path, operation.name)
        pointer == <<"paths", operation.path, operation.method>>
        gaps == contract.gaps \union add_operation_gaps(binding, operation, id, pointer)
                              \union ResponseGaps(binding, operation, id, pointer)
        json == JsonResponses(operation)
        resolved == resolve_schema(schemas, json[1].schema,
                                   pointer \o <<"responses", json[1].status>>, 0, {})
        collected == collect_fields(schemas, resolved.schema, <<>>, <<>>)
        primary == evidence_for(binding, pointer)
        schema_evidence == evidence_for(binding, resolved.pointer)
        evidence == contract.evidence \union {primary, schema_evidence}
                                      \union UNION {g.evidence : g \in gaps}
        Failing(error) == [contract EXCEPT !.error = error]
    IN  CASE contract.error # "none"                        -> contract
          [] Cardinality(contract.operations) >= MaxOperations -> Failing("limit")
          [] ~operation.well_shaped                         -> Failing("invalid_operation")
          [] Cardinality(gaps) > MaxGaps                    -> Failing("limit")
          [] Len(json) # 1                                  -> Failing("invalid_operation")
          [] Cardinality(evidence) > MaxEvidence            -> Failing("limit")
          [] collected.error # "none"                       -> Failing(collected.error)
          [] OTHER ->
              [contract EXCEPT
                 !.gaps = gaps, !.evidence = evidence,
                 !.operations = @ \union
                   {[id |-> id, name |-> operation.name, method |-> operation.method,
                     path |-> operation.path, status |-> json[1].status,
                     fields |-> {[id |-> field_id(id, json[1].status, f.pointer),
                                  pointer |-> f.pointer, required |-> f.required] :
                                    f \in ToSet(collected.fields)},
                     schema |-> resolved.schema,
                     primary |-> primary, evidence |-> schema_evidence]}]

normalize_openapi(binding) ==
    LET contract == binding.contract
        refs == validate_all_references(contract)
        urls == {contract.servers[i].url : i \in DOMAIN contract.servers}
        gaps == add_service_gaps(binding)
        begun == [NoContract("none") EXCEPT
                    !.title = contract.title, !.authority = binding.authority,
                    !.format = contract.format, !.binding = binding, !.gaps = gaps,
                    !.evidence = {evidence_for(binding, <<"servers", Len(contract.servers)>>)}
                                 \union UNION {g.evidence : g \in gaps}]
    IN  CASE contract.openapi # "3.1.0"     -> NoContract("unsupported_version")
          [] contract.title = "none"        -> NoContract("invalid_operation")
          [] refs # "none"                  -> NoContract(refs)
          [] urls # {binding.authority}     -> NoContract("invalid_authority")
          [] Cardinality(DOMAIN contract.schemas) > MaxSchemas -> NoContract("limit")
          [] Cardinality({contract.operations[o].path : o \in DOMAIN contract.operations})
                > MaxPathItems              -> NoContract("limit")
          [] Cardinality(gaps) > MaxGaps    -> NoContract("limit")
          [] OTHER -> FoldLeft(LAMBDA c, o : AddOperation(binding, c, o),
                               begun, contract.operations)

OrError(contract) == IF contract.error = "none" THEN contract ELSE NoContract(contract.error)
extract_contract(binding) ==
    LET yaml == IF binding.contract.format = "yaml"
                THEN parse_restricted_yaml(binding.contract.yaml) ELSE "none"
    IN  OrError(IF yaml # "none" THEN NoContract(yaml) ELSE normalize_openapi(binding))

-----------------------------------------------------------------------------
(* The projection of one operation for the impact analysis. *)

Projection(contract, operation) ==
    LET found == {o \in contract.operations : o.id = operation}
        selected == CHOOSE o \in found : TRUE
    IN  IF \/ contract.error # "none" \/ contract.gaps # {}
           \/ found = {} \/ contract.format # "yaml"
        THEN [error |-> "unsupported"]
        ELSE IF selected.fields = {} THEN [error |-> "unsupported"]
        ELSE [error |-> "none", service |-> service_id(contract.authority),
              operation |-> selected.id, method |-> selected.method,
              path |-> selected.path, name |-> selected.name,
              status |-> selected.status, fields |-> selected.fields,
              evidence |-> selected.evidence]
project_s7(binding, operation) == Projection(extract_contract(binding), operation)

-----------------------------------------------------------------------------
(* What a document says of its fields, written without the extractor's     *)
(* recursion: a pointer names a field if one can walk it from the schema.  *)

\* The schema a pointer leads to, or "none" as its type if it leads nowhere.
RECURSIVE WalkedTo(_, _, _)
WalkedTo(schemas, schema, pointer) ==
    LET here == Resolve(schemas, schema).schema
        steps == {i \in DOMAIN here.properties : here.properties[i].name = Head(pointer)}
    IN  IF pointer = <<>> THEN here
        ELSE IF here.type # "object" \/ steps = {}
        THEN Nothing
        ELSE WalkedTo(schemas, here.properties[CHOOSE i \in steps : TRUE].schema,
                      Tail(pointer))

\* The fields a response's schema promises: a pointer and whether the object
\* that holds it lists it as required.
PromisedFields(schemas, schema, names, longest) ==
    LET pointers == UNION {[1..n -> names] : n \in 1..longest}
    IN  {[pointer |-> p,
          required |-> p[Len(p)] \in WalkedTo(schemas, schema, Front(p)).required] :
             p \in {q \in pointers : WalkedTo(schemas, schema, q).type # "nothing"}}

=============================================================================
