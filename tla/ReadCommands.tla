---------------------------- MODULE ReadCommands ----------------------------
(***************************************************************************)
(* The commands that read a published store: `docs`, `query`, `export` and *)
(* `source`, and `explore`, which reads an exported graph.  Each looks at   *)
(* several things in turn (the head of the project, the generated          *)
(* documents, the repository or the portable graph) while other processes  *)
(* publish new heads, regenerate the documents or replace the graph.       *)
(*   crates/noesis/src/main.rs, run_docs, run_query, run_export*,          *)
(*   run_explore*, run_source, load_s4_snapshot*                           *)
(*                                                                         *)
(* A snapshot is a record [id, schema, state, commit, evidence]: `state` is *)
(* "sound", or how the stored snapshot fails its checks; `evidence` tells   *)
(* if it holds the requested evidence.  A single stable read of one file   *)
(* is one step here (StableRead); so is the publication of an output root  *)
(* (GeneratedDocs, PortableExport).                                        *)
(***************************************************************************)
EXTENDS PortableProfiles

CONSTANT
    Calls       \* the command lines, each with the `world` it runs in:
                \*   heads   the snapshots other processes publish,
                \*   roots   the documents [of, whole, current] they generate,
                \*   graphs  the graphs [version, boundaries] the input may hold

ASSUME CallsAssumption ==
    \A a \in Calls :
        /\ a.command \in {"docs", "query", "export", "explore", "source"}
        /\ \A s \in a.world.heads : s.schema \in Nat /\ s.state \in {"sound", "corrupt", "foreign"}

VARIABLES
    head,       \* the visible head of the project, None when there is none
    documents,  \* the documents root: [of, whole, current], None when absent
    portable,   \* the content of the input of `explore`, None when not a graph
    call        \* the running command

readVars == <<head, documents, portable, call>>

None == [none |-> TRUE]

NewCall(a) ==
    [ args |-> a, at |-> "parse", loaded |-> None, manifest |-> None, graph |-> None,
      handler |-> None, result |-> None ]

ReadCommandsInit ==
    \E a \in Calls :
        /\ call = NewCall(a)
        /\ head \in a.world.heads \cup {None}
        /\ documents \in a.world.roots \cup {None}
        /\ portable \in a.world.graphs \cup {None}

-----------------------------------------------------------------------------
Goto(at) == call' = [call EXCEPT !.at = at]

\* A command that fails prints an error envelope and nothing else.
Refuse(failure) ==
    call' = [call EXCEPT !.at = "done",
                         !.result = [ok |-> FALSE, lane |-> failure.lane, exit |-> failure.exit]]

Answer(output) ==
    call' = [call EXCEPT !.at = "done", !.result = [ok |-> TRUE, output |-> output]]

Command == call.args.command

Parse ==
    /\ call.at = "parse"
    /\ LET parsed == read_parse(call.args) IN
       IF ~parsed.ok THEN Refuse(parsed)
       ELSE IF Command = "explore"
            THEN call' = [call EXCEPT !.at = "read",
                                      !.handler = ExploreHandler(ProfileOf(call.args.profile))]
       ELSE Goto("load")
    /\ UNCHANGED <<head, documents, portable>>

-----------------------------------------------------------------------------
(* Loading the snapshot of the visible head.                                *)

\* load_s4_snapshot_from_store: what is wrong with the head, if anything.
LoadError(h) ==
    CASE h = None -> "Scan"
      [] h # None /\ h.schema \notin 4..18 -> "UnsupportedSnapshotSchema"
      [] h # None /\ h.schema \in 4..18 /\ h.state = "corrupt" -> "Scan"
      [] h # None /\ h.schema \in 4..18 /\ h.state = "foreign" -> "SnapshotMismatch"
      [] OTHER -> "none"

snapshot_load_failure(error) ==
    CASE Command = "export" -> Failed(Lane(ProfileOf(call.args.profile)), 16)
      [] Command = "source" -> Failed("V29", 2)
      [] Command = "docs" -> IF error = "Scan" THEN Failed("V4", 12) ELSE Failed("V5", 13)
      [] Command = "query" -> IF error = "Scan" THEN Failed("V4", 12) ELSE Failed("V5", 14)

\* What a command does with the snapshot it has loaded.
AfterLoad ==
    CASE Command = "export" -> "schema" [] Command = "source" -> "select"
      [] Command = "docs" -> "root" [] Command = "query" -> "id"

load_s4_snapshot ==
    /\ call.at = "load"
    /\ \E opens \in BOOLEAN :
          IF ~opens THEN Refuse(snapshot_load_failure("Scan"))
          ELSE IF LoadError(head) # "none" THEN Refuse(snapshot_load_failure(LoadError(head)))
          ELSE call' = [call EXCEPT !.loaded = head, !.at = AfterLoad]
    /\ UNCHANGED <<head, documents, portable>>

-----------------------------------------------------------------------------
(* The documents root, as load_validated_manifest reads it: a complete      *)
(* generation whose manifest names the given snapshot.                      *)

\* @mutant: the manifest is not compared with the loaded snapshot.
AnyManifest(d, s) == d # None /\ d.whole

load_validated_manifest(d, s) == d # None /\ d.whole /\ d.of = s.id

-----------------------------------------------------------------------------
(* export.                                                                  *)

\* The handler checks the schema, generates the documentation in memory and,
\* when the profile takes documents, requires the root to hold exactly it.
ExportDocuments ==
    /\ call.at = "schema"
    /\ LET h == ExportHandler(ProfileOf(call.args.profile), call.loaded.schema) IN
       \E generates \in BOOLEAN :
          IF \/ call.loaded.schema # h.schema
             \/ ~generates
             \/ /\ h.documents
                /\ ~(load_validated_manifest(documents, call.loaded) /\ documents.current)
          THEN Refuse(Failed(Lane(h.profile), 16))
          ELSE call' = [call EXCEPT
                           !.handler = h,
                           !.manifest = IF h.documents THEN documents ELSE None,
                           !.at = "output"]
    /\ UNCHANGED <<head, documents, portable>>

-----------------------------------------------------------------------------
(* explore.                                                                 *)

\* read_portable_graph_vN: each handler reads and validates the whole file.
ReadPortable ==
    /\ call.at = "read"
    /\ LET h == call.handler IN
       IF portable = None
            THEN \E e \in {"Contract", "UnsafeOutput"} : Refuse(portable_failure(h.profile, e, 17))
       ELSE IF portable.version = h.graph
            THEN call' = [call EXCEPT !.graph = portable, !.at = "output"]
       ELSE IF Successor(h, portable) # h
            THEN call' = [call EXCEPT !.handler = Successor(h, portable)]
       ELSE Refuse(portable_failure(h.profile, "Contract", 17))
    /\ UNCHANGED <<head, documents, portable>>

\* Both publish into an output root: it is validated, created when absent,
\* the process confines itself to it, and the files are published.
PublishOutput ==
    /\ call.at = "output"
    /\ LET h == call.handler
           code == IF Command = "export" THEN 16 ELSE 17
       IN \/ \E e \in {"UnsafeOutput", "Contract", "Internal"} :
                Refuse(portable_failure(h.profile, e, code))
          \/ Answer(IF Command = "export"
                    THEN [graph |-> h.graph, of |-> call.loaded, manifest |-> call.manifest]
                    ELSE [explorer |-> h.explorer, embeds |-> call.graph])
    /\ UNCHANGED <<head, documents, portable>>

-----------------------------------------------------------------------------
(* docs.                                                                    *)

\* A snapshot the generator refuses is answered in its schema's envelope.
docs_failure(schema) ==
    CASE schema = 18 -> Failed("V24", 13) [] schema = 17 -> Failed("V22", 13)
      [] schema = 16 -> Failed("V21", 13) [] schema = 15 -> Failed("V20", 13)
      [] schema = 12 -> Failed("V17", 13) [] OTHER -> Failed("V5", 13)

run_docs ==
    \/ /\ call.at = "root"
       /\ \/ \E f \in {Failed("V5", 2), Failed("V5", 13)} : Refuse(f)   \* the output root
          \/ Refuse(docs_failure(call.loaded.schema))                  \* the generator
          \/ Goto("publish")
       /\ UNCHANGED documents
    \/ /\ call.at = "publish"
       /\ \/ Refuse(Failed("V4", 70)) /\ UNCHANGED documents            \* no confinement
          \/ /\ Refuse(Failed("V5", 13))                               \* interrupted
             /\ documents' = [of |-> call.loaded.id, whole |-> FALSE, current |-> TRUE]
          \/ /\ Answer([manifest |-> call.loaded.id])
             /\ documents' = [of |-> call.loaded.id, whole |-> TRUE, current |-> TRUE]

GenerateDocs == run_docs /\ UNCHANGED <<head, portable>>

-----------------------------------------------------------------------------
(* query.                                                                   *)

\* Identifiers newer schemas introduced are refused for the older ones.
v2_only_query_id(id) == id = "diagnostic"
v4_only_query_id(id) == id = "evidence"

QueryVersion(schema) == IF schema <= 6 THEN 1 ELSE schema - 5

\* The function context and its LLM form are results of their own.
FunctionContext == 0

query_contract_failure(schema) ==
    CASE schema = 18 -> Failed("V24", 14) [] schema = 17 -> Failed("V22", 14)
      [] schema = 16 -> Failed("V21", 14) [] schema = 15 -> Failed("V20", 14)
      [] schema = 14 -> Failed("V19", 14) [] schema = 13 -> Failed("V18", 14)
      [] schema = 12 -> Failed("V17", 14) [] OTHER -> Failed("V5", 14)

function_context_contract_failure == Failed("V24", 14)

QueryId ==
    /\ call.at = "id"
    /\ LET id == call.args.id
           schema == call.loaded.schema
       IN IF (schema < 9 /\ v4_only_query_id(id)) \/ (schema < 7 /\ v2_only_query_id(id))
          THEN Refuse(Failed("V5", 2))
          ELSE \/ Refuse(Failed("V5", 2))        \* the documents root
               \/ Refuse(Failed("V4", 70))       \* no confinement
               \/ Goto("manifest")
    /\ UNCHANGED <<head, documents, portable>>

QueryManifest ==
    /\ call.at = "manifest"
    /\ IF load_validated_manifest(documents, call.loaded)
       THEN call' = [call EXCEPT !.manifest = documents, !.at = "answer"]
       ELSE Refuse(query_contract_failure(call.loaded.schema))
    /\ UNCHANGED <<head, documents, portable>>

QueryAnswer ==
    /\ call.at = "answer"
    /\ LET schema == call.loaded.schema
           context == call.args.context # "none"
       IN IF context /\ schema # 18 THEN Refuse(Failed("V24", 14))
          ELSE \/ Refuse(Failed("V5", 14))       \* NotFound
               \/ Refuse(IF context THEN function_context_contract_failure
                         ELSE query_contract_failure(schema))
               \/ Answer([ version |-> IF context THEN FunctionContext ELSE QueryVersion(schema),
                           of |-> call.loaded, documents |-> call.manifest ])
    /\ UNCHANGED <<head, documents, portable>>

-----------------------------------------------------------------------------
(* source.                                                                  *)

r18_contract_failure(internal) == Failed("V29", IF internal THEN 1 ELSE 2)

\* from_validated_v18: schema 18, and the evidence is found; then the
\* command's --revision must be the snapshot's commit.
SelectSource ==
    /\ call.at = "select"
    /\ IF call.loaded.schema # 18 \/ ~call.loaded.evidence
            \/ call.loaded.commit # call.args.revision
       THEN Refuse(r18_contract_failure(FALSE))
       ELSE Goto("retrieve")
    /\ UNCHANGED <<head, documents, portable>>

\* The repository is acquired again at that commit: refused, or the excerpt.
RetrieveSource ==
    /\ call.at = "retrieve"
    /\ \/ \E internal \in BOOLEAN : Refuse(r18_contract_failure(internal))
       \/ Goto("reload")
    /\ UNCHANGED <<head, documents, portable>>

\* @mutant: the excerpt is printed without looking at the head again.
NoReload ==
    /\ call.at = "reload"
    /\ Answer([of |-> call.loaded, revision |-> call.args.revision])
    /\ UNCHANGED <<head, documents, portable>>

ReloadHead ==
    /\ call.at = "reload"
    /\ IF LoadError(head) = "none" /\ head = call.loaded
       THEN Answer([of |-> call.loaded, revision |-> call.args.revision])
       ELSE Refuse(Failed("V29", 2))
    /\ UNCHANGED <<head, documents, portable>>

-----------------------------------------------------------------------------
(* Other processes.                                                         *)

PublishNewHead ==
    /\ call.at # "done"
    /\ head' \in call.args.world.heads
    /\ UNCHANGED <<documents, portable, call>>

RegenerateDocuments ==
    /\ call.at # "done"
    /\ documents' \in call.args.world.roots
    /\ UNCHANGED <<head, portable, call>>

ReplacePortable ==
    /\ call.at # "done"
    /\ portable' \in call.args.world.graphs
    /\ UNCHANGED <<head, documents, call>>

Finished == call.at = "done" /\ UNCHANGED readVars

CallStep ==
    \/ Parse \/ load_s4_snapshot \/ ExportDocuments \/ ReadPortable \/ PublishOutput
    \/ GenerateDocs \/ QueryId \/ QueryManifest \/ QueryAnswer
    \/ SelectSource \/ RetrieveSource \/ ReloadHead

ReadCommandsNext ==
    CallStep \/ PublishNewHead \/ RegenerateDocuments \/ ReplacePortable \/ Finished

\* A command is a single thread that never waits for another process.
ReadCommandsSpec == ReadCommandsInit /\ [][ReadCommandsNext]_readVars /\ WF_readVars(CallStep)

-----------------------------------------------------------------------------
(* Properties.                                                              *)

Printed(command) == Command = command /\ call.result # None /\ call.result.ok

\* A query answer joins the loaded snapshot with the documents of that same
\* snapshot, in the result format of its schema, whatever was published or
\* regenerated between the two reads (run_query).
AnswerOfOneSnapshot ==
    Printed("query") =>
        LET o == call.result.output IN
        /\ o.documents.of = o.of.id /\ o.documents.whole
        /\ o.of.state = "sound"
        /\ IF o.version = FunctionContext THEN o.of.schema = 18 ELSE o.version = QueryVersion(o.of.schema)

\* `source` prints an excerpt only in a moment at which the snapshot it was
\* selected from is still the visible head, and only for that snapshot's own
\* commit (run_source reloads the head after the retrieval).
ExcerptOfVisibleHead ==
    [][ ~Printed("source") /\ Printed("source")' =>
            /\ head = call'.result.output.of
            /\ head.commit = call.args.revision ]_readVars

=============================================================================
