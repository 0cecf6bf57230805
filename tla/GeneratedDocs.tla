---------------------------- MODULE GeneratedDocs ----------------------------
(***************************************************************************)
(* generated_docs::publish (crates/noesis/src/generated_docs.rs): `noesis  *)
(* docs` stages the Markdown files of one generation below .tmp, links     *)
(* them into the output root, and commits by linking manifest.json last.   *)
(* The root has no lock: publishers of the same or of different            *)
(* generations run on it at once, fail at any call, and may be killed.     *)
(***************************************************************************)
EXTENDS Publishers, Naturals, Sequences

CONSTANTS
    DocumentsOf,    \* Generation -> its <<path, text>> pairs in path order
    MaxStops        \* bound on how often publishers fail or are killed

ASSUME DocsAssumption ==
    /\ MaxStops \in Nat
    /\ None \notin Generation
    /\ \A g \in Generation : Len(DocumentsOf[g]) \in Nat \ {0}

Documents(g) == {DocumentsOf[g][i] : i \in 1..Len(DocumentsOf[g])}

\* Staged files are numbered: the documents, then manifest.json.
Last(g) == Len(DocumentsOf[g]) + 1

VARIABLES
    marker,     \* .codenoesis-generated.json: "absent", "torn" or "ok"
    docs,       \* the <<path, text>> pairs linked into the root
    manifest,   \* the generation manifest.json is of, or None
    staged,     \* the complete files below .tmp/<generation>
    torn,       \* the incomplete ones: <<generation, file, its writer>>
    pc, gen, file,
    reported,   \* generations some publisher has reported success for
    overlap,    \* two publishers have been at work at once
    stops

root   == <<marker, docs, manifest>>
vars   == <<marker, docs, manifest, staged, torn, pc, gen, file, reported, overlap, stops>>

Init ==
    /\ marker = "absent" /\ docs = {} /\ manifest = None
    /\ staged = [g \in Generation |-> {}]
    /\ torn = {}
    /\ pc = [p \in Publisher |-> "idle"]
    /\ gen = [p \in Publisher |-> None]
    /\ file = [p \in Publisher |-> 0]
    /\ reported = {}
    /\ overlap = FALSE
    /\ stops = 0

\* load_validated_manifest: a reader gets generation g, with every document as
\* the manifest lists it and nothing else in the root.
Loads(g) == marker = "ok" /\ manifest = g /\ docs = Documents(g)

Exists(g, i) == i \in staged[g] \/ \E p \in Publisher : <<g, i, p>> \in torn

Goto(p, where) == pc' = [pc EXCEPT ![p] = where]

\* publish returns, or its process ends.
Leave(p) ==
    /\ pc' = [pc EXCEPT ![p] = "idle"]
    /\ gen' = [gen EXCEPT ![p] = None]
    /\ file' = [file EXCEPT ![p] = 0]

\* Go on with file i at label `where`, or go to `after` past file n.
NextFile(p, where, after, n) ==
    IF file[p] < n
    THEN Goto(p, where) /\ file' = [file EXCEPT ![p] = @ + 1]
    ELSE Goto(p, after) /\ file' = [file EXCEPT ![p] = 1]

-----------------------------------------------------------------------------
(* Preparing the root.  The check before rendering looks for the same faults
   as Inspect and changes nothing. *)

Begin(p) ==
    /\ pc[p] = "idle"
    /\ \E g \in Generation : gen' = [gen EXCEPT ![p] = g]
    /\ Goto(p, "inspect")
    /\ overlap' = (overlap \/ \E q \in Publisher \ {p} : pc[q] # "idle")
    /\ UNCHANGED <<root, staged, torn, file, reported>>

\* inspect_root: an empty root is marked, a marked one without manifest is
\* resumed, a complete one must be this very generation, intact.
Inspect(p) ==
    /\ pc[p] = "inspect"
    /\ \/ /\ marker = "absent"
          /\ Goto(p, "mark")
          /\ UNCHANGED <<gen, file, reported>>
       \/ /\ marker = "ok" /\ manifest = None
          /\ Goto(p, "precommit")
          /\ UNCHANGED <<gen, file, reported>>
       \/ /\ marker = "ok" /\ manifest # None
          /\ reported' = IF Loads(gen[p]) THEN reported \cup {gen[p]} ELSE reported
          /\ Leave(p)
       \/ /\ marker = "torn"
          /\ Leave(p)
          /\ UNCHANGED reported
    /\ UNCHANGED <<root, staged, torn>>

\* write_exclusive of the marker: create_new, then the bytes.
CreateMarker(p) ==
    /\ pc[p] = "mark"
    /\ \/ /\ marker = "absent"
          /\ marker' = "torn"
          /\ Goto(p, "fill_marker")
          /\ UNCHANGED <<gen, file>>
       \/ /\ marker # "absent"
          /\ Leave(p)
          /\ UNCHANGED marker
    /\ UNCHANGED <<docs, manifest, staged, torn, reported>>

FillMarker(p) ==
    /\ pc[p] = "fill_marker"
    /\ marker' = "ok"
    /\ Goto(p, "precommit")
    /\ UNCHANGED <<docs, manifest, staged, torn, gen, file, reported>>

\* validate_precommit_root: whatever is in the root already is a document of
\* this generation.
Precommit(p) ==
    /\ pc[p] = "precommit"
    /\ \/ /\ manifest = None /\ marker = "ok"
          /\ docs \subseteq Documents(gen[p])
          /\ Goto(p, "stage")
          /\ file' = [file EXCEPT ![p] = 1]
          /\ UNCHANGED gen
       \/ /\ ~(manifest = None /\ marker = "ok" /\ docs \subseteq Documents(gen[p]))
          /\ Leave(p)
    /\ UNCHANGED <<root, staged, torn, reported>>

-----------------------------------------------------------------------------
(* Staging *)

\* Mutant: every file is created, also when a complete one is there.
StageExclusive(p) ==
    /\ pc[p] = "stage"
    /\ \/ /\ ~Exists(gen[p], file[p])
          /\ torn' = torn \cup {<<gen[p], file[p], p>>}
          /\ Goto(p, "fill")
          /\ UNCHANGED <<gen, file>>
       \/ Exists(gen[p], file[p]) /\ Leave(p) /\ UNCHANGED torn
    /\ UNCHANGED <<root, staged, reported>>

\* write_or_verify: a file that is there must be complete, one that is not is
\* created.
Stage(p) ==
    /\ pc[p] = "stage"
    /\ \/ /\ file[p] \in staged[gen[p]]
          /\ NextFile(p, "stage", "validate", Last(gen[p]))
          /\ UNCHANGED <<torn, gen>>
       \/ /\ ~Exists(gen[p], file[p])
          /\ torn' = torn \cup {<<gen[p], file[p], p>>}
          /\ Goto(p, "fill")
          /\ UNCHANGED <<gen, file>>
       \/ /\ Exists(gen[p], file[p]) /\ file[p] \notin staged[gen[p]]
          /\ Leave(p)
          /\ UNCHANGED torn
    /\ UNCHANGED <<root, staged, reported>>

\* The bytes go to the file p created, which a cleanup may have unlinked.
Fill(p) ==
    /\ pc[p] = "fill"
    /\ LET mine == <<gen[p], file[p], p>> IN
         /\ torn' = torn \ {mine}
         /\ staged' = IF mine \in torn
                      THEN [staged EXCEPT ![gen[p]] = @ \cup {file[p]}] ELSE staged
    /\ NextFile(p, "stage", "validate", Last(gen[p]))
    /\ UNCHANGED <<root, gen, reported>>

\* validate_staged_generation
ValidateStaged(p) ==
    /\ pc[p] = "validate"
    /\ \/ /\ staged[gen[p]] = 1..Last(gen[p])
          /\ Goto(p, "link")
          /\ UNCHANGED <<gen, file>>
       \/ /\ staged[gen[p]] # 1..Last(gen[p])
          /\ Leave(p)
    /\ UNCHANGED <<root, staged, torn, reported>>

-----------------------------------------------------------------------------
(* Publishing *)

\* Another text is in the way of document d.
Clashes(d) == \E other \in docs : other[1] = d[1] /\ other[2] # d[2]

\* Mutant: the manifest is linked ahead of the documents.
LinkManifestFirst(p) ==
    /\ pc[p] = "link"
    /\ file[p] \in staged[gen[p]]
    /\ LET g == gen[p] IN
       IF file[p] = 1
       THEN manifest = None /\ manifest' = g /\ UNCHANGED docs
       ELSE /\ ~Clashes(DocumentsOf[g][file[p] - 1])
            /\ docs' = docs \cup {DocumentsOf[g][file[p] - 1]}
            /\ UNCHANGED manifest
    /\ NextFile(p, "link", "confirm", Last(gen[p]))
    /\ UNCHANGED <<marker, staged, torn, gen, reported>>

\* publish_noclobber of one file, documents first and manifest.json last: the
\* staged file is verified, then linked unless the same bytes are there.
Link(p) ==
    /\ pc[p] = "link"
    /\ LET g == gen[p]
           i == file[p]
           free == IF i = Last(g) THEN manifest \in {None, g}
                   ELSE ~Clashes(DocumentsOf[g][i])
       IN \/ /\ i \in staged[g] /\ free
             /\ IF i = Last(g)
                THEN manifest' = g /\ UNCHANGED docs
                ELSE docs' = docs \cup {DocumentsOf[g][i]} /\ UNCHANGED manifest
             /\ NextFile(p, "link", "confirm", Last(g))
             /\ UNCHANGED gen
          \/ /\ ~(i \in staged[g] /\ free)
             /\ Leave(p)
             /\ UNCHANGED <<docs, manifest>>
    /\ UNCHANGED <<marker, staged, torn, reported>>

\* validate_generation of what was just committed.
Confirm(p) ==
    /\ pc[p] = "confirm"
    /\ \/ Loads(gen[p]) /\ Goto(p, "clean") /\ UNCHANGED <<gen, file>>
       \/ ~Loads(gen[p]) /\ Leave(p)
    /\ UNCHANGED <<root, staged, torn, reported>>

\* cleanup_staging: file by file, given up at the first one that is missing;
\* success either way.
Clean(p) ==
    /\ pc[p] = "clean"
    /\ LET g == gen[p]
           i == file[p]
       IN /\ staged' = [staged EXCEPT ![g] = @ \ {i}]
          /\ torn' = {t \in torn : ~(t[1] = g /\ t[2] = i)}
          /\ \/ /\ Exists(g, i) /\ i < Last(g)
                /\ file' = [file EXCEPT ![p] = @ + 1]
                /\ UNCHANGED <<pc, gen, reported>>
             \/ /\ Exists(g, i) => i = Last(g)
                /\ reported' = reported \cup {g}
                /\ Leave(p)
    /\ UNCHANGED root

\* A call fails or the process is killed; nothing is undone in either case.
Stop(p) ==
    /\ pc[p] # "idle"
    /\ stops < MaxStops
    /\ stops' = stops + 1
    /\ Leave(p)
    /\ UNCHANGED <<root, staged, torn, reported, overlap>>

-----------------------------------------------------------------------------
Step(p) ==
    /\ \/ Begin(p)
       \/ /\ \/ Inspect(p) \/ CreateMarker(p) \/ FillMarker(p)
             \/ Precommit(p) \/ Stage(p) \/ Fill(p) \/ ValidateStaged(p)
             \/ Link(p) \/ Confirm(p) \/ Clean(p)
          /\ UNCHANGED overlap
    /\ UNCHANGED stops

Next == \E p \in Publisher : Step(p) \/ Stop(p)
Spec == Init /\ [][Next]_vars

\* The operating system schedules every process, and the callers retry.
FairSpec == Spec /\ \A p \in Publisher : WF_vars(Step(p))

-----------------------------------------------------------------------------
(* Properties *)

\* manifest.json is the commit point of publish: whatever interleaving or kill
\* preceded it, every document it lists is in the root with the listed text.
ManifestMeansComplete ==
    manifest # None => marker = "ok" /\ Documents(manifest) \subseteq docs

\* With nobody at work, a resumable generation finds no staged file that
\* write_or_verify would refuse: abandoned staging can be resumed.
AbandonedStagingResumes ==
    (\A p \in Publisher : pc[p] = "idle") => torn = {}

\* Nothing stands in the way of generation g: nobody works on another one, no
\* other has left documents, and every unfinished file has its writer.
Resumable(g) ==
    /\ \A p \in Publisher : gen[p] \in {None, g}
    /\ docs \subseteq Documents(g)
    /\ marker = "torn" => \E p \in Publisher : pc[p] = "fill_marker"
    /\ \A t \in torn : pc[t[3]] = "fill" /\ gen[t[3]] = t[1] /\ file[t[3]] = t[2]

\* Retries get there: if from some time on publish is asked for one resumable
\* generation, a manifest is committed, whatever earlier and overlapping
\* attempts have left behind.
EventuallyCommitted ==
    \A g \in Generation : <>[]Resumable(g) => <>(manifest # None)

=============================================================================
