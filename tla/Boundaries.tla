----------------------------- MODULE Boundaries -----------------------------
(***************************************************************************)
(* The gitlink boundaries of a scan (R2): the boundary manifest is read    *)
(* and its nested roots resolved (noesis repository_boundaries.rs), the    *)
(* root's gitlinks and .gitmodules are acquired and parsed, every nested   *)
(* repository is bound between two stamps of its directory (repository     *)
(* lib.rs), the report is built (domain s1_boundaries.rs) and written into *)
(* the snapshot; R11's query and export validate it again when they read   *)
(* it (contracts s4_r11.rs).                                               *)
(*                                                                         *)
(* A canonical path is its rank in byte order, 0 one that is not canonical;*)
(* an id is the tuple the code hashes.  Digests, URL kinds and spans in    *)
(* bytes (here lines) are left out.                                        *)
(***************************************************************************)
EXTENDS Integers, Sequences, FiniteSets
LOCAL INSTANCE SequencesExt

CONSTANTS BoundaryInputs,   \* what the command is given: see BoundaryInput
          GitlinkLimit,     \* MAX_GITLINK_ENTRIES
          MaxSections,      \* MAX_GITMODULES_SECTIONS
          MaxKeys,          \* MAX_GITMODULES_KEYS_PER_SECTION
          MaxNested,        \* MAX_EXPLICIT_NESTED_REPOSITORIES
          MaxGaps,          \* validate_boundary_shapes: coverage_gaps, 512
          MaxReportRecords  \* MAX_BOUNDARY_REPORT_BYTES, in records

VARIABLES bstage,    \* where the command is
          binput,    \* its input
          inode,     \* the directory each nested root names now
          nested,    \* the manifest entries still to bind, in path order
          stamp,     \* the directory stamped when the current bind began
          verified,  \* path -> the commit bound there
          report,    \* the report, once built
          brefusal   \* "" or what the command was refused with

boundaryVars == <<bstage, binput, inode, nested, stamp, verified, report, brefusal>>

NoReport == [boundaries |-> <<>>]
NoStamp == -1
Canonical(path) == path > 0

------------------------------------------------------------------------------
(* The manifest. *)

Distinct(entries, field) ==
    \A i, j \in DOMAIN entries : entries[i][field] = entries[j][field] => i = j

\* parse_repository_boundary_input: the entries in path order, or a refusal.
ManifestError(manifest) ==
    LET entries == manifest.entries
    IN  CASE ~manifest.wellFormed -> "schema_invalid"
          [] manifest.wellFormed /\ Len(entries) > MaxNested -> "nested_limit"
          [] OTHER ->
               IF /\ \A i \in DOMAIN entries : Canonical(entries[i].path) /\ entries[i].identity # "root"
                  /\ \A f \in {"path", "identity", "root"} : Distinct(entries, f)
               THEN "" ELSE "schema_invalid"

\* prepare: the manifest names this root and commit, every nested root is
\* resolved below the manifest's directory, and no two are one directory.
Resolved(input, entry) == entry.root \in DOMAIN input.canonical
PrepareError(input) ==
    LET entries == input.manifest.entries
    IN  CASE ManifestError(input.manifest) # "" -> ManifestError(input.manifest)
          [] ~input.manifest.namesRoot -> "root_mismatch"
          [] \E i, j \in DOMAIN entries :
                /\ i # j /\ Resolved(input, entries[i]) /\ Resolved(input, entries[j])
                /\ input.canonical[entries[i].root] = input.canonical[entries[j].root] -> "schema_invalid"
          [] OTHER -> ""

\* reject_overlaps: a root inside (or around) the scanned repository or the
\* store is as unavailable as one that does not resolve.
Available(input, entry) == Resolved(input, entry) /\ entry.root \notin input.overlapping

------------------------------------------------------------------------------
(* .gitmodules *)

validate_required_gitmodules_keys(section) == {"path", "url"} \subseteq DOMAIN section.values

\* parse_section_name, then the duplicate and the limit.
SectionError(sections, line) ==
    CASE sections # <<>> /\ ~validate_required_gitmodules_keys(Last(sections)) -> "required_key_missing"
      [] line.name = "" -> "malformed_section"
      [] line.name = "*" -> "invalid_name"
      [] line.name \in {sections[i].name : i \in DOMAIN sections} -> "duplicate_section"
      [] Len(sections) + 1 > MaxSections -> "section_limit"
      [] OTHER -> ""

\* A key line: its syntax (valid_key, unsupported_value_syntax, include),
\* the duplicate and the limit.
KeyError(sections, line) ==
    CASE sections = <<>> -> "key_outside_section"
      [] line.name = "*" -> "invalid_name"
      [] line.name \in {"", "include"} \/ line.value = -1 -> "malformed_section"
      [] sections # <<>> /\ line.name \in DOMAIN Last(sections).values -> "duplicate_key"
      [] sections # <<>> /\ Cardinality(DOMAIN Last(sections).values) + 1 > MaxKeys -> "key_limit"
      [] OTHER -> ""

WithKey(section, line) ==
    [section EXCEPT !.values = [k \in DOMAIN section.values \cup {line.name} |->
                                  IF k = line.name THEN line.value ELSE section.values[k]]]
\* A section ends where the next one starts, the last with the file.
AddLine(state, line) ==
    LET n == state.line + 1
        count == Len(state.sections)
        error == CASE line.kind = "blank" -> ""
                   [] line.kind = "section" -> SectionError(state.sections, line)
                   [] OTHER -> KeyError(state.sections, line)
        section == [name |-> line.name, start |-> n, end |-> state.total + 1, values |-> <<>>]
    IN  CASE state.error # "" -> state
          [] state.error = "" /\ error # "" -> [state EXCEPT !.error = error]
          [] OTHER ->
               [state EXCEPT !.line = n,
                  !.sections = CASE line.kind = "blank" -> @
                                 [] line.kind = "section" ->
                                      Append([i \in DOMAIN @ |-> IF i = count THEN [@[i] EXCEPT !.end = n] ELSE @[i]],
                                             section)
                                 [] OTHER -> [@ EXCEPT ![count] = WithKey(@, line)]]

\* The sections as declarations: a canonical path each, and no path twice.
AddSection(state, section) ==
    LET path == section.values["path"]
        keys == DOMAIN section.values \ {"path", "url"}
        declaration == [id |-> <<"declaration", path, section.name>>, path |-> path, keys |-> keys,
                        evidence |-> <<"gitmodules", section.start, section.end>>]
    IN  CASE state.error # "" -> state
          [] state.error = "" /\ ~Canonical(path) -> [state EXCEPT !.error = "path_invalid"]
          [] state.error = "" /\ \E i \in DOMAIN state.declarations : state.declarations[i].path = path ->
                [state EXCEPT !.error = "ambiguous_mapping"]
          [] OTHER -> [state EXCEPT !.declarations = Append(@, declaration)]

ByPath(a, b) == a.path < b.path
Parsed(error, declarations) == [error |-> error, declarations |-> declarations]

parse_gitmodules(source) ==
    LET scanned == FoldLeft(AddLine, [error |-> "", line |-> 0, total |-> Len(source.lines), sections |-> <<>>],
                            source.lines)
        unfinished == scanned.sections # <<>> /\ ~validate_required_gitmodules_keys(Last(scanned.sections))
        read == FoldLeft(AddSection, Parsed("", <<>>), scanned.sections)
    IN  CASE source.mode = "absent" -> Parsed("", <<>>)
          [] source.mode = "other" -> Parsed("unsafe_entry_kind", <<>>)
          [] source.mode = "100644" /\ scanned.error # "" -> Parsed(scanned.error, <<>>)
          [] source.mode = "100644" /\ scanned.error = "" /\ unfinished -> Parsed("required_key_missing", <<>>)
          [] OTHER -> Parsed(read.error, SortSeq(read.declarations, ByPath))

------------------------------------------------------------------------------
(* The report. *)

boundary_id(gitlink) == <<"boundary", gitlink.path, gitlink.oid>>
tree_evidence(gitlink) == <<"tree", gitlink.path, gitlink.oid>>

\* The gap codes in the order of their names.
Missing == 1
Orphan == 2
KeyUnsupported == 3
NotAnalyzed == 4
Unbound == 5

gap_record(code, path, subject, evidence) ==
    [id |-> <<"gap", code, subject>>, code |-> code, path |-> path, subject |-> subject, evidence |-> evidence]
GapBefore(a, b) == a.code < b.code \/ (a.code = b.code /\ a.path < b.path)

DeclaredAt(declarations, path) == {d \in ToSet(declarations) : d.path = path}
\* The gaps of one gitlink.
GitlinkGaps(gitlink, declared, bound) ==
    LET id == boundary_id(gitlink)
        tree == {tree_evidence(gitlink)}
        all == tree \cup {d.evidence : d \in declared}
        Gap(code, evidence) == gap_record(code, gitlink.path, id, evidence)
        own == CASE bound -> {Gap(NotAnalyzed, tree)}
                 [] ~bound /\ declared # {} -> {Gap(Unbound, all)}
                 [] OTHER -> {Gap(Missing, tree), Gap(Unbound, tree)}
    IN  own \cup (IF bound /\ declared = {} THEN {Gap(Missing, all)} ELSE {})
            \cup {gap_record(KeyUnsupported, gitlink.path, d.id, {d.evidence}) : d \in {x \in declared : x.keys # {}}}
\* The gaps of a declaration no gitlink answers to.
OrphanGaps(d) ==
    {gap_record(Orphan, d.path, d.id, {d.evidence})}
    \cup (IF d.keys # {} THEN {gap_record(KeyUnsupported, d.path, d.id, {d.evidence})} ELSE {})

State(gitlink, declared, bound) ==
    CASE bound -> "explicitly_bound"
      [] ~bound /\ declared # {} -> "declared_unbound"
      [] OTHER -> "undeclared_unbound"

\* build_boundary_report; bound maps a path to the commit verified there.
build_boundary_report(gitlinks, declarations, bound) ==
    LET linked == {g.path : g \in gitlinks}
        orphans == {d \in ToSet(declarations) : d.path \notin linked}
        Declared(g) == DeclaredAt(declarations, g.path)
        IsBound(g) == g.path \in DOMAIN bound
        gaps == SetToSortSeq(UNION {GitlinkGaps(g, Declared(g), IsBound(g)) : g \in gitlinks}
                             \cup UNION {OrphanGaps(d) : d \in orphans}, GapBefore)
        GapsOf(g) == SelectSeq(gaps, LAMBDA gap : gap.path = g.path
                                       /\ gap.subject \in {boundary_id(g)} \cup {d.id : d \in Declared(g)})
        Boundary(g) == [id |-> boundary_id(g), path |-> g.path, oid |-> g.oid,
                        state |-> State(g, Declared(g), IsBound(g)),
                        declaration |-> {d.id : d \in Declared(g)},
                        nested |-> IF IsBound(g) THEN {bound[g.path]} ELSE {},
                        evidence |-> {tree_evidence(g)} \cup {d.evidence : d \in Declared(g)},
                        gaps |-> {gap.id : gap \in ToSet(GapsOf(g))}]
        Declaration(d) == [id |-> d.id, path |-> d.path, keys |-> d.keys, evidence |-> d.evidence,
                           boundary |-> {boundary_id(g) : g \in {x \in gitlinks : x.path = d.path}}]
        links == SetToSortSeq(gitlinks, ByPath)
        byStart == SortSeq(declarations, LAMBDA a, b : a.evidence[2] < b.evidence[2])
    IN  [boundaries   |-> [i \in DOMAIN links |-> Boundary(links[i])],
         declarations |-> [i \in DOMAIN declarations |-> Declaration(declarations[i])],
         gaps         |-> gaps,
         evidence     |-> [i \in DOMAIN links |-> tree_evidence(links[i])]
                          \o [i \in DOMAIN byStart |-> byStart[i].evidence]]

\* The checks the builder makes of its arguments and of its own result.
ReportError(gitlinks, bound, built) ==
    IF /\ \A g \in gitlinks : Canonical(g.path)
       /\ Cardinality({g.path : g \in gitlinks}) = Cardinality(gitlinks)
       /\ DOMAIN bound \subseteq {g.path : g \in gitlinks}
       /\ \A g \in gitlinks : g.path \in DOMAIN bound => bound[g.path] = g.oid
       /\ \A i \in DOMAIN built.boundaries : built.boundaries[i].gaps # {}
    THEN "" ELSE "invalid_report"

\* repository_boundary_value, with the summary R11 compares.
Summary(r) ==
    LET bound == {i \in DOMAIN r.boundaries : r.boundaries[i].nested # {}}
    IN  [boundaries |-> Len(r.boundaries), declarations |-> Len(r.declarations),
         bound |-> Cardinality(bound), unbound |-> Len(r.boundaries) - Cardinality(bound),
         gaps |-> Len(r.gaps)]
Records(r) == Len(r.boundaries) + Len(r.declarations) + Len(r.gaps) + Len(r.evidence)

------------------------------------------------------------------------------
(* Reading the report back (R11). *)

Ids(records) == {records[i].id : i \in DOMAIN records}
Increasing(records, before(_, _)) == \A i \in 1..(Len(records) - 1) : before(records[i], records[i + 1])

\* validate_boundary_shapes: counts, states and the commit of a bound root.
validate_boundary_shapes(r) ==
    /\ Len(r.boundaries) <= GitlinkLimit
    /\ Len(r.declarations) <= MaxSections
    /\ Len(r.gaps) <= MaxGaps
    /\ Len(r.evidence) <= GitlinkLimit + MaxSections
    /\ \A i \in DOMAIN r.boundaries :
          LET b == r.boundaries[i]
          IN  /\ Cardinality(b.evidence) \in 1..2 /\ Cardinality(b.gaps) \in 1..4
              /\ CASE b.state = "declared_unbound" -> b.declaration # {} /\ b.nested = {}
                   [] b.state = "undeclared_unbound" -> b.declaration = {} /\ b.nested = {}
                   [] OTHER -> b.nested # {}
              /\ b.nested \subseteq {b.oid}
    /\ \A i \in DOMAIN r.declarations : Cardinality(r.declarations[i].keys) <= MaxKeys - 2
    /\ \A i \in DOMAIN r.gaps : Cardinality(r.gaps[i].evidence) \in 1..2
validate_boundary_summary(r, summary) ==
    /\ summary = Summary(r)
    /\ summary.bound = Cardinality({i \in DOMAIN r.boundaries : r.boundaries[i].state = "explicitly_bound"})
    /\ summary.bound <= MaxNested

\* boundary_record_order_key: each family in its own strict order.
Ordered(r) ==
    /\ Increasing(r.boundaries, ByPath)
    /\ Increasing(r.declarations, ByPath)
    /\ Increasing(r.gaps, GapBefore)
    /\ Increasing(r.evidence, LAMBDA a, b : \/ a[1] = "tree" /\ b[1] = "gitmodules"
                                            \/ a[1] = b[1] /\ a[2] < b[2])
\* The cross references, in both directions between link and declaration.
Referenced(r) ==
    LET boundaries == ToSet(r.boundaries)
        declarations == ToSet(r.declarations)
        evidence == ToSet(r.evidence)
        gaps == Ids(r.gaps)
    IN  /\ \A b \in boundaries :
             /\ b.evidence \subseteq evidence /\ b.gaps \subseteq gaps
             /\ \A id \in b.declaration :
                  \E d \in declarations : d.id = id /\ b.id \in d.boundary /\ d.path = b.path
             /\ <<"tree", b.path, b.oid>> \in b.evidence
        /\ \A d \in declarations :
             /\ d.evidence \in evidence /\ d.evidence[1] = "gitmodules"
             /\ \A id \in d.boundary :
                  \E b \in boundaries : b.id = id /\ d.id \in b.declaration /\ b.path = d.path
        /\ \A g \in ToSet(r.gaps) :
             g.subject \in Ids(r.boundaries) \cup Ids(r.declarations) /\ g.evidence \subseteq evidence
validate_boundary_value(r) ==
    /\ validate_boundary_shapes(r)
    /\ validate_boundary_summary(r, Summary(r))
    /\ Cardinality(Ids(r.boundaries)) = Len(r.boundaries)
    /\ Cardinality(Ids(r.declarations)) = Len(r.declarations)
    /\ Cardinality(Ids(r.gaps)) = Len(r.gaps)
    /\ Cardinality(ToSet(r.evidence)) = Len(r.evidence)
    /\ Ordered(r)
    /\ Referenced(r)

AnswerUnlinked(r, requested) ==
    [boundaries   |-> {b \in ToSet(r.boundaries) :
                         requested \in {b.id} \cup b.declaration \cup b.evidence \cup b.gaps},
     declarations |-> {d \in ToSet(r.declarations) : requested \in {d.id, d.evidence}},
     evidence     |-> ToSet(r.evidence),
     gaps         |-> ToSet(r.gaps)]
\* boundary_query_value: what an answer about one id is linked with.
boundary_query_value(r, requested) ==
    LET boundaries == {b \in ToSet(r.boundaries) :
                         requested \in {b.id} \cup b.declaration \cup b.evidence \cup b.gaps}
        boundaryIds == {b.id : b \in boundaries}
        declarations == {d \in ToSet(r.declarations) :
                           requested \in {d.id, d.evidence} \/ d.boundary \cap boundaryIds # {}}
        declarationIds == {d.id : d \in declarations}
        named == UNION {b.evidence : b \in boundaries} \cup {d.evidence : d \in declarations}
                 \cup ({requested} \cap ToSet(r.evidence))
    IN  [boundaries   |-> boundaries,
         declarations |-> declarations,
         evidence     |-> {e \in ToSet(r.evidence) : e \in named},
         gaps         |-> {g \in ToSet(r.gaps) : \/ g.id = requested
                                                 \/ g.subject \in boundaryIds \cup declarationIds
                                                 \/ requested \in g.evidence}]

------------------------------------------------------------------------------
(* The command. *)

BoundaryInit ==
    /\ binput \in BoundaryInputs
    /\ bstage = "prepare" /\ inode = binput.canonical /\ nested = <<>> /\ stamp = NoStamp
    /\ verified = <<>> /\ report = NoReport /\ brefusal = ""

Refuse(reason) == /\ brefusal' = reason /\ bstage' = "end"
                  /\ UNCHANGED <<binput, inode, nested, stamp, verified, report>>

PrepareInFileOrder ==
    /\ bstage = "prepare"
    /\ \/ PrepareError(binput) # "" /\ Refuse(PrepareError(binput))
       \/ /\ PrepareError(binput) = ""
          /\ nested' = binput.manifest.entries
          /\ bstage' = "acquire"
          /\ UNCHANGED <<binput, inode, stamp, verified, report, brefusal>>
Prepare ==
    /\ bstage = "prepare"
    /\ \/ PrepareError(binput) # "" /\ Refuse(PrepareError(binput))
       \/ /\ PrepareError(binput) = ""
          /\ nested' = SortSeq(binput.manifest.entries, ByPath)
          /\ bstage' = "acquire"
          /\ UNCHANGED <<binput, inode, stamp, verified, report, brefusal>>

\* acquire_inventory_with_boundaries counts the gitlinks as it walks; then
\* .gitmodules is parsed.
Acquire ==
    LET error == parse_gitmodules(binput.gitmodules).error
    IN  /\ bstage = "acquire"
        /\ \/ Cardinality(binput.gitlinks) > GitlinkLimit /\ Refuse("gitlink_limit")
           \/ Cardinality(binput.gitlinks) <= GitlinkLimit /\ error # "" /\ Refuse(error)
           \/ /\ Cardinality(binput.gitlinks) <= GitlinkLimit /\ error = ""
              /\ bstage' = "bind"
              /\ UNCHANGED <<binput, inode, nested, stamp, verified, report, brefusal>>

\* The next manifest entry up to the first stamp of its directory.
NestedError(entry) ==
    LET links == {g \in binput.gitlinks : g.path = entry.path}
    IN  CASE links = {} -> "invalid_manifest"
          [] \E g \in links : g.oid # entry.revision -> "nested_mismatch"
          [] ~Available(binput, entry) -> "nested_path_unavailable"
          [] OTHER -> ""
BeginBind ==
    /\ bstage = "bind" /\ nested # <<>>
    /\ \/ NestedError(Head(nested)) # "" /\ Refuse(NestedError(Head(nested)))
       \/ /\ NestedError(Head(nested)) = ""
          /\ stamp' = inode[Head(nested).root] /\ bstage' = "read"
          /\ UNCHANGED <<binput, inode, nested, verified, report, brefusal>>
\* The commit and its tree are read, and the directory stamped again.
FinishBind ==
    LET entry == Head(nested)
    IN  /\ bstage = "read"
        /\ \/ entry.revision \notin binput.commits[entry.root] /\ Refuse("nested_unavailable")
           \/ /\ entry.revision \in binput.commits[entry.root]
              /\ inode[entry.root] # stamp /\ Refuse("nested_changed")
           \/ /\ entry.revision \in binput.commits[entry.root] /\ inode[entry.root] = stamp
              /\ verified' = [p \in DOMAIN verified \cup {entry.path} |->
                                IF p = entry.path THEN entry.revision ELSE verified[p]]
              /\ nested' = Tail(nested) /\ stamp' = NoStamp /\ bstage' = "bind"
              /\ UNCHANGED <<binput, inode, report, brefusal>>

BuildReport ==
    LET built == build_boundary_report(binput.gitlinks, parse_gitmodules(binput.gitmodules).declarations, verified)
        error == ReportError(binput.gitlinks, verified, built)
    IN  /\ bstage = "bind" /\ nested = <<>>
        /\ \/ /\ error # "" \/ Records(built) > MaxReportRecords
              /\ Refuse(IF error # "" THEN error ELSE "report_limit")
           \/ /\ error = "" /\ Records(built) <= MaxReportRecords
              /\ report' = built /\ bstage' = "end"
              /\ UNCHANGED <<binput, inode, nested, stamp, verified, brefusal>>

\* Another process puts a new directory where a nested root was.
ReplaceRoot ==
    /\ bstage \in {"bind", "read"}
    /\ \E r \in DOMAIN inode :
          inode[r] = binput.canonical[r] /\ inode' = [inode EXCEPT ![r] = @ + 100]
    /\ UNCHANGED <<bstage, binput, nested, stamp, verified, report, brefusal>>

BoundaryStep == Prepare \/ Acquire \/ BeginBind \/ FinishBind \/ BuildReport
BoundaryNext == BoundaryStep \/ ReplaceRoot

------------------------------------------------------------------------------
(* Properties. *)

\* What is wrong with an input, by the category of the documented failure
\* precedence (0010-s1-gitlink-boundary-contract.md, "Failure precedence").
Defective(input, entry) ==
    LET links == {g \in input.gitlinks : g.path = entry.path}
    IN  \/ \A g \in links : g.oid # entry.revision
        \/ ~Available(input, entry)
        \/ entry.revision \notin input.commits[entry.root]
Defects(input) ==
    (IF PrepareError(input) # "" THEN {2} ELSE {})
    \cup (IF Cardinality(input.gitlinks) > GitlinkLimit THEN {4} ELSE {})
    \cup (IF parse_gitmodules(input.gitmodules).error # "" THEN {5} ELSE {})
    \cup (IF \E e \in ToSet(input.manifest.entries) : Defective(input, e) THEN {6} ELSE {})
Category(refusal) ==
    CASE refusal \in {"nested_limit", "schema_invalid", "root_mismatch"} -> 2
      [] refusal = "gitlink_limit" -> 4
      [] refusal \in {"invalid_manifest", "nested_mismatch", "nested_path_unavailable",
                      "nested_unavailable", "nested_changed"} -> 6
      [] refusal \in {"report_limit", "invalid_report"} -> 7
      [] OTHER -> 5

\* A command with several things wrong with it is refused with the earliest
\* by the documented order - of the nested entries the one with the lowest
\* path - whatever directories are replaced meanwhile; one with nothing
\* wrong is refused only for a directory that changed or a report too large
\* (prepare, scan_s4_boundaries, bind_nested_repository).
RefusalInOrder ==
    bstage = "end" =>
        LET defects == Defects(binput)
            changed == brefusal = "nested_changed"
        IN  IF brefusal = "" THEN defects = {}
            ELSE /\ \A c \in defects : Category(brefusal) <= c
                 /\ Category(brefusal) \in defects \cup {7} \cup (IF changed THEN {6} ELSE {})
                 /\ Category(brefusal) = 6 =>
                      \A e \in ToSet(binput.manifest.entries) :
                          Defective(binput, e) => e.path >= Head(nested).path

\* A report that was built is one its readers take: R11's validation accepts
\* it (up to the reader's own bound on gaps), and the answer about any of its
\* ids brings, with every boundary, the declaration, evidence and gaps that
\* boundary names, and with every declaration its boundary.
Asked(r) == Ids(r.boundaries) \cup Ids(r.declarations) \cup Ids(r.gaps) \cup ToSet(r.evidence)
ReportIsAnswerable ==
    (report # NoReport /\ Len(report.gaps) <= MaxGaps) =>
        /\ validate_boundary_value(report)
        /\ \A id \in Asked(report) :
             LET answer == boundary_query_value(report, id)
             IN  /\ \A b \in answer.boundaries :
                      /\ b.declaration \subseteq {d.id : d \in answer.declarations}
                      /\ b.evidence \subseteq answer.evidence
                      /\ b.gaps \subseteq {g.id : g \in answer.gaps}
                 /\ \A d \in answer.declarations :
                      d.boundary \subseteq {b.id : b \in answer.boundaries} /\ d.evidence \in answer.evidence
=============================================================================
