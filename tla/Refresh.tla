------------------------------ MODULE Refresh ------------------------------
(***************************************************************************)
(* `noesis refresh` (profile standard-local-s5): a new snapshot for a      *)
(* target commit is derived from the visible baseline, reusing per-file    *)
(* analyses kept in the analysis cache, and published only if the baseline *)
(* is still the head.  Several refreshes, full scans and program versions  *)
(* share one store.                                                        *)
(*                                                                         *)
(* The publication itself (staging, transaction, compare-and-set) is       *)
(* LocalStore's subject and is one step here.  A commit is an inventory of *)
(* paths; what the extractor reads from a source file is the set of        *)
(* out-of-line modules it declares and the rest of its observations.       *)
(***************************************************************************)
EXTENDS Naturals, FiniteSets, Functions

CONSTANTS
  Refresher,    \* running `noesis refresh` processes
  Version,      \* program versions (extractor, ontology, rules: all of them)
  Commit,       \* commits of the one repository
  Path,         \* paths of the inventories
  Manifest,     \* the Cargo.toml
  Root,         \* the crate's root source
  RustSource,   \* is_rust_source
  MappingInput, \* is_workspace_mapping_input
  Blob,         \* file contents
  NoBlob,       \* "no such path in this commit"
  Inventory,    \* [Commit -> [Path -> [blob, mode]]]
  Mods,         \* [Blob -> out-of-line modules a source with this content declares]
  CrateOf,      \* [Blob -> the crate a manifest with this content names]
  MaxEntries,   \* MAX_ANALYSIS_ENTRIES
  MaxScans,     \* bound: scans of a behaviour
  MaxRuns,      \* bound: refreshes of a behaviour
  NoSnapshot    \* "the project has no head"

ASSUME PathsAssumption ==
  /\ Manifest \in Path /\ Root \in RustSource /\ Manifest \notin RustSource
  /\ RustSource \subseteq Path /\ {Manifest, Root} \subseteq MappingInput

ASSUME InventoryAssumption ==
  /\ DOMAIN Inventory = Commit
  /\ \A c \in Commit : DOMAIN Inventory[c] = Path
  /\ \A c \in Commit, p \in Path : Inventory[c][p].blob \in Blob \cup {NoBlob}

\* The file of an out-of-line module is a Rust source.
ASSUME ModsAssumption == IsFiniteSet(Path) /\ \A b \in Blob : Mods[b] \subseteq RustSource

VARIABLES
  head,    \* the visible snapshot
  cache,   \* entries of the analysis cache
  owed,    \* entries published scans have not staged yet (and may never)
  pc,      \* where each refresh is
  job,     \* what it was asked: version and target commit
  base,    \* the baseline it loaded
  loaded,  \* what it kept of the cache: entries and compatibility
  plan,    \* its RefreshPlan
  todo,    \* entries it has still to stage
  scans, runs

vars == <<head, cache, owed, pc, job, base, loaded, plan, todo, scans, runs>>

-----------------------------------------------------------------------------
(* The extractor.                                                          *)

\* AnalysisCacheKey of a source file; the entry identity is a hash of it.
Key(v, c, p) ==
  [path |-> p, blob |-> Inventory[c][p].blob,
   crate |-> CrateOf[Inventory[c][Manifest].blob], version |-> v]

\* parse_rust_source: a function of the file's bytes and the program.
Parse(k) == [mods |-> Mods[k.blob], body |-> <<k.version, k.blob>>]

\* resolve_analysis: an entry with exactly this key is reused.
Reusable(v, c, p, entries) == {e \in entries : e.key = Key(v, c, p)}

\* Mutant: an entry is looked up without comparing the blob.
ResolveAnalysisByPath(v, c, entries) ==
  [p \in Path |->
     LET same == {e \in entries : e.key.path = p /\ e.key.version = v}
     IN  IF same # {} THEN (CHOOSE e \in same : TRUE).analysis
                      ELSE Parse(Key(v, c, p))]

ResolveAnalysis(v, c, entries) ==
  [p \in Path |->
     IF Reusable(v, c, p, entries) # {}
       THEN (CHOOSE e \in Reusable(v, c, p, entries) : TRUE).analysis
       ELSE Parse(Key(v, c, p))]

Present(c, P) == {p \in P : Inventory[c][p].blob # NoBlob}

\* collect_crate_sources: the module tree under the root.
Sources(c, res) ==
  LET Level[n \in 0..Cardinality(Path)] ==
        IF n = 0 THEN {Root}
        ELSE LET known == Level[n - 1]
             IN  known \cup UNION {res[p].mods : p \in Present(c, known)}
  IN  Path \cap Level[Cardinality(Path)]

\* A missing module file is UnsupportedWorkspace, a file reached twice
\* AmbiguousModule.
Resolvable(c, res) ==
  LET reached == Sources(c, res)
  IN  /\ Present(c, reached) = reached
      /\ \A p \in reached : Root \notin res[p].mods
      /\ \A p, q \in reached : p # q => res[p].mods \cap res[q].mods = {}

\* RepositorySnapshotV4: bound to the commit, with one entry per source.
Snapshot(v, c, res) ==
  [schema |-> "v4", version |-> v, commit |-> c,
   graph |-> [p \in Sources(c, res) |->
                [key |-> Key(v, c, p), analysis |-> res[p]]]]

EntriesOf(snapshot) == Range(snapshot.graph)

ColdAnalysis(v, c) == ResolveAnalysis(v, c, {})
Cold(v, c) == Snapshot(v, c, ColdAnalysis(v, c))

-----------------------------------------------------------------------------
(* The plan: RefreshService::plan and the rule catalog.                    *)

\* diff_inventory, and the changes that alter content rather than mode.
ChangedPaths(b, c) == {p \in Path : Inventory[b][p] # Inventory[c][p]}
ContentChanged(b, c) ==
  {p \in ChangedPaths(b, c) : Inventory[b][p].blob # Inventory[c][p].blob}

\* select_rule
SelectRule(b, c, compatible, stable) ==
  LET content == ContentChanged(b, c)
      modified == {p \in content : NoBlob \notin {Inventory[b][p].blob, Inventory[c][p].blob}}
  IN  CASE ~compatible -> "full_rebuild"
        [] compatible /\ b = c -> "no_change"
        [] compatible /\ b # c ->
             IF content \cap (MappingInput \cup (RustSource \ (modified \cap stable))) # {}
               THEN "full_workspace_analysis"
             ELSE IF content \cap RustSource # {}
               THEN "partial_analysis"
               ELSE "inventory_only"

\* Entries a refresh starts from: the rebuilt baseline's, or what it loaded.
BaselineEntries(v, b, S, compatible) ==
  IF compatible THEN EntriesOf(Snapshot(v, b, ResolveAnalysis(v, b, S))) ELSE S

\* Mutant: module declarations are not compared.
ModuleMappingIgnored(b, c, known, res) == FALSE

\* The module declarations of a changed source are not what they were.
ModuleMappingChanged(b, c, known, res) ==
  \E p \in ChangedPaths(b, c) \cap Sources(c, res), e \in known :
    e.key.path = p /\ e.analysis.mods # res[p].mods

StableNonRoot(v, c, known, res) ==
  {p \in Sources(c, res) \ {Root} :
     \E e \in known : /\ e.key.path = p
                      /\ e.key.crate = Key(v, c, p).crate
                      /\ e.key.version = v}

\* The rule, the extraction it leads to and the files that were parsed for it.
PlanFor(v, b, c, S, compatible) ==
  LET known == BaselineEntries(v, b, S, compatible)
      reuse == IF compatible THEN known ELSE {}
      first == ResolveAnalysis(v, c, reuse)
      rule  == IF compatible /\ ModuleMappingChanged(b, c, known, first)
                 THEN "full_workspace_analysis"
                 ELSE SelectRule(b, c, compatible, StableNonRoot(v, c, known, first))
      used  == IF rule = "full_workspace_analysis" THEN {} ELSE reuse
      res   == ResolveAnalysis(v, c, used)
  IN  [rule |-> rule, target |-> Snapshot(v, c, res), known |-> known,
       parsed |-> {p \in Sources(c, res) : Reusable(v, c, p, used) = {}}]

\* Why a plan is refused, if it is.
PlanError(v, b, c, S, compatible) ==
  LET rebuilt == ResolveAnalysis(v, b.commit, S)
      known   == BaselineEntries(v, b.commit, S, compatible)
      first   == ResolveAnalysis(v, c, IF compatible THEN known ELSE {})
  IN  CASE compatible /\ ~Resolvable(b.commit, rebuilt) -> "workspace"
        [] compatible /\ Resolvable(b.commit, rebuilt)
             /\ Snapshot(v, b.commit, rebuilt) # b -> "cold_equivalence_failed"
        [] OTHER -> IF Resolvable(c, first) THEN "none" ELSE "workspace"

-----------------------------------------------------------------------------
(* The processes.                                                          *)

Idle == [version |-> CHOOSE v \in Version : TRUE, commit |-> CHOOSE c \in Commit : TRUE]
NoPlan == [rule |-> "none", target |-> NoSnapshot, known |-> {}, parsed |-> {}]

Init ==
  /\ head = NoSnapshot /\ cache = {} /\ owed = {}
  /\ pc = [r \in Refresher |-> "idle"]
  /\ job = [r \in Refresher |-> Idle]
  /\ base = [r \in Refresher |-> NoSnapshot]
  /\ loaded = [r \in Refresher |-> [entries |-> {}, compatible |-> TRUE]]
  /\ plan = [r \in Refresher |-> NoPlan]
  /\ todo = [r \in Refresher |-> {}]
  /\ scans = 0 /\ runs = 0

refresher == <<pc, job, base, loaded, plan, todo, runs>>

\* stage_entry: an entry file is never overwritten; equal bytes are accepted.
StageEntry(e) == \A f \in cache : f.key = e.key => f = e

\* run_s4: a full scan of any version publishes the cold snapshot and then
\* stages its analyses, each on a best-effort basis.
Scan(v, c) ==
  /\ scans < MaxScans
  /\ Resolvable(c, ColdAnalysis(v, c))
  /\ head' = Cold(v, c)
  /\ owed' = owed \cup EntriesOf(Cold(v, c))
  /\ scans' = scans + 1
  /\ UNCHANGED <<cache, refresher>>

StageBestEffort(e) ==
  /\ e \in owed
  /\ owed' = owed \ {e}
  /\ cache' = IF StageEntry(e) THEN cache \cup {e} ELSE cache
  /\ UNCHANGED <<head, refresher, scans>>

\* A scan with a profile of another snapshot schema.
ScanOther(v, c) ==
  /\ scans < MaxScans
  /\ head' = [schema |-> "other", version |-> v, commit |-> c]
  /\ scans' = scans + 1
  /\ UNCHANGED <<cache, owed, refresher>>

\* load_s5_baseline: the head, which must be an S4 snapshot.
LoadBaseline(r, v, c) ==
  /\ pc[r] = "idle" /\ runs < MaxRuns
  /\ runs' = runs + 1
  /\ job' = [job EXCEPT ![r] = [version |-> v, commit |-> c]]
  /\ base' = [base EXCEPT ![r] = head]
  /\ pc' = [pc EXCEPT ![r] = IF head = NoSnapshot THEN "baseline_missing"
                             ELSE IF head.schema # "v4" THEN "baseline_incompatible"
                             ELSE "baseline"]
  /\ UNCHANGED <<head, cache, owed, loaded, plan, todo, scans>>

MatchesBaseline(e, b) == Inventory[b.commit][e.key.path].blob = e.key.blob

\* Mutant: the baseline's own versions are not looked at.
CompatibleCacheOnly(v, b) ==
  \A e \in cache : e.key.version # v => ~MatchesBaseline(e, b)

\* supports_current_s5_versions, and no entry of another version matches.
Compatible(v, b) ==
  /\ b.version = v
  /\ \A e \in cache : e.key.version # v => ~MatchesBaseline(e, b)

\* load_s5_analysis_cache: the bound is on everything stored.
LoadCache(r) ==
  LET v == job[r].version
      b == base[r]
      S == {e \in cache : e.key.version = v /\ MatchesBaseline(e, b)}
  IN  /\ pc[r] = "baseline"
      /\ IF Cardinality(cache) > MaxEntries
           THEN /\ pc' = [pc EXCEPT ![r] = "limit_exceeded"]
                /\ UNCHANGED loaded
           ELSE /\ pc' = [pc EXCEPT ![r] = "cache"]
                /\ loaded' = [loaded EXCEPT ![r] =
                               [entries |-> S, compatible |-> Compatible(v, b)]]
      /\ UNCHANGED <<head, cache, owed, job, base, plan, todo, scans, runs>>

\* plan; no_change ends the command with its report.
Plan(r) ==
  LET v == job[r].version
      c == job[r].commit
      S == loaded[r].entries
      compatible == loaded[r].compatible
      error == PlanError(v, base[r], c, S, compatible)
      made  == PlanFor(v, base[r].commit, c, S, compatible)
  IN  /\ pc[r] = "cache"
      /\ IF error # "none"
           THEN /\ pc' = [pc EXCEPT ![r] = error]
                /\ UNCHANGED <<plan, todo>>
           ELSE /\ plan' = [plan EXCEPT ![r] = made]
                /\ IF made.rule = "no_change"
                     THEN pc' = [pc EXCEPT ![r] = "no_change"] /\ UNCHANGED todo
                     ELSE /\ pc' = [pc EXCEPT ![r] = "staging"]
                          /\ todo' = [todo EXCEPT ![r] =
                                       made.known \cup EntriesOf(made.target)]
      /\ UNCHANGED <<head, cache, owed, job, base, loaded, scans, runs>>

\* stage_s5_analysis_cache: here a conflict is fatal.
StageCache(r) ==
  /\ pc[r] = "staging"
  /\ \E e \in todo[r] :
       IF StageEntry(e)
         THEN /\ cache' = cache \cup {e}
              /\ todo' = [todo EXCEPT ![r] = @ \ {e}]
              /\ UNCHANGED pc
         ELSE /\ pc' = [pc EXCEPT ![r] = "cache_corrupt"]
              /\ UNCHANGED <<cache, todo>>
  /\ UNCHANGED <<head, owed, job, base, loaded, plan, scans, runs>>

\* Mutant: the baseline's chunks are copied under the target's revision.
PublishCopied(r) ==
  /\ pc[r] = "staging" /\ todo[r] = {}
  /\ IF head = base[r]
       THEN /\ head' = [plan[r].target EXCEPT !.graph = base[r].graph]
            /\ pc' = [pc EXCEPT ![r] = "published"]
       ELSE /\ pc' = [pc EXCEPT ![r] = "head_conflict"]
            /\ UNCHANGED head
  /\ UNCHANGED <<cache, owed, job, base, loaded, plan, todo, scans, runs>>

\* publish_v4_expected: against the head the plan was made from.
Publish(r) ==
  /\ pc[r] = "staging" /\ todo[r] = {}
  /\ IF head = base[r]
       THEN /\ head' = plan[r].target
            /\ pc' = [pc EXCEPT ![r] = "published"]
       ELSE /\ pc' = [pc EXCEPT ![r] = "head_conflict"]
            /\ UNCHANGED head
  /\ UNCHANGED <<cache, owed, job, base, loaded, plan, todo, scans, runs>>

\* A deadline, a Git or storage error, or a kill, between any two steps.
Fail(r) ==
  /\ pc[r] \in {"baseline", "cache", "staging"}
  /\ pc' = [pc EXCEPT ![r] = "failed"]
  /\ UNCHANGED <<head, cache, owed, job, base, loaded, plan, todo, scans, runs>>

Ended == {"baseline_missing", "baseline_incompatible", "limit_exceeded",
          "workspace", "cold_equivalence_failed", "no_change", "cache_corrupt",
          "published", "head_conflict", "failed"}

\* The next command, a new process.
Again(r) ==
  /\ pc[r] \in Ended /\ runs < MaxRuns
  /\ pc' = [pc EXCEPT ![r] = "idle"]
  /\ job' = [job EXCEPT ![r] = Idle]
  /\ base' = [base EXCEPT ![r] = NoSnapshot]
  /\ loaded' = [loaded EXCEPT ![r] = [entries |-> {}, compatible |-> TRUE]]
  /\ plan' = [plan EXCEPT ![r] = NoPlan]
  /\ todo' = [todo EXCEPT ![r] = {}]
  /\ UNCHANGED <<head, cache, owed, scans, runs>>

Next ==
  \/ \E v \in Version, c \in Commit : Scan(v, c) \/ ScanOther(v, c)
  \/ \E e \in owed : StageBestEffort(e)
  \/ \E r \in Refresher :
       \/ \E v \in Version, c \in Commit : LoadBaseline(r, v, c)
       \/ LoadCache(r) \/ Plan(r) \/ StageCache(r) \/ Publish(r)
       \/ Fail(r) \/ Again(r)

Spec == Init /\ [][Next]_vars

-----------------------------------------------------------------------------
(* Properties.                                                             *)

Entry == [key : [path : Path, blob : Blob \cup {NoBlob},
                 crate : Range(CrateOf), version : Version],
          analysis : [mods : SUBSET Path, body : Version \X (Blob \cup {NoBlob})]]

\* Every process is at a step of run_s5, and every cache file is an entry.
RefreshTypeOK ==
  /\ cache \cup owed \subseteq Entry
  /\ \A r \in Refresher :
       /\ pc[r] \in {"idle", "baseline", "cache", "staging"} \cup Ended
       /\ job[r] \in [version : Version, commit : Commit]
       /\ loaded[r].entries \cup todo[r] \subseteq Entry

\* INV-INC-001: whatever mixture of refreshes, scans, versions and failures
\* led to it, a visible S4 snapshot is what a clean scan of its commit by its
\* version would have produced (RefreshService::plan reusing cached analyses).
HeadIsCold ==
  head # NoSnapshot =>
    (head.schema = "v4" => head = Cold(head.version, head.commit))

\* A cached analysis is what parsing that file with that version gives, and an
\* identity names one entry (resolve_analysis and stage_entry).
CacheIsExact ==
  \A e \in cache : /\ e.analysis = Parse(e.key)
                   /\ \A f \in cache : e.key = f.key => e = f

\* The refresh's self-check never fires: a baseline of this version is always
\* rebuilt exactly from the cache and Git (ColdEquivalenceFailed in plan).
NoFalseAlarm == \A r \in Refresher : pc[r] \notin {"cold_equivalence_failed", "cache_corrupt"}

\* A no_change answer means that the target's clean scan is already the
\* baseline, commit included (select_rule: equal trees do not suffice).
NoChangeIsExact ==
  \A r \in Refresher :
    pc[r] = "no_change" => base[r] = Cold(job[r].version, job[r].commit)

\* The rule says what was done: inventory_only parses no target source and
\* keeps every analysis; partial_analysis parses exactly the sources whose
\* content changed (select_rule against the extraction it labels).
RuleMatchesWork ==
  \A r \in Refresher :
    /\ plan[r].rule = "inventory_only" =>
         plan[r].parsed = {} /\ EntriesOf(plan[r].target) = EntriesOf(base[r])
    /\ plan[r].rule = "partial_analysis" =>
         plan[r].parsed = RustSource \cap ContentChanged(base[r].commit, job[r].commit)

\* Repeating a completed request answers no_change: no refresh publishes the
\* very snapshot that was its baseline (load_s5_analysis_cache, plan).
RepeatIsNoChange ==
  \A r \in Refresher : pc[r] = "published" => plan[r].target # base[r]

=============================================================================
