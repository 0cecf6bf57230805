--------------------------- MODULE RefreshProofs ---------------------------
(***************************************************************************)
(* For any repository history, any set of program versions and any number  *)
(* of concurrent refreshes: a visible S4 snapshot is its commit's clean    *)
(* scan.  The argument is that an entry, wherever it is held (cache, a     *)
(* scan's backlog, a refresh), carries exactly what parsing its key gives; *)
(* an extraction with such entries then is the extraction without any.     *)
(***************************************************************************)
EXTENDS Refresh, SequenceLemmas, FiniteSetTheorems, TLAPS

Exact(S) == \A e \in S : e = [key |-> e.key, analysis |-> Parse(e.key)]

Domains ==
  /\ DOMAIN pc = Refresher /\ DOMAIN job = Refresher /\ DOMAIN base = Refresher
  /\ DOMAIN loaded = Refresher /\ DOMAIN plan = Refresher /\ DOMAIN todo = Refresher

EntriesExact ==
  /\ Exact(cache) /\ Exact(owed)
  /\ \A r \in Refresher : Exact(loaded[r].entries) /\ Exact(todo[r])

\* A baseline in use was a visible S4 snapshot.
BaselineIsCold(r) ==
  pc[r] \in {"baseline", "cache"} =>
    base[r] = Cold(base[r].version, base[r].commit)

\* Reuse is allowed only for a baseline of the running version.
ReuseIsSafe(r) ==
  pc[r] = "cache" =>
    /\ loaded[r].compatible \in BOOLEAN
    /\ loaded[r].compatible => base[r].version = job[r].version

TargetIsCold(r) ==
  pc[r] = "staging" => plan[r].target = Cold(job[r].version, job[r].commit)

Answered(r) ==
  /\ pc[r] = "no_change" => base[r] = Cold(job[r].version, job[r].commit)
  /\ pc[r] \notin {"cold_equivalence_failed", "cache_corrupt"}

RefreshInv ==
  /\ Domains
  /\ EntriesExact
  /\ HeadIsCold
  /\ \A r \in Refresher :
       BaselineIsCold(r) /\ ReuseIsSafe(r) /\ TargetIsCold(r) /\ Answered(r)

-----------------------------------------------------------------------------

\* Extraction with exact entries is extraction without entries
\* (resolve_analysis reuses only under an equal key).
LEMMA ExactReuse ==
  ASSUME NEW v, NEW c, NEW S, Exact(S)
  PROVE  ResolveAnalysis(v, c, S) = ColdAnalysis(v, c)
<1>1. \A p \in Path : Reusable(v, c, p, S) # {} =>
        (CHOOSE e \in Reusable(v, c, p, S) : TRUE).analysis = Parse(Key(v, c, p))
  <2> SUFFICES ASSUME NEW p \in Path, Reusable(v, c, p, S) # {}
               PROVE  (CHOOSE e \in Reusable(v, c, p, S) : TRUE).analysis
                        = Parse(Key(v, c, p))
    OBVIOUS
  <2> DEFINE x == CHOOSE e \in Reusable(v, c, p, S) : TRUE
  <2>1. x \in Reusable(v, c, p, S)
    OBVIOUS
  <2>2. x \in S /\ x.key = Key(v, c, p)
    BY <2>1 DEF Reusable
  <2>3. x = [key |-> x.key, analysis |-> Parse(x.key)]
    BY <2>2 DEF Exact
  <2> HIDE DEF x
  <2>4. x.analysis = Parse(x.key)
    BY <2>3
  <2> QED BY <2>2, <2>4 DEF x
<1>2. \A p \in Path : Reusable(v, c, p, {}) = {}
  BY DEF Reusable
<1> QED BY <1>1, <1>2, ZenonT(40) DEF ResolveAnalysis, ColdAnalysis

LEMMA SourcesArePaths == \A c, res : Sources(c, res) \subseteq Path
BY DEF Sources

\* The entries of a clean scan are exact (extract_prepared's cache entries).
LEMMA ColdEntriesExact ==
  ASSUME NEW v, NEW c PROVE Exact(EntriesOf(Cold(v, c)))
<1> DEFINE G == Cold(v, c).graph
<1>1. DOMAIN G \subseteq Path
  BY SourcesArePaths DEF Cold, Snapshot
<1>2. \A p \in DOMAIN G :
        G[p] = [key |-> Key(v, c, p), analysis |-> Parse(Key(v, c, p))]
  <2>1. \A p \in Path : ColdAnalysis(v, c)[p] = Parse(Key(v, c, p))
    BY DEF ColdAnalysis, ResolveAnalysis, Reusable
  <2> QED BY <1>1, <2>1 DEF Cold, Snapshot
<1> HIDE DEF G
<1>3. \A e \in {G[p] : p \in DOMAIN G} :
        e = [key |-> e.key, analysis |-> Parse(e.key)]
  BY <1>2
<1> QED BY <1>3 DEF Exact, EntriesOf, Range, G

\* A clean scan's snapshot carries the version and the commit it was made for.
LEMMA ColdFields ==
  ASSUME NEW v, NEW c
  PROVE  /\ Cold(v, c).schema = "v4"
         /\ Cold(v, c).version = v
         /\ Cold(v, c).commit = c
BY DEF Cold, Snapshot

\* A plan made from exact entries targets the clean scan, stages exact entries
\* and answers no_change only for a compatible baseline of the same commit
\* (RefreshService::plan, select_rule).
LEMMA PlanIsCold ==
  ASSUME NEW v, NEW b, NEW c, NEW S, NEW compatible \in BOOLEAN, Exact(S)
  PROVE  LET made == PlanFor(v, b, c, S, compatible)
         IN  /\ made.target = Cold(v, c)
             /\ Exact(made.known)
             /\ made.rule = "no_change" => compatible /\ b = c
<1> DEFINE known == BaselineEntries(v, b, S, compatible)
           reuse == IF compatible THEN known ELSE {}
           first == ResolveAnalysis(v, c, reuse)
           rule  == IF compatible /\ ModuleMappingChanged(b, c, known, first)
                      THEN "full_workspace_analysis"
                      ELSE SelectRule(b, c, compatible, StableNonRoot(v, c, known, first))
           used  == IF rule = "full_workspace_analysis" THEN {} ELSE reuse
<1>1. Exact(known)
  BY ExactReuse, ColdEntriesExact DEF BaselineEntries, Cold
<1>2. Exact({})
  BY DEF Exact
<1>3. Exact(used)
  <2> HIDE DEF known, first, rule
  <2> QED BY <1>1, <1>2
<1>4. Snapshot(v, c, ResolveAnalysis(v, c, used)) = Cold(v, c)
  <2> HIDE DEF used
  <2> QED BY <1>3, ExactReuse DEF Cold
<1>5. rule = "no_change" => compatible /\ b = c
  <2> HIDE DEF known, first
  <2> QED BY DEF SelectRule
<1>6. PlanFor(v, b, c, S, compatible).target = Snapshot(v, c, ResolveAnalysis(v, c, used))
  BY Zenon DEF PlanFor
<1>7. PlanFor(v, b, c, S, compatible).known = known
  BY Zenon DEF PlanFor
<1>8. PlanFor(v, b, c, S, compatible).rule = rule
  BY Zenon DEF PlanFor
<1> HIDE DEF known, reuse, first, rule, used
<1> QED BY <1>1, <1>4, <1>5, <1>6, <1>7, <1>8

\* With exact entries and a baseline of this version the rebuilt baseline is
\* the baseline (the ColdEquivalenceFailed test of plan).
LEMMA NoEquivalenceError ==
  ASSUME NEW v, NEW b, NEW c, NEW S, NEW compatible \in BOOLEAN, Exact(S),
         b = Cold(b.version, b.commit), compatible => b.version = v
  PROVE  PlanError(v, b, c, S, compatible) \in {"none", "workspace"}
<1>1. ResolveAnalysis(v, b.commit, S) = ColdAnalysis(v, b.commit)
  BY ExactReuse
<1>2. compatible => Snapshot(v, b.commit, ResolveAnalysis(v, b.commit, S)) = b
  BY <1>1 DEF Cold
<1> QED BY <1>2 DEF PlanError

-----------------------------------------------------------------------------

LEMMA InitInv == Init => RefreshInv
BY DEF Init, RefreshInv, Domains, EntriesExact, Exact, HeadIsCold, BaselineIsCold,
       ReuseIsSafe, TargetIsCold, Answered

LEMMA ExactUnion ==
  ASSUME NEW S, NEW T, Exact(S), Exact(T) PROVE Exact(S \cup T)
BY DEF Exact

LEMMA ExactSubset ==
  ASSUME NEW S, NEW T \in SUBSET S, Exact(S) PROVE Exact(T)
BY Zenon DEF Exact

\* No step of a scan, of a refresh or of the environment breaks the invariant.
LEMMA NextInv == RefreshInv /\ [Next]_vars => RefreshInv'
<1> SUFFICES ASSUME RefreshInv, [Next]_vars PROVE RefreshInv'
  OBVIOUS
<1> USE DEF RefreshInv
<1>1. ASSUME NEW v \in Version, NEW c \in Commit, Scan(v, c) PROVE RefreshInv'
  <2>1. Domains'
    BY <1>1 DEF Scan, Domains, refresher
  <2>2. EntriesExact'
    BY <1>1, ColdEntriesExact, ExactUnion, Zenon DEF Scan, EntriesExact, refresher
  <2>3. HeadIsCold'
    BY <1>1, ColdFields, Zenon DEF Scan, HeadIsCold
  <2>4. ASSUME NEW r \in Refresher
        PROVE  (BaselineIsCold(r) /\ ReuseIsSafe(r) /\ TargetIsCold(r) /\ Answered(r))'
    BY <1>1, Zenon DEF Scan, refresher, BaselineIsCold, ReuseIsSafe, TargetIsCold, Answered
  <2> QED BY <2>1, <2>2, <2>3, <2>4
<1>2. ASSUME NEW v \in Version, NEW c \in Commit, ScanOther(v, c) PROVE RefreshInv'
  BY <1>2, Zenon DEF ScanOther, refresher, Domains, EntriesExact, HeadIsCold, BaselineIsCold,
              ReuseIsSafe, TargetIsCold, Answered
<1>3. ASSUME NEW e \in owed, StageBestEffort(e) PROVE RefreshInv'
  <2>1. EntriesExact'
    BY <1>3 DEF StageBestEffort, EntriesExact, Exact, refresher
  <2> QED BY <1>3, <2>1, Zenon DEF StageBestEffort, refresher, Domains, HeadIsCold,
              BaselineIsCold, ReuseIsSafe, TargetIsCold, Answered
<1>4. ASSUME NEW r \in Refresher, NEW v \in Version, NEW c \in Commit, LoadBaseline(r, v, c)
      PROVE  RefreshInv'
  <2>1. Domains' /\ EntriesExact' /\ HeadIsCold'
    BY <1>4, Zenon DEF LoadBaseline, Domains, EntriesExact, HeadIsCold
  <2>2. ASSUME NEW s \in Refresher
        PROVE  (BaselineIsCold(s) /\ ReuseIsSafe(s) /\ TargetIsCold(s) /\ Answered(s))'
    BY <1>4, Zenon DEF LoadBaseline, Domains, HeadIsCold, BaselineIsCold, ReuseIsSafe,
                TargetIsCold, Answered
  <2> QED BY <2>1, <2>2
<1>5. ASSUME NEW r \in Refresher, LoadCache(r) PROVE RefreshInv'
  <2> DEFINE S == {e \in cache : e.key.version = job[r].version /\ MatchesBaseline(e, base[r])}
  <2>1. Exact(S)
    BY ExactSubset DEF EntriesExact
  <2>2. Compatible(job[r].version, base[r]) \in BOOLEAN
    BY DEF Compatible
  <2>3. Compatible(job[r].version, base[r]) => base[r].version = job[r].version
    BY DEF Compatible
  <2> HIDE DEF S
  <2>4. /\ pc[r] = "baseline"
        /\ UNCHANGED <<head, cache, owed, job, base, plan, todo>>
        /\ \/ /\ pc' = [pc EXCEPT ![r] = "limit_exceeded"]
              /\ loaded' = loaded
           \/ /\ pc' = [pc EXCEPT ![r] = "cache"]
              /\ loaded' = [loaded EXCEPT ![r] =
                   [entries |-> S, compatible |-> Compatible(job[r].version, base[r])]]
    BY <1>5, Zenon DEF LoadCache, S
  <2>5. Domains' /\ HeadIsCold'
    BY <2>4, Zenon DEF Domains, HeadIsCold
  <2>6. EntriesExact'
    BY <2>1, <2>4, SMTT(30) DEF EntriesExact, Domains
  <2>7. ASSUME NEW s \in Refresher
        PROVE  (BaselineIsCold(s) /\ ReuseIsSafe(s) /\ TargetIsCold(s) /\ Answered(s))'
    BY <2>2, <2>3, <2>4 DEF Domains, BaselineIsCold, ReuseIsSafe, TargetIsCold, Answered
  <2> QED BY <2>5, <2>6, <2>7
<1>6. ASSUME NEW r \in Refresher, Plan(r) PROVE RefreshInv'
  <2> DEFINE made  == PlanFor(job[r].version, base[r].commit, job[r].commit,
                              loaded[r].entries, loaded[r].compatible)
             error == PlanError(job[r].version, base[r], job[r].commit,
                                loaded[r].entries, loaded[r].compatible)
  <2>1. pc[r] = "cache" /\ UNCHANGED <<head, cache, owed, job, base, loaded>>
    BY <1>6, Zenon DEF Plan
  <2>2. /\ loaded[r].compatible \in BOOLEAN /\ Exact(loaded[r].entries)
        /\ base[r] = Cold(base[r].version, base[r].commit)
        /\ loaded[r].compatible => base[r].version = job[r].version
    BY <2>1, Zenon DEF EntriesExact, BaselineIsCold, ReuseIsSafe
  <2>3. error \in {"none", "workspace"}
    BY <2>2, NoEquivalenceError, Zenon
  <2>4. /\ made.target = Cold(job[r].version, job[r].commit)
        /\ Exact(made.known)
        /\ made.rule = "no_change" =>
             base[r] = Cold(job[r].version, job[r].commit)
    <3>1. made.rule = "no_change" =>
            loaded[r].compatible /\ base[r].commit = job[r].commit
      BY <2>2, PlanIsCold
    <3> HIDE DEF made
    <3>2. made.rule = "no_change" => base[r] = Cold(job[r].version, job[r].commit)
      BY <2>2, <3>1, Zenon
    <3> QED BY <2>2, <3>2, PlanIsCold DEF made
  <2>5. Exact(made.known \cup EntriesOf(made.target))
    BY <2>4, ColdEntriesExact, ExactUnion, Zenon
  <2>6. \/ pc' = [pc EXCEPT ![r] = "workspace"] /\ UNCHANGED <<plan, todo>>
        \/ /\ plan' = [plan EXCEPT ![r] = made]
           /\ made.rule = "no_change"
           /\ pc' = [pc EXCEPT ![r] = "no_change"] /\ UNCHANGED todo
        \/ /\ plan' = [plan EXCEPT ![r] = made]
           /\ pc' = [pc EXCEPT ![r] = "staging"]
           /\ todo' = [todo EXCEPT ![r] = made.known \cup EntriesOf(made.target)]
    BY <1>6, <2>3, Zenon DEF Plan
  <2> HIDE DEF made, error
  <2>7. Domains' /\ HeadIsCold'
    BY <2>1, <2>6, Zenon DEF Domains, HeadIsCold
  <2>8. EntriesExact'
    BY <2>1, <2>5, <2>6, Zenon DEF EntriesExact, Domains
  <2>9. ASSUME NEW s \in Refresher
        PROVE  (BaselineIsCold(s) /\ ReuseIsSafe(s) /\ TargetIsCold(s) /\ Answered(s))'
    BY <2>1, <2>4, <2>6, ZenonT(40) DEF Domains, BaselineIsCold, ReuseIsSafe, TargetIsCold, Answered
  <2> QED BY <2>7, <2>8, <2>9
<1>7. ASSUME NEW r \in Refresher, StageCache(r) PROVE RefreshInv'
  <2>1. PICK e \in todo[r] :
          IF StageEntry(e)
            THEN /\ cache' = cache \cup {e}
                 /\ todo' = [todo EXCEPT ![r] = @ \ {e}]
                 /\ UNCHANGED pc
            ELSE /\ pc' = [pc EXCEPT ![r] = "cache_corrupt"]
                 /\ UNCHANGED <<cache, todo>>
    BY <1>7, Zenon DEF StageCache
  <2>2. StageEntry(e)
    BY <2>1, Zenon DEF StageEntry, EntriesExact, Exact
  <2>3. UNCHANGED <<head, owed, job, base, loaded, plan, pc>>
    BY <1>7, <2>1, <2>2, Zenon DEF StageCache
  <2>4. EntriesExact'
    BY <2>1, <2>2, <2>3 DEF EntriesExact, Exact, Domains
  <2> QED BY <2>1, <2>2, <2>3, <2>4, Zenon DEF Domains, HeadIsCold, BaselineIsCold,
              ReuseIsSafe, TargetIsCold, Answered
<1>8. ASSUME NEW r \in Refresher, Publish(r) PROVE RefreshInv'
  <2>1. HeadIsCold'
    BY <1>8, ColdFields DEF Publish, HeadIsCold, TargetIsCold
  <2> QED BY <1>8, <2>1, ZenonT(40) DEF Publish, Domains, EntriesExact, BaselineIsCold,
              ReuseIsSafe, TargetIsCold, Answered
<1>9. ASSUME NEW r \in Refresher, Fail(r) PROVE RefreshInv'
  BY <1>9, Zenon DEF Fail, Domains, EntriesExact, HeadIsCold, BaselineIsCold, ReuseIsSafe,
              TargetIsCold, Answered
<1>10. ASSUME NEW r \in Refresher, Again(r) PROVE RefreshInv'
  <2>1. EntriesExact'
    BY <1>10, Zenon DEF Again, EntriesExact, Exact, Domains
  <2> QED BY <1>10, <2>1, Zenon DEF Again, Domains, HeadIsCold, BaselineIsCold, ReuseIsSafe,
              TargetIsCold, Answered
<1>11. CASE UNCHANGED vars
  BY <1>11, Zenon DEF vars, Domains, EntriesExact, HeadIsCold, BaselineIsCold, ReuseIsSafe,
               TargetIsCold, Answered
<1> QED BY <1>1, <1>2, <1>3, <1>4, <1>5, <1>6, <1>7, <1>8, <1>9, <1>10, <1>11, Zenon DEF Next

\* The inductive invariant: entries are exact wherever they are held, baselines
\* and targets in use are clean scans.
THEOREM RefreshInvariant == Spec => []RefreshInv
BY InitInv, NextInv, PTL DEF Spec

\* INV-INC-001 for every history and any number of concurrent refreshes: the
\* visible S4 snapshot is what a clean scan of its commit produces.
THEOREM IncrementalIsCold == Spec => []HeadIsCold
<1>1. RefreshInv => HeadIsCold
  BY DEF RefreshInv
<1> QED BY <1>1, RefreshInvariant, PTL

\* A cached analysis is its key's parse, and an identity names one entry
\* (stage_entry never finds a conflict).
THEOREM CacheSound == Spec => []CacheIsExact
<1>1. RefreshInv => CacheIsExact
  BY DEF RefreshInv, EntriesExact, Exact, CacheIsExact
<1> QED BY <1>1, RefreshInvariant, PTL

\* The refresh's self-check never refuses a baseline it published or scanned
\* (ColdEquivalenceFailed and cache conflicts do not happen).
THEOREM SelfCheckQuiet == Spec => []NoFalseAlarm
<1>1. RefreshInv => NoFalseAlarm
  BY DEF RefreshInv, Answered, NoFalseAlarm
<1> QED BY <1>1, RefreshInvariant, PTL

\* A no_change answer is exact: the baseline is the target's clean scan.
THEOREM NoChangeSound == Spec => []NoChangeIsExact
<1>1. RefreshInv => NoChangeIsExact
  BY Zenon DEF RefreshInv, Answered, NoChangeIsExact
<1> QED BY <1>1, RefreshInvariant, PTL

-----------------------------------------------------------------------------
(* The rule and the work *)

\* Two commits whose Rust sources are present alike and declare the same modules
\* have the same sources (collect_crate_sources).
LEMMA SourcesAgree ==
  ASSUME NEW b, NEW c, NEW x, NEW y,
         \A p \in RustSource : Inventory[b][p].blob = NoBlob <=> Inventory[c][p].blob = NoBlob,
         \A p \in Present(b, RustSource) : x[p].mods = y[p].mods /\ x[p].mods \subseteq RustSource
  PROVE  Sources(b, x) = Sources(c, y) /\ Sources(b, x) \subseteq RustSource
<1> DEFINE N == Cardinality(Path)
           V == SUBSET RustSource
           StepB(k) == k \cup UNION {x[p].mods : p \in Present(b, k)}
           StepC(k) == k \cup UNION {y[p].mods : p \in Present(c, k)}
           F == [n \in 1..N |-> [k \in V |-> StepB(k)]]
           DefB(f) == [n \in 0..N |-> IF n = 0 THEN {Root} ELSE StepB(f[n - 1])]
           DefC(f) == [n \in 0..N |-> IF n = 0 THEN {Root} ELSE StepC(f[n - 1])]
<1>1. N \in Nat
  BY ModsAssumption, FS_CardinalityType, Zenon
<1>2. {Root} \in V
  BY PathsAssumption, Zenon
<1>3. ASSUME NEW k \in V PROVE StepB(k) \in V /\ StepC(k) = StepB(k)
  <2>1. Present(b, k) = Present(c, k) /\ Present(b, k) \subseteq Present(b, RustSource)
    BY Zenon DEF Present
  <2>2. {x[p].mods : p \in Present(b, k)} = {y[p].mods : p \in Present(c, k)}
    BY <2>1, Zenon
  <2>3. \A m \in {x[p].mods : p \in Present(b, k)} : m \subseteq RustSource
    BY <2>1, Zenon
  <2> QED BY <2>2, <2>3, Zenon
<1> HIDE DEF V, StepB, StepC
<1>4. F \in [1..N -> [V -> V]]
  BY <1>3, Zenon
<1> HIDE DEF F, N
<1>5. PICK f \in [0..N -> V] : f[0] = {Root} /\ \A n \in 1..N : f[n] = F[n][f[n - 1]]
  <2>1. Defines(V, N, {Root}, F)
    BY <1>1, <1>2, <1>4, Zenon DEF Defines
  <2> QED BY <2>1, Recursion
<1>6. ASSUME NEW n \in 1..N PROVE n - 1 \in 0..N /\ f[n - 1] \in V /\ f[n] = StepB(f[n - 1])
  <2>1. n - 1 \in 0..N
    BY <1>1
  <2>2. f[n - 1] \in V /\ f[n] = F[n][f[n - 1]]
    BY <1>5, <2>1, Zenon
  <2> QED BY <2>1, <2>2, Zenon DEF F
<1>7. ASSUME NEW n \in 0..N
      PROVE  /\ f[n] = IF n = 0 THEN {Root} ELSE StepB(f[n - 1])
             /\ f[n] = IF n = 0 THEN {Root} ELSE StepC(f[n - 1])
  <2>1. CASE n = 0
    BY <2>1, <1>5, Zenon
  <2>2. CASE n # 0
    <3>1. n \in 1..N
      BY <1>1, <2>2
    <3> QED BY <3>1, <2>2, <1>6, <1>3, Zenon
  <2> QED BY <2>1, <2>2, Zenon
<1>8. f = DefB(f) /\ f = DefC(f)
  BY <1>5, <1>7, Zenon
<1> DEFINE g == CHOOSE l : l = DefB(l)
           h == CHOOSE l : l = DefC(l)
<1>9. g = DefB(g) /\ h = DefC(h)
  BY <1>8, Zenon
<1>10. Sources(b, x) = Path \cap g[N] /\ Sources(c, y) = Path \cap h[N]
  BY Zenon DEF Sources, StepB, StepC, N
<1> HIDE DEF g, h
<1> DEFINE S == {n \in 0..N : g[n] \in V /\ h[n] = g[n]}
<1>11. 0 \in S
  <2>1. 0 \in 0..N
    BY <1>1
  <2>2. g[0] = {Root} /\ h[0] = {Root}
    BY <1>9, <2>1, Zenon
  <2> QED BY <2>1, <2>2, <1>2, Zenon
<1>12. ASSUME NEW n \in 1..N, n - 1 \in S PROVE n \in S
  <2>1. n \in 0..N /\ n # 0
    BY <1>1
  <2>2. g[n] = StepB(g[n - 1]) /\ h[n] = StepC(h[n - 1])
    BY <1>9, <2>1, Zenon
  <2> QED BY <2>1, <2>2, <1>3, <1>12, Zenon
<1> HIDE DEF S
<1>13. N \in S
  <2>1. N \in 0..N
    BY <1>1
  <2> QED BY <1>1, <1>11, <1>12, <2>1, UpTo, Zenon
<1> QED BY <1>10, <1>13, Zenon DEF S, V

\* What is kept about a source that no content change touched, when the manifest
\* is not touched either.
LEMMA KeyKept ==
  ASSUME NEW v, NEW b, NEW c, Manifest \notin ContentChanged(b, c),
         NEW p \in Path, p \notin ContentChanged(b, c)
  PROVE  Key(v, b, p) = Key(v, c, p) /\ Inventory[b][p].blob = Inventory[c][p].blob
<1>1. \A q \in Path : q \notin ContentChanged(b, c) => Inventory[b][q].blob = Inventory[c][q].blob
  BY Zenon DEF ContentChanged, ChangedPaths
<1>2. Inventory[b][p].blob = Inventory[c][p].blob /\ Inventory[b][Manifest].blob = Inventory[c][Manifest].blob
  BY <1>1, PathsAssumption, Zenon
<1> QED BY <1>2, Zenon DEF Key

\* The entries of a clean scan: one for each source.
LEMMA ColdEntries ==
  ASSUME NEW v, NEW c
  PROVE  /\ EntriesOf(Cold(v, c)) = {[key |-> Key(v, c, p), analysis |-> Parse(Key(v, c, p))] :
                                       p \in Sources(c, ColdAnalysis(v, c))}
         /\ \A p \in Path : ColdAnalysis(v, c)[p] = Parse(Key(v, c, p))
<1>1. \A p \in Path : ColdAnalysis(v, c)[p] = Parse(Key(v, c, p))
  BY DEF ColdAnalysis, ResolveAnalysis, Reusable
<1> DEFINE T == Sources(c, ColdAnalysis(v, c))
           G == [p \in T |-> [key |-> Key(v, c, p), analysis |-> ColdAnalysis(v, c)[p]]]
<1>2. T \subseteq Path
  BY SourcesArePaths
<1>3. EntriesOf(Cold(v, c)) = {G[p] : p \in T}
  BY Zenon DEF Cold, Snapshot, EntriesOf, Range
<1> HIDE DEF T
<1>4. \A p \in T : G[p] = [key |-> Key(v, c, p), analysis |-> Parse(Key(v, c, p))]
  BY <1>1, <1>2, Zenon
<1> HIDE DEF G
<1> QED BY <1>1, <1>3, <1>4, Zenon DEF T

\* A rule that reuses analyses is selected only if every changed source is a
\* module known before, with the declarations it had; then the module tree is the
\* baseline's and exactly the changed sources are parsed (select_rule and the
\* extraction of plan).
LEMMA ReuseMatchesWork ==
  ASSUME NEW v, NEW b \in Commit, NEW c \in Commit,
         ContentChanged(b, c) \cap MappingInput = {},
         ContentChanged(b, c) \cap RustSource \subseteq
           StableNonRoot(v, c, EntriesOf(Cold(v, b)), ColdAnalysis(v, c)),
         \A p \in ContentChanged(b, c) \cap RustSource :
           NoBlob \notin {Inventory[b][p].blob, Inventory[c][p].blob},
         ~ModuleMappingChanged(b, c, EntriesOf(Cold(v, b)), ColdAnalysis(v, c))
  PROVE  /\ {p \in Sources(c, ColdAnalysis(v, c)) : Reusable(v, c, p, EntriesOf(Cold(v, b))) = {}}
              = RustSource \cap ContentChanged(b, c)
         /\ ContentChanged(b, c) \cap RustSource = {} =>
              EntriesOf(Cold(v, c)) = EntriesOf(Cold(v, b))
<1> DEFINE x == ColdAnalysis(v, b)
           y == ColdAnalysis(v, c)
           known == EntriesOf(Cold(v, b))
           content == ContentChanged(b, c)
           parsed == {p \in Sources(c, y) : Reusable(v, c, p, known) = {}}
           EntryOf(d, p) == [key |-> Key(v, d, p), analysis |-> Parse(Key(v, d, p))]
<1>1. /\ known = {EntryOf(b, p) : p \in Sources(b, x)}
      /\ EntriesOf(Cold(v, c)) = {EntryOf(c, p) : p \in Sources(c, y)}
      /\ \A p \in Path : x[p] = Parse(Key(v, b, p)) /\ y[p] = Parse(Key(v, c, p))
  BY ColdEntries, Zenon
<1>2. \A p \in Path : p \notin content =>
        Key(v, b, p) = Key(v, c, p) /\ Inventory[b][p].blob = Inventory[c][p].blob
  <2>1. Manifest \notin content
    BY PathsAssumption, Zenon
  <2> HIDE DEF content
  <2> QED BY <2>1, KeyKept DEF content
<1>3. \A d, p : /\ EntryOf(d, p).key = Key(v, d, p) /\ EntryOf(d, p).analysis = Parse(Key(v, d, p))
                /\ Key(v, d, p).path = p /\ Key(v, d, p).blob = Inventory[d][p].blob
  BY Zenon DEF Key
<1> HIDE DEF EntryOf
<1>4. ASSUME NEW p \in content \cap RustSource
      PROVE  /\ p \in Sources(c, y) /\ p \in Path /\ x[p].mods = y[p].mods
             /\ Inventory[b][p].blob # NoBlob /\ Inventory[c][p].blob # NoBlob
             /\ Inventory[b][p].blob # Inventory[c][p].blob
  <2>1. /\ p \in Sources(c, y) /\ p \in ChangedPaths(b, c) /\ p \in Path
        /\ \E e \in known : e.key.path = p
        /\ Inventory[b][p].blob # Inventory[c][p].blob
    BY <1>4, PathsAssumption, Zenon DEF StableNonRoot, ContentChanged
  <2>2. PICK e \in known : e.key.path = p
    BY <2>1, Zenon
  <2>3. PICK q \in Sources(b, x) : e = EntryOf(b, q)
    BY <1>1, Zenon
  <2>4. q = p /\ e.analysis = Parse(Key(v, b, p))
    BY <2>2, <2>3, <1>3
  <2>5. e.analysis.mods = y[p].mods
    BY <2>1, <2>2, Zenon DEF ModuleMappingChanged
  <2>6. x[p] = e.analysis
    BY <2>1, <2>4, <1>1, Zenon
  <2>7. NoBlob \notin {Inventory[b][p].blob, Inventory[c][p].blob}
    BY <1>4, Zenon
  <2> QED BY <2>1, <2>5, <2>6, <2>7, Zenon
<1> HIDE DEF x, y, known, content
<1>5. \A p \in RustSource : Inventory[b][p].blob = NoBlob <=> Inventory[c][p].blob = NoBlob
  BY <1>2, <1>4, PathsAssumption, Zenon
<1>6. ASSUME NEW p \in Present(b, RustSource)
      PROVE  x[p].mods = y[p].mods /\ x[p].mods \subseteq RustSource
  <2>1. p \in RustSource /\ p \in Path /\ Inventory[b][p].blob # NoBlob
    BY PathsAssumption, Zenon DEF Present
  <2>2. Inventory[b][p].blob \in Blob
    BY <2>1, InventoryAssumption, Zenon
  <2>3. x[p] = Parse(Key(v, b, p)) /\ y[p] = Parse(Key(v, c, p))
    BY <2>1, <1>1, Zenon
  <2>4. x[p].mods = Mods[Inventory[b][p].blob]
    BY <2>3 DEF Parse, Key
  <2>5. x[p].mods \subseteq RustSource
    BY <2>2, <2>4, ModsAssumption, Zenon
  <2>6. x[p].mods = y[p].mods
    BY <2>1, <2>3, <1>2, <1>4, Zenon
  <2> QED BY <2>5, <2>6, Zenon
<1>7. Sources(b, x) = Sources(c, y) /\ Sources(b, x) \subseteq RustSource
  BY <1>5, <1>6, SourcesAgree
<1>8. ASSUME NEW p \in Sources(c, y)
      PROVE  Reusable(v, c, p, known) = {} <=> p \in content
  <2>1. p \in Path /\ p \in RustSource /\ p \in Sources(b, x)
    BY <1>7, SourcesArePaths, Zenon
  <2>2. ASSUME p \notin content PROVE Reusable(v, c, p, known) # {}
    <3>1. EntryOf(b, p) \in known /\ EntryOf(b, p).key = Key(v, b, p)
      BY <2>1, <1>1, <1>3, Zenon
    <3>2. Key(v, b, p) = Key(v, c, p)
      BY <2>1, <2>2, <1>2, Zenon
    <3> QED BY <3>1, <3>2, Zenon DEF Reusable
  <2>3. ASSUME p \in content, NEW e \in known, e.key = Key(v, c, p) PROVE FALSE
    <3>1. PICK q \in Sources(b, x) : e = EntryOf(b, q)
      BY <1>1, Zenon
    <3>2. Key(v, b, q) = Key(v, c, p)
      BY <3>1, <2>3, <1>3, Zenon
    <3>3. q = p /\ Inventory[b][p].blob = Inventory[c][p].blob
      BY <3>2, <1>3
    <3> QED BY <3>3, <2>1, <2>3, <1>4, Zenon
  <2> QED BY <2>2, <2>3, Zenon DEF Reusable
<1>9. parsed = RustSource \cap content
  BY <1>4, <1>7, <1>8, Zenon
<1>10. ASSUME content \cap RustSource = {} PROVE EntriesOf(Cold(v, c)) = known
  <2>1. \A p \in Sources(b, x) : EntryOf(b, p) = EntryOf(c, p)
    <3> SUFFICES ASSUME NEW p \in Sources(b, x) PROVE EntryOf(b, p) = EntryOf(c, p)
      BY Zenon
    <3>1. Key(v, b, p) = Key(v, c, p)
      BY <1>2, <1>7, <1>10, PathsAssumption, Zenon
    <3> QED BY <3>1, Zenon DEF EntryOf
  <2> QED BY <2>1, <1>1, <1>7, Zenon
<1> QED BY <1>9, <1>10, Zenon DEF x, y, known, content

\* The rule of a plan and what the plan extracts.
RuleHonest(v, b, c, made) ==
    /\ made.rule = "inventory_only" =>
         made.parsed = {} /\ EntriesOf(made.target) = EntriesOf(Cold(v, b))
    /\ made.rule = "partial_analysis" => made.parsed = RustSource \cap ContentChanged(b, c)

\* What the rule of a plan with a compatible baseline says of its extraction.
LEMMA PlanMatchesWork ==
  ASSUME NEW v, NEW b \in Commit, NEW c \in Commit, NEW S, Exact(S)
  PROVE  RuleHonest(v, b, c, PlanFor(v, b, c, S, TRUE))
<1> DEFINE made == PlanFor(v, b, c, S, TRUE)
<1> DEFINE known == EntriesOf(Snapshot(v, b, ResolveAnalysis(v, b, S)))
           first == ResolveAnalysis(v, c, known)
           stable == StableNonRoot(v, c, known, first)
           rule  == IF ModuleMappingChanged(b, c, known, first)
                      THEN "full_workspace_analysis" ELSE SelectRule(b, c, TRUE, stable)
           used  == IF rule = "full_workspace_analysis" THEN {} ELSE known
           res   == ResolveAnalysis(v, c, used)
           content == ContentChanged(b, c)
           modified == {p \in content : NoBlob \notin {Inventory[b][p].blob, Inventory[c][p].blob}}
<1>1. /\ made.rule = rule
      /\ made.parsed = {p \in Sources(c, res) : Reusable(v, c, p, used) = {}}
      /\ made.target = Snapshot(v, c, res)
  BY Zenon DEF PlanFor, BaselineEntries
<1> HIDE DEF made
<1>2. known = EntriesOf(Cold(v, b)) /\ Exact(known)
  BY ExactReuse, ColdEntriesExact, Zenon DEF Cold
<1> HIDE DEF known
<1>3. first = ColdAnalysis(v, c)
  BY <1>2, ExactReuse, Zenon
<1> HIDE DEF first
<1> SUFFICES ASSUME rule \in {"inventory_only", "partial_analysis"}
             PROVE  /\ made.parsed = RustSource \cap content
                    /\ rule = "inventory_only" =>
                         content \cap RustSource = {} /\ EntriesOf(made.target) = EntriesOf(Cold(v, b))
  BY <1>1, Zenon DEF made, RuleHonest
<1>4. ~ModuleMappingChanged(b, c, known, first) /\ rule = SelectRule(b, c, TRUE, stable)
  <2> HIDE DEF stable
  <2> QED BY Zenon
<1> HIDE DEF rule
<1>5. used = known
  BY Zenon
<1>6. res = ColdAnalysis(v, c)
  BY <1>2, <1>5, ExactReuse, Zenon
<1> HIDE DEF used, res, stable
<1>7. /\ content \cap (MappingInput \cup (RustSource \ (modified \cap stable))) = {}
      /\ rule = "inventory_only" => content \cap RustSource = {}
  BY <1>4, Zenon DEF SelectRule
<1>8. /\ content \cap MappingInput = {}
      /\ content \cap RustSource \subseteq stable
      /\ \A p \in content \cap RustSource : NoBlob \notin {Inventory[b][p].blob, Inventory[c][p].blob}
  <2> HIDE DEF content
  <2> QED BY <1>7, Zenon
<1>9. /\ {p \in Sources(c, ColdAnalysis(v, c)) : Reusable(v, c, p, known) = {}} = RustSource \cap content
      /\ content \cap RustSource = {} => EntriesOf(Cold(v, c)) = EntriesOf(Cold(v, b))
  BY <1>2, <1>3, <1>4, <1>8, ReuseMatchesWork DEF stable
<1>10. made.target = Cold(v, c)
  BY <1>1, <1>6, Zenon DEF Cold
<1> HIDE DEF content
<1> QED BY <1>1, <1>5, <1>6, <1>7, <1>9, <1>10, Zenon

\* An incompatible baseline is rebuilt.
LEMMA PlanRebuilds ==
  ASSUME NEW v, NEW b, NEW c, NEW S
  PROVE  PlanFor(v, b, c, S, FALSE).rule = "full_rebuild"
<1>1. \A stable : SelectRule(b, c, FALSE, stable) = "full_rebuild"
  BY DEF SelectRule
<1> QED BY <1>1, Zenon DEF PlanFor

\* A refresh has no plan before it has planned, and knows commits only.
Planned(r) ==
  /\ pc[r] \in {"idle", "baseline", "cache"} => plan[r] = NoPlan
  /\ pc[r] \in {"baseline", "cache"} => base[r].commit \in Commit
  /\ pc[r] \in {"baseline", "cache", "staging"} => job[r].commit \in Commit

RuleInv ==
  /\ head # NoSnapshot => head.commit \in Commit
  /\ \A r \in Refresher : Planned(r)
  /\ RuleMatchesWork

LEMMA InitRule == Init => RuleInv
<1> SUFFICES ASSUME Init PROVE RuleInv
  OBVIOUS
<1>1. head = NoSnapshot /\ \A r \in Refresher : pc[r] = "idle" /\ plan[r] = NoPlan
  BY Zenon DEF Init
<1>2. NoPlan.rule = "none"
  BY DEF NoPlan
<1> QED BY <1>1, <1>2, Zenon DEF RuleInv, Planned, RuleMatchesWork

LEMMA NextRule == RefreshInv /\ RuleInv /\ [Next]_vars => RuleInv'
<1> SUFFICES ASSUME RefreshInv, RuleInv, [Next]_vars PROVE RuleInv'
  BY SMTT(30)
<1> USE DEF RuleInv
<1>1. ASSUME NEW v \in Version, NEW c \in Commit, Scan(v, c) PROVE RuleInv'
  BY <1>1, ColdFields DEF Scan, refresher, Planned, RuleMatchesWork
<1>2. ASSUME NEW v \in Version, NEW c \in Commit, ScanOther(v, c) PROVE RuleInv'
  BY <1>2, Zenon DEF ScanOther, refresher, Planned, RuleMatchesWork
<1>3. ASSUME NEW e \in owed, StageBestEffort(e) PROVE RuleInv'
  BY <1>3, Zenon DEF StageBestEffort, refresher, Planned, RuleMatchesWork
<1>4. ASSUME NEW r \in Refresher, NEW v \in Version, NEW c \in Commit, LoadBaseline(r, v, c)
      PROVE  RuleInv'
  <2>1. pc[r] = "idle" /\ plan[r] = NoPlan /\ UNCHANGED <<head, plan>>
    BY <1>4, Zenon DEF LoadBaseline, Planned
  <2>2. ASSUME NEW s \in Refresher PROVE Planned(s)'
    BY <1>4, <2>1, Zenon DEF LoadBaseline, Planned, RefreshInv, Domains
  <2>3. \A s \in Refresher : s # r => base'[s] = base[s] /\ job'[s] = job[s]
    BY <1>4, Zenon DEF LoadBaseline, RefreshInv, Domains
  <2>4. RuleMatchesWork'
    BY <2>1, <2>3 DEF RuleMatchesWork, NoPlan
  <2> QED BY <2>1, <2>2, <2>4, Zenon
<1>5. ASSUME NEW r \in Refresher, LoadCache(r) PROVE RuleInv'
  <2>1. /\ pc[r] = "baseline" /\ UNCHANGED <<head, job, base, plan>>
        /\ \/ pc' = [pc EXCEPT ![r] = "limit_exceeded"]
           \/ pc' = [pc EXCEPT ![r] = "cache"]
    BY <1>5, Zenon DEF LoadCache
  <2> QED BY <2>1, Zenon DEF Planned, RuleMatchesWork, RefreshInv, Domains
<1>6. ASSUME NEW r \in Refresher, Plan(r) PROVE RuleInv'
  <2> DEFINE made == PlanFor(job[r].version, base[r].commit, job[r].commit,
                             loaded[r].entries, loaded[r].compatible)
  <2>1. /\ pc[r] = "cache" /\ UNCHANGED <<head, job, base>>
        /\ \/ UNCHANGED plan /\ \E e : e # "none" /\ pc' = [pc EXCEPT ![r] = e]
                /\ e = PlanError(job[r].version, base[r], job[r].commit,
                                 loaded[r].entries, loaded[r].compatible)
           \/ /\ plan' = [plan EXCEPT ![r] = made]
              /\ \/ pc' = [pc EXCEPT ![r] = "no_change"]
                 \/ pc' = [pc EXCEPT ![r] = "staging"]
    BY <1>6, Zenon DEF Plan
  <2>2. /\ loaded[r].compatible \in BOOLEAN /\ Exact(loaded[r].entries)
        /\ base[r] = Cold(base[r].version, base[r].commit)
        /\ loaded[r].compatible => base[r].version = job[r].version
        /\ base[r].commit \in Commit /\ job[r].commit \in Commit
    BY <2>1, Zenon DEF RefreshInv, EntriesExact, BaselineIsCold, ReuseIsSafe, Planned
  <2>3. PlanError(job[r].version, base[r], job[r].commit, loaded[r].entries, loaded[r].compatible)
          \in {"none", "workspace"}
    BY <2>2, NoEquivalenceError, Zenon
  <2>4. /\ made.rule = "inventory_only" =>
             made.parsed = {} /\ EntriesOf(made.target) = EntriesOf(base[r])
        /\ made.rule = "partial_analysis" =>
             made.parsed = RustSource \cap ContentChanged(base[r].commit, job[r].commit)
    <3>1. CASE loaded[r].compatible = FALSE
      BY <3>1, PlanRebuilds, Zenon
    <3>2. CASE loaded[r].compatible = TRUE
      <4> DEFINE v == job[r].version
                 b == base[r].commit
                 c == job[r].commit
                 S == loaded[r].entries
      <4>1. made = PlanFor(v, b, c, S, TRUE)
        BY <3>2, Zenon
      <4>2. b \in Commit /\ c \in Commit /\ Exact(S) /\ base[r] = Cold(v, b)
        BY <2>2, <3>2, Zenon
      <4> HIDE DEF made, v, b, c, S
      <4>3. RuleHonest(v, b, c, made)
        BY <4>1, <4>2, PlanMatchesWork, Zenon
      <4> QED BY <4>2, <4>3, Zenon DEF b, c, RuleHonest
    <3> QED BY <2>2, <3>1, <3>2, Zenon
  <2> HIDE DEF made
  <2>5. \/ UNCHANGED plan /\ pc' = [pc EXCEPT ![r] = "workspace"]
        \/ /\ plan' = [plan EXCEPT ![r] = made]
           /\ \/ pc' = [pc EXCEPT ![r] = "no_change"]
              \/ pc' = [pc EXCEPT ![r] = "staging"]
    BY <2>1, <2>3, Zenon
  <2>6. ASSUME NEW s \in Refresher PROVE Planned(s)'
    BY <2>1, <2>2, <2>5, Zenon DEF Planned, RefreshInv, Domains
  <2>7. RuleMatchesWork'
    BY <2>1, <2>4, <2>5, Zenon DEF RuleMatchesWork, RefreshInv, Domains
  <2> QED BY <2>1, <2>6, <2>7, Zenon
<1>7. ASSUME NEW r \in Refresher, StageCache(r) PROVE RuleInv'
  <2>1. /\ UNCHANGED <<head, job, base, plan>>
        /\ pc[r] = "staging"
        /\ UNCHANGED pc \/ pc' = [pc EXCEPT ![r] = "cache_corrupt"]
    BY <1>7, Zenon DEF StageCache
  <2> QED BY <2>1, Zenon DEF Planned, RuleMatchesWork, RefreshInv, Domains
<1>8. ASSUME NEW r \in Refresher, Publish(r) PROVE RuleInv'
  <2>1. plan[r].target.commit = job[r].commit /\ job[r].commit \in Commit
    BY <1>8, ColdFields DEF Publish, RefreshInv, TargetIsCold, Planned
  <2> QED BY <1>8, <2>1, Zenon DEF Publish, Planned, RuleMatchesWork, RefreshInv, Domains
<1>9. ASSUME NEW r \in Refresher, Fail(r) PROVE RuleInv'
  <2>1. ASSUME NEW s \in Refresher PROVE Planned(s)'
    BY <1>9, Zenon DEF Fail, Planned, RefreshInv, Domains
  <2> QED BY <1>9, <2>1, Zenon DEF Fail, RuleMatchesWork
<1>10. ASSUME NEW r \in Refresher, Again(r) PROVE RuleInv'
  <2>1. ASSUME NEW s \in Refresher PROVE Planned(s)'
    BY <1>10, Zenon DEF Again, Planned, RefreshInv, Domains
  <2>2. plan'[r] = NoPlan /\ UNCHANGED head
    BY <1>10, Zenon DEF Again, RefreshInv, Domains
  <2>3. \A s \in Refresher : s # r => base'[s] = base[s] /\ job'[s] = job[s] /\ plan'[s] = plan[s]
    BY <1>10, Zenon DEF Again, RefreshInv, Domains
  <2>4. RuleMatchesWork'
    BY <2>2, <2>3 DEF RuleMatchesWork, NoPlan
  <2> QED BY <2>1, <2>2, <2>4, Zenon
<1>11. CASE UNCHANGED vars
  BY <1>11, Zenon DEF vars, Planned, RuleMatchesWork
<1> QED BY <1>1, <1>2, <1>3, <1>4, <1>5, <1>6, <1>7, <1>8, <1>9, <1>10, <1>11, Zenon DEF Next

\* The rule a refresh reports is what it did, for every pair of commits and every
\* part of the cache it found: inventory_only parses nothing and keeps every
\* analysis, partial_analysis parses exactly the changed sources (select_rule
\* against the extraction of plan).
THEOREM RuleIsHonest == Spec => []RuleMatchesWork
<1>1. RuleInv => RuleMatchesWork
  BY DEF RuleInv
<1>2. Spec => []RuleInv
  BY InitRule, NextRule, RefreshInvariant, PTL DEF Spec
<1> QED BY <1>1, <1>2, PTL

=============================================================================
