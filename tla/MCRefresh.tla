----------------------------- MODULE MCRefresh -----------------------------
(***************************************************************************)
(* A workspace of one crate: its manifest, the root source, two modules    *)
(* and a text file, in commits that differ in each of the ways the rule    *)
(* catalog tells apart.                                                    *)
(***************************************************************************)
EXTENDS Refresh, TLC

CONSTANTS toml, lib, modA, modB, doc,
          m1, m2, l1, l2, a1, a2, a3, b1, d1, d2

MCPath == {toml, lib, modA, modB, doc}
MCRustSource == {lib, modA, modB}
MCMappingInput == {toml, lib}
MCBlob == {m1, m2, l1, l2, a1, a2, a3, b1, d1, d2}

\* l2 also declares module modB; a3 declares it inside modA.
MCMods == [x \in MCBlob \cup {NoBlob} |->
             IF x = l1 THEN {modA} ELSE IF x = l2 THEN {modA, modB}
             ELSE IF x = a3 THEN {modB} ELSE {}]
MCCrateOf == [x \in MCBlob \cup {NoBlob} |-> IF x = m2 THEN "renamed" ELSE "crate"]

Tree(m, l, x, y, d) ==
  [p \in MCPath |->
     [blob |-> CASE p = toml -> m [] p = lib -> l [] p = modA -> x
                 [] p = modB -> y [] p = doc -> d,
      mode |-> "100644"]]

\* first: the start; body: modA's body edited; copy: the same tree as first;
\* text: only the text file and a mode differ; grown: a module added;
\* renamed: the manifest names another crate; nested: modA starts declaring modB
\* (present before as an unmapped file); broken: a declared module is missing.
MCInventory ==
  [first   |-> Tree(m1, l1, a1, b1, d1),
   copy    |-> Tree(m1, l1, a1, b1, d1),
   body    |-> Tree(m1, l1, a2, b1, d1),
   text    |-> [Tree(m1, l1, a1, b1, d2) EXCEPT ![modA].mode = "100755"],
   grown   |-> Tree(m1, l2, a1, b1, d1),
   renamed |-> Tree(m2, l1, a1, b1, d1),
   nested  |-> Tree(m1, l1, a3, b1, d1),
   broken  |-> Tree(m1, l2, a1, NoBlob, d1)]
MCCommit == DOMAIN MCInventory

\* Two commits, for runs with several refreshes.
MCShortInventory == [c \in {"first", "body"} |-> MCInventory[c]]
MCShortCommit == DOMAIN MCShortInventory

Symmetry == Permutations(Refresher)

-----------------------------------------------------------------------------
(* A second store, which shares nothing with the first: one refresh of one  *)
(* version between any two of the eight commits.  A behaviour is about one  *)
(* of the two stores.                                                       *)

VARIABLES
  catalog, \* the behaviour is about the second store
  head2, cache2, owed2, pc2, job2, base2, loaded2, plan2, todo2, scans2, runs2

vars2 == <<head2, cache2, owed2, pc2, job2, base2, loaded2, plan2, todo2, scans2, runs2>>

Catalog == INSTANCE Refresh WITH
  Refresher <- {"one"}, Version <- {"current"}, Commit <- MCCommit,
  Inventory <- MCInventory, MaxEntries <- 9, MaxScans <- 1, MaxRuns <- 1,
  head <- head2, cache <- cache2, owed <- owed2, pc <- pc2, job <- job2, base <- base2,
  loaded <- loaded2, plan <- plan2, todo <- todo2, scans <- scans2, runs <- runs2

BothInit == catalog \in BOOLEAN /\ Init /\ Catalog!Init

BothNext ==
  \/ ~catalog /\ Next /\ UNCHANGED <<catalog, vars2>>
  \/ catalog /\ Catalog!Next /\ UNCHANGED <<catalog, vars>>

BothSpec == BothInit /\ [][BothNext]_<<catalog, vars, vars2>>

\* The first store only.
FirstSpec == BothInit /\ ~catalog /\ [][BothNext]_<<catalog, vars, vars2>>

\* RuleMatchesWork, for every rule the eight commits select.
CatalogRules == Catalog!RuleMatchesWork

=============================================================================
