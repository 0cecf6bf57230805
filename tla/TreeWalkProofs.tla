---------------------------- MODULE TreeWalkProofs ----------------------------
(***************************************************************************)
(* What the walk over a commit keeps.  Walks says that all of the commit   *)
(* that has been visited is listed, is in the walk or is being read, that  *)
(* the walk is in path order, and where the links lead; Roams, that the    *)
(* walk is a sequence of entries and what is wanted an object.             *)
(***************************************************************************)
EXTENDS TreeWalk, SequenceLemmas

\* The phases before the revision is bound, and those that read objects.
Unresolved == {"shape", "open", "opening", "revision", "loose_main", "packed_main"}

Asking == {"fetch", "reading"}

Entry == [mode : Mode, path : Seq(Names), oid : Oid]

FileRecord == [path : Seq(Names), mode : Mode, body : Oid]

Roams == walk \in Seq(Entry) /\ (phase \in Asking => want.oid \in Oid)

\* Nothing of a commit is known before it has been read.
Fresh == phase \in Unresolved \/ (phase \in Asking /\ want.what = "commit")

Untouched ==
    /\ walk = <<>> /\ paths = {} /\ files = <<>>
    /\ linkEntries = <<>> /\ symlinks = <<>> /\ following = None
    /\ phase \in Asking => want.oid = commit

\* A path the walk enters: with boundaries collected, .gitmodules only itself.
Inner(p) == options.boundaries => p = <<>> \/ p[1] # GitModules

Entered(p) == Inner(p) \/ p = <<GitModules>>

Wanted(p, m, o) == phase \in Asking /\ want.path = p /\ want.mode = m /\ want.oid = o

\* What the walk holds is in the commit.
Authentic ==
    /\ \A n \in 1..Len(walk) :
         /\ walk[n].path # <<>> /\ Entered(walk[n].path)
         /\ Front(walk[n].path) \in paths \cup {<<>>}
         /\ [mode |-> walk[n].mode, oid |-> walk[n].oid] \in Lookup(commit, walk[n].path)
    /\ phase \in Asking =>
         /\ want.path \in paths \/ (want.path = <<>> /\ want.what = "tree")
         /\ [mode |-> want.mode, oid |-> want.oid] \in Lookup(commit, want.path)
         /\ want.what = "tree" => want.mode = "dir" /\ Inner(want.path)
         /\ want.what = "file" => IsFile(want.path, want)
         /\ want.what = "link" => want.mode = "link"
         /\ want.what \in {"tree", "file", "link"}
    /\ paths \subseteq Seq(Names) \ {<<>>}
    /\ \A p \in paths : Len(p) <= MaxPathDepth
    /\ files \in Seq(FileRecord)
    /\ \A i \in 1..Len(files) :
         /\ files[i].path \in paths
         /\ [mode |-> files[i].mode, oid |-> files[i].body] \in Lookup(commit, files[i].path)
         /\ IsFile(files[i].path, files[i])

\* A path is to be visited a second time, which will be refused.
Doomed == \E n \in 1..Len(walk) : walk[n].path \in paths

\* Nothing more is to be done for entry e at path p than what is in the walk.
Settled(p, e) ==
    /\ IsFile(p, e) =>
         \E i \in 1..Len(files) : files[i] = [path |-> p, mode |-> e.mode, body |-> e.oid]
    /\ e.mode = "dir" /\ Inner(p) =>
         /\ e.oid \in DOMAIN Items
         /\ \A i \in Range(Items[e.oid]) :
              \/ Append(p, i.name) \in paths
              \/ \E n \in 1..Len(walk) :
                   walk[n] = [mode |-> i.mode, path |-> Append(p, i.name), oid |-> i.oid]

\* Every entry of a visited path is the one being read, or settled.
Exhaustive ==
    \A p \in paths \cup {<<>>} : \A e \in Lookup(commit, p) :
        Wanted(p, e.mode, e.oid) \/ Settled(p, e)

\* The walk goes in path order.
InPathOrder ==
    /\ \A m, n \in 1..Len(walk) :
         m < n => walk[m].path = walk[n].path \/ Below(walk[m].path, walk[n].path)
    /\ \A i \in 1..Len(files), n \in 1..Len(walk) : Below(files[i].path, walk[n].path)
    /\ \A i, j \in 1..Len(files) : i < j => Below(files[i].path, files[j].path)
    /\ phase \in Asking =>
         /\ \A n \in 1..Len(walk) : want.path # <<>> /\ Below(want.path, walk[n].path)
         /\ \A i \in 1..Len(files) : Below(files[i].path, want.path)

\* Where the links lead.
DirAt(p) == \E e \in Lookup(commit, p) : e.mode = "dir"

Goal == [ok : BOOLEAN, comps : Seq(Int), dir : BOOLEAN]

Recorded ==
    \A p \in DOMAIN linkEntries :
        /\ p \in Seq(Names)
        /\ linkEntries[p].kind = "dir" =>
             \E e \in Lookup(commit, p) : e.mode = "dir" /\ e.oid = linkEntries[p].oid
        /\ linkEntries[p].kind = "file" =>
             \E e \in Lookup(commit, p) : e.mode \in {"file", "exec"} /\ e.oid = linkEntries[p].oid
        /\ linkEntries[p].kind = "link" => linkEntries[p].to \in Goal

Leading ==
    following # None =>
        /\ following \in [link : Seq(Int), pending : Seq(Int), resolved : Seq(Int),
                          expansions : Nat, directory : BOOLEAN]
        /\ \A n \in 1..Len(following.resolved) :
             n < Len(following.resolved) \/ following.pending # <<>> =>
               DirAt(SubSeq(following.resolved, 1, n))

Led ==
    \A l \in DOMAIN symlinks :
        /\ \E e \in Lookup(commit, symlinks[l].path) :
             e.mode \in {"file", "exec", "dir"} /\ e.oid = symlinks[l].oid
        /\ \A n \in 1..(Len(symlinks[l].path) - 1) : DirAt(SubSeq(symlinks[l].path, 1, n))

Inside == Recorded /\ Leading /\ Led

Walks ==
    IF Fresh THEN Untouched
    ELSE phase = "failed" \/ (Authentic /\ Inside /\ (Doomed \/ (Exhaustive /\ InPathOrder)))

\* Once there is a tree to walk.
Listed == Authentic /\ (Doomed \/ (Exhaustive /\ InPathOrder))

-----------------------------------------------------------------------------
(* Trees and paths *)

\* Sorting by name is a rearrangement of a tree's entries.
LEMMA SortedByName ==
  ASSUME TreeAssumption, NEW t \in DOMAIN Items
  PROVE  /\ SortedItems(t) \in Seq([mode : Mode, name : Int, oid : Oid])
         /\ Range(SortedItems(t)) = Range(Items[t])
         /\ \A i, j \in 1..Len(SortedItems(t)) :
               i < j => SortedItems(t)[i].name <= SortedItems(t)[j].name
<1> DEFINE Item == [mode : Mode, name : Int, oid : Oid]
           s == Items[t]
           N == Len(s)
           k == [i \in DOMAIN s |-> s[i].name]
           r == Ascending(k)
           u == SortedItems(t)
<1>1. s \in Seq(Item) /\ N \in Nat /\ DOMAIN s = 1..N /\ \A i \in 1..N : s[i] \in Item
  <2>1. s \in Seq(Item)
    BY Zenon DEF TreeAssumption
  <2> HIDE DEF s, Item
  <2> QED BY <2>1
<1>2. k \in [1..N -> Int] /\ DOMAIN k = 1..N
  BY <1>1
<1>3. \A q : Sorts(q, k, N) <=> /\ q \in Bijection(DOMAIN k, DOMAIN k)
                                 /\ \A i, j \in DOMAIN k : i < j => k[q[i]] <= k[q[j]]
  <2> HIDE DEF k, N
  <2>1. ASSUME NEW D, NEW q
        PROVE  q \in Bijection(D, D) <=> /\ q \in [D -> D]
                                         /\ \A i, j \in D : q[i] = q[j] => i = j
                                         /\ \A i \in D : \E j \in D : q[j] = i
    BY DEF Bijection, Injection, Surjection, IsInjective
  <2> QED BY <1>2, <2>1, Zenon DEF Sorts
<1>4. Sorts(r, k, N)
  <2> HIDE DEF k, N
  <2>1. \E q : Sorts(q, k, N)
    BY <1>1, <1>2, Sorting, Zenon
  <2> QED BY <2>1, <1>3 DEF Ascending
<1>5. u = [i \in 1..N |-> s[r[i]]]
  BY <1>1 DEF SortedItems
<1> HIDE DEF r, u
<1>6. \A i \in 1..N : r[i] \in 1..N /\ u[i] = s[r[i]] /\ u[i] \in Item /\ u[i].name = k[r[i]]
  <2>1. \A i \in 1..N : r[i] \in 1..N
    BY <1>4, SMTT(30) DEF Sorts
  <2> QED BY <2>1, <1>1, <1>5
<1> HIDE DEF k, s, N
<1>7. u \in [1..N -> Item]
  BY <1>5, <1>6
<1>8. u \in Seq(Item) /\ Len(u) = N
  <2> HIDE DEF Item
  <2> QED BY <1>1, <1>7, Listing
<1>9. Range(u) = Range(s)
  <2>1. ASSUME NEW i \in 1..N PROVE \E j \in 1..N : u[j] = s[i]
    <3>1. PICK j \in 1..N : r[j] = i
      BY <1>4 DEF Sorts
    <3> QED BY <3>1, <1>6
  <2>2. DOMAIN u = 1..N
    BY <1>7
  <2>3. \A i \in DOMAIN u : \E j \in DOMAIN s : u[i] = s[j]
    BY <2>2, <1>1, <1>6
  <2>4. \A i \in DOMAIN s : \E j \in DOMAIN u : u[j] = s[i]
    BY <2>1, <2>2, <1>1, Zenon
  <2> QED BY ONLY <2>3, <2>4 DEF Range
<1>10. \A i, j \in 1..N : i < j => u[i].name <= u[j].name
  BY <1>4, <1>6 DEF Sorts
<1> QED
  BY <1>8, <1>9, <1>10, ZenonT(40) DEF u, s

\* The entries named x of the directories D.
Into(D, x) ==
    UNION {IF d.mode = "dir" /\ d.oid \in DOMAIN Items
           THEN {[mode |-> i.mode, oid |-> i.oid] : i \in {y \in Range(Items[d.oid]) : y.name = x}}
           ELSE {} : d \in D}

Root(c) == {[mode |-> "dir", oid |-> TreeOf[c]]}

\* Lookup goes component by component.
LEMMA LookupWalk ==
  ASSUME NEW c, NEW S, NEW p \in Seq(S)
  PROVE  \E f : /\ f[0] = Root(c) /\ \A n \in 1..Len(p) : f[n] = Into(f[n - 1], p[n])
                /\ Lookup(c, p) = f[Len(p)]
<1> DEFINE N == Len(p)
           E == Root(c) \cup {[mode |-> i.mode, oid |-> i.oid] : i \in UNION {Range(Items[t]) : t \in DOMAIN Items}}
           V == SUBSET E
           a == Root(c)
           F == [n \in 1..N |-> [D \in V |-> Into(D, p[n])]]
           Def(f) == [n \in 0..N |-> IF n = 0 THEN a ELSE Into(f[n - 1], p[n])]
<1>1. N \in Nat
  OBVIOUS
<1>2. a \in V
  OBVIOUS
<1>3. \A D \in V : \A x : Into(D, x) \in V
  BY DEF Into
<1> HIDE DEF V, a
<1>4. F \in [1..N -> [V -> V]]
  BY <1>3
<1>5. \E f : f = Def(f)
  <2> HIDE DEF F, N
  <2>1. PICK f \in [0..N -> V] : f[0] = a /\ \A n \in 1..N : f[n] = F[n][f[n - 1]]
    <3>1. Defines(V, N, a, F)
      BY <1>1, <1>2, <1>4 DEF Defines
    <3> QED BY <3>1, Recursion
  <2>2. ASSUME NEW n \in 0..N PROVE f[n] = IF n = 0 THEN a ELSE Into(f[n - 1], p[n])
    <3>1. CASE n = 0
      BY <3>1, <2>1
    <3>2. CASE n # 0
      <4>1. n \in 1..N /\ n - 1 \in 0..N
        BY <1>1, <3>2
      <4>2. f[n - 1] \in V /\ f[n] = F[n][f[n - 1]]
        BY <2>1, <4>1
      <4> QED BY <3>2, <4>1, <4>2 DEF F
    <3> QED BY <3>1, <3>2
  <2>3. f = Def(f)
    BY <2>1, <2>2
  <2> QED BY <2>3, Zenon
<1> DEFINE g == CHOOSE f : f = Def(f)
<1>6. g = Def(g)
  BY <1>5, Zenon
<1>7. Lookup(c, p) = g[N]
  BY DEF Lookup, Into, Root, a
<1> HIDE DEF g
<1>8. g[0] = a
  BY <1>1, <1>6
<1>9. ASSUME NEW n \in 1..N PROVE g[n] = Into(g[n - 1], p[n])
  <2>1. n \in 0..N /\ n # 0
    BY <1>1
  <2> HIDE DEF N
  <2> QED BY <2>1, <1>6, Zenon
<1> QED
  BY <1>7, <1>8, <1>9 DEF a

\* The empty path is the commit's tree.
LEMMA LookupRoot ==
  ASSUME NEW c
  PROVE  Lookup(c, <<>>) = Root(c)
<1>1. <<>> \in Seq({}) /\ Len(<<>>) = 0
  OBVIOUS
<1> QED
  BY <1>1, LookupWalk, Zenon

\* One more component is looked up in the directories found so far.
LEMMA LookupStep ==
  ASSUME NEW c, NEW S, NEW p \in Seq(S), NEW x \in S
  PROVE  Lookup(c, Append(p, x)) = Into(Lookup(c, p), x)
<1> DEFINE q == Append(p, x)
           N == Len(p)
<1>1. q \in Seq(S) /\ Len(q) = N + 1 /\ q[N + 1] = x /\ (\A n \in 1..N : q[n] = p[n]) /\ N \in Nat
  OBVIOUS
<1> HIDE DEF q, N
<1>2. PICK f : f[0] = Root(c) /\ (\A n \in 1..N : f[n] = Into(f[n - 1], p[n])) /\ Lookup(c, p) = f[N]
  BY LookupWalk DEF N
<1>3. PICK g : /\ g[0] = Root(c) /\ \A n \in 1..(N + 1) : g[n] = Into(g[n - 1], q[n])
               /\ Lookup(c, q) = g[N + 1]
  <2> DEFINE M == Len(q)
  <2>1. M = N + 1
    BY <1>1
  <2>2. PICK g : /\ g[0] = Root(c) /\ \A n \in 1..M : g[n] = Into(g[n - 1], q[n])
                 /\ Lookup(c, q) = g[M]
    BY <1>1, LookupWalk, ZenonT(40)
  <2> HIDE DEF M
  <2>3. g[N + 1] = g[M] /\ 1..(N + 1) = 1..M
    BY <2>1
  <2> QED BY <2>2, <2>3, Zenon
<1> DEFINE T == {n \in 0..N : f[n] = g[n]}
<1>4. 0 \in T
  BY <1>1, <1>2, <1>3
<1>5. ASSUME NEW n \in 1..N, n - 1 \in T PROVE n \in T
  <2>1. n \in 0..N /\ n \in 1..(N + 1)
    BY <1>1
  <2>2. f[n] = Into(f[n - 1], p[n]) /\ g[n] = Into(g[n - 1], q[n]) /\ p[n] = q[n] /\ f[n - 1] = g[n - 1]
    BY <1>1, <1>2, <1>3, <1>5, <2>1
  <2> QED BY <2>1, <2>2
<1> HIDE DEF T
<1>6. N \in T
  BY <1>1, <1>4, <1>5, UpTo, N \in 0..N, Zenon
<1>7. f[N] = g[N]
  BY <1>6 DEF T
<1>8. g[N + 1] = Into(g[N], x)
  <2>1. PICK m \in 1..(N + 1) : m = N + 1 /\ m - 1 = N
    BY <1>1
  <2>2. g[m] = Into(g[m - 1], q[m])
    BY <1>3
  <2> QED BY <1>1, <2>1, <2>2
<1> QED
  BY <1>2, <1>3, <1>7, <1>8 DEF q

\* Names of tree entries are in byte order.
LEMMA NamesAreInts ==
  ASSUME TreeAssumption
  PROVE  Names \subseteq Int
<1> SUFFICES ASSUME NEW t \in DOMAIN Items, NEW i \in Range(Items[t]) PROVE i.name \in Int
  BY DEF Names
<1> DEFINE Item == [mode : Mode, name : Int, oid : Oid]
<1>1. Items[t] \in Seq(Item)
  BY Zenon DEF TreeAssumption
<1> HIDE DEF Item
<1>2. PICK k \in 1..Len(Items[t]) : i = Items[t][k]
  BY <1>1 DEF Range
<1>3. i \in Item
  BY <1>1, <1>2
<1> QED
  BY <1>3 DEF Item

\* The entries of tree t, as they come into the walk at path p.
Kids(t, p) ==
    [i \in DOMAIN SortedItems(t) |->
       [mode |-> SortedItems(t)[i].mode, path |-> Append(p, SortedItems(t)[i].name),
        oid |-> SortedItems(t)[i].oid]]

\* Each of them is an entry of the tree, at its name below p.
LEMMA KidsOfTree ==
  ASSUME TreeAssumption, NEW t \in DOMAIN Items, NEW p \in Seq(Names)
  PROVE  /\ Kids(t, p) \in Seq(Entry) /\ Len(Kids(t, p)) = Len(SortedItems(t))
         /\ Len(SortedItems(t)) \in Nat
         /\ \A i \in 1..Len(SortedItems(t)) :
              /\ SortedItems(t)[i] \in Range(Items[t]) /\ SortedItems(t)[i].name \in Names
              /\ Kids(t, p)[i] = [mode |-> SortedItems(t)[i].mode, oid |-> SortedItems(t)[i].oid,
                                  path |-> Append(p, SortedItems(t)[i].name)]
<1> DEFINE Item == [mode : Mode, name : Int, oid : Oid]
           s == SortedItems(t)
           n == Len(s)
           k(i) == [mode |-> s[i].mode, path |-> Append(p, s[i].name), oid |-> s[i].oid]
<1>1. s \in Seq(Item) /\ Range(s) = Range(Items[t])
  BY SortedByName, Zenon
<1>2. Kids(t, p) = [i \in DOMAIN s |-> k(i)]
  BY DEF Kids
<1> HIDE DEF s, Item
<1>3. n \in Nat /\ DOMAIN s = 1..n /\ \A i \in 1..n : s[i] \in Item
  BY <1>1
<1>4. \A i \in 1..n : s[i] \in Range(Items[t])
  BY <1>1, <1>3, Zenon DEF Range
<1>5. \A i \in 1..n : s[i].name \in Names
  BY <1>4 DEF Names
<1>6. ASSUME NEW i \in 1..n PROVE k(i) \in Entry
  <2>1. Append(p, s[i].name) \in Seq(Names)
    BY <1>5
  <2> QED BY <2>1, <1>3 DEF Entry, Item
<1> HIDE DEF k
<1>7. [i \in 1..n |-> k(i)] \in [1..n -> Entry]
  BY <1>6
<1> DEFINE f == [i \in 1..n |-> k(i)]
<1>8. \A i \in 1..n : f[i] = k(i)
  OBVIOUS
<1> HIDE DEF f, n
<1>9. f \in Seq(Entry) /\ Len(f) = n
  <2>1. f \in [1..n -> Entry]
    BY <1>7 DEF f
  <2> QED BY <1>3, <2>1, Listing
<1>10. Kids(t, p) = f
  BY <1>2, <1>3 DEF f
<1> QED
  BY <1>3, <1>4, <1>5, <1>8, <1>9, <1>10, Zenon DEF k, n, s

\* The walk after a tree has been entered.
LEMMA WalkEntered ==
  ASSUME TreeAssumption, NEW t \in DOMAIN Items, NEW p \in Seq(Names), walk \in Seq(Entry), Enter(t, p)
  PROVE  LET n == Len(SortedItems(t)) IN
         /\ n \in Nat
         /\ walk' \in Seq(Entry) /\ Len(walk') = n + Len(walk)
         /\ \A i \in 1..n : i \in 1..Len(walk') /\ walk'[i] = Kids(t, p)[i]
         /\ \A i \in 1..Len(walk) : n + i \in 1..Len(walk') /\ walk'[n + i] = walk[i]
         /\ \A i \in 1..Len(walk') : i \in 1..n \/ (\E j \in 1..Len(walk) : i = n + j)
<1> DEFINE n == Len(SortedItems(t))
           q == Kids(t, p)
<1>1. q \in Seq(Entry) /\ Len(q) = n /\ n \in Nat
  BY KidsOfTree, Zenon
<1>2. walk' = q \o walk
  BY Zenon DEF Enter, Kids
<1> HIDE DEF n, q
<1>3. walk' \in Seq(Entry) /\ Joins(q, walk, walk')
  BY <1>1, <1>2, Joined, Zenon
<1> QED
  BY <1>1, <1>3 DEF n, q, Joins

-----------------------------------------------------------------------------
(* What becomes of an object that has been read *)

\* Steps that leave the walk, the listing and what is wanted alone.
LEMMA ListedFrame ==
  ASSUME Listed, UNCHANGED <<options, commit, want, walk, paths, files>>,
         phase' \in Asking <=> phase \in Asking
  PROVE  Listed'
<1>1. Authentic'
  BY Zenon DEF Listed, Authentic, Entered, Inner, IsFile
<1>2. Doomed => Doomed'
  BY DEF Doomed
<1>3. Exhaustive => Exhaustive'
  BY DEF Exhaustive, Wanted, Settled, IsFile, Inner
<1>4. InPathOrder => InPathOrder'
  BY Zenon DEF InPathOrder
<1> QED
  BY <1>1, <1>2, <1>3, <1>4, Zenon DEF Listed

\* Steps that leave the links alone.
LEMMA InsideFrame ==
  ASSUME Inside, UNCHANGED <<commit, linkEntries, symlinks, following>>
  PROVE  Inside'
<1>1. Recorded'
  BY Zenon DEF Inside, Recorded
<1>2. Leading'
  BY DEF Inside, Leading, DirAt
<1>3. Led'
  BY DEF Inside, Led, DirAt
<1> QED
  BY <1>1, <1>2, <1>3 DEF Inside

\* Steps that leave all of it alone.
LEMMA WalksFrame ==
  ASSUME Walks, phase # "failed", phase' # "failed",
         UNCHANGED <<options, commit, want, walk, paths, files, linkEntries, symlinks, following>>,
         phase' \in Asking <=> phase \in Asking, phase' \in Unresolved <=> phase \in Unresolved
  PROVE  Walks'
<1>1. Fresh' <=> Fresh
  BY DEF Fresh
<1>2. CASE Fresh
  BY <1>1, <1>2 DEF Walks, Untouched
<1>3. CASE ~Fresh
  <2>1. Listed /\ Inside
    BY <1>3 DEF Walks, Listed
  <2>2. Listed' /\ Inside'
    BY <2>1, ListedFrame, InsideFrame
  <2> QED BY <1>1, <1>3, <2>2 DEF Walks, Listed
<1> QED
  BY <1>2, <1>3

\* A refused scan promises nothing.
LEMMA WalksFailed ==
  ASSUME phase' = "failed"
  PROVE  Walks'
  BY DEF Walks, Fresh, Unresolved, Asking

\* Binding the revision: nothing of the commit has been read yet.
LEMMA WalksBind ==
  ASSUME Walks, phase \in Unresolved, NEW c, Bind(c)
  PROVE  Walks'
<1>1. Untouched
  BY DEF Walks, Fresh
<1>2. Untouched' /\ Fresh'
  BY <1>1 DEF Untouched, Fresh, Bind, Want, Proceed, Asking
<1> QED
  BY <1>2 DEF Walks

\* The commit has been read, and its tree is wanted.
LEMMA WalksEnterCommit ==
  ASSUME TreeAssumption, Walks, Roams, UNCHANGED options, phase = "reading",
         Kind[want.oid] = "commit", EnterCommit(want.oid)
  PROVE  Walks' /\ Roams'
<1>1. phase = "reading" /\ want.what = "commit" /\ want.oid \in Oid
  BY DEF EnterCommit, Roams, Asking
<1>2. Untouched /\ want.oid = commit
  BY <1>1 DEF Walks, Fresh, Untouched, Asking
<1>3. /\ UNCHANGED <<commit, options, walk, paths, files, linkEntries, symlinks, following>>
      /\ want' = [what |-> "tree", path |-> <<>>, mode |-> "dir", oid |-> TreeOf[commit]]
      /\ phase' = "fetch"
  BY <1>1, <1>2, Zenon DEF EnterCommit, Want, Proceed
<1>4. walk' = <<>> /\ paths' = {} /\ files' = <<>> /\ linkEntries' = <<>> /\ symlinks' = <<>> /\ following' = None
  BY <1>2, <1>3, Zenon DEF Untouched
<1>5. Len(<<>>) = 0 /\ 1..0 = {} /\ DOMAIN <<>> = {}
  OBVIOUS
<1>6. Lookup(commit, <<>>) = {[mode |-> "dir", oid |-> TreeOf[commit]]}
  BY LookupRoot, Zenon DEF Root
<1>7. Authentic'
  BY <1>3, <1>4, <1>5, <1>6, SMTT(30) DEF Authentic, Inner
<1>8. Exhaustive'
  BY <1>3, <1>4, <1>5, <1>6, SMTT(30) DEF Exhaustive, Wanted, Asking
<1>9. InPathOrder'
  BY <1>4, <1>5, Zenon DEF InPathOrder
<1>10. Inside'
  BY <1>4, <1>5, Zenon DEF Inside, Recorded, Leading, Led
<1>12. Roams'
  BY <1>1, <1>2, <1>3, <1>4, Zenon DEF Roams, TreeAssumption
<1>11. ~Fresh'
  BY <1>3, Zenon DEF Fresh, Unresolved, Asking
<1> QED
  BY <1>7, <1>8, <1>9, <1>10, <1>11, <1>12, SMTT(30) DEF Walks

\* A file is listed.
LEMMA WalksListFile ==
  ASSUME TreeAssumption, Walks, Roams, UNCHANGED options, phase = "reading",
         Kind[want.oid] = "blob", ListFile(want.oid)
  PROVE  Walks' /\ Roams'
<1> DEFINE f == [path |-> want.path, mode |-> want.mode, body |-> want.oid]
           m == Len(files)
<1>1. phase = "reading" /\ want.what = "file" /\ want.oid \in Oid
  BY Zenon DEF ListFile, Roams, Asking
<1>2. /\ UNCHANGED <<commit, options, want, walk, paths, linkEntries, symlinks, following>>
      /\ files' = Append(files, f) /\ phase' = "walk"
  BY <1>1, Zenon DEF ListFile, Proceed
<1>3. ~Fresh /\ ~Fresh' /\ phase' \notin Asking /\ phase \in Asking
  BY <1>1, <1>2, Zenon DEF Fresh, Unresolved, Asking
<1>4. Authentic /\ Inside /\ (Doomed \/ (Exhaustive /\ InPathOrder))
  BY <1>1, <1>3, Zenon DEF Walks
<1>7. /\ want.path \in paths /\ IsFile(want.path, want)
      /\ [mode |-> want.mode, oid |-> want.oid] \in Lookup(commit, want.path)
  BY <1>1, <1>3, <1>4, Zenon DEF Authentic
<1>13. f \in FileRecord /\ files \in Seq(FileRecord)
  <2>1. want.path \in Seq(Names) /\ want.mode \in Mode /\ want.oid \in Oid
    BY <1>1, <1>3, <1>4, <1>7, Zenon DEF Authentic, IsFile, Mode
  <2> QED BY <2>1, <1>4, Zenon DEF FileRecord, Authentic
<1> HIDE DEF f
<1>14. files' \in Seq(FileRecord)
  BY <1>2, <1>13
<1>5. m \in Nat /\ Len(files') = m + 1 /\ files'[m + 1] = f /\ \A i \in 1..m : files'[i] = files[i]
  BY <1>2, <1>13
<1> HIDE DEF m
<1>6. \A i \in 1..Len(files') : i \in 1..m \/ i = m + 1
  BY <1>5
<1>8. Authentic'
  <2>1. ASSUME NEW i \in 1..Len(files')
        PROVE  /\ files'[i].path \in paths
               /\ [mode |-> files'[i].mode, oid |-> files'[i].body] \in Lookup(commit, files'[i].path)
               /\ IsFile(files'[i].path, files'[i])
    <3>1. CASE i \in 1..m
      BY <1>4, <1>5, <3>1, Zenon DEF Authentic, m
    <3>2. CASE i = m + 1
      <4>1. IsFile(f.path, f) /\ f.path = want.path /\ f.mode = want.mode /\ f.body = want.oid
        BY <1>7, Zenon DEF IsFile, f
      <4> QED BY <1>5, <1>7, <3>2, <4>1, Zenon
    <3> QED BY <1>6, <3>1, <3>2, Zenon
  <2> QED BY <1>2, <1>3, <1>4, <1>14, <2>1, ZenonT(40) DEF Authentic, IsFile, Entered, Inner
<1>9. Doomed => Doomed'
  BY <1>2, Zenon DEF Doomed
<1>10. Exhaustive => Exhaustive'
  <2> SUFFICES ASSUME Exhaustive, NEW p \in paths \cup {<<>>}, NEW e \in Lookup(commit, p)
               PROVE  Settled(p, e)'
    BY <1>2, Zenon DEF Exhaustive
  <2>1. CASE Wanted(p, e.mode, e.oid)
    <3>1. p = want.path /\ e.mode = want.mode /\ e.oid = want.oid /\ e.mode # "dir"
      BY <1>7, <2>1, Zenon DEF Wanted, IsFile
    <3>2. m + 1 \in 1..Len(files') /\ files'[m + 1] = [path |-> p, mode |-> e.mode, body |-> e.oid]
      BY <1>5, <3>1 DEF f
    <3> QED BY <3>1, <3>2, Zenon DEF Settled
  <2>2. CASE Settled(p, e)
    <3>1. \A i \in 1..Len(files) : i \in 1..Len(files') /\ files'[i] = files[i]
      BY <1>5, SMTT(30) DEF m
    <3> QED BY <1>2, <2>2, <3>1, Zenon DEF Settled, IsFile, Inner
  <2> QED BY <2>1, <2>2, Zenon DEF Exhaustive
<1>11. InPathOrder => InPathOrder'
  <2> HAVE InPathOrder
  <2>3. f.path = want.path
    BY Zenon DEF f
  <2>1. ASSUME NEW i \in 1..Len(files'), NEW n \in 1..Len(walk) PROVE Below(files'[i].path, walk[n].path)
    <3>1. CASE i \in 1..m
      BY <1>5, <3>1, Zenon DEF InPathOrder, m
    <3>2. CASE i = m + 1
      BY <1>3, <1>5, <2>3, <3>2, Zenon DEF InPathOrder
    <3> QED BY <1>6, <3>1, <3>2, Zenon
  <2>2. ASSUME NEW i \in 1..Len(files'), NEW j \in 1..Len(files'), i < j PROVE Below(files'[i].path, files'[j].path)
    <3>1. i \in 1..m
      BY <1>5, <2>2
    <3>2. CASE j \in 1..m
      BY <1>5, <2>2, <3>1, <3>2, Zenon DEF InPathOrder, m
    <3>3. CASE j = m + 1
      BY <1>3, <1>5, <2>3, <3>1, <3>3, Zenon DEF InPathOrder, m
    <3> QED BY <1>6, <3>2, <3>3, Zenon
  <2> QED BY <1>2, <1>3, <2>1, <2>2, Zenon DEF InPathOrder
<1>12. Inside'
  BY <1>2, <1>4, InsideFrame, Zenon
<1>15. Roams'
  BY <1>2, <1>3, Zenon DEF Roams
<1> QED
  BY <1>15, <1>3, <1>4, <1>8, <1>9, <1>10, <1>11, <1>12, Zenon DEF Walks

\* A link's target is kept for later.
LEMMA WalksKeepLink ==
  ASSUME TreeAssumption, Walks, Roams, UNCHANGED options, phase = "reading",
         Kind[want.oid] = "blob", KeepLink(want.oid)
  PROVE  Walks' /\ Roams'
<1> DEFINE v == [kind |-> "link", oid |-> want.oid, to |-> Target[want.oid]]
<1>1. phase = "reading" /\ want.what = "link" /\ want.oid \in Oid
  BY Zenon DEF KeepLink, Roams, Asking
<1>2. /\ UNCHANGED <<commit, options, want, walk, paths, files, symlinks, following>>
      /\ linkEntries' = Insert(linkEntries, want.path, v) /\ phase' = "walk"
  BY <1>1, Zenon DEF KeepLink, Proceed
<1>3. ~Fresh /\ ~Fresh' /\ phase' \notin Asking /\ phase \in Asking
  BY <1>1, <1>2, Zenon DEF Fresh, Unresolved, Asking
<1>4. Authentic /\ Inside /\ (Doomed \/ (Exhaustive /\ InPathOrder))
  BY <1>1, <1>3, Zenon DEF Walks
<1>5. want.path \in Seq(Names) /\ want.mode = "link"
  BY <1>1, <1>3, <1>4, Zenon DEF Authentic
<1>6. Authentic'
  BY <1>2, <1>3, <1>4, ZenonT(40) DEF Authentic, IsFile, Entered, Inner
<1>7. Doomed => Doomed'
  BY <1>2, Zenon DEF Doomed
<1>8. Exhaustive => Exhaustive'
  <2> SUFFICES ASSUME Exhaustive, NEW p \in paths \cup {<<>>}, NEW e \in Lookup(commit, p)
               PROVE  Settled(p, e)'
    BY <1>2, ZenonT(40) DEF Exhaustive
  <2>1. CASE Wanted(p, e.mode, e.oid)
    BY <1>5, <2>1, Zenon DEF Wanted, Settled, IsFile
  <2>2. CASE Settled(p, e)
    BY <1>2, <2>2, ZenonT(40) DEF Settled, IsFile, Inner
  <2> QED BY <2>1, <2>2 DEF Exhaustive
<1>9. InPathOrder => InPathOrder'
  BY <1>2, <1>3, Zenon DEF InPathOrder
<1>10. Inside'
  <2>1. Target[want.oid] \in Goal
    BY <1>1, Zenon DEF TreeAssumption, Goal
  <2>2. ASSUME NEW p \in DOMAIN linkEntries'
        PROVE  \/ p = want.path /\ linkEntries'[p] = v
               \/ p \in DOMAIN linkEntries /\ linkEntries'[p] = linkEntries[p]
    BY <1>2, Zenon DEF Insert
  <2> HIDE DEF v
  <2>3. v.kind = "link" /\ v.to \in Goal
    BY <2>1, Zenon DEF v
  <2>4. ASSUME NEW p \in DOMAIN linkEntries'
        PROVE  /\ p \in Seq(Names)
               /\ linkEntries'[p].kind = "dir" =>
                    \E e \in Lookup(commit, p) : e.mode = "dir" /\ e.oid = linkEntries'[p].oid
               /\ linkEntries'[p].kind = "file" =>
                    \E e \in Lookup(commit, p) : e.mode \in {"file", "exec"} /\ e.oid = linkEntries'[p].oid
               /\ linkEntries'[p].kind = "link" => linkEntries'[p].to \in Goal
    <3>1. CASE p = want.path /\ linkEntries'[p] = v
      BY <1>5, <2>3, <3>1, Zenon
    <3>2. CASE p \in DOMAIN linkEntries /\ linkEntries'[p] = linkEntries[p]
      BY <1>4, <3>2, ZenonT(40) DEF Inside, Recorded
    <3> QED BY <2>2, <3>1, <3>2, Zenon
  <2>5. Recorded'
    BY <1>2, <2>4, Zenon DEF Recorded
  <2>6. Leading' /\ Led'
    BY <1>2, <1>4, ZenonT(40) DEF Inside, Leading, Led, DirAt
  <2> QED BY <2>5, <2>6, Zenon DEF Inside
<1>11. Roams'
  BY <1>2, <1>3, Zenon DEF Roams
<1> QED
  BY <1>11, <1>3, <1>4, <1>6, <1>7, <1>8, <1>9, <1>10, SMTT(30) DEF Walks

\* The entries of a directory come into the walk.
LEMMA WalksEnterTree ==
  ASSUME TreeAssumption, Walks, Roams, UNCHANGED options, phase = "reading",
         Kind[want.oid] = "tree", EnterTree(want.oid)
  PROVE  Walks' /\ Roams'
<1> DEFINE t == want.oid
           p == want.path
           s == SortedItems(t)
           n == Len(s)
<1>1. phase = "reading" /\ want.what = "tree" /\ want.oid \in Oid
  BY Zenon DEF EnterTree, Roams, Asking
<1>2. /\ UNCHANGED <<commit, options, want, paths, files, linkEntries, symlinks, following>>
      /\ Enter(t, p) /\ phase' = "walk"
  BY <1>1, Zenon DEF EnterTree, Proceed
<1>3. ~Fresh /\ ~Fresh' /\ phase' \notin Asking /\ phase \in Asking
  BY <1>1, <1>2, Zenon DEF Fresh, Unresolved, Asking
<1>4. Authentic /\ Inside /\ (Doomed \/ (Exhaustive /\ InPathOrder))
  BY <1>1, <1>3, Zenon DEF Walks
<1>5. t \in DOMAIN Items
  BY <1>1, Zenon DEF TreeAssumption
<1>6. /\ p \in paths \cup {<<>>} /\ want.mode = "dir" /\ Inner(p)
      /\ [mode |-> "dir", oid |-> t] \in Lookup(commit, p)
  BY <1>1, <1>3, <1>4, ZenonT(40) DEF Authentic
<1>7. p \in Seq(Names) /\ p \in Seq(Int) /\ Names \subseteq Int
  <2>1. p \in Seq(Names)
    <3>1. paths \subseteq Seq(Names)
      BY <1>4, Zenon DEF Authentic
    <3>2. <<>> \in Seq(Names)
      OBVIOUS
    <3>3. p \in paths \/ p = <<>>
      BY <1>6, Zenon
    <3> HIDE DEF p
    <3> QED BY <3>1, <3>2, <3>3, Zenon
  <2> QED BY <2>1, NamesAreInts, Widen, Zenon
<1>8. walk \in Seq(Entry)
  BY DEF Roams
<1>20. p = want.path /\ t = want.oid
  OBVIOUS
<1> HIDE DEF p, t
<1>9. /\ n \in Nat
      /\ \A i \in 1..n : /\ s[i] \in Range(Items[t]) /\ s[i].name \in Names
                         /\ Kids(t, p)[i] = [mode |-> s[i].mode, oid |-> s[i].oid, path |-> Append(p, s[i].name)]
  BY <1>5, <1>7, KidsOfTree, ZenonT(40)
<1>10. /\ walk' \in Seq(Entry) /\ Len(walk') = n + Len(walk)
       /\ \A i \in 1..n : i \in 1..Len(walk') /\ walk'[i] = Kids(t, p)[i]
       /\ \A i \in 1..Len(walk) : n + i \in 1..Len(walk') /\ walk'[n + i] = walk[i]
       /\ \A i \in 1..Len(walk') : i \in 1..n \/ (\E j \in 1..Len(walk) : i = n + j)
  BY <1>2, <1>5, <1>7, <1>8, WalkEntered, Zenon
<1>11. Range(s) = Range(Items[t]) /\ \A i, j \in 1..n : i < j => s[i].name <= s[j].name
  BY <1>5, SortedByName, ZenonT(40)
<1>12. DOMAIN s = 1..n
  BY <1>5, SortedByName, SMTT(30)
<1> HIDE DEF s, n
<1> DEFINE q(i) == Append(p, s[i].name)
<1>13. ASSUME NEW i \in 1..n
       PROVE  /\ walk'[i].path = q(i) /\ walk'[i].mode = s[i].mode /\ walk'[i].oid = s[i].oid
              /\ q(i) \in Seq(Names) /\ q(i) # <<>> /\ Front(q(i)) = p /\ s[i].name \in Int
              /\ p # <<>> => q(i)[1] = p[1]
              /\ p = <<>> => q(i) = <<s[i].name>>
  <2>1. s[i].name \in Names /\ s[i].name \in Int
    BY <1>7, <1>9, Zenon
  <2>2. walk'[i] = [mode |-> s[i].mode, oid |-> s[i].oid, path |-> q(i)]
    BY <1>9, <1>10, Zenon
  <2>3. /\ q(i) \in Seq(Names) /\ q(i) # <<>> /\ Front(q(i)) = p
        /\ p # <<>> => q(i)[1] = p[1]
        /\ p = <<>> => q(i) = <<s[i].name>>
    BY <1>7, <2>1, Child, ZenonT(40)
  <2> HIDE DEF q
  <2> QED BY <2>1, <2>2, <2>3
<1>14. ASSUME NEW i \in 1..n
       PROVE  [mode |-> s[i].mode, oid |-> s[i].oid] \in Lookup(commit, q(i))
  <2>1. Lookup(commit, q(i)) = Into(Lookup(commit, p), s[i].name)
    <3>1. s[i].name \in Names
      BY <1>9, Zenon
    <3> QED BY <1>7, <3>1, LookupStep
  <2> DEFINE d == [mode |-> "dir", oid |-> t]
  <2>2. d \in Lookup(commit, p) /\ d.mode = "dir" /\ d.oid \in DOMAIN Items /\ d.oid = t
    BY <1>5, <1>6, Zenon
  <2>3. s[i] \in {y \in Range(Items[d.oid]) : y.name = s[i].name}
    BY <1>9, Zenon
  <2> HIDE DEF d
  <2> QED BY <2>1, <2>2, <2>3, SMTT(30) DEF Into
<1> HIDE DEF q
<1>15. Authentic'
  <2> SUFFICES ASSUME NEW k \in 1..Len(walk')
               PROVE  /\ walk'[k].path # <<>> /\ Entered(walk'[k].path)
                      /\ Front(walk'[k].path) \in paths \cup {<<>>}
                      /\ [mode |-> walk'[k].mode, oid |-> walk'[k].oid] \in Lookup(commit, walk'[k].path)
    BY <1>2, <1>3, <1>4, ZenonT(40) DEF Authentic, IsFile, Entered, Inner
  <2>1. CASE k \in 1..n
    <3>1. Entered(q(k))
      <4>1. CASE p = <<>>
        <5>1. q(k) = <<s[k].name>> /\ q(k)[1] = s[k].name
          BY <1>13, <2>1, <4>1, SMTT(30)
        <5> QED BY <5>1, Zenon DEF Entered, Inner
      <4>2. CASE p # <<>>
        BY <1>6, <1>13, <2>1, <4>2, Zenon DEF Entered, Inner
      <4> QED BY <4>1, <4>2, Zenon
    <3> QED BY <1>6, <1>13, <1>14, <2>1, <3>1, ZenonT(40)
  <2>2. ASSUME NEW j \in 1..Len(walk), k = n + j PROVE walk'[k] = walk[j]
    BY <1>10, <2>2, Zenon
  <2>3. ASSUME NEW j \in 1..Len(walk), k = n + j
        PROVE  /\ walk'[k].path # <<>> /\ Entered(walk'[k].path)
               /\ Front(walk'[k].path) \in paths \cup {<<>>}
               /\ [mode |-> walk'[k].mode, oid |-> walk'[k].oid] \in Lookup(commit, walk'[k].path)
    <3>1. walk'[k] = walk[j]
      BY <2>2, <2>3, Zenon
    <3> QED BY <1>4, <3>1, Zenon DEF Authentic
  <2> QED BY <1>10, <2>1, <2>3, ZenonT(40)
<1>16. Doomed => Doomed'
  BY <1>2, <1>10, Zenon DEF Doomed
<1>17. Exhaustive => Exhaustive'
  <2> SUFFICES ASSUME Exhaustive, NEW r \in paths \cup {<<>>}, NEW e \in Lookup(commit, r)
               PROVE  Settled(r, e)'
    BY <1>2, Zenon DEF Exhaustive
  <2>1. CASE Wanted(r, e.mode, e.oid)
    <3>1. r = p /\ e.mode = "dir" /\ e.oid = t
      BY <1>6, <1>20, <2>1, Zenon DEF Wanted
    <3>2. ASSUME NEW i \in Range(Items[t])
          PROVE  \E m \in 1..Len(walk') : walk'[m] = [mode |-> i.mode, path |-> Append(p, i.name), oid |-> i.oid]
      <4>1. PICK m \in 1..n : s[m] = i
        <5>1. i \in Range(s)
          BY <1>11, Zenon
        <5> QED BY <1>12, <5>1, Zenon DEF Range
      <4>2. m \in 1..Len(walk') /\ walk'[m] = [mode |-> i.mode, path |-> Append(p, i.name), oid |-> i.oid]
        BY <1>9, <1>10, <4>1, Zenon
      <4> QED BY <4>2, Zenon
    <3>3. ~IsFile(r, e)'
      BY <3>1, Zenon DEF IsFile
    <3> QED BY <1>5, <3>1, <3>2, <3>3, Zenon DEF Settled
  <2>2. CASE Settled(r, e)
    <3>1. ASSUME NEW x, NEW m \in 1..Len(walk), walk[m] = x PROVE \E k \in 1..Len(walk') : walk'[k] = x
      BY <1>10, <3>1, ZenonT(40)
    <3> QED BY <1>2, <2>2, <3>1, ZenonT(40) DEF Settled, IsFile, Inner
  <2> QED BY <2>1, <2>2, Zenon DEF Exhaustive
<1>18. InPathOrder => InPathOrder'
  <2> HAVE InPathOrder
  <2>1. \A m \in 1..Len(walk) : walk[m].path \in Seq(Int)
    <3> SUFFICES ASSUME NEW m \in 1..Len(walk) PROVE walk[m].path \in Seq(Int)
      BY Zenon
    <3>1. walk[m] \in Entry
      BY <1>8
    <3>2. walk[m].path \in Seq(Names)
      BY <3>1, Zenon DEF Entry
    <3> QED BY <3>2, <1>7, Widen, Zenon
  <2>2. \A m \in 1..Len(files) : files[m].path \in Seq(Int)
    <3> SUFFICES ASSUME NEW m \in 1..Len(files) PROVE files[m].path \in Seq(Int)
      OBVIOUS
    <3>1. files \in Seq(FileRecord)
      BY <1>4, Zenon DEF Authentic
    <3>2. files[m] \in FileRecord
      BY <3>1
    <3>3. files[m].path \in Seq(Names)
      BY <3>2, Zenon DEF FileRecord
    <3> QED BY <3>3, <1>7, Widen, ZenonT(40)
  <2>3. ASSUME NEW i \in 1..n, NEW j \in 1..n, i < j
        PROVE  q(i) = q(j) \/ Below(q(i), q(j))
    <3>1. s[i].name \in Int /\ s[j].name \in Int /\ s[i].name <= s[j].name
      BY <1>11, <1>13, <2>3, Zenon
    <3>2. CASE s[i].name = s[j].name
      BY <3>2, Zenon DEF q
    <3>3. CASE s[i].name < s[j].name
      BY <1>7, <3>1, <3>3, BelowKids, Zenon DEF q
    <3> QED BY <3>1, <3>2, <3>3, SMTT(30)
  <2>4. ASSUME NEW i \in 1..n, NEW m \in 1..Len(walk) PROVE Below(q(i), walk[m].path)
    <3>1. Below(p, walk[m].path) /\ walk[m].path \in Seq(Int) /\ s[i].name \in Int
      BY <1>3, <1>13, <1>20, <2>1, Zenon DEF InPathOrder
    <3> QED BY <1>7, <3>1, BelowLeft, Zenon DEF q
  <2>5. ASSUME NEW i \in 1..n, NEW m \in 1..Len(files) PROVE Below(files[m].path, q(i))
    <3>1. Below(files[m].path, p) /\ files[m].path \in Seq(Int) /\ s[i].name \in Int
      BY <1>3, <1>13, <1>20, <2>2, Zenon DEF InPathOrder
    <3> QED BY <1>7, <3>1, BelowRight, Zenon DEF q
  <2>6. ASSUME NEW m \in 1..Len(walk'), NEW k \in 1..Len(walk'), m < k
        PROVE  walk'[m].path = walk'[k].path \/ Below(walk'[m].path, walk'[k].path)
    <3>1. CASE m \in 1..n /\ k \in 1..n
      BY <1>13, <2>3, <2>6, <3>1, Zenon
    <3>2. ASSUME m \in 1..n, NEW j \in 1..Len(walk), k = n + j PROVE Below(walk'[m].path, walk'[k].path)
      BY <1>10, <1>13, <2>4, <3>2, ZenonT(40)
    <3>3. ASSUME NEW i \in 1..Len(walk), m = n + i, NEW j \in 1..Len(walk), k = n + j
          PROVE  walk'[m].path = walk'[k].path \/ Below(walk'[m].path, walk'[k].path)
      <4>1. i < j
        BY <1>9, <2>6, <3>3
      <4>2. walk'[m] = walk[i] /\ walk'[k] = walk[j]
        BY <1>10, <3>3, Zenon
      <4> QED BY <4>1, <4>2, ZenonT(40) DEF InPathOrder
    <3>4. ~(k \in 1..n /\ \E i \in 1..Len(walk) : m = n + i)
      BY <1>9, <2>6, SMTT(30)
    <3> QED BY <1>10, <3>1, <3>2, <3>3, <3>4, Zenon
  <2>7. ASSUME NEW i \in 1..Len(files), NEW m \in 1..Len(walk') PROVE Below(files[i].path, walk'[m].path)
    <3>1. CASE m \in 1..n
      BY <1>13, <2>5, <3>1, Zenon
    <3>2. ASSUME NEW j \in 1..Len(walk), m = n + j PROVE Below(files[i].path, walk'[m].path)
      BY <1>10, <3>2, Zenon DEF InPathOrder
    <3> QED BY <1>10, <3>1, <3>2, Zenon
  <2> QED BY <1>2, <1>3, <2>6, <2>7, Zenon DEF InPathOrder
<1>19. Inside'
  BY <1>2, <1>4, InsideFrame, Zenon
<1>21. Roams'
  BY <1>3, <1>10, Zenon DEF Roams
<1> QED
  BY <1>21, <1>3, <1>4, <1>15, <1>16, <1>17, <1>18, <1>19, Zenon DEF Walks

-----------------------------------------------------------------------------
(* The entries of a tree, and the links *)

\* The policy that an entry has passed.
LEMMA Allowed ==
  ASSUME TreeAssumption, NEW i, EntryError(i) = {}, i.mode \in Mode, i.path \in Seq(Names)
  PROVE  /\ i.path \notin paths /\ Len(i.path) <= MaxPathDepth
         /\ \/ options.boundaries /\ i.path = <<GitModules>> /\ i.mode # "file"
            \/ i.mode \in {"file", "exec", "dir", "link"}
            \/ i.mode = "gitlink"
<1> DEFINE regular == i.mode \in {"file", "exec"}
           declared == options.boundaries /\ i.path = <<GitModules>> /\ i.mode # "file"
<1>1. Last(i.path) \notin {Dot, DotDot} /\ Len(i.path) <= MaxPathDepth
  <2>3. Len(i.path) \in Nat /\ MaxPathDepth \in Nat
    BY DEF TreeAssumption
  <2>1. ASSUME Last(i.path) \in {Dot, DotDot} PROVE EntryError(i) = {"path"}
    BY <2>1 DEF EntryError
  <2>2. ASSUME Last(i.path) \notin {Dot, DotDot}, Len(i.path) > MaxPathDepth PROVE EntryError(i) = {"limit"}
    BY <2>2, <2>3 DEF EntryError
  <2> QED BY <2>1, <2>2, <2>3
<1>2. {} = IF ~declared /\ \/ i.mode = "other"
                           \/ i.mode = "link" /\ ~options.links
                           \/ i.mode = "gitlink" /\ ~options.boundaries
            THEN {"policy"}
            ELSE IF Cardinality(paths) + 1 > MaxEntries THEN {"limit"}
            ELSE IF i.path \in paths THEN {"inconsistent"}
            ELSE IF regular /\ ~declared /\ Len(files) + 1 > MaxFiles THEN {"limit"}
            ELSE IF i.mode = "gitlink" /\ Len(gitlinks) + 1 > MaxGitlinks THEN {"limit"}
            ELSE {}
  BY <1>1, Zenon DEF EntryError
<1> QED
  BY <1>1, <1>2, Zenon DEF Mode

\* The next entry of the walk is visited.
LEMMA WalksVisitEntry ==
  ASSUME TreeAssumption, Walks, Roams, UNCHANGED options, VisitEntry
  PROVE  Walks' /\ Roams'
<1>18. PICK i : i = Head(walk)
  OBVIOUS
<1> DEFINE p == i.path
           e == [mode |-> i.mode, oid |-> i.oid]
           declared == options.boundaries /\ p = <<GitModules>> /\ i.mode # "file"
           what == CASE i.mode = "dir" -> "tree" [] i.mode = "link" -> "link" [] OTHER -> "file"
<1>1. /\ phase = "walk" /\ walk # <<>> /\ EntryError(i) = {} /\ walk' = Tail(walk) /\ paths' = paths \cup {p}
      /\ linkEntries' = (IF declared THEN linkEntries ELSE WithLinkEntry(i))
      /\ UNCHANGED <<commit, options, files, symlinks, following>>
  BY <1>18 DEF VisitEntry
<1>2. IF declared \/ i.mode = "gitlink" THEN phase' = "walk" /\ want' = want
      ELSE phase' = "fetch" /\ want' = [what |-> what, path |-> p, mode |-> i.mode, oid |-> i.oid]
  BY <1>18, Zenon DEF VisitEntry, Want, Proceed
<1>3. walk \in Seq(Entry)
  BY Zenon DEF Roams
<1>4. /\ i = walk[1] /\ i \in Entry /\ 1 \in 1..Len(walk) /\ Len(walk') = Len(walk) - 1
      /\ \A n \in 1..Len(walk') : n + 1 \in 1..Len(walk) /\ walk'[n] = walk[n + 1]
      /\ \A n \in 1..Len(walk) : n = 1 \/ (n - 1 \in 1..Len(walk') /\ walk'[n - 1] = walk[n])
  BY <1>1, <1>3, <1>18, TailOf, ZenonT(40)
<1>5. ~Fresh
  BY <1>1, Zenon DEF Fresh, Unresolved, Asking
<1>6. Authentic /\ Inside /\ (Doomed \/ (Exhaustive /\ InPathOrder)) /\ phase \notin Asking
  BY <1>1, <1>5, Zenon DEF Walks, Asking
<1>7. p \in Seq(Names) /\ i.oid \in Oid /\ i.mode \in Mode
  BY <1>4, Zenon DEF Entry
<1>8. /\ p \notin paths /\ Len(p) <= MaxPathDepth
      /\ declared \/ i.mode \in {"file", "exec", "dir", "link"} \/ i.mode = "gitlink"
  BY <1>1, <1>7, Allowed, ZenonT(40)
<1>9. p # <<>> /\ Entered(p) /\ Front(p) \in paths \cup {<<>>} /\ e \in Lookup(commit, p)
  BY <1>4, <1>6, Zenon DEF Authentic
<1>10. /\ ~declared /\ i.mode = "dir" => Inner(p)
       /\ ~declared /\ i.mode \in {"file", "exec"} => IsFile(p, e)
       /\ declared => ~Inner(p) /\ ~IsFile(p, e)
  <2>1. p = <<GitModules>> => p # <<>> /\ p[1] = GitModules
    OBVIOUS
  <2>2. e.mode = i.mode
    BY Zenon
  <2> HIDE DEF p, e
  <2>3. ~declared /\ i.mode = "dir" => Inner(p)
    BY <1>9, <2>1, Zenon DEF Entered, Inner
  <2>4. ~declared /\ i.mode \in {"file", "exec"} => IsFile(p, e)
    BY <1>9, <2>1, <2>2, Zenon DEF Entered, Inner, IsFile
  <2>5. declared => ~Inner(p) /\ ~IsFile(p, e)
    BY <2>1, <2>2, Zenon DEF Inner, IsFile
  <2> QED BY <2>3, <2>4, <2>5, Zenon
<1> HIDE DEF declared
<1>11. what = IF i.mode = "dir" THEN "tree" ELSE IF i.mode = "link" THEN "link" ELSE "file"
  OBVIOUS
<1> HIDE DEF what
<1>12. ~Fresh' /\ phase' # "failed"
  BY <1>2, <1>11 DEF Fresh, Unresolved, Asking
<1>19. Roams'
  <2>1. walk' \in Seq(Entry)
    BY <1>1, <1>3
  <2>2. phase' \in Asking => want'.oid = i.oid
    BY <1>2 DEF Asking
  <2> QED BY <1>7, <2>1, <2>2, Zenon DEF Roams
<1>13. Authentic'
  <2>1. ASSUME NEW n \in 1..Len(walk')
        PROVE  /\ walk'[n].path # <<>> /\ Entered(walk'[n].path)
               /\ Front(walk'[n].path) \in paths' \cup {<<>>}
               /\ [mode |-> walk'[n].mode, oid |-> walk'[n].oid] \in Lookup(commit, walk'[n].path)
    <3>1. PICK m \in 1..Len(walk) : m = n + 1 /\ walk'[n] = walk[m]
      BY <1>4, ZenonT(40)
    <3> QED BY <1>1, <1>6, <3>1, ZenonT(40) DEF Authentic
  <2>2. ASSUME phase' \in Asking
        PROVE  /\ want'.path \in paths' /\ [mode |-> want'.mode, oid |-> want'.oid] \in Lookup(commit, want'.path)
               /\ want'.what = "tree" => want'.mode = "dir" /\ Inner(want'.path)
               /\ want'.what = "file" => IsFile(want'.path, want')
               /\ want'.what = "link" => want'.mode = "link"
               /\ want'.what \in {"tree", "file", "link"}
    <3>1. ~declared /\ i.mode # "gitlink" /\ want' = [what |-> what, path |-> p, mode |-> i.mode, oid |-> i.oid]
      BY <1>2, <2>2, ZenonT(40) DEF Asking
    <3>2. want'.what = what /\ want'.path = p /\ want'.mode = i.mode /\ want'.oid = i.oid
      BY <3>1, Zenon
    <3>3. i.mode \in {"file", "exec", "dir", "link"}
      BY <1>8, <3>1, Zenon
    <3>4. IsFile(p, e) => IsFile(want'.path, want')
      BY <3>2, Zenon DEF IsFile
    <3> HIDE DEF p
    <3> QED BY <1>1, <1>9, <1>10, <1>11, <3>1, <3>2, <3>3, <3>4, ZenonT(40)
  <2>3. paths' \subseteq Seq(Names) \ {<<>>} /\ \A r \in paths' : Len(r) <= MaxPathDepth
    BY <1>1, <1>6, <1>7, <1>8, <1>9, ZenonT(40) DEF Authentic
  <2> QED BY <1>1, <1>6, <2>1, <2>2, <2>3, ZenonT(40) DEF Authentic, IsFile, Entered, Inner
<1>14. Inside'
  <2> DEFINE v == [kind |-> IF i.mode \in {"file", "exec"} THEN "file" ELSE i.mode, oid |-> i.oid]
  <2>1. /\ v.kind = "dir" => e.mode = "dir" /\ e.oid = v.oid
        /\ v.kind = "file" => declared \/ (e.mode \in {"file", "exec"} /\ e.oid = v.oid)
        /\ v.kind = "link" => i.mode = "link"
    BY <1>8, Zenon
  <2>2. linkEntries' = linkEntries \/ (linkEntries' = Insert(linkEntries, p, v) /\ ~declared /\ i.mode # "link")
    BY <1>1, Zenon DEF WithLinkEntry
  <2> HIDE DEF v, p, e
  <2>3. CASE linkEntries' = linkEntries
    BY <1>1, <1>6, <2>3, InsideFrame, Zenon
  <2>4. CASE linkEntries' = Insert(linkEntries, p, v) /\ ~declared /\ i.mode # "link"
    <3>1. ASSUME NEW r \in DOMAIN linkEntries'
          PROVE  (r = p /\ linkEntries'[r] = v) \/ (r \in DOMAIN linkEntries /\ linkEntries'[r] = linkEntries[r])
      BY <2>4, Zenon DEF Insert
    <3>2. ASSUME NEW r \in DOMAIN linkEntries'
          PROVE  /\ r \in Seq(Names)
                 /\ linkEntries'[r].kind = "dir" =>
                      \E d \in Lookup(commit, r) : d.mode = "dir" /\ d.oid = linkEntries'[r].oid
                 /\ linkEntries'[r].kind = "file" =>
                      \E d \in Lookup(commit, r) : d.mode \in {"file", "exec"} /\ d.oid = linkEntries'[r].oid
                 /\ linkEntries'[r].kind = "link" => linkEntries'[r].to \in Goal
      <4>1. CASE r = p /\ linkEntries'[r] = v
        BY <1>7, <1>9, <2>1, <2>4, <4>1, ZenonT(40) DEF p
      <4>2. CASE r \in DOMAIN linkEntries /\ linkEntries'[r] = linkEntries[r]
        BY <1>6, <4>2, ZenonT(40) DEF Inside, Recorded
      <4> QED BY <3>1, <4>1, <4>2, ZenonT(40)
    <3>3. Recorded'
      BY <1>1, <3>2, Zenon DEF Recorded
    <3>4. Leading' /\ Led'
      BY <1>1, <1>6, ZenonT(40) DEF Inside, Leading, Led, DirAt
    <3> QED BY <3>3, <3>4 DEF Inside
  <2> QED BY <2>2, <2>3, <2>4, Zenon
<1>15. CASE Doomed
  <2>1. PICK n \in 1..Len(walk) : walk[n].path \in paths
    BY <1>15 DEF Doomed
  <2>2. n # 1
    BY <1>4, <1>8, <2>1, Zenon
  <2>3. n - 1 \in 1..Len(walk') /\ walk'[n - 1].path \in paths'
    BY <1>1, <1>4, <2>1, <2>2, Zenon
  <2>4. Doomed'
    BY <2>3 DEF Doomed
  <2> QED BY <1>19, <1>12, <1>13, <1>14, <2>4, Zenon DEF Walks
<1>16. CASE ~Doomed /\ ~Doomed'
  <2>1. Exhaustive /\ InPathOrder
    BY <1>6, <1>16
  <2>2. ASSUME NEW n \in 1..Len(walk), walk[n].path = p PROVE n = 1
    <3> SUFFICES ASSUME n # 1 PROVE FALSE
      OBVIOUS
    <3>1. PICK m \in 1..Len(walk') : walk'[m] = walk[n]
      BY <1>4, Zenon
    <3>2. walk'[m].path \in paths'
      BY <1>1, <2>2, <3>1, Zenon
    <3> QED BY <1>16, <3>2, Zenon DEF Doomed
  <2>3. ASSUME NEW r, NEW d, Settled(r, d) PROVE Settled(r, d)'
    <3>1. ASSUME NEW y, NEW n \in 1..Len(walk), walk[n] = [mode |-> y.mode, path |-> Append(r, y.name), oid |-> y.oid]
          PROVE  \/ Append(r, y.name) \in paths'
                 \/ \E m \in 1..Len(walk') : walk'[m] = [mode |-> y.mode, path |-> Append(r, y.name), oid |-> y.oid]
      <4>1. CASE n = 1
        BY <1>1, <1>4, <3>1, <4>1
      <4>2. CASE n # 1
        BY <1>4, <3>1, <4>2, ZenonT(40)
      <4> QED BY <4>1, <4>2, Zenon
    <3>2. paths \subseteq paths'
      BY <1>1, Zenon
    <3> QED BY <1>1, <2>3, <3>1, <3>2, ZenonT(40) DEF Settled, IsFile, Inner
  <2>4. ASSUME NEW d \in Lookup(commit, p) PROVE d = e
    <3> DEFINE r == Front(p)
               x == Last(p)
    <3>1. r \in Seq(Names) /\ x \in Names /\ p = Append(r, x) /\ (r # <<>> => r[1] = p[1])
      BY <1>7, <1>9, Parent, ZenonT(40)
    <3>2. Inner(r)
      <4>1. CASE r = <<>>
        BY <4>1, Zenon DEF Inner
      <4>2. CASE r # <<>>
        <5>1. r[1] = p[1]
          BY <3>1, <4>2, Zenon
        <5>2. p # <<GitModules>>
          <6>1. Len(r) \in Nat \ {0} /\ Len(p) = Len(r) + 1
            BY <3>1, <4>2
          <6>2. Len(<<GitModules>>) = 1
            OBVIOUS
          <6>3. Len(p) # 1
            BY <6>1
          <6> HIDE DEF p
          <6> QED BY <6>2, <6>3, Zenon
        <5> QED BY <1>9, <4>2, <5>1, <5>2, Zenon DEF Entered, Inner
      <4> QED BY <4>1, <4>2, Zenon
    <3> HIDE DEF r, x
    <3>3. Lookup(commit, p) = Into(Lookup(commit, r), x)
      BY <3>1, LookupStep, SMTT(30)
    <3>4. PICK g \in Lookup(commit, r) : /\ g.mode = "dir" /\ g.oid \in DOMAIN Items
                                         /\ \E y \in Range(Items[g.oid]) : y.name = x /\ d = [mode |-> y.mode, oid |-> y.oid]
      BY <2>4, <3>3, Zenon DEF Into
    <3>5. PICK y \in Range(Items[g.oid]) : y.name = x /\ d = [mode |-> y.mode, oid |-> y.oid]
      BY <3>4, Zenon
    <3>6. Settled(r, g)
      BY <1>6, <1>9, <2>1, ZenonT(40) DEF Exhaustive, Wanted, r
    <3>7. PICK n \in 1..Len(walk) : walk[n] = [mode |-> y.mode, path |-> Append(r, y.name), oid |-> y.oid]
      <4>1. Append(r, y.name) \notin paths
        BY <1>8, <3>1, <3>5, ZenonT(40)
      <4> QED BY <3>2, <3>4, <3>6, <4>1, ZenonT(40) DEF Settled
    <3>8. n = 1
      <4>1. walk[n].path = Append(r, y.name)
        BY <3>7, SMTT(30)
      <4>2. Append(r, y.name) = p
        BY <3>1, <3>5, Zenon
      <4> QED BY <2>2, <4>1, <4>2, Zenon
    <3>9. i.mode = y.mode /\ i.oid = y.oid
      <4>1. i = [mode |-> y.mode, path |-> Append(r, y.name), oid |-> y.oid]
        BY <1>4, <3>7, <3>8, Zenon
      <4> QED BY <4>1, ZenonT(40)
    <3> QED BY <3>5, <3>9, ZenonT(40)
  <2>5. Wanted(p, e.mode, e.oid)' \/ Settled(p, e)'
    <3>1. CASE declared
      <4>1. ~IsFile(p, e)' /\ ~Inner(p)'
        BY <1>1, <1>10, <3>1, ZenonT(40) DEF IsFile, Inner
      <4> QED BY <4>1, ZenonT(40) DEF Settled
    <3>2. CASE i.mode = "gitlink"
      <4>1. ~IsFile(p, e)' /\ e.mode # "dir"
        BY <3>2, Zenon DEF IsFile
      <4> QED BY <4>1, ZenonT(40) DEF Settled
    <3>3. CASE ~declared /\ i.mode # "gitlink"
      <4>1. phase' = "fetch" /\ want' = [what |-> what, path |-> p, mode |-> i.mode, oid |-> i.oid]
        BY <1>2, <3>3, Zenon
      <4>2. e.mode = i.mode /\ e.oid = i.oid
        BY Zenon
      <4> HIDE DEF p, e
      <4> QED BY <4>1, <4>2, Zenon DEF Wanted, Asking
    <3> QED BY <3>1, <3>2, <3>3, ZenonT(40)
  <2>6. Exhaustive'
    <3> SUFFICES ASSUME NEW r \in paths' \cup {<<>>}, NEW d \in Lookup(commit, r)
                 PROVE  Wanted(r, d.mode, d.oid)' \/ Settled(r, d)'
      BY <1>1, Zenon DEF Exhaustive
    <3>1. CASE r = p
      <4>1. d = e
        BY <2>4, <3>1, Zenon
      <4> QED BY <2>5, <3>1, <4>1, ZenonT(40)
    <3>2. CASE r # p
      <4>1. r \in paths \cup {<<>>}
        BY <1>1, <3>2, Zenon
      <4>2. Settled(r, d)
        BY <1>6, <2>1, <4>1, ZenonT(40) DEF Exhaustive, Wanted
      <4> QED BY <2>3, <4>2, Zenon
    <3> QED BY <3>1, <3>2, Zenon
  <2>7. InPathOrder'
    <3>1. ASSUME NEW m \in 1..Len(walk'), NEW n \in 1..Len(walk'), m < n
          PROVE  walk'[m].path = walk'[n].path \/ Below(walk'[m].path, walk'[n].path)
      <4>1. PICK k \in 1..Len(walk) : k = m + 1 /\ walk'[m] = walk[k]
        BY <1>4, Zenon
      <4>2. PICK l \in 1..Len(walk) : l = n + 1 /\ walk'[n] = walk[l]
        BY <1>4, Zenon
      <4>3. k < l
        BY <3>1, <4>1, <4>2, SMTT(30)
      <4> QED BY <2>1, <4>1, <4>2, <4>3, ZenonT(40) DEF InPathOrder
    <3>2. ASSUME NEW j \in 1..Len(files), NEW n \in 1..Len(walk') PROVE Below(files[j].path, walk'[n].path)
      <4>1. PICK l \in 1..Len(walk) : l = n + 1 /\ walk'[n] = walk[l]
        BY <1>4, Zenon
      <4> QED BY <2>1, <4>1, Zenon DEF InPathOrder
    <3>3. ASSUME phase' \in Asking PROVE want'.path = p
      BY <1>2, <3>3 DEF Asking
    <3>4. ASSUME NEW n \in 1..Len(walk') PROVE Below(p, walk'[n].path)
      <4>1. PICK l \in 1..Len(walk) : l = n + 1 /\ walk'[n] = walk[l]
        BY <1>4, Zenon
      <4>2. 1 < l /\ walk[l].path # p
        BY <2>2, <4>1, SMTT(30)
      <4> QED BY <1>4, <2>1, <4>1, <4>2, ZenonT(40) DEF InPathOrder
    <3>5. ASSUME NEW j \in 1..Len(files) PROVE Below(files[j].path, p)
      BY <1>4, <2>1, Zenon DEF InPathOrder
    <3> QED BY <1>1, <1>9, <2>1, <3>1, <3>2, <3>3, <3>4, <3>5, Zenon DEF InPathOrder
  <2> QED BY <1>19, <1>12, <1>13, <1>14, <2>6, <2>7, Zenon DEF Walks
<1>17. CASE Doomed'
  BY <1>19, <1>12, <1>13, <1>14, <1>17, Zenon DEF Walks
<1> QED
  BY <1>15, <1>16, <1>17

\* A step that only follows links keeps what is known of them.
Following == [link : Seq(Int), pending : Seq(Int), resolved : Seq(Int),
              expansions : Nat, directory : BOOLEAN]

\* Directories all along, and also at the end while components are pending.
Along(at) ==
    \A n \in 1..Len(at.resolved) :
        n < Len(at.resolved) \/ at.pending # <<>> => DirAt(SubSeq(at.resolved, 1, n))

\* One turn of resolve's loop stays within the directories of the commit.
LEMMA TurnStays ==
  ASSUME TreeAssumption, Recorded, NEW at \in Following, Along(at), at.pending # <<>>,
         NEW to \in Turn(linkEntries, at)
  PROVE  to \in Following /\ Along(to)
<1> DEFINE next == Head(at.pending)
           rest == Tail(at.pending)
           res == at.resolved
           here == Append(res, next)
<1>1. /\ at.pending \in Seq(Int) /\ res \in Seq(Int) /\ at.link \in Seq(Int)
      /\ at.expansions \in Nat /\ at.directory \in BOOLEAN
  BY ZenonT(40) DEF Following
<1>2. next \in Int /\ rest \in Seq(Int)
  BY <1>1
<1>3. at = [link |-> at.link, pending |-> at.pending, resolved |-> res,
            expansions |-> at.expansions, directory |-> at.directory]
  BY Zenon DEF Following
<1>4. \A n \in 1..Len(res) : DirAt(SubSeq(res, 1, n))
  BY Zenon DEF Along
<1>5. CASE next = Dot
  <2>1. to = [at EXCEPT !.pending = rest]
    BY <1>5 DEF Turn
  <2> HIDE DEF rest
  <2>2. to \in Following /\ to.resolved = res
    BY <1>2, <2>1, Zenon DEF Following
  <2> QED BY <1>4, <2>2, Zenon DEF Along
<1>6. CASE next # Dot /\ next = DotDot
  <2> DEFINE up == Front(res)
  <2>1. res # <<>> /\ to = [at EXCEPT !.pending = rest, !.resolved = Front(@)]
    BY <1>6 DEF Turn
  <2>2. up \in Seq(Int) /\ Len(up) = Len(res) - 1 /\ \A i \in 1..(Len(res) - 1) : up[i] = res[i]
    <3>1. res # <<>>
      BY <2>1
    <3> HIDE DEF res
    <3> QED BY <1>1, <3>1, FrontOf, ZenonT(40)
  <2> HIDE DEF rest, up
  <2>3. to \in Following /\ to.resolved = up
    BY <1>2, <2>1, <2>2, Zenon DEF Following, up
  <2>4. ASSUME NEW n \in 1..Len(up) PROVE DirAt(SubSeq(up, 1, n))
    <3>1. n \in Nat /\ n <= Len(up) /\ n <= Len(res) /\ n \in 1..Len(res) /\ \A i \in 1..n : up[i] = res[i]
      <4> DEFINE k == Len(res)
                 l == Len(up)
      <4>1. k \in Nat /\ l = k - 1 /\ n \in 1..l
        <5>1. Len(res) \in Nat
          <6> HIDE DEF res
          <6> QED BY <1>1
        <5> QED BY <2>2, <5>1, Zenon
      <4>2. \A i \in 1..(k - 1) : up[i] = res[i]
        BY <2>2, Zenon
      <4> HIDE DEF k, l, res
      <4>3. n \in Nat /\ n <= l /\ n <= k /\ n \in 1..k /\ \A i \in 1..n : i \in 1..(k - 1)
        BY <4>1
      <4> QED BY <4>2, <4>3, Zenon DEF k, l
    <3>2. SubSeq(up, 1, n) = SubSeq(res, 1, n)
      BY <1>1, <2>2, <3>1, SamePrefix, Zenon
    <3> QED BY <1>4, <3>1, <3>2, Zenon
  <2> QED BY <2>3, <2>4, Zenon DEF Along
<1>7. CASE next # Dot /\ next # DotDot
  <2> DEFINE entry == linkEntries[here]
  <2>1. to \in Entering(linkEntries, at, here, rest)
    BY <1>7, Zenon DEF Turn
  <2> HIDE DEF next, rest
  <2>2. here \in Seq(Int) /\ Len(here) = Len(res) + 1 /\ \A i \in 1..Len(res) : here[i] = res[i]
    BY <1>1, <1>2
  <2> HIDE DEF here
  <2>3. here \in DOMAIN linkEntries
    BY <2>1 DEF Entering
  <2>4. CASE entry.kind = "dir" \/ (entry.kind = "file" /\ rest = <<>>)
    <3>1. to = [at EXCEPT !.pending = rest, !.resolved = here]
      BY <2>1, <2>3, <2>4 DEF Entering
    <3>2. to \in Following /\ to.resolved = here /\ to.pending = rest
      BY <1>2, <2>2, <3>1, Zenon DEF Following
    <3>3. ASSUME NEW n \in 1..Len(here), n < Len(here) \/ rest # <<>> PROVE DirAt(SubSeq(here, 1, n))
      <4>1. CASE n <= Len(res)
        <5>1. n \in Nat /\ n <= Len(here) /\ n \in 1..Len(res) /\ \A i \in 1..n : here[i] = res[i]
          <6>1. Len(res) \in Nat
            BY <1>1
          <6>2. n \in Nat /\ n <= Len(here) /\ n \in 1..Len(res)
            BY <2>2, <4>1, <6>1
          <6>3. \A i \in 1..n : i \in 1..Len(res)
            BY <4>1, <6>1, <6>2, SMTT(30)
          <6> QED BY <2>2, <6>2, <6>3, Zenon
        <5>2. SubSeq(here, 1, n) = SubSeq(res, 1, n)
          BY <1>1, <2>2, <4>1, <5>1, SamePrefix, Zenon
        <5> QED BY <1>4, <5>1, <5>2, Zenon
      <4>2. CASE n > Len(res)
        <5>1. n = Len(here)
          BY <1>1, <2>2, <4>2, SMTT(30)
        <5>2. SubSeq(here, 1, n) = here
          BY <2>2, <5>1, WholePrefix, Zenon
        <5>3. entry.kind = "dir"
          BY <2>4, <3>3, <5>1
        <5>4. DirAt(here)
          BY <2>3, <5>3, Zenon DEF Recorded, DirAt
        <5> QED BY <5>2, <5>4, Zenon
      <4> QED BY <1>1, <4>1, <4>2
    <3> QED BY <3>2, <3>3, Zenon DEF Along
  <2>5. CASE ~(entry.kind = "dir" \/ (entry.kind = "file" /\ rest = <<>>))
    <3>1. /\ entry.kind = "link"
          /\ to = [at EXCEPT !.pending = entry.to.comps \o rest, !.expansions = @ + 1,
                             !.directory = @ \/ (rest = <<>> /\ entry.to.dir)]
      BY <2>1, <2>3, <2>5 DEF Entering
    <3>2. entry.to.comps \in Seq(Int) /\ entry.to.dir \in BOOLEAN
      BY <2>3, <3>1, Zenon DEF Recorded, Goal
    <3> DEFINE pend == entry.to.comps \o rest
               dir == at.directory \/ (rest = <<>> /\ entry.to.dir)
    <3>3. pend \in Seq(Int)
      BY <1>2, <3>2
    <3>4. dir \in BOOLEAN
      BY Zenon
    <3>5. to = [at EXCEPT !.pending = pend, !.expansions = @ + 1, !.directory = dir]
      BY <3>1
    <3> HIDE DEF pend, dir
    <3>6. to \in Following /\ to.resolved = res
      <4>1. to = [link |-> at.link, pending |-> pend, resolved |-> res,
                  expansions |-> at.expansions + 1, directory |-> dir]
        BY <3>5, ZenonT(40) DEF Following
      <4>2. at.expansions + 1 \in Nat
        BY <1>1
      <4> QED BY <1>1, <3>3, <3>4, <4>1, <4>2, Zenon DEF Following
    <3> QED BY <1>4, <3>6 DEF Along
  <2> QED BY <2>4, <2>5, Zenon
<1> QED
  BY <1>5, <1>6, <1>7, Zenon

\* Following links, the listing stands.
LEMMA WalksLinks ==
  ASSUME TreeAssumption, Walks, Roams, UNCHANGED options, StartLink \/ FollowLink \/ ResolveLink,
         phase' # "failed"
  PROVE  Walks' /\ Roams'
<1>1. /\ phase = "walk" /\ phase' = "walk"
      /\ UNCHANGED <<options, commit, want, walk, paths, files, linkEntries>>
  BY ZenonT(40) DEF StartLink, FollowLink, ResolveLink, Visited, Walked, Proceed, Fail
<1>2. ~Fresh /\ ~Fresh' /\ phase \notin Asking /\ phase' \notin Asking
  BY <1>1, Zenon DEF Fresh, Unresolved, Asking
<1>3. Listed /\ Inside
  BY <1>1, <1>2, Zenon DEF Walks, Listed
<1>4. Listed'
  BY <1>1, <1>2, <1>3, ListedFrame, Zenon
<1>5. Recorded'
  BY <1>1, <1>3, Zenon DEF Inside, Recorded
<1>6. Leading' /\ Led'
  <2> USE DEF Inside
  <2>1. CASE following' = following /\ symlinks' = symlinks
    BY <1>1, <1>3, <2>1, ZenonT(40) DEF Leading, Led, DirAt
  <2>2. ASSUME NEW p \in DOMAIN linkEntries, following' = Departing(p), symlinks' = symlinks PROVE Leading' /\ Led'
    <3>1. p \in Seq(Int)
      <4>1. p \in Seq(Names)
        BY <1>3, Zenon DEF Recorded
      <4> QED BY <4>1, NamesAreInts, Widen, ZenonT(40)
    <3>2. following'.resolved = <<>> /\ Len(<<>>) = 0 /\ following' \in Following
      BY <2>2, <3>1 DEF Departing, Following
    <3>3. Leading'
      BY <3>2 DEF Leading, Following
    <3> QED BY <1>1, <1>3, <2>2, <3>3, ZenonT(40) DEF Led, DirAt
  <2>3. CASE FollowLink /\ following' \in Turn(linkEntries, following)
    <3>1. following # None /\ following.pending # <<>> /\ symlinks' = symlinks
      BY <2>3, ZenonT(40) DEF FollowLink
    <3>2. following \in Following /\ Along(following)
      BY <1>3, <3>1, Zenon DEF Leading, Following, Along
    <3>3. PICK to \in Turn(linkEntries, following) : following' = to
      BY <2>3, Zenon
    <3>4. to \in Following /\ Along(to)
      BY <1>3, <3>1, <3>2, TurnStays, ZenonT(40)
    <3>5. Leading'
      BY <1>1, <3>3, <3>4, Zenon DEF Leading, Following, Along, DirAt
    <3> QED BY <1>1, <1>3, <3>1, <3>5, ZenonT(40) DEF Led, DirAt
  <2>4. CASE ResolveLink /\ Arrives(linkEntries, following)
    <3> DEFINE to == following.resolved
               v == [path |-> to, oid |-> linkEntries[to].oid]
    <3>1. /\ following # None /\ following.pending = <<>> /\ following' = None
          /\ symlinks' = Insert(symlinks, following.link, v)
      BY <2>4, ZenonT(40) DEF ResolveLink
    <3>2. to \in DOMAIN linkEntries /\ linkEntries[to].kind \in {"dir", "file"}
      BY <2>4, Zenon DEF Arrives
    <3>3. \E e \in Lookup(commit, to) : e.mode \in {"file", "exec", "dir"} /\ e.oid = linkEntries[to].oid
      BY <1>3, <3>2, Zenon DEF Recorded
    <3>4. \A n \in 1..(Len(to) - 1) : DirAt(SubSeq(to, 1, n))
      <4>1. to \in Seq(Int)
        BY <1>3, <3>1, Zenon DEF Leading
      <4>2. ASSUME NEW n \in 1..(Len(to) - 1) PROVE n \in 1..Len(to) /\ n < Len(to)
        BY <4>1
      <4> QED BY <1>3, <3>1, <4>2, ZenonT(40) DEF Leading
    <3>5. ASSUME NEW l \in DOMAIN symlinks'
          PROVE  symlinks'[l] = v \/ (l \in DOMAIN symlinks /\ symlinks'[l] = symlinks[l])
      BY <3>1, ZenonT(40) DEF Insert
    <3>6. v.path = to /\ v.oid = linkEntries[to].oid
      BY ZenonT(40)
    <3> HIDE DEF v, to
    <3>7. ASSUME NEW l \in DOMAIN symlinks'
          PROVE  /\ \E e \in Lookup(commit, symlinks'[l].path) :
                      e.mode \in {"file", "exec", "dir"} /\ e.oid = symlinks'[l].oid
                 /\ \A n \in 1..(Len(symlinks'[l].path) - 1) : DirAt(SubSeq(symlinks'[l].path, 1, n))
      <4>1. CASE symlinks'[l] = v
        BY <3>3, <3>4, <3>6, <4>1, Zenon
      <4>2. CASE l \in DOMAIN symlinks /\ symlinks'[l] = symlinks[l]
        BY <1>3, <4>2, ZenonT(40) DEF Led
      <4> QED BY <3>5, <4>1, <4>2, ZenonT(40)
    <3>8. Led'
      BY <1>1, <3>7, ZenonT(40) DEF Led, DirAt
    <3>9. Leading'
      BY <3>1, Zenon DEF Leading
    <3> QED BY <3>8, <3>9, Zenon
  <2>5. CASE StartLink
    BY <2>2, <2>5, ZenonT(40) DEF StartLink, Unled
  <2>6. CASE FollowLink
    BY <2>3, <2>6, ZenonT(40) DEF FollowLink, Fail
  <2>7. CASE ResolveLink
    BY <2>4, <2>7, ZenonT(40) DEF ResolveLink, Fail
  <2> QED BY <2>5, <2>6, <2>7, Zenon
<1>7. Roams'
  BY <1>1, <1>2, ZenonT(40) DEF Roams
<1> QED
  BY <1>7, <1>2, <1>3, <1>4, <1>5, <1>6, Zenon DEF Walks, Listed, Inside

-----------------------------------------------------------------------------
(* The walk as a whole *)

\* What has been read is entered, listed or kept.
LEMMA WalksTake ==
  ASSUME TreeAssumption, Walks, Roams, UNCHANGED options, phase = "reading",
         want.what = "commit" => Kind[want.oid] = "commit",
         want.what = "tree" => Kind[want.oid] = "tree",
         want.what \in {"file", "link"} => Kind[want.oid] = "blob",
         EnterCommit(want.oid) \/ EnterTree(want.oid) \/ ListFile(want.oid) \/ KeepLink(want.oid)
  PROVE  Walks' /\ Roams'
<1>1. CASE EnterCommit(want.oid)
  <2>1. Kind[want.oid] = "commit"
    BY <1>1, Zenon DEF EnterCommit
  <2> QED BY <1>1, <2>1, WalksEnterCommit, ZenonT(40)
<1>2. CASE EnterTree(want.oid)
  <2>1. Kind[want.oid] = "tree"
    BY <1>2, ZenonT(40) DEF EnterTree
  <2> QED BY <1>2, <2>1, WalksEnterTree, ZenonT(40)
<1>3. CASE ListFile(want.oid)
  <2>1. Kind[want.oid] = "blob"
    BY <1>3, Zenon DEF ListFile
  <2> QED BY <1>3, <2>1, WalksListFile, ZenonT(40)
<1>4. CASE KeepLink(want.oid)
  <2>1. Kind[want.oid] = "blob"
    BY <1>4, Zenon DEF KeepLink
  <2> QED BY <1>4, <2>1, WalksKeepLink, ZenonT(40)
<1> QED
  BY <1>1, <1>2, <1>3, <1>4, ZenonT(40)

\* The walk goes on, or refuses an entry or a link.
LEMMA WalksOn ==
  ASSUME TreeAssumption, Walks, Roams, UNCHANGED options, Walking
  PROVE  Walks' /\ Roams'
<1>1. CASE VisitEntry
  BY <1>1, WalksVisitEntry, Zenon
<1>2. CASE (StartLink \/ FollowLink \/ ResolveLink) /\ phase' # "failed"
  BY <1>2, WalksLinks, ZenonT(40)
<1>3. CASE ~VisitEntry /\ phase' = "failed"
  <2>1. walk' = walk
    BY <1>3, ZenonT(40) DEF Walking, RefuseEntry, TimeOut, StartLink, FollowLink, ResolveLink, Walked, state
  <2> QED BY <1>3, <2>1, WalksFailed, Zenon DEF Roams, Asking
<1>4. RefuseEntry \/ TimeOut => phase' = "failed"
  BY ZenonT(40) DEF RefuseEntry, TimeOut, Fail
<1> QED
  BY <1>1, <1>2, <1>3, <1>4, Zenon DEF Walking

\* Every visited prefix leads on to the file.
LEMMA FilesVisited ==
  ASSUME TreeAssumption, Authentic, Exhaustive, walk = <<>>, phase = "done",
         NEW p \in Seq(Names), NEW e \in Lookup(commit, p), IsFile(p, e)
  PROVE  p \in paths \cup {<<>>}
<1> DEFINE N == Len(p)
           pre(m) == SubSeq(p, 1, m)
           T == {m \in 0..N : Lookup(commit, pre(m)) # {} => pre(m) \in paths \cup {<<>>}}
<1>1. N \in Nat
  OBVIOUS
<1>2. \A m \in 0..N : pre(m) \in Seq(Names) /\ Len(pre(m)) = m /\ \A i \in 1..m : pre(m)[i] = p[i]
  BY Prefix, Zenon
<1>3. pre(N) = p
  BY WholePrefix, Zenon
<1>4. pre(0) = <<>>
  <2>1. 0 \in 0..N
    BY <1>1
  <2>2. pre(0) \in Seq(Names) /\ Len(pre(0)) = 0
    BY <1>2, <2>1, Zenon
  <2> HIDE DEF pre
  <2> QED BY <2>2
<1> HIDE DEF pre, N
<1>5. 0 \in T
  BY <1>1, <1>4
<1>6. ASSUME NEW m \in 1..N, m - 1 \in T PROVE m \in T
  <2> DEFINE q == pre(m - 1)
  <2> SUFFICES ASSUME NEW d \in Lookup(commit, pre(m)) PROVE pre(m) \in paths
    BY <1>1
  <2>1. PICK k \in 0..N : k = m - 1 /\ k + 1 = m
    BY <1>1
  <2>2. q \in Seq(Names) /\ Len(q) = m - 1 /\ \A i \in 1..(m - 1) : q[i] = p[i]
    <3>1. pre(k) \in Seq(Names) /\ Len(pre(k)) = k /\ \A i \in 1..k : pre(k)[i] = p[i]
      BY <1>2, Zenon
    <3> QED BY <2>1, <3>1, Zenon
  <2>3. m \in 0..N /\ m \in 1..Len(p) /\ p[m] \in Names
    BY <1>1, SMTT(30) DEF N
  <2>4. pre(m) \in Seq(Names) /\ Len(pre(m)) = m /\ \A i \in 1..m : pre(m)[i] = p[i]
    BY <1>2, <2>3, Zenon
  <2> HIDE DEF q
  <2>5. pre(m) = Append(q, p[m])
    <3> DEFINE r == Append(q, p[m])
    <3>1. r \in Seq(Names) /\ Len(r) = Len(q) + 1 /\ r[Len(q) + 1] = p[m] /\ \A i \in 1..Len(q) : r[i] = q[i]
      BY <2>2, <2>3, SMTT(30)
    <3> HIDE DEF r
    <3>2. Len(r) = m /\ \A i \in 1..m : r[i] = p[i]
      BY <1>1, <2>2, <3>1, SMTT(30)
    <3>3. r = pre(m)
      BY <2>4, <3>1, <3>2, SMTT(30)
    <3> QED BY <3>3, Zenon DEF r
  <2>6. Lookup(commit, pre(m)) = Into(Lookup(commit, q), p[m])
    BY <2>2, <2>3, <2>5, LookupStep
  <2>7. PICK g \in Lookup(commit, q) : /\ g.mode = "dir" /\ g.oid \in DOMAIN Items
                                       /\ \E y \in Range(Items[g.oid]) : y.name = p[m]
    BY <2>6, ZenonT(40) DEF Into
  <2>8. q \in paths \cup {<<>>}
    BY <1>6, <2>7, Zenon DEF q
  <2>9. Settled(q, g)
    BY <2>8, Zenon DEF Exhaustive, Wanted, Asking
  <2>10. Inner(q)
    <3>1. CASE options.boundaries /\ p[1] = GitModules
      <4>1. p = <<GitModules>>
        BY <3>1, Zenon DEF IsFile
      <4>2. Len(p) = 1
        BY <4>1, Zenon
      <4>3. Len(q) = 0
        BY <2>2, <4>2 DEF N
      <4>4. q = <<>>
        BY <2>2, <4>3
      <4> QED BY <4>4, Zenon DEF Inner
    <3>2. CASE ~options.boundaries
      BY <3>2, Zenon DEF Inner
    <3>3. CASE p[1] # GitModules
      BY <2>2, <3>3, SMTT(30) DEF Inner
    <3> QED BY <3>1, <3>2, <3>3, Zenon
  <2>11. PICK y \in Range(Items[g.oid]) : y.name = p[m]
    BY <2>7, Zenon
  <2>12. 1..Len(walk) = {}
    OBVIOUS
  <2> QED BY <2>5, <2>7, <2>9, <2>10, <2>11, <2>12, ZenonT(40) DEF Settled
<1> HIDE DEF T
<1>7. N \in T
  BY <1>1, <1>5, <1>6, UpTo, N \in 0..N, Zenon
<1> QED
  BY <1>3, <1>7, Zenon DEF T

\* A path below another is before it.
LEMMA BelowIsBefore ==
  ASSUME NEW p \in Seq(Int), NEW q \in Seq(Int), Below(p, q)
  PROVE  Before(p, q)
<1>1. PICK n \in 1..Len(p) : n <= Len(q) /\ p[n] < q[n] /\ \A k \in 1..(n - 1) : p[k] = q[k]
  BY Zenon DEF Below
<1>2. PICK m \in Nat : m = n - 1 /\ m <= Len(p) /\ m <= Len(q)
  BY <1>1, SMTT(30)
<1>3. SubSeq(p, 1, m) = SubSeq(q, 1, m)
  <2>1. \A i \in 1..m : p[i] = q[i]
    BY <1>1, <1>2, Zenon
  <2> QED BY <1>2, <2>1, SamePrefix, Zenon
<1>4. SubSeq(p, 1, n - 1) = SubSeq(q, 1, n - 1)
  BY <1>2, <1>3, Zenon
<1> QED
  BY <1>1, <1>4, Zenon DEF Before

\* When the walk has ended, exactly the files of the commit are listed, in path order.
LEMMA ListsTheCommit ==
  ASSUME TreeAssumption, Walks, phase = "done", walk = <<>>
  PROVE  /\ Range(files) = FilesOf(commit)
         /\ \A i, j \in DOMAIN files : i < j => Before(files[i].path, files[j].path)
<1>3. Authentic /\ Exhaustive /\ InPathOrder
  <2>1. ~Doomed
    BY DEF Doomed
  <2> QED BY <2>1, Zenon DEF Walks, Fresh, Unresolved, Asking
<1>4. files \in Seq(FileRecord) /\ DOMAIN files = 1..Len(files) /\ \A i \in 1..Len(files) : files[i] \in FileRecord
  <2>1. files \in Seq(FileRecord)
    BY <1>3, Zenon DEF Authentic
  <2> QED BY <2>1
<1>5. ASSUME NEW i \in 1..Len(files) PROVE files[i] \in FilesOf(commit)
  <2> DEFINE f == files[i]
             e == [mode |-> f.mode, oid |-> f.body]
  <2>1. f \in FileRecord /\ f.path \in paths /\ e \in Lookup(commit, f.path) /\ IsFile(f.path, f)
    BY <1>3, <1>4, ZenonT(40) DEF Authentic
  <2>2. f.path \in Seq(Names) /\ f.path # <<>> /\ Len(f.path) <= MaxPathDepth
    BY <1>3, <2>1, Zenon DEF Authentic
  <2>3. f.path \in AllPaths
    <3>1. Len(f.path) \in 1..MaxPathDepth /\ f.path \in [1..Len(f.path) -> Names]
      <4>1. MaxPathDepth \in Nat
        BY Zenon DEF TreeAssumption
      <4> HIDE DEF f
      <4>2. Len(f.path) \in Nat /\ Len(f.path) # 0 /\ f.path \in [1..Len(f.path) -> Names]
        BY <2>2
      <4> QED BY <2>2, <4>1, <4>2, SMTT(30)
    <3> QED BY <3>1, Zenon DEF AllPaths
  <2>4. IsFile(f.path, e)
    BY <2>1, ZenonT(40) DEF IsFile
  <2>5. f = [path |-> f.path, mode |-> e.mode, body |-> e.oid]
    BY <2>1, Zenon DEF FileRecord
  <2> HIDE DEF f, e
  <2>6. f \in FilesOf(commit)
    BY <2>1, <2>3, <2>4, <2>5, SMTT(30) DEF FilesOf
  <2> QED BY <2>6, Zenon DEF f
<1>6. ASSUME NEW p \in AllPaths, NEW e \in Lookup(commit, p), IsFile(p, e)
      PROVE  \E i \in 1..Len(files) : files[i] = [path |-> p, mode |-> e.mode, body |-> e.oid]
  <2>1. p \in Seq(Names) /\ p # <<>>
    <3>1. PICK n \in 1..MaxPathDepth : p \in [1..n -> Names]
      BY Zenon DEF AllPaths
    <3>2. n \in Nat /\ n # 0
      BY DEF TreeAssumption
    <3>3. p \in Seq(Names) /\ Len(p) = n
      BY <3>1, <3>2, Listing, Zenon
    <3> QED BY <3>2, <3>3, SMTT(30)
  <2>2. p \in paths \cup {<<>>}
    BY <1>3, <1>6, <2>1, FilesVisited, ZenonT(40)
  <2>3. Settled(p, e)
    BY <1>3, <2>2, Zenon DEF Exhaustive, Wanted, Asking
  <2> QED BY <1>6, <2>3, Zenon DEF Settled
<1>7. Range(files) = FilesOf(commit)
  <2>1. ASSUME NEW f \in Range(files) PROVE f \in FilesOf(commit)
    BY <1>4, <1>5, Zenon DEF Range
  <2>2. ASSUME NEW f \in FilesOf(commit) PROVE f \in Range(files)
    <3>1. PICK p \in AllPaths : \E e \in Lookup(commit, p) : IsFile(p, e) /\ f = [path |-> p, mode |-> e.mode, body |-> e.oid]
      <4>1. PICK p \in AllPaths : f \in {[path |-> p, mode |-> e.mode, body |-> e.oid] :
                                          e \in {x \in Lookup(commit, p) : IsFile(p, x)}}
        BY Zenon DEF FilesOf
      <4>2. PICK e \in {x \in Lookup(commit, p) : IsFile(p, x)} :
              f = [path |-> p, mode |-> e.mode, body |-> e.oid]
        BY <4>1, ZenonT(40)
      <4>3. e \in Lookup(commit, p) /\ IsFile(p, e)
        BY <4>2, Zenon
      <4> QED BY <4>2, <4>3, ZenonT(40)
    <3>2. PICK i \in 1..Len(files) : files[i] = f
      BY <1>6, <3>1, Zenon
    <3> QED BY <1>4, <3>2, Zenon DEF Range
  <2> QED BY <2>1, <2>2, Zenon
<1>8. ASSUME NEW i \in 1..Len(files), NEW j \in 1..Len(files), i < j PROVE Before(files[i].path, files[j].path)
  <2>1. files[i].path \in Seq(Int) /\ files[j].path \in Seq(Int)
    <3>1. files[i].path \in Seq(Names) /\ files[j].path \in Seq(Names)
      BY <1>4, Zenon DEF FileRecord
    <3> QED BY <3>1, NamesAreInts, Widen, Zenon
  <2>2. Below(files[i].path, files[j].path)
    BY <1>3, <1>8, Zenon DEF InPathOrder
  <2> QED BY <2>1, <2>2, BelowIsBefore, Zenon
<1> QED
  BY <1>4, <1>7, <1>8, Zenon
===============================================================================
