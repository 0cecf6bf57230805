-------------------------- MODULE PackedObjectsProofs --------------------------
(***************************************************************************)
(* What PackedObjectDatabase keeps.  Machine says what its stacks and its  *)
(* cache hold: a height for every task, so that each one finds the bodies  *)
(* of its own object on top.  Watched says what became of the packs it     *)
(* opened: bytes of a pair that has changed are answered by an error, or   *)
(* the pair is there to be verified.                                       *)
(***************************************************************************)
EXTENDS PackedObjects, SequenceLemmas

Task ==
    [do : {"oid"}, oid : Oid, depth : Nat, first : Seq(Nat)]
    \cup [do : {"at"}, oid : Oid, pack : Nat, depth : Nat]
    \cup [do : {"apply"}, oid : Oid, gives : Body \cup {Malformed}]
    \cup [do : {"finish"}, oid : Oid, count : Nat \ {0}]

\* A location of an object: its loose file, or an open pack that holds it.
IsSite(o, p) == p = Loose \/ (p \in Range(packs) /\ Holds(p, o))

Sited(o, where) == \A n \in 1..Len(where) : IsSite(o, where[n])

\* A task names only places where its object was when the task was planned.
Placed(t) ==
    /\ t.do = "at" => IsSite(t.oid, t.pack)
    /\ t.do = "oid" => Sited(t.oid, t.first)

\* The object database: what is on the stacks leads to the object asked for.
Machine ==
    /\ \A p \in PackId : IsPack(layout.entries[p])
    /\ loose \in [Oid -> Body \cup {Absent, Odd}]
    /\ listed \in Seq(PackId) /\ opened \in Seq(PackId) /\ packs \in Seq(PackId)
    /\ tasks \in Seq(Task) /\ values \in Seq(Body)
    /\ \A k \in 1..Len(tasks) : Placed(tasks[k])
    /\ reply = Busy => request.oid \in Oid /\ Stacked(tasks, values, request.oid)
    /\ reply # Busy => tasks = <<>> /\ values = <<>>
    /\ ObjectsGenuine

\* A pack that a repack wrote was complete before it was opened.
Complete(s) == \A n \in 1..Len(s) : s[n] = NewPack => pair[NewPack] \in {"there", "rewritten"}

Changed(s) == \E n \in 1..Len(s) : pair[s[n]] # "there"

Watched ==
    /\ pair \in [PackId -> {"absent", "half", "there", "rewritten"}]
    /\ dirty \in BOOLEAN
    /\ unverified \in Seq(PackId)
    /\ Complete(opened) /\ Complete(packs) /\ Complete(unverified)
    /\ dirty => Changed(packs) \/ reply.status = "error"

-----------------------------------------------------------------------------
(* The places of an object *)

\* locations names only the loose file and open packs that hold the object.
LEMMA LocationsSited ==
  ASSUME NEW o, packs \in Seq(Nat)
  PROVE  Locations(o) \in Seq(Nat) /\ Sited(o, Locations(o))
<1> DEFINE N == Len(packs)
           V == {s \in Seq(Nat) : Sited(o, s)}
           a == IF loose[o] # Absent THEN <<Loose>> ELSE <<>>
           Step(n, s) == IF Holds(packs[n], o) THEN Append(s, packs[n]) ELSE s
           F == [n \in 1..N |-> [s \in V |-> Step(n, s)]]
           Def(f) == [n \in 0..N |-> IF n = 0 THEN a ELSE Step(n, f[n - 1])]
<1>1. N \in Nat
  OBVIOUS
<1>2. a \in V
  BY DEF Sited, IsSite, Loose
<1>3. ASSUME NEW n \in 1..N, NEW s \in V PROVE Step(n, s) \in V
  <2>1. packs[n] \in Nat /\ packs[n] \in Range(packs)
    BY DEF Range
  <2>2. /\ Append(s, packs[n]) \in Seq(Nat) /\ Len(Append(s, packs[n])) = Len(s) + 1
        /\ \A i \in 1..Len(s) : Append(s, packs[n])[i] = s[i]
        /\ Append(s, packs[n])[Len(s) + 1] = packs[n]
    BY <2>1
  <2>3. CASE Holds(packs[n], o)
    <3>1. Sited(o, Append(s, packs[n]))
      <4> SUFFICES ASSUME NEW i \in 1..(Len(s) + 1) PROVE IsSite(o, Append(s, packs[n])[i])
        BY <2>2 DEF Sited
      <4>1. CASE i \in 1..Len(s)
        BY <4>1, <2>2 DEF Sited
      <4>2. CASE i = Len(s) + 1
        BY <4>2, <2>1, <2>2, <2>3 DEF IsSite
      <4> QED BY <4>1, <4>2
    <3> QED BY <3>1, <2>2, <2>3
  <2>4. CASE ~Holds(packs[n], o)
    BY <2>4
  <2> QED BY <2>3, <2>4
<1> HIDE DEF V, Step, a
<1>4. F \in [1..N -> [V -> V]]
  BY <1>3
<1>5. \E f : f = Def(f)
  <2> HIDE DEF F, N
  <2>1. PICK f \in [0..N -> V] : f[0] = a /\ \A n \in 1..N : f[n] = F[n][f[n - 1]]
    <3>1. Defines(V, N, a, F)
      BY <1>1, <1>2, <1>4 DEF Defines
    <3> QED BY <3>1, Recursion
  <2>2. ASSUME NEW n \in 0..N PROVE f[n] = IF n = 0 THEN a ELSE Step(n, f[n - 1])
    <3>1. CASE n = 0
      BY <3>1, <2>1
    <3>2. CASE n # 0
      <4>1. n \in 1..N /\ n - 1 \in 0..N
        BY <1>1, <3>2
      <4>2. f[n - 1] \in V /\ f[n] = F[n][f[n - 1]]
        BY <2>1, <4>1
      <4> QED BY <3>2, <4>1, <4>2 DEF F
    <3> QED BY <3>1, <3>2
  <2>3. f = Def(f)
    BY <2>1, <2>2
  <2> QED BY <2>3, Zenon
<1> DEFINE g == CHOOSE f : f = Def(f)
<1>6. g = Def(g)
  BY <1>5, ZenonT(40)
<1>7. Locations(o) = g[N]
  BY DEF Locations, Step, a
<1> HIDE DEF g
<1>8. g[0] \in V
  BY <1>1, <1>2, <1>6
<1> DEFINE S == {n \in 0..N : g[n] \in V}
<1>9. ASSUME NEW n \in 1..N, n - 1 \in S PROVE n \in S
  <2>1. n \in 0..N /\ n # 0
    BY <1>1
  <2>2. g[n] = Step(n, g[n - 1])
    <3> HIDE DEF N
    <3> QED BY <2>1, <1>6, Zenon
  <2> QED BY <2>1, <2>2, <1>3, <1>9
<1>10. 0 \in S
  BY <1>1, <1>8
<1> HIDE DEF S
<1>11. N \in S
  BY <1>1, <1>9, <1>10, UpTo, N \in 0..N, Zenon
<1> QED
  BY <1>7, <1>11, Zenon DEF S, V

\* The catalog's order is a sequence of packs.
LEMMA CatalogOrdered ==
  ASSUME PackedAssumption, NEW S
  PROVE  CatalogOrder(S) \in Seq(PackId)
<1> DEFINE N == NumPacks
           V == Seq(PackId)
           a == <<>>
           Step(n, s) == IF n \in S THEN Append(s, n) ELSE s
           F == [n \in 1..N |-> [s \in V |-> Step(n, s)]]
           Def(f) == [n \in 0..N |-> IF n = 0 THEN a ELSE Step(n, f[n - 1])]
<1>1. N \in Nat
  BY DEF PackedAssumption
<1>2. a \in V
  OBVIOUS
<1>3. ASSUME NEW n \in 1..N, NEW s \in V PROVE Step(n, s) \in V
  <2>1. n \in PackId
    BY DEF PackId
  <2> QED BY <2>1
<1> HIDE DEF V, Step, a
<1>4. F \in [1..N -> [V -> V]]
  BY <1>3
<1>5. \E f : f = Def(f)
  <2> HIDE DEF F, N
  <2>1. PICK f \in [0..N -> V] : f[0] = a /\ \A n \in 1..N : f[n] = F[n][f[n - 1]]
    <3>1. Defines(V, N, a, F)
      BY <1>1, <1>2, <1>4 DEF Defines
    <3> QED BY <3>1, Recursion
  <2>2. ASSUME NEW n \in 0..N PROVE f[n] = IF n = 0 THEN a ELSE Step(n, f[n - 1])
    <3>1. CASE n = 0
      BY <3>1, <2>1
    <3>2. CASE n # 0
      <4>1. n \in 1..N /\ n - 1 \in 0..N
        BY <1>1, <3>2
      <4>2. f[n - 1] \in V /\ f[n] = F[n][f[n - 1]]
        BY <2>1, <4>1
      <4> QED BY <3>2, <4>1, <4>2 DEF F
    <3> QED BY <3>1, <3>2
  <2>3. f = Def(f)
    BY <2>1, <2>2
  <2> QED BY <2>3, Zenon
<1> DEFINE g == CHOOSE f : f = Def(f)
<1>6. g = Def(g)
  BY <1>5, Zenon
<1>7. CatalogOrder(S) = g[N]
  BY DEF CatalogOrder, Step, a
<1> HIDE DEF g
<1>8. g[0] \in V
  BY <1>1, <1>2, <1>6
<1>9. ASSUME NEW n \in 1..N, g[n - 1] \in V PROVE g[n] \in V
  BY <1>1, <1>3, <1>6, <1>9
<1>10. g[N] \in V
  <2> DEFINE T == {n \in 0..N : g[n] \in V}
  <2>1. 0 \in T /\ \A n \in 1..N : n - 1 \in T => n \in T
    BY <1>1, <1>8, <1>9
  <2> HIDE DEF T, N
  <2>2. \A n \in 0..N : n \in T
    BY <1>1, <2>1, UpTo
  <2> QED BY <1>1, <2>2 DEF T
<1> QED
  BY <1>7, <1>10 DEF V

\* Packs are numbered from 1; 0 stands for the loose file.
LEMMA NatPacks ==
  ASSUME PackedAssumption, packs \in Seq(PackId)
  PROVE  packs \in Seq(Nat)
<1>1. packs \in [1..Len(packs) -> PackId] /\ Len(packs) \in Nat
  OBVIOUS
<1>2. \A p \in PackId : p \in Nat
  BY DEF PackedAssumption, PackId
<1>3. packs \in [1..Len(packs) -> Nat]
  BY <1>1, <1>2
<1> QED
  BY <1>1, <1>3

-----------------------------------------------------------------------------
(* resolve *)

\* Taking the top task off leaves the others where they were.
LEMMA Dropped ==
  ASSUME Machine, NEW errors, Raise(errors), UNCHANGED <<disk, catalog, request>>
  PROVE  Machine'
<1>1. PICK e : reply' = Error(e)
  BY DEF Raise
<1>2. reply' # Busy /\ reply'.status = "error"
  BY <1>1 DEF Error, Busy
<1>3. /\ tasks' = <<>> /\ values' = <<>> /\ cache' = cache
      /\ UNCHANGED <<layout, loose, listed, opened, packs, request>>
  BY DEF Raise, disk, catalog
<1>4. ObjectsGenuine'
  BY <1>2, <1>3, Zenon DEF Machine, ObjectsGenuine
<1> QED
  BY <1>2, <1>3, <1>4 DEF Machine

\* Replacing the top task by tasks that are placed leaves every task placed.
LEMMA Carried ==
  ASSUME Machine, reply = Busy, UNCHANGED <<reply, disk, catalog, request>>,
         tasks' \in Seq(Task), values' \in Seq(Body),
         \A k \in 1..Len(tasks') : Placed(tasks'[k]),
         Stacked(tasks', values', request.oid),
         \A o \in DOMAIN cache' : cache'[o] = o
  PROVE  Machine'
<1>1. UNCHANGED <<layout, loose, listed, opened, packs, request, reply>>
  BY Zenon DEF disk, catalog
<1>2. \A k \in 1..Len(tasks') : Placed(tasks[k])'
  BY <1>1, Zenon DEF Placed, Sited, IsSite, Holds, entries
<1>3. ObjectsGenuine'
  BY <1>1 DEF ObjectsGenuine, Busy
<1>4. Stacked(tasks, values, request.oid)'
  BY <1>1, Zenon
<1> QED
  BY <1>1, <1>2, <1>3, <1>4, Zenon DEF Machine

\* The task on top of the stack, and the stack below.
LEMMA Top ==
  ASSUME Machine, tasks # <<>>
  PROVE  /\ Last(tasks) = tasks[Len(tasks)] /\ Last(tasks) \in Task /\ Len(tasks) \in 1..Len(tasks)
         /\ Len(tasks) \in Nat \ {0}
         /\ Placed(Last(tasks))
         /\ Front(tasks) \in Seq(Task) /\ Len(Front(tasks)) = Len(tasks) - 1
         /\ \A k \in 1..(Len(tasks) - 1) : Front(tasks)[k] = tasks[k]
         /\ \A k \in 1..Len(Front(tasks)) : Placed(Front(tasks)[k])
         /\ Front(tasks) \o <<>> = Front(tasks)
<1>1. tasks \in Seq(Task) /\ Len(tasks) \in 1..Len(tasks) /\ Len(tasks) \in Nat \ {0}
  BY DEF Machine
<1>2. /\ Front(tasks) \in Seq(Task) /\ Len(Front(tasks)) = Len(tasks) - 1
      /\ \A k \in 1..(Len(tasks) - 1) : Front(tasks)[k] = tasks[k]
  BY <1>1, FrontOf
<1>3. \A k \in 1..Len(tasks) : Placed(tasks[k])
  BY Zenon DEF Machine
<1>4. \A k \in 1..Len(Front(tasks)) : Placed(Front(tasks)[k])
  <2> SUFFICES ASSUME NEW k \in 1..Len(Front(tasks)) PROVE Placed(Front(tasks)[k])
    OBVIOUS
  <2>1. k \in 1..(Len(tasks) - 1) /\ k \in 1..Len(tasks)
    BY <1>1, <1>2
  <2> QED BY <2>1, <1>2, <1>3
<1>5. Last(tasks) = tasks[Len(tasks)] /\ Last(tasks) \in Task
  BY <1>1 DEF Last
<1>6. Front(tasks) \o <<>> = Front(tasks)
  BY <1>2
<1> QED
  BY <1>1, <1>2, <1>3, <1>4, <1>5, <1>6

\* A task that leaves its object on the stack of values.
LEMMA Delivered ==
  ASSUME Machine, reply = Busy, tasks # <<>>, Last(tasks).do \in {"oid", "at"},
         Deliver(Last(tasks).oid), UNCHANGED <<disk, catalog, request, cache>>
  PROVE  Machine'
<1>1. /\ tasks' = Front(tasks) /\ reply' = reply /\ cache' = cache
      /\ values' = Append(values, Last(tasks).oid)
  BY Top, Zenon DEF Deliver, Continue
<1>2. Last(tasks).oid \in Body
  BY Top, Zenon DEF Task, Body
<1>3. /\ values \in Seq(Body) /\ tasks \in Seq(Task) /\ request.oid \in Oid
      /\ Stacked(tasks, values, request.oid) /\ \A o \in DOMAIN cache : cache[o] = o
  BY Zenon DEF Machine, ObjectsGenuine
<1>4. values' \in Seq(Body)
  BY <1>1, <1>2, <1>3
<1>5. Stacked(tasks', values', request.oid)
  BY <1>1, <1>2, <1>3, Top, StackDeliver, Zenon
<1> QED
  BY <1>1, <1>3, <1>4, <1>5, Top, Carried, Zenon

\* ResolveTask::ResolveOid
LEMMA MachineOid ==
  ASSUME PackedAssumption, Machine, ResolveOid
  PROVE  Machine'
<1> DEFINE t == Last(tasks)
           o == t.oid
<1>1. /\ reply = Busy /\ tasks # <<>> /\ t.do = "oid" /\ tasks \in Seq(Task)
      /\ UNCHANGED <<disk, catalog, request>>
  BY Zenon DEF ResolveOid, Todo, Machine
<1>2. CASE \E errors : Raise(errors)
  BY <1>1, <1>2, Dropped, Zenon
<1>3. CASE o \in DOMAIN cache /\ Deliver(cache[o]) /\ UNCHANGED cache
  <2>1. cache[o] = o
    BY <1>3, Zenon DEF Machine, ObjectsGenuine
  <2> QED
    BY <1>1, <1>3, <2>1, Delivered, Zenon
<1>4. ASSUME NEW where, where = IF t.depth = 0 THEN t.first ELSE Locations(o),
             where # <<>>,
             Continue(<<[do |-> "finish", oid |-> o, count |-> Len(where)]>>
                   \o [i \in 1..Len(where) |->
                         [do |-> "at", oid |-> o, pack |-> where[Len(where) + 1 - i],
                          depth |-> t.depth]]),
             UNCHANGED <<values, cache>>
      PROVE  Machine'
  <2> DEFINE c == Len(where)
             n == Len(tasks)
             finish == [do |-> "finish", oid |-> o, count |-> c]
             At(i) == [do |-> "at", oid |-> o, pack |-> where[c + 1 - i], depth |-> t.depth]
             more == <<finish>> \o [i \in 1..c |-> At(i)]
             u == Front(tasks) \o more
  <2>1. t \in Task /\ o \in Oid /\ t.depth \in Nat /\ t.first \in Seq(Nat) /\ Sited(o, t.first)
    <3>1. t \in Task /\ Placed(t)
      BY <1>1, Top, Zenon
    <3> QED BY <1>1, <3>1, Zenon DEF Task, Placed
  <2>2. where \in Seq(Nat) /\ Sited(o, where)
    BY <2>1, <1>4, NatPacks, LocationsSited, Zenon DEF Machine
  <2>3. c \in Nat \ {0}
    BY <2>2, <1>4
  <2>4. ASSUME NEW i \in 1..c
        PROVE  At(i) \in Task /\ Placed(At(i)) /\ At(i).do = "at" /\ At(i).oid = o
    <3>1. c + 1 - i \in 1..c
      BY <2>3
    <3>2. where[c + 1 - i] \in Nat /\ IsSite(o, where[c + 1 - i])
      BY <2>2, <3>1 DEF Sited
    <3> HIDE DEF o, t, c
    <3> QED BY <3>2, <2>1, Zenon DEF Task, Placed
  <2>5. finish \in Task /\ Placed(finish)
    <3> HIDE DEF o, c
    <3> QED BY <2>1, <2>3, Zenon DEF Task, Placed
  <2> HIDE DEF finish, At, c
  <2>6. /\ more \in Seq(Task) /\ Len(more) = c + 1 /\ more[1] = finish
        /\ \A k \in 2..(c + 1) : more[k] = At(k - 1)
    <3>1. [i \in 1..c |-> At(i)] \in Seq(Task) /\ Len([i \in 1..c |-> At(i)]) = c
      <4>1. [i \in 1..c |-> At(i)] \in [1..c -> Task]
        BY <2>4
      <4> QED BY <4>1, <2>3, Listing
    <3>2. <<finish>> \in Seq(Task) /\ Len(<<finish>>) = 1
      BY <2>5
    <3> DEFINE s1 == <<finish>>
               s2 == [i \in 1..c |-> At(i)]
    <3> HIDE DEF s1, s2
    <3>3. /\ s1 \o s2 \in Seq(Task)
          /\ Len(s1 \o s2) = Len(s1) + Len(s2)
          /\ \A i \in 1..(Len(s1) + Len(s2)) : (s1 \o s2)[i] = IF i <= Len(s1) THEN s1[i] ELSE s2[i - Len(s1)]
      <4>1. s1 \in Seq(Task) /\ s2 \in Seq(Task)
        BY <3>1, <3>2 DEF s1, s2
      <4> QED BY <4>1
    <3>4. \A k \in 2..(c + 1) : k - 1 \in 1..c /\ k \in 1..(1 + c) /\ ~(k <= 1)
      BY <2>3
    <3>5. 1 \in 1..(1 + c)
      BY <2>3
    <3> QED BY <2>3, <3>1, <3>2, <3>3, <3>4, <3>5 DEF s1, s2, more
  <2> HIDE DEF more
  <2>7. /\ Front(tasks) \in Seq(Task) /\ Len(Front(tasks)) = n - 1 /\ n \in Nat \ {0}
        /\ \A k \in 1..(n - 1) : Front(tasks)[k] = tasks[k] /\ Placed(Front(tasks)[k])
    BY <1>1, Top, Zenon
  <2>8. /\ u \in Seq(Task) /\ Len(u) = n + c
        /\ \A k \in 1..(n + c) : u[k] = IF k <= n - 1 THEN Front(tasks)[k] ELSE more[k - (n - 1)]
    <3> DEFINE s1 == Front(tasks)
    <3>1. /\ s1 \o more \in Seq(Task)
          /\ Len(s1 \o more) = Len(s1) + Len(more)
          /\ \A i \in 1..(Len(s1) + Len(more)) : (s1 \o more)[i] = IF i <= Len(s1) THEN s1[i] ELSE more[i - Len(s1)]
      <4>1. s1 \in Seq(Task) /\ more \in Seq(Task)
        BY <2>6, <2>7, Zenon
      <4> HIDE DEF s1
      <4> QED BY <4>1
    <3> HIDE DEF s1, n
    <3>2. Len(s1) = n - 1 /\ Len(more) = c + 1 /\ n - 1 + (c + 1) = n + c
      BY <2>6, <2>7, <2>3 DEF s1
    <3> QED BY <3>1, <3>2, Zenon DEF s1
  <2> HIDE DEF u, n
  <2>9. /\ \A k \in 1..(n - 1) : u[k] = tasks[k] /\ Placed(u[k])
        /\ u[n] = finish
        /\ \A k \in (n + 1)..(n + c) : u[k] = At(k - n) /\ k - n \in 1..c
    <3>1. \A k \in 1..(n - 1) : k \in 1..(n + c) /\ k <= n - 1
      BY <2>3, <2>7
    <3>2. n \in 1..(n + c) /\ ~(n <= n - 1) /\ n - (n - 1) = 1
      BY <2>3, <2>7
    <3>3. ASSUME NEW k \in (n + 1)..(n + c)
          PROVE  /\ k \in 1..(n + c) /\ ~(k <= n - 1) /\ k - (n - 1) \in 2..(c + 1)
                 /\ k - (n - 1) - 1 = k - n /\ k - n \in 1..c
      BY <2>3, <2>7
    <3>4. ASSUME NEW k \in (n + 1)..(n + c) PROVE u[k] = At(k - n)
      <4>1. u[k] = more[k - (n - 1)]
        BY <2>8, <3>3
      <4>2. more[k - (n - 1)] = At(k - (n - 1) - 1)
        BY <2>6, <3>3
      <4> QED BY <4>1, <4>2, <3>3, Zenon
    <3>5. \A k \in 1..(n - 1) : u[k] = tasks[k] /\ Placed(u[k])
      BY <2>7, <2>8, <3>1, Zenon
    <3>6. u[n] = finish
      BY <2>6, <2>8, <3>2, Zenon
    <3> QED BY <3>3, <3>4, <3>5, <3>6, Zenon
  <2>10. \A k \in 1..Len(u) : Placed(u[k])
    <3> SUFFICES ASSUME NEW k \in 1..(n + c) PROVE Placed(u[k])
      BY <2>8
    <3>1. k \in 1..(n - 1) \/ k = n \/ k \in (n + 1)..(n + c)
      BY <2>3, <2>7
    <3> QED BY <3>1, <2>4, <2>5, <2>9, Zenon
  <2>11. Stacked(u, values, request.oid)
    <3>1. u[n].do = "finish" /\ u[n].oid = o /\ u[n].count = c
      BY <2>9 DEF finish
    <3>2. \A k \in (n + 1)..(n + c) : u[k].do = "at" /\ u[k].oid = o
      BY <2>4, <2>9, Zenon
    <3>3. t = tasks[n]
      BY <1>1, Top, Zenon DEF n
    <3>4. /\ values \in Seq(Body) /\ request.oid \in Oid /\ Stacked(tasks, values, request.oid)
      BY <1>1, Zenon DEF Machine
    <3> HIDE DEF o
    <3>5. tasks[Len(tasks)].do = "oid" /\ tasks[Len(tasks)].oid = o
      BY <1>1, <3>3, Zenon DEF n, o
    <3> HIDE DEF t
    <3>6. Plans(tasks, u, c)
      BY <2>8, <2>9, <3>1, <3>2, <3>5, Zenon DEF n, Plans
    <3> QED
      BY <1>1, <2>3, <2>8, <3>4, <3>5, <3>6, StackPlan, Zenon
  <2>12. tasks' = u /\ values' = values /\ cache' = cache /\ reply' = reply
    BY <1>4, Zenon DEF Continue, u, more, finish, At, c
  <2>13. values \in Seq(Body) /\ \A b \in DOMAIN cache : cache[b] = b
    BY Zenon DEF Machine, ObjectsGenuine
  <2> QED
    BY <1>1, <2>8, <2>10, <2>11, <2>12, <2>13, Carried, Zenon
<1>5. CASE PlanLocations(o, t.depth, t.first)
  <2> HIDE DEF o, t
  <2>1. CASE \E errors : Raise(errors)
    BY <2>1, <1>2, Zenon
  <2>2. CASE ~\E errors : Raise(errors)
    BY <1>5, <2>2, <1>4, Zenon DEF PlanLocations
  <2> QED BY <2>1, <2>2
<1> HIDE DEF o, t
<1> QED
  <2>1. \/ \E errors : Raise(errors)
        \/ o \in DOMAIN cache /\ Deliver(cache[o]) /\ UNCHANGED cache
        \/ PlanLocations(o, t.depth, t.first)
    BY Zenon DEF ResolveOid, o, t
  <2> QED BY <2>1, <1>2, <1>3, <1>5

\* read_loose
LEMMA MachineLoose ==
  ASSUME Machine, ReadLoose
  PROVE  Machine'
<1> DEFINE o == Last(tasks).oid
           body == loose[o]
<1>1. /\ reply = Busy /\ tasks # <<>> /\ Last(tasks).do = "at"
      /\ UNCHANGED <<disk, catalog, request>>
  BY Zenon DEF ReadLoose, Todo
<1>2. CASE \E errors : Raise(errors)
  BY <1>1, <1>2, Dropped
<1>3. CASE OidError(o, body) = {} /\ Deliver(body) /\ UNCHANGED cache
  <2>1. body = o
    <3> HIDE DEF o, body
    <3> QED BY <1>3, Zenon DEF OidError
  <2> QED
    BY <1>1, <1>3, <2>1, Delivered, Zenon
<1> QED
  <2>1. \/ \E errors : Raise(errors)
        \/ OidError(o, body) = {} /\ Deliver(body) /\ UNCHANGED cache
    <3>1. CASE ~\E errors : Raise(errors)
      BY <3>1, Zenon DEF ReadLoose
    <3> QED BY <3>1, Zenon
  <2> QED BY <2>1, <1>2, <1>3, Zenon

\* The entry that a pack holds under an object id.
LEMMA EntryHeld ==
  ASSUME PackedAssumption, Machine, NEW o, NEW p, p # Loose, IsSite(o, p)
  PROVE  LET e == entries[p][EntryOf(p, o)] IN
         /\ e.form \in {"base", "ref", "ofs"}
         /\ e.gives \in Body \cup {Malformed}
         /\ e.form # "base" => BaseOf(p, e) \in Oid
<1> DEFINE i == EntryOf(p, o)
           e == entries[p][i]
<1>1. p \in PackId /\ Holds(p, o)
  <2>1. p \in Range(packs) /\ packs \in Seq(PackId) /\ Holds(p, o)
    BY ZenonT(40) DEF IsSite, Machine
  <2>2. Range(packs) \subseteq PackId
    BY <2>1 DEF Range
  <2> QED BY <2>1, <2>2
<1>2. IsPack(entries[p])
  BY <1>1, Zenon DEF Machine, entries
<1>3. i \in DOMAIN entries[p]
  BY <1>1, Zenon DEF Holds, EntryOf
<1>4. /\ e.form \in {"base", "ref", "ofs"}
      /\ e.gives \in IF e.form = "base" THEN Body ELSE Body \cup {Malformed}
      /\ e.form = "ref" => e.base \in Oid
      /\ e.form = "ofs" => e.base \in DOMAIN entries[p]
  BY <1>2, <1>3, Zenon DEF IsPack
<1>5. e.form = "ofs" => entries[p][e.base].oid \in Oid
  BY <1>2, <1>4, Zenon DEF IsPack
<1> HIDE DEF e
<1>6. e.form # "base" => BaseOf(p, e) \in Oid
  BY <1>4, <1>5, Zenon DEF BaseOf
<1>7. e.gives \in Body \cup {Malformed}
  BY <1>4, ZenonT(40)
<1> QED
  BY <1>4, <1>6, <1>7, Zenon DEF e

\* ResolveLocation of a pack
LEMMA MachinePacked ==
  ASSUME PackedAssumption, Machine, ReadPacked
  PROVE  Machine'
<1> DEFINE t == Last(tasks)
           o == t.oid
           p == t.pack
           e == entries[p][EntryOf(p, o)]
           A(g) == [do |-> "apply", oid |-> o, gives |-> g]
           B == [do |-> "oid", oid |-> BaseOf(p, e), depth |-> t.depth + 1, first |-> <<>>]
<1>1. /\ reply = Busy /\ tasks # <<>> /\ Last(tasks).do = "at" /\ p # Loose
      /\ UNCHANGED <<disk, catalog, request>>
  BY Zenon DEF ReadPacked, Todo
<1>2. CASE \E errors : Raise(errors)
  BY <1>1, <1>2, Dropped
<1>3. ASSUME NEW body, OidError(o, body) = {}, Deliver(body), UNCHANGED cache
      PROVE  Machine'
  <2>1. body = o
    <3> HIDE DEF o
    <3> QED BY <1>3, Zenon DEF OidError
  <2> QED
    BY <1>1, <1>3, <2>1, Delivered
<1>4. ASSUME NEW g \in Inflatable(p, e), e.form # "base", Continue(<<A(g), B>>),
             UNCHANGED <<values, cache>>
      PROVE  Machine'
  <2> DEFINE n == Len(tasks)
             u == Front(tasks) \o <<A(g), B>>
  <2>1. t \in Task /\ IsSite(o, p) /\ o \in Oid /\ t.depth \in Nat
    <3>1. t \in Task /\ Placed(t)
      BY <1>1, Top, Zenon
    <3> QED BY <1>1, <3>1, Zenon DEF Task, Placed
  <2>2. g \in Body \cup {Malformed} /\ BaseOf(p, e) \in Oid
    <3>1. e.gives \in Body \cup {Malformed} /\ BaseOf(p, e) \in Oid
      BY <1>1, <1>4, <2>1, EntryHeld, ZenonT(40)
    <3> HIDE DEF e
    <3> QED BY <1>4, <3>1, Zenon DEF Inflatable
  <2> HIDE DEF t, o, p, e
  <2>3. A(g) \in Task /\ Placed(A(g)) /\ A(g).do = "apply" /\ A(g).oid = o
    BY <2>1, <2>2, ZenonT(40) DEF Task, Placed
  <2>4. B \in Task /\ Placed(B) /\ B.do = "oid"
    <3>1. t.depth + 1 \in Nat /\ <<>> \in Seq(Nat)
      BY <2>1
    <3>2. \A x : Sited(x, <<>>)
      BY DEF Sited
    <3> QED BY <2>2, <3>1, <3>2, Zenon DEF Task, Placed
  <2> HIDE DEF A, B
  <2>5. /\ Front(tasks) \in Seq(Task) /\ Len(Front(tasks)) = n - 1 /\ n \in Nat \ {0}
        /\ \A k \in 1..(n - 1) : Front(tasks)[k] = tasks[k] /\ Placed(Front(tasks)[k])
    BY <1>1, Top, Zenon
  <2>6. /\ u \in Seq(Task) /\ Len(u) = n + 1
        /\ \A k \in 1..(n - 1) : u[k] = Front(tasks)[k]
        /\ u[n] = A(g) /\ u[n + 1] = B
    <3>1. <<A(g), B>> \in Seq(Task) /\ Len(<<A(g), B>>) = 2
      BY <2>3, <2>4
    <3> DEFINE s1 == Front(tasks)
               s2 == <<A(g), B>>
    <3> HIDE DEF s1, s2
    <3>2. /\ s1 \o s2 \in Seq(Task)
          /\ Len(s1 \o s2) = Len(s1) + Len(s2)
          /\ \A i \in 1..(Len(s1) + Len(s2)) : (s1 \o s2)[i] = IF i <= Len(s1) THEN s1[i] ELSE s2[i - Len(s1)]
      <4>1. s1 \in Seq(Task) /\ s2 \in Seq(Task)
        BY <2>5, <3>1, Zenon DEF s1, s2
      <4> QED BY <4>1
    <3>3. Len(s1) = n - 1 /\ Len(s2) = 2 /\ n - 1 + 2 = n + 1 /\ n \in Nat \ {0}
      BY <2>5, <3>1 DEF s1, s2
    <3> HIDE DEF n
    <3>4. \A k \in 1..(n - 1) : k \in 1..(n - 1 + 2) /\ k <= n - 1
      BY <3>3
    <3>5. n \in 1..(n - 1 + 2) /\ ~(n <= n - 1) /\ n - (n - 1) = 1
      BY <3>3
    <3>6. n + 1 \in 1..(n - 1 + 2) /\ ~(n + 1 <= n - 1) /\ n + 1 - (n - 1) = 2
      BY <3>3
    <3>7. s2[1] = A(g) /\ s2[2] = B
      BY DEF s2
    <3>8. s1 \o s2 = u
      BY DEF s1, s2, u
    <3>9. /\ u \in Seq(Task) /\ Len(u) = n - 1 + 2
          /\ \A i \in 1..(n - 1 + 2) : u[i] = IF i <= n - 1 THEN s1[i] ELSE s2[i - (n - 1)]
      BY <3>2, <3>3, <3>8, Zenon
    <3>10. \A k \in 1..(n - 1) : u[k] = s1[k]
      BY <3>4, <3>9, Zenon
    <3>11. u[n] = A(g)
      BY <3>5, <3>7, <3>9, Zenon
    <3>12. u[n + 1] = B
      <4>1. PICK m \in 1..(n - 1 + 2) : m = n + 1 /\ ~(m <= n - 1) /\ m - (n - 1) = 2
        BY <3>3, <3>6
      <4>2. u[m] = s2[m - (n - 1)]
        BY <3>9, <4>1, Zenon
      <4> QED BY <4>1, <4>2, <3>7, Zenon
    <3> QED BY <3>3, <3>9, <3>10, <3>11, <3>12, Zenon DEF s1
  <2> HIDE DEF u
  <2>7. \A k \in 1..Len(u) : Placed(u[k])
    <3> SUFFICES ASSUME NEW k \in 1..(n + 1) PROVE Placed(u[k])
      BY <2>6, Zenon
    <3>1. k \in 1..(n - 1) \/ k = n \/ k = n + 1
      BY <2>5
    <3> QED BY <3>1, <2>3, <2>4, <2>5, <2>6, Zenon
  <2>8. values \in Seq(Body) /\ request.oid \in Oid /\ tasks \in Seq(Task)
        /\ Stacked(tasks, values, request.oid) /\ \A b \in DOMAIN cache : cache[b] = b
    BY <1>1, Zenon DEF Machine, ObjectsGenuine
  <2>9. Stacked(u, values, request.oid)
    <3>1. t = tasks[n]
      BY <1>1, Top, Zenon DEF n, t
    <3>2. tasks[Len(tasks)].do = "at" /\ tasks[Len(tasks)].oid = o
      BY <1>1, <3>1, Zenon DEF t, o
    <3>3. /\ Len(u) = Len(tasks) + 1 /\ \A k \in 1..(Len(tasks) - 1) : u[k] = tasks[k]
          /\ u[Len(tasks)].do = "apply" /\ u[Len(tasks)].oid = tasks[Len(tasks)].oid
          /\ u[Len(tasks) + 1].do = "oid"
      BY <2>3, <2>4, <2>5, <2>6, <3>2, Zenon
    <3> QED BY <1>1, <2>6, <2>8, <3>2, <3>3, StackDelta, Zenon
  <2>10. tasks' = u /\ values' = values /\ cache' = cache /\ reply' = reply
    BY <1>4 DEF Continue, u
  <2> QED
    BY <1>1, <2>6, <2>7, <2>8, <2>9, <2>10, Carried, Zenon
<1> QED
  <2>1. \/ \E errors : Raise(errors)
        \/ AcceptBase(o, p, e)
        \/ /\ e.form # "base"
           /\ \E g \in Inflatable(p, e) : Continue(<<A(g), B>>)
           /\ UNCHANGED <<values, cache>>
    <3>1. CASE ~\E errors : Raise(errors)
      BY <3>1, Zenon DEF ReadPacked
    <3> QED BY <3>1, Zenon
  <2> HIDE DEF t, o, p, e, A, B
  <2>2. CASE AcceptBase(o, p, e)
    <3>1. CASE ~\E errors : Raise(errors)
      BY <2>2, <3>1, <1>3 DEF AcceptBase
    <3> QED BY <3>1, <1>2
  <2> QED BY <2>1, <2>2, <1>2, <1>4, ZenonT(40)

\* ResolveTask::ApplyDelta
LEMMA MachineApply ==
  ASSUME Machine, ApplyDelta
  PROVE  Machine'
<1> DEFINE t == Last(tasks)
           body == Applied(Last(values), t.gives)
<1>1. /\ reply = Busy /\ tasks # <<>> /\ t.do = "apply"
      /\ UNCHANGED <<disk, catalog, request>>
  BY Zenon DEF ApplyDelta, Todo
<1>2. CASE \E errors : Raise(errors)
  BY <1>1, <1>2, Dropped
<1>3. CASE /\ OidError(t.oid, body) = {} /\ values' = Append(Front(values), body)
           /\ Continue(<<>>) /\ UNCHANGED cache
  <2>1. body = t.oid
    <3> HIDE DEF t, body
    <3> QED BY <1>3, Zenon DEF OidError
  <2>2. t \in Task /\ t.oid \in Body
    <3>1. t \in Task
      BY <1>1, Top, Zenon
    <3> QED BY <3>1, Zenon DEF Task, Body
  <2>3. /\ values \in Seq(Body) /\ request.oid \in Oid /\ tasks \in Seq(Task)
        /\ Stacked(tasks, values, request.oid) /\ \A b \in DOMAIN cache : cache[b] = b
    BY <1>1, Zenon DEF Machine, ObjectsGenuine
  <2>4. values # <<>> /\ Stacked(Front(tasks), Append(Front(values), tasks[Len(tasks)].oid), request.oid)
    BY <1>1, <2>2, <2>3, Top, StackApply, Zenon
  <2>5. tasks' = Front(tasks) /\ reply' = reply /\ cache' = cache
        /\ values' = Append(Front(values), tasks[Len(tasks)].oid)
    BY <1>1, <1>3, <2>1, Top, Zenon DEF Continue
  <2>6. values' \in Seq(Body)
    <3>1. Front(values) \in Seq(Body)
      BY <2>3, <2>4, FrontOf, ZenonT(40)
    <3> HIDE DEF t
    <3> QED BY <1>3, <2>1, <2>2, <3>1
  <2> QED
    BY <1>1, <2>3, <2>4, <2>5, <2>6, Top, Carried, Zenon
<1> QED
  <2>1. \/ \E errors : Raise(errors)
        \/ /\ OidError(t.oid, body) = {} /\ values' = Append(Front(values), body)
           /\ Continue(<<>>) /\ UNCHANGED cache
    <3>1. CASE ~\E errors : Raise(errors)
      BY <3>1, ZenonT(40) DEF ApplyDelta
    <3> QED BY <3>1
  <2> QED BY <2>1, <1>2, <1>3, Zenon

\* ResolveTask::FinishOid
LEMMA MachineFinish ==
  ASSUME Machine, FinishOid
  PROVE  Machine'
<1> DEFINE t == Last(tasks)
           start == Len(values) - t.count
           first == SubSeq(values, start + 1, Len(values))[1]
<1>1. /\ reply = Busy /\ tasks # <<>> /\ t.do = "finish"
      /\ UNCHANGED <<disk, catalog, request>>
  BY Zenon DEF FinishOid, Todo
<1>2. CASE \E errors : Raise(errors)
  BY <1>1, <1>2, Dropped
<1>3. CASE /\ cache' = Insert(cache, t.oid, first)
           /\ values' = Append(SubSeq(values, 1, start), first)
           /\ Continue(<<>>)
  <2>1. t \in Task /\ t.oid \in Body /\ t = tasks[Len(tasks)] /\ t.count \in Nat \ {0}
    <3>1. t \in Task /\ t = tasks[Len(tasks)]
      BY <1>1, Top, Zenon
    <3> QED BY <1>1, <3>1, Zenon DEF Task, Body
  <2>2. /\ values \in Seq(Body) /\ request.oid \in Oid /\ tasks \in Seq(Task)
        /\ Stacked(tasks, values, request.oid) /\ \A b \in DOMAIN cache : cache[b] = b
    BY <1>1, Zenon DEF Machine, ObjectsGenuine
  <2>3. /\ start \in Nat /\ start + 1 \in 1..Len(values)
        /\ \A m \in (start + 1)..Len(values) : values[m] = t.oid
        /\ Stacked(Front(tasks), Append(SubSeq(values, 1, start), t.oid), request.oid)
    BY <1>1, <2>1, <2>2, StackFinish, ZenonT(40)
  <2> HIDE DEF start
  <2>4. first = t.oid
    <3>1. \A i \in (start + 1)..Len(values) : values[i] \in Body
      BY <2>2, <2>3
    <3>2. \A i \in 1..(Len(values) - (start + 1) + 1) :
             SubSeq(values, start + 1, Len(values))[i] = values[start + 1 + i - 1]
      <4>1. start + 1 \in Int /\ Len(values) \in Int
        BY <2>2, <2>3
      <4> QED BY <3>1, <4>1
    <3>3. 1 \in 1..(Len(values) - (start + 1) + 1) /\ start + 1 + 1 - 1 = start + 1
          /\ start + 1 \in (start + 1)..Len(values)
      BY <2>2, <2>3
    <3> QED BY <3>2, <3>3, <2>3, Zenon
  <2> HIDE DEF first
  <2>5. values' \in Seq(Body)
    <3>1. \A i \in 1..start : values[i] \in Body
      BY <2>2, <2>3
    <3>2. SubSeq(values, 1, start) \in Seq(Body)
      BY <2>3, <3>1
    <3> HIDE DEF t
    <3> QED BY <1>3, <2>1, <2>4, <3>2
  <2>6. \A b \in DOMAIN cache' : cache'[b] = b
    <3> HIDE DEF t
    <3> QED BY <1>3, <2>2, <2>4, Zenon DEF Insert
  <2>7. tasks' = Front(tasks) /\ reply' = reply
    BY <1>1, <1>3, Top, Zenon DEF Continue
  <2> QED
    BY <1>1, <1>3, <2>3, <2>4, <2>5, <2>6, <2>7, Top, Carried, ZenonT(40)
<1> QED
  <2>1. \/ \E errors : Raise(errors)
        \/ /\ cache' = Insert(cache, t.oid, first)
           /\ values' = Append(SubSeq(values, 1, start), first)
           /\ Continue(<<>>)
    <3>1. CASE ~\E errors : Raise(errors)
      BY <3>1, Zenon DEF FinishOid
    <3> QED BY <3>1, ZenonT(40)
  <2> QED BY <2>1, <1>2, <1>3, Zenon

\* The end of resolve's loop
LEMMA MachineReturn ==
  ASSUME Machine, Return
  PROVE  Machine' /\ reply'.status = "ok"
<1>1. /\ reply = Busy /\ tasks = <<>> /\ tasks' = <<>> /\ values' = <<>>
      /\ reply' = [status |-> "ok", body |-> Last(values)]
      /\ UNCHANGED <<layout, loose, listed, opened, packs, request, cache>>
  BY Zenon DEF Return, disk, catalog
<1>2. values = <<request.oid>>
  BY <1>1, Zenon DEF Machine, Stacked
<1>3. Last(values) = request.oid
  BY <1>2 DEF Last
<1>4. reply' # Busy /\ reply'.status = "ok" /\ reply'.body = request.oid
  BY <1>1, <1>3, ZenonT(40) DEF Busy
<1>5. ObjectsGenuine'
  BY <1>1, <1>4, Zenon DEF ObjectsGenuine, Machine
<1> QED
  BY <1>1, <1>4, <1>5 DEF Machine

\* resolve keeps its stacks and its cache in order.
LEMMA MachineResolve ==
  ASSUME PackedAssumption, Machine, Resolve
  PROVE  Machine'
BY MachineOid, MachineLoose, MachinePacked, MachineApply, MachineFinish, MachineReturn, Zenon DEF Resolve

\* read_object's start
LEMMA MachineRead ==
  ASSUME PackedAssumption, Machine, reply = Idle, NEW r, r.oid \in Oid, Read(r)
  PROVE  Machine'
<1> DEFINE T == [do |-> "oid", oid |-> r.oid, depth |-> 0, first |-> Locations(r.oid)]
<1>1. /\ request' = r /\ values' = values /\ cache' = cache
      /\ UNCHANGED <<layout, loose, listed, opened, packs>>
      /\ tasks = <<>> /\ values = <<>>
  BY ZenonT(40) DEF Read, Machine, disk, catalog, Idle, Busy
<1>2. CASE tasks' = tasks /\ reply' # Busy /\ reply'.status # "ok"
  <2>1. ObjectsGenuine'
    BY <1>1, <1>2, Zenon DEF Machine, ObjectsGenuine
  <2>2. tasks' = <<>> /\ 1..Len(tasks') = {}
    BY <1>1, <1>2
  <2> QED BY <1>1, <1>2, <2>1, <2>2, ZenonT(40) DEF Machine
<1>3. CASE reply' = Busy /\ tasks' = <<T>>
  <2>1. Locations(r.oid) \in Seq(Nat) /\ Sited(r.oid, Locations(r.oid))
    BY NatPacks, LocationsSited, ZenonT(40) DEF Machine
  <2>2. T \in Task /\ Placed(T)
    <3> DEFINE w == Locations(r.oid)
    <3> HIDE DEF w
    <3>1. w \in Seq(Nat) /\ Sited(r.oid, w) /\ T = [do |-> "oid", oid |-> r.oid, depth |-> 0, first |-> w]
      BY <2>1, Zenon DEF w
    <3> QED BY <3>1, Zenon DEF Task, Placed
  <2>3. Stacked(<<T>>, <<>>, r.oid)
    <3>1. T.do = "oid" /\ T.oid = r.oid
      BY Zenon
    <3> DEFINE h == [k \in 1..1 |-> 0]
    <3> HIDE DEF T
    <3>2. Heights(<<T>>, <<>>, r.oid, h, h)
      <4> DEFINE s == <<T>>
      <4>1. Len(s) = 1 /\ s[1] = T /\ 1..Len(s) = {1} /\ 2..Len(s) = {}
        OBVIOUS
      <4>2. h[1] = 0 /\ Len(<<>>) = 0
        OBVIOUS
      <4> HIDE DEF s, h
      <4>3. Founded(s[1], h[1], h[1], r.oid) /\ HasRoom(s[1], h[1], h[1])
        BY <3>1, <4>1, <4>2, Zenon DEF Founded, HasRoom
      <4>4. Filled(s[1], <<>>, h[1], h[1]) /\ TopFilled(s[1], <<>>, h[1])
        BY <3>1, <4>1, Zenon DEF Filled, TopFilled
      <4>5. s[1].do = "oid"
        BY <3>1, <4>1, Zenon
      <4>6. Heights(s, <<>>, r.oid, h, h)
        BY <4>1, <4>2, <4>3, <4>4, <4>5, ZenonT(40) DEF Heights
      <4> QED BY <4>6, Zenon DEF s
    <3>3. h \in [1..Len(<<T>>) -> Nat] /\ <<T>> # <<>>
      OBVIOUS
    <3> HIDE DEF h
    <3> QED BY <3>2, <3>3, Zenon DEF Stacked
  <2> HIDE DEF T
  <2>4. tasks' \in Seq(Task) /\ \A k \in 1..Len(tasks') : tasks'[k] = T
    BY <1>3, <2>2
  <2>8. \A k \in 1..Len(tasks') : Placed(tasks'[k])
    BY <2>2, <2>4
  <2>5. \A k \in 1..Len(tasks') : Placed(tasks[k])'
    BY <1>1, <2>8, ZenonT(40) DEF Placed, Sited, IsSite, Holds, entries
  <2>6. Stacked(tasks, values, request.oid)'
    BY <1>1, <1>3, <2>3, Zenon
  <2>7. ObjectsGenuine'
    BY <1>1, <1>3, ZenonT(40) DEF ObjectsGenuine, Machine, Busy
  <2> QED
    BY <1>1, <1>3, <2>4, <2>5, <2>6, <2>7, Zenon DEF Machine
<1> QED
  <2>1. CASE LocationsError(r.oid) # {} \/ Locations(r.oid) = <<>>
    BY <2>1, <1>2 DEF Read, Error, Busy
  <2>2. CASE ~(LocationsError(r.oid) # {} \/ Locations(r.oid) = <<>>)
    BY <2>2, <1>3, Zenon DEF Read
  <2> QED BY <2>1, <2>2, Zenon

\* Outside a read the stacks are empty.
LEMMA MachineAtRest ==
  ASSUME Machine, UNCHANGED <<layout, cache>>,
         loose' \in [Oid -> Body \cup {Absent, Odd}],
         listed' \in Seq(PackId), opened' \in Seq(PackId), packs' \in Seq(PackId),
         tasks' = <<>>, values' = <<>>, reply' # Busy,
         reply'.status = "ok" => reply'.body = request'.oid
  PROVE  Machine'
<1>1. ObjectsGenuine'
  BY Zenon DEF Machine, ObjectsGenuine
<1>2. 1..Len(tasks') = {} /\ tasks' \in Seq(Task) /\ values' \in Seq(Body)
  OBVIOUS
<1> QED
  BY <1>1, <1>2, Zenon DEF Machine

\* Steps that leave the database alone.
LEMMA MachineFrame ==
  ASSUME Machine, UNCHANGED <<layout, loose, listed, opened, packs, cache, tasks, values, request, reply>>
  PROVE  Machine'
<1>1. \A k \in 1..Len(tasks') : Placed(tasks[k])'
  BY ZenonT(40) DEF Machine, Placed, Sited, IsSite, Holds, entries
<1>2. ObjectsGenuine'
  BY Zenon DEF Machine, ObjectsGenuine
<1>3. reply' = Busy => request'.oid \in Oid /\ Stacked(tasks, values, request.oid)'
  BY Zenon DEF Machine
<1> QED
  BY <1>1, <1>2, <1>3, Zenon DEF Machine

\* Other processes change the files only.
LEMMA MachineRepacking ==
  ASSUME PackedAssumption, Machine, Repacking
  PROVE  Machine'
<1>1. UNCHANGED <<layout, listed, opened, packs, cache, tasks, values, request, reply>>
  BY Zenon DEF Repacking, WriteNewPack, RemoveOldPack, PruneLoose, RewritePack, OnlyFiles, catalog, machine
<1>2. loose' \in [Oid -> Body \cup {Absent, Odd}]
  <2>1. CASE loose' = loose
    BY <2>1, ZenonT(40) DEF Machine
  <2>2. ASSUME NEW o \in Oid, PruneLoose(o) PROVE loose' \in [Oid -> Body \cup {Absent, Odd}]
    BY <2>2, Zenon DEF Machine, PruneLoose
  <2> QED
    BY <2>1, <2>2, Zenon DEF Repacking, WriteNewPack, RemoveOldPack, RewritePack
<1>3. \A k \in 1..Len(tasks') : Placed(tasks[k])'
  <2>1. \A k \in 1..Len(tasks) : Placed(tasks[k])
    BY Zenon DEF Machine
  <2>2. layout' = layout /\ packs' = packs /\ tasks' = tasks
    BY <1>1
  <2> QED BY ONLY <2>1, <2>2, ZenonT(40) DEF Placed, Sited, IsSite, Holds, entries
<1>4. ObjectsGenuine'
  BY <1>1, Zenon DEF Machine, ObjectsGenuine
<1>5. reply' = Busy => request'.oid \in Oid /\ Stacked(tasks, values, request.oid)'
  BY <1>1, Zenon DEF Machine
<1> QED
  BY <1>1, <1>2, <1>3, <1>4, <1>5, ZenonT(40) DEF Machine

\* open: the catalog, then each pack
LEMMA MachineOpen ==
  ASSUME PackedAssumption, Machine, reply = Idle, ListCatalog \/ OpenPair \/ ValidatePack
  PROVE  Machine' /\ (reply' = Idle \/ reply'.status = "error")
<1>1. tasks = <<>> /\ values = <<>>
  BY Zenon DEF Machine, Idle, Busy
<1>2. UNCHANGED <<layout, cache, loose, tasks, values, request>>
  BY Zenon DEF ListCatalog, OpenPair, ValidatePack, disk, machine
<1>3. reply' = Idle \/ reply'.status = "error"
  <2>1. CASE ListCatalog
    BY <2>1 DEF ListCatalog, Error
  <2>2. CASE OpenPair
    BY <2>2 DEF OpenPair, Error
  <2>3. CASE ValidatePack
    <3>1. reply' = reply \/ \E e : reply' = Error(e)
      BY <2>3, Zenon DEF ValidatePack
    <3> QED BY <3>1 DEF Error
  <2> QED BY <2>1, <2>2, <2>3, Zenon
<1>4. listed' \in Seq(PackId) /\ opened' \in Seq(PackId) /\ packs' \in Seq(PackId)
  <2> listed \in Seq(PackId) /\ opened \in Seq(PackId) /\ packs \in Seq(PackId)
    BY Zenon DEF Machine
  <2>1. CASE ListCatalog
    <3> DEFINE seen == {p \in PackId : pair[p] # "absent"}
    <3>1. listed' = listed \/ listed' = CatalogOrder(seen)
      BY <2>1, Zenon DEF ListCatalog
    <3>2. CatalogOrder(seen) \in Seq(PackId)
      BY CatalogOrdered
    <3> QED BY <2>1, <3>1, <3>2, Zenon DEF ListCatalog
  <2>2. CASE OpenPair
    <3>1. Head(listed) \in PackId /\ Tail(listed) \in Seq(PackId)
      BY <2>2 DEF OpenPair
    <3>2. Append(opened, Head(listed)) \in Seq(PackId)
      BY <3>1
    <3> QED BY <2>2, <3>1, <3>2, Zenon DEF OpenPair
  <2>3. CASE ValidatePack
    <3> opened # <<>>
      BY <2>3, Zenon DEF ValidatePack
    <3>1. Head(opened) \in PackId /\ Tail(opened) \in Seq(PackId)
      OBVIOUS
    <3>2. Append(packs, Head(opened)) \in Seq(PackId)
      BY <3>1
    <3>3. /\ opened' = Tail(opened) /\ listed' = listed
          /\ packs' = packs \/ packs' = Append(packs, Head(opened))
      BY <2>3, Zenon DEF ValidatePack
    <3> QED BY <3>1, <3>2, <3>3, Zenon
  <2> QED BY <2>1, <2>2, <2>3, Zenon
<1>5. reply' # Busy /\ reply'.status # "ok"
  BY <1>3 DEF Idle, Busy
<1>6. loose' \in [Oid -> Body \cup {Absent, Odd}]
  BY <1>2, Zenon DEF Machine
<1> QED
  BY <1>1, <1>2, <1>3, <1>4, <1>5, <1>6, MachineAtRest, Zenon

-----------------------------------------------------------------------------
(* verify_unchanged *)

\* Packs that are left when the first one is done with.
LEMMA LaterPacks ==
  ASSUME NEW s \in Seq(PackId), s # <<>>, Complete(s)
  PROVE  /\ Tail(s) \in Seq(PackId) /\ Complete(Tail(s))
         /\ pair[Head(s)] = "there" /\ Changed(s) => Changed(Tail(s))
<1> DEFINE t == Tail(s)
<1>1. t \in Seq(PackId)
  OBVIOUS
<1>2. /\ Head(s) = s[1]
      /\ \A n \in 1..Len(t) : n + 1 \in 1..Len(s) /\ t[n] = s[n + 1]
      /\ \A n \in 1..Len(s) : n = 1 \/ (n - 1 \in 1..Len(t) /\ t[n - 1] = s[n])
  BY TailOf, Zenon
<1> HIDE DEF t
<1>3. Complete(t)
  BY <1>2, ZenonT(40) DEF Complete
<1>4. pair[Head(s)] = "there" /\ Changed(s) => Changed(t)
  BY <1>2 DEF Changed
<1> QED
  BY <1>1, <1>3, <1>4 DEF t

\* Packs with one more at the end.
LEMMA OneMorePack ==
  ASSUME NEW s \in Seq(PackId), Complete(s), NEW p \in PackId,
         p = NewPack => pair[NewPack] \in {"there", "rewritten"}
  PROVE  /\ Complete(Append(s, p))
         /\ Changed(s) \/ pair[p] # "there" => Changed(Append(s, p))
<1> DEFINE t == Append(s, p)
           n == Len(s)
<1>1. n \in Nat /\ Len(t) = n + 1 /\ t[n + 1] = p /\ \A i \in 1..n : t[i] = s[i]
  OBVIOUS
<1> HIDE DEF t
<1>2. n + 1 \in 1..Len(t) /\ \A i \in 1..Len(t) : i \in 1..n \/ i = n + 1
  BY <1>1
<1>3. \A i \in 1..n : i \in 1..Len(t)
  BY <1>1
<1>4. Complete(t)
  BY <1>1, <1>2, Zenon DEF Complete
<1>5. Changed(s) \/ pair[p] # "there" => Changed(t)
  BY <1>1, <1>2, <1>3, Zenon DEF Changed
<1> QED
  BY <1>4, <1>5, Zenon DEF t

\* A pair that has changed stays changed, and a complete one stays complete.
LEMMA PairsChange ==
  ASSUME PackedAssumption, pair \in [PackId -> {"absent", "half", "there", "rewritten"}], Repacking
  PROVE  /\ pair' \in [PackId -> {"absent", "half", "there", "rewritten"}]
         /\ \A p \in PackId : p # NewPack /\ pair[p] # "there" => pair'[p] # "there"
         /\ pair[NewPack] \in {"there", "rewritten"} => pair'[NewPack] \in {"there", "rewritten"}
         /\ pair[NewPack] = "rewritten" => pair'[NewPack] = "rewritten"
<1>0. NewPack \in PackId
  BY DEF PackedAssumption
<1>1. CASE pair' = pair
  BY <1>1, Zenon
<1>2. CASE WriteNewPack
  BY <1>0, <1>2, Zenon DEF WriteNewPack
<1>3. ASSUME NEW p \in PackId, RemoveOldPack(p) \/ RewritePack(p)
      PROVE  /\ pair' \in [PackId -> {"absent", "half", "there", "rewritten"}]
             /\ \A q \in PackId : q # NewPack /\ pair[q] # "there" => pair'[q] # "there"
             /\ pair[NewPack] \in {"there", "rewritten"} => pair'[NewPack] \in {"there", "rewritten"}
             /\ pair[NewPack] = "rewritten" => pair'[NewPack] = "rewritten"
  <2>1. CASE RemoveOldPack(p)
    BY <1>0, <1>3, <2>1, Zenon DEF RemoveOldPack
  <2>2. CASE RewritePack(p)
    BY <1>0, <1>3, <2>2, Zenon DEF RewritePack
  <2> QED BY <1>3, <2>1, <2>2, Zenon
<1> QED
  BY <1>1, <1>2, <1>3, Zenon DEF Repacking, PruneLoose

\* What is known of a sequence of packs survives what other processes do.
LEMMA PacksStay ==
  ASSUME PackedAssumption, pair \in [PackId -> {"absent", "half", "there", "rewritten"}], Repacking,
         NEW s \in Seq(PackId), Complete(s)
  PROVE  /\ \A n \in 1..Len(s) : s[n] = NewPack => pair'[NewPack] \in {"there", "rewritten"}
         /\ Changed(s) => \E n \in 1..Len(s) : pair'[s[n]] # "there"
<1>1. \A n \in 1..Len(s) : s[n] = NewPack => pair'[NewPack] \in {"there", "rewritten"}
  BY PairsChange, Zenon DEF Complete
<1>2. ASSUME NEW n \in 1..Len(s), pair[s[n]] # "there" PROVE pair'[s[n]] # "there"
  <2>1. s[n] \in PackId
    OBVIOUS
  <2>2. CASE s[n] = NewPack
    <3>1. pair[NewPack] = "rewritten"
      BY <1>2, <2>2, Zenon DEF Complete
    <3> QED BY <2>2, <3>1, PairsChange, Zenon
  <2>3. CASE s[n] # NewPack
    BY <1>2, <2>1, <2>3, PairsChange, Zenon
  <2> QED BY <2>2, <2>3, Zenon
<1> QED
  BY <1>1, <1>2, Zenon DEF Changed

\* Steps that use no bytes of a pair, and forget no error.
LEMMA WatchedFrame ==
  ASSUME Watched, UNCHANGED <<pair, dirty, unverified, opened, packs>>,
         reply.status = "error" => reply'.status = "error"
  PROVE  Watched'
  BY Zenon DEF Watched, Complete, Changed

\* Other processes may change a pair, but not back.
LEMMA WatchedRepacking ==
  ASSUME PackedAssumption, Machine, Watched, Repacking
  PROVE  Watched' /\ (Changed(unverified) => Changed(unverified)')
<1>1. UNCHANGED <<reply, dirty, opened, packs, unverified>>
  BY Zenon DEF Repacking, WriteNewPack, RemoveOldPack, PruneLoose, RewritePack, OnlyFiles, catalog
<1>2. /\ opened \in Seq(PackId) /\ packs \in Seq(PackId) /\ unverified \in Seq(PackId)
      /\ Complete(opened) /\ Complete(packs) /\ Complete(unverified)
      /\ pair \in [PackId -> {"absent", "half", "there", "rewritten"}]
  BY ZenonT(40) DEF Machine, Watched
<1>3. Complete(opened)' /\ Complete(packs)' /\ Complete(unverified)'
  BY <1>1, <1>2, PacksStay, ZenonT(40) DEF Complete
<1>4. (Changed(packs) => Changed(packs)') /\ (Changed(unverified) => Changed(unverified)')
  <2>1. Changed(packs) => \E n \in 1..Len(packs) : pair'[packs[n]] # "there"
    BY <1>2, PacksStay, Zenon
  <2>2. Changed(unverified) => \E n \in 1..Len(unverified) : pair'[unverified[n]] # "there"
    BY <1>2, PacksStay, Zenon
  <2> QED BY <1>1, <2>1, <2>2, ZenonT(40) DEF Changed
<1>5. pair' \in [PackId -> {"absent", "half", "there", "rewritten"}]
  BY <1>2, PairsChange, Zenon
<1> QED
  BY <1>1, <1>3, <1>4, <1>5, Zenon DEF Watched

\* ValidatedPack::open: a pack that is validated is kept to be verified.
LEMMA WatchedValidate ==
  ASSUME Machine, Watched, reply = Idle, ValidatePack
  PROVE  Watched'
<1> DEFINE p == Head(opened)
<1>1. /\ opened # <<>> /\ opened' = Tail(opened) /\ dirty' = (dirty \/ pair[p] # "there")
      /\ packs' = Append(packs, p) \/ (packs' = packs /\ \E e : reply' = Error(e))
      /\ UNCHANGED <<pair, unverified>>
  BY Zenon DEF ValidatePack, disk
<1>2. opened \in Seq(PackId) /\ packs \in Seq(PackId) /\ Complete(opened) /\ Complete(packs)
  BY Zenon DEF Machine, Watched
<1>3. p \in PackId /\ (p = NewPack => pair[NewPack] \in {"there", "rewritten"})
  <2>1. p = opened[1] /\ 1 \in 1..Len(opened) /\ p \in PackId
    BY <1>1, <1>2
  <2> QED BY <1>2, <2>1, Zenon DEF Complete
<1> HIDE DEF p
<1>4. Complete(opened)' /\ Complete(unverified)'
  <2>1. Complete(Tail(opened))
    BY <1>1, <1>2, LaterPacks, Zenon
  <2> QED BY <1>1, <2>1, Zenon DEF Watched, Complete
<1>5. dirty' \in BOOLEAN /\ (dirty => Changed(packs))
  BY <1>1, Zenon DEF Watched, Idle
<1>6. CASE packs' = Append(packs, p)
  <2>1. Complete(Append(packs, p)) /\ (Changed(packs) \/ pair[p] # "there" => Changed(Append(packs, p)))
    BY <1>2, <1>3, OneMorePack, Zenon
  <2>2. Complete(packs)' /\ (Changed(packs) \/ pair[p] # "there" => Changed(packs)')
    BY <1>1, <1>6, <2>1, Zenon DEF Complete, Changed
  <2> QED BY <1>1, <1>4, <1>5, <2>2, Zenon DEF Watched
<1>7. CASE packs' = packs /\ \E e : reply' = Error(e)
  <2>1. Complete(packs)' /\ reply'.status = "error"
    BY <1>1, <1>2, <1>7 DEF Complete, Error
  <2> QED BY <1>1, <1>4, <1>5, <2>1, Zenon DEF Watched
<1> QED
  BY <1>1, <1>6, <1>7, Zenon

\* open: what is opened is complete.
LEMMA WatchedOpen ==
  ASSUME Machine, Watched, reply = Idle, ListCatalog \/ OpenPair \/ ValidatePack
  PROVE  Watched'
<1>1. reply.status # "error"
  BY Zenon DEF Idle
<1>2. CASE ListCatalog
  BY <1>1, <1>2, WatchedFrame, Zenon DEF ListCatalog, disk
<1>3. CASE OpenPair
  <2>1. UNCHANGED <<pair, dirty, unverified, packs>> /\ listed # <<>>
    BY <1>3, Zenon DEF OpenPair, disk
  <2>2. listed \in Seq(PackId) /\ opened \in Seq(PackId) /\ Complete(opened)
    BY Zenon DEF Machine, Watched
  <2>3. Complete(opened)'
    <3>1. CASE opened' = opened
      BY <2>1, <2>2, <3>1, Zenon DEF Complete
    <3>2. CASE opened' = Append(opened, Head(listed)) /\ pair[Head(listed)] \in {"there", "rewritten"}
      <4>1. Head(listed) \in PackId
        BY <2>1, <2>2
      <4>2. Complete(Append(opened, Head(listed)))
        BY <2>2, <3>2, <4>1, OneMorePack, Zenon
      <4> QED BY <2>1, <3>2, <4>2, Zenon DEF Complete
    <3> QED BY <1>3, <3>1, <3>2, Zenon DEF OpenPair
  <2> QED BY <1>1, <2>1, <2>3, Zenon DEF Watched, Complete, Changed
<1>4. CASE ValidatePack
  BY <1>4, WatchedValidate
<1> QED
  BY <1>2, <1>3, <1>4

\* resolve: only bytes of packs that will be verified are used.
LEMMA WatchedResolve ==
  ASSUME Machine, Watched, Resolve
  PROVE  Watched'
<1>1. UNCHANGED <<pair, opened, packs, unverified>> /\ reply = Busy
  BY Zenon DEF Resolve, ResolveOid, ReadLoose, ReadPacked, ApplyDelta, FinishOid, Return, disk, catalog, Todo
<1>2. reply.status # "error" /\ (dirty => Changed(packs))
  BY <1>1, Zenon DEF Busy, Watched
<1>3. CASE dirty' = dirty
  BY <1>1, <1>2, <1>3, WatchedFrame, Zenon
<1>4. CASE ReadPacked
  <2> DEFINE p == Last(tasks).pack
  <2>1. dirty' = dirty \/ dirty' = (dirty \/ pair[p] # "there")
    BY <1>4, ZenonT(40) DEF ReadPacked
  <2>2. p \in Range(packs) /\ packs \in Seq(PackId)
    <3>1. tasks # <<>> /\ Last(tasks).do = "at" /\ p # Loose
      BY <1>4, ZenonT(40) DEF ReadPacked, Todo
    <3>2. Placed(Last(tasks))
      BY <3>1, Top, Zenon
    <3> QED BY <3>1, <3>2, Zenon DEF Placed, IsSite, Machine
  <2> HIDE DEF p
  <2>3. PICK n \in DOMAIN packs : packs[n] = p
    BY <2>2, Zenon DEF Range
  <2>4. n \in 1..Len(packs)
    BY <2>2, <2>3
  <2>5. pair[p] # "there" => Changed(packs)
    BY <2>3, <2>4, Zenon DEF Changed
  <2>6. dirty' \in BOOLEAN /\ (dirty' => Changed(packs))
    <3>1. dirty \in BOOLEAN /\ (dirty => Changed(packs))
      BY <1>2, Zenon DEF Watched
    <3>2. CASE dirty' = dirty
      BY <3>1, <3>2, Zenon
    <3>3. CASE dirty' = (dirty \/ pair[p] # "there")
      BY <2>5, <3>1, <3>3, Zenon
    <3> QED BY <2>1, <3>2, <3>3, Zenon
  <2> QED BY <1>1, <2>6, ZenonT(40) DEF Watched, Complete, Changed
<1> QED
  BY <1>3, <1>4, ZenonT(40) DEF Resolve, ResolveOid, ReadLoose, ApplyDelta, FinishOid, Return

\* verify_unchanged starts with every open pack.
LEMMA WatchedStart ==
  ASSUME Machine, Watched, reply = Idle, StartVerify
  PROVE  Machine' /\ Watched' /\ (dirty' => Changed(unverified)')
<1>1. /\ UNCHANGED <<layout, loose, pair, listed, opened, packs, cache, tasks, values, request>>
      /\ UNCHANGED <<reply, dirty>> /\ unverified' = packs
  BY Zenon DEF StartVerify, disk, machine
<1>2. Machine'
  BY <1>1, MachineFrame, Zenon
<1>3. packs \in Seq(PackId) /\ Complete(packs) /\ (dirty => Changed(packs))
  BY Zenon DEF Machine, Watched, Idle
<1>4. Complete(unverified)' /\ (Changed(packs) => Changed(unverified)')
  BY <1>1, <1>3, Zenon DEF Complete, Changed
<1>5. Watched'
  BY <1>1, <1>3, <1>4, Zenon DEF Watched, Complete, Changed
<1> QED
  BY <1>1, <1>2, <1>3, <1>4, <1>5, Zenon

\* verify_unchanged compares one pack and goes on to the next.
LEMMA WatchedPass ==
  ASSUME Machine, Watched, PassPack
  PROVE  Machine' /\ Watched' /\ (Changed(unverified) => Changed(unverified)')
<1>1. /\ UNCHANGED <<layout, loose, pair, listed, opened, packs, cache, tasks, values, request>>
      /\ UNCHANGED <<reply, dirty>> /\ unverified' = Tail(unverified)
      /\ unverified # <<>> /\ pair[Head(unverified)] = "there"
  BY Zenon DEF PassPack, Unchanged, disk, machine
<1>2. Machine'
  BY <1>1, MachineFrame, Zenon
<1>3. /\ Tail(unverified) \in Seq(PackId) /\ Complete(Tail(unverified))
      /\ Changed(unverified) => Changed(Tail(unverified))
  BY <1>1, LaterPacks, Zenon DEF Watched
<1>4. Complete(unverified)' /\ (Changed(unverified) => Changed(unverified)')
  BY <1>1, <1>3, Zenon DEF Complete, Changed
<1>5. Watched'
  BY <1>1, <1>3, <1>4, Zenon DEF Watched, Complete, Changed
<1> QED
  BY <1>2, <1>4, <1>5
===============================================================================
