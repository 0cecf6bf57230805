---------------------------- MODULE SequenceLemmas ----------------------------
(***************************************************************************)
(* Facts about sequences, recursive definitions along them and sorting     *)
(* them, and about the two stacks of PackedObjectDatabase::resolve: one of *)
(* tasks, one of the values they leave.                                    *)
(*                                                                         *)
(*   crates/codenoesis-repository/src/packed/mod.rs                        *)
(***************************************************************************)
EXTENDS Stacks, WellFoundedInduction, TLAPS

\* A set of naturals that holds 0 and with every number up to N the next one
\* holds every number up to N.
LEMMA UpTo ==
  ASSUME NEW N \in Nat, NEW S, 0 \in S,
         \A n \in 1..N : n - 1 \in S => n \in S
  PROVE  \A n \in 0..N : n \in S
<1> DEFINE B == {n \in 0..N : n \notin S}
<1> SUFFICES ASSUME B # {} PROVE FALSE
  OBVIOUS
<1>1. B \subseteq Nat
  OBVIOUS
<1>2. PICK m \in B : \A n \in B : m <= n
  <2> DEFINE R == { ss \in Nat \X Nat : ss[1] < ss[2] }
  <2>1. IsWellFoundedOn(R, Nat)
    BY NatLessThanWellFounded DEF OpToRel
  <2> HIDE DEF B
  <2>2. PICK i \in B : \A j \in B : ~(<<j, i>> \in R)
    <3> HIDE DEF R
    <3> QED BY <1>1, <2>1, WFMin, Zenon
  <2>3. ASSUME NEW j \in B PROVE i <= j
    <3>1. i \in Nat /\ j \in Nat /\ <<j, i>> \notin R
      BY <1>1, <2>2
    <3> QED
      BY <3>1
  <2> QED
    BY <2>3
<1>3. m # 0 /\ m \in 1..N
  OBVIOUS
<1>4. m - 1 \in 0..N /\ m - 1 \notin B
  BY <1>2, <1>3
<1> QED
  BY <1>3, <1>4

\* A recursive definition along 0..N, from a and by F, with values in V.
Defines(V, N, a, F) == N \in Nat /\ a \in V /\ F \in [1..N -> [V -> V]]

\* Such a definition has a solution.
LEMMA Recursion ==
  ASSUME NEW V, NEW N, NEW a, NEW F, Defines(V, N, a, F)
  PROVE  \E f \in [0..N -> V] : f[0] = a /\ \A n \in 1..N : f[n] = F[n][f[n - 1]]
<1> USE DEF Defines
<1> DEFINE Solves(f, m) == f[0] = a /\ \A n \in 1..m : f[n] = F[n][f[n - 1]]
           S == {m \in 0..N : \E f \in [0..m -> V] : Solves(f, m)}
<1>1. 0 \in S
  <2>1. [n \in 0..0 |-> a] \in [0..0 -> V] /\ Solves([n \in 0..0 |-> a], 0)
    OBVIOUS
  <2> HIDE DEF Solves
  <2> QED
    BY <2>1
<1>2. ASSUME NEW m \in 1..N, m - 1 \in S PROVE m \in S
  <2>1. PICK f \in [0..(m - 1) -> V] : Solves(f, m - 1)
    BY <1>2
  <2> DEFINE g == [n \in 0..m |-> IF n = m THEN F[m][f[m - 1]] ELSE f[n]]
  <2>2. F[m] \in [V -> V] /\ f[m - 1] \in V
    OBVIOUS
  <2>3. g \in [0..m -> V]
    BY <2>2
  <2>4. g[0] = a
    BY <2>1
  <2>5. ASSUME NEW n \in 1..m PROVE g[n] = F[n][g[n - 1]]
    <3>1. CASE n = m
      BY <3>1
    <3>2. CASE n # m
      <4>1. n \in 1..(m - 1) /\ n \in 0..m /\ n - 1 \in 0..m /\ n - 1 # m
        BY <3>2
      <4>2. g[n] = f[n] /\ g[n - 1] = f[n - 1]
        BY <4>1, <3>2
      <4> QED
        BY <4>1, <4>2, <2>1
    <3> QED
      BY <3>1, <3>2
  <2> HIDE DEF g
  <2>6. Solves(g, m)
    BY <2>4, <2>5
  <2> HIDE DEF Solves
  <2>7. m \in 0..N
    OBVIOUS
  <2> QED
    BY <2>3, <2>6, <2>7
<1> HIDE DEF S
<1>3. N \in S
  BY <1>1, <1>2, UpTo, N \in 0..N, Zenon
<1> QED
  BY <1>3 DEF S

\* The rearrangement r of 1..m puts the keys k in ascending order.
Sorts(r, k, m) ==
    /\ r \in [1..m -> 1..m]
    /\ \A i, j \in 1..m : r[i] = r[j] => i = j
    /\ \A i \in 1..m : \E j \in 1..m : r[j] = i
    /\ \A i, j \in 1..m : i < j => k[r[i]] <= k[r[j]]

\* Every sequence of integers can be arranged in ascending order.
LEMMA Sorting ==
  ASSUME NEW N \in Nat, NEW k \in [1..N -> Int]
  PROVE  \E r : Sorts(r, k, N)
<1> DEFINE S == {m \in 0..N : \E r : Sorts(r, k, m)}
<1>1. 0 \in S
  <2>1. Sorts([i \in 1..0 |-> i], k, 0)
    BY DEF Sorts
  <2> QED
    BY <2>1
<1>2. ASSUME NEW m \in 1..N, m - 1 \in S PROVE m \in S
  <2>1. PICK r : Sorts(r, k, m - 1)
    BY <1>2
  <2>2. \E p \in 1..m : /\ \A i \in 1..(p - 1) : k[r[i]] <= k[m]
                       /\ \A i \in p..(m - 1) : k[m] <= k[r[i]]
    <3> DEFINE G == {n \in 0..(m - 1) : \A i \in 1..n : k[r[i]] <= k[m]}
               T == {n \in 0..(m - 1) : n \in G \/ \E p \in 1..n : /\ \A i \in 1..(p - 1) : k[r[i]] <= k[m]
                                                               /\ \A i \in p..(m - 1) : k[m] <= k[r[i]]}
    <3>1. 0 \in T
      OBVIOUS
    <3>2. ASSUME NEW n \in 1..(m - 1), n - 1 \in T PROVE n \in T
      <4>1. CASE n - 1 \in G /\ k[r[n]] <= k[m]
        <5>1. n \in G
          BY <4>1
        <5> QED BY <5>1
      <4>2. CASE n - 1 \in G /\ ~(k[r[n]] <= k[m])
        <5>1. \A i \in n..(m - 1) : k[m] <= k[r[i]]
          <6> SUFFICES ASSUME NEW i \in n..(m - 1) PROVE k[m] <= k[r[i]]
            OBVIOUS
          <6> HIDE DEF G, T
          <6>0. n \in 1..(m - 1) /\ i \in 1..(m - 1) /\ (n = i \/ n < i)
            OBVIOUS
          <6>2. r[n] \in 1..(m - 1) /\ r[i] \in 1..(m - 1)
            BY <2>1, <6>0, Zenon DEF Sorts
          <6>3. k[r[n]] \in Int /\ k[r[i]] \in Int /\ k[m] \in Int
            BY <6>2, SMTT(30)
          <6>1. k[r[n]] <= k[r[i]]
            <7>1. n < i => k[r[n]] <= k[r[i]]
              BY <2>1, <6>0, Zenon DEF Sorts
            <7> QED BY <7>1, <6>0, <6>3
          <6> QED
            BY <6>1, <6>3, <4>2, SMTT(30)
        <5>2. n \in 1..n /\ n \in 0..(m - 1) /\ \A i \in 1..(n - 1) : k[r[i]] <= k[m]
          BY <4>2
        <5> QED
          BY <5>1, <5>2, Zenon
      <4>3. CASE n - 1 \notin G
        <5>1. PICK p \in 1..(n - 1) : /\ \A i \in 1..(p - 1) : k[r[i]] <= k[m]
                                    /\ \A i \in p..(m - 1) : k[m] <= k[r[i]]
          BY <4>3, <3>2
        <5>2. p \in 1..n /\ n \in 0..(m - 1)
          OBVIOUS
        <5> QED
          BY <5>1, <5>2, Zenon
      <4> QED
        BY <4>1, <4>2, <4>3
    <3>3. m - 1 \in T
      <4> HIDE DEF T
      <4> QED BY <3>1, <3>2, UpTo, m - 1 \in Nat, m - 1 \in 0..(m - 1), Zenon
    <3>4. CASE m - 1 \in G
      <4>1. m \in 1..m /\ \A i \in m..(m - 1) : k[m] <= k[r[i]]
        OBVIOUS
      <4> QED BY <3>4, <4>1
    <3>5. CASE m - 1 \notin G
      <4>1. PICK p \in 1..(m - 1) : /\ \A i \in 1..(p - 1) : k[r[i]] <= k[m]
                                  /\ \A i \in p..(m - 1) : k[m] <= k[r[i]]
        BY <3>3, <3>5
      <4>2. p \in 1..m
        OBVIOUS
      <4> QED BY <4>1, <4>2, Zenon
    <3> QED
      BY <3>4, <3>5
  <2>3. PICK p \in 1..m : /\ \A i \in 1..(p - 1) : k[r[i]] <= k[m]
                        /\ \A i \in p..(m - 1) : k[m] <= k[r[i]]
    BY <2>2, Zenon
  <2> DEFINE q == [i \in 1..m |-> IF i < p THEN r[i] ELSE IF i = p THEN m ELSE r[i - 1]]
  <2>4. ASSUME NEW i \in 1..m, i < p PROVE i \in 1..(m - 1) /\ q[i] = r[i]
    BY <2>4
  <2>5. q[p] = m
    OBVIOUS
  <2>6. ASSUME NEW i \in 1..m, p < i PROVE i - 1 \in 1..(m - 1) /\ i - 1 \in p..(m - 1) /\ q[i] = r[i - 1]
    BY <2>6
  <2>7. /\ \A i \in 1..(m - 1) : r[i] \in 1..(m - 1)
        /\ \A x, y \in 1..(m - 1) : r[x] = r[y] => x = y
        /\ \A i \in 1..(m - 1) : \E j \in 1..(m - 1) : r[j] = i
        /\ \A x, y \in 1..(m - 1) : x < y => k[r[x]] <= k[r[y]]
    BY <2>1, Zenon DEF Sorts
  <2> DEFINE From(i) == IF i < p THEN i ELSE i - 1
  <2>8. ASSUME NEW i \in 1..m, i # p
        PROVE  From(i) \in 1..(m - 1) /\ q[i] = r[From(i)] /\ q[i] \in 1..(m - 1)
    <3>1. From(i) \in 1..(m - 1) /\ q[i] = r[From(i)]
      BY <2>4, <2>6, <2>8
    <3> HIDE DEF From
    <3> QED BY <3>1, <2>7, Zenon
  <2> HIDE DEF q
  <2>9. q \in [1..m -> 1..m]
    <3>1. \A i \in 1..m : q[i] \in 1..m
      BY <2>5, <2>8
    <3> QED BY <3>1, Zenon DEF q
  <2>11. ASSUME NEW i \in 1..m, NEW j \in 1..m, q[i] = q[j] PROVE i = j
    <3>1. CASE i = p \/ j = p
      <4>1. i # p => q[i] \in 1..(m - 1)
        BY <2>8
      <4>2. j # p => q[j] \in 1..(m - 1)
        BY <2>8
      <4> QED BY <4>1, <4>2, <3>1, <2>5, <2>11
    <3>2. CASE i # p /\ j # p
      <4>1. From(i) = From(j)
        <5> HIDE DEF From
        <5>1. From(i) \in 1..(m - 1) /\ q[i] = r[From(i)]
          BY <2>8, <3>2
        <5>2. From(j) \in 1..(m - 1) /\ q[j] = r[From(j)]
          BY <2>8, <3>2
        <5> QED BY <5>1, <5>2, <2>7, <2>11, Zenon
      <4> QED BY <4>1, <3>2
    <3> QED BY <3>1, <3>2
  <2>12. ASSUME NEW i \in 1..m PROVE \E j \in 1..m : q[j] = i
    <3>1. CASE i = m
      BY <2>5, <3>1
    <3>2. CASE i # m
      <4>1. PICK j \in 1..(m - 1) : r[j] = i
        BY <2>7, <3>2, i \in 1..(m - 1), Zenon
      <4>2. CASE j < p
        BY <4>1, <4>2, <2>4, j \in 1..m
      <4>3. CASE ~(j < p)
        <5>1. j + 1 \in 1..m /\ p < j + 1 /\ (j + 1) - 1 = j
          BY <4>3
        <5>2. q[j + 1] = r[(j + 1) - 1]
          BY <5>1, <2>6
        <5> QED
          BY <4>1, <5>1, <5>2
      <4> QED
        BY <4>2, <4>3
    <3> QED
      BY <3>1, <3>2
  <2>13. ASSUME NEW i \in 1..m, NEW j \in 1..m, i < j PROVE k[q[i]] <= k[q[j]]
    <3>1. CASE i = p
      <4>1. j - 1 \in p..(m - 1) /\ q[j] = r[j - 1]
        BY <2>6, <2>13, <3>1
      <4> QED BY <4>1, <2>3, <2>5, <3>1
    <3>2. CASE j = p
      <4>1. i \in 1..(p - 1) /\ q[i] = r[i]
        BY <2>4, <2>13, <3>2
      <4> QED BY <4>1, <2>3, <2>5, <3>2
    <3>3. CASE i # p /\ j # p
      <4>1. From(i) < From(j)
        BY <2>13, <3>3
      <4> HIDE DEF From
      <4>2. From(i) \in 1..(m - 1) /\ q[i] = r[From(i)]
        BY <2>8, <3>3
      <4>3. From(j) \in 1..(m - 1) /\ q[j] = r[From(j)]
        BY <2>8, <3>3
      <4> QED BY <4>1, <4>2, <4>3, <2>7, Zenon
    <3> QED
      BY <3>1, <3>2, <3>3
  <2>14. Sorts(q, k, m)
    BY <2>9, <2>11, <2>12, <2>13, Zenon DEF Sorts
  <2> QED
    BY <2>14
<1> HIDE DEF S
<1>3. N \in S
  BY <1>1, <1>2, UpTo, N \in 0..N, Zenon
<1> QED
  BY <1>3 DEF S

\* A sequence without its last element.
LEMMA FrontOf ==
  ASSUME NEW S, NEW s \in Seq(S), s # <<>>
  PROVE  /\ Front(s) \in Seq(S) /\ Len(Front(s)) = Len(s) - 1
         /\ \A i \in 1..(Len(s) - 1) : Front(s)[i] = s[i]
<1>1. Len(s) \in Nat \ {0} /\ \A i \in 1..(Len(s) - 1) : s[i] \in S
  OBVIOUS
<1> DEFINE n == Len(s) - 1
<1>2. n \in Int /\ 1 \in Int
  BY <1>1
<1> HIDE DEF n
<1>3. /\ SubSeq(s, 1, n) \in Seq(S)
      /\ Len(SubSeq(s, 1, n)) = IF 1 <= n THEN n - 1 + 1 ELSE 0
      /\ \A i \in 1..(n - 1 + 1) : SubSeq(s, 1, n)[i] = s[1 + i - 1]
  BY <1>1, <1>2 DEF n
<1>4. /\ Len(SubSeq(s, 1, n)) = n
      /\ \A i \in 1..n : SubSeq(s, 1, n)[i] = s[i]
  <2>1. \A i \in 1..n : i \in 1..(n - 1 + 1) /\ 1 + i - 1 = i
    BY <1>2
  <2>2. \A i \in 1..n : SubSeq(s, 1, n)[i] = s[i]
    BY <1>3, <2>1
  <2>3. n \in Nat
    BY <1>1 DEF n
  <2>4. Len(SubSeq(s, 1, n)) = n
    BY <1>3, <2>3
  <2> QED
    BY <2>2, <2>4, Zenon
<1> QED
  BY <1>3, <1>4 DEF Front, n

\* A function on 1..n is a sequence.
LEMMA Listing ==
  ASSUME NEW S, NEW n \in Nat, NEW s \in [1..n -> S]
  PROVE  s \in Seq(S) /\ Len(s) = n /\ DOMAIN s = 1..n
<1>1. s \in UNION {[1..m -> S] : m \in Nat}
  OBVIOUS
<1>2. s \in Seq(S)
  BY <1>1
<1>3. DOMAIN s = 1..n /\ DOMAIN s = 1..Len(s) /\ Len(s) \in Nat
  BY <1>2
<1>4. Len(s) = n
  BY <1>3
<1> QED
  BY <1>2, <1>3, <1>4

\* A sequence of length one.
LEMMA OnlyOne ==
  ASSUME NEW S, NEW s \in Seq(S), Len(s) = 1
  PROVE  s = <<s[1]>>
  OBVIOUS

\* The walk without its first entry.
LEMMA TailOf ==
  ASSUME NEW S, NEW w \in Seq(S), w # <<>>
  PROVE  /\ Head(w) = w[1] /\ Head(w) \in S /\ 1 \in 1..Len(w) /\ Len(Tail(w)) = Len(w) - 1
         /\ \A n \in 1..Len(Tail(w)) : n + 1 \in 1..Len(w) /\ Tail(w)[n] = w[n + 1]
         /\ \A n \in 1..Len(w) : n = 1 \/ (n - 1 \in 1..Len(Tail(w)) /\ Tail(w)[n - 1] = w[n])
<1> DEFINE t == Tail(w)
<1>1. Head(w) = w[1] /\ Head(w) \in S /\ Len(w) \in Nat \ {0}
  OBVIOUS
<1>2. Len(t) = Len(w) - 1 /\ \A n \in 1..Len(t) : t[n] = w[n + 1]
  OBVIOUS
<1> HIDE DEF t
<1>3. ASSUME NEW n \in 1..Len(w), n # 1 PROVE n - 1 \in 1..Len(t) /\ t[n - 1] = w[n]
  <2>1. PICK m \in 1..Len(t) : m = n - 1 /\ m + 1 = n
    BY <1>1, <1>2, <1>3
  <2> QED BY <1>2, <2>1
<1> QED
  BY <1>1, <1>2, <1>3 DEF t

\* A path is its parent's with one more component.
LEMMA Parent ==
  ASSUME NEW S, NEW p \in Seq(S), p # <<>>
  PROVE  /\ Front(p) \in Seq(S) /\ Last(p) \in S /\ p = Append(Front(p), Last(p))
         /\ Front(p) # <<>> => Front(p)[1] = p[1]
<1> DEFINE q == Front(p)
           n == Len(p)
<1>1. n \in Nat \ {0} /\ p[n] \in S /\ Last(p) = p[n]
  BY DEF Last
<1>2. q \in Seq(S) /\ Len(q) = n - 1 /\ \A i \in 1..(n - 1) : q[i] = p[i]
  BY FrontOf
<1> HIDE DEF q
<1> DEFINE r == Append(q, p[n])
<1>3. r \in Seq(S) /\ Len(r) = Len(q) + 1 /\ r[Len(q) + 1] = p[n] /\ \A i \in 1..Len(q) : r[i] = q[i]
  BY <1>1, <1>2
<1> HIDE DEF r
<1>4. r = p
  <2>1. Len(r) = n
    BY <1>1, <1>2, <1>3
  <2>2. ASSUME NEW i \in 1..n PROVE r[i] = p[i]
    BY <1>1, <1>2, <1>3
  <2> HIDE DEF n
  <2> QED BY <1>3, <2>1, <2>2 DEF n
<1>5. q # <<>> => q[1] = p[1]
  BY <1>1, <1>2
<1> QED
  BY <1>1, <1>2, <1>4, <1>5 DEF q, r

\* What comes of adding a component.
LEMMA Child ==
  ASSUME NEW S, NEW p \in Seq(S), NEW x \in S
  PROVE  /\ Append(p, x) \in Seq(S) /\ Append(p, x) # <<>> /\ Front(Append(p, x)) = p
         /\ p # <<>> => Append(p, x)[1] = p[1]
         /\ p = <<>> => Append(p, x) = <<x>>
<1> DEFINE r == Append(p, x)
<1>1. r \in Seq(S) /\ Len(r) = Len(p) + 1 /\ \A i \in 1..Len(p) : r[i] = p[i]
  OBVIOUS
<1>2. p = <<>> => r = <<x>>
  OBVIOUS
<1> HIDE DEF r
<1>3. r # <<>>
  BY <1>1
<1>4. p # <<>> => r[1] = p[1]
  BY <1>1
<1>5. Front(r) = p
  <2> DEFINE q == Front(r)
  <2>1. q \in Seq(S) /\ Len(q) = Len(r) - 1 /\ \A i \in 1..(Len(r) - 1) : q[i] = r[i]
    BY <1>1, <1>3, FrontOf
  <2> HIDE DEF q
  <2>2. Len(q) = Len(p) /\ \A i \in 1..Len(p) : q[i] = p[i]
    BY <1>1, <2>1
  <2>3. q = p
    BY <2>1, <2>2
  <2> QED BY <2>3 DEF q
<1> QED
  BY <1>1, <1>2, <1>3, <1>4, <1>5 DEF r

\* The start of a sequence is a sequence.
LEMMA Prefix ==
  ASSUME NEW S, NEW s \in Seq(S), NEW n \in 0..Len(s)
  PROVE  /\ SubSeq(s, 1, n) \in Seq(S) /\ Len(SubSeq(s, 1, n)) = n
         /\ \A i \in 1..n : SubSeq(s, 1, n)[i] = s[i]
  OBVIOUS

\* Sequences that agree up to n start alike.
LEMMA SamePrefix ==
  ASSUME NEW S, NEW s \in Seq(S), NEW t \in Seq(S), NEW n \in Nat, n <= Len(s), n <= Len(t),
         \A i \in 1..n : s[i] = t[i]
  PROVE  SubSeq(s, 1, n) = SubSeq(t, 1, n)
<1> DEFINE a == SubSeq(s, 1, n)
           b == SubSeq(t, 1, n)
<1>1. n \in 0..Len(s) /\ n \in 0..Len(t)
  OBVIOUS
<1>2. a \in Seq(S) /\ Len(a) = n /\ \A i \in 1..n : a[i] = s[i]
  BY <1>1, Prefix
<1>3. b \in Seq(S) /\ Len(b) = n /\ \A i \in 1..n : b[i] = t[i]
  BY <1>1, Prefix
<1> HIDE DEF a, b
<1>4. a = b
  BY <1>2, <1>3
<1> QED
  BY <1>4 DEF a, b

\* A sequence starts with itself.
LEMMA WholePrefix ==
  ASSUME NEW S, NEW s \in Seq(S)
  PROVE  SubSeq(s, 1, Len(s)) = s
<1> DEFINE a == SubSeq(s, 1, Len(s))
<1>1. Len(s) \in 0..Len(s)
  OBVIOUS
<1>2. a \in Seq(S) /\ Len(a) = Len(s) /\ \A i \in 1..Len(s) : a[i] = s[i]
  BY <1>1, Prefix
<1> HIDE DEF a
<1>3. a = s
  BY <1>2
<1> QED
  BY <1>3 DEF a

\* p and q part at a component where p has the lower name.
Below(p, q) ==
    \E n \in 1..Len(p) : n <= Len(q) /\ p[n] < q[n] /\ \A k \in 1..(n - 1) : p[k] = q[k]

\* How the order of paths goes on below a directory.
LEMMA BelowKids ==
  ASSUME NEW p \in Seq(Int), NEW x \in Int, NEW y \in Int, x < y
  PROVE  Below(Append(p, x), Append(p, y))
<1> DEFINE q == Append(p, x)
           r == Append(p, y)
           n == Len(p) + 1
<1>1. /\ Len(q) = n /\ q[n] = x /\ \A i \in 1..Len(p) : q[i] = p[i]
      /\ Len(r) = n /\ r[n] = y /\ \A i \in 1..Len(p) : r[i] = p[i]
      /\ n \in 1..n /\ n <= n /\ 1..(n - 1) = 1..Len(p)
  OBVIOUS
<1> HIDE DEF q, r, n
<1>2. n \in 1..Len(q) /\ n <= Len(r) /\ q[n] < r[n] /\ \A k \in 1..(n - 1) : q[k] = r[k]
  BY <1>1, Zenon
<1> QED
  BY <1>2 DEF Below, q, r

\* A path below another stays below it with a component added.
LEMMA BelowLeft ==
  ASSUME NEW p \in Seq(Int), NEW q \in Seq(Int), NEW x \in Int, Below(p, q)
  PROVE  Below(Append(p, x), q)
<1> DEFINE r == Append(p, x)
<1>1. PICK n \in 1..Len(p) : n <= Len(q) /\ p[n] < q[n] /\ \A k \in 1..(n - 1) : p[k] = q[k]
  BY DEF Below
<1>2. Len(r) = Len(p) + 1 /\ \A i \in 1..Len(p) : r[i] = p[i]
  OBVIOUS
<1> HIDE DEF r
<1>3. n \in 1..Len(r) /\ \A k \in 1..(n - 1) : k \in 1..Len(p)
  BY <1>2
<1> QED
  BY <1>1, <1>2, <1>3, Zenon DEF Below, r

\* A path stays below another to which a component is added.
LEMMA BelowRight ==
  ASSUME NEW p \in Seq(Int), NEW q \in Seq(Int), NEW x \in Int, Below(q, p)
  PROVE  Below(q, Append(p, x))
<1> DEFINE r == Append(p, x)
<1>1. PICK n \in 1..Len(q) : n <= Len(p) /\ q[n] < p[n] /\ \A k \in 1..(n - 1) : q[k] = p[k]
  BY DEF Below
<1>2. Len(r) = Len(p) + 1 /\ \A i \in 1..Len(p) : r[i] = p[i]
  OBVIOUS
<1> HIDE DEF r
<1>3. n \in 1..Len(p) /\ n <= Len(r) /\ \A k \in 1..(n - 1) : k \in 1..Len(p)
  BY <1>1, <1>2
<1> QED
  BY <1>1, <1>2, <1>3, Zenon DEF Below, r

\* A sequence over a set is one over a larger set.
LEMMA Widen ==
  ASSUME NEW A, NEW B, A \subseteq B, NEW s \in Seq(A)
  PROVE  s \in Seq(B)
<1>1. Len(s) \in Nat /\ s \in [1..Len(s) -> A]
  OBVIOUS
<1>2. s \in [1..Len(s) -> B]
  BY <1>1
<1> QED
  BY <1>1, <1>2, Listing

\* What is where in a sequence r made of two.
Joins(q, w, r) ==
    /\ Len(r) = Len(q) + Len(w)
    /\ \A i \in 1..Len(q) : i \in 1..Len(r) /\ r[i] = q[i]
    /\ \A i \in 1..Len(w) : Len(q) + i \in 1..Len(r) /\ r[Len(q) + i] = w[i]
    /\ \A i \in 1..Len(r) : i \in 1..Len(q) \/ (\E j \in 1..Len(w) : i = Len(q) + j)

\* The sequence q, then the sequence w.
LEMMA Joined ==
  ASSUME NEW S, NEW q \in Seq(S), NEW w \in Seq(S), NEW r, r = q \o w
  PROVE  r \in Seq(S) /\ Joins(q, w, r)
<1> DEFINE n == Len(q)
           m == Len(w)
<1>1. n \in Nat /\ m \in Nat
  OBVIOUS
<1>2. /\ r \in Seq(S) /\ Len(r) = n + m
      /\ \A i \in 1..(n + m) : r[i] = IF i <= n THEN q[i] ELSE w[i - n]
  OBVIOUS
<1> HIDE DEF n, m
<1>3. \A i \in 1..n : i \in 1..(n + m) /\ r[i] = q[i]
  BY <1>1, <1>2
<1>4. ASSUME NEW i \in 1..m PROVE n + i \in 1..(n + m) /\ r[n + i] = w[i]
  <2>1. PICK j \in 1..(n + m) : j = n + i /\ ~(j <= n) /\ j - n = i
    BY <1>1
  <2>2. r[j] = w[j - n]
    BY <1>2, <2>1
  <2> QED BY <2>1, <2>2
<1>5. ASSUME NEW i \in 1..(n + m) PROVE i \in 1..n \/ (\E j \in 1..m : i = n + j)
  <2>1. CASE i <= n
    BY <2>1, <1>1
  <2>2. CASE ~(i <= n)
    <3>1. i - n \in 1..m /\ i = n + (i - n)
      BY <2>2, <1>1
    <3> QED BY <3>1
  <2> QED BY <2>1, <2>2
<1> QED
  BY <1>2, <1>3, <1>4, <1>5 DEF n, m, Joins

-----------------------------------------------------------------------------
(* The stacks of resolve *)

\* The task above rests on the task below: h is the number of values when a task
\* comes to the top, l the number below those of the object it works for.
Rests(below, above, hb, ha, lb, la) ==
    \/ above.do = "oid" /\ below.do = "apply" /\ hb = ha + 1 /\ la = ha
    \/ above.do = "finish" /\ below.do = "apply" /\ la + above.count = ha /\ hb = la + 1
    \/ above.do = "at" /\ below.do \in {"at", "finish"} /\ below.oid = above.oid
       /\ lb = la /\ hb = ha + 1
    \/ above.do = "apply" /\ below.do \in {"at", "finish"} /\ below.oid = above.oid
       /\ lb = la /\ hb = ha

Founded(task, h, l, o) ==
    /\ task.oid = o /\ l = 0
    /\ \/ task.do = "oid" /\ h = 0
       \/ task.do = "finish" /\ h = task.count

HasRoom(task, h, l) ==
    /\ task.do = "at" => l <= h
    /\ task.do = "apply" => l + 1 <= h
    /\ task.do = "finish" => l + task.count = h
    /\ task.do = "oid" => l = h

\* The values of an object that are there while a base is looked for.
Filled(task, v, h, l) ==
    task.do = "apply" => \A m \in 1..Len(v) : l < m /\ m < h => v[m] = task.oid

\* The values of the object on top.
TopFilled(task, v, l) ==
    task.do \in {"at", "finish"} => \A m \in 1..Len(v) : l < m => v[m] = task.oid

Heights(t, v, o, h, l) ==
    /\ h[Len(t)] = Len(v)
    /\ Founded(t[1], h[1], l[1], o)
    /\ \A k \in 2..Len(t) : Rests(t[k - 1], t[k], h[k - 1], h[k], l[k - 1], l[k])
    /\ \A k \in 1..Len(t) : HasRoom(t[k], h[k], l[k])
    /\ \A i, j \in 1..Len(t) : i < j /\ t[i].do = "apply" => h[i] <= l[j] + 1
    /\ \A k \in 1..Len(t) : Filled(t[k], v, h[k], l[k])
    /\ \A k \in 1..Len(t) : t[k].do = "oid" => k = Len(t)
    /\ TopFilled(t[Len(t)], v, l[Len(t)])

\* The stacks of resolve fit each other: what is left to do leaves the object o.
Stacked(t, v, o) ==
    IF t = <<>> THEN v = <<o>>
    ELSE \E h, l \in [1..Len(t) -> Nat] : Heights(t, v, o, h, l)

\* The task on top is done and the values are w, as the task below expects them.
LEMMA StackPop ==
  ASSUME NEW T, NEW t \in Seq(T), NEW v, NEW B, NEW w \in Seq(B), NEW o, Len(t) > 1,
         NEW h \in [1..Len(t) -> Nat], NEW l \in [1..Len(t) -> Nat], Heights(t, v, o, h, l),
         h[Len(t) - 1] = Len(w),
         \A k \in 1..(Len(t) - 1) : Filled(t[k], w, h[k], l[k]),
         TopFilled(t[Len(t) - 1], w, l[Len(t) - 1])
  PROVE  Stacked(Front(t), w, o)
<1> DEFINE N == Len(t)
           u == Front(t)
           g == [k \in 1..(N - 1) |-> h[k]]
           b == [k \in 1..(N - 1) |-> l[k]]
<1>1. N \in Nat /\ t \in [1..N -> T] /\ N - 1 \in 1..(N - 1) /\ 1 \in 1..(N - 1)
  OBVIOUS
<1>2. /\ u \in Seq(T) /\ Len(u) = N - 1
      /\ \A k \in 1..(N - 1) : u[k] = t[k]
  BY <1>1, t # <<>>, FrontOf, Zenon
<1>3. g \in [1..(N - 1) -> Nat] /\ b \in [1..(N - 1) -> Nat] /\ u # <<>>
  BY <1>1, <1>2
<1>4. \A k \in 1..(N - 1) : u[k] = t[k] /\ g[k] = h[k] /\ b[k] = l[k] /\ k \in 1..N /\ k # N
  BY <1>2
<1>5. /\ Founded(t[1], h[1], l[1], o)
      /\ \A k \in 2..N : Rests(t[k - 1], t[k], h[k - 1], h[k], l[k - 1], l[k])
      /\ \A k \in 1..N : HasRoom(t[k], h[k], l[k])
      /\ \A i, j \in 1..N : i < j /\ t[i].do = "apply" => h[i] <= l[j] + 1
      /\ \A k \in 1..N : t[k].do = "oid" => k = N
  BY DEF Heights
<1>6. \A k \in 2..(N - 1) : Rests(u[k - 1], u[k], g[k - 1], g[k], b[k - 1], b[k])
  <2> SUFFICES ASSUME NEW k \in 2..(N - 1) PROVE Rests(u[k - 1], u[k], g[k - 1], g[k], b[k - 1], b[k])
    BY Zenon
  <2>1. k - 1 \in 1..(N - 1) /\ k \in 1..(N - 1) /\ k \in 2..N
    OBVIOUS
  <2>2. /\ u[k - 1] = t[k - 1] /\ u[k] = t[k] /\ g[k - 1] = h[k - 1] /\ g[k] = h[k]
        /\ b[k - 1] = l[k - 1] /\ b[k] = l[k]
    BY <1>4, <2>1
  <2> QED
    BY <1>5, <2>1, <2>2
<1> HIDE DEF u, g, b
<1>7. /\ g[N - 1] = Len(w)
      /\ Founded(u[1], g[1], b[1], o)
      /\ \A k \in 1..(N - 1) : HasRoom(u[k], g[k], b[k]) /\ Filled(u[k], w, g[k], b[k])
      /\ TopFilled(u[N - 1], w, b[N - 1])
  BY <1>1, <1>4, <1>5, Zenon
<1>8. /\ \A i, j \in 1..(N - 1) : i < j /\ u[i].do = "apply" => g[i] <= b[j] + 1
      /\ \A k \in 1..(N - 1) : u[k].do = "oid" => k = N - 1
  BY <1>4, <1>5, Zenon
<1>9. Heights(u, w, o, g, b)
  BY <1>2, <1>6, <1>7, <1>8 DEF Heights
<1> QED
  BY <1>2, <1>3, <1>9, Zenon DEF Stacked, u

\* The top of the stack delivers its object.
LEMMA StackDeliver ==
  ASSUME NEW T, NEW t \in Seq(T), NEW B, NEW v \in Seq(B), NEW o, Stacked(t, v, o),
         t # <<>>, t[Len(t)].do \in {"oid", "at"}, t[Len(t)].oid \in B
  PROVE  Stacked(Front(t), Append(v, t[Len(t)].oid), o)
<1> DEFINE N == Len(t)
           u == Front(t)
           x == t[N].oid
           w == Append(v, x)
<1>1. N \in Nat \ {0} /\ t \in [1..N -> T]
  OBVIOUS
<1>2. x \in B
  OBVIOUS
<1>3. /\ u \in Seq(T) /\ Len(u) = N - 1
      /\ \A k \in 1..(N - 1) : u[k] = t[k]
  BY <1>1, FrontOf, Zenon
<1>4. /\ w \in Seq(B) /\ Len(w) = Len(v) + 1 /\ w[Len(v) + 1] = x
      /\ \A m \in 1..Len(v) : w[m] = v[m]
  BY <1>2
<1>5. PICK h, l \in [1..N -> Nat] : Heights(t, v, o, h, l)
  BY DEF Stacked
<1>6. /\ h[N] = Len(v)
      /\ Founded(t[1], h[1], l[1], o)
      /\ \A k \in 2..N : Rests(t[k - 1], t[k], h[k - 1], h[k], l[k - 1], l[k])
      /\ \A k \in 1..N : HasRoom(t[k], h[k], l[k])
      /\ \A i, j \in 1..N : i < j /\ t[i].do = "apply" => h[i] <= l[j] + 1
      /\ \A k \in 1..N : Filled(t[k], v, h[k], l[k])
      /\ \A k \in 1..N : t[k].do = "oid" => k = N
      /\ TopFilled(t[N], v, l[N])
  BY <1>5, Zenon DEF Heights
<1>7. CASE N = 1
  <2>1. x = o /\ Len(v) = 0
    BY <1>1, <1>6, <1>7 DEF Founded
  <2>2. v = <<>> /\ u = <<>>
    BY <2>1, <1>3, <1>7
  <2> QED
    BY <2>1, <2>2 DEF Stacked
<1>8. CASE N > 1
  <2>2. Rests(t[N - 1], t[N], h[N - 1], h[N], l[N - 1], l[N])
    BY <1>6, <1>8, N \in 2..N
  <2>3. h[N - 1] = Len(v) + 1
    BY <2>2, <1>6, Zenon DEF Rests
  <2>4. h[N] \in Nat /\ h[N - 1] \in Nat /\ l[N] \in Nat /\ l[N - 1] \in Nat
        /\ N - 1 \in 1..N /\ N - 1 \in 1..(N - 1) /\ N \in 1..N
    <3>1. N - 1 \in 1..N /\ N - 1 \in 1..(N - 1) /\ N \in 1..N
      BY <1>1, <1>8
    <3> HIDE DEF N
    <3> QED BY <3>1
  <2>5. l[N - 1] + 1 <= h[N - 1]
    <3>1. HasRoom(t[N - 1], h[N - 1], l[N - 1]) /\ HasRoom(t[N], h[N], l[N])
      BY <1>6, <2>4, Zenon
    <3> QED
      BY <2>2, <2>4, <3>1 DEF HasRoom, Rests
  <2>6. \A k \in 1..(N - 1) : Filled(t[k], w, h[k], l[k])
    <3> SUFFICES ASSUME NEW k \in 1..(N - 1), t[k].do = "apply", NEW m \in 1..(Len(v) + 1),
                        l[k] < m, m < h[k]
                 PROVE  w[m] = t[k].oid
      <4> HIDE DEF w
      <4> QED BY <1>4, Zenon DEF Filled
    <3>1. h[k] \in Nat /\ l[k] \in Nat /\ h[k] <= Len(v) + 1
      <4>1. k \in 1..N /\ (k = N - 1 \/ k < N - 1)
        OBVIOUS
      <4>2. h[k] \in Nat /\ l[k] \in Nat
        BY <4>1
      <4>3. k < N - 1 => h[k] <= l[N - 1] + 1
        BY <1>6, <4>1, <2>4, Zenon
      <4>4. k = N - 1 => h[k] = Len(v) + 1
        BY <2>3
      <4>5. Len(v) \in Nat
        OBVIOUS
      <4> HIDE DEF N
      <4> QED
        BY <4>1, <4>2, <4>3, <4>4, <4>5, <2>3, <2>4, <2>5, SMTT(30)
    <3>2. m \in 1..Len(v)
      BY <3>1
    <3> QED
      BY <3>1, <3>2, <1>4, <1>6, k \in 1..N, Zenon DEF Filled
  <2>7. TopFilled(t[N - 1], w, l[N - 1])
    <3> SUFFICES ASSUME t[N - 1].do \in {"at", "finish"}, NEW m \in 1..(Len(v) + 1), l[N - 1] < m
                 PROVE  w[m] = t[N - 1].oid
      BY <1>4 DEF TopFilled
    <3>1. t[N].do = "at" /\ t[N - 1].oid = x /\ l[N - 1] = l[N]
      BY <2>2 DEF Rests
    <3>2. m \in 1..Len(v) => v[m] = x
      BY <3>1, <1>6 DEF TopFilled
    <3> QED
      BY <3>1, <3>2, <1>4
  <2> HIDE DEF w
  <2>8. h[N - 1] = Len(w)
    BY <1>4, <2>3
  <2>9. Stacked(u, w, o)
    BY <1>4, <1>5, <1>8, <2>6, <2>7, <2>8, StackPop, Zenon
  <2> QED
    BY <2>9 DEF w
<1> QED
  BY <1>1, <1>7, <1>8

\* A delta is applied to the value on top.
LEMMA StackApply ==
  ASSUME NEW T, NEW t \in Seq(T), NEW B, NEW v \in Seq(B), NEW o, Stacked(t, v, o),
         t # <<>>, t[Len(t)].do = "apply", t[Len(t)].oid \in B
  PROVE  /\ v # <<>>
         /\ Stacked(Front(t), Append(Front(v), t[Len(t)].oid), o)
<1> DEFINE N == Len(t)
           x == t[N].oid
           w == Append(Front(v), x)
<1>1. N \in Nat \ {0} /\ t \in [1..N -> T]
  OBVIOUS
<1>2. x \in B
  OBVIOUS
<1>3. PICK h, l \in [1..N -> Nat] : Heights(t, v, o, h, l)
  BY DEF Stacked
<1>4. /\ h[N] = Len(v)
      /\ Founded(t[1], h[1], l[1], o)
      /\ \A k \in 2..N : Rests(t[k - 1], t[k], h[k - 1], h[k], l[k - 1], l[k])
      /\ \A k \in 1..N : HasRoom(t[k], h[k], l[k])
      /\ \A i, j \in 1..N : i < j /\ t[i].do = "apply" => h[i] <= l[j] + 1
      /\ \A k \in 1..N : Filled(t[k], v, h[k], l[k])
  BY <1>3 DEF Heights
<1>5. N > 1 /\ N \in 1..N /\ N \in 2..N /\ N - 1 \in 1..N
  <2>1. N # 1
    BY <1>4 DEF Founded
  <2> QED
    BY <1>1, <2>1
<1>6. Rests(t[N - 1], t[N], h[N - 1], h[N], l[N - 1], l[N])
  BY <1>4, <1>5, Zenon
<1>7. h[N] \in Nat /\ h[N - 1] \in Nat /\ l[N] \in Nat /\ l[N - 1] \in Nat /\ Len(v) \in Nat
  <2> HIDE DEF N
  <2> QED BY <1>5
<1>8. h[N - 1] = Len(v) /\ l[N - 1] = l[N] /\ t[N - 1].oid = x /\ l[N] + 1 <= Len(v)
  BY <1>4, <1>5, <1>6, <1>7, Zenon DEF Rests, HasRoom
<1>9. v # <<>>
  BY <1>7, <1>8
<1>10. /\ Front(v) \in Seq(B) /\ Len(Front(v)) = Len(v) - 1
       /\ \A m \in 1..(Len(v) - 1) : Front(v)[m] = v[m]
  BY <1>9, FrontOf
<1>11. /\ w \in Seq(B) /\ Len(w) = Len(v) /\ w[Len(v)] = x
       /\ \A m \in 1..(Len(v) - 1) : w[m] = v[m]
  BY <1>2, <1>7, <1>10
<1>12. \A k \in 1..(N - 1) : Filled(t[k], w, h[k], l[k])
  <2> SUFFICES ASSUME NEW k \in 1..(N - 1), t[k].do = "apply", NEW m \in 1..Len(v),
                      l[k] < m, m < h[k]
               PROVE  w[m] = t[k].oid
    <3> HIDE DEF w
    <3> QED BY <1>11, Zenon DEF Filled
  <2>1. k \in 1..N /\ k < N
    OBVIOUS
  <2>2. h[k] \in Nat /\ l[k] \in Nat /\ h[k] <= l[N] + 1
    BY <2>1, <1>4, <1>5, Zenon
  <2>3. m \in 1..(Len(v) - 1)
    <3> HIDE DEF N
    <3> QED BY <2>2, <1>7, <1>8
  <2> HIDE DEF w
  <2> QED
    BY <2>1, <2>3, <1>4, <1>11 DEF Filled
<1>13. TopFilled(t[N - 1], w, l[N - 1])
  <2> SUFFICES ASSUME NEW m \in 1..Len(v), l[N - 1] < m PROVE w[m] = t[N - 1].oid
    <3> HIDE DEF w
    <3> QED BY <1>11 DEF TopFilled
  <2>1. m \in 1..(Len(v) - 1) => v[m] = x
    <3>1. Filled(t[N], v, h[N], l[N])
      BY <1>4, <1>5
    <3> QED
      BY <3>1, <1>4, <1>7, <1>8 DEF Filled
  <2> HIDE DEF w
  <2> QED
    BY <2>1, <1>7, <1>8, <1>11, SMTT(30)
<1> HIDE DEF w
<1>14. h[N - 1] = Len(w)
  BY <1>8, <1>11
<1>15. Stacked(Front(t), w, o)
  BY <1>3, <1>5, <1>11, <1>12, <1>13, <1>14, StackPop, Zenon
<1> QED
  BY <1>9, <1>15 DEF w

\* The locations of an object are done: the values they left are the object, and
\* one of them stays.
LEMMA StackFinish ==
  ASSUME NEW T, NEW t \in Seq(T), NEW B, NEW v \in Seq(B), NEW o, Stacked(t, v, o),
         t # <<>>, t[Len(t)].do = "finish", t[Len(t)].oid \in B, t[Len(t)].count \in Nat \ {0}
  PROVE  LET s == Len(v) - t[Len(t)].count IN
         /\ s \in Nat /\ s + 1 \in 1..Len(v)
         /\ \A m \in (s + 1)..Len(v) : v[m] = t[Len(t)].oid
         /\ Stacked(Front(t), Append(SubSeq(v, 1, s), t[Len(t)].oid), o)
<1> DEFINE N == Len(t)
           x == t[N].oid
           s == Len(v) - t[N].count
           w == Append(SubSeq(v, 1, s), x)
<1>1. N \in Nat \ {0} /\ t \in [1..N -> T] /\ N \in 1..N
  OBVIOUS
<1>2. x \in B /\ t[N].count \in Nat \ {0}
  OBVIOUS
<1>3. PICK h, l \in [1..N -> Nat] : Heights(t, v, o, h, l)
  BY DEF Stacked
<1>4. /\ h[N] = Len(v)
      /\ Founded(t[1], h[1], l[1], o)
      /\ \A k \in 2..N : Rests(t[k - 1], t[k], h[k - 1], h[k], l[k - 1], l[k])
      /\ \A k \in 1..N : HasRoom(t[k], h[k], l[k])
      /\ \A i, j \in 1..N : i < j /\ t[i].do = "apply" => h[i] <= l[j] + 1
      /\ \A k \in 1..N : Filled(t[k], v, h[k], l[k])
      /\ TopFilled(t[N], v, l[N])
  BY <1>3, Zenon DEF Heights
<1>5. h[N] \in Nat /\ l[N] \in Nat /\ Len(v) \in Nat
  <2> HIDE DEF N
  <2> QED BY <1>1
<1>6. l[N] + t[N].count = h[N]
  BY <1>1, <1>4, Zenon DEF HasRoom
<1>7. s = l[N] /\ s \in Nat /\ s + 1 \in 1..Len(v)
  BY <1>2, <1>4, <1>5, <1>6
<1> HIDE DEF s
<1>8. \A m \in (s + 1)..Len(v) : v[m] = x
  BY <1>4, <1>7 DEF TopFilled
<1>9. /\ SubSeq(v, 1, s) \in Seq(B) /\ Len(SubSeq(v, 1, s)) = s
      /\ \A m \in 1..s : SubSeq(v, 1, s)[m] = v[m]
  <2>1. \A m \in 1..s : v[m] \in B
    BY <1>7
  <2> QED
    BY <2>1, <1>7
<1>10. /\ w \in Seq(B) /\ Len(w) = s + 1 /\ w[s + 1] = x
       /\ \A m \in 1..s : w[m] = v[m]
  BY <1>2, <1>7, <1>9
<1>11. CASE N = 1
  <2>1. x = o /\ s = 0
    BY <1>1, <1>4, <1>7, <1>11 DEF Founded
  <2>2. Front(t) = <<>>
    <3>1. Len(Front(t)) = 0 /\ Front(t) \in Seq(T)
      BY <1>1, <1>11 DEF Front
    <3> QED BY <3>1
  <2>3. SubSeq(v, 1, s) = <<>>
    BY <1>9, <2>1
  <2>4. w = <<o>>
    <3> HIDE DEF w
    <3> QED BY <1>10, <2>1, OnlyOne
  <2>5. Stacked(Front(t), w, o)
    BY <2>2, <2>4, Zenon DEF Stacked
  <2> QED
    BY <1>7, <1>8, <2>5 DEF s
<1>12. CASE N > 1
  <2>1. N \in 2..N /\ N - 1 \in 1..N
    BY <1>1, <1>12
  <2>2. Rests(t[N - 1], t[N], h[N - 1], h[N], l[N - 1], l[N])
    BY <1>4, <2>1, Zenon
  <2>3. t[N - 1].do = "apply" /\ h[N - 1] = s + 1
    BY <2>2, <1>7 DEF Rests
  <2> HIDE DEF w
  <2>4. \A k \in 1..(N - 1) : Filled(t[k], w, h[k], l[k])
    <3> SUFFICES ASSUME NEW k \in 1..(N - 1), t[k].do = "apply", NEW m \in 1..(s + 1),
                        l[k] < m, m < h[k]
                 PROVE  w[m] = t[k].oid
      BY <1>10, Zenon DEF Filled
    <3>1. k \in 1..N /\ k < N
      OBVIOUS
    <3>2. h[k] \in Nat /\ l[k] \in Nat /\ h[k] <= l[N] + 1
      BY <3>1, <1>1, <1>4, Zenon
    <3>3. m \in 1..s /\ m \in 1..Len(v)
      <4> HIDE DEF N
      <4> QED BY <3>2, <1>5, <1>7, SMTT(30)
    <3> QED
      BY <3>1, <3>3, <1>4, <1>10, Zenon DEF Filled
  <2>5. TopFilled(t[N - 1], w, l[N - 1])
    BY <2>3 DEF TopFilled
  <2>6. h[N - 1] = Len(w)
    BY <1>10, <2>3
  <2>7. Stacked(Front(t), w, o)
    BY <1>3, <1>10, <1>12, <2>4, <2>5, <2>6, StackPop, Zenon
  <2> QED
    BY <1>7, <1>8, <2>7 DEF s, w
<1> QED
  BY <1>1, <1>11, <1>12

\* A location turns out to be a delta: its base is looked for first.
LEMMA StackDelta ==
  ASSUME NEW T, NEW t \in Seq(T), NEW B, NEW v \in Seq(B), NEW o, Stacked(t, v, o),
         t # <<>>, t[Len(t)].do = "at",
         NEW u \in Seq(T), Len(u) = Len(t) + 1,
         \A k \in 1..(Len(t) - 1) : u[k] = t[k],
         u[Len(t)].do = "apply", u[Len(t)].oid = t[Len(t)].oid,
         u[Len(t) + 1].do = "oid"
  PROVE  Stacked(u, v, o)
<1> DEFINE N == Len(t)
<1>1. N \in Nat \ {0} /\ N \in 1..N
  OBVIOUS
<1>2. PICK h, l \in [1..N -> Nat] : Heights(t, v, o, h, l)
  BY DEF Stacked
<1>3. /\ h[N] = Len(v)
      /\ Founded(t[1], h[1], l[1], o)
      /\ \A k \in 2..N : Rests(t[k - 1], t[k], h[k - 1], h[k], l[k - 1], l[k])
      /\ \A k \in 1..N : HasRoom(t[k], h[k], l[k])
      /\ \A i, j \in 1..N : i < j /\ t[i].do = "apply" => h[i] <= l[j] + 1
      /\ \A k \in 1..N : Filled(t[k], v, h[k], l[k])
      /\ \A k \in 1..N : t[k].do = "oid" => k = N
      /\ TopFilled(t[N], v, l[N])
  BY <1>2, Zenon DEF Heights
<1>4. N > 1 /\ N \in 2..N /\ N - 1 \in 1..N /\ N - 1 \in 1..(N - 1)
  <2>1. N # 1
    BY <1>3 DEF Founded
  <2> HIDE DEF N
  <2> QED
    BY <1>1, <2>1
<1> HIDE DEF N
<1>5. h[N] \in Nat /\ l[N] \in Nat /\ h[N - 1] \in Nat /\ l[N - 1] \in Nat
  BY <1>1, <1>4
<1> DEFINE g == [k \in 1..(N + 1) |-> IF k < N THEN h[k] ELSE IF k = N THEN h[N] + 1 ELSE h[N]]
           b == [k \in 1..(N + 1) |-> IF k < N THEN l[k] ELSE IF k = N THEN l[N] ELSE h[N]]
<1>6. g \in [1..(N + 1) -> Nat] /\ b \in [1..(N + 1) -> Nat]
  <2>1. \A k \in 1..(N + 1) : k < N => h[k] \in Nat /\ l[k] \in Nat
    BY <1>1
  <2> QED
    BY <2>1, <1>5, SMTT(30)
<1>7. /\ \A k \in 1..(N - 1) : g[k] = h[k] /\ b[k] = l[k] /\ u[k] = t[k] /\ k \in 1..N /\ k < N
      /\ g[N] = h[N] + 1 /\ b[N] = l[N] /\ g[N + 1] = h[N] /\ b[N + 1] = h[N]
  <2>1. \A k \in 1..(N - 1) : u[k] = t[k]
    BY DEF N
  <2>2. \A k \in 1..(N - 1) : k \in 1..(N + 1) /\ k \in 1..N /\ k < N
    BY <1>1
  <2>3. N \in 1..(N + 1) /\ N + 1 \in 1..(N + 1) /\ ~(N < N) /\ ~(N + 1 < N) /\ N + 1 # N
    BY <1>1
  <2> QED
    BY <2>1, <2>2, <2>3
<1>8. u[N].do = "apply" /\ u[N].oid = t[N].oid /\ u[N + 1].do = "oid" /\ t[N].do = "at" /\ Len(u) = N + 1
  BY DEF N
<1> HIDE DEF g, b
<1>9. Rests(t[N - 1], t[N], h[N - 1], h[N], l[N - 1], l[N])
  BY <1>3, <1>4, Zenon
<1>10. l[N] <= h[N]
  BY <1>1, <1>3, <1>8, Zenon DEF HasRoom
<1>11. Founded(u[1], g[1], b[1], o)
  BY <1>3, <1>4, <1>7
<1>12. ASSUME NEW k \in 2..(N + 1) PROVE Rests(u[k - 1], u[k], g[k - 1], g[k], b[k - 1], b[k])
  <2>1. CASE k < N
    <3>1. k \in 1..(N - 1) /\ k - 1 \in 1..(N - 1) /\ k \in 2..N
      BY <1>1, <2>1
    <3>2. Rests(t[k - 1], t[k], h[k - 1], h[k], l[k - 1], l[k])
      BY <1>3, <3>1, Zenon
    <3> QED BY <3>1, <3>2, <1>7
  <2>2. CASE k = N
    <3>1. Rests(u[N - 1], u[N], g[N - 1], g[N], b[N - 1], b[N])
      BY <1>4, <1>5, <1>7, <1>8, <1>9, Zenon DEF Rests
    <3> QED BY <3>1, <2>2, Zenon
  <2>3. CASE k = N + 1
    <3>1. Rests(u[N], u[N + 1], g[N], g[N + 1], b[N], b[N + 1])
      BY <1>7, <1>8, <1>5, Zenon DEF Rests
    <3> QED BY <1>1, <2>3, <3>1
  <2> QED
    BY <1>1, <2>1, <2>2, <2>3, SMTT(30)
<1>13. ASSUME NEW k \in 1..(N + 1) PROVE HasRoom(u[k], g[k], b[k]) /\ Filled(u[k], v, g[k], b[k])
  <2>1. CASE k < N
    <3>1. k \in 1..(N - 1)
      BY <1>1, <2>1
    <3> QED BY <3>1, <1>3, <1>7, Zenon
  <2>2. CASE k = N
    <3>1. HasRoom(u[N], g[N], b[N])
      BY <1>5, <1>7, <1>8, <1>10 DEF HasRoom
    <3>2. Filled(u[N], v, g[N], b[N])
      BY <1>3, <1>7, <1>8, Zenon DEF Filled, TopFilled
    <3> QED BY <3>1, <3>2, <2>2, Zenon
  <2>3. CASE k = N + 1
    BY <1>7, <1>8, <2>3, Zenon DEF HasRoom, Filled
  <2> QED
    BY <1>1, <2>1, <2>2, <2>3
<1>14. ASSUME NEW i \in 1..(N + 1), NEW j \in 1..(N + 1), i < j, u[i].do = "apply"
       PROVE  g[i] <= b[j] + 1
  <2>1. CASE i < N
    <3>1. i \in 1..(N - 1) /\ i \in 1..N
      BY <1>1, <2>1
    <3>2. h[i] \in Nat /\ t[i].do = "apply" /\ g[i] = h[i] /\ h[i] <= l[N] + 1
      BY <3>1, <1>1, <1>3, <1>7, <1>14, Zenon
    <3>3. CASE j < N
      <4>1. j \in 1..(N - 1) /\ j \in 1..N
        BY <1>1, <3>3
      <4> QED BY <4>1, <3>1, <3>2, <1>3, <1>7, <1>14, Zenon
    <3>4. CASE j = N
      BY <3>4, <3>2, <1>7
    <3>5. CASE j = N + 1
      BY <3>5, <3>2, <1>5, <1>7, <1>10, SMTT(30)
    <3> QED BY <1>1, <3>3, <3>4, <3>5
  <2>2. CASE i = N
    <3>1. j = N + 1
      BY <1>1, <1>14, <2>2
    <3> QED BY <2>2, <3>1, <1>5, <1>7
  <2> QED
    BY <1>1, <1>14, <2>1, <2>2
<1>15. ASSUME NEW k \in 1..(N + 1), u[k].do = "oid" PROVE k = N + 1
  <2>1. k # N
    BY <1>8, <1>15
  <2>2. ~(k < N)
    <3> SUFFICES ASSUME k < N PROVE FALSE
      OBVIOUS
    <3>1. k \in 1..(N - 1)
      BY <1>1
    <3> QED BY <3>1, <1>3, <1>7, <1>15
  <2> QED
    BY <1>1, <2>1, <2>2
<1>16. TopFilled(u[N + 1], v, b[N + 1]) /\ g[N + 1] = Len(v)
  BY <1>3, <1>7, <1>8, Zenon DEF TopFilled
<1>17. Heights(u, v, o, g, b)
  BY <1>8, <1>11, <1>12, <1>13, <1>14, <1>15, <1>16, Zenon DEF Heights
<1> QED
  BY <1>1, <1>6, <1>8, <1>17, u # <<>>, Zenon DEF Stacked

\* The stack u is t with the task on top replaced by c locations of its object.
Plans(t, u, c) ==
    LET n == Len(t) IN
    /\ Len(u) = n + c
    /\ \A k \in 1..(n - 1) : u[k] = t[k]
    /\ u[n].do = "finish" /\ u[n].oid = t[n].oid /\ u[n].count = c
    /\ \A k \in (n + 1)..(n + c) : u[k].do = "at" /\ u[k].oid = t[n].oid

\* The locations of an object are planned above the task that will compare them.
LEMMA StackPlan ==
  ASSUME NEW T, NEW t \in Seq(T), NEW B, NEW v \in Seq(B), NEW o, Stacked(t, v, o),
         t # <<>>, t[Len(t)].do = "oid", NEW c \in Nat \ {0},
         NEW u \in Seq(T), Plans(t, u, c)
  PROVE  Stacked(u, v, o)
<1> DEFINE N == Len(t)
           M == N + c
<1>1. N \in Nat \ {0} /\ N \in 1..N /\ M \in Nat /\ M > N
  OBVIOUS
<1>2. PICK h, l \in [1..N -> Nat] : Heights(t, v, o, h, l)
  BY Zenon DEF Stacked
<1>3. /\ h[N] = Len(v)
      /\ Founded(t[1], h[1], l[1], o)
      /\ \A k \in 2..N : Rests(t[k - 1], t[k], h[k - 1], h[k], l[k - 1], l[k])
      /\ \A k \in 1..N : HasRoom(t[k], h[k], l[k])
      /\ \A i, j \in 1..N : i < j /\ t[i].do = "apply" => h[i] <= l[j] + 1
      /\ \A k \in 1..N : Filled(t[k], v, h[k], l[k])
      /\ \A k \in 1..N : t[k].do = "oid" => k = N
  BY <1>2, Zenon DEF Heights
<1>4. /\ \A k \in 1..(N - 1) : u[k] = t[k]
      /\ u[N].do = "finish" /\ u[N].oid = t[N].oid /\ u[N].count = c
      /\ \A k \in (N + 1)..M : u[k].do = "at" /\ u[k].oid = t[N].oid
      /\ t[N].do = "oid" /\ Len(u) = M
  BY Zenon DEF Plans
<1> HIDE DEF N
<1>5. h[N] \in Nat /\ l[N] \in Nat
  BY <1>1
<1> DEFINE g == [k \in 1..M |-> IF k < N THEN h[k] ELSE h[N] + (M - k)]
           b == [k \in 1..M |-> IF k < N THEN l[k] ELSE h[N]]
<1>6. g \in [1..M -> Nat] /\ b \in [1..M -> Nat]
  <2>1. \A k \in 1..M : k < N => h[k] \in Nat /\ l[k] \in Nat
    BY <1>1
  <2>2. \A k \in 1..M : M - k \in Nat
    BY <1>1
  <2> HIDE DEF M
  <2>3. \A k \in 1..M : (IF k < N THEN h[k] ELSE h[N] + (M - k)) \in Nat
    BY <2>1, <2>2, <1>5, SMTT(30)
  <2>4. \A k \in 1..M : (IF k < N THEN l[k] ELSE h[N]) \in Nat
    BY <2>1, <1>5
  <2> QED
    BY <2>3, <2>4
<1>7. \A k \in 1..(N - 1) : g[k] = h[k] /\ b[k] = l[k] /\ u[k] = t[k] /\ k \in 1..N /\ k < N
  BY <1>1, <1>4, SMTT(30)
<1>8. \A k \in N..M : k \in 1..M /\ g[k] = h[N] + (M - k) /\ b[k] = h[N]
  BY <1>1
<1>9. l[N] = h[N]
  BY <1>1, <1>3, <1>4, Zenon DEF HasRoom
<1>10. g[N] = h[N] + c /\ b[N] = h[N] /\ N \in N..M
  BY <1>1, <1>8
<1>11. M \in N..M /\ M \in (N + 1)..M /\ g[M] = h[N]
  <2>1. M \in N..M /\ M \in (N + 1)..M /\ M - M = 0
    BY <1>1
  <2> HIDE DEF M, g, b
  <2>2. g[M] = h[N] + (M - M)
    BY <2>1, <1>8
  <2> QED BY <2>1, <2>2, <1>5
<1> HIDE DEF g, b, M
<1>12. Founded(u[1], g[1], b[1], o)
  <2>1. CASE N = 1
    BY <2>1, <1>3, <1>4, <1>5, <1>9, <1>10 DEF Founded
  <2>2. CASE N # 1
    <3>1. 1 \in 1..(N - 1)
      BY <1>1, <2>2
    <3> QED BY <3>1, <1>3, <1>7, Zenon
  <2> QED BY <2>1, <2>2
<1>13. ASSUME NEW k \in 2..M PROVE Rests(u[k - 1], u[k], g[k - 1], g[k], b[k - 1], b[k])
  <2>1. CASE k < N
    <3>1. k \in 1..(N - 1) /\ k - 1 \in 1..(N - 1) /\ k \in 2..N
      BY <1>1, <2>1
    <3>2. Rests(t[k - 1], t[k], h[k - 1], h[k], l[k - 1], l[k])
      BY <1>3, <3>1, Zenon
    <3> QED BY <3>1, <3>2, <1>7, Zenon
  <2>2. CASE k = N
    <3>1. N \in 2..N /\ N - 1 \in 1..(N - 1)
      BY <1>1, <2>2
    <3>2. Rests(t[N - 1], t[N], h[N - 1], h[N], l[N - 1], l[N])
      BY <1>3, <3>1, Zenon
    <3>3. t[N - 1].do = "apply" /\ h[N - 1] = h[N] + 1
      BY <3>2, <1>4, Zenon DEF Rests
    <3>4. u[N - 1] = t[N - 1] /\ g[N - 1] = h[N - 1]
      BY <3>1, <1>7, Zenon
    <3>5. Rests(u[N - 1], u[N], g[N - 1], g[N], b[N - 1], b[N])
      BY <3>3, <3>4, <1>4, <1>5, <1>10, Zenon DEF Rests
    <3> QED BY <3>5, <2>2, Zenon
  <2>3. CASE k > N
    <3>1. k \in (N + 1)..M /\ k \in N..M /\ k - 1 \in N..M /\ (k - 1 = N \/ k - 1 \in (N + 1)..M)
      BY <1>1, <2>3
    <3>2. u[k].do = "at" /\ u[k].oid = t[N].oid /\ u[k - 1].do \in {"at", "finish"} /\ u[k - 1].oid = t[N].oid
      BY <3>1, <1>4
    <3>3. g[k] = h[N] + (M - k) /\ g[k - 1] = h[N] + (M - (k - 1)) /\ b[k] = h[N] /\ b[k - 1] = h[N]
      BY <3>1, <1>8
    <3>4. g[k - 1] = g[k] + 1
      BY <3>3, <1>1, <1>5
    <3> QED
      BY <3>2, <3>3, <3>4, Zenon DEF Rests
  <2> QED
    BY <1>1, <2>1, <2>2, <2>3
<1>14. ASSUME NEW k \in 1..M PROVE HasRoom(u[k], g[k], b[k]) /\ Filled(u[k], v, g[k], b[k])
  <2>1. CASE k < N
    <3>1. k \in 1..(N - 1)
      BY <1>1, <2>1
    <3> QED BY <3>1, <1>3, <1>7, Zenon
  <2>2. CASE k = N
    <3>1. HasRoom(u[N], g[N], b[N]) /\ Filled(u[N], v, g[N], b[N])
      BY <1>5, <1>10, <1>4, Zenon DEF HasRoom, Filled
    <3> QED BY <3>1, <2>2, Zenon
  <2>3. CASE k > N
    <3>1. k \in (N + 1)..M /\ k \in N..M /\ M - k \in Nat
      BY <1>1, <2>3
    <3>2. u[k].do = "at" /\ g[k] = h[N] + (M - k) /\ b[k] = h[N]
      BY <3>1, <1>4, <1>8, Zenon
    <3> QED BY <3>1, <3>2, <1>5 DEF HasRoom, Filled
  <2> QED
    BY <1>1, <2>1, <2>2, <2>3
<1>15. ASSUME NEW i \in 1..M, NEW j \in 1..M, i < j, u[i].do = "apply"
       PROVE  g[i] <= b[j] + 1
  <2>1. i < N
    <3>1. i > N => i \in (N + 1)..M
      BY <1>1
    <3> QED BY <1>1, <1>4, <1>15, <3>1
  <2>2. i \in 1..(N - 1) /\ i \in 1..N
    BY <1>1, <2>1
  <2>3. h[i] \in Nat /\ t[i].do = "apply" /\ g[i] = h[i] /\ h[i] <= l[N] + 1
    BY <2>1, <2>2, <1>1, <1>3, <1>7, <1>15, Zenon
  <2>4. CASE j < N
    <3>1. j \in 1..(N - 1) /\ j \in 1..N
      BY <1>1, <2>4
    <3> QED BY <3>1, <2>2, <2>3, <1>3, <1>7, <1>15, Zenon
  <2>5. CASE ~(j < N)
    <3>1. j \in N..M
      BY <1>1, <2>5
    <3> QED BY <3>1, <2>3, <1>8, <1>9
  <2> QED BY <2>4, <2>5
<1>16. ASSUME NEW k \in 1..M, u[k].do = "oid" PROVE k = M
  <2>1. k # N
    BY <1>4, <1>16, Zenon
  <2>2. ~(k < N)
    <3> SUFFICES ASSUME k < N PROVE FALSE
      OBVIOUS
    <3>1. k \in 1..(N - 1)
      BY <1>1
    <3> QED BY <3>1, <1>3, <1>7, <1>16
  <2>3. ~(k > N)
    <3> SUFFICES ASSUME k > N PROVE FALSE
      OBVIOUS
    <3>1. k \in (N + 1)..M
      BY <1>1
    <3> QED BY <3>1, <1>4, <1>16
  <2> QED
    BY <1>1, <2>1, <2>2, <2>3
<1>17. TopFilled(u[M], v, b[M]) /\ g[M] = Len(v)
  <2>1. b[M] = Len(v)
    BY <1>3, <1>8, <1>11, Zenon
  <2> QED
    BY <2>1, <1>3, <1>11 DEF TopFilled
<1>18. Heights(u, v, o, g, b)
  BY <1>4, <1>12, <1>13, <1>14, <1>15, <1>16, <1>17, Zenon DEF Heights
<1> QED
  BY <1>1, <1>4, <1>6, <1>18, u # <<>>, Zenon DEF Stacked
===============================================================================
