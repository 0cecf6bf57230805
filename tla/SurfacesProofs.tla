--------------------------- MODULE SurfacesProofs ---------------------------
(***************************************************************************)
(* Proofs about the three places `noesis` writes to, for any number of     *)
(* processes: the store root (StoreSession), the root of generated         *)
(* documentation (GeneratedDocs) and the output root of an export          *)
(* (PortableExport).                                                       *)
(***************************************************************************)
EXTENDS StoreSession, GeneratedDocs, PortableExport, TLAPS

-----------------------------------------------------------------------------
(* THE STORE ROOT *)

Parts == Layout \ {"root"}

\* The steps the handlers are made of.
Label ==
    Parts \cup {"look", "make", "classify", "confine", "scan", "deadline", "publish", "serialize",
               "report", "cache", "absent", "disarm", "manifest", "index"}

-----------------------------------------------------------------------------
(* Sequences of steps *)

\* The steps that belong after publication only.
Late == {"disarm", "cache", "report"}

Has(steps, s) == \E i \in 1..Len(steps) : steps[i] = s
Avoids(steps, S) == \A i \in 1..Len(steps) : steps[i] \notin S

\* Nothing of the layout is left to lay down after publication, and publication
\* is not left to do after a late step.
Ordered(steps) ==
    \A i, j \in 1..Len(steps) : i < j =>
        /\ steps[i] = "publish" => steps[j] \notin Parts
        /\ steps[i] \in Late => steps[j] # "publish"

\* A command that lays down or verifies every part of the layout, publishes only
\* after that, and cleans up and reports only after that.
Sound(steps) ==
    /\ steps \in Seq(Label)
    /\ Ordered(steps)
    /\ \A part \in Parts \cup {"publish"} : Has(steps, part)

LEMMA Places ==
    ASSUME NEW s \in Seq(Label), NEW t \in Seq(Label)
    PROVE  /\ s \o t \in Seq(Label) /\ Len(s \o t) = Len(s) + Len(t)
           /\ Len(s) \in Nat /\ Len(t) \in Nat
           /\ \A i \in 1..Len(s) : (s \o t)[i] = s[i] /\ i \in 1..Len(s \o t)
           /\ \A i \in 1..Len(t) : (s \o t)[Len(s) + i] = t[i] /\ Len(s) + i \in 1..Len(s \o t)
           /\ \A i \in 1..Len(s \o t) :
                 \/ i \in 1..Len(s) /\ (s \o t)[i] = s[i]
                 \/ i > Len(s) /\ i - Len(s) \in 1..Len(t) /\ (s \o t)[i] = t[i - Len(s)]
  OBVIOUS

LEMMA AvoidsConcat ==
    ASSUME NEW s \in Seq(Label), NEW t \in Seq(Label), NEW S, Avoids(s, S), Avoids(t, S)
    PROVE  s \o t \in Seq(Label) /\ Avoids(s \o t, S)
  BY Places DEF Avoids

LEMMA HasConcat ==
    ASSUME NEW s \in Seq(Label), NEW t \in Seq(Label), NEW x, Has(s, x) \/ Has(t, x)
    PROVE  Has(s \o t, x)
  <1>1. CASE Has(s, x)
    <2>1. PICK i \in 1..Len(s) : s[i] = x
      BY <1>1 DEF Has
    <2>2. i \in 1..Len(s \o t) /\ (s \o t)[i] = x
      BY <2>1, Places
    <2> QED
      BY <2>2 DEF Has
  <1>2. CASE Has(t, x)
    <2>1. PICK i \in 1..Len(t) : t[i] = x
      BY <1>2 DEF Has
    <2>2. Len(s) + i \in 1..Len(s \o t) /\ (s \o t)[Len(s) + i] = x
      BY <2>1, Places
    <2> QED
      BY <2>2 DEF Has
  <1> QED
    BY <1>1, <1>2

LEMMA OrderedConcat ==
    ASSUME NEW s \in Seq(Label), NEW t \in Seq(Label), Ordered(s), Ordered(t),
           Avoids(s, {"publish"}) \/ Avoids(t, Parts),
           Avoids(s, Late) \/ Avoids(t, {"publish"})
    PROVE  Ordered(s \o t)
  <1>1. SUFFICES ASSUME NEW i \in 1..Len(s \o t), NEW j \in 1..Len(s \o t), i < j
                 PROVE  /\ (s \o t)[i] = "publish" => (s \o t)[j] \notin Parts
                        /\ (s \o t)[i] \in Late => (s \o t)[j] # "publish"
    BY DEF Ordered
  <1>2. CASE j \in 1..Len(s)
    <2>1. i \in 1..Len(s) /\ (s \o t)[i] = s[i] /\ (s \o t)[j] = s[j]
      BY <1>1, <1>2, Places
    <2> QED
      BY <1>1, <1>2, <2>1 DEF Ordered
  <1>3. CASE i \in 1..Len(s) /\ j > Len(s)
    <2>1. (s \o t)[i] = s[i] /\ j - Len(s) \in 1..Len(t) /\ (s \o t)[j] = t[j - Len(s)]
      BY <1>1, <1>3, Places
    <2> QED
      BY <1>3, <2>1 DEF Avoids
  <1>4. CASE i > Len(s)
    <2>1. /\ i - Len(s) \in 1..Len(t) /\ (s \o t)[i] = t[i - Len(s)]
          /\ j - Len(s) \in 1..Len(t) /\ (s \o t)[j] = t[j - Len(s)]
      BY <1>1, <1>4, Places
    <2>2. i - Len(s) < j - Len(s)
      BY <1>1, Places
    <2> QED
      BY <2>1, <2>2 DEF Ordered
  <1> QED
    BY <1>1, <1>2, <1>3, <1>4, Places

\* A step ahead of all else keeps a command sound, and so does what neither
\* publishes nor is part of the layout behind it.
LEMMA SoundConcat ==
    ASSUME NEW s \in Seq(Label), NEW t \in Seq(Label), Ordered(s), Ordered(t),
           \/ Sound(t) /\ Avoids(s, Late \cup {"publish"})
           \/ Sound(s) /\ Avoids(t, Parts \cup {"publish"})
    PROVE  Sound(s \o t)
  <1>1. s \o t \in Seq(Label)
    OBVIOUS
  <1>2. Ordered(s \o t)
    BY OrderedConcat DEF Avoids
  <1>3. \A part \in Parts \cup {"publish"} : Has(s \o t, part)
    BY HasConcat DEF Sound
  <1> QED
    BY <1>1, <1>2, <1>3 DEF Sound

\* What every handler does before it publishes, run_s3 and run_s4 in front of
\* their scan and the others behind it.
LEMMA EnsureRootFront ==
    EnsureRoot \in Seq(Label) /\ Avoids(EnsureRoot, Late \cup {"publish"})
  BY DEF EnsureRoot, Label, Avoids, Late

LEMMA FrontOrdered ==
    ASSUME NEW s, Avoids(s, Late \cup {"publish"})
    PROVE  Ordered(s)
  BY DEF Ordered, Avoids

LEMMA OpenFront ==
    /\ Open \in Seq(Label) /\ Avoids(Open, Late \cup {"publish"})
    /\ \A part \in Parts : Has(Open, part)
  <1> DEFINE layout == <<"classify", "objects", "blake3", "tmp", "database", "schema", "store.json">>
  <1>1. layout \in Seq(Label)
    BY DEF Label, Parts, Layout
  <1>2. Avoids(layout, Late \cup {"publish"})
    BY DEF Avoids, Late
  <1>3. \A part \in Parts : Has(layout, part)
    <2>1. layout[2] = "objects" /\ layout[3] = "blake3" /\ layout[4] = "tmp" /\ layout[5] = "database"
          /\ layout[6] = "schema" /\ layout[7] = "store.json" /\ Len(layout) = 7
      OBVIOUS
    <2> HIDE DEF layout
    <2> QED
      BY <2>1 DEF Has, Parts, Layout
  <1>4. Open = EnsureRoot \o layout
    BY DEF Open
  <1> HIDE DEF layout
  <1> QED
    BY <1>1, <1>2, <1>3, <1>4, EnsureRootFront, AvoidsConcat, HasConcat

\* Opening the store, whatever is in front of it, and then publishing.
LEMMA OpenThenPublish ==
    ASSUME NEW front \in Seq(Label), Avoids(front, Late \cup {"publish"}),
           NEW back \in Seq(Label), Ordered(back), Avoids(back, Parts), Has(back, "publish")
    PROVE  Sound((front \o Open) \o back)
  <1> DEFINE s == front \o Open
  <1>1. s \in Seq(Label) /\ Avoids(s, Late \cup {"publish"}) /\ \A part \in Parts : Has(s, part)
    BY OpenFront, AvoidsConcat, HasConcat
  <1> HIDE DEF s
  <1>2. Avoids(s, {"publish"}) /\ Avoids(s, Late) /\ Ordered(s)
    BY <1>1, FrontOrdered DEF Avoids
  <1>3. Ordered(s \o back) /\ s \o back \in Seq(Label)
    BY <1>1, <1>2, OrderedConcat
  <1>4. \A part \in Parts \cup {"publish"} : Has(s \o back, part)
    BY <1>1, HasConcat
  <1> QED
    BY <1>3, <1>4 DEF Sound, s

LEMMA BeforeCacheSound == Sound(BeforeCache)
  <1> DEFINE scanned == <<"scan", "deadline", "serialize", "absent">>
             front == (scanned \o EnsureRoot) \o <<"confine">>
             back == <<"publish", "disarm">>
  <1>1. front \in Seq(Label) /\ Avoids(front, Late \cup {"publish"})
    <2>1. scanned \in Seq(Label) /\ Avoids(scanned, Late \cup {"publish"})
      BY DEF Label, Avoids, Late
    <2>2. <<"confine">> \in Seq(Label) /\ Avoids(<<"confine">>, Late \cup {"publish"})
      BY DEF Label, Avoids, Late
    <2> HIDE DEF scanned
    <2>3. scanned \o EnsureRoot \in Seq(Label) /\ Avoids(scanned \o EnsureRoot, Late \cup {"publish"})
      BY <2>1, EnsureRootFront, AvoidsConcat
    <2> QED
      BY <2>2, <2>3, AvoidsConcat, Zenon
  <1>2. back \in Seq(Label) /\ Avoids(back, Parts) /\ Ordered(back) /\ Has(back, "publish")
    <2>1. back[1] = "publish" /\ back[2] = "disarm" /\ Len(back) = 2 /\ back \in Seq(Label)
      BY DEF Label
    <2> HIDE DEF back
    <2> QED
      BY <2>1 DEF Avoids, Parts, Layout, Has, Ordered, Late
  <1>3. BeforeCache = (front \o Open) \o back
    BY DEF BeforeCache
  <1> HIDE DEF front, back
  <1> QED
    BY <1>1, <1>2, <1>3, OpenThenPublish, Zenon

LEMMA OldestSound == Sound(run_s3) /\ Sound(run_s4)
  <1> DEFINE scanned == <<"confine", "scan", "deadline">>
             front == EnsureRoot \o scanned
             back3 == <<"publish", "serialize", "report">>
             back4 == <<"publish", "cache", "serialize", "report">>
  <1>1. front \in Seq(Label) /\ Avoids(front, Late \cup {"publish"})
    <2>1. scanned \in Seq(Label) /\ Avoids(scanned, Late \cup {"publish"})
      BY DEF Label, Avoids, Late
    <2> HIDE DEF scanned
    <2> QED
      BY <2>1, EnsureRootFront, AvoidsConcat
  <1>2. back3 \in Seq(Label) /\ Avoids(back3, Parts) /\ Ordered(back3) /\ Has(back3, "publish")
    <2>1. back3[1] = "publish" /\ back3[2] = "serialize" /\ back3[3] = "report" /\ Len(back3) = 3
          /\ back3 \in Seq(Label)
      BY DEF Label
    <2> HIDE DEF back3
    <2> QED
      BY <2>1 DEF Avoids, Parts, Layout, Has, Ordered, Late
  <1>3. back4 \in Seq(Label) /\ Avoids(back4, Parts) /\ Ordered(back4) /\ Has(back4, "publish")
    <2>1. back4[1] = "publish" /\ back4[2] = "cache" /\ back4[3] = "serialize" /\ back4[4] = "report"
          /\ Len(back4) = 4 /\ back4 \in Seq(Label)
      BY DEF Label
    <2> HIDE DEF back4
    <2> QED
      BY <2>1 DEF Avoids, Parts, Layout, Has, Ordered, Late
  <1>4. run_s3 = (front \o Open) \o back3 /\ run_s4 = (front \o Open) \o back4
    BY DEF run_s3, run_s4
  <1> HIDE DEF front, back3, back4
  <1> QED
    BY <1>1, <1>2, <1>3, <1>4, OpenThenPublish, Zenon

\* Every handler of main.rs is sound.
LEMMA HandlersSound == \A steps \in Handlers : Sound(steps)
  <1>1. Sound(Confined)
    <2>1. <<"cache", "report">> \in Seq(Label) /\ Avoids(<<"cache", "report">>, Parts \cup {"publish"})
          /\ Ordered(<<"cache", "report">>)
      BY DEF Avoids, Parts, Layout, Label, Ordered, Late
    <2> QED
      BY <2>1, BeforeCacheSound, SoundConcat, Zenon DEF Confined, Sound
  <1>2. Sound(scan_java) /\ Sound(scan_kotlin)
    <2>1. <<"report">> \in Seq(Label) /\ Avoids(<<"report">>, Parts \cup {"publish"}) /\ Ordered(<<"report">>)
      BY DEF Avoids, Parts, Layout, Label, Ordered, Late
    <2> QED
      BY <2>1, BeforeCacheSound, SoundConcat, Zenon DEF scan_java, scan_kotlin, Sound
  <1>3. ASSUME NEW steps, Sound(steps)
        PROVE  Sound(WithManifest(steps)) /\ Sound(WithCompilerIndex(steps))
    <2>1. /\ <<"manifest">> \in Seq(Label) /\ Avoids(<<"manifest">>, Late \cup {"publish"})
          /\ <<"index">> \in Seq(Label) /\ Avoids(<<"index">>, Late \cup {"publish"})
      BY DEF Avoids, Label, Late
    <2> QED
      BY <1>3, <2>1, SoundConcat, FrontOrdered, Zenon DEF WithManifest, WithCompilerIndex, Sound
  <1>4. /\ Sound(WithManifest(Confined)) /\ Sound(WithCompilerIndex(Confined))
        /\ Sound(WithManifest(WithCompilerIndex(Confined)))
    BY <1>1, <1>3
  <1> QED
    BY <1>1, <1>2, <1>4, OldestSound
    DEF Handlers, run_s4_k1, run_s4_r3, run_s4_r4, run_s4_r5, run_s4_r6, run_s4_r7, run_s4_r10,
        run_s4_r12, run_s4_r13, run_s4_r14, run_s4_r15, run_s4_r16, run_s4_boundaries,
        run_s4_r3_boundaries, run_s4_r4_boundaries, run_s4_r5_boundaries, run_s4_r6_boundaries,
        run_s4_r7_boundaries, run_s4_r10_boundaries, run_s4_r11_boundaries, run_s4_r12_boundaries,
        run_s4_r14_boundaries, run_s4_r15_boundaries, run_s4_r16_boundaries

-----------------------------------------------------------------------------
(* The inductive invariant *)

\* What a session at work has not laid down, verified or published yet is still
\* ahead of it; the rest is on disk and stays there.
Pending(c) ==
    todo[c] # <<>> =>
        /\ \A part \in Parts : part \in disk \/ Has(todo[c], part)
        /\ committed \/ Has(todo[c], "publish")

SessionInv ==
    /\ disk \subseteq Layout
    /\ disk # {} => "root" \in disk
    /\ committed \in BOOLEAN
    /\ todo \in [Session -> Seq(Label)]
    /\ \A c \in Session : Ordered(todo[c])
    /\ \A c \in Session : Pending(c)
    /\ PublishedStoreOpens

-----------------------------------------------------------------------------
(* Steps *)

SessionActs(c) == HandlerStep(c) \/ CallFails(c) \/ Kill(c)

\* Taking one step off a command.
LEMMA TailOf ==
    ASSUME NEW s \in Seq(Label), s # <<>>, Ordered(s)
    PROVE  /\ Tail(s) \in Seq(Label) /\ Head(s) \in Label
           /\ Ordered(Tail(s))
           /\ \A x : Has(s, x) => x = Head(s) \/ Has(Tail(s), x)
           /\ Head(s) = "publish" => \A x \in Parts : ~Has(s, x)
           /\ Head(s) \in Late => ~Has(s, "publish")
  <1>1. /\ Len(s) \in Nat \ {0} /\ Len(Tail(s)) = Len(s) - 1 /\ Head(s) = s[1]
        /\ Tail(s) \in Seq(Label) /\ Head(s) \in Label
        /\ \A i \in 1..Len(Tail(s)) : Tail(s)[i] = s[i + 1] /\ i + 1 \in 1..Len(s)
    OBVIOUS
  <1>2. Ordered(Tail(s))
    BY <1>1 DEF Ordered
  <1>3. ASSUME NEW x, Has(s, x), x # Head(s)
        PROVE  Has(Tail(s), x)
    <2>1. PICK i \in 1..Len(s) : s[i] = x
      BY <1>3 DEF Has
    <2>2. i - 1 \in 1..Len(Tail(s)) /\ Tail(s)[i - 1] = x
      BY <1>1, <1>3, <2>1
    <2> QED
      BY <2>2 DEF Has
  <1>4. ASSUME Head(s) = "publish", NEW x \in Parts
        PROVE  ~Has(s, x)
    BY <1>1, <1>4 DEF Ordered, Has, Parts, Layout
  <1>5. ASSUME Head(s) \in Late
        PROVE  ~Has(s, "publish")
    BY <1>1, <1>5 DEF Ordered, Has, Late
  <1> QED
    BY <1>1, <1>2, <1>3, <1>4, <1>5

\* What a step does to the disk: it grows, or an empty root goes.
LEMMA DiskStep ==
    ASSUME SessionInv, NEW c \in Session, SessionActs(c)
    PROVE  /\ disk \subseteq disk' \/ (disk = {"root"} /\ disk' = {})
           /\ disk' \subseteq Layout
           /\ disk' # {} => "root" \in disk'
  BY Zenon DEF SessionInv, SessionActs, HandlerStep, BeginCommand, Compute, NoteAbsent, Look, Make, Confine, Classify, LayDown,
         Publish, Disarm, StageCache, Report, CallFails, Kill, Abort, Rollback, Empty, Reaches, Layout

\* What a step does to the command of its session: it starts one, ends it, or
\* takes a step off, having made or found the part the step is about.
LEMMA TodoStep ==
    ASSUME SessionInv, CommandAssumption, NEW c \in Session, SessionActs(c)
    PROVE  \/ \E steps \in Command : todo' = [todo EXCEPT ![c] = steps] /\ todo[c] = <<>>
           \/ todo' = [todo EXCEPT ![c] = <<>>]
           \/ /\ todo[c] # <<>> /\ todo' = [todo EXCEPT ![c] = Tail(todo[c])]
              /\ Head(todo[c]) \in Parts => Head(todo[c]) \in disk'
              /\ Head(todo[c]) = "publish" => committed'
  <1>1. CASE BeginCommand(c)
    BY <1>1, Zenon DEF BeginCommand
  <1>2. CASE CallFails(c) \/ Kill(c) \/ Report(c)
    BY <1>2, Zenon DEF CallFails, Kill, Report, Abort, EndCommand
  <1>3. CASE \E part \in Layout : LayDown(c, part)
    BY <1>3 DEF LayDown, Advance, Abort, EndCommand, At, SessionInv, Layout
  <1>4. CASE Compute(c) \/ NoteAbsent(c) \/ Look(c) \/ Make(c) \/ Confine(c)
    BY <1>4, Zenon DEF Compute, NoteAbsent, Look, Make, Confine, Advance, Abort, EndCommand, At, SessionInv, Parts, Layout
  <1>5. CASE Classify(c) \/ Publish(c) \/ Disarm(c) \/ StageCache(c)
    BY <1>5, Zenon DEF Classify, Publish, Disarm, StageCache, Advance, Abort, EndCommand, At, SessionInv, Parts, Layout
  <1> QED
    BY <1>1, <1>2, <1>3, <1>4, <1>5, Zenon DEF SessionActs, HandlerStep

\* Only publication commits, and only at its place in the command.
LEMMA CommitStep ==
    ASSUME SessionInv, NEW c \in Session, SessionActs(c)
    PROVE  /\ committed' \in BOOLEAN
           /\ committed' # committed =>
                 committed' /\ At(c, {"publish"}) /\ (disk' = disk \/ Rollback(c))
  BY Zenon DEF SessionInv, SessionActs, HandlerStep, BeginCommand, Compute, NoteAbsent, Look, Make, Confine, Classify, LayDown,
         Publish, Disarm, StageCache, Report, CallFails, Kill, Abort

LEMMA SessionStep ==
    ASSUME SessionInv, CommandAssumption, NEW c \in Session, SessionActs(c)
    PROVE  SessionInv'
  <1>0. "root" \in Layout /\ "objects" \in Parts /\ Parts # {} /\ Layout # {"root"}
    BY DEF Layout, Parts
  <1>1. /\ disk' \subseteq Layout /\ (disk' # {} => "root" \in disk')
        /\ disk \cap Parts \subseteq disk'
    BY DiskStep DEF Parts
  <1>2. committed' \in BOOLEAN /\ (committed => committed')
    BY CommitStep DEF SessionInv
  <1>3. todo' \in [Session -> Seq(Label)] /\ \A s \in Session : Ordered(todo'[s])
    <2>1. todo[c] # <<>> => Tail(todo[c]) \in Seq(Label) /\ Ordered(Tail(todo[c]))
      BY TailOf DEF SessionInv
    <2>2. \A steps \in Command : steps \in Seq(Label) /\ Ordered(steps)
      BY HandlersSound DEF CommandAssumption, Sound
    <2>3. <<>> \in Seq(Label) /\ Ordered(<<>>)
      BY DEF Ordered
    <2> QED
      BY <2>1, <2>2, <2>3, TodoStep, Zenon DEF SessionInv
  <1>4. ASSUME NEW s \in Session, s # c
        PROVE  Pending(s)'
    <2>1. todo'[s] = todo[s]
      BY <1>4, TodoStep DEF SessionInv
    <2> QED
      BY <1>1, <1>2, <2>1 DEF SessionInv, Pending, Has
  <1>5. Pending(c)'
    <2>1. CASE todo'[c] = <<>>
      BY <2>1 DEF Pending
    <2>2. CASE todo'[c] \in Command
      <3>1. \A part \in Parts \cup {"publish"} : Has(todo'[c], part)
        BY <2>2, HandlersSound DEF CommandAssumption, Sound
      <3> QED
        BY <3>1 DEF Pending, Has
    <2>3. CASE /\ todo[c] # <<>> /\ todo'[c] = Tail(todo[c])
               /\ Head(todo[c]) \in Parts => Head(todo[c]) \in disk'
               /\ Head(todo[c]) = "publish" => committed'
      <3>1. \A x : Has(todo[c], x) => x = Head(todo[c]) \/ Has(todo'[c], x)
        BY <2>3, TailOf, Zenon DEF SessionInv
      <3>2. Pending(c) /\ todo[c] # <<>>
        BY <2>3 DEF SessionInv
      <3>3. \A part \in Parts : part \in disk' \/ Has(todo'[c], part)
        BY <1>1, <2>3, <3>1, <3>2 DEF Pending
      <3>4. committed' \/ Has(todo'[c], "publish")
        BY <1>2, <2>3, <3>1, <3>2 DEF Pending
      <3> QED
        BY <3>3, <3>4, Zenon DEF Pending, Has
    <2> QED
      BY <2>1, <2>2, <2>3, TodoStep, Zenon DEF SessionInv
  <1>6. PublishedStoreOpens'
    <2>1. CASE committed
      <3>1. disk = Layout
        BY <2>1 DEF SessionInv, PublishedStoreOpens
      <3> QED
        BY <1>0, <1>1, <3>1, DiskStep DEF PublishedStoreOpens
    <2>2. CASE ~committed /\ committed'
      <3>1. todo[c] # <<>> /\ Head(todo[c]) = "publish"
        BY <2>2, CommitStep, Zenon DEF At
      <3>2. Parts \subseteq disk
        BY <3>1, TailOf DEF SessionInv, Pending
      <3>3. disk = Layout
        BY <1>0, <3>2, Zenon DEF SessionInv, Parts
      <3> QED
        BY <1>0, <1>1, <3>3, DiskStep DEF PublishedStoreOpens
    <2> QED
      BY <1>2, <2>1, <2>2 DEF PublishedStoreOpens, SessionInv
  <1> QED
    BY <1>1, <1>2, <1>3, <1>4, <1>5, <1>6, Zenon DEF SessionInv

-----------------------------------------------------------------------------
(* The theorems *)

\* The invariant of the scan handlers around one store root: whatever a session
\* has passed is on disk, whoever made it, and an empty root is all that goes.
THEOREM SessionInvariant == SessionSpec => []SessionInv
  <1>1. SessionInit => SessionInv
    <2>1. SessionInit => \A c \in Session : todo[c] = <<>>
      BY DEF SessionInit
    <2>2. <<>> \in Seq(Label) /\ Ordered(<<>>)
      BY DEF Ordered
    <2> QED
      BY <2>1, <2>2, Zenon DEF SessionInit, SessionInv, Pending, PublishedStoreOpens
  <1>2. SessionInv /\ [SessionNext]_sessionVars => SessionInv'
    <2>1. ASSUME SessionInv, UNCHANGED sessionVars
          PROVE  SessionInv'
      BY <2>1 DEF sessionVars, SessionInv, Pending, PublishedStoreOpens
    <2> QED
      BY <2>1, SessionStep, KnownCommands DEF SessionNext, SessionActs
  <1> QED
    BY <1>1, <1>2, PTL DEF SessionSpec

\* With any number of sessions of any handlers on one root, once a publication
\* has committed no rollback, refused initialization, failed call or kill makes
\* the store unopenable again.
THEOREM StoreStaysOpenable == SessionSpec => []PublishedStoreOpens
  <1>1. SessionInv => PublishedStoreOpens
    BY DEF SessionInv
  <1> QED
    BY <1>1, SessionInvariant, PTL

\* A handler that gets to report has a committed snapshot behind it, in a store
\* with its whole layout: no handler passes over its publication.
ReportMeansPublished == [][\A c \in Session : Report(c) => committed /\ disk = Layout]_sessionVars

\* Success is written to stdout by Report only.
THEOREM ReportIsTrue == SessionSpec => ReportMeansPublished
  <1>1. SessionInv /\ [SessionNext]_sessionVars => [\A c \in Session : Report(c) => committed /\ disk = Layout]_sessionVars
    <2>1. SUFFICES ASSUME SessionInv, NEW c \in Session, Report(c)
                   PROVE  committed /\ disk = Layout
      OBVIOUS
    <2>2. todo[c] # <<>> /\ Head(todo[c]) = "report"
      BY <2>1 DEF Report, At
    <2>3. ~Has(todo[c], "publish")
      BY <2>1, <2>2, TailOf DEF SessionInv, Late
    <2> QED
      BY <2>1, <2>2, <2>3 DEF SessionInv, Pending, PublishedStoreOpens
  <1> QED
    BY <1>1, SessionInvariant, PTL DEF SessionSpec, ReportMeansPublished

-----------------------------------------------------------------------------
(* THE ROOT OF GENERATED DOCUMENTATION *)

-----------------------------------------------------------------------------
(* The inductive invariant *)

\* Labels at which publish works below a marked root.
Marked == {"precommit", "stage", "fill", "validate", "link", "confirm", "clean"}
Labels == Marked \cup {"idle", "inspect", "mark", "fill_marker"}

DocsType ==
    /\ marker \in {"absent", "torn", "ok"}
    /\ manifest \in Generation \cup {None}
    /\ reported \subseteq Generation
    /\ pc \in [Publisher -> Labels]
    /\ gen \in [Publisher -> Generation \cup {None}]
    /\ file \in [Publisher -> Nat]
    /\ \A p \in Publisher : pc[p] # "idle" => gen[p] \in Generation

\* What publish has established at each label: past Precommit the root is
\* marked, linking starts at the first file, the documents before the current
\* one are linked, and cleaning follows a confirmed manifest.
Progress(p) ==
    /\ pc[p] \in Marked => marker = "ok"
    /\ pc[p] = "validate" => file[p] = 1
    /\ pc[p] = "link" =>
          /\ file[p] \in 1..Last(gen[p])
          /\ \A i \in 1..Len(DocumentsOf[gen[p]]) : i < file[p] => DocumentsOf[gen[p]][i] \in docs
    /\ pc[p] = "clean" => manifest = gen[p]

\* Only the committed generation has been reported.
ReportedIsCommitted == \A g \in reported : manifest = g

DocsInv ==
    /\ DocsType
    /\ \A p \in Publisher : Progress(p)
    /\ ManifestMeansComplete
    /\ ReportedIsCommitted

-----------------------------------------------------------------------------
LEMMA LastType ==
    ASSUME NEW g \in Generation
    PROVE  Last(g) \in Nat /\ Last(g) = Len(DocumentsOf[g]) + 1 /\ Len(DocumentsOf[g]) \in Nat
  BY DocsAssumption DEF Last

\* A step of p leaves alone what the others have established, as long as the
\* root only grows.
LEMMA OthersProgress ==
    ASSUME NEW p \in Publisher, NEW q \in Publisher, p # q, DocsInv,
           pc'[q] = pc[q], gen'[q] = gen[q], file'[q] = file[q],
           marker = "ok" => marker' = "ok", docs \subseteq docs',
           manifest # None => manifest' = manifest
    PROVE  Progress(q)'
  <1>1. Progress(q) /\ (pc[q] # "idle" => gen[q] \in Generation /\ gen[q] # None)
    BY DocsAssumption, Zenon DEF DocsInv, DocsType
  <1> QED
    BY <1>1, Zenon DEF Progress, Marked, Last

\* A complete manifest stays complete while the root only grows.
LEMMA ManifestStays ==
    ASSUME DocsInv, marker = "ok" => marker' = "ok", docs \subseteq docs', manifest' = manifest
    PROVE  ManifestMeansComplete'
  BY Zenon DEF DocsInv, ManifestMeansComplete, Documents

\* One step of publisher p changes only the locals of p and the root grows.
LEMMA Frame ==
    ASSUME DocsInv, NEW p \in Publisher, Step(p) \/ Stop(p)
    PROVE  /\ \A q \in Publisher \ {p} : pc'[q] = pc[q] /\ gen'[q] = gen[q] /\ file'[q] = file[q]
           /\ marker = "ok" => marker' = "ok"
           /\ docs \subseteq docs'
           /\ manifest # None => manifest' = manifest
  <1> USE DEF DocsInv, DocsType, Goto, Leave, NextFile, root
  <1>1. CASE Begin(p)
    BY <1>1, Zenon DEF Begin
  <1>2. CASE Inspect(p)
    BY <1>2, Zenon DEF Inspect
  <1>3. CASE CreateMarker(p)
    BY <1>3, Zenon DEF CreateMarker
  <1>4. CASE FillMarker(p)
    BY <1>4 DEF FillMarker
  <1>5. CASE Precommit(p)
    BY <1>5, Zenon DEF Precommit
  <1>6. CASE Stage(p)
    BY <1>6, Zenon DEF Stage
  <1>7. CASE Fill(p)
    BY <1>7, Zenon DEF Fill
  <1>8. CASE ValidateStaged(p)
    BY <1>8, Zenon DEF ValidateStaged
  <1>9. CASE Link(p)
    BY <1>9, Zenon DEF Link
  <1>10. CASE Confirm(p)
    BY <1>10, Zenon DEF Confirm
  <1>11. CASE Clean(p)
    BY <1>11, Zenon DEF Clean
  <1>12. CASE Stop(p)
    BY <1>12, Zenon DEF Stop
  <1> QED
    BY <1>1, <1>2, <1>3, <1>4, <1>5, <1>6, <1>7, <1>8, <1>9, <1>10, <1>11, <1>12, Zenon DEF Step

LEMMA DocsTypeStep ==
    ASSUME DocsInv, NEW p \in Publisher, Step(p) \/ Stop(p)
    PROVE  DocsType'
  <1> USE DEF DocsInv, DocsType, Goto, Leave, Marked, Labels, NextFile, root
  <1>1. CASE Begin(p)
    BY <1>1, Zenon DEF Begin
  <1>2. CASE Inspect(p)
    BY <1>2 DEF Inspect
  <1>3. CASE CreateMarker(p)
    BY <1>3 DEF CreateMarker
  <1>4. CASE FillMarker(p)
    BY <1>4 DEF FillMarker
  <1>5. CASE Precommit(p)
    BY <1>5, SMTT(30) DEF Precommit
  <1>6. CASE Stage(p)
    BY <1>6 DEF Stage
  <1>7. CASE Fill(p)
    BY <1>7, SMTT(30) DEF Fill
  <1>8. CASE ValidateStaged(p)
    BY <1>8, SMTT(30) DEF ValidateStaged
  <1>9. CASE Link(p)
    BY <1>9 DEF Link
  <1>10. CASE Confirm(p)
    BY <1>10, SMTT(30) DEF Confirm
  <1>11. CASE Clean(p)
    BY <1>11 DEF Clean
  <1>12. CASE Stop(p)
    BY <1>12, Zenon DEF Stop
  <1> QED
    BY <1>1, <1>2, <1>3, <1>4, <1>5, <1>6, <1>7, <1>8, <1>9, <1>10, <1>11, <1>12, Zenon DEF Step

\* What publish has established for p itself, by the step p takes.
LEMMA OwnProgress ==
    ASSUME DocsInv, NEW p \in Publisher, Step(p) \/ Stop(p)
    PROVE  Progress(p)'
  <1>0. /\ Progress(p) /\ file[p] \in Nat
        /\ pc[p] # "idle" => /\ gen[p] \in Generation
                             /\ Last(gen[p]) = Len(DocumentsOf[gen[p]]) + 1
                             /\ Len(DocumentsOf[gen[p]]) \in Nat \ {0}
        /\ \A l : Goto(p, l) => pc'[p] = l
        /\ Leave(p) => pc'[p] = "idle"
        /\ gen' = gen => gen'[p] = gen[p]
        /\ file' = file => file'[p] = file[p]
    BY LastType, DocsAssumption, Zenon DEF DocsInv, DocsType, Goto, Leave
  <1>1. CASE Begin(p)
    BY <1>0, <1>1, Zenon DEF Begin, Progress, Marked
  <1>2. CASE Inspect(p)
    BY <1>0, <1>2, Zenon DEF Inspect, Progress, Marked, root
  <1>3. CASE CreateMarker(p)
    BY <1>0, <1>3, Zenon DEF CreateMarker, Progress, Marked
  <1>4. CASE FillMarker(p)
    BY <1>0, <1>4, Zenon DEF FillMarker, Progress, Marked
  <1>5. CASE Precommit(p)
    BY <1>0, <1>5, Zenon DEF Precommit, Progress, Marked, root
  <1>6. CASE Stage(p) \/ Fill(p)
    <2>1. /\ pc[p] \in Marked /\ marker' = marker
          /\ \/ pc'[p] \in {"stage", "fill", "idle"}
             \/ pc'[p] = "validate" /\ file'[p] = 1
      BY <1>0, <1>6, Zenon DEF Stage, Fill, NextFile, root, Marked, DocsInv, DocsType
    <2> QED
      BY <1>0, <2>1, Zenon DEF Progress, Marked
  <1>7. CASE ValidateStaged(p)
    BY <1>0, <1>7 DEF ValidateStaged, Progress, Marked, root
  <1>8. CASE Link(p)
    <2>1. CASE pc'[p] = "link"
      <3>1. /\ file[p] \in 1..Len(DocumentsOf[gen[p]]) /\ file'[p] = file[p] + 1
            /\ gen'[p] = gen[p] /\ marker' = marker
            /\ docs' = docs \cup {DocumentsOf[gen[p]][file[p]]}
        <4>1. /\ file[p] < Last(gen[p]) /\ file' = [file EXCEPT ![p] = @ + 1]
              /\ gen' = gen /\ marker' = marker /\ pc[p] = "link"
              /\ file[p] # Last(gen[p]) => docs' = docs \cup {DocumentsOf[gen[p]][file[p]]}
          BY <1>0, <1>8, <2>1, Zenon DEF Link, NextFile
        <4>2. /\ file[p] \in 1..Last(gen[p]) /\ Last(gen[p]) = Len(DocumentsOf[gen[p]]) + 1
              /\ Len(DocumentsOf[gen[p]]) \in Nat
          BY <1>0, <4>1, Zenon DEF Progress
        <4>3. file[p] # Last(gen[p]) /\ file[p] \in 1..Len(DocumentsOf[gen[p]])
          BY <4>1, <4>2
        <4>4. file'[p] = file[p] + 1
          BY <4>1, Zenon DEF DocsInv, DocsType
        <4> QED
          BY <4>1, <4>3, <4>4, Zenon
      <3>2. /\ \A i \in 1..Len(DocumentsOf[gen[p]]) : i < file[p] => DocumentsOf[gen[p]][i] \in docs
            /\ marker = "ok" /\ Len(DocumentsOf[gen[p]]) \in Nat
            /\ Last(gen[p]) = Len(DocumentsOf[gen[p]]) + 1
        BY <1>0, <1>8, Zenon DEF Link, Progress, Marked
      <3>3. /\ file'[p] \in 1..Last(gen[p])
            /\ \A i \in 1..Len(DocumentsOf[gen[p]]) : i < file'[p] => i < file[p] \/ i = file[p]
        BY <3>1, <3>2
      <3>4. \A i \in 1..Len(DocumentsOf[gen[p]]) : i < file'[p] => DocumentsOf[gen[p]][i] \in docs'
        BY <3>1, <3>2, <3>3, Zenon
      <3> QED
        BY <2>1, <3>1, <3>2, <3>3, <3>4, Zenon DEF Progress, Last
    <2>2. CASE pc'[p] # "link"
      BY <1>0, <1>8, <2>2, Zenon DEF Link, NextFile, Progress, Marked
    <2> QED
      BY <2>1, <2>2, Zenon
  <1>9. CASE Confirm(p)
    BY <1>0, <1>9, Zenon DEF Confirm, Loads, Progress, Marked, root
  <1>10. CASE Clean(p)
    BY <1>0, <1>10, Zenon DEF Clean, Progress, Marked, root
  <1>11. CASE Stop(p)
    BY <1>0, <1>11, Zenon DEF Stop, Progress, Marked, root
  <1> QED
    BY <1>1, <1>2, <1>3, <1>4, <1>5, <1>6, <1>7, <1>8, <1>9, <1>10, <1>11, Zenon DEF Step

\* Only Link sets the manifest, and only past the last document.
LEMMA CommitIsLast ==
    ASSUME DocsInv, NEW p \in Publisher, Step(p) \/ Stop(p), manifest' # manifest
    PROVE  /\ pc[p] = "link" /\ file[p] = Last(gen[p]) /\ manifest = None /\ manifest' = gen[p]
           /\ UNCHANGED <<marker, docs, reported>>
  <1>1. manifest \in Generation \cup {None}
    BY Zenon DEF DocsInv, DocsType
  <1>2. Link(p)
    BY Zenon DEF Step, Begin, Inspect, CreateMarker, FillMarker, Precommit, Stage, Fill, ValidateStaged,
           Confirm, Clean, Stop, root
  <1> QED
    BY <1>1, <1>2, Zenon DEF Link

\* Only Inspect and Clean report, and what they report is in manifest.json.
LEMMA ReportsCommitted ==
    ASSUME DocsInv, NEW p \in Publisher, Step(p) \/ Stop(p)
    PROVE  \A g \in reported' \ reported : manifest = g /\ manifest' = g
  <1>1. CASE Begin(p)
    BY <1>1, Zenon DEF Begin
  <1>2. CASE Inspect(p)
    <2>1. reported' = reported \/ (reported' = reported \cup {gen[p]} /\ Loads(gen[p]))
      BY <1>2, Zenon DEF Inspect
    <2>2. manifest' = manifest
      BY <1>2, Zenon DEF Inspect, root
    <2> QED
      BY <2>1, <2>2, Zenon DEF Loads
  <1>3. CASE CreateMarker(p) \/ FillMarker(p) \/ Precommit(p)
    BY <1>3, Zenon DEF CreateMarker, FillMarker, Precommit
  <1>4. CASE Stage(p) \/ Fill(p) \/ ValidateStaged(p)
    BY <1>4, Zenon DEF Stage, Fill, ValidateStaged
  <1>5. CASE Link(p) \/ Confirm(p)
    BY <1>5, Zenon DEF Link, Confirm
  <1>6. CASE Clean(p)
    BY <1>6, Zenon DEF Clean, root, DocsInv, Progress
  <1>7. CASE Stop(p)
    BY <1>7, Zenon DEF Stop
  <1> QED
    BY <1>1, <1>2, <1>3, <1>4, <1>5, <1>6, <1>7, Zenon DEF Step

LEMMA DocsStep ==
    ASSUME DocsInv, [Next]_vars
    PROVE  DocsInv'
  <1>1. CASE UNCHANGED vars
    BY <1>1, Zenon DEF vars, DocsInv, DocsType, Progress, ManifestMeansComplete, ReportedIsCommitted, Last, Documents
  <1>2. ASSUME NEW p \in Publisher, Step(p) \/ Stop(p)
        PROVE  DocsInv'
    <2>1. \A q \in Publisher : Progress(q)'
      BY <1>2, Frame, OwnProgress, OthersProgress, Zenon
    <2>2. ManifestMeansComplete'
      <3>1. CASE manifest' = manifest
        BY <1>2, <3>1, Frame, ManifestStays, Zenon
      <3>2. CASE manifest' # manifest
        <4>1. Progress(p) /\ gen[p] \in Generation /\ pc[p] = "link" /\ file[p] = Last(gen[p])
          BY <1>2, <3>2, CommitIsLast, Zenon DEF DocsInv, DocsType
        <4>2. Documents(gen[p]) \subseteq docs /\ marker = "ok"
          BY <4>1, LastType DEF Progress, Marked, Documents
        <4> QED
          BY <1>2, <3>2, <4>2, CommitIsLast, Zenon DEF ManifestMeansComplete, Documents
      <3> QED
        BY <3>1, <3>2, Zenon
    <2>3. ReportedIsCommitted'
      <3>1. \A g \in reported : manifest = g /\ manifest' = g
        <4>1. SUFFICES ASSUME NEW g \in reported
                       PROVE  manifest = g /\ manifest' = g
          BY Zenon
        <4> QED
          BY <1>2, Frame, DocsAssumption, Zenon DEF DocsInv, DocsType, ReportedIsCommitted
      <3> QED
        BY <1>2, <3>1, ReportsCommitted, Zenon DEF ReportedIsCommitted
    <2> QED
      BY <1>2, <2>1, <2>2, <2>3, DocsTypeStep, Zenon DEF DocsInv
  <1> QED
    BY <1>1, <1>2, Zenon DEF Next

-----------------------------------------------------------------------------
(* The theorems *)

\* The invariant of publish: what each publisher has established at its label
\* holds whatever the others do, and so the last link finds every document.
THEOREM DocsInvariant == Spec => []DocsInv
  <1>1. Init => DocsInv
    BY DEF Init, DocsInv, DocsType, Progress, Marked, Labels, ManifestMeansComplete, ReportedIsCommitted
  <1>2. DocsInv /\ [Next]_vars => DocsInv'
    BY DocsStep
  <1> QED
    BY <1>1, <1>2, PTL DEF Spec

\* manifest.json is the commit point of generated_docs::publish: with any
\* number of publishers, kills and failed calls, a root that has a manifest has
\* its marker and every document the manifest lists.
THEOREM CommittedDocsComplete == Spec => []ManifestMeansComplete
  <1>1. DocsInv => ManifestMeansComplete
    BY DEF DocsInv
  <1> QED
    BY <1>1, DocsInvariant, PTL

\* A commit is final: once manifest.json is linked, no step of any publisher
\* replaces it or takes a document it lists out of the root.
CommitIsFinal ==
    [][manifest # None => manifest' = manifest /\ Documents(manifest) \subseteq docs']_vars

\* publish_noclobber links the manifest of one generation only, and nothing
\* in publish removes a published document.
THEOREM DocsCommitFinal == Spec => CommitIsFinal
  <1>1. DocsInv /\ [Next]_vars => [manifest # None => manifest' = manifest /\ Documents(manifest) \subseteq docs']_vars
    <2>1. SUFFICES ASSUME DocsInv, NEW p \in Publisher, Step(p) \/ Stop(p), manifest # None
                   PROVE  manifest' = manifest /\ Documents(manifest) \subseteq docs'
      BY DEF Next
    <2>2. Documents(manifest) \subseteq docs
      BY <2>1 DEF DocsInv, ManifestMeansComplete
    <2> QED
      BY <2>1, <2>2, Frame, Zenon
  <1> QED
    BY <1>1, DocsInvariant, PTL DEF Spec, CommitIsFinal

\* Publishers of different generations never both report success: what one of
\* them was told is published is what manifest.json names from then on.
OneGenerationReported == \A g, h \in reported : g = h /\ manifest = g

\* Success is reported from Inspect and from Clean only, both after the root
\* has been loaded as the publisher's own generation.
THEOREM OneWinner == Spec => []OneGenerationReported
  <1>1. DocsInv => OneGenerationReported
    BY DEF DocsInv, ReportedIsCommitted, OneGenerationReported
  <1> QED
    BY <1>1, DocsInvariant, PTL

-----------------------------------------------------------------------------
(* THE OUTPUT ROOT OF AN EXPORT *)

Payload == {BytesOf[g][i] : g \in Generation, i \in 1..NumFiles} \cup {None}
ExportLabels == {"idle", "inspect", "look", "mark", "fill", "write", "rename", "verify", "undo"}

-----------------------------------------------------------------------------
(* The inductive invariant *)

\* The type, and where in the files a publisher is at each label.
ExportType ==
    /\ exportMarker \in {"absent", "torn", "ok"}
    /\ files \in [1..NumFiles -> Payload]
    /\ exportPc \in [Publisher -> ExportLabels]
    /\ exportGen \in [Publisher -> Generation \cup {None}]
    /\ exportFile \in [Publisher -> Nat]
    /\ foundEmpty \in [Publisher -> BOOLEAN]
    /\ exported \subseteq Generation
    /\ exportsOverlap \in BOOLEAN /\ killed \in BOOLEAN

Local(p) ==
    /\ exportPc[p] # "idle" => exportGen[p] \in Generation
    /\ exportFile[p] <= NumFiles
    /\ exportPc[p] \in {"write", "rename"} => exportFile[p] \in 1..NumFiles
    /\ exportPc[p] \in {"idle", "inspect", "look"} => ~foundEmpty[p]
    /\ exportPc[p] \in {"mark", "fill", "undo"} => foundEmpty[p]

\* Publishers take turns.
Solo == \A p, q \in Publisher : exportPc[p] # "idle" /\ exportPc[q] # "idle" => p = q

\* Whoever found the root empty, or is about to put a file into it or to take
\* one out, works on a root nobody has reported.
Unreported(p) == foundEmpty[p] \/ exportPc[p] = "rename" => exported = {}

\* How the root is between two turns when nobody has been killed.
Whole == (NoFiles /\ exportMarker # "ok") \/ \E g \in Generation : Complete(g)

\* The files before n are of generation g, and there are no others.
Prefix(g, n) == \A i \in 1..NumFiles : files[i] = IF i < n THEN BytesOf[g][i] ELSE None

\* How p finds or leaves the root in its turn.
InTurn(p) ==
    /\ exportPc[p] \in {"inspect", "look"} => Whole
    /\ exportPc[p] = "mark" => NoFiles /\ exportMarker # "ok"
    /\ exportPc[p] = "fill" => NoFiles /\ exportMarker = "torn"
    /\ exportPc[p] \in {"write", "verify"} /\ ~foundEmpty[p] => \E g \in Generation : Complete(g)
    /\ exportPc[p] = "rename" => foundEmpty[p]
    /\ exportPc[p] \in {"write", "rename"} /\ foundEmpty[p] => exportMarker = "ok" /\ Prefix(exportGen[p], exportFile[p])
    /\ exportPc[p] = "undo" => \A i \in 1..NumFiles : i > exportFile[p] => files[i] = None

AllIdle == \A p \in Publisher : exportPc[p] = "idle"

ExportInv ==
    /\ ExportType
    /\ \A p \in Publisher : Local(p)
    /\ ~exportsOverlap => Solo
    /\ ~exportsOverlap => \A p \in Publisher : Unreported(p)
    /\ ReportedStaysInTurn
    /\ ~exportsOverlap /\ ~killed => \A p \in Publisher : InTurn(p)
    /\ ~exportsOverlap /\ ~killed /\ AllIdle => Whole

-----------------------------------------------------------------------------
(* Type and control *)

ExportActs(p) == PublishStep(p) \/ ExportFails(p) \/ KillExport(p)

LEMMA PayloadType ==
    ASSUME ExportAssumption
    PROVE  \A g \in Generation : BytesOf[g] \in [1..NumFiles -> Payload]
  <1> SUFFICES ASSUME NEW g \in Generation
               PROVE  BytesOf[g] \in [1..NumFiles -> Payload]
    OBVIOUS
  <1>1. \A i \in 1..NumFiles : BytesOf[g][i] \in Payload
    BY DEF Payload
  <1>2. BytesOf[g] = [i \in 1..NumFiles |-> BytesOf[g][i]]
    BY Zenon DEF ExportAssumption
  <1> QED
    BY <1>1, <1>2, Zenon

\* What Goto, AtFile and Leave do to the locals' types.
LEMMA MovesType ==
    ASSUME ExportType, NEW p \in Publisher
    PROVE  /\ \A l \in ExportLabels : GoOn(p, l) => exportPc' \in [Publisher -> ExportLabels]
           /\ \A i \in Nat : AtFile(p, i) => exportFile' \in [Publisher -> Nat]
           /\ LeaveOutput(p) => /\ exportPc' \in [Publisher -> ExportLabels]
                                /\ exportGen' \in [Publisher -> Generation \cup {None}]
                                /\ exportFile' \in [Publisher -> Nat]
                                /\ foundEmpty' \in [Publisher -> BOOLEAN]
  <1>1. \A l \in ExportLabels : GoOn(p, l) => exportPc' \in [Publisher -> ExportLabels]
    BY Zenon DEF ExportType, GoOn
  <1>2. \A i \in Nat : AtFile(p, i) => exportFile' \in [Publisher -> Nat]
    BY Zenon DEF ExportType, AtFile
  <1>3. LeaveOutput(p) => exportPc' \in [Publisher -> ExportLabels] /\ exportGen' \in [Publisher -> Generation \cup {None}]
    BY Zenon DEF ExportType, LeaveOutput, ExportLabels
  <1>4. LeaveOutput(p) => exportFile' \in [Publisher -> Nat]
    BY DEF ExportType, LeaveOutput
  <1>5. LeaveOutput(p) => foundEmpty' \in [Publisher -> BOOLEAN]
    BY Zenon DEF ExportType, LeaveOutput
  <1> QED
    BY <1>1, <1>2, <1>3, <1>4, <1>5, Zenon

LEMMA ExportTypeStep ==
    ASSUME ExportAssumption, ExportInv, NEW p \in Publisher, ExportActs(p)
    PROVE  ExportType'
  <1> USE DEF ExportType, exportRoot, exportHistory
  <1>20. NumFiles \in Nat \ {0}
    BY Zenon DEF ExportAssumption
  <1>21. None \in Payload
    BY DEF Payload
  <1>22. ExportType /\ exportFile[p] \in Nat
    BY Zenon DEF ExportInv
  <1>23. {"idle", "inspect", "look", "mark", "fill", "write", "rename", "verify", "undo"}
          \subseteq ExportLabels
    BY DEF ExportLabels
  <1>0. /\ NumFiles \in Nat \ {0} /\ None \in Payload /\ ExportType /\ exportFile[p] \in Nat
        /\ {"idle", "inspect", "look", "mark", "fill", "write", "rename", "verify", "undo"}
             \subseteq ExportLabels
    BY <1>20, <1>21, <1>22, <1>23, Zenon
  <1>1. CASE BeginExport(p)
    BY <1>0, <1>1, MovesType, Zenon DEF BeginExport
  <1>2. CASE InspectOutput(p) /\ UNCHANGED exportHistory
    BY <1>0, <1>2, MovesType, Zenon DEF InspectOutput
  <1>3. CASE LookInside(p) /\ UNCHANGED exportHistory
    BY <1>0, <1>3, MovesType, Zenon DEF LookInside
  <1>4. CASE CreateExportMarker(p) /\ UNCHANGED exportHistory
    BY <1>0, <1>4, MovesType, Zenon DEF CreateExportMarker
  <1>5. CASE FillExportMarker(p) /\ UNCHANGED exportHistory
    BY <1>0, <1>5, MovesType, Zenon DEF FillExportMarker
  <1>6. CASE Write(p) /\ UNCHANGED exportHistory
    BY <1>0, <1>6, MovesType DEF Write, NextOutput, Undo
  <1>7. CASE Rename(p) /\ UNCHANGED exportHistory
    <2>1. Bytes(p) \in Payload
      <3>1. exportGen[p] \in Generation /\ exportFile[p] \in 1..NumFiles
        BY <1>7, Zenon DEF Rename, Local, ExportInv
      <3> QED
        BY <3>1 DEF Bytes, Payload
    <2>2. files' \in [1..NumFiles -> Payload]
      BY <1>0, <1>7, <2>1, Zenon DEF Rename
    <2> QED
      BY <1>0, <1>7, <2>2, MovesType DEF Rename, NextOutput
  <1>8. CASE Verify(p) /\ UNCHANGED exportHistory
    <2>1. exportGen[p] \in Generation
      BY <1>8, Zenon DEF Verify, Local, ExportInv
    <2> QED
      BY <1>0, <1>8, <2>1, MovesType, Zenon DEF Verify, Undo
  <1>9. CASE UndoFile(p) /\ UNCHANGED exportHistory
    <2>1. files' \in [1..NumFiles -> Payload]
      BY <1>0, <1>9, Zenon DEF UndoFile
    <2> QED
      BY <1>0, <1>9, <2>1, MovesType DEF UndoFile
  <1>10. CASE ExportFails(p)
    BY <1>0, <1>10, MovesType, Zenon DEF ExportFails, Fault, Undo
  <1>11. CASE KillExport(p)
    BY <1>0, <1>11, MovesType, Zenon DEF KillExport, Fault
  <1> QED
    BY <1>1, <1>2, <1>3, <1>4, <1>5, <1>6, <1>7, <1>8, <1>9, <1>10, <1>11, Zenon DEF ExportActs, PublishStep

\* A step of p leaves the locals of the others alone.
LEMMA ExportFrame ==
    ASSUME ExportInv, NEW p \in Publisher, ExportActs(p), NEW q \in Publisher, q # p
    PROVE  exportPc'[q] = exportPc[q] /\ exportGen'[q] = exportGen[q] /\ exportFile'[q] = exportFile[q] /\ foundEmpty'[q] = foundEmpty[q]
  <1> USE DEF ExportInv, ExportType, GoOn, AtFile, LeaveOutput
  <1>1. CASE BeginExport(p) \/ InspectOutput(p) \/ LookInside(p) \/ CreateExportMarker(p) \/ FillExportMarker(p)
    BY <1>1, Zenon DEF BeginExport, InspectOutput, LookInside, CreateExportMarker, FillExportMarker
  <1>2. CASE Write(p) \/ Rename(p) \/ Verify(p) \/ UndoFile(p)
    BY <1>2, Zenon DEF Write, Rename, Verify, UndoFile, NextOutput, Undo
  <1>3. CASE ExportFails(p) \/ KillExport(p)
    BY <1>3, Zenon DEF ExportFails, KillExport, Undo
  <1> QED
    BY <1>1, <1>2, <1>3, Zenon DEF ExportActs, PublishStep

\* What Goto, AtFile and Leave say of p itself.
Moved(p) ==
    /\ \A l \in ExportLabels : GoOn(p, l) => exportPc'[p] = l
    /\ \A i \in Nat : AtFile(p, i) => exportFile'[p] = i
    /\ LeaveOutput(p) => exportPc'[p] = "idle" /\ foundEmpty'[p] = FALSE /\ exportFile'[p] = 0
    /\ UNCHANGED exportGen => exportGen'[p] = exportGen[p]
    /\ UNCHANGED exportFile => exportFile'[p] = exportFile[p]
    /\ UNCHANGED foundEmpty => foundEmpty'[p] = foundEmpty[p]
    /\ exportPc[p] \in ExportLabels /\ exportFile[p] \in Nat /\ foundEmpty[p] \in BOOLEAN
    /\ ExportLabels = {"idle", "inspect", "look", "mark", "fill", "write", "rename", "verify", "undo"}

LEMMA Moves ==
    ASSUME ExportInv, NEW p \in Publisher
    PROVE  Moved(p)
  <1>1. \A l \in ExportLabels : GoOn(p, l) => exportPc'[p] = l
    BY Zenon DEF ExportInv, ExportType, GoOn
  <1>2. \A i \in Nat : AtFile(p, i) => exportFile'[p] = i
    BY Zenon DEF ExportInv, ExportType, AtFile
  <1>3. LeaveOutput(p) => exportPc'[p] = "idle" /\ foundEmpty'[p] = FALSE /\ exportFile'[p] = 0
    BY Zenon DEF ExportInv, ExportType, LeaveOutput
  <1> QED
    BY <1>1, <1>2, <1>3, Zenon DEF ExportInv, ExportType, ExportLabels, Moved

LEMMA AfterNext ==
    ASSUME NEW p \in Publisher, Moved(p), NumFiles \in Nat, exportFile[p] \in 1..NumFiles, NextOutput(p)
    PROVE  \/ /\ exportPc'[p] = "write" /\ exportFile'[p] = exportFile[p] + 1
              /\ exportFile[p] + 1 \in 1..NumFiles
           \/ exportPc'[p] = "verify" /\ exportFile'[p] = exportFile[p] /\ exportFile[p] = NumFiles
  <1>1. exportFile[p] + 1 \in Nat /\ {"write", "verify"} \subseteq ExportLabels
    BY DEF ExportLabels
  <1>2. CASE exportFile[p] < NumFiles
    <2>1. exportFile[p] + 1 \in 1..NumFiles
      BY <1>2
    <2> QED
      BY <1>1, <1>2, <2>1, Zenon DEF NextOutput, Moved
  <1>3. CASE ~(exportFile[p] < NumFiles)
    <2>1. exportFile[p] = NumFiles
      BY <1>3
    <2> QED
      BY <1>1, <1>3, <2>1, Zenon DEF NextOutput, Moved
  <1> QED
    BY <1>2, <1>3, Zenon

LEMMA LocalStep ==
    ASSUME ExportAssumption, ExportInv, NEW p \in Publisher, ExportActs(p)
    PROVE  \A q \in Publisher : Local(q)'
  <1>0. NumFiles \in Nat \ {0} /\ Local(p) /\ Moved(p)
    BY Moves, Zenon DEF ExportAssumption, ExportInv
  <1>1. Local(p)'
    <2>10. /\ 0 <= NumFiles /\ 1 <= NumFiles /\ NumFiles <= NumFiles /\ 1 \in 1..NumFiles
           /\ 0 \in Nat /\ 1 \in Nat /\ NumFiles \in Nat
      BY <1>0
    <2>11. ASSUME LeaveOutput(p)
           PROVE  Local(p)'
      <3>1. exportPc'[p] = "idle" /\ foundEmpty'[p] = FALSE /\ exportFile'[p] <= NumFiles
        BY <1>0, <2>10, <2>11, Zenon DEF Moved
      <3> QED
        BY <3>1, Zenon DEF Local
    <2>12. ASSUME Undo(p), exportPc[p] # "idle"
           PROVE  Local(p)'
      <3>1. CASE foundEmpty[p]
        <4>1. /\ exportPc'[p] = "undo" /\ foundEmpty'[p] /\ exportFile'[p] <= NumFiles
              /\ exportGen'[p] \in Generation
          BY <1>0, <2>10, <2>12, <3>1, Zenon DEF Undo, Moved, Local
        <4> QED
          BY <4>1, Zenon DEF Local
      <3>2. CASE ~foundEmpty[p]
        BY <2>11, <2>12, <3>2, Zenon DEF Undo
      <3> QED
        BY <3>1, <3>2, Zenon
    <2>1. CASE BeginExport(p) \/ InspectOutput(p) \/ CreateExportMarker(p)
      <3>1. CASE BeginExport(p)
        <4>1. exportGen'[p] \in Generation
          BY <3>1, Zenon DEF BeginExport, ExportInv, ExportType
        <4> QED
          BY <1>0, <3>1, <4>1, Zenon DEF BeginExport, Moved, Local
      <3>2. CASE InspectOutput(p)
        BY <1>0, <2>11, <3>2, Zenon DEF InspectOutput, Moved, Local
      <3>3. CASE CreateExportMarker(p)
        BY <1>0, <2>11, <3>3, Zenon DEF CreateExportMarker, Moved, Local
      <3> QED
        BY <2>1, <3>1, <3>2, <3>3, Zenon
    <2>2. CASE LookInside(p)
      <3>1. CASE GoOn(p, "mark") /\ foundEmpty' = [foundEmpty EXCEPT ![p] = TRUE] /\ UNCHANGED <<exportGen, exportFile>>
        <4>1. foundEmpty'[p]
          BY <3>1, Zenon DEF ExportInv, ExportType
        <4> QED
          BY <1>0, <2>2, <3>1, <4>1, Zenon DEF LookInside, Moved, Local
      <3>2. CASE GoOn(p, "write") /\ AtFile(p, 1) /\ UNCHANGED <<exportGen, foundEmpty>>
        BY <1>0, <2>2, <2>10, <3>2, Zenon DEF LookInside, Moved, Local
      <3> QED
        BY <2>2, <2>11, <3>1, <3>2, Zenon DEF LookInside
    <2>3. CASE FillExportMarker(p)
      BY <1>0, <2>3, <2>10, Zenon DEF FillExportMarker, Moved, Local
    <2>13. ASSUME NextOutput(p), UNCHANGED <<exportGen, foundEmpty>>, exportPc[p] \in {"write", "rename"}
           PROVE  Local(p)'
      <3>1. exportFile[p] \in 1..NumFiles /\ exportGen[p] \in Generation
        BY <1>0, <2>13, Zenon DEF Local
      <3>2. \A i \in 1..NumFiles : i <= NumFiles
        BY <1>0
      <3>3. exportPc'[p] \in {"write", "verify"} /\ exportFile'[p] \in 1..NumFiles
        BY <1>0, <2>10, <2>13, <3>1, AfterNext, Zenon
      <3> QED
        BY <2>13, <3>1, <3>2, <3>3, Zenon DEF Local
    <2>4. CASE Write(p)
      <3>1. CASE GoOn(p, "rename") /\ UNCHANGED <<exportGen, exportFile, foundEmpty>>
        BY <1>0, <2>4, <3>1, Zenon DEF Write, Moved, Local
      <3> QED
        BY <2>4, <2>12, <2>13, <3>1, Zenon DEF Write
    <2>5. CASE Rename(p)
      BY <2>5, <2>13, Zenon DEF Rename
    <2>6. CASE Verify(p)
      BY <2>6, <2>11, <2>12, Zenon DEF Verify
    <2>7. CASE UndoFile(p)
      <3>1. CASE exportFile[p] > 0 /\ AtFile(p, exportFile[p] - 1) /\ UNCHANGED <<exportPc, exportGen, foundEmpty>>
        <4>1. exportFile[p] \in Nat /\ exportFile[p] <= NumFiles
          BY <1>0, Zenon DEF Moved, Local
        <4>2. exportFile[p] - 1 \in Nat /\ exportFile[p] - 1 <= NumFiles
          BY <2>10, <3>1, <4>1
        <4> QED
          BY <1>0, <2>7, <3>1, <4>2, Zenon DEF UndoFile, Moved, Local
      <3> QED
        BY <2>7, <2>11, <3>1, Zenon DEF UndoFile
    <2>8. CASE ExportFails(p)
      BY <2>8, <2>11, <2>12, Zenon DEF ExportFails
    <2>9. CASE KillExport(p)
      BY <2>9, <2>11, Zenon DEF KillExport
    <2> QED
      BY <2>1, <2>2, <2>3, <2>4, <2>5, <2>6, <2>7, <2>8, <2>9, Zenon DEF ExportActs, PublishStep
  <1>2. ASSUME NEW q \in Publisher, q # p
        PROVE  Local(q)'
    BY <1>2, ExportFrame, Zenon DEF ExportInv, Local
  <1> QED
    BY <1>1, <1>2, Zenon

-----------------------------------------------------------------------------
(* Turns *)

\* As long as publishers take turns, whoever acts is the only one at work.
LEMMA Alone ==
    ASSUME ExportInv, NEW p \in Publisher, ExportActs(p), ~exportsOverlap'
    PROVE  /\ ~exportsOverlap
           /\ \A q \in Publisher : q # p => exportPc[q] = "idle" /\ exportPc'[q] = "idle" /\ foundEmpty'[q] = FALSE
           /\ exportPc[p] = "idle" => AllIdle /\ BeginExport(p)
           /\ ~killed' => ~killed
  <1>1. /\ exportPc[p] = "idle" => BeginExport(p)
        /\ exportsOverlap' = (exportsOverlap \/ (BeginExport(p) /\ \E q \in Publisher \ {p} : exportPc[q] # "idle"))
        /\ ~killed' => ~killed
    <2>1. CASE BeginExport(p)
      BY <2>1, Zenon DEF BeginExport
    <2>2. CASE /\ InspectOutput(p) \/ LookInside(p) \/ CreateExportMarker(p) \/ FillExportMarker(p)
                  \/ Write(p) \/ Rename(p) \/ Verify(p) \/ UndoFile(p)
               /\ UNCHANGED exportHistory
      BY <2>2, Zenon DEF BeginExport, InspectOutput, LookInside, CreateExportMarker, FillExportMarker, Write, Rename, Verify, UndoFile, exportHistory,
                  ExportInv, ExportType
    <2>3. CASE ExportFails(p) \/ KillExport(p)
      BY <2>3, Zenon DEF BeginExport, ExportFails, KillExport, Fault, ExportInv, ExportType
    <2> QED
      BY <2>1, <2>2, <2>3, Zenon DEF ExportActs, PublishStep
  <1>2. ~exportsOverlap
    BY <1>1, Zenon DEF ExportInv, ExportType
  <1>3. ASSUME NEW q \in Publisher, q # p
        PROVE  exportPc[q] = "idle" /\ exportPc'[q] = "idle" /\ foundEmpty'[q] = FALSE
    <2>1. exportPc[q] = "idle"
      BY <1>1, <1>2, <1>3, Zenon DEF ExportInv, Solo
    <2> QED
      BY <1>3, <2>1, ExportFrame, Zenon DEF ExportInv, Local, ExportType
  <1> QED
    BY <1>1, <1>2, <1>3, Zenon DEF AllIdle

\* A step in turn leaves what has been reported alone.
LEMMA ReportedStep ==
    ASSUME ExportAssumption, ExportInv, NEW p \in Publisher, ExportActs(p), ~exportsOverlap'
    PROVE  ReportedStays' /\ Unreported(p)'
  <1>0. /\ ~exportsOverlap /\ Local(p) /\ Unreported(p) /\ ReportedStays /\ Moved(p) /\ NumFiles \in Nat \ {0}
        /\ ExportLabels = {"idle", "inspect", "look", "mark", "fill", "write", "rename", "verify", "undo"}
    BY Alone, Moves, Zenon DEF ExportInv, ReportedStaysInTurn, ExportAssumption, ExportLabels
  <1>1. CASE Verify(p)
    <2>1. UNCHANGED <<exportMarker, files>> /\ exportPc'[p] # "rename"
      BY <1>0, <1>1, Zenon DEF Verify, exportRoot, Undo, Moved
    <2>2. CASE Acceptable /\ Complete(exportGen[p]) /\ exported' = exported \cup {exportGen[p]} /\ LeaveOutput(p)
      BY <1>0, <2>1, <2>2, Zenon DEF ReportedStays, Complete, Moved, Unreported
    <2>3. CASE Undo(p) /\ UNCHANGED exported
      BY <1>0, <2>1, <2>3, Zenon DEF ReportedStays, Complete, Moved, Unreported, Undo
    <2> QED
      BY <1>1, <2>2, <2>3, Zenon DEF Verify
  <1>2. CASE ~Verify(p) /\ exported = {}
    <2>1. exported' = exported
      BY <1>2, Zenon DEF ExportActs, PublishStep, BeginExport, InspectOutput, LookInside, CreateExportMarker, FillExportMarker, Write, Rename, UndoFile,
                  ExportFails, KillExport
    <2> QED
      BY <1>2, <2>1, Zenon DEF ReportedStays, Unreported
  <1>3. CASE ~Verify(p) /\ exported # {}
    <2>1. PICK g \in exported : Complete(g)
      BY <1>0, <1>3, Zenon DEF ReportedStays
    <2>2. ~foundEmpty[p] /\ exportPc[p] \notin {"mark", "fill", "undo", "rename"} /\ exportMarker = "ok"
      BY <1>0, <1>3, <2>1, Zenon DEF Unreported, Local, Complete
    <2>3. /\ UNCHANGED <<exportMarker, files, exported>>
          /\ foundEmpty'[p] = FALSE /\ exportPc'[p] # "rename"
      <3>1. CASE BeginExport(p) \/ InspectOutput(p)
        BY <1>0, <2>2, <3>1, Zenon DEF BeginExport, InspectOutput, exportRoot, Moved
      <3>2. CASE LookInside(p)
        BY <1>0, <2>2, <3>2, Zenon DEF LookInside, exportRoot, Moved
      <3>3. CASE Write(p)
        <4>1. exportFile[p] \in 1..NumFiles /\ files[exportFile[p]] # None
          BY <1>0, <2>1, <3>3, Zenon DEF Write, Local, Complete, ExportAssumption, ExportInv, ExportType
        <4> QED
          BY <1>0, <2>2, <3>3, <4>1, Zenon DEF Write, NextOutput, Undo, Moved
      <3>4. CASE ExportFails(p) \/ KillExport(p)
        BY <1>0, <2>2, <3>4, Zenon DEF ExportFails, KillExport, Undo, Moved
      <3> QED
        BY <1>3, <2>2, <3>1, <3>2, <3>3, <3>4, Zenon DEF ExportActs, PublishStep, CreateExportMarker, FillExportMarker, Rename, UndoFile
    <2> QED
      BY <1>0, <2>3, Zenon DEF ReportedStays, Complete, Unreported
  <1> QED
    BY <1>1, <1>2, <1>3, Zenon

\* With the same root, the same is whole, complete and written so far.
LEMMA SameRoot ==
    ASSUME UNCHANGED <<exportMarker, files>>
    PROVE  /\ Whole' <=> Whole
           /\ NoFiles' <=> NoFiles
           /\ \A g : Complete(g)' <=> Complete(g)
           /\ \A g, n : Prefix(g, n)' <=> Prefix(g, n)
  BY Zenon DEF Whole, NoFiles, Complete, Prefix

\* Writing, and undoing, file by file.
LEMMA PrefixStops ==
    ASSUME NumFiles \in Nat, NEW g, NEW n \in 1..NumFiles, Prefix(g, n)
    PROVE  files[n] = None
  BY DEF Prefix

LEMMA PrefixGrows ==
    ASSUME NumFiles \in Nat, NEW g, NEW n \in 1..NumFiles, Prefix(g, n),
           files \in [1..NumFiles -> Payload], files' = [files EXCEPT ![n] = BytesOf[g][n]]
    PROVE  \A i \in 1..NumFiles : files'[i] = IF i < n + 1 THEN BytesOf[g][i] ELSE None
  BY DEF Prefix

LEMMA UndoneAbove ==
    ASSUME NumFiles \in Nat, NEW n \in 1..NumFiles, files \in [1..NumFiles -> Payload],
           \A i \in 1..NumFiles : i > n => files[i] = None,
           files' = [files EXCEPT ![n] = None]
    PROVE  \A i \in 1..NumFiles : i > n - 1 => files'[i] = None
  OBVIOUS

\* A step in turn of p leaves p where InTurn says, or the root whole.
LEMMA TurnStep ==
    ASSUME ExportAssumption, ExportInv, NEW p \in Publisher, ExportActs(p), ~exportsOverlap', ~killed'
    PROVE  InTurn(p)' /\ (exportPc'[p] = "idle" => Whole')
  <1>0. /\ Local(p) /\ InTurn(p) /\ Moved(p) /\ NumFiles \in Nat \ {0}
        /\ ExportLabels = {"idle", "inspect", "look", "mark", "fill", "write", "rename", "verify", "undo"}
        /\ exportPc[p] = "idle" => Whole
    BY Alone, Moves, Zenon DEF ExportInv, ExportAssumption, ExportLabels
  <1>1. CASE BeginExport(p) \/ InspectOutput(p)
    <2>1. UNCHANGED <<exportMarker, files>> /\ exportPc'[p] \in {"inspect", "look", "idle"} /\ Whole
      BY <1>0, <1>1, Zenon DEF BeginExport, InspectOutput, exportRoot, Moved, InTurn
    <2> QED
      BY <2>1, SameRoot, Zenon DEF InTurn
  <1>2. CASE LookInside(p)
    <2>1. UNCHANGED <<exportMarker, files>> /\ Whole /\ ~foundEmpty[p]
      BY <1>0, <1>2, Zenon DEF LookInside, exportRoot, InTurn, Local
    <2>2. CASE exportMarker = "ok" /\ GoOn(p, "write") /\ UNCHANGED foundEmpty
      <3>1. \E g \in Generation : Complete(g)
        BY <2>1, <2>2, Zenon DEF Whole
      <3>2. exportPc'[p] = "write" /\ ~foundEmpty'[p]
        BY <1>0, <2>1, <2>2, Zenon DEF Moved
      <3> QED
        BY <2>1, <3>1, <3>2, SameRoot, Zenon DEF InTurn
    <2>3. CASE exportMarker = "absent" /\ NoFiles /\ GoOn(p, "mark")
      <3>1. exportPc'[p] = "mark"
        BY <1>0, <2>3, Zenon DEF Moved
      <3> QED
        BY <2>1, <2>3, <3>1, SameRoot, Zenon DEF InTurn
    <2>4. CASE LeaveOutput(p)
      <3>1. exportPc'[p] = "idle"
        BY <1>0, <2>4, Zenon DEF Moved
      <3> QED
        BY <2>1, <3>1, SameRoot, Zenon DEF InTurn
    <2> QED
      BY <1>2, <2>2, <2>3, <2>4, Zenon DEF LookInside
  <1>3. CASE CreateExportMarker(p)
    <2>1. UNCHANGED files /\ NoFiles /\ exportMarker # "ok" /\ NoFiles'
      BY <1>0, <1>3, Zenon DEF CreateExportMarker, InTurn, NoFiles
    <2>2. \/ exportPc'[p] = "fill" /\ exportMarker' = "torn"
          \/ exportPc'[p] = "idle" /\ exportMarker' = exportMarker
      BY <1>0, <1>3, Zenon DEF CreateExportMarker, Moved
    <2> QED
      BY <2>1, <2>2, Zenon DEF InTurn, Whole
  <1>4. CASE FillExportMarker(p)
    <2>1. /\ exportPc'[p] = "write" /\ exportFile'[p] = 1 /\ foundEmpty'[p] /\ exportMarker' = "ok"
          /\ files' = files /\ NoFiles
      BY <1>0, <1>4, Zenon DEF FillExportMarker, InTurn, Moved, Local
    <2>2. Prefix(exportGen[p], exportFile[p])'
      BY <2>1 DEF Prefix, NoFiles
    <2> QED
      BY <2>1, <2>2, Zenon DEF InTurn
  <1>5. CASE UndoFile(p)
    <2>1. CASE exportFile[p] > 0
      <3>1. /\ exportPc'[p] = "undo" /\ exportFile'[p] = exportFile[p] - 1 /\ files' = [files EXCEPT ![exportFile[p]] = None]
            /\ exportFile[p] \in 1..NumFiles /\ foundEmpty'[p]
        <4>1. exportFile[p] \in 1..NumFiles /\ exportFile[p] - 1 \in Nat
          <5>1. NumFiles \in Nat /\ exportFile[p] \in Nat /\ exportFile[p] <= NumFiles
            BY <1>0, Zenon DEF Local, Moved
          <5> QED
            BY <2>1, <5>1
        <4>2. exportFile[p] # 0 /\ exportPc'[p] = exportPc[p] /\ exportPc[p] = "undo"
          <5>1. exportFile[p] # 0
            BY <2>1
          <5> QED
            BY <1>5, <5>1, Zenon DEF UndoFile
        <4> QED
          BY <1>0, <1>5, <4>1, <4>2, Zenon DEF UndoFile, Moved, Local
      <3>2. \A i \in 1..NumFiles : i > exportFile'[p] => files'[i] = None
        <4>1. \A i \in 1..NumFiles : i > exportFile[p] => files[i] = None
          BY <1>0, <1>5, Zenon DEF UndoFile, InTurn
        <4>2. NumFiles \in Nat /\ files \in [1..NumFiles -> Payload]
          BY <1>0, Zenon DEF ExportInv, ExportType
        <4>3. \A i \in 1..NumFiles : i > exportFile[p] - 1 => files'[i] = None
          BY <3>1, <4>1, <4>2, UndoneAbove, Zenon
        <4> QED
          BY <3>1, <4>3, Zenon
      <3> QED
        BY <3>1, <3>2, Zenon DEF InTurn
    <2>2. CASE exportFile[p] = 0
      <3>1. exportPc'[p] = "idle" /\ exportMarker' = "absent" /\ files' = files
        <4>1. ~(exportFile[p] > 0)
          BY <2>2
        <4> QED
          BY <1>0, <1>5, <2>2, <4>1, Zenon DEF UndoFile, Moved
      <3>2. NoFiles'
        <4>1. \A i \in 1..NumFiles : i > exportFile[p] => files[i] = None
          BY <1>0, <1>5, Zenon DEF UndoFile, InTurn
        <4>2. \A i \in 1..NumFiles : i > exportFile[p]
          BY <2>2
        <4> QED
          BY <3>1, <4>1, <4>2, Zenon DEF NoFiles
      <3> QED
        BY <3>1, <3>2, Zenon DEF InTurn, Whole
    <2> QED
      BY <1>5, <2>1, <2>2, Zenon DEF UndoFile
  <1>6. ASSUME Undo(p), UNCHANGED <<exportMarker, files>>, exportPc[p] \in {"write", "rename", "verify"}
        PROVE  InTurn(p)' /\ (exportPc'[p] = "idle" => Whole')
    <2>1. CASE foundEmpty[p]
      <3>1. exportPc'[p] = "undo" /\ exportFile'[p] = NumFiles /\ foundEmpty'[p]
        BY <1>0, <1>6, <2>1, Zenon DEF Undo, Moved
      <3>2. \A i \in 1..NumFiles : ~(i > exportFile'[p])
        <4>1. NumFiles \in Nat /\ exportFile'[p] = NumFiles
          BY <1>0, <3>1, Zenon
        <4> QED
          BY <4>1
      <3> QED
        BY <3>1, <3>2, Zenon DEF InTurn
    <2>2. CASE ~foundEmpty[p]
      <3>1. exportPc'[p] = "idle" /\ \E g \in Generation : Complete(g)
        BY <1>0, <1>6, <2>2, Zenon DEF Undo, Moved, InTurn
      <3> QED
        BY <1>6, <3>1, SameRoot, ZenonT(40) DEF InTurn, Whole
    <2> QED
      BY <2>1, <2>2, Zenon
  <1>7. CASE Write(p)
    <2>1. /\ UNCHANGED <<exportMarker, files>> /\ exportPc[p] = "write" /\ exportGen[p] \in Generation
          /\ exportFile[p] \in 1..NumFiles /\ Bytes(p) # None
      BY <1>0, <1>7, Zenon DEF Write, Local, Bytes, ExportAssumption
    <2>2. CASE files[exportFile[p]] = Bytes(p) /\ NextOutput(p) /\ UNCHANGED <<exportGen, foundEmpty>>
      <3>1. ~foundEmpty[p] /\ ~foundEmpty'[p]
        <4>1. foundEmpty[p] => files[exportFile[p]] = None
          BY <1>0, <2>1, PrefixStops, Zenon DEF InTurn
        <4> QED
          BY <1>0, <2>1, <2>2, <4>1, Zenon DEF Moved
      <3>2. exportPc'[p] \in {"write", "verify"}
        BY <1>0, <2>1, <2>2, Zenon DEF NextOutput, Moved
      <3>3. \E g \in Generation : Complete(g)
        BY <1>0, <2>1, <3>1, Zenon DEF InTurn
      <3> QED
        BY <2>1, <3>1, <3>2, <3>3, SameRoot, Zenon DEF InTurn
    <2>3. CASE files[exportFile[p]] = None /\ GoOn(p, "rename") /\ UNCHANGED <<exportGen, exportFile, foundEmpty>>
      <3>1. foundEmpty[p]
        BY <1>0, <2>1, <2>3, Zenon DEF InTurn, Complete, ExportAssumption
      <3>2. exportPc'[p] = "rename" /\ foundEmpty'[p] /\ exportGen'[p] = exportGen[p] /\ exportFile'[p] = exportFile[p]
        BY <1>0, <2>3, <3>1, Zenon DEF Moved
      <3>3. exportMarker = "ok" /\ Prefix(exportGen[p], exportFile[p])
        BY <1>0, <2>1, <3>1, Zenon DEF InTurn
      <3>4. Prefix(exportGen[p], exportFile[p])'
        BY <2>1, <3>2, <3>3, Zenon DEF Prefix
      <3> QED
        BY <2>1, <3>2, <3>3, <3>4, Zenon DEF InTurn
    <2>4. CASE Undo(p)
      BY <1>6, <2>1, <2>4, Zenon
    <2> QED
      BY <1>7, <2>2, <2>3, <2>4, Zenon DEF Write
  <1>8. CASE Rename(p)
    <2>1. /\ foundEmpty[p] /\ exportGen[p] \in Generation /\ exportFile[p] \in 1..NumFiles
          /\ exportMarker = "ok" /\ Prefix(exportGen[p], exportFile[p])
      BY <1>0, <1>8, Zenon DEF Rename, InTurn, Local
    <2>2. /\ exportMarker' = "ok" /\ foundEmpty'[p] /\ exportGen'[p] = exportGen[p]
          /\ files' = [files EXCEPT ![exportFile[p]] = BytesOf[exportGen[p]][exportFile[p]]]
      BY <1>0, <1>8, <2>1, Zenon DEF Rename, Moved, Bytes
    <2>3. \A i \in 1..NumFiles : files'[i] = IF i < exportFile[p] + 1 THEN BytesOf[exportGen[p]][i] ELSE None
      <3>1. NumFiles \in Nat /\ files \in [1..NumFiles -> Payload]
        BY <1>0, Zenon DEF ExportInv, ExportType
      <3> QED
        BY <2>1, <2>2, <3>1, PrefixGrows, Zenon
    <2>4. \/ exportPc'[p] = "write" /\ exportFile'[p] = exportFile[p] + 1
          \/ exportPc'[p] = "verify" /\ exportFile[p] = NumFiles
      BY <1>0, <1>8, <2>1, AfterNext, Zenon DEF Rename
    <2>5. CASE exportPc'[p] = "write" /\ exportFile'[p] = exportFile[p] + 1
      <3>1. Prefix(exportGen[p], exportFile[p])'
        BY <2>2, <2>3, <2>5, Zenon DEF Prefix
      <3> QED
        BY <2>2, <2>5, <3>1, Zenon DEF InTurn
    <2>6. CASE exportPc'[p] = "verify" /\ exportFile[p] = NumFiles
      BY <2>2, <2>6, Zenon DEF InTurn
    <2> QED
      BY <2>4, <2>5, <2>6, Zenon
  <1>9. CASE Verify(p)
    <2>1. UNCHANGED <<exportMarker, files>> /\ exportPc[p] = "verify" /\ exportGen[p] \in Generation
      BY <1>0, <1>9, Zenon DEF Verify, exportRoot, Local
    <2>2. CASE Complete(exportGen[p]) /\ LeaveOutput(p)
      <3>1. exportPc'[p] = "idle" /\ Whole
        BY <1>0, <2>1, <2>2, Zenon DEF Moved, Whole
      <3> QED
        BY <2>1, <3>1, SameRoot, Zenon DEF InTurn
    <2> QED
      BY <1>6, <1>9, <2>1, <2>2, Zenon DEF Verify
  <1>10. CASE ExportFails(p)
    <2>1. UNCHANGED <<exportMarker, files>>
      BY <1>10, Zenon DEF ExportFails
    <2>2. CASE exportPc[p] \in {"inspect", "look", "mark", "fill"} /\ LeaveOutput(p)
      <3>1. exportPc'[p] = "idle" /\ Whole
        BY <1>0, <2>2, Zenon DEF Moved, InTurn, Whole
      <3> QED
        BY <2>1, <3>1, SameRoot, Zenon DEF InTurn
    <2> QED
      BY <1>6, <1>10, <2>1, <2>2, Zenon DEF ExportFails
  <1>11. CASE KillExport(p)
    BY <1>11, Zenon DEF KillExport
  <1> QED
    BY <1>1, <1>2, <1>3, <1>4, <1>5, <1>7, <1>8, <1>9, <1>10, <1>11, Zenon DEF ExportActs, PublishStep

LEMMA ExportStep ==
    ASSUME ExportAssumption, ExportInv, [ExportNext]_exportVars
    PROVE  ExportInv'
  <1>1. CASE UNCHANGED exportVars
    <2>1. /\ ExportType' /\ (\A p \in Publisher : Local(p)') /\ (~exportsOverlap' => Solo')
          /\ ~exportsOverlap' => \A p \in Publisher : Unreported(p)'
      BY <1>1, Zenon DEF exportVars, exportRoot, exportHistory, ExportInv, ExportType, Local, Solo, Unreported
    <2>2. ReportedStaysInTurn'
      BY <1>1, Zenon DEF exportVars, exportRoot, exportHistory, ExportInv, ReportedStaysInTurn, ReportedStays, Complete
    <2>3. /\ ~exportsOverlap' /\ ~killed' => \A p \in Publisher : InTurn(p)'
          /\ ~exportsOverlap' /\ ~killed' /\ AllIdle' => Whole'
      BY <1>1, SameRoot, Zenon DEF exportVars, exportRoot, exportHistory, ExportInv, InTurn, AllIdle
    <2> QED
      BY <2>1, <2>2, <2>3, Zenon DEF ExportInv
  <1>2. ASSUME NEW p \in Publisher, ExportActs(p)
        PROVE  ExportInv'
    <2>1. ExportType' /\ \A q \in Publisher : Local(q)'
      BY <1>2, ExportTypeStep, LocalStep, Zenon
    <2>2. ~exportsOverlap' => Solo'
      BY <1>2, Alone, Zenon DEF Solo
    <2>3. ~exportsOverlap' => \A q \in Publisher : Unreported(q)'
      BY <1>2, Alone, ReportedStep, Zenon DEF Unreported
    <2>4. ReportedStaysInTurn'
      BY <1>2, ReportedStep, Zenon DEF ReportedStaysInTurn
    <2>5. ~exportsOverlap' /\ ~killed' => \A q \in Publisher : InTurn(q)'
      BY <1>2, Alone, TurnStep, Zenon DEF InTurn
    <2>6. ~exportsOverlap' /\ ~killed' /\ AllIdle' => Whole'
      BY <1>2, TurnStep, Zenon DEF AllIdle
    <2> QED
      BY <2>1, <2>2, <2>3, <2>4, <2>5, <2>6, Zenon DEF ExportInv
  <1> QED
    BY <1>1, <1>2, Zenon DEF ExportNext, ExportActs

-----------------------------------------------------------------------------
(* The theorems *)

\* The invariant of publish_files_with_guard: who found the root empty, or is
\* about to write, works on a root nobody has reported, and in its turn a
\* publisher leaves a prefix of its own files or the complete root it found.
THEOREM ExportInvariant == ExportSpec => []ExportInv
  <1>1. ExportInit => ExportInv
    <2>1. ExportInit => ExportType
      <3>1. None \in Payload /\ "idle" \in ExportLabels /\ 0 \in Nat
        BY DEF Payload, ExportLabels
      <3>2. ExportInit => files \in [1..NumFiles -> Payload]
        BY <3>1, Zenon DEF ExportInit
      <3>3. ExportInit => exportFile \in [Publisher -> Nat]
        BY <3>1, Zenon DEF ExportInit
      <3> QED
        BY <3>1, <3>2, <3>3, Zenon DEF ExportInit, ExportType
    <2>2. ExportInit => \A p \in Publisher : exportPc[p] = "idle" /\ foundEmpty[p] = FALSE /\ exportFile[p] = 0
      BY Zenon DEF ExportInit
    <2>3. ExportInit => \A p \in Publisher : Local(p)
      <3>1. SUFFICES ASSUME ExportInit, NEW p \in Publisher
                     PROVE  Local(p)
        BY Zenon
      <3>2. exportPc[p] = "idle" /\ foundEmpty[p] = FALSE /\ exportFile[p] = 0 /\ NumFiles \in Nat \ {0}
        BY <2>2, <3>1, ExportConstants, Zenon DEF ExportAssumption
      <3> QED
        BY <3>2 DEF Local
    <2>4. ExportInit => /\ Solo /\ (\A p \in Publisher : Unreported(p)) /\ ReportedStaysInTurn
                        /\ (\A p \in Publisher : InTurn(p)) /\ Whole
      BY <2>2, Zenon DEF ExportInit, Solo, Unreported, ReportedStaysInTurn, ReportedStays, InTurn, Whole, NoFiles
    <2> QED
      BY <2>1, <2>3, <2>4, Zenon DEF ExportInv
  <1>2. ExportInv /\ [ExportNext]_exportVars => ExportInv'
    BY ExportStep, ExportConstants, Zenon
  <1> QED
    BY <1>1, <1>2, PTL DEF ExportSpec

\* As long as publishers take turns, a generation that was reported stays
\* complete in the root, at whatever step any later publisher of any generation
\* fails or is killed.
THEOREM ReportedIsKept == ExportSpec => []ReportedStaysInTurn
  <1>1. ExportInv => ReportedStaysInTurn
    BY DEF ExportInv
  <1> QED
    BY <1>1, ExportInvariant, PTL

\* When publishers take turns and only calls fail, the undo leaves the root
\* without files or with a complete generation, however many files there are.
THEOREM RootRestsWhole == ExportSpec => []RestsWhole
  <1>1. ExportInv => RestsWhole
    BY Zenon DEF ExportInv, RestsWhole, AllIdle, Whole
  <1> QED
    BY <1>1, ExportInvariant, PTL

\* As long as publishers take turns, all of them that are told of success are
\* told of the same files.
OneExportReported == ~exportsOverlap => \A g, h \in exported : BytesOf[g] = BytesOf[h]

\* What a second publisher of other bytes finds is never its own to report.
THEOREM OneExport == ExportSpec => []OneExportReported
  <1>1. ExportInv => OneExportReported
    BY Zenon DEF ExportInv, ReportedStaysInTurn, ReportedStays, Complete, OneExportReported
  <1> QED
    BY <1>1, ExportInvariant, PTL
=============================================================================
