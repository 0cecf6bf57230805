---------------------------- MODULE MCRepository ----------------------------
(***************************************************************************)
(* The acquisition of a commit, or the boundaries of one: which of the two *)
(* moves is chosen at the start, the other stays where it begins.          *)
(***************************************************************************)
EXTENDS GitAcquisition, Boundaries, TLC

-----------------------------------------------------------------------------
(* Eight commits over a few trees and blobs, stored in every way two blobs *)
(* can be stored in a pack of base entries, and a few repositories that    *)
(* other processes change during the scan.                                 *)

CONSTANTS c1, c2, c3, c4, c5, c6, c7, c8, t1, t2, t3, t4, t5, t6, t7, t8, sub, x, y, big, ln, lc, lg

MCOid == {c1, c2, c3, c4, c5, c6, c7, c8, t1, t2, t3, t4, t5, t6, t7, t8, sub, x, y, big, ln, lc, lg}
MCKind == [o \in MCOid \cup {Garbage} |->
             IF o \in {c1, c2, c3, c4, c5, c6, c7, c8} THEN "commit"
             ELSE IF o \in {t1, t2, t3, t4, t5, t6, t7, t8, sub} THEN "tree" ELSE "blob"]
MCSize == [o \in MCOid \cup {Garbage} |-> IF o = big THEN 3 ELSE IF o = y THEN 2 ELSE 1]
MCTreeOf == c1 :> t1 @@ c2 :> t2 @@ c3 :> t3 @@ c4 :> t4 @@ c5 :> t5 @@ c6 :> t6
         @@ c7 :> t7 @@ c8 :> t8

MCDot == -1
MCDotDot == -2
At(m, n, o) == [mode |-> m, name |-> n, oid |-> o]

\* c1: a subdirectory with a link to the file above it; c2: a large .gitmodules
\* and a gitlink; c3: a link to itself; c4: a link whose target is too long; c5:
\* an executable .gitmodules and a link to a gitlink; c6: one name twice; c7: two files; c8:
\* a directory named .gitmodules.
MCItems == t1 :> <<At("dir", 2, sub), At("file", 1, x)>>
        @@ sub :> <<At("link", 3, ln), At("exec", 1, y)>>
        @@ t2 :> <<At("gitlink", 3, c1), At("file", 0, big), At("exec", 1, x)>>
        @@ t3 :> <<At("link", 1, lc), At("file", 2, x)>>
        @@ t4 :> <<At("file", 1, x), At("file", 2, y), At("link", 3, y)>>
        @@ t5 :> <<At("exec", 0, x), At("gitlink", 3, c1), At("file", 2, y), At("link", 4, lg)>>
        @@ t6 :> <<At("file", 1, x), At("file", 1, y)>>
        @@ t7 :> <<At("file", 2, y), At("file", 1, x)>>
        @@ t8 :> <<At("dir", 0, t7), At("file", 2, y)>>
NoTarget == [ok |-> FALSE, comps |-> <<>>, dir |-> FALSE]
MCTarget == ln :> [ok |-> TRUE, comps |-> <<MCDotDot, 1>>, dir |-> FALSE]
         @@ lg :> [ok |-> TRUE, comps |-> <<3>>, dir |-> FALSE]
         @@ lc :> [ok |-> TRUE, comps |-> <<MCDot, 1>>, dir |-> FALSE]
         @@ [o \in {x, y, big} |-> NoTarget]

Base(o) == [oid |-> o, form |-> "base", base |-> 0, gives |-> o]
BadBase(o) == [Base(o) EXCEPT !.gives = Garbage]
Ref(o, b, g) == [oid |-> o, form |-> "ref", base |-> b, gives |-> g]
Ofs(o, i, g) == [oid |-> o, form |-> "ofs", base |-> i, gives |-> g]

Fixed == <<c1, c2, c3, c4, c5, t1, t2, t3, t4, t5, sub, big, lc, c6, t6, lg, c7, t7, c8, t8>>
BaseEntries == [i \in 1..Len(Fixed) |-> Base(Fixed[i])]
Everything == BaseEntries \o <<Base(x), Base(y), Base(ln)>>

\* Each way to store x, y and ln next to base entries of the rest.
StoredX == {<<>>, <<Base(x)>>, <<BadBase(x)>>, <<Ref(x, y, x)>>, <<Ref(x, y, Malformed)>>,
            <<Ref(x, y, Garbage)>>, <<Ref(x, t1, x)>>, <<Ref(x, big, x)>>}
StoredY == {<<>>, <<Base(y)>>, <<Ref(y, x, y)>>, <<Ref(y, ln, y)>>, <<Ofs(y, 1, y)>>}
StoredLn == {<<Base(ln)>>, <<Ref(ln, lc, ln)>>, <<Ref(ln, lc, y)>>}
Copies == {<<>>, <<Base(x)>>, <<BadBase(x)>>, <<Ref(x, y, x)>>}
NoLoose == [o \in MCOid |-> Absent]

Profile(p, b, l, c) == [packed |-> p, boundaries |-> b, links |-> l, at |-> c]

Repository(first, second, singles, opts, n) ==
    [shape |-> "ok",
     entries |-> 1 :> first @@ 2 :> second @@ 3 :> Everything,
     packs |-> (IF first = <<>> THEN {} ELSE {1}) \cup (IF second = <<>> THEN {} ELSE {2}),
     sound |-> {1, 2, 3}, loose |-> singles,
     looseMain |-> c1, packedMain |-> Absent, options |-> opts, changes |-> n]

\* The offset delta of y names x, which comes first in its pack.
Stored ==
    {Repository(sx \o BaseEntries \o sy \o sl, copy,
                [NoLoose EXCEPT ![x] = file], {Profile(TRUE, FALSE, TRUE, c1)}, 0) :
       sx \in StoredX \ {<<>>}, sy \in StoredY, sl \in StoredLn, copy \in Copies,
       file \in {Absent, x, Garbage, Odd}}
    \cup
    {Repository(BaseEntries \o sy \o sl, copy,
                [NoLoose EXCEPT ![x] = file], {Profile(TRUE, FALSE, TRUE, c1)}, 0) :
       sy \in StoredY \ {<<Ofs(y, 1, y)>>}, sl \in StoredLn, copy \in Copies,
       file \in {Absent, x, Garbage}}

MainProfile == {Profile(TRUE, FALSE, TRUE, Absent)}

\* Each commit under each profile, all loose or all packed; only a packed profile
\* admits symlinks.
Profiles == {Profile(k[1], b, k[2], c) : k \in {<<TRUE, TRUE>>, <<TRUE, FALSE>>, <<FALSE, FALSE>>},
                                        b \in BOOLEAN, c \in {c1, c2, c3, c4, c5, c6, c7, c8, x}}
AllLoose == [o \in MCOid |-> o]
Trees == {Repository(<<>>, <<>>, AllLoose, Profiles, 0),
          Repository(Everything, <<>>, NoLoose, Profiles, 0),
          [Repository(Everything, <<>>, NoLoose, Profiles, 0) EXCEPT !.sound = {}],
          Repository(Everything, Everything, NoLoose, MainProfile, 0),
          Repository(Everything, BaseEntries, NoLoose, MainProfile, 0),
          Repository(<<Ref(y, ln, y)>> \o BaseEntries \o <<Base(x)>>, <<>>,
                     [NoLoose EXCEPT ![ln] = Odd], MainProfile, 0),
          [Repository(<<>>, <<>>, AllLoose, Profiles, 0) EXCEPT !.shape = "bare"],
          [Repository(<<>>, <<>>, AllLoose, MainProfile, 0)
             EXCEPT !.looseMain = Absent]}

\* Repositories in use: main may move, references be packed, a repack run.
Delta == <<Ref(x, y, x)>> \o BaseEntries \o <<Base(y), Base(ln)>>
InUse == {Repository(<<>>, <<>>, AllLoose, MainProfile, 3),
          [Repository(<<>>, <<>>, AllLoose, {Profile(FALSE, FALSE, FALSE, Absent)}, 3)
             EXCEPT !.looseMain = c7],
          Repository(Delta, <<Base(x)>>, NoLoose, MainProfile, 3),
          Repository(Delta, <<>>, [NoLoose EXCEPT ![x] = x, ![c1] = c1], MainProfile, 3)}

MCLayout == Stored \cup Trees \cup InUse

-----------------------------------------------------------------------------
(* Boundary manifests, gitlinks and .gitmodules files of a few entries,    *)
(* each sound or with one thing wrong, in every combination.               *)

Section(n) == [kind |-> "section", name |-> n, value |-> 0]
Key(n, v) == [kind |-> "key", name |-> n, value |-> v]
Blank == [kind |-> "blank", name |-> "", value |-> 0]
Module(n, p) == <<Section(n), Key("path", p), Key("url", 9)>>
File(lines) == [mode |-> "100644", lines |-> lines]

\* The second has an unsupported key, a comment and its sections out of order.
SoundFiles == {[mode |-> "absent", lines |-> <<>>], File(<<Blank>>), File(Module("a", 1)),
               File(Module("b", 4) \o <<Key("update", 1), Blank>> \o Module("a", 1)),
               File(Module("a", 1) \o <<Key("branch", 1), Key("update", 1)>>)}
BrokenFiles == {[mode |-> "other", lines |-> <<>>],
                File(Module("a", 1) \o Module("a", 2)), File(Module("a", 1) \o Module("b", 1)),
                File(Module("a", 0)), File(<<Key("path", 1)>>),
                File(<<Section("a"), Key("path", 1), Section("b")>>),
                File(Module("a", 1) \o <<Section("b"), Key("url", 1)>>),
                File(Module("a", 1) \o <<Key("url", 2)>>), File(<<Section("*")>>), File(<<Section("")>>),
                File(Module("a", 1) \o <<Key("*", 2)>>), File(Module("a", 1) \o <<Key("update", -1)>>),
                File(Module("a", 1) \o Module("b", 2) \o Module("c", 3)),
                File(Module("a", 1) \o <<Key("branch", 1), Key("update", 1), Key("ignore", 1)>>)}

Link(p) == [path |-> p, oid |-> p + 10]
Links == {{}, {Link(1)}, {Link(1), Link(2)}, {Link(1), Link(2), Link(3)}}

Nested(p, i, r, v) == [path |-> p, identity |-> i, root |-> r, revision |-> v]
Manifest(listing) == [wellFormed |-> TRUE, namesRoot |-> TRUE, entries |-> listing]
Sound == Manifest(<<Nested(2, "y", "s", 12), Nested(1, "x", "r", 11)>>)
Manifests == {Manifest(<<>>), Sound, [Sound EXCEPT !.wellFormed = FALSE], [Sound EXCEPT !.namesRoot = FALSE],
              Manifest(<<Nested(2, "y", "s", 12), Nested(1, "x", "r", 12)>>),
              Manifest(<<Nested(2, "y", "s", 11), Nested(1, "x", "gone", 11)>>),
              Manifest(<<Nested(2, "y", "inside", 12), Nested(1, "x", "r", 11)>>),
              Manifest(<<Nested(1, "x", "empty", 11)>>),
              Manifest(<<Nested(1, "root", "r", 11)>>),
              Manifest(<<Nested(1, "x", "r", 11), Nested(2, "x", "s", 12)>>),
              Manifest(<<Nested(1, "x", "r", 11), Nested(2, "y", "link", 12)>>),
              Manifest(<<Nested(0, "x", "r", 11)>>),
              Manifest(Append(Sound.entries, Nested(3, "z", "empty", 13)))}

\* "link" leads to the directory of r, "gone" to none; "inside" is in the store.
MCBoundaryInputs ==
    {[manifest |-> m, gitlinks |-> g, gitmodules |-> f,
      canonical |-> [r |-> 1, s |-> 2, inside |-> 3, empty |-> 4, link |-> 1],
      overlapping |-> {"inside"},
      commits |-> [r |-> {11, 12}, s |-> {11, 12}, inside |-> {12}, empty |-> {}, link |-> {11}, gone |-> {}]] :
       m \in Manifests, g \in Links, f \in SoundFiles \cup BrokenFiles}

-----------------------------------------------------------------------------
(* The two together *)

VARIABLE bounding
repositoryVars == <<vars, boundaryVars, bounding>>

OneInput == CHOOSE i \in BoundaryInputs : i.gitlinks = {}
OneLayout == CHOOSE l \in Layout : l \in InUse
Resting ==
    /\ binput = OneInput /\ bstage = "prepare" /\ inode = OneInput.canonical /\ nested = <<>>
    /\ stamp = NoStamp /\ verified = <<>> /\ report = NoReport /\ brefusal = ""

RepositoryInit ==
    \/ bounding = FALSE /\ Resting /\ Init
    \/ bounding = TRUE /\ layout = OneLayout /\ Init /\ BoundaryInit
RepositoryScan == ~bounding /\ Scan /\ UNCHANGED <<boundaryVars, bounding>>
RepositoryNext ==
    \/ RepositoryScan
    \/ ~bounding /\ Environment /\ UNCHANGED <<boundaryVars, bounding>>
    \/ bounding /\ BoundaryNext /\ UNCHANGED <<vars, bounding>>
RepositorySpec == RepositoryInit /\ [][RepositoryNext]_repositoryVars /\ WF_repositoryVars(RepositoryScan)

\* Every acquisition ends, done or failed, also on cyclic deltas and cyclic
\* symlinks and while the repository is repacked
\* (acquire_inventory_with_boundaries).
ScanEnds == <>(bounding \/ phase \in {"done", "failed"})
=============================================================================
