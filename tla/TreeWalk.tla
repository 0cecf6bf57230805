------------------------------- MODULE TreeWalk -------------------------------
(***************************************************************************)
(* The walk of acquire_inventory_internal over the trees of one commit,    *)
(* and the symlinks it resolves when every entry has been visited.  What   *)
(* an object's bytes are comes from outside, as the argument body.         *)
(*                                                                         *)
(*   traverse_tree_object and what it calls                                *)
(*                        crates/codenoesis-repository/src/lib.rs          *)
(*   resolve_all          crates/codenoesis-repository/src/                *)
(*                        internal_symlinks.rs                             *)
(*                                                                         *)
(* A path is the sequence of its components.  Components are integers in   *)
(* the byte order of the names.                                            *)
(***************************************************************************)
EXTENDS GitObjects, InternalSymlinks

CONSTANTS
    TreeOf,         \* the tree a commit names
    Items,          \* the entries of a tree: sequences of [mode, name, oid]
    Target,         \* a blob read as a symlink target: [ok, comps, dir]
    GitModules,     \* the component ".gitmodules"
    MaxEntries, MaxFiles, MaxGitlinks

Mode == {"file", "exec", "dir", "link", "gitlink", "other"}

\* A commit names a tree, a tree is a sequence of named objects, a blob read as a
\* symlink target has components.
TreeAssumption ==
    /\ \A o \in Oid : Kind[o] = "commit" => TreeOf[o] \in Oid
    /\ DOMAIN Items = {o \in Oid : Kind[o] = "tree"}
    /\ \A t \in DOMAIN Items : Items[t] \in Seq([mode : Mode, name : Int, oid : Oid])
    /\ MaxPathDepth \in Nat
    /\ \A o \in Oid : Kind[o] = "blob" => Target[o] \in [ok : BOOLEAN, comps : Seq(Int), dir : BOOLEAN]

ASSUME TreeConstants == TreeAssumption

VARIABLES
    options,        \* [packed, boundaries, links]: the profile of the acquirer
    phase, error,
    commit,         \* the bound revision
    want,           \* what the read under way is for
    walk,           \* the tree entries still to visit, in order
    paths,          \* canonical_paths
    total,          \* cumulative_file_bytes
    files, directories, gitlinks, gitmodules, linkEntries,
    symlinks,       \* where each link resolved so far leads
    following       \* the link being resolved

state == <<commit, want, walk, paths, total, files, directories, gitlinks,
           gitmodules, linkEntries, symlinks, following>>

None == [status |-> "none"]

WalkInit ==
    /\ phase = "shape" /\ error = None
    /\ commit = Absent /\ want = None /\ walk = <<>> /\ paths = {} /\ total = 0
    /\ files = <<>> /\ directories = 0 /\ gitlinks = <<>> /\ gitmodules = Absent
    /\ linkEntries = <<>> /\ symlinks = <<>> /\ following = None

Fail(e) == phase' = "failed" /\ error' = [status |-> "error", error |-> e]
Proceed(to) == phase' = to /\ UNCHANGED error

\* Ask the object database for an object next.
Want(what, path, mode, o) ==
    /\ want' = [what |-> what, path |-> path, mode |-> mode, oid |-> o]
    /\ Proceed("fetch")

Bind(c) ==
    /\ commit' = c
    /\ Want("commit", <<>>, "commit", c)
    /\ UNCHANGED <<walk, paths, total, files, directories, gitlinks, gitmodules,
                   linkEntries, symlinks, following>>

-----------------------------------------------------------------------------
(* What becomes of an object that has been read *)

\* Mutant: the order of the tree object is kept.
UnsortedItems(t) == Items[t]

\* A rearrangement of a sequence by which its keys do not descend.
Ascending(keys) ==
    CHOOSE r \in Bijection(DOMAIN keys, DOMAIN keys) :
        \A i, j \in DOMAIN keys : i < j => keys[r[i]] <= keys[r[j]]

\* The entries of a tree, sorted by name.
SortedItems(t) ==
    LET r == Ascending([i \in DOMAIN Items[t] |-> Items[t][i].name])
    IN  [i \in DOMAIN Items[t] |-> Items[t][r[i]]]

\* They are visited before what is left of the parent.
Enter(t, path) ==
    walk' = [i \in DOMAIN SortedItems(t) |->
               [mode |-> SortedItems(t)[i].mode, path |-> Append(path, SortedItems(t)[i].name),
                oid |-> SortedItems(t)[i].oid]] \o walk

\* The commit names the root tree.
EnterCommit(body) ==
    /\ want.what = "commit"
    /\ Want("tree", <<>>, "dir", TreeOf[body])
    /\ UNCHANGED <<commit, walk, paths, total, files, directories, gitlinks,
                   gitmodules, linkEntries, symlinks, following>>

\* traverse_directory, and the root's call
EnterTree(body) ==
    /\ want.what = "tree"
    /\ Enter(body, want.path)
    /\ directories' = IF want.path = <<>> THEN directories ELSE directories + 1
    /\ Proceed("walk")
    /\ UNCHANGED <<commit, want, paths, total, files, gitlinks, gitmodules,
                   linkEntries, symlinks, following>>

\* .gitmodules at the root, when boundaries are collected
IsGitmodules(w) == options.boundaries /\ w.path = <<GitModules>>

\* acquire_regular_file
ListFile(body) ==
    /\ want.what = "file"
    /\ total' = total + Size[body]
    /\ gitmodules' = IF IsGitmodules(want) THEN want.oid ELSE gitmodules
    /\ files' = Append(files, [path |-> want.path, mode |-> want.mode, body |-> body])
    /\ Proceed("walk")
    /\ UNCHANGED <<commit, want, walk, paths, directories, gitlinks, linkEntries,
                   symlinks, following>>

\* acquire_internal_symlink
KeepLink(body) ==
    /\ want.what = "link"
    /\ total' = total + Size[body]
    /\ linkEntries' = Insert(linkEntries, want.path,
         [kind |-> "link", oid |-> want.oid, to |-> Target[body]])
    /\ Proceed("walk")
    /\ UNCHANGED <<commit, want, walk, paths, files, directories, gitlinks,
                   gitmodules, symlinks, following>>

-----------------------------------------------------------------------------
(* The entries of a tree *)

\* Refused before the entry's object is read: validate_s1_path_component,
\* check_path_limits, the entry policy, observe_entry, observe_regular_path and
\* observe_gitlink.
EntryError(i) ==
    LET regular == i.mode \in {"file", "exec"}
        declared == options.boundaries /\ i.path = <<GitModules>> /\ i.mode # "file" IN
    CASE Last(i.path) \in {Dot, DotDot} -> {"path"}
      [] Last(i.path) \notin {Dot, DotDot} /\ Len(i.path) > MaxPathDepth -> {"limit"}
      [] Last(i.path) \notin {Dot, DotDot} /\ Len(i.path) <= MaxPathDepth ->
            IF ~declared /\ \/ i.mode = "other"
                            \/ i.mode = "link" /\ ~options.links
                            \/ i.mode = "gitlink" /\ ~options.boundaries
            THEN {"policy"}
            ELSE IF Cardinality(paths) + 1 > MaxEntries THEN {"limit"}
            ELSE IF i.path \in paths THEN {"inconsistent"}
            ELSE IF regular /\ ~declared /\ Len(files) + 1 > MaxFiles THEN {"limit"}
            ELSE IF i.mode = "gitlink" /\ Len(gitlinks) + 1 > MaxGitlinks THEN {"limit"}
            ELSE {}

\* Mutant: a gitlink is recorded as a directory.
WithGitlinkEntry(i) ==
    IF ~options.links \/ i.mode = "link" THEN linkEntries
    ELSE Insert(linkEntries, i.path,
                [kind |-> IF i.mode \in {"file", "exec"} THEN "file" ELSE "dir", oid |-> i.oid])

\* link_entries with the entry a symlink may later resolve to; a symlink itself
\* is added when its target has been read.
WithLinkEntry(i) ==
    IF ~options.links \/ i.mode = "link" THEN linkEntries
    ELSE Insert(linkEntries, i.path,
                [kind |-> IF i.mode \in {"file", "exec"} THEN "file" ELSE i.mode, oid |-> i.oid])

RefuseEntry ==
    /\ phase = "walk" /\ walk # <<>>
    /\ \E e \in EntryError(Head(walk)) : Fail(e)
    /\ UNCHANGED state

\* check_time, before each tree, entry and link
TimeOut ==
    /\ phase = "walk" /\ following = None
    /\ Fail("time")
    /\ UNCHANGED state

VisitEntry ==
    LET i == Head(walk)
        declared == options.boundaries /\ i.path = <<GitModules>> /\ i.mode # "file" IN
    /\ phase = "walk" /\ walk # <<>>
    /\ EntryError(i) = {}
    /\ walk' = Tail(walk)
    /\ paths' = paths \cup {i.path}
    /\ linkEntries' = IF declared THEN linkEntries ELSE WithLinkEntry(i)
    /\ gitlinks' = IF i.mode = "gitlink"
                   THEN Append(gitlinks, [path |-> i.path, oid |-> i.oid]) ELSE gitlinks
    /\ gitmodules' = IF declared THEN i.oid ELSE gitmodules
    /\ IF declared \/ i.mode = "gitlink"
       THEN Proceed("walk") /\ UNCHANGED want
       ELSE Want(CASE i.mode = "dir" -> "tree" [] i.mode = "link" -> "link" [] OTHER -> "file",
                 i.path, i.mode, i.oid)
    /\ UNCHANGED <<commit, total, files, directories, symlinks, following>>

-----------------------------------------------------------------------------
(* internal_symlinks::resolve_all, once every entry has been visited *)

\* The links still to resolve.  Their order is not observed.
Unled == {p \in DOMAIN linkEntries : linkEntries[p].kind = "link"} \ DOMAIN symlinks

Visited == phase = "walk" /\ walk = <<>> /\ following = None

Walked == UNCHANGED <<commit, want, walk, paths, total, files, directories, gitlinks,
                      gitmodules, linkEntries>>

StartLink ==
    /\ Visited
    /\ \E p \in Unled : following' = Departing(p)
    /\ Proceed("walk")
    /\ Walked /\ UNCHANGED symlinks

\* resolve, one turn of its loop
FollowLink ==
    /\ phase = "walk" /\ following # None /\ following.pending # <<>>
    /\ \/ following' \in Turn(linkEntries, following) /\ Proceed("walk")
       \/ Turn(linkEntries, following) = {} /\ Fail("policy") /\ UNCHANGED following
    /\ Walked /\ UNCHANGED symlinks

\* resolve, after its loop
ResolveLink ==
    LET at == following IN
    /\ phase = "walk" /\ at # None /\ at.pending = <<>>
    /\ \/ /\ Arrives(linkEntries, at)
          /\ symlinks' = Insert(symlinks, at.link,
                               [path |-> at.resolved, oid |-> linkEntries[at.resolved].oid])
          /\ following' = None
          /\ Proceed("walk")
       \/ ~Arrives(linkEntries, at) /\ Fail("policy") /\ UNCHANGED <<symlinks, following>>
    /\ Walked

Walking == RefuseEntry \/ VisitEntry \/ TimeOut \/ StartLink \/ FollowLink \/ ResolveLink

-----------------------------------------------------------------------------
(* What a commit holds *)

\* The entry of commit c at path p, by looking up one component at a time.
Lookup(c, p) ==
    LET at[n \in 0..Len(p)] ==
          IF n = 0 THEN {[mode |-> "dir", oid |-> TreeOf[c]]}
          ELSE UNION {IF d.mode = "dir" /\ d.oid \in DOMAIN Items
                      THEN {[mode |-> i.mode, oid |-> i.oid] :
                              i \in {x \in Range(Items[d.oid]) : x.name = p[n]}}
                      ELSE {} : d \in at[n - 1]}
    IN at[Len(p)]

Names == {i.name : i \in UNION {Range(Items[t]) : t \in DOMAIN Items}}
AllPaths == UNION {[1..n -> Names] : n \in 1..MaxPathDepth}

\* p before q in path order
Before(p, q) ==
    \/ \E n \in 0..Len(p) : n = Len(p) /\ n < Len(q) /\ SubSeq(q, 1, n) = p
    \/ \E n \in 1..Len(p) : n <= Len(q) /\ p[n] < q[n] /\ SubSeq(p, 1, n - 1) = SubSeq(q, 1, n - 1)

\* The files of a commit, as opposed to its links, gitlinks and directories; a
\* .gitmodules that is not a plain file is only recorded when boundaries are
\* collected, also one that is executable or a directory.
IsFile(p, e) ==
    /\ e.mode \in {"file", "exec"}
    /\ options.boundaries /\ p[1] = GitModules => p = <<GitModules>> /\ e.mode = "file"
FilesOf(c) ==
    UNION {{[path |-> p, mode |-> e.mode, body |-> e.oid] : e \in {x \in Lookup(c, p) : IsFile(p, x)}} :
           p \in AllPaths}

\* Every symlink of an accepted scan leads to a file or directory of the same
\* commit, along directories of that commit and through no link
\* (internal_symlinks::resolve).
LinksStayInside ==
    phase = "done" =>
      \A l \in DOMAIN symlinks :
        LET to == symlinks[l].path IN
        /\ \E e \in Lookup(commit, to) :
              /\ e.mode \in {"file", "exec", "dir"}
              /\ e.oid = symlinks[l].oid
        /\ \A n \in 1..(Len(to) - 1) :
              \E e \in Lookup(commit, SubSeq(to, 1, n)) : e.mode = "dir"
=============================================================================
