--------------------------- MODULE InternalSymlinks ---------------------------
(***************************************************************************)
(* resolve in crates/codenoesis-repository/src/internal_symlinks.rs: where *)
(* a symlink of a Git tree leads inside that tree.                         *)
(*                                                                         *)
(* tree maps each path to [kind, oid, to]; kind is "file", "dir", "link"   *)
(* or "gitlink"; a link's to is [ok, comps, dir], the target's components, *)
(* whether it parses and whether it ends in a slash.                       *)
(***************************************************************************)
EXTENDS Stacks

CONSTANTS Dot, DotDot, MaxExpansions, MaxPathDepth

\* The loop's variables when it starts to follow the link at path.
Departing(path) ==
    [link |-> path, pending |-> path, resolved |-> <<>>, expansions |-> 0, directory |-> FALSE]

\* A component that names an entry, at here.  A link replaces itself by its
\* target's components, at most MaxExpansions times.
Entering(tree, at, here, rest) ==
    LET entry == tree[here] IN
    IF Len(here) > MaxPathDepth \/ here \notin DOMAIN tree THEN {}
    ELSE IF entry.kind = "dir" \/ (entry.kind = "file" /\ rest = <<>>)
    THEN {[at EXCEPT !.pending = rest, !.resolved = here]}
    ELSE IF entry.kind = "link" /\ entry.to.ok /\ at.expansions < MaxExpansions
    THEN {[at EXCEPT !.pending = entry.to.comps \o rest, !.expansions = @ + 1,
                     !.directory = @ \/ (rest = <<>> /\ entry.to.dir)]}
    ELSE {}

\* One turn of the loop, for the next pending component: the loop's variables
\* after it, or nothing when the link leads nowhere.
Turn(tree, at) ==
    LET next == Head(at.pending)
        rest == Tail(at.pending) IN
    IF next = Dot THEN {[at EXCEPT !.pending = rest]}
    ELSE IF next = DotDot
    THEN IF at.resolved = <<>> THEN {}
         ELSE {[at EXCEPT !.pending = rest, !.resolved = Front(@)]}
    ELSE Entering(tree, at, Append(at.resolved, next), rest)

\* The loop ended: the link leads to the path resolved, if the tree has a file
\* or a directory there, and a directory if it must be one.
Arrives(tree, at) ==
    /\ at.resolved \in DOMAIN tree
    /\ \/ tree[at.resolved].kind = "dir"
       \/ tree[at.resolved].kind = "file" /\ ~at.directory
=============================================================================
