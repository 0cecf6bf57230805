---------------------------- MODULE SyntaxTree ----------------------------
(***************************************************************************)
(* The syntax trees the Rust extractors walk.  The parser (tree-sitter) is *)
(* outside the repository: a program is given as a term, and Parse numbers *)
(* the nodes of the term in source order, the way the extractors see them  *)
(* through Node::kind, parent, child_by_field_name, start_byte, end_byte.  *)
(*                                                                         *)
(* A node is its number.  Node n spans the numbers n..last(n), so a span   *)
(* lies inside another exactly when the node is a descendant of the other  *)
(* one, and two nodes never share a span.                                  *)
(***************************************************************************)
EXTENDS Naturals, Sequences, FiniteSets, SequencesExt

NoNode == 0

\* A term: the node kind, the field it fills in its parent, its token, the
\* module a path token is qualified with, and the named children in order.
Term(kind, name, kids) ==
    [kind |-> kind, field |-> "", name |-> name, path |-> "", kids |-> kids]
Leaf(kind, name) == Term(kind, name, <<>>)
As(field, term) == [term EXCEPT !.field = field]

RECURSIVE Size(_)
Size(term) == FoldLeft(LAMBDA total, kid : total + Size(kid), 1, term.kids)

RECURSIVE ParseAt(_, _, _)
ParseAt(term, parent, at) ==
    LET kids == FoldLeft(
                  LAMBDA acc, kid :
                    [nodes |-> acc.nodes \o ParseAt(kid, at, acc.next),
                     next  |-> acc.next + Size(kid)],
                  [nodes |-> <<>>, next |-> at + 1], term.kids)
    IN  <<[kind |-> term.kind, field |-> term.field, name |-> term.name,
           path |-> term.path, parent |-> parent, last |-> kids.next - 1]>>
        \o kids.nodes
Parse(term) == ParseAt(term, NoNode, 1)

Kind(tree, n) == IF n = NoNode THEN "" ELSE tree[n].kind
Children(tree, n) == {m \in (n + 1)..tree[n].last : tree[m].parent = n}
named_children(tree, n) == SetToSortSeq(Children(tree, n), <)

\* The child of n in the named field, NoNode when the field is absent.
child_by_field_name(tree, n, field) ==
    LET found == {m \in Children(tree, n) : tree[m].field = field}
    IN  IF found = {} THEN NoNode ELSE CHOOSE m \in found : TRUE

Inside(tree, n, a) == a <= n /\ n <= tree[a].last
Ancestors(tree, n) == {a \in 1..(n - 1) : Inside(tree, n, a)}

\* The nearest ancestor in a set, NoNode when there is none.
Nearest(tree, n, set) ==
    LET above == {a \in Ancestors(tree, n) : a \in set}
    IN  IF above = {} THEN NoNode
        ELSE CHOOSE a \in above : \A b \in above : b <= a

Descends(tree, n, kinds) ==
    \E m \in n..tree[n].last : tree[m].kind \in kinds
=============================================================================
