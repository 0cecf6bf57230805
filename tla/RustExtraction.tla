--------------------------- MODULE RustExtraction ---------------------------
(***************************************************************************)
(* The layered extraction of one Rust callable: K1 facts, R14 expressions  *)
(* and bindings, R15 local flow, each validated before it is published,    *)
(* each able to end the scan with an error.  The layers are compared with  *)
(* the lexical scoping and the execution paths of the program itself.      *)
(***************************************************************************)
EXTENDS LocalFlow

CONSTANT Programs        \* the terms of the callables that are scanned

VARIABLES tree,          \* the parsed callable
          stage,         \* "parsed", "callable", "bindings", "flow" or "done"
          error,         \* "none", or the error the scan ended with
          k1, r14, r15   \* the records of the layers extracted so far

vars == <<tree, stage, error, k1, r14, r15>>

-----------------------------------------------------------------------------
(* The R15 validator. *)

valid_blocks(g, inherited) ==
    /\ \A k \in DOMAIN g.blocks :
          /\ g.blocks[k].nodes # <<>> /\ Len(g.blocks[k].nodes) <= MaxFlowNodes
          /\ Range(g.blocks[k].nodes) \subseteq inherited
    /\ \A j, k \in DOMAIN g.blocks :
          j # k => <<g.blocks[j].from, g.blocks[j].to>> # <<g.blocks[k].from, g.blocks[k].to>>
    /\ Len(g.blocks) <= MaxBlocks

validate_block_membership(g) ==
    \A k \in DOMAIN g.blocks :
        LET members == OutOf(g, "CONTAINS_FLOW_NODE", <<"k", k>>)
        IN  /\ {r[3] : r \in members} = Range(g.blocks[k].nodes)
            /\ Cardinality(members) = Len(g.blocks[k].nodes)
            /\ Cardinality(Into(g, "HAS_SYNTAX_BLOCK", <<"k", k>>)) = 1

DirectEdges(g) ==
    Edges(g, "SYNTAX_NEXT") \cup Edges(g, "SYNTAX_TRUE_BRANCH")
    \cup Edges(g, "SYNTAX_FALSE_BRANCH")
validate_condition_and_branch_edges(g) ==
    LET linked(k) == {r \in Edges(g, "HAS_CONDITION") :
                        Range(g.blocks[k].nodes) = {r[2], r[3]}}
    IN  /\ \A r \in Edges(g, "HAS_CONDITION") :
             Cardinality({k \in DOMAIN g.blocks :
               g.blocks[k].role = "condition" /\ r \in linked(k)}) = 1
        /\ \A k \in DOMAIN g.blocks :
             LET next == OutOf(g, "SYNTAX_NEXT", <<"k", k>>)
                 yes == OutOf(g, "SYNTAX_TRUE_BRANCH", <<"k", k>>)
                 no == OutOf(g, "SYNTAX_FALSE_BRANCH", <<"k", k>>)
                 incoming == {r \in DirectEdges(g) : r[3] = <<"k", k>>}
             IN  /\ IF g.blocks[k].role = "condition"
                    THEN /\ next = {} /\ Cardinality(yes) = 1 /\ Cardinality(no) = 1
                         /\ {r[3] : r \in yes} # {r[3] : r \in no}
                         /\ Cardinality(linked(k)) = 1
                    ELSE Cardinality(next) <= 1 /\ yes = {} /\ no = {}
                 /\ (k = 1) <=> (incoming = {})

validate_syntax_closure(g) ==
    LET b == [blocks |-> g.blocks,
              edges |-> {<<r[1], r[2][2], r[3][2]>> : r \in DirectEdges(g)}]
        closure == Reaches(b)
    IN  /\ \A k \in DOMAIN g.blocks : <<k, k>> \notin closure
        /\ {<<r[2][2], r[3][2]>> : r \in Edges(g, "SYNTAX_REACHES")} = closure
        /\ \A k \in DOMAIN g.blocks \ {1} : <<1, k>> \in closure

Lexical(g) == Edges(g, "LEXICAL_MUST_REACHES_READ") \cup Edges(g, "LEXICAL_MAY_REACHES_READ")
validate_lexical_relationships(b, g) ==
    /\ \A x \in Lexical(g) :
          LET bindingOf == IF x[2][1] = "b" THEN {x[2]}
                           ELSE {w[3] : w \in OutOf(b, "WRITES", x[2])}
          IN  /\ \E r \in OutOf(b, "READS", x[3]) : r[3] \in bindingOf
              /\ x[2][2] <= x[3][2]
    /\ \A x, y \in Lexical(g) : x[2] = y[2] /\ x[3] = y[3] => x = y

validate_syntax_derivation(g, d) ==
    LET b == [blocks |-> g.blocks,
              edges |-> {<<r[1], r[2][2], r[3][2]>> : r \in DirectEdges(g)}]
        slice == path_slice(Reaches(b), d.of[2][2], d.of[3][2])
    IN  d.entities = Blocks(slice) /\ d.relationships = SliceEdges(b, slice)
validate_lexical_derivation(b, g, d) ==
    /\ OutOf(b, "READS", d.of[3]) \subseteq d.relationships
    /\ OutOf(b, "WRITES", d.of[2]) \subseteq d.relationships
    /\ \A r \in d.relationships :
          \/ r \in OutOf(b, "READS", d.of[3])
          \/ /\ r \in Edges(b, "WRITES") /\ r[2] \in d.entities
             /\ \A read \in OutOf(b, "READS", d.of[3]) : read[3] = r[3]
          \/ /\ r \in DirectEdges(g) \cup Edges(g, "CONTAINS_FLOW_NODE")
             /\ {r[2], r[3]} \subseteq d.entities
validate_derivations(b, g) ==
    /\ {d.of : d \in g.derivations} = Edges(g, "SYNTAX_REACHES") \cup Lexical(g)
    /\ \A d \in g.derivations :
          /\ {d.of[2], d.of[3]} \subseteq d.entities
          /\ IF d.of[1] = "SYNTAX_REACHES" THEN validate_syntax_derivation(g, d)
             ELSE validate_lexical_derivation(b, g, d)

validate_local_flow_coverage(g) ==
    /\ g.gaps # {} => (g.gaps = FLOW_GAPS /\ ~g.completed)
    /\ g.completed <=> g.blocks # <<>>

FlowValid(k, b, g) ==
    LET inherited == {<<"f", n>> : n \in DOMAIN k.facts} \cup
                     {<<"e", n>> : n \in DOMAIN b.expressions} \cup
                     {<<"b", x.node>> : x \in b.bindings}
    IN  /\ valid_blocks(g, inherited)
        /\ validate_block_membership(g)
        /\ validate_condition_and_branch_edges(g)
        /\ validate_syntax_closure(g)
        /\ validate_lexical_relationships(b, g)
        /\ validate_derivations(b, g)
        /\ validate_local_flow_coverage(g)

-----------------------------------------------------------------------------
(* The pipeline: each layer is extracted from the tree and the layer below *)
(* it, then validated; an error is final and publishes nothing.            *)

Init ==
    /\ tree \in {Parse(p) : p \in Programs}
    /\ stage = "parsed" /\ error = "none"
    /\ k1 = <<>> /\ r14 = <<>> /\ r15 = <<>>

Fail(e) == stage' = "done" /\ error' = e /\ UNCHANGED <<tree, k1, r14, r15>>

extract_callable_semantics ==
    /\ stage = "parsed"
    /\ IF CallableError(tree) # "none" THEN Fail(CallableError(tree))
       ELSE \E k \in {extract_callable(tree)} :
            IF ~CallableValid(k) THEN Fail("contract")
            ELSE stage' = "callable" /\ k1' = k /\ UNCHANGED <<tree, error, r14, r15>>

extract_expression_bindings ==
    /\ stage = "callable"
    /\ \E e \in {BindingError(tree, k1)} :
         IF e # "none" THEN Fail(e)
         ELSE \E g \in {extract_bindings(tree, k1)} :
              IF ~BindingsValid(tree, k1, g) THEN Fail("contract")
              ELSE stage' = "bindings" /\ r14' = g /\ UNCHANGED <<tree, error, k1, r15>>

extract_local_flow ==
    /\ stage = "bindings"
    /\ \E x \in {extract_flow([t |-> tree, k1 |-> k1, r14 |-> r14])} :
       IF x.error # "none" THEN Fail(x.error)
       ELSE IF ~FlowValid(k1, r14, x.flow) THEN Fail("contract")
       ELSE stage' = "done" /\ r15' = x.flow /\ UNCHANGED <<tree, error, k1, r14>>

Terminated == stage = "done" /\ UNCHANGED vars

Next ==
    \/ extract_callable_semantics
    \/ extract_expression_bindings
    \/ extract_local_flow
    \/ Terminated

Spec == Init /\ [][Next]_vars

-----------------------------------------------------------------------------
(* What the program itself says: lexical scoping. *)

\* The leaves by which a pattern of any kind binds names.
Binders(t, p) ==
    {n \in p..t[p].last :
        /\ t[n].kind \in {"identifier", "self", "shorthand_field_identifier"}
        /\ t[n].name \notin {"None", "Some"}
        /\ Guard(t, t[p].parent) = NoNode \/ n < Guard(t, t[p].parent)
        /\ t[n].field # "type"}

\* Every declaration: its binders and the span where they are visible.
LetConditionScope(t, c) ==
    LET holder == Nearest(t, c, {n \in DOMAIN t : t[n].kind \in {"if_expression", "while_expression"}})
        body == child_by_field_name(t, holder,
                  IF t[holder].kind = "if_expression" THEN "consequence" ELSE "body")
    IN  (t[c].last + 1)..t[body].last
Scope(t, n) ==
    CASE t[n].kind = "parameter" -> Body(t)..t[Body(t)].last
      [] t[n].kind = "let_declaration" -> (t[n].last + 1)..t[t[n].parent].last
      [] t[n].kind \in LetConditions -> LetConditionScope(t, n)
      [] t[n].kind = "for_expression" ->
            child_by_field_name(t, n, "body")..t[child_by_field_name(t, n, "body")].last
      [] t[n].kind = "match_arm" ->
            (IF Guard(t, n) = NoNode THEN child_by_field_name(t, n, "value") ELSE Guard(t, n))
              ..t[n].last
Declarations(t) == {n \in DOMAIN t : t[n].kind \in PatternHolders}

\* The binder an identifier means: later declarations shadow earlier ones.
TrueBinding(t, n) ==
    LET visible == {b \in UNION {IF n \in Scope(t, d)
                                 THEN Binders(t, child_by_field_name(t, d, "pattern"))
                                 ELSE {} : d \in Declarations(t)} : t[b].name = t[n].name}
    IN  IF visible = {} THEN NoNode ELSE CHOOSE b \in visible : \A c \in visible : c <= b

\* Every READS and WRITES edge leads to the binding the identifier means, and
\* an identifier whose binding was extracted has its edge or its own gap
\* (add_access_relationships resolves by scope length, start and the
\* unexpanded scopes, never by walking the program).
ReadsNearestBinding ==
    stage = "bindings" =>
        /\ \A r \in Edges(r14, "READS") \cup Edges(r14, "WRITES") :
              TrueBinding(tree, r[2][2]) = r[3][2]
        /\ \A n \in Names(tree) :
              \/ TrueBinding(tree, n) \notin {b.node : b \in r14.bindings}
              \/ OutOf(r14, "READS", <<"e", n>>) \cup OutOf(r14, "WRITES", <<"e", n>>) # {}
              \/ <<"rust.lexical_binding_shadowing", <<"e", n>> >> \in r14.coverage

-----------------------------------------------------------------------------
(* What the program itself says: the paths of normal execution. *)

Event(do, n, binding) == [do |-> do, at |-> n, binding |-> binding]
Then(P, Q) == {p \o q : p \in P, q \in Q}

RECURSIVE Paths(_, _)
PathsOf(t, nodes) ==
    FoldLeft(LAMBDA P, n : Then(P, Paths(t, n)), {<<>>}, nodes)
Paths(t, n) ==
    LET field(f) == child_by_field_name(t, n, f)
        optional(m) == IF m = NoNode THEN {<<>>} ELSE Paths(t, m)
        target == field("left")
        place == IF Kind(t, target) = "identifier" THEN TrueBinding(t, target) ELSE NoNode
    IN  CASE t[n].kind = "let_declaration" ->
               Then(optional(field("value")),
                    {[i \in DOMAIN s |-> Event("def", s[i], s[i])] :
                       s \in {SetToSortSeq(Binders(t, field("pattern")), <)}})
          [] t[n].kind = "if_expression" ->
               Then(Paths(t, field("condition")),
                    Paths(t, field("consequence")) \cup optional(field("alternative")))
          [] t[n].kind = "assignment_expression" /\ place # NoNode ->
               Then(Paths(t, field("right")), {<<Event("write", target, place)>>})
          [] t[n].kind = "compound_assignment_expr" /\ place # NoNode ->
               Then(Paths(t, field("right")),
                    {<<Event("read", target, place), Event("write", target, place)>>})
          [] t[n].kind = "identifier" /\ IsExpression(t, n) /\ TrueBinding(t, n) # NoNode ->
               {<<Event("read", n, TrueBinding(t, n))>>}
          [] OTHER -> PathsOf(t, named_children(t, n))

\* The definition a read event sees on one path: the last def or write of its
\* binding before it, or the parameter itself.
Seen(path, i) ==
    LET earlier == {j \in 1..(i - 1) : /\ path[j].do # "read"
                                       /\ path[j].binding = path[i].binding}
        last == CHOOSE j \in earlier : \A k \in earlier : k <= j
    IN  IF earlier = {} THEN <<"b", path[i].binding>>
        ELSE IF path[last].do = "def" THEN <<"b", path[last].at>>
        ELSE <<"e", path[last].at>>
SeenBy(paths, n) ==
    UNION {{Seen(p, i) : i \in {i \in DOMAIN p : p[i].do = "read" /\ p[i].at = n}} : p \in paths}

\* A definition must reach a read exactly when every path to the read brings
\* it, and may reach it exactly when some paths do and some bring another one
\* (add_lexical_flow merges the states of the blocks in ordinal order).
FlowIsExact ==
    stage = "done" /\ r15 # <<>> =>
        (r15.completed =>
            \A paths \in {Paths(tree, Body(tree))} :
            \A n \in {n \in Names(tree) : SeenBy(paths, n) # {}} :
                LET seen == SeenBy(paths, n)
                    must == {x[2] : x \in Into(r15, "LEXICAL_MUST_REACHES_READ", <<"e", n>>)}
                    may == {x[2] : x \in Into(r15, "LEXICAL_MAY_REACHES_READ", <<"e", n>>)}
                IN  IF Cardinality(seen) = 1 THEN must = seen /\ may = {}
                    ELSE must = {} /\ may = seen)

\* The scan never ends on its own contract: what the extractors build passes
\* the validators of the domain, and a callable outside the closed subset is
\* a coverage gap, not an error.  Only a stated limit ends a scan.
ScanSurvives == error \in {"none", "limit"}
=============================================================================
