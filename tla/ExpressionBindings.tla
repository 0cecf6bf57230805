------------------------ MODULE ExpressionBindings ------------------------
(***************************************************************************)
(* The R14 layer (lang-rust expression_bindings.rs): the selected          *)
(* expressions of a callable with their parents and roles, the arguments   *)
(* of its calls, the pattern bindings with their lexical scopes, and the   *)
(* READS and WRITES edges that resolve an identifier to a binding.         *)
(*                                                                         *)
(* Entities are tuples: <<"e", node>>, <<"a", call, ordinal>>,             *)
(* <<"b", node>>, <<"f", node>> for an inherited K1 fact or parameter and  *)
(* <<"c", 1>> for the callable.  A relationship is <<kind, source,         *)
(* target>>, which is what its hashed identity is made of; the evidence of *)
(* a record is the span of its node.                                       *)
(***************************************************************************)
EXTENDS CallableSemantics

CONSTANTS MaxExpressions, MaxBindings, MaxArguments, MaxExpressionDepth

SELECTED_EXPRESSION_KINDS ==
    {"array_expression", "assignment_expression", "await_expression",
     "binary_expression", "boolean_literal", "char_literal", "float_literal",
     "integer_literal", "raw_string_literal", "string_literal",
     "call_expression", "compound_assignment_expr", "field_expression",
     "generic_function", "identifier", "self", "scoped_identifier",
     "index_expression", "parenthesized_expression", "range_expression",
     "reference_expression", "struct_expression", "try_expression",
     "tuple_expression", "type_cast_expression", "unary_expression",
     "unit_expression"}
PATTERN_CONTAINERS ==
    {"captured_pattern", "generic_pattern", "match_pattern", "mut_pattern",
     "or_pattern", "range_pattern", "ref_pattern", "reference_pattern",
     "remaining_field_pattern", "slice_pattern", "struct_pattern",
     "tuple_pattern", "tuple_struct_pattern"}
PatternHolders ==
    {"parameter", "self_parameter", "let_declaration", "let_condition",
     "let_expression", "for_expression", "match_arm"}
NameOnlyContexts ==
    {"type_arguments", "generic_type", "attribute_item", "meta_item",
     "use_declaration", "use_as_clause", "use_list"}

selected_expression(t, n) == Kind(t, n) \in SELECTED_EXPRESSION_KINDS

\* An identifier that names a binding site, a path segment, a type or an
\* attribute is no expression: the nearest ancestor that settles it decides.
excluded_identifier_context(t, n) ==
    LET inPattern(a) ==
          /\ t[a].kind \in PatternHolders
          /\ LET p == child_by_field_name(t, a, "pattern")
             IN  p # NoNode /\ Inside(t, n, p)
        decisive == {a \in Ancestors(t, n) :
                       \/ selected_expression(t, a)
                       \/ t[a].kind \in PATTERN_CONTAINERS
                       \/ inPattern(a)
                       \/ t[a].kind \in NameOnlyContexts
                       \/ t[a].kind \in {"block", "expression_statement"}}
        a == Nearest(t, n, decisive)
    IN  /\ t[n].kind \in {"identifier", "self"}
        /\ a # NoNode
        /\ t[a].kind \notin {"block", "expression_statement"}
        /\ selected_expression(t, a) => t[a].kind = "scoped_identifier"

IsExpression(t, n) ==
    selected_expression(t, n) /\ ~excluded_identifier_context(t, n)

\* Subtrees R14 leaves out, with the capability the gap names.
Omission(kind) ==
    CASE kind \in {"macro_invocation", "macro_definition"} ->
            "rust.expression_macro_expansion"
      [] kind = "closure_expression" -> "rust.expression_closure_capture"
      [] kind \in {"function_item", "function_signature_item"} ->
            "rust.expression_nested_callable"
      [] OTHER -> ""
Reached(t) ==
    {n \in Body(t)..t[Body(t)].last :
        \A a \in Ancestors(t, n) : a >= Body(t) => Omission(t[a].kind) = ""}
Visited(t) == {n \in Reached(t) : Omission(t[n].kind) = ""}

collect_expressions(t) == {n \in Visited(t) : IsExpression(t, n)}
ParentExpression(t, n) ==
    IF IsExpression(t, t[n].parent) THEN t[n].parent ELSE NoNode

\* assign_roles: the nesting depth counts the unbroken chain of parents.
ExpressionDepth(t, n) ==
    Cardinality({a \in Ancestors(t, n) :
        \A b \in {c \in Ancestors(t, n) : c >= a} : IsExpression(t, b)})

expression_roles(t, n) ==
    LET p == t[n].parent
        field == t[n].field
        lastChild == \A m \in Children(t, p) : m <= n
    IN  {r \in {"argument", "initializer", "pattern_input", "iterator",
                "condition", "return_value", "body_tail", "callee",
                "assignment_target", "assignment_value", "receiver"} :
          CASE r = "argument" -> t[p].kind = "arguments"
            [] r = "initializer" -> t[p].kind = "let_declaration" /\ field = "value"
            [] r = "pattern_input" ->
                 t[p].kind \in LetConditions \cup {"match_expression"} /\ field = "value"
            [] r = "iterator" -> t[p].kind = "for_expression" /\ field = "value"
            [] r = "condition" ->
                 t[p].kind \in {"if_expression", "while_expression"} /\ field = "condition"
            [] r = "return_value" -> t[p].kind = "return_expression"
            [] r = "body_tail" -> t[p].kind = "block" /\ lastChild
            [] r = "callee" -> t[p].kind = "call_expression" /\ field = "function"
            [] r = "assignment_target" -> t[p].kind \in
                 {"assignment_expression", "compound_assignment_expr"} /\ field = "left"
            [] r = "assignment_value" -> t[p].kind \in
                 {"assignment_expression", "compound_assignment_expr"} /\ field = "right"
            [] r = "receiver" -> t[p].kind = "field_expression" /\ field = "value"}
        \cup (IF ParentExpression(t, n) = NoNode THEN {} ELSE {"nested"})

-----------------------------------------------------------------------------
(* Calls. *)

Calls(t) == {n \in collect_expressions(t) : t[n].kind = "call_expression"}
ArgumentNodes(t, call) ==
    named_children(t, child_by_field_name(t, call, "arguments"))

\* @mutant: the arguments that are selected expressions keep their positions.
SparseArguments(t, call) ==
    LET values == ArgumentNodes(t, call)
    IN  {[call |-> call, ordinal |-> i - 1, expression |-> values[i]] :
           i \in {j \in DOMAIN values : IsExpression(t, values[j])}}

\* add_call_facts keeps the arguments of a call only when every one of them
\* is a selected expression: no sparse ordinals.
ArgumentsOf(t, call) ==
    LET values == ArgumentNodes(t, call)
    IN  IF \A i \in DOMAIN values : IsExpression(t, values[i])
        THEN {[call |-> call, ordinal |-> i - 1, expression |-> values[i]] :
                i \in DOMAIN values}
        ELSE {}

CallArguments(t) == UNION {ArgumentsOf(t, call) : call \in Calls(t)}

ReceiverOf(t, call) ==
    LET function == child_by_field_name(t, call, "function")
    IN  IF Kind(t, function) = "field_expression"
        THEN child_by_field_name(t, function, "value") ELSE NoNode

CallRelationships(t, k1) ==
    {<<"HAS_ARGUMENT", <<"e", a.call>>, <<"a", a.call, a.ordinal>> >> : a \in CallArguments(t)}
    \cup {<<"ARGUMENT_VALUE", <<"a", a.call, a.ordinal>>, <<"e", a.expression>> >> :
            a \in CallArguments(t)}
    \cup {<<"HAS_RECEIVER", <<"e", c>>, <<"e", ReceiverOf(t, c)>> >> :
            c \in {c \in Calls(t) : /\ ReceiverOf(t, c) # NoNode
                                    /\ IsExpression(t, ReceiverOf(t, c))}}
    \cup {<<"REPRESENTS_CALL_SITE", <<"e", c>>, <<"f", c>> >> :
            c \in {c \in Calls(t) : /\ c \in DOMAIN k1.facts
                                    /\ k1.facts[c].kind = "call_site"}}

-----------------------------------------------------------------------------
(* Pattern bindings and their scopes. *)

\* collect_pattern_bindings: the leaves a pattern binds, each with its
\* modifier, and the sub-patterns outside the closed subset.
RECURSIVE collect_pattern_bindings(_, _, _, _)
collect_pattern_bindings(t, p, modifier, origin) ==
    LET kids == named_children(t, p)
        all(from, m) ==
          LET parts == {collect_pattern_bindings(t, kids[i], m, origin) :
                          i \in from..Len(kids)}
          IN  [bound  |-> UNION {x.bound : x \in parts},
               opaque |-> UNION {x.opaque : x \in parts}]
    IN  CASE t[p].kind \in {"identifier", "self"} ->
               [bound  |-> IF origin = "match_arm" /\ t[p].name \in {"None", "Some"}
                           THEN {} ELSE {[node |-> p, modifier |-> modifier]},
                opaque |-> {}]
          [] t[p].kind = "tuple_struct_pattern" -> all(2, modifier)
          [] t[p].kind = "mut_pattern" -> all(1, "mut")
          [] t[p].kind = "ref_pattern" -> all(Len(kids), "ref")
          [] t[p].kind \in {"reference_pattern", "tuple_pattern", "match_pattern"} ->
               all(1, modifier)
          [] OTHER -> [bound |-> {}, opaque |-> {p}]

\* unexpanded_pattern_names: the names a pattern may bind, when they can be told.
RECURSIVE unexpanded_pattern_names(_, _)
unexpanded_pattern_names(t, p) ==
    LET kids == named_children(t, p)
        all(from) ==
          LET parts == {unexpanded_pattern_names(t, kids[i]) : i \in from..Len(kids)}
          IN  [complete |-> \A x \in parts : x.complete,
               names    |-> UNION {x.names : x \in parts}]
    IN  CASE t[p].kind \in {"identifier", "self"} ->
               [complete |-> TRUE, names |-> {t[p].name}]
          [] t[p].kind \in {"_", "mutable_specifier", "scoped_identifier"} ->
               [complete |-> TRUE, names |-> {}]
          [] t[p].kind = "tuple_struct_pattern" -> all(2)
          [] t[p].kind \in {"reference_pattern", "tuple_pattern", "match_pattern",
                            "mut_pattern", "ref_pattern"} -> all(1)
          [] OTHER -> [complete |-> FALSE, names |-> {}]

\* A place that declares bindings: the inherited owner, the pattern, the
\* expression it takes apart and the span in which the names are visible.
Site(owner, origin, pattern, value, from, to) ==
    [owner |-> owner, origin |-> origin, pattern |-> pattern,
     value |-> value, from |-> from, to |-> to]

ParameterSites(t) ==
    {Site(p, "parameter", child_by_field_name(t, p, "pattern"), NoNode,
          Body(t), t[Body(t)].last) : p \in Parameters(t)}
LetSites(t) ==
    LET blocks == {b \in Visited(t) : t[b].kind = "block"}
    IN  {Site(n, "local_let", child_by_field_name(t, n, "pattern"),
              child_by_field_name(t, n, "value"),
              t[n].last + 1, t[Nearest(t, n, blocks)].last) :
           n \in {n \in Visited(t) : t[n].kind = "let_declaration"}}

\* if and while with a direct let condition; for; the unguarded match arms.
ConditionSites(t, kind, origin, bodyField) ==
    LET holders == {n \in Visited(t) : t[n].kind = kind /\
                      Kind(t, child_by_field_name(t, n, "condition")) \in LetConditions}
        site(n) == LET c == child_by_field_name(t, n, "condition")
                       b == child_by_field_name(t, n, bodyField)
                   IN  Site(n, origin, child_by_field_name(t, c, "pattern"),
                            child_by_field_name(t, c, "value"), b, t[b].last)
    IN  {site(n) : n \in holders}
ForSites(t) ==
    {LET b == child_by_field_name(t, n, "body")
     IN  Site(n, "for", child_by_field_name(t, n, "pattern"),
              child_by_field_name(t, n, "value"), b, t[b].last) :
       n \in {n \in Visited(t) : t[n].kind = "for_expression"}}

Arms(t) == {n \in Visited(t) : t[n].kind = "match_arm"}
MatchOf(t, arm) == t[t[arm].parent].parent
Guard(t, arm) ==
    child_by_field_name(t, child_by_field_name(t, arm, "pattern"), "condition")
ArmSites(t) ==
    {LET v == child_by_field_name(t, arm, "value")
     IN  Site(MatchOf(t, arm), "match_arm", child_by_field_name(t, arm, "pattern"),
              child_by_field_name(t, MatchOf(t, arm), "value"), v, t[v].last) :
       arm \in {arm \in Arms(t) : Guard(t, arm) = NoNode}}

ControlSites(t) ==
    ConditionSites(t, "if_expression", "if_let", "consequence")
    \cup ConditionSites(t, "while_expression", "while_let", "body")
    \cup ForSites(t) \cup ArmSites(t)

\* A control whose input is no selected expression binds nothing.
Expanded(t, s) == s.origin \in {"parameter", "local_let"} \/ IsExpression(t, s.value)
BindingSites(t) ==
    {s \in ParameterSites(t) \cup LetSites(t) \cup ControlSites(t) : Expanded(t, s)}

PatternBindings(t) ==
    UNION {{[node |-> b.node, name |-> t[b.node].name, modifier |-> b.modifier,
             owner |-> s.owner, origin |-> s.origin, from |-> s.from, to |-> s.to,
             source |-> IF s.value # NoNode /\ IsExpression(t, s.value)
                        THEN s.value ELSE NoNode] :
              b \in collect_pattern_bindings(t, s.pattern, "none", s.origin).bound} :
           s \in BindingSites(t)}

\* add_unexpanded_binding_scope: the scopes in which an unexpanded pattern
\* may hide an outer binding.
Barrier(t, pattern, from, to) ==
    [pattern |-> unexpanded_pattern_names(t, pattern), from |-> from, to |-> to]
UnexpandedScopes(t) ==
    {Barrier(t, s.pattern, s.from, s.to) : s \in {s \in ControlSites(t) : ~Expanded(t, s)}}
    \cup {Barrier(t, child_by_field_name(t, arm, "pattern"), Guard(t, arm),
                  t[child_by_field_name(t, arm, "value")].last) :
            arm \in {arm \in Arms(t) : Guard(t, arm) # NoNode}}

-----------------------------------------------------------------------------
(* Resolution of an identifier. *)

Candidates(t, bindings, n) ==
    {b \in bindings : b.name = t[n].name /\ b.from <= n /\ t[n].last <= b.to}
Closer(b, c) ==
    \/ b.to - b.from < c.to - c.from
    \/ b.to - b.from = c.to - c.from /\ b.from > c.from
    \/ b.to - b.from = c.to - c.from /\ b.from = c.from /\ b.node <= c.node
NearestBinding(t, bindings, n) ==
    CHOOSE b \in Candidates(t, bindings, n) :
        \A c \in Candidates(t, bindings, n) : Closer(b, c)
Ambiguous(t, bindings, n) ==
    LET b == NearestBinding(t, bindings, n)
    IN  \E c \in Candidates(t, bindings, n) \ {b} : c.from = b.from /\ c.to = b.to

\* @mutant: an unexpanded pattern hides nothing.
HidesNothing(t, scopes, n, b) == FALSE
has_unexpanded_shadow(t, scopes, n, b) ==
    \E s \in scopes :
        /\ s.from <= n /\ t[n].last <= s.to
        /\ ~s.pattern.complete \/ t[n].name \in s.pattern.names
        /\ ~(b.from >= s.from /\ b.to <= s.to /\ (b.from > s.from \/ b.to < s.to))

Names(t) == {n \in collect_expressions(t) : t[n].kind \in {"identifier", "self"}}
Bound(t, bindings) == {n \in Names(t) : Candidates(t, bindings, n) # {}}
Shadowed(t, bindings) ==
    LET scopes == UnexpandedScopes(t)
    IN  {n \in Bound(t, bindings) :
           \/ Ambiguous(t, bindings, n)
           \/ has_unexpanded_shadow(t, scopes, n, NearestBinding(t, bindings, n))}

IsTarget(t, n) == "assignment_target" \in expression_roles(t, n)
IsCompound(t, n) == Kind(t, ParentExpression(t, n)) = "compound_assignment_expr"
AccessRelationships(t, bindings, shadowed) ==
    LET resolved == Bound(t, bindings) \ shadowed
        edge(kind, n) ==
          <<kind, <<"e", n>>, <<"b", NearestBinding(t, bindings, n).node>> >>
    IN  {edge("READS", n) : n \in {n \in resolved : ~IsTarget(t, n) \/ IsCompound(t, n)}}
        \cup {edge("WRITES", n) : n \in {n \in resolved : IsTarget(t, n)}}

-----------------------------------------------------------------------------
(* The graph of one callable. *)

StructuralRelationships(t, bindings) ==
    {<<"HAS_EXPRESSION", <<"c", Callable>>, <<"e", n>> >> : n \in collect_expressions(t)}
    \cup {<<"CONTAINS_EXPRESSION", <<"e", ParentExpression(t, n)>>, <<"e", n>> >> :
            n \in {n \in collect_expressions(t) : ParentExpression(t, n) # NoNode}}
    \cup {<<"DECLARES_BINDING", <<"f", b.owner>>, <<"b", b.node>> >> : b \in bindings}
    \cup {<<"BINDS_FROM", <<"b", b.node>>, <<"e", b.source>> >> :
            b \in {b \in bindings : b.source # NoNode}}

Coverage(t, shadowed) ==
    {<<Omission(t[n].kind), <<"c", Callable>> >> :
        n \in {n \in Reached(t) : Omission(t[n].kind) # ""}}
    \cup {<<"rust.pattern_input_unexpanded", <<"f", s.owner>> >> :
            s \in {s \in LetSites(t) \cup ControlSites(t) :
                     s.value # NoNode /\ ~IsExpression(t, s.value)}}
    \cup {<<"rust.pattern_condition_chain", <<"c", Callable>> >> :
            n \in {n \in Visited(t) :
                     /\ t[n].kind \in {"if_expression", "while_expression"}
                     /\ LET c == child_by_field_name(t, n, "condition")
                        IN  /\ c # NoNode
                            /\ t[c].kind \notin LetConditions
                            /\ Descends(t, c, LetConditions)}}
    \cup {<<"rust.pattern_guard", <<"f", MatchOf(t, arm)>> >> :
            arm \in {arm \in Arms(t) : Guard(t, arm) # NoNode}}
    \cup {<<"rust.pattern_binding", <<"f", s.owner>> >> :
            s \in {s \in BindingSites(t) :
                     collect_pattern_bindings(t, s.pattern, "none", s.origin).opaque # {}}}
    \cup {<<"rust.lexical_binding_shadowing", <<"e", n>> >> : n \in shadowed}

\* process_callable: an owner the inherited layer does not have, or a limit.
BindingError(t, k1) ==
    LET bindings == PatternBindings(t)
        expressions == collect_expressions(t)
    IN  CASE \E s \in LetSites(t) \cup ControlSites(t) :
               s.owner \notin DOMAIN k1.facts -> "owner"
          [] \E n \in expressions : ExpressionDepth(t, n) > MaxExpressionDepth -> "limit"
          [] \E c \in Calls(t) : Len(ArgumentNodes(t, c)) > MaxArguments -> "limit"
          [] Cardinality(expressions) > MaxExpressions -> "limit"
          [] Cardinality(bindings) > MaxBindings -> "limit"
          [] OTHER -> "none"

extract_bindings(t, k1) ==
    LET bindings == PatternBindings(t)
        shadowed == Shadowed(t, bindings)
    IN  [expressions |-> [n \in collect_expressions(t) |->
                            [kind |-> t[n].kind, parent |-> ParentExpression(t, n),
                             depth |-> ExpressionDepth(t, n),
                             roles |-> expression_roles(t, n)]],
         arguments |-> CallArguments(t),
         bindings  |-> bindings,
         relationships |-> StructuralRelationships(t, bindings)
                           \cup CallRelationships(t, k1)
                           \cup AccessRelationships(t, bindings, shadowed),
         coverage  |-> Coverage(t, shadowed)]

-----------------------------------------------------------------------------
(* The validator (domain s4_r14.rs) reads only the published records.      *)

Edges(g, kind) == {r \in g.relationships : r[1] = kind}
Into(g, kind, entity) == {r \in Edges(g, kind) : r[3] = entity}
OutOf(g, kind, entity) == {r \in Edges(g, kind) : r[2] = entity}

OriginOfControl(control) ==
    CASE control = "if_let" -> "if_let" [] control = "while_let" -> "while_let"
      [] control = "for" -> "for" [] control = "match" -> "match_arm"
      [] OTHER -> ""
valid_binding_owner(k1, b) ==
    CASE b.origin = "parameter" -> b.owner \in k1.parameters
      [] b.origin = "local_let" ->
            b.owner \in DOMAIN k1.facts /\ k1.facts[b.owner].kind = "local_binding"
      [] OTHER -> /\ b.owner \in DOMAIN k1.facts
                  /\ OriginOfControl(k1.facts[b.owner].control) = b.origin

\* The nesting a graph states: every parent edge once, acyclic, right depth.
validate_parent_depths(t, g) ==
    \A n \in DOMAIN g.expressions :
        LET x == g.expressions[n] IN
        /\ Cardinality(Into(g, "HAS_EXPRESSION", <<"e", n>>)) = 1
        /\ Cardinality(Into(g, "CONTAINS_EXPRESSION", <<"e", n>>)) =
              (IF x.parent = NoNode THEN 0 ELSE 1)
        /\ IF x.parent = NoNode THEN x.depth = 0
           ELSE /\ x.parent \in DOMAIN g.expressions
                /\ Inside(t, n, x.parent) /\ n # x.parent
                /\ <<"CONTAINS_EXPRESSION", <<"e", x.parent>>, <<"e", n>> >> \in g.relationships
                /\ x.depth = g.expressions[x.parent].depth + 1
        /\ x.depth <= MaxExpressionDepth

validate_argument_ordinals(g) ==
    \A a \in g.arguments :
        LET ofCall == {b \in g.arguments : b.call = a.call}
        IN  /\ {b.ordinal : b \in ofCall} = 0..(Cardinality(ofCall) - 1)
            /\ Cardinality(ofCall) <= MaxArguments
            /\ a.expression \in DOMAIN g.expressions
            /\ g.expressions[a.call].kind = "call_expression"
            /\ Cardinality(Into(g, "HAS_ARGUMENT", <<"a", a.call, a.ordinal>>)) = 1
            /\ Cardinality(OutOf(g, "ARGUMENT_VALUE", <<"a", a.call, a.ordinal>>)) = 1

ValidCalls(k1, g) ==
    \A n \in {n \in DOMAIN g.expressions : g.expressions[n].kind = "call_expression"} :
        /\ Cardinality(OutOf(g, "HAS_RECEIVER", <<"e", n>>)) <= 1
        /\ \A r \in OutOf(g, "HAS_RECEIVER", <<"e", n>>) :
              "receiver" \in g.expressions[r[3][2]].roles
        /\ \A r \in OutOf(g, "REPRESENTS_CALL_SITE", <<"e", n>>) :
              k1.facts[r[3][2]].kind = "call_site"

ValidBindings(k1, g) ==
    \A b \in g.bindings :
        /\ valid_binding_owner(k1, b)
        /\ Into(g, "DECLARES_BINDING", <<"b", b.node>>) =
              {<<"DECLARES_BINDING", <<"f", b.owner>>, <<"b", b.node>> >>}
        /\ LET inputs == Cardinality(OutOf(g, "BINDS_FROM", <<"b", b.node>>))
           IN  inputs <= 1 /\ (b.origin \notin {"parameter", "local_let"} => inputs = 1)

validate_access_relationship(t, g, r) ==
    LET n == r[2][2]
        x == g.expressions[n]
        compound == x.parent # NoNode /\
                      g.expressions[x.parent].kind = "compound_assignment_expr"
    IN  /\ x.kind \in {"identifier", "self"}
        /\ Candidates(t, g.bindings, n) # {}
        /\ NearestBinding(t, g.bindings, n).node = r[3][2]
        /\ ~Ambiguous(t, g.bindings, n)
        /\ r[1] = "READS" => ("assignment_target" \notin x.roles \/ compound)
        /\ r[1] = "WRITES" => "assignment_target" \in x.roles

BindingsValid(t, k1, g) ==
    /\ validate_parent_depths(t, g)
    /\ validate_argument_ordinals(g)
    /\ ValidCalls(k1, g)
    /\ ValidBindings(k1, g)
    /\ \A r \in Edges(g, "READS") \cup Edges(g, "WRITES") :
          validate_access_relationship(t, g, r)
=============================================================================
