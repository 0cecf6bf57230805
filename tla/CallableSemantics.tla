------------------------- MODULE CallableSemantics -------------------------
(***************************************************************************)
(* The K1 callable layer (lang-rust callable_semantics.rs, domain          *)
(* s4_k1.rs): one signature per callable, its ordered parameters and the   *)
(* ordered facts of its body - local bindings, call sites and controls -   *)
(* with their lexical nesting, and the resolution of direct calls to the   *)
(* free functions of the crate.                                            *)
(*                                                                         *)
(* A fact is identified by its node (the code hashes callable, kind and    *)
(* evidence span).  Digests, visibility and type spellings are left out.   *)
(***************************************************************************)
EXTENDS SyntaxTree

CONSTANTS FreeFunctions,     \* the catalog: <<module, name>> pairs
          CurrentModule,     \* the module of the callable
          Constructors,      \* names that start with an upper-case letter
          MaxBodyDepth,      \* MAX_K1_BODY_FACT_LEXICAL_DEPTH
          MaxParameters,     \* MAX_K1_PARAMETERS_PER_CALLABLE
          MaxBodyFacts       \* MAX_K1_BODY_FACTS_PER_CALLABLE

Callable == 1
Body(t) == child_by_field_name(t, Callable, "body")

\* Subtrees walk_body does not enter.
Unwalked == {"macro_invocation", "macro_definition", "closure_expression",
             "function_item"}
Walked(t) ==
    {n \in Body(t)..t[Body(t)].last :
        ~ \E a \in Ancestors(t, n) \cup {n} :
            a >= Body(t) /\ t[a].kind \in Unwalked}

LetConditions == {"let_condition", "let_expression"}
control_kind(t, n) ==
    LET condition == child_by_field_name(t, n, "condition")
        withLet == condition # NoNode /\ Descends(t, condition, LetConditions)
    IN  CASE t[n].kind = "if_expression" -> IF withLet THEN "if_let" ELSE "if"
          [] t[n].kind = "while_expression" ->
                IF withLet THEN "while_let" ELSE "while"
          [] t[n].kind = "match_expression" -> "match"
          [] t[n].kind = "loop_expression" -> "loop"
          [] t[n].kind = "for_expression" -> "for"
          [] t[n].kind = "return_expression" -> "return"
          [] t[n].kind = "break_expression" -> "break"
          [] t[n].kind = "continue_expression" -> "continue"
          [] t[n].kind = "try_expression" -> "try"
          [] OTHER -> ""

IsMethodCall(t, n) ==
    Kind(t, child_by_field_name(t, n, "function")) = "field_expression"
is_constructor_spelling(t, n) ==
    t[child_by_field_name(t, n, "function")].name \in Constructors

FactKind(t, n) ==
    CASE t[n].kind = "let_declaration" -> "local_binding"
      [] t[n].kind = "call_expression" ->
            IF ~IsMethodCall(t, n) /\ is_constructor_spelling(t, n)
            THEN "" ELSE "call_site"
      [] control_kind(t, n) # "" -> "control"
      [] OTHER -> ""
BodyFacts(t) == {n \in Walked(t) : FactKind(t, n) # ""}

ParentFact(t, n) == Nearest(t, n, BodyFacts(t))
LexicalDepth(t, n) == Cardinality(Ancestors(t, n) \cap BodyFacts(t))
FactOrdinal(t, n) == Cardinality({m \in BodyFacts(t) : m < n})

\* A path resolves in its own module; a bare name also resolves to the only
\* function of that name anywhere in the crate.
resolve_free_function(path, name) ==
    LET exact == IF path = "" THEN <<CurrentModule, name>> ELSE <<path, name>>
        named == {f \in FreeFunctions : f[2] = name}
    IN  CASE exact \in FreeFunctions -> {exact}
          [] exact \notin FreeFunctions /\ path = "" /\ Cardinality(named) = 1 -> named
          [] OTHER -> {}

CallTarget(t, n) ==
    LET function == child_by_field_name(t, n, "function")
    IN  IF IsMethodCall(t, n) \/ t[function].kind \notin {"identifier", "scoped_identifier"}
        THEN {} ELSE resolve_free_function(t[function].path, t[function].name)

Parameters(t) ==
    {n \in Children(t, child_by_field_name(t, Callable, "parameters")) :
        t[n].kind \in {"parameter", "self_parameter"}}

\* process_callable: the error an extraction of the callable ends with.
CallableError(t) ==
    CASE Cardinality(Parameters(t)) > MaxParameters -> "limit"
      [] \E n \in Walked(t) : LexicalDepth(t, n) > MaxBodyDepth -> "limit"
      [] Cardinality(BodyFacts(t)) > MaxBodyFacts -> "limit"
      [] OTHER -> "none"

\* The chunk of the callable: facts, calls and the typed uncertainty.
CallSites(t) == {n \in BodyFacts(t) : FactKind(t, n) = "call_site"}
extract_callable(t) ==
    [facts |-> [n \in BodyFacts(t) |->
                  [kind    |-> FactKind(t, n),
                   control |-> control_kind(t, n),
                   parent  |-> ParentFact(t, n),
                   depth   |-> LexicalDepth(t, n),
                   ordinal |-> FactOrdinal(t, n)]],
     parameters |-> Parameters(t),
     calls      |-> UNION {CallTarget(t, n) : n \in CallSites(t)},
     unresolved |-> {n \in CallSites(t) : CallTarget(t, n) = {}}]

\* validate_with_additional_subjects: the closure rules a K1 graph passes.
CallableValid(k1) ==
    /\ \A n \in DOMAIN k1.facts :
          k1.facts[n].parent = NoNode \/ k1.facts[n].parent \in DOMAIN k1.facts
    /\ k1.calls \subseteq FreeFunctions
    /\ k1.unresolved \subseteq DOMAIN k1.facts
=============================================================================
