---------------------------- MODULE MCExtraction ----------------------------
(***************************************************************************)
(* The layers above the declarations: one callable taken through the       *)
(* callable, binding and flow layers, or the constants of one source       *)
(* evaluated.  A behaviour is about one of the two; the other stays as it  *)
(* starts.                                                                 *)
(***************************************************************************)
EXTENDS RustExtraction, ConstantEvaluation

-----------------------------------------------------------------------------
(* Small callables for RustExtraction: one parameter x, the function g of  *)
(* another module, and bodies of three statements drawn from a pool that   *)
(* has every construct the layers tell apart.                              *)

Ident(name) == Leaf("identifier", name)
One == Leaf("integer_literal", "1")
Call(name, args) ==
    Term("call_expression", "", <<As("function", Ident(name)),
                                  As("arguments", Term("arguments", "", args))>>)
Method(receiver, args) ==
    Term("call_expression", "",
         <<As("function", Term("field_expression", "m",
                               <<As("value", receiver), As("field", Leaf("field_identifier", "m"))>>)),
           As("arguments", Term("arguments", "", args))>>)
Assign(kind, name, value) ==
    Term(kind, "", <<As("left", Ident(name)), As("right", value)>>)
Set(name, value) == Assign("assignment_expression", name, value)
Add(name, value) == Assign("compound_assignment_expr", name, value)
Stmt(expression) == Term("expression_statement", "", <<expression>>)
Block(statements) == Term("block", "", statements)
Let(pattern, value) ==
    Term("let_declaration", "", <<As("pattern", pattern), As("value", value)>>)
Mut(name) == Term("mut_pattern", "", <<Ident(name)>>)
Pair(a, b) == Term("tuple_pattern", "", <<Ident(a), Ident(b)>>)
Some(pattern) ==
    Term("tuple_struct_pattern", "", <<As("type", Ident("Some")), pattern>>)
Struct(name) ==
    Term("struct_pattern", "", <<As("type", Leaf("type_identifier", "P")),
      Term("field_pattern", "", <<As("name", Leaf("shorthand_field_identifier", name))>>)>>)
LetCond(pattern, value) ==
    Term("let_condition", "", <<As("pattern", pattern), As("value", value)>>)
If(condition, then) ==
    Term("if_expression", "", <<As("condition", condition), As("consequence", Block(then))>>)
IfElse(condition, then, else) ==
    Term("if_expression", "", <<As("condition", condition), As("consequence", Block(then)),
      As("alternative", Term("else_clause", "", <<else>>))>>)
While(condition, body) ==
    Term("while_expression", "", <<As("condition", condition), As("body", Block(body))>>)
For(pattern, value, body) ==
    Term("for_expression", "",
         <<As("pattern", pattern), As("value", value), As("body", Block(body))>>)
Arm(pattern, guard, value) ==
    Term("match_arm", "", <<As("pattern", Term("match_pattern", "",
           <<pattern>> \o [i \in DOMAIN guard |-> As("condition", guard[i])])),
         As("value", value)>>)
Match(value, arms) ==
    Term("match_expression", "", <<As("value", value), As("body", Term("match_block", "", arms))>>)
Macro == Leaf("macro_invocation", "m")
Closure(body) == Term("closure_expression", "", <<As("body", body)>>)
Both(a, b) == Term("binary_expression", "&&", <<As("left", a), As("right", b)>>)
Fn(body) ==
    Term("function_item", "f",
         <<As("parameters", Term("parameters", "",
             <<Term("parameter", "", <<As("pattern", Ident("x"))>>)>>)),
           As("body", Block(body))>>)

X == Ident("x")
Y == Ident("y")
\* Statements inside the closed subset of the flow layer.
Flowing ==
    {Let(X, Call("g", <<X>>)), Let(Mut("y"), X), Let(Pair("x", "y"), Y),
     Stmt(Set("x", One)), Stmt(Add("x", Y)), Stmt(Method(X, <<Y, One>>)),
     Stmt(IfElse(X, <<Stmt(Set("x", Y))>>, Block(<<Stmt(Y)>>))),
     Stmt(IfElse(Y, <<Let(X, Y), Stmt(Set("x", One))>>,
                 IfElse(X, <<Stmt(Add("x", X))>>, Block(<<Let(Y, X), Stmt(Y)>>))))}
\* Statements the binding layer knows and the flow layer refuses.
Binding ==
    {Stmt(If(LetCond(Some(X), Y), <<Stmt(X)>>)),
     Stmt(If(LetCond(Some(X), If(Y, <<Y>>)), <<Let(Y, X), Stmt(Y)>>)),
     Stmt(While(LetCond(Pair("x", "y"), Call("g", <<X>>)), <<Stmt(Set("x", Y))>>)),
     Stmt(For(X, Y, <<Stmt(X), Let(X, Y), Stmt(X)>>)),
     Stmt(For(Struct("y"), Macro, <<Stmt(X), Stmt(Y)>>)),
     Stmt(Match(X, <<Arm(Some(Y), <<>>, Y), Arm(Ident("None"), <<>>, X)>>)),
     Stmt(Match(Y, <<Arm(X, <<Call("g", <<X>>)>>, Block(<<Let(X, X), Stmt(X)>>))>>)),
     Stmt(Closure(X)), Let(Y, If(X, <<X>>)), Stmt(Call("g", <<Macro, X>>))}
\* Statements that read what the ones before them bind and write.
Readers == {Stmt(Method(X, <<Y, One>>)), Stmt(Add("x", Y))}

MCPrograms ==
    {Fn(<<a, b, c>>) : a \in Flowing, b \in Flowing, c \in Flowing}
    \cup {Fn(<<a, b, c>>) : a \in Flowing, b \in Binding, c \in Readers}
    \cup {Fn(<<>>),
          Fn(<<Stmt(IfElse(X, <<Stmt(IfElse(X, <<Stmt(IfElse(X, <<Stmt(X)>>, Block(<<Stmt(X)>>)))>>,
                                            Block(<<Stmt(X)>>)))>>, Block(<<Stmt(X)>>)))>>)}

\* A write inside the value of a let, or inside a condition.
Paren(expression) == Term("parenthesized_expression", "", <<expression>>)
WritePrograms ==
    {Fn(<<a, b, c>>) : a \in {Let(Y, Paren(Set("x", One))),
                              Stmt(IfElse(Both(X, Paren(Set("x", One))), <<Stmt(X)>>, Block(<<Stmt(X)>>)))},
                      b \in Flowing, c \in Readers}

-----------------------------------------------------------------------------
(* Constants for ConstantEvaluation *)

\* i2 and u2 are narrower than the wide integers, i3 is as wide.
Types ==
    "i2" :> [name |-> "i2", kind |-> "signed", bits |-> 2]
    @@ "i3" :> [name |-> "i3", kind |-> "signed", bits |-> 3]
    @@ "u2" :> [name |-> "u2", kind |-> "unsigned", bits |-> 2]
    @@ "bool" :> [name |-> "bool", kind |-> "bool", bits |-> 1]

Tree(o, n, w, kids) == [op |-> o, v |-> n, s |-> w, args |-> kids]
Lit(n) == Tree("int", n, "", <<>>)
Bool(n) == Tree("bool", n, "", <<>>)
Id(w) == Tree("id", 0, w, <<>>)
Un(w, a) == Tree("unary", 0, w, <<a>>)
Bin(w, a, b) == Tree("binary", 0, w, <<a, b>>)

Tok(k, n, w) == <<[t |-> k, n |-> n, s |-> w]>>

RECURSIVE Shown(_)
Wrapped(yes, a) == IF yes THEN Tok("(", 0, "") \o Shown(a) \o Tok(")", 0, "") ELSE Shown(a)
Level(a) == IF a.op = "binary" THEN binary_precedence(a.s) ELSE 9
Shown(a) ==
    CASE a.op = "int" -> Tok("int", a.v, "")
      [] a.op = "bool" -> Tok("bool", a.v, "")
      [] a.op = "id" -> Tok("id", 0, a.s)
      [] a.op = "implicit" -> <<>>
      [] a.op = "unary" -> Tok("op", 0, a.s) \o Wrapped(Level(a.args[1]) < 9, a.args[1])
      [] a.op = "binary" ->
            Wrapped(Level(a.args[1]) < Level(a)
                      \/ (a.s \in Comparisons /\ Level(a.args[1]) = Level(a)), a.args[1])
            \o Tok("op", 0, a.s)
            \o Wrapped(Level(a.args[2]) <= Level(a), a.args[2])

Constant(w, ty, a) ==
    [kind |-> "const", owner |-> "m", owner_kind |-> "module", name |-> w, type |-> ty,
     presence |-> "always", attributes |-> {}, ambiguous |-> FALSE, unit |-> TRUE,
     lexes |-> TRUE, explicit |-> a.op # "implicit", tokens |-> Shown(a), tree |-> a]

Variant(e, a) == [Constant("v", "none", a) EXCEPT !.kind = "variant", !.owner = e]
NoTree == Tree("implicit", 0, "", <<>>)

Ints == {Lit(0), Lit(1), Lit(2), Un("-", Lit(2)), Id("B")}
Small == {Lit(1), Un("-", Lit(1)), Id("B")}

\* Two operators, so that precedence, association and intermediate overflow matter.
Chains ==
    {Bin(w1, Bin(w2, a, b), c) : w1 \in {"+", "*", "&"}, w2 \in {"-", "/", "|"},
                                 a \in Small, b \in {Lit(1), Lit(2)}, c \in {Lit(1), Lit(2)}}
    \cup {Bin(w1, a, Bin(w2, b, c)) : w1 \in {"-", "^"}, w2 \in {"-", "+"},
                                      a \in Small, b \in {Lit(1), Lit(0)}, c \in {Lit(1)}}
    \cup {Un(w1, a) : w1 \in {"!", "-"}, a \in Ints}
    \cup {Un("-", Bin("+", Lit(1), Id("B"))), Un("!", Un("-", Id("B"))), Lit(4), Lit(9)}

Logic ==
    {Bin(w, a, b) : w \in {"&&", "||", "<", "==", "+"},
                    a \in {Bool(0), Bool(1), Id("B")},
                    b \in {Bool(1), Un("!", Id("B")), Lit(1), Bin("||", Bool(0), Id("B"))}}

Single(ty, a, b) ==
    [items |-> "a" :> Constant("A", ty, a) @@ "b" :> Constant("B", ty, b), enums |-> <<>>]

Arithmetical ==
    {Single(ty, a, b) : ty \in {"i2", "i3", "u2"}, a \in Chains, b \in {Lit(1), Bin("+", Lit(1), Lit(2))}}
    \cup {Single("i3", Bin("%", a, b), Lit(1)) :
            a \in {Un("-", Lit(4)), Lit(3), Un("-", Lit(3))},
            b \in {Lit(0), Lit(2), Un("-", Lit(2)), Un("-", Id("B"))}}
    \cup {Single("bool", a, b) : a \in Logic, b \in {Bool(0), Bool(1)}}

\* Three constants that name each other every way, in two owners.
NamingGraphs ==
    {[items |-> "a" :> Constant("A", "i3", a) @@ "b" :> Constant("B", "i3", b)
                @@ "c" :> [Constant(cn, "i3", c) EXCEPT !.owner = co, !.attributes = ca],
      enums |-> <<>>] :
        a \in {Lit(1), Id("B"), Bin("+", Id("B"), Id("C"))},
        b \in {Lit(2), Id("A"), Id("C"), Bin("*", Lit(2), Id("C"))},
        c \in {Lit(3), Id("A"), Bin("+", Lit(1), Lit(3)), Un("-", Id("B"))},
        cn \in {"B", "C"}, co \in {"m", "n"}, ca \in {{}, {"cfg"}}}

Enums ==
    {[items |-> "x" :> Variant("E", a) @@ "y" :> [Variant("E", b) EXCEPT !.presence = pr]
                @@ "z" :> Variant("E", c),
      enums |-> "E" :> [repr |-> ty, attributes |-> n, variants |-> <<"x", "y", "z">>]] :
        a \in {NoTree, Lit(1), Un("-", Lit(2))}, b \in {NoTree, Lit(3), Lit(2)},
        c \in {NoTree, Lit(0), Id("x")}, pr \in {"always", "cfg"},
        ty \in {"i3", "u2", "usize"}, n \in {1, 2}}

Ineligible ==
    {[items |-> "a" :> [Constant("A", ty, Lit(1)) EXCEPT !.kind = k, !.presence = pr,
                                                         !.ambiguous = am, !.lexes = lx]
                @@ "b" :> Constant("B", "i2", Id("A")), enums |-> <<>>] :
        ty \in {"i2", "usize", "other"}, k \in {"const", "static", "static_mut"},
        pr \in {"always", "cfg", "unknown"}, am \in BOOLEAN, lx \in BOOLEAN}

MCSources == Arithmetical \cup NamingGraphs \cup Enums \cup Ineligible

-----------------------------------------------------------------------------
(* The two together *)

VARIABLE evaluating     \* the behaviour is about constants

extractionVars == <<vars, constantVars, evaluating>>

ExtractionInit ==
    \/ /\ evaluating = FALSE
       /\ source = Single("i2", Lit(4), Lit(1)) /\ ConstantInit
       /\ Init
    \/ /\ evaluating = TRUE
       /\ tree = Parse(Fn(<<>>)) /\ Init
       /\ ConstantInit

ExtractionNext ==
    \/ ~evaluating /\ Next /\ UNCHANGED <<constantVars, evaluating>>
    \/ evaluating /\ ConstantNext /\ UNCHANGED <<vars, evaluating>>

ExtractionSpec == ExtractionInit /\ [][ExtractionNext]_extractionVars
=============================================================================
