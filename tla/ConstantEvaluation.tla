------------------------- MODULE ConstantEvaluation -------------------------
(***************************************************************************)
(* Safe constant evaluation (R16): codenoesis-lang-rust's                  *)
(* constant_evaluation.rs and the validator of codenoesis-domain's         *)
(* s4_r16.rs.                                                              *)
(*                                                                         *)
(* A source is a function from declared values to what the earlier stages  *)
(* know of them, and a function from enums to their variants.  Collection  *)
(* turns the eligible ones into candidates; each candidate is evaluated by *)
(* a precedence-climbing parser that evaluates the constants it names on   *)
(* the way; then failed enums are withdrawn, the gaps are recorded and the *)
(* graph is validated.                                                     *)
(*                                                                         *)
(* Candidates are visited in the order of their identifiers, which are     *)
(* hashes of the repository identity: any order, so evaluate picks one.    *)
(* The 128-bit integers the evaluator computes in have WideBits bits here, *)
(* and a fixed-width primitive has at most as many.                        *)
(***************************************************************************)
EXTENDS Integers, Sequences, FiniteSets, TLC, Bitwise

CONSTANTS Sources,              \* the sources a run may be given
          Primitives,           \* type name -> [name, kind, bits]
          WideBits,
          MaxSyntaxNodes,
          MaxDirectDependencies,
          MaxDependencyLevels

VARIABLES source,     \* [items, enums]
          phase,      \* "collected", "evaluating", "done"
          memory,     \* [states, values] of the evaluated candidates
          graph,      \* the published overlay
          failure     \* "none", "limit" or "contract"

constantVars == <<source, phase, memory, graph, failure>>

None == "none"

-----------------------------------------------------------------------------
(* Values and checked arithmetic. A value is [kind, v]; booleans are 0, 1. *)

Ok(value) == [fail |-> "", value |-> value]
No(why) == [fail |-> why, value |-> [kind |-> "bool", v |-> 0]]

Bounds(kind, bits) ==
    CASE kind = "bool" -> 0..1
      [] kind = "signed" -> -(2^(bits - 1))..(2^(bits - 1) - 1)
      [] kind = "unsigned" -> 0..(2^bits - 1)

Fits(n, t) == n \in Bounds(t.kind, t.bits)

check_range(value, t) ==
    IF value.kind = t.kind /\ Fits(value.v, t) THEN Ok(value) ELSE No("arithmetic")

Truth(b) == Ok([kind |-> "bool", v |-> IF b THEN 1 ELSE 0])

Absolute(n) == IF n < 0 THEN -n ELSE n

Quotient(l, r) ==
    (IF (l < 0) = (r < 0) THEN 1 ELSE -1) * (Absolute(l) \div Absolute(r))

Remainder(l, r) == l - r * Quotient(l, r)

\* Two's complement at the width of the wide integers.
Word(n) == n % 2^WideBits
Unword(n, kind) ==
    IF kind = "signed" /\ n >= 2^(WideBits - 1) THEN n - 2^WideBits ELSE n

Comparisons == {"==", "!=", "<", "<=", ">", ">="}
Arithmetic == {"+", "-", "*", "/", "%", "&", "|", "^"}

Compare(op, l, r) ==
    CASE op = "==" -> l = r  [] op = "!=" -> l # r
      [] op = "<"  -> l < r  [] op = "<=" -> l <= r
      [] op = ">"  -> l > r  [] op = ">=" -> l >= r

Compute(op, l, r, kind) ==
    CASE op = "+" -> l + r
      [] op = "-" -> l - r
      [] op = "*" -> l * r
      [] op = "/" -> Quotient(l, r)
      [] op = "%" -> Remainder(l, r)
      [] op = "&" -> Unword(Word(l) & Word(r), kind)
      [] op = "|" -> Unword(Word(l) | Word(r), kind)
      [] op = "^" -> Unword(Word(l) ^^ Word(r), kind)

\* checked_add and its like: None when the wide integers overflow, when the
\* divisor is zero, and when the quotient is not representable.
CheckedWide(op, l, r, kind) ==
    /\ op \in {"/", "%"} => r # 0 /\ Quotient(l, r) \in Bounds(kind, WideBits)
    /\ Compute(op, l, r, kind) \in Bounds(kind, WideBits)

apply_binary(op, l, r, t) ==
    CASE l.kind # r.kind -> No("expression")
      [] l.kind = r.kind /\ op \in Comparisons -> Truth(Compare(op, l.v, r.v))
      [] l.kind = "bool" /\ r.kind = "bool" /\ op = "&&" -> Truth(l.v = 1 /\ r.v = 1)
      [] l.kind = "bool" /\ r.kind = "bool" /\ op = "||" -> Truth(l.v = 1 \/ r.v = 1)
      [] l.kind # "bool" /\ l.kind = r.kind /\ op \in Arithmetic ->
            IF CheckedWide(op, l.v, r.v, l.kind)
            THEN check_range([kind |-> l.kind, v |-> Compute(op, l.v, r.v, l.kind)], t)
            ELSE No("arithmetic")
      [] OTHER -> No("expression")

checked_not(value, t) ==
    CASE value.kind = "bool" -> Truth(value.v = 0)
      [] value.kind = "signed" -> check_range([value EXCEPT !.v = -@ - 1], t)
      [] value.kind = "unsigned" ->
            Ok([value EXCEPT !.v = Word(-@ - 1) & (2^t.bits - 1)])

checked_negate(value, t) ==
    IF value.kind # "signed" THEN No("expression")
    ELSE IF -value.v \notin Bounds("signed", WideBits) THEN No("arithmetic")
    ELSE check_range([value EXCEPT !.v = -@], t)

checked_increment(value, t) ==
    IF value.kind = "bool" THEN No("expression")
    ELSE IF value.v + 1 \notin Bounds(value.kind, WideBits) THEN No("arithmetic")
    ELSE check_range([value EXCEPT !.v = @ + 1], t)

zero(t) == IF t.kind = "bool" THEN No("expression") ELSE Ok([kind |-> t.kind, v |-> 0])

\* A literal token holds its magnitude in n and its suffix in s.
parse_integer(token, t, negative) ==
    IF \/ t.kind = "bool"
       \/ token.s \notin {"", t.name}
       \/ token.n >= 2^WideBits
    THEN No("expression")
    ELSE IF t.kind = "unsigned" /\ negative THEN No("arithmetic")
    ELSE LET n == IF negative THEN -token.n ELSE token.n
         IN IF Fits(n, t) THEN Ok([kind |-> t.kind, v |-> n]) ELSE No("arithmetic")

binary_precedence(op) ==
    CASE op = "||" -> 1
      [] op = "&&" -> 2
      [] op \in Comparisons -> 3
      [] op = "|" -> 4
      [] op = "^" -> 5
      [] op = "&" -> 6
      [] op \in {"+", "-"} -> 7
      [] op \in {"*", "/", "%"} -> 8
      [] OTHER -> 0

-----------------------------------------------------------------------------
(* The candidates.                                                         *)

Item(id) == source.items[id]

\* collect_typed_value: what becomes of a const or static with a value.
Eligible(i) ==
    /\ i.kind \in {"const", "static"}
    /\ i.owner_kind = "module"
    /\ i.presence # "unknown"
    /\ i.attributes \subseteq {"cfg"}

TypedGap(i) ==
    CASE i.ambiguous -> "expression"
      [] ~i.ambiguous /\ i.type \in {"usize", "isize"} -> "target"
      [] ~i.ambiguous /\ i.type \notin DOMAIN Primitives \cup {"usize", "isize"} -> "expression"
      [] ~i.ambiguous /\ i.type \in DOMAIN Primitives /\ ~i.lexes -> "expression"
      [] OTHER -> None

\* collect_enum: the whole enum is staged, or none of it is.
UnitVariant(i, e) ==
    /\ i.kind = "variant" /\ i.owner = e
    /\ i.presence = "always" /\ i.attributes = {}
    /\ i.unit
    /\ i.explicit => i.lexes

EnumStaged(e) ==
    LET enum == source.enums[e]
    IN /\ enum.repr \in DOMAIN Primitives
       /\ Primitives[enum.repr].kind # "bool"
       /\ enum.attributes = 1
       /\ \A n \in DOMAIN enum.variants :
            LET i == Item(enum.variants[n])
            IN ~i.ambiguous /\ UnitVariant(i, e)

Typed == {id \in DOMAIN source.items : Eligible(Item(id)) /\ TypedGap(Item(id)) = None}

Variants(e) == {source.enums[e].variants[n] : n \in DOMAIN source.enums[e].variants}
Staged == {e \in DOMAIN source.enums : EnumStaged(e)}
EnumOf(id) == CHOOSE e \in DOMAIN source.enums : id \in Variants(e)

Previous(id) ==
    LET s == source.enums[EnumOf(id)].variants
        n == CHOOSE k \in DOMAIN s : s[k] = id
    IN IF n = 1 THEN None ELSE s[n - 1]

candidate(id) ==
    LET i == Item(id)
    IN [owner |-> i.owner,
        name |-> i.name,
        type |-> Primitives[IF i.kind = "variant" THEN source.enums[EnumOf(id)].repr
                            ELSE i.type],
        tokens |-> i.tokens,
        explicit |-> i.explicit,
        previous |-> IF i.kind = "variant" /\ ~i.explicit THEN Previous(id) ELSE None,
        enum |-> IF i.kind = "variant" THEN EnumOf(id) ELSE None,
        dependency_source |-> /\ i.kind = "const"
                              /\ i.presence = "always"
                              /\ i.attributes = {}]

Subjects == [id \in Typed \cup UNION {Variants(e) : e \in Staged} |-> candidate(id)]

CollectionGaps ==
    {<<id, TypedGap(Item(id))>> :
        id \in {k \in DOMAIN source.items : Eligible(Item(k)) /\ TypedGap(Item(k)) # None}}
    \cup {<<e, "enum">> : e \in {k \in DOMAIN source.enums :
                                    source.enums[k].variants # <<>> /\ ~EnumStaged(k)}}

-----------------------------------------------------------------------------
(* Evaluation. The parser p is [at, nodes, uses, levels, memory, value,    *)
(* fail]; cs are the candidates and c the one being evaluated.             *)

RECURSIVE parse_expression(_, _, _, _), Climb(_, _, _, _), parse_prefix(_, _, _),
          evaluate_candidate(_, _, _)

NewParser(m) ==
    [at |-> 1, nodes |-> 0, uses |-> {}, levels |-> 0, memory |-> m,
     value |-> [kind |-> "bool", v |-> 0], fail |-> ""]

Stop(p, why) == [p EXCEPT !.fail = why]
Take(p, result) ==
    [p EXCEPT !.value = result.value, !.fail = result.fail]
Advance(p) == [p EXCEPT !.at = @ + 1]

bump_node(p) ==
    IF p.nodes + 1 > MaxSyntaxNodes THEN Stop(p, "limit") ELSE [p EXCEPT !.nodes = @ + 1]

EndToken == [t |-> "end", n |-> 0, s |-> ""]
Token(c, p) == IF p.at \in DOMAIN c.tokens THEN c.tokens[p.at] ELSE EndToken

Highest(a, b) == IF a < b THEN b ELSE a

Matching(cs, c, name) ==
    {id \in DOMAIN cs : /\ cs[id].dependency_source
                        /\ cs[id].owner = c.owner
                        /\ cs[id].name = name
                        /\ cs[id].type = c.type}

\* What the parser makes of a dependency's evaluation r.
Used(p, id, r) ==
    LET q == [p EXCEPT !.memory = r.memory]
        level == r.evaluation.levels + 1
    IN CASE r.fail # "" -> Stop(q, r.fail)
         [] r.fail = "" /\ level > MaxDependencyLevels -> Stop(q, "limit")
         [] OTHER -> [q EXCEPT !.levels = Highest(@, level),
                               !.uses = @ \cup {id},
                               !.value = r.evaluation.value]

resolve_dependency(cs, c, p, name) ==
    IF Cardinality(Matching(cs, c, name)) # 1 THEN Stop(p, "dependency")
    ELSE LET id == CHOOSE k \in Matching(cs, c, name) : TRUE
         IN IF id \notin p.uses /\ Cardinality(p.uses) + 1 > MaxDirectDependencies
            THEN Stop(p, "limit")
            ELSE Used(p, id, evaluate_candidate(cs, id, p.memory))

parse_prefix(cs, c, p) ==
    LET token == Token(c, p)
        next == Advance(p)
        bumped == bump_node(next)
        Then(q, F(_)) == IF q.fail = "" THEN F(q) ELSE q
    IN CASE token.t = "bool" /\ c.type.kind = "bool" ->
               Take(next, Ok([kind |-> "bool", v |-> token.n]))
         [] token.t = "int" -> Take(next, parse_integer(token, c.type, FALSE))
         [] token.t = "id" -> resolve_dependency(cs, c, next, token.s)
         [] token.t = "op" /\ token.s = "!" ->
               Then(bumped, LAMBDA b :
                 Then(parse_prefix(cs, c, b), LAMBDA q : Take(q, checked_not(q.value, c.type))))
         [] token.t = "op" /\ token.s = "-" ->
               Then(bumped, LAMBDA b :
                 IF Token(c, b).t = "int"
                 THEN Take(Advance(b), parse_integer(Token(c, b), c.type, TRUE))
                 ELSE Then(parse_prefix(cs, c, b),
                           LAMBDA q : Take(q, checked_negate(q.value, c.type))))
         [] token.t = "(" ->
               Then(parse_expression(cs, c, next, 0), LAMBDA q :
                 IF Token(c, q).t = ")" THEN Advance(q) ELSE Stop(q, "expression"))
         [] OTHER -> Stop(next, "expression")

\* The operator applied to the value so far and to what the right side gave.
Operated(c, p, op, right) ==
    IF right.fail # "" THEN right
    ELSE Take(right, apply_binary(op, p.value, right.value, c.type))

\* @mutant of Climb: the right operand is parsed at the operator's own level,
\* so that operators of one level associate to the right.
ClimbRight(cs, c, p, minimum) ==
    LET token == Token(c, p)
        precedence == IF token.t = "op" THEN binary_precedence(token.s) ELSE 0
    IN IF p.fail # "" \/ precedence = 0 \/ precedence < minimum THEN p
       ELSE Climb(cs, c, Operated(c, p, token.s, parse_expression(cs, c, Advance(p), precedence)), minimum)

Climb(cs, c, p, minimum) ==
    LET token == Token(c, p)
        precedence == IF token.t = "op" THEN binary_precedence(token.s) ELSE 0
    IN IF p.fail # "" \/ precedence = 0 \/ precedence < minimum THEN p
       ELSE Climb(cs, c, Operated(c, p, token.s, parse_expression(cs, c, Advance(p), precedence + 1)), minimum)

parse_expression(cs, c, p, minimum) ==
    LET bumped == bump_node(p)
    IN IF bumped.fail # "" THEN bumped
       ELSE Climb(cs, c, parse_prefix(cs, c, bumped), minimum)

Evaluation(m, why, value, uses, levels) ==
    [memory |-> m, fail |-> why,
     evaluation |-> [value |-> value, uses |-> uses, levels |-> levels]]

After(c, r) ==
    LET next == checked_increment(r.evaluation.value, c.type)
    IN IF r.fail # "" THEN r
       ELSE IF r.evaluation.levels + 1 > MaxDependencyLevels
            THEN [r EXCEPT !.fail = "limit"]
            ELSE Evaluation(r.memory, next.fail, next.value, {c.previous}, r.evaluation.levels + 1)
ImplicitDiscriminant(cs, c, m) ==
    IF c.previous = None THEN Evaluation(m, zero(c.type).fail, zero(c.type).value, {}, 0)
    ELSE After(c, evaluate_candidate(cs, c.previous, m))

Whole(c, p) ==
    LET whole == p.at = Len(c.tokens) + 1 /\ p.value.kind = c.type.kind
    IN Evaluation(p.memory, IF p.fail = "" /\ ~whole THEN "expression" ELSE p.fail,
                  p.value, p.uses, p.levels)
ParsedExpression(cs, c, m) == Whole(c, parse_expression(cs, c, NewParser(m), 0))

\* The evaluation r, remembered for its candidate.
Remembered(id, r) ==
    [r EXCEPT !.memory =
        IF r.fail = ""
        THEN [states |-> [@.states EXCEPT ![id] = "complete"],
              values |-> (id :> r.evaluation) @@ @.values]
        ELSE [@ EXCEPT !.states[id] = r.fail]]

evaluate_candidate(cs, id, m) ==
    CASE m.states[id] = "complete" ->
            [memory |-> m, fail |-> "", evaluation |-> m.values[id]]
      [] m.states[id] \notin {"new", "complete"} ->
            Evaluation(m, "dependency", [kind |-> "bool", v |-> 0], {}, 0)
      [] m.states[id] = "new" ->
            LET visiting == [m EXCEPT !.states[id] = "visiting"]
            IN Remembered(id, IF cs[id].explicit THEN ParsedExpression(cs, cs[id], visiting)
                              ELSE ImplicitDiscriminant(cs, cs[id], visiting))

-----------------------------------------------------------------------------
(* What is published, and its validator.                                   *)

EmptyGraph == [values |-> <<>>, uses |-> <<>>, gaps |-> {}, discharged |-> {}]

Evaluated(m) == DOMAIN m.values

FailedEnums(m) == {e \in Staged : ~(Variants(e) \subseteq Evaluated(m))}

\* @mutant of Kept: the variants that did evaluate stay in a failed enum.
KeepsPartialEnums(m) == Evaluated(m)

Kept(m) == {id \in Evaluated(m) : Subjects[id].enum \notin FailedEnums(m)}

\* The gap R5 recorded for every initializer is discharged for a value with
\* neither a dependency nor a boolean type, and replaced by a typed gap.
Discharged(m, gaps) ==
    {id \in Kept(m) : /\ Subjects[id].explicit
                      /\ Subjects[id].type.kind # "bool"
                      /\ m.values[id].uses = {}}
    \cup {id \in DOMAIN source.items : \E gap \in gaps : gap[1] = id}

FailureGaps(m) ==
    {<<e, "enum">> : e \in FailedEnums(m)}
    \cup {<<id, m.states[id]>> : id \in {k \in DOMAIN Subjects :
                                    Subjects[k].enum = None /\ k \notin Evaluated(m)}}

build_graph(m) ==
    LET gaps == CollectionGaps \cup FailureGaps(m)
    IN [values |-> [id \in Kept(m) |-> m.values[id].value],
        uses |-> [id \in Kept(m) |-> m.values[id].uses],
        gaps |-> gaps,
        discharged |-> Discharged(m, gaps)]

\* validate_acyclic: a walk from every value along its dependencies.
Descend(g, ids) == UNION {g.uses[id] : id \in ids}
RECURSIVE Depth(_, _, _)
Depth(g, ids, n) ==
    IF ids = {} \/ n > MaxDependencyLevels + 1 THEN n ELSE Depth(g, Descend(g, ids), n + 1)

\* An evaluated entity, its EVALUATES_TO edge and their claims stand or fall
\* together: one entry of g.values.
valid_values(g) ==
    \A id \in DOMAIN g.values :
        /\ id \in DOMAIN source.items
        /\ g.values[id].kind = Subjects[id].type.kind
        /\ Fits(g.values[id].v, Subjects[id].type)

valid_derivations(g) ==
    /\ DOMAIN g.uses = DOMAIN g.values
    /\ \A id \in DOMAIN g.uses :
          /\ g.uses[id] \subseteq DOMAIN g.values
          /\ Cardinality(g.uses[id]) <= MaxDirectDependencies
    /\ \A id \in DOMAIN g.uses : Depth(g, {id}, 0) <= MaxDependencyLevels + 1

validate(g) == valid_values(g) /\ valid_derivations(g)

-----------------------------------------------------------------------------
(* The extraction.                                                         *)

ConstantInit ==
    /\ source \in Sources
    /\ phase = "collected"
    /\ memory = [states |-> <<>>, values |-> <<>>]
    /\ graph = EmptyGraph
    /\ failure = None

collect_source_candidates ==
    /\ phase = "collected"
    /\ phase' = "evaluating"
    /\ memory' = [memory EXCEPT !.states = [id \in DOMAIN Subjects |-> "new"]]
    /\ UNCHANGED <<source, graph, failure>>

evaluate ==
    /\ phase = "evaluating"
    /\ \E id \in DOMAIN Subjects :
          /\ memory.states[id] = "new"
          /\ \E r \in {evaluate_candidate(Subjects, id, memory)} :
                /\ memory' = r.memory
                /\ failure' = IF r.fail = "limit" THEN "limit" ELSE None
                /\ phase' = IF r.fail = "limit" THEN "done" ELSE phase
    /\ UNCHANGED <<source, graph>>

publish_constants ==
    /\ phase = "evaluating"
    /\ \A id \in DOMAIN Subjects : memory.states[id] # "new"
    /\ \E g \in {build_graph(memory)} :
          IF validate(g) THEN graph' = g /\ failure' = None
          ELSE graph' = EmptyGraph /\ failure' = "contract"
    /\ phase' = "done"
    /\ UNCHANGED <<source, memory>>

ConstantsDone == phase = "done" /\ UNCHANGED constantVars

ConstantNext == collect_source_candidates \/ evaluate \/ publish_constants \/ ConstantsDone

ConstantSpec == ConstantInit /\ [][ConstantNext]_constantVars

-----------------------------------------------------------------------------
(* What Rust gives a constant, by the shape of its expression: an item's   *)
(* tree is [op, v, s, args], and its tokens are the tree printed with the  *)
(* fewest parentheses. Every operation is checked at the width of the type.*)

RECURSIVE RustValue(_, _, _)

Undefined == [kind |-> "undefined", v |-> 0]

RustNamed(id, name, seen) ==
    LET named == {k \in DOMAIN Subjects \ seen :
                    /\ Subjects[k].dependency_source
                    /\ Item(k).owner = Item(id).owner
                    /\ Item(k).name = name
                    /\ Item(k).type = Item(id).type}
    IN IF Cardinality({k \in DOMAIN Subjects :
                         /\ Subjects[k].dependency_source
                         /\ Item(k).owner = Item(id).owner
                         /\ Item(k).name = name
                         /\ Item(k).type = Item(id).type}) = 1 /\ named # {}
       THEN LET k == CHOOSE k \in named : TRUE IN RustValue(k, Item(k).tree, seen \cup {k})
       ELSE Undefined

\* Overflow at the exact width, the overflowing quotient of the least value by
\* minus one included: Rust calls its remainder an overflow too.
Exact(op, l, r, t) ==
    /\ op \in {"/", "%"} => r # 0 /\ Fits(Quotient(l, r), t)
    /\ Fits(IF op \in {"/", "%"} /\ r = 0 THEN 0 ELSE Compute(op, l, r, t.kind), t)

RustBinary(op, l, r, t) ==
    CASE l.kind = "undefined" \/ r.kind = "undefined" \/ l.kind # r.kind -> Undefined
      [] l.kind = "bool" /\ r.kind = "bool" /\ op \in {"&&", "||"} \cup Comparisons ->
            Truth(CASE op = "&&" -> l.v * r.v = 1
                    [] op = "||" -> l.v + r.v > 0
                    [] OTHER -> Compare(op, l.v, r.v)).value
      [] l.kind = t.kind /\ r.kind = t.kind /\ t.kind # "bool" /\ op \in Comparisons ->
            Truth(Compare(op, l.v, r.v)).value
      [] l.kind = t.kind /\ r.kind = t.kind /\ t.kind # "bool" /\ op \in Arithmetic ->
            IF Exact(op, l.v, r.v, t) THEN [kind |-> t.kind, v |-> Compute(op, l.v, r.v, t.kind)]
            ELSE Undefined
      [] OTHER -> Undefined

RustUnary(op, operand, t) ==
    CASE op = "!" /\ operand.kind = "bool" -> [operand EXCEPT !.v = 1 - @]
      [] op = "!" /\ operand.kind = "signed" -> [operand EXCEPT !.v = -@ - 1]
      [] op = "!" /\ operand.kind = "unsigned" -> [operand EXCEPT !.v = 2^t.bits - 1 - @]
      [] op = "-" /\ operand.kind = "signed" /\ Fits(-operand.v, t) -> [operand EXCEPT !.v = -@]
      [] OTHER -> Undefined

Literal(n, t) ==
    IF t.kind # "bool" /\ Fits(n, t) THEN [kind |-> t.kind, v |-> n] ELSE Undefined

RustValue(id, tree, seen) ==
    LET t == Subjects[id].type
        Arg(n) == RustValue(id, tree.args[n], seen)
    IN CASE tree.op = "bool" -> IF t.kind = "bool" THEN [kind |-> "bool", v |-> tree.v]
                                ELSE Undefined
         [] tree.op = "int" -> Literal(tree.v, t)
         [] tree.op = "id" -> RustNamed(id, tree.s, seen)
         [] tree.op = "implicit" ->
               IF Previous(id) = None THEN Literal(0, t)
               ELSE LET before == RustValue(Previous(id), Item(Previous(id)).tree, seen)
                    IN IF before.kind = "undefined" THEN Undefined ELSE Literal(before.v + 1, t)
         [] tree.op = "unary" ->
               IF tree.s = "-" /\ tree.args[1].op = "int" /\ t.kind = "signed"
               THEN Literal(-tree.args[1].v, t)
               ELSE RustUnary(tree.s, Arg(1), t)
         [] tree.op = "binary" -> RustBinary(tree.s, Arg(1), Arg(2), t)

OfKind(kind, value) == IF value.kind = kind THEN value ELSE Undefined
Rust(id) == OfKind(Subjects[id].type.kind, RustValue(id, Item(id).tree, {id}))

Defined(id) ==
    IF Subjects[id].enum = None THEN Rust(id) # Undefined
    ELSE \A k \in Variants(Subjects[id].enum) : Rust(k) # Undefined

(* Whatever order the hashed identifiers put the candidates in, a declared *)
(* value is published exactly when Rust defines it (and every variant of   *)
(* its enum), and with Rust's value: a failure remembered for one          *)
(* candidate, a dependency met while it is being visited, precedence,      *)
(* association and intermediate overflow included.                         *)
PublishedIsRust ==
    phase = "done" /\ failure = None =>
        /\ DOMAIN graph.values = {id \in DOMAIN Subjects : Defined(id)}
        /\ \A id \in DOMAIN graph.values : graph.values[id] = Rust(id)

(* Every declared value that R16 looks at is accounted for once: evaluated *)
(* or under a gap of its own, an enum as a whole; and R5's gap goes away   *)
(* only where a value or a typed gap takes its place. The validator never  *)
(* refuses what the evaluator built.                                       *)
AccountedOnce ==
    phase = "done" /\ failure # "limit" =>
        /\ failure = None
        /\ \A id \in {k \in DOMAIN source.items : Eligible(Item(k))} :
              /\ (id \in DOMAIN graph.values) # (\E gap \in graph.gaps : gap[1] = id)
              /\ Cardinality({gap \in graph.gaps : gap[1] = id}) <= 1
        /\ \A e \in {k \in DOMAIN source.enums : source.enums[k].variants # <<>>} :
              /\ (Variants(e) \subseteq DOMAIN graph.values) # (<<e, "enum">> \in graph.gaps)
              /\ Variants(e) \subseteq DOMAIN graph.values
                    \/ Variants(e) \cap DOMAIN graph.values = {}
        /\ \A id \in graph.discharged :
              id \in DOMAIN graph.values \/ \E gap \in graph.gaps : gap[1] = id
=============================================================================
