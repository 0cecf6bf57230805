----------------------------- MODULE LocalFlow -----------------------------
(***************************************************************************)
(* The R15 layer (lang-rust local_flow.rs, domain s4_r15.rs): the syntax   *)
(* basic blocks of a callable, the normal-flow edges between them, their   *)
(* reachability closure, and for every read the definitions that must or   *)
(* may reach it.  A callable outside the closed subset gets two coverage   *)
(* gaps and no fact; a contract error ends the scan.                       *)
(*                                                                         *)
(* A block is its ordinal, counted from 1; it is an entity <<"k", ord>>.   *)
(* An extraction e holds the tree t and the inherited k1 and r14 records.  *)
(***************************************************************************)
EXTENDS ExpressionBindings

CONSTANTS MaxNestedBranches,   \* MAX_R15_NESTED_BRANCH_DEPTH
          MaxBlocks,           \* MAX_R15_BLOCKS_PER_CALLABLE
          MaxFlowNodes         \* MAX_R15_FLOW_NODES_PER_BLOCK

Forbidden ==
    {"loop_expression", "while_expression", "for_expression",
     "match_expression", "break_expression", "continue_expression",
     "return_expression", "try_expression", "await_expression",
     "closure_expression", "function_item", "function_signature_item",
     "async_block", "unsafe_block", "const_block", "macro_invocation",
     "macro_definition", "let_condition", "let_expression", "label",
     "cfg_attribute_item"}
contains_forbidden(t, n) == Descends(t, n, Forbidden)

\* ExpressionLookup::new: an R14 gap whose subject is the callable or one of
\* its R14 entities makes the callable unsupported; a gap on an inherited
\* K1 fact is not looked up.
callable_has_unsupported_r14_coverage(r14) ==
    \E gap \in r14.coverage : gap[2][1] \in {"c", "e", "a", "b"}

expression_for_node(e, n) == n \in DOMAIN e.r14.expressions
accesses_in_span(e, n, kind) ==
    {<<r[2], r[3]>> : r \in {r \in Edges(e.r14, kind) : Inside(e.t, r[2][2], n)}}
bindings_in_pattern(e, p) == {b \in e.r14.bindings : Inside(e.t, b.node, p)}
control_for_node(e, n) ==
    n \in DOMAIN e.k1.facts /\ e.k1.facts[n].control = "if"

-----------------------------------------------------------------------------
(* The builder: blocks, direct edges and conditions, and how it ended.     *)

NewBuilder == [status |-> "complete", blocks |-> <<>>, edges |-> {}, conditions |-> {}]
Unsupported(b) == [status |-> "unsupported", builder |-> b, entry |-> 0, exits |-> {}]
Failed(b, why) == [Unsupported(b) EXCEPT !.status = why]
Fragment(b, entry, exits) ==
    [status |-> "complete", builder |-> b, entry |-> entry, exits |-> exits]

Step(from, to, nodes, reads, definitions, writes) ==
    [from |-> from, to |-> to, nodes |-> nodes, reads |-> reads,
     definitions |-> definitions, writes |-> writes]
NoStep == Step(0, 0, <<>>, {}, {}, {})

semantic_node(t, n) ==
    IF t[n].kind = "expression_statement" THEN named_children(t, n)[1] ELSE n

LetStep(e, n) ==
    LET value == child_by_field_name(e.t, n, "value")
        bound == bindings_in_pattern(e, child_by_field_name(e.t, n, "pattern"))
    IN  IF value = NoNode \/ Cardinality(bound) # 1 \/ ~expression_for_node(e, value)
        THEN NoStep
        ELSE LET b == <<"b", (CHOOSE b \in bound : TRUE).node>>
             IN  Step(n, e.t[n].last, <<b, <<"e", value>> >>,
                      accesses_in_span(e, value, "READS"), {b}, {})

ExpressionStep(e, n) ==
    LET writes == accesses_in_span(e, n, "WRITES")
        assignment == e.t[n].kind \in {"assignment_expression", "compound_assignment_expr"}
        direct == Kind(e.t, child_by_field_name(e.t, n, "left")) = "identifier"
    IN  IF \/ ~expression_for_node(e, n)
           \/ assignment /\ (~direct \/ Cardinality(writes) # 1)
           \/ ~assignment /\ writes # {}
        THEN NoStep
        ELSE Step(n, e.t[n].last, << <<"e", n>> >>,
                  accesses_in_span(e, n, "READS"), {}, writes)

plain_step(e, statement) ==
    IF e.t[statement].kind = "let_declaration" THEN LetStep(e, statement)
    ELSE ExpressionStep(e, semantic_node(e.t, statement))

\* A block spans its steps; its flow nodes are theirs, in order.
add_block(b, role, steps) ==
    [b EXCEPT
       !.status = IF Len(FlattenSeq([i \in DOMAIN steps |-> steps[i].nodes])) > MaxFlowNodes
                  THEN "limit" ELSE @,
       !.blocks = Append(@, [role  |-> role, from |-> Head(steps).from,
                             to    |-> Last(steps).to,
                             nodes |-> FlattenSeq([i \in DOMAIN steps |-> steps[i].nodes]),
                             steps |-> steps])]
connect_all(b, sources, target, kind) ==
    [b EXCEPT !.edges = @ \cup {<<kind, s, target>> : s \in sources}]

\* flush_steps: the pending steps of a sequence become its next block.
flush_steps(acc) ==
    IF acc.pending = <<>> THEN acc
    ELSE LET b == add_block(acc.builder, acc.role, acc.pending)
             id == Len(b.blocks)
         IN  [acc EXCEPT !.builder = connect_all(b, acc.exits, id, "SYNTAX_NEXT"),
                         !.status = b.status,
                         !.entry = IF @ = 0 THEN id ELSE @,
                         !.exits = {id}, !.pending = <<>>]

\* The fragment f of an `if`, after what the sequence has so far.
Joined(acc, f) ==
    [acc EXCEPT !.status = f.status,
                !.builder = connect_all(f.builder, acc.exits, f.entry, "SYNTAX_NEXT"),
                !.entry = IF @ = 0 THEN f.entry ELSE @,
                !.exits = f.exits, !.role = "join"]
Sequence(done) ==
    [status |-> IF done.status = "complete" /\ done.entry = 0
                THEN "unsupported" ELSE done.status,
     builder |-> done.builder, entry |-> done.entry, exits |-> done.exits]

RECURSIVE compile_if(_, _, _, _), compile_sequence(_, _, _, _, _), compile_else(_, _, _, _, _)
compile_sequence(e, builder, nodes, role, depth) ==
    LET start == [status |-> "complete", builder |-> builder, pending |-> <<>>,
                  entry |-> 0, exits |-> {}, role |-> role]
        branch(acc, n) ==
          LET flushed == flush_steps(acc)
          IN  IF flushed.status # "complete" THEN flushed
              ELSE Joined(flushed, compile_if(e, flushed.builder, n, depth))
        plain(acc, n) ==
          LET step == plain_step(e, n)
          IN  IF step = NoStep THEN [acc EXCEPT !.status = "unsupported"]
              ELSE [acc EXCEPT !.pending = Append(@, step)]
        one(acc, n) ==
          LET s == semantic_node(e.t, n) IN
          CASE acc.status # "complete" -> acc
            [] acc.status = "complete" /\ e.t[s].kind = "if_expression" -> branch(acc, s)
            [] OTHER -> plain(acc, n)
        finished(acc) == IF acc.status = "complete" THEN flush_steps(acc) ELSE acc
    IN  Sequence(finished(FoldLeft(one, start, nodes)))

\* Both branches after the condition block id.
Branches(id, then, else) ==
    IF else.status # "complete" THEN else
    ELSE Fragment(connect_all(connect_all(else.builder, {id}, then.entry, "SYNTAX_TRUE_BRANCH"),
                              {id}, else.entry, "SYNTAX_FALSE_BRANCH"),
                  id, then.exits \cup else.exits)
compile_else(e, id, then, alternative, depth) ==
    IF then.status # "complete" THEN then
    ELSE Branches(id, then,
           IF Kind(e.t, alternative) = "if_expression"
           THEN compile_if(e, then.builder, alternative, depth)
           ELSE compile_sequence(e, then.builder, named_children(e.t, alternative), "else_branch", depth))

compile_if(e, builder, n, depth) ==
    LET t == e.t
        condition == child_by_field_name(t, n, "condition")
        consequence == child_by_field_name(t, n, "consequence")
        clause == child_by_field_name(t, n, "alternative")
        alternative == IF Kind(t, clause) = "else_clause"
                       THEN named_children(t, clause)[1] ELSE clause
        step == Step(condition, t[condition].last, << <<"f", n>>, <<"e", condition>> >>,
                     accesses_in_span(e, condition, "READS"), {}, {})
        conditional == [add_block(builder, "condition", <<step>>) EXCEPT
                          !.conditions = @ \cup {<< <<"f", n>>, <<"e", condition>> >>}]
        id == Len(conditional.blocks)
    IN  CASE depth + 1 > MaxNestedBranches -> Failed(builder, "limit")
          [] depth + 1 <= MaxNestedBranches /\
               (\/ condition = NoNode \/ clause = NoNode
                \/ t[condition].kind \in LetConditions
                \/ ~expression_for_node(e, condition)) -> Unsupported(builder)
          [] OTHER ->
               IF ~control_for_node(e, n) THEN Failed(builder, "access")
               ELSE IF conditional.status # "complete" THEN Failed(builder, conditional.status)
               ELSE compile_else(e, id,
                      compile_sequence(e, conditional, named_children(t, consequence),
                                       "then_branch", depth + 1), alternative, depth + 1)

compile_body(e) ==
    LET nodes == named_children(e.t, Body(e.t))
    IN  IF nodes = <<>> \/ contains_forbidden(e.t, Body(e.t))
        THEN Unsupported(NewBuilder)
        ELSE compile_sequence(e, NewBuilder, nodes, "entry", 0)

-----------------------------------------------------------------------------
(* Reachability, slices and lexical flow. *)

Ordinals(b) == DOMAIN b.blocks
Direct(b) == {<<x[2], x[3]>> : x \in b.edges}

\* add_reachability: the blocks a breadth-first search finds from each block.
RECURSIVE reachable_from(_, _, _)
reachable_from(direct, frontier, seen) ==
    LET found == {x[2] : x \in {x \in direct : x[1] \in frontier}} \ seen
    IN  IF found = {} THEN seen ELSE reachable_from(direct, found, seen \cup found)
Reaches(b) ==
    UNION {{<<k, j>> : j \in reachable_from(Direct(b), {k}, {})} : k \in Ordinals(b)}
predecessors(b, k) == {x[1] : x \in {x \in Direct(b) : x[2] = k}}
ancestors(reaches, k) == {k} \cup {x[1] : x \in {x \in reaches : x[2] = k}}

\* path_slice: the blocks on the paths from one block to another.
path_slice(reaches, from, to) ==
    {from, to} \cup {x[2] : x \in {x \in reaches : x[1] = from /\ x[2] \in ancestors(reaches, to)}}

NoDefinitions == <<>>          \* the empty function: no binding is defined
Defines(state, binding, definition) ==
    [x \in DOMAIN state \cup {binding} |->
        IF x = binding THEN [may |-> {definition}, must |-> {definition}] ELSE state[x]]

\* @mutant: a definition must reach a join when some branch brings it.
MergesMust(states) ==
    [x \in UNION {DOMAIN s : s \in states} |->
        LET here == {s \in states : x \in DOMAIN s}
        IN  [may  |-> UNION {s[x].may : s \in here}, must |-> UNION {s[x].must : s \in here}]]
merge_states(states) ==
    [x \in UNION {DOMAIN s : s \in states} |->
        LET here == {s \in states : x \in DOMAIN s}
            may == UNION {s[x].may : s \in here}
        IN  [may  |-> may,
             must |-> IF here # states THEN {}
                      ELSE {d \in may : \A s \in states : d \in s[x].must}]]

\* One step of a block: its reads observe, then its definition, then its write.
Execute(acc, step, block) ==
    LET broken == \/ \E r \in step.reads : r[2] \notin DOMAIN acc.state
                  \/ \E w \in step.writes : w[2] \notin DOMAIN acc.state
        observed == {[read |-> r[1], binding |-> r[2], block |-> block,
                      may |-> acc.state[r[2]].may, must |-> acc.state[r[2]].must] :
                       r \in step.reads}
        define(a, d, binding, lineage) ==
          [a EXCEPT !.state = Defines(@, binding, d),
                    !.lineage = [x \in DOMAIN @ \cup {d} |-> IF x = d THEN lineage ELSE @[x]],
                    !.blocks = [x \in DOMAIN @ \cup {d} |-> IF x = d THEN block ELSE @[x]]]
        defined(a) == FoldLeft(LAMBDA c, d : define(c, d, d, {d}), a, SetToSeq(step.definitions))
        written(a) ==
          FoldLeft(LAMBDA c, w : define(c, w[1], w[2],
                     {w[1]} \cup UNION {c.lineage[d] : d \in c.state[w[2]].may}),
                   a, SetToSeq(step.writes))
    IN  IF acc.error \/ broken THEN [acc EXCEPT !.error = TRUE]
        ELSE written(defined([acc EXCEPT !.observations = @ \cup observed]))

\* add_lexical_flow: the blocks in ordinal order, joining their predecessors.
FlowOf(b, parameters) ==
    LET initial == [p \in parameters |-> [may |-> {p}, must |-> {p}]]
        start == [error |-> FALSE, outputs |-> <<>>, observations |-> {},
                  lineage |-> [p \in parameters |-> {p}], blocks |-> <<>>,
                  state |-> NoDefinitions]
        block(acc, k) ==
          LET entry == IF predecessors(b, k) = {} THEN initial
                       ELSE merge_states({acc.outputs[j] : j \in predecessors(b, k)})
              run == FoldLeft(LAMBDA a, s : Execute(a, s, k),
                              [acc EXCEPT !.state = entry], b.blocks[k].steps)
          IN  IF \E j \in predecessors(b, k) : j >= k THEN [acc EXCEPT !.error = TRUE]
              ELSE [run EXCEPT !.outputs = Append(@, run.state)]
    IN  FoldLeft(LAMBDA acc, k : IF acc.error THEN acc ELSE block(acc, k), start,
                 [k \in DOMAIN b.blocks |-> k])

\* Where the derivation of a read starts: the block of its only definition,
\* the last common ancestor of several, the block of the read for parameters.
lexical_slice_start(flow, reaches, o) ==
    LET blocks == {flow.blocks[d] : d \in o.may \cap DOMAIN flow.blocks}
        common == {k \in UNION {ancestors(reaches, j) : j \in blocks} :
                     \A j \in blocks : k \in ancestors(reaches, j)}
    IN  CASE blocks = {} -> o.block
          [] Cardinality(blocks) = 1 -> CHOOSE j \in blocks : TRUE
          [] OTHER -> IF common = {} THEN o.block
                      ELSE CHOOSE k \in common : \A j \in common : j <= k

LexicalEdges(flow) ==
    UNION {{<<"LEXICAL_MUST_REACHES_READ", d, o.read>> : d \in o.must}
           \cup {<<"LEXICAL_MAY_REACHES_READ", d, o.read>> : d \in o.may \ o.must} :
             o \in flow.observations}

Blocks(set) == {<<"k", k>> : k \in set}
BlockEdges(b) == {<<x[1], <<"k", x[2]>>, <<"k", x[3]>> >> : x \in b.edges}
Membership(b) ==
    {<<"HAS_SYNTAX_BLOCK", <<"c", Callable>>, <<"k", k>> >> : k \in Ordinals(b)}
    \cup UNION {{<<"CONTAINS_FLOW_NODE", <<"k", k>>, b.blocks[k].nodes[i]>> :
                   i \in DOMAIN b.blocks[k].nodes} : k \in Ordinals(b)}
    \cup {<<"HAS_CONDITION", c[1], c[2]>> : c \in b.conditions}

\* Every derived relationship names the entities and relationships it is
\* derived from.
SliceEdges(b, slice) ==
    {x \in BlockEdges(b) : x[2][2] \in slice /\ x[3][2] \in slice}
SyntaxDerivations(b, reaches) ==
    {LET slice == path_slice(reaches, p[1], p[2])
     IN  [of |-> <<"SYNTAX_REACHES", <<"k", p[1]>>, <<"k", p[2]>> >>,
          entities |-> Blocks(slice), relationships |-> SliceEdges(b, slice)] : p \in reaches}
LexicalDerivations(e, b, reaches, flow) ==
    LET writesOf(ds) == {r \in Edges(e.r14, "WRITES") : r[2] \in ds /\ r[2] \in DOMAIN flow.blocks}
        holds(d) == {x \in Membership(b) : x[1] = "CONTAINS_FLOW_NODE" /\ x[3] = d}
        derive(o) ==
          LET from == lexical_slice_start(flow, reaches, o)
              slice == IF from = o.block THEN {from} ELSE path_slice(reaches, from, o.block)
              inherited == IF writesOf(o.may) # {} THEN writesOf(o.may)
                           ELSE UNION {holds(d) : d \in o.may \cup {o.read}}
          IN  [entities |-> Blocks(slice) \cup {o.read} \cup UNION {flow.lineage[d] : d \in o.may},
               relationships |-> (IF from = o.block THEN {} ELSE SliceEdges(b, slice))
                                 \cup {<<"READS", o.read, o.binding>>} \cup inherited]
    IN  UNION {{[of |-> x, entities |-> derive(o).entities,
                 relationships |-> derive(o).relationships] :
                  x \in {x \in LexicalEdges(flow) : x[3] = o.read}} : o \in flow.observations}

FLOW_GAPS == {"rust.lexical_reaching_definitions_not_analyzed",
              "rust.syntax_normal_flow_not_analyzed"}
NoFlow == [blocks |-> <<>>, relationships |-> {}, derivations |-> {}, gaps |-> {},
           completed |-> FALSE]

\* extract_local_flow for one callable: an error, two gaps, or the facts.
FlowFacts(e, b, reaches, flow) ==
    IF flow.error THEN [error |-> "access", flow |-> NoFlow]
    ELSE [error |-> "none",
          flow |-> [blocks |-> b.blocks,
                    relationships |->
                      Membership(b) \cup BlockEdges(b) \cup LexicalEdges(flow) \cup
                      {<<"SYNTAX_REACHES", <<"k", p[1]>>, <<"k", p[2]>> >> : p \in reaches},
                    derivations |-> SyntaxDerivations(b, reaches)
                                    \cup LexicalDerivations(e, b, reaches, flow),
                    gaps |-> {}, completed |-> TRUE]]
FlowOfFragment(e, fragment) ==
    LET b == fragment.builder
        parameters == {<<"b", x.node>> : x \in {x \in e.r14.bindings : x.origin = "parameter"}}
    IN  CASE fragment.status \in {"limit", "access"} -> [error |-> fragment.status, flow |-> NoFlow]
          [] fragment.status = "unsupported" ->
               [error |-> "none", flow |-> [NoFlow EXCEPT !.gaps = FLOW_GAPS]]
          [] OTHER -> IF Len(b.blocks) > MaxBlocks THEN [error |-> "limit", flow |-> NoFlow]
                      ELSE FlowFacts(e, b, Reaches(b), FlowOf(b, parameters))
extract_flow(e) ==
    FlowOfFragment(e, IF callable_has_unsupported_r14_coverage(e.r14)
                      THEN Unsupported(NewBuilder) ELSE compile_body(e))
=============================================================================
