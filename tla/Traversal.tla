------------------------------ MODULE Traversal ------------------------------
(***************************************************************************)
(* The traversal engine (traversal/executor.rs, traversal/command.rs): a   *)
(* command starts a cursor, applies steps to it and collects a result.     *)
(*                                                                         *)
(* A step is a record: action, label, arg (what the action needs) and the  *)
(* tests it carries, in the order in which apply_step applies them.  A     *)
(* cursor is a sequence of ids with duplicates.  Values are pairs of a kind*)
(* and a payload; numbers and strings are ordered by their payloads.       *)
(***************************************************************************)
EXTENDS GraphView, FiniteSets, TLC

CONSTANTS
    Starts,      \* where commands start
    Steps,       \* the steps commands are made of
    MaxSteps,    \* bound: steps of a command
    Collects,    \* what commands collect
    Bindings,    \* binding variables
    TextHolds    \* <<operator, string, pattern>>: which text operators hold

VARIABLES
    start,     \* where the running command started, or None
    taken,     \* the steps it has applied
    before,    \* ghost: the cursor before the last step
    cursor,    \* kind and ids
    result     \* what it has collected, or None

tvars == <<start, taken, before, cursor, result>>

None  == [kind |-> "none", ids |-> <<>>]
Error == [kind |-> "error", ids |-> <<>>]
NodeCursor(ids) == [kind |-> "nodes", ids |-> ids]
EdgeCursor(ids) == [kind |-> "edges", ids |-> ids]

------------------------------------------------------------------------------
\* Values.

Null == <<"null", 0>>

\* cmp_values: numbers and strings among themselves; other pairs do not compare.
Comparable(a, b) == a[1] = b[1] /\ a[1] \in {"number", "string"}
LessThan(a, b)   == Comparable(a, b) /\ a[2] < b[2]

\* cmp_option_values: a missing value comes first; values that do not compare are equal.
OrdersBefore(a, b) ==
    \/ a = Missing /\ b # Missing
    \/ a # Missing /\ b # Missing /\ LessThan(a, b)

\* node_properties and edge_properties of the items of a cursor.
PropsOf(kind, id) == IF kind = "nodes" THEN graph.props[id] ELSE graph.edgeProps[id]
Value(kind, id, path) == Resolve(path, PropsOf(kind, id))

------------------------------------------------------------------------------
\* Tests.

\* FilterValue::resolve
Expected(test, kind, id) ==
    CASE test.from = "literal"  -> test.value
      [] test.from = "property" -> Value(kind, id, test.value)
      [] test.from = "binding"  -> IF test.value \in DOMAIN Bindings THEN Bindings[test.value] ELSE Missing

\* eval_filter, for two values that are there.
Compares(op, a, e) ==
    CASE op = "Equals"              -> a = e
      [] op = "NotEquals"           -> a # e
      [] op = "GreaterThan"         -> LessThan(e, a)
      [] op = "LessThan"            -> LessThan(a, e)
      [] op = "GreaterThanOrEquals" -> Comparable(a, e) /\ ~ LessThan(a, e)
      [] op = "LessThanOrEquals"    -> Comparable(a, e) /\ ~ LessThan(e, a)
      [] OTHER                      -> a[1] = "string" /\ e[1] = "string" /\ <<op, a, e>> \in TextHolds

\* eval_filter_on_props: only IsNull holds of a value that is missing.
SimpleHolds(test, kind, id) ==
    LET a == Value(kind, id, test.path)
        e == Expected(test, kind, id)
    IN  CASE test.op = "Exists" -> a \notin {Missing, Null}
          [] test.op = "IsNull" -> a \in {Missing, Null}
          [] OTHER              -> a # Missing /\ e # Missing /\ Compares(test.op, a, e)

\* value_contains_string: strings anywhere inside a value.
RECURSIVE ContainsText(_, _)
ContainsText(v, pattern) ==
    \/ v[1] = "string" /\ <<"AnyKey", v, pattern>> \in TextHolds
    \/ v[1] = "object" /\ \E key \in DOMAIN v[2] : ContainsText(v[2][key], pattern)

\* eval_filter_expr, eval_compound, apply_custom_filter, apply_any_key_contains.
RECURSIVE Passes(_, _, _)
Passes(test, kind, id) ==
    CASE test.op = "And"    -> \A i \in DOMAIN test.of : Passes(test.of[i], kind, id)
      [] test.op = "Or"     -> \E i \in DOMAIN test.of : Passes(test.of[i], kind, id)
      [] test.op = "Not"    -> ~ Passes(test.of, kind, id)
      [] test.op = "Custom" -> id \in test.passed
      [] test.op = "AnyKey" -> \E key \in DOMAIN PropsOf(kind, id) : ContainsText(PropsOf(kind, id)[key], test.value)
      [] OTHER              -> SimpleHolds(test, kind, id)

\* apply_filter and its siblings, one after the other; only nodes take a custom filter.
Tested(c, tests) ==
    IF c.kind = "edges" /\ \E i \in DOMAIN tests : tests[i].op = "Custom" THEN Error
    ELSE [c EXCEPT !.ids = SelectSeq(@, LAMBDA id : \A i \in DOMAIN tests : Passes(tests[i], c.kind, id))]

------------------------------------------------------------------------------
\* Actions of steps.

FlatMap(ids, f) == FlattenSeq([i \in DOMAIN ids |-> f[ids[i]]])

BothEdges(n, l) == OutEdges(n, l) \o InEdges(n, l)

\* The label of a step to nodes is compared with the primary label alone.
Labelled(ids, l) == SelectSeq(ids, LAMBDA n : l = AnyLabel \/ NodeLabel(n) = l)

\* Dedup: the first of each id stays.
Deduped(ids) == FoldLeft(LAMBDA seen, id : IF Contains(seen, id) THEN seen ELSE Append(seen, id), <<>>, ids)

\* apply_order_by
Precedes(spec, kind, x, y) ==
    LET a == Value(kind, x, spec.key)
        b == Value(kind, y, spec.key)
    IN  IF spec.direction = "Asc" THEN OrdersBefore(a, b) ELSE OrdersBefore(b, a)

\* Mutant: a value goes before those equal to it.
InsertedMutant(sorted, x, spec, kind) ==
    InsertAt(sorted, SelectLastInSeq(sorted, LAMBDA y : Precedes(spec, kind, y, x)) + 1, x)

\* sort_by on a short slice: each item goes behind the last one that it does not precede.
Inserted(sorted, x, spec, kind) ==
    InsertAt(sorted, SelectLastInSeq(sorted, LAMBDA y : ~ Precedes(spec, kind, x, y)) + 1, x)

Ordered(c, spec) ==
    [c EXCEPT !.ids = FoldLeft(LAMBDA sorted, x : Inserted(sorted, x, spec, c.kind), <<>>, @)]

RECURSIVE Applied(_, _)

\* Mutant: what the last round reached is not added.
RepeatedMutant(c, depth, steps) ==
    LET Round(d) == FoldLeft(Applied, d, steps)
        rounds[k \in 0..depth] == IF k = 0 THEN c ELSE Round(rounds[k - 1])
    IN  NodeCursor(Deduped(FlattenSeq([k \in 1..depth |-> rounds[k - 1].ids])))

\* apply_repeat: rounds go on while they reach nodes; no node is ever taken off the
\* frontier.  A round that ends on edges, or reaches nothing, is the last; one that
\* fails makes the step fail.
Repeated(c, depth, steps) ==
    LET Round(d) == FoldLeft(Applied, d, steps)
        rounds[k \in 0..depth] ==
            IF k = 0 THEN c
            ELSE IF k > 1 /\ (rounds[k - 1].kind # "nodes" \/ rounds[k - 1].ids = <<>>) THEN rounds[k - 1]
            ELSE Round(rounds[k - 1])
        ends == {k \in 1..depth : rounds[k].kind # "nodes" \/ rounds[k].ids = <<>>}
        last == IF ends = {} THEN depth ELSE CHOOSE k \in ends : \A j \in ends : k <= j
        reached == {k \in 0..last : rounds[k].kind = "nodes"}
    IN  IF \E k \in 0..last : rounds[k] = Error THEN Error
        ELSE NodeCursor(Deduped(FlattenSeq([k \in 1..Cardinality(reached) |-> rounds[k - 1].ids])))

\* The action of a step.  Moves need the kind of cursor they start from; Repeat and
\* HasLabel need nodes.
Acted(c, s) ==
    LET ids == c.ids
        misplaced == \/ s.action \in {"OutEdges", "InEdges", "BothEdges", "HasLabel", "Repeat"} /\ c.kind # "nodes"
                     \/ s.action \in {"OutNodes", "InNodes", "BothNodes"} /\ c.kind # "edges"
    IN  IF misplaced THEN Error ELSE
        CASE s.action = "OutEdges"  -> EdgeCursor(FlatMap(ids, [n \in Nodes |-> OutEdges(n, s.label)]))
          [] s.action = "InEdges"   -> EdgeCursor(FlatMap(ids, [n \in Nodes |-> InEdges(n, s.label)]))
          [] s.action = "BothEdges" -> EdgeCursor(FlatMap(ids, [n \in Nodes |-> BothEdges(n, s.label)]))
          [] s.action = "OutNodes"  -> NodeCursor(Labelled([i \in DOMAIN ids |-> To(ids[i])], s.label))
          [] s.action = "InNodes"   -> NodeCursor(Labelled([i \in DOMAIN ids |-> From(ids[i])], s.label))
          [] s.action = "BothNodes" -> NodeCursor(Labelled(FlatMap(ids, [e \in Edges |-> <<To(e), From(e)>>]), s.label))
          [] s.action = "Filter"    -> c
          [] s.action = "HasLabel"  -> NodeCursor(SelectSeq(ids, LAMBDA n : \E l \in s.arg : Contains(graph.labels[n], l)))
          [] s.action = "Dedup"     -> [c EXCEPT !.ids = Deduped(@)]
          [] s.action = "Limit"     -> [c EXCEPT !.ids = SubSeq(@, 1, IF s.arg < Len(@) THEN s.arg ELSE Len(@))]
          [] s.action = "Skip"      -> [c EXCEPT !.ids = SubSeq(@, s.arg + 1, Len(@))]
          [] s.action = "OrderBy"   -> Ordered(c, s.arg)
          [] s.action = "Repeat"    -> Repeated(c, s.arg.depth, s.arg.steps)

\* apply_step
Applied(c, s) ==
    LET next == Acted(c, s) IN IF Error \in {c, next} THEN Error ELSE Tested(next, s.tests)

------------------------------------------------------------------------------
\* Collecting.

\* cursor_to_node_ids: edges stand for the nodes they lead to.
NodeIds(c) == IF c.kind = "nodes" THEN c.ids ELSE [i \in DOMAIN c.ids |-> To(c.ids[i])]

Numbers(ids, path) ==
    LET values == [i \in DOMAIN ids |-> Value("nodes", ids[i], path)]
    IN  SelectSeq(values, LAMBDA v : v # Missing /\ v[1] = "number")
Sum(ids, path) == FoldLeft(LAMBDA a, v : a + v[2], 0, Numbers(ids, path))

\* min_by keeps the first of two values that do not compare, max_by the last.
Present(ids, path) ==
    SelectSeq([i \in DOMAIN ids |-> Value("nodes", ids[i], path)], LAMBDA v : v # Missing)
MinOf(ids, path) ==
    FoldLeft(LAMBDA a, v : IF a = Missing \/ LessThan(v, a) THEN v ELSE a, Missing, Present(ids, path))
MaxOf(ids, path) ==
    FoldLeft(LAMBDA a, v : IF a = Missing \/ ~ LessThan(v, a) THEN v ELSE a, Missing, Present(ids, path))

\* compute_aggregates; Avg is the pair of the sum and the count of the numbers.
Aggregates(ids, path) ==
    [count |-> Len(ids), sum |-> Sum(ids, path), avg |-> <<Sum(ids, path), Len(Numbers(ids, path))>>,
     min |-> MinOf(ids, path), max |-> MaxOf(ids, path)]

\* value_to_group_key: the text of a value; a missing value reads "null".
GroupKey(v) == IF v = Missing THEN "null" ELSE IF v[1] = "null" THEN "null" ELSE ToString(v[2])

\* collect_group_by, by a property of the nodes.
Groups(ids, key, path) ==
    LET keyOf(n) == GroupKey(Value("nodes", n, key))
        members(k) == SelectSeq(ids, LAMBDA n : keyOf(n) = k)
    IN  [k \in {keyOf(n) : n \in ToSet(ids)} |-> Aggregates(members(k), path)]

\* pick_properties: no keys stand for all of them.
Picked(props, keys) ==
    [key \in {k \in DOMAIN props : keys = {} \/ k \in keys} |-> props[key]]

\* collect_nodes, collect_edges: nodes in place of edges are those the edges lead to, and
\* edges asked of a cursor of nodes are none.  collect_path gives each node as a path of one.
NodeRows(c, keys) == LET ids == NodeIds(c) IN [i \in DOMAIN ids |-> Picked(graph.props[ids[i]], keys)]
EdgeRows(c, keys) ==
    IF c.kind = "nodes" THEN <<>> ELSE [i \in DOMAIN c.ids |-> Picked(graph.edgeProps[c.ids[i]], keys)]

Collected(c, spec) ==
    CASE spec.type = "Count"     -> Len(c.ids)
      [] spec.type = "Exists"    -> c.ids # <<>>
      [] spec.type = "Nodes"     -> NodeRows(c, spec.keys)
      [] spec.type = "Edges"     -> EdgeRows(c, spec.keys)
      [] spec.type = "Path"      -> LET rows == NodeRows(c, spec.keys) IN [i \in DOMAIN rows |-> <<rows[i]>>]
      [] spec.type = "Aggregate" -> Aggregates(NodeIds(c), spec.path)
      [] spec.type = "GroupBy"   -> Groups(NodeIds(c), spec.key, spec.path)

------------------------------------------------------------------------------
\* Commands.

\* find_node: by the primary type; an index and a scan may find different nodes.
Found(s) == {n \in Nodes : NodeLabel(n) = s.label /\ Value("nodes", n, <<s.key>>) = s.value}

\* The cursors a command may start with.
FirstCursors(s) ==
    CASE s.type = "AllNodes" -> {NodeCursor(AllNodes(s.label))}
      [] s.type = "AllEdges" -> {EdgeCursor(AllEdges(s.label))}
      [] s.type = "Node"     -> IF Found(s) = {} THEN {Error} ELSE {NodeCursor(<<n>>) : n \in Found(s)}

TraversalInit ==
    /\ start = None /\ taken = <<>> /\ before = None /\ cursor = None /\ result = None

Begin(s) ==
    /\ start = None
    /\ start' = s
    /\ cursor' \in FirstCursors(s)
    /\ UNCHANGED <<taken, before, result>>

ApplyStep(s) ==
    /\ start # None /\ cursor # Error /\ result = None
    /\ Len(taken) < MaxSteps
    /\ taken' = Append(taken, s)
    /\ before' = cursor
    /\ cursor' = Applied(cursor, s)
    /\ UNCHANGED <<start, result>>

Collect(spec) ==
    /\ start # None /\ cursor # Error /\ result = None
    /\ result' = [spec |-> spec, value |-> spec.type :> Collected(cursor, spec)]
    /\ UNCHANGED <<start, taken, before, cursor>>

\* The command returns its result or its error.
Return ==
    /\ result # None \/ cursor = Error
    /\ start' = None /\ taken' = <<>> /\ before' = None /\ cursor' = None /\ result' = None

TraversalNext ==
    \/ \E s \in Starts : Begin(s)
    \/ \E s \in Steps : ApplyStep(s)
    \/ \E spec \in Collects : Collect(spec)
    \/ Return

------------------------------------------------------------------------------
\* Properties.

LastStep == taken[Len(taken)]
Applying == taken # <<>> /\ cursor # Error /\ result = None

\* The nodes within k rounds of the cursor, for rounds of one move out.
Within(round, k) ==
    LET hops(S) == {To(e) : e \in {d \in Edges : From(d) \in S /\ Carries(graph.types[d], round[1].label)}}
        ball[j \in 0..k] == IF j = 0 THEN ToSet(before.ids) ELSE ball[j - 1] \cup hops(ball[j - 1])
    IN  ball[k]

\* Repeat reaches the nodes within its depth and no other, each once and the nearer ones first,
\* although it steps on from nodes it has met before.
RepeatReaches ==
    (Applying /\ LastStep.action = "Repeat" /\ LastStep.tests = <<>>) =>
        LET round == LastStep.arg.steps
            depth == LastStep.arg.depth
            distance(n) == CHOOSE k \in 0..depth : n \in Within(round, k) /\ \A j \in 0..(k - 1) : n \notin Within(round, j)
        IN  /\ ToSet(cursor.ids) = Within(round, depth)
            /\ \A i, j \in DOMAIN cursor.ids : i < j =>
                  cursor.ids[i] # cursor.ids[j] /\ distance(cursor.ids[i]) <= distance(cursor.ids[j])

\* OrderBy loses and adds nothing; records with equal values keep their order.  Neighbours are
\* never the wrong way round, and where all values compare, no two records are.
OrderedStably ==
    (Applying /\ LastStep.action = "OrderBy" /\ LastStep.tests = <<>>) =>
        LET value(id) == Value(cursor.kind, id, LastStep.arg.key)
            late(i, j) == Precedes(LastStep.arg, cursor.kind, cursor.ids[j], cursor.ids[i])
            alike(ids, v) == SelectSeq(ids, LAMBDA id : value(id) = v)
            values == {value(id) : id \in ToSet(before.ids)} \ {Missing}
        IN  /\ \A id \in ToSet(before.ids) : alike(cursor.ids, value(id)) = alike(before.ids, value(id))
            /\ Len(cursor.ids) = Len(before.ids)
            /\ \A i \in 1..(Len(cursor.ids) - 1) : ~ late(i, i + 1)
            /\ (\A u, v \in values : u = v \/ Comparable(u, v)) =>
                  \A i, j \in DOMAIN cursor.ids : i < j => ~ late(i, j)

=============================================================================
