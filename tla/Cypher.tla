-------------------------------- MODULE Cypher --------------------------------
(***************************************************************************)
(* Cypher queries (cypher/executor.rs): MATCH gathers rows, the updating   *)
(* clauses turn them into calls of db.rs one after another, RETURN         *)
(* projects them.  A query is no transaction: when a call fails, what the  *)
(* calls before it did stays.                                              *)
(*                                                                         *)
(* Every record has one property.  A row maps variables to what MATCH read *)
(* of their records.  Ids of deleted records are given out again; serial   *)
(* numbers, which the code does not have, tell such records apart.         *)
(***************************************************************************)
EXTENDS Integers, Sequences, SequencesExt, FiniteSets

CONSTANTS
    Databases,       \* what queries are run on
    Queries,         \* match, where and clauses
    MaxQueries,      \* bound: queries one after another
    MaxRecords,      \* bound: nodes, and edges
    NodeTypes,       \* names of node types that the schema knows
    EndTypes,        \* edge type -> labels its two ends must have, or AnyLabel
    UniqueType       \* the node type whose value is unique

ASSUME CypherAssumption ==
    /\ MaxQueries \in Nat /\ MaxRecords \in Nat
    /\ \A type \in DOMAIN EndTypes : Len(EndTypes[type]) = 2

VARIABLES
    db,        \* the nodes and edges in use, by id; ghost: the next serial number
    query,     \* the query that runs, how it stands, and how many ran before
    rows,      \* what MATCH found
    bindings,  \* variable -> kind and id
    todo,      \* the calls still to make
    ends,      \* the last two nodes of the path that CREATE is at
    returned,  \* the rows of RETURN
    begun      \* ghost: the database when the query began

yvars == <<db, query, rows, bindings, todo, ends, returned, begun>>

Unlabelled == ""
NoVar    == ""
NullValue     == -1
Absent  == -2
AnyValue == -3

Values == Nat \cup {NullValue, Absent}

------------------------------------------------------------------------------
\* Patterns.

\* values_eq on a property that is there.
PropsMatch(actual, expected) == expected = AnyValue \/ (actual # Absent /\ actual = expected)

\* list_nodes: a name the schema does not know is no filter.
Candidates(l) ==
    {n \in DOMAIN db.node : l \in NodeTypes => l \in Range(db.node[n].labels)}

Fits(n, pattern) == PropsMatch(db.node[n].value, pattern.value)

Bound(kind, id) ==
    LET r == IF kind = "node" THEN db.node[id] ELSE db.edge[id]
    IN  [kind |-> kind, id |-> id, serial |-> r.serial, value |-> r.value]

Entry(var, kind, id) == IF var = NoVar THEN <<>> ELSE [x \in {var} |-> Bound(kind, id)]

\* A row is extended: a variable takes its later entry, but a property that only the earlier
\* record has stays.
Over(row, later) ==
    [x \in DOMAIN row \cup DOMAIN later |->
        IF x \notin DOMAIN later THEN row[x]
        ELSE IF x \in DOMAIN row /\ later[x].value = Absent THEN [later[x] EXCEPT !.value = row[x].value]
        ELSE later[x]]

\* eval_bool: a comparison with something that the row does not have does not hold.
Holds(where, row) ==
    where.var = NoVar \/ (where.var \in DOMAIN row /\ row[where.var].value = where.value)

\* list_out_neighbors, list_in_neighbors: edges of the primary type.
HopSteps(n, hop) ==
    {s \in [edge : DOMAIN db.edge, node : DOMAIN db.node] :
        LET e == db.edge[s.edge]
        IN  /\ hop.type \in {Unlabelled, e.type}
            /\ \/ hop.direction # "Left" /\ e.from = n /\ e.to = s.node
               \/ hop.direction \in {"Left", "Both"} /\ e.to = n /\ e.from = s.node
            /\ hop.end.label = Unlabelled \/ hop.end.label \in Range(db.node[s.node].labels)
            /\ Fits(s.node, hop.end)}

\* Where the hops of a path lead from a node: the last edge and its far end.
RECURSIVE Reached(_, _)
Reached(n, hops) ==
    IF Len(hops) = 1 THEN HopSteps(n, Head(hops))
    ELSE UNION {Reached(s.node, Tail(hops)) : s \in HopSteps(n, Head(hops))}

\* The rows of a path before WHERE: its first node, its last edge and its last node.  Of the
\* nodes in between nothing is kept, and one variable at both ends takes the last.
PathRows(part) ==
    LET hop == Last(part.hops)
    IN  {Over(Over(Entry(part.start.var, "node", n), Entry(hop.end.var, "node", s.node)), Entry(hop.var, "edge", s.edge)) :
            <<n, s>> \in UNION {{n} \X Reached(n, part.hops) :
                n \in {m \in Candidates(part.start.label) : Fits(m, part.start)}}}

SingleRows(part) ==
    {Entry(part.start.var, "node", n) : n \in {m \in Candidates(part.start.label) : Fits(m, part.start)}}

\* execute_match: every part filters by the whole of WHERE, with its own variables alone.
PartRows(part, where) ==
    {row \in (IF part.hops = <<>> THEN SingleRows(part) ELSE PathRows(part)) : Holds(where, row)}
MatchRows(q) ==
    FoldLeft(LAMBDA joined, part : {Over(a, b) : a \in joined, b \in PartRows(part, q.where)}, {<<>>}, q.match)

\* What the variables stay bound to: the last row of a part, and for a path the last candidate,
\* whether WHERE took it or not.  The order of the scans is left open.
BindingRows(part, where) == IF part.hops = <<>> THEN PartRows(part, where) ELSE PathRows(part)
MatchBindings(q) ==
    FoldLeft(LAMBDA bound, part :
                 IF BindingRows(part, q.where) = {} THEN bound
                 ELSE {Over(a, b) : a \in bound, b \in BindingRows(part, q.where)},
             {<<>>}, q.match)

\* collect_match_variables
Variables(q) ==
    UNION {{part.start.var} \cup UNION {{part.hops[k].var, part.hops[k].end.var} : k \in DOMAIN part.hops} :
              part \in Range(q.match)} \ {NoVar}

------------------------------------------------------------------------------
\* RETURN.

NoLimit  == -1
NoReturn == [items |-> <<>>, order |-> <<>>, skip |-> 0, limit |-> NoLimit, distinct |-> FALSE]

\* project_row: of two items with one key the later counts.
Projection(ret, row) ==
    [k \in {i.key : i \in Range(ret.items)} |->
        LET x == ret.items[SelectLastInSeq(ret.items, LAMBDA i : i.key = k)].var
        IN  IF x \in DOMAIN row /\ row[x].value # Absent THEN row[x].value ELSE NullValue]

\* compare_values: null is equal to everything.  A key that is not returned reads as null.
Column(row, key) == IF key \in DOMAIN row THEN row[key] ELSE NullValue
RowBefore(spec, a, b) ==
    LET x == Column(a, spec.key)
        y == Column(b, spec.key)
    IN  NullValue \notin {x, y} /\ (IF spec.descending THEN y < x ELSE x < y)

\* sort_by on a short slice
SortedBy(spec, list) ==
    FoldLeft(LAMBDA sorted, r :
                 InsertAt(sorted, SelectLastInSeq(sorted, LAMBDA s : ~ RowBefore(spec, r, s)) + 1, r), <<>>, list)

\* Mutant: the first key is sorted by first.
InOrderMutant(order, list) == FoldLeft(LAMBDA l, spec : SortedBy(spec, l), list, order)

\* The last key first: the sort by a key keeps what the keys behind it have put in order.
InOrder(order, list) == FoldRight(SortedBy, order, list)

\* project_return: DISTINCT looks at the rows that SKIP and LIMIT leave.
Returned(ret, list) ==
    LET all  == InOrder(ret.order, [k \in DOMAIN list |-> Projection(ret, list[k])])
        rest == SubSeq(all, ret.skip + 1, Len(all))
        page == IF ret.limit \in 0..Len(rest) THEN SubSeq(rest, 1, ret.limit) ELSE rest
    IN  IF ret.distinct
        THEN FoldLeft(LAMBDA seen, r : IF r \in Range(seen) THEN seen ELSE Append(seen, r), <<>>, page)
        ELSE page

------------------------------------------------------------------------------
\* Calls of db.rs.

LeastFree(used) == CHOOSE n \in 1..MaxRecords : n \notin used /\ \A m \in 1..(n - 1) : m \in used
HasFree(used) == 1..MaxRecords \ used # {}

\* check_unique
Clashes(type, value, but) ==
    /\ type = UniqueType /\ value \notin {NullValue, Absent}
    /\ \E n \in DOMAIN db.node \ {but} : Head(db.node[n].labels) = type /\ db.node[n].value = value

With(f, x, y) == [z \in DOMAIN f \cup {x} |-> IF z = x THEN y ELSE f[z]]

\* insert_node_by_name: what it leaves if it succeeds.
NewNode == LeastFree(DOMAIN db.node)
MayInsert(pattern) == pattern.label \in NodeTypes /\ ~ Clashes(pattern.label, pattern.value, 0)
Stored(value) == IF value = AnyValue THEN Absent ELSE value
WithNode(pattern) ==
    [db EXCEPT !.node = With(@, NewNode,
                    [serial |-> db.serial, labels |-> <<pattern.label>>, value |-> Stored(pattern.value)]),
               !.serial = @ + 1]

\* insert_edge_by_name
MayJoin(type, from, to) ==
    /\ {from, to} \subseteq DOMAIN db.node /\ type \in DOMAIN EndTypes
    /\ EndTypes[type][1] \in {Unlabelled, Head(db.node[from].labels)}
    /\ EndTypes[type][2] \in {Unlabelled, Head(db.node[to].labels)}
WithEdge(type, from, to) ==
    [db EXCEPT !.edge = With(@, LeastFree(DOMAIN db.edge),
                    [serial |-> db.serial, type |-> type, from |-> from, to |-> to, value |-> Absent]),
               !.serial = @ + 1]

InUse(b) == b.id \in (IF b.kind = "node" THEN DOMAIN db.node ELSE DOMAIN db.edge)

MayUpdate(b, value) ==
    /\ InUse(b)
    /\ b.kind = "node" => ~ Clashes(Head(db.node[b.id].labels), value, b.id)
Updated(b, value) ==
    IF b.kind = "node" THEN [db EXCEPT !.node[b.id].value = value] ELSE [db EXCEPT !.edge[b.id].value = value]

\* delete_node takes the edges of the node along.
Deleted(b) ==
    IF b.kind = "edge" THEN [db EXCEPT !.edge = Restrict(@, DOMAIN @ \ {b.id})]
    ELSE [db EXCEPT !.node = Restrict(@, DOMAIN @ \ {b.id}),
                    !.edge = Restrict(@, {e \in DOMAIN @ : b.id \notin {@[e].from, @[e].to}})]

------------------------------------------------------------------------------
\* The run of a query.

NoTodo == [clauses |-> <<>>, clause |-> [kind |-> "none", items |-> <<>>], rows |-> {}, row |-> <<>>, items |-> <<>>]
NoEnds == <<0, 0>>

Running == query.phase = "run"
Updates(clause) == clause.kind \in {"set", "remove", "delete"}
Creates(clause) == clause.kind \in {"create", "merge"}

Some(clauses, P(_)) == \E k \in DOMAIN clauses : P(clauses[k])

\* Mutant: clauses that update and clauses that create may be mixed.
PreflightMutant(q) == Some(q.clauses, Updates) => q.match # <<>>

\* The checks before any clause is run.
Preflight(q) ==
    Some(q.clauses, Updates) => q.match # <<>> /\ ~ Some(q.clauses, Creates)

\* execute_single_part, up to its clauses.
StartQuery(q) ==
    /\ ~ Running /\ query.count < MaxQueries
    /\ query' = [q |-> q, phase |-> IF Preflight(q) THEN "run" ELSE "error", count |-> query.count + 1]
    /\ rows' = IF q.match = <<>> THEN {} ELSE MatchRows(q)
    /\ bindings' \in MatchBindings(q)
    /\ todo' = IF Preflight(q) THEN [NoTodo EXCEPT !.clauses = q.clauses] ELSE NoTodo
    /\ ends' = NoEnds /\ returned' = <<>> /\ begun' = db
    /\ UNCHANGED db

\* An error ends the query; nothing is taken back.
Fail ==
    /\ query' = [query EXCEPT !.phase = "error"]
    /\ todo' = NoTodo
    /\ UNCHANGED <<db, rows, bindings, ends, returned, begun>>

\* check_target_bound
TargetsBound(clause) == \A k \in DOMAIN clause.items : clause.items[k].target \in Variables(query.q)

ClauseDone == todo.items = <<>> /\ todo.rows = {}

EnterClause ==
    /\ Running /\ ClauseDone /\ todo.clauses # <<>>
    /\ LET clause == Head(todo.clauses)
       IN  \/ /\ Updates(clause) => TargetsBound(clause)
              /\ todo' = [clauses |-> Tail(todo.clauses), clause |-> clause, row |-> <<>>,
                          rows |-> IF Updates(clause) THEN rows ELSE {},
                          items |-> IF Updates(clause) THEN <<>> ELSE clause.items]
              /\ UNCHANGED <<db, query, rows, bindings, ends, returned, begun>>
           \/ Updates(clause) /\ ~ TargetsBound(clause) /\ Fail

\* The rows of an updating clause, in the order of the scans.
NextRow ==
    /\ Running /\ todo.items = <<>>
    /\ \E row \in todo.rows :
        todo' = [todo EXCEPT !.rows = @ \ {row}, !.row = row, !.items = todo.clause.items]
    /\ UNCHANGED <<db, query, rows, bindings, ends, returned, begun>>

\* RETURN projects what MATCH read, also behind clauses that changed it.
EndQuery ==
    /\ Running /\ ClauseDone /\ todo.clauses = <<>>
    /\ query' = [query EXCEPT !.phase = "ok"]
    /\ todo' = NoTodo
    /\ \E list \in (IF query.q.ret = NoReturn THEN {<<>>} ELSE SetToSeqs(rows)) :
        returned' = Returned(query.q.ret, list)
    /\ UNCHANGED <<db, rows, bindings, ends, begun>>

Item == Head(todo.items)
Turn(kind) == Running /\ todo.items # <<>> /\ todo.clause.kind = kind
ItemDone == todo' = [todo EXCEPT !.items = Tail(@)]

\* A row may lack a variable of MATCH: a node in the middle of a path.
TargetRecord == todo.row[Item.target]
HasTarget == Item.target \in DOMAIN todo.row /\ Item.target \in DOMAIN bindings

\* Mutant: values are read from the database as it is when the row is reached.
EvaluatedMutant(item, row) ==
    IF item.from = NoVar THEN item.plus
    ELSE IF item.from \notin DOMAIN row THEN NullValue
    ELSE LET b == row[item.from]
             v == IF ~ InUse(b) THEN NullValue ELSE IF b.kind = "node" THEN db.node[b.id].value ELSE db.edge[b.id].value
         IN  IF v >= 0 THEN v + item.plus ELSE NullValue

\* eval_expr over the row: a sum with something that is no number is null.
Evaluated(item, row) ==
    IF item.from = NoVar THEN item.plus
    ELSE IF item.from \in DOMAIN row /\ row[item.from].value >= 0 THEN row[item.from].value + item.plus
    ELSE NullValue

Update(value) ==
    \/ HasTarget /\ MayUpdate(TargetRecord, value) /\ db' = Updated(TargetRecord, value) /\ ItemDone
       /\ UNCHANGED <<query, rows, bindings, ends, returned, begun>>
    \/ HasTarget /\ ~ MayUpdate(TargetRecord, value) /\ Fail
    \/ ~ HasTarget /\ ItemDone /\ UNCHANGED <<db, query, rows, bindings, ends, returned, begun>>

SetItem    == Turn("set") /\ Update(Evaluated(Item, todo.row))
RemoveItem == Turn("remove") /\ Update(Absent)

\* Mutant: a row whose record went with an earlier row is an error.
DeletedOnceMutant(b) == TRUE

\* A record that is gone, by an earlier row or with a node, is passed over.
DeletedOnce(b) == InUse(b)

DeleteItem ==
    /\ Turn("delete")
    /\ \/ HasTarget /\ DeletedOnce(TargetRecord) /\ InUse(TargetRecord) /\ db' = Deleted(TargetRecord) /\ ItemDone
          /\ UNCHANGED <<query, rows, bindings, ends, returned, begun>>
       \/ HasTarget /\ DeletedOnce(TargetRecord) /\ ~ InUse(TargetRecord) /\ Fail
       \/ ~ (HasTarget /\ DeletedOnce(TargetRecord)) /\ ItemDone
          /\ UNCHANGED <<db, query, rows, bindings, ends, returned, begun>>

\* Bound: room for a node.
Insert(pattern) ==
    /\ HasFree(DOMAIN db.node)
    /\ \/ /\ MayInsert(pattern)
          /\ db' = WithNode(pattern)
          /\ bindings' = IF pattern.var = NoVar THEN bindings
                         ELSE With(bindings, pattern.var, [kind |-> "node", id |-> NewNode, serial |-> db.serial, value |-> Stored(pattern.value)])
          /\ ends' = <<ends[2], NewNode>> /\ ItemDone
          /\ UNCHANGED <<query, rows, returned, begun>>
       \/ ~ MayInsert(pattern) /\ Fail

IsNodeBound(var) == var \in DOMAIN bindings /\ bindings[var].kind = "node"

\* A pattern of one node is always inserted; a node of a path only if its variable has none.
CreateNode ==
    /\ Turn("create") /\ Item.kind \in {"node", "end"}
    /\ \/ /\ Item.kind = "end" /\ IsNodeBound(Item.pattern.var)
          /\ ends' = <<ends[2], bindings[Item.pattern.var].id>> /\ ItemDone
          /\ UNCHANGED <<db, query, rows, bindings, returned, begun>>
       \/ ~ (Item.kind = "end" /\ IsNodeBound(Item.pattern.var)) /\ Insert(Item.pattern)

\* Bound: room for an edge.
CreateEdge ==
    /\ Turn("create") /\ Item.kind = "edge" /\ HasFree(DOMAIN db.edge)
    /\ LET from == IF Item.direction = "Left" THEN ends[2] ELSE ends[1]
           to   == IF Item.direction = "Left" THEN ends[1] ELSE ends[2]
       IN  \/ /\ MayJoin(Item.type, from, to)
              /\ db' = WithEdge(Item.type, from, to) /\ ItemDone
              /\ UNCHANGED <<query, rows, bindings, ends, returned, begun>>
           \/ ~ MayJoin(Item.type, from, to) /\ Fail

\* Mutant: only nodes whose first label it is are looked at.
ExistingMutant(pattern) == {n \in DOMAIN db.node : Head(db.node[n].labels) = pattern.label /\ Fits(n, pattern)}

Existing(pattern) == {n \in Candidates(pattern.label) : Fits(n, pattern)}

\* execute_merge: the first node that fits, or a new one.
Merge ==
    /\ Turn("merge")
    /\ \/ \E n \in Existing(Item) :
              /\ bindings' = IF Item.var = NoVar THEN bindings ELSE With(bindings, Item.var, Bound("node", n))
              /\ ItemDone
              /\ UNCHANGED <<db, query, rows, ends, returned, begun>>
       \/ Existing(Item) = {} /\ Insert(Item)

CypherInit ==
    /\ db \in Databases /\ begun = db
    /\ query = [q |-> [match |-> <<>>, clauses |-> <<>>, ret |-> NoReturn], phase |-> "idle", count |-> 0]
    /\ rows = {} /\ bindings = <<>> /\ todo = NoTodo /\ ends = NoEnds /\ returned = <<>>

CypherNext ==
    \/ \E q \in Queries : StartQuery(q)
    \/ EnterClause \/ NextRow \/ EndQuery
    \/ SetItem \/ RemoveItem \/ DeleteItem
    \/ CreateNode \/ CreateEdge \/ Merge

CypherSpec == CypherInit /\ [][CypherNext]_yvars

------------------------------------------------------------------------------
\* Properties.

Ended == query.phase \in {"ok", "error"}
Only(kind) == query.q.clauses # <<>> /\ \A k \in DOMAIN query.q.clauses : query.q.clauses[k].kind = kind
Named == UNION {{i.target : i \in Range(c.items)} : c \in Range(query.q.clauses)}
Targets(kind) ==
    {b \in UNION {{row[x] : x \in DOMAIN row \cap Named} : row \in rows} : b.kind = kind}
Ids(bs) == {b.id : b \in bs}

\* A query that deletes ends well however often a row names a record again, and takes exactly
\* the records of its rows, with the edges of those nodes: an edge whose node went first is not
\* an error, and no other record goes.
DeleteExact ==
    query.phase # "idle" /\ Only("delete") /\ Ended /\ Preflight(query.q) /\ Named \subseteq Variables(query.q) =>
        /\ query.phase = "ok"
        /\ DOMAIN db.node = DOMAIN begun.node \ Ids(Targets("node"))
        /\ DOMAIN db.edge = {e \in DOMAIN begun.edge \ Ids(Targets("edge")) :
                                {begun.edge[e].from, begun.edge[e].to} \cap Ids(Targets("node")) = {}}

\* SET computes every value from what MATCH read: two variables are swapped, a counter that
\* several rows name grows once, and whatever the order of the rows, also when a call fails on
\* the way, a record has the value it had or one that some row gives it.
SetFromRows ==
    query.phase # "idle" /\ Only("set") =>
        \A n \in DOMAIN db.node :
            \/ db.node[n].value = begun.node[n].value
            \/ \E row \in rows, c \in Range(query.q.clauses) : \E i \in Range(c.items) :
                   /\ i.target \in DOMAIN row /\ row[i.target].kind = "node" /\ row[i.target].id = n
                   /\ db.node[n].value =
                        IF i.from = NoVar THEN i.plus
                        ELSE IF i.from \in DOMAIN row /\ row[i.from].kind = "node" /\ begun.node[row[i.from].id].value >= 0
                             THEN begun.node[row[i.from].id].value + i.plus
                        ELSE NullValue

\* A MERGE that went well leaves a node that carries the label and the value, and makes a new one
\* only if there was none: it never makes the second of two that are alike, and changes no other.
\* A label that the schema does not know is answered by every node (list_nodes), so that MERGE
\* takes one of any type for it.
MergeOnce ==
    query.phase = "ok" /\ Only("merge") =>
        LET patterns == UNION {Range(c.items) : c \in Range(query.q.clauses)}
            made == DOMAIN db.node \ DOMAIN begun.node
            Alike(d, pattern) ==
                {n \in DOMAIN d.node : /\ pattern.label \in NodeTypes => pattern.label \in Range(d.node[n].labels)
                                      /\ PropsMatch(d.node[n].value, pattern.value)}
        IN  /\ \A pattern \in patterns : Alike(db, pattern) # {}
            /\ \A n \in made : \E pattern \in patterns : n \in Alike(db, pattern) /\ Alike(begun, pattern) = {}
            /\ \A n, m \in made : n # m => db.node[n].labels # db.node[m].labels \/ db.node[n].value # db.node[m].value
            /\ \A n \in DOMAIN begun.node : n \in DOMAIN db.node /\ db.node[n] = begun.node[n]

\* A variable never stands for another record than the one it was bound to: within a query no
\* id is given out again while a variable still has it.
NoStaleTarget ==
    \A x \in DOMAIN bindings :
        InUse(bindings[x]) => bindings[x].serial = Bound(bindings[x].kind, bindings[x].id).serial

\* Pages of a RETURN are cut from one order: a page has the rows of its ranks under all keys of
\* ORDER BY, the first first, ties aside, in that order, and as many as there are, also with
\* SKIP and LIMIT beyond the end; DISTINCT gives none of them twice.
PagesExact ==
    query.phase = "ok" /\ query.q.ret # NoReturn =>
        LET ret == query.q.ret
            values(key) == {Column(Projection(ret, row), key) : row \in rows}
            before(a, b) ==
                \E k \in DOMAIN ret.order :
                    /\ RowBefore(ret.order[k], a, b)
                    /\ \A j \in 1..(k - 1) : Column(a, ret.order[j].key) = Column(b, ret.order[j].key)
            \* the ranks that row r may have
            first(r) == Cardinality({row \in rows : before(Projection(ret, row), r)}) + 1
            last(r)  == Cardinality({row \in rows : ~ before(r, Projection(ret, row))})
            end == IF ret.limit = NoLimit THEN Cardinality(rows) ELSE ret.skip + ret.limit
        IN  (\A k \in DOMAIN ret.order : NullValue \in values(ret.order[k].key) => values(ret.order[k].key) = {NullValue}) =>
                /\ \A i, j \in DOMAIN returned : i < j => ~ before(returned[j], returned[i])
                /\ \A r \in Range(returned) : first(r) <= end /\ last(r) > ret.skip
                /\ \A row \in rows : LET r == Projection(ret, row)
                                     IN  first(r) > ret.skip /\ last(r) <= end => r \in Range(returned)
                /\ IF ret.distinct THEN Cardinality(Range(returned)) = Len(returned)
                   ELSE Len(returned) = Cardinality((ret.skip + 1)..end \cap 1..Cardinality(rows))

=============================================================================
