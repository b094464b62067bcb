------------------------------ MODULE MCDatabase -----------------------------
(***************************************************************************)
(* The database as its callers see it, part by part: traversals and        *)
(* searches over small graphs (three nodes, three edges of two types, with *)
(* parallel edges, self-loops, cycles and nodes out of reach among them),  *)
(* the queries of MCCypher on databases of their own, the schema store,    *)
(* schema texts, the files of export and import, and the processes that    *)
(* open, write and vacuum a file.                                          *)
(***************************************************************************)
EXTENDS Traversal, Pathfinding, MCCypher, MCConnection, MCSchemaText, MCTransfer

MCNodes == 1..3
MCEdges == 1..3
MCMissing == <<"missing", 0>>

num(n) == <<"number", n>>
str(n) == <<"string", n>>

\* a before b in the order of strings; "n" of number 1 and of string 1 read alike as texts.
MCTextHolds == {<<"Contains", str(1), str(1)>>, <<"AnyKey", str(1), str(1)>>, <<"AnyKey", str(2), str(1)>>}

MCLabels == (1 :> <<"P">>) @@ (2 :> <<"P", "Q">>) @@ (3 :> <<"Q">>)
MCTypes  == (1 :> <<"K">>) @@ (2 :> <<"K", "L">>) @@ (3 :> <<"L">>)
MCProps ==
    { (1 :> ("v" :> num(2))) @@ (2 :> ("v" :> num(1))) @@ (3 :> ("w" :> <<"object", ("v" :> str(1))>>)),
      (1 :> ("v" :> num(2))) @@ (2 :> ("v" :> str(1))) @@ (3 :> ("v" :> num(1))),
      (1 :> ("v" :> num(1))) @@ (2 :> ("v" :> Null))   @@ (3 :> ("v" :> num(1))) }
MCEdgeProps == (1 :> ("v" :> num(2))) @@ (2 :> ("v" :> num(1))) @@ (3 :> ("w" :> str(2)))

MCEnds ==
    { (1 :> <<1, 2>>) @@ (2 :> <<2, 3>>) @@ (3 :> e) : e \in {<<3, 1>>, <<1, 3>>, <<2, 2>>, <<1, 2>>} }
      \cup { (1 :> <<1, 1>>) @@ (2 :> <<1, 1>>) @@ (3 :> <<1, 3>>) }
MCGraph(p, es) ==
    [labels |-> MCLabels, types |-> MCTypes, props |-> p, edgeProps |-> MCEdgeProps, ends |-> es]

\* Traversals: all ends with one assignment of values, all values with the triangle.
OneProps == CHOOSE p \in MCProps : TRUE
Triangle == (1 :> <<1, 2>>) @@ (2 :> <<2, 3>>) @@ (3 :> <<3, 1>>)
MCRead == {MCGraph(OneProps, es) : es \in MCEnds} \cup {MCGraph(p, Triangle) : p \in MCProps}

\* Searches: all ends of the second and the third edge.
MCSearched ==
    {MCGraph(OneProps, (1 :> <<1, 2>>) @@ (2 :> second) @@ (3 :> third)) :
        second \in MCNodes \X MCNodes, third \in MCNodes \X MCNodes}

MCGraphs == MCRead \cup MCSearched

Test(op, key, v) == [op |-> op, path |-> <<key>>, from |-> "literal", value |-> v]
Of(op, tests) == [op |-> op, of |-> tests]
Step(action, label, arg, tests) == [action |-> action, label |-> label, arg |-> arg, tests |-> tests]

MCBindings == ("b" :> num(1))

MCStarts ==
    { [type |-> "AllNodes", label |-> ""], [type |-> "AllNodes", label |-> "Q"], [type |-> "AllEdges", label |-> "L"],
      [type |-> "Node", label |-> "P", key |-> "v", value |-> num(2)] }

MCSteps ==
    { Step("OutEdges", "", 0, <<>>), Step("InEdges", "K", 0, <<>>), Step("BothEdges", "", 0, <<>>),
      Step("OutNodes", "", 0, <<>>), Step("InNodes", "", 0, <<>>), Step("BothNodes", "Q", 0, <<>>),
      Step("OrderBy", "", [key |-> <<"v">>, direction |-> "Asc"], <<>>),
      Step("OrderBy", "", [key |-> <<"v">>, direction |-> "Desc"], <<>>),
      Step("Dedup", "", 0, <<>>), Step("Skip", "", 1, <<>>), Step("Limit", "", 2, <<>>),
      Step("HasLabel", "", {"Q"}, <<>>),
      Step("Repeat", "", [depth |-> 2, steps |-> <<Step("OutEdges", "", 0, <<>>), Step("OutNodes", "", 0, <<>>)>>], <<>>),
      Step("Filter", "", 0, << Of("Or", <<Test("LessThanOrEquals", "v", num(1)), Test("IsNull", "v", Null)>>),
                               Of("Not", Test("Exists", "w", Null)) >>),
      Step("Filter", "", 0, <<[op |-> "Equals", path |-> <<"v">>, from |-> "binding", value |-> "b"]>>),
      Step("Filter", "", 0, <<[op |-> "AnyKey", value |-> str(1)]>>),
      Step("OutEdges", "", 0, <<[op |-> "Custom", passed |-> {1}]>>) }

MCCollects ==
    {[type |-> "GroupBy", key |-> <<"v">>, path |-> <<"v">>], [type |-> "Nodes", keys |-> {"v"}],
     [type |-> "Edges", keys |-> {}], [type |-> "Path", keys |-> {}], [type |-> "Exists"],
     [type |-> "Count"], [type |-> "Aggregate", path |-> <<"v">>]}

MCRequests ==
    {[kind |-> "path", nodes |-> pair, depth |-> d, direction |-> dir, types |-> ts] :
        pair \in {<<1, 3>>, <<3, 1>>, <<2, 2>>}, d \in {0, 2}, dir \in {"Outgoing", "Incoming", "Both"}, ts \in {{"K"}, {"K", "L"}}}
    \cup {[kind |-> "subgraph", nodes |-> ns, depth |-> d, direction |-> dir, types |-> {"K", "L"}] :
        ns \in {<<1, 3, 2>>, <<2, 2, 1>>}, d \in {1, 3}, dir \in {"Outgoing", "Both"}}

IdleSource == CHOOSE s \in MCSources : TRUE
IdleTarget == CHOOSE t \in MCDestinations : TRUE
NoDatabase == [node |-> <<>>, edge |-> <<>>, serial |-> 1]
IdleGraph  == CHOOSE g \in MCGraphs : TRUE

VARIABLE part

\* Each behaviour is one of its part.
MCInit ==
    /\ Init /\ TraversalInit /\ PathInit /\ CypherInit /\ ConnInit /\ SchemaInit /\ TextInit /\ TransferInit
    /\ part \in {"reads", "searches", "queries", "schema", "files", "text", "transfer"}
    /\ part = "queries" \/ db = NoDatabase
    /\ CASE part = "reads"    -> graph \in MCRead
         [] part = "searches" -> graph \in MCSearched
         [] OTHER             -> graph = IdleGraph
    /\ part = "transfer" \/ (source = IdleSource /\ target = IdleTarget)

Reads ==
    /\ part = "reads" /\ TraversalNext
    /\ Unchanged /\ UNCHANGED <<pvars, yvars, svars, cvars, xvars, xferVars, part>>

Searches ==
    /\ part = "searches" /\ PathNext
    /\ Unchanged /\ UNCHANGED <<tvars, yvars, svars, cvars, xvars, xferVars, part>>

Queried ==
    /\ part = "queries"
    /\ \/ CypherNext
       \/ query.phase \in {"ok", "error"} /\ UNCHANGED yvars
    /\ UNCHANGED <<graph, tvars, pvars, svars, cvars, xvars, xferVars, part>>

Defines ==
    /\ part = "schema" /\ SchemaNext
    /\ UNCHANGED <<graph, tvars, pvars, yvars, cvars, xvars, xferVars, part>>

Opens ==
    /\ part = "files" /\ ConnNext
    /\ UNCHANGED <<graph, tvars, pvars, yvars, svars, xvars, xferVars, part>>

Describes ==
    /\ part = "text" /\ TextNext
    /\ UNCHANGED <<graph, tvars, pvars, yvars, svars, cvars, xferVars, part>>

Transfers ==
    /\ part = "transfer"
    /\ \/ TransferNext
       \/ (job.imports = MaxImports \/ (items # NoItems /\ ~ Readable)) /\ job.phase \in {"idle", "done"} /\ UNCHANGED xferVars
    /\ UNCHANGED <<graph, tvars, pvars, yvars, svars, cvars, xvars, part>>

MCNext == Reads \/ Searches \/ Queried \/ Defines \/ Opens \/ Describes \/ Transfers

MCSpec ==
    /\ MCInit /\ [][MCNext]_<<graph, tvars, pvars, yvars, svars, cvars, xvars, xferVars, part>>
    /\ WF_<<graph, pvars>>(SearchStep /\ UNCHANGED <<graph, tvars, yvars, svars, cvars, xvars, xferVars, part>>)
=============================================================================
