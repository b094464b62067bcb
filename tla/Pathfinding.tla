----------------------------- MODULE Pathfinding -----------------------------
(***************************************************************************)
(* Shortest paths and connecting subgraphs (pathfinding/mod.rs): a search  *)
(* by breadth, one step per node taken off its queue and one per neighbour *)
(* looked at.  A path is asked for with two nodes, a subgraph with a list: *)
(* the engine searches for a path between every two places of the list.    *)
(***************************************************************************)
EXTENDS GraphView, FiniteSets

CONSTANT
    Requests     \* kind, nodes: a sequence of nodes; depth, direction, types: the options

ASSUME RequestsAssumption ==
    \A r \in Requests :
        /\ r.kind \in {"path", "subgraph"} /\ r.depth \in Nat
        /\ r.nodes \in Seq(Nodes) /\ (r.kind = "path" => Len(r.nodes) = 2)

VARIABLES
    phase,       \* idle, pairs, search, found, lost, done
    request,     \* the running call
    i, j,        \* the places of the two nodes whose path is searched
    visited,     \* node -> <<the edge it was reached by, the node before it>>
    level,       \* ghost: node -> the depth it was queued with
    queue,       \* <<node, depth>>, the next one first
    current,     \* the node and depth taken off the queue last
    pending,     \* <<edge, node>>: its neighbours not yet looked at
    path,        \* nodes and edges of the path found last
    allNodes, allEdges   \* the subgraph so far

pvars == <<phase, request, i, j, visited, level, queue, current, pending, path, allNodes, allEdges>>
searchVars == <<visited, level, queue, current, pending>>

Origin == request.nodes[i]
Target == request.nodes[j]

\* edge_matches: no list of types is the set of all; only the primary type is compared.
Matches(e) == Head(graph.types[e]) \in request.types

\* The edges in the list of a node that match, each with the node at its other end: the
\* ends of an edge are its first, where it comes from, and its second.
Toward(n, near, far, directions) ==
    LET fitting == Listed({e \in Edges : graph.ends[e][near] = n /\ Matches(e)})
    IN  IF request.direction \in directions
        THEN [k \in DOMAIN fitting |-> <<fitting[k], graph.ends[fitting[k]][far]>>]
        ELSE <<>>

\* Mutant: both directions are the outgoing one alone.
NeighborsMutant(n) == Toward(n, 1, 2, {"Outgoing", "Both"}) \o Toward(n, 2, 1, {"Incoming"})

\* neighbors: outgoing edges first.
Neighbors(n) == Toward(n, 1, 2, {"Outgoing", "Both"}) \o Toward(n, 2, 1, {"Incoming", "Both"})

\* reconstruct_path: from the end back to the start.
Reconstruct(tree, from, to) ==
    LET before[k \in 0..Cardinality(DOMAIN tree)] == IF k = 0 THEN to ELSE
            LET n == before[k - 1] IN IF n = from THEN from ELSE tree[n][2]
        length == CHOOSE k \in DOMAIN before : before[k] = from /\ \A l \in DOMAIN before : before[l] = from => k <= l
    IN  [nodes |-> [k \in 1..(length + 1) |-> before[length + 1 - k]],
         edges |-> [k \in 1..length |-> tree[before[length - k]][1]]]

\* Mutant: nodes at the depth limit are expanded too.
AtLimitMutant(depth) == depth > request.depth

\* Nodes this deep are passed over.
AtLimit(depth) == depth >= request.depth

\* push_back
Queued(q, node) == Append(q, node)

NoPath == [nodes |-> <<>>, edges |-> <<>>]

\* The variables of a search that is not running.
NoSearch == /\ visited = <<>> /\ level = <<>> /\ queue = <<>> /\ current = <<>> /\ pending = <<>>

PathInit ==
    /\ phase = "idle" /\ request = <<>> /\ i = 0 /\ j = 0
    /\ NoSearch
    /\ path = NoPath /\ allNodes = {} /\ allEdges = {}

\* shortest_path and connecting_subgraph are called.
Ask(r) ==
    /\ phase = "idle"
    /\ phase' = "pairs" /\ request' = r /\ i' = 1 /\ j' = 2
    /\ UNCHANGED <<searchVars, path, allNodes, allEdges>>

\* The search for a path from a node to itself ends before it starts.
StartSearch ==
    /\ phase = "pairs" /\ i <= Len(request.nodes) /\ j <= Len(request.nodes)
    /\ IF Origin = Target
       THEN /\ phase' = "found" /\ path' = [nodes |-> <<Origin>>, edges |-> <<>>]
            /\ UNCHANGED searchVars
       ELSE /\ phase' = "search"
            /\ visited' = [n \in {Origin} |-> <<>>] /\ level' = [n \in {Origin} |-> 0]
            /\ queue' = <<<<Origin, 0>>>>
            /\ UNCHANGED <<current, pending, path>>
    /\ UNCHANGED <<request, i, j, allNodes, allEdges>>

\* A node is taken off the queue; one at the depth limit is passed over.
Take ==
    /\ phase = "search" /\ pending = <<>> /\ queue # <<>>
    /\ queue' = Tail(queue) /\ current' = Head(queue)
    /\ pending' = IF AtLimit(Head(queue)[2]) THEN <<>> ELSE Neighbors(Head(queue)[1])
    /\ UNCHANGED <<phase, request, i, j, visited, level, path, allNodes, allEdges>>

\* One neighbour is looked at: a node met before is passed over; the target ends the search
\* as soon as it is met.
Look ==
    /\ phase = "search" /\ pending # <<>>
    /\ pending' = Tail(pending)
    /\ LET e == Head(pending)[1]
           n == Head(pending)[2]
       IN  IF n \in DOMAIN visited THEN UNCHANGED <<phase, visited, level, queue, path>>
           ELSE /\ visited' = [m \in DOMAIN visited \cup {n} |-> IF m = n THEN <<e, current[1]>> ELSE visited[m]]
                /\ level' = [m \in DOMAIN level \cup {n} |-> IF m = n THEN current[2] + 1 ELSE level[m]]
                /\ IF n = Target
                   THEN /\ phase' = "found" /\ path' = Reconstruct(visited', Origin, Target)
                        /\ UNCHANGED queue
                   ELSE queue' = Queued(queue, <<n, current[2] + 1>>) /\ UNCHANGED <<phase, path>>
    /\ UNCHANGED <<request, i, j, current, allNodes, allEdges>>

GiveUp ==
    /\ phase = "search" /\ pending = <<>> /\ queue = <<>>
    /\ phase' = "lost"
    /\ UNCHANGED <<request, i, j, searchVars, path, allNodes, allEdges>>

\* The maps and the queue of a search are dropped with it.
DropSearch == /\ visited' = <<>> /\ level' = <<>> /\ queue' = <<>> /\ current' = <<>> /\ pending' = <<>>

\* Mutant: the last path found is all that is kept.
ExtendedMutant(known, part) == IF part = <<>> THEN known ELSE Range(part)

\* extend; a search that is lost has an empty path.
Extended(known, part) == known \cup Range(part)

\* Mutant: a search that finds nothing is tried again.
NextPlaceMutant == IF phase = "lost" THEN j ELSE j + 1

NextPlace == j + 1

\* connecting_subgraph adds the path to its sets and goes on; shortest_path is done.
Absorb ==
    /\ phase \in {"found", "lost"}
    /\ phase' = IF request.kind = "path" THEN "done" ELSE "pairs"
    /\ allNodes' = Extended(allNodes, path.nodes)
    /\ allEdges' = Extended(allEdges, path.edges)
    /\ j' = NextPlace
    /\ path' = NoPath /\ DropSearch
    /\ UNCHANGED <<request, i>>

\* The node itself is always part of the subgraph; then come the pairs of the next one.
NextNode ==
    /\ phase = "pairs" /\ i <= Len(request.nodes) /\ j > Len(request.nodes)
    /\ allNodes' = allNodes \cup {Origin}
    /\ i' = i + 1 /\ j' = i + 2
    /\ UNCHANGED <<phase, request, searchVars, path, allEdges>>

Finish ==
    /\ phase = "pairs" /\ i > Len(request.nodes)
    /\ phase' = "done"
    /\ UNCHANGED <<request, i, j, searchVars, path, allNodes, allEdges>>

\* The call returns.
Answer ==
    /\ phase = "done"
    /\ phase' = "idle" /\ request' = <<>> /\ i' = 0 /\ j' = 0 /\ allNodes' = {} /\ allEdges' = {}
    /\ UNCHANGED <<searchVars, path>>

SearchStep == StartSearch \/ Take \/ Look \/ GiveUp \/ Absorb \/ NextNode \/ Finish \/ Answer

PathNext == (\E r \in Requests : Ask(r)) \/ SearchStep

PathSpec == Init /\ PathInit /\ [][PathNext /\ Unchanged]_<<graph, pvars>>

------------------------------------------------------------------------------
\* Properties.

Searching == phase \in {"search", "found", "lost"} /\ visited # <<>>

\* The search may go along edge e from node m to node n.
Leads(m, e, n) ==
    /\ Matches(e)
    /\ \/ request.direction \in {"Outgoing", "Both"} /\ From(e) = m /\ To(e) = n
       \/ request.direction \in {"Incoming", "Both"} /\ To(e) = m /\ From(e) = n

\* The nodes whose neighbours have all been looked at.
Expanded ==
    {m \in DOMAIN visited : /\ level[m] < request.depth
                            /\ \A k \in DOMAIN queue : queue[k][1] # m
                            /\ (current # <<>> /\ current[1] = m) => pending = <<>>}

\* Levels certify distances: every node but the origin was reached along an edge from a node
\* one level up, and no edge from an expanded node leads more than one level down or to a
\* node not met.  A found target lies at most one level below the node being expanded.
Levels ==
    Searching =>
        /\ level[Origin] = 0
        /\ \A n \in DOMAIN visited \ {Origin} :
              LET e == visited[n][1]
                  m == visited[n][2]
              IN  m \in DOMAIN visited /\ Leads(m, e, n) /\ level[n] = level[m] + 1
        /\ phase # "found" =>
              \A m \in Expanded, e \in Edges, n \in Nodes :
                  Leads(m, e, n) => n \in DOMAIN visited /\ level[n] <= level[m] + 1

\* The nodes within k hops of n.
Ball(n, k) ==
    LET ball[l \in 0..k] ==
            IF l = 0 THEN {n}
            ELSE ball[l - 1] \cup {m \in Nodes : \E b \in ball[l - 1], e \in Edges : Leads(b, e, m)}
    IN  ball[k]

\* A path that is found leads from its first node to its last along edges of the wanted types
\* and directions, and none is shorter; a search that is lost has nothing within the limit.
ShortestFound ==
    /\ phase = "found" =>
          /\ path.nodes[1] = Origin /\ path.nodes[Len(path.nodes)] = Target
          /\ Len(path.nodes) = Len(path.edges) + 1
          /\ \A k \in DOMAIN path.edges : Leads(path.nodes[k], path.edges[k], path.nodes[k + 1])
          /\ Len(path.edges) <= request.depth
          /\ path.edges # <<>> => Target \notin Ball(Origin, Len(path.edges) - 1)
    /\ phase = "lost" => Target \notin Ball(Origin, request.depth)

\* A subgraph holds the nodes asked for and the ends of its edges, and joins every two of
\* them that one search would join: searches of other pairs do not take that away.
SubgraphConnects ==
    (phase = "done" /\ request.kind = "subgraph") =>
        LET wanted == request.nodes
            joined(n) ==
                LET ball[l \in 0..Cardinality(Nodes)] ==
                        IF l = 0 THEN {n}
                        ELSE ball[l - 1] \cup {m \in Nodes : \E b \in ball[l - 1], e \in allEdges : Leads(b, e, m)}
                IN  ball[Cardinality(Nodes)]
        IN  /\ Range(wanted) \subseteq allNodes
            /\ \A e \in allEdges : {From(e), To(e)} \subseteq allNodes
            /\ \A k, l \in DOMAIN wanted :
                  k < l /\ wanted[l] \in Ball(wanted[k], request.depth) => wanted[l] \in joined(wanted[k])

\* Every call returns: a search looks at each node once, whatever cycles the graph has.
SearchEnds == phase # "idle" ~> phase = "idle"
=============================================================================
