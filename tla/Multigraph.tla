------------------------------ MODULE Multigraph ------------------------------
(***************************************************************************)
(* What the topology store of chiffondb promises: a directed multigraph    *)
(* with self-loops, where a traversal from a node finds exactly the edges  *)
(* that leave it or reach it, and where no edge outlives its end nodes.    *)
(***************************************************************************)
CONSTANTS Nodes, Edges     \* record ids

VARIABLES
    nodes,            \* the nodes that exist
    ends,             \* from and to of each edge that exists
    outs, ins         \* what a traversal of each node finds

vars == <<nodes, ends, outs, ins>>

Without(f, x) == [y \in DOMAIN f \ {x} |-> f[y]]
With(f, x, v) == [y \in DOMAIN f \cup {x} |-> IF y = x THEN v ELSE f[y]]

Init ==
    /\ nodes = {}
    /\ ends = [e \in {} |-> <<>>]
    /\ outs = [n \in {} |-> {}] /\ ins = [n \in {} |-> {}]

\* A new node is isolated, whatever its record id stood for before.
InsertNode(n) ==
    /\ n \notin nodes
    /\ nodes' = nodes \cup {n}
    /\ outs' = With(outs, n, {}) /\ ins' = With(ins, n, {})
    /\ UNCHANGED ends

InsertEdge(e, from, to) ==
    /\ e \notin DOMAIN ends /\ from \in nodes /\ to \in nodes
    /\ ends' = With(ends, e, <<from, to>>)
    /\ outs' = [outs EXCEPT ![from] = @ \cup {e}]
    /\ ins' = [ins EXCEPT ![to] = @ \cup {e}]
    /\ UNCHANGED nodes

DeleteEdge(e) ==
    /\ e \in DOMAIN ends
    /\ ends' = Without(ends, e)
    /\ outs' = [outs EXCEPT ![ends[e][1]] = @ \ {e}]
    /\ ins' = [ins EXCEPT ![ends[e][2]] = @ \ {e}]
    /\ UNCHANGED nodes

\* The edges of a node are deleted before it is.
DeleteNode(n) ==
    /\ n \in nodes
    /\ \A e \in DOMAIN ends : n \notin {ends[e][1], ends[e][2]}
    /\ nodes' = nodes \ {n}
    /\ outs' = Without(outs, n) /\ ins' = Without(ins, n)
    /\ UNCHANGED ends

Next ==
    \/ \E n \in Nodes : InsertNode(n) \/ DeleteNode(n)
    \/ \E e \in Edges : \/ DeleteEdge(e)
                       \/ \E from, to \in Nodes : InsertEdge(e, from, to)

Spec == Init /\ [][Next]_vars
==============================================================================
