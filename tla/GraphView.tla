------------------------------ MODULE GraphView ------------------------------
(***************************************************************************)
(* What the query engines read of a database: DatabaseGraphView (db.rs) and*)
(* the walks of the topology.  A query reads one graph that no one changes *)
(* while it runs: calls follow one another in one thread, and a view holds *)
(* the handle for itself.                                                  *)
(*                                                                         *)
(* Record ids are numbers.  Scans visit them in ascending order; the list  *)
(* of edges of a node begins with the newest (Topology).                   *)
(***************************************************************************)
EXTENDS Integers, Sequences, SequencesExt, Scans

CONSTANTS
    Nodes, Edges,   \* ids of the nodes and edges in use
    Graphs,         \* the graphs that queries are run on
    Missing         \* the value of a property that a record does not have

ASSUME GraphViewAssumption ==
    /\ Nodes \subseteq Nat /\ Edges \subseteq Nat /\ IsFiniteSet(Nodes) /\ IsFiniteSet(Edges)
    /\ \A g \in Graphs :
        /\ g.ends \in [Edges -> Nodes \X Nodes]
        /\ DOMAIN g.labels = Nodes /\ DOMAIN g.types = Edges
        /\ DOMAIN g.props = Nodes /\ DOMAIN g.edgeProps = Edges

VARIABLE
    graph     \* labels: node -> its labels, the primary one first; types: the same of edges;
              \* ends: edge -> <<from, to>>; props, edgeProps: record -> key -> value

From(e) == graph.ends[e][1]
To(e)   == graph.ends[e][2]

\* collect_out_edges, collect_in_edges.
Listed(S) == Reverse(Scan(S))
OutList(n) == Listed({e \in Edges : From(e) = n})
InList(n)  == Listed({e \in Edges : To(e) = n})

\* A label of a step that has none matches everything.
AnyLabel == ""

Carries(labels, l) == l = AnyLabel \/ Contains(labels, l)

NodeLabel(n) == Head(graph.labels[n])

\* node_labels, all_nodes_of_label, all_edges_of_label: all labels count.
AllNodes(l) == SelectSeq(Scan(Nodes), LAMBDA n : Carries(graph.labels[n], l))
AllEdges(l) == SelectSeq(Scan(Edges), LAMBDA e : Carries(graph.types[e], l))

\* out_edges, in_edges.
OutEdges(n, l) == SelectSeq(OutList(n), LAMBDA e : Carries(graph.types[e], l))
InEdges(n, l)  == SelectSeq(InList(n),  LAMBDA e : Carries(graph.types[e], l))

\* PropertyPath::resolve.  A value is a pair of its kind and its payload; the payload
\* of an object maps keys to values.
Resolve(path, props) ==
    FoldLeft(LAMBDA v, key :
                 IF v # Missing /\ v[1] = "object" /\ key \in DOMAIN v[2] THEN v[2][key] ELSE Missing,
             <<"object", props>>, path)

Init == graph \in Graphs

\* No query changes the graph.
Unchanged == UNCHANGED graph
=============================================================================
