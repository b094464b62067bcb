---------------------------- MODULE TopologyCrash ----------------------------
(***************************************************************************)
(* Topology when the process may die in the middle of a call.  The log     *)
(* keeps every page write and has no commit boundary, so a recovery finds  *)
(* the writes that were made: a call is here the sequence of the states    *)
(* its page writes lead to, and a death drops those that are left.         *)
(* delete_node, the longest call, is left out: Topology already takes it   *)
(* edge by edge.                                                           *)
(***************************************************************************)
EXTENDS Topology, Sequences

CONSTANT MaxCrashes   \* bound

VARIABLES
    ahead,            \* the states the running call has still to write
    touched,          \* nodes the running call may write
    crashes

crashVars == <<topologyVars, ahead, touched, crashes>>

\* alloc_topology_slot writes the page, then the hint.
AllocWrites(k) ==
    LET s1 == TakeSlot(topo, k)
    IN  <<s1, Alloc(topo, k)>>

\* insert_node without properties: the slot, the hint, the record.
InsertNodeWrites ==
    LET n == AllocRid(topo, "node")
        s == Alloc(topo, "node")
    IN  AllocWrites("node") \o <<WriteNode(s, NewNode(n))>>

\* insert_edge: the slot, the hint, the record, then each list, edge before node.
InsertEdgeWrites(from, to) ==
    LET e  == AllocRid(topo, "edge")
        s1 == WriteEdge(Alloc(topo, "edge"), NewEdge(e, from, to))
        s2 == LinkEdge(s1, from, e, "out")
        s3 == LinkNode(s2, from, e, "out")
        s4 == LinkEdge(s3, to, e, "in")
    IN  AllocWrites("edge") \o <<s1, s2, s3, s4, LinkNode(s4, to, e, "in")>>

\* delete_edge: one write for each list, the slot, the hint.
DeleteEdgeWrites(e) ==
    LET edge == topo.edge[e]
        s1 == Unlink(topo, edge.from, e, edge.out, "out")
        s2 == Unlink(s1, edge.to, e, edge.in, "in")
    IN  <<s1, s2, ClearSlot(s2, "edge", e), Free(s2, "edge", e)>>

Call(writes, nodes) ==
    /\ ahead = <<>>
    /\ ahead' = writes /\ touched' = nodes
    /\ UNCHANGED <<topo, crashes>>

CallInsertNode == Room("node") /\ Call(InsertNodeWrites, {AllocRid(topo, "node")})

CallInsertEdge(from, to) ==
    /\ Room("edge") /\ from \in Live("node") /\ to \in Live("node")
    /\ Call(InsertEdgeWrites(from, to), {from, to})

CallDeleteEdge(e) ==
    /\ e \in Live("edge")
    /\ Call(DeleteEdgeWrites(e), {topo.edge[e].from, topo.edge[e].to})

WritePage ==
    /\ ahead # <<>>
    /\ topo' = Head(ahead) /\ ahead' = Tail(ahead)
    /\ UNCHANGED <<touched, crashes>>

Crash ==
    /\ ahead # <<>> /\ crashes < MaxCrashes
    /\ ahead' = <<>> /\ crashes' = crashes + 1
    /\ UNCHANGED <<topo, touched>>

CrashInit == TopologyInit /\ ahead = <<>> /\ touched = {} /\ crashes = 0

CrashNext ==
    /\ \/ CallInsertNode \/ WritePage \/ Crash
       \/ \E from, to \in Nodes : CallInsertEdge(from, to)
       \/ \E e \in Edges : CallDeleteEdge(e)
    /\ UNCHANGED cascade

CrashSpec == CrashInit /\ [][CrashNext]_crashVars

-----------------------------------------------------------------------------
\* A call writes no node record but those of the nodes it was given, or creates:
\* insert_edge checks that its end nodes exist because an invalid one "would
\* later have its adjacency list rewritten, silently corrupting an unrelated live
\* node".
OnlyGivenNodesChange ==
    [][\A n \in Live("node") : topo'.node[n] # topo.node[n] => n \in touched]_crashVars
==============================================================================
