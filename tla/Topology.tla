------------------------------- MODULE Topology -------------------------------
(***************************************************************************)
(* The topology store of chiffondb: storage/topology.rs (slots, hints and  *)
(* adjacency lists), the slot bitmap of storage/page.rs, and the calls of  *)
(* db.rs that use them (insert_node, insert_edge, delete_edge and          *)
(* delete_node with its cascade).                                          *)
(*                                                                         *)
(* Nodes and edges are fixed-size records in slots of pages of their own   *)
(* kind.  A node heads two linked lists of edges, those that leave it and  *)
(* those that reach it; a freed slot keeps the bytes of its last record.   *)
(* "topo" is what the pages hold; the store keeps nothing in memory.       *)
(***************************************************************************)
EXTENDS Naturals, FiniteSets

CONSTANTS
    MaxPages,     \* bound: pages of each kind
    Slots,        \* slots of a page (62 in the code)
    None          \* the absent record id

ASSUME MaxPagesAssumption == MaxPages \in [{"node", "edge"} -> Nat \ {0}]
ASSUME SlotsAssumption == Slots \in Nat \ {0}
ASSUME NoneAssumption == None \notin Nat \X Nat

Kinds == {"node", "edge"}

Rids(k) == (0 .. MaxPages[k] - 1) \X (0 .. Slots - 1)
Nodes   == Rids("node")
Edges   == Rids("edge")

NodeRecords == [id : Nodes, out : Edges \cup {None}, in : Edges \cup {None}]
EdgeRecords == [id : Edges, from : Nodes, to : Nodes,
                out : Edges \cup {None}, in : Edges \cup {None}]

\* What the zero bytes of a fresh page decode to: no reference is absent.
ZeroRid  == <<0, 0>>
ZeroNode == [id |-> ZeroRid, out |-> ZeroRid, in |-> ZeroRid]
ZeroEdge == [id |-> ZeroRid, from |-> ZeroRid, to |-> ZeroRid, out |-> ZeroRid, in |-> ZeroRid]

VARIABLES
    topo,         \* pages, hint and used slots of each kind, and the records
    cascade       \* the node being deleted and the edges still to go, or None

topologyVars == <<topo, cascade>>

-----------------------------------------------------------------------------
(* Slots. *)

FreeSlots(s, k, p) == {i \in 0 .. Slots - 1 : <<p, i>> \notin s.used[k]}
Full(s, k, p) == FreeSlots(s, k, p) = {}

Least(S) == CHOOSE i \in S : \A j \in S : i <= j

\* topology_first_free_hint: clamped to the page count.
HintOf(s, k) == IF s.hint[k] < s.pages[k] THEN s.hint[k] ELSE s.pages[k]

\* The first page from the hint on with a free slot; the next page to append
\* when they are all full.
AllocPage(s, k) ==
    LET open == {p \in HintOf(s, k) .. s.pages[k] - 1 : ~ Full(s, k, p)}
    IN  IF open = {} THEN s.pages[k] ELSE Least(open)

AllocRid(s, k) == <<AllocPage(s, k), Least(FreeSlots(s, k, AllocPage(s, k)))>>

\* The page with the new slot is written, or appended and mapped.
TakeSlot(s, k) ==
    [s EXCEPT !.used[k] = @ \cup {AllocRid(s, k)},
              !.pages[k] = IF AllocPage(s, k) = @ THEN @ + 1 ELSE @]

\* The hint follows to the page that had a slot.
AdvanceHint(s, k, p) == IF p = HintOf(s, k) /\ p < s.pages[k] THEN s ELSE [s EXCEPT !.hint[k] = p]

Alloc(s, k) ==
    [TakeSlot(s, k) EXCEPT !.hint = AdvanceHint(s, k, AllocPage(s, k)).hint]

\* free_slot clears the bit of the slot; the record stays.
ClearSlot(s, k, r) == [s EXCEPT !.used[k] = @ \ {r}]
BackOffHint(s, k, p) == IF p < HintOf(s, k) THEN [s EXCEPT !.hint[k] = p] ELSE s

\* Mutant of Free: the hint does not back off.
FreeKeepsHint(s, k, r) == ClearSlot(s, k, r)

Free(s, k, r) == BackOffHint(ClearSlot(s, k, r), k, r[1])
-----------------------------------------------------------------------------
(* Records and lists. *)

\* write_node and write_edge put a record at the id it carries.
WriteNode(s, n) == [s EXCEPT !.node[n.id] = n]
WriteEdge(s, e) == [s EXCEPT !.edge[e.id] = e]

NewNode(r) == [id |-> r, out |-> None, in |-> None]
NewEdge(r, from, to) == [id |-> r, from |-> from, to |-> to, out |-> None, in |-> None]

\* The edges a walk from node n finds, used or not: the least set that holds the
\* head of the list and the successor of each of its members.
Walk(s, n, d) ==
    {e \in Edges : \A R \in SUBSET Edges :
        /\ s.node[n][d] \in R \cup {None}
        /\ \A f \in R : s.edge[f][d] \in R \cup {None}
        => e \in R}

\* append_out_edge (d = "out") and append_in_edge (d = "in"): insert at the head.
LinkEdge(s, n, e, d)  == WriteEdge(s, [s.edge[e] EXCEPT ![d] = s.node[n][d]])
LinkNode(s, n, e, d)  == WriteNode(s, [s.node[n] EXCEPT ![d] = e])

\* Mutant of AppendEdge: the node is written before its head is read.
AppendNodeFirst(s, n, e, d) == LinkEdge(LinkNode(s, n, e, d), n, e, d)

AppendEdge(s, n, e, d) == LinkNode(LinkEdge(s, n, e, d), n, e, d)

\* remove_from_out_list and remove_from_in_list: the head, or the first edge of
\* the walk that points to the target, is made to point past it; the store is
\* left as it is when the walk does not meet the target.
Unlink(s, n, target, next, d) ==
    IF s.node[n][d] = target
    THEN WriteNode(s, [s.node[n] EXCEPT ![d] = next])
    ELSE LET before == {f \in Walk(s, n, d) : s.edge[f][d] = target}
         IN  IF before = {} THEN s
             ELSE WriteEdge(s, [s.edge[CHOOSE f \in before : TRUE] EXCEPT ![d] = next])

\* TopologyStore::delete_edge reads the edge once, before it changes a list.
RemoveEdge(s, e) ==
    LET edge == s.edge[e]
        s1 == Unlink(s, edge.from, e, edge.out, "out")
        s2 == Unlink(s1, edge.to, e, edge.in, "in")
    IN  Free(s2, "edge", e)

\* Mutant of Incident: the edges that reach the node are forgotten.
IncidentOut(s, n) == {s.edge[e].id : e \in Walk(s, n, "out")}

\* Both lists of a node, each edge once: a self-loop is in both.
Incident(s, n) == {s.edge[e].id : e \in Walk(s, n, "out") \cup Walk(s, n, "in")}

\* verify: the edges in use of which an end is not, and the lists that come back
\* to an edge, which are the walks that find no last edge.
Verify(s) ==
    LET lost   == {l \in s.used["edge"] \X {"ends"} :
                      ~({s.edge[l[1]].from, s.edge[l[1]].to} \subseteq s.used["node"])}
        cyclic == {l \in s.used["node"] \X {"out", "in"} :
                      /\ s.node[l[1]][l[2]] # None
                      /\ \A e \in Walk(s, l[1], l[2]) : s.edge[e][l[2]] # None}
    IN  lost \cup cyclic

-----------------------------------------------------------------------------
(* The calls of db.rs. *)

Room(k) == AllocPage(topo, k) < MaxPages[k]

InsertNode ==
    /\ cascade = None /\ Room("node")
    /\ topo' = WriteNode(Alloc(topo, "node"), NewNode(AllocRid(topo, "node")))
    /\ UNCHANGED cascade

InsertEdge(from, to) ==
    /\ cascade = None /\ Room("edge")
    /\ from \in topo.used["node"] /\ to \in topo.used["node"]
    /\ LET e  == AllocRid(topo, "edge")
           s1 == WriteEdge(Alloc(topo, "edge"), NewEdge(e, from, to))
       IN  topo' = AppendEdge(AppendEdge(s1, from, e, "out"), to, e, "in")
    /\ UNCHANGED cascade

DeleteEdge(e) ==
    /\ cascade = None
    /\ e \in topo.used["edge"]
    /\ topo' = RemoveEdge(topo, e)
    /\ UNCHANGED cascade

\* delete_node collects the edges of the node, deletes them one by one, then frees it.
DeleteNode(n) ==
    /\ cascade = None
    /\ n \in topo.used["node"]
    /\ cascade' = [node |-> n, edges |-> Incident(topo, n)]
    /\ UNCHANGED topo

DeleteIncident(e) ==
    /\ cascade # None
    /\ e \in cascade.edges
    /\ topo' = RemoveEdge(topo, e)
    /\ cascade' = [cascade EXCEPT !.edges = @ \ {e}]

FreeNode ==
    /\ cascade # None
    /\ cascade.edges = {}
    /\ topo' = Free(topo, "node", cascade.node)
    /\ cascade' = None

-----------------------------------------------------------------------------
Empty ==
    [pages |-> [k \in Kinds |-> 0], hint |-> [k \in Kinds |-> 0], used |-> [k \in Kinds |-> {}],
     node |-> [r \in Nodes |-> ZeroNode], edge |-> [r \in Edges |-> ZeroEdge]]

TopologyInit == topo = Empty /\ cascade = None

TopologyNext ==
    \/ InsertNode \/ FreeNode
    \/ \E n \in Nodes : DeleteNode(n)
    \/ \E from, to \in Nodes : InsertEdge(from, to)
    \/ \E e \in Edges : DeleteEdge(e) \/ DeleteIncident(e)

TopologySpec == TopologyInit /\ [][TopologyNext]_topologyVars

-----------------------------------------------------------------------------
(* Properties. *)

States == [pages : [Kinds -> Nat], hint : [Kinds -> Nat],
           used : [Kinds -> SUBSET (Nat \X Nat)],
           node : [Nodes -> NodeRecords], edge : [Edges -> EdgeRecords]]

\* The type invariant; a slot in use is on a page of the directory.
TopologyTypeOK ==
    /\ topo \in States
    /\ \A k \in Kinds : /\ topo.pages[k] <= MaxPages[k]
                        /\ topo.used[k] \subseteq (0 .. topo.pages[k] - 1) \X (0 .. Slots - 1)
    /\ cascade \in [node : Nodes, edges : SUBSET Edges] \cup {None}

\* "Pages below the hint are full" (alloc_topology_slot), through every order of
\* inserts, deletes and cascades: a freed slot is always found again.
HintExact ==
    \A k \in Kinds : /\ topo.hint[k] <= topo.pages[k]
                     /\ \A p \in 0 .. topo.hint[k] - 1 : Full(topo, k, p)

\* Database::verify has nothing to report, whatever calls came before: no edge in
\* use has lost a node, and no walk of collect_edge_chain or remove_from_out_list
\* runs for ever.  It holds between the steps of a cascade too.
VerifySilent == Verify(topo) = {}

\* The store is a Multigraph: a walk of a node finds its edges and no other, a
\* reused slot starts with no edge, and the cascade leaves no edge behind
\* (append_out_edge, delete_edge, delete_node).
Live(k) == topo.used[k]

Graph == INSTANCE Multigraph WITH
    Nodes <- Nodes, Edges <- Edges,
    nodes <- Live("node"),
    ends  <- [e \in Live("edge") |-> <<topo.edge[e].from, topo.edge[e].to>>],
    outs  <- [n \in Live("node") |-> Walk(topo, n, "out")],
    ins   <- [n \in Live("node") |-> Walk(topo, n, "in")]

ImplementsMultigraph == Graph!Spec
==============================================================================
