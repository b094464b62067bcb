---------------------------- MODULE Topology_proofs ----------------------------
(***************************************************************************)
(* Proofs about Topology, for every number of pages and slots: the slot    *)
(* allocator never hands out a slot that is not there, and its hint never  *)
(* skips a free slot; the linked lists hold each edge once, in the list of *)
(* each of its ends, and the store implements Multigraph.                  *)
(***************************************************************************)
EXTENDS Topology, WellFoundedInduction, TLAPS

\* A state of the store with records in place and used slots on mapped pages.
Sound(s) ==
    /\ s \in States
    /\ \A k \in Kinds : /\ s.pages[k] <= MaxPages[k]
                        /\ s.used[k] \subseteq (0 .. s.pages[k] - 1) \X (0 .. Slots - 1)

\* The hint of each kind is on a page or behind the last, and passes full pages only.
Hinted(s) ==
    \A k \in Kinds : /\ s.hint[k] <= s.pages[k]
                     /\ \A p \in 0 .. s.hint[k] - 1 : Full(s, k, p)

\* The inductive invariant: TopologyTypeOK and HintExact, by states of the store.
IInv ==
    /\ Sound(topo) /\ Hinted(topo)
    /\ cascade \in [node : Nodes, edges : SUBSET Edges] \cup {None}

-----------------------------------------------------------------------------
\* A set of naturals that is not empty has a least member: what alloc_slot and the
\* scan for a page return.
LEMMA LeastExists ==
    ASSUME NEW S \in SUBSET Nat, S # {}
    PROVE  Least(S) \in S /\ \A j \in S : Least(S) <= j
<1> DEFINE R == {p \in Nat \X Nat : p[1] < p[2]}
<1>1. IsWellFoundedOn(R, Nat)
  BY NatLessThanWellFounded DEF OpToRel
<1>2. PICK x \in S : \A y \in S : ~ (<<y, x>> \in R)
  BY <1>1, WFMin
<1>3. ASSUME NEW y \in S PROVE x <= y
  <2>1. y \in Nat /\ x \in Nat
    OBVIOUS
  <2>2. <<y, x>> \in Nat \X Nat
    BY <2>1
  <2>3. ~ (y < x)
    BY <1>2, <2>2
  <2> QED  BY <2>1, <2>3
<1> HIDE DEF R
<1>4. \E i \in S : \A j \in S : i <= j
  BY <1>3
<1> QED  BY <1>4 DEF Least

\* The parts of a sound state, as the provers need them.
LEMMA SoundParts ==
    ASSUME NEW s, Sound(s), NEW k \in Kinds
    PROVE  /\ s.pages \in [Kinds -> Nat] /\ s.hint \in [Kinds -> Nat]
           /\ s.used \in [Kinds -> SUBSET (Nat \X Nat)]
           /\ s.node \in [Nodes -> NodeRecords] /\ s.edge \in [Edges -> EdgeRecords]
           /\ s.pages[k] \in Nat /\ s.hint[k] \in Nat
           /\ MaxPages[k] \in Nat /\ s.pages[k] <= MaxPages[k]
           /\ s.used[k] \subseteq (0 .. s.pages[k] - 1) \X (0 .. Slots - 1)
BY MaxPagesAssumption DEF Sound, States, Kinds

\* alloc_topology_slot stops at a page with a free slot, and has seen that those
\* between the hint and it are full.
LEMMA AllocPageFinds ==
    ASSUME NEW s, Sound(s), Hinted(s), NEW k \in Kinds
    PROVE  /\ AllocPage(s, k) \in Nat
           /\ s.hint[k] <= AllocPage(s, k) /\ AllocPage(s, k) <= s.pages[k]
           /\ \A p \in 0 .. AllocPage(s, k) - 1 : Full(s, k, p)
           /\ HintOf(s, k) = s.hint[k]
<1> DEFINE page == AllocPage(s, k)
           open == {p \in HintOf(s, k) .. s.pages[k] - 1 : ~ Full(s, k, p)}
<1>1. s.pages[k] \in Nat /\ s.hint[k] \in Nat
  BY SoundParts
<1>2. s.hint[k] <= s.pages[k] /\ \A p \in 0 .. s.hint[k] - 1 : Full(s, k, p)
  BY DEF Hinted
<1>3. HintOf(s, k) = s.hint[k]
  BY <1>1, <1>2 DEF HintOf
<1>4. page = IF open = {} THEN s.pages[k] ELSE Least(open)
  BY DEF AllocPage
<1>5. open \in SUBSET Nat
  BY <1>1, <1>3
<1>6. CASE open = {}
  <2>1. page = s.pages[k]
    BY <1>4, <1>6
  <2>2. ASSUME NEW p \in 0 .. page - 1, p >= s.hint[k] PROVE Full(s, k, p)
    BY <2>1, <2>2, <1>1, <1>3, <1>6
  <2> QED  BY <2>1, <2>2, <1>1, <1>2, <1>3
<1>7. CASE open # {}
  <2>1. page \in open /\ \A j \in open : page <= j
    BY <1>4, <1>5, <1>7, LeastExists
  <2> HIDE DEF page
  <2>2. page \in s.hint[k] .. s.pages[k] - 1
    BY <2>1, <1>3
  <2>3. ASSUME NEW p \in 0 .. page - 1, p >= s.hint[k] PROVE Full(s, k, p)
    <3>1. p \notin open
      BY <2>1, <2>2, <2>3, <1>1
    <3> QED  BY <3>1, <2>2, <2>3, <1>1, <1>3
  <2>4. \A p \in 0 .. page - 1 : Full(s, k, p)
    BY <2>2, <2>3, <1>1, <1>2
  <2> QED  BY <2>2, <2>4, <1>1, <1>3 DEF page
<1> QED  BY <1>6, <1>7

\* The page it stops at has a free slot: one of the directory by the scan, a new one
\* because no slot of it is used.
LEMMA AllocRidFree ==
    ASSUME NEW s, Sound(s), Hinted(s), NEW k \in Kinds
    PROVE  /\ AllocRid(s, k) \in {AllocPage(s, k)} \X (0 .. Slots - 1)
           /\ AllocRid(s, k) \notin s.used[k]
<1> DEFINE page == AllocPage(s, k)
           free == FreeSlots(s, k, page)
           open == {p \in HintOf(s, k) .. s.pages[k] - 1 : ~ Full(s, k, p)}
<1>1. Slots \in Nat \ {0}
  BY SlotsAssumption
<1>2. free \in SUBSET Nat
  BY <1>1 DEF FreeSlots
<1>3. free # {}
  <2>1. CASE open = {}
    <3>1. page = s.pages[k] /\ s.pages[k] \in Nat
      BY <2>1, SoundParts DEF AllocPage
    <3>2. <<page, 0>> \notin s.used[k]
      BY <3>1, SoundParts
    <3>3. 0 \in free
      BY <3>2, <1>1 DEF FreeSlots
    <3> QED  BY <3>3
  <2>2. CASE open # {}
    <3>1. open \in SUBSET Nat
      BY SoundParts, AllocPageFinds
    <3>2. page \in open
      BY <2>2, <3>1, LeastExists DEF AllocPage
    <3> QED  BY <3>2 DEF Full
  <2> QED  BY <2>1, <2>2
<1>4. Least(free) \in free
  BY <1>2, <1>3, LeastExists
<1>5. AllocRid(s, k) = <<page, Least(free)>>
  BY DEF AllocRid
<1> HIDE DEF page
<1> QED  BY <1>4, <1>5 DEF FreeSlots, page

\* alloc_topology_slot keeps the store sound and its hint exact.
LEMMA AllocSafe ==
    ASSUME NEW s, Sound(s), Hinted(s), NEW k \in Kinds, AllocPage(s, k) < MaxPages[k]
    PROVE  /\ Sound(Alloc(s, k)) /\ Hinted(Alloc(s, k))
           /\ AllocRid(s, k) \in Rids(k)
<1> DEFINE page == AllocPage(s, k)
           rid == AllocRid(s, k)
           pages == [s.pages EXCEPT ![k] = IF page = @ THEN @ + 1 ELSE @]
           used == [s.used EXCEPT ![k] = @ \cup {rid}]
           hint == IF page = s.hint[k] /\ page < s.pages[k] THEN s.hint
                   ELSE [s.hint EXCEPT ![k] = page]
           t == [s EXCEPT !.pages = pages, !.used = used, !.hint = hint]
<1>1. /\ page \in Nat /\ s.hint[k] <= page /\ page <= s.pages[k]
      /\ \A p \in 0 .. page - 1 : Full(s, k, p)
      /\ HintOf(s, k) = s.hint[k]
  BY AllocPageFinds
<1>2. rid \in {page} \X (0 .. Slots - 1)
  BY AllocRidFree
<1>3. s \in States
  BY DEF Sound
<1>4. Alloc(s, k) = t
  <2>1. AdvanceHint(s, k, page).hint = hint
    BY <1>1, <1>3 DEF AdvanceHint, States
  <2>2. TakeSlot(s, k) = [s EXCEPT !.pages = pages, !.used = used]
    BY <1>3 DEF TakeSlot, States
  <2> QED  BY <2>1, <2>2, <1>3 DEF Alloc, States
<1> HIDE DEF page, rid
<1>5. /\ t \in States
      /\ t.pages = pages /\ t.used = used /\ t.hint = hint
  <2>1. pages \in [Kinds -> Nat]
    BY <1>3, <1>1 DEF States
  <2>2. used \in [Kinds -> SUBSET (Nat \X Nat)]
    BY <1>3, <1>1, <1>2, SlotsAssumption DEF States
  <2>3. hint \in [Kinds -> Nat]
    BY <1>3, <1>1 DEF States
  <2> HIDE DEF pages, used, hint
  <2> QED  BY <2>1, <2>2, <2>3, <1>3 DEF States
<1>6. ASSUME NEW j \in Kinds
      PROVE  /\ s.pages[j] <= pages[j] /\ pages[j] <= MaxPages[j]
             /\ used[j] \subseteq (0 .. pages[j] - 1) \X (0 .. Slots - 1)
  <2>1. /\ s.pages[j] \in Nat /\ s.pages[j] <= MaxPages[j] /\ MaxPages[j] \in Nat
        /\ s.used[j] \subseteq (0 .. s.pages[j] - 1) \X (0 .. Slots - 1)
        /\ s.pages \in [Kinds -> Nat] /\ s.used \in [Kinds -> SUBSET (Nat \X Nat)]
    BY SoundParts
  <2>2. CASE j # k
    BY <2>1, <2>2
  <2>3. CASE j = k
    <3>1. pages[j] \in Nat /\ s.pages[j] <= pages[j] /\ page < pages[j] /\ pages[j] <= MaxPages[j]
      BY <2>1, <2>3, <1>1 DEF page
    <3>2. used[j] = s.used[j] \cup {rid}
      BY <2>1, <2>3
    <3>3. rid \in (0 .. pages[j] - 1) \X (0 .. Slots - 1)
      BY <3>1, <1>1, <1>2
    <3> HIDE DEF pages, used
    <3>4. s.used[j] \subseteq (0 .. pages[j] - 1) \X (0 .. Slots - 1)
      BY <2>1, <3>1
    <3> QED  BY <3>1, <3>2, <3>3, <3>4
  <2> QED  BY <2>2, <2>3
<1>7. Sound(t)
  <2> HIDE DEF pages, used, hint, t
  <2> QED  BY <1>5, <1>6 DEF Sound
<1>8. ASSUME NEW j \in Kinds, NEW p, Full(s, j, p) PROVE Full(t, j, p)
  <2>1. s.used[j] \subseteq t.used[j]
    <3>1. s.used \in [Kinds -> SUBSET (Nat \X Nat)]
      BY SoundParts
    <3> QED  BY <3>1, <1>5
  <2> HIDE DEF t
  <2> QED  BY <2>1, <1>8 DEF Full, FreeSlots
<1>9. ASSUME NEW j \in Kinds
      PROVE  hint[j] <= pages[j] /\ \A p \in 0 .. hint[j] - 1 : Full(t, j, p)
  <2>1. /\ s.hint \in [Kinds -> Nat] /\ s.pages \in [Kinds -> Nat]
    BY SoundParts
  <2>2. s.hint[j] <= s.pages[j] /\ \A p \in 0 .. s.hint[j] - 1 : Full(s, j, p)
    BY DEF Hinted
  <2>3. /\ hint[j] = IF j = k THEN page ELSE s.hint[j]
        /\ pages[j] = IF j = k /\ page = s.pages[j] THEN s.pages[j] + 1 ELSE s.pages[j]
    BY <2>1
  <2> HIDE DEF hint, pages, t
  <2>4. hint[j] <= pages[j]
    BY <2>1, <2>2, <2>3, <1>1
  <2>5. \A p \in 0 .. hint[j] - 1 : Full(s, j, p)
    BY <2>2, <2>3, <1>1
  <2> QED  BY <2>4, <2>5, <1>8
<1>10. Hinted(t)
  <2> HIDE DEF pages, used, hint, t
  <2> QED  BY <1>5, <1>9 DEF Hinted
<1>11. rid \in Rids(k)
  <2>1. MaxPages[k] \in Nat
    BY MaxPagesAssumption DEF Kinds
  <2> QED  BY <1>1, <1>2, <2>1 DEF Rids, page
<1> HIDE DEF t
<1> QED  BY <1>4, <1>7, <1>10, <1>11 DEF rid

-----------------------------------------------------------------------------
\* free_slot with back_off_topology_hint: the page of the freed slot is never left
\* below the hint.
LEMMA FreeSafe ==
    ASSUME NEW s, Sound(s), Hinted(s), NEW k \in Kinds, NEW r \in Rids(k)
    PROVE  Sound(Free(s, k, r)) /\ Hinted(Free(s, k, r))
<1> DEFINE used == [s.used EXCEPT ![k] = @ \ {r}]
           hint == IF r[1] < s.hint[k] THEN [s.hint EXCEPT ![k] = r[1]] ELSE s.hint
           t == [s EXCEPT !.used = used, !.hint = hint]
<1>1. s \in States
  BY DEF Sound
<1>2. r[1] \in Nat
  BY MaxPagesAssumption, SlotsAssumption DEF Rids, Kinds
<1>3. s.hint[k] \in Nat /\ s.pages[k] \in Nat /\ s.hint[k] <= s.pages[k]
  BY SoundParts DEF Hinted
<1>4. Free(s, k, r) = t
  <2> DEFINE c == ClearSlot(s, k, r)
  <2>1. c = [s EXCEPT !.used = used]
    BY <1>1 DEF ClearSlot, States
  <2>2. c.hint = s.hint /\ c.pages = s.pages
    BY <2>1, <1>1 DEF States
  <2> HIDE DEF c
  <2>3. HintOf(c, k) = s.hint[k]
    BY <2>2, <1>3 DEF HintOf
  <2>4. BackOffHint(c, k, r[1]) = t
    <3>1. CASE r[1] < s.hint[k]
      BY <3>1, <2>1, <2>2, <2>3, <1>1 DEF BackOffHint, States
    <3>2. CASE ~ (r[1] < s.hint[k])
      BY <3>2, <2>1, <2>2, <2>3, <1>1 DEF BackOffHint, States
    <3> QED  BY <3>1, <3>2
  <2> QED  BY <2>4 DEF Free, c
<1>5. /\ t \in States
      /\ t.pages = s.pages /\ t.used = used /\ t.hint = hint
  <2>1. used \in [Kinds -> SUBSET (Nat \X Nat)]
    BY <1>1 DEF States
  <2>2. hint \in [Kinds -> Nat]
    BY <1>1, <1>2 DEF States
  <2> HIDE DEF used, hint
  <2> QED  BY <2>1, <2>2, <1>1 DEF States
<1>6. \A j \in Kinds : used[j] \subseteq s.used[j]
  BY <1>1 DEF States
<1>7. Sound(t)
  <2> HIDE DEF used, hint, t
  <2>1. ASSUME NEW j \in Kinds
        PROVE  /\ s.pages[j] <= MaxPages[j]
               /\ used[j] \subseteq (0 .. s.pages[j] - 1) \X (0 .. Slots - 1)
    BY <1>6 DEF Sound
  <2> QED  BY <1>5, <2>1 DEF Sound
<1>8. ASSUME NEW j \in Kinds, NEW p, Full(s, j, p), j # k \/ p # r[1] PROVE Full(t, j, p)
  <2>1. \A i \in 0 .. Slots - 1 : <<p, i>> \in s.used[j] => <<p, i>> \in used[j]
    <3>1. CASE j # k
      BY <3>1, <1>1 DEF States
    <3>2. CASE j = k
      BY <3>2, <1>8, <1>1 DEF States
    <3> QED  BY <3>1, <3>2
  <2> HIDE DEF t
  <2> QED  BY <2>1, <1>5, <1>8 DEF Full, FreeSlots
<1>9. ASSUME NEW j \in Kinds
      PROVE  hint[j] <= s.pages[j] /\ \A p \in 0 .. hint[j] - 1 : Full(t, j, p)
  <2>1. /\ s.hint \in [Kinds -> Nat] /\ s.hint[j] \in Nat /\ s.pages[j] \in Nat
    BY SoundParts
  <2>2. s.hint[j] <= s.pages[j] /\ \A p \in 0 .. s.hint[j] - 1 : Full(s, j, p)
    BY DEF Hinted
  <2>3. hint[j] = IF j = k /\ r[1] < s.hint[k] THEN r[1] ELSE s.hint[j]
    BY <2>1
  <2> HIDE DEF hint, t
  <2>4. hint[j] \in Nat /\ hint[j] <= s.hint[j] /\ (j = k => hint[j] <= r[1])
    BY <2>1, <2>3, <1>2
  <2>5. hint[j] <= s.pages[j]
    BY <2>1, <2>2, <2>4
  <2>6. ASSUME NEW p \in 0 .. hint[j] - 1 PROVE Full(t, j, p)
    <3>1. p \in 0 .. s.hint[j] - 1 /\ (j = k => p # r[1])
      BY <2>1, <2>4, <1>2
    <3> QED  BY <3>1, <2>2, <1>8
  <2> QED  BY <2>5, <2>6
<1>10. Hinted(t)
  <2> HIDE DEF used, hint, t
  <2> QED  BY <1>5, <1>9 DEF Hinted
<1> HIDE DEF t
<1> QED  BY <1>4, <1>7, <1>10

-----------------------------------------------------------------------------
\* A state that differs in the records only, as the list operations leave it.
SameSlots(s, t) == t.pages = s.pages /\ t.hint = s.hint /\ t.used = s.used

\* Hinted speaks of slots alone: write_node and write_edge leave them as they are.
LEMMA SameSlotsHinted ==
    ASSUME NEW s, NEW t, SameSlots(s, t), Hinted(s)
    PROVE  Hinted(t)
BY DEF SameSlots, Hinted, Full, FreeSlots

\* write_node touches no slot.
LEMMA WriteNodeSafe ==
    ASSUME NEW s, Sound(s), Hinted(s), NEW n \in NodeRecords
    PROVE  Sound(WriteNode(s, n)) /\ Hinted(WriteNode(s, n))
<1> DEFINE t == WriteNode(s, n)
<1>1. s \in States
  BY DEF Sound
<1>2. n.id \in Nodes
  BY DEF NodeRecords
<1>3. t \in States /\ SameSlots(s, t)
  <2>1. [s.node EXCEPT ![n.id] = n] \in [Nodes -> NodeRecords]
    BY <1>1 DEF States
  <2>2. t = [s EXCEPT !.node = [s.node EXCEPT ![n.id] = n]]
    BY <1>1 DEF WriteNode, States
  <2> QED  BY <2>1, <2>2, <1>1 DEF States, SameSlots
<1> HIDE DEF t
<1>4. Sound(t)
  BY <1>3 DEF Sound, SameSlots
<1> QED  BY <1>3, <1>4, SameSlotsHinted DEF t

\* write_edge touches no slot.
LEMMA WriteEdgeSafe ==
    ASSUME NEW s, Sound(s), Hinted(s), NEW e \in EdgeRecords
    PROVE  Sound(WriteEdge(s, e)) /\ Hinted(WriteEdge(s, e))
<1> DEFINE t == WriteEdge(s, e)
<1>1. s \in States
  BY DEF Sound
<1>2. e.id \in Edges
  BY DEF EdgeRecords
<1>3. t \in States /\ SameSlots(s, t)
  <2>1. [s.edge EXCEPT ![e.id] = e] \in [Edges -> EdgeRecords]
    BY <1>1 DEF States
  <2>2. t = [s EXCEPT !.edge = [s.edge EXCEPT ![e.id] = e]]
    BY <1>1 DEF WriteEdge, States
  <2> QED  BY <2>1, <2>2, <1>1 DEF States, SameSlots
<1> HIDE DEF t
<1>4. Sound(t)
  BY <1>3 DEF Sound, SameSlots
<1> QED  BY <1>3, <1>4, SameSlotsHinted DEF t

\* The two lists of a node or an edge.
Dirs == {"out", "in"}

\* The records of a sound store, and what a list operation writes in their place.
LEMMA RelinkedRecords ==
    ASSUME NEW s, Sound(s), NEW d \in Dirs, NEW x \in Edges \cup {None}
    PROVE  /\ \A n \in Nodes : /\ s.node[n] \in NodeRecords /\ s.node[n][d] \in Edges \cup {None}
                               /\ [s.node[n] EXCEPT ![d] = x] \in NodeRecords
           /\ \A e \in Edges : /\ s.edge[e] \in EdgeRecords /\ s.edge[e][d] \in Edges \cup {None}
                               /\ [s.edge[e] EXCEPT ![d] = x] \in EdgeRecords
<1>1. s.node \in [Nodes -> NodeRecords] /\ s.edge \in [Edges -> EdgeRecords]
  BY DEF Sound, States
<1>2. ASSUME NEW r \in NodeRecords
      PROVE  r[d] \in Edges \cup {None} /\ [r EXCEPT ![d] = x] \in NodeRecords
  <2>1. CASE d = "out"
    BY <2>1 DEF NodeRecords
  <2>2. CASE d = "in"
    BY <2>2 DEF NodeRecords
  <2> QED  BY <2>1, <2>2 DEF Dirs
<1>3. ASSUME NEW r \in EdgeRecords
      PROVE  r[d] \in Edges \cup {None} /\ [r EXCEPT ![d] = x] \in EdgeRecords
  <2>1. CASE d = "out"
    BY <2>1 DEF EdgeRecords
  <2>2. CASE d = "in"
    BY <2>2 DEF EdgeRecords
  <2> QED  BY <2>1, <2>2 DEF Dirs
<1> QED  BY <1>1, <1>2, <1>3

\* append_out_edge and append_in_edge put an edge at the head of a list of a node.
LEMMA AppendSafe ==
    ASSUME NEW s, Sound(s), Hinted(s), NEW n \in Nodes, NEW e \in Edges, NEW d \in Dirs
    PROVE  Sound(AppendEdge(s, n, e, d)) /\ Hinted(AppendEdge(s, n, e, d))
<1> DEFINE t == LinkEdge(s, n, e, d)
<1>1. Sound(t) /\ Hinted(t)
  <2>1. s.node[n][d] \in Edges \cup {None}
    BY RelinkedRecords
  <2>2. [s.edge[e] EXCEPT ![d] = s.node[n][d]] \in EdgeRecords
    BY <2>1, RelinkedRecords
  <2> QED  BY <2>2, WriteEdgeSafe DEF LinkEdge
<1> HIDE DEF t
<1>2. [t.node[n] EXCEPT ![d] = e] \in NodeRecords
  BY <1>1, RelinkedRecords
<1>3. Sound(LinkNode(t, n, e, d)) /\ Hinted(LinkNode(t, n, e, d))
  BY <1>1, <1>2, WriteNodeSafe DEF LinkNode
<1> QED  BY <1>3 DEF AppendEdge, t

\* remove_from_out_list and remove_from_in_list write the node or an edge of its list.
LEMMA UnlinkSafe ==
    ASSUME NEW s, Sound(s), Hinted(s), NEW n \in Nodes, NEW target,
           NEW next \in Edges \cup {None}, NEW d \in Dirs
    PROVE  Sound(Unlink(s, n, target, next, d)) /\ Hinted(Unlink(s, n, target, next, d))
<1> DEFINE before == {f \in Walk(s, n, d) : s.edge[f][d] = target}
           f == CHOOSE g \in before : TRUE
<1>1. CASE s.node[n][d] = target
  <2>1. [s.node[n] EXCEPT ![d] = next] \in NodeRecords
    BY RelinkedRecords
  <2> QED  BY <1>1, <2>1, WriteNodeSafe DEF Unlink
<1>2. CASE s.node[n][d] # target /\ before = {}
  BY <1>2 DEF Unlink
<1>3. CASE s.node[n][d] # target /\ before # {}
  <2>1. f \in Edges
    BY <1>3 DEF Walk
  <2>2. Unlink(s, n, target, next, d) = WriteEdge(s, [s.edge[f] EXCEPT ![d] = next])
    BY <1>3 DEF Unlink
  <2> HIDE DEF f
  <2>3. [s.edge[f] EXCEPT ![d] = next] \in EdgeRecords
    BY <2>1, RelinkedRecords
  <2> QED  BY <2>2, <2>3, WriteEdgeSafe
<1> QED  BY <1>1, <1>2, <1>3

\* delete_edge unlinks an edge from both lists and frees its slot.
LEMMA RemoveEdgeSafe ==
    ASSUME NEW s, Sound(s), Hinted(s), NEW e \in Edges
    PROVE  Sound(RemoveEdge(s, e)) /\ Hinted(RemoveEdge(s, e))
<1> DEFINE s1 == Unlink(s, s.edge[e].from, e, s.edge[e].out, "out")
           s2 == Unlink(s1, s.edge[e].to, e, s.edge[e].in, "in")
<1>1. /\ s.edge[e].from \in Nodes /\ s.edge[e].to \in Nodes
      /\ s.edge[e].out \in Edges \cup {None} /\ s.edge[e].in \in Edges \cup {None}
  BY DEF Sound, States, EdgeRecords
<1>2. "out" \in Dirs /\ "in" \in Dirs
  BY DEF Dirs
<1>3. Sound(s1) /\ Hinted(s1)
  BY <1>1, <1>2, UnlinkSafe
<1> HIDE DEF s1
<1>4. Sound(s2) /\ Hinted(s2)
  BY <1>1, <1>2, <1>3, UnlinkSafe
<1> HIDE DEF s2
<1>5. "edge" \in Kinds /\ e \in Rids("edge")
  BY DEF Kinds, Edges
<1>6. Sound(Free(s2, "edge", e)) /\ Hinted(Free(s2, "edge", e))
  BY <1>4, <1>5, FreeSafe
<1> QED  BY <1>6 DEF RemoveEdge, s1, s2

-----------------------------------------------------------------------------
(* The calls of db.rs. *)

\* insert_node: a slot and an isolated record in it.
LEMMA InsertNodeSafe ==
    ASSUME IInv, InsertNode
    PROVE  IInv'
<1> DEFINE rid == AllocRid(topo, "node")
           s == Alloc(topo, "node")
<1>1. /\ Sound(topo) /\ Hinted(topo) /\ "node" \in Kinds
      /\ AllocPage(topo, "node") < MaxPages["node"]
  BY DEF IInv, InsertNode, Room, Kinds
<1>2. Sound(s) /\ Hinted(s) /\ rid \in Nodes
  BY <1>1, AllocSafe DEF Nodes
<1>3. topo' = WriteNode(s, NewNode(rid)) /\ cascade' = cascade
  BY DEF InsertNode
<1> HIDE DEF s, rid
<1>4. NewNode(rid) \in NodeRecords
  BY <1>2 DEF NewNode, NodeRecords
<1>5. Sound(topo') /\ Hinted(topo')
  BY <1>2, <1>3, <1>4, WriteNodeSafe
<1> QED  BY <1>3, <1>5 DEF IInv

\* insert_edge: a slot, its record, and the head of two lists.
LEMMA InsertEdgeSafe ==
    ASSUME IInv, NEW from \in Nodes, NEW to \in Nodes, InsertEdge(from, to)
    PROVE  IInv'
<1> DEFINE e  == AllocRid(topo, "edge")
           s  == Alloc(topo, "edge")
           s1 == WriteEdge(s, NewEdge(e, from, to))
           s2 == AppendEdge(s1, from, e, "out")
<1>1. /\ Sound(topo) /\ Hinted(topo) /\ "edge" \in Kinds
      /\ AllocPage(topo, "edge") < MaxPages["edge"]
  BY DEF IInv, InsertEdge, Room, Kinds
<1>2. Sound(s) /\ Hinted(s) /\ e \in Edges
  BY <1>1, AllocSafe DEF Edges
<1>3. topo' = AppendEdge(s2, to, e, "in") /\ cascade' = cascade
  BY DEF InsertEdge
<1>4. "out" \in Dirs /\ "in" \in Dirs
  BY DEF Dirs
<1> HIDE DEF s, e
<1>5. NewEdge(e, from, to) \in EdgeRecords
  BY <1>2 DEF NewEdge, EdgeRecords
<1>6. Sound(s1) /\ Hinted(s1)
  BY <1>2, <1>5, WriteEdgeSafe
<1> HIDE DEF s1
<1>7. Sound(s2) /\ Hinted(s2)
  BY <1>2, <1>4, <1>6, AppendSafe
<1> HIDE DEF s2
<1>8. Sound(topo') /\ Hinted(topo')
  BY <1>2, <1>3, <1>4, <1>7, AppendSafe
<1> QED  BY <1>3, <1>8 DEF IInv

\* The delete_edge of db.rs checks that the edge is used, then removes it.
LEMMA DeleteEdgeSafe ==
    ASSUME IInv, NEW e \in Edges, DeleteEdge(e)
    PROVE  IInv'
BY RemoveEdgeSafe DEF IInv, DeleteEdge

\* delete_node reads both lists of the node.
LEMMA DeleteNodeSafe ==
    ASSUME IInv, NEW n \in Nodes, DeleteNode(n)
    PROVE  IInv'
<1>1. topo' = topo /\ cascade' = [node |-> n, edges |-> Incident(topo, n)]
  BY DEF DeleteNode
<1>2. \A e \in Edges : topo.edge[e].id \in Edges
  BY DEF IInv, Sound, States, EdgeRecords
<1>3. Incident(topo, n) \in SUBSET Edges
  BY <1>2 DEF Incident, Walk
<1> QED  BY <1>1, <1>3 DEF IInv, Hinted, Sound

\* An edge of the cascade is one that delete_node found in a list.
LEMMA DeleteIncidentSafe ==
    ASSUME IInv, NEW e \in Edges, DeleteIncident(e)
    PROVE  IInv'
<1>1. Sound(topo') /\ Hinted(topo')
  BY RemoveEdgeSafe DEF IInv, DeleteIncident
<1>2. cascade' \in [node : Nodes, edges : SUBSET Edges] \cup {None}
  BY DEF IInv, DeleteIncident
<1> QED  BY <1>1, <1>2 DEF IInv

\* The cascade ends with the slot of the node.
LEMMA FreeNodeSafe ==
    ASSUME IInv, FreeNode
    PROVE  IInv'
<1>1. cascade.node \in Rids("node") /\ "node" \in Kinds
  BY DEF IInv, FreeNode, Nodes, Kinds
<1>2. Sound(topo') /\ Hinted(topo')
  BY <1>1, FreeSafe DEF IInv, FreeNode
<1> QED  BY <1>2 DEF IInv, FreeNode

-----------------------------------------------------------------------------
\* An empty database has no page of either kind; the hints are at zero.
LEMMA InitInv == TopologyInit => IInv
<1> SUFFICES ASSUME TopologyInit PROVE IInv
  OBVIOUS
<1>1. topo = Empty /\ cascade = None
  BY DEF TopologyInit
<1>2. ZeroRid \in Nodes /\ ZeroRid \in Edges
  BY MaxPagesAssumption, SlotsAssumption DEF ZeroRid, Nodes, Edges, Rids
<1>3. ZeroNode \in NodeRecords /\ ZeroEdge \in EdgeRecords
  BY <1>2 DEF ZeroNode, ZeroEdge, NodeRecords, EdgeRecords
<1>4. Empty \in States
  BY <1>3 DEF Empty, States
<1>5. \A k \in Kinds : Empty.pages[k] = 0 /\ Empty.hint[k] = 0 /\ Empty.used[k] = {}
  BY DEF Empty
<1>6. Sound(Empty) /\ Hinted(Empty)
  BY <1>4, <1>5, MaxPagesAssumption DEF Sound, Hinted, Kinds
<1> QED  BY <1>1, <1>6 DEF IInv

\* Every call, and every step of a cascade, keeps the invariant.
LEMMA StepInv == IInv /\ [TopologyNext]_topologyVars => IInv'
<1> SUFFICES ASSUME IInv, [TopologyNext]_topologyVars PROVE IInv'
  OBVIOUS
<1>1. CASE InsertNode
  BY <1>1, InsertNodeSafe
<1>2. CASE FreeNode
  BY <1>2, FreeNodeSafe
<1>3. ASSUME NEW n \in Nodes, DeleteNode(n) PROVE IInv'
  BY <1>3, DeleteNodeSafe
<1>4. ASSUME NEW from \in Nodes, NEW to \in Nodes, InsertEdge(from, to) PROVE IInv'
  BY <1>4, InsertEdgeSafe
<1>5. ASSUME NEW e \in Edges, DeleteEdge(e) PROVE IInv'
  BY <1>5, DeleteEdgeSafe
<1>6. ASSUME NEW e \in Edges, DeleteIncident(e) PROVE IInv'
  BY <1>6, DeleteIncidentSafe
<1>7. CASE UNCHANGED topologyVars
  BY <1>7 DEF topologyVars, IInv, Sound, Hinted
<1> QED  BY <1>1, <1>2, <1>3, <1>4, <1>5, <1>6, <1>7 DEF TopologyNext

\* Every reachable state of the store is sound and hinted: alloc_topology_slot and
\* free_slot keep the directory, the bitmaps and the hints in step.
THEOREM Invariance == TopologySpec => []IInv
BY InitInv, StepInv, PTL DEF TopologySpec

\* No record id handed out or stored lies outside the pages of its kind, whatever
\* the order of calls, and every reference of a record is a record id or absent.
THEOREM TypeCorrect == TopologySpec => []TopologyTypeOK
<1>1. IInv => TopologyTypeOK
  BY DEF IInv, TopologyTypeOK, Sound
<1> QED  BY <1>1, Invariance, PTL

\* "Pages below the hint are full" (alloc_topology_slot): a slot that a delete or a
\* cascade frees is handed out again before the file grows.
THEOREM HintIsExact == TopologySpec => []HintExact
<1>1. IInv => HintExact
  BY DEF IInv, HintExact, Hinted
<1> QED  BY <1>1, Invariance, PTL

-----------------------------------------------------------------------------
(* The lists of one direction, as functions: head is the first edge of each node, next the one   *)
(* behind each edge, at the node in whose list an edge is.                                       *)

Pointers(head, next, at) ==
    /\ head \in [Nodes -> Edges \cup {None}] /\ next \in [Edges -> Edges \cup {None}]
    /\ at \in [Edges -> Nodes]

\* The edges E hang in the lists of the nodes N, each at its end node: a list stays at its node, every
\* edge has something that points to it, nothing points where another points, and ranks fall along
\* a list.
Hung(N, E, head, next, at) ==
    /\ \A n \in N : head[n] # None => head[n] \in E /\ at[head[n]] = n
    /\ \A e \in E : at[e] \in N /\ (next[e] # None => next[e] \in E /\ at[next[e]] = at[e])
    /\ \A e \in E : head[at[e]] = e \/ \E f \in E : next[f] = e

Single(N, E, head, next) ==
    /\ \A n \in N, f \in E : head[n] # None => next[f] # head[n]
    /\ \A f, g \in E : next[f] = next[g] /\ next[f] # None => f = g

Ranked(E, next, rank, bound) ==
    /\ bound \in Nat /\ rank \in [Edges -> 0 .. bound]
    /\ \A e \in E : next[e] # None => rank[next[e]] < rank[e]

Lists(N, E, head, next, at) ==
    /\ Pointers(head, next, at) /\ N \subseteq Nodes /\ E \subseteq Edges
    /\ Hung(N, E, head, next, at) /\ Single(N, E, head, next)
    /\ \E rank, bound : Ranked(E, next, rank, bound)

\* A set of edges with the head of a list and what follows its members.
Closed(R, head, next, n) ==
    /\ head[n] \in R \cup {None}
    /\ \A f \in R : next[f] \in R \cup {None}

LEMMA NoneIsNoEdge == None \notin Edges /\ None \notin Nodes
<1>1. MaxPages["edge"] \in Nat /\ MaxPages["node"] \in Nat /\ Slots \in Nat
  BY MaxPagesAssumption, SlotsAssumption
<1>2. Edges \subseteq Nat \X Nat /\ Nodes \subseteq Nat \X Nat
  BY <1>1 DEF Edges, Nodes, Rids
<1> QED  BY <1>2, NoneAssumption

\* A set of ranked edges has one of the highest rank, and one of the lowest.
LEMMA HighestRank ==
    ASSUME NEW E \in SUBSET Edges, E # {}, NEW bound \in Nat, NEW rank \in [Edges -> 0 .. bound]
    PROVE  \E e \in E : \A f \in E : rank[f] <= rank[e]
<1> DEFINE S == {bound - rank[e] : e \in E}
<1>1. \A e \in E : rank[e] \in 0 .. bound
  OBVIOUS
<1>2. S \in SUBSET Nat /\ S # {}
  BY <1>1
<1>3. Least(S) \in S /\ \A j \in S : Least(S) <= j
  BY <1>2, LeastExists
<1>4. PICK e \in E : Least(S) = bound - rank[e]
  BY <1>3
<1>5. ASSUME NEW f \in E PROVE rank[f] <= rank[e]
  <2>1. bound - rank[f] \in S
    OBVIOUS
  <2>2. bound - rank[e] <= bound - rank[f]
    BY <2>1, <1>3, <1>4
  <2> QED  BY <2>2, <1>1
<1> QED  BY <1>5

LEMMA LowestRank ==
    ASSUME NEW E \in SUBSET Edges, E # {}, NEW bound \in Nat, NEW rank \in [Edges -> 0 .. bound]
    PROVE  \E e \in E : \A f \in E : rank[e] <= rank[f]
<1> DEFINE S == {rank[e] : e \in E}
<1>1. S \in SUBSET Nat /\ S # {}
  OBVIOUS
<1>2. Least(S) \in S /\ \A j \in S : Least(S) <= j
  BY <1>1, LeastExists
<1> QED  BY <1>2

\* A walk of a node finds the edges that hang at it, and no other: what it did not find would have an edge
\* of the highest rank, and what points to that one would be higher.
LEMMA WalkOfLists ==
    ASSUME NEW N, NEW E, NEW head, NEW next, NEW at, Lists(N, E, head, next, at), NEW n \in N
    PROVE  {e \in Edges : \A R \in SUBSET Edges : Closed(R, head, next, n) => e \in R} = {e \in E : at[e] = n}
<1> DEFINE S == {e \in E : at[e] = n}
<1>1. E \subseteq Edges /\ N \subseteq Nodes /\ Hung(N, E, head, next, at)
  BY DEF Lists
<1>2. Closed(S, head, next, n)
  BY <1>1 DEF Hung, Closed
<1>3. ASSUME NEW R \in SUBSET Edges, Closed(R, head, next, n) PROVE S \subseteq R
  <2> SUFFICES ASSUME S \ R # {} PROVE FALSE
    OBVIOUS
  <2>1. PICK rank, bound : Ranked(E, next, rank, bound)
    BY DEF Lists
  <2>2. PICK e \in S \ R : \A f \in S \ R : rank[f] <= rank[e]
    BY <1>1, <2>1, HighestRank DEF Ranked
  <2>3. e \in E /\ at[e] = n /\ e \notin R /\ e # None
    BY <2>2, <1>1, NoneIsNoEdge
  <2>4. head[n] # e
    BY <1>3, <2>3 DEF Closed
  <2>5. PICK f \in E : next[f] = e
    BY <2>3, <2>4, <1>1 DEF Hung
  <2>6. at[f] = n /\ rank[e] < rank[f] /\ rank[e] \in Nat /\ rank[f] \in Nat
    <3>1. at[f] = n
      BY <2>3, <2>5, <1>1 DEF Hung
    <3>2. rank[e] < rank[f]
      BY <2>1, <2>3, <2>5 DEF Ranked
    <3>3. rank[e] \in Nat /\ rank[f] \in Nat
      BY <2>1, <2>3, <2>5, <1>1 DEF Ranked
    <3> QED  BY <3>1, <3>2, <3>3
  <2>7. f \notin R
    BY <1>3, <2>3, <2>5 DEF Closed
  <2>8. rank[f] <= rank[e]
    BY <2>2, <2>6, <2>7
  <2> QED  BY <2>6, <2>8
<1> QED  BY <1>1, <1>2, <1>3

\* A list that is not empty has a last edge.
LEMMA ListEnds ==
    ASSUME NEW N, NEW E, NEW head, NEW next, NEW at, Lists(N, E, head, next, at), NEW n \in N, head[n] # None
    PROVE  \E e \in E : at[e] = n /\ next[e] = None
<1> DEFINE S == {e \in E : at[e] = n}
<1>1. E \subseteq Edges /\ Hung(N, E, head, next, at)
  BY DEF Lists
<1>2. S # {} /\ S \in SUBSET Edges
  BY <1>1 DEF Hung
<1>3. PICK rank, bound : Ranked(E, next, rank, bound)
  BY DEF Lists
<1>4. PICK e \in S : \A f \in S : rank[e] <= rank[f]
  BY <1>2, <1>3, LowestRank DEF Ranked
<1>5. ASSUME next[e] # None PROVE FALSE
  <2>1. next[e] \in S /\ rank[next[e]] < rank[e]
    BY <1>1, <1>3, <1>5 DEF Hung, Ranked
  <2>2. rank[e] \in Nat /\ rank[next[e]] \in Nat
    BY <2>1, <1>1, <1>3 DEF Ranked
  <2> QED  BY <2>1, <2>2, <1>4
<1> QED  BY <1>5

-----------------------------------------------------------------------------
(* What the calls do to the lists of a direction. *)

\* What lies outside the nodes and edges does not matter.
LEMMA SameLists ==
    ASSUME NEW N, NEW E, NEW head, NEW next, NEW at, Lists(N, E, head, next, at),
           NEW h, NEW x, NEW a, Pointers(h, x, a),
           \A n \in N : h[n] = head[n], \A e \in E : x[e] = next[e] /\ a[e] = at[e]
    PROVE  Lists(N, E, h, x, a)
<1>1. /\ N \subseteq Nodes /\ E \subseteq Edges
      /\ Hung(N, E, head, next, at) /\ Single(N, E, head, next)
  BY DEF Lists
<1>2. Hung(N, E, h, x, a)
  <2>1. \A n \in N : h[n] # None => h[n] \in E /\ a[h[n]] = n
    BY <1>1 DEF Hung
  <2>2. \A e \in E : a[e] \in N /\ (x[e] # None => x[e] \in E /\ a[x[e]] = a[e])
    BY <1>1 DEF Hung
  <2>3. \A e \in E : h[a[e]] = e \/ \E f \in E : x[f] = e
    <3> SUFFICES ASSUME NEW e \in E PROVE h[a[e]] = e \/ \E f \in E : x[f] = e
      OBVIOUS
    <3>1. head[at[e]] = e \/ \E f \in E : next[f] = e
      BY <1>1 DEF Hung
    <3>2. a[e] = at[e] /\ at[e] \in N
      BY <1>1 DEF Hung
    <3> QED  BY <3>1, <3>2
  <2> QED  BY <2>1, <2>2, <2>3 DEF Hung
<1>3. Single(N, E, h, x)
  BY <1>1 DEF Single
<1>4. PICK rank, bound : Ranked(E, next, rank, bound)
  BY DEF Lists
<1>5. Ranked(E, x, rank, bound)
  BY <1>4 DEF Ranked
<1> QED  BY <1>1, <1>2, <1>3, <1>5 DEF Lists

\* append_out_edge and append_in_edge.
LEMMA PushLists ==
    ASSUME NEW N, NEW E, NEW head, NEW next, NEW at, Lists(N, E, head, next, at),
           NEW n \in N, NEW e \in Edges \ E, at[e] = n
    PROVE  Lists(N, E \cup {e}, [head EXCEPT ![n] = e], [next EXCEPT ![e] = head[n]], at)
<1> DEFINE h == [head EXCEPT ![n] = e]
           x == [next EXCEPT ![e] = head[n]]
           D == E \cup {e}
<1>1. /\ N \subseteq Nodes /\ E \subseteq Edges /\ Pointers(head, next, at)
      /\ Hung(N, E, head, next, at) /\ Single(N, E, head, next) /\ e # None
  BY NoneIsNoEdge DEF Lists
<1>2. /\ \A m \in N : h[m] = IF m = n THEN e ELSE head[m]
      /\ \A f \in D : x[f] = IF f = e THEN head[n] ELSE next[f]
      /\ Pointers(h, x, at) /\ D \subseteq Edges
  BY <1>1 DEF Pointers
<1> HIDE DEF h, x
<1>3. Hung(N, D, h, x, at)
  <2>1. ASSUME NEW m \in N, h[m] # None PROVE h[m] \in D /\ at[h[m]] = m
    BY <2>1, <1>1, <1>2 DEF Hung
  <2>2. ASSUME NEW f \in D PROVE at[f] \in N /\ (x[f] # None => x[f] \in D /\ at[x[f]] = at[f])
    BY <1>1, <1>2 DEF Hung
  <2>3. ASSUME NEW f \in D PROVE h[at[f]] = f \/ \E g \in D : x[g] = f
    <3>1. CASE f = e
      BY <3>1, <1>2
    <3>2. CASE f \in E /\ head[at[f]] = f
      <4>1. at[f] \in N
        BY <3>2, <1>1 DEF Hung
      <4>2. CASE at[f] = n
        BY <4>2, <3>2, <1>2
      <4>3. CASE at[f] # n
        BY <4>1, <4>3, <3>2, <1>2
      <4> QED  BY <4>2, <4>3
    <3>3. CASE f \in E /\ \E g \in E : next[g] = f
      BY <3>3, <1>2
    <3> QED  BY <3>1, <3>2, <3>3, <1>1 DEF Hung
  <2> QED  BY <2>1, <2>2, <2>3 DEF Hung
<1>4. Single(N, D, h, x)
  <2>1. ASSUME NEW m \in N, NEW f \in D, h[m] # None, x[f] = h[m] PROVE FALSE
    <3>1. CASE m = n
      <4>1. x[f] = e
        BY <2>1, <3>1, <1>2
      <4>2. x[f] \in E \cup {None}
        BY <1>1, <1>2 DEF Hung
      <4> QED  BY <4>1, <4>2, <1>1
    <3>2. CASE m # n /\ f = e
      <4>1. head[n] = head[m] /\ head[m] # None
        BY <2>1, <3>2, <1>2
      <4> QED  BY <4>1, <3>2, <1>1 DEF Hung
    <3>3. CASE m # n /\ f # e
      BY <2>1, <3>3, <1>1, <1>2 DEF Single
    <3> QED  BY <3>1, <3>2, <3>3
  <2>2. ASSUME NEW f \in D, NEW g \in D, x[f] = x[g], x[f] # None PROVE f = g
    BY <2>2, <1>1, <1>2 DEF Single
  <2> QED  BY <2>1, <2>2 DEF Single
<1>5. PICK rank, bound : Ranked(E, next, rank, bound)
  BY DEF Lists
<1>6. \E r : Ranked(D, x, r, bound + 1)
  <2> DEFINE r == [f \in Edges |-> IF f = e THEN IF head[n] = None THEN 0 ELSE rank[head[n]] + 1 ELSE rank[f]]
  <2>1. bound \in Nat /\ \A f \in Edges : rank[f] \in 0 .. bound
    BY <1>5 DEF Ranked
  <2>2. head[n] # None => head[n] \in E
    BY <1>1 DEF Hung
  <2>3. r \in [Edges -> 0 .. bound + 1]
    <3>1. ASSUME NEW f \in Edges PROVE r[f] \in 0 .. bound + 1
      <4>1. CASE f # e
        BY <4>1, <2>1
      <4>2. CASE f = e /\ head[n] = None
        BY <4>2, <2>1
      <4>3. CASE f = e /\ head[n] # None
        <5>1. rank[head[n]] \in 0 .. bound
          BY <4>3, <2>1, <2>2, <1>1
        <5> QED  BY <5>1, <4>3, <2>1
      <4> QED  BY <4>1, <4>2, <4>3
    <3> QED  BY <3>1
  <2>4. ASSUME NEW f \in D, x[f] # None PROVE r[x[f]] < r[f]
    <3>1. CASE f = e
      <4>1. x[f] = head[n] /\ head[n] \in E /\ head[n] # e
        BY <2>4, <3>1, <1>2, <2>2
      <4>2. r[f] = rank[head[n]] + 1 /\ r[x[f]] = rank[head[n]] /\ rank[head[n]] \in Nat
        BY <4>1, <3>1, <2>4, <2>1, <1>1
      <4> QED  BY <4>2
    <3>2. CASE f # e
      <4>1. f \in E /\ x[f] = next[f] /\ next[f] \in E /\ next[f] # e
        BY <3>2, <2>4, <1>1, <1>2 DEF Hung
      <4>2. r[f] = rank[f] /\ r[x[f]] = rank[next[f]]
        BY <4>1, <3>2, <1>1
      <4> QED  BY <4>1, <4>2, <2>4, <1>5 DEF Ranked
    <3> QED  BY <3>1, <3>2
  <2>5. bound + 1 \in Nat
    BY <2>1
  <2> HIDE DEF r
  <2> QED  BY <2>3, <2>4, <2>5 DEF Ranked
<1> QED  BY <1>1, <1>2, <1>3, <1>4, <1>6 DEF Lists, h, x

\* remove_from_out_list and remove_from_in_list: what pointed to the edge points past it.
LEMMA DropLists ==
    ASSUME NEW N, NEW E, NEW head, NEW next, NEW at, Lists(N, E, head, next, at), NEW e \in E,
           NEW h, NEW x, Pointers(h, x, at),
           \A n \in N : h[n] = IF head[n] = e THEN next[e] ELSE head[n],
           \A f \in E : x[f] = IF next[f] = e THEN next[e] ELSE next[f]
    PROVE  Lists(N, E \ {e}, h, x, at)
<1> DEFINE D == E \ {e}
<1>1. /\ N \subseteq Nodes /\ E \subseteq Edges /\ e # None
      /\ Hung(N, E, head, next, at) /\ Single(N, E, head, next)
  BY NoneIsNoEdge DEF Lists
<1>2. PICK rank, bound : Ranked(E, next, rank, bound)
  BY DEF Lists
<1>3. \A f \in E : /\ rank[f] \in Nat
                   /\ next[f] # None => next[f] \in E /\ at[next[f]] = at[f] /\ rank[next[f]] < rank[f]
  BY <1>1, <1>2 DEF Ranked, Hung
<1>4. next[e] # e
  BY <1>1, <1>3
<1>5. Hung(N, D, h, x, at)
  <2>1. ASSUME NEW m \in N, h[m] # None PROVE h[m] \in D /\ at[h[m]] = m
    BY <2>1, <1>1, <1>3, <1>4 DEF Hung
  <2>2. ASSUME NEW f \in D PROVE at[f] \in N /\ (x[f] # None => x[f] \in D /\ at[x[f]] = at[f])
    <3>1. at[f] \in N
      BY <1>1 DEF Hung
    <3>2. ASSUME x[f] # None PROVE x[f] \in D /\ at[x[f]] = at[f]
      <4>1. CASE next[f] = e
        BY <4>1, <3>2, <1>1, <1>3, <1>4
      <4>2. CASE next[f] # e
        BY <4>2, <3>2, <1>1, <1>3
      <4> QED  BY <4>1, <4>2
    <3> QED  BY <3>1, <3>2
  <2>3. ASSUME NEW f \in D PROVE h[at[f]] = f \/ \E g \in D : x[g] = f
    <3>1. at[f] \in N /\ f # e /\ f # None
      BY <1>1, NoneIsNoEdge DEF Hung
    <3>2. CASE head[at[f]] = f
      BY <3>1, <3>2
    <3>3. CASE \E g \in E : next[g] = f
      <4>1. PICK g \in E : next[g] = f
        BY <3>3
      <4>2. CASE g # e
        BY <4>1, <4>2, <3>1
      <4>3. CASE g = e
        <5>1. at[f] = at[e] /\ at[e] \in N
          BY <4>1, <4>3, <3>1, <1>3, <1>1 DEF Hung
        <5>2. CASE head[at[e]] = e
          BY <5>1, <5>2, <4>1, <4>3
        <5>3. CASE \E k \in E : next[k] = e
          <6>1. PICK k \in E : next[k] = e
            BY <5>3
          <6>2. k # e /\ x[k] = f
            BY <6>1, <4>1, <4>3, <1>4
          <6> QED  BY <6>2
        <5> QED  BY <5>2, <5>3, <1>1 DEF Hung
      <4> QED  BY <4>2, <4>3
    <3> QED  BY <3>2, <3>3, <1>1 DEF Hung
  <2> QED  BY <2>1, <2>2, <2>3 DEF Hung
<1>6. Single(N, D, h, x)
  <2>1. ASSUME NEW m \in N, NEW f \in D, h[m] # None, x[f] = h[m] PROVE FALSE
    <3>1. CASE head[m] = e /\ next[f] = e
      BY <3>1, <1>1 DEF Single
    <3>2. CASE head[m] = e /\ next[f] # e
      <4>1. next[f] = next[e] /\ next[f] # None
        BY <2>1, <3>2
      <4> QED  BY <4>1, <1>1 DEF Single
    <3>3. CASE head[m] # e /\ next[f] = e
      <4>1. head[m] = next[e] /\ head[m] # None
        BY <2>1, <3>3
      <4> QED  BY <4>1, <1>1 DEF Single
    <3>4. CASE head[m] # e /\ next[f] # e
      BY <2>1, <3>4, <1>1 DEF Single
    <3> QED  BY <3>1, <3>2, <3>3, <3>4
  <2>2. ASSUME NEW f \in D, NEW g \in D, x[f] = x[g], x[f] # None PROVE f = g
    <3>1. CASE next[f] = e /\ next[g] = e
      BY <3>1, <1>1 DEF Single
    <3>2. CASE next[f] = e /\ next[g] # e
      <4>1. next[g] = next[e] /\ next[g] # None
        BY <2>2, <3>2
      <4> QED  BY <4>1, <1>1 DEF Single
    <3>3. CASE next[f] # e /\ next[g] = e
      <4>1. next[f] = next[e] /\ next[f] # None
        BY <2>2, <3>3
      <4> QED  BY <4>1, <1>1 DEF Single
    <3>4. CASE next[f] # e /\ next[g] # e
      BY <2>2, <3>4, <1>1 DEF Single
    <3> QED  BY <3>1, <3>2, <3>3, <3>4
  <2> QED  BY <2>1, <2>2 DEF Single
<1>7. Ranked(D, x, rank, bound)
  <2>1. ASSUME NEW f \in D, x[f] # None PROVE rank[x[f]] < rank[f]
    <3>1. CASE next[f] = e
      <4>1. x[f] = next[e] /\ next[e] # None
        BY <2>1, <3>1
      <4>2. rank[next[e]] < rank[e] /\ rank[e] < rank[f]
        BY <4>1, <3>1, <1>1, <1>3
      <4>3. rank[next[e]] \in Nat /\ rank[e] \in Nat /\ rank[f] \in Nat
        BY <4>1, <1>3
      <4> QED  BY <4>1, <4>2, <4>3
    <3>2. CASE next[f] # e
      BY <3>2, <2>1, <1>3
    <3> QED  BY <3>1, <3>2
  <2> QED  BY <2>1, <1>2 DEF Ranked
<1> QED  BY <1>1, <1>5, <1>6, <1>7 DEF Lists

\* insert_node: an empty list.
LEMMA NewLists ==
    ASSUME NEW N, NEW E, NEW head, NEW next, NEW at, Lists(N, E, head, next, at),
           NEW n \in Nodes \ N, NEW h, Pointers(h, next, at), h[n] = None, \A m \in N : h[m] = head[m]
    PROVE  Lists(N \cup {n}, E, h, next, at)
<1>1. /\ N \subseteq Nodes /\ E \subseteq Edges
      /\ Hung(N, E, head, next, at) /\ Single(N, E, head, next) /\ \E rank, bound : Ranked(E, next, rank, bound)
  BY DEF Lists
<1>2. Hung(N \cup {n}, E, h, next, at)
  <2>1. \A m \in N \cup {n} : h[m] # None => h[m] \in E /\ at[h[m]] = m
    BY <1>1 DEF Hung
  <2>2. \A e \in E : at[e] \in N /\ (next[e] # None => next[e] \in E /\ at[next[e]] = at[e])
    BY <1>1 DEF Hung
  <2>3. \A e \in E : h[at[e]] = e \/ \E f \in E : next[f] = e
    <3> SUFFICES ASSUME NEW e \in E PROVE h[at[e]] = e \/ \E f \in E : next[f] = e
      OBVIOUS
    <3>1. head[at[e]] = e \/ \E f \in E : next[f] = e
      BY <1>1 DEF Hung
    <3> QED  BY <3>1, <2>2
  <2> QED  BY <2>1, <2>2, <2>3 DEF Hung
<1>3. Single(N \cup {n}, E, h, next)
  BY <1>1 DEF Single
<1> QED  BY <1>1, <1>2, <1>3 DEF Lists

\* delete_node: a node without edges.
LEMMA FewerLists ==
    ASSUME NEW N, NEW E, NEW head, NEW next, NEW at, Lists(N, E, head, next, at),
           NEW n, \A e \in E : at[e] # n
    PROVE  Lists(N \ {n}, E, head, next, at)
BY DEF Lists, Hung, Single

-----------------------------------------------------------------------------
(* The lists of a store. *)

HeadOf(s, d) == [n \in Nodes |-> s.node[n][d]]
NextOf(s, d) == [e \in Edges |-> s.edge[e][d]]
EndOf(s, d)  == [e \in Edges |-> IF d = "out" THEN s.edge[e].from ELSE s.edge[e].to]

Linked(s, d, N, E) == Lists(N, E, HeadOf(s, d), NextOf(s, d), EndOf(s, d))

\* Records carry the id that they lie at: this is where write_node and write_edge put them.
Named(s, N, E) == (\A n \in N : s.node[n].id = n) /\ (\A e \in E : s.edge[e].id = e)

\* What a call without an edge half inserted or half removed leaves.
Intact(s) ==
    /\ Named(s, s.used["node"], s.used["edge"])
    /\ \A d \in Dirs : Linked(s, d, s.used["node"], s.used["edge"])

\* Only the lists of direction d have changed.
Relinked(s, t, d, head, next) ==
    /\ SameSlots(s, t) /\ HeadOf(t, d) = head /\ NextOf(t, d) = next
    /\ \A c \in Dirs : /\ EndOf(t, c) = EndOf(s, c)
                       /\ c # d => HeadOf(t, c) = HeadOf(s, c) /\ NextOf(t, c) = NextOf(s, c)
    /\ \A N, E : N \subseteq Nodes /\ E \subseteq Edges => (Named(s, N, E) <=> Named(t, N, E))

LEMMA UsedRecords ==
    ASSUME NEW s, Sound(s)
    PROVE  s.used["node"] \subseteq Nodes /\ s.used["edge"] \subseteq Edges
<1>1. ASSUME NEW k \in Kinds PROVE s.used[k] \subseteq Rids(k)
  <2>1. /\ s.pages[k] \in Nat /\ MaxPages[k] \in Nat /\ s.pages[k] <= MaxPages[k]
        /\ s.used[k] \subseteq (0 .. s.pages[k] - 1) \X (0 .. Slots - 1)
    BY SoundParts
  <2>2. 0 .. s.pages[k] - 1 \subseteq 0 .. MaxPages[k] - 1
    BY <2>1
  <2> QED  BY <2>1, <2>2 DEF Rids
<1> QED  BY <1>1 DEF Nodes, Edges, Kinds

LEMMA StorePointers ==
    ASSUME NEW s, Sound(s), NEW d \in Dirs
    PROVE  Pointers(HeadOf(s, d), NextOf(s, d), EndOf(s, d))
<1>1. \A n \in Nodes : s.node[n][d] \in Edges \cup {None}
  BY RelinkedRecords
<1>2. \A e \in Edges : s.edge[e][d] \in Edges \cup {None}
  BY RelinkedRecords
<1>3. \A e \in Edges : s.edge[e].from \in Nodes /\ s.edge[e].to \in Nodes
  BY DEF Sound, States, EdgeRecords
<1> QED  BY <1>1, <1>2, <1>3 DEF Pointers, HeadOf, NextOf, EndOf

\* A write of a node that exchanges the head of one list.
LEMMA RelinkNode ==
    ASSUME NEW s, Sound(s), NEW n \in Nodes, s.node[n].id = n, NEW d \in Dirs, NEW v \in Edges \cup {None}
    PROVE  Relinked(s, WriteNode(s, [s.node[n] EXCEPT ![d] = v]), d, [HeadOf(s, d) EXCEPT ![n] = v], NextOf(s, d))
<1> DEFINE r == [s.node[n] EXCEPT ![d] = v]
           t == WriteNode(s, r)
<1>1. s \in States /\ s.node[n] \in NodeRecords
  BY DEF Sound, States
<1>2. r.id = n /\ r[d] = v /\ \A c \in Dirs : c # d => r[c] = s.node[n][c]
  BY <1>1 DEF NodeRecords, Dirs
<1> HIDE DEF r
<1>3. t.node = [s.node EXCEPT ![n] = r] /\ t.edge = s.edge /\ SameSlots(s, t)
  BY <1>1, <1>2 DEF WriteNode, States, SameSlots
<1>4. \A m \in Nodes : t.node[m] = IF m = n THEN r ELSE s.node[m]
  BY <1>1, <1>3 DEF States
<1> HIDE DEF t
<1>5. HeadOf(t, d) = [HeadOf(s, d) EXCEPT ![n] = v]
  BY <1>2, <1>4 DEF HeadOf
<1>6. \A c \in Dirs : NextOf(t, c) = NextOf(s, c) /\ EndOf(t, c) = EndOf(s, c)
  BY <1>3 DEF NextOf, EndOf
<1>7. ASSUME NEW c \in Dirs, c # d PROVE HeadOf(t, c) = HeadOf(s, c)
  <2>1. \A m \in Nodes : t.node[m][c] = s.node[m][c]
    BY <1>2, <1>4, <1>7
  <2> QED  BY <2>1 DEF HeadOf
<1>8. ASSUME NEW N, NEW E, N \subseteq Nodes PROVE Named(s, N, E) <=> Named(t, N, E)
  BY <1>2, <1>3, <1>4, <1>8 DEF Named
<1> QED  BY <1>3, <1>5, <1>6, <1>7, <1>8 DEF Relinked, t, r

\* A write of an edge that exchanges what follows it in one list.
LEMMA RelinkEdge ==
    ASSUME NEW s, Sound(s), NEW e \in Edges, s.edge[e].id = e, NEW d \in Dirs, NEW v \in Edges \cup {None}
    PROVE  Relinked(s, WriteEdge(s, [s.edge[e] EXCEPT ![d] = v]), d, HeadOf(s, d), [NextOf(s, d) EXCEPT ![e] = v])
<1> DEFINE r == [s.edge[e] EXCEPT ![d] = v]
           t == WriteEdge(s, r)
<1>1. s \in States /\ s.edge[e] \in EdgeRecords
  BY DEF Sound, States
<1>2. /\ r.id = e /\ r[d] = v /\ \A c \in Dirs : c # d => r[c] = s.edge[e][c]
      /\ r.from = s.edge[e].from /\ r.to = s.edge[e].to
  BY <1>1 DEF EdgeRecords, Dirs
<1> HIDE DEF r
<1>3. t.edge = [s.edge EXCEPT ![e] = r] /\ t.node = s.node /\ SameSlots(s, t)
  BY <1>1, <1>2 DEF WriteEdge, States, SameSlots
<1>4. \A f \in Edges : t.edge[f] = IF f = e THEN r ELSE s.edge[f]
  BY <1>1, <1>3 DEF States
<1> HIDE DEF t
<1>5. NextOf(t, d) = [NextOf(s, d) EXCEPT ![e] = v]
  BY <1>2, <1>4 DEF NextOf
<1>6. \A c \in Dirs : HeadOf(t, c) = HeadOf(s, c) /\ EndOf(t, c) = EndOf(s, c)
  BY <1>2, <1>3, <1>4 DEF HeadOf, EndOf
<1>7. ASSUME NEW c \in Dirs, c # d PROVE NextOf(t, c) = NextOf(s, c)
  <2>1. \A f \in Edges : t.edge[f][c] = s.edge[f][c]
    BY <1>2, <1>4, <1>7
  <2> QED  BY <2>1 DEF NextOf
<1>8. ASSUME NEW N, NEW E, E \subseteq Edges PROVE Named(s, N, E) <=> Named(t, N, E)
  BY <1>2, <1>3, <1>4, <1>8 DEF Named
<1> QED  BY <1>3, <1>5, <1>6, <1>7, <1>8 DEF Relinked, t, r

LEMMA RelinkTwice ==
    ASSUME NEW s, NEW t, NEW u, NEW d, NEW h, NEW x, NEW g, NEW y,
           Relinked(s, t, d, h, x), Relinked(t, u, d, g, y)
    PROVE  Relinked(s, u, d, g, y)
BY DEF Relinked, SameSlots

\* append_out_edge and append_in_edge put an edge that is in no list of the direction into one.
LEMMA AppendLinks ==
    ASSUME NEW s, Sound(s), Hinted(s), NEW d \in Dirs, NEW N, NEW E, Linked(s, d, N, E),
           NEW n \in N, NEW e \in Edges \ E, Named(s, N, E \cup {e}), EndOf(s, d)[e] = n,
           NEW t, t = AppendEdge(s, n, e, d)
    PROVE  /\ Sound(t) /\ Hinted(t)
           /\ Relinked(s, t, d, HeadOf(t, d), NextOf(t, d))
           /\ Linked(t, d, N, E \cup {e})
<1> DEFINE u == LinkEdge(s, n, e, d)
           x == [NextOf(s, d) EXCEPT ![e] = HeadOf(s, d)[n]]
           h == [HeadOf(s, d) EXCEPT ![n] = e]
<1>1. /\ N \subseteq Nodes /\ E \subseteq Edges /\ n \in Nodes
      /\ s.node[n].id = n /\ s.edge[e].id = e /\ HeadOf(s, d)[n] = s.node[n][d]
  BY DEF Linked, Lists, Named, HeadOf
<1>2. s.node[n][d] \in Edges \cup {None}
  BY <1>1, RelinkedRecords
<1>3. Relinked(s, u, d, HeadOf(s, d), x)
  BY <1>1, <1>2, RelinkEdge DEF LinkEdge
<1>4. Sound(u)
  <2>1. [s.edge[e] EXCEPT ![d] = s.node[n][d]] \in EdgeRecords
    BY <1>2, RelinkedRecords
  <2> QED  BY <2>1, WriteEdgeSafe DEF LinkEdge
<1>5. Sound(t) /\ Hinted(t)
  BY <1>1, AppendSafe
<1>6. u.node[n].id = n /\ HeadOf(u, d) = HeadOf(s, d) /\ NextOf(u, d) = x
  <2>1. Named(s, {n}, {}) => Named(u, {n}, {})
    BY <1>1, <1>3 DEF Relinked
  <2>2. HeadOf(u, d) = HeadOf(s, d) /\ NextOf(u, d) = x
    BY <1>3 DEF Relinked
  <2> QED  BY <2>1, <2>2, <1>1 DEF Named
<1> HIDE DEF x, h
<1>7. Relinked(u, t, d, h, x)
  <2>1. Relinked(u, WriteNode(u, [u.node[n] EXCEPT ![d] = e]), d, [HeadOf(u, d) EXCEPT ![n] = e], NextOf(u, d))
    BY <1>1, <1>4, <1>6, RelinkNode
  <2> HIDE DEF u
  <2>2. t = WriteNode(u, [u.node[n] EXCEPT ![d] = e])
    BY DEF AppendEdge, LinkNode, u
  <2> QED  BY <2>1, <2>2, <1>6 DEF h
<1> HIDE DEF u
<1>8. Relinked(s, t, d, h, x)
  BY <1>3, <1>7, RelinkTwice
<1>9. HeadOf(t, d) = h /\ NextOf(t, d) = x /\ EndOf(t, d) = EndOf(s, d)
  BY <1>8 DEF Relinked
<1>10. Lists(N, E \cup {e}, h, x, EndOf(s, d))
  BY PushLists DEF Linked, h, x
<1> QED  BY <1>5, <1>8, <1>9, <1>10 DEF Linked

LEMMA WalkFinds ==
    ASSUME NEW s, NEW d, NEW N, NEW E, Linked(s, d, N, E), NEW n \in N
    PROVE  Walk(s, n, d) = {e \in E : EndOf(s, d)[e] = n}
<1>1. n \in Nodes
  BY DEF Linked, Lists
<1>2. \A R \in SUBSET Edges : Closed(R, HeadOf(s, d), NextOf(s, d), n) <=>
          s.node[n][d] \in R \cup {None} /\ \A f \in R : s.edge[f][d] \in R \cup {None}
  BY <1>1 DEF Closed, HeadOf, NextOf
<1>3. Walk(s, n, d) = {e \in Edges : \A R \in SUBSET Edges : Closed(R, HeadOf(s, d), NextOf(s, d), n) => e \in R}
  BY <1>2 DEF Walk
<1> QED  BY <1>3, WalkOfLists DEF Linked

\* remove_from_out_list and remove_from_in_list take an edge out of its list.
LEMMA UnlinkLinks ==
    ASSUME NEW s, Sound(s), Hinted(s), NEW d \in Dirs, NEW N, NEW E, Linked(s, d, N, E), Named(s, N, E),
           NEW e \in E, NEW t, t = Unlink(s, EndOf(s, d)[e], e, NextOf(s, d)[e], d)
    PROVE  /\ Sound(t) /\ Hinted(t)
           /\ Relinked(s, t, d, HeadOf(t, d), NextOf(t, d))
           /\ Linked(t, d, N, E \ {e})
<1> DEFINE head == HeadOf(s, d)
           next == NextOf(s, d)
           at == EndOf(s, d)
           n == at[e]
           before == {f \in Walk(s, n, d) : s.edge[f][d] = e}
<1>1. /\ N \subseteq Nodes /\ E \subseteq Edges /\ e # None /\ Pointers(head, next, at)
      /\ Hung(N, E, head, next, at) /\ Single(N, E, head, next)
  BY NoneIsNoEdge DEF Linked, Lists
<1>2. n \in N /\ n \in Nodes /\ next[e] \in Edges \cup {None}
  BY <1>1 DEF Hung, Pointers
<1>3. Sound(t) /\ Hinted(t)
  BY <1>2, UnlinkSafe
<1>4. Walk(s, n, d) = {f \in E : at[f] = n}
  BY <1>2, WalkFinds
<1>5. (\A m \in Nodes : head[m] = s.node[m][d]) /\ (\A f \in Edges : next[f] = s.edge[f][d])
  BY DEF HeadOf, NextOf
<1>6. CASE head[n] = e
  <2> DEFINE h == [head EXCEPT ![n] = next[e]]
  <2>1. t = WriteNode(s, [s.node[n] EXCEPT ![d] = next[e]])
    BY <1>2, <1>5, <1>6 DEF Unlink
  <2>2. s.node[n].id = n
    BY <1>2 DEF Named
  <2> HIDE DEF n, before, head, next, at
  <2>3. Relinked(s, t, d, h, next)
    BY <2>1, <2>2, <1>2, RelinkNode DEF head, next
  <2>4. HeadOf(t, d) = h /\ NextOf(t, d) = next /\ EndOf(t, d) = at
    BY <2>3 DEF Relinked, at
  <2>5. \A m \in N : h[m] = IF head[m] = e THEN next[e] ELSE head[m]
    BY <1>1, <1>2, <1>6 DEF Hung, Pointers, n
  <2>6. \A f \in E : next[f] = IF next[f] = e THEN next[e] ELSE next[f]
    BY <1>1, <1>2, <1>6 DEF Single
  <2>7. Pointers(h, next, at)
    BY <1>1, <1>2 DEF Pointers
  <2> HIDE DEF h
  <2>8. Lists(N, E \ {e}, h, next, at)
    BY <2>5, <2>6, <2>7, DropLists DEF Linked, head, next, at
  <2> QED  BY <2>3, <2>4, <2>8, <1>3 DEF Linked
<1>7. CASE head[n] # e
  <2>1. PICK g \in E : next[g] = e
    BY <1>1, <1>7 DEF Hung
  <2>2. at[g] = n
    BY <2>1, <1>1 DEF Hung
  <2>3. before = {g}
    BY <2>1, <2>2, <1>1, <1>4, <1>5 DEF Single
  <2> DEFINE x == [next EXCEPT ![g] = next[e]]
  <2>4. t = WriteEdge(s, [s.edge[g] EXCEPT ![d] = next[e]])
    BY <2>3, <1>2, <1>5, <1>7 DEF Unlink
  <2>5. s.edge[g].id = g
    BY DEF Named
  <2> HIDE DEF n, before, head, next, at
  <2>6. Relinked(s, t, d, head, x)
    BY <2>4, <2>5, <1>1, <1>2, RelinkEdge DEF head, next
  <2>7. HeadOf(t, d) = head /\ NextOf(t, d) = x /\ EndOf(t, d) = at
    BY <2>6 DEF Relinked, at
  <2>8. \A m \in N : head[m] = IF head[m] = e THEN next[e] ELSE head[m]
    BY <1>1, <1>7 DEF Hung, n
  <2>9. \A f \in E : x[f] = IF next[f] = e THEN next[e] ELSE next[f]
    BY <2>1, <1>1 DEF Single, Pointers
  <2>10. Pointers(head, x, at)
    BY <1>1, <1>2 DEF Pointers
  <2> HIDE DEF x
  <2>11. Lists(N, E \ {e}, head, x, at)
    BY <2>8, <2>9, <2>10, DropLists DEF Linked, head, next, at
  <2> QED  BY <2>6, <2>7, <2>11, <1>3 DEF Linked
<1> QED  BY <1>6, <1>7

\* A slot taken or freed leaves the records.
LEMMA AllocKeeps ==
    ASSUME NEW s, Sound(s), NEW k \in Kinds
    PROVE  /\ Alloc(s, k).node = s.node /\ Alloc(s, k).edge = s.edge
           /\ Alloc(s, k).used = [s.used EXCEPT ![k] = @ \cup {AllocRid(s, k)}]
<1>1. s \in States
  BY DEF Sound
<1> DEFINE u == TakeSlot(s, k)
<1>2. /\ u.node = s.node /\ u.edge = s.edge /\ u.used = [s.used EXCEPT ![k] = @ \cup {AllocRid(s, k)}]
      /\ u = [u EXCEPT !.node = s.node] /\ DOMAIN u = DOMAIN s
  BY <1>1 DEF TakeSlot, States
<1> HIDE DEF u
<1>3. Alloc(s, k) = [u EXCEPT !.hint = AdvanceHint(s, k, AllocPage(s, k)).hint]
  BY DEF Alloc, u
<1> QED  BY <1>1, <1>2, <1>3 DEF States

LEMMA FreeKeeps ==
    ASSUME NEW s, Sound(s), NEW k \in Kinds, NEW r
    PROVE  /\ Free(s, k, r).node = s.node /\ Free(s, k, r).edge = s.edge
           /\ Free(s, k, r).used = [s.used EXCEPT ![k] = @ \ {r}]
<1>1. s \in States
  BY DEF Sound
<1> DEFINE u == ClearSlot(s, k, r)
<1>2. /\ u.node = s.node /\ u.edge = s.edge /\ u.used = [s.used EXCEPT ![k] = @ \ {r}]
      /\ DOMAIN u = DOMAIN s
  BY <1>1 DEF ClearSlot, States
<1> HIDE DEF u
<1>3. Free(s, k, r) = IF r[1] < HintOf(u, k) THEN [u EXCEPT !.hint[k] = r[1]] ELSE u
  BY DEF Free, BackOffHint, u
<1> QED  BY <1>1, <1>2, <1>3 DEF States

\* Records as they were make lists as they were.
LEMMA SameRecords ==
    ASSUME NEW s, NEW t, t.node = s.node, t.edge = s.edge
    PROVE  /\ \A d \in Dirs : HeadOf(t, d) = HeadOf(s, d) /\ NextOf(t, d) = NextOf(s, d) /\ EndOf(t, d) = EndOf(s, d)
           /\ \A N, E : Named(s, N, E) <=> Named(t, N, E)
           /\ \A d \in Dirs : \A N, E : Linked(s, d, N, E) <=> Linked(t, d, N, E)
BY DEF HeadOf, NextOf, EndOf, Named, Linked

\* A change of the lists of one direction leaves those of the other.
LEMMA OtherLinked ==
    ASSUME NEW s, NEW t, NEW d \in Dirs, Relinked(s, t, d, HeadOf(t, d), NextOf(t, d)), NEW c \in Dirs, c # d,
           NEW N, NEW E, Linked(s, c, N, E)
    PROVE  Linked(t, c, N, E)
BY DEF Relinked, Linked

\* delete_edge of the topology store takes the edge out of both lists.
LEMMA RemoveEdgeLinks ==
    ASSUME NEW s, Sound(s), Hinted(s), Intact(s), NEW e \in s.used["edge"], NEW t, t = RemoveEdge(s, e)
    PROVE  /\ Intact(t) /\ t.used = [s.used EXCEPT !["edge"] = @ \ {e}]
           /\ EndOf(t, "out") = EndOf(s, "out") /\ EndOf(t, "in") = EndOf(s, "in")
<1> DEFINE N == s.used["node"]
           E == s.used["edge"]
           u == Unlink(s, s.edge[e].from, e, s.edge[e].out, "out")
           w == Unlink(u, s.edge[e].to, e, s.edge[e].in, "in")
<1>1. /\ N \subseteq Nodes /\ E \subseteq Edges /\ e \in Edges /\ "out" \in Dirs /\ "in" \in Dirs
      /\ Named(s, N, E) /\ Linked(s, "out", N, E) /\ Linked(s, "in", N, E)
  BY UsedRecords DEF Intact, Dirs
<1>2. /\ EndOf(s, "out")[e] = s.edge[e].from /\ EndOf(s, "in")[e] = s.edge[e].to
      /\ NextOf(s, "out")[e] = s.edge[e].out /\ NextOf(s, "in")[e] = s.edge[e].in
  BY <1>1 DEF EndOf, NextOf
<1> HIDE DEF N, E
<1>3. e \in E
  BY DEF E
<1>4. /\ Sound(u) /\ Hinted(u) /\ Relinked(s, u, "out", HeadOf(u, "out"), NextOf(u, "out"))
      /\ Linked(u, "out", N, E \ {e})
  BY <1>1, <1>2, <1>3, UnlinkLinks
<1> HIDE DEF u
<1>5. /\ Named(u, N, E) /\ Linked(u, "in", N, E)
      /\ EndOf(u, "in") = EndOf(s, "in") /\ NextOf(u, "in") = NextOf(s, "in") /\ EndOf(u, "out") = EndOf(s, "out")
  <2>1. Linked(u, "in", N, E)
    BY <1>1, <1>4, OtherLinked
  <2> QED  BY <2>1, <1>1, <1>4 DEF Relinked
<1>6. w = Unlink(u, EndOf(u, "in")[e], e, NextOf(u, "in")[e], "in")
  BY <1>2, <1>5
<1>7. /\ Sound(w) /\ Hinted(w) /\ Relinked(u, w, "in", HeadOf(w, "in"), NextOf(w, "in"))
      /\ Linked(w, "in", N, E \ {e})
  BY <1>1, <1>3, <1>4, <1>5, <1>6, UnlinkLinks
<1> HIDE DEF w
<1>8. /\ Named(w, N, E) /\ Linked(w, "out", N, E \ {e})
      /\ EndOf(w, "in") = EndOf(s, "in") /\ EndOf(w, "out") = EndOf(s, "out")
  <2>1. Linked(w, "out", N, E \ {e})
    BY <1>1, <1>4, <1>7, OtherLinked
  <2> QED  BY <2>1, <1>1, <1>5, <1>7 DEF Relinked
<1>9. w.used = s.used
  BY <1>4, <1>7 DEF Relinked, SameSlots
<1>10. t = Free(w, "edge", e)
  BY DEF RemoveEdge, u, w
<1>11. t.node = w.node /\ t.edge = w.edge /\ t.used = [s.used EXCEPT !["edge"] = @ \ {e}]
  BY <1>7, <1>9, <1>10, FreeKeeps DEF Kinds
<1>12. s.used \in [Kinds -> SUBSET (Nat \X Nat)] /\ "edge" \in Kinds /\ "node" \in Kinds /\ "node" # "edge"
  BY DEF Sound, States, Kinds
<1>13. t.used["node"] = N /\ t.used["edge"] = E \ {e}
  BY <1>11, <1>12 DEF N, E
<1>14. Named(t, N, E \ {e}) /\ \A d \in Dirs : Linked(t, d, N, E \ {e})
  <2>1. Named(w, N, E \ {e})
    BY <1>8 DEF Named
  <2>2. \A d \in Dirs : Linked(w, d, N, E \ {e})
    BY <1>7, <1>8 DEF Dirs
  <2> QED  BY <2>1, <2>2, <1>11, SameRecords
<1>15. EndOf(t, "out") = EndOf(s, "out") /\ EndOf(t, "in") = EndOf(s, "in")
  BY <1>1, <1>8, <1>11, SameRecords
<1> QED  BY <1>11, <1>13, <1>14, <1>15 DEF Intact

\* insert_edge: the record of the edge, then the head of both lists.
LEMMA InsertEdgeLinks ==
    ASSUME NEW s, Sound(s), Hinted(s), Intact(s), AllocPage(s, "edge") < MaxPages["edge"],
           NEW from \in s.used["node"], NEW to \in s.used["node"], NEW e, e = AllocRid(s, "edge"),
           NEW t, t = AppendEdge(AppendEdge(WriteEdge(Alloc(s, "edge"), NewEdge(e, from, to)), from, e, "out"), to, e, "in")
    PROVE  /\ Intact(t) /\ t.used = [s.used EXCEPT !["edge"] = @ \cup {e}] /\ e \in Edges \ s.used["edge"]
           /\ \A f \in s.used["edge"] : EndOf(t, "out")[f] = EndOf(s, "out")[f] /\ EndOf(t, "in")[f] = EndOf(s, "in")[f]
           /\ EndOf(t, "out")[e] = from /\ EndOf(t, "in")[e] = to
<1> DEFINE N == s.used["node"]
           E == s.used["edge"]
           a == Alloc(s, "edge")
           w == WriteEdge(a, NewEdge(e, from, to))
           u == AppendEdge(w, from, e, "out")
<1>1. /\ N \subseteq Nodes /\ E \subseteq Edges /\ "out" \in Dirs /\ "in" \in Dirs /\ "edge" \in Kinds
      /\ Named(s, N, E) /\ Linked(s, "out", N, E) /\ Linked(s, "in", N, E)
  BY UsedRecords DEF Intact, Dirs, Kinds
<1>2. Sound(a) /\ Hinted(a) /\ e \in Edges
  BY <1>1, AllocSafe DEF Edges
<1>3. e \notin E
  BY <1>1, AllocRidFree
<1>4. a.node = s.node /\ a.edge = s.edge /\ a.used = [s.used EXCEPT !["edge"] = @ \cup {e}]
  BY <1>1, AllocKeeps
<1> HIDE DEF a
<1>5. NewEdge(e, from, to) \in EdgeRecords
  BY <1>1, <1>2 DEF NewEdge, EdgeRecords, N
<1>6. Sound(w) /\ Hinted(w)
  BY <1>2, <1>5, WriteEdgeSafe
<1>7. w.edge = [s.edge EXCEPT ![e] = NewEdge(e, from, to)] /\ w.node = s.node /\ w.used = a.used
  <2>1. a \in States
    BY <1>2 DEF Sound
  <2> QED  BY <2>1, <1>4 DEF WriteEdge, NewEdge, States
<1>8. s.edge \in [Edges -> EdgeRecords] /\ s.used \in [Kinds -> SUBSET (Nat \X Nat)]
  BY DEF Sound, States
<1>9. w.edge[e] = NewEdge(e, from, to) /\ \A f \in E : w.edge[f] = s.edge[f]
  BY <1>1, <1>2, <1>3, <1>7, <1>8
<1> HIDE DEF w, N, E
<1>10. EndOf(w, "out")[e] = from /\ EndOf(w, "in")[e] = to /\ w.edge[e].id = e
  BY <1>2, <1>9 DEF EndOf, NewEdge
<1>11. \A d \in Dirs : \A f \in E : NextOf(w, d)[f] = NextOf(s, d)[f] /\ EndOf(w, d)[f] = EndOf(s, d)[f]
  BY <1>1, <1>9 DEF EndOf, NextOf
<1>12. \A d \in Dirs : \A n \in N : HeadOf(w, d)[n] = HeadOf(s, d)[n]
  BY <1>7 DEF HeadOf
<1>13. Linked(w, "out", N, E) /\ Linked(w, "in", N, E)
  <2>1. ASSUME NEW d \in Dirs, Linked(s, d, N, E) PROVE Linked(w, d, N, E)
    <3>1. Pointers(HeadOf(w, d), NextOf(w, d), EndOf(w, d))
      BY <1>6, StorePointers
    <3> QED  BY <2>1, <3>1, <1>11, <1>12, SameLists DEF Linked
  <2> QED  BY <2>1, <1>1
<1>14. Named(w, N, E \cup {e})
  BY <1>1, <1>7, <1>9, <1>10 DEF Named
<1>15. from \in N /\ to \in N /\ e \in Edges \ E
  BY <1>2, <1>3 DEF N, E
<1>16. /\ Sound(u) /\ Hinted(u) /\ Relinked(w, u, "out", HeadOf(u, "out"), NextOf(u, "out"))
       /\ Linked(u, "out", N, E \cup {e})
  BY <1>1, <1>6, <1>10, <1>13, <1>14, <1>15, AppendLinks
<1>17. t = AppendEdge(u, to, e, "in")
  BY DEF u, w, a
<1> HIDE DEF u
<1>18. /\ Named(u, N, E \cup {e}) /\ Linked(u, "in", N, E)
       /\ EndOf(u, "in") = EndOf(w, "in") /\ EndOf(u, "out") = EndOf(w, "out") /\ u.used = w.used
  <2>1. Linked(u, "in", N, E)
    BY <1>1, <1>13, <1>16, OtherLinked
  <2>2. N \subseteq Nodes /\ E \cup {e} \subseteq Edges
    BY <1>1, <1>15
  <2> QED  BY <2>1, <2>2, <1>1, <1>14, <1>16 DEF Relinked, SameSlots
<1>19. /\ Sound(t) /\ Hinted(t) /\ Relinked(u, t, "in", HeadOf(t, "in"), NextOf(t, "in"))
       /\ Linked(t, "in", N, E \cup {e})
  BY <1>1, <1>10, <1>15, <1>16, <1>17, <1>18, AppendLinks
<1>20. /\ Named(t, N, E \cup {e}) /\ Linked(t, "out", N, E \cup {e})
       /\ EndOf(t, "in") = EndOf(w, "in") /\ EndOf(t, "out") = EndOf(w, "out") /\ t.used = w.used
  <2>1. Linked(t, "out", N, E \cup {e})
    BY <1>1, <1>16, <1>19, OtherLinked
  <2>2. N \subseteq Nodes /\ E \cup {e} \subseteq Edges
    BY <1>1, <1>15
  <2> QED  BY <2>1, <2>2, <1>1, <1>18, <1>19 DEF Relinked, SameSlots
<1>21. t.used = [s.used EXCEPT !["edge"] = @ \cup {e}] /\ t.used["node"] = N /\ t.used["edge"] = E \cup {e}
  BY <1>1, <1>4, <1>7, <1>8, <1>20 DEF N, E, Kinds
<1>22. Intact(t)
  BY <1>19, <1>20, <1>21 DEF Intact, Dirs
<1>23. \A f \in E : EndOf(t, "out")[f] = EndOf(s, "out")[f] /\ EndOf(t, "in")[f] = EndOf(s, "in")[f]
  BY <1>1, <1>11, <1>20
<1> QED  BY <1>10, <1>15, <1>20, <1>21, <1>22, <1>23 DEF E

\* insert_node: a record with two empty lists.
LEMMA InsertNodeLinks ==
    ASSUME NEW s, Sound(s), Hinted(s), Intact(s), AllocPage(s, "node") < MaxPages["node"],
           NEW n, n = AllocRid(s, "node"), NEW t, t = WriteNode(Alloc(s, "node"), NewNode(n))
    PROVE  /\ Intact(t) /\ t.used = [s.used EXCEPT !["node"] = @ \cup {n}] /\ n \in Nodes \ s.used["node"]
           /\ EndOf(t, "out") = EndOf(s, "out") /\ EndOf(t, "in") = EndOf(s, "in")
<1> DEFINE N == s.used["node"]
           E == s.used["edge"]
           a == Alloc(s, "node")
<1>1. /\ N \subseteq Nodes /\ E \subseteq Edges /\ "node" \in Kinds
      /\ Named(s, N, E) /\ \A d \in Dirs : Linked(s, d, N, E)
  BY UsedRecords DEF Intact, Kinds
<1>2. Sound(a) /\ Hinted(a) /\ n \in Nodes
  BY <1>1, AllocSafe DEF Nodes
<1>3. n \notin N
  BY <1>1, AllocRidFree
<1>4. a.node = s.node /\ a.edge = s.edge /\ a.used = [s.used EXCEPT !["node"] = @ \cup {n}]
  BY <1>1, AllocKeeps
<1> HIDE DEF a
<1>5. NewNode(n) \in NodeRecords
  BY <1>2 DEF NewNode, NodeRecords
<1>6. Sound(t)
  BY <1>2, <1>5, WriteNodeSafe DEF a
<1>7. t.node = [s.node EXCEPT ![n] = NewNode(n)] /\ t.edge = s.edge /\ t.used = a.used
  <2>1. a \in States
    BY <1>2 DEF Sound
  <2>2. t = WriteNode(a, NewNode(n))
    BY DEF a
  <2> QED  BY <2>1, <2>2, <1>4 DEF WriteNode, NewNode, States
<1>8. s.node \in [Nodes -> NodeRecords] /\ s.used \in [Kinds -> SUBSET (Nat \X Nat)]
  BY DEF Sound, States
<1>9. t.node[n] = NewNode(n) /\ \A m \in N : t.node[m] = s.node[m]
  BY <1>1, <1>2, <1>3, <1>7, <1>8
<1> HIDE DEF N, E
<1>10. Named(t, N \cup {n}, E)
  BY <1>1, <1>7, <1>9 DEF Named, NewNode
<1>11. \A d \in Dirs : NextOf(t, d) = NextOf(s, d) /\ EndOf(t, d) = EndOf(s, d)
  BY <1>7 DEF NextOf, EndOf
<1>12. ASSUME NEW d \in Dirs PROVE Linked(t, d, N \cup {n}, E)
  <2>1. HeadOf(t, d)[n] = None
    BY <1>2, <1>9 DEF HeadOf, NewNode, Dirs
  <2>2. \A m \in N : HeadOf(t, d)[m] = HeadOf(s, d)[m]
    BY <1>1, <1>9 DEF HeadOf
  <2>3. Pointers(HeadOf(t, d), NextOf(s, d), EndOf(s, d))
    BY <1>6, <1>11, StorePointers
  <2>4. Lists(N \cup {n}, E, HeadOf(t, d), NextOf(s, d), EndOf(s, d))
    BY <2>1, <2>2, <2>3, <1>1, <1>2, <1>3, NewLists DEF Linked
  <2> QED  BY <2>4, <1>11 DEF Linked
<1>13. t.used = [s.used EXCEPT !["node"] = @ \cup {n}] /\ t.used["node"] = N \cup {n} /\ t.used["edge"] = E
  BY <1>1, <1>4, <1>7, <1>8 DEF N, E, Kinds
<1>14. Intact(t)
  BY <1>10, <1>12, <1>13 DEF Intact
<1> QED  BY <1>2, <1>3, <1>11, <1>13, <1>14 DEF N, Dirs

\* The slot of a node that no edge of the store leaves or reaches.
LEMMA FreeNodeLinks ==
    ASSUME NEW s, Sound(s), Hinted(s), Intact(s), NEW n \in s.used["node"],
           \A e \in s.used["edge"] : EndOf(s, "out")[e] # n /\ EndOf(s, "in")[e] # n,
           NEW t, t = Free(s, "node", n)
    PROVE  /\ Intact(t) /\ t.used = [s.used EXCEPT !["node"] = @ \ {n}]
           /\ EndOf(t, "out") = EndOf(s, "out") /\ EndOf(t, "in") = EndOf(s, "in")
<1> DEFINE N == s.used["node"]
           E == s.used["edge"]
<1>1. /\ t.node = s.node /\ t.edge = s.edge /\ t.used = [s.used EXCEPT !["node"] = @ \ {n}]
      /\ t.used["node"] = N \ {n} /\ t.used["edge"] = E
  <2>1. s.used \in [Kinds -> SUBSET (Nat \X Nat)] /\ "node" \in Kinds /\ "edge" \in Kinds
    BY DEF Sound, States, Kinds
  <2> QED  BY <2>1, FreeKeeps
<1>2. Named(s, N \ {n}, E)
  BY DEF Intact, Named
<1>3. ASSUME NEW d \in Dirs PROVE Linked(s, d, N \ {n}, E)
  <2>1. \A e \in E : EndOf(s, d)[e] # n
    BY DEF Dirs
  <2>2. Lists(N, E, HeadOf(s, d), NextOf(s, d), EndOf(s, d))
    BY DEF Intact, Linked
  <2> HIDE DEF N, E
  <2> QED  BY <2>1, <2>2, FewerLists DEF Linked
<1> HIDE DEF N, E
<1>4. Named(t, N \ {n}, E) /\ \A d \in Dirs : Linked(t, d, N \ {n}, E)
  BY <1>1, <1>2, <1>3, SameRecords
<1>5. Intact(t)
  BY <1>1, <1>4 DEF Intact
<1>6. EndOf(t, "out") = EndOf(s, "out") /\ EndOf(t, "in") = EndOf(s, "in")
  BY <1>1, SameRecords DEF Dirs
<1> QED  BY <1>1, <1>5, <1>6

-----------------------------------------------------------------------------
(* The lists through the calls of db.rs. *)

\* The edges that leave a node or reach it.
Touching(s, n) == {e \in s.used["edge"] : EndOf(s, "out")[e] = n \/ EndOf(s, "in")[e] = n}

\* Between the steps of a cascade, its edges are those that its node still has.
Cascading == cascade # None => /\ cascade.node \in topo.used["node"]
                               /\ cascade.edges = Touching(topo, cascade.node)

LInv == IInv /\ Intact(topo) /\ Cascading

LEMMA WalksFind ==
    ASSUME NEW s, Intact(s), NEW n \in s.used["node"], NEW d \in Dirs
    PROVE  Walk(s, n, d) = {e \in s.used["edge"] : EndOf(s, d)[e] = n}
BY WalkFinds DEF Intact

LEMMA EndsInUse ==
    ASSUME NEW s, Intact(s), NEW e \in s.used["edge"]
    PROVE  /\ e \in Edges /\ EndOf(s, "out")[e] = s.edge[e].from /\ EndOf(s, "in")[e] = s.edge[e].to
           /\ s.edge[e].from \in s.used["node"] /\ s.edge[e].to \in s.used["node"]
<1>1. "out" \in Dirs /\ "in" \in Dirs
  BY DEF Dirs
<1>2. e \in Edges
  BY <1>1 DEF Intact, Linked, Lists
<1>3. ASSUME NEW d \in Dirs PROVE EndOf(s, d)[e] \in s.used["node"]
  BY DEF Intact, Linked, Lists, Hung
<1> QED  BY <1>1, <1>2, <1>3 DEF EndOf

LEMMA LInvInit == TopologyInit => LInv
<1> SUFFICES ASSUME TopologyInit PROVE LInv
  OBVIOUS
<1>1. IInv
  BY InitInv
<1>2. topo = Empty /\ cascade = None
  BY DEF TopologyInit
<1>3. topo.used["node"] = {} /\ topo.used["edge"] = {}
  BY <1>2 DEF Empty, Kinds
<1>4. ASSUME NEW d \in Dirs PROVE Linked(topo, d, {}, {})
  <2>1. Pointers(HeadOf(topo, d), NextOf(topo, d), EndOf(topo, d))
    BY <1>1, StorePointers DEF IInv
  <2>2. Ranked({}, NextOf(topo, d), [e \in Edges |-> 0], 0)
    BY DEF Ranked
  <2>3. \E rank, bound : Ranked({}, NextOf(topo, d), rank, bound)
    BY <2>2
  <2> QED  BY <2>1, <2>3 DEF Linked, Lists, Hung, Single
<1>5. Intact(topo)
  BY <1>3, <1>4 DEF Intact, Named
<1> QED  BY <1>1, <1>2, <1>5 DEF LInv, Cascading

LEMMA LInvStep == LInv /\ [TopologyNext]_topologyVars => LInv'
<1> SUFFICES ASSUME LInv, [TopologyNext]_topologyVars PROVE LInv'
  OBVIOUS
<1>1. IInv'
  BY StepInv DEF LInv
<1>2. Sound(topo) /\ Hinted(topo) /\ Intact(topo) /\ Cascading /\ topo.used \in [Kinds -> SUBSET (Nat \X Nat)]
  BY DEF LInv, IInv, Sound, States
<1> SUFFICES Intact(topo') /\ Cascading'
  BY <1>1 DEF LInv
<1>3. CASE InsertNode
  <2>1. Intact(topo') /\ cascade' = None
    BY <1>2, <1>3, InsertNodeLinks DEF InsertNode, Room
  <2> QED  BY <2>1 DEF Cascading
<1>4. ASSUME NEW from \in Nodes, NEW to \in Nodes, InsertEdge(from, to) PROVE Intact(topo') /\ Cascading'
  <2> DEFINE e == AllocRid(topo, "edge")
  <2>1. /\ from \in topo.used["node"] /\ to \in topo.used["node"] /\ AllocPage(topo, "edge") < MaxPages["edge"]
        /\ topo' = AppendEdge(AppendEdge(WriteEdge(Alloc(topo, "edge"), NewEdge(e, from, to)), from, e, "out"), to, e, "in")
        /\ cascade' = None
    BY <1>4 DEF InsertEdge, Room
  <2> HIDE DEF e
  <2>2. e = AllocRid(topo, "edge")
    BY DEF e
  <2>3. Intact(topo')
    BY <2>1, <2>2, <1>2, InsertEdgeLinks
  <2> QED  BY <2>1, <2>3 DEF Cascading
<1>5. ASSUME NEW e \in Edges, DeleteEdge(e) PROVE Intact(topo') /\ Cascading'
  <2>1. Intact(topo') /\ cascade' = None
    BY <1>2, <1>5, RemoveEdgeLinks DEF DeleteEdge
  <2> QED  BY <2>1 DEF Cascading
<1>6. ASSUME NEW n \in Nodes, DeleteNode(n) PROVE Intact(topo') /\ Cascading'
  <2>1. topo' = topo /\ n \in topo.used["node"] /\ cascade' = [node |-> n, edges |-> Incident(topo, n)]
    BY <1>6 DEF DeleteNode
  <2>2. Walk(topo, n, "out") \cup Walk(topo, n, "in") = Touching(topo, n)
    BY <2>1, <1>2, WalksFind DEF Touching, Dirs
  <2>3. \A e \in topo.used["edge"] : topo.edge[e].id = e
    BY <1>2 DEF Intact, Named
  <2>4. Incident(topo, n) = Touching(topo, n)
    BY <2>2, <2>3 DEF Incident, Touching
  <2> QED  BY <2>1, <2>4, <1>2 DEF Cascading
<1>7. ASSUME NEW e \in Edges, DeleteIncident(e) PROVE Intact(topo') /\ Cascading'
  <2>1. /\ cascade # None /\ e \in cascade.edges /\ topo' = RemoveEdge(topo, e)
        /\ cascade' = [cascade EXCEPT !.edges = @ \ {e}]
    BY <1>7 DEF DeleteIncident
  <2>2. cascade.node \in topo.used["node"] /\ cascade.edges = Touching(topo, cascade.node)
    BY <1>2, <2>1 DEF Cascading
  <2>3. e \in topo.used["edge"]
    BY <2>1, <2>2 DEF Touching
  <2>4. /\ Intact(topo') /\ topo'.used = [topo.used EXCEPT !["edge"] = @ \ {e}]
        /\ EndOf(topo', "out") = EndOf(topo, "out") /\ EndOf(topo', "in") = EndOf(topo, "in")
    BY <2>1, <2>3, <1>2, RemoveEdgeLinks
  <2>5. topo'.used["node"] = topo.used["node"] /\ topo'.used["edge"] = topo.used["edge"] \ {e}
    BY <2>4, <1>2 DEF Kinds
  <2>6. cascade'.node = cascade.node /\ cascade'.edges = cascade.edges \ {e}
    BY <2>1, <1>1 DEF LInv, IInv
  <2>7. Touching(topo', cascade.node) = Touching(topo, cascade.node) \ {e}
    BY <2>4, <2>5 DEF Touching
  <2>8. cascade.node \in topo.used["node"] /\ cascade.edges \ {e} = Touching(topo, cascade.node) \ {e}
    BY <2>2
  <2>9. cascade'.edges = Touching(topo', cascade'.node) /\ cascade'.node \in topo'.used["node"]
    BY <2>5, <2>6, <2>7, <2>8
  <2> QED  BY <2>4, <2>9 DEF Cascading
<1>8. CASE FreeNode
  <2>1. cascade # None /\ cascade.edges = {} /\ topo' = Free(topo, "node", cascade.node) /\ cascade' = None
    BY <1>8 DEF FreeNode
  <2>2. cascade.node \in topo.used["node"] /\ Touching(topo, cascade.node) = {}
    BY <1>2, <2>1 DEF Cascading
  <2>3. \A e \in topo.used["edge"] : EndOf(topo, "out")[e] # cascade.node /\ EndOf(topo, "in")[e] # cascade.node
    BY <2>2 DEF Touching
  <2>4. Intact(topo')
    BY <2>1, <2>2, <2>3, <1>2, FreeNodeLinks
  <2> QED  BY <2>1, <2>4 DEF Cascading
<1>9. CASE UNCHANGED topologyVars
  BY <1>2, <1>9 DEF topologyVars, Cascading
<1> QED  BY <1>3, <1>4, <1>5, <1>6, <1>7, <1>8, <1>9 DEF TopologyNext

\* verify has nothing to report: the ends of every edge in use are in use, and no walk of
\* collect_edge_chain or remove_from_out_list goes in a circle.  It holds between the steps of a cascade too.
THEOREM NothingToReport == TopologySpec => []VerifySilent
<1>1. LInv => VerifySilent
  <2> SUFFICES ASSUME LInv PROVE Verify(topo) = {}
    BY DEF VerifySilent
  <2>1. Intact(topo)
    BY DEF LInv
  <2>2. \A e \in topo.used["edge"] : {topo.edge[e].from, topo.edge[e].to} \subseteq topo.used["node"]
    BY <2>1, EndsInUse
  <2>3. ASSUME NEW n \in topo.used["node"], NEW d \in Dirs, topo.node[n][d] # None
        PROVE  \E e \in Walk(topo, n, d) : topo.edge[e][d] = None
    <3>1. Lists(topo.used["node"], topo.used["edge"], HeadOf(topo, d), NextOf(topo, d), EndOf(topo, d))
      BY <2>1 DEF Intact, Linked
    <3>2. n \in Nodes /\ topo.used["edge"] \subseteq Edges
      BY <3>1 DEF Lists
    <3>3. HeadOf(topo, d)[n] # None
      BY <2>3, <3>2 DEF HeadOf
    <3>4. PICK e \in topo.used["edge"] : EndOf(topo, d)[e] = n /\ NextOf(topo, d)[e] = None
      BY <3>1, <3>3, ListEnds
    <3>5. e \in Walk(topo, n, d)
      BY <3>4, <2>1, WalksFind
    <3>6. topo.edge[e][d] = None
      BY <3>2, <3>4 DEF NextOf
    <3> QED  BY <3>5, <3>6
  <2> QED  BY <2>2, <2>3 DEF Verify, Dirs
<1> QED  BY <1>1, LInvInit, LInvStep, PTL DEF TopologySpec

-----------------------------------------------------------------------------
(* Topology implements Multigraph. *)

\* What the store stands for.
EndsOf(s) == [e \in s.used["edge"] |-> <<s.edge[e].from, s.edge[e].to>>]
EdgesAt(s, d) == [n \in s.used["node"] |-> {e \in s.used["edge"] : EndOf(s, d)[e] = n}]

\* The mapping of ImplementsMultigraph, with the walks as what they find.
LEMMA WalksAre ==
    ASSUME NEW s, Intact(s), NEW d \in Dirs
    PROVE  [n \in s.used["node"] |-> Walk(s, n, d)] = EdgesAt(s, d)
BY WalksFind DEF EdgesAt

LEMMA EndsAre ==
    ASSUME NEW s, Intact(s)
    PROVE  EndsOf(s) = [e \in s.used["edge"] |-> <<EndOf(s, "out")[e], EndOf(s, "in")[e]>>]
BY EndsInUse DEF EndsOf

\* The variables of Multigraph in a state of the store.
LEMMA Mapped ==
    ASSUME NEW s, Intact(s)
    PROVE  /\ [e \in s.used["edge"] |-> <<s.edge[e].from, s.edge[e].to>>] = EndsOf(s)
           /\ [n \in s.used["node"] |-> Walk(s, n, "out")] = EdgesAt(s, "out")
           /\ [n \in s.used["node"] |-> Walk(s, n, "in")] = EdgesAt(s, "in")
BY WalksAre DEF EndsOf, Dirs

\* One more edge.
LEMMA EdgeComes ==
    ASSUME NEW s, NEW t, Intact(s), Intact(t), NEW e, e \notin s.used["edge"], NEW from \in s.used["node"], NEW to \in s.used["node"],
           t.used["node"] = s.used["node"], t.used["edge"] = s.used["edge"] \cup {e},
           \A f \in s.used["edge"] : EndOf(t, "out")[f] = EndOf(s, "out")[f] /\ EndOf(t, "in")[f] = EndOf(s, "in")[f],
           EndOf(t, "out")[e] = from, EndOf(t, "in")[e] = to
    PROVE  /\ EndsOf(t) = Graph!With(EndsOf(s), e, <<from, to>>)
           /\ EdgesAt(t, "out") = [EdgesAt(s, "out") EXCEPT ![from] = @ \cup {e}]
           /\ EdgesAt(t, "in") = [EdgesAt(s, "in") EXCEPT ![to] = @ \cup {e}]
<1>1. EndsOf(t) = Graph!With(EndsOf(s), e, <<from, to>>)
  <2>1. /\ EndsOf(t) = [f \in t.used["edge"] |-> <<EndOf(t, "out")[f], EndOf(t, "in")[f]>>]
        /\ EndsOf(s) = [f \in s.used["edge"] |-> <<EndOf(s, "out")[f], EndOf(s, "in")[f]>>]
    BY EndsAre
  <2>2. DOMAIN EndsOf(s) = s.used["edge"] /\ DOMAIN EndsOf(t) = s.used["edge"] \cup {e}
    BY <2>1
  <2>3. \A f \in s.used["edge"] : EndsOf(t)[f] = EndsOf(s)[f]
    BY <2>1
  <2>4. EndsOf(t)[e] = <<from, to>>
    BY <2>1
  <2>5. EndsOf(t) = [f \in DOMAIN EndsOf(t) |-> EndsOf(t)[f]]
    BY <2>1
  <2> QED  BY <2>2, <2>3, <2>4, <2>5 DEF Graph!With
<1>2. ASSUME NEW d \in Dirs, NEW n \in s.used["node"], EndOf(t, d)[e] = n,
             \A f \in s.used["edge"] : EndOf(t, d)[f] = EndOf(s, d)[f]
      PROVE  EdgesAt(t, d) = [EdgesAt(s, d) EXCEPT ![n] = @ \cup {e}]
  <2>1. \A m \in s.used["node"] : EdgesAt(t, d)[m] = IF m = n THEN EdgesAt(s, d)[m] \cup {e} ELSE EdgesAt(s, d)[m]
    BY <1>2 DEF EdgesAt
  <2> QED  BY <2>1 DEF EdgesAt
<1> QED  BY <1>1, <1>2 DEF Dirs

\* One edge less.
LEMMA EdgeGoes ==
    ASSUME NEW s, NEW t, Intact(s), Intact(t), NEW e \in s.used["edge"],
           t.used["node"] = s.used["node"], t.used["edge"] = s.used["edge"] \ {e},
           EndOf(t, "out") = EndOf(s, "out"), EndOf(t, "in") = EndOf(s, "in")
    PROVE  /\ EndsOf(t) = Graph!Without(EndsOf(s), e)
           /\ EdgesAt(t, "out") = [EdgesAt(s, "out") EXCEPT ![EndsOf(s)[e][1]] = @ \ {e}]
           /\ EdgesAt(t, "in") = [EdgesAt(s, "in") EXCEPT ![EndsOf(s)[e][2]] = @ \ {e}]
<1>1. EndsOf(t) = Graph!Without(EndsOf(s), e)
  <2>1. /\ EndsOf(t) = [f \in t.used["edge"] |-> <<EndOf(t, "out")[f], EndOf(t, "in")[f]>>]
        /\ EndsOf(s) = [f \in s.used["edge"] |-> <<EndOf(s, "out")[f], EndOf(s, "in")[f]>>]
    BY EndsAre
  <2>2. DOMAIN EndsOf(s) = s.used["edge"] /\ DOMAIN EndsOf(t) = s.used["edge"] \ {e}
    BY <2>1
  <2>3. \A f \in s.used["edge"] \ {e} : EndsOf(t)[f] = EndsOf(s)[f]
    BY <2>1
  <2>4. EndsOf(t) = [f \in DOMAIN EndsOf(t) |-> EndsOf(t)[f]]
    BY <2>1
  <2> QED  BY <2>2, <2>3, <2>4 DEF Graph!Without
<1>2. /\ EndsOf(s)[e][1] = EndOf(s, "out")[e] /\ EndsOf(s)[e][2] = EndOf(s, "in")[e]
  BY EndsAre
<1>3. ASSUME NEW d \in Dirs, EndOf(t, d) = EndOf(s, d)
      PROVE  EdgesAt(t, d) = [EdgesAt(s, d) EXCEPT ![EndOf(s, d)[e]] = @ \ {e}]
  <2>1. \A m \in s.used["node"] : {f \in t.used["edge"] : EndOf(t, d)[f] = m} =
            IF m = EndOf(s, d)[e] THEN {f \in s.used["edge"] : EndOf(s, d)[f] = m} \ {e}
            ELSE {f \in s.used["edge"] : EndOf(s, d)[f] = m}
    BY <1>3
  <2>2. DOMAIN EdgesAt(s, d) = s.used["node"]
    BY DEF EdgesAt
  <2>3. ASSUME NEW m \in s.used["node"]
        PROVE  EdgesAt(t, d)[m] = [EdgesAt(s, d) EXCEPT ![EndOf(s, d)[e]] = @ \ {e}][m]
    <3>1. EdgesAt(t, d)[m] = IF m = EndOf(s, d)[e] THEN EdgesAt(s, d)[m] \ {e} ELSE EdgesAt(s, d)[m]
      BY <2>1 DEF EdgesAt
    <3> QED  BY <3>1, <2>2
  <2>4. EdgesAt(t, d) = [m \in s.used["node"] |-> EdgesAt(t, d)[m]]
    BY DEF EdgesAt
  <2> QED  BY <2>2, <2>3, <2>4
<1>4. EdgesAt(t, "out") = [EdgesAt(s, "out") EXCEPT ![EndOf(s, "out")[e]] = @ \ {e}]
  BY <1>3 DEF Dirs
<1>5. EdgesAt(t, "in") = [EdgesAt(s, "in") EXCEPT ![EndOf(s, "in")[e]] = @ \ {e}]
  BY <1>3 DEF Dirs
<1> QED  BY <1>1, <1>2, <1>4, <1>5

\* One more node, without edges.
LEMMA NodeComes ==
    ASSUME NEW s, NEW t, Intact(s), Intact(t), NEW n, n \notin s.used["node"],
           t.used["node"] = s.used["node"] \cup {n}, t.used["edge"] = s.used["edge"],
           EndOf(t, "out") = EndOf(s, "out"), EndOf(t, "in") = EndOf(s, "in")
    PROVE  /\ EndsOf(t) = EndsOf(s)
           /\ EdgesAt(t, "out") = Graph!With(EdgesAt(s, "out"), n, {})
           /\ EdgesAt(t, "in") = Graph!With(EdgesAt(s, "in"), n, {})
<1>1. EndsOf(t) = EndsOf(s)
  BY EndsAre
<1>2. \A e \in s.used["edge"] : EndOf(s, "out")[e] # n /\ EndOf(s, "in")[e] # n
  BY EndsInUse
<1>3. ASSUME NEW d \in Dirs, EndOf(t, d) = EndOf(s, d), \A e \in s.used["edge"] : EndOf(s, d)[e] # n
      PROVE  EdgesAt(t, d) = Graph!With(EdgesAt(s, d), n, {})
  <2>1. \A m \in t.used["node"] : {e \in t.used["edge"] : EndOf(t, d)[e] = m} =
            IF m = n THEN {} ELSE {e \in s.used["edge"] : EndOf(s, d)[e] = m}
    BY <1>3
  <2> QED  BY <2>1 DEF EdgesAt, Graph!With
<1> QED  BY <1>1, <1>2, <1>3 DEF Dirs

\* One node less, which had none.
LEMMA NodeGoes ==
    ASSUME NEW s, NEW t, Intact(s), Intact(t), NEW n \in s.used["node"],
           t.used["node"] = s.used["node"] \ {n}, t.used["edge"] = s.used["edge"],
           EndOf(t, "out") = EndOf(s, "out"), EndOf(t, "in") = EndOf(s, "in")
    PROVE  /\ EndsOf(t) = EndsOf(s)
           /\ EdgesAt(t, "out") = Graph!Without(EdgesAt(s, "out"), n)
           /\ EdgesAt(t, "in") = Graph!Without(EdgesAt(s, "in"), n)
<1>1. EndsOf(t) = EndsOf(s)
  BY EndsAre
<1> QED  BY <1>1 DEF EdgesAt, Graph!Without

LEMMA RefineInit == TopologyInit => Graph!Init
<1> SUFFICES ASSUME TopologyInit PROVE Graph!Init
  OBVIOUS
<1>1. topo.used["node"] = {} /\ topo.used["edge"] = {}
  BY DEF TopologyInit, Empty, Kinds
<1> QED  BY <1>1 DEF Graph!Init, Live

LEMMA RefineStep == LInv /\ LInv' /\ [TopologyNext]_topologyVars => [Graph!Next]_Graph!vars
<1> SUFFICES ASSUME LInv, LInv', [TopologyNext]_topologyVars PROVE [Graph!Next]_Graph!vars
  OBVIOUS
<1>1. /\ Sound(topo) /\ Hinted(topo) /\ Intact(topo) /\ Cascading
      /\ topo.used \in [Kinds -> SUBSET (Nat \X Nat)] /\ "node" \in Kinds /\ "edge" \in Kinds
  BY DEF LInv, IInv, Sound, States, Kinds
<1>2. Intact(topo')
  BY DEF LInv
<1>3. /\ [e \in Live("edge") |-> <<topo.edge[e].from, topo.edge[e].to>>] = EndsOf(topo)
      /\ [n \in Live("node") |-> Walk(topo, n, "out")] = EdgesAt(topo, "out")
      /\ [n \in Live("node") |-> Walk(topo, n, "in")] = EdgesAt(topo, "in")
  BY <1>1, Mapped DEF Live
<1>4. /\ [e \in Live("edge") |-> <<topo.edge[e].from, topo.edge[e].to>>]' = EndsOf(topo')
      /\ [n \in Live("node") |-> Walk(topo, n, "out")]' = EdgesAt(topo', "out")
      /\ [n \in Live("node") |-> Walk(topo, n, "in")]' = EdgesAt(topo', "in")
  BY <1>2, Mapped DEF Live
<1>5. /\ Live("node") = topo.used["node"] /\ Live("node")' = topo'.used["node"]
      /\ DOMAIN EndsOf(topo) = topo.used["edge"]
  BY DEF Live, EndsOf
<1>6. topo.used["node"] \subseteq Nodes /\ topo.used["edge"] \subseteq Edges
  BY <1>1, UsedRecords
<1>7. CASE InsertNode
  <2> DEFINE n == AllocRid(topo, "node")
  <2>1. /\ Intact(topo') /\ topo'.used = [topo.used EXCEPT !["node"] = @ \cup {n}] /\ n \in Nodes \ topo.used["node"]
        /\ EndOf(topo', "out") = EndOf(topo, "out") /\ EndOf(topo', "in") = EndOf(topo, "in")
    BY <1>1, <1>7, InsertNodeLinks DEF InsertNode, Room
  <2> HIDE DEF n
  <2>2. topo'.used["node"] = topo.used["node"] \cup {n} /\ topo'.used["edge"] = topo.used["edge"]
    BY <2>1, <1>1
  <2>3. /\ EndsOf(topo') = EndsOf(topo)
        /\ EdgesAt(topo', "out") = Graph!With(EdgesAt(topo, "out"), n, {})
        /\ EdgesAt(topo', "in") = Graph!With(EdgesAt(topo, "in"), n, {})
    BY <2>1, <2>2, <1>1, NodeComes
  <2>4. Graph!InsertNode(n)
    BY <2>1, <2>2, <2>3, <1>3, <1>4, <1>5 DEF Graph!InsertNode
  <2> QED  BY <2>1, <2>4 DEF Graph!Next
<1>8. ASSUME NEW from \in Nodes, NEW to \in Nodes, InsertEdge(from, to) PROVE Graph!Next
  <2> DEFINE e == AllocRid(topo, "edge")
  <2>1. /\ from \in topo.used["node"] /\ to \in topo.used["node"] /\ AllocPage(topo, "edge") < MaxPages["edge"]
        /\ topo' = AppendEdge(AppendEdge(WriteEdge(Alloc(topo, "edge"), NewEdge(e, from, to)), from, e, "out"), to, e, "in")
    BY <1>8 DEF InsertEdge, Room
  <2> HIDE DEF e
  <2>2. e = AllocRid(topo, "edge")
    BY DEF e
  <2>3. /\ topo'.used = [topo.used EXCEPT !["edge"] = @ \cup {e}] /\ e \in Edges \ topo.used["edge"]
        /\ \A f \in topo.used["edge"] : /\ EndOf(topo', "out")[f] = EndOf(topo, "out")[f]
                                        /\ EndOf(topo', "in")[f] = EndOf(topo, "in")[f]
        /\ EndOf(topo', "out")[e] = from /\ EndOf(topo', "in")[e] = to
    BY <2>1, <2>2, <1>1, InsertEdgeLinks
  <2>4. topo'.used["node"] = topo.used["node"] /\ topo'.used["edge"] = topo.used["edge"] \cup {e}
    BY <2>3, <1>1
  <2>5. /\ EndsOf(topo') = Graph!With(EndsOf(topo), e, <<from, to>>)
        /\ EdgesAt(topo', "out") = [EdgesAt(topo, "out") EXCEPT ![from] = @ \cup {e}]
        /\ EdgesAt(topo', "in") = [EdgesAt(topo, "in") EXCEPT ![to] = @ \cup {e}]
    BY <2>1, <2>3, <2>4, <1>1, <1>2, EdgeComes
  <2>6. Graph!InsertEdge(e, from, to)
    BY <2>1, <2>3, <2>4, <2>5, <1>3, <1>4, <1>5 DEF Graph!InsertEdge
  <2> QED  BY <2>3, <2>6 DEF Graph!Next
<1>9. ASSUME NEW e \in topo.used["edge"], topo' = RemoveEdge(topo, e) PROVE Graph!Next
  <2>1. /\ topo'.used = [topo.used EXCEPT !["edge"] = @ \ {e}]
        /\ EndOf(topo', "out") = EndOf(topo, "out") /\ EndOf(topo', "in") = EndOf(topo, "in")
    BY <1>1, <1>9, RemoveEdgeLinks
  <2>2. topo'.used["node"] = topo.used["node"] /\ topo'.used["edge"] = topo.used["edge"] \ {e}
    BY <2>1, <1>1
  <2>3. /\ EndsOf(topo') = Graph!Without(EndsOf(topo), e)
        /\ EdgesAt(topo', "out") = [EdgesAt(topo, "out") EXCEPT ![EndsOf(topo)[e][1]] = @ \ {e}]
        /\ EdgesAt(topo', "in") = [EdgesAt(topo, "in") EXCEPT ![EndsOf(topo)[e][2]] = @ \ {e}]
    BY <2>1, <2>2, <1>1, <1>2, EdgeGoes
  <2>4. Graph!DeleteEdge(e)
    BY <2>2, <2>3, <1>3, <1>4, <1>5 DEF Graph!DeleteEdge
  <2> QED  BY <2>4, <1>6 DEF Graph!Next
<1>10. ASSUME NEW e \in Edges, DeleteEdge(e) PROVE Graph!Next
  BY <1>9, <1>10 DEF DeleteEdge
<1>11. ASSUME NEW e \in Edges, DeleteIncident(e) PROVE Graph!Next
  <2>1. cascade # None /\ e \in cascade.edges /\ topo' = RemoveEdge(topo, e)
    BY <1>11 DEF DeleteIncident
  <2>2. e \in topo.used["edge"]
    BY <2>1, <1>1 DEF Cascading, Touching
  <2> QED  BY <2>1, <2>2, <1>9
<1>12. CASE FreeNode
  <2> DEFINE n == cascade.node
  <2>1. n \in topo.used["node"] /\ Touching(topo, n) = {} /\ topo' = Free(topo, "node", n)
    BY <1>1, <1>12 DEF FreeNode, Cascading
  <2> HIDE DEF n
  <2>2. \A e \in topo.used["edge"] : EndOf(topo, "out")[e] # n /\ EndOf(topo, "in")[e] # n
    BY <2>1 DEF Touching
  <2>3. /\ topo'.used = [topo.used EXCEPT !["node"] = @ \ {n}]
        /\ EndOf(topo', "out") = EndOf(topo, "out") /\ EndOf(topo', "in") = EndOf(topo, "in")
    BY <2>1, <2>2, <1>1, FreeNodeLinks
  <2>4. topo'.used["node"] = topo.used["node"] \ {n} /\ topo'.used["edge"] = topo.used["edge"]
    BY <2>3, <1>1
  <2>5. /\ EndsOf(topo') = EndsOf(topo)
        /\ EdgesAt(topo', "out") = Graph!Without(EdgesAt(topo, "out"), n)
        /\ EdgesAt(topo', "in") = Graph!Without(EdgesAt(topo, "in"), n)
    BY <2>1, <2>3, <2>4, <1>1, <1>2, NodeGoes
  <2>6. \A e \in topo.used["edge"] : n \notin {EndsOf(topo)[e][1], EndsOf(topo)[e][2]}
    BY <2>2, <1>1, EndsAre
  <2>7. Graph!DeleteNode(n)
    BY <2>1, <2>4, <2>5, <2>6, <1>3, <1>4, <1>5 DEF Graph!DeleteNode
  <2> QED  BY <2>1, <2>7, <1>6 DEF Graph!Next
<1>13. ASSUME topo' = topo PROVE UNCHANGED Graph!vars
  BY <1>13, <1>3, <1>4, <1>5 DEF Graph!vars
<1>14. ASSUME NEW n \in Nodes, DeleteNode(n) PROVE UNCHANGED Graph!vars
  BY <1>13, <1>14 DEF DeleteNode
<1>15. CASE UNCHANGED topologyVars
  BY <1>13, <1>15 DEF topologyVars
<1> QED  BY <1>7, <1>8, <1>10, <1>11, <1>12, <1>14, <1>15 DEF TopologyNext

\* The store with its linked lists, slots and cascades is a Multigraph: a walk of a node finds its edges and no
\* other, a slot in use again starts with no edge, and the cascade leaves none behind
\* (append_out_edge, delete_edge, delete_node).
THEOREM Refinement == TopologySpec => ImplementsMultigraph
BY LInvInit, LInvStep, RefineInit, RefineStep, PTL DEF TopologySpec, ImplementsMultigraph, Graph!Spec
==============================================================================
