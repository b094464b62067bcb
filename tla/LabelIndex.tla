------------------------------ MODULE LabelIndex ------------------------------
(***************************************************************************)
(* The label index of chiffondb (storage/label_index.rs): the nodes of a   *)
(* type lie in a chain of pages, ordered                                   *)
(*     head, partly filled -> empty spares -> full pages.                  *)
(* An empty page may record where a run of spares that it leads ends; the  *)
(* record is a hint that the code checks before it uses it.                *)
(*                                                                         *)
(* The root map from types to heads is a function: its own pages only ever *)
(* grow.  One call is one step.                                            *)
(***************************************************************************)
EXTENDS Naturals, Sequences, FiniteSets

CONSTANTS
    Types, Rids,
    Capacity,     \* entries of a page (681 in the code)
    MaxLabelPages,     \* bound: pages of all chains
    NoPage

ASSUME CapacityAssumption == Capacity \in Nat /\ Capacity >= 2
ASSUME NoPageAssumption == NoPage \notin Nat

VARIABLE index    \* the head of each type, and the pages

labelVars == index

Pids == 1 .. MaxLabelPages

Entries(s, p) == s.pages[p].entries
NextPage(s, p) == s.pages[p].next
IsEmpty(s, p) == Entries(s, p) = <<>>

\* The end-of-run record of a page: entry 0 lies over it.
SpareTail(s, p) == IF IsEmpty(s, p) THEN s.pages[p].tail ELSE NoPage

SetNext(s, p, q) == [s EXCEPT !.pages[p].next = q]
SetTail(s, p, q) == [s EXCEPT !.pages[p].tail = q]
SetHead(s, t, p) == [s EXCEPT !.head[t] = p]
SetEntries(s, p, es) ==
    [s EXCEPT !.pages[p].entries = es, !.pages[p].tail = IF es = <<>> THEN @ ELSE NoPage]

\* A page with one entry at the front of the chain.
PushPage(s, t, r) ==
    [s EXCEPT !.pages = Append(@, [next |-> s.head[t], entries |-> <<r>>, tail |-> NoPage]),
              !.head[t] = Len(s.pages) + 1]

\* The pages of a type, in the order of a walk; a walk of more pages than there
\* are is given up.
TypeChain(s, t) ==
    LET walk[k \in Nat] ==
            IF k = 0 THEN IF s.head[t] = NoPage THEN <<>> ELSE <<s.head[t]>>
            ELSE LET before == walk[k - 1]
                 IN  IF Len(before) < k \/ NextPage(s, before[k]) = NoPage THEN before
                     ELSE Append(before, NextPage(s, before[k]))
    IN  walk[Len(s.pages) + 1]

InChain(s, t) == LET chain == TypeChain(s, t) IN {chain[k] : k \in DOMAIN chain}
-----------------------------------------------------------------------------
(* promote_spare: the first spare leads, the full head goes behind the run. *)

HasSpare(s, head) == NextPage(s, head) # NoPage /\ IsEmpty(s, NextPage(s, head))

RunEnd(s, head) ==
    LET s1 == NextPage(s, head)
        t  == SpareTail(s, s1)
    IN  IF t # NoPage /\ t # head /\ IsEmpty(s, t) THEN t ELSE s1

PromoteSpare(s, head) ==
    LET s1   == NextPage(s, head)
        s2   == NextPage(s, s1)
        last == RunEnd(s, head)
        relinked == SetNext(SetNext(s, head, NextPage(s, last)), last, head)
    IN  IF last # s1 /\ IsEmpty(relinked, s2) THEN SetTail(relinked, s2, last) ELSE relinked

\* add_new.
AddNew(s, t, r) ==
    LET head == s.head[t]
    IN  IF head = NoPage THEN PushPage(s, t, r)
        ELSE IF Len(Entries(s, head)) < Capacity
        THEN SetEntries(s, head, Append(Entries(s, head), r))
        ELSE IF HasSpare(s, head)
        THEN SetHead(SetEntries(PromoteSpare(s, head), NextPage(s, head), <<r>>), t, NextPage(s, head))
        ELSE PushPage(s, t, r)
-----------------------------------------------------------------------------
(* promote_first_non_empty: the empty head gives way to a page with entries. *)

\* The record of the first spare, if the page it names is empty and the page
\* behind that is not.
RecordHolds(s, first) ==
    LET last == SpareTail(s, first)
    IN  /\ last # NoPage /\ IsEmpty(s, last)
        /\ NextPage(s, last) # NoPage /\ ~ IsEmpty(s, NextPage(s, last))

\* The empty page directly in front of the first page with entries.
LastEmpty(s, t) ==
    LET chain == TypeChain(s, t)
        first == NextPage(s, chain[1])
    IN  IF IsEmpty(s, first) /\ RecordHolds(s, first) THEN SpareTail(s, first)
        ELSE chain[CHOOSE k \in DOMAIN chain :
                    /\ \A j \in 1 .. k : IsEmpty(s, chain[j])
                    /\ ~ IsEmpty(s, NextPage(s, chain[k]))]

\* Mutant of PromoteFirstNonEmpty: what was behind the new head is not hung again.
PromoteDropsRest(s, t) ==
    LET d == NextPage(s, LastEmpty(s, t))
    IN  SetTail(SetHead(SetNext(s, d, s.head[t]), t, d), s.head[t], LastEmpty(s, t))

PromoteFirstNonEmpty(s, t) ==
    LET head == s.head[t]
        last == LastEmpty(s, t)
        d    == NextPage(s, last)
        s1   == SetHead(SetNext(s, d, head), t, d)
    IN  SetTail(SetNext(s1, last, NextPage(s, d)), head, last)

\* Mutant of FillHole: the head shrinks, and the hole stays.
FillHoleNever(s, t, p, i) ==
    LET s1 == IF IsEmpty(s, s.head[t]) THEN PromoteFirstNonEmpty(s, t) ELSE s
        es == Entries(s1, s1.head[t])
    IN  SetEntries(s1, s1.head[t], SubSeq(es, 1, Len(es) - 1))

\* fill_hole_from_head: the last entry of the head goes into the hole.
FillHole(s, t, p, i) ==
    LET s1    == IF IsEmpty(s, s.head[t]) THEN PromoteFirstNonEmpty(s, t) ELSE s
        donor == s1.head[t]
        es    == Entries(s1, donor)
        last  == es[Len(es)]
        rest  == SubSeq(es, 1, Len(es) - 1)
    IN  IF p = donor
        THEN SetEntries(s1, p, SubSeq([es EXCEPT ![i] = last], 1, Len(es) - 1))
        ELSE SetEntries(SetEntries(s1, donor, rest), p, [Entries(s1, p) EXCEPT ![i] = last])

\* Where a walk of the chain finds the node.
Finds(s, t, r) ==
    UNION {{<<p, i>> : i \in {j \in DOMAIN Entries(s, p) : Entries(s, p)[j] = r}} : p \in InChain(s, t)}

-----------------------------------------------------------------------------
\* add: nothing changes when a walk finds the node.
AddTo(s, t, r) == IF Finds(s, t, r) # {} THEN s ELSE AddNew(s, t, r)

RemoveFrom(s, t, r) ==
    IF Finds(s, t, r) = {} THEN s
    ELSE LET at == CHOOSE x \in Finds(s, t, r) : TRUE IN FillHole(s, t, at[1], at[2])

Add(t, r) ==
    /\ Len(AddTo(index, t, r).pages) <= MaxLabelPages
    /\ index' = AddTo(index, t, r)

Remove(t, r) == index' = RemoveFrom(index, t, r)

LabelInit == index = [head |-> [t \in Types |-> NoPage], pages |-> <<>>]

LabelCalls == \E t \in Types, r \in Rids : Add(t, r) \/ Remove(t, r)

LabelSpec == LabelInit /\ [][LabelCalls]_labelVars

-----------------------------------------------------------------------------
(* Properties. *)

\* Each page is in the chain of one type, once: no relinking loses a page, closes a
\* cycle or joins two types (promote_spare, promote_first_non_empty).
PagesInOneChain ==
    /\ \A t \in Types : Len(TypeChain(index, t)) = Cardinality(InChain(index, t))
    /\ \A t, u \in Types : t # u => InChain(index, t) \cap InChain(index, u) = {}
    /\ UNION {InChain(index, t) : t \in Types} = DOMAIN index.pages

\* get: the entries of the pages of a type.
Members(s, t) ==
    UNION {{Entries(s, p)[i] : i \in DOMAIN Entries(s, p)} : p \in InChain(s, t)}

\* A call adds or removes the node it is given and no other, whatever entries it
\* moves: the chain of a type is a set of nodes (add, remove).
CallsChangeOneNode ==
    [][index' = index \/ \A t \in Types, r \in Rids :
        /\ Add(t, r) => Members(index', t) = Members(index, t) \cup {r}
        /\ Remove(t, r) => Members(index', t) = Members(index, t) \ {r}]_labelVars
==============================================================================
