------------------------------ MODULE PageCache ------------------------------
(***************************************************************************)
(* The page cache of the file backend (storage/buffer.rs): frames in a     *)
(* vector, linked by their places in it into a list by last use, with a    *)
(* list of the places that became free.                                    *)
(***************************************************************************)
EXTENDS Naturals, Sequences, FiniteSets

CONSTANTS
    PageIds,
    Puts,        \* page -> what is put: data, and whether it differs from what is stored
    Limit        \* frames: the capacity, at least 1

ASSUME LimitAssumption == Limit \in Nat \ {0}
ASSUME PutsAssumption == \A p \in PageIds : \A put \in Puts[p] : put[2] \in BOOLEAN

VARIABLES
    slab,        \* the frames
    vacant,      \* the places of frames that left
    slotOf,      \* page -> its place
    ends,        \* the least and the most recently used
    answer       \* what the last call gave: data, a page to be written with its data, or nothing

cacheVars == <<slab, vacant, slotOf, ends, answer>>

NIL == 0
Nothing == <<>>
NoEnds == [lru |-> NIL, mru |-> NIL]
List == [slab |-> slab, ends |-> ends]

Frame(p, d, changed) == [page |-> p, data |-> d, dirty |-> changed, prev |-> NIL, next |-> NIL]

\* Mutant of Unlink: the most recently used end is not moved.
UnlinkMutant(list, slot) ==
    LET f == list.slab[slot]
        s == [k \in DOMAIN list.slab |->
                 IF k = slot THEN [list.slab[k] EXCEPT !.prev = NIL, !.next = NIL]
                 ELSE IF k = f.prev THEN [list.slab[k] EXCEPT !.next = f.next]
                 ELSE IF k = f.next THEN [list.slab[k] EXCEPT !.prev = f.prev] ELSE list.slab[k]]
    IN  [slab |-> s, ends |-> [list.ends EXCEPT !.lru = IF f.prev = NIL THEN f.next ELSE @]]

Unlink(list, slot) ==
    LET f == list.slab[slot]
        s == [k \in DOMAIN list.slab |->
                 IF k = slot THEN [list.slab[k] EXCEPT !.prev = NIL, !.next = NIL]
                 ELSE IF k = f.prev THEN [list.slab[k] EXCEPT !.next = f.next]
                 ELSE IF k = f.next THEN [list.slab[k] EXCEPT !.prev = f.prev] ELSE list.slab[k]]
    IN  [slab |-> s,
         ends |-> [lru |-> IF f.prev = NIL THEN f.next ELSE list.ends.lru,
                   mru |-> IF f.next = NIL THEN f.prev ELSE list.ends.mru]]

PushMru(list, slot) ==
    LET tail == list.ends.mru
        s    == [list.slab EXCEPT ![slot].prev = tail, ![slot].next = NIL]
    IN  [slab |-> IF tail = NIL THEN s ELSE [s EXCEPT ![tail].next = slot],
         ends |-> [lru |-> IF tail = NIL THEN slot ELSE list.ends.lru, mru |-> slot]]

Touch(list, slot) == IF list.ends.mru = slot THEN list ELSE PushMru(Unlink(list, slot), slot)

Becomes(list) == slab' = list.slab /\ ends' = list.ends
Without(f, x) == [y \in DOMAIN f \ {x} |-> f[y]]
With(f, x, v) == [y \in DOMAIN f \cup {x} |-> IF y = x THEN v ELSE f[y]]

CacheGet(p) ==
    \/ /\ p \in DOMAIN slotOf
       /\ Becomes(Touch(List, slotOf[p]))
       /\ answer' = <<slab[slotOf[p]].data>>
       /\ UNCHANGED <<vacant, slotOf>>
    \/ p \notin DOMAIN slotOf /\ answer' = Nothing /\ UNCHANGED <<slab, vacant, slotOf, ends>>

\* A page that is there stays changed once it is.
CacheUpdate(p, d, changed) ==
    /\ p \in DOMAIN slotOf
    /\ LET slot == slotOf[p]
           s == [slab EXCEPT ![slot].data = d, ![slot].dirty = @ \/ changed]
       IN  Becomes(Touch([List EXCEPT !.slab = s], slot))
    /\ answer' = Nothing
    /\ UNCHANGED <<vacant, slotOf>>

\* The frame goes to the place that became free last, or behind all others.
Placed(list, free, p, d, changed) ==
    LET slot == IF free = <<>> THEN Len(list.slab) + 1 ELSE free[Len(free)]
        s    == IF free = <<>> THEN Append(list.slab, Frame(p, d, changed))
                ELSE [list.slab EXCEPT ![slot] = Frame(p, d, changed)]
    IN  [list |-> PushMru([list EXCEPT !.slab = s], slot), slot |-> slot,
         free |-> IF free = <<>> THEN <<>> ELSE SubSeq(free, 1, Len(free) - 1)]

CacheInsert(p, d, changed) ==
    /\ p \notin DOMAIN slotOf /\ Cardinality(DOMAIN slotOf) < Limit
    /\ LET done == Placed(List, vacant, p, d, changed)
       IN  Becomes(done.list) /\ vacant' = done.free /\ slotOf' = With(slotOf, p, done.slot)
    /\ answer' = Nothing

Victim(frame) == IF frame.dirty THEN <<frame.page, frame.data>> ELSE Nothing

\* evict_lru, then the insertion.
CacheReplace(p, d, changed) ==
    /\ p \notin DOMAIN slotOf /\ Cardinality(DOMAIN slotOf) >= Limit
    /\ LET old  == ends.lru
           done == Placed(Unlink(List, old), Append(vacant, old), p, d, changed)
       IN  /\ Becomes(done.list) /\ vacant' = done.free
           /\ slotOf' = With(Without(slotOf, slab[old].page), p, done.slot)
           /\ answer' = Victim(slab[old])

\* Mutant of Vacated: the place of a removed frame is forgotten.
VacatedMutant(slot) == vacant

Vacated(slot) == Append(vacant, slot)

CacheRemove(p) ==
    /\ IF p \in DOMAIN slotOf
       THEN /\ Becomes(Unlink(List, slotOf[p]))
            /\ vacant' = Vacated(slotOf[p]) /\ slotOf' = Without(slotOf, p)
       ELSE UNCHANGED <<slab, vacant, slotOf, ends>>
    /\ answer' = Nothing

CacheClear ==
    /\ slab' = <<>> /\ vacant' = <<>> /\ slotOf' = <<>> /\ ends' = NoEnds
    /\ answer' = Nothing

CacheInit == slab = <<>> /\ vacant = <<>> /\ slotOf = <<>> /\ ends = NoEnds /\ answer = Nothing

CacheNext ==
    \/ CacheClear
    \/ \E p \in PageIds : CacheGet(p) \/ CacheRemove(p)
    \/ \E p \in PageIds : \E put \in Puts[p] :
           CacheUpdate(p, put[1], put[2]) \/ CacheInsert(p, put[1], put[2]) \/ CacheReplace(p, put[1], put[2])

CacheSpec == CacheInit /\ [][CacheNext]_cacheVars

-----------------------------------------------------------------------------
\* Properties.

\* What a frame holds, without its links.
Held(frame) == [page |-> frame.page, data |-> frame.data, dirty |-> frame.dirty]

\* The walk along the links from the least recently used frame: what the first k frames hold,
\* and the place of the next one.
Walk(list) ==
    LET walk[k \in 0 .. Len(list.slab)] ==
            IF k = 0 THEN [seq |-> <<>>, at |-> list.ends.lru]
            ELSE IF walk[k - 1].at = NIL THEN walk[k - 1]
            ELSE LET f == list.slab[walk[k - 1].at]
                 IN  [seq |-> Append(walk[k - 1].seq, Held(f)), at |-> f.next]
    IN  walk

\* The pages as the links order them.
Ordered == Walk(List)[Len(slab)].seq

Lru == INSTANCE LruCache WITH recent <- Ordered

\* The links, read from one end, are the order of last use through every mix of hits, updates,
\* evictions, removals and reused places: the page that goes is the one unused for longest, and
\* if it was changed the caller gets it (get, put, remove, clear).
ImplementsLru == Lru!LruSpec

\* No place of the vector is lost: each holds a page or waits to be taken, so the vector stays
\* within the capacity, and the links read from the other end are the same (unlink, push_mru).
PlacesKept ==
    /\ Len(slab) <= Limit
    /\ Len(vacant) + Cardinality(DOMAIN slotOf) = Len(slab)
    /\ \A p \in DOMAIN slotOf :
           LET f == slab[slotOf[p]]
           IN  /\ f.page = p
               /\ IF f.next = NIL THEN ends.mru = slotOf[p] ELSE slab[f.next].prev = slotOf[p]
               /\ IF f.prev = NIL THEN ends.lru = slotOf[p] ELSE slab[f.prev].next = slotOf[p]
==============================================================================
