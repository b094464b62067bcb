---------------------------- MODULE PropertyPages ----------------------------
(***************************************************************************)
(* The property store of chiffondb: the slotted pages and page chains of   *)
(* storage/property.rs, the allocator of storage/value.rs with its hint,   *)
(* and the list of free pages of storage/file.rs.                          *)
(*                                                                         *)
(* A small value takes a slot of a shared page, a large one a chain of     *)
(* pages of its own.  Nothing on a page says which it is: a page is W      *)
(* half-words, and the kinds of page overlap in them:                      *)
(*                                                                         *)
(*              0             1             2           3          4 ...   *)
(*   slotted    slot count    live count    offset 0    length 0   ...     *)
(*   chain      next, low     next, high    chunk length (2)       bytes   *)
(*   free       Marker        0             next free page (2)             *)
(*                                                                         *)
(* Page numbers are logical and start at 0; the page directory is left out.*)
(***************************************************************************)
EXTENDS Naturals, Sequences, FiniteSets

CONSTANTS
    W,            \* half-words of a page (2048 in the code)
    Threshold,    \* a page with less room is full for the hint (32 in the code)
    Sizes, Tags,  \* values, by size and by content
    MaxPages,     \* bound: pages
    ClearLinks    \* bound: no link of a chain lets its page pass for one of another kind

VARIABLES
    store,        \* the pages, the hint and the head of the free list
    held,         \* the records the callers hold: record id and value
    result        \* how the last call ended

vars == <<store, held, result>>

Values == [size : Sizes, tag : Tags]

\* A half-word has 15 bits here, 16 in the code: TLC's integers end below 2^31.
Base == 32768
Marker == Base - 1                  \* FREE_PAGE_MARKER, TOMBSTONE_OFF, CHAIN_HEAD_SLOT
Link(n) == <<n % Base, n \div Base>>
None == Marker + Base * Marker      \* NO_NEXT_PAGE, NO_FREE_PAGE

ASSUME WidthAssumption == W \in Nat /\ W > 4 /\ W < 16384
ASSUME SizesAssumption == Sizes \subseteq Nat \ {0} /\ Tags \subseteq 1 .. 15
ASSUME BoundsAssumption == MaxPages \in Nat /\ MaxPages < None /\ ClearLinks \in BOOLEAN

\* The half-words of a value.  The second byte of a MessagePack map with text
\* keys is above 0x9F, or the fourth is: no data reads as a slot on the page.
\* Words 512 apart are alike, and all are below Marker.
Bytes(v) == [i \in 1 .. v.size |-> 16384 + 16 * (i % 512) + v.tag]

Count(s) == Len(s.pages)
Page(s, l) == s.pages[l + 1]
SetPage(s, l, p) == [s EXCEPT !.pages[l + 1] = p]

Blank == [i \in 0 .. W - 1 |-> 0]
Overwrite(p, at, words) ==
    [i \in DOMAIN p |-> IF i \in at .. at + Len(words) - 1 THEN words[i - at + 1] ELSE p[i]]
ReadWords(p, at, n) == [i \in 1 .. n |-> p[at + i - 1]]

Least(S) == CHOOSE x \in S : \A y \in S : x <= y
-----------------------------------------------------------------------------
(* SlottedPage. *)

Slots(p) == 0 .. p[0] - 1
Offset(p, i) == p[2 + 2 * i]
Length(p, i) == p[3 + 2 * i]

IsValid(p) ==
    /\ p[0] # Marker
    /\ 2 + 2 * p[0] <= W
    /\ \A i \in Slots(p) : Offset(p, i) = Marker \/ Offset(p, i) + Length(p, i) <= W

DataEnd(p) == IF p[0] = 0 THEN W ELSE Least({Offset(p, i) : i \in Slots(p)})

\* Mutant of DirEnd: the entry of the new slot is not counted.
DirEndShort(p) == 2 + 2 * p[0]

\* The end of the directory with one more entry.
DirEnd(p) == 4 + 2 * p[0]

Fits(p, n) == DirEnd(p) + n <= DataEnd(p)

WriteSlot(p, bytes) ==
    LET at == DataEnd(p) - Len(bytes)
        p1 == Overwrite(p, at, bytes)
        p2 == Overwrite(p1, 2 + 2 * p[0], <<at, Len(bytes)>>)
    IN  Overwrite(p2, 0, <<p[0] + 1, p[1] + 1>>)

\* Freeing a freed slot changes nothing; the live count never goes below zero.
FreeSlot(p, i) ==
    IF Offset(p, i) = Marker THEN p
    ELSE Overwrite(Overwrite(p, 2 + 2 * i, <<Marker, 0>>), 1, <<IF p[1] = 0 THEN 0 ELSE p[1] - 1>>)
-----------------------------------------------------------------------------
(* The free list: alloc_property_page and free_property_page. *)

IsFreeMarked(p) == p[0] = Marker

\* A head without the marker is not trusted and empties the list.
Reuses(s) == s.free # None /\ IsFreeMarked(Page(s, s.free))
NewPage(s) == IF Reuses(s) THEN s.free ELSE Count(s)

LinkOf(p, at) == p[at] + Base * p[at + 1]

AllocPage(s, p) ==
    IF Reuses(s)
    THEN [SetPage(s, s.free, p) EXCEPT !.free = LinkOf(Page(s, s.free), 2)]
    ELSE [s EXCEPT !.pages = Append(@, p), !.free = None]

FreePage(s, l) ==
    [SetPage(s, l, Overwrite(Blank, 0, <<Marker, 0>> \o Link(s.free))) EXCEPT !.free = l]

HintOf(s) == IF s.hint < Count(s) THEN s.hint ELSE Count(s)
BackOffHint(s, l) == IF l < HintOf(s) THEN [s EXCEPT !.hint = l] ELSE s
-----------------------------------------------------------------------------
(* Writing a small value. *)

Small(n) == n + 3 <= W

Scanned(s) == HintOf(s) .. Count(s) - 1
Takers(s, n) == {l \in Scanned(s) : IsValid(Page(s, l)) /\ Fits(Page(s, l), n)}

\* The pages the hint may not pass: they have room for a smaller value.
Open(s) == {l \in Scanned(s) : IsValid(Page(s, l)) /\ Fits(Page(s, l), Threshold)}

Slotted(p, l) == <<l, p[0]>>

WriteShared(s, bytes) ==
    LET l  == Least(Takers(s, Len(bytes)))
        s1 == SetPage(s, l, WriteSlot(Page(s, l), bytes))
    IN  [store |-> IF \E o \in Open(s) : o < l \/ l = HintOf(s) THEN s1 ELSE [s1 EXCEPT !.hint = l],
         rid |-> Slotted(Page(s, l), l)]

\* The page may be one of the free list, below the hint.
HintAfterAlloc(s, l) == Least({l, IF Open(s) = {} THEN l ELSE Least(Open(s))})

WriteFresh(s, bytes) ==
    LET l == NewPage(s)
    IN  [store |-> [AllocPage(s, WriteSlot(Blank, bytes)) EXCEPT !.hint = HintAfterAlloc(s, l)],
         rid |-> Slotted(Blank, l)]
(* Page chains. *)

ChunkSize == W - 4
Chunks(n) == (n + ChunkSize - 1) \div ChunkSize

Chunk(bytes, k) ==
    LET from == (k - 1) * ChunkSize + 1
        to == IF k * ChunkSize < Len(bytes) THEN k * ChunkSize ELSE Len(bytes)
    IN  SubSeq(bytes, from, to)

ChunkPage(bytes, k, next) ==
    Overwrite(Blank, 0, Link(next) \o Link(Len(Chunk(bytes, k))) \o Chunk(bytes, k))

\* write_blob_chain links by position in the chain.
Position(bytes, k) == IF k < Chunks(Len(bytes)) THEN k ELSE None

\* The store and the pages of the chain after k allocations.
AllocChain(s, bytes) ==
    LET step[k \in 0 .. Chunks(Len(bytes))] ==
            IF k = 0 THEN [store |-> s, pages |-> <<>>]
            ELSE LET before == step[k - 1]
                 IN  [store |-> AllocPage(before.store, ChunkPage(bytes, k, Position(bytes, k))),
                      pages |-> Append(before.pages, NewPage(before.store))]
    IN  step[Chunks(Len(bytes))]

\* relink_chain_to_logical.
Relink(s, chain) ==
    LET next(k) == IF k < Len(chain) THEN chain[k + 1] ELSE None
        place(l) == CHOOSE k \in DOMAIN chain : chain[k] = l
    IN  [s EXCEPT !.pages = [i \in DOMAIN @ |->
            IF \E k \in DOMAIN chain : chain[k] = i - 1
            THEN Overwrite(@[i], 0, Link(next(place(i - 1)))) ELSE @[i]]]

WriteChain(s, bytes) ==
    LET done == AllocChain(s, bytes)
    IN  [store |-> Relink(done.store, done.pages), rid |-> <<done.pages[1], Marker>>]

\* The walk of a chain: its pages in order, cut at a page that is not there or when
\* it is longer than the store.
Chain(s, head) ==
    LET step[k \in Nat] ==
            IF k = 0 THEN <<head>>
            ELSE LET before == step[k - 1]
                     last == before[Len(before)]
                 IN  IF Len(before) < k \/ last >= Count(s) \/ LinkOf(Page(s, last), 0) = None
                     THEN before
                     ELSE Append(before, LinkOf(Page(s, last), 0))
    IN  step[Count(s) + 1]

\* The walk met the end of the chain, and no error.
Ends(s, chain) ==
    LET last == chain[Len(chain)]
    IN  last < Count(s) /\ LinkOf(Page(s, last), 0) = None
-----------------------------------------------------------------------------
(* read_property_bytes, write_property_bytes, free_property_bytes. *)

Error == <<>>

ReadSlot(s, r) ==
    LET p == Page(s, r[1])
    IN  IF r[2] \notin Slots(p) \/ Offset(p, r[2]) = Marker THEN Error
        ELSE ReadWords(p, Offset(p, r[2]), Length(p, r[2]))

ReadChain(s, head) ==
    LET chain == Chain(s, head)
        read[k \in 0 .. Len(chain)] ==
            IF k = 0 THEN <<>>
            ELSE read[k - 1] \o ReadWords(Page(s, chain[k]), 4, LinkOf(Page(s, chain[k]), 2))
    IN  IF Ends(s, chain) THEN read[Len(chain)] ELSE Error

ReadBytes(s, r) == IF r[2] = Marker THEN ReadChain(s, r[1]) ELSE ReadSlot(s, r)

\* The new store and record id; nothing is written when a small value does not
\* even fit a page of its own.
WriteBytes(s, bytes) ==
    IF ~ Small(Len(bytes)) THEN WriteChain(s, bytes)
    ELSE IF Takers(s, Len(bytes)) # {} THEN WriteShared(s, bytes)
    ELSE WriteFresh(s, bytes)

WriteFails(s, bytes) ==
    Small(Len(bytes)) /\ Takers(s, Len(bytes)) = {} /\ ~ Fits(Blank, Len(bytes))

\* The chain is collected, then its pages are freed from the head on.
FreeChain(s, head) ==
    LET chain == Chain(s, head)
        step[k \in 0 .. Len(chain)] ==
            IF k = 0 THEN s ELSE BackOffHint(FreePage(step[k - 1], chain[k]), chain[k])
    IN  IF ~ IsFreeMarked(Page(s, head)) /\ Ends(s, chain) THEN step[Len(chain)] ELSE s

\* Mutant of FreeShared: a page with no live slot stays a slotted page.
FreeSharedSlot(s, r) ==
    LET p == FreeSlot(Page(s, r[1]), r[2])
    IN  IF IsFreeMarked(Page(s, r[1])) THEN s ELSE BackOffHint(SetPage(s, r[1], p), r[1])

\* The page goes to the free list with its last slot.
FreeShared(s, r) ==
    LET p == FreeSlot(Page(s, r[1]), r[2])
    IN  IF IsFreeMarked(Page(s, r[1])) THEN s
        ELSE BackOffHint(IF p[1] = 0 THEN FreePage(s, r[1]) ELSE SetPage(s, r[1], p), r[1])

FreeBytes(s, r) == IF r[2] = Marker THEN FreeChain(s, r[1]) ELSE FreeShared(s, r)

FreeFails(s, r) ==
    IF r[2] = Marker THEN ~ IsFreeMarked(Page(s, r[1])) /\ ~ Ends(s, Chain(s, r[1]))
    ELSE ~ IsFreeMarked(Page(s, r[1])) /\ r[2] \notin Slots(Page(s, r[1]))

-----------------------------------------------------------------------------
Room(s) == Count(s) <= MaxPages

\* The low half of a link lies where other pages have their slot count or the marker.
Clear(l) == l % Base \notin {0, 1, Marker}
LinksClear(s, bytes) ==
    LET chain == AllocChain(s, bytes).pages
    IN  \A k \in 2 .. Len(chain) : Clear(chain[k])

\* PropertyStore::write, from insert_node, insert_edge and the updates.  The error of a write
\* for which no page has room is the one of a damaged page; here it has a name of its own.
Write(v) ==
    IF WriteFails(store, Bytes(v))
    THEN result' = "NoRoom" /\ UNCHANGED <<store, held>>
    ELSE LET done == WriteBytes(store, Bytes(v))
         IN  /\ Room(done.store)
             /\ ClearLinks => Small(v.size) \/ LinksClear(store, Bytes(v))
             /\ store' = done.store
             /\ held' = held \cup {[rid |-> done.rid, value |-> v]}
             /\ result' = "ok"

\* PropertyStore::free, from the updates and deletes: the caller drops the record.
Free(h) ==
    IF FreeFails(store, h.rid)
    THEN result' = "StorageCorrupted" /\ UNCHANGED <<store, held>>
    ELSE /\ store' = FreeBytes(store, h.rid)
         /\ held' = held \ {h}
         /\ result' = "ok"

NoPages == [pages |-> <<>>, hint |-> 0, free |-> None]

Init == store = NoPages /\ held = {} /\ result = "ok"

Next ==
    \/ \E v \in Values : Write(v)
    \/ \E h \in held : Free(h)

Spec == Init /\ [][Next]_vars

-----------------------------------------------------------------------------
(* Properties. *)

\* Every record a caller holds reads as the value that was written: no slot, chain
\* or free page overlaps another (read_property_bytes), no free reports corruption where
\* there is none, and a write that a page has no room for leaves all of them alone.
ReadsBack == result \in {"ok", "NoRoom"} /\ \A h \in held : ReadBytes(store, h.rid) = Bytes(h.value)

\* The pages of a record.
PagesOf(r) ==
    IF r[2] # Marker THEN {r[1]} ELSE {Chain(store, r[1])[k] : k \in DOMAIN Chain(store, r[1])}

\* The free list as a walk of pop_property_free_page would take it.
FreeList ==
    LET step[k \in Nat] ==
            IF k = 0 THEN <<>>
            ELSE LET before == step[k - 1]
                     next == IF before = <<>> THEN store.free
                             ELSE LinkOf(Page(store, before[Len(before)]), 2)
                 IN  IF next = None \/ Len(before) < k - 1 THEN before ELSE Append(before, next)
    IN  step[Count(store) + 1]

\* The free list holds each page that no record uses, once: no page is lost, none
\* is handed out twice (free_property_page, alloc_property_page).
FreeListExact ==
    LET list == FreeList
        listed == {list[k] : k \in DOMAIN list}
    IN  /\ Len(list) = Cardinality(listed)
        /\ listed = (0 .. Count(store) - 1) \ UNION {PagesOf(h.rid) : h \in held}

\* A page of a chain is "never written again" as a slotted page until it is freed
\* (write_property_bytes).
ChainsNotShared ==
    [][\A h \in held : h.rid[2] = Marker /\ h \in held' =>
        \A l \in PagesOf(h.rid) : Page(store', l) = Page(store, l)]_vars
==============================================================================
