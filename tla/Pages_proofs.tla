------------------------------ MODULE Pages_proofs ------------------------------
(***************************************************************************)
(* Page structures, for any number of pages.                               *)
(*                                                                         *)
(* The linked frames of the page cache are a sequence of pages by last     *)
(* use: PageCache implements LruCache, and no place of the vector is lost. *)
(*                                                                         *)
(* The chains of directory pages (PageDirectory) stay apart, whatever      *)
(* write of an allocation fails, and map the logical pages one to one.     *)
(*                                                                         *)
(* The buckets of the property index (PropertyBuckets) are chains of pages *)
(* too, which hold each entry once.                                        *)
(*                                                                         *)
(* Each page of the label index (LabelIndex) is in the chain of one type,  *)
(* behind the head the spares and then the pages with entries, and a call  *)
(* changes one node of the type.                                           *)
(***************************************************************************)
EXTENDS PageCache, PageDirectory, PropertyBuckets, LabelIndex, FiniteSetTheorems, SequenceTheorems, SetInduction

\* The data that can be in a frame, and the frames.
Data == {put[1] : put \in UNION {Puts[p] : p \in PageIds}}
Frames == [page : PageIds, data : Data, dirty : BOOLEAN, prev : Nat, next : Nat]
Contents == [page : PageIds, data : Data, dirty : BOOLEAN]

\* A list of frames; the sequence of places that its links go through.
Lists == [slab : Seq(Frames), ends : [lru : Nat, mru : Nat]]

Chained(list, s) ==
    /\ list \in Lists
    /\ s \in Seq(1 .. Len(list.slab))
    /\ \A i, j \in 1 .. Len(s) : s[i] = s[j] => i = j
    /\ list.ends.lru = IF s = <<>> THEN NIL ELSE s[1]
    /\ list.ends.mru = IF s = <<>> THEN NIL ELSE s[Len(s)]
    /\ \A i \in 1 .. Len(s) :
           /\ list.slab[s[i]].prev = IF i = 1 THEN NIL ELSE s[i - 1]
           /\ list.slab[s[i]].next = IF i = Len(s) THEN NIL ELSE s[i + 1]

\* What the frames hold in the order of the links.
Content(list, s) == [i \in 1 .. Len(s) |-> Held(list.slab[s[i]])]

\* The frames in use: the chain goes through the places of the pages and no others, and a place
\* without a page waits to be taken.
Sound(list, free, slots, s) ==
    /\ Chained(list, s)
    /\ DOMAIN slots \subseteq PageIds /\ IsFiniteSet(DOMAIN slots)
    /\ \A p \in DOMAIN slots : \E i \in 1 .. Len(s) : s[i] = slots[p] /\ list.slab[s[i]].page = p
    /\ \A i \in 1 .. Len(s) : /\ list.slab[s[i]].page \in DOMAIN slots
                              /\ slots[list.slab[s[i]].page] = s[i]
    /\ free \in Seq(1 .. Len(list.slab))
    /\ \A i, j \in 1 .. Len(free) : free[i] = free[j] => i = j
    /\ \A i \in 1 .. Len(s) : \A j \in 1 .. Len(free) : s[i] # free[j]
    /\ Cardinality(DOMAIN slots) = Len(s)
    /\ Len(free) + Len(s) = Len(list.slab)
    /\ Len(list.slab) <= Limit

\* A sequence without its element k.
Drop(s, k) == [i \in 1 .. Len(s) - 1 |-> IF i < k THEN s[i] ELSE s[i + 1]]

\* What unlink makes of a list.
Unlinked(list, slot, u) ==
    LET f == list.slab[slot]
    IN  /\ u \in Lists /\ Len(u.slab) = Len(list.slab)
        /\ \A x \in 1 .. Len(list.slab) : Held(u.slab[x]) = Held(list.slab[x])
        /\ u.ends.lru = IF f.prev = NIL THEN f.next ELSE list.ends.lru
        /\ u.ends.mru = IF f.next = NIL THEN f.prev ELSE list.ends.mru
        /\ \A x \in 1 .. Len(list.slab) :
              /\ u.slab[x].prev = IF x = slot THEN NIL
                                  ELSE IF x # f.prev /\ x = f.next THEN f.prev ELSE list.slab[x].prev
              /\ u.slab[x].next = IF x = slot THEN NIL
                                  ELSE IF x = f.prev THEN f.next ELSE list.slab[x].next

\* What push_mru makes of one.
Pushed(list, slot, u) ==
    /\ u \in Lists /\ Len(u.slab) = Len(list.slab)
    /\ \A x \in 1 .. Len(list.slab) : Held(u.slab[x]) = Held(list.slab[x])
    /\ u.ends.lru = (IF list.ends.mru = NIL THEN slot ELSE list.ends.lru) /\ u.ends.mru = slot
    /\ \A x \in 1 .. Len(list.slab) :
          /\ u.slab[x].prev = IF x = slot THEN list.ends.mru ELSE list.slab[x].prev
          /\ u.slab[x].next = IF x = slot THEN NIL
                              ELSE IF x = list.ends.mru THEN slot ELSE list.slab[x].next

\* The place that put takes, and the vector with the frame in it.
SlotFor(list, free) == IF free = <<>> THEN Len(list.slab) + 1 ELSE free[Len(free)]
SlabWith(list, free, f) ==
    IF free = <<>> THEN Append(list.slab, f) ELSE [list.slab EXCEPT ![SlotFor(list, free)] = f]

\* What comes of putting a frame there.
FrameIn(list, free, s, f, slot, b) ==
    /\ b \in Seq(Frames) /\ slot \in 1 .. Len(b) /\ b[slot] = f
    /\ Len(free) = 0 => Len(b) = Len(list.slab) + 1
    /\ Len(free) # 0 => Len(b) = Len(list.slab)
    /\ Len(list.slab) <= Len(b) /\ Len(b) <= Limit
    /\ \A x \in 1 .. Len(list.slab) : x # slot => b[x] = list.slab[x]
    /\ \A i \in 1 .. Len(s) : s[i] # slot

\* What put writes into a frame that is there.
Updated(list, slot, d, c) ==
    [list EXCEPT !.slab = [list.slab EXCEPT ![slot].data = d, ![slot].dirty = @ \/ c]]

\* Two vectors hold the same, whatever their links are.
HoldSame(a, b) == Len(a) = Len(b) /\ \A k \in 1 .. Len(a) : Held(a[k]) = Held(b[k])

-----------------------------------------------------------------------------
\* Sequences.

\* Dropping an element leaves a sequence of the others.
LEMMA DropIsSeq ==
  ASSUME NEW S, NEW s \in Seq(S), NEW k \in 1 .. Len(s)
  PROVE  /\ Drop(s, k) \in Seq(S) /\ Len(Drop(s, k)) = Len(s) - 1
         /\ \A i \in 1 .. Len(s) - 1 : Drop(s, k)[i] = IF i < k THEN s[i] ELSE s[i + 1]
  BY DEF Drop

\* It is the part before joined with the part behind.
LEMMA DropIsJoin ==
  ASSUME NEW S, NEW s \in Seq(S), NEW k \in 1 .. Len(s)
  PROVE  SubSeq(s, 1, k - 1) \o SubSeq(s, k + 1, Len(s)) = Drop(s, k)
<1>1. /\ SubSeq(s, 1, k - 1) \in Seq(S) /\ Len(SubSeq(s, 1, k - 1)) = k - 1
      /\ \A i \in 1 .. k - 1 : SubSeq(s, 1, k - 1)[i] = s[i]
  OBVIOUS
<1>2. /\ SubSeq(s, k + 1, Len(s)) \in Seq(S) /\ Len(SubSeq(s, k + 1, Len(s))) = Len(s) - k
      /\ \A i \in 1 .. Len(s) - k : SubSeq(s, k + 1, Len(s))[i] = s[k + i]
  OBVIOUS
<1> DEFINE a == SubSeq(s, 1, k - 1)
           b == SubSeq(s, k + 1, Len(s))
<1> HIDE DEF a, b
<1>3. /\ a \in Seq(S) /\ Len(a) = k - 1 /\ \A i \in 1 .. k - 1 : a[i] = s[i]
      /\ b \in Seq(S) /\ Len(b) = Len(s) - k /\ \A i \in 1 .. Len(s) - k : b[i] = s[k + i]
  BY <1>1, <1>2 DEF a, b
<1>4. /\ a \o b \in Seq(S) /\ Len(a \o b) = Len(s) - 1
      /\ \A i \in 1 .. Len(s) - 1 : (a \o b)[i] = IF i < k THEN s[i] ELSE s[i + 1]
  <2>1. /\ a \o b \in Seq(S) /\ Len(a \o b) = Len(s) - 1
        /\ \A i \in 1 .. Len(s) - 1 : (a \o b)[i] = IF i <= Len(a) THEN a[i] ELSE b[i - Len(a)]
    BY <1>3, ConcatProperties
  <2>2. ASSUME NEW i \in 1 .. Len(s) - 1, i < k PROVE a[i] = s[i] /\ i <= Len(a)
    BY <1>3, <2>2
  <2>3. ASSUME NEW i \in 1 .. Len(s) - 1, ~ (i < k) PROVE b[i - Len(a)] = s[i + 1] /\ ~ (i <= Len(a))
    <3>1. i - Len(a) \in 1 .. Len(s) - k /\ k + (i - Len(a)) = i + 1
      BY <1>3, <2>3
    <3> QED
      BY <1>3, <2>3, <3>1
  <2> QED
    BY <2>1, <2>2, <2>3
<1>5. a \o b = Drop(s, k)
  <2> DEFINE j == a \o b
             d == Drop(s, k)
  <2>1. j \in Seq(S) /\ Len(j) = Len(s) - 1 /\ \A i \in 1 .. Len(s) - 1 : j[i] = IF i < k THEN s[i] ELSE s[i + 1]
    BY <1>4
  <2>2. d \in Seq(S) /\ Len(d) = Len(s) - 1 /\ \A i \in 1 .. Len(s) - 1 : d[i] = IF i < k THEN s[i] ELSE s[i + 1]
    BY DropIsSeq
  <2> HIDE DEF j, d
  <2>3. Len(j) = Len(d) /\ \A i \in 1 .. Len(j) : j[i] = d[i]
    BY <2>1, <2>2
  <2>4. j = d
    BY <2>1, <2>2, <2>3, SeqEqual
  <2> QED
    BY <2>4 DEF j, d
<1> QED
  BY <1>5 DEF a, b

-----------------------------------------------------------------------------
\* Links.

\* Links and places have their types, and what is not in the list is not linked to.
LEMMA ChainTypes ==
  ASSUME NEW list, NEW s, Chained(list, s)
  PROVE  /\ list.slab \in Seq(Frames) /\ list.ends \in [lru : Nat, mru : Nat]
         /\ list = [slab |-> list.slab, ends |-> list.ends]
         /\ Len(list.slab) \in Nat /\ Len(s) \in Nat
         /\ \A x \in 1 .. Len(list.slab) : list.slab[x] \in Frames
         /\ \A i \in 1 .. Len(s) : s[i] \in 1 .. Len(list.slab) /\ s[i] # NIL
<1>1. list \in Lists /\ s \in Seq(1 .. Len(list.slab))
  BY DEF Chained
<1>2. list.slab \in Seq(Frames) /\ list.ends \in [lru : Nat, mru : Nat] /\ list = [slab |-> list.slab, ends |-> list.ends]
  BY <1>1 DEF Lists
<1> QED
  BY <1>1, <1>2 DEF NIL

\* unlink keeps the frames and takes one place out of the order.
LEMMA UnlinkFrames ==
  ASSUME NEW list \in Lists, NEW slot \in 1 .. Len(list.slab)
  PROVE  Unlinked(list, slot, Unlink(list, slot))
<1> DEFINE f == list.slab[slot]
           u == Unlink(list, slot)
<1>1. /\ list.slab \in Seq(Frames) /\ list.ends \in [lru : Nat, mru : Nat]
      /\ Len(list.slab) \in Nat /\ DOMAIN list.slab = 1 .. Len(list.slab)
  BY DEF Lists
<1>2. f \in Frames /\ f.prev \in Nat /\ f.next \in Nat
  <2>1. list.slab[slot] \in Frames
    BY <1>1
  <2> QED
    BY <2>1 DEF Frames
<1> DEFINE Linked(x) == IF x = slot THEN [list.slab[x] EXCEPT !.prev = NIL, !.next = NIL]
                        ELSE IF x = f.prev THEN [list.slab[x] EXCEPT !.next = f.next]
                        ELSE IF x = f.next THEN [list.slab[x] EXCEPT !.prev = f.prev] ELSE list.slab[x]
<1>3. ASSUME NEW x \in 1 .. Len(list.slab)
      PROVE  /\ Linked(x) \in Frames /\ Held(Linked(x)) = Held(list.slab[x])
             /\ Linked(x).prev = IF x = slot THEN NIL
                                 ELSE IF x # f.prev /\ x = f.next THEN f.prev ELSE list.slab[x].prev
             /\ Linked(x).next = IF x = slot THEN NIL
                                 ELSE IF x = f.prev THEN f.next ELSE list.slab[x].next
  <2>1. list.slab[x] \in Frames
    BY <1>1
  <2> QED
    BY <1>2, <2>1 DEF Frames, Held, NIL
<1>4. /\ u.slab = [x \in 1 .. Len(list.slab) |-> Linked(x)]
      /\ u.ends = [lru |-> IF f.prev = NIL THEN f.next ELSE list.ends.lru,
                   mru |-> IF f.next = NIL THEN f.prev ELSE list.ends.mru]
      /\ u = [slab |-> u.slab, ends |-> u.ends]
  BY <1>1 DEF Unlink
<1> HIDE DEF Linked, u, f
<1>5. u.slab \in Seq(Frames) /\ Len(u.slab) = Len(list.slab) /\ \A x \in 1 .. Len(list.slab) : u.slab[x] = Linked(x)
  BY <1>1, <1>3, <1>4
<1>6. u \in Lists
  <2>1. u.ends \in [lru : Nat, mru : Nat]
    BY <1>1, <1>2, <1>4 DEF NIL
  <2> QED
    BY <1>4, <1>5, <2>1 DEF Lists
<1> QED
  BY <1>1, <1>3, <1>4, <1>5, <1>6 DEF Unlinked, u, f

LEMMA UnlinkChained ==
  ASSUME NEW list, NEW s, Chained(list, s), NEW k \in 1 .. Len(s)
  PROVE  /\ Chained(Unlink(list, s[k]), Drop(s, k))
         /\ HoldSame(list.slab, Unlink(list, s[k]).slab)
<1> DEFINE u == Unlink(list, s[k])
           f == list.slab[s[k]]
           d == Drop(s, k)
           n == Len(s)
<1>0. list \in Lists /\ s \in Seq(1 .. Len(list.slab))
  BY DEF Chained
<1>1. /\ n \in Nat /\ k \in 1 .. n
      /\ \A i, j \in 1 .. n : s[i] = s[j] => i = j
      /\ \A i \in 1 .. n : s[i] \in 1 .. Len(list.slab) /\ s[i] # NIL
  <2>1. \A i, j \in 1 .. n : s[i] = s[j] => i = j
    BY DEF Chained
  <2> QED
    BY <2>1, ChainTypes
<1>2. /\ f.prev = IF k = 1 THEN NIL ELSE s[k - 1]
      /\ f.next = IF k = n THEN NIL ELSE s[k + 1]
  BY DEF Chained
<1>3. /\ u \in Lists /\ Len(u.slab) = Len(list.slab)
      /\ HoldSame(list.slab, u.slab)
      /\ u.ends.lru = IF f.prev = NIL THEN f.next ELSE list.ends.lru
      /\ u.ends.mru = IF f.next = NIL THEN f.prev ELSE list.ends.mru
      /\ \A x \in 1 .. Len(list.slab) :
           /\ u.slab[x].prev = IF x = s[k] THEN NIL
                               ELSE IF x # f.prev /\ x = f.next THEN f.prev ELSE list.slab[x].prev
           /\ u.slab[x].next = IF x = s[k] THEN NIL
                               ELSE IF x = f.prev THEN f.next ELSE list.slab[x].next
  <2>1. s[k] \in 1 .. Len(list.slab)
    BY <1>1
  <2>2. Unlinked(list, s[k], u)
    BY <1>0, <2>1, UnlinkFrames, Zenon
  <2> HIDE DEF u
  <2> QED
    BY <2>2 DEF Unlinked, HoldSame
<1>4. /\ Len(d) = n - 1
      /\ \A i \in 1 .. n - 1 : d[i] = IF i < k THEN s[i] ELSE s[i + 1]
  BY <1>0, DropIsSeq
<1>4a. d \in Seq(1 .. Len(list.slab))
  BY <1>0, DropIsSeq
<1>5. /\ list.ends.lru = s[1] /\ list.ends.mru = s[n]
      /\ \A i \in 1 .. n : /\ list.slab[s[i]].prev = IF i = 1 THEN NIL ELSE s[i - 1]
                           /\ list.slab[s[i]].next = IF i = n THEN NIL ELSE s[i + 1]
  BY <1>1 DEF Chained
<1> HIDE DEF u, f, d, n
<1>6. \A i, j \in 1 .. Len(d) : d[i] = d[j] => i = j
  BY <1>1, <1>4
<1>7. ASSUME NEW i \in 1 .. n - 1
      PROVE  /\ u.slab[d[i]].prev = IF i = 1 THEN NIL ELSE d[i - 1]
             /\ u.slab[d[i]].next = IF i = n - 1 THEN NIL ELSE d[i + 1]
  <2>1. CASE i < k
    <3>1. d[i] = s[i] /\ s[i] # s[k] /\ s[i] \in 1 .. Len(list.slab)
      BY <1>1, <1>4, <2>1
    <3>2. ~ (s[i] # f.prev /\ s[i] = f.next)
      BY <1>1, <1>2, <2>1
    <3>3. u.slab[d[i]].prev = list.slab[s[i]].prev
      BY <1>3, <3>1, <3>2
    <3>4. i # 1 => d[i - 1] = s[i - 1]
      BY <1>1, <1>4, <2>1
    <3>5. s[i] = f.prev <=> i = k - 1
      BY <1>1, <1>2, <2>1
    <3>6. u.slab[d[i]].next = IF i = k - 1 THEN f.next ELSE list.slab[s[i]].next
      BY <1>3, <3>1, <3>5
    <3>7. i # n - 1 => d[i + 1] = IF i = k - 1 THEN s[k + 1] ELSE s[i + 1]
      BY <1>1, <1>4, <2>1
    <3>8. /\ list.slab[s[i]].prev = IF i = 1 THEN NIL ELSE s[i - 1]
          /\ list.slab[s[i]].next = s[i + 1]
      <4>1. i \in 1 .. n /\ i # n
        BY <1>1, <2>1
      <4> QED
        BY <1>5, <4>1
    <3>9. i = k - 1 => f.next = IF i = n - 1 THEN NIL ELSE s[k + 1]
      BY <1>1, <1>2
    <3> QED
      BY <1>1, <2>1, <3>3, <3>4, <3>6, <3>7, <3>8, <3>9
  <2>2. CASE ~ (i < k)
    <3>1. d[i] = s[i + 1] /\ s[i + 1] # s[k] /\ s[i + 1] \in 1 .. Len(list.slab)
      BY <1>1, <1>4, <2>2
    <3>2. s[i + 1] = f.next <=> i = k
      BY <1>1, <1>2, <2>2
    <3>3. s[i + 1] # f.prev
      BY <1>1, <1>2, <2>2
    <3>4. u.slab[d[i]].prev = IF i = k THEN f.prev ELSE list.slab[s[i + 1]].prev
      BY <1>3, <3>1, <3>2, <3>3
    <3>5. u.slab[d[i]].next = list.slab[s[i + 1]].next
      BY <1>3, <3>1, <3>3
    <3>6. i # 1 => d[i - 1] = IF i = k THEN s[k - 1] ELSE s[i]
      BY <1>1, <1>4, <2>2
    <3>7. i # n - 1 => d[i + 1] = s[i + 2]
      BY <1>1, <1>4, <2>2
    <3>8. /\ list.slab[s[i + 1]].prev = s[i]
          /\ list.slab[s[i + 1]].next = IF i + 1 = n THEN NIL ELSE s[i + 2]
      <4>1. i + 1 \in 1 .. n /\ i + 1 # 1 /\ (i + 1) - 1 = i /\ (i + 1) + 1 = i + 2
        BY <1>1
      <4> QED
        BY <1>5, <4>1
    <3> QED
      BY <1>1, <1>2, <2>2, <3>4, <3>5, <3>6, <3>7, <3>8
  <2> QED
    BY <2>1, <2>2
<1>8. u.ends.lru = IF d = <<>> THEN NIL ELSE d[1]
  BY <1>1, <1>2, <1>3, <1>4, <1>5
<1>9. u.ends.mru = IF d = <<>> THEN NIL ELSE d[Len(d)]
  BY <1>1, <1>2, <1>3, <1>4, <1>5
<1>10. Chained(u, d)
  BY <1>3, <1>4, <1>4a, <1>6, <1>7, <1>8, <1>9 DEF Chained
<1> QED
  BY <1>3, <1>10 DEF u, d

\* push_mru puts a place that is not in the order behind all others.
LEMMA PushFrames ==
  ASSUME NEW list \in Lists, NEW slot \in 1 .. Len(list.slab),
         list.ends.mru # NIL => list.ends.mru \in 1 .. Len(list.slab) /\ list.ends.mru # slot
  PROVE  Pushed(list, slot, PushMru(list, slot))
<1> DEFINE tail == list.ends.mru
           u == PushMru(list, slot)
<1>1. /\ list.slab \in Seq(Frames) /\ list.ends \in [lru : Nat, mru : Nat]
      /\ Len(list.slab) \in Nat /\ DOMAIN list.slab = 1 .. Len(list.slab)
  BY DEF Lists
<1> DEFINE Linked(x) == IF x = slot THEN [list.slab[x] EXCEPT !.prev = tail, !.next = NIL]
                        ELSE IF x = tail THEN [list.slab[x] EXCEPT !.next = slot] ELSE list.slab[x]
<1>2. ASSUME NEW x \in 1 .. Len(list.slab)
      PROVE  /\ Linked(x) \in Frames /\ Held(Linked(x)) = Held(list.slab[x])
             /\ Linked(x).prev = IF x = slot THEN tail ELSE list.slab[x].prev
             /\ Linked(x).next = IF x = slot THEN NIL ELSE IF x = tail THEN slot ELSE list.slab[x].next
  <2>1. list.slab[x] \in Frames /\ tail \in Nat /\ slot \in Nat
    BY <1>1
  <2> QED
    BY <2>1 DEF Frames, Held, NIL
<1>3. u.slab = [x \in 1 .. Len(list.slab) |-> Linked(x)]
  <2>1. list.slab = [x \in 1 .. Len(list.slab) |-> list.slab[x]]
    BY <1>1
  <2>2. tail # NIL => tail \in 1 .. Len(list.slab) /\ tail # slot
    OBVIOUS
  <2>3. tail = NIL => \A x \in 1 .. Len(list.slab) : x # tail
    BY DEF NIL
  <2>4. CASE tail = NIL
    BY <1>1, <2>1, <2>3, <2>4 DEF PushMru
  <2>5. CASE tail # NIL
    BY <1>1, <2>1, <2>2, <2>5 DEF PushMru
  <2> QED
    BY <2>4, <2>5
<1>4. /\ u.ends = [lru |-> IF tail = NIL THEN slot ELSE list.ends.lru, mru |-> slot]
      /\ u = [slab |-> u.slab, ends |-> u.ends]
  BY DEF PushMru
<1> HIDE DEF Linked, u, tail
<1>5. u.slab \in Seq(Frames) /\ Len(u.slab) = Len(list.slab) /\ \A x \in 1 .. Len(list.slab) : u.slab[x] = Linked(x)
  BY <1>1, <1>2, <1>3
<1>6. u \in Lists
  <2>1. u.ends \in [lru : Nat, mru : Nat]
    BY <1>1, <1>4
  <2> QED
    BY <1>4, <1>5, <2>1 DEF Lists
<1> QED
  BY <1>1, <1>2, <1>4, <1>5, <1>6 DEF Pushed, u, tail

LEMMA PushChained ==
  ASSUME NEW list, NEW s, Chained(list, s), NEW slot \in 1 .. Len(list.slab),
         \A i \in 1 .. Len(s) : s[i] # slot
  PROVE  /\ Chained(PushMru(list, slot), Append(s, slot))
         /\ HoldSame(list.slab, PushMru(list, slot).slab)
<1> DEFINE u == PushMru(list, slot)
           d == Append(s, slot)
           n == Len(s)
<1>1. list \in Lists /\ s \in Seq(1 .. Len(list.slab))
  BY DEF Chained
<1>2. /\ n \in Nat
      /\ \A i, j \in 1 .. n : s[i] = s[j] => i = j
      /\ \A i \in 1 .. n : s[i] \in 1 .. Len(list.slab) /\ s[i] # NIL
  <2>1. \A i, j \in 1 .. n : s[i] = s[j] => i = j
    BY DEF Chained
  <2> QED
    BY <2>1, ChainTypes
<1>3. list.ends.mru = (IF n = 0 THEN NIL ELSE s[n]) /\ list.ends.lru = IF n = 0 THEN NIL ELSE s[1]
  BY <1>1 DEF Chained
<1>4. list.ends.mru = NIL <=> n = 0
  BY <1>2, <1>3
<1>5. list.ends.mru # NIL => list.ends.mru \in 1 .. Len(list.slab) /\ list.ends.mru # slot
  BY <1>2, <1>3, <1>4
<1>6. /\ u \in Lists /\ Len(u.slab) = Len(list.slab)
      /\ HoldSame(list.slab, u.slab)
      /\ u.ends.lru = (IF n = 0 THEN slot ELSE s[1]) /\ u.ends.mru = slot
      /\ \A x \in 1 .. Len(list.slab) :
           /\ u.slab[x].prev = IF x = slot THEN list.ends.mru ELSE list.slab[x].prev
           /\ u.slab[x].next = IF x = slot THEN NIL ELSE IF x = list.ends.mru THEN slot ELSE list.slab[x].next
  <2>1. Pushed(list, slot, u)
    BY <1>1, <1>5, PushFrames, Zenon
  <2> HIDE DEF u
  <2> QED
    BY <1>3, <1>4, <2>1 DEF Pushed, HoldSame
<1>7. Len(d) = n + 1 /\ \A i \in 1 .. n + 1 : d[i] = IF i <= n THEN s[i] ELSE slot
  BY <1>1
<1>8. d \in Seq(1 .. Len(list.slab))
  BY <1>1
<1>9. \A i \in 1 .. n : /\ list.slab[s[i]].prev = IF i = 1 THEN NIL ELSE s[i - 1]
                        /\ list.slab[s[i]].next = IF i = n THEN NIL ELSE s[i + 1]
  BY DEF Chained
<1>10. \A i \in 1 .. n : s[i] # slot
  OBVIOUS
<1> HIDE DEF u, d, n
<1>11. \A i, j \in 1 .. Len(d) : d[i] = d[j] => i = j
  BY <1>2, <1>7, <1>10
<1>12. ASSUME NEW i \in 1 .. n + 1
       PROVE  /\ u.slab[d[i]].prev = IF i = 1 THEN NIL ELSE d[i - 1]
              /\ u.slab[d[i]].next = IF i = n + 1 THEN NIL ELSE d[i + 1]
  <2>1. CASE i = n + 1
    <3>1. d[i] = slot /\ (i # 1 => d[i - 1] = s[n] /\ n # 0)
      BY <1>2, <1>7, <2>1
    <3>2. u.slab[slot].prev = list.ends.mru /\ u.slab[slot].next = NIL
      BY <1>6
    <3> QED
      BY <1>2, <1>3, <2>1, <3>1, <3>2
  <2>2. CASE i # n + 1
    <3>1. /\ i \in 1 .. n /\ d[i] = s[i] /\ s[i] # slot /\ s[i] \in 1 .. Len(list.slab)
          /\ i # 1 => d[i - 1] = s[i - 1]
          /\ d[i + 1] = IF i = n THEN slot ELSE s[i + 1]
      BY <1>2, <1>7, <1>10, <2>2
    <3>2. s[i] = list.ends.mru <=> i = n
      BY <1>2, <1>3, <3>1
    <3>3. /\ u.slab[s[i]].prev = list.slab[s[i]].prev
          /\ u.slab[s[i]].next = IF i = n THEN slot ELSE list.slab[s[i]].next
      BY <1>6, <3>1, <3>2
    <3> QED
      BY <1>9, <2>2, <3>1, <3>3
  <2> QED
    BY <2>1, <2>2
<1>13. u.ends.lru = d[1] /\ u.ends.mru = d[Len(d)] /\ d # <<>>
  BY <1>2, <1>6, <1>7
<1>14. Chained(u, d)
  BY <1>6, <1>7, <1>8, <1>11, <1>12, <1>13 DEF Chained
<1> QED
  BY <1>6, <1>14 DEF u, d

\* touch moves a place to the end of the order.
LEMMA TouchChained ==
  ASSUME NEW list, NEW s, Chained(list, s), NEW k \in 1 .. Len(s)
  PROVE  /\ Chained(Touch(list, s[k]), Append(Drop(s, k), s[k]))
         /\ HoldSame(list.slab, Touch(list, s[k]).slab)
<1> DEFINE d == Drop(s, k)
           u == Unlink(list, s[k])
           n == Len(s)
<1>1. list \in Lists /\ s \in Seq(1 .. Len(list.slab)) /\ n \in Nat /\ list.slab \in Seq(Frames)
  BY DEF Chained, Lists
<1>2. d \in Seq(1 .. Len(list.slab)) /\ Len(d) = n - 1 /\ \A i \in 1 .. n - 1 : d[i] = IF i < k THEN s[i] ELSE s[i + 1]
  BY <1>1, DropIsSeq
<1>3. s[k] \in 1 .. Len(list.slab) /\ \A i, j \in 1 .. n : s[i] = s[j] => i = j
  <2>1. \A i, j \in 1 .. n : s[i] = s[j] => i = j
    BY DEF Chained
  <2> QED
    BY <2>1, ChainTypes
<1>4. list.ends.mru = s[n]
  BY <1>1 DEF Chained
<1>5. CASE k = n
  <2>1. Append(d, s[k]) = s
    <3> DEFINE a == Append(d, s[k])
    <3>1. a \in Seq(1 .. Len(list.slab)) /\ Len(a) = n
      BY <1>1, <1>2, <1>3
    <3>2. \A i \in 1 .. n : a[i] = IF i < n THEN d[i] ELSE s[k]
      BY <1>1, <1>2, <1>3
    <3> HIDE DEF a, d
    <3>3. \A i \in 1 .. n : a[i] = s[i]
      <4>1. n \in Nat
        BY <1>1
      <4> QED
        BY <1>2, <1>5, <3>2, <4>1
    <3>4. a = s
      BY <1>1, <3>1, <3>3, SeqEqual
    <3> QED
      BY <3>4 DEF a
  <2>2. Touch(list, s[k]) = list
    BY <1>4, <1>5 DEF Touch
  <2> QED
    BY <2>1, <2>2 DEF HoldSame
<1>6. CASE k # n
  <2>1. list.ends.mru # s[k]
    BY <1>1, <1>3, <1>4, <1>6
  <2>2. Touch(list, s[k]) = PushMru(u, s[k])
    BY <2>1 DEF Touch
  <2>3. Chained(u, d) /\ HoldSame(list.slab, u.slab)
    BY UnlinkChained
  <2>4. s[k] \in 1 .. Len(u.slab)
    BY <1>3, <2>3 DEF HoldSame
  <2> HIDE DEF u, d
  <2>5. \A i \in 1 .. Len(d) : d[i] # s[k]
    BY <1>2, <1>3
  <2>6. Chained(PushMru(u, s[k]), Append(d, s[k])) /\ HoldSame(u.slab, PushMru(u, s[k]).slab)
    BY <2>3, <2>4, <2>5, PushChained
  <2>7. HoldSame(list.slab, PushMru(u, s[k]).slab)
    BY <1>1, <2>3, <2>6 DEF HoldSame
  <2> QED
    BY <2>2, <2>6, <2>7 DEF u, d
<1> QED
  BY <1>5, <1>6

-----------------------------------------------------------------------------
\* The walk.

\* A vector that has the frames of a list with their links has its order.
LEMMA SameLinks ==
  ASSUME NEW list, NEW s, Chained(list, s), NEW b \in Seq(Frames), Len(list.slab) <= Len(b),
         \A i \in 1 .. Len(s) : b[s[i]].prev = list.slab[s[i]].prev /\ b[s[i]].next = list.slab[s[i]].next
  PROVE  Chained([list EXCEPT !.slab = b], s)
<1> DEFINE l == [list EXCEPT !.slab = b]
<1>1. list \in Lists /\ s \in Seq(1 .. Len(list.slab)) /\ Len(list.slab) \in Nat /\ Len(b) \in Nat
  BY ChainTypes DEF Chained
<1>2. l \in Lists /\ l.slab = b /\ l.ends = list.ends
  BY <1>1 DEF Lists
<1>3. s \in Seq(1 .. Len(b))
  <2>1. 1 .. Len(list.slab) \subseteq 1 .. Len(b)
    BY <1>1
  <2> QED
    BY <1>1, <2>1, SeqMonotonic
<1> HIDE DEF l
<1>4. /\ \A i, j \in 1 .. Len(s) : s[i] = s[j] => i = j
      /\ list.ends.lru = IF s = <<>> THEN NIL ELSE s[1]
      /\ list.ends.mru = IF s = <<>> THEN NIL ELSE s[Len(s)]
      /\ \A i \in 1 .. Len(s) :
             /\ list.slab[s[i]].prev = IF i = 1 THEN NIL ELSE s[i - 1]
             /\ list.slab[s[i]].next = IF i = Len(s) THEN NIL ELSE s[i + 1]
  BY DEF Chained
<1>5. \A i \in 1 .. Len(s) :
             /\ b[s[i]].prev = IF i = 1 THEN NIL ELSE s[i - 1]
             /\ b[s[i]].next = IF i = Len(s) THEN NIL ELSE s[i + 1]
  BY <1>4
<1>6. Chained(l, s)
  BY <1>2, <1>3, <1>4, <1>5, Zenon DEF Chained
<1> QED
  BY <1>6 DEF l

\* The walk along the links goes through the order: after k steps it has taken the first k frames.
LEMMA WalkTakes ==
  ASSUME NEW list, NEW s, Chained(list, s), Len(s) <= Len(list.slab)
  PROVE  Walk(list)[Len(list.slab)].seq = Content(list, s)
<1> DEFINE m == Len(list.slab)
           n == Len(s)
           Taken(k) == [i \in 1 .. (IF k < n THEN k ELSE n) |-> Held(list.slab[s[i]])]
           g == [k \in 0 .. m |-> [seq |-> Taken(k), at |-> IF k < n THEN s[k + 1] ELSE NIL]]
           Next(w, k) == IF k = 0 THEN [seq |-> <<>>, at |-> list.ends.lru]
                         ELSE IF w[k - 1].at = NIL THEN w[k - 1]
                         ELSE [seq |-> Append(w[k - 1].seq, Held(list.slab[w[k - 1].at])),
                               at  |-> list.slab[w[k - 1].at].next]
           Walks(w) == w = [k \in 0 .. m |-> Next(w, k)]
<1>1. m \in Nat /\ n \in Nat /\ n <= m /\ \A i \in 1 .. n : s[i] # NIL
  BY ChainTypes
<1>2. list.ends.lru = IF n = 0 THEN NIL ELSE s[1]
  BY <1>1 DEF Chained
<1>3. \A i \in 1 .. n : list.slab[s[i]].next = IF i = n THEN NIL ELSE s[i + 1]
  BY DEF Chained
<1>4. \A k \in 0 .. m : g[k] = [seq |-> Taken(k), at |-> IF k < n THEN s[k + 1] ELSE NIL]
  OBVIOUS
<1> HIDE DEF m, n, g
<1>5. ASSUME NEW k \in 0 .. m PROVE g[k] = Next(g, k)
  <2>1. CASE k = 0
    <3>1. Taken(0) = <<>> /\ (0 < n <=> n # 0)
      BY <1>1
    <3> HIDE DEF Taken
    <3> QED
      BY <1>2, <1>4, <2>1, <3>1
  <2>2. CASE k # 0
    <3>1. k - 1 \in 0 .. m /\ (k - 1) + 1 = k
      BY <1>1, <2>2
    <3>2. g[k - 1] = [seq |-> Taken(k - 1), at |-> IF k - 1 < n THEN s[k] ELSE NIL]
      BY <1>4, <3>1
    <3>3. CASE n < k
      <4>1. ~ (k - 1 < n) /\ ~ (k < n) /\ Taken(k) = Taken(k - 1)
        BY <1>1, <2>2, <3>3
      <4> HIDE DEF Taken
      <4> QED
        BY <1>4, <2>2, <3>2, <4>1
    <3>4. CASE ~ (n < k)
      <4>1. k \in 1 .. n /\ k - 1 < n
        BY <1>1, <2>2, <3>4
      <4>2. g[k - 1].at = s[k] /\ g[k - 1].at # NIL /\ g[k - 1].seq = Taken(k - 1)
        BY <1>1, <3>2, <4>1
      <4>3. list.slab[s[k]].next = IF k < n THEN s[k + 1] ELSE NIL
        BY <1>1, <1>3, <4>1
      <4>4. Append(Taken(k - 1), Held(list.slab[s[k]])) = Taken(k)
        <5>1. Taken(k - 1) = [i \in 1 .. k - 1 |-> Held(list.slab[s[i]])]
          BY <1>1, <4>1
        <5>2. Taken(k) = [i \in 1 .. k |-> Held(list.slab[s[i]])]
          BY <1>1, <4>1
        <5> HIDE DEF Taken
        <5> QED
          BY <4>1, <5>1, <5>2
      <4> HIDE DEF Taken
      <4> QED
        BY <1>4, <2>2, <4>2, <4>3, <4>4
    <3> QED
      BY <1>1, <3>3, <3>4
  <2> QED
    BY <2>1, <2>2
<1>6. Walks(g)
  <2>1. g = [k \in 0 .. m |-> g[k]]
    BY DEF g
  <2> HIDE DEF Next
  <2> QED
    BY <1>5, <2>1, Zenon
<1>7. Walk(list) = CHOOSE w : Walks(w)
  BY Zenon DEF Walk, m
<1> HIDE DEF Walks
<1>8. Walks(Walk(list))
  BY <1>6, <1>7, Zenon
<1> DEFINE S == {k \in Nat : k \in 0 .. m => Walk(list)[k] = g[k]}
<1>9. \A k \in 0 .. m : Walk(list)[k] = Next(Walk(list), k)
  <2> HIDE DEF Next
  <2> QED
    BY <1>8 DEF Walks
<1>10. 0 \in S
  <2>1. 0 \in 0 .. m
    BY <1>1
  <2>2. Walk(list)[0] = Next(Walk(list), 0) /\ g[0] = Next(g, 0)
    BY <1>5, <1>9, <2>1
  <2> QED
    BY <2>2
<1>11. ASSUME NEW k \in Nat, k \in S PROVE k + 1 \in S
  <2> SUFFICES ASSUME k + 1 \in 0 .. m PROVE Walk(list)[k + 1] = g[k + 1]
    OBVIOUS
  <2>1. k \in 0 .. m /\ (k + 1) - 1 = k /\ k + 1 # 0
    BY <1>1
  <2>2. Walk(list)[k] = g[k]
    BY <1>11, <2>1
  <2>3. Walk(list)[k + 1] = Next(Walk(list), k + 1) /\ g[k + 1] = Next(g, k + 1)
    BY <1>5, <1>9
  <2> QED
    BY <2>1, <2>2, <2>3
<1> HIDE DEF S
<1>12. Nat \subseteq S
  BY <1>10, <1>11, SetInduction
<1>13. Walk(list)[m] = g[m]
  BY <1>1, <1>12 DEF S
<1>14. Taken(m) = Content(list, s)
  <2>1. (IF m < n THEN m ELSE n) = n
    BY <1>1
  <2>2. Taken(m) = [i \in 1 .. n |-> Held(list.slab[s[i]])]
    BY <2>1
  <2>3. Content(list, s) = [i \in 1 .. n |-> Held(list.slab[s[i]])]
    BY DEF Content, n
  <2> HIDE DEF Taken
  <2> QED
    BY <2>2, <2>3, Zenon
<1>15. g[m].seq = Taken(m)
  <2>1. m \in 0 .. m
    BY <1>1
  <2> HIDE DEF Taken
  <2>2. g[m] = [seq |-> Taken(m), at |-> IF m < n THEN s[m + 1] ELSE NIL]
    BY <1>4, <2>1, Zenon
  <2> QED
    BY <2>2
<1> QED
  BY <1>13, <1>14, <1>15 DEF m

-----------------------------------------------------------------------------
\* The calls.

\* The pages in order are a sequence of what frames hold.
LEMMA ContentIsSeq ==
  ASSUME NEW list, NEW s, Chained(list, s)
  PROVE  /\ Content(list, s) \in Seq(Contents) /\ Len(Content(list, s)) = Len(s)
         /\ \A i \in 1 .. Len(s) : Content(list, s)[i] = Held(list.slab[s[i]])
<1>1. Len(s) \in Nat /\ \A i \in 1 .. Len(s) : list.slab[s[i]] \in Frames
  BY ChainTypes
<1>2. \A f \in Frames : Held(f) \in Contents
  BY DEF Frames, Held, Contents
<1>3. \A i \in 1 .. Len(s) : Held(list.slab[s[i]]) \in Contents
  BY <1>1, <1>2
<1> QED
  BY <1>1, <1>3 DEF Content

\* A frame that leaves the order leaves the others in theirs.
LEMMA ContentDrops ==
  ASSUME NEW a, NEW s, Chained(a, s), NEW k \in 1 .. Len(s), NEW b,
         \A i \in 1 .. Len(s) : i # k => Held(b.slab[s[i]]) = Held(a.slab[s[i]])
  PROVE  Content(b, Drop(s, k)) = Drop(Content(a, s), k)
<1>1. s \in Seq(1 .. Len(a.slab)) /\ Len(s) \in Nat
  BY ChainTypes DEF Chained
<1>2. Len(Drop(s, k)) = Len(s) - 1 /\ \A i \in 1 .. Len(s) - 1 : Drop(s, k)[i] = IF i < k THEN s[i] ELSE s[i + 1]
  BY <1>1, DropIsSeq
<1>3. /\ Len(Content(a, s)) = Len(s) /\ \A i \in 1 .. Len(s) : Content(a, s)[i] = Held(a.slab[s[i]])
  BY ContentIsSeq
<1>4. ASSUME NEW i \in 1 .. Len(s) - 1
      PROVE  Held(b.slab[Drop(s, k)[i]]) = IF i < k THEN Content(a, s)[i] ELSE Content(a, s)[i + 1]
  <2>0. Len(s) \in Nat
    BY <1>1
  <2>1. CASE i < k
    <3>1. i \in 1 .. Len(s) /\ i # k
      BY <2>0, <2>1
    <3> QED
      BY <1>2, <1>3, <2>1, <3>1
  <2>2. CASE ~ (i < k)
    <3>1. i + 1 \in 1 .. Len(s) /\ i + 1 # k
      BY <2>0, <2>2
    <3> QED
      BY <1>2, <1>3, <2>2, <3>1
  <2> QED
    BY <2>1, <2>2
<1>5. /\ Content(b, Drop(s, k)) = [i \in 1 .. Len(s) - 1 |-> Held(b.slab[Drop(s, k)[i]])]
      /\ Drop(Content(a, s), k) = [i \in 1 .. Len(s) - 1 |-> IF i < k THEN Content(a, s)[i] ELSE Content(a, s)[i + 1]]
  <2>1. Content(b, Drop(s, k)) = [i \in 1 .. Len(Drop(s, k)) |-> Held(b.slab[Drop(s, k)[i]])]
    BY Zenon DEF Content
  <2>2. Drop(Content(a, s), k)
          = [i \in 1 .. Len(Content(a, s)) - 1 |-> IF i < k THEN Content(a, s)[i] ELSE Content(a, s)[i + 1]]
    BY Zenon DEF Drop
  <2> QED
    BY <1>2, <1>3, <2>1, <2>2
<1> QED
  BY <1>4, <1>5

\* A frame that comes to the end comes behind the others.
LEMMA ContentPushes ==
  ASSUME NEW a, NEW s, Chained(a, s), NEW b, NEW x,
         \A i \in 1 .. Len(s) : Held(b.slab[s[i]]) = Held(a.slab[s[i]])
  PROVE  Content(b, Append(s, x)) = Append(Content(a, s), Held(b.slab[x]))
<1>1. s \in Seq(1 .. Len(a.slab)) /\ Len(s) \in Nat
  BY ChainTypes DEF Chained
<1> DEFINE t == Append(s, x)
           c == Content(a, s)
           n == Len(s)
<1>2. Len(t) = n + 1 /\ \A i \in 1 .. n + 1 : t[i] = IF i <= n THEN s[i] ELSE x
  <2>1. s \in [1 .. n -> 1 .. Len(a.slab)]
    BY <1>1
  <2> QED
    BY <1>1, <2>1
<1>3. c \in Seq(Contents) /\ Len(c) = n /\ \A i \in 1 .. n : c[i] = Held(a.slab[s[i]])
  BY ContentIsSeq
<1>4. n \in Nat
  BY <1>1
<1> HIDE DEF t, c, n
<1>5. Append(c, Held(b.slab[x])) = [i \in 1 .. n + 1 |-> IF i <= n THEN c[i] ELSE Held(b.slab[x])]
  BY <1>3, <1>4
<1>6. Content(b, t) = [i \in 1 .. n + 1 |-> Held(b.slab[t[i]])]
  BY <1>2 DEF Content
<1>7. ASSUME NEW i \in 1 .. n + 1 PROVE Held(b.slab[t[i]]) = IF i <= n THEN c[i] ELSE Held(b.slab[x])
  BY <1>2, <1>3, <1>4 DEF n
<1>8. Content(b, t) = Append(c, Held(b.slab[x]))
  BY <1>5, <1>6, <1>7
<1> QED
  BY <1>8 DEF t, c

\* The frames of the order are of the pages, and a page has one.
LEMMA SoundPlaces ==
  ASSUME NEW list, NEW free, NEW slots, NEW s, Sound(list, free, slots, s)
  PROVE  /\ Chained(list, s) /\ Len(s) \in Nat /\ Len(free) \in Nat /\ Len(list.slab) \in Nat
         /\ \A i \in 1 .. Len(s) : s[i] \in 1 .. Len(list.slab)
         /\ \A p \in DOMAIN slots : \E k \in 1 .. Len(s) :
                /\ s[k] = slots[p] /\ list.slab[s[k]].page = p
                /\ \A i \in 1 .. Len(s) : list.slab[s[i]].page = p => i = k
<1>1. Chained(list, s)
  BY DEF Sound
<1>2. \A i \in 1 .. Len(s) : s[i] \in 1 .. Len(list.slab)
  BY <1>1, ChainTypes
<1>3. Len(s) \in Nat /\ Len(list.slab) \in Nat
  BY <1>1, ChainTypes
<1>4. Len(free) \in Nat
  BY DEF Sound
<1>5. \A i, j \in 1 .. Len(s) : s[i] = s[j] => i = j
  BY <1>1 DEF Chained
<1>6. ASSUME NEW p \in DOMAIN slots
      PROVE  \E k \in 1 .. Len(s) :
                /\ s[k] = slots[p] /\ list.slab[s[k]].page = p
                /\ \A i \in 1 .. Len(s) : list.slab[s[i]].page = p => i = k
  <2>1. PICK k \in 1 .. Len(s) : s[k] = slots[p] /\ list.slab[s[k]].page = p
    BY DEF Sound
  <2>2. \A i \in 1 .. Len(s) : list.slab[s[i]].page = p => s[i] = slots[p]
    BY DEF Sound
  <2>3. \A i \in 1 .. Len(s) : list.slab[s[i]].page = p => i = k
    BY <1>5, <2>1, <2>2
  <2> QED
    BY <2>1, <2>3
<1> QED
  BY <1>1, <1>2, <1>3, <1>4, <1>6

\* Vectors that hold the same have the same pages.
LEMMA SamePages ==
  ASSUME NEW a, NEW b, HoldSame(a, b)
  PROVE  Len(a) = Len(b) /\ \A x \in 1 .. Len(a) : a[x].page = b[x].page
<1>1. ASSUME NEW x \in 1 .. Len(a) PROVE a[x].page = b[x].page
  <2>1. Held(a[x]) = Held(b[x])
    BY DEF HoldSame
  <2>2. Held(a[x]).page = a[x].page /\ Held(b[x]).page = b[x].page
    BY DEF Held
  <2> QED
    BY <2>1, <2>2
<1> QED
  BY <1>1 DEF HoldSame

\* Another order of the same frames.
LEMMA SoundReordered ==
  ASSUME NEW list, NEW free, NEW slots, NEW s, Sound(list, free, slots, s),
         NEW m, NEW t, Chained(m, t), HoldSame(list.slab, m.slab), Len(t) = Len(s),
         \A i \in 1 .. Len(t) : \E j \in 1 .. Len(s) : t[i] = s[j],
         \A i \in 1 .. Len(s) : \E j \in 1 .. Len(t) : s[i] = t[j]
  PROVE  Sound(m, free, slots, t)
<1>1. /\ Len(m.slab) = Len(list.slab)
      /\ \A i \in 1 .. Len(s) : m.slab[s[i]].page = list.slab[s[i]].page
  <2>1. Len(list.slab) = Len(m.slab) /\ \A x \in 1 .. Len(list.slab) : list.slab[x].page = m.slab[x].page
    BY SamePages
  <2>2. \A i \in 1 .. Len(s) : s[i] \in 1 .. Len(list.slab)
    BY SoundPlaces
  <2> QED
    BY <2>1, <2>2
<1>2. \A p \in DOMAIN slots : \E i \in 1 .. Len(t) : t[i] = slots[p] /\ m.slab[t[i]].page = p
  <2> SUFFICES ASSUME NEW p \in DOMAIN slots
               PROVE  \E i \in 1 .. Len(t) : t[i] = slots[p] /\ m.slab[t[i]].page = p
    OBVIOUS
  <2>1. PICK k \in 1 .. Len(s) : s[k] = slots[p] /\ list.slab[s[k]].page = p
    BY DEF Sound
  <2>2. PICK i \in 1 .. Len(t) : t[i] = s[k]
    OBVIOUS
  <2> QED
    BY <1>1, <2>1, <2>2
<1>3. \A i \in 1 .. Len(t) : m.slab[t[i]].page \in DOMAIN slots /\ slots[m.slab[t[i]].page] = t[i]
  <2> SUFFICES ASSUME NEW i \in 1 .. Len(t)
               PROVE  m.slab[t[i]].page \in DOMAIN slots /\ slots[m.slab[t[i]].page] = t[i]
    OBVIOUS
  <2>1. PICK j \in 1 .. Len(s) : t[i] = s[j]
    OBVIOUS
  <2>2. list.slab[s[j]].page \in DOMAIN slots /\ slots[list.slab[s[j]].page] = s[j]
    BY DEF Sound
  <2> QED
    BY <1>1, <2>1, <2>2
<1>4. \A i \in 1 .. Len(t) : \A j \in 1 .. Len(free) : t[i] # free[j]
  <2> SUFFICES ASSUME NEW i \in 1 .. Len(t), NEW j \in 1 .. Len(free) PROVE t[i] # free[j]
    OBVIOUS
  <2>1. \A h \in 1 .. Len(s) : s[h] # free[j]
    BY Zenon DEF Sound
  <2>2. PICK h \in 1 .. Len(s) : t[i] = s[h]
    OBVIOUS
  <2> QED
    BY <2>1, <2>2
<1> QED
  BY <1>1, <1>2, <1>3, <1>4, Zenon DEF Sound

\* touch: the frame comes to the end.
LEMMA TouchSound ==
  ASSUME NEW list, NEW free, NEW slots, NEW s, Sound(list, free, slots, s), NEW k \in 1 .. Len(s)
  PROVE  LET t == Append(Drop(s, k), s[k])
         IN  /\ Sound(Touch(list, s[k]), free, slots, t)
             /\ Content(Touch(list, s[k]), t) = Append(Drop(Content(list, s), k), Held(list.slab[s[k]]))
<1> DEFINE d == Drop(s, k)
           t == Append(d, s[k])
           m == Touch(list, s[k])
           n == Len(s)
<1>1. Chained(list, s) /\ n \in Nat /\ s[k] \in 1 .. Len(list.slab)
  BY SoundPlaces
<1>2. Chained(m, t) /\ HoldSame(list.slab, m.slab)
  BY <1>1, TouchChained
<1>3. d \in Seq(1 .. Len(list.slab)) /\ Len(d) = n - 1 /\ \A i \in 1 .. n - 1 : d[i] = IF i < k THEN s[i] ELSE s[i + 1]
  <2>1. s \in Seq(1 .. Len(list.slab))
    BY <1>1 DEF Chained
  <2> QED
    BY <2>1, DropIsSeq
<1>4. Len(t) = n /\ \A i \in 1 .. n : t[i] = IF i < n THEN d[i] ELSE s[k]
  <2> HIDE DEF d
  <2> QED
    BY <1>1, <1>3
<1> HIDE DEF t, m
<1>5. \A i \in 1 .. n : \E j \in 1 .. n : t[i] = s[j]
  <2>1. \A i \in 1 .. n : i < n => (IF i < k THEN i ELSE i + 1) \in 1 .. n /\ i \in 1 .. n - 1
    BY <1>1
  <2>2. \A i \in 1 .. n - 1 : d[i] = s[IF i < k THEN i ELSE i + 1]
    BY <1>3
  <2> HIDE DEF d
  <2> QED
    BY <1>4, <2>1, <2>2
<1>6. \A i \in 1 .. n : \E j \in 1 .. n : s[i] = t[j]
  <2> SUFFICES ASSUME NEW i \in 1 .. n PROVE \E j \in 1 .. n : s[i] = t[j]
    OBVIOUS
  <2> HIDE DEF d
  <2>1. CASE i = k
    <3>1. n \in 1 .. n /\ t[n] = s[k]
      BY <1>1, <1>4
    <3> QED
      BY <2>1, <3>1
  <2>2. CASE i < k
    <3>1. i \in 1 .. n - 1 /\ i < n
      BY <1>1, <2>2
    <3> QED
      BY <1>3, <1>4, <2>2, <3>1
  <2>3. CASE k < i
    <3>1. i - 1 \in 1 .. n - 1 /\ i - 1 \in 1 .. n /\ i - 1 < n /\ ~ (i - 1 < k) /\ (i - 1) + 1 = i
      BY <1>1, <2>3
    <3>2. t[i - 1] = s[i]
      BY <1>3, <1>4, <3>1
    <3> QED
      BY <3>1, <3>2
  <2> QED
    BY <1>1, <2>1, <2>2, <2>3
<1>7. Sound(m, free, slots, t)
  <2>1. Len(t) = n
    BY <1>4
  <2>2. /\ \A i \in 1 .. Len(t) : \E j \in 1 .. n : t[i] = s[j]
        /\ \A i \in 1 .. n : \E j \in 1 .. Len(t) : s[i] = t[j]
    BY <1>5, <1>6, <2>1
  <2> QED
    BY <1>2, <2>1, <2>2, SoundReordered, Zenon
<1>8. Content(m, t) = Append(Drop(Content(list, s), k), Held(list.slab[s[k]]))
  <2> DEFINE u == Unlink(list, s[k])
  <2>1. Chained(u, d) /\ HoldSame(list.slab, u.slab)
    BY <1>1, UnlinkChained
  <2>2. \A x \in 1 .. Len(list.slab) : Held(u.slab[x]) = Held(list.slab[x]) /\ Held(m.slab[x]) = Held(list.slab[x])
    BY <1>2, <2>1 DEF HoldSame
  <2>3. /\ \A i \in 1 .. n : Held(u.slab[s[i]]) = Held(list.slab[s[i]])
        /\ Held(m.slab[s[k]]) = Held(list.slab[s[k]])
    BY <1>1, <2>2, SoundPlaces
  <2>4. \A i \in 1 .. Len(d) : d[i] \in 1 .. Len(list.slab)
    <3> HIDE DEF d
    <3> QED
      BY <1>3
  <2>5. Content(u, d) = Drop(Content(list, s), k)
    BY <1>1, <2>3, ContentDrops
  <2> HIDE DEF d, u
  <2>7. \A i \in 1 .. Len(d) : Held(m.slab[d[i]]) = Held(u.slab[d[i]])
    BY <2>2, <2>4
  <2>6. Content(m, t) = Append(Content(u, d), Held(m.slab[s[k]]))
    <3>1. t = Append(d, s[k])
      BY DEF t
    <3>2. Content(m, Append(d, s[k])) = Append(Content(u, d), Held(m.slab[s[k]]))
      BY <2>1, <2>7, ContentPushes
    <3> QED
      BY <3>1, <3>2, Zenon
  <2> QED
    BY <2>3, <2>5, <2>6
<1> QED
  BY <1>7, <1>8 DEF t, m

\* What put writes into a frame leaves the links.
LEMMA UpdateSound ==
  ASSUME NEW list, NEW free, NEW slots, NEW s, Sound(list, free, slots, s), NEW k \in 1 .. Len(s),
         NEW d \in Data, NEW c \in BOOLEAN
  PROVE  /\ Sound(Updated(list, s[k], d, c), free, slots, s)
         /\ Held(Updated(list, s[k], d, c).slab[s[k]])
              = [page |-> list.slab[s[k]].page, data |-> d, dirty |-> list.slab[s[k]].dirty \/ c]
         /\ \A x \in 1 .. Len(list.slab) :
               x # s[k] => Held(Updated(list, s[k], d, c).slab[x]) = Held(list.slab[x])
<1> DEFINE f == list.slab[s[k]]
           b == [list.slab EXCEPT ![s[k]].data = d, ![s[k]].dirty = @ \/ c]
           u == [list EXCEPT !.slab = b]
           g == [f EXCEPT !.data = d, !.dirty = @ \/ c]
<1>1. /\ Chained(list, s) /\ Len(s) \in Nat /\ s[k] \in 1 .. Len(list.slab)
      /\ \A i \in 1 .. Len(s) : s[i] \in 1 .. Len(list.slab)
  BY SoundPlaces
<1>2. list \in Lists /\ list.slab \in Seq(Frames) /\ f \in Frames
  BY <1>1, ChainTypes DEF Chained
<1>3. /\ g \in Frames /\ g.page = f.page /\ g.prev = f.prev /\ g.next = f.next
      /\ Held(g) = [page |-> f.page, data |-> d, dirty |-> f.dirty \/ c]
  BY <1>2 DEF Frames, Held
<1>4. b = [list.slab EXCEPT ![s[k]] = g]
  BY <1>1, <1>2
<1>5. u.slab = b
  BY <1>2 DEF Lists
<1> HIDE DEF b, g, f
<1>6. /\ b \in Seq(Frames) /\ Len(b) = Len(list.slab)
      /\ \A x \in 1 .. Len(list.slab) : b[x] = IF x = s[k] THEN g ELSE list.slab[x]
  BY <1>1, <1>2, <1>3, <1>4, ExceptSeq
<1>7. \A x \in 1 .. Len(list.slab) : /\ b[x].page = list.slab[x].page
                                     /\ b[x].prev = list.slab[x].prev /\ b[x].next = list.slab[x].next
  BY <1>3, <1>6 DEF f
<1>8. Chained(u, s)
  <2>1. Len(list.slab) <= Len(b)
    BY <1>1, <1>6, ChainTypes
  <2>2. \A i \in 1 .. Len(s) : b[s[i]].prev = list.slab[s[i]].prev /\ b[s[i]].next = list.slab[s[i]].next
    BY <1>1, <1>7
  <2> QED
    BY <1>1, <1>6, <2>1, <2>2, SameLinks
<1> HIDE DEF u
<1>9. Sound(u, free, slots, s)
  <2>1. \A i \in 1 .. Len(s) : u.slab[s[i]].page = list.slab[s[i]].page
    BY <1>1, <1>5, <1>7
  <2>2. /\ DOMAIN slots \subseteq PageIds /\ IsFiniteSet(DOMAIN slots)
        /\ free \in Seq(1 .. Len(list.slab))
        /\ \A i, j \in 1 .. Len(free) : free[i] = free[j] => i = j
        /\ \A i \in 1 .. Len(s) : \A j \in 1 .. Len(free) : s[i] # free[j]
        /\ Cardinality(DOMAIN slots) = Len(s)
        /\ Len(free) + Len(s) = Len(list.slab)
        /\ Len(list.slab) <= Limit
    BY Zenon DEF Sound
  <2>3. \A p \in DOMAIN slots : \E i \in 1 .. Len(s) : s[i] = slots[p] /\ u.slab[s[i]].page = p
    <3>1. \A p \in DOMAIN slots : \E i \in 1 .. Len(s) : s[i] = slots[p] /\ list.slab[s[i]].page = p
      BY DEF Sound
    <3> QED
      BY <2>1, <3>1
  <2>4. \A i \in 1 .. Len(s) : u.slab[s[i]].page \in DOMAIN slots /\ slots[u.slab[s[i]].page] = s[i]
    <3>1. \A i \in 1 .. Len(s) : list.slab[s[i]].page \in DOMAIN slots /\ slots[list.slab[s[i]].page] = s[i]
      BY DEF Sound
    <3> QED
      BY <2>1, <3>1
  <2>5. Len(u.slab) = Len(list.slab)
    BY <1>5, <1>6
  <2> QED
    BY <1>8, <2>2, <2>3, <2>4, <2>5, Zenon DEF Sound
<1> QED
  BY <1>1, <1>3, <1>5, <1>6, <1>9 DEF u, f, b, Updated

\* unlink, and the place is free.
LEMMA RemoveSound ==
  ASSUME NEW list, NEW free, NEW slots, NEW s, Sound(list, free, slots, s), NEW k \in 1 .. Len(s)
  PROVE  LET u == Unlink(list, s[k])
         IN  /\ Sound(u, Append(free, s[k]), Without(slots, list.slab[s[k]].page), Drop(s, k))
             /\ Content(u, Drop(s, k)) = Drop(Content(list, s), k)
<1> DEFINE u == Unlink(list, s[k])
           d == Drop(s, k)
           n == Len(s)
           r == Append(free, s[k])
           p == list.slab[s[k]].page
           w == Without(slots, p)
<1>1. /\ Chained(list, s) /\ n \in Nat /\ Len(free) \in Nat
      /\ \A i \in 1 .. n : s[i] \in 1 .. Len(list.slab)
  BY SoundPlaces
<1>2. Chained(u, d) /\ HoldSame(list.slab, u.slab)
  BY <1>1, UnlinkChained
<1>3. Len(d) = n - 1 /\ \A i \in 1 .. n - 1 : d[i] = IF i < k THEN s[i] ELSE s[i + 1]
  <2>1. s \in Seq(1 .. Len(list.slab))
    BY <1>1 DEF Chained
  <2> QED
    BY <2>1, DropIsSeq
<1>4. Content(u, d) = Drop(Content(list, s), k)
  <2>1. \A i \in 1 .. n : Held(u.slab[s[i]]) = Held(list.slab[s[i]])
    BY <1>1, <1>2 DEF HoldSame
  <2> QED
    BY <1>1, <2>1, ContentDrops
<1>5. /\ Len(u.slab) = Len(list.slab) /\ \A i \in 1 .. n : u.slab[s[i]].page = list.slab[s[i]].page
  <2>1. Len(list.slab) = Len(u.slab) /\ \A x \in 1 .. Len(list.slab) : list.slab[x].page = u.slab[x].page
    BY <1>2, SamePages
  <2> QED
    BY <1>1, <2>1
<1>6. /\ Len(r) = Len(free) + 1
      /\ \A i \in 1 .. Len(free) + 1 : r[i] = IF i <= Len(free) THEN free[i] ELSE s[k]
  <2>1. free \in Seq(1 .. Len(list.slab)) /\ s[k] \in 1 .. Len(list.slab)
    BY <1>1 DEF Sound
  <2>2. free \in [1 .. Len(free) -> 1 .. Len(list.slab)]
    BY <2>1
  <2> QED
    BY <1>1, <2>1, <2>2
<1>r. r \in Seq(1 .. Len(list.slab))
  <2>1. free \in Seq(1 .. Len(list.slab)) /\ s[k] \in 1 .. Len(list.slab)
    BY <1>1 DEF Sound
  <2> QED
    BY <2>1
<1>7. p \in DOMAIN slots /\ slots[p] = s[k]
  BY DEF Sound
<1>8. DOMAIN w = DOMAIN slots \ {p} /\ \A q \in DOMAIN w : w[q] = slots[q]
  BY DEF Without
<1>9. \A i, j \in 1 .. n : s[i] = s[j] => i = j
  BY <1>1 DEF Chained
<1>10. /\ \A q \in DOMAIN slots : \E i \in 1 .. n : s[i] = slots[q] /\ list.slab[s[i]].page = q
       /\ \A i \in 1 .. n : list.slab[s[i]].page \in DOMAIN slots /\ slots[list.slab[s[i]].page] = s[i]
       /\ \A i, j \in 1 .. Len(free) : free[i] = free[j] => i = j
       /\ \A i \in 1 .. n : \A j \in 1 .. Len(free) : s[i] # free[j]
       /\ Len(free) + n = Len(list.slab) /\ Len(list.slab) <= Limit
  BY DEF Sound
<1>11. DOMAIN slots \subseteq PageIds /\ IsFiniteSet(DOMAIN slots) /\ Cardinality(DOMAIN slots) = n
  BY DEF Sound
<1> HIDE DEF u, d, n, r, w, p
<1>12. \A q \in DOMAIN w : \E i \in 1 .. Len(d) : d[i] = w[q] /\ u.slab[d[i]].page = q
  <2> SUFFICES ASSUME NEW q \in DOMAIN w
               PROVE  \E i \in 1 .. n - 1 : d[i] = w[q] /\ u.slab[d[i]].page = q
    BY <1>3
  <2>1. PICK i \in 1 .. n : s[i] = slots[q] /\ list.slab[s[i]].page = q
    BY <1>8, <1>10
  <2>2. i # k
    BY <1>8, <2>1 DEF p
  <2>3. k \in 1 .. n
    BY DEF n
  <2>4. \E j \in 1 .. n - 1 : d[j] = s[i]
    <3>1. CASE i < k
      <4>1. i \in 1 .. n - 1
        BY <1>1, <2>3, <3>1
      <4> QED
        BY <1>3, <3>1, <4>1
    <3>2. CASE k < i
      <4>1. i - 1 \in 1 .. n - 1 /\ ~ (i - 1 < k) /\ (i - 1) + 1 = i
        BY <1>1, <2>3, <3>2
      <4>2. d[i - 1] = s[i]
        BY <1>3, <4>1
      <4> QED
        BY <4>1, <4>2
    <3> QED
      BY <1>1, <2>2, <2>3, <3>1, <3>2
  <2> QED
    BY <1>5, <1>8, <2>1, <2>4
<1>13. \A i \in 1 .. Len(d) : \E j \in 1 .. n : j # k /\ d[i] = s[j]
  <2> SUFFICES ASSUME NEW i \in 1 .. n - 1 PROVE \E j \in 1 .. n : j # k /\ d[i] = s[j]
    BY <1>3
  <2>1. CASE i < k
    <3>1. i \in 1 .. n /\ i # k
      BY <1>1, <2>1
    <3> QED
      BY <1>3, <2>1, <3>1
  <2>2. CASE ~ (i < k)
    <3>1. i + 1 \in 1 .. n /\ i + 1 # k
      BY <1>1, <2>2
    <3> QED
      BY <1>3, <2>2, <3>1
  <2> QED
    BY <2>1, <2>2
<1>14. \A i \in 1 .. Len(d) : u.slab[d[i]].page \in DOMAIN w /\ w[u.slab[d[i]].page] = d[i]
  <2> SUFFICES ASSUME NEW i \in 1 .. Len(d)
               PROVE  u.slab[d[i]].page \in DOMAIN w /\ w[u.slab[d[i]].page] = d[i]
    OBVIOUS
  <2>1. PICK j \in 1 .. n : j # k /\ d[i] = s[j]
    BY <1>13
  <2>2. k \in 1 .. n /\ s[j] # s[k]
    <3>1. k \in 1 .. n
      BY DEF n
    <3> QED
      BY <1>9, <2>1, <3>1
  <2>3. u.slab[d[i]].page \in DOMAIN slots /\ slots[u.slab[d[i]].page] = d[i]
    <3>1. list.slab[s[j]].page \in DOMAIN slots /\ slots[list.slab[s[j]].page] = s[j]
      BY <1>10
    <3> QED
      BY <1>5, <2>1, <3>1
  <2> QED
    BY <1>7, <1>8, <2>1, <2>2, <2>3
<1>15. \A i, j \in 1 .. Len(r) : r[i] = r[j] => i = j
  <2>1. k \in 1 .. n
    BY DEF n
  <2>2. \A j \in 1 .. Len(free) : s[k] # free[j]
    BY <1>10, <2>1
  <2>3. \A i, j \in 1 .. Len(free) : free[i] = free[j] => i = j
    BY <1>10
  <2> QED
    BY <1>1, <1>6, <2>2, <2>3
<1>16. \A i \in 1 .. Len(d) : \A j \in 1 .. Len(r) : d[i] # r[j]
  <2> SUFFICES ASSUME NEW i \in 1 .. Len(d), NEW j \in 1 .. Len(r) PROVE d[i] # r[j]
    OBVIOUS
  <2>1. PICK h \in 1 .. n : h # k /\ d[i] = s[h]
    BY <1>13
  <2>2. k \in 1 .. n /\ s[h] # s[k]
    BY <1>9, <2>1 DEF n
  <2>3. CASE j = Len(free) + 1
    BY <1>1, <1>6, <2>1, <2>2, <2>3
  <2>4. CASE j # Len(free) + 1
    <3>1. j \in 1 .. Len(free) /\ r[j] = free[j]
      BY <1>1, <1>6, <2>4
    <3> QED
      BY <1>10, <2>1, <3>1
  <2> QED
    BY <2>3, <2>4
<1>17. DOMAIN w \subseteq PageIds /\ IsFiniteSet(DOMAIN w) /\ Cardinality(DOMAIN w) = n - 1
  BY <1>7, <1>8, <1>11, FS_RemoveElement
<1>18. Len(r) + Len(d) = Len(u.slab) /\ Len(u.slab) <= Limit
  <2>1. Len(free) + n = Len(list.slab) /\ Len(list.slab) <= Limit
    BY <1>10
  <2>2. Len(r) = Len(free) + 1 /\ Len(d) = n - 1 /\ Len(u.slab) = Len(list.slab)
    BY <1>3, <1>5, <1>6
  <2>3. n \in Nat /\ Len(free) \in Nat
    BY <1>1
  <2> QED
    BY <2>1, <2>2, <2>3
<1>19. r \in Seq(1 .. Len(u.slab)) /\ Cardinality(DOMAIN w) = Len(d)
  BY <1>3, <1>5, <1>r, <1>17
<1>20. Sound(u, r, w, d)
  BY <1>2, <1>12, <1>14, <1>15, <1>16, <1>17, <1>18, <1>19, Zenon DEF Sound
<1> QED
  BY <1>4, <1>20 DEF u, d, r, w, p

\* A new frame in a place without one, or behind all others.
LEMMA PlacedFrame ==
  ASSUME NEW list, NEW free, NEW slots, NEW s, Sound(list, free, slots, s), Len(s) < Limit,
         NEW p \in PageIds, NEW d \in Data, NEW c \in BOOLEAN
  PROVE  FrameIn(list, free, s, Frame(p, d, c), SlotFor(list, free), SlabWith(list, free, Frame(p, d, c)))
<1>1. /\ Chained(list, s) /\ Len(s) \in Nat /\ Len(free) \in Nat /\ Len(list.slab) \in Nat
      /\ \A i \in 1 .. Len(s) : s[i] \in 1 .. Len(list.slab)
  BY SoundPlaces
<1>2. list.slab \in Seq(Frames)
  BY <1>1, ChainTypes
<1>3. Frame(p, d, c) \in Frames
  BY DEF Frame, Frames, NIL
<1>4. /\ \A i \in 1 .. Len(s) : \A j \in 1 .. Len(free) : s[i] # free[j]
      /\ Len(free) + Len(s) = Len(list.slab) /\ Len(list.slab) <= Limit
  BY DEF Sound
<1>5. free \in Seq(1 .. Len(list.slab))
  BY DEF Sound
<1>6. CASE free = <<>>
  <2> DEFINE b == Append(list.slab, Frame(p, d, c))
  <2>1. /\ b \in Seq(Frames) /\ Len(b) = Len(list.slab) + 1 /\ b[Len(list.slab) + 1] = Frame(p, d, c)
        /\ \A x \in 1 .. Len(list.slab) : b[x] = list.slab[x]
    BY <1>2, <1>3
  <2>2. Len(list.slab) = Len(s)
    BY <1>1, <1>4, <1>6
  <2>3. Len(b) <= Limit /\ Len(list.slab) + 1 \in 1 .. Len(b)
    BY <1>1, <2>1, <2>2, LimitAssumption
  <2>4. \A i \in 1 .. Len(s) : s[i] # Len(list.slab) + 1
    BY <1>1
  <2> HIDE DEF b
  <2> QED
    BY <1>1, <1>6, <2>1, <2>3, <2>4 DEF b, SlotFor, SlabWith, FrameIn
<1>7. CASE free # <<>>
  <2> DEFINE slot == free[Len(free)]
             b == [list.slab EXCEPT ![slot] = Frame(p, d, c)]
  <2>1. Len(free) \in 1 .. Len(free) /\ slot \in 1 .. Len(list.slab)
    BY <1>5, <1>7
  <2> HIDE DEF slot
  <2>2. /\ b \in Seq(Frames) /\ Len(b) = Len(list.slab)
        /\ \A x \in 1 .. Len(list.slab) : b[x] = IF x = slot THEN Frame(p, d, c) ELSE list.slab[x]
    BY <1>2, <1>3, <2>1, ExceptSeq
  <2>3. \A i \in 1 .. Len(s) : s[i] # slot
    BY <1>4, <2>1 DEF slot
  <2>4. Len(free) # 0
    BY <1>5, <1>7
  <2> HIDE DEF b
  <2> QED
    BY <1>1, <1>4, <1>7, <2>1, <2>2, <2>3, <2>4 DEF b, slot, SlotFor, SlabWith, FrameIn
<1> QED
  BY <1>6, <1>7

\* put of a page that is not there, when there is room.
LEMMA PlacedSound ==
  ASSUME NEW list, NEW free, NEW slots, NEW s, Sound(list, free, slots, s), Len(s) < Limit,
         NEW p \in PageIds, p \notin DOMAIN slots, NEW d \in Data, NEW c \in BOOLEAN
  PROVE  LET done == Placed(list, free, p, d, c)
             t    == Append(s, done.slot)
         IN  /\ Sound(done.list, done.free, With(slots, p, done.slot), t)
             /\ Content(done.list, t) = Append(Content(list, s), [page |-> p, data |-> d, dirty |-> c])
<1> DEFINE slot == SlotFor(list, free)
           b == SlabWith(list, free, Frame(p, d, c))
           l == [list EXCEPT !.slab = b]
           m == PushMru(l, slot)
           r == IF free = <<>> THEN <<>> ELSE SubSeq(free, 1, Len(free) - 1)
           w == With(slots, p, slot)
           t == Append(s, slot)
           n == Len(s)
<1>1. /\ Chained(list, s) /\ n \in Nat /\ Len(free) \in Nat /\ Len(list.slab) \in Nat
      /\ \A i \in 1 .. n : s[i] \in 1 .. Len(list.slab)
  BY SoundPlaces
<1>2. FrameIn(list, free, s, Frame(p, d, c), slot, b)
  BY PlacedFrame, Zenon
<1>3. Placed(list, free, p, d, c) = [list |-> m, slot |-> slot, free |-> r]
  BY DEF Placed, SlotFor, SlabWith
<1>4. l.slab = b
  BY <1>1 DEF Chained, Lists
<1> HIDE DEF b, slot
<1>b. b \in Seq(Frames) /\ slot \in 1 .. Len(b) /\ b[slot] = Frame(p, d, c)
  BY <1>2, Zenon DEF FrameIn
<1>m. Len(b) \in Nat
  <2>1. b \in Seq(Frames)
    BY <1>b
  <2> QED
    BY <2>1
<1>n. /\ Len(free) = 0 => Len(b) = Len(list.slab) + 1
      /\ Len(free) # 0 => Len(b) = Len(list.slab)
      /\ Len(list.slab) <= Len(b) /\ Len(b) <= Limit
  BY <1>2, Zenon DEF FrameIn
<1>s. \A i \in 1 .. n : s[i] # slot
  BY <1>2 DEF FrameIn
<1>5. \A i \in 1 .. n : b[s[i]] = list.slab[s[i]]
  <2>1. \A x \in 1 .. Len(list.slab) : x # slot => b[x] = list.slab[x]
    BY <1>2 DEF FrameIn
  <2> QED
    BY <1>1, <1>s, <2>1
<1>6. Chained(l, s)
  <2>1. Len(list.slab) <= Len(b)
    BY <1>n
  <2>2. \A i \in 1 .. n : b[s[i]].prev = list.slab[s[i]].prev /\ b[s[i]].next = list.slab[s[i]].next
    BY <1>5
  <2> QED
    BY <1>1, <1>b, <2>1, <2>2, SameLinks
<1>p. 1 .. Len(list.slab) \subseteq 1 .. Len(b)
  <2>1. Len(list.slab) <= Len(b)
    BY <1>n
  <2> QED
    BY <1>1, <1>m, <2>1
<1> HIDE DEF l
<1>7. Chained(m, t) /\ HoldSame(b, m.slab)
  BY <1>b, <1>s, <1>4, <1>6, PushChained
<1>8. Len(t) = n + 1 /\ \A i \in 1 .. n + 1 : t[i] = IF i <= n THEN s[i] ELSE slot
  <2>1. s \in Seq(1 .. Len(list.slab))
    BY <1>1 DEF Chained
  <2>2. s \in [1 .. n -> 1 .. Len(list.slab)]
    BY <2>1
  <2> QED
    BY <1>1, <2>1, <2>2
<1> HIDE DEF m, t, n, w
<1>9. /\ Len(m.slab) = Len(b) /\ \A x \in 1 .. Len(b) : m.slab[x].page = b[x].page
      /\ \A x \in 1 .. Len(b) : Held(m.slab[x]) = Held(b[x])
  <2>1. Len(b) = Len(m.slab) /\ \A x \in 1 .. Len(b) : b[x].page = m.slab[x].page
    BY <1>7, SamePages
  <2> QED
    BY <1>7, <2>1 DEF HoldSame
<1>10. /\ m.slab[slot].page = p /\ Held(m.slab[slot]) = [page |-> p, data |-> d, dirty |-> c]
       /\ \A i \in 1 .. n : m.slab[s[i]].page = list.slab[s[i]].page
  <2>1. Frame(p, d, c).page = p /\ Held(Frame(p, d, c)) = [page |-> p, data |-> d, dirty |-> c]
    BY DEF Frame, Held
  <2>2. \A i \in 1 .. n : s[i] \in 1 .. Len(b)
    BY <1>1, <1>p
  <2> QED
    BY <1>b, <1>5, <1>9, <2>1, <2>2
<1>11. Content(m, t) = Append(Content(list, s), [page |-> p, data |-> d, dirty |-> c])
  <2>1. \A i \in 1 .. n : Held(m.slab[s[i]]) = Held(list.slab[s[i]])
    <3>1. \A i \in 1 .. n : s[i] \in 1 .. Len(b)
      BY <1>1, <1>p
    <3> QED
      BY <1>5, <1>9, <3>1
  <2>2. Content(m, t) = Append(Content(list, s), Held(m.slab[slot]))
    BY <1>1, <2>1, ContentPushes DEF t, n
  <2> QED
    BY <1>10, <2>2
<1>12. DOMAIN w = DOMAIN slots \cup {p} /\ \A q \in DOMAIN w : w[q] = IF q = p THEN slot ELSE slots[q]
  BY DEF w, With
<1>13. \A q \in DOMAIN w : \E i \in 1 .. Len(t) : t[i] = w[q] /\ m.slab[t[i]].page = q
  <2> SUFFICES ASSUME NEW q \in DOMAIN w
               PROVE  \E i \in 1 .. n + 1 : t[i] = w[q] /\ m.slab[t[i]].page = q
    BY <1>8
  <2>1. CASE q = p
    <3>1. n + 1 \in 1 .. n + 1 /\ t[n + 1] = slot
      BY <1>1, <1>8
    <3> QED
      BY <1>10, <1>12, <2>1, <3>1
  <2>2. CASE q # p
    <3>1. PICK i \in 1 .. n : s[i] = slots[q] /\ list.slab[s[i]].page = q
      BY <1>12, <2>2 DEF Sound, n
    <3>2. i \in 1 .. n + 1 /\ t[i] = s[i]
      BY <1>1, <1>8, <3>1
    <3> QED
      BY <1>10, <1>12, <2>2, <3>1, <3>2
  <2> QED
    BY <2>1, <2>2
<1>14. \A i \in 1 .. Len(t) : m.slab[t[i]].page \in DOMAIN w /\ w[m.slab[t[i]].page] = t[i]
  <2> SUFFICES ASSUME NEW i \in 1 .. n + 1
               PROVE  m.slab[t[i]].page \in DOMAIN w /\ w[m.slab[t[i]].page] = t[i]
    BY <1>8
  <2>1. CASE i = n + 1
    <3>1. t[i] = slot
      BY <1>1, <1>8, <2>1
    <3> QED
      BY <1>10, <1>12, <3>1
  <2>2. CASE i # n + 1
    <3>1. i \in 1 .. n /\ t[i] = s[i]
      BY <1>1, <1>8, <2>2
    <3>2. list.slab[s[i]].page \in DOMAIN slots /\ slots[list.slab[s[i]].page] = s[i]
      BY <3>1 DEF Sound, n
    <3> QED
      BY <1>10, <1>12, <3>1, <3>2
  <2> QED
    BY <2>1, <2>2
<1>15. /\ \A i, j \in 1 .. Len(free) : free[i] = free[j] => i = j
       /\ \A i \in 1 .. n : \A j \in 1 .. Len(free) : s[i] # free[j]
       /\ Len(free) + n = Len(list.slab)
  BY DEF Sound, n
<1>16. free = <<>> <=> Len(free) = 0
  BY DEF Sound
<1>17. /\ Len(free) = 0 => Len(r) = 0
       /\ Len(free) # 0 => Len(r) = Len(free) - 1
       /\ \A i \in 1 .. Len(r) : i \in 1 .. Len(free) /\ r[i] = free[i]
       /\ r \in Seq(1 .. Len(b))
  <2>1. free \in Seq(1 .. Len(list.slab))
    BY DEF Sound
  <2>2. free \in Seq(1 .. Len(b))
    BY <1>p, <2>1, SeqMonotonic
  <2>3. CASE free = <<>>
    BY <1>16, <2>3
  <2>4. CASE free # <<>>
    <3>1. \A i \in 1 .. Len(free) - 1 : free[i] \in 1 .. Len(b)
      BY <2>2
    <3>2. Len(free) \in Nat /\ Len(free) # 0
      BY <1>1, <1>16, <2>4
    <3>3. r = SubSeq(free, 1, Len(free) - 1)
      BY <2>4
    <3> HIDE DEF r
    <3>4. /\ r \in Seq(1 .. Len(b)) /\ Len(r) = IF 1 <= Len(free) - 1 THEN (Len(free) - 1) - 1 + 1 ELSE 0
          /\ \A i \in 1 .. (Len(free) - 1) - 1 + 1 : r[i] = free[1 + i - 1]
      <4>1. 1 \in Int /\ Len(free) - 1 \in Int
        BY <3>2
      <4> QED
        BY <3>1, <3>3, <4>1, SubSeqProperties
    <3>5. Len(r) = Len(free) - 1
      <4>1. CASE 1 <= Len(free) - 1
        BY <3>2, <3>4, <4>1
      <4>2. CASE ~ (1 <= Len(free) - 1)
        <5>1. Len(free) - 1 = 0 /\ Len(free) - 1 \in Int /\ Len(free) - 1 < 1
          <6>1. \A x \in Nat : x # 0 /\ ~ (1 <= x - 1) => x - 1 = 0 /\ x - 1 \in Int /\ x - 1 < 1
            OBVIOUS
          <6> QED
            BY <3>2, <4>2, <6>1, Zenon
        <5>2. Len(r) = 0
          <6>1. 1 \in Int
            OBVIOUS
          <6>2. r = <<>>
            BY <3>3, <5>1, <6>1, SubSeqEmpty, Zenon
          <6> QED
            BY <6>2
        <5> QED
          BY <5>1, <5>2
      <4> QED
        BY <4>1, <4>2
    <3>6. ASSUME NEW i \in 1 .. Len(r) PROVE i \in 1 .. Len(free) /\ r[i] = free[i]
      <4>1. i \in 1 .. (Len(free) - 1) - 1 + 1 /\ 1 + i - 1 = i /\ i \in 1 .. Len(free)
        BY <3>2, <3>5
      <4> QED
        BY <3>4, <4>1
    <3> QED
      BY <3>2, <3>4, <3>5, <3>6
  <2> QED
    BY <2>3, <2>4
<1> HIDE DEF r
<1>18. \A i, j \in 1 .. Len(r) : r[i] = r[j] => i = j
  BY <1>15, <1>17
<1>19. \A j \in 1 .. Len(r) : r[j] # slot
  <2> SUFFICES ASSUME NEW j \in 1 .. Len(r) PROVE r[j] # slot
    OBVIOUS
  <2>1. free # <<>> /\ j \in 1 .. Len(free) /\ j # Len(free) /\ Len(free) \in 1 .. Len(free) /\ r[j] = free[j]
    BY <1>1, <1>16, <1>17
  <2>2. slot = free[Len(free)]
    BY <2>1 DEF slot, SlotFor
  <2> QED
    BY <1>15, <2>1, <2>2
<1>20. \A i \in 1 .. Len(t) : \A j \in 1 .. Len(r) : t[i] # r[j]
  <2> SUFFICES ASSUME NEW i \in 1 .. n + 1, NEW j \in 1 .. Len(r) PROVE t[i] # r[j]
    BY <1>8
  <2>1. CASE i = n + 1
    BY <1>1, <1>8, <1>19, <2>1
  <2>2. CASE i # n + 1
    <3>1. i \in 1 .. n /\ t[i] = s[i]
      BY <1>1, <1>8, <2>2
    <3>2. j \in 1 .. Len(free) /\ r[j] = free[j]
      BY <1>17
    <3> QED
      BY <1>15, <3>1, <3>2
  <2> QED
    BY <2>1, <2>2
<1>21. DOMAIN w \subseteq PageIds /\ IsFiniteSet(DOMAIN w) /\ Cardinality(DOMAIN w) = Len(t)
  <2>1. DOMAIN slots \subseteq PageIds /\ IsFiniteSet(DOMAIN slots) /\ Cardinality(DOMAIN slots) = n
    BY DEF Sound, n
  <2>2. IsFiniteSet(DOMAIN w) /\ Cardinality(DOMAIN w) = n + 1
    BY <1>12, <2>1, FS_AddElement
  <2> QED
    BY <1>8, <1>12, <2>1, <2>2
<1>22. Len(r) + Len(t) = Len(m.slab) /\ Len(m.slab) <= Limit
  <2>1. /\ Len(m.slab) = Len(b) /\ Len(t) = n + 1
        /\ Len(free) = 0 => Len(r) = 0
        /\ Len(free) # 0 => Len(r) = Len(free) - 1
    BY <1>8, <1>9, <1>17
  <2>2. Len(free) + n = Len(list.slab)
    BY <1>15
  <2>3. n \in Nat /\ Len(free) \in Nat
    BY <1>1
  <2>4. /\ Len(free) = 0 => Len(b) = Len(list.slab) + 1
        /\ Len(free) # 0 => Len(b) = Len(list.slab)
        /\ Len(b) <= Limit
    BY <1>n
  <2> QED
    BY <2>1, <2>2, <2>3, <2>4
<1>23. Sound(m, r, w, t)
  <2>1. r \in Seq(1 .. Len(m.slab))
    <3>1. r \in Seq(1 .. Len(b)) /\ Len(m.slab) = Len(b)
      BY <1>9, <1>17
    <3> QED
      BY <3>1, Zenon
  <2> QED
    BY <1>7, <1>13, <1>14, <1>18, <1>20, <1>21, <1>22, <2>1, Zenon DEF Sound
<1> HIDE DEF Placed
<1> QED
  BY <1>3, <1>11, <1>23 DEF t, w, m, r

-----------------------------------------------------------------------------
\* The invariant, and the steps.

\* The frames are linked soundly.
CacheInv == \E s : Sound(List, vacant, slotOf, s)

\* The walk over sound frames gives what they hold in order.
LEMMA OrderIs ==
  ASSUME NEW list, NEW free, NEW slots, NEW s, Sound(list, free, slots, s)
  PROVE  Walk(list)[Len(list.slab)].seq = Content(list, s)
<1>1. Chained(list, s) /\ Len(s) \in Nat /\ Len(free) \in Nat
  BY SoundPlaces
<1>2. Len(free) + Len(s) = Len(list.slab)
  BY DEF Sound
<1>3. Len(s) <= Len(list.slab)
  BY <1>1, <1>2
<1> QED
  BY <1>1, <1>3, WalkTakes

\* A step that leaves a sound list has its order.
LEMMA NewOrder ==
  ASSUME NEW m, NEW t, Sound(m, vacant', slotOf', t), Becomes(m)
  PROVE  CacheInv' /\ Ordered' = Content(m, t)
<1>1. m = [slab |-> m.slab, ends |-> m.ends]
  <2>1. m \in Lists
    BY Zenon DEF Sound, Chained
  <2> QED
    BY <2>1 DEF Lists
<1>2. [slab |-> slab', ends |-> ends'] = m /\ slab' = m.slab
  BY <1>1 DEF Becomes
<1>3. List' = m
  BY <1>2 DEF List
<1>4. CacheInv'
  BY <1>3 DEF CacheInv
<1>5. Ordered' = Walk(m)[Len(m.slab)].seq
  BY <1>2, <1>3 DEF Ordered
<1> QED
  BY <1>4, <1>5, OrderIs

\* A step that leaves the frames.
LEMMA SameOrder ==
  ASSUME CacheInv, UNCHANGED <<slab, vacant, slotOf, ends>>
  PROVE  CacheInv' /\ Ordered' = Ordered
  BY DEF CacheInv, Ordered, List

\* Where the abstract cache has a page.
LEMMA LruPlaces ==
  ASSUME NEW s, Sound(List, vacant, slotOf, s), NEW p
  PROVE  /\ Ordered = Content(List, s) /\ Ordered \in Seq(Contents) /\ Len(Ordered) = Len(s)
         /\ Lru!Holds(p) <=> p \in DOMAIN slotOf
         /\ p \in DOMAIN slotOf =>
               \E k \in 1 .. Len(s) :
                  /\ s[k] = slotOf[p] /\ slab[s[k]].page = p
                  /\ Lru!Place(p) = k /\ Ordered[k] = Held(slab[s[k]])
                  /\ Lru!Others(p) = Drop(Ordered, k)
<1>1. List.slab = slab /\ Ordered = Content(List, s)
  <2>1. List.slab = slab
    BY DEF List
  <2> QED
    BY <2>1, OrderIs DEF Ordered
<1>2. /\ Ordered \in Seq(Contents) /\ Len(Ordered) = Len(s)
      /\ \A i \in 1 .. Len(s) : Ordered[i] = Held(slab[s[i]])
  <2>1. Chained(List, s)
    BY SoundPlaces
  <2> QED
    BY <1>1, <2>1, ContentIsSeq
<1>3. DOMAIN Ordered = 1 .. Len(s) /\ \A i \in 1 .. Len(s) : Ordered[i].page = slab[s[i]].page
  <2>1. Ordered \in Seq(Contents) /\ Len(Ordered) = Len(s)
    BY <1>2
  <2>2. DOMAIN Ordered = 1 .. Len(s)
    BY <2>1
  <2>3. \A i \in 1 .. Len(s) : Held(slab[s[i]]).page = slab[s[i]].page
    BY DEF Held
  <2> QED
    BY <1>2, <2>2, <2>3
<1>4. \A i \in 1 .. Len(s) : slab[s[i]].page \in DOMAIN slotOf
  <2>1. \A i \in 1 .. Len(s) : List.slab[s[i]].page \in DOMAIN slotOf
    BY Zenon DEF Sound
  <2> QED
    BY <1>1, <2>1
<1>5. p \in DOMAIN slotOf =>
         \E k \in 1 .. Len(s) :
            /\ s[k] = slotOf[p] /\ slab[s[k]].page = p
            /\ \A i \in 1 .. Len(s) : slab[s[i]].page = p => i = k
  <2>1. p \in DOMAIN slotOf =>
           \E k \in 1 .. Len(s) :
              /\ s[k] = slotOf[p] /\ List.slab[s[k]].page = p
              /\ \A i \in 1 .. Len(s) : List.slab[s[i]].page = p => i = k
    BY SoundPlaces
  <2> QED
    BY <1>1, <2>1
<1>6. Lru!Holds(p) <=> p \in DOMAIN slotOf
  BY <1>3, <1>4, <1>5 DEF Lru!Holds
<1>7. ASSUME p \in DOMAIN slotOf
      PROVE  \E k \in 1 .. Len(s) :
                /\ s[k] = slotOf[p] /\ slab[s[k]].page = p
                /\ Lru!Place(p) = k /\ Ordered[k] = Held(slab[s[k]])
                /\ Lru!Others(p) = Drop(Ordered, k)
  <2>1. PICK k \in 1 .. Len(s) :
            /\ s[k] = slotOf[p] /\ slab[s[k]].page = p
            /\ \A i \in 1 .. Len(s) : slab[s[i]].page = p => i = k
    BY <1>5, <1>7
  <2>2. Lru!Place(p) = k
    <3>1. \A i \in DOMAIN Ordered : Ordered[i].page = p <=> i = k
      BY <1>3, <2>1
    <3>2. k \in DOMAIN Ordered
      BY <1>3
    <3> QED
      BY <3>1, <3>2 DEF Lru!Place
  <2>3. Lru!Others(p) = Drop(Ordered, k)
    BY <1>2, <2>2, DropIsJoin DEF Lru!Others
  <2> QED
    BY <1>2, <2>1, <2>2, <2>3
<1> QED
  BY <1>1, <1>2, <1>6, <1>7

\* get
LEMMA GetSteps ==
  ASSUME CacheInv, NEW p \in PageIds, CacheGet(p)
  PROVE  CacheInv' /\ Lru!Get(p)
<1>1. PICK s : Sound(List, vacant, slotOf, s)
  BY DEF CacheInv
<1>2. CASE p \in DOMAIN slotOf
  <2>1. /\ Becomes(Touch(List, slotOf[p])) /\ answer' = <<slab[slotOf[p]].data>>
        /\ vacant' = vacant /\ slotOf' = slotOf
    BY <1>2 DEF CacheGet
  <2>2. PICK k \in 1 .. Len(s) :
            /\ s[k] = slotOf[p] /\ slab[s[k]].page = p
            /\ Lru!Place(p) = k /\ Ordered[k] = Held(slab[s[k]])
            /\ Lru!Others(p) = Drop(Ordered, k)
    BY <1>1, <1>2, LruPlaces
  <2> DEFINE t == Append(Drop(s, k), s[k])
             m == Touch(List, s[k])
  <2>3. /\ Sound(m, vacant, slotOf, t)
        /\ Content(m, t) = Append(Drop(Content(List, s), k), Held(List.slab[s[k]]))
    BY <1>1, TouchSound
  <2> HIDE DEF m, t
  <2>4. Becomes(m)
    BY <2>1, <2>2 DEF m
  <2>5. CacheInv' /\ Ordered' = Content(m, t)
    BY <2>1, <2>3, <2>4, NewOrder
  <2>6. List.slab = slab /\ Ordered = Content(List, s)
    BY <1>1, LruPlaces DEF List
  <2>7. Ordered' = Append(Lru!Others(p), Ordered[Lru!Place(p)])
    BY <2>2, <2>3, <2>5, <2>6
  <2>8. answer' = <<Ordered[Lru!Place(p)].data>>
    BY <2>1, <2>2 DEF Held
  <2>9. Lru!Holds(p)
    BY <1>1, <1>2, LruPlaces
  <2> QED
    BY <2>5, <2>7, <2>8, <2>9 DEF Lru!Get
<1>3. CASE p \notin DOMAIN slotOf
  <2>1. answer' = Nothing /\ UNCHANGED <<slab, vacant, slotOf, ends>>
    BY <1>3 DEF CacheGet
  <2>2. ~ Lru!Holds(p)
    BY <1>1, <1>3, LruPlaces
  <2>3. CacheInv' /\ Ordered' = Ordered
    BY <2>1, SameOrder
  <2> QED
    BY <2>1, <2>2, <2>3 DEF Lru!Get, Lru!Nothing, Nothing
<1> QED
  BY <1>2, <1>3

\* put of a page that is there
LEMMA UpdateSteps ==
  ASSUME CacheInv, NEW p \in PageIds, NEW d \in Data, NEW c \in BOOLEAN, CacheUpdate(p, d, c)
  PROVE  CacheInv' /\ Lru!Update(p, d, c)
<1>1. PICK s : Sound(List, vacant, slotOf, s)
  BY DEF CacheInv
<1>2. p \in DOMAIN slotOf /\ answer' = Nothing /\ vacant' = vacant /\ slotOf' = slotOf
  BY DEF CacheUpdate
<1>3. PICK k \in 1 .. Len(s) :
          /\ s[k] = slotOf[p] /\ slab[s[k]].page = p
          /\ Lru!Place(p) = k /\ Ordered[k] = Held(slab[s[k]])
          /\ Lru!Others(p) = Drop(Ordered, k)
  BY <1>1, <1>2, LruPlaces
<1> DEFINE u == Updated(List, s[k], d, c)
           t == Append(Drop(s, k), s[k])
           m == Touch(u, s[k])
           f == slab[s[k]]
<1>4. List.slab = slab /\ Ordered = Content(List, s)
  BY <1>1, LruPlaces DEF List
<1>5. Becomes(m)
  BY <1>3, <1>4 DEF CacheUpdate, Updated
<1>6. /\ Sound(u, vacant, slotOf, s)
      /\ Held(u.slab[s[k]]) = [page |-> List.slab[s[k]].page, data |-> d, dirty |-> List.slab[s[k]].dirty \/ c]
      /\ \A x \in 1 .. Len(List.slab) : x # s[k] => Held(u.slab[x]) = Held(List.slab[x])
  BY <1>1, UpdateSound
<1> HIDE DEF u
<1>7. /\ Sound(m, vacant, slotOf, t)
      /\ Content(m, t) = Append(Drop(Content(u, s), k), Held(u.slab[s[k]]))
  BY <1>6, TouchSound
<1> HIDE DEF m, t
<1>8. Drop(Content(u, s), k) = Drop(Content(List, s), k)
  <2>1. /\ Chained(List, s) /\ \A i \in 1 .. Len(s) : s[i] \in 1 .. Len(List.slab)
    BY <1>1, SoundPlaces
  <2>2. Chained(u, s)
    BY <1>6, SoundPlaces
  <2>3. \A i, j \in 1 .. Len(s) : s[i] = s[j] => i = j
    BY <2>1 DEF Chained
  <2>4. \A i \in 1 .. Len(s) : i # k => Held(u.slab[s[i]]) = Held(List.slab[s[i]])
    BY <1>6, <2>1, <2>3
  <2>5. Content(u, Drop(s, k)) = Drop(Content(List, s), k)
    BY <2>1, <2>4, ContentDrops
  <2>6. Content(u, Drop(s, k)) = Drop(Content(u, s), k)
    BY <2>2, ContentDrops
  <2> QED
    BY <2>5, <2>6
<1>9. CacheInv' /\ Ordered' = Content(m, t)
  BY <1>2, <1>5, <1>7, NewOrder
<1>10. Held(u.slab[s[k]]) = Lru!Entry(p, d, Ordered[Lru!Place(p)].dirty \/ c)
  <2>1. Held(f).dirty = f.dirty
    BY DEF Held
  <2> QED
    BY <1>3, <1>4, <1>6, <2>1 DEF Lru!Entry
<1>11. Ordered' = Append(Lru!Others(p), Lru!Entry(p, d, Ordered[Lru!Place(p)].dirty \/ c))
  BY <1>3, <1>4, <1>7, <1>8, <1>9, <1>10
<1>12. Lru!Holds(p)
  BY <1>1, <1>2, LruPlaces
<1> QED
  BY <1>2, <1>9, <1>11, <1>12 DEF Lru!Update, Lru!Nothing, Nothing

\* put of a page that is not there, with room for it
LEMMA InsertSteps ==
  ASSUME CacheInv, NEW p \in PageIds, NEW d \in Data, NEW c \in BOOLEAN, CacheInsert(p, d, c)
  PROVE  CacheInv' /\ Lru!Insert(p, d, c)
<1>1. PICK s : Sound(List, vacant, slotOf, s)
  BY DEF CacheInv
<1> DEFINE done == Placed(List, vacant, p, d, c)
           t == Append(s, done.slot)
<1>2. /\ p \notin DOMAIN slotOf /\ Cardinality(DOMAIN slotOf) < Limit /\ answer' = Nothing
      /\ Becomes(done.list) /\ vacant' = done.free /\ slotOf' = With(slotOf, p, done.slot)
  BY DEF CacheInsert
<1>3. Cardinality(DOMAIN slotOf) = Len(s)
  BY <1>1 DEF Sound
<1>4. /\ Sound(done.list, done.free, With(slotOf, p, done.slot), t)
      /\ Content(done.list, t) = Append(Content(List, s), [page |-> p, data |-> d, dirty |-> c])
  BY <1>1, <1>2, <1>3, PlacedSound
<1> HIDE DEF done, t
<1>5. CacheInv' /\ Ordered' = Content(done.list, t)
  BY <1>2, <1>4, NewOrder
<1>6. Ordered = Content(List, s) /\ Len(Ordered) = Len(s) /\ ~ Lru!Holds(p)
  BY <1>1, <1>2, LruPlaces
<1> QED
  BY <1>2, <1>3, <1>4, <1>5, <1>6 DEF Lru!Insert, Lru!Entry, Lru!Nothing, Nothing

\* evict_lru, then put
LEMMA ReplaceSteps ==
  ASSUME CacheInv, NEW p \in PageIds, NEW d \in Data, NEW c \in BOOLEAN, CacheReplace(p, d, c)
  PROVE  CacheInv' /\ Lru!Replace(p, d, c)
<1>1. PICK s : Sound(List, vacant, slotOf, s)
  BY DEF CacheInv
<1> DEFINE old == ends.lru
           l == Unlink(List, old)
           free == Append(vacant, old)
           slots == Without(slotOf, slab[old].page)
           h == Drop(s, 1)
           done == Placed(l, free, p, d, c)
           t == Append(h, done.slot)
<1>2. /\ p \notin DOMAIN slotOf /\ Cardinality(DOMAIN slotOf) >= Limit
      /\ Becomes(done.list) /\ vacant' = done.free /\ slotOf' = With(slots, p, done.slot)
      /\ answer' = Victim(slab[old])
  BY DEF CacheReplace
<1>3. List.slab = slab /\ List.ends = ends
  BY DEF List
<1>4. Len(s) = Limit /\ Len(s) \in Nat /\ 1 \in 1 .. Len(s)
  <2>1. Cardinality(DOMAIN slotOf) = Len(s) /\ Len(vacant) + Len(s) = Len(List.slab) /\ Len(List.slab) <= Limit
    BY <1>1 DEF Sound
  <2>2. Len(s) \in Nat /\ Len(vacant) \in Nat
    BY <1>1, SoundPlaces
  <2> QED
    BY <1>2, <2>1, <2>2, LimitAssumption
<1>5. s[1] = old
  <2>1. Chained(List, s) /\ s # <<>>
    BY <1>1, <1>4, SoundPlaces
  <2> QED
    BY <1>3, <2>1 DEF Chained
<1>6. /\ Sound(l, free, slots, h)
      /\ Content(l, h) = Drop(Content(List, s), 1)
  BY <1>1, <1>3, <1>4, <1>5, RemoveSound
<1>7. Len(h) < Limit
  BY <1>4 DEF Drop
<1>8. p \notin DOMAIN slots
  BY <1>2 DEF Without
<1> HIDE DEF l, free, slots, h
<1>9. /\ Sound(done.list, done.free, With(slots, p, done.slot), t)
      /\ Content(done.list, t) = Append(Content(l, h), [page |-> p, data |-> d, dirty |-> c])
  BY <1>6, <1>7, <1>8, PlacedSound
<1> HIDE DEF done, t
<1>10. CacheInv' /\ Ordered' = Content(done.list, t)
  BY <1>2, <1>9, NewOrder
<1>11. Ordered = Content(List, s) /\ Ordered \in Seq(Contents) /\ Len(Ordered) = Len(s) /\ ~ Lru!Holds(p)
  BY <1>1, <1>2, LruPlaces
<1>12. Ordered[1] = Held(slab[old])
  <2>1. Chained(List, s)
    BY <1>1, SoundPlaces
  <2> QED
    BY <1>3, <1>4, <1>5, <1>11, <2>1, ContentIsSeq
<1>13. Tail(Ordered) = Drop(Ordered, 1) /\ Head(Ordered) = Ordered[1]
  <2>1. Ordered # <<>>
    BY <1>4, <1>11
  <2>2. Head(Ordered) = Ordered[1]
    BY <1>11, <2>1
  <2>3. SubSeq(Ordered, 1, 1 - 1) \o SubSeq(Ordered, 1 + 1, Len(Ordered)) = Drop(Ordered, 1)
    BY <1>4, <1>11, DropIsJoin
  <2>4. SubSeq(Ordered, 1, 1 - 1) = <<>>
    BY SubSeqEmpty
  <2>5. Tail(Ordered) = SubSeq(Ordered, 2, Len(Ordered)) /\ Tail(Ordered) \in Seq(Contents)
    BY <1>11, <2>1, TailIsSubSeq, HeadTailProperties
  <2>6. <<>> \o Tail(Ordered) = Tail(Ordered)
    BY <2>5, ConcatEmptySeq
  <2> QED
    BY <2>2, <2>3, <2>4, <2>5, <2>6
<1>14. Ordered' = Append(Tail(Ordered), Lru!Entry(p, d, c))
  BY <1>6, <1>9, <1>10, <1>11, <1>13 DEF Lru!Entry
<1>15. answer' = IF Head(Ordered).dirty THEN <<Head(Ordered).page, Head(Ordered).data>> ELSE Lru!Nothing
  <2>1. /\ Held(slab[old]).dirty = slab[old].dirty /\ Held(slab[old]).page = slab[old].page
        /\ Held(slab[old]).data = slab[old].data
    BY DEF Held
  <2> QED
    BY <1>2, <1>12, <1>13, <2>1 DEF Victim, Nothing, Lru!Nothing
<1> QED
  BY <1>4, <1>10, <1>11, <1>14, <1>15 DEF Lru!Replace

\* remove
LEMMA RemoveSteps ==
  ASSUME CacheInv, NEW p \in PageIds, CacheRemove(p)
  PROVE  CacheInv' /\ Lru!Remove(p)
<1>1. PICK s : Sound(List, vacant, slotOf, s)
  BY DEF CacheInv
<1>2. CASE p \in DOMAIN slotOf
  <2>1. /\ Becomes(Unlink(List, slotOf[p])) /\ answer' = Nothing
        /\ vacant' = Append(vacant, slotOf[p]) /\ slotOf' = Without(slotOf, p)
    BY <1>2 DEF CacheRemove, Vacated
  <2>2. PICK k \in 1 .. Len(s) :
            /\ s[k] = slotOf[p] /\ slab[s[k]].page = p
            /\ Lru!Place(p) = k /\ Ordered[k] = Held(slab[s[k]])
            /\ Lru!Others(p) = Drop(Ordered, k)
    BY <1>1, <1>2, LruPlaces
  <2> DEFINE l == Unlink(List, s[k])
             h == Drop(s, k)
  <2>3. List.slab = slab /\ Ordered = Content(List, s) /\ Lru!Holds(p)
    BY <1>1, <1>2, LruPlaces DEF List
  <2>4. /\ Sound(l, Append(vacant, s[k]), Without(slotOf, p), h)
        /\ Content(l, h) = Drop(Content(List, s), k)
    BY <1>1, <2>2, <2>3, RemoveSound
  <2>5. Becomes(l)
    BY <2>1, <2>2
  <2> HIDE DEF l, h
  <2>6. CacheInv' /\ Ordered' = Content(l, h)
    BY <2>1, <2>2, <2>4, <2>5, NewOrder
  <2> QED
    BY <2>1, <2>2, <2>3, <2>4, <2>6 DEF Lru!Remove, Lru!Nothing, Nothing
<1>3. CASE p \notin DOMAIN slotOf
  <2>1. answer' = Nothing /\ UNCHANGED <<slab, vacant, slotOf, ends>>
    BY <1>3 DEF CacheRemove
  <2>2. ~ Lru!Holds(p)
    BY <1>1, <1>3, LruPlaces
  <2>3. CacheInv' /\ Ordered' = Ordered
    BY <2>1, SameOrder
  <2> QED
    BY <2>1, <2>2, <2>3 DEF Lru!Remove, Lru!Nothing, Nothing
<1> QED
  BY <1>2, <1>3

\* new and clear
LEMMA EmptySound == Sound([slab |-> <<>>, ends |-> NoEnds], <<>>, <<>>, <<>>)
<1> DEFINE l == [slab |-> <<>>, ends |-> NoEnds]
<1>1. l \in Lists /\ l.slab = <<>> /\ l.ends = NoEnds /\ NoEnds.lru = NIL /\ NoEnds.mru = NIL
  BY DEF Lists, NoEnds, NIL
<1>2. /\ Len(<<>>) = 0 /\ \A S : <<>> \in Seq(S)
      /\ DOMAIN <<>> = {} /\ 1 .. 0 = {}
  OBVIOUS
<1>3. IsFiniteSet({}) /\ Cardinality({}) = 0
  BY FS_EmptySet
<1>4. 0 + 0 = 0 /\ 0 <= Limit
  BY LimitAssumption
<1> HIDE DEF l
<1>5. Chained(l, <<>>)
  BY <1>1, <1>2 DEF Chained
<1>6. Sound(l, <<>>, <<>>, <<>>)
  BY <1>1, <1>2, <1>3, <1>4, <1>5 DEF Sound
<1> QED
  BY <1>6 DEF l

LEMMA EmptyOrder == Content([slab |-> <<>>, ends |-> NoEnds], <<>>) = <<>>
  BY DEF Content

\* A new cache is sound and empty.
LEMMA InitSteps == CacheInit => CacheInv /\ Lru!LruInit
<1> SUFFICES ASSUME CacheInit PROVE CacheInv /\ Lru!LruInit
  OBVIOUS
<1> DEFINE l == [slab |-> <<>>, ends |-> NoEnds]
<1>1. List = l /\ vacant = <<>> /\ slotOf = <<>> /\ slab = l.slab /\ answer = Nothing
  BY DEF CacheInit, List
<1>2. Sound(l, <<>>, <<>>, <<>>) /\ Content(l, <<>>) = <<>>
  BY EmptySound, EmptyOrder
<1> HIDE DEF l
<1>3. Ordered = <<>>
  BY <1>1, <1>2, OrderIs DEF Ordered
<1>4. CacheInv
  BY <1>1, <1>2 DEF CacheInv
<1> QED
  BY <1>1, <1>3, <1>4 DEF Lru!LruInit, Lru!Nothing, Nothing

\* clear
LEMMA ClearSteps == CacheClear => CacheInv' /\ Lru!Clear
<1> SUFFICES ASSUME CacheClear PROVE CacheInv' /\ Lru!Clear
  OBVIOUS
<1> DEFINE l == [slab |-> <<>>, ends |-> NoEnds]
<1>1. Becomes(l) /\ vacant' = <<>> /\ slotOf' = <<>> /\ answer' = Nothing
  BY DEF CacheClear, Becomes
<1>2. Sound(l, <<>>, <<>>, <<>>) /\ Content(l, <<>>) = <<>>
  BY EmptySound, EmptyOrder
<1> HIDE DEF l
<1>3. CacheInv' /\ Ordered' = <<>>
  BY <1>1, <1>2, NewOrder
<1> QED
  BY <1>1, <1>3 DEF Lru!Clear, Lru!Nothing, Nothing

\* Every call keeps the frames sound and is a call of the abstract cache.
LEMMA CacheSteps ==
  CacheInv /\ [CacheNext]_cacheVars => CacheInv' /\ [Lru!LruNext]_<<Ordered, answer>>
<1> SUFFICES ASSUME CacheInv, [CacheNext]_cacheVars
             PROVE  CacheInv' /\ [Lru!LruNext]_<<Ordered, answer>>
  OBVIOUS
<1>1. CASE CacheClear
  BY <1>1, ClearSteps DEF Lru!LruNext
<1>2. ASSUME NEW p \in PageIds, CacheGet(p) PROVE CacheInv' /\ Lru!LruNext
  BY <1>2, GetSteps DEF Lru!LruNext
<1>3. ASSUME NEW p \in PageIds, CacheRemove(p) PROVE CacheInv' /\ Lru!LruNext
  BY <1>3, RemoveSteps DEF Lru!LruNext
<1>4. ASSUME NEW p \in PageIds, NEW put \in Puts[p],
             \/ CacheUpdate(p, put[1], put[2])
             \/ CacheInsert(p, put[1], put[2])
             \/ CacheReplace(p, put[1], put[2])
      PROVE  CacheInv' /\ Lru!LruNext
  <2>1. put[1] \in Data /\ put[2] \in BOOLEAN
    BY PutsAssumption DEF Data
  <2>2. CacheInv' /\ (Lru!Update(p, put[1], put[2]) \/ Lru!Insert(p, put[1], put[2]) \/ Lru!Replace(p, put[1], put[2]))
    BY <1>4, <2>1, UpdateSteps, InsertSteps, ReplaceSteps
  <2> QED
    BY <2>2 DEF Lru!LruNext
<1>5. CASE UNCHANGED cacheVars
  <2>1. CacheInv' /\ Ordered' = Ordered /\ answer' = answer
    BY <1>5, SameOrder DEF cacheVars
  <2> QED
    BY <2>1
<1> QED
  BY <1>1, <1>2, <1>3, <1>4, <1>5, Zenon DEF CacheNext

\* Sound frames lose no place: the vector stays within the capacity, and the links agree from both ends.
LEMMA SoundKeepsPlaces == CacheInv => PlacesKept
<1> SUFFICES ASSUME CacheInv PROVE PlacesKept
  OBVIOUS
<1>1. PICK s : Sound(List, vacant, slotOf, s)
  BY DEF CacheInv
<1>2. List.slab = slab /\ List.ends = ends
  BY DEF List
<1>3. Chained(List, s)
  BY <1>1, SoundPlaces
<1>4. Len(slab) <= Limit /\ Len(vacant) + Cardinality(DOMAIN slotOf) = Len(slab)
  BY <1>1, <1>2 DEF Sound
<1>5. ASSUME NEW p \in DOMAIN slotOf
      PROVE  LET f == slab[slotOf[p]]
             IN  /\ f.page = p
                 /\ IF f.next = NIL THEN ends.mru = slotOf[p] ELSE slab[f.next].prev = slotOf[p]
                 /\ IF f.prev = NIL THEN ends.lru = slotOf[p] ELSE slab[f.prev].next = slotOf[p]
  <2>1. PICK k \in 1 .. Len(s) : s[k] = slotOf[p] /\ slab[s[k]].page = p
    BY <1>1, <1>2 DEF Sound
  <2>2. Len(s) \in Nat /\ \A i \in 1 .. Len(s) : s[i] # NIL
    BY <1>3, ChainTypes
  <2>3. /\ ends.lru = s[1] /\ ends.mru = s[Len(s)]
        /\ \A i \in 1 .. Len(s) : /\ slab[s[i]].prev = IF i = 1 THEN NIL ELSE s[i - 1]
                                  /\ slab[s[i]].next = IF i = Len(s) THEN NIL ELSE s[i + 1]
    BY <1>2, <1>3, <2>2 DEF Chained
  <2>4. IF slab[s[k]].next = NIL THEN ends.mru = s[k] ELSE slab[slab[s[k]].next].prev = s[k]
    <3>1. CASE k = Len(s)
      BY <2>3, <3>1
    <3>2. CASE k # Len(s)
      <4>1. k + 1 \in 1 .. Len(s) /\ k + 1 # 1 /\ (k + 1) - 1 = k
        BY <2>2, <3>2
      <4>2. slab[s[k]].next = s[k + 1] /\ s[k + 1] # NIL
        BY <2>2, <2>3, <3>2, <4>1
      <4>3. slab[s[k + 1]].prev = s[k]
        BY <2>3, <4>1
      <4> QED
        BY <4>2, <4>3
    <3> QED
      BY <3>1, <3>2
  <2>5. IF slab[s[k]].prev = NIL THEN ends.lru = s[k] ELSE slab[slab[s[k]].prev].next = s[k]
    <3>1. CASE k = 1
      BY <2>3, <3>1
    <3>2. CASE k # 1
      <4>1. k - 1 \in 1 .. Len(s) /\ k - 1 # Len(s) /\ (k - 1) + 1 = k
        BY <2>2, <3>2
      <4>2. slab[s[k]].prev = s[k - 1] /\ s[k - 1] # NIL
        BY <2>2, <2>3, <3>2, <4>1
      <4>3. slab[s[k - 1]].next = s[k]
        BY <2>3, <4>1
      <4> QED
        BY <4>2, <4>3
    <3> QED
      BY <3>1, <3>2
  <2> QED
    BY <2>1, <2>4, <2>5
<1> QED
  BY <1>4, <1>5, Zenon DEF PlacesKept

-----------------------------------------------------------------------------
\* Theorems.

\* Every reachable cache is sound: one chain goes through the places of exactly the pages that the
\* index has, in both directions, and all other places are in the free list once (get, put,
\* remove, clear, evict_lru).
THEOREM CacheInvariant == CacheSpec => []CacheInv
<1>1. CacheInit => CacheInv
  BY InitSteps
<1>2. CacheInv /\ [CacheNext]_cacheVars => CacheInv'
  BY CacheSteps
<1> QED
  BY <1>1, <1>2, PTL DEF CacheSpec

\* No place of the vector is lost and none is above the capacity, and the links of a frame agree
\* with those of its neighbours, for any capacity and any pages (unlink, push_mru).
THEOREM NoPlaceLost == CacheSpec => []PlacesKept
  BY CacheInvariant, SoundKeepsPlaces, PTL

\* The linked frames implement the sequence of pages by last use: what is evicted is the page
\* unused for longest, whatever hits, updates and removals came before (get, put, remove, clear).
THEOREM CacheRefinement == CacheSpec => ImplementsLru
<1>1. CacheInit => Lru!LruInit
  BY InitSteps
<1>2. CacheInv /\ [CacheNext]_cacheVars => [Lru!LruNext]_<<Ordered, answer>>
  BY CacheSteps
<1> QED
  BY <1>1, <1>2, CacheInvariant, PTL DEF CacheSpec, ImplementsLru, Lru!LruSpec

-----------------------------------------------------------------------------
\* The page directories: places.

\* The place of the directory page of a logical page, and its place on that page.
At(l) == l \div PerPage

LEMMA Division ==
    /\ At(0) = 0
    /\ \A l \in Nat : At(l) \in Nat /\ EntryOf(l) \in 0 .. (PerPage - 1)
    /\ \A l \in Nat, m \in Nat : At(l) = At(m) /\ EntryOf(l) = EntryOf(m) => l = m
    /\ \A l \in Nat, m \in Nat : l <= m => At(l) <= At(m)
<1>1. PerPage \in Int /\ PerPage > 0
  BY PerPageAssumption
<1>2. ASSUME NEW l \in Int, NEW p \in Int, p > 0 PROVE l = p * (l \div p) + (l % p)
  BY <1>2, SMTT(30)
<1>3. At(0) = 0
  BY <1>1 DEF At
<1>4. ASSUME NEW l \in Nat PROVE At(l) \in Nat /\ EntryOf(l) \in 0 .. (PerPage - 1)
  BY <1>1 DEF At, EntryOf
<1>5. ASSUME NEW l \in Nat, NEW m \in Nat, At(l) = At(m), EntryOf(l) = EntryOf(m) PROVE l = m
  <2>1. l = PerPage * At(l) + EntryOf(l) /\ m = PerPage * At(m) + EntryOf(m)
    BY <1>1, <1>2 DEF At, EntryOf
  <2> QED
    BY <1>5, <2>1
<1>6. ASSUME NEW l \in Nat, NEW m \in Nat, l <= m PROVE At(l) <= At(m)
  BY <1>1, <1>6, SMTT(30) DEF At
<1> QED
  BY <1>3, <1>4, <1>5, <1>6

Directories == [root : Nat, len : Nat]
DirPages    == [link : Nat, entries : [0 .. (PerPage - 1) -> Nat]]
DataPages   == [data : DataKinds]
FilePages   == DataPages \cup DirPages

\* The pages s of a directory, in the order of their links.
ChainOf(f, root, s) ==
    /\ root = IF s = <<>> THEN UNMAPPED ELSE s[1]
    /\ \A i \in 1 .. Len(s) : /\ s[i] \in 1 .. Len(f) /\ f[s[i]] \in DirPages
                              /\ f[s[i]].link = IF i = Len(s) THEN UNMAPPED ELSE s[i + 1]

\* The walk along the links comes to the pages of the chain one by one.
LEMMA DirPageTakes ==
    ASSUME NEW dir, NEW s \in Seq(Nat), ChainOf(file, dir.root, s), NEW place \in Nat
    PROVE  DirPage(dir, place) = IF place < Len(s) THEN s[place + 1] ELSE UNMAPPED
<1> DEFINE g == [k \in 0 .. place |-> IF k < Len(s) THEN s[k + 1] ELSE UNMAPPED]
           Next(w, k) == IF k = 0 THEN dir.root
                         ELSE IF w[k - 1] = UNMAPPED THEN UNMAPPED ELSE file[w[k - 1]].link
           Walks(w) == w = [k \in 0 .. place |-> Next(w, k)]
<1>1. Len(s) \in Nat /\ (s = <<>> <=> Len(s) = 0) /\ \A i \in 1 .. Len(s) : s[i] # UNMAPPED
  BY DEF ChainOf, UNMAPPED
<1>2. ASSUME NEW k \in 0 .. place PROVE g[k] = Next(g, k)
  <2>1. CASE k = 0
    BY <1>1, <2>1 DEF ChainOf
  <2>2. CASE k # 0 /\ k - 1 < Len(s)
    <3>1. k - 1 \in 0 .. place /\ k \in 1 .. Len(s)
      BY <1>1, <2>2
    <3>2. g[k - 1] = s[k] /\ s[k] # UNMAPPED
      BY <1>1, <2>2, <3>1
    <3>3. file[s[k]].link = IF k = Len(s) THEN UNMAPPED ELSE s[k + 1]
      BY <3>1 DEF ChainOf
    <3>4. (k = Len(s)) <=> ~(k < Len(s))
      BY <1>1, <3>1
    <3> QED
      BY <2>2, <3>2, <3>3, <3>4
  <2>3. CASE k # 0 /\ ~(k - 1 < Len(s))
    <3>1. k - 1 \in 0 .. place /\ ~(k < Len(s))
      BY <1>1, <2>3
    <3> QED
      BY <2>3, <3>1
  <2> QED
    BY <2>1, <2>2, <2>3
<1>3. Walks(g)
  <2> DEFINE h == [k \in 0 .. place |-> Next(g, k)]
  <2>1. \A k \in 0 .. place : g[k] = h[k]
    BY <1>2
  <2> HIDE DEF Next
  <2> QED
    BY <2>1
<1> HIDE DEF g
<1>4. ASSUME NEW w, Walks(w) PROVE \A k \in 0 .. place : w[k] = g[k]
  <2> DEFINE S == {k \in Nat : k <= place => w[k] = g[k]}
  <2>1. \A k \in 0 .. place : w[k] = Next(w, k) /\ g[k] = Next(g, k)
    BY <1>2, <1>4
  <2>2. 0 \in S
    BY <2>1
  <2>3. ASSUME NEW k \in Nat, k \in S PROVE k + 1 \in S
    <3>1. CASE k + 1 <= place
      <4>1. k <= place /\ k + 1 \in 0 .. place /\ (k + 1) - 1 = k /\ k + 1 # 0
        BY <3>1
      <4>2. w[k + 1] = Next(w, k + 1) /\ g[k + 1] = Next(g, k + 1)
        BY <2>1, <4>1
      <4>3. w[(k + 1) - 1] = g[(k + 1) - 1]
        BY <2>3, <4>1
      <4> HIDE DEF S
      <4>4. Next(w, k + 1) = Next(g, k + 1)
        BY <4>1, <4>3
      <4>5. w[k + 1] = g[k + 1]
        BY <4>2, <4>4
      <4> QED
        BY <4>5 DEF S
    <3> QED
      BY <2>3, <3>1
  <2> HIDE DEF S
  <2>4. Nat \subseteq S
    BY <2>2, <2>3, SetInduction
  <2> QED
    BY <2>4 DEF S
<1> DEFINE W == CHOOSE w : Walks(w)
<1>5. Walks(W)
  <2> HIDE DEF Walks
  <2> QED
    BY <1>3
<1>6. DirPage(dir, place) = W[place]
  BY DEF DirPage
<1>7. W[place] = g[place]
  <2> HIDE DEF Walks, W
  <2> QED
    BY <1>4, <1>5
<1> QED
  BY <1>6, <1>7 DEF g

-----------------------------------------------------------------------------
\* The directories of all kinds on the pages of a file.

\* What a logical page is mapped to by the chain s.
EntryAt(f, s, l) == f[s[At(l) + 1]].entries[EntryOf(l)]

\* The first n logical pages are mapped to pages of their kind, no two to the same one.
Mapped(f, kind, s, n) ==
    /\ \A l \in 0 .. (n - 1) : /\ At(l) < Len(s) /\ EntryAt(f, s, l) \in 1 .. Len(f)
                               /\ f[EntryAt(f, s, l)] = [data |-> kind]
    /\ \A l, m \in 0 .. (n - 1) : EntryAt(f, s, l) = EntryAt(f, s, m) => l = m

\* No page is in two places of chains.
Apart(c) ==
    \A k, m \in DataKinds : \A i \in 1 .. Len(c[k]), j \in 1 .. Len(c[m]) : c[k][i] = c[m][j] => k = m /\ i = j

\* The directories d lie on the chains c.
LaidOut(f, d, c) ==
    /\ f \in Seq(FilePages)
    /\ d \in [DataKinds -> Directories] /\ c \in [DataKinds -> Seq(Nat)]
    /\ \A k \in DataKinds : ChainOf(f, d[k].root, c[k])
    /\ Apart(c)
    /\ \A k \in DataKinds : Mapped(f, k, c[k], d[k].len)

\* A page that is in no chain.
Loose(c, p) == \A k \in DataKinds : \A i \in 1 .. Len(c[k]) : c[k][i] # p

\* The entries of the logical pages that the directories d have are in both files the same.
SameEntries(f, g, d, b, c) ==
    \A k \in DataKinds : \A l \in 0 .. (d[k].len - 1) : EntryAt(g, c[k], l) = EntryAt(f, b[k], l)

LEMMA LaidTypes ==
    ASSUME NEW f, NEW d, NEW c, LaidOut(f, d, c), NEW k \in DataKinds
    PROVE  /\ Len(f) \in Nat /\ d[k] \in Directories /\ d[k].len \in Nat /\ c[k] \in Seq(Nat) /\ Len(c[k]) \in Nat
           /\ ChainOf(f, d[k].root, c[k]) /\ Mapped(f, k, c[k], d[k].len)
           /\ \A l \in 0 .. (d[k].len - 1) : At(l) + 1 \in 1 .. Len(c[k]) /\ At(l) \in Nat
<1>1. /\ Len(f) \in Nat /\ d[k] \in Directories /\ c[k] \in Seq(Nat) /\ Len(c[k]) \in Nat
      /\ ChainOf(f, d[k].root, c[k]) /\ Mapped(f, k, c[k], d[k].len)
  BY DEF LaidOut
<1>2. d[k].len \in Nat
  BY <1>1 DEF Directories
<1>3. ASSUME NEW l \in 0 .. (d[k].len - 1) PROVE At(l) + 1 \in 1 .. Len(c[k]) /\ At(l) \in Nat
  <2>1. At(l) < Len(c[k])
    BY <1>1 DEF Mapped
  <2>2. At(l) \in Nat
    BY <1>2, Division
  <2> QED
    BY <1>1, <2>1, <2>2
<1> QED
  BY <1>1, <1>2, <1>3

\* What one chain maps in one file, another maps in another that has the same entries.
LEMMA MappedAlso ==
    ASSUME NEW f, NEW g, NEW k, NEW s, NEW t, NEW n, Mapped(f, k, s, n),
           \A l \in 0 .. (n - 1) : /\ EntryAt(g, t, l) = EntryAt(f, s, l) /\ At(l) < Len(t)
                                   /\ EntryAt(f, s, l) \in 1 .. Len(g) /\ g[EntryAt(f, s, l)] = [data |-> k]
    PROVE  Mapped(g, k, t, n)
<1>1. \A l \in 0 .. (n - 1) : /\ At(l) < Len(t) /\ EntryAt(g, t, l) \in 1 .. Len(g)
                              /\ g[EntryAt(g, t, l)] = [data |-> k]
  BY Zenon
<1>2. ASSUME NEW l \in 0 .. (n - 1), NEW m \in 0 .. (n - 1), EntryAt(g, t, l) = EntryAt(g, t, m) PROVE l = m
  <2>1. EntryAt(f, s, l) = EntryAt(f, s, m)
    BY <1>2, Zenon
  <2> QED
    BY <2>1 DEF Mapped
<1> QED
  BY <1>1, <1>2 DEF Mapped

\* The file g is f with one page more.
Appended(g, f, page) == g = Append(f, page)

\* A page at the end of the file changes nothing.
LEMMA GrowLaid ==
    ASSUME NEW f, NEW d, NEW c, LaidOut(f, d, c), NEW page \in FilePages, NEW g, Appended(g, f, page)
    PROVE  /\ LaidOut(g, d, c) /\ SameEntries(f, g, d, c, c) /\ Loose(c, Len(g))
           /\ Len(g) = Len(f) + 1 /\ g[Len(g)] = page /\ \A p \in 1 .. Len(f) : g[p] = f[p]
<1>1. /\ Len(f) \in Nat /\ g \in Seq(FilePages)
      /\ Len(g) = Len(f) + 1 /\ g[Len(g)] = page /\ \A p \in 1 .. Len(f) : g[p] = f[p]
  BY DEF LaidOut, Appended
<1>2. ASSUME NEW k \in DataKinds PROVE ChainOf(g, d[k].root, c[k]) /\ \A i \in 1 .. Len(c[k]) : c[k][i] \in 1 .. Len(f)
  <2>1. ChainOf(f, d[k].root, c[k])
    BY LaidTypes
  <2>2. ASSUME NEW i \in 1 .. Len(c[k]) PROVE c[k][i] \in 1 .. Len(f) /\ c[k][i] \in 1 .. Len(g) /\ g[c[k][i]] = f[c[k][i]]
    BY <1>1, <2>1 DEF ChainOf
  <2> QED
    BY <2>1, <2>2 DEF ChainOf
<1>3. ASSUME NEW k \in DataKinds, NEW l \in 0 .. (d[k].len - 1)
      PROVE  /\ EntryAt(g, c[k], l) = EntryAt(f, c[k], l) /\ EntryAt(f, c[k], l) \in 1 .. Len(f)
             /\ g[EntryAt(f, c[k], l)] = [data |-> k] /\ At(l) < Len(c[k])
             /\ EntryAt(g, c[k], l) \in 1 .. Len(g)
  <2>1. At(l) + 1 \in 1 .. Len(c[k]) /\ Mapped(f, k, c[k], d[k].len)
    BY LaidTypes
  <2>2. g[c[k][At(l) + 1]] = f[c[k][At(l) + 1]]
    BY <1>1, <1>2, <2>1
  <2>3. /\ EntryAt(f, c[k], l) \in 1 .. Len(f) /\ f[EntryAt(f, c[k], l)] = [data |-> k]
        /\ At(l) < Len(c[k])
    BY <2>1 DEF Mapped
  <2>4. EntryAt(g, c[k], l) = EntryAt(f, c[k], l)
    BY <2>2 DEF EntryAt
  <2> QED
    BY <1>1, <2>3, <2>4
<1>4. ASSUME NEW k \in DataKinds PROVE Mapped(g, k, c[k], d[k].len)
  <2>1. Mapped(f, k, c[k], d[k].len)
    BY LaidTypes
  <2> QED
    BY <1>3, <2>1 DEF Mapped
<1>5. LaidOut(g, d, c)
  BY <1>1, <1>2, <1>4 DEF LaidOut
<1>6. Loose(c, Len(g))
  BY <1>1, <1>2 DEF Loose
<1> QED
  BY <1>1, <1>3, <1>5, <1>6 DEF SameEntries

\* A directory without pages is empty, and one without a root has no pages.
LEMMA NoRoot ==
    ASSUME NEW f, NEW d, NEW c, LaidOut(f, d, c), NEW k \in DataKinds
    PROVE  /\ d[k].root = UNMAPPED <=> c[k] = <<>>
           /\ d[k].root = UNMAPPED => d[k].len = 0
           /\ c[k] # <<>> => Len(c[k]) > 0 /\ c[k][1] = d[k].root
<1>1. /\ Len(f) \in Nat /\ d[k].len \in Nat /\ c[k] \in Seq(Nat) /\ ChainOf(f, d[k].root, c[k])
      /\ \A l \in 0 .. (d[k].len - 1) : At(l) + 1 \in 1 .. Len(c[k])
  BY LaidTypes
<1>2. (c[k] # <<>> => Len(c[k]) > 0 /\ c[k][1] = d[k].root /\ c[k][1] # 0) /\ (c[k] = <<>> => d[k].root = 0 /\ Len(c[k]) = 0)
  BY <1>1 DEF ChainOf, UNMAPPED
<1>3. c[k] = <<>> => d[k].len = 0
  BY <1>1, <1>2
<1> QED
  BY <1>2, <1>3 DEF UNMAPPED

\* A directory gets its first page.
LEMMA RootLaid ==
    ASSUME NEW f, NEW d, NEW c, LaidOut(f, d, c), NEW k \in DataKinds, d[k].root = UNMAPPED,
           NEW p \in 1 .. Len(f), f[p] \in DirPages, f[p].link = UNMAPPED, Loose(c, p),
           NEW e, e = [d EXCEPT ![k].root = p], NEW b, b = [c EXCEPT ![k] = <<p>>]
    PROVE  LaidOut(f, e, b)
<1>1. /\ c[k] = <<>> /\ d[k].len = 0 /\ Len(f) \in Nat
      /\ d \in [DataKinds -> Directories] /\ c \in [DataKinds -> Seq(Nat)]
  <2>1. c[k] = <<>> /\ d[k].len = 0 /\ Len(f) \in Nat
    BY NoRoot, LaidTypes
  <2> QED
    BY <2>1 DEF LaidOut
<1>2. /\ e \in [DataKinds -> Directories] /\ e[k].root = p /\ e[k].len = 0 /\ \A m \in DataKinds : m # k => e[m] = d[m]
  BY <1>1 DEF Directories
<1>3. /\ b \in [DataKinds -> Seq(Nat)] /\ b[k] = <<p>> /\ \A m \in DataKinds : m # k => b[m] = c[m]
  BY <1>1
<1>4. ASSUME NEW m \in DataKinds PROVE ChainOf(f, e[m].root, b[m]) /\ Mapped(f, m, b[m], e[m].len)
  <2>1. CASE m = k
    <3>1. b[m] = <<p>> /\ e[m].root = p /\ e[m].len = 0 /\ Len(<<p>>) = 1 /\ <<p>>[1] = p /\ <<p>> # <<>>
      BY <1>2, <1>3, <2>1
    <3>2. ChainOf(f, p, <<p>>)
      BY <3>1 DEF ChainOf
    <3>3. Mapped(f, m, <<p>>, 0)
      BY DEF Mapped
    <3> QED
      BY <3>1, <3>2, <3>3
  <2>2. CASE m # k
    BY <1>2, <1>3, <2>2, LaidTypes
  <2> QED
    BY <2>1, <2>2
<1>5. Apart(b)
  <2> SUFFICES ASSUME NEW m \in DataKinds, NEW n \in DataKinds, NEW i \in 1 .. Len(b[m]), NEW j \in 1 .. Len(b[n]), b[m][i] = b[n][j]
               PROVE  m = n /\ i = j
    BY DEF Apart
  <2>1. \A q \in DataKinds : q # k => b[q] = c[q] /\ \A x \in 1 .. Len(b[q]) : b[q][x] # p
    BY <1>3 DEF Loose
  <2>2. \A x \in 1 .. Len(b[k]) : x = 1 /\ b[k][x] = p
    BY <1>3
  <2>3. CASE m = k \/ n = k
    BY <2>1, <2>2, <2>3
  <2>4. CASE m # k /\ n # k
    <3>1. Apart(c)
      BY DEF LaidOut
    <3> QED
      BY <2>1, <2>4, <3>1 DEF Apart
  <2> QED
    BY <2>3, <2>4
<1> QED
  BY <1>2, <1>3, <1>4, <1>5 DEF LaidOut

\* A directory page with another link.
LEMMA NewLink ==
    ASSUME NEW page \in DirPages, NEW p \in Nat
    PROVE  LinkedTo(page, p) \in DirPages /\ LinkedTo(page, p).link = p /\ LinkedTo(page, p).entries = page.entries
  BY DEF LinkedTo, DirPages

\* A directory page with another entry.
WithEntryAt(page, i, p) == [page EXCEPT !.entries = [@ EXCEPT ![i] = p]]

\* In the file g the page q has a link to p; in the chains b that of k goes on with p.
Linked(g, f, q, p)   == g = [f EXCEPT ![q] = LinkedTo(@, p)]
Extended(b, c, k, p) == b = [c EXCEPT ![k] = Append(@, p)]

\* The last page of a chain gets a link to a new one.
LEMMA LinkLaid ==
    ASSUME NEW f, NEW d, NEW c, LaidOut(f, d, c), NEW k \in DataKinds, c[k] # <<>>,
           NEW p \in 1 .. Len(f), f[p] \in DirPages, f[p].link = UNMAPPED, Loose(c, p),
           NEW q, q = c[k][Len(c[k])],
           NEW g, Linked(g, f, q, p), NEW b, Extended(b, c, k, p)
    PROVE  /\ LaidOut(g, d, b) /\ SameEntries(f, g, d, c, b)
           /\ Len(g) = Len(f) /\ \A x \in 1 .. Len(f) : f[x] \notin DirPages => g[x] = f[x]
<1> DEFINE n == Len(c[k])
<1>1. /\ n \in Nat /\ n > 0 /\ Len(f) \in Nat /\ f \in Seq(FilePages)
      /\ d \in [DataKinds -> Directories] /\ c \in [DataKinds -> Seq(Nat)]
  <2>1. n \in Nat /\ n > 0 /\ Len(f) \in Nat
    BY NoRoot, LaidTypes
  <2> QED
    BY <2>1 DEF LaidOut
<1>2. \A m \in DataKinds : \A i \in 1 .. Len(c[m]) :
          c[m][i] \in 1 .. Len(f) /\ f[c[m][i]] \in DirPages /\ c[m][i] # p
  BY LaidTypes DEF ChainOf, Loose
<1>3. q \in 1 .. Len(f) /\ f[q] \in DirPages /\ q # p
  <2>1. q = c[k][n] /\ n \in 1 .. n
    BY <1>1
  <2> HIDE DEF n
  <2>2. \A i \in 1 .. n : c[k][i] \in 1 .. Len(f) /\ f[c[k][i]] \in DirPages /\ c[k][i] # p
    BY <1>2 DEF n
  <2>3. c[k][n] \in 1 .. Len(f) /\ f[c[k][n]] \in DirPages /\ c[k][n] # p
    BY <2>1, <2>2, Zenon
  <2> QED
    BY <2>1, <2>3
<1>4. /\ LinkedTo(f[q], p) \in DirPages /\ LinkedTo(f[q], p).link = p /\ LinkedTo(f[q], p).entries = f[q].entries
  <2>1. p \in Nat
    BY <1>1
  <2>2. f[q] \in DirPages
    BY <1>3
  <2> QED
    BY <2>1, <2>2, NewLink
<1>5. /\ g \in Seq(FilePages) /\ Len(g) = Len(f)
      /\ \A x \in 1 .. Len(f) : g[x] = IF x = q THEN LinkedTo(f[q], p) ELSE f[x]
  BY <1>1, <1>3, <1>4 DEF FilePages, Linked
<1>6. \A x \in 1 .. Len(f) : /\ f[x] \in DirPages => g[x] \in DirPages /\ g[x].entries = f[x].entries
                             /\ g[x].link = IF x = q THEN p ELSE f[x].link
                             /\ f[x] \notin DirPages => g[x] = f[x]
  BY <1>3, <1>4, <1>5
<1>7. /\ b \in [DataKinds -> Seq(Nat)] /\ \A m \in DataKinds : m # k => b[m] = c[m]
      /\ b[k] = Append(c[k], p) /\ Len(b[k]) = n + 1 /\ b[k][n + 1] = p
      /\ \A i \in 1 .. n : b[k][i] = c[k][i]
  <2>1. p \in Nat /\ c[k] \in Seq(Nat)
    BY <1>1
  <2> DEFINE s == Append(c[k], p)
  <2>2. s \in Seq(Nat) /\ Len(s) = n + 1 /\ s[n + 1] = p /\ \A i \in 1 .. n : s[i] = c[k][i]
    BY <2>1
  <2>3. b = [c EXCEPT ![k] = s]
    BY DEF Extended
  <2> HIDE DEF s, n
  <2>4. b \in [DataKinds -> Seq(Nat)] /\ b[k] = s /\ \A m \in DataKinds : m # k => b[m] = c[m]
    BY <1>1, <2>2, <2>3
  <2> QED
    BY <2>2, <2>4 DEF s
<1>8. \A m \in DataKinds : \A i \in 1 .. Len(c[m]) : i \in 1 .. Len(b[m]) /\ b[m][i] = c[m][i]
  <2> SUFFICES ASSUME NEW m \in DataKinds, NEW i \in 1 .. Len(c[m]) PROVE i \in 1 .. Len(b[m]) /\ b[m][i] = c[m][i]
    OBVIOUS
  <2>1. CASE m = k
    <3>1. i \in 1 .. n /\ i \in 1 .. (n + 1)
      BY <1>1, <2>1
    <3> QED
      BY <1>7, <2>1, <3>1
  <2>2. CASE m # k
    BY <1>7, <2>2
  <2> QED
    BY <2>1, <2>2
<1>9. Apart(c)
  BY DEF LaidOut
<1>10. \A m \in DataKinds : \A i \in 1 .. Len(c[m]) : c[m][i] = q <=> m = k /\ i = n
  <2> SUFFICES ASSUME NEW m \in DataKinds, NEW i \in 1 .. Len(c[m]) PROVE c[m][i] = q <=> m = k /\ i = n
    OBVIOUS
  <2>1. n \in 1 .. Len(c[k]) /\ q = c[k][n]
    BY <1>1
  <2>2. c[m][i] = c[k][n] => m = k /\ i = n
    <3> HIDE DEF n
    <3> QED
      BY <2>1, <1>9 DEF Apart
  <2> QED
    BY <2>1, <2>2
<1>11. \A m \in DataKinds : \A i \in 1 .. Len(b[m]) : i \in 1 .. Len(c[m]) \/ (m = k /\ i = n + 1)
  <2> SUFFICES ASSUME NEW m \in DataKinds, NEW i \in 1 .. Len(b[m]) PROVE i \in 1 .. Len(c[m]) \/ (m = k /\ i = n + 1)
    OBVIOUS
  <2>1. CASE m = k
    <3>1. i \in 1 .. (n + 1) /\ n \in Nat
      BY <2>1, <1>1, <1>7
    <3>2. i \in 1 .. n \/ i = n + 1
      <4> HIDE DEF n
      <4> QED
        BY <3>1
    <3> QED
      BY <2>1, <3>2
  <2>2. CASE m # k
    BY <2>2, <1>7
  <2> QED
    BY <2>1, <2>2
<1> HIDE DEF n
<1>12. ASSUME NEW m \in DataKinds PROVE ChainOf(g, d[m].root, b[m])
  <2>1. ChainOf(f, d[m].root, c[m]) /\ Len(c[m]) \in Nat
    BY LaidTypes
  <2>2. d[m].root = IF b[m] = <<>> THEN UNMAPPED ELSE b[m][1]
    <3>1. CASE m = k
      <4>1. b[m] # <<>> /\ b[m][1] = c[k][1] /\ d[k].root = c[k][1]
        <5>1. c[k][1] = d[k].root
          BY NoRoot
        <5>2. 1 \in 1 .. n /\ 1 \in 1 .. Len(b[k])
          BY <1>1, <1>7
        <5> QED
          BY <1>7, <3>1, <5>1, <5>2
      <4> QED
        BY <3>1, <4>1
    <3>2. CASE m # k
      BY <1>7, <2>1, <3>2 DEF ChainOf
    <3> QED
      BY <3>1, <3>2
  <2>3. ASSUME NEW i \in 1 .. Len(b[m])
        PROVE  /\ b[m][i] \in 1 .. Len(g) /\ g[b[m][i]] \in DirPages
               /\ g[b[m][i]].link = IF i = Len(b[m]) THEN UNMAPPED ELSE b[m][i + 1]
    <3>1. CASE m = k /\ i = n + 1
      BY <1>3, <1>5, <1>7, <3>1
    <3>2. CASE m = k /\ i = n
      <4>1. b[m][i] = q /\ b[m][i + 1] = p /\ i # Len(b[m])
        BY <1>1, <1>7, <3>2 DEF n
      <4> QED
        BY <1>3, <1>4, <1>5, <4>1
    <3>3. CASE i \in 1 .. Len(c[m]) /\ ~(m = k /\ i = n)
      <4>1. c[m][i] # q /\ c[m][i] \in 1 .. Len(f) /\ f[c[m][i]] \in DirPages
        BY <1>2, <1>10, <3>3
      <4>2. b[m][i] = c[m][i] /\ f[c[m][i]].link = IF i = Len(c[m]) THEN UNMAPPED ELSE c[m][i + 1]
        BY <1>8, <2>1, <3>3 DEF ChainOf
      <4>3. (IF i = Len(b[m]) THEN UNMAPPED ELSE b[m][i + 1]) = IF i = Len(c[m]) THEN UNMAPPED ELSE c[m][i + 1]
        <5>1. CASE m = k
          <6>1. i # n /\ Len(c[m]) = n /\ i + 1 \in 1 .. n /\ i # n + 1
            BY <1>1, <3>3, <5>1 DEF n
          <6> QED
            BY <1>7, <5>1, <6>1
        <5>2. CASE m # k
          BY <1>7, <5>2
        <5> QED
          BY <5>1, <5>2
      <4> QED
        BY <1>5, <4>1, <4>2, <4>3
    <3> QED
      BY <1>11, <3>1, <3>2, <3>3
  <2> QED
    BY <2>2, <2>3 DEF ChainOf
<1>13. Apart(b)
  <2> SUFFICES ASSUME NEW m \in DataKinds, NEW o \in DataKinds, NEW i \in 1 .. Len(b[m]), NEW j \in 1 .. Len(b[o]), b[m][i] = b[o][j]
               PROVE  m = o /\ i = j
    BY DEF Apart
  <2>1. CASE i \in 1 .. Len(c[m]) /\ j \in 1 .. Len(c[o])
    <3>1. c[m][i] = c[o][j]
      BY <1>8, <2>1
    <3> QED
      BY <1>9, <2>1, <3>1 DEF Apart
  <2>2. CASE i \in 1 .. Len(c[m]) /\ o = k /\ j = n + 1
    <3>1. b[m][i] = c[m][i] /\ c[m][i] # p
      BY <1>2, <1>8, <2>2
    <3>2. b[o][j] = p
      BY <1>7, <2>2
    <3> QED
      BY <3>1, <3>2
  <2>3. CASE m = k /\ i = n + 1 /\ j \in 1 .. Len(c[o])
    <3>1. b[o][j] = c[o][j] /\ c[o][j] # p
      BY <1>2, <1>8, <2>3
    <3>2. b[m][i] = p
      BY <1>7, <2>3
    <3> QED
      BY <3>1, <3>2
  <2> QED
    BY <1>11, <2>1, <2>2, <2>3
<1>14. ASSUME NEW m \in DataKinds, NEW l \in 0 .. (d[m].len - 1)
       PROVE  /\ EntryAt(g, b[m], l) = EntryAt(f, c[m], l) /\ At(l) < Len(b[m])
              /\ EntryAt(f, c[m], l) \in 1 .. Len(f) /\ g[EntryAt(f, c[m], l)] = [data |-> m]
  <2>1. At(l) + 1 \in 1 .. Len(c[m]) /\ At(l) \in Nat /\ Mapped(f, m, c[m], d[m].len)
    BY LaidTypes
  <2>2. b[m][At(l) + 1] = c[m][At(l) + 1] /\ At(l) + 1 \in 1 .. Len(b[m])
    BY <1>8, <2>1
  <2>3. EntryAt(g, b[m], l) = EntryAt(f, c[m], l)
    BY <1>2, <1>6, <2>1, <2>2 DEF EntryAt
  <2>4. EntryAt(f, c[m], l) \in 1 .. Len(f) /\ f[EntryAt(f, c[m], l)] = [data |-> m]
    BY <2>1 DEF Mapped
  <2>5. [data |-> m] \notin DirPages
    BY DEF DirPages
  <2>6. At(l) < Len(b[m])
    BY <1>1, <1>7, <2>1, <2>2
  <2> QED
    BY <1>6, <2>3, <2>4, <2>5, <2>6
<1>15. ASSUME NEW m \in DataKinds PROVE Mapped(g, m, b[m], d[m].len)
  <2>1. Mapped(f, m, c[m], d[m].len)
    BY LaidTypes
  <2>2. \A l \in 0 .. (d[m].len - 1) :
            /\ EntryAt(g, b[m], l) = EntryAt(f, c[m], l) /\ At(l) < Len(b[m])
            /\ EntryAt(f, c[m], l) \in 1 .. Len(g) /\ g[EntryAt(f, c[m], l)] = [data |-> m]
    BY <1>5, <1>14
  <2> QED
    BY <2>1, <2>2, MappedAlso, Zenon
<1>16. LaidOut(g, d, b)
  BY <1>1, <1>5, <1>7, <1>12, <1>13, <1>15 DEF LaidOut
<1> QED
  BY <1>5, <1>6, <1>14, <1>16 DEF SameEntries

\* In the file g the page q has the entry i for p; of the directories e that of k has n pages.
MapsTo(g, f, q, i, p) == g = [f EXCEPT ![q] = WithEntryAt(@, i, p)]
WithLen(e, d, k, n)   == e = [d EXCEPT ![k].len = n]

\* The entry n is p, a page of kind k in a file of length len; none of the first n entries is p.
EntryIs(f, s, n, p, k, len) == EntryAt(f, s, n) = p /\ f[p] = [data |-> k] /\ Len(f) = len
NotMapped(f, s, n, p) == \A l \in 0 .. (n - 1) : EntryAt(f, s, l) # p

\* The page behind the last is mapped.
LEMMA MapLaid ==
    ASSUME NEW f, NEW d, NEW c, LaidOut(f, d, c), NEW k \in DataKinds,
           NEW n, n = d[k].len, At(n) < Len(c[k]),
           NEW p \in 1 .. Len(f), f[p] = [data |-> k], NotMapped(f, c[k], n, p),
           NEW q, q = c[k][At(n) + 1],
           NEW g, MapsTo(g, f, q, EntryOf(n), p), NEW e, WithLen(e, d, k, n + 1)
    PROVE  /\ LaidOut(g, e, c) /\ SameEntries(f, g, d, c, c) /\ EntryIs(g, c[k], n, p, k, Len(f))
<1>1. /\ n \in Nat /\ Len(f) \in Nat /\ f \in Seq(FilePages)
      /\ d \in [DataKinds -> Directories] /\ c \in [DataKinds -> Seq(Nat)]
  <2>1. n \in Nat /\ Len(f) \in Nat
    BY LaidTypes
  <2> QED
    BY <2>1 DEF LaidOut
<1>2. At(n) \in Nat /\ EntryOf(n) \in 0 .. (PerPage - 1) /\ At(n) + 1 \in 1 .. Len(c[k])
  <2>1. At(n) \in Nat /\ EntryOf(n) \in 0 .. (PerPage - 1)
    BY <1>1, Division
  <2>2. Len(c[k]) \in Nat
    BY LaidTypes
  <2> QED
    BY <2>1, <2>2
<1>3. \A m \in DataKinds : \A i \in 1 .. Len(c[m]) : c[m][i] \in 1 .. Len(f) /\ f[c[m][i]] \in DirPages
  BY LaidTypes DEF ChainOf
<1>4. q \in 1 .. Len(f) /\ f[q] \in DirPages
  BY <1>2, <1>3
<1>5. PICK page : page = WithEntryAt(f[q], EntryOf(n), p)
  OBVIOUS
<1>6. /\ page \in DirPages /\ page.link = f[q].link /\ page.entries[EntryOf(n)] = p
      /\ \A j \in 0 .. (PerPage - 1) : j # EntryOf(n) => page.entries[j] = f[q].entries[j]
  <2>1. PICK x \in DirPages, i \in 0 .. (PerPage - 1) : x = f[q] /\ i = EntryOf(n)
    BY <1>2, <1>4
  <2>2. page = WithEntryAt(x, i, p) /\ p \in Nat
    BY <1>1, <1>5, <2>1
  <2>3. /\ page \in DirPages /\ page.link = x.link /\ page.entries[i] = p
        /\ \A j \in 0 .. (PerPage - 1) : j # i => page.entries[j] = x.entries[j]
    BY <2>2 DEF WithEntryAt, DirPages
  <2> QED
    BY <2>1, <2>3
<1>7. /\ g \in Seq(FilePages) /\ Len(g) = Len(f)
      /\ \A x \in 1 .. Len(f) : g[x] = IF x = q THEN page ELSE f[x]
  <2>1. g = [f EXCEPT ![q] = page]
    BY <1>5 DEF MapsTo
  <2> QED
    BY <1>1, <1>4, <1>6, <2>1 DEF FilePages
<1>8. \A x \in 1 .. Len(f) : /\ f[x] \in DirPages => g[x] \in DirPages /\ g[x].link = f[x].link
                             /\ f[x] \notin DirPages => g[x] = f[x]
  <2>1. ASSUME NEW x \in 1 .. Len(f), f[x] \in DirPages PROVE g[x] \in DirPages /\ g[x].link = f[x].link
    BY <1>6, <1>7, <2>1
  <2>2. ASSUME NEW x \in 1 .. Len(f), f[x] \notin DirPages PROVE g[x] = f[x]
    BY <1>4, <1>7, <2>2
  <2> QED
    BY <2>1, <2>2, Zenon
<1>9. /\ e \in [DataKinds -> Directories] /\ e[k].len = n + 1 /\ e[k].root = d[k].root
      /\ \A m \in DataKinds : m # k => e[m] = d[m]
  <2>1. d[k] \in Directories /\ n + 1 \in Nat
    BY <1>1
  <2> DEFINE x == [d[k] EXCEPT !.len = n + 1]
  <2>2. x \in Directories /\ x.len = n + 1 /\ x.root = d[k].root
    BY <2>1 DEF Directories
  <2>3. e = [d EXCEPT ![k] = x]
    BY DEF WithLen
  <2> HIDE DEF x
  <2> QED
    BY <1>1, <2>2, <2>3
<1>10. ASSUME NEW m \in DataKinds PROVE ChainOf(g, e[m].root, c[m])
  <2>1. ChainOf(f, d[m].root, c[m]) /\ e[m].root = d[m].root
    BY <1>9, LaidTypes
  <2> QED
    BY <1>7, <1>8, <2>1 DEF ChainOf
<1>11. Apart(c)
  BY DEF LaidOut
<1>12. ASSUME NEW m \in DataKinds, NEW l \in 0 .. (d[m].len - 1)
       PROVE  /\ EntryAt(g, c[m], l) = EntryAt(f, c[m], l) /\ At(l) < Len(c[m])
              /\ EntryAt(f, c[m], l) \in 1 .. Len(f) /\ g[EntryAt(f, c[m], l)] = [data |-> m]
  <2>1. At(l) + 1 \in 1 .. Len(c[m]) /\ At(l) \in Nat /\ Mapped(f, m, c[m], d[m].len) /\ d[m].len \in Nat
    BY LaidTypes
  <2>2. EntryOf(l) \in 0 .. (PerPage - 1) /\ l \in Nat
    BY <2>1, Division
  <2>3. c[m][At(l) + 1] \in 1 .. Len(f)
    BY <1>3, <2>1
  <2>4. EntryAt(g, c[m], l) = EntryAt(f, c[m], l)
    <3>1. CASE c[m][At(l) + 1] # q
      <4>1. g[c[m][At(l) + 1]] = f[c[m][At(l) + 1]]
        BY <1>7, <2>3, <3>1
      <4> QED
        BY <4>1 DEF EntryAt
    <3>2. CASE c[m][At(l) + 1] = q
      <4>1. m = k /\ At(l) + 1 = At(n) + 1
        <5>1. /\ At(l) + 1 \in 1 .. Len(c[m]) /\ At(n) + 1 \in 1 .. Len(c[k])
              /\ c[m][At(l) + 1] = c[k][At(n) + 1]
          BY <1>2, <2>1, <3>2
        <5>2. \A i \in 1 .. Len(c[m]), j \in 1 .. Len(c[k]) : c[m][i] = c[k][j] => m = k /\ i = j
          BY <1>11, Zenon DEF Apart
        <5> QED
          BY <5>1, <5>2
      <4>2. At(l) = At(n) /\ l # n
        <5>1. At(l) \in Nat /\ At(n) \in Nat /\ l \in 0 .. (n - 1) /\ n \in Nat
          BY <1>1, <1>2, <2>1, <4>1
        <5>2. l # n
          BY <5>1
        <5>3. At(l) = At(n)
          BY <4>1, <5>1
        <5> QED
          BY <5>2, <5>3
      <4>3. EntryOf(l) # EntryOf(n)
        BY <1>1, <2>2, <4>2, Division
      <4>4. g[q] = page /\ q \in 1 .. Len(f)
        BY <1>7, <2>3, <3>2
      <4>5. page.entries[EntryOf(l)] = f[q].entries[EntryOf(l)]
        BY <1>6, <2>2, <4>3
      <4> QED
        BY <3>2, <4>4, <4>5 DEF EntryAt
    <3> QED
      BY <3>1, <3>2
  <2>5. EntryAt(f, c[m], l) \in 1 .. Len(f) /\ f[EntryAt(f, c[m], l)] = [data |-> m] /\ At(l) < Len(c[m])
    BY <2>1 DEF Mapped
  <2>6. [data |-> m] \notin DirPages
    BY DEF DirPages
  <2> QED
    BY <1>8, <2>4, <2>5, <2>6
<1>13. EntryAt(g, c[k], n) = p /\ g[p] = [data |-> k]
  <2>1. [data |-> k] \notin DirPages
    BY DEF DirPages
  <2>2. g[p] = [data |-> k]
    BY <1>8, <2>1
  <2> QED
    BY <1>2, <1>4, <1>6, <1>7, <2>2 DEF EntryAt
<1>14. ASSUME NEW m \in DataKinds PROVE Mapped(g, m, c[m], e[m].len)
  <2>1. Mapped(f, m, c[m], d[m].len)
    BY LaidTypes
  <2>2. CASE m # k
    <3>1. e[m].len = d[m].len
      BY <1>9, <2>2
    <3>2. \A l \in 0 .. (d[m].len - 1) :
              /\ EntryAt(g, c[m], l) = EntryAt(f, c[m], l) /\ At(l) < Len(c[m])
              /\ EntryAt(f, c[m], l) \in 1 .. Len(g) /\ g[EntryAt(f, c[m], l)] = [data |-> m]
      BY <1>7, <1>12
    <3>3. Mapped(g, m, c[m], d[m].len)
      <4>1. \A l \in 0 .. (d[m].len - 1) : /\ At(l) < Len(c[m]) /\ EntryAt(g, c[m], l) \in 1 .. Len(g)
                                           /\ g[EntryAt(g, c[m], l)] = [data |-> m]
        BY <3>2, Zenon
      <4>2. ASSUME NEW l \in 0 .. (d[m].len - 1), NEW o \in 0 .. (d[m].len - 1), EntryAt(g, c[m], l) = EntryAt(g, c[m], o)
            PROVE  l = o
        <5>1. EntryAt(f, c[m], l) = EntryAt(f, c[m], o)
          BY <3>2, <4>2, Zenon
        <5> QED
          BY <2>1, <5>1 DEF Mapped
      <4> QED
        BY <4>1, <4>2 DEF Mapped
    <3> QED
      BY <3>1, <3>3
  <2>3. CASE m = k
    <3>1. \A l \in 0 .. (e[m].len - 1) : l \in 0 .. (d[m].len - 1) \/ l = n
      BY <1>1, <1>9, <2>3
    <3>2. \A l \in 0 .. (e[m].len - 1) : /\ At(l) < Len(c[m]) /\ EntryAt(g, c[m], l) \in 1 .. Len(g)
                                         /\ g[EntryAt(g, c[m], l)] = [data |-> m]
      <4> SUFFICES ASSUME NEW l \in 0 .. (e[m].len - 1)
                   PROVE  /\ At(l) < Len(c[m]) /\ EntryAt(g, c[m], l) \in 1 .. Len(g)
                          /\ g[EntryAt(g, c[m], l)] = [data |-> m]
        OBVIOUS
      <4>1. CASE l \in 0 .. (d[m].len - 1)
        BY <1>7, <1>12, <4>1
      <4>2. CASE l = n
        BY <1>2, <1>7, <1>13, <2>3, <4>2
      <4> QED
        BY <3>1, <4>1, <4>2
    <3>3. ASSUME NEW l \in 0 .. (e[m].len - 1), NEW o \in 0 .. (e[m].len - 1), EntryAt(g, c[m], l) = EntryAt(g, c[m], o)
          PROVE  l = o
      <4>1. CASE l \in 0 .. (d[m].len - 1) /\ o \in 0 .. (d[m].len - 1)
        <5>1. EntryAt(f, c[m], l) = EntryAt(f, c[m], o)
          BY <1>12, <3>3, <4>1
        <5> QED
          BY <2>1, <4>1, <5>1 DEF Mapped
      <4>2. CASE l \in 0 .. (d[m].len - 1) /\ o = n
        BY <1>12, <1>13, <2>3, <3>3, <4>2 DEF NotMapped
      <4>3. CASE l = n /\ o \in 0 .. (d[m].len - 1)
        BY <1>12, <1>13, <2>3, <3>3, <4>3 DEF NotMapped
      <4> QED
        BY <3>1, <4>1, <4>2, <4>3
    <3> QED
      BY <3>2, <3>3 DEF Mapped
  <2> QED
    BY <2>2, <2>3
<1>15. LaidOut(g, e, c)
  BY <1>1, <1>7, <1>9, <1>10, <1>11, <1>14 DEF LaidOut
<1> QED
  BY <1>7, <1>12, <1>13, <1>15 DEF SameEntries, EntryIs

\* Directories that go back to fewer logical pages, or to none.
LEMMA ShrinkLaid ==
    ASSUME NEW f, NEW d, NEW c, LaidOut(f, d, c), NEW e \in [DataKinds -> Directories],
           \A k \in DataKinds : \/ e[k].root = d[k].root /\ e[k].len <= d[k].len
                                \/ e[k].root = UNMAPPED /\ e[k].len = 0,
           NEW b, b = [k \in DataKinds |-> IF e[k].root = UNMAPPED THEN <<>> ELSE c[k]]
    PROVE  LaidOut(f, e, b) /\ \A k \in DataKinds : e[k].len > 0 => b[k] = c[k]
<1>1. b \in [DataKinds -> Seq(Nat)]
  BY DEF LaidOut
<1>2. ASSUME NEW k \in DataKinds
      PROVE  ChainOf(f, e[k].root, b[k]) /\ Mapped(f, k, b[k], e[k].len) /\ (e[k].len > 0 => b[k] = c[k])
  <2>1. /\ ChainOf(f, d[k].root, c[k]) /\ Mapped(f, k, c[k], d[k].len) /\ d[k].len \in Nat
        /\ (d[k].root = UNMAPPED <=> c[k] = <<>>) /\ (d[k].root = UNMAPPED => d[k].len = 0)
    BY LaidTypes, NoRoot
  <2>2. e[k].len \in Nat
    BY DEF Directories
  <2>3. CASE e[k].root = UNMAPPED
    <3>1. e[k].len = 0 /\ b[k] = <<>> /\ Len(b[k]) = 0
      BY <2>1, <2>2, <2>3
    <3> QED
      BY <2>3, <3>1 DEF ChainOf, Mapped
  <2>4. CASE e[k].root # UNMAPPED
    <3>1. e[k].root = d[k].root /\ e[k].len <= d[k].len /\ b[k] = c[k]
      BY <2>4
    <3>2. \A l \in 0 .. (e[k].len - 1) : l \in 0 .. (d[k].len - 1)
      BY <2>1, <2>2, <3>1
    <3> QED
      BY <2>1, <3>1, <3>2 DEF Mapped
  <2> QED
    BY <2>3, <2>4
<1>3. Apart(b)
  <2>1. Apart(c)
    BY DEF LaidOut
  <2>2. \A k \in DataKinds : \A i \in 1 .. Len(b[k]) : i \in 1 .. Len(c[k]) /\ b[k][i] = c[k][i]
    OBVIOUS
  <2> HIDE DEF LaidOut
  <2> QED
    BY <2>1, <2>2 DEF Apart
<1> QED
  BY <1>1, <1>2, <1>3 DEF LaidOut

-----------------------------------------------------------------------------
\* The invariant.

\* The directory of a kind as the last write to it left it: the running call has it, or the header.
Dir(k) == IF call # NoCall /\ call.kind = k THEN call.dir ELSE header[k]
Dirs == [k \in DataKinds |-> Dir(k)]

Calls == [at : {"ensure", "link", "store"}, kind : DataKinds, physical : Nat, dir : Directories,
          pid : Nat, left : Nat]

\* An earlier state of a directory: fewer pages on the same chain, or not begun.
Older(e, d) ==
    \/ e.root = d.root /\ e.len <= d.len
    \/ e.root = UNMAPPED /\ e.len = 0

Headers ==
    /\ header \in [DataKinds -> Directories] /\ logged \in [DataKinds -> Directories]
    /\ given \in [DataKinds -> Seq(Nat)]
    /\ call = NoCall \/ call \in Calls
    /\ \A k \in DataKinds : Older(header[k], Dir(k)) /\ Older(logged[k], header[k])

\* The page of the call is of its kind and, until it is mapped, in no entry.
PhysicalFits(c) ==
    /\ call.physical \in 1 .. Len(file) /\ file[call.physical] = [data |-> call.kind]
    /\ IF call.at = "store"
       THEN /\ call.dir.len = header[call.kind].len + 1
            /\ EntryAt(file, c[call.kind], header[call.kind].len) = call.physical
       ELSE /\ call.dir.len = header[call.kind].len
            /\ \A l \in 0 .. (call.dir.len - 1) : EntryAt(file, c[call.kind], l) # call.physical

\* The place in the chain that the call has come to.
Place == At(call.dir.len) - call.left + 1

\* The call stands on a page of its chain, or the chain is empty; a page it has appended for
\* the chain is blank and in no chain.
WalkFits(c) ==
    /\ call.left <= At(call.dir.len)
    /\ call.at = "ensure" => IF call.pid = UNMAPPED THEN c[call.kind] = <<>> /\ call.left = At(call.dir.len)
                             ELSE Place \in 1 .. Len(c[call.kind]) /\ call.pid = c[call.kind][Place]
    /\ call.at = "link" => /\ call.left > 0 /\ Place = Len(c[call.kind]) /\ call.pid = c[call.kind][Place]
                           /\ Len(file) > 0 /\ file[Len(file)] = BlankDir /\ Loose(c, Len(file))

\* A logical page that a caller was given keeps its entry.
GivenFits(c) ==
    \A k \in DataKinds :
        /\ Len(given[k]) = header[k].len
        /\ \A l \in 1 .. Len(given[k]) : given[k][l] \in {UNMAPPED, EntryAt(file, c[k], l - 1)}

Fits(c) ==
    /\ LaidOut(file, Dirs, c) /\ GivenFits(c)
    /\ call # NoCall => PhysicalFits(c) /\ (call.at # "store" => WalkFits(c))

Consistent == Headers /\ \E c : Fits(c)

LEMMA Basics ==
    ASSUME Headers, NEW c, Fits(c)
    PROVE  /\ Len(file) \in Nat /\ LaidOut(file, Dirs, c) /\ GivenFits(c)
           /\ \A k \in DataKinds : /\ header[k] \in Directories /\ header[k].len \in Nat /\ header[k].root \in Nat
                                   /\ Dirs[k] = Dir(k) /\ Dir(k) \in Directories /\ Dir(k).len \in Nat
                                   /\ header[k].len <= Dir(k).len /\ Len(c[k]) \in Nat
<1>1. LaidOut(file, Dirs, c) /\ GivenFits(c)
  BY DEF Fits
<1>2. Len(file) \in Nat
  BY <1>1 DEF LaidOut
<1>3. ASSUME NEW k \in DataKinds
      PROVE  /\ header[k] \in Directories /\ header[k].len \in Nat /\ header[k].root \in Nat
             /\ Dirs[k] = Dir(k) /\ Dir(k) \in Directories /\ Dir(k).len \in Nat
             /\ header[k].len <= Dir(k).len /\ Len(c[k]) \in Nat
  <2>1. header[k] \in Directories /\ Older(header[k], Dir(k))
    BY DEF Headers
  <2>2. Dirs[k] = Dir(k)
    BY DEF Dirs
  <2>3. Dirs[k] \in Directories /\ Len(c[k]) \in Nat
    BY <1>1, LaidTypes, Zenon
  <2>4. header[k].len \in Nat /\ header[k].root \in Nat /\ Dir(k).len \in Nat
    BY <2>1, <2>2, <2>3 DEF Directories
  <2> QED
    BY <2>1, <2>2, <2>3, <2>4 DEF Older
<1> QED
  BY <1>1, <1>2, <1>3, Zenon

LEMMA CallBasics ==
    ASSUME Headers, call # NoCall, NEW c, Fits(c)
    PROVE  /\ call \in Calls /\ call.at \in {"ensure", "link", "store"} /\ call.kind \in DataKinds /\ call.physical \in Nat
           /\ call.dir \in Directories /\ call.dir.len \in Nat /\ call.dir.root \in Nat /\ call.pid \in Nat /\ call.left \in Nat
           /\ Dir(call.kind) = call.dir /\ \A k \in DataKinds : k # call.kind => Dir(k) = header[k]
           /\ PhysicalFits(c) /\ (call.at # "store" => WalkFits(c))
           /\ At(call.dir.len) \in Nat
<1>1. call \in Calls
  BY DEF Headers
<1>2. /\ call.at \in {"ensure", "link", "store"} /\ call.kind \in DataKinds /\ call.physical \in Nat
      /\ call.dir \in Directories /\ call.pid \in Nat /\ call.left \in Nat
  BY <1>1 DEF Calls
<1>3. call.dir.len \in Nat /\ call.dir.root \in Nat
  BY <1>2 DEF Directories
<1>4. At(call.dir.len) \in Nat
  BY <1>3, Division
<1> QED
  BY <1>1, <1>2, <1>3, <1>4 DEF Dir, Fits

LEMMA Busy == ASSUME Headers PROVE \A at \in {"ensure", "link", "store"} : call.at = at => call # NoCall
  BY DEF NoCall

\* What was given stays given as long as the entries stay.
LEMMA GivenKept ==
    ASSUME Headers, NEW c, Fits(c), NEW b, SameEntries(file, file', Dirs, c, b), UNCHANGED <<header, given>>
    PROVE  GivenFits(b)'
<1> SUFFICES ASSUME NEW k \in DataKinds
             PROVE  /\ Len(given[k]) = header[k].len
                    /\ \A l \in 1 .. Len(given[k]) : given[k][l] \in {UNMAPPED, EntryAt(file', b[k], l - 1)}
  <2>1. \A k \in DataKinds : /\ Len(given'[k]) = header'[k].len
                             /\ \A l \in 1 .. Len(given'[k]) : given'[k][l] \in {UNMAPPED, EntryAt(file', b[k], l - 1)}
    OBVIOUS
  <2> QED
    BY <2>1 DEF GivenFits, EntryAt
<1>1. Len(given[k]) = header[k].len
  BY DEF Fits, GivenFits
<1>2. ASSUME NEW l \in 1 .. Len(given[k]) PROVE given[k][l] \in {UNMAPPED, EntryAt(file', b[k], l - 1)}
  <2>1. given[k][l] \in {UNMAPPED, EntryAt(file, c[k], l - 1)}
    BY DEF Fits, GivenFits
  <2>2. l - 1 \in 0 .. (Dirs[k].len - 1)
    BY <1>1, Basics
  <2>3. EntryAt(file', b[k], l - 1) = EntryAt(file, c[k], l - 1)
    BY <2>2 DEF SameEntries
  <2> QED
    BY <2>1, <2>3
<1> QED
  BY <1>1, <1>2

LEMMA NoEntriesAfter ==
    ASSUME Headers, NEW c, Fits(c), NEW k \in DataKinds, NEW l \in 0 .. (Dir(k).len - 1)
    PROVE  EntryAt(file, c[k], l) \in 1 .. Len(file)
<1>1. Mapped(file, k, c[k], Dirs[k].len) /\ Dirs[k] = Dir(k)
  BY Basics, LaidTypes
<1> QED
  BY <1>1 DEF Mapped

LEMMA AppendsLaid ==
    ASSUME Headers, NEW c, Fits(c), NEW page \in FilePages, file' = Append(file, page)
    PROVE  /\ LaidOut(file', Dirs, c) /\ SameEntries(file, file', Dirs, c, c) /\ Loose(c, Len(file'))
           /\ Len(file') = Len(file) + 1 /\ file'[Len(file')] = page /\ \A p \in 1 .. Len(file) : file'[p] = file[p]
<1>1. PICK f, d, g : f = file /\ d = Dirs /\ g = file'
  OBVIOUS
<1>2. LaidOut(f, d, c) /\ Appended(g, f, page)
  BY <1>1, Basics DEF Appended
<1>3. /\ LaidOut(g, d, c) /\ SameEntries(f, g, d, c, c) /\ Loose(c, Len(g))
      /\ Len(g) = Len(f) + 1 /\ g[Len(g)] = page /\ \A p \in 1 .. Len(f) : g[p] = f[p]
  BY <1>2, GrowLaid
<1> QED
  BY <1>1, <1>3

LEMMA AppendDataKeeps ==
    ASSUME Headers, NEW c, Fits(c), NEW kind \in DataKinds, AppendData(kind)
    PROVE  Headers' /\ Fits(c)'
<1> DEFINE page == [data |-> kind]
<1>1. /\ call = NoCall /\ file' = Append(file, page)
      /\ call' = [at |-> "ensure", kind |-> kind, physical |-> NewPid, dir |-> header[kind],
                  pid |-> header[kind].root, left |-> At(header[kind].len)]
      /\ UNCHANGED <<header, logged, given>>
  BY DEF AppendData, At
<1>2. page \in FilePages
  BY DEF DataPages, FilePages
<1>3. /\ call'.at = "ensure" /\ call'.kind = kind /\ call'.physical = Len(file) + 1 /\ call'.dir = header[kind]
      /\ call'.pid = header[kind].root /\ call'.left = At(header[kind].len)
  BY <1>1 DEF NewPid
<1>4. /\ Len(file) \in Nat /\ header[kind] \in Directories /\ header[kind].len \in Nat /\ header[kind].root \in Nat
      /\ At(header[kind].len) \in Nat /\ Dir(kind) = header[kind]
  BY <1>1, Basics, Division DEF Dir
<1>5. call' \in Calls /\ call' # NoCall
  BY <1>1, <1>3, <1>4 DEF Calls, NoCall, NewPid
<1>6. \A k \in DataKinds : Dir(k)' = header[k] /\ Dir(k) = header[k]
  BY <1>1, <1>3 DEF Dir
<1>7. Dirs' = Dirs
  BY <1>6 DEF Dirs
<1> HIDE DEF page
<1>8. Headers'
  BY <1>1, <1>5, <1>6 DEF Headers
<1>9. /\ LaidOut(file', Dirs, c) /\ SameEntries(file, file', Dirs, c, c)
      /\ Len(file') = Len(file) + 1 /\ file'[Len(file')] = page
  BY <1>1, <1>2, AppendsLaid
<1>10. GivenFits(c)'
  BY <1>1, <1>9, GivenKept
<1>11. PhysicalFits(c)'
  <2>1. call'.physical \in 1 .. Len(file') /\ file'[call'.physical] = [data |-> call'.kind]
    BY <1>3, <1>4, <1>9 DEF page
  <2>2. ASSUME NEW l \in 0 .. (call'.dir.len - 1) PROVE EntryAt(file', c[kind], l) # call'.physical
    <3>1. l \in 0 .. (Dir(kind).len - 1) /\ l \in 0 .. (Dirs[kind].len - 1)
      BY <1>3, <1>4, Basics
    <3>2. EntryAt(file, c[kind], l) \in 1 .. Len(file)
      BY <3>1, NoEntriesAfter
    <3>3. EntryAt(file', c[kind], l) = EntryAt(file, c[kind], l)
      BY <1>9, <3>1 DEF SameEntries
    <3> QED
      BY <1>3, <1>4, <3>2, <3>3
  <2> QED
    BY <1>1, <1>3, <2>1, <2>2 DEF PhysicalFits, EntryAt
<1>12. WalkFits(c)'
  <2>1. ChainOf(file, header[kind].root, c[kind]) /\ Len(c[kind]) \in Nat
    BY <1>4, Basics, LaidTypes
  <2>2. CASE header[kind].root = UNMAPPED
    <3>1. c[kind] = <<>>
      BY <2>1, <2>2 DEF ChainOf, UNMAPPED
    <3> QED
      BY <1>3, <1>4, <2>2, <3>1 DEF WalkFits
  <2>3. CASE header[kind].root # UNMAPPED
    <3>1. 1 \in 1 .. Len(c[kind]) /\ c[kind][1] = header[kind].root
      BY <2>1, <2>3 DEF ChainOf
    <3>2. Place' = 1
      BY <1>3, <1>4 DEF Place, At
    <3> QED
      BY <1>3, <1>4, <2>3, <3>1, <3>2 DEF WalkFits, At
  <2> QED
    BY <2>2, <2>3
<1>13. Fits(c)'
  BY <1>7, <1>9, <1>10, <1>11, <1>12 DEF Fits
<1> QED
  BY <1>8, <1>13

LEMMA BlankPage == BlankDir \in DirPages /\ BlankDir.link = UNMAPPED
  BY DEF BlankDir, DirPages, UNMAPPED

\* The first page of a directory: the chain of the call was empty.
LEMMA AppendRootKeeps ==
    ASSUME Headers, NEW c, Fits(c), AppendRoot
    PROVE  Headers' /\ \E b : Fits(b)'
<1>1. /\ call.at = "ensure" /\ call.dir.root = UNMAPPED /\ file' = Append(file, BlankDir)
      /\ call' = [call EXCEPT !.dir.root = NewPid, !.pid = NewPid]
      /\ UNCHANGED <<header, logged, given>>
  BY DEF AppendRoot
<1>2. call # NoCall
  BY <1>1, Busy
<1>3. /\ call \in Calls /\ call.kind \in DataKinds /\ call.dir \in Directories /\ call.physical \in Nat
      /\ call.dir.len \in Nat /\ call.pid \in Nat /\ call.left \in Nat /\ At(call.dir.len) \in Nat
      /\ Dir(call.kind) = call.dir /\ \A k \in DataKinds : k # call.kind => Dir(k) = header[k]
      /\ PhysicalFits(c) /\ WalkFits(c)
  BY <1>1, <1>2, CallBasics
<1>4. Len(file) \in Nat /\ NewPid = Len(file) + 1 /\ Dirs[call.kind] = Dir(call.kind) /\ LaidOut(file, Dirs, c)
  BY <1>3, Basics DEF NewPid
<1>5. PICK k \in DataKinds : k = call.kind
  BY <1>3
<1>6. c[k] = <<>> /\ call.dir.len = 0 /\ call.pid = UNMAPPED /\ call.left = At(call.dir.len)
  <2>1. c[k] = <<>> /\ call.dir.len = 0
    BY <1>1, <1>3, <1>4, <1>5, NoRoot
  <2>2. Len(c[k]) = 0
    BY <2>1
  <2> QED
    BY <1>1, <1>3, <1>5, <2>1, <2>2 DEF WalkFits
<1>7. /\ call'.at = "ensure" /\ call'.kind = k /\ call'.physical = call.physical /\ call'.left = call.left
      /\ call'.dir = [root |-> NewPid, len |-> 0] /\ call'.pid = NewPid
  BY <1>1, <1>3, <1>5, <1>6 DEF Calls, Directories
<1>8. call' \in Calls /\ call' # NoCall
  <2>1. call'.dir \in Directories /\ NewPid \in Nat
    BY <1>4, <1>7 DEF Directories
  <2> QED
    BY <1>1, <1>3, <1>7, <2>1 DEF Calls, NoCall
<1>9. /\ \A m \in DataKinds : m # k => Dir(m)' = header[m] /\ Dir(m) = header[m]
      /\ Dir(k)' = [root |-> NewPid, len |-> 0] /\ Dir(k) = call.dir
  BY <1>1, <1>3, <1>5, <1>7, <1>8 DEF Dir
<1>10. /\ LaidOut(file', Dirs, c) /\ SameEntries(file, file', Dirs, c, c) /\ Loose(c, NewPid)
       /\ Len(file') = Len(file) + 1 /\ file'[NewPid] = BlankDir /\ \A p \in 1 .. Len(file) : file'[p] = file[p]
  BY <1>1, <1>4, AppendsLaid, BlankPage DEF FilePages
<1>11. PICK b : b = [c EXCEPT ![k] = <<NewPid>>]
  OBVIOUS
<1>12. Dirs' = [Dirs EXCEPT ![k].root = NewPid]
  <2>1. Dirs[k] = call.dir
    BY <1>4, <1>5, <1>9
  <2>2. [Dirs[k] EXCEPT !.root = NewPid] = [root |-> NewPid, len |-> 0]
    BY <1>3, <1>6, <2>1 DEF Directories
  <2>3. \A m \in DataKinds : Dirs'[m] = IF m = k THEN [Dirs[k] EXCEPT !.root = NewPid] ELSE Dirs[m]
    BY <1>9, <2>2 DEF Dirs
  <2> QED
    BY <2>3 DEF Dirs
<1>13. LaidOut(file', Dirs', b)
  <2>1. NewPid \in 1 .. Len(file') /\ file'[NewPid] \in DirPages /\ file'[NewPid].link = UNMAPPED /\ Dirs[k].root = UNMAPPED
    BY <1>1, <1>4, <1>5, <1>9, <1>10, BlankPage
  <2> QED
    BY <1>10, <1>11, <1>12, <2>1, RootLaid
<1>14. SameEntries(file, file', Dirs, c, b)
  <2>1. \A m \in DataKinds : m # k => b[m] = c[m]
    BY <1>4, <1>11 DEF LaidOut
  <2>2. Dirs[k].len = 0
    BY <1>4, <1>5, <1>6, <1>9
  <2> QED
    BY <1>10, <2>1, <2>2 DEF SameEntries
<1>15. GivenFits(b)'
  BY <1>1, <1>14, GivenKept
<1>16. header[k].root = UNMAPPED /\ header[k].len = 0
  <2>1. Older(header[k], call.dir) /\ header[k].len \in Nat
    BY <1>9, Basics DEF Headers
  <2> QED
    BY <1>1, <1>6, <2>1 DEF Older
<1>17. Headers'
  <2>1. \A m \in DataKinds : Older(header[m], Dir(m)')
    BY <1>9, <1>16 DEF Headers, Older
  <2> QED
    BY <1>1, <1>8, <2>1 DEF Headers
<1>18. PhysicalFits(b)'
  <2>1. call.physical \in 1 .. Len(file) /\ file[call.physical] = [data |-> k]
    BY <1>3, <1>5 DEF PhysicalFits
  <2>2. call'.physical \in 1 .. Len(file') /\ file'[call'.physical] = [data |-> k]
    BY <1>4, <1>7, <1>10, <2>1
  <2> QED
    BY <1>1, <1>7, <1>16, <2>2 DEF PhysicalFits
<1>19. WalkFits(b)'
  <2>1. b[k] = <<NewPid>> /\ Len(b[k]) = 1 /\ b[k][1] = NewPid
    BY <1>4, <1>11 DEF LaidOut
  <2>2. At(0) = 0 /\ call'.left = 0 /\ Place' = 1
    BY <1>6, <1>7, Division DEF Place, At
  <2> QED
    BY <1>4, <1>7, <2>1, <2>2 DEF WalkFits, At, UNMAPPED
<1>20. Fits(b)'
  BY <1>13, <1>15, <1>18, <1>19 DEF Fits
<1> QED
  BY <1>17, <1>20

\* A step of the call that leaves its directory as it is.
LEMMA DirsStay ==
    ASSUME Headers, call # NoCall, call' # NoCall, call' \in Calls, call'.kind = call.kind, call'.dir = call.dir,
           UNCHANGED <<header, logged, given>>
    PROVE  Dirs' = Dirs /\ Headers'
<1>1. \A k \in DataKinds : Dir(k)' = Dir(k)
  BY DEF Dir
<1>2. Dirs' = Dirs
  BY <1>1 DEF Dirs
<1>3. Headers'
  BY <1>1 DEF Headers
<1> QED
  BY <1>2, <1>3

\* The page that the call stands on.
LEMMA OnChain ==
    ASSUME Headers, NEW c, Fits(c), call.at = "ensure", call.pid # UNMAPPED
    PROVE  /\ call # NoCall /\ Place \in 1 .. Len(c[call.kind]) /\ Len(c[call.kind]) \in Nat
           /\ call.pid = c[call.kind][Place] /\ Place = At(call.dir.len) - call.left + 1
           /\ call.pid \in 1 .. Len(file) /\ file[call.pid] \in DirPages
           /\ file[call.pid].link = IF Place = Len(c[call.kind]) THEN UNMAPPED ELSE c[call.kind][Place + 1]
           /\ call.left <= At(call.dir.len) /\ PhysicalFits(c)
<1>1. call # NoCall
  BY Busy
<1>2. call.kind \in DataKinds /\ WalkFits(c) /\ PhysicalFits(c)
  BY <1>1, CallBasics
<1>3. ChainOf(file, Dirs[call.kind].root, c[call.kind]) /\ Len(c[call.kind]) \in Nat
  BY <1>2, Basics, LaidTypes
<1>4. Place \in 1 .. Len(c[call.kind]) /\ call.pid = c[call.kind][Place] /\ call.left <= At(call.dir.len)
  BY <1>2 DEF WalkFits
<1> HIDE DEF Fits
<1> QED
  BY <1>1, <1>2, <1>3, <1>4 DEF ChainOf, Place

LEMMA FollowLinkKeeps ==
    ASSUME Headers, NEW c, Fits(c), FollowLink
    PROVE  Headers' /\ Fits(c)'
<1>1. /\ call.at = "ensure" /\ call.pid # UNMAPPED /\ call.left > 0 /\ file[call.pid].link # UNMAPPED
      /\ call' = [call EXCEPT !.pid = file[call.pid].link, !.left = call.left - 1]
      /\ UNCHANGED <<file, header, logged, given>>
  BY DEF FollowLink
<1>2. /\ call # NoCall /\ Place \in 1 .. Len(c[call.kind]) /\ Len(c[call.kind]) \in Nat
      /\ Place = At(call.dir.len) - call.left + 1 /\ call.left <= At(call.dir.len) /\ PhysicalFits(c)
      /\ file[call.pid].link = IF Place = Len(c[call.kind]) THEN UNMAPPED ELSE c[call.kind][Place + 1]
  BY <1>1, OnChain
<1>3. /\ call \in Calls /\ call.kind \in DataKinds /\ call.left \in Nat /\ At(call.dir.len) \in Nat
  BY <1>2, CallBasics
<1>4. c[call.kind] \in Seq(Nat)
  BY <1>3, Basics, LaidTypes
<1>5. /\ Place + 1 \in 1 .. Len(c[call.kind]) /\ file[call.pid].link = c[call.kind][Place + 1]
      /\ c[call.kind][Place + 1] \in Nat
  BY <1>1, <1>2, <1>4
<1>6. /\ call'.at = "ensure" /\ call'.kind = call.kind /\ call'.physical = call.physical /\ call'.dir = call.dir
      /\ call'.pid = c[call.kind][Place + 1] /\ call'.left = call.left - 1
      /\ call' \in Calls
  <2>1. PICK x \in Nat, y \in Nat : x = c[call.kind][Place + 1] /\ y = call.left - 1
    BY <1>1, <1>3, <1>5
  <2>2. call' = [call EXCEPT !.pid = x, !.left = y]
    BY <1>1, <1>5, <2>1
  <2>3. /\ call'.at = "ensure" /\ call'.kind = call.kind /\ call'.physical = call.physical /\ call'.dir = call.dir
        /\ call'.pid = x /\ call'.left = y /\ call' \in Calls
    BY <1>1, <1>3, <2>2 DEF Calls
  <2> QED
    BY <2>1, <2>3
<1>7. call' # NoCall
  BY <1>6 DEF NoCall
<1>8. Dirs' = Dirs /\ Headers'
  BY <1>1, <1>2, <1>6, <1>7, DirsStay
<1>9. LaidOut(file', Dirs', c) /\ GivenFits(c)'
  BY <1>1, <1>8, Basics DEF GivenFits, EntryAt
<1>10. PhysicalFits(c)'
  BY <1>1, <1>2, <1>6 DEF PhysicalFits, EntryAt
<1>11. WalkFits(c)'
  <2>1. Place' = Place + 1
    BY <1>2, <1>3, <1>6 DEF Place, At
  <2>2. call'.pid # UNMAPPED
    BY <1>1, <1>5, <1>6
  <2>3. call'.left <= At(call.dir.len)
    BY <1>2, <1>3, <1>6
  <2> QED
    BY <1>5, <1>6, <2>1, <2>2, <2>3 DEF WalkFits, At
<1>12. Fits(c)'
  BY <1>9, <1>10, <1>11 DEF Fits
<1> QED
  BY <1>8, <1>12

LEMMA AppendDirPageKeeps ==
    ASSUME Headers, NEW c, Fits(c), AppendDirPage
    PROVE  Headers' /\ Fits(c)'
<1>1. /\ call.at = "ensure" /\ call.pid # UNMAPPED /\ call.left > 0 /\ file[call.pid].link = UNMAPPED
      /\ file' = Append(file, BlankDir) /\ call' = [call EXCEPT !.at = "link"]
      /\ UNCHANGED <<header, logged, given>>
  BY DEF AppendDirPage
<1>2. /\ call # NoCall /\ Place \in 1 .. Len(c[call.kind]) /\ Len(c[call.kind]) \in Nat
      /\ call.pid = c[call.kind][Place] /\ call.left <= At(call.dir.len) /\ PhysicalFits(c)
      /\ file[call.pid].link = IF Place = Len(c[call.kind]) THEN UNMAPPED ELSE c[call.kind][Place + 1]
  BY <1>1, OnChain
<1>3. /\ call \in Calls /\ call.kind \in DataKinds /\ call.left \in Nat /\ call.dir.len \in Nat
      /\ Dir(call.kind) = call.dir
  BY <1>2, CallBasics
<1>4. Place = Len(c[call.kind])
  <2>1. ChainOf(file, Dirs[call.kind].root, c[call.kind])
    BY <1>3, Basics, LaidTypes
  <2>2. \A i \in 1 .. Len(c[call.kind]) : c[call.kind][i] # UNMAPPED
    <3>1. \A i \in 1 .. Len(c[call.kind]) : c[call.kind][i] \in 1 .. Len(file)
      BY <2>1 DEF ChainOf
    <3>2. UNMAPPED \notin 1 .. Len(file)
      BY DEF UNMAPPED
    <3> QED
      BY <3>1, <3>2, Zenon
  <2>3. CASE Place # Len(c[call.kind])
    <3>1. Place + 1 \in 1 .. Len(c[call.kind])
      BY <1>2, <2>3
    <3> QED
      BY <1>1, <1>2, <2>2, <2>3, <3>1
  <2> QED
    BY <2>3
<1>5. /\ call'.at = "link" /\ call'.kind = call.kind /\ call'.physical = call.physical /\ call'.dir = call.dir
      /\ call'.pid = call.pid /\ call'.left = call.left /\ call' \in Calls
  BY <1>1, <1>3 DEF Calls
<1>6. call' # NoCall
  BY <1>5 DEF NoCall
<1>7. Dirs' = Dirs /\ Headers'
  BY <1>1, <1>2, <1>5, <1>6, DirsStay
<1>8. BlankDir \in FilePages /\ Len(file) \in Nat /\ Dirs[call.kind] = call.dir
  BY <1>3, BlankPage, Basics DEF FilePages
<1>9. /\ LaidOut(file', Dirs, c) /\ SameEntries(file, file', Dirs, c, c) /\ Loose(c, Len(file'))
      /\ Len(file') = Len(file) + 1 /\ file'[Len(file')] = BlankDir /\ \A p \in 1 .. Len(file) : file'[p] = file[p]
  BY <1>1, <1>8, AppendsLaid
<1>10. GivenFits(c)'
  BY <1>1, <1>9, GivenKept
<1>11. PhysicalFits(c)'
  <2>1. /\ call.physical \in 1 .. Len(file) /\ file[call.physical] = [data |-> call.kind]
        /\ call.dir.len = header[call.kind].len
        /\ \A l \in 0 .. (call.dir.len - 1) : EntryAt(file, c[call.kind], l) # call.physical
    BY <1>1, <1>2 DEF PhysicalFits
  <2>2. call.physical \in 1 .. Len(file') /\ file'[call.physical] = [data |-> call.kind]
    BY <1>8, <1>9, <2>1
  <2>3. \A l \in 0 .. (call.dir.len - 1) : EntryAt(file', c[call.kind], l) = EntryAt(file, c[call.kind], l)
    BY <1>3, <1>8, <1>9 DEF SameEntries
  <2> QED
    BY <1>1, <1>5, <2>1, <2>2, <2>3 DEF PhysicalFits, EntryAt
<1>12. WalkFits(c)'
  <2>1. Place' = Place
    BY <1>5 DEF Place, At
  <2>2. BlankDir' = BlankDir /\ Len(file') > 0
    BY <1>8, <1>9 DEF BlankDir
  <2> QED
    BY <1>1, <1>2, <1>3, <1>4, <1>5, <1>9, <2>1, <2>2 DEF WalkFits, At, Loose
<1>13. Fits(c)'
  BY <1>7, <1>9, <1>10, <1>11, <1>12 DEF Fits
<1> QED
  BY <1>7, <1>13

LEMMA LinkDirPageKeeps ==
    ASSUME Headers, NEW c, Fits(c), LinkDirPage
    PROVE  Headers' /\ \E b : Fits(b)'
<1>1. /\ call.at = "link" /\ file' = [file EXCEPT ![call.pid] = LinkedTo(@, Len(file))]
      /\ call' = [call EXCEPT !.at = "ensure", !.pid = Len(file), !.left = call.left - 1]
      /\ UNCHANGED <<header, logged, given>>
  BY DEF LinkDirPage
<1>2. call # NoCall
  BY <1>1, Busy
<1>3. /\ call \in Calls /\ call.kind \in DataKinds /\ call.left \in Nat /\ call.dir.len \in Nat /\ At(call.dir.len) \in Nat
      /\ Dir(call.kind) = call.dir /\ PhysicalFits(c) /\ WalkFits(c)
  BY <1>1, <1>2, CallBasics
<1>4. PICK k \in DataKinds : k = call.kind
  BY <1>3
<1>5. /\ call.left > 0 /\ call.left <= At(call.dir.len) /\ Place = Len(c[k]) /\ call.pid = c[k][Place]
      /\ Len(file) > 0 /\ file[Len(file)] = BlankDir /\ Loose(c, Len(file))
      /\ Place = At(call.dir.len) - call.left + 1
  BY <1>1, <1>3, <1>4 DEF WalkFits, Place
<1>6. Len(file) \in Nat /\ LaidOut(file, Dirs, c) /\ Dirs[k] = call.dir /\ c[k] \in Seq(Nat) /\ Len(c[k]) \in Nat
  BY <1>3, <1>4, Basics, LaidTypes
<1>7. Len(c[k]) > 0 /\ c[k] # <<>>
  <2>1. Len(c[k]) > 0
    BY <1>3, <1>5, <1>6
  <2> QED
    BY <2>1
<1>8. PICK x \in Nat, y \in Nat : x = Len(file) /\ y = call.left - 1
  BY <1>3, <1>5, <1>6
<1>9. /\ call'.at = "ensure" /\ call'.kind = k /\ call'.physical = call.physical /\ call'.dir = call.dir
      /\ call'.pid = Len(file) /\ call'.left = call.left - 1 /\ call' \in Calls
  <2>1. call' = [call EXCEPT !.at = "ensure", !.pid = x, !.left = y]
    BY <1>1, <1>8
  <2>2. /\ call'.at = "ensure" /\ call'.kind = k /\ call'.physical = call.physical /\ call'.dir = call.dir
        /\ call'.pid = x /\ call'.left = y /\ call' \in Calls
    BY <1>3, <1>4, <2>1 DEF Calls
  <2> QED
    BY <1>8, <2>2
<1>10. call' # NoCall
  BY <1>9 DEF NoCall
<1>11. Dirs' = Dirs /\ Headers'
  BY <1>1, <1>2, <1>4, <1>9, <1>10, DirsStay
<1>12. PICK b : Extended(b, c, k, Len(file))
  BY DEF Extended
<1>13. /\ LaidOut(file', Dirs, b) /\ SameEntries(file, file', Dirs, c, b)
       /\ Len(file') = Len(file) /\ \A p \in 1 .. Len(file) : file[p] \notin DirPages => file'[p] = file[p]
  <2>1. PICK f, d, g, p, q : f = file /\ d = Dirs /\ g = file' /\ p = Len(file) /\ q = call.pid
    OBVIOUS
  <2>2. LaidOut(f, d, c) /\ c[k] # <<>> /\ p \in 1 .. Len(f) /\ Loose(c, p) /\ q = c[k][Len(c[k])]
    <3>1. p \in 1 .. Len(f)
      BY <1>5, <1>6, <2>1
    <3>2. LaidOut(f, d, c) /\ c[k] # <<>> /\ Loose(c, p) /\ q = c[k][Len(c[k])]
      BY <1>5, <1>6, <1>7, <2>1, Zenon
    <3> QED
      BY <3>1, <3>2
  <2>3. f[p] \in DirPages /\ f[p].link = UNMAPPED
    BY <1>5, <2>1, BlankPage
  <2>4. Linked(g, f, q, p) /\ Extended(b, c, k, p)
    BY <1>1, <1>12, <2>1 DEF Linked
  <2>5. /\ LaidOut(g, d, b) /\ SameEntries(f, g, d, c, b)
        /\ Len(g) = Len(f) /\ \A z \in 1 .. Len(f) : f[z] \notin DirPages => g[z] = f[z]
    BY <2>2, <2>3, <2>4, LinkLaid
  <2> QED
    BY <2>1, <2>5
<1>14. GivenFits(b)'
  BY <1>1, <1>13, GivenKept
<1>15. PhysicalFits(b)'
  <2>1. /\ call.physical \in 1 .. Len(file) /\ file[call.physical] = [data |-> k]
        /\ call.dir.len = header[k].len
        /\ \A l \in 0 .. (call.dir.len - 1) : EntryAt(file, c[k], l) # call.physical
    BY <1>1, <1>3, <1>4 DEF PhysicalFits
  <2>2. [data |-> k] \notin DirPages
    BY DEF DirPages
  <2>3. call.physical \in 1 .. Len(file') /\ file'[call.physical] = [data |-> k]
    BY <1>13, <2>1, <2>2
  <2>4. \A l \in 0 .. (call.dir.len - 1) : EntryAt(file', b[k], l) = EntryAt(file, c[k], l)
    BY <1>6, <1>13 DEF SameEntries
  <2> QED
    BY <1>1, <1>9, <2>1, <2>3, <2>4 DEF PhysicalFits, EntryAt
<1>16. WalkFits(b)'
  <2>1. Place' = Place + 1
    BY <1>3, <1>5, <1>9 DEF Place, At
  <2>2. Len(b[k]) = Len(c[k]) + 1 /\ b[k][Len(c[k]) + 1] = Len(file)
    <3>1. c \in [DataKinds -> Seq(Nat)]
      BY <1>6 DEF LaidOut
    <3>2. b[k] = Append(c[k], Len(file))
      BY <1>12, <3>1 DEF Extended
    <3> QED
      BY <1>6, <3>2
  <2>3. Place' \in 1 .. Len(b[k]) /\ call'.pid = b[k][Place'] /\ call'.pid # UNMAPPED
    <3>1. PICK z, s, t : z = Len(c[k]) /\ s = b[k] /\ t = Place'
      OBVIOUS
    <3>2. z \in Nat /\ t = z + 1 /\ Len(s) = z + 1 /\ s[z + 1] = Len(file) /\ Len(file) \in Nat /\ Len(file) > 0
      BY <1>5, <1>6, <2>1, <2>2, <3>1, Zenon
    <3>3. t \in 1 .. Len(s) /\ s[t] = Len(file) /\ Len(file) # UNMAPPED
      BY <3>2 DEF UNMAPPED
    <3> QED
      BY <1>9, <3>1, <3>3, Zenon
  <2>4. call'.left <= At(call.dir.len)
    BY <1>3, <1>5, <1>9
  <2> QED
    BY <1>9, <2>3, <2>4 DEF WalkFits, At
<1>17. Fits(b)'
  BY <1>11, <1>13, <1>14, <1>15, <1>16 DEF Fits
<1> QED
  BY <1>11, <1>17

LEMMA MapPageKeeps ==
    ASSUME Headers, NEW c, Fits(c), MapPage
    PROVE  Headers' /\ Fits(c)'
<1>1. /\ call.at = "ensure" /\ call.pid # UNMAPPED /\ call.left = 0
      /\ file' = [file EXCEPT ![call.pid].entries[EntryOf(call.dir.len)] = call.physical]
      /\ call' = [call EXCEPT !.at = "store", !.dir.len = call.dir.len + 1]
      /\ UNCHANGED <<header, logged, given>>
  BY DEF MapPage
<1>2. /\ call # NoCall /\ Place \in 1 .. Len(c[call.kind]) /\ Len(c[call.kind]) \in Nat
      /\ call.pid = c[call.kind][Place] /\ Place = At(call.dir.len) - call.left + 1 /\ PhysicalFits(c)
      /\ call.pid \in 1 .. Len(file)
  BY <1>1, OnChain
<1>3. /\ call \in Calls /\ call.kind \in DataKinds /\ call.dir \in Directories /\ call.dir.len \in Nat /\ At(call.dir.len) \in Nat
      /\ Dir(call.kind) = call.dir /\ \A k \in DataKinds : k # call.kind => Dir(k) = header[k]
  BY <1>2, CallBasics
<1>4. PICK k \in DataKinds, n \in Nat : k = call.kind /\ n = call.dir.len
  BY <1>3
<1>5. Place = At(n) + 1 /\ At(n) < Len(c[k]) /\ call.pid = c[k][At(n) + 1]
  <2>1. PICK z : z = Len(c[k])
    OBVIOUS
  <2>2. At(n) \in Nat /\ Place = At(n) - 0 + 1 /\ Place \in 1 .. z /\ z \in Nat /\ call.pid = c[k][Place]
    BY <1>1, <1>2, <1>3, <1>4, <2>1, Zenon
  <2>3. Place = At(n) + 1 /\ At(n) < z
    BY <2>2
  <2> QED
    BY <2>1, <2>2, <2>3, Zenon
<1>6. /\ call.physical \in 1 .. Len(file) /\ file[call.physical] = [data |-> k] /\ n = header[k].len
      /\ \A l \in 0 .. (n - 1) : EntryAt(file, c[k], l) # call.physical
  BY <1>1, <1>2, <1>4 DEF PhysicalFits
<1>7. /\ Len(file) \in Nat /\ LaidOut(file, Dirs, c) /\ Dirs[k] = call.dir
      /\ header[k] \in Directories /\ Older(header[k], call.dir)
  BY <1>3, <1>4, Basics DEF Headers
<1>8. PICK x : x = [call.dir EXCEPT !.len = n + 1]
  OBVIOUS
<1>9. x \in Directories /\ x.len = n + 1 /\ x.root = call.dir.root
  BY <1>3, <1>4, <1>8 DEF Directories
<1>10. /\ call'.at = "store" /\ call'.kind = k /\ call'.physical = call.physical /\ call'.dir = x
       /\ call' \in Calls
  <2>1. call' = [call EXCEPT !.at = "store", !.dir = x]
    BY <1>1, <1>4, <1>8
  <2> QED
    BY <1>3, <1>4, <1>9, <2>1 DEF Calls
<1>11. call' # NoCall
  BY <1>10 DEF NoCall
<1>12. Dir(k)' = x /\ \A m \in DataKinds : m # k => Dir(m)' = header[m] /\ Dir(m) = header[m]
  BY <1>1, <1>3, <1>4, <1>10, <1>11 DEF Dir
<1>13. WithLen(Dirs', Dirs, k, n + 1)
  <2>1. \A m \in DataKinds : Dirs'[m] = IF m = k THEN [Dirs[k] EXCEPT !.len = n + 1] ELSE Dirs[m]
    BY <1>7, <1>8, <1>12 DEF Dirs
  <2> QED
    BY <2>1 DEF WithLen, Dirs
<1>14. /\ LaidOut(file', Dirs', c) /\ SameEntries(file, file', Dirs, c, c) /\ EntryAt(file', c[k], n) = call.physical
       /\ Len(file') = Len(file) /\ file'[call.physical] = [data |-> k]
  <2>1. PICK f, d, g, e, p, q : f = file /\ d = Dirs /\ g = file' /\ e = Dirs' /\ p = call.physical /\ q = call.pid
    OBVIOUS
  <2>2. LaidOut(f, d, c) /\ n = d[k].len /\ p \in 1 .. Len(f) /\ f[p] = [data |-> k] /\ q = c[k][At(n) + 1]
    BY <1>4, <1>5, <1>6, <1>7, <2>1
  <2>3. NotMapped(f, c[k], n, p)
    BY <1>6, <2>1 DEF NotMapped
  <2>4. MapsTo(g, f, q, EntryOf(n), p)
    BY <1>1, <1>4, <2>1 DEF MapsTo, WithEntryAt
  <2>5. WithLen(e, d, k, n + 1)
    BY <1>13, <2>1
  <2>6. LaidOut(g, e, c) /\ SameEntries(f, g, d, c, c) /\ EntryAt(g, c[k], n) = p /\ Len(g) = Len(f) /\ g[p] = [data |-> k]
    <3>1. At(n) < Len(c[k])
      BY <1>5
    <3>2. LaidOut(g, e, c) /\ SameEntries(f, g, d, c, c)
      BY <2>2, <2>3, <2>4, <2>5, <3>1, MapLaid, Zenon
    <3>3. EntryIs(g, c[k], n, p, k, Len(f))
      BY <2>2, <2>3, <2>4, <2>5, <3>1, MapLaid, Zenon
    <3> QED
      BY <3>2, <3>3 DEF EntryIs
  <2> QED
    BY <2>1, <2>6
<1>15. GivenFits(c)'
  BY <1>1, <1>14, GivenKept
<1>16. PhysicalFits(c)'
  BY <1>1, <1>6, <1>9, <1>10, <1>14 DEF PhysicalFits, EntryAt
<1>17. Headers'
  <2>1. Older(header[k], x)
    BY <1>3, <1>4, <1>6, <1>7, <1>9 DEF Older
  <2>2. \A m \in DataKinds : Older(header[m], Dir(m)')
    BY <1>12, <2>1 DEF Headers
  <2> QED
    BY <1>1, <1>10, <2>2 DEF Headers
<1>18. Fits(c)'
  BY <1>10, <1>14, <1>15, <1>16 DEF Fits
<1> QED
  BY <1>17, <1>18

LEMMA OlderTwice ==
    ASSUME NEW d \in Directories, NEW e \in Directories, NEW h \in Directories, Older(d, e), Older(e, h)
    PROVE  Older(d, h)
<1>1. d.len \in Nat /\ e.len \in Nat /\ h.len \in Nat
  BY DEF Directories
<1> QED
  BY <1>1 DEF Older

LEMMA StoreDirectoryKeeps ==
    ASSUME Headers, NEW c, Fits(c), StoreDirectory
    PROVE  Headers' /\ Fits(c)'
<1>1. /\ call.at = "store" /\ header' = [header EXCEPT ![call.kind] = call.dir] /\ call' = NoCall /\ file' = file
      /\ logged' = header' \/ logged' = logged
      /\ \E p \in {call.physical, UNMAPPED} : given' = [given EXCEPT ![call.kind] = Append(given[call.kind], p)]
  BY DEF StoreDirectory
<1>2. call # NoCall
  BY <1>1, Busy
<1>3. /\ call.kind \in DataKinds /\ call.dir \in Directories /\ call.dir.len \in Nat /\ call.physical \in Nat
      /\ Dir(call.kind) = call.dir /\ \A k \in DataKinds : k # call.kind => Dir(k) = header[k]
      /\ PhysicalFits(c)
  BY <1>1, <1>2, CallBasics
<1>4. PICK k \in DataKinds : k = call.kind
  BY <1>3
<1>5. PICK p \in {call.physical, UNMAPPED} : given' = [given EXCEPT ![k] = Append(given[k], p)]
  BY <1>1, <1>4
<1>6. /\ call.dir.len = header[k].len + 1 /\ EntryAt(file, c[k], header[k].len) = call.physical
  BY <1>1, <1>3, <1>4 DEF PhysicalFits
<1>7. /\ header \in [DataKinds -> Directories] /\ logged \in [DataKinds -> Directories] /\ given \in [DataKinds -> Seq(Nat)]
      /\ \A m \in DataKinds : Older(header[m], Dir(m)) /\ Older(logged[m], header[m]) /\ header[m].len \in Nat
  BY Basics DEF Headers
<1>8. /\ header' \in [DataKinds -> Directories] /\ \A m \in DataKinds : header'[m] = Dir(m)
  BY <1>1, <1>3, <1>4, <1>7
<1>9. \A m \in DataKinds : Dir(m)' = Dir(m)
  BY <1>1, <1>8 DEF Dir
<1>10. Dirs' = Dirs
  BY <1>9 DEF Dirs
<1>11. Len(given[k]) = header[k].len /\ given[k] \in Seq(Nat) /\ p \in Nat /\ header[k].len \in Nat
  BY <1>3, <1>7 DEF Fits, GivenFits, UNMAPPED
<1>12. /\ given' \in [DataKinds -> Seq(Nat)] /\ Len(given'[k]) = header[k].len + 1
       /\ given'[k][header[k].len + 1] = p /\ \A i \in 1 .. header[k].len : given'[k][i] = given[k][i]
       /\ \A m \in DataKinds : m # k => given'[m] = given[m]
  <2> DEFINE s == Append(given[k], p)
  <2>1. /\ s \in Seq(Nat) /\ Len(s) = header[k].len + 1 /\ s[header[k].len + 1] = p
        /\ \A i \in 1 .. header[k].len : s[i] = given[k][i]
    BY <1>11
  <2>2. given' = [given EXCEPT ![k] = s]
    BY <1>5
  <2> HIDE DEF s
  <2>3. given' \in [DataKinds -> Seq(Nat)] /\ given'[k] = s /\ \A m \in DataKinds : m # k => given'[m] = given[m]
    BY <1>7, <2>1, <2>2
  <2> QED
    BY <2>1, <2>3
<1>13. Headers'
  <2>1. \A m \in DataKinds : Older(header'[m], Dir(m)')
    <3> SUFFICES ASSUME NEW m \in DataKinds PROVE Older(header'[m], Dir(m)')
      OBVIOUS
    <3>1. header'[m] = Dir(m)' /\ header'[m] \in Directories
      BY <1>8, <1>9
    <3>2. header'[m].len \in Nat
      BY <3>1 DEF Directories
    <3> QED
      BY <3>1, <3>2 DEF Older
  <2>2. \A m \in DataKinds : Older(logged'[m], header'[m])
    <3> SUFFICES ASSUME NEW m \in DataKinds PROVE Older(logged'[m], header'[m])
      OBVIOUS
    <3>1. CASE logged' = header'
      BY <1>8, <1>9, <2>1, <3>1
    <3>2. CASE logged' = logged
      <4>1. /\ logged[m] \in Directories /\ header[m] \in Directories /\ header'[m] \in Directories
            /\ Older(logged[m], header[m]) /\ Older(header[m], header'[m])
        BY <1>7, <1>8
      <4> QED
        BY <3>2, <4>1, OlderTwice
    <3> QED
      BY <1>1, <3>1, <3>2
  <2>3. logged' \in [DataKinds -> Directories]
    BY <1>1, <1>7, <1>8
  <2> QED
    BY <1>1, <1>8, <1>12, <2>1, <2>2, <2>3 DEF Headers
<1>14. GivenFits(c)'
  <2> SUFFICES ASSUME NEW m \in DataKinds
               PROVE  /\ Len(given'[m]) = header'[m].len
                      /\ \A l \in 1 .. Len(given'[m]) : given'[m][l] \in {UNMAPPED, EntryAt(file, c[m], l - 1)}
    BY <1>1 DEF GivenFits, EntryAt
  <2>1. /\ Len(given[m]) = header[m].len
        /\ \A l \in 1 .. Len(given[m]) : given[m][l] \in {UNMAPPED, EntryAt(file, c[m], l - 1)}
    BY DEF Fits, GivenFits
  <2>2. CASE m # k
    <3>1. header'[m] = header[m] /\ given'[m] = given[m]
      BY <1>3, <1>4, <1>8, <1>12, <2>2
    <3> QED
      BY <2>1, <3>1
  <2>3. CASE m = k
    <3>1. Len(given'[m]) = header[m].len + 1 /\ header'[m].len = header[m].len + 1
      BY <1>3, <1>4, <1>6, <1>8, <1>12, <2>3
    <3>2. ASSUME NEW l \in 1 .. Len(given'[m]) PROVE given'[m][l] \in {UNMAPPED, EntryAt(file, c[m], l - 1)}
      <4>1. CASE l = header[m].len + 1
        <5>1. l - 1 = header[m].len
          BY <1>11, <2>3, <4>1
        <5> QED
          BY <1>5, <1>6, <1>12, <2>3, <4>1, <5>1
      <4>2. CASE l # header[m].len + 1
        <5>1. l \in 1 .. header[m].len
          BY <1>11, <2>3, <3>1, <4>2
        <5> QED
          BY <1>12, <2>1, <2>3, <5>1
      <4> QED
        BY <4>1, <4>2
    <3> QED
      BY <3>1, <3>2
  <2> QED
    BY <2>2, <2>3
<1>15. Fits(c)'
  <2>1. LaidOut(file', Dirs', c)
    BY <1>1, <1>10, Basics
  <2> QED
    BY <1>1, <1>14, <2>1 DEF Fits
<1> QED
  BY <1>13, <1>15

\* The directories that are left when the call ends or the file is opened again.
LEMMA GoesBack ==
    ASSUME Headers, NEW c, Fits(c), NEW e \in [DataKinds -> Directories], \A k \in DataKinds : Older(e[k], header[k])
    PROVE  \E b : LaidOut(file, e, b) /\ \A k \in DataKinds : e[k].len > 0 => b[k] = c[k]
<1>1. PICK f, d, b : f = file /\ d = Dirs /\ b = [k \in DataKinds |-> IF e[k].root = UNMAPPED THEN <<>> ELSE c[k]]
  OBVIOUS
<1>2. LaidOut(f, d, c)
  BY <1>1, Basics
<1>3. ASSUME NEW k \in DataKinds
      PROVE  \/ e[k].root = d[k].root /\ e[k].len <= d[k].len
             \/ e[k].root = UNMAPPED /\ e[k].len = 0
  <2>1. d[k] = Dir(k) /\ Dir(k) \in Directories /\ header[k] \in Directories /\ e[k] \in Directories
    BY <1>1, Basics
  <2>2. Older(e[k], header[k]) /\ Older(header[k], Dir(k))
    BY DEF Headers
  <2>3. Older(e[k], d[k])
    BY <2>1, <2>2, OlderTwice
  <2> QED
    BY <2>3 DEF Older
<1>4. LaidOut(f, e, b) /\ \A k \in DataKinds : e[k].len > 0 => b[k] = c[k]
  BY <1>1, <1>2, <1>3, ShrinkLaid
<1> QED
  BY <1>1, <1>4

LEMMA ReopenKeeps ==
    ASSUME Headers, NEW c, Fits(c), call' = NoCall, file' = file, logged' = logged, header' \in {header, logged},
           \A k \in DataKinds : given'[k] = SubSeq(given[k], 1, header'[k].len), given' \in [DataKinds -> Seq(Nat)]
    PROVE  Headers' /\ \E b : Fits(b)'
<1>1. /\ header \in [DataKinds -> Directories] /\ logged \in [DataKinds -> Directories] /\ given \in [DataKinds -> Seq(Nat)]
      /\ \A k \in DataKinds : Older(logged[k], header[k])
  BY DEF Headers
<1>2. ASSUME NEW k \in DataKinds, NEW d \in Directories PROVE Older(d, d) /\ d.len \in Nat
  BY DEF Directories, Older
<1>3. header' \in [DataKinds -> Directories]
  BY <1>1
<1>4. \A k \in DataKinds : Older(header'[k], header[k]) /\ Older(logged[k], header'[k]) /\ Older(header'[k], header'[k])
  <2> SUFFICES ASSUME NEW k \in DataKinds
               PROVE  Older(header'[k], header[k]) /\ Older(logged[k], header'[k]) /\ Older(header'[k], header'[k])
    OBVIOUS
  <2>1. Older(header[k], header[k]) /\ Older(logged[k], logged[k]) /\ Older(logged[k], header[k])
    BY <1>1, <1>2
  <2> QED
    BY <2>1
<1>5. \A k \in DataKinds : Dir(k)' = header'[k]
  BY DEF Dir
<1>6. Dirs' = header'
  BY <1>3, <1>5 DEF Dirs
<1>7. Headers'
  BY <1>1, <1>3, <1>4, <1>5 DEF Headers
<1>8. PICK e : e = header'
  OBVIOUS
<1>9. PICK b : LaidOut(file, e, b) /\ \A k \in DataKinds : e[k].len > 0 => b[k] = c[k]
  BY <1>3, <1>4, <1>8, GoesBack
<1>10. GivenFits(b)'
  <2> SUFFICES ASSUME NEW k \in DataKinds
               PROVE  /\ Len(given'[k]) = header'[k].len
                      /\ \A l \in 1 .. Len(given'[k]) : given'[k][l] \in {UNMAPPED, EntryAt(file, b[k], l - 1)}
    BY DEF GivenFits, EntryAt
  <2>1. /\ Len(given[k]) = header[k].len
        /\ \A l \in 1 .. Len(given[k]) : given[k][l] \in {UNMAPPED, EntryAt(file, c[k], l - 1)}
    BY DEF Fits, GivenFits
  <2>2. header'[k].len \in Nat /\ header[k].len \in Nat /\ header'[k].len <= header[k].len /\ given[k] \in Seq(Nat)
    <3>1. header'[k] \in Directories /\ header[k] \in Directories /\ Older(header'[k], header[k])
      BY <1>1, <1>3, <1>4
    <3> QED
      BY <1>1, <1>2, <3>1 DEF Older
  <2>3. Len(given'[k]) = header'[k].len /\ \A l \in 1 .. header'[k].len : given'[k][l] = given[k][l] /\ l \in 1 .. header[k].len
    <3> DEFINE n == header'[k].len
               s == given[k]
    <3>1. n \in Nat /\ s \in Seq(Nat) /\ n <= Len(s) /\ given'[k] = SubSeq(s, 1, n)
      BY <2>1, <2>2
    <3> HIDE DEF n, s
    <3>2. Len(given'[k]) = n /\ \A l \in 1 .. n : given'[k][l] = s[l] /\ l \in 1 .. Len(s)
      BY <3>1
    <3> QED
      BY <2>1, <3>2 DEF n, s
  <2>4. ASSUME NEW l \in 1 .. Len(given'[k]) PROVE given'[k][l] \in {UNMAPPED, EntryAt(file, b[k], l - 1)}
    <3>1. given[k][l] \in {UNMAPPED, EntryAt(file, c[k], l - 1)} /\ given'[k][l] = given[k][l]
      BY <2>1, <2>3
    <3>2. b[k] = c[k]
      <4>1. header'[k].len > 0
        BY <2>2, <2>3
      <4> QED
        BY <1>8, <1>9, <4>1
    <3> QED
      BY <3>1, <3>2
  <2> QED
    BY <2>3, <2>4
<1>11. Fits(b)'
  BY <1>6, <1>8, <1>9, <1>10 DEF Fits
<1> QED
  BY <1>7, <1>11

LEMMA FitsInit == DirectoryInit => Consistent
<1> SUFFICES ASSUME DirectoryInit PROVE Consistent
  OBVIOUS
<1>1. /\ file = <<>> /\ call = NoCall /\ header = [kind \in DataKinds |-> NoDirectory] /\ logged = header
      /\ given = [kind \in DataKinds |-> <<>>]
  BY DEF DirectoryInit
<1>2. NoDirectory \in Directories /\ NoDirectory.root = UNMAPPED /\ NoDirectory.len = 0
  BY DEF NoDirectory, Directories, UNMAPPED
<1>3. \A k \in DataKinds : /\ Dir(k) = NoDirectory /\ header[k] = NoDirectory /\ logged[k] = NoDirectory
                           /\ given[k] = <<>> /\ Len(given[k]) = 0
  BY <1>1 DEF Dir
<1>4. Headers
  BY <1>1, <1>2, <1>3 DEF Headers, Older
<1>5. PICK c : c = [k \in DataKinds |-> <<>>]
  OBVIOUS
<1>6. c \in [DataKinds -> Seq(Nat)] /\ \A k \in DataKinds : c[k] = <<>> /\ Len(c[k]) = 0
  BY <1>5
<1>7. Dirs \in [DataKinds -> Directories] /\ \A k \in DataKinds : Dirs[k].root = UNMAPPED /\ Dirs[k].len = 0
  BY <1>2, <1>3 DEF Dirs
<1>8. file \in Seq(FilePages)
  BY <1>1
<1>9. Apart(c) /\ \A k \in DataKinds : ChainOf(file, Dirs[k].root, c[k]) /\ Mapped(file, k, c[k], Dirs[k].len)
  BY <1>6, <1>7 DEF Apart, ChainOf, Mapped
<1>10. LaidOut(file, Dirs, c)
  BY <1>6, <1>7, <1>8, <1>9 DEF LaidOut
<1>11. GivenFits(c)
  BY <1>2, <1>3 DEF GivenFits
<1>12. Fits(c)
  BY <1>1, <1>10, <1>11 DEF Fits
<1> QED
  BY <1>4, <1>12 DEF Consistent

LEMMA FitsNext == Consistent /\ [DirectoryNext]_dirVars => Consistent'
<1> SUFFICES ASSUME Consistent, [DirectoryNext]_dirVars PROVE Consistent'
  OBVIOUS
<1>1. Headers
  BY DEF Consistent
<1>2. PICK c : Fits(c)
  BY DEF Consistent
<1> SUFFICES Headers' /\ \E b : Fits(b)'
  BY DEF Consistent
<1>3. ASSUME NEW kind \in DataKinds, AppendData(kind) PROVE Headers' /\ \E b : Fits(b)'
  BY <1>1, <1>2, <1>3, AppendDataKeeps
<1>4. CASE AppendRoot
  BY <1>1, <1>2, <1>4, AppendRootKeeps
<1>5. CASE FollowLink
  BY <1>1, <1>2, <1>5, FollowLinkKeeps
<1>6. CASE AppendDirPage
  BY <1>1, <1>2, <1>6, AppendDirPageKeeps
<1>7. CASE LinkDirPage
  BY <1>1, <1>2, <1>7, LinkDirPageKeeps
<1>8. CASE MapPage
  BY <1>1, <1>2, <1>8, MapPageKeeps
<1>9. CASE StoreDirectory
  BY <1>1, <1>2, <1>9, StoreDirectoryKeeps
<1>10. ASSUME NEW k \in DataKinds
       PROVE  /\ given[k] \in Seq(Nat) /\ Len(given[k]) = header[k].len
              /\ header[k].len \in Nat /\ logged[k].len \in Nat /\ logged[k].len <= header[k].len
  <2>1. given[k] \in Seq(Nat) /\ header[k] \in Directories /\ logged[k] \in Directories /\ Older(logged[k], header[k])
    BY <1>1 DEF Headers
  <2>2. header[k].len \in Nat /\ logged[k].len \in Nat
    BY <2>1 DEF Directories
  <2>3. Len(given[k]) = header[k].len
    BY <1>2 DEF Fits, GivenFits
  <2> QED
    BY <2>1, <2>2, <2>3 DEF Older
<1>11. ASSUME NEW s \in Seq(Nat), NEW n \in Nat, n <= Len(s)
       PROVE  SubSeq(s, 1, n) \in Seq(Nat) /\ (n = Len(s) => SubSeq(s, 1, n) = s)
  BY <1>11
<1>12. CASE AllocFails
  <2>1. call' = NoCall /\ UNCHANGED <<file, header, logged, given>>
    BY <1>12 DEF AllocFails
  <2>2. \A k \in DataKinds : given'[k] = SubSeq(given[k], 1, header'[k].len)
    BY <1>10, <1>11, <2>1
  <2>3. given' \in [DataKinds -> Seq(Nat)]
    BY <1>1, <2>1 DEF Headers
  <2> QED
    BY <1>1, <1>2, <2>1, <2>2, <2>3, ReopenKeeps
<1>13. CASE Reopen
  <2>1. /\ header' = logged /\ call' = NoCall /\ UNCHANGED <<file, logged>>
        /\ given' = [kind \in DataKinds |-> SubSeq(given[kind], 1, logged[kind].len)]
    BY <1>13 DEF Reopen
  <2>2. given' \in [DataKinds -> Seq(Nat)]
    BY <1>10, <1>11, <2>1
  <2>3. \A k \in DataKinds : given'[k] = SubSeq(given[k], 1, header'[k].len)
    BY <2>1
  <2> QED
    BY <1>1, <1>2, <2>1, <2>2, <2>3, ReopenKeeps
<1>14. CASE UNCHANGED dirVars
  <2>1. UNCHANGED <<file, header, logged, call, given>>
    BY <1>14 DEF dirVars
  <2>2. Headers'
    BY <1>1, <2>1 DEF Headers, Dir
  <2>3. Dirs' = Dirs
    BY <2>1 DEF Dirs, Dir
  <2>4. GivenFits(c)' /\ LaidOut(file', Dirs', c)
    BY <1>2, <2>1, <2>3 DEF Fits, GivenFits, EntryAt
  <2>5. call' # NoCall => PhysicalFits(c)' /\ (call'.at # "store" => WalkFits(c)')
    BY <1>2, <2>1 DEF Fits, PhysicalFits, WalkFits, EntryAt, Place, At, Loose, BlankDir
  <2>6. Fits(c)'
    BY <2>4, <2>5 DEF Fits
  <2> QED
    BY <2>2, <2>6
<1> QED
  BY <1>3, <1>4, <1>5, <1>6, <1>7, <1>8, <1>9, <1>12, <1>13, <1>14 DEF DirectoryNext

OneToOne(F, D)    == \A l, m \in D : F[l] = F[m] => l = m
ValuesOn(S, F, D) == S = {F[l] : l \in D}

\* As many values as places, where no two places have the same.
LEMMA AsManyPages ==
    ASSUME NEW n \in Nat, NEW F, NEW D, D = 0 .. (n - 1), OneToOne(F, D), NEW S, ValuesOn(S, F, D)
    PROVE  Cardinality(S) = n
<1> DEFINE h == [l \in D |-> F[l]]
<1>1. IsFiniteSet(D) /\ Cardinality(D) = n
  BY FS_Interval
<1>2. h \in Surjection(D, S) /\ h \in Injection(D, S)
  BY DEF Surjection, Injection, IsInjective, OneToOne, ValuesOn
<1> HIDE DEF h
<1> QED
  BY <1>1, <1>2, FS_Surjection

LEMMA PagesMapped == Consistent => PagesStayMapped
<1> SUFFICES ASSUME Consistent PROVE PagesStayMapped
  OBVIOUS
<1>1. Headers
  BY DEF Consistent
<1>2. PICK c : Fits(c)
  BY DEF Consistent
<1>3. ASSUME NEW k \in DataKinds, NEW l \in 0 .. (header[k].len - 1)
      PROVE  /\ Resolve(header[k], l) = EntryAt(file, c[k], l) /\ EntryAt(file, c[k], l) \in 1 .. Len(file)
             /\ file[EntryAt(file, c[k], l)] = [data |-> k]
  <2>1. /\ header[k].len \in Nat /\ Dir(k).len \in Nat /\ header[k].len <= Dir(k).len /\ Dirs[k] = Dir(k)
        /\ LaidOut(file, Dirs, c) /\ Older(header[k], Dir(k))
    BY <1>1, <1>2, Basics DEF Headers
  <2>2. header[k].root = Dir(k).root /\ header[k].len > l /\ l \in 0 .. (Dir(k).len - 1) /\ l \in Nat
    BY <2>1 DEF Older
  <2>3. /\ ChainOf(file, header[k].root, c[k]) /\ Mapped(file, k, c[k], Dir(k).len) /\ c[k] \in Seq(Nat)
        /\ Len(c[k]) \in Nat
    BY <2>1, <2>2, LaidTypes
  <2>4. At(l) < Len(c[k]) /\ EntryAt(file, c[k], l) \in 1 .. Len(file) /\ file[EntryAt(file, c[k], l)] = [data |-> k]
    BY <2>2, <2>3 DEF Mapped
  <2>5. At(l) \in Nat
    BY <2>2, Division
  <2>6. DirPage(header[k], At(l)) = c[k][At(l) + 1]
    BY <2>3, <2>4, <2>5, DirPageTakes
  <2>7. c[k][At(l) + 1] # UNMAPPED
    <3>1. At(l) + 1 \in 1 .. Len(c[k])
      BY <2>3, <2>4, <2>5
    <3> QED
      BY <2>3, <3>1 DEF ChainOf, UNMAPPED
  <2>8. ~(l >= header[k].len)
    BY <2>1, <2>2
  <2> QED
    BY <2>4, <2>6, <2>7, <2>8 DEF Resolve, EntryAt, At
<1>4. ASSUME NEW k \in DataKinds
      PROVE  LET mapped == {Resolve(header[k], l) : l \in 0 .. (header[k].len - 1)}
             IN  /\ Len(given[k]) = header[k].len
                 /\ \A l \in 1 .. Len(given[k]) : given[k][l] \in {UNMAPPED, Resolve(header[k], l - 1)}
                 /\ \A p \in mapped : p # UNMAPPED /\ file[p] = [data |-> k]
                 /\ Cardinality(mapped) = header[k].len
  <2> DEFINE mapped == {Resolve(header[k], l) : l \in 0 .. (header[k].len - 1)}
  <2>1. /\ Len(given[k]) = header[k].len
        /\ \A l \in 1 .. Len(given[k]) : given[k][l] \in {UNMAPPED, EntryAt(file, c[k], l - 1)}
    BY <1>2 DEF Fits, GivenFits
  <2>2. header[k].len \in Nat
    BY <1>1, <1>2, Basics
  <2>3. ASSUME NEW l \in 1 .. Len(given[k]) PROVE given[k][l] \in {UNMAPPED, Resolve(header[k], l - 1)}
    <3>1. l - 1 \in 0 .. (header[k].len - 1)
      BY <2>1, <2>2
    <3>2. Resolve(header[k], l - 1) = EntryAt(file, c[k], l - 1)
      BY <1>3, <3>1
    <3> QED
      BY <2>1, <3>2
  <2>4. ASSUME NEW p \in mapped PROVE p # UNMAPPED /\ file[p] = [data |-> k]
    <3>1. PICK l \in 0 .. (header[k].len - 1) : p = Resolve(header[k], l)
      OBVIOUS
    <3>2. p = EntryAt(file, c[k], l) /\ p \in 1 .. Len(file) /\ file[p] = [data |-> k]
      BY <1>3, <3>1
    <3> QED
      BY <3>2 DEF UNMAPPED
  <2>5. ASSUME NEW l \in 0 .. (header[k].len - 1), NEW m \in 0 .. (header[k].len - 1),
               Resolve(header[k], l) = Resolve(header[k], m)
        PROVE  l = m
    <3>1. EntryAt(file, c[k], l) = EntryAt(file, c[k], m)
      BY <1>3, <2>5
    <3>2. /\ Mapped(file, k, c[k], Dir(k).len) /\ Dir(k).len \in Nat /\ header[k].len <= Dir(k).len
      BY <1>1, <1>2, Basics, LaidTypes
    <3>3. l \in 0 .. (Dir(k).len - 1) /\ m \in 0 .. (Dir(k).len - 1)
      BY <2>2, <3>2
    <3> QED
      BY <3>1, <3>2, <3>3 DEF Mapped
  <2>6. Cardinality(mapped) = header[k].len
    <3>1. PICK D, F : D = 0 .. (header[k].len - 1) /\ F = [l \in D |-> Resolve(header[k], l)]
      OBVIOUS
    <3>2. \A l \in D : F[l] = Resolve(header[k], l)
      BY <3>1
    <3>3. ValuesOn(mapped, F, D)
      BY <3>1, <3>2 DEF ValuesOn
    <3>4. OneToOne(F, D)
      BY <2>5, <3>1, <3>2 DEF OneToOne
    <3> HIDE DEF mapped
    <3>5. PICK n \in Nat : n = header[k].len
      BY <2>2
    <3>6. D = 0 .. (n - 1)
      BY <3>1, <3>5
    <3>7. Cardinality(mapped) = n
      BY <3>3, <3>4, <3>6, AsManyPages
    <3> QED
      BY <3>5, <3>7
  <2> HIDE DEF mapped
  <2>7. /\ \A l \in 1 .. Len(given[k]) : given[k][l] \in {UNMAPPED, Resolve(header[k], l - 1)}
        /\ \A p \in mapped : p # UNMAPPED /\ file[p] = [data |-> k]
    BY <2>3, <2>4
  <2> QED
    BY <2>1, <2>6, <2>7 DEF mapped
<1> QED
  BY <1>4 DEF PagesStayMapped

\* Whatever fails or dies between the writes of an allocation, the logical pages that callers
\* were given keep their pages, in each directory every page below the length is mapped, to a
\* page of its kind and to one of its own (storage/page_directory.rs).
THEOREM MappedForGood == DirectorySpec => []PagesStayMapped
<1>1. DirectoryInit => Consistent
  BY FitsInit
<1>2. Consistent /\ [DirectoryNext]_dirVars => Consistent'
  BY FitsNext
<1>3. Consistent => PagesStayMapped
  BY PagesMapped
<1> QED
  BY <1>1, <1>2, <1>3, PTL DEF DirectorySpec

-----------------------------------------------------------------------------
(* The buckets of the property index, as chains of pages. *)

BucketPages == [next : Nat, entries : Seq(Keys \X Records)]
Books == [pages : Seq(BucketPages), head : [BucketIds -> Nat]]

\* The pages of a bucket, from its head on.  A page is linked behind pages that are older.
BucketLinks(b, head, s) ==
    /\ head = IF s = <<>> THEN NO_ROOT ELSE s[1]
    /\ \A i \in 1 .. Len(s) : /\ s[i] \in i .. Len(b.pages)
                              /\ b.pages[s[i]].next = IF i = Len(s) THEN NO_ROOT ELSE s[i + 1]

\* The buckets lie on the chains c, which have no page in common.
Shelved(b, c) ==
    /\ b \in Books /\ c \in [BucketIds -> Seq(Nat)]
    /\ \A u \in BucketIds : BucketLinks(b, b.head[u], c[u])
    /\ \A u, w \in BucketIds : \A i \in 1 .. Len(c[u]), j \in 1 .. Len(c[w]) : c[u][i] = c[w][j] => u = w /\ i = j

\* The walk along the links comes to the pages of the bucket one by one.
LEMMA PagesFromIs ==
    ASSUME NEW b \in Books, NEW s \in Seq(Nat), NEW head, BucketLinks(b, head, s)
    PROVE  PagesFrom(b, head) = s
<1> DEFINE N == Len(b.pages)
           Upto(k) == IF k < Len(s) THEN k + 1 ELSE Len(s)
           g == [k \in 0 .. N |-> SubSeq(s, 1, Upto(k))]
           Onward(x) == IF x = <<>> \/ b.pages[x[Len(x)]].next = NO_ROOT THEN x
                          ELSE Append(x, b.pages[x[Len(x)]].next)
           Step(w, k) == IF k = 0 THEN IF head = NO_ROOT THEN <<>> ELSE <<head>> ELSE Onward(w[k - 1])
           Walks(w) == w = [k \in 0 .. N |-> Step(w, k)]
<1>1. N \in Nat /\ Len(s) \in Nat /\ b.pages \in Seq(BucketPages)
  BY DEF Books
<1>2. \A i \in 1 .. Len(s) : s[i] \in i .. N /\ s[i] \in Nat /\ s[i] # 0
  BY <1>1 DEF BucketLinks
<1>3. Len(s) <= N
  BY <1>1, <1>2
<1>4. \A k \in 0 .. N : g[k] = Step(g, k)
  <2> SUFFICES ASSUME NEW k \in 0 .. N PROVE g[k] = Step(g, k)
    OBVIOUS
  <2>1. CASE k = 0
    <3>1. CASE s = <<>>
      <4>1. g[0] = <<>>
        BY <3>1, <1>1, <2>1
      <4> QED
        BY <4>1, <3>1, <2>1 DEF BucketLinks
    <3>2. CASE s # <<>>
      <4>1. Len(s) >= 1 /\ s[1] # 0 /\ head = s[1]
        BY <3>2, <1>1, <1>2, EmptySeq DEF BucketLinks
      <4>2. g[0] = SubSeq(s, 1, 1)
        BY <4>1, <1>1
      <4>3. SubSeq(s, 1, 1) = <<s[1]>>
        <5>1. Len(SubSeq(s, 1, 1)) = 1 /\ SubSeq(s, 1, 1)[1] = s[1] /\ SubSeq(s, 1, 1) \in Seq(Nat)
          BY <4>1, <1>1
        <5>2. s[1] \in Nat /\ <<s[1]>> \in Seq(Nat) /\ Len(<<s[1]>>) = 1 /\ <<s[1]>>[1] = s[1]
          BY <4>1, <1>1, <1>2
        <5>3. \A i \in 1 .. Len(SubSeq(s, 1, 1)) : SubSeq(s, 1, 1)[i] = <<s[1]>>[i]
          BY <5>1, <5>2
        <5>4. Len(SubSeq(s, 1, 1)) = Len(<<s[1]>>)
          BY <5>1, <5>2
        <5> QED
          BY <5>1, <5>2, <5>3, <5>4, SeqEqual, Zenon
      <4>4. Step(g, 0) = <<s[1]>>
        BY <4>1 DEF NO_ROOT
      <4> QED
        BY <4>2, <4>3, <4>4, <2>1
    <3> QED
      BY <3>1, <3>2
  <2>2. CASE k # 0
    <3>0. k - 1 \in 0 .. N /\ k \in Nat
      BY <2>2, <1>1
    <3>1. CASE s = <<>>
      <4>1. g[k - 1] = <<>> /\ g[k] = <<>>
        BY <3>0, <3>1, <1>1
      <4> QED
        BY <4>1, <2>2
    <3>2. CASE s # <<>> /\ k < Len(s)
      <4>1. Upto(k - 1) = k /\ Upto(k) = k + 1
        BY <3>2, <3>0, <1>1
      <4>2. g[k - 1] = SubSeq(s, 1, k) /\ g[k] = SubSeq(s, 1, k + 1)
        BY <4>1, <3>0
      <4>3. Len(SubSeq(s, 1, k)) = k /\ SubSeq(s, 1, k)[k] = s[k] /\ SubSeq(s, 1, k) # <<>>
        BY <3>0, <2>2, <3>2, <1>1
      <4>4. b.pages[s[k]].next = s[k + 1] /\ s[k + 1] # NO_ROOT
        <5>1. k \in 1 .. Len(s) /\ k + 1 \in 1 .. Len(s) /\ k # Len(s)
          BY <3>0, <2>2, <3>2, <1>1
        <5>2. b.pages[s[k]].next = IF k = Len(s) THEN NO_ROOT ELSE s[k + 1]
          BY <5>1 DEF BucketLinks
        <5> QED
          BY <5>1, <5>2, <1>2 DEF NO_ROOT
      <4>5. SubSeq(s, 1, k + 1) = Append(SubSeq(s, 1, k), s[k + 1])
        BY <3>0, <2>2, <3>2, <1>1
      <4>6. Onward(SubSeq(s, 1, k)) = Append(SubSeq(s, 1, k), s[k + 1])
        BY <4>3, <4>4
      <4> QED
        BY <4>2, <4>5, <4>6, <2>2
    <3>3. CASE s # <<>> /\ k >= Len(s)
      <4>1. Upto(k - 1) = Len(s) /\ Upto(k) = Len(s) /\ Len(s) >= 1
        BY <3>3, <3>0, <1>1, EmptySeq
      <4>2. SubSeq(s, 1, Len(s)) = s
        BY <1>1
      <4>3. g[k - 1] = s /\ g[k] = s
        BY <4>1, <4>2, <3>0
      <4>4. b.pages[s[Len(s)]].next = NO_ROOT
        BY <4>1, <1>1 DEF BucketLinks
      <4>5. Onward(s) = s
        BY <4>4
      <4> QED
        BY <4>3, <4>5, <2>2
    <3>4. k < Len(s) \/ k >= Len(s)
      BY <1>1, <3>0
    <3> QED
      BY <3>1, <3>2, <3>3, <3>4
  <2> QED
    BY <2>1, <2>2
<1>5. Walks(g)
  <2> DEFINE h == [k \in 0 .. N |-> Step(g, k)]
  <2>1. \A k \in 0 .. N : g[k] = h[k]
    BY <1>4
  <2> HIDE DEF Step
  <2> QED
    BY <2>1
<1> HIDE DEF g, Onward
<1>6. ASSUME NEW w, Walks(w) PROVE \A k \in 0 .. N : w[k] = g[k]
  <2> DEFINE S == {k \in Nat : k <= N => w[k] = g[k]}
  <2>1. \A k \in 0 .. N : w[k] = Step(w, k) /\ g[k] = Step(g, k)
    BY <1>4, <1>6
  <2>2. 0 \in S
    BY <2>1, <1>1
  <2>3. ASSUME NEW k \in Nat, k \in S PROVE k + 1 \in S
    <3>1. CASE k + 1 <= N
      <4>1. k <= N /\ k + 1 \in 0 .. N /\ (k + 1) - 1 = k /\ k + 1 # 0
        BY <3>1, <1>1
      <4>2. w[k + 1] = Step(w, k + 1) /\ g[k + 1] = Step(g, k + 1)
        BY <2>1, <4>1
      <4>3. w[k] = g[k]
        BY <2>3, <4>1
      <4> HIDE DEF S
      <4>4. Step(w, k + 1) = Step(g, k + 1)
        BY <4>1, <4>3
      <4>5. w[k + 1] = g[k + 1]
        BY <4>2, <4>4
      <4> QED
        BY <4>5 DEF S
    <3> QED
      BY <2>3, <3>1
  <2> HIDE DEF S
  <2>4. Nat \subseteq S
    BY <2>2, <2>3, SetInduction
  <2> QED
    BY <2>4, <1>1 DEF S
<1> DEFINE W == CHOOSE w : Walks(w)
<1>7. Walks(W)
  <2> HIDE DEF Walks
  <2> QED
    BY <1>5
<1>8. PagesFrom(b, head) = W[N]
  BY DEF PagesFrom, Onward
<1>9. W[N] = g[N]
  <2> HIDE DEF Walks, W
  <2> QED
    BY <1>6, <1>7, <1>1
<1>10. g[N] = s
  <2>1. Upto(N) = Len(s)
    BY <1>1, <1>3
  <2>2. SubSeq(s, 1, Len(s)) = s
    BY <1>1
  <2> QED
    <3>1. N \in 0 .. N
      BY <1>1
    <3>2. g[N] = SubSeq(s, 1, Upto(N))
      BY <3>1 DEF g
    <3> QED
      BY <2>1, <2>2, <3>2
<1> QED
  BY <1>8, <1>9, <1>10

-----------------------------------------------------------------------------
\* Entries by their number in the chain.

\* Entry i of page k of the chain s is e.
FiledAt(b, s, e, k, i) ==
    /\ k \in 1 .. Len(s)
    /\ i \in 1 .. Len(b.pages[s[k]].entries)
    /\ b.pages[s[k]].entries[i] = e

\* The entry is in its bucket exactly if es has it, and then once.
Filed(b, c, es) ==
    \A key \in Keys, r \in Records :
        /\ <<key, r>> \in es <=> \E k, i \in Nat : FiledAt(b, c[BucketOf[key]], <<key, r>>, k, i)
        /\ \A k, i, m, j \in Nat :
               /\ FiledAt(b, c[BucketOf[key]], <<key, r>>, k, i)
               /\ FiledAt(b, c[BucketOf[key]], <<key, r>>, m, j)
               => k = m /\ i = j

\* What is known of the parts of sound buckets.
LEMMA ShelvedParts ==
    ASSUME NEW b, NEW c, Shelved(b, c)
    PROVE  /\ b \in Books /\ b = [pages |-> b.pages, head |-> b.head]
           /\ b.pages \in Seq(BucketPages) /\ b.head \in [BucketIds -> Nat] /\ Len(b.pages) \in Nat
           /\ \A p \in 1 .. Len(b.pages) : /\ b.pages[p] \in BucketPages /\ b.pages[p].next \in Nat
                                           /\ b.pages[p].entries \in Seq(Keys \X Records)
                                           /\ Len(b.pages[p].entries) \in Nat
           /\ \A u \in BucketIds : /\ c[u] \in Seq(Nat) /\ Len(c[u]) \in Nat /\ BucketLinks(b, b.head[u], c[u])
                                   /\ b.head[u] = NO_ROOT <=> c[u] = <<>>
                                   /\ \A i \in 1 .. Len(c[u]) : c[u][i] \in 1 .. Len(b.pages)
<1>1. b \in Books /\ c \in [BucketIds -> Seq(Nat)] /\ \A u \in BucketIds : BucketLinks(b, b.head[u], c[u])
  BY DEF Shelved
<1>2. b = [pages |-> b.pages, head |-> b.head] /\ b.pages \in Seq(BucketPages) /\ b.head \in [BucketIds -> Nat]
  BY <1>1 DEF Books
<1>3. Len(b.pages) \in Nat
  BY <1>2
<1>4. ASSUME NEW p \in 1 .. Len(b.pages)
      PROVE  /\ b.pages[p] \in BucketPages /\ b.pages[p].next \in Nat
             /\ b.pages[p].entries \in Seq(Keys \X Records) /\ Len(b.pages[p].entries) \in Nat
  <2>1. b.pages[p] \in BucketPages
    BY <1>2
  <2>2. b.pages[p].next \in Nat /\ b.pages[p].entries \in Seq(Keys \X Records)
    BY <2>1 DEF BucketPages
  <2> QED
    BY <2>1, <2>2, LenProperties
<1>5. ASSUME NEW u \in BucketIds
      PROVE  /\ c[u] \in Seq(Nat) /\ Len(c[u]) \in Nat
             /\ b.head[u] = NO_ROOT <=> c[u] = <<>>
             /\ \A i \in 1 .. Len(c[u]) : c[u][i] \in 1 .. Len(b.pages)
  <2>1. c[u] \in Seq(Nat) /\ Len(c[u]) \in Nat /\ BucketLinks(b, b.head[u], c[u])
    BY <1>1
  <2>2. \A i \in 1 .. Len(c[u]) : c[u][i] \in 1 .. Len(b.pages)
    BY <2>1, <1>3 DEF BucketLinks
  <2>3. b.head[u] = NO_ROOT <=> c[u] = <<>>
    <3>1. CASE c[u] = <<>>
      BY <3>1, <2>1 DEF BucketLinks
    <3>2. CASE c[u] # <<>>
      <4>1. 1 \in 1 .. Len(c[u])
        BY <3>2, <2>1, EmptySeq
      <4>2. c[u][1] # NO_ROOT /\ b.head[u] = c[u][1]
        BY <4>1, <2>1, <2>2, <3>2 DEF BucketLinks, NO_ROOT
      <4> QED
        BY <4>2, <3>2
    <3> QED
      BY <3>1, <3>2
  <2> QED
    BY <2>1, <2>2, <2>3
<1> QED
  BY <1>1, <1>2, <1>3, <1>4, <1>5

\* The places of an entry are those in the chain of its key.
LEMMA PlacesAre ==
    ASSUME NEW b, NEW c, Shelved(b, c), NEW key \in Keys, NEW r \in Records
    PROVE  /\ BucketOf[key] \in BucketIds
           /\ BucketChain(b, key) = c[BucketOf[key]]
           /\ \A x : x \in Places(b, key, r) <=>
                     \E k, i \in Nat : /\ x = <<c[BucketOf[key]][k], i>>
                                       /\ FiledAt(b, c[BucketOf[key]], <<key, r>>, k, i)
<1> DEFINE u == BucketOf[key]
           s == c[u]
<1>1. u \in BucketIds
  BY DEF BucketIds, Keys
<1>2. s \in Seq(Nat) /\ BucketLinks(b, b.head[u], s) /\ b \in Books /\ Len(s) \in Nat
  BY <1>1, ShelvedParts
<1>3. BucketChain(b, key) = s
  BY <1>2, PagesFromIs DEF BucketChain
<1>4. DOMAIN s = 1 .. Len(s)
  BY <1>2
<1>5. \A k \in DOMAIN s : LET es == b.pages[s[k]].entries IN DOMAIN es = 1 .. Len(es) /\ Len(es) \in Nat
  BY <1>1, <1>4, ShelvedParts
<1> DEFINE Here(k) == {<<s[k], i>> : i \in {j \in DOMAIN b.pages[s[k]].entries : b.pages[s[k]].entries[j] = <<key, r>>}}
<1>6. Places(b, key, r) = UNION {Here(k) : k \in DOMAIN s}
  BY <1>3 DEF Places
<1>7. ASSUME NEW x
      PROVE  x \in Places(b, key, r) <=> \E k, i \in Nat : x = <<s[k], i>> /\ FiledAt(b, s, <<key, r>>, k, i)
  <2>1. x \in Places(b, key, r) <=> \E k \in DOMAIN s : x \in Here(k)
    <3> HIDE DEF Here
    <3> QED
      BY <1>6
  <2>2. ASSUME NEW k \in DOMAIN s, x \in Here(k)
        PROVE  \E i \in Nat : x = <<s[k], i>> /\ FiledAt(b, s, <<key, r>>, k, i)
    <3>1. PICK i \in DOMAIN b.pages[s[k]].entries : b.pages[s[k]].entries[i] = <<key, r>> /\ x = <<s[k], i>>
      BY <2>2
    <3>2. i \in 1 .. Len(b.pages[s[k]].entries) /\ i \in Nat /\ k \in 1 .. Len(s)
      <4>1. /\ DOMAIN b.pages[s[k]].entries = 1 .. Len(b.pages[s[k]].entries)
            /\ Len(b.pages[s[k]].entries) \in Nat
        BY <1>5
      <4>2. i \in 1 .. Len(b.pages[s[k]].entries)
        BY <4>1
      <4> HIDE DEF s
      <4> QED
        BY <1>4, <4>1, <4>2
    <3> HIDE DEF s
    <3> QED
      BY <3>1, <3>2 DEF FiledAt
  <2>3. ASSUME NEW k \in Nat, NEW i \in Nat, x = <<s[k], i>>, FiledAt(b, s, <<key, r>>, k, i)
        PROVE  k \in DOMAIN s /\ x \in Here(k)
    <3>1. k \in DOMAIN s
      BY <2>3, <1>4 DEF FiledAt
    <3>2. i \in DOMAIN b.pages[s[k]].entries /\ b.pages[s[k]].entries[i] = <<key, r>>
      <4>1. DOMAIN b.pages[s[k]].entries = 1 .. Len(b.pages[s[k]].entries)
        BY <3>1, <1>5
      <4> HIDE DEF s
      <4> QED
        BY <2>3, <4>1 DEF FiledAt
    <3> QED
      BY <2>3, <3>1, <3>2
  <2>4. \A k \in DOMAIN s : k \in Nat
    BY <1>4
  <2> HIDE DEF Here, s
  <2> QED
    BY <2>1, <2>2, <2>3, <2>4
<1> QED
  BY <1>1, <1>3, <1>7

-----------------------------------------------------------------------------
\* Pages and entries that come and go.

\* Pages that are as they were.
EntriesStay(b, t, s) == \A k \in 1 .. Len(s) : t.pages[s[k]].entries = b.pages[s[k]].entries

LEMMA EntriesStayHold ==
    ASSUME NEW b, NEW t, NEW s, EntriesStay(b, t, s)
    PROVE  \A e, k, i : FiledAt(t, s, e, k, i) <=> FiledAt(b, s, e, k, i)
BY DEF EntriesStay, FiledAt

\* A page that nothing links to changes no bucket.
LEMMA LoosePage ==
    ASSUME NEW b, NEW c, Shelved(b, c), NEW page \in BucketPages
    PROVE  /\ Shelved(AppendedPage(b, page), c)
           /\ \A u \in BucketIds : EntriesStay(b, AppendedPage(b, page), c[u])
           /\ AppendedPage(b, page) = [pages |-> Append(b.pages, page), head |-> b.head]
           /\ Append(b.pages, page) \in Seq(BucketPages)
<1> DEFINE t == AppendedPage(b, page)
           N == Len(b.pages)
<1>1. /\ b = [pages |-> b.pages, head |-> b.head] /\ b.pages \in Seq(BucketPages)
      /\ b.head \in [BucketIds -> Nat] /\ N \in Nat
  BY ShelvedParts
<1>2. t = [pages |-> Append(b.pages, page), head |-> b.head]
  <2>1. t = [b EXCEPT !.pages = Append(b.pages, page)]
    BY DEF AppendedPage
  <2> HIDE DEF t
  <2> QED
    BY <1>1, <2>1
<1>3. t.pages = Append(b.pages, page) /\ t.head = b.head
  BY <1>2
<1>4. /\ t.pages \in Seq(BucketPages) /\ Len(t.pages) = N + 1
      /\ \A p \in 1 .. N : t.pages[p] = b.pages[p]
  BY <1>1, <1>3
<1>5. t \in Books
  BY <1>1, <1>2, <1>3, <1>4 DEF Books
<1> HIDE DEF t
<1>6. ASSUME NEW u \in BucketIds PROVE BucketLinks(t, t.head[u], c[u]) /\ EntriesStay(b, t, c[u])
  <2>1. BucketLinks(b, b.head[u], c[u]) /\ \A i \in 1 .. Len(c[u]) : c[u][i] \in 1 .. N
    BY ShelvedParts
  <2>2. \A i \in 1 .. Len(c[u]) : t.pages[c[u][i]] = b.pages[c[u][i]]
    BY <2>1, <1>4
  <2>3. \A i \in 1 .. Len(c[u]) : c[u][i] \in i .. N => c[u][i] \in i .. Len(t.pages)
    BY <1>1, <1>4
  <2>4. BucketLinks(t, b.head[u], c[u])
    BY <2>1, <2>2, <2>3, Zenon DEF BucketLinks
  <2> QED
    BY <2>2, <2>4, <1>3 DEF EntriesStay
<1>7. Shelved(t, c)
  BY <1>5, <1>6 DEF Shelved
<1> QED
  BY <1>2, <1>3, <1>4, <1>6, <1>7 DEF t

\* bucket_head_ensure gives the bucket of the key a page, and moves no entry.
LEMMA BucketMade ==
    ASSUME NEW b, NEW c, Shelved(b, c), NEW key \in Keys
    PROVE  \E d : /\ Shelved(WithBucket(b, key), d) /\ d[BucketOf[key]] # <<>>
                  /\ \A u \in BucketIds : \A e, k, i :
                         FiledAt(WithBucket(b, key), d[u], e, k, i) <=> FiledAt(b, c[u], e, k, i)
<1> DEFINE w == BucketOf[key]
           N == Len(b.pages)
           a == AppendedPage(b, EmptyPage)
           t == [a EXCEPT !.head[w] = N + 1]
           d == [c EXCEPT ![w] = <<N + 1>>]
<1>1. w \in BucketIds
  BY DEF BucketIds, Keys
<1>2. CASE b.head[w] # NO_ROOT
  <2>1. WithBucket(b, key) = b
    BY <1>2 DEF WithBucket
  <2>2. c[w] # <<>>
    BY <1>1, <1>2, ShelvedParts
  <2> QED
    BY <2>1, <2>2
<1>3. CASE b.head[w] = NO_ROOT
  <2>1. WithBucket(b, key) = t
    BY <1>3 DEF WithBucket
  <2>2. EmptyPage \in BucketPages /\ EmptyPage.next = NO_ROOT /\ EmptyPage.entries = <<>> /\ EmptyPage.next \in Nat
    BY DEF EmptyPage, BucketPages, NO_ROOT
  <2>3. /\ Shelved(a, c) /\ \A u \in BucketIds : EntriesStay(b, a, c[u])
        /\ a = [pages |-> Append(b.pages, EmptyPage), head |-> b.head]
    BY <2>2, LoosePage
  <2>4. b.pages \in Seq(BucketPages) /\ b.head \in [BucketIds -> Nat] /\ N \in Nat
    BY ShelvedParts
  <2>5. /\ t = [pages |-> a.pages, head |-> [b.head EXCEPT ![w] = N + 1]]
        /\ a.pages = Append(b.pages, EmptyPage)
    <3> HIDE DEF a
    <3>1. a.pages = Append(b.pages, EmptyPage) /\ a.head = b.head
      BY <2>3
    <3>2. a = [pages |-> a.pages, head |-> b.head]
      BY <2>3, <3>1
    <3>3. t = [pages |-> a.pages, head |-> [b.head EXCEPT ![w] = N + 1]]
      BY <3>2
    <3> QED
      BY <3>1, <3>3
  <2>6. /\ t.pages = a.pages /\ t.head \in [BucketIds -> Nat] /\ t.head[w] = N + 1
        /\ \A u \in BucketIds \ {w} : t.head[u] = b.head[u]
    <3>1. t.pages = a.pages /\ t.head = [b.head EXCEPT ![w] = N + 1]
      BY <2>5
    <3> HIDE DEF t
    <3> QED
      BY <2>4, <3>1, <1>1
  <2>7. a.pages \in Seq(BucketPages) /\ Len(a.pages) = N + 1 /\ a.pages[N + 1] = EmptyPage
    <3> HIDE DEF a, t
    <3> QED
      BY <2>2, <2>4, <2>5
  <2>8. t \in Books
    BY <2>5, <2>6, <2>7 DEF Books
  <2>9. c \in [BucketIds -> Seq(Nat)] /\ a.head = b.head
    BY <2>3 DEF Shelved
  <2>10. /\ d \in [BucketIds -> Seq(Nat)] /\ d[w] = <<N + 1>>
         /\ \A u \in BucketIds \ {w} : d[u] = c[u]
    BY <2>9, <2>4, <1>1
  <2>11. Len(d[w]) = 1 /\ d[w][1] = N + 1 /\ d[w] # <<>>
    BY <2>10, <2>4
  <2> HIDE DEF t, d, a
  <2>12. ASSUME NEW u \in BucketIds PROVE BucketLinks(t, t.head[u], d[u])
    <3>1. CASE u = w
      <4>1. \A i \in 1 .. Len(d[w]) : i = 1
        BY <2>11
      <4>2. N + 1 \in 1 .. Len(t.pages) /\ t.pages[N + 1].next = NO_ROOT
        BY <2>2, <2>4, <2>6, <2>7
      <4> QED
        BY <3>1, <4>1, <4>2, <2>6, <2>11 DEF BucketLinks
    <3>2. CASE u # w
      <4>1. BucketLinks(a, a.head[u], c[u])
        BY <2>3, ShelvedParts
      <4> QED
        BY <3>2, <4>1, <2>6, <2>9, <2>10 DEF BucketLinks
    <3> QED
      BY <3>1, <3>2
  <2>13. \A u \in BucketIds : \A i \in 1 .. Len(c[u]) : c[u][i] \in 1 .. N
    BY ShelvedParts
  <2>14. ASSUME NEW u \in BucketIds, NEW v \in BucketIds, NEW i \in 1 .. Len(d[u]), NEW j \in 1 .. Len(d[v]), d[u][i] = d[v][j]
         PROVE  u = v /\ i = j
    <3>1. \A x \in BucketIds \ {w} : \A k \in 1 .. Len(d[x]) : d[x][k] \in 1 .. N
      BY <2>10, <2>13
    <3>2. \A k \in 1 .. Len(d[w]) : k = 1 /\ d[w][k] = N + 1
      BY <2>11
    <3>3. N + 1 \notin 1 .. N
      BY <2>4
    <3>4. CASE u = w \/ v = w
      BY <3>1, <3>2, <3>3, <3>4, <2>14
    <3>5. CASE u # w /\ v # w
      <4>1. \A x, y \in BucketIds : \A k \in 1 .. Len(c[x]), m \in 1 .. Len(c[y]) : c[x][k] = c[y][m] => x = y /\ k = m
        BY DEF Shelved
      <4>2. d[u] = c[u] /\ d[v] = c[v]
        BY <3>5, <2>10
      <4> QED
        BY <4>1, <4>2, <2>14
    <3> QED
      BY <3>4, <3>5
  <2>15. Shelved(t, d)
    BY <2>8, <2>10, <2>12, <2>14 DEF Shelved
  <2>16. ASSUME NEW u \in BucketIds, NEW e, NEW k, NEW i
         PROVE  FiledAt(t, d[u], e, k, i) <=> FiledAt(b, c[u], e, k, i)
    <3>1. CASE u = w
      <4>1. c[w] = <<>>
        BY <1>1, <1>3, ShelvedParts
      <4>2. ~ FiledAt(b, c[w], e, k, i)
        BY <4>1 DEF FiledAt
      <4>3. \A m \in 1 .. Len(d[w]) : t.pages[d[w][m]].entries = <<>>
        BY <2>2, <2>6, <2>7, <2>11
      <4>4. ~ FiledAt(t, d[w], e, k, i)
        BY <4>3 DEF FiledAt
      <4> QED
        BY <3>1, <4>2, <4>4
    <3>2. CASE u # w
      <4>1. EntriesStay(b, t, c[u])
        BY <2>3, <2>6 DEF EntriesStay
      <4> QED
        BY <3>2, <4>1, <2>10, EntriesStayHold
    <3> QED
      BY <3>1, <3>2
  <2> QED
    BY <2>1, <2>11, <2>15, <2>16
<1> QED
  BY <1>2, <1>3

\* New entries of one page.
WithEntries(b, p, es) == [b EXCEPT !.pages[p].entries = es]
OnlyHere(b, t, p, es) == \A q \in 1 .. Len(b.pages) : t.pages[q].entries = IF q = p THEN es ELSE b.pages[q].entries

LEMMA EntriesSet ==
    ASSUME NEW b, NEW c, Shelved(b, c), NEW p \in 1 .. Len(b.pages), NEW es \in Seq(Keys \X Records),
           NEW t, t = WithEntries(b, p, es)
    PROVE  Shelved(t, c) /\ OnlyHere(b, t, p, es)
<1>1. /\ b = [pages |-> b.pages, head |-> b.head] /\ b.pages \in Seq(BucketPages)
      /\ b.head \in [BucketIds -> Nat] /\ Len(b.pages) \in Nat
  BY ShelvedParts
<1>2. b.pages[p] \in BucketPages
  BY <1>1
<1> DEFINE page == [b.pages[p] EXCEPT !.entries = es]
<1>3. page \in BucketPages /\ page.next = b.pages[p].next /\ page.entries = es
  BY <1>2 DEF BucketPages
<1>4. t = [pages |-> [b.pages EXCEPT ![p] = page], head |-> b.head]
  <2>1. t = [b EXCEPT !.pages = [@ EXCEPT ![p] = page]]
    BY DEF WithEntries
  <2> HIDE DEF page
  <2> QED
    BY <1>1, <2>1
<1> HIDE DEF page
<1>5. t.pages = [b.pages EXCEPT ![p] = page] /\ t.head = b.head
  BY <1>4
<1>6. /\ t.pages \in Seq(BucketPages) /\ Len(t.pages) = Len(b.pages) /\ t.pages[p] = page
      /\ \A q \in 1 .. Len(b.pages) : q # p => t.pages[q] = b.pages[q]
  <2>1. page \in BucketPages /\ p \in DOMAIN b.pages /\ DOMAIN b.pages = 1 .. Len(b.pages)
    BY <1>1, <1>3
  <2>2. [b.pages EXCEPT ![p] = page] \in Seq(BucketPages) /\ Len([b.pages EXCEPT ![p] = page]) = Len(b.pages)
    BY <2>1, <1>1, ExceptSeq
  <2> QED
    BY <2>1, <2>2, <1>5
<1>7. t \in Books
  BY <1>1, <1>4, <1>5, <1>6 DEF Books
<1>8. \A q \in 1 .. Len(b.pages) : t.pages[q].next = b.pages[q].next
  BY <1>3, <1>6
<1>9. ASSUME NEW u \in BucketIds PROVE BucketLinks(t, t.head[u], c[u])
  <2>1. BucketLinks(b, b.head[u], c[u]) /\ \A i \in 1 .. Len(c[u]) : c[u][i] \in 1 .. Len(b.pages)
    BY ShelvedParts
  <2>2. \A i \in 1 .. Len(c[u]) : t.pages[c[u][i]].next = b.pages[c[u][i]].next
    BY <2>1, <1>8
  <2> QED
    BY <2>1, <2>2, <1>5, <1>6 DEF BucketLinks
<1>10. Shelved(t, c)
  BY <1>7, <1>9 DEF Shelved
<1>11. \A q \in 1 .. Len(b.pages) : t.pages[q].entries = IF q = p THEN es ELSE b.pages[q].entries
  BY <1>3, <1>6
<1> QED
  BY <1>10, <1>11 DEF OnlyHere

\* First is the first.
LEMMA FirstIs ==
    ASSUME NEW S \in SUBSET Nat, S # {}
    PROVE  First(S) \in S
<1>1. \E k \in S : \A j \in S : k <= j
  BY LeastNumber
<1> QED
  BY <1>1 DEF First

\* The new entry is at one place, which held none, and the others stay where they are.
AddsAt(b, c, t, d, u, e, k0, i0) ==
    \A w \in BucketIds : \A f : \A k, i \in Nat :
        FiledAt(t, d[w], f, k, i) <=> \/ FiledAt(b, c[w], f, k, i)
                                      \/ w = u /\ f = e /\ k = k0 /\ i = i0
Adds(b, c, t, d, u, e) == \E k0, i0 \in Nat : AddsAt(b, c, t, d, u, e, k0, i0)

\* The entry goes to the first page of its bucket with room.
LEMMA RoomTaken ==
    ASSUME NEW b, NEW c, Shelved(b, c), NEW u \in BucketIds, NEW e \in Keys \X Records,
           NEW k0 \in 1 .. Len(c[u]), NEW t,
           t = [b EXCEPT !.pages[c[u][k0]].entries = Append(@, e)]
    PROVE  Shelved(t, c) /\ Adds(b, c, t, c, u, e)
<1> DEFINE p == c[u][k0]
           es == b.pages[p].entries
           more == Append(es, e)
<1>1. p \in 1 .. Len(b.pages) /\ es \in Seq(Keys \X Records) /\ Len(es) \in Nat /\ Len(c[u]) \in Nat
  BY ShelvedParts
<1>2. /\ more \in Seq(Keys \X Records) /\ Len(more) = Len(es) + 1 /\ more[Len(es) + 1] = e
      /\ \A i \in 1 .. Len(es) : more[i] = es[i]
  <2> HIDE DEF es
  <2> QED
    BY <1>1, AppendProperties
<1>3. t = WithEntries(b, p, more)
  BY DEF WithEntries
<1> HIDE DEF more, p, es
<1>4. Shelved(t, c) /\ OnlyHere(b, t, p, more)
  <2>1. p \in 1 .. Len(b.pages) /\ more \in Seq(Keys \X Records)
    BY <1>1, <1>2
  <2> QED
    BY <2>1, <1>3, EntriesSet
<1>5. \A w \in BucketIds : \A k \in 1 .. Len(c[w]) : c[w][k] \in 1 .. Len(b.pages) /\ (c[w][k] = p <=> w = u /\ k = k0)
  <2>1. \A w \in BucketIds : \A k \in 1 .. Len(c[w]) : c[w][k] \in 1 .. Len(b.pages)
    BY ShelvedParts
  <2>2. \A w \in BucketIds : \A k \in 1 .. Len(c[w]) : c[w][k] = c[u][k0] => w = u /\ k = k0
    BY DEF Shelved
  <2> QED
    BY <2>1, <2>2 DEF p
<1>6. ASSUME NEW w \in BucketIds, NEW f, NEW k \in Nat, NEW i \in Nat
      PROVE  FiledAt(t, c[w], f, k, i) <=> FiledAt(b, c[w], f, k, i) \/ (w = u /\ f = e /\ k = k0 /\ i = Len(es) + 1)
  <2>1. CASE k \notin 1 .. Len(c[w])
    BY <2>1 DEF FiledAt
  <2>2. CASE k \in 1 .. Len(c[w]) /\ c[w][k] # p
    <3>1. t.pages[c[w][k]].entries = b.pages[c[w][k]].entries /\ ~ (w = u /\ k = k0)
      BY <2>2, <1>4, <1>5 DEF OnlyHere
    <3> QED
      BY <3>1 DEF FiledAt
  <2>3. CASE k \in 1 .. Len(c[w]) /\ c[w][k] = p
    <3>1. w = u /\ k = k0 /\ t.pages[p].entries = more
      BY <2>3, <1>1, <1>4, <1>5 DEF OnlyHere
    <3>2. FiledAt(b, c[w], f, k, i) <=> i \in 1 .. Len(es) /\ es[i] = f
      BY <2>3 DEF FiledAt, es
    <3>3. FiledAt(t, c[w], f, k, i) <=> i \in 1 .. Len(more) /\ more[i] = f
      BY <2>3, <3>1 DEF FiledAt
    <3>4. i \in 1 .. Len(more) <=> i \in 1 .. Len(es) \/ i = Len(es) + 1
      BY <1>1, <1>2
    <3>5. Len(es) + 1 \notin 1 .. Len(es)
      BY <1>1
    <3> QED
      BY <3>1, <3>2, <3>3, <3>4, <3>5, <1>2
  <2> QED
    BY <2>1, <2>2, <2>3
<1>7. k0 \in Nat /\ Len(es) + 1 \in Nat
  BY <1>1
<1>8. AddsAt(b, c, t, c, u, e, k0, Len(es) + 1)
  BY <1>6 DEF AddsAt
<1> QED
  BY <1>4, <1>7, <1>8 DEF Adds

\* What Append gives.
LongerBy(s, x, y) ==
    /\ y # <<>> /\ Len(y) = Len(s) + 1 /\ y[Len(s) + 1] = x
    /\ \A i \in 1 .. Len(s) : y[i] = s[i]

LEMMA AppendIs ==
    ASSUME NEW S, NEW s \in Seq(S), NEW x \in S
    PROVE  Append(s, x) \in Seq(S) /\ LongerBy(s, x, Append(s, x))
BY AppendProperties DEF LongerBy

\* A bucket without room gets a page behind its last.
LEMMA PageLinked ==
    ASSUME NEW b, NEW c, Shelved(b, c), NEW u \in BucketIds, c[u] # <<>>, NEW e \in Keys \X Records,
           NEW page, page = [next |-> NO_ROOT, entries |-> <<e>>],
           NEW a, a = AppendedPage(b, page),
           NEW t, t = [a EXCEPT !.pages[c[u][Len(c[u])]].next = Len(b.pages) + 1]
    PROVE  \E d : Shelved(t, d) /\ Adds(b, c, t, d, u, e)
<1> DEFINE N == Len(b.pages)
           K == Len(c[u])
           last == c[u][K]
           d == [c EXCEPT ![u] = Append(@, N + 1)]
           linked == [a.pages[last] EXCEPT !.next = N + 1]
<1>1. b.pages \in Seq(BucketPages) /\ b.head \in [BucketIds -> Nat] /\ N \in Nat /\ Len(b.pages) = N
  BY ShelvedParts
<1>a. \A w \in BucketIds : c[w] \in Seq(Nat) /\ Len(c[w]) \in Nat
  BY ShelvedParts
<1>b. \A w \in BucketIds : \A i \in 1 .. Len(c[w]) : c[w][i] \in 1 .. N
  BY ShelvedParts
<1>c. \A w \in BucketIds : BucketLinks(b, b.head[w], c[w])
  BY ShelvedParts
<1>2. K \in Nat /\ K >= 1 /\ Len(c[u]) = K /\ last \in 1 .. N /\ last \in K .. N
  <2>1. K \in Nat /\ K >= 1
    BY <1>a, EmptySeq
  <2>2. K \in 1 .. Len(c[u]) /\ BucketLinks(b, b.head[u], c[u])
    BY <1>c, <2>1
  <2>3. last \in K .. N
    BY <2>2 DEF BucketLinks
  <2> QED
    BY <1>b, <2>1, <2>2, <2>3
<1>d. t = [a EXCEPT !.pages[last].next = N + 1]
  OBVIOUS
<1>e. last = c[u][K]
  OBVIOUS
<1> HIDE DEF N, K, last
<1>3. /\ page \in BucketPages /\ page.next = NO_ROOT /\ page.entries = <<e>> /\ Len(<<e>>) = 1 /\ <<e>>[1] = e
  BY DEF BucketPages, NO_ROOT
<1>4. /\ Shelved(a, c) /\ a = [pages |-> Append(b.pages, page), head |-> b.head]
      /\ \A w \in BucketIds : EntriesStay(b, a, c[w])
  BY <1>3, LoosePage
<1>5. /\ a.pages = Append(b.pages, page) /\ a.head = b.head
      /\ a = [pages |-> a.pages, head |-> b.head]
  BY <1>4
<1>6. /\ a.pages \in Seq(BucketPages) /\ Len(a.pages) = N + 1 /\ a.pages[N + 1] = page
      /\ \A q \in 1 .. N : a.pages[q] = b.pages[q]
  <2>1. page \in BucketPages
    BY <1>3
  <2> QED
    <3>1. b.pages \in Seq(BucketPages)
      BY <1>1
    <3>2. Append(b.pages, page) \in Seq(BucketPages) /\ LongerBy(b.pages, page, Append(b.pages, page))
      BY <2>1, <3>1, AppendIs
    <3>3. a.pages \in Seq(BucketPages) /\ LongerBy(b.pages, page, a.pages)
      BY <3>2, <1>5
    <3> QED
      BY <3>3, <1>1 DEF LongerBy
<1>7. last \in 1 .. Len(a.pages) /\ last # N + 1 /\ N + 1 \in 1 .. Len(a.pages)
  BY <1>1, <1>2, <1>6
<1>8. a.pages[last] \in BucketPages
  BY <1>6, <1>7
<1>9. linked \in BucketPages /\ linked.next = N + 1 /\ linked.entries = a.pages[last].entries
  <2>1. N + 1 \in Nat
    BY <1>1
  <2> QED
    BY <2>1, <1>8 DEF BucketPages
<1>10. t = [pages |-> [a.pages EXCEPT ![last] = linked], head |-> b.head]
  <2>1. t = [a EXCEPT !.pages = [@ EXCEPT ![last] = linked]]
    BY <1>d
  <2> HIDE DEF linked
  <2> QED
    BY <1>5, <2>1
<1> HIDE DEF linked
<1>11. t.pages = [a.pages EXCEPT ![last] = linked] /\ t.head = b.head
  <2> DEFINE P == [a.pages EXCEPT ![last] = linked]
  <2>1. t = [pages |-> P, head |-> b.head]
    BY <1>10
  <2> HIDE DEF P
  <2>2. \A x : x = [pages |-> P, head |-> b.head] => x.pages = P /\ x.head = b.head
    OBVIOUS
  <2>3. t.pages = P /\ t.head = b.head
    BY <2>1, <2>2, Zenon
  <2> QED
    BY <2>3 DEF P
<1>12. /\ t.pages \in Seq(BucketPages) /\ Len(t.pages) = N + 1
       /\ t.pages[last] = linked /\ \A q \in 1 .. N + 1 : q # last => t.pages[q] = a.pages[q]
  <2>0. last \in 1 .. Len(a.pages) /\ a.pages \in Seq(BucketPages) /\ linked \in BucketPages
    BY <1>6, <1>7, <1>9
  <2>1. [a.pages EXCEPT ![last] = linked] \in Seq(BucketPages) /\ Len([a.pages EXCEPT ![last] = linked]) = Len(a.pages)
    BY <2>0, ExceptSeq
  <2>2. DOMAIN a.pages = 1 .. N + 1
    BY <1>6
  <2>3. last \in 1 .. N + 1 /\ Len(a.pages) = N + 1
    BY <1>6, <1>7
  <2>4. t.pages \in Seq(BucketPages) /\ Len(t.pages) = N + 1
    BY <2>1, <2>3, <1>11
  <2>5. t.pages[last] = linked /\ \A q \in 1 .. N + 1 : q # last => t.pages[q] = a.pages[q]
    BY <2>2, <2>3, <1>11
  <2> QED
    BY <2>4, <2>5
<1>13. t \in Books
  BY <1>1, <1>10, <1>11, <1>12 DEF Books
<1>14. \A q \in 1 .. N : t.pages[q].entries = b.pages[q].entries /\ (q # last => t.pages[q] = b.pages[q])
  <2>1. \A q \in 1 .. N : q \in 1 .. N + 1
    BY <1>1
  <2> QED
    BY <2>1, <1>2, <1>6, <1>9, <1>12
<1>15. t.pages[N + 1] = page
  BY <1>6, <1>7, <1>12
<1>16. c \in [BucketIds -> Seq(Nat)]
  BY DEF Shelved
<1>17. /\ d \in [BucketIds -> Seq(Nat)] /\ d[u] = Append(c[u], N + 1)
       /\ \A w \in BucketIds \ {u} : d[w] = c[w]
  <2>1. Append(c[u], N + 1) \in Seq(Nat)
    BY <1>1, <1>a, AppendProperties
  <2> QED
    BY <2>1, <1>16
<1> HIDE DEF d
<1>18. Len(d[u]) = K + 1 /\ d[u][K + 1] = N + 1 /\ d[u] # <<>> /\ \A i \in 1 .. K : d[u][i] = c[u][i]
  <2>1. c[u] \in Seq(Nat) /\ N + 1 \in Nat
    BY <1>1, <1>a
  <2>2. LongerBy(c[u], N + 1, d[u])
    BY <2>1, <1>17, AppendIs
  <2> QED
    BY <2>2, <1>2 DEF LongerBy
<1>19. \A w \in BucketIds : \A i \in 1 .. Len(c[w]) : c[w][i] = last => w = u /\ i = K
  <2>1. K \in 1 .. Len(c[u])
    BY <1>2
  <2>2. \A w \in BucketIds : \A i \in 1 .. Len(c[w]) : \A j \in 1 .. Len(c[u]) : c[w][i] = c[u][j] => w = u /\ i = j
    BY DEF Shelved
  <2> QED
    BY <2>1, <2>2, <1>e
<1>20. ASSUME NEW w \in BucketIds PROVE BucketLinks(t, t.head[w], d[w])
  <2>1. BucketLinks(b, b.head[w], c[w]) /\ \A i \in 1 .. Len(c[w]) : c[w][i] \in 1 .. N
    BY <1>b, <1>c
  <2>2. CASE w # u
    <3>1. \A i \in 1 .. Len(c[w]) : t.pages[c[w][i]] = b.pages[c[w][i]]
      BY <1>14, <1>19, <2>1, <2>2
    <3>2. \A i \in 1 .. Len(c[w]) : c[w][i] \in i .. N => c[w][i] \in i .. Len(t.pages)
      <4> SUFFICES ASSUME NEW i \in 1 .. Len(c[w]), c[w][i] \in i .. N PROVE c[w][i] \in i .. (N + 1)
        BY <1>12
      <4> QED
        BY <1>1, <1>a
    <3>3. BucketLinks(t, b.head[w], c[w])
      BY <2>1, <3>1, <3>2, <1>1, Zenon DEF BucketLinks
    <3> QED
      BY <3>3, <2>2, <1>11, <1>17
  <2>3. CASE w = u
    <3>1. 1 \in 1 .. K /\ b.head[u] = c[u][1]
      BY <1>2, <2>1, <2>3 DEF BucketLinks
    <3>2. t.head[u] = d[u][1]
      BY <3>1, <1>11, <1>18
    <3>3. ASSUME NEW i \in 1 .. K
          PROVE  d[u][i] \in i .. N + 1 /\ t.pages[d[u][i]].next = d[u][i + 1]
      <4>1. d[u][i] = c[u][i] /\ c[u][i] \in i .. N /\ b.pages[c[u][i]].next = IF i = K THEN NO_ROOT ELSE c[u][i + 1]
        BY <1>2, <1>18, <2>1, <2>3, <1>1 DEF BucketLinks
      <4>2. CASE i = K
        <5>1. d[u][i] = last /\ d[u][i + 1] = N + 1 /\ t.pages[last].next = N + 1
          BY <4>1, <4>2, <1>e, <1>9, <1>12, <1>18
        <5>2. last \in i .. N + 1
          BY <4>2, <1>1, <1>2
        <5> QED
          BY <5>1, <5>2
      <4>3. CASE i # K
        <5>1. i + 1 \in 1 .. K
          BY <4>3, <1>2
        <5>2. t.pages[c[u][i]] = b.pages[c[u][i]]
          <6>1. c[u][i] \in 1 .. N /\ c[u][i] # last
            BY <4>3, <1>2, <1>b, <1>19
          <6> QED
            BY <6>1, <1>14
        <5> QED
          <6>1. c[u][i] \in i .. N + 1
            BY <4>1, <1>1
          <6>2. d[u][i + 1] = c[u][i + 1]
            BY <5>1, <1>18
          <6> QED
            BY <4>1, <4>3, <5>2, <6>1, <6>2
      <4> QED
        BY <4>2, <4>3
    <3>4. d[u][K + 1] \in K + 1 .. N + 1 /\ t.pages[d[u][K + 1]].next = NO_ROOT
      <4>1. N + 1 \in K + 1 .. N + 1
        BY <1>1, <1>2
      <4> QED
        BY <4>1, <1>3, <1>15, <1>18
    <3>5. ASSUME NEW i \in 1 .. Len(d[u])
          PROVE  /\ d[u][i] \in i .. Len(t.pages)
                 /\ t.pages[d[u][i]].next = IF i = Len(d[u]) THEN NO_ROOT ELSE d[u][i + 1]
      <4>1. i \in 1 .. K \/ i = K + 1
        BY <1>2, <1>18
      <4>2. i \in 1 .. K => i # K + 1
        BY <1>2
      <4> QED
        BY <4>1, <4>2, <3>3, <3>4, <1>12, <1>18
    <3> QED
      BY <2>3, <3>2, <3>5, <1>18 DEF BucketLinks
  <2> QED
    BY <2>2, <2>3
<1>21. ASSUME NEW v \in BucketIds, NEW w \in BucketIds, NEW i \in 1 .. Len(d[v]), NEW j \in 1 .. Len(d[w]), d[v][i] = d[w][j]
       PROVE  v = w /\ i = j
  <2>1. \A x \in BucketIds : \A k \in 1 .. Len(d[x]) :
            \/ k \in 1 .. Len(c[x]) /\ d[x][k] = c[x][k] /\ c[x][k] # N + 1
            \/ x = u /\ k = K + 1 /\ d[x][k] = N + 1
    <3> SUFFICES ASSUME NEW x \in BucketIds, NEW k \in 1 .. Len(d[x])
                 PROVE  \/ k \in 1 .. Len(c[x]) /\ d[x][k] = c[x][k] /\ c[x][k] # N + 1
                        \/ x = u /\ k = K + 1 /\ d[x][k] = N + 1
      OBVIOUS
    <3>1. \A m \in 1 .. Len(c[x]) : c[x][m] # N + 1
      <4>1. \A m \in 1 .. Len(c[x]) : c[x][m] \in 1 .. N
        BY <1>b
      <4>2. N + 1 \notin 1 .. N
        BY <1>1
      <4> QED
        BY <4>1, <4>2
    <3>2. CASE x # u
      BY <3>1, <3>2, <1>17
    <3>3. CASE x = u
      <4>1. k \in 1 .. K \/ k = K + 1
        BY <3>3, <1>2, <1>18
      <4> QED
        BY <4>1, <3>1, <3>3, <1>2, <1>18
    <3> QED
      BY <3>2, <3>3
  <2>2. \A x, y \in BucketIds : \A k \in 1 .. Len(c[x]), m \in 1 .. Len(c[y]) : c[x][k] = c[y][m] => x = y /\ k = m
    BY DEF Shelved
  <2> QED
    BY <2>1, <2>2, <1>21
<1>22. Shelved(t, d)
  BY <1>13, <1>17, <1>20, <1>21 DEF Shelved
<1>23. ASSUME NEW w \in BucketIds, NEW f, NEW k \in Nat, NEW i \in Nat
       PROVE  FiledAt(t, d[w], f, k, i) <=> FiledAt(b, c[w], f, k, i) \/ (w = u /\ f = e /\ k = K + 1 /\ i = 1)
  <2>1. \A m \in 1 .. Len(c[w]) : t.pages[c[w][m]].entries = b.pages[c[w][m]].entries
    BY <1>b, <1>14
  <2>2. CASE w # u
    <3>1. d[w] = c[w]
      BY <2>2, <1>17
    <3> QED
      BY <2>1, <2>2, <3>1 DEF FiledAt
  <2>3. CASE w = u /\ k # K + 1
    <3>1. k \in 1 .. Len(d[u]) <=> k \in 1 .. K
      BY <2>3, <1>2, <1>18
    <3> QED
      <4>1. ASSUME k \in 1 .. K PROVE t.pages[d[u][k]].entries = b.pages[c[u][k]].entries
        BY <4>1, <2>1, <2>3, <1>2, <1>18
      <4> QED
        BY <4>1, <2>3, <3>1, <1>2 DEF FiledAt
  <2>4. CASE w = u /\ k = K + 1
    <3>1. K + 1 \notin 1 .. Len(c[u]) /\ K + 1 \in 1 .. Len(d[u])
      BY <1>2, <1>18
    <3>2. t.pages[d[u][K + 1]].entries = <<e>>
      BY <1>3, <1>15, <1>18
    <3>3. i \in 1 .. 1 <=> i = 1
      OBVIOUS
    <3> QED
      BY <2>4, <3>1, <3>2, <3>3, <1>3 DEF FiledAt
  <2> QED
    BY <2>2, <2>3, <2>4
<1>24. Adds(b, c, t, d, u, e)
  <2>1. K + 1 \in Nat /\ 1 \in Nat
    BY <1>2
  <2> QED
    <3>1. AddsAt(b, c, t, d, u, e, K + 1, 1)
      BY <1>23 DEF AddsAt
    <3> QED
      BY <3>1, <2>1 DEF Adds
<1> QED
  BY <1>22, <1>24

\* The last element of s in the place of element j.
LastMoved(s, j, y) ==
    Len(y) = Len(s) - 1 /\ \A i \in 1 .. Len(s) - 1 : y[i] = IF i = j THEN s[Len(s)] ELSE s[i]

LEMMA LastMovedIs ==
    ASSUME NEW S, NEW s \in Seq(S), NEW j \in 1 .. Len(s),
           NEW y, y = SubSeq([s EXCEPT ![j] = s[Len(s)]], 1, Len(s) - 1)
    PROVE  y \in Seq(S) /\ LastMoved(s, j, y)
<1> DEFINE n == Len(s)
           over == [s EXCEPT ![j] = s[n]]
<1>1. n \in Nat /\ n \in 1 .. n
  <2>1. n \in Nat
    OBVIOUS
  <2> HIDE DEF n
  <2> QED
    BY <2>1 DEF n
<1>2. s[n] \in S
  BY <1>1
<1>3. over \in Seq(S) /\ Len(over) = n /\ \A i \in 1 .. n : over[i] = IF i = j THEN s[n] ELSE s[i]
  BY <1>2, ExceptSeq
<1>4. y = SubSeq(over, 1, n - 1)
  OBVIOUS
<1> HIDE DEF over
<1>5. \A i \in 1 .. n - 1 : over[i] \in S
  BY <1>1, <1>3
<1>6. /\ SubSeq(over, 1, n - 1) \in Seq(S) /\ Len(SubSeq(over, 1, n - 1)) = n - 1
      /\ \A i \in 1 .. n - 1 : SubSeq(over, 1, n - 1)[i] = over[i]
  BY <1>1, <1>3, <1>5
<1> QED
  BY <1>1, <1>3, <1>4, <1>6 DEF LastMoved

\* Entry i0 of page k0 of bucket u is gone, and the last of the n of that page has its place.
TakenAt(b, c, t, u, k0, i0, n) ==
    \A w \in BucketIds : \A f : \A k, i \in Nat :
        FiledAt(t, c[w], f, k, i) <=>
            \/ ~ (w = u /\ k = k0) /\ FiledAt(b, c[w], f, k, i)
            \/ w = u /\ k = k0 /\ i < n /\ i # i0 /\ FiledAt(b, c[u], f, k0, i)
            \/ w = u /\ k = k0 /\ i < n /\ i = i0 /\ FiledAt(b, c[u], f, k0, n)

LEMMA EntryTaken ==
    ASSUME NEW b, NEW c, Shelved(b, c), NEW u \in BucketIds, NEW k0 \in 1 .. Len(c[u]),
           NEW es, es = b.pages[c[u][k0]].entries, NEW i0 \in 1 .. Len(es),
           NEW less \in Seq(Keys \X Records), LastMoved(es, i0, less),
           NEW t, t = WithEntries(b, c[u][k0], less)
    PROVE  Shelved(t, c) /\ Len(es) \in Nat /\ TakenAt(b, c, t, u, k0, i0, Len(es))
<1> DEFINE p == c[u][k0]
           n == Len(es)
<1>1. p \in 1 .. Len(b.pages) /\ es \in Seq(Keys \X Records) /\ n \in Nat /\ Len(c[u]) \in Nat
  BY ShelvedParts
<1>5. Len(less) = n - 1 /\ \A i \in 1 .. n - 1 : less[i] = IF i = i0 THEN es[n] ELSE es[i]
  BY DEF LastMoved
<1>6. Shelved(t, c) /\ OnlyHere(b, t, p, less)
  BY <1>1, EntriesSet
<1>e. b.pages[p].entries = es /\ p = c[u][k0] /\ n = Len(es) /\ i0 \in 1 .. n
  OBVIOUS
<1> HIDE DEF p, n
<1>7. \A w \in BucketIds : \A k \in 1 .. Len(c[w]) : c[w][k] \in 1 .. Len(b.pages) /\ (c[w][k] = p <=> w = u /\ k = k0)
  <2>1. \A w \in BucketIds : \A k \in 1 .. Len(c[w]) : c[w][k] \in 1 .. Len(b.pages)
    BY ShelvedParts
  <2>2. \A w \in BucketIds : \A k \in 1 .. Len(c[w]) : c[w][k] = c[u][k0] => w = u /\ k = k0
    BY DEF Shelved
  <2> QED
    BY <2>1, <2>2 DEF p
<1>8. ASSUME NEW w \in BucketIds, NEW f, NEW k \in Nat, NEW i \in Nat
      PROVE  FiledAt(t, c[w], f, k, i) <=>
                 \/ ~ (w = u /\ k = k0) /\ FiledAt(b, c[w], f, k, i)
                 \/ w = u /\ k = k0 /\ i < n /\ i # i0 /\ FiledAt(b, c[u], f, k0, i)
                 \/ w = u /\ k = k0 /\ i < n /\ i = i0 /\ FiledAt(b, c[u], f, k0, n)
  <2>1. CASE k \notin 1 .. Len(c[w])
    BY <2>1 DEF FiledAt
  <2>2. CASE k \in 1 .. Len(c[w]) /\ ~ (w = u /\ k = k0)
    <3>1. t.pages[c[w][k]].entries = b.pages[c[w][k]].entries
      BY <2>2, <1>6, <1>7 DEF OnlyHere
    <3> QED
      BY <2>2, <3>1 DEF FiledAt
  <2>3. CASE w = u /\ k = k0
    <3>1. t.pages[p].entries = less /\ c[u][k0] = p /\ b.pages[p].entries = es
      BY <1>1, <1>6, <1>e DEF OnlyHere
    <3>2. FiledAt(t, c[w], f, k, i) <=> i \in 1 .. Len(less) /\ less[i] = f
      BY <2>3, <3>1 DEF FiledAt
    <3>3. \A j : FiledAt(b, c[u], f, k0, j) <=> j \in 1 .. n /\ es[j] = f
      BY <2>3, <3>1, <1>e DEF FiledAt
    <3>4. i \in 1 .. Len(less) <=> i \in 1 .. n /\ i < n
      <4>1. Len(less) = n - 1 /\ n \in Nat /\ i \in Nat
        BY <1>1, <1>5
      <4>2. i \in 1 .. n - 1 <=> i \in 1 .. n /\ i < n
        BY <4>1
      <4> QED
        BY <4>1, <4>2
    <3>5. i \in 1 .. Len(less) => less[i] = IF i = i0 THEN es[n] ELSE es[i]
      BY <3>4, <1>1, <1>5
    <3>6. i0 \in 1 .. n /\ n \in 1 .. n
      BY <1>1, <1>e
    <3> QED
      BY <2>3, <3>2, <3>3, <3>4, <3>5, <3>6
  <2> QED
    BY <2>1, <2>2, <2>3
<1>9. TakenAt(b, c, t, u, k0, i0, n)
  BY <1>8 DEF TakenAt
<1> QED
  BY <1>1, <1>6, <1>9, <1>e

-----------------------------------------------------------------------------
\* What is filed.

LEMMA FiledAlike ==
    ASSUME NEW b, NEW c, NEW t, NEW d, NEW es, Filed(b, c, es),
           \A u \in BucketIds : \A e, k, i : FiledAt(t, d[u], e, k, i) <=> FiledAt(b, c[u], e, k, i)
    PROVE  Filed(t, d, es)
<1> SUFFICES ASSUME NEW key \in Keys, NEW r \in Records
             PROVE  /\ <<key, r>> \in es <=> \E k, i \in Nat : FiledAt(t, d[BucketOf[key]], <<key, r>>, k, i)
                    /\ \A k, i, m, j \in Nat :
                           /\ FiledAt(t, d[BucketOf[key]], <<key, r>>, k, i)
                           /\ FiledAt(t, d[BucketOf[key]], <<key, r>>, m, j)
                           => k = m /\ i = j
  BY DEF Filed
<1>1. BucketOf[key] \in BucketIds
  BY DEF BucketIds, Keys
<1>2. \A k, i : FiledAt(t, d[BucketOf[key]], <<key, r>>, k, i) <=> FiledAt(b, c[BucketOf[key]], <<key, r>>, k, i)
  BY <1>1
<1>3. /\ <<key, r>> \in es <=> \E k, i \in Nat : FiledAt(b, c[BucketOf[key]], <<key, r>>, k, i)
      /\ \A k, i, m, j \in Nat :
             /\ FiledAt(b, c[BucketOf[key]], <<key, r>>, k, i)
             /\ FiledAt(b, c[BucketOf[key]], <<key, r>>, m, j)
             => k = m /\ i = j
  BY DEF Filed
<1> QED
  BY <1>2, <1>3

\* An entry that was not there, in its one place.
LEMMA FiledMore ==
    ASSUME NEW b, NEW c, NEW t, NEW d, NEW es, Filed(b, c, es), NEW key \in Keys, NEW r \in Records,
           Adds(b, c, t, d, BucketOf[key], <<key, r>>), <<key, r>> \notin es
    PROVE  Filed(t, d, es \cup {<<key, r>>})
<1> DEFINE new == es \cup {<<key, r>>}
<1>0. PICK k0 \in Nat, i0 \in Nat : AddsAt(b, c, t, d, BucketOf[key], <<key, r>>, k0, i0)
  BY DEF Adds
<1> SUFFICES ASSUME NEW q \in Keys, NEW o \in Records
             PROVE  /\ <<q, o>> \in new <=> \E k, i \in Nat : FiledAt(t, d[BucketOf[q]], <<q, o>>, k, i)
                    /\ \A k, i, m, j \in Nat :
                           /\ FiledAt(t, d[BucketOf[q]], <<q, o>>, k, i)
                           /\ FiledAt(t, d[BucketOf[q]], <<q, o>>, m, j)
                           => k = m /\ i = j
  BY DEF Filed
<1>1. BucketOf[q] \in BucketIds
  BY DEF BucketIds, Keys
<1>2. \A k, i \in Nat :
          FiledAt(t, d[BucketOf[q]], <<q, o>>, k, i) <=>
              \/ FiledAt(b, c[BucketOf[q]], <<q, o>>, k, i)
              \/ BucketOf[q] = BucketOf[key] /\ <<q, o>> = <<key, r>> /\ k = k0 /\ i = i0
  BY <1>0, <1>1 DEF AddsAt
<1>3. /\ <<q, o>> \in es <=> \E k, i \in Nat : FiledAt(b, c[BucketOf[q]], <<q, o>>, k, i)
      /\ \A k, i, m, j \in Nat :
             /\ FiledAt(b, c[BucketOf[q]], <<q, o>>, k, i)
             /\ FiledAt(b, c[BucketOf[q]], <<q, o>>, m, j)
             => k = m /\ i = j
  BY DEF Filed
<1>4. CASE <<q, o>> = <<key, r>>
  <2>1. q = key /\ o = r
    BY <1>4
  <2> QED
    BY <2>1, <1>2, <1>3
<1>5. CASE <<q, o>> # <<key, r>>
  <2>1. <<q, o>> \in new <=> <<q, o>> \in es
    BY <1>5
  <2>2. \A k, i \in Nat : FiledAt(t, d[BucketOf[q]], <<q, o>>, k, i) <=> FiledAt(b, c[BucketOf[q]], <<q, o>>, k, i)
    BY <1>2, <1>5
  <2> QED
    BY <2>1, <2>2, <1>3
<1> QED
  BY <1>4, <1>5

\* An entry gone from its one place.
LEMMA FiledLess ==
    ASSUME NEW b, NEW c, NEW t, NEW es, Filed(b, c, es), NEW key \in Keys, NEW r \in Records,
           NEW k0 \in Nat, NEW i0 \in Nat, NEW n \in Nat, i0 <= n,
           FiledAt(b, c[BucketOf[key]], <<key, r>>, k0, i0),
           \A f : \A i \in Nat : FiledAt(b, c[BucketOf[key]], f, k0, i) => i <= n,
           TakenAt(b, c, t, BucketOf[key], k0, i0, n)
    PROVE  Filed(t, c, es \ {<<key, r>>})
<1> DEFINE new == es \ {<<key, r>>}
           u == BucketOf[key]
           Is(f, k, i) == FiledAt(b, c[u], f, k, i)
<1> SUFFICES ASSUME NEW q \in Keys, NEW o \in Records
             PROVE  /\ <<q, o>> \in new <=> \E k, i \in Nat : FiledAt(t, c[BucketOf[q]], <<q, o>>, k, i)
                    /\ \A k, i, m, j \in Nat :
                           /\ FiledAt(t, c[BucketOf[q]], <<q, o>>, k, i)
                           /\ FiledAt(t, c[BucketOf[q]], <<q, o>>, m, j)
                           => k = m /\ i = j
  BY DEF Filed
<1>1. BucketOf[q] \in BucketIds /\ u \in BucketIds
  BY DEF BucketIds, Keys
<1>2. \A k, i \in Nat :
          FiledAt(t, c[BucketOf[q]], <<q, o>>, k, i) <=>
            \/ ~ (BucketOf[q] = u /\ k = k0) /\ FiledAt(b, c[BucketOf[q]], <<q, o>>, k, i)
            \/ BucketOf[q] = u /\ k = k0 /\ i < n /\ i # i0 /\ FiledAt(b, c[u], <<q, o>>, k0, i)
            \/ BucketOf[q] = u /\ k = k0 /\ i < n /\ i = i0 /\ FiledAt(b, c[u], <<q, o>>, k0, n)
  BY <1>1 DEF TakenAt
<1>3. /\ <<q, o>> \in es <=> \E k, i \in Nat : FiledAt(b, c[BucketOf[q]], <<q, o>>, k, i)
      /\ \A k, i, m, j \in Nat :
             /\ FiledAt(b, c[BucketOf[q]], <<q, o>>, k, i)
             /\ FiledAt(b, c[BucketOf[q]], <<q, o>>, m, j)
             => k = m /\ i = j
  BY DEF Filed
<1>4. CASE <<q, o>> = <<key, r>>
  <2>1. q = key /\ o = r
    BY <1>4
  <2>2. \A k, i \in Nat : FiledAt(b, c[u], <<key, r>>, k, i) => k = k0 /\ i = i0
    BY <2>1, <1>3
  <2>3. \A k, i \in Nat : ~ FiledAt(t, c[u], <<key, r>>, k, i)
    BY <1>2, <2>1, <2>2
  <2> QED
    BY <2>1, <2>3
<1>5. CASE <<q, o>> # <<key, r>>
  <2>1. <<q, o>> \in new <=> <<q, o>> \in es
    BY <1>5
  <2>2. CASE BucketOf[q] # u
    <3>1. \A k, i \in Nat : FiledAt(t, c[BucketOf[q]], <<q, o>>, k, i) <=> FiledAt(b, c[BucketOf[q]], <<q, o>>, k, i)
      BY <1>2, <2>2
    <3> QED
      BY <2>1, <3>1, <1>3
  <2>3. CASE BucketOf[q] = u
    <3> DEFINE In(k, i) == FiledAt(b, c[u], <<q, o>>, k, i)
               New(k, i) == FiledAt(t, c[u], <<q, o>>, k, i)
    <3>1. \A k, i \in Nat : In(k, i) => ~ (k = k0 /\ i = i0)
      BY <1>5 DEF FiledAt
    <3>2. \A i \in Nat : In(k0, i) => i <= n
      OBVIOUS
    <3>3. \A k, i \in Nat : New(k, i) <=> \/ k # k0 /\ In(k, i)
                                          \/ k = k0 /\ i < n /\ i # i0 /\ In(k0, i)
                                          \/ k = k0 /\ i < n /\ i = i0 /\ In(k0, n)
      BY <1>2, <2>3
    <3>4. <<q, o>> \in es <=> \E k, i \in Nat : In(k, i)
      BY <1>3, <2>3
    <3>5. \A k, i, m, j \in Nat : In(k, i) /\ In(m, j) => k = m /\ i = j
      BY <1>3, <2>3
    <3> HIDE DEF In, New
    <3>6. (\E k, i \in Nat : In(k, i)) => \E k, i \in Nat : New(k, i)
      <4> SUFFICES ASSUME NEW k \in Nat, NEW i \in Nat, In(k, i) PROVE \E m, j \in Nat : New(m, j)
        OBVIOUS
      <4>1. CASE k # k0
        BY <4>1, <3>3
      <4>2. CASE k = k0 /\ i < n
        BY <4>2, <3>1, <3>3
      <4>3. CASE k = k0 /\ ~ (i < n)
        <5>1. i = n /\ i0 # n /\ i0 < n
          BY <4>3, <3>1, <3>2
        <5>2. New(k0, i0)
          BY <4>3, <5>1, <3>3
        <5> QED
          BY <5>2
      <4> QED
        BY <4>1, <4>2, <4>3
    <3>7. (\E k, i \in Nat : New(k, i)) => \E k, i \in Nat : In(k, i)
      BY <3>3
    <3>8. \A k, i, m, j \in Nat : New(k, i) /\ New(m, j) => k = m /\ i = j
      <4> SUFFICES ASSUME NEW k \in Nat, NEW i \in Nat, NEW m \in Nat, NEW j \in Nat, New(k, i), New(m, j)
                   PROVE  k = m /\ i = j
        OBVIOUS
      <4> DEFINE At1 == IF k = k0 /\ i = i0 THEN n ELSE i
                 At2 == IF m = k0 /\ j = i0 THEN n ELSE j
      <4>1. In(k, At1) /\ (k = k0 => i < n)
        BY <3>3
      <4>2. In(m, At2) /\ (m = k0 => j < n)
        BY <3>3
      <4>3. At1 \in Nat /\ At2 \in Nat
        OBVIOUS
      <4>4. k = m /\ At1 = At2
        <5> HIDE DEF At1, At2
        <5> QED
          BY <4>1, <4>2, <4>3, <3>5
      <4> QED
        BY <4>1, <4>2, <4>4
    <3> QED
      BY <2>1, <2>3, <3>4, <3>6, <3>7, <3>8 DEF New
  <2> QED
    BY <2>2, <2>3
<1> QED
  BY <1>4, <1>5

-----------------------------------------------------------------------------
\* The calls.

Indexed == entries \subseteq Keys \X Records /\ \E c : Shelved(buckets, c) /\ Filed(buckets, c, entries)

LEMMA IndexedParts ==
    ASSUME NEW c, Shelved(buckets, c), Filed(buckets, c, entries), NEW key \in Keys, NEW r \in Records
    PROVE  Places(buckets, key, r) # {} <=> <<key, r>> \in entries
<1> DEFINE s == c[BucketOf[key]]
<1>1. \A x : x \in Places(buckets, key, r) <=>
             \E k, i \in Nat : x = <<s[k], i>> /\ FiledAt(buckets, s, <<key, r>>, k, i)
  BY PlacesAre
<1>2. <<key, r>> \in entries <=> \E k, i \in Nat : FiledAt(buckets, s, <<key, r>>, k, i)
  BY DEF Filed
<1> HIDE DEF s
<1>3. ASSUME NEW k \in Nat, NEW i \in Nat, FiledAt(buckets, s, <<key, r>>, k, i)
      PROVE  <<s[k], i>> \in Places(buckets, key, r)
  BY <1>1, <1>3
<1>4. ASSUME NEW x \in Places(buckets, key, r)
      PROVE  \E k, i \in Nat : FiledAt(buckets, s, <<key, r>>, k, i)
  BY <1>1, <1>4
<1> QED
  BY <1>2, <1>3, <1>4

\* An entry is added to buckets that do not have it.
LEMMA EntryAdded ==
    ASSUME NEW b, NEW c, Shelved(b, c), NEW key \in Keys, NEW r \in Records, c[BucketOf[key]] # <<>>
    PROVE  \E d : Shelved(WithEntry(b, key, r), d) /\ Adds(b, c, WithEntry(b, key, r), d, BucketOf[key], <<key, r>>)
<1> DEFINE u == BucketOf[key]
           e == <<key, r>>
           room == WithRoom(b, c[u])
<1>1. u \in BucketIds /\ BucketChain(b, key) = c[u]
  BY PlacesAre DEF BucketIds, Keys
<1>2. c[u] \in Seq(Nat) /\ DOMAIN c[u] = 1 .. Len(c[u]) /\ Len(c[u]) \in Nat
  BY <1>1, ShelvedParts
<1>3. e \in Keys \X Records
  OBVIOUS
<1>4. CASE room # {}
  <2>1. room \in SUBSET Nat /\ room \subseteq 1 .. Len(c[u])
    BY <1>2 DEF WithRoom
  <2>2. First(room) \in 1 .. Len(c[u])
    BY <1>4, <2>1, FirstIs
  <2>3. WithEntry(b, key, r) = [b EXCEPT !.pages[c[u][First(room)]].entries = Append(@, e)]
    BY <1>1, <1>4 DEF WithEntry
  <2> HIDE DEF room, u, e
  <2>4. Shelved(WithEntry(b, key, r), c) /\ Adds(b, c, WithEntry(b, key, r), c, u, e)
    BY <1>1, <1>3, <2>2, <2>3, RoomTaken
  <2> QED
    BY <2>4 DEF u, e
<1>5. CASE room = {}
  <2> DEFINE page == [next |-> NO_ROOT, entries |-> <<e>>]
             a == AppendedPage(b, page)
  <2>1. WithEntry(b, key, r) = [a EXCEPT !.pages[c[u][Len(c[u])]].next = Len(b.pages) + 1]
    BY <1>1, <1>5 DEF WithEntry
  <2>2. c[u] # <<>>
    OBVIOUS
  <2>3. a = AppendedPage(b, page) /\ page = [next |-> NO_ROOT, entries |-> <<e>>]
    OBVIOUS
  <2> HIDE DEF page, a, u, e, room
  <2>4. \E d : Shelved(WithEntry(b, key, r), d) /\ Adds(b, c, WithEntry(b, key, r), d, u, e)
    BY <1>1, <1>3, <2>1, <2>2, <2>3, PageLinked
  <2> QED
    BY <2>4 DEF u, e
<1> QED
  BY <1>4, <1>5

LEMMA AddKeeps ==
    ASSUME Indexed, NEW key \in Keys, NEW r \in Records, AddEntry(key, r)
    PROVE  Indexed'
<1>1. PICK c : Shelved(buckets, c) /\ Filed(buckets, c, entries)
  BY DEF Indexed
<1>2. buckets' = Added(buckets, key, r) /\ entries' = entries \cup {<<key, r>>}
  BY DEF AddEntry
<1>3. entries' \subseteq Keys \X Records
  BY <1>2 DEF Indexed
<1>4. Places(buckets, key, r) # {} <=> <<key, r>> \in entries
  BY <1>1, IndexedParts
<1>5. CASE Places(buckets, key, r) # {}
  <2>1. buckets' = buckets
    BY <1>2, <1>5 DEF Added
  <2>2. entries' = entries
    BY <1>2, <1>4, <1>5
  <2> QED
    BY <1>1, <1>3, <2>1, <2>2 DEF Indexed
<1>6. CASE Places(buckets, key, r) = {}
  <2> DEFINE b == WithBucket(buckets, key)
  <2>1. PICK d : /\ Shelved(b, d) /\ d[BucketOf[key]] # <<>>
                 /\ \A u \in BucketIds : \A e, k, i : FiledAt(b, d[u], e, k, i) <=> FiledAt(buckets, c[u], e, k, i)
    BY <1>1, BucketMade
  <2>2. buckets' = WithEntry(b, key, r)
    BY <1>2, <1>6 DEF Added
  <2> HIDE DEF b
  <2>3. Filed(b, d, entries)
    BY <1>1, <2>1, FiledAlike
  <2>4. PICK f : Shelved(buckets', f) /\ Adds(b, d, buckets', f, BucketOf[key], <<key, r>>)
    BY <2>1, <2>2, EntryAdded
  <2>5. Filed(buckets', f, entries')
    BY <1>2, <1>4, <1>6, <2>3, <2>4, FiledMore
  <2> QED
    BY <1>3, <2>4, <2>5 DEF Indexed
<1> QED
  BY <1>5, <1>6

LEMMA RemoveKeeps ==
    ASSUME Indexed, NEW key \in Keys, NEW r \in Records, RemoveEntry(key, r)
    PROVE  Indexed'
<1> DEFINE u == BucketOf[key]
           e == <<key, r>>
<1>1. PICK c : Shelved(buckets, c) /\ Filed(buckets, c, entries)
  BY DEF Indexed
<1>2. buckets' = Removed(buckets, key, r) /\ entries' = entries \ {e}
  BY DEF RemoveEntry
<1>3. entries' \subseteq Keys \X Records
  BY <1>2 DEF Indexed
<1>4. Places(buckets, key, r) # {} <=> e \in entries
  BY <1>1, IndexedParts
<1>5. CASE Places(buckets, key, r) = {}
  <2>1. buckets' = buckets
    BY <1>2, <1>5 DEF Removed
  <2>2. entries' = entries
    BY <1>2, <1>4, <1>5
  <2> QED
    BY <1>1, <1>3, <2>1, <2>2 DEF Indexed
<1>6. CASE Places(buckets, key, r) # {}
  <2> DEFINE x == CHOOSE y \in Places(buckets, key, r) : TRUE
             es == buckets.pages[x[1]].entries
             less == SubSeq([es EXCEPT ![x[2]] = es[Len(es)]], 1, Len(es) - 1)
  <2>1. x \in Places(buckets, key, r)
    BY <1>6
  <2>2. buckets' = WithEntries(buckets, x[1], less)
    BY <1>2, <1>6 DEF Removed, WithEntries
  <2> HIDE DEF x
  <2>3. u \in BucketIds
    BY DEF BucketIds, Keys
  <2>4. PICK k0 \in Nat, i0 \in Nat : x = <<c[u][k0], i0>> /\ FiledAt(buckets, c[u], e, k0, i0)
    BY <1>1, <2>1, PlacesAre
  <2>5. x[1] = c[u][k0] /\ x[2] = i0 /\ es = buckets.pages[c[u][k0]].entries
    BY <2>4
  <2> HIDE DEF es
  <2>6. k0 \in 1 .. Len(c[u]) /\ i0 \in 1 .. Len(es) /\ es[i0] = e
    BY <2>4, <2>5 DEF FiledAt
  <2>7. c[u][k0] \in 1 .. Len(buckets.pages)
    BY <1>1, <2>3, <2>6, ShelvedParts
  <2>8. es \in Seq(Keys \X Records) /\ Len(es) \in Nat
    BY <1>1, <2>5, <2>7, ShelvedParts
  <2>9. less = SubSeq([es EXCEPT ![i0] = es[Len(es)]], 1, Len(es) - 1)
    BY <2>5
  <2> HIDE DEF less
  <2>10. less \in Seq(Keys \X Records) /\ LastMoved(es, i0, less)
    BY <2>6, <2>8, <2>9, LastMovedIs
  <2>11. buckets' = WithEntries(buckets, c[u][k0], less)
    BY <2>2, <2>5
  <2> HIDE DEF u, e
  <2>12. Shelved(buckets', c) /\ TakenAt(buckets, c, buckets', u, k0, i0, Len(es))
    BY <1>1, <2>3, <2>5, <2>6, <2>10, <2>11, EntryTaken
  <2>13. \A f : \A i \in Nat : FiledAt(buckets, c[u], f, k0, i) => i <= Len(es)
    BY <2>5, <2>8 DEF FiledAt
  <2>14. i0 <= Len(es)
    BY <2>6, <2>8
  <2>15. Filed(buckets', c, entries \ {e})
    BY <1>1, <2>4, <2>8, <2>12, <2>13, <2>14, FiledLess DEF u, e
  <2> QED
    BY <1>2, <1>3, <2>12, <2>15 DEF Indexed, e
<1> QED
  BY <1>5, <1>6

LEMMA FailureKeeps ==
    ASSUME Indexed, NEW key \in Keys, NEW r \in Records, AddFails(key, r)
    PROVE  Indexed'
<1>1. PICK c : Shelved(buckets, c) /\ Filed(buckets, c, entries)
  BY DEF Indexed
<1>2. entries' = entries
  BY DEF AddFails
<1>3. entries' \subseteq Keys \X Records
  BY <1>2 DEF Indexed
<1>4. CASE buckets' = WithBucket(buckets, key)
  <2>1. PICK d : /\ Shelved(buckets', d)
                 /\ \A u \in BucketIds : \A e, k, i : FiledAt(buckets', d[u], e, k, i) <=> FiledAt(buckets, c[u], e, k, i)
    BY <1>1, <1>4, BucketMade
  <2>2. Filed(buckets', d, entries)
    BY <1>1, <2>1, FiledAlike
  <2> QED
    BY <1>2, <1>3, <2>1, <2>2 DEF Indexed
<1>5. CASE \E es \in {<<>>, <<<<key, r>>>>} : buckets' = AppendedPage(buckets, [next |-> NO_ROOT, entries |-> es])
  <2>1. PICK es \in {<<>>, <<<<key, r>>>>} : buckets' = AppendedPage(buckets, [next |-> NO_ROOT, entries |-> es])
    BY <1>5
  <2>2. es \in Seq(Keys \X Records)
    <3>1. <<key, r>> \in Keys \X Records
      OBVIOUS
    <3>2. <<>> \in Seq(Keys \X Records) /\ <<<<key, r>>>> \in Seq(Keys \X Records)
      BY <3>1
    <3> QED
      BY <2>1, <3>2
  <2>3. [next |-> NO_ROOT, entries |-> es] \in BucketPages
    BY <2>2 DEF BucketPages, NO_ROOT
  <2>4. Shelved(buckets', c) /\ \A u \in BucketIds : EntriesStay(buckets, buckets', c[u])
    BY <1>1, <2>1, <2>3, LoosePage
  <2>5. \A u \in BucketIds : \A e, k, i : FiledAt(buckets', c[u], e, k, i) <=> FiledAt(buckets, c[u], e, k, i)
    BY <2>4, EntriesStayHold
  <2>6. Filed(buckets', c, entries)
    BY <1>1, <2>5, FiledAlike
  <2> QED
    BY <1>2, <1>3, <2>4, <2>6 DEF Indexed
<1> QED
  BY <1>4, <1>5 DEF AddFails

LEMMA IndexedInit == ASSUME BucketsInit PROVE Indexed
<1> DEFINE c == [u \in BucketIds |-> <<>>]
<1>1. /\ buckets = [pages |-> <<>>, head |-> [u \in BucketIds |-> NO_ROOT]] /\ entries = {}
  BY DEF BucketsInit
<1>2. buckets.pages = <<>> /\ buckets.head = [u \in BucketIds |-> NO_ROOT]
  BY <1>1
<1>3. buckets.pages \in Seq(BucketPages) /\ buckets.head \in [BucketIds -> Nat]
  BY <1>2 DEF NO_ROOT
<1>4. buckets \in Books
  BY <1>1, <1>2, <1>3 DEF Books
<1>5. c \in [BucketIds -> Seq(Nat)] /\ \A u \in BucketIds : c[u] = <<>> /\ Len(c[u]) = 0 /\ buckets.head[u] = NO_ROOT
  BY <1>2
<1> HIDE DEF c
<1>6. Shelved(buckets, c)
  BY <1>4, <1>5 DEF Shelved, BucketLinks
<1>7. Filed(buckets, c, entries)
  <2>1. \A key \in Keys : BucketOf[key] \in BucketIds
    BY DEF BucketIds, Keys
  <2> QED
    BY <1>1, <1>5, <2>1 DEF Filed, FiledAt
<1> QED
  BY <1>1, <1>6, <1>7 DEF Indexed

LEMMA IndexedNext == ASSUME Indexed, [BucketsNext]_bucketVars PROVE Indexed'
<1>1. ASSUME UNCHANGED bucketVars PROVE Indexed'
  BY <1>1 DEF bucketVars, Indexed
<1>2. ASSUME BucketsNext PROVE Indexed'
  <2>1. PICK key \in Keys, r \in Records : AddEntry(key, r) \/ RemoveEntry(key, r) \/ AddFails(key, r)
    BY <1>2 DEF BucketsNext
  <2> QED
    BY <2>1, AddKeeps, RemoveKeeps, FailureKeeps
<1> QED
  BY <1>1, <1>2

LEMMA IndexedExact == ASSUME Indexed PROVE BucketsExact
<1>1. PICK c : Shelved(buckets, c) /\ Filed(buckets, c, entries)
  BY DEF Indexed
<1> SUFFICES ASSUME NEW key \in Keys
             PROVE  /\ Candidates(buckets, key) = {r \in Records : <<key, r>> \in entries}
                    /\ \A r \in Records : Cardinality(Places(buckets, key, r)) <= 1
  BY DEF BucketsExact
<1>2. \A r \in Records : Places(buckets, key, r) # {} <=> <<key, r>> \in entries
  BY <1>1, IndexedParts
<1>3. Candidates(buckets, key) = {r \in Records : <<key, r>> \in entries}
  BY <1>2 DEF Candidates
<1>4. ASSUME NEW r \in Records PROVE Cardinality(Places(buckets, key, r)) <= 1
  <2> DEFINE S == Places(buckets, key, r)
             s == c[BucketOf[key]]
  <2>1. \A x : x \in S <=> \E k, i \in Nat : x = <<s[k], i>> /\ FiledAt(buckets, s, <<key, r>>, k, i)
    BY <1>1, PlacesAre
  <2>2. \A k, i, m, j \in Nat : FiledAt(buckets, s, <<key, r>>, k, i) /\ FiledAt(buckets, s, <<key, r>>, m, j)
                                => k = m /\ i = j
    BY <1>1 DEF Filed
  <2> HIDE DEF S, s
  <2>3. \A x, y \in S : x = y
    <3> SUFFICES ASSUME NEW x \in S, NEW y \in S PROVE x = y
      OBVIOUS
    <3>1. PICK k \in Nat, i \in Nat : x = <<s[k], i>> /\ FiledAt(buckets, s, <<key, r>>, k, i)
      BY <2>1
    <3>2. PICK m \in Nat, j \in Nat : y = <<s[m], j>> /\ FiledAt(buckets, s, <<key, r>>, m, j)
      BY <2>1
    <3> QED
      BY <2>2, <3>1, <3>2
  <2>4. CASE S = {}
    BY <2>4, FS_EmptySet DEF S
  <2>5. CASE S # {}
    <3>1. PICK x : S = {x}
      BY <2>3, <2>5
    <3>2. Cardinality(S) = 1
      BY <3>1, FS_Singleton
    <3> QED
      BY <3>2 DEF S
  <2> QED
    BY <2>4, <2>5
<1> QED
  BY <1>3, <1>4

\* The candidates of a key are always the nodes added under it and not removed, each once, for
\* any keys, hashes, nodes and pages: collisions of hashes, chains of any length, the last entry
\* of a page moved into a hole, and writes that fail in the middle of an addition included
\* (storage/property_index.rs).
THEOREM CandidatesExact == BucketsSpec => []BucketsExact
<1>1. BucketsInit => Indexed
  BY IndexedInit
<1>2. Indexed /\ [BucketsNext]_bucketVars => Indexed'
  BY IndexedNext
<1>3. Indexed => BucketsExact
  BY IndexedExact
<1> QED
  BY <1>1, <1>2, <1>3, PTL DEF BucketsSpec

-----------------------------------------------------------------------------
(* The label index (LabelIndex): the pages of a type, in the order of a walk. *)

LabelPages == [next : Nat \cup {NoPage}, entries : Seq(Rids), tail : Nat \cup {NoPage}]
Indexes == [head : [Types -> Nat \cup {NoPage}], pages : Seq(LabelPages)]

TailOf(s, p) == s.pages[p].tail
PagesOf(q) == {q[i] : i \in 1 .. Len(q)}

\* The pages q of a type, in the order of a walk.
TypeLinks(s, head, q) ==
    /\ head = IF q = <<>> THEN NoPage ELSE q[1]
    /\ \A i \in 1 .. Len(q) : /\ q[i] \in 1 .. Len(s.pages)
                              /\ NextPage(s, q[i]) = IF i = Len(q) THEN NoPage ELSE q[i + 1]

\* Behind the head come the spares, up to page m of the chain, and then pages with entries.  What the
\* pages record of the end of the run is right, and the first spare has it.
Sorted(s, q, m) ==
    /\ m \in 0 .. Len(q) /\ (q # <<>> => m >= 1)
    /\ \A i \in 2 .. Len(q) : IsEmpty(s, q[i]) <=> i <= m
    /\ \A i \in 1 .. Len(q) : TailOf(s, q[i]) = NoPage \/ (2 <= i /\ i <= m /\ TailOf(s, q[i]) = q[m])
    /\ m >= 2 => TailOf(s, q[2]) = q[m]

\* The pages of a type are those of c, and every page is in one chain, once.
Strung(s, c, m) ==
    /\ s \in Indexes /\ c \in [Types -> Seq(Nat)] /\ m \in [Types -> Nat]
    /\ \A t \in Types : TypeLinks(s, s.head[t], c[t]) /\ Sorted(s, c[t], m[t])
    /\ \A t, u \in Types : \A i \in 1 .. Len(c[t]), j \in 1 .. Len(c[u]) : c[t][i] = c[u][j] => t = u /\ i = j
    /\ \A p \in 1 .. Len(s.pages) : \E t \in Types : p \in PagesOf(c[t])

LEMMA IndexParts ==
    ASSUME NEW s \in Indexes
    PROVE  /\ s = [head |-> s.head, pages |-> s.pages]
           /\ s.head \in [Types -> Nat \cup {NoPage}] /\ s.pages \in Seq(LabelPages) /\ Len(s.pages) \in Nat
           /\ \A p \in 1 .. Len(s.pages) : /\ s.pages[p] \in LabelPages
                                           /\ NextPage(s, p) \in Nat \cup {NoPage}
                                           /\ Entries(s, p) \in Seq(Rids) /\ Len(Entries(s, p)) \in Nat
                                           /\ TailOf(s, p) \in Nat \cup {NoPage}
<1>1. /\ s = [head |-> s.head, pages |-> s.pages]
      /\ s.head \in [Types -> Nat \cup {NoPage}] /\ s.pages \in Seq(LabelPages)
  BY DEF Indexes
<1>2. Len(s.pages) \in Nat
  BY <1>1
<1>3. ASSUME NEW p \in 1 .. Len(s.pages)
      PROVE  /\ s.pages[p] \in LabelPages
             /\ NextPage(s, p) \in Nat \cup {NoPage}
             /\ Entries(s, p) \in Seq(Rids) /\ Len(Entries(s, p)) \in Nat
             /\ TailOf(s, p) \in Nat \cup {NoPage}
  <2>1. s.pages[p] \in LabelPages
    BY <1>1
  <2>2. /\ s.pages[p].next \in Nat \cup {NoPage} /\ s.pages[p].entries \in Seq(Rids)
        /\ s.pages[p].tail \in Nat \cup {NoPage}
    BY <2>1 DEF LabelPages
  <2>3. Len(s.pages[p].entries) \in Nat
    BY <2>2, LenProperties
  <2> QED
    BY <2>1, <2>2, <2>3 DEF NextPage, Entries, TailOf
<1> QED
  BY <1>1, <1>2, <1>3

\* What is known of the chain of a type.
LEMMA StrungParts ==
    ASSUME NEW s, NEW c, NEW m, Strung(s, c, m), NEW t \in Types
    PROVE  /\ c[t] \in Seq(Nat) /\ Len(c[t]) \in Nat /\ m[t] \in 0 .. Len(c[t])
           /\ TypeLinks(s, s.head[t], c[t]) /\ Sorted(s, c[t], m[t])
           /\ \A i \in 1 .. Len(c[t]) : c[t][i] \in 1 .. Len(s.pages)
           /\ \A i, j \in 1 .. Len(c[t]) : c[t][i] = c[t][j] => i = j
           /\ s.head[t] = NoPage <=> c[t] = <<>>
           /\ c[t] # <<>> => Len(c[t]) >= 1 /\ s.head[t] = c[t][1]
<1>1. c[t] \in Seq(Nat) /\ TypeLinks(s, s.head[t], c[t]) /\ Sorted(s, c[t], m[t]) /\ s \in Indexes
  BY DEF Strung
<1>2. Len(c[t]) \in Nat /\ Len(s.pages) \in Nat
  BY <1>1, IndexParts
<1>3. \A i \in 1 .. Len(c[t]) : c[t][i] \in 1 .. Len(s.pages)
  BY <1>1 DEF TypeLinks
<1>4. \A i, j \in 1 .. Len(c[t]) : c[t][i] = c[t][j] => i = j
  BY DEF Strung
<1>5. m[t] \in 0 .. Len(c[t])
  BY <1>1 DEF Sorted
<1>6. c[t] # <<>> => Len(c[t]) >= 1 /\ s.head[t] = c[t][1]
  BY <1>1, <1>2, EmptySeq DEF TypeLinks
<1>7. s.head[t] = NoPage <=> c[t] = <<>>
  <2>1. c[t] = <<>> => s.head[t] = NoPage
    BY <1>1 DEF TypeLinks
  <2>2. ASSUME c[t] # <<>> PROVE s.head[t] # NoPage
    <3>1. c[t][1] \in 1 .. Len(s.pages) /\ s.head[t] = c[t][1]
      BY <1>2, <1>3, <1>6, <2>2
    <3>2. c[t][1] \in Nat
      BY <3>1, <1>2
    <3> QED
      BY <3>1, <3>2, NoPageAssumption
  <2> QED
    BY <2>1, <2>2
<1> QED
  BY <1>1, <1>2, <1>3, <1>4, <1>5, <1>6, <1>7

\* A chain of different pages has as many as there are at most.
LEMMA ChainFits ==
    ASSUME NEW q \in Seq(Nat), NEW n \in Nat, \A i \in 1 .. Len(q) : q[i] \in 1 .. n,
           \A i, j \in 1 .. Len(q) : q[i] = q[j] => i = j
    PROVE  Len(q) <= n /\ Cardinality(PagesOf(q)) = Len(q)
<1> DEFINE F == [l \in 0 .. (Len(q) - 1) |-> q[l + 1]]
           D == 0 .. (Len(q) - 1)
<1>1. Len(q) \in Nat
  OBVIOUS
<1>2. OneToOne(F, D)
  BY <1>1 DEF OneToOne
<1>3. ValuesOn(PagesOf(q), F, D)
  <2>1. ASSUME NEW x \in PagesOf(q) PROVE \E l \in D : F[l] = x
    <3>1. PICK i \in 1 .. Len(q) : x = q[i]
      BY DEF PagesOf
    <3>2. i - 1 \in D /\ (i - 1) + 1 = i
      BY <1>1
    <3>3. F[i - 1] = q[i]
      BY <3>2
    <3> QED
      BY <3>1, <3>2, <3>3
  <2>2. ASSUME NEW l \in D PROVE F[l] \in PagesOf(q)
    <3>1. l + 1 \in 1 .. Len(q) /\ F[l] = q[l + 1]
      BY <1>1
    <3> QED
      BY <3>1 DEF PagesOf
  <2> HIDE DEF F, D
  <2>3. PagesOf(q) = {F[l] : l \in D}
    BY <2>1, <2>2
  <2> QED
    BY <2>3 DEF ValuesOn
<1> HIDE DEF F
<1>4. Cardinality(PagesOf(q)) = Len(q)
  BY <1>1, <1>2, <1>3, AsManyPages
<1>5. PagesOf(q) \subseteq 1 .. n
  BY DEF PagesOf
<1>6. IsFiniteSet(1 .. n) /\ Cardinality(1 .. n) = n
  BY FS_Interval
<1>7. Cardinality(PagesOf(q)) <= Cardinality(1 .. n)
  BY <1>5, <1>6, FS_Subset
<1> QED
  BY <1>4, <1>6, <1>7

\* The walk along the links comes to the pages of a type one by one.
LEMMA TypeChainIs ==
    ASSUME NEW s, NEW c, NEW m, Strung(s, c, m), NEW t \in Types
    PROVE  TypeChain(s, t) = c[t] /\ InChain(s, t) = PagesOf(c[t])
<1> DEFINE q == c[t]
           head == s.head[t]
           N == Len(s.pages) + 1
           Upto(k) == IF k < Len(q) THEN k + 1 ELSE Len(q)
           g == [k \in Nat |-> SubSeq(q, 1, Upto(k))]
           Onward(x, k) == IF Len(x) < k \/ NextPage(s, x[k]) = NoPage THEN x ELSE Append(x, NextPage(s, x[k]))
           Step(w, k) == IF k = 0 THEN IF head = NoPage THEN <<>> ELSE <<head>> ELSE Onward(w[k - 1], k)
           Walks(w) == w = [k \in Nat |-> Step(w, k)]
<1>1. /\ q \in Seq(Nat) /\ Len(q) \in Nat /\ Len(s.pages) \in Nat /\ TypeLinks(s, head, q)
      /\ \A i \in 1 .. Len(q) : q[i] \in 1 .. Len(s.pages)
      /\ \A i, j \in 1 .. Len(q) : q[i] = q[j] => i = j
      /\ head = NoPage <=> q = <<>>
      /\ q # <<>> => Len(q) >= 1 /\ head = q[1]
  <2>1. s \in Indexes
    BY DEF Strung
  <2>2. Len(s.pages) \in Nat
    BY <2>1, IndexParts
  <2> QED
    BY <2>2, StrungParts
<1>2. Len(q) <= Len(s.pages)
  BY <1>1, ChainFits
<1>3. \A i \in 1 .. Len(q) : q[i] \in Nat /\ q[i] # NoPage
  BY <1>1, NoPageAssumption
<1>4. \A i \in 1 .. Len(q) : NextPage(s, q[i]) = IF i = Len(q) THEN NoPage ELSE q[i + 1]
  BY <1>1 DEF TypeLinks
<1> HIDE DEF q, head
<1>5. \A k \in Nat : g[k] = Step(g, k)
  <2> SUFFICES ASSUME NEW k \in Nat PROVE g[k] = Step(g, k)
    OBVIOUS
  <2>1. CASE k = 0
    <3>1. CASE q = <<>>
      <4>1. g[0] = <<>>
        BY <3>1, <1>1
      <4> QED
        BY <4>1, <3>1, <2>1, <1>1
    <3>2. CASE q # <<>>
      <4>1. g[0] = SubSeq(q, 1, 1)
        BY <3>2, <1>1
      <4>2. SubSeq(q, 1, 1) = <<q[1]>>
        <5>1. Len(SubSeq(q, 1, 1)) = 1 /\ SubSeq(q, 1, 1)[1] = q[1] /\ SubSeq(q, 1, 1) \in Seq(Nat)
          BY <3>2, <1>1
        <5>2. q[1] \in Nat /\ <<q[1]>> \in Seq(Nat) /\ Len(<<q[1]>>) = 1 /\ <<q[1]>>[1] = q[1]
          BY <3>2, <1>1, <1>3
        <5>3. \A i \in 1 .. Len(SubSeq(q, 1, 1)) : SubSeq(q, 1, 1)[i] = <<q[1]>>[i]
          BY <5>1, <5>2
        <5>4. Len(SubSeq(q, 1, 1)) = Len(<<q[1]>>)
          BY <5>1, <5>2
        <5> QED
          BY <5>1, <5>2, <5>3, <5>4, SeqEqual, Zenon
      <4>3. Step(g, 0) = <<q[1]>>
        BY <3>2, <1>1
      <4> QED
        BY <4>1, <4>2, <4>3, <2>1
    <3> QED
      BY <3>1, <3>2
  <2>2. CASE k # 0
    <3>0. k - 1 \in Nat /\ k \in Nat
      BY <2>2
    <3>1. CASE Len(q) < k
      <4>1. Upto(k - 1) = Len(q) /\ Upto(k) = Len(q)
        BY <3>0, <3>1, <1>1
      <4>2. g[k - 1] = SubSeq(q, 1, Len(q)) /\ g[k] = SubSeq(q, 1, Len(q)) /\ SubSeq(q, 1, Len(q)) = q
        BY <3>0, <4>1, <1>1
      <4>3. Onward(q, k) = q
        BY <3>1
      <4> QED
        BY <4>2, <4>3, <2>2
    <3>2. CASE k < Len(q)
      <4>1. Upto(k - 1) = k /\ Upto(k) = k + 1
        BY <3>2, <3>0, <1>1
      <4>2. g[k - 1] = SubSeq(q, 1, k) /\ g[k] = SubSeq(q, 1, k + 1)
        BY <4>1, <3>0
      <4>3. Len(SubSeq(q, 1, k)) = k /\ SubSeq(q, 1, k)[k] = q[k]
        BY <3>0, <2>2, <3>2, <1>1
      <4>4. NextPage(s, q[k]) = q[k + 1] /\ q[k + 1] # NoPage
        <5>1. k \in 1 .. Len(q) /\ k + 1 \in 1 .. Len(q) /\ k # Len(q)
          BY <3>0, <2>2, <3>2, <1>1
        <5>2. NextPage(s, q[k]) = IF k = Len(q) THEN NoPage ELSE q[k + 1]
          BY <5>1, <1>4
        <5> QED
          BY <5>1, <5>2, <1>3
      <4>5. SubSeq(q, 1, k + 1) = Append(SubSeq(q, 1, k), q[k + 1])
        BY <3>0, <2>2, <3>2, <1>1
      <4>6. Onward(SubSeq(q, 1, k), k) = Append(SubSeq(q, 1, k), q[k + 1])
        <5>1. ~ (Len(SubSeq(q, 1, k)) < k)
          BY <4>3, <3>0
        <5>2. NextPage(s, SubSeq(q, 1, k)[k]) = q[k + 1]
          BY <4>3, <4>4
        <5> QED
          BY <5>1, <5>2, <4>4, Zenon
      <4> QED
        BY <4>2, <4>5, <4>6, <2>2
    <3>3. CASE k = Len(q)
      <4>1. Upto(k - 1) = Len(q) /\ Upto(k) = Len(q)
        BY <3>3, <3>0, <1>1
      <4>2. g[k - 1] = SubSeq(q, 1, Len(q)) /\ g[k] = SubSeq(q, 1, Len(q)) /\ SubSeq(q, 1, Len(q)) = q
        BY <3>0, <4>1, <1>1
      <4>3. k \in 1 .. Len(q)
        BY <3>0, <3>3, <1>1
      <4>4. NextPage(s, q[k]) = NoPage
        BY <3>3, <4>3, <1>4
      <4>5. Onward(q, k) = q
        BY <4>4, Zenon
      <4> QED
        BY <4>2, <4>5, <2>2, <3>0
    <3>4. Len(q) < k \/ k < Len(q) \/ k = Len(q)
      BY <1>1
    <3> QED
      BY <3>1, <3>2, <3>3, <3>4
  <2> QED
    BY <2>1, <2>2
<1>6. Walks(g)
  <2> DEFINE h == [k \in Nat |-> Step(g, k)]
  <2>1. \A k \in Nat : g[k] = h[k]
    BY <1>5
  <2> HIDE DEF Step
  <2> QED
    BY <2>1
<1> HIDE DEF g, Onward
<1>7. ASSUME NEW w, Walks(w) PROVE \A k \in Nat : w[k] = g[k]
  <2> DEFINE S == {k \in Nat : w[k] = g[k]}
  <2>1. \A k \in Nat : w[k] = Step(w, k) /\ g[k] = Step(g, k)
    BY <1>5, <1>7
  <2>2. 0 \in S
    BY <2>1
  <2>3. ASSUME NEW k \in Nat, k \in S PROVE k + 1 \in S
    <3>1. k + 1 \in Nat /\ (k + 1) - 1 = k /\ k + 1 # 0
      OBVIOUS
    <3>2. w[k + 1] = Step(w, k + 1) /\ g[k + 1] = Step(g, k + 1)
      BY <2>1, <3>1
    <3>3. w[k] = g[k]
      BY <2>3
    <3> HIDE DEF S
    <3>4. Step(w, k + 1) = Step(g, k + 1)
      BY <3>1, <3>3
    <3>5. w[k + 1] = g[k + 1]
      BY <3>2, <3>4
    <3> QED
      BY <3>5, <3>1 DEF S
  <2> HIDE DEF S
  <2>4. Nat \subseteq S
    BY <2>2, <2>3, SetInduction
  <2> QED
    BY <2>4 DEF S
<1> DEFINE W == CHOOSE w : Walks(w)
<1>8. Walks(W)
  <2> HIDE DEF Walks
  <2> QED
    BY <1>6
<1>9. TypeChain(s, t) = W[N]
  BY DEF TypeChain, Onward, head
<1>10. W[N] = g[N]
  <2>1. N \in Nat
    BY <1>1
  <2> HIDE DEF Walks, W, N
  <2> QED
    BY <1>7, <1>8, <2>1
<1>11. g[N] = q
  <2>1. Upto(N) = Len(q) /\ N \in Nat
    BY <1>1, <1>2
  <2>2. SubSeq(q, 1, Len(q)) = q
    BY <1>1
  <2>3. g[N] = SubSeq(q, 1, Upto(N))
    BY <2>1 DEF g
  <2> QED
    BY <2>1, <2>2, <2>3
<1>12. TypeChain(s, t) = q /\ DOMAIN q = 1 .. Len(q)
  BY <1>1, <1>9, <1>10, <1>11
<1> QED
  BY <1>12 DEF InChain, PagesOf, q

-----------------------------------------------------------------------------
\* What single writes change.

\* The index has the same pages, and of each the same but for what is said.
Alike(s, z) == z \in Indexes /\ Len(z.pages) = Len(s.pages)
SameNext(s, z, p, x)    == \A y \in 1 .. Len(s.pages) : NextPage(z, y) = IF y = p THEN x ELSE NextPage(s, y)
SameEntriesBut(s, z, p, x) == \A y \in 1 .. Len(s.pages) : Entries(z, y) = IF y = p THEN x ELSE Entries(s, y)
SameTail(s, z, p, x)    == \A y \in 1 .. Len(s.pages) : TailOf(z, y) = IF y = p THEN x ELSE TailOf(s, y)
EqualNext(s, z)    == \A y \in 1 .. Len(s.pages) : NextPage(z, y) = NextPage(s, y)
EqualEntries(s, z) == \A y \in 1 .. Len(s.pages) : Entries(z, y) = Entries(s, y)
EqualTail(s, z)    == \A y \in 1 .. Len(s.pages) : TailOf(z, y) = TailOf(s, y)

Whole(s) == s = [head |-> s.head, pages |-> s.pages]

LEMMA OtherPages ==
    ASSUME NEW s, Whole(s), NEW P
    PROVE  [s EXCEPT !.pages = P] = [head |-> s.head, pages |-> P]
BY DEF Whole

PageWithEntries(s, p, es) == [s EXCEPT !.pages[p].entries = es]
PageWithTail(s, p, es)    == [s EXCEPT !.pages[p].tail = IF es = <<>> THEN @ ELSE NoPage]
Only(s, z, P) == Whole(z) /\ z.head = s.head /\ z.pages = P

LEMMA PageWithEntriesIs ==
    ASSUME NEW s, Whole(s), NEW p, NEW es
    PROVE  Only(s, PageWithEntries(s, p, es), [s.pages EXCEPT ![p] = [s.pages[p] EXCEPT !.entries = es]])
<1> DEFINE P == [s.pages EXCEPT ![p] = [s.pages[p] EXCEPT !.entries = es]]
<1>1. PageWithEntries(s, p, es) = [s EXCEPT !.pages = P]
  BY DEF PageWithEntries
<1> HIDE DEF P
<1>2. PageWithEntries(s, p, es) = [head |-> s.head, pages |-> P]
  BY <1>1, OtherPages
<1>3. Only(s, PageWithEntries(s, p, es), P)
  BY <1>2 DEF Only, Whole
<1> QED
  BY <1>3 DEF P

LEMMA PageWithTailIs ==
    ASSUME NEW s, Whole(s), NEW p, NEW es
    PROVE  Only(s, PageWithTail(s, p, es),
                [s.pages EXCEPT ![p] = [s.pages[p] EXCEPT !.tail = IF es = <<>> THEN @ ELSE NoPage]])
<1> DEFINE P == [s.pages EXCEPT ![p] = [s.pages[p] EXCEPT !.tail = IF es = <<>> THEN @ ELSE NoPage]]
<1>1. PageWithTail(s, p, es) = [s EXCEPT !.pages = P]
  BY DEF PageWithTail
<1> HIDE DEF P
<1>2. PageWithTail(s, p, es) = [head |-> s.head, pages |-> P]
  BY <1>1, OtherPages
<1>3. Only(s, PageWithTail(s, p, es), P)
  BY <1>2 DEF Only, Whole
<1> QED
  BY <1>3 DEF P

LEMMA PageReplaced ==
    ASSUME NEW s \in Indexes, NEW p \in 1 .. Len(s.pages), NEW page \in LabelPages,
           NEW z, z = [s EXCEPT !.pages = [@ EXCEPT ![p] = page]]
    PROVE  /\ Alike(s, z) /\ z.head = s.head /\ z.pages[p] = page
           /\ \A y \in 1 .. Len(s.pages) : y # p => z.pages[y] = s.pages[y]
<1>1. s = [head |-> s.head, pages |-> s.pages] /\ s.head \in [Types -> Nat \cup {NoPage}] /\ s.pages \in Seq(LabelPages)
  BY IndexParts
<1> DEFINE P == [s.pages EXCEPT ![p] = page]
<1>2. P \in Seq(LabelPages) /\ Len(P) = Len(s.pages)
  BY <1>1, ExceptSeq
<1>3. P[p] = page /\ \A y \in 1 .. Len(s.pages) : y # p => P[y] = s.pages[y]
  <2>1. DOMAIN s.pages = 1 .. Len(s.pages)
    BY <1>1
  <2> QED
    BY <2>1
<1> HIDE DEF P
<1>4. z = [head |-> s.head, pages |-> P]
  BY <1>1 DEF P
<1>10. [head |-> s.head, pages |-> P] \in Indexes
  BY <1>1, <1>2 DEF Indexes
<1>5. \A x : x = [head |-> s.head, pages |-> P] => x.head = s.head /\ x.pages = P
  OBVIOUS
<1>6. z.head = s.head /\ z.pages = P
  BY <1>4, <1>5, Zenon
<1>7. z \in Indexes
  BY <1>4, <1>10, Zenon
<1> QED
  BY <1>2, <1>3, <1>6, <1>7 DEF Alike

LEMMA SetNextIs ==
    ASSUME NEW s \in Indexes, NEW p \in 1 .. Len(s.pages), NEW q \in Nat \cup {NoPage},
           NEW z, z = SetNext(s, p, q)
    PROVE  /\ Alike(s, z) /\ z.head = s.head
           /\ SameNext(s, z, p, q) /\ EqualEntries(s, z) /\ EqualTail(s, z)
<1> DEFINE page == [s.pages[p] EXCEPT !.next = q]
<1>1. s.pages[p] \in LabelPages
  BY IndexParts
<1>2. /\ page \in LabelPages /\ page.next = q
      /\ page.entries = s.pages[p].entries /\ page.tail = s.pages[p].tail
  BY <1>1 DEF LabelPages
<1>3. z = [s EXCEPT !.pages = [@ EXCEPT ![p] = page]]
  BY DEF SetNext
<1> HIDE DEF page
<1>4. /\ Alike(s, z) /\ z.head = s.head /\ z.pages[p] = page
      /\ \A y \in 1 .. Len(s.pages) : y # p => z.pages[y] = s.pages[y]
  BY <1>2, <1>3, PageReplaced
<1> QED
  BY <1>2, <1>4 DEF SameNext, EqualEntries, EqualTail, NextPage, Entries, TailOf

LEMMA SetTailIs ==
    ASSUME NEW s \in Indexes, NEW p \in 1 .. Len(s.pages), NEW q \in Nat \cup {NoPage},
           NEW z, z = SetTail(s, p, q)
    PROVE  /\ Alike(s, z) /\ z.head = s.head
           /\ EqualNext(s, z) /\ EqualEntries(s, z) /\ SameTail(s, z, p, q)
<1> DEFINE page == [s.pages[p] EXCEPT !.tail = q]
<1>1. s.pages[p] \in LabelPages
  BY IndexParts
<1>2. /\ page \in LabelPages /\ page.tail = q
      /\ page.entries = s.pages[p].entries /\ page.next = s.pages[p].next
  BY <1>1 DEF LabelPages
<1>3. z = [s EXCEPT !.pages = [@ EXCEPT ![p] = page]]
  BY DEF SetTail
<1> HIDE DEF page
<1>4. /\ Alike(s, z) /\ z.head = s.head /\ z.pages[p] = page
      /\ \A y \in 1 .. Len(s.pages) : y # p => z.pages[y] = s.pages[y]
  BY <1>2, <1>3, PageReplaced
<1> QED
  BY <1>2, <1>4 DEF EqualNext, EqualEntries, SameTail, NextPage, Entries, TailOf

LEMMA SetEntriesIs ==
    ASSUME NEW s \in Indexes, NEW p \in 1 .. Len(s.pages), NEW es \in Seq(Rids),
           NEW z, z = SetEntries(s, p, es)
    PROVE  /\ Alike(s, z) /\ z.head = s.head
           /\ EqualNext(s, z) /\ SameEntriesBut(s, z, p, es)
           /\ SameTail(s, z, p, IF es = <<>> THEN TailOf(s, p) ELSE NoPage)
<1> DEFINE tail == IF es = <<>> THEN s.pages[p].tail ELSE NoPage
           page == [s.pages[p] EXCEPT !.entries = es, !.tail = tail]
<1>1. s.pages[p] \in LabelPages
  BY IndexParts
<1>2. /\ page \in LabelPages /\ page.next = s.pages[p].next
      /\ page.entries = es /\ page.tail = tail
  BY <1>1 DEF LabelPages
<1>3. z = [s EXCEPT !.pages = [@ EXCEPT ![p] = page]]
  <2>1. s = [head |-> s.head, pages |-> s.pages] /\ s.pages \in Seq(LabelPages)
    BY IndexParts
  <2>2. p \in DOMAIN s.pages
    BY <2>1
  <2> DEFINE half == [s.pages[p] EXCEPT !.entries = es]
             mid  == PageWithEntries(s, p, es)
             late == [half EXCEPT !.tail = IF es = <<>> THEN @ ELSE NoPage]
  <2>3. Only(s, mid, [s.pages EXCEPT ![p] = half]) /\ Whole(s)
    BY <2>1, PageWithEntriesIs DEF Whole
  <2>4. z = PageWithTail(mid, p, es)
    BY DEF SetEntries, PageWithTail, PageWithEntries
  <2> HIDE DEF mid
  <2>5. mid.head = s.head /\ mid.pages = [s.pages EXCEPT ![p] = half] /\ Whole(mid)
    BY <2>3 DEF Only
  <2>6. mid.pages[p] = half
    BY <2>2, <2>5
  <2>7. late = page
    BY <1>1 DEF LabelPages
  <2> HIDE DEF half, page, tail
  <2>8. [mid.pages EXCEPT ![p] = [mid.pages[p] EXCEPT !.tail = IF es = <<>> THEN @ ELSE NoPage]] =
            [s.pages EXCEPT ![p] = page]
    BY <2>5, <2>6, <2>7
  <2>9. Only(mid, z, [s.pages EXCEPT ![p] = page])
    <3>1. Only(mid, z, [mid.pages EXCEPT ![p] = [mid.pages[p] EXCEPT !.tail = IF es = <<>> THEN @ ELSE NoPage]])
      BY <2>4, <2>5, PageWithTailIs
    <3> QED
      BY <3>1, <2>8
  <2> DEFINE P == [s.pages EXCEPT ![p] = page]
  <2> HIDE DEF late, P
  <2>10. z = [head |-> s.head, pages |-> P]
    BY <2>5, <2>9 DEF Only, Whole, P
  <2>11. [s EXCEPT !.pages = P] = [head |-> s.head, pages |-> P]
    BY <2>3, OtherPages
  <2>12. z = [s EXCEPT !.pages = P]
    BY <2>10, <2>11, Zenon
  <2> QED
    BY <2>12 DEF P
<1>4. tail = IF es = <<>> THEN TailOf(s, p) ELSE NoPage
  BY DEF TailOf
<1> HIDE DEF page, tail
<1>5. /\ Alike(s, z) /\ z.head = s.head /\ z.pages[p] = page
      /\ \A y \in 1 .. Len(s.pages) : y # p => z.pages[y] = s.pages[y]
  BY <1>2, <1>3, PageReplaced
<1> QED
  BY <1>2, <1>4, <1>5 DEF EqualNext, SameEntriesBut, SameTail, NextPage, Entries, TailOf

LEMMA SetHeadIs ==
    ASSUME NEW s \in Indexes, NEW t \in Types, NEW p \in Nat \cup {NoPage}, NEW z, z = SetHead(s, t, p)
    PROVE  /\ Alike(s, z) /\ z.head[t] = p /\ \A u \in Types : u # t => z.head[u] = s.head[u]
           /\ z.pages = s.pages
<1>1. s = [head |-> s.head, pages |-> s.pages] /\ s.head \in [Types -> Nat \cup {NoPage}] /\ s.pages \in Seq(LabelPages)
  BY IndexParts
<1> DEFINE H == [s.head EXCEPT ![t] = p]
<1>2. H \in [Types -> Nat \cup {NoPage}] /\ H[t] = p /\ \A u \in Types : u # t => H[u] = s.head[u]
  BY <1>1
<1>3. z = [head |-> H, pages |-> s.pages]
  BY <1>1 DEF SetHead
<1> HIDE DEF H
<1>4. \A x : x = [head |-> H, pages |-> s.pages] => x.head = H /\ x.pages = s.pages
  OBVIOUS
<1>5. z.head = H /\ z.pages = s.pages
  BY <1>3, <1>4, Zenon
<1>6. z \in Indexes
  BY <1>1, <1>2, <1>3 DEF Indexes
<1> QED
  BY <1>2, <1>5, <1>6 DEF Alike

-----------------------------------------------------------------------------
\* A call relinks the chain of one type.

Different(q) == \A i, j \in 1 .. Len(q) : q[i] = q[j] => i = j

\* Heads and pages are those of before but for the type t and the pages in its chain c[t].
OnlyType(s, z, c, t) ==
    /\ z \in Indexes /\ Len(s.pages) <= Len(z.pages)
    /\ \A u \in Types : u # t => z.head[u] = s.head[u]
    /\ \A y \in 1 .. Len(s.pages) : y \notin PagesOf(c[t]) =>
           /\ NextPage(z, y) = NextPage(s, y) /\ Entries(z, y) = Entries(s, y) /\ TailOf(z, y) = TailOf(s, y)

\* The type t has the chain w: the pages of before, and the new ones.
TypeChained(s, z, c, t, w, k) ==
    /\ w \in Seq(Nat) /\ k \in Nat
    /\ TypeLinks(z, z.head[t], w) /\ Sorted(z, w, k) /\ Different(w)
    /\ \A p : p \in PagesOf(w) <=> p \in PagesOf(c[t]) \/ p \in Len(s.pages) + 1 .. Len(z.pages)

\* d is c with w for the type t.
Instead(c, d, t, w) == d[t] = w /\ \A u \in Types : u # t => d[u] = c[u]

\* No page is in the chains of two types.
LEMMA ApartFrom ==
    ASSUME NEW s, NEW c, NEW m, Strung(s, c, m), NEW t \in Types, NEW u \in Types, u # t,
           NEW i \in 1 .. Len(c[u])
    PROVE  c[u][i] \in 1 .. Len(s.pages) /\ c[u][i] \notin PagesOf(c[t])
<1>1. c[u][i] \in 1 .. Len(s.pages)
  BY StrungParts
<1>2. \A x, y \in Types : \A j \in 1 .. Len(c[x]), l \in 1 .. Len(c[y]) : c[x][j] = c[y][l] => x = y /\ j = l
  BY DEF Strung
<1>3. ASSUME c[u][i] \in PagesOf(c[t]) PROVE FALSE
  <2>1. PICK j \in 1 .. Len(c[t]) : c[u][i] = c[t][j]
    BY <1>3 DEF PagesOf
  <2> QED
    BY <2>1, <1>2
<1> QED
  BY <1>1, <1>3

LEMMA Rechained ==
    ASSUME NEW s, NEW c, NEW m, Strung(s, c, m), NEW t \in Types, NEW z, OnlyType(s, z, c, t),
           NEW w, NEW k, TypeChained(s, z, c, t, w, k),
           NEW d \in [Types -> Seq(Nat)], Instead(c, d, t, w),
           NEW n \in [Types -> Nat], Instead(m, n, t, k)
    PROVE  Strung(z, d, n)
<1>1. /\ s \in Indexes /\ z \in Indexes /\ Len(s.pages) \in Nat /\ Len(z.pages) \in Nat
      /\ Len(s.pages) <= Len(z.pages)
  BY IndexParts DEF Strung, OnlyType
<1>2. ASSUME NEW u \in Types PROVE TypeLinks(z, z.head[u], d[u]) /\ Sorted(z, d[u], n[u])
  <2>1. CASE u = t
    BY <2>1 DEF Instead, TypeChained
  <2>2. CASE u # t
    <3>1. d[u] = c[u] /\ n[u] = m[u] /\ z.head[u] = s.head[u]
      BY <2>2 DEF Instead, OnlyType
    <3>2. TypeLinks(s, s.head[u], c[u]) /\ Sorted(s, c[u], m[u])
      BY DEF Strung
    <3>3. ASSUME NEW i \in 1 .. Len(c[u])
          PROVE  /\ c[u][i] \in 1 .. Len(s.pages) /\ NextPage(z, c[u][i]) = NextPage(s, c[u][i])
                 /\ Entries(z, c[u][i]) = Entries(s, c[u][i]) /\ TailOf(z, c[u][i]) = TailOf(s, c[u][i])
      <4>1. c[u][i] \in 1 .. Len(s.pages) /\ c[u][i] \notin PagesOf(c[t])
        BY <2>2, ApartFrom
      <4> QED
        BY <4>1 DEF OnlyType
    <3>4. TypeLinks(z, s.head[u], c[u])
      <4>1. \A i \in 1 .. Len(c[u]) : c[u][i] \in 1 .. Len(z.pages)
        <5>1. 1 .. Len(s.pages) \subseteq 1 .. Len(z.pages)
          BY <1>1
        <5> QED
          BY <5>1, <3>3
      <4> QED
        BY <4>1, <3>2, <3>3 DEF TypeLinks
    <3>5. Sorted(z, c[u], m[u])
      <4>0. Len(c[u]) \in Nat
        BY StrungParts
      <4>1. \A i \in 1 .. Len(c[u]) : IsEmpty(z, c[u][i]) <=> IsEmpty(s, c[u][i])
        BY <3>3 DEF IsEmpty
      <4>2. m[u] \in 0 .. Len(c[u]) /\ (c[u] # <<>> => m[u] >= 1)
        BY <3>2 DEF Sorted
      <4>3. \A i \in 2 .. Len(c[u]) : IsEmpty(z, c[u][i]) <=> i <= m[u]
        BY <4>0, <4>1, <3>2 DEF Sorted
      <4>4. \A i \in 1 .. Len(c[u]) : TailOf(z, c[u][i]) = NoPage \/ (2 <= i /\ i <= m[u] /\ TailOf(z, c[u][i]) = c[u][m[u]])
        BY <3>2, <3>3 DEF Sorted
      <4>5. m[u] >= 2 => TailOf(z, c[u][2]) = c[u][m[u]]
        <5>1. m[u] >= 2 => 2 \in 1 .. Len(c[u])
          BY <4>0, <4>2
        <5> QED
          BY <5>1, <3>2, <3>3 DEF Sorted
      <4> QED
        BY <4>2, <4>3, <4>4, <4>5 DEF Sorted
    <3> QED
      BY <3>1, <3>4, <3>5
  <2> QED
    BY <2>1, <2>2
<1>3. ASSUME NEW u \in Types, u # t, NEW i \in 1 .. Len(w), NEW j \in 1 .. Len(c[u]), w[i] = c[u][j] PROVE FALSE
  <2>1. c[u][j] \in 1 .. Len(s.pages) /\ c[u][j] \notin PagesOf(c[t])
    BY <1>3, ApartFrom
  <2>2. w[i] \in PagesOf(w)
    BY DEF PagesOf
  <2>3. w[i] \in PagesOf(c[t]) \/ w[i] \in Len(s.pages) + 1 .. Len(z.pages)
    BY <2>2 DEF TypeChained
  <2> QED
    BY <2>1, <2>3, <1>3, <1>1
<1>4. \A x, y \in Types : \A i \in 1 .. Len(d[x]), j \in 1 .. Len(d[y]) : d[x][i] = d[y][j] => x = y /\ i = j
  <2> SUFFICES ASSUME NEW x \in Types, NEW y \in Types, NEW i \in 1 .. Len(d[x]), NEW j \in 1 .. Len(d[y]),
                      d[x][i] = d[y][j]
               PROVE  x = y /\ i = j
    OBVIOUS
  <2>1. CASE x = t /\ y = t
    <3>1. d[x] = w /\ d[y] = w /\ Different(w)
      BY <2>1 DEF Instead, TypeChained
    <3> QED
      BY <3>1, <2>1 DEF Different
  <2>2. CASE x = t /\ y # t
    <3>1. d[x] = w /\ d[y] = c[y]
      BY <2>2 DEF Instead
    <3> QED
      BY <3>1, <2>2, <1>3
  <2>3. CASE x # t /\ y = t
    <3>1. d[y] = w /\ d[x] = c[x]
      BY <2>3 DEF Instead
    <3> QED
      BY <3>1, <2>3, <1>3
  <2>4. CASE x # t /\ y # t
    <3>1. d[y] = c[y] /\ d[x] = c[x]
      BY <2>4 DEF Instead
    <3> QED
      BY <3>1 DEF Strung
  <2> QED
    BY <2>1, <2>2, <2>3, <2>4
<1>5. ASSUME NEW p \in 1 .. Len(z.pages) PROVE \E u \in Types : p \in PagesOf(d[u])
  <2>1. CASE p \in Len(s.pages) + 1 .. Len(z.pages) \/ p \in PagesOf(c[t])
    <3>1. p \in PagesOf(w) /\ d[t] = w
      BY <2>1 DEF TypeChained, Instead
    <3> QED
      BY <3>1
  <2>2. CASE p \in 1 .. Len(s.pages) /\ p \notin PagesOf(c[t])
    <3>1. PICK u \in Types : p \in PagesOf(c[u])
      BY <2>2 DEF Strung
    <3>2. u # t /\ d[u] = c[u]
      BY <3>1, <2>2 DEF Instead
    <3> QED
      BY <3>1, <3>2
  <2> QED
    BY <2>1, <2>2, <1>1
<1> QED
  BY <1>1, <1>2, <1>4, <1>5 DEF Strung

\* The chains where only t has another.
LEMMA InsteadIs ==
    ASSUME NEW S, NEW c \in [Types -> S], NEW t \in Types, NEW w \in S
    PROVE  [c EXCEPT ![t] = w] \in [Types -> S] /\ Instead(c, [c EXCEPT ![t] = w], t, w)
BY DEF Instead

LEMMA ChainDiffers ==
    ASSUME NEW s, NEW c, NEW m, Strung(s, c, m), NEW t \in Types
    PROVE  Different(c[t])
BY StrungParts DEF Different

\* Entries of one page are written: of the head any, of another page some where there were some.
LEMMA PageEntriesSet ==
    ASSUME NEW s, NEW c, NEW m, Strung(s, c, m), NEW t \in Types, NEW i \in 1 .. Len(c[t]),
           NEW p, p = c[t][i], NEW es \in Seq(Rids), i = 1 \/ (~ IsEmpty(s, p) /\ es # <<>>),
           NEW z, z = SetEntries(s, p, es)
    PROVE  /\ Strung(z, c, m) /\ OnlyType(s, z, c, t)
           /\ Alike(s, z) /\ z.head = s.head /\ SameEntriesBut(s, z, p, es)
<1> DEFINE q == c[t]
<1>1. s \in Indexes /\ c \in [Types -> Seq(Nat)] /\ m \in [Types -> Nat]
  BY DEF Strung
<1>2. /\ q \in Seq(Nat) /\ Len(q) \in Nat /\ m[t] \in 0 .. Len(q) /\ TypeLinks(s, s.head[t], q) /\ Sorted(s, q, m[t])
      /\ Different(q) /\ \A j \in 1 .. Len(q) : q[j] \in 1 .. Len(s.pages)
  BY StrungParts, ChainDiffers
<1>3. p \in 1 .. Len(s.pages)
  BY <1>2
<1>4. /\ Alike(s, z) /\ z.head = s.head /\ EqualNext(s, z) /\ SameEntriesBut(s, z, p, es)
      /\ SameTail(s, z, p, IF es = <<>> THEN TailOf(s, p) ELSE NoPage)
  BY <1>1, <1>3, SetEntriesIs
<1>5. TailOf(s, p) = NoPage
  <2>1. TailOf(s, q[i]) = NoPage \/ (2 <= i /\ i <= m[t])
    BY <1>2 DEF Sorted
  <2>2. i \in 2 .. Len(q) => (IsEmpty(s, q[i]) <=> i <= m[t])
    BY <1>2 DEF Sorted
  <2> QED
    BY <2>1, <2>2, <1>2
<1>6. EqualTail(s, z)
  BY <1>4, <1>5 DEF SameTail, EqualTail
<1>7. OnlyType(s, z, c, t)
  <2>1. p \in PagesOf(c[t])
    BY DEF PagesOf
  <2>2. Len(s.pages) \in Nat
    BY <1>1, IndexParts
  <2> QED
    BY <2>1, <2>2, <1>4, <1>6 DEF OnlyType, Alike, EqualNext, SameEntriesBut, EqualTail
<1>8. TypeChained(s, z, c, t, q, m[t])
  <2>1. TypeLinks(z, z.head[t], q)
    BY <1>2, <1>4 DEF TypeLinks, EqualNext, Alike
  <2>2. \A j \in 2 .. Len(q) : IsEmpty(z, q[j]) <=> j <= m[t]
    <3> SUFFICES ASSUME NEW j \in 2 .. Len(q) PROVE IsEmpty(z, q[j]) <=> j <= m[t]
      OBVIOUS
    <3>1. j \in 1 .. Len(q) /\ q[j] \in 1 .. Len(s.pages)
      BY <1>2
    <3>2. IsEmpty(s, q[j]) <=> j <= m[t]
      BY <1>2 DEF Sorted
    <3>3. Entries(z, q[j]) = IF q[j] = p THEN es ELSE Entries(s, q[j])
      BY <3>1, <1>4 DEF SameEntriesBut
    <3>4. q[j] = p => j = i
      BY <3>1, <1>2 DEF Different
    <3> QED
      BY <3>2, <3>3, <3>4 DEF IsEmpty
  <2>3. \A j \in 1 .. Len(q) : TailOf(z, q[j]) = TailOf(s, q[j])
    BY <1>2, <1>6 DEF EqualTail
  <2>4. m[t] >= 2 => TailOf(z, q[2]) = q[m[t]]
    <3>1. m[t] >= 2 => 2 \in 1 .. Len(q)
      BY <1>2
    <3> QED
      BY <3>1, <2>3, <1>2 DEF Sorted
  <2>5. Sorted(z, q, m[t])
    BY <2>2, <2>3, <2>4, <1>2 DEF Sorted
  <2>6. Len(s.pages) + 1 .. Len(z.pages) = {}
    <3>1. Len(z.pages) = Len(s.pages) /\ Len(s.pages) \in Nat
      BY <1>1, <1>4, IndexParts DEF Alike
    <3> QED
      BY <3>1
  <2> QED
    BY <2>1, <2>5, <2>6, <1>1, <1>2 DEF TypeChained
<1>9. Instead(c, c, t, q) /\ Instead(m, m, t, m[t])
  BY DEF Instead
<1>10. Strung(z, c, m)
  BY <1>1, <1>7, <1>8, <1>9, Rechained
<1> QED
  BY <1>4, <1>7, <1>10

-----------------------------------------------------------------------------
\* The nodes on pages.

OneEach(s, P) ==
    \A p, o \in P : \A k \in 1 .. Len(Entries(s, p)), l \in 1 .. Len(Entries(s, o)) :
        Entries(s, p)[k] = Entries(s, o)[l] => p = o /\ k = l

EntriesOf(s, P) == UNION {{Entries(s, p)[i] : i \in 1 .. Len(Entries(s, p))} : p \in P}

\* The pages Q of z have what the pages P of s have where it was, and r at place k of x.
Gains(s, z, P, Q, r, x, k) ==
    /\ P \subseteq Q /\ x \in Q /\ k \in 1 .. Len(Entries(z, x)) /\ Entries(z, x)[k] = r
    /\ \A p \in P : \A i \in 1 .. Len(Entries(s, p)) :
           i \in 1 .. Len(Entries(z, p)) /\ Entries(z, p)[i] = Entries(s, p)[i]
    /\ \A p \in Q : \A i \in 1 .. Len(Entries(z, p)) :
           (p = x /\ i = k) \/ (p \in P /\ i \in 1 .. Len(Entries(s, p)))

\* The last entry of the page h lies at place i of p, where another was.
Moves(s, z, P, p, i, h) ==
    /\ p \in P /\ h \in P /\ i \in 1 .. Len(Entries(s, p))
    /\ Len(Entries(s, h)) \in Nat /\ Len(Entries(s, h)) >= 1
    /\ \A x \in P : Len(Entries(z, x)) = IF x = h THEN Len(Entries(s, x)) - 1 ELSE Len(Entries(s, x))
    /\ \A x \in P : \A k \in 1 .. Len(Entries(z, x)) :
           Entries(z, x)[k] = IF x = p /\ k = i THEN Entries(s, h)[Len(Entries(s, h))] ELSE Entries(s, x)[k]

LEMMA EntryOnPages ==
    ASSUME NEW s, NEW P, NEW e
    PROVE  e \in EntriesOf(s, P) <=> \E p \in P : \E i \in 1 .. Len(Entries(s, p)) : e = Entries(s, p)[i]
BY DEF EntriesOf

LEMMA GainsOne ==
    ASSUME NEW s, NEW z, NEW P, NEW Q, NEW r, NEW x, NEW k, Gains(s, z, P, Q, r, x, k),
           r \notin EntriesOf(s, P), OneEach(s, P)
    PROVE  OneEach(z, Q) /\ EntriesOf(z, Q) = EntriesOf(s, P) \cup {r}
<1>1. ASSUME NEW p \in P, NEW i \in 1 .. Len(Entries(s, p)) PROVE Entries(s, p)[i] # r
  BY EntryOnPages
<1>2. ASSUME NEW p \in Q, NEW i \in 1 .. Len(Entries(z, p))
      PROVE  \/ p = x /\ i = k /\ Entries(z, p)[i] = r
             \/ p \in P /\ i \in 1 .. Len(Entries(s, p)) /\ Entries(z, p)[i] = Entries(s, p)[i] /\ Entries(z, p)[i] # r
  BY <1>1 DEF Gains
<1>3. OneEach(z, Q)
  <2> SUFFICES ASSUME NEW p \in Q, NEW o \in Q, NEW i \in 1 .. Len(Entries(z, p)), NEW j \in 1 .. Len(Entries(z, o)),
                      Entries(z, p)[i] = Entries(z, o)[j]
               PROVE  p = o /\ i = j
    BY DEF OneEach
  <2>1. \/ p = x /\ i = k /\ Entries(z, p)[i] = r
        \/ p \in P /\ i \in 1 .. Len(Entries(s, p)) /\ Entries(z, p)[i] = Entries(s, p)[i] /\ Entries(z, p)[i] # r
    BY <1>2
  <2>2. \/ o = x /\ j = k /\ Entries(z, o)[j] = r
        \/ o \in P /\ j \in 1 .. Len(Entries(s, o)) /\ Entries(z, o)[j] = Entries(s, o)[j] /\ Entries(z, o)[j] # r
    BY <1>2
  <2> QED
    BY <2>1, <2>2 DEF OneEach
<1>4. ASSUME NEW e PROVE e \in EntriesOf(z, Q) <=> e \in EntriesOf(s, P) \cup {r}
  <2>1. ASSUME e \in EntriesOf(z, Q) PROVE e \in EntriesOf(s, P) \cup {r}
    <3>1. PICK p \in Q : \E i \in 1 .. Len(Entries(z, p)) : e = Entries(z, p)[i]
      BY <2>1, EntryOnPages
    <3>2. PICK i \in 1 .. Len(Entries(z, p)) : e = Entries(z, p)[i]
      BY <3>1
    <3>3. e = r \/ (p \in P /\ i \in 1 .. Len(Entries(s, p)) /\ e = Entries(s, p)[i])
      BY <3>2, <1>2
    <3> QED
      BY <3>3, EntryOnPages
  <2>2. ASSUME e \in EntriesOf(s, P) PROVE e \in EntriesOf(z, Q)
    <3>1. PICK p \in P : \E i \in 1 .. Len(Entries(s, p)) : e = Entries(s, p)[i]
      BY <2>2, EntryOnPages
    <3>2. PICK i \in 1 .. Len(Entries(s, p)) : e = Entries(s, p)[i]
      BY <3>1
    <3>3. p \in Q /\ i \in 1 .. Len(Entries(z, p)) /\ e = Entries(z, p)[i]
      BY <3>2 DEF Gains
    <3> QED
      BY <3>3, EntryOnPages
  <2>3. r \in EntriesOf(z, Q)
    <3>1. x \in Q /\ k \in 1 .. Len(Entries(z, x)) /\ Entries(z, x)[k] = r
      BY DEF Gains
    <3> QED
      BY <3>1, EntryOnPages
  <2> QED
    BY <2>1, <2>2, <2>3
<1> QED
  BY <1>3, <1>4

LEMMA LosesOne ==
    ASSUME NEW s, NEW z, NEW P, NEW p, NEW i, NEW h, Moves(s, z, P, p, i, h), OneEach(s, P),
           \A x \in P : Len(Entries(s, x)) \in Nat
    PROVE  OneEach(z, P) /\ EntriesOf(z, P) = EntriesOf(s, P) \ {Entries(s, p)[i]}
<1> DEFINE L == Len(Entries(s, h))
           Old(x, k) == Entries(s, x)[k]
           New(x, k) == Entries(z, x)[k]
<1>1. /\ p \in P /\ h \in P /\ i \in 1 .. Len(Entries(s, p)) /\ L \in Nat /\ L >= 1 /\ L \in 1 .. Len(Entries(s, h))
  BY DEF Moves
<1>2. ASSUME NEW x \in P, NEW k \in 1 .. Len(Entries(z, x))
      PROVE  /\ k \in 1 .. Len(Entries(s, x)) /\ ~ (x = h /\ k = L)
             /\ New(x, k) = IF x = p /\ k = i THEN Old(h, L) ELSE Old(x, k)
  BY DEF Moves
<1>3. ASSUME NEW x \in P, NEW o \in P, NEW k \in 1 .. Len(Entries(s, x)), NEW l \in 1 .. Len(Entries(s, o)),
             Old(x, k) = Old(o, l)
      PROVE  x = o /\ k = l
  BY <1>3 DEF OneEach
<1>4. ASSUME NEW x \in P, NEW k \in 1 .. Len(Entries(s, x)), ~ (x = h /\ k = L)
      PROVE  k \in 1 .. Len(Entries(z, x))
  BY <1>4 DEF Moves
<1> HIDE DEF L, Old, New
<1>5. OneEach(z, P)
  <2> SUFFICES ASSUME NEW x \in P, NEW o \in P, NEW k \in 1 .. Len(Entries(z, x)), NEW l \in 1 .. Len(Entries(z, o)),
                      New(x, k) = New(o, l)
               PROVE  x = o /\ k = l
    BY DEF OneEach, New
  <2>1. /\ k \in 1 .. Len(Entries(s, x)) /\ ~ (x = h /\ k = L)
        /\ New(x, k) = IF x = p /\ k = i THEN Old(h, L) ELSE Old(x, k)
    BY <1>2
  <2>2. /\ l \in 1 .. Len(Entries(s, o)) /\ ~ (o = h /\ l = L)
        /\ New(o, l) = IF o = p /\ l = i THEN Old(h, L) ELSE Old(o, l)
    BY <1>2
  <2>3. CASE x = p /\ k = i
    <3>1. ~ (o = h /\ l = L) /\ New(x, k) = Old(h, L)
      BY <2>1, <2>2, <2>3
    <3>2. CASE o = p /\ l = i
      BY <2>3, <3>2
    <3>3. CASE ~ (o = p /\ l = i)
      <4>1. Old(h, L) = Old(o, l) /\ l \in 1 .. Len(Entries(s, o))
        BY <2>2, <3>1, <3>3
      <4> QED
        BY <4>1, <3>1, <1>1, <1>3
    <3> QED
      BY <3>2, <3>3
  <2>4. CASE ~ (x = p /\ k = i)
    <3>1. ~ (x = h /\ k = L) /\ New(x, k) = Old(x, k) /\ k \in 1 .. Len(Entries(s, x))
      BY <2>1, <2>4
    <3>2. CASE o = p /\ l = i
      <4>1. Old(x, k) = Old(h, L)
        BY <2>2, <3>1, <3>2
      <4> QED
        BY <4>1, <3>1, <1>1, <1>3
    <3>3. CASE ~ (o = p /\ l = i)
      <4>1. Old(x, k) = Old(o, l) /\ l \in 1 .. Len(Entries(s, o))
        BY <2>2, <3>1, <3>3
      <4> QED
        BY <4>1, <3>1, <1>3
    <3> QED
      BY <3>2, <3>3
  <2> QED
    BY <2>3, <2>4
<1>6. ASSUME NEW e PROVE e \in EntriesOf(z, P) <=> e \in EntriesOf(s, P) /\ e # Old(p, i)
  <2>1. ASSUME e \in EntriesOf(z, P) PROVE e \in EntriesOf(s, P) /\ e # Old(p, i)
    <3>1. PICK x \in P : \E k \in 1 .. Len(Entries(z, x)) : e = New(x, k)
      BY <2>1, EntryOnPages DEF New
    <3>2. PICK k \in 1 .. Len(Entries(z, x)) : e = New(x, k)
      BY <3>1
    <3>3. /\ k \in 1 .. Len(Entries(s, x)) /\ ~ (x = h /\ k = L)
          /\ e = IF x = p /\ k = i THEN Old(h, L) ELSE Old(x, k)
      BY <3>2, <1>2
    <3>4. \E o \in P : \E l \in 1 .. Len(Entries(s, o)) : e = Old(o, l) /\ ~ (o = p /\ l = i)
      <4>1. CASE x = p /\ k = i
        BY <4>1, <3>3, <1>1
      <4>2. CASE ~ (x = p /\ k = i)
        BY <4>2, <3>3
      <4> QED
        BY <4>1, <4>2
    <3>5. e # Old(p, i)
      BY <3>4, <1>1, <1>3
    <3>6. e \in EntriesOf(s, P)
      BY <3>4, EntryOnPages DEF Old
    <3> QED
      BY <3>5, <3>6
  <2>2. ASSUME e \in EntriesOf(s, P), e # Old(p, i) PROVE e \in EntriesOf(z, P)
    <3>1. PICK x \in P : \E k \in 1 .. Len(Entries(s, x)) : e = Old(x, k)
      BY <2>2, EntryOnPages DEF Old
    <3>2. PICK k \in 1 .. Len(Entries(s, x)) : e = Old(x, k)
      BY <3>1
    <3>3. ~ (x = p /\ k = i)
      BY <3>2, <2>2
    <3>4. \E o \in P : \E l \in 1 .. Len(Entries(z, o)) : e = New(o, l)
      <4>1. CASE x = h /\ k = L
        <5>1. ~ (p = h /\ i = L)
          BY <4>1, <3>3
        <5>2. i \in 1 .. Len(Entries(z, p))
          BY <5>1, <1>1, <1>4
        <5>3. New(p, i) = Old(h, L)
          BY <5>2, <1>1, <1>2
        <5> QED
          BY <5>2, <5>3, <4>1, <3>2, <1>1
      <4>2. CASE ~ (x = h /\ k = L)
        <5>1. k \in 1 .. Len(Entries(z, x))
          BY <4>2, <1>4
        <5>2. New(x, k) = Old(x, k)
          BY <5>1, <3>3, <1>2
        <5> QED
          BY <5>1, <5>2, <3>2
      <4> QED
        BY <4>1, <4>2
    <3> QED
      BY <3>4, EntryOnPages DEF New
  <2> QED
    BY <2>1, <2>2
<1>7. EntriesOf(z, P) = EntriesOf(s, P) \ {Old(p, i)}
  BY <1>6
<1> QED
  BY <1>5, <1>7 DEF Old

-----------------------------------------------------------------------------
\* The chains that the relinking makes.

LEMMA SeqMade ==
    ASSUME NEW n \in Nat, NEW w \in [1 .. n -> Nat]
    PROVE  w \in Seq(Nat) /\ Len(w) = n
OBVIOUS

\* The pages of w are those of q, each at the place that f tells; g tells the place in w.
Reordered(q, w, f, g) ==
    /\ Len(w) = Len(q)
    /\ \A i \in 1 .. Len(q) : /\ f[i] \in 1 .. Len(q) /\ g[i] \in 1 .. Len(q) /\ f[g[i]] = i /\ g[f[i]] = i
                              /\ w[i] = q[f[i]]

LEMMA ReorderedPages ==
    ASSUME NEW q, NEW w, NEW f, NEW g, Reordered(q, w, f, g), Different(q)
    PROVE  Different(w) /\ PagesOf(w) = PagesOf(q)
<1>1. Different(w)
  <2> SUFFICES ASSUME NEW i \in 1 .. Len(q), NEW j \in 1 .. Len(q), w[i] = w[j] PROVE i = j
    BY DEF Different, Reordered
  <2>1. q[f[i]] = q[f[j]] /\ f[i] \in 1 .. Len(q) /\ f[j] \in 1 .. Len(q)
    BY DEF Reordered
  <2>2. f[i] = f[j]
    BY <2>1 DEF Different
  <2> QED
    BY <2>2 DEF Reordered
<1>2. \A i \in 1 .. Len(q) : q[i] = w[g[i]] /\ g[i] \in 1 .. Len(w)
  BY DEF Reordered
<1>3. \A i \in 1 .. Len(w) : w[i] = q[f[i]] /\ f[i] \in 1 .. Len(q)
  BY DEF Reordered
<1>4. ASSUME NEW x \in PagesOf(w) PROVE x \in PagesOf(q)
  BY <1>3 DEF PagesOf
<1>5. ASSUME NEW x \in PagesOf(q) PROVE x \in PagesOf(w)
  BY <1>2 DEF PagesOf
<1> QED
  BY <1>1, <1>4, <1>5

\* The head goes behind the k - 1 pages after it.
HeadTo(q, k) == [i \in 1 .. Len(q) |-> q[IF i < k THEN i + 1 ELSE IF i = k THEN 1 ELSE i]]

\* The page at k goes to the front.
FrontFrom(q, k) == [i \in 1 .. Len(q) |-> q[IF i = 1 THEN k ELSE IF i <= k THEN i - 1 ELSE i]]

HeadMoved(q, w, k) ==
    /\ w \in Seq(Nat) /\ Len(w) = Len(q) /\ Different(w) /\ PagesOf(w) = PagesOf(q)
    /\ \A i \in 1 .. Len(q) : w[i] = q[IF i < k THEN i + 1 ELSE IF i = k THEN 1 ELSE i]

LEMMA HeadToIs ==
    ASSUME NEW q \in Seq(Nat), NEW k \in 1 .. Len(q), Different(q), NEW w, w = HeadTo(q, k)
    PROVE  HeadMoved(q, w, k)
<1> DEFINE f == [i \in 1 .. Len(q) |-> IF i < k THEN i + 1 ELSE IF i = k THEN 1 ELSE i]
           g == [i \in 1 .. Len(q) |-> IF i = 1 THEN k ELSE IF i <= k THEN i - 1 ELSE i]
<1>1. Len(q) \in Nat /\ k \in Nat
  OBVIOUS
<1>2. \A i \in 1 .. Len(q) : /\ f[i] \in 1 .. Len(q) /\ g[i] \in 1 .. Len(q) /\ f[g[i]] = i /\ g[f[i]] = i
                             /\ f[i] = IF i < k THEN i + 1 ELSE IF i = k THEN 1 ELSE i
  BY <1>1
<1>3. \A i \in 1 .. Len(q) : w[i] = q[IF i < k THEN i + 1 ELSE IF i = k THEN 1 ELSE i]
  BY DEF HeadTo
<1>4. w \in [1 .. Len(q) -> Nat]
  <2>1. \A i \in 1 .. Len(q) : (IF i < k THEN i + 1 ELSE IF i = k THEN 1 ELSE i) \in 1 .. Len(q)
    BY <1>1
  <2>2. \A i \in 1 .. Len(q) : q[i] \in Nat
    OBVIOUS
  <2>3. \A i \in 1 .. Len(q) : q[IF i < k THEN i + 1 ELSE IF i = k THEN 1 ELSE i] \in Nat
    BY <2>1, <2>2
  <2> QED
    BY <2>3 DEF HeadTo
<1>5. w \in Seq(Nat) /\ Len(w) = Len(q)
  BY <1>1, <1>4, SeqMade
<1> HIDE DEF f, g
<1>6. Reordered(q, w, f, g)
  <2>1. ASSUME NEW i \in 1 .. Len(q) PROVE w[i] = q[f[i]]
    <3>1. f[i] = IF i < k THEN i + 1 ELSE IF i = k THEN 1 ELSE i
      BY <1>2
    <3>2. w[i] = q[IF i < k THEN i + 1 ELSE IF i = k THEN 1 ELSE i]
      BY <1>3
    <3> QED
      BY <3>1, <3>2, Zenon
  <2> QED
    BY <1>2, <1>5, <2>1, Zenon DEF Reordered
<1> QED
  BY <1>3, <1>5, <1>6, ReorderedPages DEF HeadMoved

FrontMoved(q, w, k) ==
    /\ w \in Seq(Nat) /\ Len(w) = Len(q) /\ Different(w) /\ PagesOf(w) = PagesOf(q)
    /\ \A i \in 1 .. Len(q) : w[i] = q[IF i = 1 THEN k ELSE IF i <= k THEN i - 1 ELSE i]

LEMMA FrontFromIs ==
    ASSUME NEW q \in Seq(Nat), NEW k \in 1 .. Len(q), Different(q), NEW w, w = FrontFrom(q, k)
    PROVE  FrontMoved(q, w, k)
<1> DEFINE g == [i \in 1 .. Len(q) |-> IF i < k THEN i + 1 ELSE IF i = k THEN 1 ELSE i]
           f == [i \in 1 .. Len(q) |-> IF i = 1 THEN k ELSE IF i <= k THEN i - 1 ELSE i]
<1>1. Len(q) \in Nat /\ k \in Nat
  OBVIOUS
<1>2. \A i \in 1 .. Len(q) : /\ f[i] \in 1 .. Len(q) /\ g[i] \in 1 .. Len(q) /\ f[g[i]] = i /\ g[f[i]] = i
                             /\ f[i] = IF i = 1 THEN k ELSE IF i <= k THEN i - 1 ELSE i
  BY <1>1
<1>3. \A i \in 1 .. Len(q) : w[i] = q[IF i = 1 THEN k ELSE IF i <= k THEN i - 1 ELSE i]
  BY DEF FrontFrom
<1>4. w \in [1 .. Len(q) -> Nat]
  <2>1. \A i \in 1 .. Len(q) : (IF i = 1 THEN k ELSE IF i <= k THEN i - 1 ELSE i) \in 1 .. Len(q)
    BY <1>1
  <2>2. \A i \in 1 .. Len(q) : q[i] \in Nat
    OBVIOUS
  <2>3. \A i \in 1 .. Len(q) : q[IF i = 1 THEN k ELSE IF i <= k THEN i - 1 ELSE i] \in Nat
    BY <2>1, <2>2
  <2> QED
    BY <2>3 DEF FrontFrom
<1>5. w \in Seq(Nat) /\ Len(w) = Len(q)
  BY <1>1, <1>4, SeqMade
<1> HIDE DEF f, g
<1>6. Reordered(q, w, f, g)
  <2>1. ASSUME NEW i \in 1 .. Len(q) PROVE w[i] = q[f[i]]
    <3>1. f[i] = IF i = 1 THEN k ELSE IF i <= k THEN i - 1 ELSE i
      BY <1>2
    <3>2. w[i] = q[IF i = 1 THEN k ELSE IF i <= k THEN i - 1 ELSE i]
      BY <1>3
    <3> QED
      BY <3>1, <3>2, Zenon
  <2> QED
    BY <1>2, <1>5, <2>1, Zenon DEF Reordered
<1> QED
  BY <1>3, <1>5, <1>6, ReorderedPages DEF FrontMoved

-----------------------------------------------------------------------------
\* add_new.

\* The page of the type t that a new node comes to is the k-th of x; the types have chains as they should.
NodeAdded(s, c, z, t, r) ==
    \E d, n, x, k : /\ Strung(z, d, n) /\ OnlyType(s, z, c, t) /\ Instead(c, d, t, d[t])
                    /\ Gains(s, z, PagesOf(c[t]), PagesOf(d[t]), r, x, k)

\* A page of its own at the front.
PageAhead(s, z, t, r) ==
    /\ z \in Indexes /\ Len(z.pages) = Len(s.pages) + 1
    /\ z.head[t] = Len(s.pages) + 1 /\ \A u \in Types : u # t => z.head[u] = s.head[u]
    /\ \A y \in 1 .. Len(s.pages) : z.pages[y] = s.pages[y]
    /\ NextPage(z, Len(s.pages) + 1) = s.head[t] /\ Entries(z, Len(s.pages) + 1) = <<r>>
    /\ TailOf(z, Len(s.pages) + 1) = NoPage

LEMMA PushPageIs ==
    ASSUME NEW s \in Indexes, NEW t \in Types, NEW r \in Rids, NEW z, z = PushPage(s, t, r)
    PROVE  PageAhead(s, z, t, r)
<1>1. /\ s = [head |-> s.head, pages |-> s.pages] /\ s.head \in [Types -> Nat \cup {NoPage}] /\ s.pages \in Seq(LabelPages)
      /\ Len(s.pages) \in Nat
  BY IndexParts
<1> DEFINE page == [next |-> s.head[t], entries |-> <<r>>, tail |-> NoPage]
           H == [s.head EXCEPT ![t] = Len(s.pages) + 1]
           P == Append(s.pages, page)
<1>2. page \in LabelPages /\ page.next = s.head[t] /\ page.entries = <<r>> /\ page.tail = NoPage
  BY <1>1 DEF LabelPages
<1>3. H \in [Types -> Nat \cup {NoPage}] /\ H[t] = Len(s.pages) + 1 /\ \A u \in Types : u # t => H[u] = s.head[u]
  BY <1>1
<1>4. z = [head |-> H, pages |-> P]
  BY <1>1 DEF PushPage
<1> HIDE DEF page, H
<1>5. /\ P \in Seq(LabelPages) /\ Len(P) = Len(s.pages) + 1 /\ P[Len(s.pages) + 1] = page
      /\ \A y \in 1 .. Len(s.pages) : P[y] = s.pages[y]
  BY <1>1, <1>2
<1> HIDE DEF P
<1>6. \A x : x = [head |-> H, pages |-> P] => x.head = H /\ x.pages = P
  OBVIOUS
<1>7. z.head = H /\ z.pages = P
  BY <1>4, <1>6, Zenon
<1>8. z \in Indexes
  BY <1>3, <1>4, <1>5 DEF Indexes
<1>9. /\ NextPage(z, Len(s.pages) + 1) = s.head[t] /\ Entries(z, Len(s.pages) + 1) = <<r>>
      /\ TailOf(z, Len(s.pages) + 1) = NoPage
  BY <1>2, <1>5, <1>7 DEF NextPage, Entries, TailOf
<1> QED
  BY <1>3, <1>5, <1>7, <1>8, <1>9 DEF PageAhead

\* No page of the type is empty: there was none, or it was the full head with no spare behind it.
LEMMA PagePushed ==
    ASSUME NEW s, NEW c, NEW m, Strung(s, c, m), NEW t \in Types, NEW r \in Rids,
           c[t] # <<>> => ~ IsEmpty(s, c[t][1]) /\ m[t] = 1
    PROVE  NodeAdded(s, c, PushPage(s, t, r), t, r)
<1> DEFINE z == PushPage(s, t, r)
           q == c[t]
           N == Len(s.pages) + 1
           w == [i \in 1 .. (Len(q) + 1) |-> IF i = 1 THEN N ELSE q[i - 1]]
           d == [c EXCEPT ![t] = w]
           n == [m EXCEPT ![t] = 1]
<1>1. s \in Indexes /\ c \in [Types -> Seq(Nat)] /\ m \in [Types -> Nat]
  BY DEF Strung
<1>2. PageAhead(s, z, t, r)
  BY <1>1, PushPageIs
<1>3. /\ q \in Seq(Nat) /\ Len(q) \in Nat /\ m[t] \in 0 .. Len(q) /\ TypeLinks(s, s.head[t], q) /\ Sorted(s, q, m[t])
      /\ \A j \in 1 .. Len(q) : q[j] \in 1 .. Len(s.pages)
      /\ q # <<>> => Len(q) >= 1 /\ s.head[t] = q[1]
      /\ s.head[t] = NoPage <=> q = <<>>
  BY StrungParts
<1>4. Different(q)
  BY ChainDiffers
<1>5. Len(s.pages) \in Nat /\ N \in Nat
  BY <1>1, IndexParts
<1>6. w \in [1 .. (Len(q) + 1) -> Nat]
  BY <1>3, <1>5
<1>7. w \in Seq(Nat) /\ Len(w) = Len(q) + 1
  <2> HIDE DEF w
  <2> QED
    BY <1>3, <1>6, SeqMade
<1>8. w[1] = N /\ \A i \in 2 .. Len(w) : i - 1 \in 1 .. Len(q) /\ w[i] = q[i - 1]
  BY <1>3, <1>7
<1> HIDE DEF z, q, N, w
<1>9. ASSUME NEW y \in 1 .. Len(s.pages)
      PROVE  y # N /\ NextPage(z, y) = NextPage(s, y) /\ Entries(z, y) = Entries(s, y) /\ TailOf(z, y) = TailOf(s, y)
  BY <1>2, <1>5 DEF PageAhead, NextPage, Entries, TailOf, N
<1>10. OnlyType(s, z, c, t)
  BY <1>2, <1>5, <1>9 DEF PageAhead, OnlyType
<1>11. q # <<>> => Len(q) >= 1 /\ ~ IsEmpty(s, q[1]) /\ m[t] = 1
  BY <1>3 DEF q
<1>12. TypeLinks(z, z.head[t], w)
  <2>1. w # <<>> /\ z.head[t] = w[1]
    BY <1>2, <1>3, <1>7, <1>8 DEF PageAhead, N
  <2>2. ASSUME NEW i \in 1 .. Len(w)
        PROVE  w[i] \in 1 .. Len(z.pages) /\ NextPage(z, w[i]) = IF i = Len(w) THEN NoPage ELSE w[i + 1]
    <3>1. CASE i = 1
      <4>1. NextPage(z, w[1]) = s.head[t] /\ N \in 1 .. Len(z.pages)
        BY <1>2, <1>5, <1>8 DEF PageAhead, N
      <4>2. CASE q = <<>>
        BY <4>1, <4>2, <3>1, <1>3, <1>7, <1>8
      <4>3. CASE q # <<>>
        <5>1. s.head[t] = q[1] /\ 2 \in 2 .. Len(w) /\ Len(w) # 1
          BY <4>3, <1>3, <1>7
        <5>2. w[2] = q[1]
          BY <5>1, <1>8
        <5> QED
          BY <5>1, <5>2, <4>1, <3>1, <1>8
      <4> QED
        BY <4>2, <4>3
    <3>2. CASE i # 1
      <4>1. i \in 2 .. Len(w) /\ i - 1 \in 1 .. Len(q) /\ w[i] = q[i - 1]
        BY <3>2, <1>7, <1>3, <1>8
      <4>2. q[i - 1] \in 1 .. Len(s.pages) /\ NextPage(s, q[i - 1]) = IF i - 1 = Len(q) THEN NoPage ELSE q[(i - 1) + 1]
        BY <4>1, <1>3 DEF TypeLinks
      <4>3. NextPage(z, q[i - 1]) = NextPage(s, q[i - 1]) /\ q[i - 1] \in 1 .. Len(z.pages)
        BY <4>2, <1>2, <1>5, <1>9 DEF PageAhead
      <4>4. i # Len(w) => w[i + 1] = q[i]
        <5>1. i # Len(w) => i + 1 \in 2 .. Len(w) /\ (i + 1) - 1 = i
          BY <4>1, <1>3, <1>7
        <5> QED
          BY <5>1, <1>8
      <4>5. (i - 1) + 1 = i /\ (i - 1 = Len(q) <=> i = Len(w))
        BY <4>1, <1>3, <1>7
      <4> QED
        BY <4>1, <4>2, <4>3, <4>4, <4>5
    <3> QED
      BY <3>1, <3>2
  <2> QED
    BY <2>1, <2>2 DEF TypeLinks
<1>13. Sorted(z, w, 1)
  <2>1. ASSUME NEW i \in 2 .. Len(w) PROVE ~ IsEmpty(z, w[i]) /\ TailOf(z, w[i]) = NoPage
    <3>1. i - 1 \in 1 .. Len(q) /\ w[i] = q[i - 1]
      BY <1>8
    <3>2. q # <<>>
      BY <3>1, <1>3
    <3>3. ~ IsEmpty(s, q[1]) /\ m[t] = 1
      BY <3>2, <1>11
    <3>4. ~ IsEmpty(s, q[i - 1])
      <4>1. CASE i - 1 = 1
        BY <4>1, <3>3
      <4>2. CASE i - 1 # 1
        <5>1. i - 1 \in 2 .. Len(q) /\ ~ (i - 1 <= 1)
          BY <4>2, <3>1, <1>3
        <5> QED
          BY <5>1, <3>3, <1>3 DEF Sorted
      <4> QED
        BY <4>1, <4>2
    <3>5. TailOf(s, q[i - 1]) = NoPage
      <4>1. TailOf(s, q[i - 1]) = NoPage \/ (2 <= i - 1 /\ i - 1 <= m[t])
        BY <3>1, <1>3 DEF Sorted
      <4>2. i - 1 \in Nat /\ ~ (2 <= i - 1 /\ i - 1 <= 1)
        BY <3>1, <1>3
      <4> QED
        BY <4>1, <4>2, <3>3
    <3>6. q[i - 1] \in 1 .. Len(s.pages)
      BY <3>1, <1>3
    <3> QED
      BY <3>1, <3>4, <3>5, <3>6, <1>9 DEF IsEmpty
  <2>2. TailOf(z, w[1]) = NoPage
    BY <1>2, <1>8 DEF PageAhead, N
  <2>3. \A i \in 1 .. Len(w) : i = 1 \/ i \in 2 .. Len(w)
    BY <1>3, <1>7
  <2>4. \A i \in 1 .. Len(w) : TailOf(z, w[i]) = NoPage
    BY <2>1, <2>2, <2>3
  <2>5. \A i \in 2 .. Len(w) : ~ (i <= 1)
    BY <1>3, <1>7
  <2>6. 1 \in 0 .. Len(w)
    BY <1>3, <1>7
  <2> QED
    BY <2>1, <2>4, <2>5, <2>6 DEF Sorted
<1>14. Different(w)
  <2> SUFFICES ASSUME NEW i \in 1 .. Len(w), NEW j \in 1 .. Len(w), w[i] = w[j] PROVE i = j
    BY DEF Different
  <2>1. \A l \in 1 .. Len(w) : l = 1 \/ l \in 2 .. Len(w)
    BY <1>3, <1>7
  <2>2. \A l \in 2 .. Len(w) : w[l] # N
    BY <1>3, <1>8, <1>9
  <2>3. CASE i \in 2 .. Len(w) /\ j \in 2 .. Len(w)
    <3>1. q[i - 1] = q[j - 1] /\ i - 1 \in 1 .. Len(q) /\ j - 1 \in 1 .. Len(q)
      BY <2>3, <1>8
    <3>2. i - 1 = j - 1
      BY <3>1, <1>4 DEF Different
    <3> QED
      BY <3>2, <2>3
  <2> QED
    BY <2>1, <2>2, <2>3, <1>8
<1>15. \A p : p \in PagesOf(w) <=> p \in PagesOf(q) \/ p = N
  <2>1. ASSUME NEW p \in PagesOf(w) PROVE p \in PagesOf(q) \/ p = N
    <3>1. PICK i \in 1 .. Len(w) : p = w[i]
      BY <2>1 DEF PagesOf
    <3>2. i = 1 \/ i \in 2 .. Len(w)
      BY <1>3, <1>7
    <3> QED
      BY <3>1, <3>2, <1>8 DEF PagesOf
  <2>2. ASSUME NEW p \in PagesOf(q) PROVE p \in PagesOf(w)
    <3>1. PICK i \in 1 .. Len(q) : p = q[i]
      BY <2>2 DEF PagesOf
    <3>2. i + 1 \in 2 .. Len(w) /\ (i + 1) - 1 = i /\ i + 1 \in 1 .. Len(w)
      <4>1. i \in Nat /\ 1 <= i /\ i <= Len(q) /\ Len(q) \in Nat /\ Len(w) = Len(q) + 1
        BY <1>3, <1>7
      <4> QED
        BY <4>1
    <3>3. w[i + 1] = q[i]
      BY <3>2, <1>8
    <3> QED
      BY <3>1, <3>2, <3>3 DEF PagesOf
  <2>3. N \in PagesOf(w)
    <3>1. 1 \in 1 .. Len(w)
      BY <1>3, <1>7
    <3> QED
      BY <3>1, <1>8 DEF PagesOf
  <2> QED
    BY <2>1, <2>2, <2>3
<1>16. \A p : p \in Len(s.pages) + 1 .. Len(z.pages) <=> p = N
  BY <1>2, <1>5 DEF PageAhead, N
<1>17. TypeChained(s, z, c, t, w, 1)
  BY <1>7, <1>12, <1>13, <1>14, <1>15, <1>16 DEF TypeChained, q
<1>18. d \in [Types -> Seq(Nat)] /\ Instead(c, d, t, w) /\ n \in [Types -> Nat] /\ Instead(m, n, t, 1)
  <2>1. 1 \in Nat
    OBVIOUS
  <2> QED
    BY <2>1, <1>1, <1>7, InsteadIs
<1> HIDE DEF d, n
<1>19. Strung(z, d, n)
  BY <1>10, <1>17, <1>18, Rechained
<1>20. Gains(s, z, PagesOf(c[t]), PagesOf(d[t]), r, N, 1)
  <2>1. d[t] = w
    BY <1>18 DEF Instead
  <2>2. Entries(z, N) = <<r>> /\ Len(<<r>>) = 1 /\ <<r>>[1] = r
    BY <1>2 DEF PageAhead, N
  <2>3. \A p \in PagesOf(q) : p \in 1 .. Len(s.pages)
    BY <1>3 DEF PagesOf
  <2>4. \A i \in 1 .. Len(<<r>>) : i = 1
    BY <2>2
  <2>5. \A p \in PagesOf(q) : Entries(z, p) = Entries(s, p)
    BY <2>3, <1>9
  <2>6. 1 \in 1 .. Len(Entries(z, N)) /\ Entries(z, N)[1] = r
    BY <2>2
  <2>7. PagesOf(q) \subseteq PagesOf(w) /\ N \in PagesOf(w)
    BY <1>15
  <2>8. \A p \in PagesOf(q) : \A i \in 1 .. Len(Entries(s, p)) :
           i \in 1 .. Len(Entries(z, p)) /\ Entries(z, p)[i] = Entries(s, p)[i]
    BY <2>5
  <2>9. \A p \in PagesOf(w) : \A i \in 1 .. Len(Entries(z, p)) :
           (p = N /\ i = 1) \/ (p \in PagesOf(q) /\ i \in 1 .. Len(Entries(s, p)))
    BY <2>2, <2>4, <2>5, <1>15
  <2> QED
    BY <2>1, <2>6, <2>7, <2>8, <2>9 DEF Gains, q
<1>21. Instead(c, d, t, d[t])
  BY <1>18 DEF Instead
<1> QED
  BY <1>10, <1>19, <1>20, <1>21 DEF NodeAdded, z

\* The head has a spare behind it where the run of spares is not empty.
LEMMA HasSpareIs ==
    ASSUME NEW s, NEW c, NEW m, Strung(s, c, m), NEW t \in Types, c[t] # <<>>
    PROVE  /\ HasSpare(s, c[t][1]) <=> m[t] >= 2
           /\ m[t] >= 1 /\ m[t] \in Nat /\ m[t] <= Len(c[t])
<1> DEFINE q == c[t]
<1>1. /\ Len(q) \in Nat /\ m[t] \in 0 .. Len(q) /\ TypeLinks(s, s.head[t], q) /\ Sorted(s, q, m[t]) /\ Len(q) >= 1
      /\ \A j \in 1 .. Len(q) : q[j] \in 1 .. Len(s.pages)
  BY StrungParts
<1>2. m[t] >= 1 /\ m[t] \in Nat /\ m[t] <= Len(q) /\ Len(q) \in Nat /\ Len(q) >= 1
  BY <1>1 DEF Sorted
<1>3. NextPage(s, q[1]) = IF 1 = Len(q) THEN NoPage ELSE q[2]
  <2>1. 1 \in 1 .. Len(q) /\ 1 + 1 = 2
    BY <1>1
  <2> QED
    BY <2>1, <1>1 DEF TypeLinks
<1>4. CASE Len(q) = 1
  BY <1>2, <1>3, <1>4 DEF HasSpare
<1>5. CASE Len(q) # 1
  <2>0. Len(q) >= 2
    <3>1. \A x \in Nat : x >= 1 /\ x # 1 => x >= 2
      OBVIOUS
    <3> QED
      BY <3>1, <1>2, <1>5, Zenon
  <2>1. 2 \in 2 .. Len(q) /\ 2 \in 1 .. Len(q)
    BY <2>0, <1>1
  <2>2. IsEmpty(s, q[2]) <=> 2 <= m[t]
    BY <2>1, <1>1 DEF Sorted
  <2>3. q[2] # NoPage
    <3>1. q[2] \in Nat
      BY <2>1, <1>1
    <3> QED
      BY <3>1, NoPageAssumption
  <2> QED
    BY <2>2, <2>3, <1>2, <1>3, <1>5 DEF HasSpare
<1> QED
  BY <1>4, <1>5

\* Where the spares end: the first spare tells.
LEMMA RunEndIs ==
    ASSUME NEW s, NEW c, NEW m, Strung(s, c, m), NEW t \in Types, m[t] >= 2
    PROVE  /\ NextPage(s, c[t][1]) = c[t][2] /\ RunEnd(s, c[t][1]) = c[t][m[t]]
           /\ SpareTail(s, c[t][2]) = c[t][m[t]] /\ IsEmpty(s, c[t][2]) /\ IsEmpty(s, c[t][m[t]])
           /\ m[t] \in 2 .. Len(c[t])
           /\ m[t] >= 3 => NextPage(s, c[t][2]) = c[t][3] /\ IsEmpty(s, c[t][3])
<1> DEFINE q == c[t]
           M == m[t]
<1>1. /\ Len(q) \in Nat /\ M \in 0 .. Len(q) /\ TypeLinks(s, s.head[t], q) /\ Sorted(s, q, M)
      /\ \A j \in 1 .. Len(q) : q[j] \in 1 .. Len(s.pages)
  BY StrungParts
<1>2. Different(q)
  BY ChainDiffers
<1>3. M \in 2 .. Len(q) /\ 2 \in 2 .. Len(q) /\ 1 \in 1 .. Len(q) /\ M \in 1 .. Len(q) /\ Len(q) # 1
  BY <1>1
<1>4. IsEmpty(s, q[2]) /\ IsEmpty(s, q[M])
  BY <1>1, <1>3 DEF Sorted
<1>5. NextPage(s, q[1]) = q[2]
  <2>1. 1 + 1 = 2 /\ 1 # Len(q)
    BY <1>3
  <2> QED
    BY <2>1, <1>1, <1>3 DEF TypeLinks
<1>6. SpareTail(s, q[2]) = q[M]
  BY <1>1, <1>4 DEF Sorted, SpareTail, TailOf
<1>7. q[M] # NoPage /\ q[M] # q[1]
  <2>1. q[M] \in Nat
    BY <1>1, <1>3
  <2>2. q[M] = q[1] => M = 1
    BY <1>2, <1>3 DEF Different
  <2> QED
    BY <2>1, <2>2, <1>3, NoPageAssumption
<1>8. RunEnd(s, q[1]) = q[M]
  BY <1>4, <1>5, <1>6, <1>7 DEF RunEnd
<1>9. M >= 3 => NextPage(s, q[2]) = q[3] /\ IsEmpty(s, q[3])
  <2>1. ASSUME M >= 3 PROVE NextPage(s, q[2]) = q[3] /\ IsEmpty(s, q[3])
    <3>1. 2 \in 1 .. Len(q) /\ 2 # Len(q) /\ 2 + 1 = 3 /\ 3 \in 2 .. Len(q) /\ 3 <= M
      BY <2>1, <1>1
    <3>2. NextPage(s, q[2]) = q[2 + 1]
      BY <3>1, <1>1 DEF TypeLinks
    <3> QED
      BY <3>1, <3>2, <1>1 DEF Sorted
  <2> QED
    BY <2>1
<1> QED
  BY <1>3, <1>4, <1>5, <1>6, <1>8, <1>9

\* What the promotion of a spare writes, together with the entry and the head.
SpareLeads(s, z, t, r, q, M) ==
    /\ z \in Indexes /\ Len(z.pages) = Len(s.pages)
    /\ z.head[t] = q[2] /\ \A u \in Types : u # t => z.head[u] = s.head[u]
    /\ \A y \in 1 .. Len(s.pages) :
           /\ NextPage(z, y) = IF y = q[M] THEN q[1] ELSE IF y = q[1] THEN NextPage(s, q[M]) ELSE NextPage(s, y)
           /\ Entries(z, y) = IF y = q[2] THEN <<r>> ELSE Entries(s, y)
           /\ TailOf(z, y) = IF y = q[2] THEN NoPage ELSE IF M >= 3 /\ y = q[3] THEN q[M] ELSE TailOf(s, y)

LEMMA SpareLeadsIs ==
    ASSUME NEW s, NEW c, NEW m, Strung(s, c, m), NEW t \in Types, m[t] >= 2, NEW r \in Rids,
           NEW z, z = SetHead(SetEntries(PromoteSpare(s, c[t][1]), c[t][2], <<r>>), t, c[t][2])
    PROVE  SpareLeads(s, z, t, r, c[t], m[t])
<1> DEFINE q == c[t]
           M == m[t]
           x == NextPage(s, q[M])
           a == SetNext(s, q[1], x)
           b == SetNext(a, q[M], q[1])
           e == IF M >= 3 THEN SetTail(b, q[3], q[M]) ELSE b
           f == SetEntries(e, q[2], <<r>>)
           N == Len(s.pages)
<1>1. s \in Indexes /\ N \in Nat
  BY IndexParts DEF Strung
<1>2. /\ NextPage(s, q[1]) = q[2] /\ RunEnd(s, q[1]) = q[M] /\ M \in 2 .. Len(q)
      /\ M >= 3 => NextPage(s, q[2]) = q[3] /\ IsEmpty(s, q[3])
  BY RunEndIs
<1>3. Len(q) \in Nat /\ \A j \in 1 .. Len(q) : q[j] \in 1 .. N
  BY StrungParts
<1>4. Different(q)
  BY ChainDiffers
<1>5. 1 \in 1 .. Len(q) /\ 2 \in 1 .. Len(q) /\ M \in 1 .. Len(q) /\ (M >= 3 => 3 \in 1 .. Len(q))
  BY <1>2, <1>3
<1>6. q[1] \in 1 .. N /\ q[2] \in 1 .. N /\ q[M] \in 1 .. N /\ (M >= 3 => q[3] \in 1 .. N)
  BY <1>3, <1>5
<1>7. q[1] \in Nat /\ q[2] \in Nat /\ q[M] \in Nat
  BY <1>1, <1>6
<1>8. x \in Nat \cup {NoPage}
  BY <1>1, <1>6, IndexParts
<1>9. q[1] # q[2] /\ q[1] # q[M] /\ (M >= 3 => q[3] # q[2] /\ q[M] # q[2]) /\ (M = 2 \/ M >= 3)
  <2>1. \A i, j \in 1 .. Len(q) : q[i] = q[j] => i = j
    BY <1>4 DEF Different
  <2> QED
    BY <2>1, <1>2, <1>5
<1>10. PromoteSpare(s, q[1]) = e
  <2>0. Alike(s, a) /\ EqualEntries(s, a)
    BY <1>1, <1>6, <1>8, SetNextIs
  <2>1. Alike(a, b) /\ EqualEntries(a, b)
    BY <2>0, <1>6, <1>7, SetNextIs DEF Alike
  <2>2. M >= 3 => IsEmpty(b, q[3])
    BY <2>0, <2>1, <1>2, <1>6 DEF IsEmpty, EqualEntries, Alike
  <2>3. PromoteSpare(s, q[1]) = IF q[M] # q[2] /\ IsEmpty(b, NextPage(s, q[2])) THEN SetTail(b, NextPage(s, q[2]), q[M]) ELSE b
    BY <1>2 DEF PromoteSpare
  <2>4. CASE M >= 3
    <3>1. NextPage(s, q[2]) = q[3] /\ q[M] # q[2] /\ IsEmpty(b, q[3])
      BY <2>2, <2>4, <1>2, <1>9
    <3> HIDE DEF b
    <3> QED
      BY <2>3, <2>4, <3>1
  <2>5. CASE M = 2
    <3> HIDE DEF b
    <3> QED
      BY <2>3, <2>5
  <2> QED
    BY <2>4, <2>5, <1>9
<1>11. z = SetHead(f, t, q[2])
  <2> HIDE DEF e
  <2> QED
    BY <1>10
<1>12. /\ Alike(s, a) /\ a.head = s.head
       /\ SameNext(s, a, q[1], x) /\ EqualEntries(s, a) /\ EqualTail(s, a)
  BY <1>1, <1>6, <1>8, SetNextIs
<1>13. /\ Alike(a, b) /\ b.head = a.head
       /\ SameNext(a, b, q[M], q[1]) /\ EqualEntries(a, b) /\ EqualTail(a, b)
  <2> HIDE DEF a
  <2>1. a \in Indexes /\ q[M] \in 1 .. Len(a.pages)
    BY <1>6, <1>12 DEF Alike
  <2> QED
    BY <2>1, <1>7, SetNextIs
<1> HIDE DEF a
<1>14. /\ Alike(b, e) /\ e.head = b.head /\ EqualNext(b, e) /\ EqualEntries(b, e)
       /\ \A y \in 1 .. N : TailOf(e, y) = IF M >= 3 /\ y = q[3] THEN q[M] ELSE TailOf(b, y)
  <2> HIDE DEF b
  <2>1. b \in Indexes /\ Len(b.pages) = N
    BY <1>12, <1>13 DEF Alike
  <2>2. CASE M >= 3
    <3>1. e = SetTail(b, q[3], q[M])
      BY <2>2
    <3> HIDE DEF e
    <3>2. /\ Alike(b, e) /\ e.head = b.head
          /\ EqualNext(b, e) /\ EqualEntries(b, e) /\ SameTail(b, e, q[3], q[M])
      BY <2>1, <2>2, <3>1, <1>6, <1>7, SetTailIs
    <3> QED
      BY <3>2, <2>1, <2>2 DEF SameTail
  <2>3. CASE ~ (M >= 3)
    <3>1. e = b
      BY <2>3
    <3> HIDE DEF e
    <3> QED
      BY <3>1, <2>1, <2>3 DEF Alike, EqualNext, EqualEntries
  <2> QED
    BY <2>2, <2>3
<1> HIDE DEF b, e
<1>15. /\ Alike(e, f) /\ f.head = e.head
       /\ EqualNext(e, f) /\ SameEntriesBut(e, f, q[2], <<r>>) /\ SameTail(e, f, q[2], NoPage)
  <2>1. e \in Indexes /\ q[2] \in 1 .. Len(e.pages)
    BY <1>6, <1>12, <1>13, <1>14 DEF Alike
  <2>2. <<r>> \in Seq(Rids) /\ <<r>> # <<>>
    OBVIOUS
  <2>3. /\ Alike(e, f) /\ f.head = e.head
        /\ EqualNext(e, f) /\ SameEntriesBut(e, f, q[2], <<r>>)
        /\ SameTail(e, f, q[2], IF <<r>> = <<>> THEN TailOf(e, q[2]) ELSE NoPage)
    BY <2>1, <2>2, SetEntriesIs
  <2> QED
    BY <2>2, <2>3
<1> HIDE DEF f
<1>16. /\ Alike(f, z) /\ z.head[t] = q[2] /\ \A u \in Types : u # t => z.head[u] = f.head[u]
       /\ z.pages = f.pages
  BY <1>7, <1>11, <1>15, SetHeadIs DEF Alike
<1>17. /\ Len(a.pages) = N /\ Len(b.pages) = N /\ Len(e.pages) = N /\ Len(f.pages) = N /\ Len(z.pages) = N
       /\ z \in Indexes
  BY <1>12, <1>13, <1>14, <1>15, <1>16 DEF Alike
<1>18. ASSUME NEW y \in 1 .. N
       PROVE  NextPage(z, y) = IF y = q[M] THEN q[1] ELSE IF y = q[1] THEN x ELSE NextPage(s, y)
  <2>1. /\ NextPage(z, y) = NextPage(f, y) /\ NextPage(f, y) = NextPage(e, y) /\ NextPage(e, y) = NextPage(b, y)
        /\ NextPage(b, y) = IF y = q[M] THEN q[1] ELSE NextPage(a, y)
        /\ NextPage(a, y) = IF y = q[1] THEN x ELSE NextPage(s, y)
    BY <1>12, <1>13, <1>14, <1>15, <1>16, <1>17 DEF EqualNext, SameNext, NextPage
  <2> HIDE DEF x
  <2> QED
    BY <2>1
<1>19. ASSUME NEW y \in 1 .. N
       PROVE  Entries(z, y) = IF y = q[2] THEN <<r>> ELSE Entries(s, y)
  <2>1. /\ Entries(z, y) = Entries(f, y) /\ Entries(f, y) = IF y = q[2] THEN <<r>> ELSE Entries(e, y)
        /\ Entries(e, y) = Entries(b, y)
        /\ Entries(b, y) = Entries(a, y) /\ Entries(a, y) = Entries(s, y)
    BY <1>12, <1>13, <1>14, <1>15, <1>16, <1>17 DEF EqualEntries, SameEntriesBut, Entries
  <2> QED
    BY <2>1
<1>20. ASSUME NEW y \in 1 .. N
       PROVE  TailOf(z, y) = IF y = q[2] THEN NoPage ELSE IF M >= 3 /\ y = q[3] THEN q[M] ELSE TailOf(s, y)
  <2>1. /\ TailOf(z, y) = TailOf(f, y) /\ TailOf(f, y) = IF y = q[2] THEN NoPage ELSE TailOf(e, y)
        /\ TailOf(e, y) = IF M >= 3 /\ y = q[3] THEN q[M] ELSE TailOf(b, y)
        /\ TailOf(b, y) = TailOf(a, y) /\ TailOf(a, y) = TailOf(s, y)
    BY <1>12, <1>13, <1>14, <1>15, <1>16, <1>17 DEF EqualTail, SameTail, TailOf
  <2> QED
    BY <2>1
<1>21. z.head[t] = q[2] /\ \A u \in Types : u # t => z.head[u] = s.head[u]
  BY <1>12, <1>13, <1>14, <1>15, <1>16
<1> QED
  BY <1>17, <1>18, <1>19, <1>20, <1>21 DEF SpareLeads

\* The chain of a type, place by place.
LEMMA ChainNext ==
    ASSUME NEW s, NEW c, NEW m, Strung(s, c, m), NEW t \in Types, NEW i \in 1 .. Len(c[t])
    PROVE  /\ c[t][i] \in 1 .. Len(s.pages) /\ c[t][i] \in Nat
           /\ NextPage(s, c[t][i]) = IF i = Len(c[t]) THEN NoPage ELSE c[t][i + 1]
           /\ 2 <= i => (IsEmpty(s, c[t][i]) <=> i <= m[t])
           /\ TailOf(s, c[t][i]) = NoPage \/ (2 <= i /\ i <= m[t] /\ TailOf(s, c[t][i]) = c[t][m[t]])
<1>1. /\ c[t] \in Seq(Nat) /\ Len(c[t]) \in Nat /\ TypeLinks(s, s.head[t], c[t]) /\ Sorted(s, c[t], m[t])
      /\ \A j \in 1 .. Len(c[t]) : c[t][j] \in 1 .. Len(s.pages)
  BY StrungParts
<1>2. 2 <= i => i \in 2 .. Len(c[t])
  BY <1>1
<1>3. c[t][i] \in 1 .. Len(s.pages) /\ c[t][i] \in Nat
  BY <1>1
<1>4. NextPage(s, c[t][i]) = IF i = Len(c[t]) THEN NoPage ELSE c[t][i + 1]
  BY <1>1 DEF TypeLinks
<1>5. /\ 2 <= i => (IsEmpty(s, c[t][i]) <=> i <= m[t])
      /\ TailOf(s, c[t][i]) = NoPage \/ (2 <= i /\ i <= m[t] /\ TailOf(s, c[t][i]) = c[t][m[t]])
  BY <1>1, <1>2 DEF Sorted
<1> QED
  BY <1>3, <1>4, <1>5

LEMMA SparePromoted ==
    ASSUME NEW s, NEW c, NEW m, Strung(s, c, m), NEW t \in Types, NEW r \in Rids,
           c[t] # <<>>, m[t] >= 2, ~ IsEmpty(s, c[t][1]),
           NEW z, SpareLeads(s, z, t, r, c[t], m[t])
    PROVE  NodeAdded(s, c, z, t, r)
<1> DEFINE q == c[t]
           M == m[t]
           w == HeadTo(q, M)
           d == [c EXCEPT ![t] = w]
           n == [m EXCEPT ![t] = M - 1]
<1>1. s \in Indexes /\ c \in [Types -> Seq(Nat)] /\ m \in [Types -> Nat] /\ Len(s.pages) \in Nat
  BY IndexParts DEF Strung
<1>2. q \in Seq(Nat) /\ Len(q) \in Nat /\ M \in 2 .. Len(q) /\ M \in 1 .. Len(q) /\ M - 1 \in Nat /\ M \in Nat
  BY StrungParts
<1>3. \A i, j \in 1 .. Len(q) : q[i] = q[j] => i = j
  BY ChainDiffers DEF Different
<1>4. /\ w \in Seq(Nat) /\ Len(w) = Len(q) /\ Different(w) /\ PagesOf(w) = PagesOf(q)
      /\ \A i \in 1 .. Len(q) : w[i] = q[IF i < M THEN i + 1 ELSE IF i = M THEN 1 ELSE i]
  <2>1. Different(q)
    BY ChainDiffers
  <2> HIDE DEF w
  <2>2. w = HeadTo(q, M)
    BY DEF w
  <2> HIDE DEF q, M
  <2>3. HeadMoved(q, w, M)
    BY <1>2, <2>1, <2>2, HeadToIs
  <2> QED
    BY <2>3 DEF HeadMoved
<1>5. 1 \in 1 .. Len(q) /\ 2 \in 1 .. Len(q) /\ (M >= 3 => 3 \in 1 .. Len(q))
  BY <1>2
<1>6. ASSUME NEW i \in 1 .. Len(q)
      PROVE  /\ q[i] \in 1 .. Len(s.pages)
             /\ NextPage(s, q[i]) = IF i = Len(q) THEN NoPage ELSE q[i + 1]
             /\ 2 <= i => (IsEmpty(s, q[i]) <=> i <= M)
             /\ TailOf(s, q[i]) = NoPage \/ (2 <= i /\ i <= M /\ TailOf(s, q[i]) = q[M])
  BY ChainNext
<1>7. ASSUME NEW i \in 1 .. Len(q)
      PROVE  NextPage(z, q[i]) = IF i = M THEN q[1]
                                 ELSE IF i = 1 THEN IF M = Len(q) THEN NoPage ELSE q[M + 1]
                                 ELSE IF i = Len(q) THEN NoPage ELSE q[i + 1]
  <2>1. NextPage(z, q[i]) = IF q[i] = q[M] THEN q[1] ELSE IF q[i] = q[1] THEN NextPage(s, q[M]) ELSE NextPage(s, q[i])
    BY <1>6 DEF SpareLeads
  <2>2. (q[i] = q[M] <=> i = M) /\ (q[i] = q[1] <=> i = 1)
    BY <1>2, <1>3, <1>5
  <2>3. NextPage(s, q[M]) = IF M = Len(q) THEN NoPage ELSE q[M + 1]
    BY <1>2, <1>6
  <2>4. NextPage(s, q[i]) = IF i = Len(q) THEN NoPage ELSE q[i + 1]
    BY <1>6
  <2> QED
    BY <2>1, <2>2, <2>3, <2>4
<1>8. ASSUME NEW i \in 1 .. Len(q)
      PROVE  /\ Entries(z, q[i]) = IF i = 2 THEN <<r>> ELSE Entries(s, q[i])
             /\ TailOf(z, q[i]) = IF i = 2 THEN NoPage ELSE IF M >= 3 /\ i = 3 THEN q[M] ELSE TailOf(s, q[i])
  <2>1. /\ Entries(z, q[i]) = IF q[i] = q[2] THEN <<r>> ELSE Entries(s, q[i])
        /\ TailOf(z, q[i]) = IF q[i] = q[2] THEN NoPage ELSE IF M >= 3 /\ q[i] = q[3] THEN q[M] ELSE TailOf(s, q[i])
    BY <1>6 DEF SpareLeads
  <2>2. (q[i] = q[2] <=> i = 2) /\ (M >= 3 => (q[i] = q[3] <=> i = 3))
    BY <1>2, <1>3, <1>5
  <2> QED
    BY <2>1, <2>2
<1>9. OnlyType(s, z, c, t)
  <2>1. \A y \in 1 .. Len(s.pages) : y \notin PagesOf(q) => y # q[1] /\ y # q[2] /\ y # q[M] /\ (M >= 3 => y # q[3])
    BY <1>2, <1>5 DEF PagesOf
  <2>2. z \in Indexes /\ Len(s.pages) <= Len(z.pages) /\ \A u \in Types : u # t => z.head[u] = s.head[u]
    BY <1>1 DEF SpareLeads
  <2>3. \A y \in 1 .. Len(s.pages) : y \notin PagesOf(q) =>
           /\ NextPage(z, y) = NextPage(s, y) /\ Entries(z, y) = Entries(s, y) /\ TailOf(z, y) = TailOf(s, y)
    BY <2>1 DEF SpareLeads
  <2> QED
    BY <2>2, <2>3 DEF OnlyType
<1> HIDE DEF w, q, M
<1>10. TypeLinks(z, z.head[t], w)
  <2>1. w # <<>> /\ z.head[t] = w[1]
    <3>1. z.head[t] = q[2]
      BY DEF SpareLeads, q
    <3>2. w[1] = q[IF 1 < M THEN 1 + 1 ELSE IF 1 = M THEN 1 ELSE 1]
      BY <1>4, <1>5
    <3>3. Len(w) # 0 /\ 1 < M
      BY <1>2, <1>4
    <3> QED
      BY <3>1, <3>2, <3>3
  <2>2. ASSUME NEW i \in 1 .. Len(w)
        PROVE  w[i] \in 1 .. Len(z.pages) /\ NextPage(z, w[i]) = IF i = Len(w) THEN NoPage ELSE w[i + 1]
    <3>0. /\ i \in Nat /\ 1 <= i /\ i <= Len(q) /\ i \in 1 .. Len(q) /\ Len(w) = Len(q)
          /\ M \in Nat /\ 2 <= M /\ M <= Len(q) /\ Len(q) \in Nat
      BY <1>2, <1>4
    <3>5. Len(z.pages) = Len(s.pages)
      BY DEF SpareLeads
    <3>7. w[i] = q[IF i < M THEN i + 1 ELSE IF i = M THEN 1 ELSE i]
      BY <3>0, <1>4
    <3>6. i # Len(q) => i + 1 \in 1 .. Len(q) /\ w[i + 1] = q[IF i + 1 < M THEN (i + 1) + 1 ELSE IF i + 1 = M THEN 1 ELSE i + 1]
      <4>1. i # Len(q) => i + 1 \in 1 .. Len(q)
        BY <3>0
      <4> QED
        BY <4>1, <1>4
    <3>1. CASE i < M - 1
      <4>1. w[i] = q[i + 1] /\ i + 1 \in 1 .. Len(q) /\ i + 1 # M /\ i + 1 # 1 /\ i + 1 # Len(q) /\ i # Len(q) /\ i + 1 < M
        BY <3>0, <3>1, <3>7
      <4>2. NextPage(z, q[i + 1]) = q[(i + 1) + 1]
        BY <4>1, <1>7
      <4>3. w[i + 1] = q[(i + 1) + 1]
        BY <4>1, <3>6
      <4> QED
        BY <4>1, <4>2, <4>3, <3>0, <3>5, <1>6
    <3>2. CASE i = M - 1
      <4>1. w[i] = q[i + 1] /\ i + 1 = M /\ i # Len(q) /\ ~ (i + 1 < M)
        BY <3>0, <3>2, <3>7
      <4>2. NextPage(z, q[M]) = q[1] /\ q[M] \in 1 .. Len(s.pages)
        BY <1>2, <1>6, <1>7
      <4>3. w[i + 1] = q[1]
        BY <4>1, <3>6
      <4> QED
        BY <4>1, <4>2, <4>3, <3>0, <3>5
    <3>3. CASE i = M
      <4>1. w[i] = q[1] /\ ~ (i + 1 < M) /\ i + 1 # M
        BY <3>0, <3>3, <3>7
      <4>2. NextPage(z, q[1]) = (IF M = Len(q) THEN NoPage ELSE q[M + 1]) /\ q[1] \in 1 .. Len(s.pages)
        <5>1. 1 # M
          BY <1>2
        <5> QED
          BY <5>1, <1>5, <1>6, <1>7
      <4>3. i # Len(q) => w[i + 1] = q[i + 1]
        BY <4>1, <3>6
      <4> QED
        BY <4>1, <4>2, <4>3, <3>0, <3>3, <3>5
    <3>4. CASE i > M
      <4>1. w[i] = q[i] /\ ~ (i + 1 < M) /\ i + 1 # M /\ i # M /\ i # 1
        BY <3>0, <3>4, <3>7
      <4>2. NextPage(z, q[i]) = (IF i = Len(q) THEN NoPage ELSE q[i + 1]) /\ q[i] \in 1 .. Len(s.pages)
        BY <4>1, <3>0, <1>6, <1>7
      <4>3. i # Len(q) => w[i + 1] = q[i + 1]
        BY <4>1, <3>6
      <4> QED
        BY <4>1, <4>2, <4>3, <3>0, <3>5
    <3> QED
      BY <3>0, <3>1, <3>2, <3>3, <3>4, <1>2
  <2> QED
    BY <2>1, <2>2 DEF TypeLinks
<1>11. Sorted(z, w, M - 1)
  <2>1. M - 1 \in 0 .. Len(w) /\ M - 1 >= 1
    BY <1>2, <1>4
  <2>2. ASSUME NEW i \in 2 .. Len(w) PROVE IsEmpty(z, w[i]) <=> i <= M - 1
    <3>0. /\ i \in Nat /\ 2 <= i /\ i <= Len(q) /\ i \in 1 .. Len(q)
          /\ M \in Nat /\ 2 <= M /\ M <= Len(q) /\ Len(q) \in Nat
      BY <1>2, <1>4
    <3>5. w[i] = q[IF i < M THEN i + 1 ELSE IF i = M THEN 1 ELSE i]
      BY <3>0, <1>4
    <3>1. CASE i < M
      <4>1. w[i] = q[i + 1] /\ i + 1 \in 1 .. Len(q) /\ i + 1 # 2 /\ 2 <= i + 1 /\ i + 1 <= M
        BY <3>0, <3>1, <3>5
      <4>2. IsEmpty(z, q[i + 1])
        BY <4>1, <1>6, <1>8 DEF IsEmpty
      <4> QED
        BY <4>1, <4>2, <3>0, <3>1, <1>2
    <3>2. CASE i = M
      <4>1. w[i] = q[1] /\ ~ (i <= M - 1)
        BY <3>0, <3>2, <3>5
      <4>2. ~ IsEmpty(z, q[1])
        BY <1>5, <1>8 DEF IsEmpty, q
      <4> QED
        BY <4>1, <4>2
    <3>3. CASE i > M
      <4>1. w[i] = q[i] /\ ~ (i <= M - 1) /\ i # 2 /\ 2 <= i /\ ~ (i <= M)
        BY <3>0, <3>3, <3>5
      <4>2. ~ IsEmpty(z, q[i])
        BY <4>1, <3>0, <1>6, <1>8 DEF IsEmpty
      <4> QED
        BY <4>1, <4>2
    <3> QED
      BY <3>0, <3>1, <3>2, <3>3, <1>2
  <2>3. w[M - 1] = q[M]
    <3>1. M - 1 \in 1 .. Len(q) /\ M - 1 < M /\ (M - 1) + 1 = M
      BY <1>2
    <3> QED
      BY <3>1, <1>4
  <2>4. ASSUME NEW i \in 1 .. Len(w)
        PROVE  TailOf(z, w[i]) = NoPage \/ (2 <= i /\ i <= M - 1 /\ TailOf(z, w[i]) = w[M - 1])
    <3>0. /\ i \in Nat /\ 1 <= i /\ i <= Len(q) /\ i \in 1 .. Len(q)
          /\ M \in Nat /\ 2 <= M /\ M <= Len(q) /\ Len(q) \in Nat
      BY <1>2, <1>4
    <3>5. w[i] = q[IF i < M THEN i + 1 ELSE IF i = M THEN 1 ELSE i]
      BY <3>0, <1>4
    <3>1. CASE i < M
      <4>1. w[i] = q[i + 1] /\ i + 1 \in 1 .. Len(q) /\ 2 <= i + 1 /\ i <= M - 1 /\ (i + 1 = 2 <=> i = 1)
        BY <3>0, <3>1, <3>5
      <4>2. CASE i = 1
        BY <4>1, <4>2, <1>8
      <4>3. CASE i # 1
        <5>1. 2 <= i /\ i + 1 # 2
          BY <4>3, <3>0
        <5>2. TailOf(z, q[i + 1]) = NoPage \/ TailOf(z, q[i + 1]) = q[M]
          BY <5>1, <4>1, <1>6, <1>8
        <5> QED
          BY <5>1, <5>2, <4>1, <2>3
      <4> QED
        BY <4>2, <4>3
    <3>2. CASE i = M
      <4>1. w[i] = q[1]
        BY <3>0, <3>2, <3>5
      <4>2. TailOf(z, q[1]) = TailOf(s, q[1]) /\ TailOf(s, q[1]) = NoPage
        BY <1>5, <1>6, <1>8
      <4> QED
        BY <4>1, <4>2
    <3>3. CASE i > M
      <4>1. w[i] = q[i] /\ i # 2 /\ ~ (i <= M) /\ ~ (M >= 3 /\ i = 3)
        BY <3>0, <3>3, <3>5
      <4>2. TailOf(z, q[i]) = TailOf(s, q[i])
        BY <4>1, <3>0, <1>8
      <4>3. TailOf(s, q[i]) = NoPage
        BY <4>1, <3>0, <1>6
      <4> QED
        BY <4>1, <4>2, <4>3
    <3> QED
      BY <3>0, <3>1, <3>2, <3>3, <1>2
  <2>5. M - 1 >= 2 => TailOf(z, w[2]) = w[M - 1]
    <3>1. ASSUME M - 1 >= 2 PROVE TailOf(z, w[2]) = w[M - 1]
      <4>1. w[2] = q[2 + 1] /\ 2 + 1 = 3 /\ M >= 3
        BY <3>1, <1>2, <1>4, <1>5
      <4>2. TailOf(z, q[3]) = q[M]
        BY <4>1, <1>5, <1>8
      <4> QED
        BY <4>1, <4>2, <2>3
    <3> QED
      BY <3>1
  <2> QED
    BY <2>1, <2>2, <2>4, <2>5 DEF Sorted
<1>12. TypeChained(s, z, c, t, w, M - 1)
  <2>1. Len(s.pages) + 1 .. Len(z.pages) = {}
    <3>1. Len(z.pages) = Len(s.pages)
      BY DEF SpareLeads
    <3> QED
      BY <3>1, <1>1
  <2> QED
    BY <2>1, <1>2, <1>4, <1>10, <1>11 DEF TypeChained, q
<1>13. d \in [Types -> Seq(Nat)] /\ Instead(c, d, t, w) /\ n \in [Types -> Nat] /\ Instead(m, n, t, M - 1)
  BY <1>1, <1>2, <1>4, InsteadIs
<1> HIDE DEF d, n
<1>14. Strung(z, d, n)
  BY <1>9, <1>12, <1>13, Rechained
<1>15. Gains(s, z, PagesOf(c[t]), PagesOf(d[t]), r, q[2], 1)
  <2>1. PagesOf(d[t]) = PagesOf(q) /\ PagesOf(c[t]) = PagesOf(q)
    BY <1>4, <1>13 DEF Instead, q
  <2>2. Entries(z, q[2]) = <<r>> /\ Len(<<r>>) = 1 /\ <<r>>[1] = r
    BY <1>5, <1>8
  <2>3. Entries(s, q[2]) = <<>> /\ Len(<<>>) = 0
    <3>1. IsEmpty(s, q[2])
      BY <1>2, <1>5, <1>6
    <3> QED
      BY <3>1 DEF IsEmpty
  <2>4. ASSUME NEW p \in PagesOf(q), p # q[2] PROVE Entries(z, p) = Entries(s, p)
    <3>1. PICK i \in 1 .. Len(q) : p = q[i]
      BY DEF PagesOf
    <3>2. i # 2
      BY <3>1, <2>4
    <3> QED
      BY <3>1, <3>2, <1>8
  <2>5. q[2] \in PagesOf(q)
    BY <1>5 DEF PagesOf
  <2>6. 1 \in 1 .. Len(Entries(z, q[2])) /\ Entries(z, q[2])[1] = r
    BY <2>2
  <2>7. \A i \in 1 .. Len(Entries(s, q[2])) : FALSE
    BY <2>3
  <2>8. \A i \in 1 .. Len(Entries(z, q[2])) : i = 1
    BY <2>2
  <2>9. \A p \in PagesOf(q) : \A i \in 1 .. Len(Entries(s, p)) :
           i \in 1 .. Len(Entries(z, p)) /\ Entries(z, p)[i] = Entries(s, p)[i]
    BY <2>4, <2>7
  <2>10. \A p \in PagesOf(q) : \A i \in 1 .. Len(Entries(z, p)) :
           (p = q[2] /\ i = 1) \/ (p \in PagesOf(q) /\ i \in 1 .. Len(Entries(s, p)))
    BY <2>4, <2>8
  <2> QED
    BY <2>1, <2>5, <2>6, <2>9, <2>10 DEF Gains
<1>16. Instead(c, d, t, d[t])
  BY <1>13 DEF Instead
<1> QED
  BY <1>9, <1>14, <1>15, <1>16 DEF NodeAdded

LEMMA AddNewAdds ==
    ASSUME NEW s, NEW c, NEW m, Strung(s, c, m), NEW t \in Types, NEW r \in Rids
    PROVE  NodeAdded(s, c, AddNew(s, t, r), t, r)
<1> DEFINE q == c[t]
           head == s.head[t]
<1>1. s \in Indexes /\ Len(s.pages) \in Nat
  BY IndexParts DEF Strung
<1>2. /\ Len(q) \in Nat /\ \A j \in 1 .. Len(q) : q[j] \in 1 .. Len(s.pages)
      /\ head = NoPage <=> q = <<>>
      /\ q # <<>> => Len(q) >= 1 /\ head = q[1]
  BY StrungParts
<1>3. CASE head = NoPage
  <2>1. AddNew(s, t, r) = PushPage(s, t, r)
    BY <1>3 DEF AddNew
  <2>2. q = <<>>
    BY <1>2, <1>3
  <2>3. NodeAdded(s, c, PushPage(s, t, r), t, r)
    BY <2>2, PagePushed
  <2> QED
    BY <2>1, <2>3
<1>4. CASE head # NoPage
  <2>1. q # <<>> /\ head = q[1] /\ 1 \in 1 .. Len(q) /\ q[1] \in 1 .. Len(s.pages)
    BY <1>2, <1>4
  <2>2. Entries(s, q[1]) \in Seq(Rids) /\ Len(Entries(s, q[1])) \in Nat
    BY <1>1, <2>1, IndexParts
  <2>3. CASE Len(Entries(s, q[1])) < Capacity
    <3> DEFINE es == Append(Entries(s, q[1]), r)
               z == SetEntries(s, q[1], es)
               k == Len(Entries(s, q[1])) + 1
    <3>1. AddNew(s, t, r) = z
      BY <1>4, <2>1, <2>3 DEF AddNew
    <3>2. /\ es \in Seq(Rids) /\ Len(es) = k /\ es[k] = r
          /\ \A i \in 1 .. Len(Entries(s, q[1])) : i \in 1 .. Len(es) /\ es[i] = Entries(s, q[1])[i]
          /\ \A i \in 1 .. Len(es) : i = k \/ i \in 1 .. Len(Entries(s, q[1]))
          /\ k \in 1 .. Len(es)
      BY <2>2
    <3> HIDE DEF es, z, k
    <3>3. Strung(z, c, m) /\ OnlyType(s, z, c, t) /\ SameEntriesBut(s, z, q[1], es)
      <4>1. z = SetEntries(s, q[1], es)
        BY DEF z
      <4> QED
        BY <4>1, <2>1, <3>2, PageEntriesSet
    <3>4. \A p \in PagesOf(q) : p \in 1 .. Len(s.pages)
      BY <1>2 DEF PagesOf
    <3>5. \A p \in PagesOf(q) : Entries(z, p) = IF p = q[1] THEN es ELSE Entries(s, p)
      BY <3>3, <3>4 DEF SameEntriesBut
    <3>6. q[1] \in PagesOf(q)
      BY <2>1 DEF PagesOf
    <3>7. Entries(z, q[1]) = es
      BY <3>5, <3>6
    <3>8. \A p \in PagesOf(q) : \A i \in 1 .. Len(Entries(s, p)) :
             i \in 1 .. Len(Entries(z, p)) /\ Entries(z, p)[i] = Entries(s, p)[i]
      BY <3>2, <3>5
    <3>9. \A p \in PagesOf(q) : \A i \in 1 .. Len(Entries(z, p)) :
             (p = q[1] /\ i = k) \/ (p \in PagesOf(q) /\ i \in 1 .. Len(Entries(s, p)))
      BY <3>2, <3>5
    <3>10. Gains(s, z, PagesOf(q), PagesOf(q), r, q[1], k)
      BY <3>2, <3>6, <3>7, <3>8, <3>9 DEF Gains
    <3>11. Instead(c, c, t, c[t])
      BY DEF Instead
    <3> QED
      BY <3>1, <3>3, <3>10, <3>11 DEF NodeAdded
  <2>4. CASE ~ (Len(Entries(s, q[1])) < Capacity)
    <3>1. ~ IsEmpty(s, q[1])
      <4>1. Len(Entries(s, q[1])) # 0
        BY <2>2, <2>4, CapacityAssumption
      <4> QED
        BY <4>1 DEF IsEmpty
    <3>2. /\ HasSpare(s, q[1]) <=> m[t] >= 2
          /\ m[t] >= 1 /\ m[t] \in Nat
      BY <2>1, HasSpareIs
    <3>3. CASE m[t] >= 2
      <4> DEFINE z == SetHead(SetEntries(PromoteSpare(s, q[1]), q[2], <<r>>), t, q[2])
      <4>1. NextPage(s, q[1]) = q[2]
        BY <3>3, RunEndIs
      <4>2. AddNew(s, t, r) = z
        BY <1>4, <2>1, <2>4, <3>2, <3>3, <4>1 DEF AddNew
      <4>3. SpareLeads(s, z, t, r, c[t], m[t])
        BY <3>3, SpareLeadsIs
      <4> HIDE DEF z
      <4>4. NodeAdded(s, c, z, t, r)
        BY <2>1, <3>1, <3>3, <4>3, SparePromoted
      <4> QED
        BY <4>2, <4>4
    <3>4. CASE ~ (m[t] >= 2)
      <4>1. m[t] = 1
        BY <3>2, <3>4
      <4>2. AddNew(s, t, r) = PushPage(s, t, r)
        BY <1>4, <2>1, <2>4, <3>2, <3>4 DEF AddNew
      <4>3. NodeAdded(s, c, PushPage(s, t, r), t, r)
        BY <3>1, <4>1, PagePushed
      <4> QED
        BY <4>2, <4>3
    <3> QED
      BY <3>3, <3>4
  <2> QED
    BY <2>3, <2>4
<1> QED
  BY <1>3, <1>4

-----------------------------------------------------------------------------
\* fill_hole_from_head.

\* The empty page in front of the first page with entries is found, by the record or by a walk.
LEMMA LastEmptyIs ==
    ASSUME NEW s, NEW c, NEW m, Strung(s, c, m), NEW t \in Types,
           c[t] # <<>>, IsEmpty(s, c[t][1]), m[t] < Len(c[t])
    PROVE  /\ LastEmpty(s, t) = c[t][m[t]] /\ NextPage(s, c[t][m[t]]) = c[t][m[t] + 1]
           /\ m[t] \in 1 .. Len(c[t]) /\ m[t] + 1 \in 1 .. Len(c[t]) /\ ~ IsEmpty(s, c[t][m[t] + 1])
<1> DEFINE q == c[t]
           M == m[t]
<1>1. Len(q) \in Nat /\ M \in Nat /\ M >= 1 /\ M < Len(q) /\ Len(q) >= 2
  <2>1. M \in Nat /\ M >= 1
    BY HasSpareIs
  <2>2. Len(q) \in Nat
    BY StrungParts
  <2> QED
    BY <2>1, <2>2
<1>2. TypeChain(s, t) = q
  BY TypeChainIs
<1>3. ASSUME NEW i \in 1 .. Len(q)
      PROVE  /\ q[i] \in Nat /\ NextPage(s, q[i]) = IF i = Len(q) THEN NoPage ELSE q[i + 1]
             /\ 2 <= i => (IsEmpty(s, q[i]) <=> i <= M)
  BY ChainNext
<1>4. DOMAIN q = 1 .. Len(q)
  <2>1. q \in Seq(Nat)
    BY StrungParts
  <2> QED
    BY <2>1
<1>5. M \in 1 .. Len(q) /\ M + 1 \in 1 .. Len(q) /\ M # Len(q) /\ 2 <= M + 1 /\ ~ (M + 1 <= M)
      /\ 1 \in 1 .. Len(q) /\ 2 \in 1 .. Len(q) /\ 1 # Len(q) /\ 1 + 1 = 2
  <2>1. \A k, l \in Nat : k >= 1 /\ k < l =>
            /\ k \in 1 .. l /\ k + 1 \in 1 .. l /\ k # l /\ 2 <= k + 1 /\ ~ (k + 1 <= k)
            /\ 1 \in 1 .. l /\ 2 \in 1 .. l /\ 1 # l /\ 1 + 1 = 2
    OBVIOUS
  <2> QED
    BY <1>1, <2>1, Zenon
<1>6. NextPage(s, q[M]) = q[M + 1] /\ ~ IsEmpty(s, q[M + 1]) /\ q[M + 1] # NoPage
  BY <1>3, <1>5, NoPageAssumption
<1>7. NextPage(s, q[1]) = q[2]
  BY <1>3, <1>5
<1>8. CASE M >= 2
  <2>1. SpareTail(s, q[2]) = q[M] /\ IsEmpty(s, q[2]) /\ IsEmpty(s, q[M])
    BY <1>8, RunEndIs
  <2>2. q[M] # NoPage
    BY <1>3, <1>5, NoPageAssumption
  <2>3. RecordHolds(s, q[2])
    BY <2>1, <2>2, <1>6 DEF RecordHolds
  <2>4. LastEmpty(s, t) = q[M]
    <3> HIDE DEF q, M
    <3> QED
      BY <1>2, <1>7, <2>1, <2>3 DEF LastEmpty
  <2> QED
    BY <2>4, <1>5, <1>6
<1>9. CASE M = 1
  <2>1. ~ IsEmpty(s, q[2])
    BY <1>6, <1>9
  <2> DEFINE Ok(k) == /\ \A j \in 1 .. k : IsEmpty(s, q[j])
                      /\ ~ IsEmpty(s, NextPage(s, q[k]))
             k0 == CHOOSE k \in 1 .. Len(q) : Ok(k)
  <2>2. Ok(1)
    <3>1. \A j \in 1 .. 1 : j = 1
      OBVIOUS
    <3> QED
      BY <3>1, <2>1, <1>7
  <2>3. ASSUME NEW k \in 1 .. Len(q), Ok(k) PROVE k = 1
    <3>1. k \in Nat /\ (k # 1 => 2 \in 1 .. k)
      BY <1>1
    <3> QED
      BY <3>1, <2>1, <2>3
  <2> HIDE DEF Ok
  <2>4. k0 \in 1 .. Len(q) /\ Ok(k0)
    BY <2>2, <1>5
  <2>5. k0 = 1
    <3> HIDE DEF k0
    <3> QED
      BY <2>3, <2>4
  <2>6. LastEmpty(s, t) = q[k0]
    <3> HIDE DEF q
    <3> QED
      BY <1>2, <1>4, <1>7, <2>1 DEF LastEmpty, Ok
  <2>7. LastEmpty(s, t) = q[M]
    BY <2>5, <2>6, <1>9
  <2> QED
    BY <2>7, <1>5, <1>6
<1>10. M = 1 \/ M >= 2
  <2> HIDE DEF q, M
  <2> QED
    BY <1>1
<1> QED
  BY <1>8, <1>9, <1>10

\* What the promotion of the first page with entries writes.
FrontLeads(s, z, t, q, M) ==
    /\ z \in Indexes /\ Len(z.pages) = Len(s.pages)
    /\ z.head[t] = q[M + 1] /\ \A u \in Types : u # t => z.head[u] = s.head[u]
    /\ \A y \in 1 .. Len(s.pages) :
           /\ NextPage(z, y) = IF y = q[M] THEN NextPage(s, q[M + 1]) ELSE IF y = q[M + 1] THEN q[1] ELSE NextPage(s, y)
           /\ Entries(z, y) = Entries(s, y)
           /\ TailOf(z, y) = IF y = q[1] THEN q[M] ELSE TailOf(s, y)

LEMMA FrontLeadsIs ==
    ASSUME NEW s, NEW c, NEW m, Strung(s, c, m), NEW t \in Types,
           c[t] # <<>>, IsEmpty(s, c[t][1]), m[t] < Len(c[t]),
           NEW z, z = PromoteFirstNonEmpty(s, t)
    PROVE  FrontLeads(s, z, t, c[t], m[t])
<1> DEFINE q == c[t]
           M == m[t]
           N == Len(s.pages)
           x == NextPage(s, q[M + 1])
           a == SetNext(s, q[M + 1], q[1])
           b == SetHead(a, t, q[M + 1])
           e == SetNext(b, q[M], x)
<1>1. s \in Indexes /\ N \in Nat
  BY IndexParts DEF Strung
<1>2. /\ LastEmpty(s, t) = q[M] /\ NextPage(s, q[M]) = q[M + 1]
      /\ M \in 1 .. Len(q) /\ M + 1 \in 1 .. Len(q) /\ s.head[t] = q[1]
  BY LastEmptyIs, StrungParts
<1>3. Len(q) \in Nat /\ (\A j \in 1 .. Len(q) : q[j] \in 1 .. N) /\ 1 \in 1 .. Len(q)
  BY StrungParts
<1>4. q[1] \in 1 .. N /\ q[M] \in 1 .. N /\ q[M + 1] \in 1 .. N
  BY <1>2, <1>3
<1>5. q[1] \in Nat /\ q[M] \in Nat /\ q[M + 1] \in Nat
  BY <1>1, <1>4
<1>6. x \in Nat \cup {NoPage}
  BY <1>1, <1>4, IndexParts
<1>7. q[M] # q[M + 1]
  <2>1. \A i, j \in 1 .. Len(q) : q[i] = q[j] => i = j
    BY ChainDiffers DEF Different
  <2>2. M # M + 1
    BY <1>2
  <2> QED
    BY <2>1, <2>2, <1>2
<1>8. z = SetTail(e, q[1], q[M])
  <2> HIDE DEF q, M
  <2> QED
    BY <1>2 DEF PromoteFirstNonEmpty
<1>9. /\ Alike(s, a) /\ a.head = s.head
      /\ SameNext(s, a, q[M + 1], q[1]) /\ EqualEntries(s, a) /\ EqualTail(s, a)
  BY <1>1, <1>4, <1>5, SetNextIs
<1> HIDE DEF a
<1>10. /\ Alike(a, b) /\ b.head[t] = q[M + 1] /\ \A u \in Types : u # t => b.head[u] = a.head[u]
       /\ b.pages = a.pages
  <2>1. a \in Indexes
    BY <1>9 DEF Alike
  <2> QED
    BY <2>1, <1>5, SetHeadIs
<1> HIDE DEF b
<1>11. /\ Alike(b, e) /\ e.head = b.head
       /\ SameNext(b, e, q[M], x) /\ EqualEntries(b, e) /\ EqualTail(b, e)
  <2>1. b \in Indexes /\ q[M] \in 1 .. Len(b.pages)
    BY <1>4, <1>9, <1>10 DEF Alike
  <2> HIDE DEF x
  <2> QED
    BY <2>1, <1>6, SetNextIs
<1> HIDE DEF e, x
<1>12. /\ Alike(e, z) /\ z.head = e.head
       /\ EqualNext(e, z) /\ EqualEntries(e, z) /\ SameTail(e, z, q[1], q[M])
  <2>1. e \in Indexes /\ q[1] \in 1 .. Len(e.pages)
    BY <1>4, <1>9, <1>10, <1>11 DEF Alike
  <2> QED
    BY <2>1, <1>5, <1>8, SetTailIs
<1>13. /\ Len(a.pages) = N /\ Len(b.pages) = N /\ Len(e.pages) = N /\ Len(z.pages) = N /\ z \in Indexes
  BY <1>9, <1>10, <1>11, <1>12 DEF Alike
<1>14. ASSUME NEW y \in 1 .. N
       PROVE  NextPage(z, y) = IF y = q[M] THEN x ELSE IF y = q[M + 1] THEN q[1] ELSE NextPage(s, y)
  <2>1. /\ NextPage(z, y) = NextPage(e, y) /\ NextPage(e, y) = (IF y = q[M] THEN x ELSE NextPage(b, y))
        /\ NextPage(b, y) = NextPage(a, y)
        /\ NextPage(a, y) = IF y = q[M + 1] THEN q[1] ELSE NextPage(s, y)
    BY <1>9, <1>10, <1>11, <1>12, <1>13 DEF EqualNext, SameNext, NextPage
  <2> QED
    BY <2>1
<1>15. ASSUME NEW y \in 1 .. N PROVE Entries(z, y) = Entries(s, y)
  BY <1>9, <1>10, <1>11, <1>12, <1>13 DEF EqualEntries, Entries
<1>16. ASSUME NEW y \in 1 .. N PROVE TailOf(z, y) = IF y = q[1] THEN q[M] ELSE TailOf(s, y)
  <2>1. /\ TailOf(z, y) = IF y = q[1] THEN q[M] ELSE TailOf(e, y)
        /\ TailOf(e, y) = TailOf(b, y) /\ TailOf(b, y) = TailOf(a, y) /\ TailOf(a, y) = TailOf(s, y)
    BY <1>9, <1>10, <1>11, <1>12, <1>13 DEF EqualTail, SameTail, TailOf
  <2> QED
    BY <2>1
<1>17. z.head[t] = q[M + 1] /\ \A u \in Types : u # t => z.head[u] = s.head[u]
  BY <1>9, <1>10, <1>11, <1>12
<1> QED
  BY <1>13, <1>14, <1>15, <1>16, <1>17 DEF FrontLeads, x

\* The type has the pages of before in another order, led by one with entries; no entry moved.
LedByEntries(s, c, z, t) ==
    \E d, n : /\ Strung(z, d, n) /\ OnlyType(s, z, c, t) /\ Instead(c, d, t, d[t])
              /\ PagesOf(d[t]) = PagesOf(c[t]) /\ d[t] # <<>> /\ ~ IsEmpty(z, d[t][1])
              /\ Len(z.pages) = Len(s.pages) /\ EqualEntries(s, z)

LEMMA FirstPromoted ==
    ASSUME NEW s, NEW c, NEW m, Strung(s, c, m), NEW t \in Types,
           c[t] # <<>>, IsEmpty(s, c[t][1]), m[t] < Len(c[t]),
           NEW z, FrontLeads(s, z, t, c[t], m[t])
    PROVE  LedByEntries(s, c, z, t)
<1> DEFINE q == c[t]
           M == m[t]
           w == FrontFrom(q, M + 1)
           d == [c EXCEPT ![t] = w]
           n == [m EXCEPT ![t] = M + 1]
<1>1. s \in Indexes /\ c \in [Types -> Seq(Nat)] /\ m \in [Types -> Nat] /\ Len(s.pages) \in Nat
  BY IndexParts DEF Strung
<1>2. q \in Seq(Nat) /\ Len(q) \in Nat
  BY StrungParts
<1>3. M \in 1 .. Len(q) /\ M + 1 \in 1 .. Len(q) /\ ~ IsEmpty(s, q[M + 1])
  BY LastEmptyIs
<1>4. \A i, j \in 1 .. Len(q) : q[i] = q[j] => i = j
  BY ChainDiffers DEF Different
<1>5. FrontMoved(q, w, M + 1)
  <2>1. Different(q)
    BY ChainDiffers
  <2> HIDE DEF w
  <2>2. w = FrontFrom(q, M + 1)
    BY DEF w
  <2> HIDE DEF q, M
  <2> QED
    BY <1>2, <1>3, <2>1, <2>2, FrontFromIs
<1>6. ASSUME NEW i \in 1 .. Len(q)
      PROVE  /\ q[i] \in 1 .. Len(s.pages)
             /\ NextPage(s, q[i]) = IF i = Len(q) THEN NoPage ELSE q[i + 1]
             /\ 2 <= i => (IsEmpty(s, q[i]) <=> i <= M)
             /\ TailOf(s, q[i]) = NoPage \/ (2 <= i /\ i <= M /\ TailOf(s, q[i]) = q[M])
  BY ChainNext
<1> HIDE DEF w, q, M
<1>7. /\ w \in Seq(Nat) /\ Len(w) = Len(q) /\ Different(w) /\ PagesOf(w) = PagesOf(q)
      /\ \A i \in 1 .. Len(q) : w[i] = q[IF i = 1 THEN M + 1 ELSE IF i <= M + 1 THEN i - 1 ELSE i]
  BY <1>5 DEF FrontMoved
<1>8. M \in Nat /\ 1 <= M /\ M + 1 <= Len(q) /\ 1 \in 1 .. Len(q) /\ 2 \in 1 .. Len(q) /\ M + 1 \in Nat
  BY <1>2, <1>3
<1>9. FrontLeads(s, z, t, q, M)
  BY DEF q, M
<1>10. ASSUME NEW i \in 1 .. Len(q)
       PROVE  NextPage(z, q[i]) = IF i = M THEN IF M + 1 = Len(q) THEN NoPage ELSE q[(M + 1) + 1]
                                  ELSE IF i = M + 1 THEN q[1]
                                  ELSE IF i = Len(q) THEN NoPage ELSE q[i + 1]
  <2>1. NextPage(z, q[i]) = IF q[i] = q[M] THEN NextPage(s, q[M + 1]) ELSE IF q[i] = q[M + 1] THEN q[1] ELSE NextPage(s, q[i])
    BY <1>6, <1>9 DEF FrontLeads
  <2>2. (q[i] = q[M] <=> i = M) /\ (q[i] = q[M + 1] <=> i = M + 1)
    BY <1>3, <1>4
  <2>3. NextPage(s, q[M + 1]) = IF M + 1 = Len(q) THEN NoPage ELSE q[(M + 1) + 1]
    BY <1>3, <1>6
  <2>4. NextPage(s, q[i]) = IF i = Len(q) THEN NoPage ELSE q[i + 1]
    BY <1>6
  <2> QED
    BY <2>1, <2>2, <2>3, <2>4
<1>11. ASSUME NEW i \in 1 .. Len(q)
       PROVE  /\ Entries(z, q[i]) = Entries(s, q[i])
              /\ TailOf(z, q[i]) = IF i = 1 THEN q[M] ELSE TailOf(s, q[i])
  <2>1. Entries(z, q[i]) = Entries(s, q[i]) /\ TailOf(z, q[i]) = IF q[i] = q[1] THEN q[M] ELSE TailOf(s, q[i])
    BY <1>6, <1>9 DEF FrontLeads
  <2>2. q[i] = q[1] <=> i = 1
    BY <1>4, <1>8
  <2> QED
    BY <2>1, <2>2
<1>12. OnlyType(s, z, c, t)
  <2>1. \A y \in 1 .. Len(s.pages) : y \notin PagesOf(q) => y # q[1] /\ y # q[M] /\ y # q[M + 1]
    BY <1>3, <1>8 DEF PagesOf
  <2>2. z \in Indexes /\ Len(s.pages) <= Len(z.pages) /\ \A u \in Types : u # t => z.head[u] = s.head[u]
    BY <1>1, <1>9 DEF FrontLeads
  <2>3. \A y \in 1 .. Len(s.pages) : y \notin PagesOf(q) =>
           /\ NextPage(z, y) = NextPage(s, y) /\ Entries(z, y) = Entries(s, y) /\ TailOf(z, y) = TailOf(s, y)
    BY <1>9, <2>1 DEF FrontLeads
  <2> QED
    BY <2>2, <2>3 DEF OnlyType, q
<1>13. ASSUME NEW i \in 1 .. Len(w)
       PROVE  /\ i \in Nat /\ 1 <= i /\ i <= Len(q) /\ i \in 1 .. Len(q) /\ Len(w) = Len(q) /\ Len(q) \in Nat
              /\ M \in Nat /\ 1 <= M /\ M + 1 <= Len(q)
              /\ w[i] = q[IF i = 1 THEN M + 1 ELSE IF i <= M + 1 THEN i - 1 ELSE i]
              /\ i # Len(q) => w[i + 1] = q[IF i + 1 <= M + 1 THEN (i + 1) - 1 ELSE i + 1]
  <2>1. i \in Nat /\ 1 <= i /\ i <= Len(q) /\ i \in 1 .. Len(q) /\ Len(w) = Len(q) /\ Len(q) \in Nat
    BY <1>2, <1>7
  <2>2. M \in Nat /\ 1 <= M /\ M + 1 <= Len(q)
    BY <1>8
  <2>3. w[i] = q[IF i = 1 THEN M + 1 ELSE IF i <= M + 1 THEN i - 1 ELSE i]
    BY <1>7, <2>1
  <2>4. i # Len(q) => i + 1 \in 1 .. Len(q) /\ i + 1 # 1
    BY <2>1
  <2>5. i # Len(q) => w[i + 1] = q[IF i + 1 <= M + 1 THEN (i + 1) - 1 ELSE i + 1]
    BY <1>7, <2>4
  <2> QED
    BY <2>1, <2>2, <2>3, <2>5
<1>14. TypeLinks(z, z.head[t], w)
  <2>1. w # <<>> /\ z.head[t] = w[1]
    <3>1. z.head[t] = q[M + 1]
      BY <1>9 DEF FrontLeads
    <3>2. w[1] = q[M + 1]
      BY <1>7, <1>8
    <3>3. Len(w) # 0
      BY <1>2, <1>7, <1>8
    <3> QED
      BY <3>1, <3>2, <3>3
  <2>0. Len(z.pages) = Len(s.pages)
    BY <1>9 DEF FrontLeads
  <2>2. ASSUME NEW i \in 1 .. Len(w)
        PROVE  w[i] \in 1 .. Len(z.pages) /\ NextPage(z, w[i]) = IF i = Len(w) THEN NoPage ELSE w[i + 1]
    <3>1. CASE i = 1
      <4>1. w[i] = q[M + 1] /\ i # Len(q) /\ i + 1 <= M + 1 /\ (i + 1) - 1 = 1
        BY <1>13, <3>1
      <4>2. w[i + 1] = q[1]
        BY <4>1, <1>13
      <4>3. NextPage(z, q[M + 1]) = q[1] /\ q[M + 1] \in 1 .. Len(s.pages)
        <5>1. M + 1 # M
          BY <1>8
        <5> QED
          BY <5>1, <1>3, <1>6, <1>10
      <4> QED
        BY <4>1, <4>2, <4>3, <2>0, <1>13
    <3>2. CASE i # 1 /\ i <= M
      <4>1. /\ w[i] = q[i - 1] /\ i - 1 \in 1 .. Len(q) /\ i - 1 # M /\ i - 1 # M + 1 /\ i - 1 # Len(q)
            /\ i # Len(q) /\ i + 1 <= M + 1 /\ (i + 1) - 1 = i /\ (i - 1) + 1 = i
        <5>1. /\ i \in Nat /\ 1 <= i /\ i <= Len(q) /\ Len(q) \in Nat
              /\ M \in Nat /\ 1 <= M /\ M + 1 <= Len(q)
          BY <1>13
        <5>2. /\ i - 1 \in 1 .. Len(q) /\ i - 1 # M /\ i - 1 # M + 1 /\ i - 1 # Len(q)
              /\ i # Len(q) /\ i + 1 <= M + 1 /\ (i + 1) - 1 = i /\ (i - 1) + 1 = i /\ i <= M + 1
          BY <5>1, <3>2
        <5>3. w[i] = q[IF i = 1 THEN M + 1 ELSE IF i <= M + 1 THEN i - 1 ELSE i]
          BY <1>13
        <5> QED
          BY <5>2, <5>3, <3>2
      <4>2. w[i + 1] = q[i]
        BY <4>1, <1>13
      <4>3. NextPage(z, q[i - 1]) = q[i] /\ q[i - 1] \in 1 .. Len(s.pages)
        BY <4>1, <1>6, <1>10
      <4> QED
        BY <4>1, <4>2, <4>3, <2>0, <1>13
    <3>3. CASE i = M + 1
      <4>1. w[i] = q[M] /\ ~ (i + 1 <= M + 1)
        BY <1>13, <3>3
      <4>2. i # Len(q) => w[i + 1] = q[i + 1]
        BY <4>1, <1>13
      <4>3. NextPage(z, q[M]) = (IF M + 1 = Len(q) THEN NoPage ELSE q[(M + 1) + 1]) /\ q[M] \in 1 .. Len(s.pages)
        BY <1>3, <1>6, <1>10
      <4> QED
        BY <4>1, <4>2, <4>3, <3>3, <2>0, <1>13
    <3>4. CASE i > M + 1
      <4>1. w[i] = q[i] /\ ~ (i + 1 <= M + 1) /\ i # M /\ i # M + 1
        BY <1>13, <3>4
      <4>2. i # Len(q) => w[i + 1] = q[i + 1]
        BY <4>1, <1>13
      <4>3. NextPage(z, q[i]) = (IF i = Len(q) THEN NoPage ELSE q[i + 1]) /\ q[i] \in 1 .. Len(s.pages)
        BY <4>1, <1>6, <1>10, <1>13
      <4> QED
        BY <4>1, <4>2, <4>3, <2>0, <1>13
    <3>5. i = 1 \/ (i # 1 /\ i <= M) \/ i = M + 1 \/ i > M + 1
      <4>1. i \in Nat /\ M \in Nat
        BY <1>13
      <4> QED
        BY <4>1
    <3> QED
      BY <3>1, <3>2, <3>3, <3>4, <3>5
  <2> QED
    BY <2>1, <2>2 DEF TypeLinks
<1>15. IsEmpty(s, q[1])
  BY DEF q
<1>16. w[M + 1] = q[M] /\ w[2] = q[1]
  <2>1. M + 1 # 1 /\ M + 1 <= M + 1 /\ (M + 1) - 1 = M /\ 2 <= M + 1 /\ 2 - 1 = 1
    BY <1>8
  <2>2. \A i \in 1 .. Len(q) : i # 1 /\ i <= M + 1 => w[i] = q[i - 1]
    BY <1>7
  <2> QED
    BY <2>1, <2>2, <1>3, <1>8
<1>17. Sorted(z, w, M + 1)
  <2>1. M + 1 \in 0 .. Len(w) /\ M + 1 >= 1
    BY <1>2, <1>7, <1>8
  <2>2. ASSUME NEW i \in 2 .. Len(w) PROVE IsEmpty(z, w[i]) <=> i <= M + 1
    <3>0. i \in 1 .. Len(w) /\ 2 <= i
      BY <1>2, <1>7
    <3>1. CASE i <= M + 1
      <4>1. w[i] = q[i - 1] /\ i - 1 \in 1 .. Len(q) /\ i - 1 <= M /\ (i - 1 = 1 \/ 2 <= i - 1)
        BY <1>13, <3>0, <3>1
      <4>2. IsEmpty(s, q[i - 1])
        <5>1. CASE i - 1 = 1
          BY <5>1, <1>15
        <5>2. CASE 2 <= i - 1
          BY <5>2, <4>1, <1>6
        <5> QED
          BY <5>1, <5>2, <4>1
      <4>3. IsEmpty(z, q[i - 1])
        BY <4>1, <4>2, <1>11 DEF IsEmpty
      <4> QED
        BY <4>1, <4>3, <3>1
    <3>2. CASE ~ (i <= M + 1)
      <4>1. w[i] = q[i] /\ i \in 1 .. Len(q) /\ ~ (i <= M)
        BY <1>13, <3>0, <3>2
      <4>2. ~ IsEmpty(z, q[i])
        BY <4>1, <3>0, <1>6, <1>11 DEF IsEmpty
      <4> QED
        BY <4>1, <4>2, <3>2
    <3> QED
      BY <3>1, <3>2
  <2>3. ASSUME NEW i \in 1 .. Len(w)
        PROVE  TailOf(z, w[i]) = NoPage \/ (2 <= i /\ i <= M + 1 /\ TailOf(z, w[i]) = w[M + 1])
    <3>1. CASE i = 1
      <4>1. w[i] = q[M + 1] /\ M + 1 # 1 /\ ~ (M + 1 <= M)
        BY <1>13, <3>1
      <4>2. TailOf(z, q[M + 1]) = TailOf(s, q[M + 1]) /\ TailOf(s, q[M + 1]) = NoPage
        BY <4>1, <1>3, <1>6, <1>11
      <4> QED
        BY <4>1, <4>2
    <3>2. CASE i # 1 /\ i <= M + 1
      <4>1. w[i] = q[i - 1] /\ i - 1 \in 1 .. Len(q) /\ 2 <= i
        BY <1>13, <3>2
      <4>2. TailOf(z, q[i - 1]) = NoPage \/ TailOf(z, q[i - 1]) = q[M]
        BY <4>1, <1>6, <1>11
      <4> QED
        BY <4>1, <4>2, <3>2, <1>16
    <3>3. CASE ~ (i <= M + 1)
      <4>1. w[i] = q[i] /\ i \in 1 .. Len(q) /\ i # 1 /\ ~ (i <= M)
        BY <1>13, <3>3
      <4>2. TailOf(z, q[i]) = TailOf(s, q[i]) /\ TailOf(s, q[i]) = NoPage
        BY <4>1, <1>6, <1>11
      <4> QED
        BY <4>1, <4>2
    <3> QED
      BY <3>1, <3>2, <3>3
  <2>4. TailOf(z, w[2]) = w[M + 1]
    BY <1>8, <1>11, <1>16
  <2> QED
    BY <2>1, <2>2, <2>3, <2>4 DEF Sorted
<1>18. TypeChained(s, z, c, t, w, M + 1)
  <2>1. Len(s.pages) + 1 .. Len(z.pages) = {}
    <3>1. Len(z.pages) = Len(s.pages)
      BY <1>9 DEF FrontLeads
    <3> QED
      BY <3>1, <1>1
  <2> QED
    BY <2>1, <1>7, <1>8, <1>14, <1>17 DEF TypeChained, q
<1>19. d \in [Types -> Seq(Nat)] /\ Instead(c, d, t, w) /\ n \in [Types -> Nat] /\ Instead(m, n, t, M + 1)
  BY <1>1, <1>7, <1>8, InsteadIs
<1> HIDE DEF d, n
<1>20. Strung(z, d, n)
  BY <1>12, <1>18, <1>19, Rechained
<1>21. d[t] = w /\ Instead(c, d, t, d[t])
  BY <1>19 DEF Instead
<1>22. PagesOf(d[t]) = PagesOf(c[t]) /\ d[t] # <<>> /\ ~ IsEmpty(z, d[t][1])
  <2>1. w # <<>>
    BY <1>2, <1>7, <1>8
  <2>2. w[1] = q[M + 1]
    BY <1>7, <1>8
  <2>3. ~ IsEmpty(z, q[M + 1])
    BY <1>3, <1>11 DEF IsEmpty
  <2> QED
    BY <2>1, <2>2, <2>3, <1>7, <1>21 DEF q
<1>23. Len(z.pages) = Len(s.pages) /\ EqualEntries(s, z)
  BY <1>9 DEF FrontLeads, EqualEntries
<1> QED
  BY <1>12, <1>20, <1>21, <1>22, <1>23 DEF LedByEntries

\* What fill_hole_from_head does when the head has entries.
Fill(s, t, p, i) ==
    LET donor == s.head[t]
        es    == Entries(s, donor)
        last  == es[Len(es)]
        rest  == SubSeq(es, 1, Len(es) - 1)
    IN  IF p = donor
        THEN SetEntries(s, p, SubSeq([es EXCEPT ![i] = last], 1, Len(es) - 1))
        ELSE SetEntries(SetEntries(s, donor, rest), p, [Entries(s, p) EXCEPT ![i] = last])

LEMMA FillHoleIs ==
    ASSUME NEW s, NEW t, NEW p, NEW i
    PROVE  FillHole(s, t, p, i) =
               IF IsEmpty(s, s.head[t]) THEN Fill(PromoteFirstNonEmpty(s, t), t, p, i) ELSE Fill(s, t, p, i)
BY DEF FillHole, Fill

\* w is es without its last entry, and with r for the entry at i.
Shortened(es, i, r, w) ==
    /\ w \in Seq(Rids) /\ Len(w) = Len(es) - 1
    /\ \A k \in 1 .. Len(w) : w[k] = IF k = i THEN r ELSE es[k]

LEMMA ShortenedIs ==
    ASSUME NEW es \in Seq(Rids), NEW i \in 1 .. Len(es), NEW r \in Rids,
           NEW w, w = SubSeq([es EXCEPT ![i] = r], 1, Len(es) - 1)
    PROVE  Shortened(es, i, r, w)
<1>1. Len(es) \in Nat /\ Len(es) >= 1 /\ Len(es) - 1 \in Nat
  OBVIOUS
<1> DEFINE fs == [es EXCEPT ![i] = r]
<1>2. fs \in Seq(Rids) /\ Len(fs) = Len(es) /\ \A k \in 1 .. Len(es) : fs[k] = IF k = i THEN r ELSE es[k]
  <2>1. fs \in Seq(Rids) /\ Len(fs) = Len(es)
    BY ExceptSeq
  <2>2. DOMAIN es = 1 .. Len(es)
    OBVIOUS
  <2>3. \A k \in 1 .. Len(es) : fs[k] = IF k = i THEN r ELSE es[k]
    BY <2>2
  <2> HIDE DEF fs
  <2> QED
    BY <2>1, <2>3
<1> HIDE DEF fs
<1>3. w = SubSeq(fs, 1, Len(es) - 1)
  BY DEF fs
<1>4. /\ w \in Seq(Rids) /\ Len(w) = Len(es) - 1
      /\ \A k \in 1 .. Len(w) : w[k] = fs[k] /\ k \in 1 .. Len(es)
  BY <1>1, <1>2, <1>3
<1> QED
  BY <1>2, <1>4 DEF Shortened

WithoutLast(es, w) ==
    w \in Seq(Rids) /\ Len(w) = Len(es) - 1 /\ \A k \in 1 .. Len(w) : w[k] = es[k]

LEMMA RestIs ==
    ASSUME NEW es \in Seq(Rids), Len(es) >= 1
    PROVE  WithoutLast(es, SubSeq(es, 1, Len(es) - 1))
<1>1. Len(es) \in Nat /\ Len(es) - 1 \in Nat /\ Len(es) - 1 <= Len(es)
  OBVIOUS
<1>2. ASSUME NEW n \in Nat, n <= Len(es)
      PROVE  /\ SubSeq(es, 1, n) \in Seq(Rids) /\ Len(SubSeq(es, 1, n)) = n
             /\ \A k \in 1 .. n : SubSeq(es, 1, n)[k] = es[k]
  BY <1>2
<1> DEFINE n == Len(es) - 1
           w == SubSeq(es, 1, n)
<1>3. n \in Nat /\ n <= Len(es)
  BY <1>1
<1> HIDE DEF n
<1>4. w \in Seq(Rids) /\ Len(w) = n /\ \A k \in 1 .. n : w[k] = es[k]
  BY <1>2, <1>3
<1> HIDE DEF w
<1>5. WithoutLast(es, w)
  BY <1>4 DEF WithoutLast, n
<1> QED
  BY <1>5 DEF w, n

LEMMA FillMoves ==
    ASSUME NEW s, NEW c, NEW m, Strung(s, c, m), NEW t \in Types, c[t] # <<>>, ~ IsEmpty(s, c[t][1]),
           NEW p \in PagesOf(c[t]), NEW i \in 1 .. Len(Entries(s, p)),
           NEW z, z = Fill(s, t, p, i)
    PROVE  /\ Strung(z, c, m) /\ OnlyType(s, z, c, t) /\ Len(z.pages) = Len(s.pages)
           /\ Moves(s, z, PagesOf(c[t]), p, i, c[t][1])
<1> DEFINE q == c[t]
           h == q[1]
           es == Entries(s, h)
           last == es[Len(es)]
<1>1. s \in Indexes /\ Len(s.pages) \in Nat
  BY IndexParts DEF Strung
<1>2. s.head[t] = h /\ 1 \in 1 .. Len(q) /\ \A j \in 1 .. Len(q) : q[j] \in 1 .. Len(s.pages)
  <2>1. s.head[t] = q[1] /\ Len(q) >= 1 /\ Len(q) \in Nat
    BY StrungParts
  <2>2. \A j \in 1 .. Len(q) : q[j] \in 1 .. Len(s.pages)
    BY StrungParts
  <2> QED
    BY <2>1, <2>2
<1>3. \A x \in PagesOf(q) : x \in 1 .. Len(s.pages) /\ Entries(s, x) \in Seq(Rids) /\ Len(Entries(s, x)) \in Nat
  BY <1>1, <1>2, IndexParts DEF PagesOf
<1>4. h \in PagesOf(q) /\ h \in 1 .. Len(s.pages)
  BY <1>2 DEF PagesOf
<1>5. es \in Seq(Rids) /\ Len(es) \in Nat /\ Len(es) >= 1 /\ last \in Rids
  <2>1. es \in Seq(Rids) /\ Len(es) \in Nat
    BY <1>3, <1>4
  <2>2. Len(es) # 0
    BY <2>1 DEF IsEmpty
  <2> QED
    BY <2>1, <2>2
<1>6. CASE p = h
  <2> DEFINE w == SubSeq([es EXCEPT ![i] = last], 1, Len(es) - 1)
  <2>1. z = SetEntries(s, h, w)
    BY <1>2, <1>6 DEF Fill
  <2>2. i \in 1 .. Len(es)
    BY <1>6
  <2>3. /\ w \in Seq(Rids) /\ Len(w) = Len(es) - 1
        /\ \A k \in 1 .. Len(w) : w[k] = IF k = i THEN last ELSE es[k]
    <3> DEFINE v == w
    <3>1. v = SubSeq([es EXCEPT ![i] = last], 1, Len(es) - 1)
      OBVIOUS
    <3> HIDE DEF v, es, last
    <3>2. Shortened(es, i, last, v)
      BY <1>5, <2>2, <3>1, ShortenedIs
    <3> QED
      BY <3>2 DEF v, Shortened
  <2> HIDE DEF w
  <2>4. /\ Strung(z, c, m) /\ OnlyType(s, z, c, t) /\ Alike(s, z) /\ SameEntriesBut(s, z, h, w)
    BY <1>2, <2>1, <2>3, PageEntriesSet
  <2>5. \A x \in PagesOf(q) : Entries(z, x) = IF x = h THEN w ELSE Entries(s, x)
    BY <2>4, <1>3 DEF SameEntriesBut
  <2>6. \A x \in PagesOf(q) : Len(Entries(z, x)) = IF x = h THEN Len(Entries(s, x)) - 1 ELSE Len(Entries(s, x))
    BY <2>3, <2>5
  <2>7. \A x \in PagesOf(q) : \A k \in 1 .. Len(Entries(z, x)) :
           Entries(z, x)[k] = IF x = p /\ k = i THEN last ELSE Entries(s, x)[k]
    BY <2>3, <2>5, <1>6
  <2>8. Moves(s, z, PagesOf(q), p, i, h)
    BY <1>4, <1>5, <2>6, <2>7 DEF Moves
  <2> QED
    BY <2>4, <2>8 DEF Alike
<1>7. CASE p # h
  <2> DEFINE rest == SubSeq(es, 1, Len(es) - 1)
             a == SetEntries(s, h, rest)
             fs == [Entries(s, p) EXCEPT ![i] = last]
  <2>1. z = SetEntries(a, p, fs)
    BY <1>2, <1>7 DEF Fill
  <2>2. /\ rest \in Seq(Rids) /\ Len(rest) = Len(es) - 1
        /\ \A k \in 1 .. Len(rest) : rest[k] = es[k]
    <3> HIDE DEF es
    <3>1. WithoutLast(es, rest)
      BY <1>5, RestIs
    <3> HIDE DEF rest
    <3> QED
      BY <3>1 DEF WithoutLast
  <2>3. Entries(s, p) \in Seq(Rids) /\ Len(Entries(s, p)) \in Nat /\ p \in 1 .. Len(s.pages)
    BY <1>3
  <2>4. /\ fs \in Seq(Rids) /\ Len(fs) = Len(Entries(s, p))
        /\ \A k \in 1 .. Len(fs) : fs[k] = IF k = i THEN last ELSE Entries(s, p)[k]
    <3>1. fs \in Seq(Rids) /\ Len(fs) = Len(Entries(s, p))
      BY <2>3, <1>5, ExceptSeq
    <3>2. DOMAIN Entries(s, p) = 1 .. Len(Entries(s, p))
      BY <2>3
    <3>3. \A k \in 1 .. Len(Entries(s, p)) : fs[k] = IF k = i THEN last ELSE Entries(s, p)[k]
      BY <3>2
    <3> HIDE DEF fs
    <3> QED
      BY <3>1, <3>3
  <2> HIDE DEF rest
  <2>5. Strung(a, c, m) /\ OnlyType(s, a, c, t) /\ Alike(s, a) /\ SameEntriesBut(s, a, h, rest)
    BY <1>2, <2>2, PageEntriesSet
  <2> HIDE DEF a, fs
  <2>6. Entries(a, p) = Entries(s, p)
    BY <2>3, <2>5, <1>7 DEF SameEntriesBut
  <2>7. ~ IsEmpty(a, p) /\ fs # <<>>
    <3>1. Len(Entries(s, p)) # 0
      BY <2>3
    <3> QED
      BY <3>1, <2>4, <2>6 DEF IsEmpty
  <2>8. PICK j \in 1 .. Len(q) : p = q[j]
    BY DEF PagesOf
  <2>9. Strung(z, c, m) /\ OnlyType(a, z, c, t) /\ Alike(a, z) /\ SameEntriesBut(a, z, p, fs)
    BY <2>1, <2>4, <2>5, <2>7, <2>8, PageEntriesSet
  <2>10. OnlyType(s, z, c, t) /\ Len(z.pages) = Len(s.pages)
    BY <1>1, <2>5, <2>9 DEF OnlyType, Alike
  <2>11. \A x \in PagesOf(q) : Entries(z, x) = IF x = p THEN fs ELSE IF x = h THEN rest ELSE Entries(s, x)
    <3>1. Len(a.pages) = Len(s.pages)
      BY <2>5 DEF Alike
    <3> QED
      BY <3>1, <2>5, <2>9, <1>3 DEF SameEntriesBut
  <2>12. \A x \in PagesOf(q) : Len(Entries(z, x)) = IF x = h THEN Len(Entries(s, x)) - 1 ELSE Len(Entries(s, x))
    BY <2>2, <2>4, <2>11, <1>7
  <2>13. \A x \in PagesOf(q) : \A k \in 1 .. Len(Entries(z, x)) :
           Entries(z, x)[k] = IF x = p /\ k = i THEN last ELSE Entries(s, x)[k]
    BY <2>2, <2>4, <2>11, <1>7
  <2>14. Moves(s, z, PagesOf(q), p, i, h)
    BY <1>4, <1>5, <2>12, <2>13 DEF Moves
  <2> QED
    BY <2>9, <2>10, <2>14
<1> QED
  BY <1>6, <1>7

\* The types have chains as they should, and the entry at place i of p is gone.
Dropped(s, c, z, t, p, i) ==
    \E d, n, h : /\ Strung(z, d, n) /\ OnlyType(s, z, c, t) /\ Instead(c, d, t, d[t])
                 /\ PagesOf(d[t]) = PagesOf(c[t]) /\ Moves(s, z, PagesOf(c[t]), p, i, h)

LEMMA FillHoleDrops ==
    ASSUME NEW s, NEW c, NEW m, Strung(s, c, m), NEW t \in Types,
           NEW p \in PagesOf(c[t]), NEW i \in 1 .. Len(Entries(s, p))
    PROVE  Dropped(s, c, FillHole(s, t, p, i), t, p, i)
<1> DEFINE q == c[t]
<1>1. PICK j \in 1 .. Len(q) : p = q[j]
  BY DEF PagesOf
<1>2. Len(q) \in Nat /\ (q # <<>> => s.head[t] = q[1]) /\ (\A l \in 1 .. Len(q) : q[l] \in 1 .. Len(s.pages))
  BY StrungParts
<1>3. q # <<>> /\ s.head[t] = q[1]
  BY <1>1, <1>2
<1>4. ~ IsEmpty(s, p)
  <2>1. Len(Entries(s, p)) # 0
    OBVIOUS
  <2> QED
    BY <2>1 DEF IsEmpty
<1>5. CASE ~ IsEmpty(s, q[1])
  <2> DEFINE z == Fill(s, t, p, i)
  <2>1. FillHole(s, t, p, i) = z
    BY <1>3, <1>5, FillHoleIs
  <2> HIDE DEF z
  <2>2. Strung(z, c, m) /\ OnlyType(s, z, c, t) /\ Moves(s, z, PagesOf(c[t]), p, i, c[t][1])
    BY <1>3, <1>5, FillMoves DEF z
  <2>3. Instead(c, c, t, c[t])
    BY DEF Instead
  <2> QED
    BY <2>1, <2>2, <2>3 DEF Dropped
<1>6. CASE IsEmpty(s, q[1])
  <2> DEFINE a == PromoteFirstNonEmpty(s, t)
             z == Fill(a, t, p, i)
  <2>1. FillHole(s, t, p, i) = z
    BY <1>3, <1>6, FillHoleIs
  <2>2. m[t] < Len(q)
    <3>1. j # 1
      BY <1>1, <1>4, <1>6
    <3>2. 2 <= j /\ j \in Nat /\ j <= Len(q)
      BY <3>1, <1>2
    <3>3. ~ (j <= m[t])
      BY <3>2, <1>1, <1>4, ChainNext
    <3>4. m[t] \in Nat
      BY <1>3, HasSpareIs
    <3> QED
      BY <3>2, <3>3, <3>4, <1>2
  <2>3. LedByEntries(s, c, a, t)
    <3>1. FrontLeads(s, a, t, c[t], m[t])
      BY <2>2, <1>3, <1>6, FrontLeadsIs
    <3> HIDE DEF a
    <3> QED
      BY <3>1, <2>2, <1>3, <1>6, FirstPromoted
  <2> HIDE DEF a
  <2>4. PICK d, n : /\ Strung(a, d, n) /\ OnlyType(s, a, c, t) /\ Instead(c, d, t, d[t])
                    /\ PagesOf(d[t]) = PagesOf(c[t]) /\ d[t] # <<>> /\ ~ IsEmpty(a, d[t][1])
                    /\ Len(a.pages) = Len(s.pages) /\ EqualEntries(s, a)
    BY <2>3 DEF LedByEntries
  <2>5. \A x \in PagesOf(c[t]) : Entries(a, x) = Entries(s, x)
    BY <2>4, <1>2 DEF PagesOf, EqualEntries
  <2>6. p \in PagesOf(d[t]) /\ i \in 1 .. Len(Entries(a, p))
    BY <2>4, <2>5
  <2> HIDE DEF z
  <2>7. /\ Strung(z, d, n) /\ OnlyType(a, z, d, t) /\ Moves(a, z, PagesOf(d[t]), p, i, d[t][1])
    BY <2>4, <2>6, FillMoves DEF z
  <2>8. OnlyType(s, z, c, t)
    <3>1. z \in Indexes /\ Len(s.pages) <= Len(z.pages)
      BY <2>4, <2>7 DEF OnlyType
    <3>2. \A u \in Types : u # t => z.head[u] = s.head[u]
      BY <2>4, <2>7 DEF OnlyType
    <3>3. \A y \in 1 .. Len(s.pages) : y \notin PagesOf(c[t]) =>
             /\ NextPage(z, y) = NextPage(s, y) /\ Entries(z, y) = Entries(s, y) /\ TailOf(z, y) = TailOf(s, y)
      BY <2>4, <2>7 DEF OnlyType
    <3> QED
      BY <3>1, <3>2, <3>3 DEF OnlyType
  <2>9. Moves(s, z, PagesOf(c[t]), p, i, d[t][1])
    <3>1. Moves(a, z, PagesOf(c[t]), p, i, d[t][1])
      BY <2>4, <2>7
    <3>2. d[t][1] \in PagesOf(c[t])
      BY <3>1 DEF Moves
    <3> QED
      BY <3>1, <3>2, <2>5 DEF Moves
  <2> QED
    BY <2>1, <2>4, <2>7, <2>8, <2>9 DEF Dropped
<1> QED
  BY <1>5, <1>6

-----------------------------------------------------------------------------
\* The invariant: the types have chains as they should, and a type has a node once.

Labelled(s) ==
    \E c, m : Strung(s, c, m) /\ \A t \in Types : OneEach(s, PagesOf(c[t]))

LEMMA OthersKept ==
    ASSUME NEW s, NEW c, NEW m, Strung(s, c, m), NEW t \in Types, NEW z, OnlyType(s, z, c, t),
           NEW u \in Types, u # t, OneEach(s, PagesOf(c[u]))
    PROVE  OneEach(z, PagesOf(c[u]))
<1>1. ASSUME NEW p \in PagesOf(c[u]) PROVE Entries(z, p) = Entries(s, p)
  <2>1. PICK i \in 1 .. Len(c[u]) : p = c[u][i]
    BY <1>1 DEF PagesOf
  <2>2. c[u][i] \in 1 .. Len(s.pages) /\ c[u][i] \notin PagesOf(c[t])
    BY ApartFrom
  <2> QED
    BY <2>1, <2>2 DEF OnlyType
<1> QED
  BY <1>1 DEF OneEach

LEMMA EntriesDomain ==
    ASSUME NEW s, NEW c, NEW m, Strung(s, c, m), NEW t \in Types, NEW p \in PagesOf(c[t])
    PROVE  DOMAIN Entries(s, p) = 1 .. Len(Entries(s, p)) /\ Len(Entries(s, p)) \in Nat
<1>1. PICK i \in 1 .. Len(c[t]) : p = c[t][i]
  BY DEF PagesOf
<1>2. p \in 1 .. Len(s.pages) /\ s \in Indexes
  BY <1>1, ChainNext DEF Strung
<1>3. Entries(s, p) \in Seq(Rids)
  BY <1>2, IndexParts
<1> QED
  BY <1>3

LEMMA MembersIs ==
    ASSUME NEW s, NEW c, NEW m, Strung(s, c, m), NEW t \in Types
    PROVE  Members(s, t) = EntriesOf(s, PagesOf(c[t]))
<1>1. InChain(s, t) = PagesOf(c[t])
  BY TypeChainIs
<1>2. \A p \in PagesOf(c[t]) : DOMAIN Entries(s, p) = 1 .. Len(Entries(s, p))
  BY EntriesDomain
<1>3. \A p \in PagesOf(c[t]) : {Entries(s, p)[i] : i \in DOMAIN Entries(s, p)} = {Entries(s, p)[i] : i \in 1 .. Len(Entries(s, p))}
  BY <1>2
<1>4. {{Entries(s, p)[i] : i \in DOMAIN Entries(s, p)} : p \in PagesOf(c[t])} =
          {{Entries(s, p)[i] : i \in 1 .. Len(Entries(s, p))} : p \in PagesOf(c[t])}
  BY <1>3
<1> QED
  BY <1>1, <1>4, Zenon DEF Members, EntriesOf

\* A walk finds the node where it lies.
LEMMA FindsIs ==
    ASSUME NEW s, NEW c, NEW m, Strung(s, c, m), NEW t \in Types, NEW r
    PROVE  /\ \A x \in Finds(s, t, r) : /\ x[1] \in PagesOf(c[t]) /\ x[2] \in 1 .. Len(Entries(s, x[1]))
                                        /\ Entries(s, x[1])[x[2]] = r
           /\ Finds(s, t, r) = {} <=> r \notin EntriesOf(s, PagesOf(c[t]))
<1>1. InChain(s, t) = PagesOf(c[t])
  BY TypeChainIs
<1>2. \A p \in PagesOf(c[t]) : DOMAIN Entries(s, p) = 1 .. Len(Entries(s, p))
  BY EntriesDomain
<1>3. ASSUME NEW x \in Finds(s, t, r)
      PROVE  /\ x[1] \in PagesOf(c[t]) /\ x[2] \in 1 .. Len(Entries(s, x[1]))
             /\ Entries(s, x[1])[x[2]] = r
  <2>1. PICK p \in PagesOf(c[t]) : x \in {<<p, i>> : i \in {j \in DOMAIN Entries(s, p) : Entries(s, p)[j] = r}}
    BY <1>1, <1>3 DEF Finds
  <2>2. PICK i \in DOMAIN Entries(s, p) : x = <<p, i>> /\ Entries(s, p)[i] = r
    BY <2>1
  <2>3. x[1] = p /\ x[2] = i
    BY <2>2
  <2> QED
    BY <2>2, <2>3, <1>2
<1>4. ASSUME Finds(s, t, r) = {}, r \in EntriesOf(s, PagesOf(c[t])) PROVE FALSE
  <2>1. PICK p \in PagesOf(c[t]) : \E i \in 1 .. Len(Entries(s, p)) : r = Entries(s, p)[i]
    BY <1>4, EntryOnPages
  <2>2. PICK i \in 1 .. Len(Entries(s, p)) : r = Entries(s, p)[i]
    BY <2>1
  <2>3. i \in DOMAIN Entries(s, p) /\ p \in InChain(s, t)
    BY <1>1, <1>2, <2>1
  <2>4. <<p, i>> \in Finds(s, t, r)
    BY <2>2, <2>3 DEF Finds
  <2> QED
    BY <2>4, <1>4
<1>5. ASSUME Finds(s, t, r) # {} PROVE r \in EntriesOf(s, PagesOf(c[t]))
  <2>1. PICK x \in Finds(s, t, r) : TRUE
    BY <1>5
  <2> QED
    BY <2>1, <1>3, EntryOnPages
<1> QED
  BY <1>3, <1>4, <1>5

LEMMA AddOne ==
    ASSUME NEW s, Labelled(s), NEW t \in Types, NEW r \in Rids, NEW z, z = AddTo(s, t, r)
    PROVE  Labelled(z) /\ Members(z, t) = Members(s, t) \cup {r}
<1>1. PICK c, m : Strung(s, c, m) /\ \A u \in Types : OneEach(s, PagesOf(c[u]))
  BY DEF Labelled
<1>2. Members(s, t) = EntriesOf(s, PagesOf(c[t]))
  BY <1>1, MembersIs
<1>3. Finds(s, t, r) = {} <=> r \notin EntriesOf(s, PagesOf(c[t]))
  BY <1>1, FindsIs
<1>4. CASE Finds(s, t, r) # {}
  <2>1. z = s
    BY <1>4 DEF AddTo
  <2>2. r \in Members(s, t)
    BY <1>2, <1>3, <1>4
  <2> QED
    BY <2>1, <2>2
<1>5. CASE Finds(s, t, r) = {}
  <2>1. z = AddNew(s, t, r)
    BY <1>5 DEF AddTo
  <2>2. NodeAdded(s, c, z, t, r)
    BY <2>1, <1>1, AddNewAdds
  <2>3. PICK d, n, x, k : /\ Strung(z, d, n) /\ OnlyType(s, z, c, t) /\ Instead(c, d, t, d[t])
                          /\ Gains(s, z, PagesOf(c[t]), PagesOf(d[t]), r, x, k)
    BY <2>2 DEF NodeAdded
  <2>4. OneEach(z, PagesOf(d[t])) /\ EntriesOf(z, PagesOf(d[t])) = EntriesOf(s, PagesOf(c[t])) \cup {r}
    BY <2>3, <1>1, <1>3, <1>5, GainsOne
  <2>5. ASSUME NEW u \in Types PROVE OneEach(z, PagesOf(d[u]))
    <3>1. CASE u = t
      BY <3>1, <2>4
    <3>2. CASE u # t
      <4>1. d[u] = c[u]
        BY <3>2, <2>3 DEF Instead
      <4> QED
        BY <4>1, <3>2, <2>3, <1>1, OthersKept
    <3> QED
      BY <3>1, <3>2
  <2>6. Members(z, t) = EntriesOf(z, PagesOf(d[t]))
    BY <2>3, MembersIs
  <2>7. Labelled(z)
    BY <2>3, <2>5 DEF Labelled
  <2> QED
    BY <2>4, <2>6, <2>7, <1>2
<1> QED
  BY <1>4, <1>5

LEMMA RemoveOne ==
    ASSUME NEW s, Labelled(s), NEW t \in Types, NEW r \in Rids, NEW z, z = RemoveFrom(s, t, r)
    PROVE  Labelled(z) /\ Members(z, t) = Members(s, t) \ {r}
<1>1. PICK c, m : Strung(s, c, m) /\ \A u \in Types : OneEach(s, PagesOf(c[u]))
  BY DEF Labelled
<1>2. Members(s, t) = EntriesOf(s, PagesOf(c[t]))
  BY <1>1, MembersIs
<1>3. /\ \A x \in Finds(s, t, r) : /\ x[1] \in PagesOf(c[t]) /\ x[2] \in 1 .. Len(Entries(s, x[1]))
                                   /\ Entries(s, x[1])[x[2]] = r
      /\ Finds(s, t, r) = {} <=> r \notin EntriesOf(s, PagesOf(c[t]))
  BY <1>1, FindsIs
<1>4. CASE Finds(s, t, r) = {}
  <2>1. z = s
    BY <1>4 DEF RemoveFrom
  <2>2. r \notin Members(s, t)
    BY <1>2, <1>3, <1>4
  <2> QED
    BY <2>1, <2>2
<1>5. CASE Finds(s, t, r) # {}
  <2> DEFINE at == CHOOSE x \in Finds(s, t, r) : TRUE
             p == at[1]
             i == at[2]
  <2>1. at \in Finds(s, t, r)
    BY <1>5
  <2>2. z = FillHole(s, t, p, i)
    BY <1>5 DEF RemoveFrom
  <2> HIDE DEF at
  <2>3. p \in PagesOf(c[t]) /\ i \in 1 .. Len(Entries(s, p)) /\ Entries(s, p)[i] = r
    BY <2>1, <1>3
  <2> HIDE DEF p, i
  <2>4. Dropped(s, c, z, t, p, i)
    BY <2>2, <2>3, <1>1, FillHoleDrops
  <2>5. PICK d, n, h : /\ Strung(z, d, n) /\ OnlyType(s, z, c, t) /\ Instead(c, d, t, d[t])
                       /\ PagesOf(d[t]) = PagesOf(c[t]) /\ Moves(s, z, PagesOf(c[t]), p, i, h)
    BY <2>4 DEF Dropped
  <2>6. \A x \in PagesOf(c[t]) : Len(Entries(s, x)) \in Nat
    BY <1>1, EntriesDomain
  <2>7. OneEach(z, PagesOf(c[t])) /\ EntriesOf(z, PagesOf(c[t])) = EntriesOf(s, PagesOf(c[t])) \ {Entries(s, p)[i]}
    BY <2>5, <2>6, <1>1, LosesOne
  <2>8. ASSUME NEW u \in Types PROVE OneEach(z, PagesOf(d[u]))
    <3>1. CASE u = t
      BY <3>1, <2>5, <2>7
    <3>2. CASE u # t
      <4>1. d[u] = c[u]
        BY <3>2, <2>5 DEF Instead
      <4> QED
        BY <4>1, <3>2, <2>5, <1>1, OthersKept
    <3> QED
      BY <3>1, <3>2
  <2>9. Members(z, t) = EntriesOf(z, PagesOf(d[t]))
    BY <2>5, MembersIs
  <2>10. Labelled(z)
    BY <2>5, <2>8 DEF Labelled
  <2> QED
    BY <2>3, <2>5, <2>7, <2>9, <2>10, <1>2
<1> QED
  BY <1>4, <1>5

LEMMA LabelledAtFirst == LabelInit => Labelled(index)
<1> SUFFICES ASSUME LabelInit PROVE Labelled(index)
  OBVIOUS
<1> DEFINE c == [t \in Types |-> <<>>]
           m == [t \in Types |-> 0]
<1>1. index.head = [t \in Types |-> NoPage] /\ index.pages = <<>> /\ Len(index.pages) = 0
  BY DEF LabelInit
<1>2. index \in Indexes
  <2>1. <<>> \in Seq(LabelPages) /\ [t \in Types |-> NoPage] \in [Types -> Nat \cup {NoPage}]
    OBVIOUS
  <2> QED
    BY <2>1 DEF LabelInit, Indexes
<1>3. c \in [Types -> Seq(Nat)] /\ m \in [Types -> Nat]
  OBVIOUS
<1>4. \A t \in Types : c[t] = <<>> /\ Len(c[t]) = 0 /\ m[t] = 0 /\ index.head[t] = NoPage
  BY <1>1
<1> HIDE DEF c, m
<1>5. \A i \in 1 .. 0 : FALSE
  OBVIOUS
<1>6. ASSUME NEW t \in Types PROVE TypeLinks(index, index.head[t], c[t]) /\ Sorted(index, c[t], m[t])
  BY <1>4, <1>5 DEF TypeLinks, Sorted
<1>7. Strung(index, c, m)
  BY <1>1, <1>2, <1>3, <1>4, <1>5, <1>6 DEF Strung
<1>8. \A t \in Types : OneEach(index, PagesOf(c[t]))
  BY <1>4, <1>5 DEF OneEach, PagesOf
<1> QED
  BY <1>7, <1>8 DEF Labelled

LEMMA LabelledStep == Labelled(index) /\ [LabelCalls]_labelVars => Labelled(index)'
<1> SUFFICES ASSUME Labelled(index), [LabelCalls]_labelVars PROVE Labelled(index')
  OBVIOUS
<1>1. CASE UNCHANGED labelVars
  BY <1>1 DEF labelVars
<1>2. ASSUME NEW t \in Types, NEW r \in Rids, Add(t, r) PROVE Labelled(index')
  BY <1>2, AddOne DEF Add
<1>3. ASSUME NEW t \in Types, NEW r \in Rids, Remove(t, r) PROVE Labelled(index')
  BY <1>3, RemoveOne DEF Remove
<1> QED
  BY <1>1, <1>2, <1>3 DEF LabelCalls

LEMMA LabelledAlways == LabelSpec => []Labelled(index)
BY LabelledAtFirst, LabelledStep, PTL DEF LabelSpec

LEMMA InOneChain == Labelled(index) => PagesInOneChain
<1> SUFFICES ASSUME Labelled(index) PROVE PagesInOneChain
  OBVIOUS
<1>1. PICK c, m : Strung(index, c, m)
  BY DEF Labelled
<1>2. ASSUME NEW t \in Types
      PROVE  TypeChain(index, t) = c[t] /\ InChain(index, t) = PagesOf(c[t])
  BY <1>1, TypeChainIs
<1>3. index \in Indexes /\ Len(index.pages) \in Nat /\ DOMAIN index.pages = 1 .. Len(index.pages)
  <2>1. index \in Indexes
    BY <1>1 DEF Strung
  <2>2. index.pages \in Seq(LabelPages)
    BY <2>1, IndexParts
  <2> QED
    BY <2>1, <2>2
<1>4. ASSUME NEW t \in Types PROVE Len(TypeChain(index, t)) = Cardinality(InChain(index, t))
  <2>1. /\ c[t] \in Seq(Nat) /\ \A i \in 1 .. Len(c[t]) : c[t][i] \in 1 .. Len(index.pages)
        /\ \A i, j \in 1 .. Len(c[t]) : c[t][i] = c[t][j] => i = j
    BY <1>1, StrungParts
  <2>2. Cardinality(PagesOf(c[t])) = Len(c[t])
    BY <2>1, <1>3, ChainFits
  <2> QED
    BY <2>2, <1>2
<1>5. ASSUME NEW t \in Types, NEW u \in Types, t # u PROVE InChain(index, t) \cap InChain(index, u) = {}
  <2>1. ASSUME NEW p \in PagesOf(c[t]), p \in PagesOf(c[u]) PROVE FALSE
    <3>1. PICK i \in 1 .. Len(c[u]) : p = c[u][i]
      BY <2>1 DEF PagesOf
    <3> QED
      BY <3>1, <2>1, <1>1, <1>5, ApartFrom
  <2> QED
    BY <2>1, <1>2
<1>6. UNION {InChain(index, t) : t \in Types} = DOMAIN index.pages
  <2>1. ASSUME NEW p \in DOMAIN index.pages PROVE \E t \in Types : p \in InChain(index, t)
    BY <1>1, <1>2, <1>3 DEF Strung
  <2>2. ASSUME NEW t \in Types, NEW p \in InChain(index, t) PROVE p \in DOMAIN index.pages
    <3>1. PICK i \in 1 .. Len(c[t]) : p = c[t][i]
      BY <2>2, <1>2 DEF PagesOf
    <3> QED
      BY <3>1, <1>1, <1>3, ChainNext
  <2> QED
    BY <2>1, <2>2
<1> QED
  BY <1>4, <1>5, <1>6 DEF PagesInOneChain

\* Each page of the label index is in the chain of one type, once, through every promotion of a
\* spare (promote_spare) and of a page with entries (promote_first_non_empty).
THEOREM LabelPagesInOneChain == LabelSpec => []PagesInOneChain
BY LabelledAlways, InOneChain, PTL

\* add and remove change one node of the type, and none by the entries they move.
THEOREM LabelCallsChangeOneNode == LabelSpec => CallsChangeOneNode
<1>1. Labelled(index) => (index' = index \/ \A t \in Types, r \in Rids :
          /\ Add(t, r) => Members(index', t) = Members(index, t) \cup {r}
          /\ Remove(t, r) => Members(index', t) = Members(index, t) \ {r})
  <2> SUFFICES ASSUME Labelled(index), NEW t \in Types, NEW r \in Rids
               PROVE  /\ Add(t, r) => Members(index', t) = Members(index, t) \cup {r}
                      /\ Remove(t, r) => Members(index', t) = Members(index, t) \ {r}
    OBVIOUS
  <2>1. ASSUME Add(t, r) PROVE Members(index', t) = Members(index, t) \cup {r}
    BY <2>1, AddOne DEF Add
  <2>2. ASSUME Remove(t, r) PROVE Members(index', t) = Members(index, t) \ {r}
    BY <2>2, RemoveOne DEF Remove
  <2> QED
    BY <2>1, <2>2
<1> QED
  BY <1>1, LabelledAlways, PTL DEF CallsChangeOneNode
=============================================================================
