------------------------- MODULE PropertyPages_proofs -------------------------
(***************************************************************************)
(* The property store, for any number of pages, and of half-words of one.  *)
(*                                                                         *)
(* A page is the shelf of the small values in its slots, a page of the     *)
(* chain of one large value, or free.  Nothing on the page says which, but *)
(* the store does not take the one for the other as long as no chain       *)
(* links to a page whose number passes for a slot count (ClearLinks).      *)
(***************************************************************************)
EXTENDS PropertyPages, FiniteSetTheorems, SequenceTheorems, SetInduction

PagesW == [0 .. W - 1 -> Nat]
Stores == [pages : Seq(PagesW), hint : Nat, free : Nat]

-----------------------------------------------------------------------------
\* Words on pages.

LEMMA OverwriteIs ==
    ASSUME NEW p \in PagesW, NEW at \in Nat, NEW words \in Seq(Nat), at + Len(words) <= W
    PROVE  /\ Overwrite(p, at, words) \in PagesW
           /\ \A i \in 0 .. W - 1 : Overwrite(p, at, words)[i] =
                  IF i \in at .. at + Len(words) - 1 THEN words[i - at + 1] ELSE p[i]
<1>1. W \in Nat
  BY WidthAssumption
<1>2. DOMAIN p = 0 .. W - 1 /\ \A i \in 0 .. W - 1 : p[i] \in Nat
  BY DEF PagesW
<1>3. ASSUME NEW i \in 0 .. W - 1, i \in at .. at + Len(words) - 1 PROVE words[i - at + 1] \in Nat
  <2>1. i - at + 1 \in 1 .. Len(words)
    BY <1>1, <1>3
  <2> QED
    BY <2>1
<1>4. Overwrite(p, at, words) = [i \in 0 .. W - 1 |-> IF i \in at .. at + Len(words) - 1 THEN words[i - at + 1] ELSE p[i]]
  BY <1>2 DEF Overwrite
<1> QED
  BY <1>2, <1>3, <1>4 DEF PagesW

LEMMA OverwriteTwo ==
    ASSUME NEW p \in PagesW, NEW at \in Nat, NEW a \in Nat, NEW b \in Nat, at + 2 <= W
    PROVE  /\ Overwrite(p, at, <<a, b>>) \in PagesW
           /\ \A i \in 0 .. W - 1 : Overwrite(p, at, <<a, b>>)[i] = IF i = at THEN a ELSE IF i = at + 1 THEN b ELSE p[i]
<1> DEFINE two == <<a, b>>
<1>1. two \in Seq(Nat) /\ two[1] = a /\ two[2] = b
  OBVIOUS
<1>2. Len(two) = 2
  OBVIOUS
<1> HIDE DEF two
<1>3. /\ Overwrite(p, at, two) \in PagesW
      /\ \A i \in 0 .. W - 1 : Overwrite(p, at, two)[i] =
             IF i \in at .. at + Len(two) - 1 THEN two[i - at + 1] ELSE p[i]
  BY <1>1, <1>2, OverwriteIs
<1>4. ASSUME NEW i \in 0 .. W - 1
      PROVE  Overwrite(p, at, two)[i] = IF i = at THEN a ELSE IF i = at + 1 THEN b ELSE p[i]
  <2>1. Overwrite(p, at, two)[i] = IF i = at \/ i = at + 1 THEN two[i - at + 1] ELSE p[i]
    BY <1>2, <1>3
  <2>2. (i = at => i - at + 1 = 1) /\ (i = at + 1 => i - at + 1 = 2)
    OBVIOUS
  <2> QED
    BY <1>1, <2>1, <2>2
<1> QED
  BY <1>3, <1>4 DEF two

LEMMA BlankPage == Blank \in PagesW /\ \A i \in 0 .. W - 1 : Blank[i] = 0
BY WidthAssumption DEF Blank, PagesW

\* A number is read from the two half-words that it is written to.
LEMMA Linked ==
    ASSUME NEW n \in Nat
    PROVE  /\ Link(n) \in Seq(Nat) /\ Len(Link(n)) = 2
           /\ Link(n)[1] = n % Base /\ Link(n)[2] = n \div Base
           /\ Link(n)[1] \in Nat /\ Link(n)[2] \in Nat
           /\ Link(n)[1] + Base * Link(n)[2] = n
<1>1. n % Base \in Nat /\ n \div Base \in Nat
  BY DEF Base
<1>2. (n % Base) + Base * (n \div Base) = n
  BY DEF Base
<1> QED
  BY <1>1, <1>2 DEF Link

LEMMA NoneLink == None \in Nat /\ None >= Base /\ None % Base = Marker /\ Base \in Nat /\ Marker \in Nat /\ Marker = Base - 1 /\ Marker > 16384 /\ W < Marker
BY WidthAssumption DEF None, Base, Marker

LEMMA BytesAre ==
    ASSUME NEW v \in [size : Nat, tag : 1 .. 15]
    PROVE  /\ Bytes(v) \in Seq(Nat) /\ Len(Bytes(v)) = v.size /\ DOMAIN Bytes(v) = 1 .. v.size
           /\ \A i \in 1 .. v.size : Bytes(v)[i] > 16384 /\ Bytes(v)[i] < Marker
<1>1. v.size \in Nat /\ v.tag \in 1 .. 15
  OBVIOUS
<1>2. \A i \in 1 .. v.size : i % 512 \in 0 .. 511
  OBVIOUS
<1>3. \A i \in 1 .. v.size : 16384 + 16 * (i % 512) + v.tag \in Nat /\ 16384 + 16 * (i % 512) + v.tag > 16384 /\ 16384 + 16 * (i % 512) + v.tag < 32767
  BY <1>1, <1>2
<1>4. Bytes(v) = [i \in 1 .. v.size |-> 16384 + 16 * (i % 512) + v.tag]
  BY DEF Bytes
<1>5. Bytes(v) \in Seq(Nat) /\ Len(Bytes(v)) = v.size
  BY <1>1, <1>3, <1>4
<1> QED
  BY <1>1, <1>3, <1>4, <1>5 DEF Marker, Base

\* The least number of a set.
LEMMA LeastIs ==
    ASSUME NEW S \in SUBSET Nat, S # {}
    PROVE  Least(S) \in S /\ \A y \in S : Least(S) <= y
<1>1. PICK x \in S : \A y \in S : x <= y
  BY LeastNumber
<1> QED
  BY <1>1 DEF Least

-----------------------------------------------------------------------------
\* Stores and their free lists.

LEMMA StoreParts ==
    ASSUME NEW s \in Stores
    PROVE  /\ s = [pages |-> s.pages, hint |-> s.hint, free |-> s.free]
           /\ s.pages \in Seq(PagesW) /\ s.hint \in Nat /\ s.free \in Nat /\ Count(s) \in Nat
           /\ \A l \in 0 .. Count(s) - 1 : Page(s, l) \in PagesW
<1>1. s.pages \in Seq(PagesW) /\ s.hint \in Nat /\ s.free \in Nat /\ Len(s.pages) \in Nat
  BY DEF Stores
<1>2. \A i \in 1 .. Len(s.pages) : s.pages[i] \in PagesW
  BY <1>1
<1>3. \A l \in 0 .. Len(s.pages) - 1 : l + 1 \in 1 .. Len(s.pages)
  BY <1>1
<1>4. s = [pages |-> s.pages, hint |-> s.hint, free |-> s.free]
  BY DEF Stores
<1> QED
  BY <1>1, <1>2, <1>3, <1>4 DEF Page, Count

LEMMA SetPageIs ==
    ASSUME NEW s \in Stores, NEW l \in 0 .. Count(s) - 1, NEW p \in PagesW
    PROVE  /\ SetPage(s, l, p) \in Stores /\ Count(SetPage(s, l, p)) = Count(s)
           /\ \A m \in 0 .. Count(s) - 1 : Page(SetPage(s, l, p), m) = IF m = l THEN p ELSE Page(s, m)
           /\ SetPage(s, l, p).free = s.free /\ SetPage(s, l, p).hint = s.hint
<1> DEFINE q == [s.pages EXCEPT ![l + 1] = p]
<1>1. /\ s = [pages |-> s.pages, hint |-> s.hint, free |-> s.free]
      /\ s.pages \in Seq(PagesW) /\ s.hint \in Nat /\ s.free \in Nat /\ Count(s) \in Nat /\ Len(s.pages) = Count(s)
  BY StoreParts DEF Count
<1>2. q \in Seq(PagesW) /\ Len(q) = Len(s.pages)
  BY <1>1
<1>3. \A m \in 0 .. Count(s) - 1 : q[m + 1] = IF m = l THEN p ELSE s.pages[m + 1]
  BY <1>1
<1>4. SetPage(s, l, p) = [pages |-> q, hint |-> s.hint, free |-> s.free]
  <2>1. SetPage(s, l, p) = [s EXCEPT !.pages = q]
    BY DEF SetPage
  <2> HIDE DEF q
  <2> QED
    BY <1>1, <2>1
<1> HIDE DEF q
<1> QED
  BY <1>1, <1>2, <1>3, <1>4 DEF Stores, Count, Page

\* The free list q: the link of each page leads to the next.
FreeLinks(s, q) ==
    /\ q \in Seq(Nat)
    /\ \A i, j \in 1 .. Len(q) : q[i] = q[j] => i = j
    /\ \A i \in 1 .. Len(q) :
           /\ q[i] < Count(s) /\ q[i] # None
           /\ IsFreeMarked(Page(s, q[i]))
           /\ LinkOf(Page(s, q[i]), 2) = IF i = Len(q) THEN None ELSE q[i + 1]
    /\ s.free = IF q = <<>> THEN None ELSE q[1]

\* The pages are those in use and those in the free list.
Splits(s, U, q) ==
    /\ U \subseteq 0 .. Count(s) - 1
    /\ \A l \in 0 .. Count(s) - 1 : l \in U <=> \A i \in 1 .. Len(q) : q[i] # l

Pool(s, U) == s \in Stores /\ \E q : FreeLinks(s, q) /\ Splits(s, U, q)

\* Pages in use may be written.
LEMMA PoolKept ==
    ASSUME NEW s, NEW U, Pool(s, U), NEW t \in Stores, Count(t) = Count(s), t.free = s.free,
           \A l \in (0 .. Count(s) - 1) \ U : Page(t, l) = Page(s, l)
    PROVE  Pool(t, U)
<1>1. PICK q : FreeLinks(s, q) /\ Splits(s, U, q)
  BY DEF Pool
<1>2. s \in Stores /\ q \in Seq(Nat) /\ Count(s) \in Nat
  BY <1>1, StoreParts DEF Pool, FreeLinks
<1>3. \A i \in 1 .. Len(q) : Page(t, q[i]) = Page(s, q[i])
  <2> SUFFICES ASSUME NEW i \in 1 .. Len(q) PROVE Page(t, q[i]) = Page(s, q[i])
    OBVIOUS
  <2>1. q[i] \in 0 .. Count(s) - 1
    BY <1>1, <1>2 DEF FreeLinks
  <2>2. q[i] \notin U
    BY <1>1, <2>1 DEF Splits
  <2> QED
    BY <2>1, <2>2
<1>4. FreeLinks(t, q)
  BY <1>1, <1>3 DEF FreeLinks
<1>5. Splits(t, U, q)
  BY <1>1 DEF Splits
<1> QED
  BY <1>4, <1>5 DEF Pool

\* The hint says nothing of the free list.
LEMMA HintKept ==
    ASSUME NEW s, NEW U, Pool(s, U), NEW l \in Nat
    PROVE  /\ Pool([s EXCEPT !.hint = l], U)
           /\ Count([s EXCEPT !.hint = l]) = Count(s)
           /\ \A m \in 0 .. Count(s) - 1 : Page([s EXCEPT !.hint = l], m) = Page(s, m)
<1>1. s \in Stores /\ s = [pages |-> s.pages, hint |-> s.hint, free |-> s.free]
  BY StoreParts DEF Pool
<1> DEFINE t == [s EXCEPT !.hint = l]
<1>2. t = [pages |-> s.pages, hint |-> l, free |-> s.free]
  BY <1>1
<1>3. t \in Stores /\ Count(t) = Count(s) /\ t.free = s.free /\ \A m : Page(t, m) = Page(s, m)
  BY <1>1, <1>2 DEF Stores, Count, Page
<1> HIDE DEF t
<1>4. Pool(t, U)
  BY <1>3, PoolKept
<1> QED
  BY <1>3, <1>4 DEF t

\* A new page is one that is not in use.
LEMMA AllocPool ==
    ASSUME NEW s, NEW U, Pool(s, U), NEW p \in PagesW
    PROVE  /\ NewPage(s) \in 0 .. Count(AllocPage(s, p)) - 1 /\ NewPage(s) \notin U
           /\ Count(s) <= Count(AllocPage(s, p))
           /\ Page(AllocPage(s, p), NewPage(s)) = p
           /\ \A m \in 0 .. Count(s) - 1 : m # NewPage(s) => Page(AllocPage(s, p), m) = Page(s, m)
           /\ Pool(AllocPage(s, p), U \cup {NewPage(s)})
           /\ AllocPage(s, p).hint = s.hint
<1> DEFINE n == NewPage(s)
           t == AllocPage(s, p)
<1>1. PICK q : FreeLinks(s, q) /\ Splits(s, U, q)
  BY DEF Pool
<1>2. s \in Stores /\ q \in Seq(Nat) /\ Count(s) \in Nat /\ Len(q) \in Nat
  BY <1>1, StoreParts DEF Pool, FreeLinks
<1>3. s = [pages |-> s.pages, hint |-> s.hint, free |-> s.free] /\ s.pages \in Seq(PagesW) /\ s.hint \in Nat /\ s.free \in Nat
  BY <1>2, StoreParts
<1>4. CASE q = <<>>
  <2>1. ~ Reuses(s)
    BY <1>1, <1>4 DEF FreeLinks, Reuses
  <2>2. n = Count(s) /\ t = [s EXCEPT !.pages = Append(@, p), !.free = None]
    BY <2>1 DEF NewPage, AllocPage
  <2>3. t = [pages |-> Append(s.pages, p), hint |-> s.hint, free |-> None]
    BY <1>3, <2>2
  <2>4. /\ Append(s.pages, p) \in Seq(PagesW) /\ Len(Append(s.pages, p)) = Count(s) + 1
        /\ \A m \in 0 .. Count(s) - 1 : Append(s.pages, p)[m + 1] = s.pages[m + 1]
        /\ Append(s.pages, p)[Count(s) + 1] = p
    BY <1>3 DEF Count
  <2> HIDE DEF t, n
  <2>5. t \in Stores /\ Count(t) = Count(s) + 1 /\ Page(t, n) = p /\ \A m \in 0 .. Count(s) - 1 : Page(t, m) = Page(s, m)
    <3>1. t.pages = Append(s.pages, p) /\ t \in Stores
      BY <1>3, <2>3, <2>4, NoneLink DEF Stores
    <3>2. Count(t) = Count(s) + 1 /\ Page(t, n) = p
      BY <2>2, <2>4, <3>1 DEF Count, Page
    <3>3. \A m \in 0 .. Count(s) - 1 : Page(t, m) = Page(s, m)
      BY <2>4, <3>1 DEF Page
    <3> QED
      BY <3>1, <3>2, <3>3
  <2>6. FreeLinks(t, q)
    BY <1>4, <2>3 DEF FreeLinks
  <2>7. U = 0 .. Count(s) - 1
    <3>1. \A i \in 1 .. Len(q) : FALSE
      BY <1>4
    <3>2. \A l \in 0 .. Count(s) - 1 : l \in U
      BY <1>1, <3>1 DEF Splits
    <3> QED
      BY <1>1, <3>2 DEF Splits
  <2>8. Splits(t, U \cup {n}, q)
    BY <1>2, <1>4, <2>2, <2>5, <2>7 DEF Splits
  <2> QED
    BY <1>2, <2>2, <2>3, <2>5, <2>6, <2>7, <2>8 DEF t, n, Pool
<1>5. CASE q # <<>>
  <2>0. Len(q) \in Nat
    BY <1>2
  <2>1. Len(q) >= 1 /\ 1 \in 1 .. Len(q)
    BY <1>2, <1>5
  <2>2. s.free = q[1] /\ q[1] \in 0 .. Count(s) - 1 /\ q[1] # None /\ IsFreeMarked(Page(s, q[1]))
        /\ LinkOf(Page(s, q[1]), 2) = IF 1 = Len(q) THEN None ELSE q[2]
    <3>1. s.free = q[1]
      BY <1>1, <1>5 DEF FreeLinks
    <3>2. q[1] \in Nat /\ q[1] < Count(s) /\ q[1] # None /\ IsFreeMarked(Page(s, q[1]))
          /\ LinkOf(Page(s, q[1]), 2) = IF 1 = Len(q) THEN None ELSE q[1 + 1]
      <4>1. q \in Seq(Nat) => q[1] \in Nat
        BY <2>0, <2>1
      <4>2. \A i \in 1 .. Len(q) :
           /\ q[i] < Count(s) /\ q[i] # None
           /\ IsFreeMarked(Page(s, q[i]))
           /\ LinkOf(Page(s, q[i]), 2) = IF i = Len(q) THEN None ELSE q[i + 1]
        BY <1>1 DEF FreeLinks
      <4> QED
        BY <1>2, <2>1, <4>1, <4>2
    <3> QED
      BY <1>2, <3>1, <3>2
  <2>3. Reuses(s)
    BY <2>2 DEF Reuses
  <2> DEFINE link == LinkOf(Page(s, q[1]), 2)
             g == SetPage(s, q[1], p)
  <2>4. n = q[1] /\ t = [g EXCEPT !.free = link]
    BY <2>2, <2>3 DEF NewPage, AllocPage
  <2>5. /\ g \in Stores /\ Count(g) = Count(s) /\ g.hint = s.hint
        /\ \A m \in 0 .. Count(s) - 1 : Page(g, m) = IF m = q[1] THEN p ELSE Page(s, m)
    BY <1>2, <2>2, SetPageIs
  <2>6. link \in Nat
    <3>1. Len(q) # 1 => 2 \in 1 .. Len(q)
      BY <2>0, <2>1
    <3>2. Len(q) # 1 => q[2] \in Nat
      BY <1>2, <3>1
    <3> QED
      BY <2>2, <3>2, NoneLink
  <2>7. t = [pages |-> g.pages, hint |-> g.hint, free |-> link]
    <3> HIDE DEF g, link
    <3> QED
      BY <2>4, <2>5, StoreParts
  <2> HIDE DEF t, n, g, link
  <2>8. t \in Stores /\ Count(t) = Count(s) /\ t.hint = s.hint /\ \A m \in 0 .. Count(s) - 1 : Page(t, m) = IF m = q[1] THEN p ELSE Page(s, m)
    <3>1. g.pages \in Seq(PagesW) /\ g.hint \in Nat
      BY <2>5, StoreParts
    <3>2. t \in Stores /\ Count(t) = Count(g) /\ \A m : Page(t, m) = Page(g, m)
      BY <2>6, <2>7, <3>1 DEF Stores, Count, Page
    <3> QED
      BY <2>5, <2>7, <3>2
  <2> DEFINE r == Tail(q)
  <2>9. r \in Seq(Nat) /\ Len(r) = Len(q) - 1 /\ \A i \in 1 .. Len(r) : r[i] = q[i + 1] /\ i + 1 \in 1 .. Len(q)
    BY <1>2, <1>5, <2>1
  <2> HIDE DEF r
  <2>10. \A i \in 1 .. Len(r) : r[i] # q[1] /\ r[i] \in 0 .. Count(s) - 1
    <3> SUFFICES ASSUME NEW i \in 1 .. Len(r) PROVE r[i] # q[1] /\ r[i] \in 0 .. Count(s) - 1
      OBVIOUS
    <3>1. i + 1 \in 1 .. Len(q) /\ r[i] = q[i + 1] /\ i + 1 # 1
      BY <2>9
    <3>2. q[i + 1] # q[1]
      BY <1>1, <2>1, <3>1 DEF FreeLinks
    <3>3. q[i + 1] \in 0 .. Count(s) - 1
      BY <1>1, <1>2, <3>1 DEF FreeLinks
    <3> QED
      BY <3>1, <3>2, <3>3
  <2>11. FreeLinks(t, r)
    <3>1. \A i, j \in 1 .. Len(r) : r[i] = r[j] => i = j
      <4> SUFFICES ASSUME NEW i \in 1 .. Len(r), NEW j \in 1 .. Len(r), r[i] = r[j] PROVE i = j
        OBVIOUS
      <4>1. i + 1 \in 1 .. Len(q) /\ j + 1 \in 1 .. Len(q) /\ q[i + 1] = q[j + 1]
        BY <2>9
      <4>2. i + 1 = j + 1
        BY <1>1, <4>1 DEF FreeLinks
      <4> QED
        BY <4>2, <2>9
    <3>2. ASSUME NEW i \in 1 .. Len(r)
          PROVE  /\ r[i] < Count(t) /\ r[i] # None /\ IsFreeMarked(Page(t, r[i]))
                 /\ LinkOf(Page(t, r[i]), 2) = IF i = Len(r) THEN None ELSE r[i + 1]
      <4>1. i + 1 \in 1 .. Len(q) /\ r[i] = q[i + 1] /\ Page(t, r[i]) = Page(s, q[i + 1])
        BY <2>8, <2>9, <2>10
      <4>2. /\ q[i + 1] < Count(s) /\ q[i + 1] # None /\ IsFreeMarked(Page(s, q[i + 1]))
            /\ LinkOf(Page(s, q[i + 1]), 2) = IF i + 1 = Len(q) THEN None ELSE q[i + 2]
        BY <1>1, <4>1 DEF FreeLinks
      <4>3. (i = Len(r) <=> i + 1 = Len(q)) /\ (i # Len(r) => i + 1 \in 1 .. Len(r) /\ r[i + 1] = q[i + 2])
        <5>1. Len(r) = Len(q) - 1 /\ Len(q) \in Nat
          BY <1>2, <2>9
        <5>2. i # Len(r) => i + 1 \in 1 .. Len(r)
          BY <5>1
        <5>3. i # Len(r) => r[i + 1] = q[(i + 1) + 1]
          BY <2>9, <5>2
        <5> QED
          BY <5>1, <5>2, <5>3
      <4> QED
        BY <2>8, <4>1, <4>2, <4>3
    <3>3. t.free = IF r = <<>> THEN None ELSE r[1]
      <4>1. CASE Len(q) = 1
        BY <2>2, <2>7, <2>9, <4>1 DEF link
      <4>2. CASE Len(q) # 1
        <5>1. r # <<>> /\ r[1] = q[2]
          BY <2>1, <2>9, <4>2
        <5> QED
          BY <2>2, <2>7, <4>2, <5>1 DEF link
      <4> QED
        BY <4>1, <4>2
    <3> QED
      BY <2>9, <3>1, <3>2, <3>3 DEF FreeLinks
  <2>12. n \notin U
    BY <1>1, <2>1, <2>2, <2>4 DEF Splits
  <2>13. Splits(t, U \cup {n}, r)
    <3>1. U \cup {n} \subseteq 0 .. Count(t) - 1
      BY <1>1, <2>2, <2>4, <2>8 DEF Splits
    <3>2. ASSUME NEW l \in 0 .. Count(t) - 1 PROVE l \in U \cup {n} <=> \A i \in 1 .. Len(r) : r[i] # l
      <4>1. CASE l = n
        BY <2>4, <2>10, <4>1
      <4>2. CASE l # n
        <5>1. l \in U <=> \A i \in 1 .. Len(q) : q[i] # l
          BY <1>1, <2>8 DEF Splits
        <5>2. (\A i \in 1 .. Len(q) : q[i] # l) => \A i \in 1 .. Len(r) : r[i] # l
          BY <2>9
        <5>3. ASSUME \A i \in 1 .. Len(r) : r[i] # l, NEW i \in 1 .. Len(q) PROVE q[i] # l
          <6>1. CASE i = 1
            BY <2>4, <4>2, <6>1
          <6>2. CASE i # 1
            <7>1. i - 1 \in 1 .. Len(r) /\ (i - 1) + 1 = i
              BY <1>2, <2>9, <6>2
            <7> QED
              BY <2>9, <5>3, <7>1
          <6> QED
            BY <6>1, <6>2
        <5> QED
          BY <4>2, <5>1, <5>2, <5>3
      <4> QED
        BY <4>1, <4>2
    <3> QED
      BY <3>1, <3>2 DEF Splits
  <2> QED
    BY <1>2, <2>2, <2>4, <2>8, <2>11, <2>12, <2>13 DEF t, n, Pool
<1> QED
  BY <1>4, <1>5

LEMMA TwoPairs ==
    ASSUME NEW a \in Seq(Nat), NEW b \in Seq(Nat), Len(a) = 2, Len(b) = 2
    PROVE  /\ a \o b \in Seq(Nat) /\ Len(a \o b) = 4
           /\ (a \o b)[1] = a[1] /\ (a \o b)[2] = a[2] /\ (a \o b)[3] = b[1] /\ (a \o b)[4] = b[2]
<1>1. a \o b \in Seq(Nat) /\ Len(a \o b) = 4 /\ \A i \in 1 .. 4 : (a \o b)[i] = IF i <= 2 THEN a[i] ELSE b[i - 2]
  <2>1. /\ a \o b \in Seq(Nat) /\ Len(a \o b) = Len(a) + Len(b)
        /\ \A i \in 1 .. Len(a) + Len(b) : (a \o b)[i] = IF i <= Len(a) THEN a[i] ELSE b[i - Len(a)]
    BY ConcatProperties, Zenon
  <2> QED
    BY <2>1
<1>2. 3 - 2 = 1 /\ 4 - 2 = 2
  OBVIOUS
<1> QED
  BY <1>1, <1>2

\* A free page carries the marker and the link.
LEMMA FreedPage ==
    ASSUME NEW n \in Nat
    PROVE  LET p == Overwrite(Blank, 0, <<Marker, 0>> \o Link(n))
           IN  p \in PagesW /\ IsFreeMarked(p) /\ LinkOf(p, 2) = n
<1> DEFINE words == <<Marker, 0>> \o Link(n)
           p == Overwrite(Blank, 0, words)
<1>1. /\ words \in Seq(Nat) /\ Len(words) = 4
      /\ words[1] = Marker /\ words[3] = Link(n)[1] /\ words[4] = Link(n)[2]
  <2>1. Link(n) \in Seq(Nat) /\ Len(Link(n)) = 2
    BY Linked
  <2>2. <<Marker, 0>> \in Seq(Nat) /\ Len(<<Marker, 0>>) = 2 /\ <<Marker, 0>>[1] = Marker
    BY NoneLink
  <2> QED
    BY <2>1, <2>2, TwoPairs
<1> HIDE DEF words
<1>2. W \in Nat /\ 0 + Len(words) <= W /\ 0 \in Nat /\ W > 4
  BY <1>1, WidthAssumption
<1>3. /\ p \in PagesW
      /\ \A i \in 0 .. W - 1 : p[i] = IF i \in 0 .. 0 + Len(words) - 1 THEN words[i - 0 + 1] ELSE Blank[i]
  BY <1>1, <1>2, BlankPage, OverwriteIs
<1> HIDE DEF p
<1>4. p[0] = words[1] /\ p[2] = words[3] /\ p[3] = words[4]
  BY <1>1, <1>2, <1>3
<1>5. IsFreeMarked(p) /\ LinkOf(p, 2) = n
  <2>1. Link(n)[1] + Base * Link(n)[2] = n
    BY Linked
  <2>2. LinkOf(p, 2) = p[2] + Base * p[2 + 1]
    BY DEF LinkOf
  <2>3. 2 + 1 = 3
    OBVIOUS
  <2> QED
    BY <1>1, <1>4, <2>1, <2>2, <2>3 DEF IsFreeMarked
<1> QED
  BY <1>3, <1>5 DEF p, words

\* A page in use is freed: it is the first of the free list.
LEMMA FreePool ==
    ASSUME NEW s, NEW U, Pool(s, U), NEW l \in U, l # None
    PROVE  /\ Count(FreePage(s, l)) = Count(s) /\ FreePage(s, l).hint = s.hint
           /\ \A m \in 0 .. Count(s) - 1 : m # l => Page(FreePage(s, l), m) = Page(s, m)
           /\ Pool(FreePage(s, l), U \ {l})
<1> DEFINE t == FreePage(s, l)
           p == Overwrite(Blank, 0, <<Marker, 0>> \o Link(s.free))
           g == SetPage(s, l, p)
<1>1. PICK q : FreeLinks(s, q) /\ Splits(s, U, q)
  BY DEF Pool
<1>2. s \in Stores /\ q \in Seq(Nat) /\ Count(s) \in Nat /\ Len(q) \in Nat /\ s.free \in Nat /\ s.hint \in Nat
  BY <1>1, StoreParts DEF Pool, FreeLinks
<1>3. l \in 0 .. Count(s) - 1
  BY <1>1 DEF Splits
<1>4. p \in PagesW /\ IsFreeMarked(p) /\ LinkOf(p, 2) = s.free
  BY <1>2, FreedPage
<1>5. t = [g EXCEPT !.free = l]
  BY DEF FreePage
<1> HIDE DEF t, p
<1>6. /\ g \in Stores /\ Count(g) = Count(s) /\ g.hint = s.hint
      /\ \A m \in 0 .. Count(s) - 1 : Page(g, m) = IF m = l THEN p ELSE Page(s, m)
  BY <1>2, <1>3, <1>4, SetPageIs
<1> HIDE DEF g
<1>7. t = [pages |-> g.pages, hint |-> g.hint, free |-> l]
  BY <1>5, <1>6, StoreParts
<1>8. t \in Stores /\ Count(t) = Count(s) /\ t.hint = s.hint /\ \A m \in 0 .. Count(s) - 1 : Page(t, m) = IF m = l THEN p ELSE Page(s, m)
  <2>1. g.pages \in Seq(PagesW) /\ g.hint \in Nat
    BY <1>6, StoreParts
  <2>2. t \in Stores /\ Count(t) = Count(g) /\ \A m : Page(t, m) = Page(g, m)
    BY <1>3, <1>7, <2>1 DEF Stores, Count, Page
  <2> QED
    BY <1>6, <1>7, <2>2
<1> DEFINE r == <<l>> \o q
<1>9. r \in Seq(Nat) /\ Len(r) = Len(q) + 1 /\ r[1] = l /\ \A i \in 2 .. Len(r) : i - 1 \in 1 .. Len(q) /\ r[i] = q[i - 1]
  BY <1>2, <1>3
<1> HIDE DEF r
<1>10. \A i \in 1 .. Len(q) : q[i] # l /\ q[i] \in 0 .. Count(s) - 1
  <2>1. \A i \in 1 .. Len(q) : q[i] # l
    BY <1>1, <1>3 DEF Splits
  <2>2. \A i \in 1 .. Len(q) : q[i] < Count(s)
    BY <1>1 DEF FreeLinks
  <2> QED
    BY <1>2, <2>1, <2>2
<1>11. FreeLinks(t, r)
  <2>1. \A i, j \in 1 .. Len(r) : r[i] = r[j] => i = j
    <3> SUFFICES ASSUME NEW i \in 1 .. Len(r), NEW j \in 1 .. Len(r), r[i] = r[j] PROVE i = j
      OBVIOUS
    <3>1. CASE i = 1 \/ j = 1
      <4>1. (i = 1 \/ i \in 2 .. Len(r)) /\ (j = 1 \/ j \in 2 .. Len(r))
        BY <1>9
      <4> QED
        BY <1>9, <1>10, <3>1, <4>1
    <3>2. CASE i # 1 /\ j # 1
      <4>1. i \in 2 .. Len(r) /\ j \in 2 .. Len(r)
        BY <3>2
      <4>2. i - 1 \in 1 .. Len(q) /\ j - 1 \in 1 .. Len(q) /\ q[i - 1] = q[j - 1]
        BY <1>9, <4>1
      <4>3. i - 1 = j - 1
        BY <1>1, <4>2 DEF FreeLinks
      <4> QED
        BY <4>1, <4>3
    <3> QED
      BY <3>1, <3>2
  <2>2. ASSUME NEW i \in 1 .. Len(r)
        PROVE  /\ r[i] < Count(t) /\ r[i] # None /\ IsFreeMarked(Page(t, r[i]))
               /\ LinkOf(Page(t, r[i]), 2) = IF i = Len(r) THEN None ELSE r[i + 1]
    <3>1. CASE i = 1
      <4>1. Page(t, l) = p
        BY <1>3, <1>8
      <4>2. s.free = IF q = <<>> THEN None ELSE q[1]
        BY <1>1 DEF FreeLinks
      <4>3. q = <<>> => Len(r) = 1
        BY <1>9
      <4>4. q # <<>> => 2 \in 2 .. Len(r) /\ r[2] = q[1] /\ Len(r) # 1
        <5>1. q # <<>> => Len(q) # 0
          BY <1>2
        <5>2. Len(q) # 0 => 2 \in 2 .. Len(r)
          BY <1>2, <1>9
        <5>3. 2 \in 2 .. Len(r) => r[2] = q[2 - 1] /\ Len(r) # 1
          BY <1>9
        <5> QED
          BY <5>1, <5>2, <5>3
      <4>5. s.free = IF 1 = Len(r) THEN None ELSE r[1 + 1]
        BY <4>2, <4>3, <4>4
      <4> QED
        <5>1. r[i] = l /\ Page(t, r[i]) = p /\ l < Count(t)
          BY <1>2, <1>3, <1>8, <1>9, <3>1, <4>1
        <5>2. LinkOf(Page(t, r[i]), 2) = IF i = Len(r) THEN None ELSE r[i + 1]
          BY <1>4, <3>1, <4>5, <5>1
        <5> QED
          BY <1>4, <5>1, <5>2
    <3>2. CASE i # 1
      <4>1. i \in 2 .. Len(r)
        BY <3>2
      <4>2. i - 1 \in 1 .. Len(q) /\ r[i] = q[i - 1]
        BY <1>9, <4>1
      <4>3. Page(t, r[i]) = Page(s, q[i - 1])
        BY <1>8, <1>10, <4>2
      <4>4. /\ q[i - 1] < Count(s) /\ q[i - 1] # None /\ IsFreeMarked(Page(s, q[i - 1]))
            /\ LinkOf(Page(s, q[i - 1]), 2) = IF i - 1 = Len(q) THEN None ELSE q[(i - 1) + 1]
        BY <1>1, <4>2 DEF FreeLinks
      <4>5. (i - 1) + 1 = i /\ (i - 1 = Len(q) <=> i = Len(r))
        BY <1>2, <1>9
      <4>6. i # Len(r) => r[i + 1] = q[i]
        <5>1. i # Len(r) => i + 1 \in 2 .. Len(r)
          BY <1>2, <1>9
        <5>2. (i + 1) - 1 = i
          OBVIOUS
        <5> QED
          BY <1>9, <5>1, <5>2
      <4> QED
        BY <1>8, <4>2, <4>3, <4>4, <4>5, <4>6
    <3> QED
      BY <3>1, <3>2
  <2>3. r # <<>> /\ t.free = r[1]
    BY <1>2, <1>7, <1>9
  <2> QED
    BY <1>9, <2>1, <2>2, <2>3 DEF FreeLinks
<1>12. Splits(t, U \ {l}, r)
  <2>1. U \ {l} \subseteq 0 .. Count(t) - 1
    BY <1>1, <1>8 DEF Splits
  <2>2. ASSUME NEW m \in 0 .. Count(t) - 1 PROVE m \in U \ {l} <=> \A i \in 1 .. Len(r) : r[i] # m
    <3>1. m \in U <=> \A i \in 1 .. Len(q) : q[i] # m
      BY <1>1, <1>8 DEF Splits
    <3>2. ASSUME \A i \in 1 .. Len(r) : r[i] # m PROVE m # l /\ \A i \in 1 .. Len(q) : q[i] # m
      <4>1. 1 \in 1 .. Len(r)
        BY <1>2, <1>9
      <4>2. ASSUME NEW i \in 1 .. Len(q) PROVE q[i] # m
        <5>1. i + 1 \in 2 .. Len(r) /\ i + 1 \in 1 .. Len(r) /\ (i + 1) - 1 = i
          BY <1>2, <1>9
        <5> QED
          BY <1>9, <3>2, <5>1
      <4>3. r[1] # m
        BY <3>2, <4>1
      <4> QED
        BY <1>9, <4>2, <4>3
    <3>3. ASSUME m # l, \A i \in 1 .. Len(q) : q[i] # m, NEW i \in 1 .. Len(r) PROVE r[i] # m
      <4>1. i = 1 \/ i \in 2 .. Len(r)
        OBVIOUS
      <4> QED
        BY <1>9, <3>3, <4>1
    <3> QED
      BY <3>1, <3>2, <3>3
  <2> QED
    BY <2>1, <2>2 DEF Splits
<1> QED
  BY <1>8, <1>11, <1>12 DEF t, Pool

-----------------------------------------------------------------------------
\* Shelves: pages with slots.

\* Slot i of p holds the words b.
Filled(p, i, b) ==
    /\ DirEnd(p) - 2 <= Offset(p, i) /\ Offset(p, i) + Length(p, i) <= W
    /\ b \in Seq(Nat) /\ Length(p, i) = Len(b)
    /\ ReadWords(p, Offset(p, i), Length(p, i)) = b

\* The live slots of p and what they hold are D.
Shelf(p, D) ==
    /\ p \in PagesW
    /\ DOMAIN D \subseteq Slots(p)
    /\ DirEnd(p) - 2 <= W
    /\ p[1] = Cardinality(DOMAIN D)
    /\ DOMAIN D = {} => p[0] = 0
    /\ \A i \in Slots(p) : IF i \in DOMAIN D THEN Filled(p, i, D[i]) ELSE Offset(p, i) = Marker

LEMMA PageNumbers ==
    ASSUME NEW p \in PagesW
    PROVE  /\ p[0] \in Nat /\ p[1] \in Nat /\ DOMAIN p = 0 .. W - 1
           /\ \A i \in 0 .. W - 1 : p[i] \in Nat
           /\ DirEnd(p) \in Nat /\ DirEnd(p) = 4 + 2 * p[0] /\ Slots(p) = 0 .. p[0] - 1
           /\ DirEnd(p) - 2 <= W => \A i \in Slots(p) : Offset(p, i) \in Nat /\ Length(p, i) \in Nat
<1>1. p[0] \in Nat /\ p[1] \in Nat /\ DOMAIN p = 0 .. W - 1 /\ \A i \in 0 .. W - 1 : p[i] \in Nat
  BY WidthAssumption DEF PagesW
<1>2. ASSUME DirEnd(p) - 2 <= W, NEW i \in Slots(p) PROVE 2 + 2 * i \in 0 .. W - 1 /\ 3 + 2 * i \in 0 .. W - 1
  BY <1>1, <1>2, WidthAssumption DEF DirEnd, Slots
<1> QED
  BY <1>1, <1>2 DEF DirEnd, Slots, Offset, Length

\* Values that a slot holds are read from it.
LEMMA ShelfParts ==
    ASSUME NEW p, NEW D, Shelf(p, D)
    PROVE  /\ \A i \in DOMAIN D : Filled(p, i, D[i]) /\ i \in Slots(p) /\ Offset(p, i) # Marker
                                 /\ Offset(p, i) \in Nat /\ Length(p, i) \in Nat
           /\ IsFiniteSet(DOMAIN D) /\ Cardinality(DOMAIN D) \in Nat
           /\ DOMAIN D = {} <=> p[1] = 0
           /\ IsValid(p) /\ ~ IsFreeMarked(p)
<1>1. /\ p \in PagesW /\ p[0] \in Nat /\ p[1] \in Nat /\ DirEnd(p) = 4 + 2 * p[0] /\ Slots(p) = 0 .. p[0] - 1
      /\ \A i \in Slots(p) : Offset(p, i) \in Nat /\ Length(p, i) \in Nat
  BY PageNumbers DEF Shelf
<1>2. IsFiniteSet(DOMAIN D)
  <2>1. IsFiniteSet(0 .. p[0] - 1)
    BY <1>1, FS_Interval
  <2> QED
    BY <1>1, <2>1, FS_Subset DEF Shelf
<1>3. Cardinality(DOMAIN D) \in Nat /\ (DOMAIN D = {} <=> p[1] = 0)
  BY <1>2, FS_CardinalityType, FS_EmptySet DEF Shelf
<1>4. ASSUME NEW i \in DOMAIN D PROVE Filled(p, i, D[i]) /\ i \in Slots(p) /\ Offset(p, i) # Marker
  <2>1. Filled(p, i, D[i]) /\ i \in Slots(p)
    BY DEF Shelf
  <2>2. Offset(p, i) <= W
    BY <1>1, <2>1, WidthAssumption DEF Filled
  <2> QED
    BY <1>1, <2>1, <2>2, NoneLink, WidthAssumption
<1>5. p[0] # Marker /\ 2 + 2 * p[0] <= W
  BY <1>1, NoneLink, WidthAssumption DEF Shelf
<1>6. \A i \in Slots(p) : Offset(p, i) = Marker \/ Offset(p, i) + Length(p, i) <= W
  <2> SUFFICES ASSUME NEW i \in Slots(p) PROVE Offset(p, i) = Marker \/ Offset(p, i) + Length(p, i) <= W
    OBVIOUS
  <2>1. CASE i \in DOMAIN D
    BY <1>4, <2>1 DEF Filled
  <2>2. CASE i \notin DOMAIN D
    BY <2>2 DEF Shelf
  <2> QED
    BY <2>1, <2>2
<1>7. IsValid(p) /\ ~ IsFreeMarked(p)
  BY <1>5, <1>6 DEF IsValid, IsFreeMarked
<1> QED
  BY <1>1, <1>2, <1>3, <1>4, <1>7

\* No data lies below the end of the data.
LEMMA DataEndIs ==
    ASSUME NEW p, NEW D, Shelf(p, D)
    PROVE  DataEnd(p) \in Nat /\ DataEnd(p) <= W /\ \A i \in DOMAIN D : DataEnd(p) <= Offset(p, i)
<1>1. /\ p \in PagesW /\ p[0] \in Nat /\ Slots(p) = 0 .. p[0] - 1 /\ DOMAIN D \subseteq Slots(p)
      /\ \A i \in Slots(p) : Offset(p, i) \in Nat /\ Length(p, i) \in Nat
  BY PageNumbers DEF Shelf
<1>2. CASE DOMAIN D = {}
  BY <1>1, <1>2, WidthAssumption DEF DataEnd, Shelf
<1>3. CASE DOMAIN D # {}
  <2> DEFINE S == {Offset(p, i) : i \in Slots(p)}
  <2>1. p[0] # 0 /\ S \in SUBSET Nat /\ S # {}
    BY <1>1, <1>3
  <2>2. DataEnd(p) = Least(S)
    BY <2>1 DEF DataEnd
  <2>3. \A i \in DOMAIN D : Offset(p, i) \in S
    BY <1>1
  <2> HIDE DEF S
  <2>4. Least(S) \in S /\ \A y \in S : Least(S) <= y
    BY <2>1, LeastIs
  <2>5. PICK j \in DOMAIN D : TRUE
    BY <1>3
  <2>6. Offset(p, j) <= W /\ Offset(p, j) \in Nat
    <3>1. Offset(p, j) \in Nat /\ Length(p, j) \in Nat /\ Offset(p, j) + Length(p, j) <= W
      BY <1>1, <2>5, ShelfParts DEF Filled
    <3> QED
      BY <3>1, WidthAssumption
  <2>7. Least(S) \in Nat
    BY <2>1, <2>4
  <2>8. Least(S) <= Offset(p, j)
    BY <2>3, <2>4, <2>5
  <2>9. Least(S) <= W
    BY <2>6, <2>7, <2>8, WidthAssumption
  <2> QED
    BY <2>2, <2>3, <2>4, <2>7, <2>9
<1> QED
  BY <1>2, <1>3

\* The words of a page with one more value.
LEMMA WriteSlotWords ==
    ASSUME NEW p, NEW D, Shelf(p, D), NEW b \in Seq(Nat), Fits(p, Len(b)), NEW at, at = DataEnd(p) - Len(b)
    PROVE  /\ WriteSlot(p, b) \in PagesW
           /\ at \in Nat /\ DirEnd(p) <= at /\ at + Len(b) = DataEnd(p)
           /\ \A i \in 0 .. W - 1 : WriteSlot(p, b)[i] =
                  IF i = 0 THEN p[0] + 1 ELSE IF i = 1 THEN p[1] + 1
                  ELSE IF i = 2 + 2 * p[0] THEN at ELSE IF i = 3 + 2 * p[0] THEN Len(b)
                  ELSE IF i \in at .. DataEnd(p) - 1 THEN b[i - at + 1] ELSE p[i]
<1>1. /\ p \in PagesW /\ p[0] \in Nat /\ p[1] \in Nat /\ DirEnd(p) = 4 + 2 * p[0]
  BY PageNumbers DEF Shelf
<1>2. DataEnd(p) \in Nat /\ DataEnd(p) <= W /\ Len(b) \in Nat /\ DirEnd(p) + Len(b) <= DataEnd(p)
  BY DataEndIs DEF Fits
<1>3. at \in Nat /\ DirEnd(p) <= at /\ at + Len(b) = DataEnd(p) /\ at + Len(b) <= W
  BY <1>1, <1>2, WidthAssumption
<1> DEFINE q == Overwrite(p, at, b)
           r == Overwrite(q, 2 + 2 * p[0], <<at, Len(b)>>)
<1>4. WriteSlot(p, b) = Overwrite(r, 0, <<p[0] + 1, p[1] + 1>>)
  BY DEF WriteSlot
<1>5. /\ q \in PagesW
      /\ \A i \in 0 .. W - 1 : q[i] = IF i \in at .. at + Len(b) - 1 THEN b[i - at + 1] ELSE p[i]
  BY <1>1, <1>3, OverwriteIs
<1>8. 2 + 2 * p[0] \in Nat /\ 2 + 2 * p[0] + 2 <= W
  <2> DEFINE n == p[0]
             e == DirEnd(p)
             m == Len(b)
  <2>1. n \in Nat /\ e = 4 + 2 * n /\ e <= at /\ at + m <= W /\ m \in Nat /\ at \in Nat /\ W \in Nat
    BY <1>1, <1>2, <1>3, WidthAssumption
  <2> HIDE DEF n, e, m
  <2>2. 2 + 2 * n \in Nat /\ 2 + 2 * n + 2 <= W
    BY <2>1
  <2> QED
    BY <2>2 DEF n
<1> HIDE DEF q
<1>9. /\ r \in PagesW
      /\ \A i \in 0 .. W - 1 : r[i] = IF i = 2 + 2 * p[0] THEN at ELSE IF i = 2 + 2 * p[0] + 1 THEN Len(b) ELSE q[i]
  <2> DEFINE k == 2 + 2 * p[0]
             m == Len(b)
  <2>1. k \in Nat /\ k + 2 <= W /\ m \in Nat /\ at \in Nat /\ q \in PagesW
    BY <1>2, <1>3, <1>5, <1>8
  <2>2. r = Overwrite(q, k, <<at, m>>)
    OBVIOUS
  <2> HIDE DEF k, m, r
  <2>3. /\ r \in PagesW
        /\ \A i \in 0 .. W - 1 : r[i] = IF i = k THEN at ELSE IF i = k + 1 THEN m ELSE q[i]
    BY <2>1, <2>2, OverwriteTwo
  <2> QED
    BY <2>3 DEF k, m
<1> HIDE DEF r
<1>10. 0 + 2 <= W /\ 0 \in Nat /\ p[0] + 1 \in Nat /\ p[1] + 1 \in Nat
  BY <1>1, WidthAssumption
<1>11. /\ WriteSlot(p, b) \in PagesW
       /\ \A i \in 0 .. W - 1 : WriteSlot(p, b)[i] = IF i = 0 THEN p[0] + 1 ELSE IF i = 0 + 1 THEN p[1] + 1 ELSE r[i]
  BY <1>4, <1>9, <1>10, OverwriteTwo
<1>12. ASSUME NEW i \in 0 .. W - 1
       PROVE  WriteSlot(p, b)[i] =
                  IF i = 0 THEN p[0] + 1 ELSE IF i = 1 THEN p[1] + 1
                  ELSE IF i = 2 + 2 * p[0] THEN at ELSE IF i = 3 + 2 * p[0] THEN Len(b)
                  ELSE IF i \in at .. DataEnd(p) - 1 THEN b[i - at + 1] ELSE p[i]
  <2>1. WriteSlot(p, b)[i] = IF i = 0 THEN p[0] + 1 ELSE IF i = 1 THEN p[1] + 1 ELSE r[i]
    BY <1>11
  <2>2. r[i] = IF i = 2 + 2 * p[0] THEN at ELSE IF i = 3 + 2 * p[0] THEN Len(b) ELSE q[i]
    <3>1. 2 + 2 * p[0] + 1 = 3 + 2 * p[0]
      BY <1>1
    <3> QED
      BY <1>9, <3>1
  <2>3. q[i] = IF i \in at .. DataEnd(p) - 1 THEN b[i - at + 1] ELSE p[i]
    BY <1>3, <1>5
  <2> QED
    BY <2>1, <2>2, <2>3
<1> QED
  BY <1>3, <1>11, <1>12

\* A slot whose words are the same holds the same.
LEMMA FilledKept ==
    ASSUME NEW p \in PagesW, NEW q \in PagesW, NEW i \in Nat, NEW b, Filled(p, i, b),
           Offset(p, i) \in Nat, Length(p, i) \in Nat,
           Offset(q, i) = Offset(p, i), Length(q, i) = Length(p, i), DirEnd(q) - 2 <= Offset(p, i),
           \A m \in Offset(p, i) .. W - 1 : q[m] = p[m]
    PROVE  Filled(q, i, b)
<1> DEFINE o == Offset(p, i)
           n == Length(p, i)
<1>1. o \in Nat /\ n \in Nat /\ o + n <= W /\ W \in Nat
  BY WidthAssumption DEF Filled
<1>2. \A k \in 1 .. n : o + k - 1 \in o .. W - 1
  BY <1>1
<1>3. \A k \in 1 .. n : q[o + k - 1] = p[o + k - 1]
  BY <1>2
<1>4. ReadWords(q, o, n) = ReadWords(p, o, n)
  BY <1>3 DEF ReadWords
<1> QED
  BY <1>4 DEF Filled

With(D, i, b) == [j \in DOMAIN D \cup {i} |-> IF j = i THEN b ELSE D[j]]
Without(D, i) == [j \in DOMAIN D \ {i} |-> D[j]]

\* WriteSlot puts a value on the shelf.
LEMMA ShelfWritten ==
    ASSUME NEW p, NEW D, Shelf(p, D), NEW b \in Seq(Nat), Fits(p, Len(b))
    PROVE  Shelf(WriteSlot(p, b), With(D, p[0], b)) /\ p[0] \in Nat /\ p[0] \notin DOMAIN D /\ p[0] # Marker
<1> DEFINE q == WriteSlot(p, b)
           n == p[0]
           at == DataEnd(p) - Len(b)
           C == With(D, n, b)
<1>1. /\ p \in PagesW /\ n \in Nat /\ p[1] \in Nat /\ DirEnd(p) = 4 + 2 * n /\ Slots(p) = 0 .. n - 1
      /\ \A i \in Slots(p) : Offset(p, i) \in Nat /\ Length(p, i) \in Nat
  BY PageNumbers DEF Shelf
<1>2. /\ q \in PagesW
      /\ at \in Nat /\ DirEnd(p) <= at /\ at + Len(b) = DataEnd(p)
      /\ \A i \in 0 .. W - 1 : q[i] =
             IF i = 0 THEN n + 1 ELSE IF i = 1 THEN p[1] + 1
             ELSE IF i = 2 + 2 * n THEN at ELSE IF i = 3 + 2 * n THEN Len(b)
             ELSE IF i \in at .. DataEnd(p) - 1 THEN b[i - at + 1] ELSE p[i]
  BY WriteSlotWords
<1>3. DataEnd(p) \in Nat /\ DataEnd(p) <= W /\ (\A i \in DOMAIN D : DataEnd(p) <= Offset(p, i)) /\ Len(b) \in Nat /\ W \in Nat
  BY DataEndIs, WidthAssumption
<1> HIDE DEF q, at
<1> DEFINE e == DataEnd(p)
           m == Len(b)
<1>4. n \in Nat /\ at \in Nat /\ e \in Nat /\ m \in Nat /\ W \in Nat /\ 4 + 2 * n <= at /\ at + m = e /\ e <= W
  BY <1>1, <1>2, <1>3
<1>5. q[0] = n + 1 /\ q[1] = p[1] + 1 /\ q[2 + 2 * n] = at /\ q[3 + 2 * n] = m
  <2>1. 0 \in 0 .. W - 1 /\ 1 \in 0 .. W - 1 /\ 2 + 2 * n \in 0 .. W - 1 /\ 3 + 2 * n \in 0 .. W - 1
    <3> HIDE DEF n, e, m
    <3> QED
      BY <1>4, WidthAssumption
  <2>2. 2 + 2 * n # 0 /\ 2 + 2 * n # 1 /\ 3 + 2 * n # 0 /\ 3 + 2 * n # 1 /\ 3 + 2 * n # 2 + 2 * n
    BY <1>4
  <2> DEFINE x == 2 + 2 * n
             y == 3 + 2 * n
  <2>3. /\ x \in 0 .. W - 1 /\ y \in 0 .. W - 1 /\ x # 0 /\ x # 1 /\ y # 0 /\ y # 1 /\ y # x
        /\ \A i \in 0 .. W - 1 : q[i] =
             IF i = 0 THEN n + 1 ELSE IF i = 1 THEN p[1] + 1
             ELSE IF i = x THEN at ELSE IF i = y THEN Len(b)
             ELSE IF i \in at .. DataEnd(p) - 1 THEN b[i - at + 1] ELSE p[i]
    BY <1>2, <2>1, <2>2
  <2> HIDE DEF x, y
  <2>4. q[0] = n + 1 /\ q[1] = p[1] + 1 /\ q[x] = at /\ q[y] = m
    <3>1. q[0] = n + 1
      BY <2>1, <2>3
    <3>2. q[1] = p[1] + 1
      <4>1. 1 # 0
        OBVIOUS
      <4>2. 1 \in 0 .. W - 1 => q[1] = IF 1 = 0 THEN n + 1 ELSE p[1] + 1
        BY <2>3
      <4> QED
        BY <2>1, <4>1, <4>2
    <3>3. q[x] = at
      BY <2>3
    <3>4. q[y] = m
      BY <2>3
    <3> QED
      BY <3>1, <3>2, <3>3, <3>4
  <2> QED
    BY <2>4 DEF x, y
<1>6. DirEnd(q) = 6 + 2 * n /\ Slots(q) = 0 .. n
  <2>1. q[0] = n + 1 /\ n \in Nat
    BY <1>4, <1>5
  <2> HIDE DEF n
  <2>2. n + 1 - 1 = n /\ 4 + 2 * (n + 1) = 6 + 2 * n
    BY <2>1
  <2>3. DirEnd(q) = 4 + 2 * (n + 1) /\ Slots(q) = 0 .. (n + 1) - 1
    BY <2>1 DEF DirEnd, Slots
  <2> QED
    BY <2>1, <2>2, <2>3
<1>7. n \notin DOMAIN D /\ DOMAIN D \subseteq Slots(p)
  BY <1>1 DEF Shelf
<1>8. DOMAIN C = DOMAIN D \cup {n} /\ C[n] = b /\ \A i \in DOMAIN D : C[i] = D[i]
  BY <1>7 DEF With
<1> HIDE DEF C
<1>9. DOMAIN C \subseteq Slots(q)
  BY <1>1, <1>6, <1>7, <1>8
<1>10. DirEnd(q) - 2 <= W
  BY <1>4, <1>6
<1>11. q[1] = Cardinality(DOMAIN C)
  <2>1. IsFiniteSet(DOMAIN D) /\ p[1] = Cardinality(DOMAIN D)
    BY ShelfParts DEF Shelf
  <2>2. Cardinality(DOMAIN D \cup {n}) = Cardinality(DOMAIN D) + 1
    BY <1>7, <2>1, FS_AddElement
  <2> QED
    BY <1>5, <1>8, <2>1, <2>2
<1>12. \A i \in 0 .. n - 1 : Offset(q, i) = Offset(p, i) /\ Length(q, i) = Length(p, i)
  <2> SUFFICES ASSUME NEW i \in 0 .. n - 1 PROVE q[2 + 2 * i] = p[2 + 2 * i] /\ q[3 + 2 * i] = p[3 + 2 * i]
    BY DEF Offset, Length
  <2>1. 2 + 2 * i \in 2 .. 2 * n /\ 3 + 2 * i \in 2 .. 1 + 2 * n
    BY <1>4
  <2>2. \A k \in 2 .. 1 + 2 * n : k \in 0 .. W - 1 /\ k \notin at .. e - 1 /\ k # 2 + 2 * n /\ k # 3 + 2 * n
    <3> HIDE DEF n, e, m
    <3> QED
      BY <1>4
  <2>3. \A k \in 2 .. 1 + 2 * n : q[k] = p[k]
    BY <1>2, <2>2
  <2>4. 2 + 2 * i \in 2 .. 1 + 2 * n
    BY <1>4, <2>1
  <2> QED
    BY <2>1, <2>3, <2>4
<1>13. \A k \in e .. W - 1 : q[k] = p[k]
  <2>1. \A k \in e .. W - 1 : k \in 0 .. W - 1 /\ k \notin at .. e - 1 /\ k # 2 + 2 * n /\ k # 3 + 2 * n /\ k # 0 /\ k # 1
    <3> HIDE DEF n, e, m
    <3> QED
      BY <1>4
  <2> QED
    BY <1>2, <2>1
<1>14. ASSUME NEW i \in Slots(q) PROVE IF i \in DOMAIN C THEN Filled(q, i, C[i]) ELSE Offset(q, i) = Marker
  <2>1. CASE i = n
    <3>1. Offset(q, i) = at /\ Length(q, i) = m
      BY <1>5, <2>1 DEF Offset, Length
    <3>2. at + m <= W /\ DirEnd(q) - 2 <= at
      BY <1>4, <1>6
    <3>3. ReadWords(q, at, m) = b
      <4>1. \A k \in 1 .. m : q[at + k - 1] = b[k]
        <5> SUFFICES ASSUME NEW k \in 1 .. m PROVE q[at + k - 1] = b[k]
          OBVIOUS
        <5> DEFINE j == at + k - 1
        <5>1. j \in 0 .. W - 1 /\ j \in at .. e - 1 /\ j # 0 /\ j # 1 /\ j # 2 + 2 * n /\ j # 3 + 2 * n /\ j - at + 1 = k
          <6> HIDE DEF n, e, m
          <6> QED
            BY <1>4
        <5> HIDE DEF j
        <5>2. q[j] = b[j - at + 1]
          BY <1>2, <5>1
        <5> QED
          BY <5>1, <5>2 DEF j
      <4>2. b = [k \in 1 .. m |-> b[k]]
        OBVIOUS
      <4>3. ReadWords(q, at, m) = [k \in 1 .. m |-> b[k]]
        BY <4>1 DEF ReadWords
      <4> QED
        BY <4>2, <4>3
    <3>4. Filled(q, i, b)
      BY <3>1, <3>2, <3>3 DEF Filled
    <3> QED
      BY <1>8, <2>1, <3>4
  <2>2. CASE i # n
    <3>1. i \in Slots(p) /\ i \in 0 .. n - 1 /\ i \in Nat
      BY <1>1, <1>6, <2>2
    <3>2. Offset(q, i) = Offset(p, i) /\ Length(q, i) = Length(p, i) /\ Offset(p, i) \in Nat /\ Length(p, i) \in Nat
      BY <1>1, <1>12, <3>1
    <3>3. CASE i \in DOMAIN D
      <4>1. Filled(p, i, D[i]) /\ e <= Offset(p, i)
        BY <1>3, <3>3, ShelfParts
      <4>2. DirEnd(q) - 2 <= Offset(p, i)
        BY <1>4, <1>6, <3>2, <4>1
      <4>3. \A k \in Offset(p, i) .. W - 1 : q[k] = p[k]
        BY <1>4, <1>13, <3>2, <4>1
      <4>4. Filled(q, i, D[i])
        BY <1>1, <1>2, <3>1, <3>2, <4>1, <4>2, <4>3, FilledKept
      <4> QED
        BY <1>8, <3>3, <4>4
    <3>4. CASE i \notin DOMAIN D
      <4>1. Offset(p, i) = Marker
        BY <3>1, <3>4 DEF Shelf
      <4> QED
        BY <1>8, <2>2, <3>2, <3>4, <4>1
    <3> QED
      BY <3>3, <3>4
  <2> QED
    BY <2>1, <2>2
<1>15. Shelf(q, C)
  BY <1>2, <1>8, <1>9, <1>10, <1>11, <1>14 DEF Shelf
<1>16. n # Marker
  <2> HIDE DEF n, e, m
  <2> QED
    BY <1>4, NoneLink, WidthAssumption
<1> QED
  BY <1>4, <1>7, <1>15, <1>16 DEF q, C

\* FreeSlot takes a value from the shelf.
LEMMA ShelfFreed ==
    ASSUME NEW p, NEW D, Shelf(p, D), NEW i \in DOMAIN D
    PROVE  /\ FreeSlot(p, i)[1] = Cardinality(DOMAIN D \ {i})
           /\ FreeSlot(p, i)[1] = 0 <=> DOMAIN D = {i}
           /\ DOMAIN D # {i} => Shelf(FreeSlot(p, i), Without(D, i))
<1> DEFINE n == p[0]
           live == p[1]
           q == Overwrite(p, 2 + 2 * i, <<Marker, 0>>)
           r == Overwrite(q, 1, <<live - 1>>)
           C == Without(D, i)
<1>1. /\ p \in PagesW /\ n \in Nat /\ p[1] \in Nat /\ DirEnd(p) = 4 + 2 * n /\ Slots(p) = 0 .. n - 1
      /\ \A j \in Slots(p) : Offset(p, j) \in Nat /\ Length(p, j) \in Nat
  BY PageNumbers DEF Shelf
<1>2. /\ IsFiniteSet(DOMAIN D) /\ live = Cardinality(DOMAIN D) /\ Offset(p, i) # Marker /\ i \in Slots(p) /\ DOMAIN D \subseteq Slots(p)
  BY ShelfParts DEF Shelf
<1>3. live \in Nat /\ live # 0 /\ Cardinality(DOMAIN D \ {i}) = live - 1
  BY <1>1, <1>2, FS_RemoveElement, FS_EmptySet
<1>4. FreeSlot(p, i) = r
  BY <1>2, <1>3 DEF FreeSlot
<1>5. i \in 0 .. n - 1 /\ n \in Nat /\ W \in Nat /\ 2 + 2 * n <= W
  <2>1. DirEnd(p) - 2 <= W
    BY DEF Shelf
  <2> QED
    BY <1>1, <1>2, <2>1, WidthAssumption
<1>6. 2 + 2 * i \in Nat /\ 2 + 2 * i + 2 <= W
  <2> HIDE DEF n
  <2> QED
    BY <1>5
<1>7. /\ q \in PagesW
      /\ \A j \in 0 .. W - 1 : q[j] = IF j = 2 + 2 * i THEN Marker ELSE IF j = 2 + 2 * i + 1 THEN 0 ELSE p[j]
  <2> DEFINE k == 2 + 2 * i
  <2>1. k \in Nat /\ k + 2 <= W
    BY <1>6
  <2> HIDE DEF k, q
  <2>2. q = Overwrite(p, k, <<Marker, 0>>)
    BY DEF q, k
  <2>3. 0 \in Nat /\ Marker \in Nat
    BY NoneLink
  <2>4. /\ q \in PagesW
        /\ \A j \in 0 .. W - 1 : q[j] = IF j = k THEN Marker ELSE IF j = k + 1 THEN 0 ELSE p[j]
    BY <1>1, <2>1, <2>2, <2>3, OverwriteTwo
  <2> QED
    BY <2>4 DEF k
<1> HIDE DEF q
<1>8. /\ r \in PagesW
      /\ \A j \in 0 .. W - 1 : r[j] = IF j = 1 THEN live - 1 ELSE q[j]
  <2> DEFINE w == <<live - 1>>
  <2>1. w \in Seq(Nat) /\ w[1] = live - 1
    BY <1>3
  <2>2. Len(w) = 1
    OBVIOUS
  <2> HIDE DEF w
  <2>3. 1 \in Nat /\ 1 + Len(w) <= W
    BY <2>2, WidthAssumption
  <2>4. r = Overwrite(q, 1, w)
    BY DEF w
  <2>5. /\ r \in PagesW
        /\ \A j \in 0 .. W - 1 : r[j] = IF j \in 1 .. 1 + Len(w) - 1 THEN w[j - 1 + 1] ELSE q[j]
    BY <1>7, <2>1, <2>3, <2>4, OverwriteIs
  <2> QED
    BY <2>1, <2>2, <2>5
<1> HIDE DEF r
<1>9. r[1] = Cardinality(DOMAIN D \ {i}) /\ 1 \in 0 .. W - 1
  BY <1>3, <1>8, WidthAssumption
<1>10. DOMAIN D \ {i} = {} <=> r[1] = 0
  <2>1. IsFiniteSet(DOMAIN D \ {i})
    BY <1>2, FS_Subset
  <2> QED
    BY <1>9, <2>1, FS_EmptySet
<1>11. r[0] = n
  <2>1. 0 \in 0 .. W - 1 /\ 0 # 1 /\ 0 # 2 + 2 * i /\ 0 # 2 + 2 * i + 1
    BY <1>5, WidthAssumption
  <2> QED
    BY <1>7, <1>8, <2>1
<1>12. DirEnd(r) = DirEnd(p) /\ Slots(r) = Slots(p)
  BY <1>11 DEF DirEnd, Slots
<1>13. r[2 + 2 * i] = Marker
  <2>1. 2 + 2 * i \in 0 .. W - 1 /\ 2 + 2 * i # 1
    BY <1>5, <1>6
  <2> QED
    BY <1>7, <1>8, <2>1
<1>14. \A j \in 0 .. n - 1 : j # i => Offset(r, j) = Offset(p, j) /\ Length(r, j) = Length(p, j)
  <2> SUFFICES ASSUME NEW j \in 0 .. n - 1, j # i PROVE r[2 + 2 * j] = p[2 + 2 * j] /\ r[3 + 2 * j] = p[3 + 2 * j]
    BY DEF Offset, Length
  <2>1. /\ 2 + 2 * j \in 0 .. W - 1 /\ 2 + 2 * j # 1 /\ 2 + 2 * j # 2 + 2 * i /\ 2 + 2 * j # 2 + 2 * i + 1
        /\ 3 + 2 * j \in 0 .. W - 1 /\ 3 + 2 * j # 1 /\ 3 + 2 * j # 2 + 2 * i /\ 3 + 2 * j # 2 + 2 * i + 1
    <3> HIDE DEF n
    <3> QED
      BY <1>5
  <2> QED
    BY <1>7, <1>8, <2>1
<1>15. \A k \in 2 + 2 * n .. W - 1 : r[k] = p[k]
  <2>1. \A k \in 2 + 2 * n .. W - 1 : k \in 0 .. W - 1 /\ k # 1 /\ k # 2 + 2 * i /\ k # 2 + 2 * i + 1
    <3> HIDE DEF n
    <3> QED
      BY <1>5
  <2> QED
    BY <1>7, <1>8, <2>1
<1>16. DOMAIN C = DOMAIN D \ {i} /\ \A j \in DOMAIN C : C[j] = D[j]
  BY DEF Without
<1> HIDE DEF C
<1>17. ASSUME DOMAIN D # {i} PROVE Shelf(r, C)
  <2>1. DOMAIN C # {} /\ DOMAIN C \subseteq Slots(r) /\ DirEnd(r) - 2 <= W
    BY <1>2, <1>12, <1>16, <1>17 DEF Shelf
  <2>2. ASSUME NEW j \in Slots(r) PROVE IF j \in DOMAIN C THEN Filled(r, j, C[j]) ELSE Offset(r, j) = Marker
    <3>1. j \in Slots(p) /\ j \in 0 .. n - 1 /\ j \in Nat
      BY <1>1, <1>12
    <3>2. CASE j = i
      BY <1>13, <1>16, <3>2 DEF Offset
    <3>3. CASE j # i
      <4>1. Offset(r, j) = Offset(p, j) /\ Length(r, j) = Length(p, j) /\ Offset(p, j) \in Nat /\ Length(p, j) \in Nat
        BY <1>1, <1>14, <3>1, <3>3
      <4>2. CASE j \in DOMAIN D
        <5>1. Filled(p, j, D[j])
          BY <4>2, ShelfParts
        <5>2. DirEnd(p) - 2 <= Offset(p, j)
          BY <5>1 DEF Filled
        <5>3. 2 + 2 * n <= Offset(p, j)
          BY <1>1, <5>2
        <5>4. \A k \in Offset(p, j) .. W - 1 : r[k] = p[k]
          BY <1>5, <1>15, <4>1, <5>3
        <5>5. Filled(r, j, D[j])
          BY <1>1, <1>8, <1>12, <3>1, <4>1, <5>1, <5>2, <5>4, FilledKept
        <5> QED
          BY <1>16, <3>3, <4>2, <5>5
      <4>3. CASE j \notin DOMAIN D
        BY <1>16, <3>1, <3>3, <4>1, <4>3 DEF Shelf
      <4> QED
        BY <4>2, <4>3
    <3> QED
      BY <3>2, <3>3
  <2>3. r[1] = Cardinality(DOMAIN C)
    BY <1>9, <1>16
  <2> QED
    BY <1>8, <2>1, <2>2, <2>3 DEF Shelf
<1> QED
  BY <1>2, <1>4, <1>9, <1>10, <1>17 DEF C

-----------------------------------------------------------------------------
\* Chains of pages.

\* The links lead along the pages c, and end.
Follows(s, c) ==
    /\ c \in Seq(Nat) /\ Len(c) >= 1
    /\ \A i, j \in 1 .. Len(c) : c[i] = c[j] => i = j
    /\ \A k \in 1 .. Len(c) :
           /\ c[k] < Count(s) /\ c[k] # None
           /\ LinkOf(Page(s, c[k]), 0) = IF k = Len(c) THEN None ELSE c[k + 1]

\* There are no more different pages than there are pages.
LEMMA ChainShort ==
    ASSUME NEW c \in Seq(Nat), NEW n \in Nat, \A i, j \in 1 .. Len(c) : c[i] = c[j] => i = j,
           \A i \in 1 .. Len(c) : c[i] < n
    PROVE  Len(c) <= n /\ Cardinality({c[i] : i \in 1 .. Len(c)}) = Len(c)
<1> DEFINE S == 1 .. Len(c)
           T == 0 .. n - 1
           R == {c[i] : i \in S}
           f == [i \in S |-> c[i]]
<1>1. Len(c) \in Nat /\ IsFiniteSet(S) /\ Cardinality(S) = Len(c)
  <2> DEFINE m == Len(c)
  <2>1. m \in Nat
    OBVIOUS
  <2> HIDE DEF m
  <2>2. IsFiniteSet(1 .. m) /\ Cardinality(1 .. m) = m
    BY <2>1, FS_Interval
  <2> QED
    BY <2>1, <2>2 DEF m
<1>2. IsFiniteSet(T) /\ Cardinality(T) = n
  BY FS_Interval
<1>3. \A i \in S : c[i] \in T
  OBVIOUS
<1>4. f \in Bijection(S, R)
  <2>1. f \in [S -> R]
    OBVIOUS
  <2>2. \A a, b \in S : f[a] = f[b] => a = b
    OBVIOUS
  <2>3. \A t \in R : \E a \in S : f[a] = t
    OBVIOUS
  <2> HIDE DEF S, R, f
  <2> QED
    BY <2>1, <2>2, <2>3 DEF Bijection, Injection, Surjection, IsInjective
<1>5. Cardinality(R) = Cardinality(S) /\ IsFiniteSet(R)
  <2> HIDE DEF S, R, f
  <2>1. ExistsBijection(S, R)
    BY <1>4 DEF ExistsBijection
  <2> QED
    BY <1>1, <2>1, FS_Bijection
<1>6. R \subseteq T
  BY <1>3
<1>7. Cardinality(R) <= n
  BY <1>2, <1>6, FS_Subset
<1> QED
  BY <1>1, <1>5, <1>7

LEMMA SameSeq ==
    ASSUME NEW a \in Seq(Nat), NEW b \in Seq(Nat), Len(a) = Len(b), \A i \in 1 .. Len(a) : a[i] = b[i]
    PROVE  a = b
OBVIOUS

LEMMA OneElement == ASSUME NEW c \in Seq(Nat), Len(c) >= 1 PROVE SubSeq(c, 1, 1) = <<c[1]>>
<1>1. c[1] \in Nat /\ <<c[1]>> \in Seq(Nat) /\ <<c[1]>>[1] = c[1]
  OBVIOUS
<1>2. SubSeq(c, 1, 1) \in Seq(Nat) /\ Len(SubSeq(c, 1, 1)) = 1 /\ SubSeq(c, 1, 1)[1] = c[1]
  OBVIOUS
<1>3. Len(<<c[1]>>) = 1
  OBVIOUS
<1>4. \A i \in 1 .. Len(SubSeq(c, 1, 1)) : SubSeq(c, 1, 1)[i] = <<c[1]>>[i]
  BY <1>1, <1>2
<1> QED
  BY <1>1, <1>2, <1>3, <1>4, SameSeq, Zenon

\* Beginnings of a sequence.
LEMMA Beginnings ==
    ASSUME NEW c \in Seq(Nat), NEW k \in Nat, k < Len(c)
    PROVE  /\ SubSeq(c, 1, k + 1) = Append(SubSeq(c, 1, k), c[k + 1])
           /\ Len(SubSeq(c, 1, k)) = k /\ (k # 0 => SubSeq(c, 1, k)[k] = c[k])
OBVIOUS

\* The walk along a chain gives the chain.
LEMMA ChainIs ==
    ASSUME NEW s, Count(s) \in Nat, NEW c, Follows(s, c)
    PROVE  Chain(s, c[1]) = c /\ Ends(s, c)
<1> DEFINE N == Count(s) + 1
           Onward(q, k) ==
               LET last == q[Len(q)]
               IN  IF Len(q) < k \/ last >= Count(s) \/ LinkOf(Page(s, last), 0) = None THEN q
                   ELSE Append(q, LinkOf(Page(s, last), 0))
           Step(w, k) == IF k = 0 THEN <<c[1]>> ELSE Onward(w[k - 1], k)
           Walks(w) == w = [k \in Nat |-> Step(w, k)]
           Upto(k) == IF k < Len(c) THEN k + 1 ELSE Len(c)
           g == [k \in Nat |-> SubSeq(c, 1, Upto(k))]
<1>1. /\ c \in Seq(Nat) /\ Len(c) \in Nat /\ Len(c) >= 1 /\ Len(c) <= Count(s) /\ Count(s) \in Nat
  <2>1. c \in Seq(Nat) /\ Len(c) \in Nat /\ Len(c) >= 1
    BY DEF Follows
  <2>2. Len(c) <= Count(s)
    BY <2>1, ChainShort DEF Follows
  <2> QED
    BY <2>1, <2>2
<1>2. \A k \in 1 .. Len(c) : /\ c[k] \in Nat /\ c[k] < Count(s) /\ c[k] # None
                            /\ LinkOf(Page(s, c[k]), 0) = IF k = Len(c) THEN None ELSE c[k + 1]
  BY <1>1 DEF Follows
<1>3. SubSeq(c, 1, Len(c)) = c
  BY <1>1
<1>4. \A k \in Nat : g[k] = Step(g, k)
  <2> SUFFICES ASSUME NEW k \in Nat PROVE g[k] = Step(g, k)
    OBVIOUS
  <2>1. CASE k = 0
    <3>1. Upto(0) = 1
      BY <1>1
    <3>2. SubSeq(c, 1, 1) = <<c[1]>>
      BY <1>1, OneElement
    <3>3. g[0] = SubSeq(c, 1, 1)
      BY <3>1
    <3> QED
      BY <2>1, <3>2, <3>3
  <2>2. CASE k # 0
    <3>0. k - 1 \in Nat /\ k \in Nat
      BY <2>2
    <3>1. CASE Len(c) <= k - 1
      <4>1. Upto(k - 1) = Len(c) /\ Upto(k) = Len(c)
        BY <3>0, <3>1, <1>1
      <4>2. g[k - 1] = c /\ g[k] = c
        BY <3>0, <4>1, <1>3
      <4>3. Onward(c, k) = c
        BY <1>1, <3>0, <3>1
      <4> QED
        BY <4>2, <4>3, <2>2
    <3>2. CASE k < Len(c)
      <4>1. Upto(k - 1) = k /\ Upto(k) = k + 1
        BY <3>2, <3>0, <1>1
      <4>2. g[k - 1] = SubSeq(c, 1, k) /\ g[k] = SubSeq(c, 1, k + 1)
        BY <4>1, <3>0
      <4> DEFINE q == SubSeq(c, 1, k)
      <4>3. Len(q) = k /\ q[k] = c[k] /\ SubSeq(c, 1, k + 1) = Append(q, c[k + 1])
        BY <1>1, <2>2, <3>0, <3>2, Beginnings
      <4>4. c[k] < Count(s) /\ c[k] \in Nat /\ LinkOf(Page(s, c[k]), 0) = c[k + 1] /\ c[k + 1] # None
        <5>1. k \in 1 .. Len(c) /\ k + 1 \in 1 .. Len(c) /\ k # Len(c)
          BY <3>0, <2>2, <3>2, <1>1
        <5> QED
          BY <5>1, <1>2
      <4>5. ~ (Len(q) < k) /\ ~ (q[Len(q)] >= Count(s)) /\ LinkOf(Page(s, q[Len(q)]), 0) = c[k + 1]
        BY <1>1, <3>0, <4>3, <4>4
      <4> HIDE DEF q
      <4>6. Onward(q, k) = Append(q, c[k + 1])
        BY <4>4, <4>5, Zenon
      <4> QED
        BY <4>2, <4>3, <4>6, <2>2 DEF q
    <3>3. CASE k = Len(c)
      <4>1. Upto(k - 1) = Len(c) /\ Upto(k) = Len(c)
        BY <3>3, <3>0, <1>1
      <4>2. g[k - 1] = c /\ g[k] = c
        BY <3>0, <4>1, <1>3
      <4>3. LinkOf(Page(s, c[Len(c)]), 0) = None
        BY <1>1, <1>2
      <4>4. Onward(c, k) = c
        BY <4>3, Zenon
      <4> QED
        BY <4>2, <4>4, <2>2, <3>0
    <3>4. Len(c) <= k - 1 \/ k < Len(c) \/ k = Len(c)
      BY <1>1, <3>0
    <3> QED
      BY <3>1, <3>2, <3>3, <3>4
  <2> QED
    BY <2>1, <2>2
<1>5. Walks(g)
  <2> DEFINE h == [k \in Nat |-> Step(g, k)]
  <2>1. \A k \in Nat : g[k] = h[k]
    BY <1>4
  <2> HIDE DEF Step
  <2> QED
    BY <2>1
<1> HIDE DEF g, Onward
<1>6. ASSUME NEW w, Walks(w) PROVE \A k \in Nat : w[k] = g[k]
  <2> DEFINE S == {k \in Nat : w[k] = g[k]}
  <2>1. \A k \in Nat : w[k] = Step(w, k) /\ g[k] = Step(g, k)
    BY <1>4, <1>6
  <2>2. 0 \in S
    BY <2>1
  <2>3. ASSUME NEW k \in Nat, k \in S PROVE k + 1 \in S
    <3>1. k + 1 \in Nat /\ (k + 1) - 1 = k /\ k + 1 # 0
      OBVIOUS
    <3>2. w[k + 1] = Step(w, k + 1) /\ g[k + 1] = Step(g, k + 1)
      BY <2>1, <3>1
    <3>3. w[k] = g[k]
      BY <2>3
    <3> HIDE DEF S
    <3>4. Step(w, k + 1) = Step(g, k + 1)
      BY <3>1, <3>3
    <3>5. w[k + 1] = g[k + 1]
      BY <3>2, <3>4
    <3> QED
      BY <3>5, <3>1 DEF S
  <2> HIDE DEF S
  <2>4. Nat \subseteq S
    BY <2>2, <2>3, SetInduction
  <2> QED
    BY <2>4 DEF S
<1> DEFINE V == CHOOSE w : Walks(w)
<1>7. Walks(V)
  <2> HIDE DEF Walks
  <2> QED
    BY <1>5
<1>8. Chain(s, c[1]) = V[N]
  BY DEF Chain, Onward
<1>9. V[N] = g[N]
  <2>1. N \in Nat
    BY <1>1
  <2> HIDE DEF Walks, V, N
  <2> QED
    BY <1>6, <1>7, <2>1
<1>10. g[N] = c
  <2>1. Upto(N) = Len(c) /\ N \in Nat
    BY <1>1
  <2>2. g[N] = SubSeq(c, 1, Upto(N))
    BY <2>1 DEF g
  <2> QED
    BY <1>3, <2>1, <2>2
<1>11. Ends(s, c)
  BY <1>1, <1>2 DEF Ends
<1> QED
  BY <1>8, <1>9, <1>10, <1>11

LEMMA Divided ==
    ASSUME NEW x \in Nat, NEW y \in Nat, y >= 1
    PROVE  x \div y \in Nat /\ x = y * (x \div y) + (x % y) /\ x % y \in 0 .. y - 1
<1>1. ASSUME NEW l \in Int, NEW p \in Int, p > 0 PROVE l = p * (l \div p) + (l % p)
  BY <1>1, SMTT(30)
<1>2. x % y \in 0 .. y - 1 /\ x \div y \in Nat
  BY SMTT(30)
<1> QED
  BY <1>1, <1>2

\* A value of n words takes as many chunks as hold it, and no more.
LEMMA ChunksAre ==
    ASSUME NEW n \in Nat
    PROVE  /\ ChunkSize \in Nat /\ ChunkSize >= 1 /\ ChunkSize = W - 4
           /\ Chunks(n) \in Nat /\ n <= Chunks(n) * ChunkSize
           /\ \A k \in 1 .. Chunks(n) : (k - 1) * ChunkSize < n
           /\ n > ChunkSize => Chunks(n) >= 2
<1> DEFINE C == ChunkSize
           d == Chunks(n)
           x == n + C - 1
<1>1. C \in Nat /\ C >= 1 /\ C = W - 4
  BY WidthAssumption DEF ChunkSize
<1>2. d = x \div C
  BY DEF Chunks
<1> HIDE DEF C, d
<1>3. x \in Nat /\ x \div C \in Nat /\ x = C * (x \div C) + (x % C) /\ x % C \in 0 .. C - 1
  <2>1. x \in Nat
    BY <1>1
  <2> HIDE DEF x
  <2> QED
    BY <1>1, <2>1, Divided
<1>4. d \in Nat /\ x = C * d + (x % C)
  BY <1>2, <1>3
<1>5. n <= d * C /\ d * C <= n + C - 1
  <2> DEFINE r == x % C
  <2>1. r \in Nat /\ r <= C - 1 /\ n + C - 1 = C * d + r
    BY <1>1, <1>3, <1>4
  <2> HIDE DEF r
  <2>2. C * d = d * C /\ C * d \in Nat
    BY <1>1, <1>4
  <2> QED
    BY <1>1, <2>1, <2>2
<1>6. ASSUME NEW k \in 1 .. d PROVE (k - 1) * C < n
  <2>1. (k - 1) * C <= (d - 1) * C
    BY <1>1, <1>4, SMTT(30)
  <2>2. (d - 1) * C = d * C - C
    BY <1>1, <1>4, SMTT(30)
  <2>3. (k - 1) * C \in Int /\ d * C \in Int
    BY <1>1, <1>4
  <2> QED
    BY <1>1, <1>5, <2>1, <2>2, <2>3
<1>7. n > C => d >= 2
  <2> SUFFICES ASSUME n > C, d < 2 PROVE FALSE
    BY <1>4
  <2>1. d = 0 \/ d = 1
    BY <1>4
  <2>2. d * C = 0 \/ d * C = C
    BY <1>1, <2>1
  <2> QED
    BY <1>1, <1>5, <2>2
<1> QED
  BY <1>1, <1>4, <1>5, <1>6, <1>7 DEF C, d

\* The words up to the end of chunk k.
Upto(b, k) == IF k * ChunkSize < Len(b) THEN k * ChunkSize ELSE Len(b)

LEMMA ChunkIs ==
    ASSUME NEW b \in Seq(Nat), NEW k \in Nat \ {0}
    PROVE  /\ Chunk(b, k) \in Seq(Nat) /\ Len(Chunk(b, k)) \in Nat /\ Len(Chunk(b, k)) <= ChunkSize
           /\ SubSeq(b, 1, Upto(b, k - 1)) \o Chunk(b, k) = SubSeq(b, 1, Upto(b, k))
           /\ (k - 1) * ChunkSize < Len(b) =>
                  Len(Chunk(b, k)) >= 1 /\ (k - 1) * ChunkSize + 1 \in 1 .. Len(b) /\ Chunk(b, k)[1] = b[(k - 1) * ChunkSize + 1]
<1> DEFINE C == ChunkSize
           n == Len(b)
           lo == (k - 1) * C
           hi == k * C
           to == IF hi < n THEN hi ELSE n
<1>1. C \in Nat /\ n \in Nat
  BY ChunksAre
<1>2. lo \in Nat /\ hi = lo + C
  <2> HIDE DEF C
  <2>1. k - 1 \in Nat /\ k = (k - 1) + 1
    OBVIOUS
  <2> QED
    BY <1>1, <2>1, SMTT(30)
<1>3. Chunk(b, k) = SubSeq(b, lo + 1, to) /\ Upto(b, k) = to /\ Upto(b, k - 1) = IF lo < n THEN lo ELSE n
  BY DEF Chunk, Upto
<1> HIDE DEF C, n, lo, hi
<1>4. to \in Nat /\ to <= n /\ to - lo <= C
  BY <1>1, <1>2
<1>5. CASE lo < n
  <2>1. lo <= to /\ lo + 1 \in 1 .. n
    BY <1>1, <1>2, <1>5
  <2> HIDE DEF to
  <2>2. n = Len(b)
    BY DEF n
  <2>3. SubSeq(b, lo + 1, to) \in Seq(Nat) /\ Len(SubSeq(b, lo + 1, to)) = to - lo
    BY <1>1, <1>2, <1>4, <2>1, <2>2
  <2>4. SubSeq(b, 1, lo) \o SubSeq(b, lo + 1, to) = SubSeq(b, 1, to)
    <3>1. 1 \in 1 .. Len(b) + 1 /\ lo \in 1 - 1 .. Len(b) /\ to \in lo .. Len(b)
      BY <1>1, <1>2, <1>4, <2>1, <2>2
    <3> QED
      BY <3>1, ConcatAdjacentSubSeq, Zenon
  <2>5. ASSUME TRUE PROVE to - lo >= 1 /\ SubSeq(b, lo + 1, to)[1] = b[lo + 1]
    <3>1. C >= 1
      BY <1>1, ChunksAre DEF C
    <3>2. to - lo >= 1
      BY <1>1, <1>2, <1>5, <3>1 DEF to
    <3> QED
      BY <1>1, <1>2, <1>4, <2>1, <2>2, <2>3, <3>2
  <2>6. Upto(b, k - 1) = lo
    BY <1>3, <1>5
  <2>7. Len(Chunk(b, k)) = to - lo /\ to - lo \in Nat
    BY <1>2, <1>3, <1>4, <2>1, <2>3
  <2> QED
    BY <1>3, <1>4, <2>1, <2>2, <2>3, <2>4, <2>5, <2>6, <2>7 DEF C, n, lo
<1>6. CASE ~ (lo < n)
  <2>1. to = n /\ Upto(b, k - 1) = n /\ n < lo + 1
    BY <1>1, <1>2, <1>3, <1>6
  <2>2. SubSeq(b, lo + 1, n) = <<>>
    BY <1>1, <1>2, <2>1 DEF n
  <2>3. SubSeq(b, 1, n) = b
    BY DEF n
  <2>4. Chunk(b, k) = <<>> /\ Upto(b, k) = n
    BY <1>3, <2>1, <2>2
  <2>5. b \o <<>> = b /\ <<>> \in Seq(Nat) /\ Len(<<>>) = 0
    OBVIOUS
  <2> QED
    BY <1>1, <1>6, <2>1, <2>3, <2>4, <2>5 DEF C, n, lo
<1> QED
  BY <1>5, <1>6

\* A page holds the words x of a chain.
Bears(p, x) ==
    /\ Len(x) <= ChunkSize /\ x \in Seq(Nat)
    /\ LinkOf(p, 2) = Len(x) /\ ReadWords(p, 4, Len(x)) = x

\* The pages c hold the words b.
Carries(s, c, b) ==
    /\ b \in Seq(Nat) /\ Len(c) = Chunks(Len(b))
    /\ \A k \in 1 .. Len(c) : Bears(Page(s, c[k]), Chunk(b, k))

\* Reading a chain gives what it carries.
LEMMA ReadChainIs ==
    ASSUME NEW s \in Stores, NEW c, Follows(s, c), NEW b, Carries(s, c, b)
    PROVE  ReadChain(s, c[1]) = b
<1> DEFINE N == Len(c)
           Step(w, k) == IF k = 0 THEN <<>> ELSE w[k - 1] \o ReadWords(Page(s, c[k]), 4, LinkOf(Page(s, c[k]), 2))
           Walks(w) == w = [k \in 0 .. N |-> Step(w, k)]
           g == [k \in 0 .. N |-> SubSeq(b, 1, Upto(b, k))]
<1>1. N \in Nat /\ b \in Seq(Nat) /\ N = Chunks(Len(b)) /\ Len(b) \in Nat
  BY DEF Follows, Carries
<1>2. Chain(s, c[1]) = c /\ Ends(s, c)
  BY ChainIs, StoreParts
<1>3. \A k \in 0 .. N : g[k] = Step(g, k)
  <2> SUFFICES ASSUME NEW k \in 0 .. N PROVE g[k] = Step(g, k)
    OBVIOUS
  <2>1. CASE k = 0
    <3>1. Upto(b, 0) = 0
      BY <1>1, ChunksAre DEF Upto
    <3>2. SubSeq(b, 1, 0) = <<>>
      BY <1>1
    <3>3. g[0] = SubSeq(b, 1, Upto(b, 0))
      <4>1. 0 \in 0 .. N
        BY <1>1
      <4> QED
        BY <4>1, Zenon
    <3> QED
      BY <2>1, <3>1, <3>2, <3>3
  <2>2. CASE k # 0
    <3>1. k \in 1 .. N /\ k - 1 \in 0 .. N /\ k \in Nat \ {0}
      BY <1>1, <2>2
    <3>2. Bears(Page(s, c[k]), Chunk(b, k))
      BY <3>1 DEF Carries
    <3>3. ReadWords(Page(s, c[k]), 4, LinkOf(Page(s, c[k]), 2)) = Chunk(b, k)
      BY <3>2, Zenon DEF Bears
    <3>4. SubSeq(b, 1, Upto(b, k - 1)) \o Chunk(b, k) = SubSeq(b, 1, Upto(b, k))
      BY <1>1, <3>1, ChunkIs
    <3>5. g[k - 1] = SubSeq(b, 1, Upto(b, k - 1)) /\ g[k] = SubSeq(b, 1, Upto(b, k))
      BY <3>1
    <3> HIDE DEF g
    <3>6. Step(g, k) = g[k - 1] \o ReadWords(Page(s, c[k]), 4, LinkOf(Page(s, c[k]), 2))
      BY <2>2
    <3> QED
      BY <3>3, <3>4, <3>5, <3>6
  <2> QED
    BY <2>1, <2>2
<1>4. Walks(g)
  <2> DEFINE h == [k \in 0 .. N |-> Step(g, k)]
  <2>1. \A k \in 0 .. N : g[k] = h[k]
    BY <1>3
  <2> HIDE DEF Step
  <2> QED
    BY <2>1
<1> HIDE DEF g
<1>5. ASSUME NEW w, Walks(w) PROVE \A k \in 0 .. N : w[k] = g[k]
  <2> DEFINE S == {k \in Nat : k <= N => w[k] = g[k]}
  <2>1. \A k \in 0 .. N : w[k] = Step(w, k) /\ g[k] = Step(g, k)
    BY <1>3, <1>5
  <2>2. 0 \in S
    BY <1>1, <2>1
  <2>3. ASSUME NEW k \in Nat, k \in S PROVE k + 1 \in S
    <3>1. CASE k + 1 <= N
      <4>1. k <= N /\ k + 1 \in 0 .. N /\ (k + 1) - 1 = k /\ k + 1 # 0
        BY <3>1, <1>1
      <4>2. w[k + 1] = Step(w, k + 1) /\ g[k + 1] = Step(g, k + 1)
        BY <2>1, <4>1
      <4>3. w[k] = g[k]
        BY <2>3, <4>1
      <4> HIDE DEF S
      <4>4. Step(w, k + 1) = Step(g, k + 1)
        BY <4>1, <4>3
      <4>5. w[k + 1] = g[k + 1]
        BY <4>2, <4>4
      <4> QED
        BY <4>5 DEF S
    <3> QED
      BY <1>1, <2>3, <3>1
  <2> HIDE DEF S
  <2>4. Nat \subseteq S
    BY <2>2, <2>3, SetInduction
  <2> QED
    BY <2>4, <1>1 DEF S
<1> DEFINE V == CHOOSE w : Walks(w)
<1>6. Walks(V)
  <2> HIDE DEF Walks
  <2> QED
    BY <1>4
<1>7. ReadChain(s, c[1]) = V[N]
  BY <1>2 DEF ReadChain
<1>8. V[N] = g[N]
  <2> HIDE DEF Walks, V
  <2> QED
    BY <1>1, <1>5, <1>6
<1>9. g[N] = b
  <2>1. Upto(b, N) = Len(b)
    <3>1. Len(b) <= N * ChunkSize /\ N * ChunkSize \in Nat
      <4>1. Chunks(Len(b)) \in Nat /\ ChunkSize \in Nat /\ Len(b) <= Chunks(Len(b)) * ChunkSize
        BY <1>1, ChunksAre
      <4> QED
        BY <1>1, <4>1
    <3> QED
      BY <1>1, <3>1 DEF Upto
  <2>2. SubSeq(b, 1, Len(b)) = b
    BY <1>1
  <2>3. g[N] = SubSeq(b, 1, Upto(b, N))
    <3>1. N \in 0 .. N
      BY <1>1
    <3> QED
      BY <3>1, Zenon DEF g
  <2> QED
    BY <2>1, <2>2, <2>3
<1> QED
  BY <1>7, <1>8, <1>9

-----------------------------------------------------------------------------
\* Writing chains.

\* A page of a chain: it holds the words x, and n is behind it.
ChainPage(p, x, n) == Bears(p, x) /\ p[0] = n % Base /\ p[1] = n \div Base

Behind(c, k) == IF k = Len(c) THEN None ELSE c[k + 1]

\* The pages c are the chain of b.
Strand(s, c, b) ==
    /\ c \in Seq(Nat) /\ Len(c) >= 1 /\ b \in Seq(Nat) /\ Len(c) = Chunks(Len(b))
    /\ \A i, j \in 1 .. Len(c) : c[i] = c[j] => i = j
    /\ \A k \in 1 .. Len(c) :
           /\ c[k] < Count(s) /\ c[k] # None
           /\ ChainPage(Page(s, c[k]), Chunk(b, k), Behind(c, k))

LEMMA LinkRead ==
    ASSUME NEW p, NEW n \in Nat, p[0] = n % Base, p[1] = n \div Base
    PROVE  LinkOf(p, 0) = n
<1>1. (n % Base) + Base * (n \div Base) = n
  BY DEF Base
<1>2. 0 + 1 = 1
  OBVIOUS
<1> QED
  BY <1>1, <1>2 DEF LinkOf

LEMMA StrandIs ==
    ASSUME NEW s \in Stores, NEW c, NEW b, Strand(s, c, b)
    PROVE  Follows(s, c) /\ Carries(s, c, b) /\ Chain(s, c[1]) = c /\ Ends(s, c) /\ ReadChain(s, c[1]) = b
<1>1. ASSUME NEW k \in 1 .. Len(c) PROVE LinkOf(Page(s, c[k]), 0) = IF k = Len(c) THEN None ELSE c[k + 1]
  <2>1. ChainPage(Page(s, c[k]), Chunk(b, k), Behind(c, k)) /\ c \in Seq(Nat)
    BY DEF Strand
  <2>2. Behind(c, k) \in Nat
    <3>1. k # Len(c) => k + 1 \in 1 .. Len(c)
      BY <2>1
    <3> QED
      BY <2>1, <3>1, NoneLink DEF Behind
  <2>3. LinkOf(Page(s, c[k]), 0) = Behind(c, k)
    BY <2>1, <2>2, LinkRead DEF ChainPage
  <2> QED
    BY <2>3 DEF Behind
<1>2. Follows(s, c)
  BY <1>1 DEF Strand, Follows
<1>3. Carries(s, c, b)
  BY DEF Strand, Carries, ChainPage
<1> QED
  BY <1>2, <1>3, ChainIs, ReadChainIs, StoreParts

\* A link is written before the words of the page.
LEMMA LinkWritten ==
    ASSUME NEW p \in PagesW, NEW x, Bears(p, x), NEW n \in Nat
    PROVE  Overwrite(p, 0, Link(n)) \in PagesW /\ ChainPage(Overwrite(p, 0, Link(n)), x, n)
<1> DEFINE w == Link(n)
           q == Overwrite(p, 0, w)
<1>1. w \in Seq(Nat) /\ w[1] = n % Base /\ w[2] = n \div Base
  BY Linked
<1>2. Len(w) = 2
  BY Linked
<1> HIDE DEF w
<1>3. W \in Nat /\ W > 4 /\ 0 + Len(w) <= W /\ 0 \in Nat
  BY <1>2, WidthAssumption
<1>4. /\ q \in PagesW
      /\ \A i \in 0 .. W - 1 : q[i] = IF i \in 0 .. 0 + Len(w) - 1 THEN w[i - 0 + 1] ELSE p[i]
  BY <1>1, <1>3, OverwriteIs
<1> HIDE DEF q
<1>5. q[0] = w[1] /\ q[1] = w[2]
  <2>1. q[0] = w[0 - 0 + 1]
    BY <1>2, <1>3, <1>4
  <2>2. q[1] = w[1 - 0 + 1]
    BY <1>2, <1>3, <1>4
  <2> QED
    BY <2>1, <2>2
<1>6. \A i \in 2 .. W - 1 : q[i] = p[i]
  BY <1>2, <1>4
<1>7. LinkOf(q, 2) = LinkOf(p, 2)
  BY <1>3, <1>6 DEF LinkOf
<1>8. ReadWords(q, 4, Len(x)) = ReadWords(p, 4, Len(x))
  <2>1. Len(x) \in Nat /\ 4 + Len(x) <= W
    BY <1>3 DEF Bears, ChunkSize
  <2>2. \A i \in 1 .. Len(x) : 4 + i - 1 \in 2 .. W - 1
    BY <1>3, <2>1
  <2>3. \A i \in 1 .. Len(x) : q[4 + i - 1] = p[4 + i - 1]
    BY <1>6, <2>2
  <2> QED
    BY <2>3 DEF ReadWords
<1> QED
  BY <1>1, <1>4, <1>5, <1>7, <1>8 DEF ChainPage, Bears, q, w

\* A page as it is first written.
LEMMA ChunkPageIs ==
    ASSUME NEW b \in Seq(Nat), NEW k \in Nat \ {0}, NEW n \in Nat
    PROVE  ChunkPage(b, k, n) \in PagesW /\ Bears(ChunkPage(b, k, n), Chunk(b, k))
<1> DEFINE x == Chunk(b, k)
           m == Len(x)
           head == Link(n) \o Link(m)
           words == Link(n) \o Link(m) \o x
           p == Overwrite(Blank, 0, words)
<1>2. x \in Seq(Nat) /\ m \in Nat /\ m <= ChunkSize
  BY ChunkIs
<1>1. x \in Seq(Nat) /\ m \in Nat /\ m <= W - 4 /\ W \in Nat /\ W > 4
  <2>1. ChunkSize = W - 4
    BY DEF ChunkSize
  <2> HIDE DEF x, m
  <2> QED
    BY <1>2, <2>1, WidthAssumption
<1> HIDE DEF x
<1>3. /\ Link(n) \in Seq(Nat) /\ Len(Link(n)) = 2 /\ Link(m) \in Seq(Nat) /\ Len(Link(m)) = 2
      /\ Link(m)[1] + Base * Link(m)[2] = m
  BY <1>1, Linked
<1>4. head \in Seq(Nat) /\ Len(head) = 4 /\ head[3] = Link(m)[1] /\ head[4] = Link(m)[2]
  <2> DEFINE y == Link(n)
             z == Link(m)
  <2>1. y \in Seq(Nat) /\ Len(y) = 2 /\ z \in Seq(Nat) /\ Len(z) = 2 /\ head = y \o z
    BY <1>3
  <2> HIDE DEF y, z, head
  <2>2. /\ y \o z \in Seq(Nat) /\ Len(y \o z) = 4 /\ (y \o z)[3] = z[1] /\ (y \o z)[4] = z[2]
    BY <2>1, TwoPairs, Zenon
  <2> QED
    BY <2>1, <2>2 DEF z
<1> HIDE DEF head
<1>5. words = head \o x
  BY DEF head
<1>6. /\ words \in Seq(Nat) /\ Len(words) = 4 + m
      /\ \A i \in 1 .. 4 + m : words[i] = IF i <= 4 THEN head[i] ELSE x[i - 4]
  <2>1. /\ head \o x \in Seq(Nat) /\ Len(head \o x) = Len(head) + Len(x)
        /\ \A i \in 1 .. Len(head) + Len(x) : (head \o x)[i] = IF i <= Len(head) THEN head[i] ELSE x[i - Len(head)]
    BY <1>1, <1>4, ConcatProperties, Zenon
  <2> QED
    BY <1>4, <1>5, <2>1
<1> HIDE DEF words, m
<1>7. 0 + Len(words) <= W /\ 0 \in Nat
  BY <1>1, <1>6
<1>8. /\ p \in PagesW
      /\ \A i \in 0 .. W - 1 : p[i] = IF i \in 0 .. 0 + Len(words) - 1 THEN words[i - 0 + 1] ELSE Blank[i]
  BY <1>6, <1>7, BlankPage, OverwriteIs
<1>9. \A i \in 0 .. 3 + m : p[i] = words[i + 1]
  <2> SUFFICES ASSUME NEW i \in 0 .. 3 + m PROVE p[i] = words[i + 1]
    OBVIOUS
  <2>1. i \in 0 .. W - 1 /\ i \in 0 .. 0 + Len(words) - 1 /\ i - 0 + 1 = i + 1
    BY <1>1, <1>6
  <2> QED
    BY <1>8, <2>1
<1> HIDE DEF p
<1>10. LinkOf(p, 2) = m
  <2>1. 2 \in 0 .. 3 + m /\ 3 \in 0 .. 3 + m /\ 3 \in 1 .. 4 + m /\ 4 \in 1 .. 4 + m
    BY <1>1
  <2>2. p[2] = words[2 + 1] /\ p[3] = words[3 + 1]
    BY <1>9, <2>1
  <2>3. words[3] = head[3] /\ words[4] = head[4]
    BY <1>6, <2>1
  <2>4. LinkOf(p, 2) = p[2] + Base * p[3]
    BY DEF LinkOf
  <2> QED
    BY <1>3, <1>4, <2>2, <2>3, <2>4
<1>11. ReadWords(p, 4, m) = x
  <2>1. \A i \in 1 .. m : p[4 + i - 1] = x[i]
    <3> SUFFICES ASSUME NEW i \in 1 .. m PROVE p[4 + i - 1] = x[i]
      OBVIOUS
    <3>1. 4 + i - 1 \in 0 .. 3 + m /\ (4 + i - 1) + 1 = 4 + i /\ 4 + i \in 1 .. 4 + m /\ ~ (4 + i <= 4) /\ 4 + i - 4 = i
      BY <1>1
    <3>2. p[4 + i - 1] = words[4 + i]
      BY <1>9, <3>1
    <3>3. words[4 + i] = x[4 + i - 4]
      BY <1>6, <3>1
    <3> QED
      BY <3>1, <3>2, <3>3
  <2>2. x = [i \in 1 .. m |-> x[i]]
    BY <1>1 DEF m
  <2>3. ReadWords(p, 4, m) = [i \in 1 .. m |-> x[i]]
    BY <2>1 DEF ReadWords
  <2> QED
    BY <2>2, <2>3
<1>12. ChunkPage(b, k, n) = p
  BY DEF ChunkPage, p, words, m, x
<1> QED
  BY <1>1, <1>2, <1>8, <1>10, <1>11, <1>12 DEF Bears, m, x

\* A page of a chain does not read as a page of slots; its data is why.
LEMMA ChainPageSpoiled ==
    ASSUME NEW p \in PagesW, NEW x, NEW n \in Nat, ChainPage(p, x, n),
           Len(x) >= 1, x[1] > 16384, x[1] < Marker, n = None \/ Clear(n)
    PROVE  ~ IsValid(p) /\ (n # None => ~ IsFreeMarked(p))
<1>1. W \in Nat /\ W > 4 /\ W < 16384
  BY WidthAssumption
<1>2. p[0] \in Nat /\ \A i \in 0 .. W - 1 : p[i] \in Nat
  BY PageNumbers
<1>3. CASE n = None
  BY <1>3, NoneLink DEF ChainPage, IsValid
<1>4. CASE n # None
  <2>1. p[0] = n % Base /\ p[0] \notin {0, 1, Marker}
    BY <1>4 DEF ChainPage, Clear
  <2>2. p[0] >= 2
    BY <1>2, <2>1
  <2>3. p[4] = x[1]
    <3>1. 1 \in 1 .. Len(x) /\ ReadWords(p, 4, Len(x)) = x
      BY DEF ChainPage, Bears
    <3>2. ReadWords(p, 4, Len(x))[1] = p[4 + 1 - 1]
      BY <3>1 DEF ReadWords
    <3> QED
      BY <3>1, <3>2
  <2>4. ASSUME IsValid(p) PROVE FALSE
    <3>1. 2 + 2 * p[0] <= W /\ 1 \in Slots(p)
      BY <1>2, <2>2, <2>4 DEF IsValid, Slots
    <3>2. 5 \in 0 .. W - 1
      BY <1>1, <1>2, <2>2, <3>1
    <3>3. Offset(p, 1) = x[1] /\ Length(p, 1) = p[5] /\ p[5] \in Nat
      <4>1. 2 + 2 * 1 = 4 /\ 3 + 2 * 1 = 5
        OBVIOUS
      <4> QED
        BY <1>2, <2>3, <3>2, <4>1 DEF Offset, Length
    <3>4. x[1] = Marker \/ x[1] + p[5] <= W
      BY <2>4, <3>1, <3>3 DEF IsValid
    <3>5. x[1] \in Nat
      BY <1>1, <1>2, <2>3
    <3> QED
      BY <1>1, <3>3, <3>4, <3>5, NoneLink
  <2>5. ~ IsFreeMarked(p)
    BY <2>1 DEF IsFreeMarked
  <2> QED
    BY <2>4, <2>5
<1> QED
  BY <1>3, <1>4

RangeOf(c) == {c[i] : i \in 1 .. Len(c)}

\* After k allocations for the words b: the store x.store and the new pages x.pages.
Drawn(s, U, b, x, k) ==
    /\ x.pages \in Seq(Nat) /\ Len(x.pages) = k
    /\ \A i, j \in 1 .. k : x.pages[i] = x.pages[j] => i = j
    /\ \A i \in 1 .. k : /\ x.pages[i] < Count(x.store) /\ x.pages[i] \notin U
                         /\ Page(x.store, x.pages[i]) = ChunkPage(b, i, Position(b, i))
    /\ Count(s) <= Count(x.store)
    /\ \A m \in U : Page(x.store, m) = Page(s, m)
    /\ Pool(x.store, U \cup RangeOf(x.pages))

\* One allocation of write_blob_chain.
OneMore(b, x, k) ==
    [store |-> AllocPage(x.store, ChunkPage(b, k, Position(b, k))),
     pages |-> Append(x.pages, NewPage(x.store))]

LEMMA DrawnMore ==
    ASSUME NEW s, NEW U, Pool(s, U), NEW b \in Seq(Nat), NEW x, NEW k \in Nat, Drawn(s, U, b, x, k), k + 1 <= Chunks(Len(b))
    PROVE  Drawn(s, U, b, OneMore(b, x, k + 1), k + 1)
<1> DEFINE c == x.pages
           n == NewPage(x.store)
           p == ChunkPage(b, k + 1, Position(b, k + 1))
           t == AllocPage(x.store, p)
           d == Append(c, n)
           V == U \cup RangeOf(c)
<1>1. c \in Seq(Nat) /\ Len(c) = k /\ Pool(x.store, V) /\ x.store \in Stores /\ Count(x.store) \in Nat
  BY StoreParts DEF Drawn, Pool
<1>2. p \in PagesW
  <2>1. Position(b, k + 1) \in Nat /\ k + 1 \in Nat \ {0}
    BY NoneLink DEF Position
  <2> QED
    BY <2>1, ChunkPageIs
<1> HIDE DEF p
<1>3. /\ n \in 0 .. Count(t) - 1 /\ n \notin V
      /\ Count(x.store) <= Count(t)
      /\ Page(t, n) = p
      /\ \A m \in 0 .. Count(x.store) - 1 : m # n => Page(t, m) = Page(x.store, m)
      /\ Pool(t, V \cup {n})
  <2> DEFINE u == x.store
  <2>1. Pool(u, V) /\ p \in PagesW
    BY <1>1, <1>2
  <2> HIDE DEF V, u
  <2>2. /\ NewPage(u) \in 0 .. Count(AllocPage(u, p)) - 1 /\ NewPage(u) \notin V
        /\ Count(u) <= Count(AllocPage(u, p))
        /\ Page(AllocPage(u, p), NewPage(u)) = p
        /\ \A m \in 0 .. Count(u) - 1 : m # NewPage(u) => Page(AllocPage(u, p), m) = Page(u, m)
        /\ Pool(AllocPage(u, p), V \cup {NewPage(u)})
    BY <2>1, AllocPool
  <2> QED
    BY <2>2 DEF u
<1>4. Count(t) \in Nat /\ t \in Stores
  BY <1>3, StoreParts DEF Pool
<1> HIDE DEF t, n
<1>5. d \in Seq(Nat) /\ Len(d) = k + 1 /\ d[k + 1] = n /\ \A i \in 1 .. k : d[i] = c[i]
  BY <1>1, <1>3, <1>4
<1>6. \A i \in 1 .. k : c[i] \in 0 .. Count(x.store) - 1 /\ c[i] # n /\ c[i] \notin U /\ c[i] \in Nat
  <2> SUFFICES ASSUME NEW i \in 1 .. k PROVE c[i] \in 0 .. Count(x.store) - 1 /\ c[i] # n /\ c[i] \notin U /\ c[i] \in Nat
    OBVIOUS
  <2>1. c[i] < Count(x.store) /\ c[i] \notin U /\ c[i] \in Nat /\ c[i] \in RangeOf(c)
    BY <1>1 DEF Drawn, RangeOf
  <2> QED
    BY <1>1, <1>3, <2>1
<1>7. RangeOf(d) = RangeOf(c) \cup {n}
  <2>1. ASSUME NEW m \in RangeOf(d) PROVE m \in RangeOf(c) \cup {n}
    <3>1. PICK i \in 1 .. Len(d) : m = d[i]
      BY DEF RangeOf
    <3>2. i = k + 1 \/ i \in 1 .. k
      BY <1>5
    <3> QED
      BY <1>1, <1>5, <3>1, <3>2 DEF RangeOf
  <2>2. ASSUME NEW m \in RangeOf(c) \cup {n} PROVE m \in RangeOf(d)
    <3>1. CASE m = n
      <4>1. k + 1 \in 1 .. Len(d)
        BY <1>5
      <4> QED
        BY <1>5, <3>1, <4>1 DEF RangeOf
    <3>2. CASE m \in RangeOf(c)
      <4>1. PICK i \in 1 .. Len(c) : m = c[i]
        BY <3>2 DEF RangeOf
      <4>2. i \in 1 .. k /\ i \in 1 .. Len(d) /\ d[i] = m
        BY <1>1, <1>5, <4>1
      <4> QED
        BY <4>2 DEF RangeOf
    <3> QED
      BY <3>1, <3>2
  <2> QED
    BY <2>1, <2>2
<1> HIDE DEF d
<1>8. \A i, j \in 1 .. k + 1 : d[i] = d[j] => i = j
  <2> SUFFICES ASSUME NEW i \in 1 .. k + 1, NEW j \in 1 .. k + 1, d[i] = d[j] PROVE i = j
    OBVIOUS
  <2>1. (i = k + 1 \/ i \in 1 .. k) /\ (j = k + 1 \/ j \in 1 .. k)
    OBVIOUS
  <2>2. CASE i = k + 1 \/ j = k + 1
    BY <1>5, <1>6, <2>1, <2>2
  <2>3. CASE i \in 1 .. k /\ j \in 1 .. k
    BY <1>5, <2>3 DEF Drawn
  <2> QED
    BY <2>1, <2>2, <2>3
<1>9. ASSUME NEW i \in 1 .. k + 1
      PROVE  d[i] < Count(t) /\ d[i] \notin U /\ Page(t, d[i]) = ChunkPage(b, i, Position(b, i))
  <2>1. CASE i = k + 1
    BY <1>3, <1>4, <1>5, <2>1 DEF p
  <2>2. CASE i \in 1 .. k
    <3>1. d[i] = c[i] /\ c[i] \in 0 .. Count(x.store) - 1 /\ c[i] # n /\ c[i] \notin U
      BY <1>5, <1>6, <2>2
    <3>2. Page(x.store, c[i]) = ChunkPage(b, i, Position(b, i))
      BY <2>2 DEF Drawn
    <3> QED
      BY <1>1, <1>3, <1>4, <3>1, <3>2
  <2>3. i = k + 1 \/ i \in 1 .. k
    OBVIOUS
  <2> QED
    BY <2>1, <2>2, <2>3
<1>10. Count(s) <= Count(t)
  <2>1. Count(s) <= Count(x.store) /\ Count(s) \in Nat
    BY StoreParts DEF Drawn, Pool
  <2> QED
    BY <1>1, <1>3, <1>4, <2>1
<1>11. \A m \in U : Page(t, m) = Page(s, m)
  <2> SUFFICES ASSUME NEW m \in U PROVE Page(t, m) = Page(s, m)
    OBVIOUS
  <2>1. m \in 0 .. Count(x.store) - 1
    BY <1>1 DEF Pool, Splits
  <2>2. m # n
    BY <1>3
  <2> QED
    BY <1>3, <2>1, <2>2 DEF Drawn
<1>12. Pool(t, U \cup RangeOf(d))
  <2>1. U \cup RangeOf(d) = V \cup {n}
    BY <1>7
  <2> QED
    BY <1>3, <2>1
<1>13. OneMore(b, x, k + 1) = [store |-> t, pages |-> d]
  BY DEF OneMore, t, d, p, n, c
<1>14. OneMore(b, x, k + 1).store = t /\ OneMore(b, x, k + 1).pages = d
  BY <1>13
<1> QED
  BY <1>5, <1>8, <1>9, <1>10, <1>11, <1>12, <1>14 DEF Drawn

\* The sequence of the allocations exists.
Draws(f, s, b, N) ==
    f = [k \in 0 .. N |-> IF k = 0 THEN [store |-> s, pages |-> <<>>] ELSE OneMore(b, f[k - 1], k)]

LEMMA DrawsExist ==
    ASSUME NEW s, NEW b
    PROVE  \A N \in Nat : \E f : Draws(f, s, b, N)
<1> DEFINE T == {N \in Nat : \E f : Draws(f, s, b, N)}
           x0 == [store |-> s, pages |-> <<>>]
<1>1. 0 \in T
  <2> DEFINE f == [k \in 0 .. 0 |-> x0]
  <2>1. f = [k \in 0 .. 0 |-> IF k = 0 THEN x0 ELSE OneMore(b, f[k - 1], k)]
    OBVIOUS
  <2> HIDE DEF f
  <2> QED
    BY <2>1 DEF Draws
<1>2. ASSUME NEW K \in Nat, K \in T PROVE K + 1 \in T
  <2>1. PICK f : Draws(f, s, b, K)
    BY <1>2
  <2> HIDE DEF T, x0
  <2>2. f = [k \in 0 .. K |-> IF k = 0 THEN x0 ELSE OneMore(b, f[k - 1], k)]
    BY <2>1 DEF Draws, x0
  <2>3. ASSUME NEW k \in 0 .. K, k # 0 PROVE f[k] = OneMore(b, f[k - 1], k)
    BY <2>2, <2>3
  <2> DEFINE g == [k \in 0 .. (K + 1) |-> IF k <= K THEN f[k] ELSE OneMore(b, f[K], K + 1)]
             h == [k \in 0 .. (K + 1) |-> IF k = 0 THEN x0 ELSE OneMore(b, g[k - 1], k)]
  <2>4. ASSUME NEW k \in 0 .. (K + 1) PROVE g[k] = h[k]
    <3>1. CASE k = 0
      BY <2>2, <3>1
    <3>2. CASE k # 0 /\ k <= K
      <4>1. g[k] = f[k] /\ g[k - 1] = f[k - 1] /\ k \in 0 .. K
        BY <3>2
      <4>2. f[k] = OneMore(b, f[k - 1], k)
        BY <2>3, <3>2, <4>1
      <4>3. h[k] = OneMore(b, g[k - 1], k)
        BY <3>2
      <4> QED
        BY <4>1, <4>2, <4>3
    <3>3. CASE k = K + 1
      <4>1. g[k] = OneMore(b, f[K], K + 1) /\ g[k - 1] = f[K]
        BY <3>3
      <4>2. h[k] = OneMore(b, g[k - 1], k)
        BY <3>3
      <4> QED
        BY <3>3, <4>1, <4>2
    <3> QED
      BY <3>1, <3>2, <3>3
  <2>5. g = h
    <3>1. g = [k \in 0 .. (K + 1) |-> g[k]] /\ h = [k \in 0 .. (K + 1) |-> h[k]]
      OBVIOUS
    <3> HIDE DEF g, h
    <3> QED
      BY <2>4, <3>1
  <2>6. Draws(g, s, b, K + 1)
    <3>1. g = [k \in 0 .. (K + 1) |-> IF k = 0 THEN x0 ELSE OneMore(b, g[k - 1], k)]
      BY <2>5
    <3> HIDE DEF g
    <3> QED
      BY <3>1 DEF Draws, x0
  <2> HIDE DEF g, h
  <2> QED
    BY <2>6 DEF T
<1>3. Nat \subseteq T
  <2> HIDE DEF T
  <2> QED
    BY <1>1, <1>2, SetInduction
<1> QED
  BY <1>3

\* All allocations of a chain.
LEMMA AllocChainIs ==
    ASSUME NEW s, NEW U, Pool(s, U), NEW b \in Seq(Nat)
    PROVE  Drawn(s, U, b, AllocChain(s, b), Chunks(Len(b)))
<1> DEFINE N == Chunks(Len(b))
           V == CHOOSE f : Draws(f, s, b, N)
<1>1. N \in Nat
  BY ChunksAre
<1>2. Draws(V, s, b, N)
  <2>1. \E f : Draws(f, s, b, N)
    <3> HIDE DEF N
    <3> QED
      BY <1>1, DrawsExist
  <2> QED
    BY <2>1
<1>3. AllocChain(s, b) = V[N]
  BY DEF AllocChain, Draws, OneMore
<1> HIDE DEF V, N
<1>4. V = [k \in 0 .. N |-> IF k = 0 THEN [store |-> s, pages |-> <<>>] ELSE OneMore(b, V[k - 1], k)]
  BY <1>2 DEF Draws
<1> DEFINE S == {k \in Nat : k <= N => Drawn(s, U, b, V[k], k)}
<1>5. 0 \in S
  <2>1. V[0] = [store |-> s, pages |-> <<>>]
    BY <1>1, <1>4
  <2>2. V[0].store = s /\ V[0].pages = <<>>
    BY <2>1
  <2>3. RangeOf(V[0].pages) = {} /\ Len(V[0].pages) = 0 /\ V[0].pages \in Seq(Nat)
    BY <2>2 DEF RangeOf
  <2>4. U \cup {} = U /\ Count(s) \in Nat
    BY StoreParts DEF Pool
  <2>5. Drawn(s, U, b, V[0], 0)
    <3> DEFINE x == V[0]
    <3>1. x.pages \in Seq(Nat) /\ Len(x.pages) = 0 /\ x.store = s /\ RangeOf(x.pages) = {}
      BY <2>2, <2>3
    <3> HIDE DEF x
    <3>2. Pool(x.store, U \cup RangeOf(x.pages))
      BY <2>4, <3>1, Zenon
    <3>3. Count(s) <= Count(x.store) /\ \A m \in U : Page(x.store, m) = Page(s, m)
      BY <2>4, <3>1
    <3>4. \A i \in 1 .. 0 : FALSE
      OBVIOUS
    <3>5. Drawn(s, U, b, x, 0)
      BY <3>1, <3>2, <3>3, <3>4 DEF Drawn
    <3> QED
      BY <3>5 DEF x
  <2> QED
    BY <2>5
<1>6. ASSUME NEW k \in Nat, k \in S PROVE k + 1 \in S
  <2>1. CASE k + 1 <= N
    <3>1. k + 1 \in 0 .. N /\ k + 1 # 0 /\ (k + 1) - 1 = k /\ k <= N
      BY <1>1, <2>1
    <3>2. V[k + 1] = OneMore(b, V[k], k + 1)
      BY <1>4, <3>1
    <3>3. Drawn(s, U, b, V[k], k)
      BY <1>6, <3>1
    <3>4. Drawn(s, U, b, OneMore(b, V[k], k + 1), k + 1)
      BY <2>1, <3>3, DrawnMore DEF N
    <3> QED
      BY <3>2, <3>4
  <2> QED
    BY <1>1, <2>1
<1> HIDE DEF S
<1>7. Nat \subseteq S
  BY <1>5, <1>6, SetInduction
<1> QED
  BY <1>1, <1>3, <1>7 DEF S, N

\* Relinking writes the link of each page of the chain, and no other page.
LEMMA RelinkIs ==
    ASSUME NEW s \in Stores, NEW c \in Seq(Nat), \A i, j \in 1 .. Len(c) : c[i] = c[j] => i = j,
           \A i \in 1 .. Len(c) : c[i] < Count(s)
    PROVE  /\ Relink(s, c) \in Stores /\ Count(Relink(s, c)) = Count(s) /\ Relink(s, c).free = s.free
           /\ \A k \in 1 .. Len(c) : Page(Relink(s, c), c[k]) = Overwrite(Page(s, c[k]), 0, Link(Behind(c, k)))
           /\ \A l \in (0 .. Count(s) - 1) \ RangeOf(c) : Page(Relink(s, c), l) = Page(s, l)
<1> DEFINE next(k) == IF k < Len(c) THEN c[k + 1] ELSE None
           place(l) == CHOOSE k \in DOMAIN c : c[k] = l
           q == [i \in DOMAIN s.pages |->
                    IF \E k \in DOMAIN c : c[k] = i - 1
                    THEN Overwrite(s.pages[i], 0, Link(next(place(i - 1)))) ELSE s.pages[i]]
           t == Relink(s, c)
<1>1. /\ s = [pages |-> s.pages, hint |-> s.hint, free |-> s.free]
      /\ s.pages \in Seq(PagesW) /\ s.hint \in Nat /\ s.free \in Nat /\ Count(s) \in Nat /\ Len(s.pages) = Count(s)
      /\ \A l \in 0 .. Count(s) - 1 : Page(s, l) \in PagesW
  BY StoreParts DEF Count
<1>2. t = [pages |-> q, hint |-> s.hint, free |-> s.free]
  <2>1. t = [s EXCEPT !.pages = q]
    BY DEF Relink
  <2> HIDE DEF q, t
  <2> QED
    BY <1>1, <2>1
<1>3. DOMAIN s.pages = 1 .. Count(s) /\ DOMAIN c = 1 .. Len(c) /\ Len(c) \in Nat
  BY <1>1
<1> HIDE DEF q, t, next, place
<1>4. ASSUME NEW k \in 1 .. Len(c)
      PROVE  c[k] \in 0 .. Count(s) - 1 /\ next(k) = Behind(c, k) /\ Behind(c, k) \in Nat
  <2>1. c[k] \in 0 .. Count(s) - 1
    BY <1>1, <1>3
  <2>2. CASE k = Len(c)
    BY <1>3, <2>1, <2>2, NoneLink DEF Behind, next
  <2>3. CASE k # Len(c)
    <3>1. k < Len(c) /\ k + 1 \in 1 .. Len(c)
      <4> DEFINE n == Len(c)
      <4>1. n \in Nat /\ k \in 1 .. n /\ k # n
        BY <1>3, <2>3
      <4> HIDE DEF n
      <4>2. k < n /\ k + 1 \in 1 .. n
        BY <4>1
      <4> QED
        BY <4>2 DEF n
    <3>2. c[k + 1] \in Nat
      BY <3>1
    <3> QED
      BY <2>1, <2>3, <3>1, <3>2 DEF Behind, next
  <2> QED
    BY <2>2, <2>3
<1>5. ASSUME NEW k \in 1 .. Len(c) PROVE q[c[k] + 1] = Overwrite(s.pages[c[k] + 1], 0, Link(Behind(c, k)))
  <2> DEFINE i == c[k] + 1
  <2>1. i \in DOMAIN s.pages /\ i - 1 = c[k]
    <3>1. c[k] \in 0 .. Count(s) - 1
      BY <1>4
    <3> QED
      BY <1>1, <1>3, <3>1
  <2>2. place(i - 1) = k
    <3>1. k \in DOMAIN c /\ c[k] = i - 1
      BY <1>3, <2>1
    <3>2. place(i - 1) \in DOMAIN c /\ c[place(i - 1)] = i - 1
      BY <3>1, Zenon DEF place
    <3> HIDE DEF i
    <3> QED
      BY <1>3, <3>1, <3>2
  <2>3. \E m \in DOMAIN c : c[m] = i - 1
    BY <1>3, <2>1
  <2>4. next(place(i - 1)) = Behind(c, k)
    BY <1>4, <2>2
  <2>5. q[i] = Overwrite(s.pages[i], 0, Link(next(place(i - 1))))
    <3> HIDE DEF i
    <3> QED
      BY <2>1, <2>3 DEF q
  <2> QED
    BY <2>4, <2>5
<1>6. ASSUME NEW l \in 0 .. Count(s) - 1, l \notin RangeOf(c) PROVE q[l + 1] = s.pages[l + 1]
  <2>1. l + 1 \in DOMAIN s.pages /\ (l + 1) - 1 = l
    BY <1>1, <1>3
  <2>2. ~ \E k \in DOMAIN c : c[k] = (l + 1) - 1
    BY <1>3, <1>6, <2>1 DEF RangeOf
  <2> QED
    BY <2>1, <2>2 DEF q
<1>7. ASSUME NEW i \in 1 .. Count(s) PROVE q[i] \in PagesW
  <2>1. i - 1 \in 0 .. Count(s) - 1 /\ (i - 1) + 1 = i
    BY <1>1
  <2>2. s.pages[i] \in PagesW
    BY <1>1, <1>3
  <2>3. CASE \E k \in 1 .. Len(c) : c[k] = i - 1
    <3>1. PICK k \in 1 .. Len(c) : c[k] = i - 1
      BY <2>3
    <3>2. q[i] = Overwrite(s.pages[i], 0, Link(Behind(c, k)))
      <4>1. c[k] + 1 = i
        BY <2>1, <3>1
      <4> QED
        BY <1>5, <4>1
    <3>3. Link(Behind(c, k)) \in Seq(Nat)
      BY <1>4, Linked
    <3>4. Len(Link(Behind(c, k))) = 2
      BY <1>4, Linked
    <3> DEFINE w == Link(Behind(c, k))
    <3>5. 0 + Len(w) <= W /\ 0 \in Nat
      BY <3>4, WidthAssumption
    <3> HIDE DEF w
    <3>6. Overwrite(s.pages[i], 0, w) \in PagesW
      <4>1. w \in Seq(Nat)
        BY <3>3 DEF w
      <4> QED
        BY <2>2, <3>5, <4>1, OverwriteIs
    <3> QED
      BY <3>2, <3>6 DEF w
  <2>4. CASE \A k \in 1 .. Len(c) : c[k] # i - 1
    <3>1. i - 1 \notin RangeOf(c)
      BY <2>4 DEF RangeOf
    <3> QED
      BY <1>6, <2>1, <2>2, <3>1
  <2> QED
    BY <2>3, <2>4
<1>8. DOMAIN q = 1 .. Count(s) /\ q = [i \in 1 .. Count(s) |-> q[i]]
  BY <1>3 DEF q
<1>9. q \in Seq(PagesW)
  <2> DEFINE n == Count(s)
  <2>1. n \in Nat /\ q = [i \in 1 .. n |-> q[i]] /\ \A i \in 1 .. n : q[i] \in PagesW
    BY <1>1, <1>7, <1>8
  <2> HIDE DEF n
  <2> QED
    BY <2>1
<1>10. Len(q) = Count(s)
  BY <1>1, <1>8, <1>9
<1>11. t.pages = q /\ t.free = s.free /\ t.hint = s.hint /\ t \in Stores
  BY <1>1, <1>2, <1>9 DEF Stores
<1>12. Count(t) = Count(s)
  BY <1>10, <1>11 DEF Count
<1>13. \A l : Page(t, l) = q[l + 1] /\ Page(s, l) = s.pages[l + 1]
  BY <1>11 DEF Page
<1>14. \A k \in 1 .. Len(c) : Page(t, c[k]) = Overwrite(Page(s, c[k]), 0, Link(Behind(c, k)))
  BY <1>5, <1>13
<1>15. \A l \in (0 .. Count(s) - 1) \ RangeOf(c) : Page(t, l) = Page(s, l)
  BY <1>6, <1>13
<1> QED
  BY <1>11, <1>12, <1>14, <1>15 DEF t

\* write_blob_chain: the new chain bears the value; no page in use changes.
LEMMA WriteChainIs ==
    ASSUME NEW s, NEW U, Pool(s, U), NEW b \in Seq(Nat), Len(b) >= 1,
           Count(WriteChain(s, b).store) < None
    PROVE  \E c : /\ Strand(WriteChain(s, b).store, c, b)
                  /\ WriteChain(s, b).rid = <<c[1], Marker>>
                  /\ RangeOf(c) \cap U = {}
                  /\ Pool(WriteChain(s, b).store, U \cup RangeOf(c))
                  /\ \A m \in U : Page(WriteChain(s, b).store, m) = Page(s, m)
                  /\ Count(s) <= Count(WriteChain(s, b).store)
                  /\ c = AllocChain(s, b).pages
<1> DEFINE x == AllocChain(s, b)
           N == Chunks(Len(b))
           c == x.pages
           u == x.store
           t == Relink(u, c)
<1>1. Drawn(s, U, b, x, N) /\ N \in Nat /\ Len(b) \in Nat
  <2> HIDE DEF x
  <2> QED
    BY AllocChainIs, ChunksAre DEF x
<1>2. WriteChain(s, b).store = t /\ WriteChain(s, b).rid = <<c[1], Marker>>
  BY DEF WriteChain
<1>3. N >= 1
  <2>1. N * ChunkSize >= Len(b) /\ ChunkSize \in Nat
    BY <1>1, ChunksAre
  <2>2. CASE N = 0
    BY <2>1, <2>2, <1>1
  <2> HIDE DEF N
  <2> QED
    BY <1>1, <2>2
<1> HIDE DEF x, N
<1>4. /\ c \in Seq(Nat) /\ Len(c) = N
      /\ \A i, j \in 1 .. N : c[i] = c[j] => i = j
      /\ \A i \in 1 .. N : /\ c[i] < Count(u) /\ c[i] \notin U
                           /\ Page(u, c[i]) = ChunkPage(b, i, Position(b, i))
      /\ Count(s) <= Count(u)
      /\ \A m \in U : Page(u, m) = Page(s, m)
      /\ Pool(u, U \cup RangeOf(c))
  BY <1>1 DEF Drawn
<1> HIDE DEF c, u
<1>5. u \in Stores /\ Count(u) \in Nat
  BY <1>4, StoreParts DEF Pool
<1>6. /\ t \in Stores /\ Count(t) = Count(u) /\ t.free = u.free
      /\ \A k \in 1 .. Len(c) : Page(t, c[k]) = Overwrite(Page(u, c[k]), 0, Link(Behind(c, k)))
      /\ \A l \in (0 .. Count(u) - 1) \ RangeOf(c) : Page(t, l) = Page(u, l)
  BY <1>4, <1>5, RelinkIs
<1> HIDE DEF t
<1>7. Count(u) < None
  BY <1>2, <1>6
<1>8. RangeOf(c) \cap U = {}
  BY <1>4 DEF RangeOf
<1>9. Pool(t, U \cup RangeOf(c))
  BY <1>4, <1>6, PoolKept
<1>10. U \subseteq 0 .. Count(u) - 1
  BY <1>4 DEF Pool, Splits
<1>11. \A m \in U : Page(t, m) = Page(s, m)
  BY <1>4, <1>6, <1>8, <1>10
<1>12. ASSUME NEW k \in 1 .. Len(c)
       PROVE  /\ c[k] < Count(t) /\ c[k] # None
              /\ ChainPage(Page(t, c[k]), Chunk(b, k), Behind(c, k))
  <2>1. c[k] \in Nat /\ c[k] < Count(u) /\ Page(u, c[k]) = ChunkPage(b, k, Position(b, k))
    BY <1>4
  <2>2. c[k] # None
    <3> DEFINE m == c[k]
               n == Count(u)
    <3>1. m \in Nat /\ n \in Nat /\ m < n /\ n < None
      BY <1>5, <1>7, <2>1
    <3> HIDE DEF m, n
    <3>2. m # None
      BY <3>1, NoneLink
    <3> QED
      BY <3>2 DEF m
  <2>3. k \in Nat \ {0} /\ Position(b, k) \in Nat
    BY NoneLink DEF Position
  <2>4. Page(u, c[k]) \in PagesW /\ Bears(Page(u, c[k]), Chunk(b, k))
    BY <2>1, <2>3, ChunkPageIs
  <2>5. Behind(c, k) \in Nat
    <3>1. k # Len(c) => k + 1 \in 1 .. Len(c)
      BY <1>4
    <3> QED
      BY <1>4, <3>1, NoneLink DEF Behind
  <2>6. ChainPage(Overwrite(Page(u, c[k]), 0, Link(Behind(c, k))), Chunk(b, k), Behind(c, k))
    BY <2>4, <2>5, LinkWritten
  <2> QED
    BY <1>6, <2>1, <2>2, <2>6
<1>13. Strand(t, c, b)
  BY <1>1, <1>3, <1>4, <1>12 DEF Strand, N
<1>14. Count(s) <= Count(t)
  BY <1>4, <1>6
<1> QED
  BY <1>2, <1>8, <1>9, <1>11, <1>13, <1>14 DEF c, x

-----------------------------------------------------------------------------
\* Freeing chains.

LEMMA BackOffIs ==
    ASSUME NEW s, NEW U, Pool(s, U), NEW l \in Nat
    PROVE  /\ Pool(BackOffHint(s, l), U) /\ Count(BackOffHint(s, l)) = Count(s)
           /\ \A m \in 0 .. Count(s) - 1 : Page(BackOffHint(s, l), m) = Page(s, m)
<1>1. CASE l < HintOf(s)
  BY <1>1, HintKept DEF BackOffHint
<1>2. CASE ~ (l < HintOf(s))
  BY <1>2 DEF BackOffHint
<1> QED
  BY <1>1, <1>2

\* Of the pages U of s, the first k of the chain c are free.
Shed(s, U, c, x, k) ==
    LET kept == U \ {c[i] : i \in 1 .. k}
    IN  /\ Pool(x, kept) /\ Count(x) = Count(s)
        /\ \A m \in kept : Page(x, m) = Page(s, m)

\* One step of free_blob_chain.
OneLess(c, x, k) == BackOffHint(FreePage(x, c[k]), c[k])

LEMMA ShedMore ==
    ASSUME NEW s, NEW U, Pool(s, U), NEW c \in Seq(Nat), \A i, j \in 1 .. Len(c) : c[i] = c[j] => i = j,
           \A i \in 1 .. Len(c) : c[i] \in U /\ c[i] # None,
           NEW x, NEW k \in Nat, k + 1 \in 1 .. Len(c), Shed(s, U, c, x, k)
    PROVE  Shed(s, U, c, OneLess(c, x, k + 1), k + 1)
<1> DEFINE A == U \ {c[i] : i \in 1 .. k}
           B == U \ {c[i] : i \in 1 .. k + 1}
           l == c[k + 1]
           y == FreePage(x, l)
           z == BackOffHint(y, l)
<1>1. Pool(x, A) /\ Count(x) = Count(s) /\ \A m \in A : Page(x, m) = Page(s, m)
  BY DEF Shed
<1>2. l \in A /\ l # None /\ l \in Nat
  <2>1. \A i \in 1 .. k : i \in 1 .. Len(c) /\ i # k + 1
    OBVIOUS
  <2>2. \A i \in 1 .. k : c[i] # c[k + 1]
    BY <2>1
  <2> QED
    BY <2>2
<1>3. B = A \ {l}
  <2>1. \A i : i \in 1 .. k + 1 <=> i \in 1 .. k \/ i = k + 1
    OBVIOUS
  <2> QED
    BY <2>1
<1> HIDE DEF A, B, l
<1>4. /\ Count(y) = Count(x) /\ Pool(y, A \ {l})
      /\ \A m \in 0 .. Count(x) - 1 : m # l => Page(y, m) = Page(x, m)
  BY <1>1, <1>2, FreePool
<1> HIDE DEF y
<1>5. /\ Pool(z, A \ {l}) /\ Count(z) = Count(y)
      /\ \A m \in 0 .. Count(y) - 1 : Page(z, m) = Page(y, m)
  BY <1>2, <1>4, BackOffIs
<1>6. \A m \in B : m \in 0 .. Count(x) - 1 /\ m # l /\ m \in A
  BY <1>1, <1>3 DEF Pool, Splits
<1> HIDE DEF z
<1>7. \A m \in B : Page(z, m) = Page(s, m)
  BY <1>1, <1>4, <1>5, <1>6
<1>8. Pool(z, B) /\ Count(z) = Count(s)
  BY <1>1, <1>3, <1>4, <1>5
<1>9. z = OneLess(c, x, k + 1)
  BY DEF z, y, l, OneLess
<1> QED
  BY <1>7, <1>8, <1>9 DEF Shed, B

\* The sequence of the stores exists.
Sheds(f, s, c, N) == f = [k \in 0 .. N |-> IF k = 0 THEN s ELSE OneLess(c, f[k - 1], k)]

LEMMA ShedsExist ==
    ASSUME NEW s, NEW c
    PROVE  \A N \in Nat : \E f : Sheds(f, s, c, N)
<1> DEFINE T == {N \in Nat : \E f : Sheds(f, s, c, N)}
<1>1. 0 \in T
  <2> DEFINE f == [k \in 0 .. 0 |-> s]
  <2>1. f = [k \in 0 .. 0 |-> IF k = 0 THEN s ELSE OneLess(c, f[k - 1], k)]
    OBVIOUS
  <2> HIDE DEF f
  <2> QED
    BY <2>1 DEF Sheds
<1>2. ASSUME NEW K \in Nat, K \in T PROVE K + 1 \in T
  <2>1. PICK f : Sheds(f, s, c, K)
    BY <1>2
  <2> HIDE DEF T
  <2>2. f = [k \in 0 .. K |-> IF k = 0 THEN s ELSE OneLess(c, f[k - 1], k)]
    BY <2>1 DEF Sheds
  <2>3. ASSUME NEW k \in 0 .. K, k # 0 PROVE f[k] = OneLess(c, f[k - 1], k)
    BY <2>2, <2>3
  <2> DEFINE g == [k \in 0 .. (K + 1) |-> IF k <= K THEN f[k] ELSE OneLess(c, f[K], K + 1)]
             h == [k \in 0 .. (K + 1) |-> IF k = 0 THEN s ELSE OneLess(c, g[k - 1], k)]
  <2>4. ASSUME NEW k \in 0 .. (K + 1) PROVE g[k] = h[k]
    <3>1. CASE k = 0
      BY <2>2, <3>1
    <3>2. CASE k # 0 /\ k <= K
      <4>1. g[k] = f[k] /\ g[k - 1] = f[k - 1] /\ k \in 0 .. K
        BY <3>2
      <4>2. f[k] = OneLess(c, f[k - 1], k)
        BY <2>3, <3>2, <4>1
      <4>3. h[k] = OneLess(c, g[k - 1], k)
        BY <3>2
      <4> QED
        BY <4>1, <4>2, <4>3
    <3>3. CASE k = K + 1
      <4>1. g[k] = OneLess(c, f[K], K + 1) /\ g[k - 1] = f[K]
        BY <3>3
      <4>2. h[k] = OneLess(c, g[k - 1], k)
        BY <3>3
      <4> QED
        BY <3>3, <4>1, <4>2
    <3> QED
      BY <3>1, <3>2, <3>3
  <2>5. g = h
    <3>1. g = [k \in 0 .. (K + 1) |-> g[k]] /\ h = [k \in 0 .. (K + 1) |-> h[k]]
      OBVIOUS
    <3> HIDE DEF g, h
    <3> QED
      BY <2>4, <3>1
  <2>6. Sheds(g, s, c, K + 1)
    <3>1. g = [k \in 0 .. (K + 1) |-> IF k = 0 THEN s ELSE OneLess(c, g[k - 1], k)]
      BY <2>5
    <3> HIDE DEF g
    <3> QED
      BY <3>1 DEF Sheds
  <2> HIDE DEF g, h
  <2> QED
    BY <2>6 DEF T
<1>3. Nat \subseteq T
  <2> HIDE DEF T
  <2> QED
    BY <1>1, <1>2, SetInduction
<1> QED
  BY <1>3

\* free_blob_chain: the pages of the chain are free, the others are as they were.
LEMMA FreeChainIs ==
    ASSUME NEW s, NEW U, Pool(s, U), NEW c, NEW b, Strand(s, c, b), RangeOf(c) \subseteq U,
           ~ IsFreeMarked(Page(s, c[1]))
    PROVE  Shed(s, U, c, FreeChain(s, c[1]), Len(c))
<1> DEFINE N == Len(c)
           V == CHOOSE f : Sheds(f, s, c, N)
<1>1. N \in Nat /\ c \in Seq(Nat) /\ s \in Stores
  BY DEF Strand, Pool
<1>2. Chain(s, c[1]) = c /\ Ends(s, c)
  BY <1>1, StrandIs
<1>3. Sheds(V, s, c, N)
  <2>1. \E f : Sheds(f, s, c, N)
    <3> HIDE DEF N
    <3> QED
      BY <1>1, ShedsExist
  <2> QED
    BY <2>1
<1>4. FreeChain(s, c[1]) = V[N]
  BY <1>2 DEF FreeChain, Sheds, OneLess
<1> HIDE DEF V
<1>5. V = [k \in 0 .. N |-> IF k = 0 THEN s ELSE OneLess(c, V[k - 1], k)]
  BY <1>3 DEF Sheds
<1>6. \A i, j \in 1 .. Len(c) : c[i] = c[j] => i = j
  BY DEF Strand
<1>7. \A i \in 1 .. Len(c) : c[i] \in U /\ c[i] # None
  BY DEF Strand, RangeOf
<1> DEFINE S == {k \in Nat : k <= N => Shed(s, U, c, V[k], k)}
<1>8. 0 \in S
  <2>1. V[0] = s
    BY <1>1, <1>5
  <2>2. U \ {c[i] : i \in 1 .. 0} = U
    OBVIOUS
  <2>3. Shed(s, U, c, s, 0)
    BY <2>2 DEF Shed
  <2> QED
    BY <2>1, <2>3
<1>9. ASSUME NEW k \in Nat, k \in S PROVE k + 1 \in S
  <2>1. CASE k + 1 <= N
    <3>1. k + 1 \in 0 .. N /\ k + 1 # 0 /\ (k + 1) - 1 = k /\ k <= N /\ k + 1 \in 1 .. Len(c)
      BY <1>1, <2>1
    <3>2. V[k + 1] = OneLess(c, V[k], k + 1)
      BY <1>5, <3>1
    <3>3. Shed(s, U, c, V[k], k)
      BY <1>9, <3>1
    <3>4. Shed(s, U, c, OneLess(c, V[k], k + 1), k + 1)
      BY <1>1, <1>6, <1>7, <3>1, <3>3, ShedMore
    <3> QED
      BY <3>2, <3>4
  <2> QED
    BY <1>1, <2>1
<1> HIDE DEF S
<1>10. Nat \subseteq S
  BY <1>8, <1>9, SetInduction
<1> QED
  BY <1>1, <1>4, <1>10 DEF S

-----------------------------------------------------------------------------
\* The free list.

LEMMA NoBeginning == ASSUME NEW q \in Seq(Nat) PROVE SubSeq(q, 1, 0) = <<>> /\ SubSeq(q, 1, Len(q)) = q
OBVIOUS

\* The walk of the free list gives its pages in order.
LEMMA FreeListIs ==
    ASSUME NEW q, FreeLinks(store, q), Count(store) \in Nat
    PROVE  FreeList = q
<1> DEFINE N == Count(store) + 1
           next(z) == IF z = <<>> THEN store.free ELSE LinkOf(Page(store, z[Len(z)]), 2)
           Onward(z, k) == IF next(z) = None \/ Len(z) < k - 1 THEN z ELSE Append(z, next(z))
           Step(w, k) == IF k = 0 THEN <<>> ELSE Onward(w[k - 1], k)
           Walks(w) == w = [k \in Nat |-> Step(w, k)]
           To(k) == IF k < Len(q) THEN k ELSE Len(q)
           g == [k \in Nat |-> SubSeq(q, 1, To(k))]
<1>1. q \in Seq(Nat) /\ Len(q) \in Nat /\ Len(q) <= Count(store)
  <2>1. q \in Seq(Nat) /\ Len(q) \in Nat
    BY DEF FreeLinks
  <2>2. Len(q) <= Count(store)
    BY <2>1, ChainShort DEF FreeLinks
  <2> QED
    BY <2>1, <2>2
<1>2. \A k \in 1 .. Len(q) : /\ q[k] \in Nat /\ q[k] # None
                            /\ LinkOf(Page(store, q[k]), 2) = IF k = Len(q) THEN None ELSE q[k + 1]
  BY <1>1 DEF FreeLinks
<1>3. store.free = IF q = <<>> THEN None ELSE q[1]
  BY DEF FreeLinks
<1>4. SubSeq(q, 1, 0) = <<>> /\ SubSeq(q, 1, Len(q)) = q
  BY <1>1, NoBeginning
<1>5. next(q) = None
  <2>1. CASE q = <<>>
    BY <1>3, <2>1
  <2>2. CASE q # <<>>
    <3>1. Len(q) \in 1 .. Len(q)
      BY <1>1, <2>2
    <3> QED
      BY <1>2, <2>2, <3>1
  <2> QED
    BY <2>1, <2>2
<1>6. ASSUME NEW k \in Nat, k < Len(q) PROVE next(SubSeq(q, 1, k)) = q[k + 1] /\ q[k + 1] # None
  <2> DEFINE z == SubSeq(q, 1, k)
  <2>1. k + 1 \in 1 .. Len(q)
    BY <1>1, <1>6
  <2>2. q[k + 1] # None
    BY <1>2, <2>1
  <2>3. CASE k = 0
    <3>1. z = <<>>
      BY <1>4, <2>3
    <3>2. q # <<>>
      BY <1>1, <1>6
    <3> QED
      BY <1>3, <2>2, <2>3, <3>1, <3>2
  <2>4. CASE k # 0
    <3>1. Len(z) = k /\ z[k] = q[k]
      BY <1>1, <1>6, <2>4, Beginnings
    <3>2. z # <<>>
      BY <2>4, <3>1
    <3>3. k \in 1 .. Len(q) /\ k # Len(q)
      BY <1>1, <1>6, <2>4
    <3>4. LinkOf(Page(store, q[k]), 2) = q[k + 1]
      BY <1>2, <3>3
    <3> HIDE DEF z
    <3>5. next(z) = q[k + 1]
      BY <3>1, <3>2, <3>4
    <3> QED
      BY <2>2, <3>5 DEF z
  <2> QED
    BY <2>3, <2>4
<1> HIDE DEF next
<1>7. \A k \in Nat : g[k] = Step(g, k)
  <2> SUFFICES ASSUME NEW k \in Nat PROVE g[k] = Step(g, k)
    OBVIOUS
  <2>1. CASE k = 0
    <3>1. To(0) = 0
      BY <1>1
    <3>2. g[0] = SubSeq(q, 1, 0)
      BY <3>1
    <3> QED
      BY <1>4, <2>1, <3>2
  <2>2. CASE k # 0
    <3>0. k - 1 \in Nat
      BY <2>2
    <3>1. CASE Len(q) <= k - 1
      <4>1. To(k - 1) = Len(q) /\ To(k) = Len(q)
        BY <1>1, <3>0, <3>1
      <4>2. g[k - 1] = q /\ g[k] = q
        BY <1>4, <3>0, <4>1
      <4>3. Onward(q, k) = q
        BY <1>5, Zenon
      <4> QED
        BY <2>2, <4>2, <4>3
    <3>2. CASE k - 1 < Len(q)
      <4>1. To(k - 1) = k - 1 /\ To(k) = k
        BY <1>1, <3>0, <3>2
      <4> DEFINE z == SubSeq(q, 1, k - 1)
      <4>2. g[k - 1] = z /\ g[k] = SubSeq(q, 1, k)
        BY <3>0, <4>1
      <4>3. (k - 1) + 1 = k
        OBVIOUS
      <4>4. Len(z) = k - 1 /\ SubSeq(q, 1, k) = Append(z, q[k])
        BY <1>1, <3>0, <3>2, <4>3, Beginnings
      <4>5. next(z) = q[k] /\ q[k] # None
        BY <1>6, <3>0, <3>2, <4>3
      <4> HIDE DEF z
      <4>6. ~ (Len(z) < k - 1)
        BY <3>0, <4>4
      <4>7. Onward(z, k) = Append(z, q[k])
        BY <4>5, <4>6, Zenon
      <4> QED
        BY <2>2, <4>2, <4>4, <4>7
    <3> QED
      BY <1>1, <3>0, <3>1, <3>2
  <2> QED
    BY <2>1, <2>2
<1>8. Walks(g)
  <2> DEFINE h == [k \in Nat |-> Step(g, k)]
  <2>1. \A k \in Nat : g[k] = h[k]
    BY <1>7
  <2> HIDE DEF Step
  <2> QED
    BY <2>1
<1> HIDE DEF g, Onward
<1>9. ASSUME NEW w, Walks(w) PROVE \A k \in Nat : w[k] = g[k]
  <2> DEFINE S == {k \in Nat : w[k] = g[k]}
  <2>1. \A k \in Nat : w[k] = Step(w, k) /\ g[k] = Step(g, k)
    BY <1>7, <1>9
  <2>2. 0 \in S
    BY <2>1
  <2>3. ASSUME NEW k \in Nat, k \in S PROVE k + 1 \in S
    <3>1. k + 1 \in Nat /\ (k + 1) - 1 = k /\ k + 1 # 0
      OBVIOUS
    <3>2. w[k + 1] = Step(w, k + 1) /\ g[k + 1] = Step(g, k + 1)
      BY <2>1, <3>1
    <3>3. w[k] = g[k]
      BY <2>3
    <3> HIDE DEF S
    <3>4. Step(w, k + 1) = Step(g, k + 1)
      BY <3>1, <3>3
    <3>5. w[k + 1] = g[k + 1]
      BY <3>2, <3>4
    <3> QED
      BY <3>5, <3>1 DEF S
  <2> HIDE DEF S
  <2>4. Nat \subseteq S
    BY <2>2, <2>3, SetInduction
  <2> QED
    BY <2>4 DEF S
<1> DEFINE V == CHOOSE w : Walks(w)
<1>10. Walks(V)
  <2> HIDE DEF Walks
  <2> QED
    BY <1>8
<1>11. FreeList = V[N]
  BY DEF FreeList, Onward, next
<1>12. V[N] = g[N]
  <2>1. N \in Nat
    OBVIOUS
  <2> HIDE DEF Walks, V, N
  <2> QED
    BY <1>9, <1>10, <2>1
<1>13. g[N] = q
  <2>1. To(N) = Len(q) /\ N \in Nat
    BY <1>1
  <2>2. g[N] = SubSeq(q, 1, To(N))
    BY <2>1 DEF g
  <2> QED
    BY <1>4, <2>1, <2>2
<1> QED
  BY <1>11, <1>12, <1>13

-----------------------------------------------------------------------------
\* The pages in use: L are the shelves, C the chains by their first page, B their words.

Shelves(s, L) == \A l \in DOMAIN L : Shelf(Page(s, l), L[l]) /\ DOMAIN L[l] # {}

\* The words of a large value, as BytesAre has them.
Wordy(b) == b \in Seq(Nat) /\ Len(b) > W - 3 /\ \A i \in 1 .. Len(b) : b[i] > 16384 /\ b[i] < Marker

\* No link of the chain c lets its page pass for one of another kind.
Cleared(c) == \A k \in 2 .. Len(c) : Clear(c[k])

Chains(s, C, B) ==
    /\ DOMAIN B = DOMAIN C
    /\ \A h \in DOMAIN C : Strand(s, C[h], B[h]) /\ C[h][1] = h /\ Wordy(B[h]) /\ Cleared(C[h])
    /\ \A g, h \in DOMAIN C : g # h => RangeOf(C[g]) \cap RangeOf(C[h]) = {}

On(C) == {m \in Nat : \E h \in DOMAIN C : m \in RangeOf(C[h])}

Layout(s, L, C, B) ==
    /\ Shelves(s, L) /\ Chains(s, C, B)
    /\ DOMAIN L \cap On(C) = {}
    /\ Pool(s, DOMAIN L \cup On(C))
    /\ Count(s) < None

LEMMA LayoutParts ==
    ASSUME NEW s, NEW L, NEW C, NEW B, Layout(s, L, C, B)
    PROVE  /\ s \in Stores /\ Count(s) \in Nat
           /\ \A l \in DOMAIN L \cup On(C) : l \in 0 .. Count(s) - 1 /\ l # None
           /\ \A h \in DOMAIN C : RangeOf(C[h]) \subseteq On(C) /\ h \in RangeOf(C[h]) /\ h \in On(C)
<1>1. s \in Stores /\ Count(s) \in Nat
  BY StoreParts DEF Layout, Pool
<1>2. \A l \in DOMAIN L \cup On(C) : l \in 0 .. Count(s) - 1
  BY DEF Layout, Pool, Splits
<1>3. \A l \in DOMAIN L \cup On(C) : l # None
  BY <1>1, <1>2, NoneLink DEF Layout
<1>4. ASSUME NEW h \in DOMAIN C PROVE RangeOf(C[h]) \subseteq On(C) /\ h \in RangeOf(C[h]) /\ h \in On(C)
  <2>1. C[h] \in Seq(Nat) /\ Len(C[h]) >= 1 /\ C[h][1] = h
    BY DEF Layout, Chains, Strand
  <2>2. \A i \in 1 .. Len(C[h]) : C[h][i] \in Nat
    BY <2>1
  <2>3. 1 \in 1 .. Len(C[h])
    BY <2>1
  <2>4. RangeOf(C[h]) \subseteq Nat
    BY <2>2 DEF RangeOf
  <2> QED
    BY <2>1, <2>3, <2>4 DEF RangeOf, On
<1> QED
  BY <1>1, <1>2, <1>3, <1>4

LEMMA StrandKept ==
    ASSUME NEW s, NEW t, NEW c, NEW b, Strand(s, c, b), Count(s) \in Nat, Count(t) \in Nat, Count(s) <= Count(t),
           \A m \in RangeOf(c) : Page(t, m) = Page(s, m)
    PROVE  Strand(t, c, b)
<1>1. \A k \in 1 .. Len(c) : c[k] \in RangeOf(c) /\ c[k] \in Nat /\ c[k] < Count(s)
  BY DEF Strand, RangeOf
<1>2. \A k \in 1 .. Len(c) : c[k] < Count(t) /\ Page(t, c[k]) = Page(s, c[k])
  BY <1>1
<1> QED
  BY <1>2 DEF Strand

LEMMA ChainsKept ==
    ASSUME NEW s, NEW t, NEW C, NEW B, Chains(s, C, B), Count(s) \in Nat, Count(t) \in Nat, Count(s) <= Count(t),
           \A m \in On(C) : Page(t, m) = Page(s, m)
    PROVE  Chains(t, C, B)
<1>1. ASSUME NEW h \in DOMAIN C PROVE Strand(t, C[h], B[h])
  <2>1. Strand(s, C[h], B[h]) /\ C[h] \in Seq(Nat)
    BY DEF Chains, Strand
  <2>2. \A i \in 1 .. Len(C[h]) : C[h][i] \in Nat
    BY <2>1
  <2>3. RangeOf(C[h]) \subseteq On(C)
    BY <2>2 DEF RangeOf, On
  <2> QED
    BY <2>1, <2>3, StrandKept
<1> QED
  BY <1>1 DEF Chains

\* A page of a chain is neither a page of slots nor, but for the last, a free one.
LEMMA ChainNotSlots ==
    ASSUME NEW s, NEW L, NEW C, NEW B, Layout(s, L, C, B), NEW h \in DOMAIN C
    PROVE  /\ \A m \in RangeOf(C[h]) : ~ IsValid(Page(s, m))
           /\ ~ IsFreeMarked(Page(s, h)) /\ Len(C[h]) >= 2
<1> DEFINE c == C[h]
           b == B[h]
<1>1. Strand(s, c, b) /\ Wordy(b) /\ c[1] = h /\ Cleared(c)
  BY DEF Layout, Chains
<1>2. s \in Stores /\ Count(s) \in Nat
  BY LayoutParts
<1> HIDE DEF c, b
<1>3. c \in Seq(Nat) /\ Len(c) \in Nat /\ Len(c) = Chunks(Len(b)) /\ b \in Seq(Nat) /\ Len(b) \in Nat
  BY <1>1 DEF Strand
<1>4. \A k \in 1 .. Len(c) : c[k] \in Nat /\ c[k] < Count(s) /\ c[k] # None
  BY <1>1, <1>3 DEF Strand
<1>5. ASSUME NEW k \in 1 .. Len(c)
      PROVE  ~ IsValid(Page(s, c[k])) /\ (k # Len(c) => ~ IsFreeMarked(Page(s, c[k])))
  <2> DEFINE p == Page(s, c[k])
             x == Chunk(b, k)
             n == Behind(c, k)
  <2>1. ChainPage(p, x, n)
    BY <1>1 DEF Strand
  <2>2. p \in PagesW
    <3>1. c[k] \in 0 .. Count(s) - 1
      BY <1>2, <1>4
    <3> QED
      BY <1>2, <3>1, StoreParts
  <2>3. n \in Nat /\ (n = None \/ Clear(n)) /\ (k # Len(c) => n # None)
    <3>1. CASE k = Len(c)
      BY <3>1, NoneLink DEF Behind
    <3>2. CASE k # Len(c)
      <4>1. k + 1 \in 2 .. Len(c) /\ k + 1 \in 1 .. Len(c)
        BY <1>3, <3>2
      <4>2. n = c[k + 1]
        BY <3>2 DEF Behind
      <4> HIDE DEF n
      <4>3. n \in Nat /\ Clear(n)
        BY <1>1, <1>4, <4>1, <4>2 DEF Cleared
      <4>4. n # None
        BY <1>4, <4>1, <4>2
      <4> QED
        BY <4>3, <4>4
    <3> QED
      BY <3>1, <3>2
  <2>4. Len(x) >= 1 /\ x[1] > 16384 /\ x[1] < Marker
    <3>1. k \in Nat \ {0} /\ (k - 1) * ChunkSize < Len(b)
      BY <1>3, ChunksAre
    <3>2. Len(x) >= 1 /\ (k - 1) * ChunkSize + 1 \in 1 .. Len(b) /\ x[1] = b[(k - 1) * ChunkSize + 1]
      BY <1>3, <3>1, ChunkIs
    <3> HIDE DEF x
    <3> QED
      BY <1>1, <3>2 DEF Wordy
  <2> HIDE DEF p, x, n
  <2>5. ~ IsValid(p) /\ (n # None => ~ IsFreeMarked(p))
    BY <2>1, <2>2, <2>3, <2>4, ChainPageSpoiled
  <2> QED
    BY <2>3, <2>5 DEF p
<1>6. Len(c) >= 2
  <2>1. Len(b) > ChunkSize
    BY <1>1, <1>3, WidthAssumption DEF Wordy, ChunkSize
  <2> QED
    BY <1>3, <2>1, ChunksAre
<1>7. \A m \in RangeOf(c) : ~ IsValid(Page(s, m))
  BY <1>5 DEF RangeOf
<1>8. ~ IsFreeMarked(Page(s, c[1]))
  BY <1>3, <1>5, <1>6
<1> QED
  BY <1>1, <1>6, <1>7, <1>8 DEF c

\* What reads as a page of slots is one.
LEMMA ValidShelf ==
    ASSUME NEW s, NEW L, NEW C, NEW B, Layout(s, L, C, B),
           NEW l \in 0 .. Count(s) - 1, IsValid(Page(s, l))
    PROVE  l \in DOMAIN L
<1>1. PICK q : FreeLinks(s, q) /\ Splits(s, DOMAIN L \cup On(C), q)
  BY DEF Layout, Pool
<1>2. l \notin On(C)
  <2> SUFFICES ASSUME l \in On(C) PROVE FALSE
    OBVIOUS
  <2>1. PICK h \in DOMAIN C : l \in RangeOf(C[h])
    BY DEF On
  <2> QED
    BY <2>1, ChainNotSlots
<1>3. \A i \in 1 .. Len(q) : q[i] # l
  BY <1>1 DEF FreeLinks, IsFreeMarked, IsValid
<1> QED
  BY <1>1, <1>2, <1>3 DEF Splits

-----------------------------------------------------------------------------
\* Which record has which words.

Has(L, B, r, b) ==
    /\ r = <<r[1], r[2]>>
    /\ IF r[2] = Marker THEN r[1] \in DOMAIN B /\ B[r[1]] = b
       ELSE r[1] \in DOMAIN L /\ r[2] \in DOMAIN L[r[1]] /\ L[r[1]][r[2]] = b

\* The record r with the words b is new.
Gains(L, B, L1, B1, r, b) ==
    /\ r = <<r[1], r[2]>>
    /\ \A x : ~ Has(L, B, r, x)
    /\ \A q, x : Has(L1, B1, q, x) <=> Has(L, B, q, x) \/ (q = r /\ x = b)

\* The record r is gone.
Loses(L, B, L1, B1, r) == \A q, x : Has(L1, B1, q, x) <=> Has(L, B, q, x) /\ q # r

LEMMA GainsSlot ==
    ASSUME NEW L, NEW B, NEW l \in DOMAIN L, NEW i, i \notin DOMAIN L[l], i # Marker, NEW b
    PROVE  LET L1 == With(L, l, With(L[l], i, b))
           IN  Gains(L, B, L1, B, <<l, i>>, b) /\ DOMAIN L1 = DOMAIN L
<1> DEFINE D == With(L[l], i, b)
           L1 == With(L, l, D)
           r == <<l, i>>
<1>1. DOMAIN D = DOMAIN L[l] \cup {i} /\ D[i] = b /\ \A j \in DOMAIN L[l] : D[j] = L[l][j]
  BY DEF With
<1> HIDE DEF D
<1>2. DOMAIN L1 = DOMAIN L /\ L1[l] = D /\ \A m \in DOMAIN L : m # l => L1[m] = L[m]
  BY DEF With
<1> HIDE DEF L1
<1>3. r[1] = l /\ r[2] = i /\ r = <<r[1], r[2]>>
  OBVIOUS
<1>4. ASSUME NEW q, NEW x PROVE Has(L1, B, q, x) <=> Has(L, B, q, x) \/ (q = r /\ x = b)
  <2>1. CASE ~ (q = <<q[1], q[2]>>)
    BY <1>3, <2>1 DEF Has
  <2>2. CASE q = <<q[1], q[2]>> /\ q[2] = Marker
    <3>1. q # r
      BY <1>3, <2>2
    <3> QED
      BY <2>2, <3>1 DEF Has
  <2>3. CASE q = <<q[1], q[2]>> /\ q[2] # Marker
    <3>1. q = r <=> q[1] = l /\ q[2] = i
      BY <1>3, <2>3
    <3>2. Has(L, B, q, x) <=> q[1] \in DOMAIN L /\ q[2] \in DOMAIN L[q[1]] /\ L[q[1]][q[2]] = x
      BY <2>3 DEF Has
    <3>3. Has(L1, B, q, x) <=> q[1] \in DOMAIN L1 /\ q[2] \in DOMAIN L1[q[1]] /\ L1[q[1]][q[2]] = x
      BY <2>3 DEF Has
    <3> HIDE DEF r
    <3> QED
      BY <1>1, <1>2, <3>1, <3>2, <3>3
  <2> QED
    BY <2>1, <2>2, <2>3
<1>5. \A x : ~ Has(L, B, r, x)
  BY <1>3 DEF Has
<1> QED
  BY <1>2, <1>3, <1>4, <1>5 DEF Gains, L1, D

LEMMA GainsPage ==
    ASSUME NEW L, NEW B, NEW l, l \notin DOMAIN L, NEW i, i # Marker, NEW b, NEW D, DOMAIN D = {i}, D[i] = b
    PROVE  LET L1 == With(L, l, D)
           IN  Gains(L, B, L1, B, <<l, i>>, b) /\ DOMAIN L1 = DOMAIN L \cup {l}
<1> DEFINE L1 == With(L, l, D)
           r == <<l, i>>
<1>2. DOMAIN L1 = DOMAIN L \cup {l} /\ L1[l] = D /\ \A m \in DOMAIN L : m # l /\ L1[m] = L[m]
  BY DEF With
<1> HIDE DEF L1
<1>3. r[1] = l /\ r[2] = i /\ r = <<r[1], r[2]>>
  OBVIOUS
<1>4. ASSUME NEW q, NEW x PROVE Has(L1, B, q, x) <=> Has(L, B, q, x) \/ (q = r /\ x = b)
  <2>1. CASE ~ (q = <<q[1], q[2]>>)
    BY <1>3, <2>1 DEF Has
  <2>2. CASE q = <<q[1], q[2]>> /\ q[2] = Marker
    <3>1. q # r
      BY <1>3, <2>2
    <3> QED
      BY <2>2, <3>1 DEF Has
  <2>3. CASE q = <<q[1], q[2]>> /\ q[2] # Marker
    <3>1. q = r <=> q[1] = l /\ q[2] = i
      BY <1>3, <2>3
    <3>2. Has(L, B, q, x) <=> q[1] \in DOMAIN L /\ q[2] \in DOMAIN L[q[1]] /\ L[q[1]][q[2]] = x
      BY <2>3 DEF Has
    <3>3. Has(L1, B, q, x) <=> q[1] \in DOMAIN L1 /\ q[2] \in DOMAIN L1[q[1]] /\ L1[q[1]][q[2]] = x
      BY <2>3 DEF Has
    <3> HIDE DEF r
    <3> QED
      BY <1>2, <3>1, <3>2, <3>3
  <2> QED
    BY <2>1, <2>2, <2>3
<1>5. \A x : ~ Has(L, B, r, x)
  BY <1>3 DEF Has
<1> QED
  BY <1>2, <1>3, <1>4, <1>5 DEF Gains, L1

LEMMA GainsChain ==
    ASSUME NEW L, NEW B, NEW h, h \notin DOMAIN B, NEW b
    PROVE  Gains(L, B, L, With(B, h, b), <<h, Marker>>, b)
<1> DEFINE B1 == With(B, h, b)
           r == <<h, Marker>>
<1>2. DOMAIN B1 = DOMAIN B \cup {h} /\ B1[h] = b /\ \A m \in DOMAIN B : m # h /\ B1[m] = B[m]
  BY DEF With
<1> HIDE DEF B1
<1>3. r[1] = h /\ r[2] = Marker /\ r = <<r[1], r[2]>>
  OBVIOUS
<1>4. ASSUME NEW q, NEW x PROVE Has(L, B1, q, x) <=> Has(L, B, q, x) \/ (q = r /\ x = b)
  <2>1. CASE ~ (q = <<q[1], q[2]>>)
    BY <1>3, <2>1 DEF Has
  <2>2. CASE q = <<q[1], q[2]>> /\ q[2] # Marker
    <3>1. q # r
      BY <1>3, <2>2
    <3> QED
      BY <2>2, <3>1 DEF Has
  <2>3. CASE q = <<q[1], q[2]>> /\ q[2] = Marker
    <3>1. q = r <=> q[1] = h
      BY <1>3, <2>3
    <3>2. Has(L, B, q, x) <=> q[1] \in DOMAIN B /\ B[q[1]] = x
      BY <2>3 DEF Has
    <3>3. Has(L, B1, q, x) <=> q[1] \in DOMAIN B1 /\ B1[q[1]] = x
      BY <2>3 DEF Has
    <3> HIDE DEF r
    <3> QED
      BY <1>2, <3>1, <3>2, <3>3
  <2> QED
    BY <2>1, <2>2, <2>3
<1>5. \A x : ~ Has(L, B, r, x)
  BY <1>3 DEF Has
<1> QED
  BY <1>3, <1>4, <1>5 DEF Gains, B1

-----------------------------------------------------------------------------
\* Writing, by the pages in use.

LEMMA LayoutKept ==
    ASSUME NEW s, NEW L, NEW C, NEW B, Layout(s, L, C, B), NEW t, Pool(t, DOMAIN L \cup On(C)), Count(t) = Count(s),
           \A m \in 0 .. Count(s) - 1 : Page(t, m) = Page(s, m)
    PROVE  Layout(t, L, C, B)
<1>1. \A l \in DOMAIN L \cup On(C) : Page(t, l) = Page(s, l)
  BY LayoutParts
<1>2. Count(s) \in Nat /\ Count(t) \in Nat /\ Count(s) <= Count(t)
  BY LayoutParts
<1>3. Chains(t, C, B)
  BY <1>1, <1>2, ChainsKept DEF Layout
<1>4. Shelves(t, L)
  BY <1>1 DEF Layout, Shelves
<1> QED
  BY <1>3, <1>4 DEF Layout

LEMMA LayoutHint ==
    ASSUME NEW s, NEW L, NEW C, NEW B, Layout(s, L, C, B), NEW n \in Nat
    PROVE  /\ Layout([s EXCEPT !.hint = n], L, C, B) /\ Count([s EXCEPT !.hint = n]) = Count(s)
           /\ \A m \in 0 .. Count(s) - 1 : Page([s EXCEPT !.hint = n], m) = Page(s, m)
<1> DEFINE t == [s EXCEPT !.hint = n]
<1>1. Pool(s, DOMAIN L \cup On(C))
  BY DEF Layout
<1>2. /\ Pool(t, DOMAIN L \cup On(C)) /\ Count(t) = Count(s)
      /\ \A m \in 0 .. Count(s) - 1 : Page(t, m) = Page(s, m)
  BY <1>1, HintKept
<1> HIDE DEF t
<1>3. Layout(t, L, C, B)
  BY <1>2, LayoutKept
<1> QED
  BY <1>2, <1>3 DEF t

\* A page of slots is rewritten.
LEMMA LayoutSet ==
    ASSUME NEW s, NEW L, NEW C, NEW B, Layout(s, L, C, B), NEW l \in DOMAIN L, NEW p, NEW D, Shelf(p, D), DOMAIN D # {}
    PROVE  LET t == SetPage(s, l, p)
           IN  /\ Layout(t, With(L, l, D), C, B) /\ Count(t) = Count(s)
               /\ \A m \in On(C) : Page(t, m) = Page(s, m)
<1> DEFINE t == SetPage(s, l, p)
           L1 == With(L, l, D)
           U == DOMAIN L \cup On(C)
<1>1. s \in Stores /\ Count(s) \in Nat /\ l \in 0 .. Count(s) - 1 /\ p \in PagesW
  BY LayoutParts DEF Shelf
<1>2. /\ t \in Stores /\ Count(t) = Count(s) /\ t.free = s.free
      /\ \A m \in 0 .. Count(s) - 1 : Page(t, m) = IF m = l THEN p ELSE Page(s, m)
  BY <1>1, SetPageIs
<1>3. DOMAIN L1 = DOMAIN L /\ L1[l] = D /\ \A m \in DOMAIN L : m # l => L1[m] = L[m]
  BY DEF With
<1> HIDE DEF t, L1
<1>4. \A m \in U : m \in 0 .. Count(s) - 1
  BY LayoutParts
<1>5. \A m \in On(C) : m # l
  BY DEF Layout
<1>6. \A m \in On(C) : Page(t, m) = Page(s, m)
  BY <1>2, <1>4, <1>5
<1>7. Pool(t, U)
  <2>1. Pool(s, U)
    BY DEF Layout
  <2>2. \A m \in (0 .. Count(s) - 1) \ U : Page(t, m) = Page(s, m)
    BY <1>2
  <2> HIDE DEF U
  <2> QED
    BY <1>2, <2>1, <2>2, PoolKept
<1>8. Shelves(t, L1)
  <2> SUFFICES ASSUME NEW m \in DOMAIN L1 PROVE Shelf(Page(t, m), L1[m]) /\ DOMAIN L1[m] # {}
    BY DEF Shelves
  <2>1. m \in DOMAIN L /\ m \in 0 .. Count(s) - 1
    BY <1>3, <1>4
  <2>2. CASE m = l
    BY <1>2, <1>3, <2>1, <2>2
  <2>3. CASE m # l
    BY <1>2, <1>3, <2>1, <2>3 DEF Layout, Shelves
  <2> QED
    BY <2>2, <2>3
<1>9. Chains(t, C, B)
  BY <1>1, <1>2, <1>6, ChainsKept DEF Layout
<1>10. Layout(t, L1, C, B)
  BY <1>2, <1>3, <1>7, <1>8, <1>9 DEF Layout
<1> QED
  BY <1>2, <1>6, <1>10 DEF t, L1

\* A new page of slots.
LEMMA LayoutPage ==
    ASSUME NEW s, NEW L, NEW C, NEW B, Layout(s, L, C, B), NEW p, NEW D, Shelf(p, D), DOMAIN D # {},
           Count(AllocPage(s, p)) < None
    PROVE  LET t == AllocPage(s, p)
               l == NewPage(s)
           IN  /\ l \notin DOMAIN L /\ Layout(t, With(L, l, D), C, B) /\ l \in Nat
               /\ Count(s) <= Count(t)
               /\ \A m \in On(C) : Page(t, m) = Page(s, m)
<1> DEFINE t == AllocPage(s, p)
           l == NewPage(s)
           L1 == With(L, l, D)
           U == DOMAIN L \cup On(C)
<1>1. s \in Stores /\ Count(s) \in Nat /\ p \in PagesW
  BY LayoutParts DEF Shelf
<1>2. Pool(s, U)
  BY DEF Layout
<1>3. /\ l \in 0 .. Count(t) - 1 /\ l \notin U
      /\ Count(s) <= Count(t)
      /\ Page(t, l) = p
      /\ \A m \in 0 .. Count(s) - 1 : m # l => Page(t, m) = Page(s, m)
      /\ Pool(t, U \cup {l})
  <2> HIDE DEF U
  <2> QED
    BY <1>1, <1>2, AllocPool
<1>4. DOMAIN L1 = DOMAIN L \cup {l} /\ L1[l] = D /\ \A m \in DOMAIN L : m # l => L1[m] = L[m]
  BY DEF With
<1>5. Count(t) \in Nat
  BY <1>3, StoreParts DEF Pool
<1>6. \A m \in U : m \in 0 .. Count(s) - 1
  BY LayoutParts
<1> HIDE DEF t, l, L1
<1>7. \A m \in U : Page(t, m) = Page(s, m) /\ m # l
  BY <1>3, <1>6
<1>8. Shelves(t, L1)
  <2> SUFFICES ASSUME NEW m \in DOMAIN L1 PROVE Shelf(Page(t, m), L1[m]) /\ DOMAIN L1[m] # {}
    BY DEF Shelves
  <2>1. CASE m = l
    BY <1>3, <1>4, <2>1
  <2>2. CASE m # l
    BY <1>4, <1>7, <2>2 DEF Layout, Shelves
  <2> QED
    BY <2>1, <2>2
<1>9. Chains(t, C, B)
  BY <1>1, <1>3, <1>5, <1>7, ChainsKept DEF Layout
<1>10. U \cup {l} = DOMAIN L1 \cup On(C)
  BY <1>4
<1>11. DOMAIN L1 \cap On(C) = {}
  BY <1>3, <1>4 DEF Layout
<1>12. Pool(t, DOMAIN L1 \cup On(C))
  BY <1>3, <1>10
<1>13. Count(t) < None
  BY DEF t
<1>14. Layout(t, L1, C, B)
  BY <1>8, <1>9, <1>11, <1>12, <1>13 DEF Layout
<1> QED
  BY <1>3, <1>5, <1>7, <1>14 DEF t, L1, l

\* A new chain.
LEMMA LayoutChain ==
    ASSUME NEW s, NEW L, NEW C, NEW B, Layout(s, L, C, B), NEW b, Wordy(b),
           Count(WriteChain(s, b).store) < None, LinksClear(s, b)
    PROVE  LET t == WriteChain(s, b).store
           IN  \E c : /\ WriteChain(s, b).rid = <<c[1], Marker>> /\ c[1] \notin DOMAIN C
                      /\ Layout(t, L, With(C, c[1], c), With(B, c[1], b))
                      /\ Count(s) <= Count(t)
                      /\ \A m \in On(C) : Page(t, m) = Page(s, m)
<1> DEFINE t == WriteChain(s, b).store
           U == DOMAIN L \cup On(C)
<1>1. Pool(s, U) /\ Count(s) \in Nat
  BY LayoutParts DEF Layout
<1>2. b \in Seq(Nat) /\ Len(b) >= 1
  BY WidthAssumption DEF Wordy
<1>3. PICK c : /\ Strand(t, c, b)
               /\ WriteChain(s, b).rid = <<c[1], Marker>>
               /\ RangeOf(c) \cap U = {}
               /\ Pool(t, U \cup RangeOf(c))
               /\ \A m \in U : Page(t, m) = Page(s, m)
               /\ Count(s) <= Count(t)
               /\ c = AllocChain(s, b).pages
  <2> HIDE DEF U
  <2> QED
    BY <1>1, <1>2, WriteChainIs
<1> HIDE DEF t
<1> DEFINE h == c[1]
           C1 == With(C, h, c)
           B1 == With(B, h, b)
<1>4. c \in Seq(Nat) /\ Len(c) >= 1 /\ 1 \in 1 .. Len(c) /\ h \in RangeOf(c) /\ RangeOf(c) \subseteq Nat
  <2>1. c \in Seq(Nat) /\ Len(c) >= 1
    BY <1>3 DEF Strand
  <2>2. 1 \in 1 .. Len(c)
    BY <2>1
  <2>3. \A i \in 1 .. Len(c) : c[i] \in Nat
    BY <2>1
  <2> QED
    BY <2>1, <2>2, <2>3 DEF RangeOf
<1>5. DOMAIN B = DOMAIN C /\ \A g \in DOMAIN C : g \in On(C) /\ RangeOf(C[g]) \subseteq On(C)
  BY LayoutParts DEF Layout, Chains
<1>6. h \notin DOMAIN C
  BY <1>3, <1>4, <1>5
<1>7. /\ DOMAIN C1 = DOMAIN C \cup {h} /\ C1[h] = c /\ \A g \in DOMAIN C : g # h /\ C1[g] = C[g]
      /\ DOMAIN B1 = DOMAIN C \cup {h} /\ B1[h] = b /\ \A g \in DOMAIN C : B1[g] = B[g]
  BY <1>5, <1>6 DEF With
<1> HIDE DEF C1, B1
<1>8. On(C1) = On(C) \cup RangeOf(c)
  <2>1. ASSUME NEW m \in On(C1) PROVE m \in On(C) \cup RangeOf(c)
    <3>1. m \in Nat /\ \E g \in DOMAIN C1 : m \in RangeOf(C1[g])
      BY DEF On
    <3>2. PICK g \in DOMAIN C1 : m \in RangeOf(C1[g])
      BY <3>1
    <3> QED
      BY <1>7, <3>1, <3>2 DEF On
  <2>2. ASSUME NEW m \in On(C) PROVE m \in On(C1)
    <3>1. PICK g \in DOMAIN C : m \in RangeOf(C[g])
      BY DEF On
    <3>2. m \in Nat
      BY DEF On
    <3> QED
      BY <1>7, <3>1, <3>2 DEF On
  <2>3. ASSUME NEW m \in RangeOf(c) PROVE m \in On(C1)
    <3>1. m \in Nat /\ h \in DOMAIN C1 /\ m \in RangeOf(C1[h])
      BY <1>4, <1>7, <2>3
    <3> QED
      BY <3>1 DEF On
  <2> QED
    BY <2>1, <2>2, <2>3
<1>9. Count(t) \in Nat
  BY <1>3, StoreParts DEF Pool
<1>10. Chains(t, C, B)
  BY <1>1, <1>3, <1>9, ChainsKept DEF Layout
<1>11. Chains(t, C1, B1)
  <2>1. ASSUME NEW g \in DOMAIN C1
        PROVE  Strand(t, C1[g], B1[g]) /\ C1[g][1] = g /\ Wordy(B1[g]) /\ Cleared(C1[g])
    <3>1. CASE g = h
      <4>1. Cleared(c)
        BY <1>3 DEF LinksClear, Cleared
      <4> QED
        BY <1>3, <1>7, <3>1, <4>1
    <3>2. CASE g # h
      BY <1>7, <1>10, <3>2 DEF Chains
    <3> QED
      BY <3>1, <3>2
  <2>2. ASSUME NEW f \in DOMAIN C1, NEW g \in DOMAIN C1, f # g
        PROVE  RangeOf(C1[f]) \cap RangeOf(C1[g]) = {}
    <3>1. CASE f # h /\ g # h
      BY <1>7, <1>10, <2>2, <3>1 DEF Chains
    <3>2. CASE f = h
      <4>1. C1[f] = c /\ g \in DOMAIN C /\ C1[g] = C[g]
        BY <1>7, <2>2, <3>2
      <4> QED
        BY <1>3, <1>5, <4>1
    <3>3. CASE g = h
      <4>1. C1[g] = c /\ f \in DOMAIN C /\ C1[f] = C[f]
        BY <1>7, <2>2, <3>3
      <4> QED
        BY <1>3, <1>5, <4>1
    <3> QED
      BY <3>1, <3>2, <3>3
  <2> QED
    BY <1>7, <2>1, <2>2 DEF Chains
<1>12. Shelves(t, L)
  BY <1>3 DEF Layout, Shelves
<1>13. DOMAIN L \cap On(C1) = {}
  BY <1>3, <1>8 DEF Layout
<1>14. Pool(t, DOMAIN L \cup On(C1))
  <2>1. DOMAIN L \cup On(C1) = U \cup RangeOf(c)
    BY <1>8
  <2> QED
    BY <1>3, <2>1
<1>15. Layout(t, L, C1, B1)
  BY <1>11, <1>12, <1>13, <1>14 DEF Layout, t
<1>16. \A m \in On(C) : Page(t, m) = Page(s, m)
  BY <1>3
<1> QED
  BY <1>3, <1>6, <1>15, <1>16 DEF t, C1, B1

\* What a write leaves, for the words b.
Written(s, L, C, B, t, r, b) ==
    /\ \E L1, C1, B1 : Layout(t, L1, C1, B1) /\ Gains(L, B, L1, B1, r, b)
    /\ \A m \in On(C) : Page(t, m) = Page(s, m)

NoSlots == [i \in {} |-> <<>>]

LEMMA BlankRoom == ASSUME NEW n \in Nat PROVE Fits(Blank, n) <=> 4 + n <= W
<1>1. Blank[0] = 0 /\ W \in Nat
  BY BlankPage, WidthAssumption
<1>2. DirEnd(Blank) = 4 /\ DataEnd(Blank) = W
  BY <1>1 DEF DirEnd, DataEnd
<1> QED
  BY <1>2 DEF Fits

LEMMA BlankShelf ==
    ASSUME NEW b \in Seq(Nat), 4 + Len(b) <= W
    PROVE  Shelf(WriteSlot(Blank, b), With(NoSlots, 0, b)) /\ Fits(Blank, Len(b)) /\ Blank[0] = 0
<1>1. Blank \in PagesW /\ Blank[0] = 0 /\ Blank[1] = 0 /\ W \in Nat /\ W > 4
  BY BlankPage, WidthAssumption
<1>2. DOMAIN NoSlots = {}
  BY DEF NoSlots
<1>3. Slots(Blank) = {} /\ DirEnd(Blank) = 4 /\ DataEnd(Blank) = W
  BY <1>1 DEF Slots, DirEnd, DataEnd
<1>4. Shelf(Blank, NoSlots)
  BY <1>1, <1>2, <1>3, FS_EmptySet DEF Shelf
<1>5. Fits(Blank, Len(b))
  BY <1>3 DEF Fits
<1>6. Shelf(WriteSlot(Blank, b), With(NoSlots, Blank[0], b))
  BY <1>4, <1>5, ShelfWritten
<1> QED
  BY <1>1, <1>5, <1>6

\* A small value on a page of its own.
LEMMA WriteFreshIs ==
    ASSUME NEW s, NEW L, NEW C, NEW B, Layout(s, L, C, B), NEW b \in Seq(Nat), 4 + Len(b) <= W,
           Count(WriteFresh(s, b).store) < None
    PROVE  LET t == WriteFresh(s, b).store
               l == NewPage(s)
           IN  /\ WriteFresh(s, b).rid = <<l, 0>> /\ l \notin DOMAIN L
               /\ Layout(t, With(L, l, With(NoSlots, 0, b)), C, B)
               /\ Written(s, L, C, B, t, <<l, 0>>, b)
<1> DEFINE l == NewPage(s)
           p == WriteSlot(Blank, b)
           D == With(NoSlots, 0, b)
           u == AllocPage(s, p)
           n == HintAfterAlloc(s, l)
           t == [u EXCEPT !.hint = n]
           L1 == With(L, l, D)
<1>1. Shelf(p, D) /\ Blank[0] = 0
  BY BlankShelf
<1>2. DOMAIN D = {0} /\ D[0] = b
  BY DEF With, NoSlots
<1>3. WriteFresh(s, b).store = t /\ WriteFresh(s, b).rid = <<l, 0>>
  BY <1>1 DEF WriteFresh, Slotted
<1>4. p \in PagesW /\ Pool(s, DOMAIN L \cup On(C)) /\ Count(s) \in Nat /\ s \in Stores
  BY <1>1, LayoutParts DEF Shelf, Layout
<1> HIDE DEF p, D
<1>5. PICK U : Pool(u, U)
  BY <1>4, AllocPool
<1>6. l \in Nat
  <2>1. Count(u) \in Nat
    BY <1>5, StoreParts DEF Pool
  <2>2. l \in 0 .. Count(u) - 1
    BY <1>4, AllocPool
  <2> QED
    BY <2>1, <2>2
<1> HIDE DEF l, u
<1>7. n \in Nat
  <2>1. Open(s) \in SUBSET Nat
    <3>1. HintOf(s) \in Nat
      BY <1>4, StoreParts DEF HintOf
    <3> QED
      BY <1>4, <3>1 DEF Open, Scanned
  <2> DEFINE o == IF Open(s) = {} THEN l ELSE Least(Open(s))
  <2>2. o \in Nat
    <3>1. CASE Open(s) = {}
      BY <1>6, <3>1
    <3>2. CASE Open(s) # {}
      <4>1. Least(Open(s)) \in Open(s)
        BY <2>1, <3>2, LeastIs
      <4> QED
        BY <2>1, <3>2, <4>1
    <3> QED
      BY <3>1, <3>2
  <2> HIDE DEF o
  <2>3. {l, o} \in SUBSET Nat /\ {l, o} # {}
    BY <1>6, <2>2
  <2>4. Least({l, o}) \in {l, o}
    BY <2>3, LeastIs
  <2> QED
    BY <2>3, <2>4 DEF HintAfterAlloc, o
<1> HIDE DEF n
<1>8. Count(t) = Count(u)
  BY <1>5, <1>7, HintKept
<1>9. Count(u) < None
  BY <1>3, <1>8
<1>10. /\ l \notin DOMAIN L /\ Layout(u, L1, C, B) /\ Count(s) <= Count(u)
       /\ \A m \in On(C) : Page(u, m) = Page(s, m)
  <2>1. DOMAIN D # {} /\ Count(AllocPage(s, p)) < None /\ Shelf(p, D)
    BY <1>1, <1>2, <1>9 DEF u
  <2>2. LET w == AllocPage(s, p)
            k == NewPage(s)
        IN  /\ k \notin DOMAIN L /\ Layout(w, With(L, k, D), C, B) /\ k \in Nat
            /\ Count(s) <= Count(w)
            /\ \A m \in On(C) : Page(w, m) = Page(s, m)
    BY <2>1, LayoutPage
  <2> QED
    BY <2>2 DEF u, l
<1>11. Layout(t, L1, C, B) /\ \A m \in 0 .. Count(u) - 1 : Page(t, m) = Page(u, m)
  <2> HIDE DEF L1
  <2> QED
    BY <1>7, <1>10, LayoutHint
<1>12. \A m \in On(C) : Page(t, m) = Page(s, m)
  <2>1. \A m \in On(C) : m \in 0 .. Count(u) - 1
    BY <1>10, LayoutParts
  <2> QED
    BY <1>10, <1>11, <2>1
<1>13. 0 # Marker
  BY NoneLink
<1>14. Gains(L, B, L1, B, <<l, 0>>, b)
  BY <1>2, <1>10, <1>13, GainsPage
<1> HIDE DEF t, L1
<1>15. Written(s, L, C, B, t, <<l, 0>>, b)
  BY <1>11, <1>12, <1>14 DEF Written
<1> QED
  BY <1>3, <1>10, <1>11, <1>15 DEF l, L1, D

\* A small value on a page of others.
LEMMA WriteSharedIs ==
    ASSUME NEW s, NEW L, NEW C, NEW B, Layout(s, L, C, B), NEW b \in Seq(Nat), Takers(s, Len(b)) # {}
    PROVE  Written(s, L, C, B, WriteShared(s, b).store, WriteShared(s, b).rid, b)
<1> DEFINE l == Least(Takers(s, Len(b)))
           p == Page(s, l)
           i == p[0]
           D == With(L[l], i, b)
           u == SetPage(s, l, WriteSlot(p, b))
           v == [u EXCEPT !.hint = l]
           t == WriteShared(s, b).store
           L1 == With(L, l, D)
<1>1. s \in Stores /\ Count(s) \in Nat /\ HintOf(s) \in Nat
  BY LayoutParts, StoreParts DEF HintOf
<1>2. WriteShared(s, b).rid = <<l, i>> /\ (t = u \/ t = v)
  BY DEF WriteShared, Slotted
<1>3. l \in Takers(s, Len(b))
  <2>1. Takers(s, Len(b)) \in SUBSET Nat
    BY <1>1 DEF Takers, Scanned
  <2> QED
    BY <2>1, LeastIs
<1> HIDE DEF l
<1>4. l \in 0 .. Count(s) - 1 /\ IsValid(p) /\ Fits(p, Len(b)) /\ l \in Nat
  BY <1>1, <1>3 DEF Takers, Scanned
<1>5. l \in DOMAIN L
  BY <1>4, ValidShelf
<1>6. Shelf(p, L[l])
  BY <1>5 DEF Layout, Shelves
<1> HIDE DEF p
<1>7. Shelf(WriteSlot(p, b), D) /\ i \notin DOMAIN L[l] /\ i # Marker
  BY <1>4, <1>6, ShelfWritten
<1>8. DOMAIN D # {}
  BY DEF With
<1> HIDE DEF D
<1>9. Layout(u, L1, C, B) /\ Count(u) = Count(s) /\ \A m \in On(C) : Page(u, m) = Page(s, m)
  BY <1>5, <1>7, <1>8, LayoutSet
<1> HIDE DEF u, L1
<1>10. Layout(v, L1, C, B) /\ \A m \in 0 .. Count(u) - 1 : Page(v, m) = Page(u, m)
  BY <1>4, <1>9, LayoutHint
<1>11. \A m \in On(C) : Page(v, m) = Page(s, m)
  <2>1. \A m \in On(C) : m \in 0 .. Count(u) - 1
    BY <1>9, LayoutParts
  <2> QED
    BY <1>9, <1>10, <2>1
<1> HIDE DEF v, t
<1>12. Layout(t, L1, C, B) /\ \A m \in On(C) : Page(t, m) = Page(s, m)
  BY <1>2, <1>9, <1>10, <1>11
<1>13. Gains(L, B, L1, B, <<l, i>>, b)
  BY <1>5, <1>7, GainsSlot DEF L1, D
<1>14. Written(s, L, C, B, t, <<l, i>>, b)
  BY <1>12, <1>13 DEF Written
<1> QED
  BY <1>2, <1>14 DEF t

\* A write leaves a store, however large.
LEMMA WriteCounts ==
    ASSUME NEW s, NEW L, NEW C, NEW B, Layout(s, L, C, B), NEW v \in [size : Nat, tag : 1 .. 15],
           ~ WriteFails(s, Bytes(v))
    PROVE  Count(WriteBytes(s, Bytes(v)).store) \in Nat
<1> DEFINE b == Bytes(v)
           U == DOMAIN L \cup On(C)
<1>0. ~ WriteFails(s, b)
  OBVIOUS
<1>1. b \in Seq(Nat) /\ Len(b) = v.size
  BY BytesAre
<1>2. Pool(s, U) /\ s \in Stores /\ Count(s) \in Nat
  BY LayoutParts DEF Layout
<1> HIDE DEF b, U
<1>3. CASE ~ Small(Len(b))
  <2> DEFINE x == AllocChain(s, b)
             t == Relink(x.store, x.pages)
  <2>1. WriteBytes(s, b).store = t
    BY <1>3 DEF WriteBytes, WriteChain
  <2> DEFINE n == Chunks(Len(b))
  <2>2. Drawn(s, U, b, x, n)
    BY <1>1, <1>2, AllocChainIs
  <2> HIDE DEF x, n
  <2>3. /\ x.pages \in Seq(Nat) /\ x.store \in Stores
        /\ \A i, j \in 1 .. Len(x.pages) : x.pages[i] = x.pages[j] => i = j
        /\ \A i \in 1 .. Len(x.pages) : x.pages[i] < Count(x.store)
    BY <2>2 DEF Drawn, Pool
  <2>4. t \in Stores
    <3> DEFINE c == x.pages
               u == x.store
    <3>1. /\ c \in Seq(Nat) /\ u \in Stores /\ (\A i, j \in 1 .. Len(c) : c[i] = c[j] => i = j)
          /\ \A i \in 1 .. Len(c) : c[i] < Count(u)
      BY <2>3
    <3> HIDE DEF c, u
    <3>2. Relink(u, c) \in Stores
      BY <3>1, RelinkIs
    <3> QED
      BY <3>2 DEF c, u
  <2> HIDE DEF t
  <2>5. Count(t) \in Nat
    BY <2>4, StoreParts
  <2> QED
    BY <2>1, <2>5 DEF b
<1>4. CASE Small(Len(b)) /\ Takers(s, Len(b)) # {}
  <2>1. WriteBytes(s, b) = WriteShared(s, b)
    BY <1>4 DEF WriteBytes
  <2>2. Written(s, L, C, B, WriteShared(s, b).store, WriteShared(s, b).rid, b)
    BY <1>1, <1>4, WriteSharedIs
  <2>3. Count(WriteShared(s, b).store) \in Nat
    BY <2>2, LayoutParts DEF Written
  <2> QED
    BY <2>1, <2>3 DEF b
<1>5. CASE Small(Len(b)) /\ Takers(s, Len(b)) = {}
  <2> DEFINE p == WriteSlot(Blank, b)
             u == AllocPage(s, p)
             n == HintAfterAlloc(s, NewPage(s))
             t == [u EXCEPT !.hint = n]
  <2>1. WriteBytes(s, b).store = t
    BY <1>5 DEF WriteBytes, WriteFresh
  <2>2. p \in PagesW
    <3>1. 4 + Len(b) <= W
      BY <1>0, <1>1, <1>5, BlankRoom DEF WriteFails
    <3> QED
      BY <1>1, <3>1, BlankShelf DEF Shelf
  <2> HIDE DEF p
  <2>3. \E X : Pool(u, X)
    BY <1>2, <2>2, AllocPool
  <2> HIDE DEF u, n
  <2>4. u \in Stores /\ Count(u) \in Nat
    BY <2>3, StoreParts DEF Pool
  <2>5. u = [pages |-> u.pages, hint |-> u.hint, free |-> u.free]
    BY <2>4, StoreParts
  <2>6. t.pages = u.pages
    BY <2>5
  <2>7. Count(t) \in Nat
    BY <2>4, <2>6 DEF Count
  <2> HIDE DEF t
  <2> QED
    BY <2>1, <2>7 DEF b
<1> QED
  BY <1>3, <1>4, <1>5

\* write_property_bytes: it adds one record, unless it fails.
LEMMA WriteBytesIs ==
    ASSUME NEW s, NEW L, NEW C, NEW B, Layout(s, L, C, B), NEW v \in [size : Nat, tag : 1 .. 15],
           ~ WriteFails(s, Bytes(v)), Small(v.size) \/ LinksClear(s, Bytes(v)),
           Count(WriteBytes(s, Bytes(v)).store) < None
    PROVE  Written(s, L, C, B, WriteBytes(s, Bytes(v)).store, WriteBytes(s, Bytes(v)).rid, Bytes(v))
<1> DEFINE b == Bytes(v)
<1>1. /\ b \in Seq(Nat) /\ Len(b) = v.size /\ Len(b) \in Nat
      /\ \A i \in 1 .. Len(b) : b[i] > 16384 /\ b[i] < Marker
  BY BytesAre
<1>0. /\ ~ WriteFails(s, b) /\ Count(WriteBytes(s, b).store) < None
      /\ Small(Len(b)) \/ LinksClear(s, b)
  BY <1>1
<1> HIDE DEF b
<1>2. W \in Nat /\ W > 4
  BY WidthAssumption
<1>3. CASE ~ Small(Len(b))
  <2> DEFINE t == WriteChain(s, b).store
  <2>1. WriteBytes(s, b) = WriteChain(s, b)
    BY <1>3 DEF WriteBytes
  <2>2. Wordy(b)
    BY <1>1, <1>2, <1>3 DEF Wordy, Small
  <2>3. PICK c : /\ WriteChain(s, b).rid = <<c[1], Marker>> /\ c[1] \notin DOMAIN C
                 /\ Layout(t, L, With(C, c[1], c), With(B, c[1], b))
                 /\ \A m \in On(C) : Page(t, m) = Page(s, m)
    BY <1>0, <1>3, <2>1, <2>2, LayoutChain
  <2> HIDE DEF t
  <2>4. c[1] \notin DOMAIN B
    BY <2>3 DEF Layout, Chains
  <2>5. Gains(L, B, L, With(B, c[1], b), <<c[1], Marker>>, b)
    BY <2>4, GainsChain
  <2>6. Written(s, L, C, B, t, <<c[1], Marker>>, b)
    BY <2>3, <2>5 DEF Written
  <2> QED
    BY <2>1, <2>3, <2>6 DEF t, b
<1>4. CASE Small(Len(b)) /\ Takers(s, Len(b)) # {}
  <2>1. WriteBytes(s, b) = WriteShared(s, b)
    BY <1>4 DEF WriteBytes
  <2> QED
    BY <1>1, <1>4, <2>1, WriteSharedIs DEF b
<1>5. CASE Small(Len(b)) /\ Takers(s, Len(b)) = {}
  <2>1. WriteBytes(s, b) = WriteFresh(s, b)
    BY <1>5 DEF WriteBytes
  <2>2. 4 + Len(b) <= W
    BY <1>0, <1>1, <1>5, BlankRoom DEF WriteFails
  <2>3. WriteFresh(s, b).rid = <<NewPage(s), 0>> /\ Written(s, L, C, B, WriteFresh(s, b).store, <<NewPage(s), 0>>, b)
    BY <1>0, <1>1, <1>5, <2>1, <2>2, WriteFreshIs
  <2> QED
    BY <2>1, <2>3 DEF b
<1> QED
  BY <1>3, <1>4, <1>5

-----------------------------------------------------------------------------
\* Freeing and reading, by the pages in use.

LEMMA LosesSlot ==
    ASSUME NEW L, NEW B, NEW l \in DOMAIN L, NEW i \in DOMAIN L[l], i # Marker
    PROVE  LET L1 == With(L, l, Without(L[l], i))
           IN  Loses(L, B, L1, B, <<l, i>>) /\ DOMAIN L1 = DOMAIN L
<1> DEFINE D == Without(L[l], i)
           L1 == With(L, l, D)
           r == <<l, i>>
<1>1. DOMAIN D = DOMAIN L[l] \ {i} /\ \A j \in DOMAIN D : D[j] = L[l][j]
  BY DEF Without
<1> HIDE DEF D
<1>2. DOMAIN L1 = DOMAIN L /\ L1[l] = D /\ \A m \in DOMAIN L : m # l => L1[m] = L[m]
  BY DEF With
<1> HIDE DEF L1
<1>3. r[1] = l /\ r[2] = i /\ r = <<r[1], r[2]>>
  OBVIOUS
<1>4. ASSUME NEW q, NEW x PROVE Has(L1, B, q, x) <=> Has(L, B, q, x) /\ q # r
  <2>1. CASE ~ (q = <<q[1], q[2]>>)
    BY <1>3, <2>1 DEF Has
  <2>2. CASE q = <<q[1], q[2]>> /\ q[2] = Marker
    <3>1. q # r
      BY <1>3, <2>2
    <3> QED
      BY <2>2, <3>1 DEF Has
  <2>3. CASE q = <<q[1], q[2]>> /\ q[2] # Marker
    <3>1. q = r <=> q[1] = l /\ q[2] = i
      BY <1>3, <2>3
    <3>2. Has(L, B, q, x) <=> q[1] \in DOMAIN L /\ q[2] \in DOMAIN L[q[1]] /\ L[q[1]][q[2]] = x
      BY <2>3 DEF Has
    <3>3. Has(L1, B, q, x) <=> q[1] \in DOMAIN L1 /\ q[2] \in DOMAIN L1[q[1]] /\ L1[q[1]][q[2]] = x
      BY <2>3 DEF Has
    <3> HIDE DEF r
    <3> QED
      BY <1>1, <1>2, <3>1, <3>2, <3>3
  <2> QED
    BY <2>1, <2>2, <2>3
<1> QED
  BY <1>2, <1>4 DEF Loses, L1, D

LEMMA LosesPage ==
    ASSUME NEW L, NEW B, NEW l \in DOMAIN L, NEW i, DOMAIN L[l] = {i}, i # Marker
    PROVE  LET L1 == Without(L, l)
           IN  Loses(L, B, L1, B, <<l, i>>) /\ DOMAIN L1 = DOMAIN L \ {l}
<1> DEFINE L1 == Without(L, l)
           r == <<l, i>>
<1>2. DOMAIN L1 = DOMAIN L \ {l} /\ \A m \in DOMAIN L1 : L1[m] = L[m]
  BY DEF Without
<1> HIDE DEF L1
<1>3. r[1] = l /\ r[2] = i /\ r = <<r[1], r[2]>>
  OBVIOUS
<1>4. ASSUME NEW q, NEW x PROVE Has(L1, B, q, x) <=> Has(L, B, q, x) /\ q # r
  <2>1. CASE ~ (q = <<q[1], q[2]>>)
    BY <1>3, <2>1 DEF Has
  <2>2. CASE q = <<q[1], q[2]>> /\ q[2] = Marker
    <3>1. q # r
      BY <1>3, <2>2
    <3> QED
      BY <2>2, <3>1 DEF Has
  <2>3. CASE q = <<q[1], q[2]>> /\ q[2] # Marker
    <3>1. q = r <=> q[1] = l /\ q[2] = i
      BY <1>3, <2>3
    <3>2. Has(L, B, q, x) <=> q[1] \in DOMAIN L /\ q[2] \in DOMAIN L[q[1]] /\ L[q[1]][q[2]] = x
      BY <2>3 DEF Has
    <3>3. Has(L1, B, q, x) <=> q[1] \in DOMAIN L1 /\ q[2] \in DOMAIN L1[q[1]] /\ L1[q[1]][q[2]] = x
      BY <2>3 DEF Has
    <3> HIDE DEF r
    <3> QED
      BY <1>2, <3>1, <3>2, <3>3
  <2> QED
    BY <2>1, <2>2, <2>3
<1> QED
  BY <1>2, <1>4 DEF Loses, L1

LEMMA LosesChain ==
    ASSUME NEW L, NEW B, NEW h \in DOMAIN B
    PROVE  Loses(L, B, L, Without(B, h), <<h, Marker>>)
<1> DEFINE B1 == Without(B, h)
           r == <<h, Marker>>
<1>2. DOMAIN B1 = DOMAIN B \ {h} /\ \A m \in DOMAIN B1 : B1[m] = B[m]
  BY DEF Without
<1> HIDE DEF B1
<1>3. r[1] = h /\ r[2] = Marker /\ r = <<r[1], r[2]>>
  OBVIOUS
<1>4. ASSUME NEW q, NEW x PROVE Has(L, B1, q, x) <=> Has(L, B, q, x) /\ q # r
  <2>1. CASE ~ (q = <<q[1], q[2]>>)
    BY <1>3, <2>1 DEF Has
  <2>2. CASE q = <<q[1], q[2]>> /\ q[2] # Marker
    <3>1. q # r
      BY <1>3, <2>2
    <3> QED
      BY <2>2, <3>1 DEF Has
  <2>3. CASE q = <<q[1], q[2]>> /\ q[2] = Marker
    <3>1. q = r <=> q[1] = h
      BY <1>3, <2>3
    <3>2. Has(L, B, q, x) <=> q[1] \in DOMAIN B /\ B[q[1]] = x
      BY <2>3 DEF Has
    <3>3. Has(L, B1, q, x) <=> q[1] \in DOMAIN B1 /\ B1[q[1]] = x
      BY <2>3 DEF Has
    <3> HIDE DEF r
    <3> QED
      BY <1>2, <3>1, <3>2, <3>3
  <2> QED
    BY <2>1, <2>2, <2>3
<1> QED
  BY <1>4 DEF Loses, B1

LEMMA LayoutBackOff ==
    ASSUME NEW s, NEW L, NEW C, NEW B, Layout(s, L, C, B), NEW l \in Nat
    PROVE  /\ Layout(BackOffHint(s, l), L, C, B)
           /\ \A m \in 0 .. Count(s) - 1 : Page(BackOffHint(s, l), m) = Page(s, m)
<1> DEFINE t == BackOffHint(s, l)
<1>1. Pool(s, DOMAIN L \cup On(C))
  BY DEF Layout
<1>2. /\ Pool(t, DOMAIN L \cup On(C)) /\ Count(t) = Count(s)
      /\ \A m \in 0 .. Count(s) - 1 : Page(t, m) = Page(s, m)
  BY <1>1, BackOffIs
<1> HIDE DEF t
<1>3. Layout(t, L, C, B)
  BY <1>2, LayoutKept
<1> QED
  BY <1>2, <1>3 DEF t

\* A page of slots is freed.
LEMMA LayoutFreed ==
    ASSUME NEW s, NEW L, NEW C, NEW B, Layout(s, L, C, B), NEW l \in DOMAIN L
    PROVE  LET t == FreePage(s, l)
           IN  /\ Layout(t, Without(L, l), C, B)
               /\ \A m \in On(C) : Page(t, m) = Page(s, m)
<1> DEFINE t == FreePage(s, l)
           L1 == Without(L, l)
           U == DOMAIN L \cup On(C)
<1>1. s \in Stores /\ Count(s) \in Nat /\ l # None /\ \A m \in U : m \in 0 .. Count(s) - 1
  BY LayoutParts
<1>2. Pool(s, U) /\ l \in U
  BY DEF Layout
<1>3. /\ Count(t) = Count(s)
      /\ \A m \in 0 .. Count(s) - 1 : m # l => Page(t, m) = Page(s, m)
      /\ Pool(t, U \ {l})
  <2> HIDE DEF U
  <2> QED
    BY <1>1, <1>2, FreePool
<1>4. DOMAIN L1 = DOMAIN L \ {l} /\ \A m \in DOMAIN L1 : L1[m] = L[m]
  BY DEF Without
<1> HIDE DEF t, L1
<1>5. \A m \in On(C) : m # l
  BY DEF Layout
<1>6. \A m \in On(C) : Page(t, m) = Page(s, m)
  BY <1>1, <1>3, <1>5
<1>7. Shelves(t, L1)
  <2> SUFFICES ASSUME NEW m \in DOMAIN L1 PROVE Shelf(Page(t, m), L1[m]) /\ DOMAIN L1[m] # {}
    BY DEF Shelves
  <2>1. m \in DOMAIN L /\ m # l /\ L1[m] = L[m] /\ Page(t, m) = Page(s, m)
    BY <1>1, <1>3, <1>4
  <2> QED
    BY <2>1 DEF Layout, Shelves
<1>8. Chains(t, C, B)
  BY <1>1, <1>3, <1>6, ChainsKept DEF Layout
<1>9. U \ {l} = DOMAIN L1 \cup On(C)
  BY <1>4, <1>5
<1>10. Pool(t, DOMAIN L1 \cup On(C))
  BY <1>3, <1>9
<1>11. DOMAIN L1 \cap On(C) = {}
  BY <1>4 DEF Layout
<1>12. Layout(t, L1, C, B)
  BY <1>3, <1>7, <1>8, <1>10, <1>11 DEF Layout
<1> QED
  BY <1>6, <1>12 DEF t, L1

\* A chain is freed.
LEMMA LayoutUnchained ==
    ASSUME NEW s, NEW L, NEW C, NEW B, Layout(s, L, C, B), NEW h \in DOMAIN C
    PROVE  LET t == FreeChain(s, h)
           IN  /\ Layout(t, L, Without(C, h), Without(B, h))
               /\ \A m \in On(C) \ RangeOf(C[h]) : Page(t, m) = Page(s, m)
<1> DEFINE c == C[h]
           t == FreeChain(s, h)
           C1 == Without(C, h)
           B1 == Without(B, h)
           U == DOMAIN L \cup On(C)
           K == U \ {c[i] : i \in 1 .. Len(c)}
<1>1. s \in Stores /\ Count(s) \in Nat /\ RangeOf(c) \subseteq On(C) /\ Pool(s, U)
  BY LayoutParts DEF Layout
<1>2. Strand(s, c, B[h]) /\ c[1] = h /\ DOMAIN B = DOMAIN C
  BY DEF Layout, Chains
<1>3. ~ IsFreeMarked(Page(s, h))
  BY ChainNotSlots
<1>4. Shed(s, U, c, t, Len(c))
  <2>1. RangeOf(c) \subseteq U
    BY <1>1
  <2> HIDE DEF U, c
  <2> QED
    BY <1>1, <1>2, <1>3, <2>1, FreeChainIs
<1>5. Pool(t, K) /\ Count(t) = Count(s) /\ \A m \in K : Page(t, m) = Page(s, m)
  BY <1>4 DEF Shed
<1>6. /\ DOMAIN C1 = DOMAIN C \ {h} /\ \A g \in DOMAIN C1 : C1[g] = C[g]
      /\ DOMAIN B1 = DOMAIN C \ {h} /\ \A g \in DOMAIN C1 : B1[g] = B[g]
  BY <1>2 DEF Without
<1> HIDE DEF t, C1, B1
<1>7. On(C1) = On(C) \ RangeOf(c)
  <2>1. ASSUME NEW m \in On(C1) PROVE m \in On(C) /\ m \notin RangeOf(c)
    <3>1. PICK g \in DOMAIN C1 : m \in RangeOf(C1[g])
      BY DEF On
    <3>2. m \in Nat
      BY DEF On
    <3>3. g \in DOMAIN C /\ g # h /\ m \in RangeOf(C[g])
      BY <1>6, <3>1
    <3>4. RangeOf(C[g]) \cap RangeOf(C[h]) = {}
      BY <3>3 DEF Layout, Chains
    <3> QED
      BY <3>2, <3>3, <3>4 DEF On
  <2>2. ASSUME NEW m \in On(C), m \notin RangeOf(c) PROVE m \in On(C1)
    <3>1. PICK g \in DOMAIN C : m \in RangeOf(C[g])
      BY DEF On
    <3>2. m \in Nat
      BY DEF On
    <3>3. g # h
      BY <2>2, <3>1
    <3>4. g \in DOMAIN C1 /\ m \in RangeOf(C1[g])
      BY <1>6, <3>1, <3>3
    <3> QED
      BY <3>2, <3>4 DEF On
  <2> QED
    BY <2>1, <2>2
<1>8. K = U \ RangeOf(c)
  BY DEF RangeOf
<1>9. K = DOMAIN L \cup On(C1)
  <2>1. \A m \in RangeOf(c) : m \notin DOMAIN L
    BY <1>1 DEF Layout
  <2> HIDE DEF K, c
  <2> QED
    BY <1>7, <1>8, <2>1
<1> HIDE DEF K, U
<1>10. \A m \in DOMAIN L \cup On(C1) : Page(t, m) = Page(s, m)
  BY <1>5, <1>9
<1>11. Chains(s, C1, B1)
  <2>1. \A g \in DOMAIN C1 : g \in DOMAIN C /\ C1[g] = C[g] /\ B1[g] = B[g]
    BY <1>6
  <2> QED
    BY <1>6, <2>1 DEF Layout, Chains
<1>12. Chains(t, C1, B1)
  BY <1>1, <1>5, <1>10, <1>11, ChainsKept
<1>13. Shelves(t, L)
  BY <1>10 DEF Layout, Shelves
<1>14. DOMAIN L \cap On(C1) = {} /\ Pool(t, DOMAIN L \cup On(C1)) /\ Count(t) < None
  BY <1>5, <1>7, <1>9 DEF Layout
<1>15. Layout(t, L, C1, B1)
  BY <1>12, <1>13, <1>14 DEF Layout
<1>16. \A m \in On(C) \ RangeOf(c) : Page(t, m) = Page(s, m)
  BY <1>7, <1>10
<1> QED
  BY <1>15, <1>16 DEF t, C1, B1, c

\* What a free leaves.
Freed(s, L, C, B, t, r) ==
    /\ \E L1, C1, B1 : Layout(t, L1, C1, B1) /\ Loses(L, B, L1, B1, r)
    /\ \A m \in On(C) : (r[2] = Marker => m \notin RangeOf(C[r[1]])) => Page(t, m) = Page(s, m)

\* A slot is freed, and with the last one its page.
LEMMA FreeSharedIs ==
    ASSUME NEW s, NEW L, NEW C, NEW B, Layout(s, L, C, B), NEW l \in DOMAIN L, NEW i \in DOMAIN L[l]
    PROVE  /\ i # Marker /\ ~ FreeFails(s, <<l, i>>)
           /\ Freed(s, L, C, B, FreeShared(s, <<l, i>>), <<l, i>>)
<1> DEFINE p == Page(s, l)
           f == FreeSlot(p, i)
           r == <<l, i>>
           t == FreeShared(s, r)
<1>1. Shelf(p, L[l]) /\ l \in Nat /\ \A m \in On(C) : m \in 0 .. Count(s) - 1
  BY LayoutParts DEF Layout, Shelves
<1>2. ~ IsFreeMarked(p) /\ i \in Slots(p)
  BY <1>1, ShelfParts
<1>3. i # Marker
  <2>1. p[0] \in Nat /\ Slots(p) = 0 .. p[0] - 1 /\ DirEnd(p) = 4 + 2 * p[0] /\ DirEnd(p) - 2 <= W
    BY <1>1, PageNumbers DEF Shelf
  <2> QED
    BY <1>2, <2>1, NoneLink, WidthAssumption
<1>4. ~ FreeFails(s, r)
  <2>1. r[1] = l /\ r[2] = i
    OBVIOUS
  <2> HIDE DEF r
  <2> QED
    BY <1>2, <1>3, <2>1 DEF FreeFails
<1>5. /\ f[1] = 0 <=> DOMAIN L[l] = {i}
      /\ DOMAIN L[l] # {i} => Shelf(f, Without(L[l], i))
  BY <1>1, ShelfFreed
<1>6. t = BackOffHint(IF f[1] = 0 THEN FreePage(s, l) ELSE SetPage(s, l, f), l)
  BY <1>2 DEF FreeShared
<1>7. CASE f[1] = 0
  <2> DEFINE u == FreePage(s, l)
             L1 == Without(L, l)
  <2>1. t = BackOffHint(u, l)
    BY <1>6, <1>7
  <2>2. Layout(u, L1, C, B) /\ \A m \in On(C) : Page(u, m) = Page(s, m)
    BY LayoutFreed
  <2> HIDE DEF u, t, L1
  <2>3. Layout(t, L1, C, B) /\ \A m \in 0 .. Count(u) - 1 : Page(t, m) = Page(u, m)
    BY <1>1, <2>1, <2>2, LayoutBackOff
  <2>4. \A m \in On(C) : m \in 0 .. Count(u) - 1
    BY <2>2, LayoutParts
  <2>5. Loses(L, B, L1, B, r)
    BY <1>3, <1>5, <1>7, LosesPage DEF L1
  <2> HIDE DEF r
  <2>6. Freed(s, L, C, B, t, r)
    BY <2>2, <2>3, <2>4, <2>5 DEF Freed
  <2> QED
    BY <1>3, <1>4, <2>6 DEF r, t
<1>8. CASE f[1] # 0
  <2> DEFINE u == SetPage(s, l, f)
             D == Without(L[l], i)
             L1 == With(L, l, D)
  <2>1. t = BackOffHint(u, l)
    BY <1>6, <1>8
  <2>2. Shelf(f, D) /\ DOMAIN D # {}
    <3>1. DOMAIN D = DOMAIN L[l] \ {i}
      BY DEF Without
    <3> QED
      BY <1>5, <1>8, <3>1
  <2> HIDE DEF f, D
  <2>3. Layout(u, L1, C, B) /\ \A m \in On(C) : Page(u, m) = Page(s, m)
    BY <2>2, LayoutSet
  <2> HIDE DEF u, t, L1
  <2>4. Layout(t, L1, C, B) /\ \A m \in 0 .. Count(u) - 1 : Page(t, m) = Page(u, m)
    BY <1>1, <2>1, <2>3, LayoutBackOff
  <2>5. \A m \in On(C) : m \in 0 .. Count(u) - 1
    BY <2>3, LayoutParts
  <2>6. Loses(L, B, L1, B, r)
    BY <1>3, LosesSlot DEF L1, D
  <2> HIDE DEF r
  <2>7. Freed(s, L, C, B, t, r)
    BY <2>3, <2>4, <2>5, <2>6 DEF Freed
  <2> QED
    BY <1>3, <1>4, <2>7 DEF r, t
<1> QED
  BY <1>7, <1>8

\* free_property_bytes: it cannot fail, and it takes one record away.
LEMMA FreeBytesIs ==
    ASSUME NEW s, NEW L, NEW C, NEW B, Layout(s, L, C, B), NEW r, NEW b, Has(L, B, r, b)
    PROVE  ~ FreeFails(s, r) /\ Freed(s, L, C, B, FreeBytes(s, r), r)
<1> DEFINE l == r[1]
           i == r[2]
<1>1. r = <<l, i>>
  BY DEF Has
<1>2. CASE i # Marker
  <2>1. l \in DOMAIN L /\ i \in DOMAIN L[l]
    BY <1>2 DEF Has
  <2>2. FreeBytes(s, r) = FreeShared(s, r)
    BY <1>2 DEF FreeBytes
  <2> HIDE DEF l, i
  <2>3. ~ FreeFails(s, <<l, i>>) /\ Freed(s, L, C, B, FreeShared(s, <<l, i>>), <<l, i>>)
    BY <2>1, FreeSharedIs
  <2> QED
    BY <1>1, <2>2, <2>3
<1>3. CASE i = Marker
  <2> DEFINE t == FreeChain(s, l)
             C1 == Without(C, l)
             B1 == Without(B, l)
  <2>1. l \in DOMAIN B /\ DOMAIN B = DOMAIN C
    BY <1>3 DEF Has, Layout, Chains
  <2>2. FreeBytes(s, r) = t
    BY <1>3 DEF FreeBytes
  <2>3. ~ FreeFails(s, r)
    <3>1. Strand(s, C[l], B[l]) /\ C[l][1] = l /\ s \in Stores
      BY <2>1, LayoutParts DEF Layout, Chains
    <3>2. Chain(s, l) = C[l] /\ Ends(s, C[l])
      BY <3>1, StrandIs
    <3> QED
      BY <1>3, <3>2 DEF FreeFails
  <2> HIDE DEF l, i
  <2>4. Layout(t, L, C1, B1) /\ \A m \in On(C) \ RangeOf(C[l]) : Page(t, m) = Page(s, m)
    BY <2>1, LayoutUnchained
  <2>5. Loses(L, B, L, B1, r)
    BY <1>1, <1>3, <2>1, LosesChain
  <2> HIDE DEF t, C1, B1
  <2>6. Freed(s, L, C, B, t, r)
    BY <1>3, <2>4, <2>5 DEF Freed, l, i
  <2> QED
    BY <2>2, <2>3, <2>6
<1> QED
  BY <1>2, <1>3

\* read_property_bytes gives the words of the record.
LEMMA ReadBytesIs ==
    ASSUME NEW s, NEW L, NEW C, NEW B, Layout(s, L, C, B), NEW r, NEW b, Has(L, B, r, b)
    PROVE  ReadBytes(s, r) = b
<1> DEFINE l == r[1]
           i == r[2]
<1>1. CASE i # Marker
  <2> DEFINE p == Page(s, l)
  <2>1. l \in DOMAIN L /\ i \in DOMAIN L[l] /\ L[l][i] = b
    BY <1>1 DEF Has
  <2>2. Shelf(p, L[l])
    BY <2>1 DEF Layout, Shelves
  <2>3. Filled(p, i, b) /\ i \in Slots(p) /\ Offset(p, i) # Marker
    BY <2>1, <2>2, ShelfParts
  <2>4. ReadBytes(s, r) = ReadSlot(s, r)
    BY <1>1 DEF ReadBytes
  <2>5. ReadSlot(s, r) = ReadWords(p, Offset(p, i), Length(p, i))
    BY <2>3 DEF ReadSlot
  <2> QED
    BY <2>3, <2>4, <2>5 DEF Filled
<1>2. CASE i = Marker
  <2>1. l \in DOMAIN B /\ B[l] = b /\ l \in DOMAIN C
    BY <1>2 DEF Has, Layout, Chains
  <2>2. Strand(s, C[l], B[l]) /\ C[l][1] = l /\ s \in Stores
    BY <2>1, LayoutParts DEF Layout, Chains
  <2>3. ReadChain(s, l) = b
    BY <2>1, <2>2, StrandIs
  <2> QED
    BY <1>2, <2>3 DEF ReadBytes
<1> QED
  BY <1>1, <1>2

-----------------------------------------------------------------------------
\* The records of the callers, and the pages in use.

Records(H, L, B) ==
    /\ \A h \in H : /\ h = [rid |-> h.rid, value |-> h.value]
                    /\ h.value \in [size : Nat, tag : 1 .. 15]
                    /\ Has(L, B, h.rid, Bytes(h.value))
    /\ \A q, x : Has(L, B, q, x) => \E h \in H : h.rid = q
    /\ \A g, h \in H : g.rid = h.rid => g = h

LEMMA RecordsGain ==
    ASSUME NEW H, NEW L, NEW B, Records(H, L, B), NEW v \in [size : Nat, tag : 1 .. 15], NEW L1, NEW B1, NEW r,
           Gains(L, B, L1, B1, r, Bytes(v))
    PROVE  Records(H \cup {[rid |-> r, value |-> v]}, L1, B1)
<1> DEFINE n == [rid |-> r, value |-> v]
           H1 == H \cup {n}
<1>1. n.rid = r /\ n.value = v /\ n = [rid |-> n.rid, value |-> n.value]
  OBVIOUS
<1> HIDE DEF n
<1>2. /\ \A x : ~ Has(L, B, r, x)
      /\ \A q, x : Has(L1, B1, q, x) <=> Has(L, B, q, x) \/ (q = r /\ x = Bytes(v))
  BY DEF Gains
<1>3. ASSUME NEW h \in H1
      PROVE  /\ h = [rid |-> h.rid, value |-> h.value]
             /\ h.value \in [size : Nat, tag : 1 .. 15]
             /\ Has(L1, B1, h.rid, Bytes(h.value))
  <2>1. CASE h = n
    BY <1>1, <1>2, <2>1
  <2>2. CASE h \in H
    BY <1>2, <2>2 DEF Records
  <2> QED
    BY <2>1, <2>2
<1>4. ASSUME NEW q, NEW x, Has(L1, B1, q, x) PROVE \E h \in H1 : h.rid = q
  <2>1. CASE q = r
    BY <1>1, <2>1
  <2>2. CASE q # r
    <3>1. Has(L, B, q, x)
      BY <1>2, <1>4, <2>2
    <3> QED
      BY <3>1 DEF Records
  <2> QED
    BY <2>1, <2>2
<1>5. ASSUME NEW g \in H1, NEW h \in H1, g.rid = h.rid PROVE g = h
  <2>1. \A f \in H : f.rid # r
    BY <1>2 DEF Records
  <2>2. CASE g \in H /\ h \in H
    BY <1>5, <2>2 DEF Records
  <2>3. CASE g = n \/ h = n
    BY <1>1, <1>5, <2>1, <2>3
  <2> QED
    BY <2>2, <2>3
<1> QED
  BY <1>3, <1>4, <1>5 DEF Records, n

LEMMA RecordsLose ==
    ASSUME NEW H, NEW L, NEW B, Records(H, L, B), NEW h \in H, NEW L1, NEW B1, Loses(L, B, L1, B1, h.rid)
    PROVE  Records(H \ {h}, L1, B1)
<1>1. \A g \in H \ {h} : g.rid # h.rid /\ Has(L1, B1, g.rid, Bytes(g.value))
  <2>1. \A g \in H \ {h} : g.rid # h.rid /\ Has(L, B, g.rid, Bytes(g.value))
    BY DEF Records
  <2> QED
    BY <2>1 DEF Loses
<1>2. ASSUME NEW q, NEW x, Has(L1, B1, q, x) PROVE \E g \in H \ {h} : g.rid = q
  <2>1. Has(L, B, q, x) /\ q # h.rid
    BY <1>2 DEF Loses
  <2>2. PICK g \in H : g.rid = q
    BY <2>1 DEF Records
  <2> QED
    BY <2>1, <2>2
<1> QED
  BY <1>1, <1>2 DEF Records

\* The store is laid out in pages of slots, chains and free pages, and the records
\* of the callers are what is on them.
PInv ==
    /\ result \in {"ok", "NoRoom"}
    /\ \E L, C, B : Layout(store, L, C, B) /\ Records(held, L, B)

-----------------------------------------------------------------------------
\* The first store has no page.

LEMMA NothingLaid ==
    /\ Layout(NoPages, NoSlots, NoSlots, NoSlots)
    /\ Records({}, NoSlots, NoSlots)
    /\ NoPages \in Stores /\ Count(NoPages) = 0 /\ NoPages.free = None
<1>1. DOMAIN NoSlots = {}
  BY DEF NoSlots
<1>2. On(NoSlots) = {}
  BY <1>1 DEF On
<1>3. <<>> \in Seq(PagesW) /\ <<>> \in Seq(Nat) /\ Len(<<>>) = 0
  OBVIOUS
<1>4. NoPages \in Stores /\ Count(NoPages) = 0 /\ NoPages.free = None
  BY <1>3, NoneLink DEF NoPages, Stores, Count
<1>5. FreeLinks(NoPages, <<>>) /\ Splits(NoPages, {}, <<>>)
  BY <1>3, <1>4 DEF FreeLinks, Splits
<1>6. Pool(NoPages, {})
  BY <1>4, <1>5 DEF Pool
<1>7. Shelves(NoPages, NoSlots) /\ Chains(NoPages, NoSlots, NoSlots)
  BY <1>1 DEF Shelves, Chains
<1>8. Layout(NoPages, NoSlots, NoSlots, NoSlots)
  <2>1. DOMAIN NoSlots \cup On(NoSlots) = {} /\ DOMAIN NoSlots \cap On(NoSlots) = {}
    BY <1>1, <1>2
  <2>2. Count(NoPages) < None
    BY <1>4, NoneLink DEF Base
  <2> QED
    BY <1>6, <1>7, <2>1, <2>2 DEF Layout
<1>9. \A q, x : ~ Has(NoSlots, NoSlots, q, x)
  BY <1>1 DEF Has
<1> QED
  BY <1>4, <1>8, <1>9 DEF Records

-----------------------------------------------------------------------------
\* Every step keeps the layout.

\* What a call leaves: the layout, and the pages of the chains that are still held.
Kind(L, C, B) == Layout(store, L, C, B) /\ Records(held, L, B)

LEMMA WriteKeeps ==
    ASSUME ClearLinks, NEW L, NEW C, NEW B, Kind(L, C, B), result \in {"ok", "NoRoom"}, NEW v \in Values, Write(v)
    PROVE  PInv' /\ \A m \in On(C) : Page(store', m) = Page(store, m)
<1> DEFINE b == Bytes(v)
           done == WriteBytes(store, b)
           t == done.store
           r == done.rid
<1>1. v \in [size : Nat, tag : 1 .. 15]
  BY SizesAssumption DEF Values
<1>2. Layout(store, L, C, B) /\ Records(held, L, B)
  BY DEF Kind
<1>3. CASE WriteFails(store, b)
  BY <1>2, <1>3 DEF Write, PInv
<1>4. CASE ~ WriteFails(store, b)
  <2>1. /\ Room(t) /\ store' = t /\ held' = held \cup {[rid |-> r, value |-> v]} /\ result' = "ok"
        /\ Small(v.size) \/ LinksClear(store, b)
    BY <1>4 DEF Write
  <2>2. Count(t) < None
    <3>1. Count(t) <= MaxPages
      BY <2>1 DEF Room
    <3>2. MaxPages \in Nat /\ MaxPages < None
      BY BoundsAssumption
    <3>3. Count(t) \in Nat
      BY <1>1, <1>2, <1>4, WriteCounts
    <3> HIDE DEF t
    <3> QED
      BY <3>1, <3>2, <3>3, NoneLink
  <2>3. Written(store, L, C, B, t, r, b)
    BY <1>1, <1>2, <1>4, <2>1, <2>2, WriteBytesIs
  <2> HIDE DEF b, t, r
  <2>4. PICK L1, C1, B1 : Layout(t, L1, C1, B1) /\ Gains(L, B, L1, B1, r, b)
    BY <2>3 DEF Written
  <2>5. Records(held', L1, B1)
    BY <1>1, <1>2, <2>1, <2>4, RecordsGain DEF b
  <2>6. PInv'
    BY <2>1, <2>4, <2>5 DEF PInv
  <2>7. \A m \in On(C) : Page(store', m) = Page(store, m)
    BY <2>1, <2>3 DEF Written
  <2> QED
    BY <2>6, <2>7
<1> QED
  BY <1>3, <1>4

LEMMA FreeKeeps ==
    ASSUME NEW L, NEW C, NEW B, Kind(L, C, B), NEW h \in held, Free(h)
    PROVE  /\ PInv'
           /\ \A m \in On(C) : (h.rid[2] = Marker => m \notin RangeOf(C[h.rid[1]])) => Page(store', m) = Page(store, m)
           /\ held' = held \ {h}
<1> DEFINE r == h.rid
           t == FreeBytes(store, r)
<1>1. Layout(store, L, C, B) /\ Records(held, L, B)
  BY DEF Kind
<1>2. Has(L, B, r, Bytes(h.value))
  BY <1>1 DEF Records
<1>3. ~ FreeFails(store, r) /\ Freed(store, L, C, B, t, r)
  BY <1>1, <1>2, FreeBytesIs
<1>4. store' = t /\ held' = held \ {h} /\ result' = "ok"
  BY <1>3 DEF Free
<1> HIDE DEF t
<1>6. PICK L1, C1, B1 : Layout(t, L1, C1, B1) /\ Loses(L, B, L1, B1, r)
  BY <1>3 DEF Freed
<1>7. Records(held', L1, B1)
  BY <1>1, <1>4, <1>6, RecordsLose
<1>8. PInv'
  BY <1>4, <1>6, <1>7 DEF PInv
<1>9. \A m \in On(C) : (r[2] = Marker => m \notin RangeOf(C[r[1]])) => Page(store', m) = Page(store, m)
  BY <1>3, <1>4 DEF Freed
<1> QED
  BY <1>4, <1>8, <1>9

LEMMA PInvKept == ASSUME ClearLinks PROVE PInv /\ [Next]_vars => PInv'
<1> SUFFICES ASSUME PInv, [Next]_vars PROVE PInv'
  OBVIOUS
<1>1. PICK L, C, B : Kind(L, C, B)
  BY DEF PInv, Kind
<1>2. ASSUME NEW v \in Values, Write(v) PROVE PInv'
  BY <1>1, <1>2, WriteKeeps DEF PInv
<1>3. ASSUME NEW h \in held, Free(h) PROVE PInv'
  BY <1>1, <1>3, FreeKeeps DEF PInv
<1>4. CASE UNCHANGED vars
  BY <1>4 DEF PInv, vars
<1> QED
  BY <1>2, <1>3, <1>4 DEF Next

\* Every reachable store is laid out as PInv says.
THEOREM StoreLaidOut == ASSUME ClearLinks PROVE Spec => []PInv
<1>1. Init => PInv
  BY NothingLaid DEF Init, PInv
<1>2. PInv /\ [Next]_vars => PInv'
  BY PInvKept
<1> QED
  BY <1>1, <1>2, PTL DEF Spec

-----------------------------------------------------------------------------
\* What the layout says of the records.

LEMMA PagesOfIs ==
    ASSUME NEW L, NEW C, NEW B, Layout(store, L, C, B), NEW r, NEW b, Has(L, B, r, b)
    PROVE  /\ r[2] # Marker => r[1] \in DOMAIN L /\ PagesOf(r) = {r[1]}
           /\ r[2] = Marker => r[1] \in DOMAIN C /\ PagesOf(r) = RangeOf(C[r[1]])
<1>1. CASE r[2] # Marker
  BY <1>1 DEF Has, PagesOf
<1>2. CASE r[2] = Marker
  <2>1. r[1] \in DOMAIN C
    BY <1>2 DEF Has, Layout, Chains
  <2> DEFINE c == C[r[1]]
  <2>2. Strand(store, c, B[r[1]]) /\ c[1] = r[1] /\ store \in Stores
    BY <2>1, LayoutParts DEF Layout, Chains
  <2>3. Chain(store, r[1]) = c /\ c \in Seq(Nat)
    BY <2>2, StrandIs DEF Strand
  <2>4. DOMAIN c = 1 .. Len(c)
    BY <2>3
  <2> HIDE DEF c
  <2>5. PagesOf(r) = {c[k] : k \in DOMAIN c}
    BY <1>2, <2>3 DEF PagesOf
  <2> QED
    BY <1>2, <2>1, <2>4, <2>5 DEF RangeOf, c
<1> QED
  BY <1>1, <1>2

\* The pages of the records are the pages in use.
LEMMA PagesInUse ==
    ASSUME NEW L, NEW C, NEW B, Kind(L, C, B)
    PROVE  UNION {PagesOf(h.rid) : h \in held} = DOMAIN L \cup On(C)
<1>1. Layout(store, L, C, B) /\ Records(held, L, B)
  BY DEF Kind
<1>2. ASSUME NEW h \in held, NEW m \in PagesOf(h.rid) PROVE m \in DOMAIN L \cup On(C)
  <2> DEFINE r == h.rid
  <2>1. Has(L, B, r, Bytes(h.value))
    BY <1>1 DEF Records
  <2>2. /\ r[2] # Marker => r[1] \in DOMAIN L /\ PagesOf(r) = {r[1]}
        /\ r[2] = Marker => r[1] \in DOMAIN C /\ PagesOf(r) = RangeOf(C[r[1]])
    BY <1>1, <2>1, PagesOfIs
  <2>3. \A g \in DOMAIN C : RangeOf(C[g]) \subseteq On(C)
    BY <1>1, LayoutParts
  <2> QED
    BY <1>2, <2>2, <2>3
<1>3. ASSUME NEW m \in DOMAIN L PROVE \E h \in held : m \in PagesOf(h.rid)
  <2>1. PICK i \in DOMAIN L[m] : TRUE
    BY <1>1 DEF Layout, Shelves
  <2> DEFINE r == <<m, i>>
  <2>2. i # Marker
    BY <1>1, FreeSharedIs
  <2>3. r[1] = m /\ r[2] = i /\ r = <<r[1], r[2]>>
    OBVIOUS
  <2> HIDE DEF r
  <2>4. Has(L, B, r, L[m][i])
    BY <2>2, <2>3 DEF Has
  <2>5. PICK h \in held : h.rid = r
    BY <1>1, <2>4 DEF Records
  <2>6. PagesOf(r) = {m}
    BY <1>1, <2>2, <2>3, <2>4, PagesOfIs
  <2> QED
    BY <2>5, <2>6
<1>4. ASSUME NEW m \in On(C) PROVE \E h \in held : m \in PagesOf(h.rid)
  <2>1. PICK g \in DOMAIN C : m \in RangeOf(C[g])
    BY DEF On
  <2> DEFINE r == <<g, Marker>>
  <2>2. r[1] = g /\ r[2] = Marker /\ r = <<r[1], r[2]>>
    OBVIOUS
  <2> HIDE DEF r
  <2>3. g \in DOMAIN B
    BY <1>1 DEF Layout, Chains
  <2>4. Has(L, B, r, B[g])
    BY <2>2, <2>3 DEF Has
  <2>5. PICK h \in held : h.rid = r
    BY <1>1, <2>4 DEF Records
  <2>6. PagesOf(r) = RangeOf(C[g])
    BY <1>1, <2>2, <2>4, PagesOfIs
  <2> QED
    BY <2>1, <2>5, <2>6
<1> QED
  BY <1>2, <1>3, <1>4

LEMMA LaidOutReads == PInv => ReadsBack
<1> SUFFICES ASSUME PInv PROVE ReadsBack
  OBVIOUS
<1>1. PICK L, C, B : Layout(store, L, C, B) /\ Records(held, L, B)
  BY DEF PInv
<1>2. ASSUME NEW h \in held PROVE ReadBytes(store, h.rid) = Bytes(h.value)
  <2>1. Has(L, B, h.rid, Bytes(h.value))
    BY <1>1 DEF Records
  <2> QED
    BY <1>1, <2>1, ReadBytesIs
<1> QED
  BY <1>2 DEF PInv, ReadsBack

LEMMA LaidOutFree == PInv => FreeListExact
<1> SUFFICES ASSUME PInv PROVE FreeListExact
  OBVIOUS
<1>1. PICK L, C, B : Kind(L, C, B)
  BY DEF PInv, Kind
<1> DEFINE U == DOMAIN L \cup On(C)
<1>2. PICK q : FreeLinks(store, q) /\ Splits(store, U, q)
  BY <1>1 DEF Kind, Layout, Pool
<1>3. Count(store) \in Nat
  BY <1>1, LayoutParts DEF Kind
<1>4. FreeList = q
  BY <1>2, <1>3, FreeListIs
<1>5. q \in Seq(Nat) /\ DOMAIN q = 1 .. Len(q) /\ \A i \in 1 .. Len(q) : q[i] \in Nat
  <2>1. q \in Seq(Nat)
    BY <1>2 DEF FreeLinks
  <2> QED
    BY <2>1
<1> DEFINE listed == {q[k] : k \in 1 .. Len(q)}
<1>6. Cardinality(listed) = Len(q)
  BY <1>2, <1>3, <1>5, ChainShort DEF FreeLinks
<1>7. UNION {PagesOf(h.rid) : h \in held} = U
  BY <1>1, PagesInUse
<1> HIDE DEF U
<1>8. listed = (0 .. Count(store) - 1) \ U
  <2>1. \A i \in 1 .. Len(q) : q[i] \in 0 .. Count(store) - 1
    <3>1. \A i \in 1 .. Len(q) : q[i] < Count(store)
      BY <1>2 DEF FreeLinks
    <3> DEFINE n == Count(store)
    <3>2. n \in Nat /\ \A i \in 1 .. Len(q) : q[i] < n /\ q[i] \in Nat
      BY <1>3, <1>5, <3>1
    <3> HIDE DEF n
    <3>3. \A i \in 1 .. Len(q) : q[i] \in 0 .. n - 1
      BY <3>2
    <3> QED
      BY <3>3 DEF n
  <2>2. ASSUME NEW m \in listed PROVE m \in (0 .. Count(store) - 1) \ U
    BY <1>2, <2>1 DEF Splits
  <2>3. ASSUME NEW m \in 0 .. Count(store) - 1, m \notin U PROVE m \in listed
    BY <1>2, <2>3 DEF Splits
  <2> QED
    BY <2>2, <2>3
<1> HIDE DEF listed
<1>9. LET list == FreeList
          found == {list[k] : k \in DOMAIN list}
      IN  found = listed /\ Len(list) = Cardinality(found)
  BY <1>4, <1>5, <1>6 DEF listed
<1> QED
  BY <1>7, <1>8, <1>9 DEF FreeListExact

\* PropertyPages.ReadsBack: what is written is read back, and the only call that fails is
\* the write of a value that no page has room for, which changes nothing.
THEOREM RecordsReadBack == ASSUME ClearLinks PROVE Spec => []ReadsBack
<1>1. Spec => []PInv
  BY StoreLaidOut
<1>2. PInv => ReadsBack
  BY LaidOutReads
<1> QED
  BY <1>1, <1>2, PTL

\* PropertyPages.FreeListExact: a page is in the free list or in use, never both.
THEOREM FreePagesExact == ASSUME ClearLinks PROVE Spec => []FreeListExact
<1>1. Spec => []PInv
  BY StoreLaidOut
<1>2. PInv => FreeListExact
  BY LaidOutFree
<1> QED
  BY <1>1, <1>2, PTL

LEMMA ChainsStay ==
    ASSUME ClearLinks
    PROVE  PInv /\ [Next]_vars => [\A h \in held : h.rid[2] = Marker /\ h \in held' =>
                                      \A l \in PagesOf(h.rid) : Page(store', l) = Page(store, l)]_vars
<1> SUFFICES ASSUME PInv, Next, NEW h \in held, h.rid[2] = Marker, h \in held', NEW l \in PagesOf(h.rid)
             PROVE  Page(store', l) = Page(store, l)
  OBVIOUS
<1>1. PICK L, C, B : Kind(L, C, B)
  BY DEF PInv, Kind
<1>2. Layout(store, L, C, B) /\ Records(held, L, B) /\ result \in {"ok", "NoRoom"}
  BY <1>1 DEF Kind, PInv
<1> DEFINE a == h.rid[1]
<1>3. Has(L, B, h.rid, Bytes(h.value)) /\ h.rid = <<a, Marker>>
  BY <1>2 DEF Records, Has
<1>4. a \in DOMAIN C /\ l \in RangeOf(C[a])
  BY <1>2, <1>3, PagesOfIs
<1>5. l \in On(C)
  BY <1>2, <1>4, LayoutParts
<1>6. ASSUME NEW v \in Values, Write(v) PROVE Page(store', l) = Page(store, l)
  BY <1>1, <1>2, <1>5, <1>6, WriteKeeps
<1>7. ASSUME NEW g \in held, Free(g) PROVE Page(store', l) = Page(store, l)
  <2>1. /\ \A m \in On(C) : (g.rid[2] = Marker => m \notin RangeOf(C[g.rid[1]])) => Page(store', m) = Page(store, m)
        /\ held' = held \ {g}
    BY <1>1, <1>2, <1>7, FreeKeeps
  <2>2. g.rid # h.rid
    BY <1>2, <2>1 DEF Records
  <2>3. CASE g.rid[2] = Marker
    <3> DEFINE e == g.rid[1]
    <3>1. Has(L, B, g.rid, Bytes(g.value)) /\ g.rid = <<e, Marker>>
      BY <1>2, <2>3 DEF Records, Has
    <3>2. e \in DOMAIN C /\ e # a
      BY <1>2, <1>3, <2>2, <2>3, <3>1, PagesOfIs
    <3>3. l \notin RangeOf(C[e])
      BY <1>2, <1>4, <3>2 DEF Layout, Chains
    <3> QED
      BY <1>5, <2>1, <3>3
  <2> QED
    BY <1>5, <2>1, <2>3
<1> QED
  BY <1>6, <1>7 DEF Next

\* PropertyPages.ChainsNotShared: what the writers of large values rely on.
THEOREM ChainsApart == ASSUME ClearLinks PROVE Spec => ChainsNotShared
<1>1. Spec => []PInv
  BY StoreLaidOut
<1>2. PInv /\ [Next]_vars => [\A h \in held : h.rid[2] = Marker /\ h \in held' =>
                                  \A l \in PagesOf(h.rid) : Page(store', l) = Page(store, l)]_vars
  BY ChainsStay
<1> QED
  BY <1>1, <1>2, PTL DEF Spec, ChainsNotShared
===============================================================================
