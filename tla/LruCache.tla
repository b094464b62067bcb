------------------------------- MODULE LruCache -------------------------------
(***************************************************************************)
(* What the page cache promises: pages in the order of their last use, at  *)
(* most Limit of them; a new page takes the place of the one unused for    *)
(* longest, and a changed page is given back before it is forgotten.       *)
(***************************************************************************)
EXTENDS Naturals, Sequences

CONSTANTS PageIds, Puts, Limit

VARIABLES
    recent,    \* the pages, least recently used first
    answer     \* what the last call gave: a page's data, a page to be written with its data, or nothing

Nothing == <<>>

Holds(p) == \E i \in DOMAIN recent : recent[i].page = p
Place(p) == CHOOSE i \in DOMAIN recent : recent[i].page = p
Others(p) == SubSeq(recent, 1, Place(p) - 1) \o SubSeq(recent, Place(p) + 1, Len(recent))
Entry(p, d, changed) == [page |-> p, data |-> d, dirty |-> changed]

LruInit == recent = <<>> /\ answer = Nothing

Get(p) ==
    \/ /\ Holds(p)
       /\ recent' = Append(Others(p), recent[Place(p)])
       /\ answer' = <<recent[Place(p)].data>>
    \/ ~ Holds(p) /\ answer' = Nothing /\ UNCHANGED recent

Update(p, d, changed) ==
    /\ Holds(p)
    /\ recent' = Append(Others(p), Entry(p, d, recent[Place(p)].dirty \/ changed))
    /\ answer' = Nothing

Insert(p, d, changed) ==
    /\ ~ Holds(p) /\ Len(recent) < Limit
    /\ recent' = Append(recent, Entry(p, d, changed))
    /\ answer' = Nothing

Replace(p, d, changed) ==
    /\ ~ Holds(p) /\ Len(recent) = Limit
    /\ recent' = Append(Tail(recent), Entry(p, d, changed))
    /\ answer' = IF Head(recent).dirty THEN <<Head(recent).page, Head(recent).data>> ELSE Nothing

Remove(p) == recent' = (IF Holds(p) THEN Others(p) ELSE recent) /\ answer' = Nothing

Clear == recent' = <<>> /\ answer' = Nothing

LruNext ==
    \/ Clear
    \/ \E p \in PageIds : Get(p) \/ Remove(p)
    \/ \E p \in PageIds : \E put \in Puts[p] :
           Update(p, put[1], put[2]) \/ Insert(p, put[1], put[2]) \/ Replace(p, put[1], put[2])

LruSpec == LruInit /\ [][LruNext]_<<recent, answer>>
===============================================================================
