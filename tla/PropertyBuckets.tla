--------------------------- MODULE PropertyBuckets ---------------------------
(***************************************************************************)
(* The pages of the property index (storage/property_index.rs): entries of *)
(* a key and a node, in buckets by the hash of the key; a bucket is a      *)
(* chain of pages.  The bucket directory fits one page.  A key stands for  *)
(* a type, a path and a value by their hashes.                             *)
(*                                                                         *)
(* An added entry may fail between two writes; the pages that it appended  *)
(* until then stay behind.                                                 *)
(***************************************************************************)
EXTENDS Naturals, Sequences, FiniteSets

CONSTANTS
    BucketOf,        \* key -> bucket
    Records,         \* ids of nodes
    PerBucketPage,   \* entries of a page (170 in the code)
    MaxBucketPages   \* bound: pages

ASSUME PerBucketPageAssumption == PerBucketPage \in Nat \ {0}

VARIABLES
    buckets,         \* the pages, and the bucket directory: bucket -> first page
    entries          \* ghost: what was added and not removed

bucketVars == <<buckets, entries>>

Keys == DOMAIN BucketOf
BucketIds == {BucketOf[k] : k \in Keys}
NO_ROOT == 0
EmptyPage == [next |-> NO_ROOT, entries |-> <<>>]

\* The pages of a chain, in order.
PagesFrom(b, head) ==
    LET walk[k \in 0..Len(b.pages)] ==
            IF k = 0 THEN IF head = NO_ROOT THEN <<>> ELSE <<head>>
            ELSE LET seen == walk[k - 1]
                     last == seen[Len(seen)]
                 IN  IF seen = <<>> \/ b.pages[last].next = NO_ROOT THEN seen
                     ELSE Append(seen, b.pages[last].next)
    IN  walk[Len(b.pages)]

BucketChain(b, key) == PagesFrom(b, b.head[BucketOf[key]])

\* The places of an entry: page and index.
Places(b, key, r) ==
    LET chain == BucketChain(b, key)
    IN  UNION {{<<chain[k], i>> : i \in {j \in DOMAIN b.pages[chain[k]].entries : b.pages[chain[k]].entries[j] = <<key, r>>}} :
                  k \in DOMAIN chain}

AppendedPage(b, page) == [b EXCEPT !.pages = Append(@, page)]

\* bucket_head_ensure: the first page of a bucket, appended and then entered in the directory.
WithBucket(b, key) ==
    IF b.head[BucketOf[key]] # NO_ROOT THEN b
    ELSE [AppendedPage(b, EmptyPage) EXCEPT !.head[BucketOf[key]] = Len(b.pages) + 1]

WithRoom(b, chain) == {k \in DOMAIN chain : Len(b.pages[chain[k]].entries) < PerBucketPage}
First(S) == CHOOSE k \in S : \A j \in S : k <= j

\* The first page with room, or a page behind the last.
WithEntry(b, key, r) ==
    LET chain == BucketChain(b, key)
    IN  IF WithRoom(b, chain) # {}
        THEN [b EXCEPT !.pages[chain[First(WithRoom(b, chain))]].entries = Append(@, <<key, r>>)]
        ELSE [AppendedPage(b, [next |-> NO_ROOT, entries |-> <<<<key, r>>>>])
                EXCEPT !.pages[chain[Len(chain)]].next = Len(b.pages) + 1]

\* Mutant of Added: the walk that looks for the entry stops at the first page.
AddedMutant(b, key, r) ==
    IF b.head[BucketOf[key]] # NO_ROOT /\ \E x \in Places(b, key, r) : x[1] = b.head[BucketOf[key]] THEN b
    ELSE WithEntry(WithBucket(b, key), key, r)

Added(b, key, r) ==
    IF Places(b, key, r) # {} THEN b ELSE WithEntry(WithBucket(b, key), key, r)

\* The last entry of the page takes the place.
Removed(b, key, r) ==
    IF Places(b, key, r) = {} THEN b
    ELSE LET x  == CHOOSE y \in Places(b, key, r) : TRUE
             es == b.pages[x[1]].entries
         IN  [b EXCEPT !.pages[x[1]].entries = SubSeq([es EXCEPT ![x[2]] = es[Len(es)]], 1, Len(es) - 1)]

AddEntry(key, r) ==
    /\ Len(Added(buckets, key, r).pages) <= MaxBucketPages
    /\ buckets' = Added(buckets, key, r)
    /\ entries' = entries \cup {<<key, r>>}

RemoveEntry(key, r) ==
    /\ buckets' = Removed(buckets, key, r)
    /\ entries' = entries \ {<<key, r>>}

\* A write fails: a page was appended that nothing names yet, blank or with the entry, or the
\* bucket was made and the entry not written.
AddFails(key, r) ==
    /\ Places(buckets, key, r) = {} /\ Len(buckets.pages) < MaxBucketPages
    /\ \/ /\ buckets.head[BucketOf[key]] # NO_ROOT => WithRoom(buckets, BucketChain(buckets, key)) = {}
          /\ \E es \in {<<>>, <<<<key, r>>>>} :
                 /\ es # <<>> => buckets.head[BucketOf[key]] # NO_ROOT
                 /\ buckets' = AppendedPage(buckets, [next |-> NO_ROOT, entries |-> es])
       \/ /\ buckets.head[BucketOf[key]] = NO_ROOT
          /\ buckets' = WithBucket(buckets, key)
    /\ UNCHANGED entries

BucketsInit == buckets = [pages |-> <<>>, head |-> [b \in BucketIds |-> NO_ROOT]] /\ entries = {}

BucketsNext ==
    \E key \in Keys, r \in Records : AddEntry(key, r) \/ RemoveEntry(key, r) \/ AddFails(key, r)

BucketsSpec == BucketsInit /\ [][BucketsNext]_bucketVars

-----------------------------------------------------------------------------
\* Properties.

\* candidates
Candidates(b, key) == {r \in Records : Places(b, key, r) # {}}

\* The candidates of a key are the nodes added under it and not removed, each listed once:
\* an entry that a chain held twice would outlive its removal, and a look-up for a value that
\* no node has any more would name it (add, remove, candidates).
BucketsExact ==
    \A key \in Keys :
        /\ Candidates(buckets, key) = {r \in Records : <<key, r>> \in entries}
        /\ \A r \in Records : Cardinality(Places(buckets, key, r)) <= 1
==============================================================================
