-------------------------------- MODULE MCPages --------------------------------
(* The five page structures with the bounds of pages.cfg.  They share no state:  *)
(* a behaviour moves one of them.                                                *)
EXTENDS PropertyPages, LabelIndex, PageCache, PageDirectory, PropertyBuckets, TLC

MCRids == 1 .. 6
MCPuts == [p \in PageIds |-> IF p = 1 THEN {<<1, TRUE>>, <<5, FALSE>>} ELSE {<<p, p = 3>>}]
MCPageIds == 1 .. 4
MCBucketOf == ("k1" :> 0) @@ ("k2" :> 0) @@ ("k3" :> 1)

PropertyAtRest == store = NoPages /\ result = "ok"
LabelAtRest == index.pages = <<>>
CacheAtRest == slab = <<>> /\ answer = Nothing
DirectoryAtRest == file = <<>>
BucketsAtRest == buckets.pages = <<>>

MCInit == Init /\ LabelInit /\ CacheInit /\ DirectoryInit /\ BucketsInit

PropertyMoves ==
    /\ LabelAtRest /\ CacheAtRest /\ DirectoryAtRest /\ BucketsAtRest
    /\ Next
    /\ UNCHANGED <<labelVars, cacheVars, dirVars, bucketVars>>

LabelMoves ==
    /\ CacheAtRest /\ DirectoryAtRest /\ BucketsAtRest /\ PropertyAtRest
    /\ LabelCalls
    /\ UNCHANGED <<vars, cacheVars, dirVars, bucketVars>>

CacheMoves ==
    /\ LabelAtRest /\ DirectoryAtRest /\ BucketsAtRest /\ PropertyAtRest
    /\ CacheNext
    /\ UNCHANGED <<vars, labelVars, dirVars, bucketVars>>

DirectoryMoves ==
    /\ LabelAtRest /\ CacheAtRest /\ BucketsAtRest /\ PropertyAtRest
    /\ DirectoryNext
    /\ UNCHANGED <<vars, labelVars, cacheVars, bucketVars>>

BucketsMove ==
    /\ LabelAtRest /\ CacheAtRest /\ DirectoryAtRest /\ PropertyAtRest
    /\ BucketsNext
    /\ UNCHANGED <<vars, labelVars, cacheVars, dirVars>>

MCNext == PropertyMoves \/ LabelMoves \/ CacheMoves \/ DirectoryMoves \/ BucketsMove

MCSpec == MCInit /\ [][MCNext]_<<vars, labelVars, cacheVars, dirVars, bucketVars>>
================================================================================
