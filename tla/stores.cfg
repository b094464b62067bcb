SPECIFICATION MCSpec
CONSTANTS
    MaxPage = 2
    MaxWal = 3
    Capacity = 1
    v1 = v1
    v2 = v2
    Values <- MCValues
    InitHeader = v1
    Zero = Zero
    Absent = Absent
    NotCached = NotCached
    Torn = Torn
    NoSnapshot = NoSnapshot
    MaxPages <- MCMaxPages
    Slots = 1
    None = None
INVARIANTS ReadsAreRecoverable HeaderInLockstep HintExact VerifySilent
PROPERTIES ImplementsPageStore CheckpointsEnd ImplementsMultigraph
