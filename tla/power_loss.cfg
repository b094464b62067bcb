SPECIFICATION PowerSpec
CONSTANTS
    MaxPage = 1
    MaxWal = 2
    Capacity = 1
    v1 = v1
    v2 = v2
    Values <- MCValues
    InitHeader = v1
    Zero = Zero
    Absent = Absent
    NotCached = NotCached
    Torn = Torn
    NoSnapshot = NoSnapshot
    MaxFailures = 2
    Damage = {"tail"}
INVARIANT RecoversWrittenValues
