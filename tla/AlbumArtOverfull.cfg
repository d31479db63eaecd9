\* A transfer takes a chunk beyond its own last one.
SPECIFICATION Spec
CONSTANTS
    a1 = a1
    a2 = a2
    Art = {a1, a2}
    Listeners = {l1}
    MaxChunks = 3
    TotalChunks <- ShortAndLong
    Gzipped = {}
    maxCacheSize = 2
    ChanCap = 3
    Absent = Absent
    Torn = Torn
    Foreign = Foreign
    MaxTransfers = 2
    MaxFaults = 2
    MaxAdmin = 0
INVARIANTS
    CompleteWhenAllReceived
\* The companion may fall silent for ever.
CHECK_DEADLOCK FALSE
