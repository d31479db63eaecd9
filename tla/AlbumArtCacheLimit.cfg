\* Two images through a cache for one.
SPECIFICATION Spec
CONSTANTS
    a1 = a1
    a2 = a2
    Art = {a1, a2}
    Listeners = {l1}
    MaxChunks = 1
    TotalChunks <- OneChunk
    Gzipped = {}
    maxCacheSize = 1
    ChanCap = 3
    Absent = Absent
    Torn = Torn
    Foreign = Foreign
    MaxTransfers = 2
    MaxFaults = 0
    MaxAdmin = 0
INVARIANTS
    CacheBounded
\* The companion may fall silent for ever.
CHECK_DEADLOCK FALSE
