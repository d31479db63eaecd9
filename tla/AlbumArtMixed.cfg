\* One transfer dropped half-way, then another: whose chunks are they?
SPECIFICATION Spec
CONSTANTS
    a1 = a1
    a2 = a2
    Art = {a1, a2}
    Listeners = {l1}
    MaxChunks = 2
    TotalChunks <- EqualSizes
    Gzipped = {}
    maxCacheSize = 2
    ChanCap = 3
    Absent = Absent
    Torn = Torn
    Foreign = Foreign
    MaxTransfers = 2
    MaxFaults = 1
    MaxAdmin = 0
INVARIANTS
    StoredIsTheImage
\* The companion may fall silent for ever.
CHECK_DEADLOCK FALSE
