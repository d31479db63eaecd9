\* One listener, a compressed and a plain image of different sizes, every kind of fault.
SPECIFICATION FairSpec
CONSTANTS
    a1 = a1
    a2 = a2
    Art = {a1, a2}
    Listeners = {l1}
    MaxChunks = 3
    TotalChunks <- ShortAndLong
    Gzipped = {a2}
    maxCacheSize = 1
    ChanCap = 3
    Absent = Absent
    Torn = Torn
    Foreign = Foreign
    MaxTransfers = 2
    MaxFaults = 2
    MaxAdmin = 2
INVARIANTS
    StoredIsWhole
    GzipNeverMixed
PROPERTIES
    NoResurrection
    ReassemblySpec
    Reclaimed
    Delivered
\* The companion may fall silent for ever.
CHECK_DEADLOCK FALSE
