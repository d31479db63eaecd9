\* The same instance: two listeners meet in the transfer, and a set is announced
\* although its file was not written.
SPECIFICATION Spec
CONSTANTS
    s1 = s1
    s2 = s2
    s3 = s3
    s4 = s4
    Sets = {s1, s2, s3, s4}
    Mode <- AllModes
    Listeners = {l1, l2}
    MaxChunks = 2
    TotalChunks <- Lengths
    ChanCap = 3
    Absent = Absent
    Torn = Torn
    Reordering = TRUE
    MaxTransfers = 2
    MaxFaults = 1
INVARIANTS
    NoPanic
PROPERTIES
    AlwaysReadable
\* The companion may fall silent for ever.
CHECK_DEADLOCK FALSE
