\* One listener, and a second one from a reconnection on; messages lost and
\* swapped, sets abandoned, writes failing.
SPECIFICATION FairSpec
CONSTANTS
    s1 = s1
    s2 = s2
    s3 = s3
    s4 = s4
    Sets = {s1, s2, s3, s4}
    Mode <- AllModes
    Listeners = {l1, l2}
    MaxChunks = 2
    TotalChunks <- Lengths
    ChanCap = 3
    Absent = Absent
    Torn = Torn
    Reordering = TRUE
    MaxTransfers = 2
    MaxFaults = 1
INVARIANTS
    TypeOK
    PanicsOnlyCrossed
    VerifiedIsWhole
PROPERTIES
    AnnouncedIsReadable
    Recovers
\* The companion may fall silent for ever.
CHECK_DEADLOCK FALSE
