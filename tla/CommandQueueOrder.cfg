\* One goroutine, failing sends, urgent commands, clearing and expiry.
SPECIFICATION FairSpec
CONSTANTS
    Urgent = {u1}
    Regular = {r1, r2, r3}
    Absent = Absent
    MaxStarts = 1
    MayDiscard = TRUE
INVARIANTS
    InOnePlace
    InOrder
PROPERTIES
    Drains
\* An empty queue waits, and a stopped one is done.
CHECK_DEADLOCK FALSE
