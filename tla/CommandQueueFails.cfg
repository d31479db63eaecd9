\* Each of the properties is violated: keep one at a time.
\* OldestIsOldest: an urgent command in front of an older one. NoPanic: stopped twice,
\* started in between. Drains: stopped and started again.
SPECIFICATION FairSpec
CONSTANTS
    Urgent = {u1}
    Regular = {r1}
    Absent = Absent
    MaxStarts = 2
    MayDiscard = FALSE
INVARIANTS
    NoPanic
    OldestIsOldest
PROPERTIES
    Drains
\* An empty queue waits, and a stopped one is done.
CHECK_DEADLOCK FALSE
