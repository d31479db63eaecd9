\* Lost links, failed calls, two commands through a channel for one, and Stop.
SPECIFICATION FairSpec
CONSTANTS
    Cmds = {c1, c2}
    QueueCap = 1
    Absent = Absent
    MayStop = TRUE
    MaxFaults = 2
INVARIANTS
    ListenerPerConnection
PROPERTIES
    EveryCommandEnds
    LinkRestored
    StopsAll
\* A connected client with nothing to do waits, and a stopped one is done.
CHECK_DEADLOCK FALSE
