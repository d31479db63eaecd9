\* Two connections, two callers, two broadcasts.
SPECIFICATION FairHubSpec
CONSTANTS
    Conns = {c1, c2}
    StateCallers = {b1, b2}
    UpdateCallers = {b2}
    Pinged = {c1}
    MaxEvents = 2
    Pinger = Pinger
    None = None
CHECK_DEADLOCK FALSE
INVARIANTS
    StateShown
PROPERTIES
    FanoutSpec
    BroadcastEnds
    GoneIsForgotten
