\* Each of the properties is violated: keep one at a time.
\* NoPanic, HealthyStays: two writes to one connection. UpdateShown: events broadcast
\* after the unlock.
SPECIFICATION HubSpec
CONSTANTS
    Conns = {c1, c2}
    StateCallers = {b1, b2}
    UpdateCallers = {b1, b2}
    Pinged = {c1}
    MaxEvents = 2
    Pinger = Pinger
    None = None
CHECK_DEADLOCK FALSE
INVARIANTS
    NoPanic
    UpdateShown
PROPERTIES
    HealthyStays
