\* Each of the properties is violated: keep one at a time.
\* ReadyIsListening: the first connection. EssentialsDiscovered: a second one that
\* resolves slowly.
SPECIFICATION Spec
CONSTANTS
    Cmds = {c1}
    QueueCap = 1
    Absent = Absent
    MayStop = FALSE
    MaxFaults = 2
INVARIANTS
    ReadyIsListening
PROPERTIES
    EssentialsDiscovered
\* A connected client with nothing to do waits, and a stopped one is done.
CHECK_DEADLOCK FALSE
