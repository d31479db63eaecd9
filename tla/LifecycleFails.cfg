\* Each of the properties is violated: keep one at a time.
\* GracefulExit: the server's goroutine against main after a signal.
\* NoServerAfterStop: a signal before the server's goroutine has begun.
\* StatusWhenStable: a companion that goes on reporting.
SPECIFICATION LifecycleSpec
CONSTANTS
    TickEvery = 2
    IdleFor = 1
    Handlers = {h1, h2}
    QueueCap = 1
    Main = Main
    None = None
INVARIANTS
    GracefulExit
    NoServerAfterStop
    StatusWhenStable
CHECK_DEADLOCK FALSE
