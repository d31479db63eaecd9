\* Two handlers, a command channel of one, a period of two units, idle after one.
SPECIFICATION LifecycleFairSpec
CONSTANTS
    TickEvery = 2
    IdleFor = 1
    Handlers = {h1, h2}
    QueueCap = 1
    Main = Main
    None = None
INVARIANTS
    StatusWhenIdle
    StopsOnce
    RunningIsTrue
PROPERTIES
    Exits
CHECK_DEADLOCK FALSE
