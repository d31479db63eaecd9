\* The statistics read while the last chunk of an image arrives.
SPECIFICATION Spec
CONSTANTS
    Goroutines = {g1, g2}
    Calls = {"GetStats", "ReceiveLastChunk"}
    Idle = Idle
INVARIANTS
    NoDeadlock
