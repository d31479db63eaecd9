\* Two listeners, any two of twelve messages and commands, one fault.
SPECIFICATION FairSpec
CONSTANTS
    Listeners = {l1, l2}
    Script <- Whole
    Damages = {"cut", "truncated", "payload", "size", "version"}
    DWord = 1048576
    Checksum <- Sum
    IdSpan = 4
    MaxSends = 2
    MaxFaults = 1
    None = None
INVARIANTS
    TypeOK
    AsSent
    SyncSettles
    IdsInFlight
PROPERTIES
    Answered
CHECK_DEADLOCK FALSE
