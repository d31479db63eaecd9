\* Each of the properties is violated: keep one at a time.
\* AsSent: the type of a message changes on the way, and the checksum is of the
\* payload only. RefusedIsSaved: a save that fails, or a crash in the middle of one,
\* before the image is asked about. ZoneKept: a crash between the removal of the link
\* to the timezone and the new one.
SPECIFICATION Spec
CONSTANTS
    Listeners = {l1, l2}
    Script <- Whole
    Damages = {"type"}
    DWord = 1048576
    Checksum <- Sum
    IdSpan = 4
    MaxSends = 2
    MaxFaults = 1
    None = None
INVARIANTS
    AsSent
    RefusedIsSaved
    ZoneKept
CHECK_DEADLOCK FALSE
