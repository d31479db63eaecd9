\* From one album to another and back, each dealt with before the next.
SPECIFICATION Spec
CONSTANTS
    Albums = {a1, a2}
    NoAlbum = NoAlbum
    NoMedia = NoMedia
    Filed = {a1}
    Listeners = {l1}
    Handlers = {}
    maxCacheSize = 2
    Hurried = FALSE
    MaxChanges = 3
    MaxCommands = 0
    MaxFaults = 0
    MaxAdmin = 0
INVARIANTS
    CurrentArt
\* The companion may fall silent for ever.
CHECK_DEADLOCK FALSE
