\* From one album to another before the image of the first is found.
SPECIFICATION Spec
CONSTANTS
    Albums = {a1, a2}
    NoAlbum = NoAlbum
    NoMedia = NoMedia
    Filed = {}
    Listeners = {l1}
    Handlers = {}
    maxCacheSize = 2
    Hurried = TRUE
    MaxChanges = 2
    MaxCommands = 0
    MaxFaults = 0
    MaxAdmin = 0
INVARIANTS
    CurrentArt
\* The companion may fall silent for ever.
CHECK_DEADLOCK FALSE
