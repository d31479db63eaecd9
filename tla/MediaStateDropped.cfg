\* A command that cannot be sent.
SPECIFICATION Spec
CONSTANTS
    Albums = {a1}
    NoAlbum = NoAlbum
    NoMedia = NoMedia
    Filed = {}
    Listeners = {l1}
    Handlers = {h1}
    maxCacheSize = 1
    Hurried = TRUE
    MaxChanges = 1
    MaxCommands = 1
    MaxFaults = 1
    MaxAdmin = 0
INVARIANTS
    CurrentMedia
\* The companion may fall silent for ever.
CHECK_DEADLOCK FALSE
