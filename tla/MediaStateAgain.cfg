\* An album that plays for a second time.
SPECIFICATION Spec
CONSTANTS
    Albums = {a1, a2}
    NoAlbum = NoAlbum
    NoMedia = NoMedia
    Filed = {}
    Listeners = {l1}
    Handlers = {}
    maxCacheSize = 2
    Hurried = FALSE
    MaxChanges = 3
    MaxCommands = 0
    MaxFaults = 0
    MaxAdmin = 0
PROPERTIES
    SavedIsFound
\* The companion may fall silent for ever.
CHECK_DEADLOCK FALSE
