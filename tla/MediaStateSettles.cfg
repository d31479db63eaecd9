\* Two listeners and a handler; one album in a file, one at the companion;
\* a lost or overtaken report, a failed command or an I/O error; an upload.
SPECIFICATION Spec
CONSTANTS
    Albums = {a1, a2}
    NoAlbum = NoAlbum
    NoMedia = NoMedia
    Filed = {a1}
    Listeners = {l1, l2}
    Handlers = {h1}
    maxCacheSize = 1
    Hurried = TRUE
    MaxChanges = 2
    MaxCommands = 1
    MaxFaults = 1
    MaxAdmin = 1
SYMMETRY GoroutineSymmetry
INVARIANTS
    SettledAgrees
    AlbumAnnounced
\* The companion may fall silent for ever.
CHECK_DEADLOCK FALSE
