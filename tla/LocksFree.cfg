\* Three goroutines, every call but GetStats.
SPECIFICATION Spec
CONSTANTS
    Goroutines = {g1, g2, g3}
    Calls = {"ReceiveLastChunk", "ReadState", "ChangeArt", "ReadArt", "UpdateMediaState", "CheckAlbumArt",
             "SendMediaCommand", "SendUpdate", "CheckConnectionStatus", "ChangeClients", "GetCurrentAlbumArt"}
    Idle = Idle
SYMMETRY GoroutineSymmetry
INVARIANTS
    NoDeadlock
