------------------------------- MODULE Locks -------------------------------
(***************************************************************************)
(* The mutexes of the daemon and the calls that take them:                 *)
(*                                                                         *)
(*   manager  ManagerV2.mu             (sync.RWMutex)                      *)
(*   art      AlbumArtHandler.mu       (sync.RWMutex)                      *)
(*   current  currentAlbumArtMutex     (sync.RWMutex)                      *)
(*   hub      WebSocketHub.mu          (sync.Mutex)                        *)
(*   client   BleClientV2.mu           (sync.RWMutex)                      *)
(*                                                                         *)
(* A call is the sequence of its lock operations, those of what it calls   *)
(* with a lock held included; all else a call does is left out, and        *)
(* returns. Goroutines make calls in any order.                            *)
(***************************************************************************)
EXTENDS Integers, Sequences, FiniteSets

CONSTANTS
    Goroutines,
    Calls,   \* the calls that are made
    Idle     \* "in no call"

ASSUME LocksAssumption ==
    /\ Calls \subseteq {"ReceiveLastChunk", "ReadState", "ChangeArt", "ReadArt", "GetStats",
                         "UpdateMediaState", "CheckAlbumArt", "SendMediaCommand", "SendUpdate",
                         "CheckConnectionStatus", "ChangeClients", "GetCurrentAlbumArt"}
    /\ Idle \notin Goroutines \cup Calls

Mutexes == {"manager", "art", "current", "hub", "client"}

Op(kind, l)  == <<[kind |-> kind, lock |-> l]>>
Locked(l, body)  == Op("Lock", l) \o body \o Op("Unlock", l)
RLocked(l, body) == Op("RLock", l) \o body \o Op("RUnlock", l)

-----------------------------------------------------------------------------
(***************************************************************************)
(* What calls lock.                                                        *)
(***************************************************************************)
\* The snapshot of the clients, the writes, the removal of the failed ones.
Broadcast == Locked("hub", <<>>) \o Locked("hub", <<>>)

RecordActivity == Locked("manager", <<>>)

SetCurrentAlbumArt == Locked("current", <<>>)

\* The callback NewManagerV2 gives to the album-art handler.
ArtCallback == RecordActivity \o SetCurrentAlbumArt \o Broadcast \o Broadcast

\* A completing chunk runs the callback with the handler locked.
ReceiveLastChunk == RLocked("art", <<>>) \o Locked("art", ArtCallback)

\* GetCurrentState, GetCurrentMediaState
ReadState == RLocked("manager", <<>>)

\* StartTransfer, ReceiveChunk, CleanupStaleTransfers, ClearCache, SetEnabled
ChangeArt == Locked("art", <<>>)

\* GetActiveTransfers, GetCacheStats and GetTransferProgress in a row
ReadArt == RLocked("art", <<>>) \o RLocked("art", <<>>) \o RLocked("art", <<>>)

GetStats == RLocked("manager", RLocked("art", <<>>) \o RLocked("art", <<>>))

\* checkAndRequestAlbumArtByHash with the image in a file, and what follows it
CheckAlbumArt ==
    RLocked("art", <<>>) \o Locked("art", <<>>) \o SetCurrentAlbumArt \o Broadcast

\* Mutant: the image is looked for before the unlock, not in a goroutine.
UpdateMediaStateChecks == RecordActivity \o Locked("manager", CheckAlbumArt \o Broadcast)

\* handleNotification reads the callback under the client's lock.
UpdateMediaState == RLocked("client", <<>>) \o RecordActivity \o Locked("manager", Broadcast)

SendMediaCommand ==
    RecordActivity \o Locked("manager", Broadcast) \o Locked("client", <<>>)

\* SendPlayStateUpdate, SendVolumeUpdate, SendWeatherUpdate
SendUpdate == Locked("manager", <<>>) \o Broadcast

CheckConnectionStatus == RLocked("manager", <<>>) \o Locked("manager", Broadcast)

\* A client joins or leaves.
ChangeClients == Locked("hub", <<>>)

GetCurrentAlbumArt == RLocked("current", <<>>)

Program(call) ==
    CASE call = "ReceiveLastChunk"      -> ReceiveLastChunk
      [] call = "ReadState"             -> ReadState
      [] call = "ChangeArt"             -> ChangeArt
      [] call = "ReadArt"               -> ReadArt
      [] call = "GetStats"              -> GetStats
      [] call = "UpdateMediaState"      -> UpdateMediaState
      [] call = "CheckAlbumArt"         -> CheckAlbumArt
      [] call = "SendMediaCommand"      -> SendMediaCommand
      [] call = "SendUpdate"            -> SendUpdate
      [] call = "CheckConnectionStatus" -> CheckConnectionStatus
      [] call = "ChangeClients"         -> ChangeClients
      [] call = "GetCurrentAlbumArt"    -> GetCurrentAlbumArt

-----------------------------------------------------------------------------
VARIABLES
    in,       \* per goroutine, the call it is in
    pc,       \* per goroutine, the index of its next operation
    waits,    \* goroutines blocked in Lock or RLock
    writer,   \* per mutex, the goroutine that locked it
    readers   \* per mutex, the goroutines that locked it for reading

vars == <<in, pc, waits, writer, readers>>

Current(g)    == Program(in[g])[pc[g]]
At(g, kind)   == in[g] # Idle /\ Current(g).kind = kind
Waiting(l, k) == {g \in waits : At(g, k) /\ Current(g).lock = l}

TypeOK ==
    /\ in \in [Goroutines -> Calls \cup {Idle}]
    /\ \A g \in Goroutines : IF in[g] = Idle THEN pc[g] = 1 ELSE pc[g] \in DOMAIN Program(in[g])
    /\ waits \subseteq {g \in Goroutines : At(g, "Lock") \/ At(g, "RLock")}
    /\ writer \in [Mutexes -> Goroutines \cup {Idle}]
    /\ readers \in [Mutexes -> SUBSET Goroutines]
    /\ \A l \in Mutexes : writer[l] # Idle => readers[l] = {}

Init ==
    /\ in = [g \in Goroutines |-> Idle]
    /\ pc = [g \in Goroutines |-> 1]
    /\ waits = {}
    /\ writer = [l \in Mutexes |-> Idle]
    /\ readers = [l \in Mutexes |-> {}]

\* The goroutines in S go on to their next operation, or out of their call.
Advance(S) ==
    LET last(g) == pc[g] = Len(Program(in[g])) IN
    /\ in' = [g \in Goroutines |-> IF g \in S /\ last(g) THEN Idle ELSE in[g]]
    /\ pc' = [g \in Goroutines |-> IF g \notin S THEN pc[g] ELSE IF last(g) THEN 1 ELSE pc[g] + 1]
    /\ waits' = waits \ S

Call(g) ==
    /\ in[g] = Idle
    /\ \E c \in Calls : in' = [in EXCEPT ![g] = c]
    /\ UNCHANGED <<pc, waits, writer, readers>>

-----------------------------------------------------------------------------
(***************************************************************************)
(* sync.Mutex and sync.RWMutex: a goroutine blocked in Lock keeps new      *)
(* readers out; Unlock lets the readers that were waiting in.              *)
(***************************************************************************)
Free(l) == writer[l] = Idle /\ readers[l] = {}

Wait(g) ==
    /\ waits' = waits \cup {g}
    /\ UNCHANGED <<in, pc, writer, readers>>

Lock(g) ==
    /\ At(g, "Lock")
    /\ LET l == Current(g).lock IN
         \/ /\ Free(l)
            /\ writer' = [writer EXCEPT ![l] = g]
            /\ UNCHANGED readers
            /\ Advance({g})
         \/ ~Free(l) /\ g \notin waits /\ Wait(g)

RLock(g) ==
    /\ At(g, "RLock") /\ g \notin waits
    /\ LET l    == Current(g).lock
           open == writer[l] = Idle /\ Waiting(l, "Lock") = {}
       IN  \/ /\ open
              /\ readers' = [readers EXCEPT ![l] = @ \cup {g}]
              /\ UNCHANGED writer
              /\ Advance({g})
           \/ ~open /\ Wait(g)

Unlock(g) ==
    /\ At(g, "Unlock")
    /\ LET l        == Current(g).lock
           entering == Waiting(l, "RLock")
       IN  /\ writer' = [writer EXCEPT ![l] = Idle]
           /\ readers' = [readers EXCEPT ![l] = entering]
           /\ Advance({g} \cup entering)

RUnlock(g) ==
    /\ At(g, "RUnlock")
    /\ readers' = [readers EXCEPT ![Current(g).lock] = @ \ {g}]
    /\ UNCHANGED writer
    /\ Advance({g})

Operate(g) == Lock(g) \/ RLock(g) \/ Unlock(g) \/ RUnlock(g)

Next == \E g \in Goroutines : Call(g) \/ Operate(g)

Spec == Init /\ [][Next]_vars

-----------------------------------------------------------------------------
Blockers(g) ==
    LET l == Current(g).lock IN
    (({writer[l]} \ {Idle}) \cup IF At(g, "Lock") THEN readers[l] ELSE Waiting(l, "Lock"))

\* No set of goroutines waits for one another (or one for itself): whatever
\* calls overlap, some goroutine that holds what the others want goes on; and no
\* mutex has a writer and readers (TypeOK).
NoDeadlock ==
    /\ TypeOK
    /\ \A S \in SUBSET waits : S # {} => \E g \in S : Blockers(g) \cap S = {}
=============================================================================
