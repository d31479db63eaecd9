# Specifications of nocturned v2

nocturned is the service on a Spotify Car Thing that talks to the NocturneCompanion
app on a phone over BLE and serves the device's user interface over HTTP and
WebSocket. This directory holds TLA+ models of the parts of it whose correctness
depends on the order of events, TLC configurations that check them on small
instances, and TLAPS proofs of the results that matter most.

Sources are named relative to `src/`. Everything here is translated from the code;
the repository's documents are quoted only where the code disagrees with them.

    tlc -workers 2 -config AlbumArtFaults.cfg MCAlbumArt.tla
    tlapm AlbumArtProofs.tla

## 1. The system

### Components

| component | source | state | operations |
|---|---|---|---|
| BLE connection | `bluetooth/ble_client_v2.go` | `isConnected`, device path, characteristic objects, command channel, `stopChan` | `run` (find, connect, watch), `connect`, `processCommandQueue`, `sendCommand`, `Stop` |
| notification dispatch | `bluetooth/ble_client_v2.go`, `command_handlers.go` | the message counter; one goroutine and one channel of ten per `connect` | `handleNotifications`, `handleNotification`, a handler per message type, `sendMessage` |
| album-art reception | `bluetooth/album_art.go` | table of active transfers, image cache, `enabled` | `StartTransfer…`, `ReceiveChunk`, `completeTransfer`, `CleanupStaleTransfers`, cache operations |
| weather reception | `bluetooth/weather_handler.go` | `currentTransfer`, two JSON files; no lock | start, chunk, end |
| media state | `bluetooth/manager.go` | `currentMediaState` | `UpdateMediaState`, `SendMediaCommand`, `checkAndRequestAlbumArtByHash` |
| connection monitor | `bluetooth/manager.go` | `connectionStatus`, `lastActivity` | `recordActivity`, `monitorConnection`, `checkConnectionStatus` |
| manager lifecycle | `bluetooth/manager.go` | `isRunning`, `stopChan`, two tickers | `Start`, `Stop`, setters, `GetStats` |
| rate limiter | `bluetooth/rate_limiter.go` | tokens, last refill, last command | `Allow`, `Wait`, `Reset`, `UpdateConfig` |
| command queue | `bluetooth/rate_limiter.go` | slice of commands, `isRunning`, `stopChan` | `Start`, `Stop`, `Enqueue`, `EnqueuePriority`, `processQueue`, expiry |
| protocol | `bluetooth/protocol.go`, `types.go` | none | encode and decode sixteen-byte headers and payloads |
| HTTP server | `server/` | none of its own | some thirty handlers, each a goroutine |
| WebSocket hub | `utils/websocket.go`, `broadcaster.go`, `server/server.go` | set of connections; a reader and a pinger per connection | join, leave, `Broadcast`, ping |
| device settings | `utils/device.go` | system clock, `localtime` link, brightness | `SetSystemTime`, `SetTimezone` (the others have no caller) |
| current image | `utils/album_art.go` | one global byte slice | get, set |
| over-the-air update | `utils/ota.go` | slots, status | `UpdateSystem` (no caller) |
| entry point | `main_v2.go` | none | start-up, signal handling, shutdown |

### How they interact

The companion's notifications arrive as D-Bus signals. Every goroutine that ever
registered a channel gets a copy of each, and hands it synchronously to the
album-art handler, the weather handler or, by a callback, the manager. An album-art
chunk that completes an image runs two further callbacks (save to a file; set the
current image and tell the WebSocket clients) inside the handler's lock. A media
state with a new album starts a goroutine that looks for its image in the cache and
in a file, and asks the companion otherwise; the answer is an album-art transfer.
HTTP handlers read the manager's state, change the album-art handler, and send
commands to the companion through the command channel. (`SendMediaCommand`, which sends on
the handler's own goroutine, has callers only behind routes the server does not serve.)
Two tickers of the manager drive the cleanup of stale transfers and the connection
status. Five mutexes are taken along these paths. `main` creates and starts all of this, waits
for a signal, closes the HTTP server and stops the manager; the server's own goroutine
ends the process whenever it ends.

### What is hard about it

* Goroutines: handlers run on any number of listener goroutines (one is added by
  every reconnection), HTTP goroutines, tickers and short-lived look-ups.
* Locks: data read under a lock is used after it is released, callbacks run with a
  lock held, and the weather handler has no lock at all.
* The link: messages are lost, arrive late, or change places in a full channel;
  a transfer stops half-way; the link drops between any two D-Bus calls of `connect`.
* Time: stale transfers are removed after five minutes of silence, the connection
  is looked at only when nothing has happened for half a minute.
* The wire: numbers of sixteen and 32 bits are added without widening, and the checksum
  covers the payload alone.
* The sockets: broadcasts and pings write to a connection without agreeing on it, while
  clients join, vanish or no longer read.
* Failure: a file is written in part, a crash comes in the middle of a save, a write
  to the companion fails after the state was changed for it.

### What makes each component correct

* Album art: what is stored is a whole image; an image sent undisturbed is stored;
  every transfer leaves the table; a late chunk does not revive a finished transfer.
* Weather: what passes the checksum is one whole set; what is announced can be read;
  a broken set does not spoil the next.
* BLE connection: a connected client can be used; a lost link comes back; each
  command handed over is written or given up; Stop ends both goroutines.
* Media state: once all is dealt with, it is the companion's, and clients have been
  told of the image of what plays.
* Connection monitor: the status clients see follows the connection within a known time.
* Limiter and queue: the rate is kept and not undercut for ever; commands are neither
  lost, repeated nor overtaken.
* Dispatch: nothing is acted on that was not sent; each listener answers a request once;
  listeners that set the clock and the timezone in turn leave what was said last.
* Protocol: what is encoded is what is decoded, and what is decoded was announced.
* Hub: an event reaches each client there was, or that client is dropped; every broadcast
  ends; the goroutines of a client that is gone end.
* Start-up and shutdown: a signal ends the process; nothing is stopped twice.
* Locking: no cycle of waiting goroutines, and no call returns with a lock held.

The hazards behind these are listed line by line in `PROJECT.json` ("hazards").

## 2. The modules

| module | models | composed with |
|---|---|---|
| `AlbumArt` | album-art handler, its dispatch and its callbacks | implements `ArtReassembly` |
| `ArtReassembly` | what reassembly promises to the rest of the daemon | |
| `WeatherHandler` | weather handler and its dispatch | |
| `BleClient` | connection, command channel, Stop | |
| `MediaState` | media state and the look for images | uses the effect of `AlbumArt` as one step |
| `ConnectionMonitor` | activity, ticker, connection status | |
| `Lifecycle` | `main`, the HTTP server's goroutine, Start and Stop, handlers at shutdown | extends `ConnectionMonitor`, and implements it |
| `Protocol` | framing and payloads, as operators | |
| `Dispatch` | the listeners' switch over message types, answers, clock and timezone | uses `Protocol` both ways |
| `WebSocketHub` | clients, their goroutines, broadcasts | implements `EventFanout` |
| `EventFanout` | what the hub promises those who publish | |
| `Locks` | the five mutexes and every call that takes them | |
| `RateLimiter` | the token bucket | |
| `CommandQueue` | the queue and its goroutine | a refusal of `RateLimiter` is "not yet" |
| `*Proofs` | theorems of the module they are named after; `LifecycleProofs` also of `ConnectionMonitor`, `DispatchProofs` also of `Protocol`; `MediaCommandProofs` of `MediaState`, `RateLimiter` and `CommandQueue` | |
| `MC*` | values of constants for TLC | |

`PROJECT.json` ("map") gives, for every definition that models code, its lines.
Definitions whose comment begins with "Mutant" are plausible bugs, used to see that
each property can fail.

### AlbumArt

`active` is the key set of `activeTransfers`, `chunks[h]` the chunk map of a transfer,
`cache`, `disk` and `current` where images end up. An image is the set of its chunks,
and a chunk in a map is represented by the image it was cut from, because that is all
that distinguishes a good file from a mixture: chunk messages carry an index and no
key. `inbox[l]` is the signal channel of a listener. Every handler operation holds
`h.mu` throughout and is one action; the dispatch of a chunk locks twice and is two
(`PickTransfer` reads the table, `ReceiveChunk` acts on what was read), with
`chosen[l]` in between. `CompleteTransfer` includes decompression, the comparison of
checksums that rejects nothing, the save with its possible failure, the cache, and
the callback. `Upload` stores whatever body was posted, `Foreign`, under whatever hash, once
`SendAlbumArt` has returned without an error. `CrashDuringSave` leaves a truncated file. `SwapSignals` is godbus
delivering to a full channel from a goroutine of its own.

`ArtReassembly` is the abstract specification: pieces are only gained, the image
appears in the step that brings the last missing piece and ends the transfer, and no
transfer begins for an image that is cached. `AlbumArt` implements it with
`got <- ReceivedSet, stored <- Cached(cache)`: checked by TLC (`ReassemblySpec`) and
proved.

### WeatherHandler

The handler reads the field `currentTransfer` anew in every statement and takes no
lock, so an action is one statement and `pc[l]` the statement a listener is at. A nil
dereference, and two goroutines in one Go map, are `Panic`, which clears `alive`. A
SHA-256 sum matches exactly when all pieces are of the announced set. `listening` starts
with one listener, and `StartNotifications`, at any moment, is the reconnection that adds
another. Two variables only record what happened: `crossed`, the listeners whose handler call
overlaps another one's (or did, before that one returned), and `unsaved`, the modes whose last
write failed.

### BleClient

`runPc` is where the `run` goroutine is inside `run` and `connect`; every D-Bus call
is a step of its own that can fail, and the link can drop before it. A failed `StartNotify` is
only logged, and `connect` goes on. `chars` is the
set of characteristic fields that are not nil, `resolved` what BlueZ exports at
present: they differ after a reconnection because `connect` never clears the fields.
`spawned` and `listening` count listener goroutines before and after they register, and
`connections`, a history variable, how often `connect` was declared done.
A command is in `blocked` (its caller waits in `sendCommand`), `queue`, `writing`,
`written` or `dropped`.

### MediaState

`player` is what the companion plays, `media` what the manager believes.
`UpdateMediaState` stores a report and, for a new album, starts a look (`running`
counts the looks at each step, so that two looks for one album are two). The fields a
command can set are represented by one, `playing`. `SendMediaCommand` is the part
under the lock that stores what the command should bring about; `SendCommand` or
`SendCommandFails` follows at any later time. The keys of the cache keep the two forms
the code gives them: the decimal album hash of the look-up and the hexadecimal
checksum of a transfer; an answer whose checksum is cached is refused. `SwapReports` is a full
signal channel. `missed` records that a report was lost or overtaken by the one before it, or
a command failed, and no report followed.

The commands are code of the package that the daemon does not run as it is built: the handlers
that call `SendMediaCommand` are registered under `/media/`, which the outer mux never hands to
the inner one (`server.go:88-101`). They are in the model because the code is written to be
called so, and `Handlers = {}` takes them away: that is the instance of `MediaStateRace.cfg`,
`MediaStateReturn.cfg` and `MediaStateAgain.cfg`, and the theorems hold for it as for any other.

### ConnectionMonitor

Time advances in units, and a tick that is due comes before time goes on. `phase` is
the time since the last tick, `age` since the last activity, `stable` since
`isConnected` last changed. The tick reads the age under the lock and the check
follows as a step of its own, as in the code.

### Protocol

A payload is a sequence of bytes, numbers inside it are cut into bytes as the code cuts
them, and a number of four or eight bytes that nothing computes with stays the sequence.
The header is the record of its fields, whole or cut short, since only the fields are
compared; what follows it is `rest`. `DWord` is 2^32 and `Checksum` any function of a
payload: no theorem needs to know CRC-32. Results say `"ok"`, `"error"` (the code returns an
error) or `"panic"` (a slice whose end lies before its beginning). Sums that the code makes
in a `uint16` or `uint32` are taken modulo `Word` and `DWord`: `PayloadEnd`, `TimezoneEnd`.

### Dispatch

The companion sends items of `Script`, each at most once; `Wire` is what it puts on the link,
and the link may lose one or damage it (`Damages`). Every listener gets a copy.
`HandleNotification` decodes the head of a listener's channel and takes the branch of the
switch, which is one step but for two kinds of message: a timezone is removed and linked
in two more (`RemoveLocaltime`, `LinkLocaltime`), and an answer takes its ID and is written in two
more (`GetNextMessageID`, `Write` or `WriteFails`, after which the companion may have it all the
same). The command goroutine takes its IDs from the same counter (`SendCommand`), and has one
message on its way at a time (`commandID`); where its commands come from is `BleClient`'s. `doing[l]` is what listener `l` is in the middle of. `events` and `reports` collect what
the hub and the manager were handed: what becomes of it is `WebSocketHub`'s and
`MediaState`'s. The image file asked about is saved by a goroutine of its own in two steps.
`Restart` is what a crash or a panic leaves: the files, the clock and the link.

### WebSocketHub

A section under the hub's mutex is one step. A write to a connection is two
(`BeginSend`, then `EndSend` or `SendFails`; `BeginPing`, `EndPing`), because nothing keeps two
writers apart: gorilla/websocket panics when it notices and mixes the messages when it
does not (`alive`, `mixed`). `reader` and `handler` are the two goroutines of a connection,
`gone` the connections whose other end vanished or no longer reads: both look alike to a
writer, whose write fails after its deadline. `todo`, `failed` and `audience` are the locals
of a `Broadcast`; `mu` is the manager's mutex, held by those who store a media state and
broadcast it. `latest` is what is stored, `shown` what a client was last sent.
Leaving the loop and the deferred `RemoveClient` are one step, deleting a client and closing
it too, and the write deadline, which two writers set without a lock, is not kept.

`EventFanout` is the abstract specification: an event has an audience, the clients of one
moment; it is handed to members of it, and its publication finishes when each was handed it
or is a client no longer. `WebSocketHub` implements it with `members <- clients` and the
broadcasts that write as `open`.

### Lifecycle

`main` is where `main_v2.go` is, `http` where the server's goroutine is: `begun`, `assigned`
(`s.server` is set: before that `Stop` closes nothing), `listening`, `failed` (any return of
`ListenAndServe`, which leads to `log.Fatalf`). A handler takes the manager's mutex, gives it
back, and may then send a command, blocked while the channel is full. `Stop` is two
steps under the mutex (`EnterStop` closes the client's channel, `LeaveStop` the manager's), called
twice. `outcome` is how the process ended. The module extends `ConnectionMonitor`: its steps
happen while the monitor's goroutine lives and take the mutex.

### Locks

A call is the sequence of its lock operations. `sync.RWMutex` is modelled with the
rule that matters for deadlock: a goroutine blocked in `Lock` keeps new readers out.
What the calls do besides locking is left out and is assumed to return (a broadcast
has a deadline of 100 ms per client).

### RateLimiter and CommandQueue

The rate limiter counts ticks, which in the code are nanoseconds, and truncates what the code
truncates: the minimal delay is `Second \div rate`, and the tokens due are the whole part of
a product, or one less, since a floating-point product of a whole number may fall short of it.
`lastRefill` moves only when a whole token was added. `recent` holds the grants since the last
`Reset` or `UpdateConfig`, which is as far as the code counts. The command queue has one goroutine per effective `Start`; `Start` and
`Stop` unlock before they start the goroutine or close the channel. The running
daemon uses neither (`ble_client_v2.go:195` is a TODO); they are exported types of
the package.

## 3. What the runs check

Passing runs, with the distinct states TLC finds:

| run | states | instance | why it is enough |
|---|---|---|---|
| `AlbumArtFaults` | 215,000 | one listener, a plain image of two chunks and a gzip one of three, two transfers, two faults, two HTTP requests, cache for one | different lengths let a transfer take a chunk beyond its own end; two transfers are the least that mix; the safety results hold for any instance by proof |
| `WeatherFaults` | 384,000 | one listener and one more from a reconnection, four sets (two hourly, a weekly, one of unknown mode) of one or two chunks, two sent, one fault | every way to break a set and one after it, for one listener or two that meet at any statement; the safety is proved for all |
| `BleClientFaults` | 397,000 | two commands, a channel for one, two faults, Stop | a full channel with a caller blocked behind it; a loss, and a failure while the next connection is made |
| `RateLimiterBounds` | 34,700 | rates 2, 3 and 4, bursts 1 and 3, sixteen ticks per second | rates that divide the second and one that does not, changed at any moment; proved for the rates and ticks of `LimiterAssumption` |
| `CommandQueueOrder` | 723,000 | three regular commands and an urgent one, one start | retries of one command while others wait, are urgent, expire |
| `LocksFree` | 130,000 | three goroutines, eleven kinds of calls | a cycle over two mutexes with a waiting writer between two readers takes three goroutines |
| `MediaStateSettles` | 2,240,000 | two listeners, a handler, two albums, two changes, a command (up to three reports), one fault, one other use of the cache | two listeners overlap, and two looks; a report lost, or swapped with another at either listener; one album is in a file, the other at the companion |
| `WebSocketHubFanout` | 211,000 | two connections, one of them pinged, two callers, both of media states and one of other updates, two broadcasts | two writers on one connection, a client that goes while it is in two snapshots, a broadcast behind another's drop; the safety is proved for all |
| `DispatchAnswers` | 177,000 | two listeners and the command goroutine, any two of twelve messages and commands, one fault; message IDs 1 to 3, `DWord` 2^20, a sum that tells all payloads of the instance apart | two time syncs handled by two listeners in every order; two requests make four answers, a request and a command three messages, so IDs wrap; one fault of each kind at each place |
| `LifecycleStops` | 1,190,000 | two handlers, a command channel of one, a period of two units, idle after one | a handler inside the mutex and one blocked in the channel while main stops |

* `AlbumArtFaults`: whatever chunks brought into the cache, a file or the current image is whole
  (`StoredIsWhole`; a posted body is stored as it is, which the property leaves out), a compressed image is
  never a mixture (`GzipNeverMixed`: the decompression fails first), a transfer comes to
  be only by a start message (`NoResurrection`), the handler implements
  `ArtReassembly` (`ReassemblySpec`), every transfer leaves the table (`Reclaimed`), and an image
  nothing interferes with is delivered (`Delivered`).
* `WeatherFaults`: what passes the checksum is one whole set (`VerifiedIsWhole`); a handler call
  that no other overlaps does not panic, whatever earlier calls left (`PanicsOnlyCrossed`); what
  such a call announces is in its file unless the last write of that very file failed
  (`AnnouncedIsReadable`: losses, swaps, aborts, bad data, and failures before the last write
  included); and with one listener the next set after the last fault is announced (`Recovers`).
  Calls that overlap, and a file whose last write failed, do go wrong: `WeatherFails.cfg`.
* `BleClientFaults`: until Stop there are as many listeners as there were connections
  (`ListenerPerConnection`: the first connection has its listener, and every later one adds
  another), and a connected client holds both essential objects, which may be those of an
  earlier attempt; `EveryCommandEnds`, `LinkRestored`, `StopsAll`.
* `RateLimiterBounds`: from one reset or new configuration to the next, no second holds more
  grants than the rate, or one more if the rate does not divide the second and its delay is cut
  short (`RateKept`); and the bucket never refuses what comes more than the minimal distance after
  the last grant (`NeverStarved`). More than, because exactly at the distance it may: at rate 6
  the delay is 166666666 ns, and the bucket has its next token a nanosecond later.
* `CommandQueueOrder`: `InOnePlace`, `InOrder`, `Drains`.
* `LocksFree`: `NoDeadlock` (no set of goroutines waits for itself), for all calls except
  `GetStats`.
* `MediaStateSettles`: `SettledAgrees`: once inboxes are empty and handlers are done the
  stored state is the companion's, unless the last report was lost or overtaken in a full
  channel, or a command failed since. It holds although commands are sent after the unlock, because a
  command that changes nothing leaves the companion where the stored state expects it,
  and one that changes something is followed by a report. `AlbumAnnounced`: clients have
  been told of the image of what plays.
* `WebSocketHubFanout`: the hub implements `EventFanout` (`FanoutSpec`); with the manager's
  mutex free, the last media state a client was sent is the one stored, if it was a client
  when that was published (`StateShown`; a connection that saw two writes at once is left
  out); every broadcast ends (`BroadcastEnds`); a client that is gone or dropped is
  forgotten and its goroutines end (`GoneIsForgotten`). All but the types are said of a
  process that has not panicked.
* `DispatchAnswers`: whatever the link does to the payload, the size, the version or the
  length of a message, clients, manager, clock and timezone get only what was sent
  (`AsSent`); two listeners that set the clock and the timezone, each after the other, leave
  what the last time sync said (`SyncSettles`: the second `Symlink` may fail, but only where
  the other listener has linked the same); IDs are never 0 nor shared by two messages on their
  way, answers or command (`IdsInFlight`); every listener answers a request unless its write or the process fails
  (`Answered`).
* `LifecycleStops`: `StopsOnce` (a channel closed twice would panic), `RunningIsTrue` (a handler
  that reads `isRunning` under the mutex reads it of a manager whose goroutines all run and
  none of whose channels is closed), `Exits` (after a signal the process ends, handlers blocked
  in the command channel or not), and `StatusWhenIdle`, the status property of
  `ConnectionMonitor`, inside the process.

Each run checks the types of its module as well: as `TypeOK` where a bug of the code could
break them (`WeatherFaults`, `DispatchAnswers`), elsewhere as the first part of an invariant that
rests on them: `StoredIsWhole`, `ListenerPerConnection`, `RateKept`, `InOnePlace`, `NoDeadlock`,
`SettledAgrees`, `StateShown`, `RunningIsTrue`.

Deadlock is checked in `LocksFree` and `RateLimiterBounds`. In
the other runs the system may rightly stop: the companion falls silent, the bounds are
used up, or the process has ended.

Runs that end in a violation:

| run | what TLC finds |
|---|---|
| `AlbumArtMixed` | after one dropped transfer, chunks of the next land in either, and a mixture is cached under a hash it does not have; `docs/ALBUM_ART.md` says the checksum is verified |
| `LocksStats` | `GET /api/v2/bluetooth/stats` and the last chunk of an image take two mutexes in opposite orders and wait for ever |

### Further configurations

These show further disagreements of the same kinds, each with the property it breaks. A
configuration named more than once lists several properties, all of them violated: keep one
of them at a time.

| configuration (module) | property | what it shows |
|---|---|---|
| `AlbumArtReconnected.cfg` (`MCAlbumArt`) | `StoredIsTheImage` | no message is lost: a listener left from an earlier connection handles every chunk again, and a late one goes into the next transfer |
| `AlbumArtOverfull.cfg` (`MCAlbumArt`) | `CompleteWhenAllReceived` | a transfer that took an index beyond its end holds all its chunks and never completes (`album_art.go:225` compares for equality) |
| `AlbumArtCacheLimit.cfg` (`MCAlbumArt`) | `CacheBounded` | `completeTransfer` fills the cache without the eviction of `StoreInCache` |
| `WeatherFails.cfg` (`MCWeatherHandler`) | `AlwaysReadable` | `weather_handler.go:161-169` announces a set although writing its file has failed |
| `WeatherFails.cfg` (`MCWeatherHandler`) | `NoPanic` | two listeners, no fault: a nil dereference (`weather_handler.go:176`) or concurrent access to a Go map (line 94) ends the daemon, although lines 87-90 and 102-105 guard every use of the transfer |
| `BleClientFails.cfg` (`MCBleClient`) | `EssentialsDiscovered` | objects of an earlier connection satisfy the check for essential characteristics |
| `BleClientFails.cfg` (`MCBleClient`) | `ReadyIsListening` | both subscriptions are on before anything hears notifications |
| `RateLimiterBurst.cfg` (`MCRateLimiter`) | `TokensAllow` | a full bucket lets one command through and refuses the next: there are no bursts |
| `CommandQueueFails.cfg` (`MCCommandQueue`) | `Drains` | started again after a stop, the queue counts as running and sends nothing |
| `CommandQueueFails.cfg` (`MCCommandQueue`) | `NoPanic` | the second effective Stop closes a closed channel |
| `CommandQueueFails.cfg` (`MCCommandQueue`) | `OldestIsOldest` | behind an urgent command, `GetOldestCommand` returns the newest timestamp |
| `MediaStateDropped.cfg` (`MCMediaState`) | `CurrentMedia` | a command that fails leaves the state it expected until the next report |
| `MediaStateRace.cfg` (`MCMediaState`) | `CurrentArt` | two looks overtake each other, and the earlier album's image stays |
| `MediaStateReturn.cfg` (`MCMediaState`) | `CurrentArt` | the image of an album that plays again is found in the cache and not made the current one (`manager.go:649-652`) |
| `MediaStateAgain.cfg` (`MCMediaState`) | `SavedIsFound` | an image that was received and saved is asked for again: it is kept under its checksum and looked for under the album hash |
| `LifecycleFails.cfg` (`MCLifecycle`) | `StatusWhenStable` | while the companion goes on reporting, the status given to clients stays the old one |
| `WebSocketHubFails.cfg` (`MCWebSocketHub`) | `NoPanic` | two broadcasts, or one and a ping, write to one connection at once, and gorilla/websocket panics |
| `WebSocketHubFails.cfg` (`MCWebSocketHub`) | `HealthyStays` | the same, unnoticed: a client that reads in time is dropped for the error left behind |
| `WebSocketHubFails.cfg` (`MCWebSocketHub`) | `UpdateShown` | volume and play-state updates are broadcast after the unlock (`manager.go:206, 219`): of two, clients may be left with the older |
| `DispatchFails.cfg` (`MCDispatch`) | `AsSent` | the checksum covers the payload and not the header: a damaged type is another command, and obeyed |
| `DispatchFails.cfg` (`MCDispatch`) | `RefusedIsSaved` | an image is refused because its file exists, while it is being saved, and then the save fails |
| `DispatchFails.cfg` (`MCDispatch`) | `ZoneKept` | a crash between removing the link to the timezone and making it leaves none |
| `LifecycleFails.cfg` (`MCLifecycle`) | `GracefulExit` | after "Graceful shutdown" (`main_v2.go:148`) closes the server, its goroutine's `log.Fatalf` ends the process before the manager is stopped |
| `LifecycleFails.cfg` (`MCLifecycle`) | `NoServerAfterStop` | a signal before the goroutine has assigned `s.server`: nothing is closed, and the server then takes requests while main stops the manager |

Met while modelling, without a run of their own:

* `manager.go:183` and `:212` strip three bytes of "message header", but the header has sixteen:
  play-state and volume updates are sent with thirteen bytes of a header inside their payload.
  `docs/BINARY_PROTOCOL.md` still describes a header of three.
* The v1 routes under `/media/`, `/bluetooth/status`, `/info` and `/device/` are registered on
  the inner mux, to which the outer one hands only `/api/` (`server.go:69-101`): they answer with
  the index page. The media commands behind them are therefore never sent.
* Answers carry a fresh message ID, never the request's, although `ble_client_v2.go:98` says "for
  request/response correlation". `GetCurrentTimezone` answers `"Local"`, which a receiver of a
  time sync ignores (`broadcaster.go:34`).
* A start message that the program creates has no compression fields, and its parser takes five
  bytes of the track for them (`StartTrack`, below). `protocol_test.go` does not match the
  signatures of `protocol.go`.

## 4. Fairness

Goroutines are weakly fair step by step: the Go scheduler runs every runnable
goroutine, and none of the modelled steps can be disabled by another goroutine and
enabled again for ever. In `AlbumArt` that is each listener, the cleanup ticker and
the passing of five minutes; in `BleClient` the `run` and writer goroutines (D-Bus calls
return), listeners registering, callers whose channel has room, and BlueZ resolving
while the link is up; in `CommandQueue` the goroutine and the second halves of `Start`
and `Stop`. In `WebSocketHub` writes and pings end, since they have deadlines, readers see a closed or
vanished connection, and callers go on; a handler that finds both its ticker and `done`
ready chooses at random, so it is strongly fair that it sees `done`. In `Dispatch` each
listener goes on: D-Bus calls, `date` and file operations return. In `Lifecycle` a handler that
holds the mutex gives it back, and `main` gets it (strong fairness: `sync.RWMutex` lets no
caller starve). The first is not so for two handlers in the deadlock `LocksStats` finds: `Exits`
is said of a process that is not in it, and where it is, `Stop` waits for the mutex and only the
server goroutine's `log.Fatalf` ends the process. Nothing says that the server's goroutine or the handlers do anything else.
A companion in the middle of a transfer goes on unless it abandons it.
New transfers, new commands, HTTP requests, `Stop` and every fault carry no fairness.
Faults are bounded, so liveness says what follows the last of them.

## 5. What is proved

All theorems hold for every value of the constants that the named assumptions allow
(sizes are positive, sentinels differ from data, bounds are natural numbers), and under the
hypothesis the table names, where there is one. TLC evaluates the assumptions on every run.
Every invariant a passing run checks is a theorem, and so are the action properties.

| theorem | statement | argument |
|---|---|---|
| `WeatherHandlerProofs!TypeCorrect`, `LifecycleProofs!TypeCorrect` (of the monitor), `DispatchProofs!DispatchTypeCorrect` | `[]TypeOK` | with the parts of each inductive invariant below |
| `AlbumArtProofs!StoredWhole` | `[]StoredIsWhole` | every step adds only whole content (`StoreStep`) |
| `AlbumArtProofs!GzipProtects` | `[]GzipNeverMixed` | the same step lemma: mixed data does not decode |
| `AlbumArtProofs!ImplementsReassembly` | `Spec => ReassemblySpec` | each action is a step of `ArtReassembly` or leaves `got` and `stored` alone |
| `AlbumArtProofs!LateChunkRevivesNothing` | `NoResurrection` | by actions, from the same invariant |
| `WeatherHandlerProofs!VerifiedWhole` | `[]VerifiedIsWhole` | for any number of listeners, although they share an unlocked field |
| `WeatherHandlerProofs!LoneCallsDoNotPanic` | `[]PanicsOnlyCrossed` | for any number of listeners: past the checks of a call that no other overlaps the transfer is still there |
| `WeatherHandlerProofs!AnnouncedReadable` | `AnnouncedIsReadable` | what such a call is about to announce is in its file, or the last write of that file failed |
| `BleClientProofs!ListenersAddUp` | `[]ListenerPerConnection` | see below |
| `MediaCommandProofs!NeverMoreThanTheRate`, `DistanceSuffices` | `[]RateKept`, `[]NeverStarved` of `RateLimiter` | see below |
| `MediaCommandProofs!NoneLostOrDoubled` | `[]InOnePlace` of `CommandQueue` | for any number of starts and goroutines |
| `MediaCommandProofs!OrderKept` | one start `=> []InOrder` of `CommandQueue` | see below |
| `LocksProofs!NoneDeadlocked` | no `GetStats` `=> []NoDeadlock` | an order of the mutexes |
| `MediaCommandProofs!Settles`, `Announced` | `[]SettledAgrees`, `[]AlbumAnnounced` | see below |
| `LifecycleProofs!StatusInTime` | `[]StatusWhenIdle` | see below |
| `LifecycleProofs!MonitorImplemented` | `LifecycleSpec => Spec` of the monitor | every step of the process is one of the monitor or leaves its variables alone |
| `LifecycleProofs!StatusInProcess` | `[]StatusWhenIdle` in the process | from the two before it |
| `LifecycleProofs!StoppedOnce`, `RunningRead` | `[]StopsOnce`, `[]RunningIsTrue` | see below |
| `WebSocketHubProofs!FanoutImplemented` | `HubSpec => FanoutSpec` | a step lemma for each action of `EventFanout`, and one for the rest |
| `WebSocketHubProofs!StateInTime` | `[]StateShown` | see below |
| `DispatchProofs!RoundTrip` | `DecodeMessage(EncodeMessage(t, payload, id))` gives back type, payload and ID | for every twelve-bit type, every ID and every payload that fits with its header in a `uint32` |
| `DispatchProofs!DecodedIsAnnounced` | what is read has the announced size and checksum | of anything that comes over the wire |
| `DispatchProofs!PanicsWhenHuge` | reading panics exactly for sizes within sixteen of 2^32 | the sum is taken modulo `DWord` |
| `DispatchProofs!TimeSyncBack`, `TimeSyncPanics` | a time sync is read back; parsing panics exactly for timezones announced within ten of 2^16 | the sum is taken modulo `Word` |
| `DispatchProofs!ChunkBack`, `EndBack`, `NeededBack` | these payloads are read back | parts of a concatenation (`FirstPart`, `LastPart`, `NextByte`) |
| `DispatchProofs!StartTrack` | a created start is always read, and loses five bytes of a track that has five | the same |
| `DispatchProofs!FullStateBack`, `CommandBack` | a full state and a command are read back, absent values too | part after part of the payload |
| `DispatchProofs!NothingMadeUp` | types are not damaged `=> []AsSent` | a message that passes the checks has the payload of one that was sent |
| `DispatchProofs!IdsDiffer` | `FewIDsTaken => []IdsInFlight` | see below |
| `DispatchProofs!LastSyncPrevails` | types are not damaged `=> []SyncSettles` | see below |

Inductive invariants:

* `AlbumArt`: `TypeOK /\ ChosenHasChunk`. A listener between its two locks still has a
  chunk at the head of its channel; without that, the second half of the dispatch would
  store something that is not a chunk.
* `WeatherHandler`: `TypeOK`, `VerifiedIsWhole`, and that a listener inside a handler has a
  message at the head of its channel. `VerifiedIsWhole` is about the listener's own data, which no
  other listener writes: that is why it survives the missing lock. `LoneInv` adds that a
  listener inside a handler while nobody crossed its call is the only one inside, and that its
  transfer is still there; and, for `AnnouncedIsReadable`, that what it is about to announce is in
  its file unless the mode is in `unsaved`.
* `BleClient`: with `TypeOK`, what each point of `connect` has established (the characteristics
  from `subscribe` on: `Checked`) and `ListenerPerConnection` itself, which counts the listener
  started just before the step that declares the connection (`mark`) as that connection's.
* `ConnectionMonitor`: `CheckedSince`: if the age and the stability, less the time since the
  last tick, are at least the idle time, then that tick found the manager idle and the
  status has been copied (or is about to be). Time never raises the two differences, and
  a tick sets the time since the last tick to nought, exactly when it also checks.
* `Lifecycle`: `Phases` (until main is inside Stop the manager runs with both channels open;
  inside, main has the mutex and the client's channel is closed; after, the manager does not
  run) and `Owners` (a handler inside has the mutex). `StopsOnce` follows because the deferred
  Stop finds a manager that does not run, `RunningIsTrue` because a handler inside excludes main.
* `WebSocketHub`: `Numbered` and `Unpublished` (each broadcast that writes has a number of its
  own, not yet given out beyond `sent`), `Joined` (a connection that never joined is in no
  snapshot), and `Books`: whoever is in the snapshot of a broadcast is yet to be written to,
  being written to, written to, failed, or no client. For `StateShown`, in addition `Held` (who
  broadcasts a media state holds the manager's mutex, so there is one at a time) and `Given`
  (the event last stored was given to those of its audience that are clients).
* `Locks`: `TypeOK` and `OwnersUnlock` (who has a mutex has its unlocking ahead of it). The
  argument is about the calls: the album-art handler's mutex, the manager's, and the others have
  ranks; each call but `GetStats` locks under a mutex only mutexes of higher rank and unlocks
  what it locked (`Disciplined`, preserved by concatenation and by a section around a call).
  Of a set of waiting goroutines, one that wants a mutex of the highest rank (in `Lock`, if one
  of them is) is blocked by none of the others: whoever of them had that mutex would want one
  of a higher rank.
* `MediaState`: `LastReport` (unless it was lost or overtaken, the last report on its way is what the player
  does), `StateAgrees` (without reports on their way, the stored state differs only by a command
  about to be sent) and `AlbumsCared` (the image of the album that plays was announced, is being
  looked for or was asked for).
* `Dispatch`: `Base` (messages on their way come from messages sent), `Doing` (a listener that
  sets the timezone does it for a sync that was sent), `Counted` (answers are numbered by the
  messages listeners have done with, so no listener answers twice). For `IdsInFlight`,
  `Numbered`: between a message's ID and the next one, in the circle of IDs, lie no more than
  the other listeners and the command goroutine can have taken since. For `SyncSettles`, `Settling`: before the last sync's
  effect is overwritten by an older one, a listener still has the last sync ahead.
* `RateLimiter`: `Spaced` (the grants remembered are a minimal distance apart, the last one
  `sinceCommand` ago), from which `RateKept` follows for every window of a second, and
  `EmptiedByCommand` (the bucket is empty only if a command took the last token and nothing was
  refilled since), from which `NeverStarved` follows.
* `CommandQueue`: `Apart` (queue, hands, sent and gone share no command and none is in one of
  them twice), `Together` (they hold what was enqueued), `Hands` (a goroutine holds a command
  exactly while it sends; a command that failed three times is gone). For `InOrder`, `Ordered`:
  of the regular commands those sent are in order, the one in hand comes after them, those
  waiting are in order after both. With two goroutines that is false: one sends a later command
  while the other has an earlier one in hand.

Hypotheses, and why they are there:

* `GetStats` apart (`NoneDeadlocked`): with it there is a deadlock, which `LocksStats` finds.
* Types not damaged (`NothingMadeUp`, `LastSyncPrevails`): `MessageHeader.Checksum` is of the payload
  only, so a damaged type is obeyed; `DispatchFails.cfg` shows it. `ChecksumAssumption` says that
  the checksum tells a payload that was changed, which is what it is for; `ScriptAssumption` and
  `SizeAssumption` that the companion's messages have fields of the sizes of the protocol and
  strings of fewer than 65536 bytes (a timezone fewer than 65526).
* `FewIDsTaken`: listeners times messages and commands are fewer than the IDs (65535); beyond
  that a message could be overtaken by a whole round of IDs. (The instance of the run has fewer
  IDs than the theorem asks for: there the bound on what is sent does it.)
* One start (`OrderKept`): each effective `Start` adds a goroutine.
* `LimiterAssumption`: what the truncated delays of a second leave over is no longer than a
  delay, as with a nanosecond for a tick it is at every rate up to 31622; rates and bursts are positive,
  and bursts have a greatest one, which bounds how far back time is kept.
  `QueueAssumption`: urgent and regular commands differ.

Protocol theorems are about operators: their assumptions are the types of the bytes and
`WidthAssumption`, that a uint32 holds more numbers than a uint16.

Only model-checked: all liveness (`Reclaimed`, `Delivered`, `Recovers`, `EveryCommandEnds`,
`LinkRestored`, `StopsAll`, `Drains`, `BroadcastEnds`, `GoneIsForgotten`, `Answered`,
`Exits`), which is beyond this prover.

## 6. What is not modelled, and the plan

Left out for good:

* The loop of album-art sending (`SendAlbumArt`), which `POST /api/v2/media/album-art` reaches
  (`server.go:59`, `album_art_handlers.go:67, 136`, `manager.go:267`): it writes a start and chunks to
  `albumArtTxChar` on the HTTP goroutine and changes no state of the daemon. `AlbumArt`'s
  `Upload` begins where it returns; its payloads are in `Protocol`.
* Over-the-air update (`utils/ota.go`), brightness, power and factory reset: no caller.
* Payload constructors that only the companion could read back (full state, capabilities,
  gradient colours, plain values): no parser here to compare them with.
* Weather conversions (`utils/weather.go`): pure functions from codes to words.
* The HTTP handlers that only read: routing, CORS, JSON. One of them divides 0 by 0 for a
  transfer that has just completed (`album_art_handlers.go:175`), which empties one answer and
  leaves no state behind; another announces the size of a file as `Stat` found it and sends
  what `ReadFile` found (`:406`).
* Transfer statistics, speeds and log texts.

Left out of a module, and why:

* `Dispatch`: `SendMediaCommand`'s messages, which no served route sends; notifications that change places in a full channel, which are in `AlbumArt` and
  `WeatherHandler`; `os.Remove` failing for another reason than a missing link, which leaves the
  link as it was; two messages with the same checksum.
* `WebSocketHub`: connections that come back (a new one has a new name), and the race of two
  writers over the write deadline, which only changes how long a slow client is waited for.
* `Lifecycle`: a signal before `signal.Notify`, which ends the process at once; what handlers do
  besides the mutex and the command channel; the monitor after it ended. What `run` and
  `connect` do on Stop is in `BleClient`.

Abstracted: chunk and image bytes, track names, positions and volumes, exact times. Bounds
on faults, transfers, commands, messages, broadcasts and requests are constants named `Max…`,
and `Pinged` the connections a ping falls due on.

Proofs to come: what is left of the runs' properties is liveness. Safety worth stating next, in
this order: an abstract command queue (a sequence with a place at its head for the retry) that
`CommandQueue` with one start implements; `SyncSettles` with damaged types excluded only for the
sync messages.
