---------------------------- MODULE WebSocketHub ----------------------------
(***************************************************************************)
(* The hub of WebSocket clients, the handler and the reader of each        *)
(* connection, and the callers of Broadcast.  A section under the hub's    *)
(* mutex is one step.  Writing to a connection takes two, for the hub does *)
(* not keep two writers apart: gorilla/websocket then panics, or mixes the *)
(* two messages.                                                           *)
(***************************************************************************)
EXTENDS Integers

CONSTANTS
    Conns,         \* the connections of one run
    StateCallers,  \* goroutines that store a media state and broadcast it
    UpdateCallers, \* goroutines that broadcast other events
    MaxEvents,     \* bound of the model: broadcasts in one run
    Pinged,        \* bound of the model: connections a ping falls due on
    Pinger,        \* the handler of a connection, as a writer
    None

Callers == StateCallers \cup UpdateCallers

ASSUME HubAssumption ==
    /\ MaxEvents \in Nat
    /\ Pinged \subseteq Conns
    /\ Pinger \notin Callers /\ None \notin Callers

Events == 1..MaxEvents

\* "state" is stored and broadcast under the manager's mutex (UpdateMediaState,
\* SendMediaCommand), "update" is broadcast after the unlock (SendVolumeUpdate
\* and the like).
Kinds == {"state", "update"}

NoEvent == [number |-> 0, kind |-> "update"]

VARIABLES
    alive,      \* the process has not panicked
    gone,       \* connections whose other end is too slow, or has disappeared
    clients,    \* WebSocketHub.clients
    closed,     \* connections that were closed
    broken,     \* connections with a sticky write error
    mixed,      \* connections on which two writes have overlapped
    reader,     \* the goroutine that reads: off, reading, done
    handler,    \* handleWebSocketDirect: off, looping, returned
    writing,    \* writes in progress, <<writer, connection>>
    mu,         \* who holds the manager's mutex to broadcast, or None
    sent,       \* events so far
    latest,     \* per kind, the event that carries what is stored
    pc,         \* per caller: idle, stored, sending
    event,      \* per caller, what it broadcasts: [number, kind]
    todo,       \* per caller, clients of the snapshot not written to yet
    failed,     \* per caller, failedClients
    audience,   \* per event, the snapshot
    got,        \* per event, the connections it was written to
    shown       \* per connection and kind, the last event written to it

socketVars == <<gone, clients, closed, broken, mixed, reader, handler, writing>>
callerVars == <<mu, sent, latest, pc, event, todo, failed, audience, got, shown>>
vars == <<alive, socketVars, callerVars>>

TypeOK ==
    /\ alive \in BOOLEAN
    /\ gone \subseteq Conns /\ clients \subseteq Conns /\ closed \subseteq Conns
    /\ broken \subseteq Conns /\ mixed \subseteq Conns
    /\ reader \in [Conns -> {"off", "reading", "done"}]
    /\ handler \in [Conns -> {"off", "looping", "returned"}]
    /\ writing \subseteq (Callers \cup {Pinger}) \X Conns
    /\ mu \in Callers \cup {None}
    /\ sent \in 0..MaxEvents
    /\ latest \in [Kinds -> 0..MaxEvents]
    /\ pc \in [Callers -> {"idle", "stored", "sending"}]
    /\ event \in [Callers -> [number : 0..MaxEvents, kind : Kinds]]
    /\ todo \in [Callers -> SUBSET Conns] /\ failed \in [Callers -> SUBSET Conns]
    /\ audience \in [Events -> SUBSET Conns] /\ got \in [Events -> SUBSET Conns]
    /\ shown \in [Conns -> [Kinds -> 0..MaxEvents]]

Init ==
    /\ alive = TRUE
    /\ gone = {} /\ clients = {} /\ closed = {} /\ broken = {} /\ mixed = {} /\ writing = {}
    /\ reader = [c \in Conns |-> "off"]
    /\ handler = [c \in Conns |-> "off"]
    /\ mu = None /\ sent = 0
    /\ latest = [k \in Kinds |-> 0]
    /\ pc = [b \in Callers |-> "idle"]
    /\ event = [b \in Callers |-> NoEvent]
    /\ todo = [b \in Callers |-> {}]
    /\ failed = [b \in Callers |-> {}]
    /\ audience = [e \in Events |-> {}]
    /\ got = [e \in Events |-> {}]
    /\ shown = [c \in Conns |-> [k \in Kinds |-> 0]]

-----------------------------------------------------------------------------
(***************************************************************************)
(* The connection, as gorilla/websocket has it.                            *)
(***************************************************************************)

\* The other end disappears, or no longer reads and answers in time.
PeerGoes(c) ==
    /\ handler[c] # "off" /\ c \notin gone
    /\ gone' = gone \cup {c}
    /\ UNCHANGED <<alive, clients, closed, broken, mixed, reader, handler, writing>>
    /\ UNCHANGED callerVars

\* A write starts.  Another one in progress: a panic, or the two are mixed.
BeginWrite(w, c) ==
    /\ writing' = writing \cup {<<w, c>>}
    /\ IF \E v \in Callers \cup {Pinger} : <<v, c>> \in writing
       THEN \/ alive' = FALSE /\ mixed' = mixed
            \/ alive' = alive /\ mixed' = mixed \cup {c}
       ELSE alive' = alive /\ mixed' = mixed

CanWrite(c) == c \notin closed \cup broken

\* Closed, failed before, timed out, or closed by the writer that cut in.
CanFail(c) == c \in gone \cup closed \cup broken \cup mixed

EndWrite(w, c) ==
    /\ <<w, c>> \in writing
    /\ writing' = writing \ {<<w, c>>}

\* An error of the network stays with the connection.
BrokenBy(c) == IF c \in gone THEN broken \cup {c} ELSE broken

-----------------------------------------------------------------------------
(***************************************************************************)
(* handleWebSocketDirect and its reader.                                   *)
(***************************************************************************)

\* Upgrade, AddClient, and the goroutine that reads.
AddClient(c) ==
    /\ handler[c] = "off"
    /\ clients' = clients \cup {c}
    /\ reader' = [reader EXCEPT ![c] = "reading"]
    /\ handler' = [handler EXCEPT ![c] = "looping"]
    /\ UNCHANGED <<alive, gone, closed, broken, mixed, writing>>
    /\ UNCHANGED callerVars

\* ReadMessage fails: the connection was closed on one side, or no pong came
\* before the read deadline.
ReadEnds(c) ==
    /\ reader[c] = "reading" /\ c \in closed \cup gone
    /\ reader' = [reader EXCEPT ![c] = "done"]
    /\ UNCHANGED <<alive, gone, clients, closed, broken, mixed, handler, writing>>
    /\ UNCHANGED callerVars

\* Mutant: the deferred call is forgotten.
ReturnOnly(c) ==
    /\ handler' = [handler EXCEPT ![c] = "returned"]
    /\ UNCHANGED <<clients, closed>>

\* The loop is left, and the deferred RemoveClient finds the client, or not when
\* a broadcast was first.
RemoveClient(c) ==
    /\ handler' = [handler EXCEPT ![c] = "returned"]
    /\ clients' = clients \ {c}
    /\ closed' = IF c \in clients THEN closed \cup {c} ELSE closed

\* The loop takes `done'.
SeeDone(c) ==
    /\ handler[c] = "looping" /\ reader[c] = "done" /\ <<Pinger, c>> \notin writing
    /\ RemoveClient(c)
    /\ UNCHANGED <<alive, gone, broken, mixed, reader, writing>>
    /\ UNCHANGED callerVars

BeginPing(c) ==
    /\ c \in Pinged
    /\ handler[c] = "looping" /\ <<Pinger, c>> \notin writing
    /\ BeginWrite(Pinger, c)
    /\ UNCHANGED <<gone, clients, closed, broken, reader, handler>>
    /\ UNCHANGED callerVars

EndPing(c) ==
    /\ EndWrite(Pinger, c)
    /\ \/ /\ CanWrite(c)
          /\ UNCHANGED <<clients, closed, broken, handler>>
       \/ /\ CanFail(c)
          /\ broken' = BrokenBy(c)
          /\ RemoveClient(c)
    /\ UNCHANGED <<alive, gone, mixed, reader>>
    /\ UNCHANGED callerVars

-----------------------------------------------------------------------------
(***************************************************************************)
(* Broadcast and its callers.                                              *)
(***************************************************************************)

\* Caller b makes the next event, of kind k.
Store(b, k) ==
    /\ pc[b] = "idle" /\ sent < MaxEvents
    /\ sent' = sent + 1
    /\ latest' = [latest EXCEPT ![k] = sent + 1]
    /\ event' = [event EXCEPT ![b] = [number |-> sent + 1, kind |-> k]]
    /\ pc' = [pc EXCEPT ![b] = "stored"]
    /\ UNCHANGED <<alive, todo, failed, audience, got, shown>>
    /\ UNCHANGED socketVars

\* Mutant: the mutex is given back before the broadcast.
StoreStateUnlocked(b) ==
    /\ mu = None
    /\ Store(b, "state")
    /\ UNCHANGED mu

\* UpdateMediaState, SendMediaCommand: the mutex is held to the end of Broadcast.
StoreState(b) ==
    /\ mu = None /\ mu' = b
    /\ Store(b, "state")

\* SendPlayStateUpdate, SendVolumeUpdate, SendWeatherUpdate, and the callers that
\* store nothing.
StoreUpdate(b) ==
    /\ mu = None
    /\ Store(b, "update")
    /\ UNCHANGED mu

\* Broadcast copies the clients.
Snapshot(b) ==
    /\ pc[b] = "stored"
    /\ pc' = [pc EXCEPT ![b] = "sending"]
    /\ todo' = [todo EXCEPT ![b] = clients]
    /\ audience' = [audience EXCEPT ![event[b].number] = clients]
    /\ UNCHANGED <<alive, mu, sent, latest, event, failed, got, shown>>
    /\ UNCHANGED socketVars

\* A goroutine per client of the snapshot, in any order.
BeginSend(b, c) ==
    /\ c \in todo[b]
    /\ todo' = [todo EXCEPT ![b] = @ \ {c}]
    /\ BeginWrite(b, c)
    /\ UNCHANGED <<gone, clients, closed, broken, reader, handler>>
    /\ UNCHANGED <<mu, sent, latest, pc, event, failed, audience, got, shown>>

EndSend(b, c) ==
    /\ EndWrite(b, c)
    /\ CanWrite(c)
    /\ got' = [got EXCEPT ![event[b].number] = @ \cup {c}]
    /\ shown' = [shown EXCEPT ![c][event[b].kind] = event[b].number]
    /\ UNCHANGED <<alive, gone, clients, closed, broken, mixed, reader, handler>>
    /\ UNCHANGED <<mu, sent, latest, pc, event, todo, failed, audience>>

\* Mutant: failedClients appended to without its mutex, an entry is lost.
SendFailsUnnoticed(b, c) ==
    /\ EndWrite(b, c)
    /\ CanFail(c)
    /\ broken' = BrokenBy(c)
    /\ UNCHANGED <<alive, gone, clients, closed, mixed, reader, handler>>
    /\ UNCHANGED callerVars

\* Mutant: wg.Done is called on the way of success only.
SendFailsUndone(b, c) ==
    /\ <<b, c>> \in writing
    /\ CanFail(c)
    /\ broken' = BrokenBy(c)
    /\ failed' = [failed EXCEPT ![b] = @ \cup {c}]
    /\ UNCHANGED <<alive, gone, clients, closed, mixed, reader, handler, writing>>
    /\ UNCHANGED <<mu, sent, latest, pc, event, todo, audience, got, shown>>

SendFails(b, c) ==
    /\ EndWrite(b, c)
    /\ CanFail(c)
    /\ broken' = BrokenBy(c)
    /\ failed' = [failed EXCEPT ![b] = @ \cup {c}]
    /\ UNCHANGED <<alive, gone, clients, closed, mixed, reader, handler>>
    /\ UNCHANGED <<mu, sent, latest, pc, event, todo, audience, got, shown>>

\* Broadcast returns, and with it the caller.
Return(b) ==
    /\ pc' = [pc EXCEPT ![b] = "idle"]
    /\ event' = [event EXCEPT ![b] = NoEvent]
    /\ failed' = [failed EXCEPT ![b] = {}]
    /\ mu' = IF mu = b THEN None ELSE mu
    /\ UNCHANGED <<sent, latest, todo, audience, got, shown>>

\* Mutant: the failed clients are forgotten and stay open.
RemoveFailedOpen(b) ==
    /\ pc[b] = "sending" /\ todo[b] = {}
    /\ \A c \in Conns : <<b, c>> \notin writing
    /\ clients' = clients \ failed[b]
    /\ Return(b)
    /\ UNCHANGED <<alive, gone, closed, broken, mixed, reader, handler, writing>>

\* All were written to: those who failed and are still clients are dropped and
\* closed, and Broadcast returns.
RemoveFailed(b) ==
    /\ pc[b] = "sending" /\ todo[b] = {}
    /\ \A c \in Conns : <<b, c>> \notin writing
    /\ clients' = clients \ failed[b]
    /\ closed' = closed \cup (failed[b] \cap clients)
    /\ Return(b)
    /\ UNCHANGED <<alive, gone, broken, mixed, reader, handler, writing>>

Connection(c) ==
    AddClient(c) \/ ReadEnds(c) \/ SeeDone(c) \/ BeginPing(c) \/ EndPing(c)

Sending(b, c) == BeginSend(b, c) \/ EndSend(b, c) \/ SendFails(b, c)

Next ==
    /\ alive
    /\ \/ \E c \in Conns : PeerGoes(c) \/ Connection(c)
       \/ \E b \in StateCallers : StoreState(b)
       \/ \E b \in UpdateCallers : StoreUpdate(b)
       \/ \E b \in Callers : Snapshot(b) \/ RemoveFailed(b)
       \/ \E b \in Callers, c \in Conns : Sending(b, c)

\* Goroutines run, every write has a deadline, and so has every read.  The loop
\* of a connection takes `done' although a ping may be due every time: its ticker
\* fires once in 54 seconds, and a select between ready cases is random.
Fairness ==
    /\ \A c \in Conns : WF_vars(alive /\ EndPing(c))
    /\ WF_vars(alive /\ \E c \in Conns : ReadEnds(c))
    /\ SF_vars(alive /\ \E c \in Conns : SeeDone(c))
    /\ WF_vars(alive /\ \E b \in Callers : Snapshot(b) \/ RemoveFailed(b) \/ \E c \in Conns : Sending(b, c))

HubSpec == Init /\ [][Next]_vars
FairHubSpec == HubSpec /\ Fairness

-----------------------------------------------------------------------------
\* Broadcast keeps what EventFanout promises, whoever joins, leaves, breaks or
\* is dropped by another broadcast meanwhile: each client of the snapshot was
\* written to, or is no client when Broadcast returns.
Fanout == INSTANCE EventFanout WITH
    members   <- clients,
    newcomers <- {c \in Conns : handler[c] = "off"},
    open      <- {event[b].number : b \in {x \in Callers : pc[x] = "sending"}}
FanoutSpec == Fanout!Spec

\* Media states are broadcast under the manager's mutex: when nobody holds it,
\* the last state a client was sent is the one that is stored, if the client was
\* there when it was published (UpdateMediaState, SendMediaCommand).  A client
\* whose connection saw two writes at once is left out: what it was sent is mixed.
StateShown ==
    /\ TypeOK
    /\ alive /\ mu = None => \A c \in clients \ mixed :
            \/ latest["state"] = 0
            \/ c \notin audience[latest["state"]]
            \/ shown[c]["state"] = latest["state"]

\* Every broadcast ends, slow and absent clients notwithstanding, so that the
\* caller, who may hold the manager's mutex, goes on (websocket.go:63).
BroadcastEnds == \A b \in Callers : pc[b] # "idle" ~> pc[b] = "idle" \/ ~alive

\* A client that disappeared, or was dropped, is forgotten, and the goroutines
\* of its connection end (server.go:533, websocket.go:73).
GoneIsForgotten ==
    \A c \in Conns :
        c \in gone \/ (handler[c] # "off" /\ c \notin clients)
            ~> ~alive \/ (c \notin clients /\ reader[c] = "done" /\ handler[c] = "returned")

\* The same as StateShown of what is broadcast after the unlock.
UpdateShown ==
    alive /\ (\A b \in Callers : pc[b] = "idle") =>
        \A c \in clients \ mixed :
            \/ latest["update"] = 0
            \/ c \notin audience[latest["update"]]
            \/ shown[c]["update"] = latest["update"]

\* No two writes to one connection: the process lives.
NoPanic == alive

\* A client that reads in time stays a client.
HealthyStays == [][\A c \in clients : c \notin gone => c \in clients']_vars
=============================================================================
