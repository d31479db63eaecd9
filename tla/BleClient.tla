------------------------------ MODULE BleClient ------------------------------
(***************************************************************************)
(* The connection side of BleClientV2 (bluetooth/ble_client_v2.go): the    *)
(* run goroutine that finds, connects and watches the companion, the       *)
(* goroutine that writes queued commands, the notification listeners that  *)
(* connect spawns, the callers of sendCommand and Stop. What the listeners *)
(* do with a notification is AlbumArt's and WeatherHandler's subject.      *)
(*                                                                         *)
(* Each D-Bus call is one step (the two StartNotify calls together are     *)
(* one): other goroutines and the link move between two calls.             *)
(***************************************************************************)
EXTENDS Integers, Sequences, FiniteSets

CONSTANTS
    Cmds,       \* commands handed to sendCommand, each once
    QueueCap,   \* capacity of commandQueue
    Absent,     \* "no command"
    MayStop,    \* whether Stop is called
    MaxFaults   \* bound: lost links, failed D-Bus calls

Characteristics == {"commandRx", "stateTx", "albumArtTx"}

\* What BlueZ exports of the companion: the Nocturne service and its parts.
Exported == {"service"} \cup Characteristics

Essential == {"commandRx", "stateTx"}

Notifying == {"stateTx", "albumArtTx"}

ASSUME ClientAssumption ==
    /\ QueueCap \in Nat \ {0}
    /\ Absent \notin Cmds
    /\ MayStop \in BOOLEAN
    /\ MaxFaults \in Nat

VARIABLES
    runPc,        \* where the run goroutine is
    isConnected,  \* BleClientV2.isConnected
    chars,        \* the characteristic fields that are not nil
    spawned,      \* listeners started, their channel not registered yet
    listening,    \* listeners whose channel receives signals
    stopped,      \* stopChan is closed
    queue,        \* commandQueue
    blocked,      \* commands whose caller is blocked in sendCommand
    writing,      \* the command processCommandQueue is writing
    processor,    \* whether processCommandQueue is running
    written,      \* commands the companion received
    dropped,      \* commands given up
    link,         \* BlueZ is connected to the companion
    resolved,     \* what BlueZ exports now
    subscribed,   \* characteristics with notifications on
    connections,  \* how many connections were declared (history)
    faults        \* faults so far

connection == <<runPc, isConnected, chars, spawned, listening, connections>>
commands   == <<queue, blocked, writing, processor, written, dropped>>
bluez      == <<link, resolved, subscribed>>
vars       == <<connection, stopped, commands, bluez, faults>>

Steps == {"loop", "connect", "discover", "subscribe", "listen", "mark", "done"}

TypeOK ==
    /\ runPc \in Steps
    /\ isConnected \in BOOLEAN
    /\ chars \subseteq Characteristics
    /\ spawned \in Nat
    /\ listening \in Nat
    /\ stopped \in BOOLEAN
    /\ queue \in Seq(Cmds) /\ Len(queue) <= QueueCap
    /\ blocked \subseteq Cmds
    /\ writing \in Cmds \cup {Absent}
    /\ processor \in BOOLEAN
    /\ written \subseteq Cmds
    /\ dropped \subseteq Cmds
    /\ link \in BOOLEAN
    /\ resolved \subseteq Exported
    /\ subscribed \subseteq Notifying
    /\ connections \in Nat
    /\ faults \in 0 .. MaxFaults

\* Start has been called: run and processCommandQueue are running.
Init ==
    /\ runPc = "loop"
    /\ isConnected = FALSE
    /\ chars = {}
    /\ spawned = 0
    /\ listening = 0
    /\ stopped = FALSE
    /\ queue = <<>>
    /\ blocked = {}
    /\ writing = Absent
    /\ processor = TRUE
    /\ written = {}
    /\ dropped = {}
    /\ link = FALSE
    /\ resolved = {}
    /\ subscribed = {}
    /\ connections = 0
    /\ faults = 0

Fault == faults < MaxFaults /\ faults' = faults + 1

-----------------------------------------------------------------------------
(***************************************************************************)
(* BlueZ and the companion (outside src/). A lost link takes the exported  *)
(* objects and the subscriptions with it; after a connection they are      *)
(* exported again one by one, the service first.                           *)
(***************************************************************************)
LinkDrops ==
    /\ link
    /\ Fault
    /\ link' = FALSE
    /\ resolved' = {}
    /\ subscribed' = {}
    /\ UNCHANGED <<connection, stopped, commands>>

Resolve ==
    /\ link
    /\ \E x \in Exported \ resolved :
         /\ x = "service" \/ "service" \in resolved
         /\ resolved' = resolved \cup {x}
    /\ UNCHANGED <<connection, stopped, commands, link, subscribed, faults>>

-----------------------------------------------------------------------------
(***************************************************************************)
(* run and connect.                                                        *)
(***************************************************************************)
RunStep(from, to) == runPc = from /\ runPc' = to /\ UNCHANGED <<stopped, commands>>

\* Mutant: only a disconnected client looks at stopChan.
LeaveLoopDisconnected ==
    /\ stopped /\ ~isConnected
    /\ RunStep("loop", "done")
    /\ UNCHANGED <<isConnected, chars, spawned, listening, bluez, faults, connections>>

\* The loop looks at stopChan between two rounds only.
LeaveLoop ==
    /\ stopped
    /\ RunStep("loop", "done")
    /\ UNCHANGED <<isConnected, chars, spawned, listening, bluez, faults, connections>>

\* findDevice fails, sleeps, and the loop comes round again: not a step.
FindDevice ==
    /\ ~stopped /\ ~isConnected
    /\ RunStep("loop", "connect")
    /\ UNCHANGED <<isConnected, chars, spawned, listening, bluez, faults, connections>>

DeviceConnect ==
    /\ \/ RunStep("connect", "discover") /\ link' = TRUE /\ UNCHANGED faults
       \/ RunStep("connect", "loop") /\ Fault /\ UNCHANGED link
    /\ UNCHANGED <<isConnected, chars, spawned, listening, resolved, subscribed, connections>>

\* A field keeps the object of an earlier connection when the lookup does not
\* find its characteristic.
Discover ==
    /\ \/ /\ chars' = chars \cup (resolved \cap Characteristics)
          /\ IF "service" \in resolved /\ Essential \subseteq chars'
             THEN RunStep("discover", "subscribe")
             ELSE RunStep("discover", "loop")
          /\ UNCHANGED faults
       \/ RunStep("discover", "loop") /\ Fault /\ UNCHANGED chars
    /\ UNCHANGED <<isConnected, spawned, listening, bluez, connections>>

\* enableNotifications logs a failed StartNotify and returns nil.
EnableNotifications ==
    /\ RunStep("subscribe", "listen")
    /\ LET able == IF link THEN chars \cap resolved \cap Notifying ELSE {}
       IN  \/ subscribed' = subscribed \cup able /\ UNCHANGED faults
           \/ Fault /\ \E S \in SUBSET able : subscribed' = subscribed \cup S
    /\ UNCHANGED <<isConnected, chars, spawned, listening, link, resolved, connections>>

\* Mutant: a failed AddMatch is logged like a failed StartNotify.
StartNotificationsLogsOnly ==
    /\ \/ RunStep("listen", "mark") /\ spawned' = spawned + 1 /\ UNCHANGED faults
       \/ RunStep("listen", "mark") /\ Fault /\ UNCHANGED spawned
    /\ UNCHANGED <<isConnected, chars, listening, bluez, connections>>

StartNotifications ==
    /\ \/ RunStep("listen", "mark") /\ spawned' = spawned + 1 /\ UNCHANGED faults
       \/ RunStep("listen", "loop") /\ Fault /\ UNCHANGED spawned
    /\ UNCHANGED <<isConnected, chars, listening, bluez, connections>>

MarkConnected ==
    /\ RunStep("mark", "loop")
    /\ isConnected' = TRUE
    /\ connections' = connections + 1
    /\ UNCHANGED <<chars, spawned, listening, bluez, faults>>

\* Mutant: a lost connection is logged, and found again in the next round.
HealthLogsOnly ==
    /\ ~stopped /\ isConnected /\ ~link
    /\ RunStep("loop", "loop")
    /\ UNCHANGED <<isConnected, chars, spawned, listening, bluez, faults, connections>>

\* A health check that finds the link up changes nothing.
ConnectionLost ==
    /\ ~stopped /\ isConnected
    /\ RunStep("loop", "loop")
    /\ \/ ~link /\ UNCHANGED faults
       \/ Fault
    /\ isConnected' = FALSE
    /\ UNCHANGED <<chars, spawned, listening, bluez, connections>>

Run ==
    \/ LeaveLoop \/ FindDevice \/ DeviceConnect \/ Discover \/ EnableNotifications
    \/ StartNotifications \/ MarkConnected \/ ConnectionLost

-----------------------------------------------------------------------------
(***************************************************************************)
(* handleNotifications: registers its channel, then receives signals until *)
(* one arrives after Stop. Nothing else ends it.                           *)
(***************************************************************************)
ListenerRegisters ==
    /\ spawned > 0
    /\ spawned' = spawned - 1
    /\ listening' = listening + 1
    /\ UNCHANGED <<runPc, isConnected, chars, connections, stopped, commands, bluez, faults>>

ListenerExits ==
    /\ stopped /\ listening > 0
    /\ listening' = listening - 1
    /\ UNCHANGED <<runPc, isConnected, chars, connections, spawned, stopped, commands, bluez, faults>>

-----------------------------------------------------------------------------
(***************************************************************************)
(* Commands.                                                               *)
(***************************************************************************)
New == Cmds \ (blocked \cup {queue[i] : i \in DOMAIN queue} \cup written \cup dropped \cup {writing})

CommandStep == UNCHANGED <<connection, stopped, bluez, faults>>

SendCommand(c) ==
    /\ c \in New
    /\ blocked' = blocked \cup {c}
    /\ UNCHANGED <<queue, writing, processor, written, dropped>>
    /\ CommandStep

QueueAccepts(c) ==
    /\ c \in blocked
    /\ Len(queue) < QueueCap
    /\ queue' = Append(queue, c)
    /\ blocked' = blocked \ {c}
    /\ UNCHANGED <<writing, processor, written, dropped>>
    /\ CommandStep

TakeCommand ==
    /\ processor /\ writing = Absent /\ queue # <<>>
    /\ writing' = Head(queue)
    /\ queue' = Tail(queue)
    /\ UNCHANGED <<blocked, processor, written, dropped>>
    /\ CommandStep

Writable == "commandRx" \in chars \cap resolved /\ link

\* Mutant: a failed write ends the goroutine.
SendMessageFatal ==
    /\ writing # Absent
    /\ \/ Writable /\ written' = written \cup {writing} /\ UNCHANGED <<dropped, processor, faults>>
       \/ /\ ~Writable /\ dropped' = dropped \cup {writing} /\ processor' = FALSE
          /\ UNCHANGED <<written, faults>>
       \/ Fault /\ dropped' = dropped \cup {writing} /\ UNCHANGED <<written, processor>>
    /\ writing' = Absent
    /\ UNCHANGED <<connection, stopped, queue, blocked, bluez>>

\* sendMessage; a failed write is logged and the command is gone.
SendMessage ==
    /\ writing # Absent
    /\ \/ Writable /\ written' = written \cup {writing} /\ UNCHANGED <<dropped, faults>>
       \/ ~Writable /\ dropped' = dropped \cup {writing} /\ UNCHANGED <<written, faults>>
       \/ Fault /\ dropped' = dropped \cup {writing} /\ UNCHANGED written
    /\ writing' = Absent
    /\ UNCHANGED <<connection, stopped, queue, blocked, processor, bluez>>

ProcessorExits ==
    /\ processor /\ writing = Absent /\ stopped
    /\ processor' = FALSE
    /\ UNCHANGED <<queue, blocked, writing, written, dropped>>
    /\ CommandStep

ProcessCommandQueue == TakeCommand \/ SendMessage \/ ProcessorExits

Stop ==
    /\ MayStop /\ ~stopped
    /\ stopped' = TRUE
    /\ UNCHANGED <<connection, commands, bluez, faults>>

-----------------------------------------------------------------------------
Next ==
    \/ LinkDrops \/ Resolve
    \/ Run
    \/ ListenerRegisters \/ ListenerExits
    \/ \E c \in Cmds : SendCommand(c) \/ QueueAccepts(c)
    \/ ProcessCommandQueue
    \/ Stop

Spec == Init /\ [][Next]_vars

(***************************************************************************)
(* Goroutines run and D-Bus calls return; BlueZ goes on resolving while    *)
(* the link is up. New commands, Stop and faults carry no fairness.        *)
(***************************************************************************)
FairSpec ==
    /\ Spec
    /\ WF_vars(Run)
    /\ WF_vars(Resolve)
    /\ WF_vars(ListenerRegisters)
    /\ WF_vars(ProcessCommandQueue)
    /\ \A c \in Cmds : WF_vars(QueueAccepts(c))

-----------------------------------------------------------------------------
\* Until Stop there are as many listeners as connections were declared: every
\* connection, not only the first, starts its own, an attempt that fails leaves
\* none, and none ends (ble_client_v2.go:413, 489).  A connected client has both
\* essential characteristics, though it may have them from an earlier attempt;
\* whether StartNotify turned notifications on is not part of being connected.
ListenerPerConnection ==
    /\ TypeOK
    /\ isConnected => Essential \subseteq chars
    /\ ~stopped => spawned + listening = connections + (IF runPc = "mark" THEN 1 ELSE 0)

\* Until Stop every command handed over is written or given up, in spite of
\* lost links and failed writes: the channel is drained and its callers come back.
EveryCommandEnds ==
    \A c \in Cmds : c \in blocked ~> c \in written \cup dropped \/ stopped

\* A lost link is noticed and established again.
LinkRestored == ~link ~> link \/ stopped

\* After Stop both goroutines that Start began come to an end.
StopsAll == stopped ~> runPc = "done" /\ ~processor

\* The characteristics a connection is declared usable with are those it
\* exports (message at ble_client_v2.go:409).
EssentialsDiscovered ==
    [][runPc = "discover" /\ runPc' = "subscribe" => Essential \subseteq resolved]_vars

\* When the companion considers the device ready, having seen both
\* subscriptions, notifications are heard (message at ble_client_v2.go:468).
ReadyIsListening == subscribed = Notifying => listening > 0
=============================================================================
