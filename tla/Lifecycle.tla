------------------------------- MODULE Lifecycle -------------------------------
(***************************************************************************)
(* From start to exit (main_v2.go, and Start and Stop of the manager, of   *)
(* the BLE client and of the HTTP server).  main creates and starts the    *)
(* manager, serves until a signal, closes the server and stops the         *)
(* manager, twice.  Beside main run the server's goroutine, HTTP handlers  *)
(* and the goroutines of the manager, whose connection monitor is          *)
(* ConnectionMonitor's.  What a handler does is its use of the manager's   *)
(* mutex and of the client's command channel.                              *)
(***************************************************************************)
EXTENDS ConnectionMonitor

CONSTANTS
    Handlers,
    QueueCap,   \* the capacity of the command channel: 100
    Main,
    None

ASSUME LifecycleAssumption ==
    QueueCap \in Nat \ {0} /\ Main \notin Handlers /\ None \notin Handlers \cup {Main}

VARIABLES
    main,           \* where main is
    http,           \* the server's goroutine: none, begun, assigned, listening, failed
    serverClosed,   \* http.Server.Close was called
    handler,        \* per handler: none, asked, inside, sending
    holder,         \* who has the manager's mutex, or None
    pending,        \* commands in the channel
    isRunning,      \* ManagerV2.isRunning
    closed,         \* stopChan channels that are closed: the client's, the manager's
    alive,          \* goroutines of the manager and the client
    outcome         \* of the process: running, clean, fatal, panic

server  == <<http, serverClosed>>
callers == <<handler, pending>>
manager == <<isRunning, closed, alive>>
lifeVars == <<vars, main, server, callers, holder, manager, outcome>>

\* The channel each goroutine watches.
ToldBy == [monitor |-> "manager", cleanup |-> "manager",
           run |-> "client", processor |-> "client"]

LifecycleInit ==
    /\ Init
    /\ main = "create" /\ http = "none" /\ serverClosed = FALSE
    /\ handler = [h \in Handlers |-> "none"] /\ pending = 0
    /\ holder = None
    /\ isRunning = FALSE /\ closed = {} /\ alive = {}
    /\ outcome = "running"

-----------------------------------------------------------------------------
(***************************************************************************)
(* main.                                                                   *)
(***************************************************************************)
Goes(from, to) == main = from /\ main' = to

\* Without D-Bus there is no manager, and no process.
NewManagerFails ==
    /\ main = "create"
    /\ outcome' = "fatal"
    /\ UNCHANGED <<vars, main, server, callers, holder, manager>>

StartManager ==
    /\ Goes("create", "spawn")
    /\ ~isRunning
    /\ isRunning' = TRUE
    /\ alive' = DOMAIN ToldBy
    /\ UNCHANGED <<vars, server, callers, holder, closed, outcome>>

SpawnServer ==
    /\ Goes("spawn", "wait")
    /\ http' = "begun"
    /\ UNCHANGED <<vars, serverClosed, callers, holder, manager, outcome>>

Signal ==
    /\ Goes("wait", "close")
    /\ UNCHANGED <<vars, server, callers, holder, manager, outcome>>

\* Mutant: Shutdown instead of Close, which waits for the handlers.
ShutdownServer ==
    /\ Goes("close", "stop")
    /\ \A h \in Handlers : handler[h] = "none"
    /\ serverClosed' = (http # "begun")
    /\ UNCHANGED <<vars, http, callers, holder, manager, outcome>>

\* Close waits for no handler, and does nothing before the server is assigned.
StopServer ==
    /\ Goes("close", "stop")
    /\ serverClosed' = (http # "begun")
    /\ UNCHANGED <<vars, http, callers, holder, manager, outcome>>

\* Closing a channel a second time panics.
Close(channel) ==
    IF channel \in closed THEN outcome' = "panic" /\ UNCHANGED closed
    ELSE closed' = closed \cup {channel} /\ UNCHANGED outcome

\* Mutant: the mutex is not taken.
EnterStopUnlocked(from, inside, after) ==
    /\ main = from
    /\ IF isRunning THEN main' = inside /\ Close("client")
       ELSE main' = after /\ UNCHANGED <<closed, outcome>>
    /\ UNCHANGED <<vars, server, callers, holder, isRunning, alive>>

\* Mutant: isRunning is not looked at.
EnterStopAlways(from, inside, after) ==
    /\ main = from /\ holder = None
    /\ main' = inside /\ holder' = Main /\ Close("client")
    /\ UNCHANGED <<vars, server, callers, isRunning, alive>>

\* ManagerV2.Stop takes the mutex; a manager that does not run is left as it is.
EnterStop(from, inside, after) ==
    /\ main = from /\ holder = None
    /\ IF isRunning THEN main' = inside /\ holder' = Main /\ Close("client")
       ELSE main' = after /\ UNCHANGED <<holder, closed, outcome>>
    /\ UNCHANGED <<vars, server, callers, isRunning, alive>>

LeaveStop(inside, after) ==
    /\ Goes(inside, after)
    /\ Close("manager")
    /\ isRunning' = FALSE
    /\ holder' = None
    /\ UNCHANGED <<vars, server, callers, alive>>

\* main calls Stop, and a deferred call does again.
StopManager ==
    \/ EnterStop("stop", "stopping", "defer") \/ LeaveStop("stopping", "defer")
    \/ EnterStop("defer", "deferred", "return") \/ LeaveStop("deferred", "return")

MainReturns ==
    /\ main = "return"
    /\ outcome' = "clean"
    /\ UNCHANGED <<vars, main, server, callers, holder, manager>>

-----------------------------------------------------------------------------
(***************************************************************************)
(* The server's goroutine.  Whatever ListenAndServe returns is an error,   *)
(* that the server was closed too, and ends the process.                   *)
(***************************************************************************)
AssignServer ==
    /\ http = "begun" /\ http' = "assigned"
    /\ UNCHANGED <<vars, main, serverClosed, callers, holder, manager, outcome>>

\* A port that is in use, and a server that was closed before, fail at once.
Listen ==
    /\ http = "assigned"
    /\ http' \in IF serverClosed THEN {"failed"} ELSE {"listening", "failed"}
    /\ UNCHANGED <<vars, main, serverClosed, callers, holder, manager, outcome>>

ListenEnds ==
    /\ http = "listening" /\ serverClosed
    /\ http' = "failed"
    /\ UNCHANGED <<vars, main, serverClosed, callers, holder, manager, outcome>>

Fatalf ==
    /\ http = "failed"
    /\ outcome' = "fatal"
    /\ UNCHANGED <<vars, main, server, callers, holder, manager>>

-----------------------------------------------------------------------------
(***************************************************************************)
(* Handlers: a reader of the state, or a sender of an update.              *)
(***************************************************************************)
HandlerGoes(h, from, to) ==
    /\ handler[h] = from
    /\ handler' = [handler EXCEPT ![h] = to]
    /\ UNCHANGED <<vars, main, server, manager, outcome>>

Accept(h) ==
    /\ http = "listening" /\ ~serverClosed
    /\ HandlerGoes(h, "none", "asked")
    /\ UNCHANGED <<holder, pending>>

Lock(h) ==
    /\ holder = None /\ holder' = h
    /\ HandlerGoes(h, "asked", "inside")
    /\ UNCHANGED pending

Unlock(h) ==
    /\ HandlerGoes(h, "inside", "none") \/ HandlerGoes(h, "inside", "sending")
    /\ holder' = None
    /\ UNCHANGED pending

\* The caller blocks while the channel is full.
SendCommand(h) ==
    /\ pending < QueueCap /\ pending' = pending + 1
    /\ HandlerGoes(h, "sending", "none")
    /\ UNCHANGED holder

-----------------------------------------------------------------------------
(***************************************************************************)
(* The manager's goroutines.                                               *)
(***************************************************************************)
ProcessCommand ==
    /\ "processor" \in alive
    /\ pending > 0 /\ pending' = pending - 1
    /\ UNCHANGED <<vars, main, server, handler, holder, manager, outcome>>

\* A goroutine sees its closed channel between two rounds.
GoroutineEnds(g) ==
    /\ g \in alive /\ ToldBy[g] \in closed
    /\ g = "monitor" => ~checking
    /\ alive' = alive \ {g}
    /\ UNCHANGED <<vars, main, server, callers, holder, isRunning, closed, outcome>>

\* The monitor takes the mutex for a tick, and again for a check. What happens
\* before it runs and after it ended is not followed.
MonitorStep ==
    /\ "monitor" \in alive
    /\ \/ TimePasses \/ LinkChanges
       \/ holder = None /\ (RecordActivity \/ Tick \/ CheckConnectionStatus)
    /\ UNCHANGED <<main, server, callers, holder, manager, outcome>>

HandlerStep(h) == Accept(h) \/ Lock(h) \/ Unlock(h) \/ SendCommand(h)

MainStep == SpawnServer \/ StopServer \/ StopManager \/ MainReturns

ServerStep == AssignServer \/ Listen \/ ListenEnds \/ Fatalf

Running == outcome = "running"

LifecycleNext ==
    /\ Running
    /\ \/ NewManagerFails \/ StartManager \/ Signal
       \/ MainStep \/ ServerStep
       \/ \E h \in Handlers : HandlerStep(h)
       \/ ProcessCommand
       \/ \E g \in DOMAIN ToldBy : GoroutineEnds(g)
       \/ MonitorStep

LifecycleSpec == LifecycleInit /\ [][LifecycleNext]_lifeVars

\* main goes on, and gets the mutex, which a handler gives back: sync.RWMutex
\* lets no caller starve.  That a handler gives it back is true as long as GetStats
\* does not meet the completion of a transfer (manager.go:616-620, album_art.go:316;
\* Locks has that deadlock).  After it the mutex is never free again, and a signal
\* ends the process by the server's Fatalf only, or not at all when the server was
\* closed before it was assigned.
LifecycleFairSpec ==
    /\ LifecycleSpec
    /\ SF_lifeVars(Running /\ MainStep)
    /\ \A h \in Handlers : WF_lifeVars(Running /\ Unlock(h))

-----------------------------------------------------------------------------
\* The monitor's variables and the process's.
LifecycleTypeOK ==
    /\ TypeOK
    /\ main \in {"create", "spawn", "wait", "close", "stop", "stopping",
                 "defer", "deferred", "return"}
    /\ http \in {"none", "begun", "assigned", "listening", "failed"}
    /\ serverClosed \in BOOLEAN
    /\ handler \in [Handlers -> {"none", "asked", "inside", "sending"}]
    /\ holder \in Handlers \cup {Main, None}
    /\ pending \in 0 .. QueueCap
    /\ isRunning \in BOOLEAN
    /\ closed \subseteq {"client", "manager"}
    /\ alive \subseteq DOMAIN ToldBy
    /\ outcome \in {"running", "clean", "fatal", "panic"}

\* However the calls of Stop come, no channel is closed twice (manager.go:139-162).
StopsOnce == outcome # "panic"

\* A handler that reads under the mutex that the manager runs (GetCurrentState,
\* is_running) reads it of a manager none of whose goroutines was told to stop.
RunningIsTrue ==
    /\ LifecycleTypeOK
    /\ \A h \in Handlers : handler[h] = "inside" /\ isRunning => closed = {} /\ alive = DOMAIN ToldBy

\* A signal ends the process, with handlers blocked in sendCommand or not; they hold
\* no mutex there.  A handler that never gives the mutex back is excluded by the
\* fairness (see there).
Exits == main = "close" ~> ~Running

\* "Graceful shutdown" (main_v2.go:148): the process then ends by main's return.
GracefulExit == outcome = "fatal" => main \in {"create", "spawn", "wait"}

\* Once the server was stopped, it takes no requests.
NoServerAfterStop == main \in {"stop", "defer", "return"} => http # "listening" \/ serverClosed
=============================================================================
