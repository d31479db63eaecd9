---------------------------- MODULE LifecycleProofs ----------------------------
(***************************************************************************)
(* Theorems of ConnectionMonitor, for every period and idle time, and of   *)
(* Lifecycle, for any handlers and channel capacity too.                   *)
(***************************************************************************)
EXTENDS Lifecycle, TLAPS

-----------------------------------------------------------------------------
(***************************************************************************)
(* The connection monitor alone.                                           *)
(***************************************************************************)
\* Since the last tick, `phase' ago, nothing has happened for so long that the
\* tick found the manager idle and the check saw the connection of now.
CheckedSince ==
    age - phase >= IdleFor /\ stable - phase >= IdleFor => checking \/ status = isConnected

IInv == TypeOK /\ CheckedSince

LEMMA InitIInv == Init => IInv
<1> USE TimesAssumption DEF Horizon
<1> SUFFICES ASSUME Init PROVE IInv
  OBVIOUS
<1>1. TypeOK
  <2>1. isConnected \in BOOLEAN /\ status \in BOOLEAN /\ checking \in BOOLEAN
    BY Zenon DEF Init
  <2>2. phase \in 0..TickEvery /\ age \in 0..Horizon /\ stable \in 0..Horizon
    BY DEF Init
  <2> QED
    BY <2>1, <2>2 DEF TypeOK
<1>2. CheckedSince
  BY DEF Init, CheckedSince
<1> QED
  BY <1>1, <1>2 DEF IInv

LEMMA LaterType == ASSUME NEW t \in 0..Horizon PROVE Later(t) \in 0..Horizon /\ Later(t) <= t + 1
BY TimesAssumption DEF Later, Horizon

LEMMA NextTypeOK == TypeOK /\ [Next]_vars => TypeOK'
<1> USE TimesAssumption DEF TypeOK, Horizon
<1> SUFFICES ASSUME TypeOK, [Next]_vars PROVE TypeOK'
  OBVIOUS
<1>1. CASE TimePasses
  BY <1>1, LaterType DEF TimePasses
<1>2. CASE LinkChanges
  BY <1>2 DEF LinkChanges
<1>3. CASE RecordActivity
  BY <1>3 DEF RecordActivity
<1>4. CASE Tick
  BY <1>4 DEF Tick
<1>5. CASE CheckConnectionStatus
  BY <1>5 DEF CheckConnectionStatus
<1>6. CASE UNCHANGED vars
  BY <1>6 DEF vars
<1> QED
  BY <1>1, <1>2, <1>3, <1>4, <1>5, <1>6 DEF Next

\* Time keeps the two differences or lowers them; activity and a change of the
\* connection bring them below IdleFor; a tick that leaves them at IdleFor or
\* more found the manager idle.
LEMMA NextCheckedSince == IInv /\ [Next]_vars => CheckedSince'
<1> USE TimesAssumption DEF IInv, TypeOK, Horizon
<1> SUFFICES ASSUME IInv, [Next]_vars,
                    (age - phase >= IdleFor /\ stable - phase >= IdleFor)'
             PROVE  (checking \/ status = isConnected)'
  BY DEF CheckedSince
<1>1. CASE TimePasses
  <2>1. age - phase >= IdleFor /\ stable - phase >= IdleFor
    BY <1>1, LaterType DEF TimePasses
  <2>2. checking \/ status = isConnected
    BY <2>1 DEF CheckedSince
  <2> QED
    BY <1>1, <2>2 DEF TimePasses
<1>2. CASE LinkChanges
  <2>1. stable' = 0 /\ phase' = phase
    BY <1>2 DEF LinkChanges
  <2> QED
    BY <2>1
<1>3. CASE RecordActivity
  <2>1. age' = 0 /\ phase' = phase
    BY <1>3 DEF RecordActivity
  <2> QED
    BY <2>1
<1>4. CASE Tick
  <2>1. age >= IdleFor
    BY <1>4 DEF Tick
  <2>2. checking' = (age >= IdleFor)
    BY <1>4 DEF Tick
  <2> QED
    BY <2>1, <2>2
<1>5. CASE CheckConnectionStatus
  BY <1>5 DEF CheckConnectionStatus
<1>6. CASE UNCHANGED vars
  <2>1. age - phase >= IdleFor /\ stable - phase >= IdleFor
    BY <1>6 DEF vars
  <2>2. checking \/ status = isConnected
    BY <2>1 DEF CheckedSince
  <2> QED
    BY <1>6, <2>2 DEF vars
<1> QED
  BY <1>1, <1>2, <1>3, <1>4, <1>5, <1>6 DEF Next

LEMMA IInvIdle == IInv => StatusWhenIdle
BY TimesAssumption DEF IInv, TypeOK, CheckedSince, StatusWhenIdle, Horizon

LEMMA Invariance == Spec => []IInv
<1>1. IInv /\ [Next]_vars => IInv'
  BY NextTypeOK, NextCheckedSince DEF IInv
<1> QED
  BY InitIInv, <1>1, PTL DEF Spec

\* The variables of the monitor keep their types, for every period and idle time.
THEOREM TypeCorrect == Spec => []TypeOK
<1>1. IInv => TypeOK
  BY DEF IInv
<1> QED
  BY Invariance, <1>1, PTL

\* A period and an idle time after the last activity and the last change of the
\* connection, the status given to clients (GetCurrentState) is that of the
\* BLE client, for every period and idle time.
THEOREM StatusInTime == Spec => []StatusWhenIdle
BY Invariance, IInvIdle, PTL

-----------------------------------------------------------------------------
(***************************************************************************)
(* The connection monitor inside the process.                              *)
(***************************************************************************)
LEMMA MonitorSteps == [LifecycleNext]_lifeVars => [Next]_vars
<1> SUFFICES ASSUME [LifecycleNext]_lifeVars PROVE [Next]_vars
  OBVIOUS
<1>1. CASE MonitorStep
  BY <1>1 DEF MonitorStep, Next
<1>2. CASE NewManagerFails \/ StartManager \/ Signal
  BY <1>2 DEF NewManagerFails, StartManager, Signal
<1>3. CASE MainStep
  BY <1>3 DEF MainStep, SpawnServer, StopServer, StopManager, EnterStop, LeaveStop, MainReturns
<1>4. CASE ServerStep
  BY <1>4 DEF ServerStep, AssignServer, Listen, ListenEnds, Fatalf
<1>5. ASSUME NEW h \in Handlers, HandlerStep(h) PROVE UNCHANGED vars
  BY <1>5 DEF HandlerStep, Accept, Lock, Unlock, SendCommand, HandlerGoes
<1>6. CASE ProcessCommand
  BY <1>6 DEF ProcessCommand
<1>7. ASSUME NEW g \in DOMAIN ToldBy, GoroutineEnds(g) PROVE UNCHANGED vars
  BY <1>7 DEF GoroutineEnds
<1>8. CASE UNCHANGED lifeVars
  BY <1>8 DEF lifeVars
<1> QED
  BY <1>1, <1>2, <1>3, <1>4, <1>5, <1>6, <1>7, <1>8 DEF LifecycleNext

\* Whatever main, the server and the handlers do, the monitor's variables take the
\* steps of ConnectionMonitor and no other (manager.go:530-597): what is proved of
\* the monitor alone holds in the process.
THEOREM MonitorImplemented == LifecycleSpec => Spec
<1>1. LifecycleInit => Init
  BY DEF LifecycleInit
<1> QED
  BY <1>1, MonitorSteps, PTL DEF LifecycleSpec, Spec

\* The status a handler gives to clients is right a period and an idle time after
\* the last activity and the last change of the connection, in the process too.
THEOREM StatusInProcess == LifecycleSpec => []StatusWhenIdle
BY MonitorImplemented, StatusInTime, PTL

-----------------------------------------------------------------------------
(***************************************************************************)
(* Types.                                                                  *)
(***************************************************************************)
LEMMA NextLifecycleTypeOK == LifecycleTypeOK /\ [LifecycleNext]_lifeVars => LifecycleTypeOK'
<1> SUFFICES ASSUME LifecycleTypeOK, [LifecycleNext]_lifeVars PROVE LifecycleTypeOK'
  OBVIOUS
<1>1. TypeOK'
  BY MonitorSteps, NextTypeOK DEF LifecycleTypeOK
<1> USE <1>1, LifecycleAssumption DEF LifecycleTypeOK, Goes, server, callers, manager
<1>2. CASE NewManagerFails \/ StartManager \/ Signal
  BY <1>2 DEF NewManagerFails, StartManager, Signal
<1>3. CASE SpawnServer \/ StopServer \/ MainReturns
  BY <1>3 DEF SpawnServer, StopServer, MainReturns
<1>4. ASSUME EnterStop("stop", "stopping", "defer") \/ EnterStop("defer", "deferred", "return")
      PROVE  LifecycleTypeOK'
  BY <1>4 DEF EnterStop, Close
<1>5. ASSUME LeaveStop("stopping", "defer") \/ LeaveStop("deferred", "return")
      PROVE  LifecycleTypeOK'
  BY <1>5 DEF LeaveStop, Close
<1>6. CASE ServerStep
  BY <1>6 DEF ServerStep, AssignServer, Listen, ListenEnds, Fatalf
<1>7. ASSUME NEW h \in Handlers, HandlerStep(h) PROVE LifecycleTypeOK'
  <2>1. handler' \in [Handlers -> {"none", "asked", "inside", "sending"}]
    BY <1>7 DEF HandlerStep, Accept, Lock, Unlock, SendCommand, HandlerGoes
  <2>2. holder' \in Handlers \cup {Main, None} /\ pending' \in 0 .. QueueCap
    BY <1>7 DEF HandlerStep, Accept, Lock, Unlock, SendCommand, HandlerGoes
  <2>3. UNCHANGED <<main, server, manager, outcome>>
    BY <1>7 DEF HandlerStep, Accept, Lock, Unlock, SendCommand, HandlerGoes
  <2> QED
    BY <2>1, <2>2, <2>3
<1>8. CASE ProcessCommand
  BY <1>8 DEF ProcessCommand
<1>9. ASSUME NEW g \in DOMAIN ToldBy, GoroutineEnds(g) PROVE LifecycleTypeOK'
  BY <1>9 DEF GoroutineEnds
<1>10. CASE MonitorStep
  BY <1>10 DEF MonitorStep
<1>11. CASE UNCHANGED lifeVars
  BY <1>11 DEF lifeVars
<1> QED
  BY <1>2, <1>3, <1>4, <1>5, <1>6, <1>7, <1>8, <1>9, <1>10, <1>11
     DEF LifecycleNext, MainStep, StopManager

\* The variables of the process and of its monitor keep their types: the command
\* channel never holds more than its capacity, and the mutex has one owner.
LEMMA LifecycleTypeCorrect == LifecycleSpec => []LifecycleTypeOK
<1>1. LifecycleInit => LifecycleTypeOK
  <2> SUFFICES ASSUME LifecycleInit PROVE LifecycleTypeOK
    OBVIOUS
  <2>1. TypeOK
    BY InitIInv DEF LifecycleInit, IInv
  <2>2. serverClosed \in BOOLEAN /\ isRunning \in BOOLEAN
    BY Zenon DEF LifecycleInit
  <2> QED
    BY <2>1, <2>2, LifecycleAssumption DEF LifecycleInit, LifecycleTypeOK
<1> QED
  BY <1>1, NextLifecycleTypeOK, PTL DEF LifecycleSpec

-----------------------------------------------------------------------------
(***************************************************************************)
(* Starting and stopping.  Until main is inside Stop the manager runs with *)
(* both channels open; inside, main has the mutex and the client's channel *)
(* is closed; after, the manager does not run, and the deferred call finds *)
(* nothing to stop.                                                        *)
(***************************************************************************)
Phases ==
    \/ main = "create" /\ ~isRunning /\ closed = {}
    \/ main \in {"spawn", "wait", "close", "stop"}
         /\ isRunning /\ closed = {} /\ alive = DOMAIN ToldBy
    \/ main = "stopping" /\ holder = Main /\ closed = {"client"}
    \/ main \in {"defer", "return"} /\ ~isRunning

\* A handler that is between Lock and Unlock has the mutex.
Owners == \A h \in Handlers : handler[h] = "inside" => holder = h

LInv ==
    /\ handler \in [Handlers -> {"none", "asked", "inside", "sending"}]
    /\ Phases
    /\ Owners
    /\ StopsOnce

LEMMA InitLInv == LifecycleInit => LInv
BY DEF LifecycleInit, LInv, Phases, Owners, StopsOnce

LEMMA NextLInv == LInv /\ [LifecycleNext]_lifeVars => LInv'
<1> SUFFICES ASSUME LInv, [LifecycleNext]_lifeVars PROVE LInv'
  OBVIOUS
<1> USE DEF LInv, Phases, Owners, StopsOnce, Goes
<1>1. CASE NewManagerFails \/ StartManager \/ Signal
  <2>1. CASE NewManagerFails
    BY <2>1 DEF NewManagerFails, callers, manager
  <2>2. CASE StartManager
    BY <2>2 DEF StartManager, callers
  <2>3. CASE Signal
    BY <2>3 DEF Signal, callers, manager
  <2> QED
    BY <1>1, <2>1, <2>2, <2>3
<1>2. CASE SpawnServer \/ StopServer \/ MainReturns
  BY <1>2 DEF SpawnServer, StopServer, MainReturns, callers, manager
<1>3. ASSUME EnterStop("stop", "stopping", "defer") PROVE LInv'
  BY <1>3, LifecycleAssumption DEF EnterStop, Close, callers
<1>4. ASSUME LeaveStop("stopping", "defer") PROVE LInv'
  BY <1>4, LifecycleAssumption DEF LeaveStop, Close, callers
<1>5. ASSUME EnterStop("defer", "deferred", "return") PROVE LInv'
  BY <1>5 DEF EnterStop, callers
<1>6. ~LeaveStop("deferred", "return")
  BY DEF LeaveStop
<1>7. CASE ServerStep
  BY <1>7 DEF ServerStep, AssignServer, Listen, ListenEnds, Fatalf, callers, manager
<1>8. ASSUME NEW h \in Handlers, HandlerStep(h) PROVE LInv'
  <2>1. CASE Accept(h)
    BY <2>1 DEF Accept, HandlerGoes, manager
  <2>2. CASE Lock(h)
    BY <2>2, LifecycleAssumption DEF Lock, HandlerGoes, manager
  <2>3. CASE Unlock(h)
    BY <2>3, LifecycleAssumption DEF Unlock, HandlerGoes, manager
  <2>4. CASE SendCommand(h)
    BY <2>4 DEF SendCommand, HandlerGoes, manager
  <2> QED
    BY <1>8, <2>1, <2>2, <2>3, <2>4 DEF HandlerStep
<1>9. CASE ProcessCommand
  BY <1>9 DEF ProcessCommand, manager
<1>10. ASSUME NEW g \in DOMAIN ToldBy, GoroutineEnds(g) PROVE LInv'
  BY <1>10 DEF GoroutineEnds, callers
<1>11. CASE MonitorStep
  BY <1>11 DEF MonitorStep, callers, manager
<1>12. CASE UNCHANGED lifeVars
  BY <1>12 DEF lifeVars, callers, manager
<1> QED
  BY <1>1, <1>2, <1>3, <1>4, <1>5, <1>6, <1>7, <1>8, <1>9, <1>10, <1>11, <1>12
     DEF LifecycleNext, MainStep, StopManager

LEMMA LInvRunning == LInv /\ LifecycleTypeOK => RunningIsTrue
BY LifecycleAssumption DEF LInv, Phases, Owners, RunningIsTrue

LEMMA LInvAlways == LifecycleSpec => []LInv
BY InitLInv, NextLInv, PTL DEF LifecycleSpec

\* Stop runs twice at every exit (main_v2.go:108-111, 158), and no channel is closed
\* twice, whatever the handlers and the server do meanwhile.
THEOREM StoppedOnce == LifecycleSpec => []StopsOnce
<1>1. LInv => StopsOnce
  BY DEF LInv
<1> QED
  BY LInvAlways, <1>1, PTL

\* A handler that reads under the mutex that the manager runs reads it of a manager
\* none of whose goroutines was told to stop; and the variables keep their types, for
\* any handlers, channel capacity, period and idle time.
THEOREM RunningRead == LifecycleSpec => []RunningIsTrue
BY LInvAlways, LifecycleTypeCorrect, LInvRunning, PTL
=============================================================================
