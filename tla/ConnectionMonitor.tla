-------------------------- MODULE ConnectionMonitor --------------------------
(***************************************************************************)
(* The connection status the manager gives to clients.  isConnected is     *)
(* the BLE client's; the manager copies it into connectionStatus on a      *)
(* ticker, and only when no activity was recorded for a while.             *)
(***************************************************************************)
EXTENDS Integers

CONSTANTS
    TickEvery,   \* the ticker's period: 30 seconds
    IdleFor      \* without activity for this long: 30 seconds

ASSUME TimesAssumption == TickEvery \in Nat \ {0} /\ IdleFor \in Nat \ {0}

\* Counters of time stop here: more is the same.
Horizon == TickEvery + IdleFor

VARIABLES
    isConnected,   \* BleClientV2.isConnected
    status,        \* connectionStatus.Status = ConnectionStateConnected
    checking,      \* the monitor found the manager idle and is about to check
    phase,         \* time since the last tick
    age,           \* time since lastActivity
    stable         \* time since isConnected changed

vars == <<isConnected, status, checking, phase, age, stable>>

TypeOK ==
    /\ isConnected \in BOOLEAN /\ status \in BOOLEAN /\ checking \in BOOLEAN
    /\ phase \in 0..TickEvery
    /\ age \in 0..Horizon /\ stable \in 0..Horizon

\* NewManagerV2, then Start
Init ==
    /\ isConnected = FALSE /\ status = FALSE /\ checking = FALSE
    /\ phase = 0 /\ age = 0 /\ stable = 0

Later(t) == IF t < Horizon THEN t + 1 ELSE t

\* Time passes; a tick that is due, and the check after it, come first.
TimePasses ==
    /\ phase < TickEvery /\ ~checking
    /\ phase' = phase + 1
    /\ age' = Later(age) /\ stable' = Later(stable)
    /\ UNCHANGED <<isConnected, status, checking>>

\* A connection is made or lost.
LinkChanges ==
    /\ isConnected' = ~isConnected
    /\ stable' = 0
    /\ UNCHANGED <<status, checking, phase, age>>

\* A report, a command or an image.
RecordActivity ==
    /\ age' = 0
    /\ UNCHANGED <<isConnected, status, checking, phase, stable>>

Tick ==
    /\ phase = TickEvery /\ ~checking
    /\ phase' = 0
    /\ checking' = (age >= IdleFor)
    /\ UNCHANGED <<isConnected, status, age, stable>>

\* Mutant: the status is the one of the last check that found a connection.
CheckKeepsConnected ==
    /\ checking
    /\ checking' = FALSE
    /\ status' = (status \/ isConnected)
    /\ UNCHANGED <<isConnected, phase, age, stable>>

CheckConnectionStatus ==
    /\ checking
    /\ checking' = FALSE
    /\ status' = isConnected
    /\ UNCHANGED <<isConnected, phase, age, stable>>

Next == TimePasses \/ LinkChanges \/ RecordActivity \/ Tick \/ CheckConnectionStatus

Spec == Init /\ [][Next]_vars

-----------------------------------------------------------------------------
\* A ticker's period and the idle time after the last activity and the last
\* change of the connection, clients are given its status.
StatusWhenIdle ==
    age = Horizon /\ stable = Horizon /\ ~checking => status = isConnected

\* The same without waiting for the activity to stop.
StatusWhenStable == stable = Horizon /\ ~checking => status = isConnected
=============================================================================
