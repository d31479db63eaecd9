-------------------------- MODULE BleClientProofs --------------------------
(***************************************************************************)
(* Proofs about BleClient for every set of commands, capacity and bound.   *)
(*                                                                         *)
(* ListenerPerConnection is made inductive by what connect has established *)
(* after its check: the characteristics it goes on with.                   *)
(***************************************************************************)
EXTENDS BleClient, SequenceTheorems, TLAPS

Checked == runPc \in {"subscribe", "listen", "mark"} => Essential \subseteq chars

Inv == Checked /\ ListenerPerConnection

\* The commands in the channel are commands, whether one is added or taken.
LEMMA QueueAppended ==
    ASSUME NEW q \in Seq(Cmds), NEW c \in Cmds
    PROVE  Append(q, c) \in Seq(Cmds) /\ Len(Append(q, c)) = Len(q) + 1
BY AppendProperties

LEMMA QueueTaken ==
    ASSUME NEW q \in Seq(Cmds), q # <<>>
    PROVE  /\ Head(q) \in Cmds
           /\ Tail(q) \in Seq(Cmds)
           /\ Len(Tail(q)) = Len(q) - 1
BY HeadTailProperties

\* The goroutines start with nothing connected and nothing queued.
LEMMA InitInv == Init => Inv
<1> SUFFICES ASSUME Init PROVE Inv
  OBVIOUS
<1>1. queue \in Seq(Cmds) /\ Len(queue) <= QueueCap
  <2>1. queue = <<>> /\ <<>> \in Seq(Cmds)
    BY EmptySeq DEF Init
  <2>2. Len(queue) = 0
    BY <2>1, EmptySeq, ClientAssumption
  <2>3. QED
    BY <2>1, <2>2, ClientAssumption
<1>2. TypeOK
  <2>1. /\ isConnected \in BOOLEAN /\ stopped \in BOOLEAN
        /\ processor \in BOOLEAN /\ link \in BOOLEAN
    BY Zenon DEF Init
  <2>2. /\ chars \subseteq Characteristics /\ blocked \subseteq Cmds
        /\ written \subseteq Cmds /\ dropped \subseteq Cmds
        /\ resolved \subseteq Exported /\ subscribed \subseteq Notifying
    BY Zenon DEF Init
  <2>3. /\ runPc \in Steps /\ writing \in Cmds \cup {Absent}
    BY DEF Init, Steps
  <2>4. spawned \in Nat /\ listening \in Nat /\ connections \in Nat /\ faults \in 0 .. MaxFaults
    BY ClientAssumption DEF Init
  <2>5. QED
    BY <1>1, <2>1, <2>2, <2>3, <2>4 DEF TypeOK
<1>3. QED
  BY <1>2 DEF Init, Inv, Checked, ListenerPerConnection

\* Steps that move the connection keep what the connection rests on.
LEMMA ConnectionStep ==
    ASSUME Inv, LinkDrops \/ Resolve \/ Run \/ ListenerRegisters \/ ListenerExits
    PROVE  Inv'
<1> USE ClientAssumption DEF Inv, TypeOK, Checked, ListenerPerConnection, Steps,
            connection, commands, bluez, Fault, RunStep
<1>1. CASE LinkDrops
  <2>1. /\ link' \in BOOLEAN
        /\ resolved' \subseteq Exported
        /\ subscribed' \subseteq Notifying
    BY <1>1, Zenon DEF LinkDrops
  <2>2. /\ UNCHANGED <<connection, stopped, commands>>
        /\ faults' \in 0 .. MaxFaults
    BY <1>1 DEF LinkDrops
  <2>3. QED
    BY <2>1, <2>2
<1>2. CASE Resolve
  BY <1>2 DEF Resolve
<1>3. CASE LeaveLoop
  BY <1>3 DEF LeaveLoop
<1>4. CASE FindDevice
  BY <1>4 DEF FindDevice
<1>5. CASE DeviceConnect
  <2>1. link' \in BOOLEAN
    BY <1>5 DEF DeviceConnect
  <2>2. /\ UNCHANGED <<isConnected, chars, spawned, listening, connections, resolved, subscribed,
                       stopped, commands>>
        /\ runPc = "connect" /\ runPc' \in {"discover", "loop"}
        /\ faults' \in 0 .. MaxFaults
    BY <1>5 DEF DeviceConnect
  <2>3. QED
    BY <2>1, <2>2
<1>6. CASE Discover
  <2>1. /\ UNCHANGED <<isConnected, spawned, listening, connections, link, resolved, subscribed, stopped,
                       queue, blocked, writing, processor, written, dropped>>
        /\ runPc = "discover"
        /\ runPc' \in {"subscribe", "loop"}
        /\ faults' \in 0 .. MaxFaults
    BY <1>6 DEF Discover
  <2>2. /\ chars \subseteq chars'
        /\ chars' \subseteq Characteristics
        /\ runPc' = "subscribe" => Essential \subseteq chars'
    BY <1>6 DEF Discover, Characteristics
  <2>3. QED
    BY <2>1, <2>2
<1>7. CASE EnableNotifications
  <2>1. subscribed' \subseteq Notifying
    BY <1>7 DEF EnableNotifications
  <2>2. /\ UNCHANGED <<isConnected, chars, spawned, listening, connections, link, resolved, stopped,
                       queue, blocked, writing, processor, written, dropped>>
        /\ runPc = "subscribe" /\ runPc' = "listen"
        /\ faults' \in 0 .. MaxFaults
    BY <1>7 DEF EnableNotifications
  <2>3. QED
    BY <2>1, <2>2
<1>8. CASE StartNotifications
  BY <1>8 DEF StartNotifications
<1>9. CASE MarkConnected
  BY <1>9 DEF MarkConnected
<1>10. CASE ConnectionLost
  <2>1. isConnected' = FALSE
    BY <1>10 DEF ConnectionLost
  <2>2. /\ UNCHANGED <<chars, spawned, listening, connections, bluez, stopped, commands>>
        /\ runPc = "loop" /\ runPc' = "loop"
        /\ faults' \in 0 .. MaxFaults
    BY <1>10 DEF ConnectionLost
  <2>3. QED
    BY <2>1, <2>2
<1>11. CASE ListenerRegisters
  BY <1>11 DEF ListenerRegisters
<1>12. CASE ListenerExits
  BY <1>12 DEF ListenerExits
<1>13. QED
  BY <1>1, <1>2, <1>3, <1>4, <1>5, <1>6, <1>7, <1>8, <1>9, <1>10, <1>11, <1>12 DEF Run

\* Steps of the commands and Stop leave the connection alone.
LEMMA CommandsStep ==
    ASSUME Inv,
           \/ \E c \in Cmds : SendCommand(c) \/ QueueAccepts(c)
           \/ ProcessCommandQueue
           \/ Stop
    PROVE  Inv'
<1> USE ClientAssumption DEF Inv, TypeOK, Checked, ListenerPerConnection, connection, commands, bluez,
            CommandStep
<1>1. ASSUME NEW c \in Cmds, SendCommand(c)
      PROVE  Inv'
  BY <1>1 DEF SendCommand
<1>2. ASSUME NEW c \in Cmds, QueueAccepts(c)
      PROVE  Inv'
  BY <1>2, QueueAppended DEF QueueAccepts
<1>3. CASE TakeCommand
  BY <1>3, QueueTaken DEF TakeCommand
<1>4. CASE SendMessage
  BY <1>4 DEF SendMessage, Fault
<1>5. CASE ProcessorExits
  BY <1>5 DEF ProcessorExits
<1>6. CASE Stop
  BY <1>6 DEF Stop
<1>7. QED
  BY <1>1, <1>2, <1>3, <1>4, <1>5, <1>6 DEF ProcessCommandQueue

\* The invariant holds in every state the client can be in.
LEMMA InvHolds == Spec => []Inv
<1>1. ASSUME Inv, [Next]_vars
      PROVE  Inv'
  <2>1. CASE Next
    BY <1>1, <2>1, ConnectionStep, CommandsStep DEF Next
  <2>2. CASE UNCHANGED vars
    BY <1>1, <2>2 DEF vars, connection, commands, bluez, Inv, TypeOK, Checked,
                      ListenerPerConnection
  <2>3. QED
    BY <1>1, <2>1, <2>2
<1>2. QED
  BY InitInv, <1>1, PTL DEF Spec

-----------------------------------------------------------------------------
\* Until Stop every connection that was declared (ble_client_v2.go:161) has its own
\* listener (482) and there is no other; a connected client holds both essential
\* characteristics, of this attempt to connect or of an earlier one (399).
THEOREM ListenersAddUp == Spec => []ListenerPerConnection
<1>1. Inv => ListenerPerConnection
  BY DEF Inv
<1>2. QED
  BY InvHolds, <1>1, PTL
=============================================================================
