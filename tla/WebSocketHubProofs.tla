-------------------------- MODULE WebSocketHubProofs --------------------------
(***************************************************************************)
(* Theorems of WebSocketHub, for any connections, callers and number of    *)
(* broadcasts.                                                             *)
(***************************************************************************)
EXTENDS WebSocketHub, TLAPS

LEMMA InitTypeOK == Init => TypeOK
<1> SUFFICES ASSUME Init PROVE TypeOK
  OBVIOUS
<1> USE HubAssumption DEF Init
<1>1. alive \in BOOLEAN
  OBVIOUS
<1>2. /\ gone \subseteq Conns /\ clients \subseteq Conns /\ closed \subseteq Conns
      /\ broken \subseteq Conns /\ mixed \subseteq Conns
      /\ reader \in [Conns -> {"off", "reading", "done"}]
      /\ handler \in [Conns -> {"off", "looping", "returned"}]
      /\ writing \subseteq (Callers \cup {Pinger}) \X Conns
  OBVIOUS
<1>3. /\ mu \in Callers \cup {None}
      /\ sent \in 0..MaxEvents
      /\ latest \in [Kinds -> 0..MaxEvents]
      /\ pc \in [Callers -> {"idle", "stored", "sending"}]
  OBVIOUS
<1>4. event \in [Callers -> [number : 0..MaxEvents, kind : Kinds]]
  BY DEF NoEvent, Kinds
<1>5. /\ todo \in [Callers -> SUBSET Conns] /\ failed \in [Callers -> SUBSET Conns]
      /\ audience \in [Events -> SUBSET Conns] /\ got \in [Events -> SUBSET Conns]
      /\ shown \in [Conns -> [Kinds -> 0..MaxEvents]]
  OBVIOUS
<1> QED
  BY <1>1, <1>2, <1>3, <1>4, <1>5 DEF TypeOK

\* What a write that starts or ends leaves of the types.
LEMMA WriteType ==
    ASSUME NEW w \in Callers \cup {Pinger}, NEW c \in Conns, TypeOK
    PROVE  /\ BeginWrite(w, c) => /\ alive' \in BOOLEAN /\ mixed' \subseteq Conns
                                  /\ writing' \subseteq (Callers \cup {Pinger}) \X Conns
           /\ EndWrite(w, c) => writing' \subseteq (Callers \cup {Pinger}) \X Conns
           /\ BrokenBy(c) \subseteq Conns
<1>1. BeginWrite(w, c) => /\ writing' = writing \cup {<<w, c>>}
                          /\ mixed' = mixed \/ mixed' = mixed \cup {c}
                          /\ alive' = FALSE \/ alive' = alive
  BY Zenon DEF BeginWrite
<1>2. BeginWrite(w, c) => writing' \subseteq (Callers \cup {Pinger}) \X Conns
  BY <1>1 DEF TypeOK
<1>5. BeginWrite(w, c) => mixed' \subseteq Conns
  BY <1>1 DEF TypeOK
<1>6. BeginWrite(w, c) => alive' \in BOOLEAN
  BY <1>1, Zenon DEF TypeOK
<1>3. EndWrite(w, c) => writing' \subseteq (Callers \cup {Pinger}) \X Conns
  BY DEF TypeOK, EndWrite
<1>4. BrokenBy(c) \subseteq Conns
  BY DEF TypeOK, BrokenBy
<1> QED
  BY <1>2, <1>3, <1>4, <1>5, <1>6

LEMMA NextTypeOK == TypeOK /\ [Next]_vars => TypeOK'
<1> SUFFICES ASSUME TypeOK, [Next]_vars PROVE TypeOK'
  OBVIOUS
<1> USE HubAssumption
<1>1. ASSUME NEW c \in Conns, PeerGoes(c) PROVE TypeOK'
  BY <1>1 DEF PeerGoes, TypeOK, callerVars
<1>2. ASSUME NEW c \in Conns, AddClient(c) PROVE TypeOK'
  BY <1>2 DEF AddClient, TypeOK, callerVars
<1>3. ASSUME NEW c \in Conns, ReadEnds(c) PROVE TypeOK'
  BY <1>3 DEF ReadEnds, TypeOK, callerVars
<1>4. ASSUME NEW c \in Conns, SeeDone(c) PROVE TypeOK'
  BY <1>4 DEF SeeDone, RemoveClient, TypeOK, callerVars
<1>5. ASSUME NEW c \in Conns, BeginPing(c) PROVE TypeOK'
  BY <1>5, WriteType DEF BeginPing, TypeOK, callerVars
<1>6. ASSUME NEW c \in Conns, EndPing(c) PROVE TypeOK'
  BY <1>6, WriteType DEF EndPing, RemoveClient, TypeOK, callerVars
<1>7. ASSUME NEW b \in Callers, NEW k \in Kinds, Store(b, k), mu' \in Callers \cup {None}
      PROVE  TypeOK'
  <2>1. sent + 1 \in 0..MaxEvents
    BY <1>7 DEF Store, TypeOK
  <2> QED
    BY <1>7, <2>1 DEF Store, TypeOK, socketVars
<1>8. ASSUME NEW b \in StateCallers, StoreState(b) PROVE TypeOK'
  BY <1>7, <1>8 DEF StoreState, Kinds, Callers
<1>9. ASSUME NEW b \in UpdateCallers, StoreUpdate(b) PROVE TypeOK'
  BY <1>7, <1>9 DEF StoreUpdate, Kinds, Callers, TypeOK
<1>10. ASSUME NEW b \in Callers, Snapshot(b) PROVE TypeOK'
  BY <1>10 DEF Snapshot, TypeOK, socketVars
<1>11. ASSUME NEW b \in Callers, RemoveFailed(b) PROVE TypeOK'
  <2>1. NoEvent \in [number : 0..MaxEvents, kind : Kinds]
    BY DEF NoEvent, Kinds
  <2> QED
    BY <1>11, <2>1 DEF RemoveFailed, Return, TypeOK
<1>12. ASSUME NEW b \in Callers, NEW c \in Conns, BeginSend(b, c) PROVE TypeOK'
  BY <1>12, WriteType DEF BeginSend, TypeOK
<1>13. ASSUME NEW b \in Callers, NEW c \in Conns, EndSend(b, c) PROVE TypeOK'
  <2>1. event[b].number \in 0..MaxEvents /\ event[b].kind \in Kinds
    BY DEF TypeOK
  <2> QED
    BY <1>13, <2>1, WriteType DEF EndSend, TypeOK
<1>14. ASSUME NEW b \in Callers, NEW c \in Conns, SendFails(b, c) PROVE TypeOK'
  BY <1>14, WriteType DEF SendFails, TypeOK
<1>15. CASE UNCHANGED vars
  BY <1>15 DEF vars, socketVars, callerVars, TypeOK
<1> QED
  BY <1>1, <1>2, <1>3, <1>4, <1>5, <1>6, <1>8, <1>9, <1>10, <1>11, <1>12, <1>13, <1>14, <1>15
  DEF Next, Connection, Sending

-----------------------------------------------------------------------------
(***************************************************************************)
(* The books of a broadcast: whom of its audience it has not reached is    *)
(* still to be written to, being written to, or among the failed.          *)
(***************************************************************************)
InFlight(b) == {c \in Conns : <<b, c>> \in writing}

Owed(b) == todo[b] \cup failed[b] \cup InFlight(b)

Books(b) ==
    /\ pc[b] # "sending" => Owed(b) = {}
    /\ pc[b] = "sending" =>
        /\ audience[event[b].number] \ got[event[b].number] = Owed(b)
        /\ todo[b] \cap failed[b] = {}
        /\ InFlight(b) \cap (todo[b] \cup failed[b]) = {}

Numbered ==
    /\ \A b \in Callers : pc[b] # "idle" => event[b].number \in 1..sent
    /\ \A a, b \in Callers :
        pc[a] # "idle" /\ pc[b] # "idle" /\ event[a].number = event[b].number => a = b

Unpublished ==
    /\ \A b \in Callers : pc[b] = "stored" =>
        audience[event[b].number] = {} /\ got[event[b].number] = {}
    /\ \A e \in Events : e > sent => audience[e] = {} /\ got[e] = {}

\* A connection that has not joined is in nobody's audience, and not pinged.
Joined == \A c \in Conns : handler[c] = "off" =>
              /\ c \notin clients /\ \A e \in Events : c \notin audience[e]
              /\ <<Pinger, c>> \notin writing

IInv == TypeOK /\ Numbered /\ Unpublished /\ Joined /\ \A b \in Callers : Books(b)

LEMMA InitIInv == Init => IInv
<1> SUFFICES ASSUME Init PROVE IInv
  OBVIOUS
<1>1. TypeOK
  BY InitTypeOK
<1>2. Numbered /\ Unpublished /\ Joined
  BY DEF Init, Numbered, Unpublished, Joined
<1>3. \A b \in Callers : Books(b)
  BY DEF Init, Books, Owed, InFlight
<1> QED
  BY <1>1, <1>2, <1>3 DEF IInv

\* The event of a caller that is not idle is an event.
LEMMA NumberIsEvent ==
    ASSUME IInv, NEW b \in Callers, pc[b] # "idle"
    PROVE  event[b].number \in Events
BY HubAssumption DEF IInv, TypeOK, Numbered, Events

\* What writes to caller b's clients starts, or ends, in which step.
LEMMA InFlightBegins ==
    ASSUME NEW w, NEW c \in Conns, BeginWrite(w, c)
    PROVE  \A b \in Callers : InFlight(b)' = IF b = w THEN InFlight(b) \cup {c} ELSE InFlight(b)
<1>1. writing' = writing \cup {<<w, c>>}
  BY Zenon DEF BeginWrite
<1> QED
  BY <1>1 DEF InFlight

LEMMA InFlightEnds ==
    ASSUME NEW w, NEW c \in Conns, EndWrite(w, c)
    PROVE  /\ \A b \in Callers : InFlight(b)' = IF b = w THEN InFlight(b) \ {c} ELSE InFlight(b)
           /\ w \in Callers => c \in InFlight(w)
BY DEF EndWrite, InFlight

LEMMA InFlightStays ==
    ASSUME UNCHANGED writing
    PROVE  \A b \in Callers : InFlight(b)' = InFlight(b)
BY DEF InFlight

\* A step of a connection leaves the books alone.
LEMMA ConnectionKeeps ==
    ASSUME IInv, UNCHANGED callerVars, \A b \in Callers : InFlight(b)' = InFlight(b)
    PROVE  (Numbered /\ Unpublished /\ \A b \in Callers : Books(b))'
<1>1. (Numbered /\ Unpublished)'
  BY DEF IInv, Numbered, Unpublished, callerVars
<1>2. ASSUME NEW b \in Callers PROVE Books(b)'
  BY <1>2 DEF IInv, Books, Owed, callerVars
<1> QED
  BY <1>1, <1>2

LEMMA ConnectionBooks ==
    ASSUME IInv, NEW c \in Conns, PeerGoes(c) \/ Connection(c)
    PROVE  (Numbered /\ Unpublished /\ \A b \in Callers : Books(b))'
<1>1. CASE PeerGoes(c)
  BY <1>1, ConnectionKeeps, InFlightStays DEF PeerGoes
<1>2. CASE AddClient(c)
  BY <1>2, ConnectionKeeps, InFlightStays DEF AddClient
<1>3. CASE ReadEnds(c)
  BY <1>3, ConnectionKeeps, InFlightStays DEF ReadEnds
<1>4. CASE SeeDone(c)
  BY <1>4, ConnectionKeeps, InFlightStays DEF SeeDone
<1>5. CASE BeginPing(c)
  <2>1. \A b \in Callers : InFlight(b)' = InFlight(b)
    BY <1>5, InFlightBegins, HubAssumption DEF BeginPing
  <2> QED
    BY <1>5, <2>1, ConnectionKeeps DEF BeginPing
<1>6. CASE EndPing(c)
  <2>1. \A b \in Callers : InFlight(b)' = InFlight(b)
    BY <1>6, InFlightEnds, HubAssumption DEF EndPing
  <2> QED
    BY <1>6, <2>1, ConnectionKeeps DEF EndPing
<1> QED
  BY <1>1, <1>2, <1>3, <1>4, <1>5, <1>6 DEF Connection

LEMMA StoreBooks ==
    ASSUME IInv, NEW b \in Callers, NEW k \in Kinds, Store(b, k)
    PROVE  (Numbered /\ Unpublished /\ \A a \in Callers : Books(a))'
<1> USE DEF IInv
<1>1. /\ sent \in Nat /\ sent' = sent + 1 /\ sent' \in Events
      /\ UNCHANGED <<todo, failed, audience, got, writing>>
  BY HubAssumption DEF Store, socketVars, TypeOK, Events
<1>2. /\ pc[b] = "idle" /\ pc'[b] = "stored" /\ event'[b].number = sent + 1
      /\ \A a \in Callers \ {b} : pc'[a] = pc[a] /\ event'[a] = event[a]
  BY DEF Store, TypeOK
<1>3. Numbered'
  BY <1>1, <1>2 DEF Numbered
<1>4. Unpublished'
  <2>1. audience[sent + 1] = {} /\ got[sent + 1] = {}
    BY <1>1 DEF Unpublished
  <2> QED
    BY <1>1, <1>2, <2>1 DEF Unpublished
<1>5. ASSUME NEW a \in Callers PROVE Books(a)'
  <2>1. InFlight(a)' = InFlight(a)
    BY <1>1, InFlightStays
  <2> QED
    BY <1>1, <1>2, <2>1 DEF Books, Owed
<1> QED
  BY <1>3, <1>4, <1>5

LEMMA SnapshotBooks ==
    ASSUME IInv, NEW b \in Callers, Snapshot(b)
    PROVE  (Numbered /\ Unpublished /\ \A a \in Callers : Books(a))'
<1> USE DEF IInv
<1> DEFINE n == event[b].number
<1>1. /\ UNCHANGED <<sent, event, failed, got, writing>>
      /\ pc[b] = "stored" /\ pc'[b] = "sending" /\ todo'[b] = clients
      /\ \A a \in Callers \ {b} : pc'[a] = pc[a] /\ todo'[a] = todo[a]
  BY DEF Snapshot, socketVars, TypeOK
<1>2. n \in Events /\ got[n] = {}
  BY <1>1, NumberIsEvent DEF Unpublished
<1>3. audience'[n] = clients /\ \A e \in Events \ {n} : audience'[e] = audience[e]
  BY <1>2 DEF Snapshot, TypeOK
<1>4. \A a \in Callers \ {b} : pc[a] # "idle" => event[a].number \in Events \ {n}
  BY <1>1, NumberIsEvent DEF Numbered
<1>5. Numbered'
  BY <1>1 DEF Numbered
<1>6. Unpublished'
  <2>1. n \in 1..sent /\ sent \in Nat
    BY <1>1, HubAssumption DEF Numbered, TypeOK
  <2>2. ASSUME NEW e \in Events, e > sent' PROVE audience'[e] = {} /\ got'[e] = {}
    <3>1. e > sent /\ e # n
      BY <1>1, <2>1, <2>2 DEF Events
    <3> QED
      BY <1>1, <1>3, <3>1 DEF Unpublished
  <2>3. ASSUME NEW a \in Callers, pc'[a] = "stored"
        PROVE  audience'[event'[a].number] = {} /\ got'[event'[a].number] = {}
    BY <1>1, <1>3, <1>4, <2>3 DEF Unpublished
  <2> QED
    BY <2>2, <2>3 DEF Unpublished
<1>7. ASSUME NEW a \in Callers PROVE Books(a)'
  <2>1. InFlight(a)' = InFlight(a)
    BY <1>1, InFlightStays
  <2>2. CASE a = b
    <3>1. failed[b] = {} /\ InFlight(b) = {}
      BY <1>1 DEF Books, Owed
    <3> QED
      BY <1>1, <1>2, <1>3, <2>1, <2>2, <3>1 DEF Books, Owed
  <2>3. CASE a # b
    BY <1>1, <1>3, <1>4, <2>1, <2>3 DEF Books, Owed
  <2> QED
    BY <2>2, <2>3
<1> QED
  BY <1>5, <1>6, <1>7

LEMMA BeginSendBooks ==
    ASSUME IInv, NEW b \in Callers, NEW c \in Conns, BeginSend(b, c)
    PROVE  (Numbered /\ Unpublished /\ \A a \in Callers : Books(a))'
<1> USE DEF IInv
<1>1. /\ UNCHANGED <<sent, pc, event, failed, audience, got>>
      /\ c \in todo[b] /\ todo'[b] = todo[b] \ {c}
      /\ \A a \in Callers \ {b} : todo'[a] = todo[a]
  BY DEF BeginSend, TypeOK
<1>2. \A a \in Callers : InFlight(a)' = IF a = b THEN InFlight(a) \cup {c} ELSE InFlight(a)
  BY InFlightBegins DEF BeginSend
<1>3. (Numbered /\ Unpublished)'
  BY <1>1 DEF Numbered, Unpublished
<1>4. ASSUME NEW a \in Callers PROVE Books(a)'
  <2>1. CASE a = b
    <3>1. pc[b] = "sending"
      BY <1>1 DEF Books, Owed
    <3> QED
      BY <1>1, <1>2, <2>1, <3>1 DEF Books, Owed
  <2>2. CASE a # b
    BY <1>1, <1>2, <2>2 DEF Books, Owed
  <2> QED
    BY <2>1, <2>2
<1> QED
  BY <1>3, <1>4

LEMMA EndSendBooks ==
    ASSUME IInv, NEW b \in Callers, NEW c \in Conns, EndSend(b, c)
    PROVE  (Numbered /\ Unpublished /\ \A a \in Callers : Books(a))'
<1> USE DEF IInv
<1> DEFINE n == event[b].number
<1>1. UNCHANGED <<sent, pc, event, todo, failed, audience>>
  BY DEF EndSend
<1>2. /\ \A a \in Callers : InFlight(a)' = IF a = b THEN InFlight(a) \ {c} ELSE InFlight(a)
      /\ c \in InFlight(b)
  BY InFlightEnds DEF EndSend
<1>3. pc[b] = "sending"
  BY <1>2 DEF Books, Owed
<1>4. n \in Events
  BY <1>3, NumberIsEvent
<1>5. got'[n] = got[n] \cup {c} /\ \A e \in Events \ {n} : got'[e] = got[e]
  BY <1>4 DEF EndSend, TypeOK
<1>6. \A a \in Callers \ {b} : pc[a] # "idle" => event[a].number \in Events \ {n}
  BY <1>3, NumberIsEvent DEF Numbered
<1>7. Numbered'
  BY <1>1 DEF Numbered
<1>8. Unpublished'
  <2>1. n \in 1..sent /\ sent \in Nat
    BY <1>3, HubAssumption DEF Numbered, TypeOK
  <2>2. ASSUME NEW e \in Events, e > sent' PROVE audience'[e] = {} /\ got'[e] = {}
    <3>1. e > sent /\ e # n
      BY <1>1, <2>1, <2>2 DEF Events
    <3> QED
      BY <1>1, <1>5, <3>1 DEF Unpublished
  <2>3. ASSUME NEW a \in Callers, pc'[a] = "stored"
        PROVE  audience'[event'[a].number] = {} /\ got'[event'[a].number] = {}
    BY <1>1, <1>3, <1>5, <1>6, <2>3 DEF Unpublished
  <2> QED
    BY <2>2, <2>3 DEF Unpublished
<1>9. ASSUME NEW a \in Callers PROVE Books(a)'
  <2>1. CASE a = b
    BY <1>1, <1>2, <1>3, <1>5, <2>1 DEF Books, Owed
  <2>2. CASE a # b
    BY <1>1, <1>2, <1>5, <1>6, <2>2 DEF Books, Owed
  <2> QED
    BY <2>1, <2>2
<1> QED
  BY <1>7, <1>8, <1>9

LEMMA SendFailsBooks ==
    ASSUME IInv, NEW b \in Callers, NEW c \in Conns, SendFails(b, c)
    PROVE  (Numbered /\ Unpublished /\ \A a \in Callers : Books(a))'
<1> USE DEF IInv
<1>1. /\ UNCHANGED <<sent, pc, event, todo, audience, got>>
      /\ failed'[b] = failed[b] \cup {c}
      /\ \A a \in Callers \ {b} : failed'[a] = failed[a]
  BY DEF SendFails, TypeOK
<1>2. /\ \A a \in Callers : InFlight(a)' = IF a = b THEN InFlight(a) \ {c} ELSE InFlight(a)
      /\ c \in InFlight(b)
  BY InFlightEnds DEF SendFails
<1>3. (Numbered /\ Unpublished)'
  BY <1>1 DEF Numbered, Unpublished
<1>4. ASSUME NEW a \in Callers PROVE Books(a)'
  <2>1. CASE a = b
    <3>1. pc[b] = "sending"
      BY <1>2 DEF Books, Owed
    <3> QED
      BY <1>1, <1>2, <2>1, <3>1 DEF Books, Owed
  <2>2. CASE a # b
    BY <1>1, <1>2, <2>2 DEF Books, Owed
  <2> QED
    BY <2>1, <2>2
<1> QED
  BY <1>3, <1>4

LEMMA RemoveFailedBooks ==
    ASSUME IInv, NEW b \in Callers, RemoveFailed(b)
    PROVE  (Numbered /\ Unpublished /\ \A a \in Callers : Books(a))'
<1> USE DEF IInv
<1>1. /\ UNCHANGED <<sent, todo, audience, got, writing>>
      /\ todo[b] = {} /\ InFlight(b) = {}
      /\ pc'[b] = "idle" /\ failed'[b] = {}
      /\ \A a \in Callers \ {b} :
            pc'[a] = pc[a] /\ event'[a] = event[a] /\ failed'[a] = failed[a]
  BY DEF RemoveFailed, Return, InFlight, TypeOK
<1>2. Numbered'
  BY <1>1 DEF Numbered
<1>3. Unpublished'
  BY <1>1 DEF Unpublished
<1>4. ASSUME NEW a \in Callers PROVE Books(a)'
  <2>1. InFlight(a)' = InFlight(a)
    BY <1>1, InFlightStays
  <2> QED
    BY <1>1, <2>1 DEF Books, Owed
<1> QED
  BY <1>2, <1>3, <1>4

\* A connection joins once: who has not joined is no client and in no snapshot.
LEMMA NextJoined == IInv /\ [Next]_vars => Joined'
<1> SUFFICES ASSUME IInv, [Next]_vars PROVE Joined'
  OBVIOUS
<1> USE DEF IInv
<1>1. ASSUME NEW c \in Conns, AddClient(c) PROVE Joined'
  BY <1>1 DEF AddClient, Joined, TypeOK, callerVars
<1>2. ASSUME NEW c \in Conns, SeeDone(c) \/ EndPing(c) PROVE Joined'
  <2>1. UNCHANGED audience /\ clients' \subseteq clients /\ writing' \subseteq writing
        /\ \A d \in Conns : handler'[d] = "off" => handler[d] = "off"
    BY <1>2 DEF SeeDone, EndPing, EndWrite, RemoveClient, TypeOK, callerVars
  <2> QED
    BY <2>1 DEF Joined
<1>3. ASSUME NEW b \in Callers, Snapshot(b) PROVE Joined'
  <2>1. event[b].number \in Events
    BY <1>3, NumberIsEvent DEF Snapshot
  <2>2. UNCHANGED <<handler, clients, writing>>
        /\ \A e \in Events : audience'[e] = IF e = event[b].number THEN clients ELSE audience[e]
    BY <1>3, <2>1 DEF Snapshot, TypeOK, socketVars
  <2> QED
    BY <2>2 DEF Joined
<1>4. ASSUME UNCHANGED <<handler, audience>>, clients' \subseteq clients,
             \A c \in Conns : <<Pinger, c>> \in writing' =>
                <<Pinger, c>> \in writing \/ handler[c] # "off"
      PROVE  Joined'
  BY <1>4 DEF Joined
<1>5. ASSUME NEW c \in Conns, BeginPing(c) PROVE Joined'
  <2>1. writing' = writing \cup {<<Pinger, c>>} /\ handler[c] # "off"
    BY <1>5, Zenon DEF BeginPing, BeginWrite
  <2> QED
    BY <1>4, <1>5, <2>1 DEF BeginPing, callerVars
<1>6. ASSUME NEW c \in Conns, PeerGoes(c) \/ ReadEnds(c) PROVE Joined'
  BY <1>4, <1>6 DEF PeerGoes, ReadEnds, callerVars
<1>7. ASSUME NEW b \in Callers, StoreState(b) \/ StoreUpdate(b) PROVE Joined'
  BY <1>4, <1>7 DEF StoreState, StoreUpdate, Store, socketVars
<1>8. ASSUME NEW b \in Callers, RemoveFailed(b) PROVE Joined'
  BY <1>4, <1>8 DEF RemoveFailed, Return
<1>9. ASSUME NEW b \in Callers, NEW c \in Conns, BeginSend(b, c) PROVE Joined'
  <2>1. writing' = writing \cup {<<b, c>>}
    BY <1>9, Zenon DEF BeginSend, BeginWrite
  <2> QED
    BY <1>4, <1>9, <2>1, HubAssumption DEF BeginSend
<1>10. ASSUME NEW b \in Callers, NEW c \in Conns, EndSend(b, c) \/ SendFails(b, c) PROVE Joined'
  BY <1>4, <1>10 DEF EndSend, SendFails, EndWrite
<1>11. CASE UNCHANGED vars
  BY <1>4, <1>11 DEF vars, socketVars, callerVars
<1> QED
  BY <1>1, <1>2, <1>3, <1>5, <1>6, <1>7, <1>8, <1>9, <1>10, <1>11
  DEF Next, Connection, Sending, Callers

LEMMA NextBooks == IInv /\ [Next]_vars => (Numbered /\ Unpublished /\ \A b \in Callers : Books(b))'
<1> SUFFICES ASSUME IInv, [Next]_vars
             PROVE  (Numbered /\ Unpublished /\ \A b \in Callers : Books(b))'
  OBVIOUS
<1>1. ASSUME NEW c \in Conns, PeerGoes(c) \/ Connection(c)
      PROVE  (Numbered /\ Unpublished /\ \A b \in Callers : Books(b))'
  BY <1>1, ConnectionBooks
<1>2. ASSUME NEW b \in Callers, StoreState(b) \/ StoreUpdate(b)
      PROVE  (Numbered /\ Unpublished /\ \A a \in Callers : Books(a))'
  BY <1>2, StoreBooks DEF StoreState, StoreUpdate, Kinds
<1>3. ASSUME NEW b \in Callers, Snapshot(b) \/ RemoveFailed(b)
      PROVE  (Numbered /\ Unpublished /\ \A a \in Callers : Books(a))'
  BY <1>3, SnapshotBooks, RemoveFailedBooks
<1>4. ASSUME NEW b \in Callers, NEW c \in Conns, Sending(b, c)
      PROVE  (Numbered /\ Unpublished /\ \A a \in Callers : Books(a))'
  BY <1>4, BeginSendBooks, EndSendBooks, SendFailsBooks DEF Sending
<1>5. CASE UNCHANGED vars
  BY <1>5, ConnectionKeeps, InFlightStays DEF vars, socketVars, callerVars
<1> QED
  BY <1>1, <1>2, <1>3, <1>4, <1>5 DEF Next, Callers

LEMMA Invariance == HubSpec => []IInv
<1>1. IInv /\ [Next]_vars => IInv'
  BY NextTypeOK, NextBooks, NextJoined DEF IInv
<1> QED
  BY InitIInv, <1>1, PTL DEF HubSpec

-----------------------------------------------------------------------------
(***************************************************************************)
(* The hub implements EventFanout.                                         *)
(***************************************************************************)
Newcomers == {c \in Conns : handler[c] = "off"}

Open == {event[b].number : b \in {x \in Callers : pc[x] = "sending"}}

fanout == <<clients, Newcomers, audience, got, Open>>

LEMMA OpenStays ==
    ASSUME \A b \in Callers : /\ pc'[b] = "sending" <=> pc[b] = "sending"
                              /\ pc[b] = "sending" => event'[b] = event[b]
    PROVE  Open' = Open
BY DEF Open

LEMMA StepJoin ==
    ASSUME IInv, NEW c \in Conns, AddClient(c)
    PROVE  Fanout!Join(c)
<1>1. c \in Newcomers /\ clients' = clients \cup {c} /\ UNCHANGED <<audience, got>>
  BY DEF AddClient, Newcomers, callerVars
<1>2. Newcomers' = Newcomers \ {c}
  BY DEF IInv, TypeOK, AddClient, Newcomers
<1>3. Open' = Open
  BY OpenStays DEF AddClient, callerVars
<1> QED
  BY <1>1, <1>2, <1>3 DEF Fanout!Join, Newcomers, Open

LEMMA StepLeave ==
    ASSUME IInv, NEW c \in Conns, SeeDone(c) \/ EndPing(c)
    PROVE  Fanout!Leave(c) \/ UNCHANGED fanout
<1>1. Open' = Open /\ UNCHANGED <<audience, got>>
  BY OpenStays DEF SeeDone, EndPing, callerVars
<1>2. CASE UNCHANGED <<clients, handler>>
  BY <1>1, <1>2 DEF fanout, Newcomers
<1>3. CASE handler[c] # "off" /\ RemoveClient(c)
  <2>1. Newcomers' = Newcomers /\ clients' = clients \ {c}
    BY <1>3 DEF IInv, TypeOK, RemoveClient, Newcomers
  <2>2. CASE c \in clients
    BY <1>1, <2>1, <2>2 DEF Fanout!Leave, Newcomers, Open
  <2>3. CASE c \notin clients
    BY <1>1, <2>1, <2>3 DEF fanout
  <2> QED
    BY <2>2, <2>3
<1>4. EndPing(c) => handler[c] # "off"
  BY DEF EndPing, EndWrite, IInv, Joined
<1> QED
  BY <1>2, <1>3, <1>4 DEF SeeDone, EndPing

LEMMA StepPublish ==
    ASSUME IInv, NEW b \in Callers, Snapshot(b)
    PROVE  \E e \in Events : Fanout!Publish(e)
<1> DEFINE n == event[b].number
<1>1. /\ pc[b] = "stored" /\ pc' = [pc EXCEPT ![b] = "sending"]
      /\ UNCHANGED <<event, clients, handler, got>>
  BY DEF Snapshot, socketVars
<1>2. n \in Events /\ audience[n] = {}
  BY <1>1, NumberIsEvent DEF IInv, Unpublished
<1>3. n \notin Open
  BY <1>1 DEF Open, IInv, Numbered
<1>4. Open' = Open \cup {n}
  BY <1>1 DEF Open, IInv, TypeOK
<1>5. audience' = [audience EXCEPT ![n] = clients]
  BY DEF Snapshot
<1> QED
  BY <1>1, <1>2, <1>3, <1>4, <1>5 DEF Fanout!Publish, Newcomers, Open

LEMMA StepDeliver ==
    ASSUME IInv, NEW b \in Callers, NEW c \in Conns, EndSend(b, c)
    PROVE  \E e \in Events : Fanout!Deliver(e, c)
<1> DEFINE n == event[b].number
<1>1. c \in InFlight(b)
  BY InFlightEnds DEF EndSend
<1>2. pc[b] = "sending" /\ c \in audience[n] \ got[n]
  BY <1>1 DEF IInv, Books, Owed
<1>3. n \in Events /\ n \in Open
  BY <1>2, NumberIsEvent DEF Open
<1>4. Open' = Open /\ UNCHANGED <<clients, handler, audience>>
  BY OpenStays DEF EndSend
<1>5. got' = [got EXCEPT ![n] = @ \cup {c}]
  BY DEF EndSend
<1> QED
  BY <1>2, <1>3, <1>4, <1>5 DEF Fanout!Deliver, Newcomers, Open

LEMMA StepFinish ==
    ASSUME IInv, NEW b \in Callers, RemoveFailed(b)
    PROVE  \E e \in Events : Fanout!Finish(e)
<1> DEFINE n == event[b].number
<1>1. /\ pc[b] = "sending" /\ todo[b] = {} /\ InFlight(b) = {}
      /\ clients' = clients \ failed[b]
      /\ UNCHANGED <<handler, audience, got>>
  BY DEF RemoveFailed, Return, InFlight
<1>2. audience[n] \ got[n] = failed[b]
  BY <1>1 DEF IInv, Books, Owed
<1>3. n \in Events /\ n \in Open
  BY <1>1, NumberIsEvent DEF Open
<1>4. Open' = Open \ {n}
  <2>1. /\ pc'[b] = "idle"
        /\ \A a \in Callers \ {b} : pc'[a] = pc[a] /\ event'[a] = event[a]
    BY DEF RemoveFailed, Return, IInv, TypeOK
  <2>2. \A a \in Callers \ {b} : pc[a] = "sending" => event[a].number # n
    BY <1>1 DEF IInv, Numbered
  <2> QED
    BY <1>1, <2>1, <2>2 DEF Open
<1> QED
  BY <1>1, <1>2, <1>3, <1>4 DEF Fanout!Finish, Newcomers, Open

LEMMA StepStutter ==
    ASSUME IInv
    PROVE  /\ \A c \in Conns : PeerGoes(c) \/ ReadEnds(c) \/ BeginPing(c) => UNCHANGED fanout
           /\ \A b \in Callers : StoreState(b) \/ StoreUpdate(b) => UNCHANGED fanout
           /\ \A b \in Callers, c \in Conns : BeginSend(b, c) \/ SendFails(b, c) => UNCHANGED fanout
           /\ UNCHANGED vars => UNCHANGED fanout
<1>1. ASSUME UNCHANGED <<clients, handler, audience, got, pc, event>> PROVE UNCHANGED fanout
  BY <1>1, OpenStays DEF fanout, Newcomers
<1>2. ASSUME NEW c \in Conns, PeerGoes(c) \/ ReadEnds(c) \/ BeginPing(c) PROVE UNCHANGED fanout
  BY <1>1, <1>2 DEF PeerGoes, ReadEnds, BeginPing, callerVars
<1>3. ASSUME NEW b \in Callers, NEW k \in Kinds, Store(b, k) PROVE UNCHANGED fanout
  <2>1. \A a \in Callers : /\ pc'[a] = "sending" <=> pc[a] = "sending"
                           /\ pc[a] = "sending" => event'[a] = event[a]
    BY <1>3 DEF Store, IInv, TypeOK
  <2> QED
    BY <1>3, <2>1, OpenStays DEF Store, socketVars, fanout, Newcomers
<1>4. ASSUME NEW b \in Callers, NEW c \in Conns, BeginSend(b, c) \/ SendFails(b, c)
      PROVE  UNCHANGED fanout
  BY <1>1, <1>4 DEF BeginSend, SendFails
<1>5. UNCHANGED vars => UNCHANGED fanout
  BY <1>1 DEF vars, socketVars, callerVars
<1> QED
  BY <1>2, <1>3, <1>4, <1>5 DEF StoreState, StoreUpdate, Kinds

\* The hub implements EventFanout, for any connections, callers and number of
\* broadcasts: whoever joins, leaves, breaks or is dropped meanwhile, a client of
\* the snapshot was written to or is no client when Broadcast returns.
THEOREM FanoutImplemented == HubSpec => FanoutSpec
<1>1. Init => Fanout!Init
  BY DEF Init, Fanout!Init, Fanout!Events, Events
<1>2. IInv /\ [Next]_vars => [Fanout!Next]_fanout
  <2> SUFFICES ASSUME IInv, [Next]_vars PROVE Fanout!Next \/ UNCHANGED fanout
    OBVIOUS
  <2>1. ASSUME NEW c \in Conns, PeerGoes(c) \/ Connection(c)
        PROVE  Fanout!Next \/ UNCHANGED fanout
    BY <2>1, StepJoin, StepLeave, StepStutter DEF Connection, Fanout!Next
  <2>2. ASSUME NEW b \in Callers, StoreState(b) \/ StoreUpdate(b)
        PROVE  Fanout!Next \/ UNCHANGED fanout
    BY <2>2, StepStutter
  <2>3. ASSUME NEW b \in Callers, Snapshot(b) \/ RemoveFailed(b)
        PROVE  Fanout!Next \/ UNCHANGED fanout
    BY <2>3, StepPublish, StepFinish DEF Fanout!Next, Fanout!Events, Events
  <2>4. ASSUME NEW b \in Callers, NEW c \in Conns, Sending(b, c)
        PROVE  Fanout!Next \/ UNCHANGED fanout
    BY <2>4, StepDeliver, StepStutter DEF Sending, Fanout!Next, Fanout!Events, Events
  <2> QED
    BY <2>1, <2>2, <2>3, <2>4, StepStutter DEF Next, Callers
<1> QED
  BY Invariance, <1>1, <1>2, PTL DEF HubSpec, FanoutSpec, Fanout!Spec, fanout, Newcomers, Open

-----------------------------------------------------------------------------
(***************************************************************************)
(* The last state a client was sent.                                       *)
(***************************************************************************)
Last == latest["state"]

\* Whoever broadcasts a state holds the mutex, and broadcasts the last one.
Held ==
    /\ Last \in 0..sent
    /\ \A b \in Callers : pc[b] # "idle" =>
        /\ event[b].kind = "state" => mu = b
        /\ event[b].kind = "update" => event[b].number # Last
    /\ mu # None =>
        pc[mu] # "idle" /\ event[mu].kind = "state" /\ event[mu].number = Last

\* Those the last state was written to have it, and with the mutex free these
\* are all the clients it was for.
Given ==
    Last # 0 =>
        /\ \A c \in got[Last] : shown[c]["state"] = Last
        /\ mu = None => clients \cap audience[Last] \subseteq got[Last]

SInv == IInv /\ Held /\ Given

LEMMA InitSInv == Init => SInv
<1> SUFFICES ASSUME Init PROVE SInv
  OBVIOUS
<1>1. Last = 0 /\ Held /\ Given
  BY DEF Init, Last, Held, Given, Kinds
<1> QED
  BY <1>1, InitIInv DEF SInv

LEMMA LastIsEvent == SInv /\ Last # 0 => Last \in Events /\ Last <= sent
BY HubAssumption DEF SInv, IInv, TypeOK, Held, Events

\* Connections come and go: a newcomer is not in the audience of the last state.
LEMMA ConnectionShown ==
    ASSUME SInv, NEW c \in Conns, PeerGoes(c) \/ Connection(c)
    PROVE  Held' /\ Given'
<1>1. UNCHANGED callerVars
  BY DEF PeerGoes, Connection, AddClient, ReadEnds, SeeDone, BeginPing, EndPing
<1>2. Held'
  BY <1>1 DEF SInv, Held, Last, callerVars
<1>3. clients' \subseteq clients \/ AddClient(c)
  BY DEF PeerGoes, Connection, ReadEnds, SeeDone, BeginPing, EndPing, RemoveClient
<1>4. ASSUME Last # 0, mu = None PROVE clients' \cap audience[Last] \subseteq got[Last]
  <2>1. clients \cap audience[Last] \subseteq got[Last]
    BY <1>4 DEF SInv, Given
  <2>2. CASE clients' \subseteq clients
    BY <2>1, <2>2
  <2>3. CASE AddClient(c)
    <3>1. clients' = clients \cup {c} /\ c \notin audience[Last]
      BY <1>4, <2>3, LastIsEvent DEF AddClient, SInv, IInv, Joined
    <3> QED
      BY <2>1, <3>1
  <2> QED
    BY <1>3, <2>2, <2>3
<1>5. Given'
  BY <1>1, <1>4 DEF SInv, Given, Last, callerVars
<1> QED
  BY <1>2, <1>5

LEMMA StoreShown ==
    ASSUME SInv, NEW b \in Callers, StoreState(b) \/ StoreUpdate(b)
    PROVE  Held' /\ Given'
<1> USE DEF SInv, IInv
<1>1. PICK k \in Kinds : /\ Store(b, k) /\ mu = None
                         /\ mu' = IF k = "state" THEN b ELSE None
  BY DEF StoreState, StoreUpdate, Kinds
<1>2. /\ sent \in Nat /\ sent' = sent + 1 /\ sent' \in Events
      /\ pc[b] = "idle" /\ pc'[b] # "idle"
      /\ event'[b].number = sent' /\ event'[b].kind = k
      /\ \A a \in Callers \ {b} : pc'[a] = pc[a] /\ event'[a] = event[a]
      /\ UNCHANGED <<clients, audience, got, shown>>
  BY <1>1, HubAssumption DEF Store, socketVars, TypeOK, Events
<1>3. Last' = IF k = "state" THEN sent' ELSE Last
  BY <1>1 DEF Store, Last, TypeOK, Kinds
<1>4. \A a \in Callers \ {b} : pc[a] # "idle" => event[a].number \in 1..sent
  BY DEF Numbered
<1>5. b # None
  BY HubAssumption
<1>6. Held'
  <2>1. \A a \in Callers \ {b} : pc[a] # "idle" => event[a].kind # "state"
    BY <1>1, HubAssumption DEF Held
  <2>2. Last \in 0..sent /\ sent' \notin 0..sent
    BY <1>2 DEF Held
  <2>3. ASSUME NEW a \in Callers, pc'[a] # "idle"
        PROVE  /\ event'[a].kind = "state" => mu' = a
               /\ event'[a].kind = "update" => event'[a].number # Last'
    <3>1. CASE a = b
      BY <1>1, <1>2, <1>3, <2>2, <3>1 DEF Kinds
    <3>2. CASE a # b
      BY <1>2, <1>3, <1>4, <2>1, <2>2, <2>3, <3>2 DEF Held
    <3> QED
      BY <3>1, <3>2
  <2>4. Last' \in 0..sent'
    BY <1>2, <1>3, <2>2
  <2>5. mu' # None => /\ pc'[mu'] # "idle" /\ event'[mu'].kind = "state"
                      /\ event'[mu'].number = Last'
    BY <1>1, <1>2, <1>3
  <2> QED
    BY <2>3, <2>4, <2>5 DEF Held
<1>7. Given'
  <2>1. CASE k = "state"
    <3>1. got[sent'] = {}
      BY <1>2 DEF Unpublished
    <3> QED
      BY <1>1, <1>2, <1>3, <1>5, <2>1, <3>1 DEF Given
  <2>2. CASE k # "state"
    BY <1>1, <1>2, <1>3, <2>2 DEF Given
  <2> QED
    BY <2>1, <2>2
<1> QED
  BY <1>6, <1>7

LEMMA SnapshotShown ==
    ASSUME SInv, NEW b \in Callers, Snapshot(b)
    PROVE  Held' /\ Given'
<1> USE DEF SInv, IInv
<1> DEFINE n == event[b].number
<1>1. /\ pc[b] = "stored" /\ pc' = [pc EXCEPT ![b] = "sending"]
      /\ UNCHANGED <<mu, sent, latest, event, got, shown, clients>>
  BY DEF Snapshot, socketVars
<1>2. \A a \in Callers : pc'[a] # "idle" <=> pc[a] # "idle"
  BY <1>1 DEF TypeOK
<1>3. Held'
  BY <1>1, <1>2, HubAssumption DEF Held, Last, TypeOK
<1>4. ASSUME Last # 0, mu = None PROVE audience'[Last] = audience[Last]
  <2>1. event[b].kind = "update"
    BY <1>1, <1>4, HubAssumption DEF Held, TypeOK, Kinds
  <2>2. n # Last
    BY <1>1, <2>1 DEF Held
  <2> QED
    BY <1>4, <2>2, LastIsEvent DEF Snapshot, TypeOK
<1>5. Given'
  BY <1>1, <1>4 DEF Given, Last
<1> QED
  BY <1>3, <1>5

LEMMA SendingShown ==
    ASSUME SInv, NEW b \in Callers, NEW c \in Conns, Sending(b, c)
    PROVE  Held' /\ Given'
<1> USE DEF SInv, IInv
<1> DEFINE n == event[b].number
<1>1. UNCHANGED <<clients, mu, sent, latest, pc, event, audience>>
  BY DEF Sending, BeginSend, EndSend, SendFails
<1>2. Held'
  BY <1>1 DEF Held, Last
<1>3. CASE UNCHANGED <<got, shown>>
  BY <1>1, <1>2, <1>3 DEF Given, Last
<1>4. CASE EndSend(b, c)
  <2>1. pc[b] # "idle" /\ n \in Events /\ event[b].kind \in Kinds
    <3>1. c \in InFlight(b)
      BY <1>4, InFlightEnds DEF EndSend
    <3>2. pc[b] = "sending"
      BY <3>1 DEF Books, Owed
    <3> QED
      BY <3>2, NumberIsEvent DEF TypeOK
  <2>2. /\ \A e \in Events : got'[e] = IF e = n THEN got[e] \cup {c} ELSE got[e]
        /\ \A d \in Conns : shown'[d]["state"] =
              IF d = c /\ event[b].kind = "state" THEN n ELSE shown[d]["state"]
        /\ \A e \in Events : got[e] \subseteq Conns
    BY <1>4, <2>1 DEF EndSend, TypeOK, Kinds
  <2>3. CASE event[b].kind = "state"
    <3>1. mu = b /\ n = Last
      BY <2>1, <2>3, HubAssumption DEF Held
    <3>2. mu' # None /\ Last' = Last
      BY <1>1, <3>1, HubAssumption DEF Last
    <3>3. ASSUME Last # 0, NEW d \in got'[Last] PROVE shown'[d]["state"] = Last
      <4>1. d \in got[Last] \cup {c} /\ d \in Conns
        BY <2>1, <2>2, <3>1, <3>3
      <4> QED
        BY <2>2, <2>3, <3>1, <3>3, <4>1 DEF Given
    <3>4. Given'
      BY <3>2, <3>3 DEF Given
    <3> QED
      BY <1>2, <3>4
  <2>4. CASE event[b].kind = "update"
    <3>1. n # Last
      BY <2>1, <2>4 DEF Held
    <3> QED
      BY <1>1, <1>2, <2>2, <2>4, <3>1, LastIsEvent DEF Given, Last
  <2> QED
    BY <2>1, <2>3, <2>4 DEF Kinds
<1> QED
  BY <1>3, <1>4 DEF Sending, BeginSend, SendFails

LEMMA RemoveFailedShown ==
    ASSUME SInv, NEW b \in Callers, RemoveFailed(b)
    PROVE  Held' /\ Given'
<1> USE DEF SInv, IInv
<1>1. /\ pc[b] = "sending" /\ todo[b] = {} /\ InFlight(b) = {}
      /\ clients' = clients \ failed[b]
      /\ mu' = (IF mu = b THEN None ELSE mu)
      /\ UNCHANGED <<sent, latest, audience, got, shown>>
  BY DEF RemoveFailed, Return, InFlight
<1>2. /\ pc'[b] = "idle"
      /\ \A a \in Callers \ {b} : pc'[a] = pc[a] /\ event'[a] = event[a]
  BY DEF RemoveFailed, Return, TypeOK
<1>3. Held'
  BY <1>1, <1>2, HubAssumption DEF Held, Last, TypeOK
<1>4. ASSUME Last # 0, mu' = None PROVE clients' \cap audience[Last] \subseteq got[Last]
  <2>1. CASE mu = None
    BY <1>1, <1>4, <2>1 DEF Given
  <2>2. CASE mu = b
    <3>1. event[b].number = Last
      BY <2>2, HubAssumption DEF Held
    <3>2. audience[Last] \ got[Last] = failed[b]
      BY <1>1, <3>1 DEF Books, Owed
    <3> QED
      BY <1>1, <3>2
  <2> QED
    BY <1>1, <1>4, <2>1, <2>2
<1>5. Given'
  BY <1>1, <1>4 DEF Given, Last
<1> QED
  BY <1>3, <1>5

LEMMA ShownInvariance == HubSpec => []SInv
<1>1. SInv /\ [Next]_vars => SInv'
  <2> SUFFICES ASSUME SInv, [Next]_vars PROVE Held' /\ Given'
    BY NextTypeOK, NextBooks, NextJoined DEF SInv, IInv
  <2>1. CASE UNCHANGED vars
    BY <2>1 DEF vars, socketVars, callerVars, SInv, Held, Given, Last
  <2>2. ASSUME NEW c \in Conns, PeerGoes(c) \/ Connection(c) PROVE Held' /\ Given'
    BY <2>2, ConnectionShown
  <2>3. ASSUME NEW b \in Callers, StoreState(b) \/ StoreUpdate(b) PROVE Held' /\ Given'
    BY <2>3, StoreShown
  <2>4. ASSUME NEW b \in Callers, Snapshot(b) \/ RemoveFailed(b) PROVE Held' /\ Given'
    BY <2>4, SnapshotShown, RemoveFailedShown
  <2>5. ASSUME NEW b \in Callers, NEW c \in Conns, Sending(b, c) PROVE Held' /\ Given'
    BY <2>5, SendingShown
  <2> QED
    BY <2>1, <2>2, <2>3, <2>4, <2>5 DEF Next, Callers
<1> QED
  BY InitSInv, <1>1, PTL DEF HubSpec

\* For any connections, callers and number of broadcasts: with the manager's
\* mutex free, the last media state a client was sent is the one that is stored,
\* if the client was there when it was published; and the variables keep their types.
THEOREM StateInTime == HubSpec => []StateShown
<1>1. SInv => StateShown
  BY DEF SInv, IInv, Given, StateShown, Last
<1> QED
  BY ShownInvariance, <1>1, PTL
=============================================================================
