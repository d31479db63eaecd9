------------------------ MODULE WeatherHandlerProofs ------------------------
(***************************************************************************)
(* Proofs about WeatherHandler, for any sets, listeners and bounds.        *)
(***************************************************************************)
EXTENDS WeatherHandler, TLAPS, SequenceTheorems

\* A listener in the middle of a handler still has the message it works on.
BusyHasMessage == \A l \in Listeners : pc[l] # "idle" => inbox[l] # <<>>

Inv == TypeOK /\ VerifiedIsWhole /\ BusyHasMessage

\* The message at the head of a nonempty channel is a message, and what is
\* left behind it a channel.
LEMMA HeadOfInbox ==
    ASSUME Inv, NEW l \in Listeners, inbox[l] # <<>>
    PROVE  /\ Head(inbox[l]).set \in Sets
           /\ Head(inbox[l]).index \in Index
           /\ Tail(inbox[l]) \in Seq(Message)
<1>1. inbox[l] \in Seq(Message)
  BY DEF Inv, TypeOK
<1>2. Head(inbox[l]) \in Message /\ Tail(inbox[l]) \in Seq(Message)
  BY <1>1, HeadTailProperties
<1> QED
  BY <1>2 DEF Message

\* A set past the checksum decodes to itself.
LEMMA DecodedIsSet ==
    ASSUME Inv, NEW l \in Listeners, pc[l] \in {"save", "broadcast", "clear"}
    PROVE  Decoded(l) \in Sets
<1>1. PICK s \in Sets : data[l] = Whole(s)
  BY DEF Inv, VerifiedIsWhole
<1>2. 1 \in 1 .. TotalChunks[s]
  BY WeatherAssumption
<1>3. Head(data[l]) = data[l][1]
  OBVIOUS
<1> QED
  BY <1>1, <1>2, <1>3 DEF Decoded, Whole

\* Sending a message leaves the messages already in a channel alone.
LEMMA NotifyPreserves ==
    ASSUME Inv, NEW type \in {"start", "chunk", "end"}, NEW s \in Sets, NEW i \in Index,
           Notify(type, s, i)
    PROVE  /\ inbox' \in [Listeners -> Seq(Message)]
           /\ faults' \in 0 .. MaxFaults
           /\ \A l \in Listeners : inbox[l] # <<>> => inbox'[l] # <<>>
           /\ UNCHANGED <<handling, listening>>
<1> DEFINE m == [type |-> type, set |-> s, index |-> i]
<1>1. m \in Message
  BY DEF Message
<1>2. \A l \in Listeners : Append(inbox[l], m) \in Seq(Message) /\ Append(inbox[l], m) # <<>>
  <2>1. ASSUME NEW l \in Listeners
        PROVE  Append(inbox[l], m) \in Seq(Message) /\ Append(inbox[l], m) # <<>>
    <3>1. inbox[l] \in Seq(Message)
      BY DEF Inv, TypeOK
    <3> QED
      BY <1>1, <3>1, AppendProperties
  <2> QED
    BY <2>1
<1>3. CASE /\ UNCHANGED faults
           /\ inbox' = [l \in Listeners |->
                          IF l \in listening THEN Append(inbox[l], m) ELSE inbox[l]]
  BY <1>2, <1>3 DEF Notify, Inv, TypeOK
<1>4. CASE Fault /\ UNCHANGED inbox
  BY <1>4, WeatherAssumption DEF Fault, Inv, TypeOK, Notify
<1> QED
  BY <1>3, <1>4 DEF Notify

\* The companion and the link never touch the handler.
LEMMA LinkPreserves ==
    ASSUME Inv,
           \/ Companion \/ CompanionAborts
           \/ \E l \in Listeners : SwapSignals(l) \/ StartNotifications(l)
    PROVE  Inv' /\ UNCHANGED handling
<1>1. ASSUME NEW s \in Sets, CompanionStart(s) PROVE Inv' /\ UNCHANGED handling
  <2>1. 0 \in Index
    BY WeatherAssumption DEF Index
  <2>2. Notify("start", s, 0)
    BY <1>1 DEF CompanionStart
  <2>3. /\ inbox' \in [Listeners -> Seq(Message)]
        /\ faults' \in 0 .. MaxFaults
        /\ \A l \in Listeners : inbox[l] # <<>> => inbox'[l] # <<>>
        /\ UNCHANGED <<handling, listening>>
    BY <2>1, <2>2, NotifyPreserves
  <2>4. sending' \in [set : Sets, next : 0 .. MaxChunks] /\ sent' \in 0 .. MaxTransfers
    BY <1>1, WeatherAssumption DEF CompanionStart, Inv, TypeOK
  <2> QED
    BY <2>3, <2>4 DEF Inv, TypeOK, handling, VerifiedIsWhole, BusyHasMessage
<1>2. CASE CompanionChunk
  <2>1. /\ sending \in [set : Sets, next : 0 .. MaxChunks]
        /\ sending.set \in Sets /\ sending.next \in 0 .. MaxChunks
        /\ sending.next < TotalChunks[sending.set]
    BY <1>2 DEF CompanionChunk, Inv, TypeOK
  <2>2. TotalChunks[sending.set] \in 1 .. MaxChunks /\ MaxChunks \in Nat
    BY <2>1, WeatherAssumption
  <2>3. sending.next \in Index /\ sending.next + 1 \in 0 .. MaxChunks
    BY <2>1, <2>2 DEF Index
  <2>4. Notify("chunk", sending.set, sending.next)
    BY <1>2 DEF CompanionChunk
  <2>5. /\ inbox' \in [Listeners -> Seq(Message)]
        /\ faults' \in 0 .. MaxFaults
        /\ \A l \in Listeners : inbox[l] # <<>> => inbox'[l] # <<>>
        /\ UNCHANGED <<handling, listening>>
    BY <2>1, <2>3, <2>4, NotifyPreserves
  <2>6. sending' \in [set : Sets, next : 0 .. MaxChunks] /\ UNCHANGED sent
    BY <1>2, <2>1, <2>3 DEF CompanionChunk
  <2> QED
    BY <2>5, <2>6 DEF Inv, TypeOK, handling, VerifiedIsWhole, BusyHasMessage
<1>3. CASE CompanionEnd
  <2>1. sending.set \in Sets /\ 0 \in Index
    BY <1>3, WeatherAssumption DEF CompanionEnd, Inv, TypeOK, Index
  <2>2. Notify("end", sending.set, 0)
    BY <1>3 DEF CompanionEnd
  <2>3. /\ inbox' \in [Listeners -> Seq(Message)]
        /\ faults' \in 0 .. MaxFaults
        /\ \A l \in Listeners : inbox[l] # <<>> => inbox'[l] # <<>>
        /\ UNCHANGED <<handling, listening>>
    BY <2>1, <2>2, NotifyPreserves
  <2>4. sending' = Absent /\ UNCHANGED sent
    BY <1>3 DEF CompanionEnd
  <2> QED
    BY <2>3, <2>4 DEF Inv, TypeOK, handling, VerifiedIsWhole, BusyHasMessage
<1>4. CASE CompanionAborts
  BY <1>4, WeatherAssumption
     DEF CompanionAborts, Fault, Inv, TypeOK, handling, VerifiedIsWhole, BusyHasMessage
<1>5. ASSUME NEW l \in Listeners, SwapSignals(l) PROVE Inv' /\ UNCHANGED handling
  <2>1. PICK i \in 1 .. Len(inbox[l]) - 1 :
           inbox' = [inbox EXCEPT ![l] =
                       [@ EXCEPT ![i] = inbox[l][i + 1], ![i + 1] = inbox[l][i]]]
    BY <1>5 DEF SwapSignals
  <2>2. inbox[l] \in Seq(Message) /\ i \in 1 .. Len(inbox[l]) /\ i + 1 \in 1 .. Len(inbox[l])
    BY <2>1 DEF Inv, TypeOK
  <2>3. inbox[l][i] \in Message /\ inbox[l][i + 1] \in Message
    BY <2>2, ElementOfSeq
  <2> DEFINE one == [inbox[l] EXCEPT ![i] = inbox[l][i + 1]]
             two == [one EXCEPT ![i + 1] = inbox[l][i]]
  <2>4. one \in Seq(Message) /\ Len(one) = Len(inbox[l])
    BY <2>2, <2>3, ExceptSeq
  <2>5. two \in Seq(Message) /\ Len(two) = Len(one)
    <3> HIDE DEF one
    <3> QED
      BY <2>2, <2>3, <2>4, ExceptSeq
  <2>6. inbox' = [inbox EXCEPT ![l] = two]
    BY <2>1
  <2>7. two # <<>>
    <3> HIDE DEF one, two
    <3> QED
      BY <2>2, <2>4, <2>5
  <2> HIDE DEF one, two
  <2>8. inbox' \in [Listeners -> Seq(Message)] /\ \A k \in Listeners : inbox[k] # <<>> => inbox'[k] # <<>>
    BY <2>5, <2>6, <2>7 DEF Inv, TypeOK
  <2>9. faults' \in 0 .. MaxFaults
    <3>1. faults < MaxFaults /\ faults' = faults + 1
      BY <1>5, Zenon DEF SwapSignals, Fault
    <3>2. faults \in 0 .. MaxFaults /\ MaxFaults \in Nat
      BY WeatherAssumption DEF Inv, TypeOK
    <3> QED
      BY <3>1, <3>2
  <2>10. UNCHANGED <<handling, link>>
    BY <1>5, Zenon DEF SwapSignals
  <2> QED
    BY <2>8, <2>9, <2>10 DEF Inv, TypeOK, handling, link, VerifiedIsWhole, BusyHasMessage
<1>6. ASSUME NEW l \in Listeners, StartNotifications(l) PROVE Inv' /\ UNCHANGED handling
  BY <1>6 DEF StartNotifications, Inv, TypeOK, handling, VerifiedIsWhole, BusyHasMessage
<1> QED
  BY <1>1, <1>2, <1>3, <1>4, <1>5, <1>6 DEF Companion

\* A handler step that ends the handler, or goes on to the next statement.
LEMMA ControlPreserves ==
    ASSUME Inv, NEW l \in Listeners, inbox[l] # <<>>,
           Return(l) \/ \E step \in Steps : Goto(l, step) \/ Enter(l, step)
    PROVE  /\ pc' \in [Listeners -> Steps]
           /\ crossed' \subseteq Listeners
           /\ inbox' \in [Listeners -> Seq(Message)]
           /\ BusyHasMessage'
           /\ \A k \in Listeners \ {l} : pc'[k] = pc[k]
<1>1. CASE Return(l)
  BY <1>1, HeadOfInbox DEF Return, Inv, TypeOK, BusyHasMessage, Steps
<1>2. ASSUME NEW step \in Steps, Goto(l, step) \/ Enter(l, step)
      PROVE  /\ pc' \in [Listeners -> Steps]
             /\ crossed' \subseteq Listeners
             /\ inbox' \in [Listeners -> Seq(Message)]
             /\ BusyHasMessage'
             /\ \A k \in Listeners \ {l} : pc'[k] = pc[k]
  BY <1>2 DEF Goto, Enter, Others, Inv, TypeOK, BusyHasMessage
<1> QED
  BY <1>1, <1>2

\* Storing a chunk keeps the transfer a transfer.
LEMMA StoredChunkIsTransfer ==
    ASSUME Inv, NEW l \in Listeners, inbox[l] # <<>>, StoreChunk(l), ~Panic
    PROVE  transfer' \in Transfer
<1> DEFINE c == [transfer.chunks EXCEPT ![Head(inbox[l]).index] = Head(inbox[l]).set]
<1>1. transfer \in Transfer
  BY DEF StoreChunk, Inv, TypeOK
<1>2. transfer.chunks \in [Index -> Sets \cup {Absent}] /\ transfer.set \in Sets
  BY <1>1 DEF Transfer
<1>3. c \in [Index -> Sets \cup {Absent}]
  BY <1>2, HeadOfInbox
<1>4. transfer' = [transfer EXCEPT !.chunks = c]
  BY DEF StoreChunk
<1> HIDE DEF c
<1> QED
  BY <1>1, <1>3, <1>4 DEF Transfer

\* The handler keeps the invariant, statement by statement.
LEMMA HandlePreserves ==
    ASSUME Inv, NEW l \in Listeners, Handle(l)
    PROVE  Inv'
<1>1. inbox[l] # <<>>
  BY DEF Handle, HandleWeatherStart, HandleWeatherChunk, HandleWeatherEnd, StoreChunk, LogChunk,
         CountChunks, AssembleChunk, Verify, SaveWeatherData, BroadcastWeatherUpdate, ClearTransfer,
         Handles, Inv, BusyHasMessage
<1>2. Head(inbox[l]).set \in Sets /\ Head(inbox[l]).index \in Index
  BY <1>1, HeadOfInbox
<1> DEFINE Control == /\ pc' \in [Listeners -> Steps]
                      /\ crossed' \subseteq Listeners
                      /\ inbox' \in [Listeners -> Seq(Message)]
                      /\ BusyHasMessage'
                      /\ \A k \in Listeners \ {l} : pc'[k] = pc[k]
<1>18. <<>> \in Seq(Sets)
  BY EmptySeq
<1>3. ASSUME Return(l) PROVE Control
  BY <1>1, <1>3, ControlPreserves
<1>4. ASSUME NEW step \in Steps, Goto(l, step) \/ Enter(l, step) PROVE Control /\ pc'[l] = step
  BY <1>1, <1>4, ControlPreserves DEF Goto, Enter, Inv, TypeOK
<1>5. ASSUME Return(l) PROVE pc'[l] = "idle"
  BY <1>5 DEF Return, Inv, TypeOK
<1>6. CASE Panic
  BY <1>6 DEF Panic, Inv, TypeOK, link, VerifiedIsWhole, BusyHasMessage
<1>7. CASE HandleWeatherStart(l)
  <2>1. transfer' \in Transfer
    BY <1>2, <1>7 DEF HandleWeatherStart, Transfer, NoChunks
  <2>2. Control /\ pc'[l] = "idle"
    BY <1>3, <1>5, <1>7 DEF HandleWeatherStart
  <2> QED
    BY <1>7, <2>1, <2>2 DEF HandleWeatherStart, Inv, TypeOK, link, VerifiedIsWhole
<1>8. CASE HandleWeatherChunk(l)
  <2>1. Control /\ pc'[l] \in {"idle", "store"}
    BY <1>3, <1>4, <1>5, <1>8 DEF HandleWeatherChunk, Steps
  <2> QED
    BY <1>8, <2>1 DEF HandleWeatherChunk, Inv, TypeOK, link, VerifiedIsWhole
<1>9. CASE StoreChunk(l) /\ ~Panic
  <2>2. transfer' \in Transfer
    BY <1>1, <1>9, StoredChunkIsTransfer
  <2>3. Control /\ pc'[l] = "log"
    BY <1>4, <1>9 DEF StoreChunk, Steps
  <2> QED
    BY <1>9, <2>2, <2>3 DEF StoreChunk, Inv, TypeOK, link, VerifiedIsWhole
<1>10. CASE LogChunk(l) /\ ~Panic
  <2>1. Control /\ pc'[l] = "idle"
    BY <1>3, <1>5, <1>10 DEF LogChunk
  <2> QED
    BY <1>10, <2>1 DEF LogChunk, Inv, TypeOK, link, VerifiedIsWhole
<1>11. CASE HandleWeatherEnd(l)
  <2>1. Control /\ pc'[l] \in {"idle", "count"}
    BY <1>3, <1>4, <1>5, <1>11 DEF HandleWeatherEnd, Steps
  <2> QED
    BY <1>11, <2>1 DEF HandleWeatherEnd, Inv, TypeOK, link, VerifiedIsWhole
<1>12. CASE CountChunks(l) /\ ~Panic
  <2>1. Control /\ pc'[l] \in {"idle", "assemble"}
    BY <1>3, <1>4, <1>5, <1>12 DEF CountChunks, Drop, Steps
  <2>2. data' \in [Listeners -> Seq(Sets)] /\ \A k \in Listeners \ {l} : data'[k] = data[k]
    BY <1>12, <1>18 DEF CountChunks, Inv, TypeOK
  <2>3. transfer' \in Transfer \cup {Absent}
    BY <1>12 DEF CountChunks, Drop, Inv, TypeOK
  <2>7. UNCHANGED <<file, feed, alive, unsaved, link, faults>>
    BY <1>12 DEF CountChunks
  <2>8. TypeOK'
    BY <2>1, <2>2, <2>3, <2>7 DEF Inv, TypeOK, link
  <2>9. VerifiedIsWhole'
    BY <2>1, <2>2, <2>3 DEF Inv, VerifiedIsWhole
  <2> QED
    BY <2>1, <2>8, <2>9 DEF Inv
<1>13. CASE AssembleChunk(l) /\ ~Panic
  <2>1. Control /\ pc'[l] \in {"idle", "assemble", "verify"}
    BY <1>3, <1>4, <1>5, <1>13 DEF AssembleChunk, Drop, Steps
  <2>2. transfer \in Transfer /\ data[l] \in Seq(Sets)
    BY <1>13 DEF AssembleChunk, Inv, TypeOK
  <2>3. TotalChunks[transfer.set] \in 1 .. MaxChunks /\ MaxChunks \in Nat
    BY <2>2, WeatherAssumption DEF Transfer
  <2>4. ASSUME Len(data[l]) < TotalChunks[transfer.set], transfer.chunks[Len(data[l])] # Absent
        PROVE  Append(data[l], transfer.chunks[Len(data[l])]) \in Seq(Sets)
    <3>1. Len(data[l]) \in Index
      BY <2>2, <2>3, <2>4 DEF Index
    <3>2. transfer.chunks[Len(data[l])] \in Sets
      BY <2>2, <2>4, <3>1 DEF Transfer
    <3> QED
      BY <2>2, <3>2
  <2>5. data' \in [Listeners -> Seq(Sets)] /\ \A k \in Listeners \ {l} : data'[k] = data[k]
    BY <1>13, <2>4 DEF AssembleChunk, Inv, TypeOK
  <2>6. transfer' \in Transfer \cup {Absent}
    BY <1>13, <2>2 DEF AssembleChunk, Drop
  <2>7. UNCHANGED <<file, feed, alive, unsaved, link, faults>>
    BY <1>13 DEF AssembleChunk
  <2>8. TypeOK'
    BY <2>1, <2>5, <2>6, <2>7 DEF Inv, TypeOK, link
  <2>9. VerifiedIsWhole'
    BY <2>1, <2>5, <2>6 DEF Inv, VerifiedIsWhole
  <2> QED
    BY <2>1, <2>8, <2>9 DEF Inv
<1>14. CASE Verify(l) /\ ~Panic
  <2>1. Control
    BY <1>3, <1>4, <1>14 DEF Verify, Drop, Steps
  <2>2. pc'[l] = "idle" \/ (pc'[l] = "save" /\ data[l] = Whole(transfer.set) /\ transfer.set \in Sets)
    BY <1>4, <1>5, <1>14 DEF Verify, Drop, Steps, Inv, TypeOK, Transfer
  <2>3. faults' \in 0 .. MaxFaults /\ transfer' \in Transfer \cup {Absent}
    BY <1>14, WeatherAssumption DEF Verify, Drop, Fault, Inv, TypeOK
  <2> QED
    BY <1>14, <2>1, <2>2, <2>3 DEF Verify, Inv, TypeOK, link, VerifiedIsWhole
<1>15. CASE SaveWeatherData(l)
  <2>1. Control /\ pc[l] = "save" /\ pc'[l] = "broadcast"
    BY <1>4, <1>15 DEF SaveWeatherData, Steps
  <2>2. Decoded(l) \in Sets
    BY <2>1, DecodedIsSet
  <2>3. faults' \in 0 .. MaxFaults
    BY <1>15, WeatherAssumption DEF SaveWeatherData, Fault, Inv, TypeOK
  <2>4. file' \in [FileModes -> Sets \cup {Absent, Torn}] /\ unsaved' \subseteq FileModes
    BY <1>15, <2>2 DEF SaveWeatherData, Inv, TypeOK
  <2> QED
    BY <1>15, <2>1, <2>3, <2>4 DEF SaveWeatherData, Inv, TypeOK, link, VerifiedIsWhole
<1>16. CASE BroadcastWeatherUpdate(l)
  <2>1. Control /\ pc[l] = "broadcast" /\ pc'[l] = "clear"
    BY <1>4, <1>16 DEF BroadcastWeatherUpdate, Steps
  <2>2. feed' \in Sets
    BY <1>16, <2>1, DecodedIsSet DEF BroadcastWeatherUpdate
  <2> QED
    BY <1>16, <2>1, <2>2 DEF BroadcastWeatherUpdate, Inv, TypeOK, link, VerifiedIsWhole
<1>17. CASE ClearTransfer(l) /\ ~Panic
  <2>1. Control /\ pc'[l] = "idle"
    BY <1>3, <1>5, <1>17 DEF ClearTransfer, Drop
  <2>2. data' \in [Listeners -> Seq(Sets)] /\ \A k \in Listeners \ {l} : data'[k] = data[k]
    BY <1>17, <1>18 DEF ClearTransfer, Inv, TypeOK
  <2> QED
    BY <1>17, <2>1, <2>2 DEF ClearTransfer, Drop, Inv, TypeOK, link, VerifiedIsWhole
<1> QED
  BY <1>6, <1>7, <1>8, <1>9, <1>10, <1>11, <1>12, <1>13, <1>14, <1>15, <1>16, <1>17 DEF Handle

\* The invariant is inductive.
LEMMA InvHolds == Spec => []Inv
<1>1. Init => Inv
  <2>1. (CHOOSE l \in Listeners : TRUE) \in Listeners
    BY WeatherAssumption
  <2> QED
    BY <2>1, WeatherAssumption
       DEF Init, Inv, TypeOK, VerifiedIsWhole, BusyHasMessage, Steps, FileModes
<1>2. Inv /\ [Next]_vars => Inv'
  <2>1. Inv /\ UNCHANGED vars => Inv'
    BY DEF vars, link, Inv, TypeOK, VerifiedIsWhole, BusyHasMessage
  <2> QED
    BY <2>1, LinkPreserves, HandlePreserves DEF Next
<1> QED
  BY <1>1, <1>2, PTL DEF Spec

\* No execution leaves the types: what listeners that share one unlocked
\* transfer assemble and decode is always made of sets.
THEOREM TypeCorrect == Spec => []TypeOK
<1>1. Inv => TypeOK
  BY DEF Inv
<1> QED
  BY <1>1, InvHolds, PTL

\* However many listeners interleave, whatever passes the checksum, and is
\* then written and announced, is one whole set.
THEOREM VerifiedWhole == Spec => []VerifiedIsWhole
<1>1. Inv => VerifiedIsWhole
  BY DEF Inv
<1> QED
  BY <1>1, InvHolds, PTL

-----------------------------------------------------------------------------
(***************************************************************************)
(* Handler calls that overlap no other.                                    *)
(***************************************************************************)
\* Of two listeners in the middle of a handler, both are crossed.
BusyTogether ==
    \A k, l \in Listeners : k # l /\ pc[k] # "idle" /\ pc[l] # "idle" => l \in crossed

\* A call that is not crossed has a transfer under it.
BusyHasTransfer == \A l \in Listeners : pc[l] # "idle" => l \in crossed \/ transfer # Absent

\* What such a call is about to announce is in the file of its mode, unless the
\* last write of it failed.
SavedFirst ==
    \A l \in Listeners :
        pc[l] = "broadcast" /\ l \notin crossed /\ Mode[Decoded(l)] \in FileModes \ unsaved
            => file[Mode[Decoded(l)]] = Decoded(l)

LoneInv == BusyTogether /\ BusyHasTransfer /\ SavedFirst /\ PanicsOnlyCrossed

\* The link touches nothing of it.
LEMMA LinkKeepsLone ==
    ASSUME LoneInv, UNCHANGED handling
    PROVE  LoneInv'
BY DEF LoneInv, BusyTogether, BusyHasTransfer, SavedFirst, PanicsOnlyCrossed, Decoded, handling

\* A step is a panic, enters a handler, goes on in one, or returns.
LEMMA StepOfHandler ==
    ASSUME Inv, NEW l \in Listeners, Handle(l)
    PROVE  \/ Panic /\ pc[l] # "idle" /\ (transfer = Absent \/ Races(l))
           \/ ~Panic /\ HandleWeatherStart(l)
           \/ ~Panic /\ (HandleWeatherChunk(l) \/ HandleWeatherEnd(l))
           \/ ~Panic /\ pc[l] # "idle"
                /\ \/ StoreChunk(l) \/ LogChunk(l) \/ CountChunks(l) \/ AssembleChunk(l)
                   \/ Verify(l) \/ SaveWeatherData(l) \/ BroadcastWeatherUpdate(l)
                   \/ ClearTransfer(l)
<1>1. CASE Panic
  BY <1>1 DEF Handle, Panic, HandleWeatherStart, HandleWeatherChunk, HandleWeatherEnd, StoreChunk,
              LogChunk, CountChunks, AssembleChunk, Verify, SaveWeatherData,
              BroadcastWeatherUpdate, ClearTransfer
<1>2. CASE ~Panic
  BY <1>2 DEF Handle, StoreChunk, LogChunk, CountChunks, AssembleChunk, Verify,
              SaveWeatherData, BroadcastWeatherUpdate, ClearTransfer
<1> QED
  BY <1>1, <1>2

\* How a step of a listener moves it: `crossed` grows with the calls that
\* overlap and loses a call that ends.
LEMMA Moves ==
    ASSUME Inv, NEW l \in Listeners, Handle(l), ~Panic
    PROVE  \/ Return(l)
           \/ pc[l] = "idle" /\ transfer # Absent /\ Enter(l, pc'[l])
           \/ pc[l] # "idle" /\ Goto(l, pc'[l])
<1> USE DEF Inv, TypeOK
<1>1. \A step : Goto(l, step) => Goto(l, pc'[l])
  BY DEF Goto
<1>2. \A step : Enter(l, step) => Enter(l, pc'[l])
  BY DEF Enter
<1>3. CASE HandleWeatherStart(l)
  BY <1>3 DEF HandleWeatherStart
<1>4. CASE HandleWeatherChunk(l) \/ HandleWeatherEnd(l)
  BY <1>2, <1>4 DEF HandleWeatherChunk, HandleWeatherEnd, Handles
<1>5. CASE StoreChunk(l) \/ LogChunk(l) \/ SaveWeatherData(l) \/ BroadcastWeatherUpdate(l)
  BY <1>1, <1>5 DEF StoreChunk, LogChunk, SaveWeatherData, BroadcastWeatherUpdate
<1>6. CASE CountChunks(l) \/ AssembleChunk(l) \/ Verify(l) \/ ClearTransfer(l)
  BY <1>1, <1>6 DEF CountChunks, AssembleChunk, Verify, ClearTransfer, Drop
<1> QED
  BY <1>3, <1>4, <1>5, <1>6 DEF Handle

\* BusyTogether: entering crosses everyone who is busy, and nobody leaves
\* `crossed` in the middle of a call.
LEMMA TogetherStep ==
    ASSUME Inv, BusyTogether, NEW l \in Listeners, Handle(l)
    PROVE  BusyTogether'
<1> USE DEF Inv, TypeOK
<1>1. CASE Panic
  BY <1>1 DEF Panic, BusyTogether
<1>2. CASE Return(l)
  BY <1>2 DEF Return, BusyTogether
<1>3. CASE Enter(l, pc'[l])
  <2>1. \A k \in Listeners \ {l} : pc'[k] = pc[k] /\ (k \in crossed => k \in crossed')
    BY <1>3 DEF Enter
  <2>2. \A k \in Listeners \ {l} : pc[k] # "idle" => k \in crossed' /\ l \in crossed'
    BY <1>3 DEF Enter, Others
  <2> QED
    BY <2>1, <2>2 DEF BusyTogether
<1>4. CASE pc[l] # "idle" /\ Goto(l, pc'[l])
  BY <1>4 DEF Goto, BusyTogether
<1> QED
  BY <1>1, <1>2, <1>3, <1>4, Moves

\* Nobody else is in the middle of a call that is not crossed, so nobody else
\* takes its transfer away.
LEMMA TransferStep ==
    ASSUME Inv, BusyTogether, BusyHasTransfer, NEW l \in Listeners, Handle(l)
    PROVE  BusyHasTransfer'
<1> USE DEF Inv, TypeOK
<1>1. CASE Panic
  BY <1>1 DEF Panic, BusyHasTransfer
<1>2. CASE ~Panic
  <2>0. \A k \in Listeners \ {l} : pc'[k] = pc[k] /\ (k \in crossed => k \in crossed')
    BY <1>2, Moves DEF Return, Enter, Goto
  <2>1. \/ transfer' # Absent
        \/ transfer' = transfer
        \/ Return(l) /\ pc[l] # "idle"
    <3>1. CASE HandleWeatherStart(l)
      <4>1. inbox[l] # <<>>
        BY <3>1 DEF HandleWeatherStart, Handles
      <4>2. transfer' \in Transfer
        BY <3>1, <4>1, HeadOfInbox DEF HandleWeatherStart, Transfer, NoChunks
      <4> QED
        BY <4>2, WeatherAssumption
    <3>2. CASE StoreChunk(l)
      <4>1. inbox[l] # <<>>
        BY <3>2 DEF StoreChunk, BusyHasMessage
      <4>2. transfer' \in Transfer
        BY <1>2, <3>2, <4>1, StoredChunkIsTransfer
      <4> QED
        BY <4>2, WeatherAssumption
    <3>3. CASE \/ HandleWeatherChunk(l) \/ HandleWeatherEnd(l) \/ LogChunk(l)
               \/ SaveWeatherData(l) \/ BroadcastWeatherUpdate(l)
      BY <1>2, <3>3 DEF HandleWeatherChunk, HandleWeatherEnd, LogChunk, SaveWeatherData,
                        BroadcastWeatherUpdate
    <3>4. CASE CountChunks(l) \/ AssembleChunk(l) \/ Verify(l) \/ ClearTransfer(l)
      BY <1>2, <3>4 DEF CountChunks, AssembleChunk, Verify, ClearTransfer, Drop
    <3> QED
      BY <3>1, <3>2, <3>3, <3>4 DEF Handle
  <2>2. CASE transfer' # Absent
    BY <2>2 DEF BusyHasTransfer
  <2>3. CASE transfer' = transfer
    BY <1>2, <2>0, <2>3, Moves DEF BusyHasTransfer, Return, Enter, Goto
  <2>4. CASE Return(l) /\ pc[l] # "idle"
    <3>1. pc'[l] = "idle"
      BY <2>4 DEF Return
    <3>2. \A k \in Listeners \ {l} : pc[k] # "idle" => k \in crossed
      BY <2>4 DEF BusyTogether
    <3> QED
      BY <2>0, <3>1, <3>2 DEF BusyHasTransfer
  <2> QED
    BY <2>1, <2>2, <2>3, <2>4
<1> QED
  BY <1>1, <1>2

\* Only saving makes a listener ready to announce, and only another call in the
\* middle of its own could write the file again.
LEMMA SavedFirstStep ==
    ASSUME Inv, BusyTogether, SavedFirst, NEW l \in Listeners, Handle(l)
    PROVE  SavedFirst'
<1> USE DEF Inv, TypeOK
<1>1. CASE Panic
  BY <1>1 DEF Panic, SavedFirst, Decoded
<1>2. CASE ~Panic
  <2>0. \A k \in Listeners \ {l} : pc'[k] = pc[k] /\ (k \in crossed => k \in crossed')
    BY <1>2, Moves DEF Return, Enter, Goto
  <2>1. CASE SaveWeatherData(l)
    <3>1. pc[l] = "save" /\ Decoded(l) \in Sets /\ data' = data
      BY <2>1, DecodedIsSet DEF SaveWeatherData
    <3>2. \/ Mode[Decoded(l)] \notin FileModes \ unsaved'
          \/ file'[Mode[Decoded(l)]] = Decoded(l)
      BY <2>1, <3>1 DEF SaveWeatherData
    <3>3. \A k \in Listeners : Decoded(k)' = Decoded(k)
      BY <3>1 DEF Decoded
    <3>4. \A k \in Listeners \ {l} : pc[k] # "idle" => k \in crossed'
      BY <2>0, <3>1 DEF BusyTogether
    <3> QED
      BY <2>0, <3>2, <3>3, <3>4 DEF SavedFirst
  <2>2. CASE ~SaveWeatherData(l)
    <3>1. pc'[l] # "broadcast"
      BY <1>2, <2>2
         DEF Handle, HandleWeatherStart, HandleWeatherChunk, HandleWeatherEnd, StoreChunk,
             LogChunk, CountChunks, AssembleChunk, Verify, BroadcastWeatherUpdate,
             ClearTransfer, Drop, Return, Goto, Enter
    <3>2. file' = file /\ unsaved' = unsaved
      BY <1>2, <2>2
         DEF Handle, HandleWeatherStart, HandleWeatherChunk, HandleWeatherEnd, StoreChunk,
             LogChunk, CountChunks, AssembleChunk, Verify, BroadcastWeatherUpdate, ClearTransfer
    <3>3. \A k \in Listeners \ {l} : data'[k] = data[k]
      BY <1>2, <2>2
         DEF Handle, HandleWeatherStart, HandleWeatherChunk, HandleWeatherEnd, StoreChunk,
             LogChunk, CountChunks, AssembleChunk, Verify, BroadcastWeatherUpdate, ClearTransfer
    <3>4. \A k \in Listeners \ {l} : Decoded(k)' = Decoded(k)
      BY <3>3 DEF Decoded
    <3> QED
      BY <2>0, <3>1, <3>2, <3>4 DEF SavedFirst
  <2> QED
    BY <2>1, <2>2
<1> QED
  BY <1>1, <1>2

\* A nil transfer, or another goroutine in the map, means a crossed call.
LEMMA PanicStep ==
    ASSUME Inv, BusyTogether, BusyHasTransfer, PanicsOnlyCrossed, NEW l \in Listeners, Handle(l)
    PROVE  PanicsOnlyCrossed'
<1>1. CASE Panic
  <2>1. pc[l] # "idle" /\ (transfer = Absent \/ Races(l))
    BY <1>1, StepOfHandler
  <2>2. l \in crossed
    BY <2>1 DEF BusyHasTransfer, BusyTogether, Races
  <2> QED
    BY <1>1, <2>2 DEF Panic, PanicsOnlyCrossed
<1>2. CASE ~Panic
  BY <1>2
     DEF Handle, HandleWeatherStart, HandleWeatherChunk, HandleWeatherEnd, StoreChunk,
         LogChunk, CountChunks, AssembleChunk, Verify, SaveWeatherData, BroadcastWeatherUpdate,
         ClearTransfer, PanicsOnlyCrossed
<1> QED
  BY <1>1, <1>2

\* The invariant of calls that overlap no other.
LEMMA LoneHolds == Spec => []LoneInv
<1>1. Init => LoneInv
  BY DEF Init, LoneInv, BusyTogether, BusyHasTransfer, SavedFirst, PanicsOnlyCrossed
<1>2. Inv /\ LoneInv /\ [Next]_vars => LoneInv'
  <2> SUFFICES ASSUME Inv, LoneInv, [Next]_vars PROVE LoneInv'
    OBVIOUS
  <2>1. CASE \E l \in Listeners : Handle(l)
    BY <2>1, TogetherStep, TransferStep, SavedFirstStep, PanicStep DEF LoneInv
  <2>2. CASE \/ Companion \/ CompanionAborts
             \/ \E l \in Listeners : SwapSignals(l) \/ StartNotifications(l)
    BY <2>2, LinkPreserves, LinkKeepsLone
  <2>3. CASE UNCHANGED vars
    BY <2>3, LinkKeepsLone DEF vars, handling
  <2> QED
    BY <2>1, <2>2, <2>3 DEF Next
<1> QED
  BY <1>1, <1>2, InvHolds, PTL DEF Spec

\* PanicsOnlyCrossed: whatever the link loses or swaps, and however many listeners
\* share the handler, one that nobody interrupts finds the transfer it checked
\* for (weather_handler.go:87-98, 101-177).
THEOREM LoneCallsDoNotPanic == Spec => []PanicsOnlyCrossed
<1>1. LoneInv => PanicsOnlyCrossed
  BY DEF LoneInv
<1> QED
  BY <1>1, LoneHolds, PTL

\* AnnouncedIsReadable: among any number of listeners a call that overlaps no other
\* announces a set whose file holds it, unless the last write of that file failed:
\* the file is written before the event (weather_handler.go:161-169), and by
\* nobody else in between.
THEOREM AnnouncedReadable == Spec => AnnouncedIsReadable
<1>1. Inv /\ LoneInv /\ [Next]_vars =>
        [feed' # feed /\ Mode[feed'] \in FileModes \ unsaved /\ crossed = {}
           => file'[Mode[feed']] = feed']_vars
  <2> SUFFICES ASSUME Inv, LoneInv, Next, feed' # feed, Mode[feed'] \in FileModes \ unsaved,
                      crossed = {}
               PROVE  file'[Mode[feed']] = feed'
    BY DEF vars
  <2>1. PICK l \in Listeners : Handle(l)
    BY LinkPreserves DEF Next, handling
  <2>2. BroadcastWeatherUpdate(l)
    BY <2>1
       DEF Handle, HandleWeatherStart, HandleWeatherChunk, HandleWeatherEnd, StoreChunk, LogChunk,
           CountChunks, AssembleChunk, Verify, SaveWeatherData, ClearTransfer, Panic
  <2> QED
    BY <2>2 DEF BroadcastWeatherUpdate, LoneInv, SavedFirst
<1> QED
  BY <1>1, InvHolds, LoneHolds, PTL DEF Spec, AnnouncedIsReadable
=============================================================================
