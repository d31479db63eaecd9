--------------------------- MODULE WeatherHandler ---------------------------
(***************************************************************************)
(* Reception of weather data: WeatherHandler (bluetooth/weather_handler.go)*)
(* and the BLE dispatch that feeds it. A weather set is sent as a start, a *)
(* number of chunks and an end. The handler has no lock and reads the      *)
(* field currentTransfer anew in every statement, so it is modelled        *)
(* statement by statement; the object the field points to is reached only  *)
(* through it, and the pointer is abstracted to that object.               *)
(* Every connect leaves one more listener behind, and each of them gets    *)
(* every message from then on.                                             *)
(*                                                                         *)
(* Bytes are abstracted to the set they were cut from: a SHA-256 sum       *)
(* matches exactly when every piece comes from the announced set.          *)
(***************************************************************************)
EXTENDS Integers, Sequences, FiniteSets

CONSTANTS
    Sets,          \* weather sets the companion sends
    Mode,          \* the mode each set carries in its JSON
    Listeners,     \* handleNotifications goroutines there may ever be
    MaxChunks,     \* the most chunks a set is cut into
    TotalChunks,   \* chunks of each set
    ChanCap,       \* capacity of the signal channel of a listener
    Absent,        \* "nothing there"
    Torn,          \* a file written only in part
    Reordering,    \* whether the link may swap two messages
    MaxTransfers,  \* bound: sets the companion starts to send
    MaxFaults      \* bound: messages lost or swapped, aborts, failed writes, bad data

Index == 0 .. MaxChunks - 1

FileModes == {"hourly", "weekly"}

\* WeatherTransferState
Transfer == [set : Sets, chunks : [Index -> Sets \cup {Absent}]]

ASSUME WeatherAssumption ==
    /\ MaxChunks \in Nat \ {0}
    /\ TotalChunks \in [Sets -> 1 .. MaxChunks]
    /\ Mode \in [Sets -> FileModes \cup {"unknown"}]
    /\ Listeners # {}
    /\ ChanCap \in Nat \ {0}
    /\ Absent \notin Sets
    /\ Torn \notin Sets \cup {Absent}
    /\ \A t \in Transfer : Absent # t
    /\ \A p \in [set : Sets, next : 0 .. MaxChunks] : Absent # p
    /\ Reordering \in BOOLEAN
    /\ MaxTransfers \in Nat
    /\ MaxFaults \in Nat

VARIABLES
    transfer,  \* WeatherHandler.currentTransfer, Absent for nil
    pc,        \* the statement each listener is about to execute
    data,      \* HandleWeatherEnd's compressedData
    file,      \* /var/nocturne/weather/<mode>_weather.json
    feed,      \* the set of the last weather_update event
    alive,     \* FALSE once a goroutine has panicked
    crossed,   \* history: listeners whose handler call overlaps another one's, or did
    unsaved,   \* history: modes whose last write failed
    listening, \* the listeners started so far
    inbox,     \* the signal channel of each listener
    sending,   \* the set the companion is in the middle of
    sent,      \* sets started so far
    faults     \* faults so far

link == <<listening, sending, sent>>
vars == <<transfer, pc, data, file, feed, alive, crossed, unsaved, inbox, link, faults>>

Message == [type : {"start", "chunk", "end"}, set : Sets, index : Index]

NoChunks == [i \in Index |-> Absent]

Whole(s) == [i \in 1 .. TotalChunks[s] |-> s]

Steps == {"idle", "store", "log", "count", "assemble", "verify", "save", "broadcast", "clear"}

TypeOK ==
    /\ transfer \in Transfer \cup {Absent}
    /\ pc \in [Listeners -> Steps]
    /\ data \in [Listeners -> Seq(Sets)]
    /\ file \in [FileModes -> Sets \cup {Absent, Torn}]
    /\ feed \in Sets \cup {Absent}
    /\ alive \in BOOLEAN
    /\ crossed \subseteq Listeners
    /\ unsaved \subseteq FileModes
    /\ listening \subseteq Listeners
    /\ inbox \in [Listeners -> Seq(Message)]
    /\ sending \in [set : Sets, next : 0 .. MaxChunks] \cup {Absent}
    /\ sent \in 0 .. MaxTransfers
    /\ faults \in 0 .. MaxFaults

Init ==
    /\ transfer = Absent
    /\ pc = [l \in Listeners |-> "idle"]
    /\ data = [l \in Listeners |-> <<>>]
    /\ file = [m \in FileModes |-> Absent]
    /\ feed = Absent
    /\ alive = TRUE
    /\ crossed = {}
    /\ unsaved = {}
    /\ listening = {CHOOSE l \in Listeners : TRUE}
    /\ inbox = [l \in Listeners |-> <<>>]
    /\ sending = Absent
    /\ sent = 0
    /\ faults = 0

Fault == faults < MaxFaults /\ faults' = faults + 1

-----------------------------------------------------------------------------
(***************************************************************************)
(* The companion and the link (outside src/).                              *)
(***************************************************************************)
handling == <<transfer, pc, data, file, feed, alive, crossed, unsaved>>

Notify(type, s, i) ==
    /\ \/ /\ \A l \in listening : Len(inbox[l]) < ChanCap
          /\ inbox' = [l \in Listeners |->
                         IF l \in listening
                           THEN Append(inbox[l], [type |-> type, set |-> s, index |-> i])
                           ELSE inbox[l]]
          /\ UNCHANGED faults
       \/ Fault /\ UNCHANGED inbox
    /\ UNCHANGED <<handling, listening>>

CompanionStart(s) ==
    /\ sending = Absent
    /\ sent < MaxTransfers
    /\ sent' = sent + 1
    /\ sending' = [set |-> s, next |-> 0]
    /\ Notify("start", s, 0)

CompanionChunk ==
    /\ sending # Absent
    /\ sending.next < TotalChunks[sending.set]
    /\ sending' = [sending EXCEPT !.next = @ + 1]
    /\ Notify("chunk", sending.set, sending.next)
    /\ UNCHANGED sent

CompanionEnd ==
    /\ sending # Absent
    /\ sending.next = TotalChunks[sending.set]
    /\ sending' = Absent
    /\ Notify("end", sending.set, 0)
    /\ UNCHANGED sent

CompanionAborts ==
    /\ sending # Absent
    /\ sending' = Absent
    /\ Fault
    /\ UNCHANGED <<handling, inbox, listening, sent>>

\* A connect after a lost link starts a listener and ends none.
StartNotifications(l) ==
    /\ l \notin listening
    /\ listening' = listening \cup {l}
    /\ UNCHANGED <<handling, inbox, sending, sent, faults>>

SwapSignals(l) ==
    /\ Reordering
    /\ Fault
    /\ \E i \in 1 .. Len(inbox[l]) - 1 :
          /\ pc[l] = "idle" \/ i > 1
          /\ inbox' = [inbox EXCEPT ![l] =
                         [@ EXCEPT ![i] = inbox[l][i + 1], ![i + 1] = inbox[l][i]]]
    /\ UNCHANGED <<handling, link>>

-----------------------------------------------------------------------------
(***************************************************************************)
(* The handler. The message a listener works on stays at the head of its   *)
(* channel until the handler returns.                                      *)
(***************************************************************************)
Handles(l, type) ==
    /\ pc[l] = "idle"
    /\ inbox[l] # <<>>
    /\ Head(inbox[l]).type = type

Goto(l, step) == pc' = [pc EXCEPT ![l] = step] /\ UNCHANGED <<crossed, inbox>>

Others(l) == {k \in Listeners \ {l} : pc[k] # "idle"}

\* A handler found a transfer and goes on to use it.
Enter(l, step) ==
    /\ pc' = [pc EXCEPT ![l] = step]
    /\ \/ Others(l) = {} /\ UNCHANGED crossed
       \/ Others(l) # {} /\ crossed' = crossed \cup Others(l) \cup {l}
    /\ UNCHANGED inbox

Return(l) ==
    /\ pc' = [pc EXCEPT ![l] = "idle"]
    /\ crossed' = crossed \ {l}
    /\ inbox' = [inbox EXCEPT ![l] = Tail(@)]

\* A nil pointer is dereferenced: the panic is not recovered.
Panic ==
    /\ alive' = FALSE
    /\ UNCHANGED <<transfer, pc, data, file, feed, crossed, unsaved, inbox, link, faults>>

Drop(l) == transfer' = Absent /\ Return(l)

\* Mutant: a start that finds a transfer is ignored.
HandleWeatherStartOnce(l) ==
    /\ Handles(l, "start")
    /\ transfer' = IF transfer = Absent THEN [set |-> Head(inbox[l]).set, chunks |-> NoChunks]
                                        ELSE transfer
    /\ Return(l)
    /\ UNCHANGED <<data, file, feed, alive, unsaved, link, faults>>

HandleWeatherStart(l) ==
    /\ Handles(l, "start")
    /\ transfer' = [set |-> Head(inbox[l]).set, chunks |-> NoChunks]
    /\ Return(l)
    /\ UNCHANGED <<data, file, feed, alive, unsaved, link, faults>>

HandleWeatherChunk(l) ==
    /\ Handles(l, "chunk")
    /\ \/ transfer = Absent /\ Return(l)
       \/ transfer # Absent /\ Enter(l, "store")
    /\ UNCHANGED <<transfer, data, file, feed, alive, unsaved, link, faults>>

\* Two goroutines in the same map, one of them writing: the Go runtime may
\* notice and kill the process.
Races(l) == \E k \in Listeners \ {l} : pc[k] \in {"store", "count", "assemble"}

StoreChunk(l) ==
    /\ pc[l] = "store"
    /\ \/ /\ transfer # Absent
          /\ transfer' = [transfer EXCEPT !.chunks[Head(inbox[l]).index] = Head(inbox[l]).set]
          /\ Goto(l, "log")
          /\ UNCHANGED <<data, file, feed, alive, unsaved, link, faults>>
       \/ (transfer = Absent \/ Races(l)) /\ Panic

LogChunk(l) ==
    /\ pc[l] = "log"
    /\ \/ /\ transfer # Absent
          /\ Return(l)
          /\ UNCHANGED <<transfer, data, file, feed, alive, unsaved, link, faults>>
       \/ transfer = Absent /\ Panic

HandleWeatherEnd(l) ==
    /\ Handles(l, "end")
    /\ \/ transfer = Absent /\ Return(l)
       \/ transfer # Absent /\ Enter(l, "count")
    /\ UNCHANGED <<transfer, data, file, feed, alive, unsaved, link, faults>>

Received(t) == {i \in Index : t.chunks[i] # Absent}

\* Mutant: an incomplete transfer is dropped, and then assembled all the same.
CountChunksFallsThrough(l) ==
    /\ pc[l] = "count"
    /\ \/ /\ transfer # Absent
          /\ transfer' = IF Cardinality(Received(transfer)) # TotalChunks[transfer.set]
                           THEN Absent ELSE transfer
          /\ data' = [data EXCEPT ![l] = <<>>]
          /\ Goto(l, "assemble")
          /\ UNCHANGED <<file, feed, alive, unsaved, link, faults>>
       \/ transfer = Absent /\ Panic

CountChunks(l) ==
    /\ pc[l] = "count"
    /\ \/ /\ transfer # Absent
          /\ \/ /\ Cardinality(Received(transfer)) # TotalChunks[transfer.set]
                /\ Drop(l)
                /\ UNCHANGED data
             \/ /\ Cardinality(Received(transfer)) = TotalChunks[transfer.set]
                /\ data' = [data EXCEPT ![l] = <<>>]
                /\ Goto(l, "assemble")
                /\ UNCHANGED transfer
          /\ UNCHANGED <<file, feed, alive, unsaved, link, faults>>
       \/ transfer = Absent /\ Panic

\* Mutant: the chunks are counted but a hole is not noticed.
AssembleIgnoresHoles(l) ==
    /\ pc[l] = "assemble"
    /\ \/ /\ transfer # Absent
          /\ LET i == Len(data[l])
             IN  \/ /\ i >= TotalChunks[transfer.set]
                    /\ Goto(l, "verify")
                    /\ UNCHANGED data
                 \/ /\ i < TotalChunks[transfer.set]
                    /\ data' = [data EXCEPT ![l] = Append(@, transfer.chunks[i])]
                    /\ Goto(l, "assemble")
          /\ UNCHANGED <<transfer, file, feed, alive, unsaved, link, faults>>
       \/ transfer = Absent /\ Panic

\* One turn of the assembly loop.
AssembleChunk(l) ==
    /\ pc[l] = "assemble"
    /\ \/ /\ transfer # Absent
          /\ LET i == Len(data[l])
             IN  \/ /\ i >= TotalChunks[transfer.set]
                    /\ Goto(l, "verify")
                    /\ UNCHANGED <<transfer, data>>
                 \/ /\ i < TotalChunks[transfer.set]
                    /\ transfer.chunks[i] = Absent
                    /\ Drop(l)
                    /\ UNCHANGED data
                 \/ /\ i < TotalChunks[transfer.set]
                    /\ transfer.chunks[i] # Absent
                    /\ data' = [data EXCEPT ![l] = Append(@, transfer.chunks[i])]
                    /\ Goto(l, "assemble")
                    /\ UNCHANGED transfer
          /\ UNCHANGED <<file, feed, alive, unsaved, link, faults>>
       \/ transfer = Absent /\ Panic

\* Mutant: a mismatch is logged and ignored.
VerifyLogsOnly(l) ==
    /\ pc[l] = "verify"
    /\ \/ /\ transfer # Absent
          /\ Goto(l, "save")
          /\ UNCHANGED <<transfer, data, file, feed, alive, unsaved, link, faults>>
       \/ transfer = Absent /\ Panic

\* The checksum, then gunzip and JSON, which only data the companion encoded
\* badly fails.
Verify(l) ==
    /\ pc[l] = "verify"
    /\ \/ /\ transfer # Absent
          /\ \/ data[l] # Whole(transfer.set) /\ Drop(l) /\ UNCHANGED faults
             \/ data[l] = Whole(transfer.set) /\ Fault /\ Drop(l)
             \/ data[l] = Whole(transfer.set) /\ Goto(l, "save") /\ UNCHANGED <<transfer, faults>>
          /\ UNCHANGED <<data, file, feed, alive, unsaved, link>>
       \/ transfer = Absent /\ Panic

Decoded(l) == Head(data[l])

\* Mutant: clients are told first, and the file is written afterwards.
SaveWeatherDataLate(l) ==
    /\ pc[l] = "save"
    /\ Goto(l, "broadcast")
    /\ UNCHANGED <<transfer, data, file, feed, alive, unsaved, link, faults>>

\* An unknown mode is an error, logged like any other; a failed write may
\* leave the file truncated.
SaveWeatherData(l) ==
    /\ pc[l] = "save"
    /\ LET m == Mode[Decoded(l)]
       IN  \/ m \notin FileModes /\ UNCHANGED <<file, unsaved, faults>>
           \/ /\ m \in FileModes
              /\ file' = [file EXCEPT ![m] = Decoded(l)]
              /\ unsaved' = unsaved \ {m}
              /\ UNCHANGED faults
           \/ /\ m \in FileModes
              /\ Fault
              /\ file' \in {file, [file EXCEPT ![m] = Torn]}
              /\ unsaved' = unsaved \cup {m}
    /\ Goto(l, "broadcast")
    /\ UNCHANGED <<transfer, data, feed, alive, link>>

BroadcastWeatherUpdate(l) ==
    /\ pc[l] = "broadcast"
    /\ feed' = Decoded(l)
    /\ Goto(l, "clear")
    /\ UNCHANGED <<transfer, data, file, alive, unsaved, link, faults>>

ClearTransfer(l) ==
    /\ pc[l] = "clear"
    /\ \/ /\ transfer # Absent
          /\ Drop(l)
          /\ data' = [data EXCEPT ![l] = <<>>]
          /\ UNCHANGED <<file, feed, alive, unsaved, link, faults>>
       \/ transfer = Absent /\ Panic

-----------------------------------------------------------------------------
Companion == (\E s \in Sets : CompanionStart(s)) \/ CompanionChunk \/ CompanionEnd

Handle(l) ==
    /\ alive
    /\ \/ HandleWeatherStart(l)
       \/ HandleWeatherChunk(l) \/ StoreChunk(l) \/ LogChunk(l)
       \/ HandleWeatherEnd(l) \/ CountChunks(l) \/ AssembleChunk(l) \/ Verify(l)
       \/ SaveWeatherData(l) \/ BroadcastWeatherUpdate(l) \/ ClearTransfer(l)

Next ==
    \/ Companion
    \/ CompanionAborts
    \/ \E l \in Listeners : Handle(l) \/ SwapSignals(l) \/ StartNotifications(l)

Spec == Init /\ [][Next]_vars

(***************************************************************************)
(* Each listener is a goroutine that always runs, and a companion in the   *)
(* middle of a set goes on. Starting a set, reconnecting and faults carry  *)
(* no fairness.                                                            *)
(***************************************************************************)
FairSpec ==
    /\ Spec
    /\ \A l \in Listeners : WF_vars(Handle(l))
    /\ WF_vars(CompanionChunk \/ CompanionEnd)

-----------------------------------------------------------------------------
\* Past the checksum, a listener holds one whole set.
VerifiedIsWhole ==
    \A l \in Listeners :
        pc[l] \in {"save", "broadcast", "clear"} => \E s \in Sets : data[l] = Whole(s)

\* A handler call that no other overlaps never panics: the checks at the top of
\* HandleWeatherChunk and HandleWeatherEnd still hold where they are relied on,
\* whatever earlier calls left behind and however many listeners take turns.
PanicsOnlyCrossed == alive \/ crossed # {}

\* No listener ever dereferences a nil transfer or meets another in the chunk map.
NoPanic == alive

\* A client told of a set can read it: when the event goes out, the file of its
\* mode holds the set, unless the last write of that file failed or the handler
\* call overlaps another.
AnnouncedIsReadable ==
    [][feed' # feed /\ Mode[feed'] \in FileModes \ unsaved /\ crossed = {}
         => file'[Mode[feed']] = feed']_vars

\* The same of every event (weather_handler.go:161-169 announces all the same when
\* the write has failed).
AlwaysReadable ==
    [][feed' # feed /\ Mode[feed'] \in FileModes => file'[Mode[feed']] = feed']_vars

\* Whatever was lost or abandoned before it, a set whose start has arrived and
\* whose remaining messages are not lost is announced, as long as there is one
\* listener: half a transfer never spoils the next.
Alone == Cardinality(listening) = 1

Begins(s) ==
    /\ Alone
    /\ faults = MaxFaults
    /\ sending # Absent /\ sending.set = s /\ sending.next = 0
    /\ \A l \in listening : inbox[l] # <<>> /\ inbox[l][Len(inbox[l])].type = "start"
                                           /\ inbox[l][Len(inbox[l])].set = s

Recovers == \A s \in Sets : Begins(s) ~> (feed = s \/ ~Alone)
=============================================================================
