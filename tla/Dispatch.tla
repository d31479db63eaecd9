------------------------------- MODULE Dispatch -------------------------------
(***************************************************************************)
(* What becomes of a notification (handleNotification and the handlers     *)
(* it calls), from the companion's call to the clients, the device and the *)
(* companion's answer.  Every listener goroutine gets a copy of every      *)
(* notification and handles its copies in order; the listeners share the   *)
(* message counter, the clock, the localtime link and the image files. The *)
(* goroutine that empties the command queue takes its IDs from the same    *)
(* counter.                                                                *)
(* Album-art transfers and weather are AlbumArt's and WeatherHandler's.    *)
(***************************************************************************)
EXTENDS Protocol, FiniteSets, TLC

CONSTANTS
    Listeners,
    Script,      \* items the companion may send, each once: [type, fields]
    Damages,     \* how the link may damage a message
    IdSpan,      \* how many message IDs there are: 65536
    MaxSends,    \* bounds of the model: items sent and commands queued,
    MaxFaults,   \* and faults of the link, the device and the process
    None

ASSUME DispatchAssumption ==
    /\ Listeners # {} /\ IsFiniteSet(Listeners) /\ None \notin Script
    /\ IdSpan \in Nat /\ IdSpan > 2
    /\ MaxSends \in Nat /\ MaxFaults \in Nat

VARIABLES
    sent,           \* items the companion has sent
    inbox,          \* per listener, what it has yet to handle
    pc,             \* per listener: idle, remove, link, send, write
    doing,          \* per listener, the message it handles, or its answer
    nextMessageID,
    written,        \* answers that reached the companion, in order
    commands,       \* commands processCommandQueue took so far
    commandID,      \* the ID of the one it is writing, 0 for none
    events,         \* items the WebSocket clients were told
    reports,        \* media states handed to the manager
    clock,          \* what the system clock was last set to
    localtime,      \* the timezone /var/local/etc/localtime links to, or None
    art,            \* the image file asked about: absent, partial, whole
    saving,         \* a goroutine is writing it
    lastSync,       \* the last time sync that arrived, since the start
    mishap,         \* an answer failed or was cut short
    faults

link   == <<sent, faults>>
device == <<clock, localtime>>
file   == <<art, saving>>
told   == <<events, reports>>
queue  == <<commands, commandID>>
sender == <<nextMessageID, written, queue>>
past   == <<lastSync, mishap>>
vars   == <<link, inbox, pc, doing, device, file, told, sender, past>>

Fault == faults < MaxFaults /\ faults' = faults + 1

Item(type, fields) == [type |-> type, fields |-> fields]

NoMessage == [type |-> 0, payload |-> <<>>, id |-> 0]

Commands == {MSG_CMD_PLAY, MSG_CMD_PAUSE, MSG_CMD_NEXT, MSG_CMD_PREVIOUS,
             MSG_CMD_SEEK_TO, MSG_CMD_SET_VOLUME}

\* What answers a request.
Answer == (MSG_GET_CAPABILITIES :> MSG_CAPABILITIES)
       @@ (MSG_CMD_REQUEST_TIMESTAMP :> MSG_TIME_SYNC)
       @@ (MSG_ALBUM_ART_AVAILABLE_QUERY :> MSG_ALBUM_ART_NEEDED_RESPONSE)

Init ==
    /\ sent = {} /\ faults = 0
    /\ inbox = [l \in Listeners |-> <<>>]
    /\ pc = [l \in Listeners |-> "idle"]
    /\ doing = [l \in Listeners |-> NoMessage]
    /\ nextMessageID = 1 /\ written = <<>> /\ commands = 0 /\ commandID = 0
    /\ events = {} /\ reports = {}
    /\ clock = <<>> /\ localtime = None
    /\ art = "absent" /\ saving = FALSE
    /\ lastSync = None /\ mishap = FALSE

-----------------------------------------------------------------------------
(***************************************************************************)
(* The companion and the link (outside src/).                              *)
(***************************************************************************)
CompanionPayload(item) ==
    CASE item.type = MSG_TIME_SYNC ->
           CreateTimeSyncPayload(item.fields[1], item.fields[2])
      [] item.type \in Commands ->
           CreateCommandPayload(item.fields[1], item.fields[2])
      [] item.type = MSG_STATE_FULL ->
           item.fields[1] \o item.fields[2] \o item.fields[3] \o item.fields[4]
             \o item.fields[5] \o PutString(item.fields[6])
             \o PutString(item.fields[7]) \o PutString(item.fields[8])
      [] item.type = MSG_ALBUM_ART_AVAILABLE_QUERY ->
           <<Len(item.fields[1])>> \o item.fields[1] \o PutString(item.fields[2])
             \o item.fields[3] \o item.fields[4]
      [] item.type = MSG_CMD_ALBUM_ART_QUERY -> item.fields[1]
      [] OTHER -> <<>>

Wire == [item \in Script |-> EncodeMessage(item.type, CompanionPayload(item), 1)]

\* A message cut short, with its last byte changed, or with a field of its header changed.
Damaged(m) ==
    LET size == Len(m.rest)
    IN  (IF "cut" \in Damages THEN {[m EXCEPT !.header = "cut"]} ELSE {})
        \cup (IF "truncated" \in Damages
              THEN {[m EXCEPT !.rest = SubSeq(@, 1, size \div 2)]} ELSE {})
        \cup (IF "payload" \in Damages
              THEN {[m EXCEPT !.rest[i] = 255 - @] : i \in {size} \ {0}} ELSE {})
        \cup (IF "size" \in Damages
              THEN {[m EXCEPT !.payloadSize = n] : n \in {size + 1, DWord - 1}} ELSE {})
        \cup (IF "version" \in Damages
              THEN {[m EXCEPT !.versionedType = VersionedType(1, @)]} ELSE {})
        \cup (IF "type" \in Damages
              THEN {[m EXCEPT !.versionedType = @ + 1]} ELSE {})

Flags   == {<<0>>, <<1>>}
Zones   == {zone \in Bytes : Len(zone) < Word - 10}
Strings == {string \in Bytes : Len(string) < Word}

\* The fields go into the payload, and are of lengths it can tell.
HasFields(item) ==
    /\ item.type = MSG_TIME_SYNC => item.fields \in BytesOf(8) \X Zones
    /\ item.type \in Commands =>
         item.fields \in (BytesOf(8) \cup {<<>>}) \X (BytesOf(1) \cup {<<>>})
    /\ item.type = MSG_STATE_FULL =>
         item.fields \in Flags \X BytesOf(8) \X BytesOf(8) \X BytesOf(1)
                           \X BytesOf(4) \X Strings \X Strings \X Strings
    /\ item.type = MSG_CMD_ALBUM_ART_QUERY => item.fields = <<item.fields[1]>>
    /\ item.type = MSG_CMD_REQUEST_STATE => item.fields = <<>>

ASSUME ScriptAssumption ==
    \A item \in Script : item = Item(item.type, item.fields) /\ HasFields(item)

\* A type has twelve bits, and a payload fits in a message.
ASSUME SizeAssumption ==
    \A item \in Script :
      /\ item.type \in Nat /\ item.type < 4096 /\ CompanionPayload(item) \in Bytes
      /\ Len(CompanionPayload(item)) < DWord - HEADER_SIZE

\* What the link does to a payload, the checksum tells.
ASSUME ChecksumAssumption ==
    \A item \in Script : \A m \in Damaged(Wire[item]) :
      Complete(m) /\ Payload(m) # CompanionPayload(item)
        => Checksum(Payload(m)) # Checksum(CompanionPayload(item))

Arrives(m) == inbox' = [l \in Listeners |-> Append(inbox[l], m)]

CompanionSends ==
    /\ Cardinality(sent) + commands < MaxSends
    /\ \E item \in Script \ sent :
         /\ sent' = sent \cup {item}
         /\ \/ /\ Arrives(Wire[item])
               /\ lastSync' = IF item.type = MSG_TIME_SYNC THEN item ELSE lastSync
               /\ UNCHANGED faults
            \/ /\ Fault
               /\ \E m \in Damaged(Wire[item]) \ {Wire[item]} : Arrives(m)
               /\ UNCHANGED lastSync
            \/ Fault /\ UNCHANGED <<inbox, lastSync>>
    /\ UNCHANGED <<pc, doing, device, file, told, sender, mishap>>

-----------------------------------------------------------------------------
(***************************************************************************)
(* A listener takes the next notification.                                 *)
(***************************************************************************)
\* What was decoded is a message of one of these types.
Hears(heard, types) == heard.outcome = "ok" /\ heard.messageType \in types

\* The broadcaster hands the hub an event.
Broadcast(item) == events' = events \cup {item}

Goes(l, step, message) ==
    /\ pc' = [pc EXCEPT ![l] = step]
    /\ doing' = [doing EXCEPT ![l] = message]

Understood ==
    Commands \cup DOMAIN Answer
      \cup {MSG_TIME_SYNC, MSG_CMD_REQUEST_STATE, MSG_CMD_ALBUM_ART_QUERY, MSG_STATE_FULL}

\* Of the message, and of the payload where the handler does nothing without it.
Outcome(heard) ==
    CASE Hears(heard, {MSG_TIME_SYNC}) -> ParseTimeSyncPayload(heard.payload).outcome
      [] Hears(heard, {MSG_ALBUM_ART_AVAILABLE_QUERY}) ->
           ParseAlbumArtAvailabilityQuery(heard.payload).outcome
      [] OTHER -> heard.outcome

\* A message that cannot be read, and one of a type not handled here.
HandleNothing(heard) ==
    /\ \/ Outcome(heard) = "error"
       \/ heard.outcome = "ok" /\ heard.messageType \notin Understood
    /\ UNCHANGED <<link, pc, doing, device, file, told, sender, past>>

HandleCommand(heard) ==
    /\ Hears(heard, Commands)
    /\ LET type  == heard.messageType
           value == IF heard.payload = <<>>
                    THEN [valueMs |-> <<>>, valuePercent |-> <<>>]
                    ELSE ParseCommandPayload(heard.payload)
       IN  IF \/ type = MSG_CMD_SEEK_TO /\ value.valueMs = <<>>
              \/ type = MSG_CMD_SET_VOLUME /\ value.valuePercent = <<>>
           THEN UNCHANGED events
           ELSE Broadcast(Item(type, <<value.valueMs, value.valuePercent>>))
    /\ UNCHANGED <<link, pc, doing, device, file, reports, sender, past>>

HandleStateRequest(heard) ==
    /\ Hears(heard, {MSG_CMD_REQUEST_STATE})
    /\ Broadcast(Item(MSG_CMD_REQUEST_STATE, <<>>))
    /\ UNCHANGED <<link, pc, doing, device, file, reports, sender, past>>

HandleAlbumArtRequest(heard) ==
    /\ Hears(heard, {MSG_CMD_ALBUM_ART_QUERY})
    /\ Broadcast(Item(MSG_CMD_ALBUM_ART_QUERY, <<heard.payload>>))
    /\ UNCHANGED <<link, pc, doing, device, file, reports, sender, past>>

\* The payload goes to the clients even when the manager cannot be given its state.
HandleFullState(heard) ==
    /\ Hears(heard, {MSG_STATE_FULL})
    /\ LET state == ParseFullStatePayload(heard.payload)
       IN  reports' = IF state.outcome = "ok"
                      THEN reports \cup {Item(MSG_STATE_FULL, state.fields)}
                      ELSE reports
    /\ Broadcast(Item(MSG_STATE_FULL, <<heard.payload>>))
    /\ UNCHANGED <<link, pc, doing, device, file, sender, past>>

-----------------------------------------------------------------------------
(***************************************************************************)
(* Time sync.  The link to the timezone is removed and made again, in two  *)
(* steps: another listener may act between them.                           *)
(***************************************************************************)
Positive(timestampMs) ==
    timestampMs[1] < 128 /\ \E i \in 1 .. 8 : timestampMs[i] # 0

Local == <<76, 111, 99, 97, 108>>   \* "Local"

SyncItem(message) ==
    Item(MSG_TIME_SYNC, ParseTimeSyncPayload(message.payload).fields)

\* Setting the clock (`date -s`) may fail.
HandleTimeSync(l, heard) ==
    /\ Hears(heard, {MSG_TIME_SYNC})
    /\ Outcome(heard) = "ok"
    /\ LET sync  == ParseTimeSyncPayload(heard.payload)
           timestampMs == sync.fields[1]
           timezone    == sync.fields[2]
           message == [type |-> MSG_TIME_SYNC, payload |-> heard.payload, id |-> 0]
       IN  /\ \/ Positive(timestampMs) /\ clock' = timestampMs /\ UNCHANGED <<faults, mishap>>
              \/ Positive(timestampMs) /\ Fault /\ UNCHANGED clock /\ mishap' = TRUE
              \/ ~Positive(timestampMs) /\ UNCHANGED <<clock, faults, mishap>>
           /\ IF timezone \notin {<<>>, Local}
              THEN Goes(l, "remove", message) /\ UNCHANGED events
              ELSE Broadcast(Item(MSG_TIME_SYNC, sync.fields)) /\ UNCHANGED <<pc, doing>>
    /\ UNCHANGED <<sent, localtime, file, reports, sender, lastSync>>

\* Mutant: the old link is left in place.
LeaveLocaltime(l) ==
    /\ pc[l] = "remove"
    /\ Goes(l, "link", doing[l])
    /\ UNCHANGED <<link, inbox, device, file, told, sender, past>>

\* That there is no link is no error.
RemoveLocaltime(l) ==
    /\ pc[l] = "remove"
    /\ localtime' = None
    /\ Goes(l, "link", doing[l])
    /\ UNCHANGED <<link, inbox, clock, file, told, sender, past>>

\* Mutant: it is tried again until it succeeds.
LinkLocaltimeRetries(l) ==
    /\ pc[l] = "link"
    /\ IF localtime = None
       THEN /\ localtime' = SyncItem(doing[l]).fields[2]
            /\ Broadcast(SyncItem(doing[l]))
            /\ Goes(l, "idle", NoMessage)
       ELSE UNCHANGED <<localtime, events, pc, doing>>
    /\ UNCHANGED <<link, inbox, clock, file, reports, sender, past>>

\* os.Symlink fails when the link is there: it is left as it is.
LinkLocaltime(l) ==
    /\ pc[l] = "link"
    /\ localtime' = IF localtime = None THEN SyncItem(doing[l]).fields[2] ELSE localtime
    /\ Broadcast(SyncItem(doing[l]))
    /\ Goes(l, "idle", NoMessage)
    /\ UNCHANGED <<link, inbox, clock, file, reports, sender, past>>

-----------------------------------------------------------------------------
(***************************************************************************)
(* Requests and their answers.                                             *)
(***************************************************************************)
Answers(l, type, payload) ==
    /\ Goes(l, "send", [type |-> type, payload |-> payload, id |-> 0])
    /\ UNCHANGED <<link, device, file, told, sender, past>>

\* The first field of the answer; the others are constants of the program.
HandleCapabilitiesRequest(l, heard) ==
    /\ Hears(heard, {MSG_GET_CAPABILITIES})
    /\ Answers(l, MSG_CAPABILITIES, <<1>>)

HandleTimeSyncRequest(l, heard) ==
    /\ Hears(heard, {MSG_CMD_REQUEST_TIMESTAMP})
    /\ Answers(l, MSG_TIME_SYNC, CreateTimeSyncPayload(clock, Local))

\* os.Stat finds the file as soon as it was created.
HandleAlbumArtAvailabilityQuery(l, heard) ==
    /\ Hears(heard, {MSG_ALBUM_ART_AVAILABLE_QUERY})
    /\ Outcome(heard) = "ok"
    /\ Answers(l, MSG_ALBUM_ART_NEEDED_RESPONSE, CreateAlbumArtNeededResponse(art = "absent"))

\* Mutant: 0 comes after the last ID.
NextIDZero(id) == (id + 1) % IdSpan

NextID(id) == IF id + 1 = IdSpan THEN 1 ELSE id + 1

\* Mutant: the counter is not locked, and one of two increments may be lost.
GetNextMessageIDUnlocked(l) ==
    /\ pc[l] = "send"
    /\ Goes(l, "write", [doing[l] EXCEPT !.id = nextMessageID])
    /\ nextMessageID' \in {nextMessageID, NextID(nextMessageID)}
    /\ UNCHANGED <<link, inbox, device, file, told, written, queue, past>>

GetNextMessageID(l) ==
    /\ pc[l] = "send"
    /\ Goes(l, "write", [doing[l] EXCEPT !.id = nextMessageID])
    /\ nextMessageID' = NextID(nextMessageID)
    /\ UNCHANGED <<link, inbox, device, file, told, written, queue, past>>

Sent(l) ==
    [by |-> l, message |-> EncodeMessage(doing[l].type, doing[l].payload, doing[l].id)]

Write(l) ==
    /\ pc[l] = "write"
    /\ written' = Append(written, Sent(l))
    /\ Goes(l, "idle", NoMessage)
    /\ UNCHANGED <<link, inbox, device, file, told, nextMessageID, queue, past>>

\* The D-Bus call fails, or its reply is not heard.
WriteFails(l) ==
    /\ pc[l] = "write"
    /\ Fault /\ mishap' = TRUE
    /\ written' \in {written, Append(written, Sent(l))}
    /\ Goes(l, "idle", NoMessage)
    /\ UNCHANGED <<sent, inbox, device, file, told, nextMessageID, queue, lastSync>>

\* processCommandQueue takes a command an HTTP handler queued (the queue is
\* BleClient's) and an ID for it: sendMessage, like an answer.
SendCommand ==
    /\ commandID = 0 /\ Cardinality(sent) + commands < MaxSends
    /\ commands' = commands + 1
    /\ commandID' = nextMessageID
    /\ nextMessageID' = NextID(nextMessageID)
    /\ UNCHANGED <<link, inbox, pc, doing, device, file, told, written, past>>

\* It has reached the companion or not: an error is only logged.
CommandEnds ==
    /\ commandID # 0
    /\ commandID' = 0
    /\ UNCHANGED <<link, inbox, pc, doing, device, file, told, nextMessageID, written,
                   commands, past>>

-----------------------------------------------------------------------------
(***************************************************************************)
(* The image asked about is saved by another goroutine: os.WriteFile       *)
(* creates or empties the file, then fills it.                             *)
(***************************************************************************)
SaveBegins ==
    /\ ~saving /\ art # "whole"
    /\ saving' = TRUE /\ art' = "partial"
    /\ UNCHANGED <<link, inbox, pc, doing, device, told, sender, past>>

SaveEnds ==
    /\ saving
    /\ saving' = FALSE /\ art' = "whole"
    /\ UNCHANGED <<link, inbox, pc, doing, device, told, sender, past>>

SaveFails ==
    /\ saving /\ Fault
    /\ saving' = FALSE
    /\ UNCHANGED <<sent, inbox, pc, doing, device, art, told, sender, past>>

\* What a restart leaves: the files, the clock and the link.
Restart ==
    /\ inbox' = [l \in Listeners |-> <<>>]
    /\ pc' = [l \in Listeners |-> "idle"]
    /\ doing' = [l \in Listeners |-> NoMessage]
    /\ nextMessageID' = 1 /\ written' = <<>> /\ commandID' = 0
    /\ saving' = FALSE
    /\ lastSync' = None /\ mishap' = TRUE
    /\ UNCHANGED <<sent, device, art, told, commands>>

\* The power is cut, or the process is killed.
Crash == Fault /\ Restart

\* A slice with its end before its beginning ends the process.
Panics(heard) ==
    /\ Outcome(heard) = "panic"
    /\ Restart
    /\ UNCHANGED faults

\* The switch over the message type.
Handles(l, heard) ==
    \/ HandleNothing(heard) \/ HandleCommand(heard) \/ HandleStateRequest(heard)
    \/ HandleAlbumArtRequest(heard) \/ HandleFullState(heard)
    \/ HandleTimeSync(l, heard)
    \/ HandleCapabilitiesRequest(l, heard) \/ HandleTimeSyncRequest(l, heard)
    \/ HandleAlbumArtAvailabilityQuery(l, heard)

HandleNotification(l) ==
    /\ pc[l] = "idle" /\ inbox[l] # <<>>
    /\ \E heard \in {DecodeMessage(Head(inbox[l]))} :
         \/ Handles(l, heard) /\ inbox' = [inbox EXCEPT ![l] = Tail(@)]
         \/ Panics(heard)

\* What a listener does, whatever fails.
ListenerStep(l) ==
    \/ HandleNotification(l)
    \/ RemoveLocaltime(l) \/ LinkLocaltime(l)
    \/ GetNextMessageID(l) \/ Write(l) \/ WriteFails(l)

Next ==
    \/ CompanionSends
    \/ \E l \in Listeners : ListenerStep(l)
    \/ SendCommand \/ CommandEnds
    \/ SaveBegins \/ SaveEnds \/ SaveFails
    \/ Crash

Spec == Init /\ [][Next]_vars

\* A listener goes on: nothing it calls waits for ever.
FairSpec == Spec /\ \A l \in Listeners : WF_vars(ListenerStep(l))

-----------------------------------------------------------------------------
TypeOK ==
    /\ sent \subseteq Script /\ faults \in 0 .. MaxFaults
    /\ \A l \in Listeners :
         /\ Len(inbox[l]) <= MaxSends
         /\ pc[l] \in {"idle", "remove", "link", "send", "write"}
         /\ doing[l].id \in 0 .. IdSpan - 1
         /\ pc[l] = "idle" => doing[l] = NoMessage
    /\ nextMessageID \in 1 .. IdSpan - 1
    /\ Len(written) <= Cardinality(Listeners) * MaxSends
    /\ commands \in 0 .. MaxSends /\ commandID \in 0 .. IdSpan - 1
    /\ art \in {"absent", "partial", "whole"} /\ saving \in BOOLEAN
    /\ mishap \in BOOLEAN

\* How the clients are told of an item.
Shown(item) ==
    IF item.type = MSG_STATE_FULL THEN Item(item.type, <<CompanionPayload(item)>>) ELSE item

\* Whatever the link does to a message, clients, the manager, the clock and the
\* timezone are given nothing but what the companion sent.
AsSent ==
    /\ events \subseteq {Shown(item) : item \in sent}
    /\ reports \subseteq sent
    /\ clock # <<>> => \E item \in sent : item.type = MSG_TIME_SYNC /\ item.fields[1] = clock
    /\ localtime # None =>
         \E item \in sent : item.type = MSG_TIME_SYNC /\ item.fields[2] = localtime

Quiet == \A l \in Listeners : pc[l] = "idle" /\ inbox[l] = <<>>

\* Listeners that set the clock and the timezone at different times, each after
\* the other, still leave what the last time sync said.
SyncSettles ==
    Quiet /\ lastSync # None /\ ~mishap
      => /\ Positive(lastSync.fields[1]) => clock = lastSync.fields[1]
         /\ lastSync.fields[2] \notin {<<>>, Local} => localtime = lastSync.fields[2]

\* No answer has ID 0, and no two messages on their way have the same: answers of
\* the listeners and the command of the command goroutine.
IdsInFlight ==
    /\ \A i \in 1 .. Len(written) : written[i].message.messageID # 0
    /\ \A l, k \in Listeners :
         pc[l] = "write" /\ pc[k] = "write" /\ l # k => doing[l].id # doing[k].id
    /\ \A l \in Listeners : pc[l] = "write" => doing[l].id # commandID

Intact == {Wire[item] : item \in Script}

Asked(l, type) ==
    \E i \in 1 .. Len(inbox[l]) :
      /\ inbox[l][i].versionedType = VersionedType(PROTOCOL_VERSION, type)
      /\ inbox[l][i] \in Intact

Told(l, type) ==
    \E i \in 1 .. Len(written) :
      /\ written[i].by = l
      /\ written[i].message.versionedType = VersionedType(PROTOCOL_VERSION, Answer[type])

\* A request that arrives is answered, by every listener, unless its write fails
\* or the process ends.
Answered ==
    \A type \in DOMAIN Answer :
      (\E l \in Listeners : Asked(l, type)) ~> (\A l \in Listeners : Told(l, type)) \/ mishap

\* The companion was told that the image is not needed.
Refused ==
    \E i \in 1 .. Len(written) :
      written[i].message.rest = CreateAlbumArtNeededResponse(FALSE)

\* Then it is in its file, unless it is being saved.
RefusedIsSaved == Refused /\ ~saving => art = "whole"

\* Clients that were told of a timezone have one, also after a crash.
ZoneKept ==
    /\ Quiet
    /\ \E item \in events : item.type = MSG_TIME_SYNC /\ item.fields[2] \notin {<<>>, Local}
    => localtime # None
=============================================================================
