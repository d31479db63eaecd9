----------------------------- MODULE MediaState -----------------------------
(***************************************************************************)
(* What the daemon believes the companion plays, and which image it calls  *)
(* the current one (bluetooth/manager.go).                                 *)
(*                                                                         *)
(* The companion reports its whole state on every change.  A notification  *)
(* listener stores the report, and a new album starts a goroutine that     *)
(* looks for its image: in the cache, in a file, at the companion.  An     *)
(* HTTP handler that sends a command stores what it expects before it      *)
(* sends.  `playing' stands for every field a command sets: is_playing,    *)
(* volume_percent, position_ms.                                            *)
(*                                                                         *)
(* Commands are part of the package, not of the daemon as it is built:     *)
(* SendMediaCommand is called by the handlers of /media/..., and the outer *)
(* mux of the server never passes such a path on (server.go:88-101).  With *)
(* Handlers = {} the module is what the running daemon does; a play state  *)
(* posted to /api/v2/media/play-state is queued for the companion and      *)
(* changes nothing that is modelled here.                                  *)
(***************************************************************************)
EXTENDS Integers, Sequences, FiniteSets

CONSTANTS
    Albums,        \* album hashes but 0
    NoAlbum,       \* the hash 0: no image
    NoMedia,       \* currentMediaState = nil
    Filed,         \* albums with an image file named by their album hash
    Listeners,     \* goroutines in handleNotifications
    Handlers,      \* goroutines in an HTTP handler
    maxCacheSize,
    Hurried,       \* changes may come before the last one is dealt with
    MaxChanges, MaxCommands, MaxFaults, MaxAdmin

ASSUME AlbumsAssumption == Filed \subseteq Albums /\ NoAlbum \notin Albums

MediaStates == [playing : BOOLEAN, album : Albums \cup {NoAlbum}]

\* "skip" is next or previous.
Commands == {"play", "pause", "skip"}

(***************************************************************************)
(* Cache keys.  An album hash becomes the key as a decimal numeral, the    *)
(* checksum a transfer starts with as a hexadecimal one: no image has the  *)
(* same key by both.                                                       *)
(***************************************************************************)
AlbumKey(a)    == <<a, "album">>
ChecksumKey(a) == <<a, "checksum">>

\* What is left to do of a look for an image.
Steps == {"cache", "file", "show", "ask"}

VARIABLES
    player,    \* what the companion plays
    inbox,     \* per listener, the reports it has not handled
    media,     \* ManagerV2.currentMediaState
    sending,   \* per handler, the command it is about to send, or "none"
    running,   \* how many looks for an image of an album are at a step
    cache,     \* keys in AlbumArtHandler.cache
    art,       \* album whose image utils.SetCurrentAlbumArt was given last
    queries,   \* albums the companion is asked for and has not answered
    saved,     \* albums whose image was received and saved
    told,      \* albums whose image clients were told is available
    missed,    \* no report followed the last that was lost or overtaken, or
               \* the last failed command
    spent      \* what was used of the bounds

state == <<player, inbox, media, sending, missed>>
looks == <<running, cache, art, queries, saved, told>>
vars  == <<player, inbox, media, sending, running, cache, art, queries, saved, told, missed, spent>>

TypeOK ==
    /\ player \in MediaStates
    /\ inbox \in [Listeners -> Seq(MediaStates)]
    /\ media = NoMedia \/ media \in MediaStates
    /\ sending \in [Handlers -> Commands \cup {"none"}]
    /\ running \in [Albums -> [Steps -> Nat]]
    /\ cache \subseteq Albums \X {"album", "checksum"}
    /\ art \in Albums \cup {NoAlbum}
    /\ queries \in Seq(Albums)
    /\ saved \subseteq Albums /\ told \subseteq Albums
    /\ missed \in BOOLEAN
    /\ spent \in [changes : Nat, commands : Nat, faults : Nat, admin : Nat]

Init ==
    /\ player = [playing |-> FALSE, album |-> NoAlbum]
    /\ inbox = [l \in Listeners |-> <<>>]
    /\ media = NoMedia
    /\ sending = [h \in Handlers |-> "none"]
    /\ running = [a \in Albums |-> [step \in Steps |-> 0]]
    /\ cache = {} /\ art = NoAlbum /\ queries = <<>> /\ saved = {} /\ told = {}
    /\ missed = FALSE
    /\ spent = [changes |-> 0, commands |-> 0, faults |-> 0, admin |-> 0]

Spend(what, limit) ==
    /\ spent[what] < limit
    /\ spent' = [spent EXCEPT ![what] = @ + 1]

\* No goroutine of the daemon or message on its way is left.
Settled ==
    /\ \A l \in Listeners : inbox[l] = <<>>
    /\ \A h \in Handlers : sending[h] = "none"
    /\ \A a \in Albums, step \in Steps : running[a][step] = 0
    /\ queries = <<>>

-----------------------------------------------------------------------------
(***************************************************************************)
(* The companion.                                                          *)
(***************************************************************************)
Report(s) ==
    /\ inbox' = [l \in Listeners |-> Append(inbox[l], s)]
    /\ missed' = FALSE

\* Its user, or time, changes what it plays, or it repeats a report.
PlayerChanges ==
    /\ Hurried \/ Settled
    /\ Spend("changes", MaxChanges)
    /\ player' \in MediaStates
    /\ Report(player')
    /\ UNCHANGED <<media, sending, looks>>

\* The same, and the notification is lost.
ReportLost ==
    /\ spent.changes < MaxChanges /\ Spend("faults", MaxFaults)
    /\ player' \in MediaStates
    /\ missed' = TRUE
    /\ UNCHANGED <<inbox, media, sending, looks>>

\* A signal channel that is full does not keep the order (ble_client_v2.go:492).
SwapReports(l) ==
    /\ Spend("faults", MaxFaults)
    /\ \E i \in 1 .. Len(inbox[l]) - 1 :
         /\ inbox' = [inbox EXCEPT ![l] =
                        [@ EXCEPT ![i] = inbox[l][i + 1], ![i + 1] = inbox[l][i]]]
         /\ missed' = (missed \/ i + 1 = Len(inbox[l]))
    /\ UNCHANGED <<player, media, sending, looks>>

\* What a command makes of the companion's state.
Obeyed(c) ==
    CASE c = "play"  -> {[player EXCEPT !.playing = TRUE]}
      [] c = "pause" -> {[player EXCEPT !.playing = FALSE]}
      [] OTHER       -> {[player EXCEPT !.album = a] : a \in Albums \cup {NoAlbum}}

\* It answers a query.  The start of a transfer that is in the cache is refused;
\* any other completes, and the callback takes the image.
ArtReceived ==
    /\ queries # <<>>
    /\ LET a == Head(queries) IN
         \/ /\ ChecksumKey(a) \in cache
            /\ UNCHANGED <<cache, saved, art, told>>
         \/ /\ ChecksumKey(a) \notin cache
            /\ cache' = cache \cup {ChecksumKey(a)}
            /\ saved' = saved \cup {a}
            /\ art' = a
            /\ told' = told \cup {a}
    /\ queries' = Tail(queries)
    /\ UNCHANGED <<state, running, spent>>

\* It has no image, or the transfer fails: on the link, at the disk, or because
\* the copies of its messages that two listeners handle spoil another transfer
\* (AlbumArt has the transfers message by message).
ArtNotReceived ==
    /\ queries # <<>> /\ Spend("faults", MaxFaults)
    /\ queries' = Tail(queries)
    /\ UNCHANGED <<state, running, cache, art, saved, told>>

-----------------------------------------------------------------------------
(***************************************************************************)
(* The media state.                                                        *)
(***************************************************************************)
IsNewAlbum(s) == media = NoMedia \/ media.album # s.album

\* Mutant: reports wait for no command, they are dropped while one is sent.
UpdateMediaStateHeld(l) ==
    /\ inbox[l] # <<>>
    /\ LET s == Head(inbox[l]) IN
         /\ media' = IF \E h \in Handlers : sending[h] # "none" THEN media ELSE s
         /\ running' = IF IsNewAlbum(s) /\ s.album # NoAlbum
                       THEN [running EXCEPT ![s.album]["cache"] = @ + 1] ELSE running
    /\ inbox' = [inbox EXCEPT ![l] = Tail(@)]
    /\ UNCHANGED <<player, sending, cache, art, queries, saved, told, missed, spent>>

UpdateMediaState(l) ==
    /\ inbox[l] # <<>>
    /\ LET s == Head(inbox[l]) IN
         /\ media' = s
         /\ running' = IF IsNewAlbum(s) /\ s.album # NoAlbum
                       THEN [running EXCEPT ![s.album]["cache"] = @ + 1] ELSE running
    /\ inbox' = [inbox EXCEPT ![l] = Tail(@)]
    /\ UNCHANGED <<player, sending, cache, art, queries, saved, told, missed, spent>>

Expected(c) ==
    CASE c = "play"  -> [media EXCEPT !.playing = TRUE]
      [] c = "pause" -> [media EXCEPT !.playing = FALSE]
      [] OTHER       -> media

\* Up to the unlock: what the command should bring about is stored.
SendMediaCommand(h, c) ==
    /\ sending[h] = "none"
    /\ Hurried \/ Settled
    /\ Spend("commands", MaxCommands)
    /\ media' = IF media = NoMedia THEN NoMedia ELSE Expected(c)
    /\ sending' = [sending EXCEPT ![h] = c]
    /\ UNCHANGED <<player, inbox, missed, looks>>

\* From the unlock on: the command reaches the companion, which reports a change.
SendCommand(h) ==
    /\ sending[h] # "none"
    /\ player' \in Obeyed(sending[h])
    /\ IF player' # player THEN Report(player') ELSE UNCHANGED <<inbox, missed>>
    /\ sending' = [sending EXCEPT ![h] = "none"]
    /\ UNCHANGED <<media, looks, spent>>

\* The write fails, or there is no characteristic; the error is returned.
SendCommandFails(h) ==
    /\ sending[h] # "none" /\ Spend("faults", MaxFaults)
    /\ sending' = [sending EXCEPT ![h] = "none"]
    /\ missed' = TRUE
    /\ UNCHANGED <<player, inbox, media, looks>>

-----------------------------------------------------------------------------
(***************************************************************************)
(* The look for an image: checkAndRequestAlbumArtByHash.                   *)
(***************************************************************************)
Goes(a, from, to) ==
    running' = [running EXCEPT ![a][from] = @ - 1, ![a][to] = @ + 1]

Ends(a, from) == running' = [running EXCEPT ![a][from] = @ - 1]

StoreInCache(key) ==
    IF Cardinality(cache) >= maxCacheSize
    THEN \E k \in cache : cache' = (cache \ {k}) \cup {key}
    ELSE cache' = cache \cup {key}

\* Found, nothing more is done.
LookInCache(a) ==
    /\ running[a]["cache"] > 0
    /\ IF AlbumKey(a) \in cache THEN Ends(a, "cache") ELSE Goes(a, "cache", "file")
    /\ UNCHANGED <<state, cache, art, queries, saved, told, spent>>

\* Mutant: the file is loaded, and the look ends there.
LookForFileOnly(a) ==
    /\ running[a]["file"] > 0
    /\ IF a \in Filed
       THEN StoreInCache(AlbumKey(a)) /\ Ends(a, "file")
       ELSE Goes(a, "file", "ask") /\ UNCHANGED cache
    /\ UNCHANGED <<state, art, queries, saved, told, spent>>

LookForFile(a) ==
    /\ running[a]["file"] > 0
    /\ IF a \in Filed
       THEN StoreInCache(AlbumKey(a)) /\ Goes(a, "file", "show")
       ELSE Goes(a, "file", "ask") /\ UNCHANGED cache
    /\ UNCHANGED <<state, art, queries, saved, told, spent>>

\* The directory cannot be made, or the file that is there cannot be read.
LookForFileFails(a) ==
    /\ running[a]["file"] > 0 /\ Spend("faults", MaxFaults)
    /\ Ends(a, "file") \/ (a \in Filed /\ Goes(a, "file", "ask"))
    /\ UNCHANGED <<state, cache, art, queries, saved, told>>

ShowFile(a) ==
    /\ running[a]["show"] > 0
    /\ Ends(a, "show")
    /\ art' = a
    /\ told' = told \cup {a}
    /\ UNCHANGED <<state, cache, queries, saved, spent>>

\* requestAlbumArtFromCompanion
Ask(a) ==
    /\ running[a]["ask"] > 0
    /\ Ends(a, "ask")
    /\ \/ queries' = Append(queries, a) /\ UNCHANGED spent
       \/ Spend("faults", MaxFaults) /\ UNCHANGED queries
    /\ UNCHANGED <<state, cache, art, saved, told>>

Look(a) == LookInCache(a) \/ LookForFile(a) \/ ShowFile(a) \/ Ask(a)

-----------------------------------------------------------------------------
(***************************************************************************)
(* Other users of the cache: an upload, the v1 handler that fills it from  *)
(* the file of the current album, and the one that clears it.              *)
(***************************************************************************)
\* The client chooses the key.
Upload ==
    /\ Spend("admin", MaxAdmin)
    /\ \E a \in Albums : StoreInCache(AlbumKey(a)) \/ StoreInCache(ChecksumKey(a))
    /\ UNCHANGED <<state, running, art, queries, saved, told>>

LegacyAlbumArt ==
    /\ Spend("admin", MaxAdmin)
    /\ media # NoMedia
    /\ media.album \in Filed /\ AlbumKey(media.album) \notin cache
    /\ StoreInCache(AlbumKey(media.album))
    /\ UNCHANGED <<state, running, art, queries, saved, told>>

ClearCache ==
    /\ Spend("admin", MaxAdmin)
    /\ cache' = {}
    /\ UNCHANGED <<state, running, art, queries, saved, told>>

-----------------------------------------------------------------------------
Next ==
    \/ PlayerChanges \/ ReportLost
    \/ ArtReceived \/ ArtNotReceived
    \/ \E l \in Listeners : UpdateMediaState(l) \/ SwapReports(l)
    \/ \E h \in Handlers : \/ \E c \in Commands : SendMediaCommand(h, c)
                           \/ SendCommand(h) \/ SendCommandFails(h)
    \/ \E a \in Albums : Look(a) \/ LookForFileFails(a)
    \/ Upload \/ LegacyAlbumArt \/ ClearCache

Spec == Init /\ [][Next]_vars

-----------------------------------------------------------------------------
(***************************************************************************)
(* Properties.                                                             *)
(***************************************************************************)
\* Once all is dealt with, what the daemon stores is what the companion plays,
\* however commands, reports and several listeners overlapped, unless the last
\* report was lost or overtaken by the one before it, or a command failed since;
\* what is lost, overtaken or failed before it is made good by the last report.
SettledAgrees ==
    /\ TypeOK
    /\ Settled /\ ~missed /\ media # NoMedia => media = player

\* Once all is dealt with, and unless something failed or someone else filled
\* the cache, clients have been told of the image of the album that plays,
\* wherever it was found and however many looks for it overlapped.
AlbumAnnounced ==
    Settled /\ media # NoMedia /\ spent.faults = 0 /\ spent.admin = 0
        => media.album \in told \cup {NoAlbum}

\* The same as SettledAgrees, when commands fail but no report is lost.
CurrentMedia == Settled /\ media # NoMedia => media = player

\* Once all is dealt with, the image called current is that of the album that plays.
CurrentArt ==
    Settled /\ media # NoMedia => media.album \in {art, NoAlbum}

\* An album whose image was received and saved is not asked for again.
SavedIsFound ==
    [][\A a \in saved : queries' # Append(queries, a)]_vars
=============================================================================
