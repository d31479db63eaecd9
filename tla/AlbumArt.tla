------------------------------ MODULE AlbumArt ------------------------------
(***************************************************************************)
(* The album-art receive path of nocturned: AlbumArtHandler                *)
(* (bluetooth/album_art.go), the BLE dispatch that feeds it                *)
(* (bluetooth/ble_client_v2.go) and the callbacks the manager hangs on it  *)
(* (bluetooth/manager.go).                                                 *)
(*                                                                         *)
(* An image is the set of its chunks. A chunk carries its index and bytes, *)
(* not the image it belongs to, so a received chunk is abstracted to the   *)
(* image it was cut from (its origin); content is the sequence of origins  *)
(* of the pieces it is made of. A key (hash) is identified with the image  *)
(* the companion announced under it.                                       *)
(*                                                                         *)
(* Every handler operation runs under h.mu, so it is one step. The chunk   *)
(* dispatch takes the lock twice (GetActiveTransfers, then ReceiveChunk)   *)
(* and is two steps.                                                       *)
(***************************************************************************)
EXTENDS Integers, Sequences, FiniteSets

CONSTANTS
    Art,           \* images the companion owns
    Listeners,     \* handleNotifications goroutines (one per connect)
    MaxChunks,     \* the most chunks an image is cut into
    TotalChunks,   \* chunks of each image, as announced by its start message
    Gzipped,       \* images sent gzip-compressed
    maxCacheSize,  \* AlbumArtHandler.maxCacheSize
    ChanCap,       \* capacity of the signal channel of a listener
    Absent,        \* "no entry"
    Torn,          \* a file written only in part
    Foreign,       \* a body posted by an HTTP client, whatever its bytes
    MaxTransfers,  \* bound: transfers the companion starts
    MaxFaults,     \* bound: lost or swapped messages, aborts, stalls, crashes, I/O errors
    MaxAdmin       \* bound: HTTP requests that change the handler

Index == 0 .. MaxChunks - 1

\* What can be assembled from n pieces: the origin of each, Absent for a hole.
Content == UNION {[0 .. n - 1 -> Art \cup {Absent}] : n \in 1 .. MaxChunks}

ASSUME ArtAssumption ==
    /\ MaxChunks \in Nat \ {0}
    /\ TotalChunks \in [Art -> 1 .. MaxChunks]
    /\ Gzipped \subseteq Art
    /\ maxCacheSize \in Nat \ {0}
    /\ ChanCap \in Nat \ {0}
    /\ Absent \notin Art

ASSUME ContentAssumption ==
    /\ Absent \notin Content
    /\ \A S \in SUBSET Index : Absent # S
    /\ Torn \notin Content \cup {Absent}
    /\ Foreign \notin Content \cup {Absent, Torn}

ASSUME BoundAssumption ==
    /\ MaxTransfers \in Nat
    /\ MaxFaults \in Nat
    /\ MaxAdmin \in Nat

VARIABLES
    enabled,  \* AlbumArtHandler.enabled
    active,   \* the keys of AlbumArtHandler.activeTransfers
    chunks,   \* activeTransfers[h].Chunks: the origin of the piece at an index
    stale,    \* active transfers whose LastUpdate is older than maxAge
    cache,    \* AlbumArtHandler.cache
    disk,     \* /var/album_art/<hash>.webp
    current,  \* utils.currentAlbumArt
    inbox,    \* the signal channel of each listener
    chosen,   \* the key a listener took from GetActiveTransfers
    sending,  \* the transfer the companion is in the middle of
    sent,     \* transfers started so far
    faults,   \* faults so far
    admin     \* HTTP requests so far

handler == <<enabled, active, chunks, stale, cache>>
store   == <<disk, current>>
device  == <<handler, store>>
link    == <<inbox, chosen>>
bounds  == <<faults, admin>>
vars    == <<device, link, sending, sent, bounds>>

Message == [type : {"start", "chunk", "end"}, art : Art, index : Index]

NoChunks == [i \in Index |-> Absent]

Image(a) == [i \in 0 .. TotalChunks[a] - 1 |-> a]

Received(c) == {i \in Index : c[i] # Absent}

TypeOK ==
    /\ enabled \in BOOLEAN
    /\ active \subseteq Art
    /\ chunks \in [Art -> [Index -> Art \cup {Absent}]]
    /\ stale \subseteq active
    /\ cache \in [Art -> Content \cup {Absent, Foreign}]
    /\ disk \in [Art -> Content \cup {Absent, Torn}]
    /\ current \in Content \cup {Absent}
    /\ inbox \in [Listeners -> Seq(Message)]
    /\ chosen \in [Listeners -> Art \cup {Absent}]
    /\ sending \in [art : Art, next : 0 .. MaxChunks] \cup {Absent}
    /\ sent \in 0 .. MaxTransfers
    /\ faults \in 0 .. MaxFaults
    /\ admin \in 0 .. MaxAdmin

Init ==
    /\ enabled = TRUE
    /\ active = {}
    /\ chunks = [h \in Art |-> NoChunks]
    /\ stale = {}
    /\ cache = [h \in Art |-> Absent]
    /\ disk = [h \in Art |-> Absent]
    /\ current = Absent
    /\ inbox = [l \in Listeners |-> <<>>]
    /\ chosen = [l \in Listeners |-> Absent]
    /\ sending = Absent
    /\ sent = 0
    /\ faults = 0
    /\ admin = 0

Fault == faults < MaxFaults /\ faults' = faults + 1

-----------------------------------------------------------------------------
(***************************************************************************)
(* The companion and the link (outside src/). The companion sends a start, *)
(* the chunks in order and an end, one transfer at a time; it drops a      *)
(* transfer when the track changes or the link breaks. Every listener      *)
(* receives its own copy of a notification. D-Bus delivers in order until  *)
(* a signal channel is full, which can swap two signals.                   *)
(***************************************************************************)
Notify(m) ==
    \/ /\ \A l \in Listeners : Len(inbox[l]) < ChanCap
       /\ inbox' = [l \in Listeners |-> Append(inbox[l], m)]
       /\ UNCHANGED faults
    \/ Fault /\ UNCHANGED inbox

CompanionStart(a) ==
    /\ sending = Absent
    /\ sent < MaxTransfers
    /\ sent' = sent + 1
    /\ sending' = [art |-> a, next |-> 0]
    /\ Notify([type |-> "start", art |-> a, index |-> 0])
    /\ UNCHANGED <<device, chosen, admin>>

CompanionChunk ==
    /\ sending # Absent
    /\ sending.next < TotalChunks[sending.art]
    /\ sending' = [sending EXCEPT !.next = @ + 1]
    /\ Notify([type |-> "chunk", art |-> sending.art, index |-> sending.next])
    /\ UNCHANGED <<device, chosen, sent, admin>>

CompanionEnd ==
    /\ sending # Absent
    /\ sending.next = TotalChunks[sending.art]
    /\ sending' = Absent
    /\ Notify([type |-> "end", art |-> sending.art, index |-> 0])
    /\ UNCHANGED <<device, chosen, sent, admin>>

CompanionAborts ==
    /\ sending # Absent
    /\ sending' = Absent
    /\ Fault
    /\ UNCHANGED <<device, link, sent, admin>>

\* (the first signal is out of the channel while the listener works on it)
SwapSignals(l) ==
    /\ Fault
    /\ \E i \in 1 .. Len(inbox[l]) - 1 :
          /\ chosen[l] = Absent \/ i > 1
          /\ inbox' = [inbox EXCEPT ![l] =
                         [@ EXCEPT ![i] = inbox[l][i + 1], ![i + 1] = inbox[l][i]]]
    /\ UNCHANGED <<device, chosen, sending, sent, admin>>

-----------------------------------------------------------------------------
(***************************************************************************)
(* Notification handlers. A transfer in the map is always receiving:       *)
(* completeTransfer clears IsReceiving and deletes the entry in one        *)
(* critical section, and leaves both alone when it fails.                  *)
(***************************************************************************)
Handles(l, type) ==
    /\ chosen[l] = Absent
    /\ inbox[l] # <<>>
    /\ Head(inbox[l]).type = type

Consume(l) == inbox' = [inbox EXCEPT ![l] = Tail(@)]

AcceptsStart(h) == enabled /\ cache[h] = Absent /\ h \notin active

StartTransfer(h) ==
    /\ active' = active \cup {h}
    /\ chunks' = [chunks EXCEPT ![h] = NoChunks]
    /\ UNCHANGED <<enabled, stale, cache>>

HandleAlbumArtStart(l) ==
    /\ Handles(l, "start")
    /\ LET h == Head(inbox[l]).art
       IN  \/ AcceptsStart(h) /\ StartTransfer(h)
           \/ ~AcceptsStart(h) /\ UNCHANGED handler
    /\ Consume(l)
    /\ UNCHANGED <<store, chosen, sending, sent, bounds>>

HandleAlbumArtEnd(l) ==
    /\ Handles(l, "end")
    /\ Consume(l)
    /\ UNCHANGED <<device, chosen, sending, sent, bounds>>

\* Mutant: a chunk that finds no transfer begins one.
PickTransferBegins(l) ==
    /\ Handles(l, "chunk")
    /\ \E h \in active \cup {Head(inbox[l]).art} :
          /\ chosen' = [chosen EXCEPT ![l] = h]
          /\ active' = active \cup {h}
    /\ UNCHANGED <<enabled, chunks, stale, cache, store, inbox, sending, sent, bounds>>

\* handleAlbumArtChunk takes whichever transfer the map iteration yields first.
PickTransfer(l) ==
    /\ Handles(l, "chunk")
    /\ \/ /\ \E h \in active : chosen' = [chosen EXCEPT ![l] = h]
          /\ UNCHANGED inbox
       \/ /\ active = {}
          /\ Consume(l)
          /\ UNCHANGED chosen
    /\ UNCHANGED <<device, sending, sent, bounds>>

Stored(h, m) == [chunks[h] EXCEPT ![m.index] = m.art]

\* The gzip trailer accepts the bytes of one whole compressed image only.
Decodes(h, data) == h \in Gzipped => \E a \in Gzipped : data = Image(a)

Assembled(h, c) == [i \in 0 .. TotalChunks[h] - 1 |-> c[i]]

\* Mutant: the map is counted but not searched for holes.
CompleteByCount(h, c) ==
    Cardinality(Received(c)) = TotalChunks[h] /\ Decodes(h, Assembled(h, c))

\* Mutant: a failed decompression is logged and ignored.
CompleteUndecoded(h, c) ==
    /\ Cardinality(Received(c)) = TotalChunks[h]
    /\ 0 .. TotalChunks[h] - 1 \subseteq Received(c)

\* Mutant: off by one.
CompleteLate(h, c) == Cardinality(Received(c)) > TotalChunks[h] /\ Decodes(h, Assembled(h, c))

Complete(h, c) ==
    /\ Cardinality(Received(c)) = TotalChunks[h]
    /\ 0 .. TotalChunks[h] - 1 \subseteq Received(c)
    /\ Decodes(h, Assembled(h, c))

\* saveAlbumArtToFile: an error is logged and ignored; a failed write may
\* leave the file truncated.
SaveAlbumArt(h, data) ==
    \/ disk' = [disk EXCEPT ![h] = data] /\ UNCHANGED faults
    \/ Fault /\ disk' \in {disk, [disk EXCEPT ![h] = Torn]}

CompleteTransfer(h, data) ==
    /\ cache' = [cache EXCEPT ![h] = data]
    /\ SaveAlbumArt(h, data)
    /\ current' = data
    /\ active' = active \ {h}
    /\ stale' = stale \ {h}
    /\ chunks' = [chunks EXCEPT ![h] = NoChunks]
    /\ UNCHANGED enabled

StoreChunk(h, c) ==
    /\ chunks' = [chunks EXCEPT ![h] = c]
    /\ stale' = stale \ {h}
    /\ UNCHANGED <<enabled, active, cache, store, faults>>

Accepts(h) == enabled /\ h \in active

ReceiveChunk(l) ==
    /\ chosen[l] # Absent
    /\ LET h == chosen[l]
           c == Stored(h, Head(inbox[l]))
       IN  \/ /\ Accepts(h)
              /\ Complete(h, c)
              /\ CompleteTransfer(h, Assembled(h, c))
           \/ /\ Accepts(h)
              /\ ~Complete(h, c)
              /\ StoreChunk(h, c)
           \/ ~Accepts(h) /\ UNCHANGED <<device, faults>>
    /\ Consume(l)
    /\ chosen' = [chosen EXCEPT ![l] = Absent]
    /\ UNCHANGED <<sending, sent, admin>>

-----------------------------------------------------------------------------
(***************************************************************************)
(* The cleanup routine, HTTP requests and a crash of the daemon. Time is   *)
(* abstracted to whether a transfer has gone maxAge (five minutes) without *)
(* a chunk; that happening while messages are on their way is a fault.     *)
(***************************************************************************)
Quiet == sending = Absent /\ \A l \in Listeners : inbox[l] = <<>>

GoStale(h) ==
    /\ h \in active \ stale
    /\ \/ Quiet /\ UNCHANGED faults
       \/ ~Quiet /\ Fault
    /\ stale' = stale \cup {h}
    /\ UNCHANGED <<enabled, active, chunks, cache, store, link, sending, sent, admin>>

\* Mutant: only transfers without a chunk are cleaned up.
CleanupEmptyTransfers ==
    LET idle == {h \in stale : Received(chunks[h]) = {}}
    IN  /\ idle # {}
        /\ active' = active \ idle
        /\ stale' = stale \ idle
        /\ UNCHANGED <<enabled, chunks, cache, store, link, sending, sent, bounds>>

CleanupStaleTransfers ==
    /\ stale # {}
    /\ active' = active \ stale
    /\ chunks' = [h \in Art |-> IF h \in stale THEN NoChunks ELSE chunks[h]]
    /\ stale' = {}
    /\ UNCHANGED <<enabled, cache, store, link, sending, sent, bounds>>

Request ==
    /\ admin < MaxAdmin
    /\ admin' = admin + 1
    /\ UNCHANGED <<store, link, sending, sent, faults>>

SetEnabled(b) ==
    /\ Request
    /\ enabled' = b
    /\ UNCHANGED <<active, chunks, stale, cache>>

ClearCache ==
    /\ Request
    /\ cache' = [h \in Art |-> Absent]
    /\ UNCHANGED <<enabled, active, chunks, stale>>

Cached(c) == {h \in Art : c[h] # Absent}

\* The evicted entry is whichever the map iteration yields first, even when
\* the stored key is already present.
StoreInCache(h, data) ==
    /\ \/ /\ Cardinality(Cached(cache)) >= maxCacheSize
          /\ \E k \in Cached(cache) :
                cache' = [[cache EXCEPT ![k] = Absent] EXCEPT ![h] = data]
       \/ /\ Cardinality(Cached(cache)) < maxCacheSize
          /\ cache' = [cache EXCEPT ![h] = data]
    /\ UNCHANGED <<enabled, active, chunks, stale>>

\* POST /api/v2/media/album-art. The body goes to the companion first
\* (SendAlbumArt, chunk by chunk and outside h.mu); without a characteristic,
\* without data or after a failed write nothing is stored. Then the body is
\* cached under the posted hash, which nothing is compared with.
Upload(h) ==
    /\ Request
    /\ StoreInCache(h, Foreign) \/ UNCHANGED handler

\* The daemon dies and is restarted: memory, subscriptions and the link go,
\* files stay.
Restart ==
    /\ Fault
    /\ enabled' = TRUE
    /\ active' = {}
    /\ chunks' = [h \in Art |-> NoChunks]
    /\ stale' = {}
    /\ cache' = [h \in Art |-> Absent]
    /\ current' = Absent
    /\ inbox' = [l \in Listeners |-> <<>>]
    /\ chosen' = [l \in Listeners |-> Absent]
    /\ sending' = Absent
    /\ UNCHANGED <<sent, admin>>

Crash == Restart /\ UNCHANGED disk

CrashDuringSave(l) ==
    /\ chosen[l] # Absent
    /\ Accepts(chosen[l])
    /\ Complete(chosen[l], Stored(chosen[l], Head(inbox[l])))
    /\ Restart
    /\ disk' = [disk EXCEPT ![chosen[l]] = Torn]

-----------------------------------------------------------------------------
Companion == (\E a \in Art : CompanionStart(a)) \/ CompanionChunk \/ CompanionEnd

Handle(l) == HandleAlbumArtStart(l) \/ HandleAlbumArtEnd(l) \/ PickTransfer(l) \/ ReceiveChunk(l)

Next ==
    \/ Companion
    \/ CompanionAborts
    \/ \E l \in Listeners : Handle(l) \/ SwapSignals(l) \/ CrashDuringSave(l)
    \/ \E h \in Art : GoStale(h) \/ Upload(h)
    \/ CleanupStaleTransfers
    \/ \E b \in BOOLEAN : SetEnabled(b)
    \/ ClearCache
    \/ Crash

Spec == Init /\ [][Next]_vars

(***************************************************************************)
(* Each listener is a goroutine that always runs; the cleanup ticker fires *)
(* forever and time passes; a companion in the middle of a transfer goes   *)
(* on. Starting a transfer, HTTP requests and faults carry no fairness.    *)
(***************************************************************************)
Fairness ==
    /\ \A l \in Listeners : WF_vars(Handle(l))
    /\ \A h \in Art : WF_vars(GoStale(h))
    /\ WF_vars(CleanupStaleTransfers)
    /\ WF_vars(CompanionChunk \/ CompanionEnd)

FairSpec == Spec /\ Fairness

-----------------------------------------------------------------------------
\* A listener that has chosen a transfer is still working on a chunk.
ChosenHasChunk ==
    \A l \in Listeners : chosen[l] # Absent => inbox[l] # <<>> /\ Head(inbox[l]).type = "chunk"

\* What was received and stored under a key has every piece its start message
\* announced, whatever was lost, swapped, repeated or taken from another
\* transfer: completeTransfer counts the map first and looks for holes second.
\* Only the cache may hold a posted body instead (the types are part of this).
Whole(h) == [0 .. TotalChunks[h] - 1 -> Art]

StoredIsWhole ==
    /\ TypeOK
    /\ \A h \in Art : cache[h] \notin {Absent, Foreign} => cache[h] \in Whole(h)
    /\ \A h \in Art : disk[h] \notin {Absent, Torn} => disk[h] \in Whole(h)
    /\ current # Absent => \E h \in Art : current \in Whole(h)

\* A compressed image never enters the cache or a file as a mixture of two:
\* decompressGzip fails first (the md5 comparison that follows rejects nothing).
GzipNeverMixed ==
    \A h \in Gzipped : \A c \in {cache[h], disk[h]} :
        c \in Content => \E a \in Gzipped : c = Image(a)

\* A transfer comes to be only by a start message for its key: a chunk that
\* chose it before it was completed, cleaned up or lost does not revive it.
\* (handleAlbumArtChunk reads the map and calls ReceiveChunk later.)
NoResurrection ==
    [][\A h \in active' \ active :
          chunks'[h] = NoChunks /\ \E l \in Listeners : Handles(l, "start") /\ Head(inbox[l]).art = h]_vars

\* A transfer holding every chunk it announced has been completed: none sits
\* in the map with all its data (comment at ble_client_v2.go:798).
CompleteWhenAllReceived ==
    \A h \in active : ~(0 .. TotalChunks[h] - 1 \subseteq Received(chunks[h]))

\* What was received and cached under a key is the image announced under it.
StoredIsTheImage ==
    \A h \in Art : cache[h] \notin {Absent, Foreign} => cache[h] = Image(h)

\* The cache holds no more than maxCacheSize images.
CacheBounded == Cardinality(Cached(cache)) <= maxCacheSize

\* No transfer stays in the map for ever: it completes, or goes stale and is
\* removed, however its chunks were lost or taken by another transfer.
Reclaimed == \A h \in Art : h \in active ~> h \notin active

\* With one listener, an image the companion starts to send ends up in the
\* cache as that image, unless a fault or an HTTP request has interfered.
Delivered ==
    \A a \in Art : (sending # Absent /\ sending.art = a) ~>
                      cache[a] = Image(a) \/ faults > 0 \/ admin > 0

ReceivedSet == [h \in Art |-> IF h \in active THEN Received(chunks[h]) ELSE Absent]

\* Reassembly as the rest of the daemon may rely on it.
Reassembly == INSTANCE ArtReassembly WITH got <- ReceivedSet, stored <- Cached(cache)

ReassemblySpec == Reassembly!Spec
=============================================================================
