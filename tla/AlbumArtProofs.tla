--------------------------- MODULE AlbumArtProofs ---------------------------
(***************************************************************************)
(* Theorems about AlbumArt, for every set of images, listeners and bounds. *)
(***************************************************************************)
EXTENDS AlbumArt, TLAPS, SequenceTheorems, FiniteSetTheorems

USE DEF Index

\* An image assembled from a chunk map is content, whatever the map holds.
LEMMA AssembledIsContent ==
    ASSUME NEW h \in Art, NEW c \in [Index -> Art \cup {Absent}]
    PROVE  Assembled(h, c) \in Content
<1>1. TotalChunks[h] \in 1 .. MaxChunks
  BY ArtAssumption
<1>2. 0 .. TotalChunks[h] - 1 \subseteq Index
  BY <1>1, ArtAssumption
<1>3. Assembled(h, c) \in [0 .. TotalChunks[h] - 1 -> Art \cup {Absent}]
  BY <1>2 DEF Assembled
<1> QED
  BY <1>1, <1>3 DEF Content

\* A map with no hole below the announced count assembles to a whole image.
LEMMA CompleteIsWhole ==
    ASSUME NEW h \in Art, NEW c \in [Index -> Art \cup {Absent}], Complete(h, c)
    PROVE  Assembled(h, c) \in Whole(h)
<1>1. TotalChunks[h] \in 1 .. MaxChunks
  BY ArtAssumption
<1>2. \A i \in 0 .. TotalChunks[h] - 1 : i \in Index /\ c[i] # Absent
  BY <1>1 DEF Complete, Received
<1> QED
  BY <1>2 DEF Assembled, Whole

-----------------------------------------------------------------------------
(***************************************************************************)
(* Type correctness.                                                       *)
(***************************************************************************)
\* Saving an image leaves well-formed files, whether the write succeeds or not.
LEMMA SavePreserves ==
    ASSUME disk \in [Art -> Content \cup {Absent, Torn}], faults \in 0 .. MaxFaults,
           NEW h \in Art, NEW data \in Content, SaveAlbumArt(h, data)
    PROVE  /\ disk' \in [Art -> Content \cup {Absent, Torn}]
           /\ faults' \in 0 .. MaxFaults
<1>1. CASE disk' = [disk EXCEPT ![h] = data] /\ UNCHANGED faults
  BY <1>1
<1>2. CASE Fault /\ disk' \in {disk, [disk EXCEPT ![h] = Torn]}
  <2>1. disk' \in [Art -> Content \cup {Absent, Torn}]
    BY <1>2
  <2>2. faults' \in 0 .. MaxFaults
    BY <1>2, BoundAssumption DEF Fault
  <2> QED
    BY <2>1, <2>2
<1> QED
  BY <1>1, <1>2 DEF SaveAlbumArt

\* The chunk a listener is working on goes into a well-formed chunk map.
LEMMA StoredIsChunkMap ==
    ASSUME TypeOK, ChosenHasChunk, NEW l \in Listeners, chosen[l] # Absent
    PROVE  /\ chosen[l] \in Art
           /\ inbox[l] # <<>>
           /\ Head(inbox[l]).art \in Art
           /\ Stored(chosen[l], Head(inbox[l])) \in [Index -> Art \cup {Absent}]
<1>1. chosen[l] \in Art /\ inbox[l] \in Seq(Message) /\ inbox[l] # <<>>
  BY DEF TypeOK, ChosenHasChunk
<1>2. Head(inbox[l]) \in Message
  BY <1>1, HeadTailProperties
<1>3. Head(inbox[l]).art \in Art /\ Head(inbox[l]).index \in Index
  BY <1>2 DEF Message
<1>4. chunks[chosen[l]] \in [Index -> Art \cup {Absent}]
  BY <1>1 DEF TypeOK
<1> QED
  BY <1>1, <1>3, <1>4 DEF Stored

Inv == TypeOK /\ ChosenHasChunk

\* A message added at the end leaves the head of a nonempty channel alone.
LEMMA NotifyPreserves ==
    ASSUME Inv, NEW m \in Message, Notify(m)
    PROVE  /\ inbox' \in [Listeners -> Seq(Message)]
           /\ faults' \in 0 .. MaxFaults
           /\ \A l \in Listeners : inbox[l] # <<>> =>
                 inbox'[l] # <<>> /\ Head(inbox'[l]) = Head(inbox[l])
<1>1. CASE UNCHANGED faults /\ inbox' = [l \in Listeners |-> Append(inbox[l], m)]
  <2>1. ASSUME NEW l \in Listeners
        PROVE  /\ Append(inbox[l], m) \in Seq(Message)
               /\ inbox[l] # <<>> => /\ Append(inbox[l], m) # <<>>
                                     /\ Head(Append(inbox[l], m)) = Head(inbox[l])
    <3>1. inbox[l] \in Seq(Message)
      BY DEF Inv, TypeOK
    <3> QED
      BY <3>1, AppendProperties
  <2> QED
    BY <1>1, <2>1 DEF Inv, TypeOK
<1>2. CASE Fault /\ UNCHANGED inbox
  BY <1>2, BoundAssumption DEF Fault, Inv, TypeOK
<1> QED
  BY <1>1, <1>2 DEF Notify

\* Taking the head off a channel.
LEMMA ConsumePreserves ==
    ASSUME Inv, NEW l \in Listeners, inbox[l] # <<>>, Consume(l)
    PROVE  /\ inbox' \in [Listeners -> Seq(Message)]
           /\ \A k \in Listeners \ {l} : inbox'[k] = inbox[k]
<1>1. inbox[l] \in Seq(Message)
  BY DEF Inv, TypeOK
<1>2. Tail(inbox[l]) \in Seq(Message)
  BY <1>1, HeadTailProperties
<1> QED
  BY <1>2 DEF Consume, Inv, TypeOK

\* Type correctness, and: a listener that has chosen a transfer is still
\* holding the chunk it chose it for.
LEMMA InvHolds == Spec => []Inv
<1> USE ArtAssumption, BoundAssumption
<1>1. Init => Inv
  <2> SUFFICES ASSUME Init PROVE Inv
    OBVIOUS
  <2>1. NoChunks \in [Index -> Art \cup {Absent}]
    BY DEF NoChunks
  <2> QED
    BY <2>1 DEF Init, Inv, TypeOK, ChosenHasChunk
<1>2. Inv /\ [Next]_vars => Inv'
  <2> SUFFICES ASSUME Inv, [Next]_vars PROVE Inv'
    OBVIOUS
  <2> USE DEF Inv
  <2>0. NoChunks \in [Index -> Art \cup {Absent}]
    BY DEF NoChunks
  <2>1. ASSUME NEW a \in Art, CompanionStart(a) PROVE Inv'
    <3> DEFINE m == [type |-> "start", art |-> a, index |-> 0]
    <3>1. m \in Message
      BY DEF Message
    <3>2. Notify(m)
      BY <2>1 DEF CompanionStart
    <3>3. sent' \in 0 .. MaxTransfers
      BY <2>1 DEF CompanionStart, TypeOK
    <3>4. sending' \in [art : Art, next : 0 .. MaxChunks] \cup {Absent}
      BY <2>1 DEF CompanionStart
    <3> HIDE DEF m
    <3> QED
      BY <2>1, <3>1, <3>2, <3>3, <3>4, NotifyPreserves
         DEF CompanionStart, TypeOK, ChosenHasChunk, device, handler, store
  <2>2. ASSUME CompanionChunk PROVE Inv'
    <3> DEFINE m == [type |-> "chunk", art |-> sending.art, index |-> sending.next]
    <3>1. sending \in [art : Art, next : 0 .. MaxChunks] /\ sending.next < TotalChunks[sending.art]
      BY <2>2 DEF CompanionChunk, TypeOK
    <3>2. TotalChunks[sending.art] \in 1 .. MaxChunks
      BY <3>1
    <3>3. m \in Message
      BY <3>1, <3>2 DEF Message
    <3>4. Notify(m)
      BY <2>2 DEF CompanionChunk
    <3>5. sending' \in [art : Art, next : 0 .. MaxChunks]
      BY <2>2, <3>1, <3>2 DEF CompanionChunk
    <3> HIDE DEF m
    <3> QED
      BY <2>2, <3>3, <3>4, <3>5, NotifyPreserves
         DEF CompanionChunk, TypeOK, ChosenHasChunk, device, handler, store
  <2>3. ASSUME CompanionEnd PROVE Inv'
    <3> DEFINE m == [type |-> "end", art |-> sending.art, index |-> 0]
    <3>1. m \in Message
      BY <2>3 DEF CompanionEnd, TypeOK, Message
    <3>2. Notify(m)
      BY <2>3 DEF CompanionEnd
    <3> HIDE DEF m
    <3> QED
      BY <2>3, <3>1, <3>2, NotifyPreserves
         DEF CompanionEnd, TypeOK, ChosenHasChunk, device, handler, store
  <2>4. CASE CompanionAborts
    BY <2>4 DEF CompanionAborts, Fault, TypeOK, ChosenHasChunk, device, handler, store, link
  <2>5. ASSUME NEW l \in Listeners, HandleAlbumArtStart(l) PROVE Inv'
    <3>1. inbox[l] \in Seq(Message) /\ inbox[l] # <<>> /\ chosen[l] = Absent
      BY <2>5 DEF HandleAlbumArtStart, Handles, TypeOK
    <3> DEFINE h == Head(inbox[l]).art
    <3>2. Head(inbox[l]) \in Message
      BY <3>1, HeadTailProperties
    <3>3. h \in Art
      BY <3>2 DEF Message
    <3>4. StartTransfer(h) \/ UNCHANGED handler
      BY <2>5 DEF HandleAlbumArtStart
    <3> HIDE DEF h
    <3>5. /\ active' \subseteq Art
          /\ chunks' \in [Art -> [Index -> Art \cup {Absent}]]
          /\ stale' \subseteq active'
          /\ UNCHANGED <<enabled, cache>>
      <4>1. CASE StartTransfer(h)
        <5>1. chunks' \in [Art -> [Index -> Art \cup {Absent}]]
          BY <2>0, <3>3, <4>1 DEF StartTransfer, TypeOK
        <5> QED
          BY <3>3, <4>1, <5>1 DEF StartTransfer, TypeOK
      <4>2. CASE UNCHANGED handler
        BY <4>2 DEF TypeOK, handler
      <4> QED
        BY <3>4, <4>1, <4>2
    <3> QED
      BY <2>5, <3>1, <3>5, ConsumePreserves
         DEF HandleAlbumArtStart, TypeOK, ChosenHasChunk, store, bounds
  <2>6. ASSUME NEW l \in Listeners, HandleAlbumArtEnd(l) PROVE Inv'
    <3>1. inbox[l] # <<>> /\ chosen[l] = Absent
      BY <2>6 DEF HandleAlbumArtEnd, Handles
    <3> QED
      BY <2>6, <3>1, ConsumePreserves
         DEF HandleAlbumArtEnd, TypeOK, ChosenHasChunk, device, handler, store, bounds
  <2>7. ASSUME NEW l \in Listeners, PickTransfer(l) PROVE Inv'
    <3>1. inbox[l] # <<>> /\ chosen[l] = Absent /\ Head(inbox[l]).type = "chunk"
      BY <2>7 DEF PickTransfer, Handles
    <3>2. CASE UNCHANGED inbox /\ \E h \in active : chosen' = [chosen EXCEPT ![l] = h]
      BY <2>7, <3>1, <3>2
         DEF PickTransfer, TypeOK, ChosenHasChunk, device, handler, store, bounds
    <3>3. CASE Consume(l) /\ UNCHANGED chosen
      BY <2>7, <3>1, <3>3, ConsumePreserves
         DEF PickTransfer, TypeOK, ChosenHasChunk, device, handler, store, bounds
    <3> QED
      BY <2>7, <3>2, <3>3 DEF PickTransfer
  <2>8. ASSUME NEW l \in Listeners, ReceiveChunk(l) PROVE Inv'
    <3> DEFINE h == chosen[l]
               c == Stored(h, Head(inbox[l]))
    <3>1. h \in Art /\ inbox[l] # <<>> /\ c \in [Index -> Art \cup {Absent}]
      BY <2>8, StoredIsChunkMap DEF ReceiveChunk
    <3>2. Assembled(h, c) \in Content
      BY <3>1, AssembledIsContent
    <3>3. inbox' \in [Listeners -> Seq(Message)] /\ \A k \in Listeners \ {l} : inbox'[k] = inbox[k]
      BY <2>8, <3>1, ConsumePreserves DEF ReceiveChunk
    <3>4. chosen' \in [Listeners -> Art \cup {Absent}] /\ ChosenHasChunk'
      BY <2>8, <3>3 DEF ReceiveChunk, TypeOK, ChosenHasChunk
    <3>5. UNCHANGED <<sending, sent, admin>>
      BY <2>8 DEF ReceiveChunk
    <3> HIDE DEF c
    <3>6. CASE CompleteTransfer(h, Assembled(h, c))
      <4> DEFINE data == Assembled(h, c)
      <4> HIDE DEF data
      <4>1. chunks' \in [Art -> [Index -> Art \cup {Absent}]]
        BY <2>0, <3>1, <3>6 DEF CompleteTransfer, TypeOK
      <4>2. /\ cache' \in [Art -> Content \cup {Absent, Foreign}]
            /\ current' \in Content \cup {Absent}
            /\ active' \subseteq Art /\ stale' \subseteq active'
            /\ UNCHANGED enabled
        BY <3>1, <3>2, <3>6 DEF CompleteTransfer, TypeOK
      <4>3. /\ disk' \in [Art -> Content \cup {Absent, Torn}]
            /\ faults' \in 0 .. MaxFaults
        <5>1. disk \in [Art -> Content \cup {Absent, Torn}] /\ faults \in 0 .. MaxFaults
          BY DEF TypeOK
        <5>2. data \in Content /\ SaveAlbumArt(h, data)
          BY <3>2, <3>6 DEF CompleteTransfer, data
        <5> QED
          BY <3>1, <5>1, <5>2, SavePreserves
      <4> QED
        BY <3>3, <3>4, <3>5, <4>1, <4>2, <4>3 DEF TypeOK
    <3>7. CASE StoreChunk(h, c)
      BY <3>1, <3>3, <3>4, <3>5, <3>7 DEF StoreChunk, TypeOK, store
    <3>8. CASE UNCHANGED <<device, faults>>
      BY <3>3, <3>4, <3>5, <3>8 DEF TypeOK, device, handler, store
    <3> QED
      BY <2>8, <3>6, <3>7, <3>8 DEF ReceiveChunk, c
  <2>9. ASSUME NEW l \in Listeners, SwapSignals(l) PROVE Inv'
    <3>1. PICK i \in 1 .. Len(inbox[l]) - 1 :
             /\ chosen[l] = Absent \/ i > 1
             /\ inbox' = [inbox EXCEPT ![l] =
                            [@ EXCEPT ![i] = inbox[l][i + 1], ![i + 1] = inbox[l][i]]]
      BY <2>9 DEF SwapSignals
    <3> DEFINE s == [inbox[l] EXCEPT ![i] = inbox[l][i + 1], ![i + 1] = inbox[l][i]]
    <3>2. inbox[l] \in Seq(Message)
      BY DEF TypeOK
    <3>3. s \in Seq(Message) /\ Len(s) = Len(inbox[l]) /\ (i > 1 => s[1] = inbox[l][1])
      <4> DEFINE t == [inbox[l] EXCEPT ![i] = inbox[l][i + 1]]
      <4>0. i \in 1 .. Len(inbox[l]) /\ i + 1 \in 1 .. Len(inbox[l])
        BY <3>1, <3>2, LenProperties
      <4>1. inbox[l][i] \in Message /\ inbox[l][i + 1] \in Message
        BY <3>2, <4>0, ElementOfSeq
      <4>2. t \in Seq(Message) /\ Len(t) = Len(inbox[l]) /\ (i > 1 => t[1] = inbox[l][1])
        BY <3>2, <4>0, <4>1, ExceptSeq
      <4>3. s = [t EXCEPT ![i + 1] = inbox[l][i]]
        OBVIOUS
      <4> HIDE DEF t, s
      <4> QED
        BY <4>0, <4>1, <4>2, <4>3, ExceptSeq
    <3>4. i > 1 => s # <<>> /\ Head(s) = Head(inbox[l])
      <4> HIDE DEF s
      <4> QED
        BY <3>1, <3>2, <3>3, HeadTailProperties, EmptySeq
    <3>5. inbox' = [inbox EXCEPT ![l] = s]
      BY <3>1
    <3> HIDE DEF s
    <3>6. inbox' \in [Listeners -> Seq(Message)]
      BY <3>3, <3>5 DEF TypeOK
    <3>7. UNCHANGED <<device, chosen, sending, sent, admin>> /\ Fault
      BY <2>9 DEF SwapSignals
    <3>8. ChosenHasChunk'
      BY <3>1, <3>4, <3>5, <3>7 DEF ChosenHasChunk, TypeOK
    <3> QED
      BY <3>6, <3>7, <3>8 DEF Fault, TypeOK, device, handler, store
  <2>10. CASE Restart /\ (UNCHANGED disk \/ \E h \in Art : disk' = [disk EXCEPT ![h] = Torn])
    <3>1. disk' \in [Art -> Content \cup {Absent, Torn}]
      BY <2>10 DEF TypeOK
    <3>2. chunks' \in [Art -> [Index -> Art \cup {Absent}]]
      BY <2>0, <2>10 DEF Restart
    <3> QED
      BY <2>10, <3>1, <3>2 DEF Restart, Fault, TypeOK, ChosenHasChunk
  <2>11. ASSUME NEW l \in Listeners, CrashDuringSave(l) PROVE Inv'
    BY <2>10, <2>11 DEF CrashDuringSave, TypeOK
  <2>12. ASSUME NEW h \in Art, GoStale(h) PROVE Inv'
    BY <2>12 DEF GoStale, Fault, TypeOK, ChosenHasChunk, store, link
  <2>13. CASE CleanupStaleTransfers
    BY <2>0, <2>13 DEF CleanupStaleTransfers, TypeOK, ChosenHasChunk, store, link, bounds
  <2>14. ASSUME Request, UNCHANGED <<active, chunks, stale>>,
                enabled' \in BOOLEAN, cache' \in [Art -> Content \cup {Absent, Foreign}]
         PROVE  Inv'
    BY <2>14 DEF Request, TypeOK, ChosenHasChunk, store, link
  <2>15. ASSUME NEW h \in Art, Upload(h) PROVE Inv'
    <3>1. cache' \in [Art -> Content \cup {Absent, Foreign}]
      BY <2>15 DEF Upload, StoreInCache, TypeOK, handler
    <3>2. Request /\ UNCHANGED <<enabled, active, chunks, stale>>
      BY <2>15 DEF Upload, StoreInCache, handler
    <3> QED
      BY <2>14, <3>1, <3>2 DEF TypeOK
  <2>16. ASSUME NEW b \in BOOLEAN, SetEnabled(b) PROVE Inv'
    BY <2>14, <2>16 DEF SetEnabled, TypeOK
  <2>17. CASE ClearCache
    BY <2>14, <2>17 DEF ClearCache, TypeOK
  <2>18. CASE Crash
    BY <2>10, <2>18 DEF Crash
  <2>19. CASE UNCHANGED vars
    BY <2>19 DEF vars, device, handler, store, link, bounds, TypeOK, ChosenHasChunk
  <2> QED
    BY <2>1, <2>2, <2>3, <2>4, <2>5, <2>6, <2>7, <2>8, <2>9, <2>11, <2>12, <2>13,
       <2>15, <2>16, <2>17, <2>18, <2>19 DEF Next, Companion, Handle
<1> QED
  BY <1>1, <1>2, PTL DEF Spec

-----------------------------------------------------------------------------
(***************************************************************************)
(* What enters the cache, a file or the current image.                     *)
(***************************************************************************)
Good(h, c) == c \in Whole(h) /\ (h \in Gzipped => \E a \in Gzipped : c = Image(a))

OnlyGoodStored ==
    /\ \A h \in Art : cache'[h] \in {cache[h], Absent, Foreign} \/ Good(h, cache'[h])
    /\ \A h \in Art : disk'[h] \in {disk[h], Torn} \/ Good(h, disk'[h])
    /\ current' \in {current, Absent} \/ \E h \in Art : Good(h, current')

\* A step keeps what is stored, drops it, tears a file, caches a posted body, or
\* stores whole content that decodes.
LEMMA StoreStep == Inv /\ [Next]_vars => OnlyGoodStored
<1> SUFFICES ASSUME Inv, [Next]_vars PROVE OnlyGoodStored
  OBVIOUS
<1> USE DEF OnlyGoodStored
<1>0. /\ cache \in [Art -> Content \cup {Absent, Foreign}]
      /\ disk \in [Art -> Content \cup {Absent, Torn}]
  BY DEF Inv, TypeOK
<1>1. CASE UNCHANGED <<cache, disk, current>>
  BY <1>1
<1>2. CASE Companion
  BY <1>1, <1>2 DEF Companion, CompanionStart, CompanionChunk, CompanionEnd, device, handler, store
<1>3. CASE CompanionAborts
  BY <1>1, <1>3 DEF CompanionAborts, device, handler, store
<1>4. ASSUME NEW l \in Listeners,
             HandleAlbumArtStart(l) \/ HandleAlbumArtEnd(l) \/ PickTransfer(l) \/ SwapSignals(l)
      PROVE  OnlyGoodStored
  <2>1. UNCHANGED <<cache, disk, current>>
    BY <1>4 DEF HandleAlbumArtStart, StartTransfer, HandleAlbumArtEnd, PickTransfer, SwapSignals,
                device, handler, store
  <2> QED
    BY <1>1, <2>1
<1>5. ASSUME NEW l \in Listeners, ReceiveChunk(l) PROVE OnlyGoodStored
  <2> DEFINE h == chosen[l]
             c == Stored(h, Head(inbox[l]))
             data == Assembled(h, c)
  <2>1. h \in Art /\ c \in [Index -> Art \cup {Absent}]
    BY <1>5, StoredIsChunkMap DEF ReceiveChunk, Inv
  <2>2. \/ Complete(h, c) /\ CompleteTransfer(h, data)
        \/ UNCHANGED <<cache, disk, current>>
    BY <1>5 DEF ReceiveChunk, StoreChunk, device, handler, store
  <2>3. Complete(h, c) => Good(h, data)
    <3>1. SUFFICES ASSUME Complete(h, c) PROVE Good(h, data)
      OBVIOUS
    <3>2. data \in Whole(h)
      BY <2>1, <3>1, CompleteIsWhole
    <3> QED
      BY <3>1, <3>2 DEF Good, Complete, Decodes
  <2> HIDE DEF c, data
  <2>4. CASE Complete(h, c) /\ CompleteTransfer(h, data)
    BY <1>0, <2>1, <2>3, <2>4 DEF CompleteTransfer, SaveAlbumArt
  <2> QED
    BY <1>1, <2>2, <2>4
<1>6. CASE Restart /\ (UNCHANGED disk \/ \E h \in Art : disk' = [disk EXCEPT ![h] = Torn])
  <2>1. \A h \in Art : cache'[h] = Absent /\ current' = Absent
    BY <1>6 DEF Restart
  <2>2. \A h \in Art : disk'[h] \in {disk[h], Torn}
    BY <1>0, <1>6
  <2> QED
    BY <1>6, <2>1, <2>2 DEF Restart
<1>7. ASSUME NEW l \in Listeners, CrashDuringSave(l) PROVE OnlyGoodStored
  BY <1>6, <1>7 DEF CrashDuringSave, Inv, TypeOK
<1>8. CASE Crash
  BY <1>6, <1>8 DEF Crash
<1>9. ASSUME NEW h \in Art, GoStale(h) PROVE OnlyGoodStored
  BY <1>1, <1>9 DEF GoStale, store
<1>10. ASSUME NEW h \in Art, Upload(h) PROVE OnlyGoodStored
  <2>1. UNCHANGED <<disk, current>>
    BY <1>10 DEF Upload, Request, store
  <2>2. CASE UNCHANGED handler
    BY <1>1, <2>1, <2>2 DEF handler
  <2>3. CASE \E e \in Art : cache' = [[cache EXCEPT ![e] = Absent] EXCEPT ![h] = Foreign]
    <3>1. PICK e \in Art : cache' = [[cache EXCEPT ![e] = Absent] EXCEPT ![h] = Foreign]
      BY <2>3
    <3> DEFINE d == [cache EXCEPT ![e] = Absent]
    <3>2. d \in [Art -> Content \cup {Absent, Foreign}] /\ \A k \in Art : d[k] \in {cache[k], Absent}
      BY <1>0
    <3> HIDE DEF d
    <3>3. cache' = [d EXCEPT ![h] = Foreign]
      BY <3>1 DEF d
    <3> QED
      BY <2>1, <3>2, <3>3
  <2>4. CASE cache' = [cache EXCEPT ![h] = Foreign]
    BY <1>0, <2>1, <2>4
  <2> QED
    BY <1>10, <2>2, <2>3, <2>4 DEF Upload, StoreInCache, Cached
<1>11. CASE CleanupStaleTransfers
  BY <1>1, <1>11 DEF CleanupStaleTransfers, store
<1>12. ASSUME NEW b \in BOOLEAN, SetEnabled(b) PROVE OnlyGoodStored
  BY <1>1, <1>12 DEF SetEnabled, Request, store
<1>13. CASE ClearCache
  <2>1. UNCHANGED <<disk, current>> /\ \A k \in Art : cache'[k] = Absent
    BY <1>13 DEF ClearCache, Request, store
  <2> QED
    BY <2>1
<1>14. CASE UNCHANGED vars
  BY <1>1, <1>14 DEF vars, device, handler, store
<1> QED
  BY <1>2, <1>3, <1>4, <1>5, <1>7, <1>8, <1>9, <1>10, <1>11, <1>12, <1>13, <1>14
     DEF Next, Handle

\* What is received and stored under a key always has every piece announced for
\* it: no loss, swap, repetition, mix-up, crash or failed write leaves a hole, and
\* a posted body goes nowhere but to the cache.
THEOREM StoredWhole == Spec => []StoredIsWhole
<1>0. Inv => TypeOK
  BY DEF Inv
<1>1. Inv /\ Init => StoredIsWhole
  BY <1>0 DEF Init, StoredIsWhole
<1>2. Inv /\ Inv' /\ StoredIsWhole /\ [Next]_vars => StoredIsWhole'
  <2> SUFFICES ASSUME Inv, Inv', StoredIsWhole, [Next]_vars PROVE StoredIsWhole'
    OBVIOUS
  <2>0. TypeOK'
    BY DEF Inv
  <2>1. OnlyGoodStored
    BY StoreStep
  <2>2. \A h \in Art : cache'[h] \notin {Absent, Foreign} => cache'[h] \in Whole(h)
    BY <2>1 DEF OnlyGoodStored, StoredIsWhole, Good
  <2>3. \A h \in Art : disk'[h] \notin {Absent, Torn} => disk'[h] \in Whole(h)
    BY <2>1 DEF OnlyGoodStored, StoredIsWhole, Good
  <2>4. current' # Absent => \E h \in Art : current' \in Whole(h)
    BY <2>1 DEF OnlyGoodStored, StoredIsWhole, Good
  <2>5. \A h \in Art : Whole(h)' = Whole(h)
    BY DEF Whole
  <2> QED
    BY <2>0, <2>2, <2>3, <2>4, <2>5 DEF StoredIsWhole, Whole
<1> QED
  BY <1>1, <1>2, InvHolds, PTL DEF Spec

\* A key announced as compressed never holds a mixture of two images.
THEOREM GzipProtects == Spec => []GzipNeverMixed
<1>1. Init => GzipNeverMixed
  BY ContentAssumption, ArtAssumption DEF Init, GzipNeverMixed
<1>2. Inv /\ GzipNeverMixed /\ [Next]_vars => GzipNeverMixed'
  <2> SUFFICES ASSUME Inv, GzipNeverMixed, [Next]_vars,
                      NEW h \in Gzipped,
                      NEW c \in {cache[h], disk[h]}',
                      c \in Content
               PROVE  \E a \in Gzipped : c = Image(a)
    BY Zenon DEF GzipNeverMixed, Content, Image
  <2>1. OnlyGoodStored /\ h \in Art
    BY StoreStep, ArtAssumption
  <2>2. c \in {cache[h], disk[h], Absent, Torn, Foreign} \/ Good(h, c)
    BY <2>1 DEF OnlyGoodStored
  <2>3. c \notin {Absent, Torn, Foreign}
    BY ContentAssumption
  <2> QED
    BY <2>2, <2>3 DEF Good, GzipNeverMixed
<1> QED
  BY <1>1, <1>2, InvHolds, PTL DEF Spec

-----------------------------------------------------------------------------
(***************************************************************************)
(* AlbumArt implements ArtReassembly.                                      *)
(***************************************************************************)

\* Counting the map first is enough: a map with as many entries as announced
\* and none missing has exactly the announced ones.
LEMMA CompleteIsExact ==
    ASSUME NEW h \in Art, NEW c, Complete(h, c)
    PROVE  Received(c) = 0 .. TotalChunks[h] - 1
<1>1. TotalChunks[h] \in 1 .. MaxChunks
  BY ArtAssumption
<1>2. IsFiniteSet(0 .. TotalChunks[h] - 1) /\ Cardinality(0 .. TotalChunks[h] - 1) = TotalChunks[h]
  BY <1>1, ArtAssumption, FS_Interval
<1>3. IsFiniteSet(Index)
  BY ArtAssumption, FS_Interval
<1>4. IsFiniteSet(Received(c))
  BY <1>3, FS_Subset DEF Received
<1> QED
  BY <1>2, <1>4, FS_Subset DEF Complete

\* Storing a chunk adds its index to the received ones.
LEMMA ReceivedAfterStore ==
    ASSUME TypeOK, NEW h \in Art, NEW i \in Index, NEW a \in Art
    PROVE  Received([chunks[h] EXCEPT ![i] = a]) = Received(chunks[h]) \cup {i}
  BY ArtAssumption DEF Received, TypeOK

\* Without a change of the transfer table or of the set of cached keys, the
\* step is invisible to the abstract specification.
LEMMA Invisible ==
    ASSUME UNCHANGED <<active, chunks, cache>>
    PROVE  UNCHANGED Reassembly!vars
  BY DEF Reassembly!vars, ReceivedSet, Received, Cached

\* The reassembly the rest of the daemon relies on is what the handler, its
\* dispatch and its callbacks implement.
THEOREM ImplementsReassembly == Spec => ReassemblySpec
<1> USE DEF ReassemblySpec
<1>1. Init => Reassembly!Init
  <2> SUFFICES ASSUME Init PROVE Reassembly!Init
    OBVIOUS
  <2>1. ReceivedSet = [h \in Art |-> Absent]
    BY DEF Init, ReceivedSet
  <2>2. Cached(cache) = {}
    BY DEF Init, Cached
  <2> QED
    BY <2>1, <2>2 DEF Reassembly!Init
<1>2. Inv /\ [Next]_vars => [Reassembly!Next]_(Reassembly!vars)
  <2> SUFFICES ASSUME Inv, [Next]_vars
               PROVE  Reassembly!Next \/ UNCHANGED Reassembly!vars
    OBVIOUS
  <2> USE DEF Inv
  <2>0. Received(NoChunks) = {}
    BY DEF Received, NoChunks
  <2>1. CASE Companion
    BY <2>1, Invisible
       DEF Companion, CompanionStart, CompanionChunk, CompanionEnd, device, handler, store
  <2>2. CASE CompanionAborts
    BY <2>2, Invisible DEF CompanionAborts, device, handler, store
  <2>3. ASSUME NEW l \in Listeners, HandleAlbumArtStart(l)
        PROVE  Reassembly!Next \/ UNCHANGED Reassembly!vars
    <3>1. Head(inbox[l]).art \in Art
      <4>1. inbox[l] \in Seq(Message) /\ inbox[l] # <<>>
        BY <2>3 DEF HandleAlbumArtStart, Handles, TypeOK
      <4>2. Head(inbox[l]) \in Message
        BY <4>1, HeadTailProperties
      <4> QED
        BY <4>2 DEF Message
    <3> DEFINE h == Head(inbox[l]).art
    <3>2. (AcceptsStart(h) /\ StartTransfer(h)) \/ UNCHANGED handler
      BY <2>3 DEF HandleAlbumArtStart
    <3> HIDE DEF h
    <3>3. ASSUME AcceptsStart(h), StartTransfer(h) PROVE Reassembly!Begin(h)
      <4>1. ReceivedSet[h] = Absent /\ h \notin Cached(cache)
        BY <3>1, <3>3 DEF AcceptsStart, ReceivedSet, Cached, h
      <4>2. chunks' = [chunks EXCEPT ![h] = NoChunks] /\ active' = active \cup {h}
        BY <3>3 DEF StartTransfer
      <4>3. ReceivedSet' = [ReceivedSet EXCEPT ![h] = {}]
        BY <2>0, <3>1, <4>2 DEF ReceivedSet, Received, TypeOK, h
      <4>4. UNCHANGED Cached(cache)
        BY <3>3 DEF StartTransfer, Cached
      <4> QED
        BY <4>1, <4>3, <4>4 DEF Reassembly!Begin
    <3> QED
      BY <3>1, <3>2, <3>3, Invisible DEF Reassembly!Next, handler, h
  <2>4. ASSUME NEW l \in Listeners,
               HandleAlbumArtEnd(l) \/ PickTransfer(l) \/ SwapSignals(l)
        PROVE  Reassembly!Next \/ UNCHANGED Reassembly!vars
    <3>1. UNCHANGED <<active, chunks, cache>>
      BY <2>4 DEF HandleAlbumArtEnd, PickTransfer, SwapSignals, device, handler, store
    <3> QED
      BY <3>1, Invisible
  <2>5. ASSUME NEW l \in Listeners, ReceiveChunk(l)
        PROVE  Reassembly!Next \/ UNCHANGED Reassembly!vars
    <3> DEFINE h == chosen[l]
               m == Head(inbox[l])
               c == Stored(h, m)
               data == Assembled(h, c)
    <3>1. h \in Art /\ m.art \in Art /\ c \in [Index -> Art \cup {Absent}]
      BY <2>5, StoredIsChunkMap DEF ReceiveChunk
    <3>2. m.index \in Index
      <4>1. inbox[l] \in Seq(Message) /\ inbox[l] # <<>>
        BY <2>5 DEF ReceiveChunk, TypeOK, ChosenHasChunk
      <4>2. Head(inbox[l]) \in Message
        BY <4>1, HeadTailProperties
      <4> QED
        BY <4>2 DEF Message
    <3>3. Received(c) = Received(chunks[h]) \cup {m.index}
      BY <3>1, <3>2, ReceivedAfterStore DEF Stored
    <3>4. data # Absent
      BY <3>1, AssembledIsContent, ContentAssumption
    <3>5. \/ h \in active /\ Complete(h, c) /\ CompleteTransfer(h, data)
          \/ h \in active /\ StoreChunk(h, c)
          \/ UNCHANGED <<active, chunks, cache>>
      BY <2>5 DEF ReceiveChunk, Accepts, device, handler
    <3> HIDE DEF h, m, c, data
    <3>6. CASE h \in active /\ Complete(h, c) /\ CompleteTransfer(h, data)
      <4>1. ReceivedSet[h] \cup {m.index} = Reassembly!Needed(h)
        BY <3>1, <3>3, <3>6, CompleteIsExact DEF ReceivedSet, Reassembly!Needed
      <4>2. ReceivedSet[h] # Absent
        BY <3>1, <3>6, ContentAssumption DEF ReceivedSet, Received
      <4>3. /\ chunks' = [chunks EXCEPT ![h] = NoChunks]
            /\ active' = active \ {h}
            /\ cache' = [cache EXCEPT ![h] = data]
        BY <3>6 DEF CompleteTransfer
      <4>4. ReceivedSet' = [ReceivedSet EXCEPT ![h] = Absent]
        BY <3>1, <4>3 DEF ReceivedSet, TypeOK
      <4>5. Cached(cache)' = Cached(cache) \cup {h}
        BY <3>1, <3>4, <4>3 DEF Cached, TypeOK
      <4>6. Reassembly!Finish(h, m.index)
        BY <4>1, <4>2, <4>4, <4>5 DEF Reassembly!Finish
      <4> QED
        BY <3>1, <3>2, <4>6 DEF Reassembly!Next, Reassembly!Pieces
    <3>7. CASE h \in active /\ StoreChunk(h, c)
      <4>1. ReceivedSet[h] = Received(chunks[h]) /\ ReceivedSet[h] # Absent
        BY <3>1, <3>7, ContentAssumption DEF ReceivedSet, Received
      <4>2. chunks' = [chunks EXCEPT ![h] = c] /\ UNCHANGED <<active, cache>>
        BY <3>7 DEF StoreChunk
      <4>3. ReceivedSet' = [ReceivedSet EXCEPT ![h] = ReceivedSet[h] \cup {m.index}]
        <5>1. chunks'[h] = c /\ \A k \in Art \ {h} : chunks'[k] = chunks[k]
          BY <3>1, <4>2 DEF TypeOK
        <5>2. ReceivedSet'[h] = ReceivedSet[h] \cup {m.index}
          BY <3>1, <3>3, <3>7, <4>1, <4>2, <5>1 DEF ReceivedSet
        <5>3. \A k \in Art \ {h} : ReceivedSet'[k] = ReceivedSet[k]
          BY <4>2, <5>1 DEF ReceivedSet
        <5>4. DOMAIN ReceivedSet' = Art /\ DOMAIN ReceivedSet = Art
          BY DEF ReceivedSet
        <5> QED
          BY <3>1, <5>2, <5>3, <5>4 DEF ReceivedSet
      <4>4. Reassembly!Gain(h, m.index)
        BY <3>1, <4>1, <4>2, <4>3 DEF Reassembly!Gain, ReceivedSet, Cached
      <4> QED
        BY <3>1, <3>2, <4>4 DEF Reassembly!Next, Reassembly!Pieces
    <3> QED
      BY <3>5, <3>6, <3>7, Invisible
  <2>6. CASE Restart
    <3>1. ReceivedSet' = [h \in Art |-> Absent] /\ Cached(cache)' = {}
      BY <2>6 DEF Restart, ReceivedSet, Cached
    <3> QED
      BY <3>1 DEF Reassembly!Restart, Reassembly!Next
  <2>7. ASSUME NEW l \in Listeners, CrashDuringSave(l)
        PROVE  Reassembly!Next \/ UNCHANGED Reassembly!vars
    BY <2>6, <2>7 DEF CrashDuringSave
  <2>8. CASE Crash
    BY <2>6, <2>8 DEF Crash
  <2>9. ASSUME NEW h \in Art, GoStale(h)
        PROVE  Reassembly!Next \/ UNCHANGED Reassembly!vars
    BY <2>9, Invisible DEF GoStale
  <2>10. ASSUME NEW h \in Art, Upload(h)
         PROVE  Reassembly!Next \/ UNCHANGED Reassembly!vars
    <3>1. Foreign # Absent
      BY ContentAssumption
    <3>2. UNCHANGED <<active, chunks>>
      BY <2>10 DEF Upload, StoreInCache, handler
    <3>3. UNCHANGED ReceivedSet
      BY <3>2 DEF ReceivedSet, Received
    <3>4. CASE \E k \in Cached(cache) : cache' = [[cache EXCEPT ![k] = Absent] EXCEPT ![h] = Foreign]
      <4>1. PICK k \in Cached(cache) : cache' = [[cache EXCEPT ![k] = Absent] EXCEPT ![h] = Foreign]
        BY <3>4
      <4>2. Cached(cache)' = (Cached(cache) \ {k}) \cup {h}
        BY <3>1, <4>1 DEF Cached, TypeOK
      <4> QED
        <5>1. {k} \in {{}} \cup {{e} : e \in Cached(cache)}
          OBVIOUS
        <5>2. Reassembly!Put(h)
          BY <3>3, <4>2, <5>1 DEF Reassembly!Put
        <5> QED
          BY <5>2 DEF Reassembly!Next
    <3>5. CASE cache' = [cache EXCEPT ![h] = Foreign]
      <4>1. Cached(cache)' = (Cached(cache) \ {}) \cup {h}
        BY <3>1, <3>5 DEF Cached, TypeOK
      <4> QED
        <5>1. Reassembly!Put(h)
          BY <3>3, <4>1 DEF Reassembly!Put
        <5> QED
          BY <5>1 DEF Reassembly!Next
    <3>6. CASE UNCHANGED handler
      BY <3>6, Invisible DEF handler
    <3> QED
      BY <2>10, <3>4, <3>5, <3>6 DEF Upload, StoreInCache
  <2>11. CASE CleanupStaleTransfers
    <3>1. ReceivedSet' = [h \in Art |-> IF h \in stale THEN Absent ELSE ReceivedSet[h]]
      BY <2>11 DEF CleanupStaleTransfers, ReceivedSet
    <3>2. UNCHANGED Cached(cache) /\ stale \in SUBSET Art
      BY <2>11 DEF CleanupStaleTransfers, Cached, TypeOK
    <3>3. Reassembly!Abandon(stale)
      BY <3>1, <3>2 DEF Reassembly!Abandon
    <3> QED
      BY <3>2, <3>3 DEF Reassembly!Next
  <2>12. ASSUME NEW b \in BOOLEAN, SetEnabled(b)
         PROVE  Reassembly!Next \/ UNCHANGED Reassembly!vars
    BY <2>12, Invisible DEF SetEnabled
  <2>13. CASE ClearCache
    <3>1. UNCHANGED ReceivedSet
      BY <2>13 DEF ClearCache, ReceivedSet, Received
    <3>2. Cached(cache)' = {}
      BY <2>13 DEF ClearCache, Cached
    <3> QED
      BY <3>1, <3>2 DEF Reassembly!Clear, Reassembly!Next
  <2>14. CASE UNCHANGED vars
    BY <2>14, Invisible DEF vars, device, handler
  <2> QED
    BY <2>1, <2>2, <2>3, <2>4, <2>5, <2>7, <2>8, <2>9, <2>10, <2>11, <2>12, <2>13, <2>14
       DEF Next, Handle
<1> QED
  BY <1>1, <1>2, InvHolds, PTL DEF Spec, Reassembly!Spec

-----------------------------------------------------------------------------
(***************************************************************************)
(* What a late chunk cannot do.                                            *)
(***************************************************************************)

\* A transfer that is over stays over until its key is announced again, even
\* for a listener that chose it earlier.
THEOREM LateChunkRevivesNothing == Spec => NoResurrection
<1>1. Inv /\ [Next]_vars =>
        [\A h \in active' \ active :
           chunks'[h] = NoChunks /\ \E l \in Listeners : Handles(l, "start") /\ Head(inbox[l]).art = h]_vars
  <2> SUFFICES ASSUME Inv, Next, NEW h \in active' \ active
               PROVE  /\ chunks'[h] = NoChunks
                      /\ \E l \in Listeners : Handles(l, "start") /\ Head(inbox[l]).art = h
    BY Zenon
  <2> USE DEF Inv, TypeOK
  <2>1. ASSUME NEW l \in Listeners, HandleAlbumArtStart(l)
        PROVE  chunks'[h] = NoChunks /\ Handles(l, "start") /\ Head(inbox[l]).art = h
    <3> DEFINE k == Head(inbox[l]).art
    <3>1. Handles(l, "start") /\ (StartTransfer(k) \/ UNCHANGED handler)
      BY <2>1 DEF HandleAlbumArtStart
    <3>2. inbox[l] \in Seq(Message) /\ inbox[l] # <<>>
      BY <2>1 DEF HandleAlbumArtStart, Handles
    <3>3. Head(inbox[l]) \in Message
      BY <3>2, HeadTailProperties
    <3>4. k \in Art
      BY <3>3 DEF Message
    <3> HIDE DEF k
    <3>5. CASE StartTransfer(k)
      <4>1. h = k
        BY <3>5 DEF StartTransfer
      <4>2. chunks'[h] = NoChunks
        BY <3>4, <3>5, <4>1 DEF StartTransfer
      <4> QED
        BY <3>1, <4>1, <4>2 DEF k
    <3>6. CASE UNCHANGED handler
      BY <3>6 DEF handler
    <3> QED
      BY <3>1, <3>5, <3>6
  <2>2. ASSUME NEW l \in Listeners, ~HandleAlbumArtStart(l), Handle(l) PROVE FALSE
    BY <2>2 DEF Handle, HandleAlbumArtEnd, PickTransfer, ReceiveChunk, CompleteTransfer, StoreChunk,
                device, handler
  <2>3. CASE Companion \/ CompanionAborts
    BY <2>3 DEF Companion, CompanionStart, CompanionChunk, CompanionEnd, CompanionAborts, device, handler
  <2>4. ASSUME NEW l \in Listeners, SwapSignals(l) \/ CrashDuringSave(l) PROVE FALSE
    BY <2>4 DEF SwapSignals, CrashDuringSave, Restart, device, handler
  <2>5. ASSUME NEW k \in Art, GoStale(k) \/ Upload(k) PROVE FALSE
    BY <2>5 DEF GoStale, Upload, StoreInCache, handler
  <2>6. CASE CleanupStaleTransfers \/ ClearCache \/ Crash \/ \E b \in BOOLEAN : SetEnabled(b)
    BY <2>6 DEF CleanupStaleTransfers, ClearCache, Crash, Restart, SetEnabled
  <2> QED
    BY <2>1, <2>2, <2>3, <2>4, <2>5, <2>6 DEF Next
<1> QED
  BY <1>1, InvHolds, PTL DEF Spec, NoResurrection
=============================================================================
