---------------------------- MODULE DispatchProofs ----------------------------
(***************************************************************************)
(* Theorems about Protocol and Dispatch. First the codec: what is read     *)
(* from a message is what was put into it, and when a message ends the     *)
(* process. Then the listeners, for any number of them, any script and any *)
(* number of faults: the shape of the state, that nothing is handled that  *)
(* was not sent, that the IDs of the answers on their way differ, and that *)
(* the last time sync prevails. Each part states its own invariant.        *)
(***************************************************************************)
EXTENDS Dispatch, TLAPS, SequenceTheorems, FiniteSetTheorems

-----------------------------------------------------------------------------
(***************************************************************************)
(* Parts of a concatenation.                                               *)
(***************************************************************************)
LEMMA FirstPart ==
    ASSUME NEW a \in Bytes, NEW b \in Bytes
    PROVE  /\ a \o b \in Bytes /\ Len(a \o b) = Len(a) + Len(b)
           /\ SubSeq(a \o b, 1, Len(a)) = a
<1>1. /\ a \o b \in Bytes /\ Len(a \o b) = Len(a) + Len(b)
      /\ Len(a) \in Nat /\ Len(b) \in Nat
  BY ConcatProperties, LenProperties DEF Bytes
<1>2. CASE a = <<>>
  BY <1>1, <1>2, EmptySeq, SubSeqEmpty DEF Bytes
<1>3. CASE a # <<>>
  <2>1. 1 \in 1 .. Len(a) /\ Len(a) \in 1 .. Len(a)
    BY <1>1, <1>3, EmptySeq DEF Bytes
  <2>2. SubSeq(a \o b, 1, Len(a)) = SubSeq(a, 1, Len(a))
    BY <2>1, SubSeqOfConcat1 DEF Bytes
  <2> QED
    BY <1>1, <2>2, SubSeqFull DEF Bytes
<1> QED
  BY <1>2, <1>3

\* The second part of a concatenation.
LEMMA LastPart ==
    ASSUME NEW a \in Bytes, NEW b \in Bytes
    PROVE  SubSeq(a \o b, Len(a) + 1, Len(a) + Len(b)) = b
<1>1. Len(a) \in Nat /\ Len(b) \in Nat
  BY LenProperties DEF Bytes
<1>2. CASE b = <<>>
  <2>1. Len(b) = 0
    BY <1>2
  <2> QED
    BY <1>1, <1>2, <2>1, SubSeqEmpty
<1>3. CASE b # <<>>
  <2>1. /\ Len(a) + 1 \in Len(a) + 1 .. Len(a) + Len(b)
        /\ Len(a) + Len(b) \in Len(a) + 1 .. Len(a) + Len(b)
    BY <1>1, <1>3, EmptySeq DEF Bytes
  <2>2. SubSeq(a \o b, Len(a) + 1, Len(a) + Len(b))
          = SubSeq(b, Len(a) + 1 - Len(a), Len(a) + Len(b) - Len(a))
    BY <2>1, SubSeqOfConcat2 DEF Bytes
  <2>3. Len(a) + 1 - Len(a) = 1 /\ Len(a) + Len(b) - Len(a) = Len(b)
    BY <1>1
  <2> QED
    BY <2>2, <2>3, SubSeqFull DEF Bytes
<1> QED
  BY <1>2, <1>3

\* The byte after the first part.
LEMMA NextByte ==
    ASSUME NEW a \in Bytes, NEW b \in Bytes, Len(b) = 1
    PROVE  (a \o b)[Len(a) + 1] = b[1]
<1>1. Len(a) \in Nat /\ Len(b) = 1
  BY LenProperties DEF Bytes
<1>2. \A i \in 1 .. Len(a) + Len(b) :
        (a \o b)[i] = IF i <= Len(a) THEN a[i] ELSE b[i - Len(a)]
  BY ConcatProperties DEF Bytes
<1>3. Len(a) + 1 - Len(a) = 1
  BY <1>1
<1> QED
  BY <1>1, <1>2, <1>3

\* What is left after the first n bytes.
LEMMA LengthAfter ==
    ASSUME NEW a \in Bytes, NEW n \in Nat, Len(a) >= n
    PROVE  Len(SubSeq(a, n + 1, Len(a))) = Len(a) - n
<1>1. Len(a) \in Nat /\ Len(a) >= n
  BY LenProperties DEF Bytes
<1>2. \A i \in n + 1 .. Len(a) : a[i] \in Byte
  BY <1>1, ElementOfSeq DEF Bytes
<1>3. Len(SubSeq(a, n + 1, Len(a))) = IF n + 1 <= Len(a) THEN Len(a) - (n + 1) + 1 ELSE 0
  BY <1>1, <1>2, SubSeqProperties
<1> QED
  BY <1>1, <1>3

-----------------------------------------------------------------------------
(***************************************************************************)
(* Framing.                                                                *)
(***************************************************************************)
\* DecodeMessage gives back what EncodeMessage was given (protocol.go:88-182):
\* for every type of twelve bits, every ID, and every payload up to sixteen bytes
\* less than a uint32 counts.
THEOREM RoundTrip ==
    ASSUME NEW t \in Nat, t < 4096, NEW payload \in Bytes, NEW id,
           Len(payload) < DWord - HEADER_SIZE
    PROVE  DecodeMessage(EncodeMessage(t, payload, id))
             = [outcome |-> "ok", messageType |-> t, payload |-> payload, messageID |-> id]
<1> DEFINE m   == EncodeMessage(t, payload, id)
           end == PayloadEnd(m.payloadSize)
<1>1. Len(payload) \in Nat /\ DWord \in Nat /\ Len(payload) + 16 < DWord
  BY LenProperties, WidthAssumption DEF HEADER_SIZE, Bytes
<1>2. /\ m.header = "whole" /\ m.versionedType = 8192 + t /\ m.rest = payload
      /\ m.messageID = id /\ m.crc32 = Checksum(payload)
      /\ m.payloadSize = Len(payload) % DWord
  BY DEF EncodeMessage, VersionedType, PROTOCOL_VERSION
<1>3. (8192 + t) % 4096 = t /\ (8192 + t) \div 4096 = 2
  OBVIOUS
<1>4. \A n \in Nat : n < DWord => n % DWord = n
  BY <1>1
<1>5. end = HEADER_SIZE + Len(payload) /\ m.payloadSize = Len(payload)
  BY <1>1, <1>2, <1>4 DEF PayloadEnd, HEADER_SIZE
<1>6. Payload(m) = payload
  <2>1. end - HEADER_SIZE = Len(payload)
    BY <1>1, <1>5 DEF HEADER_SIZE
  <2> QED
    BY <1>2, <2>1, SubSeqFull DEF Payload, Bytes
<1>7. Accepted(2, t)
  BY DEF Accepted, PROTOCOL_VERSION
<1>8. end <= HEADER_SIZE + Len(payload) /\ ~(end < HEADER_SIZE)
  BY <1>1, <1>5 DEF HEADER_SIZE
<1> HIDE DEF m, end
<1>9. Complete(m)
  BY <1>2, <1>3, <1>7, <1>8 DEF Complete, end
<1> QED
  BY <1>2, <1>3, <1>6, <1>8, <1>9 DEF DecodeMessage, Read, m, end

\* What DecodeMessage accepts is what the header announces and the checksum
\* covers: the first payloadSize bytes after the header, no less.
THEOREM DecodedIsAnnounced ==
    ASSUME NEW m, m.rest \in Bytes, m.payloadSize \in 0 .. DWord - 1,
           DecodeMessage(m).outcome = "ok"
    PROVE  /\ DecodeMessage(m).payload = SubSeq(m.rest, 1, m.payloadSize)
           /\ m.payloadSize <= Len(m.rest)
           /\ Checksum(DecodeMessage(m).payload) = m.crc32
<1> DEFINE end == PayloadEnd(m.payloadSize)
<1>1. /\ Complete(m) /\ ~(end < HEADER_SIZE)
      /\ Checksum(Payload(m)) = m.crc32 /\ DecodeMessage(m) = Read(m)
  BY DEF DecodeMessage, Unread
<1>2. DWord \in Nat /\ DWord > 65536 /\ Len(m.rest) \in Nat
  BY WidthAssumption, LenProperties DEF Word, Bytes
<1>3. \A n \in Nat : /\ n < DWord => n % DWord = n
                     /\ DWord <= n /\ n < DWord + 16 => n % DWord < 16
  BY <1>2
<1>4. end = 16 + m.payloadSize
  BY <1>1, <1>2, <1>3 DEF PayloadEnd, HEADER_SIZE
<1>5. Payload(m) = SubSeq(m.rest, 1, m.payloadSize)
  BY <1>2, <1>4 DEF Payload, HEADER_SIZE
<1> QED
  BY <1>1, <1>2, <1>4, <1>5 DEF Read, Complete, HEADER_SIZE

\* DecodeMessage ends the process only when the size announced is within sixteen
\* of 2^32 (protocol.go:166-171: the sum is a uint32), whatever else came.
THEOREM PanicsWhenHuge ==
    ASSUME NEW m, m.rest \in Bytes, m.payloadSize \in 0 .. DWord - 1
    PROVE  DecodeMessage(m).outcome = "panic"
             <=> /\ m.header = "whole"
                 /\ Accepted(m.versionedType \div 4096, m.versionedType % 4096)
                 /\ m.payloadSize >= DWord - HEADER_SIZE
<1> DEFINE end == PayloadEnd(m.payloadSize)
<1>1. DWord \in Nat /\ DWord > 65536 /\ Len(m.rest) \in Nat
  BY WidthAssumption, LenProperties DEF Word, Bytes
<1>2. \A n \in Nat : /\ n < DWord => n % DWord = n
                     /\ DWord <= n /\ n < DWord + 16 => n % DWord = n - DWord
  BY <1>1
<1>3. /\ end < 16 <=> m.payloadSize >= DWord - 16
      /\ end < 16 => end <= 16 + Len(m.rest)
  <2>1. CASE m.payloadSize < DWord - 16
    <3>1. end = 16 + m.payloadSize
      BY <1>1, <1>2, <2>1 DEF PayloadEnd, HEADER_SIZE
    <3> QED
      BY <1>1, <2>1, <3>1
  <2>2. CASE m.payloadSize >= DWord - 16
    <3>1. end = 16 + m.payloadSize - DWord
      BY <1>1, <1>2, <2>2 DEF PayloadEnd, HEADER_SIZE
    <3> QED
      BY <1>1, <2>2, <3>1
  <2> QED
    BY <1>1, <2>1, <2>2
<1>4. DecodeMessage(m).outcome = "panic" <=> Complete(m) /\ end < HEADER_SIZE
  BY DEF DecodeMessage, Unread, Read
<1> QED
  BY <1>3, <1>4 DEF Complete, HEADER_SIZE
-----------------------------------------------------------------------------
(***************************************************************************)
(* Payloads.                                                               *)
(***************************************************************************)
LEMMA ByteBound == \A x : x \in Byte <=> x \in Nat /\ x < 256
BY DEF Byte

\* Two bytes are read where they stand.
LEMMA PairRead ==
    ASSUME NEW a \in Bytes, NEW b \in Bytes, NEW c \in Bytes, Len(b) = 2,
           NEW k, k = Len(a) + 1
    PROVE  Uint16(a \o b \o c, k) = b[1] * 256 + b[2]
<1>1. /\ a \o b \in Bytes /\ Len(a \o b) = Len(a) + 2
      /\ Len(a) \in Nat /\ Len(c) \in Nat
  <2>1. a \o b \in Bytes /\ Len(a \o b) = Len(a) + Len(b)
    BY FirstPart
  <2>2. Len(a) \in Nat /\ Len(c) \in Nat
    BY LenProperties DEF Bytes
  <2> QED
    BY <2>1, <2>2
<1>2. \A i \in 1 .. Len(a) + Len(b) :
        (a \o b)[i] = IF i <= Len(a) THEN a[i] ELSE b[i - Len(a)]
  BY ConcatProperties DEF Bytes
<1>3. \A i \in 1 .. Len(a \o b) + Len(c) :
        (a \o b \o c)[i]
          = IF i <= Len(a \o b) THEN (a \o b)[i] ELSE c[i - Len(a \o b)]
  BY <1>1, ConcatProperties DEF Bytes
<1>4. /\ (a \o b \o c)[Len(a) + 1] = (a \o b)[Len(a) + 1]
      /\ (a \o b \o c)[Len(a) + 2] = (a \o b)[Len(a) + 2]
  BY <1>1, <1>3
<1>5. (a \o b)[Len(a) + 1] = b[1] /\ (a \o b)[Len(a) + 2] = b[2]
  <2>1. Len(a) + 1 - Len(a) = 1 /\ Len(a) + 2 - Len(a) = 2
    BY <1>1
  <2> QED
    BY <1>1, <1>2, <2>1
<1>6. k + 1 = Len(a) + 2
  BY <1>1
<1> QED
  BY <1>4, <1>5, <1>6 DEF Uint16

\* A number is cut into two bytes that give it back.
LEMMA NumberBytes ==
    ASSUME NEW n \in Nat, n < 65536
    PROVE  /\ PutUint16(n) \in Bytes /\ Len(PutUint16(n)) = 2
           /\ PutUint16(n)[1] * 256 + PutUint16(n)[2] = n
<1>1. ASSUME NEW high \in Byte, NEW low \in Byte
      PROVE  <<high, low>> \in Bytes /\ Len(<<high, low>>) = 2
  BY DEF Bytes
<1>2. /\ (n \div 256) % 256 \in Byte /\ n % 256 \in Byte
      /\ ((n \div 256) % 256) * 256 + (n % 256) = n
  BY ByteBound
<1> QED
  BY <1>1, <1>2 DEF PutUint16

\* ParseTimeSyncPayload gives back what CreateTimeSyncPayload was given
\* (protocol.go:231-264), for every timezone whose end a uint16 can tell.
THEOREM TimeSyncBack ==
    ASSUME NEW timestampMs \in BytesOf(8),
           NEW timezone \in Bytes, Len(timezone) < Word - 10
    PROVE  ParseTimeSyncPayload(CreateTimeSyncPayload(timestampMs, timezone))
             = Parsed(<<timestampMs, timezone>>)
<1> DEFINE n   == Len(timezone)
           two == PutUint16(n)
           p   == timestampMs \o two \o timezone
<1>1. n \in Nat /\ n < 65536 /\ n % 65536 = n /\ (10 + n) % 65536 = 10 + n
  BY LenProperties DEF Bytes, Word
<1>2. CreateTimeSyncPayload(timestampMs, timezone) = p
  BY <1>1 DEF CreateTimeSyncPayload, Word
<1>3. two \in Bytes /\ Len(two) = 2 /\ two[1] * 256 + two[2] = n
  BY <1>1, NumberBytes
<1> HIDE DEF two
<1>8. timestampMs \in Bytes
  BY DEF BytesOf
<1>9. Len(timestampMs) = 8
  BY DEF BytesOf
<1>4. /\ Uint16(p, 9) = n
      /\ Len(p) = 10 + n /\ SubSeq(p, 11, 10 + n) = timezone
  <2> DEFINE ts == timestampMs \o two
  <2>1. Uint16(p, Len(timestampMs) + 1) = two[1] * 256 + two[2]
    BY <1>3, <1>8, PairRead
  <2>2. ts \in Bytes /\ Len(ts) = Len(timestampMs) + Len(two)
    BY <1>3, <1>8, FirstPart
  <2>3. Len(p) = Len(ts) + n /\ SubSeq(p, Len(ts) + 1, Len(ts) + n) = timezone
    BY <2>2, FirstPart, LastPart
  <2>4. Len(timestampMs) + 1 = 9 /\ Len(ts) = 10
    BY <1>3, <1>9, <2>2
  <2> HIDE DEF ts, p, n
  <2> QED
    BY <1>3, <2>1, <2>3, <2>4
<1>5. SubSeq(p, 1, 8) = timestampMs
  <2>1. two \o timezone \in Bytes
    BY <1>3, FirstPart
  <2>2. p = timestampMs \o (two \o timezone)
    BY <1>3, <1>8, ConcatAssociative DEF Bytes
  <2>3. SubSeq(p, 1, Len(timestampMs)) = timestampMs
    BY <1>8, <2>1, <2>2, FirstPart
  <2> HIDE DEF p
  <2> QED
    BY <1>9, <2>3
<1>6. TimezoneEnd(n) = 10 + n
  BY <1>1 DEF TimezoneEnd, Word
<1> HIDE DEF n, p
<1>7. ~(Len(p) < 10 \/ Len(p) < 10 + n) /\ ~(10 + n < 10)
  BY <1>1, <1>4
<1> QED
  BY <1>2, <1>4, <1>5, <1>6, <1>7 DEF ParseTimeSyncPayload

\* ParseTimeSyncPayload ends the process exactly when the length announced is
\* within ten of 2^16 (protocol.go:251-261: the sum is a uint16).
THEOREM TimeSyncPanics ==
    ASSUME NEW payload \in Bytes
    PROVE  ParseTimeSyncPayload(payload).outcome = "panic"
             <=> Len(payload) >= 10 /\ Uint16(payload, 9) >= 65526
<1>1. Len(payload) \in Nat
  BY LenProperties DEF Bytes
<1>2. CASE Len(payload) < 10
  BY <1>1, <1>2 DEF ParseTimeSyncPayload, Unparsed
<1>3. CASE Len(payload) >= 10
  <2>1. payload[9] \in Byte /\ payload[10] \in Byte
    BY <1>1, <1>3, ElementOfSeq DEF Bytes
  <2> DEFINE n == Uint16(payload, 9)
  <2>2. n \in Nat /\ n < 65536
    BY <2>1, ByteBound DEF Uint16
  <2>3. TimezoneEnd(n) < 10 <=> n >= 65526
    BY <2>2 DEF TimezoneEnd, Word
  <2>4. TimezoneEnd(n) \in Nat
    BY <2>2 DEF TimezoneEnd, Word
  <2> HIDE DEF n
  <2>5. ParseTimeSyncPayload(payload).outcome = "panic"
          <=> ~(Len(payload) < 10 \/ Len(payload) < TimezoneEnd(n)) /\ TimezoneEnd(n) < 10
    BY DEF ParseTimeSyncPayload, Parsed, Unparsed, n
  <2> QED
    BY <1>1, <1>3, <2>2, <2>3, <2>4, <2>5 DEF n
<1> QED
  BY <1>1, <1>2, <1>3

\* ParseAlbumArtChunkPayload gives back the index and the data, for every length
\* of the data (protocol.go:390-407).
THEOREM ChunkBack ==
    ASSUME NEW chunkIndex \in BytesOf(4), NEW data \in Bytes
    PROVE  ParseAlbumArtChunkPayload(CreateAlbumArtChunkPayload(chunkIndex, data))
             = Parsed(<<chunkIndex, data>>)
<1> DEFINE p == chunkIndex \o data
<1>1. chunkIndex \in Bytes
  BY DEF BytesOf
<1>2. /\ Len(p) = Len(chunkIndex) + Len(data) /\ SubSeq(p, 1, Len(chunkIndex)) = chunkIndex
      /\ SubSeq(p, Len(chunkIndex) + 1, Len(chunkIndex) + Len(data)) = data
      /\ Len(data) \in Nat
  BY <1>1, FirstPart, LastPart, LenProperties DEF Bytes
<1>3. Len(chunkIndex) = 4
  BY DEF BytesOf
<1> HIDE DEF p
<1>4. /\ ~(Len(p) < 4) /\ SubSeq(p, 1, 4) = chunkIndex
      /\ SubSeq(p, 5, Len(p)) = data
  BY <1>2, <1>3
<1> QED
  BY <1>4 DEF ParseAlbumArtChunkPayload, CreateAlbumArtChunkPayload, p

\* ParseAlbumArtEndPayload gives back the checksum and the flag
\* (protocol.go:416-438).
THEOREM EndBack ==
    ASSUME NEW checksum \in BytesOf(32), NEW success \in BOOLEAN
    PROVE  ParseAlbumArtEndPayload(CreateAlbumArtEndPayload(checksum, success))
             = Parsed(<<checksum, success>>)
<1> DEFINE flag == <<IF success THEN 1 ELSE 0>>
           p    == checksum \o flag
<1>1. checksum \in Bytes /\ flag \in Bytes /\ Len(flag) = 1
  BY ByteBound DEF BytesOf, Bytes
<1>2. flag[1] # 0 <=> success
  OBVIOUS
<1> HIDE DEF flag
<1>3. /\ Len(p) = Len(checksum) + Len(flag) /\ SubSeq(p, 1, Len(checksum)) = checksum
      /\ SubSeq(p, Len(checksum) + 1, Len(checksum) + Len(flag)) = flag
  BY <1>1, FirstPart, LastPart
<1>4. p[Len(checksum) + 1] = flag[1]
  BY <1>1, NextByte, Zenon
<1>5. Len(checksum) = 32
  BY DEF BytesOf
<1> HIDE DEF p
<1>6. ~(Len(p) < 33) /\ SubSeq(p, 1, 32) = checksum /\ p[33] = flag[1]
  BY <1>1, <1>3, <1>4, <1>5
<1>7. (p[33] # 0) = success
  BY <1>2, <1>6, Zenon
<1>8. CreateAlbumArtEndPayload(checksum, success) = p
  BY DEF CreateAlbumArtEndPayload, p, flag
<1> QED
  BY <1>6, <1>7, <1>8 DEF ParseAlbumArtEndPayload

\* The album-art start payload is 40 bytes and the track ID.
LEMMA StartLength ==
    ASSUME NEW checksum \in BytesOf(32), NEW totalChunks \in BytesOf(4),
           NEW imageSize \in BytesOf(4), NEW trackID \in Bytes
    PROVE  /\ CreateAlbumArtStartPayload(checksum, totalChunks, imageSize, trackID) \in Bytes
           /\ Len(CreateAlbumArtStartPayload(checksum, totalChunks, imageSize, trackID))
                = 40 + Len(trackID)
<1>1. checksum \in Bytes /\ totalChunks \in Bytes /\ imageSize \in Bytes
  BY DEF BytesOf
<1>2. Len(checksum) = 32 /\ Len(totalChunks) = 4 /\ Len(imageSize) = 4
  BY DEF BytesOf
<1> DEFINE two   == checksum \o totalChunks
           three == two \o imageSize
           p     == three \o trackID
<1>3. /\ two \in Bytes /\ three \in Bytes /\ p \in Bytes
      /\ Len(two) = Len(checksum) + Len(totalChunks)
      /\ Len(three) = Len(two) + Len(imageSize)
      /\ Len(p) = Len(three) + Len(trackID)
  BY <1>1, FirstPart
<1> HIDE DEF two, three, p
<1>4. Len(p) = 40 + Len(trackID)
  <2>1. Len(two) = 36
    BY <1>2, <1>3
  <2>2. Len(three) = 40
    BY <1>2, <1>3, <2>1
  <2> QED
    BY <1>3, <2>2
<1> QED
  BY <1>3, <1>4 DEF CreateAlbumArtStartPayload, p, three, two

\* What CreateAlbumArtStartPayload makes is always read (protocol.go:338-381), but a
\* track of five bytes or more comes back five bytes short: its first bytes are
\* taken for the compressed size and the compression flag, which are not there.
THEOREM StartTrack ==
    ASSUME NEW checksum \in BytesOf(32), NEW totalChunks \in BytesOf(4),
           NEW imageSize \in BytesOf(4), NEW trackID \in Bytes
    PROVE  LET start == ParseAlbumArtStartPayload(
                 CreateAlbumArtStartPayload(checksum, totalChunks, imageSize, trackID))
           IN  /\ start.outcome = "ok"
               /\ Len(start.fields[6])
                    = IF Len(trackID) >= 5 THEN Len(trackID) - 5 ELSE Len(trackID)
<1> DEFINE p     == CreateAlbumArtStartPayload(checksum, totalChunks, imageSize, trackID)
           start == ParseAlbumArtStartPayload(p)
<1>1. p \in Bytes /\ Len(p) = 40 + Len(trackID) /\ Len(trackID) \in Nat
  BY StartLength, LenProperties DEF Bytes
<1> HIDE DEF p
<1>2. /\ ~(Len(p) < 40) /\ Len(p) - 40 = Len(trackID) /\ Len(p) - 45 = Len(trackID) - 5
      /\ Len(p) >= 45 <=> Len(trackID) >= 5
      /\ Len(p) >= 40
  BY <1>1
<1>3. CASE Len(p) >= 45
  <2>1. start.outcome = "ok" /\ start.fields[6] = SubSeq(p, 45 + 1, Len(p))
    BY <1>2, <1>3 DEF ParseAlbumArtStartPayload, Parsed
  <2>2. Len(SubSeq(p, 45 + 1, Len(p))) = Len(p) - 45
    BY <1>1, <1>3, LengthAfter
  <2> QED
    BY <1>2, <1>3, <2>1, <2>2 DEF p
<1>4. CASE ~(Len(p) >= 45)
  <2>1. start.outcome = "ok" /\ start.fields[6] = SubSeq(p, 40 + 1, Len(p))
    BY <1>2, <1>4 DEF ParseAlbumArtStartPayload, Parsed
  <2>2. Len(SubSeq(p, 40 + 1, Len(p))) = Len(p) - 40
    BY <1>1, <1>2, LengthAfter
  <2> QED
    BY <1>2, <1>4, <2>1, <2>2 DEF p
<1> QED
  BY <1>3, <1>4

\* ParseAlbumArtNeededResponse gives back what CreateAlbumArtNeededResponse was
\* given (protocol.go:757-780).
THEOREM NeededBack ==
    ASSUME NEW needed \in BOOLEAN
    PROVE  ParseAlbumArtNeededResponse(CreateAlbumArtNeededResponse(needed))
             = Parsed(<<needed>>)
<1>1. CASE needed = TRUE
  BY <1>1 DEF ParseAlbumArtNeededResponse, CreateAlbumArtNeededResponse
<1>2. CASE needed = FALSE
  BY <1>2 DEF ParseAlbumArtNeededResponse, CreateAlbumArtNeededResponse
<1> QED
  BY <1>1, <1>2

\* What a first part holds is not changed by what comes after it.
LEMMA Within ==
    ASSUME NEW a \in Bytes, NEW b \in Bytes,
           NEW i \in Nat \ {0}, NEW j \in Nat, i <= j, j <= Len(a)
    PROVE  SubSeq(a \o b, i, j) = SubSeq(a, i, j)
<1>1. Len(a) \in Nat
  BY LenProperties DEF Bytes
<1>2. i \in 1 .. Len(a) /\ j \in 1 .. Len(a)
  BY <1>1
<1> QED
  BY <1>2, SubSeqOfConcat1 DEF Bytes

\* One sequence after the other, a length, and a part. The provers read \o, Len and
\* SubSeq as facts about domains: these stand for them, expanded only where needed.
Joined(w, a, b) == w = a \o b
Size(w)         == Len(w)
Part(w, i, j)   == SubSeq(w, i, j)

\* A size is a number.
LEMMA SizeNat == \A w \in Bytes : Size(w) \in Nat
BY LenProperties DEF Bytes, Size

\* Two joined parts make up the size of the whole.
LEMMA Join ==
    ASSUME NEW a \in Bytes, NEW b \in Bytes, NEW w, Joined(w, a, b)
    PROVE  /\ w \in Bytes /\ Size(w) = Size(a) + Size(b)
           /\ Size(a) \in Nat /\ Size(b) \in Nat /\ Size(w) \in Nat
<1>1. a \o b \in Bytes /\ Len(a \o b) = Len(a) + Len(b)
  BY FirstPart
<1>2. w \in Bytes /\ Size(w) = Size(a) + Size(b)
  BY <1>1, Zenon DEF Joined, Size
<1> QED
  BY <1>2, SizeNat

\* Each part is found where the sizes say.
LEMMA JoinParts ==
    ASSUME NEW a \in Bytes, NEW b \in Bytes, NEW w, Joined(w, a, b)
    PROVE  /\ Part(w, 1, Size(a)) = a
           /\ Part(w, Size(a) + 1, Size(w)) = b
<1>1. SubSeq(a \o b, 1, Len(a)) = a /\ Len(a \o b) = Len(a) + Len(b)
  BY FirstPart
<1>2. SubSeq(a \o b, Len(a) + 1, Len(a) + Len(b)) = b
  BY LastPart
<1> QED
  BY <1>1, <1>2, Zenon DEF Joined, Size, Part

\* A piece of the first part is a piece of the whole.
LEMMA JoinWithin ==
    ASSUME NEW a \in Bytes, NEW b \in Bytes, NEW w, Joined(w, a, b),
           NEW i \in Nat \ {0}, NEW j \in Nat, j <= Size(a)
    PROVE  Part(w, i, j) = Part(a, i, j)
<1>1. w = a \o b
  BY DEF Joined
<1>2. CASE i <= j
  <2>1. SubSeq(a \o b, i, j) = SubSeq(a, i, j)
    BY <1>2, Within DEF Size
  <2> QED
    BY <1>1, <2>1, Zenon DEF Part
<1>3. CASE j < i
  BY <1>3, SubSeqEmpty DEF Part
<1> QED
  BY <1>2, <1>3

\* Each byte of the whole is a byte of one part.
LEMMA JoinByte ==
    ASSUME NEW a \in Bytes, NEW b \in Bytes, NEW w, Joined(w, a, b)
    PROVE  /\ \A i \in 1 .. Size(a) : w[i] = a[i]
           /\ \A i \in 1 .. Size(b) : w[Size(a) + i] = b[i]
<1>1. Size(a) \in Nat /\ Size(b) \in Nat
  BY SizeNat
<1>2. \A k \in 1 .. Len(a) + Len(b) :
        (a \o b)[k] = IF k <= Len(a) THEN a[k] ELSE b[k - Len(a)]
  BY ConcatProperties DEF Bytes
<1>3. \A k \in 1 .. Size(a) + Size(b) :
        w[k] = IF k <= Size(a) THEN a[k] ELSE b[k - Size(a)]
  BY <1>2, Zenon DEF Joined, Size
<1> QED
  BY <1>1, <1>3

\* Joining is associative.
LEMMA Regrouped ==
    ASSUME NEW a \in Bytes, NEW b \in Bytes, NEW c \in Bytes,
           NEW ab, Joined(ab, a, b), NEW bc, Joined(bc, b, c), NEW w
    PROVE  Joined(w, ab, c) <=> Joined(w, a, bc)
<1>1. (a \o b) \o c = a \o (b \o c)
  BY ConcatAssociative DEF Bytes
<1> QED
  BY <1>1, Zenon DEF Joined

\* A number between two parts is read where it stands.
LEMMA NumberRead ==
    ASSUME NEW a \in Bytes, NEW two \in Bytes, Size(two) = 2, NEW c \in Bytes,
           NEW q, Joined(q, a, two), NEW p, Joined(p, q, c)
    PROVE  Uint16(p, Size(a) + 1) = two[1] * 256 + two[2]
<1>1. q \in Bytes /\ Size(q) = Size(a) + 2 /\ Size(a) \in Nat
  BY Join
<1>2. q[Size(a) + 1] = two[1] /\ q[Size(a) + 2] = two[2]
  <2>1. \A i \in 1 .. Size(two) : q[Size(a) + i] = two[i]
    BY JoinByte
  <2> QED
    BY <2>1
<1>3. p[Size(a) + 1] = q[Size(a) + 1] /\ p[Size(a) + 2] = q[Size(a) + 2]
  <2>1. Size(a) + 1 \in 1 .. Size(q) /\ Size(a) + 2 \in 1 .. Size(q)
    BY <1>1
  <2>2. \A i \in 1 .. Size(q) : p[i] = q[i]
    BY <1>1, JoinByte
  <2> QED
    BY <2>1, <2>2
<1>4. Size(a) + 1 + 1 = Size(a) + 2
  BY <1>1
<1> QED
  BY <1>2, <1>3, <1>4 DEF Uint16

\* A string with its length is bytes.
LEMMA StringBytes ==
    ASSUME NEW s \in Strings
    PROVE  PutString(s) \in Bytes
<1> DEFINE n == Len(s) % Word
<1>1. s \in Bytes
  BY Zenon DEF Strings
<1>2. n \in Nat /\ n < 65536
  BY <1>1, SizeNat DEF Word, Size
<1> HIDE DEF n
<1>3. PutUint16(n) \in Bytes
  BY <1>2, NumberBytes
<1>4. PutUint16(n) \o s \in Bytes
  BY <1>1, <1>3, FirstPart
<1> QED
  BY <1>4, Zenon DEF PutString, n

\* A string is read where PutString put it.
LEMMA StringRead ==
    ASSUME NEW a \in Bytes, NEW s \in Strings, NEW c \in Bytes,
           NEW r, Joined(r, a, PutString(s)), NEW p, Joined(p, r, c)
    PROVE  /\ r \in Bytes /\ Size(r) = Size(a) + 2 + Size(s)
           /\ p \in Bytes /\ Size(p) = Size(r) + Size(c)
           /\ StringEnd(p, Size(a)) = Size(r)
           /\ StringAt(p, Size(a)) = s
           /\ HasString(p, Size(a))
<1> DEFINE n   == Size(s)
           two == PutUint16(n)
<1>1. s \in Bytes /\ n \in Nat /\ n < 65536
  <2>1. s \in Bytes /\ n < Word
    BY Zenon DEF Strings, Size
  <2> QED
    BY <2>1, SizeNat DEF Word
<1>2. Size(a) \in Nat /\ Size(c) \in Nat
  BY SizeNat
<1>3. n % 65536 = n
  BY <1>1
<1>4. PutString(s) = PutUint16(Len(s) % Word) \o s /\ n = Len(s)
  BY Zenon DEF PutString, Size
<1>n. n = Size(s)
  OBVIOUS
<1> HIDE DEF n
<1>5. two \in Bytes /\ Len(two) = 2 /\ two[1] * 256 + two[2] = n
  BY <1>1, NumberBytes
<1>6. Joined(PutString(s), two, s)
  <2>1. Len(s) % Word = n
    BY <1>3, <1>4 DEF Word
  <2> QED
    BY <1>4, <2>1, Zenon DEF Joined
<1> HIDE DEF two
<1>7. Size(two) = 2
  BY <1>5, Zenon DEF Size
<1>8. PICK q : Joined(q, a, two)
  BY Zenon DEF Joined
<1>9. PICK t : Joined(t, s, c)
  BY Zenon DEF Joined
<1>10. q \in Bytes /\ Size(q) = Size(a) + 2 /\ t \in Bytes
  BY <1>1, <1>2, <1>5, <1>7, <1>8, <1>9, Join
<1>11. Joined(r, q, s)
  BY <1>1, <1>5, <1>6, <1>8, Regrouped
<1>12. r \in Bytes /\ Size(r) = Size(a) + 2 + n /\ Part(r, Size(q) + 1, Size(r)) = s
  BY <1>1, <1>2, <1>n, <1>10, <1>11, Join, JoinParts
<1>13. p \in Bytes /\ Size(p) = Size(r) + Size(c)
  BY <1>12, Join
<1>14. Uint16(p, Size(a) + 1) = n
  <2>1. Joined(p, q, t)
    BY <1>1, <1>9, <1>10, <1>11, Regrouped
  <2> QED
    BY <1>5, <1>7, <1>8, <1>10, <2>1, NumberRead
<1>15. StringEnd(p, Size(a)) = Size(r)
  BY <1>1, <1>2, <1>12, <1>14 DEF StringEnd
<1>16. StringAt(p, Size(a)) = s
  <2>1. Size(a) + 3 \in Nat \ {0} /\ Size(r) \in Nat /\ Size(r) <= Size(r)
    BY <1>1, <1>2, <1>12
  <2>2. \A i \in Nat \ {0}, j \in Nat : j <= Size(r) => Part(p, i, j) = Part(r, i, j)
    BY <1>12, JoinWithin
  <2>3. Size(a) + 3 = Size(q) + 1
    BY <1>2, <1>10
  <2> QED
    BY <1>12, <1>15, <2>1, <2>2, <2>3 DEF StringAt, Part
<1>17. HasString(p, Size(a))
  <2>1. Size(a) + 2 <= Size(p) /\ StringEnd(p, Size(a)) <= Size(p)
    BY <1>1, <1>2, <1>12, <1>13, <1>15
  <2> QED
    BY <2>1, Zenon DEF HasString, Size
<1> QED
  BY <1>n, <1>12, <1>13, <1>15, <1>16, <1>17

\* A field of one byte.
LEMMA OneByte ==
    ASSUME NEW d \in BytesOf(1)
    PROVE  d \in Bytes /\ Size(d) = 1 /\ d = <<d[1]>>
<1>1. d \in Seq(Byte) /\ Len(d) = 1
  BY DEF BytesOf, Bytes
<1>2. d \in Bytes /\ Size(d) = 1
  BY <1>1, Zenon DEF Bytes, Size
<1>3. d = <<d[1]>>
  BY <1>1
<1> QED
  BY <1>2, <1>3

\* A field of n bytes.
LEMMA SomeBytes ==
    ASSUME NEW n, NEW d \in BytesOf(n)
    PROVE  d \in Bytes /\ Size(d) = n
BY Zenon DEF BytesOf, Size

\* The part of a state before its strings.
LEMMA FixedPart ==
    ASSUME NEW a \in BytesOf(1), NEW b \in BytesOf(8), NEW c \in BytesOf(8),
           NEW d \in BytesOf(1), NEW e \in BytesOf(4), NEW rest \in Bytes,
           NEW ab, Joined(ab, a, b), NEW abc, Joined(abc, ab, c),
           NEW abcd, Joined(abcd, abc, d), NEW h, Joined(h, abcd, e),
           NEW p, Joined(p, h, rest)
    PROVE  /\ h \in Bytes /\ Size(h) = 22
           /\ p[1] = a[1] /\ Part(p, 2, 9) = b /\ Part(p, 10, 17) = c
           /\ p[18] = d[1] /\ Part(p, 19, 22) = e
<1>1. /\ a \in Bytes /\ b \in Bytes /\ c \in Bytes /\ d \in Bytes /\ e \in Bytes
      /\ Size(a) = 1 /\ Size(b) = 8 /\ Size(c) = 8 /\ Size(d) = 1 /\ Size(e) = 4
  BY SomeBytes
<1>2. ab \in Bytes /\ Size(ab) = 9
  BY <1>1, Join
<1>3. abc \in Bytes /\ Size(abc) = 17
  BY <1>1, <1>2, Join
<1>4. abcd \in Bytes /\ Size(abcd) = 18
  BY <1>1, <1>3, Join
<1>5. h \in Bytes /\ Size(h) = 22
  BY <1>1, <1>4, Join
<1>6. /\ \A i \in Nat \ {0}, j \in Nat : j <= 9 => Part(abc, i, j) = Part(ab, i, j)
      /\ \A i \in Nat \ {0}, j \in Nat : j <= 17 => Part(abcd, i, j) = Part(abc, i, j)
      /\ \A i \in Nat \ {0}, j \in Nat : j <= 18 => Part(h, i, j) = Part(abcd, i, j)
      /\ \A i \in Nat \ {0}, j \in Nat : j <= 22 => Part(p, i, j) = Part(h, i, j)
  BY <1>1, <1>2, <1>3, <1>4, <1>5, JoinWithin
<1>7. Part(ab, 2, 9) = b /\ Part(abc, 10, 17) = c /\ Part(h, 19, 22) = e
  <2>1. Part(ab, Size(a) + 1, Size(ab)) = b
    BY <1>1, JoinParts
  <2>2. Part(abc, Size(ab) + 1, Size(abc)) = c
    BY <1>1, <1>2, JoinParts
  <2>3. Part(h, Size(abcd) + 1, Size(h)) = e
    BY <1>1, <1>4, JoinParts
  <2> QED
    BY <1>1, <1>2, <1>3, <1>4, <1>5, <2>1, <2>2, <2>3
<1>8. Part(p, 2, 9) = b /\ Part(p, 10, 17) = c /\ Part(p, 19, 22) = e
  <2>1. Part(p, 2, 9) = Part(ab, 2, 9)
    BY <1>6
  <2>2. Part(p, 10, 17) = Part(abc, 10, 17)
    BY <1>6
  <2>3. Part(p, 19, 22) = Part(h, 19, 22)
    BY <1>6
  <2> QED
    BY <1>7, <2>1, <2>2, <2>3
<1>9. /\ \A i \in 1 .. 1 : ab[i] = a[i]
      /\ \A i \in 1 .. 9 : abc[i] = ab[i]
      /\ \A i \in 1 .. 17 : abcd[i] = abc[i]
      /\ \A i \in 1 .. 18 : h[i] = abcd[i]
      /\ \A i \in 1 .. 22 : p[i] = h[i]
      /\ \A i \in 1 .. 1 : abcd[17 + i] = d[i]
  <2>1. \A i \in 1 .. 1 : ab[i] = a[i]
    BY <1>1, JoinByte
  <2>2. \A i \in 1 .. 9 : abc[i] = ab[i]
    BY <1>1, <1>2, JoinByte
  <2>3. \A i \in 1 .. 17 : abcd[i] = abc[i]
    BY <1>1, <1>3, JoinByte
  <2>4. \A i \in 1 .. 18 : h[i] = abcd[i]
    BY <1>1, <1>4, JoinByte
  <2>5. \A i \in 1 .. 22 : p[i] = h[i]
    BY <1>5, JoinByte
  <2>6. \A i \in 1 .. 1 : abcd[17 + i] = d[i]
    BY <1>1, <1>3, JoinByte
  <2> QED
    BY <2>1, <2>2, <2>3, <2>4, <2>5, <2>6
<1>10. p[1] = a[1] /\ p[18] = d[1]
  <2>1. abcd[18] = d[1]
    <3>1. abcd[17 + 1] = d[1]
      BY <1>9
    <3> QED
      BY <3>1
  <2> QED
    BY <1>9, <2>1
<1> QED
  BY <1>5, <1>8, <1>10

\* What is in a product of eight sets.
LEMMA Eight ==
    ASSUME NEW A, NEW B, NEW C, NEW D, NEW E, NEW S, NEW T, NEW U,
           NEW x \in A \X B \X C \X D \X E \X S \X T \X U
    PROVE  /\ x = <<x[1], x[2], x[3], x[4], x[5], x[6], x[7], x[8]>>
           /\ x[1] \in A /\ x[2] \in B /\ x[3] \in C /\ x[4] \in D /\ x[5] \in E
           /\ x[6] \in S /\ x[7] \in T /\ x[8] \in U
OBVIOUS

\* ParseFullStatePayload gives back what a companion put into a state
\* (protocol.go:267-336).
THEOREM FullStateBack ==
    ASSUME NEW x \in Flags \X BytesOf(8) \X BytesOf(8) \X BytesOf(1)
                      \X BytesOf(4) \X Strings \X Strings \X Strings
    PROVE  ParseFullStatePayload(x[1] \o x[2] \o x[3] \o x[4] \o x[5]
               \o PutString(x[6]) \o PutString(x[7]) \o PutString(x[8])) = Parsed(x)
<1>0. PICK a, b, c, d, e, s, t, u :
        /\ x = <<a, b, c, d, e, s, t, u>>
        /\ a = x[1] /\ b = x[2] /\ c = x[3] /\ d = x[4] /\ e = x[5]
        /\ s = x[6] /\ t = x[7] /\ u = x[8]
        /\ a \in Flags /\ b \in BytesOf(8) /\ c \in BytesOf(8)
        /\ d \in BytesOf(1) /\ e \in BytesOf(4)
        /\ s \in Strings /\ t \in Strings /\ u \in Strings
  BY Eight
<1> SUFFICES ParseFullStatePayload(a \o b \o c \o d \o e
                 \o PutString(s) \o PutString(t) \o PutString(u))
               = Parsed(<<a, b, c, d, e, s, t, u>>)
  BY <1>0, Zenon
<1>1. a \in BytesOf(1) /\ a[1] % 2 = a[1] /\ a = <<a[1]>>
  <2>1. ASSUME NEW y \in Byte PROVE <<y>> \in BytesOf(1)
    BY DEF BytesOf, Bytes
  <2>2. 0 \in Byte /\ 1 \in Byte
    BY ByteBound
  <2> QED
    BY <1>0, <2>1, <2>2 DEF Flags
<1> DEFINE ab   == a \o b
           abc  == ab \o c
           abcd == abc \o d
           h    == abcd \o e
           r    == h \o PutString(s)
           q    == r \o PutString(t)
           p    == q \o PutString(u)
           rest == PutString(t) \o PutString(u)
           tail == PutString(s) \o rest
<1>2. /\ Joined(ab, a, b) /\ Joined(abc, ab, c) /\ Joined(abcd, abc, d) /\ Joined(h, abcd, e)
      /\ Joined(r, h, PutString(s)) /\ Joined(q, r, PutString(t)) /\ Joined(p, q, PutString(u))
      /\ Joined(rest, PutString(t), PutString(u)) /\ Joined(tail, PutString(s), rest)
  BY <1>0, Zenon DEF Joined
<1>p. p = a \o b \o c \o d \o e \o PutString(s) \o PutString(t) \o PutString(u)
  OBVIOUS
<1> HIDE DEF ab, abc, abcd, h, r, q, p, rest, tail
<1>3. /\ PutString(s) \in Bytes /\ PutString(t) \in Bytes /\ PutString(u) \in Bytes
      /\ rest \in Bytes /\ tail \in Bytes /\ <<>> \in Bytes
  BY <1>0, <1>2, Join, StringBytes, EmptySeq DEF Bytes
<1>4. h \in Bytes /\ Size(h) = 22
  BY <1>0, <1>1, <1>2, <1>3, FixedPart
<1>5. r \in Bytes /\ q \in Bytes /\ p \in Bytes
  BY <1>0, <1>2, <1>3, <1>4, Join
<1>6. Joined(p, r, rest) /\ Joined(p, h, tail)
  <2>1. Joined(p, r, rest)
    BY <1>0, <1>2, <1>3, <1>5, Regrouped
  <2> QED
    BY <1>0, <1>2, <1>3, <1>4, <2>1, Regrouped
<1>7. Joined(p, p, <<>>)
  BY <1>0, <1>5, ConcatEmptySeq, Zenon DEF Joined, Bytes
<1>8. /\ p[1] = a[1] /\ Part(p, 2, 9) = b /\ Part(p, 10, 17) = c
      /\ p[18] = d[1] /\ Part(p, 19, 22) = e
  BY <1>0, <1>1, <1>2, <1>3, <1>6, FixedPart
<1>9. /\ Size(r) \in Nat /\ Size(r) >= 24
      /\ StringEnd(p, 22) = Size(r) /\ StringAt(p, 22) = s /\ HasString(p, 22)
  <2>1. /\ Size(r) = Size(h) + 2 + Size(s) /\ StringEnd(p, Size(h)) = Size(r)
        /\ StringAt(p, Size(h)) = s /\ HasString(p, Size(h))
    BY <1>0, <1>2, <1>3, <1>4, <1>6, StringRead
  <2>2. Size(s) \in Nat
    BY <1>0, SizeNat, Zenon DEF Strings
  <2> QED
    BY <1>0, <1>4, <2>1, <2>2
<1>10. StringEnd(p, Size(r)) = Size(q) /\ StringAt(p, Size(r)) = t /\ HasString(p, Size(r))
  BY <1>0, <1>2, <1>3, <1>5, StringRead
<1>11. StringAt(p, Size(q)) = u /\ HasString(p, Size(q))
  BY <1>0, <1>2, <1>3, <1>5, <1>7, StringRead
<1>12. Len(p) >= 24
  <2>1. Size(p) = Size(r) + Size(rest) /\ Size(rest) \in Nat
    BY <1>0, <1>3, <1>5, <1>6, Join
  <2>2. Size(p) >= 24
    BY <1>0, <1>9, <2>1
  <2> QED
    BY <1>0, <2>2 DEF Size
<1>13. <<p[1] % 2>> = a /\ <<p[18]>> = d
  BY <1>0, <1>1, <1>8, OneByte, Zenon
<1>14. ParseFullStatePayload(p)
         = Parsed(<<<<p[1] % 2>>, Part(p, 2, 9), Part(p, 10, 17), <<p[18]>>, Part(p, 19, 22),
                    StringAt(p, 22), StringAt(p, Size(r)), StringAt(p, Size(q))>>)
  BY <1>0, <1>9, <1>10, <1>11, <1>12, Zenon DEF ParseFullStatePayload, Part
<1> QED
  BY <1>0, <1>8, <1>9, <1>10, <1>11, <1>13, <1>14, <1>p, Zenon

\* ParseCommandPayload gives back the values CreateCommandPayload was given, those
\* that are absent too (protocol.go:184-229).
THEOREM CommandBack ==
    ASSUME NEW valueMs \in BytesOf(8) \cup {<<>>},
           NEW valuePercent \in BytesOf(1) \cup {<<>>}
    PROVE  LET payload == CreateCommandPayload(valueMs, valuePercent)
           IN  /\ payload # <<>>
               /\ ParseCommandPayload(payload)
                    = [valueMs |-> valueMs, valuePercent |-> valuePercent]
<1> DEFINE flags == (IF valueMs # <<>> THEN 1 ELSE 0) + (IF valuePercent # <<>> THEN 2 ELSE 0)
           one   == <<flags>>
           x     == one \o valueMs
           p     == x \o valuePercent
<1>1. /\ valueMs \in Bytes
      /\ valueMs = <<>> => Size(valueMs) = 0
      /\ valueMs # <<>> => Size(valueMs) = 8
  BY SomeBytes, EmptySeq DEF Bytes, Size
<1>2. /\ valuePercent \in Bytes
      /\ valuePercent = <<>> => Size(valuePercent) = 0
      /\ valuePercent # <<>> => Size(valuePercent) = 1 /\ valuePercent = <<valuePercent[1]>>
  BY OneByte, EmptySeq DEF Bytes, Size
<1>3. /\ flags \in 0 .. 3
      /\ flags % 2 = 1 <=> valueMs # <<>>
      /\ (flags \div 2) % 2 = 1 <=> valuePercent # <<>>
  BY Z3
<1>4. CreateCommandPayload(valueMs, valuePercent) = p
  BY Zenon DEF CreateCommandPayload
<1> HIDE DEF flags
<1>5. one \in Bytes /\ Size(one) = 1 /\ one[1] = flags
  <2>1. flags \in Byte
    BY <1>3, ByteBound
  <2> QED
    BY <2>1 DEF Bytes, Size
<1> HIDE DEF one
<1>6. Joined(x, one, valueMs) /\ Joined(p, x, valuePercent)
  BY Zenon DEF Joined
<1> HIDE DEF x, p
<1>7. x \in Bytes /\ Size(x) = 1 + Size(valueMs)
  BY <1>1, <1>5, <1>6, Join
<1>8. p \in Bytes /\ Size(p) = 1 + Size(valueMs) + Size(valuePercent)
  BY <1>2, <1>6, <1>7, Join
<1>9. p[1] = flags
  <2>1. x[1] = one[1]
    BY <1>1, <1>5, <1>6, JoinByte
  <2>2. \A i \in 1 .. Size(x) : p[i] = x[i]
    BY <1>2, <1>6, <1>7, JoinByte
  <2>3. 1 \in 1 .. Size(x)
    BY <1>1, <1>7, SizeNat
  <2> QED
    BY <1>5, <2>1, <2>2, <2>3
<1>10. valuePercent # <<>> => p[Size(x) + 1] = valuePercent[1]
  <2>1. \A i \in 1 .. Size(valuePercent) : p[Size(x) + i] = valuePercent[i]
    BY <1>2, <1>6, <1>7, JoinByte
  <2> QED
    BY <1>2, <2>1
<1>11. p # <<>>
  BY <1>1, <1>2, <1>8 DEF Size
<1>12. valueMs # <<>> => Part(p, 2, 9) = valueMs
  <2>1. ASSUME valueMs # <<>> PROVE Part(p, 2, 9) = valueMs
    <3>1. Size(one) + 1 = 2 /\ Size(x) = 9
      BY <1>1, <1>5, <1>7, <2>1
    <3>2. Part(x, Size(one) + 1, Size(x)) = valueMs
      BY <1>1, <1>5, <1>6, JoinParts
    <3>3. \A i \in Nat \ {0}, j \in Nat : j <= Size(x) => Part(p, i, j) = Part(x, i, j)
      BY <1>2, <1>6, <1>7, JoinWithin
    <3> QED
      BY <3>1, <3>2, <3>3
  <2> QED
    BY <2>1
<1> DEFINE hasMs  == Size(p) >= 9 /\ p[1] % 2 = 1
           offset == IF hasMs THEN 9 ELSE 1
           hasPc  == Size(p) > offset /\ (p[1] \div 2) % 2 = 1
<1>13. ParseCommandPayload(p)
         = [valueMs      |-> IF hasMs THEN Part(p, 2, 9) ELSE <<>>,
            valuePercent |-> IF hasPc THEN <<p[offset + 1]>> ELSE <<>>]
  BY Zenon DEF ParseCommandPayload, Size, Part
<1>14. hasMs <=> valueMs # <<>>
  BY <1>1, <1>2, <1>3, <1>8, <1>9
<1>15. offset = Size(x)
  BY <1>1, <1>7, <1>14
<1>16. hasPc <=> valuePercent # <<>>
  BY <1>1, <1>2, <1>3, <1>7, <1>8, <1>9, <1>15
<1> HIDE DEF hasMs, offset, hasPc
<1>17. (IF hasMs THEN Part(p, 2, 9) ELSE <<>>) = valueMs
  BY <1>12, <1>14
<1>18. (IF hasPc THEN <<p[offset + 1]>> ELSE <<>>) = valuePercent
  BY <1>2, <1>10, <1>15, <1>16
<1> QED
  BY <1>4, <1>11, <1>13, <1>17, <1>18, Zenon


-----------------------------------------------------------------------------
(***************************************************************************)
(* What is decoded of a message that was damaged.                          *)
(***************************************************************************)
\* What may come of an item, and of any of some items.
Copies(item) == {Wire[item]} \cup Damaged(Wire[item])
From(items)  == UNION {Copies(item) : item \in items}

\* What the companion sends fits the fields of a header.
LEMMA ItemFits ==
    ASSUME NEW item \in Script
    PROVE  /\ item.type \in Nat /\ item.type < 4096 /\ CompanionPayload(item) \in Bytes
           /\ Len(CompanionPayload(item)) < DWord - HEADER_SIZE
BY SizeAssumption

\* No damage but that of the type changes the type or the checksum of a message.
LEMMA HeaderKept ==
    ASSUME "type" \notin Damages, NEW item \in Script, NEW m \in Copies(item)
    PROVE  m.crc32 = Checksum(CompanionPayload(item)) /\ m.versionedType % 4096 = item.type
<1> DEFINE w == Wire[item]
           size == Len(w.rest)
<1>1. \A t \in Nat : t < 4096 => /\ t % 4096 = t /\ (8192 + t) % 4096 = t
                                 /\ (4096 + t) % 4096 = t
  OBVIOUS
<1>2. w = [header |-> "whole", versionedType |-> 8192 + item.type, messageID |-> 1,
           payloadSize |-> Len(CompanionPayload(item)) % DWord,
           crc32 |-> Checksum(CompanionPayload(item)), rest |-> CompanionPayload(item)]
  <2>1. VersionedType(2, item.type) = 8192 + item.type
    BY <1>1, ItemFits DEF VersionedType
  <2> QED
    BY <2>1 DEF Wire, EncodeMessage, PROTOCOL_VERSION
<1>3. (8192 + item.type) % 4096 = item.type /\ VersionedType(1, 8192 + item.type) % 4096 = item.type
  <2>1. (8192 + item.type) % 4096 = item.type
    BY <1>1, ItemFits
  <2>2. VersionedType(1, 8192 + item.type) = 4096 + item.type
    BY <2>1, ItemFits DEF VersionedType
  <2> QED
    BY <1>1, <2>1, <2>2, ItemFits
<1>4. CASE m = w
  BY <1>2, <1>3, <1>4
<1>5. CASE m \in Damaged(w)
  <2>1. \/ m = [w EXCEPT !.header = "cut"]
        \/ m = [w EXCEPT !.rest = SubSeq(@, 1, size \div 2)]
        \/ \E i \in {size} \ {0} : m = [w EXCEPT !.rest[i] = 255 - @]
        \/ \E n \in {size + 1, DWord - 1} : m = [w EXCEPT !.payloadSize = n]
        \/ m = [w EXCEPT !.versionedType = VersionedType(1, @)]
    BY <1>5, Zenon DEF Damaged
  <2>2. CASE m = [w EXCEPT !.versionedType = VersionedType(1, @)]
    BY <1>2, <1>3, <2>2
  <2>3. ASSUME m.crc32 = w.crc32, m.versionedType = w.versionedType
        PROVE  m.crc32 = Checksum(CompanionPayload(item)) /\ m.versionedType % 4096 = item.type
    BY <1>2, <1>3, <2>3
  <2>4. CASE m = [w EXCEPT !.header = "cut"]
    BY <1>2, <2>3, <2>4
  <2>5. CASE m = [w EXCEPT !.rest = SubSeq(@, 1, size \div 2)]
    <3>1. ASSUME NEW x, m = [w EXCEPT !.rest = x]
          PROVE  m.crc32 = w.crc32 /\ m.versionedType = w.versionedType
      BY <1>2, <3>1
    <3> QED
      BY <2>3, <2>5, <3>1, Zenon
  <2>6. CASE \E i \in {size} \ {0} : m = [w EXCEPT !.rest[i] = 255 - @]
    <3>1. ASSUME NEW i, m = [w EXCEPT !.rest[i] = 255 - @]
          PROVE  m.crc32 = w.crc32 /\ m.versionedType = w.versionedType
      BY <1>2, <3>1
    <3> QED
      BY <2>3, <2>6, <3>1
  <2>7. CASE \E n \in {size + 1, DWord - 1} : m = [w EXCEPT !.payloadSize = n]
    BY <1>2, <2>3, <2>7
  <2> QED
    BY <2>1, <2>2, <2>4, <2>5, <2>6, <2>7
<1> QED
  BY <1>4, <1>5 DEF Copies

\* What is decoded has the type and the payload that were sent.
LEMMA DecodedAsSent ==
    ASSUME "type" \notin Damages, NEW item \in Script, NEW m \in Copies(item),
           DecodeMessage(m).outcome = "ok"
    PROVE  /\ DecodeMessage(m).messageType = item.type
           /\ DecodeMessage(m).payload = CompanionPayload(item)
<1>1. m.crc32 = Checksum(CompanionPayload(item)) /\ m.versionedType % 4096 = item.type
  BY HeaderKept
<1>2. CASE m = Wire[item]
  <2>1. /\ item.type \in Nat /\ item.type < 4096 /\ CompanionPayload(item) \in Bytes
        /\ Len(CompanionPayload(item)) < DWord - HEADER_SIZE
    BY ItemFits
  <2>2. m = EncodeMessage(item.type, CompanionPayload(item), 1)
    BY <1>2 DEF Wire
  <2>3. DecodeMessage(m) = [outcome |-> "ok", messageType |-> item.type,
                            payload |-> CompanionPayload(item), messageID |-> 1]
    BY <2>1, <2>2, RoundTrip
  <2> QED
    BY <2>3
<1>3. CASE m \in Damaged(Wire[item])
  <2>1. Complete(m) /\ Checksum(Payload(m)) = m.crc32 /\ DecodeMessage(m) = Read(m)
    BY DEF DecodeMessage, Unread
  <2>2. Payload(m) = CompanionPayload(item)
    BY <1>1, <1>3, <2>1, ChecksumAssumption
  <2> QED
    BY <1>1, <2>1, <2>2 DEF Read
<1> QED
  BY <1>2, <1>3 DEF Copies


-----------------------------------------------------------------------------
(***************************************************************************)
(* The shape of the state.                                                 *)
(***************************************************************************)
IsMessage(m) ==
    m = [type |-> m.type, payload |-> m.payload, id |-> m.id] /\ m.id \in 0 .. IdSpan - 1

Base ==
    /\ sent \subseteq Script /\ IsFiniteSet(sent) /\ Cardinality(sent) <= MaxSends
    /\ faults \in 0 .. MaxFaults
    /\ inbox \in [Listeners -> Seq(From(sent))]
    /\ \A l \in Listeners : Len(inbox[l]) <= Cardinality(sent)
    /\ pc \in [Listeners -> {"idle", "remove", "link", "send", "write"}]
    /\ doing = [l \in Listeners |-> doing[l]]
    /\ \A l \in Listeners : IsMessage(doing[l]) /\ (pc[l] = "idle" => doing[l] = NoMessage)
    /\ nextMessageID \in 1 .. IdSpan - 1
    /\ commands \in 0 .. MaxSends /\ commandID \in 0 .. IdSpan - 1
    /\ art \in {"absent", "partial", "whole"} /\ saving \in BOOLEAN /\ mishap \in BOOLEAN

\* A listener takes its next notification: what this does to the listeners.
Takes(l) ==
    /\ pc[l] = "idle" /\ inbox[l] # <<>>
    /\ inbox' = [inbox EXCEPT ![l] = Tail(@)]
    /\ \/ UNCHANGED <<pc, doing>>
       \/ \E step \in {"remove", "send"} : \E type, payload :
            Goes(l, step, [type |-> type, payload |-> payload, id |-> 0])
    /\ UNCHANGED <<sent, nextMessageID, written, commands, commandID, art, saving, localtime, lastSync>>
    /\ faults' = faults \/ Fault
    /\ mishap' \in {mishap, TRUE}

\* A notification is handled by a listener or ends the process.
LEMMA TakesOrPanics ==
    ASSUME NEW l, HandleNotification(l)
    PROVE  \/ Takes(l)
           \/ Restart /\ UNCHANGED faults /\ inbox[l] # <<>>
<1>1. PICK heard \in {DecodeMessage(Head(inbox[l]))} :
         \/ Handles(l, heard) /\ inbox' = [inbox EXCEPT ![l] = Tail(@)]
         \/ Panics(heard)
  BY Zenon DEF HandleNotification
<1>2. pc[l] = "idle" /\ inbox[l] # <<>>
  BY Zenon DEF HandleNotification
<1>3. CASE Panics(heard)
  BY <1>2, <1>3, Zenon DEF Panics
<1>4. CASE Handles(l, heard) /\ inbox' = [inbox EXCEPT ![l] = Tail(@)]
  <2> USE DEF Takes, link, device, file, told, sender, queue, past
  <2>1. CASE HandleNothing(heard)
    BY <1>2, <1>4, <2>1 DEF HandleNothing
  <2>2. CASE HandleCommand(heard)
    BY <1>2, <1>4, <2>2 DEF HandleCommand
  <2>3. CASE HandleStateRequest(heard)
    BY <1>2, <1>4, <2>3 DEF HandleStateRequest
  <2>4. CASE HandleAlbumArtRequest(heard)
    BY <1>2, <1>4, <2>4 DEF HandleAlbumArtRequest
  <2>5. CASE HandleFullState(heard)
    BY <1>2, <1>4, <2>5 DEF HandleFullState
  <2>6. CASE HandleTimeSync(l, heard)
    <3>1. /\ UNCHANGED <<sent, nextMessageID, written, commands, commandID, art, saving, localtime, lastSync>>
          /\ faults' = faults \/ Fault
          /\ mishap' \in {mishap, TRUE}
      BY <2>6 DEF HandleTimeSync, sender, queue, file
    <3>2. \/ UNCHANGED <<pc, doing>>
          \/ Goes(l, "remove", [type |-> MSG_TIME_SYNC, payload |-> heard.payload, id |-> 0])
      BY <2>6, Zenon DEF HandleTimeSync
    <3> QED
      BY <1>2, <1>4, <3>1, <3>2
  <2>7. ASSUME NEW type, NEW payload, Answers(l, type, payload)
        PROVE  Takes(l)
    BY <1>2, <1>4, <2>7 DEF Answers
  <2>8. CASE HandleCapabilitiesRequest(l, heard)
    BY <2>7, <2>8, Zenon DEF HandleCapabilitiesRequest
  <2>9. CASE HandleTimeSyncRequest(l, heard)
    BY <2>7, <2>9, Zenon DEF HandleTimeSyncRequest
  <2>10. CASE HandleAlbumArtAvailabilityQuery(l, heard)
    BY <2>7, <2>10, Zenon DEF HandleAlbumArtAvailabilityQuery
  <2> HIDE DEF Takes
  <2> QED
    BY <1>4, <2>1, <2>2, <2>3, <2>4, <2>5, <2>6, <2>8, <2>9, <2>10, Zenon DEF Handles
<1> QED
  BY <1>1, <1>3, <1>4

\* Sending more only adds to what a listener may receive.
LEMMA FromGrows ==
    ASSUME NEW S, NEW T, S \subseteq T
    PROVE  From(S) \subseteq From(T) /\ \A q \in Seq(From(S)) : q \in Seq(From(T))
<1>1. From(S) \subseteq From(T)
  BY DEF From
<1> QED
  BY <1>1, SeqMonotonic

\* What is put into the inboxes came of an item that is now sent.
LEMMA SendsOne ==
    ASSUME Base, CompanionSends
    PROVE  \E item \in Script \ sent :
             /\ sent' = sent \cup {item}
             /\ Cardinality(sent) < MaxSends
             /\ faults' = faults \/ Fault
             /\ \/ UNCHANGED <<inbox, lastSync>>
                \/ \E m \in Copies(item) : Arrives(m) /\ (m # Wire[item] => UNCHANGED lastSync)
             /\ UNCHANGED <<pc, doing, device, file, told, sender, mishap>>
<1>1. PICK item \in Script \ sent :
         /\ sent' = sent \cup {item}
         /\ \/ /\ Arrives(Wire[item])
               /\ lastSync' = IF item.type = MSG_TIME_SYNC THEN item ELSE lastSync
               /\ UNCHANGED faults
            \/ /\ Fault
               /\ \E m \in Damaged(Wire[item]) \ {Wire[item]} : Arrives(m)
               /\ UNCHANGED lastSync
            \/ Fault /\ UNCHANGED <<inbox, lastSync>>
  BY Zenon DEF CompanionSends
<1>2. /\ Cardinality(sent) + commands < MaxSends
      /\ UNCHANGED <<pc, doing, device, file, told, sender, mishap>>
  BY Zenon DEF CompanionSends
<1>5. Cardinality(sent) < MaxSends
  BY <1>2, FS_CardinalityType, DispatchAssumption DEF Base
<1>3. faults' = faults \/ Fault
  BY <1>1
<1>4. \/ UNCHANGED <<inbox, lastSync>>
      \/ \E m \in Copies(item) : Arrives(m) /\ (m # Wire[item] => UNCHANGED lastSync)
  BY <1>1 DEF Copies
<1> QED
  BY <1>1, <1>2, <1>3, <1>4, <1>5, Zenon

\* The shape holds at the start,
LEMMA BaseInit == Init => Base
<1> SUFFICES ASSUME Init PROVE Base
  OBVIOUS
<1>1. sent \subseteq Script /\ IsFiniteSet(sent) /\ Cardinality(sent) = 0
  BY FS_EmptySet DEF Init
<1>2. inbox \in [Listeners -> Seq(From(sent))] /\ \A l \in Listeners : Len(inbox[l]) = 0
  BY EmptySeq DEF Init
<1>3. \A l \in Listeners : IsMessage(doing[l]) /\ doing[l] = NoMessage
  BY DispatchAssumption DEF Init, IsMessage, NoMessage
<1>4. Cardinality(sent) <= MaxSends /\ \A l \in Listeners : Len(inbox[l]) <= Cardinality(sent)
  BY <1>1, <1>2, DispatchAssumption
<1>5. doing = [l \in Listeners |-> doing[l]]
  BY DEF Init
<1>6. pc \in [Listeners -> {"idle", "remove", "link", "send", "write"}]
  BY DEF Init
<1>7. /\ nextMessageID \in 1 .. IdSpan - 1 /\ faults \in 0 .. MaxFaults
      /\ commands \in 0 .. MaxSends /\ commandID \in 0 .. IdSpan - 1
  BY DispatchAssumption DEF Init
<1>8. art \in {"absent", "partial", "whole"} /\ saving \in BOOLEAN /\ mishap \in BOOLEAN
  BY Zenon DEF Init
<1> QED
  BY <1>1, <1>2, <1>3, <1>4, <1>5, <1>6, <1>7, <1>8, Zenon DEF Base

\* every step keeps it,
LEMMA BaseStep == Base /\ [Next]_vars => Base'
<1> SUFFICES ASSUME Base, [Next]_vars
             PROVE  Base'
  OBVIOUS
<1> DEFINE Steps == {"idle", "remove", "link", "send", "write"}
           Files == /\ art \in {"absent", "partial", "whole"}
                    /\ saving \in BOOLEAN /\ mishap \in BOOLEAN
           Queues == /\ inbox \in [Listeners -> Seq(From(sent))]
                     /\ \A l \in Listeners : Len(inbox[l]) <= Cardinality(sent)
           Sends  == /\ sent \subseteq Script /\ IsFiniteSet(sent)
                     /\ Cardinality(sent) <= MaxSends
           Ids    == /\ nextMessageID \in 1 .. IdSpan - 1
                     /\ commands \in 0 .. MaxSends /\ commandID \in 0 .. IdSpan - 1
           Does   == /\ pc \in [Listeners -> Steps]
                     /\ doing = [l \in Listeners |-> doing[l]]
                     /\ \A l \in Listeners :
                          IsMessage(doing[l]) /\ (pc[l] = "idle" => doing[l] = NoMessage)
<1>1. Base <=> Sends /\ faults \in 0 .. MaxFaults /\ Queues /\ Does
                 /\ Ids /\ Files
  BY DEF Base
<1>2. Base' <=> Sends' /\ faults' \in 0 .. MaxFaults /\ Queues' /\ Does'
                  /\ Ids' /\ Files'
  BY DEF Base
<1>3. Fault => faults' \in 0 .. MaxFaults
  BY <1>1, DispatchAssumption DEF Fault
<1>4. Cardinality(sent) \in Nat
  BY <1>1, FS_CardinalityType
<1>5. UNCHANGED sent => Sends'
  BY <1>1
<1>6. UNCHANGED <<sent, inbox>> => Queues'
  BY <1>1
<1>7. UNCHANGED <<pc, doing>> => Does'
  BY <1>1
<1>8. UNCHANGED <<art, saving>> /\ mishap' \in {mishap, TRUE} => Files'
  BY <1>1
<1>9. ASSUME NEW l \in Listeners, NEW step \in Steps, NEW m, IsMessage(m),
             step = "idle" => m = NoMessage, Goes(l, step, m)
      PROVE  Does'
  BY <1>1, <1>9 DEF Goes
<1>10. IsMessage(NoMessage)
  BY DispatchAssumption DEF IsMessage, NoMessage
<1>11. ASSUME Restart
       PROVE  Sends' /\ Queues' /\ Does' /\ Ids' /\ Files'
  <2>1. Sends' /\ sent' = sent
    BY <1>1, <1>11 DEF Restart
  <2>2. Queues'
    <3>1. \A l \in Listeners : inbox'[l] = <<>> /\ Len(inbox'[l]) = 0
      BY <1>11 DEF Restart
    <3>2. <<>> \in Seq(From(sent))
      BY EmptySeq
    <3>3. inbox' \in [Listeners -> Seq(From(sent))]
      BY <1>11, <3>2 DEF Restart
    <3> QED
      BY <1>4, <2>1, <3>1, <3>3
  <2>3. Does'
    BY <1>10, <1>11 DEF Restart
  <2>4. Ids'
    BY <1>1, <1>11, DispatchAssumption DEF Restart
  <2>5. Files'
    BY <1>1, <1>11 DEF Restart
  <2> QED
    BY <2>1, <2>2, <2>3, <2>4, <2>5
<1>20. UNCHANGED <<nextMessageID, commands, commandID>> => Ids'
  BY <1>1
<1> HIDE DEF Steps, Files, Queues, Sends, Does, Ids
<1>12. CASE CompanionSends
  <2>1. PICK item \in Script \ sent :
          /\ sent' = sent \cup {item}
          /\ Cardinality(sent) < MaxSends
          /\ faults' = faults \/ Fault
          /\ \/ UNCHANGED <<inbox, lastSync>>
             \/ \E m \in Copies(item) : Arrives(m)
          /\ UNCHANGED <<pc, doing, device, file, told, sender, mishap>>
    BY <1>12, SendsOne
  <2>2. Sends' /\ Cardinality(sent') = Cardinality(sent) + 1
    <3>1. IsFiniteSet(sent') /\ Cardinality(sent') = Cardinality(sent) + 1
      BY <1>1, <2>1, FS_AddElement DEF Sends
    <3> QED
      BY <1>1, <1>4, <2>1, <3>1, DispatchAssumption DEF Sends
  <2>3. Queues'
    <3>1. sent \subseteq sent' /\ item \in sent'
      BY <2>1
    <3>2. inbox \in [Listeners -> Seq(From(sent'))]
      BY <1>1, <3>1, FromGrows DEF Queues
    <3>3. CASE UNCHANGED inbox
      BY <1>1, <1>4, <2>2, <3>2, <3>3 DEF Queues
    <3>4. ASSUME NEW m \in Copies(item), Arrives(m)
          PROVE  Queues'
      <4>1. m \in From(sent')
        BY <3>1 DEF From
      <4>2. \A l \in Listeners : /\ Append(inbox[l], m) \in Seq(From(sent'))
                               /\ Len(Append(inbox[l], m)) = Len(inbox[l]) + 1
                               /\ Len(inbox[l]) \in Nat
        BY <3>2, <4>1, AppendProperties, LenProperties
      <4>3. inbox' \in [Listeners -> Seq(From(sent'))]
        BY <3>4, <4>2 DEF Arrives
      <4>4. \A l \in Listeners : Len(inbox'[l]) <= Cardinality(sent')
        BY <1>1, <1>4, <2>2, <3>4, <4>2 DEF Arrives, Queues
      <4> QED
        BY <4>3, <4>4 DEF Queues
    <3> QED
      BY <2>1, <3>3, <3>4
  <2>4. faults' \in 0 .. MaxFaults
    BY <1>1, <1>3, <2>1
  <2>5. Does' /\ Files' /\ Ids'
    BY <1>1, <1>7, <1>8, <1>20, <2>1 DEF file, sender, queue
  <2> QED
    BY <1>2, <2>2, <2>3, <2>4, <2>5
<1>13. ASSUME NEW l \in Listeners, HandleNotification(l)
       PROVE  Base'
  <2>1. CASE Takes(l)
    <3>1. Sends'
      BY <1>5, <2>1 DEF Takes
    <3>2. Queues'
      <4>1. /\ Tail(inbox[l]) \in Seq(From(sent)) /\ Len(Tail(inbox[l])) = Len(inbox[l]) - 1
            /\ Len(inbox[l]) \in Nat
        BY <1>1, <2>1, HeadTailProperties, LenProperties DEF Takes, Queues
      <4> QED
        BY <1>1, <1>4, <2>1, <4>1 DEF Takes, Queues
    <3>3. Does'
      <4>1. \A type, payload : IsMessage([type |-> type, payload |-> payload, id |-> 0])
        BY DispatchAssumption DEF IsMessage
      <4>2. CASE UNCHANGED <<pc, doing>>
        BY <1>7, <4>2
      <4>3. ASSUME NEW step \in {"remove", "send"}, NEW type, NEW payload,
                   Goes(l, step, [type |-> type, payload |-> payload, id |-> 0])
            PROVE  Does'
        BY <1>9, <4>1, <4>3 DEF Steps
      <4> QED
        BY <2>1, <4>2, <4>3 DEF Takes
    <3>4. faults' \in 0 .. MaxFaults /\ Ids' /\ Files'
      BY <1>1, <1>3, <1>8, <1>20, <2>1 DEF Takes
    <3> QED
      BY <1>2, <3>1, <3>2, <3>3, <3>4
  <2>2. CASE Restart /\ UNCHANGED faults
    BY <1>1, <1>2, <1>11, <2>2
  <2> QED
    BY <1>13, <2>1, <2>2, TakesOrPanics
<1>14. ASSUME NEW l \in Listeners, RemoveLocaltime(l) \/ LinkLocaltime(l)
       PROVE  Base'
  <2>1. Sends' /\ Queues' /\ faults' \in 0 .. MaxFaults /\ Ids' /\ Files'
    BY <1>1, <1>5, <1>6, <1>8, <1>14, <1>20
    DEF RemoveLocaltime, LinkLocaltime, link, file, sender, queue, past
  <2>2. Does'
    <3>1. IsMessage(doing[l])
      BY <1>1 DEF Does
    <3>2. Goes(l, "link", doing[l]) \/ Goes(l, "idle", NoMessage)
      BY <1>14, Zenon DEF RemoveLocaltime, LinkLocaltime
    <3> QED
      BY <1>9, <1>10, <3>1, <3>2 DEF Steps
  <2> QED
    BY <1>2, <2>1, <2>2
<1>15. ASSUME NEW l \in Listeners, GetNextMessageID(l)
       PROVE  Base'
  <2>1. Sends' /\ Queues' /\ faults' \in 0 .. MaxFaults /\ Files'
    BY <1>1, <1>5, <1>6, <1>8, <1>15 DEF GetNextMessageID, link, file, past
  <2>2. Ids'
    BY <1>1, <1>15, DispatchAssumption DEF GetNextMessageID, NextID, queue, Ids
  <2>3. Does'
    <3> DEFINE m == [doing[l] EXCEPT !.id = nextMessageID]
    <3>1. IsMessage(m)
      BY <1>1, DispatchAssumption DEF Does, IsMessage, Ids
    <3>2. Goes(l, "write", m)
      BY <1>15 DEF GetNextMessageID
    <3> HIDE DEF m
    <3> QED
      BY <1>9, <3>1, <3>2 DEF Steps
  <2> QED
    BY <1>2, <2>1, <2>2, <2>3
<1>16. ASSUME NEW l \in Listeners, Write(l) \/ WriteFails(l)
       PROVE  Base'
  <2>1. UNCHANGED <<sent, inbox, art, saving, nextMessageID, commands, commandID>> /\ mishap' \in {mishap, TRUE}
    BY <1>16 DEF Write, WriteFails, link, file, queue, past
  <2>2. faults' \in 0 .. MaxFaults
    BY <1>1, <1>3, <1>16 DEF Write, WriteFails, link
  <2>3. Goes(l, "idle", NoMessage)
    BY <1>16, Zenon DEF Write, WriteFails
  <2> QED
    BY <1>1, <1>2, <1>5, <1>6, <1>8, <1>9, <1>10, <1>20, <2>1, <2>2, <2>3 DEF Steps
<1>17. CASE SaveBegins \/ SaveEnds \/ SaveFails
  <2>1. UNCHANGED <<sent, inbox, pc, doing, nextMessageID, commands, commandID>>
    BY <1>17 DEF SaveBegins, SaveEnds, SaveFails, link, sender, queue
  <2>2. faults' \in 0 .. MaxFaults
    BY <1>1, <1>3, <1>17 DEF SaveBegins, SaveEnds, SaveFails, link
  <2>3. Files'
    BY <1>1, <1>17 DEF SaveBegins, SaveEnds, SaveFails, past, Files
  <2> QED
    BY <1>1, <1>2, <1>5, <1>6, <1>7, <1>20, <2>1, <2>2, <2>3
<1>18. CASE Crash
  BY <1>2, <1>3, <1>11, <1>18 DEF Crash
<1>19. CASE UNCHANGED vars
  BY <1>1, <1>2, <1>5, <1>6, <1>7, <1>8, <1>19, <1>20 DEF vars, link, file, sender, queue, past
<1>21. CASE SendCommand \/ CommandEnds
  <2>1. UNCHANGED <<sent, inbox, pc, doing, faults, art, saving, mishap>>
    BY <1>21 DEF SendCommand, CommandEnds, link, file, past
  <2>2. CASE SendCommand
    <3>1. /\ commands' = commands + 1 /\ commands < MaxSends
          /\ commandID' = nextMessageID /\ nextMessageID' = NextID(nextMessageID)
      BY <1>1, <1>4, <2>2, DispatchAssumption DEF SendCommand, Ids
    <3>2. Ids'
      BY <1>1, <3>1, DispatchAssumption DEF NextID, Ids
    <3> QED
      BY <1>1, <1>2, <1>5, <1>6, <1>7, <1>8, <2>1, <3>2
  <2>3. CASE CommandEnds
    <3>1. Ids'
      BY <1>1, <2>3, DispatchAssumption DEF CommandEnds, Ids
    <3> QED
      BY <1>1, <1>2, <1>5, <1>6, <1>7, <1>8, <2>1, <3>1
  <2> QED
    BY <1>21, <2>2, <2>3
<1> QED
  BY <1>12, <1>13, <1>14, <1>15, <1>16, <1>17, <1>18, <1>19, <1>21 DEF Next, ListenerStep

\* and so it always holds.
LEMMA BaseHolds == Spec => []Base
BY BaseInit, BaseStep, PTL DEF Spec


-----------------------------------------------------------------------------
(***************************************************************************)
(* Nothing but what was sent.                                              *)
(***************************************************************************)
LEMMA TypesDiffer ==
    /\ MSG_TIME_SYNC \notin Commands /\ MSG_STATE_FULL \notin Commands
    /\ MSG_CMD_ALBUM_ART_QUERY \notin Commands /\ MSG_CMD_REQUEST_STATE \notin Commands
    /\ MSG_STATE_FULL # MSG_TIME_SYNC /\ MSG_STATE_FULL # MSG_CMD_ALBUM_ART_QUERY
    /\ MSG_STATE_FULL # MSG_CMD_REQUEST_STATE
    /\ MSG_CMD_ALBUM_ART_QUERY # MSG_TIME_SYNC
    /\ MSG_CMD_ALBUM_ART_QUERY # MSG_ALBUM_ART_AVAILABLE_QUERY
    /\ MSG_ALBUM_ART_AVAILABLE_QUERY \notin Commands
    /\ MSG_ALBUM_ART_AVAILABLE_QUERY # MSG_TIME_SYNC
    /\ MSG_ALBUM_ART_AVAILABLE_QUERY # MSG_STATE_FULL
BY DEF Commands, MSG_TIME_SYNC, MSG_STATE_FULL, MSG_CMD_ALBUM_ART_QUERY, MSG_CMD_REQUEST_STATE,
       MSG_ALBUM_ART_AVAILABLE_QUERY, MSG_CMD_PLAY, MSG_CMD_PAUSE, MSG_CMD_NEXT,
       MSG_CMD_PREVIOUS, MSG_CMD_SEEK_TO, MSG_CMD_SET_VOLUME

\* The payload of each type of message.
LEMMA PayloadOf ==
    ASSUME NEW item
    PROVE  /\ item.type = MSG_TIME_SYNC =>
                CompanionPayload(item) = CreateTimeSyncPayload(item.fields[1], item.fields[2])
           /\ item.type \in Commands =>
                CompanionPayload(item) = CreateCommandPayload(item.fields[1], item.fields[2])
           /\ item.type = MSG_STATE_FULL =>
                CompanionPayload(item) =
                  item.fields[1] \o item.fields[2] \o item.fields[3] \o item.fields[4]
                    \o item.fields[5] \o PutString(item.fields[6])
                    \o PutString(item.fields[7]) \o PutString(item.fields[8])
           /\ item.type = MSG_CMD_ALBUM_ART_QUERY => CompanionPayload(item) = item.fields[1]
<1> SUFFICES ASSUME NEW a, NEW b, NEW c, NEW d, NEW e,
                    a = CreateTimeSyncPayload(item.fields[1], item.fields[2]),
                    b = CreateCommandPayload(item.fields[1], item.fields[2]),
                    c = item.fields[1] \o item.fields[2] \o item.fields[3] \o item.fields[4]
                    \o item.fields[5] \o PutString(item.fields[6])
                    \o PutString(item.fields[7]) \o PutString(item.fields[8]),
                    d = item.fields[1]
  PROVE
           /\ item.type = MSG_TIME_SYNC => CompanionPayload(item) = a
           /\ item.type \in Commands => CompanionPayload(item) = b
           /\ item.type = MSG_STATE_FULL => CompanionPayload(item) = c
           /\ item.type = MSG_CMD_ALBUM_ART_QUERY => CompanionPayload(item) = d
  BY Zenon
<1>1. item.type = MSG_TIME_SYNC => CompanionPayload(item) = a
  BY TypesDiffer, Zenon DEF CompanionPayload
<1>2. item.type \in Commands => CompanionPayload(item) = b
  BY TypesDiffer, Zenon DEF CompanionPayload
<1>3. item.type = MSG_STATE_FULL => CompanionPayload(item) = c
  BY TypesDiffer, Zenon DEF CompanionPayload
<1>4. item.type = MSG_CMD_ALBUM_ART_QUERY => CompanionPayload(item) = d
  BY TypesDiffer, Zenon DEF CompanionPayload
<1> QED
  BY <1>1, <1>2, <1>3, <1>4, Zenon


\* What was sent is decoded, and is some item's.
LEMMA HeardAsSent ==
    ASSUME Base, "type" \notin Damages, NEW l \in Listeners, inbox[l] # <<>>,
           DecodeMessage(Head(inbox[l])).outcome = "ok"
    PROVE  \E item \in sent :
             /\ item \in Script /\ Head(inbox[l]) \in Copies(item)
             /\ DecodeMessage(Head(inbox[l])).messageType = item.type
             /\ DecodeMessage(Head(inbox[l])).payload = CompanionPayload(item)
<1>1. inbox[l] \in Seq(From(sent)) /\ sent \subseteq Script
  BY DEF Base
<1>2. Head(inbox[l]) \in From(sent)
  BY <1>1, HeadTailProperties
<1>3. PICK item \in sent : Head(inbox[l]) \in Copies(item)
  BY <1>2 DEF From
<1> QED
  BY <1>1, <1>3, DecodedAsSent, Zenon

\* The payload of an item holds its fields.
LEMMA SyncSent ==
    ASSUME NEW item \in Script, item.type = MSG_TIME_SYNC
    PROVE  /\ item.fields \in BytesOf(8) \X Zones
           /\ ParseTimeSyncPayload(CompanionPayload(item)) = Parsed(item.fields)
           /\ Item(MSG_TIME_SYNC, item.fields) = item
<1>1. item.fields \in BytesOf(8) \X Zones /\ item = Item(item.type, item.fields)
  BY ScriptAssumption, Zenon DEF HasFields
<1>2. PICK time \in BytesOf(8), zone \in Zones : item.fields = <<time, zone>>
  BY <1>1
<1>3. item.fields[1] = time /\ item.fields[2] = zone
  BY <1>2
<1>4. CompanionPayload(item) = CreateTimeSyncPayload(time, zone)
  BY <1>3, PayloadOf, Zenon
<1>5. zone \in Bytes /\ Len(zone) < Word - 10
  BY Zenon DEF Zones
<1>6. ParseTimeSyncPayload(CreateTimeSyncPayload(time, zone)) = Parsed(<<time, zone>>)
  BY <1>5, TimeSyncBack, Zenon
<1> QED
  BY <1>1, <1>2, <1>4, <1>6, Zenon

\* A command is read as it was sent.
LEMMA CommandSent ==
    ASSUME NEW item \in Script, item.type \in Commands
    PROVE  /\ CompanionPayload(item) # <<>>
           /\ LET value == ParseCommandPayload(CompanionPayload(item))
              IN  Item(item.type, <<value.valueMs, value.valuePercent>>) = item
<1>1. /\ item.fields \in (BytesOf(8) \cup {<<>>}) \X (BytesOf(1) \cup {<<>>})
      /\ item = Item(item.type, item.fields)
  BY ScriptAssumption, Zenon DEF HasFields
<1>2. PICK ms \in BytesOf(8) \cup {<<>>}, pc_ \in BytesOf(1) \cup {<<>>} :
        item.fields = <<ms, pc_>>
  BY <1>1
<1>3. item.fields[1] = ms /\ item.fields[2] = pc_
  BY <1>2
<1>4. CompanionPayload(item) = CreateCommandPayload(ms, pc_)
  BY <1>3, PayloadOf, Zenon
<1>5. /\ CreateCommandPayload(ms, pc_) # <<>>
      /\ ParseCommandPayload(CreateCommandPayload(ms, pc_))
           = [valueMs |-> ms, valuePercent |-> pc_]
  BY CommandBack, Zenon
<1>6. \A v : v = [valueMs |-> ms, valuePercent |-> pc_]
               => v.valueMs = ms /\ v.valuePercent = pc_
  OBVIOUS
<1> DEFINE value == ParseCommandPayload(CompanionPayload(item))
<1>7. value.valueMs = ms /\ value.valuePercent = pc_
  BY <1>4, <1>5, <1>6, Zenon
<1> QED
  BY <1>1, <1>2, <1>4, <1>5, <1>7, Zenon

\* A full state is read as it was sent.
LEMMA StateSent ==
    ASSUME NEW item \in Script, item.type = MSG_STATE_FULL
    PROVE  /\ ParseFullStatePayload(CompanionPayload(item)) = Parsed(item.fields)
           /\ Item(MSG_STATE_FULL, item.fields) = item
<1>1. /\ item.fields \in Flags \X BytesOf(8) \X BytesOf(8) \X BytesOf(1)
                           \X BytesOf(4) \X Strings \X Strings \X Strings
      /\ item = Item(item.type, item.fields)
  BY ScriptAssumption, Zenon DEF HasFields
<1>2. PICK x : x = item.fields
  OBVIOUS
<1>3. CompanionPayload(item) = x[1] \o x[2] \o x[3] \o x[4] \o x[5]
            \o PutString(x[6]) \o PutString(x[7]) \o PutString(x[8])
  BY <1>2, PayloadOf, Zenon
<1>4. ParseFullStatePayload(CompanionPayload(item)) = Parsed(x)
  BY <1>1, <1>2, <1>3, FullStateBack, Zenon
<1> QED
  BY <1>1, <1>2, <1>4, Zenon


\* A listener that sets the timezone does it for a time sync that was sent.
Doing ==
    \A l \in Listeners : pc[l] \in {"remove", "link"} => SyncItem(doing[l]) \in sent

\* What a step may add to what the clients, the manager and the device are given.
Adds ==
    /\ sent \subseteq sent'
    /\ events' \subseteq events \cup {Shown(item) : item \in sent}
    /\ reports' \subseteq reports \cup sent
    /\ \/ clock' = clock
       \/ \E item \in sent : item.type = MSG_TIME_SYNC /\ item.fields[1] = clock'
    /\ \/ localtime' \in {localtime, None}
       \/ \E item \in sent : item.type = MSG_TIME_SYNC /\ item.fields[2] = localtime'

\* Recording one more answer of something sent made nothing up.
LEMMA AddsKeeps == AsSent /\ Adds => AsSent'
<1> SUFFICES ASSUME AsSent, Adds PROVE AsSent'
  OBVIOUS
<1>1. sent \subseteq sent'
  BY DEF Adds
<1>2. events' \subseteq {Shown(item) : item \in sent'}
  BY <1>1 DEF Adds, AsSent
<1>3. reports' \subseteq sent'
  BY <1>1 DEF Adds, AsSent
<1>4. clock' # <<>> => \E item \in sent' : item.type = MSG_TIME_SYNC /\ item.fields[1] = clock'
  BY <1>1 DEF Adds, AsSent
<1>5. localtime' # None =>
         \E item \in sent' : item.type = MSG_TIME_SYNC /\ item.fields[2] = localtime'
  BY <1>1 DEF Adds, AsSent
<1>6. \A item : Shown(item)' = Shown(item)
  BY DEF Shown
<1> QED
  BY <1>2, <1>3, <1>4, <1>5 DEF AsSent, Shown

\* A listener that goes to a step keeps Doing.
LEMMA DoingKept ==
    ASSUME Base, Doing, sent \subseteq sent', NEW l, NEW step, NEW m, Goes(l, step, m),
           step \in {"remove", "link"} => SyncItem(m) \in sent
    PROVE  Doing'
<1> SUFFICES ASSUME NEW k \in Listeners, pc'[k] \in {"remove", "link"}
             PROVE  SyncItem(doing'[k]) \in sent'
  BY DEF Doing, SyncItem
<1>1. pc' = [pc EXCEPT ![l] = step] /\ doing' = [doing EXCEPT ![l] = m]
  BY DEF Goes
<1>2. pc \in [Listeners -> {"idle", "remove", "link", "send", "write"}]
      /\ doing = [j \in Listeners |-> doing[j]]
  BY Zenon DEF Base
<1>3. CASE k = l
  <2>1. pc'[k] = step /\ doing'[k] = m
    BY <1>1, <1>2, <1>3
  <2> QED
    BY <2>1, Zenon
<1>4. CASE k # l
  <2>1. pc'[k] = pc[k] /\ doing'[k] = doing[k]
    BY <1>1, <1>2, <1>4
  <2>2. SyncItem(doing[k]) \in sent
    BY <2>1, Zenon DEF Doing
  <2> QED
    BY <2>1, <2>2, Zenon
<1> QED
  BY <1>3, <1>4

\* What the handler of a message adds.
LEMMA HandlesAdds ==
    ASSUME Base, Doing, "type" \notin Damages, NEW l \in Listeners, inbox[l] # <<>>,
           NEW heard, heard = DecodeMessage(Head(inbox[l])), Handles(l, heard)
    PROVE  Adds /\ Doing'
<1>1. UNCHANGED <<sent, localtime>>
  <2> QED
    BY DEF Handles, HandleNothing, HandleCommand, HandleStateRequest, HandleAlbumArtRequest,
           HandleFullState, HandleTimeSync, HandleCapabilitiesRequest, HandleTimeSyncRequest,
           HandleAlbumArtAvailabilityQuery, Answers, link, device
<1>2. UNCHANGED <<pc, doing>> => Doing'
  BY <1>1 DEF Doing, SyncItem
<1>3. ASSUME heard.outcome = "ok"
      PROVE  \E item \in sent : /\ item \in Script /\ heard.messageType = item.type
                                /\ heard.payload = CompanionPayload(item)
  BY <1>3, HeardAsSent
<1>4. \A item : item.type # MSG_STATE_FULL => Shown(item) = item
  BY DEF Shown
<1>5. CASE HandleNothing(heard)
  <2>1. UNCHANGED <<pc, doing, device, told>>
    BY <1>5, Zenon DEF HandleNothing
  <2> QED
    BY <1>1, <1>2, <2>1 DEF Adds, device, told
<1>6. CASE HandleCommand(heard)
  <2>1. /\ heard.outcome = "ok" /\ heard.messageType \in Commands
        /\ UNCHANGED <<pc, doing, device, reports>>
    BY <1>6, Zenon DEF HandleCommand, Hears
  <2>2. PICK item \in sent : /\ item \in Script /\ heard.messageType = item.type
                             /\ heard.payload = CompanionPayload(item)
    BY <1>3, <2>1
  <2>3. item.type \in Commands
    BY <2>1, <2>2
  <2>4. heard.payload # <<>>
    BY <2>2, <2>3, CommandSent
  <2> DEFINE value == ParseCommandPayload(heard.payload)
  <2>5. Item(item.type, <<value.valueMs, value.valuePercent>>) = item
    BY <2>2, <2>3, CommandSent, Zenon
  <2>6. Shown(item) = item
    BY <1>4, <2>3, TypesDiffer, Zenon
  <2>7. \/ UNCHANGED events
        \/ Broadcast(Item(heard.messageType, <<value.valueMs, value.valuePercent>>))
    BY <1>6, <2>4, Zenon DEF HandleCommand
  <2>8. events' \subseteq events \cup {item}
    BY <2>2, <2>5, <2>7, Zenon DEF Broadcast
  <2> HIDE DEF value
  <2> QED
    BY <1>1, <1>2, <2>1, <2>6, <2>8 DEF Adds, device
<1>7. CASE HandleStateRequest(heard)
  <2>1. /\ heard.outcome = "ok" /\ heard.messageType = MSG_CMD_REQUEST_STATE
        /\ UNCHANGED <<pc, doing, device, reports>>
        /\ events' = events \cup {Item(MSG_CMD_REQUEST_STATE, <<>>)}
    BY <1>7, Zenon DEF HandleStateRequest, Hears, Broadcast
  <2>2. PICK item \in sent : item \in Script /\ heard.messageType = item.type
    BY <1>3, <2>1
  <2>3. Item(MSG_CMD_REQUEST_STATE, <<>>) = item
    BY <2>1, <2>2, ScriptAssumption, Zenon DEF HasFields
  <2>4. Shown(item) = item
    BY <1>4, <2>1, <2>2, TypesDiffer, Zenon
  <2> QED
    BY <1>1, <1>2, <2>1, <2>3, <2>4 DEF Adds, device
<1>8. CASE HandleAlbumArtRequest(heard)
  <2>1. /\ heard.outcome = "ok" /\ heard.messageType = MSG_CMD_ALBUM_ART_QUERY
        /\ UNCHANGED <<pc, doing, device, reports>>
        /\ events' = events \cup {Item(MSG_CMD_ALBUM_ART_QUERY, <<heard.payload>>)}
    BY <1>8, Zenon DEF HandleAlbumArtRequest, Hears, Broadcast
  <2>2. PICK item \in sent : /\ item \in Script /\ heard.messageType = item.type
                             /\ heard.payload = CompanionPayload(item)
    BY <1>3, <2>1
  <2>3. heard.payload = item.fields[1]
    BY <2>1, <2>2, PayloadOf, Zenon
  <2>4. Item(MSG_CMD_ALBUM_ART_QUERY, <<heard.payload>>) = item
    BY <2>1, <2>2, <2>3, ScriptAssumption, Zenon DEF HasFields
  <2>5. Shown(item) = item
    BY <1>4, <2>1, <2>2, TypesDiffer, Zenon
  <2> QED
    BY <1>1, <1>2, <2>1, <2>4, <2>5 DEF Adds, device
<1>9. CASE HandleFullState(heard)
  <2> DEFINE state == ParseFullStatePayload(heard.payload)
  <2>1. /\ heard.outcome = "ok" /\ heard.messageType = MSG_STATE_FULL
        /\ UNCHANGED <<pc, doing, device>>
        /\ events' = events \cup {Item(MSG_STATE_FULL, <<heard.payload>>)}
        /\ \/ reports' = reports
           \/ reports' = reports \cup {Item(MSG_STATE_FULL, state.fields)}
    BY <1>9, Zenon DEF HandleFullState, Hears, Broadcast
  <2>2. PICK item \in sent : /\ item \in Script /\ heard.messageType = item.type
                             /\ heard.payload = CompanionPayload(item)
    BY <1>3, <2>1
  <2>3. state = Parsed(item.fields) /\ Item(MSG_STATE_FULL, item.fields) = item
    BY <2>1, <2>2, StateSent, Zenon
  <2>4. Item(MSG_STATE_FULL, state.fields) = item
    <3>1. \A f : Parsed(f).fields = f
      BY DEF Parsed
    <3> QED
      BY <2>3, <3>1, Zenon
  <2>5. Shown(item) = Item(MSG_STATE_FULL, <<heard.payload>>)
    BY <2>1, <2>2, Zenon DEF Shown
  <2> HIDE DEF state
  <2> QED
    BY <1>1, <1>2, <2>1, <2>4, <2>5 DEF Adds, device
<1>10. CASE HandleTimeSync(l, heard)
  <2> DEFINE sync    == ParseTimeSyncPayload(heard.payload)
             message == [type |-> MSG_TIME_SYNC, payload |-> heard.payload, id |-> 0]
  <2>1. /\ heard.outcome = "ok" /\ heard.messageType = MSG_TIME_SYNC
        /\ UNCHANGED reports
        /\ clock' = sync.fields[1] \/ UNCHANGED clock
        /\ \/ Goes(l, "remove", message) /\ UNCHANGED events
           \/ Broadcast(Item(MSG_TIME_SYNC, sync.fields)) /\ UNCHANGED <<pc, doing>>
    BY <1>10, Zenon DEF HandleTimeSync, Hears
  <2>2. PICK item \in sent : /\ item \in Script /\ heard.messageType = item.type
                             /\ heard.payload = CompanionPayload(item)
    BY <1>3, <2>1
  <2>3. sync = Parsed(item.fields) /\ Item(MSG_TIME_SYNC, item.fields) = item
    BY <2>1, <2>2, SyncSent, Zenon
  <2>4. sync.fields = item.fields
    <3>1. \A f : Parsed(f).fields = f
      BY DEF Parsed
    <3> QED
      BY <2>3, <3>1, Zenon
  <2>5. message.payload = heard.payload
    OBVIOUS
  <2>6. SyncItem(message) = item
    BY <2>3, <2>4, <2>5, Zenon DEF SyncItem
  <2>7. Shown(item) = item
    BY <1>4, <2>1, <2>2, TypesDiffer, Zenon
  <2>8. events' \subseteq events \cup {item}
    BY <2>1, <2>3, <2>4, Zenon DEF Broadcast
  <2>9. Doing'
    <3>1. CASE Goes(l, "remove", message)
      <4> HIDE DEF message
      <4>1. sent \subseteq sent' /\ SyncItem(message) \in sent
        BY <1>1, <2>6
      <4> QED
        BY <3>1, <4>1, DoingKept, Zenon
    <3> QED
      BY <1>2, <2>1, <3>1
  <2>10. clock' = clock
         \/ \E i \in sent : i.type = MSG_TIME_SYNC /\ i.fields[1] = clock'
    BY <2>1, <2>2, <2>4, Zenon
  <2> HIDE DEF sync, message
  <2> QED
    BY <1>1, <2>1, <2>7, <2>8, <2>9, <2>10 DEF Adds
<1>11. ASSUME NEW type, NEW payload, Answers(l, type, payload)
       PROVE  Adds /\ Doing'
  <2> DEFINE m == [type |-> type, payload |-> payload, id |-> 0]
  <2>1. UNCHANGED <<device, told>> /\ Goes(l, "send", m)
    BY <1>11, Zenon DEF Answers
  <2> HIDE DEF m
  <2>2. Doing'
    BY <1>1, <2>1, DoingKept
  <2> QED
    BY <1>1, <2>1, <2>2 DEF Adds, device, told
<1>12. CASE \/ HandleCapabilitiesRequest(l, heard) \/ HandleTimeSyncRequest(l, heard)
            \/ HandleAlbumArtAvailabilityQuery(l, heard)
  BY <1>11, <1>12, Zenon
  DEF HandleCapabilitiesRequest, HandleTimeSyncRequest, HandleAlbumArtAvailabilityQuery
<1> QED
  BY <1>5, <1>6, <1>7, <1>8, <1>9, <1>10, <1>12, Zenon DEF Handles

\* Every step keeps AsSent and Doing.
LEMMA AsSentStep ==
    ASSUME "type" \notin Damages
    PROVE  Base /\ AsSent /\ Doing /\ [Next]_vars => AsSent' /\ Doing'
<1> SUFFICES ASSUME Base, AsSent, Doing, [Next]_vars
             PROVE  Adds /\ Doing'
  BY AddsKeeps
<1>1. ASSUME sent \subseteq sent', UNCHANGED <<device, told>>
      PROVE  Adds
  BY <1>1 DEF Adds, device, told
<1>2. ASSUME sent \subseteq sent', UNCHANGED <<pc, doing>>
      PROVE  Doing'
  BY <1>2 DEF Doing, SyncItem
<1>3. ASSUME Restart
      PROVE  Adds /\ Doing'
  <2>1. UNCHANGED <<sent, device, told>> /\ pc' = [l \in Listeners |-> "idle"]
    BY <1>3 DEF Restart
  <2> QED
    BY <1>1, <2>1 DEF Doing
<1>4. CASE CompanionSends
  <2>1. sent \subseteq sent' /\ UNCHANGED <<pc, doing, device, told>>
    BY <1>4, SendsOne
  <2> QED
    BY <1>1, <1>2, <2>1
<1>5. ASSUME NEW l \in Listeners, HandleNotification(l)
      PROVE  Adds /\ Doing'
  <2>1. PICK heard : /\ heard = DecodeMessage(Head(inbox[l])) /\ inbox[l] # <<>>
                     /\ Handles(l, heard) \/ Panics(heard)
    BY <1>5, Zenon DEF HandleNotification
  <2> QED
    BY <1>3, <2>1, HandlesAdds, Zenon DEF Panics
<1>6. ASSUME NEW l \in Listeners, RemoveLocaltime(l)
      PROVE  Adds /\ Doing'
  <2>1. /\ pc[l] = "remove" /\ localtime' = None /\ Goes(l, "link", doing[l])
        /\ UNCHANGED <<sent, clock, told>>
    BY <1>6 DEF RemoveLocaltime, link
  <2>2. SyncItem(doing[l]) \in sent
    BY <2>1 DEF Doing
  <2>3. Doing'
    BY <2>1, <2>2, DoingKept
  <2> QED
    BY <2>1, <2>3 DEF Adds, told
<1>7. ASSUME NEW l \in Listeners, LinkLocaltime(l)
      PROVE  Adds /\ Doing'
  <2> DEFINE item == SyncItem(doing[l])
  <2>1. /\ pc[l] = "link" /\ Goes(l, "idle", NoMessage)
        /\ UNCHANGED <<sent, clock, reports>>
        /\ localtime' \in {localtime, item.fields[2]} /\ events' = events \cup {item}
    BY <1>7 DEF LinkLocaltime, link, Broadcast
  <2>2. item \in sent
    BY <2>1 DEF Doing
  <2>3. item.type = MSG_TIME_SYNC
    BY DEF SyncItem, Item
  <2>4. Shown(item) = item
    BY <2>3, TypesDiffer DEF Shown
  <2>5. Doing'
    BY <2>1, DoingKept
  <2> HIDE DEF item
  <2> QED
    BY <2>1, <2>2, <2>3, <2>4, <2>5 DEF Adds
<1>8. ASSUME NEW l \in Listeners, GetNextMessageID(l) \/ Write(l) \/ WriteFails(l)
      PROVE  Adds /\ Doing'
  <2>1. UNCHANGED <<sent, device, told>>
    BY <1>8 DEF GetNextMessageID, Write, WriteFails, link
  <2>2. \/ Goes(l, "write", [doing[l] EXCEPT !.id = nextMessageID])
        \/ Goes(l, "idle", NoMessage)
    BY <1>8, Zenon DEF GetNextMessageID, Write, WriteFails
  <2> QED
    BY <1>1, <2>1, <2>2, DoingKept
<1>9. CASE SaveBegins \/ SaveEnds \/ SaveFails
  <2>1. UNCHANGED <<sent, pc, doing, device, told>>
    BY <1>9 DEF SaveBegins, SaveEnds, SaveFails, link
  <2> QED
    BY <1>1, <1>2, <2>1
<1>10. CASE Crash
  BY <1>3, <1>10 DEF Crash
<1>11. CASE UNCHANGED vars
  BY <1>1, <1>2, <1>11 DEF vars, link
<1>12. CASE SendCommand \/ CommandEnds
  <2>1. UNCHANGED <<sent, pc, doing, device, told>>
    BY <1>12 DEF SendCommand, CommandEnds, link
  <2> QED
    BY <1>1, <1>2, <2>1
<1> QED
  BY <1>4, <1>5, <1>6, <1>7, <1>8, <1>9, <1>10, <1>11, <1>12 DEF Next, ListenerStep

\* AsSent: whatever else the link does to a message, the handlers of the switch
\* (ble_client_v2.go:649-1045) give the clients, the manager and the device nothing
\* but what the companion sent, as long as it leaves the type of a message alone:
\* the checksum is of the payload only (protocol.go:110-114).
THEOREM NothingMadeUp ==
    ASSUME "type" \notin Damages
    PROVE  Spec => []AsSent
<1>1. Init => AsSent /\ Doing
  BY DEF Init, AsSent, Doing
<1> QED
  BY <1>1, AsSentStep, BaseHolds, PTL DEF Spec


-----------------------------------------------------------------------------
(***************************************************************************)
(* How many messages a listener has done with, and how many IDs it may yet *)
(* take.                                                                   *)
(***************************************************************************)
Busy(l)     == IF pc[l] \in {"send", "write"} THEN 1 ELSE 0
Finished(l) == Cardinality(sent) - Len(inbox[l]) - Busy(l)

Unsent(l) ==
    (MaxSends - Cardinality(sent)) + Len(inbox[l]) + (IF pc[l] = "send" THEN 1 ELSE 0)

\* The amounts are numbers.
LEMMA Amounts ==
    ASSUME Base
    PROVE  /\ Cardinality(sent) \in Nat /\ Cardinality(sent) <= MaxSends /\ MaxSends \in Nat
           /\ \A l \in Listeners : /\ Len(inbox[l]) \in Nat
                                   /\ Len(inbox[l]) <= Cardinality(sent)
                                   /\ Finished(l) \in Int /\ Unsent(l) \in Nat
<1>1. Cardinality(sent) \in Nat /\ Cardinality(sent) <= MaxSends /\ MaxSends \in Nat
  BY FS_CardinalityType, DispatchAssumption DEF Base
<1>2. \A l \in Listeners : Len(inbox[l]) \in Nat /\ Len(inbox[l]) <= Cardinality(sent)
  BY LenProperties DEF Base
<1> QED
  BY <1>1, <1>2 DEF Finished, Unsent, Busy

\* A step that gives out no ID and ends no answer; a command may end.
Quietly ==
    /\ UNCHANGED <<written, nextMessageID, commands>>
    /\ commandID' \in {commandID, 0}
    /\ \A l \in Listeners :
         /\ Finished(l)' >= Finished(l) /\ Unsent(l)' <= Unsent(l)
         /\ pc'[l] = "write" => pc[l] = "write" /\ doing'[l] = doing[l]

\* An answer is sent, or is lost.
Ends(l) ==
    /\ pc[l] = "write" /\ Goes(l, "idle", NoMessage)
    /\ UNCHANGED <<sent, inbox, nextMessageID, commands, commandID>>
    /\ written' \in {written, Append(written, Sent(l))}

\* What each step does to the amounts: only taking an ID and ending a message count.
LEMMA Accounts ==
    ASSUME Base, Base', [Next]_vars
    PROVE  \/ Quietly \/ Restart
           \/ SendCommand
           \/ \E l \in Listeners : GetNextMessageID(l) \/ Ends(l)
<1>1. /\ pc \in [Listeners -> {"idle", "remove", "link", "send", "write"}]
      /\ doing = [l \in Listeners |-> doing[l]]
      /\ inbox = [l \in Listeners |-> inbox[l]]
  BY Zenon DEF Base
<1>2. ASSUME UNCHANGED <<sent, inbox, pc, doing, sender>>
      PROVE  Quietly
  BY <1>2, Amounts DEF Quietly, Finished, Unsent, Busy, sender, queue
<1>3. CASE CompanionSends
  <2>1. PICK item \in Script \ sent :
          /\ sent' = sent \cup {item}
          /\ \/ UNCHANGED inbox
             \/ \E m \in Copies(item) : Arrives(m)
          /\ UNCHANGED <<pc, doing, sender>>
    BY <1>3, SendsOne
  <2>2. Cardinality(sent') = Cardinality(sent) + 1
    BY <2>1, FS_AddElement DEF Base
  <2>3. \A l \in Listeners : Len(inbox'[l]) \in Nat /\ Len(inbox'[l]) <= Len(inbox[l]) + 1
    <3>1. CASE UNCHANGED inbox
      BY <3>1, Amounts
    <3>2. ASSUME NEW m, Arrives(m)
          PROVE  \A l \in Listeners : Len(inbox'[l]) \in Nat /\ Len(inbox'[l]) <= Len(inbox[l]) + 1
      <4>1. \A l \in Listeners : inbox'[l] = Append(inbox[l], m)
        BY <3>2 DEF Arrives
      <4>2. \A l \in Listeners : Len(Append(inbox[l], m)) = Len(inbox[l]) + 1
        BY AppendProperties DEF Base
      <4> QED
        BY <4>1, <4>2, Amounts
    <3> QED
      BY <2>1, <3>1, <3>2
  <2>4. UNCHANGED <<pc, doing, written, nextMessageID, commands, commandID>>
    BY <2>1 DEF sender, queue
  <2>5. \A l \in Listeners : Finished(l)' >= Finished(l) /\ Unsent(l)' <= Unsent(l)
    <3> TAKE l \in Listeners
    <3>1. /\ Cardinality(sent) \in Nat /\ MaxSends \in Nat /\ Len(inbox[l]) \in Nat
          /\ Len(inbox'[l]) \in Nat /\ Len(inbox'[l]) <= Len(inbox[l]) + 1
      BY <2>3, Amounts
    <3>2. Busy(l)' = Busy(l) /\ Busy(l) \in Nat
      BY <2>4 DEF Busy
    <3>3. Finished(l)' >= Finished(l)
      BY <2>2, <3>1, <3>2 DEF Finished
    <3>4. Unsent(l)' <= Unsent(l)
      BY <2>2, <2>4, <3>1 DEF Unsent
    <3> QED
      BY <3>3, <3>4
  <2> QED
    BY <2>4, <2>5 DEF Quietly
<1>4. ASSUME NEW l \in Listeners, HandleNotification(l)
      PROVE  Quietly \/ Restart
  <2>1. CASE Takes(l)
    <3>1. /\ UNCHANGED <<sent, written, nextMessageID, commands, commandID>> /\ pc[l] = "idle" /\ inbox[l] # <<>>
          /\ inbox' = [inbox EXCEPT ![l] = Tail(@)]
      BY <2>1 DEF Takes
    <3>2. \/ UNCHANGED <<pc, doing>>
          \/ \E step \in {"remove", "send"} : \E m : Goes(l, step, m)
      BY <2>1 DEF Takes
    <3>3. inbox'[l] = Tail(inbox[l]) /\ Len(Tail(inbox[l])) = Len(inbox[l]) - 1
      BY <1>1, <3>1, HeadTailProperties DEF Base
    <3>4. \A k \in Listeners \ {l} : inbox'[k] = inbox[k]
      BY <1>1, <3>1
    <3>5. pc'[l] \in {"idle", "remove", "send"}
      BY <1>1, <3>1, <3>2 DEF Goes
    <3>6. \A k \in Listeners \ {l} : pc'[k] = pc[k] /\ doing'[k] = doing[k]
      BY <1>1, <3>2 DEF Goes
    <3>7. \A k \in Listeners : /\ Finished(k)' >= Finished(k) /\ Unsent(k)' <= Unsent(k)
                               /\ pc'[k] = "write" => pc[k] = "write" /\ doing'[k] = doing[k]
      <4> TAKE k \in Listeners
      <4>1. CASE k = l
        <5>1. Len(inbox'[l]) = Len(inbox[l]) - 1 /\ Cardinality(sent') = Cardinality(sent)
          BY <3>1, <3>3
        <5>2. /\ Finished(l)' >= Finished(l) /\ Unsent(l)' <= Unsent(l)
              /\ pc'[l] # "write"
          BY <3>1, <3>5, <5>1, Amounts DEF Finished, Unsent, Busy
        <5> QED
          BY <4>1, <5>2
      <4>2. CASE k # l
        BY <3>1, <3>4, <3>6, <4>2, Amounts DEF Finished, Unsent, Busy
      <4> QED
        BY <4>1, <4>2
    <3> QED
      BY <3>1, <3>7 DEF Quietly
  <2> QED
    BY <1>4, <2>1, TakesOrPanics
<1>5. ASSUME NEW l \in Listeners, RemoveLocaltime(l) \/ LinkLocaltime(l)
      PROVE  Quietly
  <2>1. /\ UNCHANGED <<sent, inbox, written, nextMessageID, commands, commandID>> /\ pc[l] \in {"remove", "link"}
        /\ Goes(l, "link", doing[l]) \/ Goes(l, "idle", NoMessage)
    BY <1>5 DEF RemoveLocaltime, LinkLocaltime, link, sender, queue
  <2>2. /\ pc'[l] \in {"link", "idle"}
        /\ \A k \in Listeners \ {l} : pc'[k] = pc[k] /\ doing'[k] = doing[k]
    BY <1>1, <2>1 DEF Goes
  <2>3. \A k \in Listeners : /\ Finished(k)' >= Finished(k) /\ Unsent(k)' <= Unsent(k)
                             /\ pc'[k] = "write" => pc[k] = "write" /\ doing'[k] = doing[k]
    <3> TAKE k \in Listeners
    <3>1. CASE k = l
      BY <2>1, <2>2, <3>1, Amounts DEF Finished, Unsent, Busy
    <3>2. CASE k # l
      BY <2>1, <2>2, <3>2, Amounts DEF Finished, Unsent, Busy
    <3> QED
      BY <3>1, <3>2
  <2> QED
    BY <2>1, <2>3 DEF Quietly
<1>6. ASSUME NEW l \in Listeners, Write(l) \/ WriteFails(l)
      PROVE  Ends(l)
  BY <1>6 DEF Write, WriteFails, Ends, link, queue
<1>7. CASE SaveBegins \/ SaveEnds \/ SaveFails
  <2>1. UNCHANGED <<sent, inbox, pc, doing, sender>>
    BY <1>7 DEF SaveBegins, SaveEnds, SaveFails, link
  <2> QED
    BY <1>2, <2>1
<1>8. CASE Crash
  BY <1>8 DEF Crash
<1>9. CASE UNCHANGED vars
  BY <1>2, <1>9 DEF vars, link
<1>10. \/ \E l \in Listeners :
             \/ HandleNotification(l) \/ RemoveLocaltime(l) \/ LinkLocaltime(l)
             \/ GetNextMessageID(l) \/ Write(l) \/ WriteFails(l)
       \/ CompanionSends \/ SaveBegins \/ SaveEnds \/ SaveFails
       \/ Crash \/ UNCHANGED vars \/ SendCommand \/ CommandEnds
  BY Zenon DEF Next, ListenerStep
<1>11. CASE \E l \in Listeners :
              \/ HandleNotification(l) \/ RemoveLocaltime(l) \/ LinkLocaltime(l)
              \/ GetNextMessageID(l) \/ Write(l) \/ WriteFails(l)
  BY <1>4, <1>5, <1>6, <1>11, Zenon
<1>12. CASE CommandEnds
  <2>1. UNCHANGED <<sent, inbox, pc, doing, written, nextMessageID, commands>> /\ commandID' = 0
    BY <1>12 DEF CommandEnds, link
  <2> QED
    BY <2>1, Amounts DEF Quietly, Finished, Unsent, Busy
<1> QED
  BY <1>3, <1>7, <1>8, <1>9, <1>10, <1>11, <1>12, Zenon


\* A listener has written no more answers than it has done with messages: each of
\* its answers has a number of its own among them.
Numbering ==
    {f \in [1 .. Len(written) -> Listeners \X (1 .. MaxSends)] :
       /\ \A i, j \in 1 .. Len(written) : f[i] = f[j] => i = j
       /\ \A i \in 1 .. Len(written) : f[i][2] <= Finished(f[i][1])}

Counted ==
    /\ \E values : written \in Seq(values)
    /\ \A l \in Listeners : Finished(l) >= 0
    /\ \E f : f \in Numbering

\* The amounts are numbers after a step.
LEMMA AmountsNext ==
    ASSUME Base'
    PROVE  \A l \in Listeners : Finished(l)' \in Int /\ Unsent(l)' \in Nat
<1>1. Cardinality(sent') \in Nat /\ Cardinality(sent') <= MaxSends /\ MaxSends \in Nat
  BY FS_CardinalityType, DispatchAssumption DEF Base
<1>2. \A l \in Listeners : Len(inbox'[l]) \in Nat
  BY LenProperties DEF Base
<1> QED
  BY <1>1, <1>2 DEF Finished, Unsent, Busy

\* The numbers up to n are n.
LEMMA UpTo == \A n \in Nat : IsFiniteSet(1 .. n) /\ Cardinality(1 .. n) = n
BY FS_Interval

\* Every step keeps Counted.
LEMMA CountedStep == Base /\ Base' /\ Counted /\ [Next]_vars => Counted'
<1> SUFFICES ASSUME Base, Base', Counted, [Next]_vars
             PROVE  Counted'
  OBVIOUS
<1> DEFINE n == Len(written)
<1>1. PICK values : written \in Seq(values)
  BY DEF Counted
<1>2. n \in Nat
  BY <1>1, LenProperties
<1>3. PICK f : f \in Numbering
  BY DEF Counted
<1>4. /\ f \in [1 .. n -> Listeners \X (1 .. MaxSends)]
      /\ \A i, j \in 1 .. n : f[i] = f[j] => i = j
      /\ \A i \in 1 .. n : f[i][2] <= Finished(f[i][1])
  BY <1>3 DEF Numbering
<1>5. \A i \in 1 .. n : f[i][1] \in Listeners /\ f[i][2] \in 1 .. MaxSends
  BY <1>4
<1>6. ASSUME UNCHANGED written, \A l \in Listeners : Finished(l)' >= Finished(l)
      PROVE  Counted'
  <2>1. \A l \in Listeners : Finished(l) \in Int /\ Finished(l)' \in Int
    BY Amounts, AmountsNext
  <2>2. \A l \in Listeners : Finished(l)' >= 0
    BY <1>6, <2>1 DEF Counted
  <2>3. \A i \in 1 .. n : f[i][2] <= Finished(f[i][1])'
    BY <1>4, <1>5, <1>6, <2>1
  <2>4. f \in Numbering'
    BY <1>4, <1>6, <2>3 DEF Numbering
  <2> QED
    BY <1>1, <1>6, <2>2, <2>4 DEF Counted
<1>7. CASE Quietly
  BY <1>6, <1>7 DEF Quietly
<1>8. CASE Restart
  <2>1. /\ written' = <<>> /\ UNCHANGED sent
        /\ inbox' = [l \in Listeners |-> <<>>] /\ pc' = [l \in Listeners |-> "idle"]
    BY <1>8 DEF Restart, link
  <2>2. \A l \in Listeners : Finished(l)' >= 0
    BY <2>1, Amounts DEF Finished, Busy
  <2>3. written' \in Seq(values) /\ Len(written') = 0
    BY <2>1, EmptySeq
  <2>4. [i \in 1 .. 0 |-> i] \in Numbering'
    BY <2>3 DEF Numbering
  <2> QED
    BY <2>2, <2>3, <2>4 DEF Counted
<1>9. ASSUME NEW l \in Listeners, GetNextMessageID(l)
      PROVE  Counted'
  <2>1. /\ UNCHANGED <<sent, inbox, written>> /\ pc[l] = "send"
        /\ pc' = [pc EXCEPT ![l] = "write"]
    BY <1>9 DEF GetNextMessageID, Goes, link, queue
  <2>2. \A k \in Listeners : Busy(k)' = Busy(k)
    BY <2>1 DEF Busy, Base
  <2>3. \A k \in Listeners : Finished(k)' >= Finished(k)
    BY <2>1, <2>2, Amounts DEF Finished
  <2> QED
    BY <1>6, <2>1, <2>3
<1>10. ASSUME NEW l \in Listeners, Ends(l)
       PROVE  Counted'
  <2>1. /\ UNCHANGED <<sent, inbox>> /\ pc[l] = "write"
        /\ pc' = [pc EXCEPT ![l] = "idle"]
        /\ written' \in {written, Append(written, Sent(l))}
    BY <1>10 DEF Ends, Goes
  <2>2. /\ pc'[l] = "idle" /\ \A k \in Listeners \ {l} : pc'[k] = pc[k]
    BY <2>1 DEF Base
  <2>3. /\ Finished(l)' = Finished(l) + 1
        /\ \A k \in Listeners \ {l} : Finished(k)' = Finished(k)
    BY <2>1, <2>2, Amounts DEF Finished, Busy
  <2>4. \A k \in Listeners : Finished(k)' >= Finished(k)
    BY <2>3, Amounts
  <2>5. CASE written' = written
    BY <1>6, <2>4, <2>5
  <2>6. CASE written' = Append(written, Sent(l))
    <3>0. PICK size, next : size = n /\ next = <<l, Finished(l) + 1>>
      OBVIOUS
    <3>a. PICK g : g = [i \in 1 .. size + 1 |-> IF i = size + 1 THEN next ELSE f[i]]
      OBVIOUS
    <3>1. Finished(l) >= 0 /\ Finished(l) \in Int /\ Finished(l) + 1 <= MaxSends
      <4>1. Finished(l) <= Cardinality(sent) - 1
        BY <2>1, Amounts DEF Finished, Busy
      <4> QED
        BY <4>1, Amounts DEF Counted
    <3>2. next \in Listeners \X (1 .. MaxSends) /\ next[1] = l /\ next[2] = Finished(l) + 1
      BY <3>0, <3>1, Amounts
    <3>3. written \in Seq(values \cup {Sent(l)})
      BY <1>1, SeqMonotonic
    <3>4. written' \in Seq(values \cup {Sent(l)}) /\ Len(written') = n + 1
      BY <2>6, <3>3, AppendProperties
    <3>5. \A i \in 1 .. n : f[i] # next
      BY <1>4, <1>5, <3>1, <3>2
    <3>6. g \in [1 .. n + 1 -> Listeners \X (1 .. MaxSends)]
      BY <3>0, <3>a, <1>2, <1>4, <3>2
    <3>7. \A i, j \in 1 .. n + 1 : g[i] = g[j] => i = j
      BY <3>0, <3>a, <1>2, <1>4, <3>5
    <3>8. \A i \in 1 .. n + 1 : g[i][2] <= Finished(g[i][1])'
      <4> TAKE i \in 1 .. n + 1
      <4>1. CASE i = n + 1
        <5>1. g[i] = next
          BY <3>0, <3>a, <4>1, <1>2
        <5>2. next[2] <= Finished(next[1])'
          BY <2>3, <3>1, <3>2
        <5> QED
          BY <5>1, <5>2
      <4>2. CASE i \in 1 .. n
        <5>1. g[i] = f[i]
          BY <3>0, <3>a, <4>2, <1>2
        <5>2. f[i][1] \in Listeners /\ f[i][2] \in Int /\ f[i][2] <= Finished(f[i][1])
          BY <1>4, <1>5, <4>2
        <5>3. Finished(f[i][1])' >= Finished(f[i][1])
          BY <2>4, <5>2
        <5>4. Finished(f[i][1])' \in Int /\ Finished(f[i][1]) \in Int
          BY <5>2, Amounts, AmountsNext
        <5>5. f[i][2] <= Finished(f[i][1])'
          BY <5>2, <5>3, <5>4
        <5> QED
          BY <5>1, <5>5
      <4> QED
        BY <4>1, <4>2, <1>2
    <3>9. g \in Numbering'
      <4>1. Len(written') = n + 1
        BY <3>4
      <4> HIDE DEF n
      <4> QED
        BY <3>6, <3>7, <3>8, <4>1, Zenon DEF Numbering
    <3>10. \A k \in Listeners : Finished(k)' >= 0
      <4>1. \A k \in Listeners : Finished(k)' \in Int /\ Finished(k) \in Int
        BY Amounts, AmountsNext
      <4> QED
        BY <2>4, <4>1 DEF Counted
    <3> QED
      BY <3>4, <3>9, <3>10 DEF Counted
  <2> QED
    BY <2>1, <2>5, <2>6
<1>11. CASE SendCommand
  <2>1. UNCHANGED <<sent, inbox, pc, written>>
    BY <1>11 DEF SendCommand, link
  <2>2. \A l \in Listeners : Finished(l)' >= Finished(l)
    BY <2>1, Amounts DEF Finished, Busy
  <2> QED
    BY <1>6, <2>1, <2>2
<1> QED
  BY <1>7, <1>8, <1>9, <1>10, <1>11, Accounts

\* There are no more answers than listeners times messages.
LEMMA CountedBound ==
    ASSUME Base, Counted
    PROVE  Len(written) <= Cardinality(Listeners) * MaxSends
<1> DEFINE n     == Len(written)
           slots == Listeners \X (1 .. MaxSends)
<1>1. n \in Nat
  BY LenProperties DEF Counted
<1>2. PICK f \in [1 .. n -> slots] : \A i, j \in 1 .. n : f[i] = f[j] => i = j
  BY DEF Counted, Numbering
<1>3. /\ IsFiniteSet(1 .. MaxSends) /\ Cardinality(1 .. MaxSends) = MaxSends
      /\ IsFiniteSet(1 .. n) /\ Cardinality(1 .. n) = n
  BY <1>1, UpTo, DispatchAssumption
<1>4. IsFiniteSet(slots) /\ Cardinality(slots) = Cardinality(Listeners) * MaxSends
  BY <1>3, FS_Product, DispatchAssumption
<1>5. Cardinality(slots) \in Nat
  BY <1>4, FS_CardinalityType
<1> HIDE DEF slots
<1>6. ~(Cardinality(slots) < n)
  BY <1>2, <1>3, <1>4, FS_PigeonHole
<1> QED
  BY <1>1, <1>4, <1>5, <1>6

\* Counted holds at the start.
LEMMA CountedInit == Init => Counted
<1> SUFFICES ASSUME Init PROVE Counted
  OBVIOUS
<1>1. /\ written = <<>> /\ sent = {} /\ inbox = [l \in Listeners |-> <<>>]
      /\ pc = [l \in Listeners |-> "idle"]
  BY DEF Init
<1>2. \A l \in Listeners : Finished(l) >= 0
  BY <1>1, FS_EmptySet DEF Finished, Busy
<1>3. written \in Seq({}) /\ Len(written) = 0
  BY <1>1, EmptySeq
<1>4. [i \in 1 .. 0 |-> i] \in Numbering
  BY <1>3 DEF Numbering
<1> QED
  BY <1>2, <1>3, <1>4 DEF Counted

\* TypeOK: among it that no listener answers more often than it is sent messages
\* (sendMessage, ble_client_v2.go:194-231).
THEOREM DispatchTypeCorrect == Spec => []TypeOK
<1>1. Init => Base /\ Counted
  BY BaseInit, CountedInit
<1>2. Base /\ Counted /\ [Next]_vars => (Base /\ Counted)'
  BY BaseStep, CountedStep
<1>3. Base /\ Counted => TypeOK
  <2> SUFFICES ASSUME Base, Counted PROVE TypeOK
    OBVIOUS
  <2>1. Len(written) <= Cardinality(Listeners) * MaxSends
    BY CountedBound
  <2>2. \A l \in Listeners : Len(inbox[l]) <= MaxSends
    <3> TAKE l \in Listeners
    <3>1. /\ Len(inbox[l]) \in Nat /\ Len(inbox[l]) <= Cardinality(sent)
          /\ Cardinality(sent) \in Nat /\ Cardinality(sent) <= MaxSends /\ MaxSends \in Nat
      BY Amounts
    <3> QED
      BY <3>1
  <2>3. \A l \in Listeners :
          /\ pc[l] \in {"idle", "remove", "link", "send", "write"}
          /\ doing[l].id \in 0 .. IdSpan - 1 /\ (pc[l] = "idle" => doing[l] = NoMessage)
    BY DEF Base, IsMessage
  <2>4. /\ sent \subseteq Script /\ faults \in 0 .. MaxFaults
        /\ nextMessageID \in 1 .. IdSpan - 1
        /\ commands \in 0 .. MaxSends /\ commandID \in 0 .. IdSpan - 1
        /\ art \in {"absent", "partial", "whole"} /\ saving \in BOOLEAN /\ mishap \in BOOLEAN
    BY Zenon DEF Base
  <2> QED
    BY <2>1, <2>2, <2>3, <2>4, Zenon DEF TypeOK
<1> QED
  BY <1>1, <1>2, <1>3, PTL DEF Spec


-----------------------------------------------------------------------------
(***************************************************************************)
(* The IDs of the answers on their way.                                    *)
(***************************************************************************)
\* How many IDs lie between an ID and a later one.
Dist(a, b) == IF b > a THEN b - a ELSE b - a + (IdSpan - 1)

IDs == 1 .. IdSpan - 1

\* The next ID is one further.
LEMMA NextIDs ==
    ASSUME NEW a \in IDs, NEW b \in IDs
    PROVE  /\ NextID(b) \in IDs /\ Dist(a, NextID(b)) <= Dist(a, b) + 1
           /\ Dist(b, NextID(b)) = 1 /\ Dist(a, b) \in Nat
           /\ Dist(a, a) = IdSpan - 1
<1>1. NextID(b) \in IDs
  BY DispatchAssumption DEF NextID, IDs
<1>2. Dist(a, NextID(b)) <= Dist(a, b) + 1
  BY DispatchAssumption DEF NextID, IDs, Dist
<1>3. Dist(b, NextID(b)) = 1
  BY DispatchAssumption DEF NextID, IDs, Dist
<1>4. Dist(a, b) \in Nat /\ Dist(a, a) = IdSpan - 1
  BY DispatchAssumption DEF IDs, Dist
<1> QED
  BY <1>1, <1>2, <1>3, <1>4

\* The IDs some listeners may have taken, numbered; each has so many yet to take.
Taken(some, left) == {p \in some \X (1 .. MaxSends) : p[2] > left[p[1]]}

Others(l) == Listeners \ {l}
Left      == [l \in Listeners |-> Unsent(l)]
Room      == Cardinality(Listeners) * MaxSends

\* There are more IDs than the listeners and the command goroutine ever take.
FewIDsTaken == Room < IdSpan - 1

\* Those taken since a message's own lie between it and the next one.
Numbered ==
    /\ \E values : written \in Seq(values)
    /\ \A i \in 1 .. Len(written) : written[i].message.messageID # 0
    /\ \A l \in Listeners : pc[l] = "write" =>
         /\ doing[l].id \in IDs
         /\ Dist(doing[l].id, nextMessageID) <= Cardinality(Taken(Others(l), Left)) + commands + 1
    /\ commandID # 0 =>
         /\ commandID \in IDs
         /\ Dist(commandID, nextMessageID) <= Cardinality(Taken(Listeners, Left)) + 1

Differ ==
    /\ \A l, k \in Listeners :
         pc[l] = "write" /\ pc[k] = "write" /\ l # k => doing[l].id # doing[k].id
    /\ \A l \in Listeners : pc[l] = "write" => doing[l].id # commandID

\* An ID the next one has not come round to is not the next one.
LEMMA Further ==
    ASSUME NEW a \in IDs, NEW b \in IDs, NEW d \in Nat, Dist(a, b) <= d, d < IdSpan - 1
    PROVE  a # b /\ Dist(a, NextID(b)) <= d + 1
<1>1. Dist(a, b) \in Nat /\ Dist(a, NextID(b)) <= Dist(a, b) + 1 /\ Dist(a, a) = IdSpan - 1
  BY NextIDs
<1>2. Dist(a, NextID(b)) \in Nat
  BY NextIDs
<1> QED
  BY <1>1, <1>2, DispatchAssumption

\* There are as many slots as listeners times messages.
LEMMA Slots ==
    ASSUME NEW some \in SUBSET Listeners
    PROVE  /\ IsFiniteSet(some \X (1 .. MaxSends))
           /\ Cardinality(some \X (1 .. MaxSends)) = Cardinality(some) * MaxSends
<1>1. IsFiniteSet(some)
  BY FS_Subset, DispatchAssumption
<1> DEFINE each == 1 .. MaxSends
<1>2. IsFiniteSet(each) /\ Cardinality(each) = MaxSends
  BY UpTo, DispatchAssumption
<1> HIDE DEF each
<1>3. /\ IsFiniteSet(some \X each)
      /\ Cardinality(some \X each) = Cardinality(some) * Cardinality(each)
  BY <1>1, <1>2, FS_Product
<1> QED
  BY <1>2, <1>3, Zenon DEF each

\* Without one listener there are MaxSends fewer.
LEMMA RoomForOne ==
    /\ Room \in Nat /\ Cardinality(Listeners \X (1 .. MaxSends)) = Room
    /\ \A l \in Listeners : Cardinality(Others(l) \X (1 .. MaxSends)) + MaxSends = Room
<1> DEFINE n == Cardinality(Listeners)
<1>1. n \in Nat
  BY DispatchAssumption, FS_CardinalityType
<1> HIDE DEF n
<1>2. \A i, j \in Nat : i * j \in Nat /\ (i - 1) * j + j = i * j
  OBVIOUS
<1>3. MaxSends \in Nat
  BY DispatchAssumption
<1>4. n * MaxSends \in Nat /\ (n - 1) * MaxSends + MaxSends = n * MaxSends
  BY <1>1, <1>2, <1>3, Zenon
<1>5. ASSUME NEW l \in Listeners
      PROVE  Cardinality(Others(l) \X (1 .. MaxSends)) = (n - 1) * MaxSends
  <2>1. Cardinality(Others(l)) = n - 1
    BY FS_RemoveElement, DispatchAssumption DEF Others, n
  <2>2. Others(l) \in SUBSET Listeners
    BY DEF Others
  <2> QED
    BY <2>1, <2>2, Slots
<1>6. Cardinality(Listeners \X (1 .. MaxSends)) = n * MaxSends
  BY Slots, Zenon DEF n
<1>7. Room = n * MaxSends
  BY DEF Room, n
<1> QED
  BY <1>4, <1>5, <1>6, <1>7

\* The IDs taken are no more than there are slots.
LEMMA TakenFinite ==
    ASSUME NEW some \in SUBSET Listeners, NEW left
    PROVE  /\ IsFiniteSet(Taken(some, left)) /\ Cardinality(Taken(some, left)) \in Nat
           /\ Cardinality(Taken(some, left)) <= Cardinality(some \X (1 .. MaxSends))
<1>1. Taken(some, left) \in SUBSET (some \X (1 .. MaxSends))
  BY DEF Taken
<1> DEFINE slots == some \X (1 .. MaxSends)
<1>2. IsFiniteSet(slots)
  BY Slots
<1> HIDE DEF slots
<1>3. IsFiniteSet(Taken(some, left)) /\ Cardinality(Taken(some, left)) <= Cardinality(slots)
  BY <1>1, <1>2, FS_Subset, Zenon DEF slots
<1> QED
  BY <1>3, FS_CardinalityType DEF slots

\* They only grow while the listeners go on.
LEMMA TakenGrows ==
    ASSUME NEW some \in SUBSET Listeners, NEW left, NEW then,
           \A k \in some : left[k] \in Nat /\ then[k] \in Nat /\ then[k] <= left[k]
    PROVE  /\ Taken(some, left) \subseteq Taken(some, then)
           /\ Cardinality(Taken(some, left)) <= Cardinality(Taken(some, then))
<1>1. Taken(some, left) \subseteq Taken(some, then)
  <2> SUFFICES ASSUME NEW p \in Taken(some, left) PROVE p \in Taken(some, then)
    OBVIOUS
  <2>1. /\ p \in some \X (1 .. MaxSends) /\ p[2] > left[p[1]]
        /\ p[1] \in some /\ p[2] \in Nat
    BY DEF Taken
  <2>2. p[2] > then[p[1]]
    BY <2>1
  <2> QED
    BY <2>1, <2>2 DEF Taken
<1> QED
  BY <1>1, TakenFinite, FS_Subset

\* And by one when one of them takes another ID.
LEMMA TakenOneMore ==
    ASSUME NEW some \in SUBSET Listeners, NEW left, NEW then, NEW l \in some,
           \A k \in some : left[k] \in Nat /\ then[k] \in Nat /\ then[k] <= left[k],
           left[l] \in 1 .. MaxSends, then[l] < left[l]
    PROVE  Cardinality(Taken(some, left)) + 1 <= Cardinality(Taken(some, then))
<1>1. PICK p : p = <<l, left[l]>>
  OBVIOUS
<1>2. p \in Taken(some, then) /\ p \notin Taken(some, left)
  <2>1. p \in some \X (1 .. MaxSends) /\ p[1] = l /\ p[2] = left[l]
    BY <1>1
  <2>2. p[2] > then[l] /\ ~(p[2] > left[l])
    BY <2>1
  <2> QED
    BY <2>1, <2>2 DEF Taken
<1>3. /\ IsFiniteSet(Taken(some, left)) /\ Cardinality(Taken(some, left)) \in Nat
      /\ IsFiniteSet(Taken(some, then)) /\ Cardinality(Taken(some, then)) \in Nat
  BY TakenFinite
<1>4. /\ IsFiniteSet(Taken(some, left) \cup {p})
      /\ Cardinality(Taken(some, left) \cup {p}) = Cardinality(Taken(some, left)) + 1
  BY <1>2, <1>3, FS_AddElement
<1>5. Taken(some, left) \cup {p} \in SUBSET Taken(some, then)
  BY <1>2, TakenGrows
<1>6. Cardinality(Taken(some, left) \cup {p}) <= Cardinality(Taken(some, then))
  BY <1>3, <1>5, FS_Subset
<1> QED
  BY <1>3, <1>4, <1>6

\* Every step keeps the IDs of answers and command apart.
LEMMA IdsStep ==
    ASSUME FewIDsTaken
    PROVE  Base /\ Base' /\ Counted /\ Numbered /\ Differ /\ [Next]_vars => Numbered' /\ Differ'
<1> SUFFICES ASSUME Base, Base', Counted, Numbered, Differ, [Next]_vars
             PROVE  Numbered' /\ Differ'
  OBVIOUS
<1> DEFINE Apart(l) == Cardinality(Taken(Others(l), Left))
           All      == Cardinality(Taken(Listeners, Left))
           Behind(id, n) == id \in IDs /\ Dist(id, nextMessageID) <= n + 1
<1>1. PICK values : written \in Seq(values)
  BY DEF Numbered
<1>2. nextMessageID \in IDs /\ nextMessageID' \in IDs
  BY DEF Base, IDs
<1>3. \A l \in Listeners : /\ Left[l] = Unsent(l) /\ Left'[l] = Unsent(l)'
                           /\ Left[l] \in Nat /\ Left'[l] \in Nat
  BY Amounts, AmountsNext DEF Left
<1>4. \A l \in Listeners : Others(l) \in SUBSET Listeners /\ l \notin Others(l)
  BY DEF Others
<1>5. /\ \A l \in Listeners : pc[l] = "write" => Behind(doing[l].id, Apart(l) + commands)
      /\ commandID # 0 => Behind(commandID, All)
  BY DEF Numbered
<1>6. /\ \A l \in Listeners : Apart(l) \in Nat /\ Apart(l)' \in Nat
      /\ All \in Nat /\ All' \in Nat
  <2>1. \A left : /\ \A l \in Listeners : Cardinality(Taken(Others(l), left)) \in Nat
                  /\ Cardinality(Taken(Listeners, left)) \in Nat
    BY <1>4, TakenFinite
  <2> QED
    BY <2>1
<1>7. /\ \A l \in Listeners : Apart(l) + MaxSends <= Room /\ Apart(l)' + MaxSends <= Room
      /\ All <= Room /\ All' <= Room
  <2>1. /\ \A l \in Listeners : /\ Apart(l) <= Cardinality(Others(l) \X (1 .. MaxSends))
                                /\ Apart(l)' <= Cardinality(Others(l) \X (1 .. MaxSends))
        /\ All <= Cardinality(Listeners \X (1 .. MaxSends))
        /\ All' <= Cardinality(Listeners \X (1 .. MaxSends))
    <3>1. \A left :
            /\ \A l \in Listeners : Cardinality(Taken(Others(l), left))
                                     <= Cardinality(Others(l) \X (1 .. MaxSends))
            /\ Cardinality(Taken(Listeners, left)) <= Cardinality(Listeners \X (1 .. MaxSends))
      BY <1>4, TakenFinite
    <3> QED
      BY <3>1
  <2>2. MaxSends \in Nat
    BY DispatchAssumption
  <2>3. \A l \in Listeners : Cardinality(Others(l) \X (1 .. MaxSends)) \in Int
    <3> TAKE l \in Listeners
    <3>1. IsFiniteSet(Others(l) \X (1 .. MaxSends))
      BY <1>4, Slots
    <3>2. Cardinality(Others(l) \X (1 .. MaxSends)) \in Nat
      BY <3>1, FS_CardinalityType
    <3> QED
      BY <3>2
  <2> HIDE DEF Apart, All
  <2>4. \A n \in Nat, slots \in Int :
          n <= slots /\ slots + MaxSends = Room => n + MaxSends <= Room
    BY <2>2, RoomForOne
  <2>5. ASSUME NEW l \in Listeners
        PROVE  Apart(l) + MaxSends <= Room /\ Apart(l)' + MaxSends <= Room
    BY <1>6, <2>1, <2>3, <2>4, <2>5, RoomForOne, Zenon
  <2> QED
    BY <2>1, <2>5, RoomForOne, Zenon
<1>8. commands \in Nat /\ commands' \in Nat /\ commands <= MaxSends /\ commands' <= MaxSends
  BY DispatchAssumption DEF Base
<1> HIDE DEF Apart, All
<1>9. ASSUME NEW id, NEW n \in Nat, NEW m \in Nat, Behind(id, n), n <= m, UNCHANGED nextMessageID
      PROVE  id \in IDs /\ Dist(id, nextMessageID') <= m + 1
  <2>1. Dist(id, nextMessageID) \in Nat
    BY <1>2, <1>9, NextIDs
  <2> QED
    BY <1>9, <2>1
<1>10. ASSUME NEW id, NEW n \in Nat, NEW m \in Nat, Behind(id, n), n + 1 <= m, m <= Room,
              nextMessageID' = NextID(nextMessageID)
       PROVE  /\ id # nextMessageID
              /\ id \in IDs /\ Dist(id, nextMessageID') <= m + 1
  <2>1. m < IdSpan - 1 /\ Dist(id, nextMessageID) <= m
    <3>1. Dist(id, nextMessageID) \in Nat
      BY <1>2, <1>10, NextIDs
    <3> QED
      BY <1>10, <3>1, RoomForOne, DispatchAssumption DEF FewIDsTaken
  <2> QED
    BY <1>2, <1>10, <2>1, Further
<1>11. ASSUME \A l \in Listeners : Unsent(l)' <= Unsent(l)
       PROVE  (\A l \in Listeners : Apart(l) <= Apart(l)') /\ All <= All'
  BY <1>3, <1>4, <1>11, TakenGrows DEF Apart, All
<1>12. CASE Quietly
  <2>1. /\ UNCHANGED <<written, nextMessageID, commands>> /\ commandID' \in {commandID, 0}
        /\ \A l \in Listeners : Unsent(l)' <= Unsent(l)
        /\ \A l \in Listeners : pc'[l] = "write" => pc[l] = "write" /\ doing'[l] = doing[l]
    BY <1>12, Zenon DEF Quietly
  <2>2. \A l \in Listeners : pc'[l] = "write" =>
          /\ doing'[l].id \in IDs
          /\ Dist(doing'[l].id, nextMessageID') <= Apart(l)' + commands' + 1
    <3> TAKE l \in Listeners
    <3> HAVE pc'[l] = "write"
    <3>1. Apart(l) + commands \in Nat /\ Apart(l)' + commands' \in Nat
      BY <1>6, <1>8
    <3>2. Apart(l) + commands <= Apart(l)' + commands'
      BY <1>6, <1>8, <1>11, <2>1
    <3> QED
      BY <1>5, <1>9, <2>1, <3>1, <3>2
  <2>3. commandID' # 0 => commandID' \in IDs /\ Dist(commandID', nextMessageID') <= All' + 1
    BY <1>5, <1>6, <1>9, <1>11, <2>1
  <2>4. Numbered'
    BY <1>1, <2>1, <2>2, <2>3 DEF Numbered, Apart, All
  <2>5. Differ'
    <3>1. \A l \in Listeners : pc[l] = "write" => doing[l].id # 0
      BY <1>5 DEF IDs
    <3> QED
      BY <2>1, <3>1 DEF Differ
  <2> QED
    BY <2>4, <2>5
<1>13. CASE Restart
  <2>1. written' = <<>> /\ commandID' = 0 /\ \A l \in Listeners : pc'[l] = "idle"
    BY <1>13 DEF Restart
  <2>2. written' \in Seq(values) /\ Len(written') = 0
    BY <2>1, EmptySeq
  <2> QED
    BY <2>1, <2>2 DEF Numbered, Differ
<1>14. CASE SendCommand
  <2>1. /\ commandID = 0 /\ commandID' = nextMessageID /\ commands' = commands + 1
        /\ nextMessageID' = NextID(nextMessageID)
        /\ UNCHANGED <<pc, doing, written, sent, inbox>>
    BY <1>14 DEF SendCommand, link
  <2>2. \A l \in Listeners : Unsent(l)' <= Unsent(l)
    BY <2>1, Amounts DEF Unsent
  <2>3. ASSUME NEW l \in Listeners, pc[l] = "write"
        PROVE  /\ doing[l].id # nextMessageID
               /\ doing[l].id \in IDs
               /\ Dist(doing[l].id, nextMessageID') <= Apart(l)' + commands' + 1
    <3>1. Apart(l) + commands \in Nat /\ Apart(l)' + commands' \in Nat
      BY <1>6, <1>8
    <3>2. Apart(l) + commands + 1 <= Apart(l)' + commands' /\ Apart(l)' + commands' <= Room
      BY <1>6, <1>7, <1>8, <1>11, <2>1, <2>2, RoomForOne, DispatchAssumption
    <3> QED
      BY <1>5, <1>10, <2>1, <2>3, <3>1, <3>2
  <2>4. commandID' \in IDs /\ Dist(commandID', nextMessageID') <= All' + 1
    <3>1. Dist(nextMessageID, NextID(nextMessageID)) = 1
      BY <1>2, NextIDs
    <3>2. 1 <= All' + 1
      <4>1. \A n \in Nat : 1 <= n + 1
        OBVIOUS
      <4> QED
        BY <1>6, <4>1, Zenon
    <3>3. commandID' \in IDs /\ Dist(commandID', nextMessageID') = 1
      BY <1>2, <2>1, <3>1, Zenon
    <3> QED
      BY <3>2, <3>3, Zenon
  <2>5. Numbered'
    BY <1>1, <2>1, <2>3, <2>4 DEF Numbered, Apart, All
  <2>6. Differ'
    BY <2>1, <2>3 DEF Differ
  <2> QED
    BY <2>5, <2>6
<1>15. ASSUME NEW l \in Listeners, Ends(l)
       PROVE  Numbered' /\ Differ'
  <2>1. /\ pc[l] = "write" /\ pc' = [pc EXCEPT ![l] = "idle"]
        /\ doing' = [doing EXCEPT ![l] = NoMessage]
        /\ UNCHANGED <<sent, inbox, nextMessageID, commands, commandID>>
        /\ written' \in {written, Append(written, Sent(l))}
    BY <1>15 DEF Ends, Goes
  <2>2. /\ pc'[l] = "idle"
        /\ \A k \in Listeners \ {l} : pc'[k] = pc[k] /\ doing'[k] = doing[k]
    BY <2>1 DEF Base
  <2>3. \A k \in Listeners : Unsent(k)' <= Unsent(k)
    <3>1. \A k \in Listeners : pc'[k] = "send" => pc[k] = "send"
      BY <2>2
    <3> QED
      BY <2>1, <3>1, Amounts DEF Unsent
  <2>4. \A k \in Listeners : pc'[k] = "write" =>
          /\ doing'[k].id \in IDs
          /\ Dist(doing'[k].id, nextMessageID') <= Apart(k)' + commands' + 1
    <3> TAKE k \in Listeners
    <3> HAVE pc'[k] = "write"
    <3>1. pc[k] = "write" /\ doing'[k] = doing[k]
      BY <2>2
    <3>2. Apart(k) + commands \in Nat /\ Apart(k)' + commands' \in Nat
      BY <1>6, <1>8
    <3>3. Apart(k) + commands <= Apart(k)' + commands'
      BY <1>6, <1>8, <1>11, <2>1, <2>3
    <3> QED
      BY <1>5, <1>9, <2>1, <3>1, <3>2, <3>3
  <2>5. commandID' # 0 => commandID' \in IDs /\ Dist(commandID', nextMessageID') <= All' + 1
    BY <1>5, <1>6, <1>9, <1>11, <2>1, <2>3
  <2>6. /\ \E v : written' \in Seq(v)
        /\ \A i \in 1 .. Len(written') : written'[i].message.messageID # 0
    <3>1. CASE written' = written
      BY <1>1, <3>1 DEF Numbered
    <3>2. CASE written' = Append(written, Sent(l))
      <4>1. Sent(l).message.messageID = doing[l].id
        BY DEF Sent, EncodeMessage
      <4>2. doing[l].id \in IDs
        BY <2>1 DEF Numbered
      <4>3. Sent(l).message.messageID # 0
        BY <4>1, <4>2, DispatchAssumption DEF IDs
      <4>4. written \in Seq(values \cup {Sent(l)})
        BY <1>1, SeqMonotonic
      <4>5. /\ written' \in Seq(values \cup {Sent(l)}) /\ Len(written') = Len(written) + 1
            /\ \A i \in 1 .. Len(written) : written'[i] = written[i]
            /\ written'[Len(written) + 1] = Sent(l) /\ Len(written) \in Nat
        BY <3>2, <4>4, AppendProperties, LenProperties
      <4> QED
        BY <4>3, <4>5 DEF Numbered
    <3> QED
      BY <2>1, <3>1, <3>2
  <2>7. Differ'
    BY <2>1, <2>2 DEF Differ
  <2>8. Numbered'
    BY <2>4, <2>5, <2>6 DEF Numbered, Apart, All
  <2> QED
    BY <2>7, <2>8
<1>16. ASSUME NEW l \in Listeners, GetNextMessageID(l)
       PROVE  Numbered' /\ Differ'
  <2>1. /\ pc[l] = "send" /\ pc' = [pc EXCEPT ![l] = "write"]
        /\ doing' = [doing EXCEPT ![l] = [doing[l] EXCEPT !.id = nextMessageID]]
        /\ nextMessageID' = NextID(nextMessageID)
        /\ UNCHANGED <<sent, inbox, written, commands, commandID>>
    BY <1>16 DEF GetNextMessageID, Goes, link, queue
  <2>2. /\ pc'[l] = "write" /\ doing'[l] = [doing[l] EXCEPT !.id = nextMessageID]
        /\ \A k \in Listeners \ {l} : pc'[k] = pc[k] /\ doing'[k] = doing[k]
    BY <2>1 DEF Base
  <2>3. doing'[l].id = nextMessageID
    BY <2>2 DEF Base, IsMessage
  <2>4. /\ Left'[l] < Left[l]
        /\ \A k \in Listeners : Left'[k] <= Left[k]
    <3>1. /\ Unsent(l)' = Unsent(l) - 1
          /\ \A k \in Listeners \ {l} : Unsent(k)' = Unsent(k)
      BY <2>1, <2>2, Amounts DEF Unsent
    <3> QED
      BY <1>3, <3>1
  <2>5. Left[l] \in 1 .. MaxSends
    <3>1. Finished(l) >= 0 /\ Busy(l) = 1
      BY <2>1 DEF Counted, Busy
    <3>2. Len(inbox[l]) + 1 <= Cardinality(sent)
      BY <3>1, Amounts DEF Finished
    <3>3. Unsent(l) \in 1 .. MaxSends
      BY <2>1, <3>2, Amounts DEF Unsent
    <3> QED
      BY <1>3, <3>3
  <2>6. ASSUME NEW k \in Listeners \ {l}, pc[k] = "write"
        PROVE  /\ doing[k].id # nextMessageID
               /\ doing[k].id \in IDs
               /\ Dist(doing[k].id, nextMessageID') <= Apart(k)' + commands' + 1
    <3>1. l \in Others(k)
      BY DEF Others
    <3>2. Apart(k) + 1 <= Apart(k)'
      BY <1>3, <1>4, <2>4, <2>5, <3>1, TakenOneMore DEF Apart
    <3>3. Apart(k) + commands \in Nat /\ Apart(k)' + commands' \in Nat
      BY <1>6, <1>8
    <3>4. Apart(k) + commands + 1 <= Apart(k)' + commands' /\ Apart(k)' + commands' <= Room
      BY <1>6, <1>7, <1>8, <2>1, <3>2, RoomForOne, DispatchAssumption
    <3> QED
      BY <1>5, <1>10, <2>1, <2>6, <3>3, <3>4
  <2>7. ASSUME commandID # 0
        PROVE  /\ commandID # nextMessageID
               /\ commandID \in IDs /\ Dist(commandID, nextMessageID') <= All' + 1
    <3>1. All + 1 <= All'
      BY <1>3, <2>4, <2>5, TakenOneMore DEF All
    <3> QED
      BY <1>5, <1>6, <1>7, <1>10, <2>1, <2>7, <3>1
  <2>8. \A k \in Listeners : pc'[k] = "write" =>
          /\ doing'[k].id \in IDs
          /\ Dist(doing'[k].id, nextMessageID') <= Apart(k)' + commands' + 1
    <3> TAKE k \in Listeners
    <3>1. CASE k = l
      <4>1. doing'[l].id \in IDs /\ Dist(doing'[l].id, nextMessageID') = 1
        BY <1>2, <2>1, <2>3, NextIDs
      <4> QED
        BY <1>6, <1>8, <3>1, <4>1
    <3>2. CASE k # l
      BY <2>2, <2>6, <3>2
    <3> QED
      BY <3>1, <3>2
  <2>9. Numbered'
    BY <1>1, <2>1, <2>7, <2>8 DEF Numbered, Apart, All
  <2>10. Differ'
    <3>1. ASSUME NEW i \in Listeners, NEW j \in Listeners,
                 pc'[i] = "write", pc'[j] = "write", i # j
          PROVE  doing'[i].id # doing'[j].id
      <4>1. CASE i = l
        BY <2>2, <2>3, <2>6, <3>1, <4>1
      <4>2. CASE j = l
        BY <2>2, <2>3, <2>6, <3>1, <4>2
      <4>3. CASE i # l /\ j # l
        BY <2>2, <3>1, <4>3 DEF Differ
      <4> QED
        BY <4>1, <4>2, <4>3
    <3>2. ASSUME NEW i \in Listeners, pc'[i] = "write"
          PROVE  doing'[i].id # commandID'
      <4>1. CASE i = l
        BY <1>2, <2>1, <2>3, <2>7, <4>1 DEF IDs
      <4>2. CASE i # l
        BY <2>1, <2>2, <3>2, <4>2 DEF Differ
      <4> QED
        BY <4>1, <4>2
    <3> QED
      BY <3>1, <3>2 DEF Differ
  <2> QED
    BY <2>9, <2>10
<1> QED
  BY <1>12, <1>13, <1>14, <1>15, <1>16, Accounts

\* IdsInFlight: the IDs getNextMessageID gives out (ble_client_v2.go:99-109) are
\* never 0, and differ while their messages are on their way, answers of listeners
\* and the command processCommandQueue writes, for as long as they take fewer of
\* them than there are.
THEOREM IdsDiffer ==
    ASSUME FewIDsTaken
    PROVE  Spec => []IdsInFlight
<1>1. Init => Base /\ Counted /\ Numbered /\ Differ
  <2>1. Init => Numbered /\ Differ
    <3>1. <<>> \in Seq({}) /\ Len(<<>>) = 0
      BY EmptySeq
    <3> QED
      BY <3>1 DEF Init, Numbered, Differ
  <2> QED
    BY <2>1, BaseInit, CountedInit
<1>2. Base /\ Counted /\ Numbered /\ Differ /\ [Next]_vars
        => (Base /\ Counted /\ Numbered /\ Differ)'
  BY BaseStep, CountedStep, IdsStep
<1>3. Numbered /\ Differ => IdsInFlight
  BY DEF Numbered, Differ, IdsInFlight
<1> QED
  BY <1>1, <1>2, <1>3, PTL DEF Spec


-----------------------------------------------------------------------------
(***************************************************************************)
(* The last time sync prevails.                                            *)
(***************************************************************************)
\* What is decoded as a time sync.
IsSync(m) ==
    DecodeMessage(m).outcome = "ok" /\ DecodeMessage(m).messageType = MSG_TIME_SYNC

\* The message the companion puts on the wire.
LEMMA WireOf ==
    ASSUME NEW item \in Script
    PROVE  Wire[item] = [header |-> "whole", versionedType |-> 8192 + item.type, messageID |-> 1,
                         payloadSize |-> Len(CompanionPayload(item)),
                         crc32 |-> Checksum(CompanionPayload(item)),
                         rest |-> CompanionPayload(item)]
<1>1. Len(CompanionPayload(item)) % DWord = Len(CompanionPayload(item))
  <2> DEFINE n == Len(CompanionPayload(item))
  <2>1. n \in Nat /\ n < DWord - 16 /\ DWord \in Nat
    BY ItemFits, LenProperties, WidthAssumption DEF Bytes, HEADER_SIZE
  <2> HIDE DEF n
  <2>2. n % DWord = n
    BY <2>1
  <2> QED
    BY <2>2 DEF n
<1>2. \A t \in Nat : t < 4096 => 2 * 4096 + (t % 4096) = 8192 + t
  OBVIOUS
<1>3. VersionedType(2, item.type) = 8192 + item.type
  BY <1>2, ItemFits DEF VersionedType
<1>4. Wire[item] = [header |-> "whole", versionedType |-> VersionedType(2, item.type),
                    messageID |-> 1, payloadSize |-> Len(CompanionPayload(item)) % DWord,
                    crc32 |-> Checksum(CompanionPayload(item)), rest |-> CompanionPayload(item)]
  BY DEF Wire, EncodeMessage, PROTOCOL_VERSION
<1>5. ASSUME NEW type, type = VersionedType(2, item.type),
             NEW size, size = Len(CompanionPayload(item)) % DWord
      PROVE  Wire[item] = [header |-> "whole", versionedType |-> type,
                    messageID |-> 1, payloadSize |-> size,
                    crc32 |-> Checksum(CompanionPayload(item)), rest |-> CompanionPayload(item)]
  BY <1>4, <1>5, Zenon
<1> QED
  BY <1>1, <1>3, <1>5

\* A time sync is long enough to be parsed.
LEMMA SyncLength ==
    ASSUME NEW item \in Script, item.type = MSG_TIME_SYNC
    PROVE  Len(CompanionPayload(item)) \in Nat /\ Len(CompanionPayload(item)) >= 10
<1>1. Len(CompanionPayload(item)) \in Nat
  BY ItemFits, LenProperties DEF Bytes
<1>2. ~(Len(CompanionPayload(item)) < 10)
  <2>1. ParseTimeSyncPayload(CompanionPayload(item)).outcome = "ok"
    BY SyncSent DEF Parsed
  <2>2. Unparsed("error").outcome # "ok"
    BY DEF Unparsed
  <2> QED
    BY <2>1, <2>2, Zenon DEF ParseTimeSyncPayload
<1> QED
  BY <1>1, <1>2

\* A damaged time sync whose type survived is never decoded: its checksum tells.
LEMMA DamagedSyncUnread ==
    ASSUME "type" \notin Damages, NEW item \in Script, item.type = MSG_TIME_SYNC,
           NEW m \in Damaged(Wire[item])
    PROVE  DecodeMessage(m).outcome # "ok"
<1> SUFFICES ASSUME DecodeMessage(m).outcome = "ok"
             PROVE  FALSE
  OBVIOUS
<1> DEFINE p    == CompanionPayload(item)
           w    == Wire[item]
           size == Len(p)
<1>1. w = [header |-> "whole", versionedType |-> 8194, messageID |-> 1,
           payloadSize |-> size, crc32 |-> Checksum(p), rest |-> p]
  BY WireOf DEF MSG_TIME_SYNC
<1>2. /\ p \in Seq(Byte) /\ size \in Nat /\ size >= 10 /\ size < DWord - 16
      /\ DWord \in Nat
  BY ItemFits, SyncLength, WidthAssumption DEF Bytes, HEADER_SIZE
<1>3. Complete(m) /\ DecodeMessage(m).payload = p
  <2>1. m \in Copies(item)
    BY DEF Copies
  <2> QED
    BY <2>1, DecodedAsSent DEF DecodeMessage, Unread
<1> HIDE DEF p
<1>4. ASSUME m.rest \in Bytes, m.payloadSize \in 0 .. DWord - 1
      PROVE  SubSeq(m.rest, 1, m.payloadSize) = p /\ m.payloadSize <= Len(m.rest)
  BY <1>3, <1>4, DecodedIsAnnounced
<1> HIDE DEF size
<1>5. size = Len(p)
  BY DEF size
<1>6. \/ m = [w EXCEPT !.header = "cut"]
      \/ m = [w EXCEPT !.rest = SubSeq(@, 1, Len(w.rest) \div 2)]
      \/ \E i \in {Len(w.rest)} \ {0} : m = [w EXCEPT !.rest[i] = 255 - @]
      \/ \E n \in {Len(w.rest) + 1, DWord - 1} : m = [w EXCEPT !.payloadSize = n]
      \/ m = [w EXCEPT !.versionedType = VersionedType(1, @)]
  BY Zenon DEF Damaged
<1>7. CASE m = [w EXCEPT !.header = "cut"]
  BY <1>1, <1>3, <1>7 DEF Complete
<1>8. CASE m = [w EXCEPT !.rest = SubSeq(@, 1, Len(w.rest) \div 2)]
  <2>1. w.rest = p
    BY <1>1
  <2>2. PICK r : r = SubSeq(p, 1, Len(p) \div 2)
    OBVIOUS
  <2>3. m.rest = r /\ m.payloadSize = size
    <3>1. m = [w EXCEPT !.rest = r]
      BY <1>8, <2>1, <2>2, Zenon
    <3> QED
      BY <1>1, <3>1
  <2>4. r \in Seq(Byte) /\ Len(r) = size \div 2
    <3>1. \A i \in 1 .. Len(p) \div 2 : p[i] \in Byte
      BY <1>2, <1>5, ElementOfSeq
    <3> QED
      BY <1>2, <1>5, <2>2, <3>1, SubSeqProperties
  <2>5. size <= size \div 2
    BY <1>2, <1>4, <2>3, <2>4 DEF Bytes
  <2> QED
    BY <1>2, <2>5
<1>9. ASSUME NEW i \in {Len(w.rest)} \ {0}, m = [w EXCEPT !.rest[i] = 255 - @]
      PROVE  FALSE
  <2>1. PICK r : r = [p EXCEPT ![size] = 255 - p[size]]
    OBVIOUS
  <2>2. w.rest = p /\ i = size
    BY <1>1, <1>5
  <2>3. m.rest = r /\ m.payloadSize = size
    BY <1>1, <1>9, <2>1, <2>2
  <2>4. p[size] \in Nat /\ p[size] < 256 /\ size \in 1 .. Len(p)
    <3>1. size \in 1 .. Len(p)
      BY <1>2, <1>5
    <3>2. p[size] \in Byte
      BY <1>2, <3>1, ElementOfSeq
    <3> QED
      BY <3>1, <3>2, ByteBound
  <2>5. 255 - p[size] \in Byte /\ 255 - p[size] # p[size]
    BY <2>4, ByteBound
  <2>6. r \in Seq(Byte) /\ Len(r) = size /\ r[size] = 255 - p[size]
    BY <1>2, <1>5, <2>1, <2>4, <2>5, ExceptSeq
  <2>7. SubSeq(r, 1, size) = p
    BY <1>2, <1>4, <2>3, <2>6 DEF Bytes
  <2>8. SubSeq(r, 1, size) = r
    BY <2>6, SubSeqFull
  <2> QED
    BY <2>5, <2>6, <2>7, <2>8
<1>10. ASSUME NEW n \in {Len(w.rest) + 1, DWord - 1}, m = [w EXCEPT !.payloadSize = n]
       PROVE  FALSE
  <2>1. w.rest = p /\ n \in {size + 1, DWord - 1}
    BY <1>1, <1>5, <1>10
  <2>2. m.rest = p /\ m.payloadSize = n
    BY <1>1, <1>10, <2>1
  <2>3. n \in 0 .. DWord - 1 /\ n > size
    BY <1>2, <2>1
  <2>4. m.payloadSize <= Len(m.rest)
    BY <1>2, <1>4, <2>2, <2>3 DEF Bytes
  <2> QED
    BY <1>2, <1>5, <2>2, <2>3, <2>4
<1>11. CASE m = [w EXCEPT !.versionedType = VersionedType(1, @)]
  <2>1. 8194 % 4096 = 2 /\ 4098 \div 4096 = 1 /\ 4098 % 4096 = 2
    OBVIOUS
  <2>2. m.versionedType = 4098
    BY <1>1, <1>11, <2>1 DEF VersionedType
  <2>3. ~Accepted(1, 2)
    BY DEF Accepted, IsAlbumArtMessage, PROTOCOL_VERSION, MSG_CMD_ALBUM_ART_QUERY
  <2> QED
    BY <1>3, <2>1, <2>2, <2>3 DEF Complete
<1> QED
  BY <1>6, <1>7, <1>8, <1>9, <1>10, <1>11

\* Only an undamaged time sync is heard as one.
LEMMA SyncIsWhole ==
    ASSUME "type" \notin Damages, NEW item \in Script, NEW m \in Copies(item)
    PROVE  IsSync(m) <=> item.type = MSG_TIME_SYNC /\ m = Wire[item]
<1>1. IsSync(m) => item.type = MSG_TIME_SYNC /\ m = Wire[item]
  <2> SUFFICES ASSUME IsSync(m) PROVE item.type = MSG_TIME_SYNC /\ m = Wire[item]
    OBVIOUS
  <2>1. item.type = MSG_TIME_SYNC
    BY DecodedAsSent, Zenon DEF IsSync
  <2> QED
    BY <2>1, DamagedSyncUnread, Zenon DEF Copies, IsSync
<1>2. item.type = MSG_TIME_SYNC /\ m = Wire[item] => IsSync(m)
  <2> SUFFICES ASSUME item.type = MSG_TIME_SYNC, m = Wire[item] PROVE IsSync(m)
    OBVIOUS
  <2>1. m = EncodeMessage(item.type, CompanionPayload(item), 1)
    BY DEF Wire
  <2>2. DecodeMessage(m) = [outcome |-> "ok", messageType |-> item.type,
                            payload |-> CompanionPayload(item), messageID |-> 1]
    BY <2>1, ItemFits, RoundTrip
  <2> QED
    BY <2>2 DEF IsSync
<1> QED
  BY <1>1, <1>2

\* Different syncs make different messages.
LEMMA WiresDiffer ==
    ASSUME NEW a \in Script, NEW b \in Script, a.type = MSG_TIME_SYNC, b.type = MSG_TIME_SYNC,
           Wire[a] = Wire[b]
    PROVE  a = b
<1>1. \A x \in Script : Wire[x].rest = CompanionPayload(x)
  BY DEF Wire, EncodeMessage
<1>2. CompanionPayload(a) = CompanionPayload(b)
  BY <1>1, Zenon
<1>3. Parsed(a.fields) = Parsed(b.fields)
  BY <1>2, SyncSent, Zenon
<1>4. a.fields = b.fields
  BY <1>3 DEF Parsed
<1> QED
  BY <1>4, SyncSent, Zenon


\* The last time sync that arrived waits in an inbox, at a place or after it.
LastSent == lastSync \in sent /\ lastSync.type = MSG_TIME_SYNC

LastAfter(l, i) ==
    LastSent /\ \E j \in 1 .. Len(inbox[l]) : j >= i /\ inbox[l][j] = Wire[lastSync]

Ahead == \E l \in Listeners : LastAfter(l, 1)

LastKnown == lastSync # None => LastSent

SyncsQueued ==
    \A l \in Listeners : \A i \in 1 .. Len(inbox[l]) :
      IsSync(inbox[l][i]) => LastAfter(l, i)

SyncsDone ==
    \A l \in Listeners :
      pc[l] \in {"remove", "link"} => SyncItem(doing[l]) = lastSync \/ LastAfter(l, 1)

ClockSet ==
    LastSent /\ Positive(lastSync.fields[1]) => clock = lastSync.fields[1] \/ Ahead

ZoneSet ==
    LastSent /\ lastSync.fields[2] \notin {<<>>, Local} =>
      \/ localtime = lastSync.fields[2] \/ Ahead
      \/ \E l \in Listeners :
           /\ SyncItem(doing[l]) = lastSync
           /\ pc[l] = "remove" \/ (pc[l] = "link" /\ localtime = None)

\* Each listener still has the last sync before it, or has done with it and with
\* those before it.
Settling == LastKnown /\ SyncsQueued /\ SyncsDone /\ ClockSet /\ ZoneSet

\* What an inbox holds.
LEMMA InboxTypes ==
    ASSUME Base, NEW l \in Listeners
    PROVE  /\ inbox[l] \in Seq(From(sent)) /\ Len(inbox[l]) \in Nat
           /\ \A i \in 1 .. Len(inbox[l]) : inbox[l][i] \in From(sent)
           /\ sent \subseteq Script
<1>1. inbox[l] \in Seq(From(sent)) /\ sent \subseteq Script
  BY DEF Base
<1> QED
  BY <1>1, LenProperties, ElementOfSeq

\* A message that a listener puts away: its place in the inbox.
LEMMA InboxTail ==
    ASSUME Base, NEW l \in Listeners, inbox[l] # <<>>, inbox' = [inbox EXCEPT ![l] = Tail(@)]
    PROVE  /\ Len(inbox[l]) \in Nat /\ Len(inbox[l]) >= 1
           /\ Head(inbox[l]) = inbox[l][1]
           /\ Len(inbox'[l]) = Len(inbox[l]) - 1
           /\ \A i \in 1 .. Len(inbox'[l]) : inbox'[l][i] = inbox[l][i + 1]
           /\ \A k \in Listeners \ {l} : inbox'[k] = inbox[k]
<1>1. inbox[l] \in Seq(From(sent)) /\ Len(inbox[l]) \in Nat
  BY InboxTypes
<1>2. /\ inbox'[l] = Tail(inbox[l]) /\ \A k \in Listeners \ {l} : inbox'[k] = inbox[k]
  BY DEF Base
<1>3. /\ Len(Tail(inbox[l])) = Len(inbox[l]) - 1
      /\ \A i \in 1 .. Len(Tail(inbox[l])) : Tail(inbox[l])[i] = inbox[l][i + 1]
  BY <1>1, HeadTailProperties
<1>4. Len(inbox[l]) >= 1
  BY <1>1, EmptySeq
<1>5. Head(inbox[l]) = inbox[l][1]
  OBVIOUS
<1> QED
  BY <1>1, <1>2, <1>3, <1>4, <1>5, Zenon

\* The last time sync was sent and is one.
LEMMA LastIsSync ==
    ASSUME "type" \notin Damages, Base, LastSent
    PROVE  lastSync \in Script /\ IsSync(Wire[lastSync])
<1>1. lastSync \in Script
  BY DEF Base, LastSent
<1> QED
  BY <1>1, SyncIsWhole DEF LastSent, Copies

\* The last sync stays in the inbox when another message is taken from it.
LEMMA LastStays ==
    ASSUME "type" \notin Damages, Base, NEW l \in Listeners, inbox[l] # <<>>,
           inbox' = [inbox EXCEPT ![l] = Tail(@)], UNCHANGED <<sent, lastSync>>
    PROVE  /\ \A k \in Listeners \ {l} : \A i \in Nat : LastAfter(k, i) => LastAfter(k, i)'
           /\ \A i \in Nat : i >= 1 /\ LastAfter(l, i + 1) => LastAfter(l, i)'
           /\ LastAfter(l, 1) /\ inbox[l][1] # Wire[lastSync] => LastAfter(l, 1)'
<1>1. LastSent' = LastSent
  BY DEF LastSent
<1>2. \A x : Wire[x]' = Wire[x]
  BY DEF Wire
<1>3. \A k \in Listeners \ {l} : \A i \in Nat : LastAfter(k, i) => LastAfter(k, i)'
  BY <1>1, InboxTail DEF LastAfter
<1>4. ASSUME NEW i \in Nat, NEW j \in 1 .. Len(inbox[l]), i >= 1, j >= i + 1,
             inbox[l][j] = Wire[lastSync], LastSent
      PROVE  LastAfter(l, i)'
  <2>1. j - 1 \in 1 .. Len(inbox'[l]) /\ j - 1 >= i /\ (j - 1) + 1 = j
    BY <1>4, InboxTail
  <2>2. inbox'[l][j - 1] = inbox[l][j]
    BY <2>1, InboxTail
  <2> QED
    BY <1>1, <1>4, <2>1, <2>2 DEF LastAfter
<1>5. \A i \in Nat : i >= 1 /\ LastAfter(l, i + 1) => LastAfter(l, i)'
  BY <1>4 DEF LastAfter
<1>6. LastAfter(l, 1) /\ inbox[l][1] # Wire[lastSync] => LastAfter(l, 1)'
  <2> SUFFICES ASSUME LastAfter(l, 1), inbox[l][1] # Wire[lastSync] PROVE LastAfter(l, 1)'
    OBVIOUS
  <2>1. PICK j \in 1 .. Len(inbox[l]) : inbox[l][j] = Wire[lastSync]
    BY DEF LastAfter
  <2>2. j >= 1 + 1 /\ LastSent
    BY <2>1 DEF LastAfter
  <2> QED
    BY <1>4, <2>1, <2>2
<1> QED
  BY <1>3, <1>5, <1>6


\* A listener takes a message that is no time sync.
LEMMA SettlingPast ==
    ASSUME "type" \notin Damages, Base, Settling, NEW l \in Listeners, inbox[l] # <<>>,
           inbox' = [inbox EXCEPT ![l] = Tail(@)], UNCHANGED <<sent, lastSync, clock, localtime>>,
           ~IsSync(Head(inbox[l])), pc[l] = "idle",
           \/ UNCHANGED <<pc, doing>>
           \/ \E m : Goes(l, "send", m)
    PROVE  Settling'
<1>a. /\ Len(inbox[l]) \in Nat /\ Len(inbox[l]) >= 1 /\ Head(inbox[l]) = inbox[l][1]
      /\ Len(inbox'[l]) = Len(inbox[l]) - 1
      /\ \A i \in 1 .. Len(inbox'[l]) : inbox'[l][i] = inbox[l][i + 1]
      /\ \A k \in Listeners \ {l} : inbox'[k] = inbox[k]
  BY InboxTail
<1>b. /\ \A k \in Listeners \ {l} : \A i \in Nat : LastAfter(k, i) => LastAfter(k, i)'
      /\ \A i \in Nat : i >= 1 /\ LastAfter(l, i + 1) => LastAfter(l, i)'
      /\ LastAfter(l, 1) /\ inbox[l][1] # Wire[lastSync] => LastAfter(l, 1)'
  BY LastStays
<1>1. LastAfter(l, 1) => LastAfter(l, 1)'
  <2>1. LastSent => Head(inbox[l]) # Wire[lastSync]
    BY LastIsSync
  <2> QED
    BY <1>a, <1>b, <2>1 DEF LastAfter
<1>2. \A k \in Listeners : LastAfter(k, 1) => LastAfter(k, 1)'
  BY <1>1, <1>b
<1>3. Ahead => Ahead'
  BY <1>2 DEF Ahead
<1>4. LastSent' = LastSent
  BY DEF LastSent
<1>5. \A k \in Listeners : /\ pc'[k] \in {"remove", "link"} => pc'[k] = pc[k]
                           /\ pc[k] \in {"remove", "link"} => pc'[k] = pc[k] /\ doing'[k] = doing[k]
  BY DEF Base, Goes
<1>6. SyncsQueued'
  <2> SUFFICES ASSUME NEW k \in Listeners, NEW i \in 1 .. Len(inbox'[k]), IsSync(inbox'[k][i])
               PROVE  LastAfter(k, i)'
    BY DEF SyncsQueued, IsSync, DecodeMessage
  <2>1. CASE k = l
    <3>1. i + 1 \in 1 .. Len(inbox[l]) /\ inbox'[l][i] = inbox[l][i + 1]
      BY <2>1, <1>a
    <3>2. LastAfter(l, i + 1)
      BY <2>1, <3>1 DEF Settling, SyncsQueued
    <3>3. i \in Nat /\ i >= 1
      OBVIOUS
    <3> QED
      BY <2>1, <3>2, <3>3, <1>b
  <2>2. CASE k # l
    <3>1. inbox'[k] = inbox[k]
      BY <2>2, <1>a
    <3>2. LastAfter(k, i)
      BY <3>1 DEF Settling, SyncsQueued
    <3>3. i \in Nat
      OBVIOUS
    <3> QED
      BY <2>2, <3>2, <3>3, <1>b
  <2> QED
    BY <2>1, <2>2
<1>7. LastKnown' /\ ClockSet'
  BY <1>3, <1>4 DEF Settling, LastKnown, ClockSet, Positive
<1>8. SyncsDone'
  BY <1>2, <1>5 DEF Settling, SyncsDone, SyncItem
<1>9. ZoneSet'
  BY <1>3, <1>4, <1>5 DEF Settling, ZoneSet, SyncItem
<1> QED
  BY <1>6, <1>7, <1>8, <1>9 DEF Settling


\* A listener takes a time sync, and sets the clock.
LEMMA SettlingSync ==
    ASSUME "type" \notin Damages, Base, Settling, NEW l \in Listeners, inbox[l] # <<>>,
           inbox' = [inbox EXCEPT ![l] = Tail(@)], UNCHANGED <<sent, lastSync, localtime>>,
           NEW item \in sent, item.type = MSG_TIME_SYNC, Head(inbox[l]) = Wire[item],
           Positive(item.fields[1]) => clock' = item.fields[1],
           ~Positive(item.fields[1]) => clock' = clock, pc[l] = "idle",
           item.fields[2] \in {<<>>, Local} => UNCHANGED <<pc, doing>>,
           item.fields[2] \notin {<<>>, Local} =>
             \E m : Goes(l, "remove", m) /\ SyncItem(m) = item
    PROVE  Settling'
<1>a. /\ Len(inbox[l]) \in Nat /\ Len(inbox[l]) >= 1 /\ Head(inbox[l]) = inbox[l][1]
      /\ Len(inbox'[l]) = Len(inbox[l]) - 1
      /\ \A i \in 1 .. Len(inbox'[l]) : inbox'[l][i] = inbox[l][i + 1]
      /\ \A k \in Listeners \ {l} : inbox'[k] = inbox[k]
  BY InboxTail
<1>b. /\ \A k \in Listeners \ {l} : \A i \in Nat : LastAfter(k, i) => LastAfter(k, i)'
      /\ \A i \in Nat : i >= 1 /\ LastAfter(l, i + 1) => LastAfter(l, i)'
      /\ LastAfter(l, 1) /\ inbox[l][1] # Wire[lastSync] => LastAfter(l, 1)'
  BY LastStays
<1>1. item \in Script
  BY DEF Base
<1>2. LastAfter(l, 1) /\ LastSent
  <2>1. IsSync(Wire[item])
    BY <1>1, SyncIsWhole DEF Copies
  <2> QED
    BY <1>a, <2>1 DEF Settling, SyncsQueued, LastAfter
<1>3. item # lastSync => LastAfter(l, 1)'
  BY <1>1, <1>2, <1>a, <1>b, WiresDiffer, LastIsSync DEF LastSent
<1>4. LastSent'
  BY <1>2 DEF LastSent
<1>5. SyncsQueued'
  <2> SUFFICES ASSUME NEW k \in Listeners, NEW i \in 1 .. Len(inbox'[k]), IsSync(inbox'[k][i])
               PROVE  LastAfter(k, i)'
    BY DEF SyncsQueued, IsSync, DecodeMessage
  <2>1. CASE k = l
    <3>1. i + 1 \in 1 .. Len(inbox[l]) /\ inbox'[l][i] = inbox[l][i + 1]
      BY <2>1, <1>a
    <3>2. LastAfter(l, i + 1)
      BY <2>1, <3>1 DEF Settling, SyncsQueued
    <3>3. i \in Nat /\ i >= 1
      OBVIOUS
    <3> QED
      BY <2>1, <3>2, <3>3, <1>b
  <2>2. CASE k # l
    <3>1. inbox'[k] = inbox[k]
      BY <2>2, <1>a
    <3>2. LastAfter(k, i)
      BY <3>1 DEF Settling, SyncsQueued
    <3>3. i \in Nat
      OBVIOUS
    <3> QED
      BY <2>2, <3>2, <3>3, <1>b
  <2> QED
    BY <2>1, <2>2
<1>6. /\ \A k \in Listeners \ {l} : pc'[k] = pc[k] /\ doing'[k] = doing[k]
      /\ pc'[l] \in {"remove", "link"} => SyncItem(doing'[l]) = item
      /\ item.fields[2] \notin {<<>>, Local} => pc'[l] = "remove" /\ SyncItem(doing'[l]) = item
  BY DEF Base, Goes
<1>7. SyncsDone'
  <2> SUFFICES ASSUME NEW k \in Listeners, pc'[k] \in {"remove", "link"}
               PROVE  SyncItem(doing'[k]) = lastSync \/ LastAfter(k, 1)'
    BY DEF SyncsDone, SyncItem
  <2>1. CASE k = l
    BY <1>3, <1>6, <2>1
  <2>2. CASE k # l
    BY <1>b, <1>6, <2>2 DEF Settling, SyncsDone
  <2> QED
    BY <2>1, <2>2
<1>8. item # lastSync => Ahead'
  BY <1>3 DEF Ahead
<1>9. ClockSet'
  <2>1. CASE item = lastSync
    BY <2>1 DEF ClockSet, Positive
  <2>2. CASE item # lastSync
    BY <1>8, <2>2 DEF ClockSet
  <2> QED
    BY <2>1, <2>2
<1>10. ZoneSet'
  <2>1. CASE item = lastSync
    <3>1. lastSync.fields[2] \notin {<<>>, Local} =>
            pc'[l] = "remove" /\ SyncItem(doing'[l]) = lastSync
      BY <1>6, <2>1
    <3> QED
      BY <3>1 DEF ZoneSet, SyncItem
  <2>2. CASE item # lastSync
    BY <1>8, <2>2 DEF ZoneSet
  <2> QED
    BY <2>1, <2>2
<1>11. LastKnown'
  BY <1>4 DEF LastKnown
<1> QED
  BY <1>5, <1>7, <1>9, <1>10, <1>11 DEF Settling

\* A listener that has taken it removes the link, and makes it again.
LEMMA SettlingLink ==
    ASSUME Base, Settling, NEW l \in Listeners, UNCHANGED <<sent, inbox, lastSync, clock>>,
           \/ /\ pc[l] = "remove" /\ localtime' = None /\ Goes(l, "link", doing[l])
           \/ /\ pc[l] = "link" /\ Goes(l, "idle", NoMessage)
              /\ localtime' = IF localtime = None THEN SyncItem(doing[l]).fields[2]
                              ELSE localtime
    PROVE  Settling'
<1>1. LastSent' = LastSent /\ \A k, i : LastAfter(k, i)' = LastAfter(k, i)
  BY DEF LastSent, LastAfter, Wire
<1>2. Ahead' = Ahead
  BY <1>1 DEF Ahead
<1>3. LastKnown' /\ SyncsQueued' /\ ClockSet'
  BY <1>1, <1>2 DEF Settling, LastKnown, SyncsQueued, ClockSet, IsSync, DecodeMessage, Positive
<1>4. \A k \in Listeners \ {l} : pc'[k] = pc[k] /\ doing'[k] = doing[k]
  BY DEF Base, Goes
<1>5. SyncItem(doing[l]) = lastSync \/ (LastSent => Ahead)
  BY DEF Settling, SyncsDone, Ahead
<1>6. CASE pc[l] = "remove" /\ localtime' = None /\ Goes(l, "link", doing[l])
  <2>1. pc'[l] = "link" /\ doing'[l] = doing[l]
    BY <1>6 DEF Base, Goes
  <2>2. SyncsDone'
    BY <1>1, <1>4, <1>6, <2>1 DEF Settling, SyncsDone, SyncItem
  <2>3. ZoneSet'
    <3>1. CASE SyncItem(doing[l]) = lastSync
      BY <1>6, <2>1, <3>1 DEF ZoneSet, SyncItem
    <3>2. CASE LastSent => Ahead
      BY <1>1, <1>2, <3>2 DEF ZoneSet
    <3> QED
      BY <1>5, <3>1, <3>2
  <2> QED
    BY <1>3, <2>2, <2>3 DEF Settling
<1>7. CASE /\ pc[l] = "link" /\ Goes(l, "idle", NoMessage)
           /\ localtime' = IF localtime = None THEN SyncItem(doing[l]).fields[2] ELSE localtime
  <2>1. pc'[l] = "idle"
    BY <1>7 DEF Base, Goes
  <2>2. SyncsDone'
    BY <1>1, <1>4, <2>1 DEF Settling, SyncsDone, SyncItem
  <2>3. ZoneSet'
    <3>1. CASE SyncItem(doing[l]) = lastSync /\ localtime = None
      <4>1. localtime' = lastSync.fields[2]
        BY <1>7, <3>1
      <4> QED
        BY <4>1 DEF ZoneSet
    <3>2. CASE localtime # None
      <4>1. UNCHANGED localtime
        BY <1>7, <3>2
      <4> QED
        BY <1>1, <1>2, <1>4, <1>7, <3>2, <4>1 DEF Settling, ZoneSet, SyncItem
    <3>3. CASE LastSent => Ahead
      BY <1>1, <1>2, <3>3 DEF ZoneSet
    <3> QED
      BY <1>5, <3>1, <3>2, <3>3
  <2> QED
    BY <1>3, <2>2, <2>3 DEF Settling
<1> QED
  BY <1>6, <1>7


\* The companion sends a message, and it arrives or is lost.
LEMMA SettlingSends ==
    ASSUME "type" \notin Damages, Base, Settling, CompanionSends
    PROVE  Settling'
<1>1. PICK item \in Script \ sent :
         /\ sent' = sent \cup {item}
         /\ \/ /\ Arrives(Wire[item])
               /\ lastSync' = IF item.type = MSG_TIME_SYNC THEN item ELSE lastSync
            \/ /\ \E m \in Damaged(Wire[item]) \ {Wire[item]} : Arrives(m)
               /\ UNCHANGED lastSync
            \/ UNCHANGED <<inbox, lastSync>>
  BY Zenon DEF CompanionSends
<1>2. UNCHANGED <<pc, doing, clock, localtime>>
  BY DEF CompanionSends, device
<1>3. item \in Script /\ sent \subseteq sent' /\ item \in sent'
  BY <1>1
<1>4. ASSUME NEW k \in Listeners
      PROVE  Len(inbox[k]) \in Nat
  BY InboxTypes
<1>5. ASSUME NEW m, Arrives(m), NEW k \in Listeners
      PROVE  /\ Len(inbox'[k]) = Len(inbox[k]) + 1 /\ inbox'[k][Len(inbox[k]) + 1] = m
             /\ \A i \in 1 .. Len(inbox[k]) : inbox'[k][i] = inbox[k][i]
  <2>1. inbox[k] \in Seq(From(sent) \cup {m})
    BY InboxTypes, SeqMonotonic
  <2>2. inbox'[k] = Append(inbox[k], m)
    BY <1>5 DEF Arrives
  <2>3. /\ Len(Append(inbox[k], m)) = Len(inbox[k]) + 1
        /\ Append(inbox[k], m)[Len(inbox[k]) + 1] = m
        /\ \A i \in 1 .. Len(inbox[k]) : Append(inbox[k], m)[i] = inbox[k][i]
    BY <2>1, AppendProperties
  <2> QED
    BY <2>2, <2>3, Zenon
<1>6. lastSync # None => LastSent
  BY DEF Settling, LastKnown
<1>7. sent' \subseteq Script /\ None \notin Script
  BY <1>1, DispatchAssumption DEF Base
<1>8. ASSUME UNCHANGED lastSync,
             \A k \in Listeners : \A i \in Nat : LastAfter(k, i) => LastAfter(k, i)'
      PROVE  LastKnown' /\ SyncsDone' /\ ClockSet' /\ ZoneSet'
  <2>1. LastSent' = LastSent
    BY <1>3, <1>6, <1>7, <1>8 DEF LastSent
  <2>2. Ahead => Ahead'
    BY <1>8 DEF Ahead
  <2>3. LastKnown' /\ ClockSet'
    BY <1>2, <1>8, <2>1, <2>2 DEF Settling, LastKnown, ClockSet, Positive
  <2>4. SyncsDone'
    BY <1>2, <1>8 DEF Settling, SyncsDone, SyncItem
  <2>5. ZoneSet'
    BY <1>2, <1>8, <2>1, <2>2 DEF Settling, ZoneSet, SyncItem
  <2> QED
    BY <2>3, <2>4, <2>5
<1>9. CASE UNCHANGED <<inbox, lastSync>>
  <2>1. \A k \in Listeners : \A i \in Nat : LastAfter(k, i) => LastAfter(k, i)'
    BY <1>3, <1>9 DEF LastAfter, LastSent, Wire
  <2>2. SyncsQueued'
    BY <1>9, <2>1 DEF Settling, SyncsQueued, IsSync, DecodeMessage
  <2> QED
    BY <1>8, <1>9, <2>1, <2>2 DEF Settling
<1>10. ASSUME NEW m, Arrives(m), ~IsSync(m), UNCHANGED lastSync
       PROVE  Settling'
  <2>1. \A k \in Listeners : \A i \in Nat : LastAfter(k, i) => LastAfter(k, i)'
    <3> SUFFICES ASSUME NEW k \in Listeners, NEW i \in Nat, LastAfter(k, i)
                 PROVE  LastAfter(k, i)'
      OBVIOUS
    <3>1. PICK j \in 1 .. Len(inbox[k]) : j >= i /\ inbox[k][j] = Wire[lastSync]
      BY DEF LastAfter
    <3>2. j \in 1 .. Len(inbox'[k]) /\ inbox'[k][j] = inbox[k][j]
      BY <1>4, <1>5, <1>10, <3>1
    <3>3. LastSent'
      BY <1>3, <1>10 DEF LastAfter, LastSent
    <3> QED
      BY <1>10, <3>1, <3>2, <3>3 DEF LastAfter, Wire
  <2>2. SyncsQueued'
    <3> SUFFICES ASSUME NEW k \in Listeners, NEW i \in 1 .. Len(inbox'[k]), IsSync(inbox'[k][i])
                 PROVE  LastAfter(k, i)'
      BY DEF SyncsQueued, IsSync, DecodeMessage
    <3>1. i \in Nat /\ (i = Len(inbox[k]) + 1 \/ i \in 1 .. Len(inbox[k]))
      BY <1>4, <1>5, <1>10
    <3>2. i \in 1 .. Len(inbox[k]) /\ inbox'[k][i] = inbox[k][i]
      BY <1>5, <1>10, <3>1
    <3>3. LastAfter(k, i)
      BY <3>2 DEF Settling, SyncsQueued
    <3> QED
      BY <2>1, <3>1, <3>3
  <2> QED
    BY <1>8, <1>10, <2>1, <2>2 DEF Settling
<1>11. CASE Arrives(Wire[item]) /\ item.type = MSG_TIME_SYNC /\ lastSync' = item
  <2>1. LastSent'
    BY <1>3, <1>11 DEF LastSent
  <2>2. ASSUME NEW k \in Listeners, NEW i \in Nat, i <= Len(inbox[k]) + 1
        PROVE  LastAfter(k, i)'
    <3>1. /\ Len(inbox[k]) + 1 \in 1 .. Len(inbox'[k])
          /\ inbox'[k][Len(inbox[k]) + 1] = Wire[lastSync']
      BY <1>4, <1>5, <1>11
    <3> QED
      BY <2>1, <2>2, <3>1 DEF LastAfter, Wire
  <2>3. SyncsQueued'
    <3> SUFFICES ASSUME NEW k \in Listeners, NEW i \in 1 .. Len(inbox'[k])
                 PROVE  LastAfter(k, i)'
      BY DEF SyncsQueued
    <3>1. i \in Nat /\ i <= Len(inbox[k]) + 1
      BY <1>4, <1>5, <1>11
    <3> QED
      BY <2>2, <3>1
  <2>4. \A k \in Listeners : LastAfter(k, 1)'
    BY <1>4, <2>2
  <2>5. Ahead'
    BY <2>4, DispatchAssumption DEF Ahead
  <2> QED
    BY <2>1, <2>3, <2>4, <2>5 DEF Settling, LastKnown, SyncsDone, ClockSet, ZoneSet
<1>12. item.type # MSG_TIME_SYNC => ~IsSync(Wire[item])
  BY <1>3, SyncIsWhole DEF Copies
<1>13. ASSUME NEW m \in Damaged(Wire[item]) \ {Wire[item]}
       PROVE  ~IsSync(m)
  BY <1>3, SyncIsWhole DEF Copies
<1> QED
  BY <1>1, <1>9, <1>10, <1>11, <1>12, <1>13


\* The types of the requests are not that of a time sync.
LEMMA TypesUnlike ==
    /\ MSG_CMD_REQUEST_STATE # MSG_TIME_SYNC /\ MSG_GET_CAPABILITIES # MSG_TIME_SYNC
    /\ MSG_CMD_REQUEST_TIMESTAMP # MSG_TIME_SYNC /\ MSG_TIME_SYNC \in Understood
BY DEF MSG_CMD_REQUEST_STATE, MSG_TIME_SYNC, MSG_GET_CAPABILITIES, MSG_CMD_REQUEST_TIMESTAMP,
       Understood

\* Handling a notification keeps Settling.
LEMMA SettlingHandles ==
    ASSUME "type" \notin Damages, Base, Settling, NEW l \in Listeners,
           pc[l] = "idle", inbox[l] # <<>>, inbox' = [inbox EXCEPT ![l] = Tail(@)],
           NEW heard, heard = DecodeMessage(Head(inbox[l])), Handles(l, heard), ~mishap'
    PROVE  Settling'
<1>1. CASE IsSync(Head(inbox[l]))
  <2>1. heard.outcome = "ok" /\ heard.messageType = MSG_TIME_SYNC
    BY <1>1, Zenon DEF IsSync
  <2>2. PICK item \in sent : /\ item \in Script /\ Head(inbox[l]) \in Copies(item)
                             /\ heard.messageType = item.type
                             /\ heard.payload = CompanionPayload(item)
    BY <2>1, HeardAsSent, Zenon
  <2>3. item.type = MSG_TIME_SYNC /\ Head(inbox[l]) = Wire[item]
    BY <1>1, <2>2, SyncIsWhole, Zenon
  <2> DEFINE sync    == ParseTimeSyncPayload(heard.payload)
             message == [type |-> MSG_TIME_SYNC, payload |-> heard.payload, id |-> 0]
  <2>4. /\ sync = Parsed(item.fields) /\ Item(MSG_TIME_SYNC, item.fields) = item
    BY <2>2, <2>3, SyncSent, Zenon
  <2>5. sync.fields = item.fields /\ sync.outcome = "ok"
    <3>1. \A f : Parsed(f).fields = f /\ Parsed(f).outcome = "ok"
      BY DEF Parsed
    <3> QED
      BY <2>4, <3>1, Zenon
  <2>6. SyncItem(message) = item
    <3>1. message.payload = heard.payload
      OBVIOUS
    <3> QED
      BY <2>4, <2>5, <3>1, Zenon DEF SyncItem
  <2>7. HandleTimeSync(l, heard)
    <3>1. Outcome(heard) = sync.outcome
      <4>1. Hears(heard, {MSG_TIME_SYNC}) /\ ~Hears(heard, {MSG_ALBUM_ART_AVAILABLE_QUERY})
        BY <2>1, TypesDiffer, Zenon DEF Hears
      <4>2. PICK o : o = sync.outcome
        OBVIOUS
      <4> QED
        BY <4>1, <4>2, Zenon DEF Outcome
    <3>2. ~HandleNothing(heard)
      <4>1. Outcome(heard) # "error" /\ heard.messageType \in Understood
        BY <2>1, <2>5, <3>1, TypesUnlike
      <4> QED
        BY <4>1, Zenon DEF HandleNothing
    <3>3. /\ ~HandleCommand(heard) /\ ~HandleStateRequest(heard) /\ ~HandleFullState(heard)
          /\ ~HandleAlbumArtRequest(heard) /\ ~HandleCapabilitiesRequest(l, heard)
          /\ ~HandleTimeSyncRequest(l, heard) /\ ~HandleAlbumArtAvailabilityQuery(l, heard)
      BY <2>1, TypesDiffer, TypesUnlike, Zenon
      DEF HandleCommand, HandleStateRequest, HandleFullState, HandleAlbumArtRequest,
          HandleCapabilitiesRequest, HandleTimeSyncRequest, HandleAlbumArtAvailabilityQuery, Hears
    <3> QED
      BY <3>2, <3>3, Zenon DEF Handles
  <2>8. UNCHANGED <<sent, localtime, lastSync>>
    BY <2>7, Zenon DEF HandleTimeSync
  <2>9. /\ \/ Positive(sync.fields[1]) /\ clock' = sync.fields[1]
           \/ Positive(sync.fields[1]) /\ mishap' = TRUE
           \/ ~Positive(sync.fields[1]) /\ UNCHANGED clock
        /\ sync.fields[2] \notin {<<>>, Local} => Goes(l, "remove", message)
        /\ sync.fields[2] \in {<<>>, Local} => UNCHANGED <<pc, doing>>
    BY <2>7, Zenon DEF HandleTimeSync
  <2>10. /\ Positive(item.fields[1]) => clock' = item.fields[1]
         /\ ~Positive(item.fields[1]) => clock' = clock
         /\ item.fields[2] \in {<<>>, Local} => UNCHANGED <<pc, doing>>
         /\ item.fields[2] \notin {<<>>, Local} =>
              \E m : Goes(l, "remove", m) /\ SyncItem(m) = item
    <3> HIDE DEF sync, message
    <3>1. /\ item.fields[2] \notin {<<>>, Local} => Goes(l, "remove", message)
          /\ item.fields[2] \in {<<>>, Local} => UNCHANGED <<pc, doing>>
      BY <2>5, <2>9
    <3>2. /\ Positive(item.fields[1]) => clock' = item.fields[1]
          /\ ~Positive(item.fields[1]) => clock' = clock
      BY <2>5, <2>9
    <3> QED
      BY <2>6, <3>1, <3>2
  <2> QED
    BY <2>2, <2>3, <2>8, <2>10, SettlingSync
<1>2. CASE ~IsSync(Head(inbox[l]))
  <2>1. ~HandleTimeSync(l, heard)
    BY <1>2, Zenon DEF HandleTimeSync, Hears, IsSync
  <2>2. ASSUME NEW type, NEW payload, Answers(l, type, payload)
        PROVE  /\ UNCHANGED <<sent, device, past>>
               /\ UNCHANGED <<pc, doing>> \/ \E m : Goes(l, "send", m)
    BY <2>2 DEF Answers, link
  <2>3. /\ UNCHANGED <<sent, device, past>>
        /\ UNCHANGED <<pc, doing>> \/ \E m : Goes(l, "send", m)
    <3>1. CASE \/ HandleNothing(heard) \/ HandleCommand(heard) \/ HandleStateRequest(heard)
               \/ HandleAlbumArtRequest(heard) \/ HandleFullState(heard)
      <4>1. UNCHANGED <<link, pc, doing, device, past>>
        BY <3>1, Zenon DEF HandleNothing, HandleCommand, HandleStateRequest,
                           HandleAlbumArtRequest, HandleFullState
      <4> QED
        BY <4>1 DEF link
    <3>2. CASE \/ HandleCapabilitiesRequest(l, heard) \/ HandleTimeSyncRequest(l, heard)
               \/ HandleAlbumArtAvailabilityQuery(l, heard)
      BY <2>2, <3>2, Zenon DEF HandleCapabilitiesRequest, HandleTimeSyncRequest,
                               HandleAlbumArtAvailabilityQuery
    <3> QED
      BY <2>1, <3>1, <3>2, Zenon DEF Handles
  <2>4. UNCHANGED <<sent, lastSync, clock, localtime>>
    BY <2>3 DEF device, past
  <2> QED
    BY <1>2, <2>3, <2>4, SettlingPast
<1> QED
  BY <1>1, <1>2

\* Every step keeps Settling while nothing has gone wrong.
LEMMA SettlingStep ==
    ASSUME "type" \notin Damages
    PROVE  Base /\ (~mishap => Settling) /\ [Next]_vars => (~mishap' => Settling')
<1> SUFFICES ASSUME Base, ~mishap => Settling, [Next]_vars, ~mishap'
             PROVE  Settling'
  OBVIOUS
<1>1. ASSUME mishap' = mishap
      PROVE  Settling
  BY <1>1
<1>2. ASSUME UNCHANGED <<sent, inbox, device, past>>,
             \A l \in Listeners : /\ pc'[l] \in {"remove", "link"} => pc'[l] = pc[l]
                                  /\ pc[l] \in {"remove", "link"} =>
                                       pc'[l] = pc[l] /\ doing'[l] = doing[l]
      PROVE  Settling'
  <2>1. Settling /\ UNCHANGED <<sent, inbox, clock, localtime, lastSync>>
    BY <1>1, <1>2 DEF device, past
  <2>2. LastSent' = LastSent /\ \A k, i : LastAfter(k, i)' = LastAfter(k, i)
    BY <2>1 DEF LastSent, LastAfter, Wire
  <2>3. Ahead' = Ahead
    BY <2>2 DEF Ahead
  <2>4. LastKnown' /\ SyncsQueued' /\ ClockSet'
    BY <2>1, <2>2, <2>3
    DEF Settling, LastKnown, SyncsQueued, ClockSet, IsSync, DecodeMessage, Positive
  <2>5. SyncsDone'
    BY <1>2, <2>1, <2>2 DEF Settling, SyncsDone, SyncItem
  <2>6. ZoneSet'
    BY <1>2, <2>1, <2>2, <2>3 DEF Settling, ZoneSet, SyncItem
  <2> QED
    BY <2>4, <2>5, <2>6 DEF Settling
<1>3. ~Restart
  BY DEF Restart
<1>4. CASE CompanionSends
  <2>1. mishap' = mishap
    BY <1>4, Zenon DEF CompanionSends
  <2> QED
    BY <1>1, <1>4, <2>1, SettlingSends
<1>5. ASSUME NEW l \in Listeners, HandleNotification(l)
      PROVE  Settling'
  <2>1. PICK heard : /\ heard = DecodeMessage(Head(inbox[l]))
                     /\ Handles(l, heard) /\ inbox' = [inbox EXCEPT ![l] = Tail(@)]
    BY <1>3, <1>5, Zenon DEF HandleNotification, Panics
  <2>2. pc[l] = "idle" /\ inbox[l] # <<>>
    BY <1>5, Zenon DEF HandleNotification
  <2>3. Takes(l)
    BY <1>3, <1>5, TakesOrPanics
  <2>4. ~mishap
    BY <2>3, Zenon DEF Takes
  <2> QED
    BY <2>1, <2>2, <2>4, SettlingHandles
<1>6. ASSUME NEW l \in Listeners, RemoveLocaltime(l) \/ LinkLocaltime(l)
      PROVE  Settling'
  <2>1. UNCHANGED <<sent, inbox, lastSync, clock, mishap>>
    BY <1>6 DEF RemoveLocaltime, LinkLocaltime, link, past
  <2>2. \/ /\ pc[l] = "remove" /\ localtime' = None /\ Goes(l, "link", doing[l])
        \/ /\ pc[l] = "link" /\ Goes(l, "idle", NoMessage)
           /\ localtime' = IF localtime = None THEN SyncItem(doing[l]).fields[2]
                           ELSE localtime
    BY <1>6, Zenon DEF RemoveLocaltime, LinkLocaltime
  <2> QED
    BY <1>1, <2>1, <2>2, SettlingLink
<1>7. ASSUME NEW l \in Listeners, GetNextMessageID(l) \/ Write(l)
      PROVE  Settling'
  <2>1. UNCHANGED <<sent, inbox, device, past>> /\ pc[l] \in {"send", "write"}
    BY <1>7 DEF GetNextMessageID, Write, link
  <2>2. \E step \in {"write", "idle"} : \E m : Goes(l, step, m)
    BY <1>7 DEF GetNextMessageID, Write
  <2>3. /\ pc'[l] \in {"write", "idle"}
        /\ \A k \in Listeners \ {l} : pc'[k] = pc[k] /\ doing'[k] = doing[k]
    BY <2>2 DEF Base, Goes
  <2> QED
    BY <1>2, <2>1, <2>3
<1>8. ASSUME NEW l \in Listeners, WriteFails(l)
      PROVE  FALSE
  BY <1>8 DEF WriteFails
<1>9. CASE SaveBegins \/ SaveEnds \/ SaveFails
  <2>1. UNCHANGED <<sent, inbox, pc, doing, device, past>>
    BY <1>9 DEF SaveBegins, SaveEnds, SaveFails, link
  <2> QED
    BY <1>2, <2>1
<1>10. CASE Crash
  BY <1>3, <1>10 DEF Crash
<1>11. CASE UNCHANGED vars
  <2>1. UNCHANGED <<sent, inbox, pc, doing, device, past>>
    BY <1>11 DEF vars, link
  <2> QED
    BY <1>2, <2>1
<1>12. CASE SendCommand \/ CommandEnds
  <2>1. UNCHANGED <<sent, inbox, pc, doing, device, past>>
    BY <1>12 DEF SendCommand, CommandEnds, link
  <2> QED
    BY <1>2, <2>1
<1> QED
  BY <1>4, <1>5, <1>6, <1>7, <1>8, <1>9, <1>10, <1>11, <1>12 DEF Next, ListenerStep

\* SyncSettles: listeners that handle their copies of the time syncs at different
\* times (ble_client_v2.go:902-994) leave what the last one said.
THEOREM LastSyncPrevails ==
    ASSUME "type" \notin Damages
    PROVE  Spec => []SyncSettles
<1>1. Init => Base /\ (~mishap => Settling)
  <2>1. Init => Settling
    <3> SUFFICES ASSUME Init PROVE Settling
      OBVIOUS
    <3>1. /\ sent = {} /\ lastSync = None /\ pc = [l \in Listeners |-> "idle"]
          /\ \A l \in Listeners : inbox[l] = <<>>
      BY DEF Init
    <3>2. \A l \in Listeners : Len(inbox[l]) = 0
      BY <3>1, EmptySeq
    <3> QED
      BY <3>1, <3>2 DEF Settling, LastKnown, SyncsQueued, SyncsDone, ClockSet, ZoneSet, LastSent
  <2> QED
    BY <2>1, BaseInit
<1>2. Base /\ (~mishap => Settling) /\ [Next]_vars => (Base /\ (~mishap => Settling))'
  BY BaseStep, SettlingStep
<1>3. Base /\ (~mishap => Settling) => SyncSettles
  <2> SUFFICES ASSUME Base, Settling, Quiet, lastSync # None
               PROVE  /\ Positive(lastSync.fields[1]) => clock = lastSync.fields[1]
                      /\ lastSync.fields[2] \notin {<<>>, Local} => localtime = lastSync.fields[2]
    BY DEF SyncSettles
  <2>1. \A l \in Listeners : pc[l] = "idle" /\ Len(inbox[l]) = 0
    BY EmptySeq DEF Quiet
  <2>2. LastSent /\ ~Ahead
    BY <2>1 DEF Settling, LastKnown, Ahead, LastAfter
  <2> QED
    BY <2>1, <2>2 DEF Settling, ClockSet, ZoneSet
<1> QED
  BY <1>1, <1>2, <1>3, PTL DEF Spec
=============================================================================
