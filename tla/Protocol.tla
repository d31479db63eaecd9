------------------------------- MODULE Protocol -------------------------------
(***************************************************************************)
(* The messages nocturned exchanges with the companion                     *)
(* (bluetooth/protocol.go): how a message is put on the wire, and what is  *)
(* read from what came over it.  A payload is a sequence of bytes.  The    *)
(* header is kept as its fields; how a number is cut into bytes matters    *)
(* only inside payloads.  A 64-bit number is its eight bytes.              *)
(***************************************************************************)
EXTENDS Integers, Sequences

CONSTANTS
    DWord,         \* how many numbers a uint32 holds: 2^32
    Checksum(_)    \* CRC-32 of a payload

Word == 65536      \* how many numbers a uint16 holds

ASSUME WidthAssumption == DWord \in Nat /\ DWord > Word

Byte  == 0 .. 255
Bytes == Seq(Byte)

BytesOf(n) == {bytes \in Bytes : Len(bytes) = n}

HEADER_SIZE      == 16
PROTOCOL_VERSION == 2

MSG_CAPABILITIES              == 1
MSG_TIME_SYNC                 == 2
MSG_GET_CAPABILITIES          == 6
MSG_CMD_PLAY                  == 257
MSG_CMD_PAUSE                 == 258
MSG_CMD_NEXT                  == 259
MSG_CMD_PREVIOUS              == 260
MSG_CMD_SEEK_TO               == 261
MSG_CMD_SET_VOLUME            == 262
MSG_CMD_REQUEST_STATE         == 263
MSG_CMD_REQUEST_TIMESTAMP     == 264
MSG_CMD_ALBUM_ART_QUERY       == 265
MSG_STATE_FULL                == 513
MSG_ALBUM_ART_AVAILABLE_QUERY == 773
MSG_ALBUM_ART_NEEDED_RESPONSE == 774

-----------------------------------------------------------------------------
(***************************************************************************)
(* Framing.  What came of a notification is its header, whole or cut       *)
(* short, and `rest`, the bytes after the header.                          *)
(***************************************************************************)
\* The version goes into the high 4 bits, the type into the low 12.
VersionedType(version, messageType) == version * 4096 + (messageType % 4096)

EncodeMessage(messageType, payload, messageID) ==
    [header        |-> "whole",
     versionedType |-> VersionedType(PROTOCOL_VERSION, messageType),
     messageID     |-> messageID,
     payloadSize   |-> Len(payload) % DWord,
     crc32         |-> Checksum(payload),
     rest          |-> payload]

IsAlbumArtMessage(messageType) ==
    messageType \in 769 .. 799 \/ messageType = MSG_CMD_ALBUM_ART_QUERY

\* Whether a message of this version is read at all.
Accepted(version, messageType) ==
    version = PROTOCOL_VERSION \/ IsAlbumArtMessage(messageType)

\* Where the payload ends, in a message that announces this size: a uint32.
PayloadEnd(payloadSize) == (HEADER_SIZE + payloadSize) % DWord

Unread(outcome) ==
    [outcome |-> outcome, messageType |-> 0, payload |-> <<>>, messageID |-> 0]

\* The header is whole and accepted, and the payload has come in full.
Complete(m) ==
    /\ m.header = "whole"
    /\ Accepted(m.versionedType \div 4096, m.versionedType % 4096)
    /\ PayloadEnd(m.payloadSize) <= HEADER_SIZE + Len(m.rest)

\* data[HEADER_SIZE : end]
Payload(m) == SubSeq(m.rest, 1, PayloadEnd(m.payloadSize) - HEADER_SIZE)

Read(m) ==
    [outcome |-> "ok", messageType |-> m.versionedType % 4096,
     payload |-> Payload(m), messageID |-> m.messageID]

\* Mutant: the checksum is not compared.
DecodeUnchecked(m) ==
    IF ~Complete(m) THEN Unread("error")
    ELSE IF PayloadEnd(m.payloadSize) < HEADER_SIZE THEN Unread("panic")
    ELSE Read(m)

\* A slice whose end lies before its beginning panics.
DecodeMessage(m) ==
    IF ~Complete(m) THEN Unread("error")
    ELSE IF PayloadEnd(m.payloadSize) < HEADER_SIZE THEN Unread("panic")
    ELSE IF Checksum(Payload(m)) # m.crc32 THEN Unread("error")
    ELSE Read(m)

-----------------------------------------------------------------------------
(***************************************************************************)
(* Payloads.                                                               *)
(***************************************************************************)
PutUint16(n)     == <<(n \div 256) % 256, n % 256>>
Uint16(bytes, i) == bytes[i] * 256 + bytes[i + 1]

Unparsed(outcome) == [outcome |-> outcome, fields |-> <<>>]
Parsed(fields)    == [outcome |-> "ok", fields |-> fields]

CreateTimeSyncPayload(timestampMs, timezone) ==
    timestampMs \o PutUint16(Len(timezone) % Word) \o timezone

\* Where the timezone ends: 10 and a uint16 are added as a uint16.
TimezoneEnd(tzLength) == (10 + tzLength) % Word

ParseTimeSyncPayload(payload) ==
    LET end == TimezoneEnd(Uint16(payload, 9))
    IN  IF Len(payload) < 10 \/ Len(payload) < end THEN Unparsed("error")
        ELSE IF end < 10 THEN Unparsed("panic")
        ELSE Parsed(<<SubSeq(payload, 1, 8), SubSeq(payload, 11, end)>>)

\* Of a command: a position (eight bytes, or <<>>) and a percentage (one, or <<>>).
CreateCommandPayload(valueMs, valuePercent) ==
    <<(IF valueMs # <<>> THEN 1 ELSE 0) + (IF valuePercent # <<>> THEN 2 ELSE 0)>>
        \o valueMs \o valuePercent

ParseCommandPayload(payload) ==
    LET flags  == payload[1]
        hasMs  == Len(payload) >= 9 /\ flags % 2 = 1
        offset == IF hasMs THEN 9 ELSE 1
        hasPc  == Len(payload) > offset /\ (flags \div 2) % 2 = 1
    IN  [valueMs      |-> IF hasMs THEN SubSeq(payload, 2, 9) ELSE <<>>,
         valuePercent |-> IF hasPc THEN <<payload[offset + 1]>> ELSE <<>>]

\* A string with its length before it, at an offset; and what comes after it.
PutString(s)         == PutUint16(Len(s) % Word) \o s
StringEnd(bytes, at) == at + 2 + Uint16(bytes, at + 1)
StringAt(bytes, at)  == SubSeq(bytes, at + 3, StringEnd(bytes, at))
HasString(bytes, at) == at + 2 <= Len(bytes) /\ StringEnd(bytes, at) <= Len(bytes)

\* What the companion sends: flags, duration, position, volume, album hash
\* and three strings.
ParseFullStatePayload(payload) ==
    LET album == StringEnd(payload, 22)
        track == StringEnd(payload, album)
    IN  IF /\ Len(payload) >= 24
           /\ HasString(payload, 22)
           /\ HasString(payload, album)
           /\ HasString(payload, track)
        THEN Parsed(<<<<payload[1] % 2>>, SubSeq(payload, 2, 9), SubSeq(payload, 10, 17),
                      <<payload[18]>>, SubSeq(payload, 19, 22), StringAt(payload, 22),
                      StringAt(payload, album), StringAt(payload, track)>>)
        ELSE Unparsed("error")

\* A query is a checksum, a track, and five bytes about compression.
ParseAlbumArtAvailabilityQuery(payload) ==
    LET checksumEnd == 1 + payload[1]
        trackEnd    == StringEnd(payload, checksumEnd)
    IN  IF /\ Len(payload) >= 8
           /\ checksumEnd <= Len(payload)
           /\ HasString(payload, checksumEnd)
           /\ trackEnd + 5 <= Len(payload)
        THEN Parsed(<<SubSeq(payload, 2, checksumEnd), StringAt(payload, checksumEnd),
                      SubSeq(payload, trackEnd + 1, trackEnd + 4),
                      <<payload[trackEnd + 5] % 2>>>>)
        ELSE Unparsed("error")

\* 'y' and 'n'
CreateAlbumArtNeededResponse(needed) == IF needed THEN <<121>> ELSE <<110>>

ParseAlbumArtNeededResponse(payload) ==
    IF payload # <<>> /\ payload[1] \in {121, 89, 110, 78}
    THEN Parsed(<<payload[1] \in {121, 89}>>)
    ELSE Unparsed("error")

\* A start without compression is a checksum, the number of chunks, the size
\* and the track; one with it has five bytes more before the track.
CreateAlbumArtStartPayload(checksum, totalChunks, imageSize, trackID) ==
    checksum \o totalChunks \o imageSize \o trackID

ParseAlbumArtStartPayload(payload) ==
    LET start(compressedSize, gzip, trackID) ==
            Parsed(<<SubSeq(payload, 1, 32), SubSeq(payload, 33, 36),
                     SubSeq(payload, 37, 40), compressedSize, gzip, trackID>>)
    IN  IF Len(payload) < 40 THEN Unparsed("error")
        ELSE IF Len(payload) >= 45
        THEN start(SubSeq(payload, 41, 44), <<payload[45] % 2>>,
                   SubSeq(payload, 46, Len(payload)))
        ELSE start(<<0, 0, 0, 0>>, <<0>>, SubSeq(payload, 41, Len(payload)))

CreateAlbumArtChunkPayload(chunkIndex, data) == chunkIndex \o data

ParseAlbumArtChunkPayload(payload) ==
    IF Len(payload) < 4 THEN Unparsed("error")
    ELSE Parsed(<<SubSeq(payload, 1, 4), SubSeq(payload, 5, Len(payload))>>)

CreateAlbumArtEndPayload(checksum, success) == checksum \o <<IF success THEN 1 ELSE 0>>

ParseAlbumArtEndPayload(payload) ==
    IF Len(payload) < 33 THEN Unparsed("error")
    ELSE Parsed(<<SubSeq(payload, 1, 32), payload[33] # 0>>)
=============================================================================
