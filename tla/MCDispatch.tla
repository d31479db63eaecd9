------------------------------ MODULE MCDispatch ------------------------------
(***************************************************************************)
(* Small instances of Dispatch for TLC.                                    *)
(***************************************************************************)
EXTENDS Dispatch

\* Stands for CRC-32: on the payloads of an instance no two have the same.
Sum(payload) ==
    LET sum[i \in 0 .. Len(payload)] ==
          IF i = 0 THEN Len(payload) ELSE (sum[i - 1] * 31 + payload[i] + 1) % 65521
    IN  sum[Len(payload)]

Eight(n) == <<0, 0, 0, 0, 0, 0, 0, n>>

SyncA == Item(MSG_TIME_SYNC, <<Eight(1), <<65>>>>)
SyncB == Item(MSG_TIME_SYNC, <<Eight(2), <<66>>>>)
\* Neither a time nor a zone.
SyncNone == Item(MSG_TIME_SYNC, <<Eight(0), Local>>)

PlayAll  == Item(MSG_CMD_PLAY, <<Eight(7), <<50>>>>)
SeekBare == Item(MSG_CMD_SEEK_TO, <<<<>>, <<50>>>>)

\* The companion's own capabilities: a message that is not handled.
Unhandled == Item(MSG_CAPABILITIES, <<>>)

State == Item(MSG_STATE_FULL, <<<<1>>, Eight(9), Eight(7), <<50>>, <<0, 0, 0, 5>>,
                                <<65>>, <<66, 66>>, <<>>>>)

Capabilities == Item(MSG_GET_CAPABILITIES, <<>>)
Timestamp    == Item(MSG_CMD_REQUEST_TIMESTAMP, <<>>)
Available    == Item(MSG_ALBUM_ART_AVAILABLE_QUERY,
                     <<<<104>>, <<116, 116>>, <<0, 0, 1, 0>>, <<1>>>>)

Whole == {SyncA, SyncB, SyncNone, PlayAll, SeekBare, Unhandled, State,
          Item(MSG_CMD_REQUEST_STATE, <<>>), Item(MSG_CMD_ALBUM_ART_QUERY, <<<<104>>>>),
          Capabilities, Timestamp, Available}
=============================================================================
