--------------------------- MODULE MCWebSocketHub ---------------------------
(***************************************************************************)
(* Small instances of WebSocketHub for TLC.                                *)
(***************************************************************************)
EXTENDS WebSocketHub
=============================================================================
