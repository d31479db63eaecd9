----------------------------- MODULE MCBleClient -----------------------------
(***************************************************************************)
(* Small instances of BleClient for TLC.                                   *)
(***************************************************************************)
EXTENDS BleClient
=============================================================================
