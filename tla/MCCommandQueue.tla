--------------------------- MODULE MCCommandQueue ---------------------------
(***************************************************************************)
(* Small instances of CommandQueue for TLC.                                *)
(***************************************************************************)
EXTENDS CommandQueue
=============================================================================
