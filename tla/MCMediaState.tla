---------------------------- MODULE MCMediaState ----------------------------
(***************************************************************************)
(* Small instances of MediaState for TLC.                                  *)
(***************************************************************************)
EXTENDS MediaState, TLC

GoroutineSymmetry == Permutations(Listeners) \cup Permutations(Handlers)
=============================================================================
