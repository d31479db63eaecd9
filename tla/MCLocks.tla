------------------------------ MODULE MCLocks ------------------------------
(***************************************************************************)
(* Small instances of Locks for TLC.                                       *)
(***************************************************************************)
EXTENDS Locks, TLC

GoroutineSymmetry == Permutations(Goroutines)
=============================================================================
