---------------------------- MODULE MCBoltLocks ----------------------------
(* Any goroutine may make any of the calls. The set of calls tells the runs *)
(* apart.                                                                   *)
EXTENDS BoltLocks, TLC

Symmetry == Permutations(Goroutines)
=============================================================================
