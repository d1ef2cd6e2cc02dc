---------------------------- MODULE MCRandomData ----------------------------
(* Items of 3 bytes, the size estimated, leave a rest to values of two as   *)
(* the 31 bytes of a sample do; items of 4 do not, like those of Fortuna.   *)
(* The estimates ask for 2 to 6 items of a ring of 4, which eight pushes    *)
(* turn twice.                                                              *)
EXTENDS RandomData

MCCounts == {1, 3, 5, 6}
MCOffsets == {0, 1, 3}
MCLimits == {ItemsNeeded(width, count) : width \in Widths, count \in Counts}
=============================================================================
