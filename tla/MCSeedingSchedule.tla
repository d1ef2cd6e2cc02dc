------------------------- MODULE MCSeedingSchedule -------------------------
(* The numbers of the program: 16 blocks a poll, 5 samples a seed request, *)
(* 6 polls between two of them. Five bits of the counter decide about the  *)
(* five pools that are ever filled.                                        *)
EXTENDS SeedingSchedule
=============================================================================
