------------------------------ MODULE Seeding ------------------------------
(***************************************************************************)
(* What the API's two Fortuna goroutines do to a generator over time: one  *)
(* polls it for blocks, the other posts samples to it, and each seed       *)
(* request uses the pools that the bits of the block counter select        *)
(* (pkg/api/polling.go, cmd/fortuna/main.go, pkg/fortuna/fortuna.go).      *)
(*                                                                         *)
(* Only what decides the course of the seeding is kept: the low bits of    *)
(* the counter, which pools hold anything, and whether the key is still    *)
(* the fixed one that the process starts with. Pipeline, where requests    *)
(* fail and answers get lost, implements this module; SeedingSchedule adds *)
(* the tickers to it.                                                      *)
(***************************************************************************)
EXTENDS Integers

CONSTANTS
    PollBlocks, \* blocks of a poll: 256 bytes are 16 of them
    SeedCount,  \* samples of a seed request, for the pools 0 .. SeedCount-1
    Width       \* bits of the counter kept; pools from SeedCount on stay empty

VARIABLES
    counter,    \* Generator.counter, modulo 2^Width
    filled,     \* the pools that are not empty
    seeded      \* the key is no longer the initial one

vars == <<counter, filled, seeded>>

Counted(n) == n % 2 ^ Width

Init ==
    /\ counter = 0
    /\ filled = {}
    /\ seeded = FALSE

\* GET /generate: every block takes a counter.
Poll ==
    /\ counter' = Counted(counter + PollBlocks)
    /\ UNCHANGED <<filled, seeded>>

Selected(p) == (counter \div 2 ^ p) % 2 = 1

\* POST /seed: the samples fill pools, those selected are hashed into the key;
\* with none selected the request fails, and the samples stay where they are.
Seed ==
    LET full == filled \cup 0 .. SeedCount - 1
        used == {p \in full : Selected(p)}
    IN  /\ filled' = full \ used
        /\ \/ /\ used # {}
              /\ counter' = Counted(counter + 1)
              /\ seeded' = TRUE
           \/ /\ used = {}
              /\ UNCHANGED <<counter, seeded>>

\* A restarted process begins with the same key and a counter of 0.
Restart ==
    /\ counter' = 0
    /\ filled' = {}
    /\ seeded' = FALSE

Next == Poll \/ Seed \/ Restart

Spec == Init /\ [][Next]_vars
=============================================================================
