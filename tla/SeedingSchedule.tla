-------------------------- MODULE SeedingSchedule --------------------------
(***************************************************************************)
(* Seeding as StartPolling schedules it (pkg/api/polling.go): a ticker for *)
(* the polls, with the interval of the configuration, and one of 30 s for  *)
(* the seed requests, both started together. Nothing fails, nothing is     *)
(* late and nothing restarts; only the poll and the seed request of the    *)
(* same instant may come in either order.                                  *)
(***************************************************************************)
EXTENDS Seeding

CONSTANT
    PollsPerSeed    \* polls in 30 s: 6 with the documented 5000 ms

VARIABLE
    polls   \* since the last seed request fell due; -1 if one is outstanding

scheduled == <<counter, filled, seeded, polls>>

ScheduledInit == Init /\ polls = 0

TickPoll ==
    /\ polls < PollsPerSeed
    /\ Poll
    /\ polls' = polls + 1

TickSeed ==
    /\ polls >= PollsPerSeed - 1
    /\ Seed
    /\ polls' = polls - PollsPerSeed

\* Tickers go on ticking.
ScheduledSpec ==
    /\ ScheduledInit /\ [][TickPoll \/ TickSeed]_scheduled
    /\ WF_scheduled(TickPoll) /\ WF_scheduled(TickSeed)

----------------------------------------------------------------------------
(* Properties *)

\* "Every 30 seconds: ... Reseed AES generator", for a generator that is
\* started on a fixed key and "will be reseeded by API service": while polls
\* and seed requests go on and all of them are answered, some seed request
\* replaces the initial key.
EventuallySeeded == <>seeded
=============================================================================
