------------------------------ MODULE Pipeline ------------------------------
(***************************************************************************)
(* The three services at work together: the API's goroutines of            *)
(* pkg/api/polling.go call the controller (cmd/controller) and the Fortuna *)
(* service (cmd/fortuna) over HTTP. Services fail, restart and lose        *)
(* answers, and Go's HTTP transport sends a GET again when the connection  *)
(* it had kept breaks under it; a POST is never sent again.                *)
(*                                                                         *)
(* A sample is the number of its draw from the chip, and what is drawn     *)
(* once is never drawn again. Pools, key and blocks are those of Fortuna,  *)
(* except that the pools are not cut at their maximal size. A request      *)
(* stands from the call to the start of its handler as "asked" ("posted"   *)
(* for the POST), then as "answered" until the goroutine has read it.      *)
(*                                                                         *)
(* A definition named X_Y is a faulty version of X, in the way Y.          *)
(***************************************************************************)
EXTENDS Integers, Sequences

CONSTANTS
    PollBlocks,       \* blocks of a poll: 256 bytes are 16
    SeedCount,        \* samples of a seed request: 5
    NumberOfPools,    \* 32 in the code
    Width,            \* bits of the counter that Seeding sees
    IdleConnections,  \* connections the transport keeps to a host: 2
    MaxSamples,       \* bound: samples drawn
    MaxCounter        \* bound: the counter up to which polls are served

ASSUME NumberOfPoolsAssumption == NumberOfPools \in Nat \ {0}
ASSUME CountsAssumption == PollBlocks \in Nat /\ SeedCount \in Nat \ {0}
ASSUME IdleConnectionsAssumption == IdleConnections \in Nat
ASSUME MaxSamplesAssumption == MaxSamples \in Nat

VARIABLES
    drawn,      \* the samples 1 .. drawn have left the chip
    key,        \* Fortuna: the batches of samples hashed into the key
    counter,    \* Fortuna: the block counter
    pools,      \* Fortuna: the samples in each pool
    pending,    \* Fortuna: the samples between draining and hashing
    call,       \* per goroutine: where its call is, or "idle"
    answer,     \* per goroutine: what it was answered, for the seeder what it posts,
                \* for an "asked" controller what its handler has drawn so far
    retries,    \* per goroutine: how often its GET was sent again
    samples,    \* API: the samples stored for clients
    blocks,     \* API: the blocks stored for clients
    repeated,   \* history: the blocks stored a second time
    posted      \* history: the samples posted as seeds

controller == drawn
fortuna == <<key, counter, pools, pending>>
calls == <<call, answer, retries>>
stored == <<samples, blocks, repeated, posted>>
vars == <<controller, fortuna, calls, stored>>

Goroutines == {"trng", "fortuna", "seeder"}
PoolIndex == 0 .. NumberOfPools - 1
EmptyPools == [p \in PoolIndex |-> {}]
Elements(s) == {s[i] : i \in DOMAIN s}

Init ==
    /\ drawn = 0
    /\ key = <<>> /\ counter = 0 /\ pools = EmptyPools /\ pending = {}
    /\ call = [g \in Goroutines |-> "idle"]
    /\ answer = [g \in Goroutines |-> <<>>]
    /\ retries = [g \in Goroutines |-> 0]
    /\ samples = {} /\ blocks = {} /\ repeated = {} /\ posted = {}

----------------------------------------------------------------------------
(* A goroutine and its call *)

Move(g, place, data) ==
    /\ call' = [call EXCEPT ![g] = place]
    /\ answer' = [answer EXCEPT ![g] = data]
    /\ retries' = IF place = "idle" THEN [retries EXCEPT ![g] = 0] ELSE retries

\* The ticker fires; ticks that fall into a call are dropped by the ticker.
Tick(g) ==
    /\ call[g] = "idle"
    /\ Move(g, "asked", <<>>)
    /\ UNCHANGED <<controller, fortuna, stored>>

Fail_Returns(g) ==
    /\ call[g] \in {"asked", "answered", "posted"}
    /\ Move(g, "returned", <<>>)
    /\ UNCHANGED <<controller, fortuna, stored>>

\* The service is down, the device fails, or the answer is lost: the goroutine
\* logs the error and waits for its next tick.
Fail(g) ==
    /\ call[g] \in {"asked", "answered", "posted"}
    /\ Move(g, "idle", <<>>)
    /\ UNCHANGED <<controller, fortuna, stored>>

Resend_Posts(g) ==
    /\ retries[g] < IdleConnections
    /\ \/ /\ call[g] \in {"asked", "answered"}
          /\ call' = [call EXCEPT ![g] = "asked"]
          /\ answer' = [answer EXCEPT ![g] = <<>>]
       \/ /\ call[g] \in {"posted", "seeded"}
          /\ call' = [call EXCEPT ![g] = "posted"]
          /\ UNCHANGED answer
    /\ retries' = [retries EXCEPT ![g] = @ + 1]
    /\ UNCHANGED <<controller, fortuna, stored>>

\* The kept connection breaks before the answer, whether the request was
\* served or not: a GET goes out again, over the next connection.
Resend(g) ==
    /\ retries[g] < IdleConnections
    /\ call[g] \in {"asked", "answered"}
    /\ call' = [call EXCEPT ![g] = "asked"]
    /\ answer' = [answer EXCEPT ![g] = <<>>]
    /\ retries' = [retries EXCEPT ![g] = @ + 1]
    /\ UNCHANGED <<controller, fortuna, stored>>

----------------------------------------------------------------------------
(* The controller service *)

Count(g) == IF g = "seeder" THEN SeedCount ELSE 1

Draw_AnswersLast(g) ==
    /\ g \in {"trng", "seeder"} /\ call[g] = "asked"
    /\ \/ drawn < MaxSamples /\ drawn' = drawn + 1
       \/ drawn > 0 /\ UNCHANGED drawn
    /\ LET got == Append(answer[g], drawn')
       IN  Move(g, IF Len(got) = Count(g) THEN "answered" ELSE "asked", got)
    /\ UNCHANGED <<fortuna, stored>>

\* GET /generate, with count=5 for the seeder: the handler takes its samples
\* from the chip one by one, other handlers take theirs in between, and the
\* answer goes out when the last one is there. If the device fails before,
\* those it has are thrown away (Fail). Nobody sees what a handler draws on
\* for a goroutine that has given up, so that is not counted.
Draw(g) ==
    /\ g \in {"trng", "seeder"} /\ call[g] = "asked"
    /\ drawn < MaxSamples
    /\ drawn' = drawn + 1
    /\ LET got == Append(answer[g], drawn')
       IN  Move(g, IF Len(got) = Count(g) THEN "answered" ELSE "asked", got)
    /\ UNCHANGED <<fortuna, stored>>

----------------------------------------------------------------------------
(* The Fortuna service *)

\* GET /generate?size=256.
Generate ==
    /\ call["fortuna"] = "asked"
    /\ counter + PollBlocks <= MaxCounter
    /\ counter' = counter + PollBlocks
    /\ Move("fortuna", "answered", [i \in 1 .. PollBlocks |-> <<key, counter + i - 1>>])
    /\ UNCHANGED <<controller, key, pools, pending, stored>>

PoolOf_First(i) == 0

PoolOf(i) == (i - 1) % NumberOfPools

\* The pools once the samples posted have been added to them.
Filled ==
    LET seeds == answer["seeder"]
    IN  [p \in PoolIndex |->
            pools[p] \cup {seeds[i] : i \in {j \in DOMAIN seeds : PoolOf(j) = p}}]

Selected(p) == (counter \div 2 ^ p) % 2 = 1

ToUse == {p \in PoolIndex : Selected(p) /\ Filled[p] # {}}

\* POST /seed: the samples go to the pools, and those selected are drained.
\* Only a seed request touches the pools, so adding and draining are one step.
Drain ==
    /\ call["seeder"] = "posted"
    /\ ToUse # {}
    /\ pending' = UNION {Filled[p] : p \in ToUse}
    /\ pools' = [p \in PoolIndex |-> IF p \in ToUse THEN {} ELSE Filled[p]]
    /\ Move("seeder", "reseeding", answer["seeder"])
    /\ UNCHANGED <<controller, key, counter, stored>>

\* No pool is selected: the request fails, its samples stay in the pools.
DrainNothing ==
    /\ call["seeder"] = "posted"
    /\ ToUse = {}
    /\ pools' = Filled
    /\ Move("seeder", "idle", <<>>)
    /\ UNCHANGED <<controller, key, counter, pending, stored>>

\* The second critical section. The handler runs on when the client has gone,
\* which is the same to the goroutine as an answer lost.
Reseed ==
    /\ call["seeder"] = "reseeding"
    /\ key' = Append(key, pending)
    /\ counter' = counter + 1
    /\ pending' = {}
    /\ Move("seeder", "seeded", answer["seeder"])
    /\ UNCHANGED <<controller, pools, stored>>

FortunaRestarts_KeepsPending ==
    /\ key' = <<>> /\ counter' = 0 /\ pools' = EmptyPools
    /\ IF call["seeder"] = "reseeding"
       THEN Move("seeder", "idle", <<>>)
       ELSE UNCHANGED calls
    /\ UNCHANGED <<controller, pending, stored>>

\* The process ends and starts again, on the same initial key. A request it
\* was working on fails; one it has answered may still be read.
FortunaRestarts ==
    /\ key' = <<>> /\ counter' = 0 /\ pools' = EmptyPools /\ pending' = {}
    /\ IF call["seeder"] = "reseeding"
       THEN Move("seeder", "idle", <<>>)
       ELSE UNCHANGED calls
    /\ UNCHANGED <<controller, stored>>

----------------------------------------------------------------------------
(* The goroutines read their answers *)

\* fetchAndStoreTRNGData: an error of the store loses the sample.
StoreSample ==
    /\ call["trng"] = "answered"
    /\ samples' = samples \cup Elements(answer["trng"])
    /\ Move("trng", "idle", <<>>)
    /\ UNCHANGED <<controller, fortuna, blocks, repeated, posted>>

\* fetchAndStoreFortunaData.
StoreBlocks ==
    /\ call["fortuna"] = "answered"
    /\ blocks' = blocks \cup Elements(answer["fortuna"])
    /\ repeated' = repeated \cup (blocks \cap Elements(answer["fortuna"]))
    /\ Move("fortuna", "idle", <<>>)
    /\ UNCHANGED <<controller, fortuna, samples, posted>>

\* seedFortuna: what the controller answered is posted to Fortuna.
PostSeeds ==
    /\ call["seeder"] = "answered"
    /\ posted' = posted \cup Elements(answer["seeder"])
    /\ Move("seeder", "posted", answer["seeder"])
    /\ UNCHANGED <<controller, fortuna, samples, blocks, repeated>>

EndSeeding ==
    /\ call["seeder"] = "seeded"
    /\ Move("seeder", "idle", <<>>)
    /\ UNCHANGED <<controller, fortuna, stored>>

Progress(g) ==
    \/ Fail(g) \/ Draw(g)
    \/ g = "trng" /\ StoreSample
    \/ g = "fortuna" /\ (Generate \/ StoreBlocks)
    \/ g = "seeder" /\ (PostSeeds \/ Drain \/ DrainNothing \/ Reseed \/ EndSeeding)

Next ==
    \/ \E g \in Goroutines : Tick(g) \/ Resend(g) \/ Progress(g)
    \/ FortunaRestarts

\* Every call gets an answer or an error in the end, and goroutines run on.
Fairness == \A g \in Goroutines : WF_vars(Progress(g))

Spec == Init /\ [][Next]_vars /\ Fairness

----------------------------------------------------------------------------
(* Properties *)

Keys == Seq(SUBSET (1 .. MaxSamples))

\* Every variable has its type; only a seed request that is being served holds
\* drained samples.
TypeOK ==
    /\ drawn \in 0 .. MaxSamples
    /\ key \in Keys /\ counter \in Nat
    /\ pools \in [PoolIndex -> SUBSET (1 .. MaxSamples)]
    /\ (pending # {}) <=> (call["seeder"] = "reseeding")
    /\ call \in [Goroutines ->
          {"idle", "asked", "answered", "posted", "reseeding", "seeded"}]
    /\ DOMAIN answer = Goroutines
    /\ \A g \in {"trng", "seeder"} : answer[g] \in Seq(1 .. MaxSamples)
    /\ answer["fortuna"] \in Seq(Keys \X Nat)
    /\ retries \in [Goroutines -> 0 .. IdleConnections]
    /\ samples \subseteq 1 .. MaxSamples /\ posted \subseteq 1 .. MaxSamples
    /\ blocks \subseteq Keys \X Nat /\ repeated \subseteq blocks

\* Whatever is lost, sent again or half done between the services, no sample
\* that seeds the generator is also stored for clients.
SeedsAreSecret == samples \cap posted = {}

\* A block is stored twice only if it comes from the fixed key that every
\* process starts with: once a seed request has reached the generator, what
\* it returns has not been returned before, in any earlier life either.
SeededBlocksNeverRepeat == \A b \in repeated : b[1] = <<>>

\* No failure, restart or lost answer stops a goroutine: each comes back to
\* its ticker.
PollersSurvive == \A g \in Goroutines : []<>(call[g] = "idle")

Abstract == INSTANCE Seeding WITH
    counter <- (counter + (IF pending = {} THEN 0 ELSE 1)) % 2 ^ Width,
    filled <- {p \in PoolIndex : pools[p] # {}},
    seeded <- key # <<>> \/ pending # {}

\* To the course of the seeding, all of this is Seeding: a seed request takes
\* effect when it drains the pools, a request lost or sent again not at all or
\* as one more poll.
RefinesSeeding == Abstract!Spec
=============================================================================
