------------------------------ MODULE Fortuna ------------------------------
(***************************************************************************)
(* The generator of pkg/fortuna/fortuna.go under the handlers of           *)
(* cmd/fortuna/main.go: requests that generate, seed and amplify run       *)
(* concurrently, and each critical section of g.mutex is one step.         *)
(*                                                                         *)
(* What is seeded is a sample: pools hold samples, and MaxPoolSize counts  *)
(* them. The key is the sequence of the batches hashed into it (SHA-256 is *)
(* taken to have no collisions), and a block is the pair of the key and    *)
(* the counter it is encrypted from. The uint64 counter does not wrap.     *)
(*                                                                         *)
(* A definition named X_Y is a faulty version of X, in the way Y.          *)
(***************************************************************************)
EXTENDS Integers, Sequences, FiniteSets

CONSTANTS
    Requests,       \* the handlers' goroutines
    NumberOfPools,  \* 32 in the code
    MaxPoolSize,    \* samples that a pool keeps
    MaxSeeds,       \* bound: seeds in a request
    MaxSamples,     \* bound: samples seeded in all
    MaxCounter,     \* bound: the counter at which requests stop
    Blocks          \* the numbers of blocks that requests ask for

ASSUME FortunaAssumption ==
    /\ NumberOfPools \in Nat \ {0}
    /\ MaxPoolSize \in Nat \ {0}
    /\ MaxSeeds \in Nat /\ MaxSamples \in Nat /\ MaxCounter \in Nat
    /\ Blocks \subseteq Nat \ {0}

VARIABLES
    key,        \* the batches of samples hashed into Generator.key
    counter,    \* Generator.counter
    pools,      \* Generator.pools
    request,    \* per request: what it does next, or "idle"
    index,      \* per request: i, the seeds it has gone through
    length,     \* per request: the seeds it carries
    size,       \* per request: the blocks to generate, 0 for a seed request
    drained,    \* per request: poolsToUse
    sampled,    \* history: the samples 1 .. sampled have been seeded
    trimmed,    \* history: the samples cut from a full pool
    produced,   \* history: how many blocks have been returned
    issued      \* history: the blocks that have been returned

generator == <<key, counter, pools>>
history == <<sampled, trimmed, produced, issued>>
vars == <<generator, request, index, length, size, drained, history>>

PoolIndex == 0 .. NumberOfPools - 1
Samples == 1 .. MaxSamples
SamplesIn(pool) == {pool[n] : n \in DOMAIN pool}

Init ==
    /\ key = <<>>
    /\ counter = 0
    /\ pools = [p \in PoolIndex |-> <<>>]
    /\ request = [r \in Requests |-> "idle"]
    /\ index = [r \in Requests |-> 0]
    /\ length = [r \in Requests |-> 0]
    /\ size = [r \in Requests |-> 0]
    /\ drained = [r \in Requests |-> {}]
    /\ sampled = 0 /\ trimmed = {} /\ produced = 0 /\ issued = {}

----------------------------------------------------------------------------
(* Requests arrive *)

Goto(r, place) == request' = [request EXCEPT ![r] = place]

Arrive(r, place, seeds, blocks) ==
    /\ request[r] = "idle"
    /\ counter < MaxCounter
    /\ Goto(r, place)
    /\ index' = [index EXCEPT ![r] = 0]
    /\ length' = [length EXCEPT ![r] = seeds]
    /\ size' = [size EXCEPT ![r] = blocks]
    /\ UNCHANGED <<generator, drained, history>>

GenerateRequest(r) == \E n \in Blocks : Arrive(r, "generate", 0, n)
SeedRequest(r) == \E seeds \in 1 .. MaxSeeds : Arrive(r, "seed", seeds, 0)
AmplifyRequest(r) ==
    \E seeds \in 1 .. MaxSeeds, n \in Blocks : Arrive(r, "amplify", seeds, n)

----------------------------------------------------------------------------
(* AddRandomEvent: a new sample goes to the end of its pool, which keeps   *)
(* the last MaxPoolSize.                                                   *)

Kept_OffByOne(pool) == IF Len(pool) > MaxPoolSize + 1 THEN Tail(pool) ELSE pool

Kept(pool) == IF Len(pool) > MaxPoolSize THEN Tail(pool) ELSE pool

AddRandomEvent(source) ==
    LET p == source % NumberOfPools
        grown == Append(pools[p], sampled + 1)
    IN  /\ sampled < MaxSamples
        /\ sampled' = sampled + 1
        /\ pools' = [pools EXCEPT ![p] = Kept(grown)]
        /\ trimmed' = trimmed \cup (SamplesIn(grown) \ SamplesIn(Kept(grown)))

NextSeed(r) ==
    /\ index[r] < length[r]
    /\ index' = [index EXCEPT ![r] = @ + 1]
    /\ UNCHANGED <<key, counter, request, length, size, drained, produced, issued>>

\* seedHandler: the seed at i goes to pool i, and the error of an empty one
\* is ignored.
AddSeed(r) ==
    /\ request[r] = "seed"
    /\ NextSeed(r)
    /\ \/ AddRandomEvent(index[r])
       \/ UNCHANGED <<pools, sampled, trimmed>>

\* A seed that is not hex ends the request; those before it stay in the pools.
BadSeed(r) ==
    /\ request[r] = "seed"
    /\ index[r] < length[r]
    /\ Goto(r, "idle")
    /\ UNCHANGED <<generator, index, length, size, drained, history>>

\* AmplifyRandomData: chunk by chunk, at offsets i = 0, 32, 64, ... of the
\* seed, each to the pool i % NumberOfPools.
AddChunk(r) ==
    /\ request[r] = "amplify"
    /\ NextSeed(r)
    /\ AddRandomEvent(index[r] * NumberOfPools)

----------------------------------------------------------------------------
(* ReseedFromPools *)

Selected(p) == (counter \div 2 ^ p) % 2 = 1

ToUse == {p \in PoolIndex : Selected(p) /\ pools[p] # <<>>}

AllSeedsAdded(r) ==
    /\ request[r] \in {"seed", "amplify"}
    /\ index[r] = length[r]

Drain_KeepsPools(r) ==
    /\ AllSeedsAdded(r)
    /\ ToUse # {}
    /\ drained' = [drained EXCEPT ![r] = UNION {SamplesIn(pools[p]) : p \in ToUse}]
    /\ Goto(r, "reseed")
    /\ UNCHANGED <<generator, index, length, size, history>>

\* The pools whose bit is set in the counter are copied and cleared, and the
\* mutex is released.
Drain(r) ==
    /\ AllSeedsAdded(r)
    /\ ToUse # {}
    /\ drained' = [drained EXCEPT ![r] = UNION {SamplesIn(pools[p]) : p \in ToUse}]
    /\ pools' = [p \in PoolIndex |-> IF p \in ToUse THEN <<>> ELSE pools[p]]
    /\ Goto(r, "reseed")
    /\ UNCHANGED <<key, counter, index, length, size, history>>

\* "no entropy available in pools for reseeding": the request fails.
DrainNothing(r) ==
    /\ AllSeedsAdded(r)
    /\ ToUse = {}
    /\ Goto(r, "idle")
    /\ UNCHANGED <<generator, index, length, size, drained, history>>

Reseed_ForgetsKey(r) ==
    /\ request[r] = "reseed"
    /\ key' = <<drained[r]>>
    /\ counter' = counter + 1
    /\ drained' = [drained EXCEPT ![r] = {}]
    /\ Goto(r, IF size[r] = 0 THEN "idle" ELSE "generate")
    /\ UNCHANGED <<pools, index, length, size, history>>

\* Reseed, under the mutex again: a seed request is done, an amplify request
\* generates.
Reseed(r) ==
    /\ request[r] = "reseed"
    /\ key' = Append(key, drained[r])
    /\ counter' = counter + 1
    /\ drained' = [drained EXCEPT ![r] = {}]
    /\ Goto(r, IF size[r] = 0 THEN "idle" ELSE "generate")
    /\ UNCHANGED <<pools, index, length, size, history>>

----------------------------------------------------------------------------
(* GenerateRandomData *)

Return(r, n) ==
    /\ issued' = issued \cup {<<key, c>> : c \in counter .. counter + n - 1}
    /\ produced' = produced + n
    /\ Goto(r, "idle")
    /\ UNCHANGED <<key, pools, index, length, size, drained, sampled, trimmed>>

GenerateRandomData_OffByOne(r) ==
    /\ request[r] = "generate"
    /\ counter' = counter + size[r] - 1
    /\ Return(r, size[r])

GenerateRandomData(r) ==
    /\ request[r] = "generate"
    /\ counter' = counter + size[r]
    /\ Return(r, size[r])

Next ==
    \E r \in Requests :
        \/ GenerateRequest(r) \/ SeedRequest(r) \/ AmplifyRequest(r)
        \/ AddSeed(r) \/ BadSeed(r) \/ AddChunk(r)
        \/ Drain(r) \/ DrainNothing(r) \/ Reseed(r)
        \/ GenerateRandomData(r)

Spec == Init /\ [][Next]_vars

----------------------------------------------------------------------------
(* Properties *)

KeySamples == UNION {key[n] : n \in DOMAIN key}

\* Every variable has its type; a pool keeps at most MaxPoolSize samples, and
\* only a request that is about to reseed carries drained samples.
TypeOK ==
    /\ key \in Seq(SUBSET Samples)
    /\ counter \in Nat
    /\ pools \in [PoolIndex -> Seq(Samples)]
    /\ \A p \in PoolIndex : Len(pools[p]) <= MaxPoolSize
    /\ request \in [Requests -> {"idle", "seed", "amplify", "reseed", "generate"}]
    /\ index \in [Requests -> Nat] /\ length \in [Requests -> Nat]
    /\ \A r \in Requests : index[r] <= length[r]
    /\ size \in [Requests -> Nat]
    /\ drained \in [Requests -> SUBSET Samples]
    /\ \A r \in Requests : (request[r] = "reseed") <=> (drained[r] # {})
    /\ sampled \in 0 .. MaxSamples /\ trimmed \subseteq Samples /\ produced \in Nat
    /\ issued \subseteq Seq(SUBSET Samples) \X Nat

\* The places where a sample is: pools, requests between the two critical
\* sections of a reseed, the batches of the key, or cut from a full pool.
Places(s) ==
    Cardinality({p \in PoolIndex : s \in SamplesIn(pools[p])})
    + Cardinality({r \in Requests : s \in drained[r]})
    + Cardinality({n \in DOMAIN key : s \in key[n]})
    + Cardinality(trimmed \cap {s})

\* However adds, drains and reseeds of concurrent requests interleave around
\* the mutex that ReseedFromPools gives up half-way, each sample seeded is in
\* exactly one place: it is never lost, and never hashed into the key twice.
EntropyAccounted == \A s \in Samples : Places(s) = IF s <= sampled THEN 1 ELSE 0

\* No block is ever returned twice: the pair of key and counter it is encrypted
\* from is fresh, whatever requests reseed, amplify and generate meanwhile.
BlocksNeverRepeat == produced = Cardinality(issued)

\* A reseed builds on the key it finds, so no sample that has reached the key
\* is forgotten by the reseed of another request.
EntropyKept == [][KeySamples \subseteq KeySamples']_vars
=============================================================================
