--------------------------- MODULE FortunaProofs ---------------------------
(***************************************************************************)
(* Proofs about Fortuna, for any number of requests, pools and samples,    *)
(* and pools of any size.                                                  *)
(***************************************************************************)
EXTENDS Fortuna, FiniteSetTheorems, FunctionTheorems, TLAPS

\* What BlocksNeverRepeat rests on: every block returned so far was encrypted
\* from a counter that the generator has left behind.
BlocksBehindCounter ==
    /\ IsFiniteSet(issued)
    /\ \A b \in issued : b[2] < counter

IInv == TypeOK /\ BlocksBehindCounter /\ BlocksNeverRepeat

----------------------------------------------------------------------------
(* Pools and samples *)

LEMMA PoolOfSource ==
    ASSUME NEW source \in Int
    PROVE  source % NumberOfPools \in PoolIndex
BY FortunaAssumption DEF PoolIndex

LEMMA SamplesInType ==
    ASSUME NEW pool \in Seq(Samples)
    PROVE  /\ SamplesIn(pool) \subseteq Samples
           /\ pool # <<>> => SamplesIn(pool) # {}
<1>1. \A n \in DOMAIN pool : pool[n] \in Samples
  OBVIOUS
<1>2. ASSUME pool # <<>> PROVE 1 \in DOMAIN pool
  BY <1>2
<1>3. QED
  BY <1>1, <1>2 DEF SamplesIn

LEMMA KeptType ==
    ASSUME NEW pool \in Seq(Samples), Len(pool) <= MaxPoolSize + 1
    PROVE  Kept(pool) \in Seq(Samples) /\ Len(Kept(pool)) <= MaxPoolSize
BY FortunaAssumption DEF Kept

\* The state that AddRandomEvent changes keeps its type.
LEMMA AddRandomEventType ==
    ASSUME TypeOK, NEW source \in Int, AddRandomEvent(source)
    PROVE  /\ pools' \in [PoolIndex -> Seq(Samples)]
           /\ \A p \in PoolIndex : Len(pools'[p]) <= MaxPoolSize
           /\ sampled' \in 0 .. MaxSamples
           /\ trimmed' \subseteq Samples
<1> DEFINE p == source % NumberOfPools
           grown == Append(pools[p], sampled + 1)
<1>1. p \in PoolIndex
  BY PoolOfSource
<1>2. /\ sampled < MaxSamples
      /\ sampled' = sampled + 1
      /\ pools' = [pools EXCEPT ![p] = Kept(grown)]
      /\ trimmed' = trimmed \cup (SamplesIn(grown) \ SamplesIn(Kept(grown)))
  BY DEF AddRandomEvent
<1> HIDE DEF p
<1>3. sampled + 1 \in Samples /\ sampled' \in 0 .. MaxSamples
  BY <1>2, FortunaAssumption DEF TypeOK, Samples
<1>4. pools[p] \in Seq(Samples) /\ Len(pools[p]) <= MaxPoolSize
  BY <1>1 DEF TypeOK
<1>5. grown \in Seq(Samples) /\ Len(grown) = Len(pools[p]) + 1
  BY <1>3, <1>4
<1>6. Len(grown) <= MaxPoolSize + 1
  BY <1>4, <1>5, FortunaAssumption
<1> HIDE DEF grown
<1>7. Kept(grown) \in Seq(Samples) /\ Len(Kept(grown)) <= MaxPoolSize
  BY <1>5, <1>6, KeptType
<1>8. SamplesIn(grown) \subseteq Samples
  BY <1>5, SamplesInType
<1>9. QED
  BY <1>1, <1>2, <1>3, <1>7, <1>8 DEF TypeOK

----------------------------------------------------------------------------
(* The generator *)

\* The blocks made from n counters in a row.
RunOf(k, a, n) == {<<k, c>> : c \in a .. a + n - 1}

\* They are n different blocks.
LEMMA BlocksOfRun ==
    ASSUME NEW k, NEW a \in Nat, NEW n \in Nat
    PROVE  IsFiniteSet(RunOf(k, a, n)) /\ Cardinality(RunOf(k, a, n)) = n
<1> DEFINE S == a .. a + n - 1
           run == {<<k, c>> : c \in S}
           f == [c \in S |-> <<k, c>>]
<1>1. IsFiniteSet(S) /\ Cardinality(S) = n
  BY FS_Interval
<1>2. f \in Surjection(S, run)
  BY DEF Surjection
<1>3. f \in Injection(S, run)
  <2>1. \A c, d \in S : f[c] = f[d] => c = d
    OBVIOUS
  <2>2. f \in [S -> run]
    OBVIOUS
  <2>3. QED
    BY <2>1, <2>2 DEF Injection, IsInjective
<1> HIDE DEF S, run, f
<1>4. IsFiniteSet(run) /\ Cardinality(run) = Cardinality(S)
  BY <1>1, <1>2, <1>3, FS_Surjection
<1>5. QED
  BY <1>1, <1>4 DEF run, S, RunOf

\* The blocks that GenerateRandomData returns are not among those returned
\* before, so both sides of BlocksNeverRepeat grow by their number.
LEMMA GenerateKeepsBlocks ==
    ASSUME IInv, NEW r \in Requests, GenerateRandomData(r)
    PROVE  BlocksBehindCounter' /\ BlocksNeverRepeat'
<1> DEFINE n == size[r]
           run == RunOf(key, counter, n)
<1>1. /\ counter \in Nat /\ n \in Nat /\ produced \in Nat
      /\ IsFiniteSet(issued) /\ produced = Cardinality(issued)
      /\ \A b \in issued : b[2] < counter
  BY DEF IInv, TypeOK, BlocksBehindCounter, BlocksNeverRepeat
<1>2. counter' = counter + n /\ issued' = issued \cup run /\ produced' = produced + n
  BY DEF GenerateRandomData, Return, RunOf
<1>3. \A b \in run : b[2] \in Nat /\ b[2] >= counter /\ b[2] < counter + n
  BY <1>1 DEF RunOf
<1>4. \A b \in issued : b[2] \in Nat
  BY DEF IInv, TypeOK
<1>5. IsFiniteSet(run) /\ Cardinality(run) = n
  BY <1>1, BlocksOfRun
<1> HIDE DEF run, n
<1>6. issued \cap run = {}
  BY <1>1, <1>3, <1>4
<1>7. /\ IsFiniteSet(issued \cup run)
      /\ Cardinality(issued \cup run) = Cardinality(issued) + Cardinality(run) - 0
  BY <1>1, <1>5, <1>6, FS_Union, FS_EmptySet
<1>8. \A b \in issued' : b[2] < counter'
  BY <1>1, <1>2, <1>3, <1>4
<1>9. QED
  BY <1>1, <1>2, <1>5, <1>7, <1>8 DEF BlocksBehindCounter, BlocksNeverRepeat

----------------------------------------------------------------------------
(* The invariant is inductive *)

\* A step that returns no block and does not turn the counter back.
LEMMA OtherStepKeepsBlocks ==
    ASSUME IInv, counter' \in Nat, counter' >= counter, UNCHANGED <<issued, produced>>
    PROVE  BlocksBehindCounter' /\ BlocksNeverRepeat'
<1>1. \A b \in issued : b[2] \in Nat
  BY DEF IInv, TypeOK
<1>2. QED
  BY <1>1 DEF IInv, TypeOK, BlocksBehindCounter, BlocksNeverRepeat

LEMMA InitIInv == Init => IInv
<1> SUFFICES ASSUME Init PROVE IInv
  OBVIOUS
<1>1. TypeOK
  BY FortunaAssumption DEF Init, TypeOK
<1>2. BlocksBehindCounter /\ BlocksNeverRepeat
  BY FS_EmptySet DEF Init, BlocksBehindCounter, BlocksNeverRepeat
<1>3. QED
  BY <1>1, <1>2 DEF IInv

LEMMA ArriveIInv ==
    ASSUME IInv, NEW r \in Requests, NEW seeds \in Nat, NEW blocks \in Nat,
           NEW place \in {"generate", "seed", "amplify"}, Arrive(r, place, seeds, blocks)
    PROVE  IInv'
<1>1. TypeOK'
  <2>1. /\ request' \in [Requests -> {"idle", "seed", "amplify", "reseed", "generate"}]
        /\ index' \in [Requests -> Nat] /\ length' \in [Requests -> Nat]
        /\ size' \in [Requests -> Nat]
    BY DEF IInv, TypeOK, Arrive, Goto
  <2>2. \A q \in Requests : index'[q] <= length'[q]
    BY DEF IInv, TypeOK, Arrive
  <2>3. \A q \in Requests : (request'[q] = "reseed") <=> (drained'[q] # {})
    BY DEF IInv, TypeOK, Arrive, Goto
  <2>4. UNCHANGED <<generator, drained, history>>
    BY DEF Arrive
  <2>5. QED
    BY <2>1, <2>2, <2>3, <2>4 DEF IInv, TypeOK, generator, history
<1>2. UNCHANGED <<counter, issued, produced>>
  BY DEF Arrive, generator, history
<1>3. counter' \in Nat /\ counter' >= counter
  BY <1>2 DEF IInv, TypeOK
<1>4. QED
  BY <1>1, <1>2, <1>3, OtherStepKeepsBlocks DEF IInv

LEMMA NextSeedIInv ==
    ASSUME IInv, NEW r \in Requests, NextSeed(r),
           request[r] \in {"seed", "amplify"},
           \/ \E source \in Int : AddRandomEvent(source)
           \/ UNCHANGED <<pools, sampled, trimmed>>
    PROVE  IInv'
<1>1. /\ pools' \in [PoolIndex -> Seq(Samples)]
      /\ \A p \in PoolIndex : Len(pools'[p]) <= MaxPoolSize
      /\ sampled' \in 0 .. MaxSamples
      /\ trimmed' \subseteq Samples
  BY AddRandomEventType DEF IInv, TypeOK
<1>2. UNCHANGED <<key, counter, request, length, size, drained, produced, issued>>
  BY DEF NextSeed
<1>3. TypeOK'
  <2>1. index' \in [Requests -> Nat]
    BY DEF IInv, TypeOK, NextSeed
  <2>2. \A q \in Requests : index'[q] <= length'[q]
    BY DEF IInv, TypeOK, NextSeed
  <2>3. QED
    BY <1>1, <1>2, <2>1, <2>2 DEF IInv, TypeOK
<1>4. counter' \in Nat /\ counter' >= counter
  BY <1>2 DEF IInv, TypeOK
<1>5. QED
  BY <1>2, <1>3, <1>4, OtherStepKeepsBlocks DEF IInv

LEMMA BadSeedIInv ==
    ASSUME IInv, NEW r \in Requests, BadSeed(r)
    PROVE  IInv'
<1>1. /\ request' = [request EXCEPT ![r] = "idle"] /\ request[r] # "reseed"
      /\ UNCHANGED <<generator, index, length, size, drained, history>>
  BY DEF BadSeed, Goto
<1>2. TypeOK'
  BY <1>1 DEF IInv, TypeOK, generator, history
<1>3. counter' \in Nat /\ counter' >= counter /\ UNCHANGED <<issued, produced>>
  BY <1>1 DEF IInv, TypeOK, generator, history
<1>4. QED
  BY <1>2, <1>3, OtherStepKeepsBlocks DEF IInv

LEMMA DrainIInv ==
    ASSUME IInv, NEW r \in Requests, Drain(r)
    PROVE  IInv'
<1> DEFINE all == UNION {SamplesIn(pools[p]) : p \in ToUse}
<1>1. \A p \in ToUse : p \in PoolIndex /\ pools[p] \in Seq(Samples) /\ pools[p] # <<>>
  BY DEF IInv, TypeOK, ToUse
<1>2. \A p \in ToUse : SamplesIn(pools[p]) \subseteq Samples /\ SamplesIn(pools[p]) # {}
  BY <1>1, SamplesInType
<1>3. all \subseteq Samples /\ all # {}
  <2>1. PICK p \in ToUse : TRUE
    BY DEF Drain
  <2>2. SamplesIn(pools[p]) \subseteq all
    OBVIOUS
  <2>3. QED
    BY <1>2, <2>1, <2>2
<1> HIDE DEF all
<1>4. /\ drained' = [drained EXCEPT ![r] = all]
      /\ request' = [request EXCEPT ![r] = "reseed"]
      /\ pools' = [p \in PoolIndex |-> IF p \in ToUse THEN <<>> ELSE pools[p]]
      /\ UNCHANGED <<key, counter, index, length, size, sampled, trimmed, produced, issued>>
  BY DEF Drain, Goto, history, all
<1>5. /\ pools' \in [PoolIndex -> Seq(Samples)]
      /\ \A p \in PoolIndex : Len(pools'[p]) <= MaxPoolSize
  BY <1>4, FortunaAssumption DEF IInv, TypeOK
<1>6. TypeOK'
  BY <1>3, <1>4, <1>5 DEF IInv, TypeOK
<1>7. QED
  BY <1>4, <1>6, OtherStepKeepsBlocks DEF IInv, TypeOK

LEMMA DrainNothingIInv ==
    ASSUME IInv, NEW r \in Requests, DrainNothing(r)
    PROVE  IInv'
<1>1. /\ request' = [request EXCEPT ![r] = "idle"] /\ request[r] # "reseed"
      /\ UNCHANGED <<generator, index, length, size, drained, history>>
  BY DEF DrainNothing, AllSeedsAdded, Goto
<1>2. TypeOK'
  BY <1>1 DEF IInv, TypeOK, generator, history
<1>3. counter' \in Nat /\ counter' >= counter /\ UNCHANGED <<issued, produced>>
  BY <1>1 DEF IInv, TypeOK, generator, history
<1>4. QED
  BY <1>2, <1>3, OtherStepKeepsBlocks DEF IInv

LEMMA ReseedIInv ==
    ASSUME IInv, NEW r \in Requests, Reseed(r)
    PROVE  IInv'
<1>1. key' \in Seq(SUBSET Samples)
  BY DEF IInv, TypeOK, Reseed
<1>2. /\ counter \in Nat /\ counter' = counter + 1
      /\ drained' = [drained EXCEPT ![r] = {}]
      /\ UNCHANGED <<pools, index, length, size, sampled, trimmed, produced, issued>>
  BY DEF IInv, TypeOK, Reseed, history
<1>3. counter' \in Nat /\ counter' >= counter
  BY <1>2
<1>4. TypeOK'
  <2>1. PICK place \in {"idle", "generate"} : request' = [request EXCEPT ![r] = place]
    BY DEF Reseed, Goto
  <2>2. /\ request' \in [Requests -> {"idle", "seed", "amplify", "reseed", "generate"}]
        /\ drained' \in [Requests -> SUBSET Samples]
    BY <1>2, <2>1 DEF IInv, TypeOK
  <2>3. \A q \in Requests : (request'[q] = "reseed") <=> (drained'[q] # {})
    BY <1>2, <2>1 DEF IInv, TypeOK
  <2>4. QED
    BY <1>1, <1>2, <1>3, <2>2, <2>3 DEF IInv, TypeOK
<1>5. QED
  BY <1>2, <1>3, <1>4, OtherStepKeepsBlocks DEF IInv

LEMMA GenerateIInv ==
    ASSUME IInv, NEW r \in Requests, GenerateRandomData(r)
    PROVE  IInv'
<1>1. \A c \in counter .. counter + size[r] - 1 : <<key, c>> \in Seq(SUBSET Samples) \X Nat
  BY DEF IInv, TypeOK
<1>2. issued' \subseteq Seq(SUBSET Samples) \X Nat
  BY <1>1 DEF IInv, TypeOK, GenerateRandomData, Return
<1>3. /\ request' = [request EXCEPT ![r] = "idle"] /\ request[r] = "generate"
      /\ UNCHANGED <<key, pools, index, length, size, drained, sampled, trimmed>>
  BY DEF GenerateRandomData, Return, Goto
<1>4. counter' \in Nat /\ produced' \in Nat
  <2>1. counter \in Nat /\ produced \in Nat /\ size[r] \in Nat
    BY DEF IInv, TypeOK
  <2>2. QED
    BY <2>1 DEF GenerateRandomData, Return
<1>5. TypeOK'
  <2>1. request' \in [Requests -> {"idle", "seed", "amplify", "reseed", "generate"}]
    BY <1>3 DEF IInv, TypeOK
  <2>2. \A q \in Requests : (request'[q] = "reseed") <=> (drained'[q] # {})
    BY <1>3 DEF IInv, TypeOK
  <2>3. QED
    BY <1>2, <1>3, <1>4, <2>1, <2>2 DEF IInv, TypeOK
<1>6. QED
  BY <1>5, GenerateKeepsBlocks DEF IInv

LEMMA NextIInv == IInv /\ [Next]_vars => IInv'
<1> SUFFICES ASSUME IInv, [Next]_vars PROVE IInv'
  OBVIOUS
<1>1. CASE UNCHANGED vars
  BY <1>1 DEF vars, generator, history, IInv, TypeOK, BlocksBehindCounter,
              BlocksNeverRepeat
<1>2. ASSUME NEW r \in Requests,
             GenerateRequest(r) \/ SeedRequest(r) \/ AmplifyRequest(r)
      PROVE  IInv'
  BY <1>2, ArriveIInv, FortunaAssumption
     DEF GenerateRequest, SeedRequest, AmplifyRequest
<1>3. ASSUME NEW r \in Requests, AddSeed(r) PROVE IInv'
  <2>1. index[r] \in Int
    BY DEF IInv, TypeOK
  <2>2. QED
    BY <1>3, <2>1, NextSeedIInv DEF AddSeed
<1>4. ASSUME NEW r \in Requests, AddChunk(r) PROVE IInv'
  <2>1. index[r] * NumberOfPools \in Int
    BY FortunaAssumption DEF IInv, TypeOK
  <2>2. QED
    BY <1>4, <2>1, NextSeedIInv DEF AddChunk
<1>5. ASSUME NEW r \in Requests,
             BadSeed(r) \/ Drain(r) \/ DrainNothing(r) \/ Reseed(r)
      PROVE  IInv'
  BY <1>5, BadSeedIInv, DrainIInv, DrainNothingIInv, ReseedIInv
<1>6. ASSUME NEW r \in Requests, GenerateRandomData(r) PROVE IInv'
  BY <1>6, GenerateIInv
<1>7. QED
  BY <1>1, <1>2, <1>3, <1>4, <1>5, <1>6 DEF Next

----------------------------------------------------------------------------
(* Where the samples are *)

PoolsWith(s) == {p \in PoolIndex : s \in SamplesIn(pools[p])}
CarriersOf(s) == {r \in Requests : s \in drained[r]}
BatchesWith(s) == {n \in DOMAIN key : s \in key[n]}

\* A sample is nowhere, or in exactly one pool, request or batch, or cut.
Nowhere(s) == PoolsWith(s) = {} /\ CarriersOf(s) = {} /\ BatchesWith(s) = {} /\ s \notin trimmed

InOnePool(s) ==
    /\ \E p \in PoolIndex : PoolsWith(s) = {p}
    /\ CarriersOf(s) = {} /\ BatchesWith(s) = {} /\ s \notin trimmed
WithOneRequest(s) ==
    /\ \E r \in Requests : CarriersOf(s) = {r}
    /\ PoolsWith(s) = {} /\ BatchesWith(s) = {} /\ s \notin trimmed
InOneBatch(s) ==
    /\ \E n \in DOMAIN key : BatchesWith(s) = {n}
    /\ PoolsWith(s) = {} /\ CarriersOf(s) = {} /\ s \notin trimmed
Cut(s) == PoolsWith(s) = {} /\ CarriersOf(s) = {} /\ BatchesWith(s) = {} /\ s \in trimmed

Somewhere(s) == InOnePool(s) \/ WithOneRequest(s) \/ InOneBatch(s) \/ Cut(s)

\* EntropyAccounted without its counting: this is what steps preserve.
Located == \A s \in Samples : IF s <= sampled THEN Somewhere(s) ELSE Nowhere(s)

LEMMA CountOfEmpty == Cardinality({}) = 0
BY FS_EmptySet

LEMMA CountOfOne == ASSUME NEW x PROVE Cardinality({x}) = 1
BY FS_Singleton

\* Counting the places of a sample gives 1 if it is somewhere and 0 if not.
LEMMA PlacesCounted ==
    ASSUME NEW s
    PROVE  /\ Nowhere(s) => Places(s) = 0
           /\ Somewhere(s) => Places(s) = 1
<1>1. s \in trimmed => trimmed \cap {s} = {s}
  OBVIOUS
<1>2. s \notin trimmed => trimmed \cap {s} = {}
  OBVIOUS
<1>3. Places(s) = Cardinality(PoolsWith(s)) + Cardinality(CarriersOf(s))
                  + Cardinality(BatchesWith(s)) + Cardinality(trimmed \cap {s})
  BY DEF Places, PoolsWith, CarriersOf, BatchesWith
<1>4. ASSUME Nowhere(s) PROVE Places(s) = 0
  BY <1>2, <1>3, <1>4, CountOfEmpty DEF Nowhere
<1>5. ASSUME InOnePool(s) PROVE Places(s) = 1
  <2>1. Cardinality(PoolsWith(s)) = 1
    BY <1>5, CountOfOne DEF InOnePool
  <2>2. QED
    BY <1>2, <1>3, <1>5, <2>1, CountOfEmpty DEF InOnePool
<1>6. ASSUME WithOneRequest(s) PROVE Places(s) = 1
  <2>1. Cardinality(CarriersOf(s)) = 1
    BY <1>6, CountOfOne DEF WithOneRequest
  <2>2. QED
    BY <1>2, <1>3, <1>6, <2>1, CountOfEmpty DEF WithOneRequest
<1>7. ASSUME InOneBatch(s) PROVE Places(s) = 1
  <2>1. Cardinality(BatchesWith(s)) = 1
    BY <1>7, CountOfOne DEF InOneBatch
  <2>2. QED
    BY <1>2, <1>3, <1>7, <2>1, CountOfEmpty DEF InOneBatch
<1>8. ASSUME Cut(s) PROVE Places(s) = 1
  <2>1. Cardinality(trimmed \cap {s}) = 1
    BY <1>1, <1>8, CountOfOne DEF Cut
  <2>2. QED
    BY <1>3, <1>8, <2>1, CountOfEmpty DEF Cut
<1>9. QED
  BY <1>4, <1>5, <1>6, <1>7, <1>8 DEF Somewhere

LEMMA LocatedIsAccounted == ASSUME TypeOK, Located PROVE EntropyAccounted
BY PlacesCounted DEF Located, EntropyAccounted

LEMMA InitLocated == Init => Located
<1> SUFFICES ASSUME Init, NEW s \in Samples PROVE ~(s <= sampled) /\ Nowhere(s)
  BY DEF Located
<1>1. ~(s <= sampled)
  BY DEF Init, Samples
<1>2. SamplesIn(<<>>) = {}
  BY DEF SamplesIn
<1>3. QED
  BY <1>1, <1>2 DEF Init, Nowhere, PoolsWith, CarriersOf, BatchesWith

\* A step that moves no sample.
LEMMA StillLocated ==
    ASSUME Located, UNCHANGED <<key, pools, drained, sampled, trimmed>>
    PROVE  Located'
BY DEF Located, Nowhere, Somewhere, InOnePool, WithOneRequest, InOneBatch, Cut,
       PoolsWith, CarriersOf, BatchesWith

\* What a pool holds once a sample was appended to it.
LEMMA GrownPool ==
    ASSUME NEW pool \in Seq(Samples), NEW s
    PROVE  SamplesIn(Append(pool, s)) = SamplesIn(pool) \cup {s}
<1>1. \A n \in DOMAIN pool : n \in DOMAIN Append(pool, s) /\ Append(pool, s)[n] = pool[n]
  OBVIOUS
<1>2. /\ Len(pool) + 1 \in DOMAIN Append(pool, s)
      /\ Append(pool, s)[Len(pool) + 1] = s
  OBVIOUS
<1>3. \A n \in DOMAIN Append(pool, s) :
         (n \in DOMAIN pool /\ Append(pool, s)[n] = pool[n]) \/ n = Len(pool) + 1
  OBVIOUS
<1>4. QED
  BY <1>1, <1>2, <1>3 DEF SamplesIn

\* Cutting a pool adds nothing to it.
LEMMA KeptIsPart ==
    ASSUME NEW pool \in Seq(Samples), Len(pool) <= MaxPoolSize + 1
    PROVE  SamplesIn(Kept(pool)) \subseteq SamplesIn(pool)
<1>1. CASE Len(pool) > MaxPoolSize
  <2>1. pool # <<>>
    BY <1>1, FortunaAssumption
  <2>2. \A n \in DOMAIN Tail(pool) : n + 1 \in DOMAIN pool /\ Tail(pool)[n] = pool[n + 1]
    BY <2>1
  <2>3. QED
    BY <1>1, <2>2 DEF Kept, SamplesIn
<1>2. CASE ~(Len(pool) > MaxPoolSize)
  BY <1>2 DEF Kept
<1>3. QED
  BY <1>1, <1>2

LEMMA AddRandomEventLocated ==
    ASSUME TypeOK, Located, NEW source \in Int, AddRandomEvent(source),
           UNCHANGED <<key, drained>>
    PROVE  Located'
<1> DEFINE p == source % NumberOfPools
           new == sampled + 1
           grown == Append(pools[p], new)
           kept == Kept(grown)
<1>1. p \in PoolIndex
  BY PoolOfSource
<1>2. /\ sampled < MaxSamples
      /\ sampled' = new
      /\ pools' = [pools EXCEPT ![p] = kept]
      /\ trimmed' = trimmed \cup (SamplesIn(grown) \ SamplesIn(kept))
  BY DEF AddRandomEvent
<1> HIDE DEF p
<1>3. new \in Samples
  BY <1>2, FortunaAssumption DEF TypeOK, Samples
<1>4. pools \in [PoolIndex -> Seq(Samples)] /\ pools[p] \in Seq(Samples)
      /\ Len(pools[p]) <= MaxPoolSize
  BY <1>1 DEF TypeOK
<1>5. grown \in Seq(Samples) /\ Len(grown) = Len(pools[p]) + 1
  BY <1>3, <1>4
<1>6. Len(grown) <= MaxPoolSize + 1
  BY <1>4, <1>5, FortunaAssumption
<1>7. SamplesIn(grown) = SamplesIn(pools[p]) \cup {new}
  BY <1>3, <1>4, GrownPool
<1>8. SamplesIn(kept) \subseteq SamplesIn(grown)
  BY <1>5, <1>6, KeptIsPart
<1>9. \A q \in PoolIndex : pools'[q] = IF q = p THEN kept ELSE pools[q]
  BY <1>1, <1>2, <1>4
<1> HIDE DEF kept, grown
<1>10. ASSUME NEW s \in Samples
       PROVE  IF s <= sampled' THEN Somewhere(s)' ELSE Nowhere(s)'
  <2>1. CarriersOf(s)' = CarriersOf(s) /\ BatchesWith(s)' = BatchesWith(s)
    BY DEF CarriersOf, BatchesWith
  <2>2. CASE s = new
    <3>1. Nowhere(s)
      BY <2>2 DEF Located, TypeOK
    <3>2. CASE s \in SamplesIn(kept)
      <4>1. PoolsWith(s)' = {p}
        BY <1>1, <1>9, <3>1, <3>2 DEF PoolsWith, Nowhere
      <4>2. s \notin trimmed'
        BY <1>2, <3>1, <3>2 DEF Nowhere
      <4>3. QED
        BY <1>1, <1>2, <2>1, <2>2, <3>1, <4>1, <4>2 DEF Somewhere, InOnePool, Nowhere, TypeOK
    <3>3. CASE s \notin SamplesIn(kept)
      <4>1. PoolsWith(s)' = {}
        BY <1>9, <3>1, <3>3 DEF PoolsWith, Nowhere
      <4>2. s \in trimmed'
        BY <1>2, <1>7, <2>2, <3>3
      <4>3. QED
        BY <1>2, <2>1, <2>2, <3>1, <4>1, <4>2 DEF Somewhere, Cut, Nowhere, TypeOK
    <3>4. QED
      BY <3>2, <3>3
  <2>3. CASE s # new /\ s \in SamplesIn(pools[p])
    <3>1. s <= sampled /\ Somewhere(s) /\ p \in PoolsWith(s)
      BY <1>1, <2>3 DEF Located, Nowhere, PoolsWith
    <3>2. InOnePool(s) /\ PoolsWith(s) = {p}
      BY <3>1 DEF Somewhere, InOnePool, WithOneRequest, InOneBatch, Cut
    <3>3. s \in SamplesIn(grown)
      BY <1>7, <2>3
    <3>4. CASE s \in SamplesIn(kept)
      <4>1. PoolsWith(s)' = {p} /\ s \notin trimmed'
        BY <1>1, <1>2, <1>9, <3>2, <3>4 DEF PoolsWith, InOnePool
      <4>2. QED
        BY <1>1, <1>2, <2>1, <3>1, <3>2, <4>1 DEF Somewhere, InOnePool, TypeOK, Samples
    <3>5. CASE s \notin SamplesIn(kept)
      <4>1. PoolsWith(s)' = {} /\ s \in trimmed'
        BY <1>2, <1>9, <3>2, <3>3, <3>5 DEF PoolsWith
      <4>2. QED
        BY <1>2, <2>1, <3>1, <3>2, <4>1 DEF Somewhere, InOnePool, Cut, TypeOK, Samples
    <3>6. QED
      BY <3>4, <3>5
  <2>4. CASE s # new /\ s \notin SamplesIn(pools[p])
    <3>1. s \notin SamplesIn(grown) /\ s \notin SamplesIn(kept)
      BY <1>7, <1>8, <2>4
    <3>2. PoolsWith(s)' = PoolsWith(s) /\ (s \in trimmed' <=> s \in trimmed)
      BY <1>1, <1>2, <1>9, <2>4, <3>1 DEF PoolsWith
    <3>3. s <= sampled' <=> s <= sampled
      BY <1>2, <2>4 DEF TypeOK, Samples
    <3>4. QED
      BY <2>1, <3>2, <3>3
         DEF Located, Nowhere, Somewhere, InOnePool, WithOneRequest, InOneBatch, Cut
  <2>5. QED
    BY <2>2, <2>3, <2>4
<1>11. QED
  BY <1>10 DEF Located

\* Draining moves the samples of the selected pools to the request.
LEMMA DrainLocated ==
    ASSUME TypeOK, Located, NEW r \in Requests, Drain(r)
    PROVE  Located'
<1>1. /\ drained' = [drained EXCEPT ![r] = UNION {SamplesIn(pools[p]) : p \in ToUse}]
      /\ pools' = [p \in PoolIndex |-> IF p \in ToUse THEN <<>> ELSE pools[p]]
      /\ UNCHANGED <<key, sampled, trimmed>>
      /\ request[r] # "reseed"
  BY DEF Drain, AllSeedsAdded, history
<1>2. drained[r] = {} /\ ToUse \subseteq PoolIndex /\ SamplesIn(<<>>) = {}
  BY <1>1 DEF TypeOK, ToUse, SamplesIn
<1>3. ASSUME NEW s \in Samples
      PROVE  (Somewhere(s) => Somewhere(s)') /\ (Nowhere(s) => Nowhere(s)')
  <2>1. BatchesWith(s)' = BatchesWith(s) /\ (s \in trimmed' <=> s \in trimmed)
    BY <1>1 DEF BatchesWith
  <2>2. PoolsWith(s)' = PoolsWith(s) \ ToUse
    BY <1>1, <1>2 DEF PoolsWith
  <2>3. /\ PoolsWith(s) \cap ToUse # {} => CarriersOf(s)' = CarriersOf(s) \cup {r}
        /\ PoolsWith(s) \cap ToUse = {} => CarriersOf(s)' = CarriersOf(s)
    <3>1. s \in drained'[r] <=> PoolsWith(s) \cap ToUse # {}
      BY <1>1, <1>2 DEF TypeOK, PoolsWith
    <3>2. \A q \in Requests \ {r} : drained'[q] = drained[q]
      BY <1>1 DEF TypeOK
    <3>3. QED
      BY <1>2, <3>1, <3>2 DEF CarriersOf
  <2>4. Nowhere(s) => Nowhere(s)'
    BY <2>1, <2>2, <2>3 DEF Nowhere
  <2>5. InOnePool(s) => InOnePool(s)' \/ WithOneRequest(s)'
    BY <2>1, <2>2, <2>3 DEF InOnePool, WithOneRequest
  <2>6. (WithOneRequest(s) => WithOneRequest(s)') /\ (Cut(s) => Cut(s)')
    BY <2>1, <2>2, <2>3 DEF WithOneRequest, Cut
  <2>7. InOneBatch(s) => InOneBatch(s)'
    BY <1>1, <2>1, <2>2, <2>3 DEF InOneBatch
  <2>8. QED
    BY <2>4, <2>5, <2>6, <2>7 DEF Somewhere
<1>4. QED
  BY <1>1, <1>3 DEF Located

\* A reseed moves what the request carries to a new batch.
LEMMA ReseedLocated ==
    ASSUME TypeOK, Located, NEW r \in Requests, Reseed(r)
    PROVE  Located'
<1>1. /\ drained' = [drained EXCEPT ![r] = {}]
      /\ key' = Append(key, drained[r])
      /\ UNCHANGED <<pools, sampled, trimmed>>
      /\ key \in Seq(SUBSET Samples) /\ drained[r] \in SUBSET Samples
  BY DEF Reseed, history, TypeOK
<1> DEFINE last == Len(key) + 1
<1>2. /\ last \notin DOMAIN key
      /\ DOMAIN key' = DOMAIN key \cup {last}
      /\ key'[last] = drained[r]
      /\ \A n \in DOMAIN key : key'[n] = key[n]
  BY <1>1
<1> HIDE DEF last
<1>3. ASSUME NEW s \in Samples
      PROVE  (Somewhere(s) => Somewhere(s)') /\ (Nowhere(s) => Nowhere(s)')
  <2>1. PoolsWith(s)' = PoolsWith(s) /\ (s \in trimmed' <=> s \in trimmed)
    BY <1>1 DEF PoolsWith
  <2>2. CarriersOf(s)' = CarriersOf(s) \ {r}
    BY <1>1 DEF CarriersOf, TypeOK
  <2>3. /\ r \in CarriersOf(s) => BatchesWith(s)' = BatchesWith(s) \cup {last}
        /\ r \notin CarriersOf(s) => BatchesWith(s)' = BatchesWith(s)
    BY <1>2 DEF BatchesWith, CarriersOf
  <2>4. Nowhere(s) => Nowhere(s)'
    BY <2>1, <2>2, <2>3 DEF Nowhere
  <2>5. WithOneRequest(s) => WithOneRequest(s)' \/ InOneBatch(s)'
    BY <1>2, <2>1, <2>2, <2>3 DEF WithOneRequest, InOneBatch
  <2>6. (InOnePool(s) => InOnePool(s)') /\ (Cut(s) => Cut(s)')
    BY <2>1, <2>2, <2>3 DEF InOnePool, Cut
  <2>7. InOneBatch(s) => InOneBatch(s)'
    BY <1>2, <2>1, <2>2, <2>3 DEF InOneBatch
  <2>8. QED
    BY <2>4, <2>5, <2>6, <2>7 DEF Somewhere
<1>4. QED
  BY <1>1, <1>3 DEF Located

LEMMA NextLocated == TypeOK /\ Located /\ [Next]_vars => Located'
<1> SUFFICES ASSUME TypeOK, Located, [Next]_vars PROVE Located'
  OBVIOUS
<1>1. ASSUME NEW r \in Requests, AddSeed(r) PROVE Located'
  <2>1. index[r] \in Int
    BY DEF TypeOK
  <2>2. UNCHANGED <<key, drained>>
    BY <1>1 DEF AddSeed, NextSeed
  <2>3. QED
    BY <1>1, <2>1, <2>2, AddRandomEventLocated, StillLocated DEF AddSeed
<1>2. ASSUME NEW r \in Requests, AddChunk(r) PROVE Located'
  <2>1. index[r] * NumberOfPools \in Int
    BY FortunaAssumption DEF TypeOK
  <2>2. UNCHANGED <<key, drained>>
    BY <1>2 DEF AddChunk, NextSeed
  <2>3. QED
    BY <1>2, <2>1, <2>2, AddRandomEventLocated DEF AddChunk
<1>3. ASSUME NEW r \in Requests,
             \/ GenerateRequest(r) \/ SeedRequest(r) \/ AmplifyRequest(r)
             \/ BadSeed(r) \/ DrainNothing(r) \/ GenerateRandomData(r)
      PROVE  Located'
  <2>1. UNCHANGED <<key, pools, drained, sampled, trimmed>>
    BY <1>3 DEF GenerateRequest, SeedRequest, AmplifyRequest, Arrive, BadSeed,
                DrainNothing, GenerateRandomData, Return, generator, history
  <2>2. QED
    BY <2>1, StillLocated
<1>4. CASE UNCHANGED vars
  BY <1>4, StillLocated DEF vars, generator, history
<1>5. QED
  BY <1>1, <1>2, <1>3, <1>4, DrainLocated, ReseedLocated DEF Next

----------------------------------------------------------------------------
(* The theorems *)

\* The inductive invariant holds of every behaviour of the generator.
THEOREM Invariance == Spec => []IInv
BY InitIInv, NextIInv, PTL DEF Spec

\* Type correctness: in particular no pool ever holds more than MaxPoolSize,
\* and only requests between draining and reseeding carry samples.
THEOREM TypeCorrectness == Spec => []TypeOK
<1>1. IInv => TypeOK
  BY DEF IInv
<1>2. QED
  BY <1>1, Invariance, PTL

\* No block is returned twice, whatever requests interleave.
THEOREM NoBlockTwice == Spec => []BlocksNeverRepeat
<1>1. IInv => BlocksNeverRepeat
  BY DEF IInv
<1>2. QED
  BY <1>1, Invariance, PTL

\* No sample is lost and none is used twice: however adds, drains and reseeds
\* interleave, each one seeded is in exactly one place.
THEOREM SamplesAccounted == Spec => []EntropyAccounted
<1>1. TypeOK /\ Located /\ [Next]_vars => Located'
  BY NextLocated
<1>2. TypeOK /\ Located => EntropyAccounted
  BY LocatedIsAccounted
<1>3. QED
  BY <1>1, <1>2, InitLocated, TypeCorrectness, PTL DEF Spec

\* The only step that changes the key appends a batch to it.
LEMMA KeyGrows ==
    ASSUME TypeOK, [Next]_vars
    PROVE  KeySamples \subseteq KeySamples'
<1>1. \/ key' = key
      \/ \E r \in Requests : key' = Append(key, drained[r])
  BY DEF vars, generator, history, Next, GenerateRequest, SeedRequest, AmplifyRequest,
         Arrive, AddSeed, NextSeed, AddChunk, BadSeed, Drain, DrainNothing, Reseed,
         GenerateRandomData, Return
<1>2. CASE key' = key
  BY <1>2 DEF KeySamples
<1>3. ASSUME NEW r \in Requests, key' = Append(key, drained[r])
      PROVE  KeySamples \subseteq KeySamples'
  <2>1. key \in Seq(SUBSET Samples) /\ drained[r] \in SUBSET Samples
    BY DEF TypeOK
  <2>2. \A n \in DOMAIN key : n \in DOMAIN key' /\ key'[n] = key[n]
    BY <1>3, <2>1
  <2>3. QED
    BY <2>2 DEF KeySamples
<1>4. QED
  BY <1>1, <1>2, <1>3

\* No sample that has reached the key is forgotten by a later reseed.
THEOREM KeyKeepsSamples == Spec => EntropyKept
<1>1. TypeOK /\ [Next]_vars => [KeySamples \subseteq KeySamples']_vars
  BY KeyGrows
<1>2. QED
  BY <1>1, TypeCorrectness, PTL DEF Spec, EntropyKept
=============================================================================
