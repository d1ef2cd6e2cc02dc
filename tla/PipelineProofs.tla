-------------------------- MODULE PipelineProofs ---------------------------
(***************************************************************************)
(* Theorems about Pipeline: whatever the three services lose, send again   *)
(* or forget, no sample is both a client's and a seed, and only blocks of  *)
(* the initial key are ever stored twice.                                  *)
(*                                                                         *)
(* Both rest on the same fact: what the chip gives is given once, so a     *)
(* sample is in one place only. A key that has a batch of samples in it is *)
(* then one that no earlier life of the process can have had, because      *)
(* samples that went into a key are nowhere else any more.                 *)
(***************************************************************************)
EXTENDS Pipeline, SequenceTheorems, TLAPS

\* The samples that a seed request still has to bring into the pools, those its
\* handler at the controller has drawn so far included.
Carried == IF call["seeder"] \in {"asked", "answered", "posted"}
           THEN Elements(answer["seeder"])
           ELSE {}

\* The samples that may still get into a key.
Fresh == {x \in 1 .. drawn : \/ \E p \in PoolIndex : x \in pools[p]
                             \/ x \in pending
                             \/ x \in Carried}

ForClients == Elements(answer["trng"]) \cup samples
ForSeeding == Elements(answer["seeder"]) \cup posted

\* A sample is the client's or the generator's, and was drawn.
SamplesApart ==
    /\ ForClients \cup ForSeeding \subseteq 1 .. drawn
    /\ ForClients \cap ForSeeding = {}
    /\ pending \subseteq 1 .. drawn
    /\ \A p \in PoolIndex : pools[p] \subseteq 1 .. drawn

\* A sample on its way to the key is in one place.
FreshApart ==
    /\ \A p, q \in PoolIndex : p # q => pools[p] \cap pools[q] = {}
    /\ \A p \in PoolIndex : pools[p] \cap (pending \cup Carried) = {}
    /\ \A i, j \in DOMAIN answer["seeder"] :
          i # j => answer["seeder"][i] # answer["seeder"][j]

\* A batch of samples that cannot be hashed into a key again.
Spent(batch) == batch # {} /\ batch \subseteq 1 .. drawn /\ batch \cap Fresh = {}

AllBlocks == blocks \cup Elements(answer["fortuna"])

\* The blocks of a key that is not the initial one are of this life's key, with
\* smaller counters, of an earlier and shorter one, or start with samples that
\* are no part of this life's key and never will be.
BlocksAreOld ==
    /\ key # <<>> => Spent(key[1])
    /\ \A b \in AllBlocks : b[1] # <<>> =>
          /\ Spent(b[1][1])
          /\ key # <<>> /\ b[1][1] = key[1] =>
                Len(b[1]) <= Len(key) /\ (b[1] = key => b[2] < counter)
    /\ \A b \in blocks \cap Elements(answer["fortuna"]) : b[1] = <<>>

IInv ==
    /\ TypeOK
    /\ SamplesApart
    /\ FreshApart
    /\ BlocksAreOld
    /\ SeededBlocksNeverRepeat

-----------------------------------------------------------------------------
Places == {"idle", "asked", "answered", "posted", "reseeding", "seeded"}

LEMMA ElementsOf ==
    /\ Elements(<<>>) = {}
    /\ \A S : \A s \in Seq(S) : Elements(s) \subseteq S
<1>1. ASSUME NEW S, NEW s \in Seq(S) PROVE Elements(s) \subseteq S
  BY <1>1 DEF Elements
<1>2. QED
  BY <1>1 DEF Elements

LEMMA Moved ==
    ASSUME IInv, NEW g \in Goroutines, NEW place \in Places, NEW data,
           Move(g, place, data)
    PROVE  /\ call' \in [Goroutines -> Places] /\ call'[g] = place
           /\ \A f \in Goroutines \ {g} : call'[f] = call[f]
           /\ DOMAIN answer' = Goroutines /\ answer'[g] = data
           /\ \A f \in Goroutines \ {g} : answer'[f] = answer[f]
           /\ retries' \in [Goroutines -> 0 .. IdleConnections]
<1>1. 0 \in 0 .. IdleConnections
  BY IdleConnectionsAssumption
<1>2. QED
  BY <1>1 DEF IInv, TypeOK, Move, Places

\* While neither the key nor the blocks change and nothing spent gets fresh again.
LEMMA BlocksKept ==
    ASSUME IInv, UNCHANGED <<blocks, repeated, key>>,
           counter' = counter, drawn' \in Nat, drawn <= drawn',
           \A x \in Fresh' : x \in Fresh \/ x > drawn,
           Elements(answer["fortuna"])' \subseteq Elements(answer["fortuna"])
    PROVE  BlocksAreOld' /\ SeededBlocksNeverRepeat'
<1>1. drawn \in Nat
  BY MaxSamplesAssumption DEF IInv, TypeOK
<1>2. ASSUME NEW batch, Spent(batch) PROVE Spent(batch)'
  <2>1. batch \subseteq 1 .. drawn'
    BY <1>1, <1>2 DEF Spent
  <2>2. ASSUME NEW x \in batch PROVE x \notin Fresh'
    BY <1>1, <1>2 DEF Spent
  <2>3. QED
    BY <1>2, <2>1, <2>2 DEF Spent
<1>3. AllBlocks' \subseteq AllBlocks
  BY DEF AllBlocks
<1>4. QED
  BY <1>2, <1>3 DEF IInv, BlocksAreOld, SeededBlocksNeverRepeat

\* A goroutine that gives up its answer, or keeps it, changes nothing for others.
LEMMA MoveKept ==
    ASSUME IInv, NEW g \in Goroutines, NEW place \in Places \ {"reseeding"},
           NEW data \in {<<>>, answer[g]},
           call' = [call EXCEPT ![g] = place],
           answer' = [answer EXCEPT ![g] = data],
           retries' \in [Goroutines -> 0 .. IdleConnections],
           call[g] # "reseeding",
           place \in {"asked", "answered", "posted"} => data = <<>> \/ call[g] = "answered",
           drawn' \in 0 .. MaxSamples, drawn <= drawn',
           ForClients' \subseteq ForClients, samples' \subseteq 1 .. MaxSamples,
           ForSeeding' \subseteq ForSeeding, posted' \subseteq 1 .. MaxSamples,
           UNCHANGED <<fortuna, blocks, repeated>>
    PROVE  IInv'
<1>1. /\ call' \in [Goroutines -> Places] /\ call'[g] = place
      /\ \A f \in Goroutines \ {g} : call'[f] = call[f]
      /\ DOMAIN answer' = Goroutines /\ answer'[g] = data
      /\ \A f \in Goroutines \ {g} : answer'[f] = answer[f]
      /\ UNCHANGED <<key, counter, pools, pending>>
  BY DEF IInv, TypeOK, Places, fortuna
<1>2. \A f \in Goroutines : answer'[f] = <<>> \/ answer'[f] = answer[f]
  BY <1>1
<1>3. TypeOK'
  <2>1. \A f \in {"trng", "seeder"} : answer'[f] \in Seq(1 .. MaxSamples)
    <3>1. <<>> \in Seq(1 .. MaxSamples)
      OBVIOUS
    <3>2. \A f \in {"trng", "seeder"} : answer[f] \in Seq(1 .. MaxSamples) /\ f \in Goroutines
      BY DEF IInv, TypeOK, Goroutines
    <3>3. QED
      BY <1>2, <3>1, <3>2
  <2>2. answer'["fortuna"] \in Seq(Keys \X Nat)
    <3>1. <<>> \in Seq(Keys \X Nat)
      OBVIOUS
    <3>2. answer["fortuna"] \in Seq(Keys \X Nat) /\ "fortuna" \in Goroutines
      BY DEF IInv, TypeOK, Goroutines
    <3>3. QED
      BY <1>2, <3>1, <3>2
  <2>3. (pending' # {}) <=> (call'["seeder"] = "reseeding")
    BY <1>1 DEF IInv, TypeOK, Goroutines
  <2>4. QED
    BY <1>1, <2>1, <2>2, <2>3 DEF IInv, TypeOK, Places
<1>4. drawn \in Nat /\ drawn' \in Nat /\ 1 .. drawn \subseteq 1 .. drawn'
  BY MaxSamplesAssumption DEF IInv, TypeOK
<1>5. SamplesApart'
  BY <1>1, <1>4 DEF IInv, SamplesApart
<1>6. Carried' \subseteq Carried
  <2>1. CASE answer'["seeder"] = <<>>
    BY <2>1, ElementsOf DEF Carried
  <2>2. CASE g = "seeder" /\ data # <<>>
    <3>1. answer'["seeder"] = answer["seeder"]
      BY <1>1, <2>2
    <3>2. place \in {"asked", "answered", "posted"} => call["seeder"] = "answered"
      BY <2>2
    <3>3. QED
      BY <1>1, <2>2, <3>1, <3>2 DEF Carried
  <2>3. CASE g # "seeder"
    BY <1>1, <2>3 DEF Carried, Goroutines
  <2>4. QED
    BY <1>1, <2>1, <2>2, <2>3
<1>7. FreshApart'
  <2>1. \A p \in PoolIndex : pools'[p] \cap (pending' \cup Carried') = {}
    BY <1>1, <1>6 DEF IInv, FreshApart
  <2>2. \A i, j \in DOMAIN answer'["seeder"] :
          i # j => answer'["seeder"][i] # answer'["seeder"][j]
    <3>1. answer'["seeder"] = <<>> \/ answer'["seeder"] = answer["seeder"]
      BY <1>2 DEF Goroutines
    <3>2. QED
      BY <3>1 DEF IInv, FreshApart
  <2>3. QED
    BY <1>1, <2>1, <2>2 DEF IInv, FreshApart
<1>8. \A x \in Fresh' : x \in Fresh \/ x > drawn
  BY <1>1, <1>4, <1>6 DEF Fresh
<1>9. Elements(answer["fortuna"])' \subseteq Elements(answer["fortuna"])
  BY <1>1, ElementsOf DEF Elements, Goroutines
<1>10. BlocksAreOld' /\ SeededBlocksNeverRepeat'
  BY <1>1, <1>4, <1>8, <1>9, BlocksKept
<1>11. QED
  BY <1>3, <1>5, <1>7, <1>10 DEF IInv

LEMMA InitIInv == Init => IInv
<1> SUFFICES ASSUME Init PROVE IInv
  OBVIOUS
<1>1. /\ <<>> \in Seq(1 .. MaxSamples) /\ <<>> \in Seq(Keys \X Nat) /\ <<>> \in Keys
      /\ Elements(<<>>) = {}
  BY ElementsOf DEF Keys
<1>2. TypeOK
  <2>1. pools \in [PoolIndex -> SUBSET (1 .. MaxSamples)]
    BY DEF Init, EmptyPools
  <2>2. 0 \in 0 .. MaxSamples /\ 0 \in 0 .. IdleConnections
    BY MaxSamplesAssumption, IdleConnectionsAssumption
  <2>3. answer = [g \in Goroutines |-> <<>>]
    BY DEF Init
  <2>4. QED
    BY <1>1, <2>1, <2>2, <2>3 DEF Init, TypeOK, Goroutines
<1>3. SamplesApart
  BY <1>1 DEF Init, SamplesApart, ForClients, ForSeeding, EmptyPools, Goroutines
<1>4. FreshApart
  BY DEF Init, FreshApart, EmptyPools, Goroutines
<1>5. BlocksAreOld /\ SeededBlocksNeverRepeat
  BY <1>1 DEF Init, BlocksAreOld, AllBlocks, SeededBlocksNeverRepeat, Goroutines
<1>6. QED
  BY <1>2, <1>3, <1>4, <1>5 DEF IInv

-----------------------------------------------------------------------------
(* Calls that begin, fail, are sent again, or end *)

LEMMA DrawnIsNat == ASSUME IInv PROVE drawn \in Nat /\ drawn \in 0 .. MaxSamples /\ drawn <= drawn
BY MaxSamplesAssumption DEF IInv, TypeOK

LEMMA MovesKept ==
    ASSUME IInv, NEW g \in Goroutines, Tick(g) \/ Fail(g) \/ Resend(g)
    PROVE  IInv'
<1>1. PICK place \in {"idle", "asked"} :
         /\ call' = [call EXCEPT ![g] = place]
         /\ answer' = [answer EXCEPT ![g] = <<>>]
         /\ retries' \in [Goroutines -> 0 .. IdleConnections]
  <2>1. ASSUME NEW p \in {"idle", "asked"}, Move(g, p, <<>>)
        PROVE  \E place \in {"idle", "asked"} :
                  /\ call' = [call EXCEPT ![g] = place]
                  /\ answer' = [answer EXCEPT ![g] = <<>>]
                  /\ retries' \in [Goroutines -> 0 .. IdleConnections]
    <3>1. retries' \in [Goroutines -> 0 .. IdleConnections]
      BY <2>1, Moved DEF Places
    <3>2. QED
      BY <2>1, <3>1 DEF Move
  <2>2. CASE Resend(g)
    <3>1. retries[g] + 1 \in 0 .. IdleConnections
      BY <2>2, IdleConnectionsAssumption DEF Resend, IInv, TypeOK
    <3>2. retries' \in [Goroutines -> 0 .. IdleConnections]
      BY <2>2, <3>1 DEF Resend, IInv, TypeOK
    <3>3. QED
      BY <2>2, <3>2 DEF Resend
  <2>3. QED
    BY <2>1, <2>2 DEF Tick, Fail
<1>2. /\ call[g] # "reseeding"
      /\ UNCHANGED <<fortuna, samples, blocks, repeated, posted>>
  BY DEF Tick, Fail, Resend, stored
<1>3. drawn' \in 0 .. MaxSamples /\ drawn <= drawn'
  BY DrawnIsNat DEF Tick, Fail, Resend, controller
<1>4. ForClients' \subseteq ForClients /\ ForSeeding' \subseteq ForSeeding
  <2>1. \A f \in Goroutines : answer'[f] = answer[f] \/ answer'[f] = <<>>
    BY <1>1 DEF IInv, TypeOK
  <2>2. QED
    BY <1>2, <2>1, ElementsOf DEF ForClients, ForSeeding, Goroutines
<1>5. samples' \subseteq 1 .. MaxSamples /\ posted' \subseteq 1 .. MaxSamples
  BY <1>2 DEF IInv, TypeOK
<1>6. place \in Places \ {"reseeding"}
  BY <1>1 DEF Places
<1>7. QED
  BY <1>1, <1>2, <1>3, <1>4, <1>5, <1>6, MoveKept

LEMMA StoreSampleKept == ASSUME IInv, StoreSample PROVE IInv'
<1>1. /\ call["trng"] = "answered" /\ Move("trng", "idle", <<>>)
      /\ samples' = samples \cup Elements(answer["trng"])
      /\ UNCHANGED <<drawn, fortuna, blocks, repeated, posted>>
      /\ "trng" \in Goroutines /\ "idle" \in Places \ {"reseeding"}
  BY DEF StoreSample, controller, Goroutines, Places
<1>2. /\ answer'["trng"] = <<>> /\ answer'["seeder"] = answer["seeder"]
      /\ retries' \in [Goroutines -> 0 .. IdleConnections]
  BY <1>1, Moved DEF Goroutines
<1>3. ForClients' \subseteq ForClients /\ ForSeeding' \subseteq ForSeeding
  BY <1>1, <1>2, ElementsOf DEF ForClients, ForSeeding
<1>4. Elements(answer["trng"]) \subseteq 1 .. MaxSamples
  BY ElementsOf DEF IInv, TypeOK
<1>5. samples' \subseteq 1 .. MaxSamples /\ posted' \subseteq 1 .. MaxSamples
  BY <1>1, <1>4 DEF IInv, TypeOK
<1>6. QED
  BY <1>1, <1>2, <1>3, <1>5, DrawnIsNat, MoveKept DEF Move

LEMMA PostSeedsKept == ASSUME IInv, PostSeeds PROVE IInv'
<1>1. /\ call["seeder"] = "answered" /\ Move("seeder", "posted", answer["seeder"])
      /\ posted' = posted \cup Elements(answer["seeder"])
      /\ UNCHANGED <<drawn, fortuna, samples, blocks, repeated>>
      /\ "seeder" \in Goroutines /\ "posted" \in Places \ {"reseeding"}
  BY DEF PostSeeds, controller, Goroutines, Places
<1>2. /\ answer'["trng"] = answer["trng"] /\ answer'["seeder"] = answer["seeder"]
      /\ retries' \in [Goroutines -> 0 .. IdleConnections]
  BY <1>1, Moved DEF Goroutines
<1>3. ForClients' \subseteq ForClients /\ ForSeeding' \subseteq ForSeeding
  BY <1>1, <1>2 DEF ForClients, ForSeeding
<1>4. Elements(answer["seeder"]) \subseteq 1 .. MaxSamples
  BY ElementsOf DEF IInv, TypeOK
<1>5. samples' \subseteq 1 .. MaxSamples /\ posted' \subseteq 1 .. MaxSamples
  BY <1>1, <1>4 DEF IInv, TypeOK
<1>6. QED
  BY <1>1, <1>2, <1>3, <1>5, DrawnIsNat, MoveKept DEF Move

LEMMA EndSeedingKept == ASSUME IInv, EndSeeding PROVE IInv'
<1>1. /\ call["seeder"] = "seeded" /\ Move("seeder", "idle", <<>>)
      /\ UNCHANGED <<drawn, fortuna, samples, blocks, repeated, posted>>
      /\ "seeder" \in Goroutines /\ "idle" \in Places \ {"reseeding"}
  BY DEF EndSeeding, controller, stored, Goroutines, Places
<1>2. /\ answer'["trng"] = answer["trng"] /\ answer'["seeder"] = <<>>
      /\ retries' \in [Goroutines -> 0 .. IdleConnections]
  BY <1>1, Moved DEF Goroutines
<1>3. ForClients' \subseteq ForClients /\ ForSeeding' \subseteq ForSeeding
  BY <1>1, <1>2, ElementsOf DEF ForClients, ForSeeding
<1>4. samples' \subseteq 1 .. MaxSamples /\ posted' \subseteq 1 .. MaxSamples
  BY <1>1 DEF IInv, TypeOK
<1>5. QED
  BY <1>1, <1>2, <1>3, <1>4, DrawnIsNat, MoveKept DEF Move

-----------------------------------------------------------------------------
(* The controller *)

\* What is drawn is new: to the answer, to the clients and to the generator.
LEMMA DrawKept == ASSUME IInv, NEW g \in Goroutines, Draw(g) PROVE IInv'
<1> DEFINE new == drawn + 1
           got == Append(answer[g], new)
<1>1. PICK place \in {"asked", "answered"} :
         /\ g \in {"trng", "seeder"} /\ call[g] = "asked" /\ Move(g, place, got)
         /\ drawn' = new /\ drawn < MaxSamples
         /\ UNCHANGED <<key, counter, pools, pending, samples, blocks, repeated, posted>>
  BY DEF Draw, fortuna, stored
<1>2. /\ drawn \in Nat /\ drawn' \in 0 .. MaxSamples /\ drawn <= drawn'
      /\ new \in 1 .. MaxSamples /\ new \in 1 .. drawn' /\ new > drawn
      /\ new \notin 1 .. drawn /\ 1 .. drawn \subseteq 1 .. drawn'
  BY <1>1, DrawnIsNat, MaxSamplesAssumption
<1> HIDE DEF new, got
<1>3. /\ answer[g] \in Seq(1 .. MaxSamples)
      /\ Elements(answer[g]) \subseteq 1 .. drawn
  BY <1>1 DEF IInv, TypeOK, SamplesApart, ForClients, ForSeeding
<1>4. /\ got \in Seq(1 .. MaxSamples)
      /\ Elements(got) = Elements(answer[g]) \cup {new}
      /\ (\A i, j \in DOMAIN answer[g] : i # j => answer[g][i] # answer[g][j]) =>
            \A i, j \in DOMAIN got : i # j => got[i] # got[j]
  <2> DEFINE old == answer[g]
  <2>1. old \in Seq(1 .. MaxSamples) /\ Len(old) \in Nat /\ new \in 1 .. MaxSamples
    BY <1>2, <1>3
  <2>2. /\ got \in Seq(1 .. MaxSamples) /\ Len(got) = Len(old) + 1
        /\ \A i \in 1 .. Len(old) : got[i] = old[i]
        /\ got[Len(old) + 1] = new
    BY <2>1, AppendProperties DEF got
  <2>3. DOMAIN old = 1 .. Len(old) /\ DOMAIN got = 1 .. Len(old) + 1
    BY <2>1, <2>2
  <2>4. \A i \in 1 .. Len(old) + 1 : i \in 1 .. Len(old) \/ i = Len(old) + 1
    BY <2>1
  <2>5. 1 .. Len(old) \subseteq 1 .. Len(old) + 1 /\ Len(old) + 1 \in 1 .. Len(old) + 1
    BY <2>1
  <2>6. \A i \in DOMAIN old : old[i] # new
    BY <1>2, <1>3 DEF Elements
  <2> HIDE DEF old
  <2>7. Elements(got) = Elements(old) \cup {new}
    BY <2>2, <2>3, <2>4, <2>5 DEF Elements
  <2>8. (\A i, j \in DOMAIN old : i # j => old[i] # old[j]) =>
            \A i, j \in DOMAIN got : i # j => got[i] # got[j]
    BY <2>2, <2>3, <2>4, <2>6
  <2>9. QED
    BY <2>2, <2>7, <2>8 DEF old
<1>5. /\ call' \in [Goroutines -> Places] /\ call'[g] = place
      /\ \A f \in Goroutines \ {g} : call'[f] = call[f]
      /\ DOMAIN answer' = Goroutines /\ answer'[g] = got
      /\ \A f \in Goroutines \ {g} : answer'[f] = answer[f]
      /\ retries' \in [Goroutines -> 0 .. IdleConnections]
  BY <1>1, Moved DEF Places
<1>6. g # "fortuna" /\ Goroutines = {"trng", "fortuna", "seeder"}
  BY <1>1 DEF Goroutines
<1>7. TypeOK'
  <2>1. \A f \in {"trng", "seeder"} : answer'[f] \in Seq(1 .. MaxSamples)
    BY <1>4, <1>5, <1>6 DEF IInv, TypeOK
  <2>2. answer'["fortuna"] = answer["fortuna"]
    BY <1>5, <1>6
  <2>3. (pending' # {}) <=> (call'["seeder"] = "reseeding")
    BY <1>1, <1>5, <1>6 DEF IInv, TypeOK
  <2>4. QED
    BY <1>1, <1>2, <1>5, <2>1, <2>2, <2>3 DEF IInv, TypeOK, Places
<1>8. SamplesApart'
  <2>1. CASE g = "trng"
    <3>1. ForClients' = ForClients \cup {new} /\ ForSeeding' = ForSeeding
      BY <1>1, <1>4, <1>5, <1>6, <2>1 DEF ForClients, ForSeeding
    <3>2. QED
      BY <1>1, <1>2, <3>1 DEF IInv, SamplesApart
  <2>2. CASE g = "seeder"
    <3>1. ForClients' = ForClients /\ ForSeeding' = ForSeeding \cup {new}
      BY <1>1, <1>4, <1>5, <1>6, <2>2 DEF ForClients, ForSeeding
    <3>2. QED
      BY <1>1, <1>2, <3>1 DEF IInv, SamplesApart
  <2>3. QED
    BY <1>1, <2>1, <2>2
<1>9. Carried' = IF g = "seeder" THEN Carried \cup {new} ELSE Carried
  BY <1>1, <1>4, <1>5, <1>6 DEF Carried
<1>10. FreshApart'
  <2>1. \A p \in PoolIndex : pools'[p] \cap (pending' \cup Carried') = {}
    BY <1>1, <1>2, <1>9 DEF IInv, FreshApart, SamplesApart
  <2>2. \A i, j \in DOMAIN answer'["seeder"] :
          i # j => answer'["seeder"][i] # answer'["seeder"][j]
    <3>1. CASE g = "seeder"
      BY <1>4, <1>5, <3>1 DEF IInv, FreshApart
    <3>2. CASE g # "seeder"
      BY <1>5, <1>6, <3>2 DEF IInv, FreshApart
    <3>3. QED
      BY <3>1, <3>2
  <2>3. QED
    BY <1>1, <2>1, <2>2 DEF IInv, FreshApart
<1>11. \A x \in Fresh' : x \in Fresh \/ x > drawn
  <2>1. ASSUME NEW x \in Fresh', x \in 1 .. drawn PROVE x \in Fresh
    BY <1>1, <1>2, <1>9, <2>1 DEF Fresh
  <2>2. ASSUME NEW x \in Fresh', x \notin 1 .. drawn PROVE x > drawn
    BY <1>2, <2>2 DEF Fresh
  <2>3. QED
    BY <2>1, <2>2
<1>12. BlocksAreOld' /\ SeededBlocksNeverRepeat'
  BY <1>1, <1>2, <1>5, <1>6, <1>11, BlocksKept
<1>13. QED
  BY <1>7, <1>8, <1>10, <1>12 DEF IInv

-----------------------------------------------------------------------------
(* The generator *)

LEMMA GenerateKept == ASSUME IInv, Generate PROVE IInv'
<1> DEFINE new == [i \in 1 .. PollBlocks |-> <<key, counter + i - 1>>]
<1>1. /\ call["fortuna"] = "asked" /\ Move("fortuna", "answered", new)
      /\ counter' = counter + PollBlocks
      /\ UNCHANGED <<drawn, key, pools, pending, samples, blocks, repeated, posted>>
      /\ "fortuna" \in Goroutines
  BY DEF Generate, controller, stored, Goroutines
<1>2. counter \in Nat /\ counter' \in Nat /\ counter <= counter' /\ key \in Keys
  BY <1>1, CountsAssumption DEF IInv, TypeOK
<1>3. /\ new \in Seq(Keys \X Nat)
      /\ \A b \in Elements(new) : b[1] = key /\ b[2] \in Nat /\ counter <= b[2] /\ b[2] < counter'
  <2>1. \A i \in 1 .. PollBlocks :
           counter + i - 1 \in Nat /\ counter <= counter + i - 1 /\ counter + i - 1 < counter'
    BY <1>1, <1>2, CountsAssumption
  <2>2. new \in [1 .. PollBlocks -> Keys \X Nat]
    BY <1>2, <2>1
  <2>3. new \in Seq(Keys \X Nat)
    BY <2>2, CountsAssumption
  <2>4. QED
    BY <2>1, <2>3 DEF Elements
<1> HIDE DEF new
<1>4. /\ call' \in [Goroutines -> Places]
      /\ \A f \in Goroutines \ {"fortuna"} : call'[f] = call[f]
      /\ DOMAIN answer' = Goroutines /\ answer'["fortuna"] = new
      /\ \A f \in Goroutines \ {"fortuna"} : answer'[f] = answer[f]
      /\ retries' \in [Goroutines -> 0 .. IdleConnections]
  BY <1>1, Moved DEF Places
<1>5. /\ call'["seeder"] = call["seeder"] /\ answer'["seeder"] = answer["seeder"]
      /\ answer'["trng"] = answer["trng"]
  BY <1>4 DEF Goroutines
<1>6. TypeOK'
  BY <1>1, <1>2, <1>3, <1>4, <1>5 DEF IInv, TypeOK, Places
<1>7. SamplesApart' /\ FreshApart' /\ Fresh' = Fresh
  BY <1>1, <1>5
     DEF IInv, SamplesApart, ForClients, ForSeeding, FreshApart, Carried, Fresh
<1>8. ASSUME NEW batch, Spent(batch) PROVE Spent(batch)'
  BY <1>1, <1>7, <1>8 DEF Spent
<1>9. BlocksAreOld'
  <2>1. key # <<>> => Spent(key[1])
    BY DEF IInv, BlocksAreOld
  <2>2. (key # <<>> => Spent(key[1]))'
    BY <1>1, <1>7, <2>1 DEF Spent
  <2>3. ASSUME NEW b \in AllBlocks, b[1] # <<>>
        PROVE  /\ Spent(b[1][1])'
               /\ key # <<>> /\ b[1][1] = key[1] =>
                     Len(b[1]) <= Len(key) /\ (b[1] = key => b[2] < counter')
    <3>1. b[2] \in Nat
      BY ElementsOf DEF IInv, TypeOK, AllBlocks
    <3>2. /\ Spent(b[1][1])
          /\ key # <<>> /\ b[1][1] = key[1] =>
                Len(b[1]) <= Len(key) /\ (b[1] = key => b[2] < counter)
      BY <2>3 DEF IInv, BlocksAreOld
    <3>3. b[1] = key /\ b[2] < counter => b[2] < counter'
      BY <1>2, <3>1
    <3>4. QED
      BY <1>8, <3>2, <3>3
  <2>4. ASSUME NEW b \in Elements(new), b[1] # <<>>
        PROVE  /\ Spent(b[1][1])'
               /\ key # <<>> /\ b[1][1] = key[1] =>
                     Len(b[1]) <= Len(key) /\ (b[1] = key => b[2] < counter')
    <3>1. Len(key) \in Nat
      BY <1>2 DEF Keys
    <3>2. b[1] = key /\ b[2] < counter'
      BY <1>3
    <3>3. Spent(b[1][1])'
      <4>1. Spent(b[1][1])
        BY <2>1, <2>4, <3>2
      <4>2. QED
        BY <1>1, <1>7, <4>1 DEF Spent
    <3>4. QED
      BY <3>1, <3>2, <3>3
  <2>5. ASSUME NEW b \in blocks, b \in Elements(new) PROVE b[1] = <<>>
    <3>1. SUFFICES ASSUME b[1] # <<>> PROVE FALSE
      OBVIOUS
    <3>2. b[1] = key /\ b[2] \in Nat /\ counter <= b[2]
      BY <1>3, <2>5
    <3>3. b[2] < counter
      BY <3>1, <3>2 DEF IInv, BlocksAreOld, AllBlocks
    <3>4. QED
      BY <1>2, <3>2, <3>3
  <2>6. blocks' = blocks /\ AllBlocks' \subseteq AllBlocks \cup Elements(new)
    BY <1>1, <1>4 DEF AllBlocks
  <2>7. (\A b \in AllBlocks : b[1] # <<>> =>
          /\ Spent(b[1][1])
          /\ key # <<>> /\ b[1][1] = key[1] =>
                Len(b[1]) <= Len(key) /\ (b[1] = key => b[2] < counter))'
    BY <1>1, <2>3, <2>4, <2>6
  <2>8. QED
    BY <1>4, <2>2, <2>5, <2>6, <2>7 DEF BlocksAreOld
<1>10. SeededBlocksNeverRepeat'
  BY <1>1 DEF IInv, SeededBlocksNeverRepeat
<1>11. QED
  BY <1>6, <1>7, <1>9, <1>10 DEF IInv

LEMMA StoreBlocksKept == ASSUME IInv, StoreBlocks PROVE IInv'
<1> DEFINE got == Elements(answer["fortuna"])
<1>1. /\ Move("fortuna", "idle", <<>>)
      /\ blocks' = blocks \cup got
      /\ repeated' = repeated \cup (blocks \cap got)
      /\ UNCHANGED <<drawn, key, counter, pools, pending, samples, posted>>
      /\ "fortuna" \in Goroutines /\ call["fortuna"] = "answered"
  BY DEF StoreBlocks, controller, fortuna, Goroutines
<1>2. /\ call' \in [Goroutines -> Places]
      /\ \A f \in Goroutines \ {"fortuna"} : call'[f] = call[f]
      /\ DOMAIN answer' = Goroutines /\ answer'["fortuna"] = <<>>
      /\ \A f \in Goroutines \ {"fortuna"} : answer'[f] = answer[f]
      /\ retries' \in [Goroutines -> 0 .. IdleConnections]
  BY <1>1, Moved DEF Places
<1>3. /\ call'["seeder"] = call["seeder"] /\ answer'["seeder"] = answer["seeder"]
      /\ answer'["trng"] = answer["trng"]
  BY <1>2 DEF Goroutines
<1>4. TypeOK'
  <2>1. <<>> \in Seq(Keys \X Nat) /\ got \subseteq Keys \X Nat
    BY ElementsOf DEF IInv, TypeOK
  <2>2. QED
    BY <1>1, <1>2, <1>3, <2>1 DEF IInv, TypeOK, Places
<1>5. SamplesApart' /\ FreshApart' /\ Fresh' = Fresh
  BY <1>1, <1>3
     DEF IInv, SamplesApart, ForClients, ForSeeding, FreshApart, Carried, Fresh
<1>6. \A batch : Spent(batch) => Spent(batch)'
  BY <1>1, <1>5 DEF Spent
<1>7. Elements(answer'["fortuna"]) = {} /\ AllBlocks' = AllBlocks
  BY <1>1, <1>2, ElementsOf DEF AllBlocks
<1>8. BlocksAreOld'
  BY <1>1, <1>6, <1>7 DEF IInv, BlocksAreOld
<1>9. SeededBlocksNeverRepeat'
  BY <1>1 DEF IInv, BlocksAreOld, SeededBlocksNeverRepeat
<1>10. QED
  BY <1>4, <1>5, <1>8, <1>9 DEF IInv
-----------------------------------------------------------------------------
(* The seeding *)

\* A sample that is added to the pools goes to one of them.
LEMMA FilledPools ==
    ASSUME IInv, call["seeder"] = "posted"
    PROVE  /\ Filled \in [PoolIndex -> SUBSET (1 .. MaxSamples)]
           /\ \A p \in PoolIndex : Filled[p] \subseteq 1 .. drawn
           /\ \A p \in PoolIndex : Filled[p] \subseteq Fresh
           /\ \A p, q \in PoolIndex : p # q => Filled[p] \cap Filled[q] = {}
<1> DEFINE seeds == answer["seeder"]
           added(p) == {seeds[i] : i \in {j \in DOMAIN seeds : PoolOf(j) = p}}
<1>1. Filled = [p \in PoolIndex |-> pools[p] \cup added(p)]
  BY DEF Filled
<1>2. Carried = Elements(seeds)
  BY DEF Carried
<1>3. \A p : added(p) \subseteq Elements(seeds)
  BY DEF Elements
<1>4. \A i, j \in DOMAIN seeds : i # j => seeds[i] # seeds[j]
  BY DEF IInv, FreshApart
<1>5. \A p, q : p # q => added(p) \cap added(q) = {}
  BY <1>4
<1>6. /\ Elements(seeds) \subseteq 1 .. drawn /\ Elements(seeds) \subseteq 1 .. MaxSamples
      /\ \A p \in PoolIndex : /\ pools[p] \subseteq 1 .. drawn
                              /\ pools[p] \subseteq 1 .. MaxSamples
                              /\ pools[p] \cap Elements(seeds) = {}
      /\ \A p, q \in PoolIndex : p # q => pools[p] \cap pools[q] = {}
  BY <1>2, ElementsOf DEF IInv, TypeOK, SamplesApart, ForSeeding, FreshApart
<1> HIDE DEF added, seeds
<1>7. \A p \in PoolIndex : pools[p] \cup Elements(seeds) \subseteq Fresh
  BY <1>2, <1>6 DEF Fresh
<1>8. \A p \in PoolIndex : Filled[p] = pools[p] \cup added(p)
  BY <1>1
<1>9. \A p, q \in PoolIndex : p # q => Filled[p] \cap Filled[q] = {}
  BY <1>3, <1>5, <1>6, <1>8
<1>10. Filled \in [PoolIndex -> SUBSET (1 .. MaxSamples)]
  <2>1. \A p \in PoolIndex : pools[p] \cup added(p) \in SUBSET (1 .. MaxSamples)
    BY <1>3, <1>6
  <2>2. QED
    BY <1>1, <2>1
<1>11. QED
  BY <1>3, <1>6, <1>7, <1>8, <1>9, <1>10

\* What is drained is in no pool any more.
LEMMA DrainKept == ASSUME IInv, Drain PROVE IInv'
<1>1. /\ call["seeder"] = "posted" /\ Move("seeder", "reseeding", answer["seeder"])
      /\ pending' = UNION {Filled[p] : p \in ToUse}
      /\ pools' = [p \in PoolIndex |-> IF p \in ToUse THEN {} ELSE Filled[p]]
      /\ UNCHANGED <<drawn, key, counter, samples, blocks, repeated, posted>>
      /\ "seeder" \in Goroutines
  BY DEF Drain, controller, stored, Goroutines
<1>2. /\ call' \in [Goroutines -> Places] /\ call'["seeder"] = "reseeding"
      /\ DOMAIN answer' = Goroutines /\ answer'["seeder"] = answer["seeder"]
      /\ answer'["trng"] = answer["trng"] /\ answer'["fortuna"] = answer["fortuna"]
      /\ retries' \in [Goroutines -> 0 .. IdleConnections]
  BY <1>1, Moved DEF Places, Goroutines
<1>3. ToUse \subseteq PoolIndex /\ \A p \in ToUse : Filled[p] # {}
  BY DEF ToUse
<1>4. ToUse # {}
  BY DEF Drain
<1>5. /\ Filled \in [PoolIndex -> SUBSET (1 .. MaxSamples)]
      /\ \A p \in PoolIndex : Filled[p] \subseteq 1 .. drawn
      /\ \A p \in PoolIndex : Filled[p] \subseteq Fresh
      /\ \A p, q \in PoolIndex : p # q => Filled[p] \cap Filled[q] = {}
  BY <1>1, FilledPools
<1>6. /\ pending' # {} /\ pending' \subseteq 1 .. drawn /\ pending' \subseteq Fresh
      /\ \A x \in pending' : \E q \in ToUse : x \in Filled[q]
  <2>1. PICK q \in ToUse : TRUE
    BY <1>4
  <2>2. Filled[q] # {} /\ Filled[q] \subseteq pending'
    BY <1>1, <1>3
  <2>3. QED
    BY <1>1, <1>3, <1>5, <2>2
<1>7. \A p \in PoolIndex : /\ pools'[p] \subseteq Filled[p]
                           /\ pools'[p] \cap pending' = {}
  <2>1. ASSUME NEW p \in PoolIndex, NEW x \in pools'[p] PROVE x \in Filled[p] /\ x \notin pending'
    <3>1. p \notin ToUse /\ x \in Filled[p]
      BY <1>1, <2>1
    <3>2. \A q \in ToUse : x \notin Filled[q]
      BY <1>3, <1>5, <3>1
    <3>3. QED
      BY <1>6, <3>1, <3>2
  <2>2. QED
    BY <2>1
<1>8. TypeOK'
  <2>1. pools' \in [PoolIndex -> SUBSET (1 .. MaxSamples)]
    BY <1>1, <1>5
  <2>2. QED
    BY <1>1, <1>2, <1>6, <2>1 DEF IInv, TypeOK, Places
<1>9. SamplesApart'
  BY <1>1, <1>2, <1>5, <1>6, <1>7 DEF IInv, SamplesApart, ForClients, ForSeeding
<1>10. Carried' = {}
  BY <1>2 DEF Carried
<1>11. FreshApart'
  <2>1. \A p, q \in PoolIndex : p # q => pools'[p] \cap pools'[q] = {}
    BY <1>5, <1>7
  <2>2. QED
    BY <1>2, <1>7, <1>10, <2>1 DEF IInv, FreshApart
<1>12. \A x \in Fresh' : x \in Fresh \/ x > drawn
  BY <1>5, <1>6, <1>7, <1>10 DEF Fresh
<1>13. BlocksAreOld' /\ SeededBlocksNeverRepeat'
  BY <1>1, <1>2, <1>12, DrawnIsNat, BlocksKept
<1>14. QED
  BY <1>8, <1>9, <1>11, <1>13 DEF IInv

LEMMA DrainNothingKept == ASSUME IInv, DrainNothing PROVE IInv'
<1>1. /\ call["seeder"] = "posted" /\ Move("seeder", "idle", <<>>)
      /\ pools' = Filled
      /\ UNCHANGED <<drawn, key, counter, pending, samples, blocks, repeated, posted>>
      /\ "seeder" \in Goroutines
  BY DEF DrainNothing, controller, stored, Goroutines
<1>2. /\ call' \in [Goroutines -> Places] /\ call'["seeder"] = "idle"
      /\ DOMAIN answer' = Goroutines /\ answer'["seeder"] = <<>>
      /\ answer'["trng"] = answer["trng"] /\ answer'["fortuna"] = answer["fortuna"]
      /\ retries' \in [Goroutines -> 0 .. IdleConnections]
  BY <1>1, Moved DEF Places, Goroutines
<1>3. /\ Filled \in [PoolIndex -> SUBSET (1 .. MaxSamples)]
      /\ \A p \in PoolIndex : Filled[p] \subseteq 1 .. drawn
      /\ \A p \in PoolIndex : Filled[p] \subseteq Fresh
      /\ \A p, q \in PoolIndex : p # q => Filled[p] \cap Filled[q] = {}
  BY <1>1, FilledPools
<1>4. pending = {} /\ pending' = {}
  BY <1>1 DEF IInv, TypeOK
<1>5. TypeOK'
  <2>1. <<>> \in Seq(1 .. MaxSamples)
    OBVIOUS
  <2>2. QED
    BY <1>1, <1>2, <1>3, <1>4, <2>1 DEF IInv, TypeOK, Places
<1>6. Elements(answer'["seeder"]) = {} /\ Carried' = {}
  BY <1>2, ElementsOf DEF Carried
<1>7. SamplesApart'
  BY <1>1, <1>2, <1>3, <1>4, <1>6 DEF IInv, SamplesApart, ForClients, ForSeeding
<1>8. FreshApart'
  BY <1>1, <1>2, <1>3, <1>4, <1>6 DEF FreshApart
<1>9. \A x \in Fresh' : x \in Fresh \/ x > drawn
  BY <1>1, <1>3, <1>4, <1>6 DEF Fresh
<1>10. BlocksAreOld' /\ SeededBlocksNeverRepeat'
  BY <1>1, <1>2, <1>9, DrawnIsNat, BlocksKept
<1>11. QED
  BY <1>5, <1>7, <1>8, <1>10 DEF IInv

\* What goes into the key is spent: the key is one that no block comes from.
LEMMA ReseedKept == ASSUME IInv, Reseed PROVE IInv'
<1>1. /\ call["seeder"] = "reseeding" /\ Move("seeder", "seeded", answer["seeder"])
      /\ key' = Append(key, pending) /\ counter' = counter + 1 /\ pending' = {}
      /\ UNCHANGED <<drawn, pools, samples, blocks, repeated, posted>>
      /\ "seeder" \in Goroutines
  BY DEF Reseed, controller, stored, Goroutines
<1>2. /\ call' \in [Goroutines -> Places] /\ call'["seeder"] = "seeded"
      /\ DOMAIN answer' = Goroutines /\ answer'["seeder"] = answer["seeder"]
      /\ answer'["trng"] = answer["trng"] /\ answer'["fortuna"] = answer["fortuna"]
      /\ retries' \in [Goroutines -> 0 .. IdleConnections]
  BY <1>1, Moved DEF Places, Goroutines
<1>3. /\ pending # {} /\ pending \subseteq 1 .. drawn /\ pending \subseteq 1 .. MaxSamples
      /\ pending \subseteq Fresh
  <2>1. pending # {} /\ pending \subseteq 1 .. drawn
    BY <1>1 DEF IInv, TypeOK, SamplesApart
  <2>2. 1 .. drawn \subseteq 1 .. MaxSamples
    BY DrawnIsNat, MaxSamplesAssumption
  <2>3. QED
    BY <2>1, <2>2 DEF Fresh
<1>4. /\ key' \in Keys /\ key' # <<>> /\ Len(key) \in Nat /\ Len(key') = Len(key) + 1
      /\ key = <<>> => key'[1] = pending
      /\ key # <<>> => key'[1] = key[1]
  <2>1. key \in Seq(SUBSET (1 .. MaxSamples)) /\ pending \in SUBSET (1 .. MaxSamples)
    BY <1>3 DEF IInv, TypeOK, Keys
  <2>2. /\ Append(key, pending) \in Seq(SUBSET (1 .. MaxSamples))
        /\ Append(key, pending) # <<>>
        /\ Len(Append(key, pending)) = Len(key) + 1
        /\ \A i \in 1 .. Len(key) : Append(key, pending)[i] = key[i]
        /\ Append(key, pending)[Len(key) + 1] = pending
    BY <2>1, AppendProperties
  <2>3. /\ Len(key) \in Nat /\ key = <<>> => Len(key) = 0
        /\ key # <<>> => 1 \in 1 .. Len(key)
    BY <2>1, EmptySeq
  <2>4. QED
    BY <1>1, <2>2, <2>3 DEF Keys
<1>5. TypeOK'
  <2>1. counter' \in Nat
    BY <1>1 DEF IInv, TypeOK
  <2>2. QED
    BY <1>1, <1>2, <1>4, <2>1 DEF IInv, TypeOK, Places
<1>6. Carried = {} /\ Carried' = {}
  BY <1>1, <1>2 DEF Carried
<1>7. SamplesApart' /\ FreshApart'
  BY <1>1, <1>2, <1>6
     DEF IInv, SamplesApart, ForClients, ForSeeding, FreshApart
<1>8. Fresh' \subseteq Fresh /\ pending \cap Fresh' = {}
  BY <1>1, <1>6 DEF IInv, FreshApart, Fresh
<1>9. BlocksAreOld'
  <2>1. key # <<>> => Spent(key[1])
    BY DEF IInv, BlocksAreOld
  <2>2. (key # <<>> => Spent(key[1]))'
    BY <1>1, <1>3, <1>4, <1>8, <2>1 DEF Spent
  <2>3. ASSUME NEW b \in AllBlocks, b[1] # <<>>
        PROVE  /\ Spent(b[1][1])'
               /\ b[1][1] = key'[1] => Len(b[1]) <= Len(key') /\ b[1] # key'
    <3>1. /\ Spent(b[1][1])
          /\ key # <<>> /\ b[1][1] = key[1] => Len(b[1]) <= Len(key)
      BY <2>3 DEF IInv, BlocksAreOld
    <3>2. Spent(b[1][1])'
      BY <1>1, <1>8, <3>1 DEF Spent
    <3>3. b[1][1] # pending
      BY <1>3, <3>1 DEF Spent
    <3>4. ASSUME b[1][1] = key'[1] PROVE Len(b[1]) <= Len(key') /\ b[1] # key'
      <4>1. Len(b[1]) <= Len(key)
        BY <1>4, <3>1, <3>3, <3>4
      <4>2. b[1] \in Keys
        BY ElementsOf DEF IInv, TypeOK, AllBlocks
      <4>3. Len(b[1]) \in Nat
        BY <4>2 DEF Keys
      <4>4. Len(b[1]) <= Len(key') /\ Len(b[1]) # Len(key')
        BY <1>4, <4>1, <4>3
      <4>5. QED
        BY <4>4
    <3>5. QED
      BY <3>2, <3>4
  <2>4. AllBlocks' = AllBlocks
    BY <1>1, <1>2 DEF AllBlocks
  <2>5. (\A b \in AllBlocks : b[1] # <<>> =>
          /\ Spent(b[1][1])
          /\ key # <<>> /\ b[1][1] = key[1] =>
                Len(b[1]) <= Len(key) /\ (b[1] = key => b[2] < counter))'
    BY <2>3, <2>4
  <2>6. (\A b \in blocks \cap Elements(answer["fortuna"]) : b[1] = <<>>)'
    BY <1>1, <1>2 DEF IInv, BlocksAreOld
  <2>7. QED
    BY <2>2, <2>5, <2>6 DEF BlocksAreOld
<1>10. SeededBlocksNeverRepeat'
  BY <1>1 DEF IInv, SeededBlocksNeverRepeat
<1>11. QED
  BY <1>5, <1>7, <1>9, <1>10 DEF IInv

\* A restart loses samples, it gives none back.
LEMMA FortunaRestartsKept == ASSUME IInv, FortunaRestarts PROVE IInv'
<1>1. /\ key' = <<>> /\ counter' = 0 /\ pools' = EmptyPools /\ pending' = {}
      /\ UNCHANGED <<drawn, samples, blocks, repeated, posted>>
  BY DEF FortunaRestarts, controller, stored
<1>2. /\ call' \in [Goroutines -> Places] /\ call'["seeder"] # "reseeding"
      /\ DOMAIN answer' = Goroutines
      /\ \/ answer'["seeder"] = <<>> /\ call'["seeder"] = "idle"
         \/ answer'["seeder"] = answer["seeder"] /\ call'["seeder"] = call["seeder"]
      /\ answer'["trng"] = answer["trng"] /\ answer'["fortuna"] = answer["fortuna"]
      /\ retries' \in [Goroutines -> 0 .. IdleConnections]
  <2>1. CASE call["seeder"] = "reseeding"
    <3>1. Move("seeder", "idle", <<>>) /\ "seeder" \in Goroutines
      BY <2>1 DEF FortunaRestarts, Goroutines
    <3>2. QED
      BY <3>1, Moved DEF Places, Goroutines
  <2>2. CASE call["seeder"] # "reseeding"
    <3>1. UNCHANGED calls
      BY <2>2 DEF FortunaRestarts
    <3>2. QED
      BY <2>2, <3>1 DEF calls, IInv, TypeOK, Places
  <2>3. QED
    BY <2>1, <2>2
<1>3. \A p \in PoolIndex : pools'[p] = {}
  BY <1>1 DEF EmptyPools
<1>4. TypeOK'
  <2>1. pools' \in [PoolIndex -> SUBSET (1 .. MaxSamples)]
    BY <1>1 DEF EmptyPools
  <2>2. <<>> \in Seq(1 .. MaxSamples) /\ <<>> \in Keys
    BY DEF Keys
  <2>3. QED
    BY <1>1, <1>2, <2>1, <2>2 DEF IInv, TypeOK, Places
<1>5. /\ Elements(answer'["seeder"]) \subseteq Elements(answer["seeder"])
      /\ Carried' \subseteq Carried
  BY <1>2, ElementsOf DEF Carried
<1>6. SamplesApart'
  BY <1>1, <1>2, <1>3, <1>5 DEF IInv, SamplesApart, ForClients, ForSeeding
<1>7. FreshApart'
  BY <1>2, <1>3 DEF IInv, FreshApart
<1>8. Fresh' \subseteq Fresh
  BY <1>1, <1>3, <1>5 DEF Fresh
<1>9. BlocksAreOld'
  <2>1. ASSUME NEW b \in AllBlocks, b[1] # <<>> PROVE Spent(b[1][1])'
    <3>1. Spent(b[1][1])
      BY <2>1 DEF IInv, BlocksAreOld
    <3>2. QED
      BY <1>1, <1>8, <3>1 DEF Spent
  <2>2. AllBlocks' = AllBlocks
    BY <1>1, <1>2 DEF AllBlocks
  <2>3. (\A b \in AllBlocks : b[1] # <<>> =>
          /\ Spent(b[1][1])
          /\ key # <<>> /\ b[1][1] = key[1] =>
                Len(b[1]) <= Len(key) /\ (b[1] = key => b[2] < counter))'
    BY <1>1, <2>1, <2>2
  <2>4. (\A b \in blocks \cap Elements(answer["fortuna"]) : b[1] = <<>>)'
    BY <1>1, <1>2 DEF IInv, BlocksAreOld
  <2>5. QED
    BY <1>1, <2>3, <2>4 DEF BlocksAreOld
<1>10. SeededBlocksNeverRepeat'
  BY <1>1 DEF IInv, SeededBlocksNeverRepeat
<1>11. QED
  BY <1>4, <1>6, <1>7, <1>9, <1>10 DEF IInv

-----------------------------------------------------------------------------
LEMMA NextKept == ASSUME IInv, [Next]_vars PROVE IInv'
<1>1. ASSUME NEW g \in Goroutines, Tick(g) \/ Resend(g) \/ Progress(g) PROVE IInv'
  <2>1. CASE Tick(g) \/ Fail(g) \/ Resend(g)
    BY <2>1, MovesKept
  <2>2. CASE Draw(g)
    BY <2>2, DrawKept
  <2>3. CASE StoreSample
    BY <2>3, StoreSampleKept
  <2>4. CASE Generate \/ StoreBlocks
    BY <2>4, GenerateKept, StoreBlocksKept
  <2>5. CASE PostSeeds \/ EndSeeding
    BY <2>5, PostSeedsKept, EndSeedingKept
  <2>6. CASE Drain \/ DrainNothing \/ Reseed
    BY <2>6, DrainKept, DrainNothingKept, ReseedKept
  <2>7. QED
    BY <1>1, <2>1, <2>2, <2>3, <2>4, <2>5, <2>6 DEF Progress
<1>2. CASE FortunaRestarts
  BY <1>2, FortunaRestartsKept
<1>3. CASE UNCHANGED vars
  BY <1>3
     DEF vars, controller, fortuna, calls, stored, IInv, TypeOK, SamplesApart, ForClients,
         ForSeeding, FreshApart, Carried, Fresh, Spent, AllBlocks, BlocksAreOld,
         SeededBlocksNeverRepeat
<1>4. QED
  BY <1>1, <1>2, <1>3 DEF Next

\* The inductive invariant holds in every reachable state.
THEOREM Invariance == Spec => []IInv
<1>1. Init => IInv
  BY InitIInv
<1>2. IInv /\ [Next]_vars => IInv'
  BY NextKept
<1>3. QED
  BY <1>1, <1>2, PTL DEF Spec

\* Every variable has its type, and drained samples are held exactly while a
\* seed request is between its two critical sections.
THEOREM TypeCorrectness == Spec => []TypeOK
<1>1. IInv => TypeOK
  BY DEF IInv
<1>2. QED
  BY <1>1, Invariance, PTL

\* Through any loss, repetition or restart, no sample that is posted as a seed
\* is ever stored for clients as well.
THEOREM SeedsStaySecret == Spec => []SeedsAreSecret
<1>1. IInv => SeedsAreSecret
  BY DEF IInv, SamplesApart, ForClients, ForSeeding, SeedsAreSecret
<1>2. QED
  BY <1>1, Invariance, PTL

\* Once a batch of samples is in the key, no block of it has been stored before,
\* in this life of the process or in an earlier one.
THEOREM SeededBlocksAreNew == Spec => []SeededBlocksNeverRepeat
<1>1. IInv => SeededBlocksNeverRepeat
  BY DEF IInv
<1>2. QED
  BY <1>1, Invariance, PTL
=============================================================================
