-------------------------- MODULE BoltQueueProofs --------------------------
(***************************************************************************)
(* Proofs about BoltQueue, for any number of clients and items, any queue  *)
(* sizes and pages, and any number of crashes: items, flags and counters   *)
(* of the persistent store agree, no item is handed out twice, and what    *)
(* clients see of it is an ItemStore.                                      *)
(***************************************************************************)
EXTENDS BoltQueue, FiniteSetTheorems, FunctionTheorems, TLAPS

\* An identifier that is in use has been drawn, so the next item's is not.
DrawnBefore == \A id \in Stored \cup taken : id < nextID

IInv ==
    /\ TypeOK
    /\ DrawnBefore
    /\ EveryItemAccounted
    /\ ConsumedIsCounted
    /\ ReceivedAtMostOnce
    /\ PollsMatchItems

\* What an action has to show: the invariant, and the step that it is of the
\* abstract store.
Kept == IInv' /\ [Abstract!Next]_(Abstract!vars)

----------------------------------------------------------------------------
(* Counting *)

LEMMA FiniteIDs == ASSUME NEW S \in SUBSET IDs PROVE IsFiniteSet(S) /\ Cardinality(S) \in Nat
<1>1. IsFiniteSet(IDs)
  BY FS_Interval, MaxIDAssumption DEF IDs
<1>2. QED
  BY <1>1, FS_Subset, FS_CardinalityType

\* Items with different keys have different places in a walk.
LEMMA RankIsStrict ==
    ASSUME NEW ids \in SUBSET IDs, NEW a \in ids, NEW b \in ids, a < b
    PROVE  Rank(a, ids) < Rank(b, ids)
<1> DEFINE Before(x) == {other \in ids : other < x}
<1>1. IsFiniteSet(Before(a)) /\ Cardinality(Before(a)) \in Nat
  BY FiniteIDs
<1>2. IsFiniteSet(Before(b)) /\ Cardinality(Before(b)) \in Nat
  BY FiniteIDs
<1>3. a \notin Before(a) /\ Before(a) \cup {a} \subseteq Before(b)
  <2>1. \A x \in ids : x \in Int
    BY DEF IDs
  <2>2. \A x \in ids : x < a => x < b
    BY <2>1
  <2>3. ~(a < a)
    BY <2>1
  <2>4. QED
    BY <2>2, <2>3
<1> HIDE DEF Before
<1>4. Cardinality(Before(a) \cup {a}) = Cardinality(Before(a)) + 1
  BY <1>1, <1>3, FS_AddElement
<1>5. Cardinality(Before(a) \cup {a}) <= Cardinality(Before(b))
  BY <1>2, <1>3, FS_Subset
<1>6. Cardinality(Before(a)) < Cardinality(Before(b))
  BY <1>1, <1>2, <1>4, <1>5
<1>7. QED
  BY <1>6 DEF Before, Rank

\* The keys with the first n places are at most n.
LEMMA FirstPlaces ==
    ASSUME NEW ids \in SUBSET IDs, NEW n \in Nat
    PROVE  Cardinality({id \in ids : Rank(id, ids) < n}) <= n
<1> DEFINE first == {id \in ids : Rank(id, ids) < n}
           place == [id \in first |-> Rank(id, ids)]
<1>1. \A id \in ids : Rank(id, ids) \in Nat
  BY FiniteIDs DEF Rank
<1>2. place \in [first -> 0 .. n - 1]
  BY <1>1
<1>3. \A a, b \in first : place[a] = place[b] => a = b
  <2>1. \A a, b \in ids : a < b => Rank(a, ids) < Rank(b, ids)
    BY RankIsStrict
  <2>2. \A a, b \in ids : a # b => a < b \/ b < a
    BY MaxIDAssumption DEF IDs
  <2>3. QED
    BY <1>1, <2>1, <2>2
<1>4. place \in Injection(first, 0 .. n - 1)
  BY <1>2, <1>3 DEF Injection, IsInjective
<1>5. IsFiniteSet(0 .. n - 1) /\ Cardinality(0 .. n - 1) = n
  BY FS_Interval
<1> HIDE DEF first, place
<1>6. Cardinality(first) <= Cardinality(0 .. n - 1)
  BY <1>4, <1>5, FS_Injection
<1>7. QED
  BY <1>5, <1>6 DEF first

----------------------------------------------------------------------------
(* What each response carries *)

\* The items of the consuming response that c has got and not yet sent.
Carried(c) == IF client[c] # Idle /\ client[c].consume THEN client[c].items ELSE {}

\* ReceivedAtMostOnce in terms of it.
CarriedOnce ==
    /\ \A id \in IDs : received[id] <= 1 /\ (received[id] = 1 => id \in taken)
    /\ \A c \in Clients : \A id \in Carried(c) :
          id \in taken /\ received[id] = 0 /\ \A d \in Clients \ {c} : id \notin Carried(d)

LEMMA ReceivedIsCarried == ReceivedAtMostOnce <=> CarriedOnce
BY DEF ReceivedAtMostOnce, CarriedOnce, Carried

LEMMA ReceivedIsCarriedNext == ReceivedAtMostOnce' <=> CarriedOnce'
BY DEF ReceivedAtMostOnce, CarriedOnce, Carried

LEMMA CarriedType == ASSUME TypeOK, NEW c \in Clients PROVE Carried(c) \subseteq IDs
BY DEF TypeOK, Carried

----------------------------------------------------------------------------
(* Every step keeps the invariant *)

LEMMA InitIInv == Init => IInv /\ Abstract!Init
<1> SUFFICES ASSUME Init PROVE IInv /\ Abstract!Init
  OBVIOUS
<1>1. Stored = {} /\ taken = {}
  BY DEF Init, Stored
<1>2. TypeOK
  BY <1>1, MaxIDAssumption DEF Init, TypeOK, Idle
<1>3. EveryItemAccounted /\ ConsumedIsCounted /\ DrawnBefore /\ PollsMatchItems
  BY <1>1, FS_EmptySet
     DEF Init, EveryItemAccounted, ConsumedIsCounted, DrawnBefore, PollsMatchItems
<1>4. ReceivedAtMostOnce
  BY DEF Init, ReceivedAtMostOnce
<1>5. Abstract!Init
  BY <1>1 DEF Init, Abstract!Init, Unconsumed
<1>6. QED
  BY <1>2, <1>3, <1>4, <1>5 DEF IInv

\* A step that leaves the items and their flags alone.
LEMMA ItemsUnchanged ==
    ASSUME IInv, UNCHANGED <<bucket, nextID, droppedCount, consumedCount, taken>>
    PROVE  /\ DrawnBefore' /\ EveryItemAccounted' /\ ConsumedIsCounted'
           /\ UNCHANGED Abstract!vars
BY DEF IInv, DrawnBefore, EveryItemAccounted, ConsumedIsCounted, Stored, Abstract!vars,
       Unconsumed

\* One that leaves the responses alone.
LEMMA ResponsesUnchanged ==
    ASSUME IInv, UNCHANGED <<client, received>>, taken \subseteq taken'
    PROVE  ReceivedAtMostOnce'
<1>1. CarriedOnce
  BY ReceivedIsCarried DEF IInv
<1>2. \A c : Carried(c)' = Carried(c)
  BY DEF Carried
<1>3. CarriedOnce'
  BY <1>1, <1>2 DEF CarriedOnce
<1>4. QED
  BY <1>3, ReceivedIsCarriedNext

\* The bucket of a Store: the new item is not consumed, and the trim leaves the
\* flags of what it keeps alone.
LEMMA StoreKept == ASSUME IInv, Store PROVE Kept
<1> DEFINE stored == [id \in Stored \cup {nextID} |-> id \in Stored /\ bucket[id]]
           kept == {id \in Stored \cup {nextID} : Rank(id, Stored \cup {nextID}) < queueSize}
<1>1. /\ TypeOK /\ DrawnBefore /\ EveryItemAccounted /\ ConsumedIsCounted
      /\ PollsMatchItems
  BY DEF IInv
<1>2. /\ poller = "wait" /\ nextID < MaxID
      /\ nextID' = nextID + 1 /\ poller' = "count"
      /\ bucket' = Trimmed(stored)
      /\ droppedCount' = droppedCount + Deleted(stored, Trimmed(stored))
      /\ UNCHANGED <<consumedCount, pollingCount, configSize, queueSize, up, resizing,
                     client, uncounted, taken, received>>
  BY DEF Store
<1>3. DOMAIN stored = Stored \cup {nextID}
  OBVIOUS
<1>4. bucket' = [id \in kept |-> stored[id]]
  BY <1>2, <1>3 DEF Trimmed
<1>5. Stored' = kept /\ kept \subseteq Stored \cup {nextID}
  BY <1>4 DEF Stored
<1>6. nextID \in IDs /\ nextID \notin Stored /\ nextID \notin taken /\ nextID' \in 0 .. MaxID
  BY <1>1, <1>2, MaxIDAssumption DEF TypeOK, DrawnBefore, IDs
<1>7. \A id \in kept : bucket'[id] = (id \in Stored /\ bucket[id])
  BY <1>4
<1>8. Stored \cup {nextID} \subseteq IDs /\ kept \subseteq IDs /\ Stored \subseteq IDs
  BY <1>1, <1>5, <1>6 DEF TypeOK
<1>9. DOMAIN Trimmed(stored) = kept
  BY <1>2, <1>5 DEF Stored
<1> HIDE DEF kept, stored
<1>10. /\ IsFiniteSet(Stored) /\ IsFiniteSet(Stored \cup {nextID}) /\ IsFiniteSet(kept)
       /\ Cardinality(Stored) \in Nat /\ Cardinality(kept) \in Nat
       /\ Cardinality(Stored \cup {nextID}) = Cardinality(Stored) + 1
       /\ Cardinality(kept) <= Cardinality(Stored) + 1
  <2>1. /\ IsFiniteSet(Stored) /\ IsFiniteSet(Stored \cup {nextID}) /\ IsFiniteSet(kept)
        /\ Cardinality(Stored) \in Nat /\ Cardinality(kept) \in Nat
    BY <1>8, FiniteIDs
  <2>2. Cardinality(Stored \cup {nextID}) = Cardinality(Stored) + 1
    BY <1>6, <2>1, FS_AddElement
  <2>3. Cardinality(kept) <= Cardinality(Stored \cup {nextID})
    BY <1>5, <2>1, FS_Subset
  <2>4. QED
    BY <2>1, <2>2, <2>3
<1>11. droppedCount' = droppedCount + (Cardinality(Stored) + 1 - Cardinality(kept))
  BY <1>2, <1>3, <1>9, <1>10 DEF Deleted
<1>12. TypeOK'
  <2>1. droppedCount' \in Nat
    BY <1>1, <1>10, <1>11 DEF TypeOK
  <2>2. bucket' \in [Stored' -> BOOLEAN]
    <3>1. bucket' \in [kept -> BOOLEAN]
      <4>1. \A id \in kept : stored[id] \in BOOLEAN
        BY <1>3, <1>5 DEF stored
      <4>2. QED
        BY <1>4, <4>1
    <3>2. QED
      BY <1>5, <3>1
  <2>3. QED
    BY <1>1, <1>2, <1>5, <1>6, <1>8, <2>1, <2>2 DEF TypeOK
<1>13. EveryItemAccounted'
  BY <1>1, <1>2, <1>5, <1>10, <1>11 DEF EveryItemAccounted, TypeOK
<1>14. ConsumedIsCounted'
  BY <1>1, <1>2, <1>5, <1>6, <1>7 DEF ConsumedIsCounted
<1>15. DrawnBefore'
  BY <1>1, <1>2, <1>5, <1>8, <1>6 DEF DrawnBefore, TypeOK, IDs
<1>16. PollsMatchItems'
  BY <1>1, <1>2 DEF PollsMatchItems, TypeOK
<1>17. ReceivedAtMostOnce'
  BY <1>2, ResponsesUnchanged
<1>18. Abstract!Store
  <2>1. Unconsumed' \subseteq Unconsumed \cup {nextID}
    BY <1>5, <1>7 DEF Unconsumed
  <2>2. QED
    BY <1>2, <2>1 DEF Abstract!Store
<1>19. QED
  BY <1>12, <1>13, <1>14, <1>15, <1>16, <1>17, <1>18 DEF Kept, IInv, Abstract!Next

LEMMA CountKept == ASSUME IInv, IncrementPollingCount PROVE Kept
<1>1. TypeOK' /\ PollsMatchItems'
  BY DEF IInv, IncrementPollingCount, TypeOK, PollsMatchItems, Stored
<1>2. DrawnBefore' /\ EveryItemAccounted' /\ ConsumedIsCounted' /\ UNCHANGED Abstract!vars
  BY ItemsUnchanged DEF IncrementPollingCount
<1>3. ReceivedAtMostOnce'
  BY ResponsesUnchanged DEF IncrementPollingCount
<1>4. QED
  BY <1>1, <1>2, <1>3 DEF Kept, IInv

----------------------------------------------------------------------------
(* Requests *)

\* A request that gets nothing to keep: a page that stays readable, or none.
LEMMA ReadKept ==
    ASSUME IInv, NEW c \in Clients, NEW got \in SUBSET IDs, client[c] = Idle,
           client' = [client EXCEPT ![c] =
                         [pc |-> "respond", items |-> got, consume |-> FALSE]],
           UNCHANGED <<bucket, counters, configSize, queueSize, up, poller, resizing,
                       uncounted, taken, received>>
    PROVE  Kept
<1>1. TypeOK'
  BY DEF IInv, TypeOK, counters, Stored
<1>2. DrawnBefore' /\ EveryItemAccounted' /\ ConsumedIsCounted' /\ UNCHANGED Abstract!vars
  BY ItemsUnchanged DEF counters
<1>3. PollsMatchItems'
  BY DEF IInv, PollsMatchItems, counters
<1>4. \A d \in Clients : Carried(d)' = Carried(d)
  BY DEF IInv, TypeOK, Carried
<1>5. CarriedOnce'
  BY <1>4, ReceivedIsCarried DEF IInv, CarriedOnce
<1>6. QED
  BY <1>1, <1>2, <1>3, <1>5, ReceivedIsCarriedNext DEF Kept, IInv

\* A page that is consumed was consumed by nobody before, so no response has it.
LEMMA ConsumeKept ==
    ASSUME IInv, NEW c \in Clients, NEW got \in SUBSET Unconsumed, client[c] = Idle,
           client' = [client EXCEPT ![c] =
                         [pc |-> "respond", items |-> got, consume |-> TRUE]],
           bucket' = Marked(got),
           consumedCount' = consumedCount + Cardinality(got),
           taken' = taken \cup got,
           UNCHANGED <<nextID, droppedCount, pollingCount, configSize, queueSize, up,
                       poller, resizing, uncounted, received>>
    PROVE  Kept
<1>1. /\ TypeOK /\ DrawnBefore /\ EveryItemAccounted /\ ConsumedIsCounted
      /\ CarriedOnce /\ PollsMatchItems
  BY ReceivedIsCarried DEF IInv
<1>2. got \subseteq Stored /\ Stored \subseteq IDs /\ got \subseteq IDs /\ taken \subseteq IDs
  BY <1>1 DEF Unconsumed, TypeOK
<1>3. got \cap taken = {}
  BY <1>1, <1>2 DEF Unconsumed, ConsumedIsCounted
<1>4. /\ Stored' = Stored
      /\ \A id \in Stored : bucket'[id] = (bucket[id] \/ id \in got)
  BY DEF Marked, Stored
<1>5. Cardinality(taken \cup got) = Cardinality(taken) + Cardinality(got)
  <2>1. IsFiniteSet(taken) /\ IsFiniteSet(got) /\ taken \cap got = {}
        /\ Cardinality(taken) \in Nat /\ Cardinality(got) \in Nat
    BY <1>2, <1>3, FiniteIDs
  <2>2. Cardinality(taken \cup got) = Cardinality(taken) + Cardinality(got) - Cardinality({})
    BY <2>1, FS_Union
  <2>3. QED
    BY <2>1, <2>2, FS_EmptySet
<1>6. TypeOK'
  <2>1. consumedCount' \in Nat
    BY <1>1, <1>2, FiniteIDs DEF TypeOK
  <2>2. bucket' \in [Stored' -> BOOLEAN]
    <3>1. \A id \in Stored : (bucket[id] \/ id \in got) \in BOOLEAN
      OBVIOUS
    <3>2. QED
      BY <1>4, <3>1 DEF Marked
  <2>3. QED
    BY <1>1, <1>2, <1>4, <2>1, <2>2 DEF TypeOK
<1>7. DrawnBefore' /\ EveryItemAccounted'
  BY <1>1, <1>2, <1>4 DEF DrawnBefore, EveryItemAccounted
<1>8. ConsumedIsCounted'
  BY <1>1, <1>4, <1>5 DEF ConsumedIsCounted
<1>9. PollsMatchItems'
  BY <1>1 DEF PollsMatchItems
<1>10. CarriedOnce'
  <2>1. Carried(c)' = got /\ \A d \in Clients \ {c} : Carried(d)' = Carried(d)
    BY <1>1 DEF TypeOK, Carried, Idle
  <2>2. \A d \in Clients : Carried(d) \cap got = {}
    BY <1>1, <1>3 DEF CarriedOnce
  <2>3. \A id \in got : received[id] = 0
    BY <1>1, <1>2, <1>3 DEF CarriedOnce, TypeOK
  <2>4. QED
    BY <1>1, <1>2, <2>1, <2>2, <2>3 DEF CarriedOnce
<1>11. Abstract!Take
  <2>1. Unconsumed' = Unconsumed \ got
    BY <1>2, <1>4 DEF Unconsumed
  <2>2. QED
    BY <2>1 DEF Abstract!Take
<1>12. QED
  BY <1>6, <1>7, <1>8, <1>9, <1>10, <1>11, ReceivedIsCarriedNext DEF Kept, IInv, Abstract!Next

LEMMA GetDataKept ==
    ASSUME IInv, NEW c \in Clients, NEW page \in Pages, NEW consume \in BOOLEAN,
           GetData(c, page, consume)
    PROVE  Kept
<1> DEFINE got == Page(page[1], page[2])
<1>1. got \subseteq Unconsumed /\ Unconsumed \subseteq IDs
  BY DEF Page, Unconsumed, IInv, TypeOK
<1> HIDE DEF got
<1>2. CASE consume
  BY <1>1, <1>2, ConsumeKept DEF GetData, got
<1>3. CASE ~consume
  BY <1>1, <1>3, ReadKept DEF GetData, got, counters
<1>4. QED
  BY <1>2, <1>3

LEMMA GetFailsKept == ASSUME IInv, NEW c \in Clients, GetFails(c) PROVE Kept
<1>1. PICK got \in SUBSET IDs : got = {}
  OBVIOUS
<1>2. /\ client[c] = Idle
      /\ client' = [client EXCEPT ![c] = [pc |-> "respond", items |-> got,
                                          consume |-> FALSE]]
      /\ UNCHANGED <<bucket, counters, configSize, queueSize, up, poller, resizing,
                     uncounted, taken, received>>
  BY <1>1 DEF GetFails
<1>3. QED
  BY <1>2, ReadKept

LEMMA RespondKept == ASSUME IInv, NEW c \in Clients, Respond(c) PROVE Kept
<1>1. /\ client[c].pc = "respond" /\ client' = [client EXCEPT ![c] = Idle]
      /\ received' = [id \in IDs |->
             IF client[c].consume /\ id \in client[c].items THEN received[id] + 1
                                                            ELSE received[id]]
      /\ UNCHANGED <<bucket, counters, configSize, queueSize, up, poller, resizing,
                     uncounted, taken>>
      /\ TypeOK /\ CarriedOnce
  BY ReceivedIsCarried DEF Respond, IInv
<1>2. client[c] # Idle
  BY <1>1 DEF Idle
<1>3. \A id \in IDs :
         received'[id] = IF id \in Carried(c) THEN received[id] + 1 ELSE received[id]
  BY <1>1, <1>2 DEF Carried
<1>4. Carried(c)' = {} /\ \A d \in Clients \ {c} : Carried(d)' = Carried(d)
  BY <1>1 DEF TypeOK, Carried
<1>5. TypeOK'
  <2>1. \A id \in IDs : received'[id] \in Nat
    BY <1>1, <1>3 DEF TypeOK
  <2>2. received' \in [IDs -> Nat]
    BY <1>1, <2>1
  <2>3. QED
    BY <1>1, <2>2 DEF TypeOK, counters, Stored
<1>6. DrawnBefore' /\ EveryItemAccounted' /\ ConsumedIsCounted' /\ UNCHANGED Abstract!vars
  BY <1>1, ItemsUnchanged DEF counters
<1>7. PollsMatchItems'
  BY <1>1 DEF IInv, PollsMatchItems, counters
<1>8. CarriedOnce'
  <2>1. \A id \in IDs : received'[id] <= 1 /\ (received'[id] = 1 => id \in taken')
    BY <1>1, <1>3 DEF CarriedOnce, TypeOK
  <2>2. \A d \in Clients : Carried(d) \subseteq IDs
    BY <1>1, CarriedType
  <2>3. QED
    BY <1>1, <1>3, <1>4, <2>1, <2>2 DEF CarriedOnce
<1>9. QED
  BY <1>5, <1>6, <1>7, <1>8, ReceivedIsCarriedNext DEF Kept, IInv

----------------------------------------------------------------------------
(* Resizes and the process *)

LEMMA ResizeKept ==
    ASSUME IInv, NEW n \in Sizes, ResizeMemory(n) \/ ResizeConfig(n) \/ Start(n)
    PROVE  Kept
<1>1. UNCHANGED <<bucket, counters, poller, client, uncounted, taken, received>>
  BY DEF ResizeMemory, ResizeConfig, Start
<1>2. TypeOK'
  BY <1>1 DEF IInv, TypeOK, counters, Stored, ResizeMemory, ResizeConfig, Start
<1>3. DrawnBefore' /\ EveryItemAccounted' /\ ConsumedIsCounted' /\ UNCHANGED Abstract!vars
  BY <1>1, ItemsUnchanged DEF counters
<1>4. PollsMatchItems'
  BY <1>1 DEF IInv, PollsMatchItems, counters
<1>5. ReceivedAtMostOnce'
  BY <1>1, ResponsesUnchanged
<1>6. QED
  BY <1>2, <1>3, <1>4, <1>5 DEF Kept, IInv

\* A crash drops the responses under way: their items stay taken.
LEMMA CrashKept == ASSUME IInv, Crash PROVE Kept
<1>1. /\ UNCHANGED <<bucket, counters, taken, received>>
      /\ client' = [c \in Clients |-> Idle] /\ poller' = "wait"
      /\ uncounted' = uncounted + (IF poller = "count" THEN 1 ELSE 0)
  BY DEF Crash
<1>2. TypeOK'
  <2>1. uncounted' \in Nat
    BY <1>1 DEF IInv, TypeOK
  <2>2. client' \in [Clients -> {Idle} \cup [pc : {"respond"}, items : SUBSET IDs,
                                            consume : BOOLEAN]]
    BY <1>1
  <2>3. UNCHANGED <<configSize, queueSize>> /\ up' = FALSE /\ resizing' = {}
    BY DEF Crash
  <2>4. QED
    BY <1>1, <2>1, <2>2, <2>3 DEF IInv, TypeOK, counters, Stored
<1>3. DrawnBefore' /\ EveryItemAccounted' /\ ConsumedIsCounted' /\ UNCHANGED Abstract!vars
  BY <1>1, ItemsUnchanged DEF counters
<1>4. PollsMatchItems'
  BY <1>1 DEF IInv, TypeOK, PollsMatchItems, counters
<1>5. CarriedOnce'
  <2>1. \A c \in Clients : Carried(c)' = {}
    BY <1>1 DEF Carried
  <2>2. QED
    BY <1>1, <2>1, ReceivedIsCarried DEF CarriedOnce, IInv
<1>6. QED
  BY <1>2, <1>3, <1>4, <1>5, ReceivedIsCarriedNext DEF Kept, IInv

LEMMA NextKept == IInv /\ [Next]_vars => Kept
<1> SUFFICES ASSUME IInv, [Next]_vars PROVE Kept
  OBVIOUS
<1>1. CASE UNCHANGED vars
  <2>1. TypeOK' /\ PollsMatchItems'
    BY <1>1 DEF vars, IInv, TypeOK, PollsMatchItems, Stored
  <2>2. QED
    BY <1>1, <2>1, ItemsUnchanged, ResponsesUnchanged DEF vars, Kept, IInv
<1>2. CASE Next
  BY <1>2, StoreKept, CountKept, GetDataKept, GetFailsKept, RespondKept, ResizeKept, CrashKept
     DEF Next
<1>3. QED
  BY <1>1, <1>2

----------------------------------------------------------------------------
(* The theorems *)

\* The inductive invariant holds of every behaviour of the store.
THEOREM Invariance == Spec => []IInv
<1>1. IInv /\ [Next]_vars => IInv'
  BY NextKept DEF Kept
<1>2. QED
  BY <1>1, InitIInv, PTL DEF Spec

\* Every variable keeps its type through failures, crashes and restarts.
THEOREM TypeCorrectness == Spec => []TypeOK
<1>1. IInv => TypeOK
  BY DEF IInv
<1>2. QED
  BY <1>1, Invariance, PTL

\* Every item ever stored is in the bucket or was counted as dropped.
THEOREM ItemsAddUp == Spec => []EveryItemAccounted
<1>1. IInv => EveryItemAccounted
  BY DEF IInv
<1>2. QED
  BY <1>1, Invariance, PTL

\* The consumed counter and the flags in the bucket agree with what was taken.
THEOREM FlagsAndCounterAgree == Spec => []ConsumedIsCounted
<1>1. IInv => ConsumedIsCounted
  BY DEF IInv
<1>2. QED
  BY <1>1, Invariance, PTL

\* No item is in two consuming responses, whatever crashes in between.
THEOREM HandedOutOnce == Spec => []ReceivedAtMostOnce
<1>1. IInv => ReceivedAtMostOnce
  BY DEF IInv
<1>2. QED
  BY <1>1, Invariance, PTL

\* The polling counter is the number of items stored, less the polls whose count
\* a failure or a crash swallowed.
THEOREM PollsFollowItems == Spec => []PollsMatchItems
<1>1. IInv => PollsMatchItems
  BY DEF IInv
<1>2. QED
  BY <1>1, Invariance, PTL

\* The only step that changes the bucket's items is Store, whose trim leaves no
\* more than the size in force.
LEMMA StepBoundsBucket ==
    ASSUME IInv, [Next]_vars
    PROVE  /\ nextID' # nextID => Cardinality(Stored') <= queueSize
           /\ Stored' # Stored => nextID' # nextID
<1>1. CASE Store
  <2> DEFINE all == Stored \cup {nextID}
  <2>1. /\ nextID' = nextID + 1 /\ nextID \in Int
        /\ all \subseteq IDs /\ queueSize \in Nat
    BY <1>1, MaxIDAssumption, SizesAssumption DEF Store, IInv, TypeOK, IDs
  <2>2. Stored' = {id \in all : Rank(id, all) < queueSize}
    BY <1>1 DEF Store, Trimmed, Stored
  <2> HIDE DEF all
  <2>3. Cardinality(Stored') <= queueSize
    BY <2>1, <2>2, FirstPlaces
  <2>4. QED
    BY <2>1, <2>3
<1>2. ASSUME ~Store PROVE nextID' = nextID /\ Stored' = Stored
  <2>1. ASSUME NEW c \in Clients, NEW page \in Pages, NEW consume \in BOOLEAN,
               GetData(c, page, consume)
        PROVE  nextID' = nextID /\ Stored' = Stored
    BY <2>1 DEF GetData, Marked, Stored
  <2>2. CASE UNCHANGED <<bucket, nextID>>
    BY <2>2 DEF Stored
  <2>3. QED
    BY <1>2, <2>1, <2>2
       DEF Next, vars, counters, IncrementPollingCount, GetFails, Respond, ResizeMemory,
           ResizeConfig, Crash, Start
<1>3. QED
  BY <1>1, <1>2

\* A Store leaves no more items than the size in force, and nothing else
\* removes any.
THEOREM SizeIsEnforced == Spec => StoreBoundsBucket
<1>1. IInv /\ [Next]_vars =>
        [ /\ nextID' # nextID => Cardinality(Stored') <= queueSize
          /\ Stored' # Stored => nextID' # nextID ]_vars
  BY StepBoundsBucket
<1>2. QED
  BY <1>1, Invariance, PTL DEF Spec, StoreBoundsBucket

\* Through failed transactions, resizes, crashes and restarts, this is a store
\* that loses or hands out each item once.
THEOREM ImplementsStore == Spec => RefinesStore
<1>1. IInv /\ [Next]_vars => [Abstract!Next]_(Abstract!vars)
  BY NextKept DEF Kept
<1>2. QED
  BY <1>1, InitIInv, Invariance, PTL DEF Spec, RefinesStore, Abstract!Spec
=============================================================================
