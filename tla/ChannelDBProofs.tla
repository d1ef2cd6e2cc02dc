-------------------------- MODULE ChannelDBProofs --------------------------
(***************************************************************************)
(* Theorems about ChannelDB: the in-memory store under every interleaving  *)
(* of its poller, its requests and its status reader.                      *)
(*                                                                         *)
(* What has to be carried along is who holds q.mu and what it protects     *)
(* then: the poller has made room that nobody fills, and a request that    *)
(* takes items has in its reply exactly those that came before the head.   *)
(***************************************************************************)
EXTENDS ChannelDB, SequenceTheorems, TLAPS

\* The identifier of the item that Push writes next.
NextWritten == IF poller \in {"push", "write"} THEN nextID - 1 ELSE nextID

LockIsHeld ==
    /\ poller = "write" <=> mu = "poller"
    /\ \A c \in Clients : client[c].pc = "take" <=> mu = c

RoomIsMade == poller = "write" => Len(queue) < Capacity

\* The queue is the run of identifiers that ends before NextWritten.
QueueIsRun ==
    /\ Len(queue) <= NextWritten
    /\ \A i \in 1..Len(queue) : queue[i] = NextWritten - Len(queue) + i - 1

\* The identifier at the head, or of the next item if the queue is empty.
HeadID == NextWritten - Len(queue)

TakenBeforeQueue ==
    /\ \A i \in 1..Len(taken) : taken[i] < HeadID
    /\ \A i, j \in 1..Len(taken) : i < j => taken[i] < taken[j]

\* A request that takes items finds as many as it still wants, and has so far
\* the run that ends before the head.
TakesInOrder ==
    \A c \in Clients : client[c].pc = "take" =>
        /\ client[c].skip + client[c].left <= Len(queue)
        /\ client[c].skip > 0 => Len(client[c].reply) = 0
        /\ \A i \in 1..Len(client[c].reply) :
              client[c].reply[i] = HeadID - Len(client[c].reply) + i - 1

CountersAddUp ==
    /\ total = dropped + consumed + Len(queue)
    /\ polling + (IF poller = "count" THEN 1 ELSE 0) <= total

\* What the status reader has loaded was true when it was loaded, and the
\* counters only grow.
LoadsAreOld ==
    /\ Len(status) >= 2 => status[2] <= total
    /\ Len(status) >= 3 => status[3] <= dropped
    /\ Len(status) >= 4 => status[4] <= consumed
    /\ Len(status) >= 5 => /\ status[2] <= status[5]
                           /\ status[3] + status[4] <= status[5]

IInv ==
    /\ TypeOK
    /\ LockIsHeld
    /\ RoomIsMade
    /\ QueueIsRun
    /\ TakenBeforeQueue
    /\ TakesInOrder
    /\ PagesAreRuns
    /\ CountersAddUp
    /\ LoadsAreOld

\* What an action has to show: the invariant, and the step that it is of the
\* abstract store.
Kept == IInv' /\ [Store!Next]_(Store!vars)

-----------------------------------------------------------------------------
(* The queue *)

\* The items that can be read.
Queued == {queue[i] : i \in DOMAIN queue}

\* What leaves the queue and the requests alone, disturbs nothing of theirs.
LEMMA QueueKept ==
    ASSUME IInv, UNCHANGED <<queue, client, mu, taken>>, NextWritten' = NextWritten,
           poller' = "write" <=> poller = "write"
    PROVE  /\ LockIsHeld' /\ RoomIsMade' /\ QueueIsRun' /\ TakenBeforeQueue'
           /\ TakesInOrder' /\ PagesAreRuns'
           /\ UNCHANGED Store!vars
<1>1. LockIsHeld' /\ RoomIsMade' /\ QueueIsRun' /\ TakesInOrder' /\ PagesAreRuns'
  BY DEF IInv, LockIsHeld, RoomIsMade, QueueIsRun, TakesInOrder, PagesAreRuns, HeadID
<1>2. TakenBeforeQueue'
  BY DEF IInv, TakenBeforeQueue, HeadID
<1>3. UNCHANGED Store!vars
  BY DEF Store!vars, NextWritten
<1>4. QED
  BY <1>1, <1>2, <1>3

\* The item at the head is the oldest one, and without it the queue is a run
\* still.
LEMMA HeadRemoved ==
    ASSUME IInv, Len(queue) > 0, RemoveHead, NextWritten' = NextWritten
    PROVE  /\ queue' \in Seq(IDs) /\ Len(queue') = Len(queue) - 1
           /\ Head(queue) \in IDs /\ Head(queue) = HeadID /\ HeadID \in Int
           /\ HeadID' = HeadID + 1
           /\ QueueIsRun'
           /\ Head(queue) \in Queued /\ Queued' = Queued \ {Head(queue)}
<1>1. /\ queue \in Seq(IDs) /\ queue # <<>> /\ Len(queue) \in Nat
      /\ nextID \in Int /\ NextWritten \in Int
  BY MaxItemsAssumption DEF IInv, TypeOK, NextWritten
<1>2. /\ Head(queue) \in IDs
      /\ queue' \in Seq(IDs) /\ Len(queue') = Len(queue) - 1
      /\ \A i \in 1..Len(queue') : queue'[i] = queue[i + 1]
  BY <1>1, HeadTailProperties DEF RemoveHead
<1>3. Head(queue) = queue[1]
  BY <1>1
<1>4. \A i \in 1..Len(queue) : queue[i] = NextWritten - Len(queue) + i - 1
  BY DEF IInv, QueueIsRun
<1>5. Head(queue) = HeadID /\ HeadID \in Int
  BY <1>1, <1>3, <1>4 DEF HeadID
<1>6. HeadID' = HeadID + 1
  BY <1>1, <1>2 DEF HeadID
<1>7. QueueIsRun'
  BY <1>1, <1>2, <1>4 DEF QueueIsRun, IInv
<1>8. Head(queue) \in Queued
  BY <1>1, <1>3 DEF Queued
<1>9. Queued' = Queued \ {Head(queue)}
  <2>1. DOMAIN queue = 1..Len(queue) /\ DOMAIN queue' = 1..(Len(queue) - 1)
    BY <1>1, <1>2
  <2>2. ASSUME NEW x \in Queued' PROVE x \in Queued /\ x # Head(queue)
    <3>1. PICK i \in 1..(Len(queue) - 1) : x = queue[i + 1]
      BY <1>2, <2>1 DEF Queued
    <3>2. i + 1 \in 1..Len(queue) /\ queue[i + 1] # queue[1]
      BY <1>1, <1>4
    <3>3. QED
      BY <1>3, <2>1, <3>1, <3>2 DEF Queued
  <2>3. ASSUME NEW x \in Queued, x # Head(queue) PROVE x \in Queued'
    <3>1. PICK i \in 1..Len(queue) : x = queue[i]
      BY <2>1 DEF Queued
    <3>2. i - 1 \in 1..(Len(queue) - 1) /\ queue'[i - 1] = queue[(i - 1) + 1]
      BY <1>1, <1>2, <1>3, <2>3, <3>1
    <3>3. (i - 1) + 1 = i
      OBVIOUS
    <3>4. QED
      BY <2>1, <3>1, <3>2, <3>3 DEF Queued
  <2>4. QED
    BY <2>2, <2>3
<1>10. QED
  BY <1>2, <1>5, <1>6, <1>7, <1>8, <1>9

\* What was taken stays in order while nothing is taken and the head moves on.
LEMMA TakenKept ==
    ASSUME IInv, UNCHANGED taken, HeadID' \in {HeadID, HeadID + 1}
    PROVE  TakenBeforeQueue'
<1>1. HeadID \in Int /\ HeadID' \in Int /\ HeadID <= HeadID'
  BY MaxItemsAssumption DEF IInv, TypeOK, HeadID, NextWritten
<1>2. ASSUME NEW i \in 1..Len(taken) PROVE taken[i] < HeadID'
  <2>1. taken[i] \in Int
    <3>1. taken \in Seq(IDs) /\ IDs \subseteq Int
      BY MaxItemsAssumption DEF IInv, TypeOK, IDs
    <3>2. QED
      BY <3>1, ElementOfSeq
  <2>2. taken[i] < HeadID
    BY DEF IInv, TakenBeforeQueue
  <2>3. QED
    BY <1>1, <2>1, <2>2
<1>3. QED
  BY <1>2 DEF IInv, TakenBeforeQueue

\* What was loaded stays plausible while the counters grow.
LEMMA LoadsKept ==
    ASSUME IInv, UNCHANGED status, total' \in {total, total + 1},
           dropped' \in {dropped, dropped + 1}, consumed' \in {consumed, consumed + 1}
    PROVE  LoadsAreOld'
<1>1. /\ total \in Nat /\ dropped \in Nat /\ consumed \in Nat
      /\ Len(status) \in Nat
  BY DEF IInv, TypeOK
<1>2. \A i \in 1..Len(status) : status[i] \in Nat
  BY ElementOfSeq DEF IInv, TypeOK
<1>3. /\ Len(status) >= 2 => status[2] \in Nat
      /\ Len(status) >= 3 => status[3] \in Nat
      /\ Len(status) >= 4 => status[4] \in Nat
  BY <1>1, <1>2
<1>4. LoadsAreOld
  BY DEF IInv
<1>5. QED
  BY <1>1, <1>3, <1>4 DEF LoadsAreOld

-----------------------------------------------------------------------------
LEMMA InitIInv == Init => IInv /\ Store!Init
<1> SUFFICES ASSUME Init PROVE IInv /\ Store!Init
  OBVIOUS
<1>1. <<>> \in Seq(IDs) /\ <<>> \in Seq(Nat) /\ Len(<<>>) = 0
  OBVIOUS
<1>2. TypeOK
  BY <1>1, CapacityAssumption, MaxItemsAssumption DEF Init, TypeOK, Requests, LoadOrder
<1>3. LockIsHeld /\ RoomIsMade /\ TakesInOrder /\ PagesAreRuns
  BY ClientsAssumption DEF Init, LockIsHeld, RoomIsMade, TakesInOrder, PagesAreRuns, NoRequest
<1>4. QueueIsRun /\ TakenBeforeQueue /\ CountersAddUp /\ LoadsAreOld
  BY <1>1 DEF Init, QueueIsRun, TakenBeforeQueue, CountersAddUp, LoadsAreOld, NextWritten
<1>5. Store!Init
  BY <1>1 DEF Init, Store!Init
<1>6. QED
  BY <1>2, <1>3, <1>4, <1>5 DEF IInv

-----------------------------------------------------------------------------
(* The poller *)

LEMMA DrawIDKept == ASSUME IInv, DrawID PROVE Kept
<1>1. TypeOK'
  BY MaxItemsAssumption DEF DrawID, IInv, TypeOK, counters
<1>2. NextWritten' = NextWritten /\ poller' = "push" /\ poller = "wait"
  BY DEF DrawID, NextWritten, IInv, TypeOK
<1>3. CountersAddUp' /\ LoadsAreOld'
  BY <1>2 DEF DrawID, IInv, CountersAddUp, LoadsAreOld, counters
<1>4. QED
  BY <1>1, <1>2, <1>3, QueueKept DEF DrawID, Kept, IInv

LEMMA PushMakesRoomKept == ASSUME IInv, PushMakesRoom PROVE Kept
<1>1. /\ poller = "push" /\ poller' = "write" /\ mu = "free" /\ mu' = "poller"
      /\ UNCHANGED <<nextID, consumed, total, polling, consumeMode, client, taken, status>>
      /\ NextWritten' = NextWritten
  BY DEF PushMakesRoom, Unlocked, NextWritten
<1>2. \A c \in Clients : client[c].pc # "take" /\ mu' # c
  BY <1>1, ClientsAssumption DEF IInv, LockIsHeld
<1>3. LockIsHeld' /\ TakesInOrder' /\ PagesAreRuns'
  BY <1>1, <1>2 DEF IInv, LockIsHeld, TakesInOrder, PagesAreRuns
<1>4. CASE Full
  <2>1. Len(queue) > 0 /\ Len(queue) = Capacity /\ RemoveHead /\ dropped' = dropped + 1
    BY <1>4, CapacityAssumption DEF Full, PushMakesRoom
  <2>2. TypeOK' /\ RoomIsMade'
    BY <1>1, <2>1, CapacityAssumption, HeadRemoved DEF IInv, TypeOK, RoomIsMade
  <2>3. TakenBeforeQueue' /\ LoadsAreOld'
    BY <1>1, <2>1, HeadRemoved, TakenKept, LoadsKept
  <2>4. CountersAddUp'
    <3>1. Len(queue') = Len(queue) - 1
      BY <1>1, <2>1, HeadRemoved
    <3>2. QED
      BY <1>1, <2>1, <3>1 DEF IInv, TypeOK, CountersAddUp
  <2>5. Store!Lose
    BY <1>1, <2>1, HeadRemoved DEF Store!Lose, Queued, NextWritten
  <2>6. QED
    BY <1>1, <1>3, <2>1, <2>2, <2>3, <2>4, <2>5, HeadRemoved DEF Kept, IInv, Store!Next
<1>5. CASE ~Full
  <2>1. UNCHANGED <<dropped, queue>> /\ Len(queue) < Capacity
    BY <1>5, CapacityAssumption DEF Full, PushMakesRoom, IInv, TypeOK
  <2>2. TypeOK' /\ RoomIsMade' /\ CountersAddUp' /\ LoadsAreOld'
    BY <1>1, <2>1 DEF IInv, TypeOK, RoomIsMade, CountersAddUp, LoadsAreOld
  <2>3. QueueIsRun' /\ TakenBeforeQueue'
    BY <1>1, <2>1 DEF IInv, QueueIsRun, TakenBeforeQueue, HeadID
  <2>4. UNCHANGED Store!vars
    BY <1>1, <2>1 DEF Store!vars, NextWritten
  <2>5. QED
    BY <1>3, <2>2, <2>3, <2>4 DEF Kept, IInv
<1>6. QED
  BY <1>4, <1>5

LEMMA PushWritesKept == ASSUME IInv, PushWrites PROVE Kept
<1>1. /\ poller = "write" /\ poller' = "count" /\ mu = "poller" /\ mu' = "free"
      /\ queue' = Append(queue, NextWritten) /\ total' = total + 1
      /\ UNCHANGED <<nextID, dropped, consumed, polling, consumeMode, client, taken, status>>
      /\ NextWritten' = NextWritten + 1 /\ NextWritten \in IDs
      /\ Len(queue) < Capacity
  BY MaxItemsAssumption
     DEF PushWrites, NextWritten, IInv, TypeOK, LockIsHeld, RoomIsMade, IDs, QueueIsRun
<1>2. /\ queue \in Seq(IDs) /\ Len(queue) \in Nat
      /\ queue' \in Seq(IDs) /\ Len(queue') = Len(queue) + 1
      /\ \A i \in 1..Len(queue) : queue'[i] = queue[i]
      /\ queue'[Len(queue) + 1] = NextWritten
  BY <1>1, AppendProperties DEF IInv, TypeOK
<1>3. TypeOK'
  BY <1>1, <1>2, CapacityAssumption DEF IInv, TypeOK
<1>4. LockIsHeld' /\ RoomIsMade' /\ TakesInOrder' /\ PagesAreRuns'
  <2>1. \A c \in Clients : client[c].pc # "take" /\ mu' # c
    BY <1>1, ClientsAssumption DEF IInv, LockIsHeld
  <2>2. QED
    BY <1>1, <2>1 DEF IInv, LockIsHeld, RoomIsMade, TakesInOrder, PagesAreRuns
<1>5. NextWritten \in Int /\ HeadID' = HeadID
  BY <1>1, <1>2 DEF HeadID, IDs
<1>6. QueueIsRun' /\ TakenBeforeQueue'
  <2>1. /\ Len(queue) <= NextWritten
        /\ \A i \in 1..Len(queue) : queue[i] = NextWritten - Len(queue) + i - 1
    BY DEF IInv, QueueIsRun
  <2>2. \A i \in 1..Len(queue') : queue'[i] = NextWritten' - Len(queue') + i - 1
    BY <1>1, <1>2, <1>5, <2>1
  <2>3. QueueIsRun'
    BY <1>1, <1>2, <1>5, <2>1, <2>2 DEF QueueIsRun
  <2>4. TakenBeforeQueue'
    BY <1>1, <1>5 DEF IInv, TakenBeforeQueue
  <2>5. QED
    BY <2>3, <2>4
<1>7. CountersAddUp'
  BY <1>1, <1>2 DEF IInv, TypeOK, CountersAddUp
<1>8. LoadsAreOld'
  BY <1>1, LoadsKept
<1>9. Store!Store
  <2>1. DOMAIN queue = 1..Len(queue) /\ DOMAIN queue' = 1..(Len(queue) + 1)
    BY <1>2
  <2>2. Queued' \subseteq Queued \cup {NextWritten}
    BY <1>2, <2>1 DEF Queued
  <2>3. QED
    BY <1>1, <2>2 DEF Store!Store, Queued, NextWritten
<1>10. QED
  BY <1>3, <1>4, <1>6, <1>7, <1>8, <1>9 DEF Kept, IInv, Store!Next

LEMMA IncrementPollingCountKept == ASSUME IInv, IncrementPollingCount PROVE Kept
<1>1. /\ poller = "count" /\ poller' = "wait" /\ polling' = polling + 1
      /\ UNCHANGED <<queue, nextID, dropped, consumed, total, mu, consumeMode, client,
                     taken, status>>
      /\ NextWritten' = NextWritten
  BY DEF IncrementPollingCount, NextWritten
<1>2. TypeOK' /\ CountersAddUp' /\ LoadsAreOld'
  BY <1>1 DEF IInv, TypeOK, CountersAddUp, LoadsAreOld
<1>3. QED
  BY <1>1, <1>2, QueueKept DEF Kept, IInv

-----------------------------------------------------------------------------
(* Requests *)

LEMMA UpdateConsumeConfigKept ==
    ASSUME IInv, NEW mode \in BOOLEAN, UpdateConsumeConfig(mode) PROVE Kept
<1>1. /\ UNCHANGED <<queue, nextID, dropped, consumed, total, polling, mu, poller, client,
                     taken, status>>
      /\ consumeMode' = mode /\ NextWritten' = NextWritten
  BY DEF UpdateConsumeConfig, NextWritten, counters
<1>2. TypeOK' /\ CountersAddUp' /\ LoadsAreOld'
  BY <1>1 DEF IInv, TypeOK, CountersAddUp, LoadsAreOld
<1>3. QED
  BY <1>1, <1>2, QueueKept DEF Kept, IInv

\* A request that moves on without the lock, and does not get it.
LEMMA RequestKept ==
    ASSUME IInv, NEW c \in Clients, NEW r \in Requests,
           client[c].pc # "take", r.pc # "take",
           r.pc = "answered" =>
              \A i \in 1..(Len(r.reply) - 1) : r.reply[i + 1] = r.reply[i] + 1,
           client' = [client EXCEPT ![c] = r],
           UNCHANGED <<queue, nextID, dropped, consumed, total, polling, mu, poller,
                       consumeMode, taken, status>>
    PROVE  Kept
<1>1. /\ client' \in [Clients -> Requests] /\ client'[c] = r
      /\ \A d \in Clients \ {c} : client'[d] = client[d]
  BY DEF IInv, TypeOK
<1>2. TypeOK'
  BY <1>1 DEF IInv, TypeOK
<1>3. NextWritten' = NextWritten /\ HeadID' = HeadID
  BY DEF NextWritten, HeadID
<1>4. LockIsHeld' /\ PagesAreRuns'
  BY <1>1 DEF IInv, LockIsHeld, PagesAreRuns
<1>5. TakesInOrder'
  BY <1>1, <1>3 DEF IInv, TakesInOrder
<1>6. RoomIsMade' /\ QueueIsRun' /\ TakenBeforeQueue' /\ CountersAddUp' /\ LoadsAreOld'
  BY <1>3 DEF IInv, RoomIsMade, QueueIsRun, TakenBeforeQueue, CountersAddUp, LoadsAreOld
<1>7. UNCHANGED Store!vars
  BY <1>3 DEF Store!vars, NextWritten
<1>8. QED
  BY <1>2, <1>4, <1>5, <1>6, <1>7 DEF Kept, IInv

LEMMA StartRequestKept ==
    ASSUME IInv, NEW c \in Clients, NEW page \in Pages, StartRequest(c, page) PROVE Kept
<1> DEFINE r == [pc |-> "get", limit |-> page[1], offset |-> page[2],
                 consume |-> consumeMode]
<1>1. page[1] \in Nat \ {0} /\ page[2] \in Nat /\ consumeMode \in BOOLEAN
  BY PagesAssumption DEF IInv, TypeOK
<1>2. r \in Requests /\ r.pc = "get"
  BY <1>1 DEF Requests
<1>3. /\ client[c].pc = "idle" /\ client' = [client EXCEPT ![c] = r]
      /\ UNCHANGED <<queue, nextID, dropped, consumed, total, polling, mu, poller,
                     consumeMode, taken, status>>
  BY DEF StartRequest, counters
<1> HIDE DEF r
<1>4. QED
  BY <1>2, <1>3, RequestKept

LEMMA EndRequestKept == ASSUME IInv, NEW c \in Clients, EndRequest(c) PROVE Kept
<1>1. /\ client[c].pc = "answered" /\ client' = [client EXCEPT ![c] = NoRequest]
      /\ UNCHANGED <<queue, nextID, dropped, consumed, total, polling, mu, poller,
                     consumeMode, taken, status>>
  BY DEF EndRequest, counters
<1>2. NoRequest \in Requests /\ NoRequest.pc = "idle"
  BY DEF Requests, NoRequest
<1>3. QED
  BY <1>1, <1>2, RequestKept

LEMMA GetPageKept == ASSUME IInv, NEW c \in Clients, GetPage(c) PROVE Kept
<1> DEFINE offset == client[c].offset
           end == PageEnd(client[c].limit, client[c].offset)
<1>1. /\ client[c].pc = "get" /\ mu = "free"
      /\ UNCHANGED <<queue, nextID, dropped, consumed, total, polling, poller,
                     consumeMode, taken, status>>
  BY DEF GetPage, Unlocked, counters
<1>2. /\ client[c] \in Requests /\ client[c].limit \in Nat \ {0}
      /\ offset \in Nat /\ client[c].consume \in BOOLEAN
  BY <1>1 DEF IInv, TypeOK, Requests, NoRequest
<1>3. queue \in Seq(IDs) /\ Len(queue) \in Nat /\ NextWritten \in Int
  BY MaxItemsAssumption DEF IInv, TypeOK, NextWritten
<1>4. offset < Len(queue) => end \in Nat /\ offset < end /\ end <= Len(queue)
  BY <1>2, <1>3 DEF PageEnd
<1>5. CASE mu' = mu /\ Answer(c, <<>>)
  <2> DEFINE r == [pc |-> "answered", reply |-> <<>>]
  <2>1. /\ r \in Requests /\ r.pc = "answered"
        /\ \A i \in 1..(Len(r.reply) - 1) : r.reply[i + 1] = r.reply[i] + 1
    BY DEF Requests
  <2>2. client' = [client EXCEPT ![c] = r]
    BY <1>5 DEF Answer
  <2> HIDE DEF r
  <2>3. QED
    BY <1>1, <1>5, <2>1, <2>2, RequestKept
<1>6. CASE mu' = mu /\ offset < Len(queue) /\ Answer(c, SubSeq(queue, offset + 1, end))
  <2> DEFINE page == SubSeq(queue, offset + 1, end)
             r == [pc |-> "answered", reply |-> page]
  <2>1. \A i \in (offset + 1)..end : queue[i] \in IDs
    BY <1>2, <1>3, <1>4, <1>6, ElementOfSeq
  <2>2. offset + 1 \in Int /\ end \in Int
    BY <1>2, <1>4, <1>6
  <2> HIDE DEF offset, end
  <2>3. /\ page \in Seq(IDs) /\ Len(page) = end - offset
        /\ \A i \in 1..(end - offset) : page[i] = queue[offset + i]
    <3>1. /\ page \in Seq(IDs)
          /\ Len(page) = IF offset + 1 <= end THEN end - (offset + 1) + 1 ELSE 0
          /\ \A i \in 1..(end - (offset + 1) + 1) : page[i] = queue[(offset + 1) + i - 1]
      BY <2>1, <2>2, SubSeqProperties
    <3>2. QED
      BY <1>2, <1>3, <1>4, <1>6, <3>1
  <2> HIDE DEF page
  <2>4. ASSUME NEW i \in 1..(Len(page) - 1) PROVE page[i + 1] = page[i] + 1
    <3>1. /\ page[i] = queue[offset + i] /\ page[i + 1] = queue[offset + i + 1]
          /\ offset + i \in 1..Len(queue) /\ offset + i + 1 \in 1..Len(queue)
      BY <1>2, <1>3, <1>4, <1>6, <2>3
    <3>2. /\ NextWritten \in Int /\ Len(queue) \in Int /\ offset \in Int /\ i \in Int
          /\ \A k \in 1..Len(queue) : queue[k] = NextWritten - Len(queue) + k - 1
      BY <1>2, <1>3 DEF IInv, QueueIsRun
    <3>3. QED
      BY <3>1, <3>2
  <2>5. r \in Requests /\ r.pc = "answered" /\ r.reply = page
    BY <2>3 DEF Requests
  <2>6. client' = [client EXCEPT ![c] = r]
    BY <1>6 DEF Answer, page
  <2> HIDE DEF r
  <2>7. QED
    BY <1>1, <1>6, <2>4, <2>5, <2>6, RequestKept
<1>7. CASE offset < Len(queue) /\ mu' = c /\ GoOn(c, offset, end - offset, <<>>)
  <2> DEFINE r == [pc |-> "take", skip |-> offset, left |-> end - offset, reply |-> <<>>]
  <2>1. offset \in Nat /\ end - offset \in Nat \ {0} /\ offset + (end - offset) <= Len(queue)
    BY <1>2, <1>3, <1>4, <1>7
  <2> HIDE DEF offset, end
  <2>2. /\ r \in Requests /\ r.pc = "take" /\ Len(r.reply) = 0
        /\ r.skip + r.left <= Len(queue)
    BY <2>1 DEF Requests
  <2>3. client' = [client EXCEPT ![c] = r]
    BY <1>7 DEF GoOn
  <2> HIDE DEF r
  <2>4. /\ client' \in [Clients -> Requests] /\ client'[c] = r
        /\ \A d \in Clients \ {c} : client'[d] = client[d] /\ client[d].pc # "take"
    BY <1>1, <2>2, <2>3, ClientsAssumption DEF IInv, TypeOK, LockIsHeld
  <2>5. NextWritten' = NextWritten /\ HeadID' = HeadID
    BY <1>1 DEF NextWritten, HeadID
  <2>6. TypeOK'
    BY <1>1, <1>7, <2>4 DEF IInv, TypeOK
  <2>7. LockIsHeld' /\ PagesAreRuns'
    BY <1>1, <1>7, <2>2, <2>4, ClientsAssumption DEF IInv, LockIsHeld, PagesAreRuns
  <2>8. TakesInOrder'
    BY <1>1, <2>2, <2>4 DEF TakesInOrder
  <2>9. RoomIsMade' /\ QueueIsRun' /\ TakenBeforeQueue' /\ CountersAddUp' /\ LoadsAreOld'
    BY <1>1, <2>5
       DEF IInv, RoomIsMade, QueueIsRun, TakenBeforeQueue, CountersAddUp, LoadsAreOld
  <2>10. UNCHANGED Store!vars
    BY <1>1, <2>5 DEF Store!vars, NextWritten
  <2>11. QED
    BY <2>6, <2>7, <2>8, <2>9, <2>10 DEF Kept, IInv
<1>8. QED
  BY <1>5, <1>6, <1>7 DEF GetPage

\* The part of a turn that Skip and Return share: the item at the head goes
\* from the queue to what was taken.
LEMMA HeadTaken ==
    ASSUME IInv, NEW c \in Clients, TakeItem(c)
    PROVE  /\ client[c].pc = "take" /\ mu = c /\ poller # "write" /\ Len(queue) > 0
           /\ client[c].skip \in Nat /\ client[c].left \in Nat \ {0}
           /\ client[c].reply \in Seq(IDs)
           /\ client[c].skip + client[c].left <= Len(queue)
           /\ \A d \in Clients \ {c} : client[d].pc # "take"
           /\ UNCHANGED <<nextID, poller, consumeMode, status>>
           /\ taken' \in Seq(IDs) /\ consumed' \in Nat /\ queue' \in Seq(IDs)
           /\ dropped' \in Nat /\ total' \in Nat /\ polling' \in Nat
           /\ Len(queue') = Len(queue) - 1
           /\ RoomIsMade' /\ QueueIsRun' /\ TakenBeforeQueue' /\ CountersAddUp'
           /\ LoadsAreOld'
           /\ Store!Take
<1>1. /\ client[c].pc = "take" /\ consumed' = consumed + 1 /\ RemoveHead
      /\ taken' = Append(taken, Head(queue))
      /\ UNCHANGED <<nextID, dropped, total, polling, poller, consumeMode, status>>
      /\ NextWritten' = NextWritten
  BY DEF TakeItem, NextWritten
<1>2. /\ client[c].skip \in Nat /\ client[c].left \in Nat \ {0}
      /\ client[c].reply \in Seq(IDs)
  BY <1>1 DEF IInv, TypeOK, Requests, NoRequest
<1>3. client[c].skip + client[c].left <= Len(queue) /\ Len(queue) \in Nat
  BY <1>1 DEF IInv, TypeOK, TakesInOrder
<1>4. Len(queue) > 0
  BY <1>2, <1>3
<1>5. mu = c /\ poller # "write" /\ \A d \in Clients \ {c} : client[d].pc # "take"
  BY <1>1, ClientsAssumption DEF IInv, LockIsHeld
<1>6. /\ queue' \in Seq(IDs) /\ Len(queue') = Len(queue) - 1
      /\ Head(queue) \in IDs /\ Head(queue) = HeadID /\ HeadID \in Int
      /\ HeadID' = HeadID + 1 /\ QueueIsRun'
      /\ Head(queue) \in Queued /\ Queued' = Queued \ {Head(queue)}
  BY <1>1, <1>4, HeadRemoved
<1>7. /\ taken \in Seq(IDs) /\ Len(taken) \in Nat
      /\ taken' \in Seq(IDs) /\ Len(taken') = Len(taken) + 1
      /\ \A i \in 1..Len(taken) : taken'[i] = taken[i]
      /\ taken'[Len(taken) + 1] = HeadID
  BY <1>1, <1>6, AppendProperties DEF IInv, TypeOK
<1>8. \A i \in 1..Len(taken) : taken[i] \in Int
  <2>1. IDs \subseteq Int
    BY MaxItemsAssumption DEF IDs
  <2>2. QED
    BY <1>7, <2>1, ElementOfSeq
<1>9. TakenBeforeQueue'
  <2>1. /\ \A i \in 1..Len(taken) : taken[i] < HeadID
        /\ \A i, j \in 1..Len(taken) : i < j => taken[i] < taken[j]
    BY DEF IInv, TakenBeforeQueue
  <2>2. \A i \in 1..(Len(taken) + 1) :
           taken'[i] = IF i = Len(taken) + 1 THEN HeadID ELSE taken[i]
    BY <1>7
  <2>3. \A i \in 1..(Len(taken) + 1) : taken'[i] < HeadID + 1
    <3>1. /\ Len(taken) \in Nat /\ HeadID \in Int
          /\ \A i \in 1..Len(taken) : taken[i] \in Int /\ taken[i] < HeadID
      BY <1>6, <1>7, <1>8, <2>1
    <3>2. QED
      BY <2>2, <3>1
  <2>4. \A i, j \in 1..(Len(taken) + 1) : i < j => taken'[i] < taken'[j]
    BY <1>6, <1>7, <1>8, <2>1, <2>2
  <2>5. QED
    BY <1>6, <1>7, <2>3, <2>4 DEF TakenBeforeQueue
<1>10. CountersAddUp' /\ consumed' \in Nat /\ dropped' \in Nat /\ total' \in Nat
       /\ polling' \in Nat
  BY <1>1, <1>3, <1>6 DEF IInv, TypeOK, CountersAddUp
<1>11. RoomIsMade' /\ LoadsAreOld'
  BY <1>1, <1>5, LoadsKept DEF RoomIsMade
<1>12. Store!Take
  <2>1. DOMAIN taken = 1..Len(taken) /\ DOMAIN taken' = 1..(Len(taken) + 1)
    BY <1>7
  <2>2. {taken'[i] : i \in DOMAIN taken'} = {taken[i] : i \in DOMAIN taken} \cup {HeadID}
    BY <1>7, <2>1
  <2>3. QED
    BY <1>1, <1>6, <2>2 DEF Store!Take, Queued, NextWritten
<1>13. QED
  BY <1>1, <1>2, <1>3, <1>4, <1>5, <1>6, <1>7, <1>9, <1>10, <1>11, <1>12

\* The arithmetic of a run that ends before the identifier h.
LEMMA RunExtends ==
    ASSUME NEW h \in Int, NEW S \in SUBSET Int, NEW s \in Seq(S), h \in S,
           \A i \in 1..Len(s) : s[i] = h - Len(s) + i - 1
    PROVE  /\ Append(s, h) \in Seq(S) /\ Len(Append(s, h)) \in Nat
           /\ \A i \in 1..Len(Append(s, h)) :
                 Append(s, h)[i] = (h + 1) - Len(Append(s, h)) + i - 1
<1> DEFINE t == Append(s, h)
<1>1. /\ t \in Seq(S) /\ Len(t) = Len(s) + 1 /\ Len(s) \in Nat
      /\ \A i \in 1..Len(s) : t[i] = s[i]
      /\ t[Len(s) + 1] = h
  BY AppendProperties
<1> HIDE DEF t
<1>2. \A i \in 1..Len(t) : t[i] = (h + 1) - Len(t) + i - 1
  BY <1>1
<1>3. QED
  BY <1>1, <1>2 DEF t

LEMMA RunIsConsecutive ==
    ASSUME NEW h \in Int, NEW s, Len(s) \in Nat,
           \A i \in 1..Len(s) : s[i] = h - Len(s) + i - 1
    PROVE  \A i \in 1..(Len(s) - 1) : s[i + 1] = s[i] + 1
OBVIOUS

\* After a turn, the request goes on or is answered with the page it has got.
LEMMA TurnKept ==
    ASSUME IInv, NEW c \in Clients, TakeItem(c), NEW r \in Requests, NEW page,
           client' = [client EXCEPT ![c] = r],
           \/ /\ r.pc = "take" /\ mu' = c
              /\ r.skip + r.left <= Len(queue) - 1
              /\ r.skip > 0 => Len(page) = 0
           \/ r.pc = "answered" /\ mu' = "free",
           r.reply = page, Len(page) \in Nat,
           \A i \in 1..Len(page) : page[i] = (HeadID + 1) - Len(page) + i - 1
    PROVE  Kept
<1>1. /\ client[c].pc = "take" /\ mu = c /\ poller # "write" /\ Len(queue) > 0
      /\ \A d \in Clients \ {c} : client[d].pc # "take"
      /\ UNCHANGED <<nextID, poller, consumeMode, status>>
      /\ taken' \in Seq(IDs) /\ consumed' \in Nat /\ queue' \in Seq(IDs)
      /\ dropped' \in Nat /\ total' \in Nat /\ polling' \in Nat
      /\ Len(queue') = Len(queue) - 1
      /\ RoomIsMade' /\ QueueIsRun' /\ TakenBeforeQueue' /\ CountersAddUp'
      /\ LoadsAreOld'
      /\ Store!Take
  BY HeadTaken
<1>2. HeadID \in Int /\ HeadID' = HeadID + 1
  BY <1>1, HeadRemoved DEF TakeItem, NextWritten
<1>3. /\ client' \in [Clients -> Requests] /\ client'[c] = r
      /\ \A d \in Clients \ {c} : client'[d] = client[d]
  BY DEF IInv, TypeOK
<1>4. TypeOK'
  BY <1>1, <1>3, CapacityAssumption DEF IInv, TypeOK
<1>5. LockIsHeld'
  BY <1>1, <1>3, ClientsAssumption DEF IInv, LockIsHeld
<1>6. TakesInOrder'
  <2>1. \A d \in Clients : client'[d].pc = "take" => d = c
    BY <1>1, <1>3
  <2>2. ASSUME r.pc = "take"
        PROVE  /\ r.skip + r.left <= Len(queue')
               /\ r.skip > 0 => Len(r.reply) = 0
               /\ \A i \in 1..Len(r.reply) :
                     r.reply[i] = HeadID' - Len(r.reply) + i - 1
    BY <1>1, <1>2, <2>2
  <2>3. QED
    BY <1>3, <2>1, <2>2 DEF TakesInOrder
<1>7. PagesAreRuns'
  <2>1. HeadID + 1 \in Int
    BY <1>2
  <2>2. \A i \in 1..(Len(page) - 1) : page[i + 1] = page[i] + 1
    BY <2>1, RunIsConsecutive
  <2>3. QED
    BY <1>1, <1>3, <2>2 DEF IInv, PagesAreRuns
<1>8. QED
  BY <1>1, <1>4, <1>5, <1>6, <1>7 DEF Kept, IInv, Store!Next

LEMMA TakeItemKept == ASSUME IInv, NEW c \in Clients, TakeItem(c) PROVE Kept
<1>1. PICK skip, left, reply :
         /\ skip = client[c].skip /\ left = client[c].left /\ reply = client[c].reply
  OBVIOUS
<1>2. /\ skip \in Nat /\ left \in Nat \ {0} /\ reply \in Seq(IDs) /\ Len(reply) \in Nat
      /\ skip + left <= Len(queue) /\ Len(queue) \in Nat /\ Len(queue) > 0 /\ mu = c
  BY <1>1, HeadTaken DEF IInv, TypeOK
<1>3. /\ skip > 0 => Len(reply) = 0
      /\ \A i \in 1..Len(reply) : reply[i] = HeadID - Len(reply) + i - 1
  BY <1>1, HeadTaken DEF IInv, TakesInOrder
<1>4. Head(queue) \in IDs /\ Head(queue) = HeadID /\ HeadID \in Int
  BY <1>2, HeadRemoved DEF TakeItem, NextWritten
<1>5. CASE Skip(c)
  <2> DEFINE r == [pc |-> "take", skip |-> skip - 1, left |-> left, reply |-> reply]
  <2>1. skip > 0 /\ mu' = c /\ client' = [client EXCEPT ![c] = r]
    BY <1>1, <1>2, <1>5 DEF Skip, GoOn
  <2>2. /\ skip - 1 \in Nat /\ (skip - 1) + left <= Len(queue) - 1 /\ Len(reply) = 0
        /\ \A i \in 1..Len(reply) : reply[i] = (HeadID + 1) - Len(reply) + i - 1
    BY <1>2, <1>3, <2>1
  <2>3. /\ r \in Requests /\ r.pc = "take" /\ r.reply = reply
        /\ r.skip + r.left <= Len(queue) - 1
    BY <1>2, <2>2 DEF Requests
  <2> HIDE DEF r
  <2>4. QED
    BY <1>2, <2>1, <2>2, <2>3, TurnKept
<1>6. CASE Return(c)
  <2> DEFINE got == Append(reply, HeadID)
  <2>1. /\ got \in Seq(IDs) /\ Len(got) \in Nat
        /\ \A i \in 1..Len(got) : got[i] = (HeadID + 1) - Len(got) + i - 1
    <3>1. IDs \in SUBSET Int
      BY MaxItemsAssumption DEF IDs
    <3>2. QED
      BY <1>2, <1>3, <1>4, <3>1, RunExtends
  <2> HIDE DEF got
  <2>2. CASE left > 1 /\ mu' = c /\ skip = 0 /\ GoOn(c, 0, left - 1, got)
    <3> DEFINE r == [pc |-> "take", skip |-> 0, left |-> left - 1, reply |-> got]
    <3>1. client' = [client EXCEPT ![c] = r]
      BY <2>2 DEF GoOn
    <3>2. left - 1 \in Nat \ {0} /\ 0 + (left - 1) <= Len(queue) - 1
      BY <1>2, <2>2
    <3>3. /\ r \in Requests /\ r.pc = "take" /\ r.reply = got
          /\ r.skip + r.left <= Len(queue) - 1 /\ ~(r.skip > 0)
      BY <2>1, <3>2 DEF Requests
    <3> HIDE DEF r
    <3>4. QED
      BY <2>1, <2>2, <3>1, <3>3, TurnKept
  <2>3. CASE Answer(c, got) /\ mu' = "free"
    <3> DEFINE r == [pc |-> "answered", reply |-> got]
    <3>1. r \in Requests /\ r.pc = "answered" /\ r.reply = got
      BY <2>1 DEF Requests
    <3>2. client' = [client EXCEPT ![c] = r]
      BY <2>3 DEF Answer
    <3> HIDE DEF r
    <3>3. QED
      BY <2>1, <2>3, <3>1, <3>2, TurnKept
  <2>4. QED
    BY <1>1, <1>2, <1>4, <1>6, <2>2, <2>3 DEF Return, got
<1>7. QED
  BY <1>5, <1>6 DEF TakeItem

-----------------------------------------------------------------------------
(* The status reader *)

LEMMA LoadNextKept == ASSUME IInv, LoadNext PROVE Kept
<1> DEFINE n == Len(status)
           x == Current[LoadOrder[n + 1]]
<1>1. /\ n \in 0..4 /\ status \in Seq(Nat) /\ Len(LoadOrder) = 5
      /\ status' = Append(status, x)
      /\ UNCHANGED <<queue, nextID, dropped, consumed, total, polling, mu, poller,
                     consumeMode, client, taken>>
  <2>1. Len(LoadOrder) = 5
    BY DEF LoadOrder
  <2>2. status \in Seq(Nat) /\ n \in Nat /\ n < 5
    BY <2>1 DEF LoadNext, IInv, TypeOK
  <2>3. n \in 0..4
    <3> HIDE DEF n
    <3>1. QED
      BY <2>2
  <2>4. status' = Append(status, x)
    BY DEF LoadNext
  <2>5. UNCHANGED <<queue, nextID, dropped, consumed, total, polling, mu, poller,
                    consumeMode, client, taken>>
    BY DEF LoadNext, counters
  <2>6. QED
    BY <2>1, <2>2, <2>3, <2>4, <2>5
<1>2. /\ n = 0 => x = Len(queue)
      /\ n = 1 => x = polling
      /\ n = 2 => x = dropped
      /\ n = 3 => x = consumed
      /\ n = 4 => x = total
  <2>1. /\ LoadOrder[1] = "size" /\ LoadOrder[2] = "polling" /\ LoadOrder[3] = "dropped"
        /\ LoadOrder[4] = "consumed" /\ LoadOrder[5] = "total"
    BY DEF LoadOrder
  <2>2. /\ Current["size"] = Len(queue) /\ Current["polling"] = polling
        /\ Current["dropped"] = dropped /\ Current["consumed"] = consumed
        /\ Current["total"] = total
    BY DEF Current
  <2>3. 0 + 1 = 1 /\ 1 + 1 = 2 /\ 2 + 1 = 3 /\ 3 + 1 = 4 /\ 4 + 1 = 5
    OBVIOUS
  <2>4. QED
    BY <2>1, <2>2, <2>3, Zenon
<1>3. /\ Len(queue) \in Nat /\ polling \in Nat /\ dropped \in Nat /\ consumed \in Nat
      /\ total \in Nat
      /\ total = dropped + consumed + Len(queue) /\ polling <= total
  BY DEF IInv, TypeOK, CountersAddUp
<1>4. x \in Nat
  BY <1>1, <1>2, <1>3
<1> HIDE DEF x
<1>5. /\ status' \in Seq(Nat) /\ Len(status') = n + 1
      /\ \A i \in 1..n : status'[i] = status[i]
      /\ status'[n + 1] = x
  BY <1>1, <1>4, AppendProperties
<1>6. TypeOK'
  <2>1. Len(status') <= Len(LoadOrder)
    <3>1. n \in 0..4 /\ Len(status') = n + 1 /\ Len(LoadOrder) = 5
      BY <1>1, <1>5
    <3> HIDE DEF n
    <3>2. n + 1 <= 5
      BY <3>1
    <3>3. QED
      BY <3>1, <3>2
  <2>2. QED
    BY <1>1, <1>5, <2>1 DEF IInv, TypeOK
<1>7. CountersAddUp'
  BY <1>1 DEF IInv, CountersAddUp
<1>8. \A i \in 1..n : status[i] \in Nat
  BY <1>1, ElementOfSeq
<1>9. /\ n >= 2 => status[2] <= total /\ status[2] \in Nat
      /\ n >= 3 => status[3] <= dropped /\ status[3] \in Nat
      /\ n >= 4 => status[4] <= consumed /\ status[4] \in Nat
  BY <1>1, <1>8 DEF IInv, LoadsAreOld
<1>10. LoadsAreOld'
  <2>1. CASE n = 0 \/ n = 1
    BY <1>1, <1>2, <1>3, <1>5, <2>1 DEF LoadsAreOld
  <2>2. CASE n = 2
    BY <1>1, <1>2, <1>3, <1>5, <1>9, <2>2 DEF LoadsAreOld
  <2>3. CASE n = 3
    BY <1>1, <1>2, <1>3, <1>5, <1>9, <2>3 DEF LoadsAreOld
  <2>4. CASE n = 4
    BY <1>1, <1>2, <1>3, <1>5, <1>9, <2>4 DEF LoadsAreOld
  <2>5. QED
    BY <1>1, <2>1, <2>2, <2>3, <2>4
<1>11. NextWritten' = NextWritten
  BY <1>1 DEF NextWritten
<1>12. QED
  BY <1>1, <1>6, <1>7, <1>10, <1>11, QueueKept DEF Kept, IInv

LEMMA ServeStatusKept == ASSUME IInv, ServeStatus PROVE Kept
<1>1. /\ status' = <<>> /\ NextWritten' = NextWritten
      /\ UNCHANGED <<queue, nextID, dropped, consumed, total, polling, mu, poller,
                     consumeMode, client, taken>>
  BY DEF ServeStatus, NextWritten, counters
<1>2. status' \in Seq(Nat) /\ Len(status') = 0 /\ Len(LoadOrder) = 5
  BY <1>1 DEF LoadOrder
<1>3. TypeOK' /\ CountersAddUp' /\ LoadsAreOld'
  BY <1>1, <1>2 DEF IInv, TypeOK, CountersAddUp, LoadsAreOld
<1>4. QED
  BY <1>1, <1>3, QueueKept DEF Kept, IInv

-----------------------------------------------------------------------------
(* The theorems *)

LEMMA NextKept == IInv /\ [Next]_vars => Kept
<1> SUFFICES ASSUME IInv, [Next]_vars PROVE Kept
  OBVIOUS
<1>1. CASE DrawID
  BY <1>1, DrawIDKept
<1>2. CASE PushMakesRoom
  BY <1>2, PushMakesRoomKept
<1>3. CASE PushWrites
  BY <1>3, PushWritesKept
<1>4. CASE IncrementPollingCount
  BY <1>4, IncrementPollingCountKept
<1>5. ASSUME NEW mode \in BOOLEAN, UpdateConsumeConfig(mode) PROVE Kept
  BY <1>5, UpdateConsumeConfigKept
<1>6. ASSUME NEW c \in Clients, NEW page \in Pages, StartRequest(c, page) PROVE Kept
  BY <1>6, StartRequestKept
<1>7. ASSUME NEW c \in Clients, GetPage(c) PROVE Kept
  BY <1>7, GetPageKept
<1>8. ASSUME NEW c \in Clients, TakeItem(c) PROVE Kept
  BY <1>8, TakeItemKept
<1>9. ASSUME NEW c \in Clients, EndRequest(c) PROVE Kept
  BY <1>9, EndRequestKept
<1>10. CASE LoadNext
  BY <1>10, LoadNextKept
<1>11. CASE ServeStatus
  BY <1>11, ServeStatusKept
<1>12. CASE UNCHANGED vars
  <2>1. NextWritten' = NextWritten
    BY <1>12 DEF vars, NextWritten
  <2>2. TypeOK' /\ CountersAddUp' /\ LoadsAreOld'
    BY <1>12 DEF vars, IInv, TypeOK, CountersAddUp, LoadsAreOld
  <2>3. QED
    BY <1>12, <2>1, <2>2, QueueKept DEF vars, Kept, IInv
<1>13. QED
  BY <1>1, <1>2, <1>3, <1>4, <1>5, <1>6, <1>7, <1>8, <1>9, <1>10, <1>11, <1>12 DEF Next

THEOREM Invariance == Spec => []IInv
<1>1. IInv /\ [Next]_vars => IInv'
  BY NextKept DEF Kept
<1>2. QED
  BY <1>1, InitIInv, PTL DEF Spec

\* The variables stay in their types, the queue in its capacity.
THEOREM TypeCorrectness == Spec => []TypeOK
<1>1. IInv => TypeOK
  BY DEF IInv
<1>2. QED
  BY <1>1, Invariance, PTL

\* No item is handed to two requests, and none after a newer one.
THEOREM TakenInOrder == Spec => []TakenOnceInOrder
<1>1. ASSUME IInv PROVE TakenOnceInOrder
  <2> DEFINE all == taken \o queue
             m == Len(taken)
             n == Len(queue)
  <2>1. /\ m \in Nat /\ n \in Nat /\ Len(all) = m + n
        /\ \A i \in 1..(m + n) : all[i] = IF i <= m THEN taken[i] ELSE queue[i - m]
    BY <1>1, ConcatProperties DEF IInv, TypeOK
  <2>2. /\ \A i \in 1..m : taken[i] < HeadID
        /\ \A i, j \in 1..m : i < j => taken[i] < taken[j]
    BY <1>1 DEF IInv, TakenBeforeQueue
  <2>3. HeadID \in Int /\ \A i \in 1..n : queue[i] = HeadID + i - 1
    <3>1. NextWritten \in Int
      BY <1>1, MaxItemsAssumption DEF IInv, TypeOK, NextWritten
    <3>2. QED
      BY <1>1, <2>1, <3>1 DEF IInv, QueueIsRun, HeadID
  <2>4. \A i \in 1..m : taken[i] \in Int
    <3>1. IDs \subseteq Int /\ taken \in Seq(IDs)
      BY <1>1, MaxItemsAssumption DEF IDs, IInv, TypeOK
    <3>2. QED
      BY <3>1, ElementOfSeq
  <2> HIDE DEF all, m, n
  <2>5. ASSUME NEW i \in 1..(m + n), NEW j \in 1..(m + n), i < j PROVE all[i] < all[j]
    <3>1. CASE j <= m
      BY <2>1, <2>2, <2>5, <3>1
    <3>2. CASE i <= m /\ m < j
      <4>1. j - m \in 1..n /\ all[j] = queue[j - m] /\ all[i] = taken[i] /\ i \in 1..m
        BY <2>1, <2>5, <3>2
      <4>2. QED
        BY <2>1, <2>2, <2>3, <2>4, <4>1
    <3>3. CASE m < i
      <4>1. /\ i - m \in 1..n /\ all[i] = queue[i - m]
            /\ j - m \in 1..n /\ all[j] = queue[j - m]
        BY <2>1, <2>5, <3>3
      <4>2. QED
        BY <2>1, <2>3, <2>5, <4>1
    <3>4. QED
      BY <2>1, <2>5, <3>1, <3>2, <3>3
  <2>6. QED
    BY <2>1, <2>5 DEF TakenOnceInOrder, all
<1>2. QED
  BY <1>1, Invariance, PTL

\* A page is a run of consecutive items.
THEOREM PagesHaveNoGaps == Spec => []PagesAreRuns
<1>1. IInv => PagesAreRuns
  BY DEF IInv
<1>2. QED
  BY <1>1, Invariance, PTL

\* A status page never shows more items gone, or more polls, than items.
THEOREM StatusAddsUp == Spec => []StatusIsPlausible
<1>1. ASSUME IInv PROVE StatusIsPlausible
  <2>1. /\ (CHOOSE i \in 1..Len(LoadOrder) : LoadOrder[i] = "polling") = 2
        /\ (CHOOSE i \in 1..Len(LoadOrder) : LoadOrder[i] = "dropped") = 3
        /\ (CHOOSE i \in 1..Len(LoadOrder) : LoadOrder[i] = "consumed") = 4
        /\ (CHOOSE i \in 1..Len(LoadOrder) : LoadOrder[i] = "total") = 5
    BY DEF LoadOrder
  <2>2. Len(LoadOrder) = 5
    BY DEF LoadOrder
  <2>3. Len(status) = 5 => status[3] + status[4] <= status[5] /\ status[2] <= status[5]
    BY <1>1 DEF IInv, LoadsAreOld
  <2>4. QED
    BY <2>1, <2>2, <2>3, Zenon DEF StatusIsPlausible
<1>2. QED
  BY <1>1, Invariance, PTL

\* Cut at every counter, the store is one that loses or hands out each item once.
THEOREM ImplementsStore == Spec => RefinesStore
<1>1. IInv /\ [Next]_vars => [Store!Next]_(Store!vars)
  BY NextKept DEF Kept
<1>2. QED
  BY <1>1, InitIInv, Invariance, PTL DEF Spec, RefinesStore, Store!Spec
=============================================================================
