-------------------------- MODULE BoltLocksProofs --------------------------
(***************************************************************************)
(* Theorems about BoltLocks, for any number of goroutines: calls that are  *)
(* under way never all wait for one another, as long as nobody calls       *)
(* GetQueueInfo. The other methods take the locks in one order,            *)
(*                                                                         *)
(*     rwlock, metalock, mmaplock, h.mu,                                   *)
(*                                                                         *)
(* so of all goroutines that wait, one that waits for the last lock in     *)
(* this order waits for a goroutine that does not.                         *)
(***************************************************************************)
EXTENDS BoltLocks, SequenceTheorems, TLAPS

Ops == [op : {"RLock", "RUnlock", "Lock", "Unlock"}, lock : Locks]

\* What a goroutine can hold: a lock, for reading or for writing.
Holdings == Locks \X {"r", "w"}

Rank(l) == CASE l = "rwlock" -> 1
             [] l = "metalock" -> 2
             [] l = "mmaplock" -> 3
             [] l = "mu" -> 4

InOrder == "GetQueueInfo" \notin Calls

\* A goroutine that holds H may wait for l: it does not hold l itself, and
\* where the order is kept, none that comes after l.
MayTake(l, H) ==
    \A held \in H : held[1] # l /\ (InOrder => Rank(held[1]) < Rank(l))

\* The operation o takes a goroutine that holds H to one that holds K.
Takes(o, H, K) ==
    \/ o.op = "RLock" /\ MayTake(o.lock, H) /\ K = H \cup {<<o.lock, "r">>}
    \/ o.op = "Lock" /\ MayTake(o.lock, H) /\ K = H \cup {<<o.lock, "w">>}
    \/ o.op = "RUnlock" /\ <<o.lock, "r">> \in H /\ K = H \ {<<o.lock, "r">>}
    \/ o.op = "Unlock" /\ <<o.lock, "w">> \in H /\ K = H \ {<<o.lock, "w">>}

\* And so do the operations of t, one after the other: h is what it holds
\* before the first and after each of them.
Leads(t, H, K) ==
    /\ t \in Seq(Ops)
    /\ \E h \in [1..(Len(t) + 1) -> SUBSET Holdings] :
          /\ h[1] = H /\ h[Len(t) + 1] = K
          /\ \A i \in 1..Len(t) : Takes(t[i], h[i], h[i + 1])

\* What a goroutine holds now.
Held(g) == {x \in Holdings : \/ x[2] = "r" /\ g \in readers[x[1]]
                             \/ x[2] = "w" /\ g \in writer[x[1]]}

Typed ==
    /\ todo \in [Goroutines -> Seq(Ops)]
    /\ readers \in [Locks -> SUBSET Goroutines]
    /\ writer \in [Locks -> SUBSET Goroutines]
    /\ pending \in [Locks -> SUBSET Goroutines]

Exclusive ==
    \A l \in Locks :
        writer[l] = {} \/ (readers[l] = {} /\ \E g \in Goroutines : writer[l] = {g})

\* Who waits in Lock is about to take the lock.
PendingIsNext ==
    \A l \in Locks : \A g \in pending[l] : IsNext(g, "Lock") /\ Lock(g) = l

\* The rest of a call gives back all that the goroutine holds, in order.
RestIsInOrder == \A g \in Goroutines : Leads(todo[g], Held(g), {})

IInv == Typed /\ Exclusive /\ PendingIsNext /\ RestIsInOrder

-----------------------------------------------------------------------------
(* Sequences of operations *)

LEMMA LeadsNowhere == ASSUME NEW H, NEW K, Leads(<<>>, H, K) PROVE H = K
BY DEF Leads

LEMMA LeadsByNothing == ASSUME NEW H \in SUBSET Holdings PROVE Leads(<<>>, H, H)
<1> DEFINE h == [i \in 1..(Len(<<>>) + 1) |-> H]
<1>1. h \in [1..(Len(<<>>) + 1) -> SUBSET Holdings] /\ h[1] = H
  OBVIOUS
<1> HIDE DEF h
<1>2. Len(<<>>) = 0 /\ <<>> \in Seq(Ops)
  OBVIOUS
<1>3. QED
  BY <1>1, <1>2 DEF Leads

LEMMA LeadsByOne ==
    ASSUME NEW o \in Ops, NEW H \in SUBSET Holdings, NEW K \in SUBSET Holdings,
           Takes(o, H, K)
    PROVE  Leads(<<o>>, H, K)
<1> DEFINE h == [i \in 1..(Len(<<o>>) + 1) |-> IF i = 1 THEN H ELSE K]
<1>1. Len(<<o>>) = 1 /\ <<o>> \in Seq(Ops) /\ <<o>>[1] = o
  OBVIOUS
<1>2. /\ h \in [1..(Len(<<o>>) + 1) -> SUBSET Holdings]
      /\ h[1] = H /\ h[Len(<<o>>) + 1] = K /\ h[1 + 1] = K
  BY <1>1
<1> HIDE DEF h
<1>3. \A i \in 1..Len(<<o>>) : Takes(<<o>>[i], h[i], h[i + 1])
  <2>1. \A i \in 1..Len(<<o>>) : i = 1
    BY <1>1
  <2>2. Takes(<<o>>[1], h[1], h[1 + 1])
    BY <1>1, <1>2
  <2>3. QED
    BY <2>1, <2>2
<1>4. QED
  BY <1>1, <1>2, <1>3 DEF Leads

LEMMA LeadsByBoth ==
    ASSUME NEW s, NEW t, NEW H, NEW K, NEW M, Leads(s, H, K), Leads(t, K, M)
    PROVE  Leads(s \o t, H, M)
<1> DEFINE m == Len(s)
           n == Len(t)
<1>1. PICK f \in [1..(m + 1) -> SUBSET Holdings] :
         /\ f[1] = H /\ f[m + 1] = K
         /\ \A i \in 1..m : Takes(s[i], f[i], f[i + 1])
  BY DEF Leads
<1>2. PICK g \in [1..(n + 1) -> SUBSET Holdings] :
         /\ g[1] = K /\ g[n + 1] = M
         /\ \A i \in 1..n : Takes(t[i], g[i], g[i + 1])
  BY DEF Leads
<1>3. /\ s \o t \in Seq(Ops) /\ Len(s \o t) = m + n /\ m \in Nat /\ n \in Nat
      /\ \A i \in 1..(m + n) : (s \o t)[i] = IF i <= m THEN s[i] ELSE t[i - m]
  BY ConcatProperties, LenProperties DEF Leads
<1> HIDE DEF m, n
<1> DEFINE h == [i \in 1..(m + n + 1) |-> IF i <= m THEN f[i] ELSE g[i - m]]
<1>4. h \in [1..(m + n + 1) -> SUBSET Holdings]
  <2>1. ASSUME NEW i \in 1..(m + n + 1)
        PROVE  (IF i <= m THEN f[i] ELSE g[i - m]) \in SUBSET Holdings
    <3>1. CASE i <= m
      <4>1. i \in 1..(m + 1)
        BY <1>3, <3>1
      <4>2. QED
        BY <3>1, <4>1
    <3>2. CASE ~(i <= m)
      <4>1. i - m \in 1..(n + 1)
        BY <1>3, <3>2
      <4>2. QED
        BY <3>2, <4>1
    <3>3. QED
      BY <3>1, <3>2
  <2>2. QED
    BY <2>1
<1>5. /\ \A i \in 1..(m + 1) : i \in 1..(m + n + 1) /\ h[i] = f[i]
      /\ \A i \in 1..(n + 1) : m + i \in 1..(m + n + 1) /\ h[m + i] = g[i]
  <2>1. ASSUME NEW i \in 1..(m + 1) PROVE i \in 1..(m + n + 1) /\ h[i] = f[i]
    <3>1. i \in 1..(m + n + 1) /\ (~(i <= m) => i = m + 1 /\ i - m = 1)
      BY <1>3
    <3>2. QED
      BY <1>1, <1>2, <3>1
  <2>2. ASSUME NEW i \in 1..(n + 1) PROVE m + i \in 1..(m + n + 1) /\ h[m + i] = g[i]
    <3>1. m + i \in 1..(m + n + 1) /\ ~(m + i <= m) /\ (m + i) - m = i
      BY <1>3
    <3>2. QED
      BY <3>1
  <2>3. QED
    BY <2>1, <2>2
<1> HIDE DEF h
<1>6. h[1] = H /\ h[m + n + 1] = M
  <2>1. 1 \in 1..(m + 1) /\ n + 1 \in 1..(n + 1) /\ m + n + 1 = m + (n + 1)
    BY <1>3
  <2>2. QED
    BY <1>1, <1>2, <1>5, <2>1
<1>7. ASSUME NEW i \in 1..(m + n) PROVE Takes((s \o t)[i], h[i], h[i + 1])
  <2>1. CASE i <= m
    <3>1. i \in 1..m /\ i \in 1..(m + 1) /\ i + 1 \in 1..(m + 1)
      BY <1>3, <2>1
    <3>2. QED
      BY <1>1, <1>3, <1>5, <2>1, <3>1
  <2>2. CASE ~(i <= m)
    <3> DEFINE j == i - m
    <3>1. /\ j \in 1..n /\ j \in 1..(n + 1) /\ j + 1 \in 1..(n + 1)
          /\ i = m + j /\ i + 1 = m + (j + 1)
      BY <1>3, <2>2
    <3>2. (s \o t)[i] = t[j]
      BY <1>3, <2>2
    <3> HIDE DEF j
    <3>3. h[i] = g[j] /\ h[i + 1] = g[j + 1]
      BY <1>5, <3>1
    <3>4. QED
      BY <1>2, <3>1, <3>2, <3>3
  <2>3. QED
    BY <2>1, <2>2
<1>8. QED
  BY <1>3, <1>4, <1>6, <1>7 DEF Leads

LEMMA LeadsByFirst ==
    ASSUME NEW t, NEW H, NEW K, Leads(t, H, K), t # <<>>
    PROVE  \E M \in SUBSET Holdings : Takes(Head(t), H, M) /\ Leads(Tail(t), M, K)
<1> DEFINE n == Len(t)
<1>1. PICK h \in [1..(n + 1) -> SUBSET Holdings] :
         /\ h[1] = H /\ h[n + 1] = K
         /\ \A i \in 1..n : Takes(t[i], h[i], h[i + 1])
  BY DEF Leads
<1>2. /\ t \in Seq(Ops) /\ n \in Nat \ {0} /\ Head(t) = t[1]
  BY EmptySeq DEF Leads
<1>3. /\ Tail(t) \in Seq(Ops) /\ Len(Tail(t)) = n - 1
      /\ \A i \in 1..(n - 1) : Tail(t)[i] = t[i + 1]
  BY <1>2, HeadTailProperties
<1> HIDE DEF n
<1> DEFINE k == [i \in 1..((n - 1) + 1) |-> h[i + 1]]
<1>4. /\ \A i \in 1..((n - 1) + 1) : i + 1 \in 1..(n + 1)
      /\ 1 \in 1..((n - 1) + 1) /\ (n - 1) + 1 = n /\ n \in 1..((n - 1) + 1)
      /\ 1 \in 1..n /\ 1 + 1 \in 1..(n + 1)
  BY <1>2
<1>5. /\ k \in [1..((n - 1) + 1) -> SUBSET Holdings]
      /\ k[1] = h[1 + 1] /\ k[(n - 1) + 1] = K
  BY <1>1, <1>4
<1>6. ASSUME NEW i \in 1..(n - 1) PROVE Takes(Tail(t)[i], k[i], k[i + 1])
  <2>1. /\ i \in 1..((n - 1) + 1) /\ i + 1 \in 1..((n - 1) + 1) /\ i + 1 \in 1..n
    BY <1>2
  <2>2. k[i] = h[i + 1] /\ k[i + 1] = h[(i + 1) + 1]
    BY <2>1
  <2> HIDE DEF k
  <2>3. QED
    BY <1>1, <1>3, <2>1, <2>2
<1> HIDE DEF k
<1>7. Leads(Tail(t), k[1], K)
  BY <1>3, <1>5, <1>6 DEF Leads
<1>8. Takes(Head(t), H, k[1]) /\ k[1] \in SUBSET Holdings
  BY <1>1, <1>2, <1>4, <1>5
<1>9. QED
  BY <1>7, <1>8

-----------------------------------------------------------------------------
(* The calls *)

LEMMA Ranks == /\ Rank("rwlock") = 1 /\ Rank("metalock") = 2
               /\ Rank("mmaplock") = 3 /\ Rank("mu") = 4
BY DEF Rank

LEMMA LeadsByHolding ==
    ASSUME NEW l \in Locks, NEW inside,
           NEW H \in SUBSET Holdings, NEW K \in SUBSET Holdings,
           MayTake(l, H), <<l, "w">> \notin K,
           Leads(inside, H \cup {<<l, "w">>}, K \cup {<<l, "w">>})
    PROVE  Leads(Holding(l, inside), H, K)
<1> DEFINE take == [op |-> "Lock", lock |-> l]
           give == [op |-> "Unlock", lock |-> l]
           w == <<l, "w">>
<1>1. take \in Ops /\ give \in Ops /\ w \in Holdings
  BY DEF Ops, Holdings
<1>2. Takes(take, H, H \cup {w}) /\ Takes(give, K \cup {w}, K)
  BY DEF Takes
<1>3. Leads(<<take>>, H, H \cup {w}) /\ Leads(<<give>>, K \cup {w}, K)
  BY <1>1, <1>2, LeadsByOne
<1>4. Leads(<<take>> \o inside \o <<give>>, H, K)
  <2> HIDE DEF take, give, w
  <2>1. Leads(inside, H \cup {w}, K \cup {w})
    BY DEF w
  <2>2. Leads(<<take>> \o inside, H, K \cup {w})
    BY <1>3, <2>1, LeadsByBoth
  <2>3. QED
    BY <1>3, <2>2, LeadsByBoth
<1>5. QED
  BY <1>4 DEF Holding

LEMMA LeadsByReading ==
    ASSUME NEW l \in Locks, NEW inside,
           NEW H \in SUBSET Holdings, NEW K \in SUBSET Holdings,
           MayTake(l, H), <<l, "r">> \notin K,
           Leads(inside, H \cup {<<l, "r">>}, K \cup {<<l, "r">>})
    PROVE  Leads(Reading(l, inside), H, K)
<1> DEFINE take == [op |-> "RLock", lock |-> l]
           give == [op |-> "RUnlock", lock |-> l]
           r == <<l, "r">>
<1>1. take \in Ops /\ give \in Ops /\ r \in Holdings
  BY DEF Ops, Holdings
<1>2. Takes(take, H, H \cup {r}) /\ Takes(give, K \cup {r}, K)
  BY DEF Takes
<1>3. Leads(<<take>>, H, H \cup {r}) /\ Leads(<<give>>, K \cup {r}, K)
  BY <1>1, <1>2, LeadsByOne
<1>4. Leads(<<take>> \o inside \o <<give>>, H, K)
  <2> HIDE DEF take, give, r
  <2>1. Leads(inside, H \cup {r}, K \cup {r})
    BY DEF r
  <2>2. Leads(<<take>> \o inside, H, K \cup {r})
    BY <1>3, <2>1, LeadsByBoth
  <2>3. QED
    BY <1>3, <2>2, LeadsByBoth
<1>5. QED
  BY <1>4 DEF Reading

\* A lock that is taken and given back at once.
LEMMA LeadsByTouching ==
    ASSUME NEW l \in Locks, NEW H \in SUBSET Holdings, MayTake(l, H)
    PROVE  Leads(Holding(l, <<>>), H, H) /\ Leads(Reading(l, <<>>), H, H)
<1>1. /\ H \cup {<<l, "w">>} \in SUBSET Holdings /\ H \cup {<<l, "r">>} \in SUBSET Holdings
      /\ <<l, "w">> \notin H /\ <<l, "r">> \notin H
  BY DEF Holdings, MayTake
<1>2. QED
  BY <1>1, LeadsByNothing, LeadsByHolding, LeadsByReading

LEMMA LeadsByView ==
    ASSUME NEW inside, NEW H \in SUBSET Holdings,
           MayTake("metalock", H), MayTake("mmaplock", H \cup {<<"metalock", "w">>}),
           Leads(inside, H \cup {<<"mmaplock", "r">>}, H \cup {<<"mmaplock", "r">>})
    PROVE  Leads(View(inside), H, H)
<1> DEFINE K == H \cup {<<"mmaplock", "r">>}
           take == [op |-> "RLock", lock |-> "mmaplock"]
           give == [op |-> "RUnlock", lock |-> "mmaplock"]
<1>1. /\ "metalock" \in Locks /\ take \in Ops /\ give \in Ops
      /\ K \in SUBSET Holdings
      /\ H \cup {<<"metalock", "w">>} \in SUBSET Holdings
      /\ K \cup {<<"metalock", "w">>} \in SUBSET Holdings
  BY DEF Locks, Ops, Holdings
<1>2. <<"metalock", "w">> \notin K /\ <<"mmaplock", "r">> \notin H
  BY DEF MayTake
<1>3. /\ Takes(take, H \cup {<<"metalock", "w">>}, K \cup {<<"metalock", "w">>})
      /\ Takes(give, K, H)
  BY <1>2 DEF Takes
<1>4. Leads(Holding("metalock", <<take>>), H, K)
  BY <1>1, <1>2, <1>3, LeadsByOne, LeadsByHolding
<1>5. Leads(<<give>>, K, H)
  BY <1>1, <1>3, LeadsByOne
<1>6. Leads(Holding("metalock", <<>>), H, H)
  BY <1>1, LeadsByTouching
<1>7. Leads(inside, K, K)
  OBVIOUS
<1>8. View(inside) = Holding("metalock", <<take>>) \o inside \o <<give>>
                     \o Holding("metalock", <<>>)
  BY DEF View
<1> HIDE DEF K, take, give
<1>9. Leads(Holding("metalock", <<take>>) \o inside, H, K)
  BY <1>4, <1>7, LeadsByBoth
<1>10. Leads(Holding("metalock", <<take>>) \o inside \o <<give>>, H, H)
  BY <1>5, <1>9, LeadsByBoth
<1>11. QED
  BY <1>6, <1>8, <1>10, LeadsByBoth

\* A read-write transaction holds the rwlock over whatever it does.
Writing == {<<"rwlock", "w">>}

LEMMA WhileWriting ==
    /\ Writing \in SUBSET Holdings
    /\ MayTake("metalock", Writing) /\ MayTake("mmaplock", Writing)
    /\ MayTake("mu", Writing)
BY Ranks DEF Writing, Holdings, Locks, MayTake

LEMMA LeadsByUpdate ==
    ASSUME NEW inside, NEW remap \in BOOLEAN, Leads(inside, Writing, Writing)
    PROVE  Leads(Update(inside, remap), {}, {})
<1> DEFINE commit == IF remap THEN Holding("mmaplock", <<>>) ELSE <<>>
<1>1. "rwlock" \in Locks /\ "metalock" \in Locks /\ "mmaplock" \in Locks
  BY DEF Locks
<1>2. Leads(Holding("metalock", <<>>), Writing, Writing)
  BY <1>1, WhileWriting, LeadsByTouching
<1>3. Leads(commit, Writing, Writing)
  <2>1. CASE remap
    BY <1>1, <2>1, WhileWriting, LeadsByTouching
  <2>2. CASE ~remap
    BY <2>2, WhileWriting, LeadsByNothing
  <2>3. QED
    BY <2>1, <2>2
<1> HIDE DEF commit
<1>4. Leads(Holding("metalock", <<>>) \o inside, Writing, Writing)
  BY <1>2, LeadsByBoth
<1>5. Leads(Holding("metalock", <<>>) \o inside \o commit, Writing, Writing)
  BY <1>3, <1>4, LeadsByBoth
<1>6. {} \in SUBSET Holdings /\ MayTake("rwlock", {}) /\ {} \cup Writing = Writing
  BY DEF MayTake
<1>7. Leads(Holding("rwlock", Holding("metalock", <<>>) \o inside \o commit), {}, {})
  BY <1>1, <1>5, <1>6, LeadsByHolding DEF Writing
<1>8. QED
  BY <1>7 DEF Update, commit

\* Every call takes its locks in order and gives all of them back; GetQueueInfo
\* does not take them in order.
LEMMA LeadsByProgram ==
    ASSUME NEW call \in Calls, NEW remap \in BOOLEAN
    PROVE  Leads(Program(call, remap), {}, {})
<1>1. "mu" \in Locks /\ {} \in SUBSET Holdings
  BY DEF Locks
<1>2. MayTake("mu", {}) /\ MayTake("metalock", {})
      /\ MayTake("mmaplock", {} \cup {<<"metalock", "w">>})
  BY Ranks DEF MayTake
<1>3. CASE call = "Store"
  <2>1. Leads(Reading("mu", <<>>), Writing, Writing)
    BY <1>1, WhileWriting, LeadsByTouching
  <2>2. QED
    BY <1>3, <2>1, LeadsByUpdate DEF Program, Store
<1>4. CASE call = "Get"
  <2>1. Leads(<<>>, Writing, Writing)
    BY WhileWriting, LeadsByNothing
  <2>2. QED
    BY <1>4, <2>1, LeadsByUpdate DEF Program, Get
<1>5. CASE call = "UpdateQueueSizes"
  <2>1. Leads(<<>>, Writing, Writing)
    BY WhileWriting, LeadsByNothing
  <2>2. Leads(Update(<<>>, remap), {}, {})
    BY <2>1, LeadsByUpdate
  <2>3. Leads(Holding("mu", <<>>), {}, {})
    BY <1>1, <1>2, LeadsByTouching
  <2>4. Leads(UpdateQueueSizes(remap), {}, {})
    BY <2>2, <2>3, LeadsByBoth DEF UpdateQueueSizes
  <2>5. QED
    BY <1>5, <2>4 DEF Program
<1>6. Leads(View(<<>>), {}, {})
  <2>1. {} \cup {<<"mmaplock", "r">>} \in SUBSET Holdings
    BY DEF Holdings, Locks
  <2>2. QED
    BY <1>1, <1>2, <2>1, LeadsByNothing, LeadsByView
<1>7. CASE call = "GetDetailedStats"
  <2> DEFINE K == {} \cup {<<"mmaplock", "r">>}
  <2>1. K \in SUBSET Holdings /\ MayTake("mu", K)
    BY Ranks DEF Holdings, Locks, MayTake
  <2> HIDE DEF K
  <2>2. Leads(Reading("mu", <<>>), K, K)
    BY <1>1, <2>1, LeadsByTouching
  <2>3. Leads(Reading("mu", <<>>) \o Reading("mu", <<>>), K, K)
    BY <2>2, LeadsByBoth
  <2>4. Leads(View(Reading("mu", <<>>) \o Reading("mu", <<>>)), {}, {})
    BY <1>1, <1>2, <2>3, LeadsByView DEF K
  <2>5. Leads(GetDetailedStats, {}, {})
    BY <1>6, <2>4, LeadsByBoth DEF GetDetailedStats
  <2>6. QED
    BY <1>7, <2>5 DEF Program
<1>8. CASE call = "GetQueueInfo"
  <2> DEFINE K == {} \cup {<<"mu", "r">>}
  <2>1. ~InOrder
    BY <1>8 DEF InOrder
  <2>2. /\ K \in SUBSET Holdings /\ MayTake("metalock", K)
        /\ MayTake("mmaplock", K \cup {<<"metalock", "w">>})
        /\ K \cup {<<"mmaplock", "r">>} \in SUBSET Holdings
    BY <2>1 DEF Holdings, Locks, MayTake
  <2> HIDE DEF K
  <2>3. Leads(View(<<>>), K, K)
    BY <2>2, LeadsByNothing, LeadsByView
  <2>4. Leads(Reading("mu", View(<<>>)), {}, {})
    BY <1>1, <1>2, <2>3, LeadsByReading DEF K
  <2>5. QED
    BY <1>8, <2>4 DEF Program, GetQueueInfo
<1>9. QED
  BY <1>3, <1>4, <1>5, <1>7, <1>8, CallsAssumption

-----------------------------------------------------------------------------
(* The invariant *)

LEMMA InitIInv == Init => IInv
<1> SUFFICES ASSUME Init PROVE IInv
  OBVIOUS
<1>1. Typed /\ Exclusive /\ PendingIsNext
  BY DEF Init, Typed, Exclusive, PendingIsNext
<1>2. ASSUME NEW g \in Goroutines PROVE Leads(todo[g], Held(g), {})
  <2>1. Held(g) = {} /\ todo[g] = <<>>
    BY DEF Init, Held, Holdings
  <2>2. {} \in SUBSET Holdings
    OBVIOUS
  <2>3. QED
    BY <2>1, <2>2, LeadsByNothing
<1>3. QED
  BY <1>1, <1>2 DEF IInv, RestIsInOrder

\* A goroutine that is about to do an operation can do it, in order, and has
\* the rest of its call in order after it.
LEMMA NextInOrder ==
    ASSUME IInv, NEW g \in Goroutines, todo[g] # <<>>
    PROVE  /\ Head(todo[g]) \in Ops /\ Lock(g) \in Locks
           /\ Tail(todo[g]) \in Seq(Ops)
           /\ \E M \in SUBSET Holdings :
                 Takes(Head(todo[g]), Held(g), M) /\ Leads(Tail(todo[g]), M, {})
<1>1. todo[g] \in Seq(Ops) /\ Leads(todo[g], Held(g), {})
  BY DEF IInv, Typed, RestIsInOrder
<1>2. Head(todo[g]) \in Ops /\ Tail(todo[g]) \in Seq(Ops)
  BY <1>1, HeadTailProperties
<1>3. QED
  BY <1>1, <1>2, LeadsByFirst DEF Ops, Lock

LEMMA CallKept == ASSUME IInv, NEW g \in Goroutines, Call(g) PROVE IInv'
<1>1. PICK call \in Calls, remap \in BOOLEAN :
         todo' = [todo EXCEPT ![g] = Program(call, remap)]
  BY DEF Call
<1>2. todo[g] = <<>> /\ UNCHANGED <<readers, writer, pending>>
  BY DEF Call
<1>3. Leads(Program(call, remap), {}, {}) /\ Program(call, remap) \in Seq(Ops)
  BY LeadsByProgram DEF Leads
<1>4. Typed'
  BY <1>1, <1>2, <1>3 DEF IInv, Typed
<1>5. /\ todo'[g] = Program(call, remap)
      /\ \A d \in Goroutines \ {g} : todo'[d] = todo[d]
  BY <1>1 DEF IInv, Typed
<1>6. Held(g) = {} /\ \A d \in Goroutines : Held(d)' = Held(d)
  BY <1>2, LeadsNowhere DEF IInv, RestIsInOrder, Held
<1>7. RestIsInOrder'
  BY <1>3, <1>5, <1>6 DEF IInv, RestIsInOrder
<1>8. Exclusive' /\ PendingIsNext'
  <2>1. \A l \in Locks : g \notin pending[l] /\ pending[l] \subseteq Goroutines
    BY <1>2 DEF IInv, Typed, PendingIsNext, IsNext
  <2>2. QED
    BY <1>2, <1>5, <2>1 DEF IInv, Exclusive, PendingIsNext, IsNext, Lock
<1>9. QED
  BY <1>4, <1>7, <1>8 DEF IInv

\* Whoever does its next operation leaves the others to theirs.
LEMMA AdvanceKept ==
    ASSUME IInv, NEW g \in Goroutines, todo[g] # <<>>, Advance(g),
           \A l \in Locks : pending'[l] = pending[l] \ {g},
           readers' \in [Locks -> SUBSET Goroutines],
           writer' \in [Locks -> SUBSET Goroutines],
           pending' \in [Locks -> SUBSET Goroutines],
           \A d \in Goroutines \ {g} : Held(d)' = Held(d),
           Takes(Head(todo[g]), Held(g), Held(g)'),
           Exclusive'
    PROVE  IInv'
<1>1. /\ todo' \in [Goroutines -> Seq(Ops)] /\ todo'[g] = Tail(todo[g])
      /\ \A d \in Goroutines \ {g} : todo'[d] = todo[d]
  BY NextInOrder DEF IInv, Typed, Advance
<1>2. Typed'
  BY <1>1 DEF Typed
<1>3. PendingIsNext'
  BY <1>1 DEF IInv, Typed, PendingIsNext, IsNext, Lock
<1>4. RestIsInOrder'
  <2>1. PICK M \in SUBSET Holdings :
           Takes(Head(todo[g]), Held(g), M) /\ Leads(Tail(todo[g]), M, {})
    BY NextInOrder
  <2>2. Held(g)' = M
    BY <2>1 DEF Takes
  <2>3. QED
    BY <1>1, <2>1, <2>2 DEF IInv, RestIsInOrder
<1>5. QED
  BY <1>2, <1>3, <1>4 DEF IInv

LEMMA AcquireReadKept == ASSUME IInv, NEW g \in Goroutines, AcquireRead(g) PROVE IInv'
<1> DEFINE l == Lock(g)
<1>1. /\ todo[g] # <<>> /\ Head(todo[g]).op = "RLock" /\ l \in Locks
      /\ writer[l] = {} /\ pending[l] = {} /\ Advance(g)
      /\ readers' = [readers EXCEPT ![l] = @ \cup {g}]
      /\ UNCHANGED <<writer, pending>>
  BY NextInOrder DEF AcquireRead, IsNext, CanRead
<1>2. PICK M \in SUBSET Holdings : Takes(Head(todo[g]), Held(g), M)
  BY <1>1, NextInOrder
<1>3. M = Held(g) \cup {<<l, "r">>} /\ MayTake(l, Held(g))
  BY <1>1, <1>2 DEF Takes, Lock
<1> HIDE DEF l
<1>4. /\ readers' \in [Locks -> SUBSET Goroutines]
      /\ readers'[l] = readers[l] \cup {g}
      /\ \A k \in Locks \ {l} : readers'[k] = readers[k]
  BY <1>1 DEF IInv, Typed
<1>5. Held(g)' = Held(g) \cup {<<l, "r">>}
  BY <1>1, <1>4 DEF Held, Holdings
<1>6. \A d \in Goroutines \ {g} : Held(d)' = Held(d)
  BY <1>1, <1>4 DEF Held, Holdings
<1>7. \A k \in Locks : pending'[k] = pending[k] \ {g}
  BY <1>1 DEF IInv, Typed, PendingIsNext, IsNext
<1>8. Exclusive'
  BY <1>1, <1>4 DEF IInv, Exclusive
<1>9. QED
  BY <1>1, <1>2, <1>3, <1>4, <1>5, <1>6, <1>7, <1>8, AdvanceKept DEF IInv, Typed

LEMMA AnnounceKept == ASSUME IInv, NEW g \in Goroutines, Announce(g) PROVE IInv'
<1> DEFINE l == Lock(g)
<1>1. /\ IsNext(g, "Lock") /\ l \in Locks
      /\ pending' = [pending EXCEPT ![l] = @ \cup {g}]
      /\ UNCHANGED <<todo, readers, writer>>
  BY NextInOrder DEF Announce, IsNext
<1>2. \A d \in Goroutines : Held(d)' = Held(d)
  BY <1>1 DEF Held
<1>3. Typed' /\ Exclusive' /\ RestIsInOrder'
  BY <1>1, <1>2 DEF IInv, Typed, Exclusive, RestIsInOrder
<1>4. PendingIsNext'
  BY <1>1 DEF IInv, Typed, PendingIsNext, IsNext, Lock
<1>5. QED
  BY <1>3, <1>4 DEF IInv

LEMMA AcquireWriteKept == ASSUME IInv, NEW g \in Goroutines, AcquireWrite(g) PROVE IInv'
<1> DEFINE l == Lock(g)
<1>1. /\ todo[g] # <<>> /\ Head(todo[g]).op = "Lock" /\ l \in Locks
      /\ writer[l] = {} /\ readers[l] = {} /\ Advance(g)
      /\ writer' = [writer EXCEPT ![l] = {g}]
      /\ pending' = [pending EXCEPT ![l] = @ \ {g}]
      /\ UNCHANGED readers
  BY NextInOrder DEF AcquireWrite, IsNext, CanWrite
<1>2. PICK M \in SUBSET Holdings : Takes(Head(todo[g]), Held(g), M)
  BY <1>1, NextInOrder
<1>3. M = Held(g) \cup {<<l, "w">>}
  BY <1>1, <1>2 DEF Takes, Lock
<1>4. \A k \in Locks : pending'[k] = pending[k] \ {g}
  BY <1>1 DEF IInv, Typed, PendingIsNext
<1> HIDE DEF l
<1>5. /\ writer' \in [Locks -> SUBSET Goroutines]
      /\ pending' \in [Locks -> SUBSET Goroutines]
      /\ writer'[l] = {g}
      /\ \A k \in Locks \ {l} : writer'[k] = writer[k]
  BY <1>1 DEF IInv, Typed
<1>6. Held(g)' = Held(g) \cup {<<l, "w">>}
  BY <1>1, <1>5 DEF Held, Holdings
<1>7. \A d \in Goroutines \ {g} : Held(d)' = Held(d)
  BY <1>1, <1>5 DEF Held, Holdings
<1>8. Exclusive'
  BY <1>1, <1>5 DEF IInv, Exclusive
<1>9. QED
  BY <1>1, <1>2, <1>3, <1>4, <1>5, <1>6, <1>7, <1>8, AdvanceKept DEF IInv, Typed

LEMMA ReleaseKept == ASSUME IInv, NEW g \in Goroutines, Release(g) PROVE IInv'
<1> DEFINE l == Lock(g)
<1>1. todo[g] # <<>> /\ l \in Locks /\ Advance(g) /\ UNCHANGED pending
  BY NextInOrder DEF Release, IsNext
<1>2. PICK M \in SUBSET Holdings : Takes(Head(todo[g]), Held(g), M)
  BY <1>1, NextInOrder
<1>3. CASE Head(todo[g]).op = "RUnlock"
  <2>1. readers' = [readers EXCEPT ![l] = @ \ {g}] /\ UNCHANGED writer
    BY <1>3 DEF Release, IsNext
  <2>2. M = Held(g) \ {<<l, "r">>}
    BY <1>2, <1>3 DEF Takes, Lock
  <2>3. \A k \in Locks : pending'[k] = pending[k] \ {g}
    BY <1>1, <1>3 DEF IInv, Typed, PendingIsNext, IsNext
  <2> HIDE DEF l
  <2>4. /\ readers' \in [Locks -> SUBSET Goroutines]
        /\ readers'[l] = readers[l] \ {g}
        /\ \A k \in Locks \ {l} : readers'[k] = readers[k]
    BY <1>1, <2>1 DEF IInv, Typed
  <2>5. Held(g)' = Held(g) \ {<<l, "r">>}
    BY <1>1, <2>1, <2>4 DEF Held, Holdings
  <2>6. \A d \in Goroutines \ {g} : Held(d)' = Held(d)
    BY <1>1, <2>1, <2>4 DEF Held, Holdings
  <2>7. Exclusive'
    BY <1>1, <2>1, <2>4 DEF IInv, Exclusive
  <2>8. QED
    BY <1>1, <1>2, <2>1, <2>2, <2>3, <2>4, <2>5, <2>6, <2>7, AdvanceKept DEF IInv, Typed
<1>4. CASE Head(todo[g]).op = "Unlock"
  <2>1. writer' = [writer EXCEPT ![l] = {}] /\ UNCHANGED readers
    BY <1>4 DEF Release, IsNext
  <2>2. M = Held(g) \ {<<l, "w">>} /\ <<l, "w">> \in Held(g)
    BY <1>2, <1>4 DEF Takes, Lock
  <2>3. \A k \in Locks : pending'[k] = pending[k] \ {g}
    BY <1>1, <1>4 DEF IInv, Typed, PendingIsNext, IsNext
  <2> HIDE DEF l
  <2>4. /\ writer' \in [Locks -> SUBSET Goroutines] /\ writer'[l] = {}
        /\ \A k \in Locks \ {l} : writer'[k] = writer[k]
        /\ writer[l] = {g}
    BY <1>1, <2>1, <2>2 DEF IInv, Typed, Exclusive, Held
  <2>5. Held(g)' = Held(g) \ {<<l, "w">>}
    BY <1>1, <2>1, <2>4 DEF Held, Holdings
  <2>6. \A d \in Goroutines \ {g} : Held(d)' = Held(d)
    BY <1>1, <2>1, <2>4 DEF Held, Holdings
  <2>7. Exclusive'
    BY <1>1, <2>1, <2>4 DEF IInv, Exclusive
  <2>8. QED
    BY <1>1, <1>2, <2>1, <2>2, <2>3, <2>4, <2>5, <2>6, <2>7, AdvanceKept DEF IInv, Typed
<1>5. QED
  BY <1>3, <1>4 DEF Release, IsNext

-----------------------------------------------------------------------------
(* The theorems *)

THEOREM Invariance == Spec => []IInv
<1>1. IInv /\ [Next]_vars => IInv'
  <2> SUFFICES ASSUME IInv, [Next]_vars PROVE IInv'
    OBVIOUS
  <2>1. ASSUME NEW g \in Goroutines, Call(g) PROVE IInv'
    BY <2>1, CallKept
  <2>2. ASSUME NEW g \in Goroutines, AcquireRead(g) PROVE IInv'
    BY <2>2, AcquireReadKept
  <2>3. ASSUME NEW g \in Goroutines, Announce(g) PROVE IInv'
    BY <2>3, AnnounceKept
  <2>4. ASSUME NEW g \in Goroutines, AcquireWrite(g) PROVE IInv'
    BY <2>4, AcquireWriteKept
  <2>5. ASSUME NEW g \in Goroutines, Release(g) PROVE IInv'
    BY <2>5, ReleaseKept
  <2>6. CASE UNCHANGED vars
    <3>1. \A g \in Goroutines : Held(g)' = Held(g)
      BY <2>6 DEF vars, Held
    <3>2. QED
      BY <2>6, <3>1
         DEF vars, IInv, Typed, Exclusive, PendingIsNext, IsNext, Lock, RestIsInOrder
  <2>7. QED
    BY <2>1, <2>2, <2>3, <2>4, <2>5, <2>6 DEF Next
<1>2. QED
  BY <1>1, InitIInv, PTL DEF Spec

\* A lock has readers or one writer, and a call that is over holds nothing.
THEOREM TypeCorrectness == Spec => []TypeOK
<1>1. ASSUME IInv PROVE TypeOK
  <2>1. ASSUME NEW g \in Goroutines, todo[g] = <<>>, NEW l \in Locks
        PROVE  g \notin readers[l] \cup writer[l] \cup pending[l]
    <3>1. Held(g) = {}
      BY <1>1, <2>1, LeadsNowhere DEF IInv, RestIsInOrder
    <3>2. <<l, "r">> \in Holdings /\ <<l, "w">> \in Holdings
      BY DEF Holdings
    <3>3. g \notin readers[l] \cup writer[l]
      BY <3>1, <3>2 DEF Held
    <3>4. g \notin pending[l]
      BY <1>1, <2>1 DEF IInv, PendingIsNext, IsNext
    <3>5. QED
      BY <3>3, <3>4
  <2>2. QED
    BY <1>1, <2>1 DEF IInv, Typed, Exclusive, TypeOK, Ops
<1>2. QED
  BY <1>1, Invariance, PTL

\* Of goroutines that wait, some wait for a lock that no other waits for a later
\* one than.
LEMMA LastWaiter ==
    ASSUME NEW W, W # {}, NEW f \in [W -> 1..4]
    PROVE  \E g \in W : \A d \in W : f[d] <= f[g]
<1>1. CASE \E g \in W : f[g] = 4
  BY <1>1
<1>2. CASE (\A d \in W : f[d] # 4) /\ \E g \in W : f[g] = 3
  BY <1>2
<1>3. CASE (\A d \in W : f[d] # 4 /\ f[d] # 3) /\ \E g \in W : f[g] = 2
  BY <1>3
<1>4. CASE \A d \in W : f[d] # 4 /\ f[d] # 3 /\ f[d] # 2
  BY <1>4
<1>5. QED
  BY <1>1, <1>2, <1>3, <1>4

\* A goroutine that holds a lock and waits, waits for a later one.
LEMMA WaitsInOrder ==
    ASSUME IInv, InOrder, NEW g \in Goroutines, NEW l \in Locks,
           g \in readers[l] \cup writer[l], ~CanProceed(g)
    PROVE  /\ todo[g] # <<>>
           /\ Rank(l) < Rank(Lock(g))
<1>1. PICK x \in Held(g) : x[1] = l
  <2>1. <<l, "r">> \in Holdings /\ <<l, "w">> \in Holdings
    BY DEF Holdings
  <2>2. <<l, "r">> \in Held(g) \/ <<l, "w">> \in Held(g)
    BY <2>1 DEF Held
  <2>3. QED
    BY <2>2
<1>2. todo[g] # <<>>
  BY <1>1, LeadsNowhere DEF IInv, RestIsInOrder
<1>3. PICK M \in SUBSET Holdings : Takes(Head(todo[g]), Held(g), M)
  BY <1>2, NextInOrder
<1>4. Head(todo[g]).op # "RUnlock" /\ Head(todo[g]).op # "Unlock"
  BY <1>2 DEF CanProceed, IsNext
<1>5. MayTake(Lock(g), Held(g))
  BY <1>3, <1>4 DEF Takes, Lock
<1>6. QED
  BY <1>1, <1>2, <1>5 DEF MayTake

\* Without GetQueueInfo, calls that are under way never all wait for one another.
THEOREM NeverAllWaiting ==
    ASSUME "GetQueueInfo" \notin Calls PROVE Spec => []NoDeadlock
<1>1. ASSUME IInv PROVE NoDeadlock
  <2> DEFINE W == {g \in Goroutines : todo[g] # <<>>}
             f == [g \in W |-> Rank(Lock(g))]
  <2>1. SUFFICES ASSUME W # {}, \A g \in Goroutines : ~CanProceed(g) PROVE FALSE
    BY DEF NoDeadlock
  <2>2. f \in [W -> 1..4]
    <3>1. \A l \in Locks : Rank(l) \in 1..4
      BY Ranks DEF Locks
    <3>2. \A g \in W : Lock(g) \in Locks
      BY <1>1, NextInOrder
    <3>3. QED
      BY <3>1, <3>2
  <2>3. PICK g \in W : \A d \in W : Rank(Lock(d)) <= Rank(Lock(g))
    <3>1. \E g \in W : \A d \in W : f[d] <= f[g]
      <4> HIDE DEF W, f
      <4>1. QED
        BY <2>1, <2>2, LastWaiter
    <3>2. QED
      BY <3>1
  <2> DEFINE l == Lock(g)
  <2>4. l \in Locks /\ Rank(l) \in 1..4
    BY <1>1, <2>2, NextInOrder
  <2>5. \A d \in Goroutines : d \notin readers[l] /\ d \notin writer[l]
    <3>1. SUFFICES ASSUME NEW d \in Goroutines, d \in readers[l] \cup writer[l]
                   PROVE  FALSE
      OBVIOUS
    <3>2. d \in W /\ Rank(l) < Rank(Lock(d)) /\ Rank(Lock(d)) <= Rank(l)
      BY <1>1, <2>1, <2>3, <2>4, <3>1, WaitsInOrder DEF InOrder
    <3>3. Rank(Lock(d)) \in 1..4
      BY <2>2, <3>2
    <3>4. QED
      BY <2>4, <3>2, <3>3
  <2>6. readers[l] = {} /\ writer[l] = {}
    BY <1>1, <2>4, <2>5 DEF IInv, Typed
  <2>7. PICK d \in Goroutines : d \in pending[l]
    <3>1. Head(todo[g]).op # "RUnlock" /\ Head(todo[g]).op # "Unlock"
      BY <2>1 DEF CanProceed, IsNext
    <3>2. Head(todo[g]).op = "RLock" \/ Head(todo[g]).op = "Lock"
      BY <1>1, <3>1, NextInOrder DEF Ops
    <3>3. pending[l] # {}
      BY <2>1, <2>6, <3>2 DEF CanProceed, IsNext, CanRead, CanWrite
    <3>4. QED
      BY <1>1, <2>4, <3>3 DEF IInv, Typed
  <2>8. IsNext(d, "Lock") /\ Lock(d) = l /\ CanWrite(d)
    BY <1>1, <2>4, <2>6, <2>7 DEF IInv, PendingIsNext, CanWrite
  <2>9. QED
    BY <2>1, <2>8 DEF CanProceed
<1>2. QED
  BY <1>1, Invariance, PTL
=============================================================================
