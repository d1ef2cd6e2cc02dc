------------------------ MODULE CircularQueueProofs ------------------------
(***************************************************************************)
(* Proofs about CircularQueue, for every capacity, every number of pushes  *)
(* and every set of limits and offsets.                                    *)
(***************************************************************************)
EXTENDS CircularQueue, SequenceTheorems, TLAPS

----------------------------------------------------------------------------
(* Arithmetic of the ring: the prover has no theory of % by a variable, so *)
(* it is brought down to a comparison once, here.                          *)

\* A number below twice the capacity wraps around the ring at most once.
LEMMA WrapOnce ==
    ASSUME NEW x \in 0..(2 * Capacity - 1)
    PROVE  x % Capacity = IF x < Capacity THEN x ELSE x - Capacity
<1>1. Capacity \in Nat /\ Capacity > 0
  BY CapacityAssumption
<1>2. CASE x < Capacity
  BY <1>1, <1>2
<1>3. CASE x >= Capacity
  BY <1>1, <1>3
<1>4. QED
  BY <1>1, <1>2, <1>3

\* A step of at most one turn from a slot does, too.
LEMMA ForwardWraps ==
    ASSUME NEW p \in Slots, NEW i \in 0..Capacity
    PROVE  Forward(p, i) = IF p + i < Capacity THEN p + i ELSE p + i - Capacity
<1>1. PICK x \in 0..(2 * Capacity - 1) : x = p + i
  BY CapacityAssumption DEF Slots
<1>2. Forward(p, i) = x % Capacity
  BY <1>1 DEF Forward
<1>3. x % Capacity = IF x < Capacity THEN x ELSE x - Capacity
  BY WrapOnce
<1>4. Capacity \in Int /\ p \in Int /\ i \in Int
  BY CapacityAssumption DEF Slots
<1>5. QED
  BY <1>1, <1>2, <1>3, <1>4

\* Such a step ends in a slot.
LEMMA ForwardIsSlot ==
    ASSUME NEW p \in Slots, NEW i \in 0..Capacity
    PROVE  Forward(p, i) \in Slots
BY ForwardWraps, CapacityAssumption DEF Slots

\* Two steps that together stay within one turn are one step.
LEMMA ForwardTwice ==
    ASSUME NEW p \in Slots, NEW i \in 0..Capacity, NEW j \in 0..Capacity,
           i + j <= Capacity
    PROVE  Forward(Forward(p, i), j) = Forward(p, i + j)
<1>1. Capacity \in Nat /\ Capacity > 0
  BY CapacityAssumption
<1>2. i + j \in 0..Capacity
  OBVIOUS
<1>3. Forward(p, i) \in Slots
  BY ForwardIsSlot
<1>4. QED
  BY <1>1, <1>2, <1>3, ForwardWraps DEF Slots

\* A full turn ends where it began.
LEMMA ForwardFullTurn ==
    ASSUME NEW p \in Slots
    PROVE  Forward(p, Capacity) = p
<1>1. Capacity \in Nat /\ Capacity \in 0..Capacity
  BY CapacityAssumption
<1>2. QED
  BY <1>1, ForwardWraps DEF Slots

\* Different steps of less than a turn end in different slots.
LEMMA ForwardInjective ==
    ASSUME NEW p \in Slots, NEW i \in Slots, NEW j \in Slots,
           Forward(p, i) = Forward(p, j)
    PROVE  i = j
<1>1. Capacity \in Nat /\ Slots \subseteq 0..Capacity
  BY CapacityAssumption DEF Slots
<1>2. QED
  BY <1>1, ForwardWraps DEF Slots

----------------------------------------------------------------------------
(* What Get returns *)

\* Where a page ends: inside the queue, and not before it starts.
LEMMA PageEndBounds ==
    ASSUME TypeOK, NEW limit \in Limits, NEW offset \in Offsets, offset < size
    PROVE  /\ limit \in Nat
           /\ offset \in Nat
           /\ PageEnd(limit, offset) \in offset..size
BY LimitsAssumption, OffsetsAssumption DEF TypeOK, PageEnd

\* A page inside the queue is the run of item numbers it stands for.
LEMMA PageIsRun ==
    ASSUME IInv, NEW offset \in Nat, NEW end \in offset..size
    PROVE  Page(offset, end)
             = [i \in 1..(end - offset) |-> totalCount - size + offset + i - 1]
<1>1. ASSUME NEW i \in 1..(end - offset)
      PROVE  items[Forward(head, offset + i - 1)] = totalCount - size + offset + i - 1
  <2>1. size \in Nat /\ totalCount \in Nat /\ end \in Nat
    BY CapacityAssumption, MaxPushesAssumption DEF IInv, TypeOK
  <2>2. offset + i - 1 \in 0..(size - 1)
    BY <2>1
  <2>3. items[Forward(head, offset + i - 1)] = totalCount - size + (offset + i - 1)
    BY <2>2 DEF IInv, HoldsNewest
  <2>4. QED
    BY <2>1, <2>3
<1>2. QED
  BY <1>1 DEF Page

\* A page inside the queue is a sequence of item numbers, in order, all of
\* them in the queue.
LEMMA PageProperties ==
    ASSUME IInv, NEW offset \in Nat, NEW end \in offset..size
    PROVE  /\ Page(offset, end) \in Seq(ItemNumbers)
           /\ Len(Page(offset, end)) = end - offset
           /\ StrictlyIncreasing(Page(offset, end))
           /\ \A i \in 1..Len(Page(offset, end)) :
                /\ Page(offset, end)[i] >= totalCount - size
                /\ Page(offset, end)[i] < totalCount - size + end
<1> DEFINE page == [i \in 1..(end - offset) |-> totalCount - size + offset + i - 1]
<1>1. Page(offset, end) = page
  BY PageIsRun
<1>2. /\ size \in Nat /\ totalCount \in 0..MaxPushes /\ end \in Nat
      /\ end - offset \in Nat /\ MaxPushes \in Nat
      /\ totalCount - size >= 0
  BY CapacityAssumption, MaxPushesAssumption DEF IInv, TypeOK, Accounting
<1>3. page \in Seq(ItemNumbers)
  <2>1. \A i \in 1..(end - offset) :
           totalCount - size + offset + i - 1 \in ItemNumbers
    BY <1>2 DEF ItemNumbers
  <2>2. page \in [1..(end - offset) -> ItemNumbers]
    BY <2>1
  <2>3. QED
    BY <1>2, <2>2, SeqDef
<1>4. Len(page) = end - offset
  BY <1>2, <1>3, LenProperties
<1>5. StrictlyIncreasing(page)
  BY <1>2, <1>4 DEF StrictlyIncreasing
<1>6. \A i \in 1..Len(page) :
        /\ page[i] >= totalCount - size
        /\ page[i] < totalCount - size + end
  BY <1>2, <1>4
<1>7. QED
  BY <1>1, <1>3, <1>4, <1>5, <1>6

----------------------------------------------------------------------------
(* The inductive invariant. Accounting and HoldsNewest are not inductive   *)
(* alone: Push writes at the tail, so they need TailFollowsItems, and the  *)
(* order of what is delivered rests on DeliveredAreGone, which says that   *)
(* the items still queued are newer than everything handed over.           *)

LEMMA InitIInv == Init => IInv
<1> SUFFICES ASSUME Init PROVE IInv
  OBVIOUS
<1>1. Capacity \in Nat /\ Capacity > 0 /\ MaxPushes \in Nat
  BY CapacityAssumption, MaxPushesAssumption
<1>2. <<>> \in Seq(ItemNumbers) /\ Len(<<>>) = 0
  BY EmptySeq
<1>3. TypeOK
  BY <1>1, <1>2 DEF Init, TypeOK, Slots
<1>4. Accounting /\ HoldsNewest
  BY DEF Init, Accounting, HoldsNewest
<1>5. TailFollowsItems
  BY <1>1, ForwardWraps DEF Init, TailFollowsItems, Slots
<1>6. DeliveredInOrder /\ DeliveredAreGone
  BY <1>2 DEF Init, DeliveredInOrder, DeliveredAreGone, StrictlyIncreasing
<1>7. QED
  BY <1>3, <1>4, <1>5, <1>6 DEF IInv

\* Pushing keeps the invariant: the one place where head, tail, size and the
\* buffer all change, with the queue full or not.
LEMMA PushIInv ==
    ASSUME IInv, Push
    PROVE  IInv'
<1>1. /\ Capacity \in Nat /\ Capacity > 0 /\ MaxPushes \in Nat
      /\ 1 \in 0..Capacity
  BY CapacityAssumption, MaxPushesAssumption
<1>2. /\ head \in Slots /\ tail \in Slots /\ size \in 0..Capacity
      /\ totalCount \in ItemNumbers /\ totalCount \in Nat
      /\ droppedCount \in Nat /\ consumedCount \in Nat
      /\ items \in [Slots -> ItemNumbers \cup {NoItem}]
  BY <1>1 DEF IInv, TypeOK, Push, ItemNumbers
<1>3. /\ totalCount' = totalCount + 1
      /\ tail' = Forward(tail, 1)
      /\ items' = [items EXCEPT ![tail] = totalCount]
      /\ UNCHANGED <<consumedCount, asked, reply, delivered>>
  BY DEF Push
<1>4. \/ /\ size = Capacity
         /\ droppedCount' = droppedCount + 1
         /\ head' = Forward(head, 1)
         /\ size' = size
      \/ /\ size < Capacity
         /\ droppedCount' = droppedCount
         /\ head' = head
         /\ size' = size + 1
  BY <1>1, <1>2 DEF Push, MakeRoom
<1>5. Forward(head, 1) \in Slots /\ Forward(tail, 1) \in Slots
  BY <1>1, <1>2, ForwardIsSlot
<1>6. TypeOK'
  <2>1. items' \in [Slots -> ItemNumbers \cup {NoItem}]
    BY <1>2, <1>3
  <2>2. totalCount' \in 0..MaxPushes
    BY <1>1, <1>2, <1>3 DEF ItemNumbers
  <2>3. /\ size' \in 0..Capacity /\ head' \in Slots /\ tail' \in Slots
        /\ droppedCount' \in Nat
    BY <1>1, <1>2, <1>3, <1>4, <1>5
  <2>4. QED
    BY <1>3, <2>1, <2>2, <2>3 DEF IInv, TypeOK
<1>7. Accounting'
  BY <1>1, <1>2, <1>3, <1>4 DEF IInv, Accounting
<1>8. tail = Forward(head, size)
  BY DEF IInv, TailFollowsItems
<1>9. TailFollowsItems'
  <2>1. CASE size = Capacity
    <3>1. tail = head
      BY <1>2, <1>8, <2>1, ForwardFullTurn
    <3>2. head' = tail' /\ head' \in Slots /\ size' = Capacity
      BY <1>1, <1>3, <1>4, <1>5, <2>1, <3>1
    <3>3. Forward(head', size') = head'
      BY <3>2, ForwardFullTurn
    <3>4. QED
      BY <3>2, <3>3 DEF TailFollowsItems
  <2>2. CASE size < Capacity
    <3>1. size \in 0..Capacity /\ size + 1 <= Capacity
      BY <1>1, <1>2, <2>2
    <3>2. Forward(Forward(head, size), 1) = Forward(head, size + 1)
      BY <1>1, <1>2, <3>1, ForwardTwice
    <3>3. QED
      BY <1>1, <1>3, <1>4, <1>8, <2>2, <3>2 DEF TailFollowsItems
  <2>3. QED
    BY <1>1, <1>2, <2>1, <2>2
<1>10. HoldsNewest'
  <2> SUFFICES ASSUME NEW i \in 0..(size' - 1)
               PROVE  items'[Forward(head', i)] = totalCount' - size' + i
    BY DEF HoldsNewest
  <2>1. CASE size = Capacity
    <3>1. tail = head /\ size' = Capacity /\ head' = Forward(head, 1)
      BY <1>1, <1>2, <1>4, <1>8, <2>1, ForwardFullTurn
    <3>2. i \in 0..Capacity /\ 1 + i \in 0..Capacity
      BY <1>1, <3>1
    <3>3. Forward(head', i) = Forward(head, 1 + i)
      BY <1>1, <1>2, <3>1, <3>2, ForwardTwice
    <3>4. CASE i = Capacity - 1
      <4>1. Forward(head', i) = head
        BY <1>1, <1>2, <3>3, <3>4, ForwardFullTurn
      <4>2. QED
        BY <1>1, <1>2, <1>3, <3>1, <3>4, <4>1
    <3>5. CASE i < Capacity - 1
      <4>1. 1 + i \in Slots /\ 0 \in Slots /\ 1 + i # 0
        BY <1>1, <3>1, <3>5 DEF Slots
      <4>2. Forward(head, 0) = head
        BY <1>1, <1>2, ForwardWraps DEF Slots
      <4>3. Forward(head, 1 + i) # head
        BY <1>2, <4>1, <4>2, ForwardInjective
      <4>4. Forward(head, 1 + i) \in Slots
        BY <1>2, <3>2, ForwardIsSlot
      <4>5. items'[Forward(head, 1 + i)] = items[Forward(head, 1 + i)]
        BY <1>2, <1>3, <3>1, <4>3, <4>4
      <4>6. items[Forward(head, 1 + i)] = totalCount - size + (1 + i)
        BY <1>1, <2>1, <3>1, <3>5 DEF IInv, HoldsNewest
      <4>7. QED
        BY <1>1, <1>2, <1>3, <2>1, <3>1, <3>3, <4>5, <4>6
    <3>6. QED
      BY <1>1, <3>1, <3>4, <3>5
  <2>2. CASE size < Capacity
    <3>1. head' = head /\ size' = size + 1 /\ size \in Slots
      BY <1>1, <1>2, <1>4, <2>2 DEF Slots
    <3>2. CASE i = size
      BY <1>1, <1>2, <1>3, <1>8, <3>1, <3>2
    <3>3. CASE i < size
      <4>1. i \in Slots /\ i \in 0..Capacity /\ i # size /\ i \in 0..(size - 1)
        BY <1>1, <1>2, <2>2, <3>3 DEF Slots
      <4>2. Forward(head, i) # tail
        BY <1>2, <1>8, <3>1, <4>1, ForwardInjective
      <4>3. Forward(head, i) \in Slots
        BY <1>2, <4>1, ForwardIsSlot
      <4>4. items'[Forward(head, i)] = items[Forward(head, i)]
        BY <1>2, <1>3, <4>2, <4>3
      <4>5. items[Forward(head, i)] = totalCount - size + i
        BY <4>1 DEF IInv, HoldsNewest
      <4>6. QED
        BY <1>1, <1>2, <1>3, <3>1, <4>1, <4>4, <4>5
    <3>4. QED
      BY <1>1, <1>2, <3>1, <3>2, <3>3
  <2>3. QED
    BY <1>1, <1>2, <2>1, <2>2
<1>11. DeliveredInOrder'
  BY <1>3 DEF IInv, DeliveredInOrder
<1>12. DeliveredAreGone'
  <2>1. totalCount' - size' >= totalCount - size
    BY <1>1, <1>2, <1>3, <1>4
  <2>2. delivered \in Seq(ItemNumbers)
    BY DEF IInv, TypeOK
  <2>3. ASSUME NEW i \in 1..Len(delivered)
        PROVE  delivered[i] < totalCount' - size'
    <3>1. delivered[i] \in ItemNumbers
      BY <2>2, <2>3, ElementOfSeq
    <3>2. delivered[i] < totalCount - size
      BY <2>3 DEF IInv, DeliveredAreGone
    <3>3. totalCount' - size' \in Int /\ totalCount - size \in Int
      BY <1>1, <1>2, <1>3, <1>4
    <3>4. QED
      BY <1>1, <2>1, <3>1, <3>2, <3>3 DEF ItemNumbers
  <2>4. QED
    BY <1>3, <2>3 DEF DeliveredAreGone
<1>13. QED
  BY <1>6, <1>7, <1>9, <1>10, <1>11, <1>12 DEF IInv

AskedType == asked = <<>> \/ asked \in Limits \X Offsets \X BOOLEAN

\* A Get that changes nothing but the reply keeps the invariant.
LEMMA ReplyOnlyIInv ==
    ASSUME IInv, UNCHANGED <<buffer, stats, delivered>>, AskedType',
           reply' \in Seq(ItemNumbers)
    PROVE  IInv'
BY DEF IInv, TypeOK, Accounting, TailFollowsItems, HoldsNewest,
       DeliveredInOrder, DeliveredAreGone, buffer, stats, AskedType

LEMMA GetNothingIInv ==
    ASSUME IInv, NEW offset \in Offsets, AskedType', GetNothing(offset)
    PROVE  IInv'
<1>1. reply' \in Seq(ItemNumbers)
  BY EmptySeq DEF GetNothing
<1>2. QED
  BY <1>1, ReplyOnlyIInv DEF GetNothing

LEMMA ReadIInv ==
    ASSUME IInv, NEW limit \in Limits, NEW offset \in Offsets, AskedType',
           Read(limit, offset)
    PROVE  IInv'
<1>1. offset \in Nat /\ PageEnd(limit, offset) \in offset..size
  BY PageEndBounds DEF IInv, Read
<1>2. reply' \in Seq(ItemNumbers)
  BY <1>1, PageProperties DEF Read
<1>3. QED
  BY <1>2, ReplyOnlyIInv DEF Read

\* Appending a page of queued items to what was delivered keeps it in order:
\* everything delivered before is older than everything in the queue.
LEMMA DeliverInOrder ==
    ASSUME IInv, NEW offset \in Nat, NEW end \in offset..size,
           delivered' = delivered \o Page(offset, end)
    PROVE  /\ delivered' \in Seq(ItemNumbers)
           /\ DeliveredInOrder'
           /\ \A i \in 1..Len(delivered') : delivered'[i] < totalCount - size + end
<1> DEFINE old == delivered
           page == Page(offset, end)
           new == delivered'
<1>1. /\ old \in Seq(ItemNumbers)
      /\ \A i \in 1..Len(old) : old[i] < totalCount - size
      /\ StrictlyIncreasing(old)
      /\ size \in Nat /\ totalCount \in Nat /\ end \in Nat
  BY CapacityAssumption, MaxPushesAssumption
     DEF IInv, TypeOK, DeliveredAreGone, DeliveredInOrder
<1>2. /\ page \in Seq(ItemNumbers)
      /\ StrictlyIncreasing(page)
      /\ \A i \in 1..Len(page) : /\ page[i] >= totalCount - size
                                 /\ page[i] < totalCount - size + end
  BY PageProperties
<1>3. /\ new = old \o page
      /\ new \in Seq(ItemNumbers)
      /\ Len(new) = Len(old) + Len(page)
      /\ \A i \in 1..Len(new) :
            new[i] = IF i <= Len(old) THEN old[i] ELSE page[i - Len(old)]
  BY <1>1, <1>2, ConcatProperties
<1>4. Len(old) \in Nat /\ Len(page) \in Nat
  BY <1>1, <1>2, LenProperties
<1>5. /\ \A i \in 1..Len(old) : old[i] \in Int
      /\ \A i \in 1..Len(page) : page[i] \in Int
  <2>1. ItemNumbers \subseteq Int
    BY MaxPushesAssumption DEF ItemNumbers
  <2> HIDE DEF old, page
  <2>2. \A i \in 1..Len(old) : old[i] \in ItemNumbers
    BY <1>1, ElementOfSeq
  <2>3. \A i \in 1..Len(page) : page[i] \in ItemNumbers
    BY <1>2, ElementOfSeq
  <2>4. QED
    BY <2>1, <2>2, <2>3
<1> HIDE DEF old, page, new
<1>6. \A i \in 1..Len(new) : new[i] < totalCount - size + end
  <2> SUFFICES ASSUME NEW i \in 1..Len(new) PROVE new[i] < totalCount - size + end
    OBVIOUS
  <2>1. CASE i <= Len(old)
    BY <1>1, <1>3, <1>4, <1>5, <2>1
  <2>2. CASE i > Len(old)
    BY <1>2, <1>3, <1>4, <2>2
  <2>3. QED
    BY <1>3, <1>4, <2>1, <2>2
<1>7. StrictlyIncreasing(new)
  <2> SUFFICES ASSUME NEW i \in 1..Len(new), NEW j \in 1..Len(new), i < j
               PROVE  new[i] < new[j]
    BY DEF StrictlyIncreasing
  <2>1. CASE j <= Len(old)
    BY <1>1, <1>3, <1>4, <2>1 DEF StrictlyIncreasing
  <2>2. CASE i > Len(old)
    <3>1. i - Len(old) \in 1..Len(page) /\ j - Len(old) \in 1..Len(page)
      BY <1>3, <1>4, <2>2
    <3>2. page[i - Len(old)] < page[j - Len(old)]
      <4>1. i - Len(old) < j - Len(old)
        BY <1>3, <1>4
      <4>2. QED
        BY <1>2, <3>1, <4>1 DEF StrictlyIncreasing
    <3>3. QED
      BY <1>3, <1>4, <2>2, <3>2
  <2>3. CASE i <= Len(old) /\ j > Len(old)
    <3>1. new[i] = old[i] /\ i \in 1..Len(old)
      BY <1>3, <1>4, <2>3
    <3>2. new[j] = page[j - Len(old)] /\ j - Len(old) \in 1..Len(page)
      BY <1>3, <1>4, <2>3
    <3>3. old[i] < totalCount - size /\ old[i] \in Int
      BY <1>1, <1>5, <3>1
    <3>4. page[j - Len(old)] >= totalCount - size /\ page[j - Len(old)] \in Int
      BY <1>2, <1>5, <3>2
    <3>5. QED
      BY <1>1, <3>1, <3>2, <3>3, <3>4
  <2>4. QED
    BY <1>3, <1>4, <2>1, <2>2, <2>3
<1>8. QED
  BY <1>3, <1>6, <1>7 DEF DeliveredInOrder, new

LEMMA ConsumeIInv ==
    ASSUME IInv, NEW limit \in Limits, NEW offset \in Offsets, AskedType',
           Consume(limit, offset)
    PROVE  IInv'
<1> DEFINE end == PageEnd(limit, offset)
<1>1. offset \in Nat /\ end \in offset..size
  BY PageEndBounds DEF IInv, Consume
<1>2. /\ reply' = Page(offset, end)
      /\ delivered' = delivered \o Page(offset, end)
      /\ head' = Forward(head, end)
      /\ size' = size - end
      /\ consumedCount' = consumedCount + end
      /\ UNCHANGED <<items, tail, droppedCount, totalCount>>
  BY DEF Consume
<1> HIDE DEF end
<1>3. /\ Capacity \in Nat /\ size \in 0..Capacity /\ totalCount \in Nat
      /\ head \in Slots /\ consumedCount \in Nat /\ droppedCount \in Nat
      /\ end \in 0..Capacity /\ end \in Nat
  BY <1>1, CapacityAssumption, MaxPushesAssumption DEF IInv, TypeOK
<1>4. /\ delivered' \in Seq(ItemNumbers)
      /\ DeliveredInOrder'
      /\ \A i \in 1..Len(delivered') : delivered'[i] < totalCount - size + end
  BY <1>1, <1>2, DeliverInOrder
<1>5. TypeOK'
  <2>1. reply' \in Seq(ItemNumbers)
    BY <1>1, <1>2, PageProperties
  <2>2. head' \in Slots
    BY <1>2, <1>3, ForwardIsSlot
  <2>3. size' \in 0..Capacity /\ consumedCount' \in Nat
    BY <1>1, <1>2, <1>3
  <2>4. QED
    BY <1>2, <1>4, <2>1, <2>2, <2>3 DEF IInv, TypeOK, AskedType
<1>6. Accounting'
  BY <1>2, <1>3 DEF IInv, Accounting
<1>7. TailFollowsItems'
  <2>1. size' \in 0..Capacity /\ end + size' <= Capacity /\ end + size' = size
    BY <1>1, <1>2, <1>3
  <2>2. Forward(Forward(head, end), size') = Forward(head, end + size')
    BY <1>3, <2>1, ForwardTwice
  <2>3. QED
    BY <1>2, <2>1, <2>2 DEF IInv, TailFollowsItems
<1>8. HoldsNewest'
  <2> SUFFICES ASSUME NEW i \in 0..(size' - 1)
               PROVE  items'[Forward(head', i)] = totalCount' - size' + i
    BY DEF HoldsNewest
  <2>1. i \in 0..Capacity /\ end + i <= Capacity /\ end + i \in 0..(size - 1)
    BY <1>1, <1>2, <1>3
  <2>2. Forward(head', i) = Forward(head, end + i)
    BY <1>2, <1>3, <2>1, ForwardTwice
  <2>3. items[Forward(head, end + i)] = totalCount - size + (end + i)
    BY <2>1 DEF IInv, HoldsNewest
  <2>4. QED
    BY <1>2, <1>3, <2>1, <2>2, <2>3
<1>9. DeliveredAreGone'
  <2>1. totalCount' - size' = totalCount - size + end
    BY <1>2, <1>3
  <2>2. QED
    BY <1>4, <2>1 DEF DeliveredAreGone
<1>10. QED
  BY <1>4, <1>5, <1>6, <1>7, <1>8, <1>9 DEF IInv

LEMMA NextIInv == IInv /\ [Next]_vars => IInv'
<1> SUFFICES ASSUME IInv, [Next]_vars PROVE IInv'
  OBVIOUS
<1>1. CASE Push
  BY <1>1, PushIInv
<1>2. ASSUME NEW limit \in Limits, NEW offset \in Offsets, NEW consume \in BOOLEAN,
             Get(limit, offset, consume)
      PROVE  IInv'
  <2>0. AskedType'
    BY <1>2 DEF Get, AskedType
  <2>1. CASE GetNothing(offset)
    BY <2>0, <2>1, GetNothingIInv
  <2>2. CASE Read(limit, offset)
    BY <2>0, <2>2, ReadIInv
  <2>3. CASE Consume(limit, offset)
    BY <2>0, <2>3, ConsumeIInv
  <2>4. QED
    BY <1>2, <2>1, <2>2, <2>3 DEF Get
<1>3. CASE UNCHANGED vars
  BY <1>3 DEF vars, IInv, TypeOK, Accounting, TailFollowsItems, HoldsNewest,
              DeliveredInOrder, DeliveredAreGone
<1>4. QED
  BY <1>1, <1>2, <1>3 DEF Next

----------------------------------------------------------------------------
(* The theorems *)

\* The inductive invariant holds of every behaviour of the ring.
THEOREM Invariance == Spec => []IInv
BY InitIInv, NextIInv, PTL DEF Spec

\* The read and write positions stay inside the buffer and the size within
\* the capacity, for every capacity.
THEOREM TypeCorrectness == Spec => []TypeOK
<1>1. IInv => TypeOK
  BY DEF IInv
<1>2. QED
  BY <1>1, Invariance, PTL

\* Items pushed = items queued + items overwritten + items consumed.
THEOREM CountersAddUp == Spec => []Accounting
<1>1. IInv => Accounting
  BY DEF IInv
<1>2. QED
  BY <1>1, Invariance, PTL

\* The queue always holds the newest items, oldest at the head.
THEOREM QueueHoldsNewest == Spec => []HoldsNewest
<1>1. IInv => HoldsNewest
  BY DEF IInv
<1>2. QED
  BY <1>1, Invariance, PTL

\* Consuming Gets hand each item over at most once, in the order of pushes.
THEOREM AtMostOnceInOrder == Spec => [](DeliveredInOrder /\ DeliveredAreGone)
<1>1. IInv => DeliveredInOrder /\ DeliveredAreGone
  BY DEF IInv
<1>2. QED
  BY <1>1, Invariance, PTL

----------------------------------------------------------------------------
(* The ring implements the abstract FIFO queue *)

LEMMA InitRefines == Init => Fifo!Init
BY DEF Init, Fifo!Init

\* The ring's page is the abstract page: the buffer, read through the head and
\* the wrap around, holds the numbers the abstract queue computes.
LEMMA PageRefines ==
    ASSUME IInv, NEW limit \in Limits, NEW offset \in Offsets, offset < size
    PROVE  /\ Page(offset, PageEnd(limit, offset))
                = Fifo!Run(totalCount - size + offset, Fifo!PageEnd(limit, offset))
           /\ Fifo!PageEnd(limit, offset) = totalCount - size + PageEnd(limit, offset)
<1> DEFINE end == PageEnd(limit, offset)
<1>1. /\ limit \in Nat /\ offset \in Nat /\ end \in offset..size
      /\ size \in Nat /\ totalCount \in Nat
  BY PageEndBounds, CapacityAssumption, MaxPushesAssumption DEF IInv, TypeOK
<1>2. Fifo!PageEnd(limit, offset) = totalCount - size + end
  BY <1>1 DEF Fifo!PageEnd, PageEnd
<1> HIDE DEF end
<1>3. Page(offset, end)
        = [i \in 1..(end - offset) |-> totalCount - size + offset + i - 1]
  BY <1>1, PageIsRun
<1>4. (totalCount - size + end) - (totalCount - size + offset) = end - offset
  BY <1>1
<1>5. Fifo!Run(totalCount - size + offset, totalCount - size + end)
        = [i \in 1..(end - offset) |-> totalCount - size + offset + i - 1]
  BY <1>4 DEF Fifo!Run
<1>6. QED
  BY <1>2, <1>3, <1>5 DEF end

LEMMA NextRefines == IInv /\ [Next]_vars => [Fifo!Next]_(Fifo!vars)
<1> SUFFICES ASSUME IInv, [Next]_vars PROVE [Fifo!Next]_(Fifo!vars)
  OBVIOUS
<1>1. size \in 0..Capacity /\ totalCount \in Nat /\ Capacity \in Nat
  BY CapacityAssumption, MaxPushesAssumption DEF IInv, TypeOK
<1>2. CASE Push
  <2>1. totalCount < MaxPushes /\ totalCount' = totalCount + 1
        /\ UNCHANGED <<asked, reply, delivered>>
    BY <1>2 DEF Push
  <2>2. size' = IF size = Capacity THEN size ELSE size + 1
    BY <1>1, <1>2 DEF Push, MakeRoom
  <2>3. totalCount' - size' = IF totalCount - (totalCount - size) = Capacity
                              THEN totalCount - size + 1 ELSE totalCount - size
    BY <1>1, <2>1, <2>2
  <2>4. Fifo!Push
    BY <2>1, <2>3 DEF Fifo!Push
  <2>5. QED
    BY <2>4 DEF Fifo!Next
<1>3. ASSUME NEW limit \in Limits, NEW offset \in Offsets, NEW consume \in BOOLEAN,
             Get(limit, offset, consume)
      PROVE  Fifo!Get(limit, offset, consume)
  <2>1. offset \in Nat
    BY OffsetsAssumption
  <2>2. offset < size <=> totalCount - size + offset < totalCount
    BY <1>1, <2>1
  <2>3. offset >= size <=> totalCount - size + offset >= totalCount
    BY <1>1, <2>1
  <2>4. CASE GetNothing(offset)
    <3>1. Fifo!GetNothing(offset)
      BY <2>3, <2>4 DEF GetNothing, Fifo!GetNothing, buffer, stats
    <3>2. QED
      BY <1>3, <2>4, <3>1 DEF Get, Fifo!Get
  <2>5. CASE ~consume /\ Read(limit, offset)
    <3>1. Fifo!Read(limit, offset)
      BY <2>2, <2>5, PageRefines DEF Read, Fifo!Read, buffer, stats
    <3>2. QED
      BY <1>3, <2>5, <3>1 DEF Get, Fifo!Get
  <2>6. CASE consume /\ Consume(limit, offset)
    <3>1. PageEnd(limit, offset) \in offset..size
      BY <2>6, PageEndBounds DEF IInv, Consume
    <3>2. totalCount' - size' = totalCount - size + PageEnd(limit, offset)
      BY <1>1, <2>1, <2>6, <3>1 DEF Consume
    <3>3. Fifo!Consume(limit, offset)
      BY <2>2, <2>6, <3>2, PageRefines DEF Consume, Fifo!Consume
    <3>4. QED
      BY <1>3, <2>6, <3>3 DEF Get, Fifo!Get
  <2>7. QED
    BY <1>3, <2>4, <2>5, <2>6 DEF Get
<1>4. CASE UNCHANGED vars
  BY <1>4 DEF vars, Fifo!vars
<1>5. QED
  BY <1>2, <1>3, <1>4 DEF Next, Fifo!Next

\* Every behaviour of the ring is a behaviour of the abstract FIFO queue.
THEOREM Refinement == Spec => RefinesFifo
BY InitRefines, NextRefines, Invariance, PTL DEF Spec, RefinesFifo, Fifo!Spec
=============================================================================
