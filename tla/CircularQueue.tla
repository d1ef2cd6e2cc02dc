--------------------------- MODULE CircularQueue ---------------------------
(***************************************************************************)
(* The ring buffer of pkg/database/channel.go, which holds the random data *)
(* of one source (TRNG or Fortuna) when DB_IMPLEMENTATION is "channel".    *)
(*                                                                         *)
(* Push and Get hold q.mu from their first statement to their return, so   *)
(* each is one step here; ChannelDB is the module where the counters, which *)
(* other goroutines load without the lock, are written one at a time.      *)
(* The data of an item is abstracted to the number of its Push.            *)
(*                                                                         *)
(* A definition named X_Y is a faulty version of X, in the way Y: no       *)
(* specification uses it, it shows that a property would notice the fault. *)
(***************************************************************************)
EXTENDS Integers, Sequences

CONSTANTS
    Capacity,   \* NewCircularQueue's argument (TRNG_QUEUE_SIZE)
    MaxPushes,  \* bound: number of items ever pushed
    Limits,     \* the limits Get is called with
    Offsets     \* the offsets Get is called with

\* With a capacity of 0, Push computes "% 0" and panics.
ASSUME CapacityAssumption == Capacity \in Nat \ {0}
ASSUME MaxPushesAssumption == MaxPushes \in Nat
ASSUME LimitsAssumption == Limits \subseteq Nat
ASSUME OffsetsAssumption == Offsets \subseteq Nat

VARIABLES
    items,          \* the buffer
    head,           \* read position
    tail,           \* write position
    size,           \* current number of items
    droppedCount,   \* stats: items overwritten by Push
    consumedCount,  \* stats: items removed by a consuming Get
    totalCount,     \* stats: items pushed
    asked,          \* the arguments of the latest Get, <<>> before the first
    reply,          \* what it returned
    delivered       \* history: everything consuming Gets returned, in order

buffer == <<items, head, tail, size>>
stats == <<droppedCount, consumedCount, totalCount>>
vars == <<items, head, tail, size, droppedCount, consumedCount, totalCount,
          asked, reply, delivered>>

Slots == 0..(Capacity - 1)
NoItem == -1    \* the zero DataItem that make() fills the buffer with

Init ==
    /\ items = [s \in Slots |-> NoItem]
    /\ head = 0 /\ tail = 0 /\ size = 0
    /\ droppedCount = 0 /\ consumedCount = 0 /\ totalCount = 0
    /\ asked = <<>> /\ reply = <<>> /\ delivered = <<>>

Forward_NoWrap(p, i) == p + i

\* The position i places after position p.
Forward(p, i) == (p + i) % Capacity

----------------------------------------------------------------------------
(* Push *)

MakeRoom_NotCounted ==
    /\ size' = IF size = Capacity THEN size ELSE size + 1
    /\ head' = IF size = Capacity THEN Forward(head, 1) ELSE head
    /\ UNCHANGED droppedCount

MakeRoom_KeepsHead ==
    /\ size' = IF size = Capacity THEN size ELSE size + 1
    /\ droppedCount' = IF size = Capacity THEN droppedCount + 1 ELSE droppedCount
    /\ UNCHANGED head

\* A full queue gives up the item at the head before the new one is written.
MakeRoom ==
    \/ /\ size = Capacity
       /\ droppedCount' = droppedCount + 1
       /\ head' = Forward(head, 1)
       /\ size' = size
    \/ /\ size # Capacity
       /\ size' = size + 1
       /\ UNCHANGED <<droppedCount, head>>

Push ==
    /\ totalCount < MaxPushes
    /\ MakeRoom
    /\ items' = [items EXCEPT ![tail] = totalCount]
    /\ tail' = Forward(tail, 1)
    /\ totalCount' = totalCount + 1
    /\ UNCHANGED <<consumedCount, asked, reply, delivered>>

----------------------------------------------------------------------------
(* Get(limit, offset, consume) *)

PageEnd_OffByOne(limit, offset) ==
    IF offset + limit >= size THEN size - 1 ELSE offset + limit

\* One past the last position of the page, counted from the head.
PageEnd(limit, offset) == IF offset + limit > size THEN size ELSE offset + limit

Page_FromTail(offset, end) ==
    [i \in 1..(end - offset) |-> items[Forward(tail, offset + i - 1)]]

\* The items at positions offset .. end-1 from the head.
Page(offset, end) ==
    [i \in 1..(end - offset) |-> items[Forward(head, offset + i - 1)]]

GetNothing(offset) ==
    /\ offset >= size
    /\ reply' = <<>>
    /\ UNCHANGED <<buffer, stats, delivered>>

\* Without consume, the page is copied.
Read(limit, offset) ==
    /\ offset < size
    /\ reply' = Page(offset, PageEnd(limit, offset))
    /\ UNCHANGED <<buffer, stats, delivered>>

Consume_KeepsSkipped(limit, offset) ==
    LET end == PageEnd(limit, offset) IN
    /\ offset < size
    /\ reply' = Page(offset, end)
    /\ delivered' = delivered \o reply'
    /\ head' = Forward(head, end - offset)
    /\ size' = size - (end - offset)
    /\ consumedCount' = consumedCount + end - offset
    /\ UNCHANGED <<items, tail, droppedCount, totalCount>>

\* With consume, the offset items are skipped, the page is returned, and
\* all of them leave the queue and count as consumed.
Consume(limit, offset) ==
    LET end == PageEnd(limit, offset) IN
    /\ offset < size
    /\ reply' = Page(offset, end)
    /\ delivered' = delivered \o reply'
    /\ head' = Forward(head, end)
    /\ size' = size - end
    /\ consumedCount' = consumedCount + end
    /\ UNCHANGED <<items, tail, droppedCount, totalCount>>

Get(limit, offset, consume) ==
    /\ asked' = <<limit, offset, consume>>
    /\ \/ GetNothing(offset)
       \/ ~consume /\ Read(limit, offset)
       \/ consume /\ Consume(limit, offset)

Next == \/ Push
        \/ \E limit \in Limits, offset \in Offsets, consume \in BOOLEAN :
              Get(limit, offset, consume)

Spec == Init /\ [][Next]_vars
----------------------------------------------------------------------------
(* Properties *)

ItemNumbers == 0..(MaxPushes - 1)

\* Every variable has its type: in particular the read and write positions
\* stay inside the buffer (an index out of range panics) and the size never
\* exceeds the capacity.
TypeOK ==
    /\ items \in [Slots -> ItemNumbers \cup {NoItem}]
    /\ head \in Slots
    /\ tail \in Slots
    /\ size \in 0..Capacity
    /\ droppedCount \in Nat
    /\ consumedCount \in Nat
    /\ totalCount \in 0..MaxPushes
    /\ asked = <<>> \/ asked \in Limits \X Offsets \X BOOLEAN
    /\ reply \in Seq(ItemNumbers)
    /\ delivered \in Seq(ItemNumbers)

\* The counters of the status page add up: every item ever pushed is still in
\* the queue, was overwritten, or was consumed, and was counted once (Push and
\* the two loops of a consuming Get keep them by hand).
Accounting == totalCount = size + droppedCount + consumedCount

\* The write position is where the items end: the code keeps head, tail and
\* size separately, and a Push onto a wrong tail would overwrite live data.
TailFollowsItems == tail = Forward(head, size)

\* The queue holds exactly the newest items pushed, oldest at the head: an
\* overwrite takes the oldest item, and nothing older than what was consumed
\* comes back when the positions wrap around.
HoldsNewest ==
    \A i \in 0..(size - 1) : items[Forward(head, i)] = totalCount - size + i

StrictlyIncreasing(s) == \A i, j \in 1..Len(s) : i < j => s[i] < s[j]

\* Consuming Gets hand items over in the order they were pushed and never hand
\* the same item over twice, through any number of overwrites, skipped
\* offsets and turns of the ring.
DeliveredInOrder == StrictlyIncreasing(delivered)

\* Nothing that was handed over is still in the queue.
DeliveredAreGone ==
    \A i \in 1..Len(delivered) : delivered[i] < totalCount - size

\* The inductive invariant: what the proofs carry from step to step.
IInv ==
    /\ TypeOK
    /\ Accounting
    /\ TailFollowsItems
    /\ HoldsNewest
    /\ DeliveredInOrder
    /\ DeliveredAreGone

\* The ring implements the abstract queue: an item's number is its position in
\* the order of pushes, and the queue's content is the interval that ends at
\* the total count.
Fifo == INSTANCE FifoQueue WITH first <- totalCount - size, next <- totalCount

\* Every step of the ring is a step of the abstract FIFO queue: what a Get is
\* asked for decides what it returns and removes.
RefinesFifo == Fifo!Spec
=============================================================================
