----------------------------- MODULE FifoQueue -----------------------------
(***************************************************************************)
(* What the in-memory store promises its callers: a bounded FIFO queue    *)
(* that makes room by giving up its oldest item. Items are numbered in     *)
(* the order they are pushed, so the content of the queue is an interval   *)
(* of numbers; there is no buffer, no head and no tail here.               *)
(***************************************************************************)
EXTENDS Integers, Sequences

CONSTANTS
    Capacity,   \* number of items the queue holds
    MaxPushes,  \* bound: number of items ever pushed
    Limits,     \* page sizes callers ask for
    Offsets     \* page offsets callers ask for

VARIABLES
    first,      \* number of the oldest item still in the queue
    next,       \* number of the item pushed next
    asked,      \* the arguments of the latest Get
    reply,      \* the page it returned
    delivered   \* every item handed over by a consuming Get, in order

vars == <<first, next, asked, reply, delivered>>

Init ==
    /\ first = 0
    /\ next = 0
    /\ asked = <<>>
    /\ reply = <<>>
    /\ delivered = <<>>

Push ==
    /\ next < MaxPushes
    /\ next' = next + 1
    /\ first' = IF next - first = Capacity THEN first + 1 ELSE first
    /\ UNCHANGED <<asked, reply, delivered>>

\* The numbers from lo up to, and not including, hi.
Run(lo, hi) == [i \in 1..(hi - lo) |-> lo + i - 1]

PageEnd(limit, offset) ==
    IF first + offset + limit > next THEN next ELSE first + offset + limit

\* A page beyond the end of the queue is empty, and removes nothing.
GetNothing(offset) ==
    /\ first + offset >= next
    /\ reply' = <<>>
    /\ UNCHANGED <<first, next, delivered>>

Read(limit, offset) ==
    /\ first + offset < next
    /\ reply' = Run(first + offset, PageEnd(limit, offset))
    /\ UNCHANGED <<first, next, delivered>>

\* A consuming Get removes the page and everything older than it.
Consume(limit, offset) ==
    /\ first + offset < next
    /\ reply' = Run(first + offset, PageEnd(limit, offset))
    /\ delivered' = delivered \o reply'
    /\ first' = PageEnd(limit, offset)
    /\ UNCHANGED next

\* The arguments decide which of the three it is.
Get(limit, offset, consume) ==
    /\ asked' = <<limit, offset, consume>>
    /\ \/ GetNothing(offset)
       \/ ~consume /\ Read(limit, offset)
       \/ consume /\ Consume(limit, offset)

Next ==
    \/ Push
    \/ \E limit \in Limits, offset \in Offsets, consume \in BOOLEAN :
          Get(limit, offset, consume)

Spec == Init /\ [][Next]_vars
=============================================================================
