----------------------------- MODULE ItemStore -----------------------------
(***************************************************************************)
(* What the interface DBHandler (pkg/database/interface.go) means for the  *)
(* items of one source, whichever store is behind it: an item is stored    *)
(* once, and from then on it can be read until it is taken by a consuming  *)
(* request or lost to make room. There is no way back.                     *)
(*                                                                         *)
(* ChannelDB and BoltQueue implement this module. Which item is lost, and  *)
(* in which order items are taken, is where the two differ.                *)
(***************************************************************************)
EXTENDS Integers

VARIABLES
    next,       \* the identifier of the item stored next
    available,  \* the items that can be read
    taken       \* the items that consuming requests were given

vars == <<next, available, taken>>

Init == next = 0 /\ available = {} /\ taken = {}

\* StoreTRNGData, StoreFortunaData: the new item, or others, may be lost at once.
Store ==
    /\ next' = next + 1
    /\ available' \in SUBSET (available \cup {next})
    /\ UNCHANGED taken

Lose ==
    /\ available' \in SUBSET available
    /\ UNCHANGED <<next, taken>>

\* GetTRNGData, GetFortunaData with consume, or a part of it.
Take ==
    \E items \in SUBSET available :
        /\ available' = available \ items
        /\ taken' = taken \cup items
        /\ UNCHANGED next

Next == Store \/ Lose \/ Take

Spec == Init /\ [][Next]_vars
=============================================================================
