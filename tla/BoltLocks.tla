----------------------------- MODULE BoltLocks -----------------------------
(***************************************************************************)
(* The locks that the calls of pkg/database/bolt.go take and hold: the     *)
(* handler's own h.mu, for the queue sizes, and the three of bbolt that    *)
(* its transactions take (rwlock: one read-write transaction at a time;    *)
(* metalock: while a transaction begins or ends; mmaplock: held by every   *)
(* read transaction, and taken for writing by a commit that has to remap   *)
(* a file that grew). A call is the sequence of its lock operations; what  *)
(* it does with the data is BoltQueue's.                                   *)
(*                                                                         *)
(* A definition named X_Y is a faulty version of X, in the way Y.          *)
(***************************************************************************)
EXTENDS Integers, Sequences

CONSTANTS
    Goroutines,     \* the goroutines that call the handler
    Calls           \* the handler's methods that they call

ASSUME CallsAssumption ==
    Calls \subseteq {"Store", "Get", "GetDetailedStats", "GetQueueInfo", "UpdateQueueSizes"}

VARIABLES
    todo,       \* per goroutine: the lock operations its call has still to do
    readers,    \* per lock: the goroutines that hold it for reading
    writer,     \* per lock: the goroutine that holds it, if any
    pending     \* per lock: the goroutines waiting in Lock

vars == <<todo, readers, writer, pending>>

Locks == {"mu", "rwlock", "metalock", "mmaplock"}

Init ==
    /\ todo = [g \in Goroutines |-> <<>>]
    /\ readers = [l \in Locks |-> {}]
    /\ writer = [l \in Locks |-> {}]
    /\ pending = [l \in Locks |-> {}]

----------------------------------------------------------------------------
(* What the calls do. *)

Reading_NeverUnlocks(lock, inside) == <<[op |-> "RLock", lock |-> lock]>> \o inside

Reading(lock, inside) == <<[op |-> "RLock", lock |-> lock]>> \o inside
                         \o <<[op |-> "RUnlock", lock |-> lock]>>

Holding(lock, inside) == <<[op |-> "Lock", lock |-> lock]>> \o inside
                         \o <<[op |-> "Unlock", lock |-> lock]>>

\* bbolt's db.View: a read transaction begins under metalock and keeps the
\* mmaplock to its end.
View(inside) ==
    Holding("metalock", <<[op |-> "RLock", lock |-> "mmaplock"]>>) \o inside
    \o <<[op |-> "RUnlock", lock |-> "mmaplock"]>> \o Holding("metalock", <<>>)

\* bbolt's db.Update: a read-write transaction; its commit may have to remap.
Update(inside, remap) ==
    Holding("rwlock",
            Holding("metalock", <<>>) \o inside
            \o (IF remap THEN Holding("mmaplock", <<>>) ELSE <<>>))

\* StoreTRNGData: the trim reads the queue size inside the transaction.
Store(remap) == Update(Reading("mu", <<>>), remap)

\* GetTRNGData: a read-write transaction whether it consumes or not.
Get(remap) == Update(<<>>, remap)

\* GetDetailedStats reads both queue sizes inside its read transaction, and
\* the size of the file in another one.
GetDetailedStats == View(Reading("mu", <<>>) \o Reading("mu", <<>>)) \o View(<<>>)

\* GetQueueInfo keeps h.mu (a deferred unlock) over its read transaction.
GetQueueInfo == Reading("mu", View(<<>>))

UpdateQueueSizes_Deferred(remap) == Holding("mu", Update(<<>>, remap))

\* UpdateQueueSizes sets the sizes under h.mu and stores them afterwards.
UpdateQueueSizes(remap) == Holding("mu", <<>>) \o Update(<<>>, remap)

Program(call, remap) == CASE call = "Store" -> Store(remap)
                          [] call = "Get" -> Get(remap)
                          [] call = "GetDetailedStats" -> GetDetailedStats
                          [] call = "GetQueueInfo" -> GetQueueInfo
                          [] call = "UpdateQueueSizes" -> UpdateQueueSizes(remap)

----------------------------------------------------------------------------
(* The locks: Go's sync.RWMutex, of which a Mutex is one without readers. *)

IsNext(g, op) == todo[g] # <<>> /\ Head(todo[g]).op = op
Lock(g) == Head(todo[g]).lock
Advance(g) == todo' = [todo EXCEPT ![g] = Tail(@)]

\* A goroutine that is done makes another call.
Call(g) ==
    /\ todo[g] = <<>>
    /\ \E call \in Calls, remap \in BOOLEAN :
          todo' = [todo EXCEPT ![g] = Program(call, remap)]
    /\ UNCHANGED <<readers, writer, pending>>

CanRead(g) == writer[Lock(g)] = {} /\ pending[Lock(g)] = {}

\* RLock waits for a writer that holds the lock and for one that waits for it.
AcquireRead(g) ==
    /\ IsNext(g, "RLock")
    /\ CanRead(g)
    /\ readers' = [readers EXCEPT ![Lock(g)] = @ \cup {g}]
    /\ Advance(g)
    /\ UNCHANGED <<writer, pending>>

\* Lock first announces the writer, which keeps new readers out ...
Announce(g) ==
    /\ IsNext(g, "Lock")
    /\ g \notin pending[Lock(g)]
    /\ pending' = [pending EXCEPT ![Lock(g)] = @ \cup {g}]
    /\ UNCHANGED <<todo, readers, writer>>

CanWrite(g) == writer[Lock(g)] = {} /\ readers[Lock(g)] = {}

\* ... and then waits for whoever holds the lock.
AcquireWrite(g) ==
    /\ IsNext(g, "Lock")
    /\ g \in pending[Lock(g)]
    /\ CanWrite(g)
    /\ writer' = [writer EXCEPT ![Lock(g)] = {g}]
    /\ pending' = [pending EXCEPT ![Lock(g)] = @ \ {g}]
    /\ Advance(g)
    /\ UNCHANGED readers

Release(g) ==
    \/ /\ IsNext(g, "RUnlock")
       /\ readers' = [readers EXCEPT ![Lock(g)] = @ \ {g}]
       /\ Advance(g)
       /\ UNCHANGED <<writer, pending>>
    \/ /\ IsNext(g, "Unlock")
       /\ writer' = [writer EXCEPT ![Lock(g)] = {}]
       /\ Advance(g)
       /\ UNCHANGED <<readers, pending>>

Next == \E g \in Goroutines :
            Call(g) \/ AcquireRead(g) \/ Announce(g) \/ AcquireWrite(g) \/ Release(g)

Spec == Init /\ [][Next]_vars
----------------------------------------------------------------------------
(* Properties *)

\* A lock has readers or one writer, and a call that is over has given back
\* every lock it took.
TypeOK ==
    /\ \A l \in Locks :
          /\ readers[l] \subseteq Goroutines
          /\ writer[l] = {} \/ (readers[l] = {} /\ \E g \in Goroutines : writer[l] = {g})
          /\ pending[l] \subseteq Goroutines
    /\ \A g \in Goroutines :
          /\ todo[g] \in Seq([op : {"RLock", "RUnlock", "Lock", "Unlock"}, lock : Locks])
          /\ todo[g] = <<>> =>
                \A l \in Locks : g \notin readers[l] \cup writer[l] \cup pending[l]

\* The goroutines whose next lock operation goes through (a Lock that has not
\* been announced can be).
CanProceed(g) ==
    \/ IsNext(g, "RLock") /\ CanRead(g)
    \/ IsNext(g, "Lock") /\ (g \notin pending[Lock(g)] \/ CanWrite(g))
    \/ IsNext(g, "RUnlock") \/ IsNext(g, "Unlock")

\* The sizes are safe to use concurrently: calls that are under way never all
\* wait for one another.
NoDeadlock ==
    (\E g \in Goroutines : todo[g] # <<>>) => \E g \in Goroutines : CanProceed(g)
=============================================================================
