----------------------------- MODULE BoltQueue -----------------------------
(***************************************************************************)
(* The persistent store of pkg/database/bolt.go: one source's bucket (the  *)
(* TRNG and Fortuna methods are twins), its counters, the queue size in    *)
(* memory and in the config bucket, with the goroutines that use it and    *)
(* the process that crashes and restarts under it.                         *)
(*                                                                         *)
(* bbolt runs one read-write transaction at a time and commits all of it   *)
(* or nothing, so each db.Update is one step here, and may fail instead    *)
(* (the step then changes nothing in the database). What happens between   *)
(* two transactions, or after one and before the response, is interleaved. *)
(*                                                                         *)
(* A definition named X_Y is a faulty version of X, in the way Y.          *)
(***************************************************************************)
EXTENDS Integers, FiniteSets

CONSTANTS
    Clients,    \* goroutines serving /data requests
    Sizes,      \* queue sizes: the environment's at a start, an admin's later
    MaxID,      \* bound: number of items ever stored
    Pages       \* the <<limit, offset>> pairs of the requests

ASSUME SizesAssumption == Sizes \subseteq Nat /\ Sizes # {}
ASSUME MaxIDAssumption == MaxID \in Nat
ASSUME PagesAssumption == Pages \subseteq (Nat \X Nat)

VARIABLES
    bucket,         \* the stored items: identifier -> consumed?
    nextID,         \* counters bucket: <source>_next_id
    droppedCount, consumedCount, pollingCount,  \* counters bucket
    configSize,     \* config bucket: the queue size
    queueSize,      \* BoltDBHandler: the queue size that is used
    up,             \* the process is running
    poller,         \* where the poller is
    resizing,       \* sizes whose config transaction is still to come
    client,         \* per client: the page it has got and not yet sent
    uncounted,      \* history: how many stored polls were never counted
    taken,          \* history: the items marked consumed
    received        \* history, per item: the consuming responses it was in

counters == <<nextID, droppedCount, consumedCount, pollingCount>>
process == <<queueSize, up, poller, resizing, client>>
vars == <<bucket, nextID, droppedCount, consumedCount, pollingCount, configSize,
          queueSize, up, poller, resizing, client, uncounted, taken, received>>

IDs == 0..(MaxID - 1)
Stored == DOMAIN bucket
Unconsumed_All == Stored

Unconsumed == {id \in Stored : ~bucket[id]}

\* An item's place in a set of items walked in the order of their keys.
Rank(id, ids) == Cardinality({other \in ids : other < id})

Idle == [pc |-> "idle"]

\* NewBoltDBHandler on an empty database.
Init ==
    /\ bucket = [id \in {} |-> FALSE]
    /\ nextID = 0 /\ droppedCount = 0 /\ consumedCount = 0 /\ pollingCount = 0
    /\ queueSize \in Sizes
    /\ configSize = queueSize
    /\ up = TRUE
    /\ poller = "wait"
    /\ resizing = {}
    /\ client = [c \in Clients |-> Idle]
    /\ uncounted = 0
    /\ taken = {}
    /\ received = [id \in IDs |-> 0]

----------------------------------------------------------------------------
(* The poller *)

Trimmed_OffByOne(items) ==
    [id \in {id \in DOMAIN items : Rank(id, DOMAIN items) <= queueSize} |-> items[id]]

\* trimTRNGDataIfNeeded walks the bucket from its smallest key and deletes
\* every key past the first queueSize.
Trimmed(items) ==
    [id \in {id \in DOMAIN items : Rank(id, DOMAIN items) < queueSize} |-> items[id]]

Deleted_One(before, after) == IF DOMAIN before = DOMAIN after THEN 0 ELSE 1

\* The number of entries the trim deleted.
Deleted(before, after) == Cardinality(DOMAIN before) - Cardinality(DOMAIN after)

\* StoreTRNGData: the item, the trim and the counters in one transaction.
Store ==
    /\ up /\ poller = "wait"
    /\ nextID < MaxID
    /\ LET stored == [id \in Stored \cup {nextID} |-> id \in Stored /\ bucket[id]]
           kept == Trimmed(stored)
       IN  /\ bucket' = kept
           /\ droppedCount' = droppedCount + Deleted(stored, kept)
    /\ nextID' = nextID + 1
    /\ poller' = "count"
    /\ UNCHANGED <<consumedCount, pollingCount, configSize, queueSize, up, resizing,
                   client, uncounted, taken, received>>

\* The poll is counted in a transaction of its own; a failure is only logged.
IncrementPollingCount ==
    /\ up /\ poller = "count"
    /\ \/ pollingCount' = pollingCount + 1 /\ UNCHANGED uncounted
       \/ uncounted' = uncounted + 1 /\ UNCHANGED pollingCount
    /\ poller' = "wait"
    /\ UNCHANGED <<bucket, nextID, droppedCount, consumedCount, configSize, queueSize,
                   up, resizing, client, taken, received>>

----------------------------------------------------------------------------
(* Requests *)

\* The items at the places offset .. offset+limit-1 among the unconsumed ones.
Page(limit, offset) ==
    {id \in Unconsumed : Rank(id, Unconsumed) \in offset..(offset + limit - 1)}

Marked_Nothing(got) == bucket
Marked_Only(got) == [id \in Stored |-> id \in got]

\* The bucket with the items of a page marked as consumed.
Marked(got) == [id \in Stored |-> bucket[id] \/ id \in got]

\* GetTRNGData(limit, offset, consume): the transaction. The page is marked
\* consumed, the items the offset skips are not; the goroutine holds the page.
GetData(c, page, consume) ==
    LET got == Page(page[1], page[2]) IN
    /\ up /\ client[c] = Idle
    /\ client' = [client EXCEPT ![c] = [pc |-> "respond", items |-> got,
                                        consume |-> consume]]
    /\ IF consume
       THEN /\ bucket' = Marked(got)
            /\ consumedCount' = consumedCount + Cardinality(got)
            /\ taken' = taken \cup got
       ELSE UNCHANGED <<bucket, consumedCount, taken>>
    /\ UNCHANGED <<nextID, droppedCount, pollingCount, configSize, queueSize, up,
                   poller, resizing, uncounted, received>>

\* The transaction fails: the page was read, but the handler answers 500.
GetFails(c) ==
    /\ up /\ client[c] = Idle
    /\ client' = [client EXCEPT ![c] = [pc |-> "respond", items |-> {},
                                        consume |-> FALSE]]
    /\ UNCHANGED <<bucket, counters, configSize, queueSize, up, poller, resizing,
                   uncounted, taken, received>>

\* The response reaches whoever asked.
Respond(c) ==
    /\ up /\ client[c].pc = "respond"
    /\ received' = [id \in IDs |->
          IF client[c].consume /\ id \in client[c].items THEN received[id] + 1
                                                         ELSE received[id]]
    /\ client' = [client EXCEPT ![c] = Idle]
    /\ UNCHANGED <<bucket, counters, configSize, queueSize, up, poller, resizing,
                   uncounted, taken>>

----------------------------------------------------------------------------
(* PUT /config/queue: UpdateQueueSizes *)

\* The size takes effect in memory first, under h.mu ...
ResizeMemory(n) ==
    /\ up /\ n \notin resizing
    /\ queueSize' = n
    /\ resizing' = resizing \cup {n}
    /\ UNCHANGED <<bucket, counters, configSize, up, poller, client, uncounted, taken,
                   received>>

\* ... and is then stored, or is not if the transaction fails.
ResizeConfig(n) ==
    /\ up /\ n \in resizing
    /\ resizing' = resizing \ {n}
    /\ configSize' \in {configSize, n}
    /\ UNCHANGED <<bucket, counters, queueSize, up, poller, client, uncounted, taken,
                   received>>

----------------------------------------------------------------------------
(* The process *)

\* The process dies: whatever is not in the database is gone, and so is the
\* count of a poll whose item was just stored.
Crash ==
    /\ up
    /\ up' = FALSE
    /\ poller' = "wait"
    /\ uncounted' = uncounted + (IF poller = "count" THEN 1 ELSE 0)
    /\ resizing' = {}
    /\ client' = [c \in Clients |-> Idle]
    /\ UNCHANGED <<bucket, counters, configSize, queueSize, taken, received>>

Start_NoSize(n) ==
    /\ ~up
    /\ up' = TRUE
    /\ queueSize' = 0
    /\ UNCHANGED <<bucket, counters, configSize, poller, resizing, client, uncounted,
                   taken, received>>

Start_CountsAnew(n) ==
    /\ ~up
    /\ up' = TRUE
    /\ queueSize' = n
    /\ configSize' = n
    /\ pollingCount' = 0
    /\ UNCHANGED <<bucket, nextID, droppedCount, consumedCount, poller, resizing,
                   client, uncounted, taken, received>>

\* NewBoltDBHandler on a database that exists: counters that are there are
\* kept, the stored size is replaced by the environment's.
Start(n) ==
    /\ ~up
    /\ up' = TRUE
    /\ queueSize' = n
    /\ configSize' = n
    /\ UNCHANGED <<bucket, counters, poller, resizing, client, uncounted, taken,
                   received>>

Next == \/ Store \/ IncrementPollingCount
        \/ \E c \in Clients :
              \/ \E page \in Pages, consume \in BOOLEAN : GetData(c, page, consume)
              \/ GetFails(c)
              \/ Respond(c)
        \/ \E n \in Sizes : ResizeMemory(n) \/ ResizeConfig(n) \/ Start(n)
        \/ Crash

Spec == Init /\ [][Next]_vars
----------------------------------------------------------------------------
(* Properties *)

TypeOK ==
    /\ Stored \subseteq IDs /\ bucket \in [Stored -> BOOLEAN]
    /\ nextID \in 0..MaxID
    /\ droppedCount \in Nat /\ consumedCount \in Nat /\ pollingCount \in Nat
    /\ configSize \in Sizes /\ queueSize \in Sizes /\ resizing \subseteq Sizes
    /\ up \in BOOLEAN
    /\ poller \in {"wait", "count"}
    /\ uncounted \in Nat
    /\ client \in [Clients ->
          {Idle} \cup [pc : {"respond"}, items : SUBSET IDs, consume : BOOLEAN]]
    /\ taken \subseteq IDs
    /\ received \in [IDs -> Nat]

\* Every identifier ever drawn is of an item that is in the bucket or was
\* counted as dropped, through failed transactions, resizes and restarts.
EveryItemAccounted == nextID = Cardinality(Stored) + droppedCount

\* The consumed counter counts each consumed item once, and the flags in the
\* bucket are those of the items that were consumed.
ConsumedIsCounted ==
    /\ consumedCount = Cardinality(taken)
    /\ \A id \in Stored : bucket[id] <=> id \in taken

\* No item is in two consuming responses: an item whose response a crash
\* swallowed is lost, never handed out again. The items of a response on its
\* way are not in any other.
ReceivedAtMostOnce ==
    /\ \A id \in IDs : received[id] <= 1 /\ (received[id] = 1 => id \in taken)
    /\ \A c \in Clients :
          client[c] # Idle /\ client[c].consume =>
             \A id \in client[c].items :
                /\ id \in taken /\ received[id] = 0
                /\ \A d \in Clients \ {c} :
                      client[d] # Idle /\ client[d].consume => id \notin client[d].items

\* Every item stored is a poll counted, through resizes, crashes and restarts,
\* but for those whose second transaction failed or was cut off by a crash, each
\* of which leaves the count behind by one for ever, and the one being counted.
PollsMatchItems ==
    nextID = pollingCount + uncounted + (IF poller = "count" THEN 1 ELSE 0)

\* Whatever the size was before, a Store leaves no more items than the size in
\* force: a shrunk queue, or one reopened with a smaller size, is cut by the
\* next Store. And nothing but a Store ever removes an item.
StoreBoundsBucket ==
    [][ /\ nextID' # nextID => Cardinality(Stored') <= queueSize
        /\ Stored' # Stored => nextID' # nextID ]_vars

Abstract == INSTANCE ItemStore WITH next <- nextID, available <- Unconsumed

\* Failed transactions, resizes, crashes and restarts included, this is a store
\* that loses or hands out each item once: an item marked as consumed never
\* becomes readable again, and an identifier that left the bucket is not reused.
RefinesStore == Abstract!Spec

\* What the code and the documents say of a full queue: the oldest entries make
\* room for the new one, so whatever Store deletes is older than all it keeps.
DropsOldest ==
    [][ \A gone \in (Stored \cup {nextID}) \ Stored', kept \in Stored' :
          nextID' # nextID => gone < kept ]_vars

\* An item is dropped only when the queue is full, where its occupancy is the
\* number GetDetailedStats shows beside the capacity: the unconsumed items.
DropsOnlyWhenFull ==
    [][ droppedCount' # droppedCount => Cardinality(Unconsumed) >= queueSize ]_vars
=============================================================================
