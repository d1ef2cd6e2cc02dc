----------------------------- MODULE ChannelDB -----------------------------
(***************************************************************************)
(* The in-memory store in service: one source of the ChannelDBHandler of   *)
(* pkg/database/channel.go with the goroutines that use it. A poller       *)
(* stores what it fetches (pkg/api/polling.go), requests read or consume   *)
(* pages (pkg/api/server.go), and a status reader collects the counters    *)
(* with no lock while all of them run. The two sources have a queue each   *)
(* and share nothing but the consume mode, which may change at any time.   *)
(*                                                                         *)
(* CircularQueue shows that the ring is a FIFO queue; here the queue is    *)
(* that sequence, and what it takes several statements to do under q.mu is *)
(* cut at every write of a counter, because the counters are atomics that  *)
(* the status reader loads while the lock is held by another goroutine.    *)
(*                                                                         *)
(* A definition named X_Y is a faulty version of X, in the way Y.          *)
(***************************************************************************)
EXTENDS Integers, Sequences

CONSTANTS
    Clients,    \* goroutines serving /data requests
    Capacity,   \* capacity of the queue
    MaxItems,   \* bound: number of items ever stored
    Pages       \* the <<limit, offset>> pairs of the requests

ASSUME ClientsAssumption == Clients \cap {"free", "poller"} = {}
ASSUME CapacityAssumption == Capacity \in Nat \ {0}
ASSUME MaxItemsAssumption == MaxItems \in Nat
\* GetRandomData asks for at least its spare items (estimatedChunksNeeded).
ASSUME PagesAssumption == Pages \subseteq ((Nat \ {0}) \X Nat)

VARIABLES
    queue,          \* the identifiers of the items queued
    nextID,         \* the identifier of the next item
    dropped, consumed, total, polling,  \* the atomic counters
    mu,             \* the goroutine holding q.mu, or "free"
    poller,         \* where the poller is
    consumeMode,    \* Server.consumeMode
    client,         \* per client: its request and where it is
    taken,          \* history: the items consumed, in order
    status          \* the status reader: its loads so far

counters == <<dropped, consumed, total, polling>>
vars == <<queue, nextID, dropped, consumed, total, polling, mu, poller,
          consumeMode, client, taken, status>>

NoRequest == [pc |-> "idle"]

\* Nobody holds q.mu.
Unlocked == mu = "free"

Full_OffByOne == Len(queue) > Capacity

Full == Len(queue) = Capacity

RemoveHead_Copies == UNCHANGED queue

RemoveHead == queue' = Tail(queue)

Init ==
    /\ queue = <<>> /\ nextID = 0
    /\ dropped = 0 /\ consumed = 0 /\ total = 0 /\ polling = 0
    /\ mu = "free"
    /\ poller = "wait"
    /\ consumeMode \in BOOLEAN
    /\ client = [c \in Clients |-> NoRequest]
    /\ taken = <<>>
    /\ status = <<>>

----------------------------------------------------------------------------
(* The poller: fetchAndStore, Store, Push, IncrementPollingCount *)

\* The poll succeeded and Store drew an identifier for the item. (A poll that
\* fails returns before it touches the store.)
DrawID ==
    /\ poller = "wait"
    /\ nextID < MaxItems
    /\ nextID' = nextID + 1
    /\ poller' = "push"
    /\ UNCHANGED <<queue, counters, mu, consumeMode, client, taken, status>>

\* Push takes the lock and, if the queue is full, counts and gives up the
\* oldest item.
PushMakesRoom ==
    /\ poller = "push"
    /\ Unlocked
    /\ mu' = "poller"
    /\ poller' = "write"
    /\ \/ /\ Full
          /\ dropped' = dropped + 1
          /\ RemoveHead
       \/ /\ ~Full
          /\ UNCHANGED <<dropped, queue>>
    /\ UNCHANGED <<nextID, consumed, total, polling, consumeMode, client, taken,
                   status>>

\* Push writes the item, counts it and unlocks.
PushWrites ==
    /\ poller = "write"
    /\ queue' = Append(queue, nextID - 1)
    /\ total' = total + 1
    /\ mu' = "free"
    /\ poller' = "count"
    /\ UNCHANGED <<nextID, dropped, consumed, polling, consumeMode, client, taken,
                   status>>

\* The poll is counted after the item was stored, in a call of its own.
IncrementPollingCount ==
    /\ poller = "count"
    /\ polling' = polling + 1
    /\ poller' = "wait"
    /\ UNCHANGED <<queue, nextID, dropped, consumed, total, mu, consumeMode, client,
                   taken, status>>

----------------------------------------------------------------------------
(* Requests *)

\* PUT /config/consume.
UpdateConsumeConfig(mode) ==
    /\ consumeMode' = mode
    /\ UNCHANGED <<queue, nextID, counters, mu, poller, client, taken, status>>

\* A request reads the mode once, under its own mutex, before it gets its page.
StartRequest(c, page) ==
    /\ client[c].pc = "idle"
    /\ client' = [client EXCEPT ![c] = [pc |-> "get", limit |-> page[1],
                                        offset |-> page[2], consume |-> consumeMode]]
    /\ UNCHANGED <<queue, nextID, counters, mu, poller, consumeMode, taken, status>>

\* The number of items, from the head, that a page reaches to.
PageEnd(limit, offset) ==
    IF offset + limit > Len(queue) THEN Len(queue) ELSE offset + limit

Answer(c, items) == client' = [client EXCEPT ![c] = [pc |-> "answered", reply |-> items]]

\* The loops have so many items to skip and then to return, beside those of the reply.
GoOn(c, skip, left, items) ==
    client' = [client EXCEPT ![c] = [pc |-> "take", skip |-> skip, left |-> left,
                                     reply |-> items]]

\* Get takes the lock. A page beyond the end of the queue and a read-only one
\* are answered at once; a consuming Get enters its loops.
GetPage(c) ==
    LET offset == client[c].offset
        end == PageEnd(client[c].limit, offset)
        removes == client[c].consume /\ end > 0
    IN
    /\ client[c].pc = "get"
    /\ Unlocked
    /\ \/ /\ offset >= Len(queue)
          /\ Answer(c, <<>>)
          /\ UNCHANGED mu
       \/ /\ offset < Len(queue) /\ ~removes
          /\ Answer(c, SubSeq(queue, offset + 1, end))
          /\ UNCHANGED mu
       \/ /\ offset < Len(queue) /\ removes
          /\ GoOn(c, offset, end - offset, <<>>)
          /\ mu' = c
    /\ UNCHANGED <<queue, nextID, counters, poller, consumeMode, taken, status>>

\* One turn of the loop over the offset, or of the one over the page: the item
\* at the head is counted and removed, and returned unless it is skipped.
Skip(c) ==
    /\ client[c].skip > 0
    /\ GoOn(c, client[c].skip - 1, client[c].left, client[c].reply)
    /\ UNCHANGED mu

Return_KeepsLock(c) ==
    LET got == Append(client[c].reply, Head(queue)) IN
    /\ client[c].skip = 0
    /\ \/ /\ client[c].left > 1
          /\ GoOn(c, 0, client[c].left - 1, got)
       \/ /\ client[c].left = 1
          /\ Answer(c, got)
    /\ UNCHANGED mu

Return(c) ==
    LET got == Append(client[c].reply, Head(queue)) IN
    /\ client[c].skip = 0
    /\ \/ /\ client[c].left > 1
          /\ GoOn(c, 0, client[c].left - 1, got)
          /\ UNCHANGED mu
       \/ /\ client[c].left = 1
          /\ Answer(c, got)
          /\ mu' = "free"

TakeItem(c) ==
    /\ client[c].pc = "take"
    /\ consumed' = consumed + 1
    /\ RemoveHead
    /\ taken' = Append(taken, Head(queue))
    /\ Skip(c) \/ Return(c)
    /\ UNCHANGED <<nextID, dropped, total, polling, poller, consumeMode, status>>

\* The handler writes the response and is done.
EndRequest(c) ==
    /\ client[c].pc = "answered"
    /\ client' = [client EXCEPT ![c] = NoRequest]
    /\ UNCHANGED <<queue, nextID, counters, mu, poller, consumeMode, taken, status>>

----------------------------------------------------------------------------
(* GetDetailedStats: one atomic load after the other. *)

LoadOrder_TotalFirst == <<"size", "total", "polling", "dropped", "consumed">>

LoadOrder == <<"size", "polling", "dropped", "consumed", "total">>

Current == [size |-> Len(queue), polling |-> polling, dropped |-> dropped,
            consumed |-> consumed, total |-> total]

\* Size takes the read lock; the counters are loaded without it.
LoadNext ==
    LET field == LoadOrder[Len(status) + 1] IN
    /\ Len(status) < Len(LoadOrder)
    /\ field = "size" => Unlocked
    /\ status' = Append(status, Current[field])
    /\ UNCHANGED <<queue, nextID, counters, mu, poller, consumeMode, client, taken>>

\* The status page is served; the next one starts from nothing.
ServeStatus ==
    /\ Len(status) = Len(LoadOrder)
    /\ status' = <<>>
    /\ UNCHANGED <<queue, nextID, counters, mu, poller, consumeMode, client, taken>>

----------------------------------------------------------------------------
Next == \/ DrawID \/ PushMakesRoom \/ PushWrites \/ IncrementPollingCount
        \/ \E mode \in BOOLEAN : UpdateConsumeConfig(mode)
        \/ \E c \in Clients :
              \/ \E page \in Pages : StartRequest(c, page)
              \/ GetPage(c)
              \/ TakeItem(c)
              \/ EndRequest(c)
        \/ LoadNext \/ ServeStatus

\* A goroutine that can run does, and sync.RWMutex passes the lock on to those
\* that wait for it, so a Get that finds it free again and again gets it.
\* Nothing obliges a poll, a request or a status page to come.
Fairness ==
    /\ SF_vars(PushMakesRoom) /\ WF_vars(PushWrites) /\ WF_vars(IncrementPollingCount)
    /\ \A c \in Clients : SF_vars(GetPage(c)) /\ WF_vars(TakeItem(c))

Spec == Init /\ [][Next]_vars /\ Fairness
----------------------------------------------------------------------------
(* Properties *)

IDs == 0..(MaxItems - 1)

\* Where a request can be, and what it holds there.
Requests ==
    {NoRequest}
    \cup [pc : {"get"}, limit : Nat \ {0}, offset : Nat, consume : BOOLEAN]
    \cup [pc : {"take"}, skip : Nat, left : Nat \ {0}, reply : Seq(IDs)]
    \cup [pc : {"answered"}, reply : Seq(IDs)]

TypeOK ==
    /\ queue \in Seq(IDs) /\ Len(queue) <= Capacity
    /\ nextID \in 0..MaxItems
    /\ dropped \in Nat /\ consumed \in Nat /\ total \in Nat /\ polling \in Nat
    /\ mu \in {"free", "poller"} \cup Clients
    /\ poller \in {"wait", "push", "write", "count"}
    /\ consumeMode \in BOOLEAN
    /\ client \in [Clients -> Requests]
    /\ taken \in Seq(IDs)
    /\ status \in Seq(Nat) /\ Len(status) <= Len(LoadOrder)

\* A status page never shows more items gone than were generated, nor more
\* polls than items generated, though its numbers are loaded one by one while
\* pushes and requests go on. It rests on two orders: Push counts a drop before
\* the item that caused it and the page loads the total last, and the poll is
\* counted after its item.
StatusIsPlausible ==
    Len(status) = Len(LoadOrder) =>
        LET shown(field) == status[CHOOSE i \in 1..Len(LoadOrder) : LoadOrder[i] = field]
        IN  /\ shown("dropped") + shown("consumed") <= shown("total")
            /\ shown("polling") <= shown("total")

\* What requests took and what is queued are together in the order in which
\* the identifiers were drawn, without repetition: no item is handed to two
\* requests, and none is taken after a newer one.
TakenOnceInOrder ==
    LET all == taken \o queue IN
    \A i, j \in 1..Len(all) : i < j => all[i] < all[j]

\* A page is a run of consecutive items, whatever pushes, overwrites and other
\* requests do while it is being collected.
PagesAreRuns ==
    \A c \in Clients : client[c].pc = "answered" =>
        \A i \in 1..(Len(client[c].reply) - 1) :
            client[c].reply[i + 1] = client[c].reply[i] + 1

\* Every request is answered: no path through Push or Get leaves the lock taken.
RequestsAnswered ==
    \A c \in Clients : client[c].pc = "get" ~> client[c].pc = "answered"

Store == INSTANCE ItemStore WITH
    next <- IF poller \in {"push", "write"} THEN nextID - 1 ELSE nextID,
    available <- {queue[i] : i \in DOMAIN queue},
    taken <- {taken[i] : i \in DOMAIN taken}

\* Cut at every counter as it is, the store is one that loses or hands out each
\* item once: an item leaves the queue in the very step in which it is counted,
\* and no request, push or change of the mode brings one back.
RefinesStore == Store!Spec
=============================================================================
