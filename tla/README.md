# Lokey: a TLA+ verification project

Lokey collects random numbers from a hardware generator (an ATECC608A chip on
an I2C bus), stretches them with a Fortuna generator, queues both and serves
them over HTTP. This directory holds TLA+ models of its core, the TLC runs that
check them on small instances, and theorems about them that TLAPS checks for
every value of the constants. Line numbers below are those of the sources
beside this directory; `PROJECT.json` maps every definition to its lines.

## 1. Inventory

Three processes (Go, one goroutine per HTTP request):

| Process | Component | State it keeps | Operations | Hard behaviour |
|---|---|---|---|---|
| `cmd/controller` | service | port, router | `/generate`, `/health`, start, shutdown | shutdown while requests and a recovery run; exit at the end of a failed recovery |
| | `pkg/atecc608a` state and recovery | `state`, `i2c`, `recoveryInFlight`, two mutexes | `GenerateRandom`, `HealthCheck`, `handleDeviceFailure`, `startRecovery`, `Close` | checks and uses in different critical sections; one goroutine per failure; retries |
| | configuration of the chip | the chip's configuration zone and its lock | `initializeUnlocked`, `isDeviceLockedUnlocked`, `configureDeviceUnlocked` | power lost between two words; an irreversible lock; c.mutex held for seconds |
| | packets | none | commands, responses, CRC | byte layouts |
| `cmd/fortuna` | service | `lastReseedTime` | `/generate`, `/seed`, `/amplify`, `/health` | a seed request that fails half-way |
| | `pkg/fortuna` generator | key, counter, 32 pools, a mutex | `AddRandomEvent`, `ReseedFromPools`, `Reseed`, `GenerateRandomData`, `AmplifyRandomData` | the mutex given up in the middle of a reseed; pools selected by the block counter |
| `cmd/api` | pollers (`pkg/api/polling.go`) | tickers | poll the controller, poll Fortuna, seed Fortuna | calls without a timeout; store and count are two steps |
| | server (`pkg/api/server.go`) | `consumeMode` | `/data`, `/config/queue`, `/config/consume`, `/status`, `/metrics`, `/health` | the mode read before the data; the number of items estimated before their size is known |
| | in-memory store (`channel.go`) | two rings of items, atomic counters | `Store`, `Get`, `GetDetailedStats`, ... | overwriting while pages are read; counters loaded without the lock |
| | persistent store (`bolt.go`) | buckets of items, counters and sizes; sizes in memory | the same, and `UpdateQueueSizes` | failing transactions, crash between commit and response, restart, lock order |

Interaction: the API's pollers fetch from the controller and from Fortuna and
store what they get; every 30 s the API fetches five samples from the
controller and posts them to Fortuna's `/seed`. Clients read or consume pages
of a store. `factory.go` picks the store at the start. Nothing but the
persistent store and the chip survives a restart.

What makes each part correct:

- *Ring buffer*: it is a bounded FIFO queue that drops its oldest item; every
  item is queued, dropped or consumed; none is returned twice by consuming calls.
- *In-memory store*: the same under concurrent calls; pages are runs of
  consecutive items; a status page is possible; calls return.
- *Persistent store*: items, flags and counters agree through failures and
  restarts; no item is handed out twice; the oldest items make room; the locks
  never form a cycle.
- *Controller*: one recovery at a time; what the state says is true; a failed
  device is recovered or the process ends.
- *Configuration*: the chip is never locked with part of a configuration in it;
  to the rest of the controller an initialisation is one step.
- *Fortuna*: no sample is lost or used twice; no block is returned twice.
- *Polling and seeding*: what seeds the generator is never given to clients;
  blocks repeat only if they come from the initial key; no failure stops a
  poller; the generator does get seeded.
- *Data requests*: an answer is the bytes of the queue in order, and short only
  if the queue has no more.

The hazards of the code, each at its line with the properties that watch it,
are listed in `PROJECT.json`.

## 2. Modules

| Module | Models | Steps |
|---|---|---|
| `FifoQueue` | what a queue promises: the items `first .. next-1`, overwriting the oldest | whole calls |
| `CircularQueue` | `CircularQueue` of `channel.go`: the ring with its indices and counters | whole calls (they hold `q.mu` throughout) |
| `CircularQueueProofs` | theorems about it | |
| `RandomData` | `GetRandomData` of `server.go` on that ring: estimate, page, conversion | whole requests |
| `RandomDataProofs` | theorems about it | |
| `ItemStore` | what a store promises: an item stored once is there until taken or lost | whole transitions of items |
| `ChannelDB` | one source of `ChannelDBHandler` with a poller, clients, a mode switch and a status reader | lock operations and accesses to atomics |
| `ChannelDBProofs` | theorems about it | |
| `BoltQueue` | one source of `BoltDBHandler` with a poller, clients, resizes, crash and restart | transactions |
| `BoltQueueProofs` | theorems about it | |
| `BoltLocks` | the locks taken by `bolt.go` and, inside bbolt, by its transactions, in calls of any number of goroutines | lock operations |
| `BoltLocksProofs` | theorems about it | |
| `DeviceController` | the controller: requests, failure handlers, recoveries, process | critical sections |
| `DeviceConfig` | the controller with the initialisation of the chip taken apart | commands to the chip |
| `DeviceProofs` | theorems about both | |
| `Fortuna` | the generator under concurrent generate, seed and amplify requests | critical sections |
| `FortunaProofs` | theorems about it | |
| `Seeding` | what decides whether the generator gets seeded | whole requests |
| `SeedingSchedule` | `Seeding` with the tickers of `StartPolling` | ticks |
| `Pipeline` | controller, Fortuna and the API's three goroutines over HTTP | calls, answers, critical sections of a reseed |
| `PipelineProofs` | theorems about it | |

`MC*` modules and their `.cfg` files give the constants their values. The
modules fit together as follows.

- `CircularQueue` implements `FifoQueue` (property `RefinesFifo`, under the
  mapping `first <- totalCount - size`, `next <- totalCount`; the arguments of
  each `Get` are part of the state, so that the abstract queue fixes what it must
  return), which is why `ChannelDB` may take the ring to be a sequence and spend
  its states on interleaving.
- `RandomData` extends `CircularQueue`: each of its steps is a `Push`, or a
  `Get` whose limit is the server's estimate, with the values made of the page.
  Its run checks the ring's properties again, with limits that occur.
- `ChannelDB` and `BoltQueue` both implement `ItemStore` (`RefinesStore`), each
  under its own mapping: items in the sequence are available in one, items
  whose consumed flag is not set in the other. Order and choice of the item that
  makes room are where they differ, so `ItemStore` leaves both open.
- `BoltQueue` takes each transaction as one step, which bbolt's single writer
  justifies; `BoltLocks` looks at the locks those transactions take, and nothing
  else.
- `DeviceController` takes an initialisation of the chip as one step that
  succeeds or fails, because `c.mutex` is held throughout. `DeviceConfig` extends
  it with the chip's zone and lock and takes that step apart; `RefinesController`
  shows that this is the same controller seen from outside the mutex, with
  `conn` mapped to its value at the beginning while an initialisation runs.
- `Pipeline` implements `Seeding` (`RefinesSeeding`): a seed request takes effect
  when it drains the pools, hence the counter and `seeded` are mapped one step
  ahead of the code between the two critical sections of a reseed.
  `SeedingSchedule` adds to `Seeding` the order in which the tickers fire.

Conventions. Items and samples are the numbers in which they are drawn. The two
sources of a store share nothing except the consume mode and, in `bolt.go`, the
locks; the Fortuna methods of the stores are twins of the TRNG ones, so one
source is modelled. History variables (`taken`, `received`,
`uncounted`, `delivered`, `trimmed`, `issued`, `repeated`, `posted`, `before`, ...) are named as such where
they are declared. A definition `X_Y` is `X` with the bug `Y`: replacing `X` by
it breaks a property, which shows that the property depends on the code that `X`
models.

What is abstracted: payloads, time (a goroutine that sleeps may go on, a request
may come at any time; only `SeedingSchedule` keeps the order of ticks), logging,
JSON. What a bus or a chip answers is an outcome chosen freely. Four choices
bear on what the properties mean:

- Hashing is injective: Fortuna's key is the sequence of batches that went into
  it; and the chip never draws the same sample twice.
- A command that the chip acknowledges has had its effect. One that ends in an
  error may have had it or not. The code does not verify the CRC of a response,
  so a corrupted acknowledgement is outside the model.
- `isDeviceLockedUnlocked` reports a locked chip only if both of its lock bytes
  are 0, while the program locks one of the two zones: `CheckLock` lets a locked
  chip be read as unlocked, and the writes that follow are refused by the chip.
- The answer of a seed request says that some pool was used, not which. In
  `Pipeline` pools are not cut at their maximal size, which `Fortuna` models.

## 3. Runs

| Run | Instance | Shows |
|---|---|---|
| `ring` | capacity 4, 8 pushes; items of 3 or 4 bytes, values of 1 or 2, counts 1 to 6, 3 offsets | `TypeOK`, `Accounting`, `HoldsNewest`, `DeliveredInOrder`, `RefinesFifo` of the ring; `AnswersInOrder`, `ShortOnlyIfExhausted`, `PageIsUsed` of the answers. Eight pushes go round the ring twice; the pages include those beyond the end, across the end and empty ones; items of 3 bytes leave a rest to values of 2, as 31 bytes do to 2, 4 and 8 |
| `channel` | 2 clients, capacity 2, 3 items | `StatusIsPlausible`, `TakenOnceInOrder`, `PagesAreRuns`, that `RequestsAnswered`, and `RefinesStore`. Three items overflow the queue; requests ask for two items, from the head (replies of two items, whose order a poller or the other client could break) or past the first (a Get that skips, returns and is cut at the end) |
| `bolt` | 2 clients, sizes 1 and 2, 4 items | `EveryItemAccounted`, `ConsumedIsCounted`, `ReceivedAtMostOnce`, `PollsMatchItems`, `StoreBoundsBucket`, `RefinesStore`, through failures, resizes and any number of crashes |
| `device` | 1 request, 3 workers, 2 attempts, 2 words with a third to skip between them | `OneRecovery`, `RecoveringIsOwned`, `HealthyIsConnected`, `RecoveryEnds`, `LockedIsComplete`, `RefinesController` (with the commands of requests kept out of an initialisation). Three workers are what it takes for a recovery, a refused one and a late report, which one request that comes again and again can all cause; processes end and start again, with and without FORCE_CONFIG, any number of times |
| `locks` | 4 goroutines, each calling Store, Get, GetDetailedStats or UpdateQueueSizes, over and over | `NoDeadlock`. Four are as many as there are locks, one to hold each |
| `fortuna` | 2 requests, 2 pools of 2 samples, 3 seeds a request, 4 samples | `EntropyAccounted`, `BlocksNeverRepeat`, `EntropyKept`. Three seeds wrap around two pools and overflow one; counters up to 5 select every set of pools |
| `pipeline` | 2 pools, 2 seeds a request, polls of 2 blocks, 4 samples, 1 resend a call | `SeedsAreSecret`, `SeededBlocksNeverRepeat`, `PollersSurvive`, `RefinesSeeding`, with every call failing, answered to nobody or sent again, and any number of restarts of Fortuna |

Five runs state what a comment or a document says and end in a counterexample:

| Run | Says | The code |
|---|---|---|
| `bolt_drops_oldest` | "Delete oldest entries" (`bolt.go:301`; `architecture.md:554`) | deletes the entries after the first *size*: the newest, normally the one just stored |
| `bolt_drops_only_when_full` | "Items dropped when queue was full" (`interface.go:26`) | counts consumed entries, which stay in the bucket: new items are dropped from a queue that shows room or is empty |
| `device_failed` | "marks device as failed and starts recovery" (`controller.go:662`) | a report between `controller.go:276` and `:279` marks the device and finds the flag still set: failed for good, with requests failing fast and no recovery |
| `locks_deadlock` | "For safe concurrent access to queue sizes" (`bolt.go:30`) | `GetQueueInfo` holds `h.mu` over a read transaction; the others take it inside one |
| `seeding_never` | "Every 30 seconds: ... Reseed AES generator" (`architecture.md:233`), "will be reseeded by API service" (`cmd/fortuna/main.go:74`), "Pool 0 is used every reseed" (`architecture.md:425`) | pools are selected by the bits of the *block* counter: polls of 16 blocks leave the bits of pools 0 to 3 clear, and bit 4 too if their number is even |

`seeding_never` runs with the program's own numbers (16 blocks, 5 samples, 6
polls in 30 s). Nothing fails in it: with an even number of polls before every
seed request, all of them are answered with an error, and the generator stays
on the key it was started with. Once a seed request succeeds, its reseed takes
one counter, the low bits are no longer all clear, and the next 15 find pools to
use; after them the low bits are clear again. Whether the first succeeds depends on the race between the poll and the
seed request that fall on the same instant, or on a poll that failed.

Bounds. Items, samples, the Fortuna counter and concurrent goroutines are
bounded by constants that appear in guards (`MaxPushes`, `MaxItems`, `MaxID`,
`MaxSamples`, `MaxSeeds`, `MaxCounter`; `Workers` bounds the failure handlers
that exist at a time; a pending resize is a set, so two equal ones are one).
`MaxCounter` stops new requests, not those under way. In `Pipeline` a poll that
the bounds no longer serve can still fail, so that the goroutines never run out
of steps. `IdleConnections` is not a bound of the check only: Go's transport
sends a GET again only over a connection that it had kept, and keeps two to a
host. Four samples, which the handlers draw one at a time, are two seed requests, or
one and two polls, or one that fails half-way and another; a counter of 5
selects, with reseeds, no pool, either one or both. Deadlock is checked
everywhere except in `fortuna`, where the system stops when the samples of an
amplify request or the counter run out, and in `ring` it is only the pushes that
the bound ends. The requests of `bolt` and `fortuna` and the goroutines of `locks` are
interchangeable and form symmetry sets; none of these runs checks liveness.

Fairness. `ChannelDB`: a goroutine that can run does, and `q.mu` is passed on to
those who wait (Go's `RWMutex` lets a blocked writer in before later readers,
and a starving waiter before new ones), hence strong fairness for taking it;
nothing obliges a poll, a request or a status page to come. `DeviceController`:
a started goroutine runs on, its sleeps being finite; the bus and the chip owe
nothing, so `RecoveryEnds` rests on the bounded attempts and the exit.
`DeviceConfig`: the same for a worker, but it now waits for `c.mutex`, hence
strong fairness, as Go's mutex is handed over to a waiter that starves.
`Pipeline`: each goroutine's call is answered or fails in the end, and the
goroutine goes on; nothing obliges a ticker to fire, a service to work or a call
to succeed, and a GET is sent again only finitely often. That a call ends is an
assumption: `http.Get` is used without a timeout, and a service that accepts a
connection and never answers stops its poller for ever. `SeedingSchedule`: the
two tickers go on, which makes its counterexample one about seeding.

## 4. Proofs

TLAPS checks every proof of the eight `*Proofs` modules, for every value of the
constants that meets the named assumptions of the models. Each module has one
inductive invariant (`IInv`; `ServerIInv` in `RandomDataProofs`, both `IInv` and
`ConfigIInv` in `DeviceProofs`), which adds to the properties checked what an
action needs to know to preserve them; TLC has checked the invariants
themselves, on the instances of the runs, before they were proved. A lemma per
action shows that it is preserved, and the refinements are shown step by step
beside it (`Kept`: the invariant and the abstract step).

**4.1** `CircularQueueProofs`, for every capacity greater than 0, every number of pushes
and every set of pages: `TypeCorrectness`, `CountersAddUp`, `QueueHoldsNewest`,
`AtMostOnceInOrder` and `Refinement` (`Spec => RefinesFifo`). The inductive
invariant `IInv` adds to the checked ones that the write position follows the
items, `tail = (head + size) % capacity` (`TailFollowsItems`): without it a push
might overwrite an item in the middle. The arithmetic rests on lemmas about one
step around the ring (`WrapOnce` and those after it), because the provers know
nothing of `%` by a variable.

**4.2** `RandomDataProofs`, for every size of the items, all widths and counts, and
every ring: `AnswersKeepOrder`, `EstimateDoesNotCut`, `NothingIsWasted`, and
`ServerUsesRing` (`ServerSpec => Spec`), by which what 4.1 proves of the ring holds
under the server's requests. The conversion is a loop over the page. `ConvertedIs`
finds what it computes by induction on the items it has gone over: the values of
the first `n` items, as many as asked for (`ValuesUpTo`), are what the loop's body
makes of those of `n - 1` (`ItemAdds`). The loop is over a page of finite length,
so the induction is on a finite set of places, of which a nonempty set has a least
one (`LeastPlace`, from the order of finite sets by inclusion, which the library
knows to be well founded). The invariant then says what page the latest request
got: one without repetitions, no longer than the estimate. The two theorems about
the estimate are arithmetic on quotients and rests (`EstimateIsEnough`,
`EstimateIsNeeded`). The assumptions: a value fits into the bytes that the
estimate takes an item to have (8 and 31), which no item has fewer of (31 and
256), there is a spare item at least, and the limits of the ring contain the
estimates.

**4.3** `ChannelDBProofs`, for any capacity, number of clients, items and pages:
`TypeCorrectness`, `TakenInOrder`, `PagesHaveNoGaps`, `StatusAddsUp` and
`ImplementsStore` (`Spec => RefinesStore`). None of them is inductive alone. The
invariant says who holds `q.mu` and what it protects then: the poller between
`PushMakesRoom` and `PushWrites` has made room that nobody fills (`RoomIsMade`);
a request in its loops finds as many items as it still wants, and its reply is
the run before the head (`TakesInOrder`). The queue is a run of identifiers up
to the next one to be written (`QueueIsRun`), and all that was taken came before
its head (`TakenBeforeQueue`). For the status page, what was loaded was true then
and counters only grow (`LoadsAreOld`): drops and consumed items are loaded
before the total, hence below it (`CountersAddUp`). `PagesAssumption` asks for a
limit of at least 1: with 0, a consuming Get that skips its offset and returns
nothing would be a step that the model does not have; the server asks for at
least its five spare items (`server.go:348`), so none occurs.

**4.4** `BoltQueueProofs`, for any clients, sizes, pages, failures and crashes:
`TypeCorrectness`, `ItemsAddUp`, `FlagsAndCounterAgree`, `HandedOutOnce`,
`PollsFollowItems`, `SizeIsEnforced` (the action property `StoreBoundsBucket`) and
`ImplementsStore`. The checked invariants together with `DrawnBefore` (an
identifier in use has been drawn, so that of the next item is not) are
inductive. `PollsMatchItems` accounts for every poll: counted, being counted, or in
`uncounted`, which only a failed second transaction or a crash before it adds to. The work is in counting: `FirstPlaces` shows that the keys a walk
meets in its first `n` places are at most `n`, from which the bound on the bucket
and the dropped counter follow.

**4.5** `BoltLocksProofs`, for any number of goroutines and any of the calls but
`GetQueueInfo`: `TypeCorrectness` (with `GetQueueInfo` too) and `NeverAllWaiting`,
whose hypothesis is `"GetQueueInfo" \notin Calls`; `locks_deadlock` shows that
it cannot be dropped. The calls take the locks in one order, rwlock, metalock,
mmaplock, `h.mu`. `Leads(todo, H, K)` says that a sequence of operations takes a
goroutine that holds `H` to one that holds `K` and keeps that order; it composes,
so that each call is shown to keep it from the parts it is written in. The
invariant (`RestIsInOrder`) is that the rest of each call leads from what the
goroutine holds to nothing. Of the goroutines that wait, take one whose lock
comes last: its holder, or the writer announced before it, can proceed.

**4.6** `DeviceProofs`, for any sets of requests and handlers and any number
of attempts: `TypeCorrectness`, `RecoveryIsExclusive`, `StateIsTrue` and
`RecoveryIsOwned` of `DeviceController`. `Close` comes after the requests, which
a successful shutdown waits for, but not after the goroutines of failures, so that
connections are closed under a recovery at work. The invariant adds `ConnectionDiscipline`: while attempts open and close
connections the state is not healthy, and from the success of an attempt to the
end of its recovery the connection is open. `HealthyIsConnected` alone does not
survive `AnnounceHealthy`. The only assumption is `MaxRetriesAssumption`, that
there is at least one attempt.

Of `DeviceConfig`, for a zone of any size: `NeverLockedIncomplete`, `ImplementsController` and `ControllerInvariants`. The
invariant adds to that of the controller who holds `c.mutex` in which place
(`HolderWaits`) and that the words before the one written next are in the zone
(`WrittenSoFar`). `ImplementsController` is the safety part of
`RefinesController`: initial states are initial states of `DeviceController`,
and each step of an initialisation is one of its steps or none, with `conn` as it
was before while `c.mutex` is held. `ControllerInvariants` shows the invariants
of the controller in the middle of an initialisation too, where the refinement,
which hides it, says nothing. `WorkersAssumption` keeps the workers apart from
"main" and "nobody".

**4.7** `FortunaProofs`, for any number of requests, pools, samples and any pool size:
`TypeCorrectness`, `SamplesAccounted`, `NoBlockTwice` and `KeyKeepsSamples`.
`SamplesAccounted` counts places; what steps preserve is that a sample is
somewhere and nowhere else (`Located`), and `LocatedIsAccounted` turns that into
the count. `BlocksNeverRepeat`
needs that every block returned so far was encrypted from a counter the
generator has left behind (`BlocksBehindCounter`); the rest is that a run of `n`
counters makes `n` different blocks. Its assumptions are the sizes in
`FortunaAssumption`, and, in the model itself, that SHA-256 has no collision and
the counter does not wrap.

**4.8** `PipelineProofs`, for any number of pools, blocks and samples a request,
resends, failures and restarts: `TypeCorrectness`, `SeedsStaySecret` and
`SeededBlocksAreNew`. A sample is in one place only: with the client or with the
generator (`SamplesApart`), and, while it can still get into a key, in one pool,
or drained, or in the seed request or its handler at the controller
(`FreshApart`), which draws its samples one by one while other handlers draw theirs. A batch that is in a key is
`Spent`: no sample of it can get into a key again. Hence a key whose first batch
is spent differs from every key that a restarted process can come to; keys
with the same first batch are of one life, in which they grow and blocks have
rising counters (`BlocksAreOld`). `SeededBlocksNeverRepeat` alone is not
inductive: it says nothing of the answers on their way. The assumptions are that
the constants are natural numbers (with a pool and a seed at least), and, in the model, that samples are drawn
once and hashing is injective.

Only model-checked:

- Liveness and fairness, out of the prover's reach: `RequestsAnswered`,
  `RecoveryEnds`, `PollersSurvive`, and the fairness part of `RefinesController`.
- `RefinesSeeding`: the counter of `Seeding` is that of `Pipeline` modulo
  `2^Width`, and that the bits below `Width` are the same needs facts about
  powers of 2 for every exponent, and none of the provers knows what `^` means.

## 5. Not modelled

- *Packets* (`sendCommand`, `getResponse`, `calculateAdafruitCRC`,
  `isRepeatingPattern`): byte layouts without state. The models take a command
  to have its effect and be answered, or to fail; a wrong byte in a response,
  which the code could only tell by the CRC it does not check, is left out.
- *Health and status*: the age in Fortuna's health check with `lastReseed` and
  `lastReseedTime`, the health of other services, metrics, which copy the status
  page. They report and decide nothing.
- *Usage records* (`RecordRNGUsage`, `GetRNGStatistics`) and
  `IncrementDroppedCount`: nothing in the program calls them.
- *Configuration*: environment variables and the choice of a store, except that a
  capacity of 0, with which the ring panics on the first push, is excluded by
  `CapacityAssumption`. Validation of requests: only valid ones occur.
- *End of the API process*: it exits 500 ms after a signal whatever its
  goroutines do; to the persistent store that is `Crash`.
- *Wide integers*: `ShortOnlyIfExhausted` has the condition `RestsAreCovered`.
  Beyond it (more than 53 integers of eight bytes from the TRNG, each item of
  which has a rest of 7 bytes) the spare items do not make up for the rests, and
  an answer may be short although the queue has more. No document promises the
  number of values; the hazard is listed.
- *Fortuna's items* have 256 bytes while the estimate assumes 31: a consuming
  request takes up to eight times the items it uses. `PageIsUsed` says so by its
  condition `itemSize = EstimateBytes`.

## 6. Plan

In the order of what matters most; the first block is what stands now.

1. Done: ring and FIFO queue with refinement and proofs; data requests on the
   ring, with proofs; both stores with the abstract store they implement, and the proofs that
   they do; the locks of the persistent one, with the proof that their order
   rules out deadlock; controller and configuration of the chip, with proofs and
   the step-by-step refinement; Fortuna with proofs; the services composed, with
   proofs, and the schedule of the seeding.
2. An abstract controller without attempts and workers (healthy, failed,
   recovering, down) that `DeviceController` implements, proved step by step.
3. An abstract generator for `Fortuna`: samples go to the key once, blocks are
   fresh, with the two critical sections of a reseed as one step; proved.
4. Action properties of the counters of the stores, which only grow: the
   persistent one's across restarts, the in-memory one's under concurrent calls.
