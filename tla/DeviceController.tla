-------------------------- MODULE DeviceController --------------------------
(***************************************************************************)
(* The hardware random number generator's controller,                      *)
(* pkg/atecc608a/controller.go, as the process cmd/controller runs it:     *)
(* requests that use the device, the goroutines that each failure starts,  *)
(* the one of them that recovers the device, and the process itself.       *)
(*                                                                         *)
(* Every critical section of c.mutex and of recoveryMutex is one step; the *)
(* code between two of them is where goroutines interleave. What the bus   *)
(* and the chip do is an outcome chosen freely, except that a closed       *)
(* connection fails. Delays are left out: a sleeping goroutine may go on.  *)
(*                                                                         *)
(* A definition named X_Y is a faulty version of X, in the way Y.          *)
(***************************************************************************)
EXTENDS Integers, FiniteSets

CONSTANTS
    Requests,   \* goroutines in GenerateRandom or HealthCheck
    Workers,    \* bound: goroutines in handleDeviceFailure or startRecovery
    MaxRetries  \* maxRetries: attempts before the process gives up

ASSUME MaxRetriesAssumption == MaxRetries \in Nat \ {0}

VARIABLES
    process,            \* "running", "closing" (a signal came) or "down"
    state,              \* Controller.state
    conn,               \* Controller.i2c: "open" or "closed"
    recoveryInFlight,   \* Controller.recoveryInFlight
    request,            \* per request: "idle", or "checked" the state
    worker,             \* per worker: what it does next, or "none"
    attempt             \* per worker: its recovery attempt, 0 if it has none

vars == <<process, state, conn, recoveryInFlight, request, worker, attempt>>

\* A worker that has set recoveryInFlight and not yet cleared it is in one of
\* these places of startRecovery.
Recovering == {"announce", "attempt", "recovered", "release", "giveUp", "releaseAndExit"}

Init ==
    /\ process = "down"
    /\ state = "unknown"
    /\ conn = "closed"
    /\ recoveryInFlight = FALSE
    /\ request = [r \in Requests |-> "idle"]
    /\ worker = [w \in Workers |-> "none"]
    /\ attempt = [w \in Workers |-> 0]

----------------------------------------------------------------------------
(* NewController, before the server accepts requests *)

BootHealthy ==
    /\ process = "down"
    /\ process' = "running" /\ state' = "healthy" /\ conn' = "open"
    /\ UNCHANGED <<recoveryInFlight, request, worker, attempt>>

\* The device does not initialise: the controller comes up failed and a
\* goroutine starts the recovery.
BootFailed(w) ==
    /\ process = "down"
    /\ process' = "running" /\ state' = "failed" /\ conn' = "open"
    /\ worker' = [worker EXCEPT ![w] = "start"]
    /\ UNCHANGED <<recoveryInFlight, request, attempt>>

----------------------------------------------------------------------------
(* GenerateRandom and HealthCheck *)

\* The state is checked under c.mutex, which is then released (a device that
\* is not healthy ends the request here). A server that was shut down has no
\* new requests.
CheckState(r) ==
    /\ process = "running"
    /\ request[r] = "idle"
    /\ state = "healthy"
    /\ request' = [request EXCEPT ![r] = "checked"]
    /\ UNCHANGED <<process, state, conn, recoveryInFlight, worker, attempt>>

\* c.mutex again: the device answers.
DeviceAnswers(r) ==
    /\ process # "down"
    /\ request[r] = "checked"
    /\ conn = "open"
    /\ request' = [request EXCEPT ![r] = "idle"]
    /\ UNCHANGED <<process, state, conn, recoveryInFlight, worker, attempt>>

\* An I2C error, a short response or a repeating pattern: the request fails
\* and a goroutine is started to handle it.
DeviceFails(r, w) ==
    /\ process # "down"
    /\ request[r] = "checked"
    /\ worker[w] = "none"
    /\ request' = [request EXCEPT ![r] = "idle"]
    /\ worker' = [worker EXCEPT ![w] = "check"]
    /\ UNCHANGED <<process, state, conn, recoveryInFlight, attempt>>

----------------------------------------------------------------------------
(* handleDeviceFailure *)

CheckHealthy(w) ==
    /\ worker[w] = "check"
    /\ worker' = [worker EXCEPT ![w] = IF state = "healthy" THEN "mark" ELSE "none"]
    /\ UNCHANGED <<process, state, conn, recoveryInFlight, request, attempt>>

MarkFailed(w) ==
    /\ worker[w] = "mark"
    /\ state' = "failed"
    /\ worker' = [worker EXCEPT ![w] = "start"]
    /\ UNCHANGED <<process, conn, recoveryInFlight, request, attempt>>

----------------------------------------------------------------------------
(* startRecovery *)

\* Another recovery is in flight: this one returns.
AlreadyRecovering(w) ==
    /\ worker[w] = "start"
    /\ recoveryInFlight
    /\ worker' = [worker EXCEPT ![w] = "none"]
    /\ UNCHANGED <<process, state, conn, recoveryInFlight, request, attempt>>

ClaimRecovery_Unchecked(w) ==
    /\ worker[w] = "start"
    /\ recoveryInFlight' = TRUE
    /\ worker' = [worker EXCEPT ![w] = "announce"]
    /\ UNCHANGED <<process, state, conn, request, attempt>>

ClaimRecovery(w) ==
    /\ worker[w] = "start"
    /\ ~recoveryInFlight
    /\ recoveryInFlight' = TRUE
    /\ worker' = [worker EXCEPT ![w] = "announce"]
    /\ UNCHANGED <<process, state, conn, request, attempt>>

AnnounceRecovery_Silent(w) ==
    /\ worker[w] = "announce"
    /\ worker' = [worker EXCEPT ![w] = "attempt"]
    /\ attempt' = [attempt EXCEPT ![w] = 1]
    /\ UNCHANGED <<process, state, conn, recoveryInFlight, request>>

AnnounceRecovery(w) ==
    /\ worker[w] = "announce"
    /\ state' = "recovering"
    /\ worker' = [worker EXCEPT ![w] = "attempt"]
    /\ attempt' = [attempt EXCEPT ![w] = 1]
    /\ UNCHANGED <<process, conn, recoveryInFlight, request>>

LastAttempt_OffByOne(w) == attempt[w] > MaxRetries

LastAttempt(w) == attempt[w] = MaxRetries

\* reinitialize closes the connection, opens a new one and initialises the
\* device, all under c.mutex; the bus may not open and the chip not answer.
AttemptSucceeds(w) ==
    /\ worker[w] = "attempt"
    /\ conn' = "open"
    /\ worker' = [worker EXCEPT ![w] = "recovered"]
    /\ UNCHANGED <<process, state, recoveryInFlight, request, attempt>>

AttemptFails(w) ==
    /\ worker[w] = "attempt"
    /\ conn' \in {"open", "closed"}
    /\ \/ /\ ~LastAttempt(w)
          /\ attempt' = [attempt EXCEPT ![w] = @ + 1]
          /\ UNCHANGED worker
       \/ /\ LastAttempt(w)
          /\ worker' = [worker EXCEPT ![w] = "giveUp"]
          /\ UNCHANGED attempt
    /\ UNCHANGED <<process, state, recoveryInFlight, request>>

AnnounceHealthy_Silent(w) ==
    /\ worker[w] = "recovered"
    /\ worker' = [worker EXCEPT ![w] = "release"]
    /\ UNCHANGED <<process, state, conn, recoveryInFlight, request, attempt>>

AnnounceHealthy(w) ==
    /\ worker[w] = "recovered"
    /\ state' = "healthy"
    /\ worker' = [worker EXCEPT ![w] = "release"]
    /\ UNCHANGED <<process, conn, recoveryInFlight, request, attempt>>

ReleaseRecovery_Forgets(w) ==
    /\ worker[w] = "release"
    /\ worker' = [worker EXCEPT ![w] = "none"]
    /\ attempt' = [attempt EXCEPT ![w] = 0]
    /\ UNCHANGED <<process, state, conn, recoveryInFlight, request>>

ReleaseRecovery(w) ==
    /\ worker[w] = "release"
    /\ recoveryInFlight' = FALSE
    /\ worker' = [worker EXCEPT ![w] = "none"]
    /\ attempt' = [attempt EXCEPT ![w] = 0]
    /\ UNCHANGED <<process, state, conn, request>>

GiveUp(w) ==
    /\ worker[w] = "giveUp"
    /\ state' = "failed"
    /\ worker' = [worker EXCEPT ![w] = "releaseAndExit"]
    /\ UNCHANGED <<process, conn, recoveryInFlight, request, attempt>>

ReleaseToExit(w) ==
    /\ worker[w] = "releaseAndExit"
    /\ recoveryInFlight' = FALSE
    /\ worker' = [worker EXCEPT ![w] = "exit"]
    /\ UNCHANGED <<process, state, conn, request, attempt>>

----------------------------------------------------------------------------
(* The process *)

\* Everything in memory is gone.
ProcessEnds ==
    /\ process' = "down" /\ state' = "unknown" /\ conn' = "closed"
    /\ recoveryInFlight' = FALSE
    /\ request' = [r \in Requests |-> "idle"]
    /\ worker' = [w \in Workers |-> "none"]
    /\ attempt' = [w \in Workers |-> 0]

\* os.Exit(1) at the end of a recovery that failed.
Exit(w) ==
    /\ worker[w] = "exit"
    /\ ProcessEnds

\* A signal: the server is shut down, which waits for the requests under way,
\* and the connection is closed, while the goroutines of failures still run.
Close ==
    /\ process = "running"
    /\ \A r \in Requests : request[r] = "idle"
    /\ process' = "closing"
    /\ conn' = "closed"
    /\ UNCHANGED <<state, recoveryInFlight, request, worker, attempt>>

\* main returns; if the shutdown timed out or the server failed, without Close
\* and with requests still under way.
Return ==
    /\ process # "down"
    /\ ProcessEnds

WorkerStep(w) ==
    \/ CheckHealthy(w) \/ MarkFailed(w)
    \/ AlreadyRecovering(w) \/ ClaimRecovery(w) \/ AnnounceRecovery(w)
    \/ AttemptSucceeds(w) \/ AttemptFails(w)
    \/ AnnounceHealthy(w) \/ ReleaseRecovery(w)
    \/ GiveUp(w) \/ ReleaseToExit(w) \/ Exit(w)

Next == \/ BootHealthy
        \/ \E w \in Workers : BootFailed(w) \/ WorkerStep(w)
        \/ \E r \in Requests :
              \/ CheckState(r)
              \/ DeviceAnswers(r)
              \/ \E w \in Workers : DeviceFails(r, w)
        \/ Close \/ Return

\* A goroutine that was started runs on (its sleeps end).
Fairness == \A w \in Workers : WF_vars(WorkerStep(w))

Spec == Init /\ [][Next]_vars /\ Fairness
----------------------------------------------------------------------------
(* Properties *)

TypeOK ==
    /\ process \in {"running", "closing", "down"}
    /\ state \in {"unknown", "healthy", "failed", "recovering"}
    /\ conn \in {"open", "closed"}
    /\ recoveryInFlight \in BOOLEAN
    /\ request \in [Requests -> {"idle", "checked"}]
    /\ worker \in [Workers -> {"none", "check", "mark", "start", "exit"} \cup Recovering]
    /\ attempt \in [Workers -> 0..MaxRetries]

\* At most one goroutine recovers the device, however many failures are being
\* handled, and the flag is set exactly while one does: two recoveries would
\* close each other's connections.
OneRecovery ==
    /\ \A v, w \in Workers :
          worker[v] \in Recovering /\ worker[w] \in Recovering => v = w
    /\ recoveryInFlight <=> \E w \in Workers : worker[w] \in Recovering

\* A device that is announced as recovering is being recovered.
RecoveringIsOwned ==
    state = "recovering" =>
        \E w \in Workers : worker[w] \in {"attempt", "recovered", "giveUp"}

\* A device that is announced as healthy has a connection: recovery announces
\* it only after the connection it opened worked, and nothing closes the
\* connection before some recovery took the announcement back. (A late failure
\* report can only do the opposite, mark a recovered device as failed.)
HealthyIsConnected ==
    process = "running" /\ state = "healthy" => conn = "open"

\* A recovery ends: the flag it set is cleared again, by success or by the end
\* of the process.
RecoveryEnds == recoveryInFlight ~> ~recoveryInFlight

\* What handleDeviceFailure's comment says: it marks the device as failed and
\* starts recovery. A failed device has a goroutine that is about to recover
\* it, does so, or ends the process.
FailedIsRecovered ==
    process = "running" /\ state = "failed" =>
        \E w \in Workers : worker[w] \in Recovering \cup {"start", "exit"}

\* What the other parts rest on: while connections come and go the state is not
\* "healthy", from the success of an attempt on the connection is open, and
\* nothing runs in a process that is down.
ConnectionDiscipline ==
    \A w \in Workers :
        /\ worker[w] \in {"attempt", "giveUp"} => state # "healthy"
        /\ worker[w] \in {"recovered", "release"} /\ process = "running" => conn = "open"
        /\ process = "down" => worker[w] = "none"

\* The inductive invariant.
IInv ==
    /\ TypeOK
    /\ OneRecovery
    /\ RecoveringIsOwned
    /\ HealthyIsConnected
    /\ ConnectionDiscipline
=============================================================================
