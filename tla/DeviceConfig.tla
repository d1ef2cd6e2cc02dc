---------------------------- MODULE DeviceConfig ----------------------------
(***************************************************************************)
(* What the controller does with the chip when it initialises it: at the   *)
(* start of the process and in every recovery attempt it reads whether the *)
(* chip is locked and, if told to, writes the configuration zone word by   *)
(* word and locks it for good (initializeUnlocked, configureDeviceUnlocked *)
(* of pkg/atecc608a/controller.go). c.mutex is held all the while, so to   *)
(* the rest of the controller it is the one step that DeviceController     *)
(* makes of it.                                                            *)
(*                                                                         *)
(* The chip keeps its zone through every crash. A command either has its   *)
(* effect and is acknowledged, or the program sees an error, and then it   *)
(* may have had its effect or not. An acknowledgement is never false: the  *)
(* CRC of the responses, which the code does not check, is left out.       *)
(*                                                                         *)
(* A definition named X_Y is a faulty version of X, in the way Y.          *)
(***************************************************************************)
EXTENDS DeviceController

CONSTANTS
    FirstWord, LastWord,    \* words 4 .. 31 of the zone, those before are read-only
    SkippedWord             \* word 21 (byte 84), written by the lock command

ASSUME WordsAssumption ==
    /\ FirstWord \in Nat /\ LastWord \in Nat /\ SkippedWord \in Nat
    /\ FirstWord < SkippedWord /\ SkippedWord < LastWord

ASSUME WorkersAssumption == Workers \cap {"main", "nobody"} = {}

VARIABLES
    zone,       \* chip: the words that have the configuration of CFG_TLS
    locked,     \* chip: the configuration zone is locked
    configure,  \* autoConfig, and FORCE_CONFIG of the process's environment
    holder,     \* who initialises the chip: a worker, "main" or "nobody"
    step,       \* what it does next: "check", "write", "lock" or "done"
    word,       \* the word it writes next
    before      \* history: conn as it was when the initialisation began

chip == <<zone, locked>>
init == <<holder, step, word, before>>
allVars == <<vars, chip, configure, init>>

Words == (FirstWord .. LastWord) \ {SkippedWord}

\* The chip is new, or was locked by an earlier run.
ConfigInit ==
    /\ Init
    /\ \/ zone = {} /\ locked = FALSE
       \/ zone = Words /\ locked = TRUE
    /\ configure = FALSE
    /\ holder = "nobody" /\ step = "done" /\ word = FirstWord
    /\ before = "closed"

----------------------------------------------------------------------------
(* The initialisation begins *)

\* The connection is (closed and) opened, and the mutex stays taken.
Begin(who) ==
    /\ holder = "nobody"
    /\ holder' = who
    /\ step' = "check"
    /\ conn' = "open" /\ before' = conn
    /\ UNCHANGED <<process, state, recoveryInFlight, request, worker, attempt, word>>

\* NewController, in a new process, whose environment decides about FORCE_CONFIG.
BeginBoot ==
    /\ process = "down"
    /\ configure' \in BOOLEAN
    /\ Begin("main")
    /\ UNCHANGED chip

\* reinitialize gets a new connection.
BeginAttempt(w) ==
    /\ worker[w] = "attempt"
    /\ Begin(w)
    /\ UNCHANGED <<chip, configure>>

\* reinitialize cannot open one.
NoConnection(w) ==
    /\ holder = "nobody"
    /\ AttemptFails(w) /\ conn' = "closed"
    /\ UNCHANGED <<chip, configure, init>>

----------------------------------------------------------------------------
(* Its steps *)

Goto(place) ==
    /\ step' = place
    /\ UNCHANGED <<vars, configure, holder, before>>

\* The chip is taken to be locked if its two lock bytes are read as 0. Locking
\* the configuration zone need not clear both, and an error is not locked.
CheckLock ==
    /\ step = "check" /\ holder # "nobody"
    /\ \E isLocked \in (IF locked THEN BOOLEAN ELSE {FALSE}) :
          Goto(IF ~isLocked /\ configure THEN "write" ELSE "done")
    /\ word' = FirstWord
    /\ UNCHANGED chip

NextWord == IF word + 1 = SkippedWord THEN word + 2 ELSE word + 1

WriteWord ==
    /\ step = "write" /\ ~locked
    /\ zone' = zone \cup {word}
    /\ IF word = LastWord
       THEN Goto("lock") /\ UNCHANGED word
       ELSE Goto("write") /\ word' = NextWord
    /\ UNCHANGED locked

WriteFails_GoesOn ==
    /\ step = "write"
    /\ zone' \in {zone, IF locked THEN zone ELSE zone \cup {word}}
    /\ IF word = LastWord
       THEN Goto("lock") /\ UNCHANGED word
       ELSE Goto("write") /\ word' = NextWord
    /\ UNCHANGED locked

\* The bus fails, or the chip is locked and refuses: the configuration is given
\* up, and the initialisation goes on without it.
WriteFails ==
    /\ step = "write"
    /\ zone' \in {zone, IF locked THEN zone ELSE zone \cup {word}}
    /\ Goto("done")
    /\ UNCHANGED <<locked, word>>

LockZone ==
    /\ step = "lock"
    /\ locked' = TRUE
    /\ Goto("done")
    /\ UNCHANGED <<zone, word>>

LockFails ==
    /\ step = "lock"
    /\ locked' \in BOOLEAN
    /\ Goto("done")
    /\ UNCHANGED <<zone, word>>

----------------------------------------------------------------------------
(* It ends *)

End ==
    /\ holder' = "nobody"
    /\ step' = "done"
    /\ UNCHANGED <<chip, configure, word, before>>

\* The info command, its response or the command that reads the zone fails.
InitFails ==
    /\ step = "check"
    /\ \/ holder = "main" /\ \E w \in Workers : BootFailed(w)
       \/ \E w \in Workers : holder = w /\ AttemptFails(w) /\ conn' = "open"
    /\ End

InitSucceeds ==
    /\ step = "done"
    /\ \/ holder = "main" /\ BootHealthy
       \/ \E w \in Workers : holder = w /\ AttemptSucceeds(w)
    /\ End

\* NewController returns an error, or the process is killed.
BootEnds ==
    /\ holder = "main"
    /\ conn' = "closed"
    /\ End
    /\ UNCHANGED <<process, state, recoveryInFlight, request, worker, attempt>>

----------------------------------------------------------------------------
(* The rest of the controller *)

\* c.mutex is free.
Free == holder = "nobody"

\* Critical sections of c.mutex wait for it.
LockedStep(w) ==
    CheckHealthy(w) \/ MarkFailed(w) \/ AnnounceRecovery(w)
    \/ AnnounceHealthy(w) \/ GiveUp(w)

UnlockedStep(w) == AlreadyRecovering(w) \/ ClaimRecovery(w) \/ ReleaseRecovery(w) \/ ReleaseToExit(w)

RequestStep(r) ==
    CheckState(r) \/ DeviceAnswers(r) \/ \E w \in Workers : DeviceFails(r, w)

\* A worker outside the initialisation; Exit does not wait for c.mutex.
WorkerMoves(w) ==
    \/ Free /\ LockedStep(w) /\ UNCHANGED <<chip, configure, init>>
    \/ UnlockedStep(w) /\ UNCHANGED <<chip, configure, init>>
    \/ Exit(w) /\ End

RequestMoves_Unlocked(r) == RequestStep(r) /\ UNCHANGED <<chip, configure, init>>

\* A request, which takes c.mutex for the state and once more for the command.
RequestMoves(r) == Free /\ RequestStep(r) /\ UNCHANGED <<chip, configure, init>>

ShutDown == Free /\ Close /\ UNCHANGED <<chip, configure, init>>

MainReturns == Return /\ End

InitMoves ==
    CheckLock \/ WriteWord \/ WriteFails \/ LockZone \/ LockFails \/ InitFails \/ InitSucceeds

AttemptMoves(w) ==
    \/ BeginAttempt(w) \/ NoConnection(w) \/ WorkerMoves(w)
    \/ holder = w /\ InitMoves

ConfigNext ==
    \/ BeginBoot \/ BootEnds
    \/ InitMoves
    \/ \E w \in Workers : BeginAttempt(w) \/ NoConnection(w) \/ WorkerMoves(w)
    \/ \E r \in Requests : RequestMoves(r)
    \/ ShutDown \/ MainReturns

\* A goroutine runs on; one that waits for c.mutex gets it in the end, as
\* Go's mutex hands itself over to a waiter that starves.
ConfigFairness == \A w \in Workers : SF_allVars(AttemptMoves(w))

ConfigSpec == ConfigInit /\ [][ConfigNext]_allVars /\ ConfigFairness
----------------------------------------------------------------------------
(* Properties *)

\* The chip is only ever locked with the whole configuration in it, which can
\* never be changed again: whatever writes failed, and wherever crashes,
\* restarts and recoveries cut earlier configurations short.
LockedIsComplete == locked => zone = Words

Abstract == INSTANCE DeviceController WITH
    conn <- IF holder = "nobody" THEN conn ELSE before

\* Seen from outside c.mutex, an initialisation is one step that succeeds or
\* fails: with its steps taken one by one, the connection replaced at the first
\* of them, and processes that end in their midst, the controller is still the
\* one of DeviceController.
RefinesController == Abstract!Spec
=============================================================================
