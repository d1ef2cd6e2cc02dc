---------------------------- MODULE DeviceProofs ----------------------------
(***************************************************************************)
(* Proofs about DeviceController and DeviceConfig, for any number of       *)
(* requests, of goroutines handling failures and of retries, and a zone of *)
(* any size: one recovery at a time and states that are true, a chip that  *)
(* is never locked half configured, and the steps of an initialisation,    *)
(* which are, seen from outside c.mutex, those of DeviceController. What   *)
(* is proved of DeviceController therefore holds in this detail.           *)
(***************************************************************************)
EXTENDS DeviceConfig, TLAPS

----------------------------------------------------------------------------
(* The controller seen from outside c.mutex: DeviceController *)

LEMMA InitIInv == Init => IInv
<1> SUFFICES ASSUME Init PROVE IInv
  OBVIOUS
<1>1. recoveryInFlight \in BOOLEAN /\ ~recoveryInFlight
  BY Zenon DEF Init
<1>2. OneRecovery
  BY <1>1 DEF Init, OneRecovery, Recovering
<1>3. TypeOK
  BY <1>1, MaxRetriesAssumption DEF Init, TypeOK
<1>4. QED
  BY <1>2, <1>3 DEF Init, IInv, RecoveringIsOwned, HealthyIsConnected,
                     ConnectionDiscipline

\* The end of the process leaves nothing that could break the invariant.
LEMMA EndIInv == ASSUME TypeOK, ProcessEnds PROVE IInv'
<1>1. recoveryInFlight' \in BOOLEAN /\ ~recoveryInFlight'
  BY Zenon DEF ProcessEnds
<1>2. OneRecovery'
  BY <1>1 DEF ProcessEnds, OneRecovery, Recovering
<1>3. TypeOK'
  BY <1>1, MaxRetriesAssumption DEF ProcessEnds, TypeOK
<1>4. QED
  BY <1>2, <1>3 DEF ProcessEnds, IInv, RecoveringIsOwned, HealthyIsConnected,
                     ConnectionDiscipline

\* A worker that moves between places outside the recovery leaves the
\* recovery to the one that had it, if there was one.
LEMMA OutsideMove ==
    ASSUME TypeOK, OneRecovery, NEW w \in Workers, NEW p,
           worker[w] \notin Recovering, p \notin Recovering,
           worker' = [worker EXCEPT ![w] = p], recoveryInFlight' = recoveryInFlight
    PROVE  OneRecovery'
BY DEF TypeOK, OneRecovery

\* The worker that recovers moves inside the recovery and stays the only one.
LEMMA InsideMove ==
    ASSUME TypeOK, OneRecovery, NEW w \in Workers, NEW p,
           worker[w] \in Recovering, p \in Recovering,
           worker' = [worker EXCEPT ![w] = p], recoveryInFlight' = recoveryInFlight
    PROVE  OneRecovery'
BY DEF TypeOK, OneRecovery

\* It leaves the recovery, and nobody recovers any more.
LEMMA LeavingMove ==
    ASSUME TypeOK, OneRecovery, NEW w \in Workers, NEW p,
           worker[w] \in Recovering, p \notin Recovering,
           worker' = [worker EXCEPT ![w] = p], ~recoveryInFlight'
    PROVE  OneRecovery'
BY DEF TypeOK, OneRecovery

\* Nobody recovered, and the worker that claims the recovery is the only one.
LEMMA ClaimingMove ==
    ASSUME TypeOK, OneRecovery, NEW w \in Workers, NEW p, ~recoveryInFlight,
           p \in Recovering,
           worker' = [worker EXCEPT ![w] = p], recoveryInFlight' = TRUE
    PROVE  OneRecovery'
BY DEF TypeOK, OneRecovery

LEMMA NextIInv == IInv /\ [Next]_vars => IInv'
<1> SUFFICES ASSUME IInv, [Next]_vars PROVE IInv'
  OBVIOUS
<1>1. TypeOK /\ OneRecovery /\ RecoveringIsOwned /\ HealthyIsConnected /\ ConnectionDiscipline
  BY DEF IInv
<1>2. CASE BootHealthy
  <2>1. \A w \in Workers : worker[w] = "none"
    BY <1>1, <1>2 DEF BootHealthy, ConnectionDiscipline
  <2>2. QED
    BY <1>1, <1>2, <2>1
       DEF BootHealthy, IInv, TypeOK, OneRecovery, RecoveringIsOwned, HealthyIsConnected,
           ConnectionDiscipline
<1>3. ASSUME NEW w \in Workers, BootFailed(w) PROVE IInv'
  <2>1. \A v \in Workers : worker[v] = "none"
    BY <1>1, <1>3 DEF BootFailed, ConnectionDiscipline
  <2>2. OneRecovery'
    BY <1>1, <1>3, <2>1, OutsideMove DEF BootFailed, Recovering
  <2>3. TypeOK' /\ RecoveringIsOwned' /\ HealthyIsConnected' /\ ConnectionDiscipline'
    BY <1>1, <1>3, <2>1
       DEF BootFailed, TypeOK, RecoveringIsOwned, HealthyIsConnected, ConnectionDiscipline
  <2>4. QED
    BY <2>2, <2>3 DEF IInv
<1>4. ASSUME NEW w \in Workers, WorkerStep(w) PROVE IInv'
  <2>1. CASE CheckHealthy(w)
    <3>1. OneRecovery'
      BY <1>1, <2>1, OutsideMove DEF CheckHealthy, Recovering
    <3>2. TypeOK' /\ RecoveringIsOwned' /\ HealthyIsConnected' /\ ConnectionDiscipline'
      BY <1>1, <2>1
         DEF CheckHealthy, TypeOK, RecoveringIsOwned, HealthyIsConnected, ConnectionDiscipline
    <3>3. QED
      BY <3>1, <3>2 DEF IInv
  <2>2. CASE MarkFailed(w)
    <3>1. OneRecovery'
      BY <1>1, <2>2, OutsideMove DEF MarkFailed, Recovering
    <3>2. TypeOK' /\ RecoveringIsOwned' /\ HealthyIsConnected' /\ ConnectionDiscipline'
      BY <1>1, <2>2
         DEF MarkFailed, TypeOK, RecoveringIsOwned, HealthyIsConnected, ConnectionDiscipline
    <3>3. QED
      BY <3>1, <3>2 DEF IInv
  <2>3. CASE AlreadyRecovering(w)
    <3>1. OneRecovery'
      BY <1>1, <2>3, OutsideMove DEF AlreadyRecovering, Recovering
    <3>2. TypeOK' /\ RecoveringIsOwned' /\ HealthyIsConnected' /\ ConnectionDiscipline'
      BY <1>1, <2>3
         DEF AlreadyRecovering, TypeOK, RecoveringIsOwned, HealthyIsConnected, ConnectionDiscipline
    <3>3. QED
      BY <3>1, <3>2 DEF IInv
  <2>4. CASE ClaimRecovery(w)
    <3>1. OneRecovery'
      BY <1>1, <2>4, ClaimingMove DEF ClaimRecovery, Recovering
    <3>2. TypeOK' /\ RecoveringIsOwned' /\ HealthyIsConnected' /\ ConnectionDiscipline'
      BY <1>1, <2>4
         DEF ClaimRecovery, TypeOK, Recovering, RecoveringIsOwned, HealthyIsConnected,
             ConnectionDiscipline
    <3>3. QED
      BY <3>1, <3>2 DEF IInv
  <2>5. CASE AnnounceRecovery(w)
    <3>1. OneRecovery'
      BY <1>1, <2>5, InsideMove DEF AnnounceRecovery, Recovering
    <3>2. TypeOK' /\ RecoveringIsOwned' /\ HealthyIsConnected' /\ ConnectionDiscipline'
      BY <1>1, <2>5, MaxRetriesAssumption
         DEF AnnounceRecovery, TypeOK, Recovering, RecoveringIsOwned, HealthyIsConnected,
             ConnectionDiscipline
    <3>3. QED
      BY <3>1, <3>2 DEF IInv
  <2>6. CASE AttemptSucceeds(w)
    <3>1. OneRecovery'
      BY <1>1, <2>6, InsideMove DEF AttemptSucceeds, Recovering
    <3>2. TypeOK' /\ RecoveringIsOwned' /\ HealthyIsConnected' /\ ConnectionDiscipline'
      BY <1>1, <2>6
         DEF AttemptSucceeds, TypeOK, Recovering, RecoveringIsOwned, HealthyIsConnected,
             ConnectionDiscipline
    <3>3. QED
      BY <3>1, <3>2 DEF IInv
  <2>7. CASE AttemptFails(w)
    \* The connection may be closed now: nobody else relies on it.
    <3>1. \A v \in Workers : worker[v] \in Recovering => v = w
      BY <1>1, <2>7 DEF AttemptFails, OneRecovery, Recovering
    <3>2. OneRecovery'
      BY <1>1, <2>7, InsideMove DEF AttemptFails, Recovering, OneRecovery
    <3>3. TypeOK'
      BY <1>1, <2>7, MaxRetriesAssumption DEF AttemptFails, LastAttempt, TypeOK, Recovering
    <3>4. RecoveringIsOwned' /\ HealthyIsConnected' /\ ConnectionDiscipline'
      BY <1>1, <2>7, <3>1
         DEF AttemptFails, TypeOK, Recovering, RecoveringIsOwned, HealthyIsConnected,
             ConnectionDiscipline
    <3>5. QED
      BY <3>2, <3>3, <3>4 DEF IInv
  <2>8. CASE AnnounceHealthy(w)
    \* Nobody else is at an attempt, where the state may not be "healthy".
    <3>1. \A v \in Workers : worker[v] \in Recovering => v = w
      BY <1>1, <2>8 DEF AnnounceHealthy, OneRecovery, Recovering
    <3>2. OneRecovery'
      BY <1>1, <2>8, InsideMove DEF AnnounceHealthy, Recovering
    <3>3. TypeOK' /\ RecoveringIsOwned' /\ HealthyIsConnected' /\ ConnectionDiscipline'
      BY <1>1, <2>8, <3>1
         DEF AnnounceHealthy, TypeOK, Recovering, RecoveringIsOwned, HealthyIsConnected,
             ConnectionDiscipline
    <3>4. QED
      BY <3>2, <3>3 DEF IInv
  <2>9. CASE ReleaseRecovery(w)
    <3>1. recoveryInFlight' \in BOOLEAN /\ ~recoveryInFlight'
      BY <2>9, Zenon DEF ReleaseRecovery
    <3>2. OneRecovery'
      <4>1. /\ worker[w] \in Recovering /\ "none" \notin Recovering
            /\ worker' = [worker EXCEPT ![w] = "none"]
        BY <2>9 DEF ReleaseRecovery, Recovering
      <4>2. QED
        BY <1>1, <3>1, <4>1, LeavingMove
    <3>3. TypeOK'
      BY <1>1, <2>9, <3>1, MaxRetriesAssumption DEF ReleaseRecovery, TypeOK, Recovering
    <3>4. RecoveringIsOwned' /\ HealthyIsConnected' /\ ConnectionDiscipline'
      BY <1>1, <2>9
         DEF ReleaseRecovery, TypeOK, RecoveringIsOwned, HealthyIsConnected, ConnectionDiscipline
    <3>5. QED
      BY <3>2, <3>3, <3>4 DEF IInv
  <2>10. CASE GiveUp(w)
    <3>1. OneRecovery'
      BY <1>1, <2>10, InsideMove DEF GiveUp, Recovering
    <3>2. TypeOK' /\ RecoveringIsOwned' /\ HealthyIsConnected' /\ ConnectionDiscipline'
      BY <1>1, <2>10
         DEF GiveUp, TypeOK, Recovering, RecoveringIsOwned, HealthyIsConnected,
             ConnectionDiscipline
    <3>3. QED
      BY <3>1, <3>2 DEF IInv
  <2>11. CASE ReleaseToExit(w)
    <3>1. recoveryInFlight' \in BOOLEAN /\ ~recoveryInFlight'
      BY <2>11, Zenon DEF ReleaseToExit
    <3>2. OneRecovery'
      <4>1. /\ worker[w] \in Recovering /\ "exit" \notin Recovering
            /\ worker' = [worker EXCEPT ![w] = "exit"]
        BY <2>11 DEF ReleaseToExit, Recovering
      <4>2. QED
        BY <1>1, <3>1, <4>1, LeavingMove
    <3>3. TypeOK'
      BY <1>1, <2>11, <3>1 DEF ReleaseToExit, TypeOK, Recovering
    <3>4. RecoveringIsOwned' /\ HealthyIsConnected' /\ ConnectionDiscipline'
      BY <1>1, <2>11
         DEF ReleaseToExit, TypeOK, RecoveringIsOwned, HealthyIsConnected, ConnectionDiscipline
    <3>5. QED
      BY <3>2, <3>3, <3>4 DEF IInv
  <2>12. CASE Exit(w)
    BY <1>1, <2>12, EndIInv DEF Exit
  <2>13. QED
    BY <1>4, <2>1, <2>2, <2>3, <2>4, <2>5, <2>6, <2>7, <2>8, <2>9, <2>10, <2>11, <2>12
       DEF WorkerStep
<1>5. ASSUME NEW r \in Requests, CheckState(r) \/ DeviceAnswers(r) PROVE IInv'
  BY <1>1, <1>5
     DEF CheckState, DeviceAnswers, IInv, TypeOK, OneRecovery, RecoveringIsOwned,
         HealthyIsConnected, ConnectionDiscipline
<1>6. ASSUME NEW r \in Requests, NEW w \in Workers, DeviceFails(r, w) PROVE IInv'
  <2>1. OneRecovery'
    BY <1>1, <1>6, OutsideMove DEF DeviceFails, Recovering
  <2>2. TypeOK' /\ RecoveringIsOwned' /\ HealthyIsConnected' /\ ConnectionDiscipline'
    BY <1>1, <1>6
       DEF DeviceFails, TypeOK, RecoveringIsOwned, HealthyIsConnected, ConnectionDiscipline
  <2>3. QED
    BY <2>1, <2>2 DEF IInv
<1>7. CASE Close
  BY <1>1, <1>7
     DEF Close, IInv, TypeOK, OneRecovery, RecoveringIsOwned, HealthyIsConnected,
         ConnectionDiscipline
<1>8. CASE Return
  BY <1>1, <1>8, EndIInv DEF Return
<1>9. CASE UNCHANGED vars
  BY <1>1, <1>9
     DEF vars, IInv, TypeOK, OneRecovery, RecoveringIsOwned, HealthyIsConnected,
         ConnectionDiscipline
<1>10. QED
  BY <1>2, <1>3, <1>4, <1>5, <1>6, <1>7, <1>8, <1>9 DEF Next

----------------------------------------------------------------------------
(* Its theorems *)

\* The inductive invariant holds of every behaviour of the controller.
THEOREM Invariance == Spec => []IInv
BY InitIInv, NextIInv, PTL DEF Spec

\* Every variable keeps its type, the number of attempts its bound included.
THEOREM TypeCorrectness == Spec => []TypeOK
<1>1. IInv => TypeOK
  BY DEF IInv
<1>2. QED
  BY <1>1, Invariance, PTL

\* However many failures are handled at once, at most one goroutine recovers
\* the device, and recoveryInFlight says whether one does.
THEOREM RecoveryIsExclusive == Spec => []OneRecovery
<1>1. IInv => OneRecovery
  BY DEF IInv
<1>2. QED
  BY <1>1, Invariance, PTL

\* A running controller that says it is healthy has a connection.
THEOREM StateIsTrue == Spec => []HealthyIsConnected
<1>1. IInv => HealthyIsConnected
  BY DEF IInv
<1>2. QED
  BY <1>1, Invariance, PTL

\* One that says it is recovering has a goroutine that recovers it.
THEOREM RecoveryIsOwned == Spec => []RecoveringIsOwned
<1>1. IInv => RecoveringIsOwned
  BY DEF IInv
<1>2. QED
  BY <1>1, Invariance, PTL

----------------------------------------------------------------------------
(* The initialisation taken apart: DeviceConfig *)

ConfigTypeOK ==
    /\ zone \subseteq Words /\ locked \in BOOLEAN /\ configure \in BOOLEAN
    /\ holder \in Workers \cup {"main", "nobody"}
    /\ step \in {"check", "write", "lock", "done"}
    /\ word \in Words
    /\ before \in {"open", "closed"}

\* Who initialises the chip is the process that starts or the worker whose
\* attempt it is; a process that is down has no connection.
HolderWaits ==
    /\ holder = "main" => process = "down" /\ before = "closed"
    /\ holder \in Workers => worker[holder] = "attempt"
    /\ holder = "nobody" => step = "done"
    /\ process = "down" /\ holder = "nobody" => conn = "closed"

\* The words before the one that is written next are in the zone, and all of
\* them are before the lock command.
WrittenSoFar ==
    /\ step = "write" => \A w \in Words : w < word => w \in zone
    /\ step = "lock" => zone = Words

ConfigIInv ==
    /\ IInv
    /\ ConfigTypeOK
    /\ HolderWaits
    /\ WrittenSoFar
    /\ LockedIsComplete

\* What an action has to show: the invariant, and the step that it is of the
\* controller seen from outside c.mutex.
Kept == ConfigIInv' /\ [Abstract!Next]_(Abstract!vars)

LEMMA WordsType == \A w \in Words : w \in Nat
BY WordsAssumption DEF Words

LEMMA NextWordInZone ==
    ASSUME word \in Words, word # LastWord
    PROVE  /\ NextWord \in Words /\ word < NextWord
           /\ \A w \in Words : w < NextWord => w < word \/ w = word
BY WordsAssumption DEF Words, NextWord

LEMMA ConfigInitIInv == ConfigInit => ConfigIInv /\ Abstract!Init
<1> SUFFICES ASSUME ConfigInit PROVE ConfigIInv /\ Abstract!Init
  OBVIOUS
<1>1. IInv
  BY InitIInv DEF ConfigInit
<1>2. ConfigTypeOK
  <2>1. FirstWord \in Words
    BY WordsAssumption DEF Words
  <2>2. QED
    BY <2>1 DEF ConfigInit, ConfigTypeOK
<1>3. HolderWaits /\ WrittenSoFar /\ LockedIsComplete
  BY WorkersAssumption DEF ConfigInit, Init, HolderWaits, WrittenSoFar, LockedIsComplete
<1>4. Abstract!Init
  BY DEF ConfigInit, Init, Abstract!Init
<1>5. QED
  BY <1>1, <1>2, <1>3, <1>4 DEF ConfigIInv

----------------------------------------------------------------------------
(* The initialisation begins *)

LEMMA BeginKept ==
    ASSUME ConfigIInv, NEW who \in Workers \cup {"main"}, Begin(who),
           who = "main" => process = "down",
           who \in Workers => worker[who] = "attempt",
           configure' \in BOOLEAN, UNCHANGED chip
    PROVE  Kept
<1>1. /\ IInv /\ ConfigTypeOK /\ HolderWaits /\ WrittenSoFar /\ LockedIsComplete
      /\ TypeOK
  BY DEF ConfigIInv, IInv
<1>2. IInv'
  BY <1>1 DEF Begin, IInv, TypeOK, OneRecovery, RecoveringIsOwned, HealthyIsConnected,
              ConnectionDiscipline
<1>3. ConfigTypeOK'
  BY <1>1 DEF Begin, chip, ConfigTypeOK, TypeOK
<1>4. HolderWaits'
  BY <1>1, WorkersAssumption DEF Begin, HolderWaits
<1>5. WrittenSoFar' /\ LockedIsComplete'
  BY <1>1 DEF Begin, chip, WrittenSoFar, LockedIsComplete
<1>6. UNCHANGED Abstract!vars
  BY <1>1, WorkersAssumption DEF Begin, Abstract!vars
<1>7. QED
  BY <1>2, <1>3, <1>4, <1>5, <1>6 DEF Kept, ConfigIInv

LEMMA BeginBootKept == ASSUME ConfigIInv, BeginBoot PROVE Kept
BY BeginKept, WorkersAssumption DEF BeginBoot

LEMMA BeginAttemptKept ==
    ASSUME ConfigIInv, NEW w \in Workers, BeginAttempt(w) PROVE Kept
BY BeginKept, WorkersAssumption DEF BeginAttempt, ConfigIInv, ConfigTypeOK

----------------------------------------------------------------------------
(* Its steps *)

LEMMA GotoKept ==
    ASSUME ConfigIInv, NEW place \in {"write", "lock", "done"}, Goto(place),
           holder # "nobody",
           zone' \subseteq Words, locked' \in BOOLEAN, word' \in Words,
           WrittenSoFar', LockedIsComplete'
    PROVE  Kept
<1>1. IInv /\ ConfigTypeOK /\ HolderWaits
  BY DEF ConfigIInv
<1>2. IInv'
  BY <1>1, NextIInv DEF Goto
<1>3. ConfigTypeOK' /\ HolderWaits'
  BY <1>1 DEF Goto, vars, ConfigTypeOK, HolderWaits
<1>4. UNCHANGED Abstract!vars
  BY DEF Goto, vars, Abstract!vars
<1>5. QED
  BY <1>2, <1>3, <1>4 DEF Kept, ConfigIInv

LEMMA CheckLockKept == ASSUME ConfigIInv, CheckLock PROVE Kept
<1>1. ConfigTypeOK /\ LockedIsComplete
  BY DEF ConfigIInv
<1>2. PICK place \in {"write", "done"} : Goto(place)
  BY DEF CheckLock
<1>3. word' = FirstWord /\ FirstWord \in Words /\ UNCHANGED chip /\ holder # "nobody"
  BY WordsAssumption DEF CheckLock, Words
<1>4. \A w \in Words : ~(w < FirstWord)
  BY WordsAssumption DEF Words
<1>5. WrittenSoFar' /\ LockedIsComplete'
  BY <1>1, <1>2, <1>3, <1>4 DEF Goto, chip, WrittenSoFar, LockedIsComplete
<1>6. QED
  BY <1>1, <1>2, <1>3, <1>5, GotoKept DEF chip, ConfigTypeOK

LEMMA WriteWordKept == ASSUME ConfigIInv, WriteWord PROVE Kept
<1>1. ConfigTypeOK /\ HolderWaits /\ WrittenSoFar /\ LockedIsComplete
  BY DEF ConfigIInv
<1>2. /\ step = "write" /\ ~locked /\ zone' = zone \cup {word} /\ UNCHANGED locked
      /\ holder # "nobody" /\ word \in Words
      /\ zone' \subseteq Words
      /\ \A w \in Words : w < word => w \in zone
  BY <1>1 DEF WriteWord, ConfigTypeOK, HolderWaits, WrittenSoFar
<1>3. CASE word = LastWord
  <2>1. Goto("lock") /\ word' = word
    BY <1>2, <1>3 DEF WriteWord
  <2>2. \A w \in Words : w < word \/ w = word
    BY <1>3, WordsAssumption DEF Words
  <2>3. WrittenSoFar' /\ LockedIsComplete'
    BY <1>2, <2>1, <2>2 DEF Goto, WrittenSoFar, LockedIsComplete
  <2>4. QED
    BY <1>1, <1>2, <2>1, <2>3, GotoKept DEF ConfigTypeOK
<1>4. CASE word # LastWord
  <2>1. Goto("write") /\ word' = NextWord
    BY <1>2, <1>4 DEF WriteWord
  <2>2. NextWord \in Words /\ \A w \in Words : w < NextWord => w < word \/ w = word
    BY <1>2, <1>4, NextWordInZone
  <2>3. WrittenSoFar' /\ LockedIsComplete'
    BY <1>2, <2>1, <2>2 DEF Goto, WrittenSoFar, LockedIsComplete
  <2>4. QED
    BY <1>1, <1>2, <2>1, <2>2, <2>3, GotoKept DEF ConfigTypeOK
<1>5. QED
  BY <1>3, <1>4

LEMMA WriteFailsKept == ASSUME ConfigIInv, WriteFails PROVE Kept
<1>1. ConfigTypeOK /\ HolderWaits /\ LockedIsComplete
  BY DEF ConfigIInv
<1>2. /\ Goto("done") /\ UNCHANGED <<locked, word>> /\ holder # "nobody"
      /\ zone' \subseteq Words
      /\ locked => zone' = zone
  BY <1>1 DEF WriteFails, ConfigTypeOK, HolderWaits
<1>3. WrittenSoFar' /\ LockedIsComplete'
  BY <1>1, <1>2 DEF Goto, WrittenSoFar, LockedIsComplete
<1>4. QED
  BY <1>1, <1>2, <1>3, GotoKept DEF ConfigTypeOK

\* The lock command comes when the whole configuration is in the zone.
LEMMA LockKept == ASSUME ConfigIInv, LockZone \/ LockFails PROVE Kept
<1>1. ConfigTypeOK /\ HolderWaits /\ WrittenSoFar
  BY DEF ConfigIInv
<1>2. /\ Goto("done") /\ UNCHANGED <<zone, word>> /\ holder # "nobody"
      /\ locked' \in BOOLEAN
      /\ zone = Words
  BY <1>1 DEF LockZone, LockFails, HolderWaits, WrittenSoFar
<1>3. WrittenSoFar' /\ LockedIsComplete'
  BY <1>2 DEF Goto, WrittenSoFar, LockedIsComplete
<1>4. QED
  BY <1>1, <1>2, <1>3, GotoKept DEF ConfigTypeOK

----------------------------------------------------------------------------
(* It ends, and the rest of the controller *)

\* A step of the controller during which, or with which, an initialisation
\* ends: only c.mutex is given back, and the chip keeps its zone.
LEMMA EndKept ==
    ASSUME ConfigIInv, End, [Next]_vars, process' = "down" => conn' = "closed",
           [Abstract!Next]_(Abstract!vars)
    PROVE  Kept
<1>1. /\ IInv /\ ConfigTypeOK /\ HolderWaits /\ LockedIsComplete
  BY DEF ConfigIInv
<1>2. IInv'
  BY <1>1, NextIInv
<1>3. ConfigTypeOK' /\ HolderWaits' /\ WrittenSoFar' /\ LockedIsComplete'
  BY <1>1, WorkersAssumption
     DEF End, chip, ConfigTypeOK, HolderWaits, WrittenSoFar, LockedIsComplete
<1>4. QED
  BY <1>2, <1>3 DEF Kept, ConfigIInv

\* A step beside an initialisation, or with none under way.
LEMMA BesideKept ==
    ASSUME ConfigIInv, UNCHANGED <<chip, configure, init>>, [Next]_vars,
           process' = process \/ (process = "running" /\ process' = "closing"),
           \A w \in Workers : holder = w => worker'[w] = worker[w],
           holder # "nobody" => process' = process,
           [Abstract!Next]_(Abstract!vars),
           conn' = conn \/ process' # "down"
    PROVE  Kept
<1>1. /\ IInv /\ ConfigTypeOK /\ HolderWaits /\ WrittenSoFar /\ LockedIsComplete
  BY DEF ConfigIInv
<1>2. IInv'
  BY <1>1, NextIInv
<1>3. ConfigTypeOK' /\ WrittenSoFar' /\ LockedIsComplete'
  BY <1>1 DEF chip, init, ConfigTypeOK, WrittenSoFar, LockedIsComplete
<1>4. HolderWaits'
  BY <1>1 DEF init, HolderWaits
<1>5. QED
  BY <1>2, <1>3, <1>4 DEF Kept, ConfigIInv

LEMMA InitFailsKept == ASSUME ConfigIInv, InitFails PROVE Kept
<1>1. End /\ holder' = "nobody"
  BY DEF InitFails, End
<1>2. CASE \E w \in Workers : BootFailed(w)
  <2>1. Next /\ process' # "down"
    BY <1>2 DEF Next, BootFailed
  <2>2. Abstract!Next
    BY <1>1, <1>2 DEF BootFailed, Abstract!Next, Abstract!BootFailed
  <2>3. QED
    BY <1>1, <2>1, <2>2, EndKept
<1>3. CASE \E w \in Workers : AttemptFails(w) /\ conn' = "open"
  <2>1. PICK w \in Workers : AttemptFails(w) /\ conn' = "open"
    BY <1>3
  <2>2. Next /\ process' # "down"
    BY <2>1 DEF Next, WorkerStep, AttemptFails, ConfigIInv, IInv, ConnectionDiscipline
  <2>3. Abstract!AttemptFails(w)
    BY <1>1, <2>1 DEF AttemptFails, Abstract!AttemptFails, LastAttempt, Abstract!LastAttempt
  <2>4. Abstract!Next
    BY <2>3 DEF Abstract!Next, Abstract!WorkerStep
  <2>5. QED
    BY <1>1, <2>2, <2>4, EndKept
<1>4. QED
  BY <1>2, <1>3 DEF InitFails

LEMMA InitSucceedsKept == ASSUME ConfigIInv, InitSucceeds PROVE Kept
<1>1. End /\ holder' = "nobody"
  BY DEF InitSucceeds, End
<1>2. CASE BootHealthy
  <2>1. Next /\ process' # "down"
    BY <1>2 DEF Next, BootHealthy
  <2>2. Abstract!Next
    BY <1>1, <1>2 DEF BootHealthy, Abstract!Next, Abstract!BootHealthy
  <2>3. QED
    BY <1>1, <2>1, <2>2, EndKept
<1>3. CASE \E w \in Workers : AttemptSucceeds(w)
  <2>1. PICK w \in Workers : AttemptSucceeds(w)
    BY <1>3
  <2>2. Next /\ process' # "down"
    BY <2>1 DEF Next, WorkerStep, AttemptSucceeds, ConfigIInv, IInv, ConnectionDiscipline
  <2>3. Abstract!Next
    BY <1>1, <2>1
       DEF AttemptSucceeds, Abstract!Next, Abstract!WorkerStep, Abstract!AttemptSucceeds
  <2>4. QED
    BY <1>1, <2>2, <2>3, EndKept
<1>4. QED
  BY <1>2, <1>3 DEF InitSucceeds

\* From outside, an initialisation that is cut short by the end of a starting
\* process has never happened.
LEMMA BootEndsKept == ASSUME ConfigIInv, BootEnds PROVE Kept
<1>1. /\ IInv /\ ConfigTypeOK /\ HolderWaits /\ LockedIsComplete /\ TypeOK
      /\ holder = "main" /\ process = "down" /\ before = "closed"
  BY DEF ConfigIInv, IInv, BootEnds, HolderWaits
<1>2. IInv'
  BY <1>1 DEF BootEnds, IInv, TypeOK, OneRecovery, RecoveringIsOwned, HealthyIsConnected,
              ConnectionDiscipline
<1>3. ConfigTypeOK' /\ HolderWaits' /\ WrittenSoFar' /\ LockedIsComplete'
  BY <1>1, WorkersAssumption
     DEF BootEnds, End, chip, ConfigTypeOK, HolderWaits, WrittenSoFar, LockedIsComplete
<1>4. UNCHANGED Abstract!vars
  BY <1>1 DEF BootEnds, End, Abstract!vars
<1>5. QED
  BY <1>2, <1>3, <1>4 DEF Kept, ConfigIInv

LEMMA NoConnectionKept ==
    ASSUME ConfigIInv, NEW w \in Workers, NoConnection(w) PROVE Kept
<1>1. /\ holder = "nobody" /\ AttemptFails(w) /\ conn' = "closed"
      /\ UNCHANGED <<chip, configure, init>>
  BY DEF NoConnection
<1>2. Next /\ process' = process /\ process # "down"
  BY <1>1 DEF Next, WorkerStep, AttemptFails, ConfigIInv, IInv, ConnectionDiscipline
<1>3. Abstract!AttemptFails(w)
  BY <1>1 DEF init, AttemptFails, Abstract!AttemptFails, LastAttempt, Abstract!LastAttempt
<1>4. Abstract!Next
  BY <1>3 DEF Abstract!Next, Abstract!WorkerStep
<1>5. QED
  BY <1>1, <1>2, <1>4, BesideKept, WorkersAssumption

\* Steps of a worker that leave the connection alone.
LEMMA WorkerStepKept ==
    ASSUME ConfigIInv, NEW w \in Workers, LockedStep(w) \/ UnlockedStep(w),
           UNCHANGED <<chip, configure, init>>
    PROVE  Kept
<1>1. Next
  BY DEF LockedStep, UnlockedStep, Next, WorkerStep
<1>2. UNCHANGED <<conn, process>> /\ worker[w] # "attempt"
  BY DEF LockedStep, UnlockedStep, CheckHealthy, MarkFailed, AnnounceRecovery,
         AnnounceHealthy, GiveUp, AlreadyRecovering, ClaimRecovery, ReleaseRecovery,
         ReleaseToExit
<1>3. \A v \in Workers : v # w => worker'[v] = worker[v]
  BY DEF LockedStep, UnlockedStep, CheckHealthy, MarkFailed, AnnounceRecovery,
         AnnounceHealthy, GiveUp, AlreadyRecovering, ClaimRecovery, ReleaseRecovery,
         ReleaseToExit, ConfigIInv, IInv, TypeOK
<1>4. holder # w
  BY <1>2 DEF ConfigIInv, HolderWaits
<1>5. Abstract!WorkerStep(w)
  <2>1. CASE LockedStep(w)
    BY <2>1
       DEF LockedStep, init, CheckHealthy, MarkFailed, AnnounceRecovery, AnnounceHealthy,
           GiveUp, Abstract!WorkerStep, Abstract!CheckHealthy, Abstract!MarkFailed,
           Abstract!AnnounceRecovery, Abstract!AnnounceHealthy, Abstract!GiveUp
  <2>2. CASE UnlockedStep(w)
    BY <2>2
       DEF UnlockedStep, init, AlreadyRecovering, ClaimRecovery, ReleaseRecovery,
           ReleaseToExit, Abstract!WorkerStep, Abstract!AlreadyRecovering,
           Abstract!ClaimRecovery, Abstract!ReleaseRecovery, Abstract!ReleaseToExit
  <2>3. QED
    BY <2>1, <2>2
<1>6. Abstract!Next
  BY <1>5 DEF Abstract!Next
<1>7. QED
  BY <1>1, <1>2, <1>3, <1>4, <1>6, BesideKept

\* The process ends, with os.Exit or main's return, whatever holds c.mutex.
LEMMA ProcessEndsKept ==
    ASSUME ConfigIInv, Return \/ (\E w \in Workers : Exit(w)), End
    PROVE  Kept
<1>1. Next /\ ProcessEnds /\ conn' = "closed" /\ holder' = "nobody"
  BY DEF Next, WorkerStep, Return, Exit, ProcessEnds, End
<1>2. Abstract!ProcessEnds
  BY <1>1 DEF ProcessEnds, Abstract!ProcessEnds
<1>3. Abstract!Next
  BY <1>2 DEF Return, Exit, Abstract!Next, Abstract!WorkerStep, Abstract!Return,
              Abstract!Exit
<1>4. QED
  BY <1>1, <1>3, EndKept

LEMMA WorkerMovesKept ==
    ASSUME ConfigIInv, NEW w \in Workers, WorkerMoves(w) PROVE Kept
BY WorkerStepKept, ProcessEndsKept DEF WorkerMoves

LEMMA RequestMovesKept ==
    ASSUME ConfigIInv, NEW r \in Requests, RequestMoves(r) PROVE Kept
<1>1. holder = "nobody" /\ UNCHANGED <<chip, configure, init>>
  BY DEF RequestMoves, Free
<1>2. Next
  BY DEF RequestMoves, RequestStep, Next
<1>3. UNCHANGED <<conn, process>>
  BY DEF RequestMoves, RequestStep, CheckState, DeviceAnswers, DeviceFails
<1>4. Abstract!Next
  BY <1>1
     DEF RequestMoves, RequestStep, init, CheckState, DeviceAnswers, DeviceFails,
         Abstract!Next, Abstract!CheckState, Abstract!DeviceAnswers, Abstract!DeviceFails
<1>5. QED
  BY <1>1, <1>2, <1>3, <1>4, BesideKept, WorkersAssumption

LEMMA ShutDownKept == ASSUME ConfigIInv, ShutDown PROVE Kept
<1>1. holder = "nobody" /\ UNCHANGED <<chip, configure, init>> /\ Close
  BY DEF ShutDown, Free
<1>2. Next /\ process = "running" /\ process' = "closing"
  BY <1>1 DEF Close, Next
<1>3. Abstract!Next
  BY <1>1 DEF init, Close, Abstract!Next, Abstract!Close
<1>4. QED
  BY <1>1, <1>2, <1>3, BesideKept, WorkersAssumption

----------------------------------------------------------------------------
(* The theorems about the initialisation *)

LEMMA ConfigNextKept == ConfigIInv /\ [ConfigNext]_allVars => Kept
<1> SUFFICES ASSUME ConfigIInv, [ConfigNext]_allVars PROVE Kept
  OBVIOUS
<1>1. CASE UNCHANGED allVars
  BY <1>1 DEF allVars, vars, chip, init, Kept, ConfigIInv, IInv, TypeOK, OneRecovery,
              RecoveringIsOwned, HealthyIsConnected, ConnectionDiscipline, ConfigTypeOK,
              HolderWaits, WrittenSoFar, LockedIsComplete, Abstract!vars
<1>2. CASE InitMoves
  BY <1>2, CheckLockKept, WriteWordKept, WriteFailsKept, LockKept, InitFailsKept,
     InitSucceedsKept
     DEF InitMoves
<1>3. CASE ShutDown \/ MainReturns
  BY <1>3, ShutDownKept, ProcessEndsKept DEF MainReturns
<1>4. QED
  BY <1>1, <1>2, <1>3, BeginBootKept, BootEndsKept, BeginAttemptKept, NoConnectionKept,
     WorkerMovesKept, RequestMovesKept
     DEF ConfigNext

\* The inductive invariant holds of every behaviour.
THEOREM ConfigInvariance == ConfigSpec => []ConfigIInv
<1>1. ConfigIInv /\ [ConfigNext]_allVars => ConfigIInv'
  BY ConfigNextKept DEF Kept
<1>2. QED
  BY <1>1, ConfigInitIInv, PTL DEF ConfigSpec

\* Whatever writes fail, and wherever crashes, restarts and recoveries cut a
\* configuration short, the chip is only locked with all of it in the zone.
THEOREM NeverLockedIncomplete == ConfigSpec => []LockedIsComplete
<1>1. ConfigIInv => LockedIsComplete
  BY DEF ConfigIInv
<1>2. QED
  BY <1>1, ConfigInvariance, PTL

\* Every initial state and every step of the controller with its steps of an
\* initialisation is one of DeviceController, seen from outside c.mutex.
THEOREM ImplementsController ==
    ConfigSpec => Abstract!Init /\ [][Abstract!Next]_(Abstract!vars)
<1>1. ConfigIInv /\ [ConfigNext]_allVars => [Abstract!Next]_(Abstract!vars)
  BY ConfigNextKept DEF Kept
<1>2. QED
  BY <1>1, ConfigInitIInv, ConfigInvariance, PTL DEF ConfigSpec

\* The controller's own invariants hold in every state of an initialisation too:
\* one recovery at a time, and states that tell the truth.
THEOREM ControllerInvariants ==
    ConfigSpec => [](OneRecovery /\ RecoveringIsOwned /\ HealthyIsConnected)
<1>1. ConfigIInv => OneRecovery /\ RecoveringIsOwned /\ HealthyIsConnected
  BY DEF ConfigIInv, IInv
<1>2. QED
  BY <1>1, ConfigInvariance, PTL
=============================================================================
