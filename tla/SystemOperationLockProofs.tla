---------------------- MODULE SystemOperationLockProofs ----------------------
(***************************************************************************)
(* Machine-checked proofs about SystemOperationLock, for every number of   *)
(* operations, every lease, every number of failed renewals and all        *)
(* durations with RunTime + AcquireTime < TTL.                             *)
(***************************************************************************)
EXTENDS SystemOperationLock, IdempotencyRecordProofs

Act(p) ==
    \/ StartAcquire(p) \/ Create(p) \/ CreateConflicts(p)
    \/ GetExisting(p) \/ Reclaim(p) \/ ReclaimMisses(p) \/ StoreFails(p)
    \/ Renew(p) \/ RenewFails(p) \/ OwnershipLost(p)
    \/ Finish(p) \/ Release(p) \/ StopRenewing(p) \/ Die(p)

LEMMA NextCases ==
  ASSUME Next
  PROVE (\E p \in Callers : Act(p)) \/ Cleanup \/ Wait
BY DEF Next, Act

(***************************************************************************)
(* What the statements and the steps of an operation write has its type.   *)
(***************************************************************************)
LEMMA IdleType == Idle \in Operations
BY LockTimesAssumption DEF Idle, Operations, Steps, Statuses

LEMMA StepType ==
  ASSUME NEW r \in Operations, NEW s \in Steps
  PROVE  [r EXCEPT !.pc = s] \in Operations
BY DEF Operations

LEMMA EndType ==
  ASSUME op \in [Callers -> Operations], NEW p \in Callers, End(p)
  PROVE  op' \in [Callers -> Operations] /\ op'[p].pc = "done"
<1> DEFINE r == [Idle EXCEPT !.pc = "done"]
<1>1. r \in Operations
  BY IdleType, StepType DEF Steps
<1>2. r.pc = "done"
  BY IdleType DEF Operations
<1>3. op' = [op EXCEPT ![p] = r]
  BY DEF End
<1> HIDE DEF r
<1> QED
  BY <1>1, <1>2, <1>3

LEMMA TypeInit == Init => TypeOK
BY NobodyAssumption, TimesAssumption, OwnIdAssumption, LockTimesAssumption
   DEF Init, RecordInit, TypeOK, RecordTypeOK, Rows, Statuses, Operations, Steps, Acquiring,
       Idle, NoRow, recordVars

\* Every statement writes times that were read from the clock, and no
\* statement but INSERT and DELETE changes which row there is.
LEMMA TypeStep == TypeOK /\ IdInv /\ [Next]_vars => TypeOK'
<1> SUFFICES ASSUME TypeOK, IdInv, [Next]_vars PROVE TypeOK'
  OBVIOUS
<1> USE DEF TypeOK
<1>a. clock \in Nat /\ row.id \in Nat /\ row.status \in Statuses
  BY TimesAssumption DEF RecordTypeOK, Rows
<1>b. UNCHANGED recordVars => RecordTypeOK'
  BY DEF RecordTypeOK, recordVars
<1>c. ASSUME UNCHANGED clock, row' \in Rows, lastId' \in Nat,
             row' = NoRow \/ (row'.id = lastId' /\ lastId' # 0)
      PROVE  RecordTypeOK'
  BY <1>c DEF RecordTypeOK
<1>d. ASSUME NEW p \in Callers, NEW s \in Steps, GoTo(p, s)
      PROVE  op' \in [Callers -> Operations]
  BY <1>d, StepType DEF GoTo
<1>e. ASSUME NEW p \in Callers, NEW id \in Nat, NEW b \in BOOLEAN, Enter(p, id, b)
      PROVE  op' \in [Callers -> Operations] /\ UNCHANGED clock
  <2> DEFINE at == clock + RenewEvery
             r == [op[p] EXCEPT !.pc = "run", !.id = id, !.created = b,
                                !.renewAt = at]
  <2>1. at \in Nat
    BY <1>a, LockTimesAssumption
  <2>2. op' = [op EXCEPT ![p] = r] /\ UNCHANGED clock
    BY <1>e DEF Enter
  <2> HIDE DEF at
  <2>3. r \in Operations
    BY <2>1 DEF Operations, Steps
  <2> HIDE DEF r
  <2> QED
    BY <2>2, <2>3
<1>f. ASSUME NEW p \in Callers
      PROVE  op[p] \in Operations /\ op[p].now \in Nat /\ op[p].id \in Nat
  BY DEF Operations
<1>1. ASSUME NEW p \in Callers, Act(p) PROVE TypeOK'
  <2>1. CASE StartAcquire(p)
    <3>1. [op[p] EXCEPT !.pc = "create", !.now = clock] \in Operations
      BY <1>a, <1>f DEF Operations, Steps, Acquiring
    <3> QED
      BY <3>1, <1>b, <2>1 DEF StartAcquire
  <2>2. CASE Create(p)
    <3>1. row' \in Rows /\ row'.id = lastId' /\ lastId' \in Nat \ {0}
      BY <2>2, <1>f, CreateType, OwnIdAssumption DEF Create
    <3>2. lastId + 1 \in Nat
      BY DEF RecordTypeOK
    <3>3. Enter(p, lastId + 1, TRUE)
      BY <2>2 DEF Create
    <3> QED
      BY <3>1, <3>2, <3>3, <1>c, <1>e
  <2>3. CASE CreateConflicts(p)
    BY <2>3, <1>b, <1>d DEF CreateConflicts, Steps, Acquiring
  <2>4. CASE GetExisting(p)
    <3>1. CASE End(p)
      BY <3>1, <2>4, <1>b, EndType DEF GetExisting
    <3>2. CASE ~End(p)
      <4>1. [op[p] EXCEPT !.pc = "reclaim", !.id = row.id, !.from = row.status]
              \in Operations
        BY <1>a, <1>f DEF Operations, Steps, Acquiring
      <4> QED
        BY <4>1, <3>2, <2>4, <1>b DEF GetExisting
    <3> QED
      BY <3>1, <3>2
  <2>5. CASE Reclaim(p)
    <3>1. op[p].id # 0
      BY <2>5 DEF Reclaim, IdInv
    <3>2. row' \in Rows /\ row'.id = lastId' /\ lastId' \in Nat \ {0}
      BY <2>5, <3>1, <1>f, ReclaimType DEF Reclaim
    <3>3. Enter(p, op[p].id, FALSE)
      BY <2>5 DEF Reclaim
    <3> QED
      BY <3>2, <3>3, <1>c, <1>e, <1>f
  <2>6. CASE ReclaimMisses(p)
    BY <2>6, <1>b, EndType DEF ReclaimMisses
  <2>7. CASE StoreFails(p)
    BY <2>7, <1>b, EndType DEF StoreFails
  <2>8. CASE Renew(p)
    <3> DEFINE at == clock + RenewEvery
    <3>1. row' \in Rows /\ row'.id = lastId' /\ lastId' \in Nat \ {0}
      BY <2>8, ExtendType DEF Renew
    <3>2. at \in Nat
      BY <1>a, LockTimesAssumption
    <3>3. op' = [op EXCEPT ![p].renewAt = at] /\ UNCHANGED clock
      BY <2>8 DEF Renew
    <3> HIDE DEF at
    <3>4. [op[p] EXCEPT !.renewAt = at] \in Operations
      BY <3>2, <1>f DEF Operations
    <3> QED
      BY <3>1, <3>3, <3>4, <1>c
  <2>9. CASE RenewFails(p)
    <3> DEFINE at == clock + RenewEvery
               n == op[p].failures + 1
    <3>1. at \in Nat /\ n \in 0..MaxFailures
      BY <2>9, <1>a, <1>f, LockTimesAssumption DEF RenewFails, Operations
    <3>2. op' = [op EXCEPT ![p].renewAt = at, ![p].failures = n]
      BY <2>9, <1>f DEF RenewFails
    <3> HIDE DEF at, n
    <3>3. [op[p] EXCEPT !.renewAt = at, !.failures = n] \in Operations
      BY <3>1, <1>f DEF Operations
    <3> QED
      BY <3>2, <3>3, <2>9, <1>b DEF RenewFails
  <2>10. CASE OwnershipLost(p)
    <3>1. [op[p] EXCEPT !.renewAt = 0] \in Operations
      BY <1>f DEF Operations
    <3> QED
      BY <3>1, <2>10, <1>b DEF OwnershipLost
  <2>11. CASE Finish(p)
    BY <2>11, <1>b, <1>d DEF Finish, Steps
  <2>12. CASE Release(p)
    <3>1. op[p].id \in Nat \ {0}
      BY <2>12, <1>f DEF Release, IdInv
    <3>2. clock + TTL \in Nat
      BY <1>a, TimesAssumption
    <3>3. /\ row' \in Rows /\ lastId' \in Nat
          /\ row' = NoRow \/ (row'.id = lastId' /\ lastId' # 0)
      <4>1. CASE UNCHANGED <<row, lastId>>
        BY <4>1 DEF RecordTypeOK
      <4>2. CASE ~UNCHANGED <<row, lastId>>
        BY <4>2, <2>12, <3>1, <3>2, <1>a, MarkType DEF Release
      <4> QED
        BY <4>1, <4>2
    <3> QED
      BY <3>3, <2>12, <1>c, <1>d DEF Release, Steps
  <2>13. CASE StopRenewing(p)
    BY <2>13, <1>b, EndType DEF StopRenewing
  <2>14. CASE Die(p)
    BY <2>14, <1>b, EndType DEF Die
  <2> QED
    BY <1>1, <2>1, <2>2, <2>3, <2>4, <2>5, <2>6, <2>7, <2>8, <2>9, <2>10,
       <2>11, <2>12, <2>13, <2>14 DEF Act
<1>2. CASE Cleanup
  <2>1. NoRow \in Rows
    BY DEF NoRow, Rows, Statuses
  <2> QED
    BY <2>1, <1>2 DEF Cleanup, DeleteExpired, RecordTypeOK
<1>3. CASE Wait
  BY <1>3, TimesAssumption DEF Wait, Tick, RecordTypeOK
<1>4. CASE UNCHANGED vars
  BY <1>4, <1>b DEF vars
<1> QED
  BY <1>1, <1>2, <1>3, <1>4, NextCases

(***************************************************************************)
(* The steps of an operation: it moves alone, keeps the time it read, and  *)
(* gets the lock by inserting or reclaiming the row.                       *)
(***************************************************************************)
Same(o) == op'[o].pc = op[o].pc /\ op'[o].now = op[o].now /\ op'[o].id = op[o].id

LEMMA OwnStep ==
  ASSUME TypeOK, NEW p \in Callers, Act(p)
  PROVE  /\ clock' = clock
         /\ \A o \in Callers \ {p} : op'[o] = op[o]
         /\ \/ op'[p].pc = "done" /\ op'[p].now = 0
            \/ Same(p)
            \/ StartAcquire(p)
            \/ Create(p)
            \/ Reclaim(p)
            \/ /\ op'[p].now = op[p].now
               /\ op[p].pc \in {"create", "get"}
               /\ op'[p].pc \in {"get", "reclaim"}
               /\ op'[p].pc = "reclaim" => op'[p].id = row.id /\ Exists
            \/ /\ op'[p].now = op[p].now /\ op'[p].id = op[p].id
               /\ \/ op[p].pc = "run" /\ op'[p].pc = "release"
                  \/ op[p].pc = "release" /\ op'[p].pc = "ending"
<1> USE DEF TypeOK, Operations, recordVars, Same
<1>0. ASSUME End(p) PROVE op'[p].pc = "done" /\ op'[p].now = 0
  BY <1>0 DEF End, Idle
<1>1. CASE StartAcquire(p)
  BY <1>1 DEF StartAcquire
<1>2. CASE Create(p)
  BY <1>2 DEF Create, Enter
<1>3. CASE CreateConflicts(p)
  BY <1>3 DEF CreateConflicts, GoTo
<1>4. CASE GetExisting(p)
  <2>1. CASE End(p)
    BY <2>1, <1>0, <1>4 DEF GetExisting, End
  <2>2. CASE ~End(p)
    BY <2>2, <1>4 DEF GetExisting
  <2> QED
    BY <2>1, <2>2
<1>5. CASE Reclaim(p)
  BY <1>5 DEF Reclaim, Enter
<1>6. CASE ReclaimMisses(p)
  BY <1>6, <1>0 DEF ReclaimMisses, End
<1>7. CASE StoreFails(p)
  BY <1>7, <1>0 DEF StoreFails, End
<1>8. CASE Renew(p)
  BY <1>8 DEF Renew
<1>9. CASE RenewFails(p)
  BY <1>9 DEF RenewFails
<1>10. CASE OwnershipLost(p)
  BY <1>10 DEF OwnershipLost
<1>11. CASE Finish(p)
  BY <1>11 DEF Finish, GoTo
<1>12. CASE Release(p)
  BY <1>12 DEF Release, GoTo
<1>13. CASE StopRenewing(p)
  BY <1>13, <1>0 DEF StopRenewing, End
<1>14. CASE Die(p)
  BY <1>14, <1>0 DEF Die, End
<1> QED
  BY <1>1, <1>2, <1>3, <1>4, <1>5, <1>6, <1>7, <1>8, <1>9, <1>10, <1>11,
     <1>12, <1>13, <1>14 DEF Act

LEMMA Entered ==
  ASSUME TypeOK, NEW p \in Callers, Create(p) \/ Reclaim(p)
  PROVE  /\ op[p].pc \in {"create", "reclaim"}
         /\ op'[p].pc = "run" /\ op'[p].now = op[p].now
         /\ row'.id = op'[p].id
         /\ row'.expiresAt = op[p].now + TTL
         /\ row'.lockedUntil = op[p].now + Lease
<1> USE DEF TypeOK, RecordTypeOK, Operations, Rows
<1>1. CASE Create(p)
  BY <1>1 DEF Create, CreateProcessing, Enter
<1>2. CASE Reclaim(p)
  <2>1. row.id = op[p].id
    BY <1>2 DEF Reclaim, TryReclaim, Reclaimable
  <2>2. /\ row'.id = row.id /\ row'.expiresAt = op[p].now + TTL
        /\ row'.lockedUntil = op[p].now + Lease
    BY <1>2 DEF Reclaim, TryReclaim
  <2> QED
    BY <2>1, <2>2, <1>2 DEF Reclaim, Enter
<1> QED
  BY <1>1, <1>2

LEMMA TimesStep == TypeOK /\ TimesInv /\ [Next]_vars => TimesInv'
<1> SUFFICES ASSUME TypeOK, TimesInv, [Next]_vars PROVE TimesInv'
  OBVIOUS
<1> USE DEF TimesInv, Running, Acquiring
<1>a. /\ clock \in Nat /\ AcquireTime \in Nat /\ RunTime \in Nat
      /\ AcquireTime <= RunTime
      /\ \A o \in Callers : op[o].now \in Nat
  BY LockTimesAssumption, LongTTLAssumption
     DEF TypeOK, RecordTypeOK, Operations
<1>1. ASSUME NEW p \in Callers, Act(p), NEW o \in Callers
      PROVE  /\ op'[o].now <= clock'
             /\ op'[o].pc \in Acquiring => clock' <= op'[o].now + AcquireTime
             /\ Running(o)' => clock' <= op'[o].now + RunTime
  <2>1. CASE o # p
    BY <1>1, <2>1, OwnStep
  <2>2. CASE StartAcquire(p) /\ o = p
    <3>1. op'[p].pc = "create" /\ op'[p].now = clock
      BY <2>2 DEF StartAcquire, TypeOK, Operations
    <3> QED
      BY <3>1, <2>2, <1>a, <1>1, OwnStep
  <2>3. CASE (Create(p) \/ Reclaim(p)) /\ o = p
    BY <2>3, <1>1, <1>a, OwnStep, Entered
  <2>4. CASE ~StartAcquire(p) /\ ~Create(p) /\ ~Reclaim(p) /\ o = p
    BY <2>4, <1>1, <1>a, OwnStep DEF Same
  <2> QED
    BY <2>1, <2>2, <2>3, <2>4
<1>2. CASE Cleanup
  BY <1>2 DEF Cleanup, DeleteExpired
<1>3. CASE Wait
  BY <1>3, <1>a DEF Wait, Tick, Timely
<1>4. CASE UNCHANGED vars
  BY <1>4 DEF vars, recordVars
<1> QED
  BY <1>1, <1>2, <1>3, <1>4, NextCases

LEMMA IdStep == TypeOK /\ IdInv /\ [Next]_vars => IdInv'
<1> SUFFICES ASSUME TypeOK, IdInv, [Next]_vars PROVE IdInv'
  OBVIOUS
<1> USE DEF IdInv
<1>1. ASSUME NEW p \in Callers, Act(p), NEW o \in Callers,
             op'[o].pc \in {"reclaim", "run", "release"}
      PROVE  op'[o].id # 0
  <2>1. CASE o # p
    BY <1>1, <2>1, OwnStep
  <2>2. CASE StartAcquire(p) /\ o = p
    BY <2>2, <1>1 DEF StartAcquire, TypeOK, Operations
  <2>3. CASE Create(p) /\ o = p
    BY <2>3 DEF Create, Enter, TypeOK, RecordTypeOK, Operations
  <2>4. CASE Reclaim(p) /\ o = p
    BY <2>4 DEF Reclaim, Enter, TypeOK, Operations
  <2>5. CASE ~StartAcquire(p) /\ ~Create(p) /\ ~Reclaim(p) /\ o = p
    BY <2>5, <1>1, OwnStep DEF Same, Exists
  <2> QED
    BY <2>1, <2>2, <2>3, <2>4, <2>5
<1>2. CASE Cleanup \/ Wait \/ UNCHANGED vars
  BY <1>2 DEF Cleanup, Wait, vars
<1> QED
  BY <1>1, <1>2, NextCases

\* Whatever an operation does to a row that stays, its new expiry lies a TTL
\* after a time that is at most AcquireTime old, and so does its lock by a
\* lease unless the row was marked.
LEMMA RowWrites ==
  ASSUME TypeOK, TimesInv, NEW p \in Callers, Act(p)
  PROVE  \/ row' = row
         \/ /\ row'.expiresAt + AcquireTime >= clock + TTL
            /\ row'.status = "processing" =>
                 row'.lockedUntil + AcquireTime >= clock + Lease
            /\ row'.id = row.id \/ (Create(p) /\ ~Exists)
<1> USE DEF TypeOK, RecordTypeOK, Rows, recordVars
<1>a. clock \in Nat /\ TTL \in Nat /\ Lease \in Nat /\ AcquireTime \in Nat
  BY TimesAssumption, LockTimesAssumption
<1>1. CASE Create(p)
  <2>1. op[p].now \in Nat /\ clock <= op[p].now + AcquireTime
    BY <1>1 DEF Create, TimesInv, Acquiring, Operations
  <2>2. /\ row'.expiresAt = op[p].now + TTL /\ ~Exists
        /\ row'.lockedUntil = op[p].now + Lease
    BY <1>1 DEF Create, CreateProcessing
  <2> QED
    BY <1>1, <1>a, <2>1, <2>2
<1>2. CASE Reclaim(p)
  <2>1. op[p].now \in Nat /\ clock <= op[p].now + AcquireTime
    BY <1>2 DEF Reclaim, TimesInv, Acquiring, Operations
  <2>2. /\ row'.expiresAt = op[p].now + TTL /\ row'.id = row.id
        /\ row'.lockedUntil = op[p].now + Lease
    BY <1>2 DEF Reclaim, TryReclaim
  <2> QED
    BY <1>a, <2>1, <2>2
<1>3. CASE Renew(p)
  <2>1. /\ row'.expiresAt = clock + TTL /\ row'.id = row.id
        /\ row'.lockedUntil = clock + Lease
    BY <1>3 DEF Renew, ExtendProcessingLock
  <2> QED
    BY <1>a, <2>1
<1>4. CASE Release(p)
  <2>1. \/ row' = row
        \/ /\ row'.expiresAt = clock + TTL /\ row'.id = row.id
           /\ row'.status # "processing"
    <3>1. CASE MarkSucceeded(op[p].id, p, clock + TTL)
      BY <3>1 DEF MarkSucceeded
    <3>2. CASE MarkFailedRetryable(op[p].id, clock, clock + TTL)
      BY <3>2 DEF MarkFailedRetryable
    <3> QED
      BY <3>1, <3>2, <1>4 DEF Release
  <2> QED
    BY <1>a, <2>1
<1>5. CASE ~Create(p) /\ ~Reclaim(p) /\ ~Renew(p) /\ ~Release(p)
  BY <1>5 DEF Act, StartAcquire, CreateConflicts, GetExisting, ReclaimMisses,
              StoreFails, RenewFails, OwnershipLost, Finish, StopRenewing, Die
<1> QED
  BY <1>1, <1>2, <1>3, <1>4, <1>5

\* The row of a running operation survives: only Cleanup removes it, and that
\* needs an expiry the operation's own times exclude.
LEMMA RowStep == IndInv /\ [Next]_vars => RowInv'
<1> SUFFICES ASSUME IndInv, [Next]_vars PROVE RowInv'
  OBVIOUS
<1> USE DEF IndInv, RowInv, Running
<1>a. /\ TTL \in Nat /\ AcquireTime \in Nat /\ RunTime \in Nat /\ Lease \in Nat
      /\ RunTime + AcquireTime < TTL
  BY TimesAssumption, LockTimesAssumption, LongTTLAssumption
<1>b. /\ clock \in Nat /\ row.expiresAt \in Nat /\ row.lockedUntil \in Nat
      /\ \A o \in Callers : op[o].now \in Nat
  BY DEF TypeOK, RecordTypeOK, Rows, Operations
<1>1. ASSUME NEW p \in Callers, Act(p), NEW o \in Callers, op'[o].pc = "run"
      PROVE  /\ row'.id = op'[o].id
             /\ row'.expiresAt + AcquireTime >= op'[o].now + TTL
             /\ row'.status = "processing" =>
                  row'.lockedUntil + AcquireTime >= op'[o].now + Lease
  <2>1. CASE (Create(p) \/ Reclaim(p)) /\ o = p
    BY <2>1, <1>a, <1>b, Entered
  <2>2. CASE ~((Create(p) \/ Reclaim(p)) /\ o = p)
    <3>1. op[o].pc = "run" /\ op'[o].id = op[o].id /\ op'[o].now = op[o].now
      <4>1. CASE o # p
        BY <4>1, <1>1, OwnStep
      <4>2. CASE o = p
        <5>1. ~StartAcquire(p)
          BY <4>2, <1>1 DEF StartAcquire, TypeOK, Operations
        <5> QED
          BY <5>1, <4>2, <2>2, <1>1, OwnStep DEF Same
      <4> QED
        BY <4>1, <4>2
    <3>2. op[o].now <= clock /\ row.id # 0
      BY <3>1 DEF TimesInv, IdInv
    <3>3. CASE row' = row
      BY <3>1, <3>3
    <3>4. CASE row' # row
      <4>1. /\ row'.id = row.id /\ row'.expiresAt + AcquireTime >= clock + TTL
            /\ row'.status = "processing" =>
                 row'.lockedUntil + AcquireTime >= clock + Lease
        BY <3>2, <3>4, <1>1, RowWrites DEF Exists
      <4>2. row'.expiresAt \in Nat /\ row'.lockedUntil \in Nat
        BY TypeStep DEF TypeOK, RecordTypeOK, Rows
      <4> QED
        BY <3>1, <3>2, <4>1, <4>2, <1>a, <1>b
    <3> QED
      BY <3>3, <3>4
  <2> QED
    BY <2>1, <2>2
<1>2. CASE Cleanup
  <2>1. \A o \in Callers : op[o].pc # "run"
    <3> SUFFICES ASSUME NEW o \in Callers, op[o].pc = "run" PROVE FALSE
      OBVIOUS
    <3>1. row.expiresAt <= clock
      BY <1>2 DEF Cleanup, DeleteExpired, Expired
    <3>2. clock <= op[o].now + RunTime
      BY DEF TimesInv
    <3>3. row.expiresAt + AcquireTime >= op[o].now + TTL
      OBVIOUS
    <3> QED
      BY <3>1, <3>2, <3>3, <1>a, <1>b
  <2> QED
    BY <2>1, <1>2 DEF Cleanup
<1>3. CASE Wait
  BY <1>3 DEF Wait, Tick
<1>4. CASE UNCHANGED vars
  BY <1>4 DEF vars, recordVars
<1> QED
  BY <1>1, <1>2, <1>3, <1>4, NextCases

THEOREM Invariance == Spec => []IndInv
<1>1. Init => IndInv
  <2> SUFFICES ASSUME Init PROVE IndInv
    OBVIOUS
  <2>1. \A o \in Callers : op[o].pc = "idle" /\ op[o].now = 0
    BY DEF Init, Idle
  <2>2. clock = 1
    BY DEF Init, RecordInit
  <2> QED
    BY <2>1, <2>2, TypeInit
       DEF IndInv, TimesInv, IdInv, RowInv, Acquiring, Running
<1>2. IndInv /\ [Next]_vars => IndInv'
  BY TypeStep, TimesStep, IdStep, RowStep DEF IndInv
<1> QED
  BY <1>1, <1>2, PTL DEF Spec

(* Every variable keeps its type: no statement writes a time that is not   *)
(* one, or a row that was deleted.                                         *)
THEOREM TypeCorrect == Spec => []TypeOK
<1>1. IndInv => TypeOK
  BY DEF IndInv
<1> QED
  BY <1>1, Invariance, PTL

(* The cleanup never deletes the row of a running operation.               *)
THEOREM RowSurvives == Spec => []RunningKeepsRow
<1>1. IndInv => RunningKeepsRow
  BY DEF IndInv, RowInv, RunningKeepsRow, Running
<1> QED
  BY <1>1, Invariance, PTL

(* An operation that enters beside a running one does so a lease after it, *)
(* up to the time of an Acquire, unless the row was marked meanwhile.       *)
THEOREM EntriesApart == Spec => EntriesAreLeaseApart
<1> DEFINE P == \A o, p \in Callers :
          Running(o) /\ ~Running(p) /\ Running(p)' /\ row.status = "processing"
              => op[o].now + Lease <= op[p].now + AcquireTime
<1>1. IndInv /\ [Next]_vars => P
  <2> SUFFICES ASSUME IndInv, [Next]_vars, NEW o \in Callers, NEW p \in Callers,
                      Running(o), ~Running(p), Running(p)', row.status = "processing"
               PROVE  op[o].now + Lease <= op[p].now + AcquireTime
    OBVIOUS
  <2>0. /\ op[o].now \in Nat /\ op[p].now \in Nat /\ row.lockedUntil \in Nat
        /\ Lease \in Nat /\ AcquireTime \in Nat
    BY TimesAssumption, LockTimesAssumption
       DEF IndInv, TypeOK, RecordTypeOK, Rows, Operations
  <2>1. Create(p) \/ Reclaim(p)
    <3>1. ASSUME NEW q \in Callers, Act(q) PROVE Create(p) \/ Reclaim(p)
      <4>1. p = q
        BY <3>1, OwnStep DEF IndInv, Running
      <4>2. ~StartAcquire(q)
        BY <4>1 DEF StartAcquire, Running, IndInv, TypeOK, Operations
      <4> QED
        BY <3>1, <4>1, <4>2, OwnStep DEF IndInv, Running, Same
    <3>2. ~(Cleanup \/ Wait \/ UNCHANGED vars)
      BY DEF Cleanup, Wait, vars, Running
    <3> QED
      BY <3>1, <3>2, NextCases
  <2>2. ~Create(p)
    BY DEF Create, CreateProcessing, Exists, IndInv, RowInv, IdInv, Running
  <2>3. ~Locked(row, op[p].now)
    BY <2>1, <2>2 DEF Reclaim, TryReclaim, Reclaimable
  <2>4. row.lockedUntil + AcquireTime >= op[o].now + Lease
    BY DEF IndInv, RowInv
  <2> QED
    BY <2>0, <2>3, <2>4 DEF Locked
<1> QED
  BY <1>1, Invariance, PTL DEF Spec, EntriesAreLeaseApart

-----------------------------------------------------------------------------
(* Exclusion of an operation that inserted the row.                         *)

\* How long so many renewals take.
Slack(n) == n * RenewEvery

\* The duration the lock relies on: the lease reaches over an acquisition and
\* the renewals that may fail.
RenewalsReach == AcquireTime + RenewEvery + Slack(MaxFailures) < Lease

\* The renewals of o that may still fail.
Spare(o) == MaxFailures - op[o].failures

\* The row of an operation that inserted it and runs is its own, nobody else
\* knows it, and it stays locked until the last renewal that may fail.
CreatorInv ==
    /\ \A o \in Callers : op[o].id <= lastId
    /\ \A o \in Callers : Running(o) /\ op[o].created =>
         /\ row.fingerprint = o /\ row.status = "processing"
         /\ op[o].renewAt # 0 /\ clock <= op[o].renewAt
         /\ row.lockedUntil > op[o].renewAt + Slack(Spare(o))
         /\ \A p \in Callers : p # o /\ op[p].pc \in {"run", "release"}
                                 => op[p].id # op[o].id

\* Fewer renewals take no longer.
LEMMA SlackGrows ==
  ASSUME NEW m \in Nat, NEW n \in Nat
  PROVE  /\ Slack(m) \in Nat
         /\ Slack(m + 1) = Slack(m) + RenewEvery
         /\ m <= n => Slack(m) <= Slack(n)
<1>0. RenewEvery \in Nat
  BY LockTimesAssumption
<1>1. Slack(m) \in Nat /\ Slack(m + 1) = Slack(m) + RenewEvery
  BY <1>0 DEF Slack
<1>2. ASSUME m <= n PROVE Slack(m) <= Slack(n)
  <2>1. PICK d \in Nat : n = m + d
    BY <1>2
  <2>2. n * RenewEvery = m * RenewEvery + d * RenewEvery
    BY <1>0, <2>1
  <2>3. d * RenewEvery \in Nat /\ m * RenewEvery \in Nat
    BY <1>0
  <2> QED
    BY <2>2, <2>3 DEF Slack
<1> QED
  BY <1>1, <1>2

\* What an operation that does not enter does to the row and to what it knows.
LEMMA Others ==
  ASSUME TypeOK, NEW p \in Callers, Act(p), ~Create(p), ~Reclaim(p)
  PROVE  /\ lastId' = lastId /\ clock' = clock
         /\ \A o \in Callers \ {p} : op'[o] = op[o]
         /\ op'[p].id \in {0, op[p].id, row.id}
         /\ op'[p].pc \in {"run", "release"} =>
              op[p].pc \in {"run", "release"} /\ op'[p].id = op[p].id
         /\ row' = row \/ Renew(p) \/ (Release(p) /\ row.id = op[p].id)
         /\ op'[p].pc = "run" =>
              \/ Renew(p) \/ RenewFails(p) \/ OwnershipLost(p)
              \/ op'[p] = op[p] /\ row' = row
<1> USE DEF TypeOK, Operations, recordVars
<1>0. ASSUME End(p)
      PROVE  /\ op'[p].pc = "done" /\ op'[p].id = 0
             /\ \A o \in Callers \ {p} : op'[o] = op[o]
  BY <1>0 DEF End, Idle
<1>1. CASE StartAcquire(p)
  BY <1>1 DEF StartAcquire
<1>2. CASE CreateConflicts(p)
  BY <1>2 DEF CreateConflicts, GoTo
<1>3. CASE GetExisting(p)
  <2>1. CASE End(p)
    BY <2>1, <1>0, <1>3 DEF GetExisting
  <2>2. CASE ~End(p)
    BY <2>2, <1>3 DEF GetExisting
  <2> QED
    BY <2>1, <2>2
<1>4. CASE ReclaimMisses(p) \/ StoreFails(p) \/ StopRenewing(p) \/ Die(p)
  BY <1>0, <1>4 DEF ReclaimMisses, StoreFails, StopRenewing, Die
<1>5. CASE Renew(p)
  BY <1>5 DEF Renew, ExtendProcessingLock
<1>6. CASE RenewFails(p)
  BY <1>6 DEF RenewFails
<1>7. CASE OwnershipLost(p)
  BY <1>7 DEF OwnershipLost
<1>8. CASE Finish(p)
  BY <1>8 DEF Finish, GoTo
<1>9. CASE Release(p)
  <2>1. row' = row \/ row.id = op[p].id
    BY <1>9 DEF Release, MarkSucceeded, MarkFailedRetryable
  <2>2. lastId' = lastId
    BY <1>9 DEF Release, MarkSucceeded, MarkFailedRetryable
  <2> QED
    BY <1>9, <2>1, <2>2 DEF Release, GoTo
<1> QED
  BY <1>1, <1>2, <1>3, <1>4, <1>5, <1>6, <1>7, <1>8, <1>9 DEF Act

\* The types that the times below need.
LEMMA LockTypes ==
  ASSUME TypeOK, NEW o \in Callers
  PROVE  /\ clock \in Nat /\ lastId \in Nat /\ row.id \in Nat /\ row.lockedUntil \in Nat
         /\ op[o].now \in Nat /\ op[o].renewAt \in Nat /\ op[o].id \in Nat
         /\ op[o].failures \in 0..MaxFailures /\ Spare(o) \in Nat
         /\ Slack(Spare(o)) \in Nat /\ Slack(Spare(o)) <= Slack(MaxFailures)
         /\ Slack(MaxFailures) \in Nat /\ MaxFailures \in Nat
         /\ RenewEvery \in Nat \ {0} /\ AcquireTime \in Nat /\ Lease \in Nat
<1>1. /\ clock \in Nat /\ lastId \in Nat /\ row.id \in Nat /\ row.lockedUntil \in Nat
      /\ op[o].now \in Nat /\ op[o].renewAt \in Nat /\ op[o].id \in Nat
      /\ op[o].failures \in 0..MaxFailures
  BY TimesAssumption DEF TypeOK, RecordTypeOK, Rows, Operations
<1>2. /\ MaxFailures \in Nat /\ RenewEvery \in Nat \ {0}
      /\ AcquireTime \in Nat /\ Lease \in Nat
  BY TimesAssumption, LockTimesAssumption
<1>3. Spare(o) \in Nat /\ Spare(o) <= MaxFailures
  BY <1>1, <1>2 DEF Spare
<1> QED
  BY <1>1, <1>2, <1>3, SlackGrows

\* Nobody reclaims the row of an operation that inserted it and runs.
LEMMA CreatorLocked ==
  ASSUME IndInv, CreatorInv, NEW o \in Callers, Running(o), op[o].created,
         NEW p \in Callers, op[p].pc = "reclaim"
  PROVE  ~Reclaim(p)
<1>1. row.lockedUntil > op[o].renewAt + Slack(Spare(o)) /\ clock <= op[o].renewAt
  BY DEF CreatorInv
<1>2. op[p].now <= clock
  BY DEF IndInv, TimesInv
<1>3. Locked(row, op[p].now)
  BY <1>1, <1>2, LockTypes DEF IndInv, Locked
<1> QED
  BY <1>3 DEF Reclaim, TryReclaim, Reclaimable

\* The part of CreatorInv about one operation.
Holds(o) ==
    /\ row.fingerprint = o /\ row.status = "processing"
    /\ op[o].renewAt # 0 /\ clock <= op[o].renewAt
    /\ row.lockedUntil > op[o].renewAt + Slack(Spare(o))
    /\ \A p \in Callers : p # o /\ op[p].pc \in {"run", "release"}
                            => op[p].id # op[o].id

\* An insertion locks the row for longer than the renewals need, under an id
\* that nobody knows.
LEMMA CreatorCreates ==
  ASSUME RenewalsReach, IndInv, CreatorInv, NEW p \in Callers, Create(p)
  PROVE  CreatorInv'
<1>1. /\ op'[p].id = lastId + 1 /\ op'[p].renewAt = clock + RenewEvery
      /\ op'[p].failures = op[p].failures /\ \A o \in Callers \ {p} : op'[o] = op[o]
      /\ lastId' = lastId + 1 /\ clock' = clock /\ ~Exists
      /\ row'.fingerprint = p /\ row'.status = "processing"
      /\ row'.lockedUntil = op[p].now + Lease
  BY DEF Create, CreateProcessing, Enter, IndInv, TypeOK, Operations
<1>2. clock <= op[p].now + AcquireTime
  BY DEF IndInv, TimesInv, Create, Acquiring
<1>3. Spare(p)' = Spare(p)
  BY <1>1 DEF Spare
<1>4. row'.lockedUntil > op'[p].renewAt + Slack(Spare(p)') /\ clock' <= op'[p].renewAt
      /\ op'[p].renewAt # 0
  <2>1. op[p].now + Lease > clock + RenewEvery + Slack(Spare(p))
    BY <1>2, LockTypes DEF IndInv, RenewalsReach
  <2> QED
    BY <1>1, <1>3, <2>1, LockTypes DEF IndInv
<1>5. \A o \in Callers : op[o].id <= lastId /\ lastId \in Nat /\ op[o].id \in Nat
  BY LockTypes DEF CreatorInv, IndInv
<1>6. \A o \in Callers \ {p} : op'[o].id # op'[p].id
  BY <1>1, <1>5
<1>7. \A o \in Callers : Running(o)' => o = p
  <2> SUFFICES ASSUME NEW o \in Callers, Running(o)', o # p PROVE FALSE
    OBVIOUS
  <2>1. Running(o)
    BY <1>1 DEF Running
  <2>2. row.id = op[o].id /\ op[o].id # 0
    BY <2>1 DEF IndInv, RowInv, IdInv, Running
  <2> QED
    BY <1>1, <2>2 DEF Exists
<1>8. \A o \in Callers : op'[o].id <= lastId'
  BY <1>1, <1>5
<1> QED
  BY <1>1, <1>4, <1>6, <1>7, <1>8 DEF CreatorInv

\* The other steps of operations leave the running operation its row.
LEMMA CreatorStays ==
  ASSUME RenewalsReach, IndInv, CreatorInv, NEW p \in Callers, Act(p), ~Create(p),
         ~Reclaim(p), NEW o \in Callers, Running(o)', op'[o].created
  PROVE  Holds(o)'
<1>1. /\ Running(o) /\ op[o].created /\ op'[o].id = op[o].id
      /\ \/ o # p /\ op'[o] = op[o]
         \/ o = p /\ (Renew(p) \/ RenewFails(p) \/ OwnershipLost(p))
         \/ o = p /\ op'[o] = op[o] /\ row' = row
  <2>1. CASE o # p
    BY <2>1, Others DEF IndInv, Running
  <2>2. CASE o = p /\ op'[o] = op[o] /\ row' = row
    BY <2>2 DEF Running
  <2>3. CASE o = p /\ (Renew(p) \/ RenewFails(p) \/ OwnershipLost(p))
    BY <2>3 DEF Renew, RenewFails, OwnershipLost, IndInv, TypeOK, Operations, Running
  <2> QED
    BY <2>1, <2>2, <2>3, Others DEF IndInv, Running
<1>2. Holds(o) /\ row.id = op[o].id
  BY <1>1 DEF CreatorInv, Holds, IndInv, RowInv
<1>3. \A q \in Callers : q # o /\ op'[q].pc \in {"run", "release"} => op'[q].id # op'[o].id
  <2> SUFFICES ASSUME NEW q \in Callers, q # o, op'[q].pc \in {"run", "release"}
               PROVE  op'[q].id # op'[o].id
    OBVIOUS
  <2>1. op[q].pc \in {"run", "release"} /\ op'[q].id = op[q].id
    BY Others DEF IndInv
  <2> QED
    BY <1>1, <1>2, <2>1 DEF Holds
<1>4. clock' = clock
  BY Others DEF IndInv
<1>5. row' = row \/ (o = p /\ Renew(p))
  <2>1. Renew(p) => o = p
    BY <1>2 DEF Renew, ExtendProcessingLock, Extendable, Holds
  <2>2. Release(p) /\ row.id = op[p].id => o = p
    BY <1>2 DEF Release, Holds
  <2>3. ~(o = p /\ Release(p))
    BY <1>1 DEF Release, Running
  <2> QED
    BY <2>1, <2>2, <2>3, Others DEF IndInv
<1>6. CASE row' = row /\ op'[o] = op[o]
  <2>1. Spare(o)' = Spare(o)
    BY <1>6 DEF Spare
  <2> QED
    BY <1>2, <1>3, <1>4, <1>6, <2>1 DEF Holds
<1>7. CASE o = p /\ Renew(p)
  <2>1. /\ op'[o].renewAt = clock + RenewEvery /\ op'[o].failures = op[o].failures
        /\ row'.lockedUntil = clock + Lease /\ row'.fingerprint = row.fingerprint
        /\ row'.status = row.status
    BY <1>7 DEF Renew, ExtendProcessingLock, IndInv, TypeOK, RecordTypeOK, Rows, Operations
  <2>2. Spare(o)' = Spare(o)
    BY <2>1 DEF Spare
  <2>3. clock + Lease > clock + RenewEvery + Slack(Spare(o))
    BY LockTypes DEF IndInv, RenewalsReach
  <2>4. clock + RenewEvery # 0 /\ clock <= clock + RenewEvery
    BY LockTypes DEF IndInv
  <2> QED
    BY <1>2, <1>3, <1>4, <2>1, <2>2, <2>3, <2>4 DEF Holds
<1>8. CASE o = p /\ RenewFails(p)
  <2> DEFINE f == op[o].failures
             r == op[o].renewAt
  <2>1. /\ op'[o].renewAt = clock + RenewEvery /\ op'[o].failures = f + 1
        /\ row' = row /\ f < MaxFailures /\ r <= clock
    BY <1>8 DEF RenewFails, Due, IndInv, TypeOK, Operations, recordVars
  <2>2. clock <= r /\ row.lockedUntil > r + Slack(Spare(o))
    BY <1>2 DEF Holds
  <2>3. Slack(Spare(o)) = Slack(Spare(o)') + RenewEvery /\ Slack(Spare(o)') \in Nat
    <3>1. Spare(o) = MaxFailures - f /\ Spare(o)' = MaxFailures - (f + 1)
      BY <2>1 DEF Spare
    <3>2. /\ MaxFailures - (f + 1) \in Nat
          /\ MaxFailures - f = (MaxFailures - (f + 1)) + 1
      BY <2>1, LockTypes DEF IndInv
    <3> QED
      BY <3>1, <3>2, SlackGrows
  <2> HIDE DEF r
  <2>4. /\ clock + RenewEvery # 0 /\ clock <= clock + RenewEvery
        /\ row.lockedUntil > (clock + RenewEvery) + Slack(Spare(o)')
    <3>1. clock \in Nat /\ RenewEvery \in Nat \ {0} /\ row.lockedUntil \in Nat /\ r \in Nat
      BY LockTypes DEF IndInv, r
    <3> QED
      BY <2>1, <2>2, <2>3, <3>1
  <2> QED
    BY <1>2, <1>3, <1>4, <2>1, <2>4 DEF Holds
<1>9. ~(o = p /\ OwnershipLost(p))
  BY <1>2 DEF OwnershipLost, Extendable, Holds
<1> QED
  BY <1>1, <1>5, <1>6, <1>7, <1>8, <1>9

\* CreatorInv is preserved.
LEMMA CreatorStep ==
  ASSUME RenewalsReach, IndInv, CreatorInv, [Next]_vars
  PROVE  CreatorInv'
<1>1. ASSUME NEW p \in Callers, Act(p) PROVE CreatorInv'
  <2>1. CASE Create(p)
    BY <2>1, CreatorCreates
  <2>2. CASE Reclaim(p)
    <3>1. \A o \in Callers : ~(Running(o) /\ op[o].created)
      BY <2>2, CreatorLocked DEF Reclaim
    <3>2. /\ ~op'[p].created /\ op'[p].id = op[p].id /\ lastId' = lastId
          /\ \A o \in Callers \ {p} : op'[o] = op[o]
      BY <2>2 DEF Reclaim, TryReclaim, Enter, IndInv, TypeOK, Operations
    <3>3. \A o \in Callers : ~(Running(o)' /\ op'[o].created)
      BY <3>1, <3>2 DEF Running
    <3>4. \A o \in Callers : op'[o].id <= lastId'
      BY <3>2 DEF CreatorInv
    <3> QED
      BY <3>3, <3>4 DEF CreatorInv
  <2>3. CASE ~Create(p) /\ ~Reclaim(p)
    <3>1. \A o \in Callers : Running(o)' /\ op'[o].created => Holds(o)'
      BY <1>1, <2>3, CreatorStays
    <3>2. ASSUME NEW o \in Callers PROVE op'[o].id <= lastId'
      <4>1. row.id <= lastId /\ 0 <= lastId
        BY DEF IndInv, TypeOK, RecordTypeOK, NoRow
      <4>2. lastId' = lastId /\ op'[o].id \in {0, op[o].id, row.id}
        BY <1>1, <2>3, Others DEF IndInv
      <4> QED
        BY <4>1, <4>2 DEF CreatorInv
    <3> QED
      BY <3>1, <3>2 DEF CreatorInv, Holds
  <2> QED
    BY <2>1, <2>2, <2>3
<1>2. CASE Cleanup
  <2>1. row' = NoRow /\ UNCHANGED <<clock, lastId, op>>
    BY <1>2 DEF Cleanup, DeleteExpired
  <2>2. \A o \in Callers : ~Running(o)
    <3> SUFFICES ASSUME NEW o \in Callers, Running(o) PROVE FALSE
      OBVIOUS
    <3>1. row'.id = op'[o].id
      BY <1>2, <2>1, RowStep DEF RowInv, Running, Next
    <3>2. op[o].id # 0
      BY DEF IndInv, IdInv, Running
    <3> QED
      BY <2>1, <3>1, <3>2 DEF NoRow
  <2> QED
    BY <2>1, <2>2 DEF CreatorInv, Running
<1>3. CASE Wait
  <2>1. clock' = clock + 1 /\ UNCHANGED <<row, lastId, op>> /\ \A o \in Callers : ~Due(o)
    BY <1>3 DEF Wait, Tick, Timely
  <2>2. \A o \in Callers : op[o].renewAt # 0 => clock' <= op[o].renewAt
    BY <2>1, LockTypes DEF Due, IndInv
  <2>3. \A o \in Callers : Spare(o)' = Spare(o)
    BY <2>1 DEF Spare
  <2> QED
    BY <2>1, <2>2, <2>3 DEF CreatorInv, Running
<1>4. CASE UNCHANGED vars
  BY <1>4 DEF vars, recordVars, CreatorInv, Running, Spare
<1> QED
  BY <1>1, <1>2, <1>3, <1>4, NextCases

(***************************************************************************)
(* CreatorIsExclusive: when the lease reaches over an acquisition and the  *)
(* renewals that may fail, an operation that inserted the row is alone     *)
(* until it is released.                                                   *)
(***************************************************************************)
THEOREM CreatorExcludes ==
  ASSUME RenewalsReach PROVE Spec => []CreatorIsExclusive
<1>1. Init => CreatorInv
  BY DEF Init, RecordInit, Idle, CreatorInv, Running
<1>2. IndInv /\ CreatorInv /\ [Next]_vars => CreatorInv'
  BY CreatorStep
<1>3. IndInv /\ CreatorInv => CreatorIsExclusive
  BY DEF IndInv, RowInv, CreatorInv, CreatorIsExclusive, Running
<1> QED
  BY <1>1, <1>2, <1>3, Invariance, PTL DEF Spec
=============================================================================
