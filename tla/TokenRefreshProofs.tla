------------------------- MODULE TokenRefreshProofs -------------------------
(***************************************************************************)
(* Machine-checked proofs about TokenRefresh, for every set of workers and *)
(* processes, any number of attempts, rotations and faults.                *)
(***************************************************************************)
EXTENDS TokenRefresh, TLAPS

-----------------------------------------------------------------------------
(* The inductive invariants.                                                *)

\* A call past the local lock of its process holds it.
MutexInv ==
    \A w \in Workers :
      worker[w].pc \in {"lock", "reread", "call", "recover", "persist", "release"}
        => mutex[worker[w].at] = w

\* Until a call goes on without a lock or outlives it, the key is there for the
\* call that set it, and only such a call refreshes.
LockInv ==
    ~impaired => \A w \in Workers : /\ worker[w].locked => lock = w
                                    /\ Refreshing(w) => worker[w].locked

\* All credentials that anybody knows have been issued.
NumberInv ==
    /\ issued > 0
    /\ account.gen < issued
    /\ \A g \in valid : g < issued
    /\ \A w \in Workers : worker[w].snap < issued /\ worker[w].got < issued
    /\ admin.snap < issued /\ admin.got < issued

\* What the administrator's program counter says of the task.
AdminInv ==
    /\ admin.pc \in {"get", "call"} => admin.task = "manual"
    /\ admin.pc = "login" => admin.task = "reauth"

\* The administrator's call holds credentials of its own.
AdminHolds == admin.pc \in {"read", "write"} /\ admin.task # "edit"

\* Credentials g are in nobody's hands but those of the caller that got them:
\* not in the database, not about to be sent, not about to be written by v.
Unsent(g) ==
    /\ account.gen # g
    /\ \A v \in Workers : At(v, "call") => worker[v].snap # g
    /\ admin.pc = "call" => admin.snap # g

\* Until something is lost, whoever holds credentials that are not yet in the
\* database holds good ones, and nobody else can spend them.
FreshInv ==
    /\ \A w \in Workers : At(w, "persist") =>
         /\ worker[w].got \in valid
         /\ Unsent(worker[w].got)
         /\ \A v \in Workers : At(v, "persist") /\ v # w => worker[v].got # worker[w].got
         /\ AdminHolds => admin.got # worker[w].got
    /\ AdminHolds => admin.got \in valid /\ Unsent(admin.got)

TokenInv == NumberInv /\ AdminInv /\ (~loss => FreshInv /\ TokenIsKept)

-----------------------------------------------------------------------------
(* Types.                                                                   *)

LEMMA IdleType == Idle \in WorkerState /\ Idle.pc = "idle" /\ Idle.locked = FALSE
<1>1. (CHOOSE i \in Instances : TRUE) \in Instances
  BY TokenRefreshAssumption
<1> DEFINE i == CHOOSE i \in Instances : TRUE
           s == Starting("background", i)
<1>2. s \in WorkerState /\ ~s.locked
  BY <1>1, TokenRefreshAssumption DEF Starting, WorkerState, WorkerPc
<1>3. Idle = [s EXCEPT !.pc = "idle"]
  BY DEF Idle
<1> HIDE DEF s
<1> QED BY <1>2, <1>3 DEF WorkerState, WorkerPc

LEMMA IdleNumbers == Idle.snap = 0 /\ Idle.got = 0
BY DEF Idle, Starting

LEMMA StartingType ==
    ASSUME NEW role \in {"request", "background"}, NEW i \in Instances
    PROVE  /\ Starting(role, i) \in WorkerState
           /\ Starting(role, i).pc = "mutex" /\ ~Starting(role, i).locked
           /\ Starting(role, i).snap = 0 /\ Starting(role, i).got = 0
BY TokenRefreshAssumption DEF Starting, WorkerState, WorkerPc

Then == {"done", "retry", "setError", "sync"}

LEMMA AfterType ==
    ASSUME NEW w \in Workers
    PROVE  AfterFailure(w) \in Then /\ AfterInvalidGrant(w) \in Then /\ Recover(w) \in Then
BY DEF AfterFailure, AfterInvalidGrant, Recover, Then

\* When an attempt is over the worker has no lock and knows nothing new.
LEMMA ContinueMoves ==
    ASSUME worker \in [Workers -> WorkerState], NEW w \in Workers, NEW then \in Then,
           Continue(w, then)
    PROVE  \E r \in WorkerState :
             /\ worker' = [worker EXCEPT ![w] = r]
             /\ r.pc \in {"idle", "mutex", "exhausted", "setError", "sync"}
             /\ ~r.locked
             /\ r.snap \in {0, worker[w].snap} /\ r.got \in {0, worker[w].got}
<1> DEFINE s == worker[w]
<1>0. s \in WorkerState
  OBVIOUS
<1>1. CASE then = "done"
  <2>1. worker' = [worker EXCEPT ![w] = Idle]
    BY <1>1 DEF Continue
  <2> QED BY <2>1, IdleType, IdleNumbers
<1>2. CASE then = "retry" /\ MayRetry(w)
  <2> DEFINE r == [s EXCEPT !.pc = "mutex", !.locked = FALSE, !.attempt = @ + 1]
  <2>1. worker' = [worker EXCEPT ![w] = r]
    BY <1>2 DEF Continue
  <2>2. s.attempt + 1 \in 1..MaxRetries
    BY <1>0, <1>2, TokenRefreshAssumption DEF MayRetry, WorkerState
  <2>3. r \in WorkerState
    BY <1>0, <2>2 DEF WorkerState, WorkerPc
  <2>4. r.pc = "mutex" /\ ~r.locked /\ r.snap = s.snap /\ r.got = s.got
    BY <1>0 DEF WorkerState
  <2> QED BY <2>1, <2>3, <2>4
<1>3. CASE then = "retry" /\ ~MayRetry(w)
  <2> DEFINE r == [s EXCEPT !.pc = "exhausted", !.locked = FALSE]
  <2>1. worker' = [worker EXCEPT ![w] = r]
    BY <1>3 DEF Continue
  <2>2. r \in WorkerState /\ r.pc = "exhausted" /\ ~r.locked /\ r.snap = s.snap /\ r.got = s.got
    BY <1>0 DEF WorkerState, WorkerPc
  <2> QED BY <2>1, <2>2
<1>4. CASE then \in {"setError", "sync"}
  <2> DEFINE r == [s EXCEPT !.pc = then, !.locked = FALSE]
  <2>1. worker' = [worker EXCEPT ![w] = r]
    BY <1>4 DEF Continue
  <2>2. r \in WorkerState /\ r.pc = then /\ ~r.locked /\ r.snap = s.snap /\ r.got = s.got
    BY <1>0, <1>4 DEF WorkerState, WorkerPc
  <2> QED BY <2>1, <2>2, <1>4
<1> QED BY <1>1, <1>2, <1>3, <1>4 DEF Then

LEMMA ReturnMoves ==
    ASSUME worker \in [Workers -> WorkerState], NEW w \in Workers, NEW then \in Then,
           Return(w, then)
    PROVE  \E r \in WorkerState :
             /\ worker' = [worker EXCEPT ![w] = r]
             /\ r.pc = "release" /\ r.at = worker[w].at /\ r.locked = worker[w].locked
             /\ r.snap \in {0, worker[w].snap} /\ r.got = 0
<1> DEFINE s == worker[w]
           r == [s EXCEPT !.pc = "release", !.then = then, !.got = 0,
                          !.snap = IF then = "done" THEN 0 ELSE @]
<1>1. s \in WorkerState
  OBVIOUS
<1>2. r \in WorkerState
  BY <1>1 DEF WorkerState, WorkerPc, Then
<1>3. worker' = [worker EXCEPT ![w] = r]
  BY DEF Return
<1>4. r.pc = "release" /\ r.at = s.at /\ r.locked = s.locked /\ r.got = 0 /\ r.snap \in {0, s.snap}
  BY <1>1 DEF WorkerState
<1> QED BY <1>2, <1>3, <1>4

LEMMA GotoMoves ==
    ASSUME worker \in [Workers -> WorkerState], NEW w \in Workers, NEW pc \in WorkerPc,
           Goto(w, pc)
    PROVE  \E r \in WorkerState :
             /\ worker' = [worker EXCEPT ![w] = r]
             /\ r.pc = pc /\ r.at = worker[w].at /\ r.locked = worker[w].locked
             /\ r.snap = worker[w].snap /\ r.got = worker[w].got
<1> DEFINE r == [worker[w] EXCEPT !.pc = pc]
<1>1. worker[w] \in WorkerState
  OBVIOUS
<1>2. worker' = [worker EXCEPT ![w] = r]
  BY DEF Goto
<1>3. /\ r \in WorkerState /\ r.pc = pc /\ r.at = worker[w].at
      /\ r.locked = worker[w].locked /\ r.snap = worker[w].snap /\ r.got = worker[w].got
  BY <1>1 DEF WorkerState
<1> QED BY <1>2, <1>3

\* What a step of w makes of its record, action by action.
Moves(w, r) == worker' = [worker EXCEPT ![w] = r]

Keeps(w, r) ==
    /\ r.at = worker[w].at /\ r.locked = worker[w].locked
    /\ r.snap = worker[w].snap /\ r.got = worker[w].got

Leaves(w, r) ==
    /\ r.pc \in {"idle", "mutex", "exhausted", "setError", "sync"} /\ ~r.locked
    /\ r.snap \in {0, worker[w].snap} /\ r.got \in {0, worker[w].got}

Returns(w, r) ==
    /\ r.pc = "release" /\ r.at = worker[w].at /\ r.locked = worker[w].locked
    /\ r.snap \in {0, worker[w].snap} /\ r.got = 0

LEMMA LockLocalMoves ==
    ASSUME TypeOK, NEW w \in Workers, LockLocal(w)
    PROVE  \E r \in WorkerState : Moves(w, r) /\ Keeps(w, r) /\ r.pc = "lock"
BY GotoMoves DEF TypeOK, LockLocal, WorkerPc, Moves, Keeps

LEMMA WaitTimesOutMoves ==
    ASSUME TypeOK, NEW w \in Workers, WaitTimesOut(w)
    PROVE  \E r \in WorkerState : Moves(w, r) /\ Leaves(w, r)
BY ContinueMoves, AfterType DEF TypeOK, WaitTimesOut, Moves, Leaves

LEMMA AcquireMoves ==
    ASSUME TypeOK, NEW w \in Workers, AcquireRefreshLock(w)
    PROVE  \E r \in WorkerState :
             /\ Moves(w, r) /\ r.pc = "reread" /\ r.locked /\ r.at = worker[w].at
             /\ r.snap = worker[w].snap /\ r.got = worker[w].got
<1> DEFINE r == [worker[w] EXCEPT !.pc = "reread", !.locked = TRUE]
<1>1. worker[w] \in WorkerState
  BY DEF TypeOK
<1>2. Moves(w, r)
  BY DEF AcquireRefreshLock, Moves
<1>3. /\ r \in WorkerState /\ r.pc = "reread" /\ r.locked /\ r.at = worker[w].at
      /\ r.snap = worker[w].snap /\ r.got = worker[w].got
  BY <1>1 DEF WorkerState, WorkerPc
<1> QED BY <1>2, <1>3

LEMMA LockHeldMoves ==
    ASSUME TypeOK, NEW w \in Workers, LockHeld(w)
    PROVE  \E r \in WorkerState : Moves(w, r) /\ Returns(w, r)
BY ReturnMoves DEF TypeOK, LockHeld, Then, Moves, Returns

LEMMA LockFailsMoves ==
    ASSUME TypeOK, NEW w \in Workers, LockFails(w)
    PROVE  \E r \in WorkerState : Moves(w, r) /\ Keeps(w, r) /\ r.pc = "reread"
BY GotoMoves DEF TypeOK, LockFails, WorkerPc, Moves, Keeps

LEMMA RereadMoves ==
    ASSUME TypeOK, NEW w \in Workers, Reread(w)
    PROVE  \E r \in WorkerState :
             /\ Moves(w, r)
             /\ \/ Returns(w, r)
                \/ /\ r.pc = "call" /\ r.at = worker[w].at /\ r.locked = worker[w].locked
                   /\ r.snap = account.gen /\ r.got = worker[w].got
<1> DEFINE r == [worker[w] EXCEPT !.pc = "call", !.snap = account.gen]
<1>1. worker[w] \in WorkerState /\ account.gen \in Nat
  BY DEF TypeOK
<1>2. /\ r \in WorkerState /\ r.pc = "call" /\ r.at = worker[w].at
      /\ r.locked = worker[w].locked /\ r.snap = account.gen /\ r.got = worker[w].got
  BY <1>1 DEF WorkerState, WorkerPc
<1>3. worker' = [worker EXCEPT ![w] = r] \/ \E then \in Then : Return(w, then)
  BY AfterType DEF Reread, Then
<1> QED BY <1>2, <1>3, ReturnMoves DEF TypeOK, Moves, Returns

LEMMA RefreshMoves ==
    ASSUME TypeOK, NEW w \in Workers, Refresh(w)
    PROVE  \E r \in WorkerState :
             /\ Moves(w, r)
             /\ \/ Returns(w, r) /\ ((Exchange(worker[w].snap) /\ loss') \/ UNCHANGED provider)
                \/ Keeps(w, r) /\ r.pc = "recover" /\ UNCHANGED provider
                \/ /\ Exchange(worker[w].snap) /\ UNCHANGED loss
                   /\ r.pc = "persist" /\ r.at = worker[w].at /\ r.locked = worker[w].locked
                   /\ r.snap = worker[w].snap /\ r.got = issued
<1> DEFINE r == [worker[w] EXCEPT !.pc = "persist", !.got = issued]
<1>1. worker[w] \in WorkerState /\ issued \in Nat
  BY DEF TypeOK
<1>2. /\ r \in WorkerState /\ r.pc = "persist" /\ r.at = worker[w].at
      /\ r.locked = worker[w].locked /\ r.snap = worker[w].snap /\ r.got = issued
  BY <1>1 DEF WorkerState, WorkerPc
<1>3. \/ worker' = [worker EXCEPT ![w] = r] /\ Exchange(worker[w].snap) /\ UNCHANGED loss
      \/ Return(w, AfterFailure(w)) /\ Exchange(worker[w].snap) /\ loss'
      \/ Return(w, AfterFailure(w)) /\ UNCHANGED provider
      \/ Goto(w, "recover") /\ UNCHANGED provider
  BY DEF Refresh, Calm, faultVars, Loses
<1>4. worker \in [Workers -> WorkerState] /\ "recover" \in WorkerPc
  BY DEF TypeOK, WorkerPc
<1>5. CASE worker' = [worker EXCEPT ![w] = r] /\ Exchange(worker[w].snap) /\ UNCHANGED loss
  BY <1>2, <1>5 DEF Moves
<1>6. CASE Return(w, AfterFailure(w)) /\ ((Exchange(worker[w].snap) /\ loss') \/ UNCHANGED provider)
  <2>1. PICK q \in WorkerState : Moves(w, q) /\ Returns(w, q)
    BY <1>4, <1>6, AfterType, ReturnMoves DEF Moves, Returns
  <2> QED BY <2>1, <1>6
<1>7. CASE Goto(w, "recover") /\ UNCHANGED provider
  <2>1. PICK q \in WorkerState : Moves(w, q) /\ Keeps(w, q) /\ q.pc = "recover"
    BY <1>4, <1>7, GotoMoves DEF Moves, Keeps
  <2> QED BY <2>1, <1>7
<1> QED BY <1>3, <1>5, <1>6, <1>7

LEMMA RecoverMoves ==
    ASSUME TypeOK, NEW w \in Workers, TryRecoverFromRefreshRace(w)
    PROVE  \E r \in WorkerState : Moves(w, r) /\ Returns(w, r)
BY ReturnMoves, AfterType DEF TypeOK, TryRecoverFromRefreshRace, Moves, Returns

LEMMA PersistMoves ==
    ASSUME TypeOK, NEW w \in Workers, Persist(w)
    PROVE  \E r \in WorkerState : Moves(w, r) /\ Returns(w, r)
<1>1. \E then \in Then : Return(w, then)
  BY AfterType DEF Persist, Then
<1> QED BY <1>1, ReturnMoves DEF TypeOK, Moves, Returns

LEMMA ReleaseMoves ==
    ASSUME TypeOK, NEW w \in Workers, ReleaseRefreshLock(w)
    PROVE  \E r \in WorkerState : Moves(w, r) /\ Leaves(w, r)
<1>1. worker[w].then \in Then
  BY DEF TypeOK, WorkerState, Then
<1> QED BY <1>1, ContinueMoves DEF TypeOK, ReleaseRefreshLock, Moves, Leaves

LEMMA AfterMoves ==
    ASSUME TypeOK, NEW w \in Workers, AfterRefresh(w)
    PROVE  \E r \in WorkerState : Moves(w, r) /\ Leaves(w, r)
BY IdleType, IdleNumbers
   DEF AfterRefresh, SetError, SetTempUnschedulable, PostRefreshActions, End, Moves, Leaves

LEMMA StartMoves ==
    ASSUME TypeOK, NEW w \in Workers, NEW i \in Instances, StartRequest(w, i) \/ StartRefresh(w, i)
    PROVE  \E r \in WorkerState :
             Moves(w, r) /\ r.pc = "mutex" /\ ~r.locked /\ r.snap \in {0, account.gen} /\ r.got = 0
<1>1. CASE StartRequest(w, i)
  BY <1>1, StartingType DEF StartRequest, Moves
<1>2. CASE StartRefresh(w, i)
  <2> DEFINE s == Starting("background", i)
             r == [s EXCEPT !.snap = account.gen]
  <2>1. s \in WorkerState /\ s.pc = "mutex" /\ ~s.locked /\ s.got = 0
    BY StartingType
  <2>2. Moves(w, r)
    BY <1>2 DEF StartRefresh, Moves
  <2> HIDE DEF s
  <2>3. r \in WorkerState /\ r.pc = "mutex" /\ ~r.locked /\ r.snap = account.gen /\ r.got = 0
    BY <2>1 DEF TypeOK, WorkerState
  <2> QED BY <2>2, <2>3
<1> QED BY <1>1, <1>2

LEMMA FaultMoves ==
    ASSUME faults \in 0..MaxFaults /\ impaired \in BOOLEAN /\ loss \in BOOLEAN,
           \/ Calm
           \/ \E k \in FaultKind : \/ Fails(k) \/ Impairs(k)
                                  \/ \E c \in BOOLEAN : Loses(k, c)
    PROVE  faults' \in 0..MaxFaults /\ impaired' \in BOOLEAN /\ loss' \in BOOLEAN
<1>1. CASE Calm
  BY <1>1 DEF Calm, faultVars
<1>2. ASSUME NEW k, Count(k) PROVE faults' \in 0..MaxFaults
  BY <1>2, TokenRefreshAssumption DEF Count
<1>3. ASSUME NEW k \in FaultKind, Fails(k)
      PROVE  faults' \in 0..MaxFaults /\ impaired' \in BOOLEAN /\ loss' \in BOOLEAN
  BY <1>2, <1>3 DEF Fails
<1>4. ASSUME NEW k \in FaultKind, Impairs(k)
      PROVE  faults' \in 0..MaxFaults /\ impaired' \in BOOLEAN /\ loss' \in BOOLEAN
  BY <1>2, <1>4 DEF Impairs
<1>5. ASSUME NEW k \in FaultKind, NEW c \in BOOLEAN, Loses(k, c)
      PROVE  faults' \in 0..MaxFaults /\ impaired' \in BOOLEAN /\ loss' \in BOOLEAN
  <2>1. faults' \in 0..MaxFaults
    BY <1>2, <1>5 DEF Loses
  <2>2. impaired' \in BOOLEAN
    BY <1>5 DEF Loses
  <2>3. loss' \in BOOLEAN
    BY <1>5 DEF Loses
  <2> QED BY <2>1, <2>2, <2>3
<1> QED BY <1>1, <1>3, <1>4, <1>5

LEMMA ExchangeType ==
    ASSUME valid \subseteq Nat /\ issued \in Nat /\ due \in 0..MaxDue,
           NEW g, Exchange(g) \/ UNCHANGED provider
    PROVE  valid' \subseteq Nat /\ issued' \in Nat /\ due' \in 0..MaxDue
<1>1. CASE Exchange(g)
  <2>1. valid' = (valid \ {g}) \cup {issued} /\ issued' = issued + 1 /\ due' = due
    BY <1>1 DEF Exchange
  <2>2. \A n \in valid' : n \in valid \/ n = issued
    BY <2>1
  <2>3. valid' \subseteq Nat
    BY <2>2
  <2>4. issued' \in Nat /\ due' \in 0..MaxDue
    BY <2>1
  <2> QED BY <2>3, <2>4
<1>2. CASE UNCHANGED provider
  BY <1>2 DEF provider
<1> QED BY <1>1, <1>2

\* Every step of a worker leaves the other workers alone.
LEMMA WorkerMoves ==
    ASSUME TypeOK, NEW w \in Workers, RefreshIfNeeded(w) \/ AfterRefresh(w)
    PROVE  \E r \in WorkerState : Moves(w, r)
BY LockLocalMoves, WaitTimesOutMoves, AcquireMoves, LockHeldMoves, LockFailsMoves,
   RereadMoves, RefreshMoves, RecoverMoves, PersistMoves, ReleaseMoves, AfterMoves
   DEF RefreshIfNeeded

\* Every variable keeps its type.
THEOREM TypeCorrect == Spec => []TypeOK
<1>1. Init => TypeOK
  <2> SUFFICES ASSUME Init PROVE TypeOK
    OBVIOUS
  <2>1. worker \in [Workers -> WorkerState]
    BY IdleType DEF Init
  <2>2. admin \in AdminState
    BY DEF Init, AdminState, AdminPc, Task
  <2>3. mutex \in [Instances -> Workers \cup {Nobody}] /\ lock \in Workers \cup {Nobody}
    BY DEF Init
  <2>4. valid \subseteq Nat /\ issued \in Nat /\ due \in 0..MaxDue /\ faults \in 0..MaxFaults
    BY TokenRefreshAssumption DEF Init
  <2>5. account \in [gen : Nat, status : {"active", "error"}, cooldown : BOOLEAN]
    BY DEF Init
  <2>6. platform \in Platforms /\ impaired \in BOOLEAN /\ loss \in BOOLEAN
    BY DEF Init
  <2> QED BY <2>1, <2>2, <2>3, <2>4, <2>5, <2>6 DEF TypeOK
<1>2. TypeOK /\ [Next]_vars => TypeOK'
  <2> SUFFICES ASSUME TypeOK, [Next]_vars PROVE TypeOK'
    OBVIOUS
  <2> USE DEF TypeOK
  <2>1. ASSUME NEW w \in Workers, NEW i \in Instances, StartRequest(w, i) \/ StartRefresh(w, i)
        PROVE  TypeOK'
    <3>1. worker' \in [Workers -> WorkerState]
      BY <2>1, StartMoves DEF Moves
    <3> QED BY <2>1, <3>1 DEF StartRequest, StartRefresh, provider, locks, faultVars
  <2>2. ASSUME NEW w \in Workers, RefreshIfNeeded(w) PROVE TypeOK'
    <3>0. worker' \in [Workers -> WorkerState]
      BY <2>2, WorkerMoves DEF Moves
    <3>1. CASE LockLocal(w) \/ WaitTimesOut(w) \/ AcquireRefreshLock(w) \/ LockHeld(w)
      BY <3>0, <3>1 DEF LockLocal, WaitTimesOut, AcquireRefreshLock, LockHeld, provider, locks, faultVars
    <3>2. CASE LockFails(w)
      <4>1. faults' \in 0..MaxFaults /\ impaired' \in BOOLEAN /\ loss' \in BOOLEAN
        BY <3>2, FaultMoves DEF LockFails, FaultKind
      <4> QED BY <3>0, <3>2, <4>1 DEF LockFails, provider
    <3>3. CASE Reread(w) \/ TryRecoverFromRefreshRace(w)
      <4>1. faults' \in 0..MaxFaults /\ impaired' \in BOOLEAN /\ loss' \in BOOLEAN
        BY <3>3, FaultMoves DEF Reread, TryRecoverFromRefreshRace, FaultKind
      <4> QED BY <3>0, <3>3, <4>1 DEF Reread, TryRecoverFromRefreshRace, provider, locks
    <3>4. CASE Refresh(w)
      <4>1. faults' \in 0..MaxFaults /\ impaired' \in BOOLEAN /\ loss' \in BOOLEAN
        BY <3>4, FaultMoves DEF Refresh, FaultKind
      <4>2. valid' \subseteq Nat /\ issued' \in Nat /\ due' \in 0..MaxDue
        BY <3>4, ExchangeType DEF Refresh
      <4> QED BY <3>0, <3>4, <4>1, <4>2 DEF Refresh, locks
    <3>5. CASE Persist(w)
      <4>1. faults' \in 0..MaxFaults /\ impaired' \in BOOLEAN /\ loss' \in BOOLEAN
        BY <3>5, FaultMoves DEF Persist, FaultKind
      <4>2. worker[w].got \in Nat
        BY DEF WorkerState
      <4>3. account' \in [gen : Nat, status : {"active", "error"}, cooldown : BOOLEAN]
        BY <3>5, <4>2 DEF Persist, MergeCredentials
      <4> QED BY <3>0, <3>5, <4>1, <4>3 DEF Persist, provider, locks
    <3>6. CASE ReleaseRefreshLock(w)
      <4>1. faults' \in 0..MaxFaults /\ impaired' \in BOOLEAN /\ loss' \in BOOLEAN
        BY <3>6, FaultMoves DEF ReleaseRefreshLock, FaultKind
      <4> QED BY <3>0, <3>6, <4>1 DEF ReleaseRefreshLock, provider
    <3> QED BY <2>2, <3>1, <3>2, <3>3, <3>4, <3>5, <3>6 DEF RefreshIfNeeded
  <2>3. ASSUME NEW w \in Workers, AfterRefresh(w) PROVE TypeOK'
    <3>0. worker' \in [Workers -> WorkerState]
      BY <2>3, WorkerMoves DEF Moves
    <3>1. account' \in [gen : Nat, status : {"active", "error"}, cooldown : BOOLEAN]
      BY <2>3 DEF AfterRefresh, SetError, SetTempUnschedulable, PostRefreshActions
    <3>2. faults' \in 0..MaxFaults /\ impaired' \in BOOLEAN /\ loss' \in BOOLEAN
      <4>1. CASE SetError(w) \/ SetTempUnschedulable(w)
        BY <4>1, FaultMoves DEF SetError, SetTempUnschedulable, FaultKind
      <4>2. CASE PostRefreshActions(w)
        BY <4>2 DEF PostRefreshActions, faultVars
      <4> QED BY <2>3, <4>1, <4>2 DEF AfterRefresh
    <3> QED BY <2>3, <3>0, <3>1, <3>2
            DEF AfterRefresh, SetError, SetTempUnschedulable, PostRefreshActions, provider, locks
  <2>4. ASSUME NEW t \in Tasks, StartAdmin(t) PROVE TypeOK'
    <3>1. t \in Task /\ FirstStep[t] \in AdminPc
      BY TokenRefreshAssumption DEF Task, FirstStep, AdminPc
    <3>2. admin' \in AdminState
      BY <2>4, <3>1 DEF StartAdmin, AdminState
    <3> QED BY <2>4, <3>2 DEF StartAdmin, provider, locks, faultVars
  <2>5. CASE AdminStep \/ AdminDies
    <3>1. ASSUME NEW pc \in AdminPc, AdminGoto(pc) \/ AdminEnds(pc) PROVE admin' \in AdminState
      <4>1. CASE AdminGoto(pc)
        BY <4>1 DEF AdminGoto, AdminState
      <4>2. CASE AdminEnds(pc)
        BY <4>2 DEF AdminEnds, AdminState
      <4> QED BY <3>1, <4>1, <4>2
    <3>2. "failed" \in AdminPc /\ "done" \in AdminPc /\ "clear" \in AdminPc
      BY DEF AdminPc
    <3>3. CASE Login
      <4>1. valid' = valid \cup {issued} /\ issued' = issued + 1 /\ due' = due
        BY <3>3 DEF Login
      <4>2. [admin EXCEPT !.pc = "read", !.got = issued] \in AdminState
        BY DEF AdminState, AdminPc
      <4> QED BY <3>3, <4>1, <4>2 DEF Login, locks, faultVars
    <3>4. CASE ReadForManualRefresh \/ UpdateAccountRead
      BY <3>4 DEF ReadForManualRefresh, UpdateAccountRead, AdminState, AdminPc, provider, locks, faultVars
    <3>5. CASE RefreshManually
      <4>1. faults' \in 0..MaxFaults /\ impaired' \in BOOLEAN /\ loss' \in BOOLEAN
        BY <3>5, FaultMoves DEF RefreshManually, FaultKind
      <4>2. valid' \subseteq Nat /\ issued' \in Nat /\ due' \in 0..MaxDue
        BY <3>5, ExchangeType DEF RefreshManually
      <4>3. [admin EXCEPT !.pc = "read", !.got = issued] \in AdminState
        BY DEF AdminState, AdminPc
      <4>4. admin' \in AdminState
        BY <3>5, <3>1, <3>2, <4>3 DEF RefreshManually
      <4> QED BY <3>5, <4>1, <4>2, <4>4 DEF RefreshManually, locks
    <3>6. CASE UpdateAccountWrite
      <4>1. account' \in [gen : Nat, status : {"active", "error"}, cooldown : BOOLEAN]
        BY <3>6 DEF UpdateAccountWrite, AdminState
      <4>2. admin' \in AdminState
        BY <3>6, <3>1, <3>2 DEF UpdateAccountWrite
      <4>3. loss' \in BOOLEAN /\ UNCHANGED <<faults, impaired>>
        BY <3>6 DEF UpdateAccountWrite
      <4> QED BY <3>6, <4>1, <4>2, <4>3 DEF UpdateAccountWrite, provider, locks
    <3>7. CASE ClearAccountError
      BY <3>7, <3>1, <3>2 DEF ClearAccountError, provider, locks, faultVars
    <3>8. CASE AdminDies
      <4>1. faults' \in 0..MaxFaults /\ impaired' \in BOOLEAN /\ loss' \in BOOLEAN
        BY <3>8, FaultMoves DEF AdminDies, FaultKind
      <4> QED BY <3>8, <3>1, <3>2, <4>1 DEF AdminDies, provider, locks
    <3> QED BY <2>5, <3>3, <3>4, <3>5, <3>6, <3>7, <3>8 DEF AdminStep
  <2>6. CASE TimePasses \/ CooldownEnds
    <3>1. due' \in 0..MaxDue
      BY <2>6, TokenRefreshAssumption DEF TimePasses, CooldownEnds, provider
    <3>2. account' \in [gen : Nat, status : {"active", "error"}, cooldown : BOOLEAN]
      BY <2>6 DEF TimePasses, CooldownEnds
    <3> QED BY <2>6, <3>1, <3>2 DEF TimePasses, CooldownEnds, provider, locks, faultVars
  <2>7. CASE LockExpires
    <3>1. faults' \in 0..MaxFaults /\ impaired' \in BOOLEAN /\ loss' \in BOOLEAN
      BY <2>7, FaultMoves DEF LockExpires, LapsesIf, FaultKind
    <3> QED BY <2>7, <3>1 DEF LockExpires, provider
  <2>8. ASSUME NEW i \in Instances, InstanceDies(i) PROVE TypeOK'
    <3>1. faults' \in 0..MaxFaults /\ impaired' \in BOOLEAN /\ loss' \in BOOLEAN
      BY <2>8, FaultMoves DEF InstanceDies, FaultKind
    <3>2. worker' \in [Workers -> WorkerState]
      BY <2>8, IdleType DEF InstanceDies
    <3> QED BY <2>8, <3>1, <3>2 DEF InstanceDies, provider
  <2>9. CASE ProviderRevokes
    <3>1. faults' \in 0..MaxFaults /\ impaired' \in BOOLEAN /\ loss' \in BOOLEAN
      BY <2>9, FaultMoves DEF ProviderRevokes, FaultKind
    <3> QED BY <2>9, <3>1 DEF ProviderRevokes, locks
  <2>10. CASE UNCHANGED vars
    BY <2>10 DEF vars, provider, locks, faultVars
  <2> QED BY <2>1, <2>2, <2>3, <2>4, <2>5, <2>6, <2>7, <2>8, <2>9, <2>10 DEF Next
<1> QED BY <1>1, <1>2, PTL DEF Spec

-----------------------------------------------------------------------------
(* One refresh at a time.                                                   *)

ExclusionInv == TypeOK /\ MutexInv /\ LockInv

PastMutex == {"lock", "reread", "call", "recover", "persist", "release"}

\* A step of w that goes on in its process with the lock it had keeps both
\* invariants, and so does one that leaves RefreshIfNeeded.
LEMMA StaysExclusive ==
    ASSUME ExclusionInv, NEW w \in Workers, NEW r \in WorkerState, Moves(w, r),
           r.pc \in PastMutex, worker[w].pc \in PastMutex, r.at = worker[w].at,
           UNCHANGED mutex
    PROVE  MutexInv'
BY DEF ExclusionInv, TypeOK, MutexInv, Moves, PastMutex

LEMMA StaysLocked ==
    ASSUME ExclusionInv, NEW w \in Workers, NEW r \in WorkerState, Moves(w, r),
           r.locked = worker[w].locked,
           r.pc \in {"reread", "call", "recover", "persist"} => Refreshing(w),
           UNCHANGED lock, impaired => impaired'
    PROVE  LockInv'
BY DEF ExclusionInv, TypeOK, LockInv, Moves, Refreshing

LEMMA LeavesUnlocked ==
    ASSUME ExclusionInv, NEW w \in Workers, NEW r \in WorkerState, Moves(w, r), ~r.locked,
           r.pc \notin PastMutex,
           lock' = lock \/ (worker[w].locked /\ lock' = Nobody), impaired => impaired'
    PROVE  LockInv'
<1> SUFFICES ASSUME ~impaired', NEW v \in Workers
             PROVE  /\ worker'[v].locked => lock' = v
                    /\ Refreshing(v)' => worker'[v].locked
  BY DEF LockInv
<1>1. CASE v = w
  BY <1>1 DEF ExclusionInv, TypeOK, Moves, Refreshing, PastMutex
<1>2. CASE v # w
  <2>1. worker'[v] = worker[v]
    BY <1>2 DEF ExclusionInv, TypeOK, Moves
  <2>2. worker[v].locked => lock = v
    BY DEF ExclusionInv, LockInv
  <2>3. worker[w].locked => lock = w
    BY DEF ExclusionInv, LockInv
  <2> QED BY <1>2, <2>1, <2>2, <2>3 DEF ExclusionInv, LockInv, Refreshing
<1> QED BY <1>1, <1>2

LEMMA LeavesFree ==
    ASSUME ExclusionInv, NEW w \in Workers, NEW r \in WorkerState, Moves(w, r),
           r.pc \notin PastMutex,
           \/ UNCHANGED mutex
           \/ /\ worker[w].pc \in PastMutex
              /\ mutex' = [mutex EXCEPT ![worker[w].at] = Nobody]
    PROVE  MutexInv'
<1> SUFFICES ASSUME NEW v \in Workers, worker'[v].pc \in PastMutex
             PROVE  mutex'[worker'[v].at] = v
  BY DEF MutexInv, PastMutex
<1>1. v # w /\ worker'[v] = worker[v]
  BY DEF ExclusionInv, TypeOK, Moves
<1>2. mutex[worker[v].at] = v
  BY <1>1 DEF ExclusionInv, MutexInv, PastMutex
<1>3. worker[w].pc \in PastMutex => mutex[worker[w].at] = w
  BY DEF ExclusionInv, MutexInv, PastMutex
<1>4. worker[v].at \in Instances /\ worker[w].at \in Instances
  BY DEF ExclusionInv, TypeOK, WorkerState
<1> QED BY <1>1, <1>2, <1>3, <1>4 DEF ExclusionInv, TypeOK

LEMMA ExclusionStep == ExclusionInv /\ [Next]_vars => (MutexInv /\ LockInv)'
<1> SUFFICES ASSUME ExclusionInv, [Next]_vars PROVE (MutexInv /\ LockInv)'
  OBVIOUS
<1>0. TypeOK
  BY DEF ExclusionInv
<1>1. ASSUME NEW w \in Workers, NEW i \in Instances, StartRequest(w, i) \/ StartRefresh(w, i)
      PROVE  (MutexInv /\ LockInv)'
  <2>1. PICK r \in WorkerState : Moves(w, r) /\ r.pc = "mutex" /\ ~r.locked
    BY <1>0, <1>1, StartMoves
  <2>2. UNCHANGED <<mutex, lock, impaired>>
    BY <1>1 DEF StartRequest, StartRefresh, locks, faultVars
  <2> QED BY <2>1, <2>2, LeavesFree, LeavesUnlocked DEF PastMutex
<1>2. ASSUME NEW w \in Workers, LockLocal(w) PROVE (MutexInv /\ LockInv)'
  <2>1. PICK r \in WorkerState : Moves(w, r) /\ Keeps(w, r) /\ r.pc = "lock"
    BY <1>0, <1>2, LockLocalMoves
  <2>2. UNCHANGED <<lock, impaired>>
    BY <1>2 DEF LockLocal, faultVars
  <2>3. LockInv'
    BY <2>1, <2>2, StaysLocked DEF Keeps
  <2>4. ASSUME NEW v \in Workers, worker'[v].pc \in PastMutex
        PROVE  mutex'[worker'[v].at] = v
    <3>1. /\ mutex[worker[w].at] = Nobody
          /\ mutex' = [mutex EXCEPT ![worker[w].at] = w]
      BY <1>2 DEF LockLocal
    <3>2. worker[w].at \in Instances /\ worker[v].at \in Instances
      BY <1>0 DEF TypeOK, WorkerState
    <3>3. CASE v = w
      BY <2>1, <3>1, <3>2, <3>3, <1>0 DEF TypeOK, Moves, Keeps
    <3>4. CASE v # w
      <4>1. worker'[v] = worker[v]
        BY <2>1, <3>4, <1>0 DEF TypeOK, Moves
      <4>2. mutex[worker[v].at] = v
        BY <2>4, <4>1 DEF ExclusionInv, MutexInv, PastMutex
      <4>3. v # Nobody
        BY TokenRefreshAssumption
      <4> QED BY <3>1, <3>2, <4>1, <4>2, <4>3, <1>0 DEF TypeOK
    <3> QED BY <3>3, <3>4
  <2> QED BY <2>3, <2>4 DEF MutexInv, PastMutex
<1>3. ASSUME NEW w \in Workers, WaitTimesOut(w) PROVE (MutexInv /\ LockInv)'
  <2>1. PICK r \in WorkerState : Moves(w, r) /\ Leaves(w, r)
    BY <1>0, <1>3, WaitTimesOutMoves
  <2>2. UNCHANGED <<mutex, lock, impaired>>
    BY <1>3 DEF WaitTimesOut, locks, faultVars
  <2>3. ~r.locked /\ r.pc \notin PastMutex
    BY <2>1 DEF Leaves, PastMutex
  <2> QED BY <2>1, <2>2, <2>3, LeavesFree, LeavesUnlocked
<1>4. ASSUME NEW w \in Workers, AcquireRefreshLock(w) PROVE (MutexInv /\ LockInv)'
  <2>1. PICK r \in WorkerState : /\ Moves(w, r) /\ r.pc = "reread" /\ r.locked
                                 /\ r.at = worker[w].at
    BY <1>0, <1>4, AcquireMoves
  <2>2. /\ worker[w].pc = "lock" /\ lock = Nobody /\ lock' = w
        /\ UNCHANGED <<mutex, impaired>>
    BY <1>4 DEF AcquireRefreshLock, At, faultVars
  <2>3. MutexInv'
    BY <2>1, <2>2, StaysExclusive DEF PastMutex
  <2>4. ASSUME ~impaired', NEW v \in Workers
        PROVE  /\ worker'[v].locked => lock' = v
               /\ Refreshing(v)' => worker'[v].locked
    <3>1. CASE v = w
      BY <2>1, <2>2, <3>1, <1>0 DEF TypeOK, Moves
    <3>2. CASE v # w
      <4>1. worker'[v] = worker[v]
        BY <2>1, <3>2, <1>0 DEF TypeOK, Moves
      <4>2. ~worker[v].locked
        BY <2>2, <2>4, TokenRefreshAssumption DEF ExclusionInv, LockInv
      <4>3. ~Refreshing(v)
        BY <2>2, <2>4, <4>2 DEF ExclusionInv, LockInv
      <4> QED BY <4>1, <4>2, <4>3 DEF Refreshing
    <3> QED BY <3>1, <3>2
  <2> QED BY <2>3, <2>4 DEF LockInv
<1>5. ASSUME NEW w \in Workers, LockHeld(w) PROVE (MutexInv /\ LockInv)'
  <2>1. PICK r \in WorkerState : Moves(w, r) /\ Returns(w, r)
    BY <1>0, <1>5, LockHeldMoves
  <2>2. worker[w].pc = "lock" /\ UNCHANGED <<mutex, lock, impaired>>
    BY <1>5 DEF LockHeld, At, locks, faultVars
  <2> QED BY <2>1, <2>2, StaysExclusive, StaysLocked DEF Returns, PastMutex
<1>6. ASSUME NEW w \in Workers, LockFails(w) PROVE (MutexInv /\ LockInv)'
  <2>1. PICK r \in WorkerState : Moves(w, r) /\ Keeps(w, r) /\ r.pc = "reread"
    BY <1>0, <1>6, LockFailsMoves
  <2>2. worker[w].pc = "lock" /\ impaired' /\ UNCHANGED mutex
    BY <1>6 DEF LockFails, Impairs, At
  <2>3. MutexInv'
    BY <2>1, <2>2, StaysExclusive DEF Keeps, PastMutex
  <2> QED BY <2>2, <2>3 DEF LockInv
<1>7. ASSUME NEW w \in Workers, Reread(w) PROVE (MutexInv /\ LockInv)'
  <2>1. PICK r \in WorkerState : /\ Moves(w, r) /\ r.at = worker[w].at
                                 /\ r.locked = worker[w].locked /\ r.pc \in {"call", "release"}
    BY <1>0, <1>7, RereadMoves DEF Returns
  <2>2. worker[w].pc = "reread" /\ UNCHANGED <<mutex, lock, impaired>>
    BY <1>7 DEF Reread, At, locks, Calm, Fails, faultVars
  <2> QED BY <2>1, <2>2, StaysExclusive, StaysLocked DEF PastMutex, Refreshing
<1>8. ASSUME NEW w \in Workers, Refresh(w) PROVE (MutexInv /\ LockInv)'
  <2>1. PICK r \in WorkerState :
          /\ Moves(w, r) /\ r.at = worker[w].at
          /\ r.locked = worker[w].locked /\ r.pc \in {"persist", "recover", "release"}
    BY <1>0, <1>8, RefreshMoves DEF Returns, Keeps
  <2>2. worker[w].pc = "call" /\ UNCHANGED <<mutex, lock, impaired>>
    BY <1>8 DEF Refresh, At, locks, Calm, Fails, Loses, faultVars
  <2> QED BY <2>1, <2>2, StaysExclusive, StaysLocked DEF PastMutex, Refreshing
<1>9. ASSUME NEW w \in Workers, TryRecoverFromRefreshRace(w) \/ Persist(w)
      PROVE  (MutexInv /\ LockInv)'
  <2>1. PICK r \in WorkerState : Moves(w, r) /\ Returns(w, r)
    BY <1>0, <1>9, RecoverMoves, PersistMoves
  <2>2. worker[w].pc \in {"recover", "persist"} /\ UNCHANGED <<mutex, lock, impaired>>
    BY <1>9 DEF TryRecoverFromRefreshRace, Persist, At, locks, Calm, Fails, Loses, faultVars
  <2> QED BY <2>1, <2>2, StaysExclusive, StaysLocked DEF Returns, PastMutex, Refreshing
<1>10. ASSUME NEW w \in Workers, ReleaseRefreshLock(w) PROVE (MutexInv /\ LockInv)'
  <2>1. PICK r \in WorkerState : Moves(w, r) /\ Leaves(w, r)
    BY <1>0, <1>10, ReleaseMoves
  <2>2. /\ worker[w].pc = "release"
        /\ mutex' = [mutex EXCEPT ![worker[w].at] = Nobody]
        /\ lock' = lock \/ (worker[w].locked /\ lock' = Nobody)
        /\ UNCHANGED impaired
    BY <1>10 DEF ReleaseRefreshLock, At, Calm, Fails, faultVars
  <2>3. ~r.locked /\ r.pc \notin PastMutex /\ worker[w].pc \in PastMutex
    BY <2>1, <2>2 DEF Leaves, PastMutex
  <2> QED BY <2>1, <2>2, <2>3, LeavesFree, LeavesUnlocked
<1>11. ASSUME NEW w \in Workers, AfterRefresh(w) PROVE (MutexInv /\ LockInv)'
  <2>1. PICK r \in WorkerState : Moves(w, r) /\ Leaves(w, r)
    BY <1>0, <1>11, AfterMoves
  <2>2. UNCHANGED <<mutex, lock, impaired>>
    BY <1>11 DEF AfterRefresh, SetError, SetTempUnschedulable, PostRefreshActions,
                 locks, Calm, Fails, faultVars
  <2>3. ~r.locked /\ r.pc \notin PastMutex
    BY <2>1 DEF Leaves, PastMutex
  <2> QED BY <2>1, <2>2, <2>3, LeavesFree, LeavesUnlocked
<1>12. CASE \/ AdminStep \/ AdminDies \/ TimePasses \/ CooldownEnds \/ ProviderRevokes
            \/ (\E t \in Tasks : StartAdmin(t)) \/ UNCHANGED vars
  <2>1. UNCHANGED <<mutex, lock, impaired, worker>>
    BY <1>12 DEF AdminStep, Login, ReadForManualRefresh, RefreshManually, UpdateAccountRead,
         UpdateAccountWrite, ClearAccountError, AdminDies, TimePasses, CooldownEnds,
         ProviderRevokes, StartAdmin, vars, locks, faultVars, Calm, Fails, Loses
  <2> QED BY <2>1 DEF ExclusionInv, MutexInv, LockInv, Refreshing
<1>13. CASE LockExpires
  <2>1. /\ lock \in Workers /\ lock' = Nobody /\ UNCHANGED <<worker, mutex>>
        /\ IF worker[lock].locked THEN impaired' ELSE UNCHANGED impaired
    BY <1>13, <1>0 DEF LockExpires, LapsesIf, Impairs, Calm, faultVars, TypeOK
  <2>2. MutexInv'
    BY <2>1 DEF ExclusionInv, MutexInv
  <2>3. ASSUME ~impaired', NEW v \in Workers PROVE ~worker[v].locked /\ ~Refreshing(v)
    BY <2>1, <2>3 DEF ExclusionInv, LockInv
  <2> QED BY <2>1, <2>2, <2>3 DEF LockInv, Refreshing
<1>14. ASSUME NEW i \in Instances, InstanceDies(i) PROVE (MutexInv /\ LockInv)'
  <2>1. /\ mutex' = [mutex EXCEPT ![i] = Nobody] /\ UNCHANGED <<lock, impaired>>
        /\ \A w \in Workers : \/ worker'[w] = Idle
                              \/ worker'[w] = worker[w] /\ (worker[w].at # i \/ At(w, "idle"))
    BY <1>14 DEF InstanceDies, Loses
  <2>2. ASSUME NEW v \in Workers, worker'[v].pc \in PastMutex PROVE mutex'[worker'[v].at] = v
    <3>1. worker'[v] = worker[v] /\ worker[v].at # i
      BY <2>1, <2>2, IdleType DEF At, PastMutex
    <3>2. mutex[worker[v].at] = v
      BY <2>2, <3>1 DEF ExclusionInv, MutexInv, PastMutex
    <3>3. worker[v].at \in Instances
      BY <1>0 DEF TypeOK, WorkerState
    <3> QED BY <2>1, <3>1, <3>2, <3>3, <1>0 DEF TypeOK
  <2>3. ASSUME ~impaired', NEW v \in Workers
        PROVE  /\ worker'[v].locked => lock' = v
               /\ Refreshing(v)' => worker'[v].locked
    <3>1. CASE worker'[v] = Idle
      BY <3>1, IdleType DEF Refreshing
    <3>2. CASE worker'[v] = worker[v]
      BY <2>1, <2>3, <3>2 DEF ExclusionInv, LockInv, Refreshing
    <3> QED BY <2>1, <3>1, <3>2
  <2> QED BY <2>2, <2>3 DEF MutexInv, LockInv, PastMutex
<1> QED
  BY <1>1, <1>2, <1>3, <1>4, <1>5, <1>6, <1>7, <1>8, <1>9, <1>10, <1>11, <1>12, <1>13, <1>14
     DEF Next, RefreshIfNeeded

\* At most one call refreshes while the lock protects the calls, and at most
\* one in a process whatever happens to the lock.
THEOREM RefreshersExclude == Spec => []OneRefresher
<1>1. Init => MutexInv /\ LockInv
  BY IdleType DEF Init, MutexInv, LockInv, Refreshing
<1>2. ExclusionInv => OneRefresher
  <2> SUFFICES ASSUME ExclusionInv, NEW v \in Workers, NEW w \in Workers,
                      Refreshing(v), Refreshing(w)
               PROVE  v = w \/ (impaired /\ worker[v].at # worker[w].at)
    BY DEF OneRefresher
  <2>1. mutex[worker[v].at] = v /\ mutex[worker[w].at] = w
    BY DEF ExclusionInv, MutexInv, Refreshing
  <2>2. ~impaired => lock = v /\ lock = w
    BY DEF ExclusionInv, LockInv
  <2> QED BY <2>1, <2>2
<1>3. TypeOK /\ MutexInv /\ LockInv /\ [Next]_vars => (MutexInv /\ LockInv)'
  BY ExclusionStep DEF ExclusionInv
<1>4. TypeOK /\ MutexInv /\ LockInv => OneRefresher
  BY <1>2 DEF ExclusionInv
<1> QED BY <1>1, <1>3, <1>4, TypeCorrect, PTL DEF Spec

-----------------------------------------------------------------------------
(* No token is lost.                                                        *)

LEMMA MovesOne ==
    ASSUME TypeOK, NEW w \in Workers, NEW r \in WorkerState, Moves(w, r)
    PROVE  worker'[w] = r /\ \A v \in Workers : v # w => worker'[v] = worker[v]
BY DEF TypeOK, Moves

\* A step that hands out no credentials, stores none and forgets none.
LEMMA QuietStep ==
    ASSUME TypeOK, TokenInv, NEW w \in Workers, NEW r \in WorkerState, Moves(w, r),
           worker[w].pc # "persist", r.pc # "persist",
           r.pc = "call" => r.snap = account.gen, r.snap < issued, r.got < issued,
           account'.gen = account.gen, UNCHANGED <<valid, issued, admin>>, loss => loss'
    PROVE  TokenInv'
<1>1. worker'[w] = r /\ \A v \in Workers : v # w => worker'[v] = worker[v]
  BY MovesOne
<1>2. NumberInv' /\ AdminInv'
  BY <1>1 DEF TokenInv, NumberInv, AdminInv
<1>3. ASSUME ~loss' PROVE FreshInv'
  <2>1. ASSUME NEW g, Unsent(g) PROVE Unsent(g)'
    BY <1>1, <2>1 DEF Unsent, At
  <2> QED BY <1>1, <1>3, <2>1 DEF TokenInv, FreshInv, AdminHolds, At
<1>4. ASSUME ~loss' PROVE TokenIsKept'
  BY <1>1, <1>4 DEF TokenInv, TokenIsKept, Replaces, At
<1> QED BY <1>2, <1>3, <1>4 DEF TokenInv

\* A worker exchanges its token and holds what the provider issued.
LEMMA RefreshStep ==
    ASSUME TypeOK, TokenInv, NEW w \in Workers, At(w, "call"), NEW r \in WorkerState,
           Moves(w, r), Exchange(worker[w].snap), r.pc = "persist",
           r.snap = worker[w].snap, r.got = issued,
           UNCHANGED <<account, admin, loss>>
    PROVE  TokenInv'
<1>1. worker'[w] = r /\ \A v \in Workers : v # w => worker'[v] = worker[v]
  BY MovesOne
<1>2. /\ valid' = (valid \ {worker[w].snap}) \cup {issued} /\ issued' = issued + 1
      /\ issued \in Nat /\ valid \subseteq Nat
      /\ account.gen \in Nat /\ admin.snap \in Nat /\ admin.got \in Nat
      /\ \A v \in Workers : worker[v].snap \in Nat /\ worker[v].got \in Nat
  BY DEF Exchange, TypeOK, AdminState, WorkerState
<1>3. NumberInv
  BY DEF TokenInv
<1>4. NumberInv' /\ AdminInv'
  BY <1>1, <1>2 DEF TokenInv, NumberInv, AdminInv
<1>5. ASSUME ~loss PROVE FreshInv'
  <2>1. FreshInv
    BY <1>5 DEF TokenInv
  <2>2. ASSUME NEW g, g = issued PROVE Unsent(g)'
    BY <2>2, <1>1, <1>2, <1>3, <2>1 DEF NumberInv, Unsent, At
  <2>3. ASSUME NEW v \in Workers, v # w, At(v, "persist")
        PROVE  worker[v].got \in valid' /\ Unsent(worker[v].got)' /\ worker[v].got # issued
    BY <1>1, <1>2, <1>3, <2>1, <2>3 DEF NumberInv, FreshInv, Unsent, At
  <2>4. ASSUME AdminHolds
        PROVE  admin.got \in valid' /\ Unsent(admin.got)' /\ admin.got # issued
    BY <1>1, <1>2, <1>3, <2>1, <2>4 DEF NumberInv, FreshInv, Unsent, At
  <2>5. issued \in valid'
    BY <1>2
  <2>6. ASSUME NEW u \in Workers, At(u, "persist")'
        PROVE  /\ worker'[u].got \in valid'
               /\ Unsent(worker[u].got)'
               /\ \A v \in Workers : At(v, "persist")' /\ v # u => worker'[v].got # worker'[u].got
               /\ AdminHolds' => admin'.got # worker'[u].got
    <3>1. CASE u = w
      <4>1. worker'[u] = r /\ r.got = issued
        BY <1>1, <3>1
      <4>2. Unsent(worker[u].got)'
        <5>1. PICK g : g = issued
          OBVIOUS
        <5>2. Unsent(g)'
          BY <2>2, <5>1
        <5> QED BY <4>1, <5>1, <5>2 DEF Unsent, At
      <4>3. AdminHolds' => admin'.got # issued
        BY <2>4 DEF AdminHolds
      <4>4. ASSUME NEW v \in Workers, At(v, "persist")', v # u PROVE worker'[v].got # issued
        BY <1>1, <2>3, <3>1, <4>4 DEF At
      <4> QED BY <2>5, <4>1, <4>2, <4>3, <4>4
    <3>2. CASE u # w
      BY <1>1, <2>1, <2>3, <2>6, <3>2 DEF FreshInv, AdminHolds, At
    <3> QED BY <3>1, <3>2
  <2>7. AdminHolds' => admin'.got \in valid' /\ Unsent(admin.got)'
    BY <2>4 DEF AdminHolds
  <2> QED BY <2>6, <2>7 DEF FreshInv
<1>6. ASSUME ~loss PROVE TokenIsKept'
  <2>1. FreshInv /\ TokenIsKept
    BY <1>6 DEF TokenInv
  <2>2. CASE account.gen = worker[w].snap
    BY <1>1, <1>2, <2>2 DEF TokenIsKept, Replaces, At
  <2>3. CASE account.gen \in valid /\ account.gen # worker[w].snap
    BY <1>2, <2>3 DEF TokenIsKept
  <2>4. ASSUME NEW v \in Workers, At(v, "persist"), Replaces(worker[v])
        PROVE  TokenIsKept'
    <3>1. v # w /\ worker[v].got # worker[w].snap
      BY <2>1, <2>4 DEF FreshInv, Unsent, At
    <3> QED BY <1>1, <1>2, <2>4, <3>1 DEF TokenIsKept, Replaces, At
  <2>5. ASSUME admin.task = "manual" /\ admin.pc \in {"read", "write"} /\ Replaces(admin)
        PROVE  TokenIsKept'
    <3>1. admin.got # worker[w].snap
      BY <2>1, <2>5 DEF FreshInv, Unsent, AdminHolds, At
    <3> QED BY <1>2, <2>5, <3>1 DEF TokenIsKept, Replaces
  <2> QED BY <1>6, <2>1, <2>2, <2>3, <2>4, <2>5 DEF TokenIsKept
<1> QED BY <1>4, <1>5, <1>6 DEF TokenInv

\* Lost replies and the like: only the numbers have to stay in order.
LEMMA LossStep ==
    ASSUME NumberInv', AdminInv', loss'
    PROVE  TokenInv'
BY DEF TokenInv

LEMMA PersistStep ==
    ASSUME TypeOK, TokenInv, NEW w \in Workers, Persist(w)
    PROVE  TokenInv'
<1>1. PICK r \in WorkerState : Moves(w, r) /\ Returns(w, r)
  BY PersistMoves
<1>2. worker'[w] = r /\ \A v \in Workers : v # w => worker'[v] = worker[v]
  BY <1>1, MovesOne
<1>3. At(w, "persist") /\ UNCHANGED <<valid, issued, admin>>
  BY DEF Persist, provider
<1>4. /\ account'.gen \in {account.gen, worker[w].got}
      /\ \/ loss'
         \/ account'.gen = worker[w].got /\ UNCHANGED loss
         \/ account'.gen = account.gen /\ account.gen # worker[w].snap /\ UNCHANGED loss
  BY DEF Persist, MergeCredentials, MayPersist, Unchanged, Calm, Fails, Loses, faultVars, TypeOK
<1>5. NumberInv' /\ AdminInv'
  BY <1>1, <1>2, <1>3, <1>4 DEF TokenInv, NumberInv, AdminInv, Returns
<1>6. ASSUME ~loss' PROVE FreshInv' /\ TokenIsKept'
  <2>1. ~loss /\ FreshInv /\ TokenIsKept
    BY <1>4, <1>6 DEF TokenInv
  <2>2. ASSUME NEW v \in Workers, v # w, At(v, "persist")
        PROVE  worker[v].got \in valid' /\ Unsent(worker[v].got)'
    BY <1>1, <1>2, <1>3, <1>4, <2>1, <2>2 DEF FreshInv, Unsent, At, Returns
  <2>3. ASSUME AdminHolds PROVE admin.got \in valid' /\ Unsent(admin.got)'
    BY <1>1, <1>2, <1>3, <1>4, <2>1, <2>3 DEF FreshInv, Unsent, At, Returns
  <2>4. FreshInv'
    BY <1>1, <1>2, <1>3, <2>1, <2>2, <2>3 DEF FreshInv, AdminHolds, At, Returns
  <2>5. CASE account'.gen = worker[w].got
    <3>1. worker[w].got \in valid
      BY <1>3, <2>1 DEF FreshInv
    <3> QED BY <1>3, <2>4, <2>5, <3>1 DEF TokenIsKept
  <2>6. CASE account'.gen = account.gen /\ account.gen # worker[w].snap
    <3>1. CASE account.gen \in valid
      BY <1>3, <2>4, <2>6, <3>1 DEF TokenIsKept
    <3>2. ASSUME NEW v \in Workers, At(v, "persist"), Replaces(worker[v]) PROVE TokenIsKept'
      BY <1>2, <1>3, <2>6, <3>2 DEF TokenIsKept, Replaces, At
    <3>3. CASE admin.task = "manual" /\ admin.pc \in {"read", "write"} /\ Replaces(admin)
      BY <1>3, <2>4, <2>6, <3>3 DEF TokenIsKept, Replaces
    <3> QED BY <2>1, <2>4, <3>1, <3>2, <3>3 DEF TokenIsKept
  <2> QED BY <1>4, <1>6, <2>4, <2>5, <2>6
<1> QED BY <1>5, <1>6 DEF TokenInv

LEMMA WorkerKeeps ==
    ASSUME TypeOK, TokenInv, NEW w \in Workers,
           \/ RefreshIfNeeded(w) \/ AfterRefresh(w)
           \/ \E i \in Instances : StartRequest(w, i) \/ StartRefresh(w, i)
    PROVE  TokenInv'
<1>0. /\ issued \in Nat /\ issued > 0 /\ account.gen < issued
      /\ worker[w].snap < issued /\ worker[w].got < issued
  BY DEF TypeOK, TokenInv, NumberInv
<1>1. ASSUME NEW i \in Instances, StartRequest(w, i) \/ StartRefresh(w, i) PROVE TokenInv'
  <2>1. PICK r \in WorkerState : /\ Moves(w, r) /\ r.pc = "mutex"
                                 /\ r.snap \in {0, account.gen} /\ r.got = 0
    BY <1>1, StartMoves
  <2>2. worker[w].pc = "idle" /\ UNCHANGED <<account, valid, issued, admin, loss>>
    BY <1>1 DEF StartRequest, StartRefresh, At, provider, faultVars
  <2> QED BY <1>0, <2>1, <2>2, QuietStep
<1>2. CASE LockLocal(w) \/ AcquireRefreshLock(w) \/ LockFails(w)
  <2>1. PICK r \in WorkerState : /\ Moves(w, r) /\ r.pc \in {"lock", "reread"}
                                 /\ r.snap = worker[w].snap /\ r.got = worker[w].got
    BY <1>2, LockLocalMoves, AcquireMoves, LockFailsMoves DEF Keeps
  <2>2. worker[w].pc \in {"mutex", "lock"} /\ UNCHANGED <<account, valid, issued, admin, loss>>
    BY <1>2 DEF LockLocal, AcquireRefreshLock, LockFails, Impairs, At, provider, faultVars
  <2> QED BY <1>0, <2>1, <2>2, QuietStep
<1>3. CASE WaitTimesOut(w) \/ ReleaseRefreshLock(w) \/ AfterRefresh(w)
  <2>1. PICK r \in WorkerState : Moves(w, r) /\ Leaves(w, r)
    BY <1>3, WaitTimesOutMoves, ReleaseMoves, AfterMoves
  <2>2. /\ worker[w].pc \in {"mutex", "release", "setError", "exhausted", "sync"}
        /\ account'.gen = account.gen /\ UNCHANGED <<valid, issued, admin, loss>>
    BY <1>3 DEF TypeOK, WaitTimesOut, ReleaseRefreshLock, AfterRefresh, SetError, SetTempUnschedulable,
       PostRefreshActions, At, provider, Calm, Fails, faultVars
  <2> QED BY <1>0, <2>1, <2>2, QuietStep DEF Leaves
<1>4. CASE LockHeld(w) \/ TryRecoverFromRefreshRace(w)
  <2>1. PICK r \in WorkerState : Moves(w, r) /\ Returns(w, r)
    BY <1>4, LockHeldMoves, RecoverMoves
  <2>2. worker[w].pc \in {"lock", "recover"} /\ UNCHANGED <<account, valid, issued, admin, loss>>
    BY <1>4 DEF LockHeld, TryRecoverFromRefreshRace, At, provider, Calm, Fails, faultVars
  <2> QED BY <1>0, <2>1, <2>2, QuietStep DEF Returns
<1>5. CASE Reread(w)
  <2>1. PICK r \in WorkerState :
          /\ Moves(w, r)
          /\ \/ Returns(w, r)
             \/ r.pc = "call" /\ r.snap = account.gen /\ r.got = worker[w].got
    BY <1>5, RereadMoves
  <2>2. worker[w].pc = "reread" /\ UNCHANGED <<account, valid, issued, admin, loss>>
    BY <1>5 DEF Reread, At, provider, Calm, Fails, faultVars
  <2> QED BY <1>0, <2>1, <2>2, QuietStep DEF Returns
<1>6. CASE Refresh(w)
  <2>1. PICK r \in WorkerState :
          /\ Moves(w, r)
          /\ \/ Returns(w, r) /\ ((Exchange(worker[w].snap) /\ loss') \/ UNCHANGED provider)
             \/ Keeps(w, r) /\ r.pc = "recover" /\ UNCHANGED provider
             \/ /\ Exchange(worker[w].snap) /\ UNCHANGED loss
                /\ r.pc = "persist" /\ r.snap = worker[w].snap /\ r.got = issued
    BY <1>6, RefreshMoves
  <2>2. At(w, "call") /\ UNCHANGED <<account, admin>> /\ (loss => loss')
    <3>1. (\E c \in BOOLEAN : loss' = (loss \/ c)) \/ UNCHANGED loss
      BY <1>6 DEF Refresh, Calm, Fails, Loses, faultVars
    <3>2. loss => loss'
      BY <3>1
    <3>3. At(w, "call") /\ UNCHANGED <<account, admin>>
      BY <1>6 DEF Refresh
    <3> QED BY <3>2, <3>3
  <2>3. CASE UNCHANGED provider /\ (Returns(w, r) \/ (Keeps(w, r) /\ r.pc = "recover"))
    BY <1>0, <2>1, <2>2, <2>3, QuietStep DEF Returns, Keeps, provider, At
  <2>4. CASE Returns(w, r) /\ Exchange(worker[w].snap) /\ loss'
    <3>1. worker'[w] = r /\ \A v \in Workers : v # w => worker'[v] = worker[v]
      BY <2>1, MovesOne
    <3>2. valid' = (valid \ {worker[w].snap}) \cup {issued} /\ issued' = issued + 1
      BY <2>4 DEF Exchange
    <3>3. /\ issued \in Nat /\ account.gen \in Nat /\ admin.snap \in Nat /\ admin.got \in Nat /\ valid \subseteq Nat
          /\ \A v \in Workers : worker[v].snap \in Nat /\ worker[v].got \in Nat
      BY DEF TypeOK, AdminState, WorkerState
    <3>4. NumberInv /\ AdminInv
      BY DEF TokenInv
    <3>5. r.snap < issued' /\ r.got < issued'
      <4>1. r.snap \in {0, worker[w].snap} /\ r.got = 0
        BY <2>4 DEF Returns
      <4>2. 0 < issued /\ worker[w].snap < issued
        BY <3>4 DEF NumberInv
      <4>3. \A n \in Nat : n < issued => n < issued'
        BY <3>2, <3>3
      <4> QED BY <3>3, <4>1, <4>2, <4>3
    <3>6. \A v \in Workers : worker'[v].snap < issued' /\ worker'[v].got < issued'
      <4> SUFFICES ASSUME NEW v \in Workers
                   PROVE  worker'[v].snap < issued' /\ worker'[v].got < issued'
        OBVIOUS
      <4>1. CASE v = w
        BY <3>1, <3>5, <4>1
      <4>2. CASE v # w
        <5>1. worker'[v] = worker[v]
          BY <3>1, <4>2
        <5>2. worker[v].snap < issued /\ worker[v].got < issued
          BY <3>4 DEF NumberInv
        <5>3. \A n \in Nat : n < issued => n < issued'
          BY <3>2, <3>3
        <5> QED BY <3>3, <5>1, <5>2, <5>3
      <4> QED BY <4>1, <4>2
    <3>7. /\ issued' > 0 /\ account'.gen < issued'
          /\ \A g \in valid' : g < issued'
          /\ admin'.snap < issued' /\ admin'.got < issued'
      BY <1>0, <2>2, <3>2, <3>3, <3>4 DEF NumberInv
    <3>8. NumberInv'
      BY <3>6, <3>7 DEF NumberInv
    <3>9. AdminInv'
      BY <2>2, <3>4 DEF AdminInv
    <3> QED BY <2>4, <3>8, <3>9, LossStep
  <2>5. CASE /\ Exchange(worker[w].snap) /\ UNCHANGED loss
             /\ r.pc = "persist" /\ r.snap = worker[w].snap /\ r.got = issued
    BY <2>1, <2>2, <2>5, RefreshStep
  <2> QED BY <2>1, <2>3, <2>4, <2>5
<1>7. CASE Persist(w)
  BY <1>7, PersistStep
<1> QED BY <1>1, <1>2, <1>3, <1>4, <1>5, <1>6, <1>7 DEF RefreshIfNeeded

\* The administrator's call takes a step that neither uses up nor stores
\* credentials; what it comes to hold has just been issued.
LEMMA AdminQuiet ==
    ASSUME TypeOK, TokenInv, UNCHANGED <<worker, valid, issued>>,
           account'.gen = account.gen, AdminInv',
           admin'.snap < issued, admin'.got < issued,
           admin'.pc = "call" => admin'.snap = account.gen,
           AdminHolds' => AdminHolds /\ admin'.got = admin.got,
           loss' \/ (UNCHANGED loss /\ (AdminHolds /\ ~AdminHolds' => admin.task # "manual")
                     /\ (AdminHolds' => admin'.snap = admin.snap /\ admin'.task = admin.task))
    PROVE  TokenInv'
<1>1. NumberInv'
  BY DEF TokenInv, NumberInv
<1>2. ASSUME ~loss' PROVE FreshInv'
  <2>1. FreshInv
    BY <1>2 DEF TokenInv
  <2>2. ASSUME NEW g, Unsent(g) PROVE Unsent(g)'
    BY <2>2 DEF Unsent, At
  <2> QED BY <2>1, <2>2 DEF FreshInv, At
<1>3. ASSUME ~loss' PROVE TokenIsKept'
  <2>1. TokenIsKept /\ ~loss
    BY <1>3 DEF TokenInv
  <2>2. CASE admin.task = "manual" /\ admin.pc \in {"read", "write"} /\ Replaces(admin)
    <3>1. AdminHolds'
      BY <1>3, <2>2 DEF AdminHolds
    <3> QED BY <1>3, <2>2, <3>1 DEF TokenIsKept, Replaces, AdminHolds
  <2> QED BY <1>3, <2>1, <2>2 DEF TokenIsKept, Replaces, At
<1> QED BY <1>1, <1>2, <1>3 DEF TokenInv

\* The same for new credentials: a login, or a token exchanged by hand.
LEMMA AdminIssues ==
    ASSUME TypeOK, TokenInv, UNCHANGED <<worker, account, loss>>,
           admin.pc = "login" \/ admin.pc = "call",
           admin' = [admin EXCEPT !.pc = "read", !.got = issued], issued' = issued + 1,
           \/ admin.task = "reauth" /\ valid' = valid \cup {issued}
           \/ admin.task = "manual" /\ valid' = (valid \ {admin.snap}) \cup {issued}
    PROVE  TokenInv'
<1>1. /\ issued \in Nat /\ valid \subseteq Nat /\ account.gen \in Nat
      /\ admin.snap \in Nat /\ admin.got \in Nat /\ admin \in AdminState
      /\ \A v \in Workers : worker[v].snap \in Nat /\ worker[v].got \in Nat
  BY DEF TypeOK, AdminState, WorkerState
<1>2. /\ admin'.pc = "read" /\ admin'.got = issued /\ admin'.snap = admin.snap
      /\ admin'.task = admin.task
  BY <1>1 DEF AdminState
<1>3. NumberInv
  BY DEF TokenInv
<1>4. NumberInv' /\ AdminInv'
  BY <1>1, <1>2, <1>3 DEF NumberInv, AdminInv
<1>5. ASSUME ~loss PROVE FreshInv'
  <2>1. FreshInv
    BY <1>5 DEF TokenInv
  <2>2. ASSUME NEW g, g = issued PROVE g \in valid' /\ Unsent(g)'
    BY <1>1, <1>2, <1>3, <2>2 DEF NumberInv, Unsent, At
  <2>3. ASSUME NEW v \in Workers, At(v, "persist")
        PROVE  worker[v].got \in valid' /\ Unsent(worker[v].got)' /\ worker[v].got # issued
    <3>1. worker[v].got \in valid /\ Unsent(worker[v].got)
      BY <2>1, <2>3 DEF FreshInv
    <3>2. admin.task = "manual" => worker[v].got # admin.snap
      BY <3>1, <1>1 DEF TokenInv, AdminInv, Unsent
    <3>3. worker[v].got < issued
      BY <1>3 DEF NumberInv
    <3> QED BY <1>1, <1>2, <3>1, <3>2, <3>3 DEF Unsent, At
  <2>4. (admin.got \in valid /\ Unsent(admin.got))'
    <3>1. PICK g : g = issued
      OBVIOUS
    <3>2. g \in valid' /\ Unsent(g)'
      BY <2>2, <3>1
    <3> QED BY <1>2, <3>1, <3>2 DEF Unsent, At
  <2> QED BY <1>2, <2>1, <2>2, <2>3, <2>4 DEF FreshInv, At
<1>6. ASSUME ~loss PROVE TokenIsKept'
  <2>1. TokenIsKept /\ FreshInv /\ AdminInv
    BY <1>6 DEF TokenInv
  <2>2. CASE account.gen \in valid'
    BY <2>2 DEF TokenIsKept
  <2>3. CASE account.gen \in valid /\ account.gen \notin valid'
    <3>1. admin.task = "manual" /\ account.gen = admin.snap
      BY <2>3, <1>1
    <3>2. admin'.got \in valid'
      BY <1>2, <2>3
    <3> QED BY <1>2, <3>1, <3>2 DEF TokenIsKept, Replaces
  <2>4. ASSUME NEW v \in Workers, At(v, "persist"), Replaces(worker[v]) PROVE TokenIsKept'
    <3>1. admin.task = "manual" => worker[v].got # admin.snap
      BY <2>1, <2>4 DEF FreshInv, AdminInv, Unsent
    <3> QED BY <2>4, <3>1 DEF TokenIsKept, Replaces, At
  <2> QED BY <1>6, <2>1, <2>2, <2>3, <2>4 DEF TokenIsKept
<1> QED BY <1>4, <1>5, <1>6 DEF TokenInv

LEMMA AdminKeeps ==
    ASSUME TypeOK, TokenInv, AdminStep \/ AdminDies \/ \E t \in Tasks : StartAdmin(t)
    PROVE  TokenInv'
<1>0. /\ issued \in Nat /\ issued > 0 /\ account.gen < issued /\ account.gen \in Nat
      /\ admin.snap < issued /\ admin.got < issued /\ admin \in AdminState /\ AdminInv
  BY DEF TypeOK, TokenInv, NumberInv
<1>1. ASSUME NEW t \in Tasks, StartAdmin(t) PROVE TokenInv'
  <2>1. /\ admin' = [admin EXCEPT !.task = t, !.pc = FirstStep[t]] /\ admin.pc = "idle"
        /\ UNCHANGED <<worker, account, valid, issued, loss>>
    BY <1>1 DEF StartAdmin, provider, faultVars
  <2>2. /\ admin'.task = t /\ admin'.pc = FirstStep[t]
        /\ admin'.snap = admin.snap /\ admin'.got = admin.got
    BY <1>0, <2>1 DEF AdminState
  <2>3. t \in Task
    BY TokenRefreshAssumption
  <2>4. /\ AdminInv' /\ ~AdminHolds' /\ ~AdminHolds /\ admin'.pc # "call"
    BY <2>1, <2>2, <2>3 DEF AdminInv, AdminHolds, FirstStep, Task
  <2> QED BY <1>0, <2>1, <2>2, <2>4, AdminQuiet
<1>2. CASE Login
  <2>1. admin.task = "reauth"
    BY <1>0, <1>2 DEF Login, AdminInv
  <2> QED BY <1>2, <2>1, AdminIssues DEF Login, faultVars
<1>3. CASE ReadForManualRefresh
  <2>1. /\ admin' = [admin EXCEPT !.pc = "call", !.snap = account.gen] /\ admin.pc = "get"
        /\ UNCHANGED <<worker, account, valid, issued, loss>>
    BY <1>3 DEF ReadForManualRefresh, provider, faultVars
  <2>2. /\ admin'.task = admin.task /\ admin'.pc = "call"
        /\ admin'.snap = account.gen /\ admin'.got = admin.got
    BY <1>0, <2>1 DEF AdminState
  <2>3. AdminInv' /\ ~AdminHolds' /\ ~AdminHolds
    BY <1>0, <2>1, <2>2 DEF AdminInv, AdminHolds
  <2> QED BY <1>0, <2>1, <2>2, <2>3, AdminQuiet
<1>4. CASE RefreshManually
  <2>1. admin.pc = "call" /\ admin.task = "manual" /\ UNCHANGED <<worker, account>>
    BY <1>0, <1>4 DEF RefreshManually, AdminInv
  <2>2. CASE Exchange(admin.snap) /\ admin' = [admin EXCEPT !.pc = "read", !.got = issued] /\ Calm
    BY <2>1, <2>2, AdminIssues DEF Exchange, Calm, faultVars
  <2>3. CASE AdminEnds("failed") /\ UNCHANGED provider /\ UNCHANGED loss
    <3>1. admin'.pc = "failed" /\ admin'.snap = 0 /\ admin'.got = 0
      BY <1>0, <2>3 DEF AdminEnds, AdminState
    <3>2. AdminInv' /\ ~AdminHolds' /\ ~AdminHolds
      BY <2>1, <3>1 DEF AdminInv, AdminHolds
    <3> QED BY <1>0, <2>1, <2>3, <3>1, <3>2, AdminQuiet DEF provider
  <2>4. CASE AdminEnds("failed") /\ Exchange(admin.snap) /\ loss'
    <3>1. admin'.pc = "failed" /\ admin'.snap = 0 /\ admin'.got = 0
      BY <1>0, <2>4 DEF AdminEnds, AdminState
    <3>2. valid' = (valid \ {admin.snap}) \cup {issued} /\ issued' = issued + 1
      BY <2>4 DEF Exchange
    <3>3. /\ valid \subseteq Nat
          /\ \A v \in Workers : worker[v].snap \in Nat /\ worker[v].got \in Nat
      BY DEF TypeOK, WorkerState
    <3>4. NumberInv' /\ AdminInv'
      BY <1>0, <2>1, <3>1, <3>2, <3>3 DEF TokenInv, NumberInv, AdminInv
    <3> QED BY <2>4, <3>4, LossStep
  <2> QED BY <1>4, <2>2, <2>3, <2>4 DEF RefreshManually, Calm, Fails, Loses, faultVars
<1>5. CASE UpdateAccountRead
  <2>1. /\ admin' = [admin EXCEPT !.pc = "write", !.status = account.status,
                       !.got = IF admin.task = "edit" THEN account.gen ELSE @]
        /\ admin.pc = "read" /\ UNCHANGED <<worker, account, valid, issued, loss>>
    BY <1>5 DEF UpdateAccountRead, provider, faultVars
  <2>2. /\ admin'.task = admin.task /\ admin'.pc = "write" /\ admin'.snap = admin.snap
        /\ admin'.got = IF admin.task = "edit" THEN account.gen ELSE admin.got
    BY <1>0, <2>1 DEF AdminState
  <2>3. AdminInv' /\ (AdminHolds' <=> AdminHolds) /\ (AdminHolds' => admin'.got = admin.got)
    BY <1>0, <2>1, <2>2 DEF AdminInv, AdminHolds
  <2> QED BY <1>0, <2>1, <2>2, <2>3, AdminQuiet
<1>6. CASE UpdateAccountWrite
  <2>1. /\ admin.pc = "write" /\ account'.gen = admin.got
        /\ UNCHANGED <<worker, valid, issued>>
        /\ loss' = (loss \/ (admin.task = "edit" /\ account.gen # admin.got))
    BY <1>6 DEF UpdateAccountWrite, provider, TypeOK
  <2>2. /\ admin'.pc \in {"clear", "done"} /\ admin'.snap < issued /\ admin'.got < issued
    BY <1>0, <1>6 DEF UpdateAccountWrite, AdminGoto, AdminEnds, AdminState
  <2>3. NumberInv' /\ AdminInv' /\ ~AdminHolds'
    BY <1>0, <2>1, <2>2 DEF TokenInv, NumberInv, AdminInv, AdminHolds
  <2>4. CASE admin.task = "edit" /\ account.gen = admin.got
    <3>1. loss' = loss
      BY <2>1, <2>4 DEF TypeOK
    <3> QED BY <1>0, <2>1, <2>2, <2>3, <2>4, <3>1, AdminQuiet DEF AdminHolds
  <2>5. CASE admin.task = "edit" /\ account.gen # admin.got
    BY <2>1, <2>3, <2>5, LossStep
  <2>6. ASSUME admin.task # "edit", ~loss' PROVE FreshInv' /\ TokenIsKept'
    <3>1. ~loss /\ FreshInv /\ AdminHolds
      BY <2>1, <2>6 DEF TokenInv, AdminHolds
    <3>2. admin.got \in valid /\ Unsent(admin.got)
      BY <3>1 DEF FreshInv
    <3>3. TokenIsKept'
      BY <2>1, <3>2 DEF TokenIsKept
    <3>4. ASSUME NEW v \in Workers, At(v, "persist") PROVE Unsent(worker[v].got)'
      BY <2>1, <2>2, <3>1, <3>4 DEF FreshInv, Unsent, At
    <3>5. FreshInv'
      BY <2>1, <2>3, <3>1, <3>4 DEF FreshInv, At
    <3> QED BY <3>3, <3>5
  <2> QED BY <2>3, <2>4, <2>5, <2>6 DEF TokenInv
<1>7. CASE ClearAccountError
  <2>1. admin.pc = "clear" /\ account'.gen = account.gen /\ UNCHANGED <<worker, valid, issued, loss>>
    BY <1>7 DEF ClearAccountError, provider, faultVars, TypeOK
  <2>2. admin'.pc = "done" /\ admin'.snap = 0 /\ admin'.got = 0
    BY <1>0, <1>7 DEF ClearAccountError, AdminEnds, AdminState
  <2>3. AdminInv' /\ ~AdminHolds' /\ ~AdminHolds
    BY <2>1, <2>2 DEF AdminInv, AdminHolds
  <2> QED BY <1>0, <2>1, <2>2, <2>3, AdminQuiet
<1>8. CASE AdminDies
  <2>1. /\ UNCHANGED <<worker, account, valid, issued>>
        /\ loss' = (loss \/ (admin.task = "manual" /\ admin.pc \in {"read", "write"}))
    BY <1>8 DEF AdminDies, provider, Loses
  <2>2. admin'.pc = "failed" /\ admin'.snap = 0 /\ admin'.got = 0
    BY <1>0, <1>8 DEF AdminDies, AdminEnds, AdminState
  <2>3. AdminInv' /\ ~AdminHolds'
    BY <2>2 DEF AdminInv, AdminHolds
  <2>4. loss' \/ (UNCHANGED loss /\ (AdminHolds => admin.task # "manual"))
    BY <2>1 DEF AdminHolds, TypeOK
  <2> QED BY <1>0, <2>1, <2>2, <2>3, <2>4, AdminQuiet
<1> QED BY <1>1, <1>2, <1>3, <1>4, <1>5, <1>6, <1>7, <1>8 DEF AdminStep

\* Whoever holds fresh credentials holds good ones that nobody else can spend.
LEMMA TokenInvariance == Spec => []TokenInv
<1>1. Init => TokenInv
  <2> SUFFICES ASSUME Init PROVE TokenInv
    OBVIOUS
  <2>1. /\ account.gen = 0 /\ valid = {0} /\ issued = 1
        /\ admin.task = "none" /\ admin.pc = "idle" /\ admin.snap = 0 /\ admin.got = 0
        /\ \A w \in Workers : worker[w] = Idle
    BY DEF Init
  <2>2. NumberInv /\ AdminInv
    BY <2>1, IdleNumbers DEF NumberInv, AdminInv
  <2>3. FreshInv
    BY <2>1, IdleType DEF FreshInv, AdminHolds, At
  <2>4. TokenIsKept
    BY <2>1 DEF TokenIsKept
  <2> QED BY <2>2, <2>3, <2>4 DEF TokenInv
<1>2. TypeOK /\ TokenInv /\ [Next]_vars => TokenInv'
  <2> SUFFICES ASSUME TypeOK, TokenInv, [Next]_vars PROVE TokenInv'
    OBVIOUS
  <2>1. ASSUME NEW w \in Workers,
               \/ RefreshIfNeeded(w) \/ AfterRefresh(w)
               \/ \E i \in Instances : StartRequest(w, i) \/ StartRefresh(w, i)
        PROVE  TokenInv'
    BY <2>1, WorkerKeeps
  <2>2. CASE AdminStep \/ AdminDies \/ \E t \in Tasks : StartAdmin(t)
    BY <2>2, AdminKeeps
  <2>3. CASE TimePasses \/ CooldownEnds \/ LockExpires \/ UNCHANGED vars
    <3>1. account'.gen = account.gen /\ UNCHANGED <<worker, valid, issued, admin, loss>>
      BY <2>3 DEF TimePasses, CooldownEnds, LockExpires, LapsesIf, Impairs, Calm,
                  provider, faultVars, vars, TypeOK
    <3>2. NumberInv' /\ AdminInv'
      BY <3>1 DEF TokenInv, NumberInv, AdminInv
    <3>3. ASSUME NEW g, Unsent(g) PROVE Unsent(g)'
      BY <3>1, <3>3 DEF Unsent, At
    <3>4. FreshInv => FreshInv'
      BY <3>1, <3>3 DEF FreshInv, AdminHolds, At
    <3>5. TokenIsKept => TokenIsKept'
      BY <3>1 DEF TokenIsKept, Replaces, At
    <3> QED BY <3>1, <3>2, <3>4, <3>5 DEF TokenInv
  <2>4. ASSUME NEW i \in Instances, InstanceDies(i) PROVE TokenInv'
    <3>1. /\ UNCHANGED <<account, valid, issued, admin>>
          /\ \A w \in Workers : worker'[w] = Idle \/ worker'[w] = worker[w]
      BY <2>4 DEF InstanceDies, provider
    <3>2. NumberInv' /\ AdminInv'
      BY <3>1, IdleNumbers DEF TokenInv, NumberInv, AdminInv
    <3>3. ASSUME ~loss'
          PROVE  ~loss /\ \A w \in Workers : At(w, "persist") => worker'[w] = worker[w]
      BY <2>4, <3>3 DEF InstanceDies, Loses, At
    <3>4. ASSUME NEW g, Unsent(g) PROVE Unsent(g)'
      BY <3>1, <3>4, IdleType DEF Unsent, At
    <3>5. ASSUME ~loss' PROVE FreshInv'
      BY <3>1, <3>3, <3>4, <3>5, IdleType DEF TokenInv, FreshInv, AdminHolds, At
    <3>6. ASSUME ~loss' PROVE TokenIsKept'
      BY <3>1, <3>3, <3>6 DEF TokenInv, TokenIsKept, Replaces, At
    <3> QED BY <3>2, <3>5, <3>6 DEF TokenInv
  <2>5. CASE ProviderRevokes
    <3>1. valid' = {} /\ loss' /\ UNCHANGED <<account, issued, worker, admin>>
      BY <2>5 DEF ProviderRevokes, Loses
    <3>2. NumberInv' /\ AdminInv'
      BY <3>1 DEF TokenInv, NumberInv, AdminInv
    <3> QED BY <3>1, <3>2, LossStep
  <2> QED BY <2>1, <2>2, <2>3, <2>4, <2>5 DEF Next
<1> QED BY <1>1, <1>2, TypeCorrect, PTL DEF Spec
\* A rotated token is in the database or in the hands of a live call that will
\* store it, until something is lost.
THEOREM TokenKept == Spec => []TokenIsKept
<1>1. TokenInv => TokenIsKept
  BY DEF TokenInv, TokenIsKept
<1> QED BY <1>1, TokenInvariance, PTL

-----------------------------------------------------------------------------
(* No token is sent twice.                                                  *)

SentInv == SentOnce /\ (admin.pc = "idle" => admin.task = "none")

\* What was impaired or lost stays so.
LEMMA FaultStays ==
    ASSUME \/ Calm
           \/ \E k \in FaultKind : Fails(k) \/ Impairs(k) \/ \E c \in BOOLEAN : Loses(k, c)
    PROVE  (impaired => impaired') /\ (loss => loss')
<1>1. CASE Calm
  BY <1>1 DEF Calm, faultVars
<1>2. ASSUME NEW k \in FaultKind, Fails(k) \/ Impairs(k)
      PROVE  (impaired => impaired') /\ (loss => loss')
  BY <1>2 DEF Fails, Impairs
<1>3. ASSUME NEW k \in FaultKind, NEW c \in BOOLEAN, Loses(k, c)
      PROVE  (impaired => impaired') /\ (loss => loss')
  <2>1. loss' = (loss \/ c) /\ impaired' = impaired
    BY <1>3 DEF Loses
  <2> QED BY <2>1, Zenon
<1> QED BY <1>1, <1>2, <1>3

LEMMA FaultsStay ==
    ASSUME TypeOK, [Next]_vars
    PROVE  (impaired => impaired') /\ (loss => loss')
<1>1. ASSUME NEW w \in Workers, RefreshIfNeeded(w)
      PROVE  (impaired => impaired') /\ (loss => loss')
  <2>1. CASE LockLocal(w) \/ WaitTimesOut(w) \/ AcquireRefreshLock(w) \/ LockHeld(w)
    BY <2>1 DEF LockLocal, WaitTimesOut, AcquireRefreshLock, LockHeld, faultVars
  <2>2. CASE LockFails(w) \/ Reread(w) \/ TryRecoverFromRefreshRace(w) \/ ReleaseRefreshLock(w)
    BY <2>2, FaultStays
       DEF LockFails, Reread, TryRecoverFromRefreshRace, ReleaseRefreshLock, FaultKind
  <2>3. CASE Refresh(w)
    BY <2>3, FaultStays DEF Refresh, FaultKind
  <2>4. CASE Persist(w)
    BY <2>4, FaultStays DEF Persist, FaultKind
  <2> QED BY <1>1, <2>1, <2>2, <2>3, <2>4 DEF RefreshIfNeeded
<1>2. ASSUME NEW w \in Workers,
             \/ AfterRefresh(w)
             \/ \E i \in Instances : StartRequest(w, i) \/ StartRefresh(w, i)
      PROVE  (impaired => impaired') /\ (loss => loss')
  <2>1. CASE SetError(w) \/ SetTempUnschedulable(w)
    BY <2>1, FaultStays DEF SetError, SetTempUnschedulable, FaultKind
  <2>2. CASE PostRefreshActions(w) \/ \E i \in Instances : StartRequest(w, i) \/ StartRefresh(w, i)
    BY <2>2 DEF PostRefreshActions, StartRequest, StartRefresh, faultVars
  <2> QED BY <1>2, <2>1, <2>2 DEF AfterRefresh
<1>3. CASE AdminStep \/ AdminDies \/ \E t \in Tasks : StartAdmin(t)
  <2>1. CASE RefreshManually \/ AdminDies
    BY <2>1, FaultStays DEF RefreshManually, AdminDies, FaultKind
  <2>2. CASE UpdateAccountWrite
    <3>1. impaired' = impaired
          /\ loss' = (loss \/ (admin.task = "edit" /\ account.gen # admin.got))
      BY <2>2 DEF UpdateAccountWrite
    <3> QED BY <3>1, Zenon
  <2>3. CASE Login \/ ReadForManualRefresh \/ UpdateAccountRead \/ ClearAccountError
    BY <2>3 DEF Login, ReadForManualRefresh, UpdateAccountRead, ClearAccountError, faultVars
  <2>4. ASSUME NEW t \in Tasks, StartAdmin(t)
        PROVE  (impaired => impaired') /\ (loss => loss')
    BY <2>4 DEF StartAdmin, faultVars
  <2> QED BY <1>3, <2>1, <2>2, <2>3, <2>4 DEF AdminStep
<1>4. CASE TimePasses \/ CooldownEnds \/ UNCHANGED vars
  BY <1>4 DEF TimePasses, CooldownEnds, vars, faultVars
<1>5. CASE LockExpires \/ ProviderRevokes \/ \E i \in Instances : InstanceDies(i)
  BY <1>5, FaultStays DEF LockExpires, LapsesIf, ProviderRevokes, InstanceDies, FaultKind
<1> QED BY <1>1, <1>2, <1>3, <1>4, <1>5 DEF Next

\* A call is about to send only what it has just read.
LEMMA OnlyRereadSends ==
    ASSUME TypeOK, NEW w \in Workers,
           \/ RefreshIfNeeded(w) \/ AfterRefresh(w)
           \/ \E i \in Instances : StartRequest(w, i) \/ StartRefresh(w, i)
    PROVE  \E r \in WorkerState :
             Moves(w, r) /\ (r.pc = "call" => Reread(w) /\ r.snap = account.gen)
<1>1. CASE Reread(w)
  BY <1>1, RereadMoves DEF Returns
<1>2. CASE \E i \in Instances : StartRequest(w, i) \/ StartRefresh(w, i)
  <2>1. PICK r \in WorkerState : Moves(w, r) /\ r.pc = "mutex"
    BY <1>2, StartMoves
  <2> QED BY <2>1
<1>3. CASE LockLocal(w) \/ LockFails(w) \/ AcquireRefreshLock(w)
  <2>1. PICK r \in WorkerState : Moves(w, r) /\ r.pc \in {"lock", "reread"}
    BY <1>3, LockLocalMoves, LockFailsMoves, AcquireMoves
  <2> QED BY <2>1
<1>4. CASE WaitTimesOut(w) \/ ReleaseRefreshLock(w) \/ AfterRefresh(w)
  <2>1. PICK r \in WorkerState : Moves(w, r) /\ Leaves(w, r)
    BY <1>4, WaitTimesOutMoves, ReleaseMoves, AfterMoves
  <2> QED BY <2>1 DEF Leaves
<1>5. CASE LockHeld(w) \/ TryRecoverFromRefreshRace(w) \/ Persist(w)
  <2>1. PICK r \in WorkerState : Moves(w, r) /\ Returns(w, r)
    BY <1>5, LockHeldMoves, RecoverMoves, PersistMoves
  <2> QED BY <2>1 DEF Returns
<1>6. CASE Refresh(w)
  <2>1. PICK r \in WorkerState : Moves(w, r) /\ r.pc \in {"release", "recover", "persist"}
    BY <1>6, RefreshMoves DEF Returns
  <2> QED BY <2>1
<1> QED BY <1>1, <1>2, <1>3, <1>4, <1>5, <1>6 DEF RefreshIfNeeded

\* Under the lock what the database holds is good, because nobody else is about
\* to store something, and nobody else can spend it before the call does.
LEMMA SentStep ==
    ASSUME TypeOK, OneRefresher, TokenInv, SentInv, [Next]_vars
    PROVE  SentInv'
<1>1. (admin.pc = "idle" => admin.task = "none")'
  <2>1. CASE AdminStep \/ AdminDies \/ \E t \in Tasks : StartAdmin(t)
    <3>1. ASSUME NEW t \in Tasks, StartAdmin(t) PROVE admin'.pc # "idle"
      BY <3>1, TokenRefreshAssumption DEF StartAdmin, FirstStep, Task, TypeOK, AdminState
    <3>2. CASE Login \/ ReadForManualRefresh \/ UpdateAccountRead \/ ClearAccountError \/ AdminDies
      BY <3>2 DEF Login, ReadForManualRefresh, UpdateAccountRead, ClearAccountError, AdminDies,
         AdminEnds, TypeOK, AdminState
    <3>3. CASE RefreshManually \/ UpdateAccountWrite
      BY <3>3 DEF RefreshManually, UpdateAccountWrite, AdminEnds, AdminGoto, TypeOK, AdminState
    <3> QED BY <2>1, <3>1, <3>2, <3>3 DEF AdminStep
  <2>2. CASE UNCHANGED admin
    BY <2>2 DEF SentInv
  <2>3. ASSUME NEW w \in Workers,
               \/ RefreshIfNeeded(w) \/ AfterRefresh(w)
               \/ \E i \in Instances : StartRequest(w, i) \/ StartRefresh(w, i)
        PROVE  UNCHANGED admin
    BY <2>3 DEF RefreshIfNeeded, AfterRefresh, LockLocal, WaitTimesOut, AcquireRefreshLock,
       LockHeld, LockFails, Reread, Refresh, TryRecoverFromRefreshRace, Persist,
       ReleaseRefreshLock, SetError, SetTempUnschedulable, PostRefreshActions,
       StartRequest, StartRefresh
  <2>4. CASE \/ TimePasses \/ CooldownEnds \/ LockExpires \/ UNCHANGED vars
             \/ ProviderRevokes \/ \E i \in Instances : InstanceDies(i)
    BY <2>2, <2>4 DEF TimePasses, CooldownEnds, LockExpires, vars, ProviderRevokes, InstanceDies
  <2> QED BY <2>1, <2>2, <2>3, <2>4 DEF Next
<1>2. ASSUME ~impaired', ~loss', admin'.task # "manual", NEW v \in Workers, At(v, "call")'
      PROVE  worker'[v].snap \in valid'
  <2>1. ~impaired /\ ~loss
    BY <1>2, FaultsStay
  <2>2. ASSUME NEW w \in Workers, At(w, "call"), admin.task # "manual" PROVE worker[w].snap \in valid
    BY <2>1, <2>2 DEF SentInv, SentOnce
  <2>3. ASSUME NEW w \in Workers,
               \/ RefreshIfNeeded(w) \/ AfterRefresh(w)
               \/ \E i \in Instances : StartRequest(w, i) \/ StartRefresh(w, i)
        PROVE  worker'[v].snap \in valid'
    <3>0. admin.task # "manual"
      BY <1>2, <2>3 DEF RefreshIfNeeded, AfterRefresh, LockLocal, WaitTimesOut, AcquireRefreshLock,
         LockHeld, LockFails, Reread, Refresh, TryRecoverFromRefreshRace, Persist,
         ReleaseRefreshLock, SetError, SetTempUnschedulable, PostRefreshActions,
         StartRequest, StartRefresh
    <3>1. PICK r \in WorkerState :
            Moves(w, r) /\ (r.pc = "call" => Reread(w) /\ r.snap = account.gen)
      BY <2>3, OnlyRereadSends
    <3>2. worker'[w] = r /\ \A u \in Workers : u # w => worker'[u] = worker[u]
      BY <3>1, MovesOne
    <3>3. CASE v = w
      <4>1. Reread(w) /\ worker'[v].snap = account.gen
        BY <1>2, <3>1, <3>2, <3>3 DEF At
      <4>2. ~\E u \in Workers : At(u, "persist")
        <5>1. Refreshing(w) /\ ~At(w, "persist")
          BY <4>1 DEF Reread, At, Refreshing
        <5> QED BY <2>1, <5>1 DEF OneRefresher, At, Refreshing
      <4>3. account.gen \in valid
        BY <2>1, <3>0, <4>2 DEF TokenInv, TokenIsKept
      <4> QED BY <4>1, <4>3 DEF Reread, provider
    <3>4. CASE v # w
      <4>1. At(v, "call") /\ worker'[v] = worker[v]
        BY <1>2, <3>2, <3>4 DEF At
      <4>2. worker[v].snap \in valid
        BY <2>2, <3>0, <4>1
      <4>3. ~Refresh(w)
        <5>1. ~At(w, "call")
          BY <2>1, <3>4, <4>1 DEF OneRefresher, At, Refreshing
        <5> QED BY <5>1 DEF Refresh
      <4>4. UNCHANGED valid
        BY <2>3, <4>3 DEF RefreshIfNeeded, AfterRefresh, LockLocal, WaitTimesOut,
           AcquireRefreshLock, LockHeld, LockFails, Reread, TryRecoverFromRefreshRace, Persist,
           ReleaseRefreshLock, SetError, SetTempUnschedulable, PostRefreshActions,
           StartRequest, StartRefresh, provider
      <4> QED BY <4>1, <4>2, <4>4
    <3> QED BY <3>3, <3>4
  <2>4. CASE AdminStep \/ AdminDies \/ \E t \in Tasks : StartAdmin(t)
    <3>1. UNCHANGED worker /\ admin.task # "manual"
      BY <1>2, <2>4 DEF AdminStep, Login, ReadForManualRefresh, RefreshManually,
         UpdateAccountRead, UpdateAccountWrite, ClearAccountError, AdminDies, AdminGoto, AdminEnds,
         StartAdmin, SentInv, TypeOK, AdminState
    <3>2. ~RefreshManually
      BY <3>1 DEF RefreshManually, TokenInv, AdminInv
    <3>3. valid \subseteq valid'
      BY <2>4, <3>2 DEF AdminStep, Login, ReadForManualRefresh,
         UpdateAccountRead, UpdateAccountWrite, ClearAccountError, AdminDies,
         StartAdmin, provider
    <3> QED BY <1>2, <2>2, <3>1, <3>3 DEF At
  <2>5. CASE TimePasses \/ CooldownEnds \/ LockExpires \/ UNCHANGED vars
    BY <1>2, <2>2, <2>5 DEF TimePasses, CooldownEnds, LockExpires, provider, vars, At
  <2>6. ASSUME NEW i \in Instances, InstanceDies(i) PROVE worker'[v].snap \in valid'
    <3>1. worker'[v] = worker[v] /\ UNCHANGED <<valid, admin>>
      BY <1>2, <2>6, IdleType DEF InstanceDies, provider, At
    <3> QED BY <1>2, <2>2, <3>1 DEF At
  <2>7. ~ProviderRevokes
    BY <1>2 DEF ProviderRevokes, Loses
  <2> QED BY <2>3, <2>4, <2>5, <2>6, <2>7 DEF Next
<1> QED BY <1>1, <1>2 DEF SentInv, SentOnce

\* While the lock protects the calls and nothing was lost, no call sends a
\* refresh token that was consumed.
THEOREM TokenSentOnce == Spec => []SentOnce
<1>1. Init => SentInv
  BY IdleType DEF Init, SentInv, SentOnce, At
<1>2. TypeOK /\ OneRefresher /\ TokenInv /\ SentInv /\ [Next]_vars => SentInv'
  BY SentStep
<1>3. SentInv => SentOnce
  BY DEF SentInv
<1> QED BY <1>1, <1>2, <1>3, TypeCorrect, RefreshersExclude, TokenInvariance, PTL DEF Spec
=============================================================================
