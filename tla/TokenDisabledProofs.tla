------------------------ MODULE TokenDisabledProofs ------------------------
(***************************************************************************)
(* Machine-checked proof that TokenRefresh disables an account only when   *)
(* its refresh token is dead, for every set of workers and processes, any  *)
(* number of attempts, rotations and faults.                               *)
(***************************************************************************)
EXTENDS TokenRefreshProofs

\* A call that was refused and may disable the account.
Doomed(r) == r.pc \in {"recover", "setError"} \/ (r.pc = "release" /\ r.then = "setError")

\* An edit that will write back what it has read.
Editing == admin.task = "edit" /\ admin.pc = "write"

\* The account is disabled or may become so.
Doom ==
    \/ \E w \in Workers : Doomed(worker[w])
    \/ account.status = "error"
    \/ Editing /\ admin.status = "error"

\* Nobody has good credentials or will get them.
Blind ==
    /\ account.gen \notin valid
    /\ \A w \in Workers : ~At(w, "persist") /\ (At(w, "call") => worker[w].snap \notin valid)
    /\ Editing => admin.got \notin valid

\* Unless the administrator logs in or refreshes, one credential at most is
\* good: the one in the database, which all read, or the one about to be stored.
ChainInv ==
    ~impaired /\ admin.task \in {"none", "edit"} =>
      /\ \A g, h \in valid : g = h
      /\ \A w \in Workers :
           /\ At(w, "persist") => \A g \in valid : g = worker[w].got /\ g # account.gen
           /\ At(w, "call") => worker[w].snap = account.gen \/ account.gen \notin valid
      /\ Editing /\ admin.got \in valid => account.gen = admin.got
      /\ Doom => Blind

\* Grok accounts change only if they still have the credentials the call read.
GrokInv ==
    ~impaired /\ platform = "grok" /\ admin.task \in {"none", "reauth"} =>
      /\ \A w \in Workers : Doomed(worker[w]) =>
           /\ worker[w].snap \notin valid
           /\ \A v \in Workers : At(v, "persist") => worker[v].snap # worker[w].snap
      /\ account.status = "error" /\ admin.pc \notin {"clear", "failed"} =>
           /\ account.gen \notin valid
           /\ \A v \in Workers : At(v, "persist") => worker[v].snap # account.gen

BeganInv == admin.task = "none" <=> admin.pc = "idle"

DisabledInv == BeganInv /\ ChainInv /\ GrokInv

-----------------------------------------------------------------------------
(* What a step of a call does to the credentials, and whom it dooms.        *)

Same == valid' = valid /\ issued' = issued

SameAccount == account'.gen = account.gen /\ account'.status = account.status

Quiet(w, r) ==
    /\ Same /\ SameAccount
    /\ r.pc \notin {"call", "persist"}
    /\ Doomed(r) => Doomed(worker[w]) /\ r.snap = worker[w].snap

Sends(w, r) ==
    /\ At(w, "reread") /\ Same /\ SameAccount
    /\ r.pc = "call" /\ r.snap = account.gen

Rotates(w, r) ==
    /\ At(w, "call") /\ Exchange(worker[w].snap) /\ SameAccount
    /\ \/ r.pc = "persist" /\ r.got = issued /\ r.snap = worker[w].snap
       \/ r.pc = "release" /\ ~Doomed(r)

Refused(w, r) ==
    /\ At(w, "call") /\ worker[w].snap \notin valid /\ Same /\ SameAccount
    /\ r.pc = "recover" /\ r.snap = worker[w].snap

Stores(w, r) ==
    /\ At(w, "persist") /\ Same
    /\ account'.gen = worker[w].got /\ account'.status = account.status
    /\ platform = "grok" => account.gen = worker[w].snap
    /\ r.pc = "release" /\ ~Doomed(r)

Disables(w, r) ==
    /\ At(w, "setError") /\ Same
    /\ account'.gen = account.gen /\ account'.status = "error"
    /\ platform = "grok" => account.gen = worker[w].snap
    /\ r.pc = "idle"

LEMMA ContinueThen ==
    ASSUME TypeOK, NEW w \in Workers, NEW then \in Then, Continue(w, then)
    PROVE  \E r \in WorkerState :
             /\ Moves(w, r) /\ r.pc \in {"idle", "mutex", "exhausted", "setError", "sync"}
             /\ r.pc = "setError" => then = "setError" /\ r.snap = worker[w].snap
<1> DEFINE s == worker[w]
<1>0. s \in WorkerState
  BY DEF TypeOK
<1>1. CASE then = "done"
  <2>1. Moves(w, Idle)
    BY <1>1 DEF Continue, Moves
  <2> QED BY <2>1, IdleType
<1>2. CASE then = "retry"
  <2>1. PICK r \in WorkerState : /\ worker' = [worker EXCEPT ![w] = r]
                                 /\ r.pc \in {"idle", "mutex", "exhausted", "setError", "sync"}
    BY <1>2, ContinueMoves DEF TypeOK
  <2>2. CASE MayRetry(w)
    <3> DEFINE q == [s EXCEPT !.pc = "mutex", !.locked = FALSE, !.attempt = @ + 1]
    <3>1. worker' = [worker EXCEPT ![w] = q]
      BY <1>2, <2>2 DEF Continue
    <3>2. r = q
      BY <2>1, <3>1 DEF TypeOK
    <3>3. q.pc = "mutex"
      BY <1>0 DEF WorkerState
    <3> QED BY <2>1, <3>2, <3>3 DEF Moves
  <2>3. CASE ~MayRetry(w)
    <3> DEFINE q == [s EXCEPT !.pc = "exhausted", !.locked = FALSE]
    <3>1. worker' = [worker EXCEPT ![w] = q]
      BY <1>2, <2>3 DEF Continue
    <3>2. q \in WorkerState /\ q.pc = "exhausted"
      BY <1>0 DEF WorkerState, WorkerPc
    <3> QED BY <3>1, <3>2 DEF Moves
  <2> QED BY <2>2, <2>3
<1>3. CASE then \in {"setError", "sync"}
  <2> DEFINE r == [s EXCEPT !.pc = then, !.locked = FALSE]
  <2>1. worker' = [worker EXCEPT ![w] = r]
    BY <1>3 DEF Continue
  <2>2. r \in WorkerState /\ r.pc = then /\ r.snap = s.snap
    BY <1>0, <1>3 DEF WorkerState, WorkerPc
  <2> QED BY <2>1, <2>2, <1>3 DEF Moves
<1> QED BY <1>1, <1>2, <1>3 DEF Then

LEMMA ReturnThen ==
    ASSUME TypeOK, NEW w \in Workers, NEW then \in Then, Return(w, then)
    PROVE  \E r \in WorkerState :
             /\ Moves(w, r) /\ r.pc = "release" /\ r.then = then
             /\ then = "setError" => r.snap = worker[w].snap
<1> DEFINE s == worker[w]
           r == [s EXCEPT !.pc = "release", !.then = then, !.got = 0,
                          !.snap = IF then = "done" THEN 0 ELSE @]
<1>1. s \in WorkerState
  BY DEF TypeOK
<1>2. r \in WorkerState
  BY <1>1 DEF WorkerState, WorkerPc, Then
<1>3. Moves(w, r)
  BY DEF Return, Moves
<1>4. r.pc = "release" /\ r.then = then /\ (then = "setError" => r.snap = s.snap)
  BY <1>1 DEF WorkerState
<1> QED BY <1>2, <1>3, <1>4

\* A return that does not lead to SetError, while nothing else changes.
LEMMA QuietReturn ==
    ASSUME TypeOK, NEW w \in Workers, NEW then \in Then \ {"setError"}, Return(w, then)
    PROVE  \E r \in WorkerState : Moves(w, r) /\ r.pc = "release" /\ ~Doomed(r)
<1>1. PICK r \in WorkerState : Moves(w, r) /\ r.pc = "release" /\ r.then = then
  BY ReturnThen
<1> QED BY <1>1 DEF Doomed

LEMMA FailureThen ==
    ASSUME NEW w \in Workers
    PROVE  AfterFailure(w) \in Then \ {"setError"} /\ "done" \in Then \ {"setError"}
BY DEF AfterFailure, Then

LEMMA RefreshActs ==
    ASSUME TypeOK, NEW w \in Workers, Refresh(w)
    PROVE  \E r \in WorkerState : Moves(w, r) /\ (Quiet(w, r) \/ Rotates(w, r) \/ Refused(w, r))
<1>0. At(w, "call") /\ SameAccount
  BY DEF Refresh, SameAccount
<1>1. CASE Return(w, AfterFailure(w))
  <2>1. PICK r \in WorkerState : Moves(w, r) /\ r.pc = "release" /\ ~Doomed(r)
    BY <1>1, FailureThen, QuietReturn
  <2>2. Exchange(worker[w].snap) \/ Same
    BY DEF Refresh, provider, Same
  <2> QED BY <1>0, <2>1, <2>2 DEF Quiet, Rotates
<1>2. CASE ~Return(w, AfterFailure(w)) /\ worker[w].snap \notin valid
  <2>1. Goto(w, "recover") /\ Same
    BY <1>2 DEF Refresh, Exchange, provider, Same
  <2>2. PICK r \in WorkerState : Moves(w, r) /\ r.pc = "recover" /\ r.snap = worker[w].snap
    BY <2>1, GotoMoves DEF TypeOK, WorkerPc, Moves
  <2> QED BY <1>0, <1>2, <2>1, <2>2 DEF Refused
<1>3. CASE ~Return(w, AfterFailure(w)) /\ worker[w].snap \in valid
  <2> DEFINE r == [worker[w] EXCEPT !.pc = "persist", !.got = issued]
  <2>1. Moves(w, r) /\ Exchange(worker[w].snap)
    BY <1>3 DEF Refresh, Moves
  <2>2. worker[w] \in WorkerState /\ issued \in Nat
    BY DEF TypeOK
  <2>3. r \in WorkerState /\ r.pc = "persist" /\ r.got = issued /\ r.snap = worker[w].snap
    BY <2>2 DEF WorkerState, WorkerPc
  <2> QED BY <1>0, <2>1, <2>3 DEF Rotates
<1> QED BY <1>1, <1>2, <1>3

LEMMA PersistActs ==
    ASSUME TypeOK, NEW w \in Workers, Persist(w)
    PROVE  \E r \in WorkerState : Moves(w, r) /\ (Quiet(w, r) \/ Stores(w, r))
<1>1. \E then \in Then \ {"setError"} : Return(w, then)
  BY FailureThen DEF Persist, Then
<1>2. PICK r \in WorkerState : Moves(w, r) /\ r.pc = "release" /\ ~Doomed(r)
  BY <1>1, QuietReturn
<1>3. Same /\ At(w, "persist")
  BY DEF Persist, provider, Same
<1>4. CASE account' = account
  BY <1>2, <1>3, <1>4 DEF Quiet, SameAccount
<1>5. CASE account' # account
  <2>1. MayPersist(w) /\ account' = [account EXCEPT !.gen = worker[w].got]
    BY <1>5 DEF Persist, MergeCredentials
  <2>2. account'.gen = worker[w].got /\ account'.status = account.status
    BY <2>1 DEF TypeOK
  <2> QED BY <1>2, <1>3, <2>1, <2>2 DEF Stores, MayPersist, Unchanged
<1> QED BY <1>4, <1>5

LEMMA WorkerActs ==
    ASSUME TypeOK, NEW w \in Workers,
           \/ RefreshIfNeeded(w) \/ AfterRefresh(w)
           \/ \E i \in Instances : StartRequest(w, i) \/ StartRefresh(w, i)
    PROVE  /\ UNCHANGED <<platform, admin>>
           /\ \E r \in WorkerState :
                /\ Moves(w, r)
                /\ \/ Quiet(w, r) \/ Sends(w, r) \/ Rotates(w, r)
                   \/ Refused(w, r) \/ Stores(w, r) \/ Disables(w, r)
<1>0. UNCHANGED <<platform, admin>>
  BY DEF RefreshIfNeeded, AfterRefresh, LockLocal, WaitTimesOut, AcquireRefreshLock,
     LockHeld, LockFails, Reread, Refresh, TryRecoverFromRefreshRace, Persist,
     ReleaseRefreshLock, SetError, SetTempUnschedulable, PostRefreshActions,
     StartRequest, StartRefresh
<1>1. CASE \E i \in Instances : StartRequest(w, i) \/ StartRefresh(w, i)
  <2>1. PICK r \in WorkerState : Moves(w, r) /\ r.pc = "mutex"
    BY <1>1, StartMoves
  <2>2. Same /\ SameAccount
    BY <1>1 DEF StartRequest, StartRefresh, provider, Same, SameAccount
  <2> QED BY <1>0, <2>1, <2>2 DEF Quiet, Doomed
<1>2. CASE LockLocal(w) \/ LockFails(w) \/ AcquireRefreshLock(w)
  <2>1. PICK r \in WorkerState : Moves(w, r) /\ r.pc \in {"lock", "reread"}
    BY <1>2, LockLocalMoves, LockFailsMoves, AcquireMoves
  <2>2. Same /\ SameAccount
    BY <1>2 DEF LockLocal, LockFails, AcquireRefreshLock, provider, Same, SameAccount
  <2> QED BY <1>0, <2>1, <2>2 DEF Quiet, Doomed
<1>3. CASE WaitTimesOut(w)
  <2>1. PICK r \in WorkerState :
          /\ Moves(w, r) /\ r.pc \in {"idle", "mutex", "exhausted", "setError", "sync"}
          /\ r.pc # "setError"
    BY <1>3, FailureThen, ContinueThen DEF WaitTimesOut
  <2>2. Same /\ SameAccount
    BY <1>3 DEF WaitTimesOut, provider, Same, SameAccount
  <2> QED BY <1>0, <2>1, <2>2 DEF Quiet, Doomed
<1>4. CASE LockHeld(w)
  <2>1. PICK r \in WorkerState : Moves(w, r) /\ r.pc = "release" /\ ~Doomed(r)
    BY <1>4, FailureThen, QuietReturn DEF LockHeld
  <2>2. Same /\ SameAccount
    BY <1>4 DEF LockHeld, provider, Same, SameAccount
  <2> QED BY <1>0, <2>1, <2>2 DEF Quiet
<1>5. CASE Reread(w)
  <2>1. Same /\ SameAccount /\ At(w, "reread")
    BY <1>5 DEF Reread, provider, Same, SameAccount
  <2>2. CASE worker' = [worker EXCEPT ![w].pc = "call", ![w].snap = account.gen]
    <3> DEFINE r == [worker[w] EXCEPT !.pc = "call", !.snap = account.gen]
    <3>1. Moves(w, r)
      BY <2>2 DEF Moves
    <3>2. worker[w] \in WorkerState /\ account.gen \in Nat
      BY DEF TypeOK
    <3>3. r \in WorkerState /\ r.pc = "call" /\ r.snap = account.gen
      BY <3>2 DEF WorkerState, WorkerPc
    <3> QED BY <1>0, <2>1, <3>1, <3>3 DEF Sends
  <2>3. CASE Return(w, "done") \/ Return(w, AfterFailure(w))
    <3>1. PICK r \in WorkerState : Moves(w, r) /\ r.pc = "release" /\ ~Doomed(r)
      BY <2>3, FailureThen, QuietReturn
    <3> QED BY <1>0, <2>1, <3>1 DEF Quiet
  <2> QED BY <1>5, <2>2, <2>3 DEF Reread
<1>6. CASE Refresh(w)
  BY <1>0, <1>6, RefreshActs
<1>7. CASE TryRecoverFromRefreshRace(w)
  <2>1. PICK then \in Then : Return(w, then)
    BY <1>7, AfterType DEF TryRecoverFromRefreshRace
  <2>2. PICK r \in WorkerState : /\ Moves(w, r) /\ r.pc = "release" /\ r.then = then
                                 /\ then = "setError" => r.snap = worker[w].snap
    BY <2>1, ReturnThen
  <2>3. Same /\ SameAccount /\ Doomed(worker[w])
    BY <1>7 DEF TryRecoverFromRefreshRace, provider, Same, SameAccount, At, Doomed
  <2> QED BY <1>0, <2>2, <2>3 DEF Quiet, Doomed
<1>8. CASE Persist(w)
  BY <1>0, <1>8, PersistActs
<1>9. CASE ReleaseRefreshLock(w)
  <2>1. worker[w].then \in Then /\ worker[w].pc = "release"
    BY <1>9 DEF TypeOK, WorkerState, Then, ReleaseRefreshLock, At
  <2>2. PICK r \in WorkerState :
          /\ Moves(w, r) /\ r.pc \in {"idle", "mutex", "exhausted", "setError", "sync"}
          /\ r.pc = "setError" => worker[w].then = "setError" /\ r.snap = worker[w].snap
    BY <1>9, <2>1, ContinueThen DEF ReleaseRefreshLock
  <2>3. Same /\ SameAccount
    BY <1>9 DEF ReleaseRefreshLock, provider, Same, SameAccount
  <2> QED BY <1>0, <2>1, <2>2, <2>3 DEF Quiet, Doomed
<1>10. CASE AfterRefresh(w)
  <2>1. Moves(w, Idle) /\ Same
    BY <1>10 DEF AfterRefresh, SetError, SetTempUnschedulable, PostRefreshActions, End, Moves,
       provider, Same
  <2>2. ~Doomed(Idle) /\ Idle.pc = "idle" /\ Idle \in WorkerState
    BY IdleType DEF Doomed
  <2>3. CASE SameAccount
    BY <1>0, <2>1, <2>2, <2>3 DEF Quiet
  <2>4. CASE ~SameAccount
    <3>1. SetError(w) /\ MayDisable(w) /\ account' = [account EXCEPT !.status = "error"]
      BY <1>10, <2>4 DEF AfterRefresh, SetError, SetTempUnschedulable, PostRefreshActions,
         SameAccount, TypeOK
    <3>2. account'.gen = account.gen /\ account'.status = "error"
      BY <3>1 DEF TypeOK
    <3>3. At(w, "setError") /\ (platform = "grok" => account.gen = worker[w].snap)
      BY <3>1 DEF SetError, MayDisable, Unchanged
    <3> QED BY <1>0, <2>1, <2>2, <3>2, <3>3 DEF Disables
  <2> QED BY <2>3, <2>4
<1> QED BY <1>1, <1>2, <1>3, <1>4, <1>5, <1>6, <1>7, <1>8, <1>9, <1>10 DEF RefreshIfNeeded

-----------------------------------------------------------------------------
(* Steps of calls keep the invariants.                                      *)

\* One call at a time between its read and its write.
LEMMA AloneRefreshing ==
    ASSUME OneRefresher, ~impaired, NEW w \in Workers, NEW v \in Workers, v # w,
           worker[w].pc \in {"reread", "call", "persist"}
    PROVE  worker[v].pc \notin {"reread", "call", "persist"}
BY DEF OneRefresher, Refreshing

\* Good credentials that are rotated, by the only one who could send them.
LEMMA ChainRotates ==
    ASSUME TypeOK, OneRefresher, NumberInv, ChainInv, ~impaired,
           admin.task \in {"none", "edit"}, UNCHANGED admin,
           NEW w \in Workers, NEW r \in WorkerState, Moves(w, r), Rotates(w, r)
    PROVE  ChainInv'
<1>1. /\ worker'[w] = r /\ \A v \in Workers : v # w => worker'[v] = worker[v]
  BY MovesOne
<1>2. /\ At(w, "call") /\ worker[w].snap \in valid
      /\ valid' = (valid \ {worker[w].snap}) \cup {issued}
      /\ SameAccount
  BY DEF Rotates, Exchange
<1>3. \A g \in valid : g = worker[w].snap
  BY <1>2 DEF ChainInv
<1>4. valid' = {issued}
  BY <1>2, <1>3
<1>5. \A v \in Workers : v # w => ~At(v, "call") /\ ~At(v, "persist")
  BY <1>2, AloneRefreshing DEF At
<1>6. account'.gen # issued /\ (admin.got \in valid' => FALSE)
  BY <1>2, <1>4 DEF NumberInv, SameAccount, TypeOK, AdminState
<1>7. ~Doom
  BY <1>2 DEF ChainInv, Blind
<1>8. ~Doom'
  <2>1. ~Doomed(r)
    BY DEF Rotates, Doomed
  <2> QED BY <1>1, <1>2, <1>7, <2>1 DEF Doom, Editing, SameAccount
<1>9. ASSUME NEW v \in Workers
      PROVE  /\ At(v, "persist")' => \A g \in valid' : g = worker'[v].got /\ g # account'.gen
             /\ ~At(v, "call")'
  <2>1. CASE v = w
    BY <1>1, <1>4, <1>6, <2>1 DEF At, Rotates
  <2>2. CASE v # w
    BY <1>1, <1>5, <2>2 DEF At
  <2> QED BY <2>1, <2>2
<1> QED BY <1>4, <1>6, <1>8, <1>9 DEF ChainInv, Editing

\* Who stores what was rotated does so while nobody else refreshes.
LEMMA ChainStores ==
    ASSUME TypeOK, OneRefresher, ChainInv, ~impaired,
           admin.task \in {"none", "edit"}, UNCHANGED admin,
           NEW w \in Workers, NEW r \in WorkerState, Moves(w, r), Stores(w, r)
    PROVE  ChainInv'
<1>1. /\ worker'[w] = r /\ \A v \in Workers : v # w => worker'[v] = worker[v]
  BY MovesOne
<1>2. /\ At(w, "persist") /\ valid' = valid
      /\ account'.gen = worker[w].got /\ account'.status = account.status
      /\ r.pc = "release" /\ ~Doomed(r)
  BY DEF Stores, Same
<1>3. \A v \in Workers : v # w => ~At(v, "call") /\ ~At(v, "persist")
  BY <1>2, AloneRefreshing DEF At
<1>4. \A v \in Workers : ~At(v, "call")' /\ ~At(v, "persist")'
  BY <1>1, <1>2, <1>3 DEF At
<1>5. ~Doom
  BY <1>2 DEF ChainInv, Blind
<1>6. ~Doom'
  BY <1>1, <1>2, <1>5 DEF Doom, Editing
<1>7. admin.got \in valid => account'.gen = admin.got
  BY <1>2 DEF ChainInv
<1> QED BY <1>2, <1>4, <1>6, <1>7 DEF ChainInv, Editing

\* The other steps leave the credentials alone.
LEMMA ChainStays ==
    ASSUME TypeOK, OneRefresher, ChainInv, ~impaired,
           admin.task \in {"none", "edit"}, UNCHANGED admin,
           NEW w \in Workers, NEW r \in WorkerState, Moves(w, r),
           Quiet(w, r) \/ Sends(w, r) \/ Refused(w, r) \/ Disables(w, r)
    PROVE  ChainInv'
<1>1. /\ worker'[w] = r /\ \A v \in Workers : v # w => worker'[v] = worker[v]
  BY MovesOne
<1>2. valid' = valid /\ account'.gen = account.gen /\ r.pc # "persist"
  BY DEF Quiet, Sends, Refused, Disables, Same, SameAccount
<1>3. \A v \in Workers : At(v, "persist")' => At(v, "persist") /\ worker'[v] = worker[v]
  BY <1>1, <1>2 DEF At
<1>4. ASSUME NEW v \in Workers, At(v, "call")'
      PROVE  \/ worker'[v].snap = account.gen
             \/ At(v, "call") /\ worker'[v].snap = worker[v].snap
  <2>1. CASE v = w
    BY <1>1, <1>4, <2>1 DEF At, Quiet, Sends, Refused, Disables
  <2>2. CASE v # w
    BY <1>1, <1>4, <2>2 DEF At
  <2> QED BY <2>1, <2>2
<1>5. Blind => Blind'
  BY <1>2, <1>3, <1>4 DEF Blind, Editing
<1>6. ASSUME Doom' PROVE Blind
  <2>1. CASE Doom
    BY <2>1 DEF ChainInv
  <2>2. CASE ~Doom
    <3>1. Refused(w, r)
      <4>1. ~Quiet(w, r)
        BY <1>1, <1>6, <2>2 DEF Quiet, SameAccount, Doom, Editing
      <4>2. ~Sends(w, r)
        BY <1>1, <1>6, <2>2 DEF Sends, SameAccount, Doom, Editing, Doomed
      <4>3. ~Disables(w, r)
        BY <2>2 DEF Disables, Doom, Doomed, At
      <4> QED BY <4>1, <4>2, <4>3
    <3>2. account.gen \notin valid
      BY <3>1 DEF Refused, ChainInv
    <3>3. \A v \in Workers : v # w => ~At(v, "call") /\ ~At(v, "persist")
      BY <3>1, AloneRefreshing DEF Refused, At
    <3>4. ~At(w, "persist") /\ worker[w].snap \notin valid
      BY <3>1 DEF Refused, At
    <3>5. Editing => admin.got \notin valid
      BY <3>2 DEF ChainInv
    <3> QED BY <3>2, <3>3, <3>4, <3>5 DEF Blind
  <2> QED BY <2>1, <2>2
<1> QED BY <1>2, <1>3, <1>4, <1>5, <1>6 DEF ChainInv, Editing

LEMMA GrokKeeps ==
    ASSUME TypeOK, OneRefresher, NumberInv, GrokInv, ~impaired,
           platform = "grok", admin.task \in {"none", "reauth"}, UNCHANGED <<platform, admin>>,
           NEW w \in Workers, NEW r \in WorkerState, Moves(w, r),
           \/ Quiet(w, r) \/ Sends(w, r) \/ Rotates(w, r)
           \/ Refused(w, r) \/ Stores(w, r) \/ Disables(w, r)
    PROVE  GrokInv'
<1> DEFINE Dead(g) ==
             g \notin valid /\ \A v \in Workers : At(v, "persist") => worker[v].snap # g
           DeadAfter(g) ==
             g \notin valid' /\ \A v \in Workers : At(v, "persist")' => worker'[v].snap # g
<1>1. /\ worker'[w] = r /\ \A v \in Workers : v # w => worker'[v] = worker[v]
  BY MovesOne
<1>2. ASSUME NEW g, Dead(g), g < issued PROVE DeadAfter(g)
  <2>1. g \notin valid'
    BY <1>2 DEF Quiet, Sends, Rotates, Refused, Stores, Disables, Same, Exchange, TypeOK
  <2>2. ASSUME NEW v \in Workers, At(v, "persist")' PROVE worker'[v].snap # g
    <3>1. CASE v # w
      BY <1>1, <1>2, <2>2, <3>1 DEF At
    <3>2. CASE v = w
      <4>1. Rotates(w, r)
        BY <1>1, <2>2, <3>2 DEF At, Quiet, Sends, Refused, Stores, Disables
      <4> QED BY <1>1, <1>2, <2>2, <3>2, <4>1 DEF Rotates, Exchange, At
    <3> QED BY <3>1, <3>2
  <2> QED BY <2>1, <2>2
<1>3. \A v \in Workers : Doomed(worker[v]) => Dead(worker[v].snap)
  BY DEF GrokInv
<1>4. account.status = "error" /\ admin.pc \notin {"clear", "failed"} => Dead(account.gen)
  BY DEF GrokInv
<1>5. account.gen < issued /\ \A v \in Workers : worker[v].snap < issued
  BY DEF NumberInv
<1> HIDE DEF Dead, DeadAfter
<1>6. ASSUME NEW v \in Workers, Doomed(worker'[v]) PROVE DeadAfter(worker'[v].snap)
  <2>1. Dead(worker'[v].snap) /\ worker'[v].snap < issued
    <3>1. CASE v # w
      BY <1>1, <1>3, <1>5, <1>6, <3>1
    <3>2. CASE v = w /\ Quiet(w, r)
      BY <1>1, <1>3, <1>5, <1>6, <3>2 DEF Quiet
    <3>3. CASE v = w /\ Refused(w, r)
      <4>1. worker'[v].snap = worker[w].snap
        BY <1>1, <3>3 DEF Refused
      <4>2. Dead(worker[w].snap)
        <5>1. worker[w].snap \notin valid /\ At(w, "call")
          BY <3>3 DEF Refused
        <5>2. \A u \in Workers : ~At(u, "persist")
          BY <5>1, AloneRefreshing DEF At
        <5> QED BY <5>1, <5>2 DEF Dead
      <4> QED BY <1>5, <4>1, <4>2
    <3>4. ~(v = w /\ (Sends(w, r) \/ Rotates(w, r) \/ Stores(w, r) \/ Disables(w, r)))
      BY <1>1, <1>6 DEF Sends, Rotates, Stores, Disables, Doomed
    <3> QED BY <3>1, <3>2, <3>3, <3>4
  <2> QED BY <1>2, <2>1
<1>7. ASSUME account'.status = "error", admin.pc \notin {"clear", "failed"}
      PROVE  DeadAfter(account'.gen)
  <2>1. Dead(account'.gen) /\ account'.gen < issued
    <3>1. CASE Quiet(w, r) \/ Sends(w, r) \/ Rotates(w, r) \/ Refused(w, r)
      BY <1>4, <1>5, <1>7, <3>1 DEF Quiet, Sends, Rotates, Refused, SameAccount
    <3>2. CASE Disables(w, r)
      <4>1. account'.gen = worker[w].snap /\ Doomed(worker[w])
        BY <3>2 DEF Disables, Doomed, At
      <4> QED BY <1>3, <1>5, <4>1
    <3>3. ~Stores(w, r)
      <4> SUFFICES ASSUME Stores(w, r) PROVE FALSE
        OBVIOUS
      <4>1. account.status = "error" /\ At(w, "persist") /\ account.gen = worker[w].snap
        BY <1>7 DEF Stores
      <4>2. Dead(account.gen)
        BY <1>4, <1>7, <4>1
      <4> QED BY <4>1, <4>2 DEF Dead
    <3> QED BY <3>1, <3>2, <3>3
  <2> QED BY <1>2, <2>1
<1> QED BY <1>6, <1>7 DEF GrokInv, DeadAfter, At

-----------------------------------------------------------------------------
(* The administrator, ends of processes and the provider.                   *)

\* The administrator's program counter says whether the call has begun.
LEMMA BeganStep == TypeOK /\ AdminInv /\ BeganInv /\ [Next]_vars => BeganInv'
<1> SUFFICES ASSUME TypeOK, AdminInv, BeganInv, [Next]_vars PROVE BeganInv'
  OBVIOUS
<1>1. ASSUME NEW t \in Tasks, StartAdmin(t) PROVE BeganInv'
  <2>1. t \in Task /\ FirstStep[t] # "idle"
    BY TokenRefreshAssumption DEF FirstStep, Task
  <2>2. admin' = [admin EXCEPT !.task = t, !.pc = FirstStep[t]]
    BY <1>1 DEF StartAdmin
  <2>3. admin'.task = t /\ admin'.pc = FirstStep[t]
    BY <2>2 DEF TypeOK, AdminState
  <2> QED BY <2>1, <2>3 DEF BeganInv, Task
<1>2. CASE AdminStep \/ AdminDies
  <2>1. admin.pc # "idle"
    BY <1>2 DEF AdminStep, Login, ReadForManualRefresh, RefreshManually, UpdateAccountRead,
       UpdateAccountWrite, ClearAccountError, AdminDies
  <2>2. admin'.task = admin.task /\ admin'.pc # "idle"
    <3>1. CASE Login \/ ReadForManualRefresh \/ UpdateAccountRead \/ ClearAccountError \/ AdminDies
      BY <3>1 DEF Login, ReadForManualRefresh, UpdateAccountRead, ClearAccountError, AdminDies,
         AdminEnds, TypeOK, AdminState
    <3>2. CASE RefreshManually \/ UpdateAccountWrite
      BY <3>2 DEF RefreshManually, UpdateAccountWrite, AdminEnds, AdminGoto, TypeOK, AdminState
    <3> QED BY <1>2, <3>1, <3>2 DEF AdminStep
  <2> QED BY <2>1, <2>2 DEF BeganInv
<1>3. ASSUME NEW w \in Workers,
             \/ RefreshIfNeeded(w) \/ AfterRefresh(w)
             \/ \E i \in Instances : StartRequest(w, i) \/ StartRefresh(w, i)
      PROVE  BeganInv'
  BY <1>3, WorkerActs DEF BeganInv
<1>4. CASE \/ TimePasses \/ CooldownEnds \/ LockExpires \/ UNCHANGED vars
           \/ ProviderRevokes \/ \E i \in Instances : InstanceDies(i)
  BY <1>4 DEF TimePasses, CooldownEnds, LockExpires, vars, ProviderRevokes, InstanceDies, BeganInv
<1> QED BY <1>1, <1>2, <1>3, <1>4 DEF Next

\* An edit gives back what it has read.
LEMMA ChainAdmin ==
    ASSUME TypeOK, AdminInv, BeganInv, ChainInv, ~impaired, admin'.task \in {"none", "edit"},
           AdminStep \/ AdminDies \/ \E t \in Tasks : StartAdmin(t)
    PROVE  ChainInv'
<1>1. ASSUME UNCHANGED <<worker, valid>>, SameAccount \/ ~Editing,
             admin.task \in {"none", "edit"}, account'.gen = account.gen,
             account'.status \in {"active", account.status}, ~Editing'
      PROVE  ChainInv'
  <2>1. Doom' => Doom
    BY <1>1, Zenon DEF Doom
  <2>2. Blind => Blind'
    BY <1>1 DEF Blind, At
  <2> QED BY <1>1, <2>1, <2>2 DEF ChainInv, At
<1>2. ASSUME NEW t \in Tasks, StartAdmin(t) PROVE ChainInv'
  <2>1. admin.pc = "idle" /\ admin.task = "none" /\ t \in Task
    BY <1>2, TokenRefreshAssumption DEF StartAdmin, BeganInv
  <2>2. admin'.pc = FirstStep[t]
    BY <1>2 DEF StartAdmin, TypeOK, AdminState
  <2>3. ~Editing' /\ ~Editing
    BY <2>1, <2>2 DEF FirstStep, Task, Editing
  <2> QED BY <1>1, <1>2, <2>1, <2>3 DEF StartAdmin, provider, SameAccount
<1>3. CASE Login \/ ReadForManualRefresh \/ RefreshManually
  <2>1. admin'.task = admin.task
    <3>1. CASE Login \/ ReadForManualRefresh
      BY <3>1 DEF Login, ReadForManualRefresh, TypeOK, AdminState
    <3>2. CASE RefreshManually
      BY <3>2 DEF RefreshManually, AdminEnds, TypeOK, AdminState
    <3> QED BY <1>3, <3>1, <3>2
  <2> QED BY <1>3, <2>1 DEF Login, ReadForManualRefresh, RefreshManually, AdminInv
<1>4. CASE UpdateAccountRead
  <2>1. /\ admin.pc = "read" /\ UNCHANGED <<worker, account, valid>>
        /\ admin' = [admin EXCEPT !.pc = "write", !.status = account.status,
                       !.got = IF admin.task = "edit" THEN account.gen ELSE @]
    BY <1>4 DEF UpdateAccountRead, provider
  <2>2. admin'.task = admin.task /\ admin'.status = account.status
    BY <2>1 DEF TypeOK, AdminState
  <2>3. admin.task = "edit"
    BY <2>1, <2>2 DEF BeganInv
  <2>4. admin'.got = account.gen /\ ~Editing
    BY <2>1, <2>3 DEF TypeOK, AdminState, Editing
  <2>5. Doom' => Doom
    BY <2>1, <2>2 DEF Doom
  <2>6. Blind => Blind'
    BY <2>1, <2>4 DEF Blind, At
  <2> QED BY <2>1, <2>3, <2>4, <2>5, <2>6 DEF ChainInv, At
<1>5. CASE UpdateAccountWrite
  <2>1. /\ admin.pc = "write" /\ UNCHANGED <<worker, valid>>
        /\ account' = [account EXCEPT !.gen = admin.got, !.status = admin.status]
        /\ IF admin.task = "reauth" THEN AdminGoto("clear") ELSE AdminEnds("done")
    BY <1>5 DEF UpdateAccountWrite, provider
  <2>2. account'.gen = admin.got /\ account'.status = admin.status
    BY <2>1 DEF TypeOK
  <2>3. admin'.task = admin.task /\ admin'.pc # "write"
    BY <2>1 DEF AdminGoto, AdminEnds, TypeOK, AdminState
  <2>4. Editing /\ ~Editing'
    BY <2>1, <2>3 DEF BeganInv, Editing
  <2>5. Doom' => Doom
    BY <2>1, <2>2, <2>4 DEF Doom
  <2>6. Blind => Blind'
    BY <2>1, <2>2, <2>4 DEF Blind, At
  <2>7. admin.got \in valid => account'.gen = account.gen
    BY <2>2, <2>3, <2>4 DEF ChainInv, Editing
  <2> QED BY <2>1, <2>2, <2>3, <2>4, <2>5, <2>6, <2>7 DEF ChainInv, At
<1>6. CASE ClearAccountError \/ AdminDies
  <2>1. UNCHANGED <<worker, valid>> /\ admin'.pc \in {"done", "failed"} /\ admin'.task = admin.task
    BY <1>6 DEF ClearAccountError, AdminDies, AdminEnds, provider, TypeOK, AdminState
  <2>2. /\ account'.gen = account.gen /\ account'.status \in {"active", account.status}
        /\ SameAccount \/ ~Editing
    BY <1>6 DEF ClearAccountError, AdminDies, SameAccount, Editing, TypeOK
  <2> QED BY <1>1, <2>1, <2>2 DEF Editing
<1> QED BY <1>2, <1>3, <1>4, <1>5, <1>6 DEF AdminStep

\* A new login is written and then cleared of errors; no call is doomed by it.
LEMMA GrokAdmin ==
    ASSUME TypeOK, NumberInv, AdminInv, BeganInv, GrokInv, ~impaired, platform = "grok",
           admin'.task \in {"none", "reauth"},
           AdminStep \/ AdminDies \/ \E t \in Tasks : StartAdmin(t)
    PROVE  GrokInv'
<1>1. admin.task \in {"none", "reauth"} /\ ~RefreshManually
  <2>1. ASSUME NEW t \in Tasks, StartAdmin(t) PROVE admin.task = "none"
    BY <2>1 DEF StartAdmin, BeganInv
  <2>2. ASSUME AdminStep \/ AdminDies PROVE admin'.task = admin.task
    <3>1. CASE Login \/ ReadForManualRefresh \/ UpdateAccountRead \/ ClearAccountError \/ AdminDies
      BY <3>1 DEF Login, ReadForManualRefresh, UpdateAccountRead, ClearAccountError, AdminDies,
         AdminEnds, TypeOK, AdminState
    <3>2. CASE RefreshManually \/ UpdateAccountWrite
      BY <3>2 DEF RefreshManually, UpdateAccountWrite, AdminEnds, AdminGoto, TypeOK, AdminState
    <3> QED BY <2>2, <3>1, <3>2 DEF AdminStep
  <2>3. admin.task \in {"none", "reauth"}
    BY <2>1, <2>2
  <2> QED BY <2>3 DEF RefreshManually, AdminInv
<1>2. worker' = worker /\ valid' \subseteq valid \cup {issued}
  BY <1>1 DEF AdminStep, Login, ReadForManualRefresh, UpdateAccountRead, UpdateAccountWrite,
     ClearAccountError, AdminDies, StartAdmin, provider
<1>3. ASSUME NEW w \in Workers, Doomed(worker'[w])
      PROVE  /\ worker'[w].snap \notin valid'
             /\ \A v \in Workers : At(v, "persist")' => worker'[v].snap # worker'[w].snap
  <2>1. /\ worker[w].snap \notin valid
        /\ \A v \in Workers : At(v, "persist") => worker[v].snap # worker[w].snap
    BY <1>1, <1>2, <1>3 DEF GrokInv
  <2>2. worker[w].snap < issued /\ issued \in Nat
    BY DEF NumberInv, TypeOK
  <2>3. worker[w].snap # issued
    BY <2>2
  <2> QED BY <1>2, <2>1, <2>3 DEF At
<1>4. ASSUME account'.status = "error", admin'.pc \notin {"clear", "failed"}
      PROVE  SameAccount /\ admin.pc \notin {"clear", "failed"}
  <2>1. CASE UpdateAccountWrite
    <3>1. admin.task = "reauth"
      BY <1>1, <2>1 DEF UpdateAccountWrite, BeganInv
    <3>2. admin'.pc = "clear"
      BY <2>1, <3>1 DEF UpdateAccountWrite, AdminGoto, TypeOK, AdminState
    <3> QED BY <1>4, <3>2
  <2>2. CASE ClearAccountError
    BY <1>4, <2>2 DEF ClearAccountError, TypeOK
  <2>3. CASE AdminDies
    BY <1>4, <2>3 DEF AdminDies, AdminEnds, TypeOK, AdminState
  <2>4. CASE \/ Login \/ ReadForManualRefresh \/ UpdateAccountRead
             \/ \E t \in Tasks : StartAdmin(t)
    BY <2>4 DEF Login, ReadForManualRefresh, UpdateAccountRead, StartAdmin, SameAccount
  <2> QED BY <1>1, <2>1, <2>2, <2>3, <2>4 DEF AdminStep
<1>5. ASSUME account'.status = "error", admin'.pc \notin {"clear", "failed"}
      PROVE  /\ account'.gen \notin valid'
             /\ \A v \in Workers : At(v, "persist")' => worker'[v].snap # account'.gen
  <2>1. SameAccount /\ admin.pc \notin {"clear", "failed"}
    BY <1>4, <1>5
  <2>2. /\ account.gen \notin valid
        /\ \A v \in Workers : At(v, "persist") => worker[v].snap # account.gen
    BY <1>1, <1>5, <2>1 DEF GrokInv, SameAccount
  <2>3. account.gen # issued
    BY DEF NumberInv, TypeOK
  <2> QED BY <1>2, <2>1, <2>2, <2>3 DEF At, SameAccount
<1> QED BY <1>3, <1>5 DEF GrokInv

\* Ends of processes, revocation and time leave fewer to worry about.
LEMMA OthersKeep ==
    ASSUME TypeOK, ChainInv, GrokInv, impaired => impaired',
           \/ TimePasses \/ CooldownEnds \/ LockExpires \/ UNCHANGED vars
           \/ ProviderRevokes \/ \E i \in Instances : InstanceDies(i)
    PROVE  ChainInv' /\ GrokInv'
<1>1. UNCHANGED <<platform, admin>> /\ SameAccount /\ valid' \subseteq valid
  BY DEF TimePasses, CooldownEnds, LockExpires, vars, ProviderRevokes, InstanceDies,
     provider, SameAccount, TypeOK
<1>2. \A w \in Workers : worker'[w] = worker[w] \/ worker'[w] = Idle
  BY DEF TimePasses, CooldownEnds, LockExpires, vars, ProviderRevokes, InstanceDies, TypeOK
<1>3. ~Doomed(Idle) /\ Idle.pc = "idle"
  BY IdleType DEF Doomed
<1>4. \A w \in Workers :
        /\ Doomed(worker'[w]) => worker'[w] = worker[w]
        /\ At(w, "persist")' => At(w, "persist") /\ worker'[w] = worker[w]
        /\ At(w, "call")' => At(w, "call") /\ worker'[w] = worker[w]
  BY <1>2, <1>3 DEF At
<1>5. Doom' => Doom
  BY <1>1, <1>4 DEF Doom, Editing, SameAccount
<1>6. Blind => Blind'
  BY <1>1, <1>4 DEF Blind, Editing, SameAccount
<1>7. ChainInv'
  BY <1>1, <1>4, <1>5, <1>6 DEF ChainInv, Editing, SameAccount
<1>8. GrokInv'
  BY <1>1, <1>4 DEF GrokInv, SameAccount
<1> QED BY <1>7, <1>8

LEMMA DisabledStep ==
    ASSUME TypeOK, OneRefresher, TokenInv, DisabledInv, [Next]_vars
    PROVE  DisabledInv'
<1>1. NumberInv /\ AdminInv /\ BeganInv /\ ChainInv /\ GrokInv
  BY DEF TokenInv, DisabledInv
<1>2. impaired => impaired'
  BY FaultsStay
<1>3. BeganInv'
  BY <1>1, BeganStep
<1>4. ASSUME NEW w \in Workers,
             \/ RefreshIfNeeded(w) \/ AfterRefresh(w)
             \/ \E i \in Instances : StartRequest(w, i) \/ StartRefresh(w, i)
      PROVE  ChainInv' /\ GrokInv'
  <2>1. UNCHANGED <<platform, admin>>
    BY <1>4, WorkerActs
  <2>2. PICK r \in WorkerState :
          /\ Moves(w, r)
          /\ \/ Quiet(w, r) \/ Sends(w, r) \/ Rotates(w, r)
             \/ Refused(w, r) \/ Stores(w, r) \/ Disables(w, r)
    BY <1>4, WorkerActs
  <2>3. ASSUME ~impaired, admin.task \in {"none", "edit"} PROVE ChainInv'
    BY <1>1, <2>1, <2>2, <2>3, ChainRotates, ChainStores, ChainStays
  <2>4. ASSUME ~impaired, platform = "grok", admin.task \in {"none", "reauth"} PROVE GrokInv'
    BY <1>1, <2>1, <2>2, <2>4, GrokKeeps
  <2>5. impaired' \/ admin.task \notin {"none", "edit"} => ChainInv'
    BY <2>1 DEF ChainInv
  <2>6. impaired' \/ platform # "grok" \/ admin.task \notin {"none", "reauth"} => GrokInv'
    BY <2>1 DEF GrokInv
  <2> QED BY <1>2, <2>3, <2>4, <2>5, <2>6
<1>5. CASE AdminStep \/ AdminDies \/ \E t \in Tasks : StartAdmin(t)
  <2>1. platform' = platform
    BY <1>5 DEF AdminStep, Login, ReadForManualRefresh, RefreshManually, UpdateAccountRead,
       UpdateAccountWrite, ClearAccountError, AdminDies, StartAdmin
  <2>2. ChainInv'
    <3>1. ASSUME ~impaired', admin'.task \in {"none", "edit"} PROVE ChainInv'
      BY <1>1, <1>2, <1>5, <3>1, ChainAdmin
    <3> QED BY <3>1 DEF ChainInv
  <2>3. GrokInv'
    <3>1. ASSUME ~impaired', platform' = "grok", admin'.task \in {"none", "reauth"} PROVE GrokInv'
      BY <1>1, <1>2, <1>5, <2>1, <3>1, GrokAdmin
    <3> QED BY <3>1 DEF GrokInv
  <2> QED BY <1>3, <2>2, <2>3 DEF DisabledInv
<1>6. CASE \/ TimePasses \/ CooldownEnds \/ LockExpires \/ UNCHANGED vars
           \/ ProviderRevokes \/ \E i \in Instances : InstanceDies(i)
  BY <1>1, <1>2, <1>3, <1>6, OthersKeep DEF DisabledInv
<1> QED BY <1>3, <1>4, <1>5, <1>6 DEF Next, DisabledInv

\* While the lock protects the calls an account is disabled only when its
\* refresh token is dead; for Grok even if the administrator logs in meanwhile.
THEOREM DisabledOnlyDead == Spec => []DisabledIsDead
<1>1. Init => DisabledInv
  <2> SUFFICES ASSUME Init PROVE DisabledInv
    OBVIOUS
  <2>1. /\ \A w \in Workers : worker[w].pc = "idle" /\ ~Doomed(worker[w])
        /\ account.status = "active" /\ valid = {0} /\ admin.task = "none" /\ admin.pc = "idle"
    BY IdleType DEF Init, Doomed
  <2>2. BeganInv
    BY <2>1 DEF BeganInv
  <2>3. ChainInv
    BY <2>1 DEF ChainInv, Doom, Editing, At
  <2>4. GrokInv
    BY <2>1 DEF GrokInv
  <2> QED BY <2>2, <2>3, <2>4 DEF DisabledInv
<1>2. TypeOK /\ OneRefresher /\ TokenInv /\ DisabledInv /\ [Next]_vars => DisabledInv'
  BY DisabledStep
<1>3. TypeOK /\ DisabledInv => DisabledIsDead
  <2> SUFFICES ASSUME TypeOK, DisabledInv, ~impaired, account.status = "error",
                      admin.task # "manual", account.gen \in valid
               PROVE  /\ admin.task = "reauth"
                      /\ platform = "anthropic" \/ admin.pc \in {"clear", "failed"}
    BY DEF DisabledIsDead
  <2>1. admin.task \in {"none", "edit", "reauth"} /\ platform \in {"anthropic", "grok"}
    BY TokenRefreshAssumption DEF TypeOK, AdminState, Task
  <2>2. admin.task \notin {"none", "edit"}
    BY DEF DisabledInv, ChainInv, Doom, Blind
  <2>3. platform = "anthropic" \/ admin.pc \in {"clear", "failed"}
    BY <2>1, <2>2 DEF DisabledInv, GrokInv
  <2> QED BY <2>1, <2>2, <2>3
<1> QED BY <1>1, <1>2, <1>3, TypeCorrect, RefreshersExclude, TokenInvariance, PTL DEF Spec
=============================================================================
