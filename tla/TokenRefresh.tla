---------------------------- MODULE TokenRefresh ----------------------------
(***************************************************************************)
(* OAuth credentials of one upstream account and everybody who replaces    *)
(* them: requests and the background cycle through RefreshIfNeeded, on     *)
(* several instances, and an administrator who logs in again, refreshes by *)
(* hand or edits the account.                                              *)
(*                                                                         *)
(* The provider exchanges a refresh token for new credentials once: the    *)
(* token sent is consumed.  Credentials are numbered in the order in which *)
(* the provider issued them.  Every call to Redis, to the database and to  *)
(* the provider is a step of its own.                                      *)
(***************************************************************************)
EXTENDS Integers

CONSTANTS Workers,      \* calls that may run at once
          Instances,    \* server processes
          Nobody,
          Platforms,    \* "anthropic": unconditional writes; "grok": compare and set
          Tasks,        \* what the administrator may do
          MaxDue,       \* how many credentials may come near their expiry
          MaxRetries,   \* attempts of the background refresh
          Faults, MaxFaults

FaultKind == {"redis", "db", "lost", "crash", "lapse", "revoke"}

Task == {"reauth", "manual", "edit"}

ASSUME TokenRefreshAssumption ==
    /\ Nobody \notin Workers
    /\ Instances # {}
    /\ Platforms \subseteq {"anthropic", "grok"} /\ Platforms # {}
    /\ Tasks \subseteq Task
    /\ MaxDue \in Nat
    /\ MaxRetries \in Nat \ {0}
    /\ Faults \subseteq FaultKind
    /\ MaxFaults \in Nat

VARIABLES platform,
          account,    \* the row of accounts
          valid,      \* the credentials whose refresh token the provider accepts
          issued,     \* how many credentials the provider has issued
          due,        \* credentials below this number are within the refresh window
          lock,       \* who set the key oauth:refresh_lock, which holds no owner
          mutex,      \* mutex[i]: who holds the local lock of process i
          worker,     \* worker[w]: program counter and locals of a call
          admin,      \* the same for the administrator's call
          faults,     \* how many faults have occurred
          impaired,   \* a call went on without a lock that protects it
          loss        \* credentials were lost that nobody can get back

provider == <<valid, issued, due>>
locks    == <<lock, mutex>>
faultVars == <<faults, impaired, loss>>
vars == <<platform, account, provider, locks, worker, admin, faultVars>>

-----------------------------------------------------------------------------
(* A worker.  at: the process it runs in; snap: the credentials its attempt *)
(* read; got: those the provider issued to it; locked: it acquired the lock *)
(* and will delete the key; then: what follows RefreshIfNeeded.             *)

WorkerPc == {"idle", "mutex", "lock", "reread", "call", "recover", "persist",
             "release", "setError", "exhausted", "sync"}

WorkerState ==
    [pc : WorkerPc, role : {"request", "background"}, at : Instances, locked : BOOLEAN,
     snap : Nat, got : Nat, attempt : 1..MaxRetries,
     then : {"done", "retry", "setError", "sync"}]

Starting(role, i) ==
    [pc |-> "mutex", role |-> role, at |-> i, locked |-> FALSE, snap |-> 0, got |-> 0,
     attempt |-> 1, then |-> "done"]

Idle == [Starting("background", CHOOSE i \in Instances : TRUE) EXCEPT !.pc = "idle"]

\* Between the acquisition of the lock and the end of what it protects.
Refreshing(w) == worker[w].pc \in {"reread", "call", "recover", "persist"}

InBackground(w) == worker[w].role = "background"

\* The administrator.  snap: the credentials a manual refresh sent; got: those
\* it will write; status: the one UpdateAccount read and will write back.
AdminPc == {"idle", "login", "get", "call", "read", "write", "clear", "done", "failed"}

AdminState ==
    [task : Task \cup {"none"}, pc : AdminPc, snap : Nat, got : Nat,
     status : {"active", "error"}]

TypeOK ==
    /\ platform \in Platforms
    /\ account \in [gen : Nat, status : {"active", "error"}, cooldown : BOOLEAN]
    /\ valid \subseteq Nat /\ issued \in Nat /\ due \in 0..MaxDue
    /\ lock \in Workers \cup {Nobody}
    /\ mutex \in [Instances -> Workers \cup {Nobody}]
    /\ worker \in [Workers -> WorkerState]
    /\ admin \in AdminState
    /\ faults \in 0..MaxFaults /\ impaired \in BOOLEAN /\ loss \in BOOLEAN

Init ==
    /\ platform \in Platforms
    /\ account = [gen |-> 0, status |-> "active", cooldown |-> FALSE]
    /\ valid = {0} /\ issued = 1 /\ due = 0
    /\ lock = Nobody
    /\ mutex = [i \in Instances |-> Nobody]
    /\ worker = [w \in Workers |-> Idle]
    /\ admin = [task |-> "none", pc |-> "idle", snap |-> 0, got |-> 0,
                status |-> "active"]
    /\ faults = 0 /\ impaired = FALSE /\ loss = FALSE

-----------------------------------------------------------------------------
Calm == UNCHANGED faultVars

Count(kind) == kind \in Faults /\ faults < MaxFaults /\ faults' = faults + 1

Fails(kind) == Count(kind) /\ UNCHANGED <<impaired, loss>>

\* A fault that costs the account its credentials, if costs holds.
Loses(kind, costs) == Count(kind) /\ loss' = (loss \/ costs) /\ UNCHANGED impaired

\* A fault after which a call is not protected by the lock.
Impairs(kind) == Count(kind) /\ impaired' = TRUE /\ UNCHANGED loss

At(w, pc) == worker[w].pc = pc

Goto(w, pc) == worker' = [worker EXCEPT ![w].pc = pc]

\* The call is over; what it held is forgotten.
Return(w, then) ==
    worker' = [worker EXCEPT ![w].pc = "release", ![w].then = then, ![w].got = 0,
                 ![w].snap = IF then = "done" THEN 0 ELSE @]

End(w) == worker' = [worker EXCEPT ![w] = Idle]

NeedsRefresh(g) == g < due

\* The token endpoint: token g is exchanged, once.
Exchange(g) ==
    /\ g \in valid
    /\ valid' = (valid \ {g}) \cup {issued}
    /\ issued' = issued + 1
    /\ UNCHANGED due

-----------------------------------------------------------------------------
(* Who calls RefreshIfNeeded.                                               *)

\* A request whose account, from the scheduler's snapshot, seems to need it.
StartRequest(w, i) ==
    /\ At(w, "idle")
    /\ platform = "anthropic"
    /\ due > 0
    /\ worker' = [worker EXCEPT ![w] = Starting("request", i)]
    /\ UNCHANGED <<platform, account, provider, locks, admin, faultVars>>

\* The background cycle of process i, which runs one at a time: the account is
\* on a page of candidates.
StartRefresh(w, i) ==
    /\ At(w, "idle")
    /\ \A v \in Workers : worker[v].at = i /\ ~At(v, "idle") => ~InBackground(v)
    /\ account.status = "active" /\ ~account.cooldown
    /\ NeedsRefresh(account.gen)
    /\ worker' = [worker EXCEPT ![w] = [Starting("background", i) EXCEPT !.snap = account.gen]]
    /\ UNCHANGED <<platform, account, provider, locks, admin, faultVars>>

-----------------------------------------------------------------------------
(* RefreshIfNeeded.                                                         *)

\* What follows an attempt that failed and may be repeated.
AfterFailure(w) == IF InBackground(w) THEN "retry" ELSE "done"

\* Mutant: one attempt too many.
RetriesOnceMore(w) == worker[w].attempt <= MaxRetries

MayRetry(w) == worker[w].attempt < MaxRetries

\* What the caller does when its attempt is over.
Continue(w, then) ==
    LET s == worker[w]
        next == CASE then = "done" -> Idle
                  [] then = "retry" /\ MayRetry(w) ->
                       [s EXCEPT !.pc = "mutex", !.locked = FALSE, !.attempt = @ + 1]
                  [] then = "retry" /\ ~MayRetry(w) ->
                       [s EXCEPT !.pc = "exhausted", !.locked = FALSE]
                  [] OTHER -> [s EXCEPT !.pc = then, !.locked = FALSE]
    IN  worker' = [worker EXCEPT ![w] = next]

LockLocal(w) ==
    /\ At(w, "mutex")
    /\ mutex[worker[w].at] = Nobody
    /\ mutex' = [mutex EXCEPT ![worker[w].at] = w]
    /\ Goto(w, "lock")
    /\ UNCHANGED <<platform, account, provider, lock, admin, faultVars>>

\* The attempt's time or the request is over before the process's turn comes.
WaitTimesOut(w) ==
    /\ At(w, "mutex")
    /\ mutex[worker[w].at] # Nobody
    /\ Continue(w, AfterFailure(w))
    /\ UNCHANGED <<platform, account, provider, locks, admin, faultVars>>

\* SETNX of the key.
AcquireRefreshLock(w) ==
    /\ At(w, "lock")
    /\ lock = Nobody
    /\ lock' = w
    /\ worker' = [worker EXCEPT ![w].pc = "reread", ![w].locked = TRUE]
    /\ UNCHANGED <<platform, account, provider, mutex, admin, faultVars>>

LockHeld(w) ==
    /\ At(w, "lock")
    /\ lock # Nobody
    /\ Return(w, "done")
    /\ UNCHANGED <<platform, account, provider, locks, admin, faultVars>>

\* An error of Redis, with or without the key being set: go on without a lock.
LockFails(w) ==
    /\ At(w, "lock")
    /\ Impairs("redis")
    /\ lock' \in {lock, IF lock = Nobody THEN w ELSE lock}
    /\ Goto(w, "reread")
    /\ UNCHANGED <<platform, account, provider, mutex, admin>>

Reread(w) ==
    /\ At(w, "reread")
    /\ \/ /\ account.status = "active" /\ NeedsRefresh(account.gen)
          /\ worker' = [worker EXCEPT ![w].pc = "call", ![w].snap = account.gen]
          /\ Calm
       \/ /\ account.status # "active" \/ ~NeedsRefresh(account.gen)
          /\ Return(w, "done")
          /\ Calm
       \/ /\ Fails("db")
          /\ \/ Return(w, "done")
             \/ Return(w, AfterFailure(w))     \* the attempt timed out
    /\ UNCHANGED <<platform, account, provider, locks, admin>>

\* The provider refuses a dead token with invalid_grant.  Refusals that say
\* nothing about the token (access_denied, invalid_client, an entitlement) and
\* contain the provider or disable the account are left out.
Refresh(w) ==
    /\ At(w, "call")
    /\ \/ /\ Exchange(worker[w].snap)
          /\ \/ /\ worker' = [worker EXCEPT ![w].pc = "persist", ![w].got = issued]
                /\ Calm
             \/ Return(w, AfterFailure(w)) /\ Loses("lost", TRUE)
       \/ /\ worker[w].snap \notin valid       \* invalid_grant
          /\ Goto(w, "recover")
          /\ Calm
          /\ UNCHANGED provider
       \/ /\ Return(w, AfterFailure(w))         \* an outage may last over the retries
          /\ Fails("lost") \/ (worker[w].then = "retry" /\ Calm)
          /\ UNCHANGED provider
    /\ UNCHANGED <<platform, account, locks, admin>>

\* What follows invalid_grant when the database still has the token sent.
AfterInvalidGrant(w) == IF InBackground(w) THEN "setError" ELSE "done"

Recover(w) ==
    IF account.gen # worker[w].snap THEN "done" ELSE AfterInvalidGrant(w)

TryRecoverFromRefreshRace(w) ==
    /\ At(w, "recover")
    /\ \/ Return(w, Recover(w)) /\ Calm
       \/ /\ Fails("db")
          /\ \/ Return(w, AfterInvalidGrant(w))
             \/ Return(w, AfterFailure(w))     \* the attempt timed out
    /\ UNCHANGED <<platform, account, provider, locks, admin>>

\* Mutant: the old credentials win when they are merged with the new ones.
OldWins(old, new) == old

\* The new credentials win, what they do not have is kept (MergeCredentials).
MergeCredentials(old, new) == new

Unchanged(w) == account.gen = worker[w].snap

\* UpdateCredentials has no condition, UpdateGrokOAuthCredentialsIfUnchanged has.
MayPersist(w) == platform = "grok" => Unchanged(w)

\* A failing statement may have been committed.
Persist(w) ==
    LET new == [account EXCEPT !.gen = MergeCredentials(worker[w].snap, worker[w].got)]
    IN  /\ At(w, "persist")
        /\ \/ /\ MayPersist(w)
              /\ account' = new
              /\ Return(w, IF InBackground(w) THEN "sync" ELSE "done")
              /\ Calm
           \/ /\ ~MayPersist(w)
              /\ Return(w, "done")
              /\ Calm
              /\ UNCHANGED account
           \/ /\ Return(w, IF platform = "grok" THEN "done" ELSE AfterFailure(w))
              /\ \/ UNCHANGED account /\ Loses("db", TRUE)
                 \/ MayPersist(w) /\ account' = new /\ Fails("db")
        /\ UNCHANGED <<platform, provider, locks, admin>>

-----------------------------------------------------------------------------
(* The end of RefreshIfNeeded and what its caller does then.                *)

\* The key is deleted, whoever set it, by a call that once acquired it.
ReleaseRefreshLock(w) ==
    /\ At(w, "release")
    /\ mutex' = [mutex EXCEPT ![worker[w].at] = Nobody]
    /\ Continue(w, worker[w].then)
    /\ \/ lock' = (IF worker[w].locked THEN Nobody ELSE lock) /\ Calm
       \/ worker[w].locked /\ UNCHANGED lock /\ Fails("redis")
    /\ UNCHANGED <<platform, account, provider, admin>>

\* Mutant: Grok accounts are disabled without comparing the credentials, too.
DisablesAnyway(w) == TRUE

\* SetError has no condition, SetGrokOAuthRefreshErrorIfCredentialsUnchanged has.
MayDisable(w) ==
    platform = "grok" => Unchanged(w) /\ account.status = "active"

SetError(w) ==
    /\ At(w, "setError")
    /\ End(w)
    /\ \/ MayDisable(w) /\ account' = [account EXCEPT !.status = "error"] /\ Calm
       \/ ~MayDisable(w) /\ UNCHANGED account /\ Calm
       \/ UNCHANGED account /\ Fails("db")
    /\ UNCHANGED <<platform, provider, locks, admin>>

\* After attempts that timed out the credentials compared may be older still.
SetTempUnschedulable(w) ==
    /\ At(w, "exhausted")
    /\ End(w)
    /\ \/ MayDisable(w) /\ account' = [account EXCEPT !.cooldown = TRUE] /\ Calm
       \/ (~MayDisable(w) \/ platform = "grok") /\ UNCHANGED account /\ Calm
       \/ UNCHANGED account /\ Fails("db")
    /\ UNCHANGED <<platform, provider, locks, admin>>

\* The cooldown is cleared if the account read before the refresh had one.
PostRefreshActions(w) ==
    /\ At(w, "sync")
    /\ End(w)
    /\ \E cooldown \in {account.cooldown, FALSE} :
         account' = [account EXCEPT !.cooldown = cooldown]
    /\ UNCHANGED <<platform, provider, locks, admin, faultVars>>

-----------------------------------------------------------------------------
(* The administrator, who takes no lock; one call in a behaviour.           *)

AdminGoto(pc) == admin' = [admin EXCEPT !.pc = pc]

AdminEnds(pc) ==
    admin' = [admin EXCEPT !.pc = pc, !.snap = 0, !.got = 0, !.status = "active"]

FirstStep == [reauth |-> "login", manual |-> "get", edit |-> "read"]

StartAdmin(t) ==
    /\ admin.pc = "idle"
    /\ admin' = [admin EXCEPT !.task = t, !.pc = FirstStep[t]]
    /\ UNCHANGED <<platform, account, provider, locks, worker, faultVars>>

\* A new login: the provider issues credentials of their own.
Login ==
    /\ admin.pc = "login"
    /\ valid' = valid \cup {issued}
    /\ issued' = issued + 1
    /\ admin' = [admin EXCEPT !.pc = "read", !.got = issued]
    /\ UNCHANGED <<platform, account, due, locks, worker, faultVars>>

ReadForManualRefresh ==
    /\ admin.pc = "get"
    /\ admin' = [admin EXCEPT !.pc = "call", !.snap = account.gen]
    /\ UNCHANGED <<platform, account, provider, locks, worker, faultVars>>

RefreshManually ==
    /\ admin.pc = "call"
    /\ \/ /\ Exchange(admin.snap)
          /\ \/ admin' = [admin EXCEPT !.pc = "read", !.got = issued] /\ Calm
             \/ AdminEnds("failed") /\ Loses("lost", TRUE)
       \/ admin.snap \notin valid /\ AdminEnds("failed") /\ Calm /\ UNCHANGED provider
       \/ AdminEnds("failed") /\ Fails("lost") /\ UNCHANGED provider
    /\ UNCHANGED <<platform, account, locks, worker>>

\* UpdateAccount reads the row and writes all of it; an edit of other fields
\* writes back the credentials it has read.
UpdateAccountRead ==
    /\ admin.pc = "read"
    /\ admin' = [admin EXCEPT !.pc = "write", !.status = account.status,
                   !.got = IF admin.task = "edit" THEN account.gen ELSE @]
    /\ UNCHANGED <<platform, account, provider, locks, worker, faultVars>>

UpdateAccountWrite ==
    /\ admin.pc = "write"
    /\ account' = [account EXCEPT !.gen = admin.got, !.status = admin.status]
    /\ IF admin.task = "reauth" THEN AdminGoto("clear") ELSE AdminEnds("done")
    /\ loss' = (loss \/ (admin.task = "edit" /\ account.gen # admin.got))
    /\ UNCHANGED <<platform, provider, locks, worker, faults, impaired>>

ClearAccountError ==
    /\ admin.pc = "clear"
    /\ account' = [account EXCEPT !.status = "active", !.cooldown = FALSE]
    /\ AdminEnds("done")
    /\ UNCHANGED <<platform, provider, locks, worker, faultVars>>

\* A failing statement or the end of the process ends the call.
AdminDies ==
    /\ admin.pc \notin {"idle", "done", "failed"}
    /\ AdminEnds("failed")
    /\ Loses("crash", admin.task = "manual" /\ admin.pc \in {"read", "write"})
    /\ UNCHANGED <<platform, account, provider, locks, worker>>

-----------------------------------------------------------------------------
(* Time, ends of processes, and the provider.                               *)

TimePasses ==
    /\ due < issued /\ due < MaxDue
    /\ due' = due + 1
    /\ UNCHANGED <<platform, account, valid, issued, locks, worker, admin, faultVars>>

CooldownEnds ==
    /\ account.cooldown
    /\ account' = [account EXCEPT !.cooldown = FALSE]
    /\ UNCHANGED <<platform, provider, locks, worker, admin, faultVars>>

\* Mutant: background attempts may outlive the lock, too.
LapsesUnnoticed(w) == Calm

\* The attempts of the background cycle end before the lock does
\* (clampRefreshAttemptToLockLease); a request may be slower.
LapsesIf(w) ==
    IF worker[w].locked THEN ~InBackground(w) /\ Impairs("lapse") ELSE Calm

\* Mutant: a lock without a time to live.
LockStays == FALSE

LockExpires ==
    /\ lock # Nobody
    /\ lock' = Nobody
    /\ LapsesIf(lock)
    /\ UNCHANGED <<platform, account, provider, mutex, worker, admin>>

InstanceDies(i) ==
    LET dying == {w \in Workers : worker[w].at = i /\ ~At(w, "idle")}
    IN  /\ dying # {}
        /\ worker' = [w \in Workers |-> IF w \in dying THEN Idle ELSE worker[w]]
        /\ mutex' = [mutex EXCEPT ![i] = Nobody]
        /\ Loses("crash", \E w \in dying : At(w, "persist"))
        /\ UNCHANGED <<platform, account, provider, lock, admin>>

\* The user or the provider ends the authorization.
ProviderRevokes ==
    /\ valid # {}
    /\ valid' = {}
    /\ Loses("revoke", TRUE)
    /\ UNCHANGED <<platform, account, issued, due, locks, worker, admin>>

-----------------------------------------------------------------------------
RefreshIfNeeded(w) ==
    \/ LockLocal(w) \/ WaitTimesOut(w)
    \/ AcquireRefreshLock(w) \/ LockHeld(w) \/ LockFails(w)
    \/ Reread(w) \/ Refresh(w) \/ TryRecoverFromRefreshRace(w) \/ Persist(w)
    \/ ReleaseRefreshLock(w)

AfterRefresh(w) == SetError(w) \/ SetTempUnschedulable(w) \/ PostRefreshActions(w)

AdminStep ==
    \/ Login \/ ReadForManualRefresh \/ RefreshManually
    \/ UpdateAccountRead \/ UpdateAccountWrite \/ ClearAccountError

Next ==
    \/ \E w \in Workers :
         \/ \E i \in Instances : StartRequest(w, i) \/ StartRefresh(w, i)
         \/ RefreshIfNeeded(w) \/ AfterRefresh(w)
    \/ \E t \in Tasks : StartAdmin(t)
    \/ AdminStep \/ AdminDies
    \/ TimePasses \/ CooldownEnds \/ LockExpires
    \/ \E i \in Instances : InstanceDies(i)
    \/ ProviderRevokes

Spec == Init /\ [][Next]_vars

\* Calls go on or run out of time, the background cycle comes round again, the
\* lock and the cooldown end.  Nothing obliges a request or the administrator.
Fairness ==
    /\ \A w \in Workers : WF_vars(RefreshIfNeeded(w) \/ AfterRefresh(w))
    /\ WF_vars(\E w \in Workers, i \in Instances : StartRefresh(w, i))
    /\ WF_vars(LockExpires) /\ WF_vars(CooldownEnds)

FairSpec == Spec /\ Fairness

-----------------------------------------------------------------------------
(* Properties.                                                              *)

\* The lock of Redis admits one refresh at a time over all processes, through
\* ends of processes, failing releases and releases that delete the key of
\* someone else, until a call goes on without it or outlives it; and even then
\* the local lock admits one in a process.
OneRefresher ==
    \A v, w \in Workers : Refreshing(v) /\ Refreshing(w) =>
      v = w \/ (impaired /\ worker[v].at # worker[w].at)

\* A token that was rotated is not lost: the credentials in the database can be
\* refreshed, or a live call holds those that replace them and will store them;
\* unless a reply was lost, storing failed, a process died with them, or an
\* edit wrote back what it had read before.
Replaces(holder) == holder.snap = account.gen /\ holder.got \in valid

TokenIsKept ==
    ~loss => \/ account.gen \in valid
             \/ \E w \in Workers : At(w, "persist") /\ Replaces(worker[w])
             \/ admin.task = "manual" /\ admin.pc \in {"read", "write"} /\ Replaces(admin)

\* A refresh token is sent once: RefreshIfNeeded reads the account again under
\* the lock, so that nobody sends a token that another call has consumed.
SentOnce ==
    ~impaired /\ ~loss /\ admin.task # "manual" =>
      \A w \in Workers : At(w, "call") => worker[w].snap \in valid

\* After invalid_grant an account is disabled only when its refresh token is dead,
\* never because the call lost a race: not while the lock protects the calls, and
\* for Grok not even if the administrator has logged in again meanwhile.
DisabledIsDead ==
    ~impaired /\ account.status = "error" =>
      \/ account.gen \notin valid
      \/ admin.task = "manual"
      \/ admin.task = "reauth" /\ (platform = "anthropic" \/ admin.pc \in {"clear", "failed"})

\* Credentials near their expiry are refreshed or the account is disabled,
\* whoever died with the lock and however long its cooldown, unless requests
\* keep taking the lock for ever.
Settled == account.status = "error" \/ ~NeedsRefresh(account.gen)

RequestRuns == \E w \in Workers : ~At(w, "idle") /\ ~InBackground(w)

DueIsSettled == []<>(Settled \/ RequestRuns)
=============================================================================
