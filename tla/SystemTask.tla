----------------------------- MODULE SystemTask -----------------------------
(***************************************************************************)
(* The system-task runner: background jobs (channel test, model update,    *)
(* Midjourney and async-task polling, log cleanup) are rows of             *)
(* system_tasks; every master node runs the same loop, and one row per     *)
(* type in system_task_locks is the lease that lets a single node execute  *)
(* a type (model/system_task.go, service/system_task.go).                  *)
(*                                                                         *)
(* One step is one SQL statement: nothing but the statement is atomic in   *)
(* the code, so every read-then-write pair below is two steps.             *)
(*                                                                         *)
(* Time is abstracted to what the statements compare.  A lock row carries  *)
(* `expired`, the truth of locked_until < the current time, which          *)
(* LeaseExpires sets; stale[r] is the set of types whose row already had   *)
(* locked_until < now when runner r read its own `now`, so a statement     *)
(* that is executed late still compares with the old timestamp.  The       *)
(* throttles of the loop and the intervals of the handlers are free        *)
(* choices.                                                                *)
(***************************************************************************)
EXTENDS Naturals, FiniteSets

CONSTANTS
  Runners,        \* runner ids: node name and a random suffix, one per process start
  Mortal,         \* the runners whose process may crash
  Types,          \* task types with a registered handler
  Scheduled,      \* the types the scheduler creates by itself
  MaxTasks,       \* bound: rows of system_tasks ever created
  MaxErrors,      \* bound: failed statements and aborted handlers
  TimelyHolders,  \* TRUE: a live holder is never stalled for a whole lock TTL
  NoRunner        \* locked_by of a row nobody claimed

ASSUME RunnersAssumption ==
  /\ NoRunner \notin Runners
  /\ Mortal \subseteq Runners
  /\ Scheduled \subseteq Types
  /\ MaxTasks \in Nat \ {0}
  /\ MaxErrors \in Nat
  /\ TimelyHolders \in BOOLEAN

VARIABLES
  tasks,   \* system_tasks by id
  nextId,  \* the next auto-increment id
  locks,   \* system_task_locks by type, its primary key
  alive,   \* runner processes that have not crashed
  pc,      \* where each runner's loop stands
  todo,    \* types the scheduler has still to create a row for
  found,   \* pending rows the claim pass found and has still to visit
  snap,    \* lock rows ExpireStaleSystemTaskLocks read and has still to visit
  cur,     \* the lock row the loop works on
  old,     \* existing.TaskID of a lock about to be taken over
  stale,   \* types whose row had expired when the runner read its `now`
  hand,    \* the handler goroutine of each task
  errors   \* failed statements so far

vars == <<tasks, nextId, locks, alive, pc, todo, found, snap, cur, old, stale,
          hand, errors>>
loopVars == <<pc, todo, found, snap, cur, old>>

TaskIds == 1..MaxTasks
NoTask == 0
Terminal == {"succeeded", "failed"}
Status == {"none", "pending", "running"} \cup Terminal
NoRow == [type |-> "none", status |-> "none", active |-> "none", by |-> NoRunner]
NoLock == [task |-> NoTask, by |-> NoRunner, expired |-> FALSE]
NoCur == [type |-> "none", task |-> NoTask, by |-> NoRunner]

TaskRow == [type : Types \cup {"none"}, status : Status,
            active : Types \cup {"none"},  \* active_key, unique unless NULL
            by : Runners \cup {NoRunner}]
Lease == [task : TaskIds, by : Runners, expired : BOOLEAN]
LockRow == [type : Types, task : TaskIds, by : Runners]

LoopPc == {"idle", "stale", "mark", "delete", "sched", "create", "claim", "pick",
           "acquire", "lockread", "steal", "expireold", "update", "dispatch", "release"}
HandPc == {"none", "running", "cancelled", "release", "done"}

\* The rows of a type, and the ones the scheduler and the claim pass look for.
OfType(t) == {k \in TaskIds : tasks[k].type = t}
PendingOf(t) == {k \in OfType(t) : tasks[k].status = "pending"}
EarliestPending(t) == {k \in PendingOf(t) : \A j \in PendingOf(t) : k <= j}
LatestOf(t) == {k \in OfType(t) : \A j \in OfType(t) : k >= j}

\* Mutant: the cut-off of the stale-lock query lies in the future.
ExpiredTypes_CutoffAhead == {t \in Types : locks[t] # NoLock}

\* The rows WHERE locked_until < now selects.
ExpiredTypes == {t \in Types : locks[t].expired}
Row(t) == [type |-> t, task |-> locks[t].task, by |-> locks[t].by]

\* locked_by of task k still holds an unexpired lock row for it: the EXISTS
\* clause of FinishSystemTask and UpdateSystemTaskState, the WHERE of Renew.
HoldsLease(k) == \E t \in Types :
  locks[t] = [task |-> k, by |-> tasks[k].by, expired |-> FALSE]

-----------------------------------------------------------------------------
Init ==
  /\ tasks = [k \in TaskIds |-> NoRow]
  /\ nextId = 1
  /\ locks = [t \in Types |-> NoLock]
  /\ alive = Runners
  /\ pc = [r \in Runners |-> "idle"]
  /\ todo = [r \in Runners |-> {}]
  /\ found = [r \in Runners |-> {}]
  /\ snap = [r \in Runners |-> {}]
  /\ cur = [r \in Runners |-> NoCur]
  /\ old = [r \in Runners |-> NoTask]
  /\ stale = [r \in Runners |-> {}]
  /\ hand = [k \in TaskIds |-> "none"]
  /\ errors = 0

At(r, p) == r \in alive /\ pc[r] = p
Goto(r, p) == pc' = [pc EXCEPT ![r] = p]

\* A row of type t is written with a new locked_until or disappears: no
\* runner's older `now` is past it any more.
WriteLock(t, row) ==
  /\ locks' = [locks EXCEPT ![t] = row]
  /\ stale' = [r \in Runners |-> stale[r] \ {t}]

\* DELETE FROM system_task_locks WHERE task_id = k AND locked_by = r.
ReleaseSystemTaskLock(k, r) ==
  /\ locks' = [t \in Types |->
       IF locks[t].task = k /\ locks[t].by = r THEN NoLock ELSE locks[t]]
  /\ stale' = [q \in Runners |->
       {t \in stale[q] : ~(locks[t].task = k /\ locks[t].by = r)}]

\* Mutants: the WHERE of MarkSystemTaskLeaseExpired names the wrong status, or
\* none; its SET leaves the status alone, or writes one nobody knows.
Expirable_Never(k) == tasks[k].status = "expired"
Expirable_AnyStatus(k) == TRUE
LeaseExpiredRow_KeepsStatus(row) == [row EXCEPT !.active = "none"]
LeaseExpiredRow_NewStatus(row) == [row EXCEPT !.status = "expired", !.active = "none"]

Expirable(k) == tasks[k].status = "running"
LeaseExpiredRow(row) == [row EXCEPT !.status = "failed", !.active = "none"]

MarkSystemTaskLeaseExpired(k) ==
  tasks' = [j \in TaskIds |->
    IF j = k /\ Expirable(j) THEN LeaseExpiredRow(tasks[j]) ELSE tasks[j]]

\* Mutant: active_key has no unique index.
ActiveKeyFree_NoIndex(t) == TRUE

\* The unique index on active_key lets a row of type t in.
ActiveKeyFree(t) == \A k \in TaskIds : tasks[k].active # t

\* INSERT of a pending row, refused when another row of the type is active.
CreateSystemTask(t) ==
  IF nextId \in TaskIds /\ ActiveKeyFree(t)
  THEN /\ tasks' = [tasks EXCEPT ![nextId] =
            [type |-> t, status |-> "pending", active |-> t, by |-> NoRunner]]
       /\ nextId' = nextId + 1
  ELSE UNCHANGED <<tasks, nextId>>

-----------------------------------------------------------------------------
(* The runner loop: stale-lock cleanup, scheduler, claim pass.             *)

\* runPass: the two throttled sub-passes may be skipped, claiming never is.
RunPass(r) ==
  /\ At(r, "idle")
  /\ \E p \in {"stale", "sched", "claim"} : Goto(r, p)
  /\ UNCHANGED <<tasks, nextId, locks, alive, todo, found, snap, cur, old, stale, hand, errors>>

AfterStale(r) == \E p \in {"sched", "claim"} : Goto(r, p)

\* SELECT * FROM system_task_locks WHERE locked_until < now.
StaleQuery(r) ==
  /\ At(r, "stale")
  /\ snap' = [snap EXCEPT ![r] = {Row(t) : t \in ExpiredTypes}]
  /\ stale' = [stale EXCEPT ![r] = ExpiredTypes]
  /\ IF ExpiredTypes = {} THEN AfterStale(r) ELSE Goto(r, "mark")
  /\ UNCHANGED <<tasks, nextId, locks, alive, todo, found, cur, old, hand, errors>>

MarkStale(r) ==
  /\ At(r, "mark")
  /\ \E l \in snap[r] :
       /\ cur' = [cur EXCEPT ![r] = l]
       /\ MarkSystemTaskLeaseExpired(l.task)
  /\ Goto(r, "delete")
  /\ UNCHANGED <<nextId, locks, alive, todo, found, snap, old, stale, hand, errors>>

\* Mutant: the DELETE names the type only.
StillStale_TypeOnly(r) == locks[cur[r].type] # NoLock

\* The DELETE names the row that was read: type, task_id, locked_by, and
\* locked_until < now.
StillStale(r) == Row(cur[r].type) = cur[r] /\ cur[r].type \in stale[r]

DeleteStale(r) ==
  /\ At(r, "delete")
  /\ LET l == cur[r] IN
       /\ IF StillStale(r)
          THEN WriteLock(l.type, NoLock)
          ELSE UNCHANGED <<locks, stale>>
       /\ snap' = [snap EXCEPT ![r] = @ \ {l}]
       /\ IF snap[r] = {l} THEN AfterStale(r) ELSE Goto(r, "mark")
  /\ UNCHANGED <<tasks, nextId, alive, todo, found, cur, old, hand, errors>>

\* GetLatestSystemTasks; a type is due if its latest row is not active and the
\* handler says so (Enabled, Interval).
SchedulerQuery(r) ==
  /\ At(r, "sched")
  /\ \E due \in SUBSET {t \in Scheduled :
          \A k \in LatestOf(t) : tasks[k].status \in Terminal} :
       /\ todo' = [todo EXCEPT ![r] = due]
       /\ Goto(r, IF due = {} THEN "claim" ELSE "create")
  /\ UNCHANGED <<tasks, nextId, locks, alive, found, snap, cur, old, stale, hand, errors>>

SchedulerCreate(r) ==
  /\ At(r, "create")
  /\ \E t \in todo[r] :
       /\ CreateSystemTask(t)
       /\ todo' = [todo EXCEPT ![r] = @ \ {t}]
       /\ Goto(r, IF todo[r] = {t} THEN "claim" ELSE "create")
  /\ UNCHANGED <<locks, alive, found, snap, cur, old, stale, hand, errors>>

\* FindEarliestPendingSystemTasks.
ClaimQuery(r) ==
  /\ At(r, "claim")
  /\ LET rows == UNION {EarliestPending(t) : t \in Types} IN
       /\ found' = [found EXCEPT ![r] = rows]
       /\ Goto(r, IF rows = {} THEN "idle" ELSE "pick")
  /\ UNCHANGED <<tasks, nextId, locks, alive, todo, snap, cur, old, stale, hand, errors>>

\* The claim loop goes on with the next row found pending.
NextType(r) == Goto(r, IF found[r] = {} THEN "idle" ELSE "pick")

\* ClaimSystemTask reads its `now` and re-reads the row, which must still be
\* pending.
ClaimBegin(r) ==
  /\ At(r, "pick")
  /\ \E k \in found[r] :
       /\ found' = [found EXCEPT ![r] = @ \ {k}]
       /\ IF tasks[k].status = "pending"
          THEN LET t == tasks[k].type IN
               /\ cur' = [cur EXCEPT ![r] = [type |-> t, task |-> k, by |-> r]]
               /\ stale' = [stale EXCEPT ![r] = ExpiredTypes \cap {t}]
               /\ Goto(r, "acquire")
          ELSE /\ Goto(r, IF found[r] = {k} THEN "idle" ELSE "pick")
               /\ UNCHANGED <<cur, stale>>
  /\ UNCHANGED <<tasks, nextId, locks, alive, todo, snap, old, hand, errors>>

OwnLock(r) == [task |-> cur[r].task, by |-> r, expired |-> FALSE]

\* acquireSystemTaskLock, 1: INSERT the row of the type.
LockCreate(r) ==
  /\ At(r, "acquire")
  /\ old' = [old EXCEPT ![r] = NoTask]
  /\ IF locks[cur[r].type] = NoLock
     THEN WriteLock(cur[r].type, OwnLock(r)) /\ Goto(r, "update")
     ELSE UNCHANGED <<locks, stale>> /\ Goto(r, "lockread")
  /\ UNCHANGED <<tasks, nextId, alive, todo, found, snap, cur, hand, errors>>

\* acquireSystemTaskLock, 2: read the existing row, give up unless expired.
LockRead(r) ==
  /\ At(r, "lockread")
  /\ IF cur[r].type \in stale[r]
     THEN old' = [old EXCEPT ![r] = locks[cur[r].type].task] /\ Goto(r, "steal")
     ELSE UNCHANGED old /\ NextType(r)
  /\ UNCHANGED <<tasks, nextId, locks, alive, todo, found, snap, cur, stale, hand, errors>>

\* acquireSystemTaskLock, 3: UPDATE ... WHERE locked_until < now.
LockSteal(r) ==
  /\ At(r, "steal")
  /\ IF cur[r].type \in stale[r]
     THEN /\ WriteLock(cur[r].type, OwnLock(r))
          /\ Goto(r, IF old[r] # cur[r].task THEN "expireold" ELSE "update")
     ELSE UNCHANGED <<locks, stale>> /\ NextType(r)
  /\ UNCHANGED <<tasks, nextId, alive, todo, found, snap, cur, old, hand, errors>>

ClaimExpireOld(r) ==
  /\ At(r, "expireold")
  /\ MarkSystemTaskLeaseExpired(old[r])
  /\ Goto(r, "update")
  /\ UNCHANGED <<nextId, locks, alive, todo, found, snap, cur, old, stale, hand, errors>>

\* Mutants: the UPDATE of the claim does not test the status, or tests another.
Claimable_AnyStatus(k) == TRUE
Claimable_Running(k) == tasks[k].status = "running"

Claimable(k) == tasks[k].status = "pending"

\* UPDATE system_tasks SET status = running, locked_by = r WHERE ... pending.
ClaimUpdate(r) ==
  /\ At(r, "update")
  /\ LET k == cur[r].task IN
       IF Claimable(k)
       THEN /\ tasks' = [tasks EXCEPT ![k] = [@ EXCEPT !.status = "running", !.by = r]]
            /\ Goto(r, "dispatch")
       ELSE UNCHANGED tasks /\ Goto(r, "release")
  /\ UNCHANGED <<nextId, locks, alive, todo, found, snap, cur, old, stale, hand, errors>>

ClaimRelease(r) ==
  /\ At(r, "release")
  /\ ReleaseSystemTaskLock(cur[r].task, r)
  /\ NextType(r)
  /\ UNCHANGED <<tasks, nextId, alive, todo, found, snap, cur, old, hand, errors>>

\* Re-read the claimed row and start its handler goroutine.
Dispatch(r) ==
  /\ At(r, "dispatch")
  /\ hand' = [hand EXCEPT ![cur[r].task] = "running"]
  /\ NextType(r)
  /\ UNCHANGED <<tasks, nextId, locks, alive, todo, found, snap, cur, old, stale, errors>>

\* A statement of the loop fails.  The cleanup and the claim of one row give up
\* where they are and the loop goes on; a failed INSERT of the lock row reads
\* as "the row exists"; a claim that already holds the lock releases it first,
\* and the failure of that release is ignored.
LoopError(r) ==
  /\ r \in alive
  /\ errors < MaxErrors
  /\ errors' = errors + 1
  /\ \/ /\ \/ pc[r] \in {"stale", "mark", "delete"} /\ AfterStale(r)
           \/ pc[r] = "sched" /\ Goto(r, "claim")
           \/ pc[r] = "claim" /\ Goto(r, "idle")
           \/ pc[r] = "acquire" /\ Goto(r, "lockread")
           \/ pc[r] \in {"expireold", "update"} /\ Goto(r, "release")
           \/ pc[r] \in {"lockread", "steal", "release", "dispatch"} /\ NextType(r)
        /\ UNCHANGED <<todo, found>>
     \/ /\ pc[r] = "create"
        /\ \E t \in todo[r] :
             /\ todo' = [todo EXCEPT ![r] = @ \ {t}]
             /\ Goto(r, IF todo[r] = {t} THEN "claim" ELSE "create")
        /\ UNCHANGED found
     \/ /\ pc[r] = "pick"
        /\ \E k \in found[r] :
             /\ found' = [found EXCEPT ![r] = @ \ {k}]
             /\ Goto(r, IF found[r] = {k} THEN "idle" ELSE "pick")
        /\ UNCHANGED todo
  /\ UNCHANGED <<tasks, nextId, locks, alive, snap, cur, old, stale, hand>>

-----------------------------------------------------------------------------
(* Handler goroutines, under runWithLeaseHeartbeat.                        *)

HandAt(k, S) == hand[k] \in S /\ tasks[k].by \in alive
HandGoto(k, p) == hand' = [hand EXCEPT ![k] = p]

\* The heartbeat renews the lease; when the row is lost it cancels the
\* handler's context and stops.
RenewSystemTaskLock(k) ==
  /\ HandAt(k, {"running"})
  /\ IF HoldsLease(k) THEN UNCHANGED hand ELSE HandGoto(k, "cancelled")
  /\ UNCHANGED <<tasks, nextId, locks, alive, stale, errors>>
  /\ UNCHANGED loopVars

\* FinishSystemTask, 1: the conditional UPDATE to a terminal status.
FinishSystemTask(k) ==
  /\ HandAt(k, {"running", "cancelled"})
  /\ \E s \in Terminal :
       IF tasks[k].status = "running" /\ HoldsLease(k)
       THEN /\ tasks' = [tasks EXCEPT ![k] = [@ EXCEPT !.status = s, !.active = "none"]]
            /\ HandGoto(k, "release")
       ELSE UNCHANGED tasks /\ HandGoto(k, "done")
  /\ UNCHANGED <<nextId, locks, alive, stale, errors>>
  /\ UNCHANGED loopVars

\* FinishSystemTask, 2: release the lock.
FinishRelease(k) ==
  /\ HandAt(k, {"release"})
  /\ ReleaseSystemTaskLock(k, tasks[k].by)
  /\ HandGoto(k, "done")
  /\ UNCHANGED <<tasks, nextId, alive, errors>>
  /\ UNCHANGED loopVars

\* A statement of a handler fails: a failed renewal cancels the handler, any
\* other failure (or a panic) ends it without a final status.
HandlerError(k) ==
  /\ errors < MaxErrors
  /\ errors' = errors + 1
  /\ \/ HandAt(k, {"running"}) /\ HandGoto(k, "cancelled")
     \/ HandAt(k, {"running", "cancelled", "release"}) /\ HandGoto(k, "done")
  /\ UNCHANGED <<tasks, nextId, locks, alive, stale>>
  /\ UNCHANGED loopVars

-----------------------------------------------------------------------------
(* The environment.                                                        *)

\* EnqueueSystemTask and StartLogCleanupTask, from an API request.  The lookup
\* of an active row before the INSERT only saves the failing INSERT.
EnqueueSystemTask(t) ==
  /\ CreateSystemTask(t)
  /\ UNCHANGED <<locks, alive, stale, hand, errors>>
  /\ UNCHANGED loopVars

Crash(r) ==
  /\ r \in alive \cap Mortal
  /\ alive' = alive \ {r}
  /\ UNCHANGED <<tasks, nextId, locks, stale, hand, errors>>
  /\ UNCHANGED loopVars

\* The holder of the row of t is a live process that is about to use it: a
\* claim between taking the lock and starting the handler, a handler whose
\* heartbeat still runs, or one that is releasing.
HolderActive(t) ==
  LET k == locks[t].task
      r == locks[t].by
  IN  /\ r \in alive
      /\ \/ cur[r].task = k /\ pc[r] \in {"expireold", "update", "dispatch", "release"}
         \/ tasks[k].by = r /\ hand[k] \in {"running", "release"}

\* Time passes locked_until.
LeaseExpires(t) ==
  /\ locks[t] # NoLock
  /\ ~locks[t].expired
  /\ TimelyHolders => ~HolderActive(t)
  /\ locks' = [locks EXCEPT ![t].expired = TRUE]
  /\ UNCHANGED <<tasks, nextId, alive, stale, hand, errors>>
  /\ UNCHANGED loopVars

-----------------------------------------------------------------------------
Loop(r) ==
  \/ RunPass(r)
  \/ StaleQuery(r) \/ MarkStale(r) \/ DeleteStale(r)
  \/ SchedulerQuery(r) \/ SchedulerCreate(r)
  \/ ClaimQuery(r) \/ ClaimBegin(r)
  \/ LockCreate(r) \/ LockRead(r) \/ LockSteal(r)
  \/ ClaimExpireOld(r) \/ ClaimUpdate(r) \/ ClaimRelease(r) \/ Dispatch(r)

\* The body of a handler.  Its work and the progress it saves between renewals
\* are left out: no other part reads them, and when the progress cannot be saved
\* the handler ends as in HandlerError.
Handler(k) == RenewSystemTaskLock(k) \/ FinishSystemTask(k) \/ FinishRelease(k)

Next ==
  \/ \E r \in Runners : Loop(r) \/ LoopError(r) \/ Crash(r)
  \/ \E k \in TaskIds : Handler(k) \/ HandlerError(k)
  \/ \E t \in Types : EnqueueSystemTask(t) \/ LeaseExpires(t)

Spec == Init /\ [][Next]_vars

\* What the code's scheduling guarantees: the loop of a process that is up goes
\* on and runs the stale-lock cleanup every 30s, a handler ends, time passes.
Fairness ==
  /\ \A r \in Runners :
       WF_vars(Loop(r)) /\ SF_vars(RunPass(r) /\ pc'[r] = "stale")
  /\ \A k \in TaskIds : WF_vars(FinishSystemTask(k)) /\ WF_vars(FinishRelease(k))
  /\ \A t \in Types : WF_vars(LeaseExpires(t))

FairSpec == Spec /\ Fairness

-----------------------------------------------------------------------------
\* The rows of both tables are well formed: a lock row always names a task and a
\* holder, and ids never run past the rows created.
TypeOK ==
  /\ tasks \in [TaskIds -> TaskRow]
  /\ nextId \in 1..(MaxTasks + 1)
  /\ locks \in [Types -> Lease \cup {NoLock}]
  /\ alive \subseteq Runners
  /\ pc \in [Runners -> LoopPc]
  /\ todo \in [Runners -> SUBSET Types]
  /\ found \in [Runners -> SUBSET TaskIds]
  /\ snap \in [Runners -> SUBSET LockRow]
  /\ cur \in [Runners -> LockRow \cup {NoCur}]
  /\ old \in [Runners -> TaskIds \cup {NoTask}]
  /\ stale \in [Runners -> SUBSET Types]
  /\ hand \in [TaskIds -> HandPc]
  /\ errors \in 0..MaxErrors

\* At most one row of a type is pending or running, on any interleaving of
\* schedulers, requests, claims, finishes and expiries: every path that ends a
\* task clears active_key and none clears it earlier.
OneActivePerType ==
  \A j, k \in TaskIds :
    /\ tasks[j].status \in {"pending", "running"}
    /\ tasks[k].status \in {"pending", "running"}
    /\ tasks[j].type = tasks[k].type
    => j = k

\* A task that ended stays as it ended: neither a stalled handler that wakes up,
\* nor a cleanup that works from an old list, nor a late claim revives it.
TerminalStays ==
  [][\A k \in TaskIds :
       tasks[k].status \in Terminal => tasks'[k] = tasks[k]]_vars

\* A task whose handler was started is recorded as run by that very runner, and
\* no second claim ever gets it.
ClaimedOnce ==
  [][\A k \in TaskIds :
       tasks[k].by # NoRunner => tasks'[k].by = tasks[k].by]_vars

\* Taking over an expired lock never finds a running task behind it: the
\* "lease expired" mark of ClaimSystemTask is only a precaution.
TakeoverFindsNothingRunning ==
  \A r \in Runners :
    At(r, "expireold") /\ old[r] # NoTask => tasks[old[r]].status # "running"

\* Two handlers of one type never execute at the same time, a handler whose
\* context was cancelled aside.
OneExecutor ==
  \A j, k \in TaskIds :
    /\ HandAt(j, {"running"})
    /\ HandAt(k, {"running"})
    /\ tasks[j].type = tasks[k].type
    => j = k

\* A running row always has a lock row behind it, so the stale-lock cleanup,
\* which only looks at lock rows, will find it when its runner is gone.
RunningHasLock ==
  \A k \in TaskIds : tasks[k].status = "running" =>
    locks[tasks[k].type].task = k /\ locks[tasks[k].type].by = tasks[k].by

\* The lock row of a holder at work is touched by nobody but that holder.
LockNotTakenFromHolder ==
  [][\A t \in Types : HolderActive(t) /\ locks'[t] # locks[t] =>
       LET k == locks[t].task
           r == locks[t].by
       IN  hand[k] = "release" \/ pc[r] = "release"]_vars

\* "An arbitrarily long handler stays alive as long as the heartbeat succeeds"
\* (runWithLeaseHeartbeat): its task is not failed under a valid lease.
HeartbeatKeepsTask ==
  \A k \in TaskIds :
    HandAt(k, {"running"}) /\ HoldsLease(k) => tasks[k].status = "running"

\* Every running task ends, whatever crashes.
RunningEnds ==
  \A k \in TaskIds : tasks[k].status = "running" ~> tasks[k].status \in Terminal

\* Every pending task is picked up by some runner.
PendingClaimed ==
  \A k \in TaskIds : tasks[k].status = "pending" ~> tasks[k].status # "pending"
=============================================================================
