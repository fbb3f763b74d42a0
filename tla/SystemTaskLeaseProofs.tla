------------------------ MODULE SystemTaskLeaseProofs ------------------------
(***************************************************************************)
(* Proofs about the lease of SystemTask: what the row of                   *)
(* system_task_locks guarantees to the runner that it names, for every set *)
(* of runners and types and every number of tasks and errors.              *)
(*                                                                         *)
(* The first part needs nothing of the holders.  The second assumes that a *)
(* live holder is never stalled for a whole TTL (TimelyHolders).           *)
(***************************************************************************)
EXTENDS SystemTaskProofs

\* Where ClaimSystemTask works on cur[r]; where it has not yet taken the lock;
\* where it has.
ClaimPc == {"acquire", "lockread", "steal", "expireold", "update", "dispatch", "release"}
ReadPc == {"acquire", "lockread", "steal"}
HoldPc == {"expireold", "update", "dispatch", "release"}

\* A claim is of a task that exists, by this runner, and which this runner has
\* not claimed before; once it has, its handler is still to be started.
CurInv(r) ==
  pc[r] \in ClaimPc =>
    /\ cur[r].by = r
    /\ tasks[cur[r].task].status # "none"
    /\ tasks[cur[r].task].type = cur[r].type
    /\ IF pc[r] = "dispatch"
       THEN tasks[cur[r].task].by = r /\ hand[cur[r].task] = "none"
       ELSE tasks[cur[r].task].by # r

\* A lock row that was past its time when the claim read its `now`, and has not
\* been written since, is of this task or of one that has ended.
PastInv(r) ==
  pc[r] \in ReadPc /\ cur[r].type \in stale[r] =>
    \/ locks[cur[r].type].task = cur[r].task
    \/ tasks[locks[cur[r].type].task].status \in Terminal

\* So is the task read from it to be marked as expired.
OldInv(r) ==
  pc[r] \in {"steal", "expireold"} =>
    /\ old[r] \in TaskIds
    /\ old[r] = cur[r].task \/ tasks[old[r]].status \in Terminal
    /\ pc[r] = "expireold" => old[r] # cur[r].task

RunnerInv(r) == CurInv(r) /\ PastInv(r) /\ OldInv(r)

\* A row that was expired at a runner's `now` is expired unless written since.
StaleInv == \A r \in Runners : stale[r] \subseteq ExpiredTypes

\* A lock row names a task of its type.
LockInv ==
  \A t \in Types : locks[t] # NoLock =>
    tasks[locks[t].task].type = t /\ tasks[locks[t].task].status # "none"

\* A handler runs a claimed task; it releases the lock after ending its task.
HandInv ==
  \A k \in TaskIds :
    /\ hand[k] # "none" => tasks[k].by # NoRunner
    /\ hand[k] = "release" => tasks[k].status \in Terminal

ClaimInv ==
  /\ \A r \in Runners : RunnerInv(r)
  /\ StaleInv /\ LockInv /\ HandInv

RowInv == TypeInv /\ RowsInv

-----------------------------------------------------------------------------
(* What steps leave alone.                                                 *)

\* A row keeps its type, and what it became for good.
LEMMA RowKept ==
  ASSUME RowInv, [Next]_vars, NEW k \in TaskIds
  PROVE  /\ tasks[k].status # "none" =>
              tasks'[k].type = tasks[k].type /\ tasks'[k].status # "none"
         /\ tasks[k].status \in Terminal => tasks'[k].status \in Terminal
         /\ tasks[k].by # NoRunner => tasks'[k].by = tasks[k].by
<1> USE DEF RowInv
<1>1. TypeOK /\ TaskStep
  BY StepIsTaskStep DEF TypeInv
<1>2. /\ tasks[k].status \in Terminal => tasks'[k] = tasks[k]
      /\ tasks[k].by # NoRunner => tasks'[k].by = tasks[k].by
  BY StepKeepsEnded
<1>3. tasks[k].status # "none" =>
        tasks'[k].type = tasks[k].type /\ tasks'[k].status # "none"
  <2>1. CASE UNCHANGED <<tasks, nextId>>
    BY <2>1
  <2>2. ASSUME NEW t \in Types, CreateSystemTask(t), tasks[k].status # "none"
        PROVE  tasks'[k] = tasks[k]
    BY <1>1, <2>2 DEF CreateSystemTask, RowsInv, FreshIds, TypeOK
  <2>3. ASSUME NEW j \in TaskIds, Ends(j)
        PROVE  tasks[k].status # "none" =>
                 tasks'[k].type = tasks[k].type /\ tasks'[k].status # "none"
    BY <1>1, <2>3 DEF Ends, Terminal, TypeOK, TaskRow
  <2>4. ASSUME NEW j \in TaskIds, Claims(j)
        PROVE  tasks[k].status # "none" =>
                 tasks'[k].type = tasks[k].type /\ tasks'[k].status # "none"
    BY <1>1, <2>4 DEF Claims, TypeOK, TaskRow
  <2>5. QED
    BY <1>1, <2>1, <2>2, <2>3, <2>4 DEF TaskStep
<1>4. QED
  BY <1>2, <1>3

\* A runner that another actor's step leaves where it is, and whose knowledge of
\* expired rows that step does not extend.
Rests(q) ==
  /\ pc'[q] = pc[q] /\ cur'[q] = cur[q] /\ old'[q] = old[q]
  /\ \A t \in stale'[q] : t \in stale[q] /\ locks'[t] = locks[t]
  /\ \A k \in TaskIds : tasks'[k].by = q => tasks[k].by = q
  /\ \A k \in TaskIds : hand'[k] # hand[k] => hand[k] # "none" \/ tasks[k].by # q

LEMMA RestsKeeps ==
  ASSUME RowInv, ClaimInv, [Next]_vars, NEW q \in Runners, Rests(q)
  PROVE  RunnerInv(q)'
<1>1. TypeOK /\ WorksOnRow /\ RunnerInv(q) /\ LockInv /\ StaleInv
  BY DEF RowInv, TypeInv, ClaimInv
<1>2. pc[q] \in ClaimPc => /\ cur[q].task \in TaskIds /\ cur[q].type \in Types
  BY <1>1 DEF WorksOnRow, ClaimPc, LockRow
<1>3. q # NoRunner
  BY RunnersAssumption
<1>4. CurInv(q)'
  BY <1>1, <1>2, <1>3, RowKept DEF Rests, RunnerInv, CurInv
<1>5. PastInv(q)'
  <2> SUFFICES ASSUME pc[q] \in ReadPc, cur[q].type \in stale'[q]
               PROVE  \/ locks'[cur[q].type].task = cur[q].task
                      \/ tasks'[locks'[cur[q].type].task].status \in Terminal
    BY DEF PastInv, Rests
  <2>1. /\ cur[q].type \in stale[q] /\ locks'[cur[q].type] = locks[cur[q].type]
        /\ cur[q].type \in Types
    BY <1>1 DEF Rests, TypeOK
  <2>2. locks[cur[q].type].task \in TaskIds
    BY <1>1, <2>1 DEF StaleInv, ExpiredTypes, TypeOK, Lease, NoLock
  <2>3. QED
    BY <1>1, <2>1, <2>2, RowKept DEF RunnerInv, PastInv
<1>6. OldInv(q)'
  BY <1>1, RowKept DEF Rests, RunnerInv, OldInv
<1>7. QED
  BY <1>4, <1>5, <1>6 DEF RunnerInv

\* What a step may do to a lock row: delete it, move its time, or write it for
\* the claim that takes it.
LockStep ==
  \A t \in Types :
    \/ locks'[t] = locks[t]
    \/ locks'[t] = NoLock
    \/ locks[t] # NoLock /\ locks'[t].task = locks[t].task
    \/ \E r \in Runners :
         pc[r] \in {"acquire", "steal"} /\ cur[r].type = t /\ locks'[t] = OwnLock(r)

LEMMA LockStepKeeps ==
  ASSUME RowInv, ClaimInv, [Next]_vars, LockStep
  PROVE  LockInv'
<1> SUFFICES ASSUME NEW t \in Types, locks'[t] # NoLock
             PROVE  /\ tasks'[locks'[t].task].type = t
                    /\ tasks'[locks'[t].task].status # "none"
  BY DEF LockInv, NoLock
<1>1. TypeOK /\ TypeOK' /\ WorksOnRow /\ LockInv
  BY NextType_Type DEF RowInv, TypeInv, ClaimInv
<1>2. CASE locks[t] # NoLock /\ locks'[t].task = locks[t].task
  <2>1. locks[t].task \in TaskIds
    BY <1>1, <1>2 DEF TypeOK, Lease
  <2>2. QED
    BY <1>1, <1>2, <2>1, RowKept DEF LockInv
<1>3. ASSUME NEW r \in Runners, pc[r] \in {"acquire", "steal"}, cur[r].type = t,
             locks'[t] = OwnLock(r)
      PROVE  /\ tasks'[locks'[t].task].type = t
             /\ tasks'[locks'[t].task].status # "none"
  <2>1. cur[r].task \in TaskIds /\ CurInv(r)
    BY <1>1, <1>3 DEF WorksOnRow, LockRow, ClaimInv, RunnerInv
  <2>2. QED
    BY <1>3, <2>1, RowKept DEF CurInv, ClaimPc, OwnLock
<1>4. QED
  BY <1>2, <1>3 DEF LockStep

\* A handler that is not started, or only moves to its end, keeps HandInv.
LEMMA HandKeeps ==
  ASSUME RowInv, ClaimInv, [Next]_vars,
         \A k \in TaskIds :
           \/ hand'[k] = hand[k]
           \/ hand[k] # "none" /\ hand'[k] \in {"cancelled", "done"}
  PROVE  HandInv'
<1>1. HandInv
  BY DEF ClaimInv
<1>2. QED
  BY <1>1, RowKept DEF HandInv

-----------------------------------------------------------------------------
(* Every step keeps ClaimInv.                                              *)

\* What is to be shown of a step of runner r.
StepOf(r) ==
  /\ \A q \in Runners \ {r} : Rests(q)
  /\ RunnerInv(r)'
  /\ LockStep /\ StaleInv' /\ HandInv'

\* Steps of the loop that write no table and touch no handler, and leave the
\* claim or are outside of it.
LEMMA QuietStep ==
  ASSUME RowInv, ClaimInv, [Next]_vars, NEW r \in Runners,
         \A q \in Runners \ {r} :
           pc'[q] = pc[q] /\ cur'[q] = cur[q] /\ old'[q] = old[q] /\ stale'[q] = stale[q],
         UNCHANGED <<tasks, locks, hand>>,
         stale'[r] \subseteq ExpiredTypes,
         RunnerInv(r)'
  PROVE  StepOf(r)
<1>1. \A q \in Runners \ {r} : Rests(q)
  BY DEF Rests
<1>2. LockStep
  BY DEF LockStep
<1>3. StaleInv'
  BY DEF ClaimInv, StaleInv, ExpiredTypes
<1>4. HandInv'
  BY HandKeeps
<1>5. QED
  BY <1>1, <1>2, <1>3, <1>4 DEF StepOf

LEMMA CleanupSteps ==
  ASSUME RowInv, ClaimInv, NEW r \in Runners,
         RunPass(r) \/ StaleQuery(r) \/ SchedulerQuery(r) \/ ClaimQuery(r)
  PROVE  StepOf(r)
<1>1. TypeOK /\ StaleInv /\ [Next]_vars
  BY DEF RowInv, TypeInv, ClaimInv, Next, Loop
<1>2. pc'[r] \in LoopPc \ ClaimPc
  BY <1>1 DEF RunPass, StaleQuery, SchedulerQuery, ClaimQuery, AfterStale, Goto, TypeOK,
              LoopPc, ClaimPc
<1>3. RunnerInv(r)'
  BY <1>2 DEF RunnerInv, CurInv, PastInv, OldInv, ClaimPc, ReadPc
<1>4. stale'[r] \subseteq ExpiredTypes
  BY <1>1 DEF RunPass, StaleQuery, SchedulerQuery, ClaimQuery, TypeOK, StaleInv
<1>5. \A q \in Runners \ {r} :
        pc'[q] = pc[q] /\ cur'[q] = cur[q] /\ old'[q] = old[q] /\ stale'[q] = stale[q]
  BY <1>1 DEF RunPass, StaleQuery, SchedulerQuery, ClaimQuery, AfterStale, Goto, TypeOK
<1>6. UNCHANGED <<tasks, locks, hand>>
  BY DEF RunPass, StaleQuery, SchedulerQuery, ClaimQuery
<1>7. QED
  BY <1>1, <1>3, <1>4, <1>5, <1>6, QuietStep

\* A row is inserted unclaimed, and the end of one keeps its holder.
LEMMA InsertKeepsBy ==
  ASSUME TypeOK, NEW t \in Types, CreateSystemTask(t), NEW q \in Runners,
         NEW k \in TaskIds, tasks'[k].by = q
  PROVE  tasks[k].by = q
BY RunnersAssumption DEF CreateSystemTask, TypeOK

LEMMA MarkKeepsBy ==
  ASSUME TypeOK, NEW j, MarkSystemTaskLeaseExpired(j), NEW k \in TaskIds
  PROVE  tasks'[k].by = tasks[k].by
<1>1. tasks[k] \in TaskRow
  BY DEF TypeOK
<1>2. QED
  BY <1>1 DEF MarkSystemTaskLeaseExpired, LeaseExpiredRow, TaskRow

\* Steps outside of a claim that write rows of system_tasks.
LEMMA RowSteps ==
  ASSUME RowInv, ClaimInv, NEW r \in Runners, MarkStale(r) \/ SchedulerCreate(r)
  PROVE  StepOf(r)
<1>1. TypeOK /\ StaleInv /\ [Next]_vars
  BY DEF RowInv, TypeInv, ClaimInv, Next, Loop
<1>2. pc'[r] \in LoopPc \ ClaimPc
  BY <1>1 DEF MarkStale, SchedulerCreate, Goto, TypeOK, LoopPc, ClaimPc
<1>3. RunnerInv(r)'
  BY <1>2 DEF RunnerInv, CurInv, PastInv, OldInv, ClaimPc, ReadPc
<1>4. UNCHANGED <<locks, stale, hand, old>>
  BY DEF MarkStale, SchedulerCreate
<1>5. \A q \in Runners \ {r} : pc'[q] = pc[q] /\ cur'[q] = cur[q]
  BY <1>1 DEF MarkStale, SchedulerCreate, Goto, TypeOK
<1>6. ASSUME NEW q \in Runners, NEW k \in TaskIds, tasks'[k].by = q
      PROVE  tasks[k].by = q
  <2>1. CASE MarkStale(r)
    BY <1>1, <1>6, <2>1, MarkKeepsBy DEF MarkStale
  <2>2. CASE SchedulerCreate(r)
    <3>1. PICK t \in todo[r] : CreateSystemTask(t)
      BY <2>2 DEF SchedulerCreate
    <3>2. t \in Types
      BY <1>1, <3>1 DEF TypeOK
    <3>3. QED
      BY <1>1, <1>6, <3>1, <3>2, InsertKeepsBy
  <2>3. QED
    BY <2>1, <2>2
<1>7. \A q \in Runners \ {r} : Rests(q)
  BY <1>4, <1>5, <1>6 DEF Rests
<1>8. LockStep /\ StaleInv'
  BY <1>1, <1>4 DEF LockStep, StaleInv, ExpiredTypes
<1>9. HandInv'
  BY <1>1, <1>4, HandKeeps
<1>10. QED
  BY <1>3, <1>7, <1>8, <1>9 DEF StepOf

\* WriteLock makes every runner's older `now` forget the row.
LEMMA WriteLockKeeps ==
  ASSUME TypeOK, StaleInv, NEW t \in Types, NEW row, WriteLock(t, row)
  PROVE  /\ StaleInv'
         /\ \A q \in Runners : \A u \in stale'[q] : u \in stale[q] /\ locks'[u] = locks[u]
         /\ locks'[t] = row
         /\ \A u \in Types \ {t} : locks'[u] = locks[u]
<1>1. /\ locks'[t] = row
      /\ \A u \in Types \ {t} : locks'[u] = locks[u]
  BY DEF WriteLock, TypeOK
<1>2. \A q \in Runners : stale'[q] = stale[q] \ {t}
  BY DEF WriteLock, TypeOK
<1>3. \A q \in Runners : stale[q] \subseteq Types
  BY DEF TypeOK
<1>4. QED
  BY <1>1, <1>2, <1>3 DEF StaleInv, ExpiredTypes

LEMMA ReleaseKeeps ==
  ASSUME TypeOK, StaleInv, NEW k, NEW r, ReleaseSystemTaskLock(k, r)
  PROVE  /\ StaleInv'
         /\ \A q \in Runners : \A u \in stale'[q] : u \in stale[q] /\ locks'[u] = locks[u]
         /\ \A u \in Types : locks'[u] =
              IF locks[u].task = k /\ locks[u].by = r THEN NoLock ELSE locks[u]
<1>1. \A u \in Types : locks'[u] =
        IF locks[u].task = k /\ locks[u].by = r THEN NoLock ELSE locks[u]
  BY DEF ReleaseSystemTaskLock
<1>2. \A q \in Runners : stale'[q] = {t \in stale[q] : ~(locks[t].task = k /\ locks[t].by = r)}
  BY DEF ReleaseSystemTaskLock
<1>3. \A q \in Runners : stale[q] \subseteq Types
  BY DEF TypeOK
<1>4. QED
  BY <1>1, <1>2, <1>3 DEF StaleInv, ExpiredTypes

\* DeleteStale deletes at most the row it read.
LEMMA DeleteStep ==
  ASSUME RowInv, ClaimInv, NEW r \in Runners, DeleteStale(r)
  PROVE  StepOf(r)
<1>1. TypeOK /\ WorksOnRow /\ StaleInv /\ [Next]_vars
  BY DEF RowInv, TypeInv, ClaimInv, Next, Loop
<1>2. pc'[r] \in LoopPc \ ClaimPc
  BY <1>1 DEF DeleteStale, AfterStale, Goto, TypeOK, LoopPc, ClaimPc
<1>3. RunnerInv(r)'
  BY <1>2 DEF RunnerInv, CurInv, PastInv, OldInv, ClaimPc, ReadPc
<1>4. cur[r].type \in Types
  BY <1>1 DEF DeleteStale, At, WorksOnRow, LockRow
<1>5. /\ UNCHANGED <<tasks, hand, cur, old>>
      /\ \A q \in Runners \ {r} : pc'[q] = pc[q]
  BY <1>1 DEF DeleteStale, AfterStale, Goto, TypeOK
<1>6. CASE StillStale(r)
  <2>1. WriteLock(cur[r].type, NoLock)
    BY <1>6 DEF DeleteStale
  <2>2. \A q \in Runners \ {r} : Rests(q)
    BY <1>1, <1>4, <1>5, <2>1, WriteLockKeeps DEF Rests
  <2>3. LockStep /\ StaleInv'
    BY <1>1, <1>4, <2>1, WriteLockKeeps DEF LockStep
  <2>4. QED
    BY <1>1, <1>3, <1>5, <2>2, <2>3, HandKeeps DEF StepOf
<1>7. CASE ~StillStale(r)
  <2>1. UNCHANGED <<locks, stale>>
    BY <1>7 DEF DeleteStale
  <2>2. QED
    BY <1>1, <1>3, <1>5, <2>1, QuietStep DEF StaleInv
<1>8. QED
  BY <1>6, <1>7

\* The claim begins with a pending row, so a lock row of its type that is already
\* expired is of this row or of one that has ended.
LEMMA BeginStep ==
  ASSUME RowInv, ClaimInv, NEW r \in Runners, ClaimBegin(r)
  PROVE  StepOf(r)
<1>1. TypeOK /\ RealRows /\ StaleInv /\ LockInv /\ [Next]_vars
  BY DEF RowInv, TypeInv, ClaimInv, Next, Loop
<1>2. PICK k \in found[r] :
        IF tasks[k].status = "pending"
        THEN /\ cur' = [cur EXCEPT ![r] = [type |-> tasks[k].type, task |-> k, by |-> r]]
             /\ stale' = [stale EXCEPT ![r] = ExpiredTypes \cap {tasks[k].type}]
             /\ Goto(r, "acquire")
        ELSE /\ Goto(r, IF found[r] = {k} THEN "idle" ELSE "pick")
             /\ UNCHANGED <<cur, stale>>
  BY DEF ClaimBegin
<1>3. k \in TaskIds
  BY <1>1 DEF TypeOK
<1>4. UNCHANGED <<tasks, locks, hand, old>>
  BY DEF ClaimBegin
<1>5. CASE tasks[k].status = "pending"
  <2>1. /\ pc'[r] = "acquire"
        /\ cur'[r] = [type |-> tasks[k].type, task |-> k, by |-> r]
        /\ stale'[r] = ExpiredTypes \cap {tasks[k].type}
        /\ \A q \in Runners \ {r} :
             pc'[q] = pc[q] /\ cur'[q] = cur[q] /\ stale'[q] = stale[q]
    BY <1>1, <1>2, <1>5 DEF Goto, TypeOK
  <2>2. tasks[k].by # r
    BY <1>3, <1>5, RunnersAssumption DEF RowInv, RowsInv, UnclaimedUntilRunning
  <2>3. CurInv(r)'
    BY <1>4, <1>5, <2>1, <2>2 DEF CurInv
  <2>4. PastInv(r)'
    <3> SUFFICES ASSUME tasks[k].type \in ExpiredTypes, locks[tasks[k].type].task # k
                 PROVE  tasks[locks[tasks[k].type].task].status \in Terminal
      BY <1>4, <2>1 DEF PastInv
    <3> DEFINE j == locks[tasks[k].type].task
    <3>1. tasks[k].type \in Types /\ locks[tasks[k].type] # NoLock
      BY DEF ExpiredTypes, NoLock
    <3>2. j \in TaskIds /\ tasks[j].type = tasks[k].type /\ tasks[j].status # "none"
      BY <1>1, <3>1 DEF LockInv, TypeOK, Lease
    <3>3. tasks[j].status \notin Open
      BY <1>3, <1>5, <3>2 DEF RowInv, RowsInv, ActiveIffOpen, ActiveUnique, Open
    <3>4. QED
      BY <1>1, <3>2, <3>3 DEF TypeOK, TaskRow, Status, Open
  <2>5. OldInv(r)'
    BY <2>1 DEF OldInv
  <2>6. QED
    BY <1>1, <1>4, <2>1, <2>3, <2>4, <2>5, QuietStep DEF RunnerInv
<1>6. CASE tasks[k].status # "pending"
  <2>1. /\ pc'[r] \in {"idle", "pick"} /\ UNCHANGED <<cur, stale>>
        /\ \A q \in Runners \ {r} : pc'[q] = pc[q]
    BY <1>1, <1>2, <1>6 DEF Goto, TypeOK
  <2>2. RunnerInv(r)'
    BY <2>1 DEF RunnerInv, CurInv, PastInv, OldInv, ClaimPc, ReadPc
  <2>3. QED
    BY <1>1, <1>4, <2>1, <2>2, QuietStep DEF StaleInv
<1>7. QED
  BY <1>5, <1>6

\* A step of the claim that stays in it without writing the lock row, the task or
\* the handler.
LEMMA ClaimGoesOn ==
  ASSUME RowInv, ClaimInv, NEW r \in Runners,
         pc[r] \in ClaimPc \ {"dispatch"}, pc'[r] \in ClaimPc \ {"dispatch"},
         UNCHANGED <<tasks, cur>>
  PROVE  CurInv(r)'
BY DEF ClaimInv, RunnerInv, CurInv

LEMMA CreateLockStep ==
  ASSUME RowInv, ClaimInv, NEW r \in Runners, LockCreate(r)
  PROVE  StepOf(r)
<1>1. TypeOK /\ WorksOnRow /\ StaleInv /\ RunnerInv(r) /\ [Next]_vars
  BY DEF RowInv, TypeInv, ClaimInv, Next, Loop
<1>2. cur[r].type \in Types /\ pc[r] = "acquire"
  BY <1>1 DEF LockCreate, At, WorksOnRow, LockRow
<1>3. /\ UNCHANGED <<tasks, hand, cur>>
      /\ \A q \in Runners \ {r} : pc'[q] = pc[q] /\ old'[q] = old[q]
  BY <1>1 DEF LockCreate, Goto, TypeOK
<1>4. CASE locks[cur[r].type] = NoLock
  <2>1. WriteLock(cur[r].type, OwnLock(r)) /\ pc'[r] = "update"
    BY <1>1, <1>4 DEF LockCreate, Goto, TypeOK
  <2>2. \A q \in Runners \ {r} : Rests(q)
    BY <1>1, <1>2, <1>3, <2>1, WriteLockKeeps DEF Rests
  <2>3. LockStep /\ StaleInv'
    BY <1>1, <1>2, <2>1, WriteLockKeeps DEF LockStep
  <2>4. RunnerInv(r)'
    BY <1>2, <1>3, <2>1, ClaimGoesOn
       DEF RunnerInv, PastInv, OldInv, ClaimPc, ReadPc
  <2>5. QED
    BY <1>1, <1>3, <2>2, <2>3, <2>4, HandKeeps DEF StepOf
<1>5. CASE locks[cur[r].type] # NoLock
  <2>1. UNCHANGED <<locks, stale>> /\ pc'[r] = "lockread"
    BY <1>1, <1>5 DEF LockCreate, Goto, TypeOK
  <2>2. CurInv(r)'
    BY <1>2, <1>3, <2>1, ClaimGoesOn DEF ClaimPc
  <2>3. PastInv(r)' /\ OldInv(r)'
    BY <1>1, <1>2, <1>3, <2>1 DEF RunnerInv, PastInv, OldInv, ReadPc
  <2>4. QED
    BY <1>1, <1>3, <2>1, <2>2, <2>3, QuietStep DEF RunnerInv, StaleInv
<1>6. QED
  BY <1>4, <1>5

\* What LockRead reads from an expired row is a task of PastInv.
LEMMA ReadLockStep ==
  ASSUME RowInv, ClaimInv, NEW r \in Runners, LockRead(r)
  PROVE  StepOf(r)
<1>1. TypeOK /\ WorksOnRow /\ StaleInv /\ RunnerInv(r) /\ [Next]_vars
  BY DEF RowInv, TypeInv, ClaimInv, Next, Loop
<1>2. cur[r].type \in Types /\ pc[r] = "lockread"
  BY <1>1 DEF LockRead, At, WorksOnRow, LockRow
<1>3. /\ UNCHANGED <<tasks, hand, cur, locks, stale>>
      /\ \A q \in Runners \ {r} : pc'[q] = pc[q] /\ old'[q] = old[q]
  BY <1>1 DEF LockRead, NextType, Goto, TypeOK
<1>4. RunnerInv(r)'
  <2>1. CASE cur[r].type \in stale[r]
    <3>1. old'[r] = locks[cur[r].type].task /\ pc'[r] = "steal"
      BY <1>1, <2>1 DEF LockRead, Goto, TypeOK
    <3>2. locks[cur[r].type].task \in TaskIds
      BY <1>1, <1>2, <2>1 DEF StaleInv, ExpiredTypes, TypeOK, Lease, NoLock
    <3>3. CurInv(r)'
      BY <1>2, <1>3, <3>1, ClaimGoesOn DEF ClaimPc
    <3>4. PastInv(r)' /\ OldInv(r)'
      BY <1>1, <1>2, <1>3, <2>1, <3>1, <3>2 DEF RunnerInv, PastInv, OldInv, ReadPc
    <3>5. QED
      BY <3>3, <3>4 DEF RunnerInv
  <2>2. CASE cur[r].type \notin stale[r]
    <3>1. pc'[r] \in {"idle", "pick"}
      BY <1>1, <2>2 DEF LockRead, NextType, Goto, TypeOK
    <3>2. QED
      BY <3>1 DEF RunnerInv, CurInv, PastInv, OldInv, ClaimPc, ReadPc
  <2>3. QED
    BY <2>1, <2>2
<1>5. QED
  BY <1>1, <1>3, <1>4, QuietStep DEF StaleInv

LEMMA StealStep ==
  ASSUME RowInv, ClaimInv, NEW r \in Runners, LockSteal(r)
  PROVE  StepOf(r)
<1>1. TypeOK /\ WorksOnRow /\ StaleInv /\ RunnerInv(r) /\ [Next]_vars
  BY DEF RowInv, TypeInv, ClaimInv, Next, Loop
<1>2. cur[r].type \in Types /\ pc[r] = "steal"
  BY <1>1 DEF LockSteal, At, WorksOnRow, LockRow
<1>3. /\ UNCHANGED <<tasks, hand, cur, old>>
      /\ \A q \in Runners \ {r} : pc'[q] = pc[q]
  BY <1>1 DEF LockSteal, NextType, Goto, TypeOK
<1>4. CASE cur[r].type \in stale[r]
  <2>1. /\ WriteLock(cur[r].type, OwnLock(r))
        /\ pc'[r] = IF old[r] # cur[r].task THEN "expireold" ELSE "update"
    BY <1>1, <1>4 DEF LockSteal, Goto, TypeOK
  <2>2. \A q \in Runners \ {r} : Rests(q)
    BY <1>1, <1>2, <1>3, <2>1, WriteLockKeeps DEF Rests
  <2>3. LockStep /\ StaleInv'
    BY <1>1, <1>2, <2>1, WriteLockKeeps DEF LockStep
  <2>4. CurInv(r)'
    BY <1>2, <1>3, <2>1, ClaimGoesOn DEF ClaimPc
  <2>5. PastInv(r)' /\ OldInv(r)'
    BY <1>1, <1>2, <1>3, <2>1 DEF RunnerInv, PastInv, OldInv, ReadPc
  <2>6. QED
    BY <1>1, <1>3, <2>2, <2>3, <2>4, <2>5, HandKeeps DEF StepOf, RunnerInv
<1>5. CASE cur[r].type \notin stale[r]
  <2>1. UNCHANGED <<locks, stale>> /\ pc'[r] \in {"idle", "pick"}
    BY <1>1, <1>5 DEF LockSteal, NextType, Goto, TypeOK
  <2>2. RunnerInv(r)'
    BY <2>1 DEF RunnerInv, CurInv, PastInv, OldInv, ClaimPc, ReadPc
  <2>3. QED
    BY <1>1, <1>3, <2>1, <2>2, QuietStep DEF StaleInv
<1>6. QED
  BY <1>4, <1>5

\* The mark of a taken-over task and the UPDATE of the claim.
LEMMA UpdateSteps ==
  ASSUME RowInv, ClaimInv, NEW r \in Runners, ClaimExpireOld(r) \/ ClaimUpdate(r)
  PROVE  StepOf(r)
<1>1. TypeOK /\ WorksOnRow /\ StaleInv /\ RunnerInv(r) /\ HandInv /\ [Next]_vars
  BY DEF RowInv, TypeInv, ClaimInv, Next, Loop
<1>2. cur[r].task \in TaskIds /\ pc[r] \in {"expireold", "update"}
  BY <1>1 DEF ClaimExpireOld, ClaimUpdate, At, WorksOnRow, LockRow
<1>3. /\ UNCHANGED <<hand, cur, old, locks, stale>>
      /\ \A q \in Runners \ {r} : pc'[q] = pc[q]
  BY <1>1 DEF ClaimExpireOld, ClaimUpdate, Goto, TypeOK
<1>4. ASSUME NEW q \in Runners \ {r}, NEW k \in TaskIds, tasks'[k].by = q
      PROVE  tasks[k].by = q
  <2>1. CASE ClaimExpireOld(r)
    BY <1>1, <1>4, <2>1, MarkKeepsBy DEF ClaimExpireOld
  <2>2. CASE ClaimUpdate(r)
    <3>1. CASE UNCHANGED tasks
      BY <1>4, <3>1
    <3>2. CASE tasks' = [tasks EXCEPT ![cur[r].task] =
                           [@ EXCEPT !.status = "running", !.by = r]]
      BY <1>1, <1>2, <1>4, <3>2 DEF TypeOK, TaskRow
    <3>3. QED
      BY <2>2, <3>1, <3>2 DEF ClaimUpdate
  <2>3. QED
    BY <2>1, <2>2
<1>5. \A q \in Runners \ {r} : Rests(q)
  BY <1>3, <1>4 DEF Rests
<1>6. CurInv(r)'
  <2>1. CurInv(r)
    BY <1>1 DEF RunnerInv
  <2>2. CASE ClaimExpireOld(r)
    <3>1. pc'[r] = "update" /\ tasks'[cur[r].task].by = tasks[cur[r].task].by
      BY <1>1, <1>2, <2>2, MarkKeepsBy DEF ClaimExpireOld, Goto, TypeOK
    <3>2. QED
      BY <1>1, <1>2, <1>3, <2>1, <3>1, RowKept DEF CurInv, ClaimPc
  <2>3. CASE ClaimUpdate(r) /\ Claimable(cur[r].task)
    <3>1. /\ pc'[r] = "dispatch"
          /\ tasks' = [tasks EXCEPT ![cur[r].task] =
                          [@ EXCEPT !.status = "running", !.by = r]]
      BY <1>1, <1>2, <2>3 DEF ClaimUpdate, Goto, TypeOK
    <3>2. tasks'[cur[r].task].by = r
      BY <1>1, <1>2, <3>1 DEF TypeOK, TaskRow
    <3>3. hand[cur[r].task] = "none"
      BY <1>1, <1>2, <2>3
         DEF Claimable, HandInv, RowInv, RowsInv, UnclaimedUntilRunning
    <3>4. QED
      BY <1>1, <1>2, <1>3, <2>1, <3>1, <3>2, <3>3, RowKept DEF CurInv, ClaimPc
  <2>4. CASE ClaimUpdate(r) /\ ~Claimable(cur[r].task)
    <3>1. pc'[r] = "release" /\ UNCHANGED tasks
      BY <1>1, <2>4 DEF ClaimUpdate, Goto, TypeOK
    <3>2. QED
      BY <1>2, <1>3, <3>1, ClaimGoesOn DEF ClaimPc
  <2>5. QED
    BY <2>2, <2>3, <2>4
<1>7. PastInv(r)' /\ OldInv(r)'
  <2>1. pc'[r] \in {"update", "dispatch", "release"}
    BY <1>1 DEF ClaimExpireOld, ClaimUpdate, Goto, TypeOK
  <2>2. QED
    BY <2>1 DEF PastInv, OldInv, ReadPc
<1>8. LockStep /\ StaleInv'
  BY <1>1, <1>3 DEF LockStep, StaleInv, ExpiredTypes
<1>9. HandInv'
  BY <1>1, <1>3, HandKeeps
<1>10. QED
  BY <1>5, <1>6, <1>7, <1>8, <1>9 DEF StepOf, RunnerInv

LEMMA ReleaseStep ==
  ASSUME RowInv, ClaimInv, NEW r \in Runners, ClaimRelease(r)
  PROVE  StepOf(r)
<1>1. TypeOK /\ StaleInv /\ [Next]_vars
  BY DEF RowInv, TypeInv, ClaimInv, Next, Loop
<1>2. /\ UNCHANGED <<tasks, hand, cur, old>>
      /\ pc'[r] \in {"idle", "pick"}
      /\ \A q \in Runners \ {r} : pc'[q] = pc[q]
      /\ ReleaseSystemTaskLock(cur[r].task, r)
  BY <1>1 DEF ClaimRelease, NextType, Goto, TypeOK
<1>3. \A q \in Runners \ {r} : Rests(q)
  BY <1>1, <1>2, ReleaseKeeps DEF Rests
<1>4. LockStep /\ StaleInv'
  BY <1>1, <1>2, ReleaseKeeps DEF LockStep
<1>5. RunnerInv(r)'
  BY <1>2 DEF RunnerInv, CurInv, PastInv, OldInv, ClaimPc, ReadPc
<1>6. QED
  BY <1>1, <1>2, <1>3, <1>4, <1>5, HandKeeps DEF StepOf

LEMMA DispatchStep ==
  ASSUME RowInv, ClaimInv, NEW r \in Runners, Dispatch(r)
  PROVE  StepOf(r)
<1>1. TypeOK /\ WorksOnRow /\ StaleInv /\ CurInv(r) /\ HandInv
  BY DEF RowInv, TypeInv, ClaimInv, RunnerInv
<1>2. cur[r].task \in TaskIds /\ tasks[cur[r].task].by = r
  BY <1>1 DEF Dispatch, At, WorksOnRow, LockRow, CurInv, ClaimPc
<1>3. /\ UNCHANGED <<tasks, cur, old, locks, stale>>
      /\ pc'[r] \in {"idle", "pick"}
      /\ \A q \in Runners \ {r} : pc'[q] = pc[q]
      /\ hand' = [hand EXCEPT ![cur[r].task] = "running"]
  BY <1>1 DEF Dispatch, NextType, Goto, TypeOK
<1>4. \A q \in Runners \ {r} : Rests(q)
  BY <1>1, <1>2, <1>3 DEF Rests, TypeOK
<1>5. RunnerInv(r)'
  BY <1>3 DEF RunnerInv, CurInv, PastInv, OldInv, ClaimPc, ReadPc
<1>6. LockStep /\ StaleInv'
  BY <1>1, <1>3 DEF LockStep, StaleInv, ExpiredTypes
<1>7. HandInv'
  BY <1>1, <1>2, <1>3, RunnersAssumption DEF HandInv, TypeOK
<1>8. QED
  BY <1>4, <1>5, <1>6, <1>7 DEF StepOf

\* A failed statement leaves the claim, or moves on inside it to the release or,
\* from the INSERT of the lock row, to the read.
LEMMA ErrorStep ==
  ASSUME RowInv, ClaimInv, NEW r \in Runners, LoopError(r)
  PROVE  StepOf(r)
<1>1. TypeOK /\ StaleInv /\ RunnerInv(r) /\ [Next]_vars
  BY DEF RowInv, TypeInv, ClaimInv, Next
<1>2. /\ UNCHANGED <<tasks, hand, cur, old, locks, stale>>
      /\ \A q \in Runners \ {r} : pc'[q] = pc[q]
  BY <1>1 DEF LoopError, AfterStale, NextType, Goto, TypeOK
<1>3. \/ pc'[r] \notin ClaimPc
      \/ pc[r] = "acquire" /\ pc'[r] = "lockread"
      \/ pc[r] \in {"expireold", "update"} /\ pc'[r] = "release"
  BY <1>1 DEF LoopError, AfterStale, NextType, Goto, TypeOK, ClaimPc
<1>4. RunnerInv(r)'
  <2>1. CASE pc'[r] \notin ClaimPc
    BY <2>1 DEF RunnerInv, CurInv, PastInv, OldInv, ClaimPc, ReadPc
  <2>2. CASE pc[r] = "acquire" /\ pc'[r] = "lockread"
    BY <1>1, <1>2, <2>2 DEF RunnerInv, CurInv, PastInv, OldInv, ClaimPc, ReadPc
  <2>3. CASE pc[r] \in {"expireold", "update"} /\ pc'[r] = "release"
    BY <1>1, <1>2, <2>3 DEF RunnerInv, CurInv, PastInv, OldInv, ClaimPc, ReadPc
  <2>4. QED
    BY <1>3, <2>1, <2>2, <2>3
<1>5. QED
  BY <1>1, <1>2, <1>4, QuietStep DEF StaleInv

\* Crashes, handlers, requests and time leave every loop where it is.
LEMMA OtherSteps ==
  ASSUME RowInv, ClaimInv,
         \/ \E r \in Runners : Crash(r)
         \/ \E k \in TaskIds : Handler(k) \/ HandlerError(k)
         \/ \E t \in Types : EnqueueSystemTask(t) \/ LeaseExpires(t)
  PROVE  (\A q \in Runners : Rests(q)) /\ LockStep /\ StaleInv' /\ HandInv'
<1>1. TypeOK /\ StaleInv /\ HandInv /\ [Next]_vars
  BY DEF RowInv, TypeInv, ClaimInv, Next
<1>2. CASE \E r \in Runners : Crash(r)
  <2>1. UNCHANGED <<tasks, locks, stale, hand, pc, cur, old>>
    BY <1>2 DEF Crash, loopVars
  <2>2. QED
    BY <1>1, <2>1, HandKeeps DEF Rests, LockStep, StaleInv, ExpiredTypes
<1>3. ASSUME NEW k \in TaskIds, RenewSystemTaskLock(k) \/ HandlerError(k)
      PROVE  (\A q \in Runners : Rests(q)) /\ LockStep /\ StaleInv' /\ HandInv'
  <2>1. UNCHANGED <<tasks, locks, stale, pc, cur, old>>
    BY <1>3 DEF RenewSystemTaskLock, HandlerError, loopVars
  <2>2. \A j \in TaskIds :
          \/ hand'[j] = hand[j]
          \/ hand[j] # "none" /\ hand'[j] \in {"cancelled", "done"}
    BY <1>1, <1>3 DEF RenewSystemTaskLock, HandlerError, HandAt, HandGoto, TypeOK
  <2>3. QED
    BY <1>1, <2>1, <2>2, HandKeeps DEF Rests, LockStep, StaleInv, ExpiredTypes
<1>4. ASSUME NEW k \in TaskIds, FinishSystemTask(k)
      PROVE  (\A q \in Runners : Rests(q)) /\ LockStep /\ StaleInv' /\ HandInv'
  <2>1. UNCHANGED <<locks, stale, pc, cur, old>> /\ hand[k] # "none"
    BY <1>4 DEF FinishSystemTask, HandAt, loopVars
  <2>2. \/ UNCHANGED tasks /\ hand'[k] = "done"
        \/ hand'[k] = "release" /\ Ends(k)
    BY <1>1, <1>4 DEF FinishSystemTask, HandGoto, TypeOK, Ends
  <2>3. \A j \in TaskIds : tasks'[j].by = tasks[j].by
    <3>1. CASE UNCHANGED tasks
      BY <3>1
    <3>2. CASE Ends(k)
      <4>1. PICK s \in Terminal :
              tasks' = [tasks EXCEPT ![k] = [@ EXCEPT !.status = s, !.active = "none"]]
        BY <3>2 DEF Ends
      <4>2. QED
        BY <1>1, <4>1 DEF TypeOK, TaskRow
    <3>3. QED
      BY <2>2, <3>1, <3>2
  <2>4. \A j \in TaskIds \ {k} : hand'[j] = hand[j]
    BY <1>1, <1>4 DEF FinishSystemTask, HandGoto, TypeOK
  <2>5. \/ hand'[k] = "done"
        \/ hand'[k] = "release" /\ tasks'[k].status \in Terminal
    BY ZenonT(60), <1>1, <2>2 DEF Ends, TypeOK, TaskRow
  <2>6. HandInv'
    BY <1>1, <2>1, <2>3, <2>4, <2>5, RowKept DEF HandInv
  <2>7. QED
    BY <1>1, <2>1, <2>3, <2>4, <2>6 DEF Rests, LockStep, StaleInv, ExpiredTypes
<1>5. ASSUME NEW k \in TaskIds, FinishRelease(k)
      PROVE  (\A q \in Runners : Rests(q)) /\ LockStep /\ StaleInv' /\ HandInv'
  <2>1. /\ UNCHANGED <<tasks, pc, cur, old>> /\ hand[k] = "release"
        /\ ReleaseSystemTaskLock(k, tasks[k].by)
    BY <1>5 DEF FinishRelease, HandAt, loopVars
  <2>2. \A j \in TaskIds :
          \/ hand'[j] = hand[j]
          \/ hand[j] # "none" /\ hand'[j] \in {"cancelled", "done"}
    BY <1>1, <1>5, <2>1 DEF FinishRelease, HandGoto, TypeOK
  <2>3. HandInv'
    BY <1>1, <2>2, HandKeeps
  <2>4. StaleInv' /\ LockStep
    BY <1>1, <2>1, ReleaseKeeps DEF LockStep
  <2>5. \A q \in Runners : Rests(q)
    BY <1>1, <2>1, <2>2, ReleaseKeeps DEF Rests
  <2>6. QED
    BY <2>3, <2>4, <2>5
<1>6. ASSUME NEW t \in Types, EnqueueSystemTask(t)
      PROVE  (\A q \in Runners : Rests(q)) /\ LockStep /\ StaleInv' /\ HandInv'
  <2>1. UNCHANGED <<locks, stale, hand, pc, cur, old>> /\ CreateSystemTask(t)
    BY <1>6 DEF EnqueueSystemTask, loopVars
  <2>2. \A q \in Runners : Rests(q)
    BY <1>1, <2>1, InsertKeepsBy DEF Rests
  <2>3. QED
    BY <1>1, <2>1, <2>2, HandKeeps DEF LockStep, StaleInv, ExpiredTypes
<1>7. ASSUME NEW t \in Types, LeaseExpires(t)
      PROVE  (\A q \in Runners : Rests(q)) /\ LockStep /\ StaleInv' /\ HandInv'
  <2>1. /\ UNCHANGED <<tasks, stale, hand, pc, cur, old>>
        /\ locks[t] # NoLock /\ ~locks[t].expired
        /\ locks' = [locks EXCEPT ![t].expired = TRUE]
    BY <1>7 DEF LeaseExpires, loopVars
  <2>2. locks[t] \in Lease /\ \A u \in Types \ {t} : locks'[u] = locks[u]
    BY <1>1, <2>1 DEF TypeOK
  <2>3. locks'[t].task = locks[t].task /\ locks'[t].expired
    BY <1>1, <2>1, <2>2 DEF TypeOK, Lease
  <2>4. \A q \in Runners : \A u \in stale[q] : u \in Types /\ locks'[u] = locks[u]
    BY <1>1, <2>1, <2>2 DEF StaleInv, ExpiredTypes
  <2>5. QED
    BY <1>1, <2>1, <2>2, <2>3, <2>4, HandKeeps DEF Rests, LockStep, StaleInv, ExpiredTypes
<1>8. QED
  BY <1>2, <1>3, <1>4, <1>5, <1>6, <1>7 DEF Handler

LEMMA NextClaim ==
  ASSUME RowInv, ClaimInv, [Next]_vars
  PROVE  ClaimInv'
<1>1. ASSUME NEW r \in Runners, Loop(r) \/ LoopError(r)
      PROVE  ClaimInv'
  <2>1. StepOf(r)
    BY <1>1, CleanupSteps, RowSteps, DeleteStep, BeginStep, CreateLockStep, ReadLockStep,
       StealStep, UpdateSteps, ReleaseStep, DispatchStep, ErrorStep DEF Loop
  <2>2. QED
    BY <2>1, RestsKeeps, LockStepKeeps DEF StepOf, ClaimInv
<1>2. CASE \/ \E r \in Runners : Crash(r)
           \/ \E k \in TaskIds : Handler(k) \/ HandlerError(k)
           \/ \E t \in Types : EnqueueSystemTask(t) \/ LeaseExpires(t)
  BY <1>2, OtherSteps, RestsKeeps, LockStepKeeps DEF ClaimInv
<1>3. CASE UNCHANGED vars
  BY <1>3 DEF vars, ClaimInv, RunnerInv, CurInv, PastInv, OldInv, StaleInv, ExpiredTypes,
              LockInv, HandInv
<1>4. QED
  BY <1>1, <1>2, <1>3 DEF Next

LEMMA ClaimInvariant == Spec => [](RowInv /\ ClaimInv)
<1>1. Init => ClaimInv
  BY DEF Init, ClaimInv, RunnerInv, CurInv, PastInv, OldInv, StaleInv, ExpiredTypes, LockInv,
         HandInv, ClaimPc, ReadPc, NoLock
<1>2. RowInv /\ ClaimInv /\ [Next]_vars => ClaimInv'
  BY NextClaim
<1>3. QED
  BY <1>1, <1>2, RowsInvariant, PTL DEF Spec, RowInv

\* Taking over an expired lock never finds a running task behind it, for any
\* number of runners, crashes, stalls and failed statements: the "lease expired"
\* mark of ClaimSystemTask is only a precaution.
THEOREM TakeoverIsClean == Spec => []TakeoverFindsNothingRunning
<1>1. RowInv /\ ClaimInv => TakeoverFindsNothingRunning
  BY DEF ClaimInv, RunnerInv, OldInv, TakeoverFindsNothingRunning, At, Terminal
<1>2. QED
  BY <1>1, ClaimInvariant, PTL

-----------------------------------------------------------------------------
(* The lease of timely holders.                                            *)

\* A live claim that took the lock has it, and so has a live handler that was
\* not cancelled; both unexpired.
ClaimHolds(r) == r \in alive /\ pc[r] \in HoldPc => locks[cur[r].type] = OwnLock(r)
HandHolds(k) ==
  HandAt(k, {"running", "release"}) =>
    locks[tasks[k].type] = [task |-> k, by |-> tasks[k].by, expired |-> FALSE]

\* The lock row that the cleanup is about to delete, or a claim to take over, is
\* not of a running task, unless it was written since it was seen expired.
CleanupIsSafe(r) ==
  pc[r] = "delete" /\ StillStale(r) => tasks[cur[r].task].status # "running"
TakeoverIsSafe(r) ==
  pc[r] \in ReadPc /\ cur[r].type \in stale[r] =>
    tasks[locks[cur[r].type].task].status # "running"

LeaseInv ==
  /\ \A r \in Runners : ClaimHolds(r) /\ CleanupIsSafe(r) /\ TakeoverIsSafe(r)
  /\ \A k \in TaskIds : HandHolds(k)
  /\ RunningHasLock

\* The statements that change the lock row of type t.
LockWrites(t) ==
  \/ \E r \in Runners :
       \/ DeleteStale(r) /\ cur[r].type = t /\ StillStale(r)
       \/ LockCreate(r) /\ cur[r].type = t /\ locks[t] = NoLock
       \/ LockSteal(r) /\ cur[r].type = t /\ t \in stale[r]
       \/ ClaimRelease(r) /\ locks[t].task = cur[r].task /\ locks[t].by = r
  \/ \E k \in TaskIds : FinishRelease(k) /\ locks[t].task = k /\ locks[t].by = tasks[k].by
  \/ LeaseExpires(t)

LEMMA LockChange ==
  ASSUME RowInv, ClaimInv, [Next]_vars, NEW t \in Types, locks'[t] # locks[t]
  PROVE  LockWrites(t)
<1>1. TypeOK /\ WorksOnRow /\ StaleInv
  BY DEF RowInv, TypeInv, ClaimInv
<1>2. ASSUME NEW r \in Runners, Loop(r)
      PROVE  LockWrites(t)
  <2>1. CASE DeleteStale(r)
    BY <1>1, <2>1 DEF DeleteStale, WriteLock, TypeOK, LockWrites
  <2>2. CASE LockCreate(r)
    BY <1>1, <2>2 DEF LockCreate, WriteLock, TypeOK, LockWrites
  <2>3. CASE LockSteal(r)
    BY <1>1, <2>3 DEF LockSteal, WriteLock, TypeOK, LockWrites
  <2>4. CASE ClaimRelease(r)
    BY <1>1, <2>4, ReleaseKeeps DEF ClaimRelease, LockWrites
  <2>5. CASE UNCHANGED locks
    BY <2>5
  <2>6. QED
    BY <1>2, <2>1, <2>2, <2>3, <2>4, <2>5
       DEF Loop, RunPass, StaleQuery, MarkStale, SchedulerQuery, SchedulerCreate, ClaimQuery,
           ClaimBegin, LockRead, ClaimExpireOld, ClaimUpdate, Dispatch
<1>3. ASSUME NEW r \in Runners, LoopError(r) \/ Crash(r)
      PROVE  FALSE
  BY <1>3 DEF LoopError, Crash
<1>4. ASSUME NEW k \in TaskIds, Handler(k) \/ HandlerError(k)
      PROVE  LockWrites(t)
  <2>1. CASE FinishRelease(k)
    BY <1>1, <2>1, ReleaseKeeps DEF FinishRelease, LockWrites
  <2>2. QED
    BY <1>4, <2>1 DEF Handler, RenewSystemTaskLock, FinishSystemTask, HandlerError
<1>5. ASSUME NEW u \in Types, EnqueueSystemTask(u) \/ LeaseExpires(u)
      PROVE  LockWrites(t)
  BY <1>1, <1>5 DEF EnqueueSystemTask, LeaseExpires, TypeOK, LockWrites
<1>6. QED
  BY <1>2, <1>3, <1>4, <1>5 DEF Next, vars

\* A row becomes running by the UPDATE of a claim only.
LEMMA RunningChange ==
  ASSUME RowInv, [Next]_vars, NEW k \in TaskIds,
         tasks'[k].status = "running", tasks[k].status # "running"
  PROVE  \E r \in Runners : ClaimUpdate(r) /\ cur[r].task = k /\ tasks[k].status = "pending"
<1>1. TypeOK /\ WorksOnRow
  BY DEF RowInv, TypeInv
<1>2. ASSUME NEW j, MarkSystemTaskLeaseExpired(j)
      PROVE  FALSE
  <2>1. tasks[k] \in TaskRow
    BY <1>1 DEF TypeOK
  <2>2. QED
    BY <1>2, <2>1 DEF MarkSystemTaskLeaseExpired, Expirable
<1>3. ASSUME NEW t \in Types, CreateSystemTask(t)
      PROVE  FALSE
  BY <1>1, <1>3 DEF CreateSystemTask, TypeOK
<1>4. ASSUME NEW r \in Runners, Loop(r)
      PROVE  ClaimUpdate(r) /\ cur[r].task = k /\ tasks[k].status = "pending"
  <2>1. CASE MarkStale(r) \/ ClaimExpireOld(r)
    BY <1>2, <2>1 DEF MarkStale, ClaimExpireOld
  <2>2. CASE SchedulerCreate(r)
    BY <1>1, <1>3, <2>2 DEF SchedulerCreate, TypeOK
  <2>3. CASE ClaimUpdate(r)
    BY <1>1, <2>3 DEF ClaimUpdate, Claimable, TypeOK
  <2>4. CASE UNCHANGED tasks
    BY <2>4
  <2>5. QED
    BY <1>4, <2>1, <2>2, <2>3, <2>4
       DEF Loop, RunPass, StaleQuery, DeleteStale, SchedulerQuery, ClaimQuery, ClaimBegin,
           LockCreate, LockRead, LockSteal, ClaimRelease, Dispatch
<1>5. ASSUME NEW j \in TaskIds, FinishSystemTask(j)
      PROVE  FALSE
  <2>1. PICK s \in Terminal :
          \/ tasks' = [tasks EXCEPT ![j] = [@ EXCEPT !.status = s, !.active = "none"]]
          \/ UNCHANGED tasks
    BY <1>5 DEF FinishSystemTask
  <2>2. QED
    BY <1>1, <2>1 DEF TypeOK, TaskRow, Terminal
<1>6. QED
  BY <1>3, <1>4, <1>5
     DEF Next, vars, LoopError, Crash, Handler, RenewSystemTaskLock, FinishRelease,
         HandlerError, EnqueueSystemTask, LeaseExpires

\* What a runner knows to be expired grows only with a new `now`; a row written
\* by anybody is not in it any more.
LEMMA StaleChange ==
  ASSUME RowInv, ClaimInv, [Next]_vars, NEW r \in Runners, NEW t \in stale'[r]
  PROVE  \/ t \in stale[r] /\ locks'[t] = locks[t]
         \/ StaleQuery(r) \/ ClaimBegin(r)
<1>1. TypeOK /\ WorksOnRow /\ StaleInv
  BY DEF RowInv, TypeInv, ClaimInv
<1> DEFINE Kept == t \in stale[r] /\ locks'[t] = locks[t]
<1>2. ASSUME NEW q \in Runners, Loop(q) \/ LoopError(q)
      PROVE  Kept \/ StaleQuery(r) \/ ClaimBegin(r)
  <2>1. CASE q # r
    <3>1. Rests(r)
      BY <1>2, <2>1, CleanupSteps, RowSteps, DeleteStep, BeginStep, CreateLockStep,
         ReadLockStep, StealStep, UpdateSteps, ReleaseStep, DispatchStep, ErrorStep
         DEF Loop, StepOf
    <3>2. QED
      BY <3>1 DEF Rests
  <2>2. CASE q = r
    <3>1. CASE UNCHANGED <<locks, stale>>
      BY <3>1
    <3>2. CASE DeleteStale(r) \/ LockCreate(r) \/ LockSteal(r)
      <4>1. cur[r].type \in Types
        BY <1>1, <3>2 DEF DeleteStale, LockCreate, LockSteal, At, WorksOnRow, LockRow
      <4>2. UNCHANGED <<locks, stale>> \/ \E row : WriteLock(cur[r].type, row)
        BY <3>2 DEF DeleteStale, LockCreate, LockSteal
      <4>3. QED
        BY <1>1, <4>1, <4>2, WriteLockKeeps
    <3>3. CASE ClaimRelease(r)
      BY <1>1, <3>3, ReleaseKeeps DEF ClaimRelease
    <3>4. QED
      BY <1>2, <2>2, <3>1, <3>2, <3>3
         DEF Loop, RunPass, MarkStale, SchedulerQuery, SchedulerCreate, ClaimQuery, LockRead,
             ClaimExpireOld, ClaimUpdate, Dispatch, LoopError
  <2>3. QED
    BY <2>1, <2>2
<1>3. CASE \/ \E q \in Runners : Crash(q)
           \/ \E k \in TaskIds : Handler(k) \/ HandlerError(k)
           \/ \E u \in Types : EnqueueSystemTask(u) \/ LeaseExpires(u)
  BY <1>3, OtherSteps DEF Rests
<1>4. CASE UNCHANGED vars
  BY <1>4 DEF vars
<1>5. QED
  BY <1>2, <1>3, <1>4 DEF Next

\* How a loop gets to the places LeaseInv speaks of.
LEMMA LoopChange ==
  ASSUME RowInv, ClaimInv, [Next]_vars, NEW r \in Runners
  PROVE  /\ pc'[r] \in HoldPc =>
              \/ pc[r] \in HoldPc /\ cur'[r] = cur[r] /\ ~ClaimRelease(r)
              \/ pc[r] \in ReadPc /\ cur'[r] = cur[r] /\ locks'[cur[r].type] = OwnLock(r)
         /\ pc'[r] \in ReadPc =>
              \/ pc[r] \in ReadPc /\ cur'[r] = cur[r] /\ ~StaleQuery(r) /\ ~ClaimBegin(r)
              \/ ClaimBegin(r)
         /\ pc'[r] = "delete" =>
              \/ pc[r] = "delete" /\ cur'[r] = cur[r] /\ ~StaleQuery(r) /\ ~ClaimBegin(r)
              \/ MarkStale(r)
<1>1. TypeOK /\ WorksOnRow
  BY DEF RowInv, TypeInv
<1> DEFINE Goal ==
         /\ pc'[r] \in HoldPc =>
              \/ pc[r] \in HoldPc /\ cur'[r] = cur[r] /\ ~ClaimRelease(r)
              \/ pc[r] \in ReadPc /\ cur'[r] = cur[r] /\ locks'[cur[r].type] = OwnLock(r)
         /\ pc'[r] \in ReadPc =>
              \/ pc[r] \in ReadPc /\ cur'[r] = cur[r] /\ ~StaleQuery(r) /\ ~ClaimBegin(r)
              \/ ClaimBegin(r)
         /\ pc'[r] = "delete" =>
              \/ pc[r] = "delete" /\ cur'[r] = cur[r] /\ ~StaleQuery(r) /\ ~ClaimBegin(r)
              \/ MarkStale(r)
<1>2. /\ pc[r] # "stale" => ~StaleQuery(r)
      /\ pc[r] # "pick" => ~ClaimBegin(r)
      /\ pc[r] # "release" => ~ClaimRelease(r)
  BY DEF StaleQuery, ClaimBegin, ClaimRelease, At
<1>3. ClaimRelease(r) => pc'[r] \in {"idle", "pick"}
  BY <1>1 DEF ClaimRelease, NextType, Goto, TypeOK
<1>4. CASE pc'[r] = pc[r] /\ cur'[r] = cur[r]
  BY <1>2, <1>3, <1>4 DEF HoldPc, ReadPc
<1>5. CASE Loop(r)
  <2>1. CASE pc'[r] \notin HoldPc \cup ReadPc \cup {"delete"}
    BY <2>1
  <2>2. CASE MarkStale(r)
    BY <1>1, <2>2 DEF MarkStale, Goto, TypeOK, HoldPc, ReadPc
  <2>3. CASE ClaimBegin(r)
    BY ZenonT(60), <1>1, <2>3 DEF ClaimBegin, Goto, TypeOK, HoldPc, ReadPc
  <2>4. CASE LockCreate(r) \/ LockSteal(r)
    <3>1. cur[r].type \in Types /\ cur'[r] = cur[r] /\ pc[r] \in ReadPc
      BY <1>1, <2>4 DEF LockCreate, LockSteal, At, WorksOnRow, LockRow, ReadPc
    <3>2. \/ pc'[r] \in {"lockread", "idle", "pick"}
          \/ pc'[r] \in HoldPc /\ WriteLock(cur[r].type, OwnLock(r))
      BY <1>1, <2>4 DEF LockCreate, LockSteal, NextType, Goto, TypeOK, HoldPc
    <3>3. WriteLock(cur[r].type, OwnLock(r)) => locks'[cur[r].type] = OwnLock(r)
      BY <1>1, <3>1 DEF WriteLock, TypeOK
    <3>4. QED
      BY <1>2, <3>1, <3>2, <3>3 DEF HoldPc, ReadPc
  <2>5. CASE LockRead(r)
    <3>1. pc'[r] \in {"steal", "idle", "pick"} /\ cur'[r] = cur[r] /\ pc[r] = "lockread"
      BY <1>1, <2>5 DEF LockRead, At, NextType, Goto, TypeOK
    <3>2. QED
      BY <1>2, <3>1 DEF HoldPc, ReadPc
  <2>6. CASE ClaimExpireOld(r) \/ ClaimUpdate(r)
    <3>1. /\ pc'[r] \in {"update", "dispatch", "release"} /\ cur'[r] = cur[r]
          /\ pc[r] \in {"expireold", "update"}
      BY <1>1, <2>6 DEF ClaimExpireOld, ClaimUpdate, At, Goto, TypeOK
    <3>2. QED
      BY <1>2, <3>1 DEF HoldPc, ReadPc
  <2>7. CASE RunPass(r) \/ StaleQuery(r) \/ DeleteStale(r) \/ SchedulerQuery(r)
             \/ SchedulerCreate(r) \/ ClaimQuery(r) \/ ClaimRelease(r) \/ Dispatch(r)
    <3>1. pc'[r] \in {"stale", "mark", "sched", "create", "claim", "pick", "idle"}
      BY <1>1, <2>7
         DEF RunPass, StaleQuery, DeleteStale, SchedulerQuery, SchedulerCreate, ClaimQuery,
             ClaimRelease, Dispatch, AfterStale, NextType, Goto, TypeOK
    <3>2. QED
      BY <2>1, <3>1 DEF HoldPc, ReadPc
  <2>8. QED
    BY <1>5, <2>2, <2>3, <2>4, <2>5, <2>6, <2>7 DEF Loop
<1>6. CASE LoopError(r)
  <2>1. /\ cur'[r] = cur[r]
        /\ \/ pc'[r] \in {"sched", "claim", "idle", "pick", "create"}
           \/ pc[r] = "acquire" /\ pc'[r] = "lockread"
           \/ pc[r] \in {"expireold", "update"} /\ pc'[r] = "release"
    BY <1>1, <1>6 DEF LoopError, AfterStale, NextType, Goto, TypeOK
  <2>2. QED
    BY <1>2, <2>1 DEF HoldPc, ReadPc
<1>7. ASSUME NEW q \in Runners \ {r}, Loop(q) \/ LoopError(q)
      PROVE  pc'[r] = pc[r] /\ cur'[r] = cur[r]
  BY <1>7, CleanupSteps, RowSteps, DeleteStep, BeginStep, CreateLockStep, ReadLockStep,
     StealStep, UpdateSteps, ReleaseStep, DispatchStep, ErrorStep DEF Loop, StepOf, Rests
<1>8. ASSUME \/ UNCHANGED vars
             \/ \E q \in Runners : Crash(q)
             \/ \E k \in TaskIds : Handler(k) \/ HandlerError(k)
             \/ \E t \in Types : EnqueueSystemTask(t) \/ LeaseExpires(t)
      PROVE  pc'[r] = pc[r] /\ cur'[r] = cur[r]
  BY <1>8 DEF vars, Crash, Handler, RenewSystemTaskLock, FinishSystemTask, FinishRelease,
              HandlerError, EnqueueSystemTask, LeaseExpires, loopVars
<1>9. Goal
  BY <1>4, <1>5, <1>6, <1>7, <1>8 DEF Next
<1>10. QED
  BY <1>9

\* How a handler gets to hold a lease.
LEMMA HandChange ==
  ASSUME RowInv, [Next]_vars, NEW k \in TaskIds, hand'[k] \in {"running", "release"}
  PROVE  \/ hand[k] \in {"running", "release"} /\ ~FinishRelease(k)
         \/ \E r \in Runners : Dispatch(r) /\ cur[r].task = k
         \/ hand[k] = "cancelled" /\ HandAt(k, {"cancelled"}) /\ HoldsLease(k)
            /\ UNCHANGED locks
<1>1. TypeOK
  BY DEF RowInv, TypeInv
<1>2. FinishRelease(k) => hand'[k] = "done"
  BY <1>1 DEF FinishRelease, HandGoto, TypeOK
<1>3. CASE hand'[k] = hand[k]
  BY <1>2, <1>3
<1>4. ASSUME NEW r \in Runners, Loop(r), hand'[k] # hand[k]
      PROVE  Dispatch(r) /\ cur[r].task = k
  <2>1. CASE Dispatch(r)
    BY <1>1, <1>4, <2>1 DEF Dispatch, TypeOK
  <2>2. QED
    BY <1>4, <2>1
       DEF Loop, RunPass, StaleQuery, MarkStale, DeleteStale, SchedulerQuery, SchedulerCreate,
           ClaimQuery, ClaimBegin, LockCreate, LockRead, LockSteal, ClaimExpireOld,
           ClaimUpdate, ClaimRelease
<1>5. ASSUME NEW j \in TaskIds, FinishSystemTask(j), hand'[k] # hand[k]
      PROVE  \/ hand[k] \in {"running", "release"} /\ ~FinishRelease(k)
             \/ hand[k] = "cancelled" /\ HandAt(k, {"cancelled"}) /\ HoldsLease(k)
                /\ UNCHANGED locks
  <2>1. j = k /\ hand[k] \in {"running", "cancelled"} /\ HandAt(k, {"running", "cancelled"})
    BY <1>1, <1>5 DEF FinishSystemTask, HandAt, HandGoto, TypeOK
  <2>2. HoldsLease(k) /\ UNCHANGED locks
    BY <1>1, <1>5, <2>1 DEF FinishSystemTask, HandGoto, TypeOK
  <2>3. QED
    BY <1>2, <2>1, <2>2 DEF HandAt
<1>6. ASSUME NEW j \in TaskIds,
             RenewSystemTaskLock(j) \/ FinishRelease(j) \/ HandlerError(j)
      PROVE  hand'[k] = hand[k]
  BY <1>1, <1>6 DEF RenewSystemTaskLock, FinishRelease, HandlerError, HandGoto, TypeOK
<1>7. QED
  BY <1>3, <1>4, <1>5, <1>6
     DEF Next, vars, LoopError, Crash, Handler, EnqueueSystemTask, LeaseExpires

-----------------------------------------------------------------------------
(* Every step keeps LeaseInv.                                              *)

\* A claim and a handler that hold a lease are at work in the sense of
\* HolderActive, and whoever is has an unexpired row.
LEMMA ActiveLease ==
  ASSUME RowInv, ClaimInv, LeaseInv, NEW t \in Types, HolderActive(t)
  PROVE  locks[t] # NoLock /\ ~locks[t].expired
<1>1. TypeOK /\ WorksOnRow /\ LockInv /\ locks[t].by \in alive
  BY DEF RowInv, TypeInv, ClaimInv, HolderActive
<1>2. locks[t] \in Lease /\ locks[t] # NoLock
  BY <1>1, RunnersAssumption DEF TypeOK, NoLock
<1> DEFINE k == locks[t].task
           r == locks[t].by
<1>3. r \in Runners /\ k \in TaskIds /\ tasks[k].type = t
  BY <1>1, <1>2 DEF Lease, LockInv
<1>4. CASE cur[r].task = k /\ pc[r] \in HoldPc
  <2>1. CurInv(r) /\ ClaimHolds(r)
    BY <1>3 DEF ClaimInv, RunnerInv, LeaseInv
  <2>2. cur[r].type = t
    BY <1>3, <1>4, <2>1 DEF CurInv, HoldPc, ClaimPc
  <2>3. QED
    BY <1>1, <1>2, <1>4, <2>1, <2>2 DEF ClaimHolds, OwnLock
<1>5. CASE tasks[k].by = r /\ hand[k] \in {"running", "release"}
  <2>1. HandHolds(k)
    BY <1>3 DEF LeaseInv
  <2>2. QED
    BY <1>1, <1>2, <1>3, <1>5, <2>1 DEF HandHolds, HandAt
<1>6. QED
  BY <1>4, <1>5 DEF HolderActive, HoldPc

\* The row of a holder at work is changed by that holder's release only.
LEMMA HolderKept ==
  ASSUME TimelyHolders, RowInv, ClaimInv, LeaseInv, [Next]_vars,
         NEW t \in Types, HolderActive(t), locks'[t] # locks[t]
  PROVE  LET k == locks[t].task
             r == locks[t].by
         IN  \/ FinishRelease(k) /\ hand[k] = "release" /\ tasks[k].by = r
             \/ ClaimRelease(r) /\ cur[r].task = k /\ pc[r] = "release"
<1>1. LockWrites(t)
  BY LockChange
<1>2. locks[t] # NoLock /\ ~locks[t].expired /\ StaleInv
  BY ActiveLease DEF ClaimInv
<1>3. \A r \in Runners : t \notin stale[r]
  BY <1>2 DEF StaleInv, ExpiredTypes
<1>4. QED
  BY <1>1, <1>2, <1>3
     DEF LockWrites, StillStale, LeaseExpires, FinishRelease, HandAt, ClaimRelease, At

LEMMA ClaimHoldsKept ==
  ASSUME TimelyHolders, RowInv, ClaimInv, LeaseInv, [Next]_vars, NEW r \in Runners
  PROVE  ClaimHolds(r)'
<1> SUFFICES ASSUME r \in alive', pc'[r] \in HoldPc
             PROVE  locks'[cur'[r].type] = [task |-> cur'[r].task, by |-> r, expired |-> FALSE]
  BY DEF ClaimHolds, OwnLock
<1>1. TypeOK /\ WorksOnRow /\ CurInv(r) /\ ClaimHolds(r)
  BY DEF RowInv, TypeInv, ClaimInv, RunnerInv, LeaseInv
<1>2. r \in alive
  BY DEF Next, vars, Loop, RunPass, StaleQuery, MarkStale, DeleteStale, SchedulerQuery,
         SchedulerCreate, ClaimQuery, ClaimBegin, LockCreate, LockRead, LockSteal,
         ClaimExpireOld, ClaimUpdate, ClaimRelease, Dispatch, LoopError, Crash, Handler,
         RenewSystemTaskLock, FinishSystemTask, FinishRelease, HandlerError,
         EnqueueSystemTask, LeaseExpires
<1>3. CASE pc[r] \in HoldPc /\ cur'[r] = cur[r] /\ ~ClaimRelease(r)
  <2>1. cur[r].type \in Types /\ cur[r].task \in TaskIds
    BY <1>1, <1>3 DEF WorksOnRow, LockRow, HoldPc
  <2>2. locks[cur[r].type] = OwnLock(r)
    BY <1>1, <1>2, <1>3 DEF ClaimHolds
  <2>3. HolderActive(cur[r].type)
    BY <1>2, <1>3, <2>2 DEF HolderActive, OwnLock, HoldPc
  <2>4. ~(hand[cur[r].task] = "release" /\ tasks[cur[r].task].by = r)
    BY <1>1, <1>3 DEF CurInv, HoldPc, ClaimPc
  <2>5. locks'[cur[r].type] = locks[cur[r].type]
    BY <1>3, <2>1, <2>2, <2>3, <2>4, HolderKept DEF OwnLock
  <2>6. QED
    BY <1>3, <2>2, <2>5 DEF OwnLock
<1>4. CASE cur'[r] = cur[r] /\ locks'[cur[r].type] = OwnLock(r)
  BY <1>4 DEF OwnLock
<1>5. QED
  BY <1>3, <1>4, LoopChange

LEMMA HandHoldsKept ==
  ASSUME TimelyHolders, RowInv, ClaimInv, LeaseInv, [Next]_vars, NEW k \in TaskIds
  PROVE  HandHolds(k)'
<1> SUFFICES ASSUME hand'[k] \in {"running", "release"}, tasks'[k].by \in alive'
             PROVE  locks'[tasks'[k].type] =
                      [task |-> k, by |-> tasks'[k].by, expired |-> FALSE]
  BY DEF HandHolds, HandAt
<1>1. TypeOK /\ WorksOnRow /\ RealRows /\ HandInv /\ LockInv
  BY DEF RowInv, TypeInv, ClaimInv
<1>2. alive' \subseteq alive
  BY DEF Next, vars, Loop, RunPass, StaleQuery, MarkStale, DeleteStale, SchedulerQuery,
         SchedulerCreate, ClaimQuery, ClaimBegin, LockCreate, LockRead, LockSteal,
         ClaimExpireOld, ClaimUpdate, ClaimRelease, Dispatch, LoopError, Crash, Handler,
         RenewSystemTaskLock, FinishSystemTask, FinishRelease, HandlerError,
         EnqueueSystemTask, LeaseExpires
<1>3. tasks[k].by # NoRunner =>
        /\ tasks'[k].by = tasks[k].by /\ tasks'[k].type = tasks[k].type
        /\ tasks[k].type \in Types
  BY <1>1, RowKept DEF RowInv, RowsInv, UnclaimedUntilRunning, RealRows
<1>4. CASE hand[k] \in {"running", "release"} /\ ~FinishRelease(k)
  <2>1. tasks[k].by # NoRunner
    BY <1>1, <1>4 DEF HandInv
  <2>2. locks[tasks[k].type] = [task |-> k, by |-> tasks[k].by, expired |-> FALSE]
    BY <1>2, <1>3, <1>4, <2>1 DEF LeaseInv, HandHolds, HandAt
  <2>3. HolderActive(tasks[k].type) /\ tasks[k].by \in Runners
    BY <1>1, <1>2, <1>3, <1>4, <2>1, <2>2 DEF HolderActive, TypeOK
  <2>4. ~(cur[tasks[k].by].task = k /\ pc[tasks[k].by] = "release")
    BY <2>3 DEF ClaimInv, RunnerInv, CurInv, ClaimPc
  <2>5. locks'[tasks[k].type] = locks[tasks[k].type]
    BY <1>3, <1>4, <2>1, <2>2, <2>3, <2>4, HolderKept
  <2>6. QED
    BY <1>3, <2>1, <2>2, <2>5
<1>5. ASSUME NEW r \in Runners, Dispatch(r), cur[r].task = k
      PROVE  locks'[tasks'[k].type] =
               [task |-> k, by |-> tasks'[k].by, expired |-> FALSE]
  <2>1. UNCHANGED <<locks, tasks>> /\ r \in alive /\ pc[r] = "dispatch"
    BY <1>5 DEF Dispatch, At
  <2>2. CurInv(r) /\ ClaimHolds(r)
    BY DEF ClaimInv, RunnerInv, LeaseInv
  <2>3. QED
    BY <1>5, <2>1, <2>2 DEF CurInv, ClaimHolds, ClaimPc, HoldPc, OwnLock
<1>6. CASE hand[k] = "cancelled" /\ HoldsLease(k) /\ UNCHANGED locks
  <2>1. tasks[k].by # NoRunner
    BY <1>1, <1>6 DEF HandInv
  <2>2. PICK t \in Types : locks[t] = [task |-> k, by |-> tasks[k].by, expired |-> FALSE]
    BY <1>6 DEF HoldsLease
  <2>3. t = tasks[k].type
    BY <1>1, <2>1, <2>2 DEF LockInv, NoLock
  <2>4. QED
    BY <1>3, <1>6, <2>1, <2>2, <2>3
<1>7. QED
  BY <1>4, <1>5, <1>6, HandChange

\* A task whose lock row somebody knows to be expired does not become running: the
\* claim that would make it so holds the row unexpired.
LEMMA ExpiredNotClaimed ==
  ASSUME RowInv, ClaimInv, LeaseInv, [Next]_vars, NEW r \in Runners, NEW t \in stale[r],
         tasks[locks[t].task].status # "running"
  PROVE  tasks'[locks[t].task].status # "running"
<1> SUFFICES ASSUME tasks'[locks[t].task].status = "running"
             PROVE  FALSE
  OBVIOUS
<1> DEFINE k == locks[t].task
<1>1. TypeOK /\ WorksOnRow /\ StaleInv /\ LockInv
  BY DEF RowInv, TypeInv, ClaimInv
<1>2. t \in Types /\ locks[t].expired /\ locks[t] \in Lease
  BY <1>1 DEF StaleInv, ExpiredTypes, TypeOK, NoLock
<1>3. k \in TaskIds /\ tasks[k].type = t
  BY <1>1, <1>2 DEF Lease, LockInv, NoLock
<1>4. PICK q \in Runners : ClaimUpdate(q) /\ cur[q].task = k
  BY <1>3, RunningChange
<1>5. q \in alive /\ pc[q] = "update"
  BY <1>4 DEF ClaimUpdate, At
<1>6. CurInv(q) /\ ClaimHolds(q)
  BY DEF ClaimInv, RunnerInv, LeaseInv
<1>7. QED
  BY <1>2, <1>3, <1>4, <1>5, <1>6 DEF CurInv, ClaimHolds, ClaimPc, HoldPc, OwnLock

LEMMA CleanupKept ==
  ASSUME RowInv, ClaimInv, LeaseInv, [Next]_vars, NEW r \in Runners
  PROVE  CleanupIsSafe(r)'
<1> SUFFICES ASSUME pc'[r] = "delete", StillStale(r)'
             PROVE  tasks'[cur'[r].task].status # "running"
  BY DEF CleanupIsSafe
<1>1. TypeOK /\ WorksOnRow /\ CleanupIsSafe(r)
  BY DEF RowInv, TypeInv, LeaseInv
<1>2. CASE pc[r] = "delete" /\ cur'[r] = cur[r] /\ ~StaleQuery(r) /\ ~ClaimBegin(r)
  <2>1. /\ cur[r].type \in stale'[r]
        /\ [type |-> cur[r].type, task |-> locks'[cur[r].type].task,
            by |-> locks'[cur[r].type].by] = cur[r]
    BY <1>2 DEF StillStale, Row
  <2>2. cur[r].type \in stale[r] /\ locks'[cur[r].type] = locks[cur[r].type]
    BY <1>2, <2>1, StaleChange
  <2>3. StillStale(r) /\ locks[cur[r].type].task = cur[r].task
    BY <1>1, <1>2, <2>1, <2>2 DEF StillStale, Row, WorksOnRow, LockRow
  <2>4. QED
    BY <1>1, <1>2, <2>2, <2>3, ExpiredNotClaimed DEF CleanupIsSafe
<1>3. CASE MarkStale(r)
  <2>1. PICK l \in snap[r] : /\ cur' = [cur EXCEPT ![r] = l]
                             /\ MarkSystemTaskLeaseExpired(l.task)
    BY <1>3 DEF MarkStale
  <2>2. l \in LockRow /\ l.task \in TaskIds /\ cur'[r] = l
    BY <1>1, <2>1 DEF TypeOK, LockRow
  <2>3. tasks[l.task] \in TaskRow
    BY <1>1, <2>2 DEF TypeOK
  <2>4. LeaseExpiredRow(tasks[l.task]).status = "failed"
    BY <2>3 DEF LeaseExpiredRow, TaskRow
  <2>5. QED
    BY <2>1, <2>2, <2>4 DEF MarkSystemTaskLeaseExpired, Expirable
<1>4. QED
  BY <1>2, <1>3, LoopChange

LEMMA TakeoverKept ==
  ASSUME RowInv, ClaimInv, LeaseInv, [Next]_vars, NEW r \in Runners
  PROVE  TakeoverIsSafe(r)'
<1> SUFFICES ASSUME pc'[r] \in ReadPc, cur'[r].type \in stale'[r]
             PROVE  tasks'[locks'[cur'[r].type].task].status # "running"
  BY DEF TakeoverIsSafe
<1>1. TypeOK /\ WorksOnRow /\ TakeoverIsSafe(r)
  BY DEF RowInv, TypeInv, LeaseInv
<1>2. CASE pc[r] \in ReadPc /\ cur'[r] = cur[r] /\ ~StaleQuery(r) /\ ~ClaimBegin(r)
  <2>1. cur[r].type \in stale[r] /\ locks'[cur[r].type] = locks[cur[r].type]
    BY <1>2, StaleChange
  <2>2. QED
    BY <1>1, <1>2, <2>1, ExpiredNotClaimed DEF TakeoverIsSafe
<1>3. CASE ClaimBegin(r)
  <2>1. PICK k \in found[r] :
          IF tasks[k].status = "pending"
          THEN cur' = [cur EXCEPT ![r] = [type |-> tasks[k].type, task |-> k, by |-> r]]
          ELSE Goto(r, IF found[r] = {k} THEN "idle" ELSE "pick")
    BY <1>3 DEF ClaimBegin
  <2>2. tasks[k].status = "pending" /\ cur'[r].task = k
    BY <1>1, <2>1 DEF Goto, TypeOK, ReadPc
  <2>3. PastInv(r)' /\ UNCHANGED tasks
    BY <1>3, BeginStep DEF StepOf, RunnerInv, ClaimBegin
  <2>4. QED
    BY <2>2, <2>3 DEF PastInv, Terminal
<1>4. QED
  BY <1>2, <1>3, LoopChange

LEMMA RunningKept ==
  ASSUME TimelyHolders, RowInv, ClaimInv, LeaseInv, [Next]_vars
  PROVE  RunningHasLock'
<1> SUFFICES ASSUME NEW k \in TaskIds, tasks'[k].status = "running"
             PROVE  /\ locks'[tasks'[k].type].task = k
                    /\ locks'[tasks'[k].type].by = tasks'[k].by
  BY DEF RunningHasLock
<1>1. TypeOK /\ WorksOnRow /\ RealRows /\ HandInv /\ RunningHasLock
  BY DEF RowInv, TypeInv, ClaimInv, LeaseInv
<1>2. CASE tasks[k].status = "running"
  <2> DEFINE t == tasks[k].type
  <2>1. t \in Types /\ locks[t].task = k /\ locks[t].by = tasks[k].by
    BY <1>1, <1>2 DEF RealRows, RunningHasLock
  <2>2. locks[t] \in Lease /\ tasks[k].by # NoRunner
    BY <1>1, <2>1, RunnersAssumption DEF TypeOK, NoLock, NoTask, TaskIds, Lease
  <2>3. tasks'[k].type = t /\ tasks'[k].by = tasks[k].by
    BY <1>2, <2>2, RowKept
  <2>4. locks'[t].task = locks[t].task /\ locks'[t].by = locks[t].by
    <3>1. CASE locks'[t] = locks[t]
      BY <3>1
    <3>2. ASSUME NEW r \in Runners, DeleteStale(r), cur[r].type = t, StillStale(r)
          PROVE  FALSE
      <4>1. cur[r].task = k /\ pc[r] = "delete"
        BY <2>1, <3>2 DEF StillStale, Row, DeleteStale, At
      <4>2. QED
        BY <1>2, <3>2, <4>1 DEF LeaseInv, CleanupIsSafe
    <3>3. ASSUME NEW r \in Runners, LockSteal(r), cur[r].type = t, t \in stale[r]
          PROVE  FALSE
      BY <1>2, <2>1, <3>3 DEF LeaseInv, TakeoverIsSafe, LockSteal, At, ReadPc
    <3>4. ASSUME NEW r \in Runners, ClaimRelease(r), cur[r].task = k, tasks[k].by = r
          PROVE  FALSE
      BY <3>4 DEF ClaimInv, RunnerInv, CurInv, ClaimRelease, At, ClaimPc
    <3>5. ASSUME FinishRelease(k)
          PROVE  FALSE
      BY <1>1, <1>2, <3>5 DEF FinishRelease, HandAt, HandInv, Terminal
    <3>6. CASE LeaseExpires(t)
      BY <1>1, <2>1, <2>2, <3>6 DEF LeaseExpires, TypeOK, Lease
    <3>7. locks[t] # NoLock
      BY <2>2, RunnersAssumption DEF Lease, NoLock
    <3>8. locks'[t] # locks[t] => LockWrites(t)
      BY <2>1, LockChange
    <3>9. QED
      BY <2>1, <3>1, <3>2, <3>3, <3>4, <3>5, <3>6, <3>7, <3>8 DEF LockWrites
  <2>5. QED
    BY <2>1, <2>3, <2>4
<1>3. CASE tasks[k].status # "running"
  <2>1. PICK r \in Runners :
          ClaimUpdate(r) /\ cur[r].task = k /\ tasks[k].status = "pending"
    BY <1>3, RunningChange
  <2>2. r \in alive /\ pc[r] = "update" /\ UNCHANGED locks
    BY <2>1 DEF ClaimUpdate, At
  <2>3. tasks' = [tasks EXCEPT ![k] = [@ EXCEPT !.status = "running", !.by = r]]
    BY <2>1 DEF ClaimUpdate, Claimable
  <2>4. tasks'[k].by = r /\ tasks'[k].type = tasks[k].type
    BY <1>1, <2>3 DEF TypeOK, TaskRow
  <2>5. CurInv(r) /\ ClaimHolds(r)
    BY DEF ClaimInv, RunnerInv, LeaseInv
  <2>6. QED
    BY <2>1, <2>2, <2>4, <2>5 DEF CurInv, ClaimHolds, ClaimPc, HoldPc, OwnLock
<1>4. QED
  BY <1>2, <1>3

LEMMA LeaseInvariant == ASSUME TimelyHolders PROVE Spec => [](RowInv /\ ClaimInv /\ LeaseInv)
<1>1. Init => LeaseInv
  BY DEF Init, LeaseInv, ClaimHolds, HandHolds, HandAt, CleanupIsSafe, TakeoverIsSafe,
         RunningHasLock, HoldPc, ReadPc, NoRow
<1>2. RowInv /\ ClaimInv /\ LeaseInv /\ [Next]_vars => LeaseInv'
  BY ClaimHoldsKept, HandHoldsKept, CleanupKept, TakeoverKept, RunningKept DEF LeaseInv
<1>3. QED
  BY <1>1, <1>2, ClaimInvariant, PTL DEF Spec

\* With timely holders two handlers of one type never execute at the same time,
\* one whose context was cancelled aside, for any number of runners and types,
\* over crashes and failed statements (runWithLeaseHeartbeat).
THEOREM OneExecutorPerType == ASSUME TimelyHolders PROVE Spec => []OneExecutor
<1>1. LeaseInv => OneExecutor
  <2> SUFFICES ASSUME LeaseInv, NEW j \in TaskIds, NEW k \in TaskIds,
                      HandAt(j, {"running"}), HandAt(k, {"running"}),
                      tasks[j].type = tasks[k].type
               PROVE  j = k
    BY DEF OneExecutor
  <2>1. HandHolds(j) /\ HandHolds(k)
    BY DEF LeaseInv
  <2>2. /\ locks[tasks[j].type].task = j
        /\ locks[tasks[k].type].task = k
    BY <2>1 DEF HandHolds, HandAt
  <2>3. QED
    BY <2>2
<1>2. QED
  BY <1>1, LeaseInvariant, PTL

\* With timely holders a running row always has its lock row, so the stale-lock
\* cleanup finds it when its runner is gone (ExpireStaleSystemTaskLocks).
THEOREM RunningIsLocked == ASSUME TimelyHolders PROVE Spec => []RunningHasLock
<1>1. LeaseInv => RunningHasLock
  BY DEF LeaseInv
<1>2. QED
  BY <1>1, LeaseInvariant, PTL

\* With timely holders nobody but the holder touches the lock row of a claim or
\* a handler at work: not a cleanup that works from an old list, nor a claim that
\* read its `now` long ago (acquireSystemTaskLock, ExpireStaleSystemTaskLocks).
THEOREM LeaseIsKept == ASSUME TimelyHolders PROVE Spec => LockNotTakenFromHolder
<1>1. RowInv /\ ClaimInv /\ LeaseInv /\ [Next]_vars =>
        [\A t \in Types : HolderActive(t) /\ locks'[t] # locks[t] =>
           LET k == locks[t].task
               r == locks[t].by
           IN  hand[k] = "release" \/ pc[r] = "release"]_vars
  BY HolderKept
<1>2. QED
  BY <1>1, LeaseInvariant, PTL DEF Spec, LockNotTakenFromHolder

=============================================================================
