-------------------------- MODULE SystemTaskProofs --------------------------
(***************************************************************************)
(* Proofs about SystemTask that hold for every set of runners and types    *)
(* and every bound, whether or not holders are timely: type correctness,   *)
(* at most one active row per type, and stability of ended tasks.          *)
(***************************************************************************)
EXTENDS SystemTask, TLAPS

\* A claim or a cleanup that is past reading its row works on a real row.
WorksOnRow ==
  \A r \in Runners :
    pc[r] \in {"delete", "acquire", "lockread", "steal", "expireold", "update",
               "dispatch", "release"} => cur[r] \in LockRow

\* A row that exists has a registered type.
RealRows == \A k \in TaskIds : tasks[k].status # "none" => tasks[k].type \in Types

TypeInv == TypeOK /\ WorksOnRow /\ RealRows

\* active_key is set exactly while a row is pending or running.
Open == {"pending", "running"}
ActiveIffOpen ==
  \A k \in TaskIds :
    tasks[k].active = IF tasks[k].status \in Open THEN tasks[k].type ELSE "none"

ActiveUnique ==
  \A j, k \in TaskIds :
    /\ tasks[j].status \in Open
    /\ tasks[k].status \in Open
    /\ tasks[j].active = tasks[k].active
    => j = k

\* Ids from nextId on are unused.
FreshIds == \A k \in TaskIds : k >= nextId => tasks[k].status = "none"

\* locked_by is written by the claim and by nothing else.
UnclaimedUntilRunning ==
  \A k \in TaskIds : tasks[k].status \in {"none", "pending"} => tasks[k].by = NoRunner

RowsInv == ActiveIffOpen /\ ActiveUnique /\ FreshIds /\ UnclaimedUntilRunning

LEMMA InitType == Init => TypeInv
BY RunnersAssumption
   DEF Init, TypeInv, TypeOK, WorksOnRow, RealRows, TaskIds, NoTask, NoRow, NoLock, NoCur, LoopPc,
       HandPc, TaskRow, Status

LEMMA EndRow ==
  ASSUME NEW x \in TaskRow, NEW s \in Status
  PROVE  [x EXCEPT !.status = s, !.active = "none"] \in TaskRow
BY DEF TaskRow

LEMMA ClaimRow ==
  ASSUME NEW x \in TaskRow, NEW r \in Runners
  PROVE  [x EXCEPT !.status = "running", !.by = r] \in TaskRow
BY DEF TaskRow, Status

LEMMA MarkType ==
  ASSUME TypeOK, NEW k, MarkSystemTaskLeaseExpired(k)
  PROVE  /\ tasks' \in [TaskIds -> TaskRow]
         /\ RealRows => RealRows'
<1>1. ASSUME NEW j \in TaskIds
      PROVE  /\ LeaseExpiredRow(tasks[j]) \in TaskRow
             /\ LeaseExpiredRow(tasks[j]).type = tasks[j].type
  <2>1. tasks[j] \in TaskRow
    BY DEF TypeOK
  <2>2. LeaseExpiredRow(tasks[j]) \in TaskRow
    BY <2>1, EndRow DEF Status, Terminal, LeaseExpiredRow
  <2>3. QED
    BY <2>1, <2>2 DEF LeaseExpiredRow, TaskRow
<1>2. tasks' \in [TaskIds -> TaskRow]
  BY <1>1 DEF TypeOK, MarkSystemTaskLeaseExpired
<1>3. \A j \in TaskIds : tasks'[j].type = tasks[j].type
                         /\ (tasks[j].status = "none" => tasks'[j] = tasks[j])
  BY <1>1 DEF MarkSystemTaskLeaseExpired, Expirable
<1>4. QED
  BY <1>2, <1>3 DEF RealRows

LEMMA CreateType ==
  ASSUME TypeOK, NEW t \in Types, CreateSystemTask(t)
  PROVE  /\ tasks' \in [TaskIds -> TaskRow]
         /\ nextId' \in 1..(MaxTasks + 1)
         /\ RealRows => RealRows'
<1>1. [type |-> t, status |-> "pending", active |-> t, by |-> NoRunner] \in TaskRow
  BY DEF TaskRow, Status
<1>2. tasks' \in [TaskIds -> TaskRow]
  BY <1>1 DEF TypeOK, CreateSystemTask
<1>3. nextId' \in 1..(MaxTasks + 1)
  BY RunnersAssumption DEF TypeOK, CreateSystemTask, TaskIds
<1>4. RealRows => RealRows'
  BY DEF TypeOK, CreateSystemTask, RealRows
<1>5. QED
  BY <1>2, <1>3, <1>4

LEMMA WriteLockType ==
  ASSUME TypeOK, NEW t \in Types,
         NEW row \in Lease \cup {NoLock},
         WriteLock(t, row)
  PROVE  /\ locks' \in [Types -> Lease \cup {NoLock}]
         /\ stale' \in [Runners -> SUBSET Types]
BY DEF TypeOK, WriteLock

LEMMA ReleaseType ==
  ASSUME TypeOK, NEW k, NEW r, ReleaseSystemTaskLock(k, r)
  PROVE  /\ locks' \in [Types -> Lease \cup {NoLock}]
         /\ stale' \in [Runners -> SUBSET Types]
BY DEF TypeOK, ReleaseSystemTaskLock

LEMMA OwnLockType ==
  ASSUME NEW r \in Runners, cur[r] \in LockRow
  PROVE  /\ OwnLock(r) \in Lease
         /\ cur[r].type \in Types
         /\ cur[r].task \in TaskIds
BY DEF OwnLock, LockRow, Lease

LEMMA ExpiredRow ==
  ASSUME TypeOK, NEW t \in ExpiredTypes
  PROVE  t \in Types /\ Row(t) \in LockRow
BY DEF TypeOK, ExpiredTypes, Row, LockRow, NoLock, Lease

LEMMA NextType_Type ==
  ASSUME TypeInv, [Next]_vars
  PROVE  TypeInv'
<1> USE DEF TypeInv, RealRows
<1>1. CASE UNCHANGED vars
  BY <1>1 DEF vars, TypeOK, WorksOnRow
<1>2. ASSUME NEW r \in Runners, Loop(r)
      PROVE  TypeInv'
  <2>1. CASE RunPass(r)
    BY <2>1 DEF RunPass, At, Goto, TypeOK, WorksOnRow, LoopPc
  <2>2. CASE StaleQuery(r)
    <3>1. \A t \in ExpiredTypes : t \in Types /\ Row(t) \in LockRow
      BY ExpiredRow
    <3>2. {Row(t) : t \in ExpiredTypes} \subseteq LockRow /\ ExpiredTypes \subseteq Types
      BY <3>1
    <3>3. QED
      BY <2>2, <3>2 DEF StaleQuery, At, Goto, AfterStale, TypeOK, WorksOnRow, LoopPc
  <2>3. CASE MarkStale(r)
    <3>1. PICK l \in snap[r] : cur' = [cur EXCEPT ![r] = l] /\ MarkSystemTaskLeaseExpired(l.task)
      BY <2>3 DEF MarkStale
    <3>2. l \in LockRow
      BY <3>1 DEF TypeOK
    <3>3. QED
      BY <2>3, <3>1, <3>2, MarkType DEF MarkStale, At, Goto, TypeOK, WorksOnRow, LoopPc
  <2>4. CASE DeleteStale(r)
    <3>1. cur[r].type \in Types
      BY <2>4 DEF DeleteStale, At, WorksOnRow, LockRow
    <3>2. /\ locks' \in [Types -> Lease \cup {NoLock}]
          /\ stale' \in [Runners -> SUBSET Types]
      BY <2>4, <3>1, WriteLockType DEF DeleteStale, TypeOK
    <3>3. QED
      BY <2>4, <3>2 DEF DeleteStale, At, Goto, AfterStale, TypeOK, WorksOnRow, LoopPc
  <2>5. CASE SchedulerQuery(r)
    BY <2>5, RunnersAssumption DEF SchedulerQuery, At, Goto, TypeOK, WorksOnRow, LoopPc
  <2>6. CASE SchedulerCreate(r)
    <3>1. PICK t \in todo[r] :
            /\ CreateSystemTask(t)
            /\ todo' = [todo EXCEPT ![r] = @ \ {t}]
            /\ Goto(r, IF todo[r] = {t} THEN "claim" ELSE "create")
      BY <2>6 DEF SchedulerCreate
    <3>2. t \in Types
      BY <3>1 DEF TypeOK
    <3>3. QED
      BY <2>6, <3>1, <3>2, CreateType
         DEF SchedulerCreate, At, Goto, TypeOK, WorksOnRow, LoopPc
  <2>7. CASE ClaimQuery(r)
    <3>1. UNION {EarliestPending(t) : t \in Types} \subseteq TaskIds
      BY DEF EarliestPending, PendingOf, OfType
    <3>2. QED
      BY <2>7, <3>1 DEF ClaimQuery, At, Goto, TypeOK, WorksOnRow, LoopPc
  <2>8. CASE ClaimBegin(r)
    <3>1. PICK k \in found[r] :
            /\ found' = [found EXCEPT ![r] = @ \ {k}]
            /\ IF tasks[k].status = "pending"
               THEN /\ cur' = [cur EXCEPT ![r] =
                         [type |-> tasks[k].type, task |-> k, by |-> r]]
                    /\ stale' = [stale EXCEPT ![r] = ExpiredTypes \cap {tasks[k].type}]
                    /\ Goto(r, "acquire")
               ELSE /\ Goto(r, IF found[r] = {k} THEN "idle" ELSE "pick")
                    /\ UNCHANGED <<cur, stale>>
      BY <2>8 DEF ClaimBegin
    <3>2. k \in TaskIds
      BY <3>1 DEF TypeOK
    <3>3. tasks[k].status = "pending" =>
            [type |-> tasks[k].type, task |-> k, by |-> r] \in LockRow
      BY <3>2 DEF RealRows, LockRow
    <3>4. ExpiredTypes \subseteq Types
      BY DEF ExpiredTypes
    <3>5. QED
      BY <2>8, <3>1, <3>2, <3>3, <3>4
         DEF ClaimBegin, At, Goto, TypeOK, WorksOnRow, LoopPc
  <2>9. CASE LockCreate(r)
    <3>1. cur[r] \in LockRow
      BY <2>9 DEF LockCreate, At, WorksOnRow
    <3>2. /\ locks' \in [Types -> Lease \cup {NoLock}]
          /\ stale' \in [Runners -> SUBSET Types]
      BY <2>9, <3>1, OwnLockType, WriteLockType DEF LockCreate, TypeOK
    <3>3. QED
      BY <2>9, <3>1, <3>2 DEF LockCreate, At, Goto, TypeOK, WorksOnRow, LoopPc
  <2>10. CASE LockRead(r)
    <3>1. cur[r] \in LockRow
      BY <2>10 DEF LockRead, At, WorksOnRow
    <3>2. locks[cur[r].type].task \in TaskIds \cup {NoTask}
      BY <3>1, OwnLockType DEF TypeOK, NoLock, Lease
    <3>3. QED
      BY <2>10, <3>1, <3>2 DEF LockRead, At, Goto, NextType, TypeOK, WorksOnRow, LoopPc
  <2>11. CASE LockSteal(r)
    <3>1. cur[r] \in LockRow
      BY <2>11 DEF LockSteal, At, WorksOnRow
    <3>2. /\ locks' \in [Types -> Lease \cup {NoLock}]
          /\ stale' \in [Runners -> SUBSET Types]
      BY <2>11, <3>1, OwnLockType, WriteLockType DEF LockSteal, TypeOK
    <3>3. QED
      BY <2>11, <3>1, <3>2 DEF LockSteal, At, Goto, NextType, TypeOK, WorksOnRow, LoopPc
  <2>12. CASE ClaimExpireOld(r)
    BY <2>12, MarkType DEF ClaimExpireOld, At, Goto, TypeOK, WorksOnRow, LoopPc
  <2>13. CASE ClaimUpdate(r)
    <3>1. cur[r] \in LockRow /\ cur[r].task \in TaskIds
      BY <2>13, OwnLockType DEF ClaimUpdate, At, WorksOnRow
    <3>2. tasks' \in [TaskIds -> TaskRow] /\ RealRows'
      <4>1. tasks[cur[r].task] \in TaskRow
        BY <3>1 DEF TypeOK
      <4>2. /\ [tasks[cur[r].task] EXCEPT !.status = "running", !.by = r] \in TaskRow
            /\ [tasks[cur[r].task] EXCEPT !.status = "running", !.by = r].type
                 = tasks[cur[r].task].type
        BY <4>1, ClaimRow DEF TaskRow
      <4>3. QED
        BY <2>13, <3>1, <4>2 DEF ClaimUpdate, Claimable, TypeOK
    <3>3. QED
      BY <2>13, <3>1, <3>2 DEF ClaimUpdate, At, Goto, TypeOK, WorksOnRow, LoopPc
  <2>14. CASE ClaimRelease(r)
    <3>1. /\ locks' \in [Types -> Lease \cup {NoLock}]
          /\ stale' \in [Runners -> SUBSET Types]
      BY <2>14, ReleaseType DEF ClaimRelease
    <3>2. QED
      BY <2>14, <3>1 DEF ClaimRelease, At, Goto, NextType, TypeOK, WorksOnRow, LoopPc
  <2>15. CASE Dispatch(r)
    BY <2>15 DEF Dispatch, At, Goto, NextType, TypeOK, WorksOnRow, LoopPc, HandPc
  <2>16. QED
    BY <1>2, <2>1, <2>2, <2>3, <2>4, <2>5, <2>6, <2>7, <2>8, <2>9, <2>10, <2>11, <2>12,
       <2>13, <2>14, <2>15 DEF Loop
<1>3. ASSUME NEW r \in Runners, LoopError(r)
      PROVE  TypeInv'
  BY <1>3, RunnersAssumption
     DEF LoopError, AfterStale, NextType, Goto, TypeOK, WorksOnRow, LoopPc
<1>4. ASSUME NEW r \in Runners, Crash(r)
      PROVE  TypeInv'
  BY <1>4 DEF Crash, loopVars, TypeOK, WorksOnRow
<1>5. ASSUME NEW k \in TaskIds, Handler(k)
      PROVE  TypeInv'
  <2>1. CASE RenewSystemTaskLock(k)
    BY <2>1 DEF RenewSystemTaskLock, HandGoto, loopVars, TypeOK, WorksOnRow, HandPc
  <2>2. CASE FinishSystemTask(k)
    <3>1. tasks' \in [TaskIds -> TaskRow] /\ RealRows'
      <4>1. Terminal \subseteq Status /\ tasks[k] \in TaskRow
        BY DEF Status, TypeOK
      <4>2. \A s \in Terminal :
              /\ [tasks[k] EXCEPT !.status = s, !.active = "none"] \in TaskRow
              /\ [tasks[k] EXCEPT !.status = s, !.active = "none"].type = tasks[k].type
        BY <4>1, EndRow DEF TaskRow
      <4>3. QED
        BY <2>2, <4>2 DEF FinishSystemTask, TypeOK
    <3>2. QED
      BY <2>2, <3>1 DEF FinishSystemTask, HandGoto, loopVars, TypeOK, WorksOnRow, HandPc
  <2>3. CASE FinishRelease(k)
    <3>1. /\ locks' \in [Types -> Lease \cup {NoLock}]
          /\ stale' \in [Runners -> SUBSET Types]
      BY <2>3, ReleaseType DEF FinishRelease
    <3>2. QED
      BY <2>3, <3>1 DEF FinishRelease, HandGoto, loopVars, TypeOK, WorksOnRow, HandPc
  <2>4. QED
    BY <1>5, <2>1, <2>2, <2>3 DEF Handler
<1>6. ASSUME NEW k \in TaskIds, HandlerError(k)
      PROVE  TypeInv'
  BY <1>6, RunnersAssumption
     DEF HandlerError, HandGoto, loopVars, TypeOK, WorksOnRow, HandPc
<1>7. ASSUME NEW t \in Types, EnqueueSystemTask(t)
      PROVE  TypeInv'
  BY <1>7, CreateType DEF EnqueueSystemTask, loopVars, TypeOK, WorksOnRow
<1>8. ASSUME NEW t \in Types, LeaseExpires(t)
      PROVE  TypeInv'
  BY <1>8 DEF LeaseExpires, Lease, NoLock, loopVars, TypeOK, WorksOnRow
<1>9. QED
  BY <1>1, <1>2, <1>3, <1>4, <1>5, <1>6, <1>7, <1>8 DEF Next

\* Every reachable state is well typed, and a claim or cleanup only ever acts on
\* a lock row it read or wrote.
THEOREM TypeCorrect == Spec => []TypeOK
<1>1. Spec => []TypeInv
  BY InitType, NextType_Type, PTL DEF Spec
<1>2. QED
  BY <1>1, PTL DEF TypeInv

-----------------------------------------------------------------------------
(* What a step can do to system_tasks: nothing, insert a row, move a       *)
(* pending row to running, or end a running one.                           *)

Ends(k) ==
  /\ tasks[k].status = "running"
  /\ \E s \in Terminal :
       tasks' = [tasks EXCEPT ![k] = [@ EXCEPT !.status = s, !.active = "none"]]
  /\ UNCHANGED nextId

Claims(k) ==
  /\ tasks[k].status = "pending"
  /\ \E r \in Runners :
       tasks' = [tasks EXCEPT ![k] = [@ EXCEPT !.status = "running", !.by = r]]
  /\ UNCHANGED nextId

TaskStep ==
  \/ UNCHANGED <<tasks, nextId>>
  \/ \E t \in Types : CreateSystemTask(t)
  \/ \E k \in TaskIds : Ends(k) \/ Claims(k)

LEMMA MarkEnds ==
  ASSUME TypeOK, NEW k, MarkSystemTaskLeaseExpired(k), UNCHANGED nextId
  PROVE  TaskStep
<1>1. CASE k \in TaskIds /\ tasks[k].status = "running"
  <2>1. tasks' = [tasks EXCEPT ![k] = [@ EXCEPT !.status = "failed", !.active = "none"]]
    BY <1>1 DEF MarkSystemTaskLeaseExpired, Expirable, LeaseExpiredRow, TypeOK
  <2>2. QED
    BY <1>1, <2>1 DEF TaskStep, Ends, Terminal
<1>2. CASE ~(k \in TaskIds /\ tasks[k].status = "running")
  <2>1. tasks' = tasks
    BY <1>2 DEF MarkSystemTaskLeaseExpired, Expirable, LeaseExpiredRow, TypeOK
  <2>2. QED
    BY <2>1 DEF TaskStep
<1>3. QED
  BY <1>1, <1>2

LEMMA StepIsTaskStep ==
  ASSUME TypeInv, [Next]_vars
  PROVE  TaskStep
<1> USE DEF TypeInv
<1>1. CASE UNCHANGED vars
  BY <1>1 DEF vars, TaskStep
<1>2. ASSUME NEW r \in Runners, Loop(r)
      PROVE  TaskStep
  <2>1. CASE MarkStale(r)
    BY <2>1, MarkEnds DEF MarkStale
  <2>2. CASE SchedulerCreate(r)
    BY <2>2 DEF SchedulerCreate, TypeOK, TaskStep
  <2>3. CASE ClaimExpireOld(r)
    BY <2>3, MarkEnds DEF ClaimExpireOld
  <2>4. CASE ClaimUpdate(r)
    <3>1. cur[r].task \in TaskIds
      BY <2>4, OwnLockType DEF ClaimUpdate, At, WorksOnRow
    <3>2. QED
      BY <2>4, <3>1 DEF ClaimUpdate, Claimable, TaskStep, Claims
  <2>5. CASE RunPass(r) \/ StaleQuery(r) \/ DeleteStale(r) \/ SchedulerQuery(r)
             \/ ClaimQuery(r) \/ ClaimBegin(r) \/ LockCreate(r) \/ LockRead(r)
             \/ LockSteal(r) \/ ClaimRelease(r) \/ Dispatch(r)
    BY <2>5 DEF RunPass, StaleQuery, DeleteStale, SchedulerQuery, ClaimQuery, ClaimBegin,
                LockCreate, LockRead, LockSteal, ClaimRelease, Dispatch, TaskStep
  <2>6. QED
    BY <1>2, <2>1, <2>2, <2>3, <2>4, <2>5 DEF Loop
<1>3. ASSUME NEW r \in Runners, LoopError(r) \/ Crash(r)
      PROVE  TaskStep
  BY <1>3 DEF LoopError, Crash, TaskStep
<1>4. ASSUME NEW k \in TaskIds, Handler(k) \/ HandlerError(k)
      PROVE  TaskStep
  <2>1. CASE FinishSystemTask(k)
    BY <2>1 DEF FinishSystemTask, TaskStep, Ends
  <2>2. CASE RenewSystemTaskLock(k) \/ FinishRelease(k) \/ HandlerError(k)
    BY <2>2 DEF RenewSystemTaskLock, FinishRelease, HandlerError, TaskStep
  <2>3. QED
    BY <1>4, <2>1, <2>2 DEF Handler
<1>5. ASSUME NEW t \in Types, EnqueueSystemTask(t) \/ LeaseExpires(t)
      PROVE  TaskStep
  BY <1>5 DEF EnqueueSystemTask, LeaseExpires, TaskStep
<1>6. QED
  BY <1>1, <1>2, <1>3, <1>4, <1>5 DEF Next

LEMMA CreateKeepsRows ==
  ASSUME TypeOK, RowsInv, NEW t \in Types, CreateSystemTask(t)
  PROVE  RowsInv'
<1>1. CASE UNCHANGED <<tasks, nextId>>
  BY <1>1 DEF RowsInv, ActiveIffOpen, ActiveUnique, FreshIds, UnclaimedUntilRunning
<1>2. CASE ~UNCHANGED <<tasks, nextId>>
  <2>1. /\ nextId \in TaskIds
        /\ \A k \in TaskIds : tasks[k].active # t
        /\ nextId' = nextId + 1
        /\ tasks' = [tasks EXCEPT ![nextId] =
             [type |-> t, status |-> "pending", active |-> t, by |-> NoRunner]]
    BY <1>2 DEF CreateSystemTask, ActiveKeyFree
  <2>2. \A k \in TaskIds \ {nextId} : tasks'[k] = tasks[k]
    BY <2>1 DEF TypeOK
  <2>3. tasks'[nextId] = [type |-> t, status |-> "pending", active |-> t, by |-> NoRunner]
    BY <2>1 DEF TypeOK
  <2>4. ActiveIffOpen'
    BY <2>1, <2>2, <2>3 DEF RowsInv, ActiveIffOpen, Open
  <2>5. ActiveUnique'
    BY <2>1, <2>2, <2>3 DEF RowsInv, ActiveUnique, Open
  <2>6. FreshIds'
    BY <2>1, <2>2, RunnersAssumption DEF RowsInv, FreshIds, TypeOK, TaskIds
  <2>7. UnclaimedUntilRunning'
    BY <2>1, <2>2, <2>3 DEF RowsInv, UnclaimedUntilRunning
  <2>8. QED
    BY <2>4, <2>5, <2>6, <2>7 DEF RowsInv
<1>3. QED
  BY <1>1, <1>2

LEMMA EndsKeepsRows ==
  ASSUME TypeOK, RowsInv, NEW k \in TaskIds, Ends(k)
  PROVE  RowsInv'
<1>1. PICK s \in Terminal :
        tasks' = [tasks EXCEPT ![k] = [@ EXCEPT !.status = s, !.active = "none"]]
  BY DEF Ends
<1>2. \A j \in TaskIds \ {k} : tasks'[j] = tasks[j]
  BY <1>1 DEF TypeOK
<1>3. /\ tasks'[k].status \in Terminal
      /\ tasks'[k].active = "none"
      /\ tasks'[k].type = tasks[k].type
      /\ tasks'[k].by = tasks[k].by
  BY <1>1 DEF TypeOK, TaskRow
<1>4. Terminal \cap Open = {} /\ Terminal \cap {"none", "pending"} = {}
  BY DEF Terminal, Open
<1>5. ActiveIffOpen'
  BY <1>2, <1>3, <1>4 DEF RowsInv, ActiveIffOpen
<1>6. ActiveUnique'
  BY <1>2, <1>3, <1>4 DEF RowsInv, ActiveUnique
<1>7. FreshIds'
  BY <1>2 DEF RowsInv, FreshIds, Ends
<1>8. UnclaimedUntilRunning'
  BY <1>2, <1>3, <1>4 DEF RowsInv, UnclaimedUntilRunning
<1>9. QED
  BY <1>5, <1>6, <1>7, <1>8 DEF RowsInv

LEMMA ClaimsKeepsRows ==
  ASSUME TypeOK, RowsInv, NEW k \in TaskIds, Claims(k)
  PROVE  RowsInv'
<1>1. PICK r \in Runners :
        tasks' = [tasks EXCEPT ![k] = [@ EXCEPT !.status = "running", !.by = r]]
  BY DEF Claims
<1>2. \A j \in TaskIds \ {k} : tasks'[j] = tasks[j]
  BY <1>1 DEF TypeOK
<1>3. /\ tasks'[k].status = "running"
      /\ tasks'[k].active = tasks[k].active
      /\ tasks'[k].type = tasks[k].type
  BY <1>1 DEF TypeOK, TaskRow
<1>4. tasks[k].status = "pending"
  BY DEF Claims
<1>5. ActiveIffOpen'
  BY <1>2, <1>3, <1>4 DEF RowsInv, ActiveIffOpen, Open
<1>6. ActiveUnique'
  BY <1>2, <1>3, <1>4 DEF RowsInv, ActiveUnique, Open
<1>7. FreshIds'
  BY <1>2, <1>4 DEF RowsInv, FreshIds, Claims
<1>8. UnclaimedUntilRunning'
  BY <1>2, <1>3 DEF RowsInv, UnclaimedUntilRunning
<1>9. QED
  BY <1>5, <1>6, <1>7, <1>8 DEF RowsInv

LEMMA RowsInvariant == Spec => [](TypeInv /\ RowsInv)
<1>1. Init => TypeInv /\ RowsInv
  <2>1. Init => RowsInv
    BY DEF Init, RowsInv, ActiveIffOpen, ActiveUnique, FreshIds, UnclaimedUntilRunning,
           NoRow, Open
  <2>2. QED
    BY <2>1, InitType
<1>2. TypeInv /\ RowsInv /\ [Next]_vars => TypeInv' /\ RowsInv'
  <2> SUFFICES ASSUME TypeInv, RowsInv, [Next]_vars
               PROVE  TypeInv' /\ RowsInv'
    OBVIOUS
  <2>1. TypeInv'
    BY NextType_Type
  <2>2. TypeOK
    BY DEF TypeInv
  <2>3. TaskStep
    BY StepIsTaskStep
  <2>4. CASE UNCHANGED <<tasks, nextId>>
    BY <2>1, <2>4 DEF RowsInv, ActiveIffOpen, ActiveUnique, FreshIds, UnclaimedUntilRunning
  <2>5. CASE \E t \in Types : CreateSystemTask(t)
    BY <2>1, <2>2, <2>5, CreateKeepsRows
  <2>6. CASE \E k \in TaskIds : Ends(k) \/ Claims(k)
    BY <2>1, <2>2, <2>6, EndsKeepsRows, ClaimsKeepsRows
  <2>7. QED
    BY <2>3, <2>4, <2>5, <2>6 DEF TaskStep
<1>3. QED
  BY <1>1, <1>2, PTL DEF Spec

\* At most one row of a type is pending or running in every reachable state,
\* for any number of nodes, crashes, failed statements and stalls.
THEOREM OneActive == Spec => []OneActivePerType
<1>1. TypeInv /\ RowsInv => OneActivePerType
  BY DEF RowsInv, ActiveIffOpen, ActiveUnique, OneActivePerType, Open
<1>2. QED
  BY <1>1, RowsInvariant, PTL

LEMMA StepKeepsEnded ==
  ASSUME TypeInv, RowsInv, [Next]_vars, NEW k \in TaskIds
  PROVE  /\ tasks[k].status \in Terminal => tasks'[k] = tasks[k]
         /\ tasks[k].by # NoRunner => tasks'[k].by = tasks[k].by
<1>1. TaskStep
  BY StepIsTaskStep
<1>2. TypeOK
  BY DEF TypeInv
<1>3. CASE UNCHANGED <<tasks, nextId>>
  BY <1>3
<1>4. ASSUME NEW t \in Types, CreateSystemTask(t)
      PROVE  /\ tasks[k].status \in Terminal => tasks'[k] = tasks[k]
             /\ tasks[k].by # NoRunner => tasks'[k].by = tasks[k].by
  <2>1. CASE k = nextId
    <3>1. tasks[k].status = "none"
      BY <2>1, <1>2 DEF RowsInv, FreshIds, TypeOK
    <3>2. QED
      BY <3>1 DEF Terminal, RowsInv, UnclaimedUntilRunning
  <2>2. CASE k # nextId
    BY <2>2, <1>2, <1>4 DEF CreateSystemTask, TypeOK
  <2>3. QED
    BY <2>1, <2>2
<1>5. ASSUME NEW j \in TaskIds, Ends(j)
      PROVE  /\ tasks[k].status \in Terminal => tasks'[k] = tasks[k]
             /\ tasks[k].by # NoRunner => tasks'[k].by = tasks[k].by
  BY <1>2, <1>5 DEF Ends, Terminal, TypeOK, TaskRow
<1>6. ASSUME NEW j \in TaskIds, Claims(j)
      PROVE  /\ tasks[k].status \in Terminal => tasks'[k] = tasks[k]
             /\ tasks[k].by # NoRunner => tasks'[k].by = tasks[k].by
  BY <1>2, <1>6 DEF Claims, Terminal, TypeOK, TaskRow, RowsInv, UnclaimedUntilRunning
<1>7. QED
  BY <1>1, <1>3, <1>4, <1>5, <1>6 DEF TaskStep

\* A task that ended is never written again, whatever its stalled handler or an
\* old cleanup list still does.
THEOREM EndedForGood == Spec => TerminalStays
<1>1. TypeInv /\ RowsInv /\ [Next]_vars =>
        [\A k \in TaskIds : tasks[k].status \in Terminal => tasks'[k] = tasks[k]]_vars
  BY StepKeepsEnded
<1>2. QED
  BY <1>1, RowsInvariant, PTL DEF Spec, TerminalStays

\* A task is claimed by one runner once: locked_by never changes hands.
THEOREM ClaimedByOne == Spec => ClaimedOnce
<1>1. TypeInv /\ RowsInv /\ [Next]_vars =>
        [\A k \in TaskIds : tasks[k].by # NoRunner => tasks'[k].by = tasks[k].by]_vars
  BY StepKeepsEnded
<1>2. QED
  BY <1>1, RowsInvariant, PTL DEF Spec, ClaimedOnce
=============================================================================
