---------------------------- MODULE TaskBilling ----------------------------
(***************************************************************************)
(* The billing of asynchronous tasks (Suno and video): a task is charged   *)
(* when it is submitted and its row is polled until it ends; a success is  *)
(* settled to the actual quota and a failure refunded                      *)
(* (service/task_polling.go, service/task_billing.go, model/task.go, and   *)
(* tryRealtimeFetch of relay/relay_task.go).                               *)
(*                                                                         *)
(* A polling pass is the async_task_poll system task, and two passes may   *)
(* overlap: SystemTask shows that its lease does not exclude it.  A user's *)
(* GET of a Gemini or Vertex task is a third writer of the row.  One step  *)
(* is one SQL statement or one answer of the upstream; `job` is the        *)
(* in-memory copy of a row an actor works on, read some steps before.      *)
(*                                                                         *)
(* users.quota (or amount_used) and tokens.remain_quota are kept as        *)
(* ledgers: what each task has taken from them, net.  Every task has a     *)
(* token and a channel of its own; the log rows are left out.              *)
(***************************************************************************)
EXTENDS Integers, FiniteSets

CONSTANTS
  Tasks,    \* rows of tasks
  Pollers,  \* nodes that may run a polling pass
  User,     \* the client that fetches a task
  Kinds,    \* platforms: "video", "gemini" (Gemini and Vertex), "suno"
  Quotas,   \* quotas a task may be charged on submission
  Actuals,  \* quotas a successful task may turn out to cost
  MaxFaults, \* bound: failed statements and crashes
  MaxGets,   \* bound: GETs of the user
  MaxCredit  \* bound: a task that got back more than this beyond its charge is not read again

ASSUME TasksAssumption ==
  /\ User \notin Pollers
  /\ Kinds \subseteq {"video", "gemini", "suno"}
  /\ Quotas \subseteq Nat
  /\ Actuals \subseteq Nat \ {0}
  /\ MaxFaults \in Nat /\ MaxGets \in Nat /\ MaxCredit \in Nat

VARIABLES
  kind,       \* the platform of each task
  orphan,     \* tasks whose channel a node may fail to find
  up,         \* what became of each task upstream
  rows,       \* the row of each task
  timedOut,   \* tasks with submit_time before the cut-off of the sweep
  paid,       \* taken from the wallet or the subscription by each task
  tokenPaid,  \* taken from the token by each task
  phase,      \* where each poller's pass stands
  plat,       \* the platform a pass works on
  gets,       \* GETs so far
  job,        \* what each actor does with each task
  unsettled,  \* tasks whose submission was not settled, or not with the token
  fault,      \* tasks with a billing statement that failed or was lost in a crash
  faults      \* faults so far

others == <<kind, orphan, gets, unsettled>>
bill == <<paid, tokenPaid>>
trouble == <<fault, faults>>
vars == <<kind, orphan, up, rows, timedOut, paid, tokenPaid, phase, plat, gets,
          job, unsettled, fault, faults>>

Actors == Pollers \cup {User}
Terminal == {"SUCCESS", "FAILURE"}
Status == {"none", "charged", "lost", "NOT_START", "IN_PROGRESS"} \cup Terminal

\* complete: progress is "100%".  Before the insert the row is in the memory of
\* the submitting request.
NoRow == [status |-> "none", complete |-> FALSE, quota |-> 0]
Row == [status : Status, complete : BOOLEAN, quota : Quotas \cup Actuals \cup {0}]

\* row is the in-memory task as it was read (as it will be written, from the
\* billing on), ans the answer of the upstream, amount the delta being billed,
\* and then what follows the billing.
NoJob == [pc |-> "none", row |-> NoRow, ans |-> "none",
          amount |-> 0, then |-> "none"]
Billing == {"fund", "token", "quota"}
Busy == {"answered", "save"} \cup Billing

Inserted(k) == rows[k].status \notin {"none", "charged", "lost"}
Readable(k) == Inserted(k) /\ paid[k] >= -MaxCredit
Unfinished == {k \in Tasks : /\ Readable(k)
                             /\ ~rows[k].complete
                             /\ rows[k].status \notin Terminal}

-----------------------------------------------------------------------------
Init ==
  /\ kind \in [Tasks -> Kinds]
  /\ orphan \in SUBSET Tasks
  /\ up = [k \in Tasks |-> "IN_PROGRESS"]
  /\ rows = [k \in Tasks |-> NoRow]
  /\ timedOut = {}
  /\ paid = [k \in Tasks |-> 0]
  /\ tokenPaid = [k \in Tasks |-> 0]
  /\ phase = [p \in Pollers |-> "idle"]
  /\ plat = [p \in Pollers |-> "none"]
  /\ gets = 0
  /\ job = [a \in Actors |-> [k \in Tasks |-> NoJob]]
  /\ unsettled = {}
  /\ fault = {}
  /\ faults = 0

At(a, k, pc) == job[a][k].pc = pc
Goto(a, k, j) == job' = [job EXCEPT ![a][k] = j]
Write(k, row) == rows' = [rows EXCEPT ![k] = row]
Fault(S) == /\ faults < MaxFaults
            /\ faults' = faults + 1
            /\ fault' = fault \cup S

(***************************************************************************)
(* Submission: RelayTask settles the billing session to the quota of the   *)
(* task, then inserts the row.  Both errors are only logged: a settlement  *)
(* may fail before the funding source is adjusted, or at the token, and a  *)
(* task that is not inserted is lost with what it cost.                    *)
(***************************************************************************)
SettleSubmission(k, q) ==
  /\ rows[k].status = "none"
  /\ Write(k, [NoRow EXCEPT !.status = "charged", !.quota = q])
  /\ \/ /\ paid' = [paid EXCEPT ![k] = q]
        /\ tokenPaid' = [tokenPaid EXCEPT ![k] = q]
        /\ UNCHANGED <<unsettled, trouble>>
     \/ \E pre \in Quotas \ {q} :
          \* the hold of the session stays as it was, for both or for the token
          /\ Fault({})
          /\ unsettled' = unsettled \cup {k}
          /\ \E got \in {pre, q} : paid' = [paid EXCEPT ![k] = got]
          /\ tokenPaid' = [tokenPaid EXCEPT ![k] = pre]
  /\ UNCHANGED <<kind, orphan, gets, up, timedOut, phase, plat, job>>

InsertTask(k) ==
  /\ rows[k].status = "charged"
  /\ \/ /\ Write(k, [rows[k] EXCEPT !.status = "NOT_START"])
        /\ UNCHANGED trouble
     \/ /\ Write(k, [rows[k] EXCEPT !.status = "lost"])
        /\ Fault({})
  /\ UNCHANGED <<others, up, timedOut, bill, phase, plat, job>>

UpstreamEnds(k) ==
  /\ Inserted(k)
  /\ up[k] = "IN_PROGRESS"
  /\ \E s \in Terminal : up' = [up EXCEPT ![k] = s]
  /\ UNCHANGED <<others, rows, timedOut, bill, phase, plat, job, trouble>>

Timeout(k) ==
  /\ Inserted(k)
  /\ k \notin timedOut
  /\ timedOut' = timedOut \cup {k}
  /\ UNCHANGED <<others, up, rows, bill, phase, plat, job, trouble>>

(***************************************************************************)
(* The statements on a row.                                                *)
(***************************************************************************)
\* Mutant: the WHERE status = ? is dropped.
CasMatches_Unguarded(k, from) == TRUE

CasMatches(k, from) == rows[k].status = from

\* UpdateWithStatus: the whole in-memory row, where status = from.  won and
\* lost are the jobs afterwards; an error bills nothing.
UpdateWithStatus(a, k, row, from, won, lost) ==
  \/ /\ CasMatches(k, from)
     /\ Write(k, row)
     /\ Goto(a, k, won)
     /\ UNCHANGED trouble
  \/ /\ ~CasMatches(k, from)
     /\ Goto(a, k, lost)
     /\ UNCHANGED <<rows, trouble>>
  \/ /\ Fault({})
     /\ Goto(a, k, lost)
     /\ UNCHANGED rows

\* TaskBulkUpdateByID of one id: status and progress, whatever the row says.
TaskBulkUpdateByID(k) ==
  \/ /\ Write(k, [rows[k] EXCEPT !.status = "FAILURE", !.complete = TRUE])
     /\ UNCHANGED trouble
  \/ /\ Fault({})
     /\ UNCHANGED rows

(***************************************************************************)
(* Billing of an ended task: the funding source, then the token, then for  *)
(* a settlement the quota column.                                          *)
(***************************************************************************)
\* RefundTaskQuota begins, and does nothing for a task that cost nothing.
RefundTaskQuota(row, then) ==
  IF row.quota = 0 /\ then = "none" THEN NoJob
  ELSE [NoJob EXCEPT !.pc = IF row.quota = 0 THEN then ELSE "fund",
                     !.row = row, !.amount = -row.quota, !.then = then]

\* RecalculateTaskQuota begins, and does nothing when the charge was exact.
RecalculateTaskQuota(row, actual) ==
  IF actual = row.quota THEN NoJob
  ELSE [NoJob EXCEPT !.pc = "fund", !.row = [row EXCEPT !.quota = actual],
                     !.amount = actual - row.quota, !.then = "quota"]

\* settleTaskBillingOnComplete: per-call tasks and tasks without a new quota
\* keep what they were charged, the others go through RecalculateTaskQuota.
SettleTaskBillingOnComplete(row) ==
  {NoJob} \cup {RecalculateTaskQuota(row, actual) : actual \in Actuals}

Step(a, k, pc) ==
  Goto(a, k, IF pc = "none" THEN NoJob ELSE [job[a][k] EXCEPT !.pc = pc])

\* The step after a funding error: a settlement returns, a Suno refund still
\* saves the row.
AfterFundingError(j) == IF j.then = "quota" THEN "none" ELSE j.then

TaskAdjustFunding(a, k) ==
  LET j == job[a][k]
  IN  /\ j.pc = "fund"
      /\ \/ /\ paid' = [paid EXCEPT ![k] = @ + j.amount]
            /\ Step(a, k, "token")
            /\ UNCHANGED trouble
         \/ /\ Fault({k})
            /\ Step(a, k, AfterFundingError(j))
            /\ UNCHANGED paid
      /\ UNCHANGED <<others, up, rows, timedOut, tokenPaid, phase, plat>>

\* Mutant: the refund of the token is forgotten.
TokenAmount_SettleOnly(j) == IF j.then = "quota" THEN j.amount ELSE 0

TokenAmount(j) == j.amount

\* An error, or a token that was deleted, is only logged.
TaskAdjustTokenQuota(a, k) ==
  LET j == job[a][k]
  IN  /\ j.pc = "token"
      /\ Step(a, k, j.then)
      /\ \/ /\ tokenPaid' = [tokenPaid EXCEPT ![k] = @ + TokenAmount(j)]
            /\ UNCHANGED trouble
         \/ /\ Fault({k})
            /\ UNCHANGED tokenPaid
      /\ UNCHANGED <<others, up, rows, timedOut, paid, phase, plat>>

UpdateQuota(a, k) ==
  LET j == job[a][k]
  IN  /\ j.pc = "quota"
      /\ Goto(a, k, NoJob)
      /\ \/ /\ Write(k, [rows[k] EXCEPT !.quota = j.row.quota])
            /\ UNCHANGED trouble
         \/ /\ Fault({k})
            /\ UNCHANGED rows
      /\ UNCHANGED <<others, up, timedOut, bill, phase, plat>>

(***************************************************************************)
(* A polling pass: RunTaskPollingOnce.                                     *)
(***************************************************************************)
\* The jobs of p when it has read the rows of the tasks in S.
Read(p, S, pc) ==
  [k \in Tasks |-> IF k \in S
                   THEN [NoJob EXCEPT !.pc = pc, !.row = rows[k]]
                   ELSE NoJob]

Working(p) == {k \in Tasks : job[p][k].pc \in Busy}
Waiting(p, pc) == {k \in Tasks : At(p, k, pc)}

\* A query of the pass finds S; one that fails finds nothing.
Query(p, S, pc) ==
  \/ /\ job' = [job EXCEPT ![p] = Read(p, S, pc)]
     /\ UNCHANGED trouble
  \/ /\ S # {}
     /\ Fault({})
     /\ job' = [job EXCEPT ![p] = Read(p, {}, pc)]

\* Mutant: the sweep selects only the tasks nobody has polled yet.
TimedOutUnfinished_NotStarted == {k \in Unfinished \cap timedOut : rows[k].status = "NOT_START"}

TimedOutUnfinished == Unfinished \cap timedOut

GetTimedOutUnfinishedTasks(p) ==
  /\ phase[p] = "idle"
  /\ phase' = [phase EXCEPT ![p] = "sweep"]
  /\ Query(p, TimedOutUnfinished, "sweep")
  /\ UNCHANGED <<others, up, rows, timedOut, bill, plat>>

\* Mutant: the sweep refunds a task another process has already ended.
SweepLost_Refunds(row) == RefundTaskQuota(row, "none")

SweepLost(row) == NoJob

\* One task of the sweep.
SweepTask(p, k) ==
  LET j == job[p][k]
      row == [j.row EXCEPT !.status = "FAILURE", !.complete = TRUE]
  IN  /\ phase[p] = "sweep"
      /\ Working(p) = {}
      /\ j.pc = "sweep"
      /\ UpdateWithStatus(p, k, row, j.row.status, RefundTaskQuota(row, "none"), SweepLost(row))
      /\ UNCHANGED <<others, up, timedOut, bill, phase, plat>>

GetAllUnFinishSyncTasks(p) ==
  /\ phase[p] = "sweep"
  /\ Working(p) = {} /\ Waiting(p, "sweep") = {}
  /\ phase' = [phase EXCEPT ![p] = "work"]
  /\ Query(p, Unfinished, "todo")
  /\ UNCHANGED <<others, up, rows, timedOut, bill, plat>>

\* The platforms one after the other, in the order of a Go map.
PlatformDone(p) == \A k \in Tasks : kind[k] = plat[p] => At(p, k, "none")

DispatchPlatformUpdate(p) ==
  /\ phase[p] = "work"
  /\ PlatformDone(p)
  /\ \E k \in Waiting(p, "todo") : plat' = [plat EXCEPT ![p] = kind[k]]
  /\ UNCHANGED <<others, up, rows, timedOut, bill, phase, job, trouble>>

\* The channels of a video platform are polled concurrently, those of Suno in
\* turn.
MayStart(p, k) ==
  /\ phase[p] = "work"
  /\ plat[p] = kind[k]
  /\ At(p, k, "todo")
  /\ kind[k] = "suno" => Working(p) = {}

\* CacheGetChannel fails: the task is failed in bulk, and not refunded.
FailOrphan(p, k) ==
  /\ MayStart(p, k)
  /\ k \in orphan
  /\ TaskBulkUpdateByID(k)
  /\ Goto(p, k, NoJob)
  /\ UNCHANGED <<others, up, timedOut, bill, phase, plat>>

EndPass(p) ==
  /\ phase[p] = "work"
  /\ \A k \in Tasks : At(p, k, "none")
  /\ phase' = [phase EXCEPT ![p] = "idle"]
  /\ plat' = [plat EXCEPT ![p] = "none"]
  /\ UNCHANGED <<others, up, rows, timedOut, bill, job, trouble>>

\* The lease is lost and the context cancelled: no further task is started.
Cancel(p) ==
  /\ phase[p] = "work"
  /\ Waiting(p, "todo") # {}
  /\ job' = [job EXCEPT ![p] = [k \in Tasks |-> IF At(p, k, "todo") THEN NoJob ELSE @[k]]]
  /\ UNCHANGED <<others, up, rows, timedOut, bill, phase, plat, trouble>>

\* The node restarts: what its pass was doing is lost.
Crash(p) ==
  /\ phase[p] # "idle"
  /\ Fault({k \in Tasks : job[p][k].pc \in Billing \cup {"save"}})
  /\ job' = [job EXCEPT ![p] = [k \in Tasks |-> NoJob]]
  /\ phase' = [phase EXCEPT ![p] = "idle"]
  /\ plat' = [plat EXCEPT ![p] = "none"]
  /\ UNCHANGED <<others, up, rows, timedOut, bill>>

(***************************************************************************)
(* What the upstream answers.                                              *)
(***************************************************************************)
\* The state of the task, a failure the upstream or a gateway reports by
\* mistake, or for Suno a fail_reason without a final status.  "none" is no
\* usable answer: a network error, 429, a body nobody can parse.
Answers(k) == {up[k], "FAILURE", "none"} \cup
              (IF kind[k] = "suno" THEN {"REASON"} ELSE {})

FetchTask(a, k) ==
  /\ \E ans \in Answers(k) :
       Goto(a, k, IF ans = "none" THEN NoJob
                  ELSE [job[a][k] EXCEPT !.pc = "answered", !.ans = ans])
  /\ UNCHANGED <<others, up, rows, timedOut, bill, phase, plat, trouble>>

PollFetch(p, k) == MayStart(p, k) /\ FetchTask(p, k)

\* Mutant: what the upstream calls its status is stored as it is.
Answered_Verbatim(row, ans) == [row EXCEPT !.status = ans, !.complete = ans \in Terminal]

\* The in-memory row after an answer.
Answered(row, ans) ==
  IF ans = "REASON" THEN [row EXCEPT !.complete = TRUE]
  ELSE [row EXCEPT !.status = ans, !.complete = ans \in Terminal]

\* updateVideoSingleTask after the answer: the writer of the final status
\* bills, the others only log.  A row that did not change is not written.
UpdateVideoSingleTask(p, k) ==
  LET j == job[p][k]
      row == Answered(j.row, j.ans)
  IN  /\ kind[k] # "suno"
      /\ j.pc = "answered"
      /\ \/ \E won \in CASE row.status = "SUCCESS" -> SettleTaskBillingOnComplete(row)
                         [] row.status = "FAILURE" -> {RefundTaskQuota(row, "none")}
                         [] OTHER -> {NoJob} :
              UpdateWithStatus(p, k, row, j.row.status, won, NoJob)
         \/ /\ row = j.row
            /\ Goto(p, k, NoJob)
            /\ UNCHANGED <<rows, trouble>>
      /\ UNCHANGED <<others, up, timedOut, bill, phase, plat>>

\* updateSunoTasks after the answer: the refund comes before the write.
UpdateSunoTask(p, k) ==
  LET j == job[p][k]
      row == Answered(j.row, j.ans)
  IN  /\ kind[k] = "suno"
      /\ j.pc = "answered"
      /\ \/ /\ j.ans \in {"FAILURE", "REASON"}
            /\ Goto(p, k, RefundTaskQuota(row, "save"))
         \/ /\ j.ans \notin {"FAILURE", "REASON"}
            /\ Goto(p, k, [j EXCEPT !.pc = "save", !.row = row])
         \/ /\ row = j.row
            /\ Goto(p, k, NoJob)
      /\ UNCHANGED <<others, up, rows, timedOut, bill, phase, plat, trouble>>

\* Task.Update saves the whole row, whatever it has become.
SaveSunoTask(p, k) ==
  /\ At(p, k, "save")
  /\ Goto(p, k, NoJob)
  /\ \/ /\ Write(k, job[p][k].row)
        /\ UNCHANGED trouble
     \/ /\ Fault({k})
        /\ UNCHANGED rows
  /\ UNCHANGED <<others, up, timedOut, bill, phase, plat>>

(***************************************************************************)
(* The user's GET of a Gemini or Vertex task: tryRealtimeFetch moves the   *)
(* status, from a final one too, and bills nothing.                        *)
(***************************************************************************)
GetByTaskId(k) ==
  /\ kind[k] = "gemini" /\ Inserted(k)
  /\ At(User, k, "none")
  /\ gets < MaxGets
  /\ gets' = gets + 1
  /\ Goto(User, k, [NoJob EXCEPT !.pc = "todo", !.row = rows[k]])
  /\ UNCHANGED <<kind, orphan, unsettled, up, rows, timedOut, bill, phase, plat, trouble>>

UserFetch(k) == At(User, k, "todo") /\ FetchTask(User, k)

TryRealtimeFetch(k) ==
  LET j == job[User][k]
      row == Answered(j.row, j.ans)
  IN  /\ j.pc = "answered"
      /\ \/ UpdateWithStatus(User, k, row, j.row.status, NoJob, NoJob)
         \/ /\ row = j.row
            /\ Goto(User, k, NoJob)
            /\ UNCHANGED <<rows, trouble>>
      /\ UNCHANGED <<others, up, timedOut, bill, phase, plat>>

-----------------------------------------------------------------------------
Poll(p) ==
  \/ GetTimedOutUnfinishedTasks(p)
  \/ GetAllUnFinishSyncTasks(p)
  \/ DispatchPlatformUpdate(p)
  \/ EndPass(p)
  \/ \E k \in Tasks : \/ SweepTask(p, k)
                      \/ FailOrphan(p, k)
                      \/ PollFetch(p, k)
                      \/ UpdateVideoSingleTask(p, k)
                      \/ UpdateSunoTask(p, k)
                      \/ SaveSunoTask(p, k)
                      \/ TaskAdjustFunding(p, k)
                      \/ TaskAdjustTokenQuota(p, k)
                      \/ UpdateQuota(p, k)

Next ==
  \/ \E k \in Tasks : \/ \E q \in Quotas : SettleSubmission(k, q)
                      \/ InsertTask(k)
                      \/ UpstreamEnds(k)
                      \/ Timeout(k)
                      \/ GetByTaskId(k)
                      \/ UserFetch(k)
                      \/ TryRealtimeFetch(k)
  \/ \E p \in Pollers : Poll(p) \/ Cancel(p) \/ Crash(p)

Spec == Init /\ [][Next]_vars

\* The scheduler keeps starting passes while a task is unfinished, a pass that
\* runs goes on, and time passes.
Fairness == /\ \A p \in Pollers : WF_vars(Poll(p))
            /\ \A k \in Tasks : WF_vars(Timeout(k))
FairSpec == Spec /\ Fairness

-----------------------------------------------------------------------------
Job == [pc : {"none", "sweep", "todo"} \cup Busy, row : Row,
        ans : {"none", "IN_PROGRESS", "REASON"} \cup Terminal,
        amount : Int, then : {"none", "quota", "save"}]

\* The types of the variables; a row, in the table or in the memory of a pass,
\* never has a quota other than the charged or the recalculated one
\* (model/task.go).
TypeOK ==
  /\ kind \in [Tasks -> Kinds]
  /\ orphan \subseteq Tasks
  /\ up \in [Tasks -> {"IN_PROGRESS"} \cup Terminal]
  /\ rows \in [Tasks -> Row]
  /\ timedOut \subseteq Tasks
  /\ paid \in [Tasks -> Int]
  /\ tokenPaid \in [Tasks -> Int]
  /\ phase \in [Pollers -> {"idle", "sweep", "work"}]
  /\ plat \in [Pollers -> Kinds \cup {"none"}]
  /\ job \in [Actors -> [Tasks -> Job]]
  /\ gets \in 0..MaxGets
  /\ unsettled \subseteq Tasks /\ fault \subseteq Tasks
  /\ faults \in 0..MaxFaults

\* The tasks only guarded updates end: their channel is there, and no GET moves
\* their status.
Guarded == {k \in Tasks : kind[k] = "video" /\ k \notin orphan}

\* Nobody is billing task k.
Rests(k) == Inserted(k) /\ \A p \in Pollers : job[p][k].pc \notin Billing

\* What a task has been charged, when nobody is billing it and no statement
\* about it was lost, is what its row says: nothing for a failure, the quota
\* column otherwise, and the same from the token as from the funding source.
\* Two passes and the sweep may have worked on it from stale copies
\* (updateVideoSingleTask, sweepTimedOutTasks, RecalculateTaskQuota).
ChargeMatchesRow ==
  \A k \in Guarded \ (fault \cup unsettled) : Rests(k) =>
    LET due == IF rows[k].status = "FAILURE" THEN 0 ELSE rows[k].quota
    IN  paid[k] = due /\ tokenPaid[k] = due

\* A task whose submission was settled never gives back more than it took, even
\* when a billing statement fails or a node crashes between two of them: it is
\* refunded at most once, and not after a settlement (RefundTaskQuota).
RefundedAtMostOnce ==
  \A k \in Guarded \ unsettled : paid[k] >= 0 /\ tokenPaid[k] >= 0

\* A stale copy never brings an ended task back, nor turns a failure that was
\* refunded into a success (UpdateWithStatus).
EndedStays ==
  [][\A k \in Guarded : rows[k].status \in Terminal => rows'[k].status = rows[k].status]_vars

\* Every task of a video platform ends, even if the upstream never answers: what
\* polling misses the sweep ends (sweepTimedOutTasks).
TaskEnds ==
  \A k \in Tasks : (kind[k] = "video" /\ Inserted(k)) ~> (rows[k].status \in Terminal)

\* "When an asynchronous task fails, the quota charged for it is returned to
\* the user" (RefundTaskQuota).
FailedTaskRefunded ==
  \A k \in Tasks \ (fault \cup unsettled) : (Rests(k) /\ rows[k].status = "FAILURE") => paid[k] = 0
=============================================================================
