-------------------------- MODULE TaskBillingProofs --------------------------
(***************************************************************************)
(* Proofs about TaskBilling for any number of tasks, polling nodes, quotas *)
(* and faults: the types are kept, a task of Guarded that ended stays as   *)
(* it ended, it is refunded at most once, and what it was charged matches  *)
(* its row when nobody is billing it.                                      *)
(***************************************************************************)
EXTENDS TaskBilling, TLAPS

Open == {"NOT_START", "IN_PROGRESS"}
Copies == {"sweep", "todo", "answered"}

\* The copy of task k that p holds before it writes: it was read while the
\* task was open, and its quota is the row's as long as the task is open.
CopyInv(p, k) ==
  LET j == job[p][k]
  IN  /\ j.pc \in Copies =>
           /\ j.row.status \in Open
           /\ Inserted(k)
           /\ rows[k].status \notin Terminal => j.row.quota = rows[k].quota
      /\ j.pc = "answered" => j.ans \in {"IN_PROGRESS"} \cup Terminal
      /\ j.pc # "save"

\* What the billing of task k by p has left to do: p won the update that
\* ended the task, alone, and the amount is what the row says.
BillerInv(p, k) ==
  LET j == job[p][k]
  IN  j.pc \in Billing =>
        /\ rows[k].status \in Terminal
        /\ rows[k].status = "FAILURE" =>
             j.then = "none" /\ j.amount = -rows[k].quota /\ j.pc # "quota"
        /\ rows[k].status = "SUCCESS" =>
             j.then = "quota" /\ j.amount = j.row.quota - rows[k].quota
        /\ \A q \in Pollers : job[q][k].pc \in Billing => q = p

\* What task k has paid when p is done with the statement it is at.
AfterBilling(p, k) == rows[k].quota + job[p][k].amount

PaidWhileBilling(p, k) ==
  LET j == job[p][k]
  IN  /\ j.pc = "fund" => paid[k] = rows[k].quota
      /\ j.pc \in {"token", "quota"} => paid[k] = AfterBilling(p, k)
      /\ j.pc \in {"fund", "token"} => tokenPaid[k] = rows[k].quota
      /\ j.pc = "quota" /\ k \notin fault => tokenPaid[k] = AfterBilling(p, k)

DueOf(k) == IF rows[k].status = "FAILURE" THEN 0 ELSE rows[k].quota
NoBiller(k) == \A p \in Pollers : job[p][k].pc \notin Billing

MoneyInv(k) ==
  /\ paid[k] >= 0 /\ tokenPaid[k] >= 0
  /\ rows[k].status = "none" => paid[k] = 0 /\ tokenPaid[k] = 0
  /\ rows[k].status \notin Terminal \cup {"none"} =>
       paid[k] = rows[k].quota /\ tokenPaid[k] = rows[k].quota
  /\ \A p \in Pollers : PaidWhileBilling(p, k)
  /\ rows[k].status \in Terminal /\ NoBiller(k) /\ k \notin fault =>
       paid[k] = DueOf(k) /\ tokenPaid[k] = DueOf(k)

TaskInv(k) ==
  /\ job[User][k].pc = "none"
  /\ \A p \in Pollers : phase[p] = "idle" => job[p][k].pc = "none"
  /\ \A p \in Pollers : CopyInv(p, k) /\ BillerInv(p, k)
  /\ k \notin unsettled => MoneyInv(k)

IInv == TypeOK /\ \A k \in Guarded : TaskInv(k)

-----------------------------------------------------------------------------
(* The values that jobs and rows take *)

Answer == {"none", "IN_PROGRESS", "REASON"} \cup Terminal

\* The amounts are natural numbers, and no status is called REASON.
LEMMA RowFacts ==
  ASSUME NEW row \in Row
  PROVE  /\ row.quota \in Nat /\ row.status \in Status /\ row.complete \in BOOLEAN
         /\ \A s \in Status : [row EXCEPT !.status = s] \in Row
         /\ \A q \in Quotas \cup Actuals : [row EXCEPT !.quota = q] \in Row
         /\ [row EXCEPT !.status = "FAILURE", !.complete = TRUE] \in Row
<1>1. row.quota \in Nat
  <2>1. row.quota \in Quotas \cup Actuals \cup {0}
    BY DEF Row
  <2>2. Quotas \cup Actuals \cup {0} \subseteq Nat
    BY TasksAssumption
  <2> QED
    BY <2>1, <2>2
<1>2. \A s \in Status : [row EXCEPT !.status = s] \in Row
  BY DEF Row
<1>3. \A q \in Quotas \cup Actuals : [row EXCEPT !.quota = q] \in Row
  BY DEF Row
<1>4. [row EXCEPT !.status = "FAILURE", !.complete = TRUE] \in Row
  BY DEF Row, Status, Terminal
<1> QED
  BY <1>1, <1>2, <1>3, <1>4 DEF Row

LEMMA NoRowType == NoRow \in Row
BY DEF NoRow, Row, Status

LEMMA NoJobType == NoJob \in Job
BY NoRowType DEF NoJob, Job

\* The fields of a job.
LEMMA JobFacts ==
  ASSUME NEW j \in Job
  PROVE  /\ j.row \in Row /\ j.amount \in Int
         /\ j.pc \in {"none", "sweep", "todo"} \cup Busy
         /\ j.then \in {"none", "quota", "save"} /\ j.ans \in Answer
BY DEF Job, Answer

\* A job that begins with a row that was read.
Fresh(pc, row) == [NoJob EXCEPT !.pc = pc, !.row = row]

LEMMA FreshJob ==
  ASSUME NEW pc \in {"sweep", "todo"}, NEW row \in Row
  PROVE  Fresh(pc, row) \in Job /\ Fresh(pc, row).pc = pc /\ Fresh(pc, row).row = row
<1>1. Fresh(pc, row) \in Job
  BY NoJobType DEF Job, Fresh
<1>2. Fresh(pc, row).pc = pc
  BY DEF NoJob, Fresh
<1>3. Fresh(pc, row).row = row
  BY DEF NoJob, Fresh
<1> QED
  BY <1>1, <1>2, <1>3

\* A job that moves on.
LEMMA MovedJob ==
  ASSUME NEW j \in Job, NEW pc \in {"none", "sweep", "todo"} \cup Busy
  PROVE  [j EXCEPT !.pc = pc] \in Job
BY DEF Job

LEMMA AnsweredJob ==
  ASSUME NEW j \in Job, NEW ans \in Answer
  PROVE  [j EXCEPT !.pc = "answered", !.ans = ans] \in Job
BY DEF Job, Answer, Busy

LEMMA RefundFacts ==
  ASSUME NEW row \in Row, NEW then \in {"none", "save"}
  PROVE  /\ RefundTaskQuota(row, then) \in Job
         /\ then = "none" =>
              \/ RefundTaskQuota(row, then) = NoJob /\ row.quota = 0
              \/ /\ RefundTaskQuota(row, then).pc = "fund"
                 /\ RefundTaskQuota(row, then).then = "none"
                 /\ RefundTaskQuota(row, then).amount = -row.quota
<1>1. row.quota \in Nat
  BY RowFacts
<1>2. CASE row.quota = 0 /\ then = "none"
  BY <1>2, NoJobType DEF RefundTaskQuota
<1>3. CASE ~(row.quota = 0 /\ then = "none")
  <2>1. RefundTaskQuota(row, then) =
          [pc |-> IF row.quota = 0 THEN then ELSE "fund", row |-> row, ans |-> "none",
           amount |-> -row.quota, then |-> then]
    BY <1>3 DEF RefundTaskQuota, NoJob
  <2> QED
    BY <1>1, <1>3, <2>1 DEF Job, Busy, Billing
<1> QED
  BY <1>2, <1>3

LEMMA SettleFacts ==
  ASSUME NEW row \in Row, NEW j \in SettleTaskBillingOnComplete(row)
  PROVE  /\ j \in Job
         /\ \/ j = NoJob
            \/ /\ j.pc = "fund" /\ j.then = "quota"
               /\ j.amount = j.row.quota - row.quota
<1>1. CASE j = NoJob
  BY <1>1, NoJobType
<1>2. CASE j # NoJob
  <2>1. PICK actual \in Actuals : j = RecalculateTaskQuota(row, actual)
    BY <1>2 DEF SettleTaskBillingOnComplete
  <2>2. j = [pc |-> "fund", row |-> [row EXCEPT !.quota = actual], ans |-> "none",
             amount |-> actual - row.quota, then |-> "quota"]
    BY <1>2, <2>1 DEF RecalculateTaskQuota, NoJob
  <2>3. [row EXCEPT !.quota = actual] \in Row /\ row.quota \in Nat /\ actual \in Nat
    BY RowFacts, TasksAssumption
  <2>4. [row EXCEPT !.quota = actual].quota = actual
    BY DEF Row
  <2>5. j \in Job
    BY <2>2, <2>3 DEF Job, Busy, Billing
  <2>6. j.pc = "fund" /\ j.then = "quota" /\ j.amount = actual - row.quota
          /\ j.row = [row EXCEPT !.quota = actual]
    BY <2>2
  <2> QED
    BY <2>4, <2>5, <2>6
<1> QED
  BY <1>1, <1>2

LEMMA AnsweredFacts ==
  ASSUME NEW row \in Row, NEW ans \in Answer
  PROVE  /\ Answered(row, ans) \in Row
         /\ Answered(row, ans).quota = row.quota
         /\ ans # "REASON" => Answered(row, ans).status = ans
<1>1. Answer \ {"REASON"} \subseteq Status
  BY DEF Answer, Status, Terminal
<1>2. CASE ans = "REASON"
  BY <1>2 DEF Answered, Row
<1>3. CASE ans # "REASON"
  <2>1. ans \in Status /\ (ans \in Terminal) \in BOOLEAN
    BY <1>1, <1>3
  <2>2. Answered(row, ans) = [row EXCEPT !.status = ans, !.complete = ans \in Terminal]
    BY <1>3 DEF Answered
  <2> QED
    BY <2>1, <2>2 DEF Row
<1> QED
  BY <1>2, <1>3

-----------------------------------------------------------------------------
(* What the parts of an action do *)

LEMMA GotoFacts ==
  ASSUME TypeOK, NEW a \in Actors, NEW k \in Tasks, NEW j \in Job, Goto(a, k, j)
  PROVE  /\ job' \in [Actors -> [Tasks -> Job]]
         /\ job'[a][k] = j
         /\ \A b \in Actors, l \in Tasks : b # a \/ l # k => job'[b][l] = job[b][l]
BY DEF TypeOK, Goto

LEMMA StepFacts ==
  ASSUME TypeOK, NEW a \in Actors, NEW k \in Tasks,
         NEW pc \in {"none", "sweep", "todo"} \cup Busy, Step(a, k, pc)
  PROVE  /\ job' \in [Actors -> [Tasks -> Job]]
         /\ job'[a][k] = IF pc = "none" THEN NoJob ELSE [job[a][k] EXCEPT !.pc = pc]
         /\ \A b \in Actors, l \in Tasks : b # a \/ l # k => job'[b][l] = job[b][l]
<1> DEFINE j == IF pc = "none" THEN NoJob ELSE [job[a][k] EXCEPT !.pc = pc]
<1>1. job[a][k] \in Job
  BY DEF TypeOK
<1>2. j \in Job
  BY <1>1, NoJobType, MovedJob
<1>3. Goto(a, k, j)
  BY DEF Step
<1> QED
  BY <1>2, <1>3, GotoFacts

LEMMA WriteFacts ==
  ASSUME TypeOK, NEW k \in Tasks, NEW row \in Row, Write(k, row)
  PROVE  /\ rows' \in [Tasks -> Row]
         /\ rows'[k] = row
         /\ \A l \in Tasks \ {k} : rows'[l] = rows[l]
BY DEF TypeOK, Write

\* The history of faults only grows.
LEMMA FaultFacts ==
  ASSUME TypeOK, NEW S \in SUBSET Tasks, Fault(S) \/ UNCHANGED trouble
  PROVE  /\ fault' \subseteq Tasks /\ faults' \in 0..MaxFaults
         /\ fault \subseteq fault'
         /\ Fault(S) => S \subseteq fault'
<1>1. MaxFaults \in Nat
  BY TasksAssumption
<1> QED
  BY <1>1 DEF TypeOK, Fault, trouble

\* The rows a pass has read.
LEMMA ReadFacts ==
  ASSUME TypeOK, NEW p \in Pollers, NEW S, NEW pc \in {"sweep", "todo"}
  PROVE  /\ Read(p, S, pc) \in [Tasks -> Job]
         /\ \A k \in Tasks : IF k \in S
                             THEN /\ Read(p, S, pc)[k].pc = pc
                                  /\ Read(p, S, pc)[k].row = rows[k]
                             ELSE Read(p, S, pc)[k] = NoJob
<1>1. ASSUME NEW k \in Tasks
      PROVE  /\ Fresh(pc, rows[k]) \in Job
             /\ Fresh(pc, rows[k]).pc = pc /\ Fresh(pc, rows[k]).row = rows[k]
  <2>1. rows[k] \in Row
    BY DEF TypeOK
  <2> QED
    BY <2>1, FreshJob
<1>2. Read(p, S, pc) = [k \in Tasks |-> IF k \in S THEN Fresh(pc, rows[k]) ELSE NoJob]
  BY DEF Read, Fresh
<1>3. Read(p, S, pc) \in [Tasks -> Job]
  BY <1>1, <1>2, NoJobType
<1> QED
  BY <1>1, <1>2, <1>3

-----------------------------------------------------------------------------
(* Types, and what a step leaves alone *)

\* The step is one of actor a on task k.
Touches(a, k) ==
  /\ TypeOK'
  /\ \A b \in Actors, l \in Tasks : b # a \/ l # k => job'[b][l] = job[b][l]
  /\ \A l \in Tasks \ {k} :
       rows'[l] = rows[l] /\ paid'[l] = paid[l] /\ tokenPaid'[l] = tokenPaid[l]
  /\ fault \subseteq fault' /\ unsettled \subseteq unsettled'
  /\ kind' = kind /\ orphan' = orphan /\ phase' = phase

LEMMA SettleSubmissionType ==
  ASSUME TypeOK, NEW a \in Actors, NEW k \in Tasks, NEW q \in Quotas, SettleSubmission(k, q)
  PROVE  Touches(a, k)
<1>1. rows' \in [Tasks -> Row] /\ \A l \in Tasks \ {k} : rows'[l] = rows[l]
  <2>1. [NoRow EXCEPT !.status = "charged", !.quota = q] \in Row
    BY NoRowType DEF Row, Status
  <2> QED
    BY <2>1, WriteFacts DEF SettleSubmission
<1>2. PICK x \in Quotas, y \in Quotas :
        paid' = [paid EXCEPT ![k] = x] /\ tokenPaid' = [tokenPaid EXCEPT ![k] = y]
  BY DEF SettleSubmission
<1>3. x \in Int /\ y \in Int
  BY TasksAssumption
<1>4. fault' \subseteq Tasks /\ faults' \in 0..MaxFaults /\ fault \subseteq fault'
  BY FaultFacts DEF SettleSubmission
<1>5. unsettled' \subseteq Tasks /\ unsettled \subseteq unsettled'
  BY DEF SettleSubmission, TypeOK
<1> QED
  BY <1>1, <1>2, <1>3, <1>4, <1>5 DEF SettleSubmission, Touches, TypeOK

LEMMA InsertTaskType ==
  ASSUME TypeOK, NEW a \in Actors, NEW k \in Tasks, InsertTask(k)
  PROVE  Touches(a, k)
<1>1. rows' \in [Tasks -> Row] /\ \A l \in Tasks \ {k} : rows'[l] = rows[l]
  <2>1. \A s \in Status : [rows[k] EXCEPT !.status = s] \in Row
    BY RowFacts DEF TypeOK
  <2>2. "NOT_START" \in Status /\ "lost" \in Status
    BY DEF Status
  <2> QED
    BY <2>1, <2>2, WriteFacts DEF InsertTask
<1>2. fault' \subseteq Tasks /\ faults' \in 0..MaxFaults /\ fault \subseteq fault'
  BY FaultFacts DEF InsertTask
<1> QED
  BY <1>1, <1>2 DEF InsertTask, others, bill, Touches, TypeOK

LEMMA UpstreamType ==
  ASSUME TypeOK, NEW a \in Actors, NEW k \in Tasks, UpstreamEnds(k) \/ Timeout(k)
  PROVE  Touches(a, k)
BY DEF UpstreamEnds, Timeout, others, bill, trouble, Touches, TypeOK

LEMMA GetByTaskIdType ==
  ASSUME TypeOK, NEW k \in Tasks, GetByTaskId(k)
  PROVE  Touches(User, k)
<1>1. User \in Actors
  BY DEF Actors
<1>2. Fresh("todo", rows[k]) \in Job
  BY FreshJob DEF TypeOK
<1>3. Goto(User, k, Fresh("todo", rows[k]))
  BY DEF GetByTaskId, Fresh
<1>4. gets' \in 0..MaxGets
  BY TasksAssumption DEF GetByTaskId, TypeOK
<1> QED
  BY <1>1, <1>2, <1>3, <1>4, GotoFacts DEF GetByTaskId, bill, trouble, Touches, TypeOK

\* What an answer makes of a job.
LEMMA FetchTaskFacts ==
  ASSUME TypeOK, NEW a \in Actors, NEW k \in Tasks, FetchTask(a, k)
  PROVE  /\ Touches(a, k)
         /\ rows' = rows /\ paid' = paid /\ tokenPaid' = tokenPaid /\ fault' = fault
         /\ unsettled' = unsettled
         /\ \/ job'[a][k] = NoJob
            \/ \E ans \in Answer :
                 /\ ans # "none" /\ (kind[k] = "video" => ans # "REASON")
                 /\ job'[a][k] = [job[a][k] EXCEPT !.pc = "answered", !.ans = ans]
<1>1. PICK ans \in Answers(k) :
        Goto(a, k, IF ans = "none" THEN NoJob
                   ELSE [job[a][k] EXCEPT !.pc = "answered", !.ans = ans])
  BY DEF FetchTask
<1>2. ans \in Answer /\ (kind[k] = "video" => ans # "REASON")
  BY DEF Answers, Answer, TypeOK, Terminal
<1>3. job[a][k] \in Job
  BY DEF TypeOK
<1>4. (IF ans = "none" THEN NoJob
       ELSE [job[a][k] EXCEPT !.pc = "answered", !.ans = ans]) \in Job
  BY <1>2, <1>3, NoJobType, AnsweredJob
<1>5. /\ job' \in [Actors -> [Tasks -> Job]]
      /\ job'[a][k] = IF ans = "none" THEN NoJob
                      ELSE [job[a][k] EXCEPT !.pc = "answered", !.ans = ans]
      /\ \A b \in Actors, l \in Tasks : b # a \/ l # k => job'[b][l] = job[b][l]
  BY <1>1, <1>4, GotoFacts
<1>6. Touches(a, k) /\ rows' = rows /\ paid' = paid /\ tokenPaid' = tokenPaid /\ fault' = fault
        /\ unsettled' = unsettled
  BY <1>5 DEF FetchTask, others, bill, trouble, Touches, TypeOK
<1> QED
  BY <1>2, <1>5, <1>6

\* What UpdateWithStatus makes of the row and of the job.
Updated(a, k, row, from, won, lost) ==
  /\ job' \in [Actors -> [Tasks -> Job]]
  /\ \A b \in Actors, l \in Tasks : b # a \/ l # k => job'[b][l] = job[b][l]
  /\ rows' \in [Tasks -> Row] /\ \A l \in Tasks \ {k} : rows'[l] = rows[l]
  /\ fault' \subseteq Tasks /\ faults' \in 0..MaxFaults /\ fault \subseteq fault'
  /\ \/ rows[k].status = from /\ rows'[k] = row /\ job'[a][k] = won
     \/ rows' = rows /\ job'[a][k] = lost

LEMMA UpdateFacts ==
  ASSUME TypeOK, NEW a \in Actors, NEW k \in Tasks, NEW row \in Row, NEW from,
         NEW won \in Job, NEW lost \in Job,
         UpdateWithStatus(a, k, row, from, won, lost)
  PROVE  Updated(a, k, row, from, won, lost)
<1>1. fault' \subseteq Tasks /\ faults' \in 0..MaxFaults /\ fault \subseteq fault'
  BY FaultFacts DEF UpdateWithStatus
<1>2. CASE CasMatches(k, from) /\ Write(k, row) /\ Goto(a, k, won)
  BY <1>1, <1>2, GotoFacts, WriteFacts DEF CasMatches, Updated
<1>3. CASE rows' = rows /\ Goto(a, k, lost)
  BY <1>1, <1>3, GotoFacts DEF TypeOK, Updated
<1> QED
  BY <1>2, <1>3 DEF UpdateWithStatus

LEMMA SweepTaskType ==
  ASSUME TypeOK, NEW p \in Pollers, NEW k \in Tasks, SweepTask(p, k)
  PROVE  /\ Touches(p, k) /\ paid' = paid /\ tokenPaid' = tokenPaid /\ unsettled' = unsettled
         /\ \/ /\ rows[k].status = job[p][k].row.status
               /\ rows'[k] = [job[p][k].row EXCEPT !.status = "FAILURE", !.complete = TRUE]
               /\ job'[p][k] = RefundTaskQuota(rows'[k], "none")
            \/ rows' = rows /\ job'[p][k] = NoJob
<1> DEFINE j == job[p][k]
           row == [j.row EXCEPT !.status = "FAILURE", !.complete = TRUE]
<1>1. p \in Actors
  BY DEF Actors
<1>2. row \in Row
  <2>1. j.row \in Row
    BY <1>1, JobFacts DEF TypeOK
  <2> QED
    BY <2>1, RowFacts
<1>3. RefundTaskQuota(row, "none") \in Job /\ SweepLost(row) = NoJob /\ NoJob \in Job
  BY <1>2, RefundFacts, NoJobType DEF SweepLost
<1>4. UpdateWithStatus(p, k, row, j.row.status, RefundTaskQuota(row, "none"), SweepLost(row))
  BY DEF SweepTask
<1>5. /\ job' \in [Actors -> [Tasks -> Job]]
      /\ \A b \in Actors, l \in Tasks : b # p \/ l # k => job'[b][l] = job[b][l]
      /\ rows' \in [Tasks -> Row] /\ \A l \in Tasks \ {k} : rows'[l] = rows[l]
      /\ fault' \subseteq Tasks /\ faults' \in 0..MaxFaults /\ fault \subseteq fault'
      /\ \/ /\ rows[k].status = j.row.status /\ rows'[k] = row
            /\ job'[p][k] = RefundTaskQuota(row, "none")
         \/ rows' = rows /\ job'[p][k] = NoJob
  <2>1. Updated(p, k, row, j.row.status, RefundTaskQuota(row, "none"), SweepLost(row))
    <3> HIDE DEF row, j
    <3> QED
      BY <1>1, <1>2, <1>3, <1>4, UpdateFacts
  <2> QED
    BY <1>3, <2>1 DEF Updated
<1>6. UNCHANGED <<others, up, timedOut, bill, phase, plat>>
  BY DEF SweepTask
<1> QED
  BY <1>5, <1>6 DEF others, bill, Touches, TypeOK

LEMMA FailOrphanType ==
  ASSUME TypeOK, NEW p \in Pollers, NEW k \in Tasks, FailOrphan(p, k)
  PROVE  Touches(p, k)
<1>1. p \in Actors
  BY DEF Actors
<1>2. rows' \in [Tasks -> Row] /\ \A l \in Tasks \ {k} : rows'[l] = rows[l]
  <2>1. [rows[k] EXCEPT !.status = "FAILURE", !.complete = TRUE] \in Row
    BY RowFacts DEF TypeOK
  <2>2. \/ Write(k, [rows[k] EXCEPT !.status = "FAILURE", !.complete = TRUE])
        \/ rows' = rows
    BY DEF FailOrphan, TaskBulkUpdateByID
  <2> QED
    BY <2>1, <2>2, WriteFacts DEF TypeOK
<1>3. fault' \subseteq Tasks /\ faults' \in 0..MaxFaults /\ fault \subseteq fault'
  BY FaultFacts DEF FailOrphan, TaskBulkUpdateByID
<1>4. /\ job' \in [Actors -> [Tasks -> Job]]
      /\ \A b \in Actors, l \in Tasks : b # p \/ l # k => job'[b][l] = job[b][l]
  BY <1>1, GotoFacts, NoJobType DEF FailOrphan
<1>5. UNCHANGED <<others, up, timedOut, bill, phase, plat>>
  BY DEF FailOrphan
<1> QED
  BY <1>2, <1>3, <1>4, <1>5 DEF others, bill, Touches, TypeOK

\* The job of the writer of a video row.
Won(row) ==
  CASE row.status = "SUCCESS" -> SettleTaskBillingOnComplete(row)
    [] row.status = "FAILURE" -> {RefundTaskQuota(row, "none")}
    [] OTHER -> {NoJob}

LEMMA UpdateVideoType ==
  ASSUME TypeOK, NEW p \in Pollers, NEW k \in Tasks, UpdateVideoSingleTask(p, k)
  PROVE  /\ Touches(p, k) /\ paid' = paid /\ tokenPaid' = tokenPaid /\ unsettled' = unsettled
         /\ job[p][k].pc = "answered"
         /\ \/ /\ rows[k].status = job[p][k].row.status
               /\ rows'[k] = Answered(job[p][k].row, job[p][k].ans)
               /\ job'[p][k] \in Won(rows'[k])
            \/ rows' = rows /\ job'[p][k] = NoJob
<1> DEFINE j == job[p][k]
           row == Answered(j.row, j.ans)
<1>1. p \in Actors
  BY DEF Actors
<1>2. row \in Row
  BY <1>1, JobFacts, AnsweredFacts DEF TypeOK
<1>3. \A won \in Won(row) : won \in Job
  <2> HIDE DEF row
  <2>1. CASE row.status = "SUCCESS"
    BY <1>2, <2>1, SettleFacts DEF Won
  <2>2. CASE row.status = "FAILURE"
    BY <1>2, <2>2, RefundFacts DEF Won
  <2>3. CASE row.status \notin Terminal
    BY <2>3, NoJobType DEF Won, Terminal
  <2> QED
    BY <2>1, <2>2, <2>3 DEF Terminal
<1>4. /\ job' \in [Actors -> [Tasks -> Job]]
      /\ \A b \in Actors, l \in Tasks : b # p \/ l # k => job'[b][l] = job[b][l]
      /\ rows' \in [Tasks -> Row] /\ \A l \in Tasks \ {k} : rows'[l] = rows[l]
      /\ fault' \subseteq Tasks /\ faults' \in 0..MaxFaults /\ fault \subseteq fault'
      /\ \/ rows[k].status = j.row.status /\ rows'[k] = row /\ job'[p][k] \in Won(row)
         \/ rows' = rows /\ job'[p][k] = NoJob
  <2>1. CASE \E won \in Won(row) : UpdateWithStatus(p, k, row, j.row.status, won, NoJob)
    <3>1. PICK won \in Won(row) : UpdateWithStatus(p, k, row, j.row.status, won, NoJob)
      BY <2>1
    <3> HIDE DEF row, j
    <3>2. Updated(p, k, row, j.row.status, won, NoJob)
      BY <1>1, <1>2, <1>3, <3>1, NoJobType, UpdateFacts
    <3> QED
      BY <3>2 DEF Updated
  <2>2. CASE Goto(p, k, NoJob) /\ UNCHANGED <<rows, trouble>>
    BY <1>1, <2>2, NoJobType, GotoFacts DEF trouble, TypeOK
  <2>3. \/ \E won \in Won(row) : UpdateWithStatus(p, k, row, j.row.status, won, NoJob)
        \/ Goto(p, k, NoJob) /\ UNCHANGED <<rows, trouble>>
    BY DEF UpdateVideoSingleTask, Won
  <2> QED
    BY <2>1, <2>2, <2>3
<1>5. UNCHANGED <<others, up, timedOut, bill, phase, plat>> /\ job[p][k].pc = "answered"
  BY DEF UpdateVideoSingleTask
<1> QED
  BY <1>4, <1>5 DEF others, bill, Touches, TypeOK

LEMMA UpdateSunoType ==
  ASSUME TypeOK, NEW p \in Pollers, NEW k \in Tasks, UpdateSunoTask(p, k)
  PROVE  Touches(p, k)
<1> DEFINE j == job[p][k]
           row == Answered(j.row, j.ans)
<1>1. p \in Actors
  BY DEF Actors
<1>2. row \in Row /\ j \in Job
  BY <1>1, JobFacts, AnsweredFacts DEF TypeOK
<1>3. [j EXCEPT !.pc = "save", !.row = row] \in Job
  <2> HIDE DEF row
  <2> QED
    BY <1>2 DEF Job, Busy
<1>4. RefundTaskQuota(row, "save") \in Job
  BY <1>2, RefundFacts
<1>5. \E i \in Job : Goto(p, k, i)
  BY <1>3, <1>4, NoJobType DEF UpdateSunoTask
<1>6. /\ job' \in [Actors -> [Tasks -> Job]]
      /\ \A b \in Actors, l \in Tasks : b # p \/ l # k => job'[b][l] = job[b][l]
  BY <1>1, <1>5, GotoFacts
<1>7. UNCHANGED <<others, up, rows, timedOut, bill, phase, plat, trouble>>
  BY DEF UpdateSunoTask
<1> QED
  BY <1>6, <1>7 DEF others, bill, trouble, Touches, TypeOK

LEMMA SaveSunoType ==
  ASSUME TypeOK, NEW p \in Pollers, NEW k \in Tasks, SaveSunoTask(p, k)
  PROVE  Touches(p, k)
<1>1. p \in Actors
  BY DEF Actors
<1>2. rows' \in [Tasks -> Row] /\ \A l \in Tasks \ {k} : rows'[l] = rows[l]
  <2>1. job[p][k].row \in Row
    BY <1>1, JobFacts DEF TypeOK
  <2> QED
    BY <2>1, WriteFacts DEF SaveSunoTask, TypeOK
<1>3. fault' \subseteq Tasks /\ faults' \in 0..MaxFaults /\ fault \subseteq fault'
  BY FaultFacts DEF SaveSunoTask
<1>4. /\ job' \in [Actors -> [Tasks -> Job]]
      /\ \A b \in Actors, l \in Tasks : b # p \/ l # k => job'[b][l] = job[b][l]
  BY <1>1, GotoFacts, NoJobType DEF SaveSunoTask
<1>5. UNCHANGED <<others, up, timedOut, bill, phase, plat>>
  BY DEF SaveSunoTask
<1> QED
  BY <1>2, <1>3, <1>4, <1>5 DEF others, bill, Touches, TypeOK

LEMMA RealtimeType ==
  ASSUME TypeOK, NEW k \in Tasks, TryRealtimeFetch(k)
  PROVE  Touches(User, k)
<1> DEFINE j == job[User][k]
           row == Answered(j.row, j.ans)
<1>1. User \in Actors
  BY DEF Actors
<1>2. row \in Row
  BY <1>1, JobFacts, AnsweredFacts DEF TypeOK
<1>3. /\ job' \in [Actors -> [Tasks -> Job]]
      /\ \A b \in Actors, l \in Tasks : b # User \/ l # k => job'[b][l] = job[b][l]
      /\ rows' \in [Tasks -> Row] /\ \A l \in Tasks \ {k} : rows'[l] = rows[l]
      /\ fault' \subseteq Tasks /\ faults' \in 0..MaxFaults /\ fault \subseteq fault'
  <2>1. CASE UpdateWithStatus(User, k, row, j.row.status, NoJob, NoJob)
    <3> HIDE DEF row, j
    <3>1. Updated(User, k, row, j.row.status, NoJob, NoJob)
      BY <1>1, <1>2, <2>1, NoJobType, UpdateFacts
    <3> QED
      BY <3>1 DEF Updated
  <2>2. CASE Goto(User, k, NoJob) /\ UNCHANGED <<rows, trouble>>
    BY <1>1, <2>2, NoJobType, GotoFacts DEF trouble, TypeOK
  <2> QED
    BY <2>1, <2>2 DEF TryRealtimeFetch
<1>4. UNCHANGED <<others, up, timedOut, bill, phase, plat>>
  BY DEF TryRealtimeFetch
<1> QED
  BY <1>3, <1>4 DEF others, bill, Touches, TypeOK

\* The statements of the billing.
LEMMA FundingFacts ==
  ASSUME TypeOK, NEW p \in Pollers, NEW k \in Tasks, TaskAdjustFunding(p, k)
  PROVE  /\ Touches(p, k) /\ rows' = rows /\ tokenPaid' = tokenPaid /\ unsettled' = unsettled
         /\ job[p][k].pc = "fund"
         /\ \/ /\ paid'[k] = paid[k] + job[p][k].amount /\ fault' = fault
               /\ job'[p][k] = [job[p][k] EXCEPT !.pc = "token"]
            \/ /\ paid' = paid /\ k \in fault'
               /\ job[p][k].then # "save" => job'[p][k] = NoJob
<1> DEFINE j == job[p][k]
<1>1. p \in Actors
  BY DEF Actors
<1>2. j \in Job
  BY <1>1 DEF TypeOK
<1>3. AfterFundingError(j) \in {"none", "save"}
        /\ (j.then # "save" => AfterFundingError(j) = "none")
  BY <1>2, JobFacts DEF AfterFundingError
<1>4. UNCHANGED <<others, up, rows, timedOut, tokenPaid, phase, plat>> /\ j.pc = "fund"
  BY DEF TaskAdjustFunding
<1>5. CASE paid' = [paid EXCEPT ![k] = @ + j.amount] /\ Step(p, k, "token") /\ UNCHANGED trouble
  <2>1. /\ job' \in [Actors -> [Tasks -> Job]]
        /\ job'[p][k] = [j EXCEPT !.pc = "token"]
        /\ \A b \in Actors, l \in Tasks : b # p \/ l # k => job'[b][l] = job[b][l]
    <3>1. PICK pc \in {"none", "sweep", "todo"} \cup Busy : pc = "token"
      BY DEF Busy, Billing
    <3>2. Step(p, k, pc) /\ pc # "none"
      BY <1>5, <3>1
    <3> QED
      BY <1>1, <3>1, <3>2, StepFacts
  <2>2. /\ paid' \in [Tasks -> Int] /\ paid'[k] = paid[k] + j.amount
        /\ \A l \in Tasks \ {k} : paid'[l] = paid[l]
    BY <1>2, <1>5, JobFacts DEF TypeOK
  <2> QED
    BY <1>4, <1>5, <2>1, <2>2 DEF others, trouble, Touches, TypeOK
<1>6. CASE Fault({k}) /\ Step(p, k, AfterFundingError(j)) /\ UNCHANGED paid
  <2>1. /\ job' \in [Actors -> [Tasks -> Job]]
        /\ j.then # "save" => job'[p][k] = NoJob
        /\ \A b \in Actors, l \in Tasks : b # p \/ l # k => job'[b][l] = job[b][l]
    <3>1. PICK pc \in {"none", "save"} : pc = AfterFundingError(j)
      BY <1>3
    <3> HIDE DEF j
    <3>2. Step(p, k, pc) /\ pc \in {"none", "sweep", "todo"} \cup Busy
      BY <1>6, <3>1 DEF Busy
    <3> QED
      BY ZenonT(60), <1>1, <1>3, <3>1, <3>2, StepFacts
  <2>2. fault' \subseteq Tasks /\ faults' \in 0..MaxFaults /\ fault \subseteq fault' /\ k \in fault'
    BY <1>6, FaultFacts
  <2> QED
    BY <1>4, <1>6, <2>1, <2>2 DEF others, Touches, TypeOK
<1> QED
  BY <1>5, <1>6 DEF TaskAdjustFunding

LEMMA TokenFacts ==
  ASSUME TypeOK, NEW p \in Pollers, NEW k \in Tasks, TaskAdjustTokenQuota(p, k)
  PROVE  /\ Touches(p, k) /\ rows' = rows /\ paid' = paid /\ unsettled' = unsettled
         /\ job[p][k].pc = "token"
         /\ job'[p][k] = IF job[p][k].then = "none" THEN NoJob
                         ELSE [job[p][k] EXCEPT !.pc = job[p][k].then]
         /\ \/ tokenPaid'[k] = tokenPaid[k] + job[p][k].amount /\ fault' = fault
            \/ tokenPaid' = tokenPaid /\ k \in fault'
<1> DEFINE j == job[p][k]
<1>1. p \in Actors
  BY DEF Actors
<1>2. j \in Job
  BY <1>1 DEF TypeOK
<1>3. /\ job' \in [Actors -> [Tasks -> Job]]
      /\ job'[p][k] = IF j.then = "none" THEN NoJob ELSE [j EXCEPT !.pc = j.then]
      /\ \A b \in Actors, l \in Tasks : b # p \/ l # k => job'[b][l] = job[b][l]
  <2>1. PICK pc \in {"none", "quota", "save"} : pc = j.then
    BY <1>2, JobFacts
  <2>2. Step(p, k, pc) /\ pc \in {"none", "sweep", "todo"} \cup Busy
    BY <2>1 DEF TaskAdjustTokenQuota, Busy, Billing
  <2> QED
    BY <1>1, <2>1, <2>2, StepFacts
<1>4. UNCHANGED <<others, up, rows, timedOut, paid, phase, plat>> /\ j.pc = "token"
  BY DEF TaskAdjustTokenQuota
<1>5. CASE tokenPaid' = [tokenPaid EXCEPT ![k] = @ + j.amount] /\ UNCHANGED trouble
  <2>1. /\ tokenPaid' \in [Tasks -> Int] /\ tokenPaid'[k] = tokenPaid[k] + j.amount
        /\ \A l \in Tasks \ {k} : tokenPaid'[l] = tokenPaid[l]
    BY <1>2, <1>5, JobFacts DEF TypeOK
  <2> QED
    BY <1>3, <1>4, <1>5, <2>1 DEF others, trouble, Touches, TypeOK
<1>6. CASE Fault({k}) /\ UNCHANGED tokenPaid
  <2>1. fault' \subseteq Tasks /\ faults' \in 0..MaxFaults /\ fault \subseteq fault' /\ k \in fault'
    BY <1>6, FaultFacts
  <2> QED
    BY <1>3, <1>4, <1>6, <2>1 DEF others, Touches, TypeOK
<1> QED
  BY <1>5, <1>6 DEF TaskAdjustTokenQuota, TokenAmount

LEMMA QuotaFacts ==
  ASSUME TypeOK, NEW p \in Pollers, NEW k \in Tasks, UpdateQuota(p, k)
  PROVE  /\ Touches(p, k) /\ paid' = paid /\ tokenPaid' = tokenPaid /\ unsettled' = unsettled
         /\ job[p][k].pc = "quota" /\ job'[p][k] = NoJob
         /\ rows'[k].status = rows[k].status
         /\ \/ rows'[k].quota = job[p][k].row.quota /\ fault' = fault
            \/ rows' = rows /\ k \in fault'
<1> DEFINE j == job[p][k]
<1>1. p \in Actors
  BY DEF Actors
<1>2. j.row \in Row /\ rows[k] \in Row
  BY <1>1, JobFacts DEF TypeOK
<1>3. /\ job' \in [Actors -> [Tasks -> Job]] /\ job'[p][k] = NoJob
      /\ \A b \in Actors, l \in Tasks : b # p \/ l # k => job'[b][l] = job[b][l]
  BY <1>1, NoJobType, GotoFacts DEF UpdateQuota
<1>4. UNCHANGED <<others, up, timedOut, bill, phase, plat>> /\ j.pc = "quota"
  BY DEF UpdateQuota
<1>5. CASE Write(k, [rows[k] EXCEPT !.quota = j.row.quota]) /\ UNCHANGED trouble
  <2>1. PICK r \in Row : r = j.row
    BY <1>2
  <2>2. [rows[k] EXCEPT !.quota = r.quota] \in Row
    BY <1>2 DEF Row
  <2>3. /\ [rows[k] EXCEPT !.quota = r.quota].quota = r.quota
        /\ [rows[k] EXCEPT !.quota = r.quota].status = rows[k].status
    BY <1>2 DEF Row
  <2>4. /\ rows' \in [Tasks -> Row] /\ rows'[k] = [rows[k] EXCEPT !.quota = r.quota]
        /\ \A l \in Tasks \ {k} : rows'[l] = rows[l]
    BY <1>5, <2>1, <2>2, WriteFacts
  <2> QED
    BY <1>3, <1>4, <1>5, <2>1, <2>3, <2>4 DEF others, bill, trouble, Touches, TypeOK
<1>6. CASE Fault({k}) /\ UNCHANGED rows
  <2>1. fault' \subseteq Tasks /\ faults' \in 0..MaxFaults /\ fault \subseteq fault' /\ k \in fault'
    BY <1>6, FaultFacts
  <2> QED
    BY <1>3, <1>4, <1>6, <2>1 DEF others, bill, Touches, TypeOK
<1> QED
  BY <1>5, <1>6 DEF UpdateQuota

-----------------------------------------------------------------------------
(* Steps of a pass *)

\* The step is one of the pass of p on all its tasks.
PassStep(p) ==
  /\ TypeOK'
  /\ \A b \in Actors \ {p} : job'[b] = job[b]
  /\ rows' = rows /\ paid' = paid /\ tokenPaid' = tokenPaid /\ unsettled' = unsettled
  /\ fault \subseteq fault' /\ kind' = kind /\ orphan' = orphan

LEMMA QueryFacts ==
  ASSUME TypeOK, NEW p \in Pollers, NEW S, NEW pc \in {"sweep", "todo"}, Query(p, S, pc)
  PROVE  /\ job' \in [Actors -> [Tasks -> Job]]
         /\ \A b \in Actors \ {p} : job'[b] = job[b]
         /\ \A k \in Tasks : \/ job'[p][k] = NoJob
                             \/ /\ k \in S
                                /\ job'[p][k].pc = pc /\ job'[p][k].row = rows[k]
         /\ fault' \subseteq Tasks /\ faults' \in 0..MaxFaults /\ fault' = fault
<1>1. p \in Actors
  BY DEF Actors
<1>2. PICK T : /\ T \in {S, {}} /\ job' = [job EXCEPT ![p] = Read(p, T, pc)]
  BY DEF Query
<1>3. /\ Read(p, T, pc) \in [Tasks -> Job]
      /\ \A k \in Tasks : IF k \in T
                          THEN /\ Read(p, T, pc)[k].pc = pc
                               /\ Read(p, T, pc)[k].row = rows[k]
                          ELSE Read(p, T, pc)[k] = NoJob
  BY ReadFacts
<1>4. fault' \subseteq Tasks /\ faults' \in 0..MaxFaults
  BY FaultFacts DEF Query
<1>5. fault' = fault
  BY DEF Query, Fault, trouble
<1>6. job' \in [Actors -> [Tasks -> Job]] /\ (\A b \in Actors \ {p} : job'[b] = job[b])
        /\ job'[p] = Read(p, T, pc)
  BY <1>1, <1>2, <1>3 DEF TypeOK
<1> QED
  BY <1>2, <1>3, <1>4, <1>5, <1>6

\* The pass reads the unfinished tasks.
LEMMA ReadingPass ==
  ASSUME TypeOK, NEW p \in Pollers,
         GetTimedOutUnfinishedTasks(p) \/ GetAllUnFinishSyncTasks(p)
  PROVE  /\ PassStep(p) /\ fault' = fault
         /\ GetTimedOutUnfinishedTasks(p) => phase[p] = "idle"
         /\ GetAllUnFinishSyncTasks(p) => Working(p) = {}
         /\ \A k \in Tasks : \/ job'[p][k] = NoJob
                             \/ /\ k \in Unfinished /\ job'[p][k].pc \in {"sweep", "todo"}
                                /\ job'[p][k].row = rows[k]
<1>1. CASE GetTimedOutUnfinishedTasks(p)
  <2>1. /\ job' \in [Actors -> [Tasks -> Job]]
        /\ \A b \in Actors \ {p} : job'[b] = job[b]
        /\ \A k \in Tasks : \/ job'[p][k] = NoJob
                            \/ /\ k \in TimedOutUnfinished
                               /\ job'[p][k].pc = "sweep" /\ job'[p][k].row = rows[k]
        /\ fault' \subseteq Tasks /\ faults' \in 0..MaxFaults /\ fault' = fault
    BY <1>1, QueryFacts DEF GetTimedOutUnfinishedTasks
  <2>2. phase' \in [Pollers -> {"idle", "sweep", "work"}]
          /\ UNCHANGED <<others, up, rows, timedOut, bill, plat>> /\ phase[p] = "idle"
    BY <1>1 DEF GetTimedOutUnfinishedTasks, TypeOK
  <2>3. PassStep(p)
    BY <2>1, <2>2 DEF PassStep, TypeOK, others, bill
  <2>4. ~GetAllUnFinishSyncTasks(p)
    BY <2>2 DEF GetAllUnFinishSyncTasks
  <2> QED
    BY <2>1, <2>2, <2>3, <2>4 DEF TimedOutUnfinished
<1>2. CASE GetAllUnFinishSyncTasks(p)
  <2>1. /\ job' \in [Actors -> [Tasks -> Job]]
        /\ \A b \in Actors \ {p} : job'[b] = job[b]
        /\ \A k \in Tasks : \/ job'[p][k] = NoJob
                            \/ /\ k \in Unfinished
                               /\ job'[p][k].pc = "todo" /\ job'[p][k].row = rows[k]
        /\ fault' \subseteq Tasks /\ faults' \in 0..MaxFaults /\ fault' = fault
    BY <1>2, QueryFacts DEF GetAllUnFinishSyncTasks
  <2>2. phase' \in [Pollers -> {"idle", "sweep", "work"}]
          /\ UNCHANGED <<others, up, rows, timedOut, bill, plat>> /\ phase[p] = "sweep"
          /\ Working(p) = {}
    BY <1>2 DEF GetAllUnFinishSyncTasks, TypeOK
  <2>3. PassStep(p)
    BY <2>1, <2>2 DEF PassStep, TypeOK, others, bill
  <2>4. ~GetTimedOutUnfinishedTasks(p)
    BY <2>2 DEF GetTimedOutUnfinishedTasks
  <2> QED
    BY <2>1, <2>2, <2>3, <2>4
<1> QED
  BY <1>1, <1>2

\* The pass moves on, ends, is cancelled or crashes.
LEMMA PassType ==
  ASSUME TypeOK, NEW p \in Pollers,
         DispatchPlatformUpdate(p) \/ EndPass(p) \/ Cancel(p) \/ Crash(p)
  PROVE  /\ PassStep(p)
         /\ \A k \in Tasks : job'[p][k] \in {job[p][k], NoJob}
         /\ \A k \in Tasks : (job'[p][k] # job[p][k] /\ job[p][k].pc \in Billing) =>
              k \in fault'
         /\ \A q \in Pollers, k \in Tasks : phase'[q] = "idle" =>
              \/ phase[q] = "idle" /\ job'[q][k] \in {job[q][k], NoJob}
              \/ job'[q][k].pc = "none"
<1>1. p \in Actors /\ Pollers \subseteq Actors
  BY DEF Actors
<1>2. CASE DispatchPlatformUpdate(p)
  <2>1. PICK k \in Tasks : plat' = [plat EXCEPT ![p] = kind[k]]
    BY <1>2 DEF DispatchPlatformUpdate, Waiting
  <2>2. plat' \in [Pollers -> Kinds \cup {"none"}]
    BY <2>1 DEF TypeOK
  <2>3. UNCHANGED <<others, up, rows, timedOut, bill, phase, job, trouble>>
    BY <1>2 DEF DispatchPlatformUpdate
  <2> QED
    BY <2>2, <2>3 DEF others, bill, trouble, PassStep, TypeOK
<1>3. CASE EndPass(p)
  <2>1. UNCHANGED <<others, up, rows, timedOut, bill, job, trouble>>
    BY <1>3 DEF EndPass
  <2>2. plat' \in [Pollers -> Kinds \cup {"none"}] /\ phase' \in [Pollers -> {"idle", "sweep", "work"}]
          /\ \A q \in Pollers \ {p} : phase'[q] = phase[q]
    BY <1>3 DEF EndPass, TypeOK
  <2>3. \A k \in Tasks : job[p][k].pc = "none"
    BY <1>3 DEF EndPass, At
  <2> QED
    BY <2>1, <2>2, <2>3 DEF others, bill, trouble, PassStep, TypeOK
<1>4. CASE Cancel(p)
  <2>1. UNCHANGED <<others, up, rows, timedOut, bill, phase, plat, trouble>>
    BY <1>4 DEF Cancel
  <2>2. job' = [job EXCEPT ![p] = [k \in Tasks |-> IF At(p, k, "todo") THEN NoJob ELSE job[p][k]]]
    BY <1>4 DEF Cancel
  <2>3. job' \in [Actors -> [Tasks -> Job]] /\ \A b \in Actors \ {p} : job'[b] = job[b]
    BY <1>1, <2>2, NoJobType DEF TypeOK
  <2>4. \A k \in Tasks : job'[p][k] \in {job[p][k], NoJob}
    BY <1>1, <2>2 DEF TypeOK
  <2>5. \A k \in Tasks : job'[p][k] # job[p][k] => job[p][k].pc = "todo"
    BY <1>1, <2>2 DEF TypeOK, At
  <2>6. PassStep(p)
    BY <2>1, <2>3 DEF others, bill, trouble, PassStep, TypeOK
  <2>7. \A q \in Pollers, k \in Tasks : job'[q][k] \in {job[q][k], NoJob}
    BY <1>1, <2>3, <2>4
  <2> QED
    BY <2>1, <2>4, <2>5, <2>6, <2>7 DEF Billing
<1>5. CASE Crash(p)
  <2>1. UNCHANGED <<others, up, rows, timedOut, bill>>
    BY <1>5 DEF Crash
  <2>2. job' = [job EXCEPT ![p] = [k \in Tasks |-> NoJob]]
    BY <1>5 DEF Crash
  <2>3. job' \in [Actors -> [Tasks -> Job]] /\ \A b \in Actors \ {p} : job'[b] = job[b]
    BY <1>1, <2>2, NoJobType DEF TypeOK
  <2>4. \A k \in Tasks : job'[p][k] = NoJob
    BY <1>1, <2>2 DEF TypeOK
  <2>5. /\ fault' \subseteq Tasks /\ faults' \in 0..MaxFaults /\ fault \subseteq fault'
        /\ {k \in Tasks : job[p][k].pc \in Billing \cup {"save"}} \subseteq fault'
    BY <1>5, FaultFacts DEF Crash
  <2>6. plat' \in [Pollers -> Kinds \cup {"none"}] /\ phase' \in [Pollers -> {"idle", "sweep", "work"}]
          /\ \A q \in Pollers \ {p} : phase'[q] = phase[q]
    BY <1>5 DEF Crash, TypeOK
  <2>7. PassStep(p)
    BY <2>1, <2>3, <2>5, <2>6 DEF others, bill, PassStep, TypeOK
  <2>8. NoJob.pc = "none"
    BY DEF NoJob
  <2> QED
    BY <1>1, <2>3, <2>4, <2>5, <2>6, <2>7, <2>8
<1> QED
  BY <1>2, <1>3, <1>4, <1>5

-----------------------------------------------------------------------------
(* The invariant of one task *)

LEMMA InRange ==
  ASSUME TypeOK, NEW k \in Tasks
  PROVE  /\ rows[k] \in Row /\ rows[k].quota \in Nat /\ rows[k].status \in Status
         /\ paid[k] \in Int /\ tokenPaid[k] \in Int
         /\ \A a \in Actors : /\ job[a][k] \in Job /\ job[a][k].row \in Row
                              /\ job[a][k].row.quota \in Nat /\ job[a][k].amount \in Int
BY JobFacts, RowFacts DEF TypeOK

\* Nothing about the task changes, or p stops working on it without billing
\* it, or leaving behind that it did not.
LEMMA Leaves ==
  ASSUME NEW k \in Tasks, NEW p \in Pollers, TaskInv(k),
         \A b \in Actors \ {p} : job'[b][k] = job[b][k],
         rows'[k] = rows[k], paid'[k] = paid[k], tokenPaid'[k] = tokenPaid[k],
         fault \subseteq fault', unsettled \subseteq unsettled',
         \A q \in Pollers : phase'[q] = "idle" => job'[q][k].pc = "none",
         \/ job'[p][k] = job[p][k]
         \/ /\ job'[p][k].pc \notin Billing /\ CopyInv(p, k)'
            /\ job[p][k].pc \in Billing => k \in fault'
  PROVE  TaskInv(k)'
<1>1. Pollers \subseteq Actors /\ User \in Actors \ {p}
  BY TasksAssumption DEF Actors
<1>2. \A q \in Pollers : q # p => job'[q][k] = job[q][k]
  BY <1>1
<1>3. job'[User][k].pc = "none"
  BY <1>1 DEF TaskInv
<1>4. \A q \in Pollers : CopyInv(q, k)'
  BY <1>2 DEF TaskInv, CopyInv, Inserted
<1>5. \A q \in Pollers : BillerInv(q, k)'
  BY <1>2 DEF TaskInv, BillerInv
<1>6. ASSUME k \notin unsettled'
      PROVE  MoneyInv(k)'
  <2>1. MoneyInv(k)
    BY <1>6 DEF TaskInv
  <2>2. \A q \in Pollers : PaidWhileBilling(q, k)'
    <3>1. CASE job'[p][k] = job[p][k]
      BY <1>2, <2>1, <3>1 DEF MoneyInv, PaidWhileBilling, AfterBilling
    <3>2. CASE job'[p][k].pc \notin Billing
      BY <1>2, <2>1, <3>2 DEF MoneyInv, PaidWhileBilling, AfterBilling, Billing
    <3> QED
      BY <3>1, <3>2
  <2>3. NoBiller(k)' /\ k \notin fault' => NoBiller(k)
    BY <1>2 DEF NoBiller
  <2> QED
    BY <2>1, <2>2, <2>3 DEF MoneyInv, DueOf
<1> QED
  BY <1>3, <1>4, <1>5, <1>6 DEF TaskInv

\* The job with which p, having won the update of the row, goes on.
WinningJob(p, k) ==
  LET j == job[p][k]
  IN  \/ rows[k].status = "IN_PROGRESS" /\ j = NoJob
      \/ /\ rows[k].status = "FAILURE"
         /\ \/ j = NoJob /\ rows[k].quota = 0
            \/ j.pc = "fund" /\ j.then = "none" /\ j.amount = -rows[k].quota
      \/ /\ rows[k].status = "SUCCESS"
         /\ \/ j = NoJob
            \/ /\ j.pc = "fund" /\ j.then = "quota"
               /\ j.amount = j.row.quota - rows[k].quota

\* An update that matches finds the task open, so that nobody was billing it,
\* and writes the quota that was there.
LEMMA Wins ==
  ASSUME TypeOK, NEW k \in Tasks, NEW p \in Pollers, TaskInv(k), Touches(p, k),
         paid' = paid, tokenPaid' = tokenPaid, unsettled' = unsettled,
         job[p][k].pc \in Copies, rows[k].status = job[p][k].row.status,
         rows'[k].quota = job[p][k].row.quota, WinningJob(p, k)'
  PROVE  TaskInv(k)'
<1>1. Pollers \subseteq Actors /\ User \in Actors \ {p}
  BY TasksAssumption DEF Actors
<1>2. \A q \in Pollers : q # p => job'[q][k] = job[q][k]
  BY <1>1 DEF Touches
<1>3. /\ rows[k].status \in Open /\ rows[k].status \notin Terminal
      /\ rows'[k].quota = rows[k].quota /\ phase[p] # "idle"
  BY DEF TaskInv, CopyInv, Open, Copies, Terminal
<1>4. rows'[k].status \in {"IN_PROGRESS", "FAILURE", "SUCCESS"}
  BY DEF WinningJob
<1>5. \A q \in Pollers : job[q][k].pc \notin Billing
  BY <1>3 DEF TaskInv, BillerInv
<1>6. \A q \in Pollers : q # p => job'[q][k].pc \notin Billing
  BY <1>2, <1>5
<1>7. NoJob.pc = "none"
  BY DEF NoJob
<1>8. job'[p][k].pc \in {"none", "fund"}
  BY <1>7 DEF WinningJob
<1>9. job'[User][k].pc = "none"
  BY <1>1 DEF TaskInv, Touches
<1>10. \A q \in Pollers : phase'[q] = "idle" => job'[q][k].pc = "none"
  BY <1>2, <1>3 DEF TaskInv, Touches
<1>11. \A q \in Pollers : CopyInv(q, k)'
  <2>1. CopyInv(p, k)'
    BY <1>8 DEF CopyInv, Copies
  <2>2. ASSUME NEW q \in Pollers, q # p
        PROVE  CopyInv(q, k)'
    BY <1>2, <1>3, <1>4, <2>2 DEF TaskInv, CopyInv, Inserted
  <2> QED
    BY <2>1, <2>2
<1>12. \A q \in Pollers : BillerInv(q, k)'
  <2>1. BillerInv(p, k)'
    BY <1>6, <1>7 DEF BillerInv, WinningJob, Billing, Terminal
  <2> QED
    BY <1>6, <2>1 DEF BillerInv
<1>13. ASSUME k \notin unsettled'
       PROVE  MoneyInv(k)'
  <2>1. MoneyInv(k) /\ rows[k].status # "none"
    BY <1>3, <1>13 DEF TaskInv, Open
  <2>2. /\ paid'[k] = rows'[k].quota /\ tokenPaid'[k] = rows'[k].quota
        /\ paid'[k] >= 0 /\ tokenPaid'[k] >= 0
    BY <1>3, <2>1 DEF MoneyInv
  <2>3. \A q \in Pollers : PaidWhileBilling(q, k)'
    BY <1>6, <1>8, <2>2 DEF PaidWhileBilling, Billing
  <2>4. NoBiller(k)' => paid'[k] = DueOf(k)' /\ tokenPaid'[k] = DueOf(k)'
    BY <2>2 DEF NoBiller, DueOf, WinningJob, Billing
  <2> QED
    BY <1>4, <2>2, <2>3, <2>4 DEF MoneyInv
<1> QED
  BY <1>9, <1>10, <1>11, <1>12, <1>13 DEF TaskInv

\* A job that was working goes away with the pass not idle.
LEMMA StaysBusy ==
  ASSUME NEW k \in Tasks, NEW p \in Pollers, TaskInv(k), Touches(p, k),
         job[p][k].pc # "none"
  PROVE  \A q \in Pollers : phase'[q] = "idle" => job'[q][k].pc = "none"
<1>1. Pollers \subseteq Actors
  BY DEF Actors
<1> QED
  BY <1>1 DEF TaskInv, Touches

LEMMA SweepKeeps ==
  ASSUME TypeOK, NEW p \in Pollers, NEW k \in Tasks, TaskInv(k), SweepTask(p, k)
  PROVE  TaskInv(k)'
<1>1. /\ Touches(p, k) /\ paid' = paid /\ tokenPaid' = tokenPaid /\ unsettled' = unsettled
      /\ \/ /\ rows[k].status = job[p][k].row.status
            /\ rows'[k] = [job[p][k].row EXCEPT !.status = "FAILURE", !.complete = TRUE]
            /\ job'[p][k] = RefundTaskQuota(rows'[k], "none")
         \/ rows' = rows /\ job'[p][k] = NoJob
  BY SweepTaskType
<1>2. job[p][k].pc = "sweep"
  BY DEF SweepTask
<1>3. CASE rows' = rows /\ job'[p][k] = NoJob
  <2>1. \A q \in Pollers : phase'[q] = "idle" => job'[q][k].pc = "none"
    BY <1>1, <1>2, StaysBusy
  <2>2. CopyInv(p, k)' /\ job'[p][k].pc \notin Billing
    BY <1>3 DEF CopyInv, NoJob, Copies, Billing
  <2> QED
    BY <1>1, <1>2, <1>3, <2>1, <2>2, Leaves DEF Touches, Billing
<1>4. CASE /\ rows[k].status = job[p][k].row.status
           /\ rows'[k] = [job[p][k].row EXCEPT !.status = "FAILURE", !.complete = TRUE]
           /\ job'[p][k] = RefundTaskQuota(rows'[k], "none")
  <2>1. rows'[k] \in Row
    BY <1>1 DEF Touches, TypeOK
  <2>2. p \in Actors
    BY DEF Actors
  <2>3. job[p][k].row \in Row
    BY <2>2, InRange
  <2>4. rows'[k].status = "FAILURE" /\ rows'[k].quota = job[p][k].row.quota
    BY <1>4, <2>3 DEF Row
  <2>5. WinningJob(p, k)'
    BY <1>4, <2>1, <2>4, RefundFacts DEF WinningJob
  <2> QED
    BY <1>1, <1>2, <1>4, <2>4, <2>5, Wins DEF Copies
<1> QED
  BY <1>1, <1>3, <1>4

LEMMA UpdateVideoKeeps ==
  ASSUME TypeOK, NEW p \in Pollers, NEW k \in Tasks, TaskInv(k), UpdateVideoSingleTask(p, k)
  PROVE  TaskInv(k)'
<1>1. /\ Touches(p, k) /\ paid' = paid /\ tokenPaid' = tokenPaid /\ unsettled' = unsettled
      /\ job[p][k].pc = "answered"
      /\ \/ /\ rows[k].status = job[p][k].row.status
            /\ rows'[k] = Answered(job[p][k].row, job[p][k].ans)
            /\ job'[p][k] \in Won(rows'[k])
         \/ rows' = rows /\ job'[p][k] = NoJob
  BY UpdateVideoType
<1>2. CASE rows' = rows /\ job'[p][k] = NoJob
  <2>1. \A q \in Pollers : phase'[q] = "idle" => job'[q][k].pc = "none"
    BY <1>1, StaysBusy
  <2>2. CopyInv(p, k)' /\ job'[p][k].pc \notin Billing
    BY <1>2 DEF CopyInv, NoJob, Copies, Billing
  <2> QED
    BY <1>1, <1>2, <2>1, <2>2, Leaves DEF Touches, Billing
<1>3. CASE /\ rows[k].status = job[p][k].row.status
           /\ rows'[k] = Answered(job[p][k].row, job[p][k].ans)
           /\ job'[p][k] \in Won(rows'[k])
  <2>1. rows'[k] \in Row
    BY <1>1 DEF Touches, TypeOK
  <2>2. p \in Actors
    BY DEF Actors
  <2>3. job[p][k].row \in Row /\ job[p][k].ans \in {"IN_PROGRESS"} \cup Terminal
    BY <1>1, <2>2, InRange DEF TaskInv, CopyInv
  <2>4. rows'[k].status \in {"IN_PROGRESS"} \cup Terminal /\ rows'[k].quota = job[p][k].row.quota
    BY <1>3, <2>3, AnsweredFacts DEF Answer, Terminal
  <2>5. WinningJob(p, k)'
    <3>1. CASE rows'[k].status = "IN_PROGRESS"
      BY <1>3, <3>1 DEF WinningJob, Won
    <3>2. CASE rows'[k].status = "FAILURE"
      BY <1>3, <2>1, <3>2, RefundFacts DEF WinningJob, Won
    <3>3. CASE rows'[k].status = "SUCCESS"
      <4>1. job'[p][k] \in SettleTaskBillingOnComplete(rows'[k])
        BY <1>3, <3>3 DEF Won
      <4> QED
        BY <2>1, <3>3, <4>1, SettleFacts DEF WinningJob
    <3> QED
      BY <2>4, <3>1, <3>2, <3>3 DEF Terminal
  <2> QED
    BY <1>1, <1>3, <2>4, <2>5, Wins DEF Copies
<1> QED
  BY <1>1, <1>2, <1>3

LEMMA PollFetchKeeps ==
  ASSUME TypeOK, NEW p \in Pollers, NEW k \in Guarded, TaskInv(k), PollFetch(p, k)
  PROVE  TaskInv(k)'
<1>1. k \in Tasks /\ kind[k] = "video" /\ p \in Actors
  BY DEF Guarded, Actors
<1>2. job[p][k].pc = "todo" /\ FetchTask(p, k)
  BY DEF PollFetch, MayStart, At
<1>3. /\ Touches(p, k)
      /\ rows' = rows /\ paid' = paid /\ tokenPaid' = tokenPaid /\ fault' = fault
      /\ unsettled' = unsettled
      /\ \/ job'[p][k] = NoJob
         \/ \E ans \in Answer :
              /\ ans # "none" /\ (kind[k] = "video" => ans # "REASON")
              /\ job'[p][k] = [job[p][k] EXCEPT !.pc = "answered", !.ans = ans]
  BY <1>1, <1>2, FetchTaskFacts
<1>4. \A q \in Pollers : phase'[q] = "idle" => job'[q][k].pc = "none"
  BY <1>1, <1>2, <1>3, StaysBusy
<1>5. CopyInv(p, k)' /\ job'[p][k].pc \notin Billing
  <2>1. CASE job'[p][k] = NoJob
    BY <2>1 DEF CopyInv, NoJob, Copies, Billing
  <2>2. CASE job'[p][k] # NoJob
    <3>1. PICK ans \in Answer :
            /\ ans \notin {"none", "REASON"}
            /\ job'[p][k] = [job[p][k] EXCEPT !.pc = "answered", !.ans = ans]
      BY <1>1, <1>3, <2>2
    <3>2. job[p][k] \in Job
      BY <1>1, InRange
    <3>3. job'[p][k].pc = "answered" /\ job'[p][k].ans = ans /\ job'[p][k].row = job[p][k].row
      BY <3>1, <3>2 DEF Job
    <3>4. CopyInv(p, k)
      BY DEF TaskInv
    <3> QED
      BY <1>2, <1>3, <3>1, <3>3, <3>4 DEF CopyInv, Copies, Billing, Inserted, Answer
  <2> QED
    BY <2>1, <2>2
<1>6. /\ \A b \in Actors \ {p} : job'[b][k] = job[b][k]
      /\ rows'[k] = rows[k] /\ paid'[k] = paid[k] /\ tokenPaid'[k] = tokenPaid[k]
      /\ fault \subseteq fault' /\ unsettled \subseteq unsettled'
  BY <1>1, <1>3 DEF Touches
<1>7. job[p][k].pc \notin Billing
  BY <1>2 DEF Billing
<1> QED
  BY <1>1, <1>4, <1>5, <1>6, <1>7, Leaves

\* The statement of the billing by p succeeds, or p goes on to the next one.
LEMMA Bills ==
  ASSUME TypeOK, NEW k \in Tasks, NEW p \in Pollers, TaskInv(k), Touches(p, k),
         rows' = rows, unsettled' = unsettled,
         job[p][k].pc \in Billing, job'[p][k].pc \in Billing,
         job'[p][k].then = job[p][k].then, job'[p][k].amount = job[p][k].amount,
         job'[p][k].row = job[p][k].row,
         job'[p][k].pc = "quota" => job[p][k].then = "quota",
         k \notin unsettled =>
           /\ PaidWhileBilling(p, k)' /\ paid'[k] >= 0 /\ tokenPaid'[k] >= 0
  PROVE  TaskInv(k)'
<1>1. Pollers \subseteq Actors /\ User \in Actors \ {p}
  BY TasksAssumption DEF Actors
<1>2. \A q \in Pollers : q # p => job'[q][k] = job[q][k]
  BY <1>1 DEF Touches
<1>3. BillerInv(p, k)
  BY DEF TaskInv
<1>4. \A q \in Pollers : q # p => job'[q][k].pc \notin Billing
  BY <1>2, <1>3 DEF BillerInv
<1>5. job'[User][k].pc = "none"
  BY <1>1 DEF TaskInv, Touches
<1>6. \A q \in Pollers : phase'[q] = "idle" => job'[q][k].pc = "none"
  BY StaysBusy DEF Billing
<1>7. \A q \in Pollers : CopyInv(q, k)'
  BY <1>2 DEF TaskInv, CopyInv, Inserted, Copies, Billing
<1>8. \A q \in Pollers : BillerInv(q, k)'
  <2>1. BillerInv(p, k)'
    BY <1>3, <1>4 DEF BillerInv
  <2> QED
    BY <1>4, <2>1 DEF BillerInv
<1>9. ASSUME k \notin unsettled'
      PROVE  MoneyInv(k)'
  <2>1. \A q \in Pollers : PaidWhileBilling(q, k)'
    BY <1>4, <1>9 DEF PaidWhileBilling, Billing
  <2>2. rows'[k].status \in Terminal /\ ~NoBiller(k)'
    BY <1>3 DEF BillerInv, NoBiller
  <2> QED
    BY <1>9, <2>1, <2>2 DEF MoneyInv, Terminal
<1> QED
  BY <1>5, <1>6, <1>7, <1>8, <1>9 DEF TaskInv

LEMMA FundingKeeps ==
  ASSUME TypeOK, NEW p \in Pollers, NEW k \in Tasks, TaskInv(k), TaskAdjustFunding(p, k)
  PROVE  TaskInv(k)'
<1>1. /\ Touches(p, k) /\ rows' = rows /\ tokenPaid' = tokenPaid /\ unsettled' = unsettled
      /\ job[p][k].pc = "fund"
      /\ \/ /\ paid'[k] = paid[k] + job[p][k].amount /\ fault' = fault
            /\ job'[p][k] = [job[p][k] EXCEPT !.pc = "token"]
         \/ /\ paid' = paid /\ k \in fault'
            /\ job[p][k].then # "save" => job'[p][k] = NoJob
  BY FundingFacts
<1>2. p \in Actors
  BY DEF Actors
<1>3. /\ rows[k].quota \in Nat /\ rows[k].status \in Status
      /\ paid[k] \in Int /\ tokenPaid[k] \in Int
      /\ job[p][k] \in Job /\ job[p][k].row.quota \in Nat /\ job[p][k].amount \in Int
  BY <1>2, InRange
<1>4. BillerInv(p, k) /\ job[p][k].then # "save" /\ AfterBilling(p, k) >= 0
  BY <1>1, <1>3 DEF TaskInv, BillerInv, AfterBilling, Terminal, Billing
<1>5. CASE /\ paid'[k] = paid[k] + job[p][k].amount /\ fault' = fault
           /\ job'[p][k] = [job[p][k] EXCEPT !.pc = "token"]
  <2>1. /\ job'[p][k].pc = "token" /\ job'[p][k].then = job[p][k].then
        /\ job'[p][k].amount = job[p][k].amount /\ job'[p][k].row = job[p][k].row
    BY <1>3, <1>5 DEF Job
  <2>2. k \notin unsettled =>
           /\ PaidWhileBilling(p, k)' /\ paid'[k] >= 0 /\ tokenPaid'[k] >= 0
    <3>1. SUFFICES ASSUME k \notin unsettled
                   PROVE  PaidWhileBilling(p, k)' /\ paid'[k] >= 0 /\ tokenPaid'[k] >= 0
      OBVIOUS
    <3>2. paid[k] = rows[k].quota /\ tokenPaid[k] = rows[k].quota
      BY <1>1, <3>1 DEF TaskInv, MoneyInv, PaidWhileBilling
    <3> QED
      BY <1>1, <1>3, <1>4, <1>5, <2>1, <3>2 DEF PaidWhileBilling, AfterBilling
  <2> QED
    BY <1>1, <2>1, <2>2, Bills DEF Billing
<1>6. CASE paid' = paid /\ k \in fault' /\ job'[p][k] = NoJob
  <2>1. \A q \in Pollers : phase'[q] = "idle" => job'[q][k].pc = "none"
    BY <1>1, StaysBusy
  <2>2. CopyInv(p, k)' /\ job'[p][k].pc \notin Billing
    BY <1>6 DEF CopyInv, NoJob, Copies, Billing
  <2>3. /\ \A b \in Actors \ {p} : job'[b][k] = job[b][k]
        /\ rows'[k] = rows[k] /\ paid'[k] = paid[k] /\ tokenPaid'[k] = tokenPaid[k]
        /\ fault \subseteq fault' /\ unsettled \subseteq unsettled'
    BY <1>1, <1>6 DEF Touches
  <2> QED
    BY <1>6, <2>1, <2>2, <2>3, Leaves
<1> QED
  BY <1>1, <1>4, <1>5, <1>6

LEMMA TokenKeeps ==
  ASSUME TypeOK, NEW p \in Pollers, NEW k \in Tasks, TaskInv(k), TaskAdjustTokenQuota(p, k)
  PROVE  TaskInv(k)'
<1> DEFINE j == job[p][k]
<1>1. /\ Touches(p, k) /\ rows' = rows /\ paid' = paid /\ unsettled' = unsettled
      /\ j.pc = "token"
      /\ job'[p][k] = IF j.then = "none" THEN NoJob ELSE [j EXCEPT !.pc = j.then]
      /\ \/ tokenPaid'[k] = tokenPaid[k] + j.amount /\ fault' = fault
         \/ tokenPaid' = tokenPaid /\ k \in fault'
  BY TokenFacts
<1>2. p \in Actors /\ Pollers \subseteq Actors /\ User \in Actors \ {p}
  BY TasksAssumption DEF Actors
<1>3. /\ rows[k].quota \in Nat /\ rows[k].status \in Status
      /\ paid[k] \in Int /\ tokenPaid[k] \in Int
      /\ j \in Job /\ j.row.quota \in Nat /\ j.amount \in Int
  BY <1>2, InRange
<1>4. /\ BillerInv(p, k) /\ AfterBilling(p, k) >= 0
      /\ \/ rows[k].status = "FAILURE" /\ j.then = "none" /\ AfterBilling(p, k) = 0
         \/ rows[k].status = "SUCCESS" /\ j.then = "quota"
  BY <1>1, <1>3 DEF TaskInv, BillerInv, AfterBilling, Terminal, Billing
<1>5. k \notin unsettled =>
        paid[k] = AfterBilling(p, k) /\ tokenPaid[k] = rows[k].quota
  BY <1>1 DEF TaskInv, MoneyInv, PaidWhileBilling
<1>6. CASE j.then = "quota"
  <2>1. /\ job'[p][k].pc = "quota" /\ job'[p][k].then = j.then
        /\ job'[p][k].amount = j.amount /\ job'[p][k].row = j.row
    BY <1>1, <1>3, <1>6 DEF Job
  <2>2. k \notin unsettled =>
           /\ PaidWhileBilling(p, k)' /\ paid'[k] >= 0 /\ tokenPaid'[k] >= 0
    BY <1>1, <1>3, <1>4, <1>5, <2>1 DEF PaidWhileBilling, AfterBilling
  <2> QED
    BY <1>1, <1>6, <2>1, <2>2, Bills DEF Billing
<1>7. CASE j.then = "none" /\ k \in fault' /\ tokenPaid' = tokenPaid
  <2>1. \A q \in Pollers : phase'[q] = "idle" => job'[q][k].pc = "none"
    BY <1>1, StaysBusy
  <2>2. CopyInv(p, k)' /\ job'[p][k].pc \notin Billing
    BY <1>1, <1>7 DEF CopyInv, NoJob, Copies, Billing
  <2>3. /\ \A b \in Actors \ {p} : job'[b][k] = job[b][k]
        /\ rows'[k] = rows[k] /\ paid'[k] = paid[k] /\ tokenPaid'[k] = tokenPaid[k]
        /\ fault \subseteq fault' /\ unsettled \subseteq unsettled'
    BY <1>1, <1>7 DEF Touches
  <2> QED
    BY <1>7, <2>1, <2>2, <2>3, Leaves
<1>8. CASE j.then = "none" /\ tokenPaid'[k] = tokenPaid[k] + j.amount
  <2>1. job'[p][k] = NoJob /\ NoJob.pc = "none" /\ rows[k].status = "FAILURE"
    BY <1>1, <1>4, <1>8 DEF NoJob
  <2>2. \A q \in Pollers : q # p => job'[q][k] = job[q][k] /\ job'[q][k].pc \notin Billing
    BY <1>1, <1>2, <1>4 DEF Touches, BillerInv, Billing
  <2>3. job'[User][k].pc = "none"
    BY <1>1, <1>2 DEF TaskInv, Touches
  <2>4. \A q \in Pollers : phase'[q] = "idle" => job'[q][k].pc = "none"
    BY <1>1, StaysBusy
  <2>5. \A q \in Pollers : CopyInv(q, k)' /\ BillerInv(q, k)'
    BY <1>1, <2>1, <2>2 DEF TaskInv, CopyInv, BillerInv, Inserted, Copies, Billing
  <2>6. ASSUME k \notin unsettled'
        PROVE  MoneyInv(k)'
    <3>1. paid'[k] = 0 /\ tokenPaid'[k] = 0
      BY <1>1, <1>3, <1>4, <1>5, <1>8, <2>1, <2>6 DEF AfterBilling
    <3>2. \A q \in Pollers : PaidWhileBilling(q, k)'
      BY <2>1, <2>2 DEF PaidWhileBilling, Billing
    <3> QED
      BY <1>1, <2>1, <3>1, <3>2 DEF MoneyInv, DueOf, Terminal
  <2> QED
    BY <2>3, <2>4, <2>5, <2>6 DEF TaskInv
<1> QED
  BY <1>1, <1>4, <1>6, <1>7, <1>8

LEMMA QuotaKeeps ==
  ASSUME TypeOK, NEW p \in Pollers, NEW k \in Tasks, TaskInv(k), UpdateQuota(p, k)
  PROVE  TaskInv(k)'
<1> DEFINE j == job[p][k]
<1>1. /\ Touches(p, k) /\ paid' = paid /\ tokenPaid' = tokenPaid /\ unsettled' = unsettled
      /\ j.pc = "quota" /\ job'[p][k] = NoJob
      /\ rows'[k].status = rows[k].status
      /\ \/ rows'[k].quota = j.row.quota /\ fault' = fault
         \/ rows' = rows /\ k \in fault'
  BY QuotaFacts
<1>2. p \in Actors /\ Pollers \subseteq Actors /\ User \in Actors \ {p}
  BY TasksAssumption DEF Actors
<1>3. /\ rows[k].quota \in Nat /\ rows[k].status \in Status
      /\ paid[k] \in Int /\ tokenPaid[k] \in Int
      /\ j \in Job /\ j.row.quota \in Nat /\ j.amount \in Int
  BY <1>2, InRange
<1>4. BillerInv(p, k) /\ rows[k].status = "SUCCESS" /\ AfterBilling(p, k) = j.row.quota
  BY <1>1, <1>3 DEF TaskInv, BillerInv, AfterBilling, Terminal, Billing
<1>5. NoJob.pc = "none"
  BY DEF NoJob
<1>6. \A q \in Pollers : q # p => job'[q][k] = job[q][k] /\ job'[q][k].pc \notin Billing
  BY <1>1, <1>2, <1>4 DEF Touches, BillerInv, Billing
<1>7. job'[User][k].pc = "none"
  BY <1>1, <1>2 DEF TaskInv, Touches
<1>8. \A q \in Pollers : phase'[q] = "idle" => job'[q][k].pc = "none"
  BY <1>1, StaysBusy
<1>9. \A q \in Pollers : CopyInv(q, k)' /\ BillerInv(q, k)'
  BY <1>1, <1>4, <1>5, <1>6 DEF TaskInv, CopyInv, BillerInv, Inserted, Copies, Billing, Terminal
<1>10. ASSUME k \notin unsettled'
       PROVE  MoneyInv(k)'
  <2>1. MoneyInv(k) /\ paid[k] = j.row.quota
    BY <1>1, <1>4, <1>10 DEF TaskInv, MoneyInv, PaidWhileBilling
  <2>2. k \notin fault' => /\ tokenPaid[k] = j.row.quota /\ rows'[k].quota = j.row.quota
    BY <1>1, <1>4, <2>1 DEF MoneyInv, PaidWhileBilling
  <2>3. \A q \in Pollers : PaidWhileBilling(q, k)'
    BY <1>1, <1>5, <1>6 DEF PaidWhileBilling, Billing
  <2> QED
    BY <1>1, <1>3, <1>4, <2>1, <2>2, <2>3 DEF MoneyInv, DueOf, Terminal
<1> QED
  BY <1>7, <1>8, <1>9, <1>10 DEF TaskInv

\* A task that is not inserted is in nobody's hands.
LEMMA NotRead ==
  ASSUME TypeOK, NEW k \in Tasks, TaskInv(k), rows[k].status \in {"none", "charged"}
  PROVE  \A p \in Pollers : job[p][k].pc = "none"
<1>1. \A p \in Pollers : job[p][k].pc \in {"none", "sweep", "todo"} \cup Busy
  BY JobFacts DEF TypeOK, Actors
<1> QED
  BY <1>1 DEF TaskInv, CopyInv, BillerInv, Inserted, Busy, Copies, Terminal

LEMMA SubmissionKeeps ==
  ASSUME TypeOK, NEW k \in Tasks, TaskInv(k),
         InsertTask(k) \/ \E q \in Quotas : SettleSubmission(k, q)
  PROVE  TaskInv(k)'
<1>1. job' = job /\ phase' = phase
  BY DEF InsertTask, SettleSubmission
<1>2. \A p \in Pollers : job'[p][k].pc = "none"
  BY <1>1, NotRead DEF InsertTask, SettleSubmission
<1>3. job'[User][k].pc = "none"
  BY <1>1 DEF TaskInv
<1>4. \A p \in Pollers : CopyInv(p, k)' /\ BillerInv(p, k)' /\ PaidWhileBilling(p, k)'
  BY <1>2 DEF CopyInv, BillerInv, PaidWhileBilling, Copies, Billing
<1>5. ASSUME k \notin unsettled'
      PROVE  MoneyInv(k)'
  <2>1. CASE InsertTask(k)
    <3>1. MoneyInv(k) /\ rows[k].status = "charged" /\ paid' = paid /\ tokenPaid' = tokenPaid
      BY <1>5, <2>1 DEF TaskInv, InsertTask, others, bill
    <3>2. rows[k] \in Row
      BY DEF TypeOK
    <3>3. rows'[k].status \in {"NOT_START", "lost"} /\ rows'[k].quota = rows[k].quota
      BY <2>1, <3>2 DEF InsertTask, Write, Row, TypeOK
    <3> QED
      BY <1>4, <3>1, <3>3 DEF MoneyInv, Terminal
  <2>2. CASE \E q \in Quotas : SettleSubmission(k, q)
    <3>1. PICK q \in Quotas : SettleSubmission(k, q)
      BY <2>2
    <3>2. rows'[k].status = "charged" /\ rows'[k].quota = q /\ q \in Nat
      BY <3>1, TasksAssumption DEF SettleSubmission, Write, NoRow, TypeOK
    <3>3. paid'[k] = q /\ tokenPaid'[k] = q
      BY <1>5, <3>1 DEF SettleSubmission, TypeOK
    <3> QED
      BY <1>4, <3>2, <3>3 DEF MoneyInv, Terminal
  <2> QED
    BY <2>1, <2>2
<1> QED
  BY <1>1, <1>2, <1>3, <1>4, <1>5 DEF TaskInv

\* A step on another task, or one that changes neither rows, jobs nor charges.
LEMMA Elsewhere ==
  ASSUME NEW k \in Tasks, NEW a \in Actors, NEW l \in Tasks, TaskInv(k), Touches(a, l),
         \/ k # l
         \/ job' = job /\ rows' = rows /\ paid' = paid /\ tokenPaid' = tokenPaid
  PROVE  TaskInv(k)'
<1>1. /\ \A b \in Actors : job'[b][k] = job[b][k]
      /\ rows'[k] = rows[k] /\ paid'[k] = paid[k] /\ tokenPaid'[k] = tokenPaid[k]
      /\ fault \subseteq fault' /\ unsettled \subseteq unsettled' /\ phase' = phase
  BY DEF Touches
<1>2. Pollers \subseteq Actors /\ User \in Actors
  BY DEF Actors
<1>3. \A p \in Pollers : phase'[p] = "idle" => job'[p][k].pc = "none"
  BY <1>1, <1>2 DEF TaskInv
<1>4. CASE Pollers = {}
  <2>1. job'[User][k].pc = "none"
    BY <1>1, <1>2 DEF TaskInv
  <2>2. k \notin unsettled' => MoneyInv(k)'
    BY <1>1, <1>4 DEF TaskInv, MoneyInv, NoBiller, DueOf
  <2> QED
    BY <1>4, <2>1, <2>2 DEF TaskInv
<1>5. CASE Pollers # {}
  <2>1. PICK p \in Pollers : TRUE
    BY <1>5
  <2> QED
    BY <1>1, <1>2, <1>3, <2>1, Leaves
<1> QED
  BY <1>4, <1>5

LEMMA PassKeeps ==
  ASSUME TypeOK, NEW p \in Pollers, NEW k \in Tasks, TaskInv(k),
         \/ GetTimedOutUnfinishedTasks(p) \/ GetAllUnFinishSyncTasks(p)
         \/ DispatchPlatformUpdate(p) \/ EndPass(p) \/ Cancel(p) \/ Crash(p)
  PROVE  TaskInv(k)'
<1>1. p \in Actors /\ Pollers \subseteq Actors
  BY DEF Actors
<1>2. NoJob.pc = "none"
  BY DEF NoJob
<1>3. CASE GetTimedOutUnfinishedTasks(p) \/ GetAllUnFinishSyncTasks(p)
  <2>1. /\ PassStep(p) /\ fault' = fault
        /\ GetTimedOutUnfinishedTasks(p) => phase[p] = "idle"
        /\ GetAllUnFinishSyncTasks(p) => Working(p) = {}
        /\ \/ job'[p][k] = NoJob
           \/ /\ k \in Unfinished /\ job'[p][k].pc \in {"sweep", "todo"}
              /\ job'[p][k].row = rows[k]
    BY <1>3, ReadingPass
  <2>2. job[p][k].pc \notin Billing
    BY <1>3, <2>1 DEF TaskInv, Working, Busy, Billing
  <2>3. job'[p][k].pc \notin Billing
    BY <1>2, <2>1 DEF Billing
  <2>4. CopyInv(p, k)'
    <3>1. CASE job'[p][k] = NoJob
      BY <1>2, <3>1 DEF CopyInv, Copies
    <3>2. CASE /\ k \in Unfinished /\ job'[p][k].pc \in {"sweep", "todo"}
               /\ job'[p][k].row = rows[k]
      <4>1. Inserted(k) /\ rows[k].status \notin Terminal /\ rows[k].status \in Status
        BY <3>2, InRange DEF Unfinished, Readable
      <4>2. rows[k].status \in Open
        BY <4>1 DEF Inserted, Status, Open
      <4> QED
        BY <2>1, <3>2, <4>1, <4>2 DEF CopyInv, Copies, Inserted, PassStep
    <3> QED
      BY <2>1, <3>1, <3>2
  <2>5. \A q \in Pollers : phase'[q] = "idle" => job'[q][k].pc = "none"
    <3>1. \A q \in Pollers \ {p} : phase'[q] = phase[q] /\ job'[q][k] = job[q][k]
      BY <1>1, <1>3, <2>1 DEF GetTimedOutUnfinishedTasks, GetAllUnFinishSyncTasks, PassStep, TypeOK
    <3>2. phase'[p] # "idle"
      BY <1>3 DEF GetTimedOutUnfinishedTasks, GetAllUnFinishSyncTasks, TypeOK
    <3> QED
      BY <3>1, <3>2 DEF TaskInv
  <2>6. /\ \A b \in Actors \ {p} : job'[b][k] = job[b][k]
        /\ rows'[k] = rows[k] /\ paid'[k] = paid[k] /\ tokenPaid'[k] = tokenPaid[k]
        /\ fault \subseteq fault' /\ unsettled \subseteq unsettled'
    BY <2>1 DEF PassStep
  <2> QED
    BY <2>2, <2>3, <2>4, <2>5, <2>6, Leaves
<1>4. CASE DispatchPlatformUpdate(p) \/ EndPass(p) \/ Cancel(p) \/ Crash(p)
  <2>1. /\ PassStep(p)
        /\ job'[p][k] \in {job[p][k], NoJob}
        /\ (job'[p][k] # job[p][k] /\ job[p][k].pc \in Billing) => k \in fault'
        /\ \A q \in Pollers : phase'[q] = "idle" =>
              \/ phase[q] = "idle" /\ job'[q][k] \in {job[q][k], NoJob}
              \/ job'[q][k].pc = "none"
    BY <1>4, PassType
  <2>2. \A q \in Pollers : phase'[q] = "idle" => job'[q][k].pc = "none"
    BY <1>2, <2>1 DEF TaskInv
  <2>3. /\ \A b \in Actors \ {p} : job'[b][k] = job[b][k]
        /\ rows'[k] = rows[k] /\ paid'[k] = paid[k] /\ tokenPaid'[k] = tokenPaid[k]
        /\ fault \subseteq fault' /\ unsettled \subseteq unsettled'
    BY <2>1 DEF PassStep
  <2>4. job'[p][k] = NoJob => job'[p][k].pc \notin Billing /\ CopyInv(p, k)'
    BY <1>2 DEF CopyInv, Copies, Billing
  <2> QED
    BY <2>1, <2>2, <2>3, <2>4, Leaves
<1> QED
  BY <1>3, <1>4

-----------------------------------------------------------------------------
(* The theorems *)

\* A step on task l keeps the invariant when it keeps that of l.
LEMMA OneTask ==
  ASSUME IInv, NEW a \in Actors, NEW l \in Tasks, Touches(a, l),
         l \in Guarded => TaskInv(l)'
  PROVE  IInv'
<1>1. TypeOK' /\ Guarded' = Guarded /\ Guarded \subseteq Tasks
  BY DEF Touches, Guarded
<1>2. \A k \in Guarded : TaskInv(k)'
  BY <1>1, Elsewhere DEF IInv
<1> QED
  BY <1>1, <1>2 DEF IInv

LEMMA SubmissionInv ==
  ASSUME IInv, NEW k \in Tasks,
         \/ \E q \in Quotas : SettleSubmission(k, q)
         \/ InsertTask(k) \/ UpstreamEnds(k) \/ Timeout(k)
         \/ GetByTaskId(k) \/ UserFetch(k) \/ TryRealtimeFetch(k)
  PROVE  IInv'
<1>1. TypeOK /\ User \in Actors /\ (k \in Guarded => TaskInv(k))
  BY DEF IInv, Actors
<1>2. CASE \E q \in Quotas : SettleSubmission(k, q)
  BY <1>1, <1>2, SettleSubmissionType, SubmissionKeeps, OneTask
<1>3. CASE InsertTask(k)
  BY <1>1, <1>3, InsertTaskType, SubmissionKeeps, OneTask
<1>4. CASE UpstreamEnds(k) \/ Timeout(k)
  <2>1. Touches(User, k)
    BY <1>1, <1>4, UpstreamType
  <2>2. job' = job /\ rows' = rows /\ paid' = paid /\ tokenPaid' = tokenPaid
    BY <1>4 DEF UpstreamEnds, Timeout, bill
  <2> QED
    BY <1>1, <2>1, <2>2, Elsewhere, OneTask
<1>5. CASE GetByTaskId(k)
  <2>1. k \notin Guarded
    BY <1>5 DEF GetByTaskId, Guarded
  <2> QED
    BY <1>1, <1>5, <2>1, GetByTaskIdType, OneTask
<1>6. CASE UserFetch(k)
  <2>1. k \notin Guarded
    BY <1>1, <1>6 DEF UserFetch, At, TaskInv
  <2>2. Touches(User, k)
    BY <1>1, <1>6, FetchTaskFacts DEF UserFetch
  <2> QED
    BY <1>1, <2>1, <2>2, OneTask
<1>7. CASE TryRealtimeFetch(k)
  <2>1. k \notin Guarded
    BY <1>1, <1>7 DEF TryRealtimeFetch, TaskInv
  <2> QED
    BY <1>1, <1>7, <2>1, RealtimeType, OneTask
<1> QED
  BY <1>2, <1>3, <1>4, <1>5, <1>6, <1>7

LEMMA PollInv ==
  ASSUME IInv, NEW p \in Pollers, Poll(p) \/ Cancel(p) \/ Crash(p)
  PROVE  IInv'
<1>1. TypeOK /\ p \in Actors /\ \A k \in Guarded : TaskInv(k) /\ k \in Tasks
  BY DEF IInv, Actors, Guarded
<1>2. CASE \/ GetTimedOutUnfinishedTasks(p) \/ GetAllUnFinishSyncTasks(p)
           \/ DispatchPlatformUpdate(p) \/ EndPass(p) \/ Cancel(p) \/ Crash(p)
  <2>1. PassStep(p)
    BY <1>1, <1>2, ReadingPass, PassType
  <2>2. Guarded' = Guarded /\ TypeOK'
    BY <2>1 DEF PassStep, Guarded
  <2>3. \A k \in Guarded : TaskInv(k)'
    BY <1>1, <1>2, PassKeeps
  <2> QED
    BY <2>2, <2>3 DEF IInv
<1>3. ASSUME NEW k \in Tasks,
             \/ SweepTask(p, k) \/ FailOrphan(p, k) \/ PollFetch(p, k)
             \/ UpdateVideoSingleTask(p, k) \/ UpdateSunoTask(p, k) \/ SaveSunoTask(p, k)
             \/ TaskAdjustFunding(p, k) \/ TaskAdjustTokenQuota(p, k) \/ UpdateQuota(p, k)
      PROVE  IInv'
  <2>1. CASE SweepTask(p, k)
    BY <1>1, <2>1, SweepTaskType, SweepKeeps, OneTask
  <2>2. CASE FailOrphan(p, k)
    <3>1. k \notin Guarded
      BY <2>2 DEF FailOrphan, Guarded
    <3> QED
      BY <1>1, <2>2, <3>1, FailOrphanType, OneTask
  <2>3. CASE PollFetch(p, k)
    <3>1. Touches(p, k)
      BY <1>1, <2>3, FetchTaskFacts DEF PollFetch
    <3> QED
      BY <1>1, <2>3, <3>1, PollFetchKeeps, OneTask
  <2>4. CASE UpdateVideoSingleTask(p, k)
    BY <1>1, <2>4, UpdateVideoType, UpdateVideoKeeps, OneTask
  <2>5. CASE UpdateSunoTask(p, k)
    <3>1. k \notin Guarded
      BY <2>5 DEF UpdateSunoTask, Guarded
    <3> QED
      BY <1>1, <2>5, <3>1, UpdateSunoType, OneTask
  <2>6. CASE SaveSunoTask(p, k)
    <3>1. k \notin Guarded
      BY <1>1, <2>6 DEF SaveSunoTask, At, TaskInv, CopyInv
    <3> QED
      BY <1>1, <2>6, <3>1, SaveSunoType, OneTask
  <2>7. CASE TaskAdjustFunding(p, k)
    BY <1>1, <2>7, FundingFacts, FundingKeeps, OneTask
  <2>8. CASE TaskAdjustTokenQuota(p, k)
    BY <1>1, <2>8, TokenFacts, TokenKeeps, OneTask
  <2>9. CASE UpdateQuota(p, k)
    BY <1>1, <2>9, QuotaFacts, QuotaKeeps, OneTask
  <2> QED
    BY <1>3, <2>1, <2>2, <2>3, <2>4, <2>5, <2>6, <2>7, <2>8, <2>9
<1> QED
  BY <1>2, <1>3 DEF Poll

LEMMA InitInv == Init => IInv
<1>1. SUFFICES ASSUME Init PROVE IInv
  OBVIOUS
<1>2. 0 \in Int /\ 0 \in 0..MaxGets /\ 0 \in 0..MaxFaults
  BY TasksAssumption
<1>3. job \in [Actors -> [Tasks -> Job]] /\ \A a \in Actors, k \in Tasks : job[a][k] = NoJob
  BY <1>1, NoJobType DEF Init
<1>4. rows \in [Tasks -> Row] /\ \A k \in Tasks : rows[k] = NoRow
  BY <1>1, NoRowType DEF Init
<1>5. TypeOK
  BY <1>1, <1>2, <1>3, <1>4 DEF Init, TypeOK
<1>6. NoJob.pc = "none" /\ NoRow.status = "none"
  BY DEF NoJob, NoRow
<1>7. Pollers \subseteq Actors /\ User \in Actors
  BY DEF Actors
<1>8. ASSUME NEW k \in Guarded
      PROVE  TaskInv(k)
  <2>1. k \in Tasks /\ \A p \in Actors : job[p][k].pc = "none"
    BY <1>3, <1>6 DEF Guarded
  <2>2. \A p \in Pollers : CopyInv(p, k) /\ BillerInv(p, k) /\ PaidWhileBilling(p, k)
    BY <1>7, <2>1 DEF CopyInv, BillerInv, PaidWhileBilling, Copies, Billing
  <2>3. paid[k] = 0 /\ tokenPaid[k] = 0 /\ rows[k].status = "none"
    BY <1>1, <1>4, <1>6, <2>1 DEF Init
  <2>4. MoneyInv(k)
    BY <2>2, <2>3 DEF MoneyInv, Terminal
  <2> QED
    BY <1>7, <2>1, <2>2, <2>4 DEF TaskInv
<1> QED
  BY <1>5, <1>8 DEF IInv

LEMMA StutterInv ==
  ASSUME IInv, UNCHANGED vars
  PROVE  IInv'
<1>1. TypeOK'
  BY DEF IInv, vars, TypeOK
<1>2. Guarded' = Guarded /\ Guarded \subseteq Tasks
  BY DEF vars, Guarded
<1>3. \A k \in Guarded : TaskInv(k)'
  BY DEF IInv, vars, TaskInv, CopyInv, BillerInv, MoneyInv, PaidWhileBilling,
         AfterBilling, NoBiller, DueOf, Inserted
<1> QED
  BY <1>1, <1>2, <1>3 DEF IInv

LEMMA StepInv ==
  ASSUME IInv, [Next]_vars
  PROVE  IInv'
<1>1. CASE Next
  <2>1. CASE \E k \in Tasks :
               \/ \E q \in Quotas : SettleSubmission(k, q)
               \/ InsertTask(k) \/ UpstreamEnds(k) \/ Timeout(k)
               \/ GetByTaskId(k) \/ UserFetch(k) \/ TryRealtimeFetch(k)
    BY <2>1, SubmissionInv
  <2>2. CASE \E p \in Pollers : Poll(p) \/ Cancel(p) \/ Crash(p)
    BY <2>2, PollInv
  <2> QED
    BY <1>1, <2>1, <2>2 DEF Next
<1> QED
  BY <1>1, StutterInv

LEMMA Invariance == Spec => []IInv
<1>1. IInv /\ [Next]_vars => IInv'
  BY StepInv
<1> QED
  BY <1>1, InitInv, PTL DEF Spec

\* The variables keep their types: whatever passes, sweeps and GETs write from
\* stale copies, a row has a status of the code and a quota it was charged or
\* recalculated (model/task.go).
THEOREM TypeCorrect == Spec => []TypeOK
<1>1. IInv => TypeOK
  BY DEF IInv
<1> QED
  BY <1>1, Invariance, PTL

\* A video task with a channel is refunded at most once and never after a
\* settlement, for any number of tasks, nodes that poll, faults and crashes
\* (UpdateWithStatus before RefundTaskQuota).
THEOREM NeverRefundedTwice == Spec => []RefundedAtMostOnce
<1>1. IInv => RefundedAtMostOnce
  BY DEF IInv, TaskInv, MoneyInv, RefundedAtMostOnce
<1> QED
  BY <1>1, Invariance, PTL

\* What such a task was charged is what its row says, from the funding source
\* and from the token, whenever nobody bills it and no statement was lost
\* (RefundTaskQuota, RecalculateTaskQuota).
THEOREM ChargedAsRecorded == Spec => []ChargeMatchesRow
<1>1. IInv => ChargeMatchesRow
  <2>1. SUFFICES ASSUME IInv, NEW k \in Guarded \ (fault \cup unsettled), Rests(k)
                 PROVE  paid[k] = DueOf(k) /\ tokenPaid[k] = DueOf(k)
    BY DEF ChargeMatchesRow, DueOf
  <2>2. MoneyInv(k) /\ NoBiller(k) /\ k \notin fault /\ rows[k].status # "none"
    BY <2>1 DEF IInv, TaskInv, Rests, NoBiller, Inserted
  <2> QED
    BY <2>2 DEF MoneyInv, DueOf, Terminal
<1> QED
  BY <1>1, Invariance, PTL

\* A video task with a channel that ended keeps its status: a pass or a sweep
\* that works on an older copy changes nothing (UpdateWithStatus).
THEOREM EndedTasksStay == Spec => EndedStays
<1>1. ASSUME IInv, [Next]_vars, NEW k \in Guarded, rows[k].status \in Terminal
      PROVE  rows'[k].status = rows[k].status
  <2> USE <1>1
  <2>1. k \in Tasks /\ TypeOK /\ TaskInv(k)
    BY DEF IInv, Guarded
  <2>2. \A p \in Pollers : job[p][k].pc \in Copies => rows[k].status # job[p][k].row.status
    BY <2>1 DEF TaskInv, CopyInv, Open, Terminal
  <2>3. ASSUME NEW l \in Tasks,
               \/ \E q \in Quotas : SettleSubmission(l, q)
               \/ InsertTask(l) \/ UpstreamEnds(l) \/ Timeout(l)
               \/ GetByTaskId(l) \/ UserFetch(l) \/ TryRealtimeFetch(l)
        PROVE  rows'[k].status = rows[k].status
    <3>1. CASE k = l
      <4>1. ~TryRealtimeFetch(l)
        BY <2>1, <3>1 DEF TryRealtimeFetch, TaskInv
      <4>2. ~InsertTask(l) /\ \A q \in Quotas : ~SettleSubmission(l, q)
        BY <3>1 DEF InsertTask, SettleSubmission, Terminal
      <4> QED
        BY <2>3, <4>1, <4>2 DEF UpstreamEnds, Timeout, GetByTaskId, UserFetch, FetchTask
    <3>2. CASE k # l
      <4>1. User \in Actors
        BY DEF Actors
      <4>2. Touches(User, l)
        BY <2>1, <2>3, <4>1, SettleSubmissionType, InsertTaskType, UpstreamType,
           GetByTaskIdType, FetchTaskFacts, RealtimeType DEF UserFetch
      <4> QED
        BY <2>1, <3>2, <4>2 DEF Touches
    <3> QED
      BY <3>1, <3>2
  <2>4. ASSUME NEW p \in Pollers, NEW l \in Tasks,
               \/ SweepTask(p, l) \/ FailOrphan(p, l) \/ PollFetch(p, l)
               \/ UpdateVideoSingleTask(p, l) \/ UpdateSunoTask(p, l) \/ SaveSunoTask(p, l)
               \/ TaskAdjustFunding(p, l) \/ TaskAdjustTokenQuota(p, l) \/ UpdateQuota(p, l)
        PROVE  rows'[k].status = rows[k].status
    <3>1. p \in Actors
      BY DEF Actors
    <3>2. CASE k = l
      <4>1. ~FailOrphan(p, l) /\ ~UpdateSunoTask(p, l) /\ ~SaveSunoTask(p, l)
        BY <2>1, <3>2 DEF FailOrphan, UpdateSunoTask, SaveSunoTask, Guarded, At, TaskInv, CopyInv
      <4>2. SweepTask(p, l) => rows' = rows
        BY <2>1, <2>2, <3>2, SweepTaskType DEF SweepTask, Copies
      <4>3. UpdateVideoSingleTask(p, l) => rows' = rows
        BY <2>1, <2>2, <3>2, UpdateVideoType DEF Copies
      <4>4. PollFetch(p, l) \/ TaskAdjustFunding(p, l) \/ TaskAdjustTokenQuota(p, l) => rows' = rows
        BY DEF PollFetch, FetchTask, TaskAdjustFunding, TaskAdjustTokenQuota
      <4>5. UpdateQuota(p, l) => rows'[k].status = rows[k].status
        BY <2>1, <3>2, QuotaFacts
      <4> QED
        BY <2>4, <4>1, <4>2, <4>3, <4>4, <4>5
    <3>3. CASE k # l
      <4>1. Touches(p, l)
        BY <2>1, <2>4, <3>1, SweepTaskType, FailOrphanType, FetchTaskFacts, UpdateVideoType,
           UpdateSunoType, SaveSunoType, FundingFacts, TokenFacts, QuotaFacts DEF PollFetch
      <4> QED
        BY <2>1, <3>3, <4>1 DEF Touches
    <3> QED
      BY <3>2, <3>3
  <2>5. ASSUME NEW p \in Pollers,
               \/ GetTimedOutUnfinishedTasks(p) \/ GetAllUnFinishSyncTasks(p)
               \/ DispatchPlatformUpdate(p) \/ EndPass(p) \/ Cancel(p) \/ Crash(p)
        PROVE  rows' = rows
    BY <2>5 DEF GetTimedOutUnfinishedTasks, GetAllUnFinishSyncTasks, DispatchPlatformUpdate,
                EndPass, Cancel, Crash
  <2>6. CASE Next
    BY <2>3, <2>4, <2>5, <2>6 DEF Next, Poll
  <2>7. CASE UNCHANGED vars
    BY <2>7 DEF vars
  <2> QED
    BY <2>6, <2>7
<1>2. IInv /\ [Next]_vars =>
        [\A k \in Guarded : rows[k].status \in Terminal => rows'[k].status = rows[k].status]_vars
  BY <1>1
<1> QED
  BY <1>2, Invariance, PTL DEF Spec, EndedStays

=============================================================================
