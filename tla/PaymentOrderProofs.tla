-------------------------- MODULE PaymentOrderProofs --------------------------
(***************************************************************************)
(* Proofs about PaymentOrder for any number of handlers and faults and any *)
(* providers: for any number of nodes that the types and the mutex are     *)
(* kept and that what is acknowledged is settled, and for one node that    *)
(* the order is credited once and implements the steps of Ledger.          *)
(***************************************************************************)
EXTENDS PaymentOrder, TLAPS

\* How far the user's request and the provider can be, given the row.
RequestInv ==
    /\ request \in {"start", "insert"} => row = "none"
    /\ request \in {"link", "mark"} => row # "none" /\ ~LinkFirst
    /\ request = "mark" => provider # "creem"
    /\ session # "none" => request = "done" /\ row # "none"
    /\ (acked \/ lost \/ credits > 0) => row # "none"
    /\ full => kind = "sub"

\* A handler runs only once the order exists, and never for a subscription
\* that the provider does not know yet.
JobInv ==
    \A h \in Handlers : ~At(h, "idle") =>
        /\ row # "none"
        /\ job[h].event = "admin" => kind = "topup"
        /\ job[h].event # "admin" => session # "none"
        /\ At(h, "resolve") => provider = "pancake"
        /\ At(h, "credit") => EpayTopUp /\ row # "pending"

\* Why a provider may have been told of a success while the row is pending.
Excused ==
    \/ faults > 0 /\ <<provider, kind>> \notin
            {<<"epay", "sub">>, <<"waffo", "topup">>, <<"creem", "topup">>}
    \/ full /\ provider = "stripe"

\* AcknowledgedIsSettled, for the answers that are still buffered too.
AckInv ==
    row = "pending" =>
        /\ acked => Excused
        /\ \A h \in Handlers :
              At(h, "answer") /\ IsPaid(h) /\ job[h].ok => Excused

\* A handler between LockOrder and its answer holds the mutex of its node,
\* unless it handles a failure of Waffo.
WaffoFailure(h) == provider = "waffo" /\ job[h].event = "failed"
Critical == {"check", "read", "write", "credit"}
MutexInv ==
    \A h \in Handlers :
        job[h].pc \in Critical /\ ~WaffoFailure(h) => lock[job[h].node] = h

OneNode == \A m, n \in Nodes : m = n

\* On one node, what a handler read is still true when it writes.
CreditInv ==
    /\ row = "pending" => credits = 0 /\ ~lost
    /\ lost => EpayTopUp /\ row = "success" /\ credits = 0
    /\ kind = "sub" /\ request # "done" => row \in {"none", "pending"}
    /\ \A h \in Handlers :
          /\ At(h, "write") /\ Completes(h) => credits = 0 /\ ~lost
          /\ At(h, "write") /\ provider \notin UnlockedClosers => row = "pending"
          /\ At(h, "credit") => row = "success" /\ credits = 0 /\ ~lost
IInv == TypeOK /\ RequestInv /\ JobInv /\ AckInv /\ MutexInv
OneInv == CreditInv /\ CreditMatchesRow

-----------------------------------------------------------------------------
(* What a step does to the job it belongs to *)

\* Job h goes to pc with the answer ok, the other jobs stay.
Moves(h, pc, ok) ==
    /\ job' \in [Handlers -> Job \cup {Idle}]
    /\ job[h].pc # "idle" /\ job[h].event \in Events /\ job[h].node \in Nodes
    /\ job'[h].pc = pc /\ job'[h].ok = ok
    /\ job'[h].event = job[h].event /\ job'[h].node = job[h].node
    /\ \A g \in Handlers \ {h} : job'[g] = job[g]

Pcs == {"resolve", "lock", "check", "read", "write", "credit", "answer"}

\* A job that is not idle is a job of Job.
LEMMA BusyJob ==
    ASSUME TypeOK, NEW h \in Handlers, job[h].pc # "idle"
    PROVE  job[h] \in Job
BY DEF TypeOK, Idle

\* Only an idle job has the pc of one.
LEMMA IdleJob ==
    ASSUME TypeOK, NEW h \in Handlers, job[h].pc = "idle"
    PROVE  job[h] = Idle
BY DEF TypeOK, Job

\* Goto moves the job and keeps its answer.
LEMMA GotoMoves ==
    ASSUME TypeOK, NEW h \in Handlers, NEW pc \in Pcs, job[h].pc # "idle",
           Goto(h, pc)
    PROVE  Moves(h, pc, job[h].ok)
<1>1. job[h] \in Job
  BY BusyJob
<1>2. job \in [Handlers -> Job \cup {Idle}]
  BY DEF TypeOK
<1>3. [job[h] EXCEPT !.pc = pc] \in Job
  BY <1>1 DEF Job, Pcs
<1>4. job' = [job EXCEPT ![h] = [job[h] EXCEPT !.pc = pc]]
  BY <1>2 DEF Goto
<1>5. QED
  BY <1>1, <1>2, <1>3, <1>4 DEF Moves, Job

\* End moves the job to its answer.
LEMMA EndMoves ==
    ASSUME TypeOK, NEW h \in Handlers, NEW ok \in BOOLEAN, job[h].pc # "idle",
           End(h, ok)
    PROVE  Moves(h, "answer", ok)
<1>1. job[h] \in Job
  BY BusyJob
<1>2. job \in [Handlers -> Job \cup {Idle}]
  BY DEF TypeOK
<1>3. [job[h] EXCEPT !.pc = "answer", !.ok = ok] \in Job
  BY <1>1 DEF Job
<1>4. job' = [job EXCEPT ![h] = [job[h] EXCEPT !.pc = "answer", !.ok = ok]]
  BY <1>2 DEF End
<1>5. QED
  BY <1>1, <1>2, <1>3, <1>4 DEF Moves, Job

-----------------------------------------------------------------------------
(* Types and the mutex *)

\* Who holds the mutex of a node is past LockOrder on that node.
HolderOK ==
    \A n \in Nodes : lock[n] # "none" =>
        /\ job[lock[n]].node = n
        /\ job[lock[n]].pc \in Critical \cup {"answer"}

LEMMA HolderOfType == TypeOK => HolderOK
BY DEF TypeOK, HolderOK, Critical

\* The parts of TypeOK that no step of a handler puts at risk.
LEMMA TypeOfParts ==
    ASSUME TypeOK, HolderOK',
           UNCHANGED <<provider, kind, full, session, request>>,
           row' \in {"none", "pending", "success", "failed", "expired"},
           acked' \in BOOLEAN, lost' \in BOOLEAN,
           job' \in [Handlers -> Job \cup {Idle}],
           lock' \in [Nodes -> Handlers \cup {"none"}],
           credits' \in Nat, faults' \in 0 .. MaxFaults
    PROVE  TypeOK'
BY DEF TypeOK, HolderOK, Critical

\* A job that moves on past LockOrder keeps its mutex.
LEMMA MovesHolder ==
    ASSUME TypeOK, NEW h \in Handlers, NEW pc \in Critical \cup {"answer"},
           NEW ok, Moves(h, pc, ok), lock' = lock
    PROVE  HolderOK'
BY DEF TypeOK, HolderOK, Moves, Critical

LEMMA InitIInv == Init => IInv
<1> SUFFICES ASSUME Init PROVE IInv
  OBVIOUS
<1>1. TypeOK
  <2>1. provider \in Providers /\ kind \in {"topup", "sub"}
    BY DEF Init
  <2>2. job \in [Handlers -> Job \cup {Idle}]
    BY DEF Init
  <2>3. /\ lock \in [Nodes -> Handlers \cup {"none"}]
        /\ \A n \in Nodes : lock[n] = "none"
    BY DEF Init
  <2>4. faults \in 0 .. MaxFaults /\ credits \in Nat
    BY ConstantsAssumption DEF Init
  <2>5. QED
    BY <2>1, <2>2, <2>3, <2>4 DEF Init, TypeOK
<1>2. \A h \in Handlers : job[h].pc = "idle"
  BY DEF Init, Idle
<1>3. RequestInv /\ JobInv /\ AckInv /\ MutexInv
  BY <1>2 DEF Init, RequestInv, JobInv, AckInv, MutexInv, At, Critical
<1>4. QED
  BY <1>1, <1>3 DEF IInv

LEMMA StepType ==
    ASSUME IInv, NEW h \in Handlers, Step(h)
    PROVE  TypeOK'
<1>0. TypeOK /\ UNCHANGED <<provider, kind, full, session, request, acked, lost, faults>>
  BY DEF IInv, Step, order
<1>1. acked \in BOOLEAN /\ lost \in BOOLEAN /\ faults \in 0 .. MaxFaults /\ credits \in Nat
      /\ row \in {"none", "pending", "success", "failed", "expired"}
      /\ lock \in [Nodes -> Handlers \cup {"none"}]
  BY <1>0 DEF TypeOK
<1>2. CASE ResolveTradeNo(h)
  <2>1. Moves(h, "lock", job[h].ok)
    BY <1>0, <1>2, GotoMoves DEF ResolveTradeNo, At, Pcs
  <2>2. HolderOK'
    BY <1>0, <1>2, <2>1 DEF TypeOK, HolderOK, Moves, ResolveTradeNo, At, Critical
  <2>3. QED
    BY <1>0, <1>1, <1>2, <2>1, <2>2, TypeOfParts DEF Moves, ResolveTradeNo
<1>3. CASE LockOrder(h)
  <2>1. PICK pc \in {"check", "read"} : Moves(h, pc, job[h].ok)
    BY <1>0, <1>3, GotoMoves DEF LockOrder, At, Pcs
  <2>2. lock' \in [Nodes -> Handlers \cup {"none"}] /\ HolderOK'
    BY <1>0, <1>3, <2>1, ConstantsAssumption DEF TypeOK, HolderOK, Moves, LockOrder, At, Critical
  <2>3. QED
    BY <1>0, <1>1, <1>3, <2>1, <2>2, TypeOfParts DEF Moves, LockOrder
<1>4. CASE CheckPending(h) \/ ReadOrder(h)
  <2>1. PICK pc \in {"read", "write", "answer"} : \E ok : Moves(h, pc, ok)
    BY <1>0, <1>4, GotoMoves, EndMoves DEF CheckPending, ReadOrder, At, Pcs, OkOnDecided, EpayTopUp
  <2>2. lock' = lock /\ row' = row /\ credits' = credits
    BY <1>4 DEF CheckPending, ReadOrder
  <2>3. QED
    BY <1>0, <1>1, <2>1, <2>2, TypeOfParts, MovesHolder DEF Moves, Critical
<1>5. CASE WriteOrder(h)
  <2>1. PICK pc \in {"credit", "answer"} : \E ok : Moves(h, pc, ok)
    BY <1>0, <1>5, GotoMoves, EndMoves DEF WriteOrder, At, Pcs
  <2>2. job[h].event \in Events
    BY <2>1 DEF Moves
  <2>3. lock' = lock /\ row' \in {"success", "failed", "expired"} /\ credits' \in Nat
    BY <1>1, <1>5, <2>2
    DEF WriteOrder, Completes, Events, EpayTopUp, IsPaid, Goto, End, At
  <2>4. QED
    BY <1>0, <1>1, <2>1, <2>3, TypeOfParts, MovesHolder DEF Moves, Critical
<1>6. CASE RefuseOverLimit(h)
  <2>1. PICK ok : Moves(h, "answer", ok)
    BY <1>0, <1>6, EndMoves DEF RefuseOverLimit, At, OkOnError, EpayTopUp
  <2>2. QED
    BY <1>0, <1>1, <1>6, <2>1, TypeOfParts, MovesHolder DEF Moves, Critical, RefuseOverLimit
<1>7. CASE IncreaseUserQuota(h)
  <2>1. PICK ok : Moves(h, "answer", ok)
    BY <1>0, <1>7, EndMoves DEF IncreaseUserQuota, At
  <2>2. QED
    BY <1>0, <1>1, <1>7, <2>1, TypeOfParts, MovesHolder DEF Moves, Critical, IncreaseUserQuota
<1>8. QED
  BY <1>2, <1>3, <1>4, <1>5, <1>6, <1>7 DEF Step

\* The user's request, the provider and other orders touch no handler.
Quiet ==
    \/ RequestLink \/ InsertOrder \/ CheckoutCreated
    \/ RequestFails \/ MarkOrderFailed
    \/ Pay \/ LimitReached
    \/ \E e \in {"failed", "expired"} : Decline(e)

LEMMA QuietInv ==
    ASSUME IInv, Quiet
    PROVE  IInv'
<1> USE DEF IInv, order, At
<1>1. job' = job /\ lock' = lock /\ UNCHANGED <<provider, kind, acked, credits, lost>>
  BY DEF Quiet, RequestLink, InsertOrder, CheckoutCreated, RequestFails,
         MarkOrderFailed, Pay, LimitReached, Decline
<1>2. /\ row' \in {"none", "pending", "success", "failed", "expired"}
      /\ request' \in {"start", "insert", "link", "mark", "done"}
      /\ session' \in {"none", "open", "paid", "failed", "expired"}
  BY DEF Quiet, RequestLink, InsertOrder, CheckoutCreated, RequestFails,
      MarkOrderFailed, Pay, LimitReached, Decline, TypeOK
<1>2a. full' \in BOOLEAN
  BY DEF Quiet, RequestLink, InsertOrder, CheckoutCreated, RequestFails,
      MarkOrderFailed, Pay, LimitReached, Decline, TypeOK
<1>2b. faults' \in 0 .. MaxFaults /\ faults' >= faults
  <2>1. UNCHANGED faults \/ (faults < MaxFaults /\ faults' = faults + 1)
    BY DEF Quiet, RequestLink, InsertOrder, CheckoutCreated, RequestFails,
      MarkOrderFailed, Pay, LimitReached, Decline
  <2>2. QED
    BY <2>1, ConstantsAssumption DEF TypeOK
<1>3. TypeOK'
  BY <1>1, <1>2, <1>2a, <1>2b DEF TypeOK
<1>4. RequestInv'
  BY <1>1 DEF Quiet, RequestLink, InsertOrder, CheckoutCreated, RequestFails,
      MarkOrderFailed, Pay, LimitReached, Decline, TypeOK, RequestInv, LinkFirst
<1>5. /\ row # "none" => row' # "none" /\ (row' = "pending" => row = "pending")
      /\ session # "none" => session' # "none"
  BY DEF Quiet, RequestLink, InsertOrder, CheckoutCreated, RequestFails,
      MarkOrderFailed, Pay, LimitReached, Decline, TypeOK, RequestInv, LinkFirst
<1>6. JobInv'
  BY <1>1, <1>5 DEF JobInv, EpayTopUp
<1>7. Excused => Excused'
  BY <1>1, <1>2b DEF Excused, Quiet, RequestLink, InsertOrder, CheckoutCreated,
      RequestFails, MarkOrderFailed, Pay, LimitReached, Decline, TypeOK
<1>8. AckInv'
  BY <1>1, <1>5, <1>7 DEF AckInv, IsPaid, RequestInv, JobInv
<1>9. MutexInv'
  BY <1>1 DEF MutexInv, WaffoFailure
<1>10. QED
  BY <1>3, <1>4, <1>6, <1>8, <1>9

LEMMA ReceiveInv ==
    ASSUME IInv, NEW h \in Handlers, NEW n \in Nodes, NEW e \in Events,
           Receive(h, n, e)
    PROVE  IInv'
<1> DEFINE new == [pc |-> FirstStep(e), event |-> e, node |-> n, ok |-> FALSE]
<1> USE DEF IInv, order, At
<1>1. /\ UNCHANGED <<provider, kind, row, request, session, acked, lock, credits,
                     full, lost, faults>>
      /\ job[h] = Idle /\ Notified(e)
  BY DEF Receive
<1>2. /\ FirstStep(e) \in {"read", "resolve", "lock"}
      /\ FirstStep(e) = "read" => e = "failed" /\ provider = "waffo"
      /\ FirstStep(e) = "resolve" => provider = "pancake"
  BY DEF FirstStep
<1>3. new \in Job
  BY <1>2 DEF Job
<1>4. /\ job' \in [Handlers -> Job \cup {Idle}] /\ job'[h] = new
      /\ \A g \in Handlers \ {h} : job'[g] = job[g]
  <2>1. job' = [job EXCEPT ![h] = new]
    BY DEF Receive
  <2>2. QED
    BY <2>1, <1>3 DEF TypeOK
<1>5. /\ job'[h].pc = FirstStep(e) /\ job'[h].event = e
      /\ job'[h].node = n /\ job'[h].ok = FALSE
  BY <1>4
<1>6. \A m \in Nodes : lock[m] # h
  BY <1>1, ConstantsAssumption DEF TypeOK, Idle
<1>7. HolderOK'
  BY <1>1, <1>4, <1>6, HolderOfType DEF HolderOK, TypeOK
<1>8. TypeOK'
  BY <1>1, <1>4, <1>7, TypeOfParts DEF TypeOK
<1>9. row # "none" /\ (e = "admin" => kind = "topup") /\ (e # "admin" => session # "none")
  BY <1>1 DEF Notified, RequestInv, Events
<1>10. JobInv'
  BY <1>1, <1>2, <1>4, <1>5, <1>9 DEF JobInv, EpayTopUp
<1>11. MutexInv'
  BY <1>1, <1>2, <1>4, <1>5 DEF MutexInv, WaffoFailure, Critical
<1>12. AckInv'
  BY <1>1, <1>2, <1>4, <1>5 DEF AckInv, Excused, IsPaid
<1>13. RequestInv'
  BY <1>1 DEF RequestInv, LinkFirst
<1>14. QED
  BY <1>8, <1>10, <1>11, <1>12, <1>13

\* What is left to show of a step of job h, once the job has moved.
LEMMA MovesInv ==
    ASSUME IInv, TypeOK', NEW h \in Handlers, NEW pc \in Pcs, NEW ok,
           Moves(h, pc, ok),
           UNCHANGED <<provider, kind, request, session, acked, full>>,
           row' # "none", row' = "pending" => row = "pending",
           faults' \in Nat, faults' >= faults,
           pc # "resolve",
           pc = "credit" => EpayTopUp /\ row' # "pending",
           pc = "answer" /\ IsPaid(h) /\ ok /\ row' = "pending" => Excused',
           pc \in Critical /\ ~WaffoFailure(h) => lock'[job[h].node] = h,
           \A g \in Handlers \ {h} :
              lock[job[g].node] = g => lock'[job[g].node] = g
    PROVE  IInv'
<1> USE DEF IInv, At
<1>1. RequestInv'
  <2>1. row # "none"
    BY DEF JobInv, Moves
  <2>2. QED
    BY <2>1 DEF RequestInv, LinkFirst
<1>2. Excused => Excused'
  BY DEF Excused, TypeOK
<1>3. JobInv'
  <2> SUFFICES ASSUME NEW g \in Handlers, job'[g].pc # "idle"
      PROVE  /\ row' # "none"
             /\ job'[g].event = "admin" => kind' = "topup"
             /\ job'[g].event # "admin" => session' # "none"
             /\ job'[g].pc = "resolve" => provider' = "pancake"
             /\ job'[g].pc = "credit" => EpayTopUp' /\ row' # "pending"
    BY DEF JobInv
  <2>1. CASE g = h
    BY <2>1 DEF JobInv, Moves, EpayTopUp
  <2>2. CASE g # h
    BY <2>2 DEF JobInv, Moves, EpayTopUp
  <2>3. QED
    BY <2>1, <2>2
<1>4. AckInv'
  BY <1>2 DEF AckInv, Moves, IsPaid
<1>5. MutexInv'
  BY DEF MutexInv, Moves, WaffoFailure, Critical
<1>6. QED
  BY <1>1, <1>3, <1>4, <1>5

LEMMA StepInv ==
    ASSUME IInv, NEW h \in Handlers, Step(h)
    PROVE  IInv'
<1> USE DEF IInv, At
<1>0. /\ TypeOK /\ TypeOK'
      /\ UNCHANGED <<provider, kind, full, session, request, acked, lost, faults>>
  BY StepType DEF Step, order
<1>1. job[h].pc # "idle" /\ row # "none"
  BY DEF Step, ResolveTradeNo, LockOrder, CheckPending, ReadOrder, WriteOrder,
         RefuseOverLimit, IncreaseUserQuota, JobInv
<1>2. faults' \in Nat /\ faults' >= faults
  BY <1>0, ConstantsAssumption DEF TypeOK
<1>3. CASE ResolveTradeNo(h)
  <2>1. Moves(h, "lock", job[h].ok)
    BY <1>0, <1>3, GotoMoves DEF ResolveTradeNo, Pcs
  <2>2. QED
    BY <1>0, <1>1, <1>2, <1>3, <2>1, MovesInv DEF ResolveTradeNo, Pcs, Critical
<1>4. CASE LockOrder(h)
  <2>1. PICK pc \in {"check", "read"} : Moves(h, pc, job[h].ok)
    BY <1>0, <1>4, GotoMoves DEF LockOrder, Pcs
  <2>2. job[h].node \in Nodes
    BY <2>1 DEF Moves
  <2>3. /\ lock'[job[h].node] = h
        /\ \A g \in Handlers \ {h} :
              lock[job[g].node] = g => lock'[job[g].node] = g
    BY <1>0, <1>4, <2>2, ConstantsAssumption DEF LockOrder, TypeOK
  <2>4. row' = row
    BY <1>4 DEF LockOrder
  <2>5. QED
    BY <1>0, <1>1, <1>2, <2>1, <2>3, <2>4, MovesInv DEF Pcs
<1>5. CASE CheckPending(h) \/ ReadOrder(h)
  <2>1. PICK pc \in {"read", "write", "answer"} : \E ok :
            Moves(h, pc, ok) /\ (pc = "answer" => row # "pending")
    BY <1>0, <1>5, GotoMoves, EndMoves DEF CheckPending, ReadOrder, Pcs, OkOnDecided, EpayTopUp
  <2>2. lock' = lock /\ row' = row /\ job[h].pc \in Critical
    BY <1>5 DEF CheckPending, ReadOrder, Critical
  <2>3. QED
    BY <1>0, <1>1, <1>2, <2>1, <2>2, MovesInv DEF Pcs, MutexInv
<1>6. CASE WriteOrder(h)
  <2>1. PICK pc \in {"credit", "answer"} : \E ok :
            Moves(h, pc, ok) /\ (pc = "credit" => EpayTopUp)
    BY <1>0, <1>6, GotoMoves, EndMoves DEF WriteOrder, Pcs
  <2>2. job[h].event \in Events
    BY <2>1 DEF Moves
  <2>3. lock' = lock /\ row' \in {"success", "failed", "expired"} /\ job[h].pc \in Critical
    BY <1>6, <2>2
    DEF WriteOrder, Completes, Events, Critical, EpayTopUp, IsPaid, Goto, End
  <2>4. QED
    BY <1>0, <1>1, <1>2, <2>1, <2>3, MovesInv DEF Pcs, MutexInv
<1>7. CASE RefuseOverLimit(h)
  <2>1. Moves(h, "answer", OkOnError(h))
    BY <1>0, <1>7, EndMoves DEF RefuseOverLimit, OkOnError, EpayTopUp
  <2>2. lock' = lock /\ row' = row /\ full
    BY <1>7 DEF RefuseOverLimit
  <2>3. OkOnError(h) => Excused'
    BY <1>0, <2>2 DEF OkOnError, EpayTopUp, RequestInv, Excused
  <2>4. QED
    BY <1>0, <1>1, <1>2, <2>1, <2>2, <2>3, MovesInv DEF Pcs, Critical
<1>8. CASE IncreaseUserQuota(h)
  <2>1. Moves(h, "answer", TRUE)
    BY <1>0, <1>8, EndMoves DEF IncreaseUserQuota
  <2>2. lock' = lock /\ row' = row /\ row # "pending"
    BY <1>8 DEF IncreaseUserQuota, JobInv
  <2>3. QED
    BY <1>0, <1>1, <1>2, <2>1, <2>2, MovesInv DEF Pcs, Critical
<1>9. QED
  BY <1>3, <1>4, <1>5, <1>6, <1>7, <1>8 DEF Step

LEMMA FailInv ==
    ASSUME IInv, NEW h \in Handlers, StatementFails(h)
    PROVE  IInv'
<1> USE DEF IInv, At
<1>1. /\ UNCHANGED <<provider, kind, row, request, session, acked, lock, credits, full>>
      /\ faults < MaxFaults /\ faults' = faults + 1
      /\ job[h].pc # "idle"
  BY DEF StatementFails, order
<1>2. faults' \in 0 .. MaxFaults /\ faults' > 0 /\ faults' \in Nat /\ faults' >= faults
  BY <1>1, ConstantsAssumption DEF TypeOK
<1>3. lost' \in BOOLEAN
  BY DEF StatementFails, TypeOK
<1>4. PICK ok \in BOOLEAN :
         /\ Moves(h, "answer", ok)
         /\ ok => \/ job[h].pc = "resolve" \/ OkOnError(h)
                  \/ provider = "creem" /\ kind = "sub"
  BY <1>1, EndMoves DEF StatementFails, OkOnError, EpayTopUp
<1>5. TypeOK'
  <2>1. HolderOK'
    BY <1>1, <1>4, MovesHolder DEF Critical
  <2>2. QED
    BY <1>1, <1>2, <1>3, <1>4, <2>1, TypeOfParts DEF TypeOK, Moves
<1>6. ok => Excused'
  BY <1>1, <1>2, <1>4 DEF OkOnError, EpayTopUp, Excused, JobInv
<1>7. row # "none"
  BY <1>1 DEF JobInv
<1>8. QED
  BY <1>1, <1>2, <1>4, <1>5, <1>6, <1>7, MovesInv DEF Pcs, Critical

LEMMA AnswerInv ==
    ASSUME IInv, NEW h \in Handlers, Answer(h)
    PROVE  IInv'
<1> USE DEF IInv, At
<1>1. /\ UNCHANGED <<provider, kind, row, request, session, credits, full, lost, faults>>
      /\ job[h].pc = "answer"
      /\ lock' = Unlocked(h)
      /\ acked' \in {acked, acked \/ (IsPaid(h) /\ job[h].ok)}
  BY DEF Answer, order
<1>2. /\ job' \in [Handlers -> Job \cup {Idle}] /\ job'[h] = Idle
      /\ \A g \in Handlers \ {h} : job'[g] = job[g]
  BY DEF Answer, TypeOK
<1>3. job'[h].pc = "idle"
  BY <1>2 DEF Idle
<1>4. /\ lock' \in [Nodes -> Handlers \cup {"none"}]
      /\ \A n \in Nodes : lock'[n] = IF lock[n] = h THEN "none" ELSE lock[n]
  BY <1>1 DEF TypeOK, Unlocked
<1>5. HolderOK'
  BY <1>2, <1>4, HolderOfType DEF HolderOK, TypeOK
<1>6. acked' \in BOOLEAN /\ (acked' => acked \/ (IsPaid(h) /\ job[h].ok))
  BY <1>1 DEF TypeOK, IsPaid
<1>7. TypeOK'
  BY <1>1, <1>2, <1>4, <1>5, <1>6, TypeOfParts DEF TypeOK
<1>8. row # "none"
  BY <1>1 DEF JobInv
<1>9. RequestInv'
  BY <1>1, <1>8 DEF RequestInv, LinkFirst
<1>10. JobInv'
  BY <1>1, <1>2, <1>3 DEF JobInv, EpayTopUp
<1>11. AckInv'
  BY <1>1, <1>2, <1>3, <1>6 DEF AckInv, IsPaid, Excused
<1>12. MutexInv'
  <2> SUFFICES ASSUME NEW g \in Handlers, job'[g].pc \in Critical, ~WaffoFailure(g)'
      PROVE  lock'[job'[g].node] = g
    BY DEF MutexInv
  <2>1. g # h /\ job'[g] = job[g]
    BY <1>2, <1>3 DEF Critical
  <2>2. lock[job[g].node] = g
    BY <1>1, <2>1 DEF MutexInv, WaffoFailure
  <2>3. job[g].node \in Nodes
    BY <2>1, BusyJob DEF Critical, Job
  <2>4. QED
    BY <1>4, <2>1, <2>2, <2>3
<1>13. QED
  BY <1>7, <1>9, <1>10, <1>11, <1>12

LEMMA CrashInv ==
    ASSUME IInv, NEW n \in Nodes, Crash(n)
    PROVE  IInv'
<1> USE DEF IInv, At
<1>1. /\ UNCHANGED <<provider, kind, row, session, acked, credits, full>>
      /\ faults < MaxFaults /\ faults' = faults + 1
      /\ request' \in {request, "done"}
      /\ lost' => lost \/ \E h \in Handlers : job[h].pc = "credit"
      /\ lost' \in BOOLEAN
  BY DEF Crash, order, TypeOK
<1>2. faults' \in 0 .. MaxFaults /\ faults' >= faults /\ faults \in Nat
  BY <1>1, ConstantsAssumption DEF TypeOK
<1>3. /\ job' \in [Handlers -> Job \cup {Idle}]
      /\ \A h \in Handlers : job'[h] = IF job[h].node = n THEN Idle ELSE job[h]
  BY DEF Crash, TypeOK
<1>4. \A h \in Handlers : job'[h].pc # "idle" => job'[h] = job[h] /\ job[h].node # n
  BY <1>3 DEF Idle
<1>5. /\ lock' \in [Nodes -> Handlers \cup {"none"}]
      /\ lock'[n] = "none" /\ \A m \in Nodes \ {n} : lock'[m] = lock[m]
  BY DEF Crash, TypeOK
<1>6. HolderOK'
  BY <1>3, <1>5, HolderOfType DEF HolderOK, TypeOK
<1>7. TypeOK'
  BY <1>1, <1>2, <1>3, <1>5, <1>6 DEF TypeOK, HolderOK, Critical
<1>8. RequestInv'
  BY <1>1 DEF RequestInv, JobInv, LinkFirst
<1>9. JobInv'
  BY <1>1, <1>4 DEF JobInv, EpayTopUp
<1>10. AckInv'
  <2>1. Excused => Excused'
    BY <1>1, <1>2 DEF Excused
  <2>2. QED
    BY <1>1, <1>4, <2>1 DEF AckInv, IsPaid
<1>11. MutexInv'
  <2> SUFFICES ASSUME NEW g \in Handlers, job'[g].pc \in Critical, ~WaffoFailure(g)'
      PROVE  lock'[job'[g].node] = g
    BY DEF MutexInv
  <2>1. job'[g] = job[g] /\ job[g].node # n
    BY <1>4 DEF Critical
  <2>2. lock[job[g].node] = g
    BY <1>1, <2>1 DEF MutexInv, WaffoFailure
  <2>3. job[g].node \in Nodes
    BY <2>1, BusyJob DEF Critical, Job
  <2>4. QED
    BY <1>5, <2>1, <2>2, <2>3
<1>12. QED
  BY <1>7, <1>8, <1>9, <1>10, <1>11

LEMMA NextInv == IInv /\ [Next]_vars => IInv'
<1> SUFFICES ASSUME IInv, [Next]_vars PROVE IInv'
  OBVIOUS
<1>1. CASE Next
  BY <1>1, QuietInv, ReceiveInv, StepInv, FailInv, AnswerInv, CrashInv DEF Next, Quiet
<1>2. CASE UNCHANGED vars
  BY <1>2 DEF vars, IInv, TypeOK, RequestInv, JobInv, AckInv, MutexInv, At,
              LinkFirst, EpayTopUp, Excused, IsPaid, WaffoFailure
<1>3. QED
  BY <1>1, <1>2

LEMMA AlwaysIInv == Spec => []IInv
BY InitIInv, NextInv, PTL DEF Spec

\* Every variable keeps its type and the mutex of the order is held only by
\* a handler of that node between LockOrder and its answer, over crashes and
\* failed statements (orderLocks, LockOrder and UnlockOrder of
\* controller/topup.go), whatever the nodes, handlers and faults.
THEOREM TypeCorrect == Spec => []TypeOK
<1>1. IInv => TypeOK
  BY DEF IInv
<1>2. QED
  BY <1>1, AlwaysIInv, PTL

\* On any number of nodes a provider that was told that a payment is
\* processed is not told so of an order that still waits for it, except after
\* a failed statement or a refused subscription of the providers that the
\* property names (the webhook handlers of controller/topup_*.go and
\* subscription_payment_*.go).
THEOREM AcknowledgedSettled == Spec => []AcknowledgedIsSettled
<1>1. IInv => AcknowledgedIsSettled
  BY DEF IInv, AckInv, Excused, AcknowledgedIsSettled
<1>2. QED
  BY <1>1, AlwaysIInv, PTL

-----------------------------------------------------------------------------
(* One node: the credit *)

\* On one node the mutex lets one handler at a time past LockOrder.
LEMMA Alone ==
    ASSUME OneNode, IInv, NEW g \in Handlers, NEW h \in Handlers,
           job[g].pc \in Critical, ~WaffoFailure(g),
           job[h].pc \in Critical, ~WaffoFailure(h)
    PROVE  g = h
<1>1. job[g] \in Job /\ job[h] \in Job
  BY BusyJob DEF IInv, Critical
<1>2. job[g].node = job[h].node
  BY <1>1 DEF Job, OneNode
<1>3. QED
  BY <1>2 DEF IInv, MutexInv

\* A step that leaves row and credits alone, and moves to "write" only a
\* handler that has just read a pending row.
LEMMA KeepsOne ==
    ASSUME OneInv, UNCHANGED <<provider, kind, row, credits, lost>>,
           request' \in {request, "done"},
           \A g \in Handlers :
              /\ At(g, "write")' =>
                    \/ At(g, "write") /\ job'[g].event = job[g].event
                    \/ row = "pending"
              /\ At(g, "credit")' <=> At(g, "credit")
    PROVE  OneInv'
<1>1. CreditInv'
  BY DEF OneInv, CreditInv, EpayTopUp, Completes
<1>2. CreditMatchesRow'
  BY DEF OneInv, CreditMatchesRow
<1>3. QED
  BY <1>1, <1>2 DEF OneInv

LEMMA InitOne == Init => OneInv
BY DEF Init, OneInv, CreditInv, CreditMatchesRow, At, Idle, EpayTopUp

\* The credit of EpayNotify is lost when its handler stops before it.
LEMMA LostOne ==
    ASSUME OneNode, IInv, OneInv, UNCHANGED <<provider, kind, row, credits>>,
           request' \in {request, "done"}, lost' = TRUE,
           NEW h \in Handlers, At(h, "credit"), ~At(h, "credit")', ~At(h, "write")',
           \A g \in Handlers \ {h} : job'[g] = job[g] \/ job'[g] = Idle
    PROVE  OneInv'
<1>1. provider # "waffo" /\ EpayTopUp /\ row = "success" /\ credits = 0
  BY DEF IInv, JobInv, OneInv, CreditInv, At, EpayTopUp
<1>2. \A g \in Handlers : ~At(g, "write")' /\ ~At(g, "credit")'
  BY <1>1, Alone DEF At, Idle, WaffoFailure, Critical
<1>3. CreditInv'
  BY <1>1, <1>2 DEF OneInv, CreditInv, EpayTopUp, Completes
<1>4. CreditMatchesRow'
  BY <1>1 DEF OneInv, CreditMatchesRow
<1>5. QED
  BY <1>3, <1>4 DEF OneInv

LEMMA WriteOne ==
    ASSUME OneNode, IInv, OneInv, NEW h \in Handlers, Step(h), WriteOrder(h)
    PROVE  OneInv'
<1>0. /\ TypeOK /\ At(h, "write")
      /\ UNCHANGED <<provider, kind, request, session, lost>>
  BY DEF IInv, Step, order, WriteOrder
<1>1. PICK pc \in {"credit", "answer"} : \E ok :
         /\ Moves(h, pc, ok)
         /\ pc = "credit" => EpayTopUp /\ IsPaid(h) /\ credits' = credits
         /\ pc = "answer" => credits' = IF Completes(h) THEN credits + 1 ELSE credits
         /\ row' = IF Completes(h) THEN "success" ELSE job[h].event
  BY <1>0, GotoMoves, EndMoves DEF WriteOrder, Pcs, At
<1>2. CASE Completes(h)
  <2>1. credits = 0 /\ ~lost /\ row' = "success" /\ ~WaffoFailure(h)
    BY <1>0, <1>1, <1>2 DEF OneInv, CreditInv, WaffoFailure, Completes
  <2>2. \A g \in Handlers \ {h} :
           /\ At(g, "write")' => ~Completes(g)' /\ provider = "waffo"
           /\ ~At(g, "credit")'
    <3> SUFFICES ASSUME NEW g \in Handlers \ {h}
        PROVE  /\ At(g, "write")' => ~Completes(g)' /\ provider = "waffo"
               /\ ~At(g, "credit")'
      OBVIOUS
    <3>1. job'[g] = job[g]
      BY <1>1 DEF Moves
    <3>2. job[g].pc \in Critical => WaffoFailure(g)
      BY <1>0, <2>1, Alone DEF At, Critical
    <3>3. job[g].pc # "credit"
      BY <3>2 DEF Critical, IInv, JobInv, At, EpayTopUp, WaffoFailure
    <3>4. QED
      BY <3>1, <3>2, <3>3 DEF At, Critical, WaffoFailure, Completes
  <2>3. CreditInv'
    BY <1>0, <1>1, <1>2, <2>1, <2>2
    DEF CreditInv, OneInv, IInv, JobInv, RequestInv, At, Moves, UnlockedClosers,
        EpayTopUp, Completes
  <2>4. CreditMatchesRow'
    BY <1>1, <1>2, <2>1 DEF CreditMatchesRow, Moves, At
  <2>5. QED
    BY <2>3, <2>4 DEF OneInv
<1>3. CASE ~Completes(h)
  <2>1. /\ row' \in {"failed", "expired"} /\ pc = "answer" /\ credits' = credits
        /\ job[h].event # "admin"
    BY <1>1, <1>3 DEF Completes, Moves, Events, IsPaid
  <2>2. session # "none" /\ request' = "done"
    BY <1>0, <2>1 DEF IInv, JobInv, RequestInv, At
  <2>3. provider \notin UnlockedClosers =>
           /\ row = "pending" /\ credits = 0 /\ ~lost
           /\ \A g \in Handlers \ {h} : job[g].pc \notin Critical
    BY <1>0, Alone DEF OneInv, CreditInv, At, Critical, WaffoFailure, UnlockedClosers
  <2>4. provider \in UnlockedClosers =>
           ~lost /\ \A g \in Handlers : job[g].pc # "credit"
    BY DEF OneInv, CreditInv, UnlockedClosers, EpayTopUp, IInv, JobInv, At
  <2>5. CreditInv'
    BY <1>0, <1>1, <2>1, <2>2, <2>3, <2>4
    DEF CreditInv, OneInv, At, Moves, EpayTopUp, Completes, Critical
  <2>6. CreditMatchesRow'
    BY <1>0, <1>1, <2>1, <2>3 DEF CreditMatchesRow, OneInv, UnlockedClosers
  <2>7. QED
    BY <2>5, <2>6 DEF OneInv
<1>4. QED
  BY <1>2, <1>3

LEMMA CreditOne ==
    ASSUME OneNode, IInv, OneInv, NEW h \in Handlers, Step(h), IncreaseUserQuota(h)
    PROVE  OneInv'
<1>1. /\ TypeOK /\ At(h, "credit")
      /\ UNCHANGED <<provider, kind, row, request, session, lost>>
      /\ credits' = credits + 1
  BY DEF IInv, Step, order, IncreaseUserQuota
<1>2. Moves(h, "answer", TRUE)
  BY <1>1, EndMoves DEF IncreaseUserQuota, At
<1>3. EpayTopUp /\ row = "success" /\ credits = 0 /\ ~lost
  BY <1>1 DEF IInv, JobInv, OneInv, CreditInv, At
<1>4. \A g \in Handlers : ~At(g, "write")' /\ ~At(g, "credit")'
  BY <1>1, <1>2, <1>3, Alone DEF At, Moves, WaffoFailure, Critical, EpayTopUp
<1>5. QED
  BY <1>1, <1>3, <1>4
  DEF OneInv, CreditInv, CreditMatchesRow, EpayTopUp, UnlockedClosers

LEMMA StepOne ==
    ASSUME OneNode, IInv, OneInv, NEW h \in Handlers, Step(h)
    PROVE  OneInv'
<1>0. TypeOK /\ UNCHANGED <<provider, kind, request, lost>>
  BY DEF IInv, Step, order
<1>1. CASE ResolveTradeNo(h) \/ LockOrder(h) \/ CheckPending(h) \/ ReadOrder(h)
           \/ RefuseOverLimit(h)
  <2>1. row' = row /\ credits' = credits
    BY <1>1 DEF ResolveTradeNo, LockOrder, CheckPending, ReadOrder, RefuseOverLimit
  <2>2. PICK pc \in {"lock", "check", "read", "write", "answer"} : \E ok :
           Moves(h, pc, ok) /\ (pc = "write" => row = "pending")
    BY <1>0, <1>1, GotoMoves, EndMoves
    DEF ResolveTradeNo, LockOrder, CheckPending, ReadOrder, RefuseOverLimit, Pcs,
        At, OkOnDecided, OkOnError, EpayTopUp
  <2>3. job[h].pc # "credit"
    BY <1>1 DEF ResolveTradeNo, LockOrder, CheckPending, ReadOrder,
                RefuseOverLimit, At
  <2>4. QED
    BY <1>0, <2>1, <2>2, <2>3, KeepsOne DEF Moves, At
<1>2. QED
  BY <1>1, WriteOne, CreditOne DEF Step

LEMMA FailOne ==
    ASSUME OneNode, IInv, OneInv, NEW h \in Handlers, StatementFails(h)
    PROVE  OneInv'
<1>1. /\ UNCHANGED <<provider, kind, row, request, credits>>
      /\ job[h].pc # "idle" /\ TypeOK
      /\ lost' = (lost \/ At(h, "credit"))
  BY DEF StatementFails, order, IInv
<1>2. PICK ok \in BOOLEAN : Moves(h, "answer", ok)
  BY <1>1, EndMoves DEF StatementFails, OkOnError, EpayTopUp, At
<1>3. CASE At(h, "credit")
  BY <1>1, <1>2, <1>3, LostOne DEF Moves, At
<1>4. CASE ~At(h, "credit")
  <2>1. lost' = lost
    BY <1>1, <1>4 DEF TypeOK
  <2>2. QED
    BY <1>1, <1>2, <1>4, <2>1, KeepsOne DEF Moves, At
<1>5. QED
  BY <1>3, <1>4

LEMMA CrashOne ==
    ASSUME OneNode, IInv, OneInv, NEW n \in Nodes, Crash(n)
    PROVE  OneInv'
<1>1. /\ UNCHANGED <<provider, kind, row, credits>> /\ TypeOK
      /\ request' \in {request, "done"}
      /\ lost' = (lost \/ \E h \in Handlers : job[h].node = n /\ At(h, "credit"))
      /\ \A h \in Handlers : job'[h] = IF job[h].node = n THEN Idle ELSE job[h]
  BY DEF Crash, order, IInv
<1>2. \A h \in Handlers : job[h].pc = "credit" => job[h].node = n
  BY <1>1, BusyJob DEF Job, OneNode
<1>3. CASE \E h \in Handlers : At(h, "credit")
  <2>1. PICK h \in Handlers : At(h, "credit")
    BY <1>3
  <2>2. job'[h] = Idle /\ lost' = TRUE
    BY <1>1, <1>2, <2>1 DEF At
  <2>3. ~At(h, "credit")' /\ ~At(h, "write")'
    BY <2>2 DEF At, Idle
  <2>4. QED
    BY <1>1, <2>1, <2>2, <2>3, LostOne
<1>4. CASE ~\E h \in Handlers : At(h, "credit")
  <2>1. lost' = lost
    BY <1>1, <1>4 DEF TypeOK
  <2>2. QED
    BY <1>1, <1>4, <2>1, KeepsOne DEF At, Idle
<1>5. QED
  BY <1>3, <1>4

LEMMA QuietOne ==
    ASSUME IInv, OneInv, Quiet
    PROVE  OneInv'
<1>1. job' = job /\ UNCHANGED <<provider, kind, credits, lost>>
  BY DEF Quiet, RequestLink, InsertOrder, CheckoutCreated, RequestFails,
         MarkOrderFailed, Pay, LimitReached, Decline, order
<1>2. CASE row' = row /\ request' \in {request, "link", "insert", "mark", "done"}
           /\ (request' # "done" => request # "done")
  BY <1>1, <1>2
  DEF OneInv, CreditInv, CreditMatchesRow, At, Completes, EpayTopUp
<1>3. CASE InsertOrder
  <2>1. row = "none" /\ row' = "pending" /\ \A h \in Handlers : At(h, "idle")
    BY <1>3 DEF InsertOrder, IInv, RequestInv, JobInv
  <2>2. credits = 0 /\ ~lost
    BY <2>1 DEF IInv, RequestInv, TypeOK
  <2>3. QED
    BY <1>1, <2>1, <2>2
    DEF OneInv, CreditInv, CreditMatchesRow, At, Completes, EpayTopUp
<1>4. CASE MarkOrderFailed /\ row' # row
  <2>1. /\ request = "mark" /\ request' = "done" /\ row' \in {"expired", "failed"}
        /\ session = "none" /\ ~LinkFirst /\ provider # "creem"
    BY <1>4 DEF MarkOrderFailed, IInv, RequestInv
  <2>2. CASE kind = "sub"
    <3>1. row \in {"none", "pending"} /\ \A h \in Handlers : At(h, "idle")
      BY <2>1, <2>2 DEF IInv, RequestInv, JobInv, OneInv, CreditInv
    <3>2. row = "pending" /\ credits = 0 /\ ~lost
      BY <2>1, <3>1 DEF IInv, RequestInv, OneInv, CreditInv
    <3>3. QED
      BY <1>1, <2>1, <3>1, <3>2
      DEF OneInv, CreditInv, CreditMatchesRow, At, Completes, EpayTopUp
  <2>3. CASE kind = "topup"
    <3>1. provider \in UnlockedClosers
      BY <2>1, <2>3, ConstantsAssumption
      DEF IInv, TypeOK, LinkFirst, UnlockedClosers, AllProviders
    <3>2. ~lost /\ \A h \in Handlers : ~At(h, "credit")
      BY <3>1 DEF OneInv, CreditInv, UnlockedClosers, EpayTopUp, IInv, JobInv, At
    <3>3. QED
      BY <1>1, <2>1, <2>3, <3>1, <3>2
      DEF OneInv, CreditInv, CreditMatchesRow, At, Completes, EpayTopUp, UnlockedClosers
  <2>4. QED
    BY <2>2, <2>3 DEF IInv, TypeOK
<1>5. QED
  BY <1>2, <1>3, <1>4
  DEF Quiet, RequestLink, CheckoutCreated, RequestFails,
      MarkOrderFailed, Pay, LimitReached, Decline, order, IInv, TypeOK

LEMMA NextOne ==
    ASSUME OneNode, IInv, OneInv, [Next]_vars
    PROVE  OneInv'
<1>1. ASSUME NEW h \in Handlers, NEW n \in Nodes, NEW e \in Events, Receive(h, n, e)
      PROVE  OneInv'
  <2>1. /\ UNCHANGED <<provider, kind, row, request, credits, lost>>
        /\ job' = [job EXCEPT ![h] = [pc |-> FirstStep(e), event |-> e,
                                      node |-> n, ok |-> FALSE]]
        /\ job[h].pc = "idle"
    BY <1>1 DEF Receive, order, Idle
  <2>2. FirstStep(e) \in {"read", "resolve", "lock"}
    BY DEF FirstStep
  <2>3. QED
    BY <2>1, <2>2, KeepsOne DEF At, IInv, TypeOK
<1>2. ASSUME NEW h \in Handlers, Answer(h)
      PROVE  OneInv'
  <2>1. /\ UNCHANGED <<provider, kind, row, request, credits, lost>>
        /\ job' = [job EXCEPT ![h] = Idle] /\ job[h].pc = "answer"
    BY <1>2 DEF Answer, order, At
  <2>2. QED
    BY <2>1, KeepsOne DEF At, Idle, IInv, TypeOK
<1>3. CASE UNCHANGED vars
  BY <1>3, KeepsOne DEF vars, At
<1>4. QED
  BY <1>1, <1>2, <1>3, QuietOne, StepOne, FailOne, CrashOne DEF Next, Quiet

LEMMA AlwaysOne == ASSUME OneNode PROVE Spec => [](IInv /\ OneInv)
<1>1. Init => IInv /\ OneInv
  BY InitIInv, InitOne
<1>2. IInv /\ OneInv /\ [Next]_vars => (IInv /\ OneInv)'
  BY NextInv, NextOne
<1>3. QED
  BY <1>1, <1>2, PTL DEF Spec

\* On one node the order is credited at most once and its status says so,
\* for any number of notifications, administrators and faults (LockOrder,
\* the status check of model.RechargeX and CompleteSubscriptionOrder, and
\* the two statements of EpayNotify).
THEOREM CreditedOnce == ASSUME OneNode PROVE Spec => []CreditMatchesRow
<1>1. OneInv => CreditMatchesRow
  BY DEF OneInv
<1>2. QED
  BY <1>1, AlwaysOne, PTL

-----------------------------------------------------------------------------
(* One node: the order implements Ledger *)

\* The claim in each state of the row.
ClaimFacts ==
    /\ credits \in {0, 1}
    /\ credits = 1 => Claim = "settled"
    /\ credits = 0 /\ row = "none" => Claim = "none"
    /\ credits = 0 /\ row = "pending" => Claim = "open"
    /\ credits = 0 /\ row = "success" /\ lost => Claim = "lost"
    /\ credits = 0 /\ row = "success" /\ ~lost => Claim = "accepted"
    /\ credits = 0 /\ row \in {"failed", "expired"} =>
          Claim = IF provider \in UnlockedClosers THEN "open" ELSE "refused"

LEMMA ClaimOf == ASSUME IInv, OneInv PROVE ClaimFacts
<1>1. credits \in {0, 1}
  BY DEF OneInv, CreditMatchesRow, IInv, TypeOK
<1>2. CASE credits = 1
  BY <1>2 DEF ClaimFacts, Claim
<1>3. CASE credits = 0 /\ row \in {"none", "pending"}
  BY <1>3 DEF ClaimFacts, Claim
<1>4. CASE credits = 0 /\ row = "success"
  BY <1>4 DEF ClaimFacts, Claim
<1>5. CASE credits = 0 /\ row \in {"failed", "expired"}
  <2>1. Claim = IF provider \in UnlockedClosers THEN "open" ELSE "refused"
    BY <1>5 DEF Claim
  <2>2. QED
    BY <1>5, <2>1 DEF ClaimFacts
<1>6. QED
  BY <1>1, <1>2, <1>3, <1>4, <1>5 DEF IInv, TypeOK

LEMMA ClaimOfNext == ASSUME IInv', OneInv' PROVE ClaimFacts'
<1>1. credits' \in {0, 1}
  BY DEF OneInv, CreditMatchesRow, IInv, TypeOK
<1>2. CASE credits' = 1
  BY <1>2 DEF ClaimFacts, Claim
<1>3. CASE credits' = 0 /\ row' \in {"none", "pending"}
  BY <1>3 DEF ClaimFacts, Claim
<1>4. CASE credits' = 0 /\ row' = "success"
  BY <1>4 DEF ClaimFacts, Claim
<1>5. CASE credits' = 0 /\ row' \in {"failed", "expired"}
  <2>1. Claim' = IF provider' \in UnlockedClosers THEN "open" ELSE "refused"
    BY <1>5 DEF Claim
  <2>2. QED
    BY <1>5, <2>1 DEF ClaimFacts
<1>6. QED
  BY <1>1, <1>2, <1>3, <1>4, <1>5 DEF IInv, TypeOK

\* Every step is a step of Ledger or changes neither claim nor balance.
LEMMA LedgerStep ==
    ASSUME OneNode, IInv, OneInv, IInv', OneInv', [Next]_vars
    PROVE  [L!Next]_(L!lvars)
<1> USE DEF L!lvars, L!Next, L!Place, L!Settle, L!Accept, L!Credit, L!Lose, L!Refuse
<1>0. ClaimFacts /\ ClaimFacts' /\ TypeOK /\ TypeOK'
  BY ClaimOf, ClaimOfNext DEF IInv
<1>1. CASE UNCHANGED <<provider, row, credits, lost>>
  BY <1>1 DEF Claim
<1>2. CASE Quiet
  <2>1. UNCHANGED <<provider, kind, credits, lost>>
    BY <1>2 DEF Quiet, RequestLink, InsertOrder, CheckoutCreated, RequestFails,
           MarkOrderFailed, Pay, LimitReached, Decline, order
  <2>2. CASE InsertOrder
    <3>1. row = "none" /\ row' = "pending" /\ credits = 0
      BY <1>0, <2>2 DEF InsertOrder, IInv, RequestInv, ClaimFacts
    <3>2. QED
      BY <1>0, <2>1, <3>1 DEF ClaimFacts
  <2>3. CASE MarkOrderFailed /\ row' # row
    <3>1. /\ row' \in {"expired", "failed"} /\ row # "none" /\ ~LinkFirst
          /\ request = "mark" /\ provider # "creem"
      BY <2>3 DEF MarkOrderFailed, IInv, RequestInv
    <3>2. CASE credits = 1
      BY <1>0, <2>1, <3>2 DEF ClaimFacts
    <3>3. CASE credits = 0 /\ provider \in UnlockedClosers
      <4>1. row # "success"
        BY <3>3 DEF OneInv, CreditInv, CreditMatchesRow, UnlockedClosers, EpayTopUp,
                    IInv, JobInv, At
      <4>2. Claim = "open" /\ Claim' = "open"
        BY <1>0, <2>1, <3>1, <3>3, <4>1 DEF ClaimFacts, TypeOK
      <4>3. QED
        BY <2>1, <4>2
    <3>4. CASE credits = 0 /\ provider \notin UnlockedClosers
      <4>1. kind = "sub"
        BY <1>0, <3>1, <3>4, ConstantsAssumption
        DEF TypeOK, LinkFirst, AllProviders, UnlockedClosers
      <4>2. row = "pending"
        BY <3>1, <4>1 DEF OneInv, CreditInv
      <4>3. QED
        BY <1>0, <2>1, <3>1, <3>4, <4>2 DEF ClaimFacts
    <3>5. QED
      BY <1>0, <3>2, <3>3, <3>4 DEF ClaimFacts
  <2>4. QED
    BY <1>1, <1>2, <2>1, <2>2, <2>3 DEF Quiet, RequestLink, CheckoutCreated,
           RequestFails, MarkOrderFailed, Pay, LimitReached, Decline
<1>3. ASSUME NEW h \in Handlers, Step(h) PROVE [L!Next]_(L!lvars)
  <2>1. UNCHANGED <<provider, kind, lost>>
    BY <1>3 DEF Step, order
  <2>2. CASE WriteOrder(h)
    <3>1. At(h, "write") /\ job[h].event \in Events
      BY <1>0, <2>2, BusyJob DEF WriteOrder, At, Job
    <3>2. CASE Completes(h)
      <4>1. credits = 0 /\ ~lost /\ row' = "success" /\ row # "none"
        BY <2>2, <3>1, <3>2 DEF OneInv, CreditInv, WriteOrder, IInv, JobInv, At
      <4>2. Claim = "open"
        <5>1. row = "success" => FALSE
          BY <3>1, <4>1, <3>2, Alone DEF OneInv, CreditInv, CreditMatchesRow, At, Critical,
               WaffoFailure, Completes, IInv, JobInv, EpayTopUp
        <5>2. row # "pending" => provider \in UnlockedClosers
          BY <3>1 DEF OneInv, CreditInv
        <5>3. QED
          BY <1>0, <4>1, <5>1, <5>2 DEF ClaimFacts, TypeOK
      <4>3. credits' = credits \/ credits' = credits + 1
        BY <2>2, <3>2 DEF WriteOrder
      <4>4. QED
        BY <1>0, <2>1, <4>1, <4>2, <4>3 DEF ClaimFacts
    <3>3. CASE ~Completes(h)
      <4>1. row' \in {"failed", "expired"} /\ credits' = credits /\ row # "none"
        BY <2>2, <3>1, <3>3 DEF WriteOrder, Completes, Events, IsPaid, IInv, JobInv, At
      <4>2. CASE credits = 1
        BY <1>0, <4>1, <4>2 DEF ClaimFacts
      <4>3. CASE credits = 0 /\ provider \in UnlockedClosers
        <5>1. row # "success"
          BY <4>3 DEF OneInv, CreditInv, CreditMatchesRow, UnlockedClosers, EpayTopUp,
                      IInv, JobInv, At
        <5>2. Claim = "open" /\ Claim' = "open"
          BY <1>0, <2>1, <4>1, <4>3, <5>1 DEF ClaimFacts, TypeOK
        <5>3. QED
          BY <4>1, <5>2
      <4>4. CASE credits = 0 /\ provider \notin UnlockedClosers
        <5>1. row = "pending"
          BY <3>1, <4>4 DEF OneInv, CreditInv
        <5>2. QED
          BY <1>0, <2>1, <4>1, <4>4, <5>1 DEF ClaimFacts
      <4>5. QED
        BY <1>0, <4>2, <4>3, <4>4 DEF ClaimFacts
    <3>4. QED
      BY <3>2, <3>3
  <2>3. CASE IncreaseUserQuota(h)
    <3>1. /\ row = "success" /\ credits = 0 /\ ~lost
          /\ credits' = credits + 1 /\ row' = row
      BY <2>3 DEF IncreaseUserQuota, OneInv, CreditInv
    <3>2. QED
      BY <1>0, <3>1 DEF ClaimFacts
  <2>4. QED
    BY <1>1, <1>3, <2>1, <2>2, <2>3 DEF Step, ResolveTradeNo, LockOrder, CheckPending,
           ReadOrder, RefuseOverLimit
<1>4. CASE \/ \E h \in Handlers : StatementFails(h)
           \/ \E n \in Nodes : Crash(n)
  <2>1. /\ UNCHANGED <<provider, kind, row, credits>>
        /\ lost' # lost => lost' /\ \E h \in Handlers : At(h, "credit")
    BY <1>0, <1>4 DEF StatementFails, Crash, order, TypeOK
  <2>2. CASE lost' # lost
    <3>1. row = "success" /\ credits = 0 /\ ~lost
      BY <2>1, <2>2 DEF OneInv, CreditInv
    <3>2. QED
      BY <1>0, <2>1, <2>2, <3>1 DEF ClaimFacts
  <2>3. QED
    BY <1>1, <2>1, <2>2
<1>5. CASE \E h \in Handlers :
              Answer(h) \/ \E n \in Nodes, e \in Events : Receive(h, n, e)
  BY <1>1, <1>5 DEF Answer, Receive, order
<1>6. QED
  BY <1>1, <1>2, <1>3, <1>4, <1>5 DEF Next, Quiet, vars

\* On one node every behaviour of the order is one of Ledger, but for the
\* liveness of its credit: it is decided once, credited at most once, and
\* never after it was refused (TopUp and SubscriptionOrder, model/topup.go
\* and model/subscription.go).
THEOREM ImplementsLedger ==
    ASSUME OneNode PROVE Spec => L!Init /\ [][L!Next]_(L!lvars)
<1>1. Init => L!Init
  BY DEF Init, L!Init, Claim
<1>2. IInv /\ OneInv /\ (IInv /\ OneInv)' /\ [Next]_vars => [L!Next]_(L!lvars)
  BY LedgerStep
<1>3. QED
  BY <1>1, <1>2, AlwaysOne, PTL DEF Spec

=============================================================================
