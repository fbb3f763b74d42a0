----------------------------- MODULE PaymentOrder -----------------------------
(***************************************************************************)
(* One order from the request to the credit: a top-up (topup*.go of        *)
(* controller/, model/topup.go) or a subscription (subscription_payment_*, *)
(* model/subscription.go).  The payment provider's notifications, repeated *)
(* until they are acknowledged, the administrator who completes a top-up   *)
(* by hand, and what closes the order are handled concurrently by the      *)
(* nodes of the installation.                                              *)
(*                                                                         *)
(* Every handler reads the order, decides on what it read, and writes the  *)
(* whole row.  The FOR UPDATE of these transactions is the GORM v1 form    *)
(* that GORM v2 ignores (model/locking.go), so a transaction is two steps, *)
(* read and commit, and only LockOrder, a mutex of one process, keeps      *)
(* handlers apart.  Orders share no other state.  Amounts are left out: a  *)
(* credit, quota added or a subscription created, is counted.  Payment     *)
(* providers are external, modelled from their handlers.                   *)
(***************************************************************************)
EXTENDS Naturals

CONSTANTS
    Nodes,       \* the processes of the installation
    Handlers,    \* bound on the requests handled at the same time
    Providers,   \* the payment providers of the run
    MaxFaults    \* bound on failed statements and crashes

AllProviders == {"epay", "stripe", "creem", "waffo", "pancake"}

ASSUME ConstantsAssumption ==
    /\ Nodes # {} /\ "none" \notin Nodes \cup Handlers
    /\ Providers \subseteq AllProviders
    /\ MaxFaults \in Nat

VARIABLES
    provider,    \* PaymentProvider of the order
    kind,        \* "topup" or "sub", a SubscriptionOrder
    row,         \* Status of its row, "none" before it is inserted
    request,     \* where the handler of the user's request is
    session,     \* at the provider: none, open, paid, failed, expired
    acked,       \* the provider was told that the payment is processed
    job,         \* the handlers of notifications and of the administrator
    lock,        \* orderLocks of each node: the holder of the order's mutex
    credits,     \* how often the user got what was ordered
    full,        \* MaxPurchasePerUser was reached by other orders
    lost,        \* history: the row says success and no credit will follow
    faults       \* history: failed statements and crashes

vars == <<provider, kind, row, request, session, acked, job, lock, credits,
          full, lost, faults>>
order == <<provider, kind>>

\* event: what a job handles; ok: the answer is an acknowledgement.
Events == {"paid", "return", "failed", "expired", "admin"}
Job == [pc : {"resolve", "lock", "check", "read", "write", "credit", "answer"},
        event : Events, node : Nodes, ok : BOOLEAN]
Idle == [pc |-> "idle", event |-> "none", node |-> "none", ok |-> FALSE]

-----------------------------------------------------------------------------
(* The user's request.  Stripe, and Epay for a top-up, make the payment     *)
(* link before they insert the order, the others after it.                 *)

LinkFirst == provider = "stripe" \/ (provider = "epay" /\ kind = "topup")

\* The node that handles the request; any will do.
RequestNode == CHOOSE n \in Nodes : TRUE

RequestLink ==
    /\ LinkFirst
    /\ request = "start"
    /\ request' = "insert"
    /\ UNCHANGED <<order, row, session, acked, job, lock, credits, full,
                   lost, faults>>

InsertOrder ==
    /\ request = IF LinkFirst THEN "insert" ELSE "start"
    /\ row' = "pending"
    /\ IF LinkFirst
       THEN request' = "done" /\ session' = "open"
       ELSE request' = "link" /\ UNCHANGED session
    /\ UNCHANGED <<order, acked, job, lock, credits, full,
                   lost, faults>>

CheckoutCreated ==
    /\ request = "link"
    /\ request' = "done"
    /\ session' = "open"
    /\ UNCHANGED <<order, row, acked, job, lock, credits, full,
                   lost, faults>>

\* Neither a link nor an order, or an order without a link: Creem leaves it
\* pending, the others mark it.
RequestFails ==
    /\ request \in {"start", "insert", "link"}
    /\ request' = IF request = "link" /\ provider # "creem"
                  THEN "mark" ELSE "done"
    /\ UNCHANGED <<order, row, session, acked, job, lock, credits, full,
                   lost, faults>>

\* Update() with the copy made at the insert, or ExpireSubscriptionOrder of
\* an order that nobody can have completed; errors are ignored.
MarkOrderFailed ==
    /\ request = "mark"
    /\ request' = "done"
    /\ \/ row' = (IF provider = "epay" THEN "expired" ELSE "failed")
          /\ UNCHANGED faults
       \/ faults < MaxFaults /\ faults' = faults + 1 /\ UNCHANGED row
    /\ UNCHANGED <<order, session, acked, job, lock, credits, full, lost>>

-----------------------------------------------------------------------------
(* The provider *)

Pay ==
    /\ session = "open"
    /\ session' = "paid"
    /\ UNCHANGED <<order, row, request, acked, job, lock, credits, full,
                   lost, faults>>

\* Stripe tells of a session that expired and of a delayed payment that
\* failed, Waffo of every status; the others stay silent.
Decline(e) ==
    /\ session = "open"
    /\ \/ provider = "stripe"
       \/ provider = "waffo" /\ e = "failed"
    /\ session' = e
    /\ UNCHANGED <<order, row, request, acked, job, lock, credits, full,
                   lost, faults>>

\* Notifications come late and more than once.  For the code every status of
\* Waffo but PAY_SUCCESS is a failure, also one sent before the payment.  The
\* browser of who paid a subscription with Epay returns with the same proof.
\* A top-up row of a subscription exists only when that is completed: the
\* administrator, and Stripe's failed payment, find none or a success.
Notified(e) ==
    CASE e = "paid"    -> session = "paid"
      [] e = "return"  -> session = "paid" /\ provider = "epay" /\ kind = "sub"
      [] e = "expired" -> session = "expired"
      [] e = "failed"  -> /\ kind = "topup"
                          /\ \/ session = "failed"
                             \/ /\ provider = "waffo"
                                /\ session \in {"open", "paid"}
      [] e = "admin"   -> kind = "topup" /\ row # "none"

\* Other orders of the user reach the limit of the plan.
LimitReached ==
    /\ kind = "sub" /\ ~full
    /\ full' = TRUE
    /\ UNCHANGED <<order, row, request, session, acked, job, lock, credits,
                   lost, faults>>

-----------------------------------------------------------------------------
(* The handlers *)

At(h, pc) == job[h].pc = pc
Goto(h, pc) == job' = [job EXCEPT ![h].pc = pc]
End(h, ok) == job' = [job EXCEPT ![h].pc = "answer", ![h].ok = ok]
IsPaid(h) == job[h].event = "paid"

\* The mutated form lets the administrator in without LockOrder.
FirstStepAdminUnlocked(e) ==
    CASE e = "admin" -> "read"
      [] e = "failed" /\ provider = "waffo" -> "read"
      [] e = "paid" /\ provider = "pancake" -> "resolve"
      [] OTHER -> "lock"
\* Waffo's failures are handled without the lock; Waffo Pancake looks the
\* order up before it takes it.
FirstStep(e) ==
    CASE e = "failed" /\ provider = "waffo" -> "read"
      [] e = "paid" /\ provider = "pancake" -> "resolve"
      [] OTHER -> "lock"

Receive(h, n, e) ==
    /\ job[h] = Idle
    /\ Notified(e)
    /\ job' = [job EXCEPT ![h] = [pc |-> FirstStep(e), event |-> e,
                                  node |-> n, ok |-> FALSE]]
    /\ UNCHANGED <<order, row, request, session, acked, lock, credits,
                   full, lost, faults>>

EpayTopUp == provider = "epay" /\ kind = "topup"

\* The mutated form acknowledges whatever happened.
OkOnErrorAlways(h) == TRUE
\* What a handler answers after an error: EpayNotify has written "success"
\* before it looks at the order, Stripe always gets status 200.
OkOnError(h) == EpayTopUp \/ provider = "stripe"

\* ... and for an order that is no longer pending.
OkOnDecided(h) ==
    \/ EpayTopUp \/ provider = "stripe"
    \/ row = "success" /\ ~(provider = "creem" /\ kind = "topup")

ResolveTradeNo(h) ==
    /\ At(h, "resolve")
    /\ Goto(h, "lock")
    /\ UNCHANGED <<row, lock, credits>>

LockOrder(h) ==
    /\ At(h, "lock")
    /\ lock[job[h].node] = "none"
    /\ lock' = [lock EXCEPT ![job[h].node] = h]
    /\ Goto(h, IF provider = "creem" /\ kind = "topup" /\ IsPaid(h)
               THEN "check" ELSE "read")
    /\ UNCHANGED <<row, credits>>

\* Creem acknowledges a top-up that is decided before it starts.
CheckPending(h) ==
    /\ At(h, "check")
    /\ IF row = "pending" THEN Goto(h, "read") ELSE End(h, TRUE)
    /\ UNCHANGED <<row, lock, credits>>

\* Mutated forms: only a completed order is left alone; the provider of a
\* Waffo order is taken for a mismatch.
ReadOrderUnlessSuccess(h) ==
    /\ At(h, "read")
    /\ IF row # "success" THEN Goto(h, "write") ELSE End(h, OkOnDecided(h))
    /\ UNCHANGED <<row, lock, credits>>
ReadOrderMismatch(h) ==
    /\ At(h, "read")
    /\ IF row # "pending" THEN End(h, OkOnDecided(h))
       ELSE IF provider = "waffo" THEN End(h, OkOnError(h))
       ELSE Goto(h, "write")
    /\ UNCHANGED <<row, lock, credits>>
ReadOrder(h) ==
    /\ At(h, "read")
    /\ IF row = "pending" THEN Goto(h, "write") ELSE End(h, OkOnDecided(h))
    /\ UNCHANGED <<row, lock, credits>>

\* The jobs that complete the order.  The refusals of a quota that is not
\* positive are left out: an order is for one unit at least.
Completes(h) == job[h].event \in {"paid", "return", "admin"}

\* Status and credit are written in one transaction, except by EpayNotify.
\* A subscription beyond the limit is refused and the order stays as it was.
WriteOrder(h) ==
    /\ At(h, "write")
    /\ ~(full /\ Completes(h))
    /\ row' = IF Completes(h) THEN "success" ELSE job[h].event
    /\ IF EpayTopUp /\ IsPaid(h)
       THEN Goto(h, "credit") /\ UNCHANGED credits
       ELSE /\ End(h, TRUE)
            /\ credits' = IF Completes(h) THEN credits + 1 ELSE credits
    /\ UNCHANGED lock

RefuseOverLimit(h) ==
    /\ At(h, "write")
    /\ full /\ Completes(h)
    /\ End(h, OkOnError(h))
    /\ UNCHANGED <<row, lock, credits>>

\* IncreaseUserQuota of EpayNotify.
IncreaseUserQuota(h) ==
    /\ At(h, "credit")
    /\ credits' = credits + 1
    /\ End(h, TRUE)
    /\ UNCHANGED <<row, lock>>

Step(h) ==
    /\ \/ ResolveTradeNo(h)
       \/ LockOrder(h)
       \/ CheckPending(h)
       \/ ReadOrder(h)
       \/ WriteOrder(h)
       \/ RefuseOverLimit(h)
       \/ IncreaseUserQuota(h)
    /\ UNCHANGED <<order, request, session, acked, full, lost, faults>>

\* A statement fails: a read that finds no order, a write rolled back.  Creem
\* answers a subscription it did not find as the order of another type, with
\* 200 unless it is a one-time order.
StatementFails(h) ==
    /\ faults < MaxFaults
    /\ job[h].pc \in {"resolve", "check", "read", "write", "credit"}
    /\ faults' = faults + 1
    /\ lost' = (lost \/ At(h, "credit"))
    /\ \/ End(h, At(h, "resolve") \/ OkOnError(h))
       \/ provider = "creem" /\ kind = "sub" /\ At(h, "read") /\ End(h, TRUE)
    /\ UNCHANGED <<order, row, request, session, acked, lock, credits, full>>

Unlocked(h) == [n \in Nodes |-> IF lock[n] = h THEN "none" ELSE lock[n]]

\* The mutated form misses the deferred UnlockOrder.
AnswerLocked(h) ==
    /\ At(h, "answer")
    /\ acked' \in {acked, acked \/ (IsPaid(h) /\ job[h].ok)}
    /\ job' = [job EXCEPT ![h] = Idle]
    /\ UNCHANGED <<order, row, request, session, lock, credits, full,
                   lost, faults>>
\* The handler returns: the order is unlocked and the answer, buffered until
\* now, leaves.  It may not arrive.
Answer(h) ==
    /\ At(h, "answer")
    /\ acked' \in {acked, acked \/ (IsPaid(h) /\ job[h].ok)}
    /\ job' = [job EXCEPT ![h] = Idle]
    /\ lock' = Unlocked(h)
    /\ UNCHANGED <<order, row, request, session, credits, full,
                   lost, faults>>

\* A node stops with its handlers and mutexes; what it committed stays.
Crash(n) ==
    /\ faults < MaxFaults
    /\ faults' = faults + 1
    /\ job' = [h \in Handlers |-> IF job[h].node = n THEN Idle ELSE job[h]]
    /\ lock' = [lock EXCEPT ![n] = "none"]
    /\ request' = IF n = RequestNode THEN "done" ELSE request
    /\ lost' = (lost \/ \E h \in Handlers : job[h].node = n /\ At(h, "credit"))
    /\ UNCHANGED <<order, row, session, acked, credits, full>>

-----------------------------------------------------------------------------
Init ==
    /\ provider \in Providers
    /\ kind \in IF provider = "waffo" THEN {"topup"} ELSE {"topup", "sub"}
    /\ row = "none" /\ request = "start" /\ session = "none"
    /\ acked = FALSE
    /\ job = [h \in Handlers |-> Idle]
    /\ lock = [n \in Nodes |-> "none"]
    /\ credits = 0 /\ full = FALSE /\ lost = FALSE /\ faults = 0

Next ==
    \/ RequestLink \/ InsertOrder \/ CheckoutCreated
    \/ RequestFails \/ MarkOrderFailed
    \/ Pay \/ LimitReached
    \/ \E e \in {"failed", "expired"} : Decline(e)
    \/ \E h \in Handlers :
          \/ \E n \in Nodes, e \in Events : Receive(h, n, e)
          \/ Step(h) \/ StatementFails(h) \/ Answer(h)
    \/ \E n \in Nodes : Crash(n)

\* The provider repeats what was not acknowledged.
Redeliver ==
    ~acked /\ \E h \in Handlers, n \in Nodes : Receive(h, n, "paid")

\* Handlers go on.  Strong fairness where a step is disabled again and again:
\* a Go mutex does not starve a waiter, and a retry only waits here for one
\* of the bounded Handlers.
Fairness ==
    /\ SF_vars(Redeliver)
    /\ \A h \in Handlers : SF_vars(Step(h)) /\ WF_vars(Answer(h))

Spec == Init /\ [][Next]_vars /\ Fairness

-----------------------------------------------------------------------------
(* Properties *)

\* Every variable holds what the code keeps, and the mutex of the order is
\* held only by a handler of that node that is past LockOrder (topup.go,
\* LockOrder and the deferred UnlockOrder): none is left locked behind a
\* handler that returned or crashed.
TypeOK ==
    /\ provider \in Providers /\ kind \in {"topup", "sub"}
    /\ row \in {"none", "pending", "success", "failed", "expired"}
    /\ request \in {"start", "insert", "link", "mark", "done"}
    /\ session \in {"none", "open", "paid", "failed", "expired"}
    /\ {acked, full, lost} \subseteq BOOLEAN
    /\ job \in [Handlers -> Job \cup {Idle}]
    /\ lock \in [Nodes -> Handlers \cup {"none"}]
    /\ \A n \in Nodes : lock[n] # "none" =>
          /\ job[lock[n]].node = n
          /\ job[lock[n]].pc \in {"check", "read", "write", "credit", "answer"}
    /\ credits \in Nat
    /\ faults \in 0 .. MaxFaults

\* On one node an order is credited at most once, by repeated notifications,
\* the administrator and handlers that crash or fail between their steps; an
\* order marked success has been credited, is about to be, or its credit was
\* lost between the two statements of EpayNotify; and an order that was
\* credited stays marked so, unless a handler of Waffo or Waffo Pancake
\* that takes no lock marks it failed.
CreditMatchesRow ==
    /\ credits <= 1
    /\ row = "success" =>
          credits = 1 \/ lost \/ \E h \in Handlers : At(h, "credit")
    /\ credits = 1 => row = "success" \/ provider \in {"waffo", "pancake"}

\* A provider told that a payment is processed does not send it again, so
\* the order is no longer waiting for it.  Epay for subscriptions, Waffo, and
\* Creem for top-ups answer so only after the transaction; the others also
\* when a statement failed, and Stripe when the subscription was refused.
AcknowledgedIsSettled ==
    acked /\ row = "pending" =>
        \/ faults > 0 /\ <<provider, kind>> \notin
                {<<"epay", "sub">>, <<"waffo", "topup">>, <<"creem", "topup">>}
        \/ full /\ provider = "stripe"

\* Handlers that close the order without its lock: what they write may be
\* overwritten, so for their providers a refusal decides nothing.
UnlockedClosers == {"waffo", "pancake"}

Claim ==
    IF credits > 0 THEN "settled"
    ELSE CASE row = "none"     -> "none"
           [] row = "success"  -> IF lost THEN "lost" ELSE "accepted"
           [] row = "pending"  -> "open"
           [] OTHER            -> IF provider \in UnlockedClosers
                                  THEN "open" ELSE "refused"

\* The order keeps the promise of Ledger: decided once, credited at most
\* once, never after it was refused (expired or failed at Stripe), and not
\* left between EpayNotify's two statements.
L == INSTANCE Ledger WITH claim <- Claim,
                          balance <- credits
LedgerSpec == L!Spec

\* A payment is credited in the end, over crashes, failed statements, lost
\* answers and competing handlers, unless the credit was lost between the
\* two statements of EpayNotify, the failure was acknowledged
\* (AcknowledgedIsSettled says whose), Waffo had reported a failure, or other
\* purchases reached the limit of the plan first.
PaidIsCredited ==
    session = "paid" ~>
        \/ credits > 0
        \/ lost \/ full
        \/ acked /\ row = "pending"
        \/ provider = "waffo" /\ row = "failed"

=============================================================================
