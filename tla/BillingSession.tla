--------------------------- MODULE BillingSession ---------------------------
(***************************************************************************)
(* The billing of one relayed request (service/billing_session.go,         *)
(* funding_source.go, billing.go, quota.go): the estimated quota is taken  *)
(* from the API token and from a funding source (wallet or subscription)   *)
(* before the request is sent, settled to the actual quota when it         *)
(* succeeds, and given back by a background goroutine when it fails.       *)
(*                                                                         *)
(* One step is one SQL statement.  users.quota and tokens.remain_quota are *)
(* only written by "SET quota = quota + n".  A subscription's amount_used  *)
(* is read and written back whole, in a transaction whose FOR UPDATE is    *)
(* the GORM v1 form that locks nothing (model/locking.go), as MySQL and    *)
(* PostgreSQL execute it.  A ledger for each of the three keeps what each  *)
(* request has taken from it, net.                                         *)
(*                                                                         *)
(* Redis and the batch updater are off: quotas are read from the tables.   *)
(* A session lives in the memory of its process and nothing reads it after *)
(* a crash: a crash is a behaviour that stops, so it has no action.        *)
(***************************************************************************)
EXTENDS Integers, Sequences

CONSTANTS
  Requests,   \* request ids, all of one user and one token
  Plans,      \* funding sources to try in turn, from the billing preference
  Kinds,      \* kinds of token: "limited", "unlimited", "playground"
  Realtime,   \* the requests that are WebSocket sessions, charged as they stream
  Estimates,  \* quotas to pre-consume
  Targets,    \* quotas Reserve may ask for
  Actuals,    \* quotas consumed in the end
  MaxUsage,   \* bound: reports of usage in a WebSocket session, before it ends
  Wallet0, Token0, Used0,  \* initial users.quota, remain_quota, amount_used
  SubTotal,   \* amount_total of the subscription, limited
  TrustQuota, \* above this balance a request is not pre-charged
  MaxErrors   \* bound: failed statements

NoRead == -1
MaxAttempts == 3  \* refundWithRetry

ASSUME QuotaAssumption ==
  /\ Plans \subseteq {<<"sub">>, <<"wallet">>, <<"wallet", "sub">>, <<"sub", "wallet">>}
  /\ Kinds \subseteq {"limited", "unlimited", "playground"}
  /\ Realtime \subseteq Requests
  /\ Estimates \subseteq Nat /\ Targets \subseteq Nat /\ Actuals \subseteq Nat
  /\ MaxUsage \in Nat
  /\ Wallet0 \in Int /\ Token0 \in Int
  /\ SubTotal \in Nat /\ Used0 \in 0..SubTotal
  /\ TrustQuota \in Nat
  /\ MaxErrors \in Nat

VARIABLES
  ses,         \* the session and the control state of each request
  quota,       \* users.quota
  remain,      \* tokens.remain_quota
  walletPaid,  \* taken from users.quota by each request
  tokenPaid,   \* taken from tokens.remain_quota by each request
  subPaid,     \* added to amount_used by each request, as committed
  subUsed,     \* amount_used of the subscription
  record,      \* subscription_pre_consume_records by request id
  errors       \* failed statements so far

userRow == <<quota, walletPaid>>
tokenRow == <<remain, tokenPaid>>
vars == <<ses, userRow, tokenRow, subPaid, subUsed, record, errors>>

Pc == {"new", "try", "token", "tokendec", "fund", "rollback", "serve",
       "reserve", "rtoken", "rtokendec", "unreserve", "stream", "streamtoken",
       "ending", "settle", "settletoken", "error", "refund", "refdelta", "refsave", "extra",
       "refundtoken", "rejected", "unsettled", "done"}
Final == {"rejected", "unsettled", "done"}

NewSession ==
  [pc |-> "new", plan |-> <<>>, kind |-> "limited", force |-> FALSE,
   tokenSeen |-> 0,   \* token_quota the auth middleware put in the context
   est |-> 0,         \* quota to pre-consume
   source |-> "none",
   hold |-> 0,        \* amount of the deduction in progress
   pre |-> 0,         \* preConsumedQuota
   token |-> 0,       \* tokenConsumed
   wallet |-> 0,      \* WalletFunding.consumed
   sub |-> 0,         \* SubscriptionFunding.preConsumed
   extra |-> 0,       \* extraReserved
   asked |-> 0,       \* history: the largest target of Reserve
   told |-> FALSE,    \* usage: reported by upstream and not cleared
   counted |-> FALSE, \* localUsage: counted here and not cleared
   ending |-> FALSE,  \* the WebSocket session is over
   usage |-> 0,       \* sumUsage: streamed usage, all of it
   streamed |-> 0,    \* streamed usage charged as it came
   actual |-> 0,
   fundingSettled |-> FALSE, settled |-> FALSE, refunded |-> FALSE,
   seen |-> NoRead,   \* amount_used as a transaction read it
   attempts |-> 0,    \* of refundWithRetry
   failed |-> FALSE]  \* a statement of this request failed

-----------------------------------------------------------------------------
Init ==
  /\ ses = [q \in Requests |-> NewSession]
  /\ quota = Wallet0
  /\ remain = Token0
  /\ walletPaid = [q \in Requests |-> 0]
  /\ tokenPaid = [q \in Requests |-> 0]
  /\ subPaid = [q \in Requests |-> 0]
  /\ subUsed = Used0
  /\ record = [q \in Requests |-> "none"]
  /\ errors = 0

At(q, p) == ses[q].pc = p
Become(q, s) == ses' = [ses EXCEPT ![q] = s]

\* A statement fails: its transaction leaves nothing behind, and the request
\* goes on as session s.
Fails(q, s) ==
  /\ errors < MaxErrors
  /\ errors' = errors + 1
  /\ Become(q, [s EXCEPT !.failed = TRUE, !.seen = NoRead])
  /\ UNCHANGED <<userRow, tokenRow, subPaid, subUsed, record>>

\* IncreaseTokenQuota (d < 0) and DecreaseTokenQuota (d > 0); ok is the session
\* afterwards.  The playground has no token to charge.
TokenDelta(q, d, ok) ==
  /\ Become(q, ok)
  /\ IF ses[q].kind = "playground" THEN UNCHANGED tokenRow
     ELSE /\ remain' = remain - d
          /\ tokenPaid' = [tokenPaid EXCEPT ![q] = @ + d]
  /\ UNCHANGED <<userRow, subPaid, subUsed, record, errors>>

\* A statement on the token fails; the playground executes none.
TokenFails(q, s) == ses[q].kind # "playground" /\ Fails(q, s)

\* Mutant: amount_total is not looked at.
WithinTotal_Unchecked(used) == TRUE

WithinTotal(used) == used <= SubTotal

\* PostConsumeUserSubscriptionDelta: read the row, then write amount_used back.
\* Past amount_total it is an error.
SubscriptionDelta(q, d, ok, err) ==
  LET s == ses[q]
      newUsed == IF s.seen + d < 0 THEN 0 ELSE s.seen + d
  IN  \/ /\ s.seen = NoRead
         /\ Become(q, [s EXCEPT !.seen = subUsed])
         /\ UNCHANGED <<subPaid, subUsed>>
      \/ /\ s.seen # NoRead
         /\ ~WithinTotal(newUsed)
         /\ Become(q, [err EXCEPT !.seen = NoRead])
         /\ UNCHANGED <<subPaid, subUsed>>
      \/ /\ s.seen # NoRead
         /\ WithinTotal(newUsed)
         /\ subUsed' = newUsed
         /\ subPaid' = [subPaid EXCEPT ![q] = @ + d]
         /\ Become(q, [ok EXCEPT !.seen = NoRead])

\* IncreaseUserQuota (d < 0) and DecreaseUserQuota (d > 0).
WalletDelta(q, d) ==
  /\ quota' = quota - d
  /\ walletPaid' = [walletPaid EXCEPT ![q] = @ + d]

\* Take d from the funding source of the request (give back if d < 0).
FundingDelta(q, d, ok, err) ==
  \/ /\ ses[q].source = "wallet"
     /\ Become(q, ok)
     /\ WalletDelta(q, d)
     /\ UNCHANGED <<tokenRow, subPaid, subUsed, record, errors>>
  \/ /\ ses[q].source = "sub"
     /\ SubscriptionDelta(q, d, ok, err)
     /\ UNCHANGED <<userRow, tokenRow, record, errors>>
  \/ Fails(q, err)

\* A step that executes no statement.
Local(q, s) ==
  /\ Become(q, s)
  /\ UNCHANGED <<userRow, tokenRow, subPaid, subUsed, record, errors>>

-----------------------------------------------------------------------------
(* NewBillingSession and preConsume.                                       *)

\* A request arrives.  The playground has no WebSocket sessions, and only the
\* submission of a task forces the hold.
Begin(q) ==
  /\ At(q, "new")
  /\ \E plan \in Plans, kind \in Kinds, force \in BOOLEAN, est \in Estimates :
       /\ kind = "playground" => q \notin Realtime
       /\ force => q \notin Realtime /\ kind # "playground"
       /\ Local(q, [ses[q] EXCEPT !.pc = "try", !.plan = plan, !.kind = kind,
                      !.force = force, !.est = est, !.tokenSeen = remain])

\* The session at p, past pre-consuming: the inputs only that reads are dropped.
Leave(s, p) ==
  [s EXCEPT !.pc = p, !.hold = 0, !.plan = <<>>, !.force = FALSE, !.tokenSeen = 0]

\* The session after the source at hand turned out insufficient.
NextSource(s) ==
  IF Len(s.plan) = 1 THEN Leave(s, "rejected") ELSE [s EXCEPT !.plan = Tail(@), !.pc = "try"]

\* shouldTrust, for the wallet.
ShouldTrust(s) ==
  /\ ~s.force
  /\ TrustQuota > 0
  /\ s.kind = "unlimited" \/ s.tokenSeen > TrustQuota
  /\ quota > TrustQuota

\* tryWallet: read the quota and refuse or go on.
TryWallet(q) ==
  LET s == ses[q]
      hold == IF ShouldTrust(s) THEN 0 ELSE s.est
  IN  /\ At(q, "try")
      /\ Head(s.plan) = "wallet"
      /\ \/ Local(q,
              IF quota <= 0 \/ quota < s.est THEN NextSource(s)
              ELSE IF hold = 0 THEN [Leave(s, "serve") EXCEPT !.source = "wallet"]
              ELSE [s EXCEPT !.source = "wallet", !.hold = hold, !.pc = "token"])
         \/ Fails(q, Leave(s, "rejected"))

\* trySubscription: at least 1 is held.
TrySubscription(q) ==
  LET s == ses[q] IN
  /\ At(q, "try")
  /\ Head(s.plan) = "sub"
  /\ Local(q, [s EXCEPT !.source = "sub", !.hold = IF s.est = 0 THEN 1 ELSE s.est,
                 !.pc = "token"])

\* PreConsumeTokenQuota, 1: the token must have enough left; used by preConsume
\* and by Reserve.
CheckToken(q) ==
  LET s == ses[q]
      refused == IF s.pc = "token" THEN Leave(s, "rejected") ELSE [s EXCEPT !.pc = "unreserve"]
      enough == s.kind # "limited" \/ remain >= s.hold
  IN  /\ s.pc \in {"token", "rtoken"}
      /\ \/ Local(q, IF enough
                     THEN [s EXCEPT !.pc = IF @ = "token" THEN "tokendec" ELSE "rtokendec"]
                     ELSE refused)
         \/ TokenFails(q, refused)

\* PreConsumeTokenQuota, 2: take it from the token.
PreConsumeToken(q) ==
  LET s == ses[q] IN
  /\ At(q, "tokendec")
  /\ \/ TokenDelta(q, s.hold, [s EXCEPT !.token = s.hold, !.pc = "fund"])
     \/ TokenFails(q, Leave(s, "rejected"))

\* WalletFunding.PreConsume.
PreConsumeWallet(q) ==
  LET s == ses[q] IN
  /\ At(q, "fund")
  /\ s.source = "wallet"
  /\ FundingDelta(q, s.hold,
       [Leave(s, "serve") EXCEPT !.wallet = s.hold, !.pre = s.hold],
       [s EXCEPT !.plan = <<>>, !.pc = "rollback"])

\* PreConsumeUserSubscription: one transaction that reads the subscription,
\* creates the record and writes amount_used back.
PreConsumeUserSubscription(q) ==
  LET s == ses[q] IN
  /\ At(q, "fund")
  /\ s.source = "sub"
  /\ \/ /\ s.seen = NoRead
        /\ Local(q, IF SubTotal - subUsed < s.hold
                    THEN [s EXCEPT !.plan = Tail(@), !.pc = "rollback"]
                    ELSE [s EXCEPT !.seen = subUsed])
     \/ /\ s.seen # NoRead
        /\ record' = [record EXCEPT ![q] = "consumed"]
        /\ subUsed' = s.seen + s.hold
        /\ subPaid' = [subPaid EXCEPT ![q] = @ + s.hold]
        /\ Become(q, [Leave(s, "serve") EXCEPT !.sub = s.hold, !.pre = s.hold,
                        !.seen = NoRead])
        /\ UNCHANGED <<userRow, tokenRow, errors>>
     \/ Fails(q, [s EXCEPT !.plan = <<>>, !.pc = "rollback"])

\* Mutant: the rollback forgets the token.
RollbackAmount_Nothing(s) == 0

\* What the token gets back when the funding source refused.
RollbackAmount(s) == s.token

\* The funding source refused: give the token back, then try the next source.
RollbackToken(q) ==
  LET s == ses[q]
      given == [s EXCEPT !.token = 0, !.hold = 0, !.source = "none"]
      after == IF s.plan = <<>> THEN Leave(given, "rejected") ELSE [given EXCEPT !.pc = "try"]
  IN  /\ At(q, "rollback")
      /\ TokenDelta(q, -RollbackAmount(s), after) \/ TokenFails(q, after)

-----------------------------------------------------------------------------
(* While the request is served.                                            *)

\* Mutant: a target below the hold lowers it.
Grows_Always(s, target) == target # s.pre

Grows(s, target) == target > s.pre

\* Reserve: raise the hold to a target before an expensive upstream call.
Reserve(q) ==
  LET s == ses[q] IN
  /\ At(q, "serve")
  /\ q \notin Realtime
  /\ \E target \in Targets :
       /\ Grows(s, target)
       /\ Local(q, [s EXCEPT !.hold = target - s.pre, !.asked = target, !.pc = "reserve"])

ReserveFunding(q) ==
  LET s == ses[q] IN
  /\ At(q, "reserve")
  /\ FundingDelta(q, s.hold,
       [s EXCEPT !.wallet = IF s.source = "wallet" THEN @ + s.hold ELSE @,
          !.pc = "rtoken"],
       [s EXCEPT !.hold = 0, !.pc = "error"])

ReserveToken(q) ==
  LET s == ses[q] IN
  /\ At(q, "rtokendec")
  /\ \/ TokenDelta(q, s.hold,
          [s EXCEPT !.pre = @ + s.hold, !.token = @ + s.hold, !.extra = @ + s.hold,
             !.hold = 0, !.pc = "serve"])
     \/ TokenFails(q, [s EXCEPT !.pc = "unreserve"])

\* rollbackFundingReserve; the failed reservation fails the request.
RollbackFundingReserve(q) ==
  LET s == ses[q] IN
  /\ At(q, "unreserve")
  /\ FundingDelta(q, -s.hold,
       [s EXCEPT !.wallet = IF s.source = "wallet" THEN @ - s.hold ELSE @,
          !.hold = 0, !.pc = "error"],
       [s EXCEPT !.hold = 0, !.pc = "error"])

(* OpenaiRealtimeHandler: the usage of a WebSocket session is charged as it *)
(* is reported, one unit at a time, and cleared once it is charged.  What is *)
(* not cleared when the session ends is charged again.                       *)

\* The sessions that may follow a charge.  When a connection is closed during
\* the charge the session ends and finds the usage not cleared yet (the two
\* goroutines do not synchronise; the end is taken to follow the charge).
Charged(s) ==
  IF s.ending THEN {[s EXCEPT !.pc = "ending"]}
  ELSE {[s EXCEPT !.told = FALSE, !.counted = FALSE, !.pc = "serve"],
        [s EXCEPT !.ending = TRUE, !.pc = "ending"]}

\* The session after a charge failed: it ends, the usage is not cleared.
NotCharged(s) == [s EXCEPT !.ending = TRUE, !.pc = "ending"]

\* preConsumeUsage and PreWssConsumeQuota: the usage is added to the total, then
\* the balance and the token must cover it.  relayInfo.UsePrice, which would end
\* the latter at once, is set nowhere.
PreWssConsumeQuota(q, t) ==
  LET s == [t EXCEPT !.usage = @ + 1]
      covered == quota >= 1 /\ (s.kind # "limited" \/ remain >= 1)
  IN  \/ Local(q, IF covered THEN [s EXCEPT !.pc = "stream"] ELSE NotCharged(s))
      \/ Fails(q, NotCharged(s))

\* response.done, with upstream's usage or without.  The messages before it were
\* counted here if there were any; the count is read only now.
ResponseDone(q) ==
  /\ At(q, "serve")
  /\ q \in Realtime
  /\ ses[q].usage < MaxUsage
  /\ \E told, counted \in BOOLEAN :
       /\ told \/ counted
       /\ PreWssConsumeQuota(q, [ses[q] EXCEPT !.told = told, !.counted = counted])

\* PostConsumeQuota, called by PreWssConsumeQuota.
StreamFunding(q) ==
  LET s == ses[q] IN
  /\ At(q, "stream")
  /\ FundingDelta(q, 1, [s EXCEPT !.streamed = @ + 1, !.pc = "streamtoken"], NotCharged(s))

StreamToken(q) ==
  LET s == ses[q] IN
  /\ At(q, "streamtoken")
  /\ \/ \E after \in Charged(s) : TokenDelta(q, 1, after)
     \/ TokenFails(q, NotCharged(s))

\* A connection is closed, with messages counted since the last response or not.
EndSession(q) ==
  /\ At(q, "serve")
  /\ q \in Realtime
  /\ \E counted \in BOOLEAN :
       Local(q, [ses[q] EXCEPT !.counted = counted, !.ending = TRUE, !.pc = "ending"])

\* What is not cleared is charged, whether that fails or not; then the session
\* is settled to its total.  A model that has a fixed price is settled to
\* nothing: PostWssConsumeQuota does not hand the price on.
LastUsage(q) ==
  LET s == ses[q] IN
  /\ At(q, "ending")
  /\ \/ s.told /\ PreWssConsumeQuota(q, [s EXCEPT !.told = FALSE])
     \/ ~s.told /\ s.counted /\ PreWssConsumeQuota(q, [s EXCEPT !.counted = FALSE])
     \/ /\ ~s.told /\ ~s.counted
        /\ \E a \in {0, s.usage} :
             Local(q, [s EXCEPT !.actual = a, !.ending = FALSE, !.pc = "settle"])

-----------------------------------------------------------------------------
(* Settle.                                                                 *)

\* The request succeeded; its quota is computed from the usage.
Succeed(q) ==
  /\ At(q, "serve")
  /\ q \notin Realtime
  /\ \E a \in Actuals : Local(q, [ses[q] EXCEPT !.actual = a, !.pc = "settle"])

\* Mutants: the whole quota instead of the difference; the difference the wrong
\* way round.
SettleDelta_Whole(s) == s.actual
SettleDelta_Reversed(s) == s.pre - s.actual

SettleDelta(s) == s.actual - s.pre

SettleFunding(q) ==
  LET s == ses[q] IN
  /\ At(q, "settle")
  /\ IF s.actual = s.pre
     THEN Local(q, [s EXCEPT !.settled = TRUE, !.pc = "done"])
     ELSE FundingDelta(q, SettleDelta(s),
            [s EXCEPT !.fundingSettled = TRUE, !.pc = "settletoken"],
            [s EXCEPT !.pc = "unsettled"])

SettleToken(q) ==
  LET s == ses[q]
      after == [s EXCEPT !.settled = TRUE, !.pc = "done"]
  IN  /\ At(q, "settletoken")
      /\ TokenDelta(q, SettleDelta(s), after) \/ TokenFails(q, after)

-----------------------------------------------------------------------------
(* Refund.                                                                 *)

\* Upstream failed on every channel tried.  A WebSocket session that has begun
\* ends by being settled.
UpstreamError(q) ==
  /\ At(q, "serve")
  /\ q \in Realtime => ses[q].usage = 0
  /\ Local(q, [ses[q] EXCEPT !.pc = "error"])

NeedsRefund(s) ==
  ~s.settled /\ ~s.refunded /\ ~s.fundingSettled /\ (s.token > 0 \/ s.sub > 0)

Refund(q) ==
  LET s == ses[q] IN
  /\ At(q, "error")
  /\ Local(q, IF NeedsRefund(s) THEN [s EXCEPT !.refunded = TRUE, !.pc = "refund"]
              ELSE [s EXCEPT !.pc = "done"])

\* Mutant: only what preConsume took, not what Reserve added.
WalletRefund_Estimate(s) == s.pre - s.extra

WalletRefund(s) == s.wallet

\* WalletFunding.Refund; not retried.
RefundWallet(q) ==
  LET s == ses[q]
      after == [s EXCEPT !.pc = "refundtoken"]
  IN  /\ At(q, "refund")
      /\ s.source = "wallet"
      /\ IF s.wallet > 0 THEN FundingDelta(q, -WalletRefund(s), after, after)
         ELSE Local(q, after)

\* The session after an attempt of refundWithRetry failed.
Retry(s) ==
  [s EXCEPT !.attempts = @ + 1, !.pc = IF s.attempts + 1 < MaxAttempts THEN "refund" ELSE "extra"]

\* RefundSubscriptionPreConsume: read the record; give its amount back in a
\* transaction of its own; mark the record.
RefundSubscriptionPreConsume(q) ==
  LET s == ses[q] IN
  /\ s.source = "sub"
  /\ \/ /\ At(q, "refund")
        /\ \/ Local(q, [s EXCEPT !.pc = IF record[q] = "refunded" THEN "extra" ELSE "refdelta"])
           \/ Fails(q, Retry(s))
     \/ /\ At(q, "refdelta")
        /\ FundingDelta(q, -s.sub, [s EXCEPT !.pc = "refsave"], Retry(s))
     \/ /\ At(q, "refsave")
        /\ \/ /\ record' = [record EXCEPT ![q] = "refunded"]
              /\ Become(q, [s EXCEPT !.pc = "extra"])
              /\ UNCHANGED <<userRow, tokenRow, subPaid, subUsed, errors>>
           \/ Fails(q, Retry(s))

\* What Reserve added to the subscription goes back on its own.
RefundExtra(q) ==
  LET s == ses[q]
      after == [s EXCEPT !.pc = "refundtoken"]
  IN  /\ At(q, "extra")
      /\ IF s.extra > 0 THEN FundingDelta(q, -s.extra, after, after) ELSE Local(q, after)

\* Mutant: the token gets back what is recorded as pre-consumed for the funding.
TokenRefund_Estimate(s) == s.est

TokenRefund(s) == s.token

RefundToken(q) ==
  LET s == ses[q]
      after == [s EXCEPT !.pc = "done"]
  IN  /\ At(q, "refundtoken")
      /\ IF s.token > 0 THEN TokenDelta(q, -TokenRefund(s), after) \/ TokenFails(q, after)
         ELSE Local(q, after)

-----------------------------------------------------------------------------
PreConsume(q) ==
  \/ TryWallet(q) \/ TrySubscription(q) \/ CheckToken(q) \/ PreConsumeToken(q)
  \/ PreConsumeWallet(q) \/ PreConsumeUserSubscription(q) \/ RollbackToken(q)

Serve(q) ==
  \/ Reserve(q) \/ ReserveFunding(q) \/ ReserveToken(q) \/ RollbackFundingReserve(q)
  \/ ResponseDone(q) \/ StreamFunding(q) \/ StreamToken(q)
  \/ EndSession(q) \/ LastUsage(q)
  \/ Succeed(q) \/ UpstreamError(q)

Settle(q) == SettleFunding(q) \/ SettleToken(q)

GiveBack(q) ==
  \/ Refund(q) \/ RefundWallet(q) \/ RefundSubscriptionPreConsume(q)
  \/ RefundExtra(q) \/ RefundToken(q)

Next == \E q \in Requests :
  Begin(q) \/ PreConsume(q) \/ Serve(q) \/ Settle(q) \/ GiveBack(q)

Spec == Init /\ [][Next]_vars

\* A request that a live process works on goes on; upstream calls time out.
Fairness == \A q \in Requests :
  WF_vars(PreConsume(q) \/ Serve(q) \/ Settle(q) \/ GiveBack(q))
FairSpec == Spec /\ Fairness

-----------------------------------------------------------------------------
Session ==
  [pc : Pc, plan : Plans \cup {Tail(p) : p \in Plans} \cup {<<>>},
   kind : Kinds \cup {"limited"}, force : BOOLEAN, tokenSeen : Int,
   est : Nat, source : {"none", "wallet", "sub"}, hold : Nat, pre : Nat,
   token : Nat, wallet : Int, sub : Nat, extra : Nat, asked : Nat,
   told : BOOLEAN, counted : BOOLEAN, ending : BOOLEAN, usage : Nat, streamed : Nat,
   actual : Nat, fundingSettled : BOOLEAN, settled : BOOLEAN, refunded : BOOLEAN,
   seen : Int, attempts : Nat, failed : BOOLEAN]

\* Holds, deductions and what is pre-consumed are never negative amounts, and a
\* request never works with a source it was not asked to try.
TypeOK ==
  /\ ses \in [Requests -> Session]
  /\ quota \in Int /\ remain \in Int
  /\ walletPaid \in [Requests -> Int]
  /\ tokenPaid \in [Requests -> Int]
  /\ subPaid \in [Requests -> Int]
  /\ subUsed \in Int
  /\ record \in [Requests -> {"none", "consumed", "refunded"}]
  /\ errors \in 0..MaxErrors

Spent(q) == walletPaid[q] + subPaid[q]

\* What a finished request owes: its actual quota once settled, what was held
\* if the subscription could not cover the rest, nothing if it failed.  Streamed
\* usage was charged on top.
Due(s) ==
  s.streamed + (IF s.settled THEN s.actual ELSE IF s.pc = "unsettled" THEN s.pre ELSE 0)

\* When a request is over and none of its statements failed, wallet and
\* subscription together have paid what it owes: a fallback from one source to
\* the other leaves nothing behind, a reservation is refunded with the rest, a
\* trusted request pays in full.
FinalExact ==
  \A q \in Requests :
    ses[q].pc \in Final /\ ~ses[q].failed => Spent(q) = Due(ses[q])

\* The token has paid the same.
TokenExact ==
  \A q \in Requests :
    ses[q].pc \in Final /\ ~ses[q].failed /\ ses[q].kind # "playground"
    => tokenPaid[q] = Due(ses[q])

\* Nobody gets back more than was taken, whatever statement fails, and at every point
\* where the process may die.
NeverCredited ==
  \A q \in Requests : walletPaid[q] >= 0 /\ tokenPaid[q] >= 0

\* What preConsume asks the source for: a subscription holds at least 1.
Estimate(s) == IF s.source = "sub" /\ s.est = 0 THEN 1 ELSE s.est

\* Whatever fails, wallet and subscription together never pay more for a request
\* than the largest of what this request was estimated, what was reserved for it
\* and what it was found to use, plus the streamed usage that was charged as it
\* came: no retry, rollback that fails or change of source charges it again.
NeverOvercharged ==
  \A q \in Requests :
    \E x \in {Estimate(ses[q]), ses[q].asked, ses[q].actual} :
      Spent(q) <= ses[q].streamed + x

\* amount_used stays within amount_total although the row is not locked.
SubWithinTotal == subUsed \in 0..SubTotal

\* A failed request gives back what it held in the end, unless a statement
\* fails.
HoldReturned ==
  \A q \in Requests :
    At(q, "error") ~> ses[q].failed \/ (Spent(q) = 0 /\ tokenPaid[q] = 0)

\* "RefundSubscriptionPreConsume is idempotent": repeating it gives nothing back
\* twice.
RefundIdempotent == \A q \in Requests : subPaid[q] >= 0

=============================================================================
