------------------------ MODULE BillingSessionProofs ------------------------
(***************************************************************************)
(* Proofs about BillingSession for any requests, quotas, prices and        *)
(* failures: a request that is over has paid what it owes, from the        *)
(* funding source and from the token, nobody is credited or overcharged    *)
(* wherever a statement fails, and amount_used stays within its total.     *)
(*                                                                         *)
(* The ledgers are known exactly at every statement, as a function of      *)
(* where the request is and of what its session remembers: that is the     *)
(* inductive invariant.  Requests only meet in the subscription row.       *)
(***************************************************************************)
EXTENDS BillingSession, TLAPS

\* Before the request is served nothing is held for it.
Before == {"new", "try", "token", "tokendec", "fund", "rollback", "rejected"}
\* The hold is what the session says it is.
Held == {"serve", "reserve", "stream", "streamtoken", "ending", "settle", "unsettled"}
\* Reserve has taken from the funding source, and not yet from the token.
Reserving == {"rtoken", "rtokendec", "unreserve"}
Refunding == {"refund", "refdelta", "refsave", "extra", "refundtoken"}

\* The amount_used a transaction read is within the total, and leaves room for
\* what PreConsumeUserSubscription is about to add.
SeenInv(q) ==
  LET s == ses[q]
  IN  /\ s.seen \in {NoRead} \cup 0..SubTotal
      /\ s.pc \in Before \ {"fund"} => s.seen = NoRead
      /\ s.pc = "fund" /\ s.seen # NoRead => s.seen + s.hold <= SubTotal

\* Where the flags of the session and of the record may be set, and which
\* requests stream.
FlagInv(q) ==
  LET s == ses[q]
  IN  /\ s.settled => s.pc = "done"
      /\ s.fundingSettled => s.pc \in {"settletoken", "done"}
      /\ s.refunded => s.pc \in Refunding \cup {"done"}
      /\ record[q] = "refunded" => s.pc \in {"extra", "refundtoken", "done"}
      /\ s.pc \in {"try", "token", "tokendec", "fund"} => s.plan # <<>>
      /\ s.pc \in {"new", "try"} => s.source = "none"
      /\ s.pc \notin {"new", "try", "rejected"} => s.source # "none"
      /\ s.pc \in {"refdelta", "refsave", "extra"} => s.source = "sub"
      /\ s.streamed <= s.usage
      /\ s.pc = "stream" => s.streamed + 1 <= s.usage
      /\ q \notin Realtime => s.usage = 0
      /\ s.pc \in {"stream", "streamtoken", "ending"} => q \in Realtime
      /\ s.pc \in Before \cup Reserving \cup Refunding \cup {"error", "reserve"} => s.streamed = 0
      /\ s.pc \in Before => s.usage = 0
      /\ s.pc = "done" /\ ~s.settled => s.streamed = 0

\* What the session remembers of its hold.
HoldInv(q) ==
  LET s == ses[q]
  IN  /\ s.pc \in Before =>
           s.pre = 0 /\ s.wallet = 0 /\ s.sub = 0 /\ s.extra = 0
      /\ s.pc \in {"new", "try", "token", "tokendec", "rejected"} => s.token = 0
      /\ s.pc \in {"fund", "rollback"} => s.token = s.hold
      /\ s.pc \notin Before => s.token = s.pre
      /\ s.source # "sub" => s.sub = 0
      /\ s.source = "sub" => s.wallet = 0
      /\ s.source = "sub" /\ s.pc \notin Before => s.sub + s.extra = s.pre
      /\ s.source = "wallet" /\ s.pc \in Held => s.wallet = s.pre
      /\ s.source = "wallet" /\ s.pc \in Reserving => s.wallet = s.pre + s.hold
      /\ s.wallet >= 0
      /\ s.pre <= Estimate(s) \/ s.pre <= s.asked
      /\ s.pc \in {"token", "tokendec", "fund"} => s.hold = Estimate(s)
      /\ s.pc \in Reserving \cup {"reserve"} => s.pre + s.hold = s.asked

\* What has been taken from the funding source.
FundInv(q) ==
  LET s == ses[q]
  IN  /\ s.source # "sub" => subPaid[q] = 0
      /\ s.source # "wallet" => walletPaid[q] = 0
      /\ walletPaid[q] >= 0
      /\ s.pc \in Before => Spent(q) = 0
      /\ s.pc \in Held => Spent(q) = s.pre + s.streamed
      /\ s.pc \in Reserving => Spent(q) = s.pre + s.hold
      /\ s.source = "wallet" /\ s.pc \in {"error", "refund"} => walletPaid[q] = s.wallet
      /\ s.pc \in {"error", "refund", "refdelta"} /\ ~s.failed => Spent(q) = s.pre
      /\ s.pc \in {"refsave", "extra"} /\ ~s.failed => Spent(q) = s.extra
      /\ s.pc = "refundtoken" /\ ~s.failed => Spent(q) = 0
      /\ s.pc = "settletoken" \/ s.settled => Spent(q) = s.streamed + s.actual
      /\ s.pc = "done" /\ ~s.settled /\ ~s.failed => Spent(q) = 0

\* What has been taken from the token.
TokenInv(q) ==
  LET s == ses[q]
  IN  /\ tokenPaid[q] >= 0
      /\ s.kind = "playground" \/ s.pc = "new" => tokenPaid[q] = 0
      /\ s.kind # "playground" =>
           /\ s.pc \notin {"rejected", "done"} => tokenPaid[q] >= s.token
           /\ ~s.failed =>
                /\ s.pc \notin {"streamtoken", "done"} => tokenPaid[q] = s.token + s.streamed
                /\ s.pc = "streamtoken" => tokenPaid[q] = s.token + s.streamed - 1
                /\ s.pc = "done" => tokenPaid[q] = Due(s)

\* No ledger is ahead of the largest quota this request was given.
CapInv(q) ==
  \E x \in {Estimate(ses[q]), ses[q].asked, ses[q].actual} :
    Spent(q) <= ses[q].streamed + x

RequestInv(q) ==
  SeenInv(q) /\ FlagInv(q) /\ HoldInv(q) /\ FundInv(q) /\ TokenInv(q) /\ CapInv(q)
IInv == TypeOK /\ SubWithinTotal /\ \A q \in Requests : RequestInv(q)

-----------------------------------------------------------------------------
(* What the statements do *)

\* The step is one of request q: the ledgers of the others stay, and the
\* subscription stays within its total.
Frame(q) ==
  /\ TypeOK' /\ SubWithinTotal'
  /\ \A r \in Requests \ {q} :
       /\ ses'[r] = ses[r] /\ record'[r] = record[r]
       /\ walletPaid'[r] = walletPaid[r] /\ tokenPaid'[r] = tokenPaid[r]
       /\ subPaid'[r] = subPaid[r]

\* q goes on as session t, having taken w from the wallet, u from the
\* subscription and k from the token.
Goes(q, t, w, u, k) ==
  /\ Frame(q)
  /\ ses'[q] = t /\ record'[q] = record[q]
  /\ walletPaid'[q] = walletPaid[q] + w
  /\ subPaid'[q] = subPaid[q] + u
  /\ tokenPaid'[q] = tokenPaid[q] + k

Failed(s) == [s EXCEPT !.failed = TRUE, !.seen = NoRead]
Closed(s) == [s EXCEPT !.seen = NoRead]

LEMMA ClosedType ==
  ASSUME NEW s \in Session
  PROVE  Failed(s) \in Session /\ Closed(s) \in Session
<1>1. NoRead \in Int
  BY DEF NoRead
<1>2. Failed(s) \in Session
  BY <1>1 DEF Failed, Session
<1>3. Closed(s) \in Session
  BY <1>1 DEF Closed, Session
<1> QED
  BY <1>2, <1>3

LEMMA LocalFacts ==
  ASSUME TypeOK, SubWithinTotal, NEW q \in Requests, NEW t \in Session, Local(q, t)
  PROVE  Goes(q, t, 0, 0, 0)
BY DEF Local, Become, userRow, tokenRow, Goes, Frame, TypeOK, SubWithinTotal

LEMMA FailsFacts ==
  ASSUME TypeOK, SubWithinTotal, NEW q \in Requests, NEW t \in Session, Fails(q, t)
  PROVE  Goes(q, Failed(t), 0, 0, 0)
<1>1. Failed(t) \in Session
  BY ClosedType
<1>2. errors' \in 0..MaxErrors
  BY QuotaAssumption DEF Fails, TypeOK
<1>3. Become(q, Failed(t))
  BY DEF Fails, Failed
<1> QED
  BY <1>1, <1>2, <1>3 DEF Fails, Become, userRow, tokenRow, Goes, Frame, TypeOK, SubWithinTotal

LEMMA TokenDeltaFacts ==
  ASSUME TypeOK, SubWithinTotal, NEW q \in Requests, NEW t \in Session, NEW d \in Int,
         TokenDelta(q, d, t)
  PROVE  Goes(q, t, 0, 0, IF ses[q].kind = "playground" THEN 0 ELSE d)
<1>1. CASE ses[q].kind = "playground"
  BY <1>1 DEF TokenDelta, Become, userRow, tokenRow, Goes, Frame, TypeOK, SubWithinTotal
<1>2. CASE ses[q].kind # "playground"
  BY <1>2 DEF TokenDelta, Become, userRow, tokenRow, Goes, Frame, TypeOK, SubWithinTotal
<1> QED
  BY <1>1, <1>2

\* The transaction on the subscription has read its row.
Reads(q) ==
  /\ ses[q].source = "sub" /\ ses[q].seen = NoRead
  /\ Goes(q, [ses[q] EXCEPT !.seen = subUsed], 0, 0, 0)

\* How a delta of the funding source ends.
LEMMA FundingFacts ==
  ASSUME TypeOK, SubWithinTotal, NEW q \in Requests, SeenInv(q),
         NEW ok \in Session, NEW err \in Session, NEW d \in Int,
         FundingDelta(q, d, ok, err)
  PROVE  \/ ses[q].source = "wallet" /\ Goes(q, ok, d, 0, 0)
         \/ Reads(q)
         \/ ses[q].source = "sub" /\ d > 0 /\ Goes(q, Closed(err), 0, 0, 0)
         \/ ses[q].source = "sub" /\ Goes(q, Closed(ok), 0, d, 0)
         \/ Goes(q, Failed(err), 0, 0, 0)
<1> DEFINE s == ses[q]
           newUsed == IF s.seen + d < 0 THEN 0 ELSE s.seen + d
<1>1. Closed(ok) \in Session /\ Closed(err) \in Session /\ s \in Session
  BY ClosedType DEF TypeOK
<1>2. SubTotal \in Nat /\ s.seen \in Int /\ (s.seen # NoRead => s.seen \in 0..SubTotal)
  BY <1>1, QuotaAssumption DEF SeenInv, Session
<1>3. CASE s.source = "wallet" /\ Become(q, ok) /\ WalletDelta(q, d)
             /\ UNCHANGED <<tokenRow, subPaid, subUsed, record, errors>>
  BY <1>3 DEF WalletDelta, Become, tokenRow, Goes, Frame, TypeOK, SubWithinTotal
<1>4. CASE s.source = "sub" /\ SubscriptionDelta(q, d, ok, err)
             /\ UNCHANGED <<userRow, tokenRow, record, errors>>
  <2>1. CASE s.seen = NoRead /\ Become(q, [s EXCEPT !.seen = subUsed]) /\ UNCHANGED <<subPaid, subUsed>>
    <3>1. [s EXCEPT !.seen = subUsed] \in Session
      BY <1>1 DEF Session, TypeOK
    <3> QED
      BY <1>4, <2>1, <3>1 DEF Become, userRow, tokenRow, Reads, Goes, Frame, TypeOK, SubWithinTotal
  <2>2. CASE s.seen # NoRead /\ ~WithinTotal(newUsed) /\ Become(q, Closed(err))
               /\ UNCHANGED <<subPaid, subUsed>>
    <3>1. d > 0
      BY <1>2, <2>2 DEF WithinTotal
    <3> QED
      BY <1>1, <1>4, <2>2, <3>1 DEF Become, userRow, tokenRow, Goes, Frame, TypeOK, SubWithinTotal
  <2>3. CASE s.seen # NoRead /\ WithinTotal(newUsed) /\ subUsed' = newUsed
               /\ subPaid' = [subPaid EXCEPT ![q] = @ + d] /\ Become(q, Closed(ok))
    <3>1. subUsed' \in 0..SubTotal
      BY <1>2, <2>3 DEF WithinTotal
    <3> QED
      BY <1>1, <1>4, <2>3, <3>1 DEF Become, userRow, tokenRow, Goes, Frame, TypeOK, SubWithinTotal
  <2> QED
    BY <1>4, <2>1, <2>2, <2>3 DEF SubscriptionDelta, Closed
<1>5. CASE Fails(q, err)
  BY <1>5, FailsFacts
<1> QED
  BY <1>3, <1>4, <1>5 DEF FundingDelta

\* t with another reading of the subscription and another failure mark.
Marked(t, seen, failed) == [t EXCEPT !.seen = seen, !.failed = failed]

\* q goes on as t, except that it may have closed its transaction or noted a
\* failure.
Becomes(q, t) ==
  /\ Frame(q)
  /\ ses'[q] = Marked(t, ses'[q].seen, ses'[q].failed)
  /\ ses'[q].seen \in {NoRead, t.seen}
  /\ record'[q] = record[q] /\ tokenPaid'[q] = tokenPaid[q]

\* q goes on as t, its record says r, and u was added to the subscription.
Records(q, t, r, u) ==
  /\ Frame(q)
  /\ ses'[q] = t /\ record'[q] = r
  /\ walletPaid'[q] = walletPaid[q] /\ subPaid'[q] = subPaid[q] + u
  /\ tokenPaid'[q] = tokenPaid[q]

\* The funding source has paid d.
Took(q, t, d) ==
  /\ Becomes(q, t)
  /\ ses'[q].failed = t.failed
  /\ \/ /\ ses[q].source = "wallet"
        /\ walletPaid'[q] = walletPaid[q] + d /\ subPaid'[q] = subPaid[q]
     \/ /\ ses[q].source = "sub"
        /\ walletPaid'[q] = walletPaid[q] /\ subPaid'[q] = subPaid[q] + d

\* It has not: the statement failed, or d would take it past its total.
Refuses(q, t, d) ==
  /\ Becomes(q, t)
  /\ ses'[q].failed \/ (d > 0 /\ ses'[q].failed = t.failed)
  /\ walletPaid'[q] = walletPaid[q] /\ subPaid'[q] = subPaid[q]

\* A refusal of nothing is a failed statement.
LEMMA NotPositive == ~(0 > 0)
  BY SMT

LEMMA SameBut ==
  ASSUME NEW t \in Session
  PROVE  /\ t = Marked(t, t.seen, t.failed)
         /\ Closed(t) = Marked(t, Closed(t).seen, Closed(t).failed)
         /\ Closed(t).seen = NoRead /\ Closed(t).failed = t.failed
         /\ Failed(t) = Marked(t, Failed(t).seen, Failed(t).failed)
         /\ Failed(t).seen = NoRead /\ Failed(t).failed
BY DEF Session, Closed, Failed, Marked

LEMMA FundingEnds ==
  ASSUME TypeOK, SubWithinTotal, NEW q \in Requests, SeenInv(q),
         NEW ok \in Session, NEW err \in Session, NEW d \in Int,
         FundingDelta(q, d, ok, err)
  PROVE  Took(q, ok, d) \/ Reads(q) \/ Refuses(q, err, d)
<1>1. walletPaid[q] \in Int /\ subPaid[q] \in Int /\ tokenPaid[q] \in Int
  BY DEF TypeOK
<1>3. CASE ses[q].source = "wallet" /\ Goes(q, ok, d, 0, 0)
  <2>1. ok = Marked(ok, ok.seen, ok.failed) /\ ok.seen \in {NoRead, ok.seen}
    BY SameBut
  <2>2. /\ Frame(q) /\ ses'[q] = ok /\ record'[q] = record[q] /\ tokenPaid'[q] = tokenPaid[q]
        /\ walletPaid'[q] = walletPaid[q] + d /\ subPaid'[q] = subPaid[q]
    BY <1>1, <1>3 DEF Goes
  <2>3. Becomes(q, ok)
    BY <2>1, <2>2 DEF Becomes
  <2>4. Took(q, ok, d)
    BY <1>3, <2>2, <2>3, SameBut DEF Took
  <2> QED
    BY <2>4
<1>4. CASE ses[q].source = "sub" /\ d > 0 /\ Goes(q, Closed(err), 0, 0, 0)
  <2>1. Closed(err) = Marked(err, Closed(err).seen, Closed(err).failed) /\ Closed(err).seen \in {NoRead, err.seen}
    BY SameBut
  <2>2. /\ Frame(q) /\ ses'[q] = Closed(err) /\ record'[q] = record[q] /\ tokenPaid'[q] = tokenPaid[q]
        /\ walletPaid'[q] = walletPaid[q] /\ subPaid'[q] = subPaid[q]
    BY <1>1, <1>4 DEF Goes
  <2>3. Becomes(q, err)
    BY <2>1, <2>2 DEF Becomes
  <2>4. Refuses(q, err, d)
    BY <1>4, <2>2, <2>3, SameBut DEF Refuses
  <2> QED
    BY <2>4
<1>5. CASE ses[q].source = "sub" /\ Goes(q, Closed(ok), 0, d, 0)
  <2>1. Closed(ok) = Marked(ok, Closed(ok).seen, Closed(ok).failed) /\ Closed(ok).seen \in {NoRead, ok.seen}
    BY SameBut
  <2>2. /\ Frame(q) /\ ses'[q] = Closed(ok) /\ record'[q] = record[q] /\ tokenPaid'[q] = tokenPaid[q]
        /\ walletPaid'[q] = walletPaid[q] /\ subPaid'[q] = subPaid[q] + d
    BY <1>1, <1>5 DEF Goes
  <2>3. Becomes(q, ok)
    BY <2>1, <2>2 DEF Becomes
  <2>4. Took(q, ok, d)
    BY <1>5, <2>2, <2>3, SameBut DEF Took
  <2> QED
    BY <2>4
<1>6. CASE Goes(q, Failed(err), 0, 0, 0)
  <2>1. Failed(err) = Marked(err, Failed(err).seen, Failed(err).failed) /\ Failed(err).seen \in {NoRead, err.seen}
    BY SameBut
  <2>2. /\ Frame(q) /\ ses'[q] = Failed(err) /\ record'[q] = record[q] /\ tokenPaid'[q] = tokenPaid[q]
        /\ walletPaid'[q] = walletPaid[q] /\ subPaid'[q] = subPaid[q]
    BY <1>1, <1>6 DEF Goes
  <2>3. Becomes(q, err)
    BY <2>1, <2>2 DEF Becomes
  <2>4. Refuses(q, err, d)
    BY <1>6, <2>2, <2>3, SameBut DEF Refuses
  <2> QED
    BY <2>4
<1> QED
  BY <1>3, <1>4, <1>5, <1>6, FundingFacts

LEMMA FailsRefuses ==
  ASSUME TypeOK, SubWithinTotal, NEW q \in Requests, NEW t \in Session, Fails(q, t)
  PROVE  Refuses(q, t, 0)
<1>1. walletPaid[q] \in Int /\ subPaid[q] \in Int /\ tokenPaid[q] \in Int
  BY DEF TypeOK
<1>2. Failed(t) = Marked(t, Failed(t).seen, Failed(t).failed) /\ Failed(t).seen = NoRead
  BY SameBut
<1>3. /\ Frame(q) /\ ses'[q] = Failed(t) /\ record'[q] = record[q] /\ tokenPaid'[q] = tokenPaid[q]
      /\ walletPaid'[q] = walletPaid[q] /\ subPaid'[q] = subPaid[q]
  BY <1>1, FailsFacts DEF Goes
<1>4. Becomes(q, t)
  BY <1>2, <1>3 DEF Becomes
<1> QED
  BY <1>3, <1>4, SameBut DEF Refuses

-----------------------------------------------------------------------------
(* Facts the steps share *)

\* Reading the row changes nothing the invariant speaks of.
LEMMA ReadKeeps ==
  ASSUME TypeOK, SubWithinTotal, NEW q \in Requests, RequestInv(q), Reads(q),
         ses[q].pc \notin Before
  PROVE  RequestInv(q)'
<1> DEFINE s == ses[q]
<1>1. s \in Session /\ subUsed \in 0..SubTotal /\ subUsed \in Int
  BY DEF TypeOK, SubWithinTotal
<1>2. /\ ses'[q] = [s EXCEPT !.seen = subUsed] /\ record'[q] = record[q]
      /\ walletPaid'[q] = walletPaid[q] /\ subPaid'[q] = subPaid[q] /\ tokenPaid'[q] = tokenPaid[q]
  BY DEF Reads, Goes, TypeOK
<1>3. SeenInv(q)'
  BY <1>1, <1>2 DEF SeenInv, Session, Before
<1>4. FlagInv(q)'
  BY <1>1, <1>2 DEF RequestInv, FlagInv, Session
<1>5. HoldInv(q)'
  BY <1>1, <1>2 DEF RequestInv, HoldInv, Estimate, Session
<1>6. FundInv(q)'
  BY <1>1, <1>2 DEF RequestInv, FundInv, Spent, Session
<1>7. TokenInv(q)'
  BY <1>1, <1>2 DEF RequestInv, TokenInv, Due, Session
<1>8. CapInv(q)'
  BY <1>1, <1>2 DEF RequestInv, CapInv, Estimate, Spent, Session
<1> QED
  BY <1>3, <1>4, <1>5, <1>6, <1>7, <1>8 DEF RequestInv

LEMMA Typed ==
  ASSUME TypeOK, NEW q \in Requests
  PROVE  /\ ses[q] \in Session /\ walletPaid[q] \in Int /\ subPaid[q] \in Int
         /\ tokenPaid[q] \in Int
BY DEF TypeOK

\* Where the ledger is known, CapInv follows from it.
LEMMA CapHere ==
  ASSUME NEW q \in Requests, TypeOK', FlagInv(q)', HoldInv(q)', FundInv(q)',
         \/ ses'[q].pc \in Before \cup Held \cup Reserving \cup {"settletoken"}
         \/ ses'[q].settled
  PROVE  CapInv(q)'
<1> DEFINE t == ses'[q]
<1>1. t \in Session /\ walletPaid'[q] \in Int /\ subPaid'[q] \in Int
  BY DEF TypeOK
<1>2. /\ t.streamed \in Nat /\ t.actual \in Nat /\ t.pre \in Nat /\ t.hold \in Nat
      /\ t.est \in Nat /\ t.asked \in Nat
  BY <1>1 DEF Session
<1>3. CASE t.pc \in Before
  <2>1. Spent(q)' <= t.streamed + t.actual
    BY <1>2, <1>3 DEF FlagInv, FundInv
  <2> QED
    BY <2>1 DEF CapInv
<1>4. CASE t.pc \in Held
  <2>1. Spent(q)' = t.streamed + t.pre /\ (t.pre <= Estimate(t) \/ t.pre <= t.asked)
    BY <1>2, <1>4 DEF HoldInv, FundInv
  <2>2. Spent(q)' <= t.streamed + Estimate(t) \/ Spent(q)' <= t.streamed + t.asked
    BY <1>2, <2>1 DEF Estimate
  <2> QED
    BY <2>2 DEF CapInv
<1>5. CASE t.pc \in Reserving
  <2>1. Spent(q)' <= t.streamed + (t.pre + t.hold) /\ t.pre + t.hold = t.asked
    BY <1>2, <1>5 DEF FlagInv, HoldInv, Estimate, FundInv
  <2> QED
    BY <2>1 DEF CapInv
<1>6. CASE t.pc = "settletoken" \/ t.settled
  <2>1. Spent(q)' <= t.streamed + t.actual
    BY <1>2, <1>6 DEF FundInv
  <2> QED
    BY <2>1 DEF CapInv
<1> QED
  BY <1>3, <1>4, <1>5, <1>6

\* Elsewhere the ledger only goes down.
LEMMA CapSame ==
  ASSUME NEW q \in Requests, TypeOK, TypeOK', CapInv(q),
         ses'[q].est = ses[q].est, ses'[q].source = ses[q].source,
         ses'[q].asked = ses[q].asked, ses'[q].actual = ses[q].actual,
         ses'[q].streamed = ses[q].streamed,
         walletPaid'[q] + subPaid'[q] <= walletPaid[q] + subPaid[q]
  PROVE  CapInv(q)'
<1>1. PICK x \in {Estimate(ses[q]), ses[q].asked, ses[q].actual} : Spent(q) <= ses[q].streamed + x
  BY DEF CapInv
<1>2. ses[q] \in Session /\ walletPaid[q] \in Int /\ subPaid[q] \in Int
        /\ walletPaid'[q] \in Int /\ subPaid'[q] \in Int
  BY DEF TypeOK
<1>3. x \in Nat /\ ses[q].streamed \in Nat
  <2>1. /\ ses[q].est \in Nat /\ ses[q].actual \in Nat /\ ses[q].streamed \in Nat
        /\ ses[q].asked \in Nat
    BY <1>2 DEF Session
  <2>2. Estimate(ses[q]) \in Nat
    BY <2>1 DEF Estimate
  <2>3. x = Estimate(ses[q]) \/ x = ses[q].asked \/ x = ses[q].actual
    BY <1>1
  <2> QED
    BY <2>1, <2>2, <2>3
<1>4. Spent(q)' <= ses'[q].streamed + x
  BY <1>1, <1>2, <1>3 DEF Spent
<1>5. Estimate(ses'[q]) = Estimate(ses[q])
  BY DEF Estimate
<1> QED
  BY <1>1, <1>4, <1>5 DEF CapInv

\* The sources still to try.
PlanType == Plans \cup {Tail(p) : p \in Plans} \cup {<<>>}

LEMMA PlanFacts ==
  /\ \A p \in Plans : p # <<>>
  /\ \A p \in PlanType : p # <<>> => Tail(p) \in PlanType
  /\ \A p \in PlanType : p # <<>> /\ Len(p) # 1 => Tail(p) # <<>>
<1>1. /\ Tail(<<"sub">>) = <<>> /\ Tail(<<"wallet">>) = <<>>
      /\ Tail(<<"wallet", "sub">>) = <<"sub">> /\ Tail(<<"sub", "wallet">>) = <<"wallet">>
  OBVIOUS
<1>2. /\ <<"sub">> # <<>> /\ <<"wallet">> # <<>> /\ <<"wallet", "sub">> # <<>>
      /\ <<"sub", "wallet">> # <<>> /\ Len(<<"sub">>) = 1 /\ Len(<<"wallet">>) = 1
  OBVIOUS
<1> DEFINE A == <<"sub">>
           B == <<"wallet">>
           C == <<"wallet", "sub">>
           D == <<"sub", "wallet">>
<1>3. Plans \subseteq {A, B, C, D}
  BY QuotaAssumption
<1> HIDE DEF A, B, C, D
<1>4. /\ Tail(A) = <<>> /\ Tail(B) = <<>> /\ Tail(C) = A /\ Tail(D) = B
      /\ A # <<>> /\ B # <<>> /\ C # <<>> /\ D # <<>> /\ Len(A) = 1 /\ Len(B) = 1
  BY <1>1, <1>2 DEF A, B, C, D
<1> QED
  BY <1>3, <1>4 DEF PlanType

-----------------------------------------------------------------------------
(* What the invariant says before a request is served and while it is *)

\* Nothing is held for the request.
Unheld(q) ==
  LET s == ses[q]
  IN  /\ walletPaid[q] = 0 /\ subPaid[q] = 0
      /\ s.pre = 0 /\ s.wallet = 0 /\ s.sub = 0 /\ s.extra = 0
      /\ s.streamed = 0 /\ s.usage = 0
      /\ ~s.settled /\ ~s.fundingSettled /\ ~s.refunded /\ record[q] # "refunded"

LEMMA AtBefore ==
  ASSUME TypeOK, NEW q \in Requests, RequestInv(q), ses[q].pc \in Before
  PROVE  Unheld(q)
<1> DEFINE s == ses[q]
<1>1. s \in Session /\ walletPaid[q] \in Int /\ subPaid[q] \in Int
  BY Typed
<1>2. walletPaid[q] = 0 /\ subPaid[q] = 0
  BY <1>1 DEF RequestInv, FundInv, Spent
<1>3. s.pre = 0 /\ s.wallet = 0 /\ s.sub = 0 /\ s.extra = 0
  BY DEF RequestInv, HoldInv, Estimate
<1>4. /\ s.streamed = 0 /\ s.usage = 0
      /\ ~s.settled /\ ~s.fundingSettled /\ ~s.refunded /\ record[q] # "refunded"
  BY DEF RequestInv, FlagInv, Before, Refunding
<1> QED
  BY <1>2, <1>3, <1>4 DEF Unheld

\* The source and the token hold what the session says.
Holding(q) ==
  LET s == ses[q]
  IN  /\ s.source \in {"wallet", "sub"}
      /\ s.source = "wallet" => /\ walletPaid[q] = s.pre + s.streamed /\ subPaid[q] = 0
                                /\ s.wallet = s.pre /\ s.sub = 0
      /\ s.source = "sub" => /\ subPaid[q] = s.pre + s.streamed /\ walletPaid[q] = 0
                             /\ s.sub + s.extra = s.pre /\ s.wallet = 0
      /\ s.token = s.pre /\ (s.pre <= Estimate(s) \/ s.pre <= s.asked)
      /\ ~s.settled /\ ~s.fundingSettled /\ ~s.refunded /\ record[q] # "refunded"
      /\ s.streamed <= s.usage /\ (q \notin Realtime => s.usage = 0)
      /\ s.pre \in Nat /\ s.est \in Nat /\ s.hold \in Nat /\ s.streamed \in Nat
      /\ s.usage \in Nat /\ s.actual \in Nat /\ s.extra \in Nat /\ s.sub \in Nat

LEMMA AtHeld ==
  ASSUME TypeOK, NEW q \in Requests, RequestInv(q), ses[q].pc \in Held
  PROVE  Holding(q)
<1> DEFINE s == ses[q]
<1>1. s \in Session /\ walletPaid[q] \in Int /\ subPaid[q] \in Int
  BY Typed
<1>2. /\ s.pre \in Nat /\ s.est \in Nat /\ s.hold \in Nat /\ s.streamed \in Nat
      /\ s.usage \in Nat /\ s.actual \in Nat /\ s.extra \in Nat /\ s.sub \in Nat
      /\ s.source \in {"none", "wallet", "sub"}
  BY <1>1 DEF Session
<1>3. /\ s.source # "none"
      /\ ~s.settled /\ ~s.fundingSettled /\ ~s.refunded /\ record[q] # "refunded"
      /\ s.streamed <= s.usage /\ (q \notin Realtime => s.usage = 0)
  BY DEF RequestInv, FlagInv, Held, Refunding
<1>4. /\ s.token = s.pre /\ (s.pre <= Estimate(s) \/ s.pre <= s.asked)
      /\ s.source = "wallet" => s.wallet = s.pre /\ s.sub = 0
      /\ s.source = "sub" => s.sub + s.extra = s.pre /\ s.wallet = 0
  BY DEF RequestInv, HoldInv, Estimate, Held, Before
<1>5. /\ s.source = "wallet" => walletPaid[q] = s.pre + s.streamed /\ subPaid[q] = 0
      /\ s.source = "sub" => subPaid[q] = s.pre + s.streamed /\ walletPaid[q] = 0
  BY <1>1, <1>2 DEF RequestInv, FundInv, Spent
<1> QED
  BY <1>2, <1>3, <1>4, <1>5 DEF Holding

\* Reserve is half way: the source holds more than the token.
Hanging(q) ==
  LET s == ses[q]
  IN  /\ s.source \in {"wallet", "sub"}
      /\ s.source = "wallet" => /\ walletPaid[q] = s.pre + s.hold /\ subPaid[q] = 0
                                /\ s.wallet = s.pre + s.hold /\ s.sub = 0
      /\ s.source = "sub" => /\ subPaid[q] = s.pre + s.hold /\ walletPaid[q] = 0
                             /\ s.sub + s.extra = s.pre /\ s.wallet = 0
      /\ s.token = s.pre /\ (s.pre <= Estimate(s) \/ s.pre <= s.asked) /\ s.pre + s.hold = s.asked
      /\ ~s.settled /\ ~s.fundingSettled /\ ~s.refunded /\ record[q] # "refunded"
      /\ s.streamed = 0
      /\ s.pre \in Nat /\ s.hold \in Nat /\ s.extra \in Nat /\ s.sub \in Nat

LEMMA AtReserving ==
  ASSUME TypeOK, NEW q \in Requests, RequestInv(q), ses[q].pc \in Reserving
  PROVE  Hanging(q)
<1> DEFINE s == ses[q]
<1>1. s \in Session /\ walletPaid[q] \in Int /\ subPaid[q] \in Int
  BY Typed
<1>2. /\ s.pre \in Nat /\ s.hold \in Nat /\ s.extra \in Nat /\ s.sub \in Nat
      /\ s.source \in {"none", "wallet", "sub"}
  BY <1>1 DEF Session
<1>3. /\ s.source # "none"
      /\ ~s.settled /\ ~s.fundingSettled /\ ~s.refunded /\ record[q] # "refunded"
      /\ s.streamed = 0
  BY DEF RequestInv, FlagInv, Reserving, Refunding
<1>4. /\ s.token = s.pre /\ (s.pre <= Estimate(s) \/ s.pre <= s.asked) /\ s.pre + s.hold = s.asked
      /\ s.source = "wallet" => s.wallet = s.pre + s.hold /\ s.sub = 0
      /\ s.source = "sub" => s.sub + s.extra = s.pre /\ s.wallet = 0
  BY DEF RequestInv, HoldInv, Estimate, Reserving, Before
<1>5. /\ s.source = "wallet" => walletPaid[q] = s.pre + s.hold /\ subPaid[q] = 0
      /\ s.source = "sub" => subPaid[q] = s.pre + s.hold /\ walletPaid[q] = 0
  BY <1>1, <1>2 DEF RequestInv, FundInv, Spent
<1> QED
  BY <1>2, <1>3, <1>4, <1>5 DEF Hanging

\* The request failed and its hold is being given back.
Returning(q) ==
  LET s == ses[q]
  IN  /\ s.source \in {"wallet", "sub"}
      /\ s.source = "wallet" => subPaid[q] = 0 /\ s.sub = 0
      /\ s.source = "sub" => walletPaid[q] = 0 /\ s.sub + s.extra = s.pre /\ s.wallet = 0
      /\ s.token = s.pre /\ s.streamed = 0
      /\ ~s.settled /\ ~s.fundingSettled
      /\ s.pre \in Nat /\ s.extra \in Nat /\ s.sub \in Nat /\ s.wallet \in Nat

LEMMA AtReturning ==
  ASSUME TypeOK, NEW q \in Requests, RequestInv(q), ses[q].pc \in Refunding \cup {"error"}
  PROVE  Returning(q)
<1> DEFINE s == ses[q]
<1>1. s \in Session /\ walletPaid[q] \in Int /\ subPaid[q] \in Int
  BY Typed
<1>2. /\ s.pre \in Nat /\ s.extra \in Nat /\ s.sub \in Nat
      /\ s.source \in {"none", "wallet", "sub"} /\ s.wallet \in Int
  BY <1>1 DEF Session
<1>3. s.source # "none" /\ ~s.settled /\ ~s.fundingSettled /\ s.streamed = 0
  BY DEF RequestInv, FlagInv, Refunding
<1>4. /\ s.token = s.pre /\ s.wallet >= 0
      /\ s.source = "wallet" => s.sub = 0
      /\ s.source = "sub" => s.sub + s.extra = s.pre /\ s.wallet = 0
  BY DEF RequestInv, HoldInv, Estimate, Refunding, Before
<1>5. /\ s.source = "wallet" => subPaid[q] = 0
      /\ s.source = "sub" => walletPaid[q] = 0
  BY DEF RequestInv, FundInv
<1> QED
  BY <1>2, <1>3, <1>4, <1>5 DEF Returning

-----------------------------------------------------------------------------
(* What can happen to a request, one outcome at a time: before it is served *)

\* A request arrives.
LEMMA Arrives ==
  ASSUME TypeOK, SubWithinTotal, NEW q \in Requests, RequestInv(q),
         ses[q].pc = "new",
         NEW plan \in Plans,
         plan # <<>>,
         NEW kind \in Kinds,
         NEW force \in BOOLEAN,
         NEW est \in Estimates,
         Goes(q, [ses[q] EXCEPT !.pc = "try", !.plan = plan, !.kind = kind, !.force = force,
                                  !.est = est, !.tokenSeen = remain], 0, 0, 0)
  PROVE  RequestInv(q)'
<1>1. /\ ses[q] \in Session /\ SubTotal \in Nat
      /\ walletPaid[q] \in Int /\ subPaid[q] \in Int /\ tokenPaid[q] \in Int
  BY Typed, QuotaAssumption
<1>2. Unheld(q)
  BY AtBefore DEF Before
<1>known. ses[q].token = 0 /\ tokenPaid[q] = 0 /\ ses[q].seen = NoRead
  BY <1>1, <1>2 DEF RequestInv, Unheld, HoldInv, Estimate, TokenInv, SeenInv, Before
<1>3. /\ TypeOK' /\ ses'[q] = [ses[q] EXCEPT !.pc = "try", !.plan = plan, !.kind = kind, !.force = force,
                                  !.est = est, !.tokenSeen = remain]
      /\ record'[q] = record[q] /\ walletPaid'[q] = walletPaid[q]
      /\ subPaid'[q] = subPaid[q] /\ tokenPaid'[q] = tokenPaid[q]
  BY <1>1 DEF Goes, Frame
<1>4. SeenInv(q)' /\ FlagInv(q)' /\ HoldInv(q)' /\ FundInv(q)' /\ TokenInv(q)'
  <2>1. SeenInv(q)' /\ FlagInv(q)'
    BY <1>1, <1>2, <1>3, <1>known
       DEF RequestInv, Unheld, SeenInv, FlagInv, Before, Reserving, Refunding, Session
  <2>2. HoldInv(q)'
    BY <1>1, <1>2, <1>3, <1>known
       DEF RequestInv, Unheld, HoldInv, Estimate, Before, Held, Reserving, Session
  <2>3. FundInv(q)'
    BY <1>1, <1>2, <1>3, <1>known
       DEF RequestInv, Unheld, FundInv, Spent, Before, Held, Reserving, Session
  <2>4. TokenInv(q)'
    BY <1>1, <1>2, <1>3, <1>known DEF RequestInv, Unheld, TokenInv, Due, Session
  <2> QED
    BY <2>1, <2>2, <2>3, <2>4
<1> QED
  BY <1>1, <1>3, <1>4, CapHere DEF RequestInv, Before, Held, Reserving, Session

\* It is refused before the token was charged.
LEMMA Refused ==
  ASSUME TypeOK, SubWithinTotal, NEW q \in Requests, RequestInv(q),
         ses[q].pc \in {"try", "token", "tokendec"},
         Goes(q, Leave(ses[q], "rejected"), 0, 0, 0)
  PROVE  RequestInv(q)'
<1>1. /\ ses[q] \in Session /\ SubTotal \in Nat
      /\ walletPaid[q] \in Int /\ subPaid[q] \in Int /\ tokenPaid[q] \in Int
  BY Typed, QuotaAssumption
<1>2. Unheld(q)
  BY AtBefore DEF Before
<1>3. /\ TypeOK' /\ ses'[q] = Leave(ses[q], "rejected")
      /\ record'[q] = record[q] /\ walletPaid'[q] = walletPaid[q]
      /\ subPaid'[q] = subPaid[q] /\ tokenPaid'[q] = tokenPaid[q]
  BY <1>1 DEF Goes, Frame
<1>4. SeenInv(q)' /\ FlagInv(q)' /\ HoldInv(q)' /\ FundInv(q)' /\ TokenInv(q)'
  BY <1>1, <1>2, <1>3
     DEF RequestInv, Unheld, SeenInv, FlagInv, HoldInv, Estimate, FundInv, TokenInv, Spent, Due,
         Before, Held, Reserving, Refunding, Session, Leave
<1> QED
  BY <1>1, <1>3, <1>4, CapHere DEF RequestInv, Before, Held, Reserving, Session, Leave

LEMMA RefusedByError ==
  ASSUME TypeOK, SubWithinTotal, NEW q \in Requests, RequestInv(q),
         ses[q].pc \in {"try", "token", "tokendec"},
         Goes(q, Failed(Leave(ses[q], "rejected")), 0, 0, 0)
  PROVE  RequestInv(q)'
<1>1. /\ ses[q] \in Session /\ SubTotal \in Nat
      /\ walletPaid[q] \in Int /\ subPaid[q] \in Int /\ tokenPaid[q] \in Int
  BY Typed, QuotaAssumption
<1>2. Unheld(q)
  BY AtBefore DEF Before
<1>3. /\ TypeOK' /\ ses'[q] = Failed(Leave(ses[q], "rejected"))
      /\ record'[q] = record[q] /\ walletPaid'[q] = walletPaid[q]
      /\ subPaid'[q] = subPaid[q] /\ tokenPaid'[q] = tokenPaid[q]
  BY <1>1 DEF Goes, Frame
<1>4. SeenInv(q)' /\ FlagInv(q)' /\ HoldInv(q)' /\ FundInv(q)' /\ TokenInv(q)'
  BY <1>1, <1>2, <1>3
     DEF RequestInv, Unheld, SeenInv, FlagInv, HoldInv, Estimate, FundInv, TokenInv, Spent, Due,
         Before, Held, Reserving, Refunding, Session, Leave, Failed
<1> QED
  BY <1>1, <1>3, <1>4, CapHere
     DEF RequestInv, Before, Held, Reserving, Session, Leave, Failed

\* The next source is tried.
LEMMA TriesNext ==
  ASSUME TypeOK, SubWithinTotal, NEW q \in Requests, RequestInv(q),
         ses[q].pc = "try",
         Tail(ses[q].plan) # <<>>,
         Goes(q, [ses[q] EXCEPT !.plan = Tail(@), !.pc = "try"], 0, 0, 0)
  PROVE  RequestInv(q)'
<1>1. /\ ses[q] \in Session /\ SubTotal \in Nat
      /\ walletPaid[q] \in Int /\ subPaid[q] \in Int /\ tokenPaid[q] \in Int
  BY Typed, QuotaAssumption
<1>2. Unheld(q)
  BY AtBefore DEF Before
<1>3. /\ TypeOK' /\ ses'[q] = [ses[q] EXCEPT !.plan = Tail(@), !.pc = "try"]
      /\ record'[q] = record[q] /\ walletPaid'[q] = walletPaid[q]
      /\ subPaid'[q] = subPaid[q] /\ tokenPaid'[q] = tokenPaid[q]
  BY <1>1 DEF Goes, Frame
<1>4. SeenInv(q)' /\ FlagInv(q)' /\ HoldInv(q)' /\ FundInv(q)' /\ TokenInv(q)'
  BY SMTT(60), <1>1, <1>2, <1>3
     DEF RequestInv, Unheld, SeenInv, FlagInv, HoldInv, Estimate, FundInv, TokenInv, Spent, Due,
         Before, Held, Reserving, Refunding, Session
<1> QED
  BY <1>1, <1>3, <1>4, CapHere DEF RequestInv, Before, Held, Reserving, Session

\* A trusted request is served without a hold.
LEMMA Trusted ==
  ASSUME TypeOK, SubWithinTotal, NEW q \in Requests, RequestInv(q),
         ses[q].pc = "try",
         Goes(q, [Leave(ses[q], "serve") EXCEPT !.source = "wallet"], 0, 0, 0)
  PROVE  RequestInv(q)'
<1>1. /\ ses[q] \in Session /\ SubTotal \in Nat
      /\ walletPaid[q] \in Int /\ subPaid[q] \in Int /\ tokenPaid[q] \in Int
  BY Typed, QuotaAssumption
<1>2. Unheld(q)
  BY AtBefore DEF Before
<1>3. /\ TypeOK' /\ ses'[q] = [Leave(ses[q], "serve") EXCEPT !.source = "wallet"]
      /\ record'[q] = record[q] /\ walletPaid'[q] = walletPaid[q]
      /\ subPaid'[q] = subPaid[q] /\ tokenPaid'[q] = tokenPaid[q]
  BY <1>1 DEF Goes, Frame
<1>4. SeenInv(q)' /\ FlagInv(q)' /\ HoldInv(q)' /\ FundInv(q)' /\ TokenInv(q)'
  BY <1>1, <1>2, <1>3
     DEF RequestInv, Unheld, SeenInv, FlagInv, HoldInv, Estimate, FundInv, TokenInv, Spent, Due,
         Before, Held, Reserving, Refunding, Session, Leave
<1> QED
  BY <1>1, <1>3, <1>4, CapHere DEF RequestInv, Before, Held, Reserving, Session, Leave

\* A source is chosen.
LEMMA Chosen ==
  ASSUME TypeOK, SubWithinTotal, NEW q \in Requests, RequestInv(q),
         ses[q].pc = "try",
         NEW source \in {"wallet", "sub"},
         NEW hold \in Nat,
         hold = IF source = "sub" /\ ses[q].est = 0 THEN 1 ELSE ses[q].est,
         Goes(q, [ses[q] EXCEPT !.source = source, !.hold = hold, !.pc = "token"], 0, 0, 0)
  PROVE  RequestInv(q)'
<1>1. /\ ses[q] \in Session /\ SubTotal \in Nat
      /\ walletPaid[q] \in Int /\ subPaid[q] \in Int /\ tokenPaid[q] \in Int
  BY Typed, QuotaAssumption
<1>2. Unheld(q)
  BY AtBefore DEF Before
<1>3. /\ TypeOK' /\ ses'[q] = [ses[q] EXCEPT !.source = source, !.hold = hold, !.pc = "token"]
      /\ record'[q] = record[q] /\ walletPaid'[q] = walletPaid[q]
      /\ subPaid'[q] = subPaid[q] /\ tokenPaid'[q] = tokenPaid[q]
  BY <1>1 DEF Goes, Frame
<1>4. SeenInv(q)' /\ FlagInv(q)' /\ HoldInv(q)' /\ FundInv(q)' /\ TokenInv(q)'
  BY <1>1, <1>2, <1>3
     DEF RequestInv, Unheld, SeenInv, FlagInv, HoldInv, Estimate, FundInv, TokenInv, Spent, Due,
         Before, Held, Reserving, Refunding, Session
<1> QED
  BY <1>1, <1>3, <1>4, CapHere DEF RequestInv, Before, Held, Reserving, Session

\* The token has enough left.
LEMMA TokenEnough ==
  ASSUME TypeOK, SubWithinTotal, NEW q \in Requests, RequestInv(q),
         ses[q].pc = "token",
         Goes(q, [ses[q] EXCEPT !.pc = "tokendec"], 0, 0, 0)
  PROVE  RequestInv(q)'
<1>1. /\ ses[q] \in Session /\ SubTotal \in Nat
      /\ walletPaid[q] \in Int /\ subPaid[q] \in Int /\ tokenPaid[q] \in Int
  BY Typed, QuotaAssumption
<1>2. Unheld(q)
  BY AtBefore DEF Before
<1>3. /\ TypeOK' /\ ses'[q] = [ses[q] EXCEPT !.pc = "tokendec"]
      /\ record'[q] = record[q] /\ walletPaid'[q] = walletPaid[q]
      /\ subPaid'[q] = subPaid[q] /\ tokenPaid'[q] = tokenPaid[q]
  BY <1>1 DEF Goes, Frame
<1>4. SeenInv(q)' /\ FlagInv(q)' /\ HoldInv(q)' /\ FundInv(q)' /\ TokenInv(q)'
  BY <1>1, <1>2, <1>3
     DEF RequestInv, Unheld, SeenInv, FlagInv, HoldInv, Estimate, FundInv, TokenInv, Spent, Due,
         Before, Held, Reserving, Refunding, Session
<1> QED
  BY <1>1, <1>3, <1>4, CapHere DEF RequestInv, Before, Held, Reserving, Session

\* The token is charged.
LEMMA TokenCharged ==
  ASSUME TypeOK, SubWithinTotal, NEW q \in Requests, RequestInv(q),
         ses[q].pc = "tokendec",
         NEW k \in Int,
         k = IF ses[q].kind = "playground" THEN 0 ELSE ses[q].hold,
         Goes(q, [ses[q] EXCEPT !.token = ses[q].hold, !.pc = "fund"], 0, 0, k)
  PROVE  RequestInv(q)'
<1>1. /\ ses[q] \in Session /\ SubTotal \in Nat
      /\ walletPaid[q] \in Int /\ subPaid[q] \in Int /\ tokenPaid[q] \in Int
  BY Typed, QuotaAssumption
<1>2. Unheld(q)
  BY AtBefore DEF Before
<1>3. /\ TypeOK' /\ ses'[q] = [ses[q] EXCEPT !.token = ses[q].hold, !.pc = "fund"]
      /\ record'[q] = record[q] /\ walletPaid'[q] = walletPaid[q]
      /\ subPaid'[q] = subPaid[q] /\ tokenPaid'[q] = tokenPaid[q] + k
  BY <1>1 DEF Goes, Frame
<1>4. SeenInv(q)' /\ FlagInv(q)' /\ HoldInv(q)' /\ FundInv(q)' /\ TokenInv(q)'
  BY SMTT(60), <1>1, <1>2, <1>3
     DEF RequestInv, Unheld, SeenInv, FlagInv, HoldInv, Estimate, FundInv, TokenInv, Spent, Due,
         Before, Held, Reserving, Refunding, Session
<1> QED
  BY <1>1, <1>3, <1>4, CapHere DEF RequestInv, Before, Held, Reserving, Session

\* The subscription has room for the hold.
LEMMA SeesRoom ==
  ASSUME TypeOK, SubWithinTotal, NEW q \in Requests, RequestInv(q),
         ses[q].pc = "fund",
         ses[q].source = "sub",
         subUsed \in 0..SubTotal,
         SubTotal - subUsed >= ses[q].hold,
         Goes(q, [ses[q] EXCEPT !.seen = subUsed], 0, 0, 0)
  PROVE  RequestInv(q)'
<1>1. /\ ses[q] \in Session /\ SubTotal \in Nat
      /\ walletPaid[q] \in Int /\ subPaid[q] \in Int /\ tokenPaid[q] \in Int
  BY Typed, QuotaAssumption
<1>2. Unheld(q)
  BY AtBefore DEF Before
<1>3. /\ TypeOK' /\ ses'[q] = [ses[q] EXCEPT !.seen = subUsed]
      /\ record'[q] = record[q] /\ walletPaid'[q] = walletPaid[q]
      /\ subPaid'[q] = subPaid[q] /\ tokenPaid'[q] = tokenPaid[q]
  BY <1>1 DEF Goes, Frame
<1>4. SeenInv(q)' /\ FlagInv(q)' /\ HoldInv(q)' /\ FundInv(q)' /\ TokenInv(q)'
  <2>1. SeenInv(q)' /\ FlagInv(q)'
    BY SMTT(60), <1>1, <1>2, <1>3
       DEF RequestInv, Unheld, SeenInv, FlagInv, Before, Reserving, Refunding, Session
  <2>2. HoldInv(q)'
    BY SMTT(60), <1>1, <1>2, <1>3 DEF RequestInv, Unheld, HoldInv, Estimate, Before, Held, Reserving, Session
  <2>3. FundInv(q)'
    BY <1>1, <1>2, <1>3
       DEF RequestInv, Unheld, FundInv, Spent, Before, Held, Reserving, Session
  <2>4. TokenInv(q)'
    BY <1>1, <1>2, <1>3 DEF RequestInv, Unheld, TokenInv, Due, Session
  <2> QED
    BY <2>1, <2>2, <2>3, <2>4
<1> QED
  BY <1>1, <1>3, <1>4, CapHere DEF RequestInv, Before, Held, Reserving, Session

\* The funding source refuses.
LEMMA FundRefused ==
  ASSUME TypeOK, SubWithinTotal, NEW q \in Requests, RequestInv(q),
         ses[q].pc = "fund",
         ses[q].seen = NoRead,
         Goes(q, [ses[q] EXCEPT !.plan = Tail(@), !.pc = "rollback"], 0, 0, 0)
  PROVE  RequestInv(q)'
<1>1. /\ ses[q] \in Session /\ SubTotal \in Nat
      /\ walletPaid[q] \in Int /\ subPaid[q] \in Int /\ tokenPaid[q] \in Int
  BY Typed, QuotaAssumption
<1>2. Unheld(q)
  BY AtBefore DEF Before
<1>3. /\ TypeOK' /\ ses'[q] = [ses[q] EXCEPT !.plan = Tail(@), !.pc = "rollback"]
      /\ record'[q] = record[q] /\ walletPaid'[q] = walletPaid[q]
      /\ subPaid'[q] = subPaid[q] /\ tokenPaid'[q] = tokenPaid[q]
  BY <1>1 DEF Goes, Frame
<1>4. SeenInv(q)' /\ FlagInv(q)' /\ HoldInv(q)' /\ FundInv(q)' /\ TokenInv(q)'
  BY <1>1, <1>2, <1>3
     DEF RequestInv, Unheld, SeenInv, FlagInv, HoldInv, Estimate, FundInv, TokenInv, Spent, Due,
         Before, Held, Reserving, Refunding, Session
<1> QED
  BY <1>1, <1>3, <1>4, CapHere DEF RequestInv, Before, Held, Reserving, Session

LEMMA FundFailed ==
  ASSUME TypeOK, SubWithinTotal, NEW q \in Requests, RequestInv(q),
         ses[q].pc = "fund",
         Goes(q, Failed([ses[q] EXCEPT !.plan = <<>>, !.pc = "rollback"]), 0, 0, 0)
  PROVE  RequestInv(q)'
<1>1. /\ ses[q] \in Session /\ SubTotal \in Nat
      /\ walletPaid[q] \in Int /\ subPaid[q] \in Int /\ tokenPaid[q] \in Int
  BY Typed, QuotaAssumption
<1>2. Unheld(q)
  BY AtBefore DEF Before
<1>3. /\ TypeOK' /\ ses'[q] = Failed([ses[q] EXCEPT !.plan = <<>>, !.pc = "rollback"])
      /\ record'[q] = record[q] /\ walletPaid'[q] = walletPaid[q]
      /\ subPaid'[q] = subPaid[q] /\ tokenPaid'[q] = tokenPaid[q]
  BY <1>1 DEF Goes, Frame
<1>4. SeenInv(q)' /\ FlagInv(q)' /\ HoldInv(q)' /\ FundInv(q)' /\ TokenInv(q)'
  BY <1>1, <1>2, <1>3
     DEF RequestInv, Unheld, SeenInv, FlagInv, HoldInv, Estimate, FundInv, TokenInv, Spent, Due,
         Before, Held, Reserving, Refunding, Session, Failed
<1> QED
  BY <1>1, <1>3, <1>4, CapHere DEF RequestInv, Before, Held, Reserving, Session, Failed

\* The wallet is charged.
LEMMA WalletHeld ==
  ASSUME TypeOK, SubWithinTotal, NEW q \in Requests, RequestInv(q),
         ses[q].pc = "fund",
         ses[q].source = "wallet",
         Goes(q, [Leave(ses[q], "serve") EXCEPT !.wallet = ses[q].hold, !.pre = ses[q].hold], ses[q].hold, 0, 0)
  PROVE  RequestInv(q)'
<1>1. /\ ses[q] \in Session /\ SubTotal \in Nat
      /\ walletPaid[q] \in Int /\ subPaid[q] \in Int /\ tokenPaid[q] \in Int
  BY Typed, QuotaAssumption
<1>2. Unheld(q)
  BY AtBefore DEF Before
<1>3. /\ TypeOK' /\ ses'[q] = [Leave(ses[q], "serve") EXCEPT !.wallet = ses[q].hold, !.pre = ses[q].hold]
      /\ record'[q] = record[q] /\ walletPaid'[q] = walletPaid[q] + (ses[q].hold)
      /\ subPaid'[q] = subPaid[q] /\ tokenPaid'[q] = tokenPaid[q]
  BY <1>1 DEF Goes, Frame
<1>4. SeenInv(q)' /\ FlagInv(q)' /\ HoldInv(q)' /\ FundInv(q)' /\ TokenInv(q)'
  BY <1>1, <1>2, <1>3
     DEF RequestInv, Unheld, SeenInv, FlagInv, HoldInv, Estimate, FundInv, TokenInv, Spent, Due,
         Before, Held, Reserving, Refunding, Session, Leave
<1> QED
  BY <1>1, <1>3, <1>4, CapHere DEF RequestInv, Before, Held, Reserving, Session, Leave

\* The token is given back, and no source is left or the next one is tried.
LEMMA GivenBack ==
  ASSUME TypeOK, SubWithinTotal, NEW q \in Requests, RequestInv(q),
         ses[q].pc = "rollback",
         NEW k \in Int,
         k = IF ses[q].kind = "playground" THEN 0 ELSE -ses[q].token,
         Goes(q, Leave([ses[q] EXCEPT !.token = 0, !.hold = 0, !.source = "none"], "rejected"), 0, 0, k)
  PROVE  RequestInv(q)'
<1>1. /\ ses[q] \in Session /\ SubTotal \in Nat
      /\ walletPaid[q] \in Int /\ subPaid[q] \in Int /\ tokenPaid[q] \in Int
  BY Typed, QuotaAssumption
<1>2. Unheld(q)
  BY AtBefore DEF Before
<1>3. /\ TypeOK' /\ ses'[q] = Leave([ses[q] EXCEPT !.token = 0, !.hold = 0, !.source = "none"], "rejected")
      /\ record'[q] = record[q] /\ walletPaid'[q] = walletPaid[q]
      /\ subPaid'[q] = subPaid[q] /\ tokenPaid'[q] = tokenPaid[q] + k
  BY <1>1 DEF Goes, Frame
<1>4. SeenInv(q)' /\ FlagInv(q)' /\ HoldInv(q)' /\ FundInv(q)' /\ TokenInv(q)'
  BY SMTT(30), <1>1, <1>2, <1>3
     DEF RequestInv, Unheld, SeenInv, FlagInv, HoldInv, Estimate, FundInv, TokenInv, Spent, Due,
         Before, Held, Reserving, Refunding, Session, Leave
<1> QED
  BY <1>1, <1>3, <1>4, CapHere DEF RequestInv, Before, Held, Reserving, Session, Leave

LEMMA GivenBackAndTries ==
  ASSUME TypeOK, SubWithinTotal, NEW q \in Requests, RequestInv(q),
         ses[q].pc = "rollback",
         NEW k \in Int,
         k = IF ses[q].kind = "playground" THEN 0 ELSE -ses[q].token,
         ses[q].plan # <<>>,
         Goes(q, [ses[q] EXCEPT !.token = 0, !.hold = 0, !.source = "none", !.pc = "try"], 0, 0, k)
  PROVE  RequestInv(q)'
<1>1. /\ ses[q] \in Session /\ SubTotal \in Nat
      /\ walletPaid[q] \in Int /\ subPaid[q] \in Int /\ tokenPaid[q] \in Int
  BY Typed, QuotaAssumption
<1>2. Unheld(q)
  BY AtBefore DEF Before
<1>3. /\ TypeOK' /\ ses'[q] = [ses[q] EXCEPT !.token = 0, !.hold = 0, !.source = "none", !.pc = "try"]
      /\ record'[q] = record[q] /\ walletPaid'[q] = walletPaid[q]
      /\ subPaid'[q] = subPaid[q] /\ tokenPaid'[q] = tokenPaid[q] + k
  BY <1>1 DEF Goes, Frame
<1>4. SeenInv(q)' /\ FlagInv(q)' /\ HoldInv(q)' /\ FundInv(q)' /\ TokenInv(q)'
  BY SMTT(30), <1>1, <1>2, <1>3
     DEF RequestInv, Unheld, SeenInv, FlagInv, HoldInv, Estimate, FundInv, TokenInv, Spent, Due,
         Before, Held, Reserving, Refunding, Session, Leave
<1> QED
  BY <1>1, <1>3, <1>4, CapHere DEF RequestInv, Before, Held, Reserving, Session, Leave

\* The token is not given back.
LEMMA NotGivenBack ==
  ASSUME TypeOK, SubWithinTotal, NEW q \in Requests, RequestInv(q),
         ses[q].pc = "rollback",
         Goes(q, Failed(Leave([ses[q] EXCEPT !.token = 0, !.hold = 0, !.source = "none"], "rejected")), 0, 0, 0)
  PROVE  RequestInv(q)'
<1>1. /\ ses[q] \in Session /\ SubTotal \in Nat
      /\ walletPaid[q] \in Int /\ subPaid[q] \in Int /\ tokenPaid[q] \in Int
  BY Typed, QuotaAssumption
<1>2. Unheld(q)
  BY AtBefore DEF Before
<1>3. /\ TypeOK' /\ ses'[q] = Failed(Leave([ses[q] EXCEPT !.token = 0, !.hold = 0, !.source = "none"], "rejected"))
      /\ record'[q] = record[q] /\ walletPaid'[q] = walletPaid[q]
      /\ subPaid'[q] = subPaid[q] /\ tokenPaid'[q] = tokenPaid[q]
  BY <1>1 DEF Goes, Frame
<1>4. SeenInv(q)' /\ FlagInv(q)' /\ HoldInv(q)' /\ FundInv(q)' /\ TokenInv(q)'
  BY <1>1, <1>2, <1>3
     DEF RequestInv, Unheld, SeenInv, FlagInv, HoldInv, Estimate, FundInv, TokenInv, Spent, Due,
         Before, Held, Reserving, Refunding, Session, Leave, Failed
<1> QED
  BY <1>1, <1>3, <1>4, CapHere
     DEF RequestInv, Before, Held, Reserving, Session, Leave, Failed

LEMMA NotGivenBackAndTries ==
  ASSUME TypeOK, SubWithinTotal, NEW q \in Requests, RequestInv(q),
         ses[q].pc = "rollback",
         ses[q].plan # <<>>,
         Goes(q, Failed([ses[q] EXCEPT !.token = 0, !.hold = 0, !.source = "none", !.pc = "try"]), 0, 0, 0)
  PROVE  RequestInv(q)'
<1>1. /\ ses[q] \in Session /\ SubTotal \in Nat
      /\ walletPaid[q] \in Int /\ subPaid[q] \in Int /\ tokenPaid[q] \in Int
  BY Typed, QuotaAssumption
<1>2. Unheld(q)
  BY AtBefore DEF Before
<1>3. /\ TypeOK' /\ ses'[q] = Failed([ses[q] EXCEPT !.token = 0, !.hold = 0, !.source = "none", !.pc = "try"])
      /\ record'[q] = record[q] /\ walletPaid'[q] = walletPaid[q]
      /\ subPaid'[q] = subPaid[q] /\ tokenPaid'[q] = tokenPaid[q]
  BY <1>1 DEF Goes, Frame
<1>4. SeenInv(q)' /\ FlagInv(q)' /\ HoldInv(q)' /\ FundInv(q)' /\ TokenInv(q)'
  BY <1>1, <1>2, <1>3
     DEF RequestInv, Unheld, SeenInv, FlagInv, HoldInv, Estimate, FundInv, TokenInv, Spent, Due,
         Before, Held, Reserving, Refunding, Session, Leave, Failed
<1> QED
  BY <1>1, <1>3, <1>4, CapHere
     DEF RequestInv, Before, Held, Reserving, Session, Leave, Failed

-----------------------------------------------------------------------------
(* While it is served, when it is settled and when it is refunded *)

\* Reserve asks for more.
LEMMA AsksForMore ==
  ASSUME TypeOK, SubWithinTotal, NEW q \in Requests, RequestInv(q),
         ses[q].pc = "serve",
         q \notin Realtime,
         NEW target \in Targets,
         target > ses[q].pre,
         target \in Nat,
         Goes(q, [ses[q] EXCEPT !.hold = target - ses[q].pre, !.asked = target, !.pc = "reserve"], 0, 0, 0)
  PROVE  RequestInv(q)'
<1> DEFINE s == ses[q]
           t == ses'[q]
<1>1. /\ s \in Session /\ SubTotal \in Nat
      /\ walletPaid[q] \in Int /\ subPaid[q] \in Int /\ tokenPaid[q] \in Int
  BY Typed, QuotaAssumption
<1>2. Holding(q)
  BY AtHeld DEF Held
<1>4. TypeOK' /\ t \in Session
  BY DEF Goes, Frame, TypeOK
<1>5. /\ t.pc = "reserve" /\ t.plan = s.plan /\ t.kind = s.kind /\ t.source = s.source
      /\ t.hold = target - s.pre /\ t.pre = s.pre /\ t.token = s.token
      /\ t.wallet = s.wallet /\ t.sub = s.sub /\ t.extra = s.extra /\ t.est = s.est /\ t.asked = target
      /\ t.usage = s.usage /\ t.streamed = s.streamed /\ t.actual = s.actual
      /\ t.fundingSettled = s.fundingSettled /\ t.settled = s.settled
      /\ t.refunded = s.refunded /\ t.seen = s.seen /\ t.failed = s.failed
  BY <1>1, <1>4 DEF Goes, Session
<1>6. /\ record'[q] = record[q] /\ walletPaid'[q] = walletPaid[q]
      /\ subPaid'[q] = subPaid[q] /\ tokenPaid'[q] = tokenPaid[q]
  BY <1>1 DEF Goes
<1>7. SeenInv(q)' /\ FlagInv(q)' /\ HoldInv(q)' /\ FundInv(q)' /\ TokenInv(q)'
  BY <1>1, <1>2, <1>5, <1>6
     DEF RequestInv, Holding, SeenInv, FlagInv, HoldInv, Estimate, FundInv, TokenInv, Spent, Due,
         Before, Held, Reserving, Refunding
<1> QED
  BY <1>4, <1>5, <1>7, CapHere DEF RequestInv, Before, Held, Reserving

\* Two sessions that agree on what is held and on what has been charged.
SameHold(t, s) ==
  /\ t.kind = s.kind /\ t.source = s.source /\ t.pre = s.pre /\ t.token = s.token
  /\ t.wallet = s.wallet /\ t.sub = s.sub /\ t.extra = s.extra /\ t.est = s.est
  /\ t.asked = s.asked /\ t.streamed = s.streamed /\ t.settled = s.settled
  /\ t.fundingSettled = s.fundingSettled /\ t.refunded = s.refunded

\* A request that is served goes on with the hold it has: it succeeds, usage is
\* reported, a charge of usage is refused, or its WebSocket session ends.
LEMMA GoesOn ==
  ASSUME TypeOK, SubWithinTotal, NEW q \in Requests, RequestInv(q),
         ses[q].pc \in {"serve", "stream", "streamtoken", "ending"},
         NEW t \in Session, SameHold(t, ses[q]), t.seen = ses[q].seen,
         t.pc \in {"stream", "ending", "settle"},
         q \in Realtime \/ (t.pc = "settle" /\ t.usage = ses[q].usage),
         t.usage >= ses[q].usage,
         t.pc = "stream" => t.usage > ses[q].usage,
         Becomes(q, t), walletPaid'[q] = walletPaid[q], subPaid'[q] = subPaid[q],
         ses'[q].failed \/ (ses[q].pc # "streamtoken" /\ ses'[q].failed = ses[q].failed)
  PROVE  RequestInv(q)'
<1> DEFINE s == ses[q]
           n == ses'[q]
<1>1. /\ s \in Session /\ SubTotal \in Nat
      /\ walletPaid[q] \in Int /\ subPaid[q] \in Int /\ tokenPaid[q] \in Int
  BY Typed, QuotaAssumption
<1>2. Holding(q)
  BY AtHeld DEF Held
<1>3. t.usage \in Nat /\ t.actual \in Nat
  BY DEF Session
<1>4. TypeOK' /\ n \in Session
  BY DEF Becomes, Frame, TypeOK
<1>5. /\ n.pc = t.pc /\ n.kind = t.kind /\ n.source = t.source
      /\ n.pre = t.pre /\ n.token = t.token /\ n.wallet = t.wallet /\ n.sub = t.sub
      /\ n.extra = t.extra /\ n.est = t.est /\ n.asked = t.asked /\ n.usage = t.usage
      /\ n.streamed = t.streamed /\ n.actual = t.actual
      /\ n.fundingSettled = t.fundingSettled /\ n.settled = t.settled
      /\ n.refunded = t.refunded /\ n.seen \in {NoRead, t.seen}
  BY ZenonT(60), <1>4 DEF Becomes, Marked, Session
<1>6. record'[q] = record[q] /\ tokenPaid'[q] = tokenPaid[q]
  BY DEF Becomes
<1>7. SeenInv(q)' /\ FlagInv(q)' /\ HoldInv(q)' /\ FundInv(q)' /\ TokenInv(q)'
  <2>1. SeenInv(q)'
    BY <1>1, <1>5 DEF RequestInv, SeenInv, Before
  <2>2. FlagInv(q)'
    <3>1. /\ ~n.settled /\ ~n.fundingSettled /\ ~n.refunded /\ record'[q] # "refunded"
          /\ n.source \in {"wallet", "sub"} /\ n.streamed = s.streamed
      BY <1>2, <1>5, <1>6 DEF SameHold, Holding
    <3>2. /\ n.streamed <= n.usage /\ (n.pc = "stream" => n.streamed + 1 <= n.usage)
          /\ (q \notin Realtime => n.usage = 0)
      BY <1>2, <1>3, <1>5, <3>1 DEF Holding
    <3> QED
      BY <1>5, <3>1, <3>2 DEF FlagInv, Before, Reserving, Refunding
  <2>3. HoldInv(q)'
    BY <1>1, <1>2, <1>5 DEF RequestInv, SameHold, Holding, HoldInv, Estimate, Before, Held, Reserving
  <2>4. FundInv(q)'
    BY <1>1, <1>2, <1>5 DEF RequestInv, SameHold, Holding, FundInv, Spent, Before, Held, Reserving
  <2>5. TokenInv(q)'
    BY <1>1, <1>2, <1>5, <1>6 DEF RequestInv, SameHold, Holding, TokenInv, Due
  <2> QED
    BY <2>1, <2>2, <2>3, <2>4, <2>5
<1> QED
  BY <1>4, <1>5, <1>7, CapHere DEF RequestInv, Before, Held, Reserving

\* The same, when the step executes no statement.
LEMMA GoesOnLocally ==
  ASSUME TypeOK, SubWithinTotal, NEW q \in Requests, RequestInv(q),
         ses[q].pc \in {"serve", "stream", "ending"},
         NEW t \in Session, SameHold(t, ses[q]), t.seen = ses[q].seen,
         t.failed = ses[q].failed,
         t.pc \in {"stream", "ending", "settle"},
         q \in Realtime \/ (t.pc = "settle" /\ t.usage = ses[q].usage),
         t.usage >= ses[q].usage,
         t.pc = "stream" => t.usage > ses[q].usage,
         Local(q, t)
  PROVE  Frame(q) /\ RequestInv(q)'
<1>1. Goes(q, t, 0, 0, 0)
  BY LocalFacts
<1>2. /\ Frame(q) /\ ses'[q] = t /\ record'[q] = record[q] /\ tokenPaid'[q] = tokenPaid[q]
      /\ walletPaid'[q] = walletPaid[q] /\ subPaid'[q] = subPaid[q]
  BY <1>1, Typed DEF Goes
<1>3. Becomes(q, t)
  BY <1>2, SameBut DEF Becomes
<1> QED
  BY <1>2, <1>3, GoesOn

\* It fails upstream.
LEMMA FailsUpstream ==
  ASSUME TypeOK, SubWithinTotal, NEW q \in Requests, RequestInv(q),
         ses[q].pc = "serve",
         ses[q].usage = 0,
         Goes(q, [ses[q] EXCEPT !.pc = "error"], 0, 0, 0)
  PROVE  RequestInv(q)'
<1> DEFINE s == ses[q]
           t == ses'[q]
<1>1. /\ s \in Session /\ SubTotal \in Nat
      /\ walletPaid[q] \in Int /\ subPaid[q] \in Int /\ tokenPaid[q] \in Int
  BY Typed, QuotaAssumption
<1>2. Holding(q)
  BY AtHeld DEF Held
<1>4. TypeOK' /\ t \in Session
  BY DEF Goes, Frame, TypeOK
<1>5. /\ t.pc = "error" /\ t.plan = s.plan /\ t.kind = s.kind /\ t.source = s.source
      /\ t.hold = s.hold /\ t.pre = s.pre /\ t.token = s.token /\ t.wallet = s.wallet
      /\ t.sub = s.sub /\ t.extra = s.extra /\ t.est = s.est /\ t.asked = s.asked /\ t.usage = s.usage
      /\ t.streamed = s.streamed /\ t.actual = s.actual
      /\ t.fundingSettled = s.fundingSettled /\ t.settled = s.settled
      /\ t.refunded = s.refunded /\ t.seen = s.seen /\ t.failed = s.failed
  BY <1>1, <1>4 DEF Goes, Session
<1>6. /\ record'[q] = record[q] /\ walletPaid'[q] = walletPaid[q]
      /\ subPaid'[q] = subPaid[q] /\ tokenPaid'[q] = tokenPaid[q]
  BY <1>1 DEF Goes
<1>7. SeenInv(q)' /\ FlagInv(q)' /\ HoldInv(q)' /\ FundInv(q)' /\ TokenInv(q)'
  BY <1>1, <1>2, <1>5, <1>6
     DEF RequestInv, Holding, SeenInv, FlagInv, HoldInv, Estimate, FundInv, TokenInv, Spent, Due,
         Before, Held, Reserving, Refunding
<1>8. walletPaid'[q] + subPaid'[q] <= walletPaid[q] + subPaid[q]
  BY <1>1, <1>2, <1>6 DEF Holding
<1> QED
  BY <1>4, <1>5, <1>7, <1>8, CapSame DEF RequestInv

\* Reserve has charged the funding source.
LEMMA ReserveTook ==
  ASSUME TypeOK, SubWithinTotal, NEW q \in Requests, RequestInv(q),
         ses[q].pc = "reserve",
         Took(q, [ses[q] EXCEPT !.wallet = IF ses[q].source = "wallet" THEN @ + ses[q].hold ELSE @,
                            !.pc = "rtoken"],
              ses[q].hold)
  PROVE  RequestInv(q)'
<1> DEFINE s == ses[q]
           t == ses'[q]
<1>1. /\ s \in Session /\ SubTotal \in Nat
      /\ walletPaid[q] \in Int /\ subPaid[q] \in Int /\ tokenPaid[q] \in Int
  BY Typed, QuotaAssumption
<1>2. Holding(q)
  BY AtHeld DEF Held
<1>3. s.streamed = 0 /\ s.pre + s.hold = s.asked
  BY <1>1, <1>2 DEF RequestInv, Holding, FlagInv, HoldInv, Estimate
<1>4. TypeOK' /\ t \in Session
  BY DEF Took, Becomes, Frame, TypeOK
<1>5. /\ t.pc = "rtoken" /\ t.plan = s.plan /\ t.kind = s.kind /\ t.source = s.source
      /\ t.hold = s.hold /\ t.pre = s.pre /\ t.token = s.token
      /\ t.wallet = IF s.source = "wallet" THEN s.wallet + s.hold ELSE s.wallet
      /\ t.sub = s.sub /\ t.extra = s.extra /\ t.est = s.est /\ t.asked = s.asked /\ t.usage = s.usage
      /\ t.streamed = s.streamed /\ t.actual = s.actual
      /\ t.fundingSettled = s.fundingSettled /\ t.settled = s.settled
      /\ t.refunded = s.refunded /\ t.seen \in {NoRead, s.seen} /\ t.failed = s.failed
  BY ZenonT(60), <1>1, <1>4 DEF Took, Becomes, Marked, Session
<1>6. /\ record'[q] = record[q] /\ tokenPaid'[q] = tokenPaid[q]
      /\ \/ /\ s.source = "wallet"
            /\ walletPaid'[q] = walletPaid[q] + (s.hold) /\ subPaid'[q] = subPaid[q]
         \/ /\ s.source = "sub"
            /\ walletPaid'[q] = walletPaid[q] /\ subPaid'[q] = subPaid[q] + (s.hold)
  BY <1>1 DEF Took, Becomes
<1>7. SeenInv(q)' /\ FlagInv(q)' /\ HoldInv(q)' /\ FundInv(q)' /\ TokenInv(q)'
  <2>1. SeenInv(q)' /\ FlagInv(q)'
    BY <1>1, <1>2, <1>3, <1>5, <1>6
       DEF RequestInv, Holding, SeenInv, FlagInv, Before, Reserving, Refunding
  <2>2. HoldInv(q)'
    <3>1. CASE s.source = "wallet"
      BY <1>1, <1>2, <1>3, <1>5, <1>6, <3>1
         DEF RequestInv, Holding, HoldInv, Estimate, Before, Held, Reserving
    <3>2. CASE s.source = "sub"
      BY <1>1, <1>2, <1>3, <1>5, <1>6, <3>2
         DEF RequestInv, Holding, HoldInv, Estimate, Before, Held, Reserving
    <3> QED
      BY <1>2, <3>1, <3>2 DEF Holding
  <2>3. FundInv(q)'
    <3>1. CASE s.source = "wallet"
      <4>1. walletPaid'[q] = s.pre + s.hold /\ subPaid'[q] = 0
        BY <1>1, <1>2, <1>3, <1>6, <3>1 DEF Holding
      <4> QED
        BY <1>1, <1>2, <1>3, <1>5, <3>1, <4>1
           DEF RequestInv, Holding, FundInv, Spent, Before, Held, Reserving
    <3>2. CASE s.source = "sub"
      <4>1. walletPaid'[q] = 0 /\ subPaid'[q] = s.pre + s.hold
        BY <1>1, <1>2, <1>3, <1>6, <3>2 DEF Holding
      <4> QED
        BY <1>1, <1>2, <1>3, <1>5, <3>2, <4>1
           DEF RequestInv, Holding, FundInv, Spent, Before, Held, Reserving
    <3> QED
      BY <1>2, <3>1, <3>2 DEF Holding
  <2>4. TokenInv(q)'
    BY <1>1, <1>2, <1>3, <1>5, <1>6 DEF RequestInv, Holding, TokenInv, Due
  <2> QED
    BY <2>1, <2>2, <2>3, <2>4
<1> QED
  BY <1>4, <1>5, <1>7, CapHere DEF RequestInv, Before, Held, Reserving

\* It could not.
LEMMA ReserveRefused ==
  ASSUME TypeOK, SubWithinTotal, NEW q \in Requests, RequestInv(q),
         ses[q].pc = "reserve",
         Refuses(q, [ses[q] EXCEPT !.hold = 0, !.pc = "error"], ses[q].hold)
  PROVE  RequestInv(q)'
<1> DEFINE s == ses[q]
           t == ses'[q]
<1>1. /\ s \in Session /\ SubTotal \in Nat
      /\ walletPaid[q] \in Int /\ subPaid[q] \in Int /\ tokenPaid[q] \in Int
  BY Typed, QuotaAssumption
<1>2. Holding(q)
  BY AtHeld DEF Held
<1>4. TypeOK' /\ t \in Session
  BY DEF Refuses, Becomes, Frame, TypeOK
<1>5. /\ t.pc = "error" /\ t.plan = s.plan /\ t.kind = s.kind /\ t.source = s.source
      /\ t.hold = 0 /\ t.pre = s.pre /\ t.token = s.token /\ t.wallet = s.wallet
      /\ t.sub = s.sub /\ t.extra = s.extra /\ t.est = s.est /\ t.asked = s.asked /\ t.usage = s.usage
      /\ t.streamed = s.streamed /\ t.actual = s.actual
      /\ t.fundingSettled = s.fundingSettled /\ t.settled = s.settled
      /\ t.refunded = s.refunded /\ t.seen \in {NoRead, s.seen}
      /\ t.failed \/ (s.hold > 0 /\ t.failed = s.failed)
  BY ZenonT(60), <1>1, <1>4 DEF Refuses, Becomes, Marked, Session
<1>6. /\ record'[q] = record[q] /\ tokenPaid'[q] = tokenPaid[q]
      /\ walletPaid'[q] = walletPaid[q] /\ subPaid'[q] = subPaid[q]
  BY <1>1 DEF Refuses, Becomes
<1>7. SeenInv(q)' /\ FlagInv(q)' /\ HoldInv(q)' /\ FundInv(q)' /\ TokenInv(q)'
  BY <1>1, <1>2, <1>5, <1>6
     DEF RequestInv, Holding, SeenInv, FlagInv, HoldInv, Estimate, FundInv, TokenInv, Spent, Due,
         Before, Held, Reserving, Refunding
<1>8. walletPaid'[q] + subPaid'[q] <= walletPaid[q] + subPaid[q]
  BY <1>1, <1>2, <1>6 DEF Holding
<1> QED
  BY <1>4, <1>5, <1>7, <1>8, CapSame DEF RequestInv

\* The token has enough left for it, or not.
LEMMA ReserveEnough ==
  ASSUME TypeOK, SubWithinTotal, NEW q \in Requests, RequestInv(q),
         ses[q].pc = "rtoken",
         Goes(q, [ses[q] EXCEPT !.pc = "rtokendec"], 0, 0, 0)
  PROVE  RequestInv(q)'
<1> DEFINE s == ses[q]
           t == ses'[q]
<1>1. /\ s \in Session /\ SubTotal \in Nat
      /\ walletPaid[q] \in Int /\ subPaid[q] \in Int /\ tokenPaid[q] \in Int
  BY Typed, QuotaAssumption
<1>2. Hanging(q)
  BY AtReserving DEF Reserving
<1>4. TypeOK' /\ t \in Session
  BY DEF Goes, Frame, TypeOK
<1>5. /\ t.pc = "rtokendec" /\ t.plan = s.plan /\ t.kind = s.kind /\ t.source = s.source
      /\ t.hold = s.hold /\ t.pre = s.pre /\ t.token = s.token /\ t.wallet = s.wallet
      /\ t.sub = s.sub /\ t.extra = s.extra /\ t.est = s.est /\ t.asked = s.asked /\ t.usage = s.usage
      /\ t.streamed = s.streamed /\ t.actual = s.actual
      /\ t.fundingSettled = s.fundingSettled /\ t.settled = s.settled
      /\ t.refunded = s.refunded /\ t.seen = s.seen /\ t.failed = s.failed
  BY <1>1, <1>4 DEF Goes, Session
<1>6. /\ record'[q] = record[q] /\ walletPaid'[q] = walletPaid[q]
      /\ subPaid'[q] = subPaid[q] /\ tokenPaid'[q] = tokenPaid[q]
  BY <1>1 DEF Goes
<1>7. SeenInv(q)' /\ FlagInv(q)' /\ HoldInv(q)' /\ FundInv(q)' /\ TokenInv(q)'
  BY <1>1, <1>2, <1>5, <1>6
     DEF RequestInv, Hanging, SeenInv, FlagInv, HoldInv, Estimate, FundInv, TokenInv, Spent, Due,
         Before, Held, Reserving, Refunding
<1> QED
  BY <1>4, <1>5, <1>7, CapHere DEF RequestInv, Before, Held, Reserving

LEMMA ReserveTokenRefused ==
  ASSUME TypeOK, SubWithinTotal, NEW q \in Requests, RequestInv(q),
         ses[q].pc = "rtoken",
         Goes(q, [ses[q] EXCEPT !.pc = "unreserve"], 0, 0, 0)
  PROVE  RequestInv(q)'
<1> DEFINE s == ses[q]
           t == ses'[q]
<1>1. /\ s \in Session /\ SubTotal \in Nat
      /\ walletPaid[q] \in Int /\ subPaid[q] \in Int /\ tokenPaid[q] \in Int
  BY Typed, QuotaAssumption
<1>2. Hanging(q)
  BY AtReserving DEF Reserving
<1>4. TypeOK' /\ t \in Session
  BY DEF Goes, Frame, TypeOK
<1>5. /\ t.pc = "unreserve" /\ t.plan = s.plan /\ t.kind = s.kind /\ t.source = s.source
      /\ t.hold = s.hold /\ t.pre = s.pre /\ t.token = s.token /\ t.wallet = s.wallet
      /\ t.sub = s.sub /\ t.extra = s.extra /\ t.est = s.est /\ t.asked = s.asked /\ t.usage = s.usage
      /\ t.streamed = s.streamed /\ t.actual = s.actual
      /\ t.fundingSettled = s.fundingSettled /\ t.settled = s.settled
      /\ t.refunded = s.refunded /\ t.seen = s.seen /\ t.failed = s.failed
  BY <1>1, <1>4 DEF Goes, Session
<1>6. /\ record'[q] = record[q] /\ walletPaid'[q] = walletPaid[q]
      /\ subPaid'[q] = subPaid[q] /\ tokenPaid'[q] = tokenPaid[q]
  BY <1>1 DEF Goes
<1>7. SeenInv(q)' /\ FlagInv(q)' /\ HoldInv(q)' /\ FundInv(q)' /\ TokenInv(q)'
  BY <1>1, <1>2, <1>5, <1>6
     DEF RequestInv, Hanging, SeenInv, FlagInv, HoldInv, Estimate, FundInv, TokenInv, Spent, Due,
         Before, Held, Reserving, Refunding
<1> QED
  BY <1>4, <1>5, <1>7, CapHere DEF RequestInv, Before, Held, Reserving

LEMMA ReserveTokenFailed ==
  ASSUME TypeOK, SubWithinTotal, NEW q \in Requests, RequestInv(q),
         ses[q].pc \in {"rtoken", "rtokendec"},
         Goes(q, Failed([ses[q] EXCEPT !.pc = "unreserve"]), 0, 0, 0)
  PROVE  RequestInv(q)'
<1> DEFINE s == ses[q]
           t == ses'[q]
<1>1. /\ s \in Session /\ SubTotal \in Nat
      /\ walletPaid[q] \in Int /\ subPaid[q] \in Int /\ tokenPaid[q] \in Int
  BY Typed, QuotaAssumption
<1>2. Hanging(q)
  BY AtReserving DEF Reserving
<1>4. TypeOK' /\ t \in Session
  BY DEF Goes, Frame, TypeOK
<1>5. /\ t.pc = "unreserve" /\ t.plan = s.plan /\ t.kind = s.kind /\ t.source = s.source
      /\ t.hold = s.hold /\ t.pre = s.pre /\ t.token = s.token /\ t.wallet = s.wallet
      /\ t.sub = s.sub /\ t.extra = s.extra /\ t.est = s.est /\ t.asked = s.asked /\ t.usage = s.usage
      /\ t.streamed = s.streamed /\ t.actual = s.actual
      /\ t.fundingSettled = s.fundingSettled /\ t.settled = s.settled
      /\ t.refunded = s.refunded /\ t.seen = NoRead /\ t.failed
  BY <1>1, <1>4 DEF Goes, Session, Failed
<1>6. /\ record'[q] = record[q] /\ walletPaid'[q] = walletPaid[q]
      /\ subPaid'[q] = subPaid[q] /\ tokenPaid'[q] = tokenPaid[q]
  BY <1>1 DEF Goes
<1>7. SeenInv(q)' /\ FlagInv(q)' /\ HoldInv(q)' /\ FundInv(q)' /\ TokenInv(q)'
  <2>1. SeenInv(q)' /\ FlagInv(q)'
    BY <1>1, <1>2, <1>5, <1>6
       DEF RequestInv, Hanging, SeenInv, FlagInv, Before, Reserving, Refunding
  <2>2. HoldInv(q)'
    BY <1>1, <1>2, <1>5, <1>6 DEF RequestInv, Hanging, HoldInv, Estimate, Before, Held, Reserving
  <2>3. FundInv(q)'
    BY <1>1, <1>2, <1>5, <1>6
       DEF RequestInv, Hanging, FundInv, Spent, Before, Held, Reserving
  <2>4. TokenInv(q)'
    BY <1>1, <1>2, <1>5, <1>6 DEF RequestInv, Hanging, TokenInv, Due
  <2> QED
    BY <2>1, <2>2, <2>3, <2>4
<1> QED
  BY <1>4, <1>5, <1>7, CapHere DEF RequestInv, Before, Held, Reserving

\* The token is charged for it.
LEMMA ReserveTokenTook ==
  ASSUME TypeOK, SubWithinTotal, NEW q \in Requests, RequestInv(q),
         ses[q].pc = "rtokendec",
         NEW k \in Int,
         k = IF ses[q].kind = "playground" THEN 0 ELSE ses[q].hold,
         Goes(q, [ses[q] EXCEPT !.pre = @ + ses[q].hold, !.token = @ + ses[q].hold, !.extra = @ + ses[q].hold,
                                  !.hold = 0, !.pc = "serve"], 0, 0, k)
  PROVE  RequestInv(q)'
<1> DEFINE s == ses[q]
           t == ses'[q]
<1>1. /\ s \in Session /\ SubTotal \in Nat
      /\ walletPaid[q] \in Int /\ subPaid[q] \in Int /\ tokenPaid[q] \in Int
  BY Typed, QuotaAssumption
<1>2. Hanging(q)
  BY AtReserving DEF Reserving
<1>4. TypeOK' /\ t \in Session
  BY DEF Goes, Frame, TypeOK
<1>5. /\ t.pc = "serve" /\ t.plan = s.plan /\ t.kind = s.kind /\ t.source = s.source
      /\ t.hold = 0 /\ t.pre = s.pre + s.hold /\ t.token = s.token + s.hold
      /\ t.wallet = s.wallet /\ t.sub = s.sub /\ t.extra = s.extra + s.hold /\ t.est = s.est /\ t.asked = s.asked
      /\ t.usage = s.usage /\ t.streamed = s.streamed /\ t.actual = s.actual
      /\ t.fundingSettled = s.fundingSettled /\ t.settled = s.settled
      /\ t.refunded = s.refunded /\ t.seen = s.seen /\ t.failed = s.failed
  BY <1>1, <1>4 DEF Goes, Session
<1>6. /\ record'[q] = record[q] /\ walletPaid'[q] = walletPaid[q]
      /\ subPaid'[q] = subPaid[q] /\ tokenPaid'[q] = tokenPaid[q] + k
  BY <1>1 DEF Goes
<1>7. SeenInv(q)' /\ FlagInv(q)' /\ HoldInv(q)' /\ FundInv(q)' /\ TokenInv(q)'
  <2>1. SeenInv(q)' /\ FlagInv(q)'
    BY <1>1, <1>2, <1>5, <1>6
       DEF RequestInv, Hanging, SeenInv, FlagInv, Before, Reserving, Refunding
  <2>2. HoldInv(q)'
    BY <1>1, <1>2, <1>5, <1>6 DEF RequestInv, Hanging, HoldInv, Estimate, Before, Held, Reserving
  <2>3. FundInv(q)'
    BY <1>1, <1>2, <1>5, <1>6
       DEF RequestInv, Hanging, FundInv, Spent, Before, Held, Reserving
  <2>4. TokenInv(q)'
    <3>1. s.token \in Nat /\ s.hold \in Nat /\ t.token = s.token + s.hold /\ t.streamed = 0
      BY <1>1, <1>2, <1>5 DEF Hanging, Session
    <3>2. CASE s.kind = "playground"
      BY <1>1, <1>5, <1>6, <3>2 DEF RequestInv, TokenInv
    <3>3. CASE s.kind # "playground"
      <4>1. /\ tokenPaid'[q] = tokenPaid[q] + s.hold /\ tokenPaid[q] >= s.token
            /\ ~s.failed => tokenPaid[q] = s.token
        BY <1>1, <1>2, <1>6, <3>1, <3>3 DEF RequestInv, Hanging, TokenInv
      <4>2. /\ tokenPaid'[q] >= t.token /\ tokenPaid'[q] >= 0
            /\ ~t.failed => tokenPaid'[q] = t.token + t.streamed
        BY <1>1, <1>5, <3>1, <4>1
      <4> QED
        BY <1>5, <3>3, <4>2 DEF TokenInv
    <3> QED
      BY <3>2, <3>3
  <2> QED
    BY <2>1, <2>2, <2>3, <2>4
<1> QED
  BY <1>4, <1>5, <1>7, CapHere DEF RequestInv, Before, Held, Reserving

\* The funding source gets it back.
LEMMA Unreserved ==
  ASSUME TypeOK, SubWithinTotal, NEW q \in Requests, RequestInv(q),
         ses[q].pc = "unreserve",
         Took(q, [ses[q] EXCEPT !.wallet = IF ses[q].source = "wallet" THEN @ - ses[q].hold ELSE @,
                            !.hold = 0, !.pc = "error"],
              -ses[q].hold)
  PROVE  RequestInv(q)'
<1> DEFINE s == ses[q]
           t == ses'[q]
<1>1. /\ s \in Session /\ SubTotal \in Nat
      /\ walletPaid[q] \in Int /\ subPaid[q] \in Int /\ tokenPaid[q] \in Int
  BY Typed, QuotaAssumption
<1>2. Hanging(q)
  BY AtReserving DEF Reserving
<1>4. TypeOK' /\ t \in Session
  BY DEF Took, Becomes, Frame, TypeOK
<1>5. /\ t.pc = "error" /\ t.plan = s.plan /\ t.kind = s.kind /\ t.source = s.source
      /\ t.hold = 0 /\ t.pre = s.pre /\ t.token = s.token
      /\ t.wallet = IF s.source = "wallet" THEN s.wallet - s.hold ELSE s.wallet
      /\ t.sub = s.sub /\ t.extra = s.extra /\ t.est = s.est /\ t.asked = s.asked /\ t.usage = s.usage
      /\ t.streamed = s.streamed /\ t.actual = s.actual
      /\ t.fundingSettled = s.fundingSettled /\ t.settled = s.settled
      /\ t.refunded = s.refunded /\ t.seen \in {NoRead, s.seen} /\ t.failed = s.failed
  BY ZenonT(60), <1>1, <1>4 DEF Took, Becomes, Marked, Session
<1>6. /\ record'[q] = record[q] /\ tokenPaid'[q] = tokenPaid[q]
      /\ \/ /\ s.source = "wallet"
            /\ walletPaid'[q] = walletPaid[q] + (-s.hold) /\ subPaid'[q] = subPaid[q]
         \/ /\ s.source = "sub"
            /\ walletPaid'[q] = walletPaid[q] /\ subPaid'[q] = subPaid[q] + (-s.hold)
  BY <1>1 DEF Took, Becomes
<1>7. SeenInv(q)' /\ FlagInv(q)' /\ HoldInv(q)' /\ FundInv(q)' /\ TokenInv(q)'
  <2>1. SeenInv(q)' /\ FlagInv(q)'
    BY <1>1, <1>2, <1>5, <1>6
       DEF RequestInv, Hanging, SeenInv, FlagInv, Before, Reserving, Refunding
  <2>2. HoldInv(q)'
    BY <1>1, <1>2, <1>5, <1>6 DEF RequestInv, Hanging, HoldInv, Estimate, Before, Held, Reserving
  <2>3. FundInv(q)'
    <3>1. CASE s.source = "wallet"
      <4>1. walletPaid'[q] = s.pre /\ subPaid'[q] = 0
        BY SMTT(30), <1>1, <1>2, <1>6, <3>1 DEF Hanging
      <4> QED
        BY <1>1, <1>2, <1>5, <3>1, <4>1
           DEF RequestInv, Hanging, FundInv, Spent, Before, Held, Reserving
    <3>2. CASE s.source = "sub"
      <4>1. walletPaid'[q] = 0 /\ subPaid'[q] = s.pre
        BY SMTT(30), <1>1, <1>2, <1>6, <3>2 DEF Hanging
      <4> QED
        BY <1>1, <1>2, <1>5, <3>2, <4>1
           DEF RequestInv, Hanging, FundInv, Spent, Before, Held, Reserving
    <3> QED
      BY <1>2, <3>1, <3>2 DEF Hanging
  <2>4. TokenInv(q)'
    BY <1>1, <1>2, <1>5, <1>6 DEF RequestInv, Hanging, TokenInv, Due
  <2> QED
    BY <2>1, <2>2, <2>3, <2>4
<1>8. walletPaid'[q] + subPaid'[q] <= walletPaid[q] + subPaid[q]
  <2>1. CASE s.source = "wallet"
    BY <1>1, <1>2, <1>6, <2>1 DEF Hanging
  <2>2. CASE s.source = "sub"
    BY <1>1, <1>2, <1>6, <2>2 DEF Hanging
  <2> QED
    BY <1>2, <2>1, <2>2 DEF Hanging
<1> QED
  BY <1>4, <1>5, <1>7, <1>8, CapSame DEF RequestInv

\* It does not.
LEMMA NotUnreserved ==
  ASSUME TypeOK, SubWithinTotal, NEW q \in Requests, RequestInv(q),
         ses[q].pc = "unreserve",
         Refuses(q, [ses[q] EXCEPT !.hold = 0, !.pc = "error"], -ses[q].hold)
  PROVE  RequestInv(q)'
<1> DEFINE s == ses[q]
           t == ses'[q]
<1>1. /\ s \in Session /\ SubTotal \in Nat
      /\ walletPaid[q] \in Int /\ subPaid[q] \in Int /\ tokenPaid[q] \in Int
  BY Typed, QuotaAssumption
<1>2. Hanging(q)
  BY AtReserving DEF Reserving
<1>4. TypeOK' /\ t \in Session
  BY DEF Refuses, Becomes, Frame, TypeOK
<1>5. /\ t.pc = "error" /\ t.plan = s.plan /\ t.kind = s.kind /\ t.source = s.source
      /\ t.hold = 0 /\ t.pre = s.pre /\ t.token = s.token /\ t.wallet = s.wallet
      /\ t.sub = s.sub /\ t.extra = s.extra /\ t.est = s.est /\ t.asked = s.asked /\ t.usage = s.usage
      /\ t.streamed = s.streamed /\ t.actual = s.actual
      /\ t.fundingSettled = s.fundingSettled /\ t.settled = s.settled
      /\ t.refunded = s.refunded /\ t.seen \in {NoRead, s.seen}
      /\ t.failed \/ (-s.hold > 0 /\ t.failed = s.failed)
  BY ZenonT(60), <1>1, <1>4 DEF Refuses, Becomes, Marked, Session
<1>6. /\ record'[q] = record[q] /\ tokenPaid'[q] = tokenPaid[q]
      /\ walletPaid'[q] = walletPaid[q] /\ subPaid'[q] = subPaid[q]
  BY <1>1 DEF Refuses, Becomes
<1>7. SeenInv(q)' /\ FlagInv(q)' /\ HoldInv(q)' /\ FundInv(q)' /\ TokenInv(q)'
  BY <1>1, <1>2, <1>5, <1>6
     DEF RequestInv, Hanging, SeenInv, FlagInv, HoldInv, Estimate, FundInv, TokenInv, Spent, Due,
         Before, Held, Reserving, Refunding
<1>8. walletPaid'[q] + subPaid'[q] <= walletPaid[q] + subPaid[q]
  BY <1>1, <1>2, <1>6 DEF Hanging
<1> QED
  BY <1>4, <1>5, <1>7, <1>8, CapSame DEF RequestInv

\* Usage is charged.
LEMMA UsageTook ==
  ASSUME TypeOK, SubWithinTotal, NEW q \in Requests, RequestInv(q),
         ses[q].pc = "stream",
         Took(q, [ses[q] EXCEPT !.streamed = @ + 1, !.pc = "streamtoken"], 1)
  PROVE  RequestInv(q)'
<1> DEFINE s == ses[q]
           t == ses'[q]
<1>1. /\ s \in Session /\ SubTotal \in Nat
      /\ walletPaid[q] \in Int /\ subPaid[q] \in Int /\ tokenPaid[q] \in Int
  BY Typed, QuotaAssumption
<1>2. Holding(q)
  BY AtHeld DEF Held
<1>3. s.streamed + 1 <= s.usage
  BY <1>1, <1>2 DEF RequestInv, Holding, FlagInv
<1>4. TypeOK' /\ t \in Session
  BY DEF Took, Becomes, Frame, TypeOK
<1>5. /\ t.pc = "streamtoken" /\ t.plan = s.plan /\ t.kind = s.kind /\ t.source = s.source
      /\ t.hold = s.hold /\ t.pre = s.pre /\ t.token = s.token /\ t.wallet = s.wallet
      /\ t.sub = s.sub /\ t.extra = s.extra /\ t.est = s.est /\ t.asked = s.asked /\ t.usage = s.usage
      /\ t.streamed = s.streamed + 1 /\ t.actual = s.actual
      /\ t.fundingSettled = s.fundingSettled /\ t.settled = s.settled
      /\ t.refunded = s.refunded /\ t.seen \in {NoRead, s.seen} /\ t.failed = s.failed
  BY ZenonT(60), <1>1, <1>4 DEF Took, Becomes, Marked, Session
<1>6. /\ record'[q] = record[q] /\ tokenPaid'[q] = tokenPaid[q]
      /\ \/ /\ s.source = "wallet"
            /\ walletPaid'[q] = walletPaid[q] + (1) /\ subPaid'[q] = subPaid[q]
         \/ /\ s.source = "sub"
            /\ walletPaid'[q] = walletPaid[q] /\ subPaid'[q] = subPaid[q] + (1)
  BY <1>1 DEF Took, Becomes
<1>7. SeenInv(q)' /\ FlagInv(q)' /\ HoldInv(q)' /\ FundInv(q)' /\ TokenInv(q)'
  <2>1. SeenInv(q)' /\ FlagInv(q)'
    BY <1>1, <1>2, <1>3, <1>5, <1>6
       DEF RequestInv, Holding, SeenInv, FlagInv, Before, Reserving, Refunding
  <2>2. HoldInv(q)'
    BY <1>1, <1>2, <1>3, <1>5, <1>6
       DEF RequestInv, Holding, HoldInv, Estimate, Before, Held, Reserving
  <2>3. FundInv(q)'
    <3>1. CASE s.source = "wallet"
      <4>1. walletPaid'[q] = s.pre + (s.streamed + 1) /\ subPaid'[q] = 0
        BY <1>1, <1>2, <1>3, <1>6, <3>1 DEF Holding
      <4> QED
        BY <1>1, <1>2, <1>3, <1>5, <3>1, <4>1
           DEF RequestInv, Holding, FundInv, Spent, Before, Held, Reserving
    <3>2. CASE s.source = "sub"
      <4>1. walletPaid'[q] = 0 /\ subPaid'[q] = s.pre + (s.streamed + 1)
        BY <1>1, <1>2, <1>3, <1>6, <3>2 DEF Holding
      <4> QED
        BY <1>1, <1>2, <1>3, <1>5, <3>2, <4>1
           DEF RequestInv, Holding, FundInv, Spent, Before, Held, Reserving
    <3> QED
      BY <1>2, <3>1, <3>2 DEF Holding
  <2>4. TokenInv(q)'
    BY <1>1, <1>2, <1>3, <1>5, <1>6 DEF RequestInv, Holding, TokenInv, Due
  <2> QED
    BY <2>1, <2>2, <2>3, <2>4
<1> QED
  BY <1>4, <1>5, <1>7, CapHere DEF RequestInv, Before, Held, Reserving

\* The token is charged for it.
LEMMA UsageTokenTook ==
  ASSUME TypeOK, SubWithinTotal, NEW q \in Requests, RequestInv(q),
         ses[q].pc = "streamtoken",
         NEW k \in Int,
         k = IF ses[q].kind = "playground" THEN 0 ELSE 1,
         NEW t \in Session, SameHold(t, ses[q]), t.seen = ses[q].seen,
         t.failed = ses[q].failed, t.usage = ses[q].usage, t.pc \in {"serve", "ending"},
         Goes(q, t, 0, 0, k)
  PROVE  RequestInv(q)'
<1> DEFINE s == ses[q]
<1>1. /\ s \in Session /\ SubTotal \in Nat
      /\ walletPaid[q] \in Int /\ subPaid[q] \in Int /\ tokenPaid[q] \in Int
  BY Typed, QuotaAssumption
<1>2. Holding(q) /\ q \in Realtime
  BY AtHeld DEF Held, RequestInv, FlagInv
<1>4. TypeOK' /\ ses'[q] = t
  BY DEF Goes, Frame
<1>6. /\ record'[q] = record[q] /\ walletPaid'[q] = walletPaid[q]
      /\ subPaid'[q] = subPaid[q] /\ tokenPaid'[q] = tokenPaid[q] + k
  BY <1>1 DEF Goes
<1>7. SeenInv(q)' /\ FlagInv(q)' /\ HoldInv(q)' /\ FundInv(q)' /\ TokenInv(q)'
  <2>1. SeenInv(q)'
    BY <1>1, <1>4 DEF RequestInv, SeenInv, Before
  <2>2. FlagInv(q)'
    BY <1>1, <1>2, <1>4, <1>6
       DEF RequestInv, SameHold, Holding, FlagInv, Before, Reserving, Refunding
  <2>3. HoldInv(q)'
    BY <1>1, <1>2, <1>4 DEF RequestInv, SameHold, Holding, HoldInv, Estimate, Before, Held, Reserving
  <2>4. FundInv(q)'
    BY <1>1, <1>2, <1>4, <1>6
       DEF RequestInv, SameHold, Holding, FundInv, Spent, Before, Held, Reserving
  <2>5. TokenInv(q)'
    BY <1>1, <1>2, <1>4, <1>6 DEF RequestInv, SameHold, Holding, TokenInv, Due
  <2> QED
    BY <2>1, <2>2, <2>3, <2>4, <2>5
<1> QED
  BY <1>4, <1>7, CapHere DEF RequestInv, Before, Held, Reserving

\* The hold is what the request used.
LEMMA NothingToSettle ==
  ASSUME TypeOK, SubWithinTotal, NEW q \in Requests, RequestInv(q),
         ses[q].pc = "settle",
         ses[q].actual = ses[q].pre,
         Goes(q, [ses[q] EXCEPT !.settled = TRUE, !.pc = "done"], 0, 0, 0)
  PROVE  RequestInv(q)'
<1> DEFINE s == ses[q]
           t == ses'[q]
<1>1. /\ s \in Session /\ SubTotal \in Nat
      /\ walletPaid[q] \in Int /\ subPaid[q] \in Int /\ tokenPaid[q] \in Int
  BY Typed, QuotaAssumption
<1>2. Holding(q)
  BY AtHeld DEF Held
<1>4. TypeOK' /\ t \in Session
  BY DEF Goes, Frame, TypeOK
<1>5. /\ t.pc = "done" /\ t.plan = s.plan /\ t.kind = s.kind /\ t.source = s.source
      /\ t.hold = s.hold /\ t.pre = s.pre /\ t.token = s.token /\ t.wallet = s.wallet
      /\ t.sub = s.sub /\ t.extra = s.extra /\ t.est = s.est /\ t.asked = s.asked /\ t.usage = s.usage
      /\ t.streamed = s.streamed /\ t.actual = s.actual
      /\ t.fundingSettled = s.fundingSettled /\ t.settled /\ t.refunded = s.refunded
      /\ t.seen = s.seen /\ t.failed = s.failed
  BY <1>1, <1>4 DEF Goes, Session
<1>6. /\ record'[q] = record[q] /\ walletPaid'[q] = walletPaid[q]
      /\ subPaid'[q] = subPaid[q] /\ tokenPaid'[q] = tokenPaid[q]
  BY <1>1 DEF Goes
<1>7. SeenInv(q)' /\ FlagInv(q)' /\ HoldInv(q)' /\ FundInv(q)' /\ TokenInv(q)'
  BY <1>1, <1>2, <1>5, <1>6
     DEF RequestInv, Holding, SeenInv, FlagInv, HoldInv, Estimate, FundInv, TokenInv, Spent, Due,
         Before, Held, Reserving, Refunding
<1> QED
  BY <1>4, <1>5, <1>7, CapHere DEF RequestInv, Before, Held, Reserving

\* The difference is settled.
LEMMA SettleTook ==
  ASSUME TypeOK, SubWithinTotal, NEW q \in Requests, RequestInv(q),
         ses[q].pc = "settle",
         NEW d \in Int,
         d = ses[q].actual - ses[q].pre,
         NEW b \in BOOLEAN,
         Took(q, [ses[q] EXCEPT !.fundingSettled = b, !.pc = "settletoken"], d)
  PROVE  RequestInv(q)'
<1> DEFINE s == ses[q]
           t == ses'[q]
<1>1. /\ s \in Session /\ SubTotal \in Nat
      /\ walletPaid[q] \in Int /\ subPaid[q] \in Int /\ tokenPaid[q] \in Int
  BY Typed, QuotaAssumption
<1>2. Holding(q)
  BY AtHeld DEF Held
<1>4. TypeOK' /\ t \in Session
  BY DEF Took, Becomes, Frame, TypeOK
<1>5. /\ t.pc = "settletoken" /\ t.plan = s.plan /\ t.kind = s.kind /\ t.source = s.source
      /\ t.hold = s.hold /\ t.pre = s.pre /\ t.token = s.token /\ t.wallet = s.wallet
      /\ t.sub = s.sub /\ t.extra = s.extra /\ t.est = s.est /\ t.asked = s.asked /\ t.usage = s.usage
      /\ t.streamed = s.streamed /\ t.actual = s.actual /\ t.settled = s.settled
      /\ t.refunded = s.refunded /\ t.seen \in {NoRead, s.seen} /\ t.failed = s.failed
  <2>1. /\ t.pc = "settletoken" /\ t.plan = s.plan /\ t.kind = s.kind /\ t.source = s.source
        /\ t.hold = s.hold /\ t.pre = s.pre /\ t.token = s.token /\ t.wallet = s.wallet
        /\ t.sub = s.sub /\ t.extra = s.extra /\ t.est = s.est /\ t.asked = s.asked /\ t.usage = s.usage
        /\ t.streamed = s.streamed /\ t.actual = s.actual /\ t.seen \in {NoRead, s.seen}
    BY ZenonT(60), <1>1, <1>4 DEF Took, Becomes, Marked, Session
  <2>2. /\ t.settled = s.settled /\ t.refunded = s.refunded /\ t.failed = s.failed
    BY <1>1, <1>4 DEF Took, Becomes, Marked, Session
  <2> QED
    BY <2>1, <2>2
<1>6. /\ record'[q] = record[q] /\ tokenPaid'[q] = tokenPaid[q]
      /\ \/ /\ s.source = "wallet"
            /\ walletPaid'[q] = walletPaid[q] + (d) /\ subPaid'[q] = subPaid[q]
         \/ /\ s.source = "sub"
            /\ walletPaid'[q] = walletPaid[q] /\ subPaid'[q] = subPaid[q] + (d)
  BY <1>1 DEF Took, Becomes
<1>7. SeenInv(q)' /\ FlagInv(q)' /\ HoldInv(q)' /\ FundInv(q)' /\ TokenInv(q)'
  <2>1. SeenInv(q)' /\ FlagInv(q)'
    BY <1>1, <1>2, <1>5, <1>6
       DEF RequestInv, Holding, SeenInv, FlagInv, Before, Reserving, Refunding
  <2>2. HoldInv(q)'
    BY <1>1, <1>2, <1>5, <1>6 DEF RequestInv, Holding, HoldInv, Estimate, Before, Held, Reserving
  <2>3. FundInv(q)'
    <3>1. CASE s.source = "wallet"
      <4>1. walletPaid'[q] = s.streamed + s.actual /\ subPaid'[q] = 0
        BY <1>1, <1>2, <1>6, <3>1 DEF Holding
      <4> QED
        BY <1>1, <1>2, <1>5, <3>1, <4>1
           DEF RequestInv, Holding, FundInv, Spent, Before, Held, Reserving
    <3>2. CASE s.source = "sub"
      <4>1. walletPaid'[q] = 0 /\ subPaid'[q] = s.streamed + s.actual
        BY <1>1, <1>2, <1>6, <3>2 DEF Holding
      <4> QED
        BY <1>1, <1>2, <1>5, <3>2, <4>1
           DEF RequestInv, Holding, FundInv, Spent, Before, Held, Reserving
    <3> QED
      BY <1>2, <3>1, <3>2 DEF Holding
  <2>4. TokenInv(q)'
    BY <1>1, <1>2, <1>5, <1>6 DEF RequestInv, Holding, TokenInv, Due
  <2> QED
    BY <2>1, <2>2, <2>3, <2>4
<1> QED
  BY <1>4, <1>5, <1>7, CapHere DEF RequestInv, Before, Held, Reserving

\* It is not.
LEMMA SettleRefused ==
  ASSUME TypeOK, SubWithinTotal, NEW q \in Requests, RequestInv(q),
         ses[q].pc = "settle",
         NEW d \in Int,
         Refuses(q, [ses[q] EXCEPT !.pc = "unsettled"], d)
  PROVE  RequestInv(q)'
<1> DEFINE s == ses[q]
           t == ses'[q]
<1>1. /\ s \in Session /\ SubTotal \in Nat
      /\ walletPaid[q] \in Int /\ subPaid[q] \in Int /\ tokenPaid[q] \in Int
  BY Typed, QuotaAssumption
<1>2. Holding(q)
  BY AtHeld DEF Held
<1>4. TypeOK' /\ t \in Session
  BY DEF Refuses, Becomes, Frame, TypeOK
<1>5. /\ t.pc = "unsettled" /\ t.plan = s.plan /\ t.kind = s.kind /\ t.source = s.source
      /\ t.hold = s.hold /\ t.pre = s.pre /\ t.token = s.token /\ t.wallet = s.wallet
      /\ t.sub = s.sub /\ t.extra = s.extra /\ t.est = s.est /\ t.asked = s.asked /\ t.usage = s.usage
      /\ t.streamed = s.streamed /\ t.actual = s.actual
      /\ t.fundingSettled = s.fundingSettled /\ t.settled = s.settled
      /\ t.refunded = s.refunded /\ t.seen \in {NoRead, s.seen}
      /\ t.failed \/ (d > 0 /\ t.failed = s.failed)
  BY ZenonT(60), <1>1, <1>4 DEF Refuses, Becomes, Marked, Session
<1>6. /\ record'[q] = record[q] /\ tokenPaid'[q] = tokenPaid[q]
      /\ walletPaid'[q] = walletPaid[q] /\ subPaid'[q] = subPaid[q]
  BY <1>1 DEF Refuses, Becomes
<1>7. SeenInv(q)' /\ FlagInv(q)' /\ HoldInv(q)' /\ FundInv(q)' /\ TokenInv(q)'
  BY <1>1, <1>2, <1>5, <1>6
     DEF RequestInv, Holding, SeenInv, FlagInv, HoldInv, Estimate, FundInv, TokenInv, Spent, Due,
         Before, Held, Reserving, Refunding
<1> QED
  BY <1>4, <1>5, <1>7, CapHere DEF RequestInv, Before, Held, Reserving

\* The token pays the difference.
LEMMA SettleTokenTook ==
  ASSUME TypeOK, SubWithinTotal, NEW q \in Requests, RequestInv(q),
         ses[q].pc = "settletoken",
         NEW k \in Int,
         k = IF ses[q].kind = "playground" THEN 0 ELSE ses[q].actual - ses[q].pre,
         Goes(q, [ses[q] EXCEPT !.settled = TRUE, !.pc = "done"], 0, 0, k)
  PROVE  RequestInv(q)'
<1> DEFINE s == ses[q]
           t == ses'[q]
<1>1. /\ s \in Session /\ SubTotal \in Nat
      /\ walletPaid[q] \in Int /\ subPaid[q] \in Int /\ tokenPaid[q] \in Int
  BY Typed, QuotaAssumption
<1>3. /\ s.streamed \in Nat /\ s.actual \in Nat /\ s.pre \in Nat /\ s.token = s.pre
      /\ ~s.refunded /\ record[q] # "refunded"
  BY <1>1 DEF RequestInv, FlagInv, HoldInv, Estimate, Before, Refunding, Session
<1>4. TypeOK' /\ t \in Session
  BY DEF Goes, Frame, TypeOK
<1>5. /\ t.pc = "done" /\ t.plan = s.plan /\ t.kind = s.kind /\ t.source = s.source
      /\ t.hold = s.hold /\ t.pre = s.pre /\ t.token = s.token /\ t.wallet = s.wallet
      /\ t.sub = s.sub /\ t.extra = s.extra /\ t.est = s.est /\ t.asked = s.asked /\ t.usage = s.usage
      /\ t.streamed = s.streamed /\ t.actual = s.actual
      /\ t.fundingSettled = s.fundingSettled /\ t.settled /\ t.refunded = s.refunded
      /\ t.seen = s.seen /\ t.failed = s.failed
  BY <1>1, <1>4 DEF Goes, Session
<1>6. /\ record'[q] = record[q] /\ walletPaid'[q] = walletPaid[q]
      /\ subPaid'[q] = subPaid[q] /\ tokenPaid'[q] = tokenPaid[q] + k
  BY <1>1 DEF Goes
<1>7. SeenInv(q)' /\ FlagInv(q)' /\ HoldInv(q)' /\ FundInv(q)' /\ TokenInv(q)'
  <2>1. SeenInv(q)' /\ FlagInv(q)'
    BY <1>1, <1>3, <1>5, <1>6 DEF RequestInv, SeenInv, FlagInv, Before, Reserving, Refunding
  <2>2. HoldInv(q)'
    BY <1>1, <1>3, <1>5, <1>6 DEF RequestInv, HoldInv, Estimate, Before, Held, Reserving
  <2>3. FundInv(q)'
    BY <1>1, <1>3, <1>5, <1>6 DEF RequestInv, FundInv, Spent, Before, Held, Reserving
  <2>4. TokenInv(q)'
    BY <1>1, <1>3, <1>5, <1>6 DEF RequestInv, TokenInv, Due
  <2> QED
    BY <2>1, <2>2, <2>3, <2>4
<1> QED
  BY <1>4, <1>5, <1>7, CapHere DEF RequestInv, Before, Held, Reserving

\* It does not.
LEMMA SettleTokenRefused ==
  ASSUME TypeOK, SubWithinTotal, NEW q \in Requests, RequestInv(q),
         ses[q].pc = "settletoken",
         Refuses(q, [ses[q] EXCEPT !.settled = TRUE, !.pc = "done"], 0)
  PROVE  RequestInv(q)'
<1> DEFINE s == ses[q]
           t == ses'[q]
<1>1. /\ s \in Session /\ SubTotal \in Nat
      /\ walletPaid[q] \in Int /\ subPaid[q] \in Int /\ tokenPaid[q] \in Int
  BY Typed, QuotaAssumption
<1>3. /\ s.streamed \in Nat /\ s.actual \in Nat /\ s.pre \in Nat /\ s.token = s.pre
      /\ ~s.refunded /\ record[q] # "refunded"
  BY <1>1 DEF RequestInv, FlagInv, HoldInv, Estimate, Before, Refunding, Session
<1>4. TypeOK' /\ t \in Session
  BY DEF Refuses, Becomes, Frame, TypeOK
<1>5. /\ t.pc = "done" /\ t.plan = s.plan /\ t.kind = s.kind /\ t.source = s.source
      /\ t.hold = s.hold /\ t.pre = s.pre /\ t.token = s.token /\ t.wallet = s.wallet
      /\ t.sub = s.sub /\ t.extra = s.extra /\ t.est = s.est /\ t.asked = s.asked /\ t.usage = s.usage
      /\ t.streamed = s.streamed /\ t.actual = s.actual
      /\ t.fundingSettled = s.fundingSettled /\ t.settled /\ t.refunded = s.refunded
      /\ t.seen \in {NoRead, s.seen} /\ t.failed
  <2>1. /\ t.pc = "done" /\ t.plan = s.plan /\ t.kind = s.kind /\ t.source = s.source
        /\ t.hold = s.hold /\ t.pre = s.pre /\ t.token = s.token /\ t.wallet = s.wallet
        /\ t.sub = s.sub /\ t.extra = s.extra /\ t.est = s.est /\ t.asked = s.asked /\ t.usage = s.usage
        /\ t.streamed = s.streamed /\ t.actual = s.actual /\ t.seen \in {NoRead, s.seen}
    BY ZenonT(60), <1>1, <1>4 DEF Refuses, Becomes, Marked, Session
  <2>2. /\ t.fundingSettled = s.fundingSettled /\ t.settled /\ t.refunded = s.refunded
    BY <1>1, <1>4 DEF Refuses, Becomes, Marked, Session
  <2>3. t.failed
    BY NotPositive, Zenon DEF Refuses
  <2> QED
    BY <2>1, <2>2, <2>3
<1>6. /\ record'[q] = record[q] /\ tokenPaid'[q] = tokenPaid[q]
      /\ walletPaid'[q] = walletPaid[q] /\ subPaid'[q] = subPaid[q]
  BY <1>1 DEF Refuses, Becomes
<1>7. SeenInv(q)' /\ FlagInv(q)' /\ HoldInv(q)' /\ FundInv(q)' /\ TokenInv(q)'
  <2>1. SeenInv(q)' /\ FlagInv(q)'
    BY <1>1, <1>3, <1>5, <1>6 DEF RequestInv, SeenInv, FlagInv, Before, Reserving, Refunding
  <2>2. HoldInv(q)'
    BY <1>1, <1>3, <1>5, <1>6 DEF RequestInv, HoldInv, Estimate, Before, Held, Reserving
  <2>3. FundInv(q)'
    BY <1>1, <1>3, <1>5, <1>6 DEF RequestInv, FundInv, Spent, Before, Held, Reserving
  <2>4. TokenInv(q)'
    BY <1>1, <1>3, <1>5, <1>6 DEF RequestInv, TokenInv, Due
  <2> QED
    BY <2>1, <2>2, <2>3, <2>4
<1> QED
  BY <1>4, <1>5, <1>7, CapHere DEF RequestInv, Before, Held, Reserving

\* The refund starts, or there is nothing to give back.
LEMMA RefundStarts ==
  ASSUME TypeOK, SubWithinTotal, NEW q \in Requests, RequestInv(q),
         ses[q].pc = "error",
         Goes(q, [ses[q] EXCEPT !.refunded = TRUE, !.pc = "refund"], 0, 0, 0)
  PROVE  RequestInv(q)'
<1> DEFINE s == ses[q]
           t == ses'[q]
<1>1. /\ s \in Session /\ SubTotal \in Nat
      /\ walletPaid[q] \in Int /\ subPaid[q] \in Int /\ tokenPaid[q] \in Int
  BY Typed, QuotaAssumption
<1>2. Returning(q)
  BY AtReturning DEF Refunding
<1>4. TypeOK' /\ t \in Session
  BY DEF Goes, Frame, TypeOK
<1>5. /\ t.pc = "refund" /\ t.plan = s.plan /\ t.kind = s.kind /\ t.source = s.source
      /\ t.hold = s.hold /\ t.pre = s.pre /\ t.token = s.token /\ t.wallet = s.wallet
      /\ t.sub = s.sub /\ t.extra = s.extra /\ t.est = s.est /\ t.asked = s.asked /\ t.usage = s.usage
      /\ t.streamed = s.streamed /\ t.actual = s.actual
      /\ t.fundingSettled = s.fundingSettled /\ t.settled = s.settled /\ t.seen = s.seen
      /\ t.failed = s.failed
  BY <1>1, <1>4 DEF Goes, Session
<1>6. /\ record'[q] = record[q] /\ walletPaid'[q] = walletPaid[q]
      /\ subPaid'[q] = subPaid[q] /\ tokenPaid'[q] = tokenPaid[q]
  BY <1>1 DEF Goes
<1>7. SeenInv(q)' /\ FlagInv(q)' /\ HoldInv(q)' /\ FundInv(q)' /\ TokenInv(q)'
  <2>1. SeenInv(q)' /\ FlagInv(q)'
    BY <1>1, <1>2, <1>5, <1>6
       DEF RequestInv, Returning, SeenInv, FlagInv, Before, Reserving, Refunding
  <2>2. HoldInv(q)'
    BY <1>1, <1>2, <1>5, <1>6 DEF RequestInv, Returning, HoldInv, Estimate, Before, Held, Reserving
  <2>3. FundInv(q)'
    BY <1>1, <1>2, <1>5, <1>6
       DEF RequestInv, Returning, FundInv, Spent, Before, Held, Reserving
  <2>4. TokenInv(q)'
    BY <1>1, <1>2, <1>5, <1>6 DEF RequestInv, Returning, TokenInv, Due
  <2> QED
    BY <2>1, <2>2, <2>3, <2>4
<1>8. walletPaid'[q] + subPaid'[q] <= walletPaid[q] + subPaid[q]
  BY <1>1, <1>2, <1>6 DEF Returning
<1> QED
  BY <1>4, <1>5, <1>7, <1>8, CapSame DEF RequestInv

LEMMA NothingToRefund ==
  ASSUME TypeOK, SubWithinTotal, NEW q \in Requests, RequestInv(q),
         ses[q].pc = "error",
         ~NeedsRefund(ses[q]),
         Goes(q, [ses[q] EXCEPT !.pc = "done"], 0, 0, 0)
  PROVE  RequestInv(q)'
<1> DEFINE s == ses[q]
           t == ses'[q]
<1>1. /\ s \in Session /\ SubTotal \in Nat
      /\ walletPaid[q] \in Int /\ subPaid[q] \in Int /\ tokenPaid[q] \in Int
  BY Typed, QuotaAssumption
<1>2. Returning(q)
  BY AtReturning DEF Refunding
<1>3. s.pre = 0 /\ ~s.refunded
  BY <1>1, <1>2 DEF RequestInv, Returning, NeedsRefund, FlagInv, Refunding
<1>4. TypeOK' /\ t \in Session
  BY DEF Goes, Frame, TypeOK
<1>5. /\ t.pc = "done" /\ t.plan = s.plan /\ t.kind = s.kind /\ t.source = s.source
      /\ t.hold = s.hold /\ t.pre = s.pre /\ t.token = s.token /\ t.wallet = s.wallet
      /\ t.sub = s.sub /\ t.extra = s.extra /\ t.est = s.est /\ t.asked = s.asked /\ t.usage = s.usage
      /\ t.streamed = s.streamed /\ t.actual = s.actual
      /\ t.fundingSettled = s.fundingSettled /\ t.settled = s.settled
      /\ t.refunded = s.refunded /\ t.seen = s.seen /\ t.failed = s.failed
  BY <1>1, <1>4 DEF Goes, Session
<1>6. /\ record'[q] = record[q] /\ walletPaid'[q] = walletPaid[q]
      /\ subPaid'[q] = subPaid[q] /\ tokenPaid'[q] = tokenPaid[q]
  BY <1>1 DEF Goes
<1>7. SeenInv(q)' /\ FlagInv(q)' /\ HoldInv(q)' /\ FundInv(q)' /\ TokenInv(q)'
  <2>1. SeenInv(q)' /\ FlagInv(q)'
    BY <1>1, <1>2, <1>3, <1>5, <1>6
       DEF RequestInv, Returning, SeenInv, FlagInv, Before, Reserving, Refunding
  <2>2. HoldInv(q)'
    BY <1>1, <1>2, <1>3, <1>5, <1>6
       DEF RequestInv, Returning, HoldInv, Estimate, Before, Held, Reserving
  <2>3. FundInv(q)'
    BY <1>1, <1>2, <1>3, <1>5, <1>6
       DEF RequestInv, Returning, FundInv, Spent, Before, Held, Reserving
  <2>4. TokenInv(q)'
    BY <1>1, <1>2, <1>3, <1>5, <1>6 DEF RequestInv, Returning, TokenInv, Due
  <2> QED
    BY <2>1, <2>2, <2>3, <2>4
<1>8. walletPaid'[q] + subPaid'[q] <= walletPaid[q] + subPaid[q]
  BY <1>1, <1>2, <1>3, <1>6 DEF Returning
<1> QED
  BY <1>4, <1>5, <1>7, <1>8, CapSame DEF RequestInv

\* The wallet gets its hold back.
LEMMA WalletTook ==
  ASSUME TypeOK, SubWithinTotal, NEW q \in Requests, RequestInv(q),
         ses[q].pc = "refund",
         ses[q].source = "wallet",
         Took(q, [ses[q] EXCEPT !.pc = "refundtoken"], -ses[q].wallet)
  PROVE  RequestInv(q)'
<1> DEFINE s == ses[q]
           t == ses'[q]
<1>1. /\ s \in Session /\ SubTotal \in Nat
      /\ walletPaid[q] \in Int /\ subPaid[q] \in Int /\ tokenPaid[q] \in Int
  BY Typed, QuotaAssumption
<1>2. Returning(q)
  BY AtReturning DEF Refunding
<1>4. TypeOK' /\ t \in Session
  BY DEF Took, Becomes, Frame, TypeOK
<1>5. /\ t.pc = "refundtoken" /\ t.plan = s.plan /\ t.kind = s.kind /\ t.source = s.source
      /\ t.hold = s.hold /\ t.pre = s.pre /\ t.token = s.token /\ t.wallet = s.wallet
      /\ t.sub = s.sub /\ t.extra = s.extra /\ t.est = s.est /\ t.asked = s.asked /\ t.usage = s.usage
      /\ t.streamed = s.streamed /\ t.actual = s.actual
      /\ t.fundingSettled = s.fundingSettled /\ t.settled = s.settled
      /\ t.refunded = s.refunded /\ t.seen \in {NoRead, s.seen} /\ t.failed = s.failed
  BY ZenonT(60), <1>1, <1>4 DEF Took, Becomes, Marked, Session
<1>6. /\ record'[q] = record[q] /\ tokenPaid'[q] = tokenPaid[q]
      /\ \/ /\ s.source = "wallet"
            /\ walletPaid'[q] = walletPaid[q] + (-s.wallet) /\ subPaid'[q] = subPaid[q]
         \/ /\ s.source = "sub"
            /\ walletPaid'[q] = walletPaid[q] /\ subPaid'[q] = subPaid[q] + (-s.wallet)
  BY <1>1 DEF Took, Becomes
<1>7. SeenInv(q)' /\ FlagInv(q)' /\ HoldInv(q)' /\ FundInv(q)' /\ TokenInv(q)'
  <2>1. SeenInv(q)' /\ FlagInv(q)'
    BY <1>1, <1>2, <1>5, <1>6
       DEF RequestInv, Returning, SeenInv, FlagInv, Before, Reserving, Refunding
  <2>2. HoldInv(q)'
    BY <1>1, <1>2, <1>5, <1>6 DEF RequestInv, Returning, HoldInv, Estimate, Before, Held, Reserving
  <2>3. FundInv(q)'
    <3>1. CASE s.source = "wallet"
      BY <1>1, <1>2, <1>5, <1>6, <3>1
         DEF RequestInv, Returning, FundInv, Spent, Before, Held, Reserving
    <3>2. CASE s.source = "sub"
      BY <1>1, <1>2, <1>5, <1>6, <3>2
         DEF RequestInv, Returning, FundInv, Spent, Before, Held, Reserving
    <3> QED
      BY <1>2, <3>1, <3>2 DEF Returning
  <2>4. TokenInv(q)'
    BY <1>1, <1>2, <1>5, <1>6 DEF RequestInv, Returning, TokenInv, Due
  <2> QED
    BY <2>1, <2>2, <2>3, <2>4
<1>8. walletPaid'[q] + subPaid'[q] <= walletPaid[q] + subPaid[q]
  <2>1. CASE s.source = "wallet"
    BY <1>1, <1>2, <1>6, <2>1 DEF Returning
  <2>2. CASE s.source = "sub"
    BY <1>1, <1>2, <1>6, <2>2 DEF Returning
  <2> QED
    BY <1>2, <2>1, <2>2 DEF Returning
<1> QED
  BY <1>4, <1>5, <1>7, <1>8, CapSame DEF RequestInv

LEMMA WalletHasNothing ==
  ASSUME TypeOK, SubWithinTotal, NEW q \in Requests, RequestInv(q),
         ses[q].pc = "refund",
         ses[q].source = "wallet",
         ses[q].wallet = 0,
         Goes(q, [ses[q] EXCEPT !.pc = "refundtoken"], 0, 0, 0)
  PROVE  RequestInv(q)'
<1> DEFINE s == ses[q]
           t == ses'[q]
<1>1. /\ s \in Session /\ SubTotal \in Nat
      /\ walletPaid[q] \in Int /\ subPaid[q] \in Int /\ tokenPaid[q] \in Int
  BY Typed, QuotaAssumption
<1>2. Returning(q)
  BY AtReturning DEF Refunding
<1>4. TypeOK' /\ t \in Session
  BY DEF Goes, Frame, TypeOK
<1>5. /\ t.pc = "refundtoken" /\ t.plan = s.plan /\ t.kind = s.kind /\ t.source = s.source
      /\ t.hold = s.hold /\ t.pre = s.pre /\ t.token = s.token /\ t.wallet = s.wallet
      /\ t.sub = s.sub /\ t.extra = s.extra /\ t.est = s.est /\ t.asked = s.asked /\ t.usage = s.usage
      /\ t.streamed = s.streamed /\ t.actual = s.actual
      /\ t.fundingSettled = s.fundingSettled /\ t.settled = s.settled
      /\ t.refunded = s.refunded /\ t.seen = s.seen /\ t.failed = s.failed
  BY SMTT(60), <1>1, <1>4 DEF Goes, Session
<1>6. /\ record'[q] = record[q] /\ walletPaid'[q] = walletPaid[q]
      /\ subPaid'[q] = subPaid[q] /\ tokenPaid'[q] = tokenPaid[q]
  BY <1>1 DEF Goes
<1>7. SeenInv(q)' /\ FlagInv(q)' /\ HoldInv(q)' /\ FundInv(q)' /\ TokenInv(q)'
  <2>1. SeenInv(q)' /\ FlagInv(q)'
    BY <1>1, <1>2, <1>5, <1>6
       DEF RequestInv, Returning, SeenInv, FlagInv, Before, Reserving, Refunding
  <2>2. HoldInv(q)'
    BY <1>1, <1>2, <1>5, <1>6 DEF RequestInv, Returning, HoldInv, Estimate, Before, Held, Reserving
  <2>3. FundInv(q)'
    BY <1>1, <1>2, <1>5, <1>6
       DEF RequestInv, Returning, FundInv, Spent, Before, Held, Reserving
  <2>4. TokenInv(q)'
    BY <1>1, <1>2, <1>5, <1>6 DEF RequestInv, Returning, TokenInv, Due
  <2> QED
    BY <2>1, <2>2, <2>3, <2>4
<1>8. walletPaid'[q] + subPaid'[q] <= walletPaid[q] + subPaid[q]
  BY <1>1, <1>2, <1>6 DEF Returning
<1> QED
  BY <1>4, <1>5, <1>7, <1>8, CapSame DEF RequestInv

\* It does not.
LEMMA WalletRefused ==
  ASSUME TypeOK, SubWithinTotal, NEW q \in Requests, RequestInv(q),
         ses[q].pc = "refund",
         ses[q].source = "wallet",
         NEW d \in Int,
         d <= 0,
         Refuses(q, [ses[q] EXCEPT !.pc = "refundtoken"], d)
  PROVE  RequestInv(q)'
<1> DEFINE s == ses[q]
           t == ses'[q]
<1>1. /\ s \in Session /\ SubTotal \in Nat
      /\ walletPaid[q] \in Int /\ subPaid[q] \in Int /\ tokenPaid[q] \in Int
  BY Typed, QuotaAssumption
<1>2. Returning(q)
  BY AtReturning DEF Refunding
<1>4. TypeOK' /\ t \in Session
  BY DEF Refuses, Becomes, Frame, TypeOK
<1>5. /\ t.pc = "refundtoken" /\ t.plan = s.plan /\ t.kind = s.kind /\ t.source = s.source
      /\ t.hold = s.hold /\ t.pre = s.pre /\ t.token = s.token /\ t.wallet = s.wallet
      /\ t.sub = s.sub /\ t.extra = s.extra /\ t.est = s.est /\ t.asked = s.asked /\ t.usage = s.usage
      /\ t.streamed = s.streamed /\ t.actual = s.actual
      /\ t.fundingSettled = s.fundingSettled /\ t.settled = s.settled
      /\ t.refunded = s.refunded /\ t.seen \in {NoRead, s.seen}
      /\ t.failed \/ (d > 0 /\ t.failed = s.failed)
  BY ZenonT(60), <1>1, <1>4 DEF Refuses, Becomes, Marked, Session
<1>6. /\ record'[q] = record[q] /\ tokenPaid'[q] = tokenPaid[q]
      /\ walletPaid'[q] = walletPaid[q] /\ subPaid'[q] = subPaid[q]
  BY <1>1 DEF Refuses, Becomes
<1>7. SeenInv(q)' /\ FlagInv(q)' /\ HoldInv(q)' /\ FundInv(q)' /\ TokenInv(q)'
  <2>1. SeenInv(q)' /\ FlagInv(q)'
    BY <1>1, <1>2, <1>5, <1>6
       DEF RequestInv, Returning, SeenInv, FlagInv, Before, Reserving, Refunding
  <2>2. HoldInv(q)'
    BY <1>1, <1>2, <1>5, <1>6 DEF RequestInv, Returning, HoldInv, Estimate, Before, Held, Reserving
  <2>3. FundInv(q)'
    BY <1>1, <1>2, <1>5, <1>6
       DEF RequestInv, Returning, FundInv, Spent, Before, Held, Reserving
  <2>4. TokenInv(q)'
    BY <1>1, <1>2, <1>5, <1>6 DEF RequestInv, Returning, TokenInv, Due
  <2> QED
    BY <2>1, <2>2, <2>3, <2>4
<1>8. walletPaid'[q] + subPaid'[q] <= walletPaid[q] + subPaid[q]
  BY <1>1, <1>2, <1>6 DEF Returning
<1> QED
  BY <1>4, <1>5, <1>7, <1>8, CapSame DEF RequestInv

\* The record of the subscription is read.
LEMMA RecordRead ==
  ASSUME TypeOK, SubWithinTotal, NEW q \in Requests, RequestInv(q),
         ses[q].pc = "refund",
         ses[q].source = "sub",
         Goes(q, [ses[q] EXCEPT !.pc = "refdelta"], 0, 0, 0)
  PROVE  RequestInv(q)'
<1> DEFINE s == ses[q]
           t == ses'[q]
<1>1. /\ s \in Session /\ SubTotal \in Nat
      /\ walletPaid[q] \in Int /\ subPaid[q] \in Int /\ tokenPaid[q] \in Int
  BY Typed, QuotaAssumption
<1>2. Returning(q)
  BY AtReturning DEF Refunding
<1>4. TypeOK' /\ t \in Session
  BY DEF Goes, Frame, TypeOK
<1>5. /\ t.pc = "refdelta" /\ t.plan = s.plan /\ t.kind = s.kind /\ t.source = s.source
      /\ t.hold = s.hold /\ t.pre = s.pre /\ t.token = s.token /\ t.wallet = s.wallet
      /\ t.sub = s.sub /\ t.extra = s.extra /\ t.est = s.est /\ t.asked = s.asked /\ t.usage = s.usage
      /\ t.streamed = s.streamed /\ t.actual = s.actual
      /\ t.fundingSettled = s.fundingSettled /\ t.settled = s.settled
      /\ t.refunded = s.refunded /\ t.seen = s.seen /\ t.failed = s.failed
  BY <1>1, <1>4 DEF Goes, Session
<1>6. /\ record'[q] = record[q] /\ walletPaid'[q] = walletPaid[q]
      /\ subPaid'[q] = subPaid[q] /\ tokenPaid'[q] = tokenPaid[q]
  BY <1>1 DEF Goes
<1>7. SeenInv(q)' /\ FlagInv(q)' /\ HoldInv(q)' /\ FundInv(q)' /\ TokenInv(q)'
  <2>1. SeenInv(q)' /\ FlagInv(q)'
    BY <1>1, <1>2, <1>5, <1>6
       DEF RequestInv, Returning, SeenInv, FlagInv, Before, Reserving, Refunding
  <2>2. HoldInv(q)'
    BY <1>1, <1>2, <1>5, <1>6 DEF RequestInv, Returning, HoldInv, Estimate, Before, Held, Reserving
  <2>3. FundInv(q)'
    BY <1>1, <1>2, <1>5, <1>6
       DEF RequestInv, Returning, FundInv, Spent, Before, Held, Reserving
  <2>4. TokenInv(q)'
    BY <1>1, <1>2, <1>5, <1>6 DEF RequestInv, Returning, TokenInv, Due
  <2> QED
    BY <2>1, <2>2, <2>3, <2>4
<1>8. walletPaid'[q] + subPaid'[q] <= walletPaid[q] + subPaid[q]
  BY <1>1, <1>2, <1>6 DEF Returning
<1> QED
  BY <1>4, <1>5, <1>7, <1>8, CapSame DEF RequestInv

\* The attempt fails.
LEMMA AttemptFails ==
  ASSUME TypeOK, SubWithinTotal, NEW q \in Requests, RequestInv(q),
         ses[q].pc \in {"refund", "refdelta", "refsave"},
         ses[q].source = "sub",
         NEW d \in Int,
         d <= 0,
         Refuses(q, Retry(ses[q]), d)
  PROVE  RequestInv(q)'
<1> DEFINE s == ses[q]
           t == ses'[q]
<1>1. /\ s \in Session /\ SubTotal \in Nat
      /\ walletPaid[q] \in Int /\ subPaid[q] \in Int /\ tokenPaid[q] \in Int
  BY Typed, QuotaAssumption
<1>2. Returning(q)
  BY AtReturning DEF Refunding
<1>4. TypeOK' /\ t \in Session
  BY DEF Refuses, Becomes, Frame, TypeOK
<1>5. /\ t.pc \in {"refund", "extra"} /\ t.plan = s.plan /\ t.kind = s.kind
      /\ t.source = s.source /\ t.hold = s.hold /\ t.pre = s.pre /\ t.token = s.token
      /\ t.wallet = s.wallet /\ t.sub = s.sub /\ t.extra = s.extra /\ t.est = s.est /\ t.asked = s.asked
      /\ t.usage = s.usage /\ t.streamed = s.streamed /\ t.actual = s.actual
      /\ t.fundingSettled = s.fundingSettled /\ t.settled = s.settled
      /\ t.refunded = s.refunded /\ t.seen \in {NoRead, s.seen}
      /\ t.failed \/ (d > 0 /\ t.failed = s.failed)
  BY ZenonT(60), <1>1, <1>4 DEF Refuses, Becomes, Marked, Session, Retry
<1>6. /\ record'[q] = record[q] /\ tokenPaid'[q] = tokenPaid[q]
      /\ walletPaid'[q] = walletPaid[q] /\ subPaid'[q] = subPaid[q]
  BY <1>1 DEF Refuses, Becomes
<1>7. SeenInv(q)' /\ FlagInv(q)' /\ HoldInv(q)' /\ FundInv(q)' /\ TokenInv(q)'
  <2>1. SeenInv(q)' /\ FlagInv(q)'
    BY <1>1, <1>2, <1>5, <1>6
       DEF RequestInv, Returning, SeenInv, FlagInv, Before, Reserving, Refunding
  <2>2. HoldInv(q)'
    BY <1>1, <1>2, <1>5, <1>6 DEF RequestInv, Returning, HoldInv, Estimate, Before, Held, Reserving
  <2>3. FundInv(q)'
    BY <1>1, <1>2, <1>5, <1>6
       DEF RequestInv, Returning, FundInv, Spent, Before, Held, Reserving
  <2>4. TokenInv(q)'
    BY <1>1, <1>2, <1>5, <1>6 DEF RequestInv, Returning, TokenInv, Due
  <2> QED
    BY <2>1, <2>2, <2>3, <2>4
<1>8. walletPaid'[q] + subPaid'[q] <= walletPaid[q] + subPaid[q]
  BY <1>1, <1>2, <1>6 DEF Returning
<1> QED
  BY <1>4, <1>5, <1>7, <1>8, CapSame DEF RequestInv

\* The subscription gets its hold back.
LEMMA SubTook ==
  ASSUME TypeOK, SubWithinTotal, NEW q \in Requests, RequestInv(q),
         ses[q].pc = "refdelta",
         ses[q].source = "sub",
         Took(q, [ses[q] EXCEPT !.pc = "refsave"], -ses[q].sub)
  PROVE  RequestInv(q)'
<1> DEFINE s == ses[q]
           t == ses'[q]
<1>1. /\ s \in Session /\ SubTotal \in Nat
      /\ walletPaid[q] \in Int /\ subPaid[q] \in Int /\ tokenPaid[q] \in Int
  BY Typed, QuotaAssumption
<1>2. Returning(q)
  BY AtReturning DEF Refunding
<1>4. TypeOK' /\ t \in Session
  BY DEF Took, Becomes, Frame, TypeOK
<1>5. /\ t.pc = "refsave" /\ t.plan = s.plan /\ t.kind = s.kind /\ t.source = s.source
      /\ t.hold = s.hold /\ t.pre = s.pre /\ t.token = s.token /\ t.wallet = s.wallet
      /\ t.sub = s.sub /\ t.extra = s.extra /\ t.est = s.est /\ t.asked = s.asked /\ t.usage = s.usage
      /\ t.streamed = s.streamed /\ t.actual = s.actual
      /\ t.fundingSettled = s.fundingSettled /\ t.settled = s.settled
      /\ t.refunded = s.refunded /\ t.seen \in {NoRead, s.seen} /\ t.failed = s.failed
  BY ZenonT(60), <1>1, <1>4 DEF Took, Becomes, Marked, Session
<1>6. /\ record'[q] = record[q] /\ tokenPaid'[q] = tokenPaid[q]
      /\ \/ /\ s.source = "wallet"
            /\ walletPaid'[q] = walletPaid[q] + (-s.sub) /\ subPaid'[q] = subPaid[q]
         \/ /\ s.source = "sub"
            /\ walletPaid'[q] = walletPaid[q] /\ subPaid'[q] = subPaid[q] + (-s.sub)
  BY <1>1 DEF Took, Becomes
<1>7. SeenInv(q)' /\ FlagInv(q)' /\ HoldInv(q)' /\ FundInv(q)' /\ TokenInv(q)'
  <2>1. SeenInv(q)' /\ FlagInv(q)'
    BY <1>1, <1>2, <1>5, <1>6
       DEF RequestInv, Returning, SeenInv, FlagInv, Before, Reserving, Refunding
  <2>2. HoldInv(q)'
    BY <1>1, <1>2, <1>5, <1>6 DEF RequestInv, Returning, HoldInv, Estimate, Before, Held, Reserving
  <2>3. FundInv(q)'
    <3>1. CASE s.source = "wallet"
      BY <1>1, <1>2, <1>5, <1>6, <3>1
         DEF RequestInv, Returning, FundInv, Spent, Before, Held, Reserving
    <3>2. CASE s.source = "sub"
      BY <1>1, <1>2, <1>5, <1>6, <3>2
         DEF RequestInv, Returning, FundInv, Spent, Before, Held, Reserving
    <3> QED
      BY <1>2, <3>1, <3>2 DEF Returning
  <2>4. TokenInv(q)'
    BY <1>1, <1>2, <1>5, <1>6 DEF RequestInv, Returning, TokenInv, Due
  <2> QED
    BY <2>1, <2>2, <2>3, <2>4
<1>8. walletPaid'[q] + subPaid'[q] <= walletPaid[q] + subPaid[q]
  <2>1. CASE s.source = "wallet"
    BY <1>1, <1>2, <1>6, <2>1 DEF Returning
  <2>2. CASE s.source = "sub"
    BY <1>1, <1>2, <1>6, <2>2 DEF Returning
  <2> QED
    BY <1>2, <2>1, <2>2 DEF Returning
<1> QED
  BY <1>4, <1>5, <1>7, <1>8, CapSame DEF RequestInv

\* The subscription gets back what Reserve added.
LEMMA ExtraTook ==
  ASSUME TypeOK, SubWithinTotal, NEW q \in Requests, RequestInv(q),
         ses[q].pc = "extra",
         Took(q, [ses[q] EXCEPT !.pc = "refundtoken"], -ses[q].extra)
  PROVE  RequestInv(q)'
<1> DEFINE s == ses[q]
           t == ses'[q]
<1>1. /\ s \in Session /\ SubTotal \in Nat
      /\ walletPaid[q] \in Int /\ subPaid[q] \in Int /\ tokenPaid[q] \in Int
  BY Typed, QuotaAssumption
<1>2. Returning(q)
  BY AtReturning DEF Refunding
<1>3. s.source = "sub"
  BY <1>1, <1>2 DEF RequestInv, Returning, FlagInv
<1>4. TypeOK' /\ t \in Session
  BY DEF Took, Becomes, Frame, TypeOK
<1>5. /\ t.pc = "refundtoken" /\ t.plan = s.plan /\ t.kind = s.kind /\ t.source = s.source
      /\ t.hold = s.hold /\ t.pre = s.pre /\ t.token = s.token /\ t.wallet = s.wallet
      /\ t.sub = s.sub /\ t.extra = s.extra /\ t.est = s.est /\ t.asked = s.asked /\ t.usage = s.usage
      /\ t.streamed = s.streamed /\ t.actual = s.actual
      /\ t.fundingSettled = s.fundingSettled /\ t.settled = s.settled
      /\ t.refunded = s.refunded /\ t.seen \in {NoRead, s.seen} /\ t.failed = s.failed
  BY ZenonT(60), <1>1, <1>4 DEF Took, Becomes, Marked, Session
<1>6. /\ record'[q] = record[q] /\ tokenPaid'[q] = tokenPaid[q]
      /\ \/ /\ s.source = "wallet"
            /\ walletPaid'[q] = walletPaid[q] + (-s.extra) /\ subPaid'[q] = subPaid[q]
         \/ /\ s.source = "sub"
            /\ walletPaid'[q] = walletPaid[q] /\ subPaid'[q] = subPaid[q] + (-s.extra)
  BY <1>1 DEF Took, Becomes
<1>7. SeenInv(q)' /\ FlagInv(q)' /\ HoldInv(q)' /\ FundInv(q)' /\ TokenInv(q)'
  <2>1. SeenInv(q)' /\ FlagInv(q)'
    BY <1>1, <1>2, <1>3, <1>5, <1>6
       DEF RequestInv, Returning, SeenInv, FlagInv, Before, Reserving, Refunding
  <2>2. HoldInv(q)'
    BY <1>1, <1>2, <1>3, <1>5, <1>6
       DEF RequestInv, Returning, HoldInv, Estimate, Before, Held, Reserving
  <2>3. FundInv(q)'
    <3>1. CASE s.source = "wallet"
      BY <1>1, <1>2, <1>3, <1>5, <1>6, <3>1
         DEF RequestInv, Returning, FundInv, Spent, Before, Held, Reserving
    <3>2. CASE s.source = "sub"
      BY <1>1, <1>2, <1>3, <1>5, <1>6, <3>2
         DEF RequestInv, Returning, FundInv, Spent, Before, Held, Reserving
    <3> QED
      BY <1>2, <3>1, <3>2 DEF Returning
  <2>4. TokenInv(q)'
    BY <1>1, <1>2, <1>3, <1>5, <1>6 DEF RequestInv, Returning, TokenInv, Due
  <2> QED
    BY <2>1, <2>2, <2>3, <2>4
<1>8. walletPaid'[q] + subPaid'[q] <= walletPaid[q] + subPaid[q]
  <2>1. CASE s.source = "wallet"
    BY <1>1, <1>2, <1>3, <1>6, <2>1 DEF Returning
  <2>2. CASE s.source = "sub"
    BY <1>1, <1>2, <1>3, <1>6, <2>2 DEF Returning
  <2> QED
    BY <1>2, <2>1, <2>2 DEF Returning
<1> QED
  BY <1>4, <1>5, <1>7, <1>8, CapSame DEF RequestInv

LEMMA ExtraIsNothing ==
  ASSUME TypeOK, SubWithinTotal, NEW q \in Requests, RequestInv(q),
         ses[q].pc = "extra",
         ses[q].extra = 0,
         Goes(q, [ses[q] EXCEPT !.pc = "refundtoken"], 0, 0, 0)
  PROVE  RequestInv(q)'
<1> DEFINE s == ses[q]
           t == ses'[q]
<1>1. /\ s \in Session /\ SubTotal \in Nat
      /\ walletPaid[q] \in Int /\ subPaid[q] \in Int /\ tokenPaid[q] \in Int
  BY Typed, QuotaAssumption
<1>2. Returning(q)
  BY AtReturning DEF Refunding
<1>4. TypeOK' /\ t \in Session
  BY DEF Goes, Frame, TypeOK
<1>5. /\ t.pc = "refundtoken" /\ t.plan = s.plan /\ t.kind = s.kind /\ t.source = s.source
      /\ t.hold = s.hold /\ t.pre = s.pre /\ t.token = s.token /\ t.wallet = s.wallet
      /\ t.sub = s.sub /\ t.extra = s.extra /\ t.est = s.est /\ t.asked = s.asked /\ t.usage = s.usage
      /\ t.streamed = s.streamed /\ t.actual = s.actual
      /\ t.fundingSettled = s.fundingSettled /\ t.settled = s.settled
      /\ t.refunded = s.refunded /\ t.seen = s.seen /\ t.failed = s.failed
  BY <1>1, <1>4 DEF Goes, Session
<1>6. /\ record'[q] = record[q] /\ walletPaid'[q] = walletPaid[q]
      /\ subPaid'[q] = subPaid[q] /\ tokenPaid'[q] = tokenPaid[q]
  BY <1>1 DEF Goes
<1>7. SeenInv(q)' /\ FlagInv(q)' /\ HoldInv(q)' /\ FundInv(q)' /\ TokenInv(q)'
  <2>1. SeenInv(q)' /\ FlagInv(q)'
    BY <1>1, <1>2, <1>5, <1>6
       DEF RequestInv, Returning, SeenInv, FlagInv, Before, Reserving, Refunding
  <2>2. HoldInv(q)'
    BY <1>1, <1>2, <1>5, <1>6 DEF RequestInv, Returning, HoldInv, Estimate, Before, Held, Reserving
  <2>3. FundInv(q)'
    BY <1>1, <1>2, <1>5, <1>6
       DEF RequestInv, Returning, FundInv, Spent, Before, Held, Reserving
  <2>4. TokenInv(q)'
    BY <1>1, <1>2, <1>5, <1>6 DEF RequestInv, Returning, TokenInv, Due
  <2> QED
    BY <2>1, <2>2, <2>3, <2>4
<1>8. walletPaid'[q] + subPaid'[q] <= walletPaid[q] + subPaid[q]
  BY <1>1, <1>2, <1>6 DEF Returning
<1> QED
  BY <1>4, <1>5, <1>7, <1>8, CapSame DEF RequestInv

\* It does not.
LEMMA ExtraRefused ==
  ASSUME TypeOK, SubWithinTotal, NEW q \in Requests, RequestInv(q),
         ses[q].pc = "extra",
         NEW d \in Int,
         d <= 0,
         Refuses(q, [ses[q] EXCEPT !.pc = "refundtoken"], d)
  PROVE  RequestInv(q)'
<1> DEFINE s == ses[q]
           t == ses'[q]
<1>1. /\ s \in Session /\ SubTotal \in Nat
      /\ walletPaid[q] \in Int /\ subPaid[q] \in Int /\ tokenPaid[q] \in Int
  BY Typed, QuotaAssumption
<1>2. Returning(q)
  BY AtReturning DEF Refunding
<1>4. TypeOK' /\ t \in Session
  BY DEF Refuses, Becomes, Frame, TypeOK
<1>5. /\ t.pc = "refundtoken" /\ t.plan = s.plan /\ t.kind = s.kind /\ t.source = s.source
      /\ t.hold = s.hold /\ t.pre = s.pre /\ t.token = s.token /\ t.wallet = s.wallet
      /\ t.sub = s.sub /\ t.extra = s.extra /\ t.est = s.est /\ t.asked = s.asked /\ t.usage = s.usage
      /\ t.streamed = s.streamed /\ t.actual = s.actual
      /\ t.fundingSettled = s.fundingSettled /\ t.settled = s.settled
      /\ t.refunded = s.refunded /\ t.seen \in {NoRead, s.seen}
      /\ t.failed \/ (d > 0 /\ t.failed = s.failed)
  BY ZenonT(60), <1>1, <1>4 DEF Refuses, Becomes, Marked, Session
<1>6. /\ record'[q] = record[q] /\ tokenPaid'[q] = tokenPaid[q]
      /\ walletPaid'[q] = walletPaid[q] /\ subPaid'[q] = subPaid[q]
  BY <1>1 DEF Refuses, Becomes
<1>7. SeenInv(q)' /\ FlagInv(q)' /\ HoldInv(q)' /\ FundInv(q)' /\ TokenInv(q)'
  <2>1. SeenInv(q)' /\ FlagInv(q)'
    BY <1>1, <1>2, <1>5, <1>6
       DEF RequestInv, Returning, SeenInv, FlagInv, Before, Reserving, Refunding
  <2>2. HoldInv(q)'
    BY <1>1, <1>2, <1>5, <1>6 DEF RequestInv, Returning, HoldInv, Estimate, Before, Held, Reserving
  <2>3. FundInv(q)'
    BY <1>1, <1>2, <1>5, <1>6
       DEF RequestInv, Returning, FundInv, Spent, Before, Held, Reserving
  <2>4. TokenInv(q)'
    BY <1>1, <1>2, <1>5, <1>6 DEF RequestInv, Returning, TokenInv, Due
  <2> QED
    BY <2>1, <2>2, <2>3, <2>4
<1>8. walletPaid'[q] + subPaid'[q] <= walletPaid[q] + subPaid[q]
  BY <1>1, <1>2, <1>6 DEF Returning
<1> QED
  BY <1>4, <1>5, <1>7, <1>8, CapSame DEF RequestInv

\* The token gets its hold back.
LEMMA TokenReturned ==
  ASSUME TypeOK, SubWithinTotal, NEW q \in Requests, RequestInv(q),
         ses[q].pc = "refundtoken",
         NEW k \in Int,
         k = IF ses[q].kind = "playground" THEN 0 ELSE -ses[q].token,
         Goes(q, [ses[q] EXCEPT !.pc = "done"], 0, 0, k)
  PROVE  RequestInv(q)'
<1> DEFINE s == ses[q]
           t == ses'[q]
<1>1. /\ s \in Session /\ SubTotal \in Nat
      /\ walletPaid[q] \in Int /\ subPaid[q] \in Int /\ tokenPaid[q] \in Int
  BY Typed, QuotaAssumption
<1>2. Returning(q)
  BY AtReturning DEF Refunding
<1>3. s.kind # "playground" =>
        tokenPaid[q] >= s.token /\ (~s.failed => tokenPaid[q] = s.token)
  BY <1>1, <1>2 DEF RequestInv, Returning, TokenInv
<1>4. TypeOK' /\ t \in Session
  BY DEF Goes, Frame, TypeOK
<1>5. /\ t.pc = "done" /\ t.plan = s.plan /\ t.kind = s.kind /\ t.source = s.source
      /\ t.hold = s.hold /\ t.pre = s.pre /\ t.token = s.token /\ t.wallet = s.wallet
      /\ t.sub = s.sub /\ t.extra = s.extra /\ t.est = s.est /\ t.asked = s.asked /\ t.usage = s.usage
      /\ t.streamed = s.streamed /\ t.actual = s.actual
      /\ t.fundingSettled = s.fundingSettled /\ t.settled = s.settled
      /\ t.refunded = s.refunded /\ t.seen = s.seen /\ t.failed = s.failed
  BY <1>1, <1>4 DEF Goes, Session
<1>6. /\ record'[q] = record[q] /\ walletPaid'[q] = walletPaid[q]
      /\ subPaid'[q] = subPaid[q] /\ tokenPaid'[q] = tokenPaid[q] + k
  BY <1>1 DEF Goes
<1>7. SeenInv(q)' /\ FlagInv(q)' /\ HoldInv(q)' /\ FundInv(q)' /\ TokenInv(q)'
  <2>1. SeenInv(q)' /\ FlagInv(q)'
    BY <1>1, <1>2, <1>3, <1>5, <1>6
       DEF RequestInv, Returning, SeenInv, FlagInv, Before, Reserving, Refunding
  <2>2. HoldInv(q)'
    BY <1>1, <1>2, <1>3, <1>5, <1>6
       DEF RequestInv, Returning, HoldInv, Estimate, Before, Held, Reserving
  <2>3. FundInv(q)'
    BY <1>1, <1>2, <1>3, <1>5, <1>6
       DEF RequestInv, Returning, FundInv, Spent, Before, Held, Reserving
  <2>4. TokenInv(q)'
    BY <1>1, <1>2, <1>3, <1>5, <1>6 DEF RequestInv, Returning, TokenInv, Due
  <2> QED
    BY <2>1, <2>2, <2>3, <2>4
<1>8. walletPaid'[q] + subPaid'[q] <= walletPaid[q] + subPaid[q]
  BY <1>1, <1>2, <1>3, <1>6 DEF Returning
<1> QED
  BY <1>4, <1>5, <1>7, <1>8, CapSame DEF RequestInv

LEMMA TokenHasNothing ==
  ASSUME TypeOK, SubWithinTotal, NEW q \in Requests, RequestInv(q),
         ses[q].pc = "refundtoken",
         ses[q].token = 0,
         Goes(q, [ses[q] EXCEPT !.pc = "done"], 0, 0, 0)
  PROVE  RequestInv(q)'
<1> DEFINE s == ses[q]
           t == ses'[q]
<1>1. /\ s \in Session /\ SubTotal \in Nat
      /\ walletPaid[q] \in Int /\ subPaid[q] \in Int /\ tokenPaid[q] \in Int
  BY Typed, QuotaAssumption
<1>2. Returning(q)
  BY AtReturning DEF Refunding
<1>3. s.kind # "playground" /\ ~s.failed => tokenPaid[q] = s.token
  BY <1>1, <1>2 DEF RequestInv, Returning, TokenInv
<1>4. TypeOK' /\ t \in Session
  BY DEF Goes, Frame, TypeOK
<1>5. /\ t.pc = "done" /\ t.plan = s.plan /\ t.kind = s.kind /\ t.source = s.source
      /\ t.hold = s.hold /\ t.pre = s.pre /\ t.token = s.token /\ t.wallet = s.wallet
      /\ t.sub = s.sub /\ t.extra = s.extra /\ t.est = s.est /\ t.asked = s.asked /\ t.usage = s.usage
      /\ t.streamed = s.streamed /\ t.actual = s.actual
      /\ t.fundingSettled = s.fundingSettled /\ t.settled = s.settled
      /\ t.refunded = s.refunded /\ t.seen = s.seen /\ t.failed = s.failed
  BY <1>1, <1>4 DEF Goes, Session
<1>6. /\ record'[q] = record[q] /\ walletPaid'[q] = walletPaid[q]
      /\ subPaid'[q] = subPaid[q] /\ tokenPaid'[q] = tokenPaid[q]
  BY <1>1 DEF Goes
<1>7. SeenInv(q)' /\ FlagInv(q)' /\ HoldInv(q)' /\ FundInv(q)' /\ TokenInv(q)'
  <2>1. SeenInv(q)' /\ FlagInv(q)'
    BY <1>1, <1>2, <1>3, <1>5, <1>6
       DEF RequestInv, Returning, SeenInv, FlagInv, Before, Reserving, Refunding
  <2>2. HoldInv(q)'
    BY <1>1, <1>2, <1>3, <1>5, <1>6
       DEF RequestInv, Returning, HoldInv, Estimate, Before, Held, Reserving
  <2>3. FundInv(q)'
    BY <1>1, <1>2, <1>3, <1>5, <1>6
       DEF RequestInv, Returning, FundInv, Spent, Before, Held, Reserving
  <2>4. TokenInv(q)'
    BY <1>1, <1>2, <1>3, <1>5, <1>6 DEF RequestInv, Returning, TokenInv, Due
  <2> QED
    BY <2>1, <2>2, <2>3, <2>4
<1>8. walletPaid'[q] + subPaid'[q] <= walletPaid[q] + subPaid[q]
  BY <1>1, <1>2, <1>3, <1>6 DEF Returning
<1> QED
  BY <1>4, <1>5, <1>7, <1>8, CapSame DEF RequestInv

\* It does not.
LEMMA TokenNotReturned ==
  ASSUME TypeOK, SubWithinTotal, NEW q \in Requests, RequestInv(q),
         ses[q].pc = "refundtoken",
         Refuses(q, [ses[q] EXCEPT !.pc = "done"], 0)
  PROVE  RequestInv(q)'
<1> DEFINE s == ses[q]
           t == ses'[q]
<1>1. /\ s \in Session /\ SubTotal \in Nat
      /\ walletPaid[q] \in Int /\ subPaid[q] \in Int /\ tokenPaid[q] \in Int
  BY Typed, QuotaAssumption
<1>2. Returning(q)
  BY AtReturning DEF Refunding
<1>4. TypeOK' /\ t \in Session
  BY DEF Refuses, Becomes, Frame, TypeOK
<1>5. /\ t.pc = "done" /\ t.plan = s.plan /\ t.kind = s.kind /\ t.source = s.source
      /\ t.hold = s.hold /\ t.pre = s.pre /\ t.token = s.token /\ t.wallet = s.wallet
      /\ t.sub = s.sub /\ t.extra = s.extra /\ t.est = s.est /\ t.asked = s.asked /\ t.usage = s.usage
      /\ t.streamed = s.streamed /\ t.actual = s.actual
      /\ t.fundingSettled = s.fundingSettled /\ t.settled = s.settled
      /\ t.refunded = s.refunded /\ t.seen \in {NoRead, s.seen} /\ t.failed
  <2>1. /\ t.pc = "done" /\ t.plan = s.plan /\ t.kind = s.kind /\ t.source = s.source
        /\ t.hold = s.hold /\ t.pre = s.pre /\ t.token = s.token /\ t.wallet = s.wallet
        /\ t.sub = s.sub /\ t.extra = s.extra /\ t.est = s.est /\ t.asked = s.asked /\ t.usage = s.usage
        /\ t.streamed = s.streamed /\ t.actual = s.actual
        /\ t.fundingSettled = s.fundingSettled /\ t.settled = s.settled
        /\ t.refunded = s.refunded /\ t.seen \in {NoRead, s.seen}
    BY ZenonT(60), <1>1, <1>4 DEF Refuses, Becomes, Marked, Session
  <2>2. t.failed
    BY NotPositive, Zenon DEF Refuses
  <2> QED
    BY <2>1, <2>2
<1>6. /\ record'[q] = record[q] /\ tokenPaid'[q] = tokenPaid[q]
      /\ walletPaid'[q] = walletPaid[q] /\ subPaid'[q] = subPaid[q]
  BY <1>1 DEF Refuses, Becomes
<1>7. SeenInv(q)' /\ FlagInv(q)' /\ HoldInv(q)' /\ FundInv(q)' /\ TokenInv(q)'
  <2>1. SeenInv(q)' /\ FlagInv(q)'
    BY <1>1, <1>2, <1>5, <1>6
       DEF RequestInv, Returning, SeenInv, FlagInv, Before, Reserving, Refunding
  <2>2. HoldInv(q)'
    BY <1>1, <1>2, <1>5, <1>6 DEF RequestInv, Returning, HoldInv, Estimate, Before, Held, Reserving
  <2>3. FundInv(q)'
    BY <1>1, <1>2, <1>5, <1>6
       DEF RequestInv, Returning, FundInv, Spent, Before, Held, Reserving
  <2>4. TokenInv(q)'
    BY <1>1, <1>2, <1>5, <1>6 DEF RequestInv, Returning, TokenInv, Due
  <2> QED
    BY <2>1, <2>2, <2>3, <2>4
<1>8. walletPaid'[q] + subPaid'[q] <= walletPaid[q] + subPaid[q]
  BY <1>1, <1>2, <1>6 DEF Returning
<1> QED
  BY <1>4, <1>5, <1>7, <1>8, CapSame DEF RequestInv

\* The subscription holds the estimate.
LEMMA SubHeld ==
  ASSUME TypeOK, SubWithinTotal, NEW q \in Requests, RequestInv(q),
         ses[q].pc = "fund",
         ses[q].source = "sub",
         ses[q].seen # NoRead,
         Records(q, [Leave(ses[q], "serve") EXCEPT !.sub = ses[q].hold, !.pre = ses[q].hold,
                                                     !.seen = NoRead], "consumed", ses[q].hold)
  PROVE  RequestInv(q)'
<1> DEFINE s == ses[q]
           t == ses'[q]
<1>1. /\ s \in Session /\ SubTotal \in Nat
      /\ walletPaid[q] \in Int /\ subPaid[q] \in Int /\ tokenPaid[q] \in Int
  BY Typed, QuotaAssumption
<1>2. Unheld(q)
  BY AtBefore DEF Before
<1>3. s.token = s.hold /\ s.hold = Estimate(s) /\ s.hold \in Nat
  BY <1>1, <1>2 DEF RequestInv, Unheld, HoldInv, Estimate, Session
<1>4. TypeOK' /\ t \in Session
  BY DEF Records, Frame, TypeOK
<1>5. /\ t.pc = "serve" /\ t.kind = s.kind /\ t.source = s.source /\ t.hold = 0
      /\ t.pre = s.hold /\ t.token = s.token /\ t.wallet = s.wallet /\ t.sub = s.hold
      /\ t.extra = s.extra /\ t.est = s.est /\ t.asked = s.asked /\ t.usage = s.usage /\ t.streamed = s.streamed
      /\ t.actual = s.actual /\ t.fundingSettled = s.fundingSettled /\ t.settled = s.settled
      /\ t.refunded = s.refunded /\ t.seen = NoRead /\ t.failed = s.failed
  BY ZenonT(60), <1>1, <1>4 DEF Records, Session, Leave
<1>6. /\ record'[q] = "consumed" /\ walletPaid'[q] = walletPaid[q]
      /\ subPaid'[q] = subPaid[q] + (s.hold) /\ tokenPaid'[q] = tokenPaid[q]
  BY <1>1 DEF Records
<1>7. SeenInv(q)' /\ FlagInv(q)' /\ HoldInv(q)' /\ FundInv(q)' /\ TokenInv(q)'
  <2>1. SeenInv(q)' /\ FlagInv(q)'
    BY <1>1, <1>2, <1>3, <1>5, <1>6
       DEF RequestInv, Unheld, SeenInv, FlagInv, Before, Reserving, Refunding
  <2>2. HoldInv(q)'
    BY <1>1, <1>2, <1>3, <1>5, <1>6 DEF RequestInv, Unheld, HoldInv, Estimate, Before, Held, Reserving
  <2>3. FundInv(q)'
    BY <1>1, <1>2, <1>3, <1>5, <1>6
       DEF RequestInv, Unheld, FundInv, Spent, Before, Held, Reserving
  <2>4. TokenInv(q)'
    BY <1>1, <1>2, <1>3, <1>5, <1>6 DEF RequestInv, Unheld, TokenInv, Due
  <2> QED
    BY <2>1, <2>2, <2>3, <2>4
<1> QED
  BY <1>4, <1>5, <1>7, CapHere DEF RequestInv, Before, Held, Reserving

\* The record is marked.
LEMMA RecordMarked ==
  ASSUME TypeOK, SubWithinTotal, NEW q \in Requests, RequestInv(q),
         ses[q].pc = "refsave",
         ses[q].source = "sub",
         Records(q, [ses[q] EXCEPT !.pc = "extra"], "refunded", 0)
  PROVE  RequestInv(q)'
<1> DEFINE s == ses[q]
           t == ses'[q]
<1>1. /\ s \in Session /\ SubTotal \in Nat
      /\ walletPaid[q] \in Int /\ subPaid[q] \in Int /\ tokenPaid[q] \in Int
  BY Typed, QuotaAssumption
<1>2. Returning(q)
  BY AtReturning DEF Refunding
<1>4. TypeOK' /\ t \in Session
  BY DEF Records, Frame, TypeOK
<1>5. /\ t.pc = "extra" /\ t.plan = s.plan /\ t.kind = s.kind /\ t.source = s.source
      /\ t.hold = s.hold /\ t.pre = s.pre /\ t.token = s.token /\ t.wallet = s.wallet
      /\ t.sub = s.sub /\ t.extra = s.extra /\ t.est = s.est /\ t.asked = s.asked /\ t.usage = s.usage
      /\ t.streamed = s.streamed /\ t.actual = s.actual
      /\ t.fundingSettled = s.fundingSettled /\ t.settled = s.settled
      /\ t.refunded = s.refunded /\ t.seen = s.seen /\ t.failed = s.failed
  BY <1>1, <1>4 DEF Records, Session
<1>6. /\ record'[q] = "refunded" /\ walletPaid'[q] = walletPaid[q]
      /\ subPaid'[q] = subPaid[q] /\ tokenPaid'[q] = tokenPaid[q]
  BY <1>1 DEF Records
<1>7. SeenInv(q)' /\ FlagInv(q)' /\ HoldInv(q)' /\ FundInv(q)' /\ TokenInv(q)'
  <2>1. SeenInv(q)' /\ FlagInv(q)'
    BY <1>1, <1>2, <1>5, <1>6
       DEF RequestInv, Returning, SeenInv, FlagInv, Before, Reserving, Refunding
  <2>2. HoldInv(q)'
    BY <1>1, <1>2, <1>5, <1>6 DEF RequestInv, Returning, HoldInv, Estimate, Before, Held, Reserving
  <2>3. FundInv(q)'
    BY <1>1, <1>2, <1>5, <1>6
       DEF RequestInv, Returning, FundInv, Spent, Before, Held, Reserving
  <2>4. TokenInv(q)'
    BY <1>1, <1>2, <1>5, <1>6 DEF RequestInv, Returning, TokenInv, Due
  <2> QED
    BY <2>1, <2>2, <2>3, <2>4
<1>8. walletPaid'[q] + subPaid'[q] <= walletPaid[q] + subPaid[q]
  BY <1>1, <1>2, <1>6 DEF Returning
<1> QED
  BY <1>4, <1>5, <1>7, <1>8, CapSame DEF RequestInv

-----------------------------------------------------------------------------
(* Every statement keeps the invariant of the request that executes it *)

Keeps(q) == Frame(q) /\ RequestInv(q)'

LEMMA LeaveType ==
  ASSUME NEW s \in Session, NEW p \in Pc
  PROVE  Leave(s, p) \in Session
<1>1. 0 \in Nat /\ 0 \in Int /\ FALSE \in BOOLEAN
  OBVIOUS
<1> QED
  BY <1>1 DEF Leave, Session

LEMMA BeginKeeps ==
  ASSUME TypeOK, SubWithinTotal, NEW q \in Requests, RequestInv(q), Begin(q)
  PROVE  Keeps(q)
<1>1. PICK plan \in Plans, kind \in Kinds, force \in BOOLEAN, est \in Estimates :
        Local(q, [ses[q] EXCEPT !.pc = "try", !.plan = plan, !.kind = kind,
                    !.force = force, !.est = est, !.tokenSeen = remain])
  BY DEF Begin
<1> DEFINE t == [ses[q] EXCEPT !.pc = "try", !.plan = plan, !.kind = kind,
                    !.force = force, !.est = est, !.tokenSeen = remain]
<1>2. ses[q] \in Session /\ est \in Nat /\ remain \in Int /\ plan # <<>> /\ ses[q].pc = "new"
  BY Typed, QuotaAssumption, PlanFacts DEF TypeOK, Begin, At
<1>3. t \in Session
  BY <1>2 DEF Session, Pc
<1>4. Goes(q, t, 0, 0, 0)
  BY <1>1, <1>3, LocalFacts
<1>5. RequestInv(q)'
  BY <1>2, <1>4, Arrives
<1> QED
  BY <1>4, <1>5 DEF Goes, Keeps

LEMMA TryWalletKeeps ==
  ASSUME TypeOK, SubWithinTotal, NEW q \in Requests, RequestInv(q), TryWallet(q)
  PROVE  Keeps(q)
<1> DEFINE s == ses[q]
           hold == IF ShouldTrust(s) THEN 0 ELSE s.est
<1>1. s \in Session /\ s.est \in Nat /\ s.plan \in PlanType /\ s.plan # <<>> /\ s.pc = "try"
  <2>1. s \in Session /\ s.pc = "try" /\ s.plan # <<>>
    BY Typed DEF TryWallet, At, RequestInv, FlagInv
  <2> QED
    BY <2>1 DEF Session, PlanType
<1>2. Leave(s, "rejected") \in Session /\ Leave(s, "serve") \in Session
  BY <1>1, LeaveType DEF Pc
<1>3. CASE Local(q, Leave(s, "rejected"))
  <2>1. Goes(q, Leave(s, "rejected"), 0, 0, 0)
    BY <1>2, <1>3, LocalFacts
  <2> QED
    BY <1>1, <2>1, Refused DEF Goes, Keeps
<1>4. CASE Local(q, [s EXCEPT !.plan = Tail(@), !.pc = "try"]) /\ Len(s.plan) # 1
  <2>1. Tail(s.plan) \in PlanType /\ Tail(s.plan) # <<>>
    BY <1>1, <1>4, PlanFacts
  <2>2. [s EXCEPT !.plan = Tail(@), !.pc = "try"] \in Session
    BY <1>1, <2>1 DEF Session, PlanType, Pc
  <2>3. Goes(q, [s EXCEPT !.plan = Tail(@), !.pc = "try"], 0, 0, 0)
    BY <1>4, <2>2, LocalFacts
  <2> QED
    BY <1>1, <2>1, <2>3, TriesNext DEF Goes, Keeps
<1>5. CASE Local(q, [Leave(s, "serve") EXCEPT !.source = "wallet"])
  <2>1. [Leave(s, "serve") EXCEPT !.source = "wallet"] \in Session
    BY <1>2 DEF Session
  <2>2. Goes(q, [Leave(s, "serve") EXCEPT !.source = "wallet"], 0, 0, 0)
    BY <1>5, <2>1, LocalFacts
  <2> QED
    BY <1>1, <2>2, Trusted DEF Goes, Keeps
<1>6. CASE Local(q, [s EXCEPT !.source = "wallet", !.hold = hold, !.pc = "token"]) /\ hold # 0
  <2>1. PICK h \in Nat : h = s.est /\ h = hold
    BY <1>1, <1>6
  <2>2. [s EXCEPT !.source = "wallet", !.hold = h, !.pc = "token"] \in Session
    BY <1>1 DEF Session, Pc
  <2>3. Goes(q, [s EXCEPT !.source = "wallet", !.hold = h, !.pc = "token"], 0, 0, 0)
    BY <1>6, <2>1, <2>2, LocalFacts
  <2> QED
    BY <1>1, <2>1, <2>3, Chosen DEF Goes, Keeps
<1>7. CASE Fails(q, Leave(s, "rejected"))
  <2>1. Goes(q, Failed(Leave(s, "rejected")), 0, 0, 0)
    BY <1>2, <1>7, FailsFacts
  <2> QED
    BY <1>1, <2>1, RefusedByError DEF Goes, Keeps
<1>8. \/ Local(q, IF quota <= 0 \/ quota < s.est THEN NextSource(s)
                  ELSE IF hold = 0 THEN [Leave(s, "serve") EXCEPT !.source = "wallet"]
                  ELSE [s EXCEPT !.source = "wallet", !.hold = hold, !.pc = "token"])
      \/ Fails(q, Leave(s, "rejected"))
  BY DEF TryWallet
<1> HIDE DEF hold
<1>9. CASE quota <= 0 \/ quota < s.est
  BY <1>3, <1>4, <1>7, <1>8, <1>9 DEF NextSource
<1>10. CASE ~(quota <= 0 \/ quota < s.est)
  BY <1>5, <1>6, <1>7, <1>8, <1>10
<1> QED
  BY <1>9, <1>10

LEMMA TrySubscriptionKeeps ==
  ASSUME TypeOK, SubWithinTotal, NEW q \in Requests, RequestInv(q), TrySubscription(q)
  PROVE  Keeps(q)
<1> DEFINE s == ses[q]
<1>1. s \in Session /\ s.est \in Nat /\ s.pc = "try"
  BY Typed DEF TrySubscription, At, Session
<1>2. PICK h \in Nat : h = (IF s.est = 0 THEN 1 ELSE s.est)
  BY <1>1
<1>3. [s EXCEPT !.source = "sub", !.hold = h, !.pc = "token"] \in Session
  BY <1>1 DEF Session, Pc
<1>4. Goes(q, [s EXCEPT !.source = "sub", !.hold = h, !.pc = "token"], 0, 0, 0)
  BY <1>2, <1>3, LocalFacts DEF TrySubscription
<1> QED
  BY <1>1, <1>2, <1>4, Chosen DEF Goes, Keeps

LEMMA CheckTokenKeeps ==
  ASSUME TypeOK, SubWithinTotal, NEW q \in Requests, RequestInv(q), CheckToken(q)
  PROVE  Keeps(q)
<1> DEFINE s == ses[q]
<1>1. s \in Session /\ s.pc \in {"token", "rtoken"}
  BY Typed DEF CheckToken
<1>2. /\ Leave(s, "rejected") \in Session
      /\ [s EXCEPT !.pc = "tokendec"] \in Session /\ [s EXCEPT !.pc = "rtokendec"] \in Session
      /\ [s EXCEPT !.pc = "unreserve"] \in Session
  <2>1. Leave(s, "rejected") \in Session
    BY <1>1, LeaveType DEF Pc
  <2>2. /\ [s EXCEPT !.pc = "tokendec"] \in Session /\ [s EXCEPT !.pc = "rtokendec"] \in Session
        /\ [s EXCEPT !.pc = "unreserve"] \in Session
    BY ZenonT(60), <1>1 DEF Session, Pc
  <2> QED
    BY <2>1, <2>2
<1>3. CASE s.pc = "token"
  <2>1. CASE Local(q, [s EXCEPT !.pc = "tokendec"])
    <3>1. Goes(q, [s EXCEPT !.pc = "tokendec"], 0, 0, 0)
      BY <1>2, <2>1, LocalFacts
    <3> QED
      BY <1>3, <3>1, TokenEnough DEF Goes, Keeps
  <2>2. CASE Local(q, Leave(s, "rejected"))
    <3>1. Goes(q, Leave(s, "rejected"), 0, 0, 0)
      BY <1>2, <2>2, LocalFacts
    <3> QED
      BY <1>3, <3>1, Refused DEF Goes, Keeps
  <2>3. CASE Fails(q, Leave(s, "rejected"))
    <3>1. Goes(q, Failed(Leave(s, "rejected")), 0, 0, 0)
      BY <1>2, <2>3, FailsFacts
    <3> QED
      BY <1>3, <3>1, RefusedByError DEF Goes, Keeps
  <2> QED
    BY <1>3, <2>1, <2>2, <2>3 DEF CheckToken, TokenFails
<1>4. CASE s.pc = "rtoken"
  <2>1. CASE Local(q, [s EXCEPT !.pc = "rtokendec"])
    <3>1. Goes(q, [s EXCEPT !.pc = "rtokendec"], 0, 0, 0)
      BY <1>2, <2>1, LocalFacts
    <3> QED
      BY <1>4, <3>1, ReserveEnough DEF Goes, Keeps
  <2>2. CASE Local(q, [s EXCEPT !.pc = "unreserve"])
    <3>1. Goes(q, [s EXCEPT !.pc = "unreserve"], 0, 0, 0)
      BY <1>2, <2>2, LocalFacts
    <3> QED
      BY <1>4, <3>1, ReserveTokenRefused DEF Goes, Keeps
  <2>3. CASE Fails(q, [s EXCEPT !.pc = "unreserve"])
    <3>1. Goes(q, Failed([s EXCEPT !.pc = "unreserve"]), 0, 0, 0)
      BY <1>2, <2>3, FailsFacts
    <3> QED
      BY <1>4, <3>1, ReserveTokenFailed DEF Goes, Keeps
  <2> QED
    BY <1>4, <2>1, <2>2, <2>3 DEF CheckToken, TokenFails
<1> QED
  BY <1>1, <1>3, <1>4

\* What a statement on the token does, named by the amount it takes.
LEMMA TokenTakes ==
  ASSUME TypeOK, SubWithinTotal, NEW q \in Requests, NEW t \in Session, NEW d \in Int,
         TokenDelta(q, d, t)
  PROVE  \E k \in Int : k = (IF ses[q].kind = "playground" THEN 0 ELSE d) /\ Goes(q, t, 0, 0, k)
<1>1. PICK k \in Int : k = (IF ses[q].kind = "playground" THEN 0 ELSE d)
  OBVIOUS
<1> QED
  BY <1>1, TokenDeltaFacts

LEMMA PreConsumeTokenKeeps ==
  ASSUME TypeOK, SubWithinTotal, NEW q \in Requests, RequestInv(q), PreConsumeToken(q)
  PROVE  Keeps(q)
<1> DEFINE s == ses[q]
           t == [s EXCEPT !.token = s.hold, !.pc = "fund"]
<1>1. s \in Session /\ s.hold \in Nat /\ s.hold \in Int /\ s.pc = "tokendec"
  BY SMTT(60), Typed DEF PreConsumeToken, At, Session
<1>2. t \in Session /\ Leave(s, "rejected") \in Session
  <2>1. t \in Session
    BY <1>1 DEF Session, Pc
  <2>2. Leave(s, "rejected") \in Session
    BY <1>1, LeaveType DEF Pc
  <2> QED
    BY <2>1, <2>2
<1>3. CASE TokenDelta(q, s.hold, t)
  <2>1. PICK k \in Int : /\ k = (IF s.kind = "playground" THEN 0 ELSE s.hold)
                         /\ Goes(q, t, 0, 0, k)
    BY <1>1, <1>2, <1>3, TokenTakes
  <2> QED
    BY <1>1, <2>1, TokenCharged DEF Goes, Keeps
<1>4. CASE Fails(q, Leave(s, "rejected"))
  <2>1. Goes(q, Failed(Leave(s, "rejected")), 0, 0, 0)
    BY <1>2, <1>4, FailsFacts
  <2> QED
    BY <1>1, <2>1, RefusedByError DEF Goes, Keeps
<1> QED
  BY <1>3, <1>4 DEF PreConsumeToken, TokenFails

LEMMA PreConsumeWalletKeeps ==
  ASSUME TypeOK, SubWithinTotal, NEW q \in Requests, RequestInv(q), PreConsumeWallet(q)
  PROVE  Keeps(q)
<1> DEFINE s == ses[q]
           ok == [Leave(s, "serve") EXCEPT !.wallet = s.hold, !.pre = s.hold]
           err == [s EXCEPT !.plan = <<>>, !.pc = "rollback"]
<1>1. s \in Session /\ s.hold \in Nat /\ s.hold \in Int /\ s.pc = "fund" /\ s.source = "wallet"
  BY SMTT(30), Typed DEF PreConsumeWallet, At, Session
<1>2. ok \in Session /\ err \in Session
  <2>1. Leave(s, "serve") \in Session
    BY <1>1, LeaveType DEF Pc
  <2>2. ok \in Session
    BY <1>1, <2>1 DEF Session
  <2>3. err \in Session
    BY <1>1 DEF Session, Pc
  <2> QED
    BY <2>2, <2>3
<1>3. SeenInv(q) /\ FundingDelta(q, s.hold, ok, err)
  BY DEF RequestInv, PreConsumeWallet
<1> HIDE DEF ok, err
<1>4. Goes(q, ok, s.hold, 0, 0) \/ Goes(q, Failed(err), 0, 0, 0)
  BY <1>1, <1>2, <1>3, FundingFacts DEF Reads
<1>5. CASE Goes(q, ok, s.hold, 0, 0)
  BY <1>1, <1>5, WalletHeld DEF Goes, Keeps, ok
<1>6. CASE Goes(q, Failed(err), 0, 0, 0)
  BY <1>1, <1>6, FundFailed DEF Goes, Keeps, err
<1> QED
  BY <1>4, <1>5, <1>6

LEMMA PreConsumeUserSubscriptionKeeps ==
  ASSUME TypeOK, SubWithinTotal, NEW q \in Requests, RequestInv(q),
         PreConsumeUserSubscription(q)
  PROVE  Keeps(q)
<1> DEFINE s == ses[q]
           held == [Leave(s, "serve") EXCEPT !.sub = s.hold, !.pre = s.hold, !.seen = NoRead]
           refused == [s EXCEPT !.plan = Tail(@), !.pc = "rollback"]
           err == [s EXCEPT !.plan = <<>>, !.pc = "rollback"]
<1>1. /\ s \in Session /\ s.hold \in Nat /\ s.pc = "fund" /\ s.source = "sub"
      /\ s.plan \in PlanType /\ s.plan # <<>> /\ subUsed \in Int /\ subUsed \in 0..SubTotal
  <2>1. s \in Session /\ s.pc = "fund" /\ s.source = "sub" /\ s.plan # <<>>
    BY Typed DEF PreConsumeUserSubscription, At, RequestInv, FlagInv
  <2> QED
    BY <2>1 DEF Session, PlanType, TypeOK, SubWithinTotal
<1>2. refused \in Session /\ err \in Session /\ [s EXCEPT !.seen = subUsed] \in Session
  <2>1. Tail(s.plan) \in PlanType
    BY <1>1, PlanFacts
  <2> QED
    BY ZenonT(60), <1>1, <2>1 DEF Session, Pc, PlanType
<1>3. held \in Session
  <2>1. Leave(s, "serve") \in Session /\ NoRead \in Int
    BY <1>1, LeaveType DEF Pc, NoRead
  <2> QED
    BY <1>1, <2>1 DEF Session
<1>4. CASE s.seen = NoRead /\ Local(q, refused)
  <2>1. Goes(q, refused, 0, 0, 0)
    BY <1>2, <1>4, LocalFacts
  <2> QED
    BY <1>1, <1>4, <2>1, FundRefused DEF Goes, Keeps
<1>5. CASE SubTotal - subUsed >= s.hold /\ Local(q, [s EXCEPT !.seen = subUsed])
  <2>1. Goes(q, [s EXCEPT !.seen = subUsed], 0, 0, 0)
    BY <1>2, <1>5, LocalFacts
  <2> QED
    BY <1>1, <1>5, <2>1, SeesRoom DEF Goes, Keeps
<1>6. CASE Fails(q, err)
  <2>1. Goes(q, Failed(err), 0, 0, 0)
    BY <1>2, <1>6, FailsFacts
  <2> QED
    BY <1>1, <2>1, FundFailed DEF Goes, Keeps
<1>7. CASE /\ s.seen # NoRead
           /\ record' = [record EXCEPT ![q] = "consumed"]
           /\ subUsed' = s.seen + s.hold
           /\ subPaid' = [subPaid EXCEPT ![q] = @ + s.hold]
           /\ Become(q, held)
           /\ UNCHANGED <<userRow, tokenRow, errors>>
  <2>1. subUsed' \in 0..SubTotal /\ subUsed' \in Int
    <3>1. s.seen \in 0..SubTotal /\ s.seen + s.hold <= SubTotal /\ SubTotal \in Nat
      BY <1>1, <1>7, QuotaAssumption DEF RequestInv, SeenInv
    <3> QED
      BY <1>1, <1>7, <3>1
  <2>2. s.hold \in Int
    BY <1>1
  <2>3. Records(q, held, "consumed", s.hold)
    BY <1>3, <1>7, <2>1, <2>2
       DEF Become, userRow, tokenRow, Records, Frame, TypeOK, SubWithinTotal
  <2> QED
    BY <1>1, <1>7, <2>3, SubHeld DEF Records, Keeps
<1>8. CASE s.seen = NoRead /\ Local(q, IF SubTotal - subUsed < s.hold THEN refused
                                       ELSE [s EXCEPT !.seen = subUsed])
  <2>1. SubTotal \in Nat
    BY QuotaAssumption
  <2>2. SubTotal - subUsed < s.hold \/ SubTotal - subUsed >= s.hold
    BY <1>1, <2>1
  <2>3. CASE SubTotal - subUsed < s.hold
    BY <1>4, <1>8, <2>3
  <2>4. CASE ~(SubTotal - subUsed < s.hold)
    BY <1>5, <1>8, <2>2, <2>4
  <2> QED
    BY <2>3, <2>4
<1> QED
  BY <1>6, <1>7, <1>8 DEF PreConsumeUserSubscription

LEMMA RollbackTokenKeeps ==
  ASSUME TypeOK, SubWithinTotal, NEW q \in Requests, RequestInv(q), RollbackToken(q)
  PROVE  Keeps(q)
<1> DEFINE s == ses[q]
           given == [s EXCEPT !.token = 0, !.hold = 0, !.source = "none"]
           next == [s EXCEPT !.token = 0, !.hold = 0, !.source = "none", !.pc = "try"]
           after == IF s.plan = <<>> THEN Leave(given, "rejected") ELSE [given EXCEPT !.pc = "try"]
<1>1. s \in Session /\ s.token \in Nat /\ s.pc = "rollback"
  BY Typed DEF RollbackToken, At, Session
<1>2. given \in Session /\ next \in Session /\ -s.token \in Int
  <2>1. given \in Session
    BY <1>1 DEF Session
  <2>2. next \in Session
    BY <1>1 DEF Session, Pc
  <2>3. -s.token \in Int
    BY <1>1
  <2> QED
    BY <2>1, <2>2, <2>3
<1>3. Leave(given, "rejected") \in Session
  BY <1>2, LeaveType DEF Pc
<1>4. after = IF s.plan = <<>> THEN Leave(given, "rejected") ELSE next
  OBVIOUS
<1>5. after \in Session
  BY <1>2, <1>3, <1>4
<1>6. TokenDelta(q, -s.token, after) \/ Fails(q, after)
  BY DEF RollbackToken, RollbackAmount, TokenFails
<1> HIDE DEF given, next, after
<1>7. CASE TokenDelta(q, -s.token, after)
  <2>1. PICK k \in Int : /\ k = (IF s.kind = "playground" THEN 0 ELSE -s.token)
                         /\ Goes(q, after, 0, 0, k)
    BY <1>2, <1>5, <1>7, TokenTakes
  <2>2. CASE s.plan = <<>>
    BY <1>1, <1>4, <2>1, <2>2, GivenBack DEF Goes, Keeps, given
  <2>3. CASE s.plan # <<>>
    BY <1>1, <1>4, <2>1, <2>3, GivenBackAndTries DEF Goes, Keeps, next
  <2> QED
    BY <2>2, <2>3
<1>8. CASE Fails(q, after)
  <2>1. Goes(q, Failed(after), 0, 0, 0)
    BY <1>5, <1>8, FailsFacts
  <2>2. CASE s.plan = <<>>
    BY <1>1, <1>4, <2>1, <2>2, NotGivenBack DEF Goes, Keeps, given
  <2>3. CASE s.plan # <<>>
    BY <1>1, <1>4, <2>1, <2>3, NotGivenBackAndTries DEF Goes, Keeps, next
  <2> QED
    BY <2>2, <2>3
<1> QED
  BY <1>6, <1>7, <1>8

LEMMA ReserveKeeps ==
  ASSUME TypeOK, SubWithinTotal, NEW q \in Requests, RequestInv(q), Reserve(q)
  PROVE  Keeps(q)
<1> DEFINE s == ses[q]
<1>1. PICK target \in Targets :
        target > s.pre /\ Local(q, [s EXCEPT !.hold = target - s.pre, !.asked = target, !.pc = "reserve"])
  BY DEF Reserve, Grows
<1>2. /\ s \in Session /\ s.pre \in Nat /\ s.pc = "serve" /\ q \notin Realtime
      /\ target \in Nat
  BY Typed, QuotaAssumption DEF Reserve, At, Session
<1>3. target - s.pre \in Nat
  BY <1>1, <1>2
<1>4. [s EXCEPT !.hold = target - s.pre, !.asked = target, !.pc = "reserve"] \in Session
  BY <1>2, <1>3 DEF Session, Pc
<1>5. Goes(q, [s EXCEPT !.hold = target - s.pre, !.asked = target, !.pc = "reserve"], 0, 0, 0)
  BY <1>1, <1>4, LocalFacts
<1> QED
  BY <1>1, <1>2, <1>5, AsksForMore DEF Goes, Keeps

LEMMA ReserveFundingKeeps ==
  ASSUME TypeOK, SubWithinTotal, NEW q \in Requests, RequestInv(q), ReserveFunding(q)
  PROVE  Keeps(q)
<1> DEFINE s == ses[q]
           ok == [s EXCEPT !.wallet = IF s.source = "wallet" THEN @ + s.hold ELSE @, !.pc = "rtoken"]
           err == [s EXCEPT !.hold = 0, !.pc = "error"]
<1>1. s \in Session /\ s.hold \in Nat /\ s.hold \in Int /\ s.wallet + s.hold \in Int /\ s.pc = "reserve"
  <2>1. s \in Session /\ s.pc = "reserve"
    BY Typed DEF ReserveFunding, At
  <2>2. s.hold \in Nat /\ s.wallet \in Int
    BY <2>1 DEF Session
  <2> QED
    BY <2>1, <2>2
<1>2. ok \in Session /\ err \in Session
  <2>1. ok \in Session
    BY ZenonT(60), <1>1 DEF Session, Pc
  <2>2. err \in Session
    BY <1>1 DEF Session, Pc
  <2> QED
    BY <2>1, <2>2
<1>3. SeenInv(q) /\ FundingDelta(q, s.hold, ok, err)
  BY DEF RequestInv, ReserveFunding
<1> HIDE DEF ok, err
<1>4. Took(q, ok, s.hold) \/ Reads(q) \/ Refuses(q, err, s.hold)
  BY <1>1, <1>2, <1>3, FundingEnds
<1>5. CASE Took(q, ok, s.hold)
  BY <1>1, <1>5, ReserveTook DEF Took, Becomes, Keeps, ok
<1>6. CASE Reads(q)
  BY <1>1, <1>6, ReadKeeps DEF Reads, Goes, Keeps, Before
<1>7. CASE Refuses(q, err, s.hold)
  BY <1>1, <1>7, ReserveRefused DEF Refuses, Becomes, Keeps, err
<1> QED
  BY <1>4, <1>5, <1>6, <1>7

LEMMA ReserveTokenKeeps ==
  ASSUME TypeOK, SubWithinTotal, NEW q \in Requests, RequestInv(q), ReserveToken(q)
  PROVE  Keeps(q)
<1> DEFINE s == ses[q]
           ok == [s EXCEPT !.pre = @ + s.hold, !.token = @ + s.hold, !.extra = @ + s.hold,
                    !.hold = 0, !.pc = "serve"]
           err == [s EXCEPT !.pc = "unreserve"]
<1>1. /\ s \in Session /\ s.hold \in Nat /\ s.hold \in Int /\ s.pc = "rtokendec"
      /\ s.pre + s.hold \in Nat /\ s.token + s.hold \in Nat /\ s.extra + s.hold \in Nat
  <2>1. s \in Session /\ s.pc = "rtokendec"
    BY Typed DEF ReserveToken, At
  <2>2. s.hold \in Nat /\ s.pre \in Nat /\ s.token \in Nat /\ s.extra \in Nat
    BY <2>1 DEF Session
  <2> QED
    BY <2>1, <2>2
<1>2. ok \in Session /\ err \in Session
  <2>1. ok \in Session
    BY <1>1 DEF Session, Pc
  <2>2. err \in Session
    BY <1>1 DEF Session, Pc
  <2> QED
    BY <2>1, <2>2
<1>3. TokenDelta(q, s.hold, ok) \/ Fails(q, err)
  BY DEF ReserveToken, TokenFails
<1> HIDE DEF ok, err
<1>4. CASE TokenDelta(q, s.hold, ok)
  <2>1. PICK k \in Int : /\ k = (IF s.kind = "playground" THEN 0 ELSE s.hold)
                         /\ Goes(q, ok, 0, 0, k)
    BY <1>1, <1>2, <1>4, TokenTakes
  <2> QED
    BY <1>1, <2>1, ReserveTokenTook DEF Goes, Keeps, ok
<1>5. CASE Fails(q, err)
  <2>1. Goes(q, Failed(err), 0, 0, 0)
    BY <1>2, <1>5, FailsFacts
  <2> QED
    BY <1>1, <2>1, ReserveTokenFailed DEF Goes, Keeps, err
<1> QED
  BY <1>3, <1>4, <1>5

LEMMA RollbackFundingReserveKeeps ==
  ASSUME TypeOK, SubWithinTotal, NEW q \in Requests, RequestInv(q), RollbackFundingReserve(q)
  PROVE  Keeps(q)
<1> DEFINE s == ses[q]
           ok == [s EXCEPT !.wallet = IF s.source = "wallet" THEN @ - s.hold ELSE @,
                    !.hold = 0, !.pc = "error"]
           err == [s EXCEPT !.hold = 0, !.pc = "error"]
<1>1. s \in Session /\ s.hold \in Nat /\ -s.hold \in Int /\ s.wallet - s.hold \in Int /\ s.pc = "unreserve"
  <2>1. s \in Session /\ s.pc = "unreserve"
    BY Typed DEF RollbackFundingReserve, At
  <2>2. s.hold \in Nat /\ s.wallet \in Int
    BY <2>1 DEF Session
  <2> QED
    BY <2>1, <2>2
<1>2. ok \in Session /\ err \in Session
  <2>1. ok \in Session
    BY ZenonT(60), <1>1 DEF Session, Pc
  <2>2. err \in Session
    BY <1>1 DEF Session, Pc
  <2> QED
    BY <2>1, <2>2
<1>3. SeenInv(q) /\ FundingDelta(q, -s.hold, ok, err)
  BY DEF RequestInv, RollbackFundingReserve
<1> HIDE DEF ok, err
<1>4. Took(q, ok, -s.hold) \/ Reads(q) \/ Refuses(q, err, -s.hold)
  BY <1>1, <1>2, <1>3, FundingEnds
<1>5. CASE Took(q, ok, -s.hold)
  BY <1>1, <1>5, Unreserved DEF Took, Becomes, Keeps, ok
<1>6. CASE Reads(q)
  BY <1>1, <1>6, ReadKeeps DEF Reads, Goes, Keeps, Before
<1>7. CASE Refuses(q, err, -s.hold)
  BY <1>1, <1>7, NotUnreserved DEF Refuses, Becomes, Keeps, err
<1> QED
  BY <1>4, <1>5, <1>6, <1>7

\* What follows a charge, refused or done, is a session with the same hold.
LEMMA AfterCharge ==
  ASSUME NEW s \in Session
  PROVE  /\ NotCharged(s) \in Session /\ SameHold(NotCharged(s), s)
         /\ NotCharged(s).pc = "ending" /\ NotCharged(s).usage = s.usage
         /\ NotCharged(s).seen = s.seen /\ NotCharged(s).failed = s.failed
         /\ \A t \in Charged(s) :
              /\ t \in Session /\ SameHold(t, s) /\ t.pc \in {"serve", "ending"}
              /\ t.usage = s.usage /\ t.seen = s.seen /\ t.failed = s.failed
<1>1. /\ [s EXCEPT !.pc = "ending"] \in Session
      /\ [s EXCEPT !.told = FALSE, !.counted = FALSE, !.pc = "serve"] \in Session
      /\ [s EXCEPT !.ending = TRUE, !.pc = "ending"] \in Session
  BY ZenonT(60) DEF Session, Pc
<1>2. NotCharged(s) \in Session /\ SameHold(NotCharged(s), s)
         /\ NotCharged(s).pc = "ending" /\ NotCharged(s).usage = s.usage
         /\ NotCharged(s).seen = s.seen /\ NotCharged(s).failed = s.failed
  BY <1>1 DEF NotCharged, SameHold, Session
<1>3. ASSUME NEW t \in Charged(s)
      PROVE  /\ t \in Session /\ SameHold(t, s) /\ t.pc \in {"serve", "ending"}
             /\ t.usage = s.usage /\ t.seen = s.seen /\ t.failed = s.failed
  <2>1. CASE t = [s EXCEPT !.pc = "ending"]
    <3>1. t \in Session
      BY <1>1, <2>1
    <3>2. t.pc = "ending" /\ t.usage = s.usage /\ t.seen = s.seen /\ t.failed = s.failed
      BY <2>1 DEF Session
    <3>3. SameHold(t, s)
      BY <2>1 DEF SameHold, Session
    <3> QED
      BY <3>1, <3>2, <3>3
  <2>2. CASE t = [s EXCEPT !.told = FALSE, !.counted = FALSE, !.pc = "serve"]
    BY SMTT(30), <1>1, <2>2 DEF SameHold, Session
  <2>3. CASE t = [s EXCEPT !.ending = TRUE, !.pc = "ending"]
    BY <1>1, <2>3 DEF SameHold, Session
  <2>4. \/ t = [s EXCEPT !.pc = "ending"]
        \/ t = [s EXCEPT !.told = FALSE, !.counted = FALSE, !.pc = "serve"]
        \/ t = [s EXCEPT !.ending = TRUE, !.pc = "ending"]
    BY Zenon DEF Charged
  <2> QED
    BY <2>1, <2>2, <2>3, <2>4
<1> QED
  BY <1>2, <1>3

LEMMA PreWssConsumeQuotaKeeps ==
  ASSUME TypeOK, SubWithinTotal, NEW q \in Requests, RequestInv(q),
         q \in Realtime, ses[q].pc \in {"serve", "ending"},
         NEW t \in Session, SameHold(t, ses[q]), t.usage = ses[q].usage,
         t.seen = ses[q].seen, t.failed = ses[q].failed,
         PreWssConsumeQuota(q, t)
  PROVE  Keeps(q)
<1> DEFINE s == [t EXCEPT !.usage = @ + 1]
           yes == [s EXCEPT !.pc = "stream"]
           no == NotCharged(s)
<1>1. t.usage \in Nat /\ t.usage + 1 \in Nat
  BY DEF Session
<1>2. s \in Session
  BY <1>1 DEF Session
<1>3. s.usage = t.usage + 1 /\ s.seen = t.seen /\ s.failed = t.failed /\ SameHold(s, t)
  BY <1>2 DEF SameHold, Session
<1>4. Local(q, yes) \/ Local(q, no) \/ Fails(q, no)
  BY DEF PreWssConsumeQuota
<1> HIDE DEF s
<1>5. yes \in Session /\ SameHold(yes, s) /\ yes.pc = "stream" /\ yes.usage = s.usage
      /\ yes.seen = s.seen /\ yes.failed = s.failed
  <2>1. yes \in Session
    BY ZenonT(60), <1>2 DEF Session, Pc
  <2> QED
    BY <1>2, <2>1 DEF SameHold, Session
<1>6. no \in Session /\ SameHold(no, s) /\ no.pc = "ending" /\ no.usage = s.usage
      /\ no.seen = s.seen /\ no.failed = s.failed
  BY <1>2, AfterCharge
<1> HIDE DEF yes, no
<1>7. SameHold(yes, ses[q]) /\ SameHold(no, ses[q])
  BY <1>3, <1>5, <1>6 DEF SameHold
<1>8. s.usage >= ses[q].usage /\ s.usage > ses[q].usage
  BY <1>1, <1>3
<1>9. CASE Local(q, yes)
  BY <1>3, <1>5, <1>7, <1>8, <1>9, GoesOnLocally DEF Keeps
<1>10. CASE Local(q, no)
  BY <1>3, <1>6, <1>7, <1>8, <1>10, GoesOnLocally DEF Keeps
<1>11. CASE Fails(q, no)
  <2>1. Refuses(q, no, 0)
    BY <1>6, <1>11, FailsRefuses
  <2>2. /\ Becomes(q, no) /\ Frame(q) /\ ses'[q].failed
        /\ walletPaid'[q] = walletPaid[q] /\ subPaid'[q] = subPaid[q]
    BY <2>1, NotPositive DEF Refuses, Becomes
  <2> QED
    BY <1>3, <1>6, <1>7, <1>8, <2>2, GoesOn DEF Keeps
<1> QED
  BY <1>4, <1>9, <1>10, <1>11

LEMMA ResponseDoneKeeps ==
  ASSUME TypeOK, SubWithinTotal, NEW q \in Requests, RequestInv(q), ResponseDone(q)
  PROVE  Keeps(q)
<1>1. PICK told \in BOOLEAN, counted \in BOOLEAN :
        PreWssConsumeQuota(q, [ses[q] EXCEPT !.told = told, !.counted = counted])
  BY DEF ResponseDone
<1> DEFINE t == [ses[q] EXCEPT !.told = told, !.counted = counted]
<1>2. ses[q] \in Session /\ ses[q].pc = "serve" /\ q \in Realtime
  BY Typed DEF ResponseDone, At
<1>3. /\ t \in Session /\ SameHold(t, ses[q]) /\ t.usage = ses[q].usage
      /\ t.seen = ses[q].seen /\ t.failed = ses[q].failed
  BY ZenonT(60), <1>2 DEF Session, SameHold
<1> HIDE DEF t
<1> QED
  BY <1>1, <1>2, <1>3, PreWssConsumeQuotaKeeps DEF t

LEMMA StreamFundingKeeps ==
  ASSUME TypeOK, SubWithinTotal, NEW q \in Requests, RequestInv(q), StreamFunding(q)
  PROVE  Keeps(q)
<1> DEFINE s == ses[q]
           ok == [s EXCEPT !.streamed = @ + 1, !.pc = "streamtoken"]
           err == NotCharged(s)
<1>1. s \in Session /\ s.streamed + 1 \in Nat /\ s.usage \in Nat /\ s.pc = "stream" /\ q \in Realtime
  <2>1. s \in Session /\ s.pc = "stream" /\ q \in Realtime
    BY Typed DEF StreamFunding, At, RequestInv, FlagInv
  <2>2. s.streamed \in Nat /\ s.usage \in Nat
    BY <2>1 DEF Session
  <2> QED
    BY <2>1, <2>2
<1>2. ok \in Session /\ 1 \in Int
  <2>1. "streamtoken" \in Pc /\ 1 \in Int
    BY DEF Pc
  <2> QED
    BY ZenonT(60), <1>1, <2>1 DEF Session
<1>3. SeenInv(q) /\ FundingDelta(q, 1, ok, err)
  BY DEF RequestInv, StreamFunding
<1>err. /\ err \in Session /\ SameHold(err, s) /\ err.pc = "ending" /\ err.usage = s.usage
        /\ err.seen = s.seen /\ err.failed = s.failed
  BY <1>1, AfterCharge
<1> HIDE DEF ok, err
<1>4. Took(q, ok, 1) \/ Reads(q) \/ Refuses(q, err, 1)
  BY <1>1, <1>2, <1>3, <1>err, FundingEnds
<1>5. CASE Took(q, ok, 1)
  BY <1>1, <1>5, UsageTook DEF Took, Becomes, Keeps, ok
<1>6. CASE Reads(q)
  BY <1>1, <1>6, ReadKeeps DEF Reads, Goes, Keeps, Before
<1>7. CASE Refuses(q, err, 1)
  <2>1. /\ Becomes(q, err) /\ Frame(q) /\ (ses'[q].failed \/ ses'[q].failed = s.failed)
        /\ walletPaid'[q] = walletPaid[q] /\ subPaid'[q] = subPaid[q]
    BY <1>7, <1>err DEF Refuses, Becomes
  <2>2. s.usage >= s.usage
    BY <1>1
  <2> QED
    BY <1>1, <1>err, <2>1, <2>2, GoesOn DEF Keeps
<1> QED
  BY <1>4, <1>5, <1>6, <1>7

LEMMA StreamTokenKeeps ==
  ASSUME TypeOK, SubWithinTotal, NEW q \in Requests, RequestInv(q), StreamToken(q)
  PROVE  Keeps(q)
<1> DEFINE s == ses[q]
           err == NotCharged(s)
<1>1. s \in Session /\ s.usage \in Nat /\ s.pc = "streamtoken" /\ q \in Realtime
  BY Typed DEF StreamToken, At, Session, RequestInv, FlagInv
<1>2. /\ err \in Session /\ SameHold(err, s) /\ err.pc = "ending" /\ err.usage = s.usage
      /\ err.seen = s.seen /\ err.failed = s.failed
  BY <1>1, AfterCharge
<1>3. (\E t \in Charged(s) : TokenDelta(q, 1, t)) \/ Fails(q, err)
  BY DEF StreamToken, TokenFails
<1> HIDE DEF err
<1>4. ASSUME NEW t \in Charged(s), TokenDelta(q, 1, t)
      PROVE  Keeps(q)
  <2>1. /\ t \in Session /\ SameHold(t, s) /\ t.pc \in {"serve", "ending"}
        /\ t.usage = s.usage /\ t.seen = s.seen /\ t.failed = s.failed
    BY <1>1, AfterCharge
  <2>2. PICK k \in Int : /\ k = (IF s.kind = "playground" THEN 0 ELSE 1)
                         /\ Goes(q, t, 0, 0, k)
    BY <1>4, <2>1, TokenTakes
  <2> QED
    BY <1>1, <2>1, <2>2, UsageTokenTook DEF Goes, Keeps
<1>5. CASE Fails(q, err)
  <2>1. Refuses(q, err, 0)
    BY <1>2, <1>5, FailsRefuses
  <2>2. /\ Becomes(q, err) /\ Frame(q) /\ ses'[q].failed
        /\ walletPaid'[q] = walletPaid[q] /\ subPaid'[q] = subPaid[q]
    BY <2>1, NotPositive DEF Refuses, Becomes
  <2>3. s.usage >= s.usage
    BY <1>1
  <2> QED
    BY <1>1, <1>2, <2>2, <2>3, GoesOn DEF Keeps
<1> QED
  BY <1>3, <1>4, <1>5

LEMMA EndSessionKeeps ==
  ASSUME TypeOK, SubWithinTotal, NEW q \in Requests, RequestInv(q), EndSession(q)
  PROVE  Keeps(q)
<1>1. PICK counted \in BOOLEAN :
        Local(q, [ses[q] EXCEPT !.counted = counted, !.ending = TRUE, !.pc = "ending"])
  BY DEF EndSession
<1> DEFINE t == [ses[q] EXCEPT !.counted = counted, !.ending = TRUE, !.pc = "ending"]
<1>2. ses[q] \in Session /\ ses[q].usage \in Nat /\ ses[q].pc = "serve" /\ q \in Realtime
  BY Typed DEF EndSession, At, Session
<1>3. t \in Session
  BY ZenonT(60), <1>2 DEF Session, Pc
<1>4. /\ SameHold(t, ses[q]) /\ t.usage = ses[q].usage /\ t.pc = "ending"
      /\ t.seen = ses[q].seen /\ t.failed = ses[q].failed
  BY <1>2 DEF Session, SameHold
<1>5. t.usage >= ses[q].usage
  BY <1>2, <1>4
<1> HIDE DEF t
<1>6. Local(q, t)
  BY <1>1 DEF t
<1> QED
  BY <1>2, <1>3, <1>4, <1>5, <1>6, GoesOnLocally DEF Keeps

LEMMA LastUsageKeeps ==
  ASSUME TypeOK, SubWithinTotal, NEW q \in Requests, RequestInv(q), LastUsage(q)
  PROVE  Keeps(q)
<1> DEFINE s == ses[q]
<1>1. s \in Session /\ s.usage \in Nat /\ s.pc = "ending" /\ q \in Realtime
  BY Typed DEF LastUsage, At, Session, RequestInv, FlagInv
<1>2. ASSUME NEW t, t = [s EXCEPT !.told = FALSE] \/ t = [s EXCEPT !.counted = FALSE],
             PreWssConsumeQuota(q, t)
      PROVE  Keeps(q)
  <2>1. /\ t \in Session /\ SameHold(t, s) /\ t.usage = s.usage
        /\ t.seen = s.seen /\ t.failed = s.failed
    <3>1. CASE t = [s EXCEPT !.told = FALSE]
      BY <1>1, <3>1 DEF Session, SameHold
    <3>2. CASE t = [s EXCEPT !.counted = FALSE]
      BY <1>1, <3>2 DEF Session, SameHold
    <3> QED
      BY <1>2, <3>1, <3>2
  <2> QED
    BY <1>1, <1>2, <2>1, PreWssConsumeQuotaKeeps
<1>3. ASSUME NEW a \in {0, s.usage},
             Local(q, [s EXCEPT !.actual = a, !.ending = FALSE, !.pc = "settle"])
      PROVE  Keeps(q)
  <2> DEFINE t == [s EXCEPT !.actual = a, !.ending = FALSE, !.pc = "settle"]
  <2>1. a \in Nat
    BY <1>1
  <2>2. t \in Session
    BY ZenonT(60), <1>1, <2>1 DEF Session, Pc
  <2>3. /\ SameHold(t, s) /\ t.usage = s.usage /\ t.pc = "settle"
        /\ t.seen = s.seen /\ t.failed = s.failed
    BY <1>1 DEF Session, SameHold
  <2>4. t.usage >= s.usage
    BY <1>1, <2>3
  <2> HIDE DEF t
  <2>5. Local(q, t)
    BY <1>3 DEF t
  <2> QED
    BY <1>1, <2>2, <2>3, <2>4, <2>5, GoesOnLocally DEF Keeps
<1> QED
  BY <1>2, <1>3 DEF LastUsage

LEMMA SucceedKeeps ==
  ASSUME TypeOK, SubWithinTotal, NEW q \in Requests, RequestInv(q), Succeed(q)
  PROVE  Keeps(q)
<1> DEFINE s == ses[q]
<1>1. s \in Session /\ s.usage \in Nat /\ s.pc = "serve"
  BY Typed DEF Succeed, At, Session
<1>2. PICK a \in Nat : Local(q, [s EXCEPT !.actual = a, !.pc = "settle"])
  BY <1>1, QuotaAssumption DEF Succeed
<1> DEFINE t == [s EXCEPT !.actual = a, !.pc = "settle"]
<1>3. t \in Session
  BY ZenonT(60), <1>1 DEF Session, Pc
<1>4. /\ SameHold(t, s) /\ t.usage = s.usage /\ t.pc = "settle"
      /\ t.seen = s.seen /\ t.failed = s.failed
  BY <1>1 DEF Session, SameHold
<1>5. t.usage >= s.usage
  BY <1>1, <1>4
<1> HIDE DEF t
<1>6. Local(q, t)
  BY <1>2 DEF t
<1> QED
  BY <1>1, <1>3, <1>4, <1>5, <1>6, GoesOnLocally DEF Keeps

LEMMA UpstreamErrorKeeps ==
  ASSUME TypeOK, SubWithinTotal, NEW q \in Requests, RequestInv(q), UpstreamError(q)
  PROVE  Keeps(q)
<1> DEFINE s == ses[q]
<1>1. s \in Session /\ s.pc = "serve" /\ s.usage = 0
  BY Typed DEF UpstreamError, At, RequestInv, FlagInv
<1>2. [s EXCEPT !.pc = "error"] \in Session
  BY <1>1 DEF Session, Pc
<1>3. Goes(q, [s EXCEPT !.pc = "error"], 0, 0, 0)
  BY <1>2, LocalFacts DEF UpstreamError
<1> QED
  BY <1>1, <1>3, FailsUpstream DEF Goes, Keeps

LEMMA SettleFundingKeeps ==
  ASSUME TypeOK, SubWithinTotal, NEW q \in Requests, RequestInv(q), SettleFunding(q)
  PROVE  Keeps(q)
<1> DEFINE s == ses[q]
           even == [s EXCEPT !.settled = TRUE, !.pc = "done"]
           ok == [s EXCEPT !.fundingSettled = TRUE, !.pc = "settletoken"]
           err == [s EXCEPT !.pc = "unsettled"]
<1>1. s \in Session /\ s.pc = "settle" /\ s.actual \in Nat /\ s.pre \in Nat
  BY Typed DEF SettleFunding, At, Session
<1>2. even \in Session /\ ok \in Session /\ err \in Session
  <2>1. even \in Session
    BY <1>1 DEF Session, Pc
  <2>2. ok \in Session
    BY <1>1 DEF Session, Pc
  <2>3. err \in Session
    BY <1>1 DEF Session, Pc
  <2> QED
    BY <2>1, <2>2, <2>3
<1>3. PICK d \in Int : d = s.actual - s.pre
  BY <1>1
<1>4. CASE s.actual = s.pre /\ Local(q, even)
  <2>1. Goes(q, even, 0, 0, 0)
    BY <1>2, <1>4, LocalFacts
  <2> QED
    BY <1>1, <1>4, <2>1, NothingToSettle DEF Goes, Keeps
<1>5. CASE FundingDelta(q, s.actual - s.pre, ok, err)
  <2>1. SeenInv(q) /\ FundingDelta(q, d, ok, err)
    BY <1>3, <1>5 DEF RequestInv
  <2> HIDE DEF ok, err
  <2>2. Took(q, ok, d) \/ Reads(q) \/ Refuses(q, err, d)
    BY <1>2, <2>1, FundingEnds
  <2>3. CASE Took(q, ok, d)
    <3>1. PICK b \in BOOLEAN : b = TRUE
      OBVIOUS
    <3>2. Took(q, [ses[q] EXCEPT !.fundingSettled = b, !.pc = "settletoken"], d)
      BY <2>3, <3>1 DEF ok
    <3> QED
      BY <1>1, <1>3, <3>2, SettleTook DEF Took, Becomes, Keeps
  <2>4. CASE Reads(q)
    BY <1>1, <2>4, ReadKeeps DEF Reads, Goes, Keeps, Before
  <2>5. CASE Refuses(q, err, d)
    BY <1>1, <2>5, SettleRefused DEF Refuses, Becomes, Keeps, err
  <2> QED
    BY <2>2, <2>3, <2>4, <2>5
<1> QED
  BY <1>4, <1>5 DEF SettleFunding, SettleDelta

LEMMA SettleTokenKeeps ==
  ASSUME TypeOK, SubWithinTotal, NEW q \in Requests, RequestInv(q), SettleToken(q)
  PROVE  Keeps(q)
<1> DEFINE s == ses[q]
           after == [s EXCEPT !.settled = TRUE, !.pc = "done"]
<1>1. s \in Session /\ s.pc = "settletoken" /\ s.actual \in Nat /\ s.pre \in Nat
  BY Typed DEF SettleToken, At, Session
<1>2. s.actual - s.pre \in Int
  BY <1>1
<1>3. after \in Session
  BY <1>1 DEF Session, Pc
<1>4. TokenDelta(q, s.actual - s.pre, after) \/ Fails(q, after)
  BY DEF SettleToken, SettleDelta, TokenFails
<1> HIDE DEF after
<1>5. CASE TokenDelta(q, s.actual - s.pre, after)
  <2>1. PICK k \in Int : /\ k = (IF s.kind = "playground" THEN 0 ELSE s.actual - s.pre)
                         /\ Goes(q, after, 0, 0, k)
    BY <1>2, <1>3, <1>5, TokenTakes
  <2> QED
    BY <1>1, <2>1, SettleTokenTook DEF Goes, Keeps, after
<1>6. CASE Fails(q, after)
  <2>1. Refuses(q, after, 0)
    BY <1>3, <1>6, FailsRefuses
  <2> QED
    BY <1>1, <2>1, SettleTokenRefused DEF Refuses, Becomes, Keeps, after
<1> QED
  BY <1>4, <1>5, <1>6

LEMMA RefundKeeps ==
  ASSUME TypeOK, SubWithinTotal, NEW q \in Requests, RequestInv(q), Refund(q)
  PROVE  Keeps(q)
<1> DEFINE s == ses[q]
           yes == [s EXCEPT !.refunded = TRUE, !.pc = "refund"]
           no == [s EXCEPT !.pc = "done"]
<1>1. s \in Session /\ s.pc = "error"
  BY Typed DEF Refund, At
<1>2. yes \in Session /\ no \in Session
  <2>1. yes \in Session
    BY <1>1 DEF Session, Pc
  <2>2. no \in Session
    BY <1>1 DEF Session, Pc
  <2> QED
    BY <2>1, <2>2
<1>3. Local(q, IF NeedsRefund(s) THEN yes ELSE no)
  BY DEF Refund
<1>4. CASE NeedsRefund(s)
  <2>1. Goes(q, yes, 0, 0, 0)
    BY <1>2, <1>3, <1>4, LocalFacts
  <2> QED
    BY <1>1, <2>1, RefundStarts DEF Goes, Keeps
<1>5. CASE ~NeedsRefund(s)
  <2>1. Goes(q, no, 0, 0, 0)
    BY <1>2, <1>3, <1>5, LocalFacts
  <2> QED
    BY <1>1, <1>5, <2>1, NothingToRefund DEF Goes, Keeps
<1> QED
  BY <1>4, <1>5

LEMMA RefundWalletKeeps ==
  ASSUME TypeOK, SubWithinTotal, NEW q \in Requests, RequestInv(q), RefundWallet(q)
  PROVE  Keeps(q)
<1> DEFINE s == ses[q]
           after == [s EXCEPT !.pc = "refundtoken"]
<1>1. s \in Session /\ s.pc = "refund" /\ s.source = "wallet"
  BY Typed DEF RefundWallet, At
<1>2. s.wallet \in Int /\ s.wallet >= 0 /\ -s.wallet \in Int
  <2>1. s.wallet \in Int /\ s.wallet >= 0
    BY <1>1 DEF Session, RequestInv, HoldInv, Estimate
  <2> QED
    BY <2>1
<1>3. after \in Session
  BY <1>1 DEF Session, Pc
<1>4. IF s.wallet > 0 THEN FundingDelta(q, -s.wallet, after, after) ELSE Local(q, after)
  BY DEF RefundWallet, WalletRefund
<1> HIDE DEF after
<1>5. CASE s.wallet > 0
  <2>1. SeenInv(q) /\ FundingDelta(q, -s.wallet, after, after) /\ -s.wallet <= 0
    BY <1>2, <1>4, <1>5 DEF RequestInv
  <2>2. Took(q, after, -s.wallet) \/ Reads(q) \/ Refuses(q, after, -s.wallet)
    BY <1>2, <1>3, <2>1, FundingEnds
  <2>3. CASE Took(q, after, -s.wallet)
    BY <1>1, <2>3, WalletTook DEF Took, Becomes, Keeps, after
  <2>4. CASE Reads(q)
    BY <1>1, <2>4 DEF Reads
  <2>5. CASE Refuses(q, after, -s.wallet)
    BY <1>1, <1>2, <2>1, <2>5, WalletRefused DEF Refuses, Becomes, Keeps, after
  <2> QED
    BY <2>2, <2>3, <2>4, <2>5
<1>6. CASE ~(s.wallet > 0)
  <2>1. s.wallet = 0
    BY <1>2, <1>6
  <2>2. Goes(q, after, 0, 0, 0)
    BY <1>3, <1>4, <1>6, LocalFacts
  <2> QED
    BY <1>1, <2>1, <2>2, WalletHasNothing DEF Goes, Keeps, after
<1> QED
  BY <1>5, <1>6

LEMMA RetryType ==
  ASSUME NEW s \in Session
  PROVE  Retry(s) \in Session
<1>1. s.attempts + 1 \in Nat
  <2>1. s.attempts \in Nat
    BY DEF Session
  <2> QED
    BY <2>1
<1>2. (IF s.attempts + 1 < MaxAttempts THEN "refund" ELSE "extra") \in Pc
  BY DEF Pc
<1>3. PICK p \in Pc : p = IF s.attempts + 1 < MaxAttempts THEN "refund" ELSE "extra"
  BY <1>2
<1>4. [s EXCEPT !.attempts = @ + 1, !.pc = p] \in Session
  BY <1>1 DEF Session
<1> QED
  BY <1>3, <1>4 DEF Retry

LEMMA RefundSubscriptionKeeps ==
  ASSUME TypeOK, SubWithinTotal, NEW q \in Requests, RequestInv(q),
         RefundSubscriptionPreConsume(q)
  PROVE  Keeps(q)
<1> DEFINE s == ses[q]
<1>1. s \in Session /\ s.source = "sub" /\ Retry(s) \in Session /\ 0 \in Int
  BY Typed, RetryType DEF RefundSubscriptionPreConsume
<1>2. ASSUME Fails(q, Retry(s)), s.pc \in {"refund", "refdelta", "refsave"}
      PROVE  Keeps(q)
  <2>1. Refuses(q, Retry(s), 0) /\ 0 <= 0
    BY <1>1, <1>2, FailsRefuses
  <2> QED
    BY <1>1, <1>2, <2>1, AttemptFails DEF Refuses, Becomes, Keeps
<1>3. CASE /\ At(q, "refund")
           /\ Local(q, [s EXCEPT !.pc = IF record[q] = "refunded" THEN "extra" ELSE "refdelta"])
  <2>1. s.pc = "refund" /\ record[q] # "refunded"
    BY <1>3 DEF At, RequestInv, FlagInv
  <2>2. [s EXCEPT !.pc = "refdelta"] \in Session
    BY <1>1 DEF Session, Pc
  <2>3. Goes(q, [s EXCEPT !.pc = "refdelta"], 0, 0, 0)
    BY <1>3, <2>1, <2>2, LocalFacts
  <2> QED
    BY <1>1, <2>1, <2>3, RecordRead DEF Goes, Keeps
<1>4. CASE At(q, "refdelta") /\ FundingDelta(q, -s.sub, [s EXCEPT !.pc = "refsave"], Retry(s))
  <2>1. s.sub \in Nat /\ [s EXCEPT !.pc = "refsave"] \in Session /\ s.pc = "refdelta"
    BY ZenonT(60), <1>1, <1>4 DEF Session, Pc, At
  <2>2. -s.sub \in Int /\ -s.sub <= 0
    BY <2>1
  <2>3. SeenInv(q)
    BY DEF RequestInv
  <2>4. \/ Took(q, [s EXCEPT !.pc = "refsave"], -s.sub) \/ Reads(q)
        \/ Refuses(q, Retry(s), -s.sub)
    BY <1>1, <1>4, <2>1, <2>2, <2>3, FundingEnds
  <2>5. CASE Took(q, [s EXCEPT !.pc = "refsave"], -s.sub)
    BY <1>1, <2>1, <2>5, SubTook DEF Took, Becomes, Keeps
  <2>6. CASE Reads(q)
    BY <2>1, <2>6, ReadKeeps DEF Reads, Goes, Keeps, Before
  <2>7. CASE Refuses(q, Retry(s), -s.sub)
    BY <1>1, <2>1, <2>2, <2>7, AttemptFails DEF Refuses, Becomes, Keeps
  <2> QED
    BY <2>4, <2>5, <2>6, <2>7
<1>5. CASE /\ At(q, "refsave")
           /\ record' = [record EXCEPT ![q] = "refunded"]
           /\ Become(q, [s EXCEPT !.pc = "extra"])
           /\ UNCHANGED <<userRow, tokenRow, subPaid, subUsed, errors>>
  <2>1. s.pc = "refsave" /\ [s EXCEPT !.pc = "extra"] \in Session
    BY ZenonT(60), <1>1, <1>5 DEF At, Session, Pc
  <2>2. Records(q, [s EXCEPT !.pc = "extra"], "refunded", 0)
    BY <1>5, <2>1 DEF Become, userRow, tokenRow, Records, Frame, TypeOK, SubWithinTotal
  <2> QED
    BY <1>1, <2>1, <2>2, RecordMarked DEF Records, Keeps
<1> QED
  BY <1>2, <1>3, <1>4, <1>5 DEF RefundSubscriptionPreConsume, At

LEMMA RefundExtraKeeps ==
  ASSUME TypeOK, SubWithinTotal, NEW q \in Requests, RequestInv(q), RefundExtra(q)
  PROVE  Keeps(q)
<1> DEFINE s == ses[q]
           after == [s EXCEPT !.pc = "refundtoken"]
<1>1. s \in Session /\ s.pc = "extra"
  BY Typed DEF RefundExtra, At
<1>2. s.extra \in Nat /\ -s.extra \in Int
  <2>1. s.extra \in Nat
    BY <1>1 DEF Session
  <2> QED
    BY <2>1
<1>3. after \in Session
  BY <1>1 DEF Session, Pc
<1>4. IF s.extra > 0 THEN FundingDelta(q, -s.extra, after, after) ELSE Local(q, after)
  BY DEF RefundExtra
<1> HIDE DEF after
<1>5. CASE s.extra > 0
  <2>1. SeenInv(q) /\ FundingDelta(q, -s.extra, after, after) /\ -s.extra <= 0
    BY <1>2, <1>4, <1>5 DEF RequestInv
  <2>2. Took(q, after, -s.extra) \/ Reads(q) \/ Refuses(q, after, -s.extra)
    BY <1>2, <1>3, <2>1, FundingEnds
  <2>3. CASE Took(q, after, -s.extra)
    BY <1>1, <2>3, ExtraTook DEF Took, Becomes, Keeps, after
  <2>4. CASE Reads(q)
    BY <1>1, <2>4, ReadKeeps DEF Reads, Goes, Keeps, Before
  <2>5. CASE Refuses(q, after, -s.extra)
    BY <1>1, <1>2, <2>1, <2>5, ExtraRefused DEF Refuses, Becomes, Keeps, after
  <2> QED
    BY <2>2, <2>3, <2>4, <2>5
<1>6. CASE ~(s.extra > 0)
  <2>1. s.extra = 0
    BY <1>2, <1>6
  <2>2. Goes(q, after, 0, 0, 0)
    BY <1>3, <1>4, <1>6, LocalFacts
  <2> QED
    BY <1>1, <2>1, <2>2, ExtraIsNothing DEF Goes, Keeps, after
<1> QED
  BY <1>5, <1>6

LEMMA RefundTokenKeeps ==
  ASSUME TypeOK, SubWithinTotal, NEW q \in Requests, RequestInv(q), RefundToken(q)
  PROVE  Keeps(q)
<1> DEFINE s == ses[q]
           after == [s EXCEPT !.pc = "done"]
<1>1. s \in Session /\ s.pc = "refundtoken"
  BY Typed DEF RefundToken, At
<1>2. s.token \in Nat /\ -s.token \in Int
  <2>1. s.token \in Nat
    BY <1>1 DEF Session
  <2> QED
    BY <2>1
<1>3. after \in Session
  BY <1>1 DEF Session, Pc
<1>4. IF s.token > 0 THEN TokenDelta(q, -s.token, after) \/ Fails(q, after) ELSE Local(q, after)
  BY DEF RefundToken, TokenRefund, TokenFails
<1> HIDE DEF after
<1>5. CASE TokenDelta(q, -s.token, after)
  <2>1. PICK k \in Int : /\ k = (IF s.kind = "playground" THEN 0 ELSE -s.token)
                         /\ Goes(q, after, 0, 0, k)
    BY <1>2, <1>3, <1>5, TokenTakes
  <2> QED
    BY <1>1, <2>1, TokenReturned DEF Goes, Keeps, after
<1>6. CASE Fails(q, after)
  <2>1. Refuses(q, after, 0)
    BY <1>3, <1>6, FailsRefuses
  <2> QED
    BY <1>1, <2>1, TokenNotReturned DEF Refuses, Becomes, Keeps, after
<1>7. CASE ~(s.token > 0) /\ Local(q, after)
  <2>1. s.token = 0 /\ Goes(q, after, 0, 0, 0)
    BY <1>2, <1>3, <1>7, LocalFacts
  <2> QED
    BY <1>1, <2>1, TokenHasNothing DEF Goes, Keeps, after
<1> QED
  BY <1>4, <1>5, <1>6, <1>7

-----------------------------------------------------------------------------
(* The theorems *)

LEMMA OthersKeep ==
  ASSUME NEW q \in Requests, NEW r \in Requests \ {q}, RequestInv(r), Frame(q)
  PROVE  RequestInv(r)'
<1>1. /\ ses'[r] = ses[r] /\ record'[r] = record[r]
      /\ walletPaid'[r] = walletPaid[r] /\ tokenPaid'[r] = tokenPaid[r]
      /\ subPaid'[r] = subPaid[r]
  BY DEF Frame
<1>2. SeenInv(r)'
  BY <1>1 DEF RequestInv, SeenInv
<1>3. FlagInv(r)'
  BY <1>1 DEF RequestInv, FlagInv
<1>4. HoldInv(r)'
  BY <1>1 DEF RequestInv, HoldInv, Estimate
<1>5. FundInv(r)'
  BY <1>1 DEF RequestInv, FundInv, Spent
<1>6. TokenInv(r)'
  BY <1>1 DEF RequestInv, TokenInv
<1>7. CapInv(r)'
  BY <1>1 DEF RequestInv, CapInv, Spent
<1> QED
  BY <1>2, <1>3, <1>4, <1>5, <1>6, <1>7 DEF RequestInv

LEMMA StepKeeps ==
  ASSUME TypeOK, SubWithinTotal, NEW q \in Requests, RequestInv(q),
         Begin(q) \/ PreConsume(q) \/ Serve(q) \/ Settle(q) \/ GiveBack(q)
  PROVE  Keeps(q)
<1>1. CASE Begin(q)
  BY <1>1, BeginKeeps
<1>2. CASE PreConsume(q)
  BY <1>2, TryWalletKeeps, TrySubscriptionKeeps, CheckTokenKeeps, PreConsumeTokenKeeps,
     PreConsumeWalletKeeps, PreConsumeUserSubscriptionKeeps, RollbackTokenKeeps DEF PreConsume
<1>3. CASE Serve(q)
  BY <1>3, ReserveKeeps, ReserveFundingKeeps, ReserveTokenKeeps, RollbackFundingReserveKeeps,
     ResponseDoneKeeps, StreamFundingKeeps, StreamTokenKeeps, EndSessionKeeps,
     LastUsageKeeps, SucceedKeeps,
     UpstreamErrorKeeps DEF Serve
<1>4. CASE Settle(q)
  BY <1>4, SettleFundingKeeps, SettleTokenKeeps DEF Settle
<1>5. CASE GiveBack(q)
  BY <1>5, RefundKeeps, RefundWalletKeeps, RefundSubscriptionKeeps, RefundExtraKeeps,
     RefundTokenKeeps DEF GiveBack
<1> QED
  BY <1>1, <1>2, <1>3, <1>4, <1>5

LEMMA InitType ==
  ASSUME Init
  PROVE  TypeOK /\ SubWithinTotal
<1>1. NewSession \in Session
  <2>1. 0 \in Nat /\ 0 \in Int /\ NoRead \in Int /\ FALSE \in BOOLEAN /\ "new" \in Pc
    BY DEF NoRead, Pc
  <2> QED
    BY <2>1 DEF NewSession, Session
<1>2. /\ Wallet0 \in Int /\ Token0 \in Int /\ Used0 \in Int /\ Used0 \in 0..SubTotal
      /\ 0 \in 0..MaxErrors
  BY QuotaAssumption
<1> QED
  BY <1>1, <1>2 DEF Init, TypeOK, SubWithinTotal

LEMMA InitInv ==
  ASSUME Init
  PROVE  IInv
<1>1. TypeOK /\ SubWithinTotal
  BY InitType
<1>2. ASSUME NEW q \in Requests
      PROVE  RequestInv(q)
  <2> DEFINE s == ses[q]
  <2>1. /\ s.pc = "new" /\ s.kind = "limited" /\ s.source = "none" /\ s.hold = 0 /\ s.pre = 0
        /\ s.token = 0 /\ s.wallet = 0 /\ s.sub = 0 /\ s.extra = 0 /\ s.usage = 0
        /\ s.streamed = 0 /\ s.seen = NoRead /\ s.actual = 0 /\ s.asked = 0
    BY DEF Init, NewSession
  <2>2. ~s.fundingSettled /\ ~s.settled /\ ~s.refunded /\ ~s.failed
    BY DEF Init, NewSession
  <2>3. walletPaid[q] = 0 /\ tokenPaid[q] = 0 /\ subPaid[q] = 0 /\ record[q] = "none"
    BY DEF Init
  <2>4. SeenInv(q)
    BY <2>1 DEF SeenInv
  <2>5. FlagInv(q)
    BY <2>1, <2>2, <2>3 DEF FlagInv, Before, Reserving, Refunding
  <2>6. HoldInv(q)
    BY <2>1 DEF HoldInv, Estimate, Before, Held, Reserving
  <2>7. FundInv(q)
    BY <2>1, <2>2, <2>3 DEF FundInv, Spent, Before, Held, Reserving
  <2>8. TokenInv(q)
    BY <2>1, <2>2, <2>3 DEF TokenInv
  <2>9. CapInv(q)
    <3>1. Spent(q) <= s.streamed + s.actual
      BY <2>1, <2>3 DEF Spent
    <3> QED
      BY <3>1 DEF CapInv
  <2> QED
    BY <2>4, <2>5, <2>6, <2>7, <2>8, <2>9 DEF RequestInv
<1> QED
  BY <1>1, <1>2 DEF IInv

LEMMA StutterInv ==
  ASSUME IInv, UNCHANGED vars
  PROVE  IInv'
<1>1. TypeOK' /\ SubWithinTotal'
  BY DEF IInv, vars, userRow, tokenRow, TypeOK, SubWithinTotal
<1>2. ASSUME NEW q \in Requests
      PROVE  RequestInv(q)'
  <2>1. /\ RequestInv(q)
        /\ ses' = ses /\ record' = record /\ walletPaid' = walletPaid
        /\ tokenPaid' = tokenPaid /\ subPaid' = subPaid
    BY DEF IInv, vars, userRow, tokenRow
  <2>2. (SeenInv(q) /\ FlagInv(q) /\ HoldInv(q))'
    BY <2>1 DEF RequestInv, SeenInv, FlagInv, HoldInv, Estimate
  <2>3. (FundInv(q) /\ TokenInv(q) /\ CapInv(q))'
    BY <2>1 DEF RequestInv, FundInv, TokenInv, CapInv, Spent
  <2> QED
    BY <2>2, <2>3 DEF RequestInv
<1> QED
  BY <1>1, <1>2 DEF IInv

LEMMA Invariance == Spec => []IInv
<1>1. Init => IInv
  BY InitInv
<1>2. ASSUME IInv, [Next]_vars
      PROVE  IInv'
  <2>1. CASE Next
    <3>1. PICK q \in Requests :
            Begin(q) \/ PreConsume(q) \/ Serve(q) \/ Settle(q) \/ GiveBack(q)
      BY <2>1 DEF Next
    <3>2. Keeps(q)
      BY <1>2, <3>1, StepKeeps DEF IInv
    <3>3. ASSUME NEW r \in Requests
          PROVE  RequestInv(r)'
      <4>1. CASE r = q
        BY <3>2, <4>1 DEF Keeps
      <4>2. CASE r # q
        BY <1>2, <3>2, <4>2, OthersKeep DEF IInv, Keeps
      <4> QED
        BY <4>1, <4>2
    <3> QED
      BY <3>2, <3>3 DEF IInv, Keeps, Frame
  <2>2. CASE UNCHANGED vars
    BY <1>2, <2>2, StutterInv
  <2> QED
    BY <1>2, <2>1, <2>2
<1> QED
  BY <1>1, <1>2, PTL DEF Spec

\* The ledgers, the rows and the sessions keep their types: what a session
\* believes to have pre-consumed is never negative.
THEOREM TypeCorrect == Spec => []TypeOK
<1>1. IInv => TypeOK
  BY DEF IInv
<1> QED
  BY <1>1, Invariance, PTL

\* A request that is over, and of which no statement failed, has paid from
\* wallet and subscription exactly what it owes: whatever fallback from one
\* source to the other, reservation, trust or streaming it went through.
THEOREM PaysWhatItOwes == Spec => []FinalExact
<1>1. ASSUME IInv
      PROVE  FinalExact
  <2>1. SUFFICES ASSUME NEW q \in Requests, ses[q].pc \in Final, ~ses[q].failed
                 PROVE  Spent(q) = Due(ses[q])
    BY DEF FinalExact
  <2> DEFINE s == ses[q]
  <2>2. RequestInv(q) /\ s \in Session /\ walletPaid[q] \in Int /\ subPaid[q] \in Int
    BY <1>1, Typed DEF IInv
  <2>3. s.streamed \in Nat /\ s.actual \in Nat /\ s.pre \in Nat
    BY <2>2 DEF Session
  <2>4. CASE s.pc = "rejected"
    <3>1. Spent(q) = 0 /\ s.streamed = 0 /\ ~s.settled
      BY <2>2, <2>4 DEF RequestInv, FundInv, FlagInv, Before
    <3> QED
      BY <2>4, <3>1 DEF Due
  <2>5. CASE s.pc = "unsettled"
    <3>1. Spent(q) = s.pre + s.streamed /\ ~s.settled
      BY <2>2, <2>5 DEF RequestInv, FundInv, FlagInv, Held
    <3> QED
      BY <2>3, <2>5, <3>1 DEF Due
  <2>6. CASE s.pc = "done" /\ s.settled
    BY <2>2, <2>3, <2>6 DEF RequestInv, FundInv, Due
  <2>7. CASE s.pc = "done" /\ ~s.settled
    <3>1. Spent(q) = 0 /\ s.streamed = 0
      BY <2>1, <2>2, <2>7 DEF RequestInv, FundInv, FlagInv
    <3> QED
      BY <2>7, <3>1 DEF Due
  <2> QED
    BY <2>1, <2>4, <2>5, <2>6, <2>7 DEF Final
<1> QED
  BY <1>1, Invariance, PTL

\* The API token has paid the same.
THEOREM TokenPaysTheSame == Spec => []TokenExact
<1>1. ASSUME IInv
      PROVE  TokenExact
  <2>1. SUFFICES ASSUME NEW q \in Requests, ses[q].pc \in Final, ~ses[q].failed,
                        ses[q].kind # "playground"
                 PROVE  tokenPaid[q] = Due(ses[q])
    BY DEF TokenExact
  <2> DEFINE s == ses[q]
  <2>2. RequestInv(q) /\ s \in Session /\ tokenPaid[q] \in Int
    BY <1>1, Typed DEF IInv
  <2>3. s.streamed \in Nat /\ s.pre \in Nat
    BY <2>2 DEF Session
  <2>4. CASE s.pc = "done"
    BY <2>1, <2>2, <2>4 DEF RequestInv, TokenInv
  <2>5. CASE s.pc = "rejected"
    <3>1. tokenPaid[q] = s.token + s.streamed /\ s.token = 0 /\ s.streamed = 0 /\ ~s.settled
      BY <2>1, <2>2, <2>5 DEF RequestInv, TokenInv, HoldInv, Estimate, FlagInv, Before
    <3> QED
      BY <2>5, <3>1 DEF Due
  <2>6. CASE s.pc = "unsettled"
    <3>1. tokenPaid[q] = s.token + s.streamed /\ s.token = s.pre /\ ~s.settled
      BY <2>1, <2>2, <2>6 DEF RequestInv, TokenInv, HoldInv, Estimate, FlagInv, Before
    <3> QED
      BY <2>3, <2>6, <3>1 DEF Due
  <2> QED
    BY <2>1, <2>4, <2>5, <2>6 DEF Final
<1> QED
  BY <1>1, Invariance, PTL

\* Whatever statement fails, and wherever the process dies, neither the wallet
\* nor the token has given back more than it took.
THEOREM NobodyCredited == Spec => []NeverCredited
<1>1. ASSUME IInv
      PROVE  NeverCredited
  BY <1>1 DEF IInv, RequestInv, FundInv, TokenInv, NeverCredited
<1> QED
  BY <1>1, Invariance, PTL

\* Whatever statement fails, wallet and subscription together never pay more for
\* a request than the largest of its own estimate, its own reservation and its
\* own actual quota, plus the streamed usage that was charged as it came.
THEOREM NobodyOvercharged == Spec => []NeverOvercharged
<1>1. ASSUME IInv
      PROVE  NeverOvercharged
  BY <1>1 DEF IInv, RequestInv, CapInv, NeverOvercharged
<1> QED
  BY <1>1, Invariance, PTL

\* amount_used stays within amount_total although its row is read and written
\* back without a lock: every write is checked against the value it is computed
\* from.
THEOREM WithinSubscription == Spec => []SubWithinTotal
<1>1. IInv => SubWithinTotal
  BY DEF IInv
<1> QED
  BY <1>1, Invariance, PTL

=============================================================================
