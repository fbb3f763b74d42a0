-------------------------------- MODULE Ledger --------------------------------
(***************************************************************************)
(* What an order promises, whoever completes it and however often: it is  *)
(* decided once, credited at most once, and never credited after it was    *)
(* refused.  PaymentOrder implements it.                                   *)
(***************************************************************************)
EXTENDS Naturals

VARIABLES
    claim,     \* the decision on the order
    balance    \* how often it was credited

lvars == <<claim, balance>>

Init == claim = "none" /\ balance = 0

Place == claim = "none" /\ claim' = "open" /\ UNCHANGED balance

\* Decided and credited in one transaction.
Settle == claim = "open" /\ claim' = "settled" /\ balance' = balance + 1

\* Decided first and credited by a statement of its own, which may be lost.
Accept == claim = "open" /\ claim' = "accepted" /\ UNCHANGED balance
Credit == claim = "accepted" /\ claim' = "settled" /\ balance' = balance + 1
Lose == claim = "accepted" /\ claim' = "lost" /\ UNCHANGED balance

Refuse == claim = "open" /\ claim' = "refused" /\ UNCHANGED balance

Next == Place \/ Settle \/ Accept \/ Credit \/ Lose \/ Refuse

\* An accepted order does not stay between its two statements.
Spec == Init /\ [][Next]_lvars /\ WF_lvars(Credit \/ Lose)

=============================================================================
