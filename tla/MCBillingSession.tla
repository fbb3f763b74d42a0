-------------------------- MODULE MCBillingSession --------------------------
(* Small instances of BillingSession for TLC. *)
EXTENDS BillingSession

\* Billing preferences, as the sources they try.
WalletOnly == {<<"wallet">>}
SubscriptionOnly == {<<"sub">>}
BothWays == {<<"sub", "wallet">>, <<"wallet", "sub">>}
=============================================================================
