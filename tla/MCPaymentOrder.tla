---------------------------- MODULE MCPaymentOrder ----------------------------
(***************************************************************************)
(* Instance of PaymentOrder for TLC: one node, three handlers (two of the  *)
(* provider and the administrator, say) and two faults, for an order of    *)
(* every provider and kind.                                                *)
(***************************************************************************)
EXTENDS PaymentOrder

=============================================================================
