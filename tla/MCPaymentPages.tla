--------------------------- MODULE MCPaymentPages ---------------------------
(***************************************************************************)
(* PaymentPages with two or three calls.                                   *)
(***************************************************************************)
EXTENDS PaymentPages, TLC

Symmetric == Permutations(Calls) \cup Permutations(Ids)
=============================================================================
