------------------------------ MODULE MCLoans ------------------------------
(***************************************************************************)
(* Instances of Loans for TLC: one customer's loan and two accounts, three *)
(* repayments that race, one of them a retry.                              *)
(***************************************************************************)
EXTENDS Loans, TLC

CONSTANTS a1, a2, u1, u2, h1, h2, h3, r1, r2, r3, l1, l2

MCAccounts   == {a1, a2}
MCUsers      == {u1, u2}
MCOwner      == a1 :> u1 @@ a2 :> u1
MCLoans      == {l1, l2}
MCLoanAccount == l1 :> a1 @@ l2 :> a1
MCPrincipal  == l1 :> 8 @@ l2 :> 1
MCBalance    == a1 :> 0 @@ a2 :> 4

Repay(u, r, a, n) == [user |-> u, rid |-> r, loan |-> l1, from |-> a, amt |-> n]

\* Whole cents and halves, two accounts, a retry under one request id and a
\* repayment of another customer's loan.
RaceInputs == {Repay(u1, r1, a1, 3), Repay(u1, r2, a1, 7), Repay(u1, r3, a2, 4),
               Repay(u2, r1, a1, 2)}

HandlerSymmetry == Permutations(Handlers)
=============================================================================
