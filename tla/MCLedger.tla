------------------------------ MODULE MCLedger ------------------------------
(***************************************************************************)
(* Instances of Ledger for TLC: two accounts of one customer (a third      *)
(* party owns a2), two or three handlers and a few requests chosen so that *)
(* they collide: the same request id, the same account, opposite           *)
(* directions.                                                             *)
(***************************************************************************)
EXTENDS Ledger, TLC

CONSTANTS a1, a2, u1, u2, h1, h2, h3, r1, r2, external, nowhere, none

MCAccounts   == {a1, a2}
MCUsers      == {u1, u2}
MCOwner      == a1 :> u1 @@ a2 :> u2
MCRequestIds == {r1, r2}
MCBalance    == a1 :> 3 @@ a2 :> 1

Transfer(u, r, a, b, n) == [kind |-> "TRANSFER", user |-> u, rid |-> r, from |-> a,
                      byNumber |-> FALSE, to |-> b, amt |-> n, mfa |-> TRUE]
BillPay(u, r, a, n) == [Transfer(u, r, a, external, n) EXCEPT !.kind = "BILL_PAY"]
Deposit(r, a, n)    == [Transfer(u2, r, a, a, n) EXCEPT !.kind = "DEPOSIT"]
ByNumber(i)         == [i EXCEPT !.byNumber = TRUE]
NoMfa(i)            == [i EXCEPT !.mfa = FALSE]

\* Every kind of request and of refusal, for two handlers.
WideInputs ==
  {Transfer(u1, r1, a1, a2, 2), Transfer(u2, r2, a2, a1, 1),
   Transfer(u1, r1, a1, a1, 1),
   Transfer(u1, r1, a1, nowhere, 1), Transfer(u1, r2, a2, a1, 1),
   Transfer(u1, r1, a1, external, 4), Transfer(u1, r2, a1, a2, 5),
   ByNumber(Transfer(u1, r2, a1, a2, 2)), NoMfa(Transfer(u1, r1, a1, a2, 3)),
   BillPay(u1, r1, a1, 3), Deposit(r2, a1, 2)}

\* Collisions of three handlers: a retry, an opposite transfer, a bill.
RaceInputs ==
  {Transfer(u1, r1, a1, a2, 2), Transfer(u2, r2, a2, a1, 1),
   BillPay(u1, r2, a1, 2)}

\* Two payments that are covered one by one and not together.
TwoBills == {BillPay(u1, r1, a1, 2), BillPay(u1, r2, a1, 2)}

TwoHandlers   == {h1, h2}
ThreeHandlers == {h1, h2, h3}

HandlerSymmetry == Permutations(Handlers)
=============================================================================
