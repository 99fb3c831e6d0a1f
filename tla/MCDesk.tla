------------------------------- MODULE MCDesk -------------------------------
(***************************************************************************)
(* Desk with two customers and a few clicks.                               *)
(***************************************************************************)
EXTENDS Desk, TLC

Symmetric == Permutations(Jobs) \cup Permutations(Customers)
=============================================================================
