------------------------------ MODULE MCListings ------------------------------
(***************************************************************************)
(* The two ways to list transactions.  They share no state: a behaviour    *)
(* follows one of them and leaves the other at its start.                  *)
(***************************************************************************)
EXTENDS Statements, HistoryPage, TLC

Symmetric == Permutations(Rows)

Init == StatementsInit /\ HistoryPageInit

Next == \/ filter = First /\ timer = First /\ asked = <<>> /\ list = NoFilter /\ ~behind
           /\ StatementsNext /\ UNCHANGED hpvars
        \/ Begun = {} /\ HistoryPageNext /\ UNCHANGED stvars

Spec == Init /\ [][Next]_<<stvars, hpvars>>
=============================================================================
