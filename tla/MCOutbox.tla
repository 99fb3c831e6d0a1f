------------------------------ MODULE MCOutbox ------------------------------
(***************************************************************************)
(* An instance of Outbox for TLC: two overlapping runs and two events, the *)
(* first of which always fails.                                            *)
(***************************************************************************)
EXTENDS Outbox

CONSTANTS w1, w2
=============================================================================
