----------------------------- MODULE MCSessions -----------------------------
(***************************************************************************)
(* An instance of Sessions for TLC: one browser and three requests of      *)
(* every kind.                                                             *)
(***************************************************************************)
EXTENDS Sessions, TLC

HandlerSymmetry == Permutations(Handlers)
=============================================================================
