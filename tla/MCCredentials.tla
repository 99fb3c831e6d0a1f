--------------------------- MODULE MCCredentials ---------------------------
(***************************************************************************)
(* An instance of Credentials for TLC: three requests of every kind.       *)
(***************************************************************************)
EXTENDS Credentials, TLC

HandlerSymmetry == Permutations(Handlers)
=============================================================================
