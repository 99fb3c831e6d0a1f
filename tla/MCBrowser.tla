------------------------------- MODULE MCBrowser -------------------------------
(***************************************************************************)
(* Browser with two tabs and two customers, one of them with MFA.          *)
(***************************************************************************)
EXTENDS Browser, TLC

Symmetric == Permutations(Tabs)
=============================================================================
