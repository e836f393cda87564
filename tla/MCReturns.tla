------------------------------ MODULE MCReturns ------------------------------
(***************************************************************************)
(* Instances of Returns for TLC.                                           *)
(***************************************************************************)
EXTENDS Returns, TLC

NoFaults == {}
Crashes == {"crash"}

Identities == Permutations(Workers) \cup Permutations(Returns)
=============================================================================
