----------------------------- MODULE MCSessions -----------------------------
(* Instances of Sessions for TLC; the values of the constants are in the   *)
(* cfg files.                                                              *)
EXTENDS Sessions, TLC

RequestSymmetry == Permutations(Requests)
=============================================================================
