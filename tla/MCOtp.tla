------------------------------- MODULE MCOtp -------------------------------
(***************************************************************************)
(* Instances of Otp for TLC.                                               *)
(***************************************************************************)
EXTENDS Otp, TLC

(* Requests are interchangeable (not used where liveness is checked).      *)
RequestSymmetry == Permutations(Requests)
=============================================================================
