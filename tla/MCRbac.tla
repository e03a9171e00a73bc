------------------------------- MODULE MCRbac -------------------------------
(***************************************************************************)
(* An instance of Rbac for TLC.                                            *)
(***************************************************************************)
EXTENDS Rbac, TLC

(* Requests are interchangeable, and so are users.                         *)
Symmetries == Permutations(Requests) \cup Permutations(Users)
=============================================================================
