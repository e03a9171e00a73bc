-------------------------- MODULE MCCategoryCache --------------------------
(***************************************************************************)
(* Instances of CategoryCache for TLC.                                     *)
(***************************************************************************)
EXTENDS CategoryCache, TLC

(* Requests are interchangeable, and so are names and slugs.               *)
Symmetries == Permutations(Requests) \cup Permutations(Names) \cup Permutations(Slugs)
=============================================================================
