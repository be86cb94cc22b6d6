--------------------------- MODULE MCCodeMapRegen ---------------------------
(* Instances of CodeMapRegen for TLC; see the cfg files. *)
EXTENDS CodeMapRegen, TLC

\* Scopes, jobs and command line processes are interchangeable.
Symmetry == Permutations(Scopes) \cup Permutations(Jobs) \cup Permutations(Pulls)
=============================================================================
