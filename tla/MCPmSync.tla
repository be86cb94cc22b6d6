------------------------------ MODULE MCPmSync ------------------------------
(* Instances of PmSync for TLC; see the cfg files. *)
EXTENDS PmSync

\* Two runs of either kind are interchangeable.
Symmetry == Permutations(Workers)
=============================================================================
