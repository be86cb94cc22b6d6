--------------------------- MODULE MCRunPipeline ---------------------------
(* Instances of RunPipeline for TLC; see the cfg files. *)
EXTENDS RunPipeline, TLC

\* The runs and the job slots are interchangeable in the safety runs.
Symmetry == Permutations(Runs) \cup Permutations(Workers) \cup Permutations(Requests)
============================================================================
