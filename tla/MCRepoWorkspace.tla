-------------------------- MODULE MCRepoWorkspace --------------------------
(* Instances of RepoWorkspace for TLC; see the cfg files. *)
EXTENDS RepoWorkspace, TLC

\* Requests are interchangeable, and so are ids: no fairness names them.
Symmetry == Permutations(Requests) \cup Permutations(Repos)

\* Bound: what lies on the disk is followed for the first id of the name only.
FirstIsCloned ==
  (\A r \in Repos : row[r] # "unborn") => \A p \in Places, r \in Repos : disk[p][r] = "absent"
============================================================================
