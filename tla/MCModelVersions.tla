-------------------------- MODULE MCModelVersions --------------------------
(* Small instances of ModelVersions. *)
EXTENDS ModelVersions, TLC

Symmetry == Permutations(Run) \cup Permutations(Admin)
=============================================================================
