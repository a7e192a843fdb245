-------------------------- MODULE MCConfigVersions --------------------------
(* Small instances of ConfigVersions. *)
EXTENDS ConfigVersions, TLC

Symmetry == Permutations(Admin)
=============================================================================
