----------------------------- MODULE MCScoring -----------------------------
(***************************************************************************)
(* Small instances of Scoring.  s1 runs every campaign but c2, so that a   *)
(* transaction can be submitted under two services.                        *)
(***************************************************************************)
EXTENDS Scoring, TLC

CONSTANTS s1, s2, c2

MCServiceOf == [c \in Campaign |-> IF c = c2 THEN s2 ELSE s1]

Symmetry == Permutations(Nonce) \cup Permutations(Worker)
SymmetryWithTrx == Symmetry \cup Permutations(Trx)
=============================================================================
