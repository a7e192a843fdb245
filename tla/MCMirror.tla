------------------------------ MODULE MCMirror ------------------------------
(***************************************************************************)
(* Small instances of Mirror.  Callbacks and reports share ClickHouse and  *)
(* the backfill but no row, so that interleaving them would show nothing:  *)
(* in a behaviour one of the two happens, beside what the other has left.  *)
(***************************************************************************)
EXTENDS Mirror, TLC

VARIABLE part

Symmetry == Permutations(Content) \cup Permutations(Admin)

MCInit ==
    /\ Init
    /\ \/ part = "callbacks"
       \/ part = "reports" /\ \A k \in Callback : outcomes[k] = NoRow

MCNext ==
    \/ part = "callbacks" /\ Callbacks /\ UNCHANGED part
    \/ part = "reports" /\ Reviews /\ UNCHANGED part
    \/ Restart /\ UNCHANGED part
    \/ Olap /\ UNCHANGED part
    \/ Backfill /\ UNCHANGED part

MCSpec == MCInit /\ [][MCNext]_<<vars, part>>
=============================================================================
