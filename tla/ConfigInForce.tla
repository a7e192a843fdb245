--------------------------- MODULE ConfigInForce ---------------------------
(***************************************************************************)
(* What versioning promises of the scoring configuration: a register whose *)
(* accepted writes happen one after the other.  Each takes the next        *)
(* number, is kept for good and is in force until the next one; a refused  *)
(* write leaves no trace.                                                  *)
(***************************************************************************)
EXTENDS Naturals

VARIABLES
    stored,    \* the versions accepted
    inForce    \* the one a process that starts now loads

vars == <<stored, inForce>>

Init == stored = {1} /\ inForce = 1

Accept ==
    /\ inForce' = inForce + 1
    /\ stored' = stored \cup {inForce + 1}

Spec == Init /\ [][Accept]_vars
=============================================================================
