------------------------------ MODULE MCAround ------------------------------
(***************************************************************************)
(* Small instances of what surrounds the scoring of a submission: the      *)
(* migrations before it, the accounts of the dashboard, the campaigns and  *)
(* the copy of their origins, the devices and theirs, and the live feed.   *)
(* They share no state, so that interleaving them would show nothing: a    *)
(* behaviour runs one of them.                                             *)
(***************************************************************************)
EXTENDS Campaigns, Devices, Feed, Migrations, Accounts, TLC

CONSTANTS o1, o2, r3, sA, sB

VARIABLE part

MCStatements == <<2, 1>>

MCCode == {"id ", "  ", "zz"}
MCIsoOf == [code \in MCCode |-> CASE code = "id " -> "ID" [] code = "zz" -> UNKNOWN [] OTHER -> BLANK]
MCScopeOf == [t \in Trx |-> IF t = r3 THEN sB ELSE sA]

\* Requests as a dashboard sends them; one column each but for the first.
Nothing == [origins |-> NULL, home |-> NULL, status |-> NULL]
MCRequest ==
    {[Nothing EXCEPT !.origins = origins, !.home = home] :
        origins \in {NULL, {}, {o1}, {o1, o2}}, home \in {NULL, EMPTY}}
    \cup {[Nothing EXCEPT !.home = home] : home \in {"id ", "  ", "zz"}}
    \cup {[Nothing EXCEPT !.status = status] : status \in {"active", "inactive"}}

(* the .cfg gives Admin, Thread, Migrator and Browser the same two values  *)
Symmetry == Permutations(Admin) \cup Permutations(Device)

MCInit ==
    /\ Init /\ DevicesInit /\ FeedInit /\ MigrationsInit /\ AccountsInit
    /\ part \in {"campaigns", "devices", "feed", "migrations", "accounts"}

MCNext ==
    \/ part = "campaigns" /\ Next /\ UNCHANGED <<dvars, fvars, mvars, avars, part>>
    \/ part = "devices" /\ DevicesNext /\ UNCHANGED <<vars, fvars, mvars, avars, part>>
    \/ part = "feed" /\ FeedNext /\ UNCHANGED <<vars, dvars, mvars, avars, part>>
    \/ part = "migrations" /\ MigrationsNext /\ UNCHANGED <<vars, dvars, fvars, avars, part>>
    \/ part = "accounts" /\ AccountsNext /\ UNCHANGED <<vars, dvars, fvars, mvars, part>>

MCSpec == MCInit /\ [][MCNext]_<<vars, dvars, fvars, mvars, avars, part>>
=============================================================================
