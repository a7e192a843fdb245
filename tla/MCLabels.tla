------------------------------ MODULE MCLabels ------------------------------
(* Two transactions of two services.  The mirror's rows and a retraining's *)
(* labels share decisions and callbacks and nothing else, so that in one   *)
(* behaviour either the mirror is written or the administrators are at     *)
(* work.                                                                   *)
EXTENDS Labels

CONSTANTS t1, t2, s1, s2

VARIABLE part

MCSays ==
  {<<t1, "subscription", "success", "">>, <<t1, "subscription", "failed", "daily_limit_reached">>,
   <<t1, "complaint", "", "">>, <<t2, "subscription", "failed", "">>}

MCReports == {<<t1, "robot">>, <<t1, "human">>}

MCServiceOf == [t \in Trx |-> IF t = t1 THEN s1 ELSE s2]

Nothing == [n \in Factor \cup {"auto_webdriver", "auto_headless", "auto_globals_count",
                               "auto_istrusted_false", "auto_software_render"} |-> 0]

(* A visit the stricter configuration would block, and an automated one.   *)
Risky == [Nothing EXCEPT !["ip_is_datacenter"] = 10]
Automated == [Nothing EXCEPT !["auto_webdriver"] = 1]

MCObservation == {Risky, Automated}

MCConfig == {[threshold |-> 50, params |-> NULL], [threshold |-> 20, params |-> NULL]}

MCInit ==
    /\ Init
    /\ \/ part = "mirror" /\ maturation = 0 /\ config.threshold = 50
       \/ part = "labels"

(* Features do not appear in figures, nor is the second transaction's      *)
(* label of interest beside the first's.                                   *)
MirrorNext ==
    \/ Decisions(t1, Risky)
    \/ Decide(t2, "allow", "failed", Risky)
    \/ \E k \in Says : unsent = {} /\ Callback(k[1], k[2], k[3], k[4])
    \/ Mirroring

LabelsNext ==
    \/ \E f \in Observation : Decisions(t1, f)
    \/ \E k \in Says : k[1] = t1 /\ Callback(k[1], k[2], k[3], k[4])
    \/ Administration

MCNext ==
    /\ \/ Tick
       \/ part = "mirror" /\ MirrorNext
       \/ part = "labels" /\ LabelsNext
    /\ UNCHANGED part

MCSpec == MCInit /\ [][MCNext]_<<vars, part>>
=============================================================================
