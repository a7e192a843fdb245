--------------------------- MODULE ConfigVersions ---------------------------
(***************************************************************************)
(* The versioned scoring configuration: racing PUT /v1/admin/config.       *)
(*                                                                         *)
(* A PUT is one PostgreSQL transaction of three statements under READ      *)
(* COMMITTED: deactivate every active row, read MAX(version) + 1, insert   *)
(* that version as active.  Each statement sees the rows committed when it *)
(* starts.  An UPDATE waits for a row another transaction has updated and, *)
(* once that one ends, looks at the row again; rows committed since its    *)
(* own start it does not see.  Requests run in threads, so transactions    *)
(* interleave at each statement and at each row.                           *)
(***************************************************************************)
EXTENDS Integers

CONSTANTS
    Admin,        \* threads serving an administrator's request
    MaxVersion    \* bound: the largest version number a PUT may take

ASSUME MaxVersionAssumption == MaxVersion \in Nat \ {0}

PC == {"idle", "deactivate", "insert", "commit"}

VARIABLES
    versions,  \* rows committed in rule_configs, by version
    active,    \* those of them with active = true
    pc,
    todo,      \* rows the UPDATE has found and not reached yet
    off,       \* rows the transaction has updated, and so locked
    new        \* the version it is going to insert

vars == <<versions, active, pc, todo, off, new>>

TypeOK ==
    /\ versions \subseteq Nat \ {0}
    /\ active \subseteq versions
    /\ pc \in [Admin -> PC]
    /\ todo \in [Admin -> SUBSET versions]
    /\ off \in [Admin -> SUBSET versions]
    /\ new \in [Admin -> Nat]

Newest(S) == CHOOSE v \in S : \A u \in S : u <= v

\* get_active: WHERE active ORDER BY version DESC LIMIT 1; 0 for no row.
Effective == IF active = {} THEN 0 ELSE Newest(active)

\* Migration 0002_seed.sql inserted version 1, active.
Init ==
    /\ versions = {1}
    /\ active = {1}
    /\ pc = [a \in Admin |-> "idle"]
    /\ todo = [a \in Admin |-> {}]
    /\ off = [a \in Admin |-> {}]
    /\ new = [a \in Admin |-> 0]

-----------------------------------------------------------------------------
(* Slips: mistakes an operator below could have. *)

\* Taken, the UNIQUE constraint on version missing.
TakenNever(v) == FALSE

\* Outcome, the deactivation committed without the insert.
OutcomeWithoutInsert(a) == active \ off[a]

-----------------------------------------------------------------------------
(* PUT /v1/admin/config. *)

\* Rolled back, or done: the transaction holds nothing any more.
Release(a) ==
    /\ pc' = [pc EXCEPT ![a] = "idle"]
    /\ todo' = [todo EXCEPT ![a] = {}]
    /\ off' = [off EXCEPT ![a] = {}]
    /\ new' = [new EXCEPT ![a] = 0]

\* UPDATE rule_configs SET active = false WHERE active: its snapshot.
Begin(a) ==
    /\ pc[a] = "idle"
    /\ pc' = [pc EXCEPT ![a] = "deactivate"]
    /\ todo' = [todo EXCEPT ![a] = active]
    /\ UNCHANGED <<versions, active, off, new>>

Locked(v, a) == \E o \in Admin \ {a} : v \in off[o]

\* ... and its rows one by one: a row is passed over when it is not active
\* any more.
Deactivate(a, v) ==
    /\ pc[a] = "deactivate"
    /\ v \in todo[a]
    /\ ~Locked(v, a)
    /\ todo' = [todo EXCEPT ![a] = @ \ {v}]
    /\ off' = [off EXCEPT ![a] = IF v \in active THEN @ \cup {v} ELSE @]
    /\ UNCHANGED <<versions, active, pc, new>>

\* SELECT COALESCE(MAX(version), 0) + 1.
NextVersion == Newest(versions) + 1

Number(a) ==
    /\ pc[a] = "deactivate"
    /\ todo[a] = {}
    /\ NextVersion <= MaxVersion
    /\ new' = [new EXCEPT ![a] = NextVersion]
    /\ pc' = [pc EXCEPT ![a] = "insert"]
    /\ UNCHANGED <<versions, active, todo, off>>

\* version is UNIQUE.
Taken(v) == v \in versions

\* The INSERT waits while another transaction has the same version inserted
\* and not committed.
Insert(a) ==
    /\ pc[a] = "insert"
    /\ ~Taken(new[a])
    /\ \A o \in Admin : pc[o] = "commit" => new[o] # new[a]
    /\ pc' = [pc EXCEPT ![a] = "commit"]
    /\ UNCHANGED <<versions, active, todo, off, new>>

\* UniqueViolation: the request fails.
InsertRefused(a) ==
    /\ pc[a] = "insert"
    /\ Taken(new[a])
    /\ Release(a)
    /\ UNCHANGED <<versions, active>>

\* The active rows the transaction leaves.
Outcome(a) == (active \ off[a]) \cup {new[a]}

Commit(a) ==
    /\ pc[a] = "commit"
    /\ versions' = versions \cup {new[a]}
    /\ active' = Outcome(a)
    /\ Release(a)

\* The connection breaks, or PostgreSQL picks a victim among transactions
\* that wait for each other's rows.
Rollback(a) ==
    /\ pc[a] # "idle"
    /\ Release(a)
    /\ UNCHANGED <<versions, active>>

Put(a) ==
    \/ Begin(a)
    \/ \E v \in todo[a] : Deactivate(a, v)
    \/ Number(a)
    \/ Insert(a)
    \/ InsertRefused(a)
    \/ Commit(a)
    \/ Rollback(a)

Next == \E a \in Admin : Put(a)

Spec == Init /\ [][Next]_vars

-----------------------------------------------------------------------------
(* Properties. *)

\* Although racing PUTs may leave several rows active, get_active returns
\* the newest version stored: the last PUT accepted is what the next start of
\* the API and the next retraining run load.
NewestInForce == Effective = Newest(versions)

\* Versions are numbered without gaps, whatever PUTs are rolled back.
NoGaps == versions = 1 .. Newest(versions)

\* However the statements of racing PUTs interleave, they are as good as PUTs
\* made one after the other: the version in force moves only from one accepted
\* PUT to the next, in one step with the table (AC-ADMIN-01, "atomic":
\* rule_configs_repo.py:43-45).
Register ==
    INSTANCE ConfigInForce WITH stored <- versions, inForce <- Effective

PutsInTurn == Register!Spec

\* Only a new version becomes active: racing PUTs that read the same
\* MAX(version) do not overwrite each other, and none revives an old version.
NeverReactivated == [][active' \cap versions \subseteq active]_vars

-----------------------------------------------------------------------------
(* The inductive invariant behind them. *)

\* A row a transaction has updated is active and locked by it alone.
LocksHeld ==
    \A a \in Admin :
        /\ off[a] \subseteq active
        /\ \A o \in Admin \ {a} : off[o] \cap off[a] = {}

\* A number read is at most one ahead of the table, and one being committed
\* is exactly that, by one transaction.
Numbered ==
    /\ \A a \in Admin : pc[a] = "insert" => new[a] \in 1 .. Newest(versions) + 1
    /\ \A a \in Admin : pc[a] = "commit" => new[a] = Newest(versions) + 1
    /\ \A a, o \in Admin : pc[a] = "commit" /\ pc[o] = "commit" => a = o

IndInv == TypeOK /\ NoGaps /\ Newest(versions) \in active /\ LocksHeld /\ Numbered
=============================================================================
