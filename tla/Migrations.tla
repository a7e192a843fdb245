----------------------------- MODULE Migrations -----------------------------
(***************************************************************************)
(* `python -m aegis.db.migrate`, run by hand and perhaps twice at once:    *)
(* the files of PostgreSQL, each a transaction with its record, then those *)
(* of ClickHouse, statement by statement with the record at the end.       *)
(* Statements say IF NOT EXISTS or ON CONFLICT DO NOTHING: applying one    *)
(* again changes nothing.                                                  *)
(***************************************************************************)
EXTENDS Integers, FiniteSets

CONSTANTS
    OltpFiles,   \* the number of files of PostgreSQL
    Statements,  \* the files of ClickHouse: the number of statements of each
    Migrator

ASSUME FilesAssumption ==
    /\ OltpFiles \in Nat
    /\ DOMAIN Statements \subseteq Nat \ {0}
    /\ Statements \in [DOMAIN Statements -> Nat]

VARIABLES
    oltp,        \* files whose transaction committed, and which are recorded
    olap,        \* <<file, statement>> applied to ClickHouse
    recorded,    \* the files ClickHouse's schema_migrations has
    run          \* what a migrator is at

mvars == <<oltp, olap, recorded, run>>

OlapFiles == DOMAIN Statements
NoRun == [pc |-> "idle", done |-> {}, file |-> 0, next |-> 0]

MigrationsInit ==
    /\ oltp = {}
    /\ olap = {}
    /\ recorded = {}
    /\ run = [m \in Migrator |-> NoRun]

\* The first of the files not in done, 0 when there is none.
FirstOf(files, done) ==
    LET rest == files \ done
    IN  IF rest = {} THEN 0 ELSE CHOOSE f \in rest : \A g \in rest : f =< g

\* migrate_oltp begins: done is read once.
Start(m) ==
    /\ run[m].pc \in {"idle", "done"}
    /\ run' = [run EXCEPT ![m] =
          [pc |-> "oltp", done |-> oltp, file |-> FirstOf(1..OltpFiles, oltp), next |-> 0]]
    /\ UNCHANGED <<oltp, olap, recorded>>

\* A file and its record are one transaction.  The record of a file another
\* migrator has applied meanwhile violates the primary key: main() ends with it.
ApplyOltp(m) ==
    /\ run[m].pc = "oltp" /\ run[m].file # 0
    /\ IF run[m].file \in oltp
       THEN run' = [run EXCEPT ![m] = NoRun] /\ UNCHANGED oltp
       ELSE LET done == run[m].done \cup {run[m].file}
            IN  /\ oltp' = oltp \cup {run[m].file}
                /\ run' = [run EXCEPT ![m].done = done, ![m].file = FirstOf(1..OltpFiles, done)]
    /\ UNCHANGED <<olap, recorded>>

-----------------------------------------------------------------------------
(* Slips. *)
\* RecordDue, the record of a file written before its last statement.
RecordDueEarly(r) == r.next = Statements[r.file]
-----------------------------------------------------------------------------

\* All statements of a file are through.
RecordDue(r) == r.next > Statements[r.file]

AtFile(r, done) ==
    LET file == FirstOf(OlapFiles, done)
    IN  [r EXCEPT !.pc = IF file = 0 THEN "done" ELSE "olap", !.done = done, !.file = file, !.next = 1]

\* migrate_olap begins.
StartOlap(m) ==
    /\ run[m].pc = "oltp" /\ run[m].file = 0
    /\ run' = [run EXCEPT ![m] = AtFile(@, recorded)]
    /\ UNCHANGED <<oltp, olap, recorded>>

ApplyOlap(m) ==
    /\ run[m].pc = "olap" /\ ~RecordDue(run[m])
    /\ olap' = olap \cup {<<run[m].file, run[m].next>>}
    /\ run' = [run EXCEPT ![m].next = @ + 1]
    /\ UNCHANGED <<oltp, recorded>>

RecordOlap(m) ==
    /\ run[m].pc = "olap" /\ RecordDue(run[m])
    /\ recorded' = recorded \cup {run[m].file}
    /\ run' = [run EXCEPT ![m] = AtFile(@, @.done \cup {@.file})]
    /\ UNCHANGED <<oltp, olap>>

\* A statement fails, or the migrator is killed.
Abort(m) ==
    /\ run[m].pc \in {"oltp", "olap"}
    /\ run' = [run EXCEPT ![m] = NoRun]
    /\ UNCHANGED <<oltp, olap, recorded>>

MigrationsNext ==
    \E m \in Migrator :
        Start(m) \/ ApplyOltp(m) \/ StartOlap(m) \/ ApplyOlap(m) \/ RecordOlap(m) \/ Abort(m)

MigrationsSpec == MigrationsInit /\ [][MigrationsNext]_mvars
-----------------------------------------------------------------------------
(* Properties. *)

Applied(file) == \A i \in 1..Statements[file] : <<file, i>> \in olap

\* Whatever was interrupted before and runs beside it: a file is recorded in
\* ClickHouse only when all of it is applied, a statement is applied only after
\* every file before its own, and a migrator that ends well leaves nothing to
\* apply (migrate.py:45-52, 71-77).
MigrationsComplete ==
    /\ \A file \in recorded : Applied(file)
    /\ \A s \in olap : \A file \in OlapFiles : file < s[1] => Applied(file)
    /\ \A m \in Migrator : run[m].pc = "done" =>
          oltp = 1..OltpFiles /\ recorded = OlapFiles
=============================================================================
