--------------------------- MODULE ModelVersions ---------------------------
(***************************************************************************)
(* Models: retraining registers them, an administrator activates one.      *)
(*                                                                         *)
(* A retraining run is a process of its own (python -m aegis.jobs.retrain) *)
(* that reads the next version number, saves its artefacts under           *)
(* MODEL_DIR/v<version> and only then inserts the row; several runs, and   *)
(* several runs of one job, may overlap.  joblib.dump writes a file in     *)
(* place: opening it truncates what was there, and a run that ends before  *)
(* the dump does leaves part of a file.  An activation is one PostgreSQL   *)
(* transaction under READ COMMITTED: deactivate every active row it sees,  *)
(* waiting for rows another transaction has updated, then activate one.    *)
(***************************************************************************)
EXTENDS Integers

CONSTANTS
    Run,      \* executions of the retraining program
    Job,      \* rows of retrain_jobs
    Admin,    \* threads serving an activation
    NoRun, NoJob

ASSUME NoRunAssumption == NoRun \notin Run
ASSUME NoJobAssumption == NoJob \notin Job

JobStatus == {"absent", "queued", "running", "done", "failed"}
RunPC ==
    {"new", "gather", "iso", "isoDump", "lgbm", "lgbmDump", "insert", "finish", "over"}
AdminPC == {"idle", "deactivate", "commit"}

\* A row: the run that trained it and whether it claims a calibrated LightGBM.
Row == [run: Run, gbm: BOOLEAN]

\* A file: the runs whose bytes it may hold, and whether it is one whole dump.
File == [by : SUBSET Run, whole : BOOLEAN]

VARIABLES
    rows,     \* model_versions, by version number
    active,   \* versions with active = true
    iso,      \* v<version>/iso.pkl on disk
    lgbm,     \* v<version>/lgbm.pkl
    jobs,     \* retrain_jobs.status
    runPC,
    runJob,   \* the --job-id of a run
    runVer,   \* the version number it read
    runGbm,   \* there were enough labels to train LightGBM
    pc, target,
    todo,     \* rows the deactivating UPDATE has found and not reached yet
    off       \* rows it has updated, and so locked

runs == <<runPC, runJob, runVer, runGbm>>
txns == <<pc, target, todo, off>>
vars == <<rows, active, iso, lgbm, jobs, runs, txns>>

Registered == DOMAIN rows

TypeOK ==
    /\ Registered \subseteq Nat \ {0}
    /\ rows \in [Registered -> Row]
    /\ active \subseteq Registered
    /\ DOMAIN iso \cup DOMAIN lgbm \subseteq Nat \ {0}
    /\ iso \in [DOMAIN iso -> File]
    /\ lgbm \in [DOMAIN lgbm -> File]
    /\ jobs \in [Job -> JobStatus]
    /\ runPC \in [Run -> RunPC]
    /\ runJob \in [Run -> Job \cup {NoJob}]
    /\ runVer \in [Run -> Nat]
    /\ runGbm \in [Run -> BOOLEAN]
    /\ pc \in [Admin -> AdminPC]
    /\ target \in [Admin -> Nat]
    /\ todo \in [Admin -> SUBSET Registered]
    /\ off \in [Admin -> SUBSET Registered]

NoneYet == [v \in {} |-> NoRun]

Init ==
    /\ rows = NoneYet
    /\ active = {}
    /\ iso = NoneYet
    /\ lgbm = NoneYet
    /\ jobs = [j \in Job |-> "absent"]
    /\ runPC = [r \in Run |-> "new"]
    /\ runJob = [r \in Run |-> NoJob]
    /\ runVer = [r \in Run |-> 0]
    /\ runGbm = [r \in Run |-> FALSE]
    /\ pc = [a \in Admin |-> "idle"]
    /\ target = [a \in Admin |-> 0]
    /\ todo = [a \in Admin |-> {}]
    /\ off = [a \in Admin |-> {}]

\* f with x at k, whether or not it had a value there.
With(f, k, x) == [y \in DOMAIN f \cup {k} |-> IF y = k THEN x ELSE f[y]]

-----------------------------------------------------------------------------
(* Slips: mistakes an operator below could have. *)

\* AfterNumber, the row inserted before the artefacts are saved.
AfterNumberInsert == "insert"

\* Taken, the UNIQUE constraint on version missing.
TakenNever(v) == FALSE

\* ActiveAfterRegister, active = true by default.
ActiveAfterRegisterAll(v) == active \cup {v}

\* JobAfterFailure, the exception reported like a success.
JobAfterFailureDone == "done"

-----------------------------------------------------------------------------
(* run_retrain. *)

\* POST /v1/admin/retrain only records the job.
TriggerRetrain(j) ==
    /\ jobs[j] = "absent"
    /\ jobs' = [jobs EXCEPT ![j] = "queued"]
    /\ UNCHANGED <<rows, active, iso, lgbm, runs, txns>>

\* The job's row is updated when the run was given a job id.
SetJob(j, status) ==
    jobs' = IF j = NoJob THEN jobs ELSE [jobs EXCEPT ![j] = status]

\* mark_running; --job-id names a recorded job, or is left out (make train).
StartRun(r, j) ==
    /\ runPC[r] = "new"
    /\ j # NoJob => jobs[j] # "absent"
    /\ runPC' = [runPC EXCEPT ![r] = "gather"]
    /\ runJob' = [runJob EXCEPT ![r] = j]
    /\ SetJob(j, "running")
    /\ UNCHANGED <<rows, active, iso, lgbm, runVer, runGbm, txns>>

\* next_version: COALESCE(MAX(version), 0) + 1, as a set of one number.
NextVersion ==
    {n \in {1} \cup {v + 1 : v \in Registered} : \A v \in Registered : v < n}

AfterNumber == "iso"

\* Labels are gathered, the models trained and the next version read.
NumberRun(r, gbm) ==
    /\ runPC[r] = "gather"
    /\ \E n \in NextVersion : runVer' = [runVer EXCEPT ![r] = n]
    /\ runGbm' = [runGbm EXCEPT ![r] = gbm]
    /\ runPC' = [runPC EXCEPT ![r] = AfterNumber]
    /\ UNCHANGED <<rows, active, iso, lgbm, jobs, runJob, txns>>

\* Runs that are at this step with the number of r.
Beside(r, step) == {o \in Run \ {r} : runPC[o] = step /\ runVer[o] = runVer[r]}

\* The file is truncated; runs that have it open go on writing to it.
Opened(r, step) == [by |-> {r} \cup Beside(r, step), whole |-> FALSE]

\* Whether the file can be whole when r closes it, having written all of its
\* dump or not: of two dumps written at once anything may remain.
Remains(file, r, step, complete) ==
    IF file[runVer[r]].by = {r} THEN {complete}
    ELSE IF Beside(r, step) # {} THEN {FALSE} ELSE BOOLEAN

Closed(file, r, whole) ==
    With(file, runVer[r], [by |-> file[runVer[r]].by, whole |-> whole])

OpenIso(r) ==
    /\ runPC[r] = "iso"
    /\ iso' = With(iso, runVer[r], Opened(r, "isoDump"))
    /\ runPC' = [runPC EXCEPT ![r] = "isoDump"]
    /\ UNCHANGED <<rows, active, lgbm, jobs, runJob, runVer, runGbm, txns>>

SaveIso(r) ==
    /\ runPC[r] = "isoDump"
    /\ \E whole \in Remains(iso, r, "isoDump", TRUE) : iso' = Closed(iso, r, whole)
    /\ runPC' = [runPC EXCEPT ![r] = IF runGbm[r] THEN "lgbm" ELSE "insert"]
    /\ UNCHANGED <<rows, active, lgbm, jobs, runJob, runVer, runGbm, txns>>

OpenLgbm(r) ==
    /\ runPC[r] = "lgbm"
    /\ lgbm' = With(lgbm, runVer[r], Opened(r, "lgbmDump"))
    /\ runPC' = [runPC EXCEPT ![r] = "lgbmDump"]
    /\ UNCHANGED <<rows, active, iso, jobs, runJob, runVer, runGbm, txns>>

SaveLgbm(r) ==
    /\ runPC[r] = "lgbmDump"
    /\ \E whole \in Remains(lgbm, r, "lgbmDump", TRUE) : lgbm' = Closed(lgbm, r, whole)
    /\ runPC' = [runPC EXCEPT ![r] = "insert"]
    /\ UNCHANGED <<rows, active, iso, jobs, runJob, runVer, runGbm, txns>>

\* version is UNIQUE.
Taken(v) == v \in Registered

\* The row is inserted with active = false.
ActiveAfterRegister(v) == active

Register(r) ==
    /\ runPC[r] = "insert"
    /\ ~Taken(runVer[r])
    /\ rows' = With(rows, runVer[r], [run |-> r, gbm |-> runGbm[r]])
    /\ active' = ActiveAfterRegister(runVer[r])
    /\ runPC' = [runPC EXCEPT ![r] = "finish"]
    /\ UNCHANGED <<iso, lgbm, jobs, runJob, runVer, runGbm, txns>>

MarkDone(r) ==
    /\ runPC[r] = "finish"
    /\ SetJob(runJob[r], "done")
    /\ runPC' = [runPC EXCEPT ![r] = "over"]
    /\ UNCHANGED <<rows, active, iso, lgbm, runJob, runVer, runGbm, txns>>

\* A run that ends while it writes a file leaves the file as it is.
Abandon(r) ==
    /\ iso' \in IF runPC[r] # "isoDump" THEN {iso}
                ELSE {Closed(iso, r, whole) : whole \in Remains(iso, r, "isoDump", FALSE)}
    /\ lgbm' \in IF runPC[r] # "lgbmDump" THEN {lgbm}
                 ELSE {Closed(lgbm, r, whole) : whole \in Remains(lgbm, r, "lgbmDump", FALSE)}
    /\ runPC' = [runPC EXCEPT ![r] = "over"]

JobAfterFailure == "failed"

\* No labelled data, or an exception at any point (a full disk, UniqueViolation
\* for a version another run took): mark_failed.
RunFails(r) ==
    /\ runPC[r] \notin {"new", "over"}
    /\ SetJob(runJob[r], JobAfterFailure)
    /\ Abandon(r)
    /\ UNCHANGED <<rows, active, runJob, runVer, runGbm, txns>>

\* The process is killed, or mark_failed raises too.
RunDies(r) ==
    /\ runPC[r] \notin {"new", "over"}
    /\ Abandon(r)
    /\ UNCHANGED <<rows, active, jobs, runJob, runVer, runGbm, txns>>

-----------------------------------------------------------------------------
(* POST /v1/admin/models/{id}/activate. *)

Release(a) ==
    /\ pc' = [pc EXCEPT ![a] = "idle"]
    /\ target' = [target EXCEPT ![a] = 0]
    /\ todo' = [todo EXCEPT ![a] = {}]
    /\ off' = [off EXCEPT ![a] = {}]

\* The version exists; UPDATE ... SET active = false WHERE active starts from
\* the rows committed now.
BeginActivate(a, v) ==
    /\ pc[a] = "idle"
    /\ v \in Registered
    /\ pc' = [pc EXCEPT ![a] = "deactivate"]
    /\ target' = [target EXCEPT ![a] = v]
    /\ todo' = [todo EXCEPT ![a] = active]
    /\ UNCHANGED <<rows, active, iso, lgbm, jobs, runs, off>>

Locked(v, a) ==
    \E o \in Admin \ {a} : v \in off[o] \/ (pc[o] = "commit" /\ target[o] = v)

Deactivate(a, v) ==
    /\ pc[a] = "deactivate"
    /\ v \in todo[a]
    /\ ~Locked(v, a)
    /\ todo' = [todo EXCEPT ![a] = @ \ {v}]
    /\ off' = [off EXCEPT ![a] = IF v \in active THEN @ \cup {v} ELSE @]
    /\ UNCHANGED <<rows, active, iso, lgbm, jobs, runs, pc, target>>

\* UPDATE ... SET active = true WHERE id.
Activate(a) ==
    /\ pc[a] = "deactivate"
    /\ todo[a] = {}
    /\ ~Locked(target[a], a)
    /\ pc' = [pc EXCEPT ![a] = "commit"]
    /\ UNCHANGED <<rows, active, iso, lgbm, jobs, runs, target, todo, off>>

CommitActivate(a) ==
    /\ pc[a] = "commit"
    /\ active' = (active \ off[a]) \cup {target[a]}
    /\ Release(a)
    /\ UNCHANGED <<rows, iso, lgbm, jobs, runs>>

\* The connection breaks, or the transaction is a deadlock's victim.
Rollback(a) ==
    /\ pc[a] # "idle"
    /\ Release(a)
    /\ UNCHANGED <<rows, active, iso, lgbm, jobs, runs>>

-----------------------------------------------------------------------------
Retrain(r) ==
    \/ \E j \in Job \cup {NoJob} : StartRun(r, j)
    \/ \E gbm \in BOOLEAN : NumberRun(r, gbm)
    \/ OpenIso(r)
    \/ SaveIso(r)
    \/ OpenLgbm(r)
    \/ SaveLgbm(r)
    \/ Register(r)
    \/ MarkDone(r)
    \/ RunFails(r)
    \/ RunDies(r)

Activation(a) ==
    \/ \E v \in Registered : BeginActivate(a, v)
    \/ \E v \in todo[a] : Deactivate(a, v)
    \/ Activate(a)
    \/ CommitActivate(a)
    \/ Rollback(a)

Next ==
    \/ \E j \in Job : TriggerRetrain(j)
    \/ \E r \in Run : Retrain(r)
    \/ \E a \in Admin : Activation(a)

Spec == Init /\ [][Next]_vars

-----------------------------------------------------------------------------
(* Properties. *)

\* Another run has drawn the number; it can only have done so before the
\* version was registered.
Shared(v) == \E r \in Run \ {rows[v].run} : runVer[r] = v

\* The file is one whole dump of the run.
Own(file, v, r) == v \in DOMAIN file /\ file[v] = [by |-> {r}, whole |-> TRUE]

\* What the API loads for a registered version is what its run trained.  The
\* loader asks the disk, not the row (inference.py:35-36), so a claimed file
\* must be whole and an unclaimed one must not exist.  Runs of other numbers
\* cannot break it, however they overlap, fail or die half way through a file.
\* A run of the same number can: it leaves a file, perhaps torn.
TrainedIsLoaded ==
    \A v \in Registered :
        /\ v \in DOMAIN iso
        /\ rows[v].gbm => v \in DOMAIN lgbm
        /\ ~Shared(v) => /\ Own(iso, v, rows[v].run)
                         /\ IF rows[v].gbm THEN Own(lgbm, v, rows[v].run)
                            ELSE v \notin DOMAIN lgbm

\* A version belongs to one run for good: of overlapping runs that read the
\* same number only one is registered under it.
VersionsKept ==
    [][\A v \in Registered : v \in Registered' /\ rows'[v] = rows[v]]_vars

\* A retrained model becomes active only when an administrator's transaction
\* activates it, and activating never leaves the API without a model.
ApprovedOnly ==
    [][/\ \A v \in active' \ active :
             \E a \in Admin : pc[a] = "commit" /\ target[a] = v
       /\ active # {} => active' # {}]_vars

\* A job reported done has a registered model of one of its runs, even when
\* several runs of the job overlap and some of them fail.
DoneHasModel ==
    \A j \in Job : jobs[j] = "done" =>
        \E v \in Registered : runJob[rows[v].run] = j

-----------------------------------------------------------------------------
(* The inductive invariant behind them. *)

\* Files are only written by runs that hold their number.
FilesOfHolders ==
    \A v \in DOMAIN iso \cup DOMAIN lgbm : \E r \in Run : runVer[r] = v

\* A run whose number no other run has drawn.
Alone(r) == \A o \in Run \ {r} : runVer[o] # runVer[r]

\* A run about to insert its row has saved what the row will claim; while it is
\* alone with its number, whole and nothing else.
SavedFirst ==
    \A r \in Run :
        /\ runPC[r] \in {"isoDump", "lgbm", "lgbmDump", "insert"} => runVer[r] \in DOMAIN iso
        /\ runPC[r] = "lgbmDump" \/ (runPC[r] = "insert" /\ runGbm[r]) =>
              runVer[r] \in DOMAIN lgbm
        /\ runPC[r] \in {"lgbm", "lgbmDump"} => runGbm[r]

SavedAlone ==
    \A r \in Run : Alone(r) =>
        /\ runPC[r] = "isoDump" => iso[runVer[r]].by = {r}
        /\ runPC[r] \in {"lgbm", "lgbmDump", "insert"} => Own(iso, runVer[r], r)
        /\ runPC[r] = "lgbmDump" => lgbm[runVer[r]].by = {r}
        /\ runPC[r] = "insert" /\ runGbm[r] => Own(lgbm, runVer[r], r)
        /\ runPC[r] \in {"iso", "isoDump", "lgbm"} \/ (runPC[r] = "insert" /\ ~runGbm[r]) =>
              runVer[r] \notin DOMAIN lgbm

\* A run past the insert owns a row.
RowOfRun ==
    \A r \in Run : runPC[r] = "finish" =>
        runVer[r] \in Registered /\ rows[runVer[r]].run = r

\* A registered run has the version's number and writes no more.
OwnersDone ==
    \A v \in Registered :
        runVer[rows[v].run] = v /\ runPC[rows[v].run] \in {"finish", "over"}

\* Runs past the numbering hold a version number; a new activation names a row.
Numbered ==
    /\ \A r \in Run : runPC[r] \notin {"new", "gather", "over"} => runVer[r] # 0
    /\ \A r \in Run : runPC[r] \in {"new", "gather"} => runVer[r] = 0
    /\ \A a \in Admin : pc[a] # "idle" => target[a] \in Registered

IndInv ==
    TypeOK /\ TrainedIsLoaded /\ DoneHasModel /\ FilesOfHolders /\ SavedFirst
    /\ SavedAlone /\ RowOfRun /\ OwnersDone /\ Numbered

-----------------------------------------------------------------------------
\* "Atomic: nonaktifkan lain, aktifkan satu" (model_versions_repo.py:56): one
\* model is active at a time.
OneActive == \A u, v \in active : u = v
=============================================================================
