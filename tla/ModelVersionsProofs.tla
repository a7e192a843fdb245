------------------------- MODULE ModelVersionsProofs -------------------------
(***************************************************************************)
(* Proofs about ModelVersions: whatever retraining runs and activations    *)
(* overlap, fail or die, a registered version has the files its run wrote  *)
(* (unless another run drew its number), belongs to one run for good and   *)
(* becomes active by an administrator's choice; activations made in turn   *)
(* leave one model active.                                                 *)
(***************************************************************************)
EXTENDS ModelVersions, TLAPS

LEMMA WithType ==
    ASSUME NEW S, NEW T, NEW f \in [S -> T], NEW k, NEW x \in T
    PROVE  With(f, k, x) \in [S \cup {k} -> T]
BY DEF With

LEMMA NextVersionPositive ==
    ASSUME TypeOK, NEW n \in NextVersion
    PROVE  n \in Nat \ {0}
BY DEF TypeOK, NextVersion

LEMMA InitIndInv == Init => IndInv
BY NoRunAssumption, NoJobAssumption
   DEF Init, IndInv, TypeOK, TrainedIsLoaded, Shared, Own, DoneHasModel, FilesOfHolders,
       SavedFirst, SavedAlone, Alone, RowOfRun, OwnersDone, Numbered, Registered, NoneYet, JobStatus, RunPC, AdminPC

LEMMA StutterIndInv ==
    ASSUME IndInv, UNCHANGED vars
    PROVE  IndInv'
BY DEF IndInv, TypeOK, TrainedIsLoaded, Shared, Own, DoneHasModel, FilesOfHolders,
       SavedFirst, SavedAlone, Alone, RowOfRun, OwnersDone, Numbered, Registered, vars, runs, txns

-----------------------------------------------------------------------------
(* Activations touch the rows' active flags and the transactions only. *)

LEMMA ActivationTypeOK ==
    ASSUME TypeOK, Numbered, NEW a \in Admin, Activation(a)
    PROVE  TypeOK'
<1> USE DEF TypeOK, AdminPC, Registered, runs, txns
<1>1. ASSUME NEW v \in Registered, BeginActivate(a, v) PROVE TypeOK'
  BY <1>1 DEF BeginActivate
<1>2. ASSUME NEW v \in todo[a], Deactivate(a, v) PROVE TypeOK'
  BY <1>2 DEF Deactivate
<1>3. CASE Activate(a)
  BY <1>3 DEF Activate
<1>4. CASE CommitActivate(a)
  <2>1. active' \subseteq Registered
    BY <1>4 DEF CommitActivate, Numbered
  <2> QED
    BY <1>4, <2>1 DEF CommitActivate, Release
<1>5. CASE Rollback(a)
  BY <1>5 DEF Rollback, Release
<1> QED
  BY <1>1, <1>2, <1>3, <1>4, <1>5 DEF Activation

LEMMA ActivationNumbered ==
    ASSUME TypeOK, Numbered, NEW a \in Admin, Activation(a)
    PROVE  Numbered'
<1>1. UNCHANGED <<runPC, runVer, rows>>
  BY DEF Activation, BeginActivate, Deactivate, Activate, CommitActivate, Rollback, runs
<1>2. \A o \in Admin : pc'[o] # "idle" => target'[o] \in Registered
  <2>1. ASSUME NEW v \in Registered, BeginActivate(a, v)
        PROVE  \A o \in Admin : pc'[o] # "idle" => target'[o] \in Registered
    BY <2>1 DEF BeginActivate, TypeOK, Numbered
  <2>2. ASSUME NEW v \in todo[a], Deactivate(a, v)
        PROVE  \A o \in Admin : pc'[o] # "idle" => target'[o] \in Registered
    BY <2>2 DEF Deactivate, Numbered
  <2>3. ASSUME Activate(a)
        PROVE  \A o \in Admin : pc'[o] # "idle" => target'[o] \in Registered
    BY <2>3 DEF Activate, TypeOK, Numbered
  <2>4. ASSUME Release(a)
        PROVE  \A o \in Admin : pc'[o] # "idle" => target'[o] \in Registered
    BY <2>4 DEF Release, TypeOK, Numbered
  <2> QED
    BY <2>1, <2>2, <2>3, <2>4 DEF Activation, CommitActivate, Rollback
<1> QED
  BY <1>1, <1>2 DEF Numbered, Registered

LEMMA ActivationIndInv ==
    ASSUME IndInv, NEW a \in Admin, Activation(a)
    PROVE  IndInv'
<1>1. UNCHANGED <<rows, iso, lgbm, jobs, runPC, runJob, runVer, runGbm>>
  BY DEF Activation, BeginActivate, Deactivate, Activate, CommitActivate, Rollback, runs
<1>2. TypeOK' /\ Numbered'
  BY ActivationTypeOK, ActivationNumbered DEF IndInv
<1> QED
  BY <1>1, <1>2 DEF IndInv, TrainedIsLoaded, Shared, Own, DoneHasModel, FilesOfHolders,
     SavedFirst, SavedAlone, Alone, RowOfRun, OwnersDone, Registered

-----------------------------------------------------------------------------
(* Retraining.  What a step may do to the table, the disk and the jobs. *)

\* What a step of r may do to the files of one kind: nothing, open the one of
\* its number, or close it, complete unless r ends.
Dumps(file, newFile, r, step, dump) ==
    \/ newFile = file
    \/ runPC[r] = step /\ newFile = With(file, runVer[r], Opened(r, dump))
    \/ /\ runPC[r] = dump
       /\ \E whole \in Remains(file, r, dump, runPC'[r] # "over") :
             newFile = Closed(file, r, whole)

LEMMA FilesStep ==
    ASSUME TypeOK, NEW r \in Run, Retrain(r)
    PROVE  /\ Dumps(iso, iso', r, "iso", "isoDump")
           /\ Dumps(lgbm, lgbm', r, "lgbm", "lgbmDump")
<1> USE DEF Dumps, TypeOK
<1>1. CASE UNCHANGED <<iso, lgbm>>
  BY <1>1
<1>2. CASE OpenIso(r)
  BY <1>2 DEF OpenIso
<1>3. CASE SaveIso(r)
  <2>1. (runPC'[r] # "over") = TRUE
    BY <1>3 DEF SaveIso
  <2> QED
    BY <1>3, <2>1 DEF SaveIso
<1>4. CASE OpenLgbm(r)
  BY <1>4 DEF OpenLgbm
<1>5. CASE SaveLgbm(r)
  <2>1. (runPC'[r] # "over") = TRUE
    BY <1>5 DEF SaveLgbm
  <2> QED
    BY <1>5, <2>1 DEF SaveLgbm
<1>6. CASE Abandon(r)
  <2>1. (runPC'[r] # "over") = FALSE
    BY <1>6 DEF Abandon
  <2> QED
    BY <1>6, <2>1 DEF Abandon
<1> QED
  BY <1>1, <1>2, <1>3, <1>4, <1>5, <1>6
     DEF Retrain, StartRun, NumberRun, Register, MarkDone, RunFails, RunDies

\* So files are only added, and only the run's own changes.
LEMMA DumpsAtNumber ==
    ASSUME NEW file, NEW newFile, NEW r \in Run, NEW step, NEW dump,
           Dumps(file, newFile, r, step, dump),
           runPC[r] = dump => runVer[r] \in DOMAIN file
    PROVE  /\ DOMAIN file \subseteq DOMAIN newFile
           /\ newFile # file => runPC[r] \in {step, dump} /\ runVer[r] \in DOMAIN newFile
           /\ \A v \in DOMAIN newFile : v # runVer[r] => v \in DOMAIN file /\ newFile[v] = file[v]
BY DEF Dumps, With, Closed

\* With no other run of the same number, an opened file is the run's, and one
\* it has closed after a whole dump is whole.
LEMMA OpenedAlone ==
    ASSUME NEW file, NEW r \in Run, NEW dump, Alone(r)
    PROVE  /\ runVer[r] \in DOMAIN With(file, runVer[r], Opened(r, dump))
           /\ With(file, runVer[r], Opened(r, dump))[runVer[r]].by = {r}
<1>1. Beside(r, dump) = {}
  BY DEF Alone, Beside
<1>2. Opened(r, dump) = [by |-> {r}, whole |-> FALSE]
  BY <1>1 DEF Opened
<1> QED
  BY <1>2 DEF With

LEMMA ClosedAlone ==
    ASSUME NEW file, NEW r \in Run, NEW dump, file[runVer[r]].by = {r},
           NEW whole \in Remains(file, r, dump, TRUE)
    PROVE  Own(Closed(file, r, whole), runVer[r], r)
<1>1. whole = TRUE
  BY DEF Remains
<1> QED
  BY <1>1 DEF Closed, With, Own

LEMMA DumpsType ==
    ASSUME NEW file, file \in [DOMAIN file -> File], DOMAIN file \subseteq Nat \ {0},
           NEW newFile, NEW r \in Run, NEW step, NEW dump,
           Dumps(file, newFile, r, step, dump),
           runPC[r] \in {step, dump} => runVer[r] \in Nat \ {0},
           runPC[r] = dump => runVer[r] \in DOMAIN file
    PROVE  newFile \in [DOMAIN newFile -> File] /\ DOMAIN newFile \subseteq Nat \ {0}
<1>1. CASE newFile = file
  BY <1>1
<1>2. ASSUME NEW x \in File, runVer[r] \in Nat \ {0}, newFile = With(file, runVer[r], x)
      PROVE  newFile \in [DOMAIN newFile -> File] /\ DOMAIN newFile \subseteq Nat \ {0}
  BY <1>2 DEF With
<1>3. Opened(r, dump) \in File
  BY DEF Opened, Beside, File
<1>4. ASSUME NEW whole \in Remains(file, r, dump, runPC'[r] # "over"), runPC[r] = dump
      PROVE  [by |-> file[runVer[r]].by, whole |-> whole] \in File
  <2>1. whole \in BOOLEAN
    BY <1>4, Zenon DEF Remains
  <2>2. file[runVer[r]].by \in SUBSET Run
    BY <1>4 DEF File
  <2> QED
    BY <2>1, <2>2, Zenon DEF File
<1> QED
  BY <1>1, <1>2, <1>3, <1>4 DEF Dumps, Closed

LEMMA FilesTypeOK ==
    ASSUME TypeOK, Numbered, SavedFirst, NEW r \in Run, Retrain(r)
    PROVE  /\ DOMAIN iso' \cup DOMAIN lgbm' \subseteq Nat \ {0}
           /\ iso' \in [DOMAIN iso' -> File]
           /\ lgbm' \in [DOMAIN lgbm' -> File]
<1>1. runPC[r] \in {"iso", "isoDump", "lgbm", "lgbmDump"} => runVer[r] \in Nat \ {0}
  BY DEF TypeOK, Numbered
<1>2. /\ runPC[r] = "isoDump" => runVer[r] \in DOMAIN iso
      /\ runPC[r] = "lgbmDump" => runVer[r] \in DOMAIN lgbm
  BY DEF SavedFirst
<1>3. /\ iso \in [DOMAIN iso -> File] /\ DOMAIN iso \subseteq Nat \ {0}
      /\ lgbm \in [DOMAIN lgbm -> File] /\ DOMAIN lgbm \subseteq Nat \ {0}
  BY DEF TypeOK
<1>4. iso' \in [DOMAIN iso' -> File] /\ DOMAIN iso' \subseteq Nat \ {0}
  BY <1>1, <1>2, <1>3, FilesStep, DumpsType
<1>5. lgbm' \in [DOMAIN lgbm' -> File] /\ DOMAIN lgbm' \subseteq Nat \ {0}
  BY <1>1, <1>2, <1>3, FilesStep, DumpsType
<1> QED
  BY <1>4, <1>5

LEMMA RetrainTypeOK ==
    ASSUME TypeOK, Numbered, SavedFirst, NEW r \in Run, Retrain(r)
    PROVE  TypeOK'
<1> USE DEF TypeOK, RunPC, Registered, txns
<1>0. ASSUME NEW j \in Job \cup {NoJob}, NEW s \in JobStatus, SetJob(j, s)
      PROVE  jobs' \in [Job -> JobStatus]
  BY <1>0 DEF SetJob
<1>s. {"queued", "running", "done", "failed"} \subseteq JobStatus
  BY DEF JobStatus
<1>1. ASSUME NEW j \in Job \cup {NoJob}, StartRun(r, j) PROVE TypeOK'
  <2>1. jobs' \in [Job -> JobStatus]
    BY <1>0, <1>1, <1>s DEF StartRun
  <2> QED
    BY <1>1, <2>1 DEF StartRun
<1>2. ASSUME NEW gbm \in BOOLEAN, NumberRun(r, gbm) PROVE TypeOK'
  <2>1. runVer' \in [Run -> Nat]
    BY <1>2, NextVersionPositive DEF NumberRun
  <2>2. runGbm' \in [Run -> BOOLEAN]
    BY <1>2, Zenon DEF NumberRun
  <2>3. runPC' \in [Run -> RunPC]
    BY <1>2 DEF NumberRun, AfterNumber
  <2> QED
    BY <1>2, <2>1, <2>2, <2>3 DEF NumberRun
<1>3. CASE OpenIso(r) \/ SaveIso(r) \/ OpenLgbm(r) \/ SaveLgbm(r)
  <2>1. runPC' \in [Run -> RunPC]
    BY <1>3 DEF OpenIso, SaveIso, OpenLgbm, SaveLgbm
  <2>2. UNCHANGED <<rows, active, jobs, runJob, runVer, runGbm, pc, target, todo, off>>
    BY <1>3 DEF OpenIso, SaveIso, OpenLgbm, SaveLgbm
  <2> QED
    BY <2>1, <2>2, FilesTypeOK
<1>5. CASE Register(r)
  <2>1. runVer[r] \in Nat \ {0}
    BY <1>5 DEF Register, Numbered
  <2>2. [run |-> r, gbm |-> runGbm[r]] \in Row
    BY DEF Row
  <2>3. rows' \in [DOMAIN rows \cup {runVer[r]} -> Row]
    BY <1>5, <2>2, WithType DEF Register
  <2>4. DOMAIN rows' = DOMAIN rows \cup {runVer[r]}
    BY <2>3
  <2>5. active' \subseteq DOMAIN rows'
    BY <1>5, <2>4 DEF Register, ActiveAfterRegister
  <2>6. runPC' \in [Run -> RunPC]
    BY <1>5 DEF Register
  <2>7. todo \in [Admin -> SUBSET DOMAIN rows'] /\ off \in [Admin -> SUBSET DOMAIN rows']
    BY <2>4
  <2> QED
    BY <1>5, <2>1, <2>3, <2>4, <2>5, <2>6, <2>7 DEF Register
<1>6. CASE MarkDone(r)
  <2>1. jobs' \in [Job -> JobStatus]
    BY <1>0, <1>6, <1>s DEF MarkDone
  <2> QED
    BY <1>6, <2>1 DEF MarkDone
<1>7. CASE RunFails(r)
  <2>1. jobs' \in [Job -> JobStatus]
    BY <1>0, <1>7, <1>s DEF RunFails, JobAfterFailure
  <2> QED
    BY <1>7, <2>1, FilesTypeOK DEF RunFails, Abandon
<1>8. CASE RunDies(r)
  BY <1>8, FilesTypeOK DEF RunDies, Abandon
<1> QED
  BY <1>1, <1>2, <1>3, <1>5, <1>6, <1>7, <1>8 DEF Retrain

\* Rows are only added: the number of a new one is not taken.
LEMMA RowsKept ==
    ASSUME TypeOK, NEW r \in Run, Retrain(r)
    PROVE  \A v \in Registered : v \in Registered' /\ rows'[v] = rows[v]
<1>1. CASE Register(r)
  BY <1>1 DEF With, Register, Taken, Registered
<1>2. CASE UNCHANGED rows
  BY <1>2 DEF Registered
<1> QED
  BY <1>1, <1>2 DEF Retrain, StartRun, NumberRun, OpenIso, SaveIso, OpenLgbm, SaveLgbm,
     MarkDone, RunFails,
     RunDies, Abandon

\* The files of other numbers stay; those of its own change while it saves.
LEMMA FilesKept ==
    ASSUME IndInv, NEW r \in Run, Retrain(r)
    PROVE  /\ DOMAIN iso \subseteq DOMAIN iso' /\ DOMAIN lgbm \subseteq DOMAIN lgbm'
           /\ iso' # iso => runPC[r] \in {"iso", "isoDump"} /\ runVer[r] \in DOMAIN iso'
           /\ lgbm' # lgbm => runPC[r] \in {"lgbm", "lgbmDump"} /\ runVer[r] \in DOMAIN lgbm'
           /\ \A v \in DOMAIN iso' : v # runVer[r] => v \in DOMAIN iso /\ iso'[v] = iso[v]
           /\ \A v \in DOMAIN lgbm' : v # runVer[r] => v \in DOMAIN lgbm /\ lgbm'[v] = lgbm[v]
<1>1. /\ Dumps(iso, iso', r, "iso", "isoDump")
      /\ Dumps(lgbm, lgbm', r, "lgbm", "lgbmDump")
  BY FilesStep DEF IndInv
<1>2. /\ runPC[r] = "isoDump" => runVer[r] \in DOMAIN iso
      /\ runPC[r] = "lgbmDump" => runVer[r] \in DOMAIN lgbm
  BY DEF IndInv, SavedFirst
<1>3. /\ DOMAIN iso \subseteq DOMAIN iso'
      /\ iso' # iso => runPC[r] \in {"iso", "isoDump"} /\ runVer[r] \in DOMAIN iso'
      /\ \A v \in DOMAIN iso' : v # runVer[r] => v \in DOMAIN iso /\ iso'[v] = iso[v]
  BY <1>1, <1>2, DumpsAtNumber
<1>4. /\ DOMAIN lgbm \subseteq DOMAIN lgbm'
      /\ lgbm' # lgbm => runPC[r] \in {"lgbm", "lgbmDump"} /\ runVer[r] \in DOMAIN lgbm'
      /\ \A v \in DOMAIN lgbm' : v # runVer[r] => v \in DOMAIN lgbm /\ lgbm'[v] = lgbm[v]
  BY <1>1, <1>2, DumpsAtNumber
<1> QED
  BY <1>3, <1>4

\* A run acts alone, and its job and number are drawn once.
LEMMA OthersQuiet ==
    ASSUME TypeOK, NEW r \in Run, Retrain(r)
    PROVE  /\ \A o \in Run \ {r} : /\ runPC'[o] = runPC[o]
                                   /\ runJob'[o] = runJob[o]
                                   /\ runVer'[o] = runVer[o]
                                   /\ runGbm'[o] = runGbm[o]
           /\ runPC'[r] # "new"
           /\ runPC[r] # "new" => runJob'[r] = runJob[r]
<1> USE DEF TypeOK
<1>1. ASSUME NEW j \in Job \cup {NoJob}, StartRun(r, j)
      PROVE  /\ \A o \in Run \ {r} : /\ runPC'[o] = runPC[o]
                                     /\ runJob'[o] = runJob[o]
                                     /\ runVer'[o] = runVer[o]
                                     /\ runGbm'[o] = runGbm[o]
             /\ runPC'[r] # "new"
             /\ runPC[r] # "new" => runJob'[r] = runJob[r]
  BY <1>1 DEF StartRun
<1>2. ASSUME NEW gbm \in BOOLEAN, NumberRun(r, gbm)
      PROVE  /\ \A o \in Run \ {r} : /\ runPC'[o] = runPC[o]
                                     /\ runVer'[o] = runVer[o]
                                     /\ runGbm'[o] = runGbm[o]
             /\ runPC'[r] # "new"
             /\ runJob' = runJob
  BY <1>2 DEF NumberRun, AfterNumber
<1>3. ASSUME \/ OpenIso(r) \/ SaveIso(r) \/ OpenLgbm(r) \/ SaveLgbm(r) \/ Register(r)
             \/ MarkDone(r) \/ RunFails(r) \/ RunDies(r)
      PROVE  /\ UNCHANGED <<runJob, runVer, runGbm>>
             /\ \A o \in Run \ {r} : runPC'[o] = runPC[o]
             /\ runPC'[r] # "new"
  BY <1>3 DEF OpenIso, SaveIso, OpenLgbm, SaveLgbm, Register, MarkDone, RunFails, RunDies,
     Abandon
<1> QED
  BY <1>1, <1>2, <1>3 DEF Retrain

-----------------------------------------------------------------------------
\* A number once drawn is kept; so a number that is shared stays shared.
LEMMA NumbersKept ==
    ASSUME IndInv, NEW r \in Run, Retrain(r)
    PROVE  /\ \A o \in Run : runVer[o] # 0 => runVer'[o] = runVer[o]
           /\ \A o \in Run : runVer[o] # 0 /\ Alone(o)' => Alone(o)
<1>1. runVer[r] # 0 => runVer'[r] = runVer[r]
  BY DEF IndInv, Numbered, Retrain, StartRun, NumberRun, OpenIso, SaveIso, OpenLgbm, SaveLgbm,
     Register, MarkDone, RunFails, RunDies
<1>2. \A o \in Run : runVer[o] # 0 => runVer'[o] = runVer[o]
  BY <1>1, OthersQuiet DEF IndInv
<1> QED
  BY <1>2 DEF Alone

LEMMA RetrainTrained ==
    ASSUME IndInv, NEW r \in Run, Retrain(r)
    PROVE  TrainedIsLoaded'
<1>1. ASSUME NEW v \in Registered
      PROVE  /\ v \in DOMAIN iso'
             /\ rows[v].gbm => v \in DOMAIN lgbm'
             /\ (\A o \in Run \ {rows[v].run} : runVer'[o] # v) =>
                   /\ Own(iso', v, rows[v].run)
                   /\ IF rows[v].gbm THEN Own(lgbm', v, rows[v].run)
                      ELSE v \notin DOMAIN lgbm'
  <2>1. v \in DOMAIN iso' /\ (rows[v].gbm => v \in DOMAIN lgbm')
    BY FilesKept DEF IndInv, TrainedIsLoaded
  <2>2. v \in Nat \ {0}
    BY DEF IndInv, TypeOK
  <2>3. rows[v].run \in Run /\ runVer[rows[v].run] = v /\ runPC[rows[v].run] \in {"finish", "over"}
    BY DEF IndInv, TypeOK, Row, OwnersDone
  <2>4. ASSUME \A o \in Run \ {rows[v].run} : runVer'[o] # v
        PROVE  /\ Own(iso', v, rows[v].run)
               /\ IF rows[v].gbm THEN Own(lgbm', v, rows[v].run) ELSE v \notin DOMAIN lgbm'
    <3>1. \A o \in Run \ {rows[v].run} : runVer[o] # v
      BY <2>2, <2>4, NumbersKept
    <3>2. /\ Own(iso, v, rows[v].run)
          /\ IF rows[v].gbm THEN Own(lgbm, v, rows[v].run) ELSE v \notin DOMAIN lgbm
      BY <3>1 DEF IndInv, TrainedIsLoaded, Shared
    <3>3. r = rows[v].run => iso' = iso /\ lgbm' = lgbm
      BY <2>3, FilesKept
    <3>4. r # rows[v].run => v # runVer[r]
      BY <3>1
    <3> QED
      BY <2>1, <3>2, <3>3, <3>4, FilesKept DEF Own
  <2> QED
    BY <2>1, <2>4
<1>2. CASE Register(r)
  <2>1. UNCHANGED <<iso, lgbm, runVer>>
    BY <1>2 DEF Register
  <2>2. /\ DOMAIN rows' = DOMAIN rows \cup {runVer[r]}
        /\ rows'[runVer[r]] = [run |-> r, gbm |-> runGbm[r]]
        /\ \A v \in DOMAIN rows : v # runVer[r] => rows'[v] = rows[v]
    BY <1>2 DEF With, Register
  <2>3. runVer[r] \notin DOMAIN rows
    BY <1>2 DEF Register, Taken, Registered
  <2>4. runVer[r] \in DOMAIN iso /\ (runGbm[r] => runVer[r] \in DOMAIN lgbm)
    BY <1>2 DEF Register, IndInv, SavedFirst
  <2>5. ASSUME \A o \in Run \ {r} : runVer[o] # runVer[r]
        PROVE  /\ Own(iso, runVer[r], r)
               /\ IF runGbm[r] THEN Own(lgbm, runVer[r], r) ELSE runVer[r] \notin DOMAIN lgbm
    BY <1>2, <2>5 DEF Register, IndInv, SavedAlone, Alone
  <2>6. ASSUME NEW v \in DOMAIN rows'
        PROVE  /\ v \in DOMAIN iso'
               /\ rows'[v].gbm => v \in DOMAIN lgbm'
               /\ (\A o \in Run \ {rows'[v].run} : runVer'[o] # v) =>
                     /\ Own(iso', v, rows'[v].run)
                     /\ IF rows'[v].gbm THEN Own(lgbm', v, rows'[v].run) ELSE v \notin DOMAIN lgbm'
    <3>1. CASE v = runVer[r]
      BY <2>1, <2>2, <2>4, <2>5, <3>1
    <3>2. CASE v # runVer[r]
      BY <1>1, <2>2, <3>2 DEF Registered
    <3> QED
      BY <3>1, <3>2
  <2> QED
    BY <2>6 DEF TrainedIsLoaded, Shared, Own, Registered
<1>3. CASE UNCHANGED rows
  BY <1>1, <1>3 DEF TrainedIsLoaded, Shared, Own, Registered
<1> QED
  BY <1>2, <1>3 DEF Retrain, StartRun, NumberRun, OpenIso, SaveIso, OpenLgbm, SaveLgbm,
     MarkDone, RunFails, RunDies

LEMMA RetrainHolders ==
    ASSUME IndInv, NEW r \in Run, Retrain(r)
    PROVE  FilesOfHolders'
<1>1. ASSUME NEW v \in DOMAIN iso' \cup DOMAIN lgbm'
      PROVE  \E o \in Run : runVer'[o] = v
  <2>1. v \in Nat \ {0}
    BY FilesTypeOK DEF IndInv
  <2>2. CASE v \in DOMAIN iso \cup DOMAIN lgbm
    BY <2>1, <2>2, NumbersKept DEF IndInv, FilesOfHolders
  <2>3. CASE v = runVer[r]
    BY <2>1, <2>3, NumbersKept
  <2> QED
    BY <2>2, <2>3, FilesKept
<1> QED
  BY <1>1 DEF FilesOfHolders

LEMMA RetrainSavedFirst ==
    ASSUME IndInv, NEW r \in Run, Retrain(r)
    PROVE  SavedFirst'
<1> DEFINE Saved(o) ==
        /\ runPC[o] \in {"isoDump", "lgbm", "lgbmDump", "insert"} => runVer[o] \in DOMAIN iso
        /\ runPC[o] = "lgbmDump" \/ (runPC[o] = "insert" /\ runGbm[o]) =>
              runVer[o] \in DOMAIN lgbm
        /\ runPC[o] \in {"lgbm", "lgbmDump"} => runGbm[o]
<1>1. \A o \in Run : Saved(o)
  BY DEF IndInv, SavedFirst
<1>2. ASSUME NEW o \in Run \ {r} PROVE Saved(o)'
  BY <1>1, FilesKept, OthersQuiet DEF IndInv
<1>3. Saved(r)'
  <2>1. CASE OpenIso(r)
    BY <2>1 DEF With, OpenIso, IndInv, TypeOK
  <2>2. CASE SaveIso(r)
    BY <2>2 DEF With, Closed, SaveIso, IndInv, TypeOK
  <2>3. CASE OpenLgbm(r)
    <3>1. runVer[r] \in DOMAIN iso /\ runGbm[r]
      BY <1>1, <2>3 DEF OpenLgbm
    <3> QED
      BY <2>3, <3>1 DEF With, OpenLgbm, IndInv, TypeOK
  <2>4. CASE SaveLgbm(r)
    <3>1. runVer[r] \in DOMAIN iso /\ runGbm[r]
      BY <1>1, <2>4 DEF SaveLgbm
    <3> QED
      BY <2>4, <3>1 DEF With, Closed, SaveLgbm, IndInv, TypeOK
  <2>5. ASSUME ~OpenIso(r), ~SaveIso(r), ~OpenLgbm(r), ~SaveLgbm(r)
        PROVE  runPC'[r] \notin {"isoDump", "lgbm", "lgbmDump", "insert"}
    BY <2>5 DEF IndInv, TypeOK, Retrain, StartRun, NumberRun, AfterNumber, Register,
       MarkDone, RunFails, RunDies, Abandon
  <2> QED
    BY <2>1, <2>2, <2>3, <2>4, <2>5
<1> QED
  BY <1>2, <1>3 DEF SavedFirst

LEMMA RetrainSavedAlone ==
    ASSUME IndInv, NEW r \in Run, Retrain(r)
    PROVE  SavedAlone'
<1> DEFINE Saved(o) ==
        /\ runPC[o] = "isoDump" => iso[runVer[o]].by = {o}
        /\ runPC[o] \in {"lgbm", "lgbmDump", "insert"} => Own(iso, runVer[o], o)
        /\ runPC[o] = "lgbmDump" => lgbm[runVer[o]].by = {o}
        /\ runPC[o] = "insert" /\ runGbm[o] => Own(lgbm, runVer[o], o)
        /\ runPC[o] \in {"iso", "isoDump", "lgbm"} \/ (runPC[o] = "insert" /\ ~runGbm[o]) =>
              runVer[o] \notin DOMAIN lgbm
<1>1. \A o \in Run : Alone(o) => Saved(o)
  BY DEF IndInv, SavedAlone
<1>2. ASSUME NEW o \in Run \ {r}, Alone(o)' PROVE Saved(o)'
  <2>1. CASE runPC[o] \in {"new", "gather", "finish", "over"}
    BY <2>1, OthersQuiet DEF IndInv
  <2>2. CASE runPC[o] \notin {"new", "gather", "finish", "over"}
    <3>1. runVer[o] # 0
      BY <2>2 DEF IndInv, Numbered
    <3>2. Alone(o)
      BY <1>2, <3>1, NumbersKept
    <3>3. runVer[r] # runVer[o]
      BY <3>2 DEF Alone
    <3>4. runPC'[o] = runPC[o] /\ runVer'[o] = runVer[o] /\ runGbm'[o] = runGbm[o]
      BY OthersQuiet DEF IndInv
    <3>5. /\ runVer[o] \in DOMAIN iso => runVer[o] \in DOMAIN iso' /\ iso'[runVer[o]] = iso[runVer[o]]
          /\ runVer[o] \in DOMAIN lgbm <=> runVer[o] \in DOMAIN lgbm'
          /\ runVer[o] \in DOMAIN lgbm => lgbm'[runVer[o]] = lgbm[runVer[o]]
      BY <3>3, FilesKept
    <3>6. /\ runPC[o] = "isoDump" => runVer[o] \in DOMAIN iso
          /\ runPC[o] = "lgbmDump" => runVer[o] \in DOMAIN lgbm
      BY DEF IndInv, SavedFirst
    <3> QED
      BY <1>1, <3>2, <3>4, <3>5, <3>6 DEF Own
  <2> QED
    BY <2>1, <2>2
<1>3. ASSUME Alone(r)' PROVE Saved(r)'
  <2> USE DEF IndInv, TypeOK
  <2>0. runVer[r] # 0 => Alone(r)
    BY <1>3, NumbersKept
  <2>1. ASSUME NEW gbm \in BOOLEAN, NumberRun(r, gbm) PROVE Saved(r)'
    <3>1. runPC'[r] = "iso" /\ lgbm' = lgbm /\ runPC[r] = "gather"
      BY <2>1 DEF NumberRun, AfterNumber
    <3>2. runVer[r] = 0 /\ runVer'[r] # 0
      BY <2>1, <3>1, NextVersionPositive DEF NumberRun, Numbered
    <3>3. ASSUME runVer'[r] \in DOMAIN lgbm PROVE FALSE
      <4>1. PICK o \in Run : runVer[o] = runVer'[r]
        BY <3>3 DEF FilesOfHolders
      <4>2. o # r /\ runVer'[o] = runVer[o]
        BY <3>2, <4>1, NumbersKept
      <4> QED
        BY <1>3, <4>1, <4>2 DEF Alone
    <3> QED
      BY <3>1, <3>3
  <2>2. CASE OpenIso(r)
    <3>1. /\ runPC[r] = "iso" /\ runPC'[r] = "isoDump"
          /\ iso' = With(iso, runVer[r], Opened(r, "isoDump"))
          /\ UNCHANGED <<lgbm, runVer, runGbm>>
      BY <2>2 DEF OpenIso
    <3>2. Alone(r)
      BY <2>0, <3>1 DEF Numbered
    <3> QED
      BY <1>1, <3>1, <3>2, OpenedAlone
  <2>3. CASE SaveIso(r)
    <3>1. /\ runPC[r] = "isoDump" /\ runPC'[r] = IF runGbm[r] THEN "lgbm" ELSE "insert"
          /\ UNCHANGED <<lgbm, runVer, runGbm>>
      BY <2>3 DEF SaveIso
    <3>2. Alone(r)
      BY <2>0, <3>1 DEF Numbered
    <3>3. Own(iso', runVer[r], r)
      <4>1. PICK whole \in Remains(iso, r, "isoDump", TRUE) : iso' = Closed(iso, r, whole)
        BY <2>3 DEF SaveIso
      <4>2. iso[runVer[r]].by = {r}
        BY <1>1, <3>1, <3>2
      <4> QED
        BY <4>1, <4>2, ClosedAlone
    <3> QED
      BY <1>1, <3>1, <3>2, <3>3 DEF Own
  <2>4. CASE OpenLgbm(r)
    <3>1. /\ runPC[r] = "lgbm" /\ runPC'[r] = "lgbmDump"
          /\ lgbm' = With(lgbm, runVer[r], Opened(r, "lgbmDump"))
          /\ UNCHANGED <<iso, runVer, runGbm>>
      BY <2>4 DEF OpenLgbm
    <3>2. Alone(r)
      BY <2>0, <3>1 DEF Numbered
    <3> QED
      BY <1>1, <3>1, <3>2, OpenedAlone DEF Own
  <2>5. CASE SaveLgbm(r)
    <3>1. /\ runPC[r] = "lgbmDump" /\ runPC'[r] = "insert"
          /\ UNCHANGED <<iso, runVer, runGbm>>
      BY <2>5 DEF SaveLgbm
    <3>2. Alone(r)
      BY <2>0, <3>1 DEF Numbered
    <3>3. Own(lgbm', runVer[r], r)
      <4>1. PICK whole \in Remains(lgbm, r, "lgbmDump", TRUE) : lgbm' = Closed(lgbm, r, whole)
        BY <2>5 DEF SaveLgbm
      <4>2. lgbm[runVer[r]].by = {r}
        BY <1>1, <3>1, <3>2
      <4> QED
        BY <4>1, <4>2, ClosedAlone
    <3>4. runGbm[r]
      BY <3>1 DEF SavedFirst
    <3> QED
      BY <1>1, <3>1, <3>2, <3>3, <3>4 DEF Own
  <2>6. CASE runPC'[r] \notin {"iso", "isoDump", "lgbm", "lgbmDump", "insert"}
    BY <2>6
  <2> QED
    BY <2>1, <2>2, <2>3, <2>4, <2>5, <2>6
       DEF Retrain, StartRun, Register, MarkDone, RunFails, RunDies, Abandon
<1> QED
  BY <1>2, <1>3 DEF SavedAlone

LEMMA RetrainRowOfRun ==
    ASSUME IndInv, NEW r \in Run, Retrain(r)
    PROVE  RowOfRun'
<1>1. ASSUME NEW o \in Run \ {r}, runPC'[o] = "finish"
      PROVE  runVer'[o] \in Registered' /\ rows'[runVer'[o]].run = o
  <2>1. runPC[o] = "finish" /\ runVer'[o] = runVer[o]
    BY <1>1, OthersQuiet DEF IndInv
  <2>2. runVer[o] \in Registered /\ rows[runVer[o]].run = o
    BY <2>1 DEF IndInv, RowOfRun
  <2> QED
    BY <2>1, <2>2, RowsKept DEF IndInv
<1>2. ASSUME runPC'[r] = "finish"
      PROVE  runVer'[r] \in Registered' /\ rows'[runVer'[r]].run = r
  <2>1. Register(r)
    BY <1>2 DEF IndInv, TypeOK, Retrain, StartRun, NumberRun, AfterNumber, OpenIso, SaveIso,
       OpenLgbm, SaveLgbm, MarkDone, RunFails, RunDies, Abandon
  <2>2. DOMAIN rows' = DOMAIN rows \cup {runVer[r]} /\ rows'[runVer[r]].run = r
    BY <2>1 DEF With, Register
  <2>3. runVer' = runVer
    BY <2>1 DEF Register
  <2> QED
    BY <2>2, <2>3 DEF Registered
<1> QED
  BY <1>1, <1>2 DEF RowOfRun

LEMMA RetrainOwners ==
    ASSUME IndInv, NEW r \in Run, Retrain(r)
    PROVE  OwnersDone'
<1>1. ASSUME NEW v \in DOMAIN rows
      PROVE  runVer'[rows[v].run] = v /\ runPC'[rows[v].run] \in {"finish", "over"}
  <2>1. /\ rows[v].run \in Run /\ runVer[rows[v].run] = v /\ v # 0
        /\ runPC[rows[v].run] \in {"finish", "over"}
    BY DEF IndInv, TypeOK, Row, OwnersDone, Registered
  <2>2. runVer'[rows[v].run] = v
    BY <2>1, NumbersKept
  <2>3. runPC[r] \in {"finish", "over"} => runPC'[r] \in {"finish", "over"}
    BY DEF IndInv, TypeOK, Retrain, StartRun, NumberRun, OpenIso, SaveIso, OpenLgbm, SaveLgbm,
       Register, MarkDone, RunFails, RunDies, Abandon
  <2> QED
    BY <2>1, <2>2, <2>3, OthersQuiet DEF IndInv
<1>2. CASE Register(r)
  <2>1. /\ DOMAIN rows' = DOMAIN rows \cup {runVer[r]}
        /\ rows'[runVer[r]].run = r
        /\ \A v \in DOMAIN rows : v # runVer[r] => rows'[v] = rows[v]
    BY <1>2 DEF With, Register
  <2>2. runPC'[r] = "finish" /\ runVer' = runVer
    BY <1>2 DEF Register, IndInv, TypeOK
  <2> QED
    BY <1>1, <2>1, <2>2 DEF OwnersDone, Registered
<1>3. CASE UNCHANGED rows
  BY <1>1, <1>3 DEF OwnersDone, Registered
<1> QED
  BY <1>2, <1>3 DEF Retrain, StartRun, NumberRun, OpenIso, SaveIso, OpenLgbm, SaveLgbm,
     MarkDone, RunFails, RunDies

\* Only mark_done makes a job done, and its run owns a row by then.
LEMMA RetrainDone ==
    ASSUME IndInv, NEW r \in Run, Retrain(r)
    PROVE  DoneHasModel'
<1>1. ASSUME NEW j \in Job, jobs[j] = "done"
      PROVE  \E v \in Registered' : runJob'[rows'[v].run] = j
  <2>1. PICK v \in Registered : runJob[rows[v].run] = j
    BY <1>1 DEF IndInv, DoneHasModel
  <2>2. rows[v].run \in Run /\ runPC[rows[v].run] # "new"
    BY DEF IndInv, TypeOK, Row, OwnersDone
  <2>3. runJob'[rows[v].run] = runJob[rows[v].run]
    BY <2>2, OthersQuiet DEF IndInv
  <2>4. v \in Registered' /\ rows'[v] = rows[v]
    BY RowsKept DEF IndInv
  <2> QED
    BY <2>1, <2>3, <2>4
<1>2. ASSUME NEW j \in Job, jobs'[j] = "done", jobs[j] # "done"
      PROVE  \E v \in Registered' : runJob'[rows'[v].run] = j
  <2>1. MarkDone(r)
    BY <1>2 DEF IndInv, TypeOK, Retrain, StartRun, NumberRun, OpenIso, SaveIso, OpenLgbm,
       SaveLgbm, Register,
       RunFails, RunDies, Abandon, SetJob, JobAfterFailure
  <2>2. runJob[r] = j
    BY <1>2, <2>1 DEF MarkDone, SetJob, IndInv, TypeOK
  <2>3. runVer[r] \in Registered /\ rows[runVer[r]].run = r
    BY <2>1 DEF MarkDone, IndInv, RowOfRun
  <2>4. UNCHANGED <<rows, runJob>>
    BY <2>1 DEF MarkDone
  <2> QED
    BY <2>2, <2>3, <2>4 DEF Registered
<1> QED
  BY <1>1, <1>2 DEF DoneHasModel

LEMMA RetrainNumbered ==
    ASSUME IndInv, NEW r \in Run, Retrain(r)
    PROVE  Numbered'
<1>1. ASSUME NEW a \in Admin, pc'[a] # "idle" PROVE target'[a] \in Registered'
  <2>1. UNCHANGED <<pc, target>>
    BY DEF Retrain, StartRun, NumberRun, OpenIso, SaveIso, OpenLgbm, SaveLgbm, Register,
       MarkDone, RunFails,
       RunDies, Abandon, txns
  <2> QED
    BY <1>1, <2>1, RowsKept DEF IndInv, Numbered
<1>2. ASSUME NEW o \in Run \ {r}
      PROVE  /\ runPC'[o] \notin {"new", "gather", "over"} => runVer'[o] # 0
             /\ runPC'[o] \in {"new", "gather"} => runVer'[o] = 0
  BY OthersQuiet DEF IndInv, Numbered
<1>3. /\ runPC'[r] \notin {"new", "gather", "over"} => runVer'[r] # 0
      /\ runPC'[r] \in {"new", "gather"} => runVer'[r] = 0
  <2> USE DEF IndInv, TypeOK
  <2>1. ASSUME NEW gbm \in BOOLEAN, NumberRun(r, gbm)
        PROVE  runVer'[r] # 0 /\ runPC'[r] \notin {"new", "gather"}
    BY <2>1, NextVersionPositive DEF NumberRun, AfterNumber
  <2>2. CASE OpenIso(r) \/ SaveIso(r) \/ OpenLgbm(r) \/ SaveLgbm(r) \/ Register(r) \/ MarkDone(r)
    BY <2>2 DEF OpenIso, SaveIso, OpenLgbm, SaveLgbm, Register, MarkDone, Numbered
  <2>3. CASE \E j \in Job \cup {NoJob} : StartRun(r, j)
    BY <2>3 DEF StartRun, Numbered
  <2>4. CASE RunFails(r) \/ RunDies(r)
    BY <2>4 DEF RunFails, RunDies, Abandon
  <2> QED
    BY <2>1, <2>2, <2>3, <2>4 DEF Retrain
<1> QED
  BY <1>1, <1>2, <1>3 DEF Numbered

LEMMA TriggerIndInv ==
    ASSUME IndInv, NEW j \in Job, TriggerRetrain(j)
    PROVE  IndInv'
<1>1. UNCHANGED <<rows, active, iso, lgbm, runPC, runJob, runVer, runGbm, pc, target,
                 todo, off>>
  BY DEF TriggerRetrain, runs, txns
<1>2. jobs' \in [Job -> JobStatus] /\ \A i \in Job : jobs'[i] = "done" => jobs[i] = "done"
  BY DEF TriggerRetrain, IndInv, TypeOK, JobStatus
<1>3. TypeOK'
  BY <1>1, <1>2 DEF IndInv, TypeOK, Registered
<1> QED
  BY <1>1, <1>2, <1>3 DEF IndInv, TrainedIsLoaded, Shared, Own, DoneHasModel, FilesOfHolders,
     SavedFirst, SavedAlone, Alone, RowOfRun, OwnersDone, Numbered, Registered

\* The inductive invariant, type correctness included.
THEOREM Inductive == Spec => []IndInv
<1>1. ASSUME IndInv, [Next]_vars PROVE IndInv'
  <2>1. ASSUME NEW r \in Run, Retrain(r) PROVE IndInv'
    BY <1>1, <2>1, RetrainTypeOK, RetrainTrained, RetrainHolders, RetrainSavedFirst,
       RetrainSavedAlone, RetrainRowOfRun, RetrainOwners, RetrainDone,
          RetrainNumbered DEF IndInv
  <2> QED
    BY <1>1, <2>1, StutterIndInv, TriggerIndInv, ActivationIndInv DEF Next
<1> QED
  BY <1>1, InitIndInv, PTL DEF Spec

\* What the API loads for a registered version is what its run trained, for any
\* number of runs, each of which may end half way through a file, as long as no
\* other run has drawn its number.
THEOREM LoadedAsTrained == Spec => []TrainedIsLoaded
<1>1. IndInv => TrainedIsLoaded
  BY DEF IndInv
<1> QED
  BY Inductive, <1>1, PTL

\* A job reported done has a registered model.
THEOREM DoneJobsHaveModels == Spec => []DoneHasModel
<1>1. IndInv => DoneHasModel
  BY DEF IndInv
<1> QED
  BY Inductive, <1>1, PTL

\* A version number belongs to one run for good.
THEOREM VersionsKeptForGood == Spec => VersionsKept
<1>1. ASSUME IndInv, [Next]_vars
      PROVE  [\A v \in Registered : v \in Registered' /\ rows'[v] = rows[v]]_vars
  <2>1. CASE UNCHANGED rows
    BY <2>1 DEF Registered
  <2>2. ASSUME NEW r \in Run, Retrain(r)
        PROVE  \A v \in Registered : v \in Registered' /\ rows'[v] = rows[v]
    BY <1>1, <2>2, RowsKept DEF IndInv
  <2> QED
    BY <1>1, <2>1, <2>2 DEF Next, TriggerRetrain, Activation, BeginActivate, Deactivate,
       Activate, CommitActivate, Rollback, vars
<1> QED
  BY Inductive, <1>1, PTL DEF Spec, VersionsKept

\* Models become active by an administrator's transaction only, and one that
\* is in use is replaced, never just taken away.
THEOREM ActiveOnApproval == Spec => ApprovedOnly
<1> DEFINE Approved == /\ \A v \in active' \ active :
                              \E a \in Admin : pc[a] = "commit" /\ target[a] = v
                       /\ active # {} => active' # {}
<1>1. ASSUME [Next]_vars PROVE [Approved]_vars
  <2>1. CASE UNCHANGED active
    BY <2>1
  <2>2. ASSUME NEW a \in Admin, CommitActivate(a) PROVE Approved
    BY <2>2 DEF CommitActivate
  <2> QED
    BY <1>1, <2>1, <2>2 DEF Next, TriggerRetrain, Retrain, StartRun, NumberRun, OpenIso,
       SaveIso,
       OpenLgbm, SaveLgbm, Register, ActiveAfterRegister, MarkDone, RunFails, RunDies, Abandon, Activation,
       BeginActivate, Deactivate, Activate, Rollback, vars
<1> QED
  BY <1>1, PTL DEF Spec, ApprovedOnly
(***************************************************************************)
(* One active model, as long as no two activations overlap.                *)
(***************************************************************************)
InTurn == \A a, b \in Admin : pc[a] # "idle" /\ pc[b] # "idle" => a = b

\* The one activation under way has every active row still before it or
\* updated, all of them updated when it commits.
Covered ==
    /\ OneActive
    /\ \A a \in Admin :
          /\ pc[a] = "deactivate" => active \subseteq todo[a] \cup off[a]
          /\ pc[a] = "commit" => active \subseteq off[a]

\* Retraining runs and their jobs leave the activations alone.
LEMMA RetrainCovered ==
    ASSUME Covered, NEW r \in Run, Retrain(r)
    PROVE  Covered'
<1>1. UNCHANGED <<active, pc, todo, off>>
  BY DEF Retrain, StartRun, NumberRun, OpenIso, SaveIso, OpenLgbm, SaveLgbm, Register,
     MarkDone, RunFails,
         RunDies, Abandon, ActiveAfterRegister, txns
<1> QED
  BY <1>1 DEF Covered, OneActive

LEMMA ActivationCovered ==
    ASSUME IndInv, Covered, InTurn, NEW a \in Admin, Activation(a)
    PROVE  Covered'
<1>1. \A o \in Admin \ {a} : pc'[o] = pc[o] /\ todo'[o] = todo[o] /\ off'[o] = off[o]
  BY DEF IndInv, TypeOK, Activation, BeginActivate, Deactivate, Activate, CommitActivate,
         Rollback, Release
<1>2. CASE pc[a] = "idle"
  <2>1. PICK v \in Registered : BeginActivate(a, v)
    BY <1>2 DEF Activation, Deactivate, Activate, CommitActivate, Rollback
  <2>2. active' = active /\ pc'[a] = "deactivate" /\ todo'[a] = active
    BY <2>1 DEF BeginActivate, IndInv, TypeOK
  <2> QED
    BY <1>1, <2>2 DEF Covered, OneActive
<1>3. CASE pc[a] # "idle"
  <2>1. \A o \in Admin \ {a} : pc'[o] = "idle"
    BY <1>1, <1>3 DEF InTurn
  <2>2. ASSUME NEW v \in todo[a], Deactivate(a, v) PROVE Covered'
    <3>1. /\ active' = active /\ pc'[a] = pc[a] /\ pc[a] = "deactivate"
          /\ todo'[a] = todo[a] \ {v}
          /\ off'[a] = IF v \in active THEN off[a] \cup {v} ELSE off[a]
      BY <2>2 DEF Deactivate, IndInv, TypeOK
    <3> QED
      BY <2>1, <3>1 DEF Covered, OneActive
  <2>3. ASSUME Activate(a) PROVE Covered'
    <3>1. active' = active /\ pc'[a] = "commit" /\ pc[a] = "deactivate" /\ todo[a] = {} /\ off' = off
      BY <2>3 DEF Activate, IndInv, TypeOK
    <3> QED
      BY <2>1, <3>1 DEF Covered, OneActive
  <2>4. ASSUME CommitActivate(a) PROVE Covered'
    <3>1. pc[a] = "commit" /\ active' = (active \ off[a]) \cup {target[a]} /\ pc'[a] = "idle"
      BY <2>4 DEF CommitActivate, Release, IndInv, TypeOK
    <3>2. active' = {target[a]}
      BY <3>1 DEF Covered
    <3> QED
      BY <2>1, <3>1, <3>2 DEF Covered, OneActive
  <2>5. ASSUME Rollback(a) PROVE Covered'
    <3>1. active' = active /\ pc'[a] = "idle"
      BY <2>5 DEF Rollback, Release, IndInv, TypeOK
    <3> QED
      BY <2>1, <3>1 DEF Covered, OneActive
  <2> QED
    BY <1>3, <2>2, <2>3, <2>4, <2>5 DEF Activation, BeginActivate
<1> QED
  BY <1>2, <1>3

\* While activations do not overlap, the comment of model_versions_repo.py:56
\* is right: one model is active, whatever retraining runs do meanwhile.  Two
\* activations that overlap are the only way to two active models.
THEOREM OneModelInTurn == Spec /\ []InTurn => []OneActive
<1>1. Init => Covered
  BY DEF Init, Covered, OneActive
<1>2. ASSUME IndInv, Covered, InTurn, [Next]_vars PROVE Covered'
  <2>1. ASSUME NEW j \in Job, TriggerRetrain(j) PROVE Covered'
    BY <1>2, <2>1 DEF TriggerRetrain, txns, Covered, OneActive
  <2>2. CASE UNCHANGED vars
    BY <1>2, <2>2 DEF vars, txns, Covered, OneActive
  <2> QED
    BY <1>2, <2>1, <2>2, RetrainCovered, ActivationCovered DEF Next
<1>3. Covered => OneActive
  BY DEF Covered
<1> QED
  BY Inductive, <1>1, <1>2, <1>3, PTL DEF Spec
=============================================================================
