-------------------------- MODULE OperationsProofs --------------------------
(***************************************************************************)
(* Proofs about what runs beside the decisions.  Migrations, for any       *)
(* files, statements and migrators: what is recorded is applied, whatever  *)
(* is interrupted or runs beside it.  Accounts, for any number of          *)
(* accounts, browsers, processes and moments: every window of the login    *)
(* limit ends, the routes that ask only the token admit no account that    *)
(* was not active when it logged in, and accounts are changed by           *)
(* administrators only.                                                    *)
(***************************************************************************)
EXTENDS Migrations, Accounts, WellFoundedInduction, TLAPS

-----------------------------------------------------------------------------
(***************************************************************************)
(* Migrations: types.                                                      *)
(***************************************************************************)
Run == [pc : {"idle", "oltp", "olap", "done"}, done : SUBSET Nat, file : Nat, next : Nat]

MigrationsTypeOK ==
    /\ oltp \subseteq Nat
    /\ recorded \subseteq Nat
    /\ olap \subseteq Nat \X Nat
    /\ run \in [Migrator -> Run]

-----------------------------------------------------------------------------
(***************************************************************************)
(* What FirstOf returns.                                                   *)
(***************************************************************************)
LEMMA LeastExists ==
    ASSUME NEW T, T \subseteq Nat, T # {}
    PROVE  \E f \in T : \A g \in T : f =< g
<1> DEFINE R == OpToRel(<, Nat)
<1>1. PICK x \in T : \A y \in T : ~ (<<y, x>> \in R)
  BY NatLessThanWellFounded, WFMin
<1>2. ASSUME NEW y \in T, y < x PROVE FALSE
  BY <1>1, <1>2 DEF OpToRel
<1>3. \A g \in T : x =< g
  BY <1>2
<1> QED
  BY <1>3

LEMMA FirstOfNone ==
    ASSUME NEW files, NEW done, files \subseteq Nat \ {0}, FirstOf(files, done) = 0
    PROVE  files \subseteq done
<1> DEFINE rest == files \ done
<1> SUFFICES ASSUME rest # {} PROVE FALSE
  OBVIOUS
<1>1. \E f \in rest : \A g \in rest : f =< g
  BY LeastExists
<1>2. FirstOf(files, done) \in rest
  BY <1>1 DEF FirstOf
<1> QED
  BY <1>2

LEMMA FirstOfSome ==
    ASSUME NEW files, NEW done, files \subseteq Nat \ {0}, FirstOf(files, done) # 0
    PROVE  /\ FirstOf(files, done) \in files
           /\ \A g \in files : g < FirstOf(files, done) => g \in done
<1> DEFINE rest == files \ done
<1>1. rest # {}
  BY DEF FirstOf
<1>2. \E f \in rest : \A g \in rest : f =< g
  BY <1>1, LeastExists
<1>3. /\ FirstOf(files, done) \in rest
      /\ \A g \in rest : FirstOf(files, done) =< g
  BY <1>1, <1>2 DEF FirstOf
<1>4. ASSUME NEW g \in files, g < FirstOf(files, done), g \notin done PROVE FALSE
  <2>1. FirstOf(files, done) =< g
    BY <1>3, <1>4
  <2>2. g \in Nat /\ FirstOf(files, done) \in Nat
    BY <1>3
  <2> QED
    BY ONLY <1>4, <2>1, <2>2
<1> QED
  BY <1>3, <1>4

LEMMA FirstOfIsNat ==
    ASSUME NEW files, NEW done, files \subseteq Nat \ {0}
    PROVE  FirstOf(files, done) \in Nat
<1>1. CASE FirstOf(files, done) = 0
  BY <1>1
<1>2. CASE FirstOf(files, done) # 0
  BY <1>2, FirstOfSome
<1> QED
  BY <1>1, <1>2

-----------------------------------------------------------------------------
(***************************************************************************)
(* Types.                                                                  *)
(***************************************************************************)
LEMMA FilesArePositive ==
    1..OltpFiles \subseteq Nat \ {0} /\ OlapFiles \subseteq Nat \ {0}
BY FilesAssumption DEF OlapFiles

LEMMA AtFileType ==
    ASSUME NEW r \in Run, NEW done \in SUBSET Nat
    PROVE  /\ AtFile(r, done) \in Run
           /\ AtFile(r, done).done = done
           /\ AtFile(r, done).next = 1
           /\ AtFile(r, done).file = FirstOf(OlapFiles, done)
           /\ AtFile(r, done).pc = IF FirstOf(OlapFiles, done) = 0 THEN "done" ELSE "olap"
BY FilesArePositive, FirstOfIsNat DEF AtFile, Run

LEMMA InitMigrationsTypeOK == MigrationsInit => MigrationsTypeOK
BY DEF MigrationsInit, MigrationsTypeOK, NoRun, Run

LEMMA StepMigrationsTypeOK == MigrationsTypeOK /\ [MigrationsNext]_mvars => MigrationsTypeOK'
<1> SUFFICES ASSUME MigrationsTypeOK, [MigrationsNext]_mvars PROVE MigrationsTypeOK'
  OBVIOUS
<1> USE FilesArePositive
<1>0. NoRun \in Run
  BY DEF NoRun, Run
<1>1. ASSUME NEW m \in Migrator, Start(m) PROVE MigrationsTypeOK'
  <2>1. [pc |-> "oltp", done |-> oltp, file |-> FirstOf(1..OltpFiles, oltp), next |-> 0] \in Run
    BY FirstOfIsNat DEF MigrationsTypeOK, Run
  <2> QED
    BY <1>1, <2>1 DEF MigrationsTypeOK, Start
<1>2. ASSUME NEW m \in Migrator, ApplyOltp(m) PROVE MigrationsTypeOK'
  <2>1. CASE run[m].file \in oltp
    BY <1>0, <1>2, <2>1 DEF MigrationsTypeOK, ApplyOltp
  <2>2. CASE run[m].file \notin oltp
    <3> DEFINE done == run[m].done \cup {run[m].file}
               r == [run[m] EXCEPT !.done = done, !.file = FirstOf(1..OltpFiles, done)]
    <3>1. done \in SUBSET Nat /\ FirstOf(1..OltpFiles, done) \in Nat
      BY FirstOfIsNat DEF MigrationsTypeOK, Run
    <3>2. r \in Run
      BY <3>1 DEF MigrationsTypeOK, Run
    <3>3. run' = [run EXCEPT ![m] = r] /\ oltp' = oltp \cup {run[m].file}
      BY <1>2, <2>2 DEF ApplyOltp, MigrationsTypeOK
    <3> QED
      BY <1>2, <3>2, <3>3 DEF MigrationsTypeOK, ApplyOltp, Run
  <2> QED
    BY <2>1, <2>2
<1>3. ASSUME NEW m \in Migrator, StartOlap(m) PROVE MigrationsTypeOK'
  <2>1. AtFile(run[m], recorded) \in Run
    BY AtFileType DEF MigrationsTypeOK
  <2> QED
    BY <1>3, <2>1 DEF MigrationsTypeOK, StartOlap
<1>4. ASSUME NEW m \in Migrator, ApplyOlap(m) PROVE MigrationsTypeOK'
  <2>1. run[m] \in Run /\ <<run[m].file, run[m].next>> \in Nat \X Nat
    BY DEF MigrationsTypeOK, Run
  <2>2. olap' \subseteq Nat \X Nat
    BY <1>4, <2>1 DEF MigrationsTypeOK, ApplyOlap
  <2>3. [run[m] EXCEPT !.next = @ + 1] \in Run
    BY <2>1 DEF Run
  <2>4. run' \in [Migrator -> Run]
    BY <1>4, <2>3 DEF MigrationsTypeOK, ApplyOlap
  <2>5. UNCHANGED <<oltp, recorded>>
    BY <1>4 DEF ApplyOlap
  <2> QED
    BY <2>2, <2>4, <2>5 DEF MigrationsTypeOK
<1>5. ASSUME NEW m \in Migrator, RecordOlap(m) PROVE MigrationsTypeOK'
  <2>1. run[m].done \cup {run[m].file} \in SUBSET Nat
    BY DEF MigrationsTypeOK, Run
  <2>2. AtFile(run[m], run[m].done \cup {run[m].file}) \in Run
    BY <2>1, AtFileType DEF MigrationsTypeOK
  <2>3. recorded' \subseteq Nat
    BY <1>5 DEF MigrationsTypeOK, RecordOlap, Run
  <2>4. run' \in [Migrator -> Run]
    BY <1>5, <2>2 DEF MigrationsTypeOK, RecordOlap
  <2> QED
    BY <1>5, <2>3, <2>4 DEF MigrationsTypeOK, RecordOlap
<1>6. ASSUME NEW m \in Migrator, Abort(m) PROVE MigrationsTypeOK'
  BY <1>0, <1>6 DEF MigrationsTypeOK, Abort
<1>7. CASE UNCHANGED mvars
  BY <1>7 DEF MigrationsTypeOK, mvars
<1> QED
  BY <1>1, <1>2, <1>3, <1>4, <1>5, <1>6, <1>7 DEF MigrationsNext

(* The variables keep to their types. *)
THEOREM MigrationsTypeCorrect == MigrationsSpec => []MigrationsTypeOK
BY InitMigrationsTypeOK, StepMigrationsTypeOK, PTL DEF MigrationsSpec

-----------------------------------------------------------------------------
(***************************************************************************)
(* MigrationsComplete says nothing of a migrator at work.  What it holds   *)
(* in hand is what makes the next record true: the files it takes for done *)
(* are done, its file is the first of the others, and the statements it    *)
(* has passed are applied.                                                 *)
(***************************************************************************)
AtOltp(m) ==
    /\ run[m].done \subseteq oltp
    /\ run[m].file = FirstOf(1..OltpFiles, run[m].done)

AtOlap(m) ==
    /\ oltp = 1..OltpFiles
    /\ run[m].done \subseteq recorded
    /\ run[m].file = FirstOf(OlapFiles, run[m].done)
    /\ run[m].file # 0
    /\ \A i \in 1..Statements[run[m].file] : i < run[m].next => <<run[m].file, i>> \in olap

AtEnd == oltp = 1..OltpFiles /\ recorded = OlapFiles

InHand(m) ==
    /\ run[m].pc = "oltp" => AtOltp(m)
    /\ run[m].pc = "olap" => AtOlap(m)
    /\ run[m].pc = "done" => AtEnd

InRange ==
    /\ oltp \subseteq 1..OltpFiles
    /\ recorded \subseteq OlapFiles

RecordsTrue ==
    /\ \A file \in recorded : Applied(file)
    /\ \A s \in olap : \A file \in OlapFiles : file < s[1] => Applied(file)

MigrationsIInv ==
    /\ MigrationsTypeOK
    /\ InRange
    /\ RecordsTrue
    /\ \A m \in Migrator : InHand(m)

LEMMA MigrationsIInvImplies == MigrationsIInv => MigrationsComplete
BY DEF MigrationsIInv, RecordsTrue, InHand, AtEnd, MigrationsComplete

LEMMA InitMigrationsIInv == MigrationsInit => MigrationsIInv
<1> SUFFICES ASSUME MigrationsInit PROVE MigrationsIInv
  OBVIOUS
<1>1. InRange /\ RecordsTrue
  BY DEF MigrationsInit, InRange, RecordsTrue
<1>2. \A m \in Migrator : InHand(m)
  BY DEF MigrationsInit, NoRun, InHand
<1> QED
  BY <1>1, <1>2, InitMigrationsTypeOK DEF MigrationsIInv

-----------------------------------------------------------------------------
(***************************************************************************)
(* What is applied stays applied, so that a step of one migrator leaves    *)
(* true what the others have in hand.                                      *)
(***************************************************************************)
Grows ==
    /\ oltp \subseteq oltp' /\ oltp' \subseteq 1..OltpFiles
    /\ olap \subseteq olap'
    /\ recorded \subseteq recorded' /\ recorded' \subseteq OlapFiles

LEMMA AppliedStays ==
    ASSUME Grows, NEW file, Applied(file)
    PROVE  Applied(file)'
BY DEF Grows, Applied

LEMMA InHandStays ==
    ASSUME Grows, NEW m \in Migrator, InHand(m), run'[m] = run[m]
    PROVE  InHand(m)'
<1>1. CASE run[m].pc = "oltp"
  BY <1>1 DEF Grows, InHand, AtOltp
<1>2. CASE run[m].pc = "olap"
  <2>1. AtOlap(m)
    BY <1>2 DEF InHand
  <2>2. oltp' = 1..OltpFiles /\ run[m].done \subseteq recorded'
    BY <2>1 DEF Grows, AtOlap
  <2>3. AtOlap(m)'
    BY <2>1, <2>2 DEF Grows, AtOlap
  <2> QED
    BY <1>2, <2>3 DEF InHand
<1>3. CASE run[m].pc = "done"
  BY <1>3 DEF Grows, InHand, AtEnd
<1>4. CASE run[m].pc \notin {"oltp", "olap", "done"}
  BY <1>4 DEF InHand
<1> QED
  BY <1>1, <1>2, <1>3, <1>4

LEMMA StepOfOne ==
    ASSUME MigrationsIInv, Grows, RecordsTrue', NEW m \in Migrator, InHand(m)',
           NEW r, run' = [run EXCEPT ![m] = r]
    PROVE  InRange' /\ RecordsTrue' /\ \A n \in Migrator : InHand(n)'
<1>1. InRange'
  BY DEF Grows, InRange
<1>2. ASSUME NEW n \in Migrator, n # m PROVE InHand(n)'
  <2>1. run'[n] = run[n]
    BY <1>2 DEF MigrationsIInv, MigrationsTypeOK
  <2> QED
    BY <2>1, InHandStays DEF MigrationsIInv
<1> QED
  BY <1>1, <1>2

LEMMA RecordsStay ==
    ASSUME RecordsTrue, UNCHANGED <<olap, recorded>>
    PROVE  RecordsTrue'
BY DEF RecordsTrue, Applied

-----------------------------------------------------------------------------
(***************************************************************************)
(* One lemma per step; each shows what the migrator has in hand after it.  *)
(***************************************************************************)
Kept == InRange' /\ RecordsTrue' /\ \A n \in Migrator : InHand(n)'

LEMMA StartKeeps == ASSUME MigrationsIInv, NEW m \in Migrator, Start(m) PROVE Kept
<1> DEFINE r == [pc |-> "oltp", done |-> oltp, file |-> FirstOf(1..OltpFiles, oltp), next |-> 0]
<1>1. Grows /\ RecordsTrue'
  BY RecordsStay DEF MigrationsIInv, InRange, Start, Grows
<1>2. run' = [run EXCEPT ![m] = r] /\ run'[m] = r
  BY DEF MigrationsIInv, MigrationsTypeOK, Start
<1>3. oltp' = oltp
  BY DEF Start
<1>4. InHand(m)'
  BY <1>2, <1>3 DEF InHand, AtOltp
<1> QED
  BY <1>1, <1>2, <1>4, StepOfOne DEF Kept

LEMMA AbortKeeps == ASSUME MigrationsIInv, NEW m \in Migrator, Abort(m) PROVE Kept
<1>1. Grows /\ RecordsTrue'
  BY RecordsStay DEF MigrationsIInv, InRange, Abort, Grows
<1>2. run' = [run EXCEPT ![m] = NoRun] /\ run'[m].pc = "idle"
  BY DEF MigrationsIInv, MigrationsTypeOK, Abort, NoRun
<1>3. InHand(m)'
  BY <1>2 DEF InHand
<1> QED
  BY <1>1, <1>2, <1>3, StepOfOne DEF Kept

LEMMA ApplyOltpKeeps == ASSUME MigrationsIInv, NEW m \in Migrator, ApplyOltp(m) PROVE Kept
<1>1. RecordsTrue'
  BY RecordsStay DEF MigrationsIInv, ApplyOltp
<1>2. CASE run[m].file \in oltp
  <2>1. Grows
    BY <1>2 DEF MigrationsIInv, InRange, ApplyOltp, Grows
  <2>2. run' = [run EXCEPT ![m] = NoRun] /\ run'[m].pc = "idle"
    BY <1>2 DEF MigrationsIInv, MigrationsTypeOK, ApplyOltp, NoRun
  <2>3. InHand(m)'
    BY <2>2 DEF InHand
  <2> QED
    BY <1>1, <2>1, <2>2, <2>3, StepOfOne DEF Kept
<1>3. CASE run[m].file \notin oltp
  <2> DEFINE done == run[m].done \cup {run[m].file}
             r == [run[m] EXCEPT !.done = done, !.file = FirstOf(1..OltpFiles, done)]
  <2>1. AtOltp(m) /\ run[m] \in Run /\ run[m].pc = "oltp"
    BY DEF MigrationsIInv, MigrationsTypeOK, InHand, ApplyOltp
  <2>2. run[m].file \in 1..OltpFiles
    <3>1. FirstOf(1..OltpFiles, run[m].done) # 0
      BY <2>1 DEF AtOltp, ApplyOltp
    <3>2. FirstOf(1..OltpFiles, run[m].done) \in 1..OltpFiles
      BY <3>1, FirstOfSome, FilesArePositive
    <3> QED
      BY <2>1, <3>2 DEF AtOltp
  <2>3. oltp' = oltp \cup {run[m].file} /\ UNCHANGED <<olap, recorded>>
    BY <1>3 DEF ApplyOltp
  <2>4. Grows
    BY <2>2, <2>3 DEF MigrationsIInv, InRange, Grows
  <2>5. run' = [run EXCEPT ![m] = r] /\ run'[m] = r
    BY <1>3 DEF MigrationsIInv, MigrationsTypeOK, ApplyOltp
  <2>6. r.pc = "oltp" /\ r.done = done /\ r.file = FirstOf(1..OltpFiles, done)
    BY <2>1 DEF Run
  <2>7. AtOltp(m)'
    BY <2>1, <2>3, <2>5, <2>6 DEF AtOltp
  <2>8. InHand(m)'
    BY <2>5, <2>6, <2>7 DEF InHand
  <2> QED
    BY <1>1, <2>4, <2>5, <2>8, StepOfOne DEF Kept
<1> QED
  BY <1>2, <1>3

(* The next file of ClickHouse, or the end, with the files in done recorded. *)
LEMMA AtFileKeeps ==
    ASSUME MigrationsIInv, Grows, RecordsTrue', NEW m \in Migrator, NEW done \in SUBSET Nat,
           oltp' = 1..OltpFiles, done \subseteq recorded',
           run' = [run EXCEPT ![m] = AtFile(run[m], done)]
    PROVE  Kept
<1> DEFINE r == AtFile(run[m], done)
<1>1. run'[m] = r /\ run[m] \in Run
  BY DEF MigrationsIInv, MigrationsTypeOK
<1>2. /\ r.done = done /\ r.next = 1 /\ r.file = FirstOf(OlapFiles, done)
      /\ r.pc = IF r.file = 0 THEN "done" ELSE "olap"
  BY <1>1, AtFileType
<1>3. CASE r.file = 0
  <2>1. recorded' = OlapFiles
    BY <1>2, <1>3, FirstOfNone, FilesArePositive DEF Grows
  <2>2. InHand(m)'
    BY <1>1, <1>2, <1>3, <2>1 DEF InHand, AtEnd
  <2> QED
    BY <2>2, StepOfOne DEF Kept
<1>4. CASE r.file # 0
  <2>1. \A i \in 1..Statements[r.file] : ~ (i < 1)
    OBVIOUS
  <2>2. AtOlap(m)'
    BY <1>1, <1>2, <1>4, <2>1 DEF AtOlap
  <2>3. InHand(m)'
    BY <1>1, <1>2, <1>4, <2>2 DEF InHand
  <2> QED
    BY <2>3, StepOfOne DEF Kept
<1> QED
  BY <1>3, <1>4

LEMMA StartOlapKeeps == ASSUME MigrationsIInv, NEW m \in Migrator, StartOlap(m) PROVE Kept
<1>1. AtOltp(m) /\ run[m] \in Run
  BY DEF MigrationsIInv, MigrationsTypeOK, InHand, StartOlap
<1>2. 1..OltpFiles \subseteq oltp
  BY <1>1, FirstOfNone, FilesArePositive DEF AtOltp, StartOlap
<1>3. oltp' = 1..OltpFiles /\ UNCHANGED <<olap, recorded>>
  BY <1>2 DEF MigrationsIInv, InRange, StartOlap
<1>4. Grows /\ RecordsTrue'
  BY <1>3, RecordsStay DEF MigrationsIInv, InRange, StartOlap, Grows
<1>5. recorded \in SUBSET Nat
  BY DEF MigrationsIInv, MigrationsTypeOK
<1> QED
  BY <1>3, <1>4, <1>5, AtFileKeeps DEF StartOlap

LEMMA ApplyOlapKeeps == ASSUME MigrationsIInv, NEW m \in Migrator, ApplyOlap(m) PROVE Kept
<1> DEFINE f == run[m].file
           k == run[m].next
           r == [run[m] EXCEPT !.next = @ + 1]
<1>1. AtOlap(m) /\ run[m] \in Run /\ run[m].pc = "olap"
  BY DEF MigrationsIInv, MigrationsTypeOK, InHand, ApplyOlap
<1>2. olap' = olap \cup {<<f, k>>} /\ UNCHANGED <<oltp, recorded>>
  BY DEF ApplyOlap
<1>3. Grows
  BY <1>2 DEF MigrationsIInv, InRange, Grows
<1>4. run' = [run EXCEPT ![m] = r] /\ run'[m] = r
  BY DEF MigrationsIInv, MigrationsTypeOK, ApplyOlap
<1>5. r.pc = "olap" /\ r.done = run[m].done /\ r.file = f /\ r.next = k + 1
  BY <1>1 DEF Run
<1>6. \A file \in OlapFiles : file < f => Applied(file)
  <2>1. FirstOf(OlapFiles, run[m].done) # 0
    BY <1>1 DEF AtOlap
  <2>2. \A file \in OlapFiles : file < FirstOf(OlapFiles, run[m].done) => file \in run[m].done
    BY <2>1, FirstOfSome, FilesArePositive
  <2> QED
    BY <1>1, <2>2 DEF AtOlap, MigrationsIInv, RecordsTrue
<1>7. \A s \in olap' : \A file \in OlapFiles : file < s[1] => Applied(file)
  BY <1>2, <1>6 DEF MigrationsIInv, RecordsTrue
<1>8. RecordsTrue'
  BY <1>2, <1>3, <1>7, AppliedStays DEF MigrationsIInv, RecordsTrue
<1>9. \A i \in 1..Statements[f] : i < k + 1 => <<f, i>> \in olap'
  <2>1. k \in Nat
    BY <1>1 DEF Run
  <2>2. \A i \in 1..Statements[f] : i < k + 1 => i < k \/ i = k
    BY <2>1
  <2> QED
    BY <1>1, <1>2, <2>2 DEF AtOlap
<1>10. AtOlap(m)'
  BY <1>1, <1>2, <1>4, <1>5, <1>9 DEF AtOlap
<1>11. InHand(m)'
  BY <1>4, <1>5, <1>10 DEF InHand
<1> QED
  BY <1>3, <1>4, <1>8, <1>11, StepOfOne DEF Kept

LEMMA RecordOlapKeeps == ASSUME MigrationsIInv, NEW m \in Migrator, RecordOlap(m) PROVE Kept
<1> DEFINE f == run[m].file
           done == run[m].done \cup {f}
<1>1. AtOlap(m) /\ run[m] \in Run
  BY DEF MigrationsIInv, MigrationsTypeOK, InHand, RecordOlap
<1>2. recorded' = recorded \cup {f} /\ UNCHANGED <<oltp, olap>>
  BY DEF RecordOlap
<1>3. f \in OlapFiles
  <2>1. FirstOf(OlapFiles, run[m].done) # 0
    BY <1>1 DEF AtOlap
  <2>2. FirstOf(OlapFiles, run[m].done) \in OlapFiles
    BY <2>1, FirstOfSome, FilesArePositive
  <2> QED
    BY <1>1, <2>2 DEF AtOlap
<1>4. Grows
  BY <1>2, <1>3 DEF MigrationsIInv, InRange, Grows
<1>5. Applied(f)
  <2>1. Statements[f] \in Nat /\ run[m].next \in Nat /\ run[m].next > Statements[f]
    BY <1>1, <1>3, FilesAssumption DEF OlapFiles, Run, RecordOlap, RecordDue
  <2>2. \A i \in 1..Statements[f] : i < run[m].next
    BY <2>1
  <2> QED
    BY <1>1, <2>2 DEF AtOlap, Applied
<1>6. RecordsTrue'
  BY <1>2, <1>5 DEF MigrationsIInv, RecordsTrue, Applied
<1>7. done \in SUBSET Nat /\ done \subseteq recorded' /\ oltp' = 1..OltpFiles
  BY <1>1, <1>2 DEF AtOlap, Run
<1>8. run' = [run EXCEPT ![m] = AtFile(run[m], done)]
  BY DEF RecordOlap
<1> QED
  BY <1>4, <1>6, <1>7, <1>8, AtFileKeeps

LEMMA StepMigrationsIInv == MigrationsIInv /\ [MigrationsNext]_mvars => MigrationsIInv'
<1> SUFFICES ASSUME MigrationsIInv, [MigrationsNext]_mvars PROVE MigrationsIInv'
  OBVIOUS
<1>1. MigrationsTypeOK'
  BY StepMigrationsTypeOK DEF MigrationsIInv
<1>2. CASE MigrationsNext
  <2>1. Kept
    BY <1>2, StartKeeps, ApplyOltpKeeps, StartOlapKeeps, ApplyOlapKeeps, RecordOlapKeeps, AbortKeeps
       DEF MigrationsNext
  <2> QED
    BY <1>1, <2>1 DEF Kept, MigrationsIInv
<1>3. CASE UNCHANGED mvars
  <2>1. InRange' /\ RecordsTrue'
    BY <1>3, RecordsStay DEF MigrationsIInv, InRange, mvars
  <2>2. Grows
    BY <1>3 DEF MigrationsIInv, InRange, Grows, mvars
  <2>3. ASSUME NEW m \in Migrator PROVE InHand(m)'
    BY <1>3, <2>2, InHandStays DEF MigrationsIInv, mvars
  <2> QED
    BY <1>1, <2>1, <2>3 DEF MigrationsIInv
<1> QED
  BY <1>2, <1>3

(***************************************************************************)
(* Whatever was interrupted before and runs beside it: what is recorded is *)
(* applied, the files are applied in order, and a migrator that ends well  *)
(* leaves nothing to apply (migrate.py:45-52, 71-77).                      *)
(***************************************************************************)
THEOREM RecordedIsApplied == MigrationsSpec => []MigrationsComplete
<1>1. MigrationsSpec => []MigrationsIInv
  BY InitMigrationsIInv, StepMigrationsIInv, PTL DEF MigrationsSpec
<1> QED
  BY <1>1, MigrationsIInvImplies, PTL

-----------------------------------------------------------------------------
(***************************************************************************)
(* Accounts: types.                                                        *)
(***************************************************************************)
Token == [sub : User, role : Role, exp : Nat, checked : Nat]

Request == [pc : {"idle", "expire", "check", "issue", "act"}, user : User \cup {NONE},
            role : Role \cup {NONE}, at : Nat, stale : BOOLEAN]

AccountsTypeOK ==
    /\ users \in [User -> Row \cup {NONE}]
    /\ cookie \in [Browser -> Token \cup {NONE}]
    /\ req \in [Browser -> Request]
    /\ \A b \in Browser : req[b].pc # "idle" => req[b].user \in User
    /\ \A b \in Browser : req[b].pc = "issue" => req[b].role \in Role
    /\ rl \in [n : Nat, end : Nat \cup {NONE}]
    /\ time \in Nat
    /\ lost \in [User -> Int]
    /\ died \in BOOLEAN

LEMMA InitAccountsTypeOK == AccountsInit => AccountsTypeOK
<1> SUFFICES ASSUME AccountsInit PROVE AccountsTypeOK
  OBVIOUS
<1>1. NoRequestYet \in Request
  BY DEF NoRequestYet, Request
<1>2. req \in [Browser -> Request] /\ \A b \in Browser : req[b].pc = "idle"
  BY <1>1 DEF AccountsInit, NoRequestYet
<1>3. rl \in [n : Nat, end : Nat \cup {NONE}] /\ lost \in [User -> Int]
  BY DEF AccountsInit, NoCounter
<1> QED
  BY <1>2, <1>3 DEF AccountsInit, AccountsTypeOK

(***************************************************************************)
(* What each step leaves alone: the rows, the tokens, the requests.        *)
(***************************************************************************)
LEMMA ChangeAccountsTypeOK ==
    ASSUME AccountsTypeOK, NEW b \in Browser, NEW u \in User, NEW row \in Row, Change(b, u, row)
    PROVE  AccountsTypeOK'
<1>1. users' \in [User -> Row \cup {NONE}]
  BY DEF AccountsTypeOK, Change
<1>2. lost' \in [User -> Int]
  BY DEF AccountsTypeOK, Change
<1>3. ASSUME NEW c \in Browser
      PROVE  /\ req'[c] \in Request
             /\ req'[c].pc # "idle" => req'[c].user \in User
             /\ req'[c].pc = "issue" => req'[c].role \in Role
  <2>1. CASE c = b
    BY <2>1 DEF AccountsTypeOK, Change, NoRequestYet, Request
  <2>2. CASE c # b
    <3>1. PICK s \in BOOLEAN : req'[c] = [req[c] EXCEPT !.stale = s]
      <4> DEFINE s == req[c].stale \/ (req[c].pc = "act" /\ req[c].user = u
                                       /\ row # [role |-> "admin", active |-> TRUE])
      <4>1. req'[c] = [req[c] EXCEPT !.stale = s]
        BY <2>2 DEF Change
      <4>2. s \in BOOLEAN
        OBVIOUS
      <4> QED
        BY <4>1, <4>2
    <3> QED
      BY <3>1 DEF AccountsTypeOK, Request
  <2> QED
    BY <2>1, <2>2
<1>4. req' \in [Browser -> Request]
  <2>1. req' = [c \in Browser |-> req'[c]]
    BY DEF Change
  <2> QED
    BY <1>3, <2>1
<1> QED
  BY <1>1, <1>2, <1>3, <1>4 DEF AccountsTypeOK, Change

\* The two operations on accounts change one row, to a row.
LEMMA AccountsChange ==
    ASSUME AccountsTypeOK, NEW b \in Browser, NEW u \in User,
           \/ \E role \in Role : CreateUser(b, u, role)
           \/ \E role \in Role \cup {NONE}, active \in BOOLEAN \cup {NONE} : UpdateUser(b, u, role, active)
    PROVE  \E row \in Row : Change(b, u, row)
<1> USE NoneAssumption DEF AccountsTypeOK
<1>1. ASSUME NEW role \in Role, CreateUser(b, u, role)
      PROVE  \E row \in Row : Change(b, u, row)
  BY <1>1, [role |-> role, active |-> TRUE] \in Row DEF CreateUser, Row
<1>2. ASSUME NEW role \in Role \cup {NONE}, NEW active \in BOOLEAN \cup {NONE},
             UpdateUser(b, u, role, active)
      PROVE  \E row \in Row : Change(b, u, row)
  <2> DEFINE row == [role   |-> IF role = NONE THEN users[u].role ELSE role,
                     active |-> IF active = NONE THEN users[u].active ELSE active]
  <2>1. users[u] \in Row
    BY <1>2 DEF UpdateUser
  <2>2. row \in Row
    BY <2>1 DEF Row
  <2>3. Change(b, u, row)
    BY <1>2 DEF UpdateUser
  <2> HIDE DEF row
  <2> QED
    BY <2>2, <2>3
<1> QED
  BY <1>1, <1>2

LEMMA StepAccountsTypeOK ==
    ASSUME AccountsTypeOK, [AccountsNext]_avars
    PROVE  AccountsTypeOK'
<1> USE LimitsAssumption, NoneAssumption DEF AccountsTypeOK
<1>1. ASSUME NEW p \in Process, Boot(p) \/ BootInsert(p) \/ Stop(p) PROVE AccountsTypeOK'
  <2>1. users' \in [User -> Row \cup {NONE}]
    BY <1>1, [role |-> "admin", active |-> TRUE] \in Row DEF Boot, BootInsert, Stop, Row, Role
  <2> QED
    BY <1>1, <2>1 DEF Boot, BootInsert, Stop
<1>2. ASSUME NEW b \in Browser, NEW u \in User, Attempt(b, u) PROVE AccountsTypeOK'
  <2>1. rl' \in [n : Nat, end : Nat \cup {NONE}]
    BY <1>2 DEF Attempt
  <2>2. \/ UNCHANGED req
        \/ \E q \in {"expire", "check"} :
             req' = [req EXCEPT ![b] = [req[b] EXCEPT !.pc = q, !.user = u]]
    BY <1>2 DEF Attempt
  <2>3. CASE UNCHANGED req
    BY <1>2, <2>1, <2>3 DEF Attempt
  <2>4. ASSUME NEW q \in {"expire", "check"},
               req' = [req EXCEPT ![b] = [req[b] EXCEPT !.pc = q, !.user = u]]
        PROVE  AccountsTypeOK'
    <3>1. [req[b] EXCEPT !.pc = q, !.user = u] \in Request
      BY DEF Request
    <3> QED
      BY <1>2, <2>1, <2>4, <3>1 DEF Attempt, Request
  <2> QED
    BY <2>2, <2>3, <2>4
<1>3. ASSUME NEW b \in Browser, SetExpiry(b) PROVE AccountsTypeOK'
  <2>1. [req[b] EXCEPT !.pc = "check"] \in Request
    BY DEF Request
  <2>2. rl' \in [n : Nat, end : Nat \cup {NONE}]
    BY <1>3 DEF SetExpiry
  <2> QED
    BY <1>3, <2>1, <2>2 DEF SetExpiry, Request
<1>4. ASSUME NEW b \in Browser, CheckUser(b) PROVE AccountsTypeOK'
  <2>1. CASE req' = [req EXCEPT ![b] = NoRequestYet]
    BY <1>4, <2>1 DEF CheckUser, NoRequestYet, Request
  <2>2. CASE /\ MayLogin(req[b].user)
             /\ req' = [req EXCEPT ![b].pc = "issue", ![b].role = users[req[b].user].role,
                                   ![b].at = time]
    <3>1. req[b].user \in User /\ users[req[b].user].role \in Role
      BY <1>4, <2>2 DEF CheckUser, MayLogin, Active, Row
    <3>2. [req[b] EXCEPT !.pc = "issue", !.role = users[req[b].user].role, !.at = time]
            \in Request
      BY <3>1 DEF Request
    <3> QED
      BY <1>4, <2>2, <3>1, <3>2 DEF CheckUser, Request
  <2> QED
    BY <1>4, <2>1, <2>2 DEF CheckUser
<1>5. ASSUME NEW b \in Browser, Issue(b) PROVE AccountsTypeOK'
  <2>1. [sub |-> req[b].user, role |-> req[b].role, exp |-> time + JwtTtl, checked |-> req[b].at]
          \in Token
    BY <1>5 DEF Issue, Token, Request
  <2>2. NoRequestYet \in Request
    BY DEF NoRequestYet, Request
  <2> QED
    BY <1>5, <2>1, <2>2 DEF Issue, NoRequestYet
<1>6. ASSUME NEW b \in Browser, Logout(b) PROVE AccountsTypeOK'
  BY <1>6 DEF Logout
<1>7. ASSUME NEW b \in Browser, CheckAdmin(b) PROVE AccountsTypeOK'
  <2>1. cookie[b].sub \in User
    BY <1>7 DEF CheckAdmin, Claims, Token
  <2>2. [req[b] EXCEPT !.pc = "act", !.user = cookie[b].sub] \in Request
    BY <2>1 DEF Request
  <2> QED
    BY <1>7, <2>1, <2>2 DEF CheckAdmin, Request
<1>8. ASSUME NEW b \in Browser, NEW u \in User, NEW role \in Role, CreateUser(b, u, role)
      PROVE  AccountsTypeOK'
  BY <1>8, AccountsChange, ChangeAccountsTypeOK
<1>9. ASSUME NEW b \in Browser, NEW u \in User, NEW role \in Role \cup {NONE},
             NEW active \in BOOLEAN \cup {NONE}, UpdateUser(b, u, role, active)
      PROVE  AccountsTypeOK'
  BY <1>9, AccountsChange, ChangeAccountsTypeOK
<1>10. ASSUME NEW b \in Browser, Die(b) PROVE AccountsTypeOK'
  <2>1. NoRequestYet \in Request
    BY DEF NoRequestYet, Request
  <2>2. died' \in BOOLEAN
    BY <1>10 DEF Die
  <2> QED
    BY <1>10, <2>1, <2>2 DEF Die, NoRequestYet
<1>11. CASE Later
  <2>1. rl' \in [n : Nat, end : Nat \cup {NONE}]
    BY <1>11 DEF Later, NoCounter
  <2>2. died' \in BOOLEAN
    BY <1>11 DEF Later
  <2>3. cookie' \in [Browser -> Token \cup {NONE}]
    BY <1>11 DEF Later
  <2> QED
    BY <1>11, <2>1, <2>2, <2>3 DEF Later
<1>12. CASE UNCHANGED avars
  BY <1>12 DEF avars
<1> QED
  BY <1>1, <1>2, <1>3, <1>4, <1>5, <1>6, <1>7, <1>8, <1>9, <1>10, <1>11, <1>12 DEF AccountsNext

(* Accounts, tokens, requests and the counter keep their types.            *)
THEOREM AccountsTypeCorrect == AccountsSpec => []AccountsTypeOK
BY InitAccountsTypeOK, StepAccountsTypeOK, PTL DEF AccountsSpec

-----------------------------------------------------------------------------
(***************************************************************************)
(* The limit on logins.                                                    *)
(***************************************************************************)
LEMMA WindowsStep ==
    ASSUME AccountsTypeOK, WindowsEnd, [AccountsNext]_avars
    PROVE  WindowsEnd'
<1> USE LimitsAssumption, NoneAssumption DEF AccountsTypeOK, WindowsEnd
<1>1. ASSUME NEW b \in Browser, NEW u \in User, Attempt(b, u) PROVE WindowsEnd'
  <2>1. CASE First(rl'.n)
    <3>1. req' = [req EXCEPT ![b].pc = "expire", ![b].user = u]
      BY <1>1, <2>1 DEF Attempt
    <3>2. req'[b].pc = "expire"
      BY <3>1 DEF Request
    <3> QED
      BY <3>2
  <2>2. CASE ~First(rl'.n)
    <3>1. rl'.n > 0 => rl.n > 0
      BY <1>1, <2>2 DEF Attempt, First
    <3>2. rl'.end = rl.end /\ died' = died /\ req[b].pc = "idle"
      BY <1>1 DEF Attempt
    <3>3. \A c \in Browser : req[c].pc = "expire" => req'[c].pc = "expire"
      BY <1>1, <2>2, <3>2 DEF Attempt
    <3> QED
      BY <3>1, <3>2, <3>3
  <2> QED
    BY <2>1, <2>2
<1>2. ASSUME NEW b \in Browser, SetExpiry(b) PROVE WindowsEnd'
  BY <1>2 DEF SetExpiry
<1>3. ASSUME NEW b \in Browser, Die(b) PROVE WindowsEnd'
  BY <1>3 DEF Die, NoRequestYet
<1>4. CASE Later
  BY <1>4 DEF Later, NoCounter
<1>5. ASSUME UNCHANGED <<rl, died>>,
             \A c \in Browser : req[c].pc = "expire" => req'[c].pc = "expire"
      PROVE  WindowsEnd'
  BY <1>5
<1>6. ASSUME NEW p \in Process, Boot(p) \/ BootInsert(p) \/ Stop(p) PROVE WindowsEnd'
  BY <1>5, <1>6 DEF Boot, BootInsert, Stop
<1>7. ASSUME NEW b \in Browser, CheckUser(b) \/ Issue(b) \/ Logout(b) \/ CheckAdmin(b)
      PROVE  WindowsEnd'
  BY <1>5, <1>7 DEF CheckUser, Issue, Logout, CheckAdmin, Claims
<1>8. ASSUME NEW b \in Browser, NEW u \in User, NEW row, Change(b, u, row) PROVE WindowsEnd'
  BY <1>5, <1>8 DEF Change
<1>9. CASE UNCHANGED avars
  BY <1>9 DEF avars
<1> QED
  BY <1>1, <1>2, <1>3, <1>4, <1>6, <1>7, <1>8, <1>9 DEF AccountsNext, CreateUser, UpdateUser

\* WindowsEnd for every instance: a counter of the login limit has an expiry,
\* is about to get one, or belongs to a request that died before it could
\* (ratelimit.py:12-15).
THEOREM WindowsAlwaysEnd == AccountsSpec => []WindowsEnd
<1>1. AccountsInit => WindowsEnd
  BY DEF AccountsInit, NoCounter, WindowsEnd
<1> QED
  BY <1>1, AccountsTypeCorrect, WindowsStep, PTL DEF AccountsSpec

-----------------------------------------------------------------------------
(***************************************************************************)
(* Who changes accounts: a request past the check is an administrator's,   *)
(* or somebody else's commit has since changed its account.                *)
(***************************************************************************)
CheckedFirst == \A b \in Browser : req[b].pc = "act" => ActiveAdmin(req[b].user) \/ req[b].stale

LEMMA CheckedFirstStep ==
    ASSUME AccountsTypeOK, CheckedFirst, [AccountsNext]_avars
    PROVE  CheckedFirst'
<1> USE NoneAssumption DEF AccountsTypeOK, CheckedFirst
<1>1. ASSUME UNCHANGED users,
             \A c \in Browser : req'[c].pc = "act" => req'[c] = req[c]
      PROVE  CheckedFirst'
  BY <1>1 DEF ActiveAdmin, Active
<1>2. ASSUME NEW p \in Process, Boot(p) \/ Stop(p) PROVE CheckedFirst'
  BY <1>1, <1>2 DEF Boot, Stop
<1>3. ASSUME NEW p \in Process, BootInsert(p) PROVE CheckedFirst'
  <2>1. [role |-> "admin", active |-> TRUE] \in Row
    BY DEF Row, Role
  <2>2. \A u \in User : ActiveAdmin(u) => ActiveAdmin(u)'
    BY <1>3, <2>1 DEF BootInsert, ActiveAdmin, Active
  <2> QED
    BY <1>3, <2>2 DEF BootInsert
<1>4. ASSUME NEW b \in Browser, NEW u \in User, Attempt(b, u) PROVE CheckedFirst'
  <2>1. \A c \in Browser : c # b => req'[c] = req[c]
    BY <1>4 DEF Attempt
  <2>2. UNCHANGED req \/ req'[b].pc \in {"expire", "check"}
    BY <1>4 DEF Attempt, Request
  <2>3. UNCHANGED users
    BY <1>4 DEF Attempt
  <2> QED
    BY <1>1, <2>1, <2>2, <2>3
<1>5. ASSUME NEW b \in Browser, SetExpiry(b) \/ CheckUser(b) \/ Issue(b) \/ Logout(b) \/ Die(b)
      PROVE  CheckedFirst'
  <2>1. \A c \in Browser : c # b => req'[c] = req[c]
    BY <1>5 DEF SetExpiry, CheckUser, Issue, Logout, Die
  <2>2. UNCHANGED req \/ req'[b].pc # "act"
    <3>1. CASE SetExpiry(b) \/ Issue(b) \/ Logout(b) \/ Die(b)
      BY <3>1 DEF SetExpiry, Issue, Logout, Die, NoRequestYet, Request
    <3>2. CASE CheckUser(b)
      BY <3>2 DEF CheckUser, NoRequestYet, Request
    <3> QED
      BY <1>5, <3>1, <3>2
  <2>3. UNCHANGED users
    BY <1>5 DEF SetExpiry, CheckUser, Issue, Logout, Die
  <2> QED
    BY <1>1, <2>1, <2>2, <2>3
<1>6. ASSUME NEW b \in Browser, CheckAdmin(b) PROVE CheckedFirst'
  BY <1>6 DEF CheckAdmin, AdminOf, ActiveAdmin, Active
<1>7. ASSUME NEW b \in Browser, NEW u \in User, NEW row \in Row, Change(b, u, row)
      PROVE  CheckedFirst'
  <2> SUFFICES ASSUME NEW c \in Browser, req'[c].pc = "act"
               PROVE  ActiveAdmin(req[c].user)' \/ req'[c].stale
    OBVIOUS
  <2>1. c # b
    BY <1>7 DEF Change, NoRequestYet
  <2>2. /\ req'[c].pc = req[c].pc /\ req'[c].user = req[c].user
        /\ req'[c].stale = (req[c].stale \/ (req[c].pc = "act" /\ req[c].user = u
                                             /\ row # [role |-> "admin", active |-> TRUE]))
    BY <1>7, <2>1 DEF Change, Request
  <2>3. users' = [users EXCEPT ![u] = row]
    BY <1>7 DEF Change
  <2>4. CASE req[c].user = u /\ row = [role |-> "admin", active |-> TRUE]
    <3>1. users'[u] = row /\ row # NONE /\ row.role = "admin" /\ row.active
      BY <2>3, <2>4
    <3> QED
      BY <2>2, <2>4, <3>1 DEF ActiveAdmin, Active
  <2>5. CASE req[c].user = u /\ row # [role |-> "admin", active |-> TRUE]
    BY <2>2, <2>5
  <2>6. CASE req[c].user # u
    <3>1. ActiveAdmin(req[c].user) => ActiveAdmin(req[c].user)'
      <4>1. req[c].user \in User
        BY <2>2
      <4>2. users'[req[c].user] = users[req[c].user]
        BY <2>3, <2>6, <4>1
      <4> QED
        BY <2>2, <4>2 DEF ActiveAdmin, Active
    <3>2. ActiveAdmin(req[c].user) \/ req[c].stale
      BY <2>2
    <3> QED
      BY <2>2, <3>1, <3>2
  <2> QED
    BY <2>4, <2>5, <2>6
<1>8. ASSUME NEW b \in Browser, NEW u \in User, NEW role \in Role, CreateUser(b, u, role)
      PROVE  CheckedFirst'
  BY <1>8, AccountsChange, <1>7
<1>9. ASSUME NEW b \in Browser, NEW u \in User, NEW role \in Role \cup {NONE},
             NEW active \in BOOLEAN \cup {NONE}, UpdateUser(b, u, role, active)
      PROVE  CheckedFirst'
  BY <1>9, AccountsChange, <1>7
<1>10. CASE Later
  BY <1>1, <1>10 DEF Later
<1>11. CASE UNCHANGED avars
  BY <1>1, <1>11 DEF avars
<1> QED
  BY <1>2, <1>3, <1>4, <1>5, <1>6, <1>8, <1>9, <1>10, <1>11 DEF AccountsNext

LEMMA InitCheckedFirst == AccountsInit => CheckedFirst
BY DEF AccountsInit, CheckedFirst, NoRequestYet

\* ChangedByAdmins for every instance: whatever a token claims, an operation on
\* accounts commits for one who is an administrator, or was when it was checked
\* and has been demoted or deactivated since (deps.py:75-80).
THEOREM AdminsChangeAccounts == AccountsSpec => ChangedByAdmins
<1>1. ASSUME AccountsTypeOK, CheckedFirst
      PROVE  \A b \in Browser : req[b].pc = "act" /\ req'[b].pc = "idle" /\ users' # users =>
               ActiveAdmin(req[b].user) \/ req[b].stale
  BY <1>1 DEF CheckedFirst
<1>2. AccountsSpec => [](AccountsTypeOK /\ CheckedFirst)
  BY InitAccountsTypeOK, StepAccountsTypeOK, InitCheckedFirst, CheckedFirstStep, PTL DEF AccountsSpec
<1> QED
  BY <1>1, <1>2, PTL DEF ChangedByAdmins

-----------------------------------------------------------------------------
(***************************************************************************)
(* Tokens.  An account that passed the check of its row is active, or lost *)
(* its activity at that moment or later; so it is with the account of a    *)
(* request that is about to obtain a token, and of a token.                *)
(***************************************************************************)
Vouched(u, at) == Active(u) \/ (users[u] # NONE /\ at =< lost[u])

TokensVouched ==
    /\ \A b \in Browser : req[b].pc = "issue" => req[b].at =< time /\ Vouched(req[b].user, req[b].at)
    /\ \A b \in Browser : cookie[b] # NONE =>
          cookie[b].checked =< time /\ Vouched(cookie[b].sub, cookie[b].checked)

\* No change of an account takes back that it had passed.
LEMMA ChangeVouched ==
    ASSUME AccountsTypeOK, NEW b \in Browser, NEW u \in User, NEW row \in Row, Change(b, u, row),
           NEW v \in User, NEW at \in Nat, at =< time, Vouched(v, at)
    PROVE  Vouched(v, at)'
<1> USE NoneAssumption DEF AccountsTypeOK
<1>1. users' = [users EXCEPT ![u] = row]
  BY DEF Change
<1>2. lost' = IF Active(u) /\ ~row.active THEN [lost EXCEPT ![u] = time] ELSE lost
  BY DEF Change
<1>3. CASE v # u
  BY <1>1, <1>2, <1>3 DEF Vouched, Active
<1>4. CASE v = u /\ row.active
  <2>1. users'[u] = row /\ row # NONE
    BY <1>1
  <2> QED
    BY <1>4, <2>1 DEF Vouched, Active
<1>5. CASE v = u /\ ~row.active /\ Active(u)
  <2>1. users'[u] = row /\ row # NONE /\ lost'[u] = time
    BY <1>1, <1>2, <1>5
  <2> QED
    BY <1>5, <2>1 DEF Vouched
<1>6. CASE v = u /\ ~row.active /\ ~Active(u)
  <2>1. users'[u] = row /\ row # NONE /\ lost'[u] = lost[u]
    BY <1>1, <1>2, <1>6
  <2> QED
    BY <1>6, <2>1 DEF Vouched
<1> QED
  BY <1>3, <1>4, <1>5, <1>6

LEMMA ChangeTokensVouched ==
    ASSUME AccountsTypeOK, TokensVouched,
           NEW b \in Browser, NEW u \in User, NEW row \in Row, Change(b, u, row)
    PROVE  TokensVouched'
<1>1. UNCHANGED <<cookie, time>>
  BY DEF Change
<1>2. ASSUME NEW c \in Browser, req'[c].pc = "issue"
      PROVE  req'[c].at =< time' /\ Vouched(req[c].user, req[c].at)'
  <2>1. c # b
    BY <1>2 DEF Change, NoRequestYet, AccountsTypeOK
  <2>2. req'[c].pc = req[c].pc /\ req'[c].user = req[c].user /\ req'[c].at = req[c].at
    BY <2>1 DEF Change, Request, AccountsTypeOK
  <2>3. req[c].user \in User /\ req[c].at \in Nat /\ req[c].at =< time
        /\ Vouched(req[c].user, req[c].at)
    BY <1>2, <2>2 DEF AccountsTypeOK, Request, TokensVouched
  <2>4. \A w \in User, t \in Nat : t =< time /\ Vouched(w, t) => Vouched(w, t)'
    BY ChangeVouched
  <2> QED
    BY <1>1, <2>2, <2>3, <2>4 DEF Vouched, Active
<1>3. ASSUME NEW c \in Browser, cookie'[c] # NONE
      PROVE  cookie'[c].checked =< time' /\ Vouched(cookie[c].sub, cookie[c].checked)'
  <2>1. cookie[c] \in Token /\ cookie[c].checked =< time
        /\ Vouched(cookie[c].sub, cookie[c].checked)
    BY <1>1, <1>3 DEF AccountsTypeOK, TokensVouched
  <2>2. \A w \in User, t \in Nat : t =< time /\ Vouched(w, t) => Vouched(w, t)'
    BY ChangeVouched
  <2> QED
    BY <1>1, <2>1, <2>2 DEF Token, Vouched, Active
<1> QED
  BY <1>2, <1>3 DEF TokensVouched

LEMMA TokensVouchedStep ==
    ASSUME AccountsTypeOK, TokensVouched, [AccountsNext]_avars
    PROVE  TokensVouched'
<1> USE NoneAssumption, LimitsAssumption DEF AccountsTypeOK
<1>1. ASSUME UNCHANGED <<users, lost, time>>,
             \A c \in Browser : req'[c].pc = "issue" => req'[c] = req[c],
             \A c \in Browser : cookie'[c] # NONE => cookie'[c] = cookie[c]
      PROVE  TokensVouched'
  BY <1>1 DEF TokensVouched, Vouched, Active
<1>2. ASSUME NEW p \in Process, Boot(p) \/ Stop(p) PROVE TokensVouched'
  BY <1>1, <1>2 DEF Boot, Stop
<1>3. ASSUME NEW p \in Process, BootInsert(p) PROVE TokensVouched'
  <2>1. [role |-> "admin", active |-> TRUE] \in Row
    BY DEF Row, Role
  <2>2. \A u \in User, at \in Nat : Vouched(u, at) => Vouched(u, at)'
    BY <1>3, <2>1 DEF BootInsert, Vouched, Active
  <2>3. UNCHANGED <<req, cookie, time>>
    BY <1>3 DEF BootInsert
  <2> QED
    BY <2>2, <2>3 DEF TokensVouched, Request, Token, Vouched, Active
<1>4. ASSUME NEW b \in Browser, NEW u \in User, Attempt(b, u) PROVE TokensVouched'
  <2>1. \A c \in Browser : c # b => req'[c] = req[c]
    BY <1>4 DEF Attempt
  <2>2. UNCHANGED req \/ req'[b].pc \in {"expire", "check"}
    BY <1>4 DEF Attempt, Request
  <2>3. UNCHANGED <<users, lost, time, cookie>>
    BY <1>4 DEF Attempt
  <2> QED
    BY <1>1, <2>1, <2>2, <2>3
<1>5. ASSUME NEW b \in Browser, SetExpiry(b) \/ Logout(b) \/ CheckAdmin(b) \/ Die(b)
      PROVE  TokensVouched'
  <2>1. \A c \in Browser : c # b => req'[c] = req[c] /\ cookie'[c] = cookie[c]
    BY <1>5 DEF SetExpiry, Logout, CheckAdmin, Die
  <2>2. UNCHANGED req \/ req'[b].pc # "issue"
    BY <1>5 DEF SetExpiry, Logout, CheckAdmin, Die, NoRequestYet, Request
  <2>3. cookie'[b] \in {NONE, cookie[b]}
    BY <1>5 DEF SetExpiry, Logout, CheckAdmin, Die
  <2>4. UNCHANGED <<users, lost, time>>
    BY <1>5 DEF SetExpiry, Logout, CheckAdmin, Die
  <2> QED
    BY <1>1, <2>1, <2>2, <2>3, <2>4
<1>6. ASSUME NEW b \in Browser, CheckUser(b) PROVE TokensVouched'
  <2>1. CASE req' = [req EXCEPT ![b] = NoRequestYet]
    BY <1>1, <1>6, <2>1 DEF CheckUser, NoRequestYet
  <2>2. CASE /\ MayLogin(req[b].user)
             /\ req' = [req EXCEPT ![b].pc = "issue", ![b].role = users[req[b].user].role,
                                   ![b].at = time]
    <3>1. req'[b].user = req[b].user /\ req'[b].at = time
      BY <2>2 DEF Request
    <3>2. \A c \in Browser : c # b => req'[c] = req[c]
      BY <2>2
    <3>3. Active(req[b].user) /\ UNCHANGED <<users, lost, time, cookie>>
      BY <1>6, <2>2 DEF CheckUser, MayLogin
    <3>4. time =< time
      OBVIOUS
    <3> QED
      BY <3>1, <3>2, <3>3, <3>4 DEF TokensVouched, Vouched, Active
  <2> QED
    BY <1>6, <2>1, <2>2 DEF CheckUser
<1>7. ASSUME NEW b \in Browser, Issue(b) PROVE TokensVouched'
  <2>1. /\ cookie'[b].sub = req[b].user /\ cookie'[b].checked = req[b].at
        /\ req'[b].pc = "idle"
        /\ \A c \in Browser : c # b => req'[c] = req[c] /\ cookie'[c] = cookie[c]
        /\ UNCHANGED <<users, lost, time>>
    BY <1>7 DEF Issue, NoRequestYet
  <2>2. req[b].at =< time /\ Vouched(req[b].user, req[b].at)
    BY <1>7 DEF Issue, TokensVouched
  <2> QED
    BY <2>1, <2>2 DEF TokensVouched, Vouched, Active
<1>8. ASSUME NEW b \in Browser, NEW u \in User, NEW role \in Role, CreateUser(b, u, role)
      PROVE  TokensVouched'
  BY <1>8, AccountsChange, ChangeTokensVouched
<1>9. ASSUME NEW b \in Browser, NEW u \in User, NEW role \in Role \cup {NONE},
             NEW active \in BOOLEAN \cup {NONE}, UpdateUser(b, u, role, active)
      PROVE  TokensVouched'
  BY <1>9, AccountsChange, ChangeTokensVouched
<1>10. CASE Later
  <2>1. time' = time + 1 /\ UNCHANGED <<users, req, lost>>
    BY <1>10 DEF Later
  <2>2. \A c \in Browser : cookie'[c] \in {NONE, cookie[c]}
    BY <1>10 DEF Later
  <2>3. \A c \in Browser : req[c].at \in Nat /\ (cookie[c] # NONE => cookie[c].checked \in Nat)
    BY DEF Request, Token
  <2> QED
    BY <2>1, <2>2, <2>3 DEF TokensVouched, Vouched, Active
<1>11. CASE UNCHANGED avars
  BY <1>1, <1>11 DEF avars
<1> QED
  BY <1>2, <1>3, <1>4, <1>5, <1>6, <1>7, <1>8, <1>9, <1>10, <1>11 DEF AccountsNext

\* SessionsOfTheActive for every instance: a token the routes admit is of an
\* account that is active, or was when its row was checked for that login
\* (auth.py:39-43).
THEOREM TokensOfTheActive == AccountsSpec => []SessionsOfTheActive
<1>1. AccountsInit => TokensVouched
  BY DEF AccountsInit, TokensVouched, NoRequestYet
<1>2. TokensVouched => SessionsOfTheActive
  BY DEF TokensVouched, Vouched, SessionsOfTheActive, Admitted, Claims
<1> QED
  BY <1>1, <1>2, InitAccountsTypeOK, StepAccountsTypeOK, TokensVouchedStep, PTL DEF AccountsSpec

=============================================================================
