--------------------------- MODULE ScoringProofs ---------------------------
(***************************************************************************)
(* Theorems about Scoring, for every set of transactions, campaigns,       *)
(* devices, sessions and threads.                                          *)
(***************************************************************************)
EXTENDS Scoring, FiniteSetTheorems, TLAPS

-----------------------------------------------------------------------------
(* Type correctness. *)

\* Helpers the actions are written with keep their types.
LEMMA CpHandlesType ==
    ASSUME TypeOK, NEW j \in Job
    PROVE  CpHandles(j) \subseteq Url
BY ServiceOfAssumption
   DEF CpHandles, RequestId, RequestIds, TypeOK, Url, Job, Token

\* Ending a submission keeps the types of pc and job.
LEMMA FinishType ==
    ASSUME TypeOK, NEW w \in Worker, Finish(w)
    PROVE  /\ pc' \in [Worker -> PC]
           /\ job' \in [Worker -> Job \cup {NoJob}]
           /\ \A o \in Worker : pc'[o] # "idle" => job'[o] \in Job
BY DEF Finish, TypeOK, PC

\* A submission that moves to another step and keeps a job keeps the types.
LEMMA GotoType ==
    ASSUME TypeOK, NEW w \in Worker, NEW l \in PC, NEW j \in Job,
           Goto(w, l), job' = [job EXCEPT ![w] = j]
    PROVE  /\ pc' \in [Worker -> PC]
           /\ job' \in [Worker -> Job \cup {NoJob}]
           /\ \A o \in Worker : pc'[o] # "idle" => job'[o] \in Job
BY DEF Goto, TypeOK, PC

\* What clients are told is an answer.
LEMMA TellType ==
    ASSUME TypeOK, NEW w \in Worker, pc[w] # "idle",
           NEW kind \in {"redirect", "unavailable", "block"}, Tell(w, kind)
    PROVE  answers' \subseteq Answer
BY DEF Tell, TypeOK, Answer, Job

\* Every variable keeps its type: no step stores a half-built job or row.
THEOREM TypeCorrect == Spec => []TypeOK
<1>1. Init => TypeOK
  BY DEF Init, TypeOK, PC
<1>2. TypeOK /\ [Next]_vars => TypeOK'
  <2> SUFFICES ASSUME TypeOK, [Next]_vars PROVE TypeOK'
    OBVIOUS
  <2>1. ASSUME NEW n \in Nonce, NEW t \in Trx, NEW c \in Campaign, SessionInit(n, t, c)
        PROVE  TypeOK'
    BY <2>1 DEF SessionInit, TypeOK, Token
  <2>2. ASSUME NEW n \in Nonce, Lapse(n)
        PROVE  TypeOK'
    BY <2>2 DEF Lapse, TypeOK
  <2>3. ASSUME NEW x \in Service \cup Campaign, SetStatus(x)
        PROVE  TypeOK'
    BY <2>3 DEF SetStatus, TypeOK
  <2>4. ASSUME NEW w \in Worker, NEW t \in Trx, NEW c \in Campaign, NEW d \in Device,
               NEW k \in tokens, Receive(w, t, c, d, k)
        PROVE  TypeOK'
    BY <2>4 DEF Receive, Goto, TypeOK, PC, Job, Verdict, WebOptIn
  <2>5. ASSUME NEW w \in Worker, Step(w)
        PROVE  TypeOK'
    <3>1. CASE VerifyAndConsume(w)
      BY <3>1 DEF VerifyAndConsume, Spend, Goto, TypeOK, PC
    <3>2. CASE RefuseToken(w)
      BY <3>2, FinishType DEF RefuseToken, TypeOK
    <3>3. CASE ResolveService(w)
      BY <3>3, FinishType DEF ResolveService, Goto, TypeOK, PC
    <3>4. CASE ResolveCampaign(w)
      BY <3>4, FinishType DEF ResolveCampaign, Goto, TypeOK, PC
    <3>5. CASE LoadService(w)
      <4> DEFINE b == ServiceOf[job[w].camp] \in active
                 j == [job[w] EXCEPT !.svc = b]
      <4>1. job[w] \in Job /\ b \in BOOLEAN
        BY <3>5 DEF LoadService, TypeOK
      <4>2. j \in Job
        BY <4>1, Zenon DEF Job
      <4>3. job' = [job EXCEPT ![w] = j] /\ Goto(w, "lookup")
        BY <3>5 DEF LoadService
      <4>4. QED
        BY <3>5, <4>2, <4>3, GotoType DEF LoadService, TypeOK, PC
    <3>6. CASE LookupNew(w)
      BY <3>6 DEF LookupNew, Goto, TypeOK, PC
    <3>7. CASE ReplayBlock(w)
      BY <3>7, FinishType, TellType DEF ReplayBlock, TypeOK
    <3>8. CASE ReplayAllow(w)
      BY <3>8, FinishType DEF ReplayAllow, Goto, TypeOK, PC, Job, Verdict
    <3>9. CASE RegisterDevice(w)
      BY <3>9 DEF RegisterDevice, EventCount, Goto, TypeOK, PC, Job
    <3>10. ASSUME NEW v \in Verdict, Decide(w, v)
           PROVE  TypeOK'
      <4> DEFINE j == [job[w] EXCEPT !.fresh = TRUE, !.verdict = v]
                 l == IF v = "block" THEN "olap" ELSE "mint"
      <4>1. job[w] \in Job
        BY <3>10 DEF Decide, TypeOK
      <4>2. j \in Job
        BY <4>1 DEF Job
      <4>3. job' = [job EXCEPT ![w] = j] /\ Goto(w, l)
        BY <3>10 DEF Decide
      <4>4. decisions' \in [Trx -> Row \cup {NoRow}]
        BY <3>10, <4>1 DEF Decide, TypeOK, Job, Row, Verdict, WebOptIn
      <4>5. QED
        BY <3>10, <4>2, <4>3, <4>4, GotoType DEF Decide, TypeOK, PC
    <3>11. CASE CannotDecide(w)
      BY <3>11, FinishType DEF CannotDecide, TypeOK
    <3>12. CASE MintOk(w)
      BY <3>12, CpHandlesType DEF MintOk, Goto, TypeOK, PC, Job, WebOptIn
    <3>13. CASE MintRefused(w)
      BY <3>13, CpHandlesType DEF MintRefused, Goto, TypeOK, PC, Job, WebOptIn
    <3>14. CASE MintRetry(w)
      BY <3>14, CpHandlesType, MaxAttemptsAssumption
         DEF MintRetry, Goto, TypeOK, PC, Job, WebOptIn
    <3>15. CASE UpdateWeboptin(w)
      <4>1. job[w] \in Job
        BY <3>15 DEF UpdateWeboptin, TypeOK
      <4>2. decisions' \in [Trx -> Row \cup {NoRow}]
        BY <3>15, <4>1 DEF UpdateWeboptin, SetWeboptin, TypeOK, Job, Row
      <4>3. answers' \subseteq Answer
        BY <3>15, TellType
           DEF UpdateWeboptin, NextAfterRecord, AllowKind, TypeOK
      <4>4. QED
        BY <3>15, <4>2, <4>3, FinishType DEF UpdateWeboptin, NextAfterRecord, Goto, TypeOK, PC
    <3>16. CASE WriteEvent(w)
      BY <3>16, FinishType, TellType
         DEF WriteEvent, AllowKind, EventOf, Event, TypeOK, Job, Token
    <3>17. QED
      BY <2>5, <3>1, <3>2, <3>3, <3>4, <3>5, <3>6, <3>7, <3>8, <3>9, <3>10, <3>11,
         <3>12, <3>13, <3>14, <3>15, <3>16 DEF Step
  <2>6. ASSUME NEW w \in Worker, Fail(w)
        PROVE  TypeOK'
    BY <2>6, FinishType DEF Fail, TypeOK
  <2>7. CASE Restart
    BY <2>7 DEF Restart, TypeOK, PC
  <2>8. CASE UNCHANGED vars
    BY <2>8 DEF vars, TypeOK
  <2>9. QED
    BY <2>1, <2>2, <2>3, <2>4, <2>5, <2>6, <2>7, <2>8 DEF Next
<1>3. QED
  BY <1>1, <1>2, PTL DEF Spec

-----------------------------------------------------------------------------
(* What a step of one submission leaves alone. *)

\* The body of a submission, which no step of its handler changes.
SameBody(w) ==
    /\ job'[w].trx = job[w].trx
    /\ job'[w].camp = job[w].camp
    /\ job'[w].tok = job[w].tok

\* What every step of a worker satisfies: it touches no other submission,
\* keeps its body, and leaves verify only by spending a valid token.
Framed(w) ==
    /\ tokens' = tokens
    /\ live' \subseteq live
    /\ pc[w] # "idle"
    /\ \A o \in Worker \ {w} : pc'[o] = pc[o] /\ job'[o] = job[o]
    /\ pc'[w] # "idle" => SameBody(w)
    /\ pc'[w] # "verify"
    /\ pc[w] = "verify" /\ pc'[w] # "idle" =>
          TokenValid(job[w]) /\ live' = live \ {job[w].tok.nonce}

LEMMA StepFrame ==
    ASSUME TypeOK, NEW w \in Worker, Step(w)
    PROVE  Framed(w)
<1>1. CASE VerifyAndConsume(w)
  BY <1>1 DEF VerifyAndConsume, Spend, TokenValid, Goto, Framed, SameBody,
     TypeOK, PC, Job
<1>2. CASE RefuseToken(w)
  BY <1>2 DEF RefuseToken, Finish, Framed, SameBody, TypeOK, PC, Job
<1>3. CASE ResolveService(w)
  BY <1>3 DEF ResolveService, Goto, Finish, Framed, SameBody, TypeOK, PC, Job
<1>4. CASE ResolveCampaign(w)
  BY <1>4 DEF ResolveCampaign, Goto, Finish, Framed, SameBody, TypeOK, PC, Job
<1>5. CASE LoadService(w)
  <2>1. /\ tokens' = tokens /\ live' = live
        /\ pc[w] = "service" /\ pc' = [pc EXCEPT ![w] = "lookup"]
    BY <1>5 DEF LoadService, Goto
  <2>2. /\ job[w] \in Job
        /\ \A o \in Worker \ {w} : job'[o] = job[o]
        /\ job'[w] = [job[w] EXCEPT !.svc = (ServiceOf[job[w].camp] \in active)]
    BY <1>5 DEF LoadService, TypeOK
  <2>3. SameBody(w)
    BY <2>2, Zenon DEF SameBody, Job
  <2>4. QED
    BY <2>1, <2>2, <2>3 DEF Framed, TypeOK, PC
<1>6. CASE LookupNew(w)
  BY <1>6 DEF LookupNew, Goto, Framed, SameBody, TypeOK, PC, Job
<1>7. CASE ReplayBlock(w)
  BY <1>7 DEF ReplayBlock, Tell, Finish, Framed, SameBody, TypeOK, PC, Job
<1>8. CASE ReplayAllow(w)
  BY <1>8 DEF ReplayAllow, Goto, Finish, Framed, SameBody, TypeOK, PC, Job
<1>9. CASE RegisterDevice(w)
  BY <1>9 DEF RegisterDevice, Goto, Framed, SameBody, TypeOK, PC, Job
<1>10. ASSUME NEW v \in Verdict, Decide(w, v)
       PROVE  Framed(w)
  BY <1>10 DEF Decide, InsertAccepted, Goto, Framed, SameBody, TypeOK, PC, Job
<1>11. CASE CannotDecide(w)
  BY <1>11 DEF CannotDecide, Finish, Framed, SameBody, TypeOK, PC, Job
<1>12. CASE MintOk(w)
  BY <1>12 DEF MintOk, CpHandles, RequestId, Goto, Framed, SameBody, TypeOK, PC,
     Job
<1>13. CASE MintRefused(w)
  BY <1>13 DEF MintRefused, CpHandles, RequestId, Goto, Framed, SameBody,
     TypeOK, PC, Job
<1>14. CASE MintRetry(w)
  BY <1>14 DEF MintRetry, CpHandles, RequestId, Goto, Framed,
     SameBody, TypeOK, PC, Job
<1>15. CASE UpdateWeboptin(w)
  BY <1>15 DEF UpdateWeboptin, SetWeboptin, NextAfterRecord, Tell, Goto, Finish,
     Framed, SameBody, TypeOK, PC, Job
<1>16. CASE WriteEvent(w)
  BY <1>16 DEF WriteEvent, EventOf, Tell, Finish, Framed, SameBody, TypeOK, PC,
     Job
<1>17. QED
  BY <1>1, <1>2, <1>3, <1>4, <1>5, <1>6, <1>7, <1>8, <1>9, <1>10, <1>11, <1>12,
     <1>13, <1>14, <1>15, <1>16 DEF Step

LEMMA FailFrame ==
    ASSUME TypeOK, NEW w \in Worker, Fail(w)
    PROVE  Framed(w) /\ pc'[w] = "idle"
BY DEF Fail, Finish, Framed, TypeOK, PC

-----------------------------------------------------------------------------
(* Session tokens. *)

\* A nonce is signed into one token only, and every nonce in Redis was signed.
THEOREM SessionsDistinct == Spec => []Sessions
<1>1. Init => Sessions
  BY DEF Init, Sessions
<1>2. TypeOK /\ Sessions /\ [Next]_vars => Sessions'
  <2> SUFFICES ASSUME TypeOK, Sessions, [Next]_vars PROVE Sessions'
    OBVIOUS
  <2>1. ASSUME NEW n \in Nonce, NEW t \in Trx, NEW c \in Campaign, SessionInit(n, t, c)
        PROVE  Sessions'
    <3> DEFINE new == [nonce |-> n, trx |-> t, camp |-> c]
    <3>1. /\ tokens' = tokens \cup {new} /\ live' = live \cup {n}
          /\ \A k \in tokens : k.nonce # n
      BY <2>1 DEF SessionInit
    <3>2. new.nonce = n
      OBVIOUS
    <3>3. \A k, l \in tokens' : k.nonce = l.nonce => k = l
      <4> HIDE DEF new
      <4> QED BY <3>1, <3>2 DEF Sessions
    <3>4. \A m \in live' : \E k \in tokens' : k.nonce = m
      <4> HIDE DEF new
      <4> QED BY <3>1, <3>2 DEF Sessions
    <3>5. QED
      BY <3>3, <3>4 DEF Sessions
  <2>2. ASSUME NEW n \in Nonce, Lapse(n)
        PROVE  Sessions'
    BY <2>2 DEF Lapse, Sessions
  <2>3. ASSUME NEW w \in Worker, Step(w) \/ Fail(w)
        PROVE  Sessions'
    BY <2>3, StepFrame, FailFrame DEF Framed, Sessions
  <2>4. QED
    BY <2>1, <2>2, <2>3 DEF Next, SetStatus, Receive, Restart, vars, Sessions
<1>3. QED
  BY <1>1, <1>2, TypeCorrect, PTL DEF Spec

\* Submissions carry signed tokens; the admitted ones were opened for the very
\* transaction and campaign they name.
THEOREM CarriedSigned == Spec => []Carried
<1>1. Init => Carried
  BY DEF Init, Carried, Admitted
<1>2. TypeOK /\ Carried /\ [Next]_vars => Carried'
  <2> SUFFICES ASSUME TypeOK, Carried, [Next]_vars PROVE Carried'
    OBVIOUS
  <2>1. ASSUME NEW n \in Nonce, NEW t \in Trx, NEW c \in Campaign, SessionInit(n, t, c)
        PROVE  Carried'
    BY <2>1 DEF SessionInit, Carried, Admitted, Bound
  <2>2. ASSUME NEW w \in Worker, NEW t \in Trx, NEW c \in Campaign, NEW d \in Device,
               NEW k \in tokens, Receive(w, t, c, d, k)
        PROVE  Carried'
    BY <2>2 DEF Receive, Goto, TypeOK, Carried, Admitted, Bound
  <2>3. ASSUME NEW w \in Worker, Step(w) \/ Fail(w)
        PROVE  Carried'
    <3>1. Framed(w)
      BY <2>3, StepFrame, FailFrame
    <3>2. \A o \in Worker : pc'[o] # "idle" => job'[o].tok \in tokens'
      BY <3>1 DEF Framed, SameBody, Carried
    <3>3. \A o \in Admitted' : Bound(job'[o])
      BY <3>1 DEF Framed, SameBody, Carried, Admitted, TokenValid, Bound
    <3>4. QED
      BY <3>2, <3>3 DEF Carried, Admitted, Bound
  <2>4. CASE Restart
    BY <2>4 DEF Restart, Carried, Admitted
  <2>5. QED
    BY <2>1, <2>2, <2>3, <2>4
       DEF Next, Lapse, SetStatus, vars, Carried, Admitted, Bound
<1>3. QED
  BY <1>1, <1>2, TypeCorrect, PTL DEF Spec

\* TokenSingleUse for every number of threads and sessions: the DELETE of a
\* nonce is what admits a submission, and a nonce is never signed again.
THEOREM TokensSingleUse == Spec => []TokenSingleUse
<1>1. Init => TokenSingleUse
  BY DEF Init, TokenSingleUse, Admitted
<1>2. TypeOK /\ Carried /\ TokenSingleUse /\ [Next]_vars => TokenSingleUse'
  <2> SUFFICES ASSUME TypeOK, Carried, TokenSingleUse, [Next]_vars
               PROVE  TokenSingleUse'
    OBVIOUS
  <2>1. ASSUME NEW n \in Nonce, NEW t \in Trx, NEW c \in Campaign, SessionInit(n, t, c)
        PROVE  TokenSingleUse'
    BY <2>1 DEF SessionInit, TokenSingleUse, Admitted, Carried
  <2>2. ASSUME NEW n \in Nonce, Lapse(n)
        PROVE  TokenSingleUse'
    BY <2>2 DEF Lapse, TokenSingleUse, Admitted
  <2>3. ASSUME NEW w \in Worker, NEW t \in Trx, NEW c \in Campaign, NEW d \in Device,
               NEW k \in tokens, Receive(w, t, c, d, k)
        PROVE  TokenSingleUse'
    BY <2>3 DEF Receive, Goto, TypeOK, TokenSingleUse, Admitted
  <2>4. ASSUME NEW w \in Worker, Step(w) \/ Fail(w)
        PROVE  TokenSingleUse'
    <3>1. Framed(w)
      BY <2>4, StepFrame, FailFrame
    <3>2. CASE pc[w] = "verify"
      BY <3>1, <3>2 DEF Framed, SameBody, TokenSingleUse, Admitted, TokenValid
    <3>3. CASE pc[w] # "verify"
      BY <3>1, <3>3 DEF Framed, SameBody, TokenSingleUse, Admitted
    <3>4. QED
      BY <3>2, <3>3
  <2>5. CASE Restart
    BY <2>5 DEF Restart, TokenSingleUse, Admitted
  <2>6. QED
    BY <2>1, <2>2, <2>3, <2>4, <2>5
       DEF Next, SetStatus, vars, TokenSingleUse, Admitted
<1>3. QED
  BY <1>1, <1>2, TypeCorrect, CarriedSigned, PTL DEF Spec

-----------------------------------------------------------------------------
(* Decisions. *)

\* A step of a worker keeps the verdict, campaign and device of every stored
\* decision, and changes a status only at the end of a mint.
RowsKept(w) ==
    \A t \in Trx : decisions[t] # NoRow =>
        /\ decisions'[t] # NoRow
        /\ decisions'[t].verdict = decisions[t].verdict
        /\ decisions'[t].camp = decisions[t].camp
        /\ decisions'[t].dev = decisions[t].dev
        /\ \/ decisions'[t].status = decisions[t].status
           \/ pc[w] = "record" /\ t = job[w].trx /\ decisions'[t].status = job[w].status

\* Setting a status yields a row with everything else unchanged.
LEMMA SetWeboptinRow ==
    ASSUME NEW row \in Row, NEW status \in WebOptIn
    PROVE  /\ SetWeboptin(row, status) \in Row
           /\ SetWeboptin(row, status) # NoRow
           /\ SetWeboptin(row, status).verdict = row.verdict
           /\ SetWeboptin(row, status).camp = row.camp
           /\ SetWeboptin(row, status).dev = row.dev
           /\ SetWeboptin(row, status).status = status
<1>1. SetWeboptin(row, status) = [row EXCEPT !.status = status]
  BY NoRowAssumption DEF SetWeboptin
<1>2. [row EXCEPT !.status = status] \in Row
  BY DEF Row
<1>3. QED
  BY <1>1, <1>2, NoRowAssumption DEF Row

LEMMA StepRowsKept ==
    ASSUME TypeOK, NEW w \in Worker, Step(w)
    PROVE  RowsKept(w)
<1>1. CASE UNCHANGED decisions
  BY <1>1 DEF RowsKept
<1>2. ASSUME NEW v \in Verdict, Decide(w, v)
      PROVE  RowsKept(w)
  BY <1>2 DEF Decide, InsertAccepted, RowsKept, TypeOK
<1>3. CASE UpdateWeboptin(w)
  <2>1. /\ pc[w] = "record" /\ job[w].trx \in Trx /\ job[w].status \in WebOptIn
        /\ decisions' = [decisions EXCEPT ![job[w].trx] =
                             SetWeboptin(decisions[job[w].trx], job[w].status)]
    BY <1>3 DEF UpdateWeboptin, TypeOK, Job
  <2>2. ASSUME NEW t \in Trx, decisions[t] # NoRow, t # job[w].trx
        PROVE  decisions'[t] = decisions[t]
    BY <2>1, <2>2 DEF TypeOK
  <2>3. ASSUME NEW t \in Trx, decisions[t] # NoRow, t = job[w].trx
        PROVE  decisions'[t] = SetWeboptin(decisions[t], job[w].status)
    BY <2>1, <2>3 DEF TypeOK
  <2>4. QED
    BY <2>1, <2>2, <2>3, SetWeboptinRow DEF RowsKept, TypeOK
<1>4. QED
  BY <1>1, <1>2, <1>3
     DEF Step, VerifyAndConsume, RefuseToken, ResolveService, ResolveCampaign,
         LoadService, LookupNew, ReplayBlock, ReplayAllow, RegisterDevice,
         CannotDecide, MintOk, MintRefused, MintRetry, WriteEvent

\* The row Decide inserts is a row, so it is not the absence of one.
LEMMA Inserted ==
    ASSUME TypeOK, NEW w \in Worker, NEW v \in Verdict, Decide(w, v)
    PROVE  /\ decisions'[job[w].trx] # NoRow
           /\ decisions'[job[w].trx].verdict = v
           /\ \A t \in Trx \ {job[w].trx} : decisions'[t] = decisions[t]
<1> DEFINE row == [verdict |-> v, camp |-> job[w].camp, dev |-> job[w].dev, status |-> "na"]
<1>1. job[w] \in Job /\ job[w].trx \in Trx
  BY DEF Decide, TypeOK, Job
<1>2. row \in Row /\ row.verdict = v
  BY <1>1 DEF Row, Job, WebOptIn
<1>3. decisions' = [decisions EXCEPT ![job[w].trx] = row]
  BY DEF Decide
<1>4. QED
  BY <1>1, <1>2, <1>3, NoRowAssumption DEF TypeOK

\* At which steps a submission has found or stored its decision, and what it
\* holds of it.
HoldsDecision(p, j) ==
    /\ p \in {"mint", "record", "olap"} =>
          decisions'[j.trx] # NoRow /\ decisions'[j.trx].verdict = j.verdict
    /\ p \in {"mint", "record"} => j.verdict = "allow"
    /\ p = "record" => j.status # "na"

LEMMA StepHoldsDecision ==
    ASSUME TypeOK, Decided, NEW w \in Worker, Step(w)
    PROVE  HoldsDecision(pc'[w], job'[w])
<1> USE DEF HoldsDecision
<1>0. /\ RowsKept(w) /\ job[w].trx \in Trx /\ job[w] \in Job
  BY StepRowsKept, StepFrame DEF Framed, TypeOK, Job
<1>1. CASE VerifyAndConsume(w)
  BY <1>1 DEF VerifyAndConsume, Spend, TokenValid, Goto, TypeOK, PC
<1>2. CASE RefuseToken(w)
  BY <1>2 DEF RefuseToken, Finish, TypeOK, PC
<1>3. CASE ResolveService(w)
  BY <1>3 DEF ResolveService, Goto, Finish, TypeOK, PC
<1>4. CASE ResolveCampaign(w)
  BY <1>4 DEF ResolveCampaign, Goto, Finish, TypeOK, PC
<1>5. CASE LoadService(w)
  BY <1>5 DEF LoadService, Goto, TypeOK, PC
<1>6. CASE LookupNew(w)
  BY <1>6 DEF LookupNew, Goto, TypeOK, PC
<1>7. CASE ReplayBlock(w)
  BY <1>7 DEF ReplayBlock, Tell, Finish, TypeOK, PC
<1>8. CASE ReplayAllow(w)
  BY <1>8, <1>0 DEF ReplayAllow, Goto, Finish, TypeOK, PC, Job
<1>9. CASE RegisterDevice(w)
  BY <1>9 DEF RegisterDevice, Goto, TypeOK, PC
<1>10. ASSUME NEW v \in Verdict, Decide(w, v)
       PROVE  HoldsDecision(pc'[w], job'[w])
  <2>1. job'[w].trx = job[w].trx /\ job'[w].verdict = v
    BY <1>10, <1>0 DEF Decide, TypeOK, Job
  <2>2. v # "block" => v = "allow"
    BY DEF Verdict
  <2>3. pc'[w] = IF v = "block" THEN "olap" ELSE "mint"
    BY <1>10 DEF Decide, Goto, TypeOK
  <2>4. QED
    BY <1>10, <2>1, <2>2, <2>3, Inserted
<1>11. CASE CannotDecide(w)
  BY <1>11 DEF CannotDecide, Finish, TypeOK, PC
<1>12. CASE MintOk(w)
  BY <1>12, <1>0 DEF MintOk, Goto, Decided, TypeOK, Job
<1>13. CASE MintRefused(w)
  BY <1>13, <1>0 DEF MintRefused, Goto, Decided, TypeOK, Job
<1>14. CASE MintRetry(w)
  BY <1>14, <1>0 DEF MintRetry, Goto, Decided, TypeOK, Job
<1>15. CASE UpdateWeboptin(w)
  BY <1>15, <1>0 DEF UpdateWeboptin, NextAfterRecord, Goto, Finish, RowsKept, Decided, TypeOK
<1>16. CASE WriteEvent(w)
  BY <1>16 DEF WriteEvent, EventOf, Tell, Finish, TypeOK, PC
<1>17. QED
  BY <1>1, <1>2, <1>3, <1>4, <1>5, <1>6, <1>7, <1>8, <1>9, <1>10, <1>11, <1>12,
     <1>13, <1>14, <1>15, <1>16 DEF Step

\* A submission past the lookup or the insert acts on the stored decision.
THEOREM DecidedHolds == Spec => []Decided
<1>1. Init => Decided
  BY DEF Init, Decided
<1>2. TypeOK /\ Decided /\ [Next]_vars => Decided'
  <2> SUFFICES ASSUME TypeOK, Decided, [Next]_vars PROVE Decided'
    OBVIOUS
  <2>1. ASSUME NEW w \in Worker, NEW t \in Trx, NEW c \in Campaign, NEW d \in Device,
               NEW k \in tokens, Receive(w, t, c, d, k)
        PROVE  Decided'
    BY <2>1 DEF Receive, Goto, TypeOK, Decided
  <2>2. ASSUME NEW w \in Worker, Step(w)
        PROVE  Decided'
    <3>1. Framed(w) /\ RowsKept(w) /\ HoldsDecision(pc'[w], job'[w])
      BY <2>2, StepFrame, StepRowsKept, StepHoldsDecision
    <3>2. ASSUME NEW o \in Worker \ {w}, pc'[o] \in {"mint", "record", "olap"}
          PROVE  /\ decisions'[job'[o].trx] # NoRow
                 /\ decisions'[job'[o].trx].verdict = job'[o].verdict
      <4>1. pc'[o] = pc[o] /\ job'[o] = job[o] /\ job[o].trx \in Trx
        BY <3>1, <3>2 DEF Framed, TypeOK, Job
      <4>2. QED
        BY <3>1, <3>2, <4>1 DEF RowsKept, Decided
    <3>3. QED
      BY <3>1, <3>2 DEF Framed, HoldsDecision, Decided
  <2>3. ASSUME NEW w \in Worker, Fail(w)
        PROVE  Decided'
    BY <2>3 DEF Fail, Finish, TypeOK, Decided
  <2>4. QED
    BY <2>1, <2>2, <2>3
       DEF Next, SessionInit, Lapse, SetStatus, Restart, vars, Decided
<1>3. QED
  BY <1>1, <1>2, TypeCorrect, PTL DEF Spec

\* DecisionFinal: no interleaving of replays, races and failures changes a
\* verdict once stored, and a status moves only to minted or failed, of an
\* allow.
THEOREM DecisionsFinal == Spec => DecisionFinal
<1> DEFINE Kept ==
      \A t \in Trx : decisions[t] # NoRow =>
          /\ decisions'[t] # NoRow
          /\ decisions'[t].verdict = decisions[t].verdict
          /\ decisions'[t].camp = decisions[t].camp
          /\ decisions'[t].dev = decisions[t].dev
          /\ \/ decisions'[t].status = decisions[t].status
             \/ decisions[t].verdict = "allow" /\ decisions'[t].status # "na"
<1>1. TypeOK /\ Decided /\ [Next]_vars => [Kept]_vars
  <2> SUFFICES ASSUME TypeOK, Decided, Next PROVE Kept
    OBVIOUS
  <2>1. ASSUME NEW w \in Worker, Step(w)
        PROVE  Kept
    BY <2>1, StepRowsKept DEF RowsKept, Decided
  <2>2. CASE UNCHANGED decisions
    BY <2>2
  <2>3. QED
    BY <2>1, <2>2 DEF Next, SessionInit, Lapse, SetStatus, Receive, Fail, Restart
<1>2. QED
  BY <1>1, TypeCorrect, DecidedHolds, PTL DEF Spec, DecisionFinal

-----------------------------------------------------------------------------
(* Answers and URLs. *)

\* The CP is called only by a submission at its mint.
LEMMA StepUrls ==
    ASSUME TypeOK, NEW w \in Worker, Step(w)
    PROVE  urls' = urls \/ (pc[w] = "mint" /\ urls' = CpHandles(job[w]))
BY DEF Step, Decide, VerifyAndConsume, RefuseToken, ResolveService,
   ResolveCampaign, LoadService, LookupNew, ReplayBlock, ReplayAllow,
   RegisterDevice, CannotDecide, MintOk, MintRefused, MintRetry, UpdateWeboptin,
   WriteEvent

\* An answer told is the one the decision and the mint's result call for.
LEMMA StepAnswers ==
    ASSUME TypeOK, Decided, NEW w \in Worker, Step(w)
    PROVE  \/ answers' = answers
           \/ \E kind \in {"redirect", "unavailable", "block"} :
                 /\ answers' = answers \cup {[trx |-> job[w].trx, kind |-> kind]}
                 /\ decisions[job[w].trx] # NoRow
                 /\ decisions[job[w].trx].verdict = IF kind = "block" THEN "block" ELSE "allow"
                 /\ kind = "redirect" => job[w].status = "minted"
<1>1. CASE ReplayBlock(w)
  BY <1>1 DEF ReplayBlock, Tell
<1>2. CASE UpdateWeboptin(w)
  BY <1>2 DEF UpdateWeboptin, NextAfterRecord, AllowKind, Tell, Decided
<1>3. CASE WriteEvent(w)
  <2>1. /\ job[w].verdict \in Verdict /\ pc[w] = "olap"
        /\ decisions[job[w].trx] # NoRow
        /\ decisions[job[w].trx].verdict = job[w].verdict
    BY <1>3 DEF WriteEvent, Decided, TypeOK, Job
  <2>2. CASE job[w].verdict = "block"
    BY <1>3, <2>1, <2>2 DEF WriteEvent, Tell
  <2>3. CASE job[w].verdict = "allow"
    BY <1>3, <2>1, <2>3 DEF WriteEvent, AllowKind, Tell
  <2>4. QED
    BY <2>1, <2>2, <2>3 DEF Verdict
<1>4. QED
  BY <1>1, <1>2, <1>3 DEF Step, Decide, VerifyAndConsume, RefuseToken,
     ResolveService, ResolveCampaign, LoadService, LookupNew, ReplayAllow,
     RegisterDevice, CannotDecide, MintOk, MintRefused, MintRetry

\* No other step asks for a URL, tells an answer or stores a decision.
LEMMA OthersQuiet ==
    ASSUME [Next]_vars, \A w \in Worker : ~Step(w)
    PROVE  UNCHANGED <<urls, answers, decisions>>
BY DEF Next, SessionInit, Lapse, SetStatus, Receive, Fail, Restart, vars

\* MintOnlyAllowed for every instance: the mint follows the committed allow.
THEOREM MintsOnlyAllowed == Spec => []MintOnlyAllowed
<1>1. Init => MintOnlyAllowed
  BY DEF Init, MintOnlyAllowed
<1>2. TypeOK /\ Decided /\ MintOnlyAllowed /\ [Next]_vars => MintOnlyAllowed'
  <2> SUFFICES ASSUME TypeOK, Decided, MintOnlyAllowed, [Next]_vars
               PROVE  MintOnlyAllowed'
    OBVIOUS
  <2>1. ASSUME NEW w \in Worker, Step(w)
        PROVE  MintOnlyAllowed'
    <3>1. RowsKept(w)
      BY <2>1, StepRowsKept
    <3>2. ASSUME NEW u \in urls
          PROVE  decisions'[u.trx] # NoRow /\ decisions'[u.trx].verdict = "allow"
      <4>1. u.trx \in Trx
        BY DEF TypeOK, Url
      <4>2. QED
        BY <3>1, <4>1 DEF RowsKept, MintOnlyAllowed
    <3>3. CASE pc[w] = "mint" /\ urls' = CpHandles(job[w])
      <4>1. /\ job[w].trx \in Trx
            /\ decisions[job[w].trx] # NoRow
            /\ decisions[job[w].trx].verdict = "allow"
        BY <3>3 DEF Decided, TypeOK, Job
      <4>2. ASSUME NEW u \in urls' \ urls
            PROVE  u.trx = job[w].trx
        BY <3>3 DEF CpHandles
      <4>3. QED
        BY <3>1, <3>2, <4>1, <4>2 DEF RowsKept, MintOnlyAllowed
    <3>4. QED
      BY <2>1, <3>2, <3>3, StepUrls DEF MintOnlyAllowed
  <2>2. CASE \A w \in Worker : ~Step(w)
    BY <2>2, OthersQuiet DEF MintOnlyAllowed
  <2>3. QED
    BY <2>1, <2>2
<1>3. QED
  BY <1>1, <1>2, TypeCorrect, DecidedHolds, PTL DEF Spec

\* AnswersAgree for every instance: repeated and racing submissions of one
\* transaction are all told its one decision.
THEOREM AnswersAlwaysAgree == Spec => []AnswersAgree
<1>1. Init => AnswersAgree
  BY DEF Init, AnswersAgree
<1>2. TypeOK /\ Decided /\ AnswersAgree /\ [Next]_vars => AnswersAgree'
  <2> SUFFICES ASSUME TypeOK, Decided, AnswersAgree, [Next]_vars
               PROVE  AnswersAgree'
    OBVIOUS
  <2>1. ASSUME NEW w \in Worker, Step(w)
        PROVE  AnswersAgree'
    <3>1. RowsKept(w) /\ job[w].trx \in Trx
      BY <2>1, StepRowsKept, StepFrame DEF Framed, TypeOK, Job
    <3>2. ASSUME NEW a \in answers
          PROVE  /\ decisions'[a.trx] # NoRow
                 /\ decisions'[a.trx].verdict = IF a.kind = "block" THEN "block" ELSE "allow"
      <4>1. a.trx \in Trx
        BY DEF TypeOK, Answer
      <4>2. QED
        BY <3>1, <4>1 DEF RowsKept, AnswersAgree
    <3>3. ASSUME NEW kind \in {"redirect", "unavailable", "block"},
                 answers' = answers \cup {[trx |-> job[w].trx, kind |-> kind]},
                 decisions[job[w].trx] # NoRow,
                 decisions[job[w].trx].verdict = IF kind = "block" THEN "block" ELSE "allow"
          PROVE  AnswersAgree'
      <4>1. ASSUME NEW a \in answers' \ answers
            PROVE  a.trx = job[w].trx /\ a.kind = kind
        BY <3>3
      <4>2. QED
        BY <3>1, <3>2, <3>3, <4>1 DEF RowsKept, AnswersAgree
    <3>4. QED
      BY <2>1, <3>2, <3>3, StepAnswers DEF AnswersAgree
  <2>2. CASE \A w \in Worker : ~Step(w)
    BY <2>2, OthersQuiet DEF AnswersAgree
  <2>3. QED
    BY <2>1, <2>2
<1>3. QED
  BY <1>1, <1>2, TypeCorrect, DecidedHolds, PTL DEF Spec

\* DecisionHasSession for every instance: a decision is backed by a spent session
\* of its own transaction and campaign.
THEOREM DecisionsHaveSessions == Spec => []DecisionHasSession
<1>1. Init => DecisionHasSession
  BY DEF Init, DecisionHasSession
<1>2. /\ TypeOK /\ Carried /\ TokenSingleUse /\ DecisionHasSession /\ [Next]_vars
      => DecisionHasSession'
  <2> SUFFICES ASSUME TypeOK, Carried, TokenSingleUse, DecisionHasSession, [Next]_vars
               PROVE  DecisionHasSession'
    OBVIOUS
  <2>1. ASSUME NEW n \in Nonce, NEW t \in Trx, NEW c \in Campaign, SessionInit(n, t, c)
        PROVE  DecisionHasSession'
    BY <2>1 DEF SessionInit, DecisionHasSession
  <2>2. ASSUME NEW n \in Nonce, Lapse(n)
        PROVE  DecisionHasSession'
    BY <2>2 DEF Lapse, DecisionHasSession
  <2>3. ASSUME NEW w \in Worker, Step(w)
        PROVE  DecisionHasSession'
    <3>1. Framed(w) /\ RowsKept(w)
      BY <2>3, StepFrame, StepRowsKept
    <3>2. ASSUME NEW t \in Trx, decisions[t] # NoRow
          PROVE  \E k \in tokens' : k.trx = t /\ k.camp = decisions'[t].camp /\ k.nonce \notin live'
      BY <3>1, <3>2 DEF Framed, RowsKept, DecisionHasSession
    <3>3. ASSUME NEW v \in Verdict, Decide(w, v)
          PROVE  DecisionHasSession'
      <4>1. /\ job[w] \in Job /\ job[w].trx \in Trx
            /\ job[w].tok \in tokens /\ Bound(job[w]) /\ job[w].tok.nonce \notin live
        BY <3>3 DEF Decide, TypeOK, Job, Carried, TokenSingleUse, Admitted
      <4>2. decisions'[job[w].trx].camp = job[w].camp
        BY <3>3, <4>1 DEF Decide, TypeOK
      <4>3. tokens' = tokens /\ live' = live
        BY <3>3 DEF Decide
      <4>4. ASSUME NEW t \in Trx, decisions'[t] # NoRow, t # job[w].trx
            PROVE  decisions[t] # NoRow
        BY <3>3, <4>4, Inserted
      <4>5. QED
        BY <3>2, <4>1, <4>2, <4>3, <4>4 DEF DecisionHasSession, Bound
    <3>4. CASE UpdateWeboptin(w)
      <4>1. ASSUME NEW t \in Trx, decisions[t] = NoRow
            PROVE  decisions'[t] = NoRow
        BY <3>4, <4>1 DEF UpdateWeboptin, SetWeboptin, TypeOK
      <4>2. QED
        BY <3>2, <4>1 DEF DecisionHasSession
    <3>5. CASE UNCHANGED decisions
      BY <3>2, <3>5 DEF DecisionHasSession
    <3>6. QED
      BY <2>3, <3>3, <3>4, <3>5 DEF Step, VerifyAndConsume, RefuseToken,
         ResolveService, ResolveCampaign, LoadService, LookupNew, ReplayBlock,
         ReplayAllow, RegisterDevice, CannotDecide, MintOk, MintRefused,
         MintRetry, WriteEvent
  <2>4. QED
    BY <2>1, <2>2, <2>3
       DEF Next, SetStatus, Receive, Fail, Restart, vars, DecisionHasSession
<1>3. QED
  BY <1>1, <1>2, TypeCorrect, CarriedSigned, TokensSingleUse, PTL DEF Spec

\* Every URL belongs to the submission of the token its request id names.
THEOREM UrlsOwned == Spec => []UrlOwned
<1>1. Init => UrlOwned
  BY DEF Init, UrlOwned
<1>2. TypeOK /\ Carried /\ UrlOwned /\ [Next]_vars => UrlOwned'
  <2> SUFFICES ASSUME TypeOK, Carried, UrlOwned, [Next]_vars
               PROVE  UrlOwned'
    OBVIOUS
  <2>1. tokens \subseteq tokens'
    BY StepFrame, FailFrame
       DEF Framed, Next, SessionInit, Lapse, SetStatus, Receive, Restart, vars
  <2>2. ASSUME NEW w \in Worker, Step(w)
        PROVE  UrlOwned'
    <3>1. CASE pc[w] = "mint" /\ urls' = CpHandles(job[w])
      <4> DEFINE j == job[w]
                 new == [trx |-> j.trx, svc |-> ServiceOf[j.camp], rid |-> RequestId(j)]
      <4>1. j.tok \in tokens /\ j.tok.trx = j.trx /\ j.tok.camp = j.camp
        BY <3>1 DEF Carried, Admitted, Bound
      <4>2. /\ new.rid[1] = j.tok.nonce /\ new.rid[2] = 0
            /\ new.trx = j.trx /\ new.svc = ServiceOf[j.camp]
        BY DEF RequestId
      <4>3. urls' = urls \cup {new}
        BY <3>1 DEF CpHandles
      <4> HIDE DEF new
      <4>4. QED
        BY <2>1, <4>1, <4>2, <4>3 DEF UrlOwned
    <3>2. QED
      BY <2>1, <2>2, <3>1, StepUrls DEF UrlOwned
  <2>3. CASE \A w \in Worker : ~Step(w)
    BY <2>1, <2>3, OthersQuiet DEF UrlOwned
  <2>4. QED
    BY <2>2, <2>3
<1>3. QED
  BY <1>1, <1>2, TypeCorrect, CarriedSigned, PTL DEF Spec

\* OneUrlPerSubmission for every instance: since tokens differ in their nonce
\* and a retry repeats its request id, one submission has one URL.
THEOREM UrlsOnePerSubmission == Spec => []OneUrlPerSubmission
<1>1. TypeOK /\ Sessions /\ UrlOwned => OneUrlPerSubmission
  <2> SUFFICES ASSUME TypeOK, Sessions, UrlOwned,
                      NEW u \in urls, NEW v \in urls, u.rid[1] = v.rid[1]
               PROVE  u = v
    BY DEF OneUrlPerSubmission
  <2>1. /\ u \in Url /\ v \in Url
        /\ u.rid \in Nonce \X Nat /\ v.rid \in Nonce \X Nat
    BY DEF TypeOK, Url, RequestIds
  <2>2. u.rid = v.rid
    BY <2>1 DEF UrlOwned
  <2>3. u.trx = v.trx /\ u.svc = v.svc
    BY DEF UrlOwned, Sessions
  <2>4. QED
    BY <2>1, <2>2, <2>3 DEF Url
<1>2. QED
  BY <1>1, TypeCorrect, SessionsDistinct, UrlsOwned, PTL

-----------------------------------------------------------------------------
(* The promise. *)

\* A submission's mint succeeds only by a URL made out for its transaction.
StatusEarned(w) ==
    pc'[w] # "idle" =>
        \/ job'[w].status = job[w].status
        \/ job'[w].status = "failed"
        \/ urls' = CpHandles(job[w])

LEMMA StepStatus ==
    ASSUME TypeOK, NEW w \in Worker, Step(w)
    PROVE  StatusEarned(w)
<1>1. CASE VerifyAndConsume(w)
  BY <1>1 DEF VerifyAndConsume, Spend, TokenValid, Goto, StatusEarned, TypeOK,
     Job
<1>2. CASE RefuseToken(w)
  BY <1>2 DEF RefuseToken, Finish, StatusEarned, TypeOK, Job
<1>3. CASE ResolveService(w)
  BY <1>3 DEF ResolveService, Goto, Finish, StatusEarned, TypeOK, Job
<1>4. CASE ResolveCampaign(w)
  BY <1>4 DEF ResolveCampaign, Goto, Finish, StatusEarned, TypeOK, Job
<1>5. CASE LoadService(w)
  <2>1. job[w] \in Job /\ job'[w] = [job[w] EXCEPT !.svc = (ServiceOf[job[w].camp] \in active)]
    BY <1>5 DEF LoadService, TypeOK
  <2>2. job'[w].status = job[w].status
    BY <2>1, Zenon DEF Job
  <2>3. QED
    BY <2>2 DEF StatusEarned
<1>6. CASE LookupNew(w)
  BY <1>6 DEF LookupNew, Goto, StatusEarned, TypeOK, Job
<1>7. CASE ReplayBlock(w)
  BY <1>7 DEF ReplayBlock, Tell, Finish, StatusEarned, TypeOK, Job
<1>8. CASE ReplayAllow(w)
  BY <1>8 DEF ReplayAllow, Goto, Finish, StatusEarned, TypeOK, Job
<1>9. CASE RegisterDevice(w)
  BY <1>9 DEF RegisterDevice, Goto, StatusEarned, TypeOK, Job
<1>10. ASSUME NEW v \in Verdict, Decide(w, v)
       PROVE  StatusEarned(w)
  BY <1>10 DEF Decide, InsertAccepted, Goto, StatusEarned, TypeOK, Job
<1>11. CASE CannotDecide(w)
  BY <1>11 DEF CannotDecide, Finish, StatusEarned, TypeOK, Job
<1>12. CASE MintOk(w)
  BY <1>12 DEF MintOk, StatusEarned
<1>13. CASE MintRefused(w)
  BY <1>13 DEF MintRefused, StatusEarned, TypeOK, Job
<1>14. CASE MintRetry(w)
  BY <1>14 DEF MintRetry, StatusEarned, TypeOK, Job
<1>15. CASE UpdateWeboptin(w)
  BY <1>15 DEF UpdateWeboptin, SetWeboptin, NextAfterRecord, Tell, Goto, Finish,
     StatusEarned, TypeOK, Job
<1>16. CASE WriteEvent(w)
  BY <1>16 DEF WriteEvent, EventOf, Tell, Finish, StatusEarned, TypeOK, Job
<1>17. QED
  BY <1>1, <1>2, <1>3, <1>4, <1>5, <1>6, <1>7, <1>8, <1>9, <1>10, <1>11, <1>12,
     <1>13, <1>14, <1>15, <1>16 DEF Step

\* The CP's URLs only accumulate, and a mint adds one of its transaction.
LEMMA StepUrlsGrow ==
    ASSUME TypeOK, NEW w \in Worker, Step(w)
    PROVE  /\ urls \subseteq urls'
           /\ urls' = CpHandles(job[w]) => \E u \in urls' : u.trx = job[w].trx
<1> DEFINE j == job[w]
           new == [trx |-> j.trx, svc |-> ServiceOf[j.camp], rid |-> RequestId(j)]
<1>1. new.trx = job[w].trx /\ CpHandles(job[w]) = urls \cup {new}
  BY DEF CpHandles
<1> HIDE DEF new
<1>2. QED
  BY <1>1, StepUrls

\* A submission that holds the result minted has a URL for its transaction.
THEOREM UrlsBehindResults == Spec => []HasUrl
<1>1. Init => HasUrl
  BY DEF Init, HasUrl
<1>2. TypeOK /\ HasUrl /\ [Next]_vars => HasUrl'
  <2> SUFFICES ASSUME TypeOK, HasUrl, [Next]_vars PROVE HasUrl'
    OBVIOUS
  <2>1. ASSUME NEW w \in Worker, NEW t \in Trx, NEW c \in Campaign, NEW d \in Device,
               NEW k \in tokens, Receive(w, t, c, d, k)
        PROVE  HasUrl'
    BY <2>1 DEF Receive, Goto, TypeOK, HasUrl
  <2>2. ASSUME NEW w \in Worker, Step(w)
        PROVE  HasUrl'
    <3>1. Framed(w) /\ StatusEarned(w) /\ urls \subseteq urls'
      BY <2>2, StepFrame, StepStatus, StepUrlsGrow
    <3>2. ASSUME NEW o \in Worker \ {w}, pc'[o] # "idle", job'[o].status = "minted"
          PROVE  \E u \in urls' : u.trx = job'[o].trx
      BY <3>1, <3>2 DEF Framed, HasUrl
    <3>3. ASSUME pc'[w] # "idle", job'[w].status = "minted"
          PROVE  \E u \in urls' : u.trx = job'[w].trx
      <4>1. pc[w] # "idle" /\ job'[w].trx = job[w].trx
        BY <3>1, <3>3 DEF Framed, SameBody
      <4>2. CASE job[w].status = "minted"
        BY <3>1, <4>1, <4>2 DEF HasUrl
      <4>3. CASE urls' = CpHandles(job[w])
        BY <2>2, <4>1, <4>3, StepUrlsGrow
      <4>4. QED
        BY <3>1, <3>3, <4>2, <4>3 DEF StatusEarned
    <3>4. QED
      BY <3>2, <3>3 DEF HasUrl
  <2>3. ASSUME NEW w \in Worker, Fail(w)
        PROVE  HasUrl'
    BY <2>3 DEF Fail, Finish, TypeOK, HasUrl
  <2>4. QED
    BY <2>1, <2>2, <2>3 DEF Next, SessionInit, Lapse, SetStatus, Restart, vars, HasUrl
<1>3. QED
  BY <1>1, <1>2, TypeCorrect, PTL DEF Spec

\* Decide maps to the abstract decision.
LEMMA DecidePromise ==
    ASSUME TypeOK, NEW w \in Worker, NEW v \in Verdict, Decide(w, v)
    PROVE  Promise!Next
<1>1. PICK t \in Trx : t = job[w].trx
  BY DEF Decide, TypeOK, Job
<1>2. VerdictOf(t) = "none" /\ v \in {"allow", "block"}
  BY <1>1 DEF Decide, InsertAccepted, VerdictOf, Verdict
<1>3. decisions'[t] # NoRow /\ decisions'[t].verdict = v
  BY <1>1, Inserted
<1>4. \A o \in Trx \ {t} : decisions'[o] = decisions[o]
  BY <1>1, Inserted
<1>5. [o \in Trx |-> VerdictOf(o)]' = [[o \in Trx |-> VerdictOf(o)] EXCEPT ![t] = v]
  BY <1>3, <1>4 DEF VerdictOf
<1>6. UNCHANGED <<urls, answers>>
  BY DEF Decide
<1>7. QED
  BY <1>2, <1>5, <1>6 DEF Promise!Next, Promise!Decide

\* A call the CP handles maps to the abstract mint.
LEMMA MintPromise ==
    ASSUME TypeOK, Decided, NEW w \in Worker, pc[w] = "mint",
           urls' = CpHandles(job[w]), UNCHANGED <<decisions, answers>>
    PROVE  Promise!Next
<1>1. PICK t \in Trx : t = job[w].trx
  BY DEF TypeOK, Job
<1>2. VerdictOf(t) = "allow"
  BY <1>1 DEF Decided, VerdictOf
<1>3. {u.trx : u \in urls'} = {u.trx : u \in urls} \cup {t}
  <2> DEFINE j == job[w]
             new == [trx |-> j.trx, svc |-> ServiceOf[j.camp], rid |-> RequestId(j)]
  <2>1. new.trx = t /\ urls' = urls \cup {new}
    BY <1>1 DEF CpHandles
  <2> HIDE DEF new
  <2>2. QED
    BY <2>1
<1>4. UNCHANGED [o \in Trx |-> VerdictOf(o)]
  BY DEF VerdictOf
<1>5. QED
  BY <1>2, <1>3, <1>4 DEF Promise!Next, Promise!Mint

\* An answer told maps to the abstract answer.
LEMMA TellPromise ==
    ASSUME TypeOK, Decided, HasUrl, NEW w \in Worker, Step(w),
           UNCHANGED urls, \A o \in Trx : VerdictOf(o)' = VerdictOf(o)
    PROVE  [Promise!Next]_(Promise!vars)
<1>1. CASE UNCHANGED answers
  BY <1>1 DEF Promise!vars
<1>2. ASSUME NEW kind \in {"redirect", "unavailable", "block"},
             answers' = answers \cup {[trx |-> job[w].trx, kind |-> kind]},
             decisions[job[w].trx] # NoRow,
             decisions[job[w].trx].verdict = IF kind = "block" THEN "block" ELSE "allow",
             kind = "redirect" => job[w].status = "minted"
      PROVE  Promise!Next
  <2>1. pc[w] # "idle" /\ job[w].trx \in Trx
    BY StepFrame DEF Framed, TypeOK, Job
  <2>2. PICK t \in Trx : t = job[w].trx
    BY <2>1
  <2>3. VerdictOf(t) = IF kind = "block" THEN "block" ELSE "allow"
    BY <1>2, <2>2 DEF VerdictOf
  <2>4. kind = "redirect" => t \in {u.trx : u \in urls}
    BY <1>2, <2>1, <2>2 DEF HasUrl
  <2>5. answers' = answers \cup {[trx |-> t, kind |-> kind]}
    BY <1>2, <2>2
  <2>6. UNCHANGED <<[o \in Trx |-> VerdictOf(o)], {u.trx : u \in urls}>>
    OBVIOUS
  <2>7. QED
    BY <2>3, <2>4, <2>5, <2>6
       DEF Promise!Next, Promise!Tell, Promise!TellBlock, Promise!TellRedirect,
           Promise!TellUnavailable
<1>3. QED
  BY <1>1, <1>2, StepAnswers

\* Every step of the API is a step TrxVerdict allows, or none of its own.
LEMMA StepPromise ==
    ASSUME TypeOK, Decided, HasUrl, NEW w \in Worker, Step(w)
    PROVE  [Promise!Next]_(Promise!vars)
<1>1. ASSUME NEW v \in Verdict, Decide(w, v)
      PROVE  Promise!Next
  BY <1>1, DecidePromise
<1>2. CASE MintOk(w) \/ MintRefused(w) \/ MintRetry(w)
  <2>1. pc[w] = "mint" /\ UNCHANGED <<decisions, answers>>
    BY <1>2 DEF MintOk, MintRefused, MintRetry
  <2>2. CASE urls' = urls
    BY <2>1, <2>2 DEF Promise!vars, VerdictOf
  <2>3. CASE urls' = CpHandles(job[w])
    BY <2>1, <2>3, MintPromise
  <2>4. QED
    BY <1>2, <2>2, <2>3 DEF MintOk, MintRefused, MintRetry
<1>3. CASE UpdateWeboptin(w)
  <2>1. UNCHANGED urls
    BY <1>3 DEF UpdateWeboptin
  <2>2. \A o \in Trx : VerdictOf(o)' = VerdictOf(o)
    <3>1. ASSUME NEW o \in Trx, decisions[o] = NoRow
          PROVE  decisions'[o] = NoRow
      BY <1>3, <3>1 DEF UpdateWeboptin, SetWeboptin, TypeOK
    <3>2. QED
      BY <3>1, StepRowsKept DEF RowsKept, VerdictOf
  <2>3. QED
    BY <2>1, <2>2, TellPromise
<1>4. CASE UNCHANGED <<urls, decisions>>
  BY <1>4, TellPromise DEF VerdictOf
<1>5. QED
  BY <1>1, <1>2, <1>3, <1>4 DEF Step, VerifyAndConsume, RefuseToken,
     ResolveService, ResolveCampaign, LoadService, LookupNew, ReplayBlock,
     ReplayAllow, RegisterDevice, CannotDecide, WriteEvent

\* KeepsPromise: the interleaved, failing API implements TrxVerdict for every
\* set of transactions, sessions and threads.
THEOREM PromiseKept == Spec => KeepsPromise
<1>1. Init => Promise!Init
  BY DEF Init, Promise!Init, VerdictOf
<1>2. TypeOK /\ Decided /\ HasUrl /\ [Next]_vars => [Promise!Next]_(Promise!vars)
  <2> SUFFICES ASSUME TypeOK, Decided, HasUrl, [Next]_vars
               PROVE  [Promise!Next]_(Promise!vars)
    OBVIOUS
  <2>1. ASSUME NEW w \in Worker, Step(w)
        PROVE  [Promise!Next]_(Promise!vars)
    BY <2>1, StepPromise
  <2>2. CASE \A w \in Worker : ~Step(w)
    BY <2>2, OthersQuiet DEF Promise!vars, VerdictOf
  <2>3. QED
    BY <2>1, <2>2
<1>3. QED
  BY <1>1, <1>2, TypeCorrect, DecidedHolds, UrlsBehindResults, PTL
     DEF Spec, KeepsPromise, Promise!Spec

-----------------------------------------------------------------------------
(* Statuses, events and the device's count. *)

\* A row that appears is the one its decider inserts, not yet minted.
LEMMA StepInserts ==
    ASSUME TypeOK, NEW w \in Worker, Step(w), NEW t \in Trx,
           decisions[t] = NoRow, decisions'[t] # NoRow
    PROVE  /\ pc[w] = "decide"
           /\ t = job[w].trx
           /\ decisions'[t].status = "na"
           /\ decisions'[t].dev = job[w].dev
<1>1. ASSUME NEW v \in Verdict, Decide(w, v)
      PROVE  /\ pc[w] = "decide"
             /\ t = job[w].trx
             /\ decisions'[t].status = "na"
             /\ decisions'[t].dev = job[w].dev
  <2> DEFINE row == [verdict |-> v, camp |-> job[w].camp, dev |-> job[w].dev,
                     status |-> "na"]
  <2>1. pc[w] = "decide" /\ decisions' = [decisions EXCEPT ![job[w].trx] = row]
    BY <1>1 DEF Decide
  <2>2. row.status = "na" /\ row.dev = job[w].dev
    OBVIOUS
  <2> HIDE DEF row
  <2>3. QED
    BY <2>1, <2>2 DEF TypeOK
<1>2. CASE UpdateWeboptin(w)
  BY <1>2 DEF UpdateWeboptin, SetWeboptin, TypeOK
<1>3. CASE UNCHANGED decisions
  BY <1>3
<1>4. QED
  BY <1>1, <1>2, <1>3
     DEF Step, VerifyAndConsume, RefuseToken, ResolveService, ResolveCampaign,
         LoadService, LookupNew, ReplayBlock, ReplayAllow, RegisterDevice,
         CannotDecide, MintOk, MintRefused, MintRetry, WriteEvent

\* MintedIsReal for every instance: behind a redirect told and a status
\* minted there is a URL of the transaction (weboptin_status is set only
\* after a mint that succeeded).
THEOREM MintsAreReal == Spec => []MintedIsReal
<1>1. Init => MintedIsReal
  BY DEF Init, MintedIsReal
<1>2. TypeOK /\ Decided /\ HasUrl /\ MintedIsReal /\ [Next]_vars => MintedIsReal'
  <2> SUFFICES ASSUME TypeOK, Decided, HasUrl, MintedIsReal, [Next]_vars
               PROVE  MintedIsReal'
    OBVIOUS
  <2>1. ASSUME NEW w \in Worker, Step(w)
        PROVE  MintedIsReal'
    <3>1. /\ pc[w] # "idle" /\ RowsKept(w)
          /\ \A u \in urls : u \in urls'
      BY <2>1, StepFrame, StepRowsKept, StepUrlsGrow DEF Framed
    <3>2. job[w].status = "minted" => \E u \in urls' : u.trx = job[w].trx
      BY <3>1 DEF HasUrl
    <3>3. ASSUME NEW a \in answers', a.kind = "redirect"
          PROVE  \E u \in urls' : u.trx = a.trx
      <4>1. CASE a \in answers
        BY <3>1, <3>3, <4>1 DEF MintedIsReal
      <4>2. CASE a \notin answers
        <5>1. PICK kind \in {"redirect", "unavailable", "block"} :
                 /\ answers' = answers \cup {[trx |-> job[w].trx, kind |-> kind]}
                 /\ kind = "redirect" => job[w].status = "minted"
          BY <2>1, <3>3, <4>2, StepAnswers
        <5>2. a.kind = kind /\ a.trx = job[w].trx
          BY <3>3, <4>2, <5>1
        <5>3. QED
          BY <3>2, <3>3, <5>1, <5>2
      <4>3. QED
        BY <4>1, <4>2
    <3>4. ASSUME NEW t \in Trx, decisions'[t] # NoRow, decisions'[t].status = "minted"
          PROVE  \E u \in urls' : u.trx = t
      <4>1. decisions[t] # NoRow
        BY <2>1, <3>4, StepInserts
      <4>2. \/ decisions[t].status = "minted"
            \/ t = job[w].trx /\ job[w].status = "minted"
        BY <3>1, <3>4, <4>1 DEF RowsKept
      <4>3. QED
        BY <3>1, <3>2, <4>1, <4>2 DEF MintedIsReal
    <3>5. QED
      BY <3>3, <3>4 DEF MintedIsReal
  <2>2. CASE \A w \in Worker : ~Step(w)
    BY <2>2, OthersQuiet DEF MintedIsReal
  <2>3. QED
    BY <2>1, <2>2
<1>3. QED
  BY <1>1, <1>2, TypeCorrect, DecidedHolds, UrlsBehindResults, PTL DEF Spec

\* An event stored repeats the stored decision.
EventsDecided ==
    \A e \in olap : /\ e.trx \in Trx
                    /\ decisions[e.trx] # NoRow
                    /\ decisions[e.trx].verdict = e.verdict

\* Only a submission that wrote no event yet is a decider, and it became one
\* by inserting the row.
StaysDecider(w) ==
    pc'[w] # "idle" =>
        /\ job'[w].fresh => pc'[w] \in {"mint", "record", "olap"}
        /\ pc'[w] = "olap" => job'[w].fresh
        /\ job'[w].fresh => job[w].fresh \/ decisions[job[w].trx] = NoRow

LEMMA StepDecider ==
    ASSUME TypeOK, OneDecider, NEW w \in Worker, Step(w)
    PROVE  StaysDecider(w)
<1> USE DEF StaysDecider
<1>0. /\ job[w] \in Job /\ pc[w] # "idle"
      /\ job[w].fresh => pc[w] \in {"mint", "record", "olap"}
  BY StepFrame DEF Framed, TypeOK, OneDecider, Deciders
<1>1. CASE VerifyAndConsume(w)
  BY <1>0, <1>1 DEF VerifyAndConsume, Goto, TypeOK
<1>2. CASE RefuseToken(w)
  BY <1>2 DEF RefuseToken, Finish, TypeOK
<1>3. CASE ResolveService(w)
  BY <1>0, <1>3 DEF ResolveService, Goto, Finish, TypeOK
<1>4. CASE ResolveCampaign(w)
  BY <1>0, <1>4 DEF ResolveCampaign, Goto, Finish, TypeOK
<1>5. CASE LoadService(w)
  <2>1. /\ job'[w] = [job[w] EXCEPT !.svc = (ServiceOf[job[w].camp] \in active)]
        /\ pc'[w] = "lookup" /\ pc[w] = "service"
    BY <1>5 DEF LoadService, Goto, TypeOK
  <2>2. job'[w].fresh = job[w].fresh
    BY <1>0, <2>1, Zenon DEF Job
  <2>3. QED
    BY <1>0, <2>1, <2>2
<1>6. CASE LookupNew(w)
  BY <1>0, <1>6 DEF LookupNew, Goto, TypeOK
<1>7. CASE ReplayBlock(w)
  BY <1>7 DEF ReplayBlock, Finish, TypeOK
<1>8. CASE ReplayAllow(w)
  BY <1>0, <1>8 DEF ReplayAllow, Goto, Finish, TypeOK, Job
<1>9. CASE RegisterDevice(w)
  BY <1>0, <1>9 DEF RegisterDevice, Goto, TypeOK
<1>10. ASSUME NEW v \in Verdict, Decide(w, v)
       PROVE  StaysDecider(w)
  <2>1. /\ decisions[job[w].trx] = NoRow
        /\ pc'[w] \in {"mint", "olap"}
        /\ job'[w] = [job[w] EXCEPT !.fresh = TRUE, !.verdict = v]
    BY <1>10 DEF Decide, InsertAccepted, Goto, TypeOK
  <2>2. job'[w].fresh = TRUE
    BY <1>0, <2>1 DEF Job
  <2>3. QED
    BY <2>1, <2>2
<1>11. CASE CannotDecide(w)
  BY <1>11 DEF CannotDecide, Finish, TypeOK
<1>12. CASE MintOk(w)
  BY <1>0, <1>12 DEF MintOk, Goto, TypeOK, Job
<1>13. CASE MintRefused(w)
  BY <1>0, <1>13 DEF MintRefused, Goto, TypeOK, Job
<1>14. CASE MintRetry(w)
  BY <1>0, <1>14 DEF MintRetry, Goto, TypeOK, Job
<1>15. CASE UpdateWeboptin(w)
  BY <1>0, <1>15 DEF UpdateWeboptin, NextAfterRecord, Goto, Finish, TypeOK
<1>16. CASE WriteEvent(w)
  BY <1>16 DEF WriteEvent, Finish, TypeOK
<1>17. QED
  BY <1>1, <1>2, <1>3, <1>4, <1>5, <1>6, <1>7, <1>8, <1>9, <1>10, <1>11, <1>12,
     <1>13, <1>14, <1>15, <1>16 DEF Step

\* A step stores no event, or the last one of its submission, which ends.
Writes(w) ==
    \/ olap' = olap
    \/ /\ pc[w] = "olap" /\ pc'[w] = "idle"
       /\ \A e \in olap' : e \in olap \/ e \in {EventOf(w, tab) : tab \in Table}

LEMMA StepWrites ==
    ASSUME TypeOK, NEW w \in Worker, Step(w)
    PROVE  Writes(w)
<1>1. CASE WriteEvent(w)
  BY <1>1 DEF WriteEvent, Finish, Writes, TypeOK
<1>2. CASE UNCHANGED olap
  BY <1>2 DEF Writes
<1>3. QED
  BY <1>1, <1>2
     DEF Step, Decide, VerifyAndConsume, RefuseToken, ResolveService,
         ResolveCampaign, LoadService, LookupNew, ReplayBlock, ReplayAllow,
         RegisterDevice, CannotDecide, MintOk, MintRefused, MintRetry,
         UpdateWeboptin

\* The fields of an event are those of its submission.
LEMMA EventFields ==
    ASSUME NEW w, NEW tab, NEW e, e = EventOf(w, tab)
    PROVE  /\ e.table = tab /\ e.trx = job[w].trx /\ e.nonce = job[w].tok.nonce
           /\ e.verdict = job[w].verdict /\ e.status = job[w].status
BY DEF EventOf

\* What a step keeps of OneDecider and EventsDecided.
LEMMA StepOneDecider ==
    ASSUME TypeOK, Decided, OneDecider, EventsDecided, NEW w \in Worker, Step(w)
    PROVE  OneDecider' /\ EventsDecided'
<1>1. /\ StaysDecider(w) /\ Writes(w) /\ Framed(w) /\ RowsKept(w)
      /\ pc[w] # "idle" /\ job[w] \in Job /\ job[w].trx \in Trx
  BY StepDecider, StepWrites, StepFrame, StepRowsKept DEF Framed, TypeOK, Job
<1>2. ASSUME NEW o \in Worker \ {w}
      PROVE  pc'[o] = pc[o] /\ job'[o] = job[o]
  BY <1>1 DEF Framed
<1>3. pc'[w] # "idle" => job'[w].trx = job[w].trx
  BY <1>1 DEF Framed, SameBody
\* Two deciders of a transaction: only w may be new, and then no row was
\* stored for the other one to act on.
<1>4. ASSUME NEW o \in Worker \ {w}, pc[o] # "idle", job[o].fresh,
             pc'[w] # "idle", job'[w].fresh
      PROVE  job[o].trx # job[w].trx
  <2>1. o \in Deciders /\ pc[o] \in {"mint", "record", "olap"}
    BY <1>4 DEF OneDecider, Deciders
  <2>2. decisions[job[o].trx] # NoRow
    BY <2>1 DEF Decided
  <2>3. CASE job[w].fresh
    BY <1>1, <2>1, <2>3 DEF OneDecider, Deciders
  <2>4. CASE decisions[job[w].trx] = NoRow
    BY <2>2, <2>4
  <2>5. QED
    BY <1>1, <1>4, <2>3, <2>4 DEF StaysDecider
\* What is written is the event of a decider that has none.
<1>5. ASSUME NEW e \in olap', e \notin olap
      PROVE  /\ pc[w] = "olap" /\ pc'[w] = "idle" /\ w \in Deciders
             /\ e.trx = job[w].trx /\ e.nonce = job[w].tok.nonce
             /\ e.verdict = job[w].verdict /\ e.status = job[w].status
  <2>1. /\ pc[w] = "olap" /\ pc'[w] = "idle"
        /\ e \in {EventOf(w, tab) : tab \in Table}
    BY <1>1, <1>5 DEF Writes
  <2>2. PICK tab \in Table : e = EventOf(w, tab)
    BY <2>1
  <2>3. QED
    BY <2>1, <2>2, EventFields DEF OneDecider
<1>6. ASSUME NEW o \in Worker, pc'[o] # "idle", job'[o].fresh
      PROVE  pc'[o] \in {"mint", "record", "olap"}
  <2>1. CASE o = w
    BY <1>1, <1>6, <2>1 DEF StaysDecider
  <2>2. CASE o # w
    BY <1>2, <1>6, <2>2 DEF OneDecider, Deciders
  <2>3. QED
    BY <2>1, <2>2
<1>7. ASSUME NEW o \in Worker, pc'[o] = "olap"
      PROVE  job'[o].fresh
  <2>1. CASE o = w
    BY <1>1, <1>7, <2>1 DEF StaysDecider
  <2>2. CASE o # w
    BY <1>2, <1>7, <2>2 DEF OneDecider, Deciders
  <2>3. QED
    BY <2>1, <2>2
<1>8. ASSUME NEW o \in Worker, NEW q \in Worker, pc'[o] # "idle", job'[o].fresh,
             pc'[q] # "idle", job'[q].fresh, job'[o].trx = job'[q].trx
      PROVE  o = q
  <2>1. CASE o # w /\ q # w
    BY <1>2, <1>8, <2>1 DEF OneDecider, Deciders
  <2>2. CASE o = w /\ q # w
    BY <1>2, <1>3, <1>4, <1>8, <2>2
  <2>3. CASE o # w /\ q = w
    BY <1>2, <1>3, <1>4, <1>8, <2>3
  <2>4. QED
    BY <2>1, <2>2, <2>3
<1>9. ASSUME NEW o \in Worker, pc'[o] # "idle", job'[o].fresh, NEW e \in olap'
      PROVE  e.trx # job'[o].trx
  <2>1. CASE e \notin olap
    <3>1. o # w /\ o \in Deciders
      BY <1>2, <1>5, <1>9, <2>1 DEF Deciders
    <3>2. QED
      BY <1>2, <1>5, <2>1, <3>1 DEF OneDecider
  <2>2. CASE e \in olap /\ o # w
    BY <1>2, <1>9, <2>2 DEF OneDecider, Deciders
  <2>3. CASE e \in olap /\ o = w /\ job[w].fresh
    BY <1>1, <1>3, <1>9, <2>3 DEF OneDecider, Deciders
  <2>4. CASE e \in olap /\ o = w /\ decisions[job[w].trx] = NoRow
    BY <1>3, <1>9, <2>4 DEF EventsDecided
  <2>5. QED
    BY <1>1, <1>9, <2>1, <2>2, <2>3, <2>4 DEF StaysDecider
<1>10. ASSUME NEW e \in olap', NEW f \in olap', e.trx = f.trx
       PROVE  e.nonce = f.nonce /\ e.verdict = f.verdict /\ e.status = f.status
  <2>1. CASE e \in olap /\ f \in olap
    BY <1>10, <2>1 DEF OneDecider
  <2>2. CASE e \notin olap /\ f \notin olap
    BY <1>5, <2>2
  <2>3. CASE e \in olap /\ f \notin olap
    BY <1>5, <1>10, <2>3 DEF OneDecider
  <2>4. CASE e \notin olap /\ f \in olap
    BY <1>5, <1>10, <2>4 DEF OneDecider
  <2>5. QED
    BY <2>1, <2>2, <2>3, <2>4
<1>11. OneDecider'
  BY <1>6, <1>7, <1>8, <1>9, <1>10 DEF OneDecider, Deciders
<1>12. ASSUME NEW e \in olap'
       PROVE  /\ e.trx \in Trx
              /\ decisions'[e.trx] # NoRow
              /\ decisions'[e.trx].verdict = e.verdict
  <2>1. CASE e \in olap
    BY <1>1, <2>1 DEF EventsDecided, RowsKept
  <2>2. CASE e \notin olap
    <3>1. decisions[job[w].trx] # NoRow /\ decisions[job[w].trx].verdict = job[w].verdict
      BY <1>5, <2>2 DEF Decided
    <3>2. QED
      BY <1>1, <1>5, <2>2, <3>1 DEF RowsKept
  <2>3. QED
    BY <2>1, <2>2
<1>13. QED
  BY <1>11, <1>12 DEF EventsDecided

LEMMA OneDeciderHolds == Spec => [](OneDecider /\ EventsDecided)
<1>1. Init => OneDecider /\ EventsDecided
  BY DEF Init, OneDecider, Deciders, EventsDecided
<1>2. /\ TypeOK /\ Decided /\ OneDecider /\ EventsDecided /\ [Next]_vars
      => OneDecider' /\ EventsDecided'
  <2> SUFFICES ASSUME TypeOK, Decided, OneDecider, EventsDecided, [Next]_vars
               PROVE  OneDecider' /\ EventsDecided'
    OBVIOUS
  <2>1. ASSUME NEW w \in Worker, Step(w)
        PROVE  OneDecider' /\ EventsDecided'
    BY <2>1, StepOneDecider
  \* Whatever else happens starts, ends or leaves submissions alone.
  <2>2. ASSUME UNCHANGED <<decisions, olap>>,
               \A o \in Worker : \/ pc'[o] = pc[o] /\ job'[o] = job[o]
                                 \/ pc'[o] = "idle"
                                 \/ pc'[o] = "verify" /\ job'[o].fresh = FALSE
        PROVE  OneDecider' /\ EventsDecided'
    <3>1. ASSUME NEW o \in Worker, pc'[o] # "idle", job'[o].fresh \/ pc'[o] = "olap"
          PROVE  pc'[o] = pc[o] /\ job'[o] = job[o]
      BY <2>2, <3>1
    <3>2. QED
      BY <2>2, <3>1 DEF OneDecider, Deciders, EventsDecided
  <2>3. ASSUME NEW w \in Worker, NEW t \in Trx, NEW c \in Campaign, NEW d \in Device,
               NEW k \in tokens, Receive(w, t, c, d, k)
        PROVE  OneDecider' /\ EventsDecided'
    <3>1. pc'[w] = "verify" /\ job'[w].fresh = FALSE
      BY <2>3 DEF Receive, Goto, TypeOK
    <3>2. QED
      BY <2>2, <2>3, <3>1 DEF Receive, Goto, TypeOK
  <2>4. ASSUME NEW w \in Worker, Fail(w)
        PROVE  OneDecider' /\ EventsDecided'
    BY <2>2, <2>4 DEF Fail, Finish, TypeOK
  <2>5. QED
    BY <2>1, <2>2, <2>3, <2>4 DEF Next, SessionInit, Lapse, SetStatus, Restart, vars
<1>3. QED
  BY <1>1, <1>2, TypeCorrect, DecidedHolds, PTL DEF Spec

\* OneEventPerTrx for every instance: of racing, repeated and failing
\* submissions one writes a transaction's event, with the stored verdict
\* (write_event follows the INSERT that succeeded).
THEOREM EventsOnePerTrx == Spec => []OneEventPerTrx
<1>1. TypeOK /\ OneDecider /\ EventsDecided => OneEventPerTrx
  <2> SUFFICES ASSUME TypeOK, OneDecider, EventsDecided PROVE OneEventPerTrx
    OBVIOUS
  <2>1. ASSUME NEW e \in olap, NEW f \in olap, e.table = f.table, e.trx = f.trx
        PROVE  e = f
    <3>1. e.nonce = f.nonce /\ e.verdict = f.verdict /\ e.status = f.status
      BY <2>1 DEF OneDecider
    <3>2. e \in Event /\ f \in Event
      BY DEF TypeOK
    <3>3. QED
      BY <2>1, <3>1, <3>2 DEF Event
  <2>2. QED
    BY <2>1 DEF OneEventPerTrx, EventsDecided
<1>2. QED
  BY <1>1, OneDeciderHolds, TypeCorrect, PTL

\* The strengthening behind the safety properties, taken together.
THEOREM Inductive == Spec => []IndInv
BY SessionsDistinct, CarriedSigned, DecidedHolds, UrlsBehindResults, UrlsOwned,
   OneDeciderHolds, PTL DEF IndInv

-----------------------------------------------------------------------------
(* The device's count. *)

\* The decisions about a device, and the submissions that have counted it and
\* not decided yet.
DecidedOf(d) == {t \in Trx : decisions[t] # NoRow /\ decisions[t].dev = d}
Pending(d) == {w \in Worker : pc[w] = "decide" /\ job[w].dev = d}

\* Every decision, made or pending, has been counted.
AllCounted ==
    \A d \in Device :
        /\ IsFiniteSet(DecidedOf(d)) /\ IsFiniteSet(Pending(d))
        /\ Cardinality(DecidedOf(d)) + Cardinality(Pending(d)) <= hits[d]

\* Smaller sets, an element that moves from the second to the first, and one
\* that joins the second keep the sum within its bound.
LEMMA SumKept ==
    ASSUME NEW A, NEW B, IsFiniteSet(A), IsFiniteSet(B), NEW n \in Nat,
           Cardinality(A) + Cardinality(B) <= n,
           NEW C, NEW D, C \subseteq A, D \subseteq B
    PROVE  /\ IsFiniteSet(C) /\ IsFiniteSet(D)
           /\ Cardinality(C) + Cardinality(D) <= n
BY FS_Subset, FS_CardinalityType

LEMMA SumMoved ==
    ASSUME NEW A, NEW B, IsFiniteSet(A), IsFiniteSet(B), NEW n \in Nat,
           Cardinality(A) + Cardinality(B) <= n, NEW x, NEW y, y \in B,
           NEW C, NEW D, C \subseteq A \cup {x}, D \subseteq B \ {y}
    PROVE  /\ IsFiniteSet(C) /\ IsFiniteSet(D)
           /\ Cardinality(C) + Cardinality(D) <= n
<1>1. /\ IsFiniteSet(A \cup {x}) /\ IsFiniteSet(B \ {y})
      /\ Cardinality(A \cup {x}) <= Cardinality(A) + 1
      /\ Cardinality(B \ {y}) = Cardinality(B) - 1
      /\ Cardinality(A) \in Nat /\ Cardinality(B) \in Nat
      /\ Cardinality(A \cup {x}) \in Nat /\ Cardinality(B \ {y}) \in Nat
  BY FS_AddElement, FS_RemoveElement, FS_CardinalityType
<1>2. Cardinality(A \cup {x}) + Cardinality(B \ {y}) <= n
  BY <1>1
<1>3. QED
  BY <1>1, <1>2, SumKept

LEMMA SumJoined ==
    ASSUME NEW A, NEW B, IsFiniteSet(A), IsFiniteSet(B), NEW n \in Nat,
           Cardinality(A) + Cardinality(B) <= n, NEW y,
           NEW C, NEW D, C \subseteq A, D \subseteq B \cup {y}
    PROVE  /\ IsFiniteSet(C) /\ IsFiniteSet(D)
           /\ Cardinality(C) + Cardinality(D) <= n + 1
<1>1. /\ IsFiniteSet(B \cup {y})
      /\ Cardinality(A) \in Nat /\ Cardinality(B) \in Nat
      /\ Cardinality(B \cup {y}) \in Nat
      /\ Cardinality(B \cup {y}) <= Cardinality(B) + 1
  <2>1. /\ IsFiniteSet(B \cup {y})
        /\ Cardinality(B \cup {y}) = IF y \in B THEN Cardinality(B) ELSE Cardinality(B) + 1
    BY FS_AddElement
  <2>2. /\ Cardinality(A) \in Nat /\ Cardinality(B) \in Nat
        /\ Cardinality(B \cup {y}) \in Nat
    BY <2>1, FS_CardinalityType
  <2>3. QED
    BY <2>1, <2>2
<1>2. Cardinality(A) + Cardinality(B \cup {y}) <= n + 1 /\ n + 1 \in Nat
  BY <1>1
<1>3. QED
  BY <1>1, <1>2, SumKept

\* A device's decisions grow only by the step that ends a pending one.
LEMMA DecidedGrows ==
    ASSUME TypeOK, NEW w \in Worker, Step(w), NEW d \in Device
    PROVE  /\ pc[w] = "decide" /\ job[w].dev = d
                => DecidedOf(d)' \subseteq DecidedOf(d) \cup {job[w].trx}
           /\ ~(pc[w] = "decide" /\ job[w].dev = d)
                => DecidedOf(d)' \subseteq DecidedOf(d)
<1>1. ASSUME NEW t \in Trx, decisions'[t] # NoRow, decisions'[t].dev = d
      PROVE  \/ t \in DecidedOf(d)
             \/ pc[w] = "decide" /\ job[w].dev = d /\ t = job[w].trx
  <2>1. CASE decisions[t] # NoRow
    BY <1>1, <2>1, StepRowsKept DEF RowsKept, DecidedOf
  <2>2. CASE decisions[t] = NoRow
    BY <1>1, <2>2, StepInserts
  <2>3. QED
    BY <2>1, <2>2
<1>2. QED
  BY <1>1 DEF DecidedOf

\* A submission becomes pending by counting its device, and no longer is
\* after the step at decide.
LEMMA StepCounts ==
    ASSUME TypeOK, NEW w \in Worker, Step(w)
    PROVE  \/ /\ pc[w] = "device" /\ job[w].dev \in Device
              /\ hits' = [hits EXCEPT ![job[w].dev] = hits[job[w].dev] + 1]
              /\ job' = job
           \/ hits' = hits /\ pc'[w] # "decide"
<1>1. CASE RegisterDevice(w)
  BY <1>1 DEF RegisterDevice, EventCount, TypeOK, Job
<1>2. CASE LookupNew(w) \/ LoadService(w)
  BY <1>2 DEF LookupNew, LoadService, Goto, TypeOK
<1>3. CASE VerifyAndConsume(w) \/ RefuseToken(w) \/ ResolveService(w) \/ ResolveCampaign(w)
  BY <1>3 DEF VerifyAndConsume, RefuseToken, ResolveService, ResolveCampaign,
     Goto, Finish, TypeOK
<1>4. CASE ReplayBlock(w) \/ ReplayAllow(w) \/ CannotDecide(w) \/ WriteEvent(w)
  BY <1>4 DEF ReplayBlock, ReplayAllow, CannotDecide, WriteEvent, Goto, Finish, TypeOK
<1>5. ASSUME NEW v \in Verdict, Decide(w, v)
      PROVE  hits' = hits /\ pc'[w] # "decide"
  BY <1>5 DEF Decide, Goto, TypeOK
<1>6. CASE MintOk(w) \/ MintRefused(w) \/ MintRetry(w) \/ UpdateWeboptin(w)
  BY <1>6 DEF MintOk, MintRefused, MintRetry, UpdateWeboptin, NextAfterRecord,
     Goto, Finish, TypeOK
<1>7. QED
  BY <1>1, <1>2, <1>3, <1>4, <1>5, <1>6 DEF Step

LEMMA StepAllCounted ==
    ASSUME TypeOK, AllCounted, NEW w \in Worker, Step(w)
    PROVE  AllCounted'
<1>1. SUFFICES ASSUME NEW d \in Device
               PROVE  /\ IsFiniteSet(DecidedOf(d)') /\ IsFiniteSet(Pending(d)')
                      /\ Cardinality(DecidedOf(d)') + Cardinality(Pending(d)') <= hits'[d]
  BY DEF AllCounted
<1>2. /\ IsFiniteSet(DecidedOf(d)) /\ IsFiniteSet(Pending(d))
      /\ Cardinality(DecidedOf(d)) + Cardinality(Pending(d)) <= hits[d]
      /\ hits[d] \in Nat
  BY DEF AllCounted, TypeOK
<1>3. /\ pc[w] # "idle"
      /\ \A o \in Worker \ {w} : pc'[o] = pc[o] /\ job'[o] = job[o]
  BY StepFrame DEF Framed
<1>4. CASE /\ pc[w] = "device" /\ job[w].dev \in Device
           /\ hits' = [hits EXCEPT ![job[w].dev] = hits[job[w].dev] + 1]
           /\ job' = job
  <2>1. DecidedOf(d)' \subseteq DecidedOf(d)
    BY <1>4, DecidedGrows
  <2>2. CASE job[w].dev = d
    <3>1. Pending(d)' \subseteq Pending(d) \cup {w} /\ hits'[d] = hits[d] + 1
      BY <1>3, <1>4, <2>2 DEF Pending, TypeOK
    <3>2. /\ IsFiniteSet(DecidedOf(d)') /\ IsFiniteSet(Pending(d)')
          /\ Cardinality(DecidedOf(d)') + Cardinality(Pending(d)') <= hits[d] + 1
      BY <1>2, <2>1, <3>1, SumJoined, Zenon
    <3>3. QED
      BY <3>1, <3>2
  <2>3. CASE job[w].dev # d
    <3>1. Pending(d)' \subseteq Pending(d) /\ hits'[d] = hits[d]
      BY <1>3, <1>4, <2>3 DEF Pending, TypeOK
    <3>2. QED
      BY <1>2, <2>1, <3>1, SumKept
  <2>4. QED
    BY <2>2, <2>3
<1>5. CASE hits' = hits /\ pc'[w] # "decide"
  <2>1. Pending(d)' \subseteq Pending(d) \ {w}
    BY <1>3, <1>5 DEF Pending
  <2>2. CASE pc[w] = "decide" /\ job[w].dev = d
    <3>1. w \in Pending(d) /\ DecidedOf(d)' \subseteq DecidedOf(d) \cup {job[w].trx}
      BY <2>2, DecidedGrows DEF Pending
    <3>2. QED
      BY <1>2, <1>5, <2>1, <3>1, SumMoved
  <2>3. CASE ~(pc[w] = "decide" /\ job[w].dev = d)
    <3>1. DecidedOf(d)' \subseteq DecidedOf(d) /\ Pending(d)' \subseteq Pending(d)
      BY <2>1, <2>3, DecidedGrows
    <3>2. QED
      BY <1>2, <1>5, <3>1, SumKept
  <2>4. QED
    BY <2>2, <2>3
<1>6. QED
  BY <1>4, <1>5, StepCounts

LEMMA AllCountedHolds == Spec => []AllCounted
<1>1. Init => AllCounted
  <2> SUFFICES ASSUME Init, NEW d \in Device
               PROVE  /\ IsFiniteSet(DecidedOf(d)) /\ IsFiniteSet(Pending(d))
                      /\ Cardinality(DecidedOf(d)) + Cardinality(Pending(d)) <= hits[d]
    BY DEF AllCounted
  <2>1. DecidedOf(d) = {} /\ Pending(d) = {} /\ hits[d] = 0
    BY DEF Init, DecidedOf, Pending
  <2>2. QED
    BY <2>1, FS_EmptySet
<1>2. TypeOK /\ AllCounted /\ [Next]_vars => AllCounted'
  <2> SUFFICES ASSUME TypeOK, AllCounted, [Next]_vars PROVE AllCounted'
    OBVIOUS
  <2>1. ASSUME NEW w \in Worker, Step(w)
        PROVE  AllCounted'
    BY <2>1, StepAllCounted
  \* Whatever else happens makes nothing pending.
  <2>2. ASSUME decisions' = decisions, hits' = hits,
               \A o \in Worker : pc'[o] = "decide" => pc[o] = "decide" /\ job'[o] = job[o]
        PROVE  AllCounted'
    <3>1. ASSUME NEW d \in Device
          PROVE  /\ IsFiniteSet(DecidedOf(d)') /\ IsFiniteSet(Pending(d)')
                 /\ Cardinality(DecidedOf(d)') + Cardinality(Pending(d)') <= hits'[d]
      <4>1. DecidedOf(d)' \subseteq DecidedOf(d) /\ Pending(d)' \subseteq Pending(d)
        BY <2>2 DEF DecidedOf, Pending
      <4>2. /\ IsFiniteSet(DecidedOf(d)) /\ IsFiniteSet(Pending(d))
            /\ Cardinality(DecidedOf(d)) + Cardinality(Pending(d)) <= hits[d]
            /\ hits[d] \in Nat
        BY DEF AllCounted, TypeOK
      <4>3. QED
        BY <2>2, <4>1, <4>2, SumKept
    <3>2. QED
      BY <3>1 DEF AllCounted
  <2>3. ASSUME NEW w \in Worker, NEW t \in Trx, NEW c \in Campaign, NEW d \in Device,
               NEW k \in tokens, Receive(w, t, c, d, k)
        PROVE  AllCounted'
    BY <2>2, <2>3 DEF Receive, Goto, TypeOK
  <2>4. ASSUME NEW w \in Worker, Fail(w)
        PROVE  AllCounted'
    BY <2>2, <2>4 DEF Fail, Finish, TypeOK
  <2>5. QED
    BY <2>1, <2>2, <2>3, <2>4 DEF Next, SessionInit, Lapse, SetStatus, Restart, vars
<1>3. QED
  BY <1>1, <1>2, TypeCorrect, PTL DEF Spec

\* DecisionsCounted for every instance: the count of a device never falls
\* behind its decisions, however submissions race, fail and repeat
\* (upsert_device is one statement, committed before the INSERT).
THEOREM CountCoversDecisions == Spec => []DecisionsCounted
<1>1. TypeOK /\ AllCounted => DecisionsCounted
  <2> SUFFICES ASSUME TypeOK, AllCounted, NEW d \in Device
               PROVE  Cardinality(DecidedOf(d)) <= hits[d]
    BY DEF DecisionsCounted, DecidedOf
  <2>1. /\ IsFiniteSet(DecidedOf(d)) /\ IsFiniteSet(Pending(d))
        /\ Cardinality(DecidedOf(d)) + Cardinality(Pending(d)) <= hits[d]
        /\ hits[d] \in Nat
    BY DEF AllCounted, TypeOK
  <2>2. QED
    BY <2>1, FS_CardinalityType
<1>2. QED
  BY <1>1, AllCountedHolds, TypeCorrect, PTL

=============================================================================
