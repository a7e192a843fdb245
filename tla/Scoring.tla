------------------------------ MODULE Scoring ------------------------------
(***************************************************************************)
(* The scoring API: POST /v1/session/init and POST /v1/score.              *)
(*                                                                         *)
(* Handlers run in the thread pool of one API process, so two submissions  *)
(* of one transaction may interleave at every point where a handler talks  *)
(* to Redis, PostgreSQL, the CP or ClickHouse.  A Worker is a thread that  *)
(* serves one submission at a time; its pc names the exchange it is about  *)
(* to make.  Each PostgreSQL exchange is one committed transaction.        *)
(***************************************************************************)
EXTENDS Naturals, FiniteSets

CONSTANTS
    Trx,          \* transaction ids (a parameter of the landing URL)
    Campaign,
    Service,
    ServiceOf,    \* the service a campaign belongs to; immutable
    Device,       \* fingerprint hashes
    Nonce,        \* token identifiers; bounds how many sessions are opened
    Worker,       \* threads
    MaxAttempts,  \* calls one mint makes to the CP
    NoRow, NoJob

ASSUME ServiceOfAssumption == ServiceOf \in [Campaign -> Service]
ASSUME MaxAttemptsAssumption == MaxAttempts \in Nat \ {0}

Verdict == {"allow", "block"}
WebOptIn == {"na", "minted", "failed"}
Table == {"traffic_events", "decision_log"}

Token == [nonce: Nonce, trx: Trx, camp: Campaign]
Row == [verdict: Verdict, camp: Campaign, dev: Device, status: WebOptIn]

(***************************************************************************)
(* What a worker holds of its submission: the body (trx, camp, dev, tok),  *)
(* whether the second service lookup found it active (svc), whether this   *)
(* submission made the decision (fresh), its verdict, the CP calls made    *)
(* and the mint's result.                                                  *)
(***************************************************************************)
Job == [trx: Trx, camp: Campaign, dev: Device, tok: Token, svc: BOOLEAN,
        fresh: BOOLEAN, verdict: Verdict, tries: Nat, status: WebOptIn]

ASSUME NoRowAssumption == NoRow \notin Row
ASSUME NoJobAssumption == NoJob \notin Job

PC == {"idle", "verify", "resolve", "campaign", "service", "lookup",
       "device", "decide", "mint", "record", "olap"}

\* The request id sent to the CP: the n-th uuid drawn by the submission that
\* spent this nonce.
RequestIds == Nonce \X Nat

Url == [trx: Trx, svc: Service, rid: RequestIds]
Event == [table: Table, trx: Trx, nonce: Nonce, verdict: Verdict, status: WebOptIn]
Answer == [trx: Trx, kind: {"redirect", "unavailable", "block"}]

VARIABLES
    tokens,     \* session tokens signed so far; clients hold them
    live,       \* nonces under session:* in Redis
    active,     \* services and campaigns whose status is active
    ready,      \* a scoring configuration was loaded at startup
    decisions,  \* PostgreSQL table decisions, by trx_id
    hits,       \* devices.event_count
    urls,       \* one-time URLs the CP has made out
    olap,       \* rows of the ClickHouse tables
    answers,    \* decisions told to clients
    pc, job

vars == <<tokens, live, active, ready, decisions, hits, urls, olap, answers, pc, job>>

TypeOK ==
    /\ tokens \subseteq Token
    /\ live \subseteq Nonce
    /\ active \subseteq Service \cup Campaign
    /\ ready \in BOOLEAN
    /\ decisions \in [Trx -> Row \cup {NoRow}]
    /\ hits \in [Device -> Nat]
    /\ urls \subseteq Url
    /\ olap \subseteq Event
    /\ answers \subseteq Answer
    /\ pc \in [Worker -> PC]
    /\ job \in [Worker -> Job \cup {NoJob}]
    /\ \A w \in Worker : pc[w] # "idle" => job[w] \in Job

Init ==
    /\ tokens = {}
    /\ live = {}
    /\ active = Service \cup Campaign
    /\ ready \in BOOLEAN
    /\ decisions = [t \in Trx |-> NoRow]
    /\ hits = [d \in Device |-> 0]
    /\ urls = {}
    /\ olap = {}
    /\ answers = {}
    /\ pc = [w \in Worker |-> "idle"]
    /\ job = [w \in Worker |-> NoJob]

-----------------------------------------------------------------------------
(***************************************************************************)
(* Slips: what an operator below would be after a plausible mistake in the *)
(* code.  No definition uses them; substituted for the operator named, they *)
(* show which property notices.                                            *)
(***************************************************************************)
\* Bound, the campaign of the token not compared.
BoundToTrxOnly(j) == j.tok.trx = j.trx

\* Spend, the key read but not deleted.
SpendNothing(n) == live

\* EventCount, the conflicting INSERT's own count kept.
EventCountExcluded(d) == 1

\* InsertAccepted, the UNIQUE constraint dropped or ON CONFLICT DO UPDATE.
InsertOverwrites(t) == TRUE

\* RequestId, the uuid drawn inside the retry loop.
RequestIdPerAttempt(j) == <<j.tok.nonce, j.tries>>

\* AllowKind, the stored status sent as it is, or not looked at.
AllowKindRaw(status) == status
AllowKindAlways(status) == "redirect"

\* NextAfterRecord, a replay writing an event of its own.
NextAfterRecordAlways(w) ==
    pc' = [pc EXCEPT ![w] = "olap"] /\ UNCHANGED <<job, answers>>

\* NextAfterRecord, a mint that failed called again.
NextAfterRecordUntilMinted(w) ==
    /\ pc' = [pc EXCEPT ![w] = IF job[w].status = "minted" THEN "olap" ELSE "mint"]
    /\ job' = [job EXCEPT ![w].tries = 0]
    /\ UNCHANGED answers

-----------------------------------------------------------------------------
(* Sessions, the registry and the clock. *)

\* session_init: the service and the campaign are active; a token bound to
\* (trx, campaign) is signed and its nonce stored.
SessionInit(n, t, c) ==
    /\ {ServiceOf[c], c} \subseteq active
    /\ \A k \in tokens : k.nonce # n
    /\ tokens' = tokens \cup {[nonce |-> n, trx |-> t, camp |-> c]}
    /\ live' = live \cup {n}
    /\ UNCHANGED <<active, ready, decisions, hits, urls, olap, answers, pc, job>>

\* The token expires, its key reaches its TTL, or Redis (allkeys-lru) evicts
\* the key: verify_and_consume refuses it in each case.
Lapse(n) ==
    /\ n \in live
    /\ live' = live \ {n}
    /\ UNCHANGED <<tokens, active, ready, decisions, hits, urls, olap, answers, pc, job>>

\* An administrator (de)activates a service or a campaign.
SetStatus(x) ==
    /\ active' = IF x \in active THEN active \ {x} ELSE active \cup {x}
    /\ UNCHANGED <<tokens, live, ready, decisions, hits, urls, olap, answers, pc, job>>

-----------------------------------------------------------------------------
(* The steps of score_endpoint. *)

Goto(w, l) == pc' = [pc EXCEPT ![w] = l]

\* The submission ends: the worker is free again.
Finish(w) ==
    /\ pc' = [pc EXCEPT ![w] = "idle"]
    /\ job' = [job EXCEPT ![w] = NoJob]

\* The answer reaches the client, or is lost on the way.
Tell(w, kind) ==
    answers' \in {answers, answers \cup {[trx |-> job[w].trx, kind |-> kind]}}

\* A body names any transaction and campaign and carries any token signed.
Receive(w, t, c, d, k) ==
    /\ pc[w] = "idle"
    /\ job' = [job EXCEPT ![w] =
                  [trx |-> t, camp |-> c, dev |-> d, tok |-> k, svc |-> FALSE,
                   fresh |-> FALSE, verdict |-> "block", tries |-> 0, status |-> "na"]]
    /\ Goto(w, "verify")
    /\ UNCHANGED <<tokens, live, active, ready, decisions, hits, urls, olap, answers>>

\* The token was signed for the transaction and the campaign of the body.
Bound(j) == j.tok.trx = j.trx /\ j.tok.camp = j.camp

TokenValid(j) == Bound(j) /\ j.tok.nonce \in live

\* DELETE session:<nonce>: exactly one caller sees it removed.
Spend(n) == live \ {n}

VerifyAndConsume(w) ==
    /\ pc[w] = "verify"
    /\ TokenValid(job[w])
    /\ live' = Spend(job[w].tok.nonce)
    /\ Goto(w, "resolve")
    /\ UNCHANGED <<tokens, active, ready, decisions, hits, urls, olap, answers, job>>

RefuseToken(w) ==
    /\ pc[w] = "verify"
    /\ ~TokenValid(job[w])
    /\ Finish(w)
    /\ UNCHANGED <<tokens, live, active, ready, decisions, hits, urls, olap, answers>>

\* _resolve_campaign reads the service, then the campaign; either may be
\* inactive (404), and the page's origin may not be listed (403).
ResolveService(w) ==
    /\ pc[w] = "resolve"
    /\ IF ServiceOf[job[w].camp] \in active
         THEN Goto(w, "campaign") /\ UNCHANGED job
         ELSE Finish(w)
    /\ UNCHANGED <<tokens, live, active, ready, decisions, hits, urls, olap, answers>>

ResolveCampaign(w) ==
    /\ pc[w] = "campaign"
    /\ \/ /\ job[w].camp \in active
          /\ Goto(w, "service")
          /\ UNCHANGED job
       \/ Finish(w)
    /\ UNCHANGED <<tokens, live, active, ready, decisions, hits, urls, olap, answers>>

\* svc = get_active_service(...) is a second read: the service may have been
\* deactivated since, and svc is then None.
LoadService(w) ==
    /\ pc[w] = "service"
    /\ job' = [job EXCEPT ![w].svc = (ServiceOf[job[w].camp] \in active)]
    /\ Goto(w, "lookup")
    /\ UNCHANGED <<tokens, live, active, ready, decisions, hits, urls, olap, answers>>

\* get_by_trx: a transaction already decided is not scored again.
LookupNew(w) ==
    /\ pc[w] = "lookup"
    /\ decisions[job[w].trx] = NoRow
    /\ Goto(w, "device")
    /\ UNCHANGED <<tokens, live, active, ready, decisions, hits, urls, olap, answers, job>>

ReplayBlock(w) ==
    /\ pc[w] = "lookup"
    /\ decisions[job[w].trx] # NoRow
    /\ decisions[job[w].trx].verdict = "block"
    /\ Tell(w, "block")
    /\ Finish(w)
    /\ UNCHANGED <<tokens, live, active, ready, decisions, hits, urls, olap>>

\* A replayed allow mints again; with svc None it raises instead.
ReplayAllow(w) ==
    /\ pc[w] = "lookup"
    /\ decisions[job[w].trx] # NoRow
    /\ decisions[job[w].trx].verdict = "allow"
    /\ IF job[w].svc
         THEN /\ Goto(w, "mint")
              /\ job' = [job EXCEPT ![w].verdict = "allow"]
         ELSE Finish(w)
    /\ UNCHANGED <<tokens, live, active, ready, decisions, hits, urls, olap, answers>>

\* upsert_device: ON CONFLICT DO UPDATE SET event_count = event_count + 1.
EventCount(d) == hits[d] + 1

RegisterDevice(w) ==
    /\ pc[w] = "device"
    /\ hits' = [hits EXCEPT ![job[w].dev] = EventCount(job[w].dev)]
    /\ Goto(w, "decide")
    /\ UNCHANGED <<tokens, live, active, ready, decisions, urls, olap, answers, job>>

\* decisions.trx_id is UNIQUE: INSERT of a second row raises.
InsertAccepted(t) == decisions[t] = NoRow

\* Geo gate or engine gives any verdict; the row is inserted with status na.
Decide(w, v) ==
    LET j == job[w] IN
    /\ pc[w] = "decide"
    /\ ready
    /\ j.svc
    /\ InsertAccepted(j.trx)
    /\ decisions' = [decisions EXCEPT ![j.trx] =
                        [verdict |-> v, camp |-> j.camp, dev |-> j.dev, status |-> "na"]]
    /\ job' = [job EXCEPT ![w].fresh = TRUE, ![w].verdict = v]
    /\ Goto(w, IF v = "block" THEN "olap" ELSE "mint")
    /\ UNCHANGED <<tokens, live, active, ready, hits, urls, olap, answers>>

\* 503 without a configuration; svc.id raises when svc is None; the loser of
\* a race gets UniqueViolation.  Nothing is inserted.
CannotDecide(w) ==
    /\ pc[w] = "decide"
    /\ ~ready \/ ~job[w].svc \/ ~InsertAccepted(job[w].trx)
    /\ Finish(w)
    /\ UNCHANGED <<tokens, live, active, ready, decisions, hits, urls, olap, answers>>

-----------------------------------------------------------------------------
(* _finalize_allow: mint_weboptin_url, then update_weboptin. *)

\* The uuid is drawn once, before the loop: a retry repeats it.
RequestId(j) == <<j.tok.nonce, 0>>

\* The CP may have handled the call (it answers a request id it has seen with
\* the URL it made then) or not.
CpHandles(j) == urls \cup {[trx |-> j.trx, svc |-> ServiceOf[j.camp], rid |-> RequestId(j)]}

\* 200 with an https URL.
MintOk(w) ==
    /\ pc[w] = "mint"
    /\ urls' = CpHandles(job[w])
    /\ job' = [job EXCEPT ![w].status = "minted"]
    /\ Goto(w, "record")
    /\ UNCHANGED <<tokens, live, active, ready, decisions, hits, olap, answers>>

\* 4xx, an answer that does not parse, status other than ok, or a URL that is
\* not https: no retry, whatever the CP did.
MintRefused(w) ==
    /\ pc[w] = "mint"
    /\ urls' \in {urls, CpHandles(job[w])}
    /\ job' = [job EXCEPT ![w].status = "failed"]
    /\ Goto(w, "record")
    /\ UNCHANGED <<tokens, live, active, ready, decisions, hits, olap, answers>>

\* A network error, a timeout or a 5xx: one more attempt if any is left.  The
\* CP may have handled the call though its answer never came.
MintRetry(w) ==
    LET n == job[w].tries + 1 IN
    /\ pc[w] = "mint"
    /\ urls' \in {urls, CpHandles(job[w])}
    /\ IF n < MaxAttempts
         THEN /\ job' = [job EXCEPT ![w].tries = n]
              /\ UNCHANGED pc
         ELSE /\ job' = [job EXCEPT ![w].tries = n, ![w].status = "failed"]
              /\ Goto(w, "record")
    /\ UNCHANGED <<tokens, live, active, ready, decisions, hits, olap, answers>>

AllowKind(status) == IF status = "minted" THEN "redirect" ELSE "unavailable"

\* UPDATE decisions SET weboptin_status WHERE trx_id (no row, no change).
SetWeboptin(row, status) ==
    IF row = NoRow THEN NoRow ELSE [row EXCEPT !.status = status]

\* A replay answers at once; the submission that decided writes its event
\* first.
NextAfterRecord(w) ==
    IF job[w].fresh
      THEN Goto(w, "olap") /\ UNCHANGED <<job, answers>>
      ELSE Finish(w) /\ Tell(w, AllowKind(job[w].status))

UpdateWeboptin(w) ==
    /\ pc[w] = "record"
    /\ decisions' = [decisions EXCEPT ![job[w].trx] = SetWeboptin(@, job[w].status)]
    /\ NextAfterRecord(w)
    /\ UNCHANGED <<tokens, live, active, ready, hits, urls, olap>>

-----------------------------------------------------------------------------
(* write_event is loss-tolerant: asynchronous inserts into two tables, each *)
(* of which may be lost; an exception is swallowed.  Then the answer.       *)

EventOf(w, tab) ==
    [table |-> tab, trx |-> job[w].trx, nonce |-> job[w].tok.nonce,
     verdict |-> job[w].verdict, status |-> job[w].status]

WriteEvent(w) ==
    /\ pc[w] = "olap"
    /\ \E stored \in SUBSET Table :
          olap' = olap \cup {EventOf(w, tab) : tab \in stored}
    /\ Tell(w, IF job[w].verdict = "block" THEN "block" ELSE AllowKind(job[w].status))
    /\ Finish(w)
    /\ UNCHANGED <<tokens, live, active, ready, decisions, hits, urls>>

-----------------------------------------------------------------------------
(* Failures. *)

\* The rate limit turns the submission away (at verify), or a Redis,
\* PostgreSQL or CP call raises, or the thread dies: no decision is told and
\* what was committed stays.
Fail(w) ==
    /\ pc[w] # "idle"
    /\ Finish(w)
    /\ UNCHANGED <<tokens, live, active, ready, decisions, hits, urls, olap, answers>>

\* The process restarts; loading the configuration may fail (lifespan).
Restart ==
    /\ pc' = [w \in Worker |-> "idle"]
    /\ job' = [w \in Worker |-> NoJob]
    /\ ready' \in BOOLEAN
    /\ UNCHANGED <<tokens, live, active, decisions, hits, urls, olap, answers>>

-----------------------------------------------------------------------------
\* What a worker does next with the submission it holds.
Step(w) ==
    \/ VerifyAndConsume(w)
    \/ RefuseToken(w)
    \/ ResolveService(w)
    \/ ResolveCampaign(w)
    \/ LoadService(w)
    \/ LookupNew(w)
    \/ ReplayBlock(w)
    \/ ReplayAllow(w)
    \/ RegisterDevice(w)
    \/ \E v \in Verdict : Decide(w, v)
    \/ CannotDecide(w)
    \/ MintOk(w)
    \/ MintRefused(w)
    \/ MintRetry(w)
    \/ UpdateWeboptin(w)
    \/ WriteEvent(w)

Next ==
    \/ \E n \in Nonce, t \in Trx, c \in Campaign : SessionInit(n, t, c)
    \/ \E n \in Nonce : Lapse(n)
    \/ \E x \in Service \cup Campaign : SetStatus(x)
    \/ \E w \in Worker, t \in Trx, c \in Campaign, d \in Device, k \in tokens :
          Receive(w, t, c, d, k)
    \/ \E w \in Worker : Step(w)
    \/ \E w \in Worker : Fail(w)
    \/ Restart

Spec == Init /\ [][Next]_vars

(***************************************************************************)
(* Every exchange of a handler ends: the CP call has a timeout, statements *)
(* touch one row, and a thread is not preempted for ever.  Clients,        *)
(* administrators and failures owe nothing.                                *)
(***************************************************************************)
FairSpec == Spec /\ \A w \in Worker : WF_vars(Step(w))

-----------------------------------------------------------------------------
(* Properties. *)

\* Workers whose submission got past verify_and_consume.
Admitted == {w \in Worker : pc[w] \notin {"idle", "verify"}}

\* A session token admits one submission: no two admitted submissions hold
\* the same nonce, and a nonce being used is not in Redis any more
\* (verify_and_consume is a DELETE, not a read and a delete).
TokenSingleUse ==
    \A w \in Admitted :
        /\ job[w].tok.nonce \notin live
        /\ \A o \in Admitted \ {w} : job[o].tok.nonce # job[w].tok.nonce

\* What clients are told agrees with the one stored decision, whichever of
\* several racing or repeated submissions told it.
AnswersAgree ==
    \A a \in answers :
        /\ decisions[a.trx] # NoRow
        /\ decisions[a.trx].verdict = IF a.kind = "block" THEN "block" ELSE "allow"

\* A URL is asked of the CP only for a transaction whose allow is committed:
\* the insert precedes the mint, and a lost race never reaches it.
MintOnlyAllowed ==
    \A u \in urls : decisions[u.trx] # NoRow /\ decisions[u.trx].verdict = "allow"

\* One submission obtains at most one URL, even when its call is retried
\* after the CP handled it: the retry repeats the request id.
OneUrlPerSubmission ==
    \A u, v \in urls : u.rid[1] = v.rid[1] => u = v

\* A redirect is told only when the CP made out a URL for the transaction,
\* and a stored status minted has such a URL behind it.
MintedIsReal ==
    /\ \A a \in answers : a.kind = "redirect" => \E u \in urls : u.trx = a.trx
    /\ \A t \in Trx : decisions[t] # NoRow /\ decisions[t].status = "minted"
                        => \E u \in urls : u.trx = t

\* A decision is made for the campaign of a session that was opened for this
\* very transaction and campaign, and whose token is spent.
DecisionHasSession ==
    \A t \in Trx : decisions[t] # NoRow =>
        \E k \in tokens : /\ k.trx = t
                          /\ k.camp = decisions[t].camp
                          /\ k.nonce \notin live

\* Each analytics table holds at most one event of a transaction, with the
\* stored verdict: a replay writes none.
OneEventPerTrx ==
    /\ \A e, f \in olap : e.table = f.table /\ e.trx = f.trx => e = f
    /\ \A e \in olap : decisions[e.trx] # NoRow /\ decisions[e.trx].verdict = e.verdict

\* A device's event_count is never below the number of decisions about it,
\* although a submission that fails after the upsert counts too.
DecisionsCounted ==
    \A d \in Device :
        Cardinality({t \in Trx : decisions[t] # NoRow /\ decisions[t].dev = d}) <= hits[d]

\* A decision, once stored, keeps its verdict, campaign and device; only the
\* status of an allow moves, and never back to na.
DecisionFinal ==
    [][\A t \in Trx : decisions[t] # NoRow =>
          /\ decisions'[t] # NoRow
          /\ decisions'[t].verdict = decisions[t].verdict
          /\ decisions'[t].camp = decisions[t].camp
          /\ decisions'[t].dev = decisions[t].dev
          /\ \/ decisions'[t].status = decisions[t].status
             \/ decisions[t].verdict = "allow" /\ decisions'[t].status # "na"]_vars

\* The API keeps the promise of TrxVerdict: one decision per transaction,
\* URLs only after it, answers that repeat it.
VerdictOf(t) == IF decisions[t] = NoRow THEN "none" ELSE decisions[t].verdict

Promise ==
    INSTANCE TrxVerdict
    WITH verdict <- [t \in Trx |-> VerdictOf(t)],
         minted <- {u.trx : u \in urls},
         told <- answers

KeepsPromise == Promise!Spec

\* Every submission received ends, with an answer or an error.
SubmissionsEnd == \A w \in Worker : pc[w] # "idle" ~> pc[w] = "idle"

-----------------------------------------------------------------------------
(* The parts of the inductive invariant behind the safety properties. *)

\* A nonce is signed into one token, and Redis holds only nonces signed.
Sessions ==
    /\ \A k, l \in tokens : k.nonce = l.nonce => k = l
    /\ \A n \in live : \E k \in tokens : k.nonce = n

\* Every submission carries a signed token, an admitted one a token bound to
\* its transaction and campaign.
Carried ==
    /\ \A w \in Worker : pc[w] # "idle" => job[w].tok \in tokens
    /\ \A w \in Admitted : Bound(job[w])

\* Past the lookup or the insert, a submission acts on the stored decision.
Decided ==
    /\ \A w \in Worker : pc[w] \in {"mint", "record", "olap"} =>
          /\ decisions[job[w].trx] # NoRow
          /\ decisions[job[w].trx].verdict = job[w].verdict
    /\ \A w \in Worker : pc[w] \in {"mint", "record"} => job[w].verdict = "allow"
    /\ \A w \in Worker : pc[w] = "record" => job[w].status # "na"

\* A submission whose mint succeeded has a URL for its transaction.
HasUrl ==
    \A w \in Worker : pc[w] # "idle" /\ job[w].status = "minted" =>
        \E u \in urls : u.trx = job[w].trx

\* A URL was asked for by the submission of the token its request id names.
UrlOwned ==
    \A u \in urls :
        /\ u.rid[2] = 0
        /\ \E k \in tokens : /\ k.nonce = u.rid[1]
                            /\ k.trx = u.trx
                            /\ ServiceOf[k.camp] = u.svc

\* At most one submission made a transaction's decision, and it writes the
\* transaction's only event.
Deciders == {w \in Worker : pc[w] # "idle" /\ job[w].fresh}

OneDecider ==
    /\ \A w \in Deciders : pc[w] \in {"mint", "record", "olap"}
    /\ \A w \in Worker : pc[w] = "olap" => w \in Deciders
    /\ \A w, o \in Deciders : job[w].trx = job[o].trx => w = o
    /\ \A w \in Deciders : \A e \in olap : e.trx # job[w].trx
    /\ \A e, f \in olap : e.trx = f.trx =>
          e.nonce = f.nonce /\ e.verdict = f.verdict /\ e.status = f.status

IndInv == Sessions /\ Carried /\ Decided /\ HasUrl /\ UrlOwned /\ OneDecider
=============================================================================
