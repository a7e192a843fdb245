----------------------------- MODULE Campaigns ------------------------------
(***************************************************************************)
(* The registry of services and campaigns (registry/*.py, its repositories *)
(* and the admin routes) and the copy of the campaigns' origins the CORS   *)
(* middleware answers from (security/origins.py).                          *)
(*                                                                         *)
(* The middleware runs on the event loop, one request at a time; the admin *)
(* routes run in a pool of threads.  Both touch the module's variable      *)
(* _origins_cache, without a lock, so every access is a step.  Names,      *)
(* countries and carriers are columns that behave as these do.             *)
(***************************************************************************)
EXTENDS Integers, FiniteSets

CONSTANTS
    Service, Campaign, Origin, Country,
    Code,         \* what an administrator may type for a country
    IsoOf,        \* Code -> Country, BLANK (nothing but spaces) or UNKNOWN
    BadOrigin,    \* the origins that are neither http: nor https:
    Request,      \* what an administrator may send: origins, home country, status
    Admin,        \* threads that serve administrators
    TTL,          \* _CACHE_TTL
    Clock,        \* bound: the times that are looked at
    EMPTY,        \* the empty text sent for a country
    BLANK, UNKNOWN, NULL

ASSUME TTLAssumption == TTL \in Nat \ {0}

ASSUME RequestAssumption ==
    Request \subseteq [origins : (SUBSET Origin) \cup {NULL}, home : Code \cup {EMPTY, NULL},
                       status : {"active", "inactive", NULL}]

VARIABLES
    services,   \* the slugs that have a row of services
    campaigns,  \* the row of campaigns by slug, NULL when there is none
    cache,      \* _origins_cache
    loop,       \* the request the middleware is at
    admin,      \* what a thread still has to do
    now,        \* time.monotonic()
    answer,     \* the last answer of is_allowed_dynamic, NULL before
    changed,    \* history: when an origin was last added to, or removed from, the table
    failed,     \* history: the last read of the table that failed
    overtaken   \* history: an invalidation fell between the last read and its store

vars == <<services, campaigns, cache, loop, admin, now, answer, changed, failed, overtaken>>

-----------------------------------------------------------------------------
(* What an administrator sends. *)

ValidOrigins(origins) == origins \cap BadOrigin = {}

\* normalize_countries of the one code: without its spaces, in capitals, refused
\* when unknown.  Spaces alone give an empty list, and its first element is an
\* IndexError no route catches; the empty text never gets that far.
ValidHome(code) == code # EMPTY => IsoOf[code] \in Country
NormHomeCountry(code) == IF code = EMPTY THEN NULL ELSE IsoOf[code]

ValidRequest(req) ==
    /\ req.origins # NULL => ValidOrigins(req.origins)
    /\ req.home # NULL => ValidHome(req.home)

\* The columns as they are to be written, NULL for None.
Columns(req) ==
    [req EXCEPT !.home = IF req.home = NULL THEN NULL ELSE NormHomeCountry(req.home)]

\* UPDATE campaigns SET the columns that are not None.  A home country cleared
\* in the dashboard is None by now, and is left as it was.
Updated(row, columns) ==
    [f \in DOMAIN row |-> IF f \in DOMAIN columns /\ columns[f] # NULL THEN columns[f] ELSE row[f]]

\* campaigns_repo.active_origins of a table.  The status of the service is
\* not looked at.
ActiveOrigins(table) ==
    UNION {table[c].origins : c \in {d \in Campaign : table[d] # NULL /\ table[d].status = "active"}}

-----------------------------------------------------------------------------
(* Slips. *)
\* Fresh, the TTL compared in the wrong sense at its end.
FreshOneMore(at) == now - at =< TTL

\* AfterCommit, the handler that forgets the cache.
AfterCommitNothing == "idle"
-----------------------------------------------------------------------------

Fresh(at) == now - at < TTL

\* What a handler does after the registry has committed.
AfterCommit == "invalidate"

NoRequest == [pc |-> "idle", origin |-> NULL, at |-> 0, origins |-> {}]

Init ==
    /\ services = {}
    /\ campaigns = [c \in Campaign |-> NULL]
    /\ cache = NULL
    /\ loop = NoRequest
    /\ admin = [a \in Admin |-> "idle"]
    /\ now = 0
    /\ answer = NULL
    /\ changed = [o \in Origin |-> -TTL]
    /\ failed = -TTL
    /\ overtaken = FALSE

\* POST /admin/services: 409 for a slug in use.  The cache is left alone.
RegisterService(s) ==
    /\ s \notin services
    /\ services' = services \cup {s}
    /\ UNCHANGED <<campaigns, cache, loop, admin, now, answer, changed, failed, overtaken>>

\* The transaction of a handler commits a table.
Commit(a, table) ==
    /\ campaigns' = table
    /\ admin' = [admin EXCEPT ![a] = AfterCommit]
    /\ changed' = [o \in Origin |->
          IF o \in ActiveOrigins(table) <=> o \in ActiveOrigins(campaigns) THEN changed[o] ELSE now]
    /\ UNCHANGED <<services, cache, loop, now, answer, failed, overtaken>>

\* POST /admin/campaigns: 400 for what is not valid, 404 without the service,
\* 409 for a slug in use.
RegisterCampaign(a, c, s, req) ==
    /\ admin[a] = "idle"
    /\ ValidRequest(req)
    /\ s \in services
    /\ campaigns[c] = NULL
    /\ LET columns == Columns(req)
       IN  Commit(a, [campaigns EXCEPT ![c] =
               [service |-> s,
                origins |-> IF columns.origins = NULL THEN {} ELSE columns.origins,
                home    |-> columns.home,
                status  |-> "active"]])

\* PUT /admin/campaigns/{id}: 404 for an unknown one.
UpdateCampaign(a, c, req) ==
    /\ admin[a] = "idle"
    /\ ValidRequest(req)
    /\ campaigns[c] # NULL
    /\ Commit(a, [campaigns EXCEPT ![c] = Updated(@, Columns(req))])

\* origins.invalidate_cache().
Invalidate(a) ==
    /\ admin[a] = "invalidate"
    /\ cache' = NULL
    /\ admin' = [admin EXCEPT ![a] = "idle"]
    /\ overtaken' = (overtaken \/ loop.pc = "store")
    /\ UNCHANGED <<services, campaigns, loop, now, answer, changed, failed>>

-----------------------------------------------------------------------------
(* _campaign_origins, for a request whose origin is not of the global list. *)

\* The clock is read, the cache tested.
Ask(o) ==
    /\ loop.pc = "idle"
    /\ loop' = [pc      |-> IF cache # NULL /\ Fresh(cache.at) THEN "hit" ELSE "query",
                origin  |-> o,
                at      |-> now,
                origins |-> {}]
    /\ UNCHANGED <<services, campaigns, cache, admin, now, answer, changed, failed, overtaken>>

Answered(allowed) ==
    /\ answer' = [origin |-> loop.origin, at |-> loop.at, allowed |-> allowed]
    /\ loop' = NoRequest

\* return _origins_cache[1].  The test was a step ago: when an administrator's
\* thread has reset the variable in between, None is indexed and the request
\* fails with a TypeError.
Hit ==
    /\ loop.pc = "hit"
    /\ IF cache = NULL THEN loop' = NoRequest /\ UNCHANGED answer
                       ELSE Answered(loop.origin \in cache.origins)
    /\ UNCHANGED <<services, campaigns, cache, admin, now, changed, failed, overtaken>>

Query ==
    /\ loop.pc = "query"
    /\ loop' = [loop EXCEPT !.pc = "store", !.origins = ActiveOrigins(campaigns)]
    /\ overtaken' = FALSE
    /\ UNCHANGED <<services, campaigns, cache, admin, now, answer, changed, failed>>

\* The database does not answer: the set of the cache is kept, if there is one.
QueryFails ==
    /\ loop.pc = "query"
    /\ loop' = [loop EXCEPT !.pc = "store", !.origins = IF cache # NULL THEN cache.origins ELSE {}]
    /\ failed' = loop.at
    /\ overtaken' = FALSE
    /\ UNCHANGED <<services, campaigns, cache, admin, now, answer, changed>>

\* _origins_cache = (now, origins), with the time of the beginning.
Store ==
    /\ loop.pc = "store"
    /\ cache' = [at |-> loop.at, origins |-> loop.origins]
    /\ Answered(loop.origin \in loop.origins)
    /\ UNCHANGED <<services, campaigns, admin, now, changed, failed, overtaken>>

\* A restart of the API: the variable is None again, what was under way is lost.
Restart ==
    /\ cache' = NULL
    /\ loop' = NoRequest
    /\ admin' = [a \in Admin |-> "idle"]
    /\ overtaken' = FALSE
    /\ UNCHANGED <<services, campaigns, now, answer, changed, failed>>

Tick ==
    /\ now + 1 \in Clock
    /\ now' = now + 1
    /\ UNCHANGED <<services, campaigns, cache, loop, admin, answer, changed, failed, overtaken>>

Next ==
    \/ \E s \in Service : RegisterService(s)
    \/ \E a \in Admin, c \in Campaign, s \in Service, req \in Request :
          req.status = NULL /\ RegisterCampaign(a, c, s, req)
    \/ \E a \in Admin, c \in Campaign, req \in Request : UpdateCampaign(a, c, req)
    \/ \E a \in Admin : Invalidate(a)
    \/ \E o \in Origin \ BadOrigin : Ask(o)
    \/ Hit
    \/ Query
    \/ QueryFails
    \/ Store
    \/ Restart
    \/ Tick

Spec == Init /\ [][Next]_vars
-----------------------------------------------------------------------------
(* Properties. *)

\* An answer is at most one TTL old, reading included: when it differs from
\* what the table says of the origin, the table changed less than a TTL before
\* the request began, or since, or a read failed within that time and the old
\* set was kept (origins.py:31-42).
AnswersAreFresh ==
    answer # NULL =>
        \/ answer.allowed <=> answer.origin \in ActiveOrigins(campaigns)
        \/ answer.at - changed[answer.origin] < TTL
        \/ answer.at - failed < TTL

\* A set in use differs from the table only while the handler that changed the
\* table has yet to invalidate it, when the invalidation fell between a read and
\* its store, or when the read had failed: with no such race, an acknowledged
\* change of a campaign is in force at the next request (admin.py:282, 298).
StaleOnlyByRace ==
    cache # NULL /\ Fresh(cache.at) /\ cache.origins # ActiveOrigins(campaigns) =>
        \/ \E a \in Admin : admin[a] # "idle"
        \/ overtaken
        \/ cache.at = failed
=============================================================================
