---------------------------- MODULE CopiesProofs ----------------------------
(***************************************************************************)
(* Proofs about the copies others work from, for any number of campaigns,  *)
(* administrators, devices, threads and transactions: the origins of the   *)
(* CORS middleware (Campaigns), the devices in Redis (Devices) and the     *)
(* page of the live feed (Feed).                                           *)
(***************************************************************************)
EXTENDS Campaigns, Devices, Feed, FiniteSetTheorems, TLAPS

-----------------------------------------------------------------------------
(***************************************************************************)
(* Campaigns: types.                                                       *)
(***************************************************************************)
CampaignRow == [service : Service, origins : SUBSET Origin, home : Country \cup {NULL},
                status : {"active", "inactive"}]

Table == [Campaign -> CampaignRow \cup {NULL}]

Loop == [pc : {"idle", "hit", "query", "store"}, origin : Origin \cup {NULL}, at : Nat,
         origins : SUBSET Origin]

CampaignsTypeOK ==
    /\ campaigns \in Table
    /\ services \subseteq Service
    /\ cache # NULL => cache \in [at : Nat, origins : SUBSET Origin]
    /\ loop \in Loop
    /\ loop.pc # "idle" => loop.origin \in Origin
    /\ admin \in [Admin -> {"idle", "invalidate"}]
    /\ now \in Nat
    /\ answer # NULL => answer \in [origin : Origin, at : Nat, allowed : BOOLEAN]
    /\ changed \in [Origin -> Int]
    /\ failed \in Int

LEMMA ColumnsType ==
    ASSUME NEW r \in Request, ValidRequest(r)
    PROVE  /\ Columns(r) \in [origins : (SUBSET Origin) \cup {NULL}, home : Country \cup {NULL},
                              status : {"active", "inactive", NULL}]
           /\ Columns(r).status = r.status
<1>1. r \in [origins : (SUBSET Origin) \cup {NULL}, home : Code \cup {EMPTY, NULL},
             status : {"active", "inactive", NULL}]
  BY RequestAssumption
<1> DEFINE home == IF r.home = NULL THEN NULL ELSE NormHomeCountry(r.home)
<1>2. home \in Country \cup {NULL}
  BY DEF ValidRequest, ValidHome, NormHomeCountry
<1> HIDE DEF home
<1>3. Columns(r) = [r EXCEPT !.home = home]
  BY DEF Columns, home
<1> QED
  BY <1>1, <1>2, <1>3

LEMMA UpdatedType ==
    ASSUME NEW row \in CampaignRow,
           NEW columns \in [origins : (SUBSET Origin) \cup {NULL}, home : Country \cup {NULL},
                            status : {"active", "inactive", NULL}]
    PROVE  Updated(row, columns) \in CampaignRow
<1> DEFINE r == Updated(row, columns)
<1>1. DOMAIN row = {"service", "origins", "home", "status"}
      /\ DOMAIN columns = {"origins", "home", "status"}
  BY DEF CampaignRow
<1>2. r = [f \in {"service", "origins", "home", "status"} |->
              IF f \in DOMAIN columns /\ columns[f] # NULL THEN columns[f] ELSE row[f]]
  BY <1>1 DEF Updated
<1>3. r["service"] \in Service
  BY <1>1, <1>2 DEF CampaignRow
<1>4. r["origins"] \in SUBSET Origin
  BY <1>1, <1>2 DEF CampaignRow
<1>5. r["home"] \in Country \cup {NULL}
  BY <1>1, <1>2 DEF CampaignRow
<1>6. r["status"] \in {"active", "inactive"}
  BY <1>1, <1>2 DEF CampaignRow
<1>7. r = [service |-> r["service"], origins |-> r["origins"], home |-> r["home"],
           status |-> r["status"]]
  BY <1>2
<1> HIDE DEF r
<1> QED
  BY <1>3, <1>4, <1>5, <1>6, <1>7 DEF CampaignRow, r

LEMMA ActiveOriginsType ==
    ASSUME NEW table \in Table
    PROVE  ActiveOrigins(table) \subseteq Origin
<1>1. ASSUME NEW c \in Campaign, table[c] # NULL PROVE table[c].origins \subseteq Origin
  <2>1. table[c] \in CampaignRow
    BY <1>1 DEF Table
  <2> QED
    BY <2>1 DEF CampaignRow
<1> QED
  BY <1>1 DEF ActiveOrigins

LEMMA CommitTypeOK ==
    ASSUME CampaignsTypeOK, NEW a \in Admin, NEW table \in Table, Commit(a, table)
    PROVE  CampaignsTypeOK'
<1>1. changed' \in [Origin -> Int]
  BY DEF Commit, CampaignsTypeOK
<1>2. admin' \in [Admin -> {"idle", "invalidate"}]
  BY DEF Commit, CampaignsTypeOK, AfterCommit
<1>3. campaigns' \in Table /\ UNCHANGED <<services, cache, loop, now, answer, failed, overtaken>>
  BY DEF Commit
<1> QED
  BY <1>1, <1>2, <1>3 DEF CampaignsTypeOK

(* The two handlers that commit write a table of rows.                     *)
LEMMA HandlersCommit ==
    ASSUME CampaignsTypeOK,
           \/ \E a \in Admin, c \in Campaign, s \in Service, r \in Request :
                 r.status = NULL /\ RegisterCampaign(a, c, s, r)
           \/ \E a \in Admin, c \in Campaign, r \in Request : UpdateCampaign(a, c, r)
    PROVE  \E a \in Admin, table \in Table : Commit(a, table)
<1>1. ASSUME NEW a \in Admin, NEW c \in Campaign, NEW s \in Service, NEW r \in Request,
             RegisterCampaign(a, c, s, r)
      PROVE  \E table \in Table : Commit(a, table)
  <2> DEFINE row == [service |-> s,
                     origins |-> IF Columns(r).origins = NULL THEN {} ELSE Columns(r).origins,
                     home    |-> Columns(r).home,
                     status  |-> "active"]
  <2>1. row \in CampaignRow
    BY <1>1, ColumnsType DEF RegisterCampaign, CampaignRow
  <2>2. Commit(a, [campaigns EXCEPT ![c] = row])
    BY <1>1 DEF RegisterCampaign
  <2> HIDE DEF row
  <2>3. [campaigns EXCEPT ![c] = row] \in Table
    BY <2>1 DEF CampaignsTypeOK, Table
  <2> QED
    BY <2>2, <2>3
<1>2. ASSUME NEW a \in Admin, NEW c \in Campaign, NEW r \in Request, UpdateCampaign(a, c, r)
      PROVE  \E table \in Table : Commit(a, table)
  <2> DEFINE row == Updated(campaigns[c], Columns(r))
  <2>1. campaigns[c] \in CampaignRow
    BY <1>2 DEF UpdateCampaign, CampaignsTypeOK, Table
  <2>2. row \in CampaignRow
    BY <1>2, <2>1, ColumnsType, UpdatedType DEF UpdateCampaign
  <2>3. Commit(a, [campaigns EXCEPT ![c] = row])
    BY <1>2 DEF UpdateCampaign
  <2> HIDE DEF row
  <2>4. [campaigns EXCEPT ![c] = row] \in Table
    BY <2>2 DEF CampaignsTypeOK, Table
  <2> QED
    BY <2>3, <2>4
<1> QED
  BY <1>1, <1>2

LEMMA CampaignsInitTypeOK == Init => CampaignsTypeOK
BY TTLAssumption DEF Init, CampaignsTypeOK, Table, NoRequest, Loop

LEMMA CampaignsStepTypeOK == CampaignsTypeOK /\ [Next]_vars => CampaignsTypeOK'
<1> SUFFICES ASSUME CampaignsTypeOK, [Next]_vars PROVE CampaignsTypeOK'
  OBVIOUS
<1>0. NoRequest \in Loop /\ NoRequest.pc = "idle"
  BY DEF NoRequest, Loop
<1>1. ASSUME NEW s \in Service, RegisterService(s) PROVE CampaignsTypeOK'
  BY <1>1 DEF CampaignsTypeOK, RegisterService
<1>2. ASSUME \E a \in Admin, table \in Table : Commit(a, table) PROVE CampaignsTypeOK'
  BY <1>2, CommitTypeOK
<1>3. ASSUME NEW a \in Admin, Invalidate(a) PROVE CampaignsTypeOK'
  BY <1>3 DEF CampaignsTypeOK, Invalidate
<1>4. ASSUME NEW o \in Origin, Ask(o) PROVE CampaignsTypeOK'
  <2>1. loop' \in Loop /\ loop'.origin \in Origin
    BY <1>4 DEF CampaignsTypeOK, Ask, Loop
  <2> QED
    BY <1>4, <2>1 DEF CampaignsTypeOK, Ask
<1>5. ASSUME Hit PROVE CampaignsTypeOK'
  <2>1. CASE cache = NULL
    BY <1>0, <1>5, <2>1 DEF CampaignsTypeOK, Hit
  <2>2. CASE cache # NULL
    <3>1. Answered(loop.origin \in cache.origins)
      BY <1>5, <2>2 DEF Hit
    <3>2. answer' \in [origin : Origin, at : Nat, allowed : BOOLEAN]
      BY <1>5, <3>1 DEF CampaignsTypeOK, Answered, Hit, Loop
    <3>3. loop' = NoRequest
      BY <3>1 DEF Answered
    <3> QED
      BY <1>0, <1>5, <3>2, <3>3 DEF CampaignsTypeOK, Hit
  <2> QED
    BY <2>1, <2>2
<1>6. ASSUME Query PROVE CampaignsTypeOK'
  <2>1. ActiveOrigins(campaigns) \subseteq Origin
    BY ActiveOriginsType DEF CampaignsTypeOK
  <2>2. loop' \in Loop /\ loop'.origin = loop.origin
    BY <1>6, <2>1 DEF CampaignsTypeOK, Query, Loop
  <2> QED
    BY <1>6, <2>2 DEF CampaignsTypeOK, Query
<1>7. ASSUME QueryFails PROVE CampaignsTypeOK'
  <2> DEFINE kept == IF cache # NULL THEN cache.origins ELSE {}
  <2>1. kept \subseteq Origin
    BY DEF CampaignsTypeOK
  <2> HIDE DEF kept
  <2>2. loop' = [loop EXCEPT !.pc = "store", !.origins = kept]
    BY <1>7 DEF QueryFails, kept
  <2>3. loop' \in Loop /\ loop'.origin = loop.origin
    BY <2>1, <2>2 DEF CampaignsTypeOK, Loop
  <2>4. failed' \in Int
    BY <1>7 DEF CampaignsTypeOK, QueryFails, Loop
  <2> QED
    BY <1>7, <2>3, <2>4 DEF CampaignsTypeOK, QueryFails
<1>8. ASSUME Store PROVE CampaignsTypeOK'
  <2>1. Answered(loop.origin \in loop.origins) /\ loop.origin \in Origin
    BY <1>8 DEF Store, CampaignsTypeOK
  <2>2. answer' \in [origin : Origin, at : Nat, allowed : BOOLEAN]
    BY <2>1 DEF CampaignsTypeOK, Answered, Loop
  <2>3. cache' \in [at : Nat, origins : SUBSET Origin]
    BY <1>8 DEF CampaignsTypeOK, Store, Loop
  <2>4. loop' = NoRequest
    BY <2>1 DEF Answered
  <2> QED
    BY <1>0, <1>8, <2>2, <2>3, <2>4 DEF CampaignsTypeOK, Store
<1>9. ASSUME Restart PROVE CampaignsTypeOK'
  BY <1>0, <1>9 DEF CampaignsTypeOK, Restart
<1>10. ASSUME Tick PROVE CampaignsTypeOK'
  BY <1>10 DEF CampaignsTypeOK, Tick
<1>11. CASE UNCHANGED vars
  BY <1>11 DEF CampaignsTypeOK, vars
<1> QED
  BY <1>1, <1>2, <1>3, <1>4, <1>5, <1>6, <1>7, <1>8, <1>9, <1>10, <1>11, HandlersCommit DEF Next

(* The variables of the registry keep to their types.                      *)
THEOREM CampaignsTypeCorrect == Spec => []CampaignsTypeOK
BY CampaignsInitTypeOK, CampaignsStepTypeOK, PTL DEF Spec

-----------------------------------------------------------------------------
(***************************************************************************)
(* StaleOnlyByRace and AnswersAreFresh speak of a finished read.  What     *)
(* makes them inductive is what a read under way knows: it was begun       *)
(* because the cache was out of date, and what it has read is as good as   *)
(* its time.                                                               *)
(***************************************************************************)

\* Of each origin the set says what the table does, or the table changed or a
\* read failed at its time or since.
Known(set, at, table, ch, fa) ==
    \A o \in Origin : \/ o \in set <=> o \in ActiveOrigins(table)
                      \/ at =< ch[o]
                      \/ at =< fa

InOrder ==
    /\ failed =< now
    /\ loop.at =< now
    /\ loop.pc # "idle" => failed =< loop.at
    /\ cache # NULL => cache.at =< now
    /\ answer # NULL => answer.at =< now

Begun ==
    /\ loop.pc \in {"query", "store"} => cache = NULL \/ ~ Fresh(cache.at)
    /\ loop.pc = "hit" /\ cache # NULL => loop.at - cache.at < TTL

ReadByRace ==
    loop.pc = "store" /\ loop.origins # ActiveOrigins(campaigns) =>
        \/ \E a \in Admin : admin[a] # "idle"
        \/ overtaken
        \/ loop.at = failed

Knows ==
    /\ cache # NULL => Known(cache.origins, cache.at, campaigns, changed, failed)
    /\ loop.pc = "store" => Known(loop.origins, loop.at, campaigns, changed, failed)

Races == StaleOnlyByRace /\ ReadByRace

Rest == InOrder /\ Begun /\ Races /\ Knows /\ AnswersAreFresh

CIInv == CampaignsTypeOK /\ Rest

LEMMA InitCIInv == Init => CIInv
<1> SUFFICES ASSUME Init PROVE CIInv
  OBVIOUS
<1>1. loop.pc = "idle" /\ loop.at = 0 /\ cache = NULL /\ answer = NULL /\ now = 0 /\ failed = -TTL
  BY DEF Init, NoRequest
<1>2. InOrder /\ Begun /\ Knows
  BY <1>1, TTLAssumption DEF InOrder, Begun, Knows
<1>3. Races /\ AnswersAreFresh
  BY <1>1 DEF Races, StaleOnlyByRace, ReadByRace, AnswersAreFresh
<1> QED
  BY <1>2, <1>3, CampaignsInitTypeOK DEF CIInv, Rest

(* A commit changes an origin now, which is no earlier than any set.       *)
LEMMA KnownAfterCommit ==
    ASSUME CampaignsTypeOK, NEW a \in Admin, NEW table \in Table, Commit(a, table),
           NEW set, NEW at \in Nat, at =< now, Known(set, at, campaigns, changed, failed)
    PROVE  Known(set, at, campaigns', changed', failed')
<1> SUFFICES ASSUME NEW o \in Origin
             PROVE  \/ o \in set <=> o \in ActiveOrigins(campaigns')
                    \/ at =< changed'[o]
                    \/ at =< failed'
  BY DEF Known
<1>1. campaigns' = table /\ failed' = failed
  BY DEF Commit
<1>2. changed'[o] = IF o \in ActiveOrigins(table) <=> o \in ActiveOrigins(campaigns)
                    THEN changed[o] ELSE now
  BY DEF Commit
<1>3. \/ o \in set <=> o \in ActiveOrigins(campaigns)
      \/ at =< changed[o]
      \/ at =< failed
  BY DEF Known
<1> QED
  BY <1>1, <1>2, <1>3

LEMMA CommitKeeps ==
    ASSUME CIInv, NEW a \in Admin, NEW table \in Table, Commit(a, table)
    PROVE  Rest'
<1>1. /\ UNCHANGED <<cache, loop, now, answer, failed, overtaken>>
      /\ campaigns' = table
  BY DEF Commit
<1>2. InOrder' /\ Begun'
  BY <1>1 DEF CIInv, Rest, InOrder, Begun, Fresh
<1>3. admin'[a] # "idle"
  BY DEF Commit, CIInv, Rest, CampaignsTypeOK, AfterCommit
<1>4. Races'
  BY <1>3 DEF Races, StaleOnlyByRace, ReadByRace
<1>5. ASSUME cache # NULL PROVE Known(cache.origins, cache.at, campaigns', changed', failed')
  <2>1. cache.at \in Nat /\ cache.at =< now /\ Known(cache.origins, cache.at, campaigns, changed, failed)
    BY <1>5 DEF CIInv, Rest, CampaignsTypeOK, InOrder, Knows
  <2> QED
    BY <2>1, KnownAfterCommit DEF CIInv, Rest
<1>6. ASSUME loop.pc = "store" PROVE Known(loop.origins, loop.at, campaigns', changed', failed')
  <2>1. loop.at \in Nat /\ loop.at =< now /\ Known(loop.origins, loop.at, campaigns, changed, failed)
    BY <1>6 DEF CIInv, Rest, CampaignsTypeOK, InOrder, Knows, Loop
  <2> QED
    BY <2>1, KnownAfterCommit DEF CIInv, Rest
<1>7. Knows'
  BY <1>1, <1>5, <1>6 DEF Knows
<1>8. AnswersAreFresh'
  <2> SUFFICES ASSUME answer # NULL
               PROVE  \/ answer.allowed <=> answer.origin \in ActiveOrigins(campaigns')
                      \/ answer.at - changed'[answer.origin] < TTL
                      \/ answer.at - failed < TTL
    BY <1>1 DEF AnswersAreFresh
  <2>1. /\ answer.origin \in Origin /\ answer.at \in Nat /\ answer.at =< now /\ now \in Nat
        /\ answer.allowed \in BOOLEAN
    BY DEF CIInv, Rest, CampaignsTypeOK, InOrder
  <2>2. \/ answer.allowed <=> answer.origin \in ActiveOrigins(campaigns)
        \/ answer.at - changed[answer.origin] < TTL
        \/ answer.at - failed < TTL
    BY DEF CIInv, Rest, AnswersAreFresh
  <2>3. CASE answer.origin \in ActiveOrigins(table) <=> answer.origin \in ActiveOrigins(campaigns)
    <3>1. changed'[answer.origin] = changed[answer.origin]
      BY <2>1, <2>3 DEF Commit
    <3> QED
      BY <1>1, <2>2, <2>3, <3>1
  <2>4. CASE ~ (answer.origin \in ActiveOrigins(table) <=> answer.origin \in ActiveOrigins(campaigns))
    <3>1. changed'[answer.origin] = now
      BY <2>1, <2>4 DEF Commit
    <3> QED
      BY <2>1, <3>1, TTLAssumption
  <2> QED
    BY <2>3, <2>4
<1> QED
  BY <1>2, <1>4, <1>7, <1>8 DEF Rest

(* An answer given from a set that is known, and less than a TTL old.      *)
LEMMA AnsweredKeeps ==
    ASSUME CIInv, NEW set, NEW at \in Nat, Known(set, at, campaigns, changed, failed),
           loop.at - at < TTL, loop.pc # "idle", Answered(loop.origin \in set),
           UNCHANGED <<campaigns, changed, failed>>
    PROVE  AnswersAreFresh'
<1>1. loop.origin \in Origin /\ loop.at \in Nat /\ failed \in Int /\ changed[loop.origin] \in Int
  BY DEF CIInv, Rest, CampaignsTypeOK, Loop
<1>2. \/ loop.origin \in set <=> loop.origin \in ActiveOrigins(campaigns)
      \/ at =< changed[loop.origin]
      \/ at =< failed
  BY <1>1 DEF Known
<1>3. /\ answer'.origin = loop.origin
      /\ answer'.at = loop.at
      /\ answer'.allowed = (loop.origin \in set)
  BY DEF Answered
<1>4. \/ loop.origin \in set <=> loop.origin \in ActiveOrigins(campaigns)
      \/ loop.at - changed[loop.origin] < TTL
      \/ loop.at - failed < TTL
  BY <1>1, <1>2, TTLAssumption
<1> QED
  BY <1>3, <1>4 DEF AnswersAreFresh

LEMMA InvalidateKeeps == ASSUME CIInv, NEW a \in Admin, Invalidate(a) PROVE Rest'
<1>1. /\ UNCHANGED <<campaigns, loop, now, answer, changed, failed>>
      /\ cache' = NULL
      /\ overtaken' = (overtaken \/ loop.pc = "store")
  BY DEF Invalidate
<1>2. InOrder' /\ Begun' /\ Knows' /\ AnswersAreFresh'
  BY <1>1 DEF CIInv, Rest, InOrder, Begun, Knows, AnswersAreFresh
<1>3. Races'
  BY <1>1 DEF Races, StaleOnlyByRace, ReadByRace
<1> QED
  BY <1>2, <1>3 DEF Rest

LEMMA AskKeeps == ASSUME CIInv, NEW o \in Origin, Ask(o) PROVE Rest'
<1>1. UNCHANGED <<campaigns, cache, admin, now, answer, changed, failed, overtaken>>
  BY DEF Ask
<1>2. /\ loop'.pc = IF cache # NULL /\ Fresh(cache.at) THEN "hit" ELSE "query"
      /\ loop'.at = now
  BY DEF Ask
<1>3. InOrder'
  BY <1>1, <1>2 DEF CIInv, Rest, CampaignsTypeOK, InOrder
<1>4. Begun'
  BY <1>1, <1>2 DEF Begun, Fresh
<1>5. Races' /\ Knows' /\ AnswersAreFresh'
  BY <1>1, <1>2 DEF CIInv, Rest, Races, StaleOnlyByRace, ReadByRace, Fresh, Knows, AnswersAreFresh
<1> QED
  BY <1>3, <1>4, <1>5 DEF Rest

(* After a request the loop is at none: only the answer is left to look at. *)
LEMMA IdleKeeps ==
    ASSUME CIInv, loop' = NoRequest, AnswersAreFresh',
           UNCHANGED <<campaigns, cache, admin, now, changed, failed, overtaken>>,
           answer' # NULL => answer'.at =< now
    PROVE  Rest'
<1>1. loop'.pc = "idle" /\ loop'.at = 0
  BY DEF NoRequest
<1>2. InOrder'
  BY <1>1 DEF CIInv, Rest, CampaignsTypeOK, InOrder
<1>3. Begun' /\ Races' /\ Knows'
  BY <1>1 DEF CIInv, Rest, Begun, Races, StaleOnlyByRace, ReadByRace, Fresh, Knows
<1> QED
  BY <1>2, <1>3 DEF Rest

LEMMA HitKeeps == ASSUME CIInv, Hit PROVE Rest'
<1>1. loop.pc = "hit" /\ UNCHANGED <<campaigns, cache, admin, now, changed, failed, overtaken>>
  BY DEF Hit
<1>2. CASE cache = NULL
  <2>1. loop' = NoRequest /\ answer' = answer
    BY <1>2 DEF Hit
  <2>2. AnswersAreFresh'
    BY <1>1, <2>1 DEF CIInv, Rest, AnswersAreFresh
  <2> QED
    BY <1>1, <2>1, <2>2, IdleKeeps DEF CIInv, Rest, InOrder
<1>3. CASE cache # NULL
  <2>1. Answered(loop.origin \in cache.origins)
    BY <1>3 DEF Hit
  <2>2. /\ cache.at \in Nat /\ loop.at - cache.at < TTL
        /\ Known(cache.origins, cache.at, campaigns, changed, failed)
    BY <1>1, <1>3 DEF CIInv, Rest, CampaignsTypeOK, Begun, Knows
  <2>3. AnswersAreFresh'
    BY <1>1, <2>1, <2>2, AnsweredKeeps
  <2>4. loop' = NoRequest /\ answer'.at =< now
    BY <2>1 DEF CIInv, Rest, InOrder, Answered
  <2> QED
    BY <1>1, <2>3, <2>4, IdleKeeps
<1> QED
  BY <1>2, <1>3

(* The cache a read was begun for is out of date until the read is stored. *)
LEMMA QueryKeeps == ASSUME CIInv, Query PROVE Rest'
<1>1. UNCHANGED <<campaigns, cache, admin, now, answer, changed, failed>>
  BY DEF Query
<1>2. /\ loop'.pc = "store" /\ loop'.at = loop.at
      /\ loop'.origins = ActiveOrigins(campaigns)
      /\ loop.pc = "query"
  BY DEF Query, CIInv, CampaignsTypeOK, Loop
<1>3. InOrder' /\ Begun'
  BY <1>1, <1>2 DEF CIInv, Rest, InOrder, Begun, Fresh
<1>4. Races'
  BY <1>1, <1>2 DEF CIInv, Rest, Begun, Races, StaleOnlyByRace, ReadByRace, Fresh
<1>5. Knows' /\ AnswersAreFresh'
  BY <1>1, <1>2 DEF CIInv, Rest, Knows, Known, AnswersAreFresh
<1> QED
  BY <1>3, <1>4, <1>5 DEF Rest

LEMMA QueryFailsKeeps == ASSUME CIInv, QueryFails PROVE Rest'
<1>1. UNCHANGED <<campaigns, cache, admin, now, answer, changed>>
  BY DEF QueryFails
<1>2. loop'.pc = "store" /\ loop'.at = loop.at /\ loop.pc = "query" /\ failed' = loop.at
  BY DEF QueryFails, CIInv, CampaignsTypeOK, Loop
<1>3. loop.at \in Nat /\ failed \in Int /\ failed =< failed' /\ failed' =< now
  BY <1>2 DEF CIInv, Rest, CampaignsTypeOK, InOrder, Loop
<1>4. InOrder' /\ Begun'
  BY <1>1, <1>2, <1>3 DEF CIInv, Rest, InOrder, Begun, Fresh
<1>5. Races'
  BY <1>1, <1>2 DEF CIInv, Rest, Begun, Races, StaleOnlyByRace, ReadByRace, Fresh
<1>6. Known(loop'.origins, loop'.at, campaigns', changed', failed')
  BY <1>2, <1>3 DEF Known
<1>7. cache # NULL => Known(cache.origins, cache.at, campaigns', changed', failed')
  <2> SUFFICES ASSUME cache # NULL, NEW o \in Origin
               PROVE  \/ o \in cache.origins <=> o \in ActiveOrigins(campaigns)
                      \/ cache.at =< changed[o]
                      \/ cache.at =< failed'
    BY <1>1 DEF Known
  <2>1. cache.at \in Nat
    BY DEF CIInv, CampaignsTypeOK
  <2>2. \/ o \in cache.origins <=> o \in ActiveOrigins(campaigns)
        \/ cache.at =< changed[o]
        \/ cache.at =< failed
    BY DEF CIInv, Rest, Knows, Known
  <2> QED
    BY <1>2, <1>3, <2>1, <2>2
<1>8. Knows'
  BY <1>1, <1>6, <1>7 DEF Knows
<1>9. AnswersAreFresh'
  <2> SUFFICES ASSUME answer # NULL, answer.at - failed < TTL PROVE answer.at - failed' < TTL
    BY <1>1 DEF CIInv, Rest, AnswersAreFresh
  <2>1. answer.at \in Nat
    BY DEF CIInv, CampaignsTypeOK
  <2> QED
    BY <1>2, <1>3, <2>1, TTLAssumption
<1> QED
  BY <1>4, <1>5, <1>8, <1>9 DEF Rest

LEMMA StoreKeeps == ASSUME CIInv, Store PROVE Rest'
<1>1. loop.pc = "store" /\ UNCHANGED <<campaigns, admin, now, changed, failed, overtaken>>
  BY DEF Store
<1>2. Answered(loop.origin \in loop.origins) /\ cache' = [at |-> loop.at, origins |-> loop.origins]
  BY DEF Store
<1>3. /\ loop.at \in Nat /\ loop.at - loop.at < TTL
      /\ Known(loop.origins, loop.at, campaigns, changed, failed)
  BY <1>1, TTLAssumption DEF CIInv, Rest, CampaignsTypeOK, Loop, Knows
<1>4. AnswersAreFresh'
  BY <1>1, <1>2, <1>3, AnsweredKeeps
<1>5. loop'.pc = "idle" /\ loop'.at = 0 /\ answer'.at = loop.at
  BY <1>2 DEF Answered, NoRequest
<1>6. InOrder'
  BY <1>1, <1>2, <1>5 DEF CIInv, Rest, CampaignsTypeOK, InOrder
<1>7. Begun' /\ Knows'
  BY <1>1, <1>2, <1>3, <1>5 DEF Begun, Knows
<1>8. Races'
  BY <1>1, <1>2, <1>5 DEF CIInv, Rest, Races, StaleOnlyByRace, ReadByRace
<1> QED
  BY <1>4, <1>6, <1>7, <1>8 DEF Rest

LEMMA RestartKeeps == ASSUME CIInv, Restart PROVE Rest'
<1>1. UNCHANGED <<campaigns, now, answer, changed, failed>> /\ cache' = NULL /\ loop' = NoRequest
  BY DEF Restart
<1>2. loop'.pc = "idle" /\ loop'.at = 0
  BY <1>1 DEF NoRequest
<1>3. InOrder' /\ Begun' /\ Races'
  BY <1>1, <1>2 DEF CIInv, Rest, CampaignsTypeOK, InOrder, Begun, Races, StaleOnlyByRace, ReadByRace
<1>4. Knows' /\ AnswersAreFresh'
  BY <1>1, <1>2 DEF CIInv, Rest, Knows, AnswersAreFresh
<1> QED
  BY <1>3, <1>4 DEF Rest

LEMMA TickKeeps == ASSUME CIInv, Tick PROVE Rest'
<1>1. /\ UNCHANGED <<campaigns, cache, loop, admin, answer, changed, failed, overtaken>>
      /\ now' = now + 1
  BY DEF Tick
<1>2. /\ now \in Nat /\ failed \in Int /\ loop.at \in Nat
      /\ cache # NULL => cache.at \in Nat
      /\ answer # NULL => answer.at \in Nat
  BY DEF CIInv, CampaignsTypeOK, Loop
<1>3. InOrder'
  BY <1>1, <1>2 DEF CIInv, Rest, InOrder
<1>4. ASSUME cache # NULL, Fresh(cache.at)' PROVE Fresh(cache.at)
  BY <1>1, <1>2, <1>4, TTLAssumption DEF Fresh
<1>5. Begun' /\ Races'
  BY <1>1, <1>4 DEF CIInv, Rest, Begun, Races, StaleOnlyByRace, ReadByRace
<1>6. Knows' /\ AnswersAreFresh'
  BY <1>1 DEF CIInv, Rest, Knows, AnswersAreFresh
<1> QED
  BY <1>3, <1>5, <1>6 DEF Rest

LEMMA SameKeeps ==
    ASSUME CIInv, UNCHANGED <<campaigns, cache, loop, admin, now, answer, changed, failed, overtaken>>
    PROVE  Rest'
<1>1. InOrder' /\ Begun' /\ Knows' /\ AnswersAreFresh'
  BY DEF CIInv, Rest, InOrder, Begun, Fresh, Knows, AnswersAreFresh
<1>2. Races'
  BY DEF CIInv, Rest, Races, StaleOnlyByRace, ReadByRace, Fresh
<1> QED
  BY <1>1, <1>2 DEF Rest

LEMMA StepCIInv == CIInv /\ [Next]_vars => CIInv'
<1> SUFFICES ASSUME CIInv, [Next]_vars PROVE CIInv'
  OBVIOUS
<1>1. CampaignsTypeOK'
  BY CampaignsStepTypeOK DEF CIInv
<1>2. CASE \E s \in Service : RegisterService(s)
  BY <1>1, <1>2, SameKeeps DEF RegisterService, CIInv
<1>3. CASE \/ \E a \in Admin, c \in Campaign, s \in Service, r \in Request :
                 r.status = NULL /\ RegisterCampaign(a, c, s, r)
           \/ \E a \in Admin, c \in Campaign, r \in Request : UpdateCampaign(a, c, r)
  <2>1. \E a \in Admin, table \in Table : Commit(a, table)
    BY <1>3, HandlersCommit DEF CIInv
  <2> QED
    BY <1>1, <2>1, CommitKeeps DEF CIInv
<1>4. CASE UNCHANGED vars
  BY <1>1, <1>4, SameKeeps DEF vars, CIInv
<1>5. CASE \/ \E a \in Admin : Invalidate(a)
           \/ \E o \in Origin \ BadOrigin : Ask(o)
           \/ Hit \/ Query \/ QueryFails \/ Store \/ Restart \/ Tick
  <2>1. Rest'
    BY <1>5, InvalidateKeeps, AskKeeps, HitKeeps, QueryKeeps, QueryFailsKeeps, StoreKeeps,
       RestartKeeps, TickKeeps
  <2> QED
    BY <1>1, <2>1 DEF CIInv
<1> QED
  BY <1>2, <1>3, <1>4, <1>5 DEF Next

LEMMA AlwaysCIInv == Spec => []CIInv
BY InitCIInv, StepCIInv, PTL DEF Spec

(***************************************************************************)
(* A set in use differs from the table only by the race of an invalidation *)
(* with a read, or after a read that failed (origins.py:31-47).            *)
(***************************************************************************)
THEOREM StaleByRaceOnly == Spec => []StaleOnlyByRace
<1>1. CIInv => StaleOnlyByRace
  BY DEF CIInv, Rest, Races
<1> QED
  BY <1>1, AlwaysCIInv, PTL

(***************************************************************************)
(* An answer that is wrong is wrong by less than a TTL, or by a failed     *)
(* read within it (origins.py:31-42).                                      *)
(***************************************************************************)
THEOREM WrongForLessThanTTL == Spec => []AnswersAreFresh
<1>1. CIInv => AnswersAreFresh
  BY DEF CIInv, Rest
<1> QED
  BY <1>1, AlwaysCIInv, PTL

-----------------------------------------------------------------------------
(***************************************************************************)
(* Devices: a thread that has upserted its device holds a count the table  *)
(* has reached; a score is a time its device was recorded for, and the     *)
(* latest one unless outrun, while that is less than a window ago.         *)
(***************************************************************************)
Submission == [pc : {"idle", "upsert", "write", "cluster", "record", "done"},
               device : Device \cup {NIL}, count : Nat, cached : BOOLEAN, at : Nat, cluster : Nat]

DevicesTypeOK ==
    /\ devices \in [Device -> Nat]
    /\ copy \in [Device -> Nat \cup {NIL}]
    /\ bsig \in [Device -> Int \cup {NIL}]
    /\ ends \in Int \cup {NIL}
    /\ met \in [Device -> Int \cup {NIL}]
    /\ clock \in Nat
    /\ thread \in [Thread -> Submission]
    /\ \A t \in Thread : thread[t].pc # "idle" => thread[t].device \in Device

InStep(t) ==
    /\ thread[t].pc = "idle" => ~ thread[t].cached
    /\ thread[t].pc = "upsert" /\ thread[t].cached => devices[thread[t].device] > 0
    /\ thread[t].pc = "write" => thread[t].count \in 1..devices[thread[t].device]
    /\ thread[t].cached /\ thread[t].pc # "upsert" => thread[t].count > 1
    /\ thread[t].at =< clock

CopyReached == \A d \in Device : copy[d] # NIL => copy[d] \in 1..devices[d]

\* What the set says of a device at a time, and until when the key lives.
SetSays(d, score, latest, out, end, time) ==
    /\ score # NIL => latest # NIL /\ score =< latest
    /\ latest # NIL => latest =< time
    /\ latest # NIL /\ latest > time - Window =>
          /\ end # NIL /\ latest + Window =< end
          /\ d \notin out => score = latest

SetIsWindow == \A d \in Device : SetSays(d, bsig[d], met[d], outrun, ends, clock)

DIInv ==
    /\ DevicesTypeOK
    /\ CopyReached
    /\ SetIsWindow
    /\ \A t \in Thread : InStep(t)

LEMMA DIInvImplies == DIInv => CopyBehindTable
<1> SUFFICES ASSUME DIInv PROVE CopyBehindTable
  OBVIOUS
<1>1. \A d \in Device : copy[d] # NIL => copy[d] =< devices[d]
  BY DEF DIInv, DevicesTypeOK, CopyReached
<1>2. \A t \in Thread : thread[t].cached /\ thread[t].pc # "upsert" => thread[t].count > 1
  BY DEF DIInv, InStep
<1> QED
  BY <1>1, <1>2 DEF CopyBehindTable

LEMMA InitDIInv == DevicesInit => DIInv
<1> SUFFICES ASSUME DevicesInit PROVE DIInv
  OBVIOUS
<1>1. /\ NoSubmission \in Submission /\ NoSubmission.pc = "idle" /\ ~ NoSubmission.cached
      /\ NoSubmission.at = 0
  BY DEF NoSubmission, Submission
<1>2. DevicesTypeOK
  BY <1>1 DEF DevicesInit, DevicesTypeOK, NoSet
<1>3. CopyReached /\ SetIsWindow
  BY DEF DevicesInit, CopyReached, SetIsWindow, SetSays, NoSet
<1>4. \A t \in Thread : InStep(t)
  BY <1>1 DEF DevicesInit, InStep
<1> QED
  BY <1>2, <1>3, <1>4 DEF DIInv

(***************************************************************************)
(* The counts of the table only grow, so that a step of one thread leaves  *)
(* the others as they are.                                                 *)
(***************************************************************************)
DevicesGrow ==
    /\ devices' \in [Device -> Nat]
    /\ \A d \in Device : devices[d] =< devices'[d]
    /\ clock' \in Nat /\ clock =< clock'

LEMMA InStepStays ==
    ASSUME DIInv, DevicesGrow, NEW t \in Thread, thread'[t] = thread[t]
    PROVE  InStep(t)'
<1>1. thread[t] \in Submission /\ (thread[t].pc # "idle" => thread[t].device \in Device) /\ InStep(t)
  BY DEF DIInv, DevicesTypeOK
<1>2. thread[t].pc # "idle" =>
         /\ devices[thread[t].device] \in Nat
         /\ devices'[thread[t].device] \in Nat
         /\ devices[thread[t].device] =< devices'[thread[t].device]
  BY <1>1 DEF DIInv, DevicesTypeOK, DevicesGrow
<1>3. thread[t].pc = "upsert" /\ thread[t].cached => devices'[thread[t].device] > 0
  BY <1>1, <1>2 DEF InStep
<1>4. thread[t].pc = "write" => thread[t].count \in 1..devices'[thread[t].device]
  BY <1>1, <1>2 DEF InStep
<1>5. thread[t].at =< clock'
  BY <1>1 DEF InStep, DIInv, DevicesTypeOK, DevicesGrow, Submission
<1> QED
  BY <1>1, <1>3, <1>4, <1>5 DEF InStep

(* A step of a thread: what is left to show of it.                         *)
LEMMA ThreadStep ==
    ASSUME DIInv, NEW t \in Thread, NEW s \in Submission, thread' = [thread EXCEPT ![t] = s],
           s.pc # "idle" => s.device \in Device,
           s.pc = "idle" => ~ s.cached,
           s.pc = "upsert" /\ s.cached => devices'[s.device] > 0,
           s.pc = "write" => s.count \in 1..devices'[s.device],
           s.cached /\ s.pc # "upsert" => s.count > 1,
           s.at =< clock',
           DevicesGrow
    PROVE  /\ thread' \in [Thread -> Submission]
           /\ \A u \in Thread : thread'[u].pc # "idle" => thread'[u].device \in Device
           /\ \A u \in Thread : InStep(u)'
<1>1. thread'[t] = s
  BY DEF DIInv, DevicesTypeOK
<1>2. \A u \in Thread : u # t => thread'[u] = thread[u]
  BY DEF DIInv, DevicesTypeOK
<1>3. thread' \in [Thread -> Submission]
  BY DEF DIInv, DevicesTypeOK
<1>4. \A u \in Thread : thread'[u].pc # "idle" => thread'[u].device \in Device
  BY <1>1, <1>2 DEF DIInv, DevicesTypeOK
<1>5. InStep(t)'
  BY <1>1 DEF InStep
<1>6. \A u \in Thread : InStep(u)'
  BY <1>2, <1>5, InStepStays
<1> QED
  BY <1>3, <1>4, <1>6

(* What is left to show where the copies, the set and time stay.           *)
LEMMA OnlyThreads ==
    ASSUME DIInv, UNCHANGED <<devices, copy, clock, setvars>>,
           thread' \in [Thread -> Submission],
           \A u \in Thread : thread'[u].pc # "idle" => thread'[u].device \in Device,
           \A u \in Thread : InStep(u)'
    PROVE  DIInv'
<1>1. DevicesTypeOK'
  BY DEF DIInv, DevicesTypeOK, setvars
<1>2. CopyReached' /\ SetIsWindow'
  BY DEF DIInv, CopyReached, SetIsWindow, setvars
<1> QED
  BY <1>1, <1>2 DEF DIInv

LEMMA LookUpKeeps == ASSUME DIInv, NEW t \in Thread, NEW d \in Device, LookUp(t, d) PROVE DIInv'
<1> DEFINE found == copy[d] # NIL
           s == [pc |-> "upsert", device |-> d, count |-> 0, cached |-> found, at |-> 0, cluster |-> 0]
<1>1. UNCHANGED <<devices, copy, clock, setvars>>
  BY DEF LookUp
<1>2. thread' = [thread EXCEPT ![t] = s]
  BY DEF LookUp
<1>3. found => devices'[d] > 0
  BY <1>1 DEF DIInv, DevicesTypeOK, CopyReached
<1>4. found \in BOOLEAN
  OBVIOUS
<1> HIDE DEF found
<1>5. s \in Submission
  BY <1>4 DEF Submission
<1>6. DevicesGrow /\ 0 =< clock'
  BY <1>1 DEF DIInv, DevicesTypeOK, DevicesGrow
<1>7. /\ thread' \in [Thread -> Submission]
      /\ \A u \in Thread : thread'[u].pc # "idle" => thread'[u].device \in Device
      /\ \A u \in Thread : InStep(u)'
  BY <1>2, <1>3, <1>5, <1>6, ThreadStep
<1> QED
  BY <1>1, <1>7, OnlyThreads

LEMMA UpsertKeeps == ASSUME DIInv, NEW t \in Thread, Upsert(t) PROVE DIInv'
<1> DEFINE d == thread[t].device
           n == devices[d] + 1
           s == [thread[t] EXCEPT !.pc = "write", !.count = n]
<1>1. UNCHANGED <<copy, clock, setvars>> /\ devices' = [devices EXCEPT ![d] = @ + 1]
  BY DEF Upsert
<1>2. thread[t] \in Submission /\ d \in Device /\ InStep(t) /\ thread[t].pc = "upsert"
  BY DEF DIInv, DevicesTypeOK, Upsert
<1>3. thread' = [thread EXCEPT ![t] = s]
  BY DEF Upsert, DIInv, DevicesTypeOK
<1>4. devices[d] \in Nat /\ n \in Nat /\ devices'[d] = devices[d] + 1
  BY <1>1, <1>2 DEF DIInv, DevicesTypeOK
<1>5. DevicesGrow
  BY <1>1, <1>2, <1>4 DEF DIInv, DevicesTypeOK, DevicesGrow
<1>6. n = devices[d] + 1
  OBVIOUS
<1> HIDE DEF n
<1>7. /\ s \in Submission /\ s.pc = "write" /\ s.device = d /\ s.count = n
      /\ s.cached = thread[t].cached /\ s.at = thread[t].at
  BY <1>2, <1>4 DEF Submission
<1>8. s.cached => s.count > 1
  BY <1>2, <1>4, <1>6, <1>7 DEF InStep
<1>9. s.count \in 1..devices'[s.device]
  BY <1>4, <1>6, <1>7
<1> HIDE DEF s
<1>10. s.at =< clock'
  BY <1>1, <1>2, <1>7 DEF InStep
<1>11. /\ thread' \in [Thread -> Submission]
       /\ \A u \in Thread : thread'[u].pc # "idle" => thread'[u].device \in Device
       /\ \A u \in Thread : InStep(u)'
  BY <1>2, <1>3, <1>5, <1>7, <1>8, <1>9, <1>10, ThreadStep
<1>12. CopyReached'
  BY <1>1, <1>5 DEF DIInv, DevicesTypeOK, CopyReached, DevicesGrow
<1>13. SetIsWindow'
  BY <1>1 DEF DIInv, SetIsWindow, setvars
<1>14. UNCHANGED <<copy, clock, setvars>> /\ devices' \in [Device -> Nat]
  BY <1>1, <1>5 DEF DevicesGrow
<1>15. DevicesTypeOK'
  BY <1>11, <1>14 DEF DIInv, DevicesTypeOK, setvars
<1> QED
  BY <1>11, <1>12, <1>13, <1>15 DEF DIInv

LEMMA WriteThroughKeeps == ASSUME DIInv, NEW t \in Thread, WriteThrough(t) PROVE DIInv'
<1> DEFINE d == thread[t].device
           s == [thread[t] EXCEPT !.pc = "cluster"]
<1>1. UNCHANGED <<devices, clock, setvars>> /\ copy' = [copy EXCEPT ![d] = thread[t].count]
  BY DEF WriteThrough, Written
<1>2. thread[t] \in Submission /\ d \in Device /\ InStep(t) /\ thread[t].pc = "write"
  BY DEF DIInv, DevicesTypeOK, WriteThrough
<1>3. thread' = [thread EXCEPT ![t] = s]
  BY DEF WriteThrough, DIInv, DevicesTypeOK
<1>4. /\ s \in Submission /\ s.pc = "cluster" /\ s.device = d /\ (s.cached => s.count > 1)
      /\ s.at =< clock'
  BY <1>1, <1>2 DEF Submission, InStep
<1>5. DevicesGrow
  BY <1>1 DEF DIInv, DevicesTypeOK, DevicesGrow
<1> HIDE DEF s
<1>6. /\ thread' \in [Thread -> Submission]
      /\ \A u \in Thread : thread'[u].pc # "idle" => thread'[u].device \in Device
      /\ \A u \in Thread : InStep(u)'
  BY <1>2, <1>3, <1>4, <1>5, ThreadStep
<1>7. thread[t].count \in Nat /\ thread[t].count \in 1..devices[d]
  BY <1>2 DEF InStep, Submission
<1>8. copy' \in [Device -> Nat \cup {NIL}] /\ CopyReached'
  BY <1>1, <1>2, <1>7 DEF DIInv, DevicesTypeOK, CopyReached
<1>9. SetIsWindow'
  BY <1>1 DEF DIInv, SetIsWindow, setvars
<1> QED
  BY <1>1, <1>6, <1>8, <1>9 DEF DIInv, DevicesTypeOK, setvars

(* A step of a submission whose row and copy are written.                  *)
LEMMA LaterStep ==
    ASSUME DIInv, NEW t \in Thread, thread[t].pc \in {"cluster", "record"},
           NEW pc \in {"record", "done"}, NEW at \in Nat, at =< clock, NEW n \in Nat,
           thread' = [thread EXCEPT ![t] = [thread[t] EXCEPT !.pc = pc, !.at = at, !.cluster = n]],
           UNCHANGED <<devices, clock>>
    PROVE  /\ thread' \in [Thread -> Submission]
           /\ \A u \in Thread : thread'[u].pc # "idle" => thread'[u].device \in Device
           /\ \A u \in Thread : InStep(u)'
<1> DEFINE s == [thread[t] EXCEPT !.pc = pc, !.at = at, !.cluster = n]
<1>1. thread[t] \in Submission /\ thread[t].device \in Device /\ InStep(t)
  BY DEF DIInv, DevicesTypeOK
<1>2. /\ s \in Submission /\ s.pc = pc /\ s.device \in Device /\ (s.cached => s.count > 1)
      /\ s.at =< clock'
  BY <1>1 DEF Submission, InStep
<1>3. DevicesGrow
  BY DEF DIInv, DevicesTypeOK, DevicesGrow
<1> HIDE DEF s
<1>4. thread' = [thread EXCEPT ![t] = s]
  BY DEF s
<1> QED
  BY <1>2, <1>3, <1>4, ThreadStep

LEMMA ReadClockKeeps == ASSUME DIInv, NEW t \in Thread, ReadClock(t) PROVE DIInv'
<1> DEFINE n == thread[t].cluster
           at == clock
<1>1. UNCHANGED <<devices, copy, clock, setvars>>
  BY DEF ReadClock
<1>2. /\ thread[t].pc \in {"cluster", "record"} /\ n \in Nat /\ at \in Nat /\ at =< clock
      /\ UNCHANGED <<devices, clock>>
  BY DEF ReadClock, DIInv, DevicesTypeOK, Submission
<1>3. thread' = [thread EXCEPT ![t] = [thread[t] EXCEPT !.pc = "record", !.at = at, !.cluster = n]]
  BY DEF ReadClock, DIInv, DevicesTypeOK, Submission
<1> HIDE DEF n, at
<1>4. /\ thread' \in [Thread -> Submission]
      /\ \A u \in Thread : thread'[u].pc # "idle" => thread'[u].device \in Device
      /\ \A u \in Thread : InStep(u)'
  BY <1>2, <1>3, LaterStep
<1> QED
  BY <1>1, <1>4, OnlyThreads

LEMMA ClusterSizeSets ==
    ASSUME DIInv, NEW t \in Thread, ClusterSize(t)
    PROVE  /\ bsig' \in [Device -> Int \cup {NIL}]
           /\ met' \in [Device -> Int \cup {NIL}]
           /\ ends' \in Int
           /\ \A d \in Device : SetSays(d, bsig'[d], met'[d], outrun', ends', clock)
           /\ \A d \in Device : bsig'[d] # NIL => bsig'[d] > thread[t].at - Window
<1> DEFINE b == thread[t].device
           at == thread[t].at
           added == [bsig EXCEPT ![b] = at]
           earlier == met[b] # NIL /\ at < met[b]
<1>1. /\ b \in Device /\ clock \in Nat /\ at \in Nat /\ at =< clock /\ Window \in Nat
      /\ clock # NIL /\ at # NIL
  BY DevicesAssumption DEF DIInv, DevicesTypeOK, InStep, Submission, ClusterSize
<1>2. bsig' = [d \in Device |->
                 IF added[d] # NIL /\ added[d] > at - Window THEN added[d] ELSE NIL]
  BY DEF ClusterSize, Recorded
<1>3. met' = IF earlier THEN met ELSE [met EXCEPT ![b] = at]
  BY DEF ClusterSize
<1>4. ends' = clock + Window /\ ends' \in Int /\ ends' # NIL
  BY <1>1, DevicesAssumption DEF ClusterSize
<1>5. outrun' = IF earlier THEN outrun \cup {b} ELSE outrun \ {b}
  BY DEF ClusterSize
<1>6. ASSUME NEW d \in Device
      PROVE  /\ bsig'[d] \in Int \cup {NIL} /\ met'[d] \in Int \cup {NIL}
             /\ SetSays(d, bsig'[d], met'[d], outrun', ends', clock)
             /\ bsig'[d] # NIL => bsig'[d] > at - Window
  <2>1. /\ bsig[d] \in Int \cup {NIL} /\ met[d] \in Int \cup {NIL}
        /\ SetSays(d, bsig[d], met[d], outrun, ends, clock)
    BY DEF DIInv, DevicesTypeOK, SetIsWindow
  <2>2. CASE d = b
    <3>1. added[d] = at /\ met'[d] = IF earlier THEN met[d] ELSE at
      BY <1>1, <1>3, <2>2 DEF DIInv, DevicesTypeOK
    <3>2. bsig'[d] = IF at > at - Window THEN at ELSE NIL
      BY <1>1, <1>2, <3>1
    <3>3. d \notin outrun' => ~ earlier
      BY <1>5, <2>2
    <3>4. earlier => met[d] # NIL /\ at < met[d]
      BY <2>2
    <3> HIDE DEF earlier, at, added
    <3> QED
      BY <1>1, <1>4, <2>1, <3>1, <3>2, <3>3, <3>4 DEF SetSays
  <2>3. CASE d # b
    <3>1. added[d] = bsig[d] /\ met'[d] = met[d] /\ (d \in outrun' <=> d \in outrun)
      BY <1>1, <1>3, <1>5, <2>3 DEF DIInv, DevicesTypeOK
    <3>2. bsig'[d] = IF bsig[d] # NIL /\ bsig[d] > at - Window THEN bsig[d] ELSE NIL
      BY <1>2, <3>1
    <3> HIDE DEF at, added, earlier
    <3> QED
      BY <1>1, <1>4, <2>1, <3>1, <3>2 DEF SetSays
  <2> QED
    BY <2>2, <2>3
<1>7. bsig' \in [Device -> Int \cup {NIL}]
  BY <1>2, <1>6
<1>8. met' \in [Device -> Int \cup {NIL}]
  BY <1>1, <1>3 DEF DIInv, DevicesTypeOK
<1> QED
  BY <1>4, <1>6, <1>7, <1>8

LEMMA ClusterSizeKeeps == ASSUME DIInv, NEW t \in Thread, ClusterSize(t) PROVE DIInv'
<1>1. IsFiniteSet({e \in Device : bsig'[e] # NIL})
  BY DevicesAssumption, FS_Subset
<1>2. thread[t].pc = "record" /\ UNCHANGED <<devices, copy, clock>>
  BY DEF ClusterSize
<1>3. PICK n \in Nat : thread' = [thread EXCEPT ![t].pc = "done", ![t].cluster = n]
  BY <1>1, FS_CardinalityType DEF ClusterSize
<1>4. thread[t] \in Submission /\ thread[t].at \in Nat /\ thread[t].at =< clock
  BY DEF DIInv, DevicesTypeOK, InStep, Submission
<1>5. thread' = [thread EXCEPT ![t] =
          [thread[t] EXCEPT !.pc = "done", !.at = thread[t].at, !.cluster = n]]
  BY <1>3, <1>4 DEF DIInv, DevicesTypeOK, Submission
<1>6. /\ thread' \in [Thread -> Submission]
      /\ \A u \in Thread : thread'[u].pc # "idle" => thread'[u].device \in Device
      /\ \A u \in Thread : InStep(u)'
  BY <1>2, <1>4, <1>5, LaterStep
<1>7. /\ bsig' \in [Device -> Int \cup {NIL}] /\ met' \in [Device -> Int \cup {NIL}]
      /\ ends' \in Int /\ SetIsWindow'
  BY <1>2, ClusterSizeSets DEF SetIsWindow
<1>8. DevicesTypeOK'
  BY <1>2, <1>6, <1>7 DEF DIInv, DevicesTypeOK
<1>9. CopyReached'
  BY <1>2 DEF DIInv, CopyReached
<1> QED
  BY <1>6, <1>7, <1>8, <1>9 DEF DIInv

LEMMA NoClusterKeeps == ASSUME DIInv, NEW t \in Thread, NoCluster(t) PROVE DIInv'
<1>1. thread[t].pc \in {"cluster", "record"} /\ UNCHANGED <<devices, copy, clock, setvars>>
  BY DEF NoCluster
<1>2. thread[t].cluster \in Nat /\ thread[t].at \in Nat /\ thread[t].at =< clock
  BY DEF DIInv, DevicesTypeOK, InStep, Submission
<1>3. thread' = [thread EXCEPT ![t] =
          [thread[t] EXCEPT !.pc = "done", !.at = thread[t].at, !.cluster = thread[t].cluster]]
  BY DEF NoCluster, DIInv, DevicesTypeOK, Submission
<1>4. /\ thread' \in [Thread -> Submission]
      /\ \A u \in Thread : thread'[u].pc # "idle" => thread'[u].device \in Device
      /\ \A u \in Thread : InStep(u)'
  BY <1>1, <1>2, <1>3, LaterStep
<1> QED
  BY <1>1, <1>4, OnlyThreads

LEMMA FailKeeps == ASSUME DIInv, NEW t \in Thread, Fail(t) PROVE DIInv'
<1>1. UNCHANGED <<devices, copy, clock, setvars>> /\ thread' = [thread EXCEPT ![t] = NoSubmission]
  BY DEF Fail
<1>2. /\ NoSubmission \in Submission /\ NoSubmission.pc = "idle" /\ ~ NoSubmission.cached
      /\ NoSubmission.at = 0
  BY DEF NoSubmission, Submission
<1>3. DevicesGrow /\ 0 =< clock'
  BY <1>1 DEF DIInv, DevicesTypeOK, DevicesGrow
<1>4. /\ thread' \in [Thread -> Submission]
      /\ \A u \in Thread : thread'[u].pc # "idle" => thread'[u].device \in Device
      /\ \A u \in Thread : InStep(u)'
  BY <1>1, <1>2, <1>3, ThreadStep
<1> QED
  BY <1>1, <1>4, OnlyThreads

LEMMA OthersKeep ==
    ASSUME DIInv, UNCHANGED <<devices, thread>>, clock' \in Nat, clock =< clock'
    PROVE  \A t \in Thread : InStep(t)'
<1>1. DevicesGrow
  BY DEF DIInv, DevicesTypeOK, DevicesGrow
<1> QED
  BY <1>1, InStepStays

LEMMA ExpireKeeps == ASSUME DIInv, NEW d \in Device, Expire(d) PROVE DIInv'
<1>1. UNCHANGED <<devices, clock, thread, setvars>> /\ copy' = [copy EXCEPT ![d] = NIL]
  BY DEF Expire
<1>2. DevicesTypeOK'
  BY <1>1 DEF DIInv, DevicesTypeOK, setvars
<1>3. CopyReached' /\ SetIsWindow'
  BY <1>1 DEF DIInv, DevicesTypeOK, CopyReached, SetIsWindow, setvars
<1>4. clock' \in Nat /\ clock =< clock'
  BY <1>1 DEF DIInv, DevicesTypeOK
<1> QED
  BY <1>1, <1>2, <1>3, <1>4, OthersKeep DEF DIInv

LEMMA EvictSetKeeps == ASSUME DIInv, EvictSet PROVE DIInv'
<1>1. /\ UNCHANGED <<devices, copy, clock, thread>>
      /\ bsig' = NoSet /\ ends' = NIL /\ met' = NoSet /\ outrun' = {}
  BY DEF EvictSet
<1>2. NoSet \in [Device -> Int \cup {NIL}] /\ \A d \in Device : NoSet[d] = NIL
  BY DEF NoSet
<1>3. DevicesTypeOK' /\ CopyReached'
  BY <1>1, <1>2 DEF DIInv, DevicesTypeOK, CopyReached
<1>4. SetIsWindow'
  BY <1>1, <1>2 DEF SetIsWindow, SetSays
<1>5. clock' \in Nat /\ clock =< clock'
  BY <1>1 DEF DIInv, DevicesTypeOK
<1> QED
  BY <1>1, <1>3, <1>4, <1>5, OthersKeep DEF DIInv

(* The set expires only when all of it has left the window.                *)
LEMMA PassKeeps == ASSUME DIInv, Pass PROVE DIInv'
<1>1. UNCHANGED <<devices, copy, thread, met, outrun>> /\ clock' = clock + 1
  BY DEF Pass
<1>2. clock \in Nat /\ Window \in Nat /\ clock' \in Nat /\ clock =< clock'
  BY <1>1, DevicesAssumption DEF DIInv, DevicesTypeOK
<1>3. \/ bsig' = NoSet /\ ends' = NIL /\ ends =< clock' /\ ends # NIL
      \/ UNCHANGED <<bsig, ends>>
  BY DEF Pass
<1>4. NoSet \in [Device -> Int \cup {NIL}] /\ \A d \in Device : NoSet[d] = NIL
  BY DEF NoSet
<1>5. ASSUME NEW d \in Device PROVE SetSays(d, bsig'[d], met'[d], outrun', ends', clock')
  <2>1. /\ SetSays(d, bsig[d], met[d], outrun, ends, clock)
        /\ met[d] \in Int \cup {NIL} /\ ends \in Int \cup {NIL}
    BY DEF DIInv, DevicesTypeOK, SetIsWindow
  <2>2. met'[d] = met[d] /\ outrun' = outrun
    BY <1>1
  <2>3. CASE UNCHANGED <<bsig, ends>>
    BY <1>1, <1>2, <2>1, <2>2, <2>3 DEF SetSays
  <2>4. CASE bsig' = NoSet /\ ends' = NIL /\ ends =< clock' /\ ends # NIL
    <3>1. bsig'[d] = NIL
      BY <1>4, <2>4
    <3>2. ~ (met[d] # NIL /\ met[d] > clock' - Window)
      BY <1>1, <1>2, <2>1, <2>4 DEF SetSays
    <3>3. met[d] # NIL => met[d] =< clock'
      BY <1>1, <1>2, <2>1 DEF SetSays
    <3> QED
      BY <2>2, <3>1, <3>2, <3>3 DEF SetSays
  <2> QED
    BY <1>3, <2>3, <2>4
<1>6. DevicesTypeOK'
  BY <1>1, <1>2, <1>3, <1>4 DEF DIInv, DevicesTypeOK
<1>7. CopyReached' /\ SetIsWindow'
  BY <1>1, <1>5 DEF DIInv, CopyReached, SetIsWindow
<1> QED
  BY <1>1, <1>2, <1>6, <1>7, OthersKeep DEF DIInv

LEMMA StepDIInv == DIInv /\ [DevicesNext]_dvars => DIInv'
<1> SUFFICES ASSUME DIInv, [DevicesNext]_dvars PROVE DIInv'
  OBVIOUS
<1>1. CASE UNCHANGED dvars
  <2>1. UNCHANGED <<devices, copy, clock, thread, setvars>>
    BY <1>1 DEF dvars, setvars
  <2>2. \A t \in Thread : InStep(t)'
    BY <2>1 DEF DIInv, InStep
  <2> QED
    BY <2>1, <2>2, OnlyThreads DEF DIInv, DevicesTypeOK
<1>2. CASE DevicesNext
  BY <1>2, LookUpKeeps, UpsertKeeps, WriteThroughKeeps, ReadClockKeeps, ClusterSizeKeeps, NoClusterKeeps,
     FailKeeps, ExpireKeeps, EvictSetKeeps, PassKeeps DEF DevicesNext
<1> QED
  BY <1>1, <1>2

LEMMA AlwaysDIInv == DevicesSpec => []DIInv
BY InitDIInv, StepDIInv, PTL DEF DevicesSpec

(***************************************************************************)
(* The copy of a device never runs ahead of its row (service.py:28-36).    *)
(***************************************************************************)
THEOREM CopyNeverAhead == DevicesSpec => []CopyBehindTable
BY AlwaysDIInv, DIInvImplies, PTL

(* The devices recorded for a time less than a window before this one.     *)
MetSince(time) == {d \in Device : met'[d] # NIL /\ met'[d] > time - Window}

LEMMA StepClusterIsWindow ==
    ASSUME DIInv, DevicesNext, NEW t \in Thread, thread'[t].cluster > thread[t].cluster
    PROVE  /\ thread'[t].cluster =< Cardinality(MetSince(thread[t].at))
           /\ thread'[t].cluster >= Cardinality(MetSince(clock) \ outrun')
<1> DEFINE counted == {d \in Device : bsig'[d] # NIL}
<1>1. thread[t].cluster \in Nat /\ thread \in [Thread -> Submission]
  BY DEF DIInv, DevicesTypeOK, Submission
<1>2. ASSUME NEW u \in Thread, ClusterSize(u)
      PROVE  /\ thread'[t].cluster =< Cardinality(MetSince(thread[t].at))
             /\ thread'[t].cluster >= Cardinality(MetSince(clock) \ outrun')
  <2>1. CASE t = u
    <3>1. /\ \A d \in Device : SetSays(d, bsig'[d], met'[d], outrun', ends', clock)
          /\ \A d \in Device : bsig'[d] # NIL => bsig'[d] > thread[t].at - Window
          /\ bsig' \in [Device -> Int \cup {NIL}] /\ met' \in [Device -> Int \cup {NIL}]
      BY <1>2, <2>1, ClusterSizeSets
    <3>2. clock \in Nat /\ thread[t].at \in Nat /\ Window \in Nat
      BY <1>1, DevicesAssumption DEF DIInv, DevicesTypeOK, Submission
    <3>3. ASSUME NEW d \in counted PROVE d \in MetSince(thread[t].at)
      BY <3>1, <3>2, <3>3 DEF SetSays, MetSince
    <3>4. ASSUME NEW d \in MetSince(clock) \ outrun' PROVE d \in counted
      BY <3>1, <3>2, <3>4 DEF SetSays, MetSince
    <3>5. thread'[t].cluster \in {0, Cardinality(counted)}
      BY <1>1, <1>2, <2>1 DEF ClusterSize, Submission
    <3>6. IsFiniteSet(MetSince(thread[t].at)) /\ IsFiniteSet(counted)
      BY DevicesAssumption, FS_Subset DEF MetSince
    <3>7. /\ MetSince(clock) \ outrun' \subseteq counted
          /\ counted \subseteq MetSince(thread[t].at)
      BY <3>3, <3>4
    <3> HIDE DEF counted
    <3>8. /\ Cardinality(MetSince(clock) \ outrun') =< Cardinality(counted)
          /\ Cardinality(counted) =< Cardinality(MetSince(thread[t].at))
      BY <3>6, <3>7, FS_Subset
    <3>9. thread'[t].cluster = Cardinality(counted)
      BY <1>1, <3>5
    <3> QED
      BY <3>8, <3>9
  <2>2. CASE t # u
    BY <1>1, <1>2, <2>2 DEF ClusterSize
  <2> QED
    BY <2>1, <2>2
<1>3. ASSUME NEW u \in Thread, NEW d \in Device, LookUp(u, d) PROVE FALSE
  <2>1. CASE t = u
    <3>1. thread'[t].cluster = 0
      BY <1>1, <1>3, <2>1 DEF LookUp
    <3> QED
      BY <1>1, <3>1
  <2>2. CASE t # u
    BY <1>1, <1>3, <2>2 DEF LookUp
  <2> QED
    BY <2>1, <2>2
<1>4. ASSUME NEW u \in Thread, Upsert(u) \/ WriteThrough(u) \/ ReadClock(u) \/ NoCluster(u) PROVE FALSE
  <2>1. thread'[t].cluster = thread[t].cluster
    BY <1>1, <1>4 DEF Upsert, WriteThrough, ReadClock, NoCluster, Submission
  <2> QED
    BY <1>1, <2>1
<1>5. ASSUME NEW u \in Thread, Fail(u) PROVE FALSE
  <2>1. thread'[t] = thread[t] \/ thread'[t].cluster = 0
    BY <1>1, <1>5 DEF Fail, NoSubmission
  <2> QED
    BY <1>1, <2>1
<1>6. ASSUME thread' = thread PROVE FALSE
  BY <1>1, <1>6
<1> QED
  BY <1>2, <1>3, <1>4, <1>5, <1>6 DEF DevicesNext, Expire, EvictSet, Pass

(***************************************************************************)
(* A size counts no device but those recorded for a time less than a       *)
(* window before the submission's own, and all that were less than a       *)
(* window ago and are not outrun (velocity.py:66-77).                      *)
(***************************************************************************)
THEOREM SizesAreOfTheWindow == DevicesSpec => ClusterIsWindow
<1>1. ASSUME DIInv, [DevicesNext]_dvars
      PROVE  [\A t \in Thread : thread'[t].cluster > thread[t].cluster =>
                /\ thread'[t].cluster =< Cardinality(MetSince(thread[t].at))
                /\ thread'[t].cluster >= Cardinality(MetSince(clock) \ outrun')]_dvars
  BY <1>1, StepClusterIsWindow
<1>2. DIInv /\ [DevicesNext]_dvars =>
         [\A t \in Thread : thread'[t].cluster > thread[t].cluster =>
            LET since(time) == {d \in Device : met'[d] # NIL /\ met'[d] > time - Window}
            IN  /\ thread'[t].cluster =< Cardinality(since(thread[t].at))
                /\ thread'[t].cluster >= Cardinality(since(clock) \ outrun')]_dvars
  BY <1>1 DEF MetSince
<1> QED
  BY <1>2, AlwaysDIInv, PTL DEF DevicesSpec, ClusterIsWindow

-----------------------------------------------------------------------------
(***************************************************************************)
(* The live feed.  A poll sends only rows newer than all that went before, *)
(* so that what is on the page, what is under way and what is sent next    *)
(* never overlap: this is more than FeedInOrder says, which looks at the   *)
(* page alone.                                                             *)
(***************************************************************************)
FeedTypeOK ==
    /\ second \in Nat
    /\ IsFiniteSet(DOMAIN log)
    /\ \A t \in DOMAIN log : log[t] \in Nat
    /\ \A t \in DOMAIN taken : taken[t] \in Nat /\ t \notin DOMAIN log
    /\ stream \in [scope : Scope \cup {ALL}, last : Int, on : BOOLEAN]
    /\ wire \in Seq(DOMAIN log) /\ page \in Seq(DOMAIN log) /\ sent \in Seq(DOMAIN log)

(* rows of the stream's scope that it has passed *)
OfStream(q) == \A i \in DOMAIN q : q[i] \in InScope(stream.scope) /\ log[q[i]] <= stream.last

OldestFirst(q) == \A i, j \in DOMAIN q : i < j => log[q[i]] <= log[q[j]]

NewestFirst(q) == \A i, j \in DOMAIN q : i < j => log[q[i]] >= log[q[j]]

PageBehindWire == \A i \in DOMAIN page, j \in DOMAIN wire : log[page[i]] <= log[wire[j]]

Accounted == \A t \in InScope(stream.scope) : log[t] <= stream.last => t \in Range(sent) \cup missed

FeedIInv ==
    /\ FeedTypeOK
    /\ OfStream(page) /\ OfStream(wire) /\ OfStream(sent)
    /\ NewestFirst(page) /\ OldestFirst(wire) /\ PageBehindWire
    /\ IsInjective(sent)
    /\ Accounted

LEMMA InitFeedIInv == FeedInit => FeedIInv
BY FS_EmptySet
   DEF FeedInit, NoStream, FeedIInv, FeedTypeOK, OfStream, NewestFirst, OldestFirst, PageBehindWire,
       IsInjective, Accounted, InScope

(* The elements of a concatenation and of a reversal.                      *)
LEMMA Joined ==
    ASSUME NEW S, NEW a \in Seq(S), NEW b \in Seq(S)
    PROVE  /\ a \o b \in Seq(S)
           /\ Len(a) \in Nat
           /\ \A k \in DOMAIN (a \o b) :
                 \/ k \in DOMAIN a /\ (a \o b)[k] = a[k]
                 \/ k > Len(a) /\ k \in Int /\ k - Len(a) \in DOMAIN b /\ (a \o b)[k] = b[k - Len(a)]
           /\ \A k \in DOMAIN a :
                 k \in DOMAIN (a \o b) /\ k \in Int /\ k <= Len(a) /\ (a \o b)[k] = a[k]
           /\ \A k \in DOMAIN b : k + Len(a) \in DOMAIN (a \o b) /\ (a \o b)[k + Len(a)] = b[k]
OBVIOUS

LEMMA Reversed ==
    ASSUME NEW S, NEW n \in Nat, NEW q \in [1..n -> S]
    PROVE  /\ Reverse(q) \in Seq(S) /\ Len(Reverse(q)) = n
           /\ \A i \in 1..n : n - i + 1 \in 1..n /\ Reverse(q)[i] = q[n - i + 1]
           /\ \A i \in 1..n : Reverse(q)[n - i + 1] = q[i]
<1>1. Len(q) = n
  OBVIOUS
<1> QED
  BY <1>1 DEF Reverse

(* What a poll sends: new rows of the scope, each once, the oldest first,  *)
(* the last of them the newest.                                            *)
LEMMA PollSends ==
    ASSUME FeedIInv, NEW recent \in Recent(Newer(stream.last))
    PROVE  LET rows == Chronological(recent)
           IN /\ rows \in Seq(DOMAIN log)
              /\ \A i \in DOMAIN rows : rows[i] \in Newer(stream.last)
              /\ IsInjective(rows)
              /\ OldestFirst(rows)
              /\ Range(rows) = Range(recent)
              /\ \A i \in DOMAIN rows : log[rows[i]] <= log[Last(rows)]
              /\ rows # <<>> => Last(rows) \in Newer(stream.last)
<1> DEFINE new == Newer(stream.last)
           n == IF Cardinality(new) < Limit THEN Cardinality(new) ELSE Limit
           rows == Reverse(recent)
<1>1. new \subseteq DOMAIN log /\ \A t \in new : log[t] \in Nat
  BY DEF Newer, InScope, FeedIInv, FeedTypeOK
<1>2. n \in Nat
  <2>1. IsFiniteSet(new)
    BY <1>1, FS_Subset DEF FeedIInv, FeedTypeOK
  <2> QED
    BY <2>1, FS_CardinalityType, FeedAssumption
<1> HIDE DEF new, n
<1>3. /\ recent \in [1..n -> new]
      /\ \A i, j \in 1..n : recent[i] = recent[j] => i = j
      /\ \A i, j \in 1..n : i < j => log[recent[i]] >= log[recent[j]]
  BY DEF Recent, IsInjective, new, n
<1>4. /\ rows \in Seq(new) /\ Len(rows) = n /\ DOMAIN rows = 1..n /\ DOMAIN recent = 1..n
      /\ \A i \in 1..n : n - i + 1 \in 1..n /\ rows[i] = recent[n - i + 1]
      /\ \A i \in 1..n : rows[n - i + 1] = recent[i]
  <2>1. /\ rows \in Seq(new) /\ Len(rows) = n
        /\ \A i \in 1..n : n - i + 1 \in 1..n /\ rows[i] = recent[n - i + 1]
        /\ \A i \in 1..n : rows[n - i + 1] = recent[i]
    <3>1. recent \in [1..n -> new]
      BY <1>3
    <3> QED
      BY ONLY <1>2, <3>1, Reversed
  <2> HIDE DEF rows
  <2>2. DOMAIN rows = 1..n
    BY <2>1
  <2>3. DOMAIN recent = 1..n
    BY <1>3
  <2> QED
    BY <2>1, <2>2, <2>3
<1> HIDE DEF rows
<1>5. \A i \in 1..n : rows[i] \in new
  BY <1>4
<1>6. rows \in Seq(DOMAIN log)
  BY <1>1, <1>4
<1>7. IsInjective(rows)
  BY <1>2, <1>3, <1>4 DEF IsInjective
<1>8. OldestFirst(rows)
  <2> SUFFICES ASSUME NEW i \in 1..n, NEW j \in 1..n, i < j PROVE log[rows[i]] <= log[rows[j]]
    BY <1>4 DEF OldestFirst
  <2>1. log[recent[n - j + 1]] >= log[recent[n - i + 1]]
    BY <1>2, <1>3, <1>4
  <2>2. log[rows[i]] \in Nat /\ log[rows[j]] \in Nat
    BY <1>1, <1>5
  <2> QED
    BY <1>4, <2>1, <2>2
<1>9. Range(rows) = Range(recent)
  BY <1>2, <1>4 DEF Range
<1>10. \A i \in 1..n : log[rows[i]] <= log[Last(rows)]
  <2> SUFFICES ASSUME NEW i \in 1..n PROVE log[rows[i]] <= log[rows[n]]
    BY <1>4 DEF Last
  <2>1. CASE i = n
    BY <1>1, <1>2, <1>5, <2>1
  <2>2. CASE i # n
    BY <1>2, <1>4, <1>8, <2>2 DEF OldestFirst
  <2> QED
    BY <2>1, <2>2
<1>11. rows # <<>> => Last(rows) \in new
  BY <1>2, <1>4, <1>5 DEF Last
<1> QED
  BY <1>4, <1>5, <1>6, <1>7, <1>8, <1>9, <1>10, <1>11 DEF Chronological, rows, new

LEMMA PollKeeps == ASSUME FeedIInv, Poll PROVE FeedIInv'
<1>1. PICK recent \in Recent(Newer(stream.last)) :
          LET rows == Chronological(recent)
          IN  /\ rows # <<>>
              /\ wire' = wire \o rows
              /\ sent' = sent \o rows
              /\ stream' = [stream EXCEPT !.last = log[Last(rows)]]
              /\ missed' = missed \cup (Newer(stream.last) \ Range(recent))
  BY DEF Poll
<1> DEFINE rows == Chronological(recent)
           new == Newer(stream.last)
           last == log[Last(rows)]
<1>2. UNCHANGED <<second, taken, log, page, seen>>
  BY DEF Poll
<1>3. /\ rows \in Seq(DOMAIN log) /\ rows # <<>>
      /\ \A i \in DOMAIN rows : rows[i] \in new
      /\ IsInjective(rows)
      /\ OldestFirst(rows)
      /\ Range(rows) = Range(recent)
      /\ \A i \in DOMAIN rows : log[rows[i]] <= last
      /\ Last(rows) \in new
  BY <1>1, PollSends
<1>4. /\ wire' = wire \o rows /\ sent' = sent \o rows
      /\ stream' = [stream EXCEPT !.last = last]
      /\ missed' = missed \cup (new \ Range(rows))
  BY <1>1, <1>3
<1>5. /\ \A t \in DOMAIN log : log[t] \in Nat
      /\ stream.last \in Int /\ last \in Nat /\ stream.last < last
      /\ \A t \in new : t \in InScope(stream.scope) /\ log[t] > stream.last
      /\ wire \in Seq(DOMAIN log) /\ page \in Seq(DOMAIN log) /\ sent \in Seq(DOMAIN log)
  BY <1>3 DEF FeedIInv, FeedTypeOK, Newer, InScope
<1>6. /\ stream'.last = last /\ stream'.scope = stream.scope
      /\ InScope(stream.scope)' = InScope(stream.scope)
  BY <1>2, <1>4 DEF FeedIInv, FeedTypeOK, InScope
<1> HIDE DEF rows, new, last
<1>7. FeedTypeOK'
  <2>1. stream' \in [scope : Scope \cup {ALL}, last : Int, on : BOOLEAN]
    <3>1. stream \in [scope : Scope \cup {ALL}, last : Int, on : BOOLEAN] /\ last \in Int
      BY <1>5 DEF FeedIInv, FeedTypeOK
    <3> QED
      BY <1>4, <3>1
  <2> QED
    BY <1>2, <1>3, <1>4, <1>5, <2>1, Joined DEF FeedIInv, FeedTypeOK
<1>8. ASSUME NEW q \in Seq(DOMAIN log), OfStream(q)
      PROVE  OfStream(q)' /\ OfStream(q \o rows)'
  <2>1. \A i \in DOMAIN q : q[i] \in InScope(stream.scope) /\ log[q[i]] <= last
    BY <1>5, <1>8 DEF OfStream
  <2>2. \A i \in DOMAIN rows : rows[i] \in InScope(stream.scope) /\ log[rows[i]] <= last
    BY <1>3, <1>5
  <2> QED
    BY <1>2, <1>3, <1>6, <2>1, <2>2, Joined DEF OfStream
<1>9. OfStream(page)' /\ OfStream(wire)' /\ OfStream(sent)'
  BY <1>2, <1>4, <1>5, <1>8 DEF FeedIInv
<1>10. NewestFirst(page)'
  BY <1>2 DEF FeedIInv, NewestFirst
<1>11. \A i \in DOMAIN rows : log[rows[i]] > stream.last
  BY <1>3, <1>5
<1>12. OldestFirst(wire)'
  <2> SUFFICES ASSUME NEW i \in DOMAIN (wire \o rows), NEW j \in DOMAIN (wire \o rows), i < j
               PROVE  log[(wire \o rows)[i]] <= log[(wire \o rows)[j]]
    BY <1>2, <1>4 DEF OldestFirst
  <2>1. CASE i \in DOMAIN wire /\ j \in DOMAIN wire
    BY <1>3, <1>5, <2>1, Joined DEF FeedIInv, OldestFirst
  <2>2. CASE i \in DOMAIN wire /\ j \notin DOMAIN wire
    <3>1. (wire \o rows)[i] = wire[i] /\ log[wire[i]] <= stream.last /\ wire[i] \in DOMAIN log
      BY <1>3, <1>5, <2>2, Joined DEF FeedIInv, OfStream, InScope
    <3>2. PICK k \in DOMAIN rows : (wire \o rows)[j] = rows[k]
      BY <1>3, <1>5, <2>2, Joined
    <3>3. log[rows[k]] > stream.last /\ rows[k] \in DOMAIN log
      BY <1>3, <1>11
    <3> QED
      BY <1>5, <3>1, <3>2, <3>3
  <2>3. CASE i \notin DOMAIN wire
    <3>1. /\ i - Len(wire) \in DOMAIN rows /\ (wire \o rows)[i] = rows[i - Len(wire)]
          /\ i > Len(wire) /\ i \in Int /\ Len(wire) \in Nat
      BY <1>3, <1>5, <2>3, Joined
    <3>2. j \notin DOMAIN wire
      BY <1>3, <1>5, <3>1, Joined
    <3>3. /\ j - Len(wire) \in DOMAIN rows /\ (wire \o rows)[j] = rows[j - Len(wire)] /\ j \in Int
      BY <1>3, <1>5, <3>2, Joined
    <3>4. i - Len(wire) < j - Len(wire)
      BY <3>1, <3>3
    <3> QED
      BY <1>3, <3>1, <3>3, <3>4 DEF OldestFirst
  <2> QED
    BY <2>1, <2>2, <2>3
<1>13. PageBehindWire'
  <2> SUFFICES ASSUME NEW i \in DOMAIN page, NEW j \in DOMAIN (wire \o rows)
               PROVE  log[page[i]] <= log[(wire \o rows)[j]]
    BY <1>2, <1>4 DEF PageBehindWire
  <2>1. log[page[i]] <= stream.last /\ page[i] \in DOMAIN log
    BY DEF FeedIInv, OfStream, InScope
  <2>2. CASE j \in DOMAIN wire
    BY <1>3, <1>5, <2>2, Joined DEF FeedIInv, PageBehindWire
  <2>3. CASE j \notin DOMAIN wire
    <3>1. PICK k \in DOMAIN rows : (wire \o rows)[j] = rows[k]
      BY <1>3, <1>5, <2>3, Joined
    <3>2. log[rows[k]] > stream.last /\ rows[k] \in DOMAIN log
      BY <1>3, <1>11
    <3> QED
      BY <1>5, <2>1, <3>1, <3>2
  <2> QED
    BY <2>2, <2>3
<1>14. IsInjective(sent)'
  <2> DEFINE all == sent \o rows
  <2>1. /\ Len(sent) \in Nat
        /\ \A k \in DOMAIN all :
              \/ k \in DOMAIN sent /\ all[k] = sent[k]
              \/ k > Len(sent) /\ k \in Int /\ k - Len(sent) \in DOMAIN rows
                 /\ all[k] = rows[k - Len(sent)]
    BY <1>3, <1>5, Joined
  <2>2. sent' = all
    BY <1>4
  <2> HIDE DEF all
  <2> SUFFICES ASSUME NEW i \in DOMAIN all, NEW j \in DOMAIN all, all[i] = all[j] PROVE i = j
    BY <2>2 DEF IsInjective
  <2>3. \A k \in DOMAIN sent : log[sent[k]] <= stream.last /\ sent[k] \in DOMAIN log
    BY DEF FeedIInv, OfStream, InScope
  <2>4. \A k \in DOMAIN sent, l \in DOMAIN rows : sent[k] # rows[l]
    BY <1>5, <1>11, <2>3
  <2>5. CASE i \in DOMAIN sent /\ all[i] = sent[i]
    <3>1. j \in DOMAIN sent /\ all[j] = sent[j]
      BY <2>1, <2>4, <2>5
    <3> QED
      BY <2>5, <3>1 DEF FeedIInv, IsInjective
  <2>6. CASE i \in Int /\ i - Len(sent) \in DOMAIN rows /\ all[i] = rows[i - Len(sent)]
    <3>1. j \in Int /\ j - Len(sent) \in DOMAIN rows /\ all[j] = rows[j - Len(sent)]
      BY <2>1, <2>4, <2>6
    <3>2. i - Len(sent) = j - Len(sent)
      BY <1>3, <2>6, <3>1 DEF IsInjective
    <3> QED
      BY <2>1, <2>6, <3>1, <3>2
  <2> QED
    BY <2>1, <2>5, <2>6
<1>15. Accounted'
  <2> SUFFICES ASSUME NEW t \in InScope(stream.scope), log[t] <= last
               PROVE  t \in Range(sent') \cup missed'
    BY <1>2, <1>6 DEF Accounted
  <2>1. /\ \A u \in Range(sent) : u \in Range(sent')
        /\ \A u \in Range(rows) : u \in Range(sent')
    <3> DEFINE all == sent \o rows
    <3>1. /\ \A k \in DOMAIN sent : k \in DOMAIN all /\ all[k] = sent[k]
          /\ \A k \in DOMAIN rows : k + Len(sent) \in DOMAIN all /\ all[k + Len(sent)] = rows[k]
      BY <1>3, <1>5, Joined
    <3>2. sent' = all
      BY <1>4
    <3> HIDE DEF all
    <3> QED
      BY <3>1, <3>2 DEF Range
  <2>2. CASE log[t] <= stream.last
    BY <1>4, <2>1, <2>2 DEF FeedIInv, Accounted
  <2>3. CASE log[t] > stream.last
    <3>1. t \in new
      BY <2>3 DEF new, Newer
    <3> QED
      BY <1>4, <2>1, <3>1
  <2>4. log[t] \in Int
    BY <1>5 DEF InScope
  <2> QED
    BY <1>5, <2>2, <2>3, <2>4
<1> QED
  BY <1>7, <1>9, <1>10, <1>12, <1>13, <1>14, <1>15 DEF FeedIInv

LEMMA FlushKeeps == ASSUME FeedIInv, NEW t, Flush(t) PROVE FeedIInv'
<1>1. /\ t \in DOMAIN taken /\ t \notin DOMAIN log /\ taken[t] \in Nat
      /\ log' = [u \in DOMAIN log \cup {t} |-> IF u = t THEN taken[t] ELSE log[u]]
      /\ taken' = [u \in DOMAIN taken \ {t} |-> taken[u]]
      /\ missed' = IF taken[t] =< stream.last THEN missed \cup {t} ELSE missed
      /\ UNCHANGED <<second, stream, wire, page, seen, sent>>
  BY DEF Flush, FeedIInv, FeedTypeOK
<1>2. /\ DOMAIN log' = DOMAIN log \cup {t} /\ log'[t] = taken[t]
      /\ \A u \in DOMAIN log : log'[u] = log[u]
      /\ InScope(stream.scope) \subseteq InScope(stream.scope)'
      /\ InScope(stream.scope)' \subseteq InScope(stream.scope) \cup {t}
      /\ InScope(stream.scope) \subseteq DOMAIN log
  BY <1>1 DEF InScope
<1>3. /\ wire \in Seq(DOMAIN log) /\ page \in Seq(DOMAIN log) /\ sent \in Seq(DOMAIN log)
      /\ \A q \in {wire, page, sent} : \A i \in DOMAIN q : q[i] \in DOMAIN log
  BY DEF FeedIInv, FeedTypeOK
<1>4. FeedTypeOK'
  <2>1. IsFiniteSet(DOMAIN log')
    BY <1>2, FS_AddElement DEF FeedIInv, FeedTypeOK
  <2>2. /\ wire' \in Seq(DOMAIN log') /\ page' \in Seq(DOMAIN log') /\ sent' \in Seq(DOMAIN log')
    BY <1>1, <1>2, <1>3
  <2>3. \A u \in DOMAIN log' : log'[u] \in Nat
    BY <1>1, <1>2 DEF FeedIInv, FeedTypeOK
  <2>4. \A u \in DOMAIN taken' : taken'[u] \in Nat /\ u \notin DOMAIN log'
    BY <1>1, <1>2 DEF FeedIInv, FeedTypeOK
  <2> QED
    BY <1>1, <2>1, <2>2, <2>3, <2>4 DEF FeedIInv, FeedTypeOK
<1>5. \A q \in {wire, page, sent} : OfStream(q) => OfStream(q)'
  BY <1>1, <1>2, <1>3 DEF OfStream
<1>6. NewestFirst(page)' /\ OldestFirst(wire)' /\ PageBehindWire' /\ IsInjective(sent)'
  BY <1>1, <1>2, <1>3 DEF FeedIInv, NewestFirst, OldestFirst, PageBehindWire
<1>7. Accounted'
  <2> SUFFICES ASSUME NEW u \in InScope(stream.scope)', log'[u] <= stream.last
               PROVE  u \in Range(sent) \cup missed'
    BY <1>1 DEF Accounted
  <2>1. CASE u = t
    BY <1>1, <1>2, <2>1
  <2>2. CASE u # t
    BY <1>1, <1>2, <2>2 DEF FeedIInv, Accounted
  <2> QED
    BY <2>1, <2>2
<1>8. OfStream(page)' /\ OfStream(wire)' /\ OfStream(sent)'
  BY <1>1, <1>5 DEF FeedIInv
<1> QED
  BY <1>4, <1>6, <1>7, <1>8 DEF FeedIInv

(* A page that takes the oldest event under way as its newest.             *)
LEMMA PageTakes ==
    ASSUME NEW S, NEW e \in S, NEW q \in Seq(S)
    PROVE  LET all == <<e>> \o q
               kept == SubSeq(all, 1, IF Len(all) < PageLimit THEN Len(all) ELSE PageLimit)
           IN /\ kept \in Seq(S)
              /\ \A i \in DOMAIN kept : \/ i = 1 /\ kept[i] = e
                                        \/ i \in Int /\ i > 1 /\ i - 1 \in DOMAIN q /\ kept[i] = q[i - 1]
<1> DEFINE all == <<e>> \o q
           n == IF Len(all) < PageLimit THEN Len(all) ELSE PageLimit
           kept == SubSeq(all, 1, n)
<1>1. /\ all \in Seq(S) /\ Len(all) = Len(q) + 1 /\ Len(q) \in Nat
      /\ \A i \in 1..Len(all) : \/ i = 1 /\ all[i] = e
                                \/ i \in Int /\ i > 1 /\ i - 1 \in DOMAIN q /\ all[i] = q[i - 1]
  <2>1. <<e>> \in Seq(S) /\ Len(<<e>>) = 1 /\ DOMAIN <<e>> = {1} /\ <<e>>[1] = e
    OBVIOUS
  <2>2. all \in Seq(S) /\ Len(all) = Len(q) + 1 /\ Len(q) \in Nat /\ DOMAIN all = 1..Len(all)
    BY <2>1
  <2>3. \A i \in DOMAIN all : \/ i = 1 /\ all[i] = e
                              \/ i \in Int /\ i > 1 /\ i - 1 \in DOMAIN q /\ all[i] = q[i - 1]
    BY <2>1, Joined
  <2> QED
    BY <2>2, <2>3
<1> HIDE DEF all
<1>2. n \in Nat /\ n <= Len(all)
  BY <1>1, FeedAssumption
<1> HIDE DEF n
<1>3. kept \in Seq(S) /\ Len(kept) = n /\ \A i \in 1..n : kept[i] = all[i] /\ i \in 1..Len(all)
  BY <1>1, <1>2
<1>4. DOMAIN kept = 1..n
  BY <1>3
<1> QED
  BY <1>1, <1>3, <1>4 DEF n, all

LEMMA ApplyKeeps == ASSUME FeedIInv, Apply PROVE FeedIInv'
<1> DEFINE e == Head(wire)
<1>1. /\ wire # <<>> /\ wire' = Tail(wire) /\ UNCHANGED <<second, taken, log, stream, sent, missed>>
      /\ wire \in Seq(DOMAIN log) /\ page \in Seq(DOMAIN log)
  BY DEF Apply, FeedIInv, FeedTypeOK
<1>2. /\ e = wire[1] /\ 1 \in DOMAIN wire /\ wire' \in Seq(DOMAIN log)
      /\ \A j \in DOMAIN wire' : j \in Int /\ 1 < j + 1 /\ j + 1 \in DOMAIN wire /\ wire'[j] = wire[j + 1]
  BY <1>1
<1>3. InScope(stream.scope)' = InScope(stream.scope) /\ \A u \in InScope(stream.scope) : log[u] \in Nat
  BY <1>1 DEF InScope, FeedIInv, FeedTypeOK
<1>4. OfStream(wire)' /\ OfStream(sent)' /\ OldestFirst(wire)' /\ IsInjective(sent)' /\ Accounted'
  <2>1. OfStream(wire)'
    BY <1>1, <1>2, <1>3 DEF FeedIInv, OfStream
  <2>2. OldestFirst(wire)'
    <3> SUFFICES ASSUME NEW i \in DOMAIN wire', NEW j \in DOMAIN wire', i < j
                 PROVE  log[wire'[i]] <= log[wire'[j]]
      BY <1>1 DEF OldestFirst
    <3>1. i + 1 < j + 1
      BY <1>2
    <3> QED
      BY <1>2, <3>1 DEF FeedIInv, OldestFirst
  <2>3. OfStream(sent)' /\ IsInjective(sent)' /\ Accounted'
    BY <1>1, <1>3 DEF FeedIInv, OfStream, Accounted
  <2> QED
    BY <2>1, <2>2, <2>3
<1>5. CASE page' = page
  <2>1. PageBehindWire'
    BY <1>1, <1>2, <1>5 DEF FeedIInv, PageBehindWire
  <2>2. OfStream(page)' /\ NewestFirst(page)'
    BY <1>1, <1>3, <1>5 DEF FeedIInv, OfStream, NewestFirst
  <2>3. FeedTypeOK'
    BY <1>1, <1>2, <1>5 DEF FeedIInv, FeedTypeOK
  <2> QED
    BY <1>4, <2>1, <2>2, <2>3 DEF FeedIInv
<1>6. CASE page' # page
  <2>1. page' = LET all == <<e>> \o page
                IN  SubSeq(all, 1, IF Len(all) < PageLimit THEN Len(all) ELSE PageLimit)
    BY <1>6 DEF Apply
  <2>2. e \in DOMAIN log /\ e \in InScope(stream.scope) /\ log[e] <= stream.last
    BY <1>1, <1>2 DEF FeedIInv, OfStream
  <2>3. /\ page' \in Seq(DOMAIN log)
        /\ \A i \in DOMAIN page' : \/ i = 1 /\ page'[i] = e
                                   \/ i \in Int /\ i > 1 /\ i - 1 \in DOMAIN page /\ page'[i] = page[i - 1]
    BY <1>1, <2>1, <2>2, PageTakes
  <2>4. OfStream(page)'
    BY <1>1, <1>3, <2>2, <2>3 DEF FeedIInv, OfStream
  <2>5. \A i \in DOMAIN page : log[page[i]] <= log[e]
    BY <1>2 DEF FeedIInv, PageBehindWire
  <2>6. NewestFirst(page)'
    <3> SUFFICES ASSUME NEW i \in DOMAIN page', NEW j \in DOMAIN page', i < j
                 PROVE  log[page'[i]] >= log[page'[j]]
      BY <1>1 DEF NewestFirst
    <3>1. j > 1 /\ j \in Int /\ j - 1 \in DOMAIN page /\ page'[j] = page[j - 1]
      BY <2>3, <1>1
    <3>2. CASE page'[i] = e
      BY <2>5, <3>1, <3>2, <1>3, <2>2 DEF FeedIInv, OfStream
    <3>3. CASE i \in Int /\ i - 1 \in DOMAIN page /\ page'[i] = page[i - 1]
      <4>1. i - 1 < j - 1
        BY <3>1, <3>3
      <4> QED
        BY <3>1, <3>3, <4>1 DEF FeedIInv, NewestFirst
    <3> QED
      BY <2>3, <3>2, <3>3
  <2>7. PageBehindWire'
    <3> SUFFICES ASSUME NEW i \in DOMAIN page', NEW j \in DOMAIN wire'
                 PROVE  log[page'[i]] <= log[wire'[j]]
      BY <1>1 DEF PageBehindWire
    <3>1. j + 1 \in DOMAIN wire /\ wire'[j] = wire[j + 1] /\ 1 < j + 1
      BY <1>2
    <3>2. CASE page'[i] = e
      BY <1>2, <3>1, <3>2 DEF FeedIInv, OldestFirst
    <3>3. CASE i - 1 \in DOMAIN page /\ page'[i] = page[i - 1]
      BY <3>1, <3>3 DEF FeedIInv, PageBehindWire
    <3> QED
      BY <2>3, <3>2, <3>3
  <2>8. FeedTypeOK'
    BY <1>1, <1>2, <2>3 DEF FeedIInv, FeedTypeOK
  <2> QED
    BY <1>4, <2>4, <2>6, <2>7, <2>8 DEF FeedIInv
<1> QED
  BY <1>5, <1>6

(* A connection begins, or a fixed range of time, with nothing on the page. *)
LEMMA EmptyKeeps ==
    ASSUME FeedIInv, stream' \in [scope : Scope \cup {ALL}, last : {-1}, on : BOOLEAN],
           wire' = <<>> /\ page' = <<>> /\ sent' = <<>>, UNCHANGED <<second, taken, log>>
    PROVE  FeedIInv'
<1>1. FeedTypeOK'
  BY DEF FeedIInv, FeedTypeOK
<1>2. \A t \in InScope(stream.scope)' : log'[t] \in Nat
  BY DEF InScope, FeedIInv, FeedTypeOK
<1>3. Accounted'
  BY <1>2 DEF Accounted
<1>4. OfStream(page)' /\ OfStream(wire)' /\ OfStream(sent)'
  BY DEF OfStream
<1>5. NewestFirst(page)' /\ OldestFirst(wire)' /\ PageBehindWire' /\ IsInjective(sent)'
  BY DEF NewestFirst, OldestFirst, PageBehindWire, IsInjective
<1> QED
  BY <1>1, <1>3, <1>4, <1>5 DEF FeedIInv

LEMMA BreakKeeps == ASSUME FeedIInv, Break PROVE FeedIInv'
<1>1. /\ stream' = [stream EXCEPT !.on = FALSE] /\ wire' = <<>>
      /\ UNCHANGED <<second, taken, log, page, seen, sent, missed>>
  BY DEF Break
<1>2. stream'.last = stream.last /\ stream'.scope = stream.scope
      /\ stream' \in [scope : Scope \cup {ALL}, last : Int, on : BOOLEAN]
  BY <1>1 DEF FeedIInv, FeedTypeOK
<1>3. FeedTypeOK' /\ InScope(stream.scope)' = InScope(stream.scope)
  BY <1>1, <1>2 DEF FeedIInv, FeedTypeOK, InScope
<1>4. OfStream(page)' /\ OfStream(sent)' /\ OfStream(wire)'
  BY <1>1, <1>2, <1>3 DEF FeedIInv, OfStream
<1>5. NewestFirst(page)' /\ OldestFirst(wire)' /\ PageBehindWire' /\ IsInjective(sent)' /\ Accounted'
  BY <1>1, <1>2, <1>3 DEF FeedIInv, NewestFirst, OldestFirst, PageBehindWire, Accounted
<1> QED
  BY <1>3, <1>4, <1>5 DEF FeedIInv

LEMMA StepFeedIInv == FeedIInv /\ [FeedNext]_fvars => FeedIInv'
<1> SUFFICES ASSUME FeedIInv, [FeedNext]_fvars PROVE FeedIInv'
  OBVIOUS
<1> USE DEF FeedIInv, FeedTypeOK, OfStream, InScope, NewestFirst, OldestFirst, PageBehindWire, Accounted
<1>1. ASSUME NEW t \in Trx, Insert(t) PROVE FeedIInv'
  BY <1>1 DEF Insert
<1>2. ASSUME NEW scope \in Scope, Connect(scope) PROVE FeedIInv'
  BY <1>2, EmptyKeeps DEF Connect
<1>3. CASE Freeze
  BY <1>3, EmptyKeeps DEF Freeze, NoStream
<1>4. CASE NextSecond
  BY <1>4 DEF NextSecond
<1>5. CASE UNCHANGED fvars
  BY <1>5 DEF fvars
<1> QED
  BY <1>1, <1>2, <1>3, <1>4, <1>5, FlushKeeps, PollKeeps, ApplyKeeps, BreakKeeps DEF FeedNext

(* FeedInOrder for every instance: the page is newest first and of its     *)
(* scope, no connection sends a row twice, and what it passed over is      *)
(* accounted for (analytics.py:275-281, useStream.ts:69-72).               *)
THEOREM FeedKeepsOrder == FeedSpec => []FeedInOrder
<1>1. FeedIInv => FeedInOrder
  BY DEF FeedIInv, FeedInOrder, OfStream, NewestFirst, Accounted
<1> QED
  BY <1>1, InitFeedIInv, StepFeedIInv, PTL DEF FeedSpec

=============================================================================
