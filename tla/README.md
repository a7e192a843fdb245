# Formal model of Aegis Anti Fraud

TLA+ modules that model the backend of Aegis (`src/backend/aegis`) and the parts
of its dashboard that take part in a protocol, TLC configurations that check
them on small instances, and proofs that TLAPS checks for every value of their
constants. `PROJECT.json` is the machine-readable index: which definition models
which lines (`map`), the runs, a mutant for every property, the theorems, the
hazards each property answers, the disagreements between code and comments.

Paths below are relative to `src/backend/aegis`.

## 1. The system

A landing page outside Aegis ("prelanding") opens a session for a transaction of
a campaign, collects browser signals and submits them. The API scores the
submission, stores one decision per transaction, asks the content provider (CP)
for a one-time URL when it allows, and tells the page where to go. The billing
partner calls back later (subscription, complaint); administrators review users'
reports, register services and campaigns, change the configuration, start
retraining and activate models; the dashboard shows figures, explanations and a
live feed.

One uvicorn process runs synchronous handlers in a thread pool and `async`
handlers on one event loop. PostgreSQL (READ COMMITTED, one transaction per
`connection()` block) is the source of truth; ClickHouse is a loss-tolerant
mirror for analytics, written with asynchronous inserts; Redis
(`allkeys-lru`) holds session nonces, counters and caches. Retraining, migration
and backfill are processes of their own.

| Component | State | Operations | Hard about it | Correct when | Module |
|---|---|---|---|---|---|
| Scoring API (`api/scoring.py`, `security/tokens.py`, `cp/client.py`) | nonces, decisions, devices, events, URLs at the CP | session_init, score | racing and repeated submissions, CP timeouts and retries, eviction, a crash between any two exchanges, registry changes in between | one decision per transaction, told unchanged; URL only after an allow; a token admits once; one event | `Scoring`, `TrxVerdict` |
| Engine and features (`scoring/`, `features/`) | what the process loaded at its start | score | fail-safe paths, zero weights, absent models | fails closed, blend inside its scores, no sign counts in the visitor's favour | `Features`, `Engine`, `Decisions` |
| Explanation (`scoring/explain.py`, `analytics_repo.decision_detail`) | none | explain | recomputes later, under other configurations | tells what was done | `Explain`, `Decisions` |
| Rule configuration (`db/oltp/rule_configs_repo.py`) | versioned rows, active flags | PUT config, get_active | transactions that do not see each other | last accepted version is loaded, none revived | `ConfigVersions` |
| Retraining and models (`jobs/retrain.py`, `db/oltp/model_versions_repo.py`, `ml/store.py`) | rows, artefact files, job status | run_retrain, trigger, activate | overlapping runs, death between file and row, racing activations | what is loaded is what was trained; kept, activated only by an administrator | `ModelVersions` |
| Labels and mirror (`services/labeling.py`, `services/feedback.py`, `jobs/backfill_olap_mirror.py`) | outcomes, feedback, their copies | callback, submit, review, backfill | duplicates, losses, commit order against version order | the mirror holds what is stored | `Mirror` |
| Training labels (`db/oltp/training_repo.py`, `services/maturation.py`) | settings, reviews | labels of a run | late and contradicting evidence | robots stay, humans are clean | `Labels` |
| Analytics (`db/olap/analytics_repo.py`) | three ClickHouse tables | summary, funnel, series, breakdown, search | late outcomes, many queries on one page | figures agree, windows add up | `Analytics`, `Labels` |
| Registry and CORS cache (`registry/`, `security/origins.py`) | rows, a cached set without a lock | register, update, invalidate, ask | read, commit, invalidate, store in any order; failed reads | wrong for less than a TTL, and by a race only | `Campaigns` |
| Device cache and velocity (`fingerprint/`, `services/velocity.py`) | rows, Redis keys, a sorted set | look up, upsert, write through, cluster size | late writes, late clock readings, eviction | copy never ahead; a size counts each device of its window once, and no other | `Devices` |
| Live feed (`api/analytics.py` stream, dashboard `useStream.ts`) | watermark, rows on the page | poll, apply, connect, break | equal seconds, limit of a poll, late inserts | ordered, nothing twice, every omission accounted for | `Feed` |
| Accounts (`api/auth.py`, `api/deps.py`, `security/ratelimit.py`, `main.py`) | users, tokens in browsers, a counter | bootstrap, login, logout, create, update | tokens outlive accounts, INCR and EXPIRE apart | windows end, administrators only, tokens of the active | `Accounts` |
| Migrations (`db/migrate.py`) | applied files, records | migrate | a crash between statement and record, two at once | records true, nothing left out | `Migrations` |

Components talk through the stores: the decision row links scoring to labels
and retraining; the ClickHouse rows link scoring and labels to analytics,
explanation and features; the active version rows link the registries to the
next start of the API (configuration and model are read once, in `main.py`);
the campaign's countries and origins reach scoring and the middleware.

## 2. Modules

    Scoring ............ refines TrxVerdict           ModelVersions    Mirror
    ConfigVersions ..... refines ConfigInForce
    Features <- Engine <- Explain <- Decisions
                Engine <- Analytics <- Labels
    Campaigns  Devices  Feed  Migrations  Accounts  <- MCAround

The `MC...` modules hold the instances, the `...Proofs` modules the theorems:
`ScoringProofs`, `ConfigVersionsProofs`, `ModelVersionsProofs`, `MirrorProofs`,
`DecisionsProofs` (with the lemmas on `Features`, `Engine` and `Explain`),
`LabelsProofs` (with those on `Analytics`), `CopiesProofs` for `Campaigns`,
`Devices` and `Feed`, `OperationsProofs` for `Migrations` and `Accounts`.

Inside a module, definitions named "slip" in a comment are what an operator
would be after a plausible mistake. Nothing uses them; put in the place of the
operator each one makes a property fail (`mutants` in `PROJECT.json`), which
shows that the property looks at the code.

### Scoring, TrxVerdict

A worker is a thread serving one submission; `pc[w]` names the exchange it is
about to make and `job[w]` holds its local variables. One action is one
exchange: the Redis DELETE of the nonce (`VerifyAndConsume`), the two reads of
service and campaign (`ResolveService`, `ResolveCampaign`), the second read of
the service (`LoadService`, whose result may be none), the lookup by transaction
(`LookupNew`, `ReplayBlock`, `ReplayAllow`), the device upsert
(`RegisterDevice`), the insert (`Decide`, refused by `UNIQUE(trx_id)` in
`CannotDecide`), each call to the CP (`MintOk`, `MintRefused`, `MintRetry`), the
status update (`UpdateWeboptin`), the two analytics inserts (`WriteEvent`, each
of which may be lost). `Fail` is an exception at any of them, `Restart` the
death of the process: every thread is lost, every store keeps its state.
`Lapse` is a nonce's TTL or eviction, `SetStatus` an administrator's change. A
client may submit any signed token with any transaction and campaign, any
number of times, so repeated, delayed and mixed-up requests are included.

The verdict is a free choice here (`Engine` computes it); the URL is the triple
of transaction, service and request id the CP was asked with, so that a retry
the CP recognises makes the same URL.

`TrxVerdict` is the abstract specification: a transaction is undecided, then
allowed or blocked for good; a URL follows an allow only; answers repeat the
verdict. `Scoring!KeepsPromise` is the refinement: verdict of the row, the
transactions with a URL, the answers.

### Features, Engine, Explain, Decisions

`Features` maps a visit (classes of signals, of the IP databases' answers and of
words of the user agent) to the features the rules read, each an integer in
tenths. `Engine` has the rules with their weights, the hard rules in their
order, the blend, the verdict and the fail-safes as operators; scores are in
hundredths and a final score is an exact fraction where the code has a float.
`Explain` has `explain_rules`, `explain_blend`, the choice of the sentence and
the way `decision_detail` feeds them, with its fall-back when an event was
stored without features. `MALFORMED` stands for a configuration whose
dictionaries hold values of another type: `params` raises inside the fail-safe,
`blend_weights` outside of it (`engine.py:73`), where the request fails.

`Decisions` composes them over time: configurations are published, models
trained and activated, the process starts (perhaps without configuration or
models) and stops, one visit is scored by the country gate and the engine with
what the process had loaded, and the event is lost, written without features or
written whole. The explanation is a function of row, event and the
configuration's history in every later state. Publication is one step;
`ConfigVersions` and `ModelVersions` have it exchange by exchange.

### ConfigVersions, ConfigInForce, ModelVersions, Mirror

`ConfigVersions`: one transaction per thread. `Begin` takes the UPDATE's
snapshot of active rows, `Deactivate` reaches one of them (waiting while another
transaction has it locked, skipping it when it is not active any more, as READ
COMMITTED re-checks a row), `Number` reads MAX + 1, `Insert`/`InsertRefused` the
UNIQUE version, `Commit`, `Rollback` (lost connection, deadlock victim).
`ConfigInForce` is the abstract specification: a register of accepted versions,
written one after the other, whose last is in force. In the refinement the
register's versions are the rows, and the one in force is what `get_active`
returns (`Effective`), although racing PUTs may leave several rows active.

`ModelVersions`: a run goes through `StartRun`, `NumberRun`, `OpenIso`,
`SaveIso`, `OpenLgbm`, `SaveLgbm` (only with enough labels), `Register`,
`MarkDone`; `RunFails` is the exception handler at any point, `RunDies` a killed
process. The number is read in a transaction of its own, so two runs may hold
the same one. `joblib.dump` writes in place (`ml/store.py:14`): `Open...`
truncates the file, `Save...` ends the dump, and a run that ends in between
leaves a torn file (`Abandon`). A file is the set of runs whose bytes it may
hold and whether it is one whole dump; when two runs wrote it at once, either
may have come out (`Remains`). Activation is modelled like the PUT above.

`Mirror`: `loop` is the one callback on the event loop between its commit and
its mirror write; `job[a]` the same for a thread with a review. `sent` is what
ClickHouse acknowledged and has not flushed; `Flush` and `Drop` decide its fate.
The backfill copies rows it has read one by one, outcomes then reviews, and
stops at the first exception. `clock` stands for `time.time_ns()`: versions are
ordered by the draw, which need not be the order of the commits; the backfill's
(seconds) are below all of them. `crossed` is a history variable: the reports
whose last review was committed while an earlier one was still to be mirrored.
The initial states include outcomes and reviews from before the mirror existed.
In the run callbacks and reviews do not interleave: they share no row.

### Analytics, Labels

`Analytics` has each query as a set expression over `traffic`, `outcomeLog` and
`feedbackLog`: half-open windows, a scope, the look-back of
`_OUTCOME_KNOWN_HORIZON_DAYS` for the transaction of a late outcome, failures by
reason, estimated fraud, the funnel, series and breakdowns, the search. `Labels`
moves the data: decisions with and without event, billing callbacks, their row
in the mirror (`MirrorOutcome`, stamped by ClickHouse when it is written, or
`OutcomeLost`), the backfill's row with the stored time (`BackfillOutcome`), the
merge of rows of one outcome at any time or never (`Merge`), reviews given and
given again, settings and configurations. It defines the labels a retraining
would derive now (`is_human_label`, the override by reports, the exclusion of
risky human labels) over the same engine. Time is in days. A review is copied
with its row; `Mirror` has that exchange by exchange. `WindowsAddUp` does not say
that adjacent windows never count an outcome twice, which the backfill refutes,
but how many they count twice: the transactions with a row on either side of
the border (`Straddling`), no other.

### Campaigns, Devices, Feed, Migrations, Accounts

`Campaigns`: every access to `_origins_cache` is a step, of the event loop
(`Ask`, `Hit`, `Query`, `QueryFails`, `Store`) or of an administrator's thread
(the commit, then `Invalidate`); the columns of an update are validated,
normalised and left alone as the code does. `Devices`: cache lookup, upsert,
write-through and the sorted set of one signature. Its four commands are one
Redis transaction (`ClusterSize`), at the time that was read before it
(`ReadClock`), so that a delayed submission records and prunes with an old time;
its answer may be lost (0). Redis may evict the copy (`Expire`) and the set
(`EvictSet`). `met` is the latest time a device was recorded for since then,
`outrun` the devices whose score an older submission put back. `ClusterIsWindow`
bounds a size from both sides, by the window at the submission's own time and by
the window now; without delay and loss the bounds meet. `Feed`: ClickHouse
stamps a row with a second (`Insert`) and writes it in that second or later
(`Flush`); a poll may get the rows of one second in any order; the connection
and the page's collection with its limits follow.
`Migrations`: PostgreSQL files with their record, ClickHouse statements and the
record after the last, any number of migrators, aborts anywhere. `Accounts`:
bootstrap by starting processes, login with INCR and EXPIRE as two steps,
stateless tokens, routes that check the claims only (`Admitted`) and routes that
check the row (`CheckAdmin`, then `Change`).

They share no state, so `MCAround` runs one of them per behaviour: `part` picks
it initially and never changes.

## 3. Runs

| Run | Instance | Question |
|---|---|---|
| `race` | 1 transaction, 3 sessions, 2 threads, 2 CP attempts | Do two racing and one late submission agree on everything told, stored, minted and logged? |
| `camps` | 2 campaigns of 2 services, 2 sessions, 2 threads | Can a session for one campaign decide under another? |
| `pair` | 2 transactions of one device, 2 threads | Is every decision counted on its device; does the API implement `TrxVerdict`? |
| `ends` | 1 transaction, 2 sessions, 2 threads, fair | Does every submission end? |
| `put` | 3 administrators, versions up to 6 | Are racing PUTs as good as PUTs made in turn (`ConfigInForce`), reviving no version? |
| `overlap` | 2 runs, 1 job, 2 administrators | Is the model loaded the one trained, are versions kept and approved; do done jobs have one? |
| `one` | the same | Violated: one model is active |
| `mirror` | 1 callback key and 2 contents, or 1 report, 2 administrators and 3 clock draws; backfill | Does the mirror agree with what is stored, and does the latest review win unless it crossed another? |
| `decisions` | a phone and a desktop and every visit that differs from the phone in one or two of 16 points, or from either in one of 27; 4 configurations (one malformed, one with a negative weight) besides the seed, 2 versions of configuration and models | Does the gate fail closed, the blend stay sound, the record and the explanation tell what was done? |
| `explain` | the same | Violated: the two modes of an explanation agree |
| `labels` | 2 transactions of 2 services, 2 days, horizon of 1 day; either the mirror is written (callbacks, rows late, lost, backfilled, merged) or the administrators are at work (reviews, 2 configurations, 2 maturations, a risky and an automated visit) | Do the figures agree for every window and scope; do labels follow the rules at any moment? |
| `around` | 2 administrators, browsers, threads and migrators, 2 origins, 2 devices, 4 decisions in the feed, 2 accounts, 1 process | The components around scoring, one per behaviour |

Why the bounds are enough. Conflicts in this code are between two parties over
one key: two submissions of a transaction, two holders of a version, a live
write and the copy, a reader and a writer of the cache. Two threads and one key
show every pairwise order; a third session lets a replay follow two racing
submissions, a third administrator lets a transaction begin before and end after
two others. `Nonce` bounds the sessions opened, `MaxAttempts` of `Scoring` the
CP attempts (two show a retry and the end of retries), `MaxVersion` the numbers
PUTs may take, `MaxClock` the reviews mirrored, `MaxConfig` and `MaxModel` the
publications, `MaxTime` the days, `MaxCount` the submissions of a device,
`Clock`, `Times`, `Second` and `Moment` the times looked at (each beyond the TTL
or window it is compared with), `MaxAttempts` of `Accounts` where the counter
stops, beyond its limit. Rules are monotone sums of independent points, so that
two differing points show a sum and an order of two triggers; the proofs of
section 5 are for every visit. With two processes in `around` the run passes as
well, in more time than a regular run should take. Symmetry is over
interchangeable values; the liveness run uses none.

`CHECK_DEADLOCK FALSE` stands where the system really stops: `ModelVersions`
(all runs over, no model to activate), `Decisions` (one decision, all versions
published) and `Labels` (the last day, everything said).

Fairness. `FairSpec` assumes weak fairness of `Step(w)`: a thread in a handler
is eventually scheduled and its exchange ends (the CP client has a timeout, the
statements touch one row). Nothing is assumed of clients, administrators, the
CP's answers, failures or restarts. It is used by `SubmissionsEnd` only. No
other liveness is stated: a queued retraining waits for someone to start the
program, the stream for the browser, a migration for a hand.

## 4. Disagreements between code and comments

Shown by a run:

- `one`: `model_versions_repo.py:56` and a test say that activation leaves one
  model active; two overlapping activations leave two. `get_active` takes the
  highest version of them, not the last approved. Nothing but the overlap does
  it: `OneModelInTurn` proves the comment for activations made in turn.
- `explain`: `explain.py:5` and `:44` promise an explanation that follows the
  score; a block by the country list is shown as a forced block and, in the same
  answer, as a weighted formula that was never used. `ModesAgreeForTheEngine`
  proves that no other decision explained from its stored features is.

The configuration has the same shape as the models (two rows may be active) but
there the highest version is the last accepted one, which `PutsInTurn` shows and
`PutsAreInTurn` proves.

Seen while modelling; the models do what the code does:

- `api/scoring.py:174` wants the final status in the event; a replayed allow
  mints again and updates the row, not the event.
- `jobs/retrain.py:5` describes save, then register, of one number; nothing
  reserves it. A run that read the same number as another has replaced the
  winner's artefacts before it is refused at the insert, and one that dies in a
  dump has truncated them: the API, which loads the files unguarded
  (`main.py:73`), does not start then. A run that died before registering leaves
  an `lgbm.pkl` that is loaded with the next version of its number even when
  that version has none, because the loader asks the disk
  (`ml/inference.py:36`). `TrainedIsLoaded` says that nothing but a shared number
  does this.
- `services/feedback.py:39` says that the newest review wins through `time_ns`;
  the version is drawn after the commit (`:48`), so two administrators' reviews
  of one report may be numbered against their commit order, and the mirror then
  keeps the older review until the report is reviewed again. `LatestReviewWins`
  is true only with its exception for `crossed`; TLC finds the crossing in
  `mirror` when it is dropped.
- `backfill_olap_mirror.py:3` calls the backfill idempotent because the tables
  replace rows of one key, and `labeling.py:43` wants no duplicate in the mirror.
  The backfill's row has the stored time, the mirror's the time it was written,
  the table is partitioned by month of that time and the queries have no FINAL:
  `count(DISTINCT trx_id)` (`analytics_repo.py:146`) hides the second row inside
  one window, not in two. `WindowsAddUp` counts them.
- `scoring/explain.py:21` lists eight of the fifteen factors of the formula.
- An extraction or rules error blocks, and is explained as
  `rules_only_failsafe`.
- `analytics_repo.py:562` compares the connection type with words `enrich_ip`
  never yields, so recomputed features never have a data centre or a carrier.
- `training_repo.py:3` says that blocked decisions are excluded; the query has
  no such condition.
- The exclusion of risky human labels applies to labels of accepted reports
  too, and is skipped when the configuration cannot be read (`retrain.py:86`).
  Of two accepted reports that contradict each other the order of the rows
  decides.
- `schemas/admin.py:75` takes any dictionary as `blend_weights`: a value that is
  no number fails every request that reaches the blend; a negative one may take
  a score below 0, or beyond 1 where the blend cuts it and the explanation does
  not, and turns suspicious signs in the visitor's favour. The run has such a
  configuration. `BlendInside` and `SuspicionNeverAllows` are about the others;
  `SharesAddUp` is about all, and tells the cut.
- `services/velocity.py:66` reads the clock before the Redis transaction: a
  delayed submission overwrites the newer score of its device with its own, which
  then leaves the window too early. The set may be evicted like any other key
  (`docker-compose.yml:59`), and the sizes start again. Either way a size is too
  small for its window, never too large, as `ClusterIsWindow` says.
- A decision records the loaded model version even when its files were missing.
- `security/origins.py:27` says an empty set after a failed read; the old set is
  kept and stamped anew. A reset between the test and the index fails that
  request with a TypeError (`:32`).
- `registry/campaign.py:39` takes the empty text for "no expectation"; the
  update takes it for "not sent" (`campaigns_repo.py:92`), so a home country
  cannot be cleared. Spaces alone raise an IndexError.
- A stream that ends is not opened again until the page's scope changes, and one
  that ends in order leaves the page saying it is connected (`useStream.ts`).

## 5. Proofs

Checked by TLAPS (SMT, Zenon, LS4) for every value of the constants under the
named assumptions: `ServiceOf` typed, `MaxAttempts` positive, marker values
(`NoRow`, `NoJob`, `NoRun`, `NULL`, `NIL`, `NONE`) outside the sets they stand
apart from (in `Labels`, `AbsentAssumption`), callbacks and reports different
things (`TablesAssumption`), a positive TTL, typed requests, finitely many
devices, statement counts and the feed's limits natural (`FeedAssumption`), model
scores in 0..100, configurations whose weights are integers or malformed and
whose thresholds are integers (`ConfigAssumption`), days natural
(`TimesAssumption`), callbacks of the forms their schema admits: a subscription
charged or failed, a complaint (`SaysAssumption`), and a feature that is a number
where an event has features (`ObservationAssumption`). TLC evaluates each of them
on a run.

`ScoringProofs` proves one part of the invariant at a time, each from the ones
before: `TypeOK`; `Sessions` (a nonce names one token); `Carried` (an admitted
submission holds a token bound to its transaction and campaign); from them
`TokenSingleUse`. `Decided` (past the lookup or the insert a thread acts on the
stored row) needs the frame lemma that rows are never replaced
(`StepRowsKept`), which is also `DecisionFinal`. From `Decided` follow
`MintOnlyAllowed` and `AnswersAgree`. `UrlOwned` (the request id names the
token) gives `OneUrlPerSubmission`, because a spent nonce is not spent again.
`HasUrl` gives `MintedIsReal` and the redirect step of the refinement
`PromiseKept`: every step is a `Decide`, `Mint`, `Tell...` or a stutter of
`TrxVerdict`. `OneDecider` with `EventsDecided` (who holds an unwritten event is
the one that inserted the row) gives `OneEventPerTrx`. `CountCoversDecisions`
strengthens to `AllCounted`: decisions of a device and submissions that have
counted but not decided are together at most its count. The lemmas `SumKept`,
`SumMoved` and `SumJoined` say what a step does to those two sets. `Inductive` is
the whole invariant `IndInv`.

`ConfigVersionsProofs`: the newest version is active, the rows a transaction has
updated are active and its alone (`LocksHeld`), and a number about to be
committed is one above the newest, by one transaction (`Numbered`). Without the
last, two commits could take one number. The refinement `PutsAreInTurn` follows:
a commit takes the register from one version to the next, and any other step of
a PUT leaves both what is stored and what is in force (`StepAccepts`).

`ModelVersionsProofs`: a run about to insert has saved what the row will claim
(`SavedFirst`), and as long as no other run has drawn its number the files are
its own, those closed are whole and there is no other (`SavedAlone`,
`FilesOfHolders`); a run past the insert owns a row and writes no more
(`RowOfRun`, `OwnersDone`). A number once drawn is kept and rows are only added,
so the four properties follow. `OneModelInTurn` has the hypothesis that
no two activations overlap (`[]InTurn`): then the one under way has every active
row still before it or updated (`Covered`).

`MirrorProofs`: every row sent, flushed or read for copying is the stored
outcome (`Faithful`), what the backfill has read is still to be copied or was
handed over (`Copied`). `LatestReviewWins` adds `Versions`: drawn versions are
distinct and below the clock, and the row of the stored review is above every
other row of its report, handed over or in hand. A report reviewed while an
earlier review of it waits to be mirrored is `crossed`, until it is reviewed
with none waiting; for those `Versions` and the property (`LatestWins`) say
nothing.

`DecisionsProofs`: the invariant says what a process knows (`ProcTruthful`: its
configuration and its files exist under the versions it names), what the row
says of the visit (`FailsClosed`, from `SignsRaiseFeatures` and `EngineBlocks`)
and where scores come from (`RowTruthful`). `BlendStaysInside` rests on lemmas
about weighted means over natural weights (`SumBounds`, `BlendBetween`), which
those without a negative one are (`NaturalWeights`); `SignsNeverHelp` on the
soft score and the blend rising with each feature (`SoftSumRises`,
`BlendRises`). `AuditorToldTheTruth` compares what the engine did with what
`explain.py` recomputes (`EngineExplains`, `DecideFaithful`) and shows that it
stays so (`ExplanationStays`): versions are only appended, so the row's version
is the configuration the decision was made with in every later state, whatever
is published or restarted. `SharesAreTheScore` is the algebra of the blend
again, for integer weights of any sign: the explanation's sum is the blend's
numerator, and above its denominator only if a weight is negative. All of them
are about every visit, every configuration and every prediction, not the ones of
the run.

`LabelsProofs`: the figures of a page agree because of what is in the tables
(`LInv`): a transaction has at most one event (`EventsOnce`), an outcome is
stored once (`OutcomesOnce`), its rows say the same as it, are not older, and at
most one of them is not stamped with the stored time (`CopiesOnce`); all are
finite. Without it a transaction with two events, or with rows that contradict
each other, would be counted twice in one figure and once in another. From
`LInv` on it is counting: a figure is the cardinality of a query, a sum over a
breakdown the cardinality of the disjoint union of its classes (`SumOf`,
`SumOfClasses`), a count of transactions that of the events that name them
(`TrxOfSize`). For adjacent windows the look-back finds the transaction of a row
in either; the hypothesis, that no row is written later than the look-back
(`AnsweredInTime`), is part of the property. A transaction both windows count
has two rows of one outcome, of which the earlier is the stored row itself, so
that the excess is what `Straddling` says, no more. `RobotStays` needs that what
is stored of a transaction is never taken back; `HumansAreClean` is the chain of
conditions from `labeled_candidates` to the exclusion of risky labels, with the
engine's lemma on the soft score.

`CopiesProofs` has three invariants. For the origins, `CIInv`: times are in order
(`InOrder`), the loop takes the cached set only while it is fresh and replaces
it only when it was not (`Begun`), a set in hand differs from the table only by
one of the three races (`Races`), and where it is wrong it is no newer than a
change or a failed read (`Knows`). For the
devices, `DIInv`: a copy is of a count the table has reached (`CopyReached`),
each score in the sorted set is a time recorded for its device, the latest one
unless it is outrun, and is there while it is less than a window old
(`SetIsWindow`), and a thread in hand has a count of its device and a time that
has been (`InStep`). For the feed, `FeedIInv`:
what is sent, under way or on the page is of the stream's scope and not newer
than its watermark (`OfStream`), what is under way is oldest first and not older
than the page (`OldestFirst`, `PageBehindWire`), and what the watermark has
passed was sent or is missed (`Accounted`). `FeedInOrder`, which looks at the
page alone, says nothing of the events that are about to reach it.

`OperationsProofs`, on migrations: what is recorded is applied (`RecordsTrue`),
and what a migrator holds as done is recorded, with the statements before its
own applied (`InHand`), from facts on the least file left (`FirstOf`).

On accounts: types, from which `WindowsEnd` is inductive by itself;
`CheckedFirst` (a request about to act was made by an active administrator or
has been overtaken); `TokensVouched` (a token is of a login whose check preceded
the account's deactivation).

Every safety property of the passing runs is a theorem. Only model-checked is
`SubmissionsEnd`: liveness and the ENABLED in its fairness are outside what the
prover supports. The two claims of section 4 that the code breaks have a
counterexample, and a theorem that says when they hold. Sums over tables are
written as cardinalities and the blend's sums over its three components term by
term, because the theorems about folds take an operator as a parameter, which
the provers cannot instantiate.

## 6. Not modelled

- Training itself (scikit-learn, LightGBM) and what a model answers: a model's
  score is any of `Prediction`; the order of the feature vectors is part of it.
- The tables of carriers, hosts, GPU names and the substrings looked for: data;
  the classes they decide are the inputs of `Features`.
- `block_reasons`, `behavior_stats`, `distinct_countries`, lists and paging:
  queries that read one table and combine nothing.
- Update of a service's name, URL and secret: single statements on one row that
  nothing else in the model reads.
- The prelanding page: `Scoring` admits every order and repetition of the
  requests it makes. Hashing and reading of browser interfaces, cryptography,
  passwords and CSRF: yes or no answers whose callers have both.
- Dashboard pages, logging, metrics, demonstration data, deployment.

## 7. What would come next

`Visitor`, the page composed with `Scoring`, for its retry against the single-use
token and the liveness of a visit; the remaining queries; the update of a service
under scoring; further abstract specifications in the manner of `ConfigInForce`:
a mirror as a copy that lags, the CORS cache as a register with a bounded age.
