# Verification of item_selector

`item_selector` finds products worth sourcing from China: a scheduler collects
keyword metrics and scores them, an API serves the ranking, keeps the operator's
products and their cost calculations, and turns scraped 1688/Taobao pages into
Korean detail pages. This directory holds TLA+ modules that model the parts of
it with state, the TLC configurations that check them, and the proofs TLAPS
checks.

## The system

Two Python processes share one PostgreSQL database and one Redis:

* the **API** (`uvicorn`, one worker): one asyncio loop runs the `async`
  endpoints and the background tasks they create with `asyncio.create_task`;
* the **scheduler** (`python -m app.scheduler.main`): APScheduler on one asyncio
  loop runs the jobs of `scheduler/registry.py`.

Every request, job attempt and background run has one SQLAlchemy session
(READ COMMITTED, `autoflush=False`). The engine is synchronous: a statement that
waits for a lock holds up the whole loop of its process, and no statement or lock
timeout is set. A Next.js frontend and a Chrome extension call the API.
`docker-compose.yml` restarts a container that stops; coroutines and in-memory
state are then gone, rows, files and Redis keys stay.

### Components

Paths are below `src/backend/app` unless they name the frontend or the extension.

| component | state | operations | interacts with | what is hard |
|---|---|---|---|---|
| Detail-page requests and runs (`routers/detail_pages.py`, `services/detail_pages/ingest.py`) | `detail_pages`, `source_products`, `generated/{id}/page.jpg`, asyncio tasks | ingest, regenerate, background run (download, copywriting, rendering, commit) | extension and frontend call it; language model, browser | overlapping runs of one page, the unit of work writes changed columns only, restarts, a commit that fails |
| Token bucket (`ratelimit/rate_limiter.py`) | two Redis keys, or two attributes | acquire (blocking, deadline), peek, fallback | worker processes; Redis | the clock is read before the script is sent, lost answers, put-back of peek |
| Coupang collector (`scheduler/jobs/collect_coupang.py`) | the run's bucket and list | a run every 10 min | bucket, API cache, `opportunity_scores` | one token for each miss, outages, restarts, starvation of the tail |
| API cache (`cache/api_cache.py`) | `api_cache` rows with `expires_at` | get, set, delete, delete_expired | Coupang collector | expiry between look-up and use |
| Score jobs (`scheduler/jobs/recalculate_opportunities.py`, `fill_missing_signals.py`) | `opportunity_scores` of today | whole recalculation, retry of rows with gaps | both processes write the same rows | row locks held across awaits, deadlock, stale selection, batch limit |
| Runner, registry, main (`scheduler/runner.py`, `registry.py`, `base.py`, `main.py`) | attempts of a job | execute, back-off, triggers | all jobs | retries after rollback, one instance at a time, a loop that is blocked |
| Operator's pipeline, seed discovery and approval (`routers/admin.py`, `services/discover_seeds.py`, `services/categorize.py`) | `seed_candidates`, one running task of each kind | expand, discover, approve | keyword tables, score jobs, import statistics | rows written and held across an await on the API's loop, windows of months cut in days |
| Keyword collection and metrics (`scheduler/jobs/collect_keywords.py`, `collect_metrics.py`, `routers/keywords.py`) | `keywords`, `keyword_metrics` | expand seeds, upsert metrics, PENDING to ACTIVE | Naver clients, pipeline | existing terms read once, one commit for all, status written from a stale row |
| Translation and its budget (`scheduler/jobs/translate_keywords.py`, `clients/google_translate.py`) | the Chinese term of a keyword, a monthly Redis counter | translate a batch per run, in both processes | Redis, Google | check-then-increment, outages, terms that never get a translation |
| Exchange rate (`scheduler/jobs/collect_exchange_rate.py`, `clients/exchange_rate.py`) | `exchange_rates` | hourly refresh, fallback to the last row | product costs | freshness against interval |
| Customs statistics (`scheduler/jobs/collect_customs.py`, `clients/customs.py`) | `import_stats` | weekly | score jobs, discovery | month arithmetic, months asked for twice, late publication |
| Products (`services/product_service.py`, `routers/products.py`) | `products`, `product_scores`, `channel_profits` | create, recalculate, list | exchange rate, scores | check-then-insert, delete and insert of today's score |
| Scoring (`scoring/*.py`) | none | pure functions | score jobs, products | thresholds, caps, rounding |
| Schema, migrations, bootstrap (`alembic/`, `app/models/`, `docker-entrypoint.sh`, `docker-compose.yml`, `app/scripts/`) | `alembic_version`, every table, the containers | upgrade, downgrade, fill, start | every start of the API and the scheduler | an older scheduler at work during a migration, restarts between two scripts |
| Ranking, calculator, feedback, categories (`services/opportunity_service.py`, other routers) | none of their own, or single rows | reads, single writes | frontend | little |
| API clients (`clients/*.py`) | none | one HTTP request each | jobs | appear as "an answer, a gap or an exception" |
| Frontend, extension | views that may be stale | buttons | API | which requests can arrive |

### What makes them correct

* Detail pages: every accepted request ends in done or failed; a done row is the
  record of one run; what is offered exists on disk.
* Token bucket: in no stretch of time more than a full bucket and what was earned.
* Coupang: the quota over all runs, a query repeated before its entry expires only when
  its answer was lost, every term served again and again.
* Score jobs: success means every selected keyword is written or listed; runs end;
  gaps are closed the same day.
* Keywords: what was approved is an active seed and stays one, whichever job has an
  old copy of the row; nothing else is active without a metric; a metric row is what one
  run saw; a category is there twice only by a clash of two requests; the API's loop does
  not wait for itself.
* Translation: the month's budget over both processes; every term in the end.
* Products: one per URL; the score shown is that of the row, as its columns round it;
  score, detail page and calculator agree on the costs of what the columns hold exactly;
  the rate is recent; no verdict recommends a loss.
* Imports: a stored month is what was imported; trade that does not change has not
  grown; a code that falls proposes no terms; better trade never costs points.
* Releases: whatever runs finds the tables it was written for and the data it relies
  on; a start takes nothing back; in the end both containers run, if the image has the
  files the entrypoint names.

## Modules

| module | models | extended or instantiated by |
|---|---|---|
| `PublishedPages` | what the operator is promised about a page | `DetailPages` (refinement) |
| `DetailPages` | requests, background runs, restarts | `MCDetailPages`, `DetailPagesProofs` |
| `DetailPagesProofs` | proofs, the refinement among them | |
| `Quota` | what a bucket is made with | `TokenBucket`, `CoupangRefresh` |
| `TokenBucket` | both buckets | `QuotaProofs` |
| `CoupangRefresh` | the collector with its bucket, cache and trigger | `MCCoupangRefresh`, `QuotaProofs` |
| `ScoreJobs` | the three writers of today's scores, on their loops | `MCScoreJobs`, `ScoreJobsProofs` |
| `Keywords` | the writers of keywords, metrics, categories and candidates | `MCKeywords`, `KeywordsProofs` |
| `Translation` | the job in both processes and the month's counter | `MCTranslation`, `TranslationProofs` |
| `ProductScoring` | costs, channels, points and verdict as functions | `Products` |
| `Products` | create, adjust, read, and the hourly rate | `MCProducts`, `ProductsProofs` |
| `OpportunityScoring` | the points of a keyword and the exclusions as functions | `Market` |
| `Market` | import statistics, growth, discovery | `MCMarket`, `MarketProofs` |
| `Schema` | the migrations 0001 to 0016 as operations on tables | `Models` |
| `Models` | the tables that `app/models/` declares | `Deployment` |
| `Deployment` | compose, the entrypoint, alembic, the scripts | `MCDeployment`, `DeploymentProofs` |

In the modules of the two Python processes an action is the code of one coroutine
from one await to the next, because nothing else runs on its loop in between; a step
of another process can come between any two actions. The handlers of `Products` are
plain functions in a pool of threads; there an action ends where the database is asked.

Definitions whose comment says *Faulty variant* are not part of any specification.
Each stands before the definition it deviates from; with the variant in its place
the property named in `PROJECT.json` under `mutants` fails, which shows that the
property depends on that piece of the code.

### DetailPages

`row`, `source` and `jpg` are the two tables and the file. `task` maps each
background run to its coroutine: its phase, the row as its session loaded it
(`loaded`), the payload it started from and the props it has built. `Flush` is the
unit of work: COMMIT sends the columns in which the new values differ from
`loaded`, the others stay as they are in the table *now*. That is why a value that
another session reset meanwhile may survive.

`Ingest` and `Regenerate` are the handlers (no await in their bodies, so one
action each). `Start`, `Copywrite`, `Finish`, `Fail` cut `process_detail_page` at
its awaits; tasks begin in the order in which they were created (`First`). `CommitFails`
is a refused COMMIT, of the mark, the result or the failure; the row stays as it was and
the task is gone. `Crash` is a restart.
`StaleViews` says whether a request may arrive that the frontend's button would
not have sent, from a second tab for instance.

Text, pictures and the choice of pictures are model values; `BlankCopy` is a copy
whose title is empty, because the code treats it differently.

`PublishedPages` has no tasks, sessions or columns: a page is absent, queued,
worked on, published with a picture in the template asked for last, or given up.
`DetailPages` implements it through `Operator` when requests do not overlap.

### TokenBucket

Time and tokens share a unit: the bucket earns one unit per unit of time, a token
is worth `PerToken`. `Sample` (the clock is read) and `Granted`, `Refused` or
`RedisFails` (the script runs, or does not, or its answer is lost) are separate,
since another process can run its script in between. `peek_tokens` is `Peek`,
`PeekScript`, `PutBack`. In memory the clock is read under the lock, so the same
actions apply to a worker that has not sampled. `since` and `spent` belong to an
observer, who opens a window at any time and adds up what is granted from then on.

### CoupangRefresh

`run` is the run of the job with the list still to do, `wait` the trigger, `cache`
the time left of each entry, `level` the Redis bucket refilled to the present;
`run.own` is the level of the bucket in memory that `build_coupang_bucket` creates
when the ping fails. `TokenBucket` is not instantiated: the job is the only caller
and reads the clock in order, and for such a caller the bucket is its level
(`RefillEarns` in `QuotaProofs`: a refill earns the time that has passed, up to the capacity).
`paid`, `repeats` and `window` belong to observers: how long ago each term was answered, how
many requests asked again within the `Ttl`, and the stretch in which calls are counted.

The real Coupang client is a stub, so a request is modelled by the contract of
its protocol: it answers, fails, or ends by a timeout of ten seconds.

### ScoreJobs

`score` is the committed table, `job[j].wrote` the rows of the job's transaction. A
keyword's signals are awaited (`fetching`), then its UPSERT runs, or waits for a row another
transaction has written (`waiting`). `LoopRuns(j)` is what a synchronous engine comes to: a
coroutine goes on only if no coroutine of the same process waits for a lock. `recalculate`
and `fill` share the scheduler's loop, the operator's run is made by the API. `Raises` rolls
back and, for `recalculate`, sleeps before the next attempt; `Invalid` is the one exception
of a keyword that is raised outside its `try`, when its signals do not fit
`OpportunityInputs`. `DeadlockDetected` is PostgreSQL ending one of two transactions that
wait for each other. A row is `full` or `partial`; what the points are made of is
`OpportunityScoring`.

### Keywords

`keywords`, `metrics`, `categories` and `candidates` are committed rows. `run[p]` is
the job of a process: what it loaded at its start (`known`, `seeds`, `loaded`) and what
its session holds. `InsertNew` is the one commit of `collect_keywords`: it fails as a
whole when somebody else has inserted a term meanwhile. `CommitMetrics` sends the
columns that changed, so a status that was loaded before the awaits is written only
where it was PENDING.

A request of the operator (`CreateSeed`, `Approve`) asks the classifier for one term
after the other, and everything between two questions is one action, `Classified`.
`pending` is what its session will write, `flushed` what it has written, which happens
early only when a category had to be added: the flush that fetches its id takes the
keywords along. Whoever needs such a row waits; if that is a coroutine of the API, its
loop waits for itself (`Hang`), until the process is restarted. `Clashing` is an observer's
note of the names that a request adds while another one has added them since it looked.

`Class` is `infer_category_name` over the shop's items. `Markers` and `OnTopic` are the
fragments two seeds share and the filter made of them. `Ranked` is the volume floor and
the limit per seed.

### Translation

`run[p]` is a run of the job in a process: the terms left, the translations its session
holds and the term it is asking for. `ReadBudget`, `Reserve` and `Answered` are the GET,
the INCRBY and the request, each an await. `SkipRead` and `SkipReserve` are a Redis that
does not answer, in which case the request is sent all the same. `NewMonth` is the key of
a new month. `sent` and `uncounted` belong to an observer; what is reserved counts for the
month of its key, also when the request goes out after midnight.

### ProductScoring, Products

`ProductScoring` is the arithmetic: landed cost, both channels, margin, ROI, breakeven,
points and verdict, functions of one record of inputs, rounded as the code rounds.
`Rounded` is ROUND_HALF_UP, `RoundedEven` the `to_integral_value()` of the estimated price.

In `Products` a request is a `task`. `Check` is the look-up by URL, `Insert` the
transaction of the product, its score and its channels. A PATCH is `Load`, `Flush`,
`Rescore`, `Replace`; its UPDATE lists the changed columns (`Changed`) and locks the row
until the commit; `Replace` deletes the score that was selected and inserts another, and
fails on the unique key when someone else was faster. The score is computed from the
request as it was given, the table keeps what its NUMERIC columns hold (`Held`, `Kept`; the
constant `Place` is the smallest amount of a column); `of` is the row as it was scored.
`Refresh` is the hourly job with
`HybridExchangeRateClient`; the age of a rate is counted in runs of the job, and what the
last run fetched may be found fresh or not, since trigger and row do not use the same
instant. `crossed` and `torn` belong to an observer: URLs whose create requests
overlapped, products whose last score was written by a PATCH that was not alone.

`Breakdown`, `Calculated` and `Costs(Inputs(...))` are the three places that compute the
costs.

### OpportunityScoring, Market

`OpportunityScoring` is the sum of the six axes and the exclusions, in integers. The
logarithm of the demand axis is the constant `LogShare`.

In `Market` months are numbers. `Windows` are the two answers of the client, which share
a month; `Amount` adds them up. `FetchCode` and `CommitStats` are the weekly job,
`BeginSearch`, `Mine`, `SaveCandidates` discovery; its windows are cut in days, hence
`MonthBefore`; of the codes that have risen (`Risen`) it takes the `TopLimit` imported most.
`trade` is what was really imported, `listed` the last month published.
`Values` numbers the amounts from the newest, `Stored` are the last twelve. Sums (`Total`)
are recursive functions over what there is.

### Schema, Models, Deployment

A schema maps table names to columns (type, and whether NULL, required or with a server
default), unique keys and references. `Schema` has one operation for each kind of step in
`alembic/versions/` and lists the changes of each revision both ways; `Known[r]` is what
the upgrades up to `r` build. `Reached` runs changes on a schema and reaches none when the
database would refuse one. `++` joins two functions, like the operator of `TLC`, which the
prover does not know. `Models` declares the tables again, from the classes, and `Serves`
compares.

In `Deployment` `revision` and `schema` are the database; `phase[p]` is how far the
container has come in the entrypoint, `image[p]` what it is made of, `seen[p]` the
revision its alembic has read. `ReadRevision` and `Migrate` are separate, because two
containers may migrate; all of a migration is one transaction. `Seed` to `InsertSeeds` are
the scripts, each a transaction. The older scheduler works on (`Collect`) until the new
API is healthy (`Recreate`). `supplied` are the imports whose files are in the image:
`Deploy` builds it with what backend/data holds then, and a start whose file is missing ends
there (`MissesFile`). `Breaks` ends a container at any point; `Downgrade` is made
by hand while nothing runs.

## Runs

| run | module | shows |
|---|---|---|
| `dp_serial` | `MCDetailPages` | requests that see the row as it is: `DoneIsOneRun` and the refinement `KeepsPromise` |
| `dp_overlap` | `MCDetailPages` | overlapping runs: `UnsettledHasTask`, `ImageOnDisk`, and under fairness `RequestsSettle` |
| `tb_quota` | `TokenBucket` | `WithinQuota` for one process at the Redis keys and for two coroutines at the bucket in memory |
| `cr_refresh` | `MCCoupangRefresh` | `QuotaWhileRedisAnswers`; `LossRepeatsOnce`: each lost answer makes the job repeat one query at most; under fairness `EveryTermServed` |
| `sj_jobs` | `MCScoreJobs` | all three jobs: `SuccessIsAccounted`; `HangsOnOneLoop`: there is no hang but the one of `sj_v_hang`; under fairness `EndsUnlessHung` |
| `kw_rows` | `MCKeywords` | both jobs in both processes, seeds typed in, candidates approved: `StandingEarned`, `SeedsStay`, `RowOfOneRun`, `LoopGoesOn`; `SecondNamesClashed`: two requests that look a name up at once are the only way to a second row of it |
| `tr_budget` | `MCTranslation` | `SentWithinBudget`, and under fairness `AllTranslated`; deadlock is checked |
| `pr_scores` | `MCProducts` | `OneProductPerUrl`, `ScoreOfRow`, `CostsAgree`, `RateIsRecent`, with amounts that the columns round |
| `mk_trade` | `MCMarket` | `StatsOfTrade`, `FlatTradeIsFlat`, `NoFallingCandidate`, `BetterTradeNeverHurts` |
| `dy_release` | `MCDeployment` | an older release's scheduler under a migrating API: `CodeFits`, `Bootstrapped`, `RestartsKeep`, and under fairness `Ready`; the missing customs file comes with a later image or never |

Each passing run but `dp_overlap` checks the type invariant of its module as well; that of
`DetailPages` holds for overlapping runs by `TypeCorrect`.

Two runs end in a counterexample, each to a sentence of the repository:

| run | property | the sentence | what happens |
|---|---|---|---|
| `sj_v_hang` | `RunsEnd` | "the scheduler must keep running even if a job permanently fails", `scheduler/runner.py:48` | `fill` waits, on the scheduler's loop, for a row that `recalculate` has written and can commit only on that loop |
| `mk_v_windows` | `WindowsAreThreeMonths` | "Compare the 3 most-recent complete months vs the 3 preceding.", `services/discover_seeds.py:112` | the windows are cut at 62, 63 and 150 days; unless the two months before have 62 days together, the newer one has four months and shares one with the older |

**Assumed by every statement about a running API**: that
`관세청_품목번호별 관세율표_20260211.xlsx` has been put into `backend/data` before the image is
built. It is not in the repository (its size may be the reason), and without it no container of
the release is ever healthy.

### Met on the way

These are disagreements between the code and a sentence, or limits of the code, that a
condition inside a property or a comment of a module names; none has a run of its own.

* Detail pages: a restart leaves a page pending or processing for ever (`crashes > 0` in
  `RequestsSettle`), and so does a COMMIT that is refused, although "Never raises: failures are
  persisted" (`ingest.py:142`): that of the mark is outside the inner `try`, after that of the
  result `session.get` on the session that was not rolled back raises too, and that of the
  failure has no handler (`dbErrors > 0`). After overlapping
  regenerates a row may be done with `image_path` NULL (`models/detail_page.py:5`).
* Token bucket: with several processes a script that has read an older clock sets
  `last_refill` back and time is earned twice ("multiple workers can safely race",
  `rate_limiter.py:140`); hence one process in `tb_quota` and `OneWriter`. A full bucket of
  ten that earns ten an hour allows close to twenty calls in its first hour.
* Coupang: each run that finds Redis away builds a full bucket in memory ("we fail closed",
  `rate_limiter.py:223`). A restart between an answer and its row loses the answer, and the
  query is sent again ("a process restart never replays the same query",
  `clients/coupang_partners.py:9`); `LossRepeatsOnce` says that this is the whole damage.
* Score jobs: `fill` applies its LIMIT before the check for a gap, so gaps behind the first
  rows are never looked at ("any keyword", `registry.py:86`); `sj_jobs` has a limit that
  covers all keywords. Signals that do not fit `OpportunityInputs` end the whole run. A row
  with all signals may be overwritten by one with a gap, when it was selected before; the
  gap is closed again.
* Keywords: with a category row missing, two requests may both add it (`SecondNamesClashed`
  says that this is the only way to a second row), after which every
  request for that name fails, and the API's loop may wait for itself. Terms that
  `collect_keywords` finds present keep a NULL category although a migration's docstring
  says they inherit it (`0013`).
* Translation: the counter is read and incremented by two commands though the docstring says
  it is atomic; at most one term too much is sent. As many terms with an empty translation as
  the limit of a run would keep all others from being translated.
* Products: the score is computed from the price, duty, share and weight of the request, the
  page from what the columns keep of them ("it's cheap to recompute deterministically",
  `product_service.py:399`), so they disagree where a column rounds; `CostsAgree` is about
  rows the columns hold exactly, `ScoreOfRow` about all. Of two PATCHes that overlap each
  scores a row without the other's columns ("the UI reflects the adjustment immediately",
  `product_service.py:702`), until one is made alone (`torn`). A weight that can be priced
  wins over the operator's shipping amount (`product_service.py:297`); a PATCH with
  `shipping_method` None changes nothing; a selling price of 0 is shown as the operator's
  while the score uses the estimate; the calculator's default rate is 195 and the service's
  190; keywords without mapping or hint get the HS code of pet food. GO needs 80 points and
  the scorer can give 77.
* Imports: the client's two windows of eleven months share the middle one, whose value is
  doubled when it is stored (`StatsOfTrade` names the cases); a docstring of the trend
  score and its cap differ; an empty market of little demand counts as strong competition.
* Releases: the customs file named in `docker-entrypoint.sh:24` is not in `backend/data`
  ("Copy application source (includes data/ with seed xlsx/xls files",
  `backend/Dockerfile:55`), and every start ends there (`import_customs_rates.py:198`). An
  older scheduler that restarts after the migration's commit cannot find its revision and
  tries again until it is made anew; downgrades below 0002 and 0003 are refused once long
  names or wide rates are stored; `healthcheck` gives the bootstrap 280 seconds, after which
  compose gives up on the scheduler; the enum of `KeywordStatus` and its default are spelled
  differently, which matters to `create_all` only.

### Bounds, and why they are enough

* `dp_serial`, `dp_overlap`: two pages so that the tasks of one page meet tasks of
  another in the order of the loop; two templates and two payloads so that a
  picture of the wrong run can be told apart; a copy with a title and one without
  in `dp_serial`. Four and three tasks: three runs of one page overlap at most in
  `dp_overlap`, and what one run can do to a row needs two. One restart and one
  failed commit, at any point.
* `tb_quota`: two tokens of three units, eight time units: the bucket can be
  emptied, refilled in part, capped and emptied again; deadlines before and after
  the next token.
* `cr_refresh`: three terms and two tokens, so that a run cannot serve the list;
  `Ttl` (10) leaves time to earn a token per term. With a `Ttl` below that no
  program could serve all; the code's numbers (24 h, ten per hour, 100 terms) are
  on the same side. One outage, restart, refused statement and failed request.
* `sj_jobs`: two keywords suffice for two transactions to take locks in opposite
  orders; two whole recalculations of each kind, two refused statements (more than
  one attempt is spent), two gaps, a restart.
* `kw_rows`: three related terms of which two share a fragment and one lies at the volume
  floor; two names, one of which may have no row; shop answers for each branch of `Class`
  (none, empty, without a category, unknown category, pets second); two requests and both
  processes, two of them under way together, which is what every conflict here needs; two
  runs of the metrics with one gap each.
* `tr_budget`: four terms of one or two characters of which one never gets a translation,
  a budget of four, so that a month ends before the terms do; one outage, refusal or lost
  run at any point.
* `pr_scores`: two threads, two products of one URL, two days, three scores; one order and
  two patches that between them clear, set and zero every field; tiers that fit in both
  methods, in one and in none; one run of the rate job without a rate. `Scale` is 100
  instead of 10,000 and amounts are in hundreds of won; verdict and costs are compared, not
  their digits.
* `mk_trade` (the limit of codes does not bite, the theorems hold for any): April of a leap
  year, so that a window of 62 days begins a month early, and May; four pairs of imports
  that are flat, fall, surge, begin; one code a run, so that the other keeps old rows; five
  sets of signals at the edges of the axes.
* `dy_release`: a new machine, revision 11 (before the reset of the categories in 0013) and
  the head; two crashes or refusals and two stops at any points, enough for the start of
  one container to be lost while the other is at work, and again after a downgrade; images
  with the files of the repository and with all. All sixteen migrations run both ways.
* Every bound is a constant named `Max...`; reaching one stops that kind of event only, and
  where deadlock checking is off that is because the system then rests.

### Fairness

* `DetailPages`: weak fairness of each task's step. The loop runs ready coroutines
  and each await of the pipeline ends (downloads, language model and browser have
  timeouts). None for requests, restarts and failing commits.
* `CoupangRefresh`: weak fairness of the trigger, the loop, the end of a request and
  the clock. What goes wrong is bounded, not fair.
* `ScoreJobs`: weak fairness of an awaited signal's return (clients have timeouts),
  of the back-off's end and of deadlock detection; strong fairness of `Unblocked`:
  a lock can be free, taken and free again, and PostgreSQL queues its waiters. The
  trigger of `fill` fires again and again; that of `recalculate` and the operator
  need not. `Fetched` includes that a signal is missing, at most `MaxFlaws` times. The hang
  that `sj_v_hang` shows is set apart as the hypothesis `[]NoHang` of `EndsUnlessHung`.
* `Translation`: weak fairness of the scheduler's hourly run, of each process's steps and of
  the months; strong fairness of an answer for each term, which says that the service does
  not fail for the same term for ever. None for the operator's run, outages, refusals and
  lost runs. The limit covers the pending terms (`BatchLimit`); with more terms without a
  translation than the limit the rest would never be reached.
* `Deployment`: weak fairness of each container's start (restart policy). None for `Recreate`
  (compose gives up when the health check fails too long), deployments, stops, downgrades,
  crashes. `Ready` is about a container once compose has made it, for the API with all files.

## Proofs

`tlapm` checks them for every value of the constants that the named assumptions
allow. Each module proves one inductive invariant, one lemma per action, and its theorems
from it.

* **`DetailPagesProofs`**. `TypeCorrect`, `Attendance` (`UnsettledHasTask`),
  `FailuresExplained` (a failed row has its reason) and `ImagesOnDisk` (`ImageOnDisk`)
  hold in every interleaving, overlapping runs included. They rest on `IInv`: whether
  `Flush` leaves a column alone depends on what the session loaded, so `TaskShape` says of
  each running task that the row it loaded was processing and had no reason, which is
  why its final status always reaches the table; and `NumbersInOrder` says that the
  next task number is free. Given `IInv`, each of the three properties is kept by
  every step (`AttendanceStep`, `ReasonStep`, `ImageStep`). `RunsAreWhole`
  (`DoneIsOneRun`) and `RunsAreSingle` (`OneRunPerPage`) assume `~StaleViews`; there
  `OwnsRow` is added: while a task runs, the row in the table is exactly the row it
  loaded, so that what it means to write is what it leaves.
  `PromiseKept` (`KeepsPromise`) is the refinement: with `OwnsRow`, every step maps to
  `Submit`, `Begin`, `Publish`, `GiveUp` or a stutter, for failures and restarts too.
* **`QuotaProofs`**, about two modules. Of `TokenBucket`: `BucketTyped` and `QuotaKept`
  (`WithinQuota`) assume `OneWriter`, one process at the Redis keys; for the bucket in
  memory any number of coroutines. The invariant keeps an account: what was granted in the
  window and what is still in the bucket come to no more than a full bucket and the time
  from the opening of the window to the last refill, a token that `peek_tokens` has out
  included; and no call on its way has read a clock older than the last refill. Of
  `CoupangRefresh`, whose definitions carry names of their own (`RefreshSpec`) because the
  module extends both: `RefreshTyped`, `RunsShareTheQuota` (`QuotaWhileRedisAnswers`),
  `EachLossRepeatsOnce` (`LossRepeatsOnce`). The account again, now over runs, restarts and
  the clock: until an outage, tokens spent and the level come to no more than a full bucket
  and the window's length. And a second account, of losses: a term whose answer is younger
  than the TTL and outlives its entry (`Lost`) has cost one restart, refused statement or
  failed request of its own, and a repeated query uses it up, so that repeats and terms in
  `Lost` together never exceed the losses.
* **`ScoreJobsProofs`**. `JobsTyped`; `SuccessAccounted` (`SuccessIsAccounted`): each
  keyword a run has selected is in failures, written, or still in its list, and
  only a run under way has uncommitted rows; `HangsShareALoop` (`HangsOnOneLoop`): among jobs
  that wait, one waits on a loop on which another awaits with rows it has written. Of
  the jobs of a process one waits at most (`OneWaits`), so that without such a pair the jobs
  that wait, one of each process, wait for each other, which is a cycle PostgreSQL ends.
* **`KeywordsProofs`**. `KeywordsTyped`, `StandingIsEarned` (`StandingEarned`),
  `RowsOfOneRun` (`RowOfOneRun`), `SeedsAreKept` (`SeedsStay`), `SecondNamesHaveClashed`
  (`SecondNamesClashed`), `LoopNeverWaits` (`LoopGoesOn`). Keywords and categories only
  grow, so what a session read is still there; a row that a run means to insert is one it
  found missing; and while every name has its row no request has written anything before its
  last question (`Unwritten`), so that there is nothing to wait for.
* **`TranslationProofs`**. `Typed`, `BudgetKept` (`SentWithinBudget`): what a process has
  checked and not yet reserved is one term; with the counter it stays within one term of the
  budget, because whoever checked last still fits.
* **`ProductsProofs`**. `ProductsTyped`, `UrlsAreLookedUp` (`OneProductPerUrl`),
  `RateIsKeptFresh` (`RateIsRecent`), `CostsAgreeEverywhere` (`CostsAgree`),
  `ScoresFollowRows` (`ScoreOfRow`). As long as a PATCH is alone with its product the row in
  the table is the one it loaded, so that what it scored is what it leaves, as its columns
  round it (`WrittenRow`); no score of the product is newer than the day it scores for, so
  that its score is the one shown (`Shown`, `LatestIsShown`); and a URL on its way that is
  not crossed is on no other way. The three computations of the costs are compared by
  `BreakdownIsCosts` and `CalculatedIsBreakdown`. That a verdict pays needs the arithmetic:
  amounts and rates are not negative and the rate in use is positive, the landed cost of a
  unit is positive (`Landed`), and a product whose recommended channel earns nothing
  collects too few points of profit for any verdict but PASS, whatever its risk and
  opportunity are (`LittleEarned`, `LittleRisk`, `LittleProfit`, `RecommendedLoses`,
  `PaysOrPass`).
* **`MarketProofs`**. `MarketTyped`, `StatsFollowTrade` (`StatsOfTrade`), `FlatStaysFlat`
  (`FlatTradeIsFlat`), `FallingNeverFound` (`NoFallingCandidate`), `GrowthNeverHurts`
  (`BetterTradeNeverHurts`). The invariant says what an answer of the client holds, with the
  month it was fetched in (`Answer`), and of each code that every month with imports between
  twelve and two months before a run that fetched it is stored (`StatsOK`). So the run of the
  month after renews a doubled row (`Repaired`). Between the windows a falling code cannot
  gain a half: what either window sums was fetched less than ten months later and is not
  doubled, the older window is stored without a gap as soon as one month of the newer is, the
  newer holds four months at most and the older three at least, and four thirds are less
  than one and a half (`FallingNeverLeaps`). The windows come from the lengths of months alone
  (`DaysBounds`, `CutOff`, `WindowsAre`), for any date. The sums are recursive functions;
  `SumsExist` shows that their recursion has a solution and `TotalStep` that it is the sum,
  both by the least counterexample, because the induction theorems of the library cannot be
  instantiated here.
* **`DeploymentProofs`**. `AnswersWhenBootstrapped` (`Bootstrapped`), `StartsTakeNothingBack`
  (`RestartsKeep`), `CategoriesOnce` (the part of `TypeOK` about rows). The invariant says for
  each step of the entrypoint what those before it have left (`StepsDone`, `SeedsIn`), and why
  nobody takes it away meanwhile: an image never reads a revision newer than its own, and
  what an alembic has read is never newer than the table's (`Versions`), so that a migration
  only moves up (`MigrationMovesUp`) and, once the API is past its own, the scheduler of the
  older release has none left to do.

  Of the tables: `DatabaseOfItsRevision` (`TypeOK`, and more) and `CodeFindsItsTables`
  (`CodeFits`). The invariant `Tables` says that the tables are exactly `Known[revision]`,
  which is stronger than what `TypeOK` says of their names, and that a container that runs
  is of a revision not newer than the database's. It is inductive because of what the
  sixteen migrations are: each `downgrade()` undoes its `upgrade()` (`WayBack`), so that
  migrations lead from `Known[from]` to `Known[to]` either way, if they lead anywhere
  (`ReachesKnown`). For `CodeFits`, every later schema serves code of an earlier one
  (`LaterServes`: what a revision adds is no column without a default, what it retypes it
  widens), and the last serves `app/models/` (`HeadServes`). The recursions over revisions
  (`Known`, `Reached`) are shown to have solutions, and what they compute follows, by the
  least counterexample. Schemas are never unfolded column by column: a lemma for each kind of
  change (create, drop, add, remove, retype) says what it leaves and when it is undone.

  `StartsAreAccepted` and `DowngradesAreAccepted` say that migrations do arrive. An upgrade is
  never refused (`UpAllowed`, `RetypesAllowed`): each creates tables in an order in which what
  they refer to comes first (`FirstRefers`), every reference finds an id or a code of its own
  type (`InitialResolves`), and what is added is new. A way back drops what no other table
  refers to any more (`KnownTargets`, `DownAllowed`); the one that can be refused is that of
  0002, while HS names longer than 255 characters are there. With the keys of `ON CONFLICT`
  this is what a start asks of the database at each of its steps (`Accepted`).

The proofs assume of the constants what the `ASSUME`s of the modules say, which TLC
evaluates on every run: for `Products` that amounts, tariffs and tiers are not negative and
the default rate is positive (`AmountsAssumption`), for `Market` that imports are not
negative and that `Scale` is even, so that half a ratio is a whole number of parts
(`MarketAssumption`, `SignalsAssumption`); for `Deployment` that `None` is the name of no
category and not a row.

Only model-checked: every liveness property, because liveness under fairness and ENABLED are
out of the prover's reach. Of `Ready` the part without time is proved (`StartsAreAccepted`):
no guard that stands for the database stops a start; that the steps are taken is TLC's. Every
invariant and every action property of the passing runs is a theorem.

## Not modelled

* Opportunity ranking API, API clients: reads, and one HTTP request each; clients appear as
  "an answer, a gap or an exception".
* Of the detail pages: pictures, their scoring and their pairing with option labels, prompts,
  templates, rendering.
* Frontend and extension: only which requests can arrive.
* Calculator: the look-up of category and duty by term.
* Runner: calendar triggers and time zones; validation that rejects a request.
* Schema: CHECK constraints and indexes that are not unique; contents of the imported files.
* A Redis that loses its keys in the middle of a run; floating-point rounding of tokens.

## Plan

Done: `DetailPages`, `PublishedPages`; `TokenBucket`, `CoupangRefresh`; `ScoreJobs`;
`Keywords`; `Translation`; `Products`; `Market`; `Deployment`; the proofs named above, which
cover every safety property of the passing runs.

Next, most important first:

1. The pairing of options with pictures and the choice of pictures, as functions beside
   `DetailPages`.
2. A composition of `Keywords`, `ScoreJobs` and `Translation` over one `keywords` table, with
   the triggers of the registry.
3. The ranking API's filters against `OpportunityScoring`.
