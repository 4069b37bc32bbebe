# Verification of the UOIG portfolio manager

TLA+ models of the stateful parts of this repository, checked with TLC on small instances. Every
safety property that the runs confirm is also proved with TLAPS, for every instance.

## 1. The system

The program is a FastAPI server (`api/`) over one relational store (SQLite or Postgres,
`src/model/`), an ingest layer that reads Yahoo and WorkOS (`src/ingest/`, `src/auth/`), nightly
jobs in GitHub Actions (`scripts/`, `.github/workflows/`) and a React terminal (`web/`). Several
server processes may share one Postgres. Each request runs on a thread of its process, so what is
shared is the store (between processes) and module globals (between threads).

| Component | State it keeps | Operations | What is hard | What makes it correct |
|---|---|---|---|---|
| News assessments, `ingest/news_analysis.py` | table `news_analysis`; per process `_pool`, `_slots` | `enrich_news`, `_claim`, `_run`, `_finish` | claims of several processes, leases, late answers, crashes, storage faults, permits on error paths | one paid call at a time per article, at most three, the latest claim's result wins and is final, permits are conserved, everything settles |
| Weekly submissions, `api/submissions.py`, `model/submissions.py` | `news_flags`, `submissions`, `submission_items`, `inbox_messages` | create, update, delete a flag, submit, acknowledge, read | two requests on one draft, the week ending meanwhile, leads changing, failures half-way | a sent digest is complete, final, delivered, acknowledged once by somebody else |
| Market data refresh, `ingest/refresh.py` | `prices`, `holdings`, `benchmarks`, `dividends`, `import_meta` | one run per night in one transaction | splits against the overlapping window, missing closes, partial failure | a split is applied once to shares, once to old closes; `last_refresh` only after a full run |
| Split repair, `scripts/repair_split_inflation.py` | `holdings`, a marker in `import_meta` | one run | distinguishing a fault from a real split | never undoes a real split |
| Admin trades, `model/trades.py` | `holdings`, `securities`, `transactions` | preview, apply | read-compute-write without a lock, several changes of one position in a batch | each position moves by what the ledger says, none is left empty |
| API cache, `model/cache.py` and the in-memory caches of `ingest/` | `api_cache`, dictionaries | get, peek, set, purge | purge against refresh, two lifetimes in one namespace | nothing is given out as fresh beyond its lifetime, the last snapshot survives the purge |
| Agent runs and chat, `api/main.py` 1173-1465 | `_AGENT_JOBS`, `_ACTIVE_CHATS`, rate limits | start, finish, poll, evict | failure between taking a slot and starting the worker, eviction of live runs, one-shot delivery | at most two runs of the last thirty minutes work, a lost slot comes back after that time, the answer of a run that ended within it is kept |
| Database access, `model/db.py` | `_pool`, `_pool_lock` | get, put a connection | lazy creation, holding one connection and waiting for another | no connection is lost, nobody waits for ever |
| Organization directory, `auth/organization.py` | WorkOS metadata, coverage cache | list, read and set coverage, leadership, roles | read-modify-write of metadata, cache filled after invalidation | a replaced coverage is given out for a minute at most |
| Sessions, `auth/sessions.py` | sealed cookies | authenticate, refresh | refresh tokens used once | a session is not lost to a race |
| Onboarding, `model/onboarding.py` | `user_onboarding` | backfill, should_show | partial backfill | the tour is shown at most once, to nobody who was a member before, and to those who join |
| Coverage, feedback, live prices, analytics, screener, research, imports, web | see `PROJECT.json` | | mostly reads, single-row writes and arithmetic | |

Interactions: a stock's News tab calls `enrich_news`, whose answers are polled while pending; the
nightly refresh writes prices and holdings which trades, snapshots and analytics read; submissions
ask the organization directory who leads a sector; all of them use connections of `model/db.py`.

`PROJECT.json` lists each component with its status, and each hazard with its line and the
properties that cover it.

## 2. The modules

### NewsAnalysis

One row per assessment key in a table shared by all processes; per process a pool of `Workers`
threads with an unbounded queue and a semaphore `slots` with `Cap` permits; request threads inside
`enrich_news`.

| TLA+ | Code |
|---|---|
| `row[k]` | the row of `news_analysis`; `payload` is the token of the claim whose worker produced it |
| `slots[p]`, `queue[p]` | `_slots` and the queue inside `_pool` of process p |
| `job[t]` | the life of the claim that drew token t, from `_claim` to the end of `_run` |
| `viewer[v]` | where a request thread is in the loop of `enrich_news` for one article |
| `Look`, `TurnedAway`, `Acquire`, `ClaimWins`, `ClaimLoses`, `ClaimFails`, `ClaimUnacked`, `Submit`, `Reread`, `RereadFails` | `enrich_news`, one action per storage call or semaphore operation and per way it may end |
| `Start`, `Evaluate`, `Save`, `SaveFails`, `SaveUnacked`, `Fail`, `FailFails` | a worker in `_run`, `_evaluate`, `_finish`; the `finally` clause belongs to the last step |
| `Tick`, `Crash` | time passes for rows and jobs; a process loses its threads, queue and permits |

Time is kept as the time *left* of leases and retries, which saturates, so no run needs a bound on
the clock. Each SQL statement with its commit is one action, since a single upsert or update is
atomic in both databases; a commit that takes effect although the call raises is an action of its
own (`ClaimUnacked`, `SaveUnacked`). `uuid4` draws are an unused token; tokens are compared only for
equality, so which one does not matter. The clocks of processes agree: skew is not modelled.
`Workers` idle threads take the oldest job. A request handles its articles one after the other, so
it is one `Look` after another.

`NewsAssessment` is the abstract specification: a status, a result and a number of attempts per key;
a `ready` status is final. `NewsAnalysis` implements it (`AssessmentSpec`).

### Submissions

| TLA+ | Code |
|---|---|
| `sub[d]` | the row of `submissions` for a (user, sector, week) and its `submission_items` |
| `news[f]` | the row of `news_flags`; its link is an article or `Freeform` (no url) |
| `inbox`, `read` | `inbox_messages` and which have a `read_at` |
| `req[r]` | a request thread: waiting for the lock, holding it, or about to acknowledge |
| `week`, `leads` | the calendar and the directory, which change while requests run |

A writing request has three steps: the directory and calendar reads together with the insert of the
draft row (`Begin...`), the row lock with the reads under it (`Lock`, or `Decline` when the handler
answers without writing), and the writes with the commit (`Create`, `Update`, `Delete`, `Submit`).
`Fail` is any exception or death in between; the transaction is rolled back, and only the draft row,
committed first, stays. An acknowledgement has two: the reads, and the update that waits for the
lock. Postgres' row locks are modelled; SQLite's lock of the whole database allows fewer
interleavings.

Not modelled: comments (no other operation reads them), the views `mine`, `queue`, `inbox` (they
write nothing), titles, notes and tickers of items, the roles other than admin, analyst and lead.

`WeeklyDigest` is the abstract specification: a digest is open, sent with something in it, or
acknowledged by somebody other than its author, and its contents do not change once sent.

### NightlyRefresh

The job of `refresh.yml` on a calendar of sessions: first the repair script, then `refresh()`, in
one transaction, while admins buy and sell.

| TLA+ | Code |
|---|---|
| `split`, `gap`, `day`, `hour` | the world: on which days a ticker splits, which closes the provider lacks, the last closed session, and whether it is the evening after it, the night after midnight UTC or the next session |
| `holding[t]` | the position of `holdings`: entry date, and the scale of shares and entry price and of the benchmark's entry price; `since`, the session as of which the shares were counted when they were entered, is a history variable |
| `price[t][d]` | the scale of the close in `prices`; the workbook's snapshot prices, which the refresh ignores, are left out |
| `workbook`, `marker`, `stamp` | the workbook, the repaired positions and `last_refresh` in `import_meta` |
| `job` | the run: the boundary and window of each ticker as read at its start, and its uncommitted rows |
| `Repair`, `Begin`, `Fetch`, `FetchFails`, `Commit`, `Abort` | the script; the reads at the start of `refresh`; its loop body; its end; cancellation, timeout or an exception |
| `BuyDuringSession`, `BuyAfterClose`, `SellAll` | a committed trade of `model/trades.py` |

A number of shares or a price is represented by its *scale*: how many splits of its ticker it takes
into account. All splits are 2:1, so multiplying or dividing by a ratio adds one to the scale, and
"adjusted twice", "not adjusted" and "mixed" are different scales. The provider's closes are as
traded on their day (scale `Scale(t, d)`), which is what the code's comment at `refresh.py:83` says
of `auto_adjust=False`. An inflated position is one whose last split before the import was counted
again.

Left out: dividends and the table `benchmarks` (no step of the job reads them back), adding to and
trimming of positions, several funds (rows of different funds do not meet), intermediate rows of the
transaction (nobody reads them; that a sale waits for a row the run has changed is `Locked`). A
purchase has the entry date `Today` of `trades.py:71`, the UTC date: in the session that is the
session's own, in the evening the last session's, and after midnight UTC (`UtcMidnight`) already that
of the next one, though the shares are still counted as they were traded in the last (`BuyAfterClose`).
A weekend is part of the evening before: its dates lie between two sessions as the evening does.

### One server process: Requests, ConnectionPool and the modules on them

FastAPI runs each handler on a thread of its own. `Requests` has the threads, what each was asked to
do (`handler[t]`, a record with a kind) and how far it is (`at[t]`); every other module of the server
EXTENDS `ConnectionPool`, since all handlers meet in the pool. A step of a handler ends where another
thread can interfere: at a lock, a call to the database, to WorkOS or to a provider.

| Module | TLA+ | Code |
|---|---|---|
| `ConnectionPool` | `lock`, `pool`, `idle[p]` | `_pool_lock`, `_pool`, the idle connections of a `psycopg_pool` |
| | `acq[t]`, `held[t]` | where a thread is in `_get_pool` and `getconn`; its `_PooledConn` proxies |
| | `FindNoLock`, `MakeLock`, `PickLock`, `EnterLock`, `MakePool`, `LeaveLock` | `_get_pool`, with the unguarded creation of the lock |
| | `Want`, `Got`, `GaveUp`, `Put` | `connect_pg`, `getconn` and its `PoolTimeout`, `close` |
| `AgentRuns` | `chats`, `job[t]` | `_ACTIVE_CHATS`, the entry of `_AGENT_JOBS` |
| | `worker[t]`, `client[t]` | the thread in `_worker` and whether it ended before its job counted as stale (`"ended"`) or after (`"late"`); the browser in `runAgent` |
| | `Chat...`, `Run...`, `WorkerEnds`, `Poll`, `PollLost`, `PollStops` | `chat`, `agent_run`, `_worker`, `agent_run_status` and the page that calls it |
| `ApiCache` | `row[n]`, `copy[n]` | the row of `api_cache` and the copy in `_HOLDERS_CACHE`, `_QUOTE_CACHE` |
| | `owned`, `night`, `good` | whether a fund holds the ticker, the nightly job, when its snapshot was stored (history) |
| | `Look...`, `Get...`, `Fetched...`, `Peek...`, `Set...` | `institutional_holders`, `quote_overview` and the functions of `cache.py` |
| | `NightBegins`, `PurgeDeletes`, `Snapshot`, `NightEnds` | `purge_expired`, select and delete apart, and `refresh_owned_snapshots` |
| `Members` | `meta`, `entry` | the metadata of a user at WorkOS, the entry of `_coverage_cache` |
| | `Me...`, `Edit...`, `WorkOSFails` | `coverage_me` with `user_coverage`; `set_coverage`, `set_lead_sectors`; `OrganizationError` |
| `Onboarding` | `rows`, `member` | the keys of `user_onboarding`, the organization's members |
| | `Tour...`, `Join` | `start` with `ensure_backfilled` and `should_show`, one action per statement; an accepted invitation |
| `Trades` | `book[a]`, `ledger[a]`, `loaded[t]` | `holdings`, the sum of `transactions`, the rows read by `_load` |
| | `Replayed`, `Settled`, `Outcome` | the loop of `run`, with `move_cash` and `settle` |
| | `TradeLoad`, `TradeAnswer`, `TradeCommit` | the read, an answer without a write, `_commit` |

`Server` composes them: the threads may be asked for anything in `Workloads`, and around them run the
workers, the browsers, the nightly job, trades, new members and the clock. A workload without
requests of a component leaves that component's surroundings still, as nobody could tell; this
keeps the product of independent states small.

Abstractions. One ticker, one member's metadata and one fund, since rows of different keys meet only
in the pool. A cached value is its time of fetching and its lifetime. The version of a metadata field
is the request that wrote it. Amounts of money are whole multiples of the price of the index, so that
every route of `settle` moves whole units; the tolerances `EPS` and 0.005 then make no difference. A
watchlist looks up one external quote while it holds its connection; the code looks up as many as
four at a time, which asks for connections from helper threads in the same way. In `ConnectionPool`
a lock that existed before the workload is not modelled step by step, since nothing is created any
more: only `ColdStarts` create it. Exceptions of the database end a handler where the code lets
them; in `Onboarding` a commit may take effect and raise.

Two helpers of `Trades` make it fit for proofs: `Changes` is the set of changes that `run` does not
refuse at once (`_num` turns down amounts that are not positive), and `Changed(s, c)` is what one of
them does, on which `Replayed` folds as long as nothing was refused. A model with batches outside
`Seq(Changes)` is excluded by `BatchAssumption`.

### Proof modules

| Module | EXTENDS | Proves about |
|---|---|---|
| `NewsAnalysisProofs` | `NewsAnalysis` | rows, claims, permits, the queue and its times |
| `SubmissionsProofs` | `Submissions` | digests, inboxes, the implementation of `WeeklyDigest` |
| `NightlyRefreshProofs` | `NightlyRefresh` | dates, closes, shares |
| `ServerProofs` | `Server` | where requests are, who moves, connections |
| `OnboardingProofs`, `AgentRunsProofs`, `CachesProofs` | `ServerProofs` | the tour; chats and runs; cached data and coverage |
| `TradesProofs` | the three before | batches of trades, the types of the whole server |

### MC modules

`MCServer` names the requests of each workload and the batches of the admins.
`MCNightlyRefresh` names the tickers, their order and the days on which they may split.
`MCNewsAnalysis` and `MCSubmissions` give the function-valued constants (which process runs which
request, who covers what) and the symmetry sets. Keys and requests are symmetric in the runs that
declare it: no definition chooses among them. Tokens and items are not, since the next unused one is
chosen.

## 3. The runs

| Run | Question | Instance | Result |
|---|---|---|---|
| `news_claims` | Who may own a row when everything goes wrong? | 2 processes, 3 requests, 1 key, 3 attempts, all faults, a crash, workers of any slowness | holds, 1.2 million states |
| `news_recovery` | Does every article get settled? | 2 processes, 2 requests, fairness, lost claims, failed saves, a crash | holds, 7,400 states |
| `news_queue` | Does the lease cover the queue, and are permits conserved? | 1 process, 2 requests, 3 keys, 2 permits, 1 worker, no hang | holds, 670,000 states |
| `news_overrun` | Is the queue capped when the re-read fails? | as `news_queue`, with `reread` faults | **violated** |
| `news_abandoned` | Do abandoned claims recover? | 1 process, 1 request, a crash, fairness | **violated** |
| `submissions_flow` | Are digests complete, delivered and final? | 3 users (an analyst who is an admin, a lead, an admin), 2 items, 1 article, 2 weeks, 2 requests | holds, 540,000 states |
| `submissions_rollover` | Are past weeks read-only? | the same without admins | **violated** |
| `nightly_splits` | Is each split counted once, and `last_refresh` true? | an index and a stock, 3 sessions, up to 3 splits, missing closes of the stock, purchases at every hour | holds, 1.8 million states |
| `nightly_closes` | Do adjusted closes stay adjusted? | the same, one split after the import | **violated** |
| `nightly_repair` | Does the repair touch inflated positions only? | the same, nothing was inflated | **violated** |
| `server_requests` | Do requests that meet in one process keep what each component promises, and are all answered? | 3 requests, 2 connections, 12 warm workloads and a cold one, fairness | holds, 315,000 states |
| `trades_ledger` | Does the ledger explain the holdings? | one batch of one admin, 6 batches | **violated** |

Bounds. A claim overlaps another when its lease ends, so a lease of one tick and three attempts give
every order of expiry, take-over, late answer and crash; `MaxAttempts` is the code's three in the
runs that are about it. One key suffices in `news_claims` and `news_recovery`, because keys meet
only in the queue and the semaphore, which `news_queue` checks with three keys over two permits.
There the lease is exactly `(Cap / Workers) * Budget`, the least value the comment at
`news_analysis.py:28` allows. `Token` has one more element than there are possible claims where the
bound on attempts is checked. Two requests give every pairwise race on a digest, two items a
duplicate, two weeks one rollover. In the nightly runs the import, a split on the import day, a
session with or without a close, and a split after it give every order of runs, failures and
backfills around a boundary. Only the stock has closes that may be missing, to keep the instance
small; the theorems allow missing closes of the benchmark too. `Window` is shorter than the history,
so that a late run and a full run download different rows. `SplitGaps` is FALSE in all runs: the
provider has the close of every day of a split; without that `SplitsCountedOnce` fails, see the
hazard at `refresh.py:54`. A job is over
before the session closes, as the schedule and its timeout of thirty minutes have it. `MaxCrashes`,
`MaxWeek`, `LastDay` and the set `Flag` bound what would be unbounded. `CHECK_DEADLOCK` is left on
except in the two runs of `MCServer`, where a workload ends with all its requests answered and
nothing else to do; that no request is stuck before is `EveryRequestAnswered`.

In `server_requests` three requests on two connections let one wait while the others hold all there
are, each possibly asking for a second. Two chat turns of three are admitted, one agent run of three,
so that the limit, evictions and a failed run between them all happen: `StaleAfter` is 1 and `JobTtl`
2, in the order of the code's thirty minutes and an hour, and the clock runs to 3, past both.

Nothing bounds an agent run. `RUN_TIMEOUT_S` counts from `agent_run.py:72`, after three calls of the
SDK with timeouts and retries of their own, and is looked at when the stream yields an event (81-84),
which keep-alives do not. So a worker may run on while the clock passes both ages: its job is evicted,
its slot given to another run, its answer dropped when it comes (`WorkerEnds` of a job that is gone),
and two runs then work where one may. No bound on runs of every age is therefore claimed.
`WorkersBounded` is about the runs of the last thirty minutes, and `AnswersKept` about the answers of
runs that ended within thirty; what evicted runs do to those is the question.

For the caches a lookup ends within the tick after it began and stores what it fetched in the tick in
which it was fetched (`LookupsOnTime`): its lifetimes are minutes and days, its timeouts seconds. The clock
of the caches passes `SnapshotTtl`, and `LookupTtl < SnapshotTtl` tells the two lifetimes apart. A
ticker is bought or sold once (`MaxTrades`). The tours have one member from the start and one
newcomer with two requests, or the reverse. The batches buy with cash and from the index, trim twice,
rotate a position into the index, add and trim, and sell and rebuy; alone, against each other, and
beside other requests. `trades_ledger` applies the same ones alone, so its counterexample needs no
interleaving.

Fairness (`FairSpec`, only in the runs about progress). Threads of a running process are scheduled,
and time passes: weak fairness of their steps. `_evaluate` ends because the SDK has a timeout. A
step that a fault can replace is fair for the successful outcome, as faults are never the only
possibility for ever. `Look` is strongly fair for each article: the page polls while an assessment
is pending and users come back; without a reader the code, which has no scheduler of its own,
promises nothing. Faults and crashes are never forced.

`Server` is fair to each thread: the scheduler runs it, and every call it waits for has a timeout
(the pool's is `db.py:132`). The conjunct includes `GaveUp`, without which two watchlists can wait
for each other for ever. Workers, browsers, the nightly job and the clock are not forced.

Findings (also in `PROJECT.json`):

1. `news_overrun`: after a lost claim the permit is released at line 237; if `_read` at 238 then
   raises, line 240 releases another. README.md:327 promises a cap of forty.
2. `news_abandoned`: `_claim` does not touch a row with three attempts, so a crash in the third
   attempt leaves it pending for ever. README.md:329 promises recovery after ten minutes.
3. `submissions_rollover`: `create_flag` and `submit` compute the week before waiting for the lock
   and do not look again. SUBMISSIONS.md:10 promises that past weeks are read-only.
4. `nightly_closes`: the run after a split is applied writes the raw closes of its window over the
   adjusted ones, and the boundary keeps it from adjusting them again. `refresh.py:112` and the test
   at `tests/test_ingest_refresh.py:141-148` say that a second run leaves them adjusted; the test's
   provider returns no overlapping rows. Were the provider's closes already adjusted, the first run
   would be the wrong one.
5. `nightly_repair`: a 2:1 split after the import, rightly applied, has the signature of the
   inflation the script repairs (a whole multiple of the workbook's shares at the same cost), and
   the script runs every night: it sets the position back. `refresh.yml:59` promises a one-time
   correction of the old fault.
6. `trades_ledger`: a batch that sells a position out and buys it again deletes the row it has just
   paid for, as `closed` is never taken back (`trades.py:196`, 174, 234): the cash is spent, the
   ledger has the purchase, the shares are gone. DESIGN.md:128 has holdings follow from
   transactions. Two batches at once, which read the same rows, violate the property as well.

## 4. The proofs

All theorems are about `Spec`, without fairness, and hold for all values of the constants that
satisfy the named assumptions of the modules. The last column has what is assumed besides.

| Module | Theorem | States | Assumes |
|---|---|---|---|
| `NewsAnalysisProofs` | `TypeCorrect` | `TypeOK` | |
| | `OverlapSafe` | `OverlapOnlyAfterLease` | |
| | `ResultSafe` | `ResultFromOwner` | |
| | `AttemptsSafe` | `AttemptsCountClaims` | |
| | `LeaseSafe` | `LeaseProtectsClaim` | no save is committed and reported as failed |
| | `ReadyForever` | `ReadyIsFinal` | the same |
| | `Refinement` | `AssessmentSpec` | the same |
| | `PermitsConserved` | `SlotsConserved` | no re-read fails (`RereadsSucceed`) |
| | `QueueBounded` | `QueueWithinCap` | the same |
| | `CallsNeverOverlap` | `NoConcurrentCalls` | the same, no job outstays its budget, `LeaseCoversQueue` |
| `SubmissionsProofs` | `TypeCorrect` | `TypeOK` | |
| | `Complete`, `Delivered`, `Once`, `Acknowledged` | `DigestComplete`, `DeliveredIffSent`, `ArticleOnce`, `AckNotifiesAuthor` | |
| | `Refinement` | `WeeklySpec` | |
| `NightlyRefreshProofs` | `TypeCorrect` | `TypeOK` | |
| | `Fresh` | `AsOfIsFresh` | |
| | `NotOverAdjusted` | `ClosesNotOverAdjusted` | every split comes with a close (`~SplitGaps`) |
| | `CountedOnce`, `OnlyInflatedRepaired` | `SplitsCountedOnce`, `RepairOnlyInflated` | the same, `HistoryCovers`, `NoneMistaken` |
| `ServerProofs` | `Conserved` | `ConnectionsConserved` | |
| `OnboardingProofs` | `TourOnce`, `FoundersSpared`, `NewcomersWelcome` | `TourAtMostOnce`, `MembersNeverSeeTour`, `NewcomersSeeTour` | |
| `AgentRunsProofs` | `Counted`, `Bounded`, `Kept`, `Refusals` | `ChatsCounted`, `WorkersBounded`, `AnswersKept`, `RefusedForYoungJobs` | |
| `CachesProofs` | `Coverage`, `Fresh`, `Snapshots` | `CoverageWithinTtl`, `FreshWithinLifetime`, `LastKnownGood` | |
| `TradesProofs` | `Positions`, `LedgerMatches` | `PositionsPositive`, `CommitMatchesLedger` | |
| | `TypeCorrect` | `Server!TypeOK` | |

Every hypothesis is one that the passing runs meet and a violation run or the note of a hazard shows
to be needed.

* `RereadsSucceed`: `news_overrun` is what happens otherwise.
* `LeaseCoversQueue`: there is a number of rounds K with `Lease >= K * Budget` and
  `K * Workers >= Cap`, which is what the comment at `news_analysis.py:28` claims. The code has
  forty permits, four workers and a budget of twenty seconds: ten rounds take 200 of its 600
  seconds.
* `~SplitGaps`: the hazard at `refresh.py:54`.
* `HistoryCovers`: the days considered end within `history_years` of the import, five in the code.
  Later a position that was never downloaded since would get a history that begins after its splits.
* `NoneMistaken`: no stock that was not inflated splits after the import; `nightly_repair` is what
  happens otherwise.

Named assumptions. `ThreadsAssumption`: finitely many requests at a time, without which counting
them means nothing. `PoolAssumption`: a pool has a connection, and `Nobody` and `Startup` are two
names for no thread. `RunsAssumption`: the limits and ages of `api/main.py` are positive; nothing is
assumed of how long a run takes. `CacheAssumption`: a lookup lives no longer than a snapshot.
`TradesAssumption`: the fund holds cash, no stock is stored with zero shares, cash, index and stocks
are different things. `BatchAssumption`: see section 2. `KindsAssumption`: requests and claims,
which both hold permits, are told apart. The others give constants their types.

### The arguments

**News: rows.** `TypeOK` and the overlap property are not inductive alone. `Inv` (theorem
`Invariance`) adds: a job is queued exactly once, in its own process; a request that is about to
submit holds a job nobody else holds; the lease of a job in flight never exceeds that of its row, as
long as the row still has its token, so a claim, which needs an expired row, finds only expired jobs
(`LeaseStepOK`); a row's result carries the token of the row (`RowStepOK`). `AttemptsSafe` needs
that a token once drawn keeps its key, so that the jobs of a key are its claims; it holds for
infinite sets of tokens too. `LeaseSafe`, `ReadyForever` and `Refinement` rest on `OwnerPending`: a
job that still owns its row finds it pending. That fails when a save takes effect and raises,
because the worker then reports a failure over its own result (line 201), hence the assumption on
`Faults`.

**News: permits.** `PermitsOK`: the holders of permits of a process are its jobs in flight and its
requests that claim, they are finitely many, and with the free permits they make `Cap`. Each step
keeps the holders, takes or gives back one permit, hands one from a request to its job, or starts
the process anew. `QueueBounded` follows as a queue names as many jobs as it is long.

**News: time.** `Schedule` says where each waiting job is in the schedule of its process: it is the
r-th of the k-th round, its lease leaves time for k budgets, and the running jobs that will not be
over by then leave it a worker (`InRound`). A tick takes one from the lease and one from what is
left of each running job; a start moves everybody up by one place, and whoever was first of a round
becomes last of the one before. So every job starts, and ends, within its lease, and a lease keeps
its row: two jobs in flight for one key would both be the token of its row.

**Submissions.** `SInv`: what a request checked under the row lock stays true while it holds it
(`Holds`: the draft is editable, its items are those that were read, the link is new), because the
lock is exclusive and no operation that does without it (the end of a week, a change of leads, a
reader) touches any of it. The refinement maps the status, the
contents and the reviewer of each digest.

**Nightly refresh.** Three invariants on one base. `Base` says what is stored of each ticker lies
between the import and today, and `JobOK` that the run still has what it read, as trades do not
touch closes of others. `FreshInv` adds that whoever is due is to do, has failed, or has today's
close. `ClosesInv` adds that the closes as they will be after the commit are on no later scale than
their last date. `SplitsInv` adds that the splits a run will apply are exactly those between the
last stored close and the last that it will store (`NewOK`), and that an inflated position is
repaired before anything is fetched for it (`RepairedFirst`). `SplitsCountedOnce` says that the scale
of the shares, together with the splits missed (`Missed`: those between the session of a purchase and
its entry date), is the number of splits up to the last the table takes account of; no step after
the purchase changes what was missed (`MissedStays`). The lemmas about the last of a set of
dates come from the well-foundedness of the natural numbers.

**The server's frame.** In `ServerProofs`, `AlwaysHome` says each request is at a place of a handler
of its own kind, and the frame lemmas (`AgentFrame`, `TourFrame`, `CacheFrame`, `TradeFrame` and the
like) say which steps may touch a component's state. Each component's invariant is then proved
against its own steps, whatever the other requests do.

**Connections.** `PoolInv`: how many connections a request holds is a function of where it is
(`Count`), and for each pool idle and held ones add up to `MaxConns` if it was made and to none
otherwise (`TotalsOK`). That the lock is created without a guard does no harm to these counts, as
each of two pools keeps its own.

**Tour.** `TourInv`: every founder is in the table or among those that a request in the backfill has
still to mark; the list it marks is of a time before the backfill was complete, so nobody who joined
later is on it; whoever joined later has a row only by a request that showed the tour or failed.

**Agents.** `AgentInv`: `chats` is the number of requests at the places between the two counter
updates; at most `MaxRuns` jobs have the status `running`, which only a request that found fewer
after the eviction adds to; a run that is starting or works and is no older than `StaleAfter` has
such a job, since the eviction takes older ones only; and a run that ended in time left an answer
which stays until its browser has it or it is older than `JobTtl`. An evicted run that is still alive
has no job: it ends `late`, or never, and is in neither count.

**Caches.** `MemberInv` follows since when each version of the metadata was current: what a request
has read was current when it asked, and the stamp of the cache is that time. `CacheInv`: a row was
stored when its value was fetched, a copy counts from no later, what a request is about to store is
of now, and a purge under way does not have the last snapshot on its list until that expires.

**Trades.** A batch is replayed with `FoldLeft`, which the library defines by a recursive function on
sets of positions. `ReplayExists` shows, with the least counterexample, that such a function exists
for every length, and `BatchKeeps` that a property kept by every change is kept by every batch. The
property is `Replays`: rows stay natural numbers, an emptied row is a closed one, and what is entered
in the ledger is the difference of the shares. `TradeInv` adds that no request has read an empty row.
It needs no lock between two admins, so it holds for batches that overwrite each other; only
`LedgerMatches` asks that the rows are still those that were read.

### Only model-checked

`EventuallySettled` (`news_recovery`) and `EveryRequestAnswered` (`server_requests`) are liveness
properties under fairness, which is out of the prover's reach. The six violations are TLC's
counterexamples on the instances of their runs.

Writing the proofs changed the models in four places: `Replayed` and `Written` had CASE arms that
overlapped, which left their value open where both applied, though TLC took the first; they are
IF and disjoint arms now. `BatchAssumption`, `KindsAssumption` and parts of `PoolAssumption`,
`CacheAssumption` and `TradesAssumption` were what the configurations did anyway.

## 5. Plan

Every safety property of the passing runs is proved. Worth proving next is what is left of the
promises that the violations refute, under the condition that saves them:

1. `LedgerExplainsBook`, when no batch buys what it sold out of and admins apply one at a time.
2. How far the queue of `news_overrun` can grow: one permit too many for each re-read that failed.
3. That only requests which began before a week ended change it afterwards (`submissions_rollover`).
4. `ClosesStayAdjusted` for a stored close older than the window of every later run.

## 6. Not modelled

Components that `PROJECT.json` lists as not modelled, and why: sessions (the rule that matters,
whether a rotated refresh token may be used again, belongs to WorkOS and is not in the repository),
live prices (the app never starts the poller), feedback (single-row statements), analytics and
optimization (statistics over real numbers), the imports (parsing of files and pages) and the web
terminal (rendering).

Of the modelled components: the rate limits of chat and agent runs, lists of times checked and
appended to under one lock; the unpooled and SQLite modes of `db.py`; entry prices, new securities
and fractions of shares in `Trades`; comments and read-only views of submissions; roles, names and
invitations; the caches that repeat the pattern of `ApiCache`; dividends and benchmark levels.

Most Python files under `src/` are third-party packages in `.tmp/test-deps` (pandas, numpy, yfinance
and others, about a million lines); the program's own code is `api/`, `src/`, `scripts/` and `web/`,
and only it is modelled.
