# NeoTrade3 in TLA+

NeoTrade3 is a stock research and paper trading system for the Chinese A-share
market: a daily orchestrator that checks and publishes market data and runs the
"labs" gated on it, a governance chain over benchmark results, an HTTP API, and
a large body of numerical analysis. This directory holds TLA+ models of the
parts whose correctness depends on order, on concurrency and on failures, the
TLC configurations that check small instances of them, and TLAPS proofs for
every value of the constants.

    tlc -workers 2 -config MCRunLock.cfg MCRunLock      # one run; see the table
    tlapm RunLockProofs.tla                             # one proof module

`PROJECT.json` lists, in machine-readable form, the components, the runs, a
mutant for every checked property, the source lines behind every definition,
the findings, the hazards and the theorems.

## 1. The system

### How the parts interact

```
 launchd / shell                     browser
      |                                |
 apps/worker/main.py  <---calls---  apps/api/main.py (a thread per request)
      |  BootstrapWorkerApp.run        |         |          |
      |                                |         |          +-- _cache, _cache_lock,
 acquire_lock .. release_lock          |         |              inflight Events
      |                                |         |              [ApiCache]
 DailyMasterOrchestrator               |         +-- lab_run_view, second lab run
  build_run_plan, execute_run_plan     |             after orchestration_run_view
      |            [RunPlan, RunLock]  |                          [DailyRun]
      +-- capture -> compose -> publish -> gated lab   [DailyRun]
      +-- governance handoff -> bridge -> selection    [Governance(Daily)]
      +-- write_outputs
                 |
      |   scheduler/task_scheduler.py (launchd)  ---->  apps/api/main.py
      |     +-- daily price job: catch-up -> pipeline per day   [PricePipeline]
      |     +-- 09:35 execution job, close-out  <-> state.json  [LowfreqSim]
      |   lowfreq_engine_v16_advanced.run_backtest              [Backtest]
                 |
      var/ (JSON files)   var/db/*.db (SQLite, also written by the price feeds)
```

There is no server process that owns the state: command-line runs, on-demand
workers, API threads and feeds share files under `var/` and SQLite tables. A
file is written in place (truncated, then filled). The only mutual exclusion
between processes is the lock file `var/run/.lock`; within the API process
there is `_cache_lock`.

### Components

State kept, operations, what is hard, and what makes it correct.

| component (source) | state | operations | what is hard | correct means |
|---|---|---|---|---|
| Run lock (`orchestration/preflight.py`) | `var/run/.lock` | `acquire_lock`, `release_lock` | several system calls per operation; crashes; reused pids; a one-hour timeout on live runs | no two runs at once as far as the protocol can give it; a leftover file is reclaimed |
| Orchestrator (`orchestration/daily_master_orchestrator.py`, `apps/worker/main.py`) | plan, results, `completed_tasks`, run ledger | build plan, execute, publish flag, ledger | arbitrary dependency graphs, gates decided by the request or by the run, missing executors | no task on a dependency that did not end OK; the ledger tells the worst |
| Daily run (`data_control/pipeline.py`, `apps/worker/main.py`, `apps/api/main.py`) | `daily_prices`, calendar, stage artifacts, output files, lab results | capture, compose, publish, gated lab, write_outputs, second lab run, lab request | artifacts of earlier runs are trusted; failing queries and writes; feeds in between; a lock that is taken from a live run | what is published or traded has data behind it |
| Governance (`governance/*.py`) | artifacts and ledger entries of five kinds | handoff, candidate outcome, bridge, final selection, reject execution, status transition, the reject-transition chain | no lock at all; two files per record, each truncated first; reads at different times | no decision without the record it is about |
| API cache (`apps/api/main.py`) | `_cache`, two tables of Events | board, hot sectors, snapshot | threads meeting at one key, failing builders, expiry, a lock held for a whole run | every request answered; one build; no going back |
| Daily prices (`scheduler/task_scheduler.py`, `apps/api/main.py`, `apps/api/router.py`) | `daily_prices`, run ledgers, the job's locals | catch-up, attempts and fallbacks, backfill, sync, downstream steps, re-check | rows committed before they are judged; a table whose newest day decides what is missing; crashes; an operator at the same table | success means what it says; no hole without a trace; every day is tried |
| Simulation state (`apps/api/main.py`) | `state.json`: cash, positions, intents, memory | generate intents, manual buy, abandon, execute, close-out, rewriting views | read-modify-write of a whole file without a lock, written in place; two paths that settle an intent | the books balance; only overlap loses anything; intents are in time |
| Back-test and exit machine (`lowfreq_engine_v16_advanced.py`, `decision_engine/system_exit_*.py`) | positions with their exit watches, two signal queues, days of observation | sell, buy from both queues, scan, flatten | long sequences of days; windows, renewals and expiries by index | no signal is used early, late or twice; lasting weakness sells, noise does not |
| Paper trading (`labs/paper_trading/`) | SQLite trades, positions, portfolio | execute actions, exits, price updates | trade and position in separate transactions; API lab runs outside the run lock | not modelled, see section 6 |
| Cycle intelligence, benchmark, chaos, learning, screeners, analysis, scores, ML | tables and reports | numerical batch computations | numbers, not control | out of scope here |
| Feeds, routing, dashboard, launch agents, migration, scripts | - | I/O and formatting | - | out of scope here |

The hazards found in this code, each at its line and with the properties that
would catch it going wrong, are listed in `PROJECT.json`; those that no property
covers say why.

## 2. Modules

| module | models | proofs | runs |
|---|---|---|---|
| `RevocableLock` | what the lock promises (abstract) | | |
| `RunLock` | the lock file, call by call; implements `RevocableLock` | `RunLockProofs` | `run_lock`, `run_lock_mutex` |
| `DagRun` | what one run of the task graph promises (abstract) | | |
| `RunPlan` | plan, execution loop, ledger; implements `DagRun` | `RunPlanProofs` | `run_plan` |
| `DailyRun` | stages, gated lab, outputs, the API's lab runs; instantiates `RevocableLock` | `DailyRunProofs` | `daily_run` |
| `Governance` | records, operations and their files | `GovernanceProofs` | `governance` |
| `GovernanceDaily` | the daily chain on top of `Governance` | `GovernanceProofs` | `governance` |
| `ApiCache` | cache, lock, Events | `ApiCacheProofs` | `api_cache` |
| `PricePipeline` | the daily price job, its pipeline and the operator | `PricePipelineProofs` | `price_pipeline`, `price_hole` |
| `LowfreqSim` | the requests on `state.json` | `LowfreqSimProofs` | `lowfreq_sim`, `lowfreq_duplicate` |
| `TradeBook` | what a backtest promises about its trades (abstract) | | |
| `Backtest` | `run_backtest` and the exit machine it calls; implements `TradeBook` | `BacktestProofs` | `backtest`, `backtest_exit` |

`MC*.tla` give the constants of the runs. A definition headed "Faulty variant"
or "Mutant", or named after another with a suffix (`Expected_Exclusive`), is a plausible bug of the code next to the definition it distorts; it is used by
no specification. The mutants replace the original with it to show that each
property can fail.

### RunLock

`file` is what is at the path (creator, empty or complete, older than an hour),
`up` the living processes, `pc[r]` the place of run `r` in `acquire_lock`, its
body or `release_lock`, `seen[r]` what it has read and not judged yet. Each
system call is an action: `Create` (O_CREAT|O_EXCL), `Write`, `Read`, `Condemn`
or `Refuse` (the decision), `Unlink`, then `Create` once more; `Release`
unlinks. `CreateFails`, `WriteFails`, `UnlinkFails`, `ReleaseFails` are the
failing calls the code catches. `Exit(p)` is the ordinary end of a process whose
runs have all been refused or released, as the command line ends, `Crash(p)`
ends all runs of a process wherever they are, `Restart(p)` reuses its pid,
`Age(r)` is the passing of `_LOCK_TIMEOUT_SECONDS` since r's lock was written,
for the file as well as for what readers have in hand. Several runs may share a
process: API threads have one pid.

The lock does not give mutual exclusion (finding `run_lock_mutex`): a starter
that reads the file between another's `os.open` and `os.write` takes it for a
dead owner's. The properties state what it does give: a holder that was not
evicted owns the file (`HoldersOwnTheFile`), runs exclude each other while
nothing has disturbed the protocol (`UndisturbedExclusion`; `disturbed` is the
history of what does: a crash, the end of a process whose lock text a reader has
in hand, the timeout of a held lock or of such a text, a path that cannot be
unlinked, a reader that met an unfinished or vanished file; without any one of
them TLC finds two holders), it implements a lock that may be revoked from its
owner (`ImplementsRevocableLock`), and a file left behind is reclaimed
(`LeftoverIsReclaimed`).

### RunPlan

A task is its position in the configuration, which is the order of execution.
The configuration (dependencies, dynamic arguments, gated tasks, labs that are
off, phases without executor) is chosen in `Init`, so one specification covers
every graph `validate_orchestrator_config` accepts, cycles and forward
dependencies included. Each action is the body of the loop of
`execute_run_plan` in one of its branches; `BuildExecutionRunPlan` drops what
the request said of publish; `CloseRun` computes the effective publish flag and
the ledger. Refinement: the run is an evaluation of the dependency graph in
which every task is concluded once (`DagRun`). `Ancestors` is what a task
depends on at any remove, defined without recursion as what lies in every set
closed under `depends_on`; the code never computes it, and `RanOnOkAncestors`
says that it is respected all the same.

### DailyRun

`rows[d][c]` is a row of `daily_prices`, reduced to the unit of its volume
(absent, lots, shares, multiplied twice). `artifact[d][s]` is the artifact of a
stage ("torn" while it is written), `out[d][i]` the i-th file of
`write_outputs`, by the run that wrote it last. `run[r]` holds the locals of a
run: its request, place, stage, status so far. Capture is `RebuildCalendar`,
`CheckDay`, `Validate`, `Normalise`, `Revalidate` and the two writes; each query
may fail where the code catches the error, each write may fail (`WriteFails`) or
be cut off by `Crash`. `Revoke` is the reclaiming of the lock from a live run,
which `RunLock` implements; with it a second run interleaves with the first.
`Materialise` is the API's second run of the lab after `release_lock`,
`RequestLab` the view that runs a lab on the strength of the publish artifact,
`Feed` a price feed writing a row. The plan is the shipped configuration's
chain; `RunPlan` treats the general case.

### Governance

`artifact[k][i]` and `ledger[k][i]` are the two files of a record of kind `k`,
each absent, torn (truncated and not filled yet, or for ever if the writer died)
or whole. `job[a]` is the operation actor `a` is in. Reads that happen at
different times are different actions: the selection reads the handoff, lists
the ledger, then reads the chosen artifact; reject and transition read the
handoff, then candidate and proof. A write is four steps, truncate and fill, of
the artifact and then of the ledger entry. The chain of selection, reject and
transition goes on from one to the next in one job.

`GovernanceDaily` lets one actor run the three daily tasks round after round
while others interfere.

### ApiCache

`cache[k]` is the version of the data a payload shows, `inflight[k]` whose Event
is in the table of a view, `fired` the Events that are set. A critical section
under `_cache_lock` is one action, except `build_snapshot`, which builds inside
the lock (`lock`). `Register` and `Join` are the two ways through the first
section, `Engine` the call of `_lowfreq_engine_v16` that the hot sectors make
between registration and `try`, `Settle` the `finally` that pops *whatever*
Event is in the table. A hot-sectors request that has waited and found nothing
stores its payload and settles; a board request only returns it (`Keeps`).
`Expire` is the end of a time to live, `NewData` a change of what is shown.

### PricePipeline

A day of `daily_prices` is absent, thin (its amounts do not reach the coverage
gate) or full; the providers answer as they like. `run[c]` is the place of the
two callers of the price update, the scheduler's job and the operator's
request: the same `Update` actions serve both, with different consequences
(`AttemptFails`, `Succeed`). `Fire` starts the job and computes the missing days
(`Expected`: those after the newest day in the table, or the last day alone when
a read fails), `Begin` takes the next one, `Tushare` with its retry window,
`HistoricalFallback`, `LiveFallback` and `BlockedFallback` are the ways an
update ends, `Decide`, `Backfill` and `Derive` the rest of the pipeline of a
day, `WriteLedger` its trace, `Recheck` the exit code. `Crash` loses the job's
locals and keeps the table. `ApiUpdate`, `ApiBackfill` and `ApiSync` are the
operator's requests at any moment; the sync takes any day at any hour. History
variables: `bypassed` has the days a failing read or the operator has jumped
over, `synced` the days a sync has stored before they had closed.

### LowfreqSim

`file` is the last complete snapshot of `state.json`, `torn` whether what is on
disk parses. `req[p]` is a request with its own copy: it loads (`Loaded`, the
default state when the file does not parse), works, and writes the whole copy
back in two steps, the truncation and the rest. Another request that opens the
file meanwhile leaves a mixture; a death leaves it torn. The advance of the
daily pipeline and the job of 09:35 take several steps, the clock runs beside
them in half days. Each intent has its kind, stock, day of request, day of
execution and status; shares are lots, prices whole units, so that rounding to
lots and dividing the cash over the free slots are in the model. The job looks
up the next trading date once, when it starts; a "dateless job" has found none,
and an intent that has to wait keeps its date, as in a close-out that finds none.
`blame` is the history of what puts an intent behind its date: a torn file, a
missed job, an intent made late, one that waits without a date.

### Backtest

One action visits one stock: `Visit(c)` sells, buys or lets it pass, according
to the phase of the day, and the two queues are visited in the order of their
scores. `Turn` and `EndDay` end a pass and a day. The exit state machine of a
position is `watch[s]` (start and hits per scope) with the grace and the leader
bonus, translated from `evaluate_system_exit_transition` and its application; `seen`
and `owed` are history. Prices, cash and the pure filters (trade discipline,
execution gate, chase entry, deduplication) are a choice of whether an order
goes through; a missing bar and a limit are chosen when the order is made, not
once per day.

`TradeBook` forgets queues, passes, scores and exit signals: a stock is out,
waits on a signal of some day, or is held since some day. The mapping `Life`
reads that from `pos` and the two queues, `Rules` turns the settings into the
sets of stocks that may be held together and the longest life of a signal. A
move from the pending into the reserved queue, a postponed sale and every step
of the exit machine are stutters. The end of a day (`Quiet`, `Scan`) is the
evening, and the sale of everything after the last day the liquidation.

## 3. Runs

| run | instance | distinct states | shows |
|---|---|---|---|
| `run_lock` | 3 runs, 2 processes, 2 faults | 53 thousand | two invariants, the refinement and the liveness of RunLock |
| `run_lock_mutex` | 2 runs | | violation of `MutualExclusion` |
| `run_plan` | 3 tasks, all graphs, gates, labs off, no executor | 247 thousand | dependencies at any remove, gate, blocking, ledger, and the refinement of `DagRun` |
| `governance` | 2 benchmark runs, 1 validation, the daily actor and one other, 2 foreign operations, 2 crashes | 588 thousand | four invariants, and `DailySettles` |
| `daily_run` | 2 runs, 1 day, 2 codes of which one is eligible, three initial tables, 2 starts, 1 feed | 722 thousand | what is published and traded, the order of the outputs, the volume repair |
| `api_cache` | 4 requests in 4 mixtures of views, 1 failure, 2 versions | 158 thousand | three safety properties and liveness |
| `price_pipeline` | 3 days to come with a holiday, 2 attempts, 1 retry, 1 crash, failing ledger or operator's request | 891 thousand | exit code, holes, intraday bars, and that every day is tried |
| `price_hole` | the same days without holiday or faults | | violation: success with a hole in the prices |
| `lowfreq_sim` | 2 stocks, 1 slot, 3 days, 2 request threads, 4 requests | 707 thousand | books, losses, lateness of intents |
| `lowfreq_duplicate` | 4 days, 3 requests, no overlap | | violation: two pending sales of one stock |
| `backtest` | 2 stocks, 1 slot, 8 days, memory 0 and 2, bounded and not | 346 thousand | queues, round trips, exits, observation, and the refinement of `TradeBook` |
| `backtest_exit` | 7 days | | violation: an exit that could not be executed is forgotten |

Each run checks properties of several steps. The type invariant of a module is
a theorem for every value of the constants (section 5); a run repeats it where
types say something about the code, as in `lowfreq_sim` (no negative cash, no
more positions than slots).

**Bounds.** Three runs are the least in which one run reclaims a lock on an old
reading while a second has already replaced it and a third holds, and in which a
reader outlasts an owner that releases, ends, and is followed by another; two
runs per process cover the shared pid. Three tasks contain every shape a dependency
decision depends on (a task, its dependency, the dependency's dependency, in
every order). Two benchmark runs that breach on the same validation are the
least in which reads at different times can mix two runs, and two foreign
operations let one re-record what the other has read. Two daily runs are the
least for a lost lock; two codes, one of them eligible, are the least for a vote
on the unit that the published rows lose, and the three initial tables are rows
all in lots, none at all (all comes from the feed), and lots beside shares.
Three requests of one view are the least in which a late builder meets a new
leader. Three days to come are the least for a day that fails in the middle of a
catch-up, with a later one that succeeds. For `state.json`, one slot and two
stocks make purchases compete, and prices 2 and 3 with a capital of 4 leave
money over; `CONSTRAINT Bound` explores four requests one after the other or
three of which one overlaps, `Window` lets a request name yesterday. In
`backtest`, memory 2, reservation 2, two days of observation, a window of three
days with two hits and one extra for leaders fit a whole round trip and a second
one into eight days; its `CONSTRAINT Bound` follows both stocks up to day
`BothDays` and one of them afterwards.

Bounds sit in the guards (`MaxFaults`, `OpLimit`, `CrashLimit`, `StartLimit`,
`FeedLimit`, `MaxVersion`, `MaxEvents`, `MaxRetries`, `MaxIntents`,
`MaxRequests`, `MaxOverlaps`); the theorems of section 5 hold for all their
values. Deadlock is checked for `backtest`, whose days must go on to the end;
the other models stop rightly when runs, operations or requests are used up.

**Symmetry** is used only in runs without liveness properties.

**Fairness.**
- `RunLock!FairSpec`: weak fairness of the steps of a run (a process that is up
  executes), of restarting a process (launchd keeps the agents alive) and of
  `Age` (time passes). Exits, crashes and failing calls are not fair.
- `GovernanceDaily!DailySpec`: weak fairness of the daily actor's steps only
  (launchd starts the plan daily). The others may stop anywhere.
- `ApiCache!FairSpec`: weak fairness of each request's thread, which includes
  that builds end. Weak fairness is enough for the lock because the requests of
  a behaviour are finitely many. `EveryRequestIsAnswered` excepts hot sectors
  once an Event has been stranded (section 4).
- `PricePipeline!FairSpec`: weak fairness of the clock, of the launch agent's
  start of the job, and of the job's own steps. The last day stands for all
  days after it, so the job is started on it again and again. The operator,
  crashes and failures are not fair.

## 4. Findings

With a run that shows them:

1. `run_lock_mutex`: two live runs hold the run lock at once
   (`preflight.py:363`).
2. `price_hole`: the job that "must now cover every expected trading date"
   returns success with a day missing, because it only looks after the newest
   day in the table (`task_scheduler.py:240`).
3. `lowfreq_duplicate`: a pending sale for today does not keep a second one of
   the same stock from being made for tomorrow (`apps/api/main.py:19150`), which
   the acceptance criteria of the conflict design rule out (its line 173). The
   design disagrees with itself: its rule (lines 49 and 107) is the comparison
   the code has, an older intent that executes no earlier than the new one.
4. `backtest_exit`: the exit signal clears the confirmation it was derived from;
   when limit-down prevents the sale, it is not tried again the next day unless
   the weakness is confirmed anew (`lowfreq_engine_v16_advanced.py:3747`).

Behaviours the models have, on which the code differs from a document, and that
need no run to see:

- The exit design of finding 4 says in the same section, under "daily, as
  implemented", that a signal of the day buys on that day unless limit-up
  prevents it, and that a purchase that waits is tried on at most 3 trading days
  (`docs/archive/specs/2026-05-30-lowfreq-dashboard-and-execution-constraints-design.md:94`,
  `:87`). `run_backtest` buys before it scans, so a signal is used on a later day
  at the earliest, and lives for `BUY_SIGNAL_MEMORY_DAYS`, plus one reservation
  when the book was full (`lowfreq_engine_v16_advanced.py:4083`, `:3881`).
  `BoughtInTime` and, by refinement, `TradeBook` state what the code does; they
  do not show what that section says.
- The lock of a run that has ended properly can still cost a live run its lock:
  who read the lock file before the release judges the pid after the process has
  ended, and removes the file a third run has created by then
  (`preflight.py:373`). A release whose unlink fails is not reported to anyone
  and leaves the lock for the next hour if the process lives on.
- The sync from another database copies the rows of the requested day at any
  hour (`apps/api/main.py:5898`). When it has brought rows of today during the
  day, the job of the evening finds nothing due and returns success, and they
  stay.
- When the job of 09:35 finds no next trading date, an intent that has to wait
  keeps today's date although the ledger reports it as postponed
  (`apps/api/main.py:28154`); unless the next close-out finds a date, no job
  looks at it again.
- A selection goes on while a benchmark run has two candidate outcomes, when
  one ledger entry cannot be parsed at that moment
  (`governance/run_ledger.py:871`); the plan for the selection asks for an
  explicit error and "no silent fallback".
- A status transition checks that a reject was executed, not that the outcome
  is still "rejected" (`governance/runtime.py:692`).
- `--dry-run` is not passed on to `app.run`; the stages write under `var/`
  (`apps/worker/main.py:1494`, against the help text at `:1407`).
- An engine set-up that fails between the registration of an Event and the
  `try` strands all later cached hot-sectors requests for the date
  (`apps/api/main.py:20555`).
- For a past day the fallback counts any frame it stored as having passed the
  quality gate (`apps/api/main.py:6554`), although the runbook says it "must
  still pass" (`bootstrap_runbook.md:709`).
- The sync from the other database that the runbook promises after a failed
  update (`bootstrap_runbook.md:711`) is not reached when the update raises.

## 5. Proofs

Each proof module proves the type invariant and the safety properties of its
model for all constants that satisfy the named assumptions of the module. The
assumptions are about the constants' shapes only, and TLC evaluates them in the
runs; nothing else is assumed.

- **RunLockProofs.** `HoldersOwnTheFile` is inductive with types. Exclusion
  needs `Undisturbed` as well: while nothing has disturbed the protocol, what a
  reader has in hand is the complete text of a process that is up, so no reader
  condemns a live holder's file.
  `Refinement`: each step maps to a step or stutter of `RevocableLock`.
- **RunPlanProofs.** The invariant (`PassInv`, `PlanInv`, `OkInv`, `LedgerInv`)
  relates the loop's position to the results:
  tasks before `next` have results, tasks from `next` on have none, completed
  tasks have results, and what ran found its dependencies before it. The gate
  and ledger theorems and the refinement to `DagRun` follow. `AncestorsRanFirst`
  needs no induction over paths: the tasks before t that ended OK form a set
  closed under `depends_on`, and ancestors lie in every such set.
- **GovernanceProofs.** The invariant is `TypeOK /\ FilesOK /\ JobOK`: what is
  true of the whole files, and what a job in progress already knows (what it
  carries was recorded, the file it goes on from existed). Existence is stable,
  since nothing is ever deleted; that is why reads at different times suffice.
  A step of an operation is treated once (`Operation`), so the same lemmas serve
  `Spec`, where operations are counted, and `DailySpec`, where the daily plan
  starts them without bound (`DailyChainSafe`: what the run checks, for the
  specification it checks). `TaskOfTurn` ties the daily actor's job to the turn of
  the plan and gives `DailyDecidesNothing`: the plan writes the handoff and the
  final selection of its own run and candidate outcomes, and never a reject or a
  transition. `OperationsGoOn`: no operation stops halfway for want of a
  validation to go on with.
- **DailyRunProofs.** Types, what a run's place says about its disk
  (`RunOK`, `PlaceOK`), `PublishedHasData`, `TradesHaveData`, `Serial` (while
  the lock was never revoked one run is under way) and `OutputsDescend`. Rows
  never vanish, so a stage's finding stays true.
- **ApiCacheProofs.** `OwnersLead` (the Event in a table is its owner's, and
  the owner still comes to its `finally` or was stranded) and `EventsAreSafe`
  (who waits has an Event that is set or in the table) give `SomeoneWillWake`;
  `BoardLeads` (one leader at a time stores) gives `BoardGoesForward`;
  `CalmInv` gives `OneBuildWhileCalm`. With `SnapshotsLock` (whoever holds the
  lock is building) they give `NoDeadlock`: a request that is not answered can go
  on, or the holder of the lock can, or the owner of the Event it waits for.
  `RequestsMoveOn`: every step takes one request strictly forward. Together they
  are `EveryRequestIsAnswered` without its fairness. `CanGo` is the guard of
  `Serve` written out, because ENABLED is out of reach; on the run's instance TLC
  finds the two equal in every reachable state.
- **PricePipelineProofs.** `HoleIsOnRecord` is not inductive: when the job
  stores a day, all earlier days without prices become holes at once. `Behind`
  and `PassedOver` say in advance that each of them has its ledger. `Finished`
  does the same for `HonestExit` while no day has failed, `NoBarsAhead` for
  `NoIntradayBars`, and `Horizon` and `Phase` bound where the callers are.
- **LowfreqSimProofs.** What holds of every copy (`Sound`, `Unique`) is kept by
  each operation on a snapshot, so it survives whatever overlaps. What only
  holds of an undisturbed file (`Fine`, `Kept`, `OnTime`) is relative to the
  last day whose execution window is over and the last day of a purchase; a
  request that is alone (`Alone`) carries it from the load to the write.
  `BooksBalance` compares sums over intents and positions, which are folds over
  finite sets. What the proof needs of a sum (none, one more, one changed, all of
  them bounded) is proved as lemmas by well-founded induction on the strict
  subsets of a finite set: `WFMin` gives a least set that breaks the lemma, which
  is a statement about sets and asks for no operator parameter.
- **BacktestProofs.** `Waiting` and `Passes` (what is in a queue is older than
  the day, expires in time, and is younger than the last sale of its stock)
  make the five safety properties inductive; `NoMemoryNoTrade` (with
  `BUY_SIGNAL_MEMORY_DAYS = 0` the run never trades) is proved with them.
  `Watched` counts: the hits of a watch are the weak days since its start, and
  a watch that expires was followed by a restart, which gives `WeaknessExits`
  for every number of hits n (2n - 2 weak days in a row get through) and
  `ConfirmedByHits`. `Observing` relates the days of observation to the scans.
  `RunImplementsTradeBook` takes each action in turn: a visit that sells or buys
  is a sale or purchase of the book, which needs `OnePlace`, the bounded book and
  `Waiting`; what only moves between queues leaves `Life` alone.

Every invariant and every action property that a passing run checks is a
theorem, and so are the three refinements. Left to TLC is liveness alone
(`LeftoverIsReclaimed`, `DailySettles`, `EveryRequestIsAnswered`,
`EveryDayIsTried`), because the prover does not reason about fairness and
ENABLED. No module uses RECURSIVE.

## 6. Not modelled, and why

The map covers a small share of the repository: most of its lines are numerical
(screens, indicators, factors, phases, learning, reports and their scripts) or
conversion (routing, views, payload assembly, the dashboard). They keep no state
between calls and wait for nobody; a state machine of them would say nothing
that their formulas do not. What is modelled is what coordinates: locks,
schedules, files, queues and caches.

- **Paper trading.** As it stands, an open position ends the lab:
  `update_position_price` (`portfolio.py:196`) reads its row by column name on a
  connection without `row_factory` and raises, so no exit is ever taken.
  `DailyRun` models whether the lab may trade.
- **Prices.** The codes of a day are not told apart, so the flat bars that stand
  in for missing codes when the suspension query fails (`apps/api/main.py:631`)
  are part of the provider's choice. The calendar is constant. Tushare is
  assumed to have no bar of today before the close; nothing is assumed of the
  database a sync copies from.
- **Simulation state.** Attempt counts, alerts, ledgers and the autopilot flag.
  The execution job does not look at abandoned pairs, and the close-out is
  skipped by catch-up runs: both are in the model as they are in the code.
- **Back-test.** A scan that raises halfway, when days of observation and queues
  have been updated in part (`:4081`): a scan happens as a whole or not at all.
  Cash (in the unbounded mode it may go negative, `:887`), the
  audit trail, and the limit on days held in a sector, which never blocks
  because open trades count 0 days (`:2597`).
- **Governance.** Dry runs, which change nothing, and the contents of records.
  The benchmark's own task is no step of the daily plan: its artifact is replaced
  as a whole by `MaterializeBenchmark`, at any moment, so a benchmark artifact
  that is only half written is not in the model.
  A benchmark run whose breaching sample changes under the same run id keeps its
  old candidate records, and every later selection is refused: fail-closed as
  designed, and `DailySettles` is stated for one breaching sample.
- **Daily run.** The stage summary (loaded before the stages run, so it tells
  the previous run), the torn calendar (publish only asks whether it exists),
  the preflight report that finds its own lock, retry policies, which are parsed
  and never used, and the unit vote when the newest day has more rows than the
  sample (the model has the vote; no document promises a check of the day).
- **API cache.** `market_phase_view` uses the cache without the lock; each call
  is atomic under the interpreter lock, and a lost entry is an `Expire`.

## 7. What remains open

In the order of what it would add: the composition of `DailyRun` with `RunLock`
in place of `RevocableLock`; an abstract specification of the cache ("a payload
shows the data of some moment of its request's life or time to live") and its
refinement by `ApiCache`; an abstract ledger implemented by `LowfreqSim` when
requests do not overlap; paper trading, once an open position can be priced.
