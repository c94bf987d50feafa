---------------------------- MODULE PricePipeline ----------------------------
(***************************************************************************)
(* Daily prices: the scheduler job that catches up on missing trading days *)
(* (neotrade3/scheduler/task_scheduler.py), the daily pipeline it runs for *)
(* each of them and the price updates below that (apps/api/main.py), next  *)
(* to an operator who updates, backfills or syncs prices over the API.     *)
(*                                                                         *)
(* A day of table daily_prices is "none", "thin" (its amounts do not reach *)
(* the coverage gate) or "full".  Every update is one SQLite transaction   *)
(* and is one step here; the providers answer as they like.                *)
(***************************************************************************)
EXTENDS Naturals

CONSTANTS
    LastDay,     \* days are 1..LastDay; day 1 is seeded, the last one never ends
    Trading,     \* the days in trading_calendar_cache
    Attempts,    \* attempts of the update in one pipeline run (3 in the code)
    MaxRetries,  \* three-minute slots left before 16:00, at most
    MaxEvents    \* bound on crashes, failing ledger writes and operator requests

Day == 1..LastDay

ASSUME PricesAssumption ==
    /\ LastDay \in Nat \ {0, 1}
    /\ Trading \subseteq Day
    /\ Attempts \in Nat \ {0}
    /\ MaxRetries \in Nat
    /\ MaxEvents \in Nat

VARIABLES
    today, closed,  \* the date, and whether it is past 15:10
    rows,         \* table daily_prices, by day
    ledger,       \* status of var/ledgers/daily_runs/<day>.json
    run,          \* the two callers of the price update, "job" and "api"
    job,          \* the rest of the scheduler's locals
    verdict,      \* what the last run of the job returned
    fired,        \* the launch agent has started the job today
    events,       \* crashes, failing ledger writes and operator requests so far
    derived,      \* history: the days the downstream steps have been run on
    bypassed,     \* history: days skipped by a failed read or by the operator
    synced        \* history: days that a sync has stored before they had closed

vars == <<today, closed, rows, ledger, run, job, verdict, fired, events,
          derived, bypassed, synced>>

Caller == {"job", "api"}
Label == {"idle", "check", "primary", "retry", "fallback", "decide", "backfill",
          "derive", "report", "fail", "skip", "recheck"}
Progress == [pc : Label, day : Day, attempt : 1..Attempts, budget : 0..MaxRetries]
Quality == {"none", "thin", "full"}
Stored == {d \in Day : rows[d] # "none"}
Closed(d) == d # today \/ closed

Expected_Exclusive(cut) == {d \in Trading : d < cut /\ \A s \in Stored : s < d}

\* _list_expected_run_dates: the trading days after the newest stored day.
Expected(cut) == {d \in Trading : d <= cut /\ \A s \in Stored : s < d}
\* The same when the newest day is unknown: just the last trading day, if any.
LastExpected(cut) ==
    LET past == {d \in Trading : d <= cut} IN
    IF past = {} THEN {{}}
    ELSE {{d} : d \in {e \in past : \A f \in past : f <= e}}

Place(label, d, n, left) == [pc |-> label, day |-> d, attempt |-> n, budget |-> left]
Idle == Place("idle", 1, 1, 0)
Job(dates, todo, cut, bad) == [dates |-> dates, todo |-> todo, cutoff |-> cut, bad |-> bad]
NoJob == Job({}, {}, 1, FALSE)

Init ==
    /\ today = 2 /\ closed = FALSE
    /\ rows = [d \in Day |-> IF d = 1 THEN "full" ELSE "none"]
    /\ ledger = [d \in Day |-> "none"]
    /\ run = [c \in Caller |-> Idle]
    /\ job = NoJob
    /\ verdict = "none"
    /\ fired = FALSE
    /\ events = 0
    /\ derived = {}
    /\ bypassed = {}
    /\ synced = {}

-----------------------------------------------------------------------------
\* Storing a frame of quality q: rows are inserted or overwritten, never
\* deleted; a full frame may not cover all the codes of a thin one.
Store(d, q) ==
    \E stored \in IF rows[d] = "thin" /\ q = "full" THEN {"thin", "full"} ELSE {q} :
        rows' = [rows EXCEPT ![d] = stored]

\* What tushare may answer for a day: "empty" is no rows for the day, "error" a
\* missing token, a failing call or a frame that fails the format gate.  It has
\* no bar of a day to come, nor of today before the market has closed.
TushareAnswers(d) ==
    {"empty", "error"} \cup
        IF d \in Trading /\ d <= today /\ Closed(d) THEN {"thin", "full"} ELSE {}

Goto(c, label) == run' = [run EXCEPT ![c] = Place(label, @.day, 1, 0)]
\* The same within an attempt, with so many slots left.
GoOn(c, label, left) == run' = [run EXCEPT ![c] = Place(label, @.day, @.attempt, left)]
\* The next attempt.
Again(c) == run' = [run EXCEPT ![c] = Place("primary", @.day, @.attempt + 1, 0)]

\* The update of caller c has raised: the job tries again after five minutes,
\* the operator gets the error.
AttemptFails(c) ==
    IF c = "api" THEN run' = [run EXCEPT ![c] = Idle]
    ELSE IF run[c].attempt < Attempts
         THEN Again(c)
         ELSE Goto(c, "decide")

\* An update that succeeds has the day's own trade date: the pipeline goes on.
Succeed(c) == IF c = "api" THEN run' = [run EXCEPT ![c] = Idle] ELSE Goto(c, "derive")

\* The operator writes day d: older days without rows are his to fill.
Excuse(c, d) ==
    bypassed' = IF c = "api" THEN bypassed \cup {e \in Trading : e < d /\ rows[e] = "none"}
                ELSE bypassed

Elsewhere == UNCHANGED <<today, closed, ledger, job, verdict, fired, derived>>

\* update_daily_prices_tushare_view: the first call, and those of the retry
\* window that today gets until 16:00 while tushare has no rows yet (budget 0:
\* none is left).  Rows are committed before the coverage gate looks at them.
Tushare(c) ==
    LET d == run[c].day IN
    /\ run[c].pc \in {"primary", "retry"}
    /\ IF ~Closed(d)
       THEN GoOn(c, "fallback", 0) /\ UNCHANGED <<rows, bypassed>>
       ELSE \E answer \in TushareAnswers(d) :
            \/ /\ answer = "empty"
               /\ \E left \in IF run[c].pc = "retry" THEN {run[c].budget - 1}
                              ELSE IF d = today THEN 0..MaxRetries
                              ELSE {0} :
                    GoOn(c, IF left > 0 THEN "retry" ELSE "fallback", left)
               /\ UNCHANGED <<rows, bypassed>>
            \/ /\ answer = "error"
               /\ GoOn(c, "fallback", 0)
               /\ UNCHANGED <<rows, bypassed>>
            \/ /\ answer = "thin"
               /\ Store(d, answer) /\ Excuse(c, d)
               /\ GoOn(c, "fallback", 0)
            \/ /\ answer = "full"
               /\ Store(d, answer) /\ Excuse(c, d)
               /\ Succeed(c)
    /\ Elsewhere /\ UNCHANGED <<events, synced>>

\* update_daily_prices_tencent_view for a past day: tushare once more, and any
\* frame that is stored passes.
HistoricalFallback(c) ==
    LET d == run[c].day IN
    /\ run[c].pc = "fallback" /\ d # today
    /\ \E answer \in TushareAnswers(d) :
         IF answer \in {"thin", "full"}
         THEN Store(d, answer) /\ Excuse(c, d) /\ Succeed(c)
         ELSE AttemptFails(c) /\ UNCHANGED <<rows, bypassed>>
    /\ Elsewhere /\ UNCHANGED <<events, synced>>

LiveFallback_AnyHour(c) ==
    LET d == run[c].day IN
    /\ run[c].pc = "fallback" /\ d = today /\ d \in Trading
    /\ Store(d, "full") /\ Excuse(c, d) /\ Succeed(c)
    /\ Elsewhere /\ UNCHANGED <<events, synced>>

\* The same for today: live quotes, published when they cover all codes, carry
\* today's date and the market has closed.
LiveFallback(c) ==
    LET d == run[c].day IN
    /\ run[c].pc = "fallback" /\ d = today /\ d \in Trading /\ Closed(d)
    /\ Store(d, "full") /\ Excuse(c, d) /\ Succeed(c)
    /\ Elsewhere /\ UNCHANGED <<events, synced>>

\* Quotes that are not published: when they are of another day and today has no
\* rows, tushare is asked once more, but the update fails all the same.
BlockedFallback(c) ==
    LET d == run[c].day IN
    /\ run[c].pc = "fallback" /\ d = today
    /\ \/ UNCHANGED <<rows, bypassed>>
       \/ /\ rows[d] = "none"
          /\ \E answer \in TushareAnswers(d) \cap {"thin", "full"} :
               Store(d, answer) /\ Excuse(c, d)
    /\ AttemptFails(c)
    /\ Elsewhere /\ UNCHANGED <<events, synced>>

-----------------------------------------------------------------------------
Begin_NewestFirst(dates, cut) ==
    \E first \in dates :
        /\ \A d \in dates : d <= first
        /\ run' = [run EXCEPT !["job"] = Place("check", first, 1, 0)]
        /\ job' = Job(dates, dates \ {first}, cut, FALSE)

\* _run_update_daily_prices_authoritative: which days to run.  A failing read of
\* the newest day or of the calendar leaves only the last day.
Begin(dates, cut) ==
    \E first \in dates :
        /\ \A d \in dates : first <= d
        /\ run' = [run EXCEPT !["job"] = Place("check", first, 1, 0)]
        /\ job' = Job(dates, dates \ {first}, cut, FALSE)

Fire ==
    LET cut == IF closed THEN today ELSE today - 1 IN
    /\ run["job"].pc = "idle"
    /\ ~fired \/ today = LastDay
    /\ fired' = TRUE
    /\ \E dates \in {Expected(cut), {cut}} \cup LastExpected(cut) :
         /\ bypassed' = bypassed \cup (Expected(cut) \ dates)
         /\ IF dates = {} THEN verdict' = "ok" /\ UNCHANGED run
                               /\ job' = Job({}, {}, cut, FALSE)
                          ELSE verdict' = "none" /\ Begin(dates, cut)
    /\ UNCHANGED <<today, closed, rows, ledger, events, derived, synced>>

\* Without the tushare package the job refuses.
Refuse ==
    /\ run["job"].pc = "idle"
    /\ ~fired \/ today = LastDay
    /\ fired' = TRUE /\ verdict' = "failed" /\ job' = NoJob
    /\ UNCHANGED <<today, closed, rows, ledger, run, events, derived, bypassed, synced>>

\* The next day of the run, or its end.
Onward ==
    IF job.todo = {} THEN Goto("job", "recheck") /\ UNCHANGED job
    ELSE \E next \in job.todo :
            /\ \A d \in job.todo : next <= d
            /\ run' = [run EXCEPT !["job"] = Place("check", next, 1, 0)]
            /\ job' = [job EXCEPT !.todo = @ \ {next}]

\* trading_day_check and yesterday_closeout.
Check ==
    LET d == run["job"].day IN
    /\ run["job"].pc = "check"
    /\ \/ /\ Goto("job", "fail")                      \* the check raises
          /\ job' = [job EXCEPT !.bad = TRUE]
       \/ /\ d \notin Trading
          /\ Goto("job", "skip")
          /\ UNCHANGED job
       \/ /\ d \in Trading
          /\ Goto("job", "primary")
          /\ \E closeout \in IF d = today THEN BOOLEAN ELSE {TRUE} :
               job' = [job EXCEPT !.bad = @ \/ ~closeout]
    /\ UNCHANGED <<today, closed, rows, ledger, verdict, fired, events, derived, bypassed, synced>>

\* All attempts have failed: backfill a day without rows, or give the day up.
Decide ==
    LET d == run["job"].day IN
    /\ run["job"].pc = "decide"
    /\ Goto("job", IF rows[d] = "none" /\ Closed(d) THEN "backfill" ELSE "fail")
    /\ job' = [job EXCEPT !.bad = TRUE]
    /\ UNCHANGED <<today, closed, rows, ledger, verdict, fired, events, derived, bypassed, synced>>

\* backfill_daily_prices_tushare_range_view for the one day: a thin frame stays
\* in the table but fails the day.
Backfill ==
    LET d == run["job"].day IN
    /\ run["job"].pc = "backfill"
    /\ \E answer \in TushareAnswers(d) :
         IF answer \in {"thin", "full"}
         THEN Store(d, answer) /\ Goto("job", IF answer = "full" THEN "derive" ELSE "fail")
         ELSE UNCHANGED rows /\ Goto("job", "fail")
    /\ Elsewhere /\ UNCHANGED <<events, bypassed, synced>>

\* The nine downstream steps, from team themes to the focus board; each one may
\* fail and the others still run.
Derive ==
    LET d == run["job"].day IN
    /\ run["job"].pc = "derive"
    /\ derived' = derived \cup {d}
    /\ \E good \in BOOLEAN : job' = [job EXCEPT !.bad = @ \/ ~good]
    /\ Goto("job", "report")
    /\ UNCHANGED <<today, closed, rows, ledger, verdict, fired, events, bypassed, synced>>

\* _write_daily_run_ledger, at each of the pipeline's four ends.
WriteLedger ==
    LET d == run["job"].day IN
    /\ run["job"].pc \in {"skip", "fail", "report"}
    /\ ledger' = [ledger EXCEPT ![d] = CASE run["job"].pc = "fail" -> "failed"
                                         [] run["job"].pc = "skip" -> "skipped"
                                         [] OTHER -> "ok"]
    /\ Onward
    /\ UNCHANGED <<today, closed, rows, verdict, fired, events, derived, bypassed, synced>>

\* The write raises: the job gives up with the days still to do.
LedgerFails ==
    /\ run["job"].pc \in {"skip", "fail", "report"}
    /\ events < MaxEvents /\ events' = events + 1
    /\ run' = [run EXCEPT !["job"] = Idle] /\ job' = NoJob
    /\ verdict' = "failed"
    /\ UNCHANGED <<today, closed, rows, ledger, fired, derived, bypassed, synced>>

Recheck_OnlyFreshness ==
    /\ run["job"].pc = "recheck"
    /\ run' = [run EXCEPT !["job"] = Idle]
    /\ verdict' = IF Expected(job.cutoff) # {} THEN "failed" ELSE "ok"
    /\ job' = IF verdict' = "ok" THEN job ELSE NoJob
    /\ UNCHANGED <<today, closed, rows, ledger, fired, events, derived, bypassed, synced>>

\* The freshness re-check and the exit code.
Recheck ==
    /\ run["job"].pc = "recheck"
    /\ run' = [run EXCEPT !["job"] = Idle]
    /\ IF job.bad \/ Expected(job.cutoff) # {}
       THEN verdict' = "failed"
       ELSE verdict' \in {"ok", "failed"}              \* "failed": it cannot run
    /\ job' = IF verdict' = "ok" THEN job ELSE NoJob
    /\ UNCHANGED <<today, closed, rows, ledger, fired, events, derived, bypassed, synced>>

Crash ==
    /\ run["job"].pc # "idle"
    /\ events < MaxEvents /\ events' = events + 1
    /\ run' = [run EXCEPT !["job"] = Idle] /\ job' = NoJob
    /\ UNCHANGED <<today, closed, rows, ledger, verdict, fired, derived, bypassed, synced>>

-----------------------------------------------------------------------------
\* POST /api/data/update, for any date.  Its sync from the old database comes
\* after an update that has raised whenever the day is missing, and never runs.
ApiUpdate(d) ==
    /\ run["api"].pc = "idle" /\ events < MaxEvents
    /\ run' = [run EXCEPT !["api"] = Place("primary", d, 1, 0)]
    /\ events' = events + 1
    /\ Elsewhere /\ UNCHANGED <<rows, bypassed, synced>>

\* POST /api/data-control/backfill/daily-prices/tushare, for one calendar day.
ApiBackfill(d) ==
    /\ run["api"].pc = "idle" /\ events < MaxEvents /\ d \in Trading
    /\ \E answer \in TushareAnswers(d) \cap {"thin", "full"} : Store(d, answer)
    /\ Excuse("api", d)
    /\ events' = events + 1
    /\ Elsewhere /\ UNCHANGED <<run, synced>>

\* sync_daily_prices_view: the rows of another database that are missing here, of
\* one day or of the days after the newest.  Nothing is asked of the day: it may
\* be today while the market is open, or a day to come.
ApiSync(days, q) ==
    /\ run["api"].pc = "idle" /\ events < MaxEvents
    /\ \A d \in days : rows[d] # "full"
    /\ \/ \E d \in days : days = {d}
       \/ \A d \in days, s \in Stored : s < d
    /\ rows' = [d \in Day |-> IF d \in days THEN q ELSE rows[d]]
    /\ bypassed' = bypassed \cup {e \in Trading : rows[e] = "none" /\ \E d \in days : e < d}
    /\ synced' = synced \cup {d \in days : d > today \/ ~Closed(d)}
    /\ events' = events + 1
    /\ Elsewhere /\ UNCHANGED run

Clock ==
    /\ \/ ~closed /\ closed' = TRUE /\ UNCHANGED <<today, fired>>
       \/ closed /\ today < LastDay /\ today' = today + 1 /\ closed' = FALSE /\ fired' = FALSE
    /\ UNCHANGED <<rows, ledger, run, job, verdict, events, derived, bypassed, synced>>

Update(c) == Tushare(c) \/ HistoricalFallback(c) \/ LiveFallback(c) \/ BlockedFallback(c)
Pipeline == Check \/ Decide \/ Backfill \/ Derive \/ WriteLedger \/ LedgerFails \/ Recheck
Operator == \/ \E d \in Day : ApiUpdate(d) \/ ApiBackfill(d)
            \/ \E days \in SUBSET Trading \ {{}}, q \in {"thin", "full"} : ApiSync(days, q)

Next ==
    \/ Fire \/ Refuse
    \/ Pipeline
    \/ \E c \in Caller : Update(c)
    \/ Operator \/ Crash \/ Clock

Spec == Init /\ [][Next]_vars

\* The clock runs, a job that has started goes on, and on the last day, which
\* stands for all days after it, the launch agent starts the job again.
FairSpec ==
    /\ Spec
    /\ WF_vars(Clock)
    /\ WF_vars(Fire)
    /\ WF_vars(Pipeline \/ Update("job"))

-----------------------------------------------------------------------------
\* Type invariant of the table, the callers and the job.
TypeOK ==
    /\ today \in Day /\ closed \in BOOLEAN
    /\ rows \in [Day -> Quality]
    /\ ledger \in [Day -> {"none", "ok", "failed", "skipped"}]
    /\ run \in [Caller -> Progress]
    /\ job \in [dates : SUBSET Day, todo : SUBSET Day, cutoff : Day, bad : BOOLEAN]
    /\ verdict \in {"none", "ok", "failed"}
    /\ fired \in BOOLEAN
    /\ events \in 0..MaxEvents
    /\ derived \subseteq Day
    /\ bypassed \subseteq Day
    /\ synced \subseteq Day

\* The exit code is honest (_run_update_daily_prices_authoritative): when the job
\* returns success, each trading day it set out to run has prices and has been
\* through the downstream steps, and no later trading day is due.
HonestExit ==
    verdict = "ok" => /\ \A d \in job.dates \cap Trading : rows[d] # "none" /\ d \in derived
                      /\ Expected(job.cutoff) = {}

\* A trading day without prices, older than the newest prices, is one whose
\* ledger says that its pipeline failed: no run, retry, crash or restart of the
\* job makes such a hole by itself and leaves no trace of it.  Days that a failing
\* read or the operator skipped are excepted.
HoleIsOnRecord ==
    \A d \in Trading :
        rows[d] = "none" /\ (\E e \in Stored : d < e) => ledger[d] = "failed" \/ d \in bypassed

\* Prices of a day that has not closed - today before 15:10, or a day to come -
\* are stored by the sync from another database only, which does not look at the
\* clock.  No update, retry, fallback or backfill stores them, for whichever day
\* and at whatever hour the job or the operator starts it and however long it
\* takes.
NoIntradayBars ==
    \A d \in Stored : d > today \/ ~Closed(d) => d \in synced

\* Every trading day is fetched, or at least tried and its ledger written, some
\* time after its market has closed, whatever fails or crashes.
EveryDayIsTried ==
    \A d \in Trading \ {1} :
        (today > d \/ (today = d /\ closed))
            ~> (rows[d] # "none" \/ ledger[d] # "none" \/ d \in bypassed)

\* What the comment of the re-check says: after a successful run "the DB must now
\* cover every expected trading date up to the cutoff" (when no read failed and
\* nobody else wrote).  The re-check only looks after the newest day.
FreshMeansCovered ==
    verdict = "ok" /\ job.dates # {} /\ bypassed = {} =>
        \A d \in Trading : d <= job.cutoff => rows[d] # "none"
=============================================================================
