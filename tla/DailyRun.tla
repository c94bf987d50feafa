------------------------------ MODULE DailyRun ------------------------------
(***************************************************************************)
(* Daily runs on the price database and on the files under var/: the data  *)
(* control stages capture, compose and publish                             *)
(* (neotrade3/data_control/pipeline.py), the lab gated by publish, and the *)
(* frame BootstrapWorkerApp.run and orchestration_run_view put around them *)
(* (apps/worker/main.py, apps/api/main.py).                                *)
(*                                                                         *)
(* Runs take the run lock, of which only the promise is used here          *)
(* (RevocableLock, implemented by RunLock).  The price feeds, the          *)
(* requests for one lab and, once the lock has been reclaimed from a run   *)
(* that lasts too long, other runs interleave between the steps of a run.  *)
(* The evaluation of the plan is abstracted to what the shipped            *)
(* configuration makes of it: compose depends on capture, publish on       *)
(* compose, the gated lab on publish (RunPlan has the general case).       *)
(***************************************************************************)
EXTENDS Naturals, FiniteSets

CONSTANTS
    Run,            \* runs that may be under way together
    LastDay,        \* days are 1 .. LastDay
    Code,           \* stock codes
    Eligible,       \* codes that pass the filters of compose
    TradingDays,    \* days listed by the trading_calendar tables
    SampleLimit,    \* sample_limit of the unit validation
    FileCount,      \* files write_outputs writes (five in the code)
    InitialRows,    \* the contents daily_prices may have at the start
    StartLimit,     \* bound on runs started
    FeedLimit       \* bound on rows written by the price feeds

Day == 1 .. LastDay
File == 1 .. FileCount

\* The unit of a row's volume; "over" is a volume of shares multiplied again.
Unit == {"lot", "share", "over"}
Price == [Day -> [Code -> Unit \union {"none"}]]

ASSUME DailyRunAssumption ==
    /\ LastDay \in Nat \ {0} /\ SampleLimit \in Nat \ {0}
    /\ FileCount \in Nat \ {0} /\ StartLimit \in Nat /\ FeedLimit \in Nat
    /\ Eligible \subseteq Code /\ TradingDays \subseteq Day
    /\ InitialRows \subseteq Price

\* Who asks: the command line without --dry-run, and in the same way the API's
\* build_snapshot; the command line with it; the API's run view without and with
\* dry_run.
Kind == {"cli", "cliDry", "api", "apiDry"}
Stage == {"capture", "compose", "publish"}
FileStatus == {"absent", "torn", "ok", "failed"}
PC == {"idle", "work", "dayCheck", "validate", "normalise", "revalidate",
       "close", "artifact", "report", "lab", "outputs", "release", "materialise"}

\* What a run keeps to itself: what it was asked, where it stands, its start
\* order; for the stage in progress, whether capture found a trading day without
\* rows and the status it will report; whether the gated lab ended OK, and how
\* many files of write_outputs are written.
Local == [kind : Kind, day : Day, pc : PC, gen : Nat,
          stage : Stage, short : BOOLEAN, status : {"none", "ok", "failed"},
          labOk : BOOLEAN, written : 0 .. FileCount]

Fresh == [kind |-> "cli", day |-> 1, pc |-> "idle", gen |-> 0,
          stage |-> "capture", short |-> FALSE,
          status |-> "none", labOk |-> FALSE, written |-> 0]

VARIABLES
    rows,       \* rows[d][c]: the daily_prices row, by its volume unit
    calendar,   \* trading_calendar.json: its days, {} when there is none
    artifact,   \* artifact[d][s]: status in the artifact of stage s
    out,        \* out[d][i]: start order of the run that last wrote file i
    owner,      \* the run lock
    running,    \* runs that were granted the lock and have not ended
    revoked,    \* history: the lock was taken from a live run
    run,        \* run[r]: the locals of r
    starts,     \* runs started so far
    traded,     \* days the gated lab has traded
    feeds       \* rows written by the feeds so far

disk == <<calendar, artifact, out>>
lock == <<owner, running, revoked>>
count == <<starts, feeds>>
vars == <<rows, disk, lock, run, traded, count>>

Lock == INSTANCE RevocableLock

\* Type invariant of the tables, the files and the runs.
TypeOK ==
    /\ rows \in Price /\ calendar \subseteq Day
    /\ artifact \in [Day -> [Stage -> FileStatus]]
    /\ out \in [Day -> [File -> Nat]]
    /\ owner \subseteq running /\ running \subseteq Run /\ revoked \in BOOLEAN
    /\ run \in [Run -> Local]
    /\ starts \in 0 .. StartLimit /\ feeds \in 0 .. FeedLimit
    /\ traded \subseteq Day

Init ==
    /\ rows \in InitialRows /\ calendar = {}
    /\ artifact = [d \in Day |-> [s \in Stage |-> "absent"]]
    /\ out = [d \in Day |-> [i \in File |-> 0]]
    /\ owner = {} /\ running = {} /\ revoked = FALSE
    /\ run = [r \in Run |-> Fresh]
    /\ starts = 0 /\ feeds = 0 /\ traded = {}

-----------------------------------------------------------------------------
(* Helpers *)

At(r, place) == run[r].pc = place
Go(r, place) == run' = [run EXCEPT ![r].pc = place]

\* The dry_run the executors see: main() does not pass --dry-run on.
Dry(r) == run[r].kind = "apiDry"
FromApi(r) == run[r].kind \in {"api", "apiDry"}

KnownTradingDay(d) == d \in TradingDays \union calendar
HasRows(d) == \E c \in Code : rows[d][c] # "none"
HasCandidates(d) == \E c \in Eligible : rows[d][c] # "none"
DaysWithRows == {d \in Day : HasRows(d)}
LatestDay == CHOOSE d \in DaysWithRows : \A e \in DaysWithRows : e <= d

-----------------------------------------------------------------------------
(* Around a run *)

\* main(), build_snapshot or orchestration_run_view calls BootstrapWorkerApp.run,
\* and the lock is granted.  The run view asks for a known trading day first.
Start(r) == \E k \in Kind, d \in Day :
    /\ At(r, "idle") /\ starts < StartLimit
    /\ k \in {"api", "apiDry"} => KnownTradingDay(d)
    /\ Lock!Grant(r)
    /\ starts' = starts + 1
    /\ run' = [run EXCEPT ![r] = [Fresh EXCEPT !.kind = k, !.day = d,
                                               !.pc = "work", !.gen = starts + 1]]
    /\ UNCHANGED <<rows, disk, revoked, traded, feeds>>

\* Faulty variant: the summary is written first.
OutputOrder_SummaryFirst(n) == IF n = 0 THEN FileCount ELSE n

\* write_outputs writes the files in this order, the summary last.
OutputOrder(n) == n + 1

\* The command line without --dry-run and build_snapshot ask for the outputs; the
\* run view does not.
WriteOutput(r) ==
    /\ At(r, "outputs") /\ run[r].kind = "cli" /\ run[r].written < FileCount
    /\ out' = [out EXCEPT ![run[r].day][OutputOrder(run[r].written)] = run[r].gen]
    /\ run' = [run EXCEPT ![r].written = @ + 1]
    /\ UNCHANGED <<rows, calendar, artifact, lock, traded, count>>

\* The snapshot is complete, or a write has raised: "finally" comes next.
EndOutputs(r) ==
    /\ At(r, "outputs")
    /\ Go(r, "release")
    /\ UNCHANGED <<rows, disk, lock, traded, count>>

\* release_lock unlinks the path, whose file it ever is.
Release(r) ==
    /\ At(r, "release")
    /\ Lock!End({r}) /\ owner' = {}
    /\ run' = [run EXCEPT ![r] = IF FromApi(r) THEN [@ EXCEPT !.pc = "materialise"]
                                               ELSE Fresh]
    /\ UNCHANGED <<rows, disk, revoked, traded, count>>

\* Faulty variant: the lab is run again without asking for the publication, and
\* for a lab that was blocked too.
Materialise_Ungated(r) ==
    /\ At(r, "materialise")
    /\ traded' = traded \union {run[r].day}
    /\ run' = [run EXCEPT ![r] = Fresh]
    /\ UNCHANGED <<rows, disk, lock, count>>

\* _materialize_lab_runs_from_snapshot: for a lab that ended OK in the run,
\* lab_run_view runs the lab again, outside the lock; it refuses unless
\* the publish artifact says ok.
Materialise(r) ==
    /\ At(r, "materialise")
    /\ LET again == run[r].labOk /\ artifact[run[r].day]["publish"] = "ok" IN
         traded' = IF again THEN traded \union {run[r].day} ELSE traded
    /\ run' = [run EXCEPT ![r] = Fresh]
    /\ UNCHANGED <<rows, disk, lock, count>>

\* lab_run_view called by a client.
RequestLab == \E d \in Day :
    /\ KnownTradingDay(d)
    /\ artifact[d]["publish"] = "ok"
    /\ traded' = traded \union {d}
    /\ UNCHANGED <<rows, disk, lock, run, count>>

\* The process of a run dies; an artifact it was writing is left torn.
Crash(r) ==
    /\ r \in running
    /\ Lock!End({r}) /\ owner' = owner \ {r}
    /\ \/ UNCHANGED artifact
       \/ /\ At(r, "artifact")
          /\ artifact' = [artifact EXCEPT ![run[r].day][run[r].stage] = "torn"]
    /\ run' = [run EXCEPT ![r] = Fresh]
    /\ UNCHANGED <<rows, calendar, out, revoked, traded, count>>

\* The lock is older than an hour and another acquire_lock removes it.
Revoke ==
    /\ Lock!Revoke
    /\ revoked' = TRUE
    /\ UNCHANGED <<rows, disk, run, traded, count>>

\* A feed writes a row: a missing one in the unit of its source, or any one in
\* shares.
Feed == \E d \in Day, c \in Code, u \in {"lot", "share"} :
    /\ feeds < FeedLimit
    /\ rows[d][c] = "none" \/ u = "share"
    /\ rows' = [rows EXCEPT ![d][c] = u]
    /\ feeds' = feeds + 1
    /\ UNCHANGED <<disk, lock, run, traded, starts>>

-----------------------------------------------------------------------------
(* The data control stages *)

Working(r, s) == At(r, "work") /\ run[r].stage = s

\* A step that only computes, and one after which the stage has its status and
\* only has to write it.
Think == UNCHANGED <<rows, disk, lock, traded, count>>
Settle(r, s) == run' = [run EXCEPT ![r].status = s, ![r].pc = "close", ![r].short = FALSE]

\* capture: _maybe_rebuild_trading_calendar, in dry runs as well.  A failing
\* query and an empty table leave the calendar alone.
RebuildCalendar(r) == \E writes \in {FALSE, DaysWithRows # {}} :
    /\ Working(r, "capture")
    /\ calendar' = IF writes THEN DaysWithRows ELSE calendar
    /\ Go(r, "dayCheck")
    /\ UNCHANGED <<rows, artifact, out, lock, traded, count>>

\* target_day_check; a failing query leaves no check.
CheckDay(r) == \E answered \in BOOLEAN :
    /\ At(r, "dayCheck")
    /\ run' = [run EXCEPT
                  ![r].pc = "validate",
                  ![r].short = answered /\ run[r].day \in TradingDays /\ ~HasRows(run[r].day)]
    /\ Think

\* What _validate_units_in_stock_db can say: it looks at SampleLimit rows, the
\* latest days first, and compares the medians of two errors, so that the
\* majority decides ("lot" at a tie; a volume multiplied twice is still nearer
\* to its close when read in shares).  "failed" covers the rest: no rows, a
\* failing query, a wrong unit of pct_change.
Filled == {x \in Day \X Code : rows[x[1]][x[2]] # "none"}
Samples ==
    {S \in SUBSET Filled :
        /\ Cardinality(S) = IF Cardinality(Filled) < SampleLimit
                            THEN Cardinality(Filled) ELSE SampleLimit
        /\ \A x \in S, y \in Filled : y[1] > x[1] => y \in S}
InShares(S) == {x \in S : rows[x[1]][x[2]] # "lot"}
Majority(S) == IF 2 * Cardinality(InShares(S)) > Cardinality(S) THEN "ok" ELSE "lot"
Verdicts == {"failed"} \union {Majority(S) : S \in Samples \ {{}}}

StatusOf(r, v) ==
    IF v = "ok" /\ ~(run[r].stage = "capture" /\ run[r].short) THEN "ok" ELSE "failed"

\* The validation of capture and of publish.  capture repairs lots unless dry.
Validate(r) == \E v \in Verdicts :
    /\ At(r, "validate")
    /\ IF v = "lot" /\ run[r].stage = "capture" /\ ~Dry(r)
       THEN Go(r, "normalise") ELSE Settle(r, StatusOf(r, v))
    /\ Think

\* Faulty variant: every row of the latest day is multiplied.
InShareUnit_Unguarded(u) ==
    CASE u = "none" -> "none" [] u = "lot" -> "share" [] OTHER -> "over"

\* The UPDATE multiplies a row that is nearer to its close when read in lots.
InShareUnit(u) == IF u = "lot" THEN "share" ELSE u

\* _normalize_daily_prices_volume_to_shares_if_needed on the latest day of the
\* table, one transaction; it gives up when the database stays locked.
Normalise(r) ==
    /\ At(r, "normalise")
    /\ rows' \in {rows, [rows EXCEPT ![LatestDay] =
                            [c \in Code |-> InShareUnit(rows[LatestDay][c])]]}
    /\ Go(r, "revalidate")
    /\ UNCHANGED <<disk, lock, traded, count>>

Revalidate(r) == \E v \in Verdicts :
    /\ At(r, "revalidate")
    /\ Settle(r, StatusOf(r, v))
    /\ Think

\* compose: ok if the query finds candidates of the day; a failing query finds
\* none.
Query(r) == \E answered \in BOOLEAN :
    /\ Working(r, "compose")
    /\ Settle(r, IF answered /\ HasCandidates(run[r].day) THEN "ok" ELSE "failed")
    /\ Think

\* publish: the calendar and the compose artifact must exist, whatever the
\* artifact says.
Prerequisites(r) ==
    /\ Working(r, "publish")
    /\ IF calendar # {} /\ artifact[run[r].day]["compose"] # "absent"
       THEN Go(r, "validate") ELSE Settle(r, "failed")
    /\ Think

\* The ledger, then the artifact, with the same payload; nothing that is
\* modelled reads the ledger again.
WriteLedger(r) ==
    /\ At(r, "close") /\ ~Dry(r)
    /\ Go(r, "artifact")
    /\ Think

WriteArtifact(r) ==
    /\ At(r, "artifact")
    /\ artifact' = [artifact EXCEPT ![run[r].day][run[r].stage] = run[r].status]
    /\ Go(r, "report")
    /\ UNCHANGED <<rows, calendar, out, lock, traded, count>>

SkipWrites(r) ==
    /\ At(r, "close") /\ Dry(r)
    /\ Go(r, "report")
    /\ Think

\* Writing the calendar, the ledger or the artifact is what r does next.
ToWrite(r) ==
    \/ Working(r, "capture") /\ DaysWithRows # {}
    \/ At(r, "close") /\ ~Dry(r)
    \/ At(r, "artifact")

\* Faulty variant: the executor swallows the exception and reports the status.
WriteFails_Swallowed(r) ==
    /\ ToWrite(r)
    /\ Go(r, "report")
    /\ Think

\* Opening the file raises; the executor reports FAILED.
WriteFails(r) ==
    /\ ToWrite(r)
    /\ run' = [run EXCEPT ![r].pc = "report", ![r].status = "failed"]
    /\ Think

-----------------------------------------------------------------------------
(* The plan goes on *)

Following(s) == IF s = "capture" THEN "compose" ELSE "publish"

\* Faulty variant: the next stage runs whatever this one reported.
NextStage_Anyhow(r) ==
    /\ At(r, "report") /\ run[r].stage # "publish"
    /\ run' = [run EXCEPT ![r].stage = Following(@), ![r].pc = "work", ![r].status = "none"]
    /\ Think

NextStage(r) ==
    /\ At(r, "report") /\ run[r].status = "ok" /\ run[r].stage # "publish"
    /\ run' = [run EXCEPT ![r].stage = Following(@), ![r].pc = "work", ![r].status = "none"]
    /\ Think

OpenGate(r) ==
    /\ At(r, "report") /\ run[r].status = "ok" /\ run[r].stage = "publish"
    /\ Go(r, "lab")
    /\ Think

\* The tasks behind a failed stage are blocked.
BlockRest(r) ==
    /\ At(r, "report") /\ run[r].status # "ok"
    /\ Go(r, "outputs")
    /\ Think

\* The gated lab's executor: run_job in dry runs as well, contract artifacts
\* only otherwise.  A job that fails has traded or not.
RunLab(r) == \E ok, did \in BOOLEAN :
    /\ At(r, "lab")
    /\ ok => did
    /\ traded' = IF did THEN traded \union {run[r].day} ELSE traded
    /\ run' = [run EXCEPT ![r].labOk = ok, ![r].pc = "outputs"]
    /\ UNCHANGED <<rows, disk, lock, count>>

-----------------------------------------------------------------------------

StageStep(r) ==
    \/ RebuildCalendar(r) \/ CheckDay(r) \/ Validate(r) \/ Normalise(r) \/ Revalidate(r)
    \/ Query(r) \/ Prerequisites(r)
    \/ WriteLedger(r) \/ WriteArtifact(r) \/ SkipWrites(r) \/ WriteFails(r)
    \/ NextStage(r) \/ OpenGate(r) \/ BlockRest(r) \/ RunLab(r)

FrameStep(r) ==
    \/ Start(r) \/ WriteOutput(r) \/ EndOutputs(r)
    \/ Release(r) \/ Materialise(r) \/ Crash(r)

Next ==
    \/ \E r \in Run : StageStep(r)
    \/ \E r \in Run : FrameStep(r)
    \/ RequestLab
    \/ Revoke
    \/ Feed

Spec == Init /\ [][Next]_vars

-----------------------------------------------------------------------------
(* Properties *)

\* publish asks only for the existence of the compose artifact, and capture
\* skips its own check when a query fails.  Still a publish artifact that says
\* ok stands for a day that has candidates and a compose artifact, whatever
\* crashes, failing writes, dry runs and reclaimed locks come between.
PublishedHasData ==
    \A d \in Day : artifact[d]["publish"] = "ok" =>
        HasCandidates(d) /\ artifact[d]["compose"] # "absent"

\* The gated lab trades only on days with candidates: in a run, in a dry run
\* that publishes nothing, when the API runs it again after the lock is gone,
\* and when a client asks for it on the strength of an artifact left behind.
TradesHaveData == \A d \in traded : HasCandidates(d)

\* While the lock has never been reclaimed, a run that is not dry and has opened
\* the publish gate finds on disk the three artifacts it was opened for: no
\* other run has replaced them, no failed write is taken for a written one.
LabReadsPublication ==
    ~revoked => \A r \in running :
        At(r, "lab") /\ ~Dry(r) => \A s \in Stage : artifact[run[r].day][s] = "ok"

\* The files of write_outputs are written in order, the summary that the next
\* run takes for "already processed" last: while runs exclude each other, no
\* file is older than one that comes after it, whatever run died in between.
OutputsDescend ==
    ~revoked => \A d \in Day : \A i, j \in File : i < j => out[d][i] >= out[d][j]

\* A volume that is in shares stays in shares: capture's repair, run again, by
\* two runs at once or on a day where only some rows are in lots, multiplies no
\* row twice.
SharesStay ==
    [][\A d \in Day, c \in Code : rows[d][c] = "share" => rows'[d][c] = "share"]_vars
=============================================================================
