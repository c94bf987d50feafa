------------------------- MODULE PricePipelineProofs -------------------------
(***************************************************************************)
(* Proofs about PricePipeline: its type invariant, that the job's exit     *)
(* code is honest, that no hole is left without a trace and that only a    *)
(* sync stores prices of a day that has not closed, for any calendar, any  *)
(* number of days, attempts, retries, crashes and operator requests.       *)
(***************************************************************************)
EXTENDS PricePipeline, TLAPS

USE PricesAssumption DEF PricesAssumption

Recorded(d) == ledger[d] = "failed" \/ d \in bypassed

\* The job works on no day that has not come, and goes forward.
Horizon ==
    /\ today >= 2
    /\ run["job"].day <= today
    /\ \A c \in Caller : run[c].pc = "retry" => run[c].budget >= 1
    /\ job.cutoff <= today
    /\ \A d \in job.todo : run["job"].day < d /\ d <= job.cutoff

\* There are no prices of the days to come, nor of today while it trades, but
\* what a sync has brought.
NoBarsAhead ==
    \A d \in Day : d > today \/ (d = today /\ ~closed) => rows[d] = "none" \/ d \in synced

\* What the job's place says of its day.
Phase ==
    LET r == run["job"] IN
    /\ r.pc \in {"derive", "report"} => rows[r.day] # "none"
    /\ r.pc = "report" => r.day \in derived
    /\ r.pc = "skip" => r.day \notin Trading
    /\ r.pc \in {"fail", "backfill"} => job.bad
    /\ r.pc = "recheck" => job.todo = {}

\* While the job runs, every trading day without prices that it has behind it, or
\* that it has passed over, is on record: this is what makes HoleIsOnRecord
\* inductive, for the next day it stores turns them into holes.
Behind ==
    run["job"].pc # "idle" =>
        \A d \in Trading : d < run["job"].day /\ rows[d] = "none" => Recorded(d)

PassedOver ==
    run["job"].pc # "idle" =>
        \A d \in Trading :
            run["job"].day < d /\ d <= job.cutoff /\ d \notin job.todo /\ rows[d] = "none"
                => Recorded(d)

\* While nothing has failed, the days the job has finished have prices and have
\* been through the downstream steps.
Finished ==
    run["job"].pc # "idle" /\ ~job.bad =>
        \A d \in job.dates \cap Trading :
            d \notin job.todo /\ (d # run["job"].day \/ run["job"].pc = "recheck")
                => rows[d] # "none" /\ d \in derived

Verdict == verdict = "ok" => run["job"].pc = "idle"

IInv == /\ TypeOK /\ Horizon /\ NoBarsAhead /\ Phase /\ Behind /\ PassedOver
        /\ Finished /\ Verdict /\ HonestExit /\ HoleIsOnRecord

-----------------------------------------------------------------------------
\* Day d has got prices, the others have kept theirs.
Wrote(d) ==
    /\ rows' \in [Day -> Quality]
    /\ rows'[d] # "none"
    /\ \A e \in Day : e # d => rows'[e] = rows[e]

\* Storing a frame writes its day and no other.
LEMMA StoreWrites ==
    ASSUME TypeOK, NEW d \in Day, NEW q \in {"thin", "full"}, Store(d, q)
    PROVE  Wrote(d)
  BY DEF TypeOK, Store, Wrote, Quality

\* What one step of the price update of caller c does: it leaves c at place r.
Moves(c, r) ==
    /\ run[c].pc \in {"primary", "retry", "fallback"}
    /\ run' = [run EXCEPT ![c] = r]
    /\ r \in Progress
    /\ r.pc \in {"idle", "primary", "retry", "fallback", "decide", "derive"}
    /\ r.pc = "retry" => r.budget >= 1
    /\ c = "job" => r.pc # "idle" /\ r.day = run[c].day
    /\ \/ UNCHANGED <<rows, bypassed>> /\ r.pc # "derive"
       \/ /\ Wrote(run[c].day) /\ run[c].day <= today /\ Closed(run[c].day)
          /\ Excuse(c, run[c].day)
    /\ Elsewhere /\ UNCHANGED <<events, synced>>

\* The fields of a place.
LEMMA PlaceType ==
    ASSUME NEW label \in Label, NEW d \in Day, NEW n \in 1..Attempts, NEW left \in 0..MaxRetries
    PROVE  /\ Place(label, d, n, left) \in Progress
           /\ Place(label, d, n, left).pc = label
           /\ Place(label, d, n, left).day = d
           /\ Place(label, d, n, left).budget = left
  BY DEF Place, Progress

\* The idle place.
LEMMA IdleType == Idle \in Progress /\ Idle.day = 1 /\ Idle.pc = "idle"
  BY DEF Idle, Place, Progress, Label, Day

JobType == [dates : SUBSET Day, todo : SUBSET Day, cutoff : Day, bad : BOOLEAN]

\* The job that does not run.
LEMMA NoJobType ==
    NoJob \in JobType /\ NoJob.dates = {} /\ NoJob.todo = {} /\ NoJob.cutoff = 1
  BY DEF NoJob, Job, JobType, Day

\* The ranges of a caller's fields.
LEMMA Ranges ==
    ASSUME TypeOK, Horizon, NEW c \in Caller
    PROVE  /\ run[c] \in Progress
           /\ run[c].day \in Day /\ (c = "job" => run[c].day <= today)
           /\ run[c].attempt \in 1..Attempts
           /\ run[c].budget \in 0..MaxRetries
           /\ run[c].pc = "retry" => run[c].budget - 1 \in 0..MaxRetries
           /\ 1 \in 1..Attempts /\ 0 \in 0..MaxRetries
  BY DEF TypeOK, Horizon, Progress

\* Going to a label keeps the day.
LEMMA GotoMoves ==
    ASSUME TypeOK, Horizon, NEW c \in Caller, NEW label \in Label, Goto(c, label)
    PROVE  \E r \in Progress : /\ run' = [run EXCEPT ![c] = r]
                               /\ r.pc = label /\ r.day = run[c].day
                               /\ c = "job" => r.day <= today
  <1> DEFINE r == Place(label, run[c].day, 1, 0)
  <1>1. run' = [run EXCEPT ![c] = r]
    BY DEF Goto, TypeOK
  <1>2. r \in Progress /\ r.pc = label /\ r.day = run[c].day /\ (c = "job" => run[c].day <= today)
    <2>1. /\ run[c].day \in Day /\ (c = "job" => run[c].day <= today)
          /\ 1 \in 1..Attempts /\ 0 \in 0..MaxRetries
      BY Ranges
    <2> QED
      BY <2>1 DEF Place, Progress
  <1> HIDE DEF r
  <1> QED
    BY <1>1, <1>2

\* Going on within an attempt keeps the day.
LEMMA GoOnMoves ==
    ASSUME TypeOK, Horizon, NEW c \in Caller, NEW label \in Label,
           NEW left \in 0..MaxRetries, GoOn(c, label, left)
    PROVE  \E r \in Progress : /\ run' = [run EXCEPT ![c] = r]
                               /\ r.pc = label /\ r.day = run[c].day
                               /\ c = "job" => r.day <= today
                               /\ r.budget = left
  <1> DEFINE r == Place(label, run[c].day, run[c].attempt, left)
  <1>1. run' = [run EXCEPT ![c] = r]
    BY DEF GoOn, TypeOK
  <1>2. r \in Progress /\ r.pc = label /\ r.day = run[c].day /\ (c = "job" => run[c].day <= today)
       /\ r.budget = left
    BY Ranges, PlaceType
  <1> HIDE DEF r
  <1> QED
    BY <1>1, <1>2

\* A success ends the request, or takes the job to the downstream steps.
LEMMA SucceedMoves ==
    ASSUME TypeOK, Horizon, NEW c \in Caller, Succeed(c)
    PROVE  \E r \in Progress : /\ run' = [run EXCEPT ![c] = r]
                               /\ r.pc \in {"idle", "derive"}
                               /\ c = "job" => r.pc = "derive" /\ r.day = run[c].day
  <1>1. CASE c = "api"
    BY <1>1, IdleType DEF Succeed, Horizon, TypeOK, Day
  <1>2. CASE c = "job"
    <2>1. Goto(c, "derive") /\ "derive" \in Label
      BY <1>2 DEF Succeed, Label
    <2> QED
      BY <2>1, <1>2, GotoMoves
  <1> QED
    BY <1>1, <1>2 DEF Caller

\* A failed attempt ends the request, or is tried again or given up.
LEMMA AttemptFailsMoves ==
    ASSUME TypeOK, Horizon, NEW c \in Caller, AttemptFails(c)
    PROVE  \E r \in Progress : /\ run' = [run EXCEPT ![c] = r]
                               /\ r.pc \in {"idle", "primary", "decide"}
                               /\ c = "job" => r.pc # "idle" /\ r.day = run[c].day
  <1>1. CASE c = "api"
    BY <1>1, IdleType DEF AttemptFails, Horizon, TypeOK, Day
  <1>2. CASE c = "job" /\ run[c].attempt < Attempts
    <2>1. run' = [run EXCEPT ![c] = Place("primary", run[c].day, run[c].attempt + 1, 0)]
      BY <1>2 DEF AttemptFails, Again, TypeOK
    <2>2. run[c].attempt + 1 \in 1..Attempts /\ "primary" \in Label
      BY <1>2, Ranges DEF Label
    <2> DEFINE r == Place("primary", run[c].day, run[c].attempt + 1, 0)
    <2>3. r \in Progress /\ r.pc = "primary" /\ r.day = run[c].day /\ (c = "job" => run[c].day <= today)
      BY <2>2, Ranges, PlaceType
    <2> HIDE DEF r
    <2>4. run' = [run EXCEPT ![c] = r]
      BY <2>1 DEF r
    <2> QED
      BY <1>2, <2>3, <2>4
  <1>3. CASE c = "job" /\ ~(run[c].attempt < Attempts)
    <2>1. Goto(c, "decide") /\ "decide" \in Label
      BY <1>3 DEF AttemptFails, Label
    <2> QED
      BY <2>1, <1>3, GotoMoves
  <1> QED
    BY <1>1, <1>2, <1>3 DEF Caller

\* The first call and the calls of the retry window are such moves.
LEMMA TushareMoves ==
    ASSUME TypeOK, Horizon, NEW c \in Caller, Tushare(c)
    PROVE  \E r \in Progress : Moves(c, r)
  <1> DEFINE d == run[c].day
  <1>0. d \in Day /\ run[c].pc \in {"primary", "retry"}
    BY Ranges DEF Tushare
  <1>1. CASE ~Closed(d)
    <2>1. GoOn(c, "fallback", 0) /\ "fallback" \in Label /\ UNCHANGED <<rows, bypassed>>
      BY <1>1 DEF Tushare, Label
    <2> QED
      BY <1>0, <2>1, GoOnMoves, Ranges DEF Tushare, Moves, Elsewhere
  <1>2. ASSUME Closed(d), NEW left \in 0..MaxRetries, UNCHANGED <<rows, bypassed>>,
               GoOn(c, IF left > 0 THEN "retry" ELSE "fallback", left)
        PROVE  \E r \in Progress : Moves(c, r)
    BY <1>0, <1>2, GoOnMoves DEF Tushare, Moves, Elsewhere, Label
  <1>3. ASSUME Closed(d), UNCHANGED <<rows, bypassed>>, GoOn(c, "fallback", 0)
        PROVE  \E r \in Progress : Moves(c, r)
    BY <1>0, <1>3, GoOnMoves, Ranges DEF Tushare, Moves, Elsewhere, Label
  <1>4. ASSUME Closed(d), d <= today, Store(d, "thin"), Excuse(c, d), GoOn(c, "fallback", 0)
        PROVE  \E r \in Progress : Moves(c, r)
    BY <1>0, <1>4, StoreWrites, GoOnMoves, Ranges DEF Tushare, Moves, Elsewhere, Label
  <1>5. ASSUME Closed(d), d <= today, Store(d, "full"), Excuse(c, d), Succeed(c)
        PROVE  \E r \in Progress : Moves(c, r)
    BY <1>0, <1>5, StoreWrites, SucceedMoves DEF Tushare, Moves, Elsewhere
  <1>6. CASE Closed(d)
    <2>1. PICK answer \in TushareAnswers(d) :
            \/ /\ answer = "empty"
               /\ \E left \in IF run[c].pc = "retry" THEN {run[c].budget - 1}
                              ELSE IF d = today THEN 0..MaxRetries
                              ELSE {0} :
                    GoOn(c, IF left > 0 THEN "retry" ELSE "fallback", left)
               /\ UNCHANGED <<rows, bypassed>>
            \/ /\ answer = "error"
               /\ GoOn(c, "fallback", 0)
               /\ UNCHANGED <<rows, bypassed>>
            \/ /\ answer = "thin"
               /\ Store(d, answer) /\ Excuse(c, d)
               /\ GoOn(c, "fallback", 0)
            \/ /\ answer = "full"
               /\ Store(d, answer) /\ Excuse(c, d)
               /\ Succeed(c)
      BY <1>6 DEF Tushare
    <2>2. CASE answer = "empty"
      <3>1. PICK left \in IF run[c].pc = "retry" THEN {run[c].budget - 1}
                          ELSE IF d = today THEN 0..MaxRetries
                          ELSE {0} :
                    GoOn(c, IF left > 0 THEN "retry" ELSE "fallback", left)
        BY <2>1, <2>2
      <3>2. left \in 0..MaxRetries
        BY <3>1, Ranges
      <3> QED
        BY <1>2, <1>6, <2>1, <2>2, <3>1, <3>2
    <2>3. CASE answer # "empty"
      <3>1. answer # "error" => d <= today
        BY <2>3 DEF TushareAnswers
      <3> QED
        BY <1>3, <1>4, <1>5, <1>6, <2>1, <2>3, <3>1
    <2> QED
      BY <2>2, <2>3
  <1> QED
    BY <1>1, <1>6

\* All steps of the price update are.
LEMMA UpdateMoves ==
    ASSUME TypeOK, Horizon, NEW c \in Caller, Update(c)
    PROVE  \E r \in Progress : Moves(c, r)
  <1> DEFINE d == run[c].day
  <1>0. d \in Day
    BY Ranges
  <1>1. CASE Tushare(c)
    BY <1>1, TushareMoves
  <1>2. CASE HistoricalFallback(c)
    <2>1. PICK answer \in TushareAnswers(d) :
             IF answer \in {"thin", "full"}
             THEN Store(d, answer) /\ Excuse(c, d) /\ Succeed(c)
             ELSE AttemptFails(c) /\ UNCHANGED <<rows, bypassed>>
      BY <1>2 DEF HistoricalFallback
    <2>2. Closed(d)
      BY <1>2 DEF HistoricalFallback, Closed
    <2>3. CASE answer \in {"thin", "full"}
      <3>1. d <= today
        BY <2>1, <2>3 DEF TushareAnswers
      <3> QED
        BY <1>0, <1>2, <2>1, <2>2, <2>3, <3>1, StoreWrites, SucceedMoves
           DEF HistoricalFallback, Moves, Elsewhere
    <2>4. CASE answer \notin {"thin", "full"}
      BY <1>2, <2>1, <2>4, AttemptFailsMoves DEF HistoricalFallback, Moves, Elsewhere
    <2> QED
      BY <2>3, <2>4
  <1>3. CASE LiveFallback(c)
    BY <1>0, <1>3, StoreWrites, SucceedMoves DEF LiveFallback, Moves, Elsewhere, Day, TypeOK
  <1>4. CASE BlockedFallback(c)
    <2>1. CASE UNCHANGED <<rows, bypassed>>
      BY <1>4, <2>1, AttemptFailsMoves DEF BlockedFallback, Moves, Elsewhere
    <2>2. CASE \E answer \in TushareAnswers(d) \cap {"thin", "full"} :
                 Store(d, answer) /\ Excuse(c, d)
      <3>1. Closed(d) /\ d <= today
        BY <2>2 DEF TushareAnswers
      <3> QED
        BY <1>0, <1>4, <2>2, <3>1, StoreWrites, AttemptFailsMoves
           DEF BlockedFallback, Moves, Elsewhere
    <2> QED
      BY <1>4, <2>1, <2>2 DEF BlockedFallback
  <1> QED
    BY <1>1, <1>2, <1>3, <1>4 DEF Update

-----------------------------------------------------------------------------
\* The steps, conjunct by conjunct.

\* Marking the run of the job as bad leaves the rest of it alone.
LEMMA BadType ==
    ASSUME job \in JobType, NEW b \in BOOLEAN, job' = [job EXCEPT !.bad = b]
    PROVE  /\ job' \in JobType
           /\ job'.dates = job.dates /\ job'.todo = job.todo
           /\ job'.cutoff = job.cutoff /\ job'.bad = b
  BY DEF JobType

\* IInv is preserved by the clock.
LEMMA StepClock ==
    ASSUME IInv, Clock
    PROVE  IInv'
  <1> USE DEF IInv
  <1>1. /\ today' \in Day /\ today' >= today
        /\ UNCHANGED <<rows, ledger, run, job, verdict, events, derived, bypassed, synced>>
    BY DEF Clock, TypeOK, Day
  <1>t1. TypeOK'
    BY <1>1 DEF TypeOK, Clock
  <1>t2. Horizon'
    <2>1. run["job"].day \in Day /\ job.cutoff \in Day
      BY Ranges DEF Caller, TypeOK
    <2> QED
      BY <1>1, <2>1 DEF TypeOK, Horizon, Day
  <1>t3. NoBarsAhead'
    BY DEF TypeOK, NoBarsAhead, Horizon, Closed, Day, Clock
  <1>t4. Phase'
    BY DEF TypeOK, Phase, Clock, Closed
  <1>t5. Behind'
    BY DEF TypeOK, Behind, Phase, Recorded, Day, Clock, Closed
  <1>t6. PassedOver'
    BY DEF TypeOK, PassedOver, Recorded, Day, Clock, Closed
  <1>t7. Finished'
    BY DEF TypeOK, Finished, Phase, Clock, Closed
  <1>t8. Verdict'
    BY DEF Verdict, Clock, Closed
  <1>t9. HonestExit'
    BY DEF TypeOK, HonestExit, Verdict, Expected, Stored, Clock, Closed
  <1>t10. HoleIsOnRecord'
    BY DEF TypeOK, HoleIsOnRecord, Stored, Day, Clock, Closed
  <1> QED
    BY <1>t1, <1>t2, <1>t3, <1>t4, <1>t5, <1>t6, <1>t7, <1>t8, <1>t9, <1>t10

\* IInv is preserved by a refused start.
LEMMA StepRefuse ==
    ASSUME IInv, Refuse
    PROVE  IInv'
  <1> USE DEF IInv
  <1>1. NoJob \in JobType /\ NoJob.dates = {} /\ NoJob.todo = {} /\ NoJob.cutoff = 1
    BY NoJobType
  <1>2. Idle \in Progress /\ Idle.day = 1 /\ Idle.pc = "idle"
    BY IdleType
  <1>t1. TypeOK'
    BY <1>1 DEF TypeOK, Refuse, JobType
  <1>t2. Horizon'
    BY <1>1 DEF TypeOK, Horizon, Day, Refuse, JobType
  <1>t3. NoBarsAhead'
    BY <1>1 DEF TypeOK, NoBarsAhead, Horizon, Closed, Day, Refuse, JobType
  <1>t4. Phase'
    BY <1>1 DEF TypeOK, Phase, Refuse, JobType
  <1>t5. Behind'
    BY <1>1 DEF TypeOK, Behind, Phase, Recorded, Day, Refuse, JobType
  <1>t6. PassedOver'
    BY <1>1 DEF TypeOK, PassedOver, Recorded, Day, Refuse, JobType
  <1>t7. Finished'
    BY <1>1 DEF TypeOK, Finished, Phase, Refuse, JobType
  <1>t8. Verdict'
    BY <1>1 DEF Verdict, Refuse, JobType
  <1>t9. HonestExit'
    BY <1>1 DEF TypeOK, HonestExit, Verdict, Expected, Stored, Refuse, JobType
  <1>t10. HoleIsOnRecord'
    BY <1>1 DEF TypeOK, HoleIsOnRecord, Stored, Day, Refuse, JobType
  <1> QED
    BY <1>t1, <1>t2, <1>t3, <1>t4, <1>t5, <1>t6, <1>t7, <1>t8, <1>t9, <1>t10

\* IInv is preserved by a crash.
LEMMA StepCrash ==
    ASSUME IInv, Crash
    PROVE  IInv'
  <1> USE DEF IInv
  <1>1. NoJob \in JobType /\ NoJob.dates = {} /\ NoJob.todo = {} /\ NoJob.cutoff = 1
    BY NoJobType
  <1>2. Idle \in Progress /\ Idle.day = 1 /\ Idle.pc = "idle"
    BY IdleType
  <1>t1. TypeOK'
    BY <1>1, <1>2 DEF TypeOK, Crash, JobType, Caller
  <1>t2. Horizon'
    BY <1>1, <1>2 DEF TypeOK, Horizon, Day, Crash, JobType, Caller
  <1>t3. NoBarsAhead'
    BY <1>1, <1>2 DEF TypeOK, NoBarsAhead, Horizon, Closed, Day, Crash, JobType, Caller
  <1>t4. Phase'
    BY <1>1, <1>2 DEF TypeOK, Phase, Crash, JobType, Caller
  <1>t5. Behind'
    BY <1>1, <1>2 DEF TypeOK, Behind, Phase, Recorded, Day, Crash, JobType, Caller
  <1>t6. PassedOver'
    BY <1>1, <1>2 DEF TypeOK, PassedOver, Recorded, Day, Crash, JobType, Caller
  <1>t7. Finished'
    BY <1>1, <1>2 DEF TypeOK, Finished, Phase, Crash, JobType, Caller
  <1>t8. Verdict'
    BY <1>1, <1>2 DEF Verdict, Crash, JobType, Caller
  <1>t9. HonestExit'
    BY <1>1, <1>2 DEF TypeOK, HonestExit, Verdict, Expected, Stored, Crash, JobType, Caller
  <1>t10. HoleIsOnRecord'
    BY <1>1, <1>2 DEF TypeOK, HoleIsOnRecord, Stored, Day, Crash, JobType, Caller
  <1> QED
    BY <1>t1, <1>t2, <1>t3, <1>t4, <1>t5, <1>t6, <1>t7, <1>t8, <1>t9, <1>t10

\* IInv is preserved by a failing ledger write.
LEMMA StepLedgerFails ==
    ASSUME IInv, LedgerFails
    PROVE  IInv'
  <1> USE DEF IInv
  <1>1. NoJob \in JobType /\ NoJob.dates = {} /\ NoJob.todo = {} /\ NoJob.cutoff = 1
    BY NoJobType
  <1>2. Idle \in Progress /\ Idle.day = 1 /\ Idle.pc = "idle"
    BY IdleType
  <1>t1. TypeOK'
    BY <1>1, <1>2 DEF TypeOK, LedgerFails, JobType, Caller
  <1>t2. Horizon'
    BY <1>1, <1>2 DEF TypeOK, Horizon, Day, LedgerFails, JobType, Caller
  <1>t3. NoBarsAhead'
    BY <1>1, <1>2 DEF TypeOK, NoBarsAhead, Horizon, Closed, Day, LedgerFails, JobType, Caller
  <1>t4. Phase'
    BY <1>1, <1>2 DEF TypeOK, Phase, LedgerFails, JobType, Caller
  <1>t5. Behind'
    BY <1>1, <1>2 DEF TypeOK, Behind, Phase, Recorded, Day, LedgerFails, JobType, Caller
  <1>t6. PassedOver'
    BY <1>1, <1>2 DEF TypeOK, PassedOver, Recorded, Day, LedgerFails, JobType, Caller
  <1>t7. Finished'
    BY <1>1, <1>2 DEF TypeOK, Finished, Phase, LedgerFails, JobType, Caller
  <1>t8. Verdict'
    BY <1>1, <1>2 DEF Verdict, LedgerFails, JobType, Caller
  <1>t9. HonestExit'
    BY <1>1, <1>2 DEF TypeOK, HonestExit, Verdict, Expected, Stored, LedgerFails, JobType, Caller
  <1>t10. HoleIsOnRecord'
    BY <1>1, <1>2 DEF TypeOK, HoleIsOnRecord, Stored, Day, LedgerFails, JobType, Caller
  <1> QED
    BY <1>t1, <1>t2, <1>t3, <1>t4, <1>t5, <1>t6, <1>t7, <1>t8, <1>t9, <1>t10

\* IInv is preserved by the downstream steps.
LEMMA StepDerive ==
    ASSUME IInv, Derive
    PROVE  IInv'
  <1> USE DEF IInv
  <1>1. "report" \in Label
    BY DEF Label
  <1>2. PICK r \in Progress : /\ run' = [run EXCEPT !["job"] = r]
                               /\ r.pc = "report" /\ r.day = run["job"].day /\ r.day <= today
    BY <1>1, GotoMoves DEF Derive, Caller
  <1>3. job \in JobType /\ job.bad \in BOOLEAN
    BY DEF TypeOK, JobType
  <1>4. PICK good \in BOOLEAN : job' = [job EXCEPT !.bad = @ \/ ~good]
    BY DEF Derive
  <1>5. PICK b \in BOOLEAN : job' = [job EXCEPT !.bad = b] /\ (job.bad => b)
    BY <1>3, <1>4, Zenon
  <1>6. /\ job' \in JobType
        /\ job'.dates = job.dates /\ job'.todo = job.todo
        /\ job'.cutoff = job.cutoff /\ job'.bad = b
    BY <1>3, <1>5, BadType
  <1>7. run["job"].day \in Day /\ run["job"].pc = "derive"
    BY Ranges DEF Derive, Caller
  <1>t1. TypeOK'
    BY <1>2, <1>6, <1>7 DEF TypeOK, Derive, JobType, Caller
  <1>t2. Horizon'
    BY <1>2, <1>5, <1>6, <1>7 DEF TypeOK, Horizon, Day, Derive, Caller
  <1>t3. NoBarsAhead'
    BY <1>2, <1>5, <1>6, <1>7 DEF TypeOK, NoBarsAhead, Horizon, Closed, Day, Derive, Caller
  <1>t4. Phase'
    BY <1>2, <1>5, <1>6, <1>7 DEF TypeOK, Phase, Derive, Caller
  <1>t5. Behind'
    BY <1>2, <1>5, <1>6, <1>7 DEF TypeOK, Behind, Phase, Recorded, Day, Derive, Caller
  <1>t6. PassedOver'
    BY <1>2, <1>5, <1>6, <1>7 DEF TypeOK, PassedOver, Recorded, Day, Derive, Caller
  <1>t7. Finished'
    BY <1>2, <1>5, <1>6, <1>7 DEF TypeOK, Finished, Phase, Derive, Caller
  <1>t8. Verdict'
    BY <1>2, <1>5, <1>6, <1>7 DEF Verdict, Derive, Caller
  <1>t9. HonestExit'
    BY <1>2, <1>5, <1>6, <1>7 DEF TypeOK, HonestExit, Verdict, Expected, Stored, Derive, Caller
  <1>t10. HoleIsOnRecord'
    BY <1>2, <1>5, <1>6, <1>7 DEF TypeOK, HoleIsOnRecord, Stored, Day, Derive, Caller
  <1> QED
    BY <1>t1, <1>t2, <1>t3, <1>t4, <1>t5, <1>t6, <1>t7, <1>t8, <1>t9, <1>t10

\* IInv is preserved by a step of the price update, of either caller.
LEMMA StepUpdate ==
    ASSUME IInv, NEW c \in Caller, Update(c)
    PROVE  IInv'
  <1> USE DEF IInv
  <1>1. PICK r \in Progress : Moves(c, r)
    BY UpdateMoves
  <1>2. run[c].day \in Day /\ (c = "job" => run[c].day <= today)
    BY Ranges
  <1>3. \A e \in Day : rows[e] # "none" => rows'[e] # "none"
    BY <1>1, <1>2 DEF Moves, Wrote
  <1>4. run["job"].day \in Day /\ run["job"] \in Progress
    BY Ranges DEF Caller
  <1>t1. TypeOK'
    BY <1>1, <1>2 DEF TypeOK, Moves, Elsewhere, Wrote, Excuse, Caller, Closed
  <1>t2. Horizon'
    BY <1>1, <1>2 DEF TypeOK, Horizon, Day, Moves, Elsewhere, Wrote, Excuse, Caller, Closed
  <1>t3. NoBarsAhead'
    BY <1>1, <1>2 DEF TypeOK, NoBarsAhead, Horizon, Closed, Day, Moves, Elsewhere, Wrote, Excuse, Caller
  <1>t4. Phase'
    <2>1. CASE c = "job"
      BY <1>1, <1>2, <1>3, <2>1 DEF TypeOK, Phase, Moves, Elsewhere, Wrote, Caller
    <2>2. CASE c = "api"
      <3>1. run'["job"] = run["job"] /\ UNCHANGED <<job, derived>>
        BY <1>1, <2>2 DEF TypeOK, Moves, Elsewhere, Caller
      <3> QED
        BY <1>3, <1>4, <3>1 DEF Phase
    <2> QED
      BY <2>1, <2>2 DEF Caller
  <1>t5. Behind'
    BY <1>1, <1>2 DEF TypeOK, Behind, Phase, Recorded, Day, Moves, Elsewhere, Wrote, Excuse, Caller, Closed
  <1>t6. PassedOver'
    BY <1>1, <1>2 DEF TypeOK, PassedOver, Recorded, Day, Moves, Elsewhere, Wrote, Excuse, Caller, Closed
  <1>t7. Finished'
    BY <1>1, <1>2 DEF TypeOK, Finished, Phase, Moves, Elsewhere, Wrote, Excuse, Caller, Closed
  <1>t8. Verdict'
    BY <1>1, <1>2 DEF Verdict, Moves, Elsewhere, Wrote, Excuse, Caller, Closed
  <1>t9. HonestExit'
    BY <1>1, <1>2 DEF TypeOK, HonestExit, Verdict, Expected, Stored, Moves, Elsewhere, Wrote, Excuse, Caller, Closed
  <1>t10. HoleIsOnRecord'
    <2>1. CASE UNCHANGED <<rows, bypassed>>
      BY <1>1, <2>1 DEF HoleIsOnRecord, Stored, Moves, Elsewhere
    <2>2. CASE Wrote(run[c].day) /\ Excuse(c, run[c].day)
      <3>1. /\ UNCHANGED ledger /\ bypassed \subseteq bypassed'
            /\ \A d \in Trading : d < run[c].day /\ rows[d] = "none" => ledger[d] = "failed" \/ d \in bypassed'
        BY <1>1, <1>2, <2>2 DEF Moves, Elsewhere, Excuse, Behind, Recorded, Caller
      <3> QED
        BY <1>2, <2>2, <3>1 DEF HoleIsOnRecord, Stored, Wrote, Day
    <2> QED
      BY <1>1, <2>1, <2>2 DEF Moves
  <1> QED
    BY <1>t1, <1>t2, <1>t3, <1>t4, <1>t5, <1>t6, <1>t7, <1>t8, <1>t9, <1>t10

\* IInv is preserved by the end of the attempts.
LEMMA StepDecide ==
    ASSUME IInv, Decide
    PROVE  IInv'
  <1> USE DEF IInv
  <1>1. {"backfill", "fail"} \subseteq Label
    BY DEF Label
  <1>2. PICK r \in Progress : /\ run' = [run EXCEPT !["job"] = r]
                               /\ r.pc \in {"backfill", "fail"}
                               /\ r.day = run["job"].day /\ r.day <= today
    BY <1>1, GotoMoves DEF Decide, Caller
  <1>3. /\ job' \in JobType
        /\ job'.dates = job.dates /\ job'.todo = job.todo
        /\ job'.cutoff = job.cutoff /\ job'.bad = TRUE
    BY BadType DEF Decide, TypeOK, JobType
  <1>t1. TypeOK'
    BY <1>2, <1>3 DEF TypeOK, Decide, JobType, Caller
  <1>t2. Horizon'
    BY <1>2, <1>3 DEF TypeOK, Horizon, Day, Decide, Caller
  <1>t3. NoBarsAhead'
    BY <1>2, <1>3 DEF TypeOK, NoBarsAhead, Horizon, Closed, Day, Decide, Caller
  <1>t4. Phase'
    BY <1>2, <1>3 DEF TypeOK, Phase, Decide, Caller
  <1>t5. Behind'
    BY <1>2, <1>3 DEF TypeOK, Behind, Phase, Recorded, Day, Decide, Caller
  <1>t6. PassedOver'
    BY <1>2, <1>3 DEF TypeOK, PassedOver, Recorded, Day, Decide, Caller
  <1>t7. Finished'
    BY <1>2, <1>3 DEF TypeOK, Finished, Phase, Decide, Caller
  <1>t8. Verdict'
    BY <1>2, <1>3 DEF Verdict, Decide, Caller
  <1>t9. HonestExit'
    BY <1>2, <1>3 DEF TypeOK, HonestExit, Verdict, Expected, Stored, Decide, Caller
  <1>t10. HoleIsOnRecord'
    BY <1>2, <1>3 DEF TypeOK, HoleIsOnRecord, Stored, Day, Decide, Caller
  <1> QED
    BY <1>t1, <1>t2, <1>t3, <1>t4, <1>t5, <1>t6, <1>t7, <1>t8, <1>t9, <1>t10

\* IInv is preserved by the range backfill of one day.
LEMMA StepBackfill ==
    ASSUME IInv, Backfill
    PROVE  IInv'
  <1> USE DEF IInv
  <1>1. {"derive", "fail"} \subseteq Label
    BY DEF Label
  <1>2. run["job"].day \in Day /\ run["job"].day <= today /\ run["job"].pc = "backfill"
    BY Ranges DEF Backfill, Caller
  <1>3. PICK r \in Progress : /\ run' = [run EXCEPT !["job"] = r]
                               /\ r.pc \in {"derive", "fail"}
                               /\ r.day = run["job"].day /\ r.day <= today
                               /\ \/ UNCHANGED rows /\ r.pc = "fail"
                                  \/ Wrote(run["job"].day) /\ Closed(run["job"].day)
    <2>1. PICK answer \in TushareAnswers(run["job"].day) :
             IF answer \in {"thin", "full"}
             THEN /\ Store(run["job"].day, answer)
                  /\ Goto("job", IF answer = "full" THEN "derive" ELSE "fail")
             ELSE UNCHANGED rows /\ Goto("job", "fail")
      BY DEF Backfill
    <2>2. CASE answer \in {"thin", "full"}
      <3>1. Closed(run["job"].day)
        BY <2>1, <2>2 DEF TushareAnswers
      <3> QED
        BY <1>1, <1>2, <2>1, <2>2, <3>1, StoreWrites, GotoMoves DEF Caller
    <2>3. CASE answer \notin {"thin", "full"}
      BY <1>1, <2>1, <2>3, GotoMoves DEF Caller
    <2> QED
      BY <2>2, <2>3
  <1>t1. TypeOK'
    BY <1>2, <1>3 DEF TypeOK, Backfill, Elsewhere, Wrote, Caller, Closed
  <1>t2. Horizon'
    BY <1>2, <1>3 DEF TypeOK, Horizon, Day, Backfill, Elsewhere, Wrote, Caller, Closed
  <1>t3. NoBarsAhead'
    BY <1>2, <1>3 DEF TypeOK, NoBarsAhead, Horizon, Closed, Day, Backfill, Elsewhere, Wrote, Caller
  <1>t4. Phase'
    BY <1>2, <1>3 DEF TypeOK, Phase, Backfill, Elsewhere, Wrote, Caller, Closed
  <1>t5. Behind'
    BY <1>2, <1>3 DEF TypeOK, Behind, Phase, Recorded, Day, Backfill, Elsewhere, Wrote, Caller, Closed
  <1>t6. PassedOver'
    BY <1>2, <1>3 DEF TypeOK, PassedOver, Recorded, Day, Backfill, Elsewhere, Wrote, Caller, Closed
  <1>t7. Finished'
    BY <1>2, <1>3 DEF TypeOK, Finished, Phase, Backfill, Elsewhere, Wrote, Caller, Closed
  <1>t8. Verdict'
    BY <1>2, <1>3 DEF Verdict, Backfill, Elsewhere, Wrote, Caller, Closed
  <1>t9. HonestExit'
    BY <1>2, <1>3 DEF TypeOK, HonestExit, Verdict, Expected, Stored, Backfill, Elsewhere, Wrote, Caller, Closed
  <1>t10. HoleIsOnRecord'
    BY <1>2, <1>3 DEF TypeOK, HoleIsOnRecord, Behind, Recorded, Stored, Day, Backfill, Elsewhere, Wrote, Caller
  <1> QED
    BY <1>t1, <1>t2, <1>t3, <1>t4, <1>t5, <1>t6, <1>t7, <1>t8, <1>t9, <1>t10

\* IInv is preserved by the trading day check.
LEMMA StepCheck ==
    ASSUME IInv, Check
    PROVE  IInv'
  <1> USE DEF IInv
  <1>1. {"skip", "fail", "primary"} \subseteq Label
    BY DEF Label
  <1>2. job \in JobType /\ job.bad \in BOOLEAN
    BY DEF TypeOK, JobType
  <1>3. run["job"].day \in Day /\ run["job"].pc = "check"
    BY Ranges DEF Check, Caller
  <1>4. \E b \in BOOLEAN : /\ job' = [job EXCEPT !.bad = b] /\ (job.bad => b)
                           /\ \/ Goto("job", "fail") /\ b
                              \/ Goto("job", "skip") /\ run["job"].day \notin Trading
                              \/ Goto("job", "primary")
    <2>1. CASE Goto("job", "fail") /\ job' = [job EXCEPT !.bad = TRUE]
      BY <2>1
    <2>2. CASE run["job"].day \notin Trading /\ Goto("job", "skip") /\ UNCHANGED job
      <3>1. job' = [job EXCEPT !.bad = job.bad]
        BY <1>2, <2>2 DEF JobType
      <3> QED
        BY <1>2, <2>2, <3>1
    <2>3. CASE Goto("job", "primary") /\ \E closeout \in BOOLEAN : job' = [job EXCEPT !.bad = @ \/ ~closeout]
      BY <1>2, <2>3, Zenon
    <2> QED
      BY <2>1, <2>2, <2>3 DEF Check
  <1>5. PICK b \in BOOLEAN : /\ job' = [job EXCEPT !.bad = b] /\ (job.bad => b)
                            /\ \/ Goto("job", "fail") /\ b
                               \/ Goto("job", "skip") /\ run["job"].day \notin Trading
                               \/ Goto("job", "primary")
    BY <1>4
  <1>6. PICK r \in Progress : /\ run' = [run EXCEPT !["job"] = r]
                               /\ r.day = run["job"].day /\ r.day <= today
                               /\ \/ r.pc = "fail" /\ b
                                  \/ r.pc = "skip" /\ run["job"].day \notin Trading
                                  \/ r.pc = "primary"
    BY <1>1, <1>5, GotoMoves DEF Caller
  <1>7. /\ job' \in JobType
        /\ job'.dates = job.dates /\ job'.todo = job.todo
        /\ job'.cutoff = job.cutoff /\ job'.bad = b
    BY <1>2, <1>5, BadType
  <1>t1. TypeOK'
    BY <1>6, <1>7 DEF TypeOK, Check, JobType, Caller
  <1>t2. Horizon'
    BY <1>3, <1>5, <1>6, <1>7 DEF TypeOK, Horizon, Day, Check, Caller
  <1>t3. NoBarsAhead'
    BY <1>3, <1>5, <1>6, <1>7 DEF TypeOK, NoBarsAhead, Horizon, Closed, Day, Check, Caller
  <1>t4. Phase'
    BY <1>3, <1>5, <1>6, <1>7 DEF TypeOK, Phase, Check, Caller
  <1>t5. Behind'
    BY <1>3, <1>5, <1>6, <1>7 DEF TypeOK, Behind, Phase, Recorded, Day, Check, Caller
  <1>t6. PassedOver'
    BY <1>3, <1>5, <1>6, <1>7 DEF TypeOK, PassedOver, Recorded, Day, Check, Caller
  <1>t7. Finished'
    BY <1>3, <1>5, <1>6, <1>7 DEF TypeOK, Finished, Phase, Check, Caller
  <1>t8. Verdict'
    BY <1>3, <1>5, <1>6, <1>7 DEF Verdict, Check, Caller
  <1>t9. HonestExit'
    BY <1>3, <1>5, <1>6, <1>7 DEF TypeOK, HonestExit, Verdict, Expected, Stored, Check, Caller
  <1>t10. HoleIsOnRecord'
    BY <1>3, <1>5, <1>6, <1>7 DEF TypeOK, HoleIsOnRecord, Stored, Day, Check, Caller
  <1> QED
    BY <1>t1, <1>t2, <1>t3, <1>t4, <1>t5, <1>t6, <1>t7, <1>t8, <1>t9, <1>t10

\* IInv is preserved by the operator's update request.
LEMMA StepApiUpdate ==
    ASSUME IInv, NEW d \in Day, ApiUpdate(d)
    PROVE  IInv'
  <1> USE DEF IInv
  <1>1. "primary" \in Label /\ 1 \in 1..Attempts /\ 0 \in 0..MaxRetries
    BY DEF Label
  <1>2. PICK r \in Progress : run' = [run EXCEPT !["api"] = r] /\ r.pc = "primary"
    <2> DEFINE r == Place("primary", d, 1, 0)
    <2>1. r \in Progress /\ r.pc = "primary" /\ r.day = d
      BY <1>1 DEF Place, Progress
    <2>2. run' = [run EXCEPT !["api"] = r]
      BY DEF ApiUpdate
    <2> HIDE DEF r
    <2> QED
      BY <2>1, <2>2
  <1>t1. TypeOK'
    BY <1>2 DEF TypeOK, ApiUpdate, Elsewhere, Caller
  <1>t2. Horizon'
    BY <1>2 DEF TypeOK, Horizon, Day, ApiUpdate, Elsewhere, Caller
  <1>t3. NoBarsAhead'
    BY <1>2 DEF TypeOK, NoBarsAhead, Horizon, Closed, Day, ApiUpdate, Elsewhere, Caller
  <1>t4. Phase'
    BY <1>2 DEF TypeOK, Phase, ApiUpdate, Elsewhere, Caller
  <1>t5. Behind'
    BY <1>2 DEF TypeOK, Behind, Phase, Recorded, Day, ApiUpdate, Elsewhere, Caller
  <1>t6. PassedOver'
    BY <1>2 DEF TypeOK, PassedOver, Recorded, Day, ApiUpdate, Elsewhere, Caller
  <1>t7. Finished'
    BY <1>2 DEF TypeOK, Finished, Phase, ApiUpdate, Elsewhere, Caller
  <1>t8. Verdict'
    BY <1>2 DEF Verdict, ApiUpdate, Elsewhere, Caller
  <1>t9. HonestExit'
    BY <1>2 DEF TypeOK, HonestExit, Verdict, Expected, Stored, ApiUpdate, Elsewhere, Caller
  <1>t10. HoleIsOnRecord'
    BY <1>2 DEF TypeOK, HoleIsOnRecord, Stored, Day, ApiUpdate, Elsewhere, Caller
  <1> QED
    BY <1>t1, <1>t2, <1>t3, <1>t4, <1>t5, <1>t6, <1>t7, <1>t8, <1>t9, <1>t10

\* IInv is preserved by the operator's backfill.
LEMMA StepApiBackfill ==
    ASSUME IInv, NEW d \in Day, ApiBackfill(d)
    PROVE  IInv'
  <1> USE DEF IInv
  <1>1. Wrote(d) /\ Closed(d) /\ d <= today
    BY StoreWrites DEF ApiBackfill, TushareAnswers
  <1>t1. TypeOK'
    BY <1>1 DEF TypeOK, ApiBackfill, Elsewhere, Excuse, Wrote, Closed, Caller
  <1>t2. Horizon'
    BY <1>1 DEF TypeOK, Horizon, Day, ApiBackfill, Elsewhere, Excuse, Wrote, Closed, Caller
  <1>t3. NoBarsAhead'
    BY <1>1 DEF TypeOK, NoBarsAhead, Horizon, Closed, Day, ApiBackfill, Elsewhere, Excuse, Wrote, Caller
  <1>t4. Phase'
    <2>1. \A e \in Day : rows[e] # "none" => rows'[e] # "none"
      BY <1>1 DEF Wrote
    <2>2. run["job"].day \in Day /\ UNCHANGED <<run, job, derived>>
      BY Ranges DEF ApiBackfill, Elsewhere, Caller
    <2> QED
      BY <2>1, <2>2 DEF Phase
  <1>t5. Behind'
    BY <1>1 DEF TypeOK, Behind, Phase, Recorded, Day, ApiBackfill, Elsewhere, Excuse, Wrote, Closed, Caller
  <1>t6. PassedOver'
    BY <1>1 DEF TypeOK, PassedOver, Recorded, Day, ApiBackfill, Elsewhere, Excuse, Wrote, Closed, Caller
  <1>t7. Finished'
    BY <1>1 DEF TypeOK, Finished, Phase, ApiBackfill, Elsewhere, Excuse, Wrote, Closed, Caller
  <1>t8. Verdict'
    BY <1>1 DEF Verdict, ApiBackfill, Elsewhere, Excuse, Wrote, Closed, Caller
  <1>t9. HonestExit'
    BY <1>1 DEF TypeOK, HonestExit, Verdict, Expected, Stored, ApiBackfill, Elsewhere, Excuse, Wrote, Closed, Caller
  <1>t10. HoleIsOnRecord'
    BY <1>1 DEF TypeOK, HoleIsOnRecord, Stored, Day, ApiBackfill, Elsewhere, Excuse, Wrote, Closed, Caller
  <1> QED
    BY <1>t1, <1>t2, <1>t3, <1>t4, <1>t5, <1>t6, <1>t7, <1>t8, <1>t9, <1>t10

\* IInv is preserved by the operator's sync.
LEMMA StepApiSync ==
    ASSUME IInv, NEW days \in SUBSET Trading, NEW q \in {"thin", "full"}, ApiSync(days, q)
    PROVE  IInv'
  <1> USE DEF IInv
  <1>1. /\ rows' \in [Day -> Quality]
        /\ \A e \in Day : rows[e] # "none" => rows'[e] # "none"
        /\ \A e \in Day : rows[e] = "none" /\ rows'[e] # "none" => e \in days
        /\ \A e \in days : e > today \/ (e = today /\ ~closed) => e \in synced'
        /\ synced \subseteq synced' /\ synced' \subseteq Day
    BY DEF ApiSync, TypeOK, Quality, Closed
  <1>2. /\ bypassed' \subseteq Day /\ bypassed \subseteq bypassed'
        /\ \A e \in Trading, d \in days : rows[e] = "none" /\ e < d => e \in bypassed'
    BY DEF ApiSync, TypeOK
  <1>3. UNCHANGED <<today, closed, ledger, run, job, verdict, fired, derived>>
    BY DEF ApiSync, Elsewhere
  <1>4. run["job"].day \in Day
    BY Ranges DEF Caller
  <1>t1. TypeOK'
    BY <1>1, <1>2, <1>3 DEF TypeOK, ApiSync
  <1>t2. Horizon'
    BY <1>1, <1>2, <1>3, <1>4 DEF TypeOK, Horizon, Day, Caller
  <1>t3. NoBarsAhead'
    BY <1>1, <1>2, <1>3, <1>4 DEF TypeOK, NoBarsAhead, Horizon, Closed, Day, Caller
  <1>t4. Phase'
    BY <1>1, <1>2, <1>3, <1>4 DEF TypeOK, Phase, Caller
  <1>t5. Behind'
    BY <1>1, <1>2, <1>3, <1>4 DEF TypeOK, Behind, Phase, Recorded, Day, Caller
  <1>t6. PassedOver'
    BY <1>1, <1>2, <1>3, <1>4 DEF TypeOK, PassedOver, Recorded, Day, Caller
  <1>t7. Finished'
    BY <1>1, <1>2, <1>3, <1>4 DEF TypeOK, Finished, Phase, Caller
  <1>t8. Verdict'
    BY <1>1, <1>2, <1>3, <1>4 DEF Verdict, Caller
  <1>t9. HonestExit'
    BY <1>1, <1>2, <1>3, <1>4 DEF TypeOK, HonestExit, Verdict, Expected, Stored, Caller
  <1>t10. HoleIsOnRecord'
    BY <1>1, <1>2, <1>3, <1>4 DEF TypeOK, HoleIsOnRecord, Stored, Day, Caller
  <1> QED
    BY <1>t1, <1>t2, <1>t3, <1>t4, <1>t5, <1>t6, <1>t7, <1>t8, <1>t9, <1>t10

\* IInv is preserved by the start of the job.
LEMMA StepFire ==
    ASSUME IInv, Fire
    PROVE  IInv'
  <1> USE DEF IInv
  <1> DEFINE cut == IF closed THEN today ELSE today - 1
  <1>1. cut \in Day /\ cut <= today /\ run["job"].pc = "idle"
    BY DEF Fire, TypeOK, Horizon, Day
  <1>2. PICK dates \in {Expected(cut), {cut}} \cup LastExpected(cut) :
          /\ bypassed' = bypassed \cup (Expected(cut) \ dates)
          /\ IF dates = {} THEN verdict' = "ok" /\ UNCHANGED run
                                /\ job' = Job({}, {}, cut, FALSE)
                           ELSE verdict' = "none" /\ Begin(dates, cut)
    BY DEF Fire
  <1> HIDE DEF cut
  <1>3. /\ dates \in SUBSET Day /\ Expected(cut) \subseteq Day
        /\ \A d \in dates : d <= cut
        /\ dates = {} => Expected(cut) = {}
    <2>1. CASE dates = Expected(cut)
      BY <2>1 DEF Expected
    <2>0. Expected(cut) \subseteq Day /\ cut <= cut
      <3>1. Expected(cut) \subseteq Trading
        BY DEF Expected
      <3>2. cut <= cut
        BY <1>1 DEF Day
      <3> QED
        BY <3>1, <3>2
    <2>2. CASE dates = {cut}
      BY <1>1, <2>0, <2>2
    <2>3. CASE dates \in LastExpected(cut)
      BY <2>3 DEF LastExpected, Expected
    <2> QED
      BY <1>2, <2>1, <2>2, <2>3
  <1>4. UNCHANGED <<today, closed, rows, ledger, events, derived, synced>> /\ fired' = TRUE
    BY DEF Fire
  <1>5. bypassed' \subseteq Day /\ bypassed \subseteq bypassed'
    BY <1>2, <1>3 DEF TypeOK
  <1>6. \A d \in Trading : d <= cut /\ d \notin dates /\ rows[d] = "none"
          => ledger'[d] = "failed" \/ d \in bypassed'
    <2>1. SUFFICES ASSUME NEW d \in Trading, d <= cut, d \notin dates, rows[d] = "none", d \notin bypassed'
                   PROVE  ledger'[d] = "failed"
      OBVIOUS
    <2>2. d \notin Expected(cut) /\ d \in Day /\ d \notin bypassed
      BY <1>2, <1>5, <2>1
    <2>3. \E s \in Stored : d < s
      BY <2>1, <2>2 DEF Expected, Stored, Day
    <2> QED
      BY <1>4, <2>1, <2>2, <2>3 DEF HoleIsOnRecord
  <1>7. CASE dates = {}
    <2>1. /\ job' \in JobType /\ job'.dates = {} /\ job'.todo = {} /\ job'.cutoff = cut
      <3>1. job' = Job({}, {}, cut, FALSE)
        BY <1>2, <1>7
      <3> QED
        BY <1>1, <3>1 DEF Job, JobType
    <2>2. verdict' = "ok" /\ UNCHANGED run /\ Expected(cut) = {} /\ Expected(cut)' = {}
      BY <1>2, <1>3, <1>4, <1>7 DEF Expected, Stored, cut
    <2>t1. TypeOK'
      BY <1>1, <1>4, <1>5, <2>1, <2>2 DEF TypeOK, JobType
    <2>t2. Horizon'
      BY <1>1, <1>4, <1>5, <2>1, <2>2 DEF TypeOK, Horizon, Day, JobType
    <2>t3. NoBarsAhead'
      BY <1>1, <1>4, <1>5, <2>1, <2>2 DEF TypeOK, NoBarsAhead, Horizon, Closed, Day, JobType
    <2>t4. Phase'
      BY <1>1, <1>4, <1>5, <2>1, <2>2 DEF TypeOK, Phase, JobType
    <2>t5. Behind'
      BY <1>1, <1>4, <1>5, <2>1, <2>2 DEF TypeOK, Behind, Phase, Recorded, Day, JobType
    <2>t6. PassedOver'
      BY <1>1, <1>4, <1>5, <2>1, <2>2 DEF TypeOK, PassedOver, Recorded, Day, JobType
    <2>t7. Finished'
      BY <1>1, <1>4, <1>5, <2>1, <2>2 DEF TypeOK, Finished, Phase, JobType
    <2>t8. Verdict'
      BY <1>1, <1>4, <1>5, <2>1, <2>2 DEF Verdict, JobType
    <2>t9. HonestExit'
      <3>1. Expected(job.cutoff)' = {}
        BY <1>3, <1>4, <1>7, <2>1 DEF Expected, Stored
      <3> QED
        BY <2>1, <3>1 DEF HonestExit
    <2>t10. HoleIsOnRecord'
      BY <1>1, <1>4, <1>5, <2>1, <2>2 DEF TypeOK, HoleIsOnRecord, Stored, Day, JobType
    <2> QED
      BY <2>t1, <2>t2, <2>t3, <2>t4, <2>t5, <2>t6, <2>t7, <2>t8, <2>t9, <2>t10
  <1>8. CASE dates # {}
    <2>1. PICK first \in dates :
            /\ \A d \in dates : first <= d
            /\ run' = [run EXCEPT !["job"] = Place("check", first, 1, 0)]
            /\ job' = Job(dates, dates \ {first}, cut, FALSE)
      BY <1>2, <1>8 DEF Begin
    <2>2. PICK r \in Progress : run' = [run EXCEPT !["job"] = r] /\ r.day = first /\ r.pc = "check"
      <3> DEFINE r == Place("check", first, 1, 0)
      <3>1. r \in Progress /\ r.pc = "check" /\ r.day = first
        BY <1>3 DEF Place, Progress, Label
      <3> HIDE DEF r
      <3> QED
        BY <2>1, <3>1 DEF r
    <2>3. /\ job' \in JobType /\ job'.dates = dates /\ job'.todo = dates \ {first}
          /\ job'.cutoff = cut /\ job'.bad = FALSE
      BY <1>1, <1>3, <2>1 DEF Job, JobType
    <2>4. verdict' = "none" /\ first \in Day /\ first <= cut /\ \A d \in dates : first <= d
      BY <1>2, <1>3, <1>8, <2>1
    <2>t1. TypeOK'
      BY <1>1, <1>3, <1>4, <1>5, <1>6, <2>2, <2>3, <2>4 DEF TypeOK, JobType, Caller
    <2>t2. Horizon'
      BY <1>1, <1>3, <1>4, <1>5, <1>6, <2>2, <2>3, <2>4 DEF TypeOK, Horizon, Day, JobType, Caller
    <2>t3. NoBarsAhead'
      BY <1>1, <1>3, <1>4, <1>5, <1>6, <2>2, <2>3, <2>4 DEF TypeOK, NoBarsAhead, Horizon, Closed, Day, JobType, Caller
    <2>t4. Phase'
      BY <1>1, <1>3, <1>4, <1>5, <1>6, <2>2, <2>3, <2>4 DEF TypeOK, Phase, JobType, Caller
    <2>t5. Behind'
      BY <1>1, <1>3, <1>4, <1>5, <1>6, <2>2, <2>3, <2>4 DEF TypeOK, Behind, Phase, Recorded, Day, JobType, Caller
    <2>t6. PassedOver'
      BY <1>1, <1>3, <1>4, <1>5, <1>6, <2>2, <2>3, <2>4 DEF TypeOK, PassedOver, Recorded, Day, JobType, Caller
    <2>t7. Finished'
      BY <1>1, <1>3, <1>4, <1>5, <1>6, <2>2, <2>3, <2>4 DEF TypeOK, Finished, Phase, JobType, Caller
    <2>t8. Verdict'
      BY <1>1, <1>3, <1>4, <1>5, <1>6, <2>2, <2>3, <2>4 DEF Verdict, JobType, Caller
    <2>t9. HonestExit'
      BY <1>1, <1>3, <1>4, <1>5, <1>6, <2>2, <2>3, <2>4 DEF TypeOK, HonestExit, Verdict, Expected, Stored, JobType, Caller
    <2>t10. HoleIsOnRecord'
      BY <1>1, <1>3, <1>4, <1>5, <1>6, <2>2, <2>3, <2>4 DEF TypeOK, HoleIsOnRecord, Stored, Day, JobType, Caller
    <2> QED
      BY <2>t1, <2>t2, <2>t3, <2>t4, <2>t5, <2>t6, <2>t7, <2>t8, <2>t9, <2>t10
  <1> QED
    BY <1>7, <1>8

\* IInv is preserved by the freshness re-check.
LEMMA StepRecheck ==
    ASSUME IInv, Recheck
    PROVE  IInv'
  <1> USE DEF IInv
  <1>1. /\ NoJob \in JobType /\ NoJob.dates = {} /\ NoJob.todo = {} /\ NoJob.cutoff = 1
        /\ Idle \in Progress /\ Idle.day = 1 /\ Idle.pc = "idle"
    BY NoJobType, IdleType
  <1>2. job \in JobType /\ run["job"].pc = "recheck"
    BY DEF Recheck, TypeOK, JobType
  <1>3. run' = [run EXCEPT !["job"] = Idle]
    BY DEF Recheck
  <1>4. \/ verdict' = "ok" /\ job' = job /\ ~job.bad /\ Expected(job.cutoff) = {}
        \/ verdict' = "failed" /\ job' = NoJob
    BY DEF Recheck
  <1>5. UNCHANGED <<today, closed, rows, ledger, fired, events, derived, bypassed, synced>>
    BY DEF Recheck
  <1>6. run'["job"] = Idle /\ run'["api"] = run["api"]
    BY <1>3 DEF TypeOK, Caller
  <1>t1. TypeOK'
    BY <1>1, <1>2, <1>3, <1>4, <1>5, <1>6 DEF TypeOK, JobType, Caller
  <1>t2. Horizon'
    <2>1. /\ job'.cutoff <= today
          /\ \A d \in job'.todo : FALSE
      BY <1>1, <1>2, <1>4 DEF Horizon, Phase, TypeOK, Day
    <2> QED
      BY <1>1, <1>5, <1>6, <2>1 DEF Horizon, Caller, TypeOK, Day
  <1>t3. NoBarsAhead'
    BY <1>1, <1>2, <1>3, <1>4, <1>5, <1>6 DEF TypeOK, NoBarsAhead, Horizon, Closed, Day, JobType, Caller
  <1>t4. Phase'
    BY <1>1, <1>2, <1>3, <1>4, <1>5, <1>6 DEF TypeOK, Phase, JobType, Caller
  <1>t5. Behind'
    BY <1>1, <1>2, <1>3, <1>4, <1>5, <1>6 DEF TypeOK, Behind, Phase, Recorded, Day, JobType, Caller
  <1>t6. PassedOver'
    BY <1>1, <1>2, <1>3, <1>4, <1>5, <1>6 DEF TypeOK, PassedOver, Recorded, Day, JobType, Caller
  <1>t7. Finished'
    BY <1>1, <1>2, <1>3, <1>4, <1>5, <1>6 DEF TypeOK, Finished, Phase, JobType, Caller
  <1>t8. Verdict'
    BY <1>1, <1>6 DEF Verdict
  <1>t9. HonestExit'
    <2>1. CASE verdict' = "ok"
      <3>1. job' = job /\ Expected(job.cutoff) = {} /\ Expected(job.cutoff)' = {}
        BY <1>4, <1>5, <2>1 DEF Expected, Stored
      <3>2. \A d \in job.dates \cap Trading : rows[d] # "none" /\ d \in derived
        BY <1>2, <1>4, <2>1 DEF Finished, Phase
      <3> QED
        BY <1>5, <3>1, <3>2 DEF HonestExit
    <2> QED
      BY <2>1 DEF HonestExit
  <1>t10. HoleIsOnRecord'
    BY <1>1, <1>2, <1>3, <1>4, <1>5, <1>6 DEF TypeOK, HoleIsOnRecord, Stored, Day, JobType, Caller
  <1> QED
    BY <1>t1, <1>t2, <1>t3, <1>t4, <1>t5, <1>t6, <1>t7, <1>t8, <1>t9, <1>t10

\* IInv is preserved by the ledger write and the next day.
LEMMA StepWriteLedger ==
    ASSUME IInv, WriteLedger
    PROVE  IInv'
  <1> USE DEF IInv
  <1>1. /\ run["job"] \in Progress /\ run["job"].day \in Day /\ run["job"].pc \in {"skip", "fail", "report"}
        /\ job \in JobType
    BY Ranges DEF WriteLedger, Caller, TypeOK, JobType
  <1>2. /\ ledger' \in [Day -> {"none", "ok", "failed", "skipped"}]
        /\ \A d \in Day : d # run["job"].day => ledger'[d] = ledger[d]
        /\ run["job"].pc = "fail" => ledger'[run["job"].day] = "failed"
    BY <1>1 DEF WriteLedger, TypeOK
  <1>3. UNCHANGED <<today, closed, rows, verdict, fired, events, derived, bypassed, synced>>
    BY DEF WriteLedger
  <1>4. \A d \in Trading : rows[d] = "none" /\ Recorded(d) => Recorded(d)'
    BY <1>1, <1>2, <1>3 DEF Recorded, Phase
  <1>5. \A d \in Trading : d = run["job"].day /\ rows[d] = "none" => Recorded(d)'
    BY <1>1, <1>2 DEF Recorded, Phase
  <1>6. HoleIsOnRecord'
    BY <1>3, <1>4 DEF HoleIsOnRecord, Recorded, Stored
  <1>7. CASE job.todo = {}
    <2>1. "recheck" \in Label /\ Goto("job", "recheck") /\ UNCHANGED job
      BY <1>7 DEF WriteLedger, Onward, Label
    <2>2. PICK r \in Progress : /\ run' = [run EXCEPT !["job"] = r]
                                 /\ r.pc = "recheck" /\ r.day = run["job"].day /\ r.day <= today
      BY <2>1, GotoMoves DEF Caller
    <2>t1. TypeOK'
      BY <1>1, <1>2, <1>3, <1>4, <1>7, <2>1, <2>2 DEF TypeOK, JobType, Caller
    <2>t2. Horizon'
      BY <1>1, <1>2, <1>3, <1>4, <1>7, <2>1, <2>2 DEF TypeOK, Horizon, Day, JobType, Caller
    <2>t3. NoBarsAhead'
      BY <1>1, <1>2, <1>3, <1>4, <1>7, <2>1, <2>2 DEF TypeOK, NoBarsAhead, Horizon, Closed, Day, JobType, Caller
    <2>t4. Phase'
      BY <1>1, <1>2, <1>3, <1>4, <1>7, <2>1, <2>2 DEF TypeOK, Phase, JobType, Caller
    <2>t5. Behind'
      <3>1. run'["job"].day = run["job"].day
        BY <2>2 DEF TypeOK, Caller
      <3> QED
        BY <1>1, <1>3, <1>4, <3>1 DEF Behind
    <2>t6. PassedOver'
      <3>1. run'["job"].day = run["job"].day
        BY <2>2 DEF TypeOK, Caller
      <3> QED
        BY <1>1, <1>3, <1>4, <2>1, <3>1 DEF PassedOver
    <2>t7. Finished'
      BY <1>1, <1>2, <1>3, <1>4, <1>7, <2>1, <2>2 DEF TypeOK, Finished, Phase, JobType, Caller
    <2>t8. Verdict'
      BY <1>1, <1>2, <1>3, <1>4, <1>7, <2>1, <2>2 DEF Verdict, JobType, Caller
    <2>t9. HonestExit'
      BY <1>1, <1>3 DEF Verdict, HonestExit
    <2>t10. HoleIsOnRecord'
      BY <1>6
    <2> QED
      BY <2>t1, <2>t2, <2>t3, <2>t4, <2>t5, <2>t6, <2>t7, <2>t8, <2>t9, <2>t10
  <1>8. CASE job.todo # {}
    <2>1. PICK next \in job.todo :
            /\ \A d \in job.todo : next <= d
            /\ run' = [run EXCEPT !["job"] = Place("check", next, 1, 0)]
            /\ job' = [job EXCEPT !.todo = @ \ {next}]
      BY <1>8 DEF WriteLedger, Onward
    <2>2. next \in Day /\ run["job"].day < next /\ next <= job.cutoff /\ next <= today
      BY <1>1, <2>1 DEF Horizon, JobType, TypeOK, Day
    <2>3. PICK r \in Progress : run' = [run EXCEPT !["job"] = r] /\ r.day = next /\ r.pc = "check"
      <3> DEFINE r == Place("check", next, 1, 0)
      <3>1. r \in Progress /\ r.pc = "check" /\ r.day = next
        BY <2>2 DEF Place, Progress, Label
      <3> HIDE DEF r
      <3> QED
        BY <2>1, <3>1 DEF r
    <2>4. run'["job"].pc = "check" /\ run'["job"].day = next
      BY <2>3 DEF TypeOK, Caller
    <2>5. /\ job' \in JobType /\ job'.dates = job.dates /\ job'.todo = job.todo \ {next}
          /\ job'.cutoff = job.cutoff /\ job'.bad = job.bad
      BY <1>1, <2>1 DEF JobType
    <2>t1. TypeOK'
      BY <1>1, <1>2, <1>3, <2>1, <2>2, <2>3, <2>5 DEF TypeOK, JobType, Caller
    <2>t2. Horizon'
      BY <1>1, <1>2, <1>3, <2>1, <2>2, <2>3, <2>5 DEF TypeOK, Horizon, Day, JobType, Caller
    <2>t3. NoBarsAhead'
      BY <1>1, <1>2, <1>3, <2>1, <2>2, <2>3, <2>5 DEF TypeOK, NoBarsAhead, Horizon, Closed, Day, JobType, Caller
    <2>t4. Phase'
      BY <2>4 DEF Phase
    <2>t5. Behind'
      <3>1. \A d \in Trading : d < next /\ rows[d] = "none" => Recorded(d)'
        <4>1. SUFFICES ASSUME NEW d \in Trading, d < next, rows[d] = "none", d # run["job"].day
                       PROVE  Recorded(d)
          BY <1>4, <1>5
        <4>2. d \in Day /\ d \notin job.todo /\ d <= job.cutoff
          BY <1>1, <2>1, <2>2, <4>1 DEF JobType, Day
        <4> QED
          BY <1>1, <4>1, <4>2 DEF Behind, PassedOver, Day
      <3> QED
        BY <1>3, <2>4, <3>1 DEF Behind
    <2>t6. PassedOver'
      <3>1. \A d \in Trading : /\ next < d /\ d <= job.cutoff /\ d \notin job.todo \ {next}
                             /\ rows[d] = "none" => Recorded(d)'
        <4>a. \A d \in Day : ~(next < d /\ d = next)
          BY <2>2 DEF Day
        <4>1. SUFFICES ASSUME NEW d \in Trading, next < d, d <= job.cutoff, d \notin job.todo, rows[d] = "none"
                       PROVE  Recorded(d)
          BY <1>4, <2>2, <4>a
        <4>0. d \in Day /\ run["job"].day \in Day /\ next \in Day
          BY <1>1, <2>2
        <4>2. \A x \in Day : x \in Nat
          BY DEF Day
        <4>3. run["job"].day < d
          BY <2>2, <4>0, <4>1, <4>2
        <4> QED
          BY <1>1, <4>0, <4>1, <4>3 DEF PassedOver
      <3> QED
        BY <1>3, <2>4, <2>5, <3>1 DEF PassedOver
    <2>t7. Finished'
      BY <1>1, <1>3, <2>2, <2>4, <2>5 DEF Finished, Phase
    <2>t8. Verdict'
      BY <1>1, <1>2, <1>3, <2>1, <2>2, <2>3, <2>5 DEF Verdict, JobType, Caller
    <2>t9. HonestExit'
      BY <1>1, <1>3 DEF Verdict, HonestExit
    <2>t10. HoleIsOnRecord'
      BY <1>6
    <2> QED
      BY <2>t1, <2>t2, <2>t3, <2>t4, <2>t5, <2>t6, <2>t7, <2>t8, <2>t9, <2>t10
  <1> QED
    BY <1>7, <1>8

\* IInv is preserved by stuttering.
LEMMA StepStutter ==
    ASSUME IInv, UNCHANGED vars
    PROVE  IInv'
  <1> USE DEF IInv
  <1>t1. TypeOK'
    BY DEF TypeOK, vars
  <1>t2. Horizon'
    BY DEF TypeOK, Horizon, Day, vars
  <1>t3. NoBarsAhead'
    BY DEF TypeOK, NoBarsAhead, Horizon, Closed, Day, vars
  <1>t4. Phase'
    BY DEF TypeOK, Phase, vars
  <1>t5. Behind'
    BY DEF TypeOK, Behind, Phase, Recorded, Day, vars
  <1>t6. PassedOver'
    BY DEF TypeOK, PassedOver, Recorded, Day, vars
  <1>t7. Finished'
    BY DEF TypeOK, Finished, Phase, vars
  <1>t8. Verdict'
    BY DEF Verdict, vars
  <1>t9. HonestExit'
    BY DEF TypeOK, HonestExit, Verdict, Expected, Stored, vars
  <1>t10. HoleIsOnRecord'
    BY DEF TypeOK, HoleIsOnRecord, Stored, Day, vars
  <1> QED
    BY <1>t1, <1>t2, <1>t3, <1>t4, <1>t5, <1>t6, <1>t7, <1>t8, <1>t9, <1>t10

\* The initial states satisfy the inductive invariant.
LEMMA InitInv == Init => IInv
  <1> SUFFICES ASSUME Init PROVE IInv
    OBVIOUS
  <1>1. /\ NoJob \in JobType /\ NoJob.dates = {} /\ NoJob.todo = {} /\ NoJob.cutoff = 1
        /\ Idle \in Progress /\ Idle.day = 1 /\ Idle.pc = "idle"
    BY NoJobType, IdleType
  <1>2. 1 \in Day /\ 2 \in Day /\ 0 \in 0..MaxEvents
    BY DEF Day
  <1> USE DEF Init, IInv
  <1>t1. TypeOK
    BY <1>1, <1>2 DEF TypeOK, JobType, Quality, Day
  <1>t2. Horizon
    BY <1>1, <1>2 DEF Horizon, Caller
  <1>t3. NoBarsAhead
    BY <1>1, <1>2 DEF NoBarsAhead, Day
  <1>t4. Phase
    BY <1>1, <1>2 DEF Phase, Caller
  <1>t5. Behind
    BY <1>1, <1>2 DEF Behind, Caller
  <1>t6. PassedOver
    BY <1>1, <1>2 DEF PassedOver, Caller
  <1>t7. Finished
    BY <1>1, <1>2 DEF Finished, Caller
  <1>t8. Verdict
    BY <1>1, <1>2 DEF Verdict
  <1>t9. HonestExit
    BY <1>1, <1>2 DEF HonestExit
  <1>t10. HoleIsOnRecord
    BY <1>1, <1>2 DEF HoleIsOnRecord, Stored, Day
  <1> QED
    BY <1>t1, <1>t2, <1>t3, <1>t4, <1>t5, <1>t6, <1>t7, <1>t8, <1>t9, <1>t10

\* Every step preserves it.
LEMMA StepInv == IInv /\ [Next]_vars => IInv'
  <1> SUFFICES ASSUME IInv, [Next]_vars PROVE IInv'
    OBVIOUS
  <1>1. CASE Fire \/ Refuse \/ Crash \/ Clock
    BY <1>1, StepFire, StepRefuse, StepCrash, StepClock
  <1>2. CASE Pipeline
    BY <1>2, StepCheck, StepDecide, StepBackfill, StepDerive, StepWriteLedger, StepLedgerFails,
       StepRecheck DEF Pipeline
  <1>3. CASE \E c \in Caller : Update(c)
    BY <1>3, StepUpdate
  <1>4. CASE Operator
    BY <1>4, StepApiUpdate, StepApiBackfill, StepApiSync DEF Operator
  <1>5. CASE UNCHANGED vars
    BY <1>5, StepStutter
  <1> QED
    BY <1>1, <1>2, <1>3, <1>4, <1>5 DEF Next

\* It holds in every reachable state.
LEMMA Invariance == Spec => []IInv
  BY InitInv, StepInv, PTL DEF Spec

\* Type correctness of the table, the callers and the job.
THEOREM PricesType == Spec => []TypeOK
  <1>1. IInv => TypeOK
    BY DEF IInv
  <1> QED
    BY Invariance, <1>1, PTL

\* The job returns success only when every trading day it set out to run has prices
\* and has been through the downstream steps (_run_update_daily_prices_authoritative).
THEOREM ExitIsHonest == Spec => []HonestExit
  <1>1. IInv => HonestExit
    BY DEF IInv
  <1> QED
    BY Invariance, <1>1, PTL

\* However the job, its retries, crashes and the operator interleave, a trading day
\* that newer prices have left behind without prices has a ledger that says so.
THEOREM HolesAreOnRecord == Spec => []HoleIsOnRecord
  <1>1. IInv => HoleIsOnRecord
    BY DEF IInv
  <1> QED
    BY Invariance, <1>1, PTL

\* The job, its retries and both fallbacks, the operator's updates and backfills
\* store the prices of closed days only: whatever there is of today while the
\* market is open, or of a day to come, was brought by a sync.
THEOREM ClosedBars == Spec => []NoIntradayBars
  <1>1. IInv => NoIntradayBars
    BY DEF IInv, NoBarsAhead, NoIntradayBars, Closed, Stored, TypeOK
  <1> QED
    BY Invariance, <1>1, PTL
=============================================================================
