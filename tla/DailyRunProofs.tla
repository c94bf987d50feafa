--------------------------- MODULE DailyRunProofs ---------------------------
(***************************************************************************)
(* Proofs about DailyRun, for any number of runs, days and codes, any      *)
(* sample size and any bound: the types, what a publication and a trade    *)
(* stand for, what the serialised runs leave on disk, and that repairing   *)
(* volumes repairs no row twice.                                           *)
(***************************************************************************)
EXTENDS DailyRun, TLAPS

\* What a run knows: a stage beyond compose has seen candidates of its day, and
\* a publish that validates or has succeeded has seen the compose artifact.
RunOK(r) ==
    /\ run[r].pc \in {"dayCheck", "normalise", "revalidate"} => run[r].stage = "capture"
    /\ run[r].pc = "validate" => run[r].stage # "compose"
    /\ run[r].pc \in {"close", "artifact", "report"} => run[r].status # "none"
    /\ run[r].pc = "lab" => run[r].stage = "publish"
    /\ run[r].stage = "compose" /\ run[r].status = "ok" => HasCandidates(run[r].day)
    /\ run[r].stage = "publish" \/ run[r].labOk => HasCandidates(run[r].day)
    /\ run[r].stage = "publish" /\ (run[r].pc = "validate" \/ run[r].status = "ok") =>
          artifact[run[r].day]["compose"] # "absent"

\* A run owns a place in "running" from the grant to the end of release_lock.
PlaceOK(r) == r \in running <=> run[r].pc \notin {"idle", "materialise"}

\* What the only run knows: its start is the last one, the files it has written
\* are its own, and so are the artifacts of the stages it has left behind.
SerialOK(r) ==
    /\ run[r].gen = starts
    /\ \A i \in File : i <= run[r].written => out[run[r].day][i] = run[r].gen
    /\ ~Dry(r) =>
          /\ run[r].stage # "capture" => artifact[run[r].day]["capture"] = "ok"
          /\ run[r].stage = "publish" => artifact[run[r].day]["compose"] = "ok"
          /\ run[r].pc = "report" /\ run[r].status = "ok" =>
                artifact[run[r].day][run[r].stage] = "ok"
          /\ run[r].pc = "lab" => artifact[run[r].day]["publish"] = "ok"

Serial ==
    ~revoked =>
        /\ running = owner
        /\ \A x, y \in running : x = y
        /\ \A r \in running : SerialOK(r)
        /\ \A d \in Day, i \in File : out[d][i] <= starts

IInv ==
    /\ TypeOK
    /\ \A r \in Run : RunOK(r) /\ PlaceOK(r)
    /\ PublishedHasData
    /\ TradesHaveData
    /\ Serial
    /\ OutputsDescend

-----------------------------------------------------------------------------

\* A run that only computes keeps the invariant if its own part holds again.
LEMMA ThinkKeeps ==
    ASSUME IInv, NEW r \in Run, Think, run' \in [Run -> Local],
           \A x \in Run \ {r} : run'[x] = run[x],
           RunOK(r)', PlaceOK(r)',
           ~revoked /\ r \in running => SerialOK(r)'
    PROVE  IInv'
<1>1. /\ UNCHANGED <<rows, calendar, artifact, out, owner, running, revoked, traded, starts, feeds>>
  BY DEF Think, disk, lock, count
<1>2. TypeOK'
  BY <1>1 DEF IInv, TypeOK
<1>3. \A x \in Run : RunOK(x)' /\ PlaceOK(x)'
  <2>1. SUFFICES ASSUME NEW x \in Run, x # r PROVE RunOK(x)' /\ PlaceOK(x)'
    OBVIOUS
  <2>2. run'[x] = run[x] /\ RunOK(x) /\ PlaceOK(x)
    BY <2>1 DEF IInv
  <2>3. QED
    BY <1>1, <2>2 DEF RunOK, PlaceOK, HasCandidates
<1>4. PublishedHasData' /\ TradesHaveData' /\ OutputsDescend'
  BY <1>1 DEF IInv, PublishedHasData, TradesHaveData, OutputsDescend, HasCandidates
<1>5. Serial'
  <2>1. SUFFICES ASSUME ~revoked, NEW x \in running PROVE SerialOK(x)'
    BY <1>1 DEF IInv, Serial
  <2>2. x \in Run /\ SerialOK(x)
    BY <2>1 DEF IInv, Serial, TypeOK
  <2>3. CASE x = r
    BY <2>1, <2>3
  <2>4. CASE x # r
    <3>1. run'[x] = run[x]
      BY <2>2, <2>4
    <3>2. QED
      BY <1>1, <2>2, <3>1 DEF SerialOK, Dry
  <2>5. QED
    BY <2>3, <2>4
<1>6. QED
  BY <1>2, <1>3, <1>4, <1>5 DEF IInv

\* The initial states satisfy the invariant.
LEMMA InitInv == Init => IInv
<1>1. SUFFICES ASSUME Init PROVE IInv
  OBVIOUS
<1>2. TypeOK
  <2>1. Fresh \in Local
    BY DailyRunAssumption DEF Fresh, Local, Kind, PC, Stage, Day
  <2>2. artifact \in [Day -> [Stage -> FileStatus]] /\ out \in [Day -> [File -> Nat]]
    BY <1>1 DEF Init, FileStatus
  <2>3. rows \in Price /\ starts \in 0 .. StartLimit /\ feeds \in 0 .. FeedLimit
    BY <1>1, DailyRunAssumption DEF Init
  <2>4. run \in [Run -> Local]
    BY <1>1, <2>1 DEF Init
  <2>5. QED
    BY <1>1, <2>2, <2>3, <2>4 DEF Init, TypeOK
<1>3. \A r \in Run : RunOK(r) /\ PlaceOK(r)
  BY <1>1 DEF Init, RunOK, PlaceOK, Fresh
<1>4. PublishedHasData /\ TradesHaveData
  BY <1>1 DEF Init, PublishedHasData, TradesHaveData, Stage
<1>5. Serial /\ OutputsDescend
  BY <1>1 DEF Init, Serial, OutputsDescend
<1>6. QED
  BY <1>2, <1>3, <1>4, <1>5 DEF IInv

\* What the invariant says of one run.
LEMMA Mine ==
    ASSUME IInv, NEW r \in Run
    PROVE  /\ run[r] \in Local /\ run \in [Run -> Local]
           /\ RunOK(r) /\ PlaceOK(r)
           /\ ~revoked /\ r \in running => SerialOK(r)
BY DEF IInv, TypeOK, Serial

\* A stage gets its status: publish is ok only after it has validated, compose
\* only with candidates.
LEMMA SettleKeeps ==
    ASSUME IInv, NEW r \in Run, NEW s \in {"ok", "failed"}, Think, Settle(r, s),
           run[r].pc \in {"work", "validate", "revalidate"},
           s = "ok" => /\ run[r].stage = "compose" => HasCandidates(run[r].day)
                       /\ run[r].stage = "publish" => run[r].pc = "validate"
    PROVE  IInv'
<1> DEFINE me == run[r]
<1>1. /\ me \in Local /\ run \in [Run -> Local] /\ RunOK(r) /\ PlaceOK(r)
      /\ ~revoked /\ r \in running => SerialOK(r)
  BY Mine
<1>2. run' = [run EXCEPT ![r] = [me EXCEPT !.status = s, !.pc = "close", !.short = FALSE]]
  BY <1>1 DEF Settle
<1>3. /\ run' \in [Run -> Local] /\ \A x \in Run \ {r} : run'[x] = run[x]
      /\ run'[r] = [me EXCEPT !.status = s, !.pc = "close", !.short = FALSE]
  BY <1>1, <1>2 DEF Local, PC
<1>4. RunOK(r)' /\ PlaceOK(r)'
  BY <1>1, <1>3 DEF Think, disk, lock, RunOK, PlaceOK, HasCandidates, Local
<1>5. ~revoked /\ r \in running => SerialOK(r)'
  BY <1>1, <1>3 DEF Think, disk, lock, count, SerialOK, Dry, Local
<1>6. QED
  BY <1>3, <1>4, <1>5, ThinkKeeps

\* A run goes on to another place, and nothing else changes.
LEMMA GoKeeps ==
    ASSUME IInv, NEW r \in Run, NEW place \in PC, Think, Go(r, place),
           run[r].pc \notin {"idle", "materialise"}, place \notin {"idle", "materialise"},
           place \in {"dayCheck", "normalise", "revalidate"} => run[r].stage = "capture",
           place = "validate" =>
              /\ run[r].stage # "compose"
              /\ run[r].stage = "publish" => artifact[run[r].day]["compose"] # "absent",
           place = "artifact" => run[r].pc = "close",
           place = "report" => run[r].pc = "close" /\ Dry(r),
           place = "close" => run[r].status # "none",
           place = "lab" =>
              run[r].pc = "report" /\ run[r].stage = "publish" /\ run[r].status = "ok"
    PROVE  IInv'
<1> DEFINE me == run[r]
<1>1. /\ me \in Local /\ run \in [Run -> Local] /\ RunOK(r) /\ PlaceOK(r)
      /\ ~revoked /\ r \in running => SerialOK(r)
  BY Mine
<1>2. /\ run' \in [Run -> Local] /\ \A x \in Run \ {r} : run'[x] = run[x]
      /\ run'[r] = [me EXCEPT !.pc = place]
  BY <1>1 DEF Go, Local
<1>3. RunOK(r)' /\ PlaceOK(r)'
  BY <1>1, <1>2 DEF Think, disk, lock, RunOK, PlaceOK, HasCandidates, Local
<1>4. ~revoked /\ r \in running => SerialOK(r)'
  BY <1>1, <1>2 DEF Think, disk, lock, count, SerialOK, Dry, Local
<1>5. QED
  BY <1>2, <1>3, <1>4, ThinkKeeps

\* The steps that change nothing but the locals of their run.
LEMMA ThinkSteps ==
    ASSUME IInv, NEW r \in Run,
           \/ EndOutputs(r) \/ CheckDay(r) \/ Validate(r) \/ Revalidate(r)
           \/ Query(r) \/ Prerequisites(r) \/ WriteLedger(r) \/ SkipWrites(r)
           \/ WriteFails(r) \/ NextStage(r) \/ OpenGate(r) \/ BlockRest(r)
    PROVE  IInv'
<1> DEFINE me == run[r]
<1>1. /\ me \in Local /\ run \in [Run -> Local] /\ RunOK(r) /\ PlaceOK(r)
      /\ ~revoked /\ r \in running => SerialOK(r)
  BY Mine
<1>2. CASE WriteLedger(r)
  <2>1. /\ Think /\ me.pc = "close" /\ ~Dry(r)
        /\ run' = [run EXCEPT ![r] = [me EXCEPT !.pc = "artifact"]]
    BY <1>1, <1>2 DEF WriteLedger, Think, At, Go
  <2>2. /\ run' \in [Run -> Local] /\ \A x \in Run \ {r} : run'[x] = run[x]
        /\ run'[r] = [me EXCEPT !.pc = "artifact"]
    BY <1>1, <2>1 DEF Local, PC, Stage
  <2>3. RunOK(r)' /\ PlaceOK(r)'
    BY <1>1, <2>1, <2>2 DEF Think, disk, lock, RunOK, PlaceOK, HasCandidates, Local, Stage
  <2>4. ~revoked /\ r \in running => SerialOK(r)'
    BY <1>1, <2>1, <2>2 DEF Think, disk, lock, count, SerialOK, Dry, Local, Stage
  <2>5. QED
    BY <2>1, <2>2, <2>3, <2>4, ThinkKeeps
<1>3. CASE WriteFails(r)
  <2>1. /\ Think
        /\ me.pc \in {"close", "artifact"} \/ (me.pc = "work" /\ me.stage = "capture")
        /\ run' = [run EXCEPT ![r] = [me EXCEPT !.pc = "report", !.status = "failed"]]
    BY <1>1, <1>3 DEF WriteFails, Think, At, ToWrite, Working
  <2>2. /\ run' \in [Run -> Local] /\ \A x \in Run \ {r} : run'[x] = run[x]
        /\ run'[r] = [me EXCEPT !.pc = "report", !.status = "failed"]
    BY <1>1, <2>1 DEF Local, PC, Stage
  <2>3. RunOK(r)' /\ PlaceOK(r)'
    BY <1>1, <2>1, <2>2 DEF Think, disk, lock, RunOK, PlaceOK, HasCandidates, Local, Stage
  <2>4. ~revoked /\ r \in running => SerialOK(r)'
    BY <1>1, <2>1, <2>2 DEF Think, disk, lock, count, SerialOK, Dry, Local, Stage
  <2>5. QED
    BY <2>1, <2>2, <2>3, <2>4, ThinkKeeps
<1>4. CASE NextStage(r)
  <2>1. /\ Think /\ me.pc = "report" /\ me.status = "ok" /\ me.stage # "publish"
        /\ run' = [run EXCEPT ![r] = [me EXCEPT !.stage = Following(me.stage), !.pc = "work", !.status = "none"]]
    BY <1>1, <1>4 DEF NextStage, Think, At
  <2>2. /\ run' \in [Run -> Local] /\ \A x \in Run \ {r} : run'[x] = run[x]
        /\ run'[r] = [me EXCEPT !.stage = Following(me.stage), !.pc = "work", !.status = "none"]
    BY <1>1, <2>1 DEF Local, PC, Stage, Following
  <2>3. RunOK(r)' /\ PlaceOK(r)'
    BY <1>1, <2>1, <2>2 DEF Think, disk, lock, RunOK, PlaceOK, HasCandidates, Local, Stage, Following
  <2>4. ~revoked /\ r \in running => SerialOK(r)'
    BY <1>1, <2>1, <2>2 DEF Think, disk, lock, count, SerialOK, Dry, Local, Stage, Following
  <2>5. QED
    BY <2>1, <2>2, <2>3, <2>4, ThinkKeeps
<1>5. CASE CheckDay(r)
  <2>1. PICK answered \in BOOLEAN :
           /\ Think /\ me.pc = "dayCheck"
           /\ run' = [run EXCEPT ![r] = [me EXCEPT !.pc = "validate",
                         !.short = answered /\ me.day \in TradingDays /\ ~HasRows(me.day)]]
    BY <1>1, <1>5 DEF CheckDay, At
  <2> DEFINE b == answered /\ me.day \in TradingDays /\ ~HasRows(me.day)
  <2>2. /\ run' \in [Run -> Local] /\ \A x \in Run \ {r} : run'[x] = run[x]
        /\ run'[r] = [me EXCEPT !.pc = "validate", !.short = b]
    <3>1. b \in BOOLEAN
      OBVIOUS
    <3> HIDE DEF b
    <3>2. run' = [run EXCEPT ![r] = [me EXCEPT !.pc = "validate", !.short = b]]
      BY <2>1 DEF b
    <3>3. QED
      BY <1>1, <3>1, <3>2 DEF Local, PC
  <2> HIDE DEF b
  <2>3. RunOK(r)' /\ PlaceOK(r)'
    BY <1>1, <2>1, <2>2 DEF Think, disk, lock, RunOK, PlaceOK, HasCandidates, Local
  <2>4. ~revoked /\ r \in running => SerialOK(r)'
    BY <1>1, <2>1, <2>2 DEF Think, disk, lock, count, SerialOK, Dry, Local
  <2>5. QED
    BY <2>1, <2>2, <2>3, <2>4, ThinkKeeps
<1>6. CASE EndOutputs(r)
  BY <1>1, <1>6, GoKeeps DEF EndOutputs, At, Think, PC
<1>7. CASE SkipWrites(r)
  BY <1>1, <1>7, GoKeeps DEF SkipWrites, At, Think, PC
<1>8. CASE OpenGate(r)
  BY <1>1, <1>8, GoKeeps DEF OpenGate, At, Think, PC
<1>9. CASE BlockRest(r)
  BY <1>1, <1>9, GoKeeps DEF BlockRest, At, Think, PC
<1>10. CASE Validate(r)
  <2>1. PICK v \in Verdicts :
           /\ me.pc = "validate" /\ Think
           /\ \/ me.stage = "capture" /\ Go(r, "normalise")
              \/ Settle(r, StatusOf(r, v))
    BY <1>10 DEF Validate, At
  <2>2. CASE me.stage = "capture" /\ Go(r, "normalise")
    BY <2>1, <2>2, GoKeeps DEF PC
  <2>3. CASE Settle(r, StatusOf(r, v))
    <3>1. StatusOf(r, v) \in {"ok", "failed"}
      BY DEF StatusOf
    <3>2. QED
      BY <1>1, <2>1, <2>3, <3>1, SettleKeeps DEF RunOK
  <2>4. QED
    BY <2>1, <2>2, <2>3
<1>11. CASE Revalidate(r)
  <2>1. PICK v \in Verdicts : me.pc = "revalidate" /\ Think /\ Settle(r, StatusOf(r, v))
    BY <1>11 DEF Revalidate, At
  <2>2. StatusOf(r, v) \in {"ok", "failed"}
    BY DEF StatusOf
  <2>3. QED
    BY <1>1, <2>1, <2>2, SettleKeeps DEF RunOK
<1>12. CASE Query(r)
  <2>1. PICK answered \in BOOLEAN :
           /\ me.pc = "work" /\ me.stage = "compose" /\ Think
           /\ Settle(r, IF answered /\ HasCandidates(me.day) THEN "ok" ELSE "failed")
    BY <1>12 DEF Query, Working, At
  <2>2. CASE answered /\ HasCandidates(me.day)
    BY <2>1, <2>2, SettleKeeps
  <2>3. CASE ~(answered /\ HasCandidates(me.day))
    BY <2>1, <2>3, SettleKeeps
  <2>4. QED
    BY <2>2, <2>3
<1>13. CASE Prerequisites(r)
  <2>1. me.pc = "work" /\ me.stage = "publish" /\ Think
    BY <1>13 DEF Prerequisites, Working, At
  <2>2. CASE calendar # {} /\ artifact[me.day]["compose"] # "absent"
    BY <1>13, <2>1, <2>2, GoKeeps DEF Prerequisites, PC
  <2>3. CASE ~(calendar # {} /\ artifact[me.day]["compose"] # "absent")
    BY <1>13, <2>1, <2>3, SettleKeeps DEF Prerequisites
  <2>4. QED
    BY <2>2, <2>3
<1>14. QED
  BY <1>2, <1>3, <1>4, <1>5, <1>6, <1>7, <1>8, <1>9, <1>10, <1>11, <1>12, <1>13

\* Rows and compose artifacts do not go away, so that what another run knows
\* stays true.
LEMMA OthersKeep ==
    ASSUME IInv, NEW x \in Run, run'[x] = run[x], x \in running <=> x \in running',
           \A d \in Day : HasCandidates(d) => HasCandidates(d)',
           \A d \in Day : artifact[d]["compose"] # "absent" => artifact'[d]["compose"] # "absent"
    PROVE  RunOK(x)' /\ PlaceOK(x)'
<1>1. run[x] \in Local /\ RunOK(x) /\ PlaceOK(x)
  BY Mine
<1>2. run[x].day \in Day
  BY <1>1 DEF Local
<1>3. QED
  BY <1>1, <1>2 DEF RunOK, PlaceOK

\* While the lock has not been reclaimed, the run under way is the only one.
LEMMA Alone ==
    ASSUME IInv, ~revoked, NEW r \in running
    PROVE  running = {r} /\ owner = {r} /\ SerialOK(r)
BY DEF IInv, Serial

LEMMA RebuildStep == ASSUME IInv, NEW r \in Run, RebuildCalendar(r) PROVE IInv'
<1> PICK b \in BOOLEAN :
        /\ At(r, "work") /\ run[r].stage = "capture"
        /\ calendar' = IF b THEN DaysWithRows ELSE calendar
        /\ run' = [run EXCEPT ![r].pc = "dayCheck"]
        /\ UNCHANGED <<rows, artifact, out, lock, traded, count>>
  BY DEF RebuildCalendar, Working, Go
<1> DEFINE me == run[r]
           new == [me EXCEPT !.pc = "dayCheck"]
<1>1. /\ me \in Local /\ run \in [Run -> Local] /\ RunOK(r) /\ PlaceOK(r)
      /\ TypeOK /\ PublishedHasData /\ TradesHaveData /\ Serial /\ OutputsDescend
  BY Mine DEF IInv
<1>2. /\ me.pc = "work" /\ me.stage = "capture"
      /\ UNCHANGED <<rows, artifact, out, owner, running, revoked, traded, starts, feeds>>
      /\ run' = [run EXCEPT ![r] = new]
  BY <1>1 DEF At, lock, count
<1>3. calendar' \subseteq Day
  BY <1>1 DEF DaysWithRows, TypeOK
<1>4. /\ new \in Local /\ run' \in [Run -> Local] /\ run'[r] = new
      /\ \A x \in Run \ {r} : run'[x] = run[x]
  BY <1>1, <1>2 DEF Local, PC
<1>5. TypeOK'
  BY <1>1, <1>2, <1>3, <1>4 DEF TypeOK
<1>6. RunOK(r)' /\ PlaceOK(r)'
  BY <1>1, <1>2, <1>4 DEF RunOK, PlaceOK, HasCandidates, Local
<1>7. \A x \in Run : RunOK(x)' /\ PlaceOK(x)'
  BY <1>2, <1>4, <1>6, OthersKeep DEF HasCandidates
<1>8. PublishedHasData' /\ TradesHaveData' /\ OutputsDescend'
  BY <1>1, <1>2 DEF PublishedHasData, TradesHaveData, OutputsDescend, HasCandidates
<1>9. Serial'
  <2>1. SUFFICES ASSUME ~revoked, NEW x \in running PROVE SerialOK(x)'
    BY <1>1, <1>2 DEF Serial
  <2>2. x \in Run /\ x = r /\ SerialOK(r)
    <3>1. r \in running /\ x \in Run
      BY <1>1, <1>2 DEF PlaceOK, TypeOK
    <3>2. QED
      BY <2>1, <3>1, Alone
  <2>3. QED
    BY <1>1, <1>2, <1>4, <2>2 DEF SerialOK, Dry, Local
<1>10. QED
  BY <1>5, <1>7, <1>8, <1>9 DEF IInv

LEMMA NormaliseStep ==
    ASSUME IInv, NEW r \in Run, Normalise(r)
    PROVE  /\ IInv'
           /\ \A d \in Day, c \in Code : rows[d][c] = "share" => rows'[d][c] = "share"
<1> DEFINE me == run[r]
           new == [me EXCEPT !.pc = "revalidate"]
<1>1. /\ me \in Local /\ run \in [Run -> Local] /\ RunOK(r) /\ PlaceOK(r)
      /\ TypeOK /\ PublishedHasData /\ TradesHaveData /\ Serial /\ OutputsDescend
  BY Mine DEF IInv
<1>2. /\ me.pc = "normalise"
      /\ UNCHANGED <<calendar, artifact, out, owner, running, revoked, traded, starts, feeds>>
      /\ run' = [run EXCEPT ![r] = new]
  BY <1>1 DEF Normalise, Go, At, disk, lock, count
<1>3. /\ rows' \in Price
      /\ \A d \in Day, c \in Code :
            /\ rows[d][c] = "share" => rows'[d][c] = "share"
            /\ rows[d][c] # "none" => rows'[d][c] # "none"
  <2> DEFINE L == LatestDay
             better == [c \in Code |-> InShareUnit(rows[L][c])]
  <2>1. rows' = rows \/ rows' = [rows EXCEPT ![L] = better]
    BY DEF Normalise
  <2>2. rows \in Price
    BY <1>1 DEF TypeOK
  <2> HIDE DEF L
  <2>3. CASE rows' = rows
    BY <2>2, <2>3
  <2>4. CASE L \notin Day /\ rows' = [rows EXCEPT ![L] = better]
    BY <2>2, <2>4 DEF Price
  <2>5. CASE L \in Day /\ rows' = [rows EXCEPT ![L] = better]
    <3>1. \A c \in Code : /\ better[c] \in Unit \union {"none"}
                          /\ rows[L][c] = "share" => better[c] = "share"
                          /\ rows[L][c] # "none" => better[c] # "none"
      BY <2>2, <2>5 DEF Price, Unit, InShareUnit
    <3>2. better \in [Code -> Unit \union {"none"}]
      BY <3>1
    <3> HIDE DEF better
    <3>3. QED
      BY <2>2, <2>5, <3>1, <3>2 DEF Price
  <2>6. QED
    BY <2>1, <2>3, <2>4, <2>5
<1>4. \A d \in Day : HasCandidates(d) => HasCandidates(d)'
  BY <1>3, DailyRunAssumption DEF HasCandidates
<1>5. /\ new \in Local /\ run' \in [Run -> Local] /\ run'[r] = new
      /\ \A x \in Run \ {r} : run'[x] = run[x]
  BY <1>1, <1>2 DEF Local, PC
<1>6. TypeOK'
  BY <1>1, <1>2, <1>3, <1>5 DEF TypeOK
<1>7. RunOK(r)' /\ PlaceOK(r)'
  BY <1>1, <1>2, <1>4, <1>5 DEF RunOK, PlaceOK, Local
<1>8. \A x \in Run : RunOK(x)' /\ PlaceOK(x)'
  BY <1>2, <1>4, <1>5, <1>7, OthersKeep
<1>9. PublishedHasData' /\ TradesHaveData' /\ OutputsDescend'
  BY <1>1, <1>2, <1>4 DEF PublishedHasData, TradesHaveData, OutputsDescend, TypeOK
<1>10. Serial'
  <2>1. SUFFICES ASSUME ~revoked, NEW x \in running PROVE SerialOK(x)'
    BY <1>1, <1>2 DEF Serial
  <2>2. x = r /\ SerialOK(r)
    <3>1. r \in running
      BY <1>1, <1>2 DEF PlaceOK
    <3>2. QED
      BY <2>1, <3>1, Alone
  <2>3. QED
    BY <1>1, <1>2, <1>5, <2>2 DEF SerialOK, Dry, Local
<1>11. QED
  BY <1>3, <1>6, <1>8, <1>9, <1>10 DEF IInv

LEMMA WriteArtifactStep == ASSUME IInv, NEW r \in Run, WriteArtifact(r) PROVE IInv'
<1> DEFINE me == run[r]
           new == [me EXCEPT !.pc = "report"]
<1>1. /\ me \in Local /\ run \in [Run -> Local] /\ RunOK(r) /\ PlaceOK(r)
      /\ TypeOK /\ PublishedHasData /\ TradesHaveData /\ Serial /\ OutputsDescend
  BY Mine DEF IInv
<1>2. /\ me.pc = "artifact"
      /\ artifact' = [artifact EXCEPT ![me.day][me.stage] = me.status]
      /\ UNCHANGED <<rows, calendar, out, owner, running, revoked, traded, starts, feeds>>
      /\ run' = [run EXCEPT ![r] = new]
  BY <1>1 DEF WriteArtifact, Go, At, lock, count
<1>3. me.day \in Day /\ me.stage \in Stage /\ me.status \in {"ok", "failed"}
  BY <1>1, <1>2 DEF Local, RunOK
<1>4. /\ artifact' \in [Day -> [Stage -> FileStatus]]
      /\ artifact'[me.day][me.stage] = me.status
      /\ \A d \in Day, s \in Stage :
            ~(d = me.day /\ s = me.stage) => artifact'[d][s] = artifact[d][s]
  BY <1>1, <1>2, <1>3 DEF TypeOK, FileStatus
<1>5. \A d \in Day : artifact[d]["compose"] # "absent" => artifact'[d]["compose"] # "absent"
  BY <1>3, <1>4 DEF Stage
<1>6. /\ new \in Local /\ run' \in [Run -> Local] /\ run'[r] = new
      /\ \A x \in Run \ {r} : run'[x] = run[x]
  BY <1>1, <1>2 DEF Local, PC
<1>7. TypeOK'
  BY <1>1, <1>2, <1>4, <1>6 DEF TypeOK
<1>8. RunOK(r)' /\ PlaceOK(r)'
  BY <1>1, <1>2, <1>3, <1>5, <1>6 DEF RunOK, PlaceOK, HasCandidates, Local
<1>9. \A x \in Run : RunOK(x)' /\ PlaceOK(x)'
  BY <1>2, <1>5, <1>6, <1>8, OthersKeep DEF HasCandidates
<1>10. PublishedHasData'
  <2>1. SUFFICES ASSUME NEW d \in Day, artifact'[d]["publish"] = "ok"
                 PROVE  HasCandidates(d) /\ artifact'[d]["compose"] # "absent"
    BY <1>2 DEF PublishedHasData, HasCandidates
  <2>2. CASE d = me.day /\ me.stage = "publish"
    BY <1>1, <1>3, <1>4, <1>5, <2>1, <2>2 DEF RunOK
  <2>3. CASE ~(d = me.day /\ me.stage = "publish")
    BY <1>1, <1>4, <1>5, <2>1, <2>3 DEF PublishedHasData, Stage
  <2>4. QED
    BY <2>2, <2>3
<1>11. TradesHaveData' /\ OutputsDescend'
  BY <1>1, <1>2 DEF TradesHaveData, OutputsDescend, HasCandidates
<1>12. Serial'
  <2>1. SUFFICES ASSUME ~revoked, NEW x \in running PROVE SerialOK(x)'
    BY <1>1, <1>2 DEF Serial
  <2>2. x = r /\ SerialOK(r)
    <3>1. r \in running
      BY <1>1, <1>2 DEF PlaceOK
    <3>2. QED
      BY <2>1, <3>1, Alone
  <2>3. QED
    BY <1>1, <1>2, <1>3, <1>4, <1>6, <2>2 DEF SerialOK, Dry, Local, Stage
<1>13. QED
  BY <1>7, <1>9, <1>10, <1>11, <1>12 DEF IInv

LEMMA RunLabStep == ASSUME IInv, NEW r \in Run, RunLab(r) PROVE IInv'
<1> DEFINE me == run[r]
<1>1. /\ me \in Local /\ run \in [Run -> Local] /\ RunOK(r) /\ PlaceOK(r)
      /\ TypeOK /\ PublishedHasData /\ TradesHaveData /\ Serial /\ OutputsDescend
  BY Mine DEF IInv
<1>2. PICK ok \in BOOLEAN :
         /\ me.pc = "lab"
         /\ traded' = traded \/ traded' = traded \union {me.day}
         /\ UNCHANGED <<rows, calendar, artifact, out, owner, running, revoked, starts, feeds>>
         /\ run' = [run EXCEPT ![r] = [me EXCEPT !.labOk = ok, !.pc = "outputs"]]
  BY <1>1 DEF RunLab, At, disk, lock, count
<1> DEFINE new == [me EXCEPT !.labOk = ok, !.pc = "outputs"]
<1>3. me.day \in Day /\ HasCandidates(me.day)
  BY <1>1, <1>2 DEF Local, RunOK
<1>4. /\ new \in Local /\ run' \in [Run -> Local] /\ run'[r] = new
      /\ \A x \in Run \ {r} : run'[x] = run[x]
  BY <1>1, <1>2 DEF Local, PC
<1>5. TypeOK'
  BY <1>1, <1>2, <1>3, <1>4 DEF TypeOK
<1>6. RunOK(r)' /\ PlaceOK(r)'
  BY <1>1, <1>2, <1>3, <1>4 DEF RunOK, PlaceOK, HasCandidates, Local
<1>7. \A x \in Run : RunOK(x)' /\ PlaceOK(x)'
  BY <1>2, <1>4, <1>6, OthersKeep DEF HasCandidates
<1>8. PublishedHasData' /\ OutputsDescend'
  BY <1>1, <1>2 DEF PublishedHasData, OutputsDescend, HasCandidates
<1>9. TradesHaveData'
  BY <1>1, <1>2, <1>3 DEF TradesHaveData, HasCandidates
<1>10. Serial'
  <2>1. SUFFICES ASSUME ~revoked, NEW x \in running PROVE SerialOK(x)'
    BY <1>1, <1>2 DEF Serial
  <2>2. x = r /\ SerialOK(r)
    <3>1. r \in running
      BY <1>1, <1>2 DEF PlaceOK
    <3>2. QED
      BY <2>1, <3>1, Alone
  <2>3. QED
    BY <1>1, <1>2, <1>4, <2>2 DEF SerialOK, Dry, Local
<1>11. QED
  BY <1>5, <1>7, <1>8, <1>9, <1>10 DEF IInv

LEMMA StartStep == ASSUME IInv, NEW r \in Run, Start(r) PROVE IInv'
<1> DEFINE me == run[r]
<1>1. /\ me \in Local /\ run \in [Run -> Local] /\ RunOK(r) /\ PlaceOK(r)
      /\ TypeOK /\ PublishedHasData /\ TradesHaveData /\ Serial /\ OutputsDescend
  BY Mine DEF IInv
<1>2. PICK k \in Kind, d \in Day :
         /\ owner = {} /\ r \notin running /\ owner' = {r} /\ running' = running \union {r}
         /\ starts < StartLimit /\ starts' = starts + 1
         /\ UNCHANGED <<rows, calendar, artifact, out, revoked, traded, feeds>>
         /\ run' = [run EXCEPT ![r] = [Fresh EXCEPT !.kind = k, !.day = d,
                                                    !.pc = "work", !.gen = starts + 1]]
  BY DEF Start, Lock!Grant, disk
<1> DEFINE new == [Fresh EXCEPT !.kind = k, !.day = d, !.pc = "work", !.gen = starts + 1]
<1>3. starts \in Nat /\ starts' \in 0 .. StartLimit
  BY <1>1, <1>2, DailyRunAssumption DEF TypeOK
<1>4. /\ new \in Local /\ run' \in [Run -> Local] /\ run'[r] = new
      /\ \A x \in Run \ {r} : run'[x] = run[x]
  <2>1. new \in Local
    <3>1. Fresh \in Local
      BY DailyRunAssumption DEF Fresh, Local, Kind, PC, Stage, Day
    <3>2. "work" \in PC /\ starts + 1 \in Nat
      BY <1>3 DEF PC
    <3>3. QED
      BY <1>2, <3>1, <3>2 DEF Local
  <2> HIDE DEF new
  <2>2. run' = [run EXCEPT ![r] = new]
    BY <1>2 DEF new
  <2>3. QED
    BY <1>1, <2>1, <2>2
<1>5. TypeOK'
  BY <1>1, <1>2, <1>3, <1>4 DEF TypeOK
<1>6. RunOK(r)' /\ PlaceOK(r)'
  BY <1>2, <1>4 DEF RunOK, PlaceOK, Fresh
<1>7. \A x \in Run : RunOK(x)' /\ PlaceOK(x)'
  BY <1>2, <1>4, <1>6, OthersKeep DEF HasCandidates
<1>8. PublishedHasData' /\ TradesHaveData' /\ OutputsDescend'
  BY <1>1, <1>2 DEF PublishedHasData, TradesHaveData, OutputsDescend, HasCandidates
<1>9. Serial'
  <2>1. SUFFICES ASSUME ~revoked
                 PROVE  /\ running' = owner'
                        /\ \A x, y \in running' : x = y
                        /\ \A x \in running' : SerialOK(x)'
                        /\ \A e \in Day, i \in File : out[e][i] <= starts + 1
    BY <1>2 DEF Serial
  <2>2. running' = {r} /\ owner' = {r}
    BY <1>1, <1>2, <2>1 DEF Serial
  <2>3. SerialOK(r)'
    BY <1>2, <1>4, DailyRunAssumption DEF SerialOK, Fresh, File
  <2>4. ASSUME NEW e \in Day, NEW i \in File PROVE out[e][i] <= starts + 1
    <3>1. out[e][i] \in Nat /\ out[e][i] <= starts
      BY <1>1, <2>1 DEF Serial, TypeOK
    <3>2. QED
      BY <1>3, <3>1
  <2>5. QED
    BY <2>2, <2>3, <2>4
<1>10. QED
  BY <1>5, <1>7, <1>8, <1>9 DEF IInv

LEMMA WriteOutputStep == ASSUME IInv, NEW r \in Run, WriteOutput(r) PROVE IInv'
<1> DEFINE me == run[r]
           new == [me EXCEPT !.written = me.written + 1]
<1>1. /\ me \in Local /\ run \in [Run -> Local] /\ RunOK(r) /\ PlaceOK(r)
      /\ TypeOK /\ PublishedHasData /\ TradesHaveData /\ Serial /\ OutputsDescend
  BY Mine DEF IInv
<1>2. /\ me.pc = "outputs" /\ me.written < FileCount
      /\ out' = [out EXCEPT ![me.day][me.written + 1] = me.gen]
      /\ UNCHANGED <<rows, calendar, artifact, owner, running, revoked, traded, starts, feeds>>
      /\ run' = [run EXCEPT ![r] = new]
  BY <1>1 DEF WriteOutput, OutputOrder, At, lock, count
<1>3. /\ me.day \in Day /\ me.written + 1 \in File /\ me.gen \in Nat
      /\ me.written \in Nat /\ me.written + 1 \in 0 .. FileCount
  BY <1>1, <1>2, DailyRunAssumption DEF Local, File
<1>4. /\ out' \in [Day -> [File -> Nat]]
      /\ out'[me.day][me.written + 1] = me.gen
      /\ \A d \in Day, i \in File :
            ~(d = me.day /\ i = me.written + 1) => out'[d][i] = out[d][i]
  BY <1>1, <1>2, <1>3 DEF TypeOK
<1>5. /\ new \in Local /\ run' \in [Run -> Local] /\ run'[r] = new
      /\ \A x \in Run \ {r} : run'[x] = run[x]
  BY <1>1, <1>2, <1>3 DEF Local
<1>6. TypeOK'
  BY <1>1, <1>2, <1>4, <1>5 DEF TypeOK
<1>7. RunOK(r)' /\ PlaceOK(r)'
  BY <1>1, <1>2, <1>5 DEF RunOK, PlaceOK, HasCandidates, Local
<1>8. \A x \in Run : RunOK(x)' /\ PlaceOK(x)'
  BY <1>2, <1>5, <1>7, OthersKeep DEF HasCandidates
<1>9. PublishedHasData' /\ TradesHaveData'
  BY <1>1, <1>2 DEF PublishedHasData, TradesHaveData, HasCandidates
<1>10. OutputsDescend' /\ Serial'
  <2>1. CASE revoked
    BY <1>2, <2>1 DEF OutputsDescend, Serial
  <2>2. CASE ~revoked
    <3>1. r \in running
      BY <1>1, <1>2 DEF PlaceOK
    <3>2. running = {r} /\ owner = {r} /\ SerialOK(r)
      BY <2>2, <3>1, Alone
    <3>3. /\ \A d \in Day, i \in File : out[d][i] <= starts /\ out[d][i] \in Nat
          /\ me.gen = starts
          /\ \A i \in File : i <= me.written => out[me.day][i] = me.gen
          /\ \A d \in Day : \A i, j \in File : i < j => out[d][i] >= out[d][j]
      BY <1>1, <2>2, <3>2 DEF Serial, SerialOK, OutputsDescend, TypeOK
    <3>4. \A d \in Day, i \in File : out'[d][i] <= starts
      BY <1>3, <1>4, <3>3
    <3>5. \A d \in Day : \A i, j \in File : i < j => out'[d][i] >= out'[d][j]
      <4>1. SUFFICES ASSUME NEW d \in Day, NEW i \in File, NEW j \in File, i < j
                     PROVE  out'[d][i] >= out'[d][j]
        OBVIOUS
      <4>2. CASE d # me.day
        BY <1>4, <3>3, <4>1, <4>2
      <4>3. CASE d = me.day /\ i = me.written + 1
        <5>1. j # me.written + 1
          BY <4>1, <4>3 DEF File
        <5>2. QED
          BY <1>3, <1>4, <3>3, <4>3, <5>1
      <4>4. CASE d = me.day /\ j = me.written + 1
        <5>1. i \in Nat /\ i <= me.written /\ i # me.written + 1
          BY <1>3, <4>1, <4>4 DEF File
        <5>2. QED
          BY <1>3, <1>4, <3>3, <4>4, <5>1
      <4>5. CASE d = me.day /\ i # me.written + 1 /\ j # me.written + 1
        BY <1>4, <3>3, <4>1, <4>5
      <4>6. QED
        BY <4>2, <4>3, <4>4, <4>5
    <3>6. SerialOK(r)'
      <4>1. \A i \in File : i <= me.written + 1 => out'[me.day][i] = me.gen
        BY <1>3, <1>4, <3>3 DEF File
      <4>2. QED
        BY <1>1, <1>2, <1>5, <3>2, <3>3, <4>1 DEF SerialOK, Dry, Local
    <3>7. QED
      BY <1>2, <3>2, <3>4, <3>5, <3>6 DEF OutputsDescend, Serial
  <2>3. QED
    BY <2>1, <2>2
<1>11. QED
  BY <1>6, <1>8, <1>9, <1>10 DEF IInv

\* A run leaves "running": while the lock has not been reclaimed, no other run
\* is under way then.
LEMMA LeavesNone ==
    ASSUME IInv, ~revoked, NEW r \in running, running' = running \ {r},
           owner' \subseteq owner \ {r}
    PROVE  running' = {} /\ owner' = {}
BY Alone

LEMMA ReleaseStep == ASSUME IInv, NEW r \in Run, Release(r) PROVE IInv'
<1> DEFINE me == run[r]
<1>1. /\ me \in Local /\ run \in [Run -> Local] /\ RunOK(r) /\ PlaceOK(r)
      /\ TypeOK /\ PublishedHasData /\ TradesHaveData /\ Serial /\ OutputsDescend
  BY Mine DEF IInv
<1>2. /\ me.pc = "release" /\ r \in running /\ running' = running \ {r} /\ owner' = {}
      /\ UNCHANGED <<rows, calendar, artifact, out, revoked, traded, starts, feeds>>
      /\ \/ run' = [run EXCEPT ![r] = [me EXCEPT !.pc = "materialise"]]
         \/ run' = [run EXCEPT ![r] = Fresh]
  BY <1>1 DEF Release, Lock!End, At, disk, count
<1>3. /\ run' \in [Run -> Local] /\ \A x \in Run \ {r} : run'[x] = run[x]
      /\ run'[r] = Fresh \/ run'[r] = [me EXCEPT !.pc = "materialise"]
  <2>1. Fresh \in Local /\ [me EXCEPT !.pc = "materialise"] \in Local
    BY <1>1, DailyRunAssumption DEF Fresh, Local, Kind, PC, Stage, Day
  <2>2. QED
    BY <1>1, <1>2, <2>1
<1>4. TypeOK'
  BY <1>1, <1>2, <1>3 DEF TypeOK
<1>5. RunOK(r)' /\ PlaceOK(r)'
  BY <1>1, <1>2, <1>3 DEF RunOK, PlaceOK, HasCandidates, Local, Fresh
<1>6. \A x \in Run : RunOK(x)' /\ PlaceOK(x)'
  BY <1>2, <1>3, <1>5, OthersKeep DEF HasCandidates
<1>7. PublishedHasData' /\ TradesHaveData' /\ OutputsDescend'
  BY <1>1, <1>2 DEF PublishedHasData, TradesHaveData, OutputsDescend, HasCandidates
<1>8. Serial'
  BY <1>1, <1>2, LeavesNone DEF Serial
<1>9. QED
  BY <1>4, <1>6, <1>7, <1>8 DEF IInv

LEMMA MaterialiseStep == ASSUME IInv, NEW r \in Run, Materialise(r) PROVE IInv'
<1> DEFINE me == run[r]
<1>1. /\ me \in Local /\ run \in [Run -> Local] /\ RunOK(r) /\ PlaceOK(r)
      /\ TypeOK /\ PublishedHasData /\ TradesHaveData /\ Serial /\ OutputsDescend
  BY Mine DEF IInv
<1>2. /\ me.pc = "materialise" /\ r \notin running
      /\ traded' = IF me.labOk /\ artifact[me.day]["publish"] = "ok"
                   THEN traded \union {me.day} ELSE traded
      /\ UNCHANGED <<rows, calendar, artifact, out, owner, running, revoked, starts, feeds>>
      /\ run' = [run EXCEPT ![r] = Fresh]
  BY <1>1 DEF Materialise, At, PlaceOK, disk, lock, count
<1>3. Fresh \in Local
  BY DailyRunAssumption DEF Fresh, Local, Kind, PC, Stage, Day
<1>4. /\ run' \in [Run -> Local] /\ \A x \in Run \ {r} : run'[x] = run[x]
      /\ run'[r] = Fresh /\ me.day \in Day
  BY <1>1, <1>2, <1>3 DEF Local
<1>5. TypeOK'
  BY <1>1, <1>2, <1>4 DEF TypeOK
<1>6. RunOK(r)' /\ PlaceOK(r)'
  BY <1>2, <1>4 DEF RunOK, PlaceOK, Fresh
<1>7. \A x \in Run : RunOK(x)' /\ PlaceOK(x)'
  BY <1>2, <1>4, <1>6, OthersKeep DEF HasCandidates
<1>8. PublishedHasData' /\ OutputsDescend'
  BY <1>1, <1>2 DEF PublishedHasData, OutputsDescend, HasCandidates
<1>9. TradesHaveData'
  BY <1>1, <1>2, <1>4 DEF TradesHaveData, PublishedHasData, HasCandidates
<1>10. Serial'
  <2>1. SUFFICES ASSUME ~revoked, NEW x \in running PROVE SerialOK(x)'
    BY <1>1, <1>2 DEF Serial
  <2>2. x \in Run /\ x # r /\ SerialOK(x)
    BY <1>1, <1>2, <2>1 DEF Serial, TypeOK
  <2>3. QED
    BY <1>2, <1>4, <2>2 DEF SerialOK, Dry
<1>11. QED
  BY <1>5, <1>7, <1>8, <1>9, <1>10 DEF IInv

LEMMA CrashStep == ASSUME IInv, NEW r \in Run, Crash(r) PROVE IInv'
<1> DEFINE me == run[r]
<1>1. /\ me \in Local /\ run \in [Run -> Local] /\ RunOK(r) /\ PlaceOK(r)
      /\ TypeOK /\ PublishedHasData /\ TradesHaveData /\ Serial /\ OutputsDescend
  BY Mine DEF IInv
<1>2. /\ r \in running /\ running' = running \ {r} /\ owner' = owner \ {r}
      /\ artifact' = artifact \/ artifact' = [artifact EXCEPT ![me.day][me.stage] = "torn"]
      /\ UNCHANGED <<rows, calendar, out, revoked, traded, starts, feeds>>
      /\ run' = [run EXCEPT ![r] = Fresh]
  BY <1>1 DEF Crash, Lock!End, count
<1>3. Fresh \in Local
  BY DailyRunAssumption DEF Fresh, Local, Kind, PC, Stage, Day
<1>4. /\ run' \in [Run -> Local] /\ \A x \in Run \ {r} : run'[x] = run[x]
      /\ run'[r] = Fresh /\ me.day \in Day /\ me.stage \in Stage
  BY <1>1, <1>2, <1>3 DEF Local
<1>5. /\ artifact' \in [Day -> [Stage -> FileStatus]]
      /\ \A d \in Day, s \in Stage : artifact'[d][s] \in {artifact[d][s], "torn"}
  <2>1. artifact \in [Day -> [Stage -> FileStatus]] /\ "torn" \in FileStatus
    BY <1>1 DEF TypeOK, FileStatus
  <2>2. CASE artifact' = artifact
    BY <2>1, <2>2
  <2>3. CASE artifact' = [artifact EXCEPT ![me.day][me.stage] = "torn"]
    BY <1>4, <2>1, <2>3
  <2>4. QED
    BY <1>2, <2>2, <2>3
<1>6. TypeOK'
  BY <1>1, <1>2, <1>4, <1>5 DEF TypeOK
<1>7. RunOK(r)' /\ PlaceOK(r)'
  BY <1>2, <1>4 DEF RunOK, PlaceOK, Fresh
<1>8. \A d \in Day : artifact[d]["compose"] # "absent" => artifact'[d]["compose"] # "absent"
  BY <1>5 DEF Stage
<1>9. \A x \in Run : RunOK(x)' /\ PlaceOK(x)'
  BY <1>2, <1>4, <1>7, <1>8, OthersKeep DEF HasCandidates
<1>10. PublishedHasData'
  <2>1. \A d \in Day : artifact'[d]["publish"] = "ok" => artifact[d]["publish"] = "ok"
    BY <1>5 DEF Stage
  <2>2. QED
    BY <1>1, <1>2, <1>8, <2>1 DEF PublishedHasData, HasCandidates
<1>11. TradesHaveData' /\ OutputsDescend'
  BY <1>1, <1>2 DEF TradesHaveData, OutputsDescend, HasCandidates
<1>12. Serial'
  BY <1>1, <1>2, LeavesNone DEF Serial
<1>13. QED
  BY <1>6, <1>9, <1>10, <1>11, <1>12 DEF IInv

\* The steps of clients, feeds and reclaimers.
LEMMA OutsideStep ==
    ASSUME IInv, RequestLab \/ Revoke \/ Feed
    PROVE  /\ IInv'
           /\ \A d \in Day, c \in Code : rows[d][c] = "share" => rows'[d][c] = "share"
<1>1. /\ TypeOK /\ PublishedHasData /\ TradesHaveData /\ Serial /\ OutputsDescend
      /\ \A x \in Run : RunOK(x) /\ PlaceOK(x)
  BY DEF IInv
<1>2. /\ UNCHANGED <<calendar, artifact, out, running, run, starts>>
      /\ \/ revoked' = revoked /\ owner' = owner
         \/ revoked' = TRUE /\ owner' = {}
  BY DEF RequestLab, Revoke, Feed, Lock!Revoke, disk, lock, count
<1>3. /\ rows' \in Price /\ feeds' \in 0 .. FeedLimit
      /\ \A d \in Day, c \in Code :
            /\ rows[d][c] = "share" => rows'[d][c] = "share"
            /\ rows[d][c] # "none" => rows'[d][c] # "none"
  <2>1. CASE rows' = rows /\ feeds' = feeds
    BY <1>1, <2>1 DEF TypeOK
  <2>2. CASE Feed
    <3>1. PICK d \in Day, c \in Code, u \in {"lot", "share"} :
             /\ rows[d][c] = "none" \/ u = "share"
             /\ rows' = [rows EXCEPT ![d][c] = u]
             /\ feeds < FeedLimit /\ feeds' = feeds + 1
      BY <2>2 DEF Feed
    <3>2. QED
      BY <1>1, <3>1, DailyRunAssumption DEF TypeOK, Price, Unit
  <2>3. QED
    BY <2>1, <2>2 DEF RequestLab, Revoke, count
<1>4. \A d \in Day : HasCandidates(d) => HasCandidates(d)'
  BY <1>3, DailyRunAssumption DEF HasCandidates
<1>5. traded' \subseteq Day /\ \A d \in traded' : d \in traded \/ artifact[d]["publish"] = "ok"
  BY <1>1 DEF RequestLab, Revoke, Feed, TypeOK
<1>6. TypeOK'
  BY <1>1, <1>2, <1>3, <1>5 DEF TypeOK
<1>7. \A x \in Run : RunOK(x)' /\ PlaceOK(x)'
  BY <1>2, <1>4, OthersKeep
<1>8. PublishedHasData' /\ TradesHaveData' /\ OutputsDescend'
  BY <1>1, <1>2, <1>4, <1>5 DEF PublishedHasData, TradesHaveData, OutputsDescend, TypeOK
<1>9. Serial'
  BY <1>1, <1>2 DEF Serial, SerialOK, Dry
<1>10. QED
  BY <1>3, <1>6, <1>7, <1>8, <1>9 DEF IInv

\* Every step keeps the invariant and leaves shares in shares.
LEMMA NextInv ==
    ASSUME IInv, [Next]_vars
    PROVE  /\ IInv'
           /\ \A d \in Day, c \in Code : rows[d][c] = "share" => rows'[d][c] = "share"
<1>1. CASE UNCHANGED vars
  <2>1. UNCHANGED <<rows, calendar, artifact, out, owner, running, revoked, run,
                    starts, feeds, traded>>
    BY <1>1 DEF vars, disk, lock, count
  <2>2. QED
    BY <2>1 DEF IInv, TypeOK, RunOK, PlaceOK, PublishedHasData, TradesHaveData,
                Serial, SerialOK, OutputsDescend, HasCandidates, Dry
<1>2. ASSUME NEW r \in Run, StageStep(r)
      PROVE  /\ IInv'
             /\ \A d \in Day, c \in Code : rows[d][c] = "share" => rows'[d][c] = "share"
  <2>1. CASE Normalise(r)
    BY <2>1, NormaliseStep
  <2>2. CASE \/ CheckDay(r) \/ Validate(r) \/ Revalidate(r) \/ Query(r) \/ Prerequisites(r)
             \/ WriteLedger(r) \/ SkipWrites(r) \/ WriteFails(r) \/ NextStage(r)
             \/ OpenGate(r) \/ BlockRest(r)
    <3>1. IInv'
      BY <2>2, ThinkSteps
    <3>2. rows' = rows
      BY <2>2 DEF CheckDay, Validate, Revalidate, Query, Prerequisites, WriteLedger,
                  SkipWrites, WriteFails, NextStage, OpenGate, BlockRest, Think
    <3>3. QED
      BY <3>1, <3>2
  <2>3. CASE RebuildCalendar(r)
    BY <2>3, RebuildStep DEF RebuildCalendar
  <2>4. CASE WriteArtifact(r)
    BY <2>4, WriteArtifactStep DEF WriteArtifact
  <2>5. CASE RunLab(r)
    BY <2>5, RunLabStep DEF RunLab
  <2>6. QED
    BY <1>2, <2>1, <2>2, <2>3, <2>4, <2>5 DEF StageStep
<1>3. ASSUME NEW r \in Run, FrameStep(r)
      PROVE  /\ IInv'
             /\ \A d \in Day, c \in Code : rows[d][c] = "share" => rows'[d][c] = "share"
  <2>1. IInv'
    BY <1>3, ThinkSteps, StartStep, WriteOutputStep, ReleaseStep, MaterialiseStep, CrashStep
       DEF FrameStep
  <2>2. rows' = rows
    BY <1>3 DEF FrameStep, Start, WriteOutput, EndOutputs, Release, Materialise, Crash
  <2>3. QED
    BY <2>1, <2>2
<1>4. CASE RequestLab \/ Revoke \/ Feed
  BY <1>4, OutsideStep
<1>5. QED
  BY <1>1, <1>2, <1>3, <1>4 DEF Next

LEMMA SpecInv == Spec => []IInv
<1>1. IInv /\ [Next]_vars => IInv'
  BY NextInv
<1>2. QED
  BY InitInv, <1>1, PTL DEF Spec

\* The variables keep their types, for any number of runs, days and codes.
THEOREM DailyRunType == Spec => []TypeOK
<1>1. IInv => TypeOK
  BY DEF IInv
<1>2. QED
  BY <1>1, SpecInv, PTL

\* publish checks only that files exist, but a publication that says ok always
\* stands for a day with candidates.
THEOREM PublicationBacked == Spec => []PublishedHasData
<1>1. IInv => PublishedHasData
  BY DEF IInv
<1>2. QED
  BY <1>1, SpecInv, PTL

\* Whoever has the gated lab run, it trades only on days with candidates.
THEOREM TradesBacked == Spec => []TradesHaveData
<1>1. IInv => TradesHaveData
  BY DEF IInv
<1>2. QED
  BY <1>1, SpecInv, PTL

\* While runs exclude each other, the lab behind the gate finds the artifacts of
\* its own run on disk.
THEOREM GateOpensOnArtifacts == Spec => []LabReadsPublication
<1>1. IInv => LabReadsPublication
  <2>1. SUFFICES ASSUME IInv, ~revoked, NEW r \in running, At(r, "lab"), ~Dry(r),
                        NEW s \in Stage
                 PROVE  artifact[run[r].day][s] = "ok"
    BY DEF LabReadsPublication
  <2>2. SerialOK(r) /\ RunOK(r)
    BY <2>1 DEF IInv, Serial, TypeOK
  <2>3. QED
    BY <2>1, <2>2 DEF SerialOK, RunOK, At, Stage
<1>2. QED
  BY <1>1, SpecInv, PTL

\* write_outputs leaves no file older than the ones after it, whatever run dies
\* in between, as long as runs exclude each other.
THEOREM SummaryIsLast == Spec => []OutputsDescend
<1>1. IInv => OutputsDescend
  BY DEF IInv
<1>2. QED
  BY <1>1, SpecInv, PTL

\* No volume is multiplied twice.
THEOREM RepairOnce == Spec => SharesStay
<1>1. IInv /\ [Next]_vars =>
        [\A d \in Day, c \in Code : rows[d][c] = "share" => rows'[d][c] = "share"]_vars
  BY NextInv
<1>2. QED
  BY <1>1, SpecInv, PTL DEF Spec, SharesStay
=============================================================================
