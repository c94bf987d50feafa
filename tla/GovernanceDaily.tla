--------------------------- MODULE GovernanceDaily ---------------------------
(***************************************************************************)
(* The governance tasks of the daily plan                                  *)
(* (config/orchestrator/daily_master_orchestrator.json):                   *)
(* governance.materialize_handoff, governance.candidate_outcome_bridge and *)
(* governance.final_validation_selection, each depending on the one before *)
(* it, run day after day for one benchmark run, while other actors submit  *)
(* outcomes and reject executions and any of them may die.  The task       *)
(* before these, benchmark.materialize_run, is no step of the plan here:   *)
(* MaterializeBenchmark replaces the benchmark's data as a whole, at any   *)
(* moment.                                                                 *)
(***************************************************************************)
EXTENDS Governance

CONSTANTS Daily,    \* the actor that runs the daily plan
          Run       \* the benchmark run the configuration names

ASSUME DailyAssumption == Daily \in Actor /\ Run \in Source

VARIABLE turn       \* the daily task that is next, or under way

dailyVars == <<batch, artifact, ledger, job, recorded, begun, crashes, turn>>

DailyInit == Init /\ turn = "handoff"

\* The executor of the task whose turn it is.
Execute ==
    \/ turn = "handoff" /\ MaterializeHandoff(Daily, Run)
    \/ turn = "bridge" /\ Bridge(Daily, Run)
    \/ turn = "selection" /\ Select(Daily, Run, FALSE)

StartTask == Execute /\ begun' = begun /\ turn' = turn

\* The executor of that task raises at once.
Raises ==
    \/ turn = "handoff" /\ batch[Run] = Absent
    \/ turn = "bridge" /\ \A v \in Validation : ~Producible(Run, v)
    \/ turn = "selection" /\ ~Whole(artifact["handoff"][Run])

\* An ended task hands over to the next one; a failed one blocks the rest of the
\* day's tasks.
NextTask == CASE turn = "handoff" -> "bridge"
              [] turn = "bridge" -> "selection"
              [] turn = "selection" -> "handoff"

FailTask ==
    /\ job[Daily] = Idle
    /\ Raises
    /\ turn' = "handoff"
    /\ UNCHANGED vars

RunTask ==
    /\ Read(Daily) \/ Write(Daily)
    /\ turn' = IF job'[Daily] # Idle THEN turn
               ELSE IF job[Daily].at = "fill_ledger" THEN NextTask
               ELSE "handoff"

DailyDies == Crash(Daily) /\ turn' = "handoff"

Others ==
    /\ \E a \in Actor \ {Daily} : Request(a) \/ Read(a) \/ Write(a) \/ Crash(a)
    /\ turn' = turn

DailyStep == StartTask \/ FailTask \/ RunTask

DailyNext == DailyStep \/ DailyDies \/ Others

\* launchd starts the plan every day, and the plan runs to its end unless the
\* process dies; nothing is assumed of the other actors, who may stop anywhere.
DailySpec == DailyInit /\ [][DailyNext]_dailyVars /\ WF_dailyVars(DailyStep)

-----------------------------------------------------------------------------
\* The day's truth is on disk: the bridge's outcome and the final selection, each
\* in its artifact and its ledger entry.
Settled ==
    \E v \in Validation :
        /\ artifact["candidate"][v] = Result(Run, v, "rejected")
        /\ ledger["candidate"][v] = Result(Run, v, "rejected")
        /\ artifact["final"][Run] = Result(Run, v, "rejected")
        /\ ledger["final"][Run] = Result(Run, v, "rejected")

\* Whatever half-written files crashes left and whatever outcome others submitted
\* for it, a benchmark run with one breaching sample gets its final selection again
\* and again: repeating the daily chain repairs every partial failure.
DailySettles == batch[Run] # Absent => []<>Settled
=============================================================================
