------------------------------ MODULE RunPlan ------------------------------
(***************************************************************************)
(* One run of the orchestrator's plan: build_run_plan, build_on_demand_plan*)
(* and execute_run_plan of DailyMasterOrchestrator                         *)
(* (neotrade3/orchestration/daily_master_orchestrator.py), and what        *)
(* BootstrapWorkerApp._run_inner does around them (apps/worker/main.py):   *)
(* _build_execution_run_plan, _effective_publish_succeeded and             *)
(* _build_execution_run_ledger.                                            *)
(*                                                                         *)
(* A task is its position in the configuration, which is the order of      *)
(* execution.  The configuration is chosen once and never changes, so that *)
(* one specification covers every task graph the loader accepts.           *)
(***************************************************************************)
EXTENDS Naturals, FiniteSets

CONSTANTS
    N,          \* number of configured tasks
    Publish,    \* the position of data_control.publish
    Configs     \* the orchestrator configurations considered

Task == 1 .. N

\* deps: depends_on; refs: the from_task names of dynamic arguments; gated:
\* requires_publish_status; labOff: tasks of labs the registry does not enable;
\* noExecutor: tasks whose phase has no executor.
Config == [deps : [Task -> SUBSET Task], refs : [Task -> SUBSET Task],
           gated : SUBSET Task, labOff : SUBSET Task, noExecutor : SUBSET Task]

\* validate_orchestrator_config: dependencies are known tasks, never the task
\* itself; no order or absence of cycles is required.  The shipped
\* configuration makes every gated task depend on data_control.publish.
ASSUME ConfigAssumption ==
    /\ N \in Nat \ {0}
    /\ Publish \in Task
    /\ Configs \subseteq Config
    /\ \A c \in Configs :
          /\ \A t \in Task : t \notin c.deps[t]
          /\ \A t \in c.gated : Publish \in c.deps[t]

VARIABLES
    config,     \* the configuration of this run
    requested,  \* publish_succeeded of the request
    phase,      \* "request", "planned", "execute" or "closed"
    plan,       \* plan[t]: status in the run plan ("none" before planning)
    next,       \* the task execute_run_plan looks at
    result,     \* result[t]: status of t's result, "none" before
    completed,  \* the keys of completed_tasks
    detailed,   \* tasks whose result carries the details others refer to
    ran,        \* history: tasks whose executor was called
    ledger      \* the run ledger entry: run status and publish flag

planVars == <<config, requested, phase, plan, next, result, completed,
              detailed, ran, ledger>>

ResultStatus == {"ok", "failed", "skipped", "blocked", "pending_implementation"}

NoLedger == [status |-> "none", published |-> FALSE]

\* Type invariant of the configuration, the plan and the results.
TypeOK ==
    /\ config \in Configs
    /\ requested \in BOOLEAN
    /\ phase \in {"request", "planned", "execute", "closed"}
    /\ plan \in [Task -> {"none", "planned", "blocked", "skipped"}]
    /\ next \in 1 .. N + 1
    /\ result \in [Task -> ResultStatus \union {"none"}]
    /\ completed \subseteq Task
    /\ detailed \subseteq Task
    /\ ran \subseteq Task
    /\ ledger \in [status : ResultStatus \union {"none"}, published : BOOLEAN]

Init ==
    /\ config \in Configs
    /\ requested \in BOOLEAN
    /\ phase = "request"
    /\ plan = [t \in Task |-> "none"]
    /\ next = 1
    /\ result = [t \in Task |-> "none"]
    /\ completed = {}
    /\ detailed = {}
    /\ ran = {}
    /\ ledger = NoLedger

-----------------------------------------------------------------------------
(* Planning *)

PlannedStatus(t) ==
    IF t \in config.labOff THEN "skipped"
    ELSE IF t \in config.gated /\ ~requested THEN "blocked"
    ELSE "planned"

BuildRunPlan ==
    /\ phase = "request"
    /\ phase' = "planned"
    /\ plan' = [t \in Task |-> PlannedStatus(t)]
    /\ UNCHANGED <<config, requested, next, result, completed, detailed, ran, ledger>>

\* Faulty variant: the plan is executed as it was built.
BuildExecutionRunPlan_Kept ==
    /\ phase = "planned"
    /\ phase' = "execute"
    /\ UNCHANGED <<config, requested, plan, next, result, completed, detailed, ran, ledger>>

\* _build_execution_run_plan: what the request said about publish is dropped;
\* the gate is left to the dependencies.
BuildExecutionRunPlan ==
    /\ phase = "planned"
    /\ phase' = "execute"
    /\ plan' = [t \in Task |->
                  IF t \in config.gated /\ plan[t] = "blocked" THEN "planned" ELSE plan[t]]
    /\ UNCHANGED <<config, requested, next, result, completed, detailed, ran, ledger>>

\* The governance tasks requested on demand: every task is planned, whatever the
\* labs and the publish flag say.
BuildOnDemandPlan ==
    /\ phase = "request"
    /\ phase' = "execute"
    /\ plan' = [t \in Task |-> "planned"]
    /\ UNCHANGED <<config, requested, next, result, completed, detailed, ran, ledger>>

-----------------------------------------------------------------------------
(* execute_run_plan: one pass over the planned tasks, each action the body *)
(* of the loop for task "next"                                             *)

\* The loop stands at task t, and the plan wants it executed.
Turn(t) == phase = "execute" /\ t = next /\ plan[t] = "planned"

\* A result is appended; the loop goes on.
Record(t, status) ==
    /\ result' = [result EXCEPT ![t] = status]
    /\ next' = next + 1
    /\ UNCHANGED <<config, requested, phase, plan, ledger>>

Complete(t) == completed' = completed \union {t}

DepsReported(t) == config.deps[t] \subseteq completed
DepsOk(t) == \A d \in config.deps[t] : result[d] = "ok"

\* SKIPPED or BLOCKED was decided during planning.
Predetermined(t) ==
    /\ phase = "execute"
    /\ t = next
    /\ plan[t] \in {"skipped", "blocked"}
    /\ Record(t, plan[t])
    /\ Complete(t)
    /\ UNCHANGED <<detailed, ran>>

\* A dependency has no entry in completed_tasks: it stands later in the
\* configuration, or had no executor.
BlockIncomplete(t) ==
    /\ Turn(t)
    /\ ~DepsReported(t)
    /\ Record(t, "blocked")
    /\ Complete(t)
    /\ UNCHANGED <<detailed, ran>>

BlockNonOk(t) ==
    /\ Turn(t)
    /\ DepsReported(t)
    /\ ~DepsOk(t)
    /\ Record(t, "blocked")
    /\ Complete(t)
    /\ UNCHANGED <<detailed, ran>>

Ready(t) == Turn(t) /\ DepsReported(t) /\ DepsOk(t)

\* No executor for the phase: a result, but no entry in completed_tasks.
NoExecutor(t) ==
    /\ Ready(t)
    /\ t \in config.noExecutor
    /\ Record(t, "pending_implementation")
    /\ UNCHANGED <<completed, detailed, ran>>

\* _resolve_task_args_template: a dynamic argument names a declared dependency
\* whose result has the detail.
Resolvable(t) == \A d \in config.refs[t] : d \in config.deps[t] /\ d \in detailed

ArgsUnresolved(t) ==
    /\ Ready(t)
    /\ t \notin config.noExecutor
    /\ ~Resolvable(t)
    /\ Record(t, "failed")
    /\ Complete(t)
    /\ UNCHANGED <<detailed, ran>>

\* Faulty variant: the dependencies are looked up but their status is not.
Execute_AnyStatus(t, status, withDetails) ==
    /\ Turn(t)
    /\ DepsReported(t)
    /\ t \notin config.noExecutor
    /\ Resolvable(t)
    /\ Record(t, status)
    /\ Complete(t)
    /\ ran' = ran \union {t}
    /\ detailed' = IF withDetails THEN detailed \union {t} ELSE detailed

\* Faulty variant: a failed task is tried again on the spot.
Execute_Retry(t, status, withDetails) ==
    /\ Ready(t)
    /\ t \notin config.noExecutor
    /\ Resolvable(t)
    /\ result' = [result EXCEPT ![t] = status]
    /\ next' = IF status = "failed" THEN next ELSE next + 1
    /\ UNCHANGED <<config, requested, phase, plan, ledger>>
    /\ Complete(t)
    /\ ran' = ran \union {t}
    /\ detailed' = IF withDetails THEN detailed \union {t} ELSE detailed

\* The executor is called; it returns a result, or raises, which is a failure
\* without details.
Execute(t, status, withDetails) ==
    /\ Ready(t)
    /\ t \notin config.noExecutor
    /\ Resolvable(t)
    /\ Record(t, status)
    /\ Complete(t)
    /\ ran' = ran \union {t}
    /\ detailed' = IF withDetails THEN detailed \union {t} ELSE detailed

-----------------------------------------------------------------------------
(* After the loop *)

\* Faulty variant: a skipped task is looked for before a failed one.
RunStatus_SkippedFirst(r) ==
    LET Some(s) == \E t \in Task : r[t] = s IN
    IF Some("skipped") THEN "skipped"
    ELSE IF Some("failed") THEN "failed"
    ELSE IF Some("blocked") THEN "blocked" ELSE "ok"

RunStatus(r) ==
    LET Some(s) == \E t \in Task : r[t] = s IN
    IF Some("failed") THEN "failed"
    ELSE IF Some("blocked") THEN "blocked"
    ELSE IF Some("skipped") THEN "skipped"
    ELSE IF Some("pending_implementation") THEN "pending_implementation"
    ELSE "ok"

\* Faulty variant: the request's word on publish is taken over.
EffectivePublish_Requested == requested \/ result[Publish] = "ok"

\* _effective_publish_succeeded
EffectivePublish == result[Publish] = "ok"

CloseRun ==
    /\ phase = "execute"
    /\ next = N + 1
    /\ phase' = "closed"
    /\ ledger' = [status |-> RunStatus(result), published |-> EffectivePublish]
    /\ UNCHANGED <<config, requested, plan, next, result, completed, detailed, ran>>

\* Withheld or run, task t is dealt with.
Deal(t) ==
    \/ Predetermined(t)
    \/ BlockIncomplete(t)
    \/ BlockNonOk(t)
    \/ NoExecutor(t)
    \/ ArgsUnresolved(t)
    \/ \E status \in ResultStatus \ {"blocked"}, withDetails \in BOOLEAN :
          Execute(t, status, withDetails)

Next ==
    \/ BuildRunPlan
    \/ BuildExecutionRunPlan
    \/ BuildOnDemandPlan
    \/ \E t \in Task : Deal(t)
    \/ CloseRun

Spec == Init /\ [][Next]_planVars

-----------------------------------------------------------------------------
(* Properties *)

\* A task whose executor was called found its dependencies carried out before it
\* in this same run, with result OK.
RanOnOkDependencies ==
    \A t \in ran : \A d \in config.deps[t] :
        d \in ran /\ result[d] = "ok" /\ d < t

\* The dependencies of t, and theirs, and so on: what is in every set that holds
\* those of t and of its own members.
Ancestors(t) ==
    {d \in Task : \A S \in SUBSET Task :
        config.deps[t] \subseteq S /\ (\A e \in S : config.deps[e] \subseteq S) => d \in S}

\* execute_run_plan looks at the direct dependencies only, and the loader asks for
\* no order and accepts cycles; nevertheless whatever a task depends on at any
\* remove was carried out before it, with result OK, and no executor is called for
\* a task on a cycle, or behind one.
RanOnOkAncestors ==
    \A t \in ran : \A d \in Ancestors(t) : d \in ran /\ result[d] = "ok" /\ d < t

\* The publish gate.  A gated task runs only in a run whose own publish ended OK,
\* whatever the request claimed, and then the snapshot says so; and what the
\* request claimed keeps no gated task back: it is blocked only by a dependency.
GateFollowsThisRunsPublish ==
    /\ \A t \in ran \intersect config.gated :
          result[Publish] = "ok" /\ (phase = "closed" => ledger.published)
    /\ phase = "closed" /\ ledger.published => Publish \in ran

\* A task that was blocked has a cause: a dependency that stands later in the
\* configuration or did not end OK.  Nothing is blocked by a task it does not
\* depend on, by a failure elsewhere or by the request.
BlockedHasCause ==
    \A t \in Task : result[t] = "blocked" =>
        \E d \in config.deps[t] : t < d \/ result[d] # "ok"

\* The run ledger tells the worst: it says OK only if every task of the
\* configuration was carried out and ended OK, it says FAILED exactly if some task
\* failed, and it hides no blocked task behind a skipped or pending one.
LedgerTellsTheWorst ==
    phase = "closed" =>
        /\ ledger.status = "ok" => ran = Task /\ \A t \in Task : result[t] = "ok"
        /\ (\E t \in Task : result[t] = "failed") <=> ledger.status = "failed"
        /\ ledger.status \in {"skipped", "pending_implementation"} =>
              \A t \in Task : result[t] # "blocked"

-----------------------------------------------------------------------------
(* Refinement *)

\* The run implements the abstract evaluation of the dependency graph: one
\* conclusion per task, carried out only on good dependencies, withheld only for
\* a lab that is off or a dependency that has not ended well.
Dag == INSTANCE DagRun WITH
    graph <- config.deps,
    disabled <- config.labOff,
    outcome <- [t \in Task |-> IF result[t] = "none" THEN "waiting"
                               ELSE IF result[t] = "ok" THEN "good" ELSE "bad"]

ImplementsDagRun == Dag!DagSpec
=============================================================================
