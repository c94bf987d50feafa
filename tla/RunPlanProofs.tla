--------------------------- MODULE RunPlanProofs ---------------------------
(***************************************************************************)
(* Proofs about RunPlan, for every configuration the loader accepts.       *)
(***************************************************************************)
EXTENDS RunPlan, TLAPS

\* The loop's position splits the tasks: those before it have a result, those
\* from it on have none and no executor was called for them.
PassInv ==
    \A t \in Task :
        /\ t < next => result[t] # "none"
        /\ t >= next => result[t] = "none" /\ t \notin ran /\ t \notin completed

\* Before the execution nothing has a result; what a plan withholds it withholds
\* for its lab, once the publish gate has been taken out of it.
PlanInv ==
    /\ phase \in {"request", "planned"} => next = 1
    /\ phase = "planned" => \A t \in Task :
          plan[t] = "planned" \/ (plan[t] = "skipped" /\ t \in config.labOff)
                              \/ (plan[t] = "blocked" /\ t \in config.gated)
    /\ phase \in {"execute", "closed"} => \A t \in Task :
          plan[t] = "planned" \/ (plan[t] = "skipped" /\ t \in config.labOff)

\* Only an executor ends a task OK, and then the task is completed.
OkInv == \A t \in Task : result[t] = "ok" => t \in ran /\ t \in completed

LedgerInv ==
    phase = "closed" =>
        /\ next = N + 1
        /\ ledger = [status |-> RunStatus(result), published |-> EffectivePublish]

IInv == TypeOK /\ PassInv /\ PlanInv /\ OkInv /\ LedgerInv
        /\ RanOnOkDependencies /\ BlockedHasCause

\* What the constants say about the configuration of a run.
LEMMA ConfigFacts ==
    ASSUME TypeOK
    PROVE  /\ N \in Nat \ {0}
           /\ Publish \in Task
           /\ config.deps \in [Task -> SUBSET Task]
           /\ \A t \in Task : t \notin config.deps[t]
           /\ \A t \in config.gated : t \in Task /\ Publish \in config.deps[t]
  BY ConfigAssumption DEF TypeOK, Config

LEMMA InitIInv == Init => IInv
  <1> SUFFICES ASSUME Init PROVE IInv
    OBVIOUS
  <1>0. N \in Nat \ {0}
    BY ConfigAssumption
  <1>1. TypeOK
    BY <1>0 DEF Init, TypeOK, NoLedger
  <1>2. PassInv /\ PlanInv /\ OkInv /\ LedgerInv
    BY <1>0 DEF Init, PassInv, PlanInv, OkInv, LedgerInv, Task
  <1>3. RanOnOkDependencies /\ BlockedHasCause
    BY DEF Init, RanOnOkDependencies, BlockedHasCause
  <1> QED
    BY <1>1, <1>2, <1>3 DEF IInv

\* Recording a result for the task at the loop's position keeps every part of
\* the invariant that does not ask why.  "inCompleted" and "called" say whether
\* the task enters completed_tasks and whether its executor was called.
LEMMA RecordStep ==
    ASSUME IInv, NEW t \in Task, NEW status \in ResultStatus,
           phase = "execute", t = next, Record(t, status),
           ran' = ran \/ (ran' = ran \union {t} /\ DepsOk(t) /\ DepsReported(t)),
           completed' = completed \/ completed' = completed \union {t},
           status = "ok" => t \in ran' /\ t \in completed',
           status = "blocked" =>
               \E d \in config.deps[t] : t < d \/ result[d] # "ok",
           detailed' \subseteq Task
    PROVE  IInv'
  <1> USE DEF IInv
  <1>0. /\ N \in Nat \ {0}
        /\ config.deps \in [Task -> SUBSET Task]
        /\ \A u \in Task : u \notin config.deps[u]
    BY ConfigFacts
  <1>1. /\ next \in Nat /\ t \in Nat /\ next' = next + 1 /\ result[t] = "none"
        /\ result' = [result EXCEPT ![t] = status]
        /\ result' \in [Task -> ResultStatus \union {"none"}]
        /\ \A u \in Task : u # t => result'[u] = result[u]
        /\ result'[t] = status /\ status # "none"
        /\ config' = config /\ phase' = phase /\ plan' = plan
    BY <1>0 DEF Record, PassInv, TypeOK, Task, ResultStatus
  <1>2. TypeOK'
    <2>1. next' \in 1 .. N + 1
      BY <1>0, <1>1 DEF Task
    <2> QED
      BY <1>1, <2>1 DEF TypeOK, Record
  <1>3. PassInv'
    BY <1>0, <1>1 DEF PassInv, Task
  <1>4. PlanInv'
    BY <1>1 DEF PlanInv
  <1>5. OkInv'
    BY <1>1 DEF OkInv
  <1>6. LedgerInv'
    BY <1>1 DEF LedgerInv
  <1>7. RanOnOkDependencies'
    <2> SUFFICES ASSUME NEW u \in ran', NEW d \in config.deps[u]
                 PROVE  d \in ran' /\ result'[d] = "ok" /\ d < u
      BY <1>1 DEF RanOnOkDependencies
    <2>0. u \in Task /\ d \in Task
      BY <1>0, <1>2, <1>1 DEF TypeOK
    <2>1. CASE u \in ran
      <3>1. d \in ran /\ result[d] = "ok" /\ d < u
        BY <2>1 DEF RanOnOkDependencies
      <3> QED
        BY <3>1, <2>0, <1>1
    <2>2. CASE u \notin ran
      <3>1. u = t /\ result[d] = "ok" /\ d \in completed
        BY <2>2 DEF DepsOk, DepsReported
      <3>2. d \in ran /\ d # t /\ d < t
        BY <3>1, <2>0, <1>0, <1>1 DEF OkInv, PassInv, Task
      <3> QED
        BY <3>1, <3>2, <2>0, <1>1
    <2> QED
      BY <2>1, <2>2
  <1>8. BlockedHasCause'
    <2> SUFFICES ASSUME NEW u \in Task, result'[u] = "blocked"
                 PROVE  \E d \in config.deps[u] : u < d \/ result'[d] # "ok"
      BY <1>1 DEF BlockedHasCause
    <2>1. \E d \in config.deps[u] : u < d \/ result[d] # "ok"
      BY <1>1 DEF BlockedHasCause
    <2>2. PICK d \in config.deps[u] : u < d \/ result[d] # "ok"
      BY <2>1
    <2>3. d \in Task /\ d # u
      BY <1>0
    <2>4. CASE d # t
      BY <2>2, <2>3, <2>4, <1>1
    <2>5. CASE d = t
      \* u has a result and is not t, so it stands before t
      <3>1. u < t
        BY <2>3, <2>5, <1>0, <1>1 DEF PassInv, Task
      <3> QED
        BY <3>1, <2>5
    <2> QED
      BY <2>4, <2>5
  <1> QED
    BY <1>2, <1>3, <1>4, <1>5, <1>6, <1>7, <1>8

\* A task is blocked as incomplete because a dependency stands later or did not
\* end OK.
LEMMA IncompleteHasCause ==
    ASSUME IInv, NEW t \in Task, t = next, ~DepsReported(t)
    PROVE  \E d \in config.deps[t] : t < d \/ result[d] # "ok"
  <1>1. PICK d \in config.deps[t] : d \notin completed
    BY DEF DepsReported
  <1>2. d \in Task
    BY ConfigFacts DEF IInv
  <1>3. result[d] # "ok"
    BY <1>1, <1>2 DEF IInv, OkInv
  <1> QED
    BY <1>3

LEMMA DealIInv ==
    ASSUME IInv, NEW t \in Task, Deal(t)
    PROVE  IInv'
  <1> USE DEF Ready, Turn, Complete
  <1>0. completed \subseteq Task /\ detailed \subseteq Task
    BY DEF IInv, TypeOK
  <1>1. CASE Predetermined(t)
    <2>1. plan[t] = "skipped"
      BY <1>1 DEF Predetermined, IInv, PlanInv
    <2> QED
      BY <1>0, <1>1, <2>1, RecordStep DEF Predetermined, ResultStatus
  <1>2. CASE BlockIncomplete(t)
    <2>1. \E d \in config.deps[t] : t < d \/ result[d] # "ok"
      BY <1>2, IncompleteHasCause DEF BlockIncomplete
    <2> QED
      BY <1>0, <1>2, <2>1, RecordStep DEF BlockIncomplete, ResultStatus
  <1>3. CASE BlockNonOk(t)
    BY <1>0, <1>3, RecordStep DEF BlockNonOk, DepsOk, ResultStatus
  <1>4. CASE NoExecutor(t)
    BY <1>0, <1>4, RecordStep DEF NoExecutor, ResultStatus
  <1>5. CASE ArgsUnresolved(t)
    BY <1>0, <1>5, RecordStep DEF ArgsUnresolved, ResultStatus
  <1>6. ASSUME NEW status \in ResultStatus \ {"blocked"}, NEW withDetails \in BOOLEAN,
               Execute(t, status, withDetails)
        PROVE  IInv'
    <2>1. detailed' \subseteq Task
      BY <1>0, <1>6 DEF Execute
    <2> QED
      BY <1>6, <2>1, RecordStep DEF Execute
  <1> QED
    BY <1>1, <1>2, <1>3, <1>4, <1>5, <1>6 DEF Deal

LEMMA StepIInv == IInv /\ [Next]_planVars => IInv'
  <1> SUFFICES ASSUME IInv, [Next]_planVars PROVE IInv'
    OBVIOUS
  <1> USE DEF IInv
  <1>0. N \in Nat \ {0}
    BY ConfigFacts
  <1>1. CASE BuildRunPlan
    BY <1>0, <1>1 DEF BuildRunPlan, PlannedStatus, TypeOK, PassInv, PlanInv, OkInv,
       LedgerInv, RanOnOkDependencies, BlockedHasCause
  <1>2. CASE BuildExecutionRunPlan
    BY <1>0, <1>2 DEF BuildExecutionRunPlan, TypeOK, PassInv, PlanInv, OkInv,
       LedgerInv, RanOnOkDependencies, BlockedHasCause
  <1>3. CASE BuildOnDemandPlan
    BY <1>0, <1>3 DEF BuildOnDemandPlan, TypeOK, PassInv, PlanInv, OkInv,
       LedgerInv, RanOnOkDependencies, BlockedHasCause
  <1>4. CASE \E t \in Task : Deal(t)
    BY <1>4, DealIInv
  <1>5. CASE CloseRun
    <2>1. /\ RunStatus(result) \in ResultStatus \union {"none"}
          /\ EffectivePublish \in BOOLEAN
      BY DEF RunStatus, ResultStatus, EffectivePublish
    <2>2. RunStatus(result)' = RunStatus(result) /\ EffectivePublish' = EffectivePublish
      BY <1>5 DEF CloseRun, RunStatus, EffectivePublish
    <2>3. TypeOK'
      BY <1>5, <2>1 DEF CloseRun, TypeOK
    <2>4. LedgerInv'
      BY <1>5, <2>2 DEF CloseRun, LedgerInv
    <2> QED
      BY <1>5, <2>3, <2>4 DEF CloseRun, PassInv, PlanInv, OkInv,
         RanOnOkDependencies, BlockedHasCause
  <1>6. CASE UNCHANGED planVars
    BY <1>6 DEF planVars, TypeOK, PassInv, PlanInv, OkInv, LedgerInv, RunStatus,
       EffectivePublish, RanOnOkDependencies, BlockedHasCause
  <1> QED
    BY <1>1, <1>2, <1>3, <1>4, <1>5, <1>6 DEF Next

LEMMA SpecIInv == Spec => []IInv
  BY InitIInv, StepIInv, PTL DEF Spec

\* Type correctness of a run, for every configuration.
THEOREM RunPlanType == Spec => []TypeOK
  <1>1. IInv => TypeOK
    BY DEF IInv
  <1> QED
    BY <1>1, SpecIInv, PTL

\* No executor is called for a task with a dependency that was not carried out
\* before it in this run and ended OK.
THEOREM DependencyClosure == Spec => []RanOnOkDependencies
  <1>1. IInv => RanOnOkDependencies
    BY DEF IInv
  <1> QED
    BY <1>1, SpecIInv, PTL

\* Nor for one that has such a dependency at any remove: what ended OK before t is
\* a set that holds the dependencies of t and of its own members.
THEOREM AncestorsRanFirst == Spec => []RanOnOkAncestors
  <1>1. IInv => RanOnOkAncestors
    <2> SUFFICES ASSUME IInv, NEW t \in ran, NEW d \in Ancestors(t)
                 PROVE  d \in ran /\ result[d] = "ok" /\ d < t
      BY DEF RanOnOkAncestors
    <2> DEFINE Before == {e \in Task : e \in ran /\ result[e] = "ok" /\ e < t}
    <2>1. t \in Task /\ ran \subseteq Task /\ Task \subseteq Nat
          /\ config.deps \in [Task -> SUBSET Task]
      BY ConfigFacts DEF IInv, TypeOK, Task
    <2>2. config.deps[t] \subseteq Before
      BY <2>1 DEF IInv, RanOnOkDependencies
    <2>3. ASSUME NEW e \in Before PROVE config.deps[e] \subseteq Before
      <3>1. e \in ran /\ e \in Nat /\ e < t /\ t \in Nat
        BY <2>1
      <3>2. \A c \in config.deps[e] : c \in Task /\ c \in Nat /\ c \in ran
                                      /\ result[c] = "ok" /\ c < e
        BY <2>1, <3>1 DEF IInv, RanOnOkDependencies
      <3> QED
        BY <3>1, <3>2
    <2>4. Before \in SUBSET Task
      OBVIOUS
    <2> HIDE DEF Before
    <2>5. d \in Before
      BY <2>2, <2>3, <2>4 DEF Ancestors
    <2> QED
      BY <2>5 DEF Before
  <1> QED
    BY <1>1, SpecIInv, PTL

\* The publish gate follows the publish task of the run itself.
THEOREM PublishGate == Spec => []GateFollowsThisRunsPublish
  <1>1. IInv => GateFollowsThisRunsPublish
    <2> SUFFICES ASSUME IInv PROVE GateFollowsThisRunsPublish
      OBVIOUS
    <2>1. /\ Publish \in Task
          /\ \A t \in config.gated : Publish \in config.deps[t]
      BY ConfigFacts DEF IInv
    <2>2. phase = "closed" => ledger.published = (result[Publish] = "ok")
      <3>1. phase = "closed" =>
              ledger = [status |-> RunStatus(result), published |-> EffectivePublish]
        BY DEF IInv, LedgerInv
      <3>2. phase = "closed" => ledger.published = EffectivePublish
        BY <3>1
      <3> QED
        BY <3>2 DEF EffectivePublish
    <2>3. \A t \in ran \intersect config.gated : result[Publish] = "ok"
      BY <2>1 DEF IInv, RanOnOkDependencies
    <2> QED
      BY <2>1, <2>2, <2>3 DEF GateFollowsThisRunsPublish, IInv, OkInv
  <1> QED
    BY <1>1, SpecIInv, PTL

\* Nothing is blocked without a dependency that stands later or did not end OK.
THEOREM BlockingIsJustified == Spec => []BlockedHasCause
  <1>1. IInv => BlockedHasCause
    BY DEF IInv
  <1> QED
    BY <1>1, SpecIInv, PTL

\* The status of the run ledger summarises the results of all tasks truthfully.
THEOREM LedgerTruth == Spec => []LedgerTellsTheWorst
  <1>1. IInv => LedgerTellsTheWorst
    <2> SUFFICES ASSUME IInv, phase = "closed"
                 PROVE  /\ ledger.status = "ok" =>
                              ran = Task /\ \A t \in Task : result[t] = "ok"
                        /\ (\E t \in Task : result[t] = "failed")
                              <=> ledger.status = "failed"
                        /\ ledger.status \in {"skipped", "pending_implementation"} =>
                              \A t \in Task : result[t] # "blocked"
      BY DEF LedgerTellsTheWorst
    <2>1. ledger.status = RunStatus(result)
      BY DEF IInv, LedgerInv
    <2>2. \A t \in Task : result[t] \in ResultStatus
      <3>1. next = N + 1 /\ N \in Nat
        BY ConfigFacts DEF IInv, LedgerInv
      <3>2. \A t \in Task : t < next
        BY <3>1 DEF Task
      <3> QED
        BY <3>2 DEF IInv, PassInv, TypeOK
    <2>3. RunStatus(result) = "ok" => \A t \in Task : result[t] = "ok"
      BY <2>2 DEF RunStatus, ResultStatus
    <2>4. (\A t \in Task : result[t] = "ok") => ran = Task
      BY DEF IInv, OkInv, TypeOK
    <2>5. (\E t \in Task : result[t] = "failed") <=> RunStatus(result) = "failed"
      BY DEF RunStatus
    <2>6. RunStatus(result) \in {"skipped", "pending_implementation"} =>
              \A t \in Task : result[t] # "blocked"
      BY DEF RunStatus
    <2> QED
      BY <2>1, <2>3, <2>4, <2>5, <2>6
  <1> QED
    BY <1>1, SpecIInv, PTL

-----------------------------------------------------------------------------
(* Refinement *)

Outcome == [t \in Task |-> IF result[t] = "none" THEN "waiting"
                           ELSE IF result[t] = "ok" THEN "good" ELSE "bad"]

LEMMA DealRefines ==
    ASSUME IInv, NEW t \in Task, Deal(t)
    PROVE  Dag!DagNext
  <1> USE DEF Ready, Turn, Dag!Task, Task
  <1>0. config.deps \in [Task -> SUBSET Task]
    BY ConfigFacts DEF IInv
  <1>1. /\ t = next /\ result[t] = "none" /\ result \in [Task -> ResultStatus \union {"none"}]
    BY DEF Deal, Predetermined, BlockIncomplete, BlockNonOk, NoExecutor, ArgsUnresolved,
           Execute, IInv, PassInv, TypeOK
  <1>2. ASSUME NEW s \in ResultStatus, Record(t, s)
        PROVE  Dag!Conclude(t, IF s = "ok" THEN "good" ELSE "bad")
    <2>1. result' = [result EXCEPT ![t] = s] /\ config' = config
      BY <1>2 DEF Record
    <2>2. Outcome' = [Outcome EXCEPT ![t] = IF s = "ok" THEN "good" ELSE "bad"]
      BY <1>1, <2>1 DEF Outcome, ResultStatus
    <2>3. Outcome[t] = "waiting"
      BY <1>1 DEF Outcome
    <2> QED
      BY <2>1, <2>2, <2>3 DEF Outcome, Dag!Conclude
  <1>3. ASSUME NEW s \in ResultStatus, Record(t, s), DepsOk(t)
        PROVE  Dag!DagNext
    <2>1. \A d \in config.deps[t] : d \in Task /\ Outcome[d] = "good"
      BY <1>0, <1>3 DEF DepsOk, Outcome
    <2>2. Dag!Carry(t, IF s = "ok" THEN "good" ELSE "bad")
      BY <1>2, <1>3, <2>1 DEF Dag!Carry, Outcome
    <2> QED
      BY <2>2 DEF Dag!DagNext
  <1>4. ASSUME NEW s \in ResultStatus \ {"ok"}, Record(t, s),
               t \in config.labOff \/ \E d \in config.deps[t] : result[d] # "ok"
        PROVE  Dag!DagNext
    <2>1. t \in config.labOff \/ \E d \in config.deps[t] : Outcome[d] # "good"
      BY <1>0, <1>4 DEF Outcome
    <2>2. Dag!Conclude(t, "bad")
      BY <1>2, <1>4
    <2> QED
      BY <2>1, <2>2 DEF Dag!Withhold, Dag!DagNext, Outcome
  <1>5. CASE Predetermined(t)
    <2>1. plan[t] = "skipped" /\ t \in config.labOff
      BY <1>5 DEF Predetermined, IInv, PlanInv
    <2> QED
      BY <1>4, <1>5, <2>1 DEF Predetermined, ResultStatus
  <1>6. CASE BlockIncomplete(t)
    <2>1. \E d \in config.deps[t] : result[d] # "ok"
      BY <1>0, <1>6 DEF BlockIncomplete, DepsReported, IInv, OkInv
    <2> QED
      BY <1>4, <1>6, <2>1 DEF BlockIncomplete, ResultStatus
  <1>7. CASE BlockNonOk(t)
    BY <1>4, <1>7 DEF BlockNonOk, DepsOk, ResultStatus
  <1>8. CASE NoExecutor(t)
    BY <1>3, <1>8 DEF NoExecutor, ResultStatus
  <1>9. CASE ArgsUnresolved(t)
    BY <1>3, <1>9 DEF ArgsUnresolved, ResultStatus
  <1>10. CASE \E status \in ResultStatus \ {"blocked"}, withDetails \in BOOLEAN :
                  Execute(t, status, withDetails)
    BY <1>3, <1>10 DEF Execute
  <1> QED
    BY <1>5, <1>6, <1>7, <1>8, <1>9, <1>10 DEF Deal

\* The run implements the abstract evaluation of its dependency graph.
THEOREM RunRefinesDag == Spec => ImplementsDagRun
  <1>1. Init => Dag!DagInit
    BY ConfigAssumption DEF Init, Dag!DagInit, Dag!Task, Task, Config
  <1>2. IInv /\ [Next]_planVars => [Dag!DagNext]_(Dag!dagVars)
    <2> SUFFICES ASSUME IInv, [Next]_planVars
                 PROVE  Dag!DagNext \/ UNCHANGED Dag!dagVars
      OBVIOUS
    <2>1. CASE \E t \in Task : Deal(t)
      BY <2>1, DealRefines
    <2>2. CASE config' = config /\ result' = result
      BY <2>2 DEF Dag!dagVars
    <2>3. CASE BuildRunPlan \/ BuildExecutionRunPlan \/ BuildOnDemandPlan \/ CloseRun
      BY <2>2, <2>3 DEF BuildRunPlan, BuildExecutionRunPlan, BuildOnDemandPlan, CloseRun
    <2>4. CASE UNCHANGED planVars
      BY <2>2, <2>4 DEF planVars
    <2> QED
      BY <2>1, <2>3, <2>4 DEF Next
  <1> QED
    BY <1>1, <1>2, SpecIInv, PTL DEF Spec, ImplementsDagRun, Dag!DagSpec
=============================================================================
