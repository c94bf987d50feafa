------------------------------- MODULE DagRun -------------------------------
(***************************************************************************)
(* What the orchestrator promises about one run of its tasks: a task is    *)
(* carried out at most once and only when every task it depends on has     *)
(* ended well; a task is withheld only for a reason.  The order of the     *)
(* tasks, the plan and the gate of publish are not visible here.           *)
(***************************************************************************)
EXTENDS Naturals

CONSTANT N      \* the number of tasks

Task == 1 .. N

VARIABLES
    graph,      \* graph[t]: the tasks t depends on
    disabled,   \* tasks switched off by the lab registry
    outcome     \* outcome[t]: "waiting", "good" or "bad"

dagVars == <<graph, disabled, outcome>>

DagInit ==
    /\ graph \in [Task -> SUBSET Task]
    /\ disabled \in SUBSET Task
    /\ outcome = [t \in Task |-> "waiting"]

Conclude(t, o) ==
    /\ outcome[t] = "waiting"
    /\ outcome' = [outcome EXCEPT ![t] = o]
    /\ UNCHANGED <<graph, disabled>>

\* Task t is carried out, with whatever result.
Carry(t, o) ==
    /\ \A d \in graph[t] : outcome[d] = "good"
    /\ Conclude(t, o)

\* Task t is withheld: it is switched off, or a dependency has not ended well.
Withhold(t) ==
    /\ t \in disabled \/ \E d \in graph[t] : outcome[d] # "good"
    /\ Conclude(t, "bad")

DagNext ==
    \E t \in Task : Withhold(t) \/ \E o \in {"good", "bad"} : Carry(t, o)

DagSpec == DagInit /\ [][DagNext]_dagVars
=============================================================================
