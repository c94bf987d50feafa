------------------------------ MODULE MCRunPlan ------------------------------
(* Every graph over three tasks, forward dependencies and cycles included, with *)
(* gates, disabled labs, missing executors and dynamic arguments.               *)
EXTENDS RunPlan

NoRefs == [t \in Task |-> {}]

MCConfigs ==
    {c \in [deps : {g \in [Task -> SUBSET Task] : \A t \in Task : t \notin g[t]},
            refs : {NoRefs} \union {[NoRefs EXCEPT ![N] = {d}] : d \in Task \ {N}},
            gated : SUBSET (Task \ {Publish}),
            labOff : SUBSET {2, N},
            noExecutor : SUBSET {1}] :
        \A t \in c.gated : Publish \in c.deps[t]}
=============================================================================
