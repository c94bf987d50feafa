----------------------------- MODULE Governance -----------------------------
(***************************************************************************)
(* The governance runtime (neotrade3/governance/runtime.py) and the files  *)
(* it keeps (artifact_writer.py, run_ledger.py): handoffs, candidate       *)
(* outcomes, final selections, reject executions and status transitions.   *)
(*                                                                         *)
(* Every materialize_* writes an artifact and then a ledger entry, and     *)
(* Path.write_text truncates a file before it fills it.  The actors are    *)
(* CLI processes, API threads, on-demand workers and the daily run: no     *)
(* lock keeps them apart, and each may die between any two steps.          *)
(***************************************************************************)
EXTENDS Naturals, FiniteSets

CONSTANTS
    Source,       \* benchmark run ids, the source_run_id of everything here
    Validation,   \* validation ids; they name a sample, not a run
    Actor,        \* processes and threads that run governance operations
    Batches,      \* the results a benchmark run may have
    Approved,     \* an outcome text other than "rejected"
    Absent, Torn, \* a file that does not exist, one truncated but not filled
    OpLimit,      \* bound: operations begun
    CrashLimit    \* bound: processes that die in the middle of one

Id == Source \union Validation
Kind == {"handoff", "candidate", "final", "reject", "transition"}
Outcome == {"rejected", Approved}

\* What a file says: the source run, the validation results it is about (all
\* pending ones of a handoff, one everywhere else) and their outcome.
Content == [src : Source, vals : SUBSET Validation, out : Outcome \union {"pending"}]

\* A benchmark artifact: samples that breach the guardrail, and the candidate
\* run context, which names an experiment and so a validation (or none).
Batch == [vals : SUBSET Validation, context : SUBSET Validation]

ASSUME GovernanceAssumption ==
    /\ Batches \subseteq Batch
    /\ Approved \notin {"rejected", "pending"}
    /\ Absent # Torn
    /\ Absent \notin Content
    /\ Torn \notin Content
    /\ Source \intersect Validation = {}
    /\ OpLimit \in Nat
    /\ CrashLimit \in Nat

VARIABLES
    batch,      \* batch[s]: the benchmark artifact of run s
    artifact,   \* artifact[k][i]: the artifact of kind k under id i
    ledger,     \* ledger[k][i]: its ledger entry
    job,        \* job[a]: what actor a is doing
    recorded,   \* history: <<source, validation, outcome>> persisted as candidate
    begun,      \* operations begun
    crashes     \* processes that died

vars == <<batch, artifact, ledger, job, recorded, begun, crashes>>
files == <<artifact, ledger>>

Reading == {"recording", "listing", "chosen", "chain_reject", "rejecting",
            "chain_transition", "transiting"}
Writing == {"open_artifact", "fill_artifact", "open_ledger", "fill_ledger"}

Idle == [at |-> "idle"]
Busy == [at : Reading \union Writing, kind : Kind, id : Id, body : Content, chain : BOOLEAN]

\* Type invariant of the files and of the operations under way.
TypeOK ==
    /\ batch \in [Source -> Batches \union {Absent}]
    /\ artifact \in [Kind -> [Id -> Content \union {Absent, Torn}]]
    /\ ledger \in [Kind -> [Id -> Content \union {Absent, Torn}]]
    /\ job \in [Actor -> Busy \union {Idle}]
    /\ recorded \subseteq Source \X Id \X (Outcome \union {"pending"})
    /\ begun \in Nat
    /\ crashes \in Nat

Init ==
    /\ batch \in [Source -> Batches \union {Absent}]
    /\ artifact = [k \in Kind |-> [i \in Id |-> Absent]]
    /\ ledger = [k \in Kind |-> [i \in Id |-> Absent]]
    /\ job = [a \in Actor |-> Idle]
    /\ recorded = {}
    /\ begun = 0
    /\ crashes = 0

\* A file that exists and can be parsed.
Whole(f) == f \notin {Absent, Torn}

Result(s, v, out) == [src |-> s, vals |-> {v}, out |-> out]
Task(at, kind, id, body, chain) ==
    [at |-> at, kind |-> kind, id |-> id, body |-> body, chain |-> chain]

-----------------------------------------------------------------------------
(* How operations begin, go on, and end with an exception *)

Begin(a) ==
    /\ job[a] = Idle
    /\ UNCHANGED <<batch, artifact, ledger, recorded, crashes>>

\* The bound on the operations asked for.
Counted == begun < OpLimit /\ begun' = begun + 1

At(a, stage) == job[a] # Idle /\ job[a].at = stage

\* An operation that has only read so far goes on with task, provided holds is
\* true of what it read; otherwise it raises.
Continue(a, holds, task) ==
    /\ job' = [job EXCEPT ![a] = IF holds THEN task ELSE Idle]
    /\ UNCHANGED <<batch, artifact, ledger, recorded, begun, crashes>>

-----------------------------------------------------------------------------
(* Handoff and candidate outcomes *)

\* The benchmark's own run replaces its artifact; samples and candidate context
\* follow from the manifest and the data.
MaterializeBenchmark(s, b) ==
    /\ Counted
    /\ batch' = [batch EXCEPT ![s] = b]
    /\ UNCHANGED <<artifact, ledger, job, recorded, crashes>>

\* run_governance_for_benchmark_run: each breaching sample becomes a pending
\* validation result, with its blocker and attention item.
MaterializeHandoff(a, s) ==
    /\ Begin(a)
    /\ batch[s] # Absent
    /\ job' = [job EXCEPT ![a] =
                  Task("open_artifact", "handoff", s,
                       [src |-> s, vals |-> batch[s].vals, out |-> "pending"], FALSE)]

\* The handoff bundle can be read and holds v.
InHandoff(s, v) ==
    /\ Whole(artifact["handoff"][s])
    /\ v \in artifact["handoff"][s].vals

RecordTask(s, v, out, at) == Task(at, "candidate", v, Result(s, v, out), FALSE)

\* Faulty variant: the ledger entry alone.
SubmitOutcome_LedgerOnly(a, s, v, out) ==
    /\ Begin(a)
    /\ InHandoff(s, v)
    /\ job' = [job EXCEPT ![a] = RecordTask(s, v, out, "open_ledger")]

\* run_governance_candidate_validation_outcome, called with an outcome of the
\* caller's choice.
SubmitOutcome(a, s, v, out) ==
    /\ Begin(a)
    /\ InHandoff(s, v)
    /\ job' = [job EXCEPT ![a] = RecordTask(s, v, out, "open_artifact")]

\* The upstream producer finds v as the only pending result of s, and the candidate
\* run context of the benchmark artifact is about it.
Producible(s, v) ==
    /\ Whole(artifact["handoff"][s])
    /\ artifact["handoff"][s].vals = {v}
    /\ batch[s] # Absent
    /\ batch[s].context = {v}

\* run_governance_candidate_outcome_bridge: the producer always rejects ...
Bridge(a, s) ==
    /\ Begin(a)
    /\ \E v \in Validation :
          /\ Producible(s, v)
          /\ job' = [job EXCEPT ![a] = RecordTask(s, v, "rejected", "recording")]

\* Faulty variant: an outcome already on record, readable or not, is left alone.
RecordProduced_Once(a) ==
    /\ At(a, "recording")
    /\ Continue(a, /\ InHandoff(job[a].body.src, job[a].id)
                   /\ artifact["candidate"][job[a].id] = Absent,
                [job[a] EXCEPT !.at = "open_artifact"])

\* ... and the outcome is recorded as a submitted one is, reading the handoff once more.
RecordProduced(a) ==
    /\ At(a, "recording")
    /\ Continue(a, InHandoff(job[a].body.src, job[a].id),
                [job[a] EXCEPT !.at = "open_artifact"])

-----------------------------------------------------------------------------
(* Final selection *)

\* run_governance_final_validation_selection, alone or as the first step of the
\* reject transition chain: read the handoff,
Select(a, s, chain) ==
    /\ Begin(a)
    /\ Whole(artifact["handoff"][s])
    /\ job' = [job EXCEPT ![a] =
                  Task("listing", "final", s, artifact["handoff"][s], chain)]

\* The candidate ledger entries of run s: entries that cannot be parsed are
\* skipped.
Records(s) ==
    {v \in Validation : /\ Whole(ledger["candidate"][v])
                        /\ ledger["candidate"][v].src = s}

\* list the candidate records, of which there must be exactly one, in the handoff,
ListRecords(a) ==
    /\ At(a, "listing")
    /\ LET s == job[a].body.src IN
       IF Cardinality(Records(s)) # 1 \/ ~(Records(s) \subseteq job[a].body.vals)
       THEN Continue(a, FALSE, Idle)
       ELSE \E v \in Records(s) :
               Continue(a, TRUE, [job[a] EXCEPT !.at = "chosen",
                                                !.body = Result(s, v, "pending")])

\* The candidate artifact of v, in the name of s.
CandidateOf(s, v) ==
    /\ Whole(artifact["candidate"][v])
    /\ artifact["candidate"][v].src = s

\* Faulty variant: the only outcome the producer knows is presumed.
WithOutcome_Presumed(a, v) ==
    [job[a] EXCEPT !.at = "open_artifact", !.body = Result(@.src, v, "rejected")]

\* A job that goes on with the outcome the candidate artifact of v tells.
WithOutcome(a, v) ==
    [job[a] EXCEPT !.at = "open_artifact",
                   !.body = Result(@.src, v, artifact["candidate"][v].out)]

\* and read its artifact, whose outcome is the final one.
ReadChosen(a) ==
    /\ At(a, "chosen")
    /\ \E v \in job[a].body.vals :
          Continue(a, CandidateOf(job[a].body.src, v), WithOutcome(a, v))

-----------------------------------------------------------------------------
(* Reject execution and status transition *)

\* Both start from a handoff that holds v; the chain comes here after its
\* selection, the CLI and the API directly.
Prepare(a, s, v, kind, at) ==
    /\ InHandoff(s, v)
    /\ job' = [job EXCEPT ![a] = Task(at, kind, v, Result(s, v, "pending"), FALSE)]

Reject(a, s, v) == Begin(a) /\ Prepare(a, s, v, "reject", "rejecting")

Transition(a, s, v) == Begin(a) /\ Prepare(a, s, v, "transition", "transiting")

\* The chain: after the selection the reject execution, after that the transition.
ChainNext(a, at, kind, next) ==
    /\ At(a, at)
    /\ Continue(a, InHandoff(job[a].body.src, job[a].id),
                [job[a] EXCEPT !.at = next, !.kind = kind])

ChainReject(a) == ChainNext(a, "chain_reject", "reject", "rejecting")
ChainTransition(a) == ChainNext(a, "chain_transition", "transition", "transiting")

\* Faulty variant: the outcome is not looked at again.
ReadRejected_AnyOutcome(a) ==
    /\ At(a, "rejecting")
    /\ \E v \in job[a].body.vals :
          Continue(a, CandidateOf(job[a].body.src, v), WithOutcome(a, v))

\* run_governance_reject_execution: the candidate's outcome must be "rejected".
ReadRejected(a) ==
    /\ At(a, "rejecting")
    /\ \E v \in job[a].body.vals :
          Continue(a, /\ CandidateOf(job[a].body.src, v)
                      /\ artifact["candidate"][v].out = "rejected",
                   WithOutcome(a, v))

\* Faulty variant: an unreadable proof will do.
RejectProof_Any(v) == TRUE

\* _resolve_reject_transition_proof: the reject artifact, or the ledger entry in
\* its absence; either raises when it cannot be parsed.
RejectProof(v) ==
    /\ ledger["reject"][v] # Torn
    /\ artifact["reject"][v] # Torn
    /\ artifact["reject"][v] # Absent \/ ledger["reject"][v] # Absent

\* run_governance_status_transition: the candidate result, whatever its outcome,
\* and the proof of a reject execution of v.
ReadTransition(a) ==
    /\ At(a, "transiting")
    /\ \E v \in job[a].body.vals :
          Continue(a, CandidateOf(job[a].body.src, v) /\ RejectProof(v),
                   WithOutcome(a, v))

-----------------------------------------------------------------------------
(* materialize_*: the artifact, then the ledger entry *)

OpenArtifact(a) ==
    /\ At(a, "open_artifact")
    /\ artifact' = [artifact EXCEPT ![job[a].kind][job[a].id] = Torn]
    /\ job' = [job EXCEPT ![a].at = "fill_artifact"]
    /\ UNCHANGED <<batch, ledger, recorded, begun, crashes>>

FillArtifact(a) ==
    /\ At(a, "fill_artifact")
    /\ artifact' = [artifact EXCEPT ![job[a].kind][job[a].id] = job[a].body]
    /\ recorded' = IF job[a].kind = "candidate"
                   THEN recorded \union {<<job[a].body.src, job[a].id, job[a].body.out>>}
                   ELSE recorded
    /\ job' = [job EXCEPT ![a].at = "open_ledger"]
    /\ UNCHANGED <<batch, ledger, begun, crashes>>

OpenLedger(a) ==
    /\ At(a, "open_ledger")
    /\ ledger' = [ledger EXCEPT ![job[a].kind][job[a].id] = Torn]
    /\ job' = [job EXCEPT ![a].at = "fill_ledger"]
    /\ UNCHANGED <<batch, artifact, recorded, begun, crashes>>

\* The chain goes on after a selection that is "rejected", and after the reject.
ChainGoesOn(j) == j.chain /\ j.body.out = "rejected" /\ j.kind # "transition"

FillLedger(a) ==
    /\ At(a, "fill_ledger")
    /\ ledger' = [ledger EXCEPT ![job[a].kind][job[a].id] = job[a].body]
    /\ IF ~ChainGoesOn(job[a]) THEN job' = [job EXCEPT ![a] = Idle]
       ELSE \E v \in job[a].body.vals :
               job' = [job EXCEPT ![a] =
                          [@ EXCEPT !.id = v,
                                    !.at = IF job[a].kind = "final" THEN "chain_reject"
                                           ELSE "chain_transition"]]
    /\ UNCHANGED <<batch, artifact, recorded, begun, crashes>>

\* The process dies; a file it had truncated stays empty.
Crash(a) ==
    /\ job[a] # Idle
    /\ crashes < CrashLimit
    /\ crashes' = crashes + 1
    /\ job' = [job EXCEPT ![a] = Idle]
    /\ UNCHANGED <<batch, artifact, ledger, recorded, begun>>

-----------------------------------------------------------------------------
Request(a) ==
    /\ Counted
    /\ \E s \in Source :
          \/ MaterializeHandoff(a, s)
          \/ Bridge(a, s)
          \/ \E chain \in BOOLEAN : Select(a, s, chain)
          \/ \E v \in Validation :
                \/ \E out \in Outcome : SubmitOutcome(a, s, v, out)
                \/ Reject(a, s, v)
                \/ Transition(a, s, v)

Read(a) ==
    \/ RecordProduced(a)
    \/ ListRecords(a)
    \/ ReadChosen(a)
    \/ ChainReject(a)
    \/ ReadRejected(a)
    \/ ChainTransition(a)
    \/ ReadTransition(a)

Write(a) ==
    \/ OpenArtifact(a)
    \/ FillArtifact(a)
    \/ OpenLedger(a)
    \/ FillLedger(a)

Next ==
    \/ \E s \in Source, b \in Batches : MaterializeBenchmark(s, b)
    \/ \E a \in Actor : Request(a) \/ Read(a) \/ Write(a) \/ Crash(a)

Spec == Init /\ [][Next]_vars

-----------------------------------------------------------------------------
(* Properties *)

\* What a file of kind k under v tells of v.
Tells(f) == {<<f.src, v, f.out>> : v \in f.vals}

\* Whatever actors overwrite, and whenever they die: a final selection, a reject
\* execution or a status transition only tells an outcome that was once persisted
\* as a candidate outcome of the same validation for the same run (reads of
\* run_governance_* that happen at different times never mix two runs).
DecisionsTellCandidates ==
    \A k \in {"final", "reject", "transition"}, i \in Id :
        /\ Whole(artifact[k][i]) => Tells(artifact[k][i]) \subseteq recorded
        /\ Whole(ledger[k][i]) => Tells(ledger[k][i]) \subseteq recorded

\* Only rejected candidates are reject-executed
\* (build_reject_decision_record_from_validation_result), also when the outcome
\* is re-recorded while the chain is under way.
OnlyRejectedIsRejected ==
    \A v \in Validation : Whole(artifact["reject"][v]) => artifact["reject"][v].out = "rejected"

\* No status transition without a reject execution of the same validation on disk,
\* in the chain or out of it.
TransitionHasReject ==
    \A v \in Validation :
        artifact["transition"][v] # Absent => artifact["reject"][v] # Absent

\* A ledger entry never names an artifact that was not written, whoever died.
LedgerNamesArtifact ==
    \A k \in Kind, i \in Id : ledger[k][i] # Absent => artifact[k][i] # Absent

\* A final selection is backed by a candidate record: both files exist.
FinalHasCandidate ==
    \A s \in Source : Whole(artifact["final"][s]) =>
        \A v \in artifact["final"][s].vals : ledger["candidate"][v] # Absent
=============================================================================
