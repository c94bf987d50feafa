-------------------------- MODULE GovernanceProofs --------------------------
(***************************************************************************)
(* Proofs about Governance and GovernanceDaily: types, what the files of   *)
(* the governance runtime may say, and what the daily plan may write, for  *)
(* any number of runs, validations, actors, operations and crashes.        *)
(* One step of an operation (Operation) is treated once; the runtime and   *)
(* the daily plan differ in who starts operations and how often.           *)
(***************************************************************************)
EXTENDS GovernanceDaily, TLAPS

\* A step of an operation, whoever asked for it and whether it is counted or
\* not: the operations of the daily plan are not.
Operation(a) ==
    \/ \E s \in Source :
          \/ MaterializeHandoff(a, s)
          \/ Bridge(a, s)
          \/ \E chain \in BOOLEAN : Select(a, s, chain)
          \/ \E v \in Validation :
                \/ \E out \in Outcome : SubmitOutcome(a, s, v, out)
                \/ Reject(a, s, v)
                \/ Transition(a, s, v)
    \/ Read(a)
    \/ Write(a)
    \/ Crash(a)

LEMMA InitType == Init => TypeOK
<1> SUFFICES ASSUME Init PROVE TypeOK
  OBVIOUS
<1>1. batch \in [Source -> Batch \union {Absent}]
  BY GovernanceAssumption DEF Init
<1> QED
  BY <1>1 DEF Init, TypeOK

\* An operation that reads changes its actor's job only, to Idle or to a task.
LEMMA ContinueType ==
    ASSUME TypeOK, NEW a \in Actor, NEW holds, NEW task,
           Continue(a, holds, task), holds => task \in Busy
    PROVE  TypeOK'
BY DEF Continue, TypeOK

LEMMA BeginType ==
    ASSUME TypeOK, NEW a \in Actor, Begin(a), begun' \in Nat, NEW task \in Busy,
           job' = [job EXCEPT ![a] = task]
    PROVE  TypeOK'
BY DEF Begin, TypeOK

LEMMA BusyJob ==
    ASSUME TypeOK, NEW a \in Actor, NEW stage, At(a, stage)
    PROVE  job[a] \in Busy /\ job[a].at = stage
BY DEF At, TypeOK

LEMMA ReadCandidateType ==
    ASSUME TypeOK, NEW a \in Actor, NEW stage, At(a, stage), NEW holds,
           NEW v \in job[a].body.vals,
           holds => CandidateOf(job[a].body.src, v),
           Continue(a, holds, WithOutcome(a, v))
    PROVE  TypeOK'
<1>1. job[a] \in Busy /\ job[a].body \in Content
  BY BusyJob DEF Busy
<1>2. v \in Validation
  BY <1>1 DEF Content
<1>3. holds => artifact["candidate"][v] \in Content
  BY <1>2 DEF CandidateOf, Whole, TypeOK, Kind, Id
<1>4. holds => Result(job[a].body.src, v, artifact["candidate"][v].out) \in Content
  BY <1>1, <1>2, <1>3 DEF Content, Result
<1>5. holds => WithOutcome(a, v) \in Busy
  BY <1>1, <1>4 DEF Busy, WithOutcome, Writing
<1> QED
  BY <1>5, ContinueType

LEMMA OperationType ==
    ASSUME TypeOK, NEW a \in Actor, Operation(a), begun' \in Nat
    PROVE  TypeOK'
<1> USE DEF Id, Kind, Reading, Writing
<1>2. ASSUME NEW s \in Source, MaterializeHandoff(a, s) PROVE TypeOK'
  <2>1. [src |-> s, vals |-> batch[s].vals, out |-> "pending"] \in Content
    BY <1>2, GovernanceAssumption DEF MaterializeHandoff, TypeOK, Content, Batch
  <2>2. Task("open_artifact", "handoff", s,
             [src |-> s, vals |-> batch[s].vals, out |-> "pending"], FALSE) \in Busy
    BY <2>1 DEF Task, Busy
  <2> QED
    BY <1>2, <2>2, BeginType DEF MaterializeHandoff
<1>3. ASSUME NEW s \in Source, NEW v \in Validation, NEW out \in Outcome \union {"pending"}
      PROVE Result(s, v, out) \in Content
  BY DEF Result, Content
<1>4. ASSUME NEW s \in Source, Bridge(a, s) PROVE TypeOK'
  <2>1. PICK v \in Validation :
           job' = [job EXCEPT ![a] = RecordTask(s, v, "rejected", "recording")]
    BY <1>4 DEF Bridge
  <2>2. RecordTask(s, v, "rejected", "recording") \in Busy
    BY <1>3 DEF RecordTask, Task, Busy, Outcome
  <2> QED
    BY <1>4, <2>1, <2>2, BeginType DEF Bridge
<1>5. ASSUME NEW s \in Source, NEW chain \in BOOLEAN, Select(a, s, chain)
      PROVE TypeOK'
  <2>1. artifact["handoff"][s] \in Content
    BY <1>5 DEF Select, Whole, TypeOK
  <2>2. Task("listing", "final", s, artifact["handoff"][s], chain) \in Busy
    BY <2>1 DEF Task, Busy
  <2> QED
    BY <1>5, <2>2, BeginType DEF Select
<1>6. ASSUME NEW s \in Source, NEW v \in Validation, NEW out \in Outcome,
             SubmitOutcome(a, s, v, out)
      PROVE TypeOK'
  <2>1. RecordTask(s, v, out, "open_artifact") \in Busy
    BY <1>3 DEF RecordTask, Task, Busy
  <2> QED
    BY <1>6, <2>1, BeginType DEF SubmitOutcome
<1>7. ASSUME NEW s \in Source, NEW v \in Validation,
             Reject(a, s, v) \/ Transition(a, s, v)
      PROVE TypeOK'
  <2>1. /\ Task("rejecting", "reject", v, Result(s, v, "pending"), FALSE) \in Busy
        /\ Task("transiting", "transition", v, Result(s, v, "pending"), FALSE) \in Busy
    BY <1>3 DEF Task, Busy
  <2> QED
    BY <1>7, <2>1, BeginType DEF Reject, Transition, Prepare
<1>8. ASSUME RecordProduced(a) PROVE TypeOK'
  <2>1. [job[a] EXCEPT !.at = "open_artifact"] \in Busy
    BY <1>8, BusyJob DEF RecordProduced, Busy
  <2> QED
    BY <1>8, <2>1, ContinueType DEF RecordProduced
<1>9. ASSUME ListRecords(a) PROVE TypeOK'
  <2> DEFINE s == job[a].body.src
  <2>1. job[a] \in Busy
    BY <1>9, BusyJob DEF ListRecords
  <2>2. s \in Source
    BY <2>1 DEF Busy, Content
  <2>3. CASE Continue(a, FALSE, Idle)
    BY <2>3, ContinueType
  <2>4. ASSUME NEW v \in Validation,
               Continue(a, TRUE, [job[a] EXCEPT !.at = "chosen", !.body = Result(s, v, "pending")])
        PROVE TypeOK'
    <3>1. [job[a] EXCEPT !.at = "chosen", !.body = Result(s, v, "pending")] \in Busy
      BY <2>1, <2>2, <1>3 DEF Busy
    <3> QED
      BY <2>4, <3>1, ContinueType
  <2> QED
    BY <1>9, <2>3, <2>4 DEF ListRecords, Records
<1>10. ASSUME ReadChosen(a) PROVE TypeOK'
  BY <1>10, ReadCandidateType DEF ReadChosen
<1>11. ASSUME NEW at, NEW kind \in Kind, NEW next \in Reading,
              ChainNext(a, at, kind, next)
       PROVE TypeOK'
  <2>1. [job[a] EXCEPT !.at = next, !.kind = kind] \in Busy
    BY <1>11, BusyJob DEF ChainNext, Busy
  <2> QED
    BY <1>11, <2>1, ContinueType DEF ChainNext
<1>12. ASSUME ReadRejected(a) PROVE TypeOK'
  BY <1>12, ReadCandidateType DEF ReadRejected
<1>13. ASSUME ReadTransition(a) PROVE TypeOK'
  BY <1>13, ReadCandidateType DEF ReadTransition
<1>14. ASSUME OpenArtifact(a) PROVE TypeOK'
  BY <1>14, BusyJob DEF OpenArtifact, TypeOK, Busy
<1>15. ASSUME FillArtifact(a) PROVE TypeOK'
  BY <1>15, BusyJob DEF FillArtifact, TypeOK, Busy, Content
<1>16. ASSUME OpenLedger(a) PROVE TypeOK'
  <2>1. job[a] \in Busy
    BY <1>16, BusyJob DEF OpenLedger
  <2>2. [job[a] EXCEPT !.at = "fill_ledger"] \in Busy
    BY <2>1 DEF Busy
  <2>3. ledger' \in [Kind -> [Id -> Content \union {Absent, Torn}]]
    BY <1>16, <2>1 DEF OpenLedger, TypeOK, Busy
  <2> QED
    BY <1>16, <2>2, <2>3 DEF OpenLedger, TypeOK
<1>17. ASSUME FillLedger(a) PROVE TypeOK'
  <2>1. job[a] \in Busy /\ job[a].body \in Content
    BY <1>17, BusyJob DEF FillLedger, Busy
  <2>2. ledger' \in [Kind -> [Id -> Content \union {Absent, Torn}]]
    BY <1>17, <2>1 DEF FillLedger, TypeOK, Busy
  <2>3. \A v \in job[a].body.vals : \A at \in Reading : [job[a] EXCEPT !.id = v, !.at = at] \in Busy
    BY <2>1 DEF Busy, Content
  <2>4. job' \in [Actor -> Busy \union {Idle}]
    BY <1>17, <2>1, <2>3 DEF FillLedger, TypeOK
  <2> QED
    BY <1>17, <2>2, <2>4 DEF FillLedger, TypeOK
<1>18. ASSUME Crash(a) PROVE TypeOK'
  BY <1>18 DEF Crash, TypeOK
<1> QED
  BY <1>2, <1>4, <1>5, <1>6, <1>7, <1>8, <1>9, <1>10, <1>11, <1>12, <1>13, <1>14,
     <1>15, <1>16, <1>17, <1>18
  DEF Operation, Read, Write, ChainReject, ChainTransition

LEMMA StepType == TypeOK /\ [Next]_vars => TypeOK'
<1> SUFFICES ASSUME TypeOK, [Next]_vars PROVE TypeOK'
  OBVIOUS
<1>1. ASSUME NEW s \in Source, NEW b \in Batches, MaterializeBenchmark(s, b) PROVE TypeOK'
  BY <1>1, GovernanceAssumption DEF MaterializeBenchmark, Counted, TypeOK
<1>2. ASSUME NEW a \in Actor, Request(a) PROVE TypeOK'
  BY <1>2, OperationType DEF Request, Operation, Counted, TypeOK
<1>3. ASSUME NEW a \in Actor, Read(a) \/ Write(a) \/ Crash(a) PROVE TypeOK'
  <2>1. begun' = begun
    BY <1>3 DEF Read, Write, Crash, RecordProduced, ListRecords, ReadChosen, ChainReject,
       ReadRejected, ChainTransition, ReadTransition, ChainNext, Continue,
       OpenArtifact, FillArtifact, OpenLedger, FillLedger
  <2> QED
    BY <1>3, <2>1, OperationType DEF Operation, TypeOK
<1>4. CASE UNCHANGED vars
  BY <1>4 DEF vars, TypeOK
<1> QED
  BY <1>1, <1>2, <1>3, <1>4 DEF Next

\* The governance runtime keeps its files and jobs in their types.
THEOREM GovernanceType == Spec => []TypeOK
<1> QED
  BY InitType, StepType, PTL DEF Spec

-----------------------------------------------------------------------------
(* The inductive invariant: what the files say, and what every job in      *)
(* progress has already established.                                       *)

Backed(vals) == \A v \in vals : ledger["candidate"][v] # Absent
Rejected(f) == Whole(f) => f.out = "rejected"

FilesOK ==
    /\ \A v \in Validation : Whole(artifact["candidate"][v]) =>
          <<artifact["candidate"][v].src, v, artifact["candidate"][v].out>> \in recorded
    /\ DecisionsTellCandidates
    /\ OnlyRejectedIsRejected
    /\ TransitionHasReject
    /\ LedgerNamesArtifact
    /\ FinalHasCandidate

\* A stage belongs to one kind of operation.
StageOK(j) ==
    /\ j.at \in {"listing", "chosen", "chain_reject"} => j.kind = "final"
    /\ j.at = "recording" => j.kind = "candidate"
    /\ j.at = "rejecting" => j.kind = "reject"
    /\ j.at = "transiting" => j.kind = "transition"
    /\ j.at = "chain_transition" => j.kind = "reject"
    /\ j.chain => j.kind \in {"final", "reject", "transition"}

\* Past the listing, a job is about one validation, which names its file.
SubjectOK(j) ==
    /\ j.kind # "handoff" /\ j.at # "listing"
          => j.body.vals # {} /\ \A u, w \in j.body.vals : u = w
    /\ j.at \in {"chain_transition", "transiting"} => j.body.vals \subseteq {j.id}

\* A job that writes has read what its file is to say.
WriteOK(j) ==
    /\ j.kind \in {"final", "reject", "transition"} => Tells(j.body) \subseteq recorded
    /\ j.kind = "reject" => j.body.out = "rejected"
    /\ j.kind = "transition" => artifact["reject"][j.id] # Absent
    /\ j.kind = "final" => Backed(j.body.vals)

JobOK(j) ==
    /\ StageOK(j)
    /\ SubjectOK(j)
    /\ j.at = "chosen" => Backed(j.body.vals)
    /\ j.at \in Writing => WriteOK(j)
    /\ j.at \in {"open_ledger", "fill_ledger"} => artifact[j.kind][j.id] # Absent

IInv ==
    /\ TypeOK
    /\ FilesOK
    /\ \A a \in Actor : job[a] # Idle => JobOK(job[a])

LEMMA InitIInv == Init => IInv
<1> SUFFICES ASSUME Init PROVE IInv
  OBVIOUS
<1>1. \A k \in Kind, i \in Id : artifact[k][i] = Absent /\ ledger[k][i] = Absent
  BY DEF Init
<1>2. \A k \in Kind, v \in Validation : artifact[k][v] = Absent /\ ledger[k][v] = Absent
  BY <1>1 DEF Id
<1>3. \A k \in Kind, s \in Source : artifact[k][s] = Absent
  BY <1>1 DEF Id
<1>4. FilesOK
  BY <1>1, <1>2, <1>3 DEF FilesOK, DecisionsTellCandidates, OnlyRejectedIsRejected,
     TransitionHasReject, LedgerNamesArtifact, FinalHasCandidate, Whole, Kind
<1> QED
  BY <1>4, InitType DEF Init, IInv

\* Files are never removed and history only grows.
Grows ==
    /\ recorded \subseteq recorded'
    /\ \A k \in Kind, i \in Id : artifact[k][i] # Absent => artifact'[k][i] # Absent
    /\ \A k \in Kind, i \in Id : ledger[k][i] # Absent => ledger'[k][i] # Absent

\* A job keeps what it has established while others write.
LEMMA WriteKept ==
    ASSUME NEW j \in Busy, WriteOK(j), Grows
    PROVE  WriteOK(j)'
<1>1. j.kind \in Kind /\ j.id \in Id /\ j.body.vals \subseteq Id
  BY DEF Busy, Content, Id
<1>2. \A vals \in SUBSET Id : Backed(vals) => Backed(vals)'
  BY DEF Grows, Backed, Kind
<1> QED
  BY <1>1, <1>2 DEF Grows, WriteOK, Tells, Kind

LEMMA JobKept ==
    ASSUME NEW j \in Busy, JobOK(j), Grows
    PROVE  JobOK(j)'
<1>1. j.kind \in Kind /\ j.id \in Id /\ j.body.vals \subseteq Id
  BY DEF Busy, Content, Id
<1>2. \A vals \in SUBSET Id : Backed(vals) => Backed(vals)'
  BY DEF Grows, Backed, Kind
<1> QED
  BY <1>1, <1>2, WriteKept DEF Grows, JobOK, StageOK, SubjectOK

\* A step that leaves the files alone keeps the invariant if the job it leaves
\* its actor with is sound.
LEMMA ReadStep ==
    ASSUME IInv, TypeOK', NEW a \in Actor, NEW task,
           job' = [job EXCEPT ![a] = task],
           UNCHANGED <<artifact, ledger, recorded>>,
           task # Idle => JobOK(task)
    PROVE  IInv'
<1>1. FilesOK'
  BY DEF IInv, FilesOK, DecisionsTellCandidates, OnlyRejectedIsRejected,
     TransitionHasReject, LedgerNamesArtifact, FinalHasCandidate, Whole, Tells
<1>2. \A j : JobOK(j) => JobOK(j)'
  BY DEF JobOK, StageOK, SubjectOK, WriteOK, Backed, Tells
<1>3. \A b \in Actor : job'[b] # Idle => JobOK(job'[b])
  BY DEF IInv, TypeOK
<1> QED
  BY <1>1, <1>2, <1>3 DEF IInv

\* A step that writes: the other jobs are kept because files only grow.
LEMMA WriteStep ==
    ASSUME IInv, TypeOK', NEW a \in Actor, NEW task,
           job' = [job EXCEPT ![a] = task],
           Grows, FilesOK',
           task # Idle => JobOK(task)'
    PROVE  IInv'
<1> USE DEF JobOK, StageOK, SubjectOK, WriteOK, Backed
<1>1. ASSUME NEW b \in Actor PROVE (job[b] # Idle => JobOK(job[b]))'
  <2>1. CASE b = a
    <3>1. job'[b] = task
      BY <2>1 DEF IInv, TypeOK
    <3> QED
      BY <3>1
  <2>2. CASE b # a
    <3>1. job'[b] = job[b] /\ (job[b] # Idle => job[b] \in Busy /\ JobOK(job[b]))
      BY <2>2 DEF IInv, TypeOK
    <3>2. job[b] # Idle => JobOK(job[b])'
      BY <3>1, JobKept
    <3> QED
      BY <3>1, <3>2
  <2> QED
    BY <2>1, <2>2
<1> QED
  BY <1>1 DEF IInv

\* What reading the candidate artifact of v establishes.
LEMMA ReadCandidate ==
    ASSUME IInv, NEW a \in Actor, NEW stage, At(a, stage), stage \in Reading \ {"listing"},
           job[a].kind # "handoff",
           NEW v \in job[a].body.vals, CandidateOf(job[a].body.src, v),
           job[a].kind = "reject" => artifact["candidate"][v].out = "rejected",
           job[a].kind = "transition" => artifact["reject"][job[a].id] # Absent,
           job[a].kind = "final" => Backed(job[a].body.vals)
    PROVE  JobOK(WithOutcome(a, v))
<1> DEFINE s == job[a].body.src
           out == artifact["candidate"][v].out
           j == WithOutcome(a, v)
<1>1. job[a] \in Busy /\ job[a].at = stage /\ job[a].body \in Content /\ v \in Validation
  BY BusyJob DEF IInv, Busy, Content
<1>2. <<s, v, out>> \in recorded
  BY <1>1 DEF IInv, FilesOK, CandidateOf
<1>3. /\ j.at = "open_artifact" /\ j.kind = job[a].kind /\ j.id = job[a].id
      /\ j.chain = job[a].chain /\ StageOK(job[a])
      /\ j.body = Result(s, v, out)
  BY <1>1 DEF WithOutcome, Busy, IInv, JobOK, At
<1>4. j.body.src = s /\ j.body.vals = {v} /\ j.body.out = out
  BY <1>3 DEF Result
<1>5. Tells(j.body) = {<<s, v, out>>}
  BY <1>4 DEF Tells
<1>6. WriteOK(j)
  BY <1>2, <1>3, <1>4, <1>5 DEF WriteOK, Backed
<1>7. JobOK(j)
  <2> HIDE DEF j
  <2> QED
    BY <1>3, <1>4, <1>6 DEF JobOK, StageOK, SubjectOK
<1> QED
  BY <1>7

\* The jobs operations begin with.
LEMMA BeginOK ==
    /\ \A s \in Source, vals \in SUBSET Validation :
          JobOK(Task("open_artifact", "handoff", s,
                     [src |-> s, vals |-> vals, out |-> "pending"], FALSE))
    /\ \A s \in Source, body \in Content, chain \in BOOLEAN :
          JobOK(Task("listing", "final", s, body, chain))
    /\ \A s \in Source, v \in Validation, out \in Outcome :
          /\ JobOK(RecordTask(s, v, out, "open_artifact"))
          /\ JobOK(RecordTask(s, v, out, "recording"))
    /\ \A s \in Source, v \in Validation :
          /\ JobOK(Task("rejecting", "reject", v, Result(s, v, "pending"), FALSE))
          /\ JobOK(Task("transiting", "transition", v, Result(s, v, "pending"), FALSE))
BY DEF JobOK, StageOK, SubjectOK, WriteOK, Task, RecordTask, Result, Writing

LEMMA RequestStep ==
    ASSUME IInv, TypeOK', NEW a \in Actor, NEW s \in Source,
           \/ MaterializeHandoff(a, s)
           \/ Bridge(a, s)
           \/ \E chain \in BOOLEAN : Select(a, s, chain)
           \/ \E v \in Validation :
                 \/ \E out \in Outcome : SubmitOutcome(a, s, v, out)
                 \/ Reject(a, s, v)
                 \/ Transition(a, s, v)
    PROVE  IInv'
<1>1. CASE MaterializeHandoff(a, s)
  <2>1. batch[s].vals \in SUBSET Validation
    BY <1>1, GovernanceAssumption DEF MaterializeHandoff, IInv, TypeOK, Batch
  <2>2. JobOK(Task("open_artifact", "handoff", s,
                   [src |-> s, vals |-> batch[s].vals, out |-> "pending"], FALSE))
    BY <2>1, BeginOK
  <2> QED
    BY <1>1, <2>2, ReadStep DEF MaterializeHandoff, Begin
<1>2. CASE Bridge(a, s)
  <2>1. \A v \in Validation : JobOK(RecordTask(s, v, "rejected", "recording"))
    BY BeginOK DEF Outcome
  <2> QED
    BY <1>2, <2>1, ReadStep DEF Bridge, Begin
<1>3. ASSUME NEW chain \in BOOLEAN, Select(a, s, chain) PROVE IInv'
  <2>1. artifact["handoff"][s] \in Content
    BY <1>3 DEF Select, Whole, IInv, TypeOK, Kind, Id
  <2>2. JobOK(Task("listing", "final", s, artifact["handoff"][s], chain))
    BY <2>1, BeginOK
  <2> QED
    BY <1>3, <2>2, ReadStep DEF Select, Begin
<1>4. ASSUME NEW v \in Validation, NEW out \in Outcome, SubmitOutcome(a, s, v, out) PROVE IInv'
  BY <1>4, BeginOK, ReadStep DEF SubmitOutcome, Begin
<1>5. ASSUME NEW v \in Validation, Reject(a, s, v) PROVE IInv'
  BY <1>5, BeginOK, ReadStep DEF Reject, Prepare, Begin
<1>6. ASSUME NEW v \in Validation, Transition(a, s, v) PROVE IInv'
  BY <1>6, BeginOK, ReadStep DEF Transition, Prepare, Begin
<1> QED
  BY <1>1, <1>2, <1>3, <1>4, <1>5, <1>6

\* An operation that reads keeps the invariant if what it goes on with is sound.
LEMMA ContinueStep ==
    ASSUME IInv, TypeOK', NEW a \in Actor, NEW holds, NEW task,
           Continue(a, holds, task), holds => JobOK(task)
    PROVE  IInv'
<1>1. CASE holds
  BY <1>1, ReadStep DEF Continue
<1>2. CASE ~holds
  <2>1. job' = [job EXCEPT ![a] = Idle]
    BY <1>2 DEF Continue
  <2>2. UNCHANGED <<artifact, ledger, recorded>>
    BY DEF Continue
  <2> QED
    BY <2>1, <2>2, ReadStep
<1> QED
  BY <1>1, <1>2

LEMMA ReadingStep ==
    ASSUME IInv, TypeOK', NEW a \in Actor, Read(a)
    PROVE  IInv'
<1>0. job[a] # Idle /\ JobOK(job[a]) /\ job[a] \in Busy /\ job[a].body \in Content
  <2>1. job[a] # Idle
    BY DEF Read, RecordProduced, ListRecords, ReadChosen, ChainReject, ReadRejected,
       ChainTransition, ReadTransition, ChainNext, At
  <2> QED
    BY <2>1 DEF IInv, TypeOK, Busy
<1>1. CASE RecordProduced(a)
  <2> DEFINE next == [job[a] EXCEPT !.at = "open_artifact"]
  <2>1. /\ next.at = "open_artifact" /\ next.kind = job[a].kind /\ next.body = job[a].body
        /\ next.id = job[a].id /\ next.chain = job[a].chain
    BY <1>0 DEF Busy
  <2>2. job[a].at = "recording" /\ job[a].kind = "candidate"
    BY <1>0, <1>1 DEF RecordProduced, At, JobOK, StageOK
  <2>3. JobOK(next)
    <3> HIDE DEF next
    <3> QED
      BY <1>0, <2>1, <2>2 DEF JobOK, StageOK, SubjectOK, WriteOK
  <2> QED
    BY <1>1, <2>3, ContinueStep DEF RecordProduced
<1>2. CASE ListRecords(a)
  <2> DEFINE s == job[a].body.src
             next(v) == [job[a] EXCEPT !.at = "chosen", !.body = Result(s, v, "pending")]
  <2>1. job[a].at = "listing" /\ job[a].kind = "final"
    BY <1>0, <1>2 DEF ListRecords, At, JobOK, StageOK
  <2>2. CASE Continue(a, FALSE, Idle)
    BY <2>2, ContinueStep
  <2>3. ASSUME NEW v \in Records(s), Continue(a, TRUE, next(v)) PROVE IInv'
    <3>1. /\ next(v).at = "chosen" /\ next(v).kind = "final" /\ next(v).body.vals = {v}
          /\ next(v).id = job[a].id
      BY <1>0, <2>1 DEF Busy, Result
    <3>2. Backed({v})
      BY DEF Records, Whole, Backed
    <3>3. JobOK(next(v))
      <4> HIDE DEF next
      <4> QED
        BY <3>1, <3>2 DEF JobOK, StageOK, SubjectOK, Writing
    <3> QED
      BY <2>3, <3>3, ContinueStep
  <2> QED
    BY <1>2, <2>2, <2>3 DEF ListRecords
<1>3. CASE ReadChosen(a)
  <2>1. job[a].at = "chosen" /\ job[a].kind = "final" /\ Backed(job[a].body.vals)
    BY <1>0, <1>3 DEF ReadChosen, At, JobOK, StageOK
  <2>2. PICK v \in job[a].body.vals :
           Continue(a, CandidateOf(job[a].body.src, v), WithOutcome(a, v))
    BY <1>3 DEF ReadChosen
  <2>3. CandidateOf(job[a].body.src, v) => JobOK(WithOutcome(a, v))
    BY <1>3, <2>1, <2>2, ReadCandidate DEF ReadChosen, Reading
  <2> QED
    BY <2>2, <2>3, ContinueStep
<1>4. CASE ReadRejected(a)
  <2>1. job[a].kind = "reject"
    BY <1>0, <1>4 DEF ReadRejected, At, JobOK, StageOK
  <2>2. PICK v \in job[a].body.vals :
           Continue(a, /\ CandidateOf(job[a].body.src, v)
                       /\ artifact["candidate"][v].out = "rejected", WithOutcome(a, v))
    BY <1>4 DEF ReadRejected
  <2>3. CandidateOf(job[a].body.src, v) /\ artifact["candidate"][v].out = "rejected"
           => JobOK(WithOutcome(a, v))
    BY <1>4, <2>1, <2>2, ReadCandidate DEF ReadRejected, Reading
  <2> QED
    BY <2>2, <2>3, ContinueStep
<1>5. CASE ReadTransition(a)
  <2>1. /\ job[a].kind = "transition" /\ job[a].body.vals \subseteq {job[a].id}
        /\ job[a].body.vals \subseteq Validation
    BY <1>0, <1>5 DEF ReadTransition, At, JobOK, StageOK, SubjectOK, Content
  <2>2. PICK v \in job[a].body.vals :
           Continue(a, CandidateOf(job[a].body.src, v) /\ RejectProof(v), WithOutcome(a, v))
    BY <1>5 DEF ReadTransition
  <2>3. RejectProof(v) => artifact["reject"][job[a].id] # Absent
    BY <2>1 DEF RejectProof, IInv, FilesOK, LedgerNamesArtifact, Kind, Id
  <2>4. CandidateOf(job[a].body.src, v) /\ RejectProof(v) => JobOK(WithOutcome(a, v))
    BY <1>5, <2>1, <2>2, <2>3, ReadCandidate DEF ReadTransition, Reading
  <2> QED
    BY <2>2, <2>4, ContinueStep
<1>6. ASSUME NEW at, NEW kind, NEW next,
             \/ at = "chain_reject" /\ kind = "reject" /\ next = "rejecting"
             \/ at = "chain_transition" /\ kind = "transition" /\ next = "transiting",
             ChainNext(a, at, kind, next)
      PROVE IInv'
  <2> DEFINE task == [job[a] EXCEPT !.at = next, !.kind = kind]
  <2>1. /\ task.at = next /\ task.kind = kind /\ task.body = job[a].body /\ task.id = job[a].id
        /\ task.chain = job[a].chain
    BY <1>0 DEF Busy
  <2>2. job[a].at = at
    BY <1>6 DEF ChainNext, At
  <2>3. job[a].kind # "handoff"
    BY <1>0, <1>6, <2>2 DEF JobOK, StageOK
  <2>4. JobOK(task)
    <3> HIDE DEF task
    <3> QED
      BY <1>0, <1>6, <2>1, <2>2, <2>3 DEF JobOK, StageOK, SubjectOK, Writing
  <2> QED
    BY <1>6, <2>4, ContinueStep DEF ChainNext
<1> QED
  BY <1>1, <1>2, <1>3, <1>4, <1>5, <1>6 DEF Read, ChainReject, ChainTransition

\* The next writing step of a job is as sound as the last one.
LEMMA NextStage ==
    ASSUME IInv, NEW a \in Actor, NEW stage \in Writing, At(a, stage), Grows,
           NEW next \in Writing, NEW task, task = [job[a] EXCEPT !.at = next],
           next \in {"open_ledger", "fill_ledger"} =>
              artifact'[job[a].kind][job[a].id] # Absent
    PROVE  JobOK(task)'
<1>1. job[a] \in Busy /\ job[a].at = stage /\ JobOK(job[a])
  BY BusyJob DEF IInv, At
<1>2. /\ task \in Busy /\ task.at = next /\ task.kind = job[a].kind /\ task.id = job[a].id
      /\ task.body = job[a].body /\ task.chain = job[a].chain
  BY <1>1 DEF Busy
<1>3. SubjectOK(task) /\ StageOK(task) /\ WriteOK(task)
  BY <1>1, <1>2 DEF JobOK, StageOK, SubjectOK, WriteOK, Writing
<1>4. WriteOK(task)'
  BY <1>2, <1>3, WriteKept
<1> QED
  BY <1>2, <1>3, <1>4 DEF JobOK, StageOK, SubjectOK, Writing

\* The step writes nothing but file f of kind k0 under id i0, artifact or ledger entry.
WritesOnly(k0, i0, f) ==
    \A k \in Kind, i \in Id :
        /\ artifact'[k][i] # artifact[k][i] => k = k0 /\ i = i0 /\ artifact'[k][i] = f
        /\ ledger'[k][i] # ledger[k][i] =>
              /\ k = k0 /\ i = i0 /\ ledger'[k][i] = f
              /\ artifact'[k][i] # Absent

\* File f of that kind and id is torn, or says what it may.
MaySay(k0, i0, f) ==
    /\ Whole(f) =>
          /\ k0 = "candidate" => artifact' = artifact \/ <<f.src, i0, f.out>> \in recorded'
          /\ k0 \in {"final", "reject", "transition"} => Tells(f) \subseteq recorded'
          /\ k0 = "reject" => f.out = "rejected"
          /\ k0 = "final" => \A v \in f.vals : ledger'["candidate"][v] # Absent
    /\ k0 = "transition" => artifact'["reject"][i0] # Absent

LEMMA FilesStep ==
    ASSUME IInv, Grows, NEW k0 \in Kind, NEW i0 \in Id, NEW f,
           WritesOnly(k0, i0, f), MaySay(k0, i0, f)
    PROVE  FilesOK'
<1> USE DEF Kind, Id, WritesOnly, MaySay
<1>1. FilesOK
  BY DEF IInv
<1>2. (\A v \in Validation : Whole(artifact["candidate"][v]) =>
          <<artifact["candidate"][v].src, v, artifact["candidate"][v].out>> \in recorded)'
  BY <1>1 DEF FilesOK, Grows, Whole
<1>3. DecisionsTellCandidates'
  BY <1>1 DEF FilesOK, Grows, DecisionsTellCandidates, Whole
<1>4. OnlyRejectedIsRejected'
  BY <1>1 DEF FilesOK, OnlyRejectedIsRejected, Whole
<1>5. TransitionHasReject'
  BY <1>1 DEF FilesOK, Grows, TransitionHasReject
<1>6. LedgerNamesArtifact'
  BY <1>1 DEF FilesOK, Grows, LedgerNamesArtifact
<1>7. FinalHasCandidate'
  <2> SUFFICES ASSUME NEW s \in Source, Whole(artifact'["final"][s]),
                      NEW v \in artifact'["final"][s].vals
               PROVE  ledger'["candidate"][v] # Absent
    BY DEF FinalHasCandidate, Whole
  <2>1. CASE artifact'["final"][s] = artifact["final"][s]
    <3>1. v \in Validation
      BY <2>1 DEF IInv, TypeOK, Content, Whole
    <3>2. ledger["candidate"][v] # Absent
      BY <1>1, <2>1 DEF FilesOK, FinalHasCandidate, Whole
    <3> QED
      BY <3>1, <3>2 DEF Grows
  <2>2. CASE artifact'["final"][s] # artifact["final"][s]
    BY <2>2
  <2> QED
    BY <2>1, <2>2
<1> QED
  BY <1>2, <1>3, <1>4, <1>5, <1>6, <1>7 DEF FilesOK

LEMMA OpenArtifactStep ==
    ASSUME IInv, TypeOK', NEW a \in Actor, OpenArtifact(a)
    PROVE  IInv'
<1>1. job[a] \in Busy /\ job[a].kind \in Kind /\ job[a].id \in Id /\ JobOK(job[a])
  BY BusyJob DEF IInv, OpenArtifact, Busy, At
<1>2. \A k \in Kind, i \in Id :
         artifact'[k][i] = IF k = job[a].kind /\ i = job[a].id THEN Torn ELSE artifact[k][i]
  BY <1>1 DEF OpenArtifact, IInv, TypeOK
<1>3. Grows
  BY <1>2, GovernanceAssumption DEF OpenArtifact, Grows
<1>4. job[a].kind = "transition" => artifact'["reject"][job[a].id] # Absent
  BY <1>1, <1>3 DEF OpenArtifact, At, JobOK, WriteOK, Writing, Grows, Kind
<1>5. FilesOK'
  <2>1. ledger' = ledger /\ ~Whole(Torn)
    BY DEF OpenArtifact, Whole
  <2>2. WritesOnly(job[a].kind, job[a].id, Torn)
    BY <1>1, <1>2, <2>1 DEF WritesOnly
  <2>3. MaySay(job[a].kind, job[a].id, Torn)
    BY <1>4, <2>1 DEF MaySay
  <2> QED
    BY <1>1, <1>3, <2>2, <2>3, FilesStep
<1>6. PICK task : task = [job[a] EXCEPT !.at = "fill_artifact"]
  OBVIOUS
<1>7. JobOK(task)'
  BY <1>3, <1>6, NextStage DEF OpenArtifact, Writing
<1> QED
  BY <1>3, <1>5, <1>6, <1>7, WriteStep DEF OpenArtifact

LEMMA FillArtifactStep ==
    ASSUME IInv, TypeOK', NEW a \in Actor, FillArtifact(a)
    PROVE  IInv'
<1>1. /\ job[a] \in Busy /\ job[a].kind \in Kind /\ job[a].id \in Id /\ JobOK(job[a])
      /\ job[a].body \in Content /\ job[a].body.vals \subseteq Id /\ WriteOK(job[a])
  BY BusyJob DEF IInv, FillArtifact, Busy, At, JobOK, Writing, Content, Id
<1>2. \A k \in Kind, i \in Id :
         artifact'[k][i] = IF k = job[a].kind /\ i = job[a].id THEN job[a].body
                           ELSE artifact[k][i]
  BY <1>1 DEF FillArtifact, IInv, TypeOK
<1>3. Grows
  BY <1>1, <1>2, GovernanceAssumption DEF FillArtifact, Grows
<1>4. WriteOK(job[a]) =>
         /\ job[a].kind \in {"final", "reject", "transition"} => Tells(job[a].body) \subseteq recorded'
         /\ job[a].kind = "reject" => job[a].body.out = "rejected"
         /\ job[a].kind = "final" => \A v \in job[a].body.vals : ledger'["candidate"][v] # Absent
         /\ job[a].kind = "transition" => artifact'["reject"][job[a].id] # Absent
  BY <1>1, <1>3 DEF WriteOK, Grows, Kind, Backed
<1>5. job[a].kind = "candidate" => <<job[a].body.src, job[a].id, job[a].body.out>> \in recorded'
  BY DEF FillArtifact
<1>6. FilesOK'
  <2>1. ledger' = ledger
    BY DEF FillArtifact
  <2>2. WritesOnly(job[a].kind, job[a].id, job[a].body)
    BY <1>1, <1>2, <2>1 DEF WritesOnly
  <2>3. MaySay(job[a].kind, job[a].id, job[a].body)
    BY <1>1, <1>4, <1>5 DEF MaySay
  <2> QED
    BY <1>1, <1>3, <2>2, <2>3, FilesStep
<1>7. PICK task : task = [job[a] EXCEPT !.at = "open_ledger"]
  OBVIOUS
<1>8. artifact'[job[a].kind][job[a].id] # Absent
  BY <1>1, <1>2, GovernanceAssumption
<1>9. JobOK(task)'
  BY <1>3, <1>7, <1>8, NextStage DEF FillArtifact, Writing
<1> QED
  BY <1>3, <1>6, <1>7, <1>9, WriteStep DEF FillArtifact

LEMMA OpenLedgerStep ==
    ASSUME IInv, TypeOK', NEW a \in Actor, OpenLedger(a)
    PROVE  IInv'
<1>1. /\ job[a] \in Busy /\ job[a].kind \in Kind /\ job[a].id \in Id /\ JobOK(job[a])
      /\ artifact'[job[a].kind][job[a].id] # Absent /\ WriteOK(job[a])
  BY BusyJob DEF IInv, OpenLedger, Busy, At, JobOK, Writing
<1>2. \A k \in Kind, i \in Id :
         ledger'[k][i] = IF k = job[a].kind /\ i = job[a].id THEN Torn ELSE ledger[k][i]
  BY <1>1 DEF OpenLedger, IInv, TypeOK
<1>3. Grows
  BY <1>2, GovernanceAssumption DEF OpenLedger, Grows
<1>4. job[a].kind = "transition" => artifact'["reject"][job[a].id] # Absent
  BY <1>1, <1>3 DEF WriteOK, Grows, Kind
<1>5. FilesOK'
  <2>1. artifact' = artifact /\ ~Whole(Torn)
    BY DEF OpenLedger, Whole
  <2>2. WritesOnly(job[a].kind, job[a].id, Torn)
    BY <1>1, <1>2, <2>1 DEF WritesOnly
  <2>3. MaySay(job[a].kind, job[a].id, Torn)
    BY <1>4, <2>1 DEF MaySay
  <2> QED
    BY <1>1, <1>3, <2>2, <2>3, FilesStep
<1>6. PICK task : task = [job[a] EXCEPT !.at = "fill_ledger"]
  OBVIOUS
<1>7. JobOK(task)'
  BY <1>1, <1>3, <1>6, NextStage DEF OpenLedger, Writing
<1> QED
  BY <1>3, <1>5, <1>6, <1>7, WriteStep DEF OpenLedger

LEMMA FillLedgerStep ==
    ASSUME IInv, TypeOK', NEW a \in Actor, FillLedger(a)
    PROVE  IInv'
<1>0. artifact' = artifact /\ recorded' = recorded
  BY DEF FillLedger
<1>1. /\ job[a] \in Busy /\ job[a].kind \in Kind /\ job[a].id \in Id /\ JobOK(job[a])
      /\ artifact[job[a].kind][job[a].id] # Absent /\ WriteOK(job[a])
      /\ job[a].body \in Content /\ job[a].body.vals \subseteq Id /\ job[a].at = "fill_ledger"
  BY BusyJob DEF IInv, FillLedger, Busy, At, JobOK, Writing, Content, Id
<1>2. \A k \in Kind, i \in Id :
         ledger'[k][i] = IF k = job[a].kind /\ i = job[a].id THEN job[a].body ELSE ledger[k][i]
  BY <1>1 DEF FillLedger, IInv, TypeOK
<1>3. Grows
  BY <1>0, <1>1, <1>2, GovernanceAssumption DEF Grows
<1>4. /\ job[a].kind \in {"final", "reject", "transition"} => Tells(job[a].body) \subseteq recorded'
      /\ job[a].kind = "reject" => job[a].body.out = "rejected"
      /\ job[a].kind = "final" => \A v \in job[a].body.vals : ledger'["candidate"][v] # Absent
      /\ job[a].kind = "transition" => artifact'["reject"][job[a].id] # Absent
  BY <1>0, <1>1, <1>3 DEF WriteOK, Grows, Kind, Backed
<1>5. FilesOK'
  <2>1. artifact' = artifact
    BY <1>0
  <2>2. WritesOnly(job[a].kind, job[a].id, job[a].body)
    BY <1>1, <1>2, <2>1 DEF WritesOnly
  <2>3. MaySay(job[a].kind, job[a].id, job[a].body)
    BY <1>4, <2>1 DEF MaySay
  <2> QED
    BY <1>1, <1>3, <2>2, <2>3, FilesStep
<1>6. CASE job' = [job EXCEPT ![a] = Idle]
  BY <1>3, <1>5, <1>6, WriteStep
<1>7. ASSUME ChainGoesOn(job[a]), NEW v \in job[a].body.vals, NEW next,
             next = IF job[a].kind = "final" THEN "chain_reject" ELSE "chain_transition",
             job' = [job EXCEPT ![a] = [@ EXCEPT !.id = v, !.at = next]]
      PROVE IInv'
  <2>1. PICK task : task = [job[a] EXCEPT !.id = v, !.at = next]
    OBVIOUS
  <2>2. /\ task.at = next /\ task.id = v /\ task.kind = job[a].kind
        /\ task.body = job[a].body /\ task.chain = job[a].chain
    BY <1>1, <2>1 DEF Busy
  <2>3. \/ job[a].kind = "final" /\ next = "chain_reject"
        \/ job[a].kind = "reject" /\ next = "chain_transition"
    BY <1>1, <1>7 DEF ChainGoesOn, JobOK, StageOK
  <2>4. job[a].body.vals \subseteq {v}
    BY <1>1, <2>3 DEF JobOK, SubjectOK
  <2>5. JobOK(task)'
    BY <1>1, <2>2, <2>3, <2>4 DEF JobOK, StageOK, SubjectOK, Writing
  <2>6. job' = [job EXCEPT ![a] = task]
    BY <1>1, <1>7, <2>1 DEF IInv, TypeOK
  <2> QED
    BY <1>3, <1>5, <2>5, <2>6, WriteStep
<1> QED
  BY <1>6, <1>7 DEF FillLedger

LEMMA OperationIInv ==
    ASSUME IInv, TypeOK', NEW a \in Actor, Operation(a)
    PROVE  IInv'
<1>1. CASE Crash(a)
  <2>1. PICK task : task = Idle
    OBVIOUS
  <2> QED
    BY <1>1, <2>1, ReadStep DEF Crash
<1>2. CASE Read(a)
  BY <1>2, ReadingStep
<1>3. CASE Write(a)
  BY <1>3, OpenArtifactStep, FillArtifactStep, OpenLedgerStep, FillLedgerStep DEF Write
<1> QED
  BY <1>1, <1>2, <1>3, RequestStep DEF Operation

LEMMA StepIInv == IInv /\ [Next]_vars => IInv'
<1> SUFFICES ASSUME IInv, [Next]_vars PROVE IInv'
  OBVIOUS
<1>1. TypeOK'
  BY StepType DEF IInv
<1>2. ASSUME NEW s \in Source, NEW b \in Batches, MaterializeBenchmark(s, b) PROVE IInv'
  BY <1>1, <1>2 DEF MaterializeBenchmark, IInv, FilesOK, DecisionsTellCandidates,
     OnlyRejectedIsRejected, TransitionHasReject, LedgerNamesArtifact, FinalHasCandidate,
     JobOK, WriteOK, Backed
<1>3. ASSUME NEW a \in Actor, Request(a) \/ Read(a) \/ Write(a) \/ Crash(a) PROVE IInv'
  BY <1>1, <1>3, OperationIInv DEF Request, Operation
<1>4. CASE UNCHANGED vars
  BY <1>1, <1>4 DEF vars, IInv, FilesOK, DecisionsTellCandidates,
     OnlyRejectedIsRejected, TransitionHasReject, LedgerNamesArtifact, FinalHasCandidate,
     JobOK, WriteOK, Backed
<1> QED
  BY <1>2, <1>3, <1>4 DEF Next

\* Final selections, reject executions and status transitions only tell outcomes
\* that were persisted as candidates of the same validation for the same run
\* (run_governance_final_validation_selection, _reject_execution, _status_transition).
THEOREM DecisionProvenance == Spec => []DecisionsTellCandidates
<1>1. IInv => DecisionsTellCandidates
  BY DEF IInv, FilesOK
<1> QED
  BY <1>1, InitIInv, StepIInv, PTL DEF Spec

\* A reject execution is always of a rejected outcome
\* (build_reject_decision_record_from_validation_result).
THEOREM RejectSoundness == Spec => []OnlyRejectedIsRejected
<1>1. IInv => OnlyRejectedIsRejected
  BY DEF IInv, FilesOK
<1> QED
  BY <1>1, InitIInv, StepIInv, PTL DEF Spec

\* No status transition without the reject execution that proves it
\* (_resolve_reject_transition_proof).
THEOREM TransitionProof == Spec => []TransitionHasReject
<1>1. IInv => TransitionHasReject
  BY DEF IInv, FilesOK
<1> QED
  BY <1>1, InitIInv, StepIInv, PTL DEF Spec

\* A ledger entry names an artifact that was written, whoever died on the way
\* (materialize_governance_*).
THEOREM ArtifactFirst == Spec => []LedgerNamesArtifact
<1>1. IInv => LedgerNamesArtifact
  BY DEF IInv, FilesOK
<1> QED
  BY <1>1, InitIInv, StepIInv, PTL DEF Spec

\* A final selection is backed by a candidate record
\* (_resolve_unique_candidate_validation_record).
THEOREM FinalBacking == Spec => []FinalHasCandidate
<1>1. IInv => FinalHasCandidate
  BY DEF IInv, FilesOK
<1> QED
  BY <1>1, InitIInv, StepIInv, PTL DEF Spec

\* Where an operation takes up the validation of its outcome, there is one.
SubjectAtHand ==
    \A a \in Actor :
        \/ At(a, "chosen") \/ At(a, "rejecting") \/ At(a, "transiting")
        \/ At(a, "fill_ledger") /\ ChainGoesOn(job[a])
        => \E v \in Validation : job[a].body.vals = {v}

\* No operation stops halfway for want of a next step: the reads and the chain
\* that go over the validations of an outcome always find exactly one.
THEOREM OperationsGoOn == Spec => []SubjectAtHand
<1>1. IInv => SubjectAtHand
  <2> SUFFICES ASSUME IInv, NEW a \in Actor, job[a] # Idle,
                      \/ job[a].at \in {"chosen", "rejecting", "transiting"}
                      \/ job[a].at = "fill_ledger" /\ job[a].chain
               PROVE  \E v \in Validation : job[a].body.vals = {v}
    BY DEF SubjectAtHand, At, ChainGoesOn
  <2>1. job[a].body.vals \subseteq Validation
    BY DEF IInv, TypeOK, Busy, Content
  <2>2. job[a].kind # "handoff"
    BY DEF IInv, JobOK, StageOK
  <2>3. /\ job[a].body.vals # {}
        /\ \A u, w \in job[a].body.vals : u = w
    BY <2>2 DEF IInv, JobOK, SubjectOK
  <2>4. PICK v : v \in job[a].body.vals
    BY <2>3
  <2>5. job[a].body.vals = {v} /\ v \in Validation
    BY <2>1, <2>3, <2>4
  <2> QED
    BY <2>5
<1> QED
  BY <1>1, InitIInv, StepIInv, PTL DEF Spec

-----------------------------------------------------------------------------
(* The daily chain *)

LEMMA DailyOperates ==
    ASSUME TypeOK, [DailyNext]_dailyVars
    PROVE  /\ begun' \in Nat
           /\ UNCHANGED vars \/ \E a \in Actor : Operation(a)
<1> USE DailyAssumption
<1>1. ASSUME NEW a \in Actor, Read(a) \/ Write(a) \/ Crash(a)
      PROVE  Operation(a) /\ begun' = begun
  BY <1>1 DEF Operation, Read, Write, Crash, RecordProduced, ListRecords, ReadChosen,
     ChainReject, ReadRejected, ChainTransition, ReadTransition, ChainNext, Continue,
     OpenArtifact, FillArtifact, OpenLedger, FillLedger
<1>2. ASSUME NEW a \in Actor, Request(a) PROVE Operation(a) /\ begun' \in Nat
  BY <1>2 DEF Request, Operation, Counted, TypeOK
<1>3. CASE StartTask
  BY <1>3 DEF StartTask, Execute, Operation, TypeOK
<1>4. CASE FailTask \/ UNCHANGED dailyVars
  BY <1>4 DEF FailTask, dailyVars, vars, TypeOK
<1>5. CASE RunTask \/ DailyDies
  BY <1>1, <1>5 DEF RunTask, DailyDies, TypeOK
<1>6. CASE Others
  BY <1>1, <1>2, <1>6 DEF Others, TypeOK
<1> QED
  BY <1>3, <1>4, <1>5, <1>6 DEF DailyNext, DailyStep

LEMMA DailyIInv == IInv /\ [DailyNext]_dailyVars => IInv'
<1> SUFFICES ASSUME IInv, [DailyNext]_dailyVars PROVE IInv'
  OBVIOUS
<1>1. TypeOK /\ begun' \in Nat /\ (UNCHANGED vars \/ \E a \in Actor : Operation(a))
  BY DailyOperates DEF IInv
<1>2. CASE UNCHANGED vars
  BY <1>2, StepIInv
<1>3. ASSUME NEW a \in Actor, Operation(a) PROVE IInv'
  BY <1>1, <1>3, OperationType, OperationIInv
<1> QED
  BY <1>1, <1>2, <1>3

\* The same holds of the runtime under the daily plan, whose tasks start as often
\* as the plan likes while the other actors submit and decide.
THEOREM DailyChainSafe ==
    DailySpec => [](/\ DecisionsTellCandidates /\ OnlyRejectedIsRejected
                    /\ TransitionHasReject /\ LedgerNamesArtifact
                    /\ FinalHasCandidate)
<1>1. DailyInit => IInv
  BY InitIInv DEF DailyInit
<1>2. IInv => /\ DecisionsTellCandidates /\ OnlyRejectedIsRejected
              /\ TransitionHasReject /\ LedgerNamesArtifact
              /\ FinalHasCandidate
  BY DEF IInv, FilesOK
<1> QED
  BY <1>1, <1>2, DailyIInv, PTL DEF DailySpec

\* What the task under way is, by the turn of the plan.
TaskOfTurn ==
    /\ turn \in {"handoff", "bridge", "selection"}
    /\ job[Daily] # Idle =>
          /\ turn = "handoff" => job[Daily].kind = "handoff" /\ job[Daily].id = Run
          /\ turn = "bridge" => job[Daily].kind = "candidate" /\ job[Daily].body.src = Run
          /\ turn = "selection" => job[Daily].kind = "final" /\ job[Daily].id = Run
          /\ ~job[Daily].chain
          /\ job[Daily].at \notin {"chain_reject", "chain_transition"}

LEMMA TurnInit == DailyInit => TaskOfTurn
BY DailyAssumption DEF DailyInit, Init, TaskOfTurn

\* An operation outside the chain stays with its kind and file to its end.
LEMMA TaskGoesOn ==
    ASSUME IInv, NEW a \in Actor, Read(a) \/ Write(a), job'[a] # Idle,
           job[a] # Idle => ~job[a].chain /\ job[a].at \notin {"chain_reject", "chain_transition"}
    PROVE  /\ job[a] # Idle
           /\ job'[a].kind = job[a].kind /\ job'[a].id = job[a].id
           /\ job'[a].chain = job[a].chain
           /\ job[a].kind = "candidate" => job'[a].body = job[a].body
           /\ job'[a].at \notin {"chain_reject", "chain_transition"}
<1>1. /\ job[a] # Idle /\ job[a] \in Busy /\ StageOK(job[a]) /\ ~job[a].chain
      /\ job[a].at \notin {"chain_reject", "chain_transition"}
  BY DEF IInv, TypeOK, JobOK, At, Read, Write, RecordProduced, ListRecords, ReadChosen,
     ChainReject, ReadRejected, ChainTransition, ReadTransition, ChainNext,
     OpenArtifact, FillArtifact, OpenLedger, FillLedger
<1>2. job \in [Actor -> Busy \union {Idle}]
  BY DEF IInv, TypeOK
<1> USE <1>1, <1>2 DEF Busy, At, Continue, StageOK
<1>3. CASE RecordProduced(a)
  BY <1>3 DEF RecordProduced
<1>4. CASE ListRecords(a)
  <2>1. PICK body : job'[a] = [job[a] EXCEPT !.at = "chosen", !.body = body]
    BY <1>4 DEF ListRecords
  <2>2. job[a].kind = "final"
    BY <1>4 DEF ListRecords
  <2> QED
    BY <2>1, <2>2
<1>5. CASE ReadChosen(a) \/ ReadRejected(a) \/ ReadTransition(a)
  <2>1. PICK v : job'[a] = WithOutcome(a, v)
    BY <1>5 DEF ReadChosen, ReadRejected, ReadTransition
  <2>2. job[a].kind # "candidate"
    BY <1>5 DEF ReadChosen, ReadRejected, ReadTransition
  <2> QED
    BY <2>1, <2>2 DEF WithOutcome
<1>6. CASE ChainReject(a) \/ ChainTransition(a)
  BY <1>6 DEF ChainReject, ChainTransition, ChainNext
<1>7. CASE OpenArtifact(a) \/ FillArtifact(a) \/ OpenLedger(a)
  BY <1>7 DEF OpenArtifact, FillArtifact, OpenLedger
<1>8. CASE FillLedger(a)
  BY <1>8 DEF FillLedger, ChainGoesOn
<1> QED
  BY <1>3, <1>4, <1>5, <1>6, <1>7, <1>8 DEF Read, Write

LEMMA TurnNext ==
    ASSUME IInv, TaskOfTurn, [DailyNext]_dailyVars
    PROVE  TaskOfTurn'
<1> USE DailyAssumption
<1>0. job \in [Actor -> Busy \union {Idle}]
  BY DEF IInv, TypeOK
<1>1. CASE MaterializeHandoff(Daily, Run) /\ turn = "handoff" /\ turn' = turn
  BY <1>0, <1>1 DEF MaterializeHandoff, Begin, Task, TaskOfTurn
<1>2. CASE Bridge(Daily, Run) /\ turn = "bridge" /\ turn' = turn
  BY <1>0, <1>2 DEF Bridge, Begin, RecordTask, Task, Result, TaskOfTurn
<1>3. CASE Select(Daily, Run, FALSE) /\ turn = "selection" /\ turn' = turn
  BY <1>0, <1>3 DEF Select, Begin, Task, TaskOfTurn
<1>4. CASE FailTask \/ UNCHANGED dailyVars
  BY <1>4 DEF FailTask, dailyVars, vars, TaskOfTurn
<1>5. CASE RunTask
  <2>1. turn' \in {"handoff", "bridge", "selection"}
    BY <1>5 DEF RunTask, NextTask, TaskOfTurn
  <2>2. CASE job'[Daily] # Idle
    <3>1. turn' = turn
      BY <1>5, <2>2 DEF RunTask
    <3>2. Read(Daily) \/ Write(Daily)
      BY <1>5 DEF RunTask
    <3>3. /\ job[Daily] # Idle
          /\ job'[Daily].kind = job[Daily].kind /\ job'[Daily].id = job[Daily].id
          /\ job'[Daily].chain = job[Daily].chain
          /\ job[Daily].kind = "candidate" => job'[Daily].body = job[Daily].body
          /\ job'[Daily].at \notin {"chain_reject", "chain_transition"}
      BY <2>2, <3>2, TaskGoesOn DEF TaskOfTurn
    <3> QED
      BY <3>1, <3>3 DEF TaskOfTurn
  <2>3. CASE job'[Daily] = Idle
    BY <2>1, <2>3 DEF TaskOfTurn
  <2> QED
    BY <2>2, <2>3
<1>6. CASE DailyDies
  BY <1>0, <1>6 DEF DailyDies, Crash, TaskOfTurn
<1>7. CASE Others
  <2>1. turn' = turn
    BY <1>7 DEF Others
  <2>2. job'[Daily] = job[Daily]
    <3>1. PICK a \in Actor \ {Daily} : Request(a) \/ Read(a) \/ Write(a) \/ Crash(a)
      BY <1>7 DEF Others
    <3>2. Request(a) => job'[Daily] = job[Daily]
      BY <1>0, <3>1 DEF Request, MaterializeHandoff, Bridge, Select, SubmitOutcome,
         Reject, Transition, Prepare
    <3>3. Read(a) => job'[Daily] = job[Daily]
      BY <1>0, <3>1 DEF Read, RecordProduced, ListRecords, ReadChosen, ChainReject,
         ReadRejected, ChainTransition, ReadTransition, ChainNext, Continue
    <3>4. Write(a) \/ Crash(a) => job'[Daily] = job[Daily]
      BY <1>0, <3>1 DEF Write, OpenArtifact, FillArtifact, OpenLedger, FillLedger, Crash
    <3> QED
      BY <3>1, <3>2, <3>3, <3>4
  <2> QED
    BY <2>1, <2>2 DEF TaskOfTurn
<1> QED
  BY <1>1, <1>2, <1>3, <1>4, <1>5, <1>6, <1>7
  DEF DailyNext, DailyStep, StartTask, Execute

\* What may change on the disk when the daily plan takes a step.
WritesItsOwn ==
    \A k \in Kind, i \in Id :
        \/ artifact'[k][i] = artifact[k][i] /\ ledger'[k][i] = ledger[k][i]
        \/ k = "candidate"
        \/ k \in {"handoff", "final"} /\ i = Run

LEMMA DailyWrites ==
    ASSUME IInv, TaskOfTurn, DailyStep
    PROVE  WritesItsOwn
<1> USE DailyAssumption DEF IInv, TypeOK
<1>1. CASE StartTask \/ FailTask \/ (RunTask /\ Read(Daily))
  <2>1. artifact' = artifact /\ ledger' = ledger
    BY <1>1 DEF StartTask, Execute, MaterializeHandoff, Bridge, Select, Begin, FailTask,
       vars, Read, RecordProduced, ListRecords, ReadChosen, ChainReject, ReadRejected,
       ChainTransition, ReadTransition, ChainNext, Continue
  <2> QED
    BY <2>1 DEF WritesItsOwn
<1>2. CASE RunTask /\ Write(Daily)
  <2>1. job[Daily] # Idle /\ job[Daily] \in Busy
    BY <1>2 DEF Write, OpenArtifact, FillArtifact, OpenLedger, FillLedger, At
  <2> DEFINE kind == job[Daily].kind
             file == job[Daily].id
  <2>2. kind = "candidate" \/ (kind \in {"handoff", "final"} /\ file = Run)
    BY <2>1 DEF TaskOfTurn
  <2>3. \A k \in Kind, i \in Id : k # kind \/ i # file =>
           artifact'[k][i] = artifact[k][i] /\ ledger'[k][i] = ledger[k][i]
    <3>1. \/ ledger' = ledger /\ \E f : artifact' = [artifact EXCEPT ![kind][file] = f]
          \/ artifact' = artifact /\ \E f : ledger' = [ledger EXCEPT ![kind][file] = f]
      BY <1>2 DEF Write, OpenArtifact, FillArtifact, OpenLedger, FillLedger
    <3>2. ASSUME NEW T, NEW t \in [Kind -> [Id -> T]], NEW u, NEW f,
                 u = [t EXCEPT ![kind][file] = f],
                 NEW k \in Kind, NEW i \in Id, k # kind \/ i # file
          PROVE  u[k][i] = t[k][i]
      <4> HIDE DEF kind, file, IInv, TypeOK
      <4> QED
        BY <3>2
    <3>3. PICK T : artifact \in [Kind -> [Id -> T]] /\ ledger \in [Kind -> [Id -> T]]
      BY DEF IInv, TypeOK
    <3> HIDE DEF kind, file, IInv, TypeOK
    <3>4. CASE ledger' = ledger /\ \E f : artifact' = [artifact EXCEPT ![kind][file] = f]
      BY <3>2, <3>3, <3>4
    <3>5. CASE artifact' = artifact /\ \E f : ledger' = [ledger EXCEPT ![kind][file] = f]
      BY <3>2, <3>3, <3>5
    <3> QED
      BY <3>1, <3>4, <3>5
  <2> QED
    BY <2>2, <2>3 DEF WritesItsOwn
<1> QED
  BY <1>1, <1>2 DEF DailyStep, RunTask

\* The daily plan prepares decisions and never takes one: whatever it meets
\* half-written, it writes the handoff and the final selection of its own run and
\* candidate outcomes, and no reject execution or status transition.
THEOREM DailyDecidesNothing ==
    DailySpec => [][DailyStep => WritesItsOwn]_dailyVars
<1>1. DailyInit => IInv /\ TaskOfTurn
  BY InitIInv, TurnInit DEF DailyInit
<1>2. IInv /\ TaskOfTurn /\ [DailyNext]_dailyVars => (IInv /\ TaskOfTurn)'
  BY DailyIInv, TurnNext
<1>3. IInv /\ TaskOfTurn => (DailyStep => WritesItsOwn)
  BY DailyWrites
<1> QED
  BY <1>1, <1>2, <1>3, PTL DEF DailySpec
=============================================================================
