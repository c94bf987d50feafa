--------------------------- MODULE RunLockProofs ---------------------------
(***************************************************************************)
(* Proofs about the run lock, for any set of runs and processes.           *)
(***************************************************************************)
EXTENDS RunLock, TLAPS

USE DEF Holding, Phase

LEMMA InitType == Init => TypeOK
<1> SUFFICES ASSUME Init PROVE TypeOK
  OBVIOUS
<1>1. faults \in 0 .. MaxFaults
  BY RunLockAssumption DEF Init
<1> QED
  BY <1>1 DEF Init, TypeOK

LEMMA StepType == TypeOK /\ [Next]_vars => TypeOK'
<1> SUFFICES ASSUME TypeOK, [Next]_vars PROVE TypeOK'
  OBVIOUS
<1> USE RunLockAssumption DEF TypeOK, LockFile, Go, Remove, Leave, Fault
<1>1. ASSUME NEW r \in Run, Start(r) PROVE TypeOK'
  BY <1>1 DEF Start
<1>2. ASSUME NEW r \in Run, Create(r) PROVE TypeOK'
  BY <1>2 DEF Create
<1>3. ASSUME NEW r \in Run, CreateExists(r) PROVE TypeOK'
  BY <1>3 DEF CreateExists
<1>4. ASSUME NEW r \in Run, CreateFails(r) PROVE TypeOK'
  BY <1>4 DEF CreateFails
<1>5. ASSUME NEW r \in Run, Write(r) PROVE TypeOK'
  BY <1>5 DEF Write
<1>6. ASSUME NEW r \in Run, WriteFails(r) PROVE TypeOK'
  <2>1. pc' \in [Run -> Phase] /\ faults' \in 0 .. MaxFaults /\ evicted' \subseteq Run
    BY <1>6 DEF WriteFails
  <2>2. file' \in LockFile \union {NoFile} /\ disturbed' \in BOOLEAN
    BY <1>6 DEF WriteFails
  <2> QED
    BY <2>1, <2>2, <1>6 DEF WriteFails
<1>7. ASSUME NEW r \in Run, Read(r) PROVE TypeOK'
  BY <1>7 DEF Read
<1>8. ASSUME NEW r \in Run, Refuse(r) PROVE TypeOK'
  BY <1>8 DEF Refuse
<1>9. ASSUME NEW r \in Run, Condemn(r) PROVE TypeOK'
  BY <1>9 DEF Condemn
<1>10. ASSUME NEW r \in Run, Unlink(r) PROVE TypeOK'
  BY <1>10 DEF Unlink
<1>11. ASSUME NEW r \in Run, UnlinkFails(r) PROVE TypeOK'
  BY <1>11 DEF UnlinkFails
<1>12. ASSUME NEW r \in Run, Finish(r) PROVE TypeOK'
  BY <1>12 DEF Finish
<1>13. ASSUME NEW r \in Run, Release(r) PROVE TypeOK'
  BY <1>13 DEF Release
<1>14. ASSUME NEW p \in Process, Crash(p) PROVE TypeOK'
  BY <1>14 DEF Crash, Gone
<1>15. ASSUME NEW p \in Process, Restart(p) PROVE TypeOK'
  BY <1>15 DEF Restart
<1>16. ASSUME NEW c \in Run, Age(c) PROVE TypeOK'
  BY <1>16 DEF Age, Grown
<1>17. CASE UNCHANGED vars
  BY <1>17 DEF vars
<1>18. ASSUME NEW r \in Run, ReleaseFails(r) PROVE TypeOK'
  BY <1>18 DEF ReleaseFails
<1>19. ASSUME NEW p \in Process, Exit(p) PROVE TypeOK'
  BY <1>19 DEF Exit, Gone
<1> QED
  BY <1>1, <1>2, <1>3, <1>4, <1>5, <1>6, <1>7,
     <1>8, <1>9, <1>10, <1>11, <1>12, <1>13, <1>14, <1>15, <1>16, <1>17, <1>18, <1>19 DEF Next, RunStep

\* Every behaviour of the lock protocol (preflight.py, acquire_lock and
\* release_lock) keeps its variables in their types.
THEOREM RunLockType == Spec => []TypeOK
<1> QED
  BY InitType, StepType, PTL DEF Spec

-----------------------------------------------------------------------------
\* A run that was requested in this life of its process has a living process.
RequestedIsUp == \A r \in Run : pc[r] # "idle" => up[ProcessOf[r]]

\* What an undisturbed state guarantees: nobody was evicted, the file at the path
\* belongs to a holder and is fresh, and a run that has read a lock text read a
\* complete, fresh one of a living process, so that its judgement can only be a
\* refusal.
Undisturbed ==
    /\ evicted = {}
    /\ file # NoFile => ~file.aged /\ pc[file.creator] \in Holding
    /\ \A r \in Run : pc[r] \notin {"unlink", "recreate"}
    /\ \A r \in Run : pc[r] = "judge" =>
          /\ seen[r] # NoFile
          /\ seen[r].text = "pid" /\ ~seen[r].aged
          /\ up[ProcessOf[seen[r].creator]]

\* The inductive invariant behind both safety properties.
IInv ==
    /\ TypeOK
    /\ RequestedIsUp
    /\ HoldersOwnTheFile
    /\ ~disturbed => Undisturbed

LEMMA InitIInv == Init => IInv
<1> SUFFICES ASSUME Init PROVE IInv
  OBVIOUS
<1>1. HoldersOwnTheFile
  BY DEF Init, HoldersOwnTheFile
<1>2. Undisturbed
  BY DEF Init, Undisturbed
<1>3. RequestedIsUp
  BY DEF Init, RequestedIsUp
<1> QED
  BY InitType, <1>1, <1>2, <1>3 DEF IInv

\* Only a crash and an exit take a process down, and they take its runs with it.
LEMMA StepUp == TypeOK /\ RequestedIsUp /\ [Next]_vars => RequestedIsUp'
<1> SUFFICES ASSUME TypeOK, RequestedIsUp, [Next]_vars PROVE RequestedIsUp'
  OBVIOUS
<1> USE RunLockAssumption DEF TypeOK, RequestedIsUp, Go
<1>1. CASE UNCHANGED <<up, pc>>
  BY <1>1
<1>2. ASSUME NEW r \in Run, Start(r) PROVE RequestedIsUp'
  BY <1>2 DEF Start
<1>3. ASSUME NEW r \in Run, up' = up, pc[r] # "idle",
             \E to \in Phase : pc' = [pc EXCEPT ![r] = to]
      PROVE RequestedIsUp'
  BY <1>3
<1>4. ASSUME NEW p \in Process, Gone(p) PROVE RequestedIsUp'
  BY <1>4 DEF Gone
<1>5. ASSUME NEW p \in Process, Restart(p) PROVE RequestedIsUp'
  BY <1>5 DEF Restart
<1>6. ASSUME NEW r \in Run, RunStep(r) PROVE RequestedIsUp'
  BY <1>2, <1>3, <1>6 DEF RunStep, Create, CreateExists, Write, Read, Refuse,
     Condemn, Unlink, UnlinkFails, Finish, Release
<1>7. ASSUME NEW r \in Run, CreateFails(r) \/ WriteFails(r) \/ ReleaseFails(r)
      PROVE RequestedIsUp'
  BY <1>3, <1>7 DEF CreateFails, WriteFails, ReleaseFails
<1> QED
  BY <1>1, <1>4, <1>5, <1>6, <1>7 DEF Next, Crash, Exit, Age, vars

\* The file at the path belongs to every holder that was not evicted: only the
\* unlinking steps take it away, and they record whom they evict.
LEMMA StepHolders == TypeOK /\ HoldersOwnTheFile /\ [Next]_vars => HoldersOwnTheFile'
<1> SUFFICES ASSUME TypeOK, HoldersOwnTheFile, [Next]_vars PROVE HoldersOwnTheFile'
  OBVIOUS
<1> USE RunLockAssumption DEF TypeOK, LockFile, HoldersOwnTheFile, Go, Remove, Leave, Fault
<1>1. ASSUME NEW r \in Run, Start(r) PROVE HoldersOwnTheFile'
  BY <1>1 DEF Start
<1>2. ASSUME NEW r \in Run, Create(r) PROVE HoldersOwnTheFile'
  <2>1. pc[r] \notin Holding /\ file = NoFile
    BY <1>2 DEF Create
  <2>2. file'.creator = r /\ file' # NoFile
    <3>1. file' \in LockFile
      BY <1>2 DEF Create
    <3> QED
      BY <1>2, <3>1 DEF Create
  <2>3. \A h \in Run : h # r => pc'[h] = pc[h]
    BY <1>2 DEF Create
  <2> QED
    BY <2>1, <2>2, <2>3, <1>2 DEF Create
<1>3. ASSUME NEW r \in Run, CreateExists(r) PROVE HoldersOwnTheFile'
  BY <1>3 DEF CreateExists
<1>4. ASSUME NEW r \in Run, CreateFails(r) PROVE HoldersOwnTheFile'
  BY <1>4 DEF CreateFails
<1>5. ASSUME NEW r \in Run, Write(r) PROVE HoldersOwnTheFile'
  BY <1>5 DEF Write
<1>6. ASSUME NEW r \in Run, WriteFails(r) PROVE HoldersOwnTheFile'
  BY <1>6 DEF WriteFails
<1>7. ASSUME NEW r \in Run, Read(r) PROVE HoldersOwnTheFile'
  BY <1>7 DEF Read
<1>8. ASSUME NEW r \in Run, Refuse(r) PROVE HoldersOwnTheFile'
  BY <1>8 DEF Refuse
<1>9. ASSUME NEW r \in Run, Condemn(r) PROVE HoldersOwnTheFile'
  BY <1>9 DEF Condemn
<1>10. ASSUME NEW r \in Run, Unlink(r) PROVE HoldersOwnTheFile'
  BY <1>10 DEF Unlink
<1>11. ASSUME NEW r \in Run, UnlinkFails(r) PROVE HoldersOwnTheFile'
  BY <1>11 DEF UnlinkFails
<1>12. ASSUME NEW r \in Run, Finish(r) PROVE HoldersOwnTheFile'
  BY <1>12 DEF Finish
<1>13. ASSUME NEW r \in Run, Release(r) PROVE HoldersOwnTheFile'
  BY <1>13 DEF Release
<1>14. ASSUME NEW p \in Process, Crash(p) PROVE HoldersOwnTheFile'
  BY <1>14 DEF Crash, Gone
<1>15. ASSUME NEW p \in Process, Restart(p) PROVE HoldersOwnTheFile'
  BY <1>15 DEF Restart
<1>16. ASSUME NEW c \in Run, Age(c) PROVE HoldersOwnTheFile'
  BY <1>16 DEF Age, Grown
<1>17. CASE UNCHANGED vars
  BY <1>17 DEF vars
<1>18. ASSUME NEW r \in Run, ReleaseFails(r) PROVE HoldersOwnTheFile'
  BY <1>18 DEF ReleaseFails
<1>19. ASSUME NEW p \in Process, Exit(p) PROVE HoldersOwnTheFile'
  BY <1>19 DEF Exit, Gone
<1> QED
  BY <1>1, <1>2, <1>3, <1>4, <1>5, <1>6, <1>7,
     <1>8, <1>9, <1>10, <1>11, <1>12, <1>13, <1>14, <1>15, <1>16, <1>17, <1>18, <1>19 DEF Next, RunStep

\* Without a disturbance every reader has a complete, fresh lock text of a living
\* process in hand, so no step condemns a lock and no unlink evicts a holder.
LEMMA StepUndisturbed ==
    ASSUME IInv, [Next]_vars, ~disturbed' PROVE Undisturbed'
<1> USE RunLockAssumption DEF IInv, TypeOK, LockFile, Go, Fault
<1>0. ~disturbed /\ Undisturbed
  <2>1. ~disturbed
    BY DEF Next, RunStep, Start, Create, CreateExists, CreateFails, Write,
           WriteFails, Leave, Read, Refuse, Condemn, Unlink, UnlinkFails,
           Finish, Release, ReleaseFails, Crash, Exit, Restart, Age, vars
  <2> QED
    BY <2>1
<1> USE <1>0 DEF Undisturbed
<1>1. ASSUME NEW r \in Run, Start(r) PROVE Undisturbed'
  BY <1>1 DEF Start
<1>2. ASSUME NEW r \in Run, Create(r) PROVE Undisturbed'
  BY <1>2 DEF Create
<1>3. ASSUME NEW r \in Run, CreateExists(r) PROVE Undisturbed'
  BY <1>3 DEF CreateExists
<1>4. ASSUME NEW r \in Run, CreateFails(r) PROVE Undisturbed'
  BY <1>4 DEF CreateFails
<1>5. ASSUME NEW r \in Run, Write(r) PROVE Undisturbed'
  BY <1>5 DEF Write
<1>6. ASSUME NEW r \in Run, WriteFails(r) PROVE Undisturbed'
  BY <1>6 DEF WriteFails, Remove, Leave, HoldersOwnTheFile
<1>7. ASSUME NEW r \in Run, Read(r) PROVE Undisturbed'
  BY <1>7 DEF Read, RequestedIsUp
<1>8. ASSUME NEW r \in Run, Refuse(r) PROVE Undisturbed'
  BY <1>8 DEF Refuse
<1>9. ASSUME NEW r \in Run, Condemn(r) PROVE Undisturbed'
  BY <1>9 DEF Condemn, IsStale, IsAlive
<1>10. ASSUME NEW r \in Run, Unlink(r) PROVE Undisturbed'
  BY <1>10 DEF Unlink
<1>11. ASSUME NEW r \in Run, UnlinkFails(r) PROVE Undisturbed'
  BY <1>11 DEF UnlinkFails
<1>12. ASSUME NEW r \in Run, Finish(r) PROVE Undisturbed'
  BY <1>12 DEF Finish
<1>13. ASSUME NEW r \in Run, Release(r) PROVE Undisturbed'
  BY <1>13 DEF Release, Remove, HoldersOwnTheFile
<1>14. ASSUME NEW p \in Process, Crash(p) PROVE Undisturbed'
  BY <1>14 DEF Crash, Gone
<1>15. ASSUME NEW p \in Process, Restart(p) PROVE Undisturbed'
  BY <1>15 DEF Restart
<1>16. ASSUME NEW c \in Run, Age(c) PROVE Undisturbed'
  BY <1>16 DEF Age, Grown
<1>17. CASE UNCHANGED vars
  BY <1>17 DEF vars
<1>18. ASSUME NEW r \in Run, ReleaseFails(r) PROVE Undisturbed'
  BY <1>18 DEF ReleaseFails, Leave
<1>19. ASSUME NEW p \in Process, Exit(p) PROVE Undisturbed'
  BY <1>19 DEF Exit, Gone, InHand
<1> QED
  BY <1>1, <1>2, <1>3, <1>4, <1>5, <1>6, <1>7,
     <1>8, <1>9, <1>10, <1>11, <1>12, <1>13, <1>14, <1>15, <1>16, <1>17, <1>18, <1>19 DEF Next, RunStep

LEMMA StepIInv == IInv /\ [Next]_vars => IInv'
  BY StepType, StepUp, StepHolders, StepUndisturbed DEF IInv

LEMMA SpecIInv == Spec => []IInv
  BY InitIInv, StepIInv, PTL DEF Spec

\* acquire_lock never grants a lock that is still in place: a run that holds the
\* lock and was not evicted owns the file at the path.
THEOREM HoldersOwn == Spec => []HoldersOwnTheFile
<1>1. IInv => HoldersOwnTheFile
  BY DEF IInv
<1> QED
  BY <1>1, SpecIInv, PTL

\* Until a process crashes, an unlink fails, a lock text outlives the timeout, a
\* reader meets an unfinished or vanished lock file, or a process ends while its
\* lock text is in a reader's hand, at most one run executes _run_inner.
THEOREM Exclusion == Spec => []UndisturbedExclusion
<1>1. IInv => UndisturbedExclusion
  BY DEF IInv, Undisturbed, HoldersOwnTheFile, UndisturbedExclusion, MutualExclusion
<1> QED
  BY <1>1, SpecIInv, PTL

-----------------------------------------------------------------------------
(* Refinement *)

LEMMA InitRefines == Init => Revocable!Init
  BY DEF Init, Revocable!Init, Owner, Running

LEMMA StepRefines ==
    TypeOK /\ [Next]_vars => [Revocable!Next]_(Revocable!vars)
<1> SUFFICES ASSUME TypeOK, [Next]_vars
             PROVE [Revocable!Next]_(Revocable!vars)
  OBVIOUS
<1> DEFINE Stutter == Owner' = Owner /\ Running' = Running
<1> USE RunLockAssumption DEF TypeOK, LockFile, Go, Fault, Owner, Running
<1>1. ASSUME NEW r \in Run, Start(r) PROVE Stutter
  BY <1>1 DEF Start
<1>2. ASSUME NEW r \in Run, CreateExists(r) PROVE Stutter
  BY <1>2 DEF CreateExists
<1>3. ASSUME NEW r \in Run, CreateFails(r) PROVE Stutter
  BY <1>3 DEF CreateFails
<1>4. ASSUME NEW r \in Run, Write(r) PROVE Stutter
  BY <1>4 DEF Write
<1>5. ASSUME NEW r \in Run, Read(r) PROVE Stutter
  BY <1>5 DEF Read
<1>6. ASSUME NEW r \in Run, Refuse(r) PROVE Stutter
  BY <1>6 DEF Refuse
<1>7. ASSUME NEW r \in Run, Condemn(r) PROVE Stutter
  BY <1>7 DEF Condemn
<1>8. ASSUME NEW r \in Run, UnlinkFails(r) PROVE Stutter
  BY <1>8 DEF UnlinkFails
<1>9. ASSUME NEW r \in Run, Finish(r) PROVE Stutter
  BY <1>9 DEF Finish
<1>10. ASSUME NEW r \in Run, Create(r) PROVE Revocable!Grant(r)
  <2>1. file = NoFile /\ pc[r] \notin Holding
    BY <1>10 DEF Create
  <2>2. file'.creator = r /\ file' # NoFile
    <3>1. file' \in LockFile
      BY <1>10 DEF Create
    <3> QED
      BY <1>10, <3>1 DEF Create
  <2>3. pc' = [pc EXCEPT ![r] = "write"]
    BY <1>10 DEF Create
  <2>4. Owner = {} /\ Owner' = {r}
    BY <2>1, <2>2, <2>3
  <2>5. r \notin Running /\ Running' = Running \union {r}
    BY <2>1, <2>3
  <2> QED
    BY <2>4, <2>5 DEF Revocable!Grant
<1>11. ASSUME NEW r \in Run, Unlink(r) PROVE Stutter \/ Revocable!Revoke
  BY <1>11 DEF Unlink, Remove, Revocable!Revoke
<1>12. ASSUME NEW r \in Run, WriteFails(r) \/ Release(r) \/ ReleaseFails(r)
       PROVE Revocable!End({r})
  BY <1>12 DEF WriteFails, Release, ReleaseFails, Remove, Leave, Revocable!End
<1>13. ASSUME NEW p \in Process, Gone(p)
       PROVE Stutter \/ \E ended \in SUBSET Run : Revocable!End(ended)
  <2> DEFINE gone == {r \in Running : ProcessOf[r] = p}
  <2>1. Running' = Running \ gone
    BY <1>13 DEF Gone
  <2>2. Owner' = Owner \ gone
    BY <1>13 DEF Gone
  <2>3. ASSUME gone = {} PROVE Stutter
    BY <2>1, <2>2, <2>3
  <2>4. ASSUME gone # {} PROVE Revocable!End(gone)
    BY <2>1, <2>2, <2>4 DEF Revocable!End
  <2>5. gone \in SUBSET Run
    OBVIOUS
  <2> HIDE DEF gone, Stutter, Owner, Running
  <2> QED
    BY <2>3, <2>4, <2>5
<1>14. ASSUME NEW p \in Process, Restart(p) PROVE Stutter
  BY <1>14 DEF Restart
<1>15. ASSUME NEW c \in Run, Age(c) PROVE Stutter
  BY <1>15 DEF Age, Grown
<1>16. ASSUME UNCHANGED vars PROVE Stutter
  BY <1>16 DEF vars
<1> HIDE DEF Stutter, Owner, Running, TypeOK, LockFile, Go, Fault
<1>17. ASSUME NEW gone \in SUBSET Run, Revocable!End(gone) PROVE Revocable!Next
  BY <1>17 DEF Revocable!Next
<1>18. ASSUME NEW r \in Run, Revocable!Grant(r) PROVE Revocable!Next
  BY <1>18 DEF Revocable!Next
<1>19. ASSUME NEW r \in Run, WriteFails(r) \/ Release(r) \/ ReleaseFails(r)
       PROVE Revocable!Next
  BY <1>12, <1>17, <1>19
<1>20. ASSUME NEW p \in Process, Crash(p) \/ Exit(p)
       PROVE Stutter \/ Revocable!Next
  BY <1>13, <1>17, <1>20 DEF Crash, Exit
<1>21. Revocable!Revoke => Revocable!Next
  BY DEF Revocable!Next
<1>22. Revocable!Next \/ Stutter
  BY <1>1, <1>2, <1>3, <1>4, <1>5, <1>6, <1>7, <1>8, <1>9, <1>10, <1>11,
     <1>14, <1>15, <1>16, <1>18, <1>19, <1>20, <1>21 DEF Next, RunStep
<1> QED
  BY <1>22 DEF Stutter, Revocable!vars

\* The lock-file protocol implements the revocable lock: a grant happens only
\* while no run owns the lock, whatever crashes, timeouts and reclaims occur.
THEOREM Refinement == Spec => ImplementsRevocableLock
<1>1. Spec => Revocable!Init /\ [][Revocable!Next]_(Revocable!vars)
  BY InitRefines, StepRefines, RunLockType, PTL DEF Spec
<1> QED
  BY <1>1, PTL DEF ImplementsRevocableLock, Revocable!Spec
=============================================================================
