------------------------------- MODULE RunLock -------------------------------
(***************************************************************************)
(* The run lock of the daily orchestrator: the file var/run/.lock, taken   *)
(* by PreflightRunner.acquire_lock and dropped by release_lock             *)
(* (neotrade3/orchestration/preflight.py), around BootstrapWorkerApp.run   *)
(* (apps/worker/main.py).                                                  *)
(*                                                                         *)
(* A run is one call of BootstrapWorkerApp.run; it executes in a process   *)
(* (several runs of the API server share its pid).  Every system call on   *)
(* the lock file is a step of its own, so runs interleave between them.    *)
(***************************************************************************)
EXTENDS Naturals, FiniteSets

CONSTANTS
    Run,        \* the runs that may be requested
    Process,    \* operating-system processes, named by their pid
    ProcessOf,  \* ProcessOf[r]: the process that executes run r
    NoFile,     \* the lock file does not exist
    MaxFaults   \* bound on crashes and failed system calls

\* What the path var/run/.lock can hold.  "creator" identifies the inode: a run
\* creates one file at a time.  "empty" is the file between os.open and os.write;
\* "pid" the complete JSON, naming ProcessOf[creator]; "aged" says that locked_at
\* is more than _LOCK_TIMEOUT_SECONDS ago.
LockFile == [creator : Run, text : {"empty", "pid"}, aged : BOOLEAN]

ASSUME RunLockAssumption ==
    /\ ProcessOf \in [Run -> Process]
    /\ NoFile \notin LockFile
    /\ MaxFaults \in Nat

VARIABLES
    file,       \* the lock file, or NoFile
    up,         \* up[p]: a process with pid p exists
    pc,         \* pc[r]: where run r stands
    seen,       \* seen[r]: what r read from the lock file and has not judged yet
    faults,     \* crashes and failed system calls so far
    evicted,    \* history: runs that hold the lock and whose file another removed
    disturbed   \* history: something has happened that the protocol does not
                \* stand (see UndisturbedExclusion)

vars == <<file, up, pc, seen, faults, evicted, disturbed>>

\* "idle": not requested in this life of its process; "ended": refused or
\* released, the process lives on.
Phase == {"idle", "create", "read", "judge", "unlink", "recreate",
          "write", "held", "release", "ended"}

\* Runs between a successful exclusive create and the end of release_lock.
Holding == {"write", "held", "release"}

\* Type invariant of the lock file, the processes and what the runs have read.
TypeOK ==
    /\ file \in LockFile \union {NoFile}
    /\ up \in [Process -> BOOLEAN]
    /\ pc \in [Run -> Phase]
    /\ seen \in [Run -> LockFile \union {NoFile}]
    /\ faults \in 0 .. MaxFaults
    /\ evicted \subseteq Run
    /\ disturbed \in BOOLEAN

Init ==
    /\ file = NoFile
    /\ up = [p \in Process |-> TRUE]
    /\ pc = [r \in Run |-> "idle"]
    /\ seen = [r \in Run |-> NoFile]
    /\ faults = 0
    /\ evicted = {}
    /\ disturbed = FALSE

-----------------------------------------------------------------------------
(* Helpers *)

Go(r, from, to) == pc[r] = from /\ pc' = [pc EXCEPT ![r] = to]

\* Unlinking the path removes whatever file is there; if another run still
\* holds the lock through that file, that run is evicted.
Remove(r) ==
    /\ file' = NoFile
    /\ evicted' = (evicted \union
            {h \in Run : h # r /\ file # NoFile /\ file.creator = h
                          /\ pc[h] \in Holding}) \ {r}

\* The path cannot be unlinked: the file stays although its run ends.
Leave(r) ==
    /\ evicted' = evicted \ {r}
    /\ disturbed' = TRUE
    /\ UNCHANGED file

Fault == faults < MaxFaults /\ faults' = faults + 1

\* Faulty variant: the one-hour timeout is never applied.
IsStale_NoTimeout(f) == FALSE

IsStale(f) == f # NoFile /\ f.text = "pid" /\ f.aged

\* Faulty variant: os.kill(pid, 0) raising is the only sign of life.
IsAlive_Inverted(f) == f # NoFile /\ f.text = "pid" /\ ~up[ProcessOf[f.creator]]

\* os.kill(pid, 0); an unreadable, empty or missing file yields no pid.
IsAlive(f) == f # NoFile /\ f.text = "pid" /\ up[ProcessOf[f.creator]]

-----------------------------------------------------------------------------
(* acquire_lock *)

\* BootstrapWorkerApp.run is called.
Start(r) ==
    /\ up[ProcessOf[r]]
    /\ Go(r, "idle", "create") \/ Go(r, "ended", "create")
    /\ UNCHANGED <<file, up, seen, faults, evicted, disturbed>>

\* Faulty variant: the file is opened without O_EXCL.
Create_NoExcl(r) ==
    /\ \/ Go(r, "create", "write")
       \/ Go(r, "recreate", "write")
    /\ file' = [creator |-> r, text |-> "empty", aged |-> FALSE]
    /\ UNCHANGED <<up, seen, faults, evicted, disturbed>>

\* os.open(O_CREAT | O_EXCL) succeeds.
Create(r) ==
    /\ file = NoFile
    /\ \/ Go(r, "create", "write")
       \/ Go(r, "recreate", "write")
    /\ file' = [creator |-> r, text |-> "empty", aged |-> FALSE]
    /\ UNCHANGED <<up, seen, faults, evicted, disturbed>>

\* FileExistsError: the first attempt goes on to read the file, the second
\* gives up ("the lock was taken by another process").
CreateExists(r) ==
    /\ file # NoFile
    /\ \/ Go(r, "create", "read")
       \/ Go(r, "recreate", "ended")
    /\ UNCHANGED <<file, up, seen, faults, evicted, disturbed>>

\* Any other OSError of os.open: the run is refused.
CreateFails(r) ==
    /\ Fault
    /\ \/ Go(r, "create", "ended")
       \/ Go(r, "recreate", "ended")
    /\ UNCHANGED <<file, up, seen, evicted, disturbed>>

\* os.write goes to the descriptor: it reaches the path only when the path
\* still names the file this run created.
Write(r) ==
    /\ Go(r, "write", "held")
    /\ file' = IF file # NoFile /\ file.creator = r
               THEN [file EXCEPT !.text = "pid"] ELSE file
    /\ UNCHANGED <<up, seen, faults, evicted, disturbed>>

\* os.write fails: the path is unlinked, if that works, and the run is refused.
WriteFails(r) ==
    /\ Fault
    /\ Go(r, "write", "ended")
    /\ \/ Remove(r) /\ UNCHANGED disturbed
       \/ Leave(r)
    /\ UNCHANGED <<up, seen>>

\* lock_path.read_text; an OSError (the file is gone) and a JSON error (it is
\* still empty) both leave the reader without a pid.
Read(r) ==
    /\ Go(r, "read", "judge")
    /\ seen' = [seen EXCEPT ![r] = file]
    /\ disturbed' = (disturbed \/ file = NoFile \/ file.text = "empty")
    /\ UNCHANGED <<file, up, faults, evicted>>

\* An active lock: the run is refused.
Refuse(r) ==
    /\ ~IsStale(seen[r]) /\ IsAlive(seen[r])
    /\ Go(r, "judge", "ended")
    /\ seen' = [seen EXCEPT ![r] = NoFile]
    /\ UNCHANGED <<file, up, faults, evicted, disturbed>>

\* A stale lock, or one without a live process: it will be removed.
Condemn(r) ==
    /\ IsStale(seen[r]) \/ ~IsAlive(seen[r])
    /\ Go(r, "judge", "unlink")
    /\ seen' = [seen EXCEPT ![r] = NoFile]
    /\ UNCHANGED <<file, up, faults, evicted, disturbed>>

\* Faulty variant: the condemned file is overwritten in place (os.replace).
Unlink_Replace(r) ==
    /\ file # NoFile
    /\ Go(r, "unlink", "held")
    /\ file' = [creator |-> r, text |-> "pid", aged |-> FALSE]
    /\ evicted' = {h \in Run : h = file.creator /\ pc[h] \in Holding} \ {r}
    /\ UNCHANGED <<up, seen, faults, disturbed>>

\* lock_path.unlink() removes the file that is at the path now.
Unlink(r) ==
    /\ file # NoFile
    /\ Go(r, "unlink", "recreate")
    /\ Remove(r)
    /\ UNCHANGED <<up, seen, faults, disturbed>>

\* FileNotFoundError, or another OSError: the run is refused.
UnlinkFails(r) ==
    /\ Go(r, "unlink", "ended")
    /\ IF file = NoFile THEN UNCHANGED faults ELSE Fault
    /\ UNCHANGED <<file, up, seen, evicted, disturbed>>

-----------------------------------------------------------------------------
(* The run itself and release_lock *)

\* _run_inner returns or raises; the finally clause follows.
Finish(r) ==
    /\ Go(r, "held", "release")
    /\ UNCHANGED <<file, up, seen, faults, evicted, disturbed>>

\* release_lock unlinks the path if it exists, without looking whose file it is.
Release(r) ==
    /\ Go(r, "release", "ended")
    /\ Remove(r)
    /\ UNCHANGED <<up, seen, faults, disturbed>>

\* The unlink of release_lock raises OSError, which it swallows.
ReleaseFails(r) ==
    /\ Fault
    /\ Go(r, "release", "ended")
    /\ Leave(r)
    /\ UNCHANGED <<up, seen>>

-----------------------------------------------------------------------------
(* Environment *)

\* Reader r has a lock text in hand that names pid p, and has not judged it yet.
InHand(r, p) ==
    seen[r] # NoFile /\ seen[r].text = "pid" /\ ProcessOf[seen[r].creator] = p

\* The process is gone, and what its runs had in memory with it.
Gone(p) ==
    /\ up[p]
    /\ up' = [up EXCEPT ![p] = FALSE]
    /\ pc' = [r \in Run |-> IF ProcessOf[r] = p THEN "idle" ELSE pc[r]]
    /\ seen' = [r \in Run |-> IF ProcessOf[r] = p THEN NoFile ELSE seen[r]]
    /\ evicted' = {r \in evicted : ProcessOf[r] # p}
    /\ UNCHANGED file

\* The process dies: no finally clause runs, the lock file stays.
Crash(p) ==
    /\ Fault
    /\ Gone(p)
    /\ disturbed' = TRUE

\* The process ends in the ordinary way, as the command line does when its run
\* has returned.  A reader that has the lock text of one of its runs in hand
\* will now find the pid dead.
Exit(p) ==
    /\ \A r \in Run : ProcessOf[r] = p => pc[r] \in {"idle", "ended"}
    /\ \E r \in Run : ProcessOf[r] = p /\ pc[r] = "ended"
    /\ Gone(p)
    /\ disturbed' = (disturbed \/ \E r \in Run : InHand(r, p))
    /\ UNCHANGED faults

\* A new process comes up under the same pid (the next command, a restart by
\* launchd, or another program: pid reuse).
Restart(p) ==
    /\ ~up[p]
    /\ up' = [up EXCEPT ![p] = TRUE]
    /\ UNCHANGED <<file, pc, seen, faults, evicted, disturbed>>

\* A lock text of run c becomes older than _LOCK_TIMEOUT_SECONDS, at the path
\* and in the hands of whoever has read it.
Grown(f, c) ==
    IF f # NoFile /\ f.creator = c /\ f.text = "pid"
    THEN [f EXCEPT !.aged = TRUE] ELSE f

Age(c) ==
    /\ file' = Grown(file, c)
    /\ seen' = [r \in Run |-> Grown(seen[r], c)]
    /\ <<file', seen'>> # <<file, seen>>
    /\ disturbed' = TRUE
    /\ UNCHANGED <<up, pc, faults, evicted>>

RunStep(r) ==
    \/ Start(r) \/ Create(r) \/ CreateExists(r) \/ Write(r) \/ Read(r)
    \/ Refuse(r) \/ Condemn(r) \/ Unlink(r) \/ UnlinkFails(r)
    \/ Finish(r) \/ Release(r)

Next ==
    \/ \E r \in Run : RunStep(r) \/ CreateFails(r) \/ WriteFails(r)
                        \/ ReleaseFails(r) \/ Age(r)
    \/ \E p \in Process : Crash(p) \/ Exit(p) \/ Restart(p)

Spec == Init /\ [][Next]_vars

\* A scheduled run keeps being requested and a process that started a system
\* call finishes it; launchd, or the next command, starts a process again; time
\* passes.  Nothing is assumed of crashes, exits and failed calls.
Fairness ==
    /\ \A r \in Run : WF_vars(RunStep(r)) /\ WF_vars(Age(r))
    /\ \A p \in Process : WF_vars(Restart(p))

FairSpec == Spec /\ Fairness

-----------------------------------------------------------------------------
(* Properties *)

\* The promise of the run_lock_check ("no conflicting orchestrator run lock is
\* active", preflight.py): no two runs execute _run_inner at once.  The code
\* does not keep it; the two properties below say what it does keep.
MutualExclusion ==
    \A r, s \in Run : pc[r] = "held" /\ pc[s] = "held" => r = s

\* A run that holds the lock and was not evicted owns the file at the path, so
\* of any runs executing at once all but one were evicted: acquire_lock itself
\* never grants a lock that is still in place.
HoldersOwnTheFile ==
    \A r \in Run : pc[r] \in Holding /\ r \notin evicted
                    => file # NoFile /\ file.creator = r

\* acquire_lock and release_lock exclude each other's runs as long as
\*   - no process crashed and no unlink failed, so that no lock file was left;
\*   - no lock text grew older than the timeout;
\*   - no reader met a lock file that was unfinished or already gone; and
\*   - no process ended, be it in the ordinary way, while a reader had the lock
\*     text of one of its runs in hand and had not judged it yet.
\* Each of the four is needed: after any of them a reader may unlink the lock
\* file of a run that has done nothing wrong.
UndisturbedExclusion == ~disturbed => MutualExclusion

\* The run lock implements a revocable lock: the owner is the run whose file is
\* at the path, and the lock is granted only while it has no owner.
Owner == IF file # NoFile /\ pc[file.creator] \in Holding
         THEN {file.creator} ELSE {}
Running == {r \in Run : pc[r] \in Holding}

Revocable == INSTANCE RevocableLock WITH owner <- Owner, running <- Running

\* Every step of the lock protocol is a step of the revocable lock.
ImplementsRevocableLock == Revocable!Spec

\* A lock file whose run is gone (a crash or a failed release left it) does not block the
\* system for ever: some later run removes it, or its creator takes over again.
LeftoverIsReclaimed ==
    (file # NoFile /\ pc[file.creator] \notin Holding) ~>
        (file = NoFile \/ pc[file.creator] \in Holding)
=============================================================================
