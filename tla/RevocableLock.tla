---------------------------- MODULE RevocableLock ----------------------------
(***************************************************************************)
(* What the run lock promises: a lock with at most one owner that is only  *)
(* granted while nobody owns it, but that can be revoked while its owner   *)
(* goes on running, and that a run may drop although it owns it no more.   *)
(* The abstraction of neotrade3/orchestration/preflight.py, acquire_lock   *)
(* and release_lock; RunLock implements it.                                *)
(***************************************************************************)
CONSTANT Run

VARIABLES
    owner,      \* the owner of the lock: a set of at most one run
    running     \* the runs that were granted the lock and have not ended

vars == <<owner, running>>

Init == owner = {} /\ running = {}

\* acquire_lock returns TRUE.
Grant(r) ==
    /\ owner = {} /\ r \notin running
    /\ owner' = {r}
    /\ running' = running \union {r}

\* Another run reclaims the lock; the owner does not notice.
Revoke ==
    /\ owner # {}
    /\ owner' = {}
    /\ UNCHANGED running

\* Runs end: one by release_lock, which drops the lock whoever owns it, or
\* several with their process, which leaves the lock to a surviving owner.
End(gone) ==
    /\ gone \subseteq running /\ gone # {}
    /\ running' = running \ gone
    /\ owner' \in {{}, owner \ gone}

Next ==
    \/ \E r \in Run : Grant(r)
    \/ Revoke
    \/ \E gone \in SUBSET Run : End(gone)

Spec == Init /\ [][Next]_vars
=============================================================================
