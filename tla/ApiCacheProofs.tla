--------------------------- MODULE ApiCacheProofs ---------------------------
(***************************************************************************)
(* Proofs about ApiCache, for any requests, demands and bounds.            *)
(*                                                                         *)
(* SomeoneWillWake needs to know whose Event a table holds (OwnersLead);   *)
(* BoardGoesForward needs that the board has one leader at a time          *)
(* (BoardLeads); OneBuildWhileCalm that, while nothing fails or expires,   *)
(* whoever has built has stored its payload or still owns the flight       *)
(* (CalmInv).  NobodyIsStuck and OneMovesOn are what                       *)
(* EveryRequestIsAnswered rests on besides fairness: someone can always go *)
(* on, and no request goes on more than seven times.                       *)
(***************************************************************************)
EXTENDS ApiCache, FiniteSetTheorems, TLAPS

USE DEF View, Flight, Version, Place, Leading

\* The Event in a table is its owner's own, and the owner asks for that view.
OwnersLead ==
    \A k \in Flight : inflight[k] # None =>
        /\ view[inflight[k]] = k
        /\ event[inflight[k]] = inflight[k]
        /\ \/ pc[inflight[k]] \in Leading
           \/ inflight[k] \in stranded /\ pc[inflight[k]] = "done"

\* Whoever is on the way to its wait has an Event that is set or in the table.
EventsAreSafe ==
    \A r \in Request : pc[r] \in {"engine", "wait"} =>
        /\ event[r] \in Request
        /\ view[r] \in Flight
        /\ pc[r] = "engine" => view[r] = "hot"
        /\ event[r] \in fired \/ inflight[view[r]] = event[r]

LockIsForSnapshots == lock # None => view[lock] = "snapshot"

\* Board requests store what they build only while their Event is in the
\* table, and what they build is no older than what was stored before.
BoardLeads ==
    \A r \in Request : view[r] = "board" =>
        /\ pc[r] \in {"store", "settle"} => event[r] = r
        /\ pc[r] \in {"wait", "recheck"} => event[r] # r
        /\ pc[r] \in {"build", "store", "settle"} /\ event[r] = r
                => inflight["board"] = r
        /\ pc[r] \in {"build", "store"} /\ event[r] = r => stored <= made[r]

DataIsNewest == stored <= data /\ \A r \in Request : made[r] <= data

IInv == /\ TypeOK
        /\ OwnersLead
        /\ EventsAreSafe
        /\ LockIsForSnapshots
        /\ BoardLeads
        /\ DataIsNewest

-----------------------------------------------------------------------------
(* Types *)

LEMMA TypeInit == Init => TypeOK
BY ApiCacheAssumption DEF Init, TypeOK

LEMMA TypeNext == TypeOK /\ [Next]_vars => TypeOK'
<1> SUFFICES ASSUME TypeOK, [Next]_vars PROVE TypeOK'
  OBVIOUS
<1> USE ApiCacheAssumption DEF TypeOK, shared, Goto, LockFree, StartBuild, Fault, Put
<1>1. ASSUME NEW r \in Request, NEW from \in Place, Hit(r, from) PROVE TypeOK'
  BY <1>1 DEF Hit
<1>2. ASSUME NEW r \in Request, Register(r) PROVE TypeOK'
  BY <1>2 DEF Register
<1>3. ASSUME NEW r \in Request, Join(r) PROVE TypeOK'
  BY <1>3 DEF Join
<1>4. ASSUME NEW r \in Request, Engine(r) PROVE TypeOK'
  BY <1>4 DEF Engine
<1>5. ASSUME NEW r \in Request, Wake(r) \/ Recheck(r) PROVE TypeOK'
  BY <1>5 DEF Wake, Recheck
<1>6. ASSUME NEW r \in Request, Build(r) PROVE TypeOK'
  BY <1>6 DEF Build
<1>7. ASSUME NEW r \in Request, Store(r) PROVE TypeOK'
  BY <1>7 DEF Store
<1>8. ASSUME NEW r \in Request, Settle(r) PROVE TypeOK'
  BY <1>8 DEF Settle
<1>9. ASSUME NEW r \in Request, SnapshotEnter(r) PROVE TypeOK'
  BY <1>9 DEF SnapshotEnter
<1>10. ASSUME NEW r \in Request, SnapshotBuilt(r) PROVE TypeOK'
  BY <1>10 DEF SnapshotBuilt
<1>11. ASSUME NEW r \in Request, Fail(r) PROVE TypeOK'
  <2>1. Fault
    BY <1>11 DEF Fail, EngineFails, BuildFails, SnapshotFails
  <2>2. faults' \in 0 .. MaxFaults
    <3>1. faults < MaxFaults /\ faults' = faults + 1
      BY <2>1
    <3> QED
      BY <3>1
  <2>3. CASE EngineFails(r)
    BY <2>2, <2>3 DEF EngineFails
  <2>4. CASE BuildFails(r)
    BY <2>2, <2>4 DEF BuildFails
  <2>5. CASE SnapshotFails(r)
    BY <2>2, <2>5 DEF SnapshotFails
  <2> QED
    BY <1>11, <2>3, <2>4, <2>5 DEF Fail
<1>12. ASSUME NEW k \in View, Expire(k) PROVE TypeOK'
  BY <1>12 DEF Expire
<1>13. CASE NewData
  BY <1>13 DEF NewData
<1>14. CASE UNCHANGED vars
  BY <1>14 DEF vars
<1> QED
  BY <1>1, <1>2, <1>3, <1>4, <1>5, <1>6, <1>7, <1>8, <1>9, <1>10, <1>11, <1>12,
     <1>13, <1>14 DEF Next, Serve

\* The variables of the cache keep their types, whatever the requests ask for.
THEOREM ApiCacheType == Spec => []TypeOK
BY TypeInit, TypeNext, PTL DEF Spec

-----------------------------------------------------------------------------
(* The inductive invariant *)

LEMMA InvInit == Init => IInv
<1> SUFFICES ASSUME Init PROVE IInv
  OBVIOUS
<1>1. TypeOK
  BY TypeInit
<1> QED
  BY <1>1, ApiCacheAssumption
     DEF Init, IInv, OwnersLead, EventsAreSafe, LockIsForSnapshots, BoardLeads,
         DataIsNewest

LEMMA InvNext == IInv /\ [Next]_vars => IInv'
<1> SUFFICES ASSUME IInv, [Next]_vars PROVE IInv'
  OBVIOUS
<1>0. TypeOK'
  BY TypeNext DEF IInv
<1> USE <1>0, ApiCacheAssumption
    DEF IInv, TypeOK, OwnersLead, EventsAreSafe, LockIsForSnapshots, BoardLeads,
        DataIsNewest, shared, Goto, LockFree, StartBuild, Fault, Put, Leads, Keeps
<1>1. ASSUME NEW r \in Request, NEW from \in {"lookup", "recheck"}, Hit(r, from)
      PROVE  IInv'
  BY <1>1 DEF Hit
<1>2. ASSUME NEW r \in Request, Register(r) PROVE IInv'
  BY <1>2 DEF Register
<1>3. ASSUME NEW r \in Request, Join(r) PROVE IInv'
  <2> DEFINE owner == inflight[view[r]]
  <2>1. /\ view[r] \in Flight /\ owner \in Request /\ pc[r] = "lookup"
        /\ event' = [event EXCEPT ![r] = owner]
        /\ pc' = [pc EXCEPT ![r] = IF view[r] = "board" THEN "wait" ELSE "engine"]
        /\ UNCHANGED <<view, data, lock, inflight, fired, made, stored, stranded>>
    BY <1>3 DEF Join
  <2>2. ASSUME NEW k \in Flight, inflight[k] = r PROVE FALSE
    BY <2>1, <2>2
  <2>3. OwnersLead'
    BY <2>1, <2>2
  <2>4. EventsAreSafe'
    BY <2>1
  <2>5. BoardLeads'
    BY <2>1, <2>2
  <2> QED
    BY <2>1, <2>3, <2>4, <2>5
<1>4. ASSUME NEW r \in Request, Engine(r) PROVE IInv'
  BY <1>4 DEF Engine
<1>5. ASSUME NEW r \in Request, Wake(r) \/ Recheck(r) PROVE IInv'
  BY <1>5 DEF Wake, Recheck
<1>6. ASSUME NEW r \in Request, Build(r) PROVE IInv'
  BY <1>6 DEF Build
<1>7. ASSUME NEW r \in Request, Store(r) PROVE IInv'
  BY <1>7 DEF Store
<1>8. ASSUME NEW r \in Request, Settle(r) PROVE IInv'
  BY <1>8 DEF Settle
<1>9. ASSUME NEW r \in Request, SnapshotEnter(r) PROVE IInv'
  BY <1>9 DEF SnapshotEnter
<1>10. ASSUME NEW r \in Request, SnapshotBuilt(r) PROVE IInv'
  BY <1>10 DEF SnapshotBuilt
<1>11. ASSUME NEW r \in Request, EngineFails(r) PROVE IInv'
  BY <1>11 DEF EngineFails
<1>12. ASSUME NEW r \in Request, BuildFails(r) PROVE IInv'
  BY <1>12 DEF BuildFails
<1>13. ASSUME NEW r \in Request, SnapshotFails(r) PROVE IInv'
  BY <1>13 DEF SnapshotFails
<1>14. ASSUME NEW k \in View, Expire(k) PROVE IInv'
  BY <1>14 DEF Expire
<1>15. CASE NewData
  BY <1>15 DEF NewData
<1>16. CASE UNCHANGED vars
  BY <1>16 DEF vars
<1> QED
  BY <1>1, <1>2, <1>3, <1>4, <1>5, <1>6, <1>7, <1>8, <1>9, <1>10, <1>11, <1>12,
     <1>13, <1>14, <1>15, <1>16 DEF Next, Serve, Fail

LEMMA Inductive == Spec => []IInv
BY InvInit, InvNext, PTL DEF Spec

-----------------------------------------------------------------------------
(* Theorems *)

LEMMA InvWakes == IInv => SomeoneWillWake
<1> SUFFICES ASSUME IInv, NEW r \in Request, pc[r] = "wait", event[r] \notin fired
             PROVE  /\ inflight[view[r]] = event[r]
                    /\ pc[event[r]] \in Leading \/ event[r] \in stranded
  BY DEF SomeoneWillWake
<1>1. event[r] \in Request /\ view[r] \in Flight /\ inflight[view[r]] = event[r]
  BY DEF IInv, EventsAreSafe
<1>2. pc[event[r]] \in Leading \/ event[r] \in stranded
  BY <1>1, ApiCacheAssumption DEF IInv, OwnersLead
<1> QED
  BY <1>1, <1>2

\* No request ever waits for an Event that nobody will set, except for one whose
\* owner was thrown out between the registration and the try.
THEOREM WaitersAreWoken == Spec => []SomeoneWillWake
BY Inductive, InvWakes, PTL

LEMMA StepForward == IInv /\ [Next]_vars => [stored' >= stored]_stored
<1> SUFFICES ASSUME IInv, [Next]_vars, stored' # stored PROVE stored' >= stored
  OBVIOUS
<1>1. PICK r \in Request : Store(r) \/ SnapshotBuilt(r)
  BY DEF Next, Serve, Fail, vars, shared, Hit, Register, Join, Engine, Wake,
         Recheck, Build, Settle, SnapshotEnter, EngineFails, BuildFails,
         SnapshotFails, Expire, NewData
<1>2. view[r] = "board" /\ Store(r) /\ stored' = made[r]
  BY <1>1 DEF Store, SnapshotBuilt, Put, IInv, LockIsForSnapshots, TypeOK
<1>3. event[r] = r /\ pc[r] = "store"
  BY <1>2 DEF Store, IInv, BoardLeads
<1> QED
  BY <1>2, <1>3 DEF IInv, BoardLeads, TypeOK

\* The board in the cache is never replaced by an older one.
THEOREM BoardIsMonotone == Spec => BoardGoesForward
<1>1. IInv /\ [Next]_vars => [stored' >= stored]_stored
  BY StepForward
<1> QED
  BY <1>1, Inductive, PTL DEF Spec, BoardGoesForward

-----------------------------------------------------------------------------
(* One build *)

\* While nothing has failed or expired.
CalmInv == calm =>
    /\ \A r \in builds :
          \/ cache[view[r]] # None
          \/ pc[r] \in {"build", "store"} /\ view[r] \in Flight
          \/ pc[r] = "build" /\ view[r] = "snapshot" /\ lock = r
    /\ \A r \in Request : pc[r] \in {"build", "store", "settle"} /\ view[r] \in Flight
          => r \in builds /\ event[r] = r /\ inflight[view[r]] = r
    /\ \A r \in Request : pc[r] = "settle" => cache[view[r]] # None
    /\ \A r \in Request : pc[r] = "engine" /\ event[r] = r
          => inflight[view[r]] = r /\ cache[view[r]] = None
    /\ \A r \in Request : pc[r] \in {"engine", "wait", "recheck"}
          => event[r] \in Request /\ view[event[r]] = view[r]
    /\ \A r \in Request : pc[r] = "recheck" => event[r] \in fired
    /\ \A r \in fired : cache[view[r]] # None
    /\ \A r, s \in builds : view[r] = view[s] => r = s

LEMMA CalmInit == Init => CalmInv
BY ApiCacheAssumption DEF Init, CalmInv

LEMMA CalmNext == IInv /\ CalmInv /\ [Next]_vars => CalmInv'
<1> SUFFICES ASSUME IInv, CalmInv, [Next]_vars PROVE CalmInv'
  OBVIOUS
<1> USE ApiCacheAssumption
    DEF IInv, TypeOK, OwnersLead, EventsAreSafe, LockIsForSnapshots, CalmInv,
        shared, Goto, LockFree, StartBuild, Fault, Put, Leads, Keeps
<1>1. ASSUME NEW r \in Request, NEW from \in {"lookup", "recheck"}, Hit(r, from)
      PROVE  CalmInv'
  BY <1>1 DEF Hit
<1>2. ASSUME NEW r \in Request, Register(r) PROVE CalmInv'
  BY <1>2 DEF Register
<1>3. ASSUME NEW r \in Request, Join(r) PROVE CalmInv'
  BY <1>3 DEF Join
<1>4. ASSUME NEW r \in Request, Engine(r) PROVE CalmInv'
  BY <1>4 DEF Engine
<1>5. ASSUME NEW r \in Request, Wake(r) PROVE CalmInv'
  BY <1>5 DEF Wake
<1>6. ASSUME NEW r \in Request, Recheck(r) PROVE CalmInv'
  BY <1>6 DEF Recheck
<1>7. ASSUME NEW r \in Request, Build(r) PROVE CalmInv'
  BY <1>7 DEF Build
<1>8. ASSUME NEW r \in Request, Store(r) PROVE CalmInv'
  BY <1>8 DEF Store
<1>9. ASSUME NEW r \in Request, Settle(r) PROVE CalmInv'
  BY <1>9 DEF Settle
<1>10. ASSUME NEW r \in Request, SnapshotEnter(r) PROVE CalmInv'
  BY <1>10 DEF SnapshotEnter
<1>11. ASSUME NEW r \in Request, SnapshotBuilt(r) PROVE CalmInv'
  BY <1>11 DEF SnapshotBuilt
<1>12. ASSUME NEW r \in Request, Fail(r) PROVE CalmInv'
  BY <1>12 DEF Fail, EngineFails, BuildFails, SnapshotFails
<1>13. ASSUME NEW k \in View, Expire(k) PROVE CalmInv'
  BY <1>13 DEF Expire
<1>14. CASE NewData
  BY <1>14 DEF NewData
<1>15. CASE UNCHANGED vars
  BY <1>15 DEF vars
<1> QED
  BY <1>1, <1>2, <1>3, <1>4, <1>5, <1>6, <1>7, <1>8, <1>9, <1>10, <1>11, <1>12,
     <1>13, <1>14, <1>15 DEF Next, Serve

LEMMA CalmBuildsOnce == CalmInv => OneBuildWhileCalm
<1> SUFFICES ASSUME CalmInv, calm, NEW k \in View
             PROVE  Cardinality(builds \intersect Asks(k)) <= 1
  BY DEF OneBuildWhileCalm
<1> DEFINE B == builds \intersect Asks(k)
<1>1. \A r, s \in B : r = s
  BY DEF CalmInv, Asks
<1>2. CASE B = {}
  BY <1>2, FS_EmptySet
<1>3. ASSUME NEW r \in B PROVE Cardinality(B) <= 1
  <2>1. B = {r}
    BY <1>1
  <2> QED
    BY <2>1, FS_Singleton
<1> QED
  BY <1>2, <1>3

\* As long as nothing fails or expires, all the requests for a view cause one
\* build, whatever their number and interleaving.
THEOREM BuiltOnce == Spec => []OneBuildWhileCalm
<1>1. Spec => []CalmInv
  BY Inductive, CalmInit, CalmNext, PTL DEF Spec
<1> QED
  BY <1>1, CalmBuildsOnce, PTL
-----------------------------------------------------------------------------
(* Nobody is stuck *)

\* The lock is held by the snapshot request that builds, and by nobody else;
\* snapshot requests know no Event.
SnapshotsLock ==
    /\ lock # None => pc[lock] = "build"
    /\ \A r \in Request : view[r] = "snapshot" =>
          /\ pc[r] \in {"lookup", "build", "done"}
          /\ pc[r] = "build" => lock = r

\* The guard of the next step of a request, by its place.
CanGo(r) ==
    \/ pc[r] \in {"lookup", "recheck", "store", "settle"} /\ LockFree
    \/ pc[r] = "engine"
    \/ pc[r] = "build" /\ (view[r] # "snapshot" \/ lock = r)
    \/ pc[r] = "wait" /\ event[r] \in fired

\* A request that is not answered can go on, or the one it waits for can: the
\* holder of the lock, or the owner of its Event, and the owner in turn waits
\* for the lock at most.  No circle of waiting requests ever closes.
NobodyIsStuck ==
    \A r \in Request :
        \/ pc[r] = "done"
        \/ CanGo(r)
        \/ lock \in Request /\ CanGo(lock)
        \/ pc[r] = "wait" /\ (CanGo(event[r]) \/ event[r] \in stranded)

\* How far a request has come: both of its waits are behind it for good.
Rank == [p \in Place |->
    CASE p = "lookup"  -> 0 [] p = "engine"  -> 1 [] p = "wait"    -> 2
      [] p = "recheck" -> 3 [] p = "build"   -> 4 [] p = "store"   -> 5
      [] p = "settle"  -> 6 [] p = "done"    -> 7]

OneMovesOn ==
    \E r \in Request : /\ Rank[pc'[r]] > Rank[pc[r]]
                       /\ \A q \in Request \ {r} : pc'[q] = pc[q]
LEMMA SnapshotsInit == Init => SnapshotsLock
BY ApiCacheAssumption DEF Init, SnapshotsLock

LEMMA SnapshotsNext == IInv /\ SnapshotsLock /\ [Next]_vars => SnapshotsLock'
<1> SUFFICES ASSUME IInv, SnapshotsLock, [Next]_vars PROVE SnapshotsLock'
  OBVIOUS
<1> USE ApiCacheAssumption
    DEF IInv, TypeOK, EventsAreSafe, LockIsForSnapshots, SnapshotsLock,
        shared, Goto, LockFree, StartBuild, Fault, Put, Leads, Keeps
<1>1. ASSUME NEW r \in Request, NEW from \in {"lookup", "recheck"}, Hit(r, from)
      PROVE  SnapshotsLock'
  BY <1>1 DEF Hit
<1>2. ASSUME NEW r \in Request, Register(r) \/ Join(r) PROVE SnapshotsLock'
  BY <1>2 DEF Register, Join
<1>3. ASSUME NEW r \in Request, Engine(r) \/ EngineFails(r) PROVE SnapshotsLock'
  BY <1>3 DEF Engine, EngineFails
<1>4. ASSUME NEW r \in Request, Wake(r) \/ Recheck(r) PROVE SnapshotsLock'
  BY <1>4 DEF Wake, Recheck
<1>5. ASSUME NEW r \in Request, Build(r) \/ BuildFails(r) PROVE SnapshotsLock'
  BY <1>5 DEF Build, BuildFails
<1>6. ASSUME NEW r \in Request, Store(r) \/ Settle(r) PROVE SnapshotsLock'
  BY <1>6 DEF Store, Settle
<1>7. ASSUME NEW r \in Request, SnapshotEnter(r) PROVE SnapshotsLock'
  BY <1>7 DEF SnapshotEnter
<1>8. ASSUME NEW r \in Request, SnapshotBuilt(r) \/ SnapshotFails(r)
      PROVE  SnapshotsLock'
  BY <1>8 DEF SnapshotBuilt, SnapshotFails
<1>9. CASE NewData \/ (\E k \in View : Expire(k)) \/ UNCHANGED vars
  BY <1>9 DEF NewData, Expire, vars
<1> QED
  BY <1>1, <1>2, <1>3, <1>4, <1>5, <1>6, <1>7, <1>8, <1>9 DEF Next, Serve, Fail

LEMMA SomeoneCanGo == IInv /\ SnapshotsLock => NobodyIsStuck
<1> SUFFICES ASSUME IInv, SnapshotsLock, NEW r \in Request,
                    pc[r] # "done", ~CanGo(r), ~(lock \in Request /\ CanGo(lock))
             PROVE  pc[r] = "wait" /\ (CanGo(event[r]) \/ event[r] \in stranded)
  BY DEF NobodyIsStuck
<1>1. LockFree
  BY DEF LockFree, CanGo, SnapshotsLock, IInv, TypeOK
<1>2. pc[r] = "wait" /\ event[r] \notin fired
  BY <1>1 DEF CanGo, SnapshotsLock, IInv, TypeOK
<1>3. pc[event[r]] \in Leading \/ event[r] \in stranded
  BY <1>2, InvWakes DEF SomeoneWillWake
<1>4. view[event[r]] # "snapshot"
  BY <1>2, ApiCacheAssumption DEF IInv, TypeOK, EventsAreSafe, OwnersLead
<1> QED
  BY <1>1, <1>2, <1>3, <1>4 DEF CanGo

\* The requests never block one another for good: neither the lock, nor the
\* Events, nor both together ever make a circle of requests that all wait.
THEOREM NoDeadlock == Spec => []NobodyIsStuck
<1>1. Spec => []SnapshotsLock
  BY Inductive, SnapshotsInit, SnapshotsNext, PTL DEF Spec
<1> QED
  BY <1>1, Inductive, SomeoneCanGo, PTL

LEMMA StepMovesOn == IInv /\ [Next]_vars => [OneMovesOn]_pc
<1> SUFFICES ASSUME IInv, [Next]_vars, pc' # pc PROVE OneMovesOn
  OBVIOUS
<1>1. PICK r \in Request : Serve(r) \/ Fail(r)
  BY DEF Next, vars, Expire, NewData
<1> DEFINE from == pc[r]
           to == pc'[r]
<1>2. \A q \in Request \ {r} : pc'[q] = pc[q]
  BY <1>1 DEF Serve, Fail, Hit, Register, Join, Engine, EngineFails, Wake, Recheck,
         Build, BuildFails, Store, Settle, SnapshotEnter, SnapshotBuilt,
         SnapshotFails, Goto, StartBuild, IInv, TypeOK
<1>3. \/ from \in {"lookup", "recheck"} /\ to = "done"
      \/ from = "lookup" /\ to \in {"build", "engine", "wait"}
      \/ from = "engine" /\ to \in {"build", "wait", "done"}
      \/ from = "wait" /\ to = "recheck"
      \/ from = "recheck" /\ to = "build"
      \/ from = "build" /\ to \in {"store", "settle", "done"}
      \/ from = "store" /\ to = "settle"
      \/ from = "settle" /\ to = "done"
  BY <1>1 DEF Serve, Fail, Hit, Register, Join, Engine, EngineFails, Wake, Recheck,
         Build, BuildFails, Store, Settle, SnapshotEnter, SnapshotBuilt,
         SnapshotFails, Goto, StartBuild, IInv, TypeOK
<1>4. Rank[to] > Rank[from]
  BY <1>3 DEF Rank
<1> QED
  BY <1>2, <1>4 DEF OneMovesOn

\* A step of a request takes it, and no other, strictly forward: no thread of
\* the server ever waits twice for an Event or builds twice, and a request ends
\* after seven steps of its own at most.
THEOREM RequestsMoveOn == Spec => [][OneMovesOn]_pc
BY Inductive, StepMovesOn, PTL DEF Spec
=============================================================================
