------------------------------ MODULE ApiCache ------------------------------
(***************************************************************************)
(* The in-memory cache of the API server (apps/api/main.py) and the        *)
(* "one builder per key" scheme around it.  ThreadingHTTPServer gives      *)
(* every request a thread of its own; the threads share _cache and, per    *)
(* view, a table of threading.Event objects, both under _cache_lock.       *)
(*                                                                         *)
(*   board     _market_intelligence_review_board_payload_cached            *)
(*   hot       lowfreq_hot_sectors_view, for the requests it caches        *)
(*   snapshot  build_snapshot, which keeps _cache_lock while it builds     *)
(*                                                                         *)
(* One key of each view is modelled: keys of a view do not interact.  The  *)
(* data a payload is built from is a version number.                       *)
(***************************************************************************)
EXTENDS Naturals, FiniteSets

CONSTANTS
    Request,     \* HTTP requests, one thread each
    Demands,     \* the ways to share out the views among the requests
    None,        \* no event, no payload, no holder
    MaxVersion,  \* bound on the changes of the data
    MaxFaults    \* bound on failing builds and engine set-ups

View == {"board", "hot", "snapshot"}
Flight == {"board", "hot"}          \* the views with a table of events
Version == 0 .. MaxVersion

ASSUME ApiCacheAssumption ==
    /\ Demands \subseteq [Request -> View]
    /\ None \notin Request
    /\ None \notin Nat
    /\ MaxVersion \in Nat
    /\ MaxFaults \in Nat

VARIABLES
    view,       \* view[r]: the view that request r asks for
    data,       \* version of the data in the database
    cache,      \* cache[k]: version the cached payload shows, or None
    lock,       \* the snapshot request that holds _cache_lock, or None
    inflight,   \* inflight[k]: the request whose Event is in the table, or None
    fired,      \* requests whose Event is set
    event,      \* event[r]: whose Event r has taken from the table (r: its own)
    made,       \* made[r]: the oldest data r's payload may show
    pc,         \* pc[r]: where request r stands; a request that has not
                \* arrived yet is one that has not taken its first step
    faults,     \* failures so far
    stored,     \* history: version of the last board put in the cache
    builds,     \* history: the requests that have started a build
    calm,       \* history: no payload has expired and no step has failed
    stranded    \* history: requests that registered an Event and lost it in
                \* _lowfreq_engine_v16

shared == <<view, data, cache, lock, inflight, fired>>
vars == <<view, data, cache, lock, inflight, fired, event, made, pc, faults,
          stored, builds, calm, stranded>>

Place == {"lookup", "engine", "wait", "recheck", "build", "store",
          "settle", "done"}

\* Type invariant of the cache, its tables of events and the requests.
TypeOK ==
    /\ view \in [Request -> View]
    /\ data \in Version
    /\ cache \in [View -> Version \union {None}]
    /\ lock \in Request \union {None}
    /\ inflight \in [Flight -> Request \union {None}]
    /\ fired \subseteq Request
    /\ event \in [Request -> Request \union {None}]
    /\ made \in [Request -> Version]
    /\ pc \in [Request -> Place]
    /\ faults \in 0 .. MaxFaults
    /\ stored \in Version
    /\ builds \subseteq Request
    /\ calm \in BOOLEAN
    /\ stranded \subseteq Request

Init ==
    /\ view \in Demands
    /\ data = 0
    /\ cache = [k \in View |-> None]
    /\ lock = None
    /\ inflight = [k \in Flight |-> None]
    /\ fired = {}
    /\ event = [r \in Request |-> None]
    /\ made = [r \in Request |-> 0]
    /\ pc = [r \in Request |-> "lookup"]
    /\ faults = 0
    /\ stored = 0
    /\ builds = {}
    /\ calm = TRUE
    /\ stranded = {}

-----------------------------------------------------------------------------
(* Helpers *)

Asks(k) == {r \in Request : view[r] = k}
Leads(r) == event[r] = r
Goto(r, to) == pc' = [pc EXCEPT ![r] = to]

\* A critical section under _cache_lock; short ones are one step.
LockFree == lock = None

\* What r builds shows the data of some moment from here on.
StartBuild(r) ==
    /\ Goto(r, "build")
    /\ made' = [made EXCEPT ![r] = data]
    /\ builds' = builds \union {r}

Fault == faults < MaxFaults /\ faults' = faults + 1 /\ calm' = FALSE

Put(k, v) ==
    /\ cache' = [cache EXCEPT ![k] = v]
    /\ stored' = IF k = "board" THEN v ELSE stored

\* Only a board request that has waited returns its payload without storing it.
Keeps(r) == view[r] = "hot" \/ Leads(r)

-----------------------------------------------------------------------------
(* Requests for the board and for the hot sectors *)

Hit(r, from) ==
    /\ pc[r] = from
    /\ LockFree
    /\ cache[view[r]] # None
    /\ Goto(r, "done")
    /\ UNCHANGED <<shared, event, made, faults, stored, builds, calm, stranded>>

\* No payload and no Event: r puts its own Event in the table.
Register(r) ==
    LET k == view[r] IN
    /\ pc[r] = "lookup" /\ LockFree /\ k \in Flight
    /\ cache[k] = None /\ inflight[k] = None
    /\ inflight' = [inflight EXCEPT ![k] = r]
    /\ event' = [event EXCEPT ![r] = r]
    /\ IF k = "board"
       THEN StartBuild(r)
       ELSE Goto(r, "engine") /\ UNCHANGED <<made, builds>>
    /\ UNCHANGED <<view, data, cache, lock, fired, faults, stored, calm, stranded>>

\* No payload, but another request's Event: r will wait for it.
Join(r) ==
    LET k == view[r] IN
    /\ pc[r] = "lookup" /\ LockFree /\ k \in Flight
    /\ cache[k] = None /\ inflight[k] # None
    /\ event' = [event EXCEPT ![r] = inflight[k]]
    /\ Goto(r, IF k = "board" THEN "wait" ELSE "engine")
    /\ UNCHANGED <<shared, made, faults, stored, builds, calm, stranded>>

\* _lowfreq_engine_v16 runs between the registration and the try.
Engine(r) ==
    /\ pc[r] = "engine"
    /\ IF Leads(r)
       THEN StartBuild(r)
       ELSE Goto(r, "wait") /\ UNCHANGED <<made, builds>>
    /\ UNCHANGED <<shared, event, faults, stored, calm, stranded>>

\* It raises (invalid_strategy_config): no finally takes the Event back.
EngineFails(r) ==
    /\ pc[r] = "engine"
    /\ Fault
    /\ Goto(r, "done")
    /\ stranded' = IF Leads(r) THEN stranded \union {r} ELSE stranded
    /\ UNCHANGED <<shared, event, made, stored, builds>>

Wake(r) ==
    /\ pc[r] = "wait"
    /\ event[r] \in fired
    /\ Goto(r, "recheck")
    /\ UNCHANGED <<shared, event, made, faults, stored, builds, calm, stranded>>

\* Faulty variant: a woken request builds without a second look at the cache.
Recheck_Blind(r) ==
    /\ pc[r] = "recheck" /\ LockFree
    /\ StartBuild(r)
    /\ UNCHANGED <<shared, event, faults, stored, calm, stranded>>

\* The Event was set, but there is no payload: r builds one itself.
Recheck(r) ==
    /\ pc[r] = "recheck" /\ LockFree
    /\ cache[view[r]] = None
    /\ StartBuild(r)
    /\ UNCHANGED <<shared, event, faults, stored, calm, stranded>>

\* Faulty variant: a board request that has waited stores its payload as well.
Build_AlwaysStored(r) ==
    /\ pc[r] = "build" /\ view[r] # "snapshot"
    /\ \E v \in made[r] .. data : made' = [made EXCEPT ![r] = v]
    /\ Goto(r, "store")
    /\ UNCHANGED <<shared, event, faults, stored, builds, calm, stranded>>

Build(r) ==
    /\ pc[r] = "build" /\ view[r] # "snapshot"
    /\ \E v \in made[r] .. data : made' = [made EXCEPT ![r] = v]
    /\ Goto(r, IF Keeps(r) THEN "store" ELSE "done")
    /\ UNCHANGED <<shared, event, faults, stored, builds, calm, stranded>>

\* Faulty variant: the Event is taken back on the successful path only.
BuildFails_NoFinally(r) ==
    /\ pc[r] = "build" /\ view[r] # "snapshot"
    /\ Fault
    /\ Goto(r, "done")
    /\ UNCHANGED <<shared, event, made, stored, builds, stranded>>

\* The build raises; the finally of the try still runs.
BuildFails(r) ==
    /\ pc[r] = "build" /\ view[r] # "snapshot"
    /\ Fault
    /\ Goto(r, IF Keeps(r) THEN "settle" ELSE "done")
    /\ UNCHANGED <<shared, event, made, stored, builds, stranded>>

Store(r) ==
    /\ pc[r] = "store" /\ LockFree
    /\ Put(view[r], made[r])
    /\ Goto(r, "settle")
    /\ UNCHANGED <<view, data, lock, inflight, fired, event, made, faults, builds,
                   calm, stranded>>

\* Faulty variant: the Event is taken from the table and never set.
Settle_Silent(r) ==
    LET k == view[r] IN
    /\ pc[r] = "settle" /\ LockFree /\ k \in Flight
    /\ inflight' = [inflight EXCEPT ![k] = None]
    /\ Goto(r, "done")
    /\ UNCHANGED <<view, data, cache, lock, fired, event, made, faults, stored, builds,
                   calm, stranded>>

\* The finally: whatever Event the table holds is removed and set.
Settle(r) ==
    LET k == view[r] IN
    /\ pc[r] = "settle" /\ LockFree /\ k \in Flight
    /\ fired' = fired \union ({inflight[k]} \ {None})
    /\ inflight' = [inflight EXCEPT ![k] = None]
    /\ Goto(r, "done")
    /\ UNCHANGED <<view, data, cache, lock, event, made, faults, stored, builds,
                   calm, stranded>>

-----------------------------------------------------------------------------
(* build_snapshot: the daily run and the write are inside the lock *)

SnapshotEnter(r) ==
    /\ pc[r] = "lookup" /\ view[r] = "snapshot" /\ LockFree
    /\ cache["snapshot"] = None
    /\ lock' = r
    /\ StartBuild(r)
    /\ UNCHANGED <<view, data, cache, inflight, fired, event, faults, stored, calm,
                   stranded>>

SnapshotBuilt(r) ==
    /\ pc[r] = "build" /\ lock = r
    /\ \E v \in made[r] .. data :
            /\ Put("snapshot", v)
            /\ made' = [made EXCEPT ![r] = v]
    /\ lock' = None
    /\ Goto(r, "done")
    /\ UNCHANGED <<view, data, inflight, fired, event, faults, builds, calm, stranded>>

SnapshotFails(r) ==
    /\ pc[r] = "build" /\ lock = r
    /\ Fault
    /\ lock' = None
    /\ Goto(r, "done")
    /\ UNCHANGED <<view, data, cache, inflight, fired, event, made, stored, builds,
                   stranded>>

-----------------------------------------------------------------------------
(* The environment *)

\* The time to live of a payload is over: _cache_get treats it as absent.
Expire(k) ==
    /\ cache[k] # None
    /\ cache' = [cache EXCEPT ![k] = None]
    /\ calm' = FALSE
    /\ UNCHANGED <<view, data, lock, inflight, fired, event, made, pc, faults, stored,
                   builds, stranded>>

\* A feed or a daily run changes the data the views read.
NewData ==
    /\ data < MaxVersion
    /\ data' = data + 1
    /\ UNCHANGED <<view, cache, lock, inflight, fired, event, made, pc, faults, stored,
                   builds, calm, stranded>>

-----------------------------------------------------------------------------

Serve(r) ==
    \/ Hit(r, "lookup") \/ Hit(r, "recheck")
    \/ Register(r) \/ Join(r) \/ Engine(r) \/ Wake(r) \/ Recheck(r)
    \/ Build(r) \/ Store(r) \/ Settle(r)
    \/ SnapshotEnter(r) \/ SnapshotBuilt(r)

Fail(r) == EngineFails(r) \/ BuildFails(r) \/ SnapshotFails(r)

Next ==
    \/ \E r \in Request : Serve(r) \/ Fail(r)
    \/ \E k \in View : Expire(k)
    \/ NewData

Spec == Init /\ [][Next]_vars

\* Threads that can go on are scheduled and builds come to an end.
FairSpec == Spec /\ \A r \in Request : WF_vars(Serve(r))

-----------------------------------------------------------------------------
(* Properties *)

\* Where a request that has registered its Event still comes to its finally.
Leading == {"engine", "build", "store", "settle"}

\* A waiting request waits for an Event that is set, or that is in the table
\* and whose owner still comes to the finally that sets it; the exception is
\* an owner that the engine set-up has thrown out of lowfreq_hot_sectors_view.
SomeoneWillWake ==
    \A r \in Request : pc[r] = "wait" =>
        \/ event[r] \in fired
        \/ /\ inflight[view[r]] = event[r]
           /\ pc[event[r]] \in Leading \/ event[r] \in stranded

\* As long as nothing fails and nothing expires, the requests for a key cause
\* one build between them, whatever their interleaving.
OneBuildWhileCalm ==
    calm => \A k \in View : Cardinality(builds \intersect Asks(k)) <= 1

\* The board in the cache never goes back to older data: a slow builder does
\* not overwrite what a later one has stored.
BoardGoesForward == [][stored' >= stored]_stored

\* Every request is answered, also when builds fail and payloads expire while
\* others wait, and although a snapshot request keeps the lock for a whole
\* daily run; hot sectors only as long as no engine set-up strands an Event.
EveryRequestIsAnswered ==
    \A r \in Request :
        \/ <>(pc[r] = "done")
        \/ view[r] = "hot" /\ <>(stranded # {})
=============================================================================
