------------------------------ MODULE LowfreqSim ------------------------------
(***************************************************************************)
(* The simulated portfolio of the low-frequency strategy                   *)
(* (apps/api/main.py): one JSON file, state.json, that holds the cash, the *)
(* positions, the trading intents, the signal memory and settings.         *)
(* Every request loads the whole file, works on its own copy and           *)
(* writes the whole copy back in place, without a lock; the requests are   *)
(* threads of the API server and of the scheduler's processes.             *)
(*                                                                         *)
(* Intents are made from signals (the daily pipeline, the queue view) or   *)
(* by hand, for the next trading day, and executed by the job of 09:35, or *)
(* by hand.  Shares are counted in lots and prices in whole units; a sale  *)
(* is of the whole position, since the engine has no partial exit left.    *)
(***************************************************************************)
EXTENDS Naturals, Sequences, FiniteSets, FiniteSetsExt

CONSTANTS
    Codes,        \* stocks
    Request,      \* requests that may be under way at the same time
    Capital,      \* initial_capital
    Prices,       \* possible prices of a lot
    MaxPositions, \* engine.MAX_POSITIONS
    Memory,       \* engine.BUY_SIGNAL_MEMORY_DAYS
    LastDay,      \* bound: trading days 1..LastDay, and the last one does not close
    Window,       \* bound: requests name today or one of the Window days before
    MaxIntents,   \* bound on intents in the file
    MaxRequests,  \* bound on requests
    MaxOverlaps   \* bound on requests that begin while another is under way

ASSUME SimAssumption ==
    /\ Capital \in Nat /\ Prices \subseteq Nat \ {0}
    /\ MaxPositions \in Nat \ {0} /\ Memory \in Nat \ {0}
    /\ LastDay \in Nat \ {0} /\ Window \in Nat /\ MaxIntents \in Nat
    /\ MaxRequests \in Nat /\ MaxOverlaps \in Nat
    /\ IsFiniteSet(Codes)

VARIABLES
    now,      \* half days: 2d - 1 is the morning of day d, 2d is after its close
    ran,      \* the job of 09:35 has been done today
    file,     \* the last snapshot that was written completely
    torn,     \* the file is truncated or mixed, and does not parse
    req,      \* the requests under way
    count,    \* requests so far
    overlaps, \* those that began while another was under way
    blame     \* history: what else may explain a loss or a delay

vars == <<now, ran, file, torn, req, count, overlaps, blame>>

Day == 1..LastDay
Today == (now + 1) \div 2
Done(d) == 2 * d <= now
\* The last day whose 09:35 window is over.
Passed == IF ran \/ Done(Today) THEN Today ELSE Today - 1

Kind == {"buy", "sell"}
Status == {"pending", "executed", "cancelled", "failed"}
Intent == [kind : Kind, code : Codes, asked : Day, exec : Nat,
           status : Status, px : Nat, lots : Nat]
Snapshot == [cash : Nat, held : [Codes -> Nat], since : [Codes -> Nat], intents : Seq(Intent),
             abandoned : SUBSET (Codes \X Day), memory : [Codes -> Nat],
             last : 0..LastDay]

\* The state of a missing file, and of one that does not parse.
Default == [cash |-> Capital, held |-> [c \in Codes |-> 0],
            since |-> [c \in Codes |-> 0], intents |-> <<>>,
            abandoned |-> {}, memory |-> [c \in Codes |-> 0],
            last |-> 0]
Loaded == IF torn THEN Default ELSE file

Held(s) == {c \in Codes : s.held[c] > 0}
Ids(s) == 1..Len(s.intents)
Overdue(it) == it.status = "pending" /\ it.exec <= Passed
IsPending(it, k, c) == it.kind = k /\ it.code = c /\ it.status = "pending"

Phase == {"idle", "execute", "generate", "ready", "writing"}
\* kind: the job of 09:35, the same when it finds no next trading date, the
\* advance of the daily pipeline, or another request; day, until: the date worked
\* on, and the last one; at: the last intent the job has been at; mixed: while it
\* was open for writing, the file was opened by another request.
Job == {"job", "dateless job"}
Kinds == Job \cup {"advance", "other"}
Local == [phase : Phase, snap : Snapshot, kind : Kinds,
          day : Day, until : Day, at : Nat, mixed : BOOLEAN]
Idle == [phase |-> "idle", snap |-> Default, kind |-> "other",
         day |-> 1, until |-> 1, at |-> 0, mixed |-> FALSE]
Busy(p) == req[p].phase # "idle"

Init ==
    /\ now = 1 /\ ran = FALSE
    /\ file = Default /\ torn = FALSE
    /\ req = [p \in Request |-> Idle]
    /\ count = 0 /\ overlaps = 0
    /\ blame = {}

-----------------------------------------------------------------------------
(* Requests load, work and write. *)

\* _load_lowfreq_sim_state, and then the work up to the given phase.
Begin(p, phase, snap, kind, day, until) ==
    /\ ~Busy(p) /\ count < MaxRequests
    /\ Len(snap.intents) <= MaxIntents
    /\ count' = count + 1
    /\ overlaps' = IF \E q \in Request : Busy(q) THEN overlaps + 1 ELSE overlaps
    /\ overlaps' <= MaxOverlaps
    /\ req' = [req EXCEPT ![p] = [phase |-> phase, snap |-> snap, kind |-> kind,
                                  day |-> day, until |-> until, at |-> 0,
                                  mixed |-> FALSE]]
    /\ blame' = blame \cup (IF \E i \in Ids(snap) \ Ids(Loaded) : Overdue(snap.intents[i])
                           THEN {"late"} ELSE {})
    /\ UNCHANGED <<now, ran, file, torn>>

\* Requests that are done with their work as soon as they have loaded.
Ready(p, snap) == Begin(p, "ready", snap, "other", 1, 1)

\* _save_lowfreq_sim_state: opening the file truncates it, ...
Open(p) ==
    /\ req[p].phase = "ready"
    /\ torn' = TRUE
    /\ req' = [q \in Request |->
                 IF q = p THEN [req[p] EXCEPT !.phase = "writing",
                                !.mixed = \E r \in Request : req[r].phase = "writing"]
                 ELSE [req[q] EXCEPT !.mixed = @ \/ req[q].phase = "writing"]]
    /\ UNCHANGED <<now, ran, file, count, overlaps, blame>>

\* ... and closing it leaves the whole snapshot there, or, when two have
\* written over each other, possibly a mixture.
Close(p) ==
    /\ req[p].phase = "writing"
    /\ \/ file' = req[p].snap /\ torn' = FALSE
       \/ req[p].mixed /\ UNCHANGED <<file, torn>>
    /\ ran' = (ran \/ req[p].kind \in Job)
    /\ req' = [req EXCEPT ![p] = Idle]
    /\ UNCHANGED <<now, count, overlaps, blame>>

\* The process dies while it writes: the file stays truncated.  A request that
\* fails before it opens the file has changed nothing, and is left out.
Crash(p) ==
    /\ req[p].phase = "writing"
    /\ req' = [req EXCEPT ![p] = Idle]
    /\ blame' = blame \cup {"torn"}
    /\ UNCHANGED <<now, ran, file, torn, count, overlaps>>

\* The next half day; requests are short next to it.
Tick ==
    /\ \A p \in Request : ~Busy(p)
    /\ now < 2 * LastDay - 1
    /\ now' = now + 1
    /\ ran' = FALSE
    /\ blame' = blame \cup (IF ~Done(Today) /\ ~ran THEN {"missed"} ELSE {})
    /\ UNCHANGED <<file, torn, req, count, overlaps>>

-----------------------------------------------------------------------------
(* Making intents. *)

NewIntent_SameDay(k, c, d) ==
    [kind |-> k, code |-> c, asked |-> d, exec |-> d,
     status |-> "pending", px |-> 0, lots |-> 0]
NewIntent(k, c, d) ==
    [kind |-> k, code |-> c, asked |-> d, exec |-> d + 1,
     status |-> "pending", px |-> 0, lots |-> 0]

\* _lowfreq_find_pending_intent, _lowfreq_find_blocking_pending_intent.
Asked(s, k, c, d) ==
    \E i \in Ids(s) : IsPending(s.intents[i], k, c) /\ s.intents[i].asked = d
Blocked(s, k, c, d) ==
    \E i \in Ids(s) : IsPending(s.intents[i], k, c) /\ s.intents[i].exec >= d + 1
Free(s, k, c, d) == ~Asked(s, k, c, d) /\ ~Blocked(s, k, c, d)

\* The orders in which the intents of a set may be appended.
Orders(S) ==
    {q \in [1..Cardinality(S) -> S] : \A i, j \in DOMAIN q : q[i] = q[j] => i = j}

\* The signal memory once the buy signals of day d are in.  A signal replaces the
\* entry it meets, unless that has the better score and lasts as long.
Remembered(m, signals, d) ==
    {n \in [Codes -> {m[c] : c \in Codes} \cup {d + Memory}] :
        \A c \in Codes :
            \/ c \in signals /\ n[c] = d + Memory
            \/ n[c] = m[c] /\ (c \in signals => m[c] >= d + Memory)}

Alive(s, m, c, d) == m[c] >= d /\ s.held[c] = 0 /\ <<c, d>> \notin s.abandoned
ToSell(s, signals, d) ==
    {c \in signals \cap Held(s) : <<c, d>> \notin s.abandoned /\ Free(s, "sell", c, d)}
ToBuy(s, m, d) == {c \in Codes : Alive(s, m, c, d) /\ Free(s, "buy", c, d)}

\* The request r once it has made its day's intents, in the order of sq and of bq;
\* a stock that got one leaves the memory.
Generated(r, sq, bq, m) ==
    LET s == r.snap
        d == r.day
    IN  [r EXCEPT
           !.snap = [s EXCEPT
               !.intents = @ \o [i \in DOMAIN sq |-> NewIntent("sell", sq[i], d)]
                             \o [i \in DOMAIN bq |-> NewIntent("buy", bq[i], d)],
               !.memory = [c \in Codes |->
                   IF Alive(s, m, c, d) /\ c \notin ToBuy(s, m, d) THEN m[c] ELSE 0],
               !.last = IF r.kind = "advance" THEN d ELSE @],
           !.day = IF d < r.until THEN d + 1 ELSE d,
           !.phase = IF d < r.until THEN "generate" ELSE "ready"]

\* _lowfreq_generate_execution_intents_for_date, and the loop around it in
\* _advance_lowfreq_sim_state.  The signals are the engine's; a day without
\* prices has none.
Generate(p) ==
    LET s == req[p].snap
        d == req[p].day
        Signals == IF Done(d) THEN SUBSET Codes ELSE {{}}
    IN  /\ req[p].phase = "generate"
        /\ \E sells, buys \in Signals : \E m \in Remembered(s.memory, buys, d) :
           \E sq \in Orders(ToSell(s, sells, d)), bq \in Orders(ToBuy(s, m, d)) :
              /\ Len(s.intents) + Len(sq) + Len(bq) <= MaxIntents
              /\ req' = [req EXCEPT ![p] = Generated(@, sq, bq, m)]
        /\ blame' = blame \cup (IF d + 1 <= Passed THEN {"late"} ELSE {})
        /\ UNCHANGED <<now, ran, file, torn, count, overlaps>>

\* The daily pipeline and lowfreq_sim_run_view: the days after last_date, or just
\* the target date when that is not after it.
Advance(p, d) ==
    LET s == Loaded
    IN  Begin(p, "generate", s, "advance",
              IF s.last = 0 \/ s.last >= d THEN d ELSE s.last + 1, d)

\* lowfreq_execution_queue_view while the autopilot is off (a setting that nothing
\* else here depends on): a read that generates, and writes.
QueueView(p, d) == Begin(p, "generate", Loaded, "other", d, d)

-----------------------------------------------------------------------------
(* Requests about intents and settings. *)

ManualBuy_Again(p, c, d) ==
    Ready(p, [Loaded EXCEPT !.intents = Append(@, NewIntent("buy", c, d))])
\* lowfreq_manual_buy_intent_view
ManualBuy(p, c, d) ==
    /\ ~Asked(Loaded, "buy", c, d)
    /\ Ready(p, [Loaded EXCEPT !.intents = Append(@, NewIntent("buy", c, d))])

Cancelled(it) == [it EXCEPT !.status = "cancelled"]

\* lowfreq_manual_abandon_view
ManualAbandon(p, c, d) ==
    Ready(p, [Loaded EXCEPT
        !.abandoned = @ \cup {<<c, d>>},
        !.intents = [i \in DOMAIN @ |->
            IF IsPending(@[i], "buy", c) /\ @[i].asked = d THEN Cancelled(@[i]) ELSE @[i]]])

IntentAbandon_Settled(p, i) == Ready(p, [Loaded EXCEPT !.intents[i] = Cancelled(@)])
\* lowfreq_execution_intent_abandon_view; an intent that is settled already is
\* left alone, and the file written all the same.
IntentAbandon(p, i) ==
    Ready(p, [Loaded EXCEPT !.intents[i] =
                 IF @.status = "pending" THEN Cancelled(@) ELSE @])

\* lowfreq_portfolio_view, the hot sectors' views and the autopilot switch: what
\* they change is not modelled, but they write the file.
Rewrite(p) == Ready(p, Loaded)

\* trade_closeout_yesterday_run_view, in the pipeline of today: yesterday's
\* pending intents are moved to the next trading day, which is today, or keep their
\* date when no next trading day is found.
Closeout(p) ==
    /\ Today > 1
    /\ \E next \in {Today, Today - 1} :
          Ready(p, [Loaded EXCEPT !.intents = [i \in DOMAIN @ |->
              IF @[i].status = "pending" /\ @[i].exec = Today - 1
              THEN [@[i] EXCEPT !.exec = next] ELSE @[i]]])

-----------------------------------------------------------------------------
(* Executing intents. *)

Slots(s) == MaxPositions - Cardinality(Held(s))
Affordable_RoundsUp(s, px) ==
    1 + (s.cash \div (IF Slots(s) > 1 THEN Slots(s) ELSE 1)) \div px
Affordable(s, px) == (s.cash \div (IF Slots(s) > 1 THEN Slots(s) ELSE 1)) \div px

Settled(it, st) == [it EXCEPT !.status = st]
Executed(it, px, n) == [it EXCEPT !.status = "executed", !.px = px, !.lots = n]

Bought(s, i, px) ==
    LET c == s.intents[i].code
        n == Affordable(s, px)
    IN  [s EXCEPT !.cash = @ - n * px, !.held[c] = n,
                  !.since[c] = s.intents[i].exec,
                  !.intents[i] = Executed(@, px, n)]
Sold(s, i, px) ==
    LET c == s.intents[i].code
    IN  [s EXCEPT !.cash = @ + s.held[c] * px, !.held[c] = 0,
                  !.since[c] = 0,
                  !.intents[i] = Executed(@, px, s.held[c])]

CanBuy(s, px) == Slots(s) > 0 /\ Affordable(s, px) > 0

Processed_Again(p, i) ==
    LET s == Loaded
        it == s.intents[i]
    IN     \/ /\ it.kind = "buy" /\ s.held[it.code] > 0
              /\ Ready(p, [s EXCEPT !.intents[i] = Cancelled(@)])
           \/ \E px \in Prices :
                 /\ Done(it.exec)
                 /\ \/ /\ it.kind = "buy" /\ s.held[it.code] = 0 /\ CanBuy(s, px)
                       /\ Ready(p, Bought(s, i, px))
                    \/ /\ it.kind = "sell" /\ s.held[it.code] > 0
                       /\ Ready(p, Sold(s, i, px))

\* lowfreq_execution_intent_processed_view: at the open price of the intent's
\* own execute date.  On an error nothing is written.
Processed(p, i) ==
    LET s == Loaded
        it == s.intents[i]
    IN  /\ it.status = "pending"
        /\ \/ /\ it.kind = "buy" /\ s.held[it.code] > 0
              /\ Ready(p, [s EXCEPT !.intents[i] = Cancelled(@)])
           \/ \E px \in Prices :
                 /\ Done(it.exec)
                 /\ \/ /\ it.kind = "buy" /\ s.held[it.code] = 0 /\ CanBuy(s, px)
                       /\ Ready(p, Bought(s, i, px))
                    \/ /\ it.kind = "sell" /\ s.held[it.code] > 0
                       /\ Ready(p, Sold(s, i, px))

\* trade_execution_rt_run_view, on the morning of a trading day.
RtRun(p) ==
    /\ ~Done(Today)
    /\ \E kind \in Job : Begin(p, "execute", Loaded, kind, Today, Today)

DueOn(s, d) == {i \in Ids(s) : s.intents[i].status = "pending" /\ s.intents[i].exec = d}

\* What becomes of a due intent at a price, 0 when there is none; one that has to
\* wait is given the date next.
Outcome(s, i, px, next) ==
    LET it == s.intents[i]
        has == s.held[it.code] > 0
        Postponed == [s EXCEPT !.intents[i].exec = next]
    IN  CASE px = 0 -> Postponed
          [] px > 0 /\ it.kind = "buy" /\ has -> [s EXCEPT !.intents[i] = Settled(@, "cancelled")]
          [] px > 0 /\ it.kind = "buy" /\ ~has ->
                IF CanBuy(s, px) THEN Bought(s, i, px) ELSE Postponed
          [] px > 0 /\ it.kind = "sell" /\ has -> Sold(s, i, px)
          [] px > 0 /\ it.kind = "sell" /\ ~has -> [s EXCEPT !.intents[i] = Settled(@, "failed")]

\* The due intents the job has not been at yet.
Left(r) == {i \in DueOn(r.snap, r.day) : i > r.at}

\* One pass of its loop over the due intents, in the order they were made.
Execute(p) ==
    LET d == req[p].day
        next == IF req[p].kind = "job" THEN d + 1 ELSE d
    IN  /\ req[p].phase = "execute"
        /\ \E i \in Left(req[p]), px \in Prices \cup {0} :
              LET s == Outcome(req[p].snap, i, px, next)
              IN  /\ \A j \in Left(req[p]) : i <= j
                  /\ req' = [req EXCEPT ![p] = [@ EXCEPT !.snap = s, !.at = i]]
                  /\ blame' = blame \cup (IF i \in DueOn(s, d) THEN {"undated"} ELSE {})
        /\ UNCHANGED <<now, ran, file, torn, count, overlaps>>

RtDone_Early(p) ==
    /\ req[p].phase = "execute"
    /\ req' = [req EXCEPT ![p].phase = "ready"]
    /\ UNCHANGED <<now, ran, file, torn, count, overlaps, blame>>
RtDone(p) ==
    /\ req[p].phase = "execute"
    /\ Left(req[p]) = {}
    /\ req' = [req EXCEPT ![p].phase = "ready"]
    /\ UNCHANGED <<now, ran, file, torn, count, overlaps, blame>>

-----------------------------------------------------------------------------
Named == {d \in 1..Today : Today <= d + Window}
Handle(p) ==
    \/ \E d \in Named : Advance(p, d) \/ QueueView(p, d)
    \/ \E c \in Codes, d \in Named : ManualBuy(p, c, d) \/ ManualAbandon(p, c, d)
    \/ \E i \in Ids(Loaded) : IntentAbandon(p, i) \/ Processed(p, i)
    \/ Rewrite(p) \/ Closeout(p) \/ RtRun(p)

Next ==
    \/ Tick
    \/ \E p \in Request :
          \/ Handle(p) \/ Generate(p) \/ Execute(p) \/ RtDone(p)
          \/ Open(p) \/ Close(p) \/ Crash(p)

Spec == Init /\ [][Next]_vars

-----------------------------------------------------------------------------
(* Properties. *)

\* Every snapshot is a portfolio: cash is never negative and there are never
\* more positions than MAX_POSITIONS.
Sound(s) ==
    /\ s \in Snapshot
    /\ Cardinality(Held(s)) <= MaxPositions

\* Type invariant: in particular no snapshot has negative cash, or more positions than
\* MAX_POSITIONS, although the cash is divided and rounded purchase by purchase.
TypeOK ==
    /\ now \in 1..(2 * LastDay - 1) /\ ran \in BOOLEAN /\ torn \in BOOLEAN
    /\ Sound(file)
    /\ req \in [Request -> Local]
    /\ \A p \in Request : Sound(req[p].snap)
    /\ count \in 0..MaxRequests /\ overlaps \in 0..MaxOverlaps
    /\ blame \subseteq {"torn", "missed", "late", "undated"}

\* What the executed intents of a kind came to in money, and in lots of a stock.
Worth(s) == [i \in Ids(s) |-> s.intents[i].px * s.intents[i].lots]
Lots(s) == [i \in Ids(s) |-> s.intents[i].lots]
Trades(s, k) == {i \in Ids(s) : s.intents[i].kind = k /\ s.intents[i].status = "executed"}
TradesOf(s, k, c) == {i \in Trades(s, k) : s.intents[i].code = c}
Value(s, k) == SumFunctionOnSet(Worth(s), Trades(s, k))
Volume(s, k, c) == SumFunctionOnSet(Lots(s), TradesOf(s, k, c))

\* The cash and the positions are what the executed intents say, each counted once.
Balanced(s) ==
    /\ s.cash + Value(s, "buy") = Capital + Value(s, "sell")
    /\ \A c \in Codes : s.held[c] + Volume(s, "sell", c) = Volume(s, "buy", c)

\* The books balance in every snapshot that is on disk or about to be written,
\* whatever overlapped.
BooksBalance ==
    \A s \in {file} \cup {req[p].snap : p \in Request} : Balanced(s)

\* The file only loses what a request has settled, an intent or an abandonment,
\* when requests overlap or one dies while it writes.
Extends(s, t) ==
    /\ Len(s.intents) <= Len(t.intents)
    /\ \A i \in Ids(s) : s.intents[i].status # "pending" => t.intents[i] = s.intents[i]
    /\ s.abandoned \subseteq t.abandoned
LossNeedsOverlap == 
    [][overlaps' = 0 /\ "torn" \notin blame' => Extends(file, file')]_vars

\* No intent stays behind its execution date, unless the job of 09:35 was missed or
\* found no next trading date for an intent that had to wait, an intent was made
\* for a date already over, or a request was lost.
NoneOverdue ==
    overlaps = 0 /\ blame = {} => \A i \in Ids(file) : ~Overdue(file.intents[i])

\* A stock is sold on a later day than it was bought on, under the same proviso:
\* the shares of a day cannot be sold on that day.
Base(p) == IF Busy(p) THEN req[p].snap ELSE Loaded
Sale(p, c) == {i \in Ids(Base(p)) :
    /\ IsPending(Base(p).intents[i], "sell", c)
    /\ req'[p].snap.intents[i].status = "executed"}
SoldLater ==
    [][overlaps' = 0 /\ blame' = {} =>
         \A p \in Request, c \in Codes :
            req'[p].phase # "idle" =>
              \A i \in Sale(p, c) : Base(p).intents[i].exec > Base(p).since[c]]_vars

\* No snapshot holds two pending intents of one kind for one stock and one day of
\* request, whoever made them.
OnePerRequest ==
    \A s \in {file} \cup {req[p].snap : p \in Request} :
        \A i, j \in Ids(s) :
            /\ s.intents[i].status = "pending" /\ s.intents[j].status = "pending"
            /\ s.intents[i].kind = s.intents[j].kind
            /\ s.intents[i].code = s.intents[j].code
            /\ s.intents[i].asked = s.intents[j].asked
            => i = j

\* What the conflict rule for pending intents is meant to bring about, in the file:
\* an older pending sale of a stock keeps a newer one from being made.
OlderIntentWins ==
    overlaps = 0 => \A c \in Codes : \A i, j \in Ids(file) :
        IsPending(file.intents[i], "sell", c) /\ IsPending(file.intents[j], "sell", c) => i = j

=============================================================================
