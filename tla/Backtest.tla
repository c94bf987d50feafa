------------------------------- MODULE Backtest -------------------------------
(***************************************************************************)
(* run_backtest of the low-frequency engine                                *)
(* (lowfreq_engine_v16_advanced.py).  A day goes over the positions and    *)
(* sells those with an exit signal, then over the two queues of            *)
(* remembered entry signals, the reserved one first, and buys, and scans   *)
(* the market last, so that a signal is bought on a later day at the       *)
(* earliest.  After the last day what is left is sold.                     *)
(*                                                                         *)
(* An exit is confirmed by a state machine for the market and one for the  *)
(* sector, kept in the position (decision_engine/system_exit_*.py).        *)
(* Prices, cash and shares, the trade discipline, the execution gate and   *)
(* the chase filter are abstracted to whether an order goes through; the   *)
(* score of a signal stands for all that ranks it.                         *)
(***************************************************************************)
EXTENDS Naturals, FiniteSets

CONSTANTS
    Codes,        \* stocks
    Last,         \* index of the last trading day of the run, the first is 0
    Scores,       \* buy_score of a signal
    Elite,        \* those that _elite_execution_candidate_snapshot accepts
    MaxPositions, \* MAX_POSITIONS
    Memories,     \* BUY_SIGNAL_MEMORY_DAYS, a run has one of them
    Reserve,      \* EXECUTION_RESERVATION_MEMORY_DAYS
    Rebalance,    \* REBALANCE_DAYS
    MinDays,      \* TRACKING_MIN_DAYS
    Window, Hits, \* MARKET_ and SECTOR_EXIT_CONFIRM_WINDOW and _HITS
    Extra         \* LEADER_CONFIRM_EXTRA_HITS

Scope == {"market", "sector"}
Day == 0..Last

ASSUME BacktestAssumption ==
    /\ IsFiniteSet(Codes)
    /\ Last \in Nat /\ MaxPositions \in Nat \ {0}
    /\ Scores \subseteq Nat \ {0} /\ Elite \subseteq Scores
    /\ Memories \subseteq Nat /\ Reserve \in Nat \ {0}
    /\ Rebalance \in Nat \ {0} /\ MinDays \in Nat \ {0}
    /\ Window \in [Scope -> Nat \ {0}] /\ Hits \in [Scope -> Nat \ {0}]
    /\ Extra \in Nat

VARIABLES
    mode,   \* the configuration of the run: bounded or not, memory
    day,    \* index of current_date
    phase,  \* what the day is at
    todo,   \* the codes the present pass has still to visit
    pos,    \* positions
    queue,  \* pending_reserved_attempts and pending_buy_attempts
    track,  \* tracking_days of a code, up to MinDays; 0 when it is not tracked
    streak, \* history: scans in a row in which the code was a candidate
    trades  \* all_trades

vars == <<mode, day, phase, todo, pos, queue, track, streak, trades>>

Least(m, n) == IF m <= n THEN m ELSE n
Most(m, n) == IF m >= n THEN m ELSE n

\* A watch with no hits is none.
Watch == [start : Day, hits : Nat]
NoWatch == [s \in Scope |-> [start |-> 0, hits |-> 0]]
NoDays == [s \in Scope |-> {}]
\* bought is 0 when the code is not held: nothing is bought on day 0.  from is
\* the date of the signal.  History: seen, the days a scope was weak since the last
\* exit signal or grace; owed, the last check gave a signal that was not executed.
Position == [bought : Day, from : Day, leader : BOOLEAN, grace : BOOLEAN,
             watch : [Scope -> Watch], seen : [Scope -> SUBSET Day], owed : BOOLEAN]
NoPosition == [bought |-> 0, from |-> 0, leader |-> FALSE, grace |-> FALSE,
               watch |-> NoWatch, seen |-> NoDays, owed |-> FALSE]
\* score is 0 when the code is not in the queue.
Entry == [score : Scores \cup {0}, first : Day, expire : Nat]
NoEntry == [score |-> 0, first |-> 0, expire |-> 0]
Trade == [code : Codes, from : Day, bought : Day, sold : Day,
          why : Scope \cup {"stop", "flat"}]

Held == {c \in Codes : pos[c].bought > 0}
In(q) == {c \in Codes : queue[q][c].score > 0}
\* Mutant: one more than the slots.
Full_OneMore == mode.bounded /\ Cardinality(Held) > MaxPositions
Full == mode.bounded /\ Cardinality(Held) >= MaxPositions

Init ==
    /\ mode \in [bounded : BOOLEAN, memory : Memories]
    /\ day = 0 /\ phase = "sell" /\ todo = {}
    /\ pos = [c \in Codes |-> NoPosition]
    /\ queue = [q \in {"reserved", "pending"} |-> [c \in Codes |-> NoEntry]]
    /\ track = [c \in Codes |-> 0] /\ streak = [c \in Codes |-> 0]
    /\ trades = {}

-----------------------------------------------------------------------------
(* The exit state machine. *)

Need(s, leader) == Hits[s] + (IF leader THEN Extra ELSE 0)

\* Mutant: a watch is never given up.
Live_Never(s, w) == w
\* Mutant: the window is one day short.
Live_Early(s, w) == IF w.hits > 0 /\ day - w.start + 1 >= Window[s]
                    THEN [start |-> 0, hits |-> 0] ELSE w

\* A watch that is older than its window is given up, ...
Live(s, w) == IF w.hits > 0 /\ day - w.start >= Window[s]
              THEN [start |-> 0, hits |-> 0] ELSE w

\* ... a weak day starts one or is one more hit, ...
Observed(s, w, weak) ==
    IF ~weak THEN Live(s, w)
    ELSE IF Live(s, w).hits = 0 THEN [start |-> day, hits |-> 1]
    ELSE [Live(s, w) EXCEPT !.hits = @ + 1]

\* ... and the hit that is enough confirms; the first one never does.
Confirms(s, w, weak, leader) ==
    /\ weak /\ Live(s, w).hits > 0
    /\ Live(s, w).hits + 1 >= Need(s, leader)

\* The scope that decides, when weak tells which are weak: the market goes first.
Decides(s, c, weak, leader) ==
    LET Sure(r) == Confirms(r, pos[c].watch[r], weak[r], leader)
    IN  Sure(s) /\ (s = "sector" => ~Sure("market"))

\* A leader in the sense of _is_leader_hold_candidate remains one: its role is
\* fixed and the peak of its price only rises.
Leads(c) == {pos[c].leader, TRUE}
Cleared(t) == [t EXCEPT !.watch = NoWatch, !.seen = NoDays]

-----------------------------------------------------------------------------
(* The positions: check_sell_signal_v2, and the sale. *)

Checking(c) == phase = "sell" /\ c \in todo

Checked(c, t) ==
    /\ pos' = [pos EXCEPT ![c] = t]
    /\ todo' = todo \ {c}
    /\ UNCHANGED <<mode, day, phase, queue, track, streak>>

Closed(c, why) == [code |-> c, from |-> pos[c].from, bought |-> pos[c].bought,
                   sold |-> day, why |-> why]

\* No price today: no check.
Unpriced(c) ==
    /\ Checking(c)
    /\ Checked(c, pos[c])
    /\ UNCHANGED trades

Hold(c) ==
    /\ Checking(c)
    /\ \E weak \in [Scope -> BOOLEAN], leader \in Leads(c) :
         /\ \A s \in Scope : ~Confirms(s, pos[c].watch[s], weak[s], leader)
         /\ Checked(c, [pos[c] EXCEPT
              !.leader = leader, !.owed = FALSE,
              !.watch = [s \in Scope |-> Observed(s, pos[c].watch[s], weak[s])],
              !.seen = [s \in Scope |-> IF weak[s] THEN @[s] \cup {day} ELSE @[s]]])
    /\ UNCHANGED trades

\* Once in the life of a position a confirmed exit may be let pass.
Grace(c, s) ==
    /\ Checking(c) /\ ~pos[c].grace
    /\ \E weak \in [Scope -> BOOLEAN], leader \in Leads(c) :
         /\ Decides(s, c, weak, leader)
         /\ s = "market" => leader
         /\ Checked(c, [Cleared(pos[c]) EXCEPT
                          !.leader = leader, !.grace = TRUE, !.owed = FALSE])
    /\ UNCHANGED trades

\* An exit signal has cleared the watches when the sale is tried; at limit-down,
\* or when too little is traded, the position stays.
Exit(c, why, leader) ==
    \/ /\ Checked(c, NoPosition)
       /\ trades' = trades \cup {Closed(c, why)}
    \/ /\ Checked(c, [Cleared(pos[c]) EXCEPT !.leader = leader, !.owed = TRUE])
       /\ UNCHANGED trades

\* The thesis is invalid or the trend exhausted.
StopExit(c) ==
    /\ Checking(c)
    /\ \E leader \in Leads(c) : Exit(c, "stop", leader)

SystemExit(c, s) ==
    /\ Checking(c)
    /\ \E weak \in [Scope -> BOOLEAN], leader \in Leads(c) :
         /\ Decides(s, c, weak, leader)
         /\ Exit(c, s, leader)

-----------------------------------------------------------------------------
(* The queues. *)

\* One pass is over: the codes of the next queue, or on to the scan.
Turn ==
    /\ phase \in {"sell", "reserved", "pending"} /\ todo = {}
    /\ phase' = CASE phase = "sell" -> "reserved"
                  [] phase = "reserved" -> "pending"
                  [] phase = "pending" -> "scan"
    /\ todo' = IF phase = "pending" THEN {} ELSE In(phase')
    /\ UNCHANGED <<mode, day, pos, queue, track, streak, trades>>

\* By score and date of the signal, the highest first.
Better(e, f) == e.score > f.score \/ (e.score = f.score /\ e.first > f.first)
Trying(c) == /\ phase \in {"reserved", "pending"} /\ c \in todo
             /\ \A e \in todo : ~Better(queue[phase][e], queue[phase][c])
\* Mutant: one day too many.
Expired_Late == {c \in Codes : day > queue[phase][c].expire + 1}
Expired == {c \in Codes : day > queue[phase][c].expire}

Tried(c) ==
    /\ todo' = todo \ {c}
    /\ UNCHANGED <<mode, day, phase, track, streak, trades>>

Drop(c) ==
    /\ Trying(c) /\ c \in Held \cup Expired
    /\ queue' = [queue EXCEPT ![phase][c] = NoEntry]
    /\ Tried(c) /\ UNCHANGED pos

\* The discipline, the gate, a missing bar, the chase filter, limit-up, too
\* little cash or turnover; or a full book.
Stay(c) ==
    /\ Trying(c) /\ c \notin Held \cup Expired
    /\ Tried(c) /\ UNCHANGED <<pos, queue>>

\* Mutant: the reserved signal also stays pending.
ToReserve_Copy(c) ==
    /\ Trying(c) /\ c \notin Held \cup Expired
    /\ phase = "pending" /\ Full /\ queue.pending[c].score \in Elite
    /\ queue' = [queue EXCEPT
         !.reserved[c] = [queue.pending[c] EXCEPT
                            !.expire = Most(@, Least(Last, day + Reserve))]]
    /\ Tried(c) /\ UNCHANGED pos

\* A full book, and a signal worth waiting for it.
ToReserve(c) ==
    /\ Trying(c) /\ c \notin Held \cup Expired
    /\ phase = "pending" /\ Full /\ queue.pending[c].score \in Elite
    /\ queue' = [queue EXCEPT
         !.pending[c] = NoEntry,
         !.reserved[c] = [queue.pending[c] EXCEPT
                            !.expire = Most(@, Least(Last, day + Reserve))]]
    /\ Tried(c) /\ UNCHANGED pos

\* Mutant: what was bought stays in the queue.
Buy_Keeps(c) ==
    /\ Trying(c) /\ c \notin Held \cup Expired /\ ~Full
    /\ pos' = [pos EXCEPT ![c] = [NoPosition EXCEPT !.bought = day,
                                                    !.from = queue[phase][c].first]]
    /\ UNCHANGED queue
    /\ Tried(c)

Buy(c) ==
    /\ Trying(c) /\ c \notin Held \cup Expired /\ ~Full
    /\ pos' = [pos EXCEPT ![c] = [NoPosition EXCEPT !.bought = day,
                                                    !.from = queue[phase][c].first]]
    /\ queue' = [queue EXCEPT ![phase][c] = NoEntry]
    /\ Tried(c)

-----------------------------------------------------------------------------
(* The scan at the end of the day, and the end of the run. *)

EndDay ==
    /\ phase' = IF day = Last THEN "flat" ELSE "sell"
    /\ day' = IF day = Last THEN day ELSE day + 1
    /\ todo' = IF day = Last THEN {} ELSE Held
    /\ UNCHANGED <<mode, pos, trades>>

\* No scan today, or it raises before it has changed anything; one that raises
\* halfway through is left out.
Quiet ==
    /\ phase = "scan"
    /\ EndDay
    /\ UNCHANGED <<queue, track, streak>>

ScanDay == mode.memory > 0 \/ (day % Rebalance = 0 /\ ~Full)

\* Mutant: a stock that is no candidate today keeps its days.
Tracked_Kept(c, cand) == IF c \in cand THEN (IF c \in Held THEN 0 ELSE Least(MinDays, track[c] + 1))
                         ELSE track[c]

\* _record_tracking_candidate_events
Tracked(c, cand) == IF c \in cand THEN (IF c \in Held THEN 0 ELSE Least(MinDays, track[c] + 1))
                    ELSE IF c \in Held THEN track[c] ELSE 0
Promoted(cand, score) == {c \in cand \ Held : score[c] > 0 /\ Tracked(c, cand) >= MinDays}

Signal(c, score) == [score |-> score[c], first |-> day,
                     expire |-> Least(Last, day + mode.memory)]
Kept(old, new) == old.score > 0 /\ old.expire >= new.expire /\ old.score >= new.score

\* A signal renews what is in the reserved queue, or else goes to the pending one.
Renewed(c, new) ==
    IF c \in In("reserved") /\ ~Kept(queue.reserved[c], new)
    THEN [new EXCEPT !.expire = Most(@, queue.reserved[c].expire)]
    ELSE queue.reserved[c]
Remembered(c, new) ==
    IF c \in In("reserved") \/ Kept(queue.pending[c], new) THEN queue.pending[c] ELSE new

\* The candidates of today, each with its score, which is 0 when it is not ready.
Scan ==
    /\ phase = "scan" /\ ScanDay
    /\ \E cand \in SUBSET Codes : \E score \in [cand -> Scores \cup {0}] :
         LET new == Promoted(cand, score) IN
         /\ queue' = [queue EXCEPT
              !.reserved = [c \in Codes |-> IF c \in new THEN Renewed(c, Signal(c, score))
                                            ELSE @[c]],
              !.pending = [c \in Codes |-> IF c \in new THEN Remembered(c, Signal(c, score))
                                           ELSE @[c]]]
         /\ track' = [c \in Codes |-> Tracked(c, cand)]
         /\ streak' = [c \in Codes |-> IF c \in cand THEN Least(MinDays, streak[c] + 1) ELSE 0]
    /\ EndDay

\* What is left is sold at the last close, and no limit keeps it from that; but
\* a position that has no bar on that day fails the run, after the others are closed.
EndFlat ==
    /\ phase = "flat"
    /\ \E missing \in SUBSET {c \in Held : pos[c].bought < day} :
         /\ trades' = trades \cup {Closed(c, "flat") : c \in Held \ missing}
         /\ phase' = IF missing = {} THEN "done" ELSE "failed"
         /\ pos' = IF missing = {} THEN [c \in Codes |-> NoPosition] ELSE pos
    /\ UNCHANGED <<mode, day, todo, queue, track, streak>>

Finished == phase \in {"done", "failed"} /\ UNCHANGED vars

Visit(c) ==
    \/ Unpriced(c) \/ Hold(c) \/ StopExit(c)
    \/ \E s \in Scope : Grace(c, s) \/ SystemExit(c, s)
    \/ Drop(c) \/ Stay(c) \/ ToReserve(c) \/ Buy(c)

Next == (\E c \in Codes : Visit(c)) \/ Turn \/ Quiet \/ Scan \/ EndFlat \/ Finished

Spec == Init /\ [][Next]_vars

-----------------------------------------------------------------------------
(* Properties *)

\* Type invariant of the book, the queues and the observation.
TypeOK ==
    /\ mode \in [bounded : BOOLEAN, memory : Memories]
    /\ day \in Day
    /\ phase \in {"sell", "reserved", "pending", "scan", "flat", "done", "failed"}
    /\ todo \in SUBSET Codes
    /\ pos \in [Codes -> Position]
    /\ queue \in [{"reserved", "pending"} -> [Codes -> Entry]]
    /\ track \in [Codes -> 0..MinDays] /\ streak \in [Codes -> 0..MinDays]
    /\ trades \in SUBSET Trade

\* A stock is in one place: held, reserved or pending.  No purchase adds to a
\* position, and no stale entry is left over when a position is closed.
OnePlace ==
    /\ Held \cap (In("reserved") \cup In("pending")) = {}
    /\ In("reserved") \cap In("pending") = {}

\* The book of a bounded run never exceeds its slots, which the reserved
\* queue and the pending one share within a day.
BookFits == mode.bounded => Cardinality(Held) <= MaxPositions

\* Whatever was bought, and is held or was sold, was bought on a day after its
\* signal (the close of which it had to know), and no later than the memory of
\* signals allows, and one reservation where there is a full book; and it was not sold on that day,
\* but for the end of the run.  The design of the exit in ExitRetried wants other
\* limits, of the same section: a purchase on the day of the signal unless limit-up
\* prevents it (lines 94-95), and three trading days for one that waits (line 87).
\* The code never had them: signals are queued after the day's purchases and expire
\* with their memory.
BoughtInTime ==
    LET Longest == mode.memory + (IF mode.bounded THEN Reserve ELSE 0)
        InTime(from, bought) == from < bought /\ bought <= from + Longest
    IN  /\ \A c \in Held : InTime(pos[c].from, pos[c].bought)
        /\ \A t \in trades : /\ InTime(t.from, t.bought)
                             /\ t.bought <= t.sold
                             /\ t.why # "flat" => t.bought < t.sold

\* A stock is bought again only on a signal that is not older than its sale: no
\* signal survives the round trip it led to, or was made during one.
RoundTripsApart ==
    /\ \A t, u \in trades : t.code = u.code /\ t # u => t.sold <= u.from \/ u.sold <= t.from
    /\ phase # "failed" => \A t \in trades : t.code \in Held => t.sold <= pos[t.code].from

\* Without a memory the engine scans on the rebalance days, and buys nothing
\* ever: the signals expire on the day they are made, after its queue pass.
NoMemoryNoTrade == mode.memory = 0 => Held = {} /\ trades = {}

\* Lasting weakness gets through: although a watch that expires loses its hits,
\* no scope is weak on 2n - 2 days in a row, where n hits confirm and the window has
\* room for them, without an exit signal or the one grace.
WeaknessExits ==
    \A c \in Held, s \in Scope :
        LET n == Need(s, pos[c].leader) IN
        n >= 2 /\ Window[s] >= n =>
            ~\E d \in Day : \A k \in 0..(2 * n - 3) : d + k \in pos[c].seen[s]

\* Noise does not sell: a position that is sold on a confirmed exit was weak in
\* that scope on as many days of the window that ends today as it needs, and none of
\* them counted for an earlier signal or for the grace.
ConfirmedByHits ==
    [][\A t \in trades' \ trades : t.why \in Scope =>
         Cardinality({d \in pos[t.code].seen[t.why] \cup {day} : d > day - Window[t.why]})
             >= Need(t.why, pos[t.code].leader)]_vars

\* A signal enters the queues only for a stock that was a candidate in MinDays scans
\* in a row, or that has been held before: a holding that is no candidate keeps the
\* days it was observed, and they count when it has been sold.
ObservedFirst ==
    [][phase = "scan" =>
         \A c \in Codes, q \in {"reserved", "pending"} :
             queue'[q][c] # queue[q][c] =>
                 streak'[c] >= MinDays \/ \E t \in trades : t.code = c]_vars

\* docs/archive/specs/2026-05-30-lowfreq-dashboard-and-execution-constraints-design.md:
\* a sale that limit-down prevents is tried again on every later day until it
\* succeeds.  A check that follows an unexecuted signal sells or tries to.
ExitRetried ==
    [][\A c \in todo : phase = "sell" /\ pos[c].owed /\ c \notin todo' =>
         c \notin Held' \/ pos'[c].owed]_vars

-----------------------------------------------------------------------------
(* What the run promises about its trades, in the terms of TradeBook. *)

\* A position whose round trip is on record is open no more, although a run that
\* fails on the last day keeps it.
Open == {c \in Held : \A t \in trades : t.code = c => t.from # pos[c].from}
Waits(c, q) == [at |-> "waiting", from |-> queue[q][c].first, bought |-> 0]
Life == [c \in Codes |->
           IF c \in Open THEN [at |-> "held", from |-> pos[c].from, bought |-> pos[c].bought]
           ELSE IF c \in In("reserved") THEN Waits(c, "reserved")
           ELSE IF c \in In("pending") THEN Waits(c, "pending")
           ELSE [at |-> "out", from |-> 0, bought |-> 0]]
Rules == [books |-> {b \in SUBSET Codes : mode.bounded => Cardinality(b) <= MaxPositions},
          longest |-> IF mode.memory = 0 THEN 0
                      ELSE mode.memory + (IF mode.bounded THEN Reserve ELSE 0)]
Trips == {[code |-> t.code, from |-> t.from, bought |-> t.bought, sold |-> t.sold] : t \in trades}

Book == INSTANCE TradeBook WITH
            Stocks <- Codes, End <- Last, rules <- Rules, today <- day,
            over <- phase \in {"flat", "done", "failed"}, life <- Life, past <- Trips

\* The passes over positions and queues, the exits, the reservations and the signals
\* of a run are a book in which a stock goes from a signal to a purchase on a later
\* day, while there is room, to a sale on a day after that.
ImplementsTradeBook == Book!BookSpec

=============================================================================
