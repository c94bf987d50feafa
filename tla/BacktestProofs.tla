---------------------------- MODULE BacktestProofs ----------------------------
(***************************************************************************)
(* Proofs about Backtest: its type invariant, that a stock is held or in   *)
(* one queue, that a bounded book keeps to its slots, that signals are     *)
(* bought in time and round trips of a stock are apart, that a run without *)
(* memory trades nothing, that a system exit has its hits, and that the    *)
(* run implements TradeBook; for any stocks, days, scores and settings.    *)
(***************************************************************************)
EXTENDS Backtest, TLAPS, FiniteSetTheorems

USE BacktestAssumption DEF BacktestAssumption, Day

Queues == {"reserved", "pending"}
QueuePass == phase \in {"reserved", "pending"}

\* What is in the queues is of an earlier day until the scan, has its days left
\* counted from its signal, and was not made before the stock was last sold.
Waiting ==
    \A q \in Queues, c \in Codes : queue[q][c].score > 0 =>
        LET e == queue[q][c] IN
        /\ e.first <= day
        /\ (phase = "sell" \/ QueuePass) => e.first < day
        /\ e.expire <= e.first + mode.memory + (IF q = "reserved" THEN Reserve ELSE 0)
        /\ q = "reserved" => mode.bounded /\ mode.memory > 0
        /\ \A t \in trades : t.code = c => t.sold <= e.first

\* A pass has what it is about left to visit; nothing is of a later day.
Passes ==
    /\ phase = "sell" => todo \subseteq Held
    /\ QueuePass => todo \subseteq In(phase)
    /\ \A c \in Held : pos[c].bought <= day /\ (phase = "sell" => pos[c].bought < day)
    /\ \A t \in trades : t.sold <= day

Sound == OnePlace /\ BookFits /\ BoughtInTime /\ RoundTripsApart /\ NoMemoryNoTrade
Inv == TypeOK /\ Sound /\ Waiting /\ Passes

-----------------------------------------------------------------------------
(* The initial states, and steps that visit a position. *)

LEMMA NoneTypes ==
    /\ NoPosition \in Position /\ NoEntry \in Entry
    /\ NoWatch \in [Scope -> Watch] /\ NoDays \in [Scope -> SUBSET Day]
  BY DEF NoPosition, Position, NoEntry, Entry, NoWatch, NoDays, Watch, Scope

LEMMA InitInv == Init => Inv
<1> SUFFICES ASSUME Init PROVE Inv
  OBVIOUS
<1>1. TypeOK
  BY NoneTypes DEF Init, TypeOK
<1>2. Held = {} /\ In("reserved") = {} /\ In("pending") = {}
  BY DEF Init, Held, In, NoPosition, NoEntry
<1>3. Sound
  <2>1. Cardinality(Held) = 0
    BY <1>2, FS_EmptySet
  <2> QED BY <1>2, <2>1 DEF Init, Sound, OnePlace, BookFits, BoughtInTime,
                            RoundTripsApart, NoMemoryNoTrade
<1>4. Waiting /\ Passes
  BY <1>2 DEF Init, Waiting, Passes, Queues, QueuePass, NoEntry
<1> QED BY <1>1, <1>3, <1>4 DEF Inv

\* The book is finite, and a part of it is not larger.
LEMMA HeldFinite ==
    /\ IsFiniteSet(Held) /\ Cardinality(Held) \in Nat
    /\ \A S \in SUBSET Held : IsFiniteSet(S) /\ Cardinality(S) <= Cardinality(Held)
<1>1. Held \in SUBSET Codes
  BY DEF Held
<1>2. IsFiniteSet(Held)
  BY <1>1, FS_Subset
<1> QED BY <1>2, FS_Subset, FS_CardinalityType

\* The numbers of the entries.
LEMMA QueueTypes ==
    ASSUME TypeOK, NEW q \in Queues, NEW c \in Codes
    PROVE  /\ queue[q][c] \in Entry
           /\ queue[q][c].score \in Nat /\ queue[q][c].first \in Day
           /\ queue[q][c].first \in Nat /\ queue[q][c].expire \in Nat
           /\ mode.memory \in Nat /\ mode.bounded \in BOOLEAN
           /\ day \in Nat /\ day <= Last
<1>1. queue[q][c] \in Entry
  BY DEF TypeOK, Queues
<1>2. \A e \in Entry : e.score \in Scores \cup {0} /\ e.first \in 0..Last /\ e.expire \in Nat
  BY DEF Entry
<1>3. mode \in [bounded : BOOLEAN, memory : Memories] /\ day \in 0..Last
  BY DEF TypeOK
<1>4. mode.memory \in Memories /\ mode.bounded \in BOOLEAN
  BY <1>3
<1>5. Scores \cup {0} \subseteq Nat /\ Memories \subseteq Nat
  OBVIOUS
<1>6. queue[q][c].score \in Nat
  BY <1>1, <1>2, <1>5
<1>7. queue[q][c].first \in 0..Last /\ queue[q][c].expire \in Nat
  BY <1>1, <1>2
<1>8. queue[q][c].first \in Nat
  BY <1>7
<1>9. mode.memory \in Nat
  BY <1>4, <1>5
<1>10. day \in Nat /\ day <= Last
  BY <1>3
<1> QED BY <1>1, <1>4, <1>6, <1>7, <1>8, <1>9, <1>10

\* A visit that leaves the position in place, whatever it notes in it.
LEMMA CheckedKeeps ==
    ASSUME Inv, NEW c \in Codes, Checking(c), NEW t \in Position,
           t.bought = pos[c].bought, t.from = pos[c].from,
           Checked(c, t), UNCHANGED trades
    PROVE  Inv'
<1> USE DEF Inv
<1>1. TypeOK'
  BY DEF TypeOK, Checked
<1>2. pos \in [Codes -> Position] /\ pos' = [pos EXCEPT ![c] = t]
  BY DEF TypeOK, Checked
<1>3. \A d \in Codes : pos'[d].bought = pos[d].bought /\ pos'[d].from = pos[d].from
  BY <1>2
<1>4. Held' = Held
  BY <1>3 DEF Held
<1>5. In("reserved")' = In("reserved") /\ In("pending")' = In("pending")
  BY DEF In, Checked
<1>6. Sound'
  BY <1>3, <1>4, <1>5 DEF Checked, Sound, OnePlace, BookFits, BoughtInTime,
                          RoundTripsApart, NoMemoryNoTrade, Held
<1>7. Waiting'
  BY DEF Checked, Waiting, QueuePass
<1>8. Passes'
  BY <1>3, <1>4 DEF Checked, Checking, Passes, QueuePass, Held
<1> QED BY <1>1, <1>6, <1>7, <1>8

\* A sale during the day.
LEMMA SaleKeeps ==
    ASSUME Inv, NEW c \in Codes, Checking(c), NEW why \in Scope \cup {"stop"},
           Checked(c, NoPosition), trades' = trades \cup {Closed(c, why)}
    PROVE  Inv'
<1> USE DEF Inv
<1> DEFINE t == Closed(c, why)
<1>1. c \in Held /\ pos[c].bought < day /\ pos \in [Codes -> Position] /\ day \in Day
  BY DEF Checking, Passes, TypeOK
<1>2. t \in Trade
  BY <1>1 DEF Closed, Trade, Position
<1>3. TypeOK'
  BY <1>2, NoneTypes DEF TypeOK, Checked
<1>4. /\ pos' = [pos EXCEPT ![c] = NoPosition]
      /\ Held' = Held \ {c}
  BY <1>1 DEF Held, Checked, NoPosition
<1>5. In("reserved")' = In("reserved") /\ In("pending")' = In("pending")
  BY DEF In, Checked
<1>6. OnePlace'
  BY <1>4, <1>5 DEF Sound, OnePlace
<1>7. BookFits'
  <2>1. Cardinality(Held') <= Cardinality(Held) /\ Cardinality(Held') \in Nat
    BY <1>4, HeldFinite, FS_CardinalityType
  <2> QED BY <2>1, HeldFinite DEF Sound, BookFits, Checked
<1>8. BoughtInTime'
  <2>1. \A d \in Held' : d \in Held /\ pos'[d] = pos[d]
    BY <1>1, <1>4 DEF Held
  <2>2. /\ t.from = pos[c].from /\ t.bought = pos[c].bought /\ t.sold = day
        /\ t.bought \in Nat
    BY <1>1 DEF Closed, Position
  <2>3. \A u \in trades' : u \in trades \/ u = t
    OBVIOUS
  <2>4. mode' = mode
    BY DEF Checked
  <2> HIDE DEF t
  <2> QED BY <1>1, <2>1, <2>2, <2>3, <2>4 DEF Sound, BoughtInTime
<1>9. RoundTripsApart'
  <2>1. \A u \in trades : u.code = c => u.sold <= t.from
    BY <1>1 DEF Sound, RoundTripsApart, Checking, Closed
  <2>2. \A u, v \in trades' : u.code = v.code /\ u # v => u.sold <= v.from \/ v.sold <= u.from
    <3>1. t.code = c
      BY DEF Closed
    <3> QED BY <2>1, <3>1 DEF Sound, RoundTripsApart
  <2>3. \A u \in trades' : u.code \in Held' => u.sold <= pos'[u.code].from
    <3>1. \A u \in trades' : u.code \in Held' => u \in trades /\ u.code \in Held
      BY <1>4 DEF Closed
    <3>2. \A d \in Held' : pos'[d] = pos[d]
      BY <1>1, <1>4 DEF Held
    <3> QED BY <3>1, <3>2 DEF Sound, RoundTripsApart, Checking
  <2> QED BY <2>2, <2>3 DEF RoundTripsApart
<1>10. NoMemoryNoTrade'
  BY <1>1, <1>4 DEF Sound, NoMemoryNoTrade, Checked
<1>11. Waiting'
  <2>0. \A q \in Queues : queue[q][c].score \in Nat
    BY QueueTypes
  <2>1. \A q \in Queues : queue[q][c].score = 0
    BY <1>1, <2>0 DEF Sound, OnePlace, In, Queues
  <2> QED BY <2>1 DEF Waiting, Checked, QueuePass, Queues, Closed
<1>12. Passes'
  <2>1. todo' \subseteq Held' /\ phase' = "sell" /\ day' = day
    BY <1>4 DEF Checked, Checking, Passes
  <2>2. \A d \in Held' : d \in Held /\ pos'[d] = pos[d]
    BY <1>1, <1>4 DEF Held
  <2>3. \A u \in trades' : u.sold <= day
    BY <1>1 DEF Passes, Closed
  <2> QED BY <2>1, <2>2, <2>3 DEF Passes, QueuePass, Checking
<1> QED BY <1>3, <1>6, <1>7, <1>8, <1>9, <1>10, <1>11, <1>12 DEF Sound

\* The check of a position leaves it in place or sells it.
Noted(c, t) == /\ t \in Position /\ t.bought = pos[c].bought /\ t.from = pos[c].from
               /\ Checked(c, t) /\ UNCHANGED trades
Sold(c, why) == Checked(c, NoPosition) /\ trades' = trades \cup {Closed(c, why)}

LEMMA SellShape ==
    ASSUME Inv, NEW c \in Codes, NEW s \in Scope,
           Unpriced(c) \/ Hold(c) \/ StopExit(c) \/ Grace(c, s) \/ SystemExit(c, s)
    PROVE  /\ Checking(c)
           /\ \/ \E t \in Position : Noted(c, t)
              \/ \E why \in Scope \cup {"stop"} : Sold(c, why)
<1>1. pos[c] \in Position /\ day \in Day
  BY DEF Inv, TypeOK
<1>2. \A leader \in Leads(c) : leader \in BOOLEAN
  BY <1>1 DEF Leads, Position
<1>3. Cleared(pos[c]) \in Position
  BY <1>1, NoneTypes DEF Cleared, Position
<1>4. \A leader \in BOOLEAN, why \in Scope \cup {"stop"} :
          Exit(c, why, leader) => \/ \E t \in Position : Noted(c, t)
                                  \/ \E r \in Scope \cup {"stop"} : Sold(c, r)
  <2> TAKE leader \in BOOLEAN, why \in Scope \cup {"stop"}
  <2> HAVE Exit(c, why, leader)
  <2>1. CASE Checked(c, NoPosition) /\ trades' = trades \cup {Closed(c, why)}
    BY <2>1 DEF Sold
  <2>2. CASE /\ Checked(c, [Cleared(pos[c]) EXCEPT !.leader = leader, !.owed = TRUE])
             /\ UNCHANGED trades
    <3> DEFINE t == [Cleared(pos[c]) EXCEPT !.leader = leader, !.owed = TRUE]
    <3>1. t \in Position /\ t.bought = pos[c].bought /\ t.from = pos[c].from
      BY <1>1, <1>3 DEF Cleared, Position
    <3> QED BY <2>2, <3>1 DEF Noted
  <2> QED BY <2>1, <2>2 DEF Exit
<1>5. CASE Unpriced(c)
  BY <1>1, <1>5 DEF Unpriced, Noted
<1>6. CASE Hold(c)
  <2>1. PICK weak \in [Scope -> BOOLEAN], leader \in Leads(c) :
          Checked(c, [pos[c] EXCEPT
              !.leader = leader, !.owed = FALSE,
              !.watch = [r \in Scope |-> Observed(r, pos[c].watch[r], weak[r])],
              !.seen = [r \in Scope |-> IF weak[r] THEN @[r] \cup {day} ELSE @[r]]])
    BY <1>6 DEF Hold
  <2> DEFINE t == [pos[c] EXCEPT
              !.leader = leader, !.owed = FALSE,
              !.watch = [r \in Scope |-> Observed(r, pos[c].watch[r], weak[r])],
              !.seen = [r \in Scope |-> IF weak[r] THEN @[r] \cup {day} ELSE @[r]]]
  <2>2. \A r \in Scope : pos[c].watch[r] \in Watch /\ pos[c].seen[r] \in SUBSET Day
    BY <1>1 DEF Position
  <2>3. \A r \in Scope : Observed(r, pos[c].watch[r], weak[r]) \in Watch
    BY <1>1, <2>2 DEF Observed, Live, Watch
  <2>4. [r \in Scope |-> IF weak[r] THEN pos[c].seen[r] \cup {day} ELSE pos[c].seen[r]]
            \in [Scope -> SUBSET Day]
    BY <1>1, <2>2
  <2>5. [r \in Scope |-> Observed(r, pos[c].watch[r], weak[r])] \in [Scope -> Watch]
    BY <2>3
  <2>6. t \in Position /\ t.bought = pos[c].bought /\ t.from = pos[c].from
    BY <1>1, <1>2, <2>4, <2>5 DEF Position
  <2> QED BY <1>6, <2>1, <2>6 DEF Hold, Noted
<1>7. CASE StopExit(c)
  BY <1>2, <1>4, <1>7 DEF StopExit
<1>8. CASE Grace(c, s)
  <2>1. PICK leader \in Leads(c) :
          Checked(c, [Cleared(pos[c]) EXCEPT
                          !.leader = leader, !.grace = TRUE, !.owed = FALSE])
    BY <1>8 DEF Grace
  <2> DEFINE t == [Cleared(pos[c]) EXCEPT
                          !.leader = leader, !.grace = TRUE, !.owed = FALSE]
  <2>2. t \in Position /\ t.bought = pos[c].bought /\ t.from = pos[c].from
    BY <1>1, <1>2, <1>3 DEF Cleared, Position
  <2> QED BY <1>8, <2>1, <2>2 DEF Grace, Noted
<1>9. CASE SystemExit(c, s)
  BY <1>2, <1>4, <1>9 DEF SystemExit
<1> QED BY <1>5, <1>6, <1>7, <1>8, <1>9

LEMMA SellPass ==
    ASSUME Inv, NEW c \in Codes, NEW s \in Scope,
           Unpriced(c) \/ Hold(c) \/ StopExit(c) \/ Grace(c, s) \/ SystemExit(c, s)
    PROVE  Inv'
  BY SellShape, CheckedKeeps, SaleKeeps DEF Noted, Sold

-----------------------------------------------------------------------------
(* The queues. *)

LEMMA TurnKeeps == Inv /\ Turn => Inv'
<1> SUFFICES ASSUME Inv, Turn PROVE Inv'
  OBVIOUS
<1> USE DEF Inv
<1>1. /\ phase = "sell" => phase' = "reserved" /\ todo' = In("reserved")'
      /\ phase = "reserved" => phase' = "pending" /\ todo' = In("pending")'
      /\ phase = "pending" => phase' = "scan" /\ todo' = {}
      /\ phase \in {"sell", "reserved", "pending"}
  BY DEF Turn, In
<1>2. Held' = Held /\ In("reserved")' = In("reserved") /\ In("pending")' = In("pending")
  BY DEF Turn, Held, In
<1>3. TypeOK'
  BY <1>1, <1>2 DEF Turn, TypeOK, In
<1>4. Sound'
  BY <1>1, <1>2 DEF Turn, Sound, OnePlace, BookFits, BoughtInTime, RoundTripsApart,
                    NoMemoryNoTrade
<1>5. Waiting'
  BY <1>1 DEF Turn, Waiting, QueuePass
<1>6. Passes'
  BY <1>1, <1>2 DEF Turn, Passes, QueuePass
<1> QED BY <1>3, <1>4, <1>5, <1>6

\* A visit to a queue that takes nothing in: q is what becomes of the queues.
LEMMA LeavesKeep ==
    ASSUME Inv, NEW c \in Codes, Trying(c), Tried(c), UNCHANGED pos,
           \/ UNCHANGED queue
           \/ queue' = [queue EXCEPT ![phase][c] = NoEntry]
    PROVE  Inv'
<1> USE DEF Inv
<1>1. QueuePass /\ phase' = phase /\ day' = day /\ mode' = mode /\ trades' = trades
  BY DEF Trying, Tried, QueuePass
<1>2. queue \in [Queues -> [Codes -> Entry]] /\ phase \in Queues
  BY <1>1 DEF TypeOK, Queues, QueuePass
<1>3. \A q \in Queues, d \in Codes : queue'[q][d] = queue[q][d] \/ queue'[q][d].score = 0
  BY <1>2 DEF NoEntry
<1>4. \A d \in Codes : d # c => queue'[phase][d] = queue[phase][d]
  BY <1>2
<1>5. TypeOK'
  BY <1>2, NoneTypes DEF TypeOK, Tried, Queues
<1>6. Held' = Held /\ \A q \in Queues : In(q)' \subseteq In(q)
  BY <1>3 DEF Held, In
<1>7. Sound'
  BY <1>1, <1>6 DEF Sound, OnePlace, BookFits, BoughtInTime, RoundTripsApart,
                    NoMemoryNoTrade, Queues
<1>8. Waiting'
  BY <1>1, <1>3 DEF Waiting, QueuePass
<1>9. Passes'
  <2>1. todo' \subseteq In(phase)'
    BY <1>1, <1>4 DEF Tried, Passes, In
  <2> QED BY <1>1, <1>6, <2>1 DEF Passes, QueuePass
<1> QED BY <1>5, <1>7, <1>8, <1>9

LEMMA ReserveShape ==
    ASSUME Inv, NEW c \in Codes, ToReserve(c)
    PROVE  /\ phase = "pending" /\ phase' = phase /\ day' = day /\ mode' = mode
           /\ trades' = trades /\ pos' = pos
           /\ c \in todo /\ todo' = todo \ {c} /\ mode.bounded /\ c \notin Held
           /\ mode.memory > 0 /\ queue["pending"][c].first < day
           /\ queue["pending"][c].score > 0
           /\ queue' \in [Queues -> [Codes -> Entry]]
           /\ \A q \in Queues, d \in Codes : d # c => queue'[q][d] = queue[q][d]
           /\ queue'["pending"][c] = NoEntry
           /\ queue'["reserved"][c].score = queue["pending"][c].score
           /\ queue'["reserved"][c].first = queue["pending"][c].first
           /\ queue'["reserved"][c].expire
                   <= queue["pending"][c].first + mode.memory + Reserve
<1> USE DEF Inv
<1> DEFINE e == queue["pending"][c]
           f == [e EXCEPT !.expire = Most(@, Least(Last, day + Reserve))]
<1>1. /\ phase = "pending" /\ phase' = phase /\ day' = day /\ mode' = mode
      /\ trades' = trades /\ pos' = pos
  BY DEF ToReserve, Tried
<1>2. c \in todo /\ todo' = todo \ {c} /\ mode.bounded /\ day <= e.expire /\ c \notin Held
  <2>1. e.expire \in Nat /\ day \in Nat
    BY QueueTypes DEF Queues
  <2> QED BY <2>1, <1>1 DEF ToReserve, Trying, Tried, Full, Expired
<1>3. queue \in [Queues -> [Codes -> Entry]] /\ e \in Entry
  BY DEF TypeOK, Queues
<1>4. f \in Entry /\ f.score = e.score /\ f.first = e.first
      /\ f.expire <= e.first + mode.memory + Reserve
      /\ mode.memory > 0 /\ e.first < day /\ e.score > 0
  <2>1. e.score > 0
    BY <1>1, <1>2 DEF Passes, QueuePass, In
  <2>2. /\ e.first < day /\ e.expire <= e.first + mode.memory
        /\ e.first \in Nat /\ e.expire \in Nat /\ mode.memory \in Nat /\ day \in Nat
    BY <1>1, <2>1, QueueTypes DEF Waiting, Queues, QueuePass
  <2>3. Most(e.expire, Least(Last, day + Reserve)) \in Nat
        /\ Most(e.expire, Least(Last, day + Reserve)) <= e.first + mode.memory + Reserve
    BY <1>2, <2>2 DEF Most, Least
  <2>4. f = [score |-> e.score, first |-> e.first,
             expire |-> Most(e.expire, Least(Last, day + Reserve))]
    BY <1>3 DEF Entry
  <2>5. f \in Entry
    BY <1>3, <2>3, <2>4 DEF Entry
  <2> QED BY <1>2, <2>1, <2>2, <2>3, <2>4, <2>5
<1>5. /\ queue'["pending"][c] = NoEntry /\ queue'["reserved"][c] = f
      /\ \A q \in Queues, d \in Codes : d # c => queue'[q][d] = queue[q][d]
      /\ queue' \in [Queues -> [Codes -> Entry]]
  <2>1. queue' = [queue EXCEPT !["pending"][c] = NoEntry, !["reserved"][c] = f]
    BY DEF ToReserve
  <2> HIDE DEF f
  <2> QED BY <1>3, <1>4, <2>1, NoneTypes DEF Queues
<1> HIDE DEF f
<1> QED BY <1>1, <1>2, <1>4, <1>5

LEMMA ReserveKeeps ==
    ASSUME Inv, NEW c \in Codes, ToReserve(c)
    PROVE  Inv'
<1> USE DEF Inv
<1> DEFINE e == queue["pending"][c]
           f == queue'["reserved"][c]
<1>1. /\ phase = "pending" /\ phase' = phase /\ day' = day /\ mode' = mode
      /\ trades' = trades /\ pos' = pos
  BY ReserveShape
<1>2. c \in todo /\ todo' = todo \ {c} /\ mode.bounded /\ c \notin Held
  BY ReserveShape
<1>4. f.score = e.score /\ f.first = e.first
      /\ f.expire <= e.first + mode.memory + Reserve
      /\ mode.memory > 0 /\ e.first < day /\ e.score > 0
  BY ReserveShape
<1>5. /\ queue'["pending"][c] = NoEntry
      /\ \A q \in Queues, d \in Codes : d # c => queue'[q][d] = queue[q][d]
      /\ queue' \in [Queues -> [Codes -> Entry]]
  BY ReserveShape
<1>6. TypeOK'
  BY <1>1, <1>2, <1>5 DEF TypeOK, Queues, ToReserve, Tried
<1>7. Held' = Held /\ In("pending")' = In("pending") \ {c}
      /\ In("reserved")' = In("reserved") \cup {c}
  BY <1>1, <1>4, <1>5 DEF Held, In, NoEntry, Queues
<1>8. Sound'
  BY <1>1, <1>2, <1>7 DEF Sound, OnePlace, BookFits, BoughtInTime, RoundTripsApart,
                          NoMemoryNoTrade
<1>9. Waiting'
  <2>1. \A t \in trades : t.code = c => t.sold <= e.first
    BY <1>4 DEF Waiting, Queues
  <2>2. NoEntry.score = 0
    BY DEF NoEntry
  <2> SUFFICES ASSUME NEW q \in Queues, NEW d \in Codes, queue'[q][d].score > 0
               PROVE  /\ queue'[q][d].first <= day /\ queue'[q][d].first < day
                      /\ queue'[q][d].expire <= queue'[q][d].first + mode.memory
                                               + (IF q = "reserved" THEN Reserve ELSE 0)
                      /\ q = "reserved" => mode.bounded /\ mode.memory > 0
                      /\ \A t \in trades : t.code = d => t.sold <= queue'[q][d].first
    BY <1>1 DEF Waiting
  <2>3. CASE d # c
    BY <1>1, <1>5, <2>3 DEF Waiting, QueuePass
  <2>4. CASE d = c
    <3>1. q = "reserved"
      BY <1>5, <2>2, <2>4 DEF Queues
    <3>2. e.first \in Nat /\ day \in Nat
      BY QueueTypes DEF Queues
    <3> QED BY <1>2, <1>4, <1>5, <2>1, <2>4, <3>1, <3>2
  <2> QED BY <2>3, <2>4
<1>10. Passes'
  BY <1>1, <1>2, <1>7 DEF Passes, QueuePass
<1> QED BY <1>6, <1>8, <1>9, <1>10

LEMMA BuyKeeps ==
    ASSUME Inv, NEW c \in Codes, Buy(c)
    PROVE  Inv'
<1> USE DEF Inv
<1> DEFINE e == queue[phase][c]
           p == [NoPosition EXCEPT !.bought = day, !.from = e.first]
<1>1. /\ phase \in Queues /\ QueuePass /\ phase' = phase /\ day' = day /\ mode' = mode
      /\ trades' = trades /\ todo' = todo \ {c} /\ c \in todo /\ c \notin Held
  BY DEF Buy, Trying, Tried, Queues, QueuePass
<1>2. /\ e.score > 0 /\ e.first < day /\ e \in Entry /\ day \in Nat /\ day <= Last
      /\ e.first \in Nat /\ e.expire \in Nat /\ mode.memory \in Nat
      /\ e.expire <= e.first + mode.memory + (IF phase = "reserved" THEN Reserve ELSE 0)
      /\ phase = "reserved" => mode.bounded /\ mode.memory > 0
      /\ \A t \in trades : t.code = c => t.sold <= e.first
  <2>1. e.score > 0
    BY <1>1 DEF Passes, In
  <2> QED BY <1>1, <2>1, QueueTypes DEF Waiting
<1>3. day <= e.expire
  BY <1>1, <1>2 DEF Buy, Expired
<1>4. p \in Position /\ p.bought = day /\ p.from = e.first /\ p.bought > 0
  <2>1. p = [NoPosition EXCEPT !.bought = day, !.from = e.first]
    OBVIOUS
  <2>2. day \in Day /\ e.first \in Day /\ day > 0
    BY <1>2 DEF Entry
  <2>3. p \in Position
    BY <2>1, <2>2, NoneTypes DEF Position
  <2>4. p.bought = day /\ p.from = e.first
    BY <2>1 DEF NoPosition
  <2> QED BY <2>2, <2>3, <2>4
<1>5. pos' = [pos EXCEPT ![c] = p] /\ pos \in [Codes -> Position]
      /\ queue' = [queue EXCEPT ![phase][c] = NoEntry]
      /\ queue \in [Queues -> [Codes -> Entry]]
  BY DEF Buy, TypeOK, Queues
<1> HIDE DEF p
<1>6. TypeOK'
  BY <1>1, <1>4, <1>5, NoneTypes DEF TypeOK, Queues, Buy, Tried
<1>7. Held' = Held \cup {c} /\ c \notin Held
  BY <1>1, <1>4, <1>5 DEF Held
<1>8. /\ \A q \in Queues, d \in Codes : queue'[q][d] = queue[q][d] \/ queue'[q][d].score = 0
      /\ \A d \in Codes : d # c => queue'[phase][d] = queue[phase][d]
      /\ queue'[phase][c].score = 0
  BY <1>1, <1>5 DEF NoEntry
<1>9. \A q \in Queues : In(q)' \subseteq In(q) \ {c}
  <2>1. \A q \in Queues : q # phase => c \notin In(q)
    BY <1>1, <1>2 DEF Sound, OnePlace, In, Queues
  <2> QED BY <1>1, <1>8, <2>1 DEF In
<1>10. OnePlace'
  BY <1>7, <1>9 DEF Sound, OnePlace, Queues
<1>11. BookFits'
  <2>1. ~Full
    BY DEF Buy
  <2>2. Cardinality(Held') = Cardinality(Held) + 1
    BY <1>7, HeldFinite, FS_AddElement
  <2> QED BY <1>1, <2>1, <2>2, HeldFinite DEF BookFits, Full
<1>12. \A d \in Codes : d # c => pos'[d] = pos[d]
  BY <1>5
<1>13. pos'[c] = p
  BY <1>5
<1>14. BoughtInTime'
  BY <1>1, <1>2, <1>3, <1>4, <1>7, <1>12, <1>13 DEF Sound, BoughtInTime, Held
<1>15. RoundTripsApart'
  BY <1>1, <1>2, <1>4, <1>7, <1>12, <1>13 DEF Sound, RoundTripsApart, QueuePass, Held
<1>16. NoMemoryNoTrade'
  BY <1>1, <1>2, <1>3 DEF Sound, NoMemoryNoTrade, Queues
<1>17. Waiting'
  BY <1>1, <1>8 DEF Waiting, QueuePass
<1>18. Passes'
  <2>1. todo' \subseteq In(phase)'
    BY <1>1, <1>8 DEF Passes, In
  <2>2. \A d \in Held' : pos'[d].bought <= day
    BY <1>2, <1>4, <1>7, <1>12, <1>13 DEF Passes, Held
  <2> QED BY <1>1, <2>1, <2>2 DEF Passes, QueuePass
<1> QED BY <1>6, <1>10, <1>11, <1>14, <1>15, <1>16, <1>17, <1>18 DEF Sound

-----------------------------------------------------------------------------
(* The scan, and the end. *)

\* The day ends with the queues as they were or with signals of today.
LEMMA EndDayKeeps ==
    ASSUME Inv, phase = "scan", EndDay,
           queue' \in [Queues -> [Codes -> Entry]],
           track' \in [Codes -> 0..MinDays], streak' \in [Codes -> 0..MinDays],
           \A c \in Held, q \in Queues : queue'[q][c] = queue[q][c],
           \A c \in Codes : queue'["reserved"][c].score > 0 => queue["reserved"][c].score > 0,
           \A c \in Codes : queue["reserved"][c].score > 0 =>
               queue'["pending"][c] = queue["pending"][c],
           \A c \in Codes, q \in Queues : queue'[q][c].score > 0 =>
               \/ queue'[q][c] = queue[q][c]
               \/ /\ queue'[q][c].first = day
                  /\ queue'[q][c].expire <= day + mode.memory
                                            + (IF q = "reserved" THEN Reserve ELSE 0)
    PROVE  Inv'
<1> USE DEF Inv
<1>1. /\ mode' = mode /\ pos' = pos /\ trades' = trades
      /\ phase' \in {"flat", "sell"}
      /\ phase' = "sell" => day' = day + 1 /\ todo' = Held
      /\ phase' = "flat" => day' = day /\ todo' = {}
      /\ day \in Nat /\ day' \in Day /\ day' >= day /\ Held' = Held
  BY DEF EndDay, TypeOK, Held
<1>2. TypeOK'
  BY <1>1 DEF TypeOK, Queues, Held
<1>3. In("reserved")' \subseteq In("reserved")
  BY DEF In
<1>4. OnePlace'
  <2>1. \A c \in In("pending")' : c \notin In("reserved")'
    BY <1>3 DEF Sound, OnePlace, In
  <2>2. \A c \in Held : c \notin In("pending")' /\ c \notin In("reserved")'
    BY DEF Sound, OnePlace, In, Queues
  <2> QED BY <1>1, <2>1, <2>2 DEF OnePlace
<1>5. BookFits' /\ BoughtInTime' /\ NoMemoryNoTrade'
  BY <1>1 DEF Sound, BookFits, BoughtInTime, NoMemoryNoTrade
<1>6. RoundTripsApart'
  BY <1>1 DEF Sound, RoundTripsApart
<1>7. Waiting'
  <2> SUFFICES ASSUME NEW q \in Queues, NEW c \in Codes, queue'[q][c].score > 0
               PROVE  /\ queue'[q][c].first <= day'
                      /\ phase' = "sell" => queue'[q][c].first < day'
                      /\ queue'[q][c].expire <= queue'[q][c].first + mode.memory
                                               + (IF q = "reserved" THEN Reserve ELSE 0)
                      /\ q = "reserved" => mode.bounded /\ mode.memory > 0
                      /\ \A t \in trades : t.code = c => t.sold <= queue'[q][c].first
    BY <1>1 DEF Waiting, QueuePass
  <2>1. q = "reserved" => mode.bounded /\ mode.memory > 0
    BY DEF Waiting, Queues
  <2>2. CASE queue'[q][c] = queue[q][c]
    <3>1. queue[q][c].first \in Nat /\ day' \in Nat
      BY <1>1, QueueTypes
    <3> QED BY <1>1, <2>1, <2>2, <3>1 DEF Waiting
  <2>3. CASE /\ queue'[q][c].first = day
             /\ queue'[q][c].expire <= day + mode.memory
                                       + (IF q = "reserved" THEN Reserve ELSE 0)
    BY <1>1, <2>1, <2>3 DEF Passes
  <2> QED BY <2>2, <2>3
<1>8. Passes'
  <2>1. \A t \in trades : t.sold \in Nat /\ t.sold <= day
    BY DEF TypeOK, Trade, Passes
  <2>2. \A c \in Held : pos[c].bought \in Nat /\ pos[c].bought <= day
    BY DEF TypeOK, Position, Passes, Held
  <2>3. day' \in Nat
    BY <1>1
  <2>4. \A t \in trades' : t.sold <= day'
    BY <1>1, <2>1, <2>3
  <2>5. \A c \in Held' : pos'[c].bought <= day' /\ (phase' = "sell" => pos'[c].bought < day')
    BY <1>1, <2>2, <2>3
  <2> QED BY <1>1, <2>4, <2>5 DEF Passes, QueuePass
<1> QED BY <1>2, <1>4, <1>5, <1>6, <1>7, <1>8 DEF Sound

LEMMA QuietKeeps == Inv /\ Quiet => Inv'
<1> SUFFICES ASSUME Inv, Quiet PROVE Inv'
  OBVIOUS
<1>1. /\ queue' = queue /\ track' = track /\ streak' = streak
      /\ queue \in [Queues -> [Codes -> Entry]]
      /\ track \in [Codes -> 0..MinDays] /\ streak \in [Codes -> 0..MinDays]
      /\ phase = "scan" /\ EndDay
  BY DEF Quiet, Inv, TypeOK, Queues
<1>2. Held \subseteq Codes
  BY DEF Held
<1> QED BY <1>1, <1>2, EndDayKeeps

\* What a signal of today makes of an entry.
LEMMA SignalEntry ==
    ASSUME Inv, NEW c \in Codes, NEW score, score[c] \in Scores
    PROVE  LET new == Signal(c, score) IN
           /\ new \in Entry /\ new.score > 0 /\ new.first = day
           /\ new.expire <= day + mode.memory
<1>1. day \in Nat /\ day <= Last /\ mode.memory \in Nat
  BY QueueTypes DEF Inv, Queues
<1>2. Least(Last, day + mode.memory) \in Nat /\ Least(Last, day + mode.memory) <= day + mode.memory
  BY <1>1 DEF Least
<1>3. score[c] \in Scores \cup {0} /\ score[c] > 0
  <2>1. \A n \in Scores : n \in Nat /\ n # 0
    OBVIOUS
  <2>2. \A n \in Scores : n > 0
    BY <2>1
  <2> QED BY <2>2
<1>4. day \in Day
  BY <1>1
<1> QED BY <1>2, <1>3, <1>4 DEF Signal, Entry

\* What a scan that finds these candidates leaves.
Scanned(cand, score) ==
    LET new == Promoted(cand, score) IN
    /\ queue' = [queue EXCEPT
         !.reserved = [c \in Codes |-> IF c \in new THEN Renewed(c, Signal(c, score))
                                       ELSE @[c]],
         !.pending = [c \in Codes |-> IF c \in new THEN Remembered(c, Signal(c, score))
                                      ELSE @[c]]]
    /\ track' = [c \in Codes |-> Tracked(c, cand)]
    /\ streak' = [c \in Codes |-> IF c \in cand THEN Least(MinDays, streak[c] + 1) ELSE 0]

\* Entries are left alone, or take the signal of today; those of holdings are.
LEMMA ScanShape ==
    ASSUME Inv, Scan
    PROVE  /\ phase = "scan" /\ EndDay
           /\ queue' \in [Queues -> [Codes -> Entry]]
           /\ track' \in [Codes -> 0..MinDays] /\ streak' \in [Codes -> 0..MinDays]
           /\ \A c \in Held, q \in Queues : c \in Codes /\ queue'[q][c] = queue[q][c]
           /\ \A c \in Codes, q \in Queues :
                 \/ queue'[q][c] = queue[q][c]
                 \/ /\ queue'[q][c].score > 0 /\ queue'[q][c].first = day
                    /\ queue'[q][c].expire <= day + mode.memory
                                              + (IF q = "reserved" THEN Reserve ELSE 0)
           /\ \A c \in Codes :
                 queue'["reserved"][c].score > 0 => queue["reserved"][c].score > 0
           /\ \A c \in Codes :
                 queue["reserved"][c].score > 0 => queue'["pending"][c] = queue["pending"][c]
<1>0. PICK cand \in SUBSET Codes :
         \E score \in [cand -> Scores \cup {0}] : Scanned(cand, score)
  BY DEF Scan, Scanned
<1>1. PICK score \in [cand -> Scores \cup {0}] : Scanned(cand, score)
  BY <1>0
<1> DEFINE new == Promoted(cand, score)
           R == [c \in Codes |-> IF c \in new THEN Renewed(c, Signal(c, score))
                                 ELSE queue["reserved"][c]]
           P == [c \in Codes |-> IF c \in new THEN Remembered(c, Signal(c, score))
                                 ELSE queue["pending"][c]]
<1>2. queue \in [Queues -> [Codes -> Entry]] /\ phase = "scan" /\ EndDay /\ day \in Nat
  BY DEF Inv, TypeOK, Queues, Scan
<1>3. queue' = [queue EXCEPT !["reserved"] = R, !["pending"] = P]
  BY <1>1, <1>2 DEF Scanned
<1>4. \A c \in new : c \in Codes /\ c \notin Held /\ score[c] \in Scores
  BY DEF Promoted
<1>5. \A c \in new : LET e == Signal(c, score) IN
         /\ e \in Entry /\ e.score > 0 /\ e.first = day /\ e.expire <= day + mode.memory
  BY <1>4, SignalEntry
<1>6. \A c \in Codes :
         /\ R[c] \in Entry
         /\ R[c].score > 0 => queue["reserved"][c].score > 0
         /\ \/ R[c] = queue["reserved"][c]
            \/ R[c].score > 0 /\ R[c].first = day /\ R[c].expire <= day + mode.memory + Reserve
         /\ c \in Held => R[c] = queue["reserved"][c]
  <2> TAKE c \in Codes
  <2> DEFINE e == Signal(c, score)
             o == queue["reserved"][c]
             f == [e EXCEPT !.expire = Most(@, o.expire)]
  <2>1. o \in Entry
    BY <1>2 DEF Queues
  <2>2. CASE c \in new /\ c \in In("reserved") /\ ~Kept(o, e)
    <3>1. R[c] = f
      BY <2>2 DEF Renewed
    <3>2. /\ e \in Entry /\ e.first = day /\ e.expire <= day + mode.memory
          /\ e.expire \in Nat /\ e.score \in Scores \cup {0} /\ e.score > 0
      BY <1>5, <2>2 DEF Entry
    <3>3. /\ o.score > 0 /\ o.expire <= o.first + mode.memory + Reserve /\ o.first <= day
          /\ o.expire \in Nat /\ o.first \in Nat /\ mode.memory \in Nat
      BY <2>2, QueueTypes DEF Inv, Waiting, Queues, In
    <3>4. Most(e.expire, o.expire) \in Nat /\ Most(e.expire, o.expire) <= day + mode.memory + Reserve
      BY <1>2, <3>2, <3>3 DEF Most
    <3> HIDE DEF e, o
    <3>5. f \in Entry /\ f.score > 0 /\ f.first = day /\ f.expire = Most(e.expire, o.expire)
      BY <3>2, <3>4 DEF Entry
    <3> HIDE DEF f, R
    <3>6. c \notin Held
      BY <1>4, <2>2
    <3> QED BY <3>1, <3>3, <3>4, <3>5, <3>6 DEF o
  <2>3. CASE ~(c \in new /\ c \in In("reserved") /\ ~Kept(o, e))
    <3>1. R[c] = o
      BY <2>3 DEF Renewed
    <3> QED BY <2>1, <3>1
  <2> QED BY <2>2, <2>3
<1>7. \A c \in Codes :
         /\ P[c] \in Entry
         /\ queue["reserved"][c].score > 0 => P[c] = queue["pending"][c]
         /\ \/ P[c] = queue["pending"][c]
            \/ P[c].score > 0 /\ P[c].first = day /\ P[c].expire <= day + mode.memory
         /\ c \in Held => P[c] = queue["pending"][c]
  <2> TAKE c \in Codes
  <2>1. queue["pending"][c] \in Entry
    BY <1>2 DEF Queues
  <2>2. CASE c \in new /\ c \notin In("reserved") /\ ~Kept(queue["pending"][c], Signal(c, score))
    <3>1. P[c] = Signal(c, score)
      BY <2>2 DEF Remembered
    <3> QED BY <1>4, <1>5, <2>2, <3>1 DEF In
  <2>3. CASE ~(c \in new /\ c \notin In("reserved") /\ ~Kept(queue["pending"][c], Signal(c, score)))
    <3>1. P[c] = queue["pending"][c]
      BY <2>3 DEF Remembered
    <3> QED BY <2>1, <3>1
  <2> QED BY <2>2, <2>3
<1> HIDE DEF R, P, new
<1>8. queue'["reserved"] = R /\ queue'["pending"] = P /\ queue' = [q \in Queues |-> queue'[q]]
  BY <1>2, <1>3 DEF Queues
<1>9. queue' \in [Queues -> [Codes -> Entry]]
  <2>1. R = [c \in Codes |-> R[c]] /\ P = [c \in Codes |-> P[c]]
    BY DEF R, P
  <2>2. R \in [Codes -> Entry] /\ P \in [Codes -> Entry]
    BY <1>6, <1>7, <2>1
  <2> QED BY <1>8, <2>2 DEF Queues
<1>10. track' \in [Codes -> 0..MinDays] /\ streak' \in [Codes -> 0..MinDays]
  <2>1. track \in [Codes -> 0..MinDays] /\ streak \in [Codes -> 0..MinDays]
    BY DEF Inv, TypeOK
  <2>2. \A c \in Codes : Tracked(c, cand) \in 0..MinDays
    BY <2>1 DEF Tracked, Least
  <2>3. \A c \in Codes : (IF c \in cand THEN Least(MinDays, streak[c] + 1) ELSE 0) \in 0..MinDays
    BY <2>1 DEF Least
  <2> QED BY <1>1, <2>2, <2>3 DEF Scanned
<1>11. \A c \in Held, q \in Queues : c \in Codes /\ queue'[q][c] = queue[q][c]
  BY <1>6, <1>7, <1>8 DEF Held, Queues
<1>12. \A c \in Codes, q \in Queues :
               \/ queue'[q][c] = queue[q][c]
               \/ /\ queue'[q][c].score > 0 /\ queue'[q][c].first = day
                  /\ queue'[q][c].expire <= day + mode.memory
                                            + (IF q = "reserved" THEN Reserve ELSE 0)
  <2> TAKE c \in Codes, q \in Queues
  <2>1. mode.memory \in Nat
    BY QueueTypes DEF Inv
  <2>2. CASE q = "reserved"
    BY <1>6, <1>8, <2>2
  <2>3. CASE q = "pending"
    BY <1>2, <1>7, <1>8, <2>1, <2>3
  <2> QED BY <2>2, <2>3 DEF Queues
<1>13. /\ \A c \in Codes : queue'["reserved"][c].score > 0 => queue["reserved"][c].score > 0
       /\ \A c \in Codes : queue["reserved"][c].score > 0 =>
               queue'["pending"][c] = queue["pending"][c]
  BY <1>6, <1>7, <1>8
<1> QED BY <1>2, <1>9, <1>10, <1>11, <1>12, <1>13

LEMMA ScanKeeps == Inv /\ Scan => Inv'
  BY ScanShape, EndDayKeeps

LEMMA EndFlatKeeps == Inv /\ EndFlat => Inv'
<1> SUFFICES ASSUME Inv, EndFlat PROVE Inv'
  OBVIOUS
<1> USE DEF Inv
<1>1. PICK missing \in SUBSET {c \in Held : pos[c].bought < day} :
         /\ trades' = trades \cup {Closed(c, "flat") : c \in Held \ missing}
         /\ phase' = IF missing = {} THEN "done" ELSE "failed"
         /\ pos' = IF missing = {} THEN [c \in Codes |-> NoPosition] ELSE pos
  BY DEF EndFlat
<1>2. /\ phase = "flat" /\ mode' = mode /\ day' = day /\ todo' = todo /\ queue' = queue
      /\ track' = track /\ streak' = streak /\ day \in Day /\ pos \in [Codes -> Position]
  BY DEF EndFlat, TypeOK
<1>3. Held' \subseteq Held /\ \A c \in Held' : pos' = pos
  BY <1>1 DEF Held, NoPosition
<1>4. \A c \in Held : Closed(c, "flat") \in Trade
  BY <1>2 DEF Closed, Trade, Position, Held
<1>5. \A t \in trades' : t \in trades \/
        \E c \in Held : t = Closed(c, "flat") /\ t.code = c /\ t.from = pos[c].from
                        /\ t.bought = pos[c].bought /\ t.sold = day /\ t.why = "flat"
  BY <1>1, <1>2 DEF Closed
<1>6. TypeOK'
  <2>1. trades' \in SUBSET Trade
    BY <1>1, <1>4 DEF TypeOK
  <2>2. pos' \in [Codes -> Position]
    BY <1>1, <1>2, NoneTypes
  <2> QED BY <1>1, <1>2, <2>1, <2>2 DEF TypeOK
<1>7. OnePlace' /\ BookFits'
  <2>1. In("reserved")' = In("reserved") /\ In("pending")' = In("pending")
    BY <1>2 DEF In
  <2>2. Cardinality(Held') <= Cardinality(Held) /\ Cardinality(Held') \in Nat
    BY <1>3, HeldFinite, FS_CardinalityType
  <2> QED BY <1>2, <1>3, <2>1, <2>2, HeldFinite DEF Sound, OnePlace, BookFits
<1>8. \A c \in Held : pos[c].bought \in Nat /\ pos[c].from \in Nat /\ pos[c].bought <= day
  BY <1>2 DEF Passes, Position, Held
<1>9. BoughtInTime'
  BY <1>2, <1>3, <1>5, <1>8 DEF Sound, BoughtInTime
<1>10. RoundTripsApart'
  <2>1. \A t, u \in trades' : t.code = u.code /\ t # u => t.sold <= u.from \/ u.sold <= t.from
    BY <1>2, <1>5 DEF Sound, RoundTripsApart
  <2>2. phase' # "failed" => Held' = {}
    BY <1>1 DEF Held, NoPosition
  <2> QED BY <2>1, <2>2 DEF RoundTripsApart
<1>11. NoMemoryNoTrade'
  BY <1>2, <1>3, <1>5 DEF Sound, NoMemoryNoTrade
<1>12. Waiting'
  <2>1. \A q \in Queues, c \in Held : queue[q][c].score = 0
    BY QueueTypes DEF Sound, OnePlace, In, Queues, Held
  <2>2. \A q \in Queues, c \in Codes : queue[q][c].score > 0 =>
            \A t \in trades' : t.code = c => t \in trades
    BY <1>5, <2>1
  <2> QED BY <1>1, <1>2, <2>2 DEF Waiting, QueuePass
<1>13. Passes'
  BY <1>1, <1>2, <1>3, <1>5, <1>8 DEF Passes, QueuePass
<1> QED BY <1>6, <1>7, <1>9, <1>10, <1>11, <1>12, <1>13 DEF Sound

-----------------------------------------------------------------------------
(* The theorems. *)

LEMMA StutterKeeps == Inv /\ UNCHANGED vars => Inv'
<1> SUFFICES ASSUME Inv, UNCHANGED vars PROVE Inv'
  OBVIOUS
<1>1. Held' = Held /\ In("reserved")' = In("reserved") /\ In("pending")' = In("pending")
      /\ In(phase)' = In(phase)
  BY DEF vars, Held, In
<1> QED BY <1>1 DEF vars, Inv, TypeOK, Sound, OnePlace, BookFits, BoughtInTime,
                    RoundTripsApart, NoMemoryNoTrade, Waiting, Passes, QueuePass

\* The strengthening of the safety invariants is one itself.
THEOREM Invariance == Spec => []Inv
<1>1. Inv /\ [Next]_vars => Inv'
  <2> SUFFICES ASSUME Inv, [Next]_vars PROVE Inv'
    OBVIOUS
  <2>1. CASE \E c \in Codes : Visit(c)
    <3>1. PICK c \in Codes : Visit(c)
      BY <2>1
    <3>2. CASE Unpriced(c) \/ Hold(c) \/ StopExit(c) \/ \E s \in Scope : Grace(c, s) \/ SystemExit(c, s)
      BY <3>2, SellPass DEF Scope
    <3>3. CASE Drop(c) \/ Stay(c)
      BY <3>3, LeavesKeep DEF Drop, Stay
    <3>4. CASE ToReserve(c)
      BY <3>4, ReserveKeeps
    <3>5. CASE Buy(c)
      BY <3>5, BuyKeeps
    <3> QED BY <3>1, <3>2, <3>3, <3>4, <3>5 DEF Visit
  <2>2. CASE Turn
    BY <2>2, TurnKeeps
  <2>3. CASE Quiet
    BY <2>3, QuietKeeps
  <2>4. CASE Scan
    BY <2>4, ScanKeeps
  <2>5. CASE EndFlat
    BY <2>5, EndFlatKeeps
  <2>6. CASE Finished \/ UNCHANGED vars
    BY <2>6, StutterKeeps DEF Finished
  <2> QED BY <2>1, <2>2, <2>3, <2>4, <2>5, <2>6 DEF Next
<1> QED BY <1>1, InitInv, PTL DEF Spec

\* Every variable has its type.
THEOREM BacktestType == Spec => []TypeOK
  BY Invariance, PTL DEF Inv

\* No stock is held and waiting, or waiting twice.
THEOREM StocksInOnePlace == Spec => []OnePlace
  BY Invariance, PTL DEF Inv, Sound

\* The book of a bounded run keeps to its slots.
THEOREM BookWithinSlots == Spec => []BookFits
  BY Invariance, PTL DEF Inv, Sound

\* Purchases come after their signals and before these are forgotten, and sales later.
THEOREM PurchasesInTime == Spec => []BoughtInTime
  BY Invariance, PTL DEF Inv, Sound

\* A stock is bought again only on a signal that is not older than its last sale.
THEOREM RoundTripsDoNotOverlap == Spec => []RoundTripsApart
  BY Invariance, PTL DEF Inv, Sound

\* A run without a memory of signals trades nothing.
THEOREM NothingWithoutMemory == Spec => []NoMemoryNoTrade
  BY Invariance, PTL DEF Inv, Sound

-----------------------------------------------------------------------------
(* The watches.  Fits relates a watch to the days of weakness, L being the *)
(* last day on which the position was visited: the hits were counted, and, *)
(* for an n that is enough to confirm, the run of weak days from d to L is *)
(* either all in a watch that is older than it, or such a watch expired    *)
(* within its first n - 2 days and the hits since then are in the present  *)
(* one.                                                                    *)

Enough(n, s, leader) == n \in Nat /\ n >= 2 /\ n >= Need(s, leader) /\ Window[s] >= n

Weak(S, d, e) == \A k \in d..e : k \in S

RunFits(w, n, d, L) ==
    /\ w.hits > 0
    /\ \/ w.start < d /\ w.hits >= L - d + 2
       \/ w.start >= d /\ w.hits = L - w.start + 1 /\ w.start - d <= n - 2

Fits(t, s, L) ==
    LET w == t.watch[s]
        S == t.seen[s]
    IN  /\ w.start <= L /\ \A d \in S : d <= L
        /\ w.hits <= Cardinality({d \in S : d >= w.start})
        /\ \A n \in Nat : Enough(n, s, t.leader) =>
              /\ w.hits < n
              /\ \A d \in Nat : d <= L /\ Weak(S, d, L) => RunFits(w, n, d, L)
              /\ \A d \in Nat : ~Weak(S, d, d + 2 * n - 3)

Visited(c) == IF phase = "sell" /\ c \in todo THEN day - 1 ELSE day

Watched == \A c \in Held, s \in Scope : Fits(pos[c], s, Visited(c))

\* Nothing is noted yet.
LEMMA ClearedFits ==
    ASSUME NEW t, NEW s \in Scope, NEW L \in Nat, t.watch = NoWatch, t.seen = NoDays
    PROVE  Fits(t, s, L)
<1>1. t.watch[s] = [start |-> 0, hits |-> 0] /\ t.seen[s] = {}
  BY DEF NoWatch, NoDays
<1>2. {d \in {} : d >= 0} = {} /\ Cardinality({}) = 0
  BY FS_EmptySet
<1>3. \A d \in Nat, e \in Nat : d <= e => ~Weak({}, d, e)
  BY DEF Weak
<1>4. ASSUME NEW n \in Nat, NEW d \in Nat, n >= 2 PROVE ~Weak({}, d, d + 2 * n - 3)
  <2>1. d + 2 * n - 3 \in Nat /\ d <= d + 2 * n - 3
    BY <1>4
  <2> QED BY <1>3, <2>1
<1> QED BY <1>1, <1>2, <1>3, <1>4 DEF Fits, Enough

\* A day that finds no weakness, or without a check.
LEMMA CalmFits ==
    ASSUME NEW t, NEW u, NEW s \in Scope, NEW D \in Nat, D > 0, t.seen[s] \in SUBSET Nat,
           u.seen[s] = t.seen[s], u.watch[s] \in Watch, t.watch[s] \in Watch,
           u.watch[s] = t.watch[s] \/ (u.watch[s].start = 0 /\ u.watch[s].hits = 0),
           \A n \in Nat : Enough(n, s, u.leader) => Enough(n, s, t.leader),
           IsFiniteSet(t.seen[s]), Fits(t, s, D - 1)
    PROVE  Fits(u, s, D)
<1> DEFINE S == t.seen[s]
           w == u.watch[s]
<1>1. /\ w.start \in Nat /\ w.hits \in Nat /\ t.watch[s].start \in Nat /\ t.watch[s].hits \in Nat
  BY DEF Watch
<1>2. \A d \in S : d \in Nat /\ d <= D
  BY DEF Fits
<1>3. w.hits <= Cardinality({d \in S : d >= w.start})
  <2>1. Cardinality({d \in S : d >= w.start}) \in Nat
    BY FS_Subset, FS_CardinalityType
  <2>2. t.watch[s].hits <= Cardinality({d \in S : d >= t.watch[s].start})
    BY DEF Fits
  <2>3. CASE w = t.watch[s]
    BY <2>2, <2>3
  <2>4. CASE w.hits = 0
    <3> HIDE DEF w
    <3> QED BY <2>1, <2>4
  <2> QED BY <2>3, <2>4
<1>4. \A d \in Nat : d <= D => ~Weak(S, d, D)
  <2>1. D \notin S
    BY DEF Fits
  <2> QED BY <2>1 DEF Weak
<1>5. w.start <= D
  BY <1>1 DEF Fits
<1>6. ASSUME NEW n \in Nat, Enough(n, s, u.leader)
      PROVE  w.hits < n /\ \A d \in Nat : ~Weak(S, d, d + 2 * n - 3)
  <2>1. Enough(n, s, t.leader)
    BY <1>6
  <2>2. n >= 2
    BY <1>6 DEF Enough
  <2> QED BY <1>1, <2>1, <2>2 DEF Fits
<1> QED BY <1>2, <1>3, <1>4, <1>5, <1>6 DEF Fits

\* A weak day that does not confirm.
LEMMA WeakFits ==
    ASSUME NEW t, NEW u, NEW s \in Scope, day \in Nat, day > 0, t.seen[s] \in SUBSET Nat,
           u.seen[s] = t.seen[s] \cup {day}, t.watch[s] \in Watch,
           u.watch[s] = Observed(s, t.watch[s], TRUE),
           ~Confirms(s, t.watch[s], TRUE, u.leader),
           \A n \in Nat : Enough(n, s, u.leader) => Enough(n, s, t.leader),
           u.leader \in BOOLEAN,
           IsFiniteSet(t.seen[s]), Fits(t, s, day - 1)
    PROVE  Fits(u, s, day)
<1> DEFINE S == t.seen[s]
           v == t.watch[s]
           w == u.watch[s]
           T == S \cup {day}
<1>1. /\ v.start \in Nat /\ v.hits \in Nat /\ v.start < day
      /\ \A d \in S : d \in Nat /\ d < day
      /\ Window[s] \in Nat /\ Need(s, u.leader) \in Nat
  <2>1. Hits[s] \in Nat /\ Window[s] \in Nat /\ Extra \in Nat
    OBVIOUS
  <2> QED BY <2>1 DEF Watch, Fits, Need
<1>2. \/ /\ w.start = day /\ w.hits = 1
         /\ v.hits = 0 \/ day - v.start >= Window[s]
      \/ /\ w.start = v.start /\ w.hits = v.hits + 1 /\ v.hits > 0
         /\ day - v.start < Window[s] /\ v.hits + 1 < Need(s, u.leader)
  <2>1. CASE v.hits > 0 /\ day - v.start >= Window[s]
    <3>1. w = [start |-> day, hits |-> 1]
      BY <2>1 DEF Observed, Live
    <3> HIDE DEF v, w
    <3>2. w.start = day /\ w.hits = 1
      BY <3>1
    <3> QED BY <2>1, <3>2
  <2>2. CASE v.hits = 0
    <3>1. w = [start |-> day, hits |-> 1]
      BY <2>2 DEF Observed, Live
    <3> HIDE DEF v, w
    <3>2. w.start = day /\ w.hits = 1
      BY <3>1
    <3> QED BY <2>2, <3>2
  <2>3. CASE v.hits > 0 /\ ~(day - v.start >= Window[s])
    <3>1. Live(s, v) = v
      BY <2>3 DEF Live
    <3>2. w = [v EXCEPT !.hits = v.hits + 1]
      BY <2>3, <3>1 DEF Observed
    <3>3. ~(v.hits + 1 >= Need(s, u.leader))
      BY <2>3, <3>1 DEF Confirms
    <3>4. w.hits = v.hits + 1 /\ w.start = v.start
      BY <3>2 DEF Watch
    <3>5. day - v.start < Window[s] /\ v.hits + 1 < Need(s, u.leader)
      <4>1. day - v.start \in Int
        BY <1>1
      <4> HIDE DEF v
      <4> QED BY <1>1, <2>3, <3>3, <4>1
    <3> QED BY <2>3, <3>4, <3>5
  <2>4. v.hits = 0 \/ v.hits > 0
    BY <1>1
  <2> HIDE DEF v, w
  <2> QED BY <2>1, <2>2, <2>3, <2>4
<1>3. /\ \A n \in Nat : Enough(n, s, u.leader) =>
            /\ v.hits < n
            /\ \A d \in Nat : d <= day - 1 /\ Weak(S, d, day - 1) => RunFits(v, n, d, day - 1)
            /\ \A d \in Nat : ~Weak(S, d, d + 2 * n - 3)
      /\ v.hits <= Cardinality({d \in S : d >= v.start})
  BY DEF Fits
<1>4. S \in SUBSET Nat /\ IsFiniteSet(S) /\ T = S \cup {day} /\ u.seen[s] = T
  OBVIOUS
<1> SUFFICES
      /\ w.start <= day /\ \A d \in T : d <= day
      /\ w.hits <= Cardinality({d \in T : d >= w.start})
      /\ \A n \in Nat : Enough(n, s, u.leader) =>
            /\ w.hits < n
            /\ \A d \in Nat : d <= day /\ Weak(T, d, day) => RunFits(w, n, d, day)
            /\ \A d \in Nat : ~Weak(T, d, d + 2 * n - 3)
  BY DEF Fits
<1> HIDE DEF S, T, v, w
<1>5. w.start \in Nat /\ w.start <= day /\ w.hits \in Nat /\ w.hits > 0
  <2>1. CASE w.start = day /\ w.hits = 1
    BY <2>1
  <2>2. CASE w.start = v.start /\ w.hits = v.hits + 1
    BY <1>1, <2>2
  <2> QED BY <1>2, <2>1, <2>2
<1>6. w.hits <= Cardinality({d \in T : d >= w.start})
  <2> DEFINE A == {d \in S : d >= w.start}
  <2>1. {d \in T : d >= w.start} = A \cup {day} /\ day \notin A
    <3>1. day \notin S
      BY <1>1
    <3> QED BY <1>4, <1>5, <3>1
  <2>2. IsFiniteSet(A) /\ Cardinality(A) \in Nat
    BY <1>4, FS_Subset, FS_CardinalityType
  <2>3. Cardinality(A \cup {day}) = Cardinality(A) + 1
    BY <2>1, <2>2, FS_AddElement
  <2>4. v.start = w.start => v.hits <= Cardinality(A)
    BY <1>3
  <2> HIDE DEF A
  <2>5. w.hits <= Cardinality(A) + 1
    <3>1. CASE w.start = day /\ w.hits = 1
      BY <2>2, <3>1
    <3>2. CASE w.start = v.start /\ w.hits = v.hits + 1
      BY <1>1, <2>2, <2>4, <3>2
    <3> QED BY <1>2, <3>1, <3>2
  <2>6. {d \in T : d >= w.start} = A \cup {day}
    BY <2>1
  <2> QED BY <2>3, <2>5, <2>6
<1>7. ASSUME NEW n \in Nat, Enough(n, s, u.leader)
      PROVE  /\ w.hits < n
             /\ \A d \in Nat : d <= day /\ Weak(T, d, day) => RunFits(w, n, d, day)
             /\ \A d \in Nat : ~Weak(T, d, d + 2 * n - 3)
  <2>1. n >= 2 /\ n >= Need(s, u.leader) /\ Window[s] >= n
    BY <1>7 DEF Enough
  <2>2. /\ v.hits < n
        /\ \A d \in Nat : d <= day - 1 /\ Weak(S, d, day - 1) => RunFits(v, n, d, day - 1)
        /\ \A d \in Nat : ~Weak(S, d, d + 2 * n - 3)
    BY <1>3, <1>7
  <2>3. w.hits < n
    BY <1>1, <1>2, <1>5, <2>1
  <2>4. ASSUME NEW d \in Nat, d <= day, Weak(T, d, day) PROVE RunFits(w, n, d, day)
    <3>1. CASE d = day
      <4>1. CASE w.start = day /\ w.hits = 1
        BY <2>1, <3>1, <4>1 DEF RunFits
      <4>2. CASE w.start = v.start /\ w.hits = v.hits + 1 /\ v.hits > 0
        BY <1>1, <3>1, <4>2 DEF RunFits
      <4> QED BY <1>2, <4>1, <4>2
    <3>2. CASE d < day
      <4>1. Weak(S, d, day - 1)
        BY <1>4, <2>4 DEF Weak
      <4>2. RunFits(v, n, d, day - 1)
        BY <2>2, <3>2, <4>1
      <4>3. \/ v.start < d /\ v.hits >= day - d + 1
            \/ v.start >= d /\ v.hits = day - v.start /\ v.start - d <= n - 2
        BY <1>1, <4>2 DEF RunFits
      <4>4. CASE /\ w.start = day /\ w.hits = 1
                 /\ v.hits = 0 \/ day - v.start >= Window[s]
        <5>1. v.hits > 0 /\ day - v.start >= Window[s]
          BY <1>1, <4>2, <4>4 DEF RunFits
        <5>2. ~(v.start >= d /\ v.hits = day - v.start)
          BY <1>1, <2>1, <2>2, <5>1
        <5>3. day - d <= n - 2
          BY <1>1, <2>2, <4>3, <5>2
        <5> QED BY <3>2, <4>4, <5>3 DEF RunFits
      <4>5. CASE w.start = v.start /\ w.hits = v.hits + 1 /\ v.hits > 0
        BY <1>1, <4>3, <4>5 DEF RunFits
      <4> QED BY <1>2, <4>4, <4>5
    <3> QED BY <2>4, <3>1, <3>2
  <2>5. ASSUME NEW d \in Nat, Weak(T, d, d + 2 * n - 3) PROVE FALSE
    <3> DEFINE e == d + 2 * n - 3
    <3>1. e \in Nat /\ d <= e
      BY <2>1
    <3>2. e \in T
      BY <2>5, <3>1 DEF Weak
    <3>3. CASE e = day
      <4>1. RunFits(w, n, d, day)
        BY <2>4, <2>5, <3>1, <3>3
      <4> QED BY <1>5, <2>1, <2>3, <3>3, <4>1 DEF RunFits
    <3>4. CASE e < day
      <4>1. Weak(S, d, e)
        BY <1>4, <2>5, <3>1, <3>4 DEF Weak
      <4> QED BY <2>2, <4>1
    <3> QED BY <1>1, <1>4, <3>2, <3>3, <3>4
  <2> QED BY <2>3, <2>4, <2>5
<1>8. \A d \in T : d <= day
  BY <1>1, <1>4
<1> QED BY <1>5, <1>6, <1>7, <1>8

\* What Inv tells about a position that is visited.
LEMMA VisitTypes ==
    ASSUME Inv, NEW c \in Codes, Checking(c)
    PROVE  /\ c \in Held /\ pos[c] \in Position /\ day \in Nat /\ day > 0 /\ phase = "sell"
           /\ \A s \in Scope : /\ pos[c].watch[s] \in Watch
                               /\ pos[c].seen[s] \in SUBSET Nat
                               /\ IsFiniteSet(pos[c].seen[s])
                               /\ Visited(c) = day - 1
<1>1. c \in Held /\ pos[c] \in Position /\ day \in Nat /\ pos[c].bought < day /\ phase = "sell"
  BY DEF Inv, Passes, TypeOK, Checking
<1>2. pos[c].bought \in Nat
  BY <1>1 DEF Position
<1>3. \A s \in Scope : pos[c].watch[s] \in Watch /\ pos[c].seen[s] \in SUBSET (0..Last)
  BY <1>1 DEF Position
<1>4. IsFiniteSet(0..Last) /\ 0..Last \subseteq Nat
  BY FS_Interval
<1> QED BY <1>1, <1>2, <1>3, <1>4, FS_Subset DEF Visited, Checking

\* A leader needs at least the hits of any other.
LEMMA NeedGrows ==
    ASSUME NEW s \in Scope, NEW a \in BOOLEAN, NEW b \in {a, TRUE}
    PROVE  /\ Need(s, a) \in Nat /\ Need(s, b) \in Nat /\ Need(s, a) <= Need(s, b)
           /\ \A n \in Nat : Enough(n, s, b) => Enough(n, s, a)
<1>1. Hits[s] \in Nat /\ Extra \in Nat
  OBVIOUS
<1>2. Need(s, a) \in Nat /\ Need(s, b) \in Nat /\ Need(s, a) <= Need(s, b)
  <2>1. CASE a
    <3>1. b = a
      BY <2>1
    <3>2. Need(s, a) = Hits[s] + Extra
      BY <2>1 DEF Need
    <3> QED BY <1>1, <3>1, <3>2
  <2>2. CASE ~a
    <3>1. Need(s, a) = Hits[s] + 0
      BY <2>2 DEF Need
    <3>2. Need(s, b) = Hits[s] + Extra \/ Need(s, b) = Hits[s] + 0
      BY DEF Need
    <3> QED BY <1>1, <3>1, <3>2
  <2> QED BY <2>1, <2>2
<1> QED BY <1>2 DEF Enough

\* One position is visited, and the others are as they were.
LEMMA VisitWatched ==
    ASSUME Inv, Watched, NEW c \in Codes, Checking(c), NEW t \in Position, Checked(c, t),
           t.bought > 0 => \A s \in Scope : Fits(t, s, day)
    PROVE  Watched'
<1>1. /\ pos' = [pos EXCEPT ![c] = t] /\ pos \in [Codes -> Position]
      /\ day' = day /\ phase' = phase /\ todo' = todo \ {c}
  BY DEF Inv, TypeOK, Checked
<1>2. \A d \in Codes : d # c => pos'[d] = pos[d] /\ Visited(d)' = Visited(d)
  BY <1>1 DEF Visited
<1>3. pos'[c] = t /\ Visited(c)' = day
  BY <1>1 DEF Visited
<1>4. \A d \in Held' : d \in Codes /\ (d # c => d \in Held) /\ (d = c => t.bought > 0)
  BY <1>2, <1>3 DEF Held
<1> QED BY <1>2, <1>3, <1>4 DEF Watched

LEMMA SellWatched ==
    ASSUME Inv, Watched, NEW c \in Codes, NEW r \in Scope,
           Unpriced(c) \/ Hold(c) \/ StopExit(c) \/ Grace(c, r) \/ SystemExit(c, r)
    PROVE  Watched'
<1>1. Checking(c)
  BY DEF Unpriced, Hold, StopExit, Grace, SystemExit
<1>2. /\ c \in Held /\ pos[c] \in Position /\ day \in Nat /\ day > 0
      /\ \A s \in Scope : Fits(pos[c], s, day - 1)
  BY <1>1, VisitTypes DEF Watched
<1>3. \A leader \in Leads(c) : leader \in BOOLEAN
  BY <1>2 DEF Leads, Position
<1>4. Cleared(pos[c]) \in Position /\ Cleared(pos[c]).watch = NoWatch
      /\ Cleared(pos[c]).seen = NoDays
  BY <1>2, NoneTypes DEF Cleared, Position
<1>5. ASSUME NEW leader \in BOOLEAN, NEW why, Exit(c, why, leader) PROVE Watched'
  <2>1. CASE Checked(c, NoPosition)
    <3>1. NoPosition \in Position /\ ~(NoPosition.bought > 0)
      BY NoneTypes DEF NoPosition
    <3> QED BY <1>1, <2>1, <3>1, VisitWatched
  <2>2. CASE Checked(c, [Cleared(pos[c]) EXCEPT !.leader = leader, !.owed = TRUE])
    <3> DEFINE t == [Cleared(pos[c]) EXCEPT !.leader = leader, !.owed = TRUE]
    <3>1. t \in Position /\ t.watch = NoWatch /\ t.seen = NoDays
      BY <1>4 DEF Position
    <3>2. \A s \in Scope : Fits(t, s, day)
      BY <1>2, <3>1, ClearedFits
    <3> HIDE DEF t
    <3>3. Checked(c, t)
      BY <2>2 DEF t
    <3> QED BY <1>1, <3>1, <3>2, <3>3, VisitWatched
  <2> QED BY <1>5, <2>1, <2>2 DEF Exit
<1>6. CASE Unpriced(c)
  <2>1. ASSUME NEW s \in Scope PROVE Fits(pos[c], s, day)
    BY <1>1, <1>2, VisitTypes, CalmFits
  <2>2. Checked(c, pos[c])
    BY <1>6 DEF Unpriced
  <2> QED BY <1>1, <1>2, <2>1, <2>2, VisitWatched
<1>7. CASE Hold(c)
  <2>1. PICK weak \in [Scope -> BOOLEAN], leader \in Leads(c) :
          /\ \A s \in Scope : ~Confirms(s, pos[c].watch[s], weak[s], leader)
          /\ Checked(c, [pos[c] EXCEPT
              !.leader = leader, !.owed = FALSE,
              !.watch = [s \in Scope |-> Observed(s, pos[c].watch[s], weak[s])],
              !.seen = [s \in Scope |-> IF weak[s] THEN @[s] \cup {day} ELSE @[s]]])
    BY <1>7 DEF Hold
  <2> DEFINE t == [pos[c] EXCEPT
              !.leader = leader, !.owed = FALSE,
              !.watch = [s \in Scope |-> Observed(s, pos[c].watch[s], weak[s])],
              !.seen = [s \in Scope |-> IF weak[s] THEN @[s] \cup {day} ELSE @[s]]]
  <2>2. \A s \in Scope : pos[c].watch[s] \in Watch /\ pos[c].seen[s] \in SUBSET Day
    BY <1>2 DEF Position
  <2>3. \A s \in Scope : Observed(s, pos[c].watch[s], weak[s]) \in Watch
    <3>1. day \in Day
      BY DEF Inv, TypeOK
    <3> QED BY <2>2, <3>1 DEF Observed, Live, Watch
  <2>4. /\ t \in Position /\ t.leader = leader
        /\ \A s \in Scope :
              /\ t.watch[s] = Observed(s, pos[c].watch[s], weak[s])
              /\ t.seen[s] = IF weak[s] THEN pos[c].seen[s] \cup {day} ELSE pos[c].seen[s]
    <3>1. day \in Day
      BY DEF Inv, TypeOK
    <3>2. [s \in Scope |-> IF weak[s] THEN pos[c].seen[s] \cup {day} ELSE pos[c].seen[s]]
              \in [Scope -> SUBSET Day]
      BY <2>2, <3>1
    <3>3. [s \in Scope |-> Observed(s, pos[c].watch[s], weak[s])] \in [Scope -> Watch]
      BY <2>3
    <3> QED BY <1>2, <1>3, <3>2, <3>3 DEF Position
  <2> HIDE DEF t
  <2>5. ASSUME NEW s \in Scope PROVE Fits(t, s, day)
    <3>1. \A n \in Nat : Enough(n, s, t.leader) => Enough(n, s, pos[c].leader)
      <4>1. pos[c].leader \in BOOLEAN /\ leader \in {pos[c].leader, TRUE}
        BY <1>2 DEF Leads, Position
      <4> QED BY <2>4, <4>1, NeedGrows
    <3>2. t.leader \in BOOLEAN
      BY <1>3, <2>4
    <3>3. CASE weak[s]
      <4>1. weak[s] = TRUE
        BY <3>3
      <4>2. /\ t.watch[s] = Observed(s, pos[c].watch[s], TRUE)
            /\ ~Confirms(s, pos[c].watch[s], TRUE, t.leader)
            /\ t.seen[s] = pos[c].seen[s] \cup {day}
        BY <2>1, <2>4, <4>1
      <4> QED BY <1>1, <1>2, <3>1, <3>2, <4>2, VisitTypes, WeakFits
    <3>4. CASE ~weak[s]
      <4>1. /\ t.seen[s] = pos[c].seen[s] /\ t.watch[s] \in Watch
            /\ t.watch[s] = Live(s, pos[c].watch[s])
        BY <2>3, <2>4, <3>4 DEF Observed
      <4>2. t.watch[s] = pos[c].watch[s] \/ (t.watch[s].start = 0 /\ t.watch[s].hits = 0)
        BY <4>1 DEF Live
      <4> QED BY <1>1, <1>2, <3>1, <4>1, <4>2, VisitTypes, CalmFits
    <3> QED BY <3>3, <3>4
  <2>6. Checked(c, t)
    BY <2>1 DEF t
  <2> QED BY <1>1, <2>4, <2>5, <2>6, VisitWatched
<1>8. CASE StopExit(c)
  BY <1>3, <1>5, <1>8 DEF StopExit
<1>9. CASE Grace(c, r)
  <2>1. PICK leader \in Leads(c) :
          Checked(c, [Cleared(pos[c]) EXCEPT
                          !.leader = leader, !.grace = TRUE, !.owed = FALSE])
    BY <1>9 DEF Grace
  <2> DEFINE t == [Cleared(pos[c]) EXCEPT
                          !.leader = leader, !.grace = TRUE, !.owed = FALSE]
  <2>2. t \in Position /\ t.watch = NoWatch /\ t.seen = NoDays
    BY <1>3, <1>4 DEF Position
  <2>3. \A s \in Scope : Fits(t, s, day)
    BY <1>2, <2>2, ClearedFits
  <2> HIDE DEF t
  <2>4. Checked(c, t)
    BY <2>1 DEF t
  <2> QED BY <1>1, <2>2, <2>3, <2>4, VisitWatched
<1>10. CASE SystemExit(c, r)
  BY <1>3, <1>5, <1>10 DEF SystemExit
<1> QED BY <1>6, <1>7, <1>8, <1>9, <1>10

\* Every other step: the positions stay or go, but for one that is bought.
LEMMA OtherWatched ==
    ASSUME Inv, Watched, NEW c \in Codes,
           \/ Drop(c) \/ Stay(c) \/ ToReserve(c) \/ Buy(c)
           \/ Turn \/ Quiet \/ Scan \/ EndFlat \/ UNCHANGED vars
    PROVE  Watched'
<1>1. pos \in [Codes -> Position] /\ day \in Nat
  BY DEF Inv, TypeOK
<1>2. CASE \A d \in Held' : d \in Held /\ pos'[d] = pos[d] /\ Visited(d)' = Visited(d)
  BY <1>2 DEF Watched
<1>3. CASE Drop(c) \/ Stay(c) \/ ToReserve(c)
  BY <1>2, <1>3 DEF Drop, Stay, ToReserve, Trying, Tried, Visited, Held
<1>4. CASE Turn
  BY <1>2, <1>4 DEF Turn, Visited, Held
<1>5. CASE Quiet \/ Scan
  <2>1. pos' = pos /\ phase = "scan" /\ EndDay
    BY <1>5 DEF Quiet, Scan, EndDay
  <2>2. Held' = Held
    BY <2>1 DEF Held
  <2>3. \A d \in Held : Visited(d)' = Visited(d)
    BY <1>1, <2>1, <2>2 DEF EndDay, Visited
  <2> QED BY <1>2, <2>1, <2>2, <2>3
<1>6. CASE EndFlat
  <2>1. phase = "flat" /\ day' = day /\ phase' # "sell"
        /\ pos' \in {pos, [d \in Codes |-> NoPosition]}
    BY <1>6 DEF EndFlat
  <2> QED BY <1>2, <2>1 DEF Held, Visited, NoPosition
<1>7. CASE UNCHANGED vars
  BY <1>2, <1>7 DEF vars, Held, Visited
<1>8. CASE Buy(c)
  <2> DEFINE p == [NoPosition EXCEPT !.bought = day, !.from = queue[phase][c].first]
  <2>1. /\ pos' = [pos EXCEPT ![c] = p] /\ phase' = phase /\ phase # "sell" /\ day' = day
    BY <1>8 DEF Buy, Trying, Tried
  <2>2. p.watch = NoWatch /\ p.seen = NoDays
    BY DEF NoPosition
  <2> HIDE DEF p
  <2>3. \A s \in Scope : Fits(p, s, day)
    BY <1>1, <2>2, ClearedFits
  <2>4. pos'[c] = p /\ \A d \in Codes : d # c => pos'[d] = pos[d]
    BY <1>1, <2>1
  <2>5. \A d \in Codes : Visited(d) = day /\ Visited(d)' = day
    BY <2>1 DEF Visited
  <2>6. \A d \in Held' : d \in Codes /\ (d # c => d \in Held)
    BY <2>4 DEF Held
  <2> QED BY <2>3, <2>4, <2>5, <2>6 DEF Watched
<1> QED BY <1>3, <1>4, <1>5, <1>6, <1>7, <1>8

\* The watches keep the count.
THEOREM WatchesCount == Spec => []Watched
<1>1. Init => Watched
  <2> SUFFICES ASSUME Init PROVE Watched
    OBVIOUS
  <2>1. Held = {}
    BY DEF Init, Held, NoPosition
  <2> QED BY <2>1 DEF Watched
<1>2. Inv /\ Watched /\ [Next]_vars => Watched'
  <2> SUFFICES ASSUME Inv, Watched, [Next]_vars PROVE Watched'
    OBVIOUS
  <2>1. CASE \E c \in Codes : Visit(c)
    <3>1. PICK c \in Codes : Visit(c)
      BY <2>1
    <3>2. CASE Unpriced(c) \/ Hold(c) \/ StopExit(c) \/ \E s \in Scope : Grace(c, s) \/ SystemExit(c, s)
      BY <3>2, SellWatched DEF Scope
    <3>3. CASE Drop(c) \/ Stay(c) \/ ToReserve(c) \/ Buy(c)
      BY <3>3, OtherWatched
    <3> QED BY <3>1, <3>2, <3>3 DEF Visit
  <2>2. CASE Turn \/ Quiet \/ Scan \/ EndFlat \/ Finished \/ UNCHANGED vars
    <3>1. CASE Codes = {}
      BY <3>1 DEF Watched, Held
    <3>2. CASE Codes # {}
      BY <2>2, <3>2, OtherWatched DEF Finished
    <3> QED BY <3>1, <3>2
  <2> QED BY <2>1, <2>2 DEF Next
<1> QED BY <1>1, <1>2, Invariance, PTL DEF Spec

\* Weakness that lasts leads to an exit signal, or uses the grace.
THEOREM WeaknessGetsThrough == Spec => []WeaknessExits
<1>1. Watched => WeaknessExits
  <2> SUFFICES ASSUME Watched, NEW c \in Held, NEW s \in Scope,
                      Need(s, pos[c].leader) >= 2, Window[s] >= Need(s, pos[c].leader),
                      NEW d \in Day,
                      \A k \in 0..(2 * Need(s, pos[c].leader) - 3) : d + k \in pos[c].seen[s]
               PROVE  FALSE
    BY DEF WeaknessExits
  <2> DEFINE n == Need(s, pos[c].leader)
             S == pos[c].seen[s]
  <2>1. n \in Nat
    <3>1. Hits[s] \in Nat /\ Extra \in Nat
      OBVIOUS
    <3> QED BY <3>1 DEF Need
  <2>2. Enough(n, s, pos[c].leader)
    BY <2>1 DEF Enough
  <2> HIDE DEF n
  <2>3. ~Weak(S, d, d + 2 * n - 3)
    <3>1. Fits(pos[c], s, Visited(c)) /\ d \in Nat
      BY DEF Watched
    <3> QED BY <2>1, <2>2, <3>1 DEF Fits
  <2> HIDE DEF S
  <2>4. \A k \in 0..(2 * n - 3) : d + k \in S
    BY DEF n, S
  <2>5. ASSUME NEW e \in d..(d + 2 * n - 3) PROVE e \in S
    <3>1. e - d \in 0..(2 * n - 3) /\ d + (e - d) = e
      BY <2>1
    <3> QED BY <2>4, <3>1
  <2> QED BY <2>3, <2>5 DEF Weak
<1> QED BY <1>1, WatchesCount, PTL

\* A position is not sold on a confirmed exit for less weak days than it needs.
THEOREM ExitsHaveHits == Spec => ConfirmedByHits
<1> DEFINE Exits ==
      \A t \in trades' \ trades : t.why \in Scope =>
         Cardinality({d \in pos[t.code].seen[t.why] \cup {day} : d > day - Window[t.why]})
             >= Need(t.why, pos[t.code].leader)
<1>1. Inv /\ Watched /\ [Next]_vars => Exits
  <2> SUFFICES ASSUME Inv, Watched, [Next]_vars, NEW t \in trades' \ trades, t.why \in Scope
               PROVE  Cardinality({d \in pos[t.code].seen[t.why] \cup {day} : d > day - Window[t.why]})
                          >= Need(t.why, pos[t.code].leader)
    OBVIOUS
  <2>1. PICK c \in Codes, s \in Scope : SystemExit(c, s) /\ t = Closed(c, s)
    <3>1. "stop" \notin Scope /\ "flat" \notin Scope
      BY DEF Scope
    <3>2. CASE \E c \in Codes : Visit(c)
      <4>1. PICK c \in Codes : Visit(c)
        BY <3>2
      <4>2. CASE \E s \in Scope : SystemExit(c, s)
        <5>1. PICK s \in Scope : SystemExit(c, s)
          BY <4>2
        <5>2. PICK leader \in Leads(c) : Exit(c, s, leader)
          BY <5>1 DEF SystemExit
        <5>3. t = Closed(c, s)
          BY <5>2 DEF Exit
        <5> QED BY <5>1, <5>3
      <4>3. CASE StopExit(c)
        <5>1. PICK leader \in Leads(c) : Exit(c, "stop", leader)
          BY <4>3 DEF StopExit
        <5>2. t = Closed(c, "stop")
          BY <5>1 DEF Exit
        <5> QED BY <3>1, <5>2 DEF Closed
      <4>4. CASE ~(StopExit(c) \/ \E s \in Scope : SystemExit(c, s))
        BY <4>1, <4>4 DEF Visit, Unpriced, Hold, Grace, Drop, Stay, ToReserve, Buy, Tried
      <4> QED BY <4>2, <4>3, <4>4
    <3>3. CASE EndFlat
      BY <3>1, <3>3 DEF EndFlat, Closed
    <3>4. CASE Turn \/ Quiet \/ Scan \/ Finished \/ UNCHANGED vars
      BY <3>4 DEF Turn, Quiet, Scan, EndDay, Finished, vars
    <3> QED BY <3>2, <3>3, <3>4 DEF Next
  <2>2. t.code = c /\ t.why = s /\ Checking(c)
    BY <2>1 DEF Closed, SystemExit
  <2>3. PICK weak \in [Scope -> BOOLEAN], leader \in Leads(c) :
            Confirms(s, pos[c].watch[s], weak[s], leader)
    BY <2>1 DEF SystemExit, Decides
  <2> DEFINE w == pos[c].watch[s]
             S == pos[c].seen[s]
             A == {d \in S : d >= w.start}
             B == {d \in S \cup {day} : d > day - Window[s]}
  <2>4. Fits(pos[c], s, day - 1)
    BY <2>2, VisitTypes DEF Watched
  <2>5. /\ S \in SUBSET Nat /\ IsFiniteSet(S) /\ w.start \in Nat /\ w.hits \in Nat /\ day \in Nat
        /\ \A d \in S : d <= day - 1
        /\ w.hits <= Cardinality(A) /\ w.start <= day - 1 /\ Window[s] \in Nat
        /\ Window[s] > 0
    <3>1. Window[s] \in Nat \ {0}
      OBVIOUS
    <3> QED BY <2>2, <2>4, <3>1, VisitTypes DEF Fits, Watch
  <2>6. w.hits > 0 /\ day - w.start < Window[s] /\ w.hits + 1 >= Need(s, leader)
    BY <2>3, <2>5 DEF Confirms, Live
  <2>7. Need(s, leader) >= Need(s, pos[c].leader) /\ Need(s, leader) \in Nat
        /\ Need(s, pos[c].leader) \in Nat
    <3>1. pos[c].leader \in BOOLEAN /\ leader \in {pos[c].leader, TRUE}
      BY <2>2, VisitTypes DEF Leads, Position
    <3> QED BY <3>1, NeedGrows
  <2> HIDE DEF w, S
  <2>8. IsFiniteSet(A) /\ IsFiniteSet(B) /\ A \cup {day} \subseteq B /\ day \notin A
    <3>1. IsFiniteSet(S \cup {day})
      BY <2>5, FS_AddElement
    <3>2. day \notin S
      BY <2>5
    <3>3. \A d \in A : d \in S /\ d > day - Window[s]
      BY <2>5, <2>6
    <3>4. day > day - Window[s]
      BY <2>5
    <3> QED BY <2>5, <3>1, <3>2, <3>3, <3>4, FS_Subset
  <2> HIDE DEF A, B
  <2>9. Cardinality(A \cup {day}) = Cardinality(A) + 1 /\ Cardinality(A) \in Nat
        /\ Cardinality(A \cup {day}) <= Cardinality(B) /\ Cardinality(B) \in Nat
    BY <2>8, FS_AddElement, FS_Subset, FS_CardinalityType
  <2>10. Cardinality(B) >= Need(s, pos[c].leader)
    BY <2>5, <2>6, <2>7, <2>9
  <2> QED BY <2>2, <2>10 DEF B, S
<1> QED BY <1>1, Invariance, WatchesCount, PTL DEF Spec, ConfirmedByHits

-----------------------------------------------------------------------------
(* The observation of candidates. *)

\* The days counted are the scans in a row, unless the stock is or was held.
Observing == \A c \in Codes : c \in Held \/ (\E t \in trades : t.code = c) \/ track[c] <= streak[c]

LEMMA ScanObserves ==
    ASSUME Inv, Observing, NEW cand, NEW score, Scanned(cand, score), NEW c \in Codes
    PROVE  /\ track'[c] = Tracked(c, cand)
           /\ streak'[c] = IF c \in cand THEN Least(MinDays, streak[c] + 1) ELSE 0
           /\ track[c] \in 0..MinDays /\ streak[c] \in 0..MinDays
           /\ c \notin Held /\ ~(\E t \in trades : t.code = c) => track'[c] <= streak'[c]
<1>1. /\ track'[c] = Tracked(c, cand)
      /\ streak'[c] = IF c \in cand THEN Least(MinDays, streak[c] + 1) ELSE 0
  BY DEF Scanned
<1>2. track[c] \in 0..MinDays /\ streak[c] \in 0..MinDays
  BY DEF Inv, TypeOK
<1>3. ASSUME c \notin Held, ~(\E t \in trades : t.code = c) PROVE track'[c] <= streak'[c]
  <2>1. track[c] <= streak[c]
    BY <1>3 DEF Observing
  <2>2. CASE c \in cand
    BY <1>1, <1>2, <1>3, <2>1, <2>2 DEF Tracked, Least
  <2>3. CASE c \notin cand
    BY <1>1, <1>3, <2>3 DEF Tracked
  <2> QED BY <2>2, <2>3
<1> QED BY <1>1, <1>2, <1>3

LEMMA Observes == Inv /\ Observing /\ [Next]_vars => Observing'
<1> SUFFICES ASSUME Inv, Observing, [Next]_vars, NEW c \in Codes
             PROVE  (c \in Held \/ (\E t \in trades : t.code = c) \/ track[c] <= streak[c])'
  BY DEF Observing
<1>1. pos \in [Codes -> Position] /\ trades \subseteq trades'
  <2>1. pos \in [Codes -> Position]
    BY DEF Inv, TypeOK
  <2>2. trades \subseteq trades'
    <3>1. CASE \E d \in Codes : Visit(d)
      BY <3>1 DEF Visit, Unpriced, Hold, Grace, StopExit, SystemExit, Exit, Drop, Stay,
                  ToReserve, Buy, Tried
    <3>2. CASE ~(\E d \in Codes : Visit(d))
      BY <3>2 DEF Next, Turn, Quiet, Scan, EndDay, EndFlat, Finished, vars
    <3> QED BY <3>1, <3>2
  <2> QED BY <2>1, <2>2
<1>2. CASE \E t \in trades : t.code = c
  BY <1>1, <1>2
<1>3. CASE track' = track /\ streak' = streak /\ pos'[c].bought = pos[c].bought
  BY <1>1, <1>3 DEF Observing, Held
<1>4. ASSUME NEW d \in Codes, Visit(d)
      PROVE  (c \in Held \/ (\E t \in trades : t.code = c) \/ track[c] <= streak[c])'
  <2>1. track' = track /\ streak' = streak
    BY <1>4 DEF Visit, Unpriced, Hold, Grace, StopExit, SystemExit, Exit, Checked,
                Drop, Stay, ToReserve, Buy, Tried
  <2>2. CASE \E why \in Scope \cup {"stop"} : trades' = trades \cup {Closed(d, why)} /\ d = c
    <3>1. PICK why \in Scope \cup {"stop"} : trades' = trades \cup {Closed(d, why)} /\ d = c
      BY <2>2
    <3>2. Closed(d, why) \in trades' /\ Closed(d, why).code = c
      BY <3>1 DEF Closed
    <3> QED BY <3>2
  <2>3. CASE Drop(d) \/ Stay(d) \/ ToReserve(d)
    BY <1>3, <2>1, <2>3 DEF Drop, Stay, ToReserve
  <2>4. CASE Buy(d)
    <3>1. pos' = [pos EXCEPT ![d] = [NoPosition EXCEPT !.bought = day,
                                                       !.from = queue[phase][d].first]]
      BY <2>4 DEF Buy
    <3>2. CASE d # c
      BY <1>1, <1>3, <2>1, <3>1, <3>2
    <3>3. CASE d = c
      <4>1. phase \in Queues /\ queue[phase][c].score > 0
        BY <2>4, <3>3 DEF Buy, Trying, Queues, Inv, Passes, QueuePass, In
      <4>2. day > 0
        <5>1. queue[phase][c].first < day
          BY <4>1 DEF Inv, Waiting, QueuePass, Queues
        <5> QED BY <4>1, <5>1, QueueTypes DEF Inv
      <4>3. pos'[c].bought = day
        BY <1>1, <3>1, <3>3 DEF NoPosition
      <4> QED BY <4>2, <4>3 DEF Held
    <3> QED BY <3>2, <3>3
  <2>5. CASE Unpriced(d) \/ Hold(d) \/ \E s \in Scope : Grace(d, s)
    <3>1. pos'[c].bought = pos[c].bought
      <4>1. PICK u : Checked(d, u) /\ u.bought = pos[d].bought
        <5>1. CASE Unpriced(d)
          BY <5>1 DEF Unpriced
        <5>2. CASE Hold(d)
          <6>1. PICK weak \in [Scope -> BOOLEAN], leader \in Leads(d) :
                  Checked(d, [pos[d] EXCEPT
                    !.leader = leader, !.owed = FALSE,
                    !.watch = [s \in Scope |-> Observed(s, pos[d].watch[s], weak[s])],
                    !.seen = [s \in Scope |-> IF weak[s] THEN @[s] \cup {day} ELSE @[s]]])
            BY <5>2 DEF Hold
          <6> DEFINE u == [pos[d] EXCEPT
                    !.leader = leader, !.owed = FALSE,
                    !.watch = [s \in Scope |-> Observed(s, pos[d].watch[s], weak[s])],
                    !.seen = [s \in Scope |-> IF weak[s] THEN @[s] \cup {day} ELSE @[s]]]
          <6>2. u.bought = pos[d].bought
            BY <1>1 DEF Position
          <6> QED BY <6>1, <6>2
        <5>3. CASE \E s \in Scope : Grace(d, s)
          <6>1. PICK leader \in Leads(d) :
                  Checked(d, [Cleared(pos[d]) EXCEPT
                                !.leader = leader, !.grace = TRUE, !.owed = FALSE])
            BY <5>3 DEF Grace
          <6>2. [Cleared(pos[d]) EXCEPT !.leader = leader, !.grace = TRUE,
                                        !.owed = FALSE].bought = pos[d].bought
            BY <1>1 DEF Cleared, Position
          <6> QED BY <6>1, <6>2
        <5> QED BY <2>5, <5>1, <5>2, <5>3
      <4> QED BY <1>1, <4>1 DEF Checked
    <3> QED BY <1>3, <2>1, <3>1
  <2>6. ASSUME NEW why \in Scope \cup {"stop"}, NEW leader, Exit(d, why, leader)
        PROVE  (c \in Held \/ (\E t \in trades : t.code = c) \/ track[c] <= streak[c])'
    <3>1. CASE d = c /\ trades' = trades \cup {Closed(d, why)}
      BY <2>2, <3>1
    <3>2. CASE d # c \/ Checked(d, [Cleared(pos[d]) EXCEPT !.leader = leader, !.owed = TRUE])
      <4>1. pos'[c].bought = pos[c].bought
        <5>1. CASE d # c
          BY <1>1, <2>6, <5>1 DEF Exit, Checked
        <5>2. CASE Checked(d, [Cleared(pos[d]) EXCEPT !.leader = leader, !.owed = TRUE])
          <6>1. [Cleared(pos[d]) EXCEPT !.leader = leader, !.owed = TRUE].bought = pos[d].bought
            BY <1>1 DEF Cleared, Position
          <6> QED BY <1>1, <5>2, <6>1 DEF Checked
        <5> QED BY <3>2, <5>1, <5>2
      <4> QED BY <1>3, <2>1, <4>1
    <3> QED BY <2>6, <3>1, <3>2 DEF Exit
  <2>7. CASE StopExit(d) \/ \E s \in Scope : SystemExit(d, s)
    BY <2>6, <2>7 DEF StopExit, SystemExit
  <2> QED BY <1>4, <2>3, <2>4, <2>5, <2>7 DEF Visit
<1>5. CASE Turn \/ Quiet \/ Finished \/ UNCHANGED vars
  BY <1>3, <1>5 DEF Turn, Quiet, EndDay, Finished, vars
<1>6. CASE Scan
  <2>1. PICK cand \in SUBSET Codes :
           \E score \in [cand -> Scores \cup {0}] : Scanned(cand, score)
    BY <1>6 DEF Scan, Scanned
  <2>2. pos' = pos
    BY <1>6 DEF Scan, EndDay
  <2> QED BY <1>2, <2>1, <2>2, ScanObserves DEF Held
<1>7. CASE EndFlat
  <2>1. PICK missing \in SUBSET {d \in Held : pos[d].bought < day} :
         /\ trades' = trades \cup {Closed(d, "flat") : d \in Held \ missing}
         /\ pos' = IF missing = {} THEN [d \in Codes |-> NoPosition] ELSE pos
    BY <1>7 DEF EndFlat
  <2>2. track' = track /\ streak' = streak
    BY <1>7 DEF EndFlat
  <2>3. CASE missing = {} /\ c \in Held
    <3>1. Closed(c, "flat") \in trades' /\ Closed(c, "flat").code = c
      BY <2>1, <2>3 DEF Closed
    <3> QED BY <3>1
  <2>4. CASE missing # {}
    BY <1>3, <2>1, <2>2, <2>4
  <2>5. CASE c \notin Held
    BY <1>2, <2>2, <2>5 DEF Observing
  <2> QED BY <2>3, <2>4, <2>5
<1> QED BY <1>4, <1>5, <1>6, <1>7 DEF Next

\* What enters a queue was observed for as long as it takes, or has been held.
THEOREM EntriesAreObserved == Spec => ObservedFirst
<1> DEFINE First == phase = "scan" =>
         \A c \in Codes, q \in {"reserved", "pending"} :
             queue'[q][c] # queue[q][c] =>
                 streak'[c] >= MinDays \/ \E t \in trades : t.code = c
<1>1. Init => Observing
  BY DEF Init, Observing
<1>2. Inv /\ Observing /\ [Next]_vars => First
  <2> SUFFICES ASSUME Inv, Observing, [Next]_vars, phase = "scan", NEW c \in Codes, NEW q \in Queues,
                      queue'[q][c] # queue[q][c], ~(\E t \in trades : t.code = c)
               PROVE  streak'[c] >= MinDays
    BY DEF Queues
  <2>1. Scan
    BY DEF Next, Visit, Unpriced, Hold, Grace, StopExit, SystemExit, Checking, Drop, Stay,
           ToReserve, Buy, Trying, Turn, Quiet, EndFlat, Finished, vars
  <2>2. PICK cand \in SUBSET Codes :
           \E score \in [cand -> Scores \cup {0}] : Scanned(cand, score)
    BY <2>1 DEF Scan, Scanned
  <2>3. PICK score \in [cand -> Scores \cup {0}] : Scanned(cand, score)
    BY <2>2
  <2>4. queue \in [Queues -> [Codes -> Entry]]
    BY DEF Inv, TypeOK, Queues
  <2>5. c \in Promoted(cand, score)
    BY <2>3, <2>4 DEF Scanned, Queues
  <2>6. c \notin Held /\ c \in cand /\ Tracked(c, cand) >= MinDays
    BY <2>5 DEF Promoted
  <2>7. /\ track'[c] >= MinDays /\ track'[c] <= streak'[c]
        /\ track'[c] = Tracked(c, cand) /\ streak'[c] = Least(MinDays, streak[c] + 1)
        /\ track[c] \in Nat /\ streak[c] \in Nat
    BY <2>3, <2>6, ScanObserves
  <2> QED BY <2>6, <2>7 DEF Tracked, Least
<1>3. Spec => []Observing
  BY <1>1, Observes, Invariance, PTL DEF Spec
<1> QED BY <1>2, <1>3, Invariance, PTL DEF Spec, ObservedFirst

-----------------------------------------------------------------------------
(* Backtest implements TradeBook.  Unless a run has failed, what is held   *)
(* is open; with it every step of a position, a queue or the day maps to   *)
(* one of the book or leaves it alone.                                     *)

LEMMA OpenIsHeld == Inv /\ phase # "failed" => Open = Held
<1> SUFFICES ASSUME Inv, phase # "failed", NEW c \in Held, NEW t \in trades, t.code = c
             PROVE  t.from # pos[c].from
  BY DEF Open
<1>1. t.from \in Nat /\ t.bought \in Nat /\ t.sold \in Nat /\ pos[c].from \in Nat
  BY DEF Inv, TypeOK, Trade, Position, Held
<1>2. t.from < t.bought /\ t.bought <= t.sold /\ t.sold <= pos[c].from
  BY DEF Inv, Sound, BoughtInTime, RoundTripsApart
<1> QED BY <1>1, <1>2

\* Where a stock is.
LEMMA WhereItIs ==
    ASSUME Inv, NEW c \in Codes
    PROVE  /\ Open \subseteq Held /\ Held \subseteq Codes
           /\ c \in Open => Life[c] = [at |-> "held", from |-> pos[c].from,
                                       bought |-> pos[c].bought]
           /\ \A q \in Queues : c \in In(q) => c \notin Held /\ Life[c] = Waits(c, q)
           /\ c \notin Open /\ c \notin In("reserved") /\ c \notin In("pending")
                  => Life[c] = Book!Out
<1>1. Open \subseteq Held /\ Held \subseteq Codes
  BY DEF Open, Held
<1>2. c \in Open => Life[c] = [at |-> "held", from |-> pos[c].from, bought |-> pos[c].bought]
  BY DEF Life
<1>3. ASSUME NEW q \in Queues, c \in In(q)
      PROVE  c \notin Held /\ Life[c] = Waits(c, q)
  BY <1>1, <1>3 DEF Inv, Sound, OnePlace, Life, Queues
<1>4. c \notin Open /\ c \notin In("reserved") /\ c \notin In("pending") => Life[c] = Book!Out
  BY DEF Life, Book!Out
<1> QED BY <1>1, <1>2, <1>3, <1>4

LEMMA BookHolds == Inv => Book!Stock("held") = Open
<1> SUFFICES ASSUME Inv PROVE Book!Stock("held") = Open
  OBVIOUS
<1>1. Open \subseteq Codes
  BY DEF Open, Held
<1>2. ASSUME NEW c \in Codes PROVE Life[c].at = "held" <=> c \in Open
  <2>1. c \in Open => Life[c].at = "held"
    BY DEF Life
  <2>2. c \notin Open => Life[c].at \in {"waiting", "out"}
    BY DEF Life, Waits
  <2> QED BY <2>1, <2>2
<1> QED BY <1>1, <1>2 DEF Book!Stock

\* The variables of the book that the visits, the purchases and the sales leave alone.
LEMMA SameDay ==
    ASSUME mode' = mode, day' = day, phase \notin {"flat", "done", "failed"},
           phase' \notin {"flat", "done", "failed"}
    PROVE  /\ Rules' = Rules /\ day' = day
           /\ ~(phase \in {"flat", "done", "failed"})
           /\ ~(phase \in {"flat", "done", "failed"})'
  BY DEF Rules

LEMMA LifeShape == (\A d \in Codes : Life'[d] = Life[d]) => Life' = Life
<1> SUFFICES ASSUME \A d \in Codes : Life'[d] = Life[d] PROVE Life' = Life
  OBVIOUS
<1> DEFINE L == Life
           M == Life'
<1>1. L = [d \in Codes |-> L[d]] /\ M = [d \in Codes |-> M[d]]
  BY DEF Life
<1>2. \A d \in Codes : M[d] = L[d]
  OBVIOUS
<1> HIDE DEF L, M
<1>3. M = L
  BY <1>1, <1>2
<1> QED BY <1>3 DEF L, M

LEMMA LifeExcept ==
    ASSUME NEW c \in Codes, NEW there, Life'[c] = there,
           \A d \in Codes : d # c => Life'[d] = Life[d]
    PROVE  Life' = [Life EXCEPT ![c] = there]
<1> DEFINE L == Life
           M == Life'
<1>1. L = [d \in Codes |-> L[d]] /\ M = [d \in Codes |-> M[d]]
  BY DEF Life
<1>2. M[c] = there /\ \A d \in Codes : d # c => M[d] = L[d]
  OBVIOUS
<1> HIDE DEF L, M
<1>3. M = [L EXCEPT ![c] = there]
  BY <1>1, <1>2
<1> QED BY <1>3 DEF L, M

LEMMA SameLife ==
    ASSUME Held' = Held, trades' = trades,
           \A c \in Held : pos'[c].from = pos[c].from /\ pos'[c].bought = pos[c].bought,
           \A q \in Queues : In(q)' = In(q) /\ \A c \in In(q) : queue'[q][c].first = queue[q][c].first
    PROVE  Life' = Life /\ Trips' = Trips
<1>1. Open' = Open /\ Open \subseteq Held
  BY DEF Open
<1> QED BY <1>1 DEF Life, Waits, Queues, Trips

LEMMA NotedStays ==
    ASSUME Inv, NEW c \in Codes, NEW t \in Position, Noted(c, t), Checking(c)
    PROVE  UNCHANGED Book!bookVars
<1>1. /\ pos' = [pos EXCEPT ![c] = t] /\ pos \in [Codes -> Position] /\ queue' = queue
      /\ mode' = mode /\ day' = day /\ phase = "sell" /\ phase' = phase /\ trades' = trades
  BY DEF Noted, Checked, Checking, Inv, TypeOK
<1>2. \A d \in Codes : pos'[d].from = pos[d].from /\ pos'[d].bought = pos[d].bought
  BY <1>1 DEF Noted
<1>3. Held' = Held /\ \A q \in Queues : In(q)' = In(q)
  BY <1>1, <1>2 DEF Held, In
<1>4. Life' = Life /\ Trips' = Trips
  BY <1>1, <1>2, <1>3, SameLife DEF Held
<1> QED BY <1>1, <1>4, SameDay DEF Book!bookVars

LEMMA SoldIsSale ==
    ASSUME Inv, NEW c \in Codes, NEW why \in Scope \cup {"stop"}, Sold(c, why), Checking(c)
    PROVE  Book!Sale(c)
<1>1. /\ pos' = [pos EXCEPT ![c] = NoPosition] /\ pos \in [Codes -> Position]
      /\ queue' = queue /\ mode' = mode /\ day' = day /\ phase = "sell" /\ phase' = phase
      /\ trades' = trades \cup {Closed(c, why)}
  BY DEF Sold, Checked, Checking, Inv, TypeOK
<1>2. c \in Held /\ Open = Held /\ pos[c].bought < day
  BY <1>1, OpenIsHeld DEF Checking, Inv, Passes
<1>3. Held' = Held \ {c} /\ \A d \in Codes : d # c => pos'[d] = pos[d]
  BY <1>1 DEF Held, NoPosition
<1>4. \A q \in Queues : In(q)' = In(q) /\ c \notin In(q)
  BY <1>1, <1>2 DEF In, Inv, Sound, OnePlace, Queues
<1>5. Open' = Open \ {c}
  BY <1>1, <1>2, <1>3 DEF Open, Closed
<1>6. Life[c] = [at |-> "held", from |-> pos[c].from, bought |-> pos[c].bought]
  BY <1>2, WhereItIs
<1>7. Life' = [Life EXCEPT ![c] = Book!Out]
  <2>1. Life'[c] = Book!Out
    BY <1>4, <1>5 DEF Life, Queues, Book!Out
  <2>2. \A d \in Codes : d # c => Life'[d] = Life[d]
    BY <1>1, <1>3, <1>4, <1>5 DEF Life, Waits, Queues
  <2> QED BY <2>1, <2>2, LifeExcept
<1>8. Trips' = Trips \cup {Book!Trip(c)}
  <2> DEFINE Told(t) == [code |-> t.code, from |-> t.from, bought |-> t.bought, sold |-> t.sold]
  <2>1. Told(Closed(c, why)) = Book!Trip(c)
    BY <1>6 DEF Closed, Book!Trip
  <2>2. Trips = {Told(t) : t \in trades} /\ Trips' = {Told(t) : t \in trades'}
    BY DEF Trips
  <2> HIDE DEF Told
  <2> QED BY <1>1, <2>1, <2>2
<1> QED BY <1>1, <1>2, <1>6, <1>7, <1>8, SameDay DEF Book!Sale

LEMMA DropIsForget ==
    ASSUME Inv, NEW c \in Codes, Drop(c)
    PROVE  Book!Forget(c)
<1>1. /\ phase \in Queues /\ phase' = phase /\ day' = day /\ mode' = mode
      /\ trades' = trades /\ pos' = pos /\ c \in todo
      /\ queue' = [queue EXCEPT ![phase][c] = NoEntry]
      /\ queue \in [Queues -> [Codes -> Entry]]
  BY DEF Drop, Trying, Tried, Queues, Inv, TypeOK
<1>2. c \in In(phase) /\ c \notin Held
  BY <1>1, WhereItIs DEF Inv, Passes, QueuePass, Queues
<1>3. \A q \in Queues : c \in In(q) => q = phase
  BY <1>1, <1>2 DEF Inv, Sound, OnePlace, Queues
<1>4. /\ queue'[phase][c] = NoEntry
      /\ \A q \in Queues, d \in Codes : d # c \/ q # phase => queue'[q][d] = queue[q][d]
  BY <1>1
<1>5. /\ Held' = Held /\ Open' = Open
      /\ \A q \in Queues : In(q)' = In(q) \ {c}
  BY <1>1, <1>3, <1>4 DEF Held, Open, In, NoEntry
<1>6. Life[c] = Waits(c, phase)
  BY <1>1, <1>2, WhereItIs
<1>7. Life' = [Life EXCEPT ![c] = Book!Out]
  <2>1. Life'[c] = Book!Out
    BY <1>2, <1>5 DEF Life, Queues, Book!Out, Open
  <2>2. \A d \in Codes : d # c => Life'[d] = Life[d]
    BY <1>1, <1>4, <1>5 DEF Life, Waits, Queues
  <2> QED BY <2>1, <2>2, LifeExcept
<1>8. Trips' = Trips
  BY <1>1 DEF Trips
<1> QED BY <1>1, <1>6, <1>7, <1>8, SameDay DEF Book!Forget, Waits, Queues

LEMMA ReserveStays ==
    ASSUME Inv, NEW c \in Codes, ToReserve(c)
    PROVE  UNCHANGED Book!bookVars
<1>1. /\ phase = "pending" /\ phase' = phase /\ day' = day /\ mode' = mode
      /\ trades' = trades /\ pos' = pos /\ c \notin Held
  BY ReserveShape
<1>2. /\ \A q \in Queues, d \in Codes : d # c => queue'[q][d] = queue[q][d]
      /\ queue["pending"][c].score > 0
      /\ queue'["pending"][c].score = 0 /\ queue'["reserved"][c].score > 0
      /\ queue'["reserved"][c].first = queue["pending"][c].first
  BY ReserveShape DEF NoEntry
<1>3. /\ Held' = Held /\ Open' = Open /\ c \notin Open
      /\ In("pending")' = In("pending") \ {c} /\ In("reserved")' = In("reserved") \cup {c}
      /\ c \in In("pending") /\ c \notin In("reserved")
  BY <1>1, <1>2 DEF Held, Open, In, Queues, Inv, Sound, OnePlace
<1>4. Life' = Life
  <2>1. Life'[c] = Life[c]
    BY <1>2, <1>3 DEF Life, Waits
  <2>2. \A d \in Codes : d # c => Life'[d] = Life[d]
    BY <1>1, <1>2, <1>3 DEF Life, Waits, Queues
  <2>3. \A d \in Codes : Life'[d] = Life[d]
    BY <2>1, <2>2
  <2> HIDE DEF Life
  <2> QED BY <2>3, LifeShape
<1>5. Trips' = Trips
  BY <1>1 DEF Trips
<1> QED BY <1>1, <1>4, <1>5, SameDay DEF Book!bookVars

LEMMA BuyIsPurchase ==
    ASSUME Inv, NEW c \in Codes, Buy(c)
    PROVE  Book!Purchase(c)
<1> DEFINE e == queue[phase][c]
<1>1. /\ phase \in Queues /\ QueuePass /\ phase' = phase /\ day' = day /\ mode' = mode
      /\ trades' = trades /\ c \in todo /\ c \notin Held /\ ~Full
      /\ phase \notin {"flat", "done", "failed"}
      /\ pos' = [pos EXCEPT ![c] = [NoPosition EXCEPT !.bought = day, !.from = e.first]]
      /\ pos \in [Codes -> Position]
      /\ queue' = [queue EXCEPT ![phase][c] = NoEntry]
      /\ queue \in [Queues -> [Codes -> Entry]]
  BY DEF Buy, Trying, Tried, Queues, QueuePass, Inv, TypeOK
<1>2. c \in In(phase) /\ Open = Held
  BY <1>1, OpenIsHeld DEF Inv, Passes
<1>3. /\ e.first < day /\ day <= e.expire /\ day \in Nat /\ e.first \in Nat /\ e.expire \in Nat
      /\ e.expire <= e.first + mode.memory + (IF phase = "reserved" THEN Reserve ELSE 0)
      /\ phase = "reserved" => mode.bounded /\ mode.memory > 0
      /\ \A t \in trades : t.code = c => t.sold <= e.first
      /\ mode.memory \in Nat /\ mode.bounded \in BOOLEAN
  <2>1. e.score > 0
    BY <1>2 DEF In
  <2>2. day <= e.expire
    BY <1>1, QueueTypes DEF Buy, Expired, Inv
  <2> QED BY <1>1, <2>1, <2>2, QueueTypes DEF Waiting, Inv
<1>4. Life[c] = [at |-> "waiting", from |-> e.first, bought |-> 0]
  BY <1>1, <1>2, WhereItIs DEF Waits
<1>5. day <= e.first + Rules.longest
  BY <1>1, <1>3 DEF Rules, Queues
<1>6. Book!Stock("held") \cup {c} \in Rules.books
  <2>1. IsFiniteSet(Held) /\ Cardinality(Held) \in Nat
    BY HeldFinite
  <2>2. Cardinality(Held \cup {c}) = Cardinality(Held) + 1
    BY <1>1, <2>1, FS_AddElement
  <2>3. mode.bounded => Cardinality(Held \cup {c}) <= MaxPositions
    BY <1>1, <2>1, <2>2 DEF Full
  <2>4. Held \cup {c} \in SUBSET Codes
    BY DEF Held
  <2>5. Held \cup {c} \in Rules.books
    BY <2>3, <2>4 DEF Rules
  <2> QED BY <1>2, <2>5, BookHolds
<1>7. /\ pos'[c].bought = day /\ pos'[c].from = e.first
      /\ \A d \in Codes : d # c => pos'[d] = pos[d]
  BY <1>1 DEF NoPosition
<1>8. Held' = Held \cup {c}
  BY <1>1, <1>3, <1>7 DEF Held
<1>9. Open' = Open \cup {c}
  <2>1. \A t \in trades : t.code = c => t.from # e.first
    <3>1. \A t \in trades : t.from \in Nat /\ t.bought \in Nat /\ t.sold \in Nat
      BY DEF Inv, TypeOK, Trade
    <3>2. \A t \in trades : t.from < t.bought /\ t.bought <= t.sold
      BY DEF Inv, Sound, BoughtInTime
    <3> QED BY <1>3, <3>1, <3>2
  <2>2. \A d \in Held' : d \in Open' <=> \A t \in trades : t.code = d => t.from # pos'[d].from
    BY <1>1 DEF Open
  <2>3. ASSUME NEW d \in Held, d # c PROVE d \in Open'
    BY <1>1, <1>2, <1>7, <1>8, <2>3 DEF Open, Held
  <2>4. c \in Open'
    BY <1>7, <1>8, <2>1, <2>2
  <2>5. Open' \subseteq Held'
    BY DEF Open
  <2> QED BY <1>1, <1>2, <1>8, <2>3, <2>4, <2>5
<1>10. Life' = [Life EXCEPT ![c] = [at |-> "held", from |-> e.first, bought |-> day]]
  <2>1. Life'[c] = [at |-> "held", from |-> e.first, bought |-> day]
    BY <1>7, <1>9 DEF Life
  <2>2. \A q \in Queues, d \in Codes : d # c => queue'[q][d] = queue[q][d]
    BY <1>1
  <2>3. \A d \in Codes : d # c => Life'[d] = Life[d]
    BY <1>7, <1>9, <2>2 DEF Life, Waits, In, Queues
  <2> QED BY <2>1, <2>3, LifeExcept
<1>11. Trips' = Trips
  BY <1>1 DEF Trips
<1>12. /\ Rules' = Rules /\ ~(phase \in {"flat", "done", "failed"})
       /\ UNCHANGED (phase \in {"flat", "done", "failed"})
  BY <1>1, SameDay
<1>13. Life[c].at = "waiting" /\ Life[c].from = e.first
  BY <1>4
<1>14. Life' = [Life EXCEPT ![c] = [at |-> "held", from |-> Life[c].from, bought |-> day]]
  BY <1>10, <1>13
<1>15. Life[c].from < day /\ day <= Life[c].from + Rules.longest /\ day' = day
  BY <1>1, <1>3, <1>5, <1>13
<1> QED BY <1>6, <1>11, <1>12, <1>13, <1>14, <1>15 DEF Book!Purchase

\* The day ends: with the signals that changed where a stock is.
LEMMA EveningComes ==
    ASSUME Inv, phase = "scan", EndDay,
           \A c \in Held, q \in Queues : queue'[q][c] = queue[q][c],
           \A c \in Codes, q \in Queues :
               \/ queue'[q][c] = queue[q][c]
               \/ queue'[q][c].score > 0 /\ queue'[q][c].first = day,
           \A c \in Codes : queue'["reserved"][c].score > 0 => queue["reserved"][c].score > 0,
           \A c \in Codes : queue["reserved"][c].score > 0 =>
               queue'["pending"][c] = queue["pending"][c]
    PROVE  \E s \in SUBSET Codes : Book!Evening(s)
<1>1. /\ mode' = mode /\ pos' = pos /\ trades' = trades /\ Held' = Held /\ Open' = Open
      /\ Open = Held
  BY OpenIsHeld DEF EndDay, Held, Open
<1> DEFINE S == {c \in Codes : Life'[c] # Life[c]}
           Today == [at |-> "waiting", from |-> day, bought |-> 0]
<1>2. ASSUME NEW c \in Codes PROVE Life'[c] = Life[c] \/ (c \notin Held /\ Life'[c] = Today)
  <2>1. CASE c \in Held
    BY <1>1, <2>1 DEF Life
  <2>2. CASE c \notin Held /\ queue["reserved"][c].score > 0
    <3>1. c \in In("reserved") /\ c \in In("reserved")'
      BY <2>2 DEF In, Queues
    <3>2. Life[c] = Waits(c, "reserved") /\ Life'[c] = Waits(c, "reserved")'
      BY <1>1, <2>2, <3>1 DEF Life
    <3> QED BY <2>2, <3>2 DEF Waits, Queues
  <2>3. CASE c \notin Held /\ ~(queue["reserved"][c].score > 0)
    <3>1. c \notin In("reserved") /\ c \notin In("reserved")'
      BY <2>3 DEF In
    <3>2. CASE queue'["pending"][c] = queue["pending"][c]
      BY <1>1, <2>3, <3>1, <3>2 DEF Life, Waits, In
    <3>3. CASE queue'["pending"][c].score > 0 /\ queue'["pending"][c].first = day
      BY <1>1, <2>3, <3>1, <3>3 DEF Life, Waits, In
    <3> QED BY <3>2, <3>3 DEF Queues
  <2> QED BY <2>1, <2>2, <2>3
<1>3. S \cap Book!Stock("held") = {}
  BY <1>1, <1>2, BookHolds
<1>4. Life' = [c \in Codes |-> IF c \in S THEN Today ELSE Life[c]]
  <2> DEFINE M == Life'
  <2>1. M = [c \in Codes |-> M[c]]
    BY DEF Life
  <2>2. \A c \in Codes : M[c] = IF c \in S THEN Today ELSE Life[c]
    BY <1>2
  <2> HIDE DEF M, S
  <2>3. M = [c \in Codes |-> IF c \in S THEN Today ELSE Life[c]]
    BY <2>1, <2>2
  <2> QED BY <2>3 DEF M
<1>5. Rules' = Rules /\ Trips' = Trips
  BY <1>1 DEF Rules, Trips
<1>6. IF day = Last
      THEN (phase \in {"flat", "done", "failed"})' = TRUE /\ UNCHANGED day
      ELSE day' = day + 1 /\ UNCHANGED (phase \in {"flat", "done", "failed"})
  BY DEF EndDay
<1> HIDE DEF S
<1>7. Book!Evening(S)
  BY <1>3, <1>4, <1>5, <1>6 DEF Book!Evening
<1> QED BY <1>7 DEF S

LEMMA FlatIsLiquidation ==
    ASSUME Inv, EndFlat
    PROVE  \E s \in SUBSET Codes : Book!Liquidation(s)
<1>1. PICK missing \in SUBSET {c \in Held : pos[c].bought < day} :
         /\ trades' = trades \cup {Closed(c, "flat") : c \in Held \ missing}
         /\ phase' = IF missing = {} THEN "done" ELSE "failed"
         /\ pos' = IF missing = {} THEN [c \in Codes |-> NoPosition] ELSE pos
  BY DEF EndFlat
<1>2. /\ phase = "flat" /\ mode' = mode /\ day' = day /\ queue' = queue /\ Open = Held
      /\ Held \subseteq Codes
  BY OpenIsHeld DEF EndFlat, Held
<1> DEFINE S == Held \ missing
<1>3. Open' = missing
  <2>1. CASE missing = {}
    BY <1>1, <2>1 DEF Open, Held, NoPosition
  <2>2. CASE missing # {}
    <3>1. Held' = Held /\ pos' = pos
      BY <1>1, <2>2 DEF Held
    <3>2. \A c \in missing : \A t \in trades' : t.code = c => t.from # pos[c].from
      BY <1>1, <1>2 DEF Open, Closed
    <3>3. ASSUME NEW c \in S PROVE \E t \in trades' : t.code = c /\ t.from = pos[c].from
      <4>1. Closed(c, "flat").code = c /\ Closed(c, "flat").from = pos[c].from
        BY DEF Closed
      <4>2. Closed(c, "flat") \in trades'
        BY <1>1
      <4> QED BY <4>1, <4>2
    <3> QED BY <1>1, <3>1, <3>2, <3>3 DEF Open
  <2> QED BY <2>1, <2>2
<1>4. \A q \in Queues : In(q)' = In(q) /\ Held \cap In(q) = {}
  BY <1>2 DEF In, Inv, Sound, OnePlace, Queues
<1>5. Life' = [c \in Codes |-> IF c \in S THEN Book!Out ELSE Life[c]]
  <2> DEFINE M == Life'
  <2>1. M = [c \in Codes |-> M[c]]
    BY DEF Life
  <2>2. ASSUME NEW c \in S PROVE M[c] = Book!Out
    BY <1>2, <1>3, <1>4 DEF Life, Queues, Book!Out
  <2>3. ASSUME NEW c \in missing PROVE M[c] = Life[c]
    BY <1>1, <1>2, <1>3 DEF Life
  <2>4. ASSUME NEW c \in Codes \ Held PROVE M[c] = Life[c]
    BY <1>1, <1>2, <1>3, <1>4 DEF Life, Queues, Waits
  <2>5. \A c \in Codes : M[c] = IF c \in S THEN Book!Out ELSE Life[c]
    BY <2>2, <2>3, <2>4
  <2> HIDE DEF M, S
  <2>6. M = [c \in Codes |-> IF c \in S THEN Book!Out ELSE Life[c]]
    BY <2>1, <2>5
  <2> QED BY <2>6 DEF M
<1>6. Trips' = Trips \cup {Book!Trip(c) : c \in S}
  <2> DEFINE Told(t) == [code |-> t.code, from |-> t.from, bought |-> t.bought, sold |-> t.sold]
  <2>1. ASSUME NEW c \in S PROVE Told(Closed(c, "flat")) = Book!Trip(c)
    <3>1. Life[c] = [at |-> "held", from |-> pos[c].from, bought |-> pos[c].bought]
      BY <1>2, WhereItIs
    <3> QED BY <3>1 DEF Closed, Book!Trip
  <2>2. Trips = {Told(t) : t \in trades} /\ Trips' = {Told(t) : t \in trades'}
    BY DEF Trips
  <2> HIDE DEF Told, S
  <2>3. trades' = trades \cup {Closed(c, "flat") : c \in S}
    BY <1>1 DEF S
  <2> QED BY <2>1, <2>2, <2>3
<1>7. Rules' = Rules /\ (phase \in {"flat", "done", "failed"})
      /\ (phase \in {"flat", "done", "failed"})'
  BY <1>1, <1>2 DEF Rules
<1>8. S \subseteq Book!Stock("held") /\ S \in SUBSET Codes
  BY <1>2, BookHolds
<1> HIDE DEF S
<1>9. Book!Liquidation(S)
  BY <1>2, <1>5, <1>6, <1>7, <1>8 DEF Book!Liquidation
<1> QED BY <1>8, <1>9

\* A run implements the book: a stock goes from a signal to a purchase on a later
\* day, while there is room, to a sale on a day after that.
THEOREM RunImplementsTradeBook == Spec => ImplementsTradeBook
<1>1. Init => Book!BookInit
  <2> SUFFICES ASSUME Init PROVE Book!BookInit
    OBVIOUS
  <2>1. Rules \in [books : SUBSET SUBSET Codes, longest : Nat]
    <3>1. mode.memory \in Nat /\ mode.bounded \in BOOLEAN
      BY DEF Init
    <3>2. (IF mode.memory = 0 THEN 0
           ELSE mode.memory + (IF mode.bounded THEN Reserve ELSE 0)) \in Nat
      BY <3>1
    <3> QED BY <3>2 DEF Rules
  <2>2. Open = {} /\ In("reserved") = {} /\ In("pending") = {}
    BY DEF Init, Open, Held, In, NoPosition, NoEntry
  <2>3. Life = [c \in Codes |-> Book!Out]
    BY <2>2 DEF Life, Book!Out
  <2>4. Trips = {} /\ day = 0 /\ (phase \in {"flat", "done", "failed"}) = FALSE
    BY DEF Init, Trips
  <2> QED BY <2>1, <2>3, <2>4 DEF Book!BookInit
<1>2. Inv /\ [Next]_vars => [Book!BookNext]_(Book!bookVars)
  <2> SUFFICES ASSUME Inv, [Next]_vars
               PROVE  Book!BookNext \/ UNCHANGED Book!bookVars
    OBVIOUS
  <2>1. ASSUME NEW c \in Codes, Visit(c)
        PROVE  \/ Book!Forget(c) \/ Book!Purchase(c) \/ Book!Sale(c)
               \/ UNCHANGED Book!bookVars
    <3>1. CASE Unpriced(c) \/ Hold(c) \/ StopExit(c) \/ \E s \in Scope : Grace(c, s) \/ SystemExit(c, s)
      BY <3>1, SellShape, NotedStays, SoldIsSale DEF Scope
    <3>2. CASE Drop(c)
      BY <3>2, DropIsForget
    <3>3. CASE Stay(c)
      <4>1. /\ Life' = Life /\ Trips' = Trips
        BY <3>3, SameLife DEF Stay, Tried, Held, In
      <4> QED BY <3>3, <4>1, SameDay DEF Stay, Trying, Tried, Book!bookVars
    <3>4. CASE ToReserve(c)
      BY <3>4, ReserveStays
    <3>5. CASE Buy(c)
      BY <3>5, BuyIsPurchase
    <3> QED BY <2>1, <3>1, <3>2, <3>3, <3>4, <3>5 DEF Visit
  <2>2. CASE Turn
    <3>1. Life' = Life /\ Trips' = Trips
      BY <2>2, SameLife DEF Turn, Held, In
    <3> QED BY <2>2, <3>1, SameDay DEF Turn, Book!bookVars
  <2>3. CASE Quiet \/ Scan
    <3>1. \E s \in SUBSET Codes : Book!Evening(s)
      <4>1. CASE Quiet
        BY <4>1, EveningComes DEF Quiet
      <4>2. CASE Scan
        BY <4>2, ScanShape, EveningComes
      <4> QED BY <2>3, <4>1, <4>2
    <3> QED BY <3>1 DEF Book!BookNext
  <2>4. CASE EndFlat
    BY <2>4, FlatIsLiquidation DEF Book!BookNext
  <2>5. CASE Finished \/ UNCHANGED vars
    <3>1. Life' = Life /\ Trips' = Trips
      BY <2>5, SameLife DEF Finished, vars, Held, In
    <3> QED BY <2>5, <3>1 DEF Finished, vars, Rules, Book!bookVars
  <2> QED BY <2>1, <2>2, <2>3, <2>4, <2>5 DEF Next, Book!BookNext
<1> QED BY <1>1, <1>2, Invariance, PTL DEF Spec, ImplementsTradeBook, Book!BookSpec

=============================================================================
