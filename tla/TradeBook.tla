------------------------------ MODULE TradeBook ------------------------------
(***************************************************************************)
(* What a backtest promises about its trades: a stock is out, waits on one *)
(* signal or is held; it is bought after the day of the signal, while that *)
(* is remembered and the book has room, and sold on a later day, or at the *)
(* end; and the round trips say so.  Queues, passes and exit signals are   *)
(* not visible here.  Backtest implements it.                              *)
(***************************************************************************)
EXTENDS Naturals

CONSTANTS
    Stocks,
    End         \* the last day

VARIABLES
    rules,      \* books: what may be held at a time; longest: life of a signal
    today,
    over,       \* the last day is over
    life,       \* life[c]: where stock c is, and since when
    past        \* the round trips

bookVars == <<rules, today, over, life, past>>

Out == [at |-> "out", from |-> 0, bought |-> 0]
Stock(place) == {c \in Stocks : life[c].at = place}
Trip(c) == [code |-> c, from |-> life[c].from, bought |-> life[c].bought, sold |-> today]

BookInit ==
    /\ rules \in [books : SUBSET SUBSET Stocks, longest : Nat]
    /\ today = 0 /\ over = FALSE
    /\ life = [c \in Stocks |-> Out]
    /\ past = {}

\* The day ends with signals for stocks that are not held.
Evening(signals) ==
    /\ ~over /\ signals \cap Stock("held") = {}
    /\ life' = [c \in Stocks |-> IF c \in signals
                  THEN [at |-> "waiting", from |-> today, bought |-> 0] ELSE life[c]]
    /\ IF today = End THEN over' = TRUE /\ UNCHANGED today
                      ELSE today' = today + 1 /\ UNCHANGED over
    /\ UNCHANGED <<rules, past>>

Forget(c) ==
    /\ ~over /\ life[c].at = "waiting"
    /\ life' = [life EXCEPT ![c] = Out]
    /\ UNCHANGED <<rules, today, over, past>>

Purchase(c) ==
    /\ ~over /\ life[c].at = "waiting"
    /\ life[c].from < today /\ today <= life[c].from + rules.longest
    /\ Stock("held") \cup {c} \in rules.books
    /\ life' = [life EXCEPT ![c] = [at |-> "held", from |-> @.from, bought |-> today]]
    /\ UNCHANGED <<rules, today, over, past>>

Sale(c) ==
    /\ ~over /\ life[c].at = "held" /\ life[c].bought < today
    /\ life' = [life EXCEPT ![c] = Out]
    /\ past' = past \cup {Trip(c)}
    /\ UNCHANGED <<rules, today, over>>

Liquidation(stocks) ==
    /\ over /\ stocks \subseteq Stock("held")
    /\ life' = [c \in Stocks |-> IF c \in stocks THEN Out ELSE life[c]]
    /\ past' = past \cup {Trip(c) : c \in stocks}
    /\ UNCHANGED <<rules, today, over>>

BookNext ==
    \/ \E c \in Stocks : Forget(c) \/ Purchase(c) \/ Sale(c)
    \/ \E s \in SUBSET Stocks : Evening(s) \/ Liquidation(s)

BookSpec == BookInit /\ [][BookNext]_bookVars
=============================================================================
