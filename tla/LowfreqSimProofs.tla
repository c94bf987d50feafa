--------------------------- MODULE LowfreqSimProofs ---------------------------
(***************************************************************************)
(* Proofs about LowfreqSim: its type invariant; that the books of every    *)
(* snapshot balance, for which sums over finite sets are reasoned about;   *)
(* that no snapshot holds two pending intents for one request; that        *)
(* settled intents are only lost to overlapping or dying requests; that no *)
(* intent falls behind while the job of 09:35 is not missed and finds the  *)
(* next trading date; and that                                             *)
(* shares are sold after the day they were bought on, for any stocks,      *)
(* prices, requests and bounds.                                            *)
(***************************************************************************)
EXTENDS LowfreqSim, TLAPS, FiniteSetTheorems, SequenceTheorems

-----------------------------------------------------------------------------
(* Sums over finite sets. *)

\* g[s] is the sum of f over s, whatever the order in which it is taken.
Sums(g, f, S) ==
    /\ g \in [SUBSET S -> Nat] /\ g[{}] = 0
    /\ \A s \in SUBSET S : \A x \in s : g[s] = f[x] + g[s \ {x}]

\* A set of subsets of a finite set that is not empty has a minimal one.
LEMMA Minimal ==
    ASSUME NEW S, IsFiniteSet(S), NEW T \in SUBSET (SUBSET S), T # {}
    PROVE  \E s \in T : \A x \in s : s \ {x} \notin T
<1>1. IsWellFoundedOn(StrictSubsetOrdering(S), SUBSET S)
  BY FS_StrictSubsetOrderingWellFounded, FS_FiniteSubsetsOfFinite
<1>2. PICK s \in T : \A t \in T : <<t, s>> \notin StrictSubsetOrdering(S)
  <2> DEFINE R == StrictSubsetOrdering(S)
             U == SUBSET S
  <2>1. IsWellFoundedOn(R, U) /\ T \subseteq U
    BY <1>1
  <2> HIDE DEF R, U
  <2>2. \E s \in T : \A t \in T : ~(<<t, s>> \in R)
    BY <2>1, WFMin
  <2> QED BY <2>2 DEF R
<1>3. ASSUME NEW x \in s, s \ {x} \in T PROVE FALSE
  <2>1. s \ {x} \subseteq s /\ s \ {x} # s /\ s \ {x} \in SUBSET S /\ s \in SUBSET S
    BY <1>3
  <2>2. <<s \ {x}, s>> \in StrictSubsetOrdering(S)
    BY <2>1 DEF StrictSubsetOrdering
  <2> QED BY <1>2, <1>3, <2>2
<1> QED BY <1>3

\* The sums over the subsets that have an element a, from those that do not.
LEMMA OneMore ==
    ASSUME NEW f, NEW S, NEW a \in S, \A x \in S : f[x] \in Nat,
           \E g : Sums(g, f, S \ {a})
    PROVE  \E g : Sums(g, f, S)
<1>1. PICK g : Sums(g, f, S \ {a})
  OBVIOUS
<1> DEFINE h == [s \in SUBSET S |-> IF a \in s THEN f[a] + g[s \ {a}] ELSE g[s]]
<1>2. \A s \in SUBSET S : s \ {a} \in SUBSET (S \ {a})
  OBVIOUS
<1>3. \A s \in SUBSET (S \ {a}) : g[s] \in Nat
  BY <1>1 DEF Sums
<1>4. \A s \in SUBSET S : h[s] = (IF a \in s THEN f[a] ELSE 0) + g[s \ {a}]
  <2> TAKE s \in SUBSET S
  <2>1. CASE a \in s
    BY <2>1
  <2>2. CASE a \notin s
    <3>1. s \ {a} = s
      BY <2>2
    <3>2. g[s] \in Nat
      BY <1>2, <1>3, <3>1
    <3>3. h[s] = g[s]
      BY <2>2
    <3> HIDE DEF h
    <3> QED BY <2>2, <3>1, <3>2, <3>3
  <2> QED BY <2>1, <2>2
<1>5. h \in [SUBSET S -> Nat]
  <2>1. \A s \in SUBSET S : h[s] \in Nat
    <3> TAKE s \in SUBSET S
    <3>1. g[s \ {a}] \in Nat /\ (IF a \in s THEN f[a] ELSE 0) \in Nat
      BY <1>2, <1>3
    <3> HIDE DEF h
    <3> QED BY <1>4, <3>1
  <2> QED BY <2>1
<1>6. h[{}] = 0
  <2>1. {} \in SUBSET S /\ g[{}] = 0
    BY <1>1 DEF Sums
  <2> QED BY <2>1
<1>7. ASSUME NEW s \in SUBSET S, NEW x \in s PROVE h[s] = f[x] + h[s \ {x}]
  <2>1. s \ {x} \in SUBSET S
    OBVIOUS
  <2>2. CASE x = a
    <3>1. (s \ {x}) \ {a} = s \ {a} /\ a \notin s \ {x} /\ a \in s
      BY <2>2
    <3>2. g[s \ {a}] \in Nat
      BY <1>2, <1>3
    <3>3. h[s] = f[a] + g[s \ {a}] /\ h[s \ {x}] = g[s \ {x}]
      BY <2>1, <3>1
    <3> QED BY <3>3, <2>2
  <2>3. CASE x # a
    <3> DEFINE r == s \ {a}
               k == IF a \in s THEN f[a] ELSE 0
    <3>1. r \in SUBSET (S \ {a}) /\ x \in r /\ r \ {x} \in SUBSET (S \ {a})
      BY <2>3
    <3>2. g[r] = f[x] + g[r \ {x}] /\ g[r \ {x}] \in Nat
      BY <1>1, <1>3, <3>1 DEF Sums
    <3>3. h[s] = k + g[r]
      BY <1>4
    <3>4. (s \ {x}) \ {a} = r \ {x} /\ (a \in s \ {x} <=> a \in s)
      BY <2>3
    <3>5. h[s \ {x}] = k + g[r \ {x}]
      <4>1. h[s \ {x}] = (IF a \in s \ {x} THEN f[a] ELSE 0) + g[(s \ {x}) \ {a}]
        BY <1>4, <2>1
      <4> QED BY <4>1, <3>4
    <3>6. k \in Nat /\ f[x] \in Nat
      OBVIOUS
    <3>7. f[x] + g[r \ {x}] \in Nat
      BY <1>3, <3>1, <3>2
    <3> HIDE DEF h, r, k
    <3> QED BY <3>2, <3>3, <3>5, <3>6
  <2> QED BY <2>2, <2>3
<1> HIDE DEF h
<1> QED BY <1>5, <1>6, <1>7 DEF Sums

\* Natural numbers have sums over every finite set: a subset that had none would have
\* a minimal one.
LEMMA HasSums ==
    ASSUME NEW S, IsFiniteSet(S), NEW f, \A x \in S : f[x] \in Nat
    PROVE  \E g : Sums(g, f, S)
<1> DEFINE T == {s \in SUBSET S : ~\E g : Sums(g, f, s)}
<1> SUFFICES ASSUME T # {} PROVE FALSE
  OBVIOUS
<1>1. PICK s \in T : \A x \in s : s \ {x} \notin T
  BY Minimal
<1>2. CASE s = {}
  <2> DEFINE g == [t \in SUBSET {} |-> 0]
  <2>1. Sums(g, f, {})
    BY DEF Sums
  <2> QED BY <1>2, <2>1
<1>3. CASE s # {}
  <2>1. PICK a \in s : TRUE
    BY <1>3
  <2>2. \E g : Sums(g, f, s \ {a})
    BY <1>1
  <2>3. \A x \in s : f[x] \in Nat
    OBVIOUS
  <2>4. \E g : Sums(g, f, s)
    BY <2>2, <2>3, OneMore
  <2> QED BY <2>4
<1> QED BY <1>2, <1>3

\* The community modules' sum, which takes the elements in the order of CHOOSE.
LEMMA SumIsSum ==
    ASSUME NEW S, IsFiniteSet(S), NEW f, NEW g, Sums(g, f, S)
    PROVE  SumFunctionOnSet(f, S) = g[S]
<1> DEFINE Step(it) == [s \in SUBSET S |->
                IF s = {} THEN 0
                ELSE f[CHOOSE x \in s : TRUE] + it[s \ {CHOOSE x \in s : TRUE}]]
           it == CHOOSE it : it = Step(it)
<1>1. SumFunctionOnSet(f, S) = it[S]
  BY DEF SumFunctionOnSet, FoldFunctionOnSet, MapThenFoldSet
<1>2. g = Step(g)
  <2>1. \A s \in SUBSET S : g[s] = Step(g)[s]
    <3> TAKE s \in SUBSET S
    <3>1. CASE s = {}
      BY <3>1 DEF Sums
    <3>2. CASE s # {}
      <4>1. (CHOOSE x \in s : TRUE) \in s
        BY <3>2
      <4> QED BY <4>1, <3>2 DEF Sums
    <3> QED BY <3>1, <3>2
  <2>2. g \in [SUBSET S -> Nat]
    BY DEF Sums
  <2> QED BY <2>1, <2>2
<1>3. it = Step(it)
  BY <1>2
<1> HIDE DEF it
<1> DEFINE T == {s \in SUBSET S : it[s] # g[s]}
<1>4. T = {}
  <2> SUFFICES ASSUME T # {} PROVE FALSE
    OBVIOUS
  <2>1. PICK s \in T : \A x \in s : s \ {x} \notin T
    BY Minimal
  <2>2. it[s] = Step(it)[s]
    BY <1>3
  <2>3. CASE s = {}
    BY <2>2, <2>3 DEF Sums
  <2>4. CASE s # {}
    <3>1. PICK x \in s : x = CHOOSE y \in s : TRUE
      BY <2>4
    <3>2. it[s] = f[x] + it[s \ {x}]
      BY <2>2, <2>4, <3>1
    <3>3. it[s \ {x}] = g[s \ {x}]
      BY <2>1
    <3> QED BY <3>2, <3>3 DEF Sums
  <2> QED BY <2>3, <2>4
<1> QED BY <1>1, <1>4

\* The sum is a natural number, and what it is without one of the elements.
LEMMA SumFacts ==
    ASSUME NEW S, IsFiniteSet(S), NEW f, \A x \in S : f[x] \in Nat
    PROVE  /\ SumFunctionOnSet(f, S) \in Nat
           /\ \A x \in S : SumFunctionOnSet(f, S) = f[x] + SumFunctionOnSet(f, S \ {x})
<1>1. PICK g : Sums(g, f, S)
  BY HasSums
<1>2. SumFunctionOnSet(f, S) = g[S] /\ g[S] \in Nat
  <2>1. SumFunctionOnSet(f, S) = g[S]
    BY <1>1, SumIsSum
  <2>2. S \in SUBSET S /\ g \in [SUBSET S -> Nat]
    BY <1>1 DEF Sums
  <2> QED BY <2>1, <2>2
<1>3. ASSUME NEW x \in S PROVE SumFunctionOnSet(f, S) = f[x] + SumFunctionOnSet(f, S \ {x})
  <2> DEFINE R == S \ {x}
             h == [s \in SUBSET R |-> g[s]]
  <2>1. IsFiniteSet(R) /\ R \in SUBSET S /\ SUBSET R \subseteq SUBSET S
    BY FS_Subset
  <2>2. Sums(h, f, R)
    BY <1>1, <2>1 DEF Sums
  <2>3. SumFunctionOnSet(f, R) = g[R]
    BY <2>1, <2>2, SumIsSum
  <2>4. g[S] = f[x] + g[R]
    BY <1>1 DEF Sums
  <2> QED BY <1>2, <2>3, <2>4
<1> QED BY <1>2, <1>3

\* The sum depends on the values over the set only.
LEMMA SumSame ==
    ASSUME NEW S, IsFiniteSet(S), NEW f, NEW e,
           \A x \in S : f[x] \in Nat /\ e[x] = f[x]
    PROVE  SumFunctionOnSet(e, S) = SumFunctionOnSet(f, S)
<1>1. PICK g : Sums(g, f, S)
  BY HasSums
<1>2. Sums(g, e, S)
  BY <1>1 DEF Sums
<1> QED BY <1>1, <1>2, SumIsSum

LEMMA SumEmpty == ASSUME NEW f PROVE SumFunctionOnSet(f, {}) = 0
<1>1. Sums([t \in SUBSET {} |-> 0], f, {})
  BY DEF Sums
<1>2. IsFiniteSet({})
  BY FS_EmptySet
<1> QED BY <1>1, <1>2, SumIsSum

\* The sum over a set with one more element.
LEMMA SumMore ==
    ASSUME NEW S, IsFiniteSet(S), NEW i, i \notin S, NEW T, T = S \cup {i},
           NEW f, NEW e, e[i] \in Nat, \A x \in S : f[x] \in Nat /\ e[x] = f[x]
    PROVE  SumFunctionOnSet(e, T) = SumFunctionOnSet(f, S) + e[i]
<1>1. IsFiniteSet(T) /\ i \in T /\ T \ {i} = S /\ \A x \in T : e[x] \in Nat
  BY FS_AddElement
<1>2. SumFunctionOnSet(e, T) = e[i] + SumFunctionOnSet(e, S)
  BY <1>1, SumFacts
<1>3. SumFunctionOnSet(e, S) = SumFunctionOnSet(f, S)
  BY SumSame
<1>4. SumFunctionOnSet(f, S) \in Nat
  BY SumFacts
<1> QED BY <1>2, <1>3, <1>4

USE SimAssumption DEF SimAssumption

Pending(s, i) == s.intents[i].status = "pending"
Sells(s, i) == Pending(s, i) /\ s.intents[i].kind = "sell"

Unique(s) ==
    \A i, j \in Ids(s) :
        /\ Pending(s, i) /\ Pending(s, j)
        /\ s.intents[i].kind = s.intents[j].kind
        /\ s.intents[i].code = s.intents[j].code
        /\ s.intents[i].asked = s.intents[j].asked
        => i = j

Clean(s) == Unique(s) /\ Balanced(s)
Good(s) == Sound(s) /\ Clean(s)

\* With P the last day whose window is over and T the last day of a purchase: the
\* pending intents are ahead, and a pending sale is the only one of its stock,
\* which is held, and comes after the purchase.
Fine(s, P, T) ==
    /\ \A i \in Ids(s) : Pending(s, i) => s.intents[i].exec > P
    /\ \A i \in Ids(s) : Sells(s, i) =>
            /\ s.held[s.intents[i].code] > 0
            /\ s.intents[i].exec > s.since[s.intents[i].code]
    /\ \A i, j \in Ids(s) :
            Sells(s, i) /\ Sells(s, j) /\ s.intents[i].code = s.intents[j].code => i = j
    /\ \A c \in Codes : s.since[c] <= T

-----------------------------------------------------------------------------
(* The books of a snapshot. *)

\* The intents of a snapshot are numbered, and typed.
LEMMA IntentTypes ==
    ASSUME NEW s \in Snapshot
    PROVE  /\ Len(s.intents) \in Nat
           /\ \A i \in Ids(s) : s.intents[i] \in Intent
           /\ DOMAIN s.intents = Ids(s)
           /\ s.intents \in Seq(Intent)
  BY LenProperties, ElementOfSeq DEF Snapshot, Ids

\* The totals are natural numbers.
LEMMA TradeTypes ==
    ASSUME NEW s \in Snapshot, NEW k, NEW c
    PROVE  /\ IsFiniteSet(Trades(s, k)) /\ IsFiniteSet(TradesOf(s, k, c))
           /\ TradesOf(s, k, c) \subseteq Trades(s, k)
           /\ \A i \in Ids(s) : Worth(s)[i] \in Nat /\ Lots(s)[i] \in Nat
           /\ Value(s, k) \in Nat /\ Volume(s, k, c) \in Nat
<1>1. IsFiniteSet(Ids(s))
  <2>1. 1 \in Int /\ Len(s.intents) \in Int
    BY IntentTypes
  <2>2. IsFiniteSet(1..Len(s.intents))
    BY ONLY <2>1, FS_Interval
  <2> QED BY <2>2 DEF Ids
<1>2. Trades(s, k) \subseteq Ids(s) /\ TradesOf(s, k, c) \subseteq Trades(s, k)
  BY DEF Trades, TradesOf
<1>3. IsFiniteSet(Trades(s, k)) /\ IsFiniteSet(TradesOf(s, k, c))
  BY <1>1, <1>2, FS_Subset
<1>4. \A i \in Ids(s) : s.intents[i].px \in Nat /\ s.intents[i].lots \in Nat
  BY IntentTypes DEF Intent
<1>5. \A i \in Ids(s) : Worth(s)[i] \in Nat /\ Lots(s)[i] \in Nat
  BY <1>4 DEF Worth, Lots
<1>6. Value(s, k) \in Nat
  BY <1>2, <1>3, <1>5, SumFacts DEF Value
<1>7. Volume(s, k, c) \in Nat
  <2>1. \A i \in TradesOf(s, k, c) : Lots(s)[i] \in Nat
    BY <1>2, <1>5
  <2> QED BY <1>3, <2>1, SumFacts DEF Volume
<1> QED BY <1>2, <1>3, <1>5, <1>6, <1>7

\* Whatever becomes of the other intents, the executed ones, the cash and the
\* positions stay.
Traded(s, i) == i \in Ids(s) /\ s.intents[i].status = "executed"
SameTrades(s, t) ==
    /\ t.cash = s.cash /\ t.held = s.held
    /\ \A i \in Ids(s) \cup Ids(t) :
          /\ Traded(s, i) <=> Traded(t, i)
          /\ Traded(s, i) => t.intents[i] = s.intents[i]

LEMMA SameBooks ==
    ASSUME NEW s \in Snapshot, NEW t \in Snapshot, Balanced(s), SameTrades(s, t)
    PROVE  Balanced(t)
<1>1. ASSUME NEW k
      PROVE  /\ Trades(t, k) = Trades(s, k)
             /\ \A i \in Trades(s, k) : Worth(t)[i] = Worth(s)[i] /\ Lots(t)[i] = Lots(s)[i]
             /\ \A i \in Trades(s, k) : t.intents[i] = s.intents[i] /\ i \in Ids(s)
  BY DEF SameTrades, Traded, Trades, Worth, Lots
<1>2. ASSUME NEW k PROVE Value(t, k) = Value(s, k)
  <2>1. \A i \in Trades(s, k) : Worth(s)[i] \in Nat
    BY <1>1, TradeTypes
  <2>2. IsFiniteSet(Trades(s, k))
    BY TradeTypes
  <2>3. SumFunctionOnSet(Worth(t), Trades(s, k)) = SumFunctionOnSet(Worth(s), Trades(s, k))
    BY <1>1, <2>1, <2>2, SumSame
  <2> QED BY <1>1, <2>3 DEF Value
<1>3. ASSUME NEW k, NEW c PROVE Volume(t, k, c) = Volume(s, k, c)
  <2>1. TradesOf(t, k, c) = TradesOf(s, k, c)
    BY <1>1 DEF TradesOf
  <2>2. \A i \in TradesOf(s, k, c) : Lots(s)[i] \in Nat /\ Lots(t)[i] = Lots(s)[i]
    BY <1>1, TradeTypes
  <2>3. IsFiniteSet(TradesOf(s, k, c))
    BY TradeTypes
  <2>4. SumFunctionOnSet(Lots(t), TradesOf(s, k, c)) = SumFunctionOnSet(Lots(s), TradesOf(s, k, c))
    BY <2>2, <2>3, SumSame
  <2> QED BY <2>1, <2>4 DEF Volume
<1> QED BY <1>2, <1>3 DEF Balanced, SameTrades

\* One intent is executed: it enters the totals of its kind and stock, and no others.
Executes(s, t, i) ==
    /\ i \in Ids(s) /\ Ids(t) = Ids(s)
    /\ ~Traded(s, i) /\ Traded(t, i)
    /\ \A j \in Ids(s) : j # i => t.intents[j] = s.intents[j]

LEMMA OneTrade ==
    ASSUME NEW s \in Snapshot, NEW t \in Snapshot, NEW i, Executes(s, t, i), NEW k, NEW c,
           NEW x, x = t.intents[i]
    PROVE  /\ Value(t, k) = Value(s, k) + (IF k = x.kind THEN x.px * x.lots ELSE 0)
           /\ Volume(t, k, c)
                = Volume(s, k, c) + (IF k = x.kind /\ c = x.code THEN x.lots ELSE 0)
<1> USE DEF Executes, Traded
<1>1. i \notin Trades(s, k) /\ i \notin TradesOf(s, k, c)
  BY DEF Trades, TradesOf
<1>2. /\ Trades(t, k) = IF k = x.kind THEN Trades(s, k) \cup {i} ELSE Trades(s, k)
      /\ TradesOf(t, k, c) = IF k = x.kind /\ c = x.code THEN TradesOf(s, k, c) \cup {i}
                             ELSE TradesOf(s, k, c)
  BY DEF Trades, TradesOf
<1>3. /\ \A j \in Trades(s, k) : Worth(s)[j] \in Nat /\ Worth(t)[j] = Worth(s)[j]
      /\ \A j \in TradesOf(s, k, c) : Lots(s)[j] \in Nat /\ Lots(t)[j] = Lots(s)[j]
  <2>1. \A j \in Ids(s) : j # i => Worth(t)[j] = Worth(s)[j] /\ Lots(t)[j] = Lots(s)[j]
    BY DEF Worth, Lots
  <2>2. Trades(s, k) \subseteq Ids(s) /\ TradesOf(s, k, c) \subseteq Ids(s)
    BY DEF Trades, TradesOf
  <2> QED BY <1>1, <2>1, <2>2, TradeTypes
<1>4. /\ Worth(t)[i] = x.px * x.lots /\ Lots(t)[i] = x.lots
      /\ Worth(t)[i] \in Nat /\ Lots(t)[i] \in Nat
  <2>1. Worth(t)[i] = x.px * x.lots /\ Lots(t)[i] = x.lots
    BY DEF Worth, Lots
  <2>2. Worth(t)[i] \in Nat /\ Lots(t)[i] \in Nat
    BY TradeTypes
  <2> QED BY <2>1, <2>2
<1>5. /\ IsFiniteSet(Trades(s, k)) /\ IsFiniteSet(TradesOf(s, k, c))
      /\ Value(s, k) \in Nat /\ Volume(s, k, c) \in Nat
  BY TradeTypes
<1>6. Value(t, k) = Value(s, k) + (IF k = x.kind THEN x.px * x.lots ELSE 0)
  <2>1. CASE k = x.kind
    <3> DEFINE S == Trades(s, k)
               T == S \cup {i}
               f == Worth(s)
               e == Worth(t)
    <3>0. /\ IsFiniteSet(S) /\ i \notin S /\ T = S \cup {i} /\ e[i] \in Nat
          /\ \A j \in S : f[j] \in Nat /\ e[j] = f[j]
      BY <1>1, <1>3, <1>4, <1>5
    <3> HIDE DEF S, T, f, e
    <3>1. SumFunctionOnSet(e, T) = SumFunctionOnSet(f, S) + e[i]
      BY <3>0, SumMore
    <3> USE DEF S, T, f, e
    <3> QED BY <2>1, <3>1, <1>2, <1>4 DEF Value
  <2>2. CASE k # x.kind
    <3>1. SumFunctionOnSet(Worth(t), Trades(s, k)) = SumFunctionOnSet(Worth(s), Trades(s, k))
      BY <1>3, <1>5, SumSame
    <3> QED BY <2>2, <3>1, <1>2, <1>5 DEF Value
  <2> QED BY <2>1, <2>2
<1>7. Volume(t, k, c) = Volume(s, k, c) + (IF k = x.kind /\ c = x.code THEN x.lots ELSE 0)
  <2>1. CASE k = x.kind /\ c = x.code
    <3> DEFINE S == TradesOf(s, k, c)
               T == S \cup {i}
               f == Lots(s)
               e == Lots(t)
    <3>0. /\ IsFiniteSet(S) /\ i \notin S /\ T = S \cup {i} /\ e[i] \in Nat
          /\ \A j \in S : f[j] \in Nat /\ e[j] = f[j]
      BY <1>1, <1>3, <1>4, <1>5
    <3> HIDE DEF S, T, f, e
    <3>1. SumFunctionOnSet(e, T) = SumFunctionOnSet(f, S) + e[i]
      BY <3>0, SumMore
    <3> USE DEF S, T, f, e
    <3> QED BY <2>1, <3>1, <1>2, <1>4 DEF Volume
  <2>2. CASE ~(k = x.kind /\ c = x.code)
    <3>1. SumFunctionOnSet(Lots(t), TradesOf(s, k, c))
          = SumFunctionOnSet(Lots(s), TradesOf(s, k, c))
      BY <1>3, <1>5, SumSame
    <3> QED BY <2>2, <3>1, <1>2, <1>5 DEF Volume
  <2> QED BY <2>1, <2>2
<1> QED BY <1>6, <1>7

\* A purchase of a stock that is not held, and a sale of all that is held, balance.
LEMMA TradeBalances ==
    ASSUME NEW s \in Snapshot, NEW t \in Snapshot, NEW i, Executes(s, t, i),
           NEW x, x = t.intents[i],
           \A e \in Codes : e # x.code => t.held[e] = s.held[e],
           \/ /\ x.kind = "buy" /\ s.held[x.code] = 0 /\ t.held[x.code] = x.lots
              /\ t.cash = s.cash - x.px * x.lots
           \/ /\ x.kind = "sell" /\ s.held[x.code] = x.lots /\ t.held[x.code] = 0
              /\ t.cash = s.cash + x.px * x.lots,
           Balanced(s)
    PROVE  Balanced(t)
<1> DEFINE n == x.lots
           v == x.px * n
           k == x.kind
           c == x.code
<1>1. ASSUME NEW l, NEW e
      PROVE  /\ Value(t, l) = Value(s, l) + (IF l = k THEN v ELSE 0)
             /\ Volume(t, l, e) = Volume(s, l, e) + (IF l = k /\ e = c THEN n ELSE 0)
  BY OneTrade
<1>2. /\ n \in Nat /\ x.px \in Nat /\ c \in Codes /\ s.cash \in Nat
      /\ \A e \in Codes : s.held[e] \in Nat /\ t.held[e] \in Nat
  BY IntentTypes DEF Intent, Snapshot, Executes
<1>3. v \in Nat
  BY <1>2
<1>4. \A l : Value(s, l) \in Nat /\ \A e : Volume(s, l, e) \in Nat
  BY TradeTypes
<1>5. /\ s.cash + Value(s, "buy") = Capital + Value(s, "sell")
      /\ \A e \in Codes : s.held[e] + Volume(s, "sell", e) = Volume(s, "buy", e)
  BY DEF Balanced
<1>6. \/ k = "buy" /\ s.held[c] = 0 /\ t.held[c] = n /\ t.cash = s.cash - v
      \/ k = "sell" /\ s.held[c] = n /\ t.held[c] = 0 /\ t.cash = s.cash + v
  OBVIOUS
<1>9. \A e \in Codes : e # c => t.held[e] = s.held[e]
  OBVIOUS
<1> HIDE DEF v, n, k, c
<1>7. t.cash + Value(t, "buy") = Capital + Value(t, "sell")
  <2>1. /\ Value(t, "buy") = Value(s, "buy") + (IF "buy" = k THEN v ELSE 0)
        /\ Value(t, "sell") = Value(s, "sell") + (IF "sell" = k THEN v ELSE 0)
    BY <1>1
  <2>2. Value(s, "buy") \in Nat /\ Value(s, "sell") \in Nat /\ Capital \in Nat
    BY <1>4
  <2>3. CASE k = "buy"
    BY <2>1, <2>2, <2>3, <1>2, <1>3, <1>5, <1>6
  <2>4. CASE k = "sell"
    <3>1. t.cash = s.cash + v
      BY <1>6, <2>4
    <3>2. Value(t, "buy") = Value(s, "buy") /\ Value(t, "sell") = Value(s, "sell") + v
      BY <2>1, <2>2, <2>4
    <3>3. s.cash \in Nat
      BY <1>2
    <3> QED BY <3>1, <3>2, <3>3, <2>2, <1>3, <1>5
  <2> QED BY <1>6, <2>3, <2>4
<1>8. ASSUME NEW e \in Codes PROVE t.held[e] + Volume(t, "sell", e) = Volume(t, "buy", e)
  <2>1. s.held[e] + Volume(s, "sell", e) = Volume(s, "buy", e)
    BY <1>5
  <2>2. /\ Volume(t, "sell", e) = Volume(s, "sell", e) + (IF "sell" = k /\ e = c THEN n ELSE 0)
        /\ Volume(t, "buy", e) = Volume(s, "buy", e) + (IF "buy" = k /\ e = c THEN n ELSE 0)
    BY <1>1
  <2>5. /\ Volume(s, "sell", e) \in Nat /\ Volume(s, "buy", e) \in Nat
        /\ s.held[e] \in Nat /\ t.held[e] \in Nat
    BY <1>2, <1>4
  <2>3. CASE e = c
    BY <2>1, <2>2, <2>3, <2>5, <1>2, <1>6
  <2>4. CASE e # c
    BY <2>1, <2>2, <2>4, <2>5, <1>9
  <2> QED BY <2>3, <2>4
<1> QED BY <1>7, <1>8 DEF Balanced

-----------------------------------------------------------------------------
(* What the operations do to a snapshot. *)

\* The default state is a sound portfolio without intents.
LEMMA DefaultGood == Good(Default) /\ \A P, T \in Nat : Fine(Default, P, T)
<1>1. Default \in Snapshot /\ Ids(Default) = {} /\ Held(Default) = {}
  <2>1. <<>> \in Seq(Intent) /\ Len(<<>>) = 0
    BY EmptySeq
  <2> QED BY <2>1 DEF Default, Snapshot, Ids, Held
<1>2. Cardinality({}) = 0
  BY FS_EmptySet
<1>5. Balanced(Default)
  <2>1. ASSUME NEW k, NEW c PROVE Value(Default, k) = 0 /\ Volume(Default, k, c) = 0
    <3>1. Trades(Default, k) = {} /\ TradesOf(Default, k, c) = {}
      BY <1>1 DEF Trades, TradesOf
    <3> QED BY <3>1, SumEmpty DEF Value, Volume
  <2>2. Default.cash = Capital /\ \A c \in Codes : Default.held[c] = 0
    BY DEF Default
  <2> QED BY <2>1, <2>2 DEF Balanced
<1>3. Good(Default)
  BY <1>1, <1>2, <1>5 DEF Good, Sound, Clean, Unique
<1>4. \A c \in Codes : Default.since[c] = 0
  BY DEF Default
<1> QED BY <1>1, <1>3, <1>4 DEF Fine

\* Holding on to what is settled is transitive, and reflexive.
LEMMA ExtendsTrans ==
    ASSUME NEW s \in Snapshot, NEW t \in Snapshot, NEW u \in Snapshot,
           Extends(s, t), Extends(t, u)
    PROVE  Extends(s, u)
<1>1. \A i \in Ids(s) : i \in Ids(t) /\ i \in Nat
  BY IntentTypes DEF Extends, Ids
<1>2. ASSUME NEW i \in Ids(s), s.intents[i].status # "pending"
      PROVE  u.intents[i] = s.intents[i]
  BY <1>1, <1>2 DEF Extends
<1>3. Len(s.intents) <= Len(u.intents)
  BY IntentTypes DEF Extends
<1>4. s.abandoned \subseteq u.abandoned
  BY DEF Extends
<1> QED BY <1>2, <1>3, <1>4 DEF Extends

LEMMA ExtendsSelf == ASSUME NEW s \in Snapshot PROVE Extends(s, s)
  BY IntentTypes DEF Extends

\* The other intents stay, and these become settled.
Settles(s, t) ==
    /\ Len(t.intents) = Len(s.intents)
    /\ \A i \in Ids(s) : t.intents[i] = s.intents[i] \/ (Pending(s, i) /\ ~Pending(t, i))
    /\ s.abandoned \subseteq t.abandoned

LEMMA SettlesKeeps ==
    ASSUME NEW s, NEW t, Good(s), Sound(t), Settles(s, t), Balanced(t)
    PROVE  Good(t) /\ Extends(s, t)
<1>1. Ids(t) = Ids(s) /\ s \in Snapshot /\ t \in Snapshot
  BY DEF Settles, Ids, Good, Sound
<1>2. \A i \in Ids(t) : Pending(t, i) => Pending(s, i) /\ t.intents[i] = s.intents[i]
  BY <1>1 DEF Settles, Pending
<1>3. Unique(t)
  BY <1>1, <1>2 DEF Good, Clean, Unique
<1>4. Extends(s, t)
  BY <1>1, IntentTypes DEF Settles, Extends, Pending
<1> QED BY <1>3, <1>4 DEF Good, Clean

\* Settling intents leaves the others on time; so does moving one later.
LEMMA SettlesFine ==
    ASSUME NEW s, NEW t, Good(s), Sound(t), Settles(s, t), NEW P, NEW T,
           t.held = s.held, t.since = s.since, Fine(s, P, T)
    PROVE  Fine(t, P, T)
<1>1. Ids(t) = Ids(s)
  BY DEF Settles, Ids
<1>2. \A i \in Ids(t) : Pending(t, i) => Pending(s, i) /\ t.intents[i] = s.intents[i]
  BY <1>1 DEF Settles, Pending
<1> QED BY <1>1, <1>2 DEF Fine, Sells

\* Some pending intents are moved, never to an earlier day.
Shifts(s, t) ==
    /\ Len(t.intents) = Len(s.intents)
    /\ \A i \in Ids(s) :
          \/ t.intents[i] = s.intents[i]
          \/ /\ Pending(s, i) /\ Pending(t, i)
             /\ t.intents[i].kind = s.intents[i].kind
             /\ t.intents[i].code = s.intents[i].code
             /\ t.intents[i].asked = s.intents[i].asked
             /\ t.intents[i].exec >= s.intents[i].exec
    /\ t.cash = s.cash /\ t.held = s.held /\ t.since = s.since /\ t.abandoned = s.abandoned

LEMMA ShiftsKeeps ==
    ASSUME NEW s, NEW t, Good(s), Sound(t), Shifts(s, t)
    PROVE  Good(t) /\ Extends(s, t)
<1>1. Ids(t) = Ids(s) /\ s \in Snapshot /\ t \in Snapshot
  BY DEF Shifts, Ids, Good, Sound
<1>2. \A i \in Ids(t) :
          /\ Pending(t, i) => Pending(s, i)
          /\ t.intents[i].kind = s.intents[i].kind
          /\ t.intents[i].code = s.intents[i].code
          /\ t.intents[i].asked = s.intents[i].asked
  BY <1>1 DEF Shifts, Pending
<1>3. Unique(t)
  BY <1>1, <1>2 DEF Good, Clean, Unique
<1>4. Extends(s, t)
  BY <1>1, IntentTypes DEF Shifts, Extends, Pending
<1>5. SameTrades(s, t)
  BY <1>1 DEF Shifts, SameTrades, Traded, Pending
<1> QED BY <1>1, <1>3, <1>4, <1>5, SameBooks DEF Good, Clean

LEMMA ShiftsFine ==
    ASSUME NEW s, NEW t, Good(s), Sound(t), Shifts(s, t), NEW P \in Int, NEW T,
           Fine(s, P, T)
    PROVE  Fine(t, P, T)
<1>1. Ids(t) = Ids(s) /\ s \in Snapshot /\ t \in Snapshot
  BY DEF Shifts, Ids, Good, Sound
<1>2. \A i \in Ids(t) :
          /\ s.intents[i].exec \in Nat /\ t.intents[i].exec \in Nat
          /\ s.intents[i].code \in Codes
          /\ s.since[s.intents[i].code] \in Nat
  <2> TAKE i \in Ids(t)
  <2>1. s.intents[i] \in Intent /\ t.intents[i] \in Intent
    BY <1>1, IntentTypes
  <2>2. s.since \in [Codes -> Nat]
    BY <1>1 DEF Snapshot
  <2> QED BY <2>1, <2>2 DEF Intent
<1>3. \A i \in Ids(t) :
          /\ Pending(t, i) => Pending(s, i)
          /\ t.intents[i].kind = s.intents[i].kind
          /\ t.intents[i].code = s.intents[i].code
          /\ t.intents[i].exec >= s.intents[i].exec
  BY <1>1, <1>2 DEF Shifts, Pending
<1>4. \A i \in Ids(t) : Pending(t, i) => t.intents[i].exec > P
  BY <1>1, <1>2, <1>3 DEF Fine
<1>5. \A i \in Ids(t) : Sells(t, i) => Sells(s, i)
  BY <1>3 DEF Sells
<1>6. \A i \in Ids(t) : Sells(t, i) =>
          /\ t.held[t.intents[i].code] > 0
          /\ t.intents[i].exec > t.since[t.intents[i].code]
  <2> SUFFICES ASSUME NEW i \in Ids(t), Sells(t, i)
               PROVE  /\ t.held[t.intents[i].code] > 0
                      /\ t.intents[i].exec > t.since[t.intents[i].code]
    OBVIOUS
  <2>1. s.held[s.intents[i].code] > 0 /\ s.intents[i].exec > s.since[s.intents[i].code]
    BY <1>1, <1>5 DEF Fine
  <2> QED BY <2>1, <1>1, <1>2, <1>3 DEF Shifts
<1>7. \A i, j \in Ids(t) :
          Sells(t, i) /\ Sells(t, j) /\ t.intents[i].code = t.intents[j].code => i = j
  BY <1>1, <1>3, <1>5 DEF Fine
<1> QED BY <1>4, <1>6, <1>7 DEF Fine, Shifts

\* A purchase is paid for out of the cash.
LEMMA AffordableBound ==
    ASSUME NEW c \in Nat, NEW k \in Nat \ {0}, NEW p \in Nat \ {0}
    PROVE  (c \div k) \div p \in Nat /\ ((c \div k) \div p) * p <= c
<1> DEFINE a == c \div k
           n == a \div p
<1>1. a \in Nat /\ a <= c
  <2>1. \A x \in Nat, y \in Nat \ {0} : x \div y \in Nat /\ x \div y <= x
    OBVIOUS
  <2> QED BY <2>1
<1>2. \A x \in Nat, y \in Nat \ {0} : x \div y \in Nat /\ (x \div y) * y <= x
  OBVIOUS
<1>3. n \in Nat /\ n * p <= a
  BY <1>1, <1>2
<1> HIDE DEF a
<1>4. n * p \in Nat
  BY <1>3
<1> QED BY <1>1, <1>3, <1>4 DEF a

\* A snapshot with other intents, and nothing else changed, is sound.
LEMMA WithIntents ==
    ASSUME NEW s, Sound(s), NEW q \in Seq(Intent)
    PROVE  LET t == [s EXCEPT !.intents = q]
           IN  /\ Sound(t) /\ t.intents = q /\ t.cash = s.cash
               /\ t.held = s.held /\ t.since = s.since /\ t.abandoned = s.abandoned
<1> DEFINE t == [s EXCEPT !.intents = q]
<1>1. t \in Snapshot /\ t.intents = q /\ t.cash = s.cash /\ t.held = s.held
      /\ t.since = s.since /\ t.abandoned = s.abandoned
  BY DEF Sound, Snapshot
<1>2. Held(t) = Held(s)
  BY <1>1 DEF Held
<1> QED BY <1>1, <1>2 DEF Sound

\* Replacing one pending intent by a settled one.
LEMMA SettleOne ==
    ASSUME NEW s, Good(s), NEW i \in Ids(s), Pending(s, i),
           NEW it \in Intent, it.status \notin {"pending", "executed"}
    PROVE  LET t == [s EXCEPT !.intents[i] = it]
           IN  Good(t) /\ Extends(s, t)
               /\ \A P, T : Fine(s, P, T) => Fine(t, P, T)
<1> DEFINE q == [s.intents EXCEPT ![i] = it]
           t == [s EXCEPT !.intents = q]
<1>1. s \in Snapshot /\ s.intents \in Seq(Intent) /\ i \in 1..Len(s.intents)
  BY DEF Good, Sound, Snapshot, Ids
<1>2. /\ q \in Seq(Intent) /\ Len(q) = Len(s.intents)
      /\ \A j \in 1..Len(s.intents) : q[j] = IF j = i THEN it ELSE s.intents[j]
  BY <1>1, ExceptSeq
<1>3. Sound(t) /\ t.intents = q /\ t.cash = s.cash /\ t.held = s.held
      /\ t.since = s.since /\ t.abandoned = s.abandoned
  BY <1>2, WithIntents DEF Good
<1>4. Settles(s, t)
  BY <1>2, <1>3 DEF Settles, Ids, Pending
<1>8. Balanced(t)
  <2>1. SameTrades(s, t)
    BY <1>2, <1>3 DEF SameTrades, Traded, Ids, Pending
  <2> QED BY <1>1, <1>3, <2>1, SameBooks DEF Good, Clean, Sound
<1>5. Good(t) /\ Extends(s, t)
  BY <1>3, <1>4, <1>8, SettlesKeeps
<1>6. \A P, T : Fine(s, P, T) => Fine(t, P, T)
  BY <1>3, <1>4, SettlesFine
<1>7. t = [s EXCEPT !.intents[i] = it]
  BY <1>1 DEF Snapshot
<1> QED BY <1>5, <1>6, <1>7

LEMMA OneHeldMore ==
    ASSUME NEW s, NEW t, Sound(s), t \in Snapshot, NEW c \in Codes,
           Slots(s) > 0, s.held[c] = 0,
           \A x \in Codes : x # c => t.held[x] = s.held[x]
    PROVE  Sound(t)
<1>1. Held(t) \subseteq Held(s) \cup {c}
  BY DEF Held
<1>2. IsFiniteSet(Held(s)) /\ c \notin Held(s)
  BY FS_Subset DEF Held
<1>3. /\ IsFiniteSet(Held(s) \cup {c})
      /\ Cardinality(Held(s) \cup {c}) = Cardinality(Held(s)) + 1
  BY <1>2, FS_AddElement
<1>4. Cardinality(Held(t)) <= Cardinality(Held(s)) + 1
  BY <1>1, <1>3, FS_Subset
<1>5. Cardinality(Held(s)) \in Nat /\ Cardinality(Held(t)) \in Nat
  BY <1>1, <1>2, <1>3, FS_Subset, FS_CardinalityType
<1> QED BY <1>4, <1>5 DEF Sound, Slots

LEMMA OneHeldLess ==
    ASSUME NEW s, NEW t, Sound(s), t \in Snapshot, NEW c \in Codes,
           t.held[c] = 0, \A x \in Codes : x # c => t.held[x] = s.held[x]
    PROVE  Sound(t)
<1>1. Held(t) \subseteq Held(s)
  BY DEF Held
<1>2. IsFiniteSet(Held(s))
  BY FS_Subset DEF Held
<1>3. Cardinality(Held(t)) <= Cardinality(Held(s))
  BY <1>1, <1>2, FS_Subset
<1>4. Cardinality(Held(s)) \in Nat /\ Cardinality(Held(t)) \in Nat
  BY <1>1, <1>2, FS_Subset, FS_CardinalityType
<1> QED BY <1>3, <1>4 DEF Sound

\* A purchase on a day not after T.
LEMMA BoughtKeeps ==
    ASSUME NEW s, Good(s), NEW i \in Ids(s), NEW px \in Prices, Pending(s, i),
           s.intents[i].kind = "buy", s.held[s.intents[i].code] = 0, CanBuy(s, px)
    PROVE  LET t == Bought(s, i, px)
           IN  Good(t) /\ Extends(s, t)
               /\ \A P, T \in Int :
                     Fine(s, P, T) /\ s.intents[i].exec <= T => Fine(t, P, T)
<1> DEFINE it == s.intents[i]
           c == it.code
           n == Affordable(s, px)
           x == Executed(it, px, n)
           q == [s.intents EXCEPT ![i] = x]
           t == Bought(s, i, px)
<1>1. s \in Snapshot /\ s.intents \in Seq(Intent) /\ i \in 1..Len(s.intents) /\ Sound(s)
  BY DEF Good, Sound, Snapshot, Ids
<1>2. it \in Intent /\ c \in Codes /\ it.exec \in Nat
  BY <1>1, IntentTypes DEF Intent
<1>3. px \in Nat \ {0} /\ s.cash \in Nat
  BY <1>1 DEF Snapshot
<1>4. n \in Nat /\ n * px <= s.cash
  <2>1. Slots(s) > 0
    BY DEF CanBuy
  <2>2. Slots(s) \in Int
    <3>1. IsFiniteSet(Held(s))
      BY FS_Subset DEF Held
    <3> QED BY <3>1, FS_CardinalityType DEF Slots
  <2> DEFINE k == IF Slots(s) > 1 THEN Slots(s) ELSE 1
  <2>3. k \in Nat \ {0}
    BY <2>1, <2>2
  <2>4. n = (s.cash \div k) \div px
    BY DEF Affordable
  <2> HIDE DEF k
  <2> QED BY <2>3, <2>4, <1>3, AffordableBound
<1>5. s.cash - n * px \in Nat
  <2>1. n * px \in Nat
    BY <1>3, <1>4
  <2> QED BY <2>1, <1>3, <1>4
<1>6. x \in Intent /\ x.status = "executed"
  BY <1>2, <1>3, <1>4 DEF Executed, Intent, Status
<1>7. /\ q \in Seq(Intent) /\ Len(q) = Len(s.intents)
      /\ \A j \in 1..Len(s.intents) : q[j] = IF j = i THEN x ELSE s.intents[j]
  BY <1>1, <1>6, ExceptSeq
<1>8. t = [s EXCEPT !.cash = s.cash - n * px, !.held = [s.held EXCEPT ![c] = n],
                    !.since = [s.since EXCEPT ![c] = it.exec], !.intents = q]
  BY <1>1 DEF Bought, Snapshot
<1> HIDE DEF x, n, it, c
<1>10. s.held \in [Codes -> Nat] /\ s.since \in [Codes -> Nat]
  BY <1>1 DEF Snapshot
<1>9. /\ t \in Snapshot /\ t.intents = q /\ t.held = [s.held EXCEPT ![c] = n]
      /\ t.cash = s.cash - n * px
      /\ t.since = [s.since EXCEPT ![c] = it.exec] /\ t.abandoned = s.abandoned
  <2> DEFINE h == [s.held EXCEPT ![c] = n]
             f == [s.since EXCEPT ![c] = it.exec]
             m == s.cash - n * px
  <2>1. h \in [Codes -> Nat] /\ f \in [Codes -> Nat]
    BY <1>2, <1>4, <1>10
  <2>2. m \in Nat /\ q \in Seq(Intent)
    BY <1>5, <1>7
  <2>3. t = [s EXCEPT !.cash = m, !.held = h, !.since = f, !.intents = q]
    BY <1>8
  <2> HIDE DEF h, f, m, q, t
  <2>4. t \in Snapshot /\ t.intents = q /\ t.cash = m /\ t.held = h /\ t.since = f
        /\ t.abandoned = s.abandoned
    BY <1>1, <2>1, <2>2, <2>3 DEF Snapshot
  <2> QED BY <2>4 DEF h, f, m
<1>11. Sound(t)
  BY <1>1, <1>2, <1>9, <1>10, OneHeldMore DEF CanBuy, c, it
<1>12. Settles(s, t)
  BY <1>6, <1>7, <1>9 DEF Settles, Ids, Pending
<1>15. Balanced(t)
  <2>1. t.intents[i] = x /\ x.kind = "buy" /\ x.code = c /\ x.px = px /\ x.lots = n
    BY <1>1, <1>2, <1>7, <1>9 DEF x, c, it, Executed, Intent
  <2>2. Executes(s, t, i)
    BY <1>6, <1>7, <1>9, <2>1 DEF Executes, Traded, Ids, Pending
  <2>3. s.held[c] = 0 /\ t.held[c] = n /\ \A e \in Codes : e # c => t.held[e] = s.held[e]
    BY <1>2, <1>9, <1>10 DEF c, it
  <2>4. t.cash = s.cash - px * n
    BY <1>3, <1>4, <1>9
  <2>5. t \in Snapshot /\ Balanced(s)
    BY <1>9 DEF Good, Clean
  <2> QED BY ONLY <1>1, <2>1, <2>2, <2>3, <2>4, <2>5, TradeBalances
<1>13. Good(t) /\ Extends(s, t)
  BY <1>11, <1>12, <1>15, SettlesKeeps
<1>14. ASSUME NEW P \in Int, NEW T \in Int, Fine(s, P, T), it.exec <= T
       PROVE  Fine(t, P, T)
  <2>1. \A j \in Ids(t) : j \in Ids(s) /\ (Pending(t, j) => j # i /\ Pending(s, j) /\ t.intents[j] = s.intents[j])
    BY <1>6, <1>7, <1>9 DEF Ids, Pending
  <2>2. \A j \in Ids(s) : s.intents[j].code \in Codes
    BY <1>1, IntentTypes DEF Intent
  <2>3. \A j \in Ids(t) : Sells(t, j) => Sells(s, j) /\ s.intents[j].code # c
    BY <2>1, <1>14 DEF Fine, Sells, c, it
  <2>4. \A j \in Ids(t) : Pending(t, j) => t.intents[j].exec > P
    BY <2>1, <1>14 DEF Fine
  <2>5. \A j \in Ids(t) : Sells(t, j) =>
            /\ t.held[t.intents[j].code] > 0
            /\ t.intents[j].exec > t.since[t.intents[j].code]
    <3> SUFFICES ASSUME NEW j \in Ids(t), Sells(t, j)
                 PROVE  /\ t.held[t.intents[j].code] > 0
                        /\ t.intents[j].exec > t.since[t.intents[j].code]
      OBVIOUS
    <3> DEFINE e == s.intents[j].code
    <3>1. e \in Codes /\ e # c /\ t.intents[j] = s.intents[j] /\ Sells(s, j) /\ j \in Ids(s)
      BY <2>1, <2>2, <2>3 DEF Sells
    <3>2. s.held[e] > 0 /\ s.intents[j].exec > s.since[e]
      BY <3>1, <1>14 DEF Fine
    <3>3. t.held[e] = s.held[e] /\ t.since[e] = s.since[e]
      BY <3>1, <1>9, <1>10
    <3> QED BY <3>1, <3>2, <3>3
  <2>6. \A j, k \in Ids(t) :
            Sells(t, j) /\ Sells(t, k) /\ t.intents[j].code = t.intents[k].code => j = k
    BY <2>1, <2>3, <1>14 DEF Fine, Sells
  <2>7. \A e \in Codes : t.since[e] <= T
    BY <1>9, <1>10, <1>14 DEF Fine
  <2> QED BY <2>4, <2>5, <2>6, <2>7 DEF Fine
<1> QED BY <1>13, <1>14 DEF it

\* A sale.
LEMMA SoldKeeps ==
    ASSUME NEW s, Good(s), NEW i \in Ids(s), NEW px \in Prices, Sells(s, i)
    PROVE  LET t == Sold(s, i, px)
           IN  Good(t) /\ Extends(s, t)
               /\ \A P \in Int, T \in Nat : Fine(s, P, T) => Fine(t, P, T)
<1> DEFINE it == s.intents[i]
           c == it.code
           n == s.held[c]
           x == Executed(it, px, n)
           q == [s.intents EXCEPT ![i] = x]
           t == Sold(s, i, px)
<1>1. s \in Snapshot /\ s.intents \in Seq(Intent) /\ i \in 1..Len(s.intents) /\ Sound(s)
  BY DEF Good, Sound, Snapshot, Ids
<1>2. it \in Intent /\ c \in Codes
  BY <1>1, IntentTypes DEF Intent
<1>3. px \in Nat /\ s.cash \in Nat /\ n \in Nat
  BY <1>1, <1>2 DEF Snapshot
<1>4. n * px \in Nat
  BY <1>3
<1>5. x \in Intent /\ x.status = "executed"
  BY <1>2, <1>3 DEF Executed, Intent, Status
<1>6. /\ q \in Seq(Intent) /\ Len(q) = Len(s.intents)
      /\ \A j \in 1..Len(s.intents) : q[j] = IF j = i THEN x ELSE s.intents[j]
  BY <1>1, <1>5, ExceptSeq
<1>7. t = [s EXCEPT !.cash = s.cash + n * px, !.held = [s.held EXCEPT ![c] = 0],
                    !.since = [s.since EXCEPT ![c] = 0], !.intents = q]
  BY <1>1 DEF Sold, Snapshot
<1> HIDE DEF x, n, it, c
<1>8. s.cash + n * px \in Nat
  BY <1>3, <1>4
<1>10. s.held \in [Codes -> Nat] /\ s.since \in [Codes -> Nat]
  BY <1>1 DEF Snapshot
<1>9. /\ t \in Snapshot /\ t.intents = q /\ t.held = [s.held EXCEPT ![c] = 0]
      /\ t.cash = s.cash + n * px
      /\ t.since = [s.since EXCEPT ![c] = 0] /\ t.abandoned = s.abandoned
  <2> DEFINE h == [s.held EXCEPT ![c] = 0]
             f == [s.since EXCEPT ![c] = 0]
             m == s.cash + n * px
  <2>1. h \in [Codes -> Nat] /\ f \in [Codes -> Nat]
    BY <1>2, <1>10
  <2>2. m \in Nat /\ q \in Seq(Intent)
    BY <1>6, <1>8
  <2>3. t = [s EXCEPT !.cash = m, !.held = h, !.since = f, !.intents = q]
    BY <1>7
  <2> HIDE DEF h, f, m, q, t
  <2>4. t \in Snapshot /\ t.intents = q /\ t.cash = m /\ t.held = h /\ t.since = f
        /\ t.abandoned = s.abandoned
    BY <1>1, <2>1, <2>2, <2>3 DEF Snapshot
  <2> QED BY <2>4 DEF h, f, m
<1>11. Sound(t)
  BY <1>1, <1>2, <1>9, <1>10, OneHeldLess
<1>12. Settles(s, t)
  BY <1>5, <1>6, <1>9 DEF Settles, Ids, Pending, Sells
<1>15. Balanced(t)
  <2>1. t.intents[i] = x /\ x.kind = "sell" /\ x.code = c /\ x.px = px /\ x.lots = n
    BY <1>1, <1>2, <1>6, <1>9 DEF x, c, it, Executed, Intent, Sells
  <2>2. Executes(s, t, i)
    BY <1>5, <1>6, <1>9, <2>1 DEF Executes, Traded, Ids, Pending, Sells
  <2>3. s.held[c] = n /\ t.held[c] = 0 /\ \A e \in Codes : e # c => t.held[e] = s.held[e]
    BY <1>2, <1>9, <1>10 DEF n
  <2>4. t.cash = s.cash + px * n
    BY <1>3, <1>9
  <2>5. t \in Snapshot /\ Balanced(s)
    BY <1>9 DEF Good, Clean
  <2> QED BY ONLY <1>1, <2>1, <2>2, <2>3, <2>4, <2>5, TradeBalances
<1>13. Good(t) /\ Extends(s, t)
  BY <1>11, <1>12, <1>15, SettlesKeeps
<1>14. ASSUME NEW P \in Int, NEW T \in Nat, Fine(s, P, T)
       PROVE  Fine(t, P, T)
  <2>1. \A j \in Ids(t) : j \in Ids(s) /\ (Pending(t, j) => j # i /\ Pending(s, j) /\ t.intents[j] = s.intents[j])
    BY <1>5, <1>6, <1>9 DEF Ids, Pending
  <2>2. \A j \in Ids(s) : s.intents[j].code \in Codes
    BY <1>1, IntentTypes DEF Intent
  <2>3. \A j \in Ids(t) : Sells(t, j) => Sells(s, j) /\ s.intents[j].code # c
    BY <2>1, <1>14 DEF Fine, Sells, c, it
  <2>4. \A j \in Ids(t) : Pending(t, j) => t.intents[j].exec > P
    BY <2>1, <1>14 DEF Fine
  <2>5. \A j \in Ids(t) : Sells(t, j) =>
            /\ t.held[t.intents[j].code] > 0
            /\ t.intents[j].exec > t.since[t.intents[j].code]
    <3> SUFFICES ASSUME NEW j \in Ids(t), Sells(t, j)
                 PROVE  /\ t.held[t.intents[j].code] > 0
                        /\ t.intents[j].exec > t.since[t.intents[j].code]
      OBVIOUS
    <3> DEFINE e == s.intents[j].code
    <3>1. e \in Codes /\ e # c /\ t.intents[j] = s.intents[j] /\ Sells(s, j) /\ j \in Ids(s)
      BY <2>1, <2>2, <2>3 DEF Sells
    <3>2. s.held[e] > 0 /\ s.intents[j].exec > s.since[e]
      BY <3>1, <1>14 DEF Fine
    <3>3. t.held[e] = s.held[e] /\ t.since[e] = s.since[e]
      BY <3>1, <1>9, <1>10
    <3> QED BY <3>1, <3>2, <3>3
  <2>6. \A j, k \in Ids(t) :
            Sells(t, j) /\ Sells(t, k) /\ t.intents[j].code = t.intents[k].code => j = k
    BY <2>1, <2>3, <1>14 DEF Fine, Sells
  <2>7. \A e \in Codes : t.since[e] <= T
    BY <1>9, <1>10, <1>14 DEF Fine
  <2> QED BY <2>4, <2>5, <2>6, <2>7 DEF Fine
<1> QED BY <1>13, <1>14

\* Pending intents asked for on day d are added, none of them for what is asked
\* for already.
NewIds(s, t) == {i \in Ids(t) : i \notin Ids(s)}
Adds(s, t, d) ==
    /\ Len(s.intents) <= Len(t.intents)
    /\ \A i \in Ids(s) : t.intents[i] = s.intents[i]
    /\ \A i \in NewIds(s, t) :
          /\ Pending(t, i) /\ t.intents[i].asked = d /\ t.intents[i].exec = d + 1
          /\ \A j \in Ids(s) :
                /\ Pending(s, j)
                /\ s.intents[j].kind = t.intents[i].kind
                /\ s.intents[j].code = t.intents[i].code
                => s.intents[j].asked # d
    /\ \A i, j \in NewIds(s, t) :
          /\ t.intents[i].kind = t.intents[j].kind
          /\ t.intents[i].code = t.intents[j].code
          => i = j
    /\ t.cash = s.cash /\ t.held = s.held /\ t.since = s.since /\ t.abandoned = s.abandoned

LEMMA AddsKeeps ==
    ASSUME NEW s, NEW t, NEW d, Good(s), Sound(t), Adds(s, t, d)
    PROVE  Good(t) /\ Extends(s, t)
<1>1. s \in Snapshot /\ t \in Snapshot
  BY DEF Good, Sound
<1>2. Ids(s) \subseteq Ids(t)
  BY <1>1, IntentTypes DEF Adds, Ids
<1>3. \A i \in Ids(s) : Pending(t, i) = Pending(s, i) /\ t.intents[i] = s.intents[i]
  BY DEF Adds, Pending
<1>4. ASSUME NEW i \in Ids(t), NEW j \in Ids(t), Pending(t, i), Pending(t, j),
             t.intents[i].kind = t.intents[j].kind,
             t.intents[i].code = t.intents[j].code,
             t.intents[i].asked = t.intents[j].asked
      PROVE  i = j
  <2>1. CASE i \in Ids(s) /\ j \in Ids(s)
    BY <1>3, <1>4, <2>1 DEF Good, Clean, Unique
  <2>2. CASE i \in Ids(s) /\ j \notin Ids(s)
    BY <1>3, <1>4, <2>2 DEF Adds, NewIds
  <2>3. CASE i \notin Ids(s) /\ j \in Ids(s)
    BY <1>3, <1>4, <2>3 DEF Adds, NewIds
  <2>4. CASE i \notin Ids(s) /\ j \notin Ids(s)
    BY <1>4, <2>4 DEF Adds, NewIds
  <2> QED BY <2>1, <2>2, <2>3, <2>4
<1>5. Unique(t)
  BY <1>4 DEF Unique
<1>6. Extends(s, t)
  BY DEF Adds, Extends
<1>7. SameTrades(s, t)
  BY <1>2 DEF Adds, NewIds, SameTrades, Traded, Pending
<1> QED BY <1>1, <1>5, <1>6, <1>7, SameBooks DEF Good, Clean

\* A sale is added only of a stock that is held and has no pending sale.
LEMMA AddsFine ==
    ASSUME NEW s, NEW t, NEW d \in Nat, Good(s), Sound(t), Adds(s, t, d),
           NEW P \in Nat, Fine(s, P, P), d + 1 > P,
           \A i \in NewIds(s, t) : t.intents[i].kind = "sell" =>
              /\ s.held[t.intents[i].code] > 0
              /\ \A j \in Ids(s) : Sells(s, j) => s.intents[j].code # t.intents[i].code
    PROVE  Fine(t, P, P)
<1>1. s \in Snapshot /\ t \in Snapshot
  BY DEF Good, Sound
<1>2. \A i \in Ids(t) : t.intents[i].code \in Codes
  BY <1>1, IntentTypes DEF Intent
<1>3. s.since \in [Codes -> Nat]
  BY <1>1 DEF Snapshot
<1>4. \A i \in Ids(s) : Sells(t, i) = Sells(s, i) /\ t.intents[i] = s.intents[i]
  BY DEF Adds, Sells, Pending
<1>5. \A i \in Ids(t) : Pending(t, i) => t.intents[i].exec > P
  <2> SUFFICES ASSUME NEW i \in Ids(t), Pending(t, i) PROVE t.intents[i].exec > P
    OBVIOUS
  <2>1. CASE i \in Ids(s)
    BY <2>1, <1>4 DEF Fine, Pending
  <2>2. CASE i \in NewIds(s, t)
    BY <2>2 DEF Adds
  <2> QED BY <2>1, <2>2 DEF NewIds
<1>6. \A i \in Ids(t) : Sells(t, i) =>
          /\ t.held[t.intents[i].code] > 0
          /\ t.intents[i].exec > t.since[t.intents[i].code]
  <2> SUFFICES ASSUME NEW i \in Ids(t), Sells(t, i)
               PROVE  /\ t.held[t.intents[i].code] > 0
                      /\ t.intents[i].exec > t.since[t.intents[i].code]
    OBVIOUS
  <2> DEFINE c == t.intents[i].code
  <2>1. CASE i \in Ids(s)
    BY <2>1, <1>4 DEF Fine, Adds
  <2>2. CASE i \in NewIds(s, t)
    <3>1. s.held[c] > 0 /\ t.intents[i].exec = d + 1
      BY <2>2 DEF Adds, Sells
    <3>2. s.since[c] \in Nat /\ s.since[c] <= P
      BY <1>2, <1>3 DEF Fine
    <3>3. t.held = s.held /\ t.since = s.since
      BY DEF Adds
    <3> QED BY <3>1, <3>2, <3>3
  <2> QED BY <2>1, <2>2 DEF NewIds
<1>7. ASSUME NEW i \in Ids(t), NEW j \in Ids(t), Sells(t, i), Sells(t, j),
             t.intents[i].code = t.intents[j].code
      PROVE  i = j
  <2>1. CASE i \in Ids(s) /\ j \in Ids(s)
    BY <1>4, <1>7, <2>1 DEF Fine
  <2>2. CASE i \in Ids(s) /\ j \notin Ids(s)
    BY <1>4, <1>7, <2>2 DEF NewIds, Sells
  <2>3. CASE i \notin Ids(s) /\ j \in Ids(s)
    BY <1>4, <1>7, <2>3 DEF NewIds, Sells
  <2>4. CASE i \notin Ids(s) /\ j \notin Ids(s)
    BY <1>7, <2>4 DEF Adds, NewIds, Sells
  <2> QED BY <2>1, <2>2, <2>3, <2>4
<1>8. \A c \in Codes : t.since[c] <= P
  BY DEF Fine, Adds
<1> QED BY <1>5, <1>6, <1>7, <1>8 DEF Fine

\* A new intent is typed.
LEMMA NewIntentType ==
    ASSUME NEW k \in Kind, NEW c \in Codes, NEW d \in Day
    PROVE  NewIntent(k, c, d) \in Intent
  BY DEF NewIntent, Intent, Status, Day

\* A purchase asked for by hand.
LEMMA AppendAdds ==
    ASSUME NEW s, Good(s), NEW c \in Codes, NEW d \in Day, ~Asked(s, "buy", c, d)
    PROVE  LET t == [s EXCEPT !.intents = Append(@, NewIntent("buy", c, d))]
           IN  Good(t) /\ Extends(s, t)
               /\ \A P \in Nat : Fine(s, P, P) /\ d + 1 > P => Fine(t, P, P)
<1> DEFINE x == NewIntent("buy", c, d)
           q == Append(s.intents, x)
           t == [s EXCEPT !.intents = q]
<1>1. s \in Snapshot /\ s.intents \in Seq(Intent) /\ Len(s.intents) \in Nat /\ d \in Nat
  BY IntentTypes DEF Good, Sound, Day
<1>2. x \in Intent /\ x.kind = "buy" /\ x.code = c /\ x.asked = d /\ x.exec = d + 1
      /\ x.status = "pending"
  BY NewIntentType DEF Kind, NewIntent
<1> HIDE DEF x
<1>3. /\ q \in Seq(Intent) /\ Len(q) = Len(s.intents) + 1
      /\ \A i \in 1..Len(s.intents) : q[i] = s.intents[i]
      /\ q[Len(s.intents) + 1] = x
  BY <1>1, <1>2, AppendProperties
<1>4. Sound(t) /\ t.intents = q /\ t.cash = s.cash /\ t.held = s.held
      /\ t.since = s.since /\ t.abandoned = s.abandoned
  BY <1>3, WithIntents DEF Good
<1>5. \A i \in NewIds(s, t) : i = Len(s.intents) + 1 /\ t.intents[i] = x
  BY <1>1, <1>3, <1>4 DEF NewIds, Ids
<1>6. Adds(s, t, d)
  <2>1. Len(s.intents) <= Len(t.intents) /\ \A i \in Ids(s) : t.intents[i] = s.intents[i]
    BY <1>1, <1>3, <1>4 DEF Ids
  <2>2. \A j \in Ids(s) : Pending(s, j) /\ s.intents[j].kind = "buy" /\ s.intents[j].code = c
                          => s.intents[j].asked # d
    BY DEF Asked, IsPending, Pending
  <2> QED BY <1>2, <1>4, <1>5, <2>1, <2>2 DEF Adds, Pending
<1>7. Good(t) /\ Extends(s, t)
  BY <1>4, <1>6, AddsKeeps
<1> HIDE DEF t
<1>8. \A i \in NewIds(s, t) : t.intents[i].kind # "sell"
  BY <1>2, <1>5
<1>9. \A P \in Nat : Fine(s, P, P) /\ d + 1 > P => Fine(t, P, P)
  BY <1>1, <1>4, <1>6, <1>8, AddsFine
<1> QED BY <1>7, <1>9 DEF t, x

LEMMA FunctionSeq ==
    ASSUME NEW n \in Nat, NEW S, NEW f \in [1..n -> S]
    PROVE  f \in Seq(S) /\ Len(f) = n
<1>1. f \in Seq(S)
  BY SeqDef
<1>2. Len(f) \in Nat /\ 1..n = 1..Len(f)
  BY <1>1, LenProperties
<1> QED BY <1>1, <1>2

\* The intents that are made for an order of a set of stocks.
Made(k, q, d) == [i \in DOMAIN q |-> NewIntent(k, q[i], d)]

LEMMA OrderSeq ==
    ASSUME NEW S, S \subseteq Codes, NEW q \in Orders(S), NEW k \in Kind, NEW d \in Day
    PROVE  LET r == Made(k, q, d)
           IN  /\ r \in Seq(Intent) /\ Len(r) \in Nat
               /\ \A i \in 1..Len(r) :
                     /\ r[i].kind = k /\ r[i].code \in S /\ r[i].status = "pending"
                     /\ r[i].asked = d /\ r[i].exec = d + 1
               /\ \A i, j \in 1..Len(r) : r[i].code = r[j].code => i = j
<1> DEFINE n == Cardinality(S)
           r == Made(k, q, d)
<1>1. n \in Nat
  BY FS_Subset, FS_CardinalityType
<1>2. DOMAIN q = 1..n /\ \A i \in 1..n : q[i] \in S
  BY DEF Orders
<1>3. \A i, j \in 1..n : q[i] = q[j] => i = j
  BY <1>2 DEF Orders
<1>4. r \in [1..n -> Intent]
  BY <1>2, NewIntentType DEF Made
<1>5. r \in Seq(Intent) /\ Len(r) = n
  BY <1>1, <1>4, FunctionSeq
<1>6. \A i \in 1..n : /\ r[i].kind = k /\ r[i].code = q[i] /\ r[i].status = "pending"
                      /\ r[i].asked = d /\ r[i].exec = d + 1
  BY <1>2 DEF NewIntent, Made
<1> QED BY <1>1, <1>2, <1>3, <1>5, <1>6

\* What the generation of a day's intents does: sales of stocks without one, and
\* purchases.
LEMMA GeneratedKeeps ==
    ASSUME NEW s, Good(s), NEW d \in Day,
           NEW S, S \subseteq Codes, NEW B, B \subseteq Codes,
           NEW sq \in Orders(S), NEW bq \in Orders(B),
           \A c \in S : ~Asked(s, "sell", c, d),
           \A c \in B : ~Asked(s, "buy", c, d),
           NEW m \in [Codes -> Nat], NEW l \in 0..LastDay
    PROVE  LET t == [s EXCEPT
                        !.intents = @ \o Made("sell", sq, d) \o Made("buy", bq, d),
                        !.memory = m, !.last = l]
           IN  /\ Good(t) /\ Extends(s, t)
               /\ \A P \in Nat :
                     /\ Fine(s, P, P) /\ d + 1 > P
                     /\ \A c \in S : d <= P /\ s.held[c] > 0 /\ ~Blocked(s, "sell", c, d)
                     => Fine(t, P, P)
<1> DEFINE x == Made("sell", sq, d)
           y == Made("buy", bq, d)
           n == Len(s.intents)
           q == s.intents \o x \o y
           t == [s EXCEPT !.intents = q, !.memory = m, !.last = l]
<1>1. s \in Snapshot /\ s.intents \in Seq(Intent) /\ n \in Nat /\ d \in Nat
      /\ \A i \in Ids(s) : s.intents[i] \in Intent
  BY IntentTypes DEF Good, Sound, Day
<1>2. /\ x \in Seq(Intent) /\ Len(x) \in Nat
      /\ \A i \in 1..Len(x) : /\ x[i].kind = "sell" /\ x[i].code \in S
                              /\ x[i].status = "pending"
                              /\ x[i].asked = d /\ x[i].exec = d + 1
      /\ \A i, j \in 1..Len(x) : x[i].code = x[j].code => i = j
  <2>1. "sell" \in Kind
    BY DEF Kind
  <2> QED BY <2>1, OrderSeq
<1>3. /\ y \in Seq(Intent) /\ Len(y) \in Nat
      /\ \A i \in 1..Len(y) : /\ y[i].kind = "buy" /\ y[i].code \in B
                              /\ y[i].status = "pending"
                              /\ y[i].asked = d /\ y[i].exec = d + 1
      /\ \A i, j \in 1..Len(y) : y[i].code = y[j].code => i = j
  <2>1. "buy" \in Kind
    BY DEF Kind
  <2> QED BY <2>1, OrderSeq
<1> DEFINE t0 == [s EXCEPT !.intents = q]
<1>0. t = [t0 EXCEPT !.memory = m, !.last = l]
  BY <1>1 DEF Snapshot
<1> HIDE DEF x, y, t0, t
<1>4. /\ s.intents \o x \in Seq(Intent) /\ Len(s.intents \o x) = n + Len(x)
      /\ \A i \in 1..n : (s.intents \o x)[i] = s.intents[i]
      /\ \A i \in 1..Len(x) : (s.intents \o x)[n + i] = x[i]
  BY <1>1, <1>2, ConcatProperties
<1>5. /\ q \in Seq(Intent) /\ Len(q) = n + Len(x) + Len(y)
      /\ \A i \in 1..(n + Len(x)) : q[i] = (s.intents \o x)[i]
      /\ \A i \in 1..Len(y) : q[n + Len(x) + i] = y[i]
  BY <1>1, <1>2, <1>3, <1>4, ConcatProperties
<1>6. /\ \A i \in 1..n : q[i] = s.intents[i]
      /\ \A i \in (n + 1)..Len(q) :
            \/ i - n \in 1..Len(x) /\ q[i] = x[i - n]
            \/ i - n - Len(x) \in 1..Len(y) /\ q[i] = y[i - n - Len(x)]
  <2>1. \A i \in 1..n : q[i] = s.intents[i]
    BY <1>1, <1>2, <1>4, <1>5
  <2>2. ASSUME NEW i \in (n + 1)..(n + Len(x))
        PROVE  i - n \in 1..Len(x) /\ q[i] = x[i - n]
    <3>1. i - n \in 1..Len(x) /\ n + (i - n) = i /\ i \in 1..(n + Len(x))
      BY <1>1, <1>2
    <3> QED BY <3>1, <1>4, <1>5
  <2>3. ASSUME NEW i \in (n + Len(x) + 1)..Len(q)
        PROVE  i - n - Len(x) \in 1..Len(y) /\ q[i] = y[i - n - Len(x)]
    <3> DEFINE a == Len(x)
               b == Len(y)
    <3>0. /\ n \in Nat /\ a \in Nat /\ b \in Nat
          /\ i \in (n + a + 1)..(n + a + b)
      BY <1>1, <1>2, <1>3, <1>5
    <3> HIDE DEF n, a, b, q
    <3>1. i - n - a \in 1..b /\ n + a + (i - n - a) = i
      BY <3>0
    <3> QED BY <3>1, <1>5 DEF a, b, n
  <2>4. (n + 1)..Len(q) = ((n + 1)..(n + Len(x))) \cup ((n + Len(x) + 1)..Len(q))
    BY <1>1, <1>2, <1>3, <1>5
  <2> QED BY <2>1, <2>2, <2>3, <2>4
<1>7. /\ Sound(t0) /\ t0.intents = q /\ t0.cash = s.cash /\ t0.held = s.held /\ t0.since = s.since
      /\ t0.abandoned = s.abandoned
  <2> HIDE DEF q
  <2> QED BY <1>5, WithIntents DEF Good, t0
<1>8. /\ Sound(t) /\ t.intents = q /\ t.cash = s.cash /\ t.held = s.held /\ t.since = s.since
      /\ t.abandoned = s.abandoned
  <2> HIDE DEF q
  <2>1. /\ t \in Snapshot /\ t.intents = q /\ t.cash = s.cash /\ t.held = s.held
        /\ t.since = s.since /\ t.abandoned = s.abandoned
    BY <1>0, <1>7 DEF Sound, Snapshot
  <2>2. Held(t) = Held(t0)
    BY <1>7, <2>1 DEF Held
  <2> QED BY <1>7, <2>1, <2>2 DEF Sound
<1> HIDE DEF q
<1>9. \A i \in NewIds(s, t) :
         /\ i \in (n + 1)..Len(q)
         /\ \/ i - n \in 1..Len(x) /\ t.intents[i] = x[i - n]
            \/ i - n - Len(x) \in 1..Len(y) /\ t.intents[i] = y[i - n - Len(x)]
  <2>1. \A i \in NewIds(s, t) : i \in (n + 1)..Len(q)
    BY <1>1, <1>2, <1>3, <1>5, <1>8 DEF NewIds, Ids
  <2> QED BY <2>1, <1>6, <1>8
<1>10. \A i \in NewIds(s, t) :
         /\ t.intents[i].asked = d /\ t.intents[i].exec = d + 1 /\ Pending(t, i)
         /\ \/ /\ t.intents[i].kind = "sell" /\ t.intents[i].code \in S
               /\ t.intents[i] = x[i - n] /\ i - n \in 1..Len(x)
            \/ /\ t.intents[i].kind = "buy" /\ t.intents[i].code \in B
               /\ t.intents[i] = y[i - n - Len(x)] /\ i - n - Len(x) \in 1..Len(y)
  <2> TAKE i \in NewIds(s, t)
  <2>1. CASE i - n \in 1..Len(x) /\ t.intents[i] = x[i - n]
    BY <1>2, <2>1 DEF Pending
  <2>2. CASE i - n - Len(x) \in 1..Len(y) /\ t.intents[i] = y[i - n - Len(x)]
    BY <1>3, <2>2 DEF Pending
  <2> QED BY <1>9, <2>1, <2>2
<1>11. Adds(s, t, d)
  <2>1. Len(s.intents) <= Len(t.intents)
    BY <1>1, <1>2, <1>3, <1>5, <1>8
  <2>2. \A i \in Ids(s) : t.intents[i] = s.intents[i]
    BY <1>6, <1>8 DEF Ids
  <2>3. ASSUME NEW i \in NewIds(s, t), NEW j \in Ids(s), Pending(s, j),
               s.intents[j].kind = t.intents[i].kind,
               s.intents[j].code = t.intents[i].code
        PROVE  s.intents[j].asked # d
    BY <2>3, <1>10 DEF Asked, IsPending, Pending
  <2>4. ASSUME NEW i \in NewIds(s, t), NEW j \in NewIds(s, t),
               t.intents[i].kind = t.intents[j].kind,
               t.intents[i].code = t.intents[j].code
        PROVE  i = j
    <3>1. i \in Int /\ j \in Int
      BY <1>9, <1>1, <1>2, <1>3, <1>5
    <3>2. CASE t.intents[i].kind = "sell"
      <4>1. /\ t.intents[i] = x[i - n] /\ i - n \in 1..Len(x)
            /\ t.intents[j] = x[j - n] /\ j - n \in 1..Len(x)
        BY <1>10, <2>4, <3>2
      <4>2. i - n = j - n
        BY <1>2, <2>4, <4>1
      <4> QED BY <3>1, <4>2, <1>1
    <3>3. CASE t.intents[i].kind # "sell"
      <4>1. /\ t.intents[i] = y[i - n - Len(x)] /\ i - n - Len(x) \in 1..Len(y)
            /\ t.intents[j] = y[j - n - Len(x)] /\ j - n - Len(x) \in 1..Len(y)
        BY <1>10, <2>4, <3>3
      <4>2. i - n - Len(x) = j - n - Len(x)
        BY <1>3, <2>4, <4>1
      <4> QED BY <3>1, <4>2, <1>1, <1>2
    <3> QED BY <3>2, <3>3
  <2> QED BY <1>8, <1>10, <2>1, <2>2, <2>3, <2>4 DEF Adds
<1>12. Good(t) /\ Extends(s, t)
  BY <1>8, <1>11, AddsKeeps
<1>13. ASSUME NEW P \in Nat, Fine(s, P, P), d + 1 > P,
              \A c \in S : d <= P /\ s.held[c] > 0 /\ ~Blocked(s, "sell", c, d)
       PROVE  Fine(t, P, P)
  <2>1. ASSUME NEW i \in NewIds(s, t), t.intents[i].kind = "sell"
        PROVE  /\ s.held[t.intents[i].code] > 0
               /\ \A j \in Ids(s) : Sells(s, j) => s.intents[j].code # t.intents[i].code
    <3>1. t.intents[i].code \in S
      BY <1>10, <2>1
    <3>2. ASSUME NEW j \in Ids(s), Sells(s, j), s.intents[j].code = t.intents[i].code
          PROVE  FALSE
      <4>1. s.intents[j].exec \in Nat /\ s.intents[j].exec > P
        BY <3>2, <1>1, <1>13 DEF Fine, Sells, Intent
      <4>2. d <= P /\ ~Blocked(s, "sell", t.intents[i].code, d)
        BY <3>1, <1>13
      <4>3. s.intents[j].exec >= d + 1
        BY <4>1, <4>2, <1>1
      <4> QED BY <4>2, <4>3, <3>2 DEF Blocked, IsPending, Sells, Pending
    <3> QED BY <3>1, <3>2, <1>13
  <2> QED BY <2>1, <1>1, <1>8, <1>11, <1>13, AddsFine
<1> QED BY <1>12, <1>13 DEF t, q, x, y

-----------------------------------------------------------------------------
(* The inductive invariant. *)

\* What is due is ahead of the job, or had to wait without a date.
Ahead(r) ==
    \A i \in DueOn(r.snap, Today) : "undated" \in blame \/ (r.phase = "execute" /\ i > r.at)
\* The job of 09:35 works on the morning of its day, and leaves nothing else due.
Fits(r) ==
    r.phase # "idle" =>
        /\ r.phase = "execute" => r.kind \in Job
        /\ r.kind \in Job =>
              r.phase # "generate" /\ r.day = Today /\ ~Done(Today) /\ Ahead(r)

\* Without overlaps, one request is under way at a time, ...
Alone ==
    /\ \A p, q \in Request : Busy(p) /\ Busy(q) => p = q
    /\ \A p \in Request : ~req[p].mixed

\* ... the file parses outside its write, and the request only adds to it, ...
Kept ==
    /\ torn => \E p \in Request : req[p].phase = "writing"
    /\ \A p \in Request : Busy(p) => Extends(file, req[p].snap)

\* ... and what is pending is ahead; the job buys on the day it works on.
BuysUntil(r) == IF r.kind \in Job THEN Today ELSE Passed
OnTime ==
    /\ Fine(file, Passed, Passed)
    /\ \A p \in Request : Busy(p) => Fine(req[p].snap, Passed, BuysUntil(req[p]))

Inv ==
    /\ TypeOK
    /\ Clean(file)
    /\ \A p \in Request : Clean(req[p].snap) /\ Fits(req[p])
    /\ overlaps = 0 => Alone
    /\ overlaps = 0 /\ "torn" \notin blame => Kept
    /\ overlaps = 0 /\ blame = {} => OnTime

LEMMA DayFacts ==
    ASSUME TypeOK
    PROVE  /\ Today \in Day /\ Passed \in Nat /\ Today <= Passed + 1 /\ Passed <= Today
           /\ \A d \in Nat : Done(d) => d <= Passed
<1>1. now \in Nat /\ now >= 1 /\ now <= 2 * LastDay - 1 /\ LastDay \in Nat
  BY DEF TypeOK
<1>2. PICK e \in Nat : now = 2 * e \/ now = 2 * e - 1
  <2>1. now = 2 * (now \div 2) \/ now = 2 * (now \div 2 + 1) - 1
    BY <1>1
  <2>2. now \div 2 \in Nat /\ now \div 2 + 1 \in Nat
    BY <1>1
  <2> QED BY <2>1, <2>2
<1>3. Today = e
  BY <1>1, <1>2 DEF Today
<1>4. e >= 1 /\ e <= LastDay
  BY <1>1, <1>2
<1>5. Done(Today) <=> now = 2 * e
  BY <1>1, <1>2, <1>3 DEF Done
<1>6. \A d \in Nat : Done(d) => d <= Passed
  <2> SUFFICES ASSUME NEW d \in Nat, Done(d) PROVE d <= Passed
    OBVIOUS
  <2>1. CASE now = 2 * e
    BY <2>1, <1>3, <1>5, <1>1 DEF Passed, Done
  <2>2. CASE now = 2 * e - 1
    <3>1. d <= e - 1
      BY <2>2, <1>1 DEF Done
    <3>2. Passed \in {e, e - 1}
      BY <1>3 DEF Passed
    <3> QED BY <3>1, <3>2
  <2> QED BY <1>2, <2>1, <2>2
<1> QED BY <1>3, <1>4, <1>6 DEF Passed, Day

LEMMA SameDay ==
    ASSUME UNCHANGED <<now, ran>>
    PROVE  /\ Today' = Today /\ Passed' = Passed
           /\ \A d : Done(d)' = Done(d)
  BY DEF Today, Passed, Done

LEMMA LoadedGood == ASSUME Inv PROVE Good(Loaded) /\ Good(file)
  BY DefaultGood DEF Inv, TypeOK, Loaded, Good

LEMMA IdleFits == Idle \in Local /\ Good(Idle.snap) /\ ~Idle.mixed /\ Idle.phase = "idle"
<1>1. Default \in Snapshot
  BY DefaultGood DEF Good, Sound
<1> QED BY <1>1, DefaultGood DEF Idle, Local, Phase, Day, Kinds

\* The initial state.
LEMMA InitInv == Init => Inv
<1> SUFFICES ASSUME Init PROVE Inv
  OBVIOUS
<1>1. Today = 1 /\ ~Done(Today) /\ Passed = 0
  BY DEF Init, Today, Done, Passed
<1>2. Good(file) /\ Fine(file, 0, 0)
  BY DefaultGood DEF Init
<1>3. \A p \in Request : req[p] = Idle
  BY DEF Init
<1>4. TypeOK
  <2>1. req \in [Request -> Local]
    BY IdleFits DEF Init
  <2>2. now \in 1..(2 * LastDay - 1)
    BY DEF Init
  <2>3. Sound(file) /\ \A p \in Request : Sound(req[p].snap)
    BY <1>2, <1>3, IdleFits DEF Good
  <2>4. ran \in BOOLEAN /\ torn \in BOOLEAN /\ blame \subseteq {"torn", "missed", "late", "undated"}
    BY DEF Init
  <2>5. count \in 0..MaxRequests /\ overlaps \in 0..MaxOverlaps
    BY DEF Init
  <2> QED BY <2>1, <2>2, <2>3, <2>4, <2>5 DEF TypeOK
<1>5. \A p \in Request : Clean(req[p].snap) /\ Fits(req[p]) /\ ~Busy(p) /\ ~req[p].mixed
  BY <1>3, IdleFits DEF Good, Fits, Busy
<1>6. Alone /\ Kept /\ OnTime
  <2>1. ~torn
    BY DEF Init
  <2> QED BY <1>1, <1>2, <1>5, <2>1 DEF Alone, Kept, OnTime
<1> QED BY <1>2, <1>4, <1>5, <1>6 DEF Inv, Good

-----------------------------------------------------------------------------
(* A request begins. *)

\* With no overlap and no loss, what a request loads is the file.
LEMMA LoadsFile ==
    ASSUME Inv, NEW p, NEW phase, NEW s, NEW kind, NEW day, NEW until,
           Begin(p, phase, s, kind, day, until), overlaps' = 0, "torn" \notin blame'
    PROVE  /\ \A q \in Request : ~Busy(q)
           /\ overlaps = 0 /\ "torn" \notin blame /\ Kept /\ ~torn /\ Loaded = file
<1>1. overlaps \in Nat
  BY DEF Inv, TypeOK
<1>2. overlaps = 0 /\ \A q \in Request : ~Busy(q)
  BY <1>1 DEF Begin
<1>3. "torn" \notin blame
  BY DEF Begin
<1>4. Kept
  BY <1>2, <1>3 DEF Inv
<1>5. ~torn
  BY <1>2, <1>4 DEF Kept, Busy
<1> QED BY <1>2, <1>3, <1>4, <1>5 DEF Loaded

LEMMA BeginInv ==
    ASSUME Inv, NEW p \in Request, NEW phase \in {"execute", "generate", "ready"}, NEW s,
           NEW kind \in Kinds, NEW day \in Day, NEW until \in Day,
           Begin(p, phase, s, kind, day, until),
           Good(s), Extends(Loaded, s),
           phase = "execute" <=> kind \in Job,
           kind \in Job => day = Today /\ ~Done(Today),
           blame' = {} /\ Fine(Loaded, Passed, Passed) =>
              Fine(s, Passed, IF kind \in Job THEN Today ELSE Passed)
    PROVE  Inv'
<1> DEFINE r == [phase |-> phase, snap |-> s, kind |-> kind,
                 day |-> day, until |-> until, at |-> 0, mixed |-> FALSE]
<1>1. r \in Local
  BY DEF Local, Phase, Good, Sound
<1>2. /\ req \in [Request -> Local] /\ req' = [req EXCEPT ![p] = r]
      /\ UNCHANGED <<now, ran, file, torn>>
  BY DEF Begin, Inv, TypeOK
<1>3. /\ req'[p] = r
      /\ \A q \in Request : q # p => req'[q] = req[q]
  BY <1>2
<1>4. TypeOK'
  <2>1. req' \in [Request -> Local]
    BY <1>1, <1>2
  <2>2. \A q \in Request : Sound(req[q].snap)'
    BY <1>3 DEF Inv, TypeOK, Good
  <2>3. count' \in 0..MaxRequests /\ overlaps' \in 0..MaxOverlaps
    BY DEF Begin, Inv, TypeOK
  <2>4. blame' \subseteq {"torn", "missed", "late", "undated"}
    BY DEF Begin, Inv, TypeOK
  <2>5. Sound(file)' /\ now' \in 1..(2 * LastDay - 1) /\ ran' \in BOOLEAN /\ torn' \in BOOLEAN
    BY <1>2 DEF Inv, TypeOK
  <2> QED BY <2>1, <2>2, <2>3, <2>4, <2>5 DEF TypeOK
<1>5. Clean(file)' /\ \A q \in Request : Clean(req[q].snap)'
  BY <1>2, <1>3 DEF Inv, Good
<1>6. \A q \in Request : Fits(req[q])'
  <2> TAKE q \in Request
  <2>1. Today' = Today /\ Done(Today)' = Done(Today)
    BY <1>2, SameDay DEF Done, Today
  <2>2. CASE q = p
    <3>1. /\ req'[q].phase = phase /\ req'[q].kind = kind /\ req'[q].day = day
          /\ req'[q].at = 0
      BY <1>3, <2>2
    <3>2. \A i \in DueOn(req'[q].snap, Today') : i > 0
      BY DEF DueOn, Ids
    <3>3. kind \in Job => Ahead(req[q])'
      BY <3>1, <3>2 DEF Ahead
    <3> QED BY <2>1, <3>1, <3>3 DEF Fits
  <2>3. CASE q # p
    <3>1. Fits(req[q]) /\ req'[q] = req[q] /\ blame \subseteq blame'
      BY <1>3, <2>3 DEF Inv, Begin
    <3> QED BY <2>1, <3>1 DEF Fits, Ahead
  <2> QED BY <2>2, <2>3
<1>7. ASSUME overlaps' = 0 PROVE Alone'
  <2>1. overlaps = 0 /\ \A q \in Request : ~Busy(q)
    BY <1>7 DEF Begin, Inv, TypeOK
  <2>2. Alone
    BY <2>1 DEF Inv
  <2> QED BY <1>3, <2>1, <2>2 DEF Alone, Busy
<1>8. ASSUME overlaps' = 0, "torn" \notin blame' PROVE Kept'
  <2>1. Kept /\ ~torn /\ Loaded = file /\ \A q \in Request : ~Busy(q)
    BY <1>8, LoadsFile
  <2> QED BY <1>2, <1>3, <2>1 DEF Kept, Busy
<1>9. ASSUME overlaps' = 0, blame' = {} PROVE OnTime'
  <2>1. Loaded = file /\ overlaps = 0 /\ \A q \in Request : ~Busy(q)
    BY <1>9, LoadsFile
  <2>2. blame = {}
    BY <1>9 DEF Begin
  <2>3. Fine(file, Passed, Passed)
    BY <2>1, <2>2 DEF Inv, OnTime
  <2>4. Fine(s, Passed, IF kind \in Job THEN Today ELSE Passed)
    BY <1>9, <2>1, <2>3
  <2>5. Today' = Today /\ Passed' = Passed
    BY <1>2, SameDay
  <2>6. Fine(file', Passed', Passed')
    BY <1>2, <2>3, <2>5
  <2>7. ASSUME NEW q \in Request, Busy(q)' PROVE Fine(req'[q].snap, Passed', BuysUntil(req[q])')
    <3>1. q = p
      BY <1>3, <2>1, <2>7 DEF Busy
    <3>2. req'[q].snap = s /\ req'[q].kind = kind
      BY <1>3, <3>1
    <3> QED BY <2>4, <2>5, <3>2 DEF BuysUntil
  <2> QED BY <2>6, <2>7 DEF OnTime
<1> QED BY <1>4, <1>5, <1>6, <1>7, <1>8, <1>9 DEF Inv

\* Requests that are ready at once.
LEMMA ReadyInv ==
    ASSUME Inv, NEW p \in Request, NEW s, Ready(p, s), Good(s), Extends(Loaded, s),
           blame' = {} /\ Fine(Loaded, Passed, Passed) => Fine(s, Passed, Passed)
    PROVE  Inv'
<1>1. 1 \in Day
  BY DEF Day
<1> QED BY <1>1, BeginInv DEF Ready, Kinds, Job

\* A purchase asked for by hand: for a day already over, it is on record.
LEMMA ManualBuyInv ==
    ASSUME Inv, NEW p \in Request, NEW c \in Codes, NEW d \in Named, ManualBuy(p, c, d)
    PROVE  Inv'
<1> DEFINE x == NewIntent("buy", c, d)
           s == [Loaded EXCEPT !.intents = Append(@, x)]
<1>1. Good(Loaded) /\ Loaded \in Snapshot
  BY LoadedGood DEF Good, Sound
<1>2. d \in Day /\ d \in Nat /\ Passed \in Nat
  BY DayFacts DEF Inv, Named, Day
<1>3. ~Asked(Loaded, "buy", c, d) /\ Ready(p, s)
  BY DEF ManualBuy
<1>4. Good(s) /\ Extends(Loaded, s)
      /\ \A P \in Nat : Fine(Loaded, P, P) /\ d + 1 > P => Fine(s, P, P)
  BY <1>1, <1>2, <1>3, AppendAdds
<1>5. ASSUME blame' = {} PROVE d + 1 > Passed
  <2> SUFFICES ASSUME d + 1 <= Passed PROVE FALSE
    BY <1>2
  <2> DEFINE n == Len(Loaded.intents)
  <2>1. n \in Nat /\ Loaded.intents \in Seq(Intent)
    BY <1>1, IntentTypes
  <2>2. x \in Intent
    BY <1>2, NewIntentType DEF Kind
  <2>3. s.intents = Append(Loaded.intents, x)
    BY <1>1 DEF Snapshot
  <2>4. Len(s.intents) = n + 1 /\ s.intents[n + 1] = x
    BY <2>1, <2>2, <2>3, AppendProperties
  <2>5. n + 1 \in Ids(s) \ Ids(Loaded)
    BY <2>1, <2>4 DEF Ids
  <2>6. Overdue(s.intents[n + 1])
    BY <2>4 DEF Overdue, NewIntent
  <2>7. "late" \in blame'
    BY <1>3, <2>5, <2>6 DEF Ready, Begin
  <2> QED BY <1>5, <2>7
<1> QED BY <1>2, <1>3, <1>4, <1>5, ReadyInv

\* An abandonment settles the purchases it names.
LEMMA ManualAbandonInv ==
    ASSUME Inv, NEW p \in Request, NEW c \in Codes, NEW d \in Named, ManualAbandon(p, c, d)
    PROVE  Inv'
<1> DEFINE a == Loaded
           q == [i \in DOMAIN a.intents |->
                   IF IsPending(a.intents[i], "buy", c) /\ a.intents[i].asked = d
                   THEN Cancelled(a.intents[i]) ELSE a.intents[i]]
           b == a.abandoned \cup {<<c, d>>}
           s == [a EXCEPT !.abandoned = b, !.intents = q]
<1>1. Good(a) /\ a \in Snapshot /\ Sound(a)
  BY LoadedGood DEF Good, Sound
<1>2. d \in Day
  BY DayFacts DEF Inv, Named, Day
<1>3. Ready(p, s)
  BY <1>1 DEF ManualAbandon, Snapshot
<1>4. /\ Len(a.intents) \in Nat /\ DOMAIN a.intents = 1..Len(a.intents)
      /\ \A i \in 1..Len(a.intents) : a.intents[i] \in Intent
  BY <1>1, IntentTypes DEF Ids
<1> HIDE DEF a
<1>5. \A i \in 1..Len(a.intents) :
        /\ q[i] \in Intent
        /\ \/ q[i] = a.intents[i]
           \/ a.intents[i].status = "pending" /\ q[i].status = "cancelled"
  BY <1>4 DEF Cancelled, Intent, IsPending, Status
<1>6. q \in Seq(Intent) /\ Len(q) = Len(a.intents)
  <2>1. q \in [1..Len(a.intents) -> Intent]
    BY <1>4, <1>5
  <2> QED BY <2>1, <1>4, FunctionSeq
<1> HIDE DEF q
<1>7. /\ s \in Snapshot /\ s.intents = q /\ s.cash = a.cash /\ s.held = a.held
      /\ s.since = a.since /\ a.abandoned \subseteq s.abandoned
  <2>1. b \in SUBSET (Codes \X Day) /\ a.abandoned \subseteq b
    BY <1>1, <1>2 DEF Snapshot
  <2> HIDE DEF b
  <2> QED BY <1>1, <1>6, <2>1 DEF Snapshot
<1>8. Sound(s) /\ Settles(a, s)
  BY <1>1, <1>5, <1>6, <1>7 DEF Sound, Held, Settles, Ids, Pending
<1>10. Balanced(s)
  <2>1. SameTrades(a, s)
    BY <1>5, <1>6, <1>7 DEF SameTrades, Traded, Ids
  <2> QED BY <1>1, <1>7, <2>1, SameBooks DEF Good, Clean
<1>9. Good(s) /\ Extends(a, s) /\ \A P, T : Fine(a, P, T) => Fine(s, P, T)
  BY <1>1, <1>7, <1>8, <1>10, SettlesKeeps, SettlesFine
<1> QED BY <1>3, <1>9, ReadyInv DEF a

\* One pending intent is settled.
LEMMA SettleInv ==
    ASSUME Inv, NEW p \in Request, NEW i \in Ids(Loaded), NEW it \in Intent,
           Pending(Loaded, i), it.status \notin {"pending", "executed"},
           Ready(p, [Loaded EXCEPT !.intents[i] = it])
    PROVE  Inv'
  BY LoadedGood, SettleOne, ReadyInv

LEMMA CancelledType ==
    ASSUME NEW s \in Snapshot, NEW i \in Ids(s), NEW st \in Status
    PROVE  /\ [s.intents[i] EXCEPT !.status = st] \in Intent
           /\ [s.intents[i] EXCEPT !.status = st].status = st
  BY IntentTypes DEF Intent

LEMMA IntentAbandonInv ==
    ASSUME Inv, NEW p \in Request, NEW i \in Ids(Loaded), IntentAbandon(p, i)
    PROVE  Inv'
<1>1. Good(Loaded) /\ Loaded \in Snapshot
  BY LoadedGood DEF Good, Sound
<1> DEFINE a == Loaded
           it == a.intents[i]
           new == IF it.status = "pending" THEN Cancelled(it) ELSE it
<1>2. Ready(p, [a EXCEPT !.intents[i] = new])
  <2>1. [a EXCEPT !.intents[i] = new]
        = [a EXCEPT !.intents[i] = IF @.status = "pending" THEN Cancelled(@) ELSE @]
    BY <1>1 DEF Snapshot
  <2> QED BY <2>1 DEF IntentAbandon
<1>3. CASE it.status = "pending"
  <2>1. new \in Intent /\ new.status \notin {"pending", "executed"}
    BY <1>1, <1>3, CancelledType DEF Cancelled, Status
  <2> QED BY <1>2, <1>3, <2>1, SettleInv DEF Pending
<1>4. CASE it.status # "pending"
  <2>1. a \in [cash : Nat, held : [Codes -> Nat], since : [Codes -> Nat], intents : Seq(Intent),
               abandoned : SUBSET (Codes \X Day), memory : [Codes -> Nat], last : 0..LastDay]
    BY <1>1 DEF Snapshot
  <2>2. a.intents \in [1..Len(a.intents) -> Intent] /\ i \in 1..Len(a.intents)
    BY <1>1, LenProperties DEF Snapshot, Ids
  <2>3. [a.intents EXCEPT ![i] = it] = a.intents
    BY <2>2
  <2>4. [a EXCEPT !.intents[i] = it] = a
    BY <2>1, <2>3
  <2> QED BY <1>1, <1>2, <1>4, <2>4, ExtendsSelf, ReadyInv
<1> QED BY <1>3, <1>4

\* The closeout moves intents a day later, or leaves them.
LEMMA CloseoutInv ==
    ASSUME Inv, NEW p \in Request, Closeout(p)
    PROVE  Inv'
<1> SUFFICES ASSUME NEW next \in {Today, Today - 1},
                    Ready(p, [Loaded EXCEPT !.intents = [i \in DOMAIN @ |->
                       IF @[i].status = "pending" /\ @[i].exec = Today - 1
                       THEN [@[i] EXCEPT !.exec = next] ELSE @[i]]]),
                    Today > 1
             PROVE  Inv'
  BY DEF Closeout
<1> DEFINE a == Loaded
           D == Today
           q == [i \in DOMAIN a.intents |->
                   IF a.intents[i].status = "pending" /\ a.intents[i].exec = D - 1
                   THEN [a.intents[i] EXCEPT !.exec = next] ELSE a.intents[i]]
           s == [a EXCEPT !.intents = q]
<1>1. Good(a) /\ a \in Snapshot /\ Sound(a)
  BY LoadedGood DEF Good, Sound
<1>2. D \in Nat /\ Passed \in Nat /\ next \in Nat /\ next >= D - 1
  BY DayFacts DEF Inv, Day
<1>3. Ready(p, s)
  BY <1>1 DEF Snapshot
<1>4. /\ Len(a.intents) \in Nat /\ DOMAIN a.intents = 1..Len(a.intents)
      /\ \A i \in 1..Len(a.intents) : a.intents[i] \in Intent
  BY <1>1, IntentTypes DEF Ids
<1> HIDE DEF a, D
<1>5. \A i \in 1..Len(a.intents) :
        /\ q[i] \in Intent
        /\ \/ q[i] = a.intents[i]
           \/ /\ a.intents[i].status = "pending" /\ q[i].status = "pending"
              /\ q[i].kind = a.intents[i].kind /\ q[i].code = a.intents[i].code
              /\ q[i].asked = a.intents[i].asked /\ q[i].exec >= a.intents[i].exec
  <2> TAKE i \in 1..Len(a.intents)
  <2> DEFINE it == a.intents[i]
  <2>1. it \in Intent /\ i \in DOMAIN a.intents
    BY <1>4
  <2>2. CASE it.status = "pending" /\ it.exec = D - 1
    <3>1. q[i] = [it EXCEPT !.exec = next]
      BY <2>1, <2>2
    <3> HIDE DEF q, it
    <3>2. /\ q[i] \in Intent /\ q[i].exec = next /\ q[i].status = it.status
          /\ q[i].kind = it.kind /\ q[i].code = it.code /\ q[i].asked = it.asked
      BY <2>1, <3>1, <1>2 DEF Intent
    <3> QED BY <1>2, <2>2, <3>2 DEF it
  <2>3. CASE ~(it.status = "pending" /\ it.exec = D - 1)
    <3>1. q[i] = it
      BY <2>1, <2>3
    <3> QED BY <2>1, <3>1
  <2> QED BY <2>2, <2>3
<1>6. q \in Seq(Intent) /\ Len(q) = Len(a.intents)
  <2>1. q \in [1..Len(a.intents) -> Intent]
    BY <1>4, <1>5
  <2> QED BY <2>1, <1>4, FunctionSeq
<1> HIDE DEF q
<1>7. /\ Sound(s) /\ s.intents = q /\ s.cash = a.cash /\ s.held = a.held
      /\ s.since = a.since /\ s.abandoned = a.abandoned
  BY <1>1, <1>6, WithIntents
<1>8. Shifts(a, s)
  BY <1>5, <1>6, <1>7 DEF Shifts, Ids, Pending
<1>9. Good(s) /\ Extends(a, s) /\ \A P \in Int : \A T : Fine(a, P, T) => Fine(s, P, T)
  BY <1>1, <1>7, <1>8, ShiftsKeeps, ShiftsFine
<1> QED BY <1>2, <1>3, <1>9, ReadyInv DEF a

\* An intent that is carried out by hand.
LEMMA ProcessedInv ==
    ASSUME Inv, NEW p \in Request, NEW i \in Ids(Loaded), Processed(p, i)
    PROVE  Inv'
<1> DEFINE a == Loaded
           it == a.intents[i]
<1>1. Good(a) /\ a \in Snapshot
  BY LoadedGood DEF Good, Sound
<1>2. Pending(a, i) /\ it \in Intent /\ it.exec \in Nat /\ it.code \in Codes
  BY <1>1, IntentTypes DEF Processed, Pending, Intent
<1>3. CASE it.kind = "buy" /\ Ready(p, [a EXCEPT !.intents[i] = Cancelled(@)])
  <2>1. [a EXCEPT !.intents[i] = Cancelled(@)] = [a EXCEPT !.intents[i] = Cancelled(it)]
    BY <1>1 DEF Snapshot
  <2>2. Cancelled(it) \in Intent /\ Cancelled(it).status \notin {"pending", "executed"}
    BY <1>1, CancelledType DEF Cancelled, Status
  <2> QED BY <1>2, <1>3, <2>1, <2>2, SettleInv
<1>4. ASSUME NEW px \in Prices, Done(it.exec), it.kind = "buy", a.held[it.code] = 0,
             CanBuy(a, px), Ready(p, Bought(a, i, px))
      PROVE  Inv'
  <2>1. it.exec <= Passed /\ Passed \in Nat
    BY <1>2, <1>4, DayFacts DEF Inv
  <2> QED BY <1>1, <1>2, <1>4, <2>1, BoughtKeeps, ReadyInv
<1>5. ASSUME NEW px \in Prices, it.kind = "sell", Ready(p, Sold(a, i, px))
      PROVE  Inv'
  <2>1. Sells(a, i) /\ Passed \in Nat
    BY <1>2, <1>5, DayFacts DEF Sells, Inv
  <2> QED BY <1>1, <1>5, <2>1, SoldKeeps, ReadyInv
<1> QED BY <1>3, <1>4, <1>5 DEF Processed

LEMMA HandleInv == ASSUME Inv, NEW p \in Request, Handle(p) PROVE Inv'
<1>1. Good(Loaded) /\ Loaded \in Snapshot /\ Extends(Loaded, Loaded)
  BY LoadedGood, ExtendsSelf DEF Good, Sound
<1>2. /\ Today \in Day /\ Passed \in Nat /\ Passed <= Today
      /\ \A d \in Named : d \in Day
  BY DayFacts DEF Inv, Named, Day
<1>3. ASSUME NEW d \in Named, Advance(p, d) PROVE Inv'
  <2> DEFINE b == IF Loaded.last = 0 \/ Loaded.last >= d THEN d ELSE Loaded.last + 1
  <2>1. b \in Day
    BY <1>1, <1>2 DEF Snapshot, Day
  <2>2. Begin(p, "generate", Loaded, "advance", b, d)
    BY <1>3 DEF Advance
  <2> HIDE DEF b
  <2> QED BY <1>1, <1>2, <2>1, <2>2, BeginInv DEF Kinds, Job
<1>4. ASSUME NEW d \in Named, QueueView(p, d) PROVE Inv'
  BY <1>1, <1>2, <1>4, BeginInv DEF QueueView, Kinds, Job
<1>5. ASSUME Rewrite(p) PROVE Inv'
  BY <1>1, <1>5, ReadyInv DEF Rewrite
<1>6. ASSUME RtRun(p) PROVE Inv'
  <2>1. Fine(Loaded, Passed, Passed) => Fine(Loaded, Passed, Today)
    <3>1. \A c \in Codes : Loaded.since[c] \in Nat
      BY <1>1 DEF Snapshot
    <3>2. Today \in Nat
      BY <1>2 DEF Day
    <3> QED BY <1>2, <3>1, <3>2 DEF Fine
  <2> QED BY <1>1, <1>2, <1>6, <2>1, BeginInv DEF RtRun, Kinds
<1> QED BY <1>3, <1>4, <1>5, <1>6, ManualBuyInv, ManualAbandonInv, IntentAbandonInv,
           ProcessedInv, CloseoutInv DEF Handle

-----------------------------------------------------------------------------
(* A request works on its own snapshot. *)

LEMMA LocalInv ==
    ASSUME Inv, NEW p \in Request, Busy(p), req[p].phase # "writing",
           NEW r \in Local, req' = [req EXCEPT ![p] = r],
           r.phase \in {"execute", "generate", "ready"},
           UNCHANGED <<now, ran, file, torn, count, overlaps>>,
           blame \subseteq blame', blame' \subseteq {"torn", "missed", "late", "undated"},
           Good(r.snap), Extends(req[p].snap, r.snap),
           r.kind = req[p].kind, r.day = req[p].day \/ r.kind \notin Job,
           r.mixed = req[p].mixed,
           r.phase = "execute" => r.kind \in Job,
           r.kind \in Job =>
              /\ r.phase # "generate"
              /\ \A i \in DueOn(r.snap, Today) :
                    "undated" \in blame' \/ (r.phase = "execute" /\ i > r.at),
           blame' = {} /\ Fine(req[p].snap, Passed, BuysUntil(req[p])) =>
              Fine(r.snap, Passed, BuysUntil(req[p]))
    PROVE  Inv'
<1>1. req \in [Request -> Local]
  BY DEF Inv, TypeOK
<1>2. req'[p] = r /\ \A q \in Request : q # p => req'[q] = req[q]
  BY <1>1
<1>3. Today' = Today /\ Passed' = Passed /\ Done(Today)' = Done(Today)
  BY SameDay DEF Done, Today
<1>4. TypeOK'
  <2>1. req' \in [Request -> Local]
    BY <1>1
  <2>2. \A q \in Request : Sound(req[q].snap)'
    BY <1>2 DEF Inv, TypeOK, Good
  <2>3. /\ Sound(file)' /\ now' \in 1..(2 * LastDay - 1) /\ ran' \in BOOLEAN
        /\ torn' \in BOOLEAN
        /\ count' \in 0..MaxRequests /\ overlaps' \in 0..MaxOverlaps
    BY DEF Inv, TypeOK
  <2> QED BY <2>1, <2>2, <2>3 DEF TypeOK
<1>5. Clean(file)' /\ \A q \in Request : Clean(req[q].snap)'
  BY <1>2 DEF Inv, Good
<1>6. \A q \in Request : Fits(req[q])'
  <2> TAKE q \in Request
  <2>0. Fits(req[q])
    BY DEF Inv
  <2>1. CASE q = p
    <3>1. r.kind \in Job => Ahead(req[q])'
      BY <1>2, <1>3, <2>1 DEF Ahead
    <3> QED BY <1>2, <1>3, <2>0, <2>1, <3>1 DEF Fits, Busy
  <2>2. CASE q # p
    <3>1. req'[q] = req[q]
      BY <1>2, <2>2
    <3> QED BY <1>3, <2>0, <3>1 DEF Fits, Ahead
  <2> QED BY <2>1, <2>2
<1>7. \A q \in Request : Busy(q)' = Busy(q) /\ req'[q].mixed = req[q].mixed
  BY <1>2 DEF Busy
<1>8. ASSUME overlaps' = 0 PROVE Alone'
  BY <1>7, <1>8 DEF Inv, Alone
<1>9. ASSUME overlaps' = 0, "torn" \notin blame' PROVE Kept'
  <2>1. Kept
    BY <1>9 DEF Inv
  <2>2. torn' => \E q \in Request : req'[q].phase = "writing"
    <3>1. \A q \in Request : req[q].phase = "writing" => req'[q].phase = "writing"
      BY <1>2
    <3> QED BY <2>1, <3>1 DEF Kept
  <2>3. ASSUME NEW q \in Request, Busy(q)' PROVE Extends(file', req'[q].snap)
    <3>1. CASE q = p
      <4>1. /\ file \in Snapshot /\ req[p].snap \in Snapshot /\ r.snap \in Snapshot
        BY DEF Inv, TypeOK, Good, Sound
      <4>2. Extends(file, req[p].snap)
        BY <2>1 DEF Kept
      <4> QED BY <1>2, <3>1, <4>1, <4>2, ExtendsTrans
    <3>2. CASE q # p
      BY <1>2, <1>7, <2>1, <2>3, <3>2 DEF Kept
    <3> QED BY <3>1, <3>2
  <2> QED BY <2>2, <2>3 DEF Kept
<1>10. ASSUME overlaps' = 0, blame' = {} PROVE OnTime'
  <2>1. OnTime
    BY <1>10 DEF Inv
  <2>2. ASSUME NEW q \in Request, Busy(q)' PROVE Fine(req'[q].snap, Passed', BuysUntil(req[q])')
    <3>0. Busy(q) /\ Fine(req[q].snap, Passed, BuysUntil(req[q]))
      BY <1>7, <2>1, <2>2 DEF OnTime
    <3>1. BuysUntil(req[q])' = BuysUntil(req[q])
      BY <1>2, <1>3 DEF BuysUntil
    <3> QED BY <1>2, <1>3, <1>10, <3>0, <3>1
  <2> QED BY <1>3, <2>1, <2>2 DEF OnTime
<1> QED BY <1>4, <1>5, <1>6, <1>8, <1>9, <1>10 DEF Inv

LEMMA SnapGood ==
    ASSUME Inv, NEW p \in Request
    PROVE  /\ Good(req[p].snap) /\ req[p].snap \in Snapshot /\ req[p] \in Local
           /\ req \in [Request -> Local] /\ Fits(req[p])
  BY DEF Inv, TypeOK, Good, Sound

LEMMA GenerateInv == ASSUME Inv, NEW p \in Request, Generate(p) PROVE Inv'
<1> DEFINE s == req[p].snap
           d == req[p].day
<1>1. Good(s) /\ s \in Snapshot /\ req[p] \in Local /\ d \in Day /\ req[p].phase = "generate"
      /\ d \in Nat /\ req \in [Request -> Local]
  BY SnapGood DEF Generate, Local, Day
<1>2. req[p].kind \notin Job
  BY <1>1, SnapGood DEF Fits
<1>3. PICK sells \in SUBSET Codes, buys \in SUBSET Codes :
        /\ sells # {} => Done(d)
        /\ \E m \in Remembered(s.memory, buys, d) :
           \E sq \in Orders(ToSell(s, sells, d)), bq \in Orders(ToBuy(s, m, d)) :
              req' = [req EXCEPT ![p] = Generated(@, sq, bq, m)]
  BY DEF Generate
<1>4. PICK m \in Remembered(s.memory, buys, d) :
        \E sq \in Orders(ToSell(s, sells, d)), bq \in Orders(ToBuy(s, m, d)) :
           req' = [req EXCEPT ![p] = Generated(@, sq, bq, m)]
  BY <1>3
<1>5. PICK sq \in Orders(ToSell(s, sells, d)), bq \in Orders(ToBuy(s, m, d)) :
           req' = [req EXCEPT ![p] = Generated(@, sq, bq, m)]
  BY <1>4
<1>6. /\ blame' = blame \cup (IF d + 1 <= Passed THEN {"late"} ELSE {})
      /\ UNCHANGED <<now, ran, file, torn, count, overlaps>>
  BY DEF Generate
<1> DEFINE S == ToSell(s, sells, d)
           B == ToBuy(s, m, d)
           mem == [c \in Codes |-> IF Alive(s, m, c, d) /\ c \notin B THEN m[c] ELSE 0]
           last == IF req[p].kind = "advance" THEN d ELSE s.last
           u == [s EXCEPT !.intents = @ \o Made("sell", sq, d) \o Made("buy", bq, d),
                          !.memory = mem, !.last = last]
           next == IF d < req[p].until THEN d + 1 ELSE d
           phase == IF d < req[p].until THEN "generate" ELSE "ready"
           r == [req[p] EXCEPT !.snap = u, !.day = next, !.phase = phase]
<1>7. mem \in [Codes -> Nat] /\ last \in 0..LastDay
  <2>1. s.memory \in [Codes -> Nat] /\ s.last \in 0..LastDay
    BY <1>1 DEF Snapshot
  <2>2. m \in [Codes -> {s.memory[c] : c \in Codes} \cup {d + Memory}]
    BY DEF Remembered
  <2>3. \A c \in Codes : m[c] \in Nat
    BY <1>1, <2>1, <2>2
  <2> QED BY <1>1, <2>1, <2>3 DEF Day
<1>8. req' = [req EXCEPT ![p] = r]
  <2>1. Generated(req[p], sq, bq, m) = r
    BY <1>1 DEF Generated, Made, Snapshot
  <2> HIDE DEF r
  <2> QED BY <1>1, <1>5, <2>1
<1>9. /\ S \subseteq Codes /\ B \subseteq Codes
      /\ \A c \in S : ~Asked(s, "sell", c, d)
      /\ \A c \in B : ~Asked(s, "buy", c, d)
  BY DEF Held, Free, ToSell, ToBuy
<1>10. \A c \in S : Done(d) /\ s.held[c] > 0 /\ ~Blocked(s, "sell", c, d)
  BY <1>3 DEF Held, Free, ToSell
<1> HIDE DEF mem, last
<1>11. /\ Good(u) /\ Extends(s, u)
       /\ \A P \in Nat :
             /\ Fine(s, P, P) /\ d + 1 > P
             /\ \A c \in S : d <= P /\ s.held[c] > 0 /\ ~Blocked(s, "sell", c, d)
             => Fine(u, P, P)
  <2>1. sq \in Orders(S) /\ bq \in Orders(B)
    OBVIOUS
  <2> HIDE DEF S, B, s, d
  <2> QED BY <2>1, <1>1, <1>7, <1>9, GeneratedKeeps
<1>12. Passed \in Nat /\ (Done(d) => d <= Passed)
  BY <1>1, DayFacts DEF Inv
<1>13. ASSUME blame' = {}, Fine(s, Passed, BuysUntil(req[p]))
       PROVE  Fine(u, Passed, BuysUntil(req[p]))
  <2>1. BuysUntil(req[p]) = Passed
    BY <1>2 DEF BuysUntil
  <2>2. d + 1 > Passed
    BY <1>6, <1>12, <1>1, <1>13
  <2> QED BY <1>10, <1>11, <1>12, <1>13, <2>1, <2>2
<1> HIDE DEF u
<1>14. next \in Day /\ phase \in {"generate", "ready"}
  BY <1>1 DEF Local, Day
<1> HIDE DEF next, phase
<1>15. /\ r \in Local /\ r.snap = u /\ r.phase = phase /\ r.kind = req[p].kind
       /\ r.mixed = req[p].mixed
  BY <1>1, <1>11, <1>14 DEF Local, Phase, Good, Sound
<1> HIDE DEF r
<1>16. Busy(p) /\ req[p].phase # "writing" /\ blame \subseteq blame'
       /\ blame' \subseteq {"torn", "missed", "late", "undated"}
  BY <1>1, <1>6 DEF Busy, Inv, TypeOK
<1> QED BY <1>2, <1>6, <1>8, <1>11, <1>13, <1>14, <1>15, <1>16, LocalInv

\* One due intent is dealt with, on the morning of its day.
LEMMA ExecuteInv == ASSUME Inv, NEW p \in Request, Execute(p) PROVE Inv'
<1> DEFINE s == req[p].snap
           d == req[p].day
           next == IF req[p].kind = "job" THEN d + 1 ELSE d
<1>1. /\ Good(s) /\ s \in Snapshot /\ req[p] \in Local /\ d \in Day
      /\ req[p].phase = "execute" /\ req \in [Request -> Local]
  BY SnapGood DEF Execute, Local
<1>2. /\ req[p].kind \in Job /\ d = Today /\ d \in Nat /\ req[p].at \in Nat
      /\ next \in Nat /\ next >= d
  BY <1>1, SnapGood DEF Fits, Day, Local
<1> HIDE DEF next
<1>3. PICK i \in Left(req[p]), px \in Prices \cup {0} :
         /\ \A j \in Left(req[p]) : i <= j
         /\ req' = [req EXCEPT ![p] = [@ EXCEPT !.snap = Outcome(s, i, px, next), !.at = i]]
         /\ blame' = blame \cup (IF i \in DueOn(Outcome(s, i, px, next), d)
                               THEN {"undated"} ELSE {})
  BY DEF Execute, next
<1> DEFINE it == s.intents[i]
           t == Outcome(s, i, px, next)
           r == [req[p] EXCEPT !.snap = t, !.at = i]
<1>4. i \in Ids(s) /\ Pending(s, i) /\ it.exec = d /\ it \in Intent /\ it.code \in Codes
      /\ it.kind \in Kind /\ s.held[it.code] \in Nat
  <2>1. i \in Ids(s) /\ Pending(s, i) /\ it.exec = d
    BY DEF Left, DueOn, Pending
  <2>2. it \in Intent
    BY <1>1, <2>1, IntentTypes
  <2> QED BY <1>1, <2>1, <2>2 DEF Intent, Snapshot
<1>5. Passed \in Nat /\ Today \in Nat /\ BuysUntil(req[p]) = Today
  BY <1>2, DayFacts DEF Inv, Day, BuysUntil
<1> DEFINE Changed(u) == \E x : u.intents = [s.intents EXCEPT ![i] = x]
           Right(u) == /\ Good(u) /\ Extends(s, u) /\ Changed(u)
                       /\ Fine(s, Passed, Today) => Fine(u, Passed, Today)
<1>6. ASSUME t = [s EXCEPT !.intents[i].exec = next] PROVE Right(t)
  <2> DEFINE x == [it EXCEPT !.exec = next]
             q == [s.intents EXCEPT ![i] = x]
  <2>1. x \in Intent /\ x.exec = next /\ x.status = it.status /\ x.kind = it.kind
        /\ x.code = it.code /\ x.asked = it.asked
    BY <1>2, <1>4 DEF Intent
  <2>2. t = [s EXCEPT !.intents = q]
    BY <1>1, <1>6 DEF Snapshot
  <2>3. s.intents \in Seq(Intent) /\ i \in 1..Len(s.intents)
    BY <1>1, <1>4 DEF Snapshot, Ids
  <2>7. t.intents = [s.intents EXCEPT ![i] = x]
    BY <1>1, <2>2 DEF Snapshot
  <2>8. Changed(t)
    BY <2>7
  <2> HIDE DEF x, t, it, Changed
  <2>4. /\ q \in Seq(Intent) /\ Len(q) = Len(s.intents)
        /\ \A j \in 1..Len(s.intents) : q[j] = IF j = i THEN x ELSE s.intents[j]
    BY <2>1, <2>3, ExceptSeq
  <2> HIDE DEF q
  <2>5. /\ Sound(t) /\ t.intents = q /\ t.cash = s.cash /\ t.held = s.held
        /\ t.since = s.since /\ t.abandoned = s.abandoned
    BY <1>1, <2>2, <2>4, WithIntents DEF Good
  <2>6. Shifts(s, t)
    BY <1>2, <1>4, <2>1, <2>4, <2>5 DEF Shifts, Ids, Pending, it
  <2> QED BY <1>1, <1>5, <2>5, <2>6, <2>8, ShiftsKeeps, ShiftsFine
<1>7. ASSUME NEW st \in {"cancelled", "failed"}, t = [s EXCEPT !.intents[i] = Settled(@, st)]
      PROVE  Right(t)
  <2>1. Settled(it, st) \in Intent /\ Settled(it, st).status \notin {"pending", "executed"}
    BY <1>1, <1>4, CancelledType DEF Settled, Status
  <2>2. t = [s EXCEPT !.intents[i] = Settled(it, st)]
    BY <1>1, <1>7 DEF Snapshot
  <2>3. t.intents = [s.intents EXCEPT ![i] = Settled(it, st)]
    BY <1>1, <2>2 DEF Snapshot
  <2>4. Changed(t)
    BY <2>3
  <2> HIDE DEF t, Changed
  <2> QED BY <1>1, <1>4, <2>1, <2>2, <2>4, SettleOne
<1>8. ASSUME px \in Prices, it.kind = "buy", s.held[it.code] = 0, CanBuy(s, px),
             t = Bought(s, i, px)
      PROVE  Right(t)
  <2>1. t.intents = [s.intents EXCEPT ![i] = Executed(it, px, Affordable(s, px))]
    BY <1>1, <1>8 DEF Bought, Snapshot
  <2>2. Changed(t)
    BY <2>1
  <2> HIDE DEF t, Changed
  <2>3. Good(t) /\ Extends(s, t) /\ (Fine(s, Passed, Today) => Fine(t, Passed, Today))
    BY <1>1, <1>2, <1>4, <1>5, <1>8, BoughtKeeps
  <2> QED BY <2>2, <2>3
<1>9. ASSUME px \in Prices, it.kind = "sell", t = Sold(s, i, px)
      PROVE  Right(t)
  <2>1. t.intents = [s.intents EXCEPT ![i] = Executed(it, px, s.held[it.code])]
    BY <1>1, <1>9 DEF Sold, Snapshot
  <2>2. Changed(t)
    BY <2>1
  <2> HIDE DEF t, Changed
  <2> QED BY <1>1, <1>4, <1>5, <1>9, <2>2, SoldKeeps DEF Sells
<1> HIDE DEF Right
<1>10. Right(t)
  <2>0. px = 0 \/ (px \in Prices /\ px > 0)
    OBVIOUS
  <2>1. CASE px = 0
    BY <2>1, <1>6 DEF Outcome
  <2>2. CASE px > 0 /\ it.kind = "buy"
    <3>1. CASE s.held[it.code] > 0
      <4>1. t = [s EXCEPT !.intents[i] = Settled(@, "cancelled")]
        BY <2>2, <3>1 DEF Outcome
      <4> QED BY <4>1, <1>7
    <3>2. CASE ~(s.held[it.code] > 0)
      <4>1. s.held[it.code] = 0
        BY <3>2, <1>4
      <4>2. t = IF CanBuy(s, px) THEN Bought(s, i, px) ELSE [s EXCEPT !.intents[i].exec = next]
        BY <2>2, <3>2 DEF Outcome
      <4> QED BY <2>0, <2>2, <4>1, <4>2, <1>6, <1>8
    <3> QED BY <3>1, <3>2
  <2>3. CASE px > 0 /\ it.kind = "sell"
    <3>1. CASE s.held[it.code] > 0
      <4>1. t = Sold(s, i, px)
        BY <2>3, <3>1 DEF Outcome
      <4> QED BY <2>0, <2>3, <4>1, <1>9
    <3>2. CASE ~(s.held[it.code] > 0)
      <4>1. t = [s EXCEPT !.intents[i] = Settled(@, "failed")]
        BY <2>3, <3>2 DEF Outcome
      <4> QED BY <4>1, <1>7
    <3> QED BY <3>1, <3>2
  <2> QED BY <2>0, <2>1, <2>2, <2>3, <1>4 DEF Kind
<1> USE DEF Right
<1> HIDE DEF t, Changed
<1>11. req' = [req EXCEPT ![p] = r]
  <2>1. req' = [req EXCEPT ![p] = [req[p] EXCEPT !.snap = Outcome(s, i, px, next), !.at = i]]
    BY <1>1, <1>3
  <2>2. t = Outcome(s, i, px, next)
    BY DEF t
  <2> QED BY <2>1, <2>2
<1>12. /\ r \in Local /\ r.snap = t /\ r.phase = "execute" /\ r.kind = req[p].kind
       /\ r.mixed = req[p].mixed /\ r.at = i /\ i \in Nat
  <2>1. t \in Snapshot /\ i \in Nat
    BY <1>4, <1>10 DEF Good, Sound, Ids
  <2>2. req[p] \in Local /\ req[p].phase = "execute"
    BY <1>1
  <2> QED BY <2>1, <2>2 DEF Local
<1>15. \A j \in DueOn(t, d) : "undated" \in blame' \/ j > i
  <2> SUFFICES ASSUME NEW j \in DueOn(t, d), j # i, "undated" \notin blame
               PROVE  j > i
    BY <1>3 DEF t
  <2>1. j \in DueOn(s, d)
    <3>1. PICK x : t.intents = [s.intents EXCEPT ![i] = x]
      BY <1>10 DEF Changed
    <3>2. t \in Snapshot
      BY <1>10 DEF Good, Sound
    <3>3. DOMAIN t.intents = Ids(t) /\ DOMAIN s.intents = Ids(s)
      BY <1>1, <3>2, LenProperties DEF Snapshot, Ids
    <3>4. DOMAIN t.intents = DOMAIN s.intents
      BY <3>1
    <3>5. j \in Ids(s) /\ t.intents[j] = s.intents[j]
      BY <3>1, <3>3, <3>4 DEF DueOn
    <3> QED BY <3>5 DEF DueOn
  <2>2. j > req[p].at
    BY <1>1, <1>2, <2>1, SnapGood DEF Fits, Ahead
  <2>3. j \in Left(req[p]) /\ j \in Nat
    BY <2>1, <2>2 DEF Left, DueOn, Ids
  <2> QED BY <1>3, <1>12, <2>3
<1> HIDE DEF r
<1>13. /\ Busy(p) /\ req[p].phase # "writing" /\ blame \subseteq blame'
       /\ blame' \subseteq {"torn", "missed", "late", "undated"}
       /\ UNCHANGED <<now, ran, file, torn, count, overlaps>>
  BY <1>1, <1>3 DEF Execute, Busy, Inv, TypeOK
<1>14. r.day = req[p].day
  BY <1>1 DEF r, Local
<1> QED BY <1>2, <1>5, <1>10, <1>11, <1>12, <1>13, <1>14, <1>15, LocalInv

LEMMA RtDoneInv == ASSUME Inv, NEW p \in Request, RtDone(p) PROVE Inv'
<1> DEFINE r == [req[p] EXCEPT !.phase = "ready"]
<1>1. /\ Good(req[p].snap) /\ req[p].snap \in Snapshot /\ req[p] \in Local
      /\ req \in [Request -> Local] /\ req[p].phase = "execute"
      /\ req[p].kind \in Job /\ req[p].day = Today /\ Ahead(req[p])
  BY SnapGood DEF Fits, RtDone
<1>2. /\ r \in Local /\ r.snap = req[p].snap /\ r.phase = "ready" /\ r.kind = req[p].kind
      /\ r.day = req[p].day /\ r.mixed = req[p].mixed
  BY <1>1 DEF Local, Phase
<1>3. /\ req' = [req EXCEPT ![p] = r]
      /\ \A i \in DueOn(r.snap, Today) : "undated" \in blame
      /\ UNCHANGED <<now, ran, file, torn, count, overlaps, blame>>
      /\ blame \subseteq {"torn", "missed", "late", "undated"}
  BY <1>1, <1>2 DEF RtDone, Left, Ahead, Inv, TypeOK
<1> HIDE DEF r
<1> QED BY <1>1, <1>2, <1>3, ExtendsSelf, LocalInv DEF Busy

-----------------------------------------------------------------------------
(* A request writes, or dies, and time passes. *)

LEMMA OpenInv == ASSUME Inv, NEW p \in Request, Open(p) PROVE Inv'
<1>1. /\ req \in [Request -> Local] /\ req[p].phase = "ready"
      /\ UNCHANGED <<now, ran, file, count, overlaps, blame>> /\ torn'
  BY SnapGood DEF Open
<1>2. Today' = Today /\ Passed' = Passed /\ Done(Today)' = Done(Today)
  BY <1>1, SameDay DEF Done, Today
<1>3. \A q \in Request :
         /\ req'[q] \in Local /\ req'[q].snap = req[q].snap /\ req'[q].kind = req[q].kind
         /\ req'[q].day = req[q].day /\ req'[q].at = req[q].at
         /\ req'[q].phase = IF q = p THEN "writing" ELSE req[q].phase
         /\ (\A r \in Request : req[r].phase # "writing") /\ ~req[q].mixed => ~req'[q].mixed
  <2> TAKE q \in Request
  <2>0. req[q] \in Local /\ req[p] \in Local
    BY <1>1
  <2>1. CASE q = p
    <3> DEFINE b == \E r \in Request : req[r].phase = "writing"
    <3>1. req'[q] = [req[p] EXCEPT !.phase = "writing", !.mixed = b]
      BY <2>1 DEF Open
    <3>2. b \in BOOLEAN /\ ((\A r \in Request : req[r].phase # "writing") => b = FALSE)
      OBVIOUS
    <3> HIDE DEF b
    <3> QED BY <2>0, <2>1, <3>1, <3>2 DEF Local, Phase
  <2>2. CASE q # p
    <3> DEFINE b == req[q].mixed \/ req[q].phase = "writing"
    <3>1. req'[q] = [req[q] EXCEPT !.mixed = b]
      BY <2>2 DEF Open
    <3>2. b \in BOOLEAN
      OBVIOUS
    <3>3. (\A r \in Request : req[r].phase # "writing") /\ ~req[q].mixed => b = FALSE
      OBVIOUS
    <3> HIDE DEF b
    <3> QED BY <2>0, <2>2, <3>1, <3>2, <3>3 DEF Local, Phase
  <2> QED BY <2>1, <2>2
<1>4. \A q \in Request : Busy(q)' = Busy(q)
  BY <1>1, <1>3 DEF Busy
<1>5. TypeOK'
  <2>1. req' \in [Request -> Local]
    <3>1. DOMAIN req' = Request /\ req' = [q \in Request |-> req'[q]]
      BY DEF Open
    <3> QED BY <1>3, <3>1
  <2>2. \A q \in Request : Sound(req[q].snap)'
    BY <1>3 DEF Inv, TypeOK
  <2>3. /\ Sound(file)' /\ now' \in 1..(2 * LastDay - 1) /\ ran' \in BOOLEAN
        /\ torn' \in BOOLEAN
        /\ count' \in 0..MaxRequests /\ overlaps' \in 0..MaxOverlaps
        /\ blame' \subseteq {"torn", "missed", "late", "undated"}
    BY <1>1 DEF Inv, TypeOK, Open
  <2> QED BY <2>1, <2>2, <2>3 DEF TypeOK
<1>6. Clean(file)' /\ \A q \in Request : Clean(req[q].snap)'
  BY <1>1, <1>3 DEF Inv
<1>7. \A q \in Request : Fits(req[q])'
  <2> TAKE q \in Request
  <2>1. Fits(req[q])
    BY DEF Inv
  <2> QED BY <1>1, <1>2, <1>3, <2>1 DEF Fits, Ahead
<1>8. ASSUME overlaps' = 0 PROVE Alone'
  <2>1. Alone
    BY <1>1, <1>8 DEF Inv
  <2>2. Busy(p)
    BY <1>1 DEF Busy
  <2>3. \A r \in Request : req[r].phase # "writing"
    BY <1>1, <2>1, <2>2 DEF Alone, Busy
  <2> QED BY <1>3, <1>4, <2>1, <2>3 DEF Alone
<1>9. ASSUME overlaps' = 0, "torn" \notin blame' PROVE Kept'
  <2>1. Kept
    BY <1>1, <1>9 DEF Inv
  <2> QED BY <1>1, <1>3, <1>4, <2>1 DEF Kept
<1>10. ASSUME overlaps' = 0, blame' = {} PROVE OnTime'
  <2>1. OnTime
    BY <1>1, <1>10 DEF Inv
  <2>2. \A q \in Request : BuysUntil(req[q])' = BuysUntil(req[q])
    BY <1>2, <1>3 DEF BuysUntil
  <2> QED BY <1>1, <1>2, <1>3, <1>4, <2>1, <2>2 DEF OnTime
<1> QED BY <1>5, <1>6, <1>7, <1>8, <1>9, <1>10 DEF Inv

\* What is the same when a request ends.
LEMMA EndInv ==
    ASSUME Inv, NEW p \in Request, Busy(p), req' = [req EXCEPT ![p] = Idle],
           UNCHANGED <<now, count, overlaps>>,
           ran' \in BOOLEAN, torn' \in BOOLEAN, Good(file'),
           blame' \subseteq {"torn", "missed", "late", "undated"},
           ran' # ran => req[p].kind \in Job \/ "torn" \in blame',
           blame \subseteq blame'
    PROVE  /\ TypeOK' /\ Clean(file)'
           /\ \A q \in Request : Clean(req[q].snap)' /\ Fits(req[q])'
           /\ overlaps' = 0 => Alone' /\ \A q \in Request : ~Busy(q)'
<1>1. req \in [Request -> Local]
  BY SnapGood
<1>2. req'[p] = Idle /\ \A q \in Request : q # p => req'[q] = req[q]
  BY <1>1
<1>3. TypeOK'
  <2>1. req' \in [Request -> Local]
    BY <1>1, IdleFits
  <2>2. \A q \in Request : Sound(req[q].snap)'
    BY <1>2, IdleFits DEF Inv, TypeOK, Good
  <2>3. /\ Sound(file)' /\ now' \in 1..(2 * LastDay - 1)
        /\ count' \in 0..MaxRequests /\ overlaps' \in 0..MaxOverlaps
    BY DEF Inv, TypeOK, Good
  <2> QED BY <2>1, <2>2, <2>3 DEF TypeOK
<1>4. Clean(file)' /\ \A q \in Request : Clean(req[q].snap)'
  BY <1>2, IdleFits DEF Inv, Good
<1>5. \A q \in Request : Fits(req[q])'
  <2> TAKE q \in Request
  <2>1. CASE q = p
    BY <1>2, <2>1, IdleFits DEF Fits
  <2>2. CASE q # p
    <3>1. Fits(req[q]) /\ req'[q] = req[q] /\ Today' = Today /\ Done(Today)' = Done(Today)
      BY <1>2, <2>2 DEF Inv, Today, Done
    <3> QED BY <3>1 DEF Fits, Ahead
  <2> QED BY <2>1, <2>2
<1>6. ASSUME overlaps' = 0 PROVE Alone' /\ \A q \in Request : ~Busy(q)'
  <2>1. Alone
    BY <1>6 DEF Inv
  <2>2. \A q \in Request : ~Busy(q)'
    BY <1>2, <2>1, IdleFits DEF Alone, Busy
  <2> QED BY <1>2, <2>1, <2>2, IdleFits DEF Alone
<1> QED BY <1>3, <1>4, <1>5, <1>6

LEMMA CrashInv == ASSUME Inv, NEW p \in Request, Crash(p) PROVE Inv'
<1>1. /\ Busy(p) /\ Good(file') /\ "torn" \in blame'
      /\ req' = [req EXCEPT ![p] = Idle]
      /\ UNCHANGED <<now, ran, file, torn, count, overlaps>>
      /\ blame' \subseteq {"torn", "missed", "late", "undated"}
      /\ ran' \in BOOLEAN /\ torn' \in BOOLEAN /\ blame \subseteq blame'
  BY LoadedGood DEF Crash, Busy, Inv, TypeOK
<1> QED BY <1>1, EndInv DEF Inv

\* The job leaves nothing due today, so the day is over for what is pending.
LEMMA CloseInv == ASSUME Inv, NEW p \in Request, Close(p) PROVE Inv'
<1>1. /\ req[p].phase = "writing" /\ Busy(p) /\ Good(req[p].snap) /\ Fits(req[p])
      /\ req' = [req EXCEPT ![p] = Idle] /\ ran' = (ran \/ req[p].kind \in Job)
      /\ UNCHANGED <<now, count, overlaps, blame>>
      /\ file' = req[p].snap \/ file' = file
      /\ torn' = FALSE \/ torn' = torn
      /\ req[p].snap \in Snapshot
  BY SnapGood DEF Close, Busy
<1>2. /\ Good(file') /\ ran' \in BOOLEAN /\ torn' \in BOOLEAN
      /\ blame' \subseteq {"torn", "missed", "late", "undated"}
      /\ ran' # ran => req[p].kind \in Job
  BY <1>1, LoadedGood DEF Inv, TypeOK
<1>3. /\ TypeOK' /\ Clean(file)'
      /\ \A q \in Request : Clean(req[q].snap)' /\ Fits(req[q])'
      /\ overlaps' = 0 => Alone' /\ \A q \in Request : ~Busy(q)'
  BY <1>1, <1>2, EndInv
<1>4. overlaps' = 0 => file' = req[p].snap /\ torn' = FALSE
  BY <1>1 DEF Close, Inv, Alone
<1>5. overlaps' = 0 => Kept'
  BY <1>3, <1>4 DEF Kept
<1>6. ASSUME overlaps' = 0, blame' = {} PROVE OnTime'
  <2> DEFINE s == req[p].snap
  <2>1. Fine(s, Passed, BuysUntil(req[p]))
    BY <1>1, <1>6 DEF Inv, OnTime
  <2>2. Passed \in Nat /\ Today \in Nat /\ Today <= Passed + 1 /\ Passed <= Today
        /\ Today' = Today /\ Done(Today)' = Done(Today)
    BY <1>1, DayFacts DEF Inv, Day, Today, Done
  <2>3. CASE req[p].kind \in Job
    <3>1. Passed' = Today
      BY <1>1, <2>2, <2>3 DEF Passed
    <3>2. \A i \in Ids(s) : Pending(s, i) => s.intents[i].exec # Today
      BY <1>1, <1>6, <2>3 DEF Fits, Ahead, DueOn, Pending
    <3>3. \A i \in Ids(s) : s.intents[i].exec \in Nat
      BY <1>1, IntentTypes DEF Intent
    <3>4. \A i \in Ids(s) : Pending(s, i) => s.intents[i].exec > Today
      BY <2>1, <2>2, <3>2, <3>3 DEF Fine
    <3>5. Fine(s, Today, Today)
      BY <2>1, <2>3, <3>4 DEF Fine, BuysUntil
    <3> QED BY <1>3, <1>4, <1>6, <3>1, <3>5 DEF OnTime
  <2>4. CASE req[p].kind \notin Job
    <3>1. Passed' = Passed
      BY <1>1, <2>2, <2>4, SameDay, <1>2 DEF Passed, Inv, TypeOK
    <3> QED BY <1>3, <1>4, <1>6, <2>1, <2>4, <3>1 DEF OnTime, BuysUntil
  <2> QED BY <2>3, <2>4
<1> QED BY <1>3, <1>5, <1>6 DEF Inv

LEMMA TickInv == ASSUME Inv, Tick PROVE Inv'
<1>1. /\ \A q \in Request : ~Busy(q)
      /\ now \in Nat /\ now >= 1 /\ now < 2 * LastDay - 1 /\ now' = now + 1 /\ ran' = FALSE
      /\ UNCHANGED <<file, torn, req, count, overlaps>>
  BY DEF Tick, Inv, TypeOK
<1>2. TypeOK'
  <2>1. now' \in 1..(2 * LastDay - 1)
    BY <1>1
  <2>2. blame' \subseteq {"torn", "missed", "late", "undated"}
    BY DEF Inv, TypeOK, Tick
  <2> QED BY <1>1, <2>1, <2>2 DEF Inv, TypeOK
<1>3. Clean(file)' /\ \A q \in Request : Clean(req[q].snap)' /\ Fits(req[q])'
  BY <1>1 DEF Inv, Fits, Busy
<1>4. \A q \in Request : ~Busy(q)'
  BY <1>1 DEF Busy
<1>5. overlaps' = 0 => Alone'
  BY <1>1, <1>4 DEF Inv, Alone
<1>6. overlaps' = 0 /\ "torn" \notin blame' => Kept'
  BY <1>1, <1>4 DEF Inv, Kept, Tick
<1>7. ASSUME overlaps' = 0, blame' = {} PROVE OnTime'
  <2>1. OnTime /\ (Done(Today) \/ ran)
    BY <1>1, <1>7 DEF Inv, Tick
  <2>2. Passed' = Passed
    <3>1. PICK e \in Nat : now = 2 * e \/ now = 2 * e - 1
      <4>1. now = 2 * (now \div 2) \/ now = 2 * (now \div 2 + 1) - 1
        BY <1>1
      <4>2. now \div 2 \in Nat /\ now \div 2 + 1 \in Nat
        BY <1>1
      <4> QED BY <4>1, <4>2
    <3>2. Passed = e /\ Today = e
      BY <1>1, <2>1, <3>1 DEF Passed, Today
    <3>3. CASE now = 2 * e
      <4>1. Today' = e + 1 /\ ~Done(Today)'
        BY <1>1, <3>3 DEF Today, Done
      <4> QED BY <1>1, <3>2, <4>1 DEF Passed
    <3>4. CASE now = 2 * e - 1
      <4>1. Today' = e /\ Done(Today)'
        BY <1>1, <3>4 DEF Today, Done
      <4> QED BY <1>1, <3>2, <4>1 DEF Passed
    <3> QED BY <3>1, <3>3, <3>4
  <2> QED BY <1>1, <1>4, <2>1, <2>2 DEF OnTime
<1> QED BY <1>2, <1>3, <1>5, <1>6, <1>7 DEF Inv

-----------------------------------------------------------------------------
(* The theorems. *)

LEMMA StutterInv == ASSUME Inv, UNCHANGED vars PROVE Inv'
<1>1. Today' = Today /\ Passed' = Passed /\ Done(Today)' = Done(Today)
  BY SameDay DEF vars, Done, Today
<1>2. UNCHANGED <<now, ran, file, torn, req, count, overlaps, blame>>
  BY DEF vars
<1>3. \A q \in Request : Fits(req[q])' /\ Busy(q)' = Busy(q) /\ BuysUntil(req[q])' = BuysUntil(req[q])
  BY <1>1, <1>2 DEF Inv, Fits, Ahead, Busy, BuysUntil
<1> QED BY <1>1, <1>2, <1>3 DEF Inv, TypeOK, Alone, Kept, OnTime

LEMMA StepInv == ASSUME Inv, [Next]_vars PROVE Inv'
  BY StutterInv, TickInv, HandleInv, GenerateInv, ExecuteInv, RtDoneInv, OpenInv,
     CloseInv, CrashInv DEF Next

THEOREM Invariance == Spec => []Inv
  BY InitInv, StepInv, PTL DEF Spec

\* Whatever overlaps or dies, no snapshot has negative cash or more positions than
\* MAX_POSITIONS.
THEOREM SimType == Spec => []TypeOK
<1>1. Inv => TypeOK
  BY DEF Inv
<1> QED BY Invariance, <1>1, PTL

\* The checks for an equal request hold in every snapshot, although the stale copy
\* of one request may replace what another has written.
THEOREM RequestsOnce == Spec => []OnePerRequest
<1>1. Inv => OnePerRequest
  <2> SUFFICES ASSUME Inv PROVE OnePerRequest
    OBVIOUS
  <2>1. \A s \in {file} \cup {req[p].snap : p \in Request} : Unique(s)
    BY DEF Inv, Clean
  <2> QED BY <2>1 DEF OnePerRequest, Unique, Pending
<1> QED BY Invariance, <1>1, PTL

\* The cash and the positions are what the executed intents say, in the file and in
\* every copy, whatever overlaps, dies or is lost.
THEOREM BooksAlwaysBalance == Spec => []BooksBalance
<1>1. Inv => BooksBalance
  BY DEF Inv, Clean, BooksBalance
<1> QED BY Invariance, <1>1, PTL

\* Unless the job of 09:35 was missed or found no next trading date for an intent that
\* had to wait, an intent was made too late or a request was lost, no intent of the
\* file is behind its execution date.
THEOREM IntentsOnTime == Spec => []NoneOverdue
<1>1. Inv => NoneOverdue
  <2> SUFFICES ASSUME Inv, overlaps = 0, blame = {}, NEW i \in Ids(file),
                      Overdue(file.intents[i])
               PROVE  FALSE
    BY DEF NoneOverdue
  <2>1. Pending(file, i) /\ file.intents[i].exec > Passed
    BY DEF Inv, OnTime, Fine, Overdue, Pending
  <2>2. file.intents[i].exec \in Nat /\ Passed \in Nat
    BY DayFacts, IntentTypes, LoadedGood DEF Inv, Good, Sound, Intent
  <2> QED BY <2>1, <2>2 DEF Overdue
<1> QED BY Invariance, <1>1, PTL

LEMMA Counts ==
    ASSUME Inv, [Next]_vars
    PROVE  (overlaps' = 0 => overlaps = 0) /\ blame \subseteq blame'
<1>1. overlaps \in Nat
  BY DEF Inv, TypeOK
<1>2. ASSUME NEW p \in Request, NEW phase, NEW s, NEW kind, NEW day, NEW until,
             Begin(p, phase, s, kind, day, until)
      PROVE  (overlaps' = 0 => overlaps = 0) /\ blame \subseteq blame'
  BY <1>1, <1>2 DEF Begin
<1>3. ASSUME NEW p \in Request, Handle(p)
      PROVE  (overlaps' = 0 => overlaps = 0) /\ blame \subseteq blame'
  BY <1>2, <1>3 DEF Handle, Advance, QueueView, ManualBuy, ManualAbandon, IntentAbandon,
                    Processed, Rewrite, Closeout, RtRun, Ready
<1> QED BY <1>3 DEF Next, Tick, Generate, Execute, RtDone, Open, Close, Crash, vars

\* A request that begins leaves the file alone.
LEMMA HandleFile == ASSUME NEW p \in Request, Handle(p) PROVE UNCHANGED file
<1>1. ASSUME NEW phase, NEW s, NEW kind, NEW day, NEW until,
             Begin(p, phase, s, kind, day, until)
      PROVE  UNCHANGED file
  BY <1>1 DEF Begin
<1> QED BY <1>1 DEF Handle, Advance, QueueView, ManualBuy, ManualAbandon, IntentAbandon,
                    Processed, Rewrite, Closeout, RtRun, Ready

\* A settled intent or an abandonment only gets lost when requests overlap or one
\* dies while it writes.
THEOREM SettledStays == Spec => LossNeedsOverlap
<1>1. ASSUME Inv, [Next]_vars, overlaps' = 0, "torn" \notin blame'
      PROVE  Extends(file, file')
  <2>1. Extends(file, file)
    BY <1>1, ExtendsSelf, LoadedGood DEF Good, Sound
  <2>2. overlaps = 0 /\ "torn" \notin blame
    BY <1>1, Counts
  <2>3. ASSUME NEW p \in Request, Close(p) PROVE Extends(file, file')
    <3>1. Busy(p) /\ (file' = req[p].snap \/ file' = file)
      BY <2>3 DEF Close, Busy
    <3> QED BY <1>1, <2>1, <2>2, <3>1 DEF Inv, Kept
  <2>4. UNCHANGED file \/ \E p \in Request : Close(p)
    BY <1>1, HandleFile DEF Next, Tick, Generate, Execute, RtDone, Open, Crash, vars
  <2> QED BY <2>1, <2>3, <2>4
<1>2. Inv /\ [Next]_vars => (overlaps' = 0 /\ "torn" \notin blame' => Extends(file, file'))
  BY <1>1
<1>3. Inv /\ [Next]_vars => [overlaps' = 0 /\ "torn" \notin blame' => Extends(file, file')]_vars
  BY <1>2
<1> QED BY Invariance, <1>3, PTL DEF Spec, LossNeedsOverlap

\* Under the same proviso, a stock is sold on a later day than it was bought on,
\* whoever sells it.
THEOREM SharesSoldLater == Spec => SoldLater
<1>1. ASSUME Inv, [Next]_vars, overlaps' = 0, blame' = {},
             NEW p \in Request, NEW c \in Codes, NEW i \in Sale(p, c)
      PROVE  Base(p).intents[i].exec > Base(p).since[c]
  <2>1. overlaps = 0 /\ blame = {}
    BY <1>1, Counts
  <2>2. OnTime
    BY <1>1, <2>1 DEF Inv
  <2>3. i \in Ids(Base(p)) /\ Sells(Base(p), i) /\ Base(p).intents[i].code = c
    BY DEF Sale, IsPending, Sells, Pending
  <2>4. CASE Busy(p)
    BY <2>2, <2>3, <2>4 DEF OnTime, Base, Fine
  <2>5. CASE ~Busy(p) /\ ~torn
    BY <2>2, <2>3, <2>5 DEF OnTime, Base, Loaded, Fine
  <2>6. CASE ~Busy(p) /\ torn
    <3>1. Base(p) = Default
      BY <2>6 DEF Base, Loaded
    <3> QED BY <2>3, <3>1 DEF Default, Ids
  <2> QED BY <2>4, <2>5, <2>6
<1> DEFINE A == overlaps' = 0 /\ blame' = {} =>
                  \A p \in Request, c \in Codes :
                     req'[p].phase # "idle" =>
                       \A i \in Sale(p, c) : Base(p).intents[i].exec > Base(p).since[c]
<1>2. Inv /\ [Next]_vars => [A]_vars
  BY <1>1
<1> QED BY Invariance, <1>2, PTL DEF Spec, SoldLater

=============================================================================
