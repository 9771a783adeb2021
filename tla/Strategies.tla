----------------------------- MODULE Strategies -----------------------------
(***************************************************************************)
(* The strategies, bar by bar. A bar brings closes for some of the symbols; *)
(* the engine settles the orders of earlier bars, extends the histories and *)
(* calls on_bar, which answers with target weights (buy-and-hold later with *)
(* share orders, here a weight of 1). Which orders the broker rejects, and  *)
(* whether the cash left buys any share, is the environment's choice.       *)
(*                                                                         *)
(* Symbols are integers, ordered as their names are. A weight is a number   *)
(* of parts of which Weight is the strategy's whole.                        *)
(***************************************************************************)
EXTENDS Integers, SequencesExt

CONSTANTS Symbols, Closes, Weight, Fast, Slow, Lookback, Skip, Period,
          Oversold, ExitLevel, TopK, Every

ASSUME StrategiesAssumption ==
  /\ Symbols \subseteq Nat /\ IsFiniteSet(Symbols) /\ Closes \subseteq Nat \ {0}
  /\ Fast \in 1 .. Slow - 1 /\ Slow \in Nat /\ Lookback \in Nat \ {0} /\ Skip \in 0 .. Lookback - 1
  /\ Period \in Nat \ {0} /\ TopK \in Nat \ {0} /\ Every \in Nat \ {0} /\ Weight \in Nat \ {0}
  /\ Oversold \in 0 .. ExitLevel - 1 /\ ExitLevel \in 1 .. 100
  /\ Cardinality(Symbols) <= Weight    \* an equal share is never no share

VARIABLES strategy,   \* the name built from the registry, or "none"
          book        \* what the strategy remembers and what became of its intents

Strategies == {"sma_crossover", "momentum", "mean_reversion", "cross_sectional",
               "trend_following", "equal_weight", "buy_and_hold"}

\* The history a strategy asks for; the engine keeps all of it.
Asked ==
  CASE strategy = "sma_crossover" -> Slow
    [] strategy \in {"momentum", "cross_sectional"} -> Lookback + 1
    [] strategy = "mean_reversion" -> Period + 1
    [] strategy = "trend_following" -> Lookback + Skip + 1
    [] OTHER -> 0

Fresh == [hist |-> [x \in Symbols |-> <<>>], long |-> {}, since |-> Every,
          alloc |-> <<>>, established |-> FALSE, held |-> {}, pending |-> <<>>,
          intents |-> <<>>, standing |-> [x \in Symbols |-> 0], whole |-> TRUE, clean |-> 0]

LastOf(h, n) == SubSeq(h, Len(h) - n + 1, Len(h))
Sum(h) == SumFunction(h)

-----------------------------------------------------------------------------
(* Long or flat, symbol by symbol, an intent only on a transition *)
Transition(b, bars, wants) ==
  LET changed == {x \in DOMAIN wants : wants[x] # (x \in b.long)}
  IN [b EXCEPT !.long = (@ \ changed) \union {x \in changed : wants[x]},
               !.intents = [x \in changed |-> IF wants[x] THEN Weight \div Cardinality(DOMAIN bars) ELSE 0]]

\* The symbols of the bar whose history is long enough to judge.
Ready(b, bars, n) == {x \in DOMAIN bars : Len(b.hist[x]) >= n}

SmaCrossover(b, bars) ==
  LET Crossed(x) == Sum(LastOf(b.hist[x], Fast)) * Slow >= Sum(LastOf(b.hist[x], Slow)) * Fast
  IN Transition(b, bars, [x \in Ready(b, bars, Slow) |-> Crossed(x)])

Momentum(b, bars) ==
  LET Rising(x) == Last(b.hist[x]) > LastOf(b.hist[x], Lookback + 1)[1]
  IN Transition(b, bars, [x \in Ready(b, bars, Lookback + 1) |-> Rising(x)])

\* The oscillator as a ratio.
Rsi(h) ==
  LET steps == [i \in 1 .. Len(h) - 1 |-> h[i + 1] - h[i]]
      gains == Sum([i \in DOMAIN steps |-> IF steps[i] >= 0 THEN steps[i] ELSE 0])
      losses == Sum([i \in DOMAIN steps |-> IF steps[i] < 0 THEN -steps[i] ELSE 0])
  IN IF losses > 0 THEN <<100 * gains, gains + losses>> ELSE IF gains > 0 THEN <<100, 1>> ELSE <<50, 1>>

IsOversold(h) == LET r == Rsi(h) IN r[1] < Oversold * r[2]
IsRecovered(h) == LET r == Rsi(h) IN r[1] > ExitLevel * r[2]

MeanReversion(b, bars) ==
  LET Wants(x) == LET h == LastOf(b.hist[x], Period + 1)
                  IN IF x \in b.long THEN ~IsRecovered(h) ELSE IsOversold(h)
  IN Transition(b, bars, [x \in Ready(b, bars, Period + 1) |-> Wants(x)])

-----------------------------------------------------------------------------
(* The whole book at once, every `Every` bars *)
Rebalance(b, bars, scored, target) ==
  LET since == IF b.since < Every THEN b.since + 1 ELSE Every
  IN IF scored = {} \/ since < Every THEN [b EXCEPT !.since = since, !.intents = <<>>]
     ELSE [b EXCEPT !.since = 0, !.intents = [x \in DOMAIN bars |-> target[x]]]

\* Ranked by trailing return, ties by name.
CrossSectional(b, bars) ==
  LET scored == Ready(b, bars, Lookback + 1)
      First(x) == LastOf(b.hist[x], Lookback + 1)[1]
      Score(x, y) == Last(b.hist[x]) * First(y)
      Ahead(x, y) == Score(x, y) > Score(y, x) \/ (Score(x, y) = Score(y, x) /\ x < y)
      Wins(x) == x \in scored /\ Cardinality({y \in scored : y # x /\ Ahead(y, x)}) < TopK
  IN Rebalance(b, bars, scored, [x \in DOMAIN bars |-> IF Wins(x) THEN Weight \div TopK ELSE 0])

\* The return from Lookback + Skip bars ago to Skip bars ago.
TrendFollowing(b, bars) ==
  LET span == Lookback + Skip + 1
      scored == Ready(b, bars, span)
      trending == {x \in scored : LET h == LastOf(b.hist[x], span) IN h[span - Skip] > h[1]}
  IN Rebalance(b, bars, scored,
               [x \in DOMAIN bars |-> IF x \in trending THEN Weight \div Cardinality(trending) ELSE 0])

EqualWeight(b, bars) ==
  [b EXCEPT !.intents = [x \in DOMAIN bars |-> Weight \div Cardinality(DOMAIN bars)]]

-----------------------------------------------------------------------------
(* Buy and hold: the allocation is frozen, the attempt is not *)
\* Mutant: the entry is latched before its orders have been filled.
EstablishAtOnce(b, bars, funded) ==
  LET alloc == IF b.alloc = <<>> /\ b.held = {} THEN <<DOMAIN bars>> ELSE b.alloc
  IN IF b.established THEN [b EXCEPT !.intents = <<>>]
     ELSE [b EXCEPT !.alloc = alloc, !.established = TRUE,
                    !.intents = [x \in DOMAIN bars |-> Weight \div Cardinality(DOMAIN bars)]]

BuyAndHold(b, bars, funded) ==
  LET alloc == IF b.alloc = <<>> /\ b.held = {} THEN <<DOMAIN bars>> ELSE b.alloc
      missing == IF alloc = <<>> THEN {} ELSE alloc[1] \ b.held
      tradable == missing \intersect DOMAIN bars
  IN IF b.established THEN [b EXCEPT !.intents = <<>>]
     ELSE IF missing = {} THEN [b EXCEPT !.established = TRUE, !.intents = <<>>]
     ELSE [b EXCEPT !.alloc = alloc,
                    !.intents = IF b.held = {}
                                  THEN [x \in tradable |-> Weight \div Cardinality(alloc[1])]
                                  ELSE [x \in (IF funded THEN tradable ELSE {}) |-> 1]]

OnBar(b, bars, funded) ==
  CASE strategy = "sma_crossover"   -> SmaCrossover(b, bars)
    [] strategy = "momentum"        -> Momentum(b, bars)
    [] strategy = "mean_reversion"  -> MeanReversion(b, bars)
    [] strategy = "cross_sectional" -> CrossSectional(b, bars)
    [] strategy = "trend_following" -> TrendFollowing(b, bars)
    [] strategy = "equal_weight"    -> EqualWeight(b, bars)
    [] strategy = "buy_and_hold"    -> BuyAndHold(b, bars, funded)

-----------------------------------------------------------------------------
(* The engine around a strategy *)
\* Orders of symbols with a bar are executed or rejected, the others wait.
Settle(b, bars, rejected) ==
  LET done == (DOMAIN b.pending \intersect DOMAIN bars) \ rejected
  IN [b EXCEPT !.held = (@ \ done) \union {x \in done : b.pending[x] > 0},
               !.pending = [x \in DOMAIN b.pending \ DOMAIN bars |-> b.pending[x]]]

Extend(b, bars) ==
  [b EXCEPT !.hist = [x \in Symbols |->
     IF x \in DOMAIN bars
       THEN LET h == Append(@[x], bars[x]) IN LastOf(h, IF Len(h) < Asked THEN Len(h) ELSE Asked)
       ELSE @[x]]]

\* `standing` is the last weight asked for, `clean` the bars in a row (two at
\* most) on which every symbol traded and nothing went wrong.
Recorded(b, bars, trouble) ==
  [b EXCEPT !.pending = [x \in DOMAIN @ \union DOMAIN b.intents |->
                           IF x \in DOMAIN b.intents THEN b.intents[x] ELSE @[x]],
            !.standing = [x \in Symbols |-> IF x \in DOMAIN b.intents THEN b.intents[x] ELSE @[x]],
            !.whole = @ /\ DOMAIN bars = Symbols,
            !.clean = IF trouble \/ DOMAIN bars # Symbols THEN 0 ELSE IF @ < 2 THEN @ + 1 ELSE 2]

StrategyInit == strategy = "none" /\ book = Fresh

Build ==
  /\ strategy = "none"
  /\ strategy' \in Strategies /\ book' = book

Bar ==
  /\ strategy # "none"
  /\ \E on \in (SUBSET Symbols) \ {{}}, funded \in BOOLEAN :
       \E bars \in [on -> Closes], rejected \in SUBSET (DOMAIN book.pending \intersect on) :
         LET ready == Extend(Settle(book, bars, rejected), bars)
         IN book' = Recorded(OnBar(ready, bars, funded), bars, rejected # {} \/ ~funded)
  /\ UNCHANGED strategy

StrategyNext == Build \/ Bar

StrategySpec == StrategyInit /\ [][StrategyNext]_<<strategy, book>>

-----------------------------------------------------------------------------
\* A transition strategy has asked for exactly the longs it remembers, and no
\* strategy that has seen every symbol on every bar has asked for more than its
\* weight in all. What is asked for is held two undisturbed bars later where the
\* strategy asks again (equal weight, buy and hold): one rejected entry never
\* leaves them in cash. Buy and hold is done once it holds its allocation, and
\* never orders what it holds.
StrategiesKeepTheirBook ==
  /\ strategy \in {"sma_crossover", "momentum", "mean_reversion"} =>
       \A x \in Symbols : book.standing[x] > 0 <=> x \in book.long
  /\ book.whole /\ strategy # "buy_and_hold" => Sum(book.standing) <= Weight
  /\ strategy = "equal_weight" /\ book.clean = 2 => book.held = Symbols
  /\ strategy = "buy_and_hold" =>
       /\ book.clean = 2 => book.established
       /\ book.established => book.alloc[1] \subseteq book.held /\ DOMAIN book.pending = {}
       /\ DOMAIN book.pending \intersect book.held = {}
============================================================================
