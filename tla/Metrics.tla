------------------------------ MODULE Metrics ------------------------------
(***************************************************************************)
(* The figures of a finished run (metrics.py), exactly: a return is a whole *)
(* number of quarters, and a figure that divides or takes a root is a pair  *)
(* <<numerator, denominator>>, squared with its sign where the code takes a *)
(* square root. Equity is positive, as NoBorrowing of the Engine gives.     *)
(*                                                                         *)
(* An equity curve is a function from timestamps to equity; `held` is the   *)
(* function from the same timestamps to the exposure. A fill is a record    *)
(* [ts, side, qty, price] of one symbol.                                    *)
(***************************************************************************)
EXTENDS Integers, SequencesExt

CONSTANTS Window,     \* REGIME_WINDOW
          MinObs,     \* MIN_BOOTSTRAP_OBSERVATIONS
          MinBlocks   \* MIN_BLOCKS_PER_RESAMPLE

ASSUME MetricsAssumption ==
  /\ Window \in Nat \ {0, 1} /\ MinObs \in Nat \ {0, 1} /\ MinBlocks \in Nat \ {0}

Absent == <<>>
Quarter == 4

(* Ratios *)
Less(p, q) == p[1] * q[2] < q[1] * p[2]
Same(p, q) == p[1] * q[2] = q[1] * p[2]
AtLeast(p, q) == ~Less(p, q)
Zero == <<0, 1>>
Halved(p) == IF p[1] % 2 = 0 /\ p[2] % 2 = 0 THEN <<p[1] \div 2, p[2] \div 2>> ELSE p
Lowest(p) == FoldLeft(LAMBDA q, k : Halved(q), p, [k \in 1 .. 16 |-> k])
SignedSquare(x) == IF x < 0 THEN -(x * x) ELSE x * x
Magnitude(x) == IF x < 0 THEN -x ELSE x

(* Series *)
Ascending(S) == [i \in 1 .. Cardinality(S) |->
                   CHOOSE x \in S : Cardinality({y \in S : y <= x}) = i]
Stamps(c) == Ascending(DOMAIN c)
Values(c) == LET ts == Stamps(c) IN [i \in DOMAIN ts |-> c[ts[i]]]
Squares(r) == SumFunction([i \in DOMAIN r |-> r[i] * r[i]])
Products(r, s) == SumFunction([i \in DOMAIN r |-> r[i] * s[i]])

\* n(n-1) times the sample variance, and the sample covariance.
Variance(r) == Len(r) * Squares(r) - SumFunction(r) * SumFunction(r)
Covariance(r, s) == Len(r) * Products(r, s) - SumFunction(r) * SumFunction(s)

StepReturns(v) ==
  [i \in 1 .. Len(v) - 1 |->
     IF v[i] <= 0 THEN 0 ELSE (Quarter * v[i + 1]) \div v[i] - Quarter]

DailyReturns(c) == StepReturns(Values(c))

TotalReturn(v) == IF Len(v) < 2 \/ v[1] <= 0 THEN <<1, 1>> ELSE <<v[Len(v)], v[1]>>

\* Squared with its sign; the annualisation is a positive factor of every Sharpe.
SharpeOf(r) ==
  IF Len(r) < 2 \/ Variance(r) = 0 THEN Zero
  ELSE <<SignedSquare(SumFunction(r)) * (Len(r) - 1), Len(r) * Variance(r)>>

\* Of a curve, and below of a bare series: two functions of the source.
Sortino(c) ==
  LET r == DailyReturns(c)
      downside == SumFunction([i \in DOMAIN r |-> Min({r[i], 0}) ^ 2])
  IN IF Len(r) < 2 \/ downside = 0 THEN Zero
     ELSE <<SignedSquare(SumFunction(r)) * (Len(r) - 1), Len(r) * Len(r) * downside>>

Losses(r) == [i \in DOMAIN r |-> IF r[i] < 0 THEN r[i] ELSE 0]

SortinoOf(r) ==
  IF Len(r) < 2 \/ Squares(Losses(r)) = 0 THEN Zero
  ELSE <<SignedSquare(SumFunction(r)) * (Len(r) - 1), Len(r) * Len(r) * Squares(Losses(r))>>

\* The path a return series draws from a start, in a unit that keeps it whole.
EquityPath(r, start) ==
  FoldLeft(LAMBDA path, x : Append(path, (Last(path) * (x + Quarter)) \div Quarter),
           <<start * Quarter ^ Len(r)>>, r)

\* One scan with a running peak, of a curve or of a path drawn from returns.
MaxDrawdown(path) ==
  Lowest(FoldLeft(LAMBDA a, x :
             LET peak == IF x > a.peak THEN x ELSE a.peak
             IN [peak |-> peak, worst |-> IF Less(a.worst, <<peak - x, peak>>)
                                          THEN <<peak - x, peak>> ELSE a.worst],
           [peak |-> Head(path), worst |-> Zero], path).worst)

AverageExposure(held) == <<SumFunction(held), Cardinality(DOMAIN held)>>

-----------------------------------------------------------------------------
(* Trades *)

NoTrades == [qty |-> 0, cost |-> Zero, wins |-> 0, closes |-> 0, entries |-> 0, traded |-> 0]

\* Mutant: a position is followed only through the fills of the regime.
RegimeTradeStatsAlone(fills, stamps) ==
  FoldLeft(
    LAMBDA a, f :
      IF f.ts \notin stamps THEN a
      ELSE [a EXCEPT !.qty = IF f.side = "BUY" THEN @ + f.qty ELSE @ - f.qty,
                     !.entries = IF f.side = "BUY" /\ a.qty <= 0 THEN @ + 1 ELSE @,
                     !.closes = IF f.side = "SELL" THEN @ + 1 ELSE @,
                     !.traded = @ + f.qty * f.price],
    NoTrades, fills)

\* The position is followed through every fill; only what happens at a stamp of
\* the regime is counted.
RegimeTradeStats(fills, stamps) ==
  FoldLeft(
    LAMBDA a, f :
      LET counted == IF f.ts \in stamps THEN 1 ELSE 0
          bought == a.qty + f.qty
      IN IF f.side = "BUY"
         THEN [a EXCEPT !.qty = bought,
                        !.entries = IF a.qty <= 0 THEN @ + counted ELSE @,
                        !.traded = @ + counted * f.qty * f.price,
                        !.cost = <<a.qty * a.cost[1] + f.qty * f.price * a.cost[2],
                                   a.cost[2] * bought>>]
         ELSE [a EXCEPT !.qty = @ - f.qty,
                        !.closes = @ + counted,
                        !.wins = IF Less(a.cost, <<f.price, 1>>) THEN @ + counted ELSE @,
                        !.traded = @ + counted * f.qty * f.price],
    NoTrades, fills)

EntryCount(fills) ==
  LET HeldBefore(i) == SumFunction([j \in 1 .. i - 1 |->
                         IF fills[j].side = "BUY" THEN fills[j].qty ELSE -fills[j].qty])
  IN Cardinality({i \in DOMAIN fills : fills[i].side = "BUY" /\ HeldBefore(i) <= 0})

\* A walk of its own over all fills: a sell closes, and wins above the average cost.
WinRate(fills) ==
  LET end == FoldLeft(
        LAMBDA a, f :
          IF f.side = "BUY"
          THEN [a EXCEPT !.qty = @ + f.qty,
                         !.cost = <<a.qty * a.cost[1] + f.qty * f.price * a.cost[2],
                                    a.cost[2] * (a.qty + f.qty)>>]
          ELSE [a EXCEPT !.qty = @ - f.qty, !.closes = @ + 1,
                         !.wins = IF Less(a.cost, <<f.price, 1>>) THEN @ + 1 ELSE @],
        [qty |-> 0, cost |-> Zero, wins |-> 0, closes |-> 0], fills)
  IN IF end.closes = 0 THEN Zero ELSE <<end.wins, end.closes>>

TradesPerParameter(entries, parameters) ==
  IF parameters <= 0 THEN Absent ELSE <<entries, parameters>>

Notional(fills) == SumFunction([i \in DOMAIN fills |-> fills[i].qty * fills[i].price])

Turnover(fills, v) ==
  IF v = <<>> \/ SumFunction(v) <= 0 THEN Zero ELSE <<Notional(fills), SumFunction(v)>>

\* Rates are per symbol; a fill's qty and price weigh the rate of its symbol.
EffectiveRate(fills, rate) ==
  IF Notional(fills) <= 0 THEN Absent
  ELSE <<SumFunction([i \in DOMAIN fills |-> fills[i].qty * fills[i].price * rate[i]]),
         Notional(fills)>>

CostBudget(fills, v, rate, budget) ==
  LET r == EffectiveRate(fills, rate)
      t == Turnover(fills, v)
  IN IF r = Absent
     THEN [turnover |-> t, implied |-> Absent, drag |-> Absent, exceeds |-> FALSE, notes |-> 1]
     ELSE [turnover |-> t,
           implied |-> IF r[1] > 0 THEN <<budget * r[2], r[1]>> ELSE Absent,
           drag |-> <<t[1] * r[1], t[2] * r[2]>>,
           exceeds |-> Less(<<budget, 1>>, <<t[1] * r[1], t[2] * r[2]>>),
           notes |-> IF r[1] > 0 THEN 0 ELSE 1]

ReturnPerExposure(v, held) ==
  IF SumFunction(held) <= 0 THEN Absent ELSE <<TotalReturn(v), AverageExposure(held)>>

Compute(c, fills, held, parameters) ==
  [growth |-> TotalReturn(Values(c)), sharpe |-> SharpeOf(DailyReturns(c)),
   sortino |-> Sortino(c), drawdown |-> MaxDrawdown(Values(c)),
   wins |-> WinRate(fills), entries |-> EntryCount(fills), traded |-> Notional(fills),
   exposure |-> AverageExposure(held), peak |-> Max({held[t] : t \in DOMAIN held}),
   perParameter |-> TradesPerParameter(EntryCount(fills), parameters),
   perExposure |-> ReturnPerExposure(Values(c), held)]

DiversifiedNotes(held) ==
  IF \A t \in DOMAIN held : held[t] = 0 THEN {"never invested"}
  ELSE LET first == SelectInSeq(Values(held), LAMBDA h : h > 0)
       IN IF first > 2 THEN {"invested late"} ELSE {}

-----------------------------------------------------------------------------
(* Against a benchmark *)

\* Mutant: the two curves are zipped bar by bar from their ends.
AlignFromTheEnd(c, b) ==
  LET n == Min({Cardinality(DOMAIN c), Cardinality(DOMAIN b)})
      Ending(v) == SubSeq(v, Len(v) - n + 1, Len(v))
  IN [i \in 1 .. n |-> <<Ending(Values(c))[i], Ending(Values(b))[i]>>]

\* The bars both curves have, in time order.
AlignCurves(c, b) ==
  LET shared == Ascending(DOMAIN c \intersect DOMAIN b)
  IN [i \in DOMAIN shared |-> <<c[shared[i]], b[shared[i]]>>]

AlignedReturns(c, b) ==
  LET rows == AlignCurves(c, b)
  IN [own |-> StepReturns([i \in DOMAIN rows |-> rows[i][1]]),
      bench |-> StepReturns([i \in DOMAIN rows |-> rows[i][2]])]

BetaOf(s, b) ==
  IF Len(s) < 2 \/ Variance(b) = 0 THEN Absent ELSE <<Covariance(s, b), Variance(b)>>

\* Squared with its sign.
CorrelationOf(s, b) ==
  IF Len(s) < 2 \/ Variance(s) = 0 \/ Variance(b) = 0 THEN Absent
  ELSE <<SignedSquare(Covariance(s, b)), Variance(s) * Variance(b)>>

AlphaOf(s, b) ==
  LET slope == BetaOf(s, b)
  IN IF slope = Absent THEN Absent
     ELSE <<SumFunction(s) * slope[2] - slope[1] * SumFunction(b), slope[2] * Len(s)>>

InformationRatioOf(s, b) ==
  LET active == [i \in DOMAIN s |-> s[i] - b[i]]
  IN IF Len(s) < 2 \/ Variance(active) = 0 THEN Absent ELSE SharpeOf(active)

Compare(c, b) ==
  LET r == AlignedReturns(c, b)
  IN [bars |-> Len(AlignCurves(c, b)),
      beta |-> BetaOf(r.own, r.bench), alpha |-> AlphaOf(r.own, r.bench),
      correlation |-> CorrelationOf(r.own, r.bench),
      information |-> InformationRatioOf(r.own, r.bench)]

-----------------------------------------------------------------------------
(* Resampling: the draws of the generator are a parameter *)

BlockLength(observations, requested) ==
  Max({1, Min({requested, Max({1, observations \div MinBlocks})})})

\* The index lists a stationary bootstrap may draw: a block goes on, around the
\* end of the series, or restarts anywhere; blocks of one always restart.
StationaryIndices(n) == [1 .. n -> 1 .. n]

Sorted(scores) == SortSeq(scores, Less)

\* The quantile p/q of a sorted series, between its two neighbours: below, above
\* and how far in between.
Percentile(s, p, q) ==
  LET lower == ((Len(s) - 1) * p) \div q + 1
  IN [below |-> s[lower], above |-> s[Min({lower + 1, Len(s)})],
      weight |-> <<((Len(s) - 1) * p) % q, q>>]

Interpolated(p) ==
  LET b == p.below
      a == p.above
      w == p.weight
  IN <<(w[2] - w[1]) * b[1] * a[2] + w[1] * a[1] * b[2], w[2] * b[2] * a[2]>>

Resampled(r, indices) == [i \in DOMAIN r |-> r[indices[i]]]

SharpeInterval(c, requested, draws) ==
  LET r == DailyReturns(c)
      scores == Sorted([d \in DOMAIN draws |-> SharpeOf(Resampled(r, draws[d]))])
  IN IF Len(r) < MinObs \/ Cardinality(ToSet(r)) = 1 THEN Absent
     ELSE [low |-> Percentile(scores, 1, 40), high |-> Percentile(scores, 39, 40),
           block |-> BlockLength(Len(r), requested), requested |-> requested,
           reduced |-> BlockLength(Len(r), requested) < requested]

PairedBootstrap(c, b, draws) ==
  LET r == AlignedReturns(c, b)
      Won(d) == Less(SharpeOf(Resampled(r.bench, draws[d])), SharpeOf(Resampled(r.own, draws[d])))
  IN IF Len(r.own) < MinObs THEN Absent
     ELSE <<Cardinality({d \in DOMAIN draws : Won(d)}), Len(draws)>>

ShuffledCopy(r, order) == [i \in DOMAIN r |-> r[order[i]]]

EmpiricalPercentile(sorted, value) ==
  IF sorted = <<>> THEN <<1, 2>>
  ELSE <<Cardinality({i \in DOMAIN sorted : ~Less(value, sorted[i])}), Len(sorted)>>

MonteCarlo(c, orders) ==
  LET r == DailyReturns(c)
      Fall(x) == MaxDrawdown(EquityPath(x, 1))
      falls == Sorted([o \in DOMAIN orders |-> Fall(ShuffledCopy(r, orders[o]))])
      low == Percentile(falls, 1, 40)
      high == Percentile(falls, 39, 40)
  IN IF Len(r) < MinObs THEN Absent
     ELSE [actual |-> Fall(r), low |-> low, high |-> high,
           percentile |-> EmpiricalPercentile(falls, Fall(r)),
           worse |-> Less(Interpolated(high), Fall(r)),
           better |-> Less(Fall(r), Interpolated(low))]

-----------------------------------------------------------------------------
(* Deflation *)

HasMoments(r) == Len(r) >= 2 /\ Variance(r) # 0

\* The Sharpe that the best of so many null trials is expected to show, in units
\* of their spread: zero for one trial, and growing with their number.
ExpectedMax(trials, spread) == IF trials <= 1 \/ spread <= 0 THEN 0 ELSE spread * (trials - 1)

\* Prior trials widen the number of trials and never the spread.
Deflated(sharpes, prior) ==
  LET spread == IF Len(sharpes) > 1 THEN Variance(sharpes) ELSE 0
  IN [trials |-> Len(sharpes) + prior,
      spread |-> IF Len(sharpes) > 1 THEN spread ELSE Absent,
      threshold |-> ExpectedMax(Len(sharpes) + prior, spread)]

TrialCountNote(trials, prior) ==
  IF prior <= 0 THEN [here |-> trials, carried |-> 0]
  ELSE [here |-> trials - prior, carried |-> prior]

\* trials: the Sharpe ratios the search reports, or Absent outside a search.
Significance(c, b, requested, draws, trials, prior) ==
  LET interval == SharpeInterval(c, requested, draws)
      paired == IF b = Absent THEN Absent ELSE PairedBootstrap(c, b, draws)
      sharpes == IF trials = Absent THEN <<1>> ELSE trials
      moments == HasMoments(DailyReturns(c))
      Note(when, what) == IF when THEN {what} ELSE {}
  IN [interval |-> interval, paired |-> paired,
      deflated |-> IF moments THEN Deflated(sharpes, prior) ELSE Absent,
      count |-> IF moments THEN TrialCountNote(Len(sharpes) + prior, prior) ELSE Absent,
      notes |-> Note(interval = Absent, "no interval")
                \union (IF interval = Absent THEN {} ELSE Note(interval.reduced, "short blocks"))
                \union Note(b = Absent, "no benchmark")
                \union Note(b # Absent /\ paired = Absent, "short overlap")
                \union Note(~moments, "no moments")]

-----------------------------------------------------------------------------
(* Regimes *)

Block(r, i) == SubSeq(r, i - Window + 1, i)
Classified(r) == Window .. Len(r)
Volatility(r) == [i \in Classified(r) |-> <<Variance(Block(r, i)), 1>>]
Trend(r) ==
  [i \in Classified(r) |->
     LET block == Block(r, i)
         gross == SumFunction([j \in DOMAIN block |-> Magnitude(block[j])])
     IN IF gross > 0 THEN <<Magnitude(SumFunction(block)), gross>> ELSE Zero]

\* The returns whose trailing window reaches the median of a measure: a value of
\* the series does when it reaches the upper one of the two middle values, or the
\* only one.
ReachesMedian(measure) ==
  LET sorted == SortSeq(Values(measure), Less)
  IN {i \in DOMAIN measure : AtLeast(measure[i], sorted[Len(sorted) \div 2 + 1])}

\* What one regime reports: the bar that ends a return carries its fills.
Regime(c, fills, indices) ==
  LET stats == RegimeTradeStats(fills, {Stamps(c)[i + 1] : i \in indices})
      returns == DailyReturns(c)
      order == Ascending(indices)
      own == [i \in DOMAIN order |-> returns[order[i]]]
      path == EquityPath(own, Values(c)[1])
  IN [bars |-> Cardinality(indices), entries |-> stats.entries, closes |-> stats.closes,
      wins |-> stats.wins, traded |-> stats.traded,
      growth |-> <<Last(path), Head(path)>>, sharpe |-> SharpeOf(own), sortino |-> SortinoOf(own),
      drawdown |-> MaxDrawdown(path), underpowered |-> Cardinality(indices) < MinObs]

RegimeReport(c, fills) ==
  LET r == DailyReturns(c)
      Split(indices) == <<Regime(c, fills, indices), Regime(c, fills, Classified(r) \ indices)>>
  IN IF Len(r) < Window THEN Absent
     ELSE [vol |-> Split(ReachesMedian(Volatility(r))),
           trend |-> Split(ReachesMedian(Trend(r)))]

-----------------------------------------------------------------------------
(* What the figures promise of each other *)

\* The one-pass drawdown is the deepest fall between any two bars.
FallsOf(v) == {<<v[p[1]] - v[p[2]], v[p[1]]>> : p \in {q \in (DOMAIN v) \X (DOMAIN v) : q[1] <= q[2]}}

DrawdownIsTheDeepestFall(v) ==
  /\ \A f \in FallsOf(v) : ~Less(MaxDrawdown(v), f)
  /\ \E f \in FallsOf(v) : Same(MaxDrawdown(v), f)

\* The path drawn again from the returns has the return and the drawdown of the
\* curve.
PathIsTheCurve(c) ==
  LET v == Values(c)
      path == EquityPath(DailyReturns(c), v[1])
  IN /\ Same(MaxDrawdown(path), MaxDrawdown(v))
     /\ Same(<<Last(path), Head(path)>>, TotalReturn(v))

\* The figures of a comparison are there together, have one sign, keep the
\* correlation within one, and depend on the shared bars only: a bar that one of
\* the curves lacks is no bar of the other either. `x` compares a curve with a
\* benchmark, `back` the other way round, `own` the curve with itself and `among`
\* the two on the bars they share.
ComparisonIsCoherent(x, back, own, among, shared) ==
  /\ x = among
  /\ x.bars = Cardinality(shared)
  /\ (x.alpha = Absent) = (x.beta = Absent)
  /\ (x.correlation = Absent) = (x.beta = Absent \/ back.beta = Absent)
  /\ x.correlation # Absent =>
       /\ ~Less(<<1, 1>>, x.correlation) /\ ~Less(x.correlation, <<-1, 1>>)
       /\ (x.correlation[1] > 0) = (x.beta[1] > 0)
  /\ own.information = Absent

\* Every figure a report leaves out has its note, and no note is about a figure
\* that is there; the trials of the note are those of the deflation, and more of
\* them never lower the threshold, which is `alone` without the prior trials.
AbsencesAreExplained(s, returns, alone, prior) ==
  /\ (s.interval = Absent) = ("no interval" \in s.notes)
  /\ (s.paired = Absent) = (s.notes \intersect {"no benchmark", "short overlap"} # {})
  /\ (s.deflated = Absent) = ("no moments" \in s.notes)
  /\ s.interval # Absent =>
       /\ s.deflated # Absent
       /\ s.interval.block * MinBlocks <= returns \/ s.interval.block = 1
       /\ ~Less(s.interval.high.below, s.interval.low.below)
       /\ ~Less(s.interval.high.above, s.interval.low.above)
  /\ s.deflated # Absent =>
       /\ s.count.here + s.count.carried = s.deflated.trials
       /\ s.count.carried = prior
       /\ s.deflated.threshold >= alone.threshold

\* Both curves are resampled by the same draws of the bars they share: a bar that one
\* of them alone has changes nothing, a curve never beats itself, and no draw is won
\* by both.
PairedIsFair(c, b, draws) ==
  LET p == PairedBootstrap(c, b, draws)
      shared == DOMAIN c \intersect DOMAIN b
  IN p # Absent =>
       /\ p = PairedBootstrap(Restrict(c, shared), Restrict(b, shared), draws)
       /\ PairedBootstrap(c, c, draws)[1] = 0
       /\ p[1] + PairedBootstrap(b, c, draws)[1] <= p[2]

\* A shuffle keeps the return and the Sharpe of the run; the run's own place among
\* the shuffles agrees with the verdict drawn from their quantiles.
ShufflesKeepTheRun(m, r, orders) ==
  m # Absent =>
    /\ \A o \in DOMAIN orders :
         LET s == ShuffledCopy(r, orders[o])
         IN SharpeOf(s) = SharpeOf(r) /\ Last(EquityPath(s, 1)) = Last(EquityPath(r, 1))
    /\ ~(m.worse /\ m.better)
    /\ m.better => 40 * (m.percentile[1] - 1) <= m.percentile[2] - 1
    /\ m.worse => 40 * m.percentile[1] >= 39 * (m.percentile[2] - 1)

\* A run split in two is all there: bars, entries, exits, wins and traded value of
\* the two add up to those of the whole run that fall on a classified bar, the
\* entries and the traded value as functions of their own count them.
SplitAddsUp(c, fills, two) ==
  LET r == DailyReturns(c)
      warm == {Stamps(c)[i + 1] : i \in Classified(r)}
      all == RegimeTradeStats(fills, DOMAIN c)
      early == RegimeTradeStats(fills, DOMAIN c \ warm)
  IN /\ two[1].bars + two[2].bars = Len(r) - Window + 1
     /\ two[1].entries + two[2].entries = EntryCount(fills) - early.entries
     /\ two[1].closes + two[2].closes = all.closes - early.closes
     /\ two[1].wins + two[2].wins = all.wins - early.wins
     /\ two[1].traded + two[2].traded = Notional(fills) - early.traded

RegimesPartition(c, fills) ==
  LET x == RegimeReport(c, fills)
  IN x # Absent => SplitAddsUp(c, fills, x.vol) /\ SplitAddsUp(c, fills, x.trend)

\* At least half of the classified bars reach the median, both ways of splitting
\* compound to the same growth, and the regime of all bars reports the figures of
\* the whole run, each computed by a function of its own.
RegimesRebuildTheRun(c, fills, held) ==
  LET x == RegimeReport(c, fills)
      r == DailyReturns(c)
      Both(two) == <<two[1].growth[1] * two[2].growth[1], two[1].growth[2] * two[2].growth[2]>>
      whole == Regime(c, fills, 1 .. Len(r))
      run == Compute(c, fills, held, 2)
  IN x # Absent =>
       /\ \A two \in {x.vol, x.trend} : two[1].bars >= two[2].bars
       /\ Same(Both(x.vol), Both(x.trend))
       /\ whole.sharpe = run.sharpe /\ whole.sortino = run.sortino
       /\ Same(whole.drawdown, run.drawdown) /\ Same(whole.growth, run.growth)
       /\ whole.entries = run.entries /\ whole.traded = run.traded
       /\ whole.closes = 0 \/ Same(<<whole.wins, whole.closes>>, run.wins)
       /\ (run.perExposure = Absent) = ("never invested" \in DiversifiedNotes(held))

\* A run is over its cost budget exactly when its turnover is above the ceiling
\* the budget implies.
BudgetIsTheCeiling(fills, v, rate, budget) ==
  LET x == CostBudget(fills, v, rate, budget)
  IN /\ (x.drag = Absent) => ~x.exceeds /\ x.notes = 1
     /\ x.implied # Absent => x.exceeds = Less(x.implied, x.turnover)
     /\ x.exceeds => x.implied # Absent
=============================================================================
