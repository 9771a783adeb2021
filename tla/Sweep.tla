------------------------------- MODULE Sweep -------------------------------
(***************************************************************************)
(* Parameter sweeps and walk-forwards (sweep.py). One run of the engine is *)
(* a score and a number of bars, given by parameters: which spans hold data *)
(* and how each combination scores on each of them. Time is in ticks.       *)
(***************************************************************************)
EXTENDS Metrics, Selections

CONSTANT Day        \* ticks of one calendar day

ASSUME SweepAssumption == Day \in Nat \ {0}

Span(from, to) == [from |-> from, to |-> to]
BarsIn(tape, span) == {t \in tape : span.from <= t /\ t <= span.to}

NextDayStart(t) == ((t \div Day) + 1) * Day

SplitWindows(start, end, windows) ==
  IF windows <= 1 \/ end <= start THEN <<Span(start, end)>>
  ELSE LET width == (end - start) \div windows
           Bound(i) == IF i = windows THEN end ELSE start + width * i
       IN [i \in 1 .. windows |-> Span(Bound(i - 1), Bound(i))]

\* Mutant: the out-of-sample span starts where the in-sample span ends.
SplitFoldsSharingTheDay(start, end, folds, mode) ==
  IF folds < 1 \/ end <= start THEN <<>>
  ELSE LET segments == SplitWindows(start, end, folds + 1)
       IN [k \in 1 .. folds |->
             [inSample |-> Span(IF mode = "anchored" THEN start ELSE segments[k].from, segments[k].to),
              outOfSample |-> Span(segments[k].to, segments[k + 1].to)]]

SplitFolds(start, end, folds, mode) ==
  IF folds < 1 \/ end <= start THEN <<>>
  ELSE LET segments == SplitWindows(start, end, folds + 1)
       IN [k \in 1 .. folds |->
             [inSample |-> Span(IF mode = "anchored" THEN start ELSE segments[k].from, segments[k].to),
              outOfSample |-> Span(NextDayStart(segments[k].to), segments[k + 1].to)]]

\* A grid gives the number of values of each of two axes; the second varies fastest.
ExpandGrid(grid) ==
  [k \in 1 .. grid[1] * grid[2] |-> <<((k - 1) \div grid[2]) + 1, ((k - 1) % grid[2]) + 1>>]

\* The combinations the constructor accepts, in grid order, and the others.
PartitionGrid(grid, accepted) ==
  LET all == ExpandGrid(grid)
      good == {k \in DOMAIN all : all[k] \in accepted}
  IN [runnable |-> Selected(all, good), skipped |-> Selected(all, DOMAIN all \ good)]

\* The first of the best, as a stable sort and as max both give it.
Best(rows) ==
  rows[Min({i \in DOMAIN rows : \A j \in DOMAIN rows : rows[j].score <= rows[i].score})]

-----------------------------------------------------------------------------
(* The sweep: every accepted combination over every window that has data *)

RunSweep(grid, accepted, windows, empty, score) ==
  LET combos == PartitionGrid(grid, accepted)
      every == [k \in 1 .. Len(combos.runnable) * windows |->
                  LET combo == combos.runnable[((k - 1) \div windows) + 1]
                      window == ((k - 1) % windows) + 1
                  IN [params |-> combo, window |-> window, score |-> score[combo] * window]]
  IN [runs |-> Selected(every, {k \in DOMAIN every : every[k].window \notin empty}),
      skipped |-> combos.skipped, grid |-> grid,
      emptyWindows |-> IF every = <<>> THEN {} ELSE empty]

TrialSharpes(summary) == [i \in DOMAIN summary.runs |-> summary.runs[i].score]

DeflatedWinner(summary, prior) ==
  IF summary.runs = <<>> THEN Absent
  ELSE [winner |-> Best(summary.runs), by |-> Deflated(TrialSharpes(summary), prior)]

Scored(summary) == {summary.runs[i].params : i \in DOMAIN summary.runs}

\* The mean over the windows of a combination, as a sum and a count.
ComboScore(summary, combo) ==
  LET own == {i \in DOMAIN summary.runs : summary.runs[i].params = combo}
  IN <<SumFunction([i \in own |-> summary.runs[i].score]), Cardinality(own)>>

\* One step along one axis, in the order of its values, among the scored ones.
Neighbours(summary, combo) ==
  {n \in Scored(summary) : \E axis \in 1 .. 2 :
     /\ Magnitude(n[axis] - combo[axis]) = 1
     /\ n[3 - axis] = combo[3 - axis]}

AddRatios(p, q) == <<p[1] * q[2] + q[1] * p[2], p[2] * q[2]>>

Stability(summary) ==
  [combo \in Scored(summary) |->
     LET near == Neighbours(summary, combo)
         mean == FoldSet(LAMBDA n, sum : AddRatios(ComboScore(summary, n), sum), Zero, near)
         own == ComboScore(summary, combo)
     IN [score |-> own, count |-> Cardinality(near),
         gap |-> IF near = {} THEN Absent
                 ELSE <<own[1] * mean[2] * Cardinality(near) - mean[1] * own[2],
                        own[2] * mean[2] * Cardinality(near)>>]]

\* Levels of slippage in ascending order, each with the value the run had there.
EdgeDeath(levels, value, threshold) ==
  LET Dead(i) == value[i] <= threshold
      falls == {i \in 2 .. Len(levels) : Dead(i) /\ ~Dead(i - 1)}
  IN IF levels = <<>> THEN Absent
     ELSE IF Dead(1) THEN [crossing |-> <<levels[1], 1>>, dead |-> TRUE, survives |-> FALSE]
     ELSE IF falls = {} THEN [crossing |-> Absent, dead |-> FALSE, survives |-> TRUE]
     ELSE LET hi == Min(falls)
              drop == value[hi - 1] - value[hi]
          IN [crossing |-> <<levels[hi - 1] * drop
                               + (value[hi - 1] - threshold) * (levels[hi] - levels[hi - 1]), drop>>,
              dead |-> FALSE, survives |-> FALSE]

\* The winner again at every distinct level; tiers of slippage per symbol refuse.
CostSensitivity(asked, tiered, valueAt, threshold) ==
  IF asked = <<>> \/ tiered THEN Absent
  ELSE LET levels == Ascending(ToSet(asked))
       IN [levels |-> levels,
           death |-> EdgeDeath(levels, [i \in DOMAIN levels |-> valueAt[levels[i]]], threshold)]

-----------------------------------------------------------------------------
(* The walk-forward *)

\* Fold k: the best of its in-sample span, run once on its out-of-sample span.
RunFold(k, span, runnable, tape, score) ==
  LET scored == [i \in DOMAIN runnable |->
                   [params |-> runnable[i], score |-> score[runnable[i]][k]]]
      is == BarsIn(tape, span.inSample)
      oos == BarsIn(tape, span.outOfSample)
      Unusable(why) == [index |-> k, usable |-> FALSE, why |-> why]
  IN IF runnable = <<>> THEN Unusable("no combination")
     ELSE IF is = {} THEN Unusable("no in-sample data")
     ELSE IF oos = {} THEN Unusable("no out-of-sample data")
     ELSE [index |-> k, usable |-> TRUE, params |-> Best(scored).params, seen |-> is, tested |-> oos,
           sharpes |-> [i \in DOMAIN scored |-> scored[i].score],
           warnings |-> {w \in {"in", "out"} : Cardinality(IF w = "in" THEN is ELSE oos) < 2}]

RunWalkForward(start, end, folds, mode, runnable, tape, score) ==
  LET spans == SplitFolds(start, end, folds, mode)
  IN [i \in DOMAIN spans |-> RunFold(i, spans[i], runnable, tape, score)]

Completed(walk) == Selected(walk, {i \in DOMAIN walk : walk[i].usable})

\* Every candidate of every completed fold.
InSampleTrials(walk) ==
  FoldLeft(LAMBDA all, f : all \o f.sharpes, <<>>, Completed(walk))

DeflatedInSample(walk, prior) ==
  IF InSampleTrials(walk) = <<>> THEN Absent ELSE Deflated(InSampleTrials(walk), prior)

-----------------------------------------------------------------------------
\* Nothing that an out-of-sample run sees was seen by the search that picked its
\* parameters, or by another out-of-sample run: its bars all come later, with a
\* night in between, in both modes and on tapes with holes.
OutOfSampleIsUnseen(walk) ==
  \A i \in DOMAIN Completed(walk) :
    LET f == Completed(walk)[i]
    IN /\ \A a \in f.seen, b \in f.tested : a \div Day < b \div Day
       /\ \A j \in 1 .. i - 1 : Completed(walk)[j].tested \intersect f.tested = {}

\* Every fold is completed or has its reason, and the deflation counts exactly the
\* candidates of the completed folds, each of which scored the whole grid.
FoldsAreAccounted(walk, folds, runnable, prior) ==
  /\ walk # <<>> => Len(walk) = folds
  /\ Len(InSampleTrials(walk)) = Len(Completed(walk)) * Len(runnable)
  /\ DeflatedInSample(walk, prior) # Absent =>
       DeflatedInSample(walk, prior).trials = Len(InSampleTrials(walk)) + prior
  /\ \A i \in DOMAIN walk : ~walk[i].usable /\ runnable # <<>> =>
       walk[i].why \in {"no in-sample data", "no out-of-sample data"}

\* The windows of a sweep cover the range and touch only in one instant.
WindowsTile(start, end, windows) ==
  LET w == SplitWindows(start, end, windows)
  IN /\ w[1].from = start /\ w[Len(w)].to = end
     /\ \A i \in 1 .. Len(w) - 1 : w[i].to = w[i + 1].from
     /\ start < end => \A i \in DOMAIN w : w[i].from <= w[i].to

\* Every cell of grid and windows is a run, a rejected combination or an empty
\* window, and never two of these; the winner is deflated by as many trials as ran.
TrialsAreAccounted(summary, windows, prior) ==
  LET d == DeflatedWinner(summary, prior)
      cells == Len(ExpandGrid(summary.grid)) * windows
  IN /\ cells = Len(summary.runs) + Len(summary.skipped) * windows
                + (Len(ExpandGrid(summary.grid)) - Len(summary.skipped))
                  * Cardinality(summary.emptyWindows)
     /\ (d = Absent) = (summary.runs = <<>>)
     /\ d # Absent => /\ d.by.trials = Len(summary.runs) + prior
                      /\ \A i \in DOMAIN summary.runs : summary.runs[i].score <= d.winner.score

\* To be on a plateau is mutual: neighbours see each other, nobody is its own
\* neighbour, and the best combination never lies below all of its neighbours.
PlateausAreMutual(summary) ==
  LET rows == Stability(summary)
  IN /\ \A c \in DOMAIN rows : c \notin Neighbours(summary, c)
     /\ \A c, n \in DOMAIN rows :
          (n \in Neighbours(summary, c)) = (c \in Neighbours(summary, n))
     /\ \A c \in DOMAIN rows : rows[c].count <= 4
     /\ \A c \in DOMAIN rows :
          (\A n \in DOMAIN rows : AtLeast(rows[c].score, rows[n].score)) /\ rows[c].gap # Absent
          => rows[c].gap[1] >= 0

\* An edge dies once: at the cheapest level, between the last level before which it
\* always lived and the first dead one, or not within the levels at all.
EdgeDiesOnce(asked, valueAt, threshold) ==
  LET x == CostSensitivity(asked, FALSE, valueAt, threshold)
      alive == {l \in ToSet(asked) : \A m \in ToSet(asked) : m <= l => valueAt[m] > threshold}
      dead == ToSet(asked) \ alive
  IN x # Absent =>
       /\ x.death.dead = (alive = {})
       /\ x.death.survives = (dead = {})
       /\ alive # {} /\ dead # {} =>
            /\ Less(<<Max(alive), 1>>, x.death.crossing)
            /\ ~Less(<<Min(dead), 1>>, x.death.crossing)
=============================================================================
