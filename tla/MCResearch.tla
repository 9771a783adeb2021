----------------------------- MODULE MCResearch -----------------------------
(***************************************************************************)
(* A research command in small: a behaviour either picks the inputs of one *)
(* of its algorithms (Study), whose results the invariants compare with    *)
(* what they are there for, or runs one strategy bar by bar.               *)
(***************************************************************************)
EXTENDS Sweep, Sources, Strategies

VARIABLE study

Fill(t, s, q, p) == [ts |-> t, side |-> s, qty |-> q, price |-> p]

\* Blotters of a long-only run: a position is opened, added to, reduced or closed,
\* and perhaps opened again on the last bar.
Blotters ==
  { <<Fill(t[1], "BUY", 1, 1), Fill(t[2], "BUY", 1, 3), Fill(t[3], "SELL", q, 2)>>
      \o (IF again THEN <<Fill(5, "BUY", 1, 1)>> ELSE <<>>) :
    t \in {<<2, 2, 3>>, <<2, 3, 4>>, <<2, 4, 5>>, <<4, 4, 5>>}, q \in 1 .. 2, again \in BOOLEAN }

Held(c) == [t \in DOMAIN c |-> IF c[5] = 1 THEN 0 ELSE t \div 2]

Curves(stamps) == {c \in [stamps -> {1, 2, 4}] : Cardinality(stamps) < 4 \/ c[1] = 2}

Draws == << <<1, 2, 3>>, <<2, 3, 3>>, <<3, 3, 1>> >>
Orders == << <<1, 2, 3>>, <<2, 3, 1>>, <<3, 2, 1>> >>

StudyRun ==
  /\ study.of = "curve"
  /\ \E f \in Blotters : study' = [of |-> "run", curve |-> study.curve, fills |-> f]

StudyPair ==
  /\ study.of = "curve"
  /\ \E d \in {{1, 2, 4}, {2, 3}, {3}} : \E b \in Curves(d) :
       study' = [of |-> "pair", curve |-> study.curve, bench |-> b]

StudySignificance ==
  /\ study.of = "curve"
  /\ \E requested \in {1, 3}, prior \in {0, 2}, t \in {Absent, <<1>>, <<1, 3>>},
        b \in {Absent} \union Curves({1, 2}) \union {x \in Curves(1 .. 5) : x[5] = 1} :
       study' = [of |-> "significance", curve |-> Restrict(study.curve, 1 .. 4), bench |-> b,
                 requested |-> requested, trials |-> t, prior |-> prior]

StudyCurve ==
  /\ study.of = "none"
  /\ \E c \in Curves(1 .. 5) : study' = [of |-> "curve", curve |-> c]

StudySweep ==
  /\ study.of = "none"
  /\ \E g \in {<<2, 2>>, <<3, 1>>}, windows \in 1 .. 2 :
       LET combos == ToSet(ExpandGrid(g))
       IN \E out \in {{}, {<<1, 1>>}, {<<2, 1>>, <<1, 2>>}, combos}, empty \in SUBSET (1 .. windows),
             s \in [combos -> {-1, 0, 2}] :
            study' = [of |-> "sweep", windows |-> windows,
                      summary |-> RunSweep(g, combos \ out, windows, empty, s)]

StudyFolds ==
  /\ study.of = "none"
  /\ \E end \in {0, 5, 8, 12, 13}, folds \in 0 .. 3, mode \in {"anchored", "rolling"},
        runnable \in {<<>>, <<1>>, <<1, 2>>}, s \in [{1, 2} -> [1 .. 3 -> {0, 1}]] :
       \E tape \in {0 .. end, {t \in 0 .. end : t % 3 = 0}, 4 .. end, {0, 7}} :
         study' = [of |-> "folds", folds |-> folds, runnable |-> runnable, end |-> end,
                   walk |-> RunWalkForward(0, end, folds, mode, runnable, tape, s)]

StudyCosts ==
  /\ study.of = "none"
  /\ \E asked \in {<<>>, <<5>>, <<10, 0, 5>>, <<5, 0, 5>>}, v \in [{0, 5, 10} -> -1 .. 2] :
       study' = [of |-> "costs", asked |-> asked, value |-> v]

\* A symbol whose true price is v on each of its days; its raw price is the ratio
\* higher before a split, and so is a close the venue did not adjust.
Listing(days, v, split, applied, up, rawUp, splitsUp, gap) ==
  LET Raw(t) == IF t < split.day THEN (v[t] * split.ratio[1]) \div split.ratio[2] ELSE v[t]
      Quote(t) == [ts |-> t, raw |-> IF t = gap THEN 0 ELSE Raw(t),
                 close |-> IF applied THEN v[t] ELSE Raw(t), volume |-> 1]
  IN [up |-> up, rawUp |-> rawUp, splitsUp |-> splitsUp, splits |-> {split},
      bars |-> {Quote(t) : t \in days}]

StudySplit ==
  /\ study.of = "none"
  /\ \E days \in {{1, 2, 3, 4}, {1, 3}, {3, 4}}, v \in [1 .. 4 -> {4, 8}], day \in 2 .. 4,
       ratio \in {<<2, 1>>, <<1, 2>>, <<5, 4>>}, answers \in [{"up", "raw", "splits"} -> BOOLEAN],
       applied \in BOOLEAN, gap \in {0, 3} :
       study' = [of |-> "split", split |-> [day |-> day, ratio |-> ratio], applied |-> applied,
                 p |-> Listing(days, v, [day |-> day, ratio |-> ratio], applied, answers["up"],
                               answers["raw"], answers["splits"], gap)]

\* Six days, the run starting on the fourth: a venue's symbol may be down, not yet
\* listed, thinly traded, or still carry the split of its third day.
Listed(days, applied, up, continuous) ==
  [Listing(days, [t \in 1 .. 6 |-> 4], [day |-> 3, ratio |-> <<2, 1>>], applied, up, TRUE, TRUE, 0)
     EXCEPT !.splits = IF continuous THEN {} ELSE @]

Listings ==
  { Listed(days, applied, up, continuous) :
    days \in {1 .. 6, {1, 2, 3}, {4, 5, 6}, {2, 4}, {}}, applied \in BOOLEAN, up \in BOOLEAN,
    continuous \in BOOLEAN }

StudySources ==
  /\ study.of = "none"
  /\ \E venue \in [{"a", "b"} -> Listings], symbols \in {<<"a", "b">>, <<"b", "a", "b">>},
       continuous \in BOOLEAN, floor \in {<<0, 1>>, <<5, 1>>} :
       /\ continuous => \A s \in {"a", "b"} : venue[s].splits = {}
       /\ study' = [of |-> "sources", venue |-> venue, symbols |-> symbols,
                    run |-> [start |-> 4, end |-> 6, days |-> 2, adv |-> floor, tier |-> <<6, 1>>,
                             density |-> <<4, 5>>, continuous |-> continuous]]

StudyRecords ==
  /\ study.of = "none"
  /\ \/ \E n \in 1 .. 3 : \E answers \in [1 .. n -> [refused : BOOLEAN, bars : {<<>>, <<1>>, <<2>>}]] :
          study' = [of |-> "cache", answers |-> answers]
     \/ \E n \in 1 .. 3 : \E days \in [1 .. n -> 1 .. 3],
          sets \in [1 .. n -> [added : SUBSET {"a", "b"}, removed : {{}, {"a"}}]] :
          study' = [of |-> "index",
                    changes |-> [i \in 1 .. n |-> [day |-> days[i], added |-> sets[i].added,
                                                  removed |-> sets[i].removed]]]
     \/ \E symbols \in {<<"a", "b">>, <<"b", "a", "b">>, <<"a", "a">>},
          asset \in [{"a", "b"} -> [answers : BOOLEAN, tradable : BOOLEAN, fractionable : BOOLEAN]] :
          study' = [of |-> "universe", symbols |-> symbols, asset |-> asset]
     \/ \E n \in 0 .. 3 : \E rows \in [1 .. n -> [ts : 1 .. 3, wellFormed : BOOLEAN]] :
          study' = [of |-> "file", rows |-> rows]

Study ==
  \/ StudySweep \/ StudyFolds \/ StudyCosts \/ StudyCurve \/ StudyRun \/ StudyPair
  \/ StudySignificance \/ StudySplit \/ StudySources \/ StudyRecords

Init == study = [of |-> "none"] /\ StrategyInit

Next ==
  \/ strategy = "none" /\ Study /\ UNCHANGED <<strategy, book>>
  \/ study.of = "none" /\ StrategyNext /\ UNCHANGED study

Spec == Init /\ [][Next]_<<study, strategy, book>>

\* The regimes of compute_regime_report partition a run: every bar and every fill
\* is of one regime, so their entries, closing trades, wins and traded notional add
\* up to those of the whole run, also where a position is opened in one and closed
\* in another (_regime_trade_stats).
RegimesAddUp == study.of = "run" => RegimesPartition(study.curve, study.fills)

\* The drawdown of max_drawdown is the deepest fall of the curve, and a run is over
\* its cost budget (assess_cost_budget) exactly above the ceiling that implies.
FallsAndCostsAreExact ==
  study.of = "run" =>
    /\ DrawdownIsTheDeepestFall(Values(study.curve))
    /\ BudgetIsTheCeiling(study.fills, Values(study.curve), [i \in DOMAIN study.fills |-> i % 2], 1)

\* Nothing of a run is lost or counted twice in its regimes, and its drawdown and
\* its cost verdict are what they say.
RunIsMeasured == RegimesAddUp /\ FallsAndCostsAreExact

\* Figures of one run that metrics.py computes apart agree: the regimes rebuild the
\* run and its returns the curve, a comparison reads both curves at the same
\* moments (align_curves), a significance figure that is absent has a note that says
\* why, a benchmark is resampled by the draws of the run, and a reshuffled run ends
\* where the run ended.
FiguresAgree ==
  /\ study.of = "run" =>
       /\ PathIsTheCurve(study.curve)
       /\ RegimesRebuildTheRun(study.curve, study.fills, Held(study.curve))
  /\ study.of = "pair" =>
       LET shared == DOMAIN study.curve \intersect DOMAIN study.bench
       IN ComparisonIsCoherent(Compare(study.curve, study.bench), Compare(study.bench, study.curve),
                               Compare(study.curve, study.curve),
                               Compare(Restrict(study.curve, shared), Restrict(study.bench, shared)), shared)
  /\ study.of = "significance" =>
       LET reported == IF study.trials = Absent THEN <<1>> ELSE study.trials
       IN /\ AbsencesAreExplained(Significance(study.curve, study.bench, study.requested, Draws,
                                               study.trials, study.prior),
                                  Cardinality(DOMAIN study.curve) - 1, Deflated(reported, 0), study.prior)
          /\ study.bench # Absent => PairedIsFair(study.curve, study.bench, Draws)
          /\ ShufflesKeepTheRun(MonteCarlo(study.curve, Orders), DailyReturns(study.curve), Orders)

\* A search leaves nothing out and sees nothing twice (sweep.py): every trial that
\* ran is counted in the deflation of the winner, plateaus are mutual, windows tile
\* the period, no fold trades a day its selection has seen, every fold requested is
\* run or explained, and an edge dies at one cost level only.
SearchIsAccounted ==
  /\ study.of = "sweep" =>
       /\ TrialsAreAccounted(study.summary, study.windows, 2)
       /\ PlateausAreMutual(study.summary)
  /\ study.of = "folds" =>
       /\ OutOfSampleIsUnseen(study.walk)
       /\ FoldsAreAccounted(study.walk, study.folds, study.runnable, 2)
       /\ \A w \in 0 .. 3 : WindowsTile(0, study.end, w)
  /\ study.of = "costs" => EdgeDiesOnce(study.asked, study.value, 0)

\* The screens of a command judge a symbol by what was known before its run
\* starts, and load what they kept as the venue quotes it (_apply_liquidity_screen,
\* formation_window, load_series).
ScreensAreBlind ==
  study.of = "sources" =>
    LET past == [s \in DOMAIN study.venue |-> Until(study.venue[s], study.run.start)]
    IN PreparedFromThePast(Prepare(study.venue, study.symbols, study.run),
                           Prepare(past, study.symbols, study.run), study.symbols, study.run)

\* A series that reaches a run is one its source vouches for: a split the venue
\* left in is refused and a real crash is not taken for one
\* (_verify_splits_applied), a source that refused is never cached as one with no
\* bars, a file is served whole or not at all, the members of an index on a day are
\* those of its replayed changes, and a symbol of the universe is dropped for a
\* reason or kept.
SeriesAreVouchedFor ==
  /\ study.of = "split" =>
       \A from \in 1 .. 2, to \in 3 .. 4 : SplitIsCaught(study.p, study.split, study.applied, from, to)
  /\ study.of = "cache" => RefusalIsNotAbsence(study.answers)
  /\ study.of = "file" => FileIsServedWhole(study.rows, 1, 2)
  /\ study.of = "index" => \A day \in 0 .. 4 : MembershipIsTheReplay(study.changes, day)
  /\ study.of = "universe" => UniverseIsJudged(study.symbols, study.asset)
=============================================================================
