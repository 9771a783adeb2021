------------------------------ MODULE Sources ------------------------------
(***************************************************************************)
(* What a command finds out about its symbols before the first bar: who     *)
(* was in the index, what the broker accepts, what the provider serves, and *)
(* the screens over the days that precede the run.                          *)
(*                                                                         *)
(* Days are integers. A provider record [up, rawUp, splitsUp, bars, splits] *)
(* is one symbol at the data venue: which of its three requests answer, the *)
(* set of its bars [ts, raw, close, volume], one of a timestamp (raw = 0:   *)
(* the raw answer lacks it), and its splits [day, ratio]. A request returns *)
(* [ok, bars], the bars in order of time; ok = FALSE is an exception.       *)
(***************************************************************************)
EXTENDS Integers, SequencesExt, Selections

Raises == [ok |-> FALSE, bars |-> <<>>]
Returns(bars) == [ok |-> TRUE, bars |-> bars]

InTimeOrder(bars) == Arranged(bars, [b \in bars |-> b.ts])

Dedupe(symbols) ==
  Selected(symbols, {i \in DOMAIN symbols : \A j \in 1 .. i - 1 : symbols[j] # symbols[i]})

-----------------------------------------------------------------------------
(* The Alpaca adapter and its cross-check of the split adjustment *)
Fetch(p, from, to) ==
  IF p.up THEN Returns(InTimeOrder({b \in p.bars : from <= b.ts /\ b.ts <= to})) ELSE Raises

RawForCrossCheck(p, from, to) ==
  IF p.rawUp THEN {b \in ToSet(Fetch(p, from, to).bars) : b.raw > 0} ELSE {}

\* At least 3:2 one way or the other.
IsMeasurable(ratio) == 2 * ratio[1] >= 3 * ratio[2] \/ 3 * ratio[1] <= 2 * ratio[2]

\* The last bar before the ex-date and the first on or after it, if both are there.
Straddle(bars, day) ==
  LET before == {i \in DOMAIN bars : bars[i].ts < day}
      after == DOMAIN bars \ before
  IN IF before = {} \/ after = {} THEN {} ELSE {bars[Max(before)], bars[Min(after)]}

\* Raw over adjusted is the same on both sides of the ex-date, within 2%.
FactorUnchanged(pair) ==
  \E b, c \in pair :
    /\ b.ts < c.ts /\ b.close > 0 /\ c.close > 0
    /\ LET x == b.raw * c.close  y == b.close * c.raw
       IN 50 * (x - y) <= y /\ 50 * (y - x) <= y

\* Mutant: every split is looked for in the adjusted bars alone.
SplitLeftInAlone(p, bars, from, to) ==
  /\ p.splitsUp /\ Len(bars) >= 2
  /\ \E s \in p.splits :
       /\ from <= s.day /\ s.day <= to /\ IsMeasurable(s.ratio)
       /\ LET pair == Straddle(bars, s.day)
          IN pair # {} /\ \E b, c \in pair : b.ts < c.ts /\ 2 * b.close >= 3 * c.close

SplitLeftIn(p, bars, from, to) ==
  /\ p.splitsUp /\ Len(bars) >= 2
  /\ \E s \in p.splits :
       /\ from <= s.day /\ s.day <= to /\ IsMeasurable(s.ratio)
       /\ LET pair == Straddle(bars, s.day)
          IN pair # {} /\ pair \subseteq RawForCrossCheck(p, from, to) /\ FactorUnchanged(pair)

GetBars(p, from, to, adjusted) ==
  LET answer == Fetch(p, from, to)
  IN IF answer.ok /\ adjusted /\ SplitLeftIn(p, answer.bars, from, to) THEN Raises ELSE answer

-----------------------------------------------------------------------------
(* The CSV and yfinance adapters *)
\* One malformed row, wherever it is, and the file is refused. Rows of one
\* timestamp stay as they stand.
CsvBars(rows, from, to) ==
  LET inside == {i \in DOMAIN rows : from <= rows[i].ts /\ rows[i].ts <= to}
      order == Arranged(inside, [i \in inside |-> rows[i].ts * Len(rows) + i])
  IN IF \E i \in DOMAIN rows : ~rows[i].wellFormed THEN Raises
     ELSE Returns([j \in DOMAIN order |-> rows[order[j]]])

\* An empty answer stands unless the probe behind it was refused by name, and
\* only then is nothing written to the cache.
YFinanceBars(cache, answer) ==
  IF cache # <<>> THEN [cache |-> cache, result |-> Returns(cache[1])]
  ELSE IF answer.refused THEN [cache |-> cache, result |-> Raises]
  ELSE [cache |-> <<answer.bars>>, result |-> Returns(answer.bars)]

YFinanceReads(answers) ==
  FoldLeft(LAMBDA reads, a : LET r == YFinanceBars(reads.cache, a)
                             IN [cache |-> r.cache, results |-> Append(reads.results, r.result)],
           [cache |-> <<>>, results |-> <<>>], answers).results

-----------------------------------------------------------------------------
(* Index membership and the broker's assets *)
MembersAfter(changes, k) ==
  FoldLeft(LAMBDA members, c : (members \ c.removed) \union c.added, {}, SubSeq(changes, 1, k))

WellOrdered(changes) ==
  changes # <<>> /\ \A i \in 2 .. Len(changes) : changes[i - 1].day < changes[i].day

\* bisect_right: a change counts from its own day on.
MembersAsOf(changes, day) ==
  IF ~WellOrdered(changes) \/ day < changes[1].day THEN [ok |-> FALSE, members |-> {}]
  ELSE [ok |-> TRUE, members |-> MembersAfter(changes, Cardinality({i \in DOMAIN changes : changes[i].day <= day}))]

ValidateUniverse(symbols, asset) ==
  LET requested == Dedupe(symbols)
      Status(a) == IF ~a.answers THEN "unverified"
                   ELSE IF a.tradable /\ a.fractionable THEN "usable" ELSE "unusable"
      Judged(status) == Selected(requested, {i \in DOMAIN requested : Status(asset[requested[i]]) = status})
  IN [requested |-> requested, usable |-> Judged("usable"), unusable |-> Judged("unusable"),
      unverified |-> Judged("unverified")]

-----------------------------------------------------------------------------
(* The screens *)
\* Mutant: the window reaches into the first day of the run.
FormationWindowToStart(start, days) == [from |-> start - days, to |-> start]

FormationWindow(start, days) == [from |-> start - 1 - days, to |-> start - 1]

\* A measure of the bars is a pair <<numerator, denominator>>; the floor is one too.
Verdict(answer, measure, floor) ==
  IF ~answer.ok \/ answer.bars = <<>> THEN [measure |-> <<>>, passed |-> FALSE]
  ELSE [measure |-> measure, passed |-> measure[1] * floor[2] >= floor[1] * measure[2]]

AverageDollarVolume(bars) ==
  <<SumFunction([i \in DOMAIN bars |-> bars[i].close * bars[i].volume]), Len(bars)>>

\* On a continuous market a window expects one bar per interval.
BarCoverage(bars, window, interval) == <<Len(bars) * interval, window.to - window.from>>

ScreenByAdv(venue, symbols, start, days, floor) ==
  LET w == FormationWindow(start, days)
      Answer(s) == GetBars(venue[s], w.from, w.to, TRUE)
  IN [s \in ToSet(symbols) |-> Verdict(Answer(s), AverageDollarVolume(Answer(s).bars), floor)]

ScreenByTapeDensity(venue, symbols, start, days, interval, floor) ==
  LET w == FormationWindow(start, days)
      Answer(s) == GetBars(venue[s], w.from, w.to, FALSE)
  IN [s \in ToSet(symbols) |-> Verdict(Answer(s), BarCoverage(Answer(s).bars, w, interval), floor)]

Kept(screen, symbols) == Selected(symbols, {i \in DOMAIN symbols : screen[symbols[i]].passed})

\* Only a symbol whose volume is known takes the cheaper rate.
LiquidityTier(venue, symbols, start, days, floor) ==
  {s \in ToSet(symbols) : ScreenByAdv(venue, symbols, start, days, floor)[s].passed}

LoadSeries(venue, symbols, start, end) ==
  LET answer == [s \in ToSet(symbols) |-> GetBars(venue[s], start, end, TRUE)]
      once == Dedupe(symbols)
      failed == {i \in DOMAIN once : ~answer[once[i]].ok}
      bare == {i \in DOMAIN once : answer[once[i]].ok /\ answer[once[i]].bars = <<>>}
      there == {s \in ToSet(symbols) : answer[s].bars # <<>>}
  IN [series |-> [s \in there |-> answer[s].bars],
      failed |-> Selected(once, failed), bare |-> Selected(once, bare)]

\* The way of a backtest from its options to its series, in three stages. Only a
\* continuous market has a tape density, and only a session market has splits. A
\* screen that keeps nothing, and a universe with nothing in it, end the command.
Liquid(venue, symbols, run) ==
  LET adv == ScreenByAdv(venue, symbols, run.start, run.days, run.adv)
  IN [adv |-> adv, tickers |-> Kept(adv, symbols)]

Dense(venue, run, liquid) ==
  LET screened == IF run.continuous THEN liquid.tickers ELSE <<>>
      dense == ScreenByTapeDensity(venue, screened, run.start, run.days, 1, run.density)
  IN [adv |-> liquid.adv, dense |-> dense,
      tickers |-> IF run.continuous THEN Kept(dense, liquid.tickers) ELSE liquid.tickers]

Loaded(venue, run, dense) ==
  LET loaded == LoadSeries(venue, dense.tickers, run.start, run.end)
  IN [adv |-> dense.adv, dense |-> dense.dense, tickers |-> dense.tickers,
      tier |-> LiquidityTier(venue, dense.tickers, run.start, run.days, run.tier),
      loaded |-> loaded, runs |-> DOMAIN loaded.series # {}]

Prepare(venue, symbols, run) ==
  Loaded(venue, run, Dense(venue, run, Liquid(venue, symbols, run)))

-----------------------------------------------------------------------------
(* Properties *)
Until(p, day) == [p EXCEPT !.bars = {b \in p.bars : b.ts < day},
                           !.splits = {s \in p.splits : s.day < day}]

\* No look-ahead: what is screened out, and what is traded cheaply, is decided by
\* the days before the run; a symbol in the run passed both screens on data that
\* was there, and every other one is named with the stage that dropped it.
PreparedFromThePast(now, then, symbols, run) ==
  LET stages == <<{s \in DOMAIN now.adv : ~now.adv[s].passed},
                  {s \in DOMAIN now.dense : ~now.dense[s].passed},
                  ToSet(now.loaded.failed), ToSet(now.loaded.bare), DOMAIN now.loaded.series>>
  IN /\ now.adv = then.adv /\ now.dense = then.dense /\ now.tier = then.tier
     /\ \A s \in ToSet(symbols) : Cardinality({i \in DOMAIN stages : s \in stages[i]}) = 1
     /\ \A s \in DOMAIN now.loaded.series :
          now.adv[s].measure # <<>> /\ (run.continuous => now.dense[s].measure # <<>>)
     /\ now.runs => \A s \in DOMAIN now.loaded.series :
          \A i \in DOMAIN now.loaded.series[s] :
            now.loaded.series[s][i].ts \in run.start .. run.end

\* An adjusted series is refused exactly if it still holds a measurable split
\* that the venue's own records name, and both lookups that prove it answered:
\* `applied` says whether the venue really took the split out of the closes.
SplitIsCaught(p, split, applied, from, to) ==
  LET pair == Straddle(Fetch(p, from, to).bars, split.day)
      proved == /\ p.splitsUp /\ p.rawUp /\ from <= split.day /\ split.day <= to
                /\ pair # {} /\ \A b \in pair : b.raw > 0
  IN p.up => (GetBars(p, from, to, TRUE).ok <=> applied \/ ~proved \/ ~IsMeasurable(split.ratio))

\* A refusal is reported as one and is not remembered as missing history; an
\* answer, once given, is given again whatever the venue says later.
RefusalIsNotAbsence(answers) ==
  LET results == YFinanceReads(answers)
  IN \A i \in DOMAIN answers :
       IF \E j \in 1 .. i : ~answers[j].refused
         THEN LET j == CHOOSE k \in 1 .. i : ~answers[k].refused /\ \A l \in 1 .. k - 1 : answers[l].refused
              IN results[i] = Returns(answers[j].bars)
         ELSE ~results[i].ok

\* A file is served whole, in order of time, or refused.
FileIsServedWhole(rows, from, to) ==
  LET answer == CsvBars(rows, from, to)
  IN /\ answer.ok <=> \A i \in DOMAIN rows : rows[i].wellFormed
     /\ answer.ok =>
          /\ Len(answer.bars) = Cardinality({i \in DOMAIN rows : rows[i].ts \in from .. to})
          /\ \A i \in DOMAIN answer.bars : \A j \in 1 .. i : answer.bars[j].ts <= answer.bars[i].ts

\* A symbol is a member on a day iff the last change up to that day that names
\* it let it in, whatever the changes after that day say.
MembershipIsTheReplay(changes, day) ==
  LET answer == MembersAsOf(changes, day)
      upTo == {i \in DOMAIN changes : changes[i].day <= day}
      Names(i, s) == s \in changes[i].added \union changes[i].removed
      LetIn(s) == \E i \in upTo : /\ s \in changes[i].added
                                  /\ \A j \in upTo : j > i => ~Names(j, s)
  IN WellOrdered(changes) =>
       /\ answer.ok <=> upTo # {}
       /\ answer.ok => answer.members = {s \in UNION {changes[i].added : i \in upTo} : LetIn(s)}

\* Every symbol asked for, once each and in order, gets one verdict, and only an
\* answer of the broker can make it unusable.
UniverseIsJudged(symbols, asset) ==
  LET v == ValidateUniverse(symbols, asset)
      lists == <<v.usable, v.unusable, v.unverified>>
  IN /\ ToSet(v.requested) = ToSet(symbols) /\ IsInjective(v.requested)
     /\ \A s \in ToSet(symbols) : Cardinality({i \in 1 .. 3 : Contains(lists[i], s)}) = 1
     /\ Len(v.usable) + Len(v.unusable) + Len(v.unverified) = Len(v.requested)
     /\ \A s \in ToSet(v.unusable) : asset[s].answers
=============================================================================
