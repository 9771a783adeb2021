# TLA+ verification of the trading bench

This directory holds TLA+ models of the trading bench in `src/trading`, the TLC
configurations that check them, and TLAPS proofs about them. Every definition is
translated from the Python source; `PROJECT.json` maps each one to the lines it
stands for. Quoted ADRs are those of `docs/adr`.

## 1. The system

The bench runs one code path, `Engine._step`, over two worlds:

    backtest   feed of a whole history ──┐
                                         ├─> Engine._step ─> Strategy.on_bar
    paper      RecentWindowFeed polls ───┘        │      ─> sizing ─> Guardrails
               inside PaperSession.run            └─> Broker  (SimulatedBroker | AlpacaBroker
                                                               | ShadowBroker around it)

Everything runs on one thread. What is concurrent is the world outside it: the
venue fills, prices and ends orders between any two calls of the client, the data
source publishes bars late or fails a fetch, and a signal may end the process at
any bytecode.

| Component | State it keeps | Operations | What is hard | What makes it correct |
|---|---|---|---|---|
| Kill switch (`risk.py`, `engine.py` step 3) | peak, previous mark, latch, halt bar, counters; the engine's episodes | one `halted()` per bar | re-arm and trip thresholds over a moving peak, off-by-one in the cooldown, two records of the same latch | halts are exact, last as long as configured, and the episodes tell their story |
| Engine step (`engine.py`) | run records, history, last closes | execute, reveal, monitor, decide, check, submit, mark | the order of the steps is the no-look-ahead rule; rejections are diffed at two ends | no look-ahead, no lost order |
| Simulated broker and accounts (`broker.py`, `types.py`, `sizing.py`) | queue, cash, positions | submit, on_bar, apply_fill, size | orders sized at one equity, funded one by one at another price | no borrowing, no short, orders execute on their first bar |
| Guardrail check (`risk.py`) | tallies of the bar | check | each order sees a book without its siblings | the orders of a bar never breach a cap together |
| Paper session and feed (`engine.py`, `data/recent_window.py`) | seen timestamps, warmup flag, quiet polls, streaks | poll, absorb, step, sleep | cumulative windows, late bars, failing fetches, the warmup boundary | bars are processed once and complete; the session ends on real silence |
| Alpaca broker (`brokers/alpaca.py`, `data/alpaca_client.py`) | pending ids, requested orders, rejections, portfolio | submit, on_bar, trim, reconcile | parked, partial, ended and unpriced orders; calls that raise | one live order per intent, a blotter that explains the account |
| Shadow broker and journal (`divergence.py`) | tracked and closed orders, journal cursor | submit, on_bar, harvest, flush | attribution of fills that carry no id; crash between rows | every closed row is its own order's outcome |
| Ledger, state file, termination (`ledger.py`, `cli.py`, `dashboard/live_payload.py`) | four files, the armed flag of the guard, the count a command has read | append, load, log, replace, finalize, handle a signal, read | torn writes, signals between any two writes and during finalization, readers that make two reads | readers see whole states in step with the log; a stopped session is saved; the ledger never over-counts |
| Preflight and flatten scripts (`scripts/paper_preflight.py`, `paper_flatten.py`) | none: the venue's account | check, list, cancel, sell, verify | the account moves between any two calls, and a call that failed may have taken effect | "flat" means flat, nothing is sold twice, repeating ends flat |
| Strategies (`strategies/`) | latches, allocations, cadence counters | `on_bar` | the latch flips whether or not the order goes through; bars are missing; entries are rejected | what is remembered agrees with what was last asked and with what is held |
| Sweep and walk-forward (`sweep.py`) | none between calls | split, expand, run, rank, deflate | boundary bars, ties, failed combinations, empty windows | every trial is counted once, and no fold trades what its selection saw |
| Metrics (`metrics.py`) | none | the figures of a run, comparisons, bootstraps, regimes | guards, samples, alignment by time, state carried across regimes | regimes partition the run, a drawdown is the deepest fall, figures that are computed apart agree |
| Sources, universe, screens (`data/`, `universe.py`, `liquidity.py`, `tape_density.py`) | a cache on disk | fetch, cross-check, screen, validate, load | refused requests, unadjusted splits, windows that reach the run | a series is one its source vouches for; screens are blind to the run |
| Report, rendering, fee tables, calendar | none, or files | pure functions, I/O | formatting and lookup | outside these models |

`PROJECT.json` lists every component with its status, and every hazard with its
line and the properties that would notice it.

## 2. Modules

| Module | Models | Kind |
|---|---|---|
| `KillSwitch` | `Guardrails.halted`, `_trip`, `_rearm`, `_rearm_due`; the episodes of `_step` | component |
| `KillSwitchProofs` | theorems about it | TLAPS |
| `Selections` | a comprehension over a list, and sorting by a key, by indices | operators |
| `FoldTheorems` | lemmas about finite sums, orders of naturals and selections | TLAPS |
| `Accounts` | `Portfolio`, `CostModel`, `sizing` as operators on a book | operators |
| `Engine` | `_step` with `SimulatedBroker` and `Guardrails.check`; instantiates `KillSwitch` and extends `Accounts` | composition |
| `EngineProofs` | theorems about it | TLAPS |
| `PaperSession` | `PaperSession.run` and `RecentWindowFeed.poll` over a data source | component + environment |
| `PaperSessionProofs` | theorems about it | TLAPS |
| `Broker` | what the `Broker` protocol promises the engine | abstract specification |
| `AlpacaBroker` | the broker and the venue it polls; implements `Broker` | component + environment |
| `AlpacaProofs` | theorems about it | TLAPS |
| `Shadow` | `ShadowBroker` and its journal, as steps to take with a live broker's | component |
| `ShadowAlpaca` | `Shadow` around `AlpacaBroker`, as a paper session wires it | composition |
| `ShadowSimulated` | `Shadow` around a `SimulatedBroker`: the null test | composition |
| `ShadowProofs` | theorems about `ShadowAlpaca` | TLAPS |
| `Ledger` | the JSONL file: append, crash within an append, load, count | component |
| `PaperCommand` | `trading paper` over its files, the ledger, signals, the live dashboard, a research command beside it; extends `Ledger` | component + environment |
| `Flatten` | the two scripts and the venue they talk to | component + environment |
| `OperationsProofs` | theorems about `PaperCommand` and `Flatten` | TLAPS |
| `MCOperations` | a behaviour of `PaperCommand` or of `Flatten` | instance |
| `Metrics` | `metrics.py` in exact arithmetic, with its reference definitions | operators |
| `Sweep` | `sweep.py` over `Metrics` and `Selections` | operators |
| `Sources` | adapters, membership, validation, screens, loading, over `Selections` | operators |
| `Strategies` | `on_bar` of every registered strategy, bar by bar | component + environment |
| `MCResearch` | the inputs of the three and the behaviours of the fourth | instance |
| `ResearchProofs` | theorems about `Sweep`, `Sources`, `Strategies` and `MCResearch` | TLAPS |
| `MC*` | the constants TLC checks them with | instances |

How state and actions correspond to the code is written at each VARIABLE and
action. In general: one action per branch of a handler, with the branch's
conditions as guards; a loop whose body the environment may interleave with is
one action per iteration (`AlpacaBroker!Retry`, `Settle`; `Engine!FillOrder`);
a call whose result cannot be interleaved is one action (`KillSwitch`, one bar).
Variables marked *checking only* record what a property needs and feed nothing.

Abstractions, all in the module headers: money is exact integer arithmetic, so
`SHARE_EPS` and `1e-9` tolerances become exact comparisons; quantities are whole
units of the sizer's precision (half units in `AlpacaBroker`, where the excess
of half a unit matters); timestamps are interval numbers; wording is dropped.
In `Metrics` and `Sweep` an average is a pair of integers and a root is compared
by its signed square, so that a ratio is exact; one run of the engine is a score
and a set of bars there, because `Engine` is where a run is modelled.

Two reductions keep the larger models small. In `PaperCommand` a bar is one step,
since `Engine` has its inside, and a trial in the ledger is a count. `Flatten`
has at most one BUY and one SELL of each symbol, as the guard of `AlpacaBroker`
(`OneLiveOrder`) gives.

## 3. Runs and what they show

| Run | Question | Bounds |
|---|---|---|
| `kill_switch` | Do halts trip and re-arm exactly at the thresholds, and do the episodes follow? | 7 bars, 5 marks including 0, 8 shapes of configuration |
| `engine` | Is one bar after another free of look-ahead, lost orders, cap breaches, borrowing and blocked exits? | 4 bars, 2 symbols of one sector, slices that gap and skip a symbol |
| `paper_session` | Are bars processed once, complete and without gaps, and does the session end only on silence? | 2 symbols, 5 intervals, one late bar, any failing fetch, lookback 2 |
| `paper_warmup_boundary` | Is no bar that closed before the session opened ever traded? **No.** | as above, nothing late |
| `alpaca_broker` | Can orders duplicate, fills vanish, the portfolio drift, or an exit be refused for rounding? | 1 symbol, 3 orders, any interleaving with the venue |
| `alpaca_protocol` | Does every order settle, and does the broker implement `Broker`? | 1 symbol, 2 orders |
| `shadow` | Has every accepted order one row, every answer its own row, and the journal only final rows? | 1 symbol, 2 orders, 4 bars, a shadow that may fail at any step, holdings the sizer sells exactly |
| `shadow_trim` | The same attribution when an exit is trimmed. **It breaks.** | 1 symbol, exits of a holding that rounds up |
| `shadow_null_test` | Does a simulated broker shadowed by a simulated broker report no divergence? **No.** | 1 symbol, 2 orders, 2 bars |
| `operations` | After any signal at any step, are the session's files whole and in step and is a stopped session saved? Do the scripts bring any account to flat, and is their verdict right? | 2 sessions of 2 bars, 2 signals each, a research command of 2 trials; 2 symbols, 2 failing calls |
| `research` | Do the algorithms of a backtest, a sweep and a walk-forward do what they are there for, and do the strategies keep their book? | curves of 5 bars, grids of 4, 3 folds at most, 3 calls of a source; strategies over 2 symbols with 2 closes, any number of bars |
| `ledger_torn` | Is a ledger that only `append` has written always readable? **No.** | 4 appends |

Why the bounds are enough. Seven bars hold two full halts with a cooldown of
three. Four bars hold decide, execute, a bar without the symbol, and a late
execution; two orders of one bar suffice for the tally, and two symbols of one
sector for the sector cap. Five intervals hold warmup, live bars, a missed poll
and two quiet ones. The guards of the Alpaca broker are per symbol and side, so
one symbol shows every conflict; three orders are a parked one, its duplicate
and one on the other side. Two shadowed orders are enough for one to take the
other's answer; four bars hold the submit of both, a bar without the symbol, a
model's answer and a later live one. `Grain` is the venue's quantity grid in half
units: 2 where the sizer's precision is the venue's (equities), so that no order
is trimmed; 1 where holdings are finer (crypto).

Two sessions are one that leaves files behind and one that finds them; two bars
are a state to replace and its replacement; the second signal is the one that
arrives while the first is being honoured. Two symbols with two faults let a
cancel fail for one symbol while the other's order fills, and a fault fall on
each of the two reads of a verification. The curves of `research` rise and fall
by halves and doubles over five bars, so that four returns make two windows of
the regimes and two blocks of the bootstrap; a benchmark shares one return with the
run, or three and a bar more than it, on either side of the minimum of the paired
bootstrap; the two walk-forward modes run on tapes with and without holes.

`CHECK_DEADLOCK FALSE` stands where a run of the program really ends: a feed
runs out, a session finishes, a call raises.

Fairness. `PaperSession` assumes weak fairness of its own loop only: one thread
that nothing blocks; neither the source nor the release of late bars is fair.
`AlpacaBroker` assumes that a started bar runs to its end, that bars keep coming,
and that the venue ends every working order and prices every filled one. The
last is the `DAY` time in force of equities; a crypto order is `GTC` and may work
for ever, so `OrdersSettle` is not claimed for it. `FlattenFairness` assumes that
the operator runs the preflight and the script again as their output says
(`EventuallyFlat` is a statement about the loop the runbook prescribes, not about
one pass), that a market SELL fills and that every BUY fills or completes its
cancellation; how many calls fail is bounded by `MaxFaults`, since a venue that
fails for ever is flattened by nothing. `PaperCommand` has no fairness: its
properties are about whatever was reached when the process died.

### Disagreements found

`paper_warmup_boundary`: the docstring of `PaperSession` says the strategy's
first call is on the first bar to complete after the session opened, and
`warmup_complete` says a bar arriving mid-session is never warmup. A symbol
whose fetch fails on the poll that crosses the boundary contributes nothing to
the warmup; the next poll reveals its window at timestamps the session has not
seen, and they are stepped as live bars though they closed before the opening.

`ledger_torn`: the docstring of `ledger.py` says a process killed in an append
leaves a prefix of the file and never a corrupted middle, and `load` forgives
only a malformed last line. That is right of one crash; but the next append
starts where the torn record ends, so the two share a line that never parses,
and one more record moves it to the middle: from then on every command that
reads the ledger raises. `StoppedSessionIsSaved` names the consequence for a
paper session, whose `result.json` is written after the count is read.

`shadow_trim`: `_attribute_live` says rejections carry the `Order` and are
attributed by identity, exactly. The Alpaca broker replaces an exit it trims, so
the order it later rejects is not the object the shadow follows: the rejection is
counted as unmatched, the row stays pending, and the next fill of that symbol and
side is written on it. On whole holdings, the `shadow` run, the rule is exact.

`shadow_null_test`: the module docstring of `divergence.py` says that wrapping a
`SimulatedBroker` reports zero divergence. When two orders of one symbol and side
reach one bar, the first is rejected for cash and the second fills, the fill goes
to the older row, the rejection then makes it a partial one, and the second row
is pending for ever. The `AlpacaBroker` never has two such orders under way, so
the hazard belongs to brokers without a duplicate guard.

### Noticed and not claimed

Behaviour the models show that no document speaks of, so that no property may
call it wrong:

* a bar that arrives after its timestamp was stepped for another symbol is lost,
  and a timestamp that becomes visible late is stepped behind a newer one;
* an entry a strategy asked for once and the broker refused is not asked for again
  until the signal turns twice;
* a partial bar makes the crossover strategies divide their weight by the symbols
  of that bar, so their weights may add up to more than one (`whole` in
  `Strategies` singles out the runs without one);
* `equity_curve.csv` and `result.json` of an earlier session stay in a reused
  directory until the next session ends, beside the new log;
* a SIGTERM between the end of the loop and the call that disarms the guard is
  raised outside every handler, and the artifacts are skipped;
* the wash-trade refusal of a SELL is read as a position that is already being
  flattened; the verification then reports what is left;
* neighbouring windows of a sweep share the bar on their boundary; folds do not;
* a lookup of splits that failed is cached as "no splits" for the run.

## 4. Proofs

`KillSwitchProofs` proves for every set of marks, all valid configurations and
every length of run:

* `TypeCorrect`: `Spec => []TypeOK`. `TypeOK` alone is not inductive: that an
  episode is opened only by a trip needs the engine's flag to agree with the
  switch's, so the invariant is `TypeInv == TypeOK /\ runHalted = latched`.
* `EpisodesCorrect`: `Spec => []EpisodesFollowTheSwitch`, by the same two-step
  argument on top of `TypeInv`, with one lemma for opening and one for closing
  the last episode of the list.
* `DurationsCorrect`: `Spec => []HaltDurations`. Inductive over the two above;
  `Known` collects what they say of bars and episodes as facts about numbers, and
  `RearmShape` and `TripShape` say which episodes a step leaves as they were.
* `DrawdownHaltsCorrect` and `LivePeakCorrect`, of `DrawdownHaltsAreExact` and
  `LivePeakIsTheHaltPeak`. Both are about the marks of many bars, while the switch
  keeps one number: the strengthening is `PeakInv`, that while trading the peak is
  one of the marks since trading restarted and at least each of them.

`EngineProofs` proves for every universe, feed, strategy, cost model and set of
guardrails, one result resting on the one before:

* `TypeCorrect`: `Spec => []TypeOK`. `TypeInv` adds `Shape`: which lists are
  empty in which phase, and that a symbol the book holds has a mark whenever the
  book is valued (one without would make equity, and all that is sized from it,
  meaningless).
* `NoOrderIsLost`: `Spec => []OrdersAccounted`. Inductive over `TypeInv`.
* `FirstBarAfterTheDecision`: `Spec => []FirstBarAfterDecision`. `Waiting` says of
  every order at the broker that its symbol has had no bar since the decision; the
  queue is walked to its end within the bar, so none is passed over.
* `ExitsAlwaysGoThrough`: `Spec => ExitsGoThrough`. `Backed` says that
  what was held of a symbol when an order was decided is still held when its turn
  comes, unless a SELL of the same symbol was filled before it on that bar, which is
  the one excuse the property leaves.
* `CapsBind`: `Spec => []CapsBindTheBar`. The check tests each order alone against
  the book and two running totals. `Tallied` says what the totals stand for, and
  `Capped` that with the orders accepted so far added to the book no cap is
  exceeded by more than the half unit the sizer may round up.
* `HaltStopsEveryEntry`: `Spec => []HaltStopsEntries`.
* `NothingIsBorrowed`: `SalesCoverTheirCosts` implies `Spec => []NoBorrowing`. Buys
  are tested against cash and sales are not, so a sale whose flat commission
  exceeds its proceeds takes cash below zero; the hypothesis excludes that. It holds
  of every feed when `PerUnit = 0`, and of the run's constants.
* `EngineRunsTheSwitch`: `Spec => Switch!Spec`, the engine implements `KillSwitch`
  with the marks its own book comes to. `SwitchHoldsInTheEngine` then carries the
  invariants of `KillSwitchProofs` over, through `INSTANCE KillSwitchProofs`.

  The figures of a book are sums over finite sets. The library's folds are defined
  by a choice of a recursive function, and its induction theorems take an operator;
  `FoldTheorems` instead proves the equation of a sum from the definition
  of the fold, and each lemma by strong induction stated as a fact about sets of
  subsets (`SetOfSubsets`, `SetOfNaturals`), which needs no operator. What a
  comprehension returns is stated by its indices for the same reason (`Selections`).

`PaperSessionProofs` proves for every source, every pattern of late bars and
failing fetches, every clock and every setting of the session:

* `NothingForming`: `Spec => []OnlyCompletedBars`.
* `EverythingOnce`: `Spec => []ProcessedOnce`. The part about the session log is
  `NothingTwice`; that no history holds a bar twice needs `HistoryInv`, that a
  history is part of what the session has seen and nothing is seen before the
  opening. It says nothing of the order of the steps, since there is none across polls
  (a late timestamp is stepped behind newer ones).
* `GivesUpOnSilence`: `Spec => []SilenceIsReal`.

  `SessionInv` serves all three: what a poll revealed and is not stepped yet is
  complete and new (`FreshIsNew`), `_seen` covers everything primed or stepped
  (`SeenIsAll`), bars are primed at the opening (`PrimedAtOpening`), and the run's
  count is the number of quiet polls in a row (`CountIsReal`).
* `PunctualIsWhole`: `MaxOversleep < Lookback` implies
  `Spec => []PunctualSymbolsAreWhole`. `PunctualInv` names the instant of the last
  poll and says that up to it every bar of the symbol is in its history, too old
  for the window of the opening, or revealed and about to be stepped
  (`WholeUpTo`). The hypothesis is needed: a loop that sleeps through a whole
  window of bars loses those the next window no longer reaches. The run has
  `MaxOversleep = 1` and `Lookback = 2`.

`AlpacaProofs` proves for every account, every set of orders the engine may ask
for, every order an earlier session left working, any number of bars, and every
order of the venue's steps and the broker's calls:

* `TypeCorrect`: `Spec => []TypeOK`, and `OneLiveOrderPerSide`:
  `Spec => []OneLiveOrder`. `BrokerInv` is what the broker keeps: its lists hold
  the same ids once each (`Lists`), the duplicate guard knows every live order for
  what it is (`LiveIsKnown`; the guard is asked between two bars, when every order
  on_bar has not settled is known), and the fills of a bar are what its settled
  orders got (`Noted`). That nothing is ever short is `Covered`: the venue holds what its
  working SELLs promise, which an execution of one of them lowers on both sides.
* `BlotterCorrect`: `Spec => []BlotterExplainsAccount`, from `Explained`. A step of
  the venue moves the account and one term of the sum over unreported orders; a
  settled order moves from that sum to the blotter when on_bar returns.
* `PortfolioCorrect`: `Spec => []PortfolioIsTheAccount`, with `ReadsAgree` for the
  two calls of the reconciliation.
* `ExitsSell`: `Spec => ExitsStaySellable`. With no other SELL working the venue
  refuses only what exceeds the holding, and `Trim` removes half a unit of excess.
* `RunsTheProtocol`: `Spec => KeepsTheProtocol`, `AlpacaBroker` implements `Broker`.
  The book is the outcome of each order in the sequence the session was told of them.
  `ReadCash` implements `OnBar`: there the ids on_bar is through with leave the
  pending list, and `Told` says that each is by then on the blotter or the list of
  rejections, for good. A submit implements `Submit`; all else is hidden.

`ShadowProofs` proves for the same broker with the shadow around it, which may fail
at any step:

* `JournalHolds`: `ShadowedSpec => []JournalIsAPrefix`, from `Journaled`: what is
  on disk is the start of the closed rows, all of them as long as the shadow is on,
  and closed rows are only appended to.
* `ModelPricesAsReferred`: `ShadowedSpec => []ModelPricesTheReference`. `RowsPriced`
  says that as long as the shadow is on a row has a reference open exactly when the
  model has answered it, and both are of one bar.
* `EveryOrderHasItsRow`: `ShadowedSpec => []OneRowPerOrder`. `Accounted` counts rows
  against the orders the session was told of, in the phases between as well.
* `AnswersFindTheirRows` and `RowsAreTruthful`: `ShadowedSpec => [](Untrimmed => ...)`
  of `AttributionIsExact` and `RowsTellTheOutcome`. A fill names a symbol, a side and
  a quantity; that this is enough rests on the broker underneath. `Due` are the ids
  on_bar may still answer, and `DueApart` that no two of them share a symbol and side,
  which is `OneLiveOrder` carried through on_bar. The two loops of `_attribute_live`
  are folds; they are seen as sequences of states (`FillStates`, `RejectionStates`).
  `FillsLand` and `RejectionsLand` say where every answer goes when each has one
  row it can go to, and `SeenIs` that this is so on a bar. `Truthful` is then
  inductive: the rows without an answer are the orders under way.
* `EquitiesAreFollowedExactly`: `WholeUnits` implies
  `ShadowedSpec => [](AttributionIsExact /\ RowsTellTheOutcome)`.

  `Untrimmed` says that the broker has replaced no order so far. It cannot be left
  out: `shadow_trim` is the counterexample. `WholeUnits`, that the account and the
  orders lie on the sizer's grid and the venue fills on it, implies it: it is the case
  of equities, and of the constants of `shadow`.

`OperationsProofs` proves for every set of symbols, every account and any number of
failing calls:

* `SellsAreCovered`: `FlattenSpec => []NeverShort`, the scripts never offer more
  than is held.
* `CleanMeansFlat`: `FlattenSpec => []CleanIsFlat`.

  The invariant `FlattenInv` adds what a pass relies on between its calls: a position
  without a working SELL among the orders it read has none and is still as large
  as it was listed (`UnsoldIsHeld`, which is why selling the listed quantity is
  safe), an account found empty stays empty (`IdleIsFlat`), and what is held and was not seen
  came from a BUY that was live at the reading (`HeldIsExplained`).

and for any number of sessions, bars, signals and trials:

* `StateIsWhole`: `PaperSpec => []StateIsALoggedBar`. `PInv` ties each place in the
  loop to the log, the temporary file and the state (`LoopIsInStep`,
  `StateFollowsTheLog`), and what the dashboard has read so far to what it will
  still read (`ViewFollowsTheLog`).
* `StoppedIsSaved`: `PaperSpec => []StoppedSessionIsSaved`. `PromiseIsKept` says
  that from the first SIGTERM on the guard is disarmed and the finalization goes
  on; the one way out is a ledger that cannot be read, and `UnreadableStays`
  proves that no append, whole or torn, makes such a ledger readable again.

* `LedgerNeverOvercounts`: `PaperSpec => []LedgerIsALowerBound`. `LedgerInv` counts
  every trial on the file, in whole records and in fragments alike, with those that
  ran and whose record is not yet appended (`Unwritten`), and never exceeds the
  trials that ran; what `load` returns is part of that sum.

`ResearchProofs` proves of the strategies, for every number of symbols, every window,
and any sequence of bars, fills, rejections and missing bars:

* `BooksAreKept`: `StrategySpec => []StrategiesKeepTheirBook`, and
  `ResearchKeepsBooks`, the same of the behaviours of `research`. The property speaks
  of what is held two undisturbed bars later and is not inductive: `StrategyInv` adds
  what an undisturbed bar leaves behind: an order for every symbol (`EqualWeightKept`),
  or for all that is missing of the frozen allocation and for nothing else
  (`AllocationKept`). On whole bars what a latch asked for is the share of a whole
  universe (`TransitionsKept`); a partial bar divides by fewer symbols, so the sum
  of the weights is bounded only in the runs without one.
* The condition `Cardinality(Symbols) <= Weight` of `StrategiesAssumption` comes from
  the grid of `Weight`: the code divides a float, and a share of it is never zero,
  whereas `Weight \div n` is as soon as `n` exceeds `Weight`.

and of the algorithms of a search, as facts about every input of theirs:

* `WindowsAlwaysTile` and `EveryWalkIsUnseen`. The boundaries of windows and folds are
  marks in increasing order (`Marks`, `Between`, `Splits`); out-of-sample begins on the
  day after the mark, so what is picked on one side of it is not tested there. The
  tape may have any holes.
* `EveryFoldIsAccounted`, `EverySweepIsAccounted`. A sweep's table is counted by a
  bijection between its cells and the positions of the runs (`CellsIn`, `SweepCounts`),
  the trials of a walk-forward by joining what the completed folds report (`Reports`).
* `PlateausAreAlwaysMutual`. The mean of the neighbours is a recursion over the set of
  them (`MeanOf`), and it stays below a bound that no neighbour exceeds (`MeanBelow`).
* `EveryEdgeDiesOnce`. Of the sorted levels the first fall below the threshold is
  the one the crossing is interpolated on (`Falls`).
* `SearchesAreAccounted`: `Spec => []SearchIsAccounted` then holds since every step
  that makes a study makes one of these.

  Scores are integers, a sweep has at least one window, its grid has two parameters
  (one of which may have a single value) as everywhere in `Sweep`, and the levels of a
  cost sensitivity are naturals, since `config.py` refuses a negative slippage.

and of what comes before the first bar of a run, again for every input:

* `EveryScreenIsBlind`. What a command prepares does not change when everything from the
  first day of the run on is taken away from the venue. A window of a screen ends
  before that day, so its answer is the same (`AnswersAreBlind`), the cross-check of
  splits included, which looks at the splits of the window only. Each stage drops
  its symbols for one reason and passes on the rest (`KeptIs`, `LoadIs`), so that the
  five lists partition what was asked for.
* `EverySplitIsCaught`. If the venue left the split in, raw over adjusted is one on both
  sides of it; if it took it out, the factor moves by at least a third, out of the
  tolerance of 2% (`FactorMoves`), whatever the price did that day. Its hypotheses are
  the listing of `MCResearch`: positive prices that the ratio divides, as prices are
  integers there.
* `EveryFileIsServedWhole`, `EveryMembershipIsItsReplay`, `EveryUniverseIsJudged` and
  `NoRefusalIsAbsence`. A sort is the set of what is sorted in the order of an
  injective key (`ArrangedLists` of `FoldTheorems`): the timestamp, then the place. A
  replay is a recursion over the changes before the last one, which decides of the
  symbols it names (`LastDecides`); the days a membership asks about are the
  first so many because the days of the changes rise (`DaysRise`, `FirstOnes`). What a
  cache holds after some reads is an induction over the reads (`NextRead`).
* `ScreensStayBlind` and `SeriesStayVouchedFor`: `Spec => []ScreensAreBlind` and
  `Spec => []SeriesAreVouchedFor` then hold since every study of a source is one of these.

and of the figures of a run:

* `EveryDrawdownIsTheDeepest`, for a curve of any length. The scan holds the peak so
  far and the deepest fall so far (`ScansTo`); a fall is deepest from the highest peak
  before it (`HigherPeakIsDeeper`), and lowest terms keep the ratio (`LowestIsSame`).
* `EveryBudgetIsItsCeiling`: the test of a cost budget is the test of a turnover
  against the one it implies.
* `RegimesAlwaysPartition`, for any labels of the bars. A fold from the left is
  seen as a sequence of states (`Steps`, `Carried`). The tallies of two disjoint sets of
  stamps follow the same position, whose state they carry across bars that are not
  theirs, so they add up after every fill (`AddUp`), and the tally of all stamps counts
  the entries and the notional that functions of their own count (`TallyCountsAll`).
* `RunsStayExact`: `Spec => []RunIsMeasured`, since every run that is studied is one
  of these (`RunsAreMeasured`).

  Equity is positive; quantities, prices, rates, the budget and timestamps are
  naturals, and every fill is on a bar of the curve, as a run of the engine makes them.

Assumptions: `ConstantsAssumption` of `KillSwitch`, `CostAssumption` of `Accounts`,
`EngineAssumption`, `SessionAssumption`, `BrokerAssumption`, `ShadowAssumption`,
`FlattenAssumption`, `LedgerAssumption`, `PaperCommandAssumption`, `StrategiesAssumption`,
`MetricsAssumption` and `SweepAssumption`, which TLC
evaluates on every run of those modules, and the three hypotheses named above,
`SalesCoverTheirCosts`, `MaxOversleep < Lookback` and `WholeUnits`, which the
constants of the runs `engine`, `paper_session` and `shadow` satisfy. The temporal
theorems follow from an initial-state lemma and a step lemma each.

Only model-checked: `FiguresAgree`. It compares compounded curves, bootstraps,
medians, covariances and alignments with reference definitions; each side is a product or
a sort of data with no state in common that an induction could carry. Liveness (`Terminates`,
`OrdersSettle`, `EventuallyFlat`) is out of the prover's reach.

## 5. Plan

Done: the core (`KillSwitch`, `Engine`, `PaperSession`, `AlpacaBroker`, `Shadow`),
the storage and the scripts around it, the strategies, the algorithms of research,
and the proofs above. In order of importance there remain:

1. Proofs: the parts of `FiguresAgree` without a sort of data.
2. `Strategies` over `Engine` itself in place of the reduced broker it has.
3. The truncation and the final rewrite of the divergence journal.

## 6. Not modelled

* The layout of `report.py`, `result.json` and the dashboard: formatting of a
  finished run that decides nothing. When they are written and read is in
  `PaperCommand`.
* The synthetic and fake market data: a pseudo-random generator and a table of the
  tests.
* Fee tables, session hours, annualisation factors: constants of other modules.
* The normal distribution and the special functions behind the deflated Sharpe
  ratio: floating point; `Metrics` uses only that the threshold grows with the
  number of trials.
* The two diffs of the broker's rejections that make the per-bar record of
  `Engine._step`: a report of what `Engine` counts once (the simulated broker never
  refuses a submit, and `AlpacaBroker` has its refusals).
* The means, medians and retention over the folds of a walk-forward: arithmetic on
  the completed folds that `Sweep` accounts for.
* That a vendor adjusts earlier closes again for a later dividend or split: the
  closes of `Sources` are what the venue answers, cut at a day or not.
* Option parsing, logging, the HTTP server, SDK conversion, paging and credentials.
