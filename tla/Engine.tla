------------------------------- MODULE Engine -------------------------------
(***************************************************************************)
(* Engine._step (engine.py), the path every backtest and paper bar takes,   *)
(* over a SimulatedBroker (broker.py) and the Guardrails (risk.py).         *)
(*                                                                          *)
(* One bar is a walk through the phases                                     *)
(*                                                                          *)
(*   feed     the next slice arrives, the broker's queue is to be executed  *)
(*   execute  one queued order per step, against the slice's opens          *)
(*   monitor  the closes are revealed and the kill switch is asked          *)
(*   decide   the strategy's intents are sized against the marked book      *)
(*   check    one sized order per step: pre-trade check, then submit        *)
(*                                                                          *)
(* and back to feed.  The kill switch is the module KillSwitch, stepped     *)
(* once per bar with the equity of this book.  The volatility estimate is   *)
(* an input: the scale it yields is any member of VolScales (percent).      *)
(***************************************************************************)
EXTENDS Accounts

CONSTANTS
  Configs, None, MaxBars,   (* as in KillSwitch, with the caps below         *)
  Slices,       (* the bar slices a feed may deliver                         *)
  IntentLists,  (* what a strategy may return for a bar                      *)
  VolScales,    (* the gross-cap multipliers volatility targeting may give   *)
  StartCash,
  SectorOf      (* RiskConfig.sector_map; None for an unmapped symbol        *)

Orders == [symbol : Symbols, side : {"BUY", "SELL"}, qty : Nat \ {0}]
Bars == [open : Nat \ {0}, close : Nat \ {0}]

(* A strategy returns orders or targets, in percent of equity.               *)
Intents ==
  [kind : {"order"}, symbol : Symbols, side : {"BUY", "SELL"}, qty : Nat \ {0}]
    \cup [kind : {"target"}, symbol : Symbols, weight : Int]

(* RiskConfig.__post_init__, of the caps.                                    *)
ValidCaps(c) ==
  /\ c.maxPosition \in Nat \ {0} /\ c.maxGross \in Nat \ {0}
  /\ c.maxSector \in (Nat \ {0}) \cup {None}

VARIABLES
  config, peak, prevEquity, latched, haltBar, barIndex, haltCount,
  resumeCount, runHalted, episodes, marks,   (* as in KillSwitch             *)
  bar,          (* how many slices the feed has delivered                    *)
  phase,        (* where _step is                                            *)
  slice,        (* the bar being processed: [open, close] or NoPrice         *)
  todo,         (* the orders the current loop has still to walk             *)
  pending,      (* SimulatedBroker._pending                                  *)
  fills,        (* the bar's fills, BarOutcome.fills                         *)
  book,         (* the broker's portfolio                                    *)
  lastClose,    (* _RunState.last_close                                      *)
  volScale,     (* Guardrails._vol_scale                                     *)
  committedQty, committedGross, committedSector,  (* the per-bar tallies     *)
  counts,       (* lengths of the run's records, see Counts                  *)
  lastBar       (* checking only: the bar each symbol last traded on         *)

Switch == INSTANCE KillSwitch WITH Equities <- Int

ASSUME EngineAssumption ==
  /\ IsFiniteSet(Symbols)
  /\ NoPrice \notin Nat \cup Bars
  /\ Slices \subseteq [Symbols -> Bars \cup {NoPrice}]
  /\ IntentLists \subseteq Seq(Intents)
  /\ VolScales \subseteq Nat
  /\ StartCash \in Nat
  /\ None \notin Int /\ MaxBars \in Nat
  /\ \A c \in Configs : ValidCaps(c) /\ Switch!ValidConfig(c)

switchVars == <<config, peak, prevEquity, latched, haltBar, barIndex, haltCount,
                resumeCount, runHalted, episodes, marks>>
tallyVars == <<volScale, committedQty, committedGross, committedSector>>
vars == <<switchVars, bar, phase, slice, todo, pending, fills, book, lastClose,
          tallyVars, counts, lastBar>>

(* sized: orders sizing produced; refused: guardrail rejections; rejected:   *)
(* the broker's; filled: the blotter.                                        *)
Counts == [{"sized", "refused", "rejected", "filled"} -> Nat]

Count(record) == counts' = [counts EXCEPT ![record] = @ + 1]

Sectors == {SectorOf[s] : s \in Symbols} \ {None}

Priced == {s \in Symbols : lastClose[s] # NoPrice}

-----------------------------------------------------------------------------
(* Guardrails.check *)

EquityNow == Equity(book, lastClose)

IsExit(order) == order.side = "SELL" /\ book.qty[order.symbol] > 0

(* Room left under each cap in units of the order's symbol.  Python rounds   *)
(* the least of the rooms; rounding is monotone, so each is rounded here.    *)
PositionRoom(s) ==
  LET unit == 100 * Value(1, lastClose[s])
  IN Round(config.maxPosition * EquityNow - (book.qty[s] + committedQty[s]) * unit, unit)

(* Mutant: what this bar has committed already is not taken off.             *)
GrossRoomOfTheBook(s) ==
  Round(config.maxGross * volScale * EquityNow - 10000 * GrossOf(book, lastClose, Priced),
        10000 * Value(1, lastClose[s]))

GrossRoom(s) ==
  Round(config.maxGross * volScale * EquityNow
          - 10000 * (GrossOf(book, lastClose, Priced) + committedGross),
        10000 * Value(1, lastClose[s]))

SectorRoom(s) ==
  LET mates == {x \in Priced : SectorOf[x] = SectorOf[s]}
  IN Round(config.maxSector * EquityNow
             - 100 * (GrossOf(book, lastClose, mates) + committedSector[SectorOf[s]]),
           100 * Value(1, lastClose[s]))

SectorCapped(s) == config.maxSector # None /\ SectorOf[s] # None

AllowedQty(order) ==
  LET s == order.symbol
  IN Min({order.qty, PositionRoom(s), GrossRoom(s)}
           \cup {SectorRoom(x) : x \in {y \in {s} : SectorCapped(y)}})

(* An order no cap is computed for: an exit, a sell, a symbol without mark.  *)
Uncapped(order) == order.side = "SELL" \/ order.symbol \notin Priced

(* Mutant: an entry is stopped by the halt only when a cap would stop it.    *)
BlockedOnlyByCaps(order) ==
  ~Uncapped(order) /\ (EquityNow <= 0 \/ AllowedQty(order) <= 0)

(* Mutant: the halt blocks exits too.                                        *)
BlockedExitsToo(order) ==
  \/ latched
  \/ ~Uncapped(order) /\ (EquityNow <= 0 \/ AllowedQty(order) <= 0)

Blocked(order) ==
  \/ latched /\ ~IsExit(order)
  \/ ~Uncapped(order) /\ (EquityNow <= 0 \/ AllowedQty(order) <= 0)

(* What the order that passes the check is: itself, or clamped to the room.  *)
Checked(order) ==
  IF Uncapped(order) THEN order ELSE [order EXCEPT !.qty = AllowedQty(order)]

-----------------------------------------------------------------------------
(* Engine._step *)

Init ==
  /\ Switch!Init
  /\ bar = 0
  /\ phase = "feed"
  /\ slice = [s \in Symbols |-> NoPrice]
  /\ todo = <<>>
  /\ pending = <<>>
  /\ fills = <<>>
  /\ book = [cash |-> StartCash * Money, qty |-> [s \in Symbols |-> 0]]
  /\ lastClose = [s \in Symbols |-> NoPrice]
  /\ volScale = 100
  /\ committedQty = [s \in Symbols |-> 0]
  /\ committedGross = 0
  /\ committedSector = [x \in Sectors |-> 0]
  /\ counts = [r \in {"sized", "refused", "rejected", "filled"} |-> 0]
  /\ lastBar = [s \in Symbols |-> 0]

(* The feed delivers a slice; the broker starts walking its queue.           *)
NextBar(bars) ==
  /\ phase = "feed" /\ bar < MaxBars
  /\ bar' = bar + 1
  /\ slice' = bars
  /\ todo' = pending
  /\ pending' = <<>>
  /\ fills' = <<>>
  /\ phase' = "execute"
  /\ UNCHANGED <<switchVars, book, lastClose, tallyVars, counts, lastBar>>

Executing == phase = "execute" /\ todo # <<>>

HasBar(order) == slice[order.symbol] # NoPrice

Open(order) == slice[order.symbol].open

(* Mutant: the commission is left out of the funding test.                   *)
UnderfundedBeforeFees(order) ==
  order.side = "BUY" /\ order.qty * FillPrice("BUY", Open(order)) > book.cash

Underfunded(order) == order.side = "BUY" /\ BuyCost(order, Open(order)) > book.cash

(* Mutant: any held symbol can be sold, whatever the quantity.               *)
OversoldWhenFlat(order) == order.side = "SELL" /\ book.qty[order.symbol] = 0

Oversold(order) == order.side = "SELL" /\ order.qty > book.qty[order.symbol]

Walk == todo' = Tail(todo)

(* Mutant: an order the slice cannot price is dropped from the queue.        *)
DropUnpriced ==
  /\ Executing /\ ~HasBar(Head(todo))
  /\ Walk
  /\ UNCHANGED <<switchVars, bar, phase, slice, pending, fills, book, lastClose, tallyVars, counts,
                 lastBar>>

KeepPending ==
  /\ Executing /\ ~HasBar(Head(todo))
  /\ Walk
  /\ pending' = Append(pending, Head(todo))
  /\ UNCHANGED <<switchVars, bar, phase, slice, fills, book, lastClose, tallyVars, counts, lastBar>>

RejectAtExecution ==
  /\ Executing /\ HasBar(Head(todo))
  /\ Underfunded(Head(todo)) \/ Oversold(Head(todo))
  /\ Walk
  /\ Count("rejected")
  /\ UNCHANGED <<switchVars, bar, phase, slice, pending, fills, book, lastClose, tallyVars,
                 lastBar>>

FillOrder ==
  /\ Executing /\ HasBar(Head(todo))
  /\ ~Underfunded(Head(todo)) /\ ~Oversold(Head(todo))
  /\ Walk
  /\ book' = ApplyFill(book, Head(todo), Open(Head(todo)))
  /\ fills' = Append(fills, Head(todo))
  /\ Count("filled")
  /\ UNCHANGED <<switchVars, bar, phase, slice, pending, lastClose, tallyVars, lastBar>>

(* Steps 2 and 3: reveal the closes, mark the book, ask the switch, start    *)
(* the bar's tallies afresh.                                                 *)
Monitor(scale) ==
  /\ phase = "execute" /\ todo = <<>>
  /\ lastClose' = [s \in Symbols |-> IF slice[s] = NoPrice THEN lastClose[s]
                                     ELSE slice[s].close]
  /\ lastBar' = [s \in Symbols |-> IF slice[s] = NoPrice THEN lastBar[s] ELSE bar]
  /\ LET e == Equity(book, lastClose')
     IN Switch!Rearm(e) \/ Switch!TripOnDrawdown(e) \/ Switch!TripOnDailyLoss(e) \/ Switch!Hold(e)
  /\ volScale' = scale
  /\ committedQty' = [s \in Symbols |-> 0]
  /\ committedGross' = 0
  /\ committedSector' = [x \in Sectors |-> 0]
  /\ phase' = "decide"
  /\ UNCHANGED <<bar, slice, todo, pending, fills, book, counts>>

(* A strategy sees revealed closes only, so it names priced symbols only.    *)
Decide(intents) ==
  /\ phase = "decide"
  /\ \A i \in DOMAIN intents : intents[i].symbol \in Priced
  /\ todo' = SizedOrders(book, lastClose, intents)
  /\ counts' = [counts EXCEPT !["sized"] = @ + Len(todo')]
  /\ phase' = "check"
  /\ UNCHANGED <<switchVars, bar, slice, pending, fills, book, lastClose, tallyVars, lastBar>>

Checking == phase = "check" /\ todo # <<>>

RejectAtCheck ==
  /\ Checking /\ Blocked(Head(todo))
  /\ Walk
  /\ Count("refused")
  /\ UNCHANGED <<switchVars, bar, phase, slice, pending, fills, book, lastClose, tallyVars,
                 lastBar>>

(* An accepted buy takes room from the bar's later orders.                   *)
Commit(order) ==
  IF Uncapped(order) THEN UNCHANGED <<committedQty, committedGross, committedSector>>
  ELSE LET s == order.symbol
           value == Value(order.qty, lastClose[s])
       IN /\ committedQty' = [committedQty EXCEPT ![s] = @ + order.qty]
          /\ committedGross' = committedGross + value
          /\ committedSector' = [x \in Sectors |->
               committedSector[x] + IF x = SectorOf[s] THEN value ELSE 0]

(* An order at the broker; checking only, it remembers the bar it was        *)
(* decided on and what was held of its symbol then.                          *)
Queued(order) ==
  [symbol |-> order.symbol, side |-> order.side, qty |-> order.qty,
   decided |-> bar, held |-> book.qty[order.symbol]]

(* The clamped order, never the asked one, goes to the broker's queue.       *)
Submit ==
  /\ Checking /\ ~Blocked(Head(todo))
  /\ Walk
  /\ LET order == Checked(Head(todo))
     IN /\ pending' = Append(pending, Queued(order))
        /\ Commit(order)
  /\ UNCHANGED <<switchVars, bar, phase, slice, fills, book, lastClose, volScale, counts, lastBar>>

(* Mutant: what the bar queued executes against the bar that decided it.     *)
EndBarExecutingAtOnce ==
  /\ phase = "check" /\ todo = <<>>
  /\ todo' = pending
  /\ pending' = <<>>
  /\ phase' = IF pending = <<>> THEN "feed" ELSE "execute"
  /\ UNCHANGED <<switchVars, bar, slice, fills, book, lastClose, tallyVars, counts, lastBar>>

(* Step 5 marks equity at the closes the switch saw: marks holds it already. *)
EndBar ==
  /\ phase = "check" /\ todo = <<>>
  /\ phase' = "feed"
  /\ UNCHANGED <<switchVars, bar, slice, todo, pending, fills, book, lastClose, tallyVars,
                 counts, lastBar>>

Next ==
  \/ \E bars \in Slices : NextBar(bars)
  \/ KeepPending
  \/ RejectAtExecution
  \/ FillOrder
  \/ \E scale \in VolScales : Monitor(scale)
  \/ \E intents \in IntentLists : Decide(intents)
  \/ RejectAtCheck
  \/ Submit
  \/ EndBar

Spec == Init /\ [][Next]_vars

-----------------------------------------------------------------------------
(* Properties *)

QueuedOrders ==
  [symbol : Symbols, side : {"BUY", "SELL"}, qty : Nat \ {0},
   decided : 1..MaxBars, held : Nat]

AtBroker == Range(pending) \cup IF phase = "execute" THEN Range(todo) ELSE {}

BuysThisBar(s) ==
  {i \in DOMAIN pending :
     pending[i].symbol = s /\ pending[i].side = "BUY" /\ pending[i].decided = bar}

BoughtThisBar(s) == SumFunction([i \in BuysThisBar(s) |-> pending[i].qty])

(* Types.  No position is ever short, every order trades something, and a    *)
(* held symbol always has a mark, or marking the book would raise            *)
(* (Portfolio.equity, Portfolio.apply_fill, Order.__post_init__).            *)
TypeOK ==
  /\ Switch!TypeOK
  /\ bar \in 0..MaxBars /\ barIndex = bar - (IF phase = "execute" THEN 1 ELSE 0)
  /\ phase \in {"feed", "execute", "decide", "check"}
  /\ todo \in Seq(IF phase = "execute" THEN QueuedOrders ELSE Orders)
  /\ pending \in Seq(QueuedOrders)
  /\ fills \in Seq(QueuedOrders)
  /\ book.cash \in Int /\ book.qty \in [Symbols -> Nat]
  /\ phase # "execute" => \A s \in Held(book) : lastClose[s] # NoPrice
  /\ committedQty \in [Symbols -> Nat]
  /\ committedGross \in Nat
  /\ committedSector \in [Sectors -> Nat]
  /\ counts \in Counts
  /\ lastBar \in [Symbols -> 0..MaxBars]

(* The orders one bar queues never breach a cap together: with everything    *)
(* bought this bar added to the book, each bought symbol is within its       *)
(* position cap, the book within the scaled gross cap and each sector within *)
(* its own, to the half unit the clamp may round up by (Guardrails.check).   *)
CapsBindTheBar ==
  phase \in {"check", "feed"} =>
    LET bought == {s \in Symbols : BoughtThisBar(s) > 0}
        Added(symbols) ==
          SumFunction([s \in bought \cap symbols |-> Value(BoughtThisBar(s), lastClose[s])])
        (* total is within share ten-thousandths of equity and half a unit *)
        WithinHalfUnit(total, share) ==
          \E s \in bought :
            20000 * total <= 2 * share * EquityNow + 10000 * Value(1, lastClose[s])
        Mates(s) == {x \in Priced : SectorOf[x] = SectorOf[s]}
    IN /\ \A s \in bought :
            200 * Value(book.qty[s] + BoughtThisBar(s), lastClose[s])
              <= 2 * config.maxPosition * EquityNow + 100 * Value(1, lastClose[s])
       /\ bought # {} =>
            WithinHalfUnit(GrossOf(book, lastClose, Priced) + Added(Symbols),
                           config.maxGross * volScale)
       /\ \A s \in bought : SectorCapped(s) =>
            WithinHalfUnit(GrossOf(book, lastClose, Mates(s)) + Added(Mates(s)),
                           config.maxSector * 100)

(* While the switch is latched nothing new is bought: every buy still at the *)
(* broker was decided before the bar that tripped it (Engine._step order of  *)
(* operations; Guardrails.check while halted).                               *)
HaltStopsEntries ==
  latched => \A o \in AtBroker : o.side = "BUY" => o.decided < haltBar

(* No look-ahead and no delay: an order executes on the first bar its symbol *)
(* trades after the bar it was decided on, never on that bar and never later *)
(* (ADR-0001; SimulatedBroker.on_bar).                                       *)
FirstBarAfterDecision ==
  /\ \A o \in AtBroker : lastBar[o.symbol] <= o.decided
  /\ phase = "execute" => \A o \in AtBroker \cup Range(fills) :
       lastBar[o.symbol] <= o.decided /\ o.decided < bar

(* Every order sizing produced is in exactly one of the run's records or     *)
(* still on its way: nothing is lost, reported twice or rejected unseen      *)
(* (Engine._step, Engine._finalize, ADR-0044).                               *)
OrdersAccounted ==
  counts["sized"] = counts["refused"] + counts["rejected"] + counts["filled"]
                      + Len(pending) + Len(todo)

(* A bar's orders are sized and checked against one equity, but funded from  *)
(* what execution leaves: cash never goes negative, fees included            *)
(* (SimulatedBroker._execute).                                               *)
NoBorrowing == book.cash >= 0

(* There is always a way out: an exit passes the check unchanged, halted or  *)
(* not, and one that asks for no more than was held when it was decided is   *)
(* rejected at the broker only because an earlier sell of the same symbol    *)
(* was filled on the same bar (Guardrails.check, ADR-0013).                  *)
ExitsGoThrough ==
  [][/\ Checking /\ IsExit(Head(todo)) => pending' = Append(pending, Queued(Head(todo)))
     /\ Executing /\ HasBar(Head(todo))
          /\ Head(todo).side = "SELL" /\ Head(todo).qty <= Head(todo).held =>
          \/ fills' = Append(fills, Head(todo))
          \/ \E f \in Range(fills) : f.side = "SELL" /\ f.symbol = Head(todo).symbol]_vars

=============================================================================
