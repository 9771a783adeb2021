------------------------------ MODULE Accounts ------------------------------
(***************************************************************************)
(* The accounting both brokers share: Portfolio (types.py), the cost model  *)
(* of the simulated broker (broker.py) and target-weight sizing             *)
(* (sizing.py), as operators on a book                                      *)
(*                                                                          *)
(*     [cash |-> money, qty |-> [Symbols -> units held]].                   *)
(*                                                                          *)
(* Quantities are whole units of SHARE_PRECISION, so SHARE_EPS tests become  *)
(* exact.  Prices are integers; rates (slippage, fee) are in Scale-ths, and  *)
(* money is kept in 1/(Scale * Scale) so that no cost is ever rounded.  The  *)
(* average entry price is left out: no decision reads it.                    *)
(***************************************************************************)
EXTENDS Integers, Sequences, FiniteSetsExt, SequencesExt, Selections

CONSTANTS
  Symbols,   (* the run's universe                                           *)
  NoPrice,   (* no mark, or no bar, for a symbol                             *)
  Scale,     (* rates are in Scale-ths                                       *)
  Slip,      (* CostConfig.slippage_bps                                      *)
  Fee,       (* CostConfig.taker_fee_bps                                     *)
  PerUnit    (* CostConfig.commission_per_share                              *)

ASSUME CostAssumption ==
  /\ Scale \in Nat \ {0} /\ Slip \in 0..Scale - 1 /\ Fee \in 0..Scale
  /\ PerUnit \in Nat

Money == Scale * Scale

(* CostModel: slippage is adverse, the fee is taken on the executed price.   *)
SlippedRate(side) == IF side = "BUY" THEN Scale + Slip ELSE Scale - Slip

FillPrice(side, open) == open * SlippedRate(side) * Scale

Commission(qty, side, open) ==
  qty * PerUnit * Money + qty * open * SlippedRate(side) * Fee

Value(qty, price) == qty * price * Money

Held(book) == {s \in Symbols : book.qty[s] > 0}

(* The positions of some symbols, at their marks.                            *)
GrossOf(book, prices, symbols) ==
  SumFunction([s \in Held(book) \cap symbols |-> Value(book.qty[s], prices[s])])

Equity(book, prices) == book.cash + GrossOf(book, prices, Symbols)

BuyCost(order, open) ==
  order.qty * FillPrice("BUY", open) + Commission(order.qty, "BUY", open)

(* Portfolio.apply_fill of an order executed against an open.                *)
ApplyFill(book, order, open) ==
  LET signed == IF order.side = "BUY" THEN order.qty ELSE -order.qty
  IN [cash |-> book.cash - signed * FillPrice(order.side, open)
                         - Commission(order.qty, order.side, open),
      qty |-> [book.qty EXCEPT ![order.symbol] = @ + signed]]

(* Python's round: to the nearest unit, ties to even (d > 0).                *)
Round(n, d) ==
  LET q == n \div d
      r == n % d
  IN IF 2 * r < d \/ (2 * r = d /\ q % 2 = 0) THEN q ELSE q + 1

(* sizing._size_one: units to trade to hold weight percent of equity.        *)
TargetDelta(book, prices, target) ==
  LET unit == 100 * Value(1, prices[target.symbol])
  IN Round(target.weight * Equity(book, prices) - book.qty[target.symbol] * unit, unit)

(* A delta of one unit of precision is dust and dropped; raw orders pass.    *)
Worth(book, prices, intent) ==
  \/ intent.kind = "order"
  \/ TargetDelta(book, prices, intent) \notin -1..1

Sized(book, prices, intent) ==
  IF intent.kind = "order"
  THEN [symbol |-> intent.symbol, side |-> intent.side, qty |-> intent.qty]
  ELSE LET delta == TargetDelta(book, prices, intent)
       IN [symbol |-> intent.symbol,
           side |-> IF delta > 0 THEN "BUY" ELSE "SELL",
           qty |-> IF delta > 0 THEN delta ELSE -delta]

(* size(): every target against the same pre-trade book, in intent order.    *)
SizedOrders(book, prices, intents) ==
  LET worth == Selected(intents, {i \in DOMAIN intents : Worth(book, prices, intents[i])})
  IN [i \in DOMAIN worth |-> Sized(book, prices, worth[i])]
=============================================================================
