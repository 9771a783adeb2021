-------------------------- MODULE ShadowSimulated --------------------------
(***************************************************************************)
(* ShadowBroker around a SimulatedBroker: the null test of the divergence   *)
(* measurement.  The live broker and the model are the same class, walk the *)
(* same orders over the same bars and start each bar from the same book.    *)
(***************************************************************************)
EXTENDS Accounts

CONSTANTS
  None,
  StartCash,
  Asks,      (* the orders the engine may submit: [symbol, side, qty]        *)
  Opens,     (* the slices a feed may deliver: an open per symbol or NoPrice *)
  MaxAsks,   (* bound: orders submitted                                      *)
  MaxBars    (* bound: bars of the feed                                      *)

VARIABLES
  book,      (* SimulatedBroker._portfolio                                   *)
  queue,     (* SimulatedBroker._pending, each order with its identity       *)
  asked,     (* bound: orders submitted so far                               *)
  enabled, tracked, closed, refusals, strays, lastBar, journaled, file

Shadow == INSTANCE Shadow

shadowVars == <<enabled, tracked, closed, refusals, strays, lastBar, journaled, file>>
vars == <<book, queue, asked, shadowVars>>

Unfunded(held, order, open) == order.side = "BUY" /\ BuyCost(order, open) > held.cash
Short(held, order) == order.side = "SELL" /\ order.qty > held.qty[order.symbol]

(* One queued order of SimulatedBroker.on_bar. *)
Execute(state, order, slice) ==
  LET open == slice[order.symbol]
  IN IF open = NoPrice THEN [state EXCEPT !.kept = Append(@, order)]
     ELSE IF Unfunded(state.held, order, open) \/ Short(state.held, order)
     THEN [state EXCEPT !.rejected = Append(@, order)]
     ELSE [state EXCEPT !.held = ApplyFill(@, order, open), !.filled = Append(@, order)]

(* SimulatedBroker.on_bar over a queue, from a book. *)
Walk(held, orders, slice) ==
  FoldLeft(LAMBDA state, order : Execute(state, order, slice),
           [held |-> held, kept |-> <<>>, filled |-> <<>>, rejected |-> <<>>], orders)

Init ==
  /\ book = [cash |-> StartCash * Money, qty |-> [s \in Symbols |-> 0]]
  /\ queue = <<>> /\ asked = 0
  /\ Shadow!ShadowInit

Submit(ask) ==
  /\ asked < MaxAsks
  /\ asked' = asked + 1
  /\ LET object == [ask |-> asked + 1, copy |-> FALSE]
     IN /\ queue' = Append(queue, [order |-> object, symbol |-> ask.symbol,
                                   side |-> ask.side, qty |-> ask.qty])
        /\ Shadow!Track(Shadow!Row(object, ask.symbol, ask.side, ask.qty), FALSE)
  /\ UNCHANGED book

OnBar(slice) ==
  LET bars == {s \in Symbols : slice[s] # NoPrice}
      live == Walk(book, queue, slice)
      replayed == Shadow!Priceable(tracked, bars)
      model == Walk(book, replayed, slice)
      Of(order) == order.order.ask
  IN /\ lastBar < MaxBars
     /\ book' = live.held
     /\ queue' = live.kept
     /\ UNCHANGED asked
     /\ \/ Shadow!Observe(bars,
             [i \in DOMAIN live.filled |->
                [symbol |-> live.filled[i].symbol, side |-> live.filled[i].side,
                 qty |-> live.filled[i].qty, of |-> Of(live.filled[i])]],
             [i \in DOMAIN live.rejected |->
                [order |-> live.rejected[i].order, of |-> Of(live.rejected[i])]],
             [o \in {row.order : row \in Range(replayed)} |->
                IF \E row \in Range(model.filled) : row.order = o
                  THEN "filled" ELSE "rejected"])
        \/ Shadow!ModelFails(bars)
        \/ Shadow!Off

Next ==
  \/ \E ask \in Asks : Submit(ask)
  \/ \E slice \in Opens : OnBar(slice)

Spec == Init /\ [][Next]_vars

----------------------------------------------------------------------------
(* Properties *)

(* "Wrapping a SimulatedBroker in a backtest is legal and reports zero       *)
(* divergence, which is the mechanism's own null test" (divergence.py, the   *)
(* module docstring): on every row the two sides agree on what happened.     *)
NullTestReportsNoDivergence ==
  enabled => \A row \in Range(Shadow!Rows) :
    /\ (row.live = None) = (row.model = None)
    /\ row.live # None =>
         row.live.outcome = row.model.outcome /\ row.live.qty = row.model.qty
=============================================================================
