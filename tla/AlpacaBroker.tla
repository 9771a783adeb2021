---------------------------- MODULE AlpacaBroker ----------------------------
(***************************************************************************)
(* brokers/alpaca.py: the submit-then-poll broker of a paper session, and    *)
(* the venue it talks to, which moves on its own between any two calls.      *)
(*                                                                          *)
(* A bar is one on_bar - poll every pending order in turn, then read the     *)
(* cash, then read the positions, three kinds of call and not one snapshot - *)
(* followed by the submits of that bar.  A poll is the last read of its      *)
(* retry loop: the order has ended, or the deadline has passed with the      *)
(* order still working; what the venue does while the loop sleeps is the     *)
(* venue's own steps.  Any call of the client may raise, which ends the      *)
(* session wherever it stands.                                               *)
(*                                                                          *)
(* The venue is modelled from the client's contract (data/alpaca_client.py). *)
(* Quantities are counted in half units of the sizer's SHARE_PRECISION: the  *)
(* sizer's orders are even, and where the venue's grid is finer a holding    *)
(* may be odd.  "ended" stands for rejected, canceled, expired and replaced, *)
(* and "working" for every status that is not terminal.  The notional of a   *)
(* fill stands for its average price.  The fee a crypto venue takes in kind  *)
(* is left out, as the code leaves it out.                                   *)
(***************************************************************************)
EXTENDS Integers, Sequences, FiniteSets, FiniteSetsExt, SequencesExt, Functions

CONSTANTS
  Symbols,
  None,
  Asks,        (* the orders the engine may hand to submit                    *)
  Holdings,    (* what the account holds when the session opens               *)
  Cash,        (* and its cash                                                *)
  Inherited,   (* what an earlier session may have left working at the venue: *)
               (* the orders, counted from where this session opens           *)
  Prices,      (* what the venue may fill a unit at                           *)
  Grain,       (* the venue's grid, in half units: 2 where it is the sizer's  *)
               (* (equities), 1 where it is finer (crypto)                    *)
  MaxAsks      (* bound: the orders one session asks for                      *)

(* AlpacaOrder: an order as the venue reports it.                            *)
VenueOrder ==
  [symbol : Symbols, side : {"BUY", "SELL"}, qty : Nat \ {0}, filled : Nat, paid : Nat,
   status : {"working", "filled", "ended"}, priced : BOOLEAN]

Placed(order) ==
  [symbol |-> order.symbol, side |-> order.side, qty |-> order.qty,
   filled |-> 0, paid |-> 0, status |-> "working", priced |-> FALSE]

Remaining(order) == order.qty - order.filled

(* What the working SELLs of a book have already promised of a symbol.       *)
WorkingSells(book, symbol) ==
  {id \in DOMAIN book : /\ book[id].symbol = symbol /\ book[id].side = "SELL"
                        /\ book[id].status = "working"}

Promised(book, symbol) ==
  SumFunctionOnSet([id \in DOMAIN book |-> Remaining(book[id])], WorkingSells(book, symbol))

(* The venue held an earlier session to its own rule, too.                   *)
ASSUME BrokerAssumption ==
  /\ Asks \subseteq [symbol : Symbols, side : {"BUY", "SELL"}, qty : Nat \ {0}]
  /\ Holdings \in [Symbols -> Nat] /\ Cash \in Nat
  /\ Inherited \subseteq Seq(VenueOrder)
  /\ \A book \in Inherited :
       /\ \A id \in DOMAIN book : book[id] = Placed(book[id])
       /\ \A symbol \in Symbols : Promised(book, symbol) <= Holdings[symbol]
  /\ None \notin Nat
  /\ Prices \subseteq Nat \ {0} /\ Grain \in {1, 2} /\ MaxAsks \in Nat

VARIABLES
  orders,       (* venue: every order it accepted, by id                      *)
  account,      (* venue: cash, and the quantity held of each symbol          *)
  phase,        (* "boot", "poll", "positions", "submit" or "over"            *)
  pending,      (* AlpacaBroker._pending: ids, in submission order            *)
  requested,    (* AlpacaBroker._requested: the order each id stands for      *)
  rejections,   (* AlpacaBroker.rejections: order, its id if it had one, why  *)
  portfolio,    (* AlpacaBroker._portfolio                                    *)
  todo,         (* on_bar: the pending ids it has still to poll               *)
  stillPending, (* on_bar: the ids to retry on the next bar                   *)
  fills,        (* on_bar: the fills collected so far                         *)
  cashRead,     (* _reconcile: the cash it has read, before the positions     *)
  blotter,      (* the engine's blotter: the fills on_bar returned            *)
  asked,        (* bound: how many orders this session asked for              *)
  ours,         (* checking only: the ids the session was told, as they came  *)
  moved         (* checking only: the account changed since on_bar began      *)

venueVars == <<orders, account>>
barVars == <<todo, stillPending, fills, cashRead>>
brokerVars == <<pending, requested, rejections, portfolio>>
vars == <<venueVars, phase, brokerVars, barVars, blotter, asked, ours, moved>>

HalfUnit == 1     (* _MAX_ROUNDING_OVERSELL *)

----------------------------------------------------------------------------
(* The venue. *)

(* The venue refuses to sell what is not there to sell. *)
Oversells(order) ==
  order.side = "SELL" /\ order.qty > account.qty[order.symbol] - Promised(orders, order.symbol)

Signed(order, qty) == IF order.side = "BUY" THEN qty ELSE -qty

(* The venue fills n units of a working order.  An order it reports filled   *)
(* may have no price yet; a partial fill has one.                            *)
Execute(id) ==
  /\ orders[id].status = "working"
  /\ \E n \in 1..Remaining(orders[id]), price \in Prices, priced \in BOOLEAN :
       LET whole == n = Remaining(orders[id])
       IN /\ n % Grain = 0 /\ (~whole => priced)
          /\ orders' = [orders EXCEPT ![id].filled = @ + n,
                                      ![id].paid = @ + n * price,
                                      ![id].status = IF whole THEN "filled" ELSE @,
                                      ![id].priced = priced]
          /\ account' = [account EXCEPT !.cash = @ - Signed(orders[id], n * price),
                                        !.qty[orders[id].symbol] = @ + Signed(orders[id], n)]
  /\ moved' = TRUE
  /\ UNCHANGED <<phase, brokerVars, barVars, blotter, asked, ours>>

(* The price of a filled order appears. *)
PublishPrice(id) ==
  /\ orders[id].status = "filled" /\ ~orders[id].priced
  /\ orders' = [orders EXCEPT ![id].priced = TRUE]
  /\ UNCHANGED <<account, phase, brokerVars, barVars, blotter, asked, ours, moved>>

(* The venue ends an order without completing it. *)
EndOrder(id) ==
  /\ orders[id].status = "working"
  /\ orders' = [orders EXCEPT ![id].status = "ended"]
  /\ UNCHANGED <<account, phase, brokerVars, barVars, blotter, asked, ours, moved>>

(* What the venue does once the session is over is not followed. *)
Venue(id) == phase # "over" /\ (Execute(id) \/ PublishPrice(id) \/ EndOrder(id))

----------------------------------------------------------------------------
(* The broker. *)

Init ==
  /\ orders \in Inherited
  /\ account = [cash |-> Cash, qty |-> Holdings]
  /\ phase = "boot"
  /\ pending = <<>> /\ requested = <<>> /\ rejections = <<>>
  /\ portfolio = account
  /\ todo = <<>> /\ stillPending = <<>> /\ fills = <<>> /\ cashRead = None
  /\ blotter = <<>> /\ asked = 0 /\ ours = <<>> /\ moved = FALSE

(* Mutant: only a filled order is ever done. *)
TerminalWhenFilled == {"filled"}

Terminal == {"filled", "ended"}

(* Mutant: an order the venue ended gets no fill. *)
FillsOfFilled(id, order) ==
  IF order.status = "filled" /\ order.priced
    THEN <<[id |-> id, symbol |-> order.symbol, side |-> order.side,
            qty |-> order.filled, paid |-> order.paid]>>
    ELSE <<>>

(* _to_fill: the fill of a settled order, none without a price or quantity.  *)
(* A Fill carries no order id; the id is kept for checking.                  *)
Fills(id, order) ==
  IF order.priced /\ order.filled > 0
    THEN <<[id |-> id, symbol |-> order.symbol, side |-> order.side,
            qty |-> order.filled, paid |-> order.paid]>>
    ELSE <<>>

(* Mutant: a filled order is done, price or not. *)
RetriedWhileWorking(id, order) == order.status \notin Terminal

(* An order on_bar leaves for the next bar: still working, or filled with no *)
(* price yet.                                                                *)
Retried(id, order) ==
  \/ order.status \notin Terminal
  \/ order.status = "filled" /\ Fills(id, order) = <<>>

StartBar ==
  /\ phase \in {"boot", "submit"}
  /\ phase' = "poll"
  /\ todo' = pending /\ moved' = FALSE
  /\ UNCHANGED <<venueVars, brokerVars, stillPending, fills, cashRead, blotter, asked, ours>>

(* One pending order that stays pending. *)
Retry ==
  /\ phase = "poll" /\ todo # <<>>
  /\ Retried(Head(todo), orders[Head(todo)])
  /\ stillPending' = Append(stillPending, Head(todo))
  /\ todo' = Tail(todo)
  /\ UNCHANGED <<venueVars, phase, brokerVars, fills, cashRead, blotter, asked, ours, moved>>

(* Mutant: only a filled order is forgotten. *)
ForgottenWhenFilled(id) ==
  IF orders[id].status = "filled" THEN Restrict(requested, DOMAIN requested \ {id}) ELSE requested

(* What is left of _requested once an order has settled. *)
Forgotten(id) == Restrict(requested, DOMAIN requested \ {id})

(* One pending order that settles: its fill is collected, and an order the   *)
(* venue ended is also recorded as a rejection.                              *)
Settle ==
  /\ phase = "poll" /\ todo # <<>>
  /\ LET id == Head(todo)
         order == orders[id]
     IN /\ ~Retried(id, order)
        /\ fills' = fills \o Fills(id, order)
        /\ rejections' = IF order.status = "filled" THEN rejections
                         ELSE Append(rejections,
                                     [order |-> requested[id], id |-> id, why |-> "ended"])
        /\ requested' = Forgotten(id)
  /\ todo' = Tail(todo)
  /\ UNCHANGED <<venueVars, phase, pending, portfolio, stillPending, cashRead,
                 blotter, asked, ours, moved>>

(* _reconcile, first call: the cash. *)
ReadCash ==
  /\ phase = "poll" /\ todo = <<>>
  /\ phase' = "positions"
  /\ pending' = stillPending
  /\ cashRead' = account.cash
  /\ UNCHANGED <<venueVars, requested, rejections, portfolio, todo, stillPending, fills,
                 blotter, asked, ours, moved>>

(* Mutant: the portfolio is rebuilt only when something filled. *)
ReadPositionsAfterFills ==
  /\ phase = "positions"
  /\ phase' = "submit"
  /\ portfolio' = IF fills = <<>> THEN portfolio ELSE [cash |-> cashRead, qty |-> account.qty]
  /\ blotter' = blotter \o fills
  /\ fills' = <<>> /\ stillPending' = <<>> /\ cashRead' = None
  /\ UNCHANGED <<venueVars, pending, requested, rejections, todo, asked, ours, moved>>

(* _reconcile, second call: the positions; on_bar returns its fills.         *)
ReadPositions ==
  /\ phase = "positions"
  /\ phase' = "submit"
  /\ portfolio' = [cash |-> cashRead, qty |-> account.qty]
  /\ blotter' = blotter \o fills
  /\ fills' = <<>> /\ stillPending' = <<>> /\ cashRead' = None
  /\ UNCHANGED <<venueVars, pending, requested, rejections, todo, asked, ours, moved>>

(* Mutant: an excess of exactly half a unit is left alone. *)
TrimBelowHalf(order) ==
  LET held == portfolio.qty[order.symbol]
  IN IF order.side = "SELL" /\ held > 0 /\ order.qty - held \in 1..(HalfUnit - 1)
       THEN [order EXCEPT !.qty = held] ELSE order

(* _trim_rounding_oversell. *)
Trim(order) ==
  LET held == portfolio.qty[order.symbol]
  IN IF order.side = "SELL" /\ held > 0 /\ order.qty - held \in 1..HalfUnit
       THEN [order EXCEPT !.qty = held] ELSE order

(* Mutant: only the newest pending order is looked at. *)
WorkingNewest(order) ==
  {id \in DOMAIN requested :
     /\ pending # <<>> /\ id = Last(pending)
     /\ requested[id].symbol = order.symbol /\ requested[id].side = order.side}

(* _working_order_id: the pending orders of the same symbol and side. *)
Working(order) ==
  {id \in Range(pending) \cap DOMAIN requested :
     requested[id].symbol = order.symbol /\ requested[id].side = order.side}

Refuse(order, why) ==
  /\ rejections' = Append(rejections, [order |-> order, id |-> None, why |-> why])
  /\ UNCHANGED <<venueVars, pending, requested, ours>>

(* The venue accepts the order and gives it the next id. *)
Place(order) ==
  LET id == Len(orders) + 1
  IN /\ orders' = Append(orders, Placed(order))
     /\ pending' = Append(pending, id)
     /\ requested' = [i \in DOMAIN requested \cup {id} |->
                        IF i = id THEN order ELSE requested[i]]
     /\ ours' = Append(ours, id)
     /\ UNCHANGED <<account, rejections>>

Asking(ask) ==
  /\ phase = "submit" /\ asked < MaxAsks
  /\ asked' = asked + 1
  /\ UNCHANGED <<portfolio, barVars, blotter, moved>>

(* submit.  The venue may refuse any order for reasons of its own: buying    *)
(* power, a wash trade, an unknown asset.                                    *)
Submit(ask) ==
  LET order == Trim(ask)
  IN /\ Asking(ask)
     /\ \/ Working(order) # {} /\ Refuse(order, "duplicate")
        \/ Working(order) = {} /\ Oversells(order) /\ Refuse(order, "oversell")
        \/ Working(order) = {} /\ ~Oversells(order) /\ Refuse(order, "venue")
        \/ Working(order) = {} /\ ~Oversells(order) /\ Place(order)
     /\ UNCHANGED phase

(* submit, when the call raises and nobody knows whether the order got there. *)
SubmitFails(ask) ==
  LET order == Trim(ask)
  IN /\ Asking(ask)
     /\ Working(order) = {}
     /\ \/ UNCHANGED orders
        \/ ~Oversells(order) /\ orders' = Append(orders, Placed(order))
     /\ phase' = "over"
     /\ UNCHANGED <<account, pending, requested, rejections, ours>>

(* A call of on_bar raises, or an interrupt lands in a poll's sleep: the     *)
(* fills collected so far are never returned.                                *)
BarFails ==
  /\ phase \in {"poll", "positions"}
  /\ phase' = "over"
  /\ UNCHANGED <<venueVars, brokerVars, barVars, blotter, asked, ours, moved>>

OnBar == Retry \/ Settle \/ ReadCash \/ ReadPositions

Next ==
  \/ \E id \in DOMAIN orders : Venue(id)
  \/ StartBar
  \/ OnBar
  \/ \E ask \in Asks : Submit(ask) \/ SubmitFails(ask)
  \/ BarFails

(* on_bar runs to its end, bars keep coming while the session is on, and the *)
(* venue ends or prices an order sooner or later: a DAY order does not       *)
(* outlive the close.                                                        *)
Fairness ==
  /\ WF_vars(StartBar) /\ WF_vars(OnBar)
  /\ \A id \in 1..(MaxAsks + 1) :
       /\ WF_vars(phase # "over" /\ id \in DOMAIN orders /\ EndOrder(id))
       /\ WF_vars(phase # "over" /\ id \in DOMAIN orders /\ PublishPrice(id))

Spec == Init /\ [][Next]_vars /\ Fairness

----------------------------------------------------------------------------
(* Properties. *)

Sides == {"BUY", "SELL"}
Ids == DOMAIN orders
Collected == {fills[i].id : i \in DOMAIN fills}
Reported == blotter \o fills
Reports(id) == {i \in DOMAIN Reported : Reported[i].id = id}
IsLive(id) == orders[id].status = "working"
WasEnded(id) == \E i \in DOMAIN rejections : rejections[i].id = id

(* The variables have their types; the ids under way are orders of this      *)
(* session, once each, and between two bars the broker knows what exactly    *)
(* the pending ones were asked to do (_pending and _requested, the two       *)
(* structures the duplicate guard reads, never drift apart).                 *)
TypeOK ==
  /\ \A id \in Ids : /\ orders[id].filled \in 0..orders[id].qty
                      /\ orders[id].status \in Terminal \cup {"working"}
                      /\ (orders[id].status = "filled") = (Remaining(orders[id]) = 0)
  /\ account.cash \in Int /\ account.qty \in [Symbols -> Nat]
  /\ portfolio.cash \in Int /\ portfolio.qty \in [Symbols -> Nat]
  /\ phase \in {"boot", "poll", "positions", "submit", "over"}
  /\ asked \in 0..MaxAsks /\ Range(ours) \subseteq Ids /\ moved \in BOOLEAN
  /\ IsInjective(pending) /\ Range(pending) \subseteq Range(ours)
  /\ Range(todo) \subseteq Range(pending)
  /\ DOMAIN requested \subseteq Range(pending)
  /\ phase = "submit" => DOMAIN requested = Range(pending)

(* However many bars ask again for a target the venue has not filled yet,    *)
(* at most one order this session was told of is live per symbol and side    *)
(* (submit's duplicate guard, ADR-0036).                                     *)
OneLiveOrder ==
  \A i, j \in Range(ours) :
    /\ IsLive(i) /\ IsLive(j)
    /\ orders[i].symbol = orders[j].symbol /\ orders[i].side = orders[j].side
    => i = j

(* What happened at the account is what it opened with, plus the blotter,    *)
(* plus the fills of the orders on_bar has yet to report: an order polled    *)
(* over several bars, filled in parts or ended half-way is booked exactly    *)
(* once, and only orders this session was never told of are missing for      *)
(* good (on_bar, _to_fill).                                                  *)
Bought(order, symbol, qty) == IF order.symbol = symbol THEN Signed(order, qty) ELSE 0

Unreported == (Ids \ Range(ours)) \cup Range(pending) \cup Collected

BlotterExplainsAccount ==
  /\ account.cash =
       Cash
       - SumFunctionOnSet([i \in DOMAIN blotter |-> Signed(blotter[i], blotter[i].paid)],
                          DOMAIN blotter)
       - SumFunctionOnSet([id \in Ids |-> Signed(orders[id], orders[id].paid)], Unreported)
  /\ \A s \in Symbols :
       account.qty[s] =
         Holdings[s]
         + SumFunctionOnSet([i \in DOMAIN blotter |-> Bought(blotter[i], s, blotter[i].qty)],
                            DOMAIN blotter)
         + SumFunctionOnSet([id \in Ids |-> Bought(orders[id], s, orders[id].filled)],
                            Unreported)

(* A bar in which the account stood still ends with the portfolio equal to   *)
(* the account, whatever moved it before: another session's order, a fill    *)
(* after the last poll (on_bar reconciles whether or not anything filled).   *)
PortfolioIsTheAccount == phase = "submit" /\ ~moved => portfolio = account

(* The exit of a whole holding is never refused for rounding: when the       *)
(* portfolio is current and nothing else is selling the symbol, only an      *)
(* order for more than half a unit above the holding is refused as an        *)
(* oversell ("a long-or-flat position must stay sellable", ADR-0058).        *)
ExitsStaySellable ==
  [][\A ask \in Asks :
       /\ Submit(ask) /\ ~moved /\ WorkingSells(orders, ask.symbol) = {}
       /\ rejections' # rejections /\ Last(rejections').why = "oversell"
       => portfolio.qty[ask.symbol] = 0 \/ ask.qty > portfolio.qty[ask.symbol] + HalfUnit]_vars

(* Every order the session was told of is settled, unless the session ends   *)
(* first: no order is polled for ever (on_bar's terminal statuses, ADR-0033). *)
OrdersSettle ==
  \A id \in 1..(MaxAsks + 1) : id \in Range(pending) ~> (id \notin Range(pending) \/ phase = "over")

(* The broker keeps the engine's protocol: each order it queued settles in   *)
(* some on_bar after its submit, once and for good, in full unless the venue *)
(* ended it (interfaces.py, Broker).                                         *)
Outcome(id) ==
  [qty |-> orders[id].qty,
   state |-> IF id \in Range(pending) THEN "open" ELSE IF WasEnded(id) THEN "ended" ELSE "done",
   filled |-> IF id \in Range(pending) THEN 0
              ELSE SumFunctionOnSet([i \in DOMAIN Reported |-> Reported[i].qty], Reports(id))]

Protocol ==
  INSTANCE Broker WITH
    Quantities <- UNION {1..ask.qty : ask \in Asks},
    book <- [i \in DOMAIN ours |-> Outcome(ours[i])],
    refusals <- Cardinality({i \in DOMAIN rejections : rejections[i].id = None})

KeepsTheProtocol == Protocol!BrokerSpec
=============================================================================
