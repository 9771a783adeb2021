---------------------------- MODULE AlpacaProofs ----------------------------
(***************************************************************************)
(* What is proved of AlpacaBroker, for every set of orders the engine may    *)
(* ask for, every opening account and every number of bars.                  *)
(*                                                                          *)
(* BrokerInv is what the broker keeps: its lists hold the same orders, the   *)
(* duplicate guard knows every live one, and the fills of a bar are what     *)
(* its settled orders got.  Covered says that the venue holds what its       *)
(* working SELLs promise, Explained that every movement of the account is on *)
(* the blotter or still to be reported, and Told that what was reported is   *)
(* reported for good.                                                        *)
(***************************************************************************)
EXTENDS AlpacaBroker, FoldTheorems

Purse == [cash : Int, qty : [Symbols -> Int]]
Order == [symbol : Symbols, side : {"BUY", "SELL"}, qty : Nat \ {0}]
Rejection == [order : Order, id : Nat \cup {None},
              why : {"ended", "duplicate", "oversell", "venue"}]
Fill == [id : Nat, symbol : Symbols, side : {"BUY", "SELL"}, qty : Nat, paid : Nat]

Typed ==
  /\ orders \in Seq(VenueOrder)
  /\ account \in Purse /\ portfolio \in Purse
  /\ phase \in {"boot", "poll", "positions", "submit", "over"}
  /\ phase = "positions" => cashRead \in Int
  /\ pending \in Seq(Nat) /\ todo \in Seq(Nat) /\ stillPending \in Seq(Nat) /\ ours \in Seq(Nat)
  /\ requested \in [DOMAIN requested -> Order] /\ rejections \in Seq(Rejection)
  /\ fills \in Seq(Fill) /\ blotter \in Seq(Fill)
  /\ asked \in 0..MaxAsks /\ moved \in BOOLEAN

(* An order is filled when all of it is, a part of it has a price, and what  *)
(* was not filled was not paid for.                                          *)
Sound(order) ==
  /\ order.filled <= order.qty
  /\ (order.status = "filled") = (order.filled = order.qty)
  /\ order.status # "filled" /\ order.filled > 0 => order.priced
  /\ order.filled = 0 => order.paid = 0

OrdersSound == \A id \in Ids : Sound(orders[id])

(* The ids on_bar has not settled.                                           *)
UnderWay == IF phase = "poll" THEN Range(todo) \cup Range(stillPending) ELSE Range(pending)

(* The lists hold ids the session was told, once each, and what the guard    *)
(* knows are the ids on_bar has not settled.                                 *)
Lists ==
  /\ Range(ours) \subseteq Ids
  /\ IsInjective(pending) /\ Range(pending) \subseteq Range(ours)
  /\ IsInjective(todo) /\ IsInjective(stillPending)
  /\ Range(todo) \cap Range(stillPending) = {}
  /\ Range(todo) \cup Range(stillPending) \subseteq Range(pending)
  /\ DOMAIN requested \subseteq Range(pending)
  /\ phase # "over" => DOMAIN requested = UnderWay
  /\ phase \in {"boot", "submit"} => todo = <<>> /\ stillPending = <<>> /\ fills = <<>>
  /\ phase = "positions" => todo = <<>>

(* What the duplicate guard reads knows every live order for what it is.     *)
LiveIsKnown ==
  phase # "over" =>
    \A id \in Range(ours) :
      IsLive(id) => /\ id \in DOMAIN requested
                    /\ requested[id].symbol = orders[id].symbol
                    /\ requested[id].side = orders[id].side

FillOf(id) ==
  [id |-> id, symbol |-> orders[id].symbol, side |-> orders[id].side,
   qty |-> orders[id].filled, paid |-> orders[id].paid]

(* The fills of a bar are what its settled orders got, once each, and an     *)
(* order settled without one got nothing.                                    *)
Noted ==
  /\ \A i, j \in DOMAIN fills : fills[i].id = fills[j].id => i = j
  /\ \A id \in Collected : id \in Range(ours) /\ ~IsLive(id)
  /\ \A i \in DOMAIN fills : fills[i] = FillOf(fills[i].id)
  /\ phase # "over" => Collected \cap UnderWay = {}
  /\ phase = "poll" =>
       \A id \in Range(pending) \ UnderWay :
         id \in Collected \/ (orders[id].status = "ended" /\ orders[id].filled = 0)

BrokerInv == Typed /\ OrdersSound /\ Lists /\ LiveIsKnown /\ OneLiveOrder /\ Noted

(* The two reads of a bar, as long as nothing moved since it began.          *)
ReadsAgree ==
  ~moved => /\ phase = "positions" => cashRead = account.cash
            /\ PortfolioIsTheAccount

-----------------------------------------------------------------------------
(* Sequences *)

LEMMA EmptyList == Range(<<>>) = {} /\ IsInjective(<<>>) /\ DOMAIN <<>> = {}
BY DEF Range, IsInjective

LEMMA AppendRange ==
  ASSUME NEW T, NEW s \in Seq(T), NEW e \in T
  PROVE  /\ Append(s, e) \in Seq(T) /\ Range(Append(s, e)) = Range(s) \cup {e}
         /\ DOMAIN Append(s, e) = DOMAIN s \cup {Len(s) + 1}
         /\ Append(s, e)[Len(s) + 1] = e /\ Len(s) + 1 \notin DOMAIN s
         /\ \A i \in DOMAIN s : Append(s, e)[i] = s[i]
         /\ IsInjective(s) /\ e \notin Range(s) => IsInjective(Append(s, e))
<1>1. /\ Append(s, e) \in Seq(T) /\ DOMAIN s = 1..Len(s) /\ Len(s) \in Nat
      /\ DOMAIN Append(s, e) = 1..(Len(s) + 1)
      /\ Append(s, e)[Len(s) + 1] = e
      /\ \A i \in DOMAIN s : Append(s, e)[i] = s[i]
  OBVIOUS
<1>2. DOMAIN Append(s, e) = DOMAIN s \cup {Len(s) + 1} /\ Len(s) + 1 \notin DOMAIN s BY <1>1
<1>3. Range(Append(s, e)) = Range(s) \cup {e} BY <1>1, <1>2 DEF Range
<1>4. IsInjective(s) /\ e \notin Range(s) => IsInjective(Append(s, e))
  BY <1>1, <1>2 DEF Range, IsInjective
<1> QED BY <1>1, <1>2, <1>3, <1>4

LEMMA AppendId ==
  \A s \in Seq(Nat), e \in Nat :
    /\ Range(Append(s, e)) = Range(s) \cup {e}
    /\ DOMAIN Append(s, e) = DOMAIN s \cup {Len(s) + 1} /\ Append(s, e)[Len(s) + 1] = e
    /\ Len(s) + 1 \notin DOMAIN s /\ \A i \in DOMAIN s : Append(s, e)[i] = s[i]
BY AppendRange

LEMMA HeadAndTail ==
  ASSUME NEW T, NEW s \in Seq(T), s # <<>>
  PROVE  /\ Head(s) \in T /\ Tail(s) \in Seq(T) /\ Range(s) = {Head(s)} \cup Range(Tail(s))
         /\ IsInjective(s) => IsInjective(Tail(s)) /\ Head(s) \notin Range(Tail(s))
<1>1. /\ Head(s) \in T /\ Tail(s) \in Seq(T) /\ Head(s) = s[1] /\ DOMAIN s = 1..Len(s)
      /\ Len(s) \in Nat /\ Len(s) > 0 /\ DOMAIN Tail(s) = 1..(Len(s) - 1)
      /\ \A i \in 1..(Len(s) - 1) : Tail(s)[i] = s[i + 1]
  OBVIOUS
<1>2. ASSUME NEW i \in DOMAIN s PROVE s[i] \in {Head(s)} \cup Range(Tail(s))
  <2>1. CASE i = 1 BY <1>1, <2>1
  <2>2. CASE i # 1
    <3>1. i - 1 \in 1..(Len(s) - 1) /\ s[i] = s[(i - 1) + 1] BY <1>1, <2>2
    <3> QED BY <1>1, <3>1 DEF Range
  <2> QED BY <2>1, <2>2
<1>3. ASSUME NEW i \in DOMAIN Tail(s) PROVE i + 1 \in DOMAIN s /\ i + 1 # 1 /\ Tail(s)[i] = s[i + 1]
  BY <1>1
<1>4. 1 \in DOMAIN s BY <1>1
<1>5. Range(s) = {Head(s)} \cup Range(Tail(s)) BY <1>1, <1>2, <1>3, <1>4 DEF Range
<1>6. IsInjective(s) => Head(s) \notin Range(Tail(s))
  BY <1>1, <1>3, <1>4 DEF Range, IsInjective
<1>7. IsInjective(s) => IsInjective(Tail(s))
  <2>1. ASSUME IsInjective(s), NEW i \in DOMAIN Tail(s), NEW j \in DOMAIN Tail(s),
               Tail(s)[i] = Tail(s)[j]
        PROVE  i = j
    <3>1. i + 1 = j + 1 BY <1>3, <2>1 DEF IsInjective
    <3> QED BY <1>1, <3>1
  <2> QED BY <2>1 DEF IsInjective
<1> QED BY <1>1, <1>5, <1>6, <1>7

LEMMA BrokerInit == Init => BrokerInv
<1> SUFFICES ASSUME Init PROVE BrokerInv
  OBVIOUS
<1>1. /\ orders \in Seq(VenueOrder) /\ \A id \in DOMAIN orders : orders[id] = Placed(orders[id])
  BY BrokerAssumption DEF Init
<1>2. Typed
  <2>1. account \in Purse /\ portfolio \in Purse BY BrokerAssumption DEF Init, Purse
  <2>2. requested \in [DOMAIN requested -> Order] BY DEF Init
  <2>3. asked \in 0..MaxAsks BY BrokerAssumption DEF Init
  <2>4. <<>> \in Seq(Nat) /\ <<>> \in Seq(Rejection) /\ <<>> \in Seq(Fill) OBVIOUS
  <2>5. /\ phase = "boot" /\ pending = <<>> /\ todo = <<>> /\ stillPending = <<>> /\ ours = <<>>
        /\ rejections = <<>> /\ fills = <<>> /\ blotter = <<>> /\ moved = FALSE
    BY DEF Init
  <2> QED BY <1>1, <2>1, <2>2, <2>3, <2>4, <2>5 DEF Typed
<1>3. OrdersSound
  <2>1. ASSUME NEW id \in DOMAIN orders PROVE Sound(orders[id])
    <3>1. orders[id] \in VenueOrder /\ orders[id] = Placed(orders[id]) BY <1>1
    <3>2. /\ orders[id].filled = 0 /\ orders[id].paid = 0 /\ orders[id].status = "working"
          /\ orders[id].qty \in Nat \ {0}
      BY <3>1 DEF VenueOrder, Placed
    <3> QED BY <3>2 DEF Sound
  <2> QED BY <2>1 DEF OrdersSound, Ids
<1>4. Lists BY EmptyList DEF Init, Lists, UnderWay, Ids
<1>5. LiveIsKnown /\ OneLiveOrder BY EmptyList DEF Init, LiveIsKnown, OneLiveOrder
<1>6. Noted BY EmptyList DEF Init, Noted, Collected
<1> QED BY <1>2, <1>3, <1>4, <1>5, <1>6 DEF BrokerInv

-----------------------------------------------------------------------------
(* The venue *)

(* What an execution does to its order and to the account.                   *)
LEMMA ExecuteShape ==
  ASSUME BrokerInv, NEW id \in DOMAIN orders, Execute(id)
  PROVE  \E n \in Nat \ {0}, cost \in Nat :
           /\ n % Grain = 0 /\ n <= Remaining(orders[id]) /\ orders[id].status = "working"
           /\ orders' \in Seq(VenueOrder) /\ DOMAIN orders' = DOMAIN orders
           /\ \A i \in DOMAIN orders : i # id => orders'[i] = orders[i]
           /\ orders'[id].symbol = orders[id].symbol /\ orders'[id].side = orders[id].side
           /\ orders'[id].qty = orders[id].qty
           /\ orders'[id].filled = orders[id].filled + n
           /\ orders'[id].paid = orders[id].paid + cost
           /\ orders'[id].status = IF n = Remaining(orders[id]) THEN "filled" ELSE "working"
           /\ n # Remaining(orders[id]) => orders'[id].priced
           /\ account' \in Purse
           /\ account'.cash = account.cash - Signed(orders[id], cost)
           /\ \A s \in Symbols : account'.qty[s] = account.qty[s] + Bought(orders[id], s, n)
<1>1. orders \in Seq(VenueOrder) /\ account \in Purse /\ orders[id] \in VenueOrder
  BY DEF BrokerInv, Typed
<1>2. orders[id].status = "working" BY DEF Execute
<1>3. PICK n \in 1..Remaining(orders[id]), price \in Prices, priced \in BOOLEAN :
          LET whole == n = Remaining(orders[id])
          IN /\ n % Grain = 0 /\ (~whole => priced)
             /\ orders' = [orders EXCEPT ![id].filled = @ + n,
                                         ![id].paid = @ + n * price,
                                         ![id].status = IF whole THEN "filled" ELSE @,
                                         ![id].priced = priced]
             /\ account' = [account EXCEPT !.cash = @ - Signed(orders[id], n * price),
                                           !.qty[orders[id].symbol] = @ + Signed(orders[id], n)]
  BY Zenon DEF Execute
<1> DEFINE cost == n * price
           symbol == orders[id].symbol
           status == IF n = Remaining(orders[id]) THEN "filled" ELSE orders[id].status
           order == [orders[id] EXCEPT !.filled = @ + n, !.paid = @ + cost,
                                       !.status = status, !.priced = priced]
<1>4. /\ orders[id].qty \in Nat \ {0} /\ orders[id].filled \in Nat /\ orders[id].paid \in Nat
      /\ symbol \in Symbols
  BY <1>1 DEF VenueOrder
<1>5. n \in Nat \ {0} /\ n <= Remaining(orders[id])
  BY <1>4 DEF Remaining
<1>6. cost \in Nat
  <2>1. price \in Nat BY BrokerAssumption
  <2> QED BY <1>5, <2>1
<1>7. orders' = [orders EXCEPT ![id] = order] BY <1>1, <1>3
<1>8. account' = [account EXCEPT !.cash = @ - Signed(orders[id], cost),
                                 !.qty[symbol] = @ + Signed(orders[id], n)]
  BY <1>3
<1>9. n # Remaining(orders[id]) => priced BY <1>3
<1>10. priced \in BOOLEAN OBVIOUS
<1>11. Signed(orders[id], cost) \in Int /\ Signed(orders[id], n) \in Int
  <2> HIDE DEF cost
  <2> QED BY <1>5, <1>6 DEF Signed
<1> HIDE DEF cost, symbol
<1>12. /\ account' \in Purse /\ account'.cash = account.cash - Signed(orders[id], cost)
       /\ account'.qty = [account.qty EXCEPT ![symbol] = @ + Signed(orders[id], n)]
  <2>1. account.cash \in Int /\ account.qty \in [Symbols -> Int] BY <1>1 DEF Purse
  <2>2. account'.cash = account.cash - Signed(orders[id], cost) /\ account'.cash \in Int
    BY <1>1, <1>8, <1>11, <2>1 DEF Purse
  <2>3. /\ account'.qty = [account.qty EXCEPT ![symbol] = @ + Signed(orders[id], n)]
    BY <1>1, <1>8 DEF Purse
  <2>4. account'.qty \in [Symbols -> Int] BY <1>4, <1>11, <2>1, <2>3
  <2>5. account' = [cash |-> account'.cash, qty |-> account'.qty] BY <1>1, <1>8 DEF Purse
  <2> QED BY <2>2, <2>3, <2>4, <2>5 DEF Purse
<1>13. n % Grain = 0 BY <1>3
<1>14. ASSUME NEW s \in Symbols PROVE account'.qty[s] = account.qty[s] + Bought(orders[id], s, n)
  <2>1. account.qty \in [Symbols -> Int] BY <1>1 DEF Purse
  <2>2. CASE s = symbol BY <1>4, <1>12, <2>1, <2>2 DEF Bought, symbol
  <2>3. CASE s # symbol BY <1>4, <1>12, <2>1, <2>3 DEF Bought, symbol
  <2> QED BY <2>2, <2>3
<1>15. status \in {"working", "filled", "ended"} BY <1>2
<1>16. /\ order \in VenueOrder /\ order.symbol = orders[id].symbol /\ order.side = orders[id].side
       /\ order.qty = orders[id].qty /\ order.filled = orders[id].filled + n
       /\ order.paid = orders[id].paid + cost /\ order.status = status /\ order.priced = priced
  <2> HIDE DEF status
  <2>1. /\ orders[id].filled + n \in Nat /\ orders[id].paid + cost \in Nat
    BY <1>4, <1>5, <1>6
  <2> DEFINE filled == orders[id].filled + n
             paid == orders[id].paid + cost
  <2>2. order = [orders[id] EXCEPT !.filled = filled, !.paid = paid, !.status = status,
                                   !.priced = priced]
    OBVIOUS
  <2> HIDE DEF order
  <2>3. filled \in Nat /\ paid \in Nat BY <2>1
  <2> HIDE DEF filled, paid
  <2>4. /\ order \in VenueOrder /\ order.symbol = orders[id].symbol /\ order.side = orders[id].side
        /\ order.qty = orders[id].qty /\ order.filled = filled
        /\ order.paid = paid /\ order.status = status /\ order.priced = priced
    BY <1>1, <1>10, <1>15, <2>2, <2>3 DEF VenueOrder
  <2> QED BY <2>4 DEF filled, paid
<1> HIDE DEF order
<1>17. /\ orders' \in Seq(VenueOrder) /\ DOMAIN orders' = DOMAIN orders /\ orders'[id] = order
       /\ \A i \in DOMAIN orders : i # id => orders'[i] = orders[i]
  BY <1>1, <1>7, <1>16
<1> QED BY <1>2, <1>5, <1>6, <1>9, <1>12, <1>13, <1>14, <1>16, <1>17

(* Execute, PublishPrice and EndOrder: the venue moves orders only out of    *)
(* "working", and an order that has ended is what it will stay.              *)
LEMMA VenueShape ==
  ASSUME BrokerInv, NEW id \in DOMAIN orders, Venue(id)
  PROVE  /\ phase # "over"
         /\ UNCHANGED <<phase, pending, requested, rejections, portfolio, todo, stillPending,
                        fills, cashRead, blotter, asked, ours>>
         /\ orders' \in Seq(VenueOrder) /\ DOMAIN orders' = DOMAIN orders
         /\ account' \in Purse /\ (moved' = moved \/ moved' = TRUE)
         /\ account' = account \/ moved'
         /\ \A i \in DOMAIN orders :
              /\ orders'[i].symbol = orders[i].symbol /\ orders'[i].side = orders[i].side
              /\ orders'[i].qty = orders[i].qty
              /\ Sound(orders'[i])
              /\ orders[i].status # "working" =>
                   /\ orders'[i].status = orders[i].status
                   /\ orders'[i].filled = orders[i].filled /\ orders'[i].paid = orders[i].paid
<1>1. orders \in Seq(VenueOrder) /\ account \in Purse /\ orders[id] \in VenueOrder
  BY DEF BrokerInv, Typed
<1>2. \A i \in DOMAIN orders : Sound(orders[i]) BY DEF BrokerInv, OrdersSound, Ids
<1>3. /\ phase # "over"
      /\ UNCHANGED <<phase, pending, requested, rejections, portfolio, todo, stillPending,
                     fills, cashRead, blotter, asked, ours>>
      /\ moved' = moved \/ moved' = TRUE
  BY DEF Venue, Execute, PublishPrice, EndOrder, brokerVars, barVars
<1>4. CASE Execute(id)
  <2>1. PICK n \in Nat \ {0}, cost \in Nat :
           /\ n <= Remaining(orders[id]) /\ orders[id].status = "working"
           /\ orders' \in Seq(VenueOrder) /\ DOMAIN orders' = DOMAIN orders
           /\ \A i \in DOMAIN orders : i # id => orders'[i] = orders[i]
           /\ orders'[id].symbol = orders[id].symbol /\ orders'[id].side = orders[id].side
           /\ orders'[id].qty = orders[id].qty
           /\ orders'[id].filled = orders[id].filled + n
           /\ orders'[id].paid = orders[id].paid + cost
           /\ orders'[id].status = IF n = Remaining(orders[id]) THEN "filled" ELSE "working"
           /\ n # Remaining(orders[id]) => orders'[id].priced
           /\ account' \in Purse
    BY <1>4, ExecuteShape
  <2>2. moved' BY <1>4 DEF Execute
  <2>3. orders[id].qty \in Nat /\ orders[id].filled \in Nat /\ Sound(orders[id])
    BY <1>1, <1>2 DEF VenueOrder
  <2> DEFINE o == orders'[id]
  <2>4. o.filled <= o.qty /\ o.filled # 0 BY <2>1, <2>3 DEF Remaining
  <2>5. (o.status = "filled") = (o.filled = o.qty) BY <2>1, <2>3 DEF Remaining
  <2>6. o.status # "filled" => o.priced BY <2>1
  <2> HIDE DEF o
  <2>7. Sound(o) BY <2>4, <2>5, <2>6 DEF Sound
  <2> USE DEF o
  <2> QED BY <1>2, <1>3, <2>1, <2>2, <2>7
<1>5. CASE PublishPrice(id)
  <2> DEFINE o == [orders[id] EXCEPT !.priced = TRUE]
  <2>1. orders' = [orders EXCEPT ![id] = o] /\ account' = account
        /\ orders[id].status = "filled"
    BY <1>1, <1>5 DEF PublishPrice
  <2>2. /\ o \in VenueOrder /\ o.symbol = orders[id].symbol /\ o.side = orders[id].side
        /\ o.qty = orders[id].qty /\ o.filled = orders[id].filled /\ o.paid = orders[id].paid
        /\ o.status = orders[id].status
    BY <1>1 DEF VenueOrder
  <2> HIDE DEF o
  <2>3. Sound(o) BY <1>2, <2>1, <2>2 DEF Sound
  <2>4. /\ orders' \in Seq(VenueOrder) /\ DOMAIN orders' = DOMAIN orders /\ orders'[id] = o
        /\ \A i \in DOMAIN orders : i # id => orders'[i] = orders[i]
    BY <1>1, <2>1, <2>2
  <2> QED BY <1>1, <1>2, <1>3, <2>1, <2>2, <2>3, <2>4
<1>6. CASE EndOrder(id)
  <2> DEFINE o == [orders[id] EXCEPT !.status = "ended"]
  <2>1. orders' = [orders EXCEPT ![id] = o] /\ account' = account
        /\ orders[id].status = "working"
    BY <1>1, <1>6 DEF EndOrder
  <2>2. /\ o \in VenueOrder /\ o.symbol = orders[id].symbol /\ o.side = orders[id].side
        /\ o.qty = orders[id].qty /\ o.filled = orders[id].filled /\ o.paid = orders[id].paid
        /\ o.status = "ended" /\ o.priced = orders[id].priced
    BY <1>1 DEF VenueOrder
  <2> HIDE DEF o
  <2>3. Sound(o) BY <1>2, <2>1, <2>2 DEF Sound
  <2>4. /\ orders' \in Seq(VenueOrder) /\ DOMAIN orders' = DOMAIN orders /\ orders'[id] = o
        /\ \A i \in DOMAIN orders : i # id => orders'[i] = orders[i]
    BY <1>1, <2>1, <2>2
  <2> QED BY <1>1, <1>2, <1>3, <2>1, <2>2, <2>3, <2>4
<1> QED BY <1>4, <1>5, <1>6 DEF Venue

LEMMA VenueStep ==
  ASSUME BrokerInv, NEW id \in DOMAIN orders, Venue(id) PROVE BrokerInv'
<1>1. /\ phase # "over"
      /\ UNCHANGED <<phase, pending, requested, rejections, portfolio, todo, stillPending,
                     fills, cashRead, blotter, asked, ours>>
      /\ orders' \in Seq(VenueOrder) /\ DOMAIN orders' = DOMAIN orders
      /\ account' \in Purse /\ (moved' = moved \/ moved' = TRUE)
      /\ \A i \in DOMAIN orders :
              /\ orders'[i].symbol = orders[i].symbol /\ orders'[i].side = orders[i].side
              /\ Sound(orders'[i])
              /\ orders[i].status # "working" =>
                   /\ orders'[i].status = orders[i].status
                   /\ orders'[i].filled = orders[i].filled /\ orders'[i].paid = orders[i].paid
  BY VenueShape
<1>2. Typed' BY <1>1 DEF BrokerInv, Typed
<1>3. OrdersSound' BY <1>1 DEF OrdersSound, Ids
<1>4. Lists' BY <1>1 DEF BrokerInv, Lists, UnderWay, Ids
<1>5. \A i \in Range(ours) : i \in DOMAIN orders BY DEF BrokerInv, Lists, Ids
<1>6. \A i \in DOMAIN orders : IsLive(i)' => IsLive(i) BY <1>1 DEF IsLive
<1>7. LiveIsKnown' BY <1>1, <1>5, <1>6 DEF BrokerInv, LiveIsKnown
<1>8. OneLiveOrder' BY <1>1, <1>5, <1>6 DEF BrokerInv, OneLiveOrder
<1>9. Noted'
  <2>1. Noted BY DEF BrokerInv
  <2>2. Collected' = Collected /\ UnderWay' = UnderWay BY <1>1 DEF Collected, UnderWay
  <2>3. \A i \in DOMAIN fills : fills[i].id \in Collected BY DEF Collected
  <2>4. ASSUME NEW i \in DOMAIN fills PROVE fills'[i] = FillOf(fills[i].id)'
    <3> DEFINE k == fills[i].id
    <3>1. k \in DOMAIN orders /\ ~IsLive(k) /\ fills[i] = FillOf(k) BY <1>5, <2>1, <2>3 DEF Noted
    <3> HIDE DEF k
    <3>2. /\ orders'[k].symbol = orders[k].symbol /\ orders'[k].side = orders[k].side
          /\ orders'[k].filled = orders[k].filled /\ orders'[k].paid = orders[k].paid
      BY <1>1, <3>1 DEF IsLive
    <3>3. fills'[i] = fills[i] BY <1>1
    <3>4. [id |-> k, symbol |-> orders'[k].symbol, side |-> orders'[k].side,
           qty |-> orders'[k].filled, paid |-> orders'[k].paid] = FillOf(k)
      BY <3>2 DEF FillOf
    <3>5. fills'[i] = [id |-> k, symbol |-> orders'[k].symbol, side |-> orders'[k].side,
                       qty |-> orders'[k].filled, paid |-> orders'[k].paid]
      BY <3>1, <3>3, <3>4
    <3> QED BY <1>1, <3>5 DEF FillOf, k
  <2>5. \A k \in Collected : ~IsLive(k)'
    BY <1>5, <1>6, <2>1 DEF Noted
  <2>6. Range(pending) \subseteq Range(ours) BY DEF BrokerInv, Lists
  <2>7. phase = "poll" =>
          \A k \in Range(pending) \ UnderWay :
            k \in Collected \/ (orders'[k].status = "ended" /\ orders'[k].filled = 0)
    BY <1>1, <1>5, <2>1, <2>6 DEF Noted
  <2>8. (\A i \in DOMAIN fills : fills[i] = FillOf(fills[i].id))' BY <1>1, <2>4
  <2> QED BY <1>1, <2>1, <2>2, <2>5, <2>7, <2>8 DEF Noted
<1> QED BY <1>2, <1>3, <1>4, <1>7, <1>8, <1>9 DEF BrokerInv

-----------------------------------------------------------------------------
(* The broker's steps *)

(* on_bar starts with everything pending on its list.                        *)
LEMMA StartBarStep == ASSUME BrokerInv, StartBar PROVE BrokerInv'
<1>1. /\ phase \in {"boot", "submit"} /\ phase' = "poll" /\ todo' = pending /\ moved' = FALSE
      /\ UNCHANGED <<orders, account, portfolio, ours, pending, requested, rejections,
                     stillPending, fills, cashRead, blotter, asked>>
  BY DEF StartBar, venueVars, brokerVars
<1>2. stillPending = <<>> /\ fills = <<>> BY <1>1 DEF BrokerInv, Lists
<1>3. Range(stillPending) = {} /\ Collected = {} /\ IsInjective(stillPending)
  BY <1>2, EmptyList DEF Collected
<1>4. UnderWay' = Range(pending) /\ UnderWay = Range(pending) BY <1>1, <1>3 DEF UnderWay
<1>5. Typed' BY <1>1 DEF BrokerInv, Typed
<1>6. OrdersSound' BY <1>1 DEF BrokerInv, OrdersSound, Ids
<1>7. Lists'
  <2>1. DOMAIN requested = UnderWay BY <1>1 DEF BrokerInv, Lists
  <2>2. Range(todo') \cap Range(stillPending') = {} BY <1>1, <1>3
  <2> QED BY <1>1, <1>3, <1>4, <2>1, <2>2 DEF BrokerInv, Lists, Ids
<1>8. LiveIsKnown' BY <1>1 DEF BrokerInv, LiveIsKnown, IsLive
<1>9. OneLiveOrder' BY <1>1 DEF BrokerInv, OneLiveOrder, IsLive
<1>10. Noted' BY <1>1, <1>3, <1>4, <1>2, EmptyList DEF BrokerInv, Noted, Collected
<1> QED BY <1>5, <1>6, <1>7, <1>8, <1>9, <1>10 DEF BrokerInv

(* The order a poll looks at next.                                           *)
LEMMA NextPolled ==
  ASSUME BrokerInv, phase = "poll", todo # <<>>
  PROVE  /\ Head(todo) \in Nat /\ Tail(todo) \in Seq(Nat)
         /\ Range(todo) = {Head(todo)} \cup Range(Tail(todo))
         /\ IsInjective(Tail(todo)) /\ Head(todo) \notin Range(Tail(todo))
         /\ Head(todo) \notin Range(stillPending)
         /\ Head(todo) \in Range(pending) /\ Head(todo) \in DOMAIN requested
         /\ Head(todo) \in UnderWay /\ Head(todo) \in Range(ours) /\ Head(todo) \in DOMAIN orders
         /\ Head(todo) \notin Collected
         /\ UnderWay = Range(todo) \cup Range(stillPending)
<1>1. todo \in Seq(Nat) BY DEF BrokerInv, Typed
<1>2. Lists BY DEF BrokerInv
<1>3. IsInjective(todo) BY <1>2 DEF Lists
<1>4. /\ Head(todo) \in Nat /\ Tail(todo) \in Seq(Nat)
      /\ Range(todo) = {Head(todo)} \cup Range(Tail(todo))
      /\ IsInjective(Tail(todo)) /\ Head(todo) \notin Range(Tail(todo))
  BY <1>1, <1>3, HeadAndTail
<1>5. UnderWay = Range(todo) \cup Range(stillPending) BY DEF UnderWay
<1>6. Head(todo) \in Range(todo) /\ Head(todo) \in UnderWay BY <1>4, <1>5
<1>7. DOMAIN requested = UnderWay BY <1>2 DEF Lists
<1>8. Head(todo) \notin Range(stillPending) /\ Head(todo) \in Range(pending)
  BY <1>2, <1>6 DEF Lists
<1>9. Head(todo) \in Range(ours) /\ Head(todo) \in DOMAIN orders BY <1>2, <1>8 DEF Lists, Ids
<1>10. Head(todo) \notin Collected BY <1>6 DEF BrokerInv, Noted
<1> QED BY <1>4, <1>5, <1>6, <1>7, <1>8, <1>9, <1>10

(* An order polled and kept moves from one list to the other.                *)
LEMMA RetryStep == ASSUME BrokerInv, Retry PROVE BrokerInv'
<1>1. /\ phase = "poll" /\ todo # <<>>
      /\ UNCHANGED <<orders, account, portfolio, ours, pending, requested, rejections, phase,
                     fills, cashRead, blotter, asked, moved>>
      /\ stillPending' = Append(stillPending, Head(todo)) /\ todo' = Tail(todo)
  BY DEF Retry, venueVars, brokerVars
<1>2. /\ Head(todo) \in Nat /\ Tail(todo) \in Seq(Nat)
      /\ Range(todo) = {Head(todo)} \cup Range(Tail(todo))
      /\ IsInjective(Tail(todo)) /\ Head(todo) \notin Range(Tail(todo))
      /\ Head(todo) \notin Range(stillPending)
      /\ UnderWay = Range(todo) \cup Range(stillPending)
  BY <1>1, NextPolled
<1>3. stillPending \in Seq(Nat) /\ IsInjective(stillPending) BY DEF BrokerInv, Typed, Lists
<1>4. /\ stillPending' \in Seq(Nat) /\ IsInjective(stillPending')
      /\ Range(stillPending') = Range(stillPending) \cup {Head(todo)}
  BY <1>1, <1>2, <1>3, AppendRange
<1>5. Range(todo') = Range(Tail(todo)) /\ todo' \in Seq(Nat) /\ IsInjective(todo')
  BY <1>1, <1>2
<1>6. UnderWay' = UnderWay BY <1>1, <1>2, <1>4, <1>5 DEF UnderWay
<1>7. Collected' = Collected BY <1>1 DEF Collected
<1>8. Typed' BY <1>1, <1>4, <1>5 DEF BrokerInv, Typed
<1>9. OrdersSound' BY <1>1 DEF BrokerInv, OrdersSound, Ids
<1>10. Lists'
  <2>1. Lists BY DEF BrokerInv
  <2>2. Range(todo') \cap Range(stillPending') = {} BY <1>2, <1>4, <1>5, <2>1 DEF Lists
  <2>3. Range(todo') \cup Range(stillPending') \subseteq Range(pending)
    BY <1>2, <1>4, <1>5, <2>1 DEF Lists
  <2> QED BY <1>1, <1>4, <1>5, <1>6, <2>1, <2>2, <2>3 DEF Lists, Ids
<1>11. LiveIsKnown' BY <1>1 DEF BrokerInv, LiveIsKnown, IsLive
<1>12. OneLiveOrder' BY <1>1 DEF BrokerInv, OneLiveOrder, IsLive
<1>13. Noted' BY <1>1, <1>6, <1>7 DEF BrokerInv, Noted, FillOf, IsLive
<1> QED BY <1>8, <1>9, <1>10, <1>11, <1>12, <1>13 DEF BrokerInv

(* What a settled order leaves: its fill if it got anything.                 *)
LEMMA SettledOrder ==
  ASSUME BrokerInv, Settle
  PROVE  /\ ~IsLive(Head(todo))
         /\ \/ fills' = Append(fills, FillOf(Head(todo))) /\ FillOf(Head(todo)) \in Fill
            \/ fills' = fills /\ orders[Head(todo)].status = "ended" /\ orders[Head(todo)].filled = 0
<1> DEFINE id == Head(todo)
           order == orders[id]
<1>1. phase = "poll" /\ todo # <<>> /\ ~Retried(id, order) /\ fills' = fills \o Fills(id, order)
  BY DEF Settle
<1>2. id \in DOMAIN orders /\ id \in Nat BY <1>1, NextPolled
<1>3. order \in VenueOrder /\ Sound(order) BY <1>2 DEF BrokerInv, Typed, OrdersSound, Ids
<1>4. order.status \in {"filled", "ended"} /\ (order.status = "filled" => Fills(id, order) # <<>>)
  BY <1>1 DEF Retried, Terminal
<1>5. ~IsLive(id) BY <1>4 DEF IsLive
<1>6. FillOf(id) \in Fill BY <1>2, <1>3 DEF Fill, FillOf, VenueOrder
<1>7. fills \in Seq(Fill) BY DEF BrokerInv, Typed
<1>8. CASE order.priced /\ order.filled > 0
  <2>1. Fills(id, order) = <<FillOf(id)>> BY <1>8 DEF Fills, FillOf
  <2>2. fills' = Append(fills, FillOf(id))
    <3> DEFINE f == FillOf(id)
    <3>1. f \in Fill BY <1>6
    <3> HIDE DEF f
    <3>2. fills \o <<f>> = Append(fills, f) BY <1>7, <3>1
    <3> QED BY <1>1, <2>1, <3>2 DEF f
  <2> QED BY <1>5, <1>6, <2>2
<1>9. CASE ~(order.priced /\ order.filled > 0)
  <2>1. Fills(id, order) = <<>> BY <1>9 DEF Fills
  <2>2. fills' = fills BY <1>1, <1>7, <2>1
  <2>3. order.status = "ended" BY <1>4, <2>1
  <2>4. order.filled \in Nat BY <1>3 DEF VenueOrder
  <2>5. order.filled = 0 BY <1>3, <1>9, <2>3, <2>4 DEF Sound
  <2> QED BY <1>5, <2>2, <2>3, <2>5
<1> QED BY <1>8, <1>9

(* A settled order leaves the list and the guard's knowledge.                *)
LEMMA SettleShape ==
  ASSUME BrokerInv, Settle
  PROVE  /\ phase = "poll" /\ phase' = "poll"
         /\ UNCHANGED <<orders, account, portfolio, ours, pending, stillPending,
                        cashRead, blotter, asked, moved>>
         /\ todo' = Tail(todo) /\ todo # <<>>
         /\ DOMAIN requested' = DOMAIN requested \ {Head(todo)}
         /\ \A i \in DOMAIN requested' : requested'[i] = requested[i]
         /\ requested' \in [DOMAIN requested' -> Order]
         /\ UnderWay' = UnderWay \ {Head(todo)}
         /\ \/ /\ orders[Head(todo)].status = "filled" /\ rejections' = rejections
            \/ /\ orders[Head(todo)].status = "ended"
               /\ rejections' = Append(rejections, [order |-> requested[Head(todo)],
                                                    id |-> Head(todo), why |-> "ended"])
               /\ [order |-> requested[Head(todo)], id |-> Head(todo), why |-> "ended"]
                    \in Rejection
<1> DEFINE id == Head(todo)
<1>1. /\ phase = "poll" /\ phase' = "poll" /\ todo # <<>> /\ todo' = Tail(todo)
      /\ UNCHANGED <<orders, account, portfolio, ours, pending, stillPending,
                     cashRead, blotter, asked, moved>>
      /\ requested' = Forgotten(id) /\ ~Retried(id, orders[id])
      /\ rejections' = IF orders[id].status = "filled" THEN rejections
                         ELSE Append(rejections,
                                     [order |-> requested[id], id |-> id, why |-> "ended"])
  BY DEF Settle, venueVars
<1>2. /\ id \in Nat /\ id \in DOMAIN requested
      /\ Range(todo) = {id} \cup Range(Tail(todo))
      /\ id \notin Range(Tail(todo)) /\ id \notin Range(stillPending)
      /\ UnderWay = Range(todo) \cup Range(stillPending)
  BY <1>1, NextPolled
<1>3. requested \in [DOMAIN requested -> Order] BY DEF BrokerInv, Typed
<1>4. /\ DOMAIN requested' = DOMAIN requested \ {id}
      /\ \A i \in DOMAIN requested' : requested'[i] = requested[i]
      /\ requested' \in [DOMAIN requested' -> Order]
  BY <1>1, <1>3 DEF Forgotten, Restrict
<1>5. UnderWay' = UnderWay \ {id} BY <1>1, <1>2 DEF UnderWay
<1>6. orders[id].status \in {"filled", "ended"} BY <1>1 DEF Retried, Terminal
<1>7. [order |-> requested[id], id |-> id, why |-> "ended"] \in Rejection
  BY <1>2, <1>3 DEF Rejection
<1> QED BY <1>1, <1>4, <1>5, <1>6, <1>7

LEMMA SettleStep == ASSUME BrokerInv, Settle PROVE BrokerInv'
<1> DEFINE id == Head(todo)
<1>1. /\ phase = "poll" /\ phase' = "poll"
      /\ UNCHANGED <<orders, account, portfolio, ours, pending, stillPending,
                     cashRead, blotter, asked, moved>>
      /\ todo' = Tail(todo) /\ todo # <<>>
      /\ DOMAIN requested' = DOMAIN requested \ {id}
      /\ \A i \in DOMAIN requested' : requested'[i] = requested[i]
      /\ requested' \in [DOMAIN requested' -> Order]
      /\ UnderWay' = UnderWay \ {id}
  BY SettleShape
<1>2. /\ id \in Nat /\ Tail(todo) \in Seq(Nat) /\ id \in DOMAIN requested
      /\ Range(todo) = {id} \cup Range(Tail(todo))
      /\ IsInjective(Tail(todo)) /\ id \in UnderWay /\ id \in Range(ours) /\ id \notin Collected
  BY <1>1, NextPolled
<1>3. rejections' \in Seq(Rejection)
  <2>1. rejections \in Seq(Rejection) BY DEF BrokerInv, Typed
  <2> DEFINE r == [order |-> requested[id], id |-> id, why |-> "ended"]
  <2>2. rejections' = rejections \/ (rejections' = Append(rejections, r) /\ r \in Rejection)
    BY SettleShape
  <2> HIDE DEF r
  <2>3. r \in Rejection => Append(rejections, r) \in Seq(Rejection) BY <2>1
  <2> QED BY <2>1, <2>2, <2>3
<1>4. /\ ~IsLive(id)
      /\ \/ fills' = Append(fills, FillOf(id)) /\ FillOf(id) \in Fill
         \/ fills' = fills /\ orders[id].status = "ended" /\ orders[id].filled = 0
  BY SettledOrder
<1>5. Lists BY DEF BrokerInv
<1>6. /\ fills \in Seq(Fill) BY DEF BrokerInv, Typed
<1> HIDE DEF id
<1>7. /\ fills' \in Seq(Fill)
      /\ \/ /\ fills' = fills /\ Collected' = Collected
            /\ orders[id].status = "ended" /\ orders[id].filled = 0
         \/ /\ Collected' = Collected \cup {id}
            /\ DOMAIN fills' = DOMAIN fills \cup {Len(fills) + 1}
            /\ Len(fills) + 1 \notin DOMAIN fills
            /\ fills'[Len(fills) + 1] = FillOf(id)
            /\ \A i \in DOMAIN fills : fills'[i] = fills[i]
  <2>1. CASE fills' = fills /\ orders[id].status = "ended" /\ orders[id].filled = 0
    BY <1>6, <2>1 DEF Collected
  <2>2. CASE fills' = Append(fills, FillOf(id)) /\ FillOf(id) \in Fill
    <3>1. /\ fills' \in Seq(Fill) /\ DOMAIN fills' = DOMAIN fills \cup {Len(fills) + 1}
          /\ fills'[Len(fills) + 1] = FillOf(id) /\ Len(fills) + 1 \notin DOMAIN fills
          /\ \A i \in DOMAIN fills : fills'[i] = fills[i]
      BY <1>6, <2>2, AppendRange
    <3>2. FillOf(id).id = id BY DEF FillOf
    <3>3. Collected' = Collected \cup {id} BY <3>1, <3>2 DEF Collected
    <3> QED BY <3>1, <3>3
  <2> QED BY <1>4, <2>1, <2>2
<1>8. Typed' BY <1>1, <1>2, <1>3, <1>7 DEF BrokerInv, Typed
<1>9. OrdersSound' BY <1>1 DEF BrokerInv, OrdersSound, Ids
<1>10. Lists'
  <2>1. todo' \in Seq(Nat) /\ IsInjective(todo') /\ Range(todo') \subseteq Range(todo)
    BY <1>1, <1>2
  <2>2. DOMAIN requested = UnderWay BY <1>1, <1>5 DEF Lists
  <2>3. DOMAIN requested' = UnderWay' BY <1>1, <2>2
  <2>4. DOMAIN requested' \subseteq Range(pending) BY <1>1, <1>5 DEF Lists
  <2> QED BY <1>1, <1>5, <2>1, <2>3, <2>4 DEF Lists, Ids
<1>11. LiveIsKnown'
  <2>1. ASSUME NEW i \in Range(ours), IsLive(i)
        PROVE  /\ i \in DOMAIN requested' /\ requested'[i].symbol = orders[i].symbol
               /\ requested'[i].side = orders[i].side
    <3>1. i # id BY <1>4, <2>1
    <3>2. /\ i \in DOMAIN requested /\ requested[i].symbol = orders[i].symbol
          /\ requested[i].side = orders[i].side
      BY <1>1, <2>1 DEF BrokerInv, LiveIsKnown
    <3> QED BY <1>1, <3>1, <3>2
  <2> QED BY <1>1, <2>1 DEF LiveIsKnown, IsLive
<1>12. OneLiveOrder' BY <1>1 DEF BrokerInv, OneLiveOrder, IsLive
<1>13. Noted'
  <2>1. Noted BY DEF BrokerInv
  <2>2. \A i \in DOMAIN fills : fills[i].id \in Collected BY DEF Collected
  <2>3. \A k \in Range(pending) \ UnderWay' : k = id \/ k \in Range(pending) \ UnderWay BY <1>1
  <2>4. CASE fills' = fills /\ Collected' = Collected
               /\ orders[id].status = "ended" /\ orders[id].filled = 0
    BY <1>1, <2>1, <2>3, <2>4 DEF Noted, FillOf, IsLive
  <2>5. CASE /\ Collected' = Collected \cup {id}
             /\ DOMAIN fills' = DOMAIN fills \cup {Len(fills) + 1}
             /\ Len(fills) + 1 \notin DOMAIN fills
             /\ fills'[Len(fills) + 1] = FillOf(id)
             /\ \A i \in DOMAIN fills : fills'[i] = fills[i]
    <3>1. FillOf(id).id = id BY DEF FillOf
    <3>2. \A i, j \in DOMAIN fills' : fills'[i].id = fills'[j].id => i = j
      BY <1>2, <2>1, <2>2, <2>5, <3>1 DEF Noted
    <3>3. \A i \in DOMAIN fills' : fills'[i] = FillOf(fills'[i].id)
      BY <2>1, <2>5, <3>1 DEF Noted
    <3>4. (\A i \in DOMAIN fills : fills[i] = FillOf(fills[i].id))'
      BY <1>1, <3>3 DEF FillOf
    <3>5. \A k \in Collected' : k \in Range(ours) /\ ~IsLive(k)
      BY <1>2, <1>4, <2>1, <2>5 DEF Noted
    <3>6. Collected' \cap UnderWay' = {} BY <1>1, <2>1, <2>5 DEF Noted
    <3>7. \A k \in Range(pending) \ UnderWay' :
            k \in Collected' \/ (orders[k].status = "ended" /\ orders[k].filled = 0)
      BY <1>1, <2>1, <2>3, <2>5 DEF Noted
    <3> QED BY <1>1, <3>2, <3>4, <3>5, <3>6, <3>7 DEF Noted, IsLive
  <2> QED BY <1>7, <2>4, <2>5
<1> QED BY <1>8, <1>9, <1>10, <1>11, <1>12, <1>13 DEF BrokerInv

(* Once every order is polled, the kept ones are the pending ones.           *)
LEMMA ReadCashStep == ASSUME BrokerInv, ReadCash PROVE BrokerInv'
<1>1. /\ phase = "poll" /\ phase' = "positions" /\ todo = <<>> /\ pending' = stillPending
      /\ UNCHANGED <<orders, account, portfolio, ours, requested, rejections, stillPending, todo,
                     fills, blotter, asked, moved>>
      /\ cashRead' = account.cash
  BY DEF ReadCash, venueVars
<1>2. Typed' BY <1>1 DEF BrokerInv, Typed, Purse
<1>3. OrdersSound' BY <1>1 DEF BrokerInv, OrdersSound, Ids
<1>4. Range(todo) = {} BY <1>1, EmptyList
<1>5. UnderWay = Range(stillPending) /\ UnderWay' = Range(stillPending) BY <1>1, <1>4 DEF UnderWay
<1>6. Lists'
  <2>1. Lists BY DEF BrokerInv
  <2>2. DOMAIN requested = Range(stillPending) BY <1>1, <1>5, <2>1 DEF Lists
  <2> QED BY <1>1, <1>4, <1>5, <2>1, <2>2 DEF Lists, Ids
<1>7. LiveIsKnown' BY <1>1 DEF BrokerInv, LiveIsKnown, IsLive
<1>8. OneLiveOrder' BY <1>1 DEF BrokerInv, OneLiveOrder, IsLive
<1>9. Collected' = Collected BY <1>1 DEF Collected
<1>10. Noted' BY <1>1, <1>5, <1>9 DEF BrokerInv, Noted, FillOf, IsLive
<1> QED BY <1>2, <1>3, <1>6, <1>7, <1>8, <1>10 DEF BrokerInv

LEMMA ReadPositionsStep == ASSUME BrokerInv, ReadPositions PROVE BrokerInv'
<1>1. /\ phase = "positions" /\ phase' = "submit"
      /\ UNCHANGED <<orders, account, ours, pending, requested, rejections, todo, asked, moved>>
      /\ stillPending' = <<>> /\ fills' = <<>> /\ blotter' = blotter \o fills
      /\ portfolio' = [cash |-> cashRead, qty |-> account.qty]
  BY DEF ReadPositions, venueVars
<1>2. Lists BY DEF BrokerInv
<1>3. todo = <<>> BY <1>1, <1>2 DEF Lists
<1>4. Typed'
  <2>1. portfolio' \in Purse BY <1>1 DEF BrokerInv, Typed, Purse
  <2>2. blotter' \in Seq(Fill) /\ fills' \in Seq(Fill) /\ stillPending' \in Seq(Nat)
    BY <1>1 DEF BrokerInv, Typed
  <2> QED BY <1>1, <2>1, <2>2 DEF BrokerInv, Typed
<1>5. OrdersSound' BY <1>1 DEF BrokerInv, OrdersSound, Ids
<1>6. UnderWay = Range(pending) /\ UnderWay' = Range(pending) BY <1>1 DEF UnderWay
<1>7. Range(stillPending') = {} /\ IsInjective(stillPending') /\ Collected' = {}
  BY <1>1, EmptyList DEF Collected
<1>8. Range(todo) = {} BY <1>3, EmptyList
<1>9. Lists' BY <1>1, <1>2, <1>3, <1>6, <1>7, <1>8 DEF Lists, Ids
<1>10. LiveIsKnown' BY <1>1 DEF BrokerInv, LiveIsKnown, IsLive
<1>11. OneLiveOrder' BY <1>1 DEF BrokerInv, OneLiveOrder, IsLive
<1>12. Noted' BY <1>1, <1>7, EmptyList DEF Noted
<1> QED BY <1>4, <1>5, <1>9, <1>10, <1>11, <1>12 DEF BrokerInv

LEMMA BarFailsStep == ASSUME BrokerInv, BarFails PROVE BrokerInv'
<1>1. /\ phase' = "over"
      /\ UNCHANGED <<orders, account, portfolio, ours, pending, requested, rejections, todo,
                     stillPending, fills, blotter, asked, moved>>
  BY DEF BarFails, venueVars, brokerVars, barVars
<1>2. Typed' BY <1>1 DEF BrokerInv, Typed
<1>3. OrdersSound' BY <1>1 DEF BrokerInv, OrdersSound, Ids
<1>4. Lists' BY <1>1 DEF BrokerInv, Lists, Ids
<1>5. LiveIsKnown' BY <1>1 DEF LiveIsKnown
<1>6. OneLiveOrder' BY <1>1 DEF BrokerInv, OneLiveOrder, IsLive
<1>7. Noted' BY <1>1 DEF BrokerInv, Noted, Collected, FillOf, IsLive
<1> QED BY <1>2, <1>3, <1>4, <1>5, <1>6, <1>7 DEF BrokerInv

-----------------------------------------------------------------------------
(* submit *)

(* The rounding trim changes neither symbol nor side, and never raises.      *)
LEMMA TrimShape ==
  ASSUME BrokerInv, NEW ask \in Asks
  PROVE  /\ Trim(ask) \in Order
         /\ Trim(ask).symbol = ask.symbol /\ Trim(ask).side = ask.side
         /\ Trim(ask).qty \in 1..ask.qty /\ ask.qty \in Nat
<1>1. ask \in Order /\ portfolio.qty[ask.symbol] \in Int
  BY BrokerAssumption DEF BrokerInv, Typed, Purse, Order
<1> DEFINE held == portfolio.qty[ask.symbol]
<1>2. CASE Trim(ask) = ask BY <1>1, <1>2 DEF Order
<1>3. CASE /\ held > 0 /\ ask.qty - held \in 1..HalfUnit
           /\ Trim(ask) = [ask EXCEPT !.qty = held]
  <2>1. held \in Nat \ {0} /\ held \in 1..ask.qty BY <1>1, <1>3 DEF HalfUnit, Order
  <2> HIDE DEF held
  <2> QED BY <1>1, <1>3, <2>1 DEF Order
<1> QED BY <1>2, <1>3 DEF Trim

(* What the venue holds once it has accepted an order.                       *)
LEMMA PlacedOrder ==
  ASSUME BrokerInv, NEW ask \in Asks, orders' = Append(orders, Placed(Trim(ask)))
  PROVE  /\ orders' \in Seq(VenueOrder) /\ DOMAIN orders' = DOMAIN orders \cup {Len(orders) + 1}
         /\ Len(orders) + 1 \in Nat /\ Len(orders) + 1 \notin DOMAIN orders
         /\ \A id \in DOMAIN orders : orders'[id] = orders[id]
         /\ orders'[Len(orders) + 1] = Placed(Trim(ask))
         /\ Sound(Placed(Trim(ask))) /\ Placed(Trim(ask)) \in VenueOrder
<1>1. orders \in Seq(VenueOrder) BY DEF BrokerInv, Typed
<1>2. Placed(Trim(ask)) \in VenueOrder
  BY TrimShape DEF Placed, VenueOrder, Order
<1>3. Sound(Placed(Trim(ask)))
  <2>1. Trim(ask).qty \in Nat \ {0} BY TrimShape DEF Order
  <2> QED BY <2>1 DEF Placed, Sound
<1>4. Len(orders) + 1 \in Nat BY <1>1
<1> QED BY <1>1, <1>2, <1>3, <1>4, AppendRange

(* A new order at the venue disturbs nothing the session knows.              *)
LEMMA NewOrder ==
  ASSUME BrokerInv, NEW ask \in Asks, orders' = Append(orders, Placed(Trim(ask)))
  PROVE  /\ OrdersSound'
         /\ \A i \in Range(ours) : i # Len(orders) + 1 /\ i \in DOMAIN orders /\ IsLive(i)' = IsLive(i)
<1>1. /\ DOMAIN orders' = DOMAIN orders \cup {Len(orders) + 1}
      /\ Len(orders) + 1 \in Nat /\ Len(orders) + 1 \notin DOMAIN orders
      /\ \A id \in DOMAIN orders : orders'[id] = orders[id]
      /\ orders'[Len(orders) + 1] = Placed(Trim(ask))
      /\ Sound(Placed(Trim(ask)))
  BY PlacedOrder
<1>2. OrdersSound'
  <2>1. ASSUME NEW i \in DOMAIN orders' PROVE Sound(orders'[i])
    BY <1>1, <2>1 DEF BrokerInv, OrdersSound, Ids
  <2> QED BY <2>1 DEF OrdersSound, Ids
<1>3. Range(ours) \subseteq DOMAIN orders BY DEF BrokerInv, Lists, Ids
<1> QED BY <1>1, <1>2, <1>3 DEF IsLive

(* An order is placed only where the guard finds none of its kind pending,   *)
(* and every live one is pending and known.                                  *)
LEMMA PlaceStep ==
  ASSUME BrokerInv, NEW ask \in Asks, Asking(ask), Working(Trim(ask)) = {}, Place(Trim(ask)),
         UNCHANGED phase
  PROVE  BrokerInv'
<1> DEFINE id == Len(orders) + 1
           order == Trim(ask)
<1>1. /\ phase = "submit" /\ phase' = "submit" /\ asked < MaxAsks /\ asked' = asked + 1
      /\ UNCHANGED <<account, portfolio, cashRead, todo, stillPending, fills, blotter, moved,
                     rejections>>
  BY DEF Asking, Place, barVars
<1>2. /\ orders' = Append(orders, Placed(order)) /\ pending' = Append(pending, id)
      /\ requested' = [i \in DOMAIN requested \cup {id} |->
                         IF i = id THEN order ELSE requested[i]]
      /\ ours' = Append(ours, id)
  BY DEF Place
<1>3. /\ orders' \in Seq(VenueOrder) /\ DOMAIN orders' = DOMAIN orders \cup {id}
      /\ id \in Nat /\ id \notin DOMAIN orders
      /\ \A i \in DOMAIN orders : orders'[i] = orders[i]
      /\ orders'[id] = Placed(order)
  BY <1>2, PlacedOrder
<1>4. order \in Order BY TrimShape
<1>5. /\ orders'[id].symbol = order.symbol /\ orders'[id].side = order.side
  BY <1>3 DEF Placed
<1>6. /\ OrdersSound'
      /\ \A i \in Range(ours) : i # id /\ i \in DOMAIN orders /\ IsLive(i)' = IsLive(i)
  BY <1>2, NewOrder
<1> HIDE DEF id, order
<1>7. Lists BY DEF BrokerInv
<1>8. UnderWay = Range(pending) /\ DOMAIN requested = Range(pending)
  BY <1>1, <1>7 DEF UnderWay, Lists
<1>9. pending \in Seq(Nat) /\ ours \in Seq(Nat) /\ id \notin Range(pending) /\ IsInjective(pending)
  BY <1>6, <1>7 DEF BrokerInv, Typed, Lists
<1>10. /\ pending' \in Seq(Nat) /\ Range(pending') = Range(pending) \cup {id}
       /\ IsInjective(pending') /\ ours' \in Seq(Nat) /\ Range(ours') = Range(ours) \cup {id}
  BY <1>2, <1>3, <1>9, AppendRange
<1>11. /\ requested' \in [DOMAIN requested' -> Order]
       /\ DOMAIN requested' = DOMAIN requested \cup {id}
       /\ requested'[id] = order
       /\ \A i \in DOMAIN requested : i # id => requested'[i] = requested[i]
  BY <1>2, <1>4 DEF BrokerInv, Typed
<1>12. UnderWay' = UnderWay \cup {id} BY <1>1, <1>8, <1>10 DEF UnderWay
<1>13. asked' \in 0..MaxAsks BY <1>1, BrokerAssumption DEF BrokerInv, Typed
<1>14. Typed' BY <1>1, <1>3, <1>10, <1>11, <1>13 DEF BrokerInv, Typed
<1>15. Lists' BY <1>1, <1>3, <1>7, <1>8, <1>10, <1>11, <1>12 DEF Lists, Ids
<1>16. ASSUME NEW i \in Range(ours), IsLive(i)
       PROVE  /\ i \in DOMAIN requested /\ i # id
              /\ requested[i].symbol = orders[i].symbol /\ requested[i].side = orders[i].side
              /\ ~(orders[i].symbol = order.symbol /\ orders[i].side = order.side)
  <2>1. /\ i \in DOMAIN requested
        /\ requested[i].symbol = orders[i].symbol /\ requested[i].side = orders[i].side
    BY <1>1, <1>16 DEF BrokerInv, LiveIsKnown
  <2>2. i \in Range(pending) /\ i # id BY <1>6, <1>8, <1>16, <2>1
  <2> QED BY <2>1, <2>2 DEF Working, order
<1>17. LiveIsKnown'
  <2>1. ASSUME NEW i \in Range(ours'), IsLive(i)'
        PROVE  /\ i \in DOMAIN requested' /\ requested'[i].symbol = orders'[i].symbol
               /\ requested'[i].side = orders'[i].side
    <3>1. CASE i = id BY <1>5, <1>11, <3>1
    <3>2. CASE i # id
      <4>1. i \in Range(ours) /\ i \in DOMAIN orders /\ IsLive(i) BY <1>6, <1>10, <2>1, <3>2
      <4> QED BY <1>3, <1>11, <1>16, <4>1
    <3> QED BY <3>1, <3>2
  <2> QED BY <2>1 DEF LiveIsKnown, IsLive
<1>18. OneLiveOrder'
  <2>1. ASSUME NEW i \in Range(ours'), NEW j \in Range(ours'), IsLive(i)', IsLive(j)',
               orders'[i].symbol = orders'[j].symbol, orders'[i].side = orders'[j].side
        PROVE  i = j
    <3>1. \A k \in Range(ours') : k = id \/ (k \in Range(ours) /\ k \in DOMAIN orders
                                              /\ (IsLive(k)' => IsLive(k)))
      BY <1>6, <1>10
    <3>2. CASE i = id \/ j = id BY <1>3, <1>5, <1>16, <2>1, <3>1, <3>2
    <3>3. CASE i # id /\ j # id
      <4>1. /\ i \in Range(ours) /\ j \in Range(ours) /\ IsLive(i) /\ IsLive(j)
            /\ orders'[i] = orders[i] /\ orders'[j] = orders[j]
        BY <1>3, <2>1, <3>1, <3>3
      <4> QED BY <2>1, <4>1 DEF BrokerInv, OneLiveOrder
    <3> QED BY <3>2, <3>3
  <2> QED BY <2>1 DEF OneLiveOrder, IsLive
<1>19. Noted'
  <2>1. fills = <<>> BY <1>1, <1>7 DEF Lists
  <2>2. Collected' = {} /\ DOMAIN fills' = {} BY <1>1, <2>1, EmptyList DEF Collected
  <2> QED BY <1>1, <2>2 DEF Noted
<1> QED BY <1>6, <1>14, <1>15, <1>17, <1>18, <1>19 DEF BrokerInv

LEMMA RefuseStep ==
  ASSUME BrokerInv, NEW ask \in Asks, NEW why \in {"duplicate", "oversell", "venue"},
         Asking(ask), Refuse(Trim(ask), why), UNCHANGED phase
  PROVE  BrokerInv'
<1>1. /\ asked < MaxAsks /\ asked' = asked + 1
      /\ UNCHANGED <<orders, account, phase, pending, requested, portfolio, todo, stillPending,
                     fills, cashRead, blotter, ours, moved>>
      /\ rejections' = Append(rejections, [order |-> Trim(ask), id |-> None, why |-> why])
  BY DEF Refuse, Asking, venueVars, barVars
<1>2. asked' \in 0..MaxAsks BY <1>1, BrokerAssumption DEF BrokerInv, Typed
<1>3. rejections' \in Seq(Rejection)
  <2> DEFINE r == [order |-> Trim(ask), id |-> None, why |-> why]
  <2>1. r \in Rejection BY TrimShape DEF Rejection
  <2> HIDE DEF r
  <2>2. rejections \in Seq(Rejection) BY DEF BrokerInv, Typed
  <2> QED BY <1>1, <2>1, <2>2 DEF r
<1>4. Typed' BY <1>1, <1>2, <1>3 DEF BrokerInv, Typed
<1>5. OrdersSound' BY <1>1 DEF BrokerInv, OrdersSound, Ids
<1>6. Lists' BY <1>1 DEF BrokerInv, Lists, UnderWay, Ids
<1>7. LiveIsKnown' BY <1>1 DEF BrokerInv, LiveIsKnown, IsLive
<1>8. OneLiveOrder' BY <1>1 DEF BrokerInv, OneLiveOrder, IsLive
<1>9. Noted' BY <1>1 DEF BrokerInv, Noted, Collected, FillOf, IsLive, UnderWay
<1> QED BY <1>4, <1>5, <1>6, <1>7, <1>8, <1>9 DEF BrokerInv

(* submit refuses the order or places it.                                    *)
LEMMA SubmitShape ==
  ASSUME NEW ask \in Asks, Submit(ask)
  PROVE  /\ Asking(ask) /\ UNCHANGED phase
         /\ \/ \E why \in {"duplicate", "oversell", "venue"} : Refuse(Trim(ask), why)
            \/ Working(Trim(ask)) = {} /\ ~Oversells(Trim(ask)) /\ Place(Trim(ask))
BY DEF Submit

LEMMA SubmitStep == ASSUME BrokerInv, NEW ask \in Asks, Submit(ask) PROVE BrokerInv'
BY SubmitShape, PlaceStep, RefuseStep

(* An order that may have got there is none of those the session was told of. *)
LEMMA SubmitFailsStep ==
  ASSUME BrokerInv, NEW ask \in Asks, SubmitFails(ask) PROVE BrokerInv'
<1>1. /\ phase' = "over" /\ asked < MaxAsks /\ asked' = asked + 1
      /\ UNCHANGED <<account, portfolio, pending, requested, rejections, todo, stillPending, ours,
                     fills, blotter, moved>>
      /\ orders' = orders \/ orders' = Append(orders, Placed(Trim(ask)))
  BY DEF SubmitFails, Asking, barVars
<1>2. phase = "submit" BY DEF SubmitFails, Asking
<1>3. /\ orders' \in Seq(VenueOrder) /\ DOMAIN orders \subseteq DOMAIN orders'
      /\ \A i \in DOMAIN orders : orders'[i] = orders[i]
      /\ OrdersSound' /\ \A i \in Range(ours) : i \in DOMAIN orders /\ IsLive(i)' = IsLive(i)
  <2>1. CASE orders' = orders
    BY <2>1 DEF BrokerInv, Typed, OrdersSound, Lists, Ids, IsLive
  <2>2. CASE orders' = Append(orders, Placed(Trim(ask))) BY <2>2, PlacedOrder, NewOrder
  <2> QED BY <1>1, <2>1, <2>2
<1>4. asked' \in 0..MaxAsks BY <1>1, BrokerAssumption DEF BrokerInv, Typed
<1>5. Typed' BY <1>1, <1>3, <1>4 DEF BrokerInv, Typed
<1>6. Lists' BY <1>1, <1>3 DEF BrokerInv, Lists, Ids
<1>7. LiveIsKnown' BY <1>1 DEF LiveIsKnown
<1>8. OneLiveOrder' BY <1>1, <1>3 DEF BrokerInv, OneLiveOrder
<1>9. Noted'
  <2>1. fills = <<>> BY <1>2 DEF BrokerInv, Lists
  <2>2. Collected' = {} /\ DOMAIN fills' = {} BY <1>1, <2>1, EmptyList DEF Collected
  <2> QED BY <1>1, <2>2 DEF Noted
<1> QED BY <1>3, <1>5, <1>6, <1>7, <1>8, <1>9 DEF BrokerInv

LEMMA BrokerStutter == ASSUME BrokerInv, UNCHANGED vars PROVE BrokerInv'
<1>1. UNCHANGED <<orders, account, phase, pending, requested, rejections, portfolio, todo,
                  stillPending, fills, cashRead, blotter, asked, ours, moved>>
  BY DEF vars, venueVars, brokerVars, barVars
<1>2. Typed' BY <1>1 DEF BrokerInv, Typed
<1>3. OrdersSound' BY <1>1 DEF BrokerInv, OrdersSound, Ids
<1>4. Lists' BY <1>1 DEF BrokerInv, Lists, UnderWay, Ids
<1>5. LiveIsKnown' BY <1>1 DEF BrokerInv, LiveIsKnown, IsLive
<1>6. OneLiveOrder' BY <1>1 DEF BrokerInv, OneLiveOrder, IsLive
<1>7. Noted' BY <1>1 DEF BrokerInv, Noted, Collected, FillOf, IsLive, UnderWay
<1> QED BY <1>2, <1>3, <1>4, <1>5, <1>6, <1>7 DEF BrokerInv

LEMMA BrokerStep == BrokerInv /\ [Next]_vars => BrokerInv'
BY BrokerStutter, VenueStep, StartBarStep, RetryStep, SettleStep, ReadCashStep, ReadPositionsStep,
   BarFailsStep, SubmitStep, SubmitFailsStep DEF Next, OnBar

LEMMA BrokerAlways == Spec => []BrokerInv
BY BrokerInit, BrokerStep, PTL DEF Spec

-----------------------------------------------------------------------------
(* What the working SELLs have promised *)

(* What an order has promised of a symbol, the others being promised nothing. *)
Pledge(book, s) ==
  [id \in DOMAIN book |-> IF id \in WorkingSells(book, s) THEN Remaining(book[id]) ELSE 0]

LEMMA BookShape ==
  ASSUME NEW book \in Seq(VenueOrder), NEW s
  PROVE  /\ DOMAIN book = 1..Len(book) /\ Len(book) \in Nat /\ IsFiniteSet(DOMAIN book)
         /\ WorkingSells(book, s) \subseteq DOMAIN book
         /\ \A id \in DOMAIN book : book[id] \in VenueOrder /\ Remaining(book[id]) \in Int
         /\ \A id \in DOMAIN book : Pledge(book, s)[id] \in Int
<1>1. DOMAIN book = 1..Len(book) /\ Len(book) \in Nat OBVIOUS
<1>2. IsFiniteSet(1..Len(book)) BY <1>1, FS_Interval
<1>3. \A id \in DOMAIN book : book[id] \in VenueOrder /\ Remaining(book[id]) \in Int
  <2>1. \A id \in DOMAIN book : book[id] \in VenueOrder OBVIOUS
  <2>2. \A o \in VenueOrder : Remaining(o) \in Int BY DEF VenueOrder, Remaining
  <2> QED BY <2>1, <2>2
<1>4. \A id \in DOMAIN book : Pledge(book, s)[id] \in Int BY <1>3 DEF Pledge
<1>5. WorkingSells(book, s) \subseteq DOMAIN book BY DEF WorkingSells
<1> QED BY <1>1, <1>2, <1>3, <1>4, <1>5

LEMMA PromisedIs ==
  ASSUME NEW book \in Seq(VenueOrder), NEW s
  PROVE  Promised(book, s) = SumFunctionOnSet(Pledge(book, s), DOMAIN book)
<1> DEFINE D == DOMAIN book
           W == WorkingSells(book, s)
           f == Pledge(book, s)
           g == [id \in DOMAIN book |-> Remaining(book[id])]
<1>1. IsFiniteSet(D) /\ W \in SUBSET D /\ \A id \in D : f[id] \in Int BY BookShape
<1>2. \A id \in W : g[id] = f[id] BY <1>1 DEF Pledge
<1>3. \A id \in D \ W : f[id] = 0 BY DEF Pledge
<1>4. Promised(book, s) = SumFunctionOnSet(g, W) BY DEF Promised
<1> HIDE DEF D, W, f, g
<1>5. SumFunctionOnSet(g, W) = SumFunctionOnSet(f, D) BY <1>1, <1>2, <1>3, SumSupport
<1> QED BY <1>4, <1>5 DEF f, D

LEMMA PromisedType ==
  ASSUME NEW book \in Seq(VenueOrder), \A id \in DOMAIN book : Sound(book[id]), NEW s
  PROVE  Promised(book, s) \in Nat
<1> DEFINE D == DOMAIN book
           f == Pledge(book, s)
<1>1. IsFiniteSet(D) BY BookShape
<1>2. ASSUME NEW id \in D PROVE f[id] \in Nat
  <2>1. book[id] \in VenueOrder BY BookShape
  <2>2. book[id].filled \in Nat /\ book[id].qty \in Nat /\ book[id].filled <= book[id].qty
    BY <2>1 DEF VenueOrder, Sound
  <2>3. Remaining(book[id]) \in Nat BY <2>2 DEF Remaining
  <2> QED BY <2>3 DEF Pledge
<1>3. Promised(book, s) = SumFunctionOnSet(f, D) BY PromisedIs
<1> HIDE DEF D, f
<1> QED BY <1>1, <1>2, <1>3, SumNat

(* One order of the book changes.                                            *)
LEMMA PromisedUpdate ==
  ASSUME NEW book \in Seq(VenueOrder), NEW then \in Seq(VenueOrder), DOMAIN then = DOMAIN book,
         NEW id \in DOMAIN book, \A i \in DOMAIN book : i # id => then[i] = book[i], NEW s
  PROVE  Promised(then, s) = Promised(book, s) - Pledge(book, s)[id] + Pledge(then, s)[id]
<1> DEFINE D == DOMAIN book
           f == Pledge(book, s)
           g == Pledge(then, s)
<1>1. IsFiniteSet(D) /\ \A i \in D : f[i] \in Int BY BookShape
<1>2. g[id] \in Int BY BookShape
<1>3. ASSUME NEW i \in D \ {id} PROVE g[i] = f[i]
  <2>1. then[i] = book[i] OBVIOUS
  <2>2. i \in WorkingSells(then, s) <=> i \in WorkingSells(book, s) BY <2>1 DEF WorkingSells
  <2> QED BY <2>1, <2>2 DEF Pledge
<1>4. Promised(book, s) = SumFunctionOnSet(f, D) BY PromisedIs
<1>5. Promised(then, s) = SumFunctionOnSet(g, D) BY PromisedIs
<1>6. id \in D OBVIOUS
<1> HIDE DEF D, f, g
<1>7. SumFunctionOnSet(g, D) = SumFunctionOnSet(f, D) - f[id] + g[id]
  BY <1>1, <1>2, <1>3, <1>6, SumChange
<1> QED BY <1>4, <1>5, <1>7 DEF f, g

(* An order joins the book.                                                  *)
LEMMA PromisedAppend ==
  ASSUME NEW book \in Seq(VenueOrder), NEW o \in VenueOrder, o.status = "working", NEW s
  PROVE  Promised(Append(book, o), s)
           = Promised(book, s) + (IF o.side = "SELL" /\ o.symbol = s THEN Remaining(o) ELSE 0)
<1> DEFINE then == Append(book, o)
           id == Len(book) + 1
           D == DOMAIN book
           f == Pledge(book, s)
           g == Pledge(then, s)
<1>1. /\ then \in Seq(VenueOrder) /\ DOMAIN then = D \cup {id} /\ id \notin D
      /\ then[id] = o /\ \A i \in D : then[i] = book[i]
  BY AppendRange
<1>2. IsFiniteSet(D) /\ \A i \in D : f[i] \in Int BY BookShape
<1>3. Promised(book, s) = SumFunctionOnSet(f, D) BY PromisedIs
<1> HIDE DEF then, id
<1>4. \A i \in DOMAIN then : g[i] \in Int BY <1>1, BookShape
<1>5. Promised(then, s) = SumFunctionOnSet(g, D \cup {id}) BY <1>1, PromisedIs
<1>6. ASSUME NEW i \in D PROVE g[i] = f[i]
  <2>1. then[i] = book[i] /\ i \in DOMAIN then /\ i \in DOMAIN book BY <1>1
  <2>2. i \in WorkingSells(then, s) <=> i \in WorkingSells(book, s) BY <2>1 DEF WorkingSells
  <2> QED BY <2>1, <2>2 DEF Pledge
<1>7. g[id] = IF o.side = "SELL" /\ o.symbol = s THEN Remaining(o) ELSE 0
  BY <1>1 DEF Pledge, WorkingSells
<1>8. \A i \in D \cup {id} : g[i] \in Int BY <1>1, <1>4
<1> HIDE DEF D, f, g
<1>9. SumFunctionOnSet(g, D) = SumFunctionOnSet(f, D) BY <1>2, <1>6, SumSame
<1>10. SumFunctionOnSet(g, D \cup {id}) = SumFunctionOnSet(g, D) + g[id]
  BY <1>1, <1>2, <1>8, SumAdd
<1> QED BY <1>3, <1>5, <1>7, <1>9, <1>10 DEF then

-----------------------------------------------------------------------------
(* What is held, and what the portfolio says *)

(* No symbol is promised beyond what is held of it, which is why nothing     *)
(* the account holds, or the broker believes it holds, is ever short.        *)
Covered ==
  \A s \in Symbols : Promised(orders, s) <= account.qty[s] /\ portfolio.qty[s] >= 0

LEMMA CoveredTypes ==
  ASSUME BrokerInv, NEW s \in Symbols
  PROVE  /\ Promised(orders, s) \in Nat
         /\ account.qty[s] \in Int /\ portfolio.qty[s] \in Int
<1>1. orders \in Seq(VenueOrder) /\ \A id \in DOMAIN orders : Sound(orders[id])
  BY DEF BrokerInv, Typed, OrdersSound, Ids
<1> QED BY <1>1, PromisedType DEF BrokerInv, Typed, Purse

LEMMA CoveredInit == Init => Covered
<1> SUFFICES ASSUME Init, NEW s \in Symbols
             PROVE  Promised(orders, s) <= account.qty[s] /\ portfolio.qty[s] >= 0
  BY DEF Covered
<1>1. orders \in Inherited /\ account.qty = Holdings /\ portfolio.qty = Holdings BY DEF Init
<1>2. Holdings[s] \in Nat /\ Promised(orders, s) <= Holdings[s] BY <1>1, BrokerAssumption
<1> QED BY <1>1, <1>2

(* What a venue's step takes from the holding it takes from the promise.     *)
LEMMA CoveredVenue ==
  ASSUME BrokerInv, Covered, NEW id \in DOMAIN orders, Venue(id) PROVE Covered'
<1> SUFFICES ASSUME NEW s \in Symbols
             PROVE  Promised(orders', s) <= account'.qty[s] /\ portfolio'.qty[s] >= 0
  BY DEF Covered
<1>1. portfolio' = portfolio /\ BrokerInv' BY VenueShape, VenueStep
<1>2. orders \in Seq(VenueOrder) /\ orders' \in Seq(VenueOrder) /\ DOMAIN orders' = DOMAIN orders
  BY VenueShape DEF BrokerInv, Typed
<1>3. /\ Promised(orders, s) \in Nat /\ account.qty[s] \in Int
      /\ Promised(orders, s) <= account.qty[s] /\ portfolio.qty[s] >= 0
  BY CoveredTypes DEF Covered
<1>4. Sound(orders[id]) /\ orders[id] \in VenueOrder BY <1>2 DEF BrokerInv, OrdersSound, Ids
<1> DEFINE was == Pledge(orders, s)[id]
           now == Pledge(orders', s)[id]
<1>5. was \in Int /\ now \in Int BY <1>2, BookShape
<1>6. was = IF orders[id].symbol = s /\ orders[id].side = "SELL" /\ orders[id].status = "working"
              THEN Remaining(orders[id]) ELSE 0
  BY DEF Pledge, WorkingSells
<1>7. now = IF orders'[id].symbol = s /\ orders'[id].side = "SELL" /\ orders'[id].status = "working"
              THEN Remaining(orders'[id]) ELSE 0
  BY <1>2 DEF Pledge, WorkingSells
<1>8. (\A i \in DOMAIN orders : i # id => orders'[i] = orders[i])
        => Promised(orders', s) = Promised(orders, s) - was + now
  BY <1>2, PromisedUpdate
<1>9. Remaining(orders[id]) \in Nat
  BY <1>4 DEF VenueOrder, Sound, Remaining
<1>10. CASE Execute(id)
  <2>1. PICK n \in Nat \ {0}, cost \in Nat :
           /\ n <= Remaining(orders[id]) /\ orders[id].status = "working"
           /\ \A i \in DOMAIN orders : i # id => orders'[i] = orders[i]
           /\ orders'[id].symbol = orders[id].symbol /\ orders'[id].side = orders[id].side
           /\ orders'[id].qty = orders[id].qty
           /\ orders'[id].filled = orders[id].filled + n
           /\ orders'[id].status = IF n = Remaining(orders[id]) THEN "filled" ELSE "working"
           /\ account'.qty[s] = account.qty[s] + Bought(orders[id], s, n)
    BY <1>10, ExecuteShape
  <2>2. Promised(orders', s) = Promised(orders, s) - was + now BY <1>8, <2>1
  <2>3. orders[id].qty \in Nat /\ orders[id].filled \in Nat BY <1>4 DEF VenueOrder
  <2>4. Remaining(orders'[id]) = Remaining(orders[id]) - n BY <2>1, <2>3 DEF Remaining
  <2> HIDE DEF was, now
  <2>5. CASE orders[id].symbol = s /\ orders[id].side = "SELL"
    <3>1. account'.qty[s] = account.qty[s] - n
      BY <1>3, <2>1, <2>5 DEF Bought, Signed
    <3>2. was = Remaining(orders[id]) /\ now = Remaining(orders[id]) - n
      BY <1>6, <1>7, <1>9, <2>1, <2>4, <2>5
    <3> QED BY <1>1, <1>3, <1>9, <2>2, <3>1, <3>2
  <2>6. CASE ~(orders[id].symbol = s /\ orders[id].side = "SELL")
    <3>1. was = 0 /\ now = 0 BY <1>6, <1>7, <2>1, <2>6
    <3>2. orders[id].side \in {"BUY", "SELL"} BY <1>4 DEF VenueOrder
    <3>3. Bought(orders[id], s, n) \in Nat BY <2>6, <3>2 DEF Bought, Signed
    <3> QED BY <1>1, <1>3, <2>1, <2>2, <3>1, <3>3
  <2> QED BY <2>5, <2>6
<1>11. CASE PublishPrice(id) \/ EndOrder(id)
  <2>1. /\ account' = account
        /\ \/ orders' = [orders EXCEPT ![id].priced = TRUE] /\ orders[id].status = "filled"
           \/ orders' = [orders EXCEPT ![id].status = "ended"]
    BY <1>11 DEF PublishPrice, EndOrder
  <2>2. /\ \A i \in DOMAIN orders : i # id => orders'[i] = orders[i]
        /\ orders'[id].status # "working"
    BY <1>2, <1>4, <2>1 DEF VenueOrder
  <2>3. now = 0 BY <1>7, <2>2
  <2>4. Promised(orders', s) = Promised(orders, s) - was + now BY <1>8, <2>2
  <2>5. was \in Nat BY <1>6, <1>9
  <2> HIDE DEF was, now
  <2> QED BY <1>1, <1>3, <2>1, <2>3, <2>4, <2>5
<1> QED BY <1>10, <1>11 DEF Venue

(* What the venue accepts to sell is there to sell.                          *)
LEMMA CoveredOrder ==
  ASSUME BrokerInv, Covered, NEW ask \in Asks, ~Oversells(Trim(ask)),
         orders' = Append(orders, Placed(Trim(ask))), UNCHANGED <<account, portfolio>>
  PROVE  Covered'
<1> SUFFICES ASSUME NEW s \in Symbols
             PROVE  Promised(orders', s) <= account'.qty[s] /\ portfolio'.qty[s] >= 0
  BY DEF Covered
<1> DEFINE order == Trim(ask)
           o == Placed(order)
<1>1. order \in Order BY TrimShape
<1>2. /\ Promised(orders, s) \in Nat /\ account.qty[s] \in Int
      /\ Promised(orders, s) <= account.qty[s] /\ portfolio.qty[s] >= 0
  BY CoveredTypes DEF Covered
<1>3. o \in VenueOrder BY PlacedOrder
<1>4. /\ o.status = "working" /\ o.side = order.side /\ o.symbol = order.symbol
      /\ Remaining(o) = order.qty - 0
  BY DEF Placed, Remaining
<1>5. orders \in Seq(VenueOrder) BY DEF BrokerInv, Typed
<1>6. orders' = Append(orders, o) OBVIOUS
<1>7. ~(order.side = "SELL" /\ order.qty > account.qty[order.symbol] - Promised(orders, order.symbol))
  BY DEF Oversells
<1>8. order.qty \in Nat BY <1>1 DEF Order
<1> HIDE DEF o, order
<1>9. Promised(orders', s)
        = Promised(orders, s) + (IF o.side = "SELL" /\ o.symbol = s THEN Remaining(o) ELSE 0)
  BY <1>3, <1>4, <1>5, <1>6, PromisedAppend
<1>10. CASE o.side = "SELL" /\ o.symbol = s
  <2>1. order.qty <= account.qty[s] - Promised(orders, s) BY <1>2, <1>4, <1>7, <1>8, <1>10
  <2>2. Promised(orders', s) = Promised(orders, s) + order.qty BY <1>4, <1>8, <1>9, <1>10
  <2> QED BY <1>2, <1>8, <2>1, <2>2
<1>11. CASE ~(o.side = "SELL" /\ o.symbol = s)
  <2>1. Promised(orders', s) = Promised(orders, s) BY <1>2, <1>9, <1>11
  <2> QED BY <1>2, <2>1
<1> QED BY <1>10, <1>11

LEMMA CoveredStep == BrokerInv /\ Covered /\ [Next]_vars => Covered'
<1> SUFFICES ASSUME BrokerInv, Covered, [Next]_vars PROVE Covered'
  OBVIOUS
<1>1. CASE \E id \in DOMAIN orders : Venue(id) BY <1>1, CoveredVenue
<1>2. CASE UNCHANGED <<orders, account, portfolio>> BY <1>2 DEF Covered
<1>3. CASE ReadPositions
  <2>1. UNCHANGED <<orders, account>> /\ portfolio'.qty = account.qty
    BY <1>3 DEF ReadPositions, venueVars
  <2>2. \A s \in Symbols : account.qty[s] >= 0 BY CoveredTypes DEF Covered
  <2> QED BY <2>1, <2>2 DEF Covered
<1>4. ASSUME NEW ask \in Asks, Submit(ask) PROVE Covered'
  <2>1. portfolio' = portfolio BY <1>4 DEF Submit, Asking
  <2>2. CASE \E why \in {"duplicate", "oversell", "venue"} : Refuse(Trim(ask), why)
    BY <1>2, <2>1, <2>2 DEF Refuse, venueVars
  <2>3. CASE ~Oversells(Trim(ask)) /\ Place(Trim(ask))
    BY <2>1, <2>3, CoveredOrder DEF Place
  <2> QED BY <1>4, <2>2, <2>3, SubmitShape
<1>5. ASSUME NEW ask \in Asks, SubmitFails(ask) PROVE Covered'
  <2>1. /\ UNCHANGED <<account, portfolio>>
        /\ \/ orders' = orders
           \/ ~Oversells(Trim(ask)) /\ orders' = Append(orders, Placed(Trim(ask)))
    BY <1>5 DEF SubmitFails, Asking
  <2> QED BY <1>2, <2>1, CoveredOrder
<1>6. CASE StartBar \/ Retry \/ Settle \/ ReadCash \/ BarFails \/ UNCHANGED vars
  BY <1>2, <1>6 DEF StartBar, Retry, Settle, ReadCash, BarFails, vars, venueVars, brokerVars
<1> QED BY <1>1, <1>3, <1>4, <1>5, <1>6 DEF Next, OnBar

LEMMA CoveredAlways == Spec => []Covered
BY CoveredInit, CoveredStep, BrokerAlways, PTL DEF Spec

(* The variables have their types: nothing held is ever negative, the ids    *)
(* under way are the session's, once each, and between two bars _pending and *)
(* _requested know the same orders (AlpacaBroker, _reconcile, on_bar).       *)
THEOREM TypeCorrect == Spec => []TypeOK
<1>1. BrokerInv /\ Covered => TypeOK
  <2> SUFFICES ASSUME BrokerInv, Covered PROVE TypeOK
    OBVIOUS
  <2>1. ASSUME NEW id \in Ids
        PROVE  /\ orders[id].filled \in 0..orders[id].qty
               /\ orders[id].status \in Terminal \cup {"working"}
               /\ (orders[id].status = "filled") = (Remaining(orders[id]) = 0)
    <3>1. orders[id] \in VenueOrder /\ Sound(orders[id])
      BY DEF BrokerInv, Typed, OrdersSound, Ids
    <3>2. /\ orders[id].qty \in Nat /\ orders[id].filled \in Nat
          /\ orders[id].status \in {"working", "filled", "ended"}
      BY <3>1 DEF VenueOrder
    <3>3. (Remaining(orders[id]) = 0) = (orders[id].filled = orders[id].qty)
      BY <3>2 DEF Remaining
    <3> QED BY <3>1, <3>2, <3>3 DEF Sound, Terminal
  <2>2. /\ account.cash \in Int /\ portfolio.cash \in Int
        /\ account.qty \in [Symbols -> Int] /\ portfolio.qty \in [Symbols -> Int]
    BY DEF BrokerInv, Typed, Purse
  <2>3. \A s \in Symbols : account.qty[s] \in Nat /\ portfolio.qty[s] \in Nat
    BY CoveredTypes DEF Covered
  <2>4. account.qty \in [Symbols -> Nat] /\ portfolio.qty \in [Symbols -> Nat]
    BY <2>2, <2>3
  <2>5. Lists BY DEF BrokerInv
  <2>6. phase = "submit" => DOMAIN requested = Range(pending)
    BY <2>5 DEF Lists, UnderWay
  <2> QED BY <2>1, <2>2, <2>4, <2>5, <2>6 DEF BrokerInv, Typed, Lists, TypeOK
<1> QED BY <1>1, BrokerAlways, CoveredAlways, PTL

(* However many bars ask again, at most one order of a symbol and side that  *)
(* the session was told of is live (AlpacaBroker.submit, ADR-0036).          *)
THEOREM OneLiveOrderPerSide == Spec => []OneLiveOrder
BY BrokerAlways, PTL DEF BrokerInv

-----------------------------------------------------------------------------
(* The two reads of a bar *)

LEMMA ReadsStep == BrokerInv /\ ReadsAgree /\ [Next]_vars => ReadsAgree'
<1> SUFFICES ASSUME BrokerInv, ReadsAgree, [Next]_vars PROVE ReadsAgree'
  OBVIOUS
<1>1. account \in Purse BY DEF BrokerInv, Typed
<1>2. CASE UNCHANGED vars
  BY <1>2 DEF vars, venueVars, brokerVars, barVars, ReadsAgree, PortfolioIsTheAccount
<1>3. ASSUME NEW id \in DOMAIN orders, Venue(id) PROVE ReadsAgree'
  BY <1>3, VenueShape DEF ReadsAgree, PortfolioIsTheAccount
<1>4. CASE StartBar \/ Retry \/ Settle \/ BarFails
  BY <1>4 DEF StartBar, Retry, Settle, BarFails, ReadsAgree, PortfolioIsTheAccount
<1>5. CASE ReadCash
  BY <1>5 DEF ReadCash, venueVars, ReadsAgree, PortfolioIsTheAccount
<1>6. CASE ReadPositions
  <2>1. /\ phase = "positions" /\ phase' = "submit" /\ UNCHANGED <<account, moved>>
        /\ portfolio' = [cash |-> cashRead, qty |-> account.qty]
    BY <1>6 DEF ReadPositions, venueVars
  <2>2. account = [cash |-> account.cash, qty |-> account.qty] BY <1>1 DEF Purse
  <2> QED BY <2>1, <2>2 DEF ReadsAgree, PortfolioIsTheAccount
<1>7. ASSUME NEW ask \in Asks, Submit(ask) \/ SubmitFails(ask) PROVE ReadsAgree'
  <2>1. /\ phase = "submit" /\ phase' \in {"submit", "over"}
        /\ UNCHANGED <<account, portfolio, moved>>
    BY <1>7 DEF Submit, SubmitFails, Asking, Refuse, Place, venueVars
  <2> QED BY <2>1 DEF ReadsAgree, PortfolioIsTheAccount
<1> QED BY <1>2, <1>3, <1>4, <1>5, <1>6, <1>7 DEF Next, OnBar

LEMMA ReadsAlways == Spec => []ReadsAgree
<1>1. Init => ReadsAgree BY DEF Init, ReadsAgree, PortfolioIsTheAccount
<1> QED BY <1>1, BrokerAlways, ReadsStep, PTL DEF Spec

(* A bar in which the account stood still ends with the portfolio the        *)
(* account has: the two calls of _reconcile tore nothing.                    *)
THEOREM PortfolioCorrect == Spec => []PortfolioIsTheAccount
<1>1. ReadsAgree => PortfolioIsTheAccount BY DEF ReadsAgree, PortfolioIsTheAccount
<1> QED BY <1>1, ReadsAlways, PTL

(* While the portfolio is current and nothing else sells the symbol, an exit *)
(* of up to half a unit more than the holding is never refused as an         *)
(* oversell (_trim_rounding_oversell, ADR-0058).                             *)
LEMMA ExitStep ==
  ASSUME BrokerInv, Covered, ReadsAgree, NEW ask \in Asks, Submit(ask), ~moved,
         WorkingSells(orders, ask.symbol) = {}, rejections' # rejections,
         Last(rejections').why = "oversell"
  PROVE  portfolio.qty[ask.symbol] = 0 \/ ask.qty > portfolio.qty[ask.symbol] + HalfUnit
<1> DEFINE held == portfolio.qty[ask.symbol]
<1>1. phase = "submit" BY DEF Submit, Asking
<1>2. portfolio = account BY <1>1 DEF ReadsAgree, PortfolioIsTheAccount
<1>3. ask \in Order /\ held \in Int BY BrokerAssumption DEF BrokerInv, Typed, Purse, Order
<1>4. ask.qty \in Nat \ {0} BY <1>3 DEF Order
<1>5. Promised(orders, ask.symbol) = 0 BY SumEmpty DEF Promised
<1>6. Oversells(Trim(ask))
  <2>1. rejections \in Seq(Rejection) BY DEF BrokerInv, Typed
  <2>2. ASSUME NEW why \in {"duplicate", "oversell", "venue"}, Refuse(Trim(ask), why)
        PROVE  why = "oversell"
    <3> DEFINE r == [order |-> Trim(ask), id |-> None, why |-> why]
    <3>1. rejections' = Append(rejections, r) BY <2>2 DEF Refuse
    <3>2. r.why = why /\ r \in Rejection BY TrimShape DEF Rejection
    <3> HIDE DEF r
    <3>3. Last(Append(rejections, r)) = r BY <2>1, <3>2 DEF Last
    <3> QED BY <3>1, <3>2, <3>3
  <2>3. ~Place(Trim(ask)) BY DEF Place
  <2>4. \/ Oversells(Trim(ask)) \/ Refuse(Trim(ask), "duplicate") \/ Refuse(Trim(ask), "venue")
    BY <2>3 DEF Submit
  <2> QED BY <2>2, <2>4
<1>7. Trim(ask).side = "SELL" /\ Trim(ask).symbol = ask.symbol
      /\ Trim(ask).qty > account.qty[ask.symbol] - Promised(orders, ask.symbol)
  BY <1>6, TrimShape DEF Oversells
<1>8. ask.side = "SELL" BY <1>7, TrimShape
<1>9. Trim(ask).qty > held BY <1>2, <1>3, <1>5, <1>7
<1>10. ~(held > 0 /\ ask.qty - held \in 1..HalfUnit)
  <2>1. SUFFICES ASSUME held > 0 /\ ask.qty - held \in 1..HalfUnit PROVE FALSE OBVIOUS
  <2>2. Trim(ask) = [ask EXCEPT !.qty = held] BY <1>8, <2>1 DEF Trim
  <2>3. Trim(ask).qty = held BY <1>3, <2>2 DEF Order
  <2> QED BY <1>3, <1>9, <2>3
<1>11. Trim(ask) = ask BY <1>10 DEF Trim
<1>12. held >= 0 BY <1>3, BrokerAssumption DEF Covered, Order
<1> HIDE DEF held
<1>13. ask.qty > held BY <1>9, <1>11
<1>14. held = 0 \/ ask.qty > held + HalfUnit BY <1>3, <1>4, <1>10, <1>12, <1>13 DEF HalfUnit
<1> QED BY <1>14 DEF held

THEOREM ExitsSell == Spec => ExitsStaySellable
<1> DEFINE Sellable ==
      \A ask \in Asks :
        /\ Submit(ask) /\ ~moved /\ WorkingSells(orders, ask.symbol) = {}
        /\ rejections' # rejections /\ Last(rejections').why = "oversell"
        => portfolio.qty[ask.symbol] = 0 \/ ask.qty > portfolio.qty[ask.symbol] + HalfUnit
<1>1. BrokerInv /\ Covered /\ ReadsAgree => Sellable
  <2> SUFFICES ASSUME BrokerInv, Covered, ReadsAgree, NEW ask \in Asks, Submit(ask), ~moved,
                      WorkingSells(orders, ask.symbol) = {}, rejections' # rejections,
                      Last(rejections').why = "oversell"
               PROVE  portfolio.qty[ask.symbol] = 0 \/ ask.qty > portfolio.qty[ask.symbol] + HalfUnit
    OBVIOUS
  <2> QED BY ExitStep
<1> HIDE DEF Sellable
<1>2. [][Sellable]_vars => ExitsStaySellable BY DEF ExitsStaySellable, Sellable
<1>3. Spec => [][Sellable]_vars
  BY <1>1, BrokerAlways, CoveredAlways, ReadsAlways, PTL DEF Spec
<1> QED BY <1>2, <1>3

-----------------------------------------------------------------------------
(* What the blotter and the orders on_bar has yet to report explain *)

(* What happened to one measure of the account - the cash, or the quantity   *)
(* held of a symbol - is what the blotter says and what the orders on_bar    *)
(* has yet to report say: f gives it of an order, b of a reported fill.      *)
Total(f, b) == SumFunctionOnSet(b, DOMAIN blotter) + SumFunctionOnSet(f, Unreported)

Paid == [id \in Ids |-> Signed(orders[id], orders[id].paid)]
Spent == [i \in DOMAIN blotter |-> Signed(blotter[i], blotter[i].paid)]
Gained(s) == [id \in Ids |-> Bought(orders[id], s, orders[id].filled)]
Booked(s) == [i \in DOMAIN blotter |-> Bought(blotter[i], s, blotter[i].qty)]

Explained ==
  /\ account.cash = Cash - Total(Paid, Spent)
  /\ \A s \in Symbols : account.qty[s] = Holdings[s] + Total(Gained(s), Booked(s))

LEMMA MeasureTypes ==
  ASSUME BrokerInv
  PROVE  /\ IsFiniteSet(Ids) /\ IsFiniteSet(DOMAIN blotter)
         /\ Unreported \in SUBSET Ids /\ IsFiniteSet(Unreported)
         /\ \A id \in Ids : Paid[id] \in Int
         /\ \A i \in DOMAIN blotter : Spent[i] \in Int
         /\ \A s : \A id \in Ids : Gained(s)[id] \in Int
         /\ \A s : \A i \in DOMAIN blotter : Booked(s)[i] \in Int
         /\ SumFunctionOnSet(Paid, Unreported) \in Int
         /\ SumFunctionOnSet(Spent, DOMAIN blotter) \in Int
         /\ \A s : SumFunctionOnSet(Gained(s), Unreported) \in Int
         /\ \A s : SumFunctionOnSet(Booked(s), DOMAIN blotter) \in Int
<1>1. orders \in Seq(VenueOrder) /\ blotter \in Seq(Fill) BY DEF BrokerInv, Typed
<1>2. /\ Ids = 1..Len(orders) /\ Len(orders) \in Nat
      /\ DOMAIN blotter = 1..Len(blotter) /\ Len(blotter) \in Nat
  BY <1>1 DEF Ids
<1>3. IsFiniteSet(Ids) /\ IsFiniteSet(DOMAIN blotter) BY <1>2, FS_Interval
<1>4. Unreported \subseteq Ids
  BY DEF BrokerInv, Lists, Noted, Unreported
<1>5. IsFiniteSet(Unreported) BY <1>3, <1>4, FS_Subset
<1>6. \A order, n : n \in Int => Signed(order, n) \in Int BY DEF Signed
<1>7. \A order, s, n : n \in Int => Bought(order, s, n) \in Int BY <1>6 DEF Bought
<1>8. \A id \in Ids : orders[id] \in VenueOrder BY <1>1, <1>2
<1>9. \A id \in Ids : orders[id].paid \in Int /\ orders[id].filled \in Int
  BY <1>8 DEF VenueOrder
<1>10. \A i \in DOMAIN blotter : blotter[i] \in Fill BY <1>1
<1>11. \A i \in DOMAIN blotter : blotter[i].paid \in Int /\ blotter[i].qty \in Int
  BY <1>10 DEF Fill
<1>12. \A id \in Ids : Paid[id] \in Int BY <1>6, <1>9 DEF Paid
<1>13. \A i \in DOMAIN blotter : Spent[i] \in Int BY <1>6, <1>11 DEF Spent
<1>14. ASSUME NEW s PROVE \A id \in Ids : Gained(s)[id] \in Int
  BY <1>7, <1>9 DEF Gained
<1>15. ASSUME NEW s PROVE \A i \in DOMAIN blotter : Booked(s)[i] \in Int
  BY <1>7, <1>11 DEF Booked
<1>16. SumFunctionOnSet(Paid, Unreported) \in Int BY <1>4, <1>5, <1>12, SumType
<1>17. SumFunctionOnSet(Spent, DOMAIN blotter) \in Int BY <1>3, <1>13, SumType
<1>18. ASSUME NEW s PROVE SumFunctionOnSet(Gained(s), Unreported) \in Int
  <2> DEFINE f == Gained(s)
  <2>1. \A id \in Unreported : f[id] \in Int BY <1>4, <1>14
  <2> HIDE DEF f
  <2>2. SumFunctionOnSet(f, Unreported) \in Int BY <1>5, <2>1, SumType
  <2> QED BY <2>2 DEF f
<1>19. ASSUME NEW s PROVE SumFunctionOnSet(Booked(s), DOMAIN blotter) \in Int
  <2> DEFINE f == Booked(s)
  <2>1. \A i \in DOMAIN blotter : f[i] \in Int BY <1>15
  <2> HIDE DEF f
  <2>2. SumFunctionOnSet(f, DOMAIN blotter) \in Int BY <1>3, <2>1, SumType
  <2> QED BY <2>2 DEF f
<1> QED BY <1>3, <1>4, <1>5, <1>12, <1>13, <1>14, <1>15, <1>16, <1>17, <1>18, <1>19

LEMMA ExplainedIs == BrokerInv => (BlotterExplainsAccount <=> Explained)
<1> SUFFICES ASSUME BrokerInv PROVE BlotterExplainsAccount <=> Explained
  OBVIOUS
<1> DEFINE spent == SumFunctionOnSet(Spent, DOMAIN blotter)
           paid == SumFunctionOnSet(Paid, Unreported)
           booked(s) == SumFunctionOnSet(Booked(s), DOMAIN blotter)
           gained(s) == SumFunctionOnSet(Gained(s), Unreported)
<1>1. /\ spent \in Int /\ paid \in Int
      /\ \A s \in Symbols : booked(s) \in Int /\ gained(s) \in Int
  BY MeasureTypes
<1>2. \A s \in Symbols : Holdings[s] \in Int BY BrokerAssumption
<1>3. Cash \in Int BY BrokerAssumption
<1>4. BlotterExplainsAccount <=>
        /\ account.cash = Cash - spent - paid
        /\ \A s \in Symbols : account.qty[s] = Holdings[s] + booked(s) + gained(s)
  BY DEF BlotterExplainsAccount, Spent, Paid, Booked, Gained
<1>5. Explained <=>
        /\ account.cash = Cash - (spent + paid)
        /\ \A s \in Symbols : account.qty[s] = Holdings[s] + (booked(s) + gained(s))
  BY DEF Explained, Total
<1> HIDE DEF spent, paid, booked, gained
<1>6. Cash - spent - paid = Cash - (spent + paid) BY <1>1, <1>3
<1>7. \A s \in Symbols : Holdings[s] + booked(s) + gained(s) = Holdings[s] + (booked(s) + gained(s))
  BY <1>1, <1>2
<1> QED BY <1>4, <1>5, <1>6, <1>7

-----------------------------------------------------------------------------
(* A step that keeps both totals and the account keeps them in agreement.    *)
LEMMA ExplainedSame ==
  ASSUME Explained, account' = account, Total(Paid, Spent)' = Total(Paid, Spent),
         \A s \in Symbols : Total(Gained(s), Booked(s))' = Total(Gained(s), Booked(s))
  PROVE  Explained'
BY DEF Explained

(* Nothing that either sum reads changes.                                    *)
LEMMA ExplainedUntouched ==
  ASSUME Explained, UNCHANGED <<account, orders, blotter>>, Unreported' = Unreported
  PROVE  Explained'
BY DEF Explained, Total, Paid, Spent, Gained, Booked, Ids

(* One order changes, and is still to be reported.                           *)
LEMMA OneMoves ==
  ASSUME BrokerInv, NEW id \in Unreported, NEW f, NEW g, NEW b, NEW n \in Int,
         \A i \in Ids : f[i] \in Int, \A i \in Ids : i # id => g[i] = f[i], g[id] = f[id] + n,
         \A i \in DOMAIN blotter : b[i] \in Int
  PROVE  Total(g, b) = Total(f, b) + n
<1>1. /\ IsFiniteSet(Unreported) /\ Unreported \subseteq Ids /\ IsFiniteSet(DOMAIN blotter)
  BY MeasureTypes
<1>2. \A i \in Unreported : f[i] \in Int BY <1>1
<1>3. g[id] \in Int /\ f[id] \in Int BY <1>2
<1>4. \A i \in Unreported \ {id} : g[i] = f[i] BY <1>1
<1>5. SumFunctionOnSet(g, Unreported) = SumFunctionOnSet(f, Unreported) - f[id] + g[id]
  BY <1>1, <1>2, <1>3, <1>4, SumChange
<1>6. SumFunctionOnSet(f, Unreported) \in Int BY <1>1, <1>2, SumType
<1>7. SumFunctionOnSet(b, DOMAIN blotter) \in Int BY <1>1, SumType
<1>8. SumFunctionOnSet(g, Unreported) = SumFunctionOnSet(f, Unreported) + n
  BY <1>3, <1>5, <1>6
<1> QED BY <1>6, <1>7, <1>8 DEF Total

(* A live order is one on_bar has yet to report.                             *)
LEMMA LiveUnreported ==
  ASSUME BrokerInv, phase # "over", NEW id \in Ids, IsLive(id) PROVE id \in Unreported
BY DEF BrokerInv, Lists, LiveIsKnown, Unreported

(* The venue: what a fill moves at the account it moves in its order.        *)
LEMMA ExplainedVenue ==
  ASSUME BrokerInv, Explained, NEW id \in DOMAIN orders, Venue(id) PROVE Explained'
<1>1. /\ phase # "over" /\ UNCHANGED <<pending, fills, blotter, ours>>
      /\ DOMAIN orders' = DOMAIN orders
  BY VenueShape
<1>2. Unreported' = Unreported /\ Ids' = Ids BY <1>1 DEF Unreported, Ids, Collected
<1>3. id \in Ids BY DEF Ids
<1>4. /\ \A i \in Ids : Paid[i] \in Int /\ \A s : Gained(s)[i] \in Int
      /\ \A i \in DOMAIN blotter : Spent[i] \in Int /\ \A s : Booked(s)[i] \in Int
  BY MeasureTypes
<1>5. Spent' = Spent /\ \A s : Booked(s)' = Booked(s) BY <1>1 DEF Spent, Booked
<1>6. /\ Total(Paid, Spent)' = Total(Paid', Spent)
      /\ \A s : Total(Gained(s), Booked(s))' = Total(Gained(s)', Booked(s))
  BY <1>1, <1>2, <1>5 DEF Total
<1>7. orders \in Seq(VenueOrder) /\ orders[id] \in VenueOrder BY <1>3 DEF BrokerInv, Typed, Ids
<1>8. CASE Execute(id)
  <2>1. PICK n \in Nat \ {0}, cost \in Nat :
           /\ orders[id].status = "working"
           /\ \A i \in DOMAIN orders : i # id => orders'[i] = orders[i]
           /\ orders'[id].symbol = orders[id].symbol /\ orders'[id].side = orders[id].side
           /\ orders'[id].filled = orders[id].filled + n
           /\ orders'[id].paid = orders[id].paid + cost
           /\ account' \in Purse
           /\ account'.cash = account.cash - Signed(orders[id], cost)
           /\ \A s \in Symbols : account'.qty[s] = account.qty[s] + Bought(orders[id], s, n)
    BY <1>8, ExecuteShape
  <2>2. id \in Unreported BY <1>1, <1>3, <2>1, LiveUnreported DEF IsLive
  <2>3. orders[id].paid \in Nat /\ orders[id].filled \in Nat BY <1>7 DEF VenueOrder
  <2>4. Signed(orders[id], cost) \in Int /\ \A s : Bought(orders[id], s, n) \in Int
    BY DEF Signed, Bought
  <2>5. Signed(orders'[id], orders'[id].paid) = Signed(orders[id], orders[id].paid) + Signed(orders[id], cost)
    BY <2>1, <2>3 DEF Signed
  <2>6. \A s : Bought(orders'[id], s, orders'[id].filled)
                = Bought(orders[id], s, orders[id].filled) + Bought(orders[id], s, n)
    BY <2>1, <2>3 DEF Bought, Signed
  <2>7. /\ Paid'[id] = Paid[id] + Signed(orders[id], cost)
        /\ \A i \in Ids : i # id => Paid'[i] = Paid[i]
    BY <1>2, <1>3, <2>1, <2>5 DEF Paid, Ids
  <2>8. ASSUME NEW s
        PROVE  /\ Gained(s)'[id] = Gained(s)[id] + Bought(orders[id], s, n)
               /\ \A i \in Ids : i # id => Gained(s)'[i] = Gained(s)[i]
    BY <1>2, <1>3, <2>1, <2>6 DEF Gained, Ids
  <2>9. Total(Paid', Spent) = Total(Paid, Spent) + Signed(orders[id], cost)
    BY <1>4, <2>2, <2>4, <2>7, OneMoves
  <2>10. ASSUME NEW s \in Symbols
         PROVE  Total(Gained(s)', Booked(s)) = Total(Gained(s), Booked(s)) + Bought(orders[id], s, n)
    <3> DEFINE f == Gained(s)
               g == Gained(s)'
               b == Booked(s)
               m == Bought(orders[id], s, n)
    <3>1. /\ m \in Int /\ \A i \in Ids : f[i] \in Int
          /\ \A i \in Ids : i # id => g[i] = f[i]
          /\ g[id] = f[id] + m /\ \A i \in DOMAIN blotter : b[i] \in Int
      BY <1>4, <2>4, <2>8
    <3> HIDE DEF f, g, b, m
    <3>2. Total(g, b) = Total(f, b) + m BY <2>2, <3>1, OneMoves
    <3> QED BY <3>2 DEF f, g, b, m
  <2>11. Total(Paid, Spent) \in Int /\ \A s \in Symbols : Total(Gained(s), Booked(s)) \in Int
    BY MeasureTypes DEF Total
  <2>12. account'.cash = Cash - Total(Paid', Spent)
    <3>1. account.cash = Cash - Total(Paid, Spent) BY DEF Explained
    <3>2. Cash \in Int BY BrokerAssumption
    <3> QED BY <2>1, <2>4, <2>9, <2>11, <3>1, <3>2
  <2>13. ASSUME NEW s \in Symbols
         PROVE  account'.qty[s] = Holdings[s] + Total(Gained(s)', Booked(s))
    <3>1. account.qty[s] = Holdings[s] + Total(Gained(s), Booked(s)) BY DEF Explained
    <3>2. Holdings[s] \in Int BY BrokerAssumption
    <3>3. account'.qty[s] = account.qty[s] + Bought(orders[id], s, n) BY <2>1
    <3> QED BY <2>4, <2>10, <2>11, <3>1, <3>2, <3>3
  <2> QED BY <1>6, <2>12, <2>13 DEF Explained
<1>9. CASE PublishPrice(id) \/ EndOrder(id)
  <2>1. /\ account' = account
        /\ \/ orders' = [orders EXCEPT ![id].priced = TRUE]
           \/ orders' = [orders EXCEPT ![id].status = "ended"]
    BY <1>9 DEF PublishPrice, EndOrder
  <2>2. \A i \in DOMAIN orders :
          /\ orders'[i].symbol = orders[i].symbol /\ orders'[i].side = orders[i].side
          /\ orders'[i].paid = orders[i].paid /\ orders'[i].filled = orders[i].filled
    <3>1. CASE orders' = [orders EXCEPT ![id].priced = TRUE] BY <1>7, <3>1 DEF VenueOrder
    <3>2. CASE orders' = [orders EXCEPT ![id].status = "ended"] BY <1>7, <3>2 DEF VenueOrder
    <3> QED BY <2>1, <3>1, <3>2
  <2>3. Paid' = Paid BY <1>2, <2>2 DEF Paid, Ids, Signed
  <2>4. \A s : Gained(s)' = Gained(s) BY <1>2, <2>2 DEF Gained, Ids, Bought, Signed
  <2> QED BY <1>6, <2>1, <2>3, <2>4, ExplainedSame
<1> QED BY <1>8, <1>9 DEF Venue

(* An order on_bar has forgotten without a fill moved nothing.               *)
LEMMA ExplainedReadCash == ASSUME BrokerInv, Explained, ReadCash PROVE Explained'
<1>1. /\ phase = "poll" /\ todo = <<>> /\ pending' = stillPending
      /\ UNCHANGED <<orders, account, ours, fills, blotter>>
  BY DEF ReadCash, venueVars
<1>2. UnderWay = Range(stillPending) BY <1>1, EmptyList DEF UnderWay
<1>3. Unreported' \subseteq Unreported
  BY <1>1 DEF BrokerInv, Lists, Unreported, Ids, Collected
<1>4. \A id \in Unreported \ Unreported' : id \in Ids /\ orders[id].filled = 0 /\ orders[id].paid = 0
  <2>1. ASSUME NEW id \in Unreported \ Unreported'
        PROVE  id \in Ids /\ orders[id].filled = 0 /\ orders[id].paid = 0
    <3>1. id \in Range(pending) \ UnderWay /\ id \notin Collected
      BY <1>1, <1>2 DEF Unreported, Ids, Collected
    <3>2. id \in Ids BY <3>1 DEF BrokerInv, Lists
    <3>3. orders[id].filled = 0 BY <1>1, <3>1 DEF BrokerInv, Noted
    <3> QED BY <3>2, <3>3 DEF BrokerInv, OrdersSound, Sound
  <2> QED BY <2>1
<1>5. UNCHANGED <<Paid, Spent>> /\ \A s : UNCHANGED <<Gained(s), Booked(s)>>
  BY <1>1 DEF Paid, Spent, Gained, Booked, Ids
<1>6. /\ IsFiniteSet(Unreported) /\ Unreported \subseteq Ids
      /\ \A i \in Ids : Paid[i] \in Int /\ \A s : Gained(s)[i] \in Int
  BY MeasureTypes
<1>7. SumFunctionOnSet(Paid, Unreported') = SumFunctionOnSet(Paid, Unreported)
  <2>1. \A id \in Unreported \ Unreported' : Paid[id] = 0 BY <1>4 DEF Paid, Signed
  <2>2. \A id \in Unreported : Paid[id] \in Int BY <1>6
  <2> QED BY <1>3, <1>6, <2>1, <2>2, SumSupport
<1>8. ASSUME NEW s
      PROVE  SumFunctionOnSet(Gained(s), Unreported') = SumFunctionOnSet(Gained(s), Unreported)
  <2> DEFINE f == Gained(s)
             U == Unreported'
  <2>1. \A id \in Unreported \ U : f[id] = 0 BY <1>4 DEF Gained, Bought, Signed
  <2>2. \A id \in Unreported : f[id] \in Int BY <1>6
  <2>3. U \in SUBSET Unreported BY <1>3
  <2> HIDE DEF f, U
  <2>4. SumFunctionOnSet(f, U) = SumFunctionOnSet(f, Unreported)
    BY <1>6, <2>1, <2>2, <2>3, SumSupport
  <2> QED BY <2>4 DEF f, U
<1> QED BY <1>1, <1>5, <1>7, <1>8 DEF Explained, Total

(* What on_bar returns moves from the orders to the blotter, once each.      *)
LEMMA Reporting ==
  ASSUME BrokerInv, ReadPositions, NEW f, NEW b, NEW c,
         \A id \in Ids : f[id] \in Int,
         \A i \in DOMAIN blotter : b[i] \in Int /\ c[i] = b[i],
         \A j \in DOMAIN fills : c[Len(blotter) + j] = f[fills[j].id]
  PROVE  SumFunctionOnSet(c, DOMAIN blotter') + SumFunctionOnSet(f, Unreported') = Total(f, b)
<1>1. /\ phase = "positions" /\ UNCHANGED <<orders, ours, pending>> /\ fills' = <<>>
      /\ blotter' = blotter \o fills
  BY DEF ReadPositions, venueVars
<1>2. Collected' = {} BY <1>1, EmptyList DEF Collected
<1>3. Noted /\ Lists BY DEF BrokerInv
<1>4. UnderWay = Range(pending) BY <1>1 DEF UnderWay
<1>5. Unreported' \cap Collected = {} /\ Unreported = Unreported' \cup Collected
  BY <1>1, <1>2, <1>3, <1>4 DEF Unreported, Noted, Ids
<1>6. /\ IsFiniteSet(Unreported) /\ Unreported \subseteq Ids /\ IsFiniteSet(DOMAIN blotter)
  BY MeasureTypes
<1> DEFINE U == Unreported'
           N == Collected
           h == [j \in DOMAIN fills |-> fills[j].id]
<1>7. IsFiniteSet(U) /\ IsFiniteSet(N) BY <1>5, <1>6, FS_Subset
<1>8. \A i \in U \cup N : f[i] \in Int BY <1>5, <1>6
<1>9. blotter \in Seq(Fill) /\ fills \in Seq(Fill) BY DEF BrokerInv, Typed
<1>10. Renames(h, DOMAIN fills, N)
  <2>1. \A i, j \in DOMAIN fills : h[i] = h[j] => i = j BY <1>3 DEF Noted
  <2>2. \A e : e \in N <=> \E j \in DOMAIN fills : e = h[j] BY DEF Collected
  <2> QED BY <2>1, <2>2 DEF Renames
<1>11. \A j \in DOMAIN fills : f[h[j]] \in Int /\ c[Len(blotter) + j] = f[h[j]]
  BY <1>8 DEF Collected
<1>12. U \cap N = {} /\ Unreported = U \cup N BY <1>5
<1> HIDE DEF U, N, h
<1> DEFINE n == Len(blotter)
           S == DOMAIN blotter
           J == DOMAIN fills
           k == [j \in J |-> n + j]
           E == {k[j] : j \in J}
<1>18. S = 1..n /\ n \in Nat /\ J = 1..Len(fills) /\ Len(fills) \in Nat
  BY <1>9
<1>19. DOMAIN blotter' = S \cup E /\ S \cap E = {} /\ E \subseteq DOMAIN blotter'
  <2> DEFINE m == Len(fills)
  <2>1. DOMAIN blotter' = 1..(n + m) BY <1>1, <1>9
  <2>2. ASSUME NEW i \in 1..(n + m), i \notin S PROVE i \in E
    <3>1. i - n \in J /\ k[i - n] = i BY <1>18, <2>2
    <3> QED BY <3>1
  <2>3. \A j \in J : k[j] \in 1..(n + m) /\ k[j] \notin S BY <1>18
  <2>4. S \subseteq 1..(n + m) BY <1>18
  <2> HIDE DEF S, J, k
  <2> QED BY <2>1, <2>2, <2>3, <2>4
<1>20. Renames(k, J, E)
  <2>1. \A i, j \in J : k[i] = k[j] => i = j BY <1>18
  <2> QED BY <2>1 DEF Renames
<1>21. IsFiniteSet(J) /\ IsFiniteSet(E)
  <2>1. IsFiniteSet(J) BY <1>18, FS_Interval
  <2>2. IsFiniteSet(DOMAIN blotter')
    <3>1. DOMAIN blotter' = 1..(n + Len(fills)) BY <1>1, <1>9
    <3>2. n + Len(fills) \in Int BY <1>18
    <3> HIDE DEF n
    <3> QED BY <3>1, <3>2, FS_Interval
  <2> HIDE DEF E, J
  <2> QED BY <1>19, <2>1, <2>2, FS_Subset
<1>22. \A j \in J : f[h[j]] \in Int /\ c[k[j]] = f[h[j]] BY <1>11
<1>23. \A i \in S : b[i] \in Int /\ c[i] = b[i] OBVIOUS
<1>24. IsFiniteSet(S) /\ Renames(h, J, N) BY <1>6, <1>10
<1>13. SumFunctionOnSet(c, DOMAIN blotter')
         = SumFunctionOnSet(b, DOMAIN blotter) + SumFunctionOnSet(f, N)
  <2> HIDE DEF k, E, J, S, n
  <2>1. SumFunctionOnSet(c, S \cup E) = SumFunctionOnSet(b, S) + SumFunctionOnSet(f, N)
    BY <1>19, <1>20, <1>21, <1>22, <1>23, <1>24, SumGrown
  <2> QED BY <1>19, <2>1 DEF S
<1>14. SumFunctionOnSet(f, U \cup N) = SumFunctionOnSet(f, U) + SumFunctionOnSet(f, N)
  BY <1>7, <1>8, <1>12, SumUnion
<1>15. /\ SumFunctionOnSet(f, U) \in Int /\ SumFunctionOnSet(f, N) \in Int
       /\ SumFunctionOnSet(b, DOMAIN blotter) \in Int
  BY <1>6, <1>7, <1>8, SumType
<1>16. Total(f, b) = SumFunctionOnSet(b, DOMAIN blotter)
                      + (SumFunctionOnSet(f, U) + SumFunctionOnSet(f, N))
  BY <1>12, <1>14 DEF Total
<1>17. SumFunctionOnSet(c, DOMAIN blotter') + SumFunctionOnSet(f, U) = Total(f, b)
  BY <1>13, <1>15, <1>16
<1> QED BY <1>17 DEF U

LEMMA ExplainedReadPositions == ASSUME BrokerInv, Explained, ReadPositions PROVE Explained'
<1>1. /\ UNCHANGED <<orders, account>> /\ blotter' = blotter \o fills
  BY DEF ReadPositions, venueVars
<1>2. Paid' = Paid /\ \A s : Gained(s)' = Gained(s) BY <1>1 DEF Paid, Gained, Ids
<1>3. blotter \in Seq(Fill) /\ fills \in Seq(Fill) BY DEF BrokerInv, Typed
<1>4. /\ \A i \in DOMAIN blotter : i \in DOMAIN blotter' /\ blotter'[i] = blotter[i]
      /\ \A j \in DOMAIN fills : /\ Len(blotter) + j \in DOMAIN blotter'
                                 /\ blotter'[Len(blotter) + j] = fills[j]
  BY <1>1, <1>3
<1>5. ASSUME NEW j \in DOMAIN fills
      PROVE  /\ fills[j].id \in Ids /\ fills[j] = FillOf(fills[j].id)
  <2>1. fills[j].id \in Collected BY DEF Collected
  <2> QED BY <2>1 DEF BrokerInv, Lists, Noted
<1>6. ASSUME NEW j \in DOMAIN fills
      PROVE  /\ Signed(fills[j], fills[j].paid) = Paid[fills[j].id]
             /\ \A s : Bought(fills[j], s, fills[j].qty) = Gained(s)[fills[j].id]
  <2> DEFINE id == fills[j].id
  <2>1. id \in Ids /\ fills[j] = FillOf(id) BY <1>5
  <2>2. /\ FillOf(id).side = orders[id].side /\ FillOf(id).paid = orders[id].paid
        /\ FillOf(id).symbol = orders[id].symbol /\ FillOf(id).qty = orders[id].filled
    BY DEF FillOf
  <2> HIDE DEF id
  <2>3. Signed(fills[j], fills[j].paid) = Paid[id] BY <2>1, <2>2 DEF Paid, Signed
  <2>4. \A s : Bought(fills[j], s, fills[j].qty) = Gained(s)[id]
    BY <2>1, <2>2 DEF Gained, Bought, Signed
  <2> QED BY <2>3, <2>4 DEF id
<1>7. /\ \A id \in Ids : Paid[id] \in Int /\ \A s : Gained(s)[id] \in Int
      /\ \A i \in DOMAIN blotter : Spent[i] \in Int /\ \A s : Booked(s)[i] \in Int
  BY MeasureTypes
<1>8. Total(Paid, Spent)' = Total(Paid, Spent)
  <2> DEFINE c == Spent'
  <2>1. \A i \in DOMAIN blotter : c[i] = Spent[i] BY <1>4 DEF Spent
  <2>2. \A j \in DOMAIN fills : c[Len(blotter) + j] = Paid[fills[j].id]
    BY <1>4, <1>6 DEF Spent
  <2> HIDE DEF c
  <2>3. SumFunctionOnSet(c, DOMAIN blotter') + SumFunctionOnSet(Paid, Unreported')
          = Total(Paid, Spent)
    BY <1>7, <2>1, <2>2, Reporting
  <2> QED BY <1>2, <2>3 DEF Total, c
<1>9. ASSUME NEW s \in Symbols
      PROVE  Total(Gained(s), Booked(s))' = Total(Gained(s), Booked(s))
  <2> DEFINE f == Gained(s)
             b == Booked(s)
             c == Booked(s)'
  <2>1. \A i \in DOMAIN blotter : c[i] = b[i] /\ b[i] \in Int BY <1>4, <1>7 DEF Booked
  <2>2. \A j \in DOMAIN fills : c[Len(blotter) + j] = f[fills[j].id]
    BY <1>4, <1>6 DEF Booked
  <2>3. \A id \in Ids : f[id] \in Int BY <1>7
  <2> HIDE DEF f, b, c
  <2>4. SumFunctionOnSet(c, DOMAIN blotter') + SumFunctionOnSet(f, Unreported') = Total(f, b)
    BY <2>1, <2>2, <2>3, Reporting
  <2> QED BY <1>2, <2>4 DEF Total, f, b, c
<1> QED BY <1>1, <1>8, <1>9, ExplainedSame

(* A new order has moved nothing yet, told or not.                           *)
LEMMA ExplainedNewOrder ==
  ASSUME BrokerInv, Explained, NEW ask \in Asks, orders' = Append(orders, Placed(Trim(ask))),
         UNCHANGED <<account, fills, blotter>>,
         \/ /\ ours' = Append(ours, Len(orders) + 1) /\ pending' = Append(pending, Len(orders) + 1)
         \/ UNCHANGED <<ours, pending>>
  PROVE  Explained'
<1> DEFINE id == Len(orders) + 1
<1>1. /\ DOMAIN orders' = DOMAIN orders \cup {id} /\ id \in Nat /\ id \notin DOMAIN orders
      /\ \A i \in DOMAIN orders : orders'[i] = orders[i]
      /\ orders'[id] = Placed(Trim(ask))
  BY PlacedOrder
<1>2. orders'[id].filled = 0 /\ orders'[id].paid = 0 BY <1>1 DEF Placed
<1>3. ours \in Seq(Nat) /\ pending \in Seq(Nat) BY DEF BrokerInv, Typed
<1>4. Range(ours) \subseteq Ids /\ Range(pending) \subseteq Range(ours) BY DEF BrokerInv, Lists
<1>5. ours' = Append(ours, id) \/ ours' = ours OBVIOUS
<1> HIDE DEF id
<1>16. \A q \in Seq(Nat) : Range(Append(q, id)) = Range(q) \cup {id} BY <1>1, AppendRange
<1>6. Ids' = Ids \cup {id} /\ id \notin Ids BY <1>1 DEF Ids
<1>7. Collected' = Collected BY DEF Collected
<1>8. Unreported' = Unreported \cup {id}
  <2>1. CASE ours' = Append(ours, id) /\ pending' = Append(pending, id)
    <3>1. Range(ours') = Range(ours) \cup {id} BY <1>3, <1>16, <2>1
    <3>2. Range(pending') = Range(pending) \cup {id} BY <1>3, <1>16, <2>1
    <3> QED BY <1>6, <1>7, <3>1, <3>2 DEF Unreported
  <2>2. CASE UNCHANGED <<ours, pending>>
    BY <1>4, <1>6, <1>7, <2>2 DEF Unreported
  <2> QED BY <2>1, <2>2 DEF id
<1>9. /\ IsFiniteSet(Unreported) /\ Unreported \subseteq Ids
      /\ \A i \in Ids : Paid[i] \in Int /\ \A s : Gained(s)[i] \in Int
      /\ SumFunctionOnSet(Paid, Unreported) \in Int
      /\ \A s : SumFunctionOnSet(Gained(s), Unreported) \in Int
  BY MeasureTypes
<1>10. Spent' = Spent /\ \A s : Booked(s)' = Booked(s) BY DEF Spent, Booked
<1>11. Paid'[id] = 0 /\ \A i \in Ids : Paid'[i] = Paid[i]
  BY <1>1, <1>2, <1>6 DEF Paid, Ids, Signed
<1>12. \A s : Gained(s)'[id] = 0 /\ \A i \in Ids : Gained(s)'[i] = Gained(s)[i]
  BY <1>1, <1>2, <1>6 DEF Gained, Ids, Bought, Signed
<1>13. ASSUME NEW f, NEW g, \A i \in Ids : f[i] \in Int /\ g[i] = f[i], g[id] = 0
       PROVE  SumFunctionOnSet(g, Unreported') = SumFunctionOnSet(f, Unreported)
  <2>1. \A i \in Unreported : f[i] \in Int /\ g[i] = f[i] BY <1>9, <1>13
  <2>2. \A i \in Unreported \cup {id} : g[i] \in Int BY <1>13, <2>1
  <2>3. id \notin Unreported BY <1>6, <1>9
  <2>4. SumFunctionOnSet(g, Unreported \cup {id}) = SumFunctionOnSet(g, Unreported) + g[id]
    BY <1>9, <2>2, <2>3, SumAdd
  <2>5. SumFunctionOnSet(g, Unreported) = SumFunctionOnSet(f, Unreported)
    BY <1>9, <2>1, SumSame
  <2>6. SumFunctionOnSet(f, Unreported) \in Int BY <1>9, <2>1, SumType
  <2> QED BY <1>8, <1>13, <2>4, <2>5, <2>6
<1>14. SumFunctionOnSet(Paid', Unreported') = SumFunctionOnSet(Paid, Unreported)
  BY <1>9, <1>11, <1>13
<1>15. ASSUME NEW s \in Symbols
       PROVE  SumFunctionOnSet(Gained(s)', Unreported') = SumFunctionOnSet(Gained(s), Unreported)
  <2> DEFINE f == Gained(s)
             g == Gained(s)'
  <2>1. (\A i \in Ids : f[i] \in Int /\ g[i] = f[i]) /\ g[id] = 0 BY <1>9, <1>12
  <2> HIDE DEF f, g
  <2>2. SumFunctionOnSet(g, Unreported') = SumFunctionOnSet(f, Unreported) BY <1>13, <2>1
  <2> QED BY <2>2 DEF f, g
<1> QED BY <1>10, <1>14, <1>15 DEF Explained, Total

LEMMA ExplainedInit == Init => Explained
<1> SUFFICES ASSUME Init PROVE Explained
  OBVIOUS
<1>1. BrokerInv BY BrokerInit
<1>2. /\ account.cash = Cash /\ account.qty = Holdings /\ blotter = <<>>
      /\ orders \in Inherited
  BY DEF Init
<1>3. ASSUME NEW id \in Ids PROVE orders[id].filled = 0 /\ orders[id].paid = 0
  <2>1. orders[id] = Placed(orders[id]) BY <1>2, BrokerAssumption DEF Ids
  <2> QED BY <2>1 DEF Placed
<1>4. IsFiniteSet(Unreported) /\ Unreported \subseteq Ids BY <1>1, MeasureTypes
<1>5. DOMAIN blotter = {} BY <1>2, EmptyList
<1>6. \A f, b : (\A id \in Unreported : f[id] = 0) => Total(f, b) = 0
  <2>1. SUFFICES ASSUME NEW f, NEW b, \A id \in Unreported : f[id] = 0 PROVE Total(f, b) = 0
    OBVIOUS
  <2>2. SumFunctionOnSet(f, Unreported) = 0 BY <1>4, <2>1, SumZero
  <2>3. SumFunctionOnSet(b, DOMAIN blotter) = 0 BY <1>5, SumEmpty
  <2> QED BY <2>2, <2>3 DEF Total
<1>7. Total(Paid, Spent) = 0
  <2>1. \A id \in Unreported : Paid[id] = 0 BY <1>3, <1>4 DEF Paid, Signed
  <2> QED BY <1>6, <2>1
<1>8. ASSUME NEW s \in Symbols PROVE Total(Gained(s), Booked(s)) = 0
  <2>1. \A id \in Unreported : Gained(s)[id] = 0 BY <1>3, <1>4 DEF Gained, Bought, Signed
  <2> QED BY <1>6, <2>1
<1>9. Cash \in Int /\ \A s \in Symbols : Holdings[s] \in Int BY BrokerAssumption
<1> QED BY <1>2, <1>7, <1>8, <1>9 DEF Explained

LEMMA ExplainedSubmit ==
  ASSUME BrokerInv, Explained, NEW ask \in Asks, Submit(ask) \/ SubmitFails(ask)
  PROVE  Explained'
<1>1. UNCHANGED <<fills, blotter>>
  BY SubmitShape DEF SubmitFails, Asking, barVars
<1>2. \/ UNCHANGED <<account, orders, pending, ours>>
      \/ /\ orders' = Append(orders, Placed(Trim(ask))) /\ UNCHANGED account
         /\ \/ /\ ours' = Append(ours, Len(orders) + 1)
               /\ pending' = Append(pending, Len(orders) + 1)
            \/ UNCHANGED <<ours, pending>>
  <2>1. CASE Submit(ask)
    <3>1. CASE \E why \in {"duplicate", "oversell", "venue"} : Refuse(Trim(ask), why)
      BY <3>1 DEF Refuse, venueVars
    <3>2. CASE Place(Trim(ask)) BY <3>2 DEF Place
    <3> QED BY <2>1, <3>1, <3>2, SubmitShape
  <2>2. CASE SubmitFails(ask) BY <2>2 DEF SubmitFails
  <2> QED BY <2>1, <2>2
<1>3. CASE UNCHANGED <<account, orders, pending, ours>>
  <2>1. Unreported' = Unreported BY <1>1, <1>3 DEF Unreported, Ids, Collected
  <2> QED BY <1>1, <1>3, <2>1, ExplainedUntouched
<1>4. CASE /\ orders' = Append(orders, Placed(Trim(ask))) /\ UNCHANGED account
           /\ \/ /\ ours' = Append(ours, Len(orders) + 1)
                 /\ pending' = Append(pending, Len(orders) + 1)
              \/ UNCHANGED <<ours, pending>>
  BY <1>1, <1>4, ExplainedNewOrder
<1> QED BY <1>2, <1>3, <1>4

(* A settled order is still on the list of the bar it settles in.            *)
LEMMA ExplainedSettle == ASSUME BrokerInv, Explained, Settle PROVE Explained'
<1>1. /\ UNCHANGED <<orders, account, ours, pending, blotter>> /\ phase = "poll" /\ todo # <<>>
  BY SettleShape
<1>2. Head(todo) \in Range(pending) BY <1>1, NextPolled
<1>3. Collected' \subseteq Collected \cup {Head(todo)} /\ Collected \subseteq Collected'
  <2>1. fills \in Seq(Fill) BY DEF BrokerInv, Typed
  <2>2. CASE fills' = fills BY <2>2 DEF Collected
  <2>3. CASE fills' = Append(fills, FillOf(Head(todo))) /\ FillOf(Head(todo)) \in Fill
    <3> DEFINE n == Len(fills) + 1
    <3>1. /\ DOMAIN fills' = DOMAIN fills \cup {n} /\ fills'[n] = FillOf(Head(todo))
          /\ \A i \in DOMAIN fills : fills'[i] = fills[i] /\ i # n
      BY <2>1, <2>3
    <3>2. FillOf(Head(todo)).id = Head(todo) BY DEF FillOf
    <3> QED BY <3>1, <3>2 DEF Collected
  <2> QED BY <2>2, <2>3, SettledOrder
<1>4. Unreported' = Unreported BY <1>1, <1>2, <1>3 DEF Unreported, Ids
<1> QED BY <1>1, <1>4, ExplainedUntouched

LEMMA ExplainedStep == BrokerInv /\ Explained /\ [Next]_vars => Explained'
<1> SUFFICES ASSUME BrokerInv, Explained, [Next]_vars PROVE Explained'
  OBVIOUS
<1>1. CASE \E id \in DOMAIN orders : Venue(id) BY <1>1, ExplainedVenue
<1>2. CASE UNCHANGED <<account, orders, blotter, ours, pending, fills>>
  <2>1. Unreported' = Unreported BY <1>2 DEF Unreported, Ids, Collected
  <2> QED BY <1>2, <2>1, ExplainedUntouched
<1>3. CASE StartBar \/ Retry \/ BarFails
  <2>1. UNCHANGED <<account, orders, blotter, ours, pending, fills>>
    BY <1>3 DEF StartBar, Retry, BarFails, venueVars, brokerVars, barVars
  <2> QED BY <1>2, <2>1
<1>4. CASE Settle BY <1>4, ExplainedSettle
<1>5. CASE ReadCash BY <1>5, ExplainedReadCash
<1>6. CASE ReadPositions BY <1>6, ExplainedReadPositions
<1>7. CASE \E ask \in Asks : Submit(ask) \/ SubmitFails(ask) BY <1>7, ExplainedSubmit
<1>8. CASE UNCHANGED vars BY <1>2, <1>8 DEF vars, venueVars, brokerVars, barVars
<1> QED BY <1>1, <1>3, <1>4, <1>5, <1>6, <1>7, <1>8 DEF Next, OnBar

LEMMA ExplainedAlways == Spec => []Explained
BY ExplainedInit, ExplainedStep, BrokerAlways, PTL DEF Spec

(* Whatever happened at the account - orders polled over several bars,       *)
(* filled in parts, ended half-way - the blotter and the orders on_bar has   *)
(* yet to report explain exactly, each fill booked once (on_bar, _to_fill).  *)
THEOREM BlotterCorrect == Spec => []BlotterExplainsAccount
BY ExplainedIs, BrokerAlways, ExplainedAlways, PTL

-----------------------------------------------------------------------------
(* What the blotter tells *)

(* What the blotter tells is told for good, and an order that ended before   *)
(* on_bar was through with it is on the list of rejections.                  *)
Told ==
  /\ \A i \in DOMAIN blotter : blotter[i].id \in Range(ours) \ Range(pending)
  /\ phase = "poll" =>
       \A id \in Range(pending) \ UnderWay : orders[id].status = "ended" => WasEnded(id)

LEMMA ToldInit == Init => Told
BY EmptyList DEF Init, Told, UnderWay

LEMMA ToldVenue ==
  ASSUME BrokerInv, Told, NEW id \in DOMAIN orders, Venue(id) PROVE Told'
<1>1. UNCHANGED <<phase, pending, rejections, todo, stillPending, fills, blotter, ours>>
  BY VenueShape
<1>2. UNCHANGED UnderWay /\ \A i : UNCHANGED WasEnded(i) BY <1>1 DEF UnderWay, WasEnded
<1>3. ASSUME phase = "poll", NEW i \in Range(pending) \ UnderWay, orders'[i].status = "ended"
      PROVE  orders[i].status = "ended"
  <2>1. i \in Ids /\ ~IsLive(i) BY <1>3 DEF BrokerInv, Lists, Noted, IsLive
  <2>2. orders \in Seq(VenueOrder) /\ orders[i] \in VenueOrder
    BY <2>1 DEF BrokerInv, Typed, Ids
  <2>3. CASE Execute(id)
    <3>1. orders[id].status = "working" /\ \A j \in DOMAIN orders : j # id => orders'[j] = orders[j]
      BY <2>3, ExecuteShape
    <3> QED BY <1>3, <2>1, <3>1 DEF IsLive, Ids
  <2>4. CASE PublishPrice(id)
    <3>1. orders' = [orders EXCEPT ![id].priced = TRUE] BY <2>4 DEF PublishPrice
    <3> QED BY <1>3, <2>1, <2>2, <3>1 DEF Ids, VenueOrder
  <2>5. CASE EndOrder(id)
    <3>1. orders' = [orders EXCEPT ![id].status = "ended"] /\ orders[id].status = "working"
      BY <2>5 DEF EndOrder
    <3>2. i # id BY <2>1, <3>1 DEF IsLive
    <3> QED BY <1>3, <2>1, <2>2, <3>1, <3>2 DEF Ids
  <2> QED BY <2>3, <2>4, <2>5 DEF Venue
<1> QED BY <1>1, <1>2, <1>3 DEF Told

LEMMA ToldSettle == ASSUME BrokerInv, Told, Settle PROVE Told'
<1> DEFINE id == Head(todo)
<1>1. /\ UNCHANGED <<orders, ours, pending, stillPending, blotter>>
      /\ phase = "poll" /\ phase' = "poll" /\ todo # <<>> /\ todo' = Tail(todo)
  BY SettleShape
<1>2. Range(todo) = {id} \cup Range(Tail(todo)) /\ id \in DOMAIN requested
  BY <1>1, NextPolled
<1>3. rejections \in Seq(Rejection) BY DEF BrokerInv, Typed
<1>4. \A i : WasEnded(i) \/ (i = id /\ orders[id].status = "ended") => WasEnded(i)'
  <2>1. CASE rejections' = rejections /\ orders[id].status = "filled"
    <3>1. orders[id].status # "ended" BY <2>1
    <3> HIDE DEF id
    <3> QED BY <2>1, <3>1 DEF WasEnded
  <2>2. CASE rejections' = Append(rejections,
                                  [order |-> requested[id], id |-> id, why |-> "ended"])
    <3> DEFINE n == Len(rejections) + 1
    <3> HIDE DEF id
    <3>1. /\ n \in DOMAIN rejections' /\ rejections'[n].id = id
          /\ \A i \in DOMAIN rejections : i \in DOMAIN rejections' /\ rejections'[i] = rejections[i]
      BY <1>3, <2>2
    <3> QED BY <3>1 DEF WasEnded
  <2>3. rejections' = IF orders[id].status = "filled" THEN rejections
                      ELSE Append(rejections,
                                  [order |-> requested[id], id |-> id, why |-> "ended"])
    BY DEF Settle
  <2> QED BY <2>1, <2>2, <2>3
<1>5. UnderWay \ {id} \subseteq UnderWay' BY <1>1, <1>2 DEF UnderWay
<1> HIDE DEF id
<1>6. ASSUME NEW i \in Range(pending) \ UnderWay', orders[i].status = "ended"
      PROVE  WasEnded(i)'
  <2>1. CASE i = id BY <1>4, <1>6, <2>1
  <2>2. CASE i # id
    <3>1. i \notin UnderWay BY <1>5, <1>6, <2>2
    <3>2. WasEnded(i) BY <1>1, <1>6, <3>1 DEF Told
    <3> QED BY <1>4, <3>2
  <2> QED BY <2>1, <2>2
<1> QED BY <1>1, <1>6 DEF Told

LEMMA ToldReadPositions == ASSUME BrokerInv, Told, ReadPositions PROVE Told'
<1>1. /\ phase = "positions" /\ phase' = "submit" /\ blotter' = blotter \o fills
      /\ UNCHANGED <<ours, pending>>
  BY DEF ReadPositions
<1>2. blotter \in Seq(Fill) /\ fills \in Seq(Fill) BY DEF BrokerInv, Typed
<1>3. \A j \in DOMAIN fills : fills[j].id \in Range(ours) \ Range(pending)
  BY <1>1 DEF BrokerInv, Noted, Collected, UnderWay
<1>4. ASSUME NEW i \in DOMAIN blotter'
      PROVE  \/ i \in DOMAIN blotter /\ blotter'[i] = blotter[i]
             \/ \E j \in DOMAIN fills : blotter'[i] = fills[j]
  <2>1. /\ DOMAIN blotter = 1..Len(blotter) /\ DOMAIN fills = 1..Len(fills)
        /\ i \in 1..(Len(blotter) + Len(fills)) /\ Len(blotter) \in Nat /\ Len(fills) \in Nat
    BY <1>1, <1>2, <1>4
  <2>2. CASE i <= Len(blotter) BY <1>1, <1>2, <2>1, <2>2
  <2>3. CASE i > Len(blotter)
    <3>1. i - Len(blotter) \in DOMAIN fills BY <2>1, <2>3
    <3>2. blotter'[i] = fills[i - Len(blotter)] BY <1>1, <1>2, <2>1, <2>3
    <3> QED BY <3>1, <3>2
  <2> QED BY <2>1, <2>2, <2>3
<1> QED BY <1>1, <1>3, <1>4 DEF Told

LEMMA ToldSubmit == ASSUME BrokerInv, Told, NEW ask \in Asks, Submit(ask) PROVE Told'
<1>1. phase = "submit" /\ phase' = "submit" /\ blotter' = blotter
  BY SubmitShape DEF Asking
<1>2. /\ ours \in Seq(Nat) /\ pending \in Seq(Nat) /\ orders \in Seq(VenueOrder)
      /\ Range(ours) \subseteq Ids
  BY DEF BrokerInv, Typed, Lists
<1>3. CASE UNCHANGED <<pending, ours>> BY <1>1, <1>3 DEF Told
<1>4. CASE Place(Trim(ask))
  <2> DEFINE id == Len(orders) + 1
  <2>1. ours' = Append(ours, id) /\ pending' = Append(pending, id) BY <1>4 DEF Place
  <2>2. id \in Nat /\ id \notin Ids BY <1>2 DEF Ids
  <2> HIDE DEF id
  <2>3. Range(ours') = Range(ours) \cup {id} /\ Range(pending') = Range(pending) \cup {id}
    BY <1>2, <2>1, <2>2, AppendId
  <2> QED BY <1>1, <1>2, <2>2, <2>3 DEF Told
<1> QED BY <1>3, <1>4, SubmitShape DEF Refuse

LEMMA ToldStep == BrokerInv /\ Told /\ [Next]_vars => Told'
<1> SUFFICES ASSUME BrokerInv, Told, [Next]_vars PROVE Told'
  OBVIOUS
<1>1. CASE \E id \in DOMAIN orders : Venue(id) BY <1>1, ToldVenue
<1>2. CASE StartBar
  <2>1. todo' = pending /\ UNCHANGED <<pending, blotter, ours>> /\ phase' = "poll"
    BY <1>2 DEF StartBar, brokerVars
  <2>2. Range(pending)' \subseteq UnderWay' BY <2>1 DEF UnderWay
  <2> QED BY <2>1, <2>2 DEF Told
<1>3. CASE Retry
  <2>1. /\ phase = "poll" /\ phase' = "poll" /\ todo # <<>> /\ todo' = Tail(todo)
        /\ stillPending' = Append(stillPending, Head(todo))
        /\ UNCHANGED <<orders, pending, blotter, ours, rejections>>
    BY <1>3 DEF Retry, venueVars, brokerVars
  <2>2. /\ Head(todo) \in Nat /\ Range(todo) = {Head(todo)} \cup Range(Tail(todo))
    BY <2>1, NextPolled
  <2>3. stillPending \in Seq(Nat) BY DEF BrokerInv, Typed
  <2>4. Range(stillPending') = Range(stillPending) \cup {Head(todo)}
    BY <2>1, <2>2, <2>3, AppendRange
  <2>5. UnderWay' = UnderWay BY <2>1, <2>2, <2>4 DEF UnderWay
  <2>6. \A i : UNCHANGED WasEnded(i) BY <2>1 DEF WasEnded
  <2> QED BY <2>1, <2>5, <2>6 DEF Told
<1>4. CASE Settle BY <1>4, ToldSettle
<1>5. CASE ReadCash
  <2>1. /\ phase' = "positions" /\ pending' = stillPending /\ UNCHANGED <<blotter, ours>>
    BY <1>5 DEF ReadCash
  <2>2. Range(stillPending) \subseteq Range(pending) BY DEF BrokerInv, Lists
  <2> QED BY <2>1, <2>2 DEF Told
<1>6. CASE ReadPositions BY <1>6, ToldReadPositions
<1>7. CASE \E ask \in Asks : Submit(ask) BY <1>7, ToldSubmit
<1>8. CASE BarFails \/ \E ask \in Asks : SubmitFails(ask)
  <2>1. phase' = "over" /\ UNCHANGED <<blotter, ours, pending>>
    BY <1>8 DEF BarFails, SubmitFails, Asking, brokerVars
  <2> QED BY <2>1 DEF Told
<1>9. CASE UNCHANGED vars
  <2>1. UNCHANGED <<phase, orders, pending, rejections, todo, stillPending, blotter, ours>>
    BY <1>9 DEF vars, venueVars, brokerVars, barVars
  <2>2. UNCHANGED UnderWay /\ \A i : UNCHANGED WasEnded(i) BY <2>1 DEF UnderWay, WasEnded
  <2> QED BY <2>1, <2>2 DEF Told
<1> QED BY <1>1, <1>2, <1>3, <1>4, <1>5, <1>6, <1>7, <1>8, <1>9 DEF Next, OnBar

LEMMA ToldAlways == Spec => []Told
BY ToldInit, ToldStep, BrokerAlways, PTL DEF Spec

-----------------------------------------------------------------------------
(* The engine's protocol *)

(* What the blotter and the bar under way say an order got.                  *)
ReportedQty == [i \in DOMAIN Reported |-> Reported[i].qty]
Got(id) == SumFunctionOnSet(ReportedQty, Reports(id))

LEMMA OutcomeIs ==
  ASSUME NEW id
  PROVE  Outcome(id) = [qty |-> orders[id].qty,
                        state |-> IF id \in Range(pending) THEN "open"
                                  ELSE IF WasEnded(id) THEN "ended" ELSE "done",
                        filled |-> IF id \in Range(pending) THEN 0 ELSE Got(id)]
BY DEF Outcome, Got, ReportedQty

LEMMA ReportedShape ==
  ASSUME BrokerInv
  PROVE  /\ Reported \in Seq(Fill) /\ DOMAIN Reported = 1..(Len(blotter) + Len(fills))
         /\ DOMAIN blotter = 1..Len(blotter) /\ DOMAIN fills = 1..Len(fills)
         /\ Len(blotter) \in Nat /\ Len(fills) \in Nat
         /\ \A i \in DOMAIN blotter : i \in DOMAIN Reported /\ Reported[i] = blotter[i]
         /\ \A j \in DOMAIN fills : /\ Len(blotter) + j \in DOMAIN Reported
                                    /\ Reported[Len(blotter) + j] = fills[j]
         /\ \A i \in DOMAIN Reported : i \notin DOMAIN blotter => i - Len(blotter) \in DOMAIN fills
         /\ \A i \in DOMAIN Reported : ReportedQty[i] \in Int
         /\ \A id : Reports(id) \subseteq DOMAIN Reported /\ IsFiniteSet(Reports(id))
<1>1. blotter \in Seq(Fill) /\ fills \in Seq(Fill) BY DEF BrokerInv, Typed
<1>2. /\ Reported \in Seq(Fill) /\ DOMAIN Reported = 1..(Len(blotter) + Len(fills))
      /\ DOMAIN blotter = 1..Len(blotter) /\ DOMAIN fills = 1..Len(fills)
      /\ Len(blotter) \in Nat /\ Len(fills) \in Nat
  BY <1>1 DEF Reported
<1>3. \A i \in DOMAIN blotter : i \in DOMAIN Reported /\ Reported[i] = blotter[i]
  BY <1>1, <1>2 DEF Reported
<1>4. \A j \in DOMAIN fills : /\ Len(blotter) + j \in DOMAIN Reported
                              /\ Reported[Len(blotter) + j] = fills[j]
  BY <1>1, <1>2 DEF Reported
<1>5. \A i \in DOMAIN Reported : i \notin DOMAIN blotter => i - Len(blotter) \in DOMAIN fills
  BY <1>2
<1>6. ASSUME NEW i \in DOMAIN Reported PROVE ReportedQty[i] \in Int
  <2>1. Reported[i] \in Fill BY <1>2
  <2> QED BY <2>1 DEF ReportedQty, Fill
<1>7. ASSUME NEW id PROVE Reports(id) \subseteq DOMAIN Reported /\ IsFiniteSet(Reports(id))
  <2>1. IsFiniteSet(DOMAIN Reported) 
    <3>1. Len(blotter) + Len(fills) \in Int BY <1>2
    <3> QED BY <1>2, <3>1, FS_Interval
  <2>2. Reports(id) \subseteq DOMAIN Reported BY DEF Reports
  <2> QED BY <2>1, <2>2, FS_Subset
<1> QED BY <1>2, <1>3, <1>4, <1>5, <1>6, <1>7

(* An order on_bar is through with was reported for what the venue filled.   *)
LEMMA SettledIsReported ==
  ASSUME BrokerInv, Told, phase = "poll", NEW id \in Range(pending) \ UnderWay
  PROVE  /\ Got(id) = orders[id].filled
         /\ ~WasEnded(id) => orders[id].filled = orders[id].qty
         /\ orders[id].filled \in 0..orders[id].qty /\ orders[id].qty \in Nat
<1>1. /\ Reported \in Seq(Fill)
      /\ \A i \in DOMAIN blotter : Reported[i] = blotter[i]
      /\ \A j \in DOMAIN fills : /\ Len(blotter) + j \in DOMAIN Reported
                                 /\ Reported[Len(blotter) + j] = fills[j]
      /\ \A i \in DOMAIN Reported : i \notin DOMAIN blotter => i - Len(blotter) \in DOMAIN fills
      /\ \A i \in DOMAIN Reported : ReportedQty[i] \in Int
      /\ DOMAIN Reported = 1..(Len(blotter) + Len(fills))
      /\ Len(blotter) \in Nat /\ Len(fills) \in Nat
  BY ReportedShape
<1>2. id \in Ids /\ ~IsLive(id)
      /\ (id \in Collected \/ (orders[id].status = "ended" /\ orders[id].filled = 0))
  BY DEF BrokerInv, Lists, Noted, IsLive
<1>3. orders[id] \in VenueOrder /\ Sound(orders[id])
  BY <1>2 DEF BrokerInv, Typed, OrdersSound, Ids
<1>4. /\ orders[id].filled \in 0..orders[id].qty /\ orders[id].qty \in Nat /\ orders[id].filled \in Nat
  BY <1>3 DEF VenueOrder, Sound
<1>5. ~WasEnded(id) => orders[id].filled = orders[id].qty
  <2>1. ~WasEnded(id) => orders[id].status = "filled"
    BY <1>2, <1>3 DEF Told, IsLive, VenueOrder
  <2> QED BY <1>3, <2>1 DEF Sound
<1>6. ASSUME NEW i \in Reports(id)
      PROVE  \E j \in DOMAIN fills : i = Len(blotter) + j /\ fills[j].id = id
  <2>1. i \in DOMAIN Reported /\ Reported[i].id = id BY <1>6 DEF Reports
  <2>2. i \notin DOMAIN blotter
    <3>1. i \in DOMAIN blotter => blotter[i].id = id BY <1>1, <2>1
    <3> QED BY <3>1 DEF Told
  <2>3. i - Len(blotter) \in DOMAIN fills BY <1>1, <2>1, <2>2
  <2>4. i = Len(blotter) + (i - Len(blotter)) BY <1>1, <2>1
  <2>5. Reported[i] = fills[i - Len(blotter)] BY <1>1, <2>3, <2>4
  <2> QED BY <2>1, <2>3, <2>4, <2>5
<1>7. CASE id \in Collected
  <2>1. PICK j \in DOMAIN fills : fills[j].id = id BY <1>7 DEF Collected
  <2> DEFINE k == Len(blotter) + j
  <2>2. /\ \A i \in DOMAIN fills : fills[i].id = id => i = j
        /\ fills[j] = FillOf(id)
    BY <2>1 DEF BrokerInv, Noted
  <2>3. k \in DOMAIN Reported /\ Reported[k] = fills[j] BY <1>1
  <2> HIDE DEF k
  <2>4. Reports(id) = {k}
    <3>1. k \in Reports(id) BY <2>1, <2>3 DEF Reports
    <3>2. \A i \in Reports(id) : i = k BY <1>6, <2>2 DEF k
    <3> QED BY <3>1, <3>2
  <2>5. ReportedQty[k] = orders[id].filled BY <2>2, <2>3 DEF ReportedQty, FillOf
  <2> DEFINE S == {}
  <2>6. IsFiniteSet(S) /\ k \notin S /\ S \cup {k} = {k} /\ \A i \in S \cup {k} : ReportedQty[i] \in Int
    BY <1>4, <2>5, FS_EmptySet
  <2>7. SumFunctionOnSet(ReportedQty, S) = 0 BY SumEmpty
  <2> HIDE DEF S
  <2>8. SumFunctionOnSet(ReportedQty, S \cup {k}) = SumFunctionOnSet(ReportedQty, S) + ReportedQty[k]
    BY <2>6, SumAdd
  <2>9. Got(id) = orders[id].filled BY <1>4, <2>4, <2>5, <2>6, <2>7, <2>8 DEF Got
  <2> QED BY <1>4, <1>5, <2>9
<1>8. CASE id \notin Collected
  <2>1. Reports(id) = {} BY <1>6, <1>8 DEF Collected
  <2>2. Got(id) = 0 BY <2>1, SumEmpty DEF Got
  <2> QED BY <1>2, <1>4, <1>5, <1>8, <2>2
<1> QED BY <1>7, <1>8

-----------------------------------------------------------------------------
(* The refinement: the outcomes of the orders the session was told of, and   *)
(* the refusals.                                                             *)
Book == [i \in DOMAIN ours |-> Outcome(ours[i])]
Refusals == {i \in DOMAIN rejections : rejections[i].id = None}
Refused == Cardinality(Refusals)

(* An outcome that nothing it is made of changes.                            *)
LEMMA SameOutcome ==
  ASSUME NEW id, orders'[id].qty = orders[id].qty,
         (id \in Range(pending)) = (id \in Range(pending')),
         \/ id \in Range(pending)
         \/ WasEnded(id)' = WasEnded(id) /\ Got(id)' = Got(id)
  PROVE  Outcome(id)' = Outcome(id)
BY DEF Outcome, Got, ReportedQty

LEMMA SameGot == ASSUME NEW id, Reported' = Reported PROVE Got(id)' = Got(id)
BY DEF Got, ReportedQty, Reports

(* The outcomes stay, and so does the book.                                  *)
LEMMA SameBook ==
  ASSUME ours' = ours, \A id \in Range(ours) : Outcome(id)' = Outcome(id)
  PROVE  Book' = Book
<1>1. ASSUME NEW i \in DOMAIN ours PROVE Book'[i] = Book[i]
  <2> DEFINE id == ours[i]
  <2>1. id \in Range(ours) BY DEF Range
  <2>2. Book[i] = Outcome(id) BY DEF Book
  <2> QED BY <2>1, <2>2 DEF Book
<1>2. /\ Book = [i \in DOMAIN ours |-> Book[i]] /\ Book' = [i \in DOMAIN ours |-> Book'[i]]
  BY DEF Book
<1> QED BY <1>1, <1>2

(* The steps that the engine does not see.                                   *)
LEMMA SameRefused == ASSUME rejections' = rejections PROVE Refused' = Refused
BY DEF Refused, Refusals

LEMMA HiddenVenue ==
  ASSUME BrokerInv, NEW id \in DOMAIN orders, Venue(id)
  PROVE  Book' = Book /\ Refused' = Refused
<1>1. UNCHANGED <<phase, pending, rejections, fills, blotter, ours>> BY VenueShape
<1>2. \A i \in Ids : orders'[i].qty = orders[i].qty
  <2>1. orders \in Seq(VenueOrder) /\ orders[id] \in VenueOrder BY DEF BrokerInv, Typed
  <2>2. CASE Execute(id)
    <3>1. /\ \A j \in DOMAIN orders : j # id => orders'[j] = orders[j]
          /\ orders'[id].qty = orders[id].qty
      BY <2>2, ExecuteShape
    <3> QED BY <3>1 DEF Ids
  <2>3. CASE PublishPrice(id)
    <3>1. orders' = [orders EXCEPT ![id].priced = TRUE] BY <2>3 DEF PublishPrice
    <3> QED BY <2>1, <3>1 DEF Ids, VenueOrder
  <2>4. CASE EndOrder(id)
    <3>1. orders' = [orders EXCEPT ![id].status = "ended"] BY <2>4 DEF EndOrder
    <3> QED BY <2>1, <3>1 DEF Ids, VenueOrder
  <2> QED BY <2>2, <2>3, <2>4 DEF Venue
<1>3. Reported' = Reported BY <1>1 DEF Reported
<1>4. ASSUME NEW i \in Range(ours) PROVE Outcome(i)' = Outcome(i)
  <2>1. i \in Ids BY DEF BrokerInv, Lists
  <2>2. WasEnded(i)' = WasEnded(i) BY <1>1 DEF WasEnded
  <2>3. Got(i)' = Got(i) BY <1>3, SameGot
  <2> QED BY <1>1, <1>2, <2>1, <2>2, <2>3, SameOutcome
<1> QED BY <1>1, <1>4, SameBook, SameRefused

(* Nothing an outcome is made of changes, or fills go from the bar's list to *)
(* the blotter.                                                              *)
LEMMA HiddenQuiet ==
  ASSUME UNCHANGED <<orders, pending, rejections, ours>>, Reported' = Reported
  PROVE  Book' = Book /\ Refused' = Refused
<1>1. ASSUME NEW i \in Range(ours) PROVE Outcome(i)' = Outcome(i)
  <2>1. WasEnded(i)' = WasEnded(i) BY DEF WasEnded
  <2>2. Got(i)' = Got(i) BY SameGot
  <2> QED BY <2>1, <2>2, SameOutcome
<1> QED BY <1>1, SameBook, SameRefused

LEMMA HiddenReadPositions ==
  ASSUME BrokerInv, ReadPositions PROVE Book' = Book /\ Refused' = Refused
<1>1. /\ UNCHANGED <<orders, pending, rejections, ours>>
      /\ blotter' = blotter \o fills /\ fills' = <<>>
  BY DEF ReadPositions, venueVars
<1>2. blotter \in Seq(Fill) /\ fills \in Seq(Fill) BY DEF BrokerInv, Typed
<1>3. Reported' = Reported
  <2>1. blotter \o fills \in Seq(Fill) BY <1>2
  <2>2. \A s \in Seq(Fill) : s \o <<>> = s OBVIOUS
  <2> QED BY <1>1, <2>1, <2>2 DEF Reported
<1> QED BY <1>1, <1>3, HiddenQuiet

(* Settling collects, but on_bar still has the order on its list.            *)
LEMMA HiddenSettle == ASSUME BrokerInv, Settle PROVE Book' = Book /\ Refused' = Refused
<1> DEFINE id == Head(todo)
           rejection == [order |-> requested[id], id |-> id, why |-> "ended"]
<1>1. /\ UNCHANGED <<orders, ours, pending, blotter>> /\ phase = "poll" /\ todo # <<>>
      /\ rejections \in Seq(Rejection) /\ blotter \in Seq(Fill) /\ fills \in Seq(Fill)
  BY SettleShape DEF BrokerInv, Typed
<1>2. id \in Range(pending) /\ id \in Nat BY <1>1, NextPolled
<1>3. rejections' = rejections \/ rejections' = Append(rejections, rejection)
  BY DEF Settle
<1>4. fills' = fills \/ (fills' = Append(fills, FillOf(id)) /\ FillOf(id) \in Fill)
  BY SettledOrder
<1>5. rejection.id = id /\ FillOf(id).id = id BY DEF FillOf
<1> HIDE DEF rejection, id
<1>6. /\ \A i \in DOMAIN rejections : i \in DOMAIN rejections' /\ rejections'[i] = rejections[i]
      /\ \A i \in DOMAIN rejections' : i \in DOMAIN rejections \/ rejections'[i].id = id
  <2>1. CASE rejections' = rejections BY <2>1
  <2>2. CASE rejections' = Append(rejections, rejection)
    <3> DEFINE n == Len(rejections) + 1
    <3>1. DOMAIN rejections' = DOMAIN rejections \cup {n} /\ rejections'[n] = rejection
          /\ \A i \in DOMAIN rejections : rejections'[i] = rejections[i]
      BY <1>1, <2>2
    <3> QED BY <1>5, <3>1
  <2> QED BY <1>3, <2>1, <2>2
<1>7. Refused' = Refused
  <2>1. id # None BY <1>2, BrokerAssumption
  <2>2. Refusals' = Refusals BY <1>6, <2>1 DEF Refusals
  <2> QED BY <2>2 DEF Refused
<1>8. /\ \A i \in DOMAIN Reported : i \in DOMAIN Reported' /\ Reported'[i] = Reported[i]
      /\ \A i \in DOMAIN Reported' : i \in DOMAIN Reported \/ Reported'[i].id = id
  <2>1. CASE fills' = fills BY <1>1, <2>1 DEF Reported
  <2>2. CASE fills' = Append(fills, FillOf(id)) /\ FillOf(id) \in Fill
    <3>1. Reported \in Seq(Fill) BY <1>1 DEF Reported
    <3>2. Reported' = Append(Reported, FillOf(id))
      <4>1. \A s, t \in Seq(Fill), e \in Fill : s \o Append(t, e) = Append(s \o t, e) OBVIOUS
      <4> QED BY <1>1, <2>2, <4>1 DEF Reported
    <3> DEFINE n == Len(Reported) + 1
    <3> HIDE DEF Reported
    <3>3. DOMAIN Reported' = DOMAIN Reported \cup {n} /\ Reported'[n] = FillOf(id)
          /\ \A i \in DOMAIN Reported : Reported'[i] = Reported[i]
      BY <2>2, <3>1, <3>2
    <3> QED BY <1>5, <3>3
  <2> QED BY <1>4, <2>1, <2>2
<1>9. ASSUME NEW i \in Range(ours), i \notin Range(pending)
      PROVE  WasEnded(i)' = WasEnded(i) /\ Got(i)' = Got(i)
  <2>1. i # id BY <1>2, <1>9
  <2>2. WasEnded(i)' = WasEnded(i) BY <1>6, <2>1 DEF WasEnded
  <2>3. Reports(i)' = Reports(i) BY <1>8, <2>1 DEF Reports
  <2>4. /\ IsFiniteSet(Reports(i)) /\ Reports(i) \subseteq DOMAIN Reported
        /\ \A k \in DOMAIN Reported : ReportedQty[k] \in Int
    BY ReportedShape
  <2>5. \A k \in Reports(i) : ReportedQty[k] \in Int /\ ReportedQty'[k] = ReportedQty[k]
    BY <1>8, <2>4 DEF ReportedQty
  <2>6. SumFunctionOnSet(ReportedQty', Reports(i)) = SumFunctionOnSet(ReportedQty, Reports(i))
    BY <2>4, <2>5, SumSame
  <2> QED BY <2>2, <2>3, <2>6 DEF Got
<1>10. ASSUME NEW i \in Range(ours) PROVE Outcome(i)' = Outcome(i)
  BY <1>1, <1>9, SameOutcome
<1> QED BY <1>1, <1>7, <1>10, SameBook

ProtocolQuantities == UNION {1..ask.qty : ask \in Asks}

LEMMA SettlementIs ==
  ASSUME NEW q, NEW w, NEW n, (w = "done" /\ n = q) \/ (w = "ended" /\ n \in 0..q)
  PROVE  [qty |-> q, state |-> w, filled |-> n] \in Protocol!Settlements(Protocol!Open(q))
<1> DEFINE o == Protocol!Open(q)
           X == {q, w, n, "open", 0}
           r == [o EXCEPT !.state = w, !.filled = n]
<1>1. q \in X /\ w \in X /\ n \in X /\ "open" \in X /\ 0 \in X OBVIOUS
<1> HIDE DEF X
<1>2. o \in [qty : X, state : X, filled : X] /\ o.qty = q BY <1>1 DEF Protocol!Open
<1> HIDE DEF o
<1>3. r \in [qty : X, state : X, filled : X] BY <1>1, <1>2
<1>4. r.qty = q /\ r.state = w /\ r.filled = n BY <1>2
<1>5. r \in Protocol!Settlements(o)
  <2>1. CASE w = "done" /\ n = q BY <1>2, <2>1 DEF Protocol!Settlements
  <2>2. CASE w = "ended" /\ n \in 0..q BY <1>2, <2>2 DEF Protocol!Settlements
  <2> QED BY <2>1, <2>2
<1> HIDE DEF r
<1>6. r = [qty |-> q, state |-> w, filled |-> n] BY <1>3, <1>4
<1> QED BY <1>5, <1>6 DEF o

(* on_bar lets go of what it is through with: those orders settle, each for  *)
(* what it was reported for.                                                 *)
LEMMA SettlesAtReadCash ==
  ASSUME BrokerInv, Told, ReadCash PROVE Protocol!OnBar
<1>1. /\ phase = "poll" /\ todo = <<>> /\ pending' = stillPending
      /\ UNCHANGED <<orders, rejections, ours, fills, blotter>>
  BY DEF ReadCash, venueVars
<1>2. UnderWay = Range(pending') BY <1>1, EmptyList DEF UnderWay
<1>3. Range(pending') \subseteq Range(pending) /\ Range(pending) \subseteq Range(ours)
  BY <1>1 DEF BrokerInv, Lists
<1>4. Reported' = Reported BY <1>1 DEF Reported
<1>5. \A id : WasEnded(id)' = WasEnded(id) BY <1>1 DEF WasEnded
<1>6. \A id : Got(id)' = Got(id) BY <1>4, SameGot
<1>7. Refused' = Refused BY <1>1, SameRefused
<1>8. ASSUME NEW id \in Range(ours), id \in Range(pending') \/ id \notin Range(pending)
      PROVE  Outcome(id)' = Outcome(id)
  <2>1. (id \in Range(pending)) = (id \in Range(pending')) BY <1>3, <1>8
  <2> QED BY <1>1, <1>5, <1>6, <2>1, SameOutcome
<1>9. ASSUME NEW id \in Range(pending) \ Range(pending')
      PROVE  /\ Outcome(id).state = "open" /\ Outcome(id)' \in Protocol!Settlements(Outcome(id))
  <2>1. /\ Got(id) = orders[id].filled
        /\ ~WasEnded(id) => orders[id].filled = orders[id].qty
        /\ orders[id].filled \in 0..orders[id].qty
    BY <1>1, <1>2, SettledIsReported
  <2>2. Outcome(id) = Protocol!Open(orders[id].qty) /\ Outcome(id).state = "open"
    BY OutcomeIs DEF Protocol!Open
  <2>3. Outcome(id)' = [qty |-> orders[id].qty,
                        state |-> IF WasEnded(id) THEN "ended" ELSE "done",
                        filled |-> orders[id].filled]
    BY <1>1, <1>5, <1>6, <2>1 DEF Outcome, Got, ReportedQty
  <2> DEFINE q == orders[id].qty
             n == orders[id].filled
  <2>6. Outcome(id) = Protocol!Open(q) BY <2>2
  <2> HIDE DEF q, n
  <2>4. CASE WasEnded(id)
    <3>1. Outcome(id)' = [qty |-> q, state |-> "ended", filled |-> n] BY <2>3, <2>4 DEF q, n
    <3>2. n \in 0..q BY <2>1 DEF q, n
    <3> QED BY <2>2, <2>6, <3>1, <3>2, SettlementIs
  <2>5. CASE ~WasEnded(id)
    <3>1. Outcome(id)' = [qty |-> q, state |-> "done", filled |-> q] BY <2>1, <2>3, <2>5 DEF q
    <3> QED BY <2>2, <2>6, <3>1, SettlementIs
  <2> QED BY <2>4, <2>5
<1>10. ASSUME NEW i \in DOMAIN Book
       PROVE  \/ Book'[i] = Book[i]
              \/ Book[i].state = "open" /\ Book'[i] \in Protocol!Settlements(Book[i])
  <2> DEFINE id == ours[i]
  <2>1. id \in Range(ours) /\ i \in DOMAIN ours BY <1>10 DEF Book, Range
  <2>2. Book[i] = Outcome(id) BY <2>1 DEF Book
  <2>3. PICK k : k = id OBVIOUS
  <2>4. Book'[i] = Outcome(k)' /\ Book[i] = Outcome(k) BY <1>1, <2>1, <2>2, <2>3 DEF Book
  <2>5. CASE k \in Range(pending) \ Range(pending') BY <1>9, <2>4, <2>5
  <2>6. CASE k \notin Range(pending) \ Range(pending')
    BY <1>8, <2>1, <2>3, <2>4, <2>6
  <2> QED BY <2>5, <2>6
<1>11. Len(Book') = Len(Book)
  <2>1. ours \in Seq(Nat) BY DEF BrokerInv, Typed
  <2>2. DOMAIN ours = 1..Len(ours) /\ Len(ours) \in Nat BY <2>1
  <2>3. DOMAIN Book = 1..Len(ours) /\ DOMAIN Book' = 1..Len(ours) BY <1>1, <2>2 DEF Book
  <2>4. Len(Book) = Len(ours) /\ Len(Book') = Len(ours) BY <2>2, <2>3
  <2> QED BY <2>4
<1> QED BY <1>7, <1>10, <1>11 DEF Protocol!OnBar, Book, Refused, Refusals

(* submit: the order is queued, or refused.                                  *)
LEMMA QueuesOrRefuses ==
  ASSUME BrokerInv, NEW ask \in Asks, Submit(ask)
  PROVE  \E qty \in ProtocolQuantities : Protocol!Submit(qty)
<1>1. /\ Trim(ask).qty \in ProtocolQuantities /\ ask.qty \in ProtocolQuantities
  <2>1. Trim(ask).qty \in 1..ask.qty /\ ask.qty \in Nat BY TrimShape
  <2>2. ask.qty \in 1..ask.qty BY <2>1
  <2> QED BY <2>1, <2>2 DEF ProtocolQuantities
<1>2. /\ ours \in Seq(Nat) /\ pending \in Seq(Nat) /\ orders \in Seq(VenueOrder)
      /\ rejections \in Seq(Rejection) /\ Range(ours) \subseteq Ids
      /\ Range(pending) \subseteq Range(ours)
  BY DEF BrokerInv, Typed, Lists
<1>3. Reported' = Reported BY SubmitShape DEF Asking, barVars, Reported
<1>4. ASSUME NEW why \in {"duplicate", "oversell", "venue"}, Refuse(Trim(ask), why)
      PROVE  Protocol!Submit(ask.qty)
  <2> DEFINE rejection == [order |-> Trim(ask), id |-> None, why |-> why]
             n == Len(rejections) + 1
  <2>1. UNCHANGED <<orders, pending, ours>> /\ rejections' = Append(rejections, rejection)
    BY <1>4 DEF Refuse, venueVars
  <2>2. rejection.id = None OBVIOUS
  <2> HIDE DEF rejection
  <2>3. /\ DOMAIN rejections' = DOMAIN rejections \cup {n} /\ n \notin DOMAIN rejections
        /\ rejections'[n] = rejection
        /\ \A i \in DOMAIN rejections : rejections'[i] = rejections[i]
    BY <1>2, <2>1
  <2>4. IsFiniteSet(Refusals)
    <3>1. DOMAIN rejections = 1..Len(rejections) /\ Len(rejections) \in Nat BY <1>2
    <3>2. IsFiniteSet(DOMAIN rejections) BY <3>1, FS_Interval
    <3>3. Refusals \subseteq DOMAIN rejections BY DEF Refusals
    <3> QED BY <3>2, <3>3, FS_Subset
  <2> HIDE DEF n
  <2>5. Refusals' = Refusals \cup {n} /\ n \notin Refusals BY <2>2, <2>3 DEF Refusals
  <2>6. Refused' = Refused + 1 BY <2>4, <2>5, FS_AddElement DEF Refused
  <2>7. ASSUME NEW i \in Range(ours) PROVE Outcome(i)' = Outcome(i)
    <3>1. i # None BY <1>2, BrokerAssumption DEF Range
    <3>2. WasEnded(i)' = WasEnded(i) BY <2>2, <2>3, <3>1 DEF WasEnded
    <3>3. Got(i)' = Got(i) BY <1>3, SameGot
    <3> QED BY <2>1, <3>2, <3>3, SameOutcome
  <2>8. Book' = Book BY <2>1, <2>7, SameBook
  <2> QED BY <2>6, <2>8 DEF Protocol!Submit, Book, Refused, Refusals
<1>5. CASE Place(Trim(ask))
  <2> DEFINE id == Len(orders) + 1
             q == Trim(ask).qty
             n == Len(ours) + 1
  <2>1. /\ orders' = Append(orders, Placed(Trim(ask))) /\ pending' = Append(pending, id)
        /\ ours' = Append(ours, id) /\ rejections' = rejections
    BY <1>5 DEF Place
  <2>2. /\ id \in Nat /\ id \notin DOMAIN orders
        /\ \A i \in DOMAIN orders : orders'[i] = orders[i]
        /\ orders'[id] = Placed(Trim(ask))
    BY <2>1, PlacedOrder
  <2>3. orders'[id].qty = q BY <2>2 DEF Placed
  <2> HIDE DEF id, q
  <2>4. /\ Range(pending') = Range(pending) \cup {id}
        /\ DOMAIN ours' = DOMAIN ours \cup {n} /\ ours'[n] = id /\ n \notin DOMAIN ours
        /\ \A i \in DOMAIN ours : ours'[i] = ours[i]
    <3>1. Range(pending') = Range(pending) \cup {id} BY <1>2, <2>1, <2>2, AppendId
    <3>2. /\ DOMAIN ours' = DOMAIN ours \cup {n} /\ ours'[n] = id /\ n \notin DOMAIN ours
          /\ \A i \in DOMAIN ours : ours'[i] = ours[i]
      BY <1>2, <2>1, <2>2, AppendId
    <3> QED BY <3>1, <3>2
  <2>5. ASSUME NEW i \in Range(ours) PROVE Outcome(i)' = Outcome(i)
    <3>1. i \in DOMAIN orders /\ i # id BY <1>2, <2>2 DEF Ids
    <3>2. WasEnded(i)' = WasEnded(i) BY <2>1 DEF WasEnded
    <3>3. Got(i)' = Got(i) BY <1>3, SameGot
    <3> QED BY <2>2, <2>4, <3>1, <3>2, <3>3, SameOutcome
  <2>6. Book'[n] = Protocol!Open(q)
    <3>1. n \in DOMAIN ours' BY <2>4
    <3>2. Book'[n] = [qty |-> orders'[id].qty, state |-> "open", filled |-> 0]
      BY <2>4, <3>1 DEF Book, Outcome
    <3> QED BY <2>3, <3>2 DEF Protocol!Open
  <2>7. ASSUME NEW i \in DOMAIN ours PROVE Book'[i] = Book[i]
    <3>1. ours[i] \in Range(ours) BY DEF Range
    <3>2. PICK k \in Range(ours) : k = ours[i] BY <3>1
    <3>3. Book[i] = Outcome(k) /\ Book'[i] = Outcome(k)' BY <2>4, <3>2 DEF Book
    <3> QED BY <2>5, <3>3
  <2>8. /\ DOMAIN Book = 1..Len(ours) /\ Len(ours) \in Nat
        /\ DOMAIN Book' = 1..(Len(ours) + 1)
        /\ Book = [i \in 1..Len(ours) |-> Book[i]]
        /\ Book' = [i \in 1..(Len(ours) + 1) |-> Book'[i]]
    <3>1. DOMAIN ours = 1..Len(ours) /\ Len(ours) \in Nat /\ DOMAIN ours' = 1..(Len(ours) + 1)
      BY <1>2, <2>1
    <3> QED BY <3>1 DEF Book
  <2>9. Book' = Append(Book, Protocol!Open(q))
    <3> DEFINE m == Len(ours)
               o == Protocol!Open(q)
               s == Book
               t == Book'
    <3>1. /\ m \in Nat /\ s = [i \in 1..m |-> s[i]] /\ t = [i \in 1..(m + 1) |-> t[i]]
          /\ t[m + 1] = o /\ \A i \in 1..m : t[i] = s[i]
      BY <2>6, <2>7, <2>8
    <3> HIDE DEF m, o, s, t
    <3> DEFINE X == {s[i] : i \in 1..m} \cup {o}
    <3>2. o \in X /\ \A i \in 1..m : s[i] \in X OBVIOUS
    <3> HIDE DEF X
    <3>3. s \in [1..m -> X] BY <3>1, <3>2
    <3>4. s \in Seq(X) /\ Len(s) = m BY <3>1, <3>3
    <3>5. /\ Append(s, o) \in Seq(X) /\ Len(Append(s, o)) = m + 1 /\ Append(s, o)[m + 1] = o
          /\ \A i \in 1..m : Append(s, o)[i] = s[i]
      BY <3>1, <3>2, <3>4
    <3>6. t \in Seq(X) /\ Len(t) = m + 1
      <4>1. \A i \in 1..(m + 1) : t[i] \in X
        <5>1. \A i \in 1..(m + 1) : i \in 1..m \/ i = m + 1 BY <3>1
        <5> QED BY <3>1, <3>2, <5>1
      <4>2. t \in [1..(m + 1) -> X] BY <3>1, <4>1
      <4> QED BY <3>1, <4>2
    <3>7. \A i \in 1..(m + 1) : t[i] = Append(s, o)[i]
      <4>1. \A i \in 1..(m + 1) : i \in 1..m \/ i = m + 1 BY <3>1
      <4> QED BY <3>1, <3>5, <4>1
    <3>8. t = Append(s, o) BY <3>5, <3>6, <3>7
    <3> QED BY <3>8 DEF o, s, t
  <2>10. Refused' = Refused BY <2>1, SameRefused
  <2>11. Protocol!Submit(q) BY <2>9, <2>10 DEF Protocol!Submit, Book, Refused, Refusals
  <2> QED BY <1>1, <2>11 DEF q
<1> QED BY <1>1, <1>4, <1>5, SubmitShape

LEMMA ProtocolInit == Init => Protocol!BrokerInit
<1> SUFFICES ASSUME Init PROVE Protocol!BrokerInit
  OBVIOUS
<1>1. ours = <<>> /\ rejections = <<>> BY DEF Init
<1>2. Book = <<>> BY <1>1 DEF Book
<1>3. Refusals = {} BY <1>1 DEF Refusals
<1>4. Refused = 0 BY <1>3, FS_EmptySet DEF Refused
<1> QED BY <1>2, <1>4 DEF Protocol!BrokerInit, Book, Refused, Refusals

LEMMA ProtocolStep ==
  BrokerInv /\ Told /\ [Next]_vars => [Protocol!BrokerNext]_Protocol!brokerVars
<1> SUFFICES ASSUME BrokerInv, Told, [Next]_vars
             PROVE  Protocol!BrokerNext \/ (Book' = Book /\ Refused' = Refused)
  BY DEF Protocol!brokerVars, Book, Refused, Refusals
<1>1. CASE \E id \in DOMAIN orders : Venue(id) BY <1>1, HiddenVenue
<1>2. CASE UNCHANGED <<orders, pending, rejections, ours, fills, blotter>>
  <2>1. Reported' = Reported BY <1>2 DEF Reported
  <2> QED BY <1>2, <2>1, HiddenQuiet
<1>3. CASE StartBar \/ Retry \/ BarFails
  BY <1>2, <1>3 DEF StartBar, Retry, BarFails, venueVars, brokerVars, barVars
<1>4. CASE Settle BY <1>4, HiddenSettle
<1>5. CASE ReadCash BY <1>5, SettlesAtReadCash DEF Protocol!BrokerNext
<1>6. CASE ReadPositions BY <1>6, HiddenReadPositions
<1>7. ASSUME NEW ask \in Asks, Submit(ask) PROVE Protocol!BrokerNext
  <2>1. PICK qty \in ProtocolQuantities : Protocol!Submit(qty) BY <1>7, QueuesOrRefuses
  <2> QED BY <2>1 DEF Protocol!BrokerNext, ProtocolQuantities
<1>8. ASSUME NEW ask \in Asks, SubmitFails(ask) PROVE Book' = Book /\ Refused' = Refused
  <2>1. /\ UNCHANGED <<pending, rejections, ours, fills, blotter>>
        /\ orders' = orders \/ orders' = Append(orders, Placed(Trim(ask)))
    BY <1>8 DEF SubmitFails, Asking, barVars
  <2>2. Reported' = Reported BY <2>1 DEF Reported
  <2>3. ASSUME NEW i \in Range(ours) PROVE Outcome(i)' = Outcome(i)
    <3>1. i \in DOMAIN orders BY DEF BrokerInv, Lists, Ids
    <3>2. orders'[i] = orders[i] BY <2>1, <3>1, PlacedOrder
    <3>3. WasEnded(i)' = WasEnded(i) BY <2>1 DEF WasEnded
    <3>4. Got(i)' = Got(i) BY <2>2, SameGot
    <3> QED BY <2>1, <3>2, <3>3, <3>4, SameOutcome
  <2> QED BY <2>1, <2>3, SameBook, SameRefused
<1>9. CASE UNCHANGED vars BY <1>2, <1>9 DEF vars, venueVars, brokerVars, barVars
<1> QED BY <1>1, <1>3, <1>4, <1>5, <1>6, <1>7, <1>8, <1>9 DEF Next, OnBar

(* The broker keeps the engine's protocol: each order it queued settles in   *)
(* some on_bar after its submit, once and for good, in full unless the venue *)
(* ended it, and nothing else settles it (interfaces.py, Broker; submit,     *)
(* on_bar).                                                                  *)
THEOREM RunsTheProtocol == Spec => KeepsTheProtocol
<1>1. Spec => [][Protocol!BrokerNext]_Protocol!brokerVars
  BY ProtocolStep, BrokerAlways, ToldAlways, PTL DEF Spec
<1>2. Spec => Protocol!BrokerInit BY ProtocolInit, PTL DEF Spec
<1> QED BY <1>1, <1>2, PTL DEF KeepsTheProtocol, Protocol!BrokerSpec
=============================================================================
