---------------------------- MODULE EngineProofs ----------------------------
(***************************************************************************)
(* The engine, for every universe, feed, strategy and configuration.       *)
(*                                                                         *)
(* TypeInv strengthens TypeOK and is inductive; on it rest, in this order, *)
(* that no order is lost, that an order executes on the first bar after    *)
(* its decision (Waiting), that an exit always has a way out (Backed), that *)
(* the orders of a bar keep within the caps together (Tallied, Capped),    *)
(* that a latched switch stops entries, that cash stays positive, and that *)
(* the switch in the engine is the switch of KillSwitch.  What is proved   *)
(* of KillSwitch is taken over through SwitchProofs; the sums are those of *)
(* FoldTheorems.                                                           *)
(***************************************************************************)
EXTENDS Engine, FoldTheorems

SwitchProofs == INSTANCE KillSwitchProofs WITH Equities <- Int

-----------------------------------------------------------------------------
(* Arithmetic of the accounts *)

LEMMA DivMod ==
  ASSUME NEW n \in Int, NEW d \in Nat \ {0}
  PROVE  /\ n \div d \in Int /\ n % d \in 0..d - 1 /\ n = d * (n \div d) + (n % d)
OBVIOUS

(* Rounding to the nearest goes up by half a unit at most.                   *)
LEMMA RoundBound ==
  ASSUME NEW n \in Int, NEW d \in Nat \ {0}
  PROVE  Round(n, d) \in Int /\ 2 * (d * Round(n, d)) <= 2 * n + d
<1> DEFINE q == n \div d
           r == n % d
           p == d * q
<1>1. q \in Int /\ r \in 0..d - 1 /\ n = p + r BY DivMod
<1>2. Round(n, d) = q \/ (Round(n, d) = q + 1 /\ 2 * r >= d)
  <2>1. Round(n, d) = IF 2 * r < d \/ (2 * r = d /\ q % 2 = 0) THEN q ELSE q + 1 BY DEF Round
  <2> HIDE DEF q, r
  <2> QED BY <1>1, <2>1
<1> HIDE DEF q, r
<1>3. d * (q + 1) = p + d /\ p \in Int BY <1>1
<1>4. d * q = p OBVIOUS
<1> HIDE DEF p
<1> QED BY <1>1, <1>2, <1>3, <1>4

LEMMA CostTypes ==
  /\ Scale \in Nat \ {0} /\ Slip \in Nat /\ Slip < Scale /\ Fee \in Nat /\ Fee <= Scale
  /\ PerUnit \in Nat /\ Money \in Nat \ {0}
<1>1. /\ Scale \in Nat \ {0} /\ Slip \in Nat /\ Slip < Scale /\ Fee \in Nat /\ Fee <= Scale
      /\ PerUnit \in Nat
  BY CostAssumption
<1>2. Scale * Scale \in Nat \ {0} BY <1>1
<1> QED BY <1>1, <1>2 DEF Money

Marks == (Nat \ {0}) \cup {NoPrice}

LEMMA ValueType ==
  ASSUME NEW q \in Nat, NEW p \in Marks, p # NoPrice
  PROVE  Value(q, p) \in Nat /\ (q # 0 => Value(q, p) # 0)
<1>1. p \in Nat \ {0} /\ Money \in Nat \ {0} BY CostTypes DEF Marks
<1>2. q * p \in Nat /\ (q # 0 => q * p # 0) BY <1>1
<1> DEFINE v == q * p
<1>3. v * Money \in Nat /\ (v # 0 => v * Money # 0)
  <2> HIDE DEF v
  <2> QED BY <1>1, <1>2 DEF v
<1> QED BY <1>2, <1>3 DEF Value

LEMMA GrossType ==
  ASSUME NEW b, b.qty \in [Symbols -> Nat], NEW prices \in [Symbols -> Marks], NEW S,
         \A s \in Held(b) \cap S : prices[s] # NoPrice
  PROVE  GrossOf(b, prices, S) \in Nat
<1> DEFINE D == Held(b) \cap S
           f == [s \in D |-> Value(b.qty[s], prices[s])]
<1>1. IsFiniteSet(D)
  <2>1. D \in SUBSET Symbols BY DEF Held
  <2> QED BY <2>1, FS_Subset, EngineAssumption
<1>2. \A s \in D : f[s] \in Nat
  <2>1. ASSUME NEW s \in D PROVE f[s] \in Nat
    <3>1. s \in Symbols BY DEF Held
    <3>2. b.qty[s] \in Nat /\ prices[s] \in Marks /\ prices[s] # NoPrice BY <3>1
    <3> QED BY <3>2, ValueType
  <2> QED BY <2>1
<1>3. DOMAIN f = D OBVIOUS
<1>4. GrossOf(b, prices, S) = SumFunctionOnSet(f, D) BY <1>3 DEF GrossOf, SumFunction
<1> HIDE DEF f, D
<1> QED BY <1>1, <1>2, <1>4, SumNat

LEMMA EquityType ==
  ASSUME NEW b, b.cash \in Int, b.qty \in [Symbols -> Nat], NEW prices \in [Symbols -> Marks],
         \A s \in Held(b) : prices[s] # NoPrice
  PROVE  Equity(b, prices) \in Int
<1>1. GrossOf(b, prices, Symbols) \in Nat BY GrossType
<1> QED BY <1>1 DEF Equity

(* What an execution does to the book.                                       *)
LEMMA FillTypes ==
  ASSUME NEW b, b.cash \in Int, b.qty \in [Symbols -> Nat], NEW o \in QueuedOrders,
         NEW open \in Nat \ {0}, ~(o.side = "SELL" /\ o.qty > b.qty[o.symbol])
  PROVE  LET c == ApplyFill(b, o, open) IN
         /\ c.cash \in Int /\ c.qty \in [Symbols -> Nat]
         /\ \A s \in Symbols \ {o.symbol} : c.qty[s] = b.qty[s]
         /\ c.qty[o.symbol] = IF o.side = "BUY" THEN b.qty[o.symbol] + o.qty
                              ELSE b.qty[o.symbol] - o.qty
<1> DEFINE signed == IF o.side = "BUY" THEN o.qty ELSE -o.qty
           c == ApplyFill(b, o, open)
<1>1. o.symbol \in Symbols /\ o.qty \in Nat \ {0} /\ o.side \in {"BUY", "SELL"}
  BY DEF QueuedOrders
<1>2. SlippedRate(o.side) \in Int BY <1>1, CostTypes DEF SlippedRate
<1>3. FillPrice(o.side, open) \in Int BY <1>2, CostTypes DEF FillPrice
<1>4. Commission(o.qty, o.side, open) \in Int
  <2>1. o.qty * PerUnit * Money \in Int BY <1>1, CostTypes
  <2>2. o.qty * open * SlippedRate(o.side) * Fee \in Int BY <1>1, <1>2, CostTypes
  <2> QED BY <2>1, <2>2 DEF Commission
<1>5. signed \in Int BY <1>1
<1>6. /\ c.cash = b.cash - signed * FillPrice(o.side, open) - Commission(o.qty, o.side, open)
      /\ c.qty = [b.qty EXCEPT ![o.symbol] = @ + signed]
  BY DEF ApplyFill
<1>7. c.cash \in Int
  <2>1. signed * FillPrice(o.side, open) \in Int BY <1>3, <1>5
  <2> HIDE DEF signed, c
  <2> QED BY <1>4, <1>6, <2>1
<1>8. b.qty[o.symbol] \in Nat BY <1>1
<1>9. b.qty[o.symbol] + signed = IF o.side = "BUY" THEN b.qty[o.symbol] + o.qty
                                 ELSE b.qty[o.symbol] - o.qty
  BY <1>1, <1>8
<1>10. b.qty[o.symbol] + signed \in Nat BY <1>1, <1>8, <1>9
<1> HIDE DEF signed, c
<1>11. c.qty \in [Symbols -> Nat] BY <1>6, <1>10
<1>12. \A s \in Symbols \ {o.symbol} : c.qty[s] = b.qty[s] BY <1>6
<1>13. c.qty[o.symbol] = b.qty[o.symbol] + signed BY <1>1, <1>6
<1> QED BY <1>7, <1>9, <1>11, <1>12, <1>13 DEF c

(* What sizing returns: orders, of symbols the intents name.                 *)
LEMMA SizedType ==
  ASSUME NEW b, b.cash \in Int, b.qty \in [Symbols -> Nat], NEW prices \in [Symbols -> Marks],
         \A s \in Held(b) : prices[s] # NoPrice,
         NEW intents \in Seq(Intents), \A i \in DOMAIN intents : prices[intents[i].symbol] # NoPrice
  PROVE  /\ SizedOrders(b, prices, intents) \in Seq(Orders)
         /\ \A o \in Range(SizedOrders(b, prices, intents)) : prices[o.symbol] # NoPrice
<1> DEFINE I == {i \in DOMAIN intents : Worth(b, prices, intents[i])}
           Asked == {intents[i] : i \in I}
           worth == Selected(intents, I)
           sized == SizedOrders(b, prices, intents)
<1>1. I \in SUBSET Nat /\ IsFiniteSet(I)
  <2>1. DOMAIN intents = 1..Len(intents) /\ Len(intents) \in Nat OBVIOUS
  <2>2. IsFiniteSet(1..Len(intents))
    <3>1. 1 \in Int /\ Len(intents) \in Int BY <2>1
    <3> QED BY <3>1, FS_Interval
  <2>3. I \in SUBSET (1..Len(intents)) BY <2>1
  <2> QED BY <2>2, <2>3, FS_Subset
<1>2. ASSUME NEW i \in Asked
      PROVE  Sized(b, prices, i) \in Orders /\ prices[Sized(b, prices, i).symbol] # NoPrice
  <2>1. i \in Intents /\ prices[i.symbol] # NoPrice /\ Worth(b, prices, i) OBVIOUS
  <2>2. i.symbol \in Symbols BY <2>1 DEF Intents
  <2>3. CASE i.kind = "order"
    <3>1. i.side \in {"BUY", "SELL"} /\ i.qty \in Nat \ {0} BY <2>1, <2>3 DEF Intents
    <3> QED BY <2>1, <2>2, <2>3, <3>1 DEF Sized, Orders
  <2>4. CASE i.kind # "order"
    <3> DEFINE delta == TargetDelta(b, prices, i)
               unit == 100 * Value(1, prices[i.symbol])
    <3>1. i.weight \in Int BY <2>1, <2>4 DEF Intents
    <3>2. Equity(b, prices) \in Int BY EquityType
    <3>3. unit \in Nat \ {0}
      <4>1. Value(1, prices[i.symbol]) \in Nat \ {0} BY <2>1, <2>2, ValueType
      <4> QED BY <4>1
    <3>4. b.qty[i.symbol] \in Nat BY <2>2
    <3>5. delta = Round(i.weight * Equity(b, prices) - b.qty[i.symbol] * unit, unit)
      BY DEF TargetDelta
    <3>6. delta \in Int
      <4> HIDE DEF unit
      <4>1. i.weight * Equity(b, prices) - b.qty[i.symbol] * unit \in Int
        BY <3>1, <3>2, <3>3, <3>4
      <4> QED BY <3>3, <3>5, <4>1, RoundBound
    <3>7. delta \notin -1..1 BY <2>1, <2>4 DEF Worth
    <3>8. Sized(b, prices, i) =
            [symbol |-> i.symbol, side |-> IF delta > 0 THEN "BUY" ELSE "SELL",
             qty |-> IF delta > 0 THEN delta ELSE -delta]
      BY <2>4 DEF Sized
    <3> HIDE DEF delta
    <3>9. (IF delta > 0 THEN delta ELSE -delta) \in Nat \ {0} BY <3>6, <3>7
    <3> QED BY <2>1, <2>2, <3>8, <3>9 DEF Orders
  <2> QED BY <2>3, <2>4
<1>3. \A i \in I : intents[i] \in Asked OBVIOUS
<1>4. sized = [j \in DOMAIN worth |-> Sized(b, prices, worth[j])] BY DEF SizedOrders
<1> HIDE DEF I, Asked, sized
<1>5. worth \in Seq(Asked) BY <1>1, <1>3, SelectedIs
<1> HIDE DEF worth
<1>6. ASSUME NEW j \in DOMAIN worth
      PROVE  sized[j] \in Orders /\ prices[sized[j].symbol] # NoPrice
  <2>1. worth[j] \in Asked BY <1>5
  <2> QED BY <1>2, <1>4, <2>1
<1>7. DOMAIN sized = 1..Len(worth) /\ Len(worth) \in Nat BY <1>4, <1>5
<1>8. sized \in Seq(Orders)
  <2>1. sized \in [1..Len(worth) -> Orders] BY <1>4, <1>5, <1>6
  <2> QED BY <1>7, <2>1
<1> QED BY <1>4, <1>6, <1>8 DEF sized, Range

-----------------------------------------------------------------------------
(* Types *)

(* The bar being processed and the marks; a step walks nothing between two   *)
(* bars; a position bought on a bar is marked by that bar's close.           *)
Shape ==
  /\ slice \in [Symbols -> Bars \cup {NoPrice}]
  /\ lastClose \in [Symbols -> Marks]
  /\ volScale \in Nat
  /\ phase \in {"feed", "decide"} => todo = <<>>
  /\ phase # "feed" => bar > 0
  /\ phase = "execute" => \A s \in Held(book) : lastClose[s] # NoPrice \/ slice[s] # NoPrice
  /\ phase = "check" => \A o \in Range(todo) : o.symbol \in Priced
  /\ \A s \in Symbols : lastBar[s] <= bar

TypeInv == TypeOK /\ Shape /\ runHalted = latched

(* The switch of the engine is the switch of KillSwitch, with its types.     *)
LEMMA SwitchAssumed ==
  Int \subseteq Int /\ None \notin Int /\ MaxBars \in Nat
    /\ \A c \in Configs : SwitchProofs!ValidConfig(c)
BY EngineAssumption
   DEF Switch!ValidConfig, SwitchProofs!ValidConfig, Switch!Percents, SwitchProofs!Percents

LEMMA SwitchTypes == Switch!TypeOK /\ runHalted = latched <=> SwitchProofs!TypeInv
BY DEF SwitchProofs!TypeInv, SwitchProofs!TypeOK, Switch!TypeOK, SwitchProofs!Episode,
       Switch!Episode, SwitchProofs!Bars, Switch!Bars, SwitchProofs!Reasons, Switch!Reasons

LEMMA SwitchTypesNext ==
  Switch!TypeOK' /\ runHalted' = latched' <=> SwitchProofs!TypeInv'
BY DEF SwitchProofs!TypeInv, SwitchProofs!TypeOK, Switch!TypeOK, SwitchProofs!Episode,
       Switch!Episode, SwitchProofs!Bars, Switch!Bars, SwitchProofs!Reasons, Switch!Reasons

(* A bar of the switch.                                                      *)
LEMMA SwitchAction ==
  ASSUME NEW e \in Int,
         Switch!Rearm(e) \/ Switch!TripOnDrawdown(e) \/ Switch!TripOnDailyLoss(e) \/ Switch!Hold(e)
  PROVE  SwitchProofs!Next
BY DEF SwitchProofs!Next,
       Switch!Rearm, Switch!TripOnDrawdown, Switch!TripOnDailyLoss, Switch!Hold,
       SwitchProofs!Rearm, SwitchProofs!TripOnDrawdown, SwitchProofs!TripOnDailyLoss,
       SwitchProofs!Hold,
       Switch!RearmDue, SwitchProofs!RearmDue, Switch!CooldownOver, SwitchProofs!CooldownOver,
       Switch!Recovered, SwitchProofs!Recovered, Switch!NewPeak, SwitchProofs!NewPeak,
       Switch!DrawdownBreach, SwitchProofs!DrawdownBreach, Switch!DailyLossBreach,
       SwitchProofs!DailyLossBreach, Switch!Fell, SwitchProofs!Fell,
       Switch!MarkBar, SwitchProofs!MarkBar, Switch!Trip, SwitchProofs!Trip,
       Switch!RecordEpisode, SwitchProofs!RecordEpisode, Switch!Closed, SwitchProofs!Closed

LEMMA SwitchStep ==
  ASSUME Switch!TypeOK, runHalted = latched, NEW e \in Int,
         Switch!Rearm(e) \/ Switch!TripOnDrawdown(e) \/ Switch!TripOnDailyLoss(e) \/ Switch!Hold(e)
  PROVE  Switch!TypeOK' /\ runHalted' = latched' /\ barIndex' = barIndex + 1 /\ config' = config
<1>1. SwitchProofs!Next BY SwitchAction
<1>2. SwitchProofs!TypeInv BY SwitchTypes
<1>3. SwitchProofs!TypeInv' BY <1>1, <1>2, SwitchAssumed, SwitchProofs!TypeStep
<1>4. barIndex' = barIndex + 1 /\ config' = config
  BY DEF Switch!Rearm, Switch!TripOnDrawdown, Switch!TripOnDailyLoss, Switch!Hold, Switch!MarkBar
<1> QED BY <1>3, <1>4, SwitchTypesNext

LEMMA SwitchInit ==
  ASSUME Switch!Init PROVE Switch!TypeOK /\ runHalted = latched
<1>1. SwitchProofs!Init BY DEF Switch!Init, SwitchProofs!Init
<1>2. SwitchProofs!TypeInv BY <1>1, SwitchAssumed, SwitchProofs!TypeInit
<1> QED BY <1>2, SwitchTypes

(* A mark or bar is not NoPrice.                                              *)
LEMMA BarTypes ==
  ASSUME NEW bars \in [Symbols -> Bars \cup {NoPrice}], NEW s \in Symbols, bars[s] # NoPrice
  PROVE  bars[s].open \in Nat \ {0} /\ bars[s].close \in Nat \ {0} /\ bars[s].close \in Marks
                                    /\ bars[s].close # NoPrice
BY EngineAssumption DEF Bars, Marks

(* Walking a queue.                                                           *)
LEMMA TailTypes ==
  ASSUME NEW T, NEW s \in Seq(T), s # <<>>
  PROVE  /\ Tail(s) \in Seq(T) /\ Head(s) \in T /\ Len(Tail(s)) = Len(s) - 1
         /\ Range(Tail(s)) \subseteq Range(s) /\ Head(s) \in Range(s)
<1>1. Tail(s) \in Seq(T) /\ Head(s) \in T /\ Len(Tail(s)) = Len(s) - 1 OBVIOUS
<1>2. \A i \in 1..Len(s) - 1 : Tail(s)[i] = s[i + 1] /\ i + 1 \in 1..Len(s) OBVIOUS
<1>3. DOMAIN Tail(s) = 1..Len(s) - 1 /\ DOMAIN s = 1..Len(s) BY <1>1
<1>4. Range(Tail(s)) \subseteq Range(s) BY <1>2, <1>3 DEF Range
<1>5. Head(s) \in Range(s)
  <2>1. Head(s) = s[1] /\ 1 \in DOMAIN s OBVIOUS
  <2> QED BY <2>1 DEF Range
<1> QED BY <1>1, <1>4, <1>5

LEMMA AppendTypes ==
  ASSUME NEW T, NEW s \in Seq(T), NEW e \in T
  PROVE  /\ Append(s, e) \in Seq(T) /\ Len(Append(s, e)) = Len(s) + 1
         /\ DOMAIN Append(s, e) = DOMAIN s \cup {Len(s) + 1}
         /\ \A i \in DOMAIN s : Append(s, e)[i] = s[i]
         /\ Append(s, e)[Len(s) + 1] = e
         /\ Range(Append(s, e)) = Range(s) \cup {e}
<1>1. /\ Append(s, e) \in Seq(T) /\ Len(Append(s, e)) = Len(s) + 1
      /\ DOMAIN Append(s, e) = DOMAIN s \cup {Len(s) + 1}
      /\ \A i \in DOMAIN s : Append(s, e)[i] = s[i]
      /\ Append(s, e)[Len(s) + 1] = e
  OBVIOUS
<1>2. Range(Append(s, e)) = Range(s) \cup {e} BY <1>1 DEF Range
<1> QED BY <1>1, <1>2

LEMMA EmptyTypes == \A T : <<>> \in Seq(T) /\ Len(<<>>) = 0 /\ Range(<<>>) = {}
BY DEF Range

LEMMA CountTypes ==
  ASSUME counts \in Counts, NEW r \in {"sized", "refused", "rejected", "filled"}, NEW n \in Nat,
         counts' = [counts EXCEPT ![r] = @ + n]
  PROVE  /\ counts' \in Counts /\ counts'[r] = counts[r] + n
         /\ \A q \in {"sized", "refused", "rejected", "filled"} \ {r} : counts'[q] = counts[q]
BY DEF Counts

LEMMA SwitchUnchanged ==
  ASSUME Switch!TypeOK, runHalted = latched, UNCHANGED switchVars
  PROVE  Switch!TypeOK' /\ runHalted' = latched'
BY DEF switchVars, Switch!TypeOK, Switch!Episode, Switch!Bars, Switch!Reasons

LEMMA SwitchNumbers ==
  ASSUME TypeInv
  PROVE  bar \in Nat /\ barIndex \in Nat /\ MaxBars \in Nat /\ bar <= MaxBars
         /\ config \in Configs /\ latched \in BOOLEAN
BY EngineAssumption DEF TypeInv, TypeOK, Switch!TypeOK

LEMMA TypesInit == Init => TypeInv
<1> SUFFICES ASSUME Init PROVE TypeInv OBVIOUS
<1>1. Switch!TypeOK /\ runHalted = latched BY SwitchInit DEF Init
<1>2. barIndex = 0 /\ bar = 0 /\ phase = "feed" BY DEF Init, Switch!Init
<1>3. bar \in 0..MaxBars /\ barIndex = bar - (IF phase = "execute" THEN 1 ELSE 0)
  BY <1>2, EngineAssumption
<1>4. /\ todo \in Seq(IF phase = "execute" THEN QueuedOrders ELSE Orders)
      /\ pending \in Seq(QueuedOrders) /\ fills \in Seq(QueuedOrders)
  BY EmptyTypes DEF Init
<1>5. book.cash \in Int /\ book.qty \in [Symbols -> Nat] /\ Held(book) = {}
  <2>1. StartCash * Money \in Int BY EngineAssumption, CostTypes
  <2> QED BY <2>1 DEF Init, Held
<1>6. /\ committedQty \in [Symbols -> Nat] /\ committedGross \in Nat
      /\ committedSector \in [Sectors -> Nat] /\ counts \in Counts
      /\ lastBar \in [Symbols -> 0..MaxBars]
  BY EngineAssumption DEF Init, Counts
<1>7. TypeOK BY <1>1, <1>2, <1>3, <1>4, <1>5, <1>6 DEF TypeOK
<1>8. Shape BY <1>2, <1>5, EmptyTypes DEF Init, Shape, Marks
<1> QED BY <1>1, <1>7, <1>8 DEF TypeInv

LEMMA TypesNextBar ==
  ASSUME TypeInv, NEW bars \in Slices, NextBar(bars) PROVE TypeInv'
<1> USE DEF NextBar
<1>1. Switch!TypeOK' /\ runHalted' = latched' BY SwitchUnchanged DEF TypeInv, TypeOK
<1>2. phase' = "execute" /\ bar' \in 0..MaxBars /\ bar' > 0 /\ bar' = bar + 1
  BY SwitchNumbers
<1>3. barIndex' = bar' - 1
  BY SwitchNumbers, <1>2 DEF TypeInv, TypeOK, switchVars
<1>4. todo' \in Seq(QueuedOrders) /\ pending' \in Seq(QueuedOrders) /\ fills' \in Seq(QueuedOrders)
  BY EmptyTypes DEF TypeInv, TypeOK
<1>5. slice' \in [Symbols -> Bars \cup {NoPrice}] BY EngineAssumption
<1>6. \A s \in Symbols : lastBar'[s] <= bar'
  <2>1. \A s \in Symbols : lastBar[s] \in 0..MaxBars /\ lastBar[s] <= bar
    BY DEF TypeInv, TypeOK, Shape
  <2> QED BY <2>1, <1>2, SwitchNumbers
<1>7. TypeOK' BY <1>1, <1>2, <1>3, <1>4 DEF TypeInv, TypeOK, tallyVars, Held, Sectors, Counts
<1>8. Shape' BY <1>2, <1>5, <1>6 DEF TypeInv, TypeOK, Shape, tallyVars, Held
<1> QED BY <1>1, <1>7, <1>8 DEF TypeInv

LEMMA TypesWalk ==
  ASSUME TypeInv, KeepPending \/ RejectAtExecution \/ FillOrder PROVE TypeInv'
<1>1. /\ phase = "execute" /\ todo # <<>> /\ todo' = Tail(todo)
      /\ UNCHANGED <<switchVars, bar, phase, slice, lastClose, tallyVars, lastBar>>
  BY DEF KeepPending, RejectAtExecution, FillOrder, Executing, Walk
<1>2. /\ Head(todo) \in QueuedOrders /\ todo' \in Seq(QueuedOrders)
  BY <1>1, TailTypes DEF TypeInv, TypeOK
<1>3. Switch!TypeOK' /\ runHalted' = latched' BY <1>1, SwitchUnchanged DEF TypeInv, TypeOK
<1>4. barIndex' = barIndex BY <1>1 DEF switchVars
<1>5. pending' \in Seq(QueuedOrders)
  <2>1. Append(pending, Head(todo)) \in Seq(QueuedOrders)
    BY <1>2, AppendTypes DEF TypeInv, TypeOK
  <2> QED BY <2>1 DEF KeepPending, RejectAtExecution, FillOrder, TypeInv, TypeOK
<1>6. fills' \in Seq(QueuedOrders)
  <2>1. Append(fills, Head(todo)) \in Seq(QueuedOrders)
    BY <1>2, AppendTypes DEF TypeInv, TypeOK
  <2> QED BY <2>1 DEF KeepPending, RejectAtExecution, FillOrder, TypeInv, TypeOK
<1>7. counts' \in Counts
  <2>1. counts \in Counts BY DEF TypeInv, TypeOK
  <2>2. counts' = counts \/ (\E r \in {"rejected", "filled"} : counts' = [counts EXCEPT ![r] = @ + 1])
    BY DEF KeepPending, RejectAtExecution, FillOrder, Count
  <2> QED BY <2>1, <2>2, CountTypes
<1>8. /\ book'.cash \in Int /\ book'.qty \in [Symbols -> Nat]
      /\ \A s \in Held(book') : lastClose[s] # NoPrice \/ slice[s] # NoPrice
  <2>1. /\ book.cash \in Int /\ book.qty \in [Symbols -> Nat]
        /\ \A s \in Held(book) : lastClose[s] # NoPrice \/ slice[s] # NoPrice
    BY <1>1 DEF TypeInv, TypeOK, Shape
  <2>2. CASE book' = book BY <2>1, <2>2
  <2>3. CASE FillOrder
    <3> DEFINE o == Head(todo)
    <3>1. slice[o.symbol] # NoPrice /\ o.symbol \in Symbols
      BY <1>2, <2>3 DEF FillOrder, HasBar, QueuedOrders
    <3>2. Open(o) \in Nat \ {0} BY <3>1, BarTypes DEF TypeInv, Shape, Open
    <3>3. book' = ApplyFill(book, o, Open(o)) /\ ~(o.side = "SELL" /\ o.qty > book.qty[o.symbol])
      BY <2>3 DEF FillOrder, Oversold
    <3> HIDE DEF o
    <3>4. /\ book'.cash \in Int /\ book'.qty \in [Symbols -> Nat]
          /\ \A s \in Symbols \ {o.symbol} : book'.qty[s] = book.qty[s]
      BY <1>2, <2>1, <3>2, <3>3, FillTypes DEF o
    <3> QED BY <2>1, <3>1, <3>4 DEF Held
  <2> QED BY <2>2, <2>3 DEF KeepPending, RejectAtExecution
<1>9. TypeOK'
  BY <1>1, <1>2, <1>3, <1>4, <1>5, <1>6, <1>7, <1>8 DEF TypeInv, TypeOK, tallyVars, Sectors
<1>10. Shape' BY <1>1, <1>8 DEF TypeInv, Shape, tallyVars, Held
<1> QED BY <1>3, <1>9, <1>10 DEF TypeInv

(* The equity the switch is asked with is that of a marked book.             *)
LEMMA MonitoredEquity ==
  ASSUME TypeInv, NEW scale \in VolScales, Monitor(scale)
  PROVE  /\ lastClose' \in [Symbols -> Marks] /\ \A s \in Held(book) : lastClose'[s] # NoPrice
         /\ Equity(book, lastClose') \in Int
<1> USE DEF Monitor
<1>1. \A s \in Symbols : lastClose'[s] = IF slice[s] = NoPrice THEN lastClose[s] ELSE slice[s].close
  OBVIOUS
<1>2. lastClose' \in [Symbols -> Marks]
  <2>1. \A s \in Symbols : (IF slice[s] = NoPrice THEN lastClose[s] ELSE slice[s].close) \in Marks
    BY BarTypes DEF TypeInv, Shape
  <2> QED BY <2>1
<1>3. \A s \in Held(book) : lastClose'[s] # NoPrice
  <2>1. \A s \in Held(book) : s \in Symbols BY DEF Held
  <2>2. \A s \in Held(book) : lastClose[s] # NoPrice \/ slice[s] # NoPrice BY DEF TypeInv, Shape
  <2>3. slice \in [Symbols -> Bars \cup {NoPrice}] BY DEF TypeInv, Shape
  <2> QED BY <1>1, <2>1, <2>2, <2>3, BarTypes
<1>4. Equity(book, lastClose') \in Int
  <2>1. book.cash \in Int /\ book.qty \in [Symbols -> Nat] BY DEF TypeInv, TypeOK
  <2> QED BY <1>2, <1>3, <2>1, EquityType
<1> QED BY <1>2, <1>3, <1>4

LEMMA TypesMonitor ==
  ASSUME TypeInv, NEW scale \in VolScales, Monitor(scale) PROVE TypeInv'
<1> USE DEF Monitor
<1>2. lastClose' \in [Symbols -> Marks] BY MonitoredEquity
<1>3. \A s \in Held(book) : lastClose'[s] # NoPrice BY MonitoredEquity
<1>4. Equity(book, lastClose') \in Int BY MonitoredEquity
<1>5. /\ Switch!TypeOK' /\ runHalted' = latched' /\ barIndex' = barIndex + 1
  <2> DEFINE e == Equity(book, lastClose')
  <2>1. Switch!Rearm(e) \/ Switch!TripOnDrawdown(e) \/ Switch!TripOnDailyLoss(e) \/ Switch!Hold(e)
    OBVIOUS
  <2>2. Switch!TypeOK /\ runHalted = latched BY DEF TypeInv, TypeOK
  <2> HIDE DEF e
  <2>3. e \in Int BY <1>4 DEF e
  <2> QED BY <2>1, <2>2, <2>3, SwitchStep
<1>6. /\ phase = "execute" /\ phase' = "decide" /\ todo = <<>>
      /\ UNCHANGED <<bar, slice, todo, pending, fills, book, counts>>
  OBVIOUS
<1>7. barIndex' = bar' /\ bar' \in 0..MaxBars /\ bar' > 0
  BY <1>5, <1>6, SwitchNumbers DEF TypeInv, TypeOK, Shape
<1>8. todo' \in Seq(Orders) /\ pending' \in Seq(QueuedOrders) /\ fills' \in Seq(QueuedOrders)
  BY <1>6, EmptyTypes DEF TypeInv, TypeOK
<1>9. /\ committedQty' \in [Symbols -> Nat] /\ committedGross' \in Nat
      /\ committedSector' \in [Sectors -> Nat] /\ volScale' \in Nat
  BY EngineAssumption
<1>10. lastBar' \in [Symbols -> 0..MaxBars] /\ \A s \in Symbols : lastBar'[s] <= bar
  <2>1. \A s \in Symbols : (IF slice[s] = NoPrice THEN lastBar[s] ELSE bar) \in 0..MaxBars
                           /\ (IF slice[s] = NoPrice THEN lastBar[s] ELSE bar) <= bar
    BY SwitchNumbers DEF TypeInv, TypeOK, Shape
  <2> QED BY <2>1
<1>11. TypeOK'
  BY <1>3, <1>5, <1>6, <1>7, <1>8, <1>9, <1>10 DEF TypeInv, TypeOK, Sectors, Held
<1>12. Shape' BY <1>2, <1>6, <1>7, <1>9, <1>10 DEF TypeInv, Shape
<1> QED BY <1>5, <1>11, <1>12 DEF TypeInv

LEMMA TypesDecide ==
  ASSUME TypeInv, NEW intents \in IntentLists, Decide(intents) PROVE TypeInv'
<1> USE DEF Decide
<1>1. Switch!TypeOK' /\ runHalted' = latched' BY SwitchUnchanged DEF TypeInv, TypeOK
<1>2. /\ phase = "decide" /\ phase' = "check"
      /\ UNCHANGED <<switchVars, bar, slice, pending, fills, book, lastClose, tallyVars, lastBar>>
  OBVIOUS
<1>3. intents \in Seq(Intents) BY EngineAssumption
<1>4. /\ todo' \in Seq(Orders) /\ \A o \in Range(todo') : lastClose[o.symbol] # NoPrice
  <2>1. /\ book.cash \in Int /\ book.qty \in [Symbols -> Nat] /\ lastClose \in [Symbols -> Marks]
        /\ \A s \in Held(book) : lastClose[s] # NoPrice
    BY <1>2 DEF TypeInv, TypeOK, Shape
  <2>2. \A i \in DOMAIN intents : lastClose[intents[i].symbol] # NoPrice BY DEF Priced
  <2> QED BY <1>3, <2>1, <2>2, SizedType
<1>5. \A o \in Range(todo') : o.symbol \in Priced'
  <2>1. \A o \in Range(todo') : o \in Orders BY <1>4 DEF Range
  <2> QED BY <1>2, <1>4, <2>1 DEF Priced, Orders
<1>6. counts' \in Counts
  <2>1. counts \in Counts /\ Len(todo') \in Nat BY <1>4 DEF TypeInv, TypeOK
  <2> QED BY <2>1, CountTypes
<1>7. barIndex' = barIndex BY <1>2 DEF switchVars
<1>8. TypeOK' BY <1>1, <1>2, <1>4, <1>6, <1>7 DEF TypeInv, TypeOK, tallyVars, Sectors, Held
<1>9. Shape' BY <1>2, <1>5 DEF TypeInv, Shape, tallyVars
<1> QED BY <1>1, <1>8, <1>9 DEF TypeInv

-----------------------------------------------------------------------------
(* The rooms of the check *)

LEMMA MarkedBook ==
  ASSUME TypeInv, phase # "execute"
  PROVE  /\ book.cash \in Int /\ book.qty \in [Symbols -> Nat] /\ lastClose \in [Symbols -> Marks]
         /\ \A s \in Held(book) : lastClose[s] # NoPrice
         /\ EquityNow \in Int /\ \A S : GrossOf(book, lastClose, S) \in Nat
<1>1. /\ book.cash \in Int /\ book.qty \in [Symbols -> Nat] /\ lastClose \in [Symbols -> Marks]
      /\ \A s \in Held(book) : lastClose[s] # NoPrice
  BY DEF TypeInv, TypeOK, Shape
<1>2. EquityNow \in Int BY <1>1, EquityType DEF EquityNow
<1>3. \A S : GrossOf(book, lastClose, S) \in Nat BY <1>1, GrossType
<1> QED BY <1>1, <1>2, <1>3

LEMMA Caps ==
  ASSUME TypeInv
  PROVE  /\ config.maxPosition \in Nat /\ config.maxGross \in Nat /\ volScale \in Nat
         /\ config.maxSector # None => config.maxSector \in Nat
BY SwitchNumbers, EngineAssumption DEF ValidCaps, TypeInv, Shape

(* A unit of a priced symbol is worth something.                             *)
LEMMA UnitType ==
  ASSUME TypeInv, NEW s \in Priced
  PROVE  Value(1, lastClose[s]) \in Nat \ {0}
<1>1. s \in Symbols /\ lastClose[s] \in Marks /\ lastClose[s] # NoPrice
  BY DEF Priced, TypeInv, Shape
<1> QED BY <1>1, ValueType

(* What fits into each room stays within its cap, half a unit apart.         *)
LEMMA PositionRoomBound ==
  ASSUME TypeInv, phase = "check", NEW s \in Priced
  PROVE  /\ PositionRoom(s) \in Int
         /\ 200 * (PositionRoom(s) * Value(1, lastClose[s]))
              <= 2 * (config.maxPosition * EquityNow)
                 - 200 * ((book.qty[s] + committedQty[s]) * Value(1, lastClose[s]))
                 + 100 * Value(1, lastClose[s])
<1> DEFINE v == Value(1, lastClose[s])
           held == book.qty[s] + committedQty[s]
           cap == config.maxPosition * EquityNow
           room == PositionRoom(s)
<1>1. v \in Nat \ {0} BY UnitType
<1>2. held \in Nat
  <2>1. s \in Symbols BY DEF Priced
  <2> QED BY <2>1 DEF TypeInv, TypeOK
<1>3. cap \in Int BY MarkedBook, Caps
<1>4. room = Round(cap - held * (100 * v), 100 * v) BY DEF PositionRoom
<1> HIDE DEF v, held, cap, room
<1> DEFINE u == 100 * v
           m == held * v
<1>5. u \in Nat \ {0} /\ m \in Int /\ held * u = 100 * m BY <1>1, <1>2
<1>6. held * u \in Int BY <1>5
<1>7. room \in Int /\ 2 * (u * room) <= 2 * (cap - held * u) + u
  <2> DEFINE n == cap - held * u
  <2>1. n \in Int /\ u \in Nat \ {0} BY <1>3, <1>5, <1>6
  <2>2. room = Round(n, u) BY <1>4
  <2> HIDE DEF n, u
  <2>3. room \in Int /\ 2 * (u * room) <= 2 * n + u BY <2>1, <2>2, RoundBound
  <2> QED BY <2>3 DEF n
<1>8. u * room = 100 * (room * v) BY <1>1, <1>7
<1>9. room * v \in Int BY <1>1, <1>7
<1>10. 200 * (room * v) <= 2 * cap - 200 * m + 100 * v
  <2> DEFINE w == room * v
  <2>1. w \in Int /\ u * room = 100 * w BY <1>8, <1>9
  <2> HIDE DEF w, m
  <2>2. 2 * (100 * w) <= 2 * (cap - 100 * m) + u BY <1>5, <1>7, <2>1
  <2> HIDE DEF u
  <2>3. u = 100 * v BY DEF u
  <2>4. 200 * w <= 2 * cap - 200 * m + 100 * v BY <1>1, <1>3, <1>5, <2>1, <2>2, <2>3
  <2> QED BY <2>4 DEF w
<1> QED BY <1>7, <1>10 DEF v, held, cap, room

LEMMA GrossRoomBound ==
  ASSUME TypeInv, phase = "check", NEW s \in Priced
  PROVE  /\ GrossRoom(s) \in Int
         /\ 20000 * (GrossRoom(s) * Value(1, lastClose[s]))
              <= 2 * (config.maxGross * volScale * EquityNow)
                 - 20000 * (GrossOf(book, lastClose, Priced) + committedGross)
                 + 10000 * Value(1, lastClose[s])
<1> DEFINE v == Value(1, lastClose[s])
           gross == GrossOf(book, lastClose, Priced) + committedGross
           cap == config.maxGross * volScale * EquityNow
           room == GrossRoom(s)
<1>1. v \in Nat \ {0} BY UnitType
<1>2. gross \in Nat BY MarkedBook DEF TypeInv, TypeOK
<1>3. cap \in Int BY MarkedBook, Caps
<1>4. room = Round(cap - 10000 * gross, 10000 * v) BY DEF GrossRoom
<1> HIDE DEF v, gross, cap, room
<1> DEFINE u == 10000 * v
<1>5. u \in Nat \ {0} BY <1>1
<1>6. room \in Int /\ 2 * (u * room) <= 2 * (cap - 10000 * gross) + u
  <2> DEFINE n == cap - 10000 * gross
  <2>1. n \in Int /\ u \in Nat \ {0} BY <1>2, <1>3, <1>5
  <2>2. room = Round(n, u) BY <1>4
  <2> HIDE DEF n, u
  <2>3. room \in Int /\ 2 * (u * room) <= 2 * n + u BY <2>1, <2>2, RoundBound
  <2> QED BY <2>3 DEF n
<1>7. u * room = 10000 * (room * v) /\ room * v \in Int BY <1>1, <1>6
<1>8. 20000 * (room * v) <= 2 * cap - 20000 * gross + 10000 * v
  <2> DEFINE w == room * v
  <2> HIDE DEF w
  <2>1. w \in Int /\ u * room = 10000 * w BY <1>7 DEF w
  <2>2. u = 10000 * v OBVIOUS
  <2> HIDE DEF u
  <2>3. 2 * (10000 * w) <= 2 * (cap - 10000 * gross) + u BY <1>6, <2>1
  <2>4. 20000 * w <= 2 * cap - 20000 * gross + 10000 * v BY <1>1, <1>2, <1>3, <2>1, <2>2, <2>3
  <2> QED BY <2>4 DEF w
<1> QED BY <1>6, <1>8 DEF v, gross, cap, room

Mates(s) == {x \in Priced : SectorOf[x] = SectorOf[s]}

LEMMA SectorRoomBound ==
  ASSUME TypeInv, phase = "check", NEW s \in Priced, SectorCapped(s)
  PROVE  /\ SectorRoom(s) \in Int
         /\ 200 * (SectorRoom(s) * Value(1, lastClose[s]))
              <= 2 * (config.maxSector * EquityNow)
                 - 200 * (GrossOf(book, lastClose, Mates(s)) + committedSector[SectorOf[s]])
                 + 100 * Value(1, lastClose[s])
<1> DEFINE v == Value(1, lastClose[s])
           gross == GrossOf(book, lastClose, Mates(s)) + committedSector[SectorOf[s]]
           cap == config.maxSector * EquityNow
           room == SectorRoom(s)
<1>1. v \in Nat \ {0} BY UnitType
<1>2. gross \in Nat
  <2>1. SectorOf[s] \in Sectors BY DEF SectorCapped, Sectors, Priced
  <2>2. committedSector[SectorOf[s]] \in Nat BY <2>1 DEF TypeInv, TypeOK
  <2> QED BY <2>2, MarkedBook
<1>3. cap \in Int BY MarkedBook, Caps DEF SectorCapped
<1>4. room = Round(cap - 100 * gross, 100 * v) BY DEF SectorRoom, Mates
<1> HIDE DEF v, gross, cap, room
<1> DEFINE u == 100 * v
<1>5. u \in Nat \ {0} BY <1>1
<1>6. room \in Int /\ 2 * (u * room) <= 2 * (cap - 100 * gross) + u
  <2> DEFINE n == cap - 100 * gross
  <2>1. n \in Int /\ u \in Nat \ {0} BY <1>2, <1>3, <1>5
  <2>2. room = Round(n, u) BY <1>4
  <2> HIDE DEF n, u
  <2>3. room \in Int /\ 2 * (u * room) <= 2 * n + u BY <2>1, <2>2, RoundBound
  <2> QED BY <2>3 DEF n
<1>7. u * room = 100 * (room * v) /\ room * v \in Int BY <1>1, <1>6
<1>8. 200 * (room * v) <= 2 * cap - 200 * gross + 100 * v
  <2> DEFINE w == room * v
  <2> HIDE DEF w
  <2>1. w \in Int /\ u * room = 100 * w BY <1>7 DEF w
  <2>2. u = 100 * v OBVIOUS
  <2> HIDE DEF u
  <2>3. 2 * (100 * w) <= 2 * (cap - 100 * gross) + u BY <1>6, <2>1
  <2>4. 200 * w <= 2 * cap - 200 * gross + 100 * v BY <1>1, <1>2, <1>3, <2>1, <2>2, <2>3
  <2> QED BY <2>4 DEF w
<1> QED BY <1>6, <1>8 DEF v, gross, cap, room

LEMMA AllowedBound ==
  ASSUME TypeInv, phase = "check", NEW o \in Orders, o.symbol \in Priced
  PROVE  /\ AllowedQty(o) \in Int
         /\ AllowedQty(o) <= o.qty /\ AllowedQty(o) <= PositionRoom(o.symbol)
         /\ AllowedQty(o) <= GrossRoom(o.symbol)
         /\ SectorCapped(o.symbol) => AllowedQty(o) <= SectorRoom(o.symbol)
<1> DEFINE s == o.symbol
           E == {SectorRoom(x) : x \in {y \in {s} : SectorCapped(y)}}
<1>1. o.qty \in Int BY DEF Orders
<1>2. PositionRoom(s) \in Int /\ GrossRoom(s) \in Int BY PositionRoomBound, GrossRoomBound
<1>3. /\ E = {} \/ \E d \in Int : E = {d}
      /\ SectorCapped(s) => SectorRoom(s) \in E
  <2>1. CASE ~SectorCapped(s) BY <2>1
  <2>2. CASE SectorCapped(s)
    <3>1. SectorRoom(s) \in Int BY <2>2, SectorRoomBound
    <3>2. E = {SectorRoom(s)} BY <2>2
    <3> QED BY <3>1, <3>2
  <2> QED BY <2>1, <2>2
<1>4. AllowedQty(o) = Min({o.qty, PositionRoom(s), GrossRoom(s)} \cup E) BY DEF AllowedQty
<1> DEFINE p == PositionRoom(s)
           g == GrossRoom(s)
           S == {o.qty, p, g} \cup E
<1>5. p \in Int /\ g \in Int /\ AllowedQty(o) = Min(S) BY <1>2, <1>4
<1>6. E = {} \/ \E d \in Int : E = {d} BY <1>3
<1> HIDE DEF E, p, g
<1>7. \E n \in S : \A x \in S : n <= x
  <2>1. PICK e \in {o.qty, p, g} : e \in Int /\ e <= o.qty /\ e <= p /\ e <= g BY <1>1, <1>5
  <2>2. CASE E = {} BY <2>1, <2>2
  <2>3. CASE E # {}
    <3>1. PICK d \in Int : E = {d} BY <1>6, <2>3
    <3>2. CASE d <= e BY <1>1, <1>5, <2>1, <3>1, <3>2
    <3>3. CASE ~(d <= e) BY <1>1, <1>5, <2>1, <3>1, <3>3
    <3> QED BY <3>2, <3>3
  <2> QED BY <2>2, <2>3
<1>8. AllowedQty(o) \in S /\ \A x \in S : AllowedQty(o) <= x BY <1>5, <1>7 DEF Min
<1>9. AllowedQty(o) \in Int BY <1>1, <1>5, <1>6, <1>8
<1> QED BY <1>3, <1>8, <1>9 DEF p, g

(* What passes the check is an order, and the tallies grow by a buy.         *)
LEMMA CheckedType ==
  ASSUME TypeInv, phase = "check", NEW o \in Orders, o.symbol \in Priced, ~Blocked(o)
  PROVE  /\ Checked(o) \in Orders /\ Checked(o).symbol = o.symbol /\ Checked(o).side = o.side
         /\ Uncapped(o) <=> o.side = "SELL"
         /\ Uncapped(Checked(o)) <=> Uncapped(o)
         /\ Uncapped(o) => Checked(o) = o
         /\ ~Uncapped(o) => Checked(o).qty = AllowedQty(o)
<1>1. Uncapped(o) <=> o.side = "SELL" BY DEF Uncapped
<1>2. CASE Uncapped(o) BY <1>1, <1>2 DEF Checked
<1>3. CASE ~Uncapped(o)
  <2>1. AllowedQty(o) \in Nat \ {0}
    <3>1. AllowedQty(o) \in Int BY AllowedBound
    <3>2. ~(AllowedQty(o) <= 0) BY <1>3 DEF Blocked
    <3> QED BY <3>1, <3>2
  <2>2. Checked(o) = [o EXCEPT !.qty = AllowedQty(o)] BY <1>3 DEF Checked
  <2>3. Checked(o) \in Orders /\ Checked(o).symbol = o.symbol /\ Checked(o).side = o.side
        /\ Checked(o).qty = AllowedQty(o)
    BY <2>1, <2>2 DEF Orders
  <2> QED BY <1>1, <1>3, <2>3 DEF Uncapped
<1> QED BY <1>2, <1>3

(* The order a step of the check takes.                                      *)
LEMMA HeadToCheck ==
  ASSUME TypeInv, Checking
  PROVE  /\ phase = "check" /\ todo \in Seq(Orders) /\ todo # <<>>
         /\ Head(todo) \in Orders /\ Head(todo).symbol \in Priced
         /\ Tail(todo) \in Seq(Orders) /\ Len(Tail(todo)) = Len(todo) - 1
         /\ \A o \in Range(Tail(todo)) : o.symbol \in Priced
<1>1. phase = "check" /\ todo \in Seq(Orders) /\ todo # <<>>
  BY DEF Checking, TypeInv, TypeOK
<1>2. \A o \in Range(todo) : o.symbol \in Priced BY <1>1 DEF TypeInv, Shape
<1> QED BY <1>1, <1>2, TailTypes

LEMMA TypesAside ==
  ASSUME TypeInv, RejectAtCheck \/ EndBar PROVE TypeInv'
<1>1. /\ phase = "check" /\ phase' \in {"check", "feed"}
      /\ UNCHANGED <<switchVars, bar, slice, pending, fills, book, lastClose, tallyVars, lastBar>>
  BY DEF RejectAtCheck, EndBar, Checking
<1>2. Switch!TypeOK' /\ runHalted' = latched' BY <1>1, SwitchUnchanged DEF TypeInv, TypeOK
<1>3. barIndex' = barIndex BY <1>1 DEF switchVars
<1>4. counts' \in Counts
  <2>1. counts \in Counts BY DEF TypeInv, TypeOK
  <2>2. counts' = counts \/ counts' = [counts EXCEPT !["refused"] = @ + 1]
    BY DEF RejectAtCheck, EndBar, Count
  <2> QED BY <2>1, <2>2, CountTypes
<1>5. /\ todo' \in Seq(Orders) /\ (phase' = "feed" => todo' = <<>>)
      /\ \A o \in Range(todo') : o.symbol \in Priced
  <2>1. CASE RejectAtCheck
    <3>1. Checking /\ todo' = Tail(todo) /\ phase' = "check"
      BY <2>1 DEF RejectAtCheck, Walk, Checking
    <3> QED BY <3>1, HeadToCheck
  <2>2. CASE EndBar BY <2>2, EmptyTypes DEF EndBar
  <2> QED BY <2>1, <2>2
<1>6. TypeOK' BY <1>1, <1>2, <1>3, <1>4, <1>5 DEF TypeInv, TypeOK, tallyVars, Sectors, Held
<1>7. Priced' = Priced BY <1>1 DEF Priced
<1>8. Shape' BY <1>1, <1>5, <1>7 DEF TypeInv, Shape, tallyVars
<1> QED BY <1>2, <1>6, <1>8 DEF TypeInv

(* What an accepted order adds to the tallies.                               *)
LEMMA CommitTypes ==
  ASSUME TypeInv, phase = "check", NEW o \in Orders, o.symbol \in Priced, Commit(o)
  PROVE  /\ committedQty' \in [Symbols -> Nat] /\ committedGross' \in Nat
         /\ committedSector' \in [Sectors -> Nat]
<1>1. /\ committedQty \in [Symbols -> Nat] /\ committedGross \in Nat
      /\ committedSector \in [Sectors -> Nat]
  BY DEF TypeInv, TypeOK
<1>2. CASE Uncapped(o) BY <1>1, <1>2 DEF Commit
<1>3. CASE ~Uncapped(o)
  <2> DEFINE value == Value(o.qty, lastClose[o.symbol])
  <2>1. value \in Nat
    <3>1. lastClose[o.symbol] \in Marks /\ lastClose[o.symbol] # NoPrice /\ o.qty \in Nat
      BY DEF Priced, TypeInv, Shape, Orders
    <3> QED BY <3>1, ValueType
  <2>2. /\ committedQty' = [committedQty EXCEPT ![o.symbol] = @ + o.qty]
        /\ committedGross' = committedGross + value
        /\ committedSector' = [x \in Sectors |->
             committedSector[x] + IF x = SectorOf[o.symbol] THEN value ELSE 0]
    BY <1>3 DEF Commit
  <2> HIDE DEF value
  <2>3. committedQty' \in [Symbols -> Nat]
    <3>1. o.symbol \in Symbols /\ o.qty \in Nat BY DEF Orders
    <3>2. committedQty[o.symbol] + o.qty \in Nat BY <1>1, <3>1
    <3> QED BY <1>1, <2>2, <3>2
  <2>4. committedSector' \in [Sectors -> Nat]
    <3>1. \A x \in Sectors : committedSector[x] + (IF x = SectorOf[o.symbol] THEN value ELSE 0) \in Nat
      BY <1>1, <2>1
    <3> QED BY <2>2, <3>1
  <2>5. committedGross' \in Nat BY <1>1, <2>1, <2>2
  <2> QED BY <2>3, <2>4, <2>5
<1> QED BY <1>2, <1>3

LEMMA QueuedType ==
  ASSUME TypeInv, phase = "check", NEW o \in Orders
  PROVE  /\ Queued(o) \in QueuedOrders
         /\ Queued(o).symbol = o.symbol /\ Queued(o).side = o.side /\ Queued(o).qty = o.qty
         /\ Queued(o).decided = bar /\ Queued(o).held = book.qty[o.symbol]
<1>1. bar \in 1..MaxBars BY SwitchNumbers DEF TypeInv, Shape
<1>2. book.qty[o.symbol] \in Nat BY DEF Orders, TypeInv, TypeOK
<1> QED BY <1>1, <1>2 DEF Queued, QueuedOrders, Orders

LEMMA TypesSubmit ==
  ASSUME TypeInv, Submit PROVE TypeInv'
<1> DEFINE o == Checked(Head(todo))
<1>1. /\ Checking /\ ~Blocked(Head(todo)) /\ todo' = Tail(todo)
      /\ pending' = Append(pending, Queued(o)) /\ Commit(o)
      /\ UNCHANGED <<switchVars, bar, phase, slice, fills, book, lastClose, volScale, counts, lastBar>>
  BY DEF Submit, Walk
<1>2. phase = "check" /\ todo' \in Seq(Orders) /\ \A x \in Range(todo') : x.symbol \in Priced
  BY <1>1, HeadToCheck
<1>3. o \in Orders /\ o.symbol \in Priced BY <1>1, <1>2, HeadToCheck, CheckedType
<1> HIDE DEF o
<1>4. pending' \in Seq(QueuedOrders)
  <2>1. Queued(o) \in QueuedOrders BY <1>2, <1>3, QueuedType
  <2> QED BY <1>1, <2>1, AppendTypes DEF TypeInv, TypeOK
<1>5. /\ committedQty' \in [Symbols -> Nat] /\ committedGross' \in Nat
      /\ committedSector' \in [Sectors -> Nat]
  BY <1>1, <1>2, <1>3, CommitTypes
<1>6. Switch!TypeOK' /\ runHalted' = latched' BY <1>1, SwitchUnchanged DEF TypeInv, TypeOK
<1>7. barIndex' = barIndex BY <1>1 DEF switchVars
<1>8. TypeOK' BY <1>1, <1>2, <1>4, <1>5, <1>6, <1>7 DEF TypeInv, TypeOK, Sectors, Held
<1>9. Priced' = Priced BY <1>1 DEF Priced
<1>10. Shape' BY <1>1, <1>2, <1>9 DEF TypeInv, Shape
<1> QED BY <1>6, <1>8, <1>10 DEF TypeInv

LEMMA TypesStep == TypeInv /\ [Next]_vars => TypeInv'
<1> SUFFICES ASSUME TypeInv, [Next]_vars PROVE TypeInv' OBVIOUS
<1>1. CASE UNCHANGED vars
  <2>1. Switch!TypeOK' /\ runHalted' = latched'
    BY <1>1, SwitchUnchanged DEF vars, TypeInv, TypeOK
  <2>2. TypeOK'
    BY <1>1, <2>1 DEF vars, switchVars, tallyVars, TypeInv, TypeOK, Held, Sectors
  <2>3. Shape' BY <1>1 DEF vars, tallyVars, TypeInv, Shape, Held, Priced
  <2> QED BY <2>1, <2>2, <2>3 DEF TypeInv
<1>2. CASE Next
  BY <1>2, TypesNextBar, TypesWalk, TypesMonitor, TypesDecide, TypesAside, TypesSubmit DEF Next
<1> QED BY <1>1, <1>2

LEMMA TypesAlways == Spec => []TypeInv
BY TypesInit, TypesStep, PTL DEF Spec

(* Every state is typed: no position is short, every order trades something, *)
(* and a held symbol has a mark whenever the book is valued.                 *)
THEOREM TypeCorrect == Spec => []TypeOK
BY TypesAlways, PTL DEF TypeInv

-----------------------------------------------------------------------------
(* Orders *)

LEMMA AccountedStep == ASSUME TypeInv, OrdersAccounted, [Next]_vars PROVE OrdersAccounted'
<1>1. /\ counts \in Counts /\ Len(pending) \in Nat /\ Len(todo) \in Nat
      /\ counts["sized"] = counts["refused"] + counts["rejected"] + counts["filled"]
                             + Len(pending) + Len(todo)
  BY DEF TypeInv, TypeOK, OrdersAccounted
<1>2. /\ counts["sized"] \in Int /\ counts["refused"] \in Int /\ counts["rejected"] \in Int
      /\ counts["filled"] \in Int /\ Len(pending) \in Int /\ Len(todo) \in Int
      /\ counts["sized"] = counts["refused"] + counts["rejected"] + counts["filled"]
                             + Len(pending) + Len(todo)
  BY <1>1 DEF Counts
<1>3. CASE \E bars \in Slices : NextBar(bars)
  <2>1. todo = <<>> /\ todo' = pending /\ pending' = <<>> /\ counts' = counts
    BY <1>3 DEF NextBar, TypeInv, Shape
  <2> QED BY <1>1, <1>2, <2>1, EmptyTypes DEF OrdersAccounted
<1>4. CASE KeepPending \/ RejectAtExecution \/ FillOrder
  <2>1. /\ phase = "execute" /\ todo # <<>> /\ todo' = Tail(todo)
    BY <1>4 DEF KeepPending, RejectAtExecution, FillOrder, Executing, Walk
  <2>2. Len(todo') = Len(todo) - 1 /\ Head(todo) \in QueuedOrders
    BY <2>1, TailTypes DEF TypeInv, TypeOK
  <2>3. CASE KeepPending
    <3>1. counts' = counts /\ pending' = Append(pending, Head(todo)) BY <2>3 DEF KeepPending
    <3>2. Len(pending') = Len(pending) + 1 BY <2>2, <3>1, AppendTypes DEF TypeInv, TypeOK
    <3>3. counts'["sized"] = counts'["refused"] + counts'["rejected"] + counts'["filled"]
                               + Len(pending') + Len(todo')
      <4>1. Len(pending') + Len(todo') = Len(pending) + Len(todo) BY <1>2, <2>2, <3>2
      <4> QED BY <1>2, <2>2, <3>1, <3>2, SMTT(60)
    <3> QED BY <3>3 DEF OrdersAccounted
  <2>4. CASE RejectAtExecution
    <3>1. counts' = [counts EXCEPT !["rejected"] = @ + 1] /\ pending' = pending
      BY <2>4 DEF RejectAtExecution, Count
    <3>2. /\ counts'["rejected"] = counts["rejected"] + 1 /\ counts'["sized"] = counts["sized"]
          /\ counts'["refused"] = counts["refused"] /\ counts'["filled"] = counts["filled"]
          /\ Len(pending') = Len(pending)
      BY <1>1, <3>1, CountTypes
    <3>3. counts'["sized"] = counts'["refused"] + counts'["rejected"] + counts'["filled"]
                               + Len(pending') + Len(todo')
      BY <1>2, <2>2, <3>2, SMTT(60)
    <3> QED BY <3>3 DEF OrdersAccounted
  <2>5. CASE FillOrder
    <3>1. counts' = [counts EXCEPT !["filled"] = @ + 1] /\ pending' = pending
      BY <2>5 DEF FillOrder, Count
    <3>2. /\ counts'["filled"] = counts["filled"] + 1 /\ counts'["sized"] = counts["sized"]
          /\ counts'["refused"] = counts["refused"] /\ counts'["rejected"] = counts["rejected"]
          /\ Len(pending') = Len(pending)
      BY <1>1, <3>1, CountTypes
    <3>3. counts'["sized"] = counts'["refused"] + counts'["rejected"] + counts'["filled"]
                               + Len(pending') + Len(todo')
      BY <1>2, <2>2, <3>2, SMTT(60)
    <3> QED BY <3>3 DEF OrdersAccounted
  <2> QED BY <1>4, <2>3, <2>4, <2>5
<1>5. CASE \E scale \in VolScales : Monitor(scale)
  BY <1>5 DEF Monitor, OrdersAccounted
<1>6. CASE \E intents \in IntentLists : Decide(intents)
  <2>1. PICK intents \in IntentLists : Decide(intents) BY <1>6
  <2>2. /\ todo = <<>> /\ pending' = pending
        /\ counts' = [counts EXCEPT !["sized"] = @ + Len(todo')]
    BY <2>1 DEF Decide, TypeInv, Shape
  <2>3. Len(todo') \in Nat
    <3>1. phase' = "check" BY <2>1 DEF Decide
    <3>2. TypeInv' BY <2>1, TypesDecide
    <3> QED BY <3>1, <3>2 DEF TypeInv, TypeOK
  <2>4. /\ counts'["sized"] = counts["sized"] + Len(todo')
        /\ counts'["refused"] = counts["refused"] /\ counts'["rejected"] = counts["rejected"]
        /\ counts'["filled"] = counts["filled"]
    BY <1>1, <2>2, <2>3, CountTypes
  <2> QED BY <1>1, <1>2, <2>2, <2>3, <2>4, EmptyTypes DEF OrdersAccounted
<1>7. CASE RejectAtCheck
  <2>1. Checking /\ todo' = Tail(todo) /\ pending' = pending
        /\ counts' = [counts EXCEPT !["refused"] = @ + 1]
    BY <1>7 DEF RejectAtCheck, Walk, Count
  <2>2. Len(todo') = Len(todo) - 1 BY <2>1, HeadToCheck
  <2>3. /\ counts'["refused"] = counts["refused"] + 1 /\ counts'["sized"] = counts["sized"]
        /\ counts'["rejected"] = counts["rejected"] /\ counts'["filled"] = counts["filled"]
        /\ Len(pending') = Len(pending)
    BY <1>1, <2>1, CountTypes
  <2>4. counts'["sized"] = counts'["refused"] + counts'["rejected"] + counts'["filled"]
                             + Len(pending') + Len(todo')
    BY <1>2, <2>2, <2>3, SMTT(60)
  <2> QED BY <2>4 DEF OrdersAccounted
<1>8. CASE Submit
  <2>1. Checking /\ ~Blocked(Head(todo)) /\ todo' = Tail(todo) /\ counts' = counts
        /\ pending' = Append(pending, Queued(Checked(Head(todo))))
    BY <1>8 DEF Submit, Walk
  <2>2. Len(todo') = Len(todo) - 1 BY <2>1, HeadToCheck
  <2>3. Queued(Checked(Head(todo))) \in QueuedOrders
    BY <2>1, HeadToCheck, CheckedType, QueuedType
  <2>4. Len(pending') = Len(pending) + 1 BY <2>1, <2>3, AppendTypes DEF TypeInv, TypeOK
  <2>5. counts' = counts BY <2>1
  <2>6. counts'["sized"] = counts'["refused"] + counts'["rejected"] + counts'["filled"]
                             + Len(pending') + Len(todo')
    BY <1>2, <2>2, <2>4, <2>5, SMTT(60)
  <2> QED BY <2>6 DEF OrdersAccounted
<1>9. CASE EndBar BY <1>9 DEF EndBar, OrdersAccounted
<1>10. CASE UNCHANGED vars BY <1>10 DEF vars, OrdersAccounted
<1> QED BY <1>3, <1>4, <1>5, <1>6, <1>7, <1>8, <1>9, <1>10 DEF Next

(* Nothing is lost on the way: every order sizing produced is refused,       *)
(* rejected, filled or still under way (Engine._step, ADR-0044).             *)
THEOREM NoOrderIsLost == Spec => []OrdersAccounted
<1>1. Init => OrdersAccounted
  BY EmptyTypes DEF Init, OrdersAccounted
<1> QED BY <1>1, TypesAlways, AccountedStep, PTL DEF Spec

-----------------------------------------------------------------------------
(* The queue *)

(* An order waits at the broker because its symbol has not traded since it   *)
(* was decided; the bar being executed divides the orders into those it can  *)
(* price and those it cannot.                                                *)
Waiting ==
  /\ \A o \in Range(pending) : lastBar[o.symbol] <= o.decided /\ o.decided <= bar
  /\ phase \in {"execute", "decide"} => \A o \in Range(pending) : o.decided < bar
  /\ phase = "execute" =>
       /\ \A s \in Symbols : lastBar[s] < bar
       /\ \A o \in Range(todo) \cup Range(fills) : lastBar[o.symbol] <= o.decided /\ o.decided < bar
       /\ \A o \in Range(fills) : HasBar(o)
       /\ \A o \in Range(pending) : ~HasBar(o)

(* What was held when an order was decided is still held when its turn       *)
(* comes, unless a sell of the same symbol was filled before it on the bar.  *)
Sold(s) == \E f \in Range(fills) : f.side = "SELL" /\ f.symbol = s

Backed ==
  /\ \A o \in Range(pending) : o.held <= book.qty[o.symbol]
  /\ phase = "execute" => \A o \in Range(todo) : o.held <= book.qty[o.symbol] \/ Sold(o.symbol)

QueueInv == TypeInv /\ Waiting /\ Backed

LEMMA QueueTypes ==
  ASSUME TypeInv
  PROVE  /\ \A o \in Range(pending) : o \in QueuedOrders
         /\ \A o \in Range(fills) : o \in QueuedOrders
         /\ phase = "execute" => \A o \in Range(todo) : o \in QueuedOrders
         /\ \A o \in QueuedOrders : /\ o.symbol \in Symbols /\ o.decided \in Nat /\ o.held \in Nat
                                    /\ o.qty \in Nat /\ o.qty > 0
                                    /\ lastBar[o.symbol] \in Nat /\ book.qty[o.symbol] \in Nat
<1>1. pending \in Seq(QueuedOrders) /\ fills \in Seq(QueuedOrders) BY DEF TypeInv, TypeOK
<1>2. phase = "execute" => todo \in Seq(QueuedOrders) BY DEF TypeInv, TypeOK
<1>3. lastBar \in [Symbols -> 0..MaxBars] /\ book.qty \in [Symbols -> Nat] BY DEF TypeInv, TypeOK
<1>4. \A s \in Seq(QueuedOrders) : \A o \in Range(s) : o \in QueuedOrders BY DEF Range
<1>5. \A o \in QueuedOrders : /\ o.symbol \in Symbols /\ o.decided \in 1..MaxBars /\ o.held \in Nat
                              /\ o.qty \in Nat \ {0}
  BY DEF QueuedOrders
<1> QED BY <1>1, <1>2, <1>3, <1>4, <1>5, SwitchNumbers

(* A step of the execution loop walks its order out of the queue.            *)
LEMMA HeadToExecute ==
  ASSUME TypeInv, Executing, Walk
  PROVE  /\ phase = "execute" /\ Head(todo) \in Range(todo) /\ Head(todo) \in QueuedOrders
         /\ Range(todo') \subseteq Range(todo)
BY TailTypes DEF TypeInv, TypeOK, Executing, Walk

LEMMA WaitingStep == ASSUME TypeInv, Waiting, [Next]_vars PROVE Waiting'
<1>1. CASE \E bars \in Slices : NextBar(bars)
  <2>1. /\ bar' = bar + 1 /\ bar \in Nat /\ lastBar' = lastBar /\ todo' = pending
        /\ Range(pending') = {} /\ Range(fills') = {}
    BY <1>1, SwitchNumbers, EmptyTypes DEF NextBar
  <2>2. \A s \in Symbols : lastBar[s] \in Nat /\ lastBar[s] <= bar
    BY SwitchNumbers DEF TypeInv, TypeOK, Shape
  <2>3. \A s \in Symbols : lastBar'[s] < bar' BY <2>1, <2>2
  <2>4. \A o \in Range(todo') : lastBar'[o.symbol] <= o.decided /\ o.decided < bar'
    <3>1. ASSUME NEW o \in Range(pending) PROVE lastBar[o.symbol] <= o.decided /\ o.decided < bar + 1
      BY <2>1, QueueTypes DEF Waiting
    <3> QED BY <2>1, <3>1
  <2> QED BY <2>1, <2>3, <2>4 DEF Waiting
<1>2. CASE KeepPending \/ RejectAtExecution \/ FillOrder
  <2>1. /\ Executing /\ Walk /\ UNCHANGED <<bar, phase, slice, lastBar>>
    BY <1>2 DEF KeepPending, RejectAtExecution, FillOrder
  <2>2. /\ phase = "execute" /\ Head(todo) \in Range(todo) /\ Range(todo') \subseteq Range(todo)
        /\ Head(todo) \in QueuedOrders
    BY <2>1, HeadToExecute
  <2>3. \/ pending' = pending
        \/ Range(pending') = Range(pending) \cup {Head(todo)} /\ ~HasBar(Head(todo))
    <3>1. Range(Append(pending, Head(todo))) = Range(pending) \cup {Head(todo)}
      BY <2>2, AppendTypes DEF TypeInv, TypeOK
    <3>2. \/ pending' = pending
          \/ pending' = Append(pending, Head(todo)) /\ ~HasBar(Head(todo))
      BY <1>2 DEF KeepPending, RejectAtExecution, FillOrder
    <3> QED BY <3>1, <3>2
  <2>4. \/ fills' = fills
        \/ Range(fills') = Range(fills) \cup {Head(todo)} /\ HasBar(Head(todo))
    <3>1. Range(Append(fills, Head(todo))) = Range(fills) \cup {Head(todo)}
      BY <2>2, AppendTypes DEF TypeInv, TypeOK
    <3>2. \/ fills' = fills
          \/ fills' = Append(fills, Head(todo)) /\ HasBar(Head(todo))
      BY <1>2 DEF KeepPending, RejectAtExecution, FillOrder
    <3> QED BY <3>1, <3>2
  <2>5. \A o : HasBar(o)' <=> HasBar(o) BY <2>1 DEF HasBar
  <2>6. bar \in Nat /\ \A o \in QueuedOrders : o.decided \in Nat BY SwitchNumbers, QueueTypes
  <2>7. \A o \in Range(todo) \cup Range(fills) : lastBar[o.symbol] <= o.decided /\ o.decided < bar
    BY <2>2 DEF Waiting
  <2>8. \A o \in Range(pending') :
          lastBar'[o.symbol] <= o.decided /\ o.decided <= bar' /\ o.decided < bar' /\ ~HasBar(o)
    BY <2>1, <2>2, <2>3, <2>6, <2>7 DEF Waiting
  <2>9. \A o \in Range(todo') \cup Range(fills') :
          lastBar'[o.symbol] <= o.decided /\ o.decided < bar'
    BY <2>1, <2>2, <2>4, <2>7
  <2>10. \A o \in Range(fills') : HasBar(o) BY <2>2, <2>4 DEF Waiting
  <2>11. \A s \in Symbols : lastBar'[s] < bar' BY <2>1, <2>2 DEF Waiting
  <2>12. phase' = "execute" BY <2>1, <2>2
  <2>13. /\ \A o \in Range(fills') : HasBar(o)'
         /\ \A o \in Range(pending') : ~HasBar(o)'
    BY <2>5, <2>8, <2>10
  <2> QED BY <2>8, <2>9, <2>11, <2>12, <2>13 DEF Waiting
<1>3. CASE \E scale \in VolScales : Monitor(scale)
  <2>1. /\ phase = "execute" /\ phase' = "decide" /\ pending' = pending /\ bar' = bar
        /\ lastBar' = [s \in Symbols |-> IF slice[s] = NoPrice THEN lastBar[s] ELSE bar]
    BY <1>3 DEF Monitor
  <2>2. \A o \in Range(pending') : lastBar'[o.symbol] <= o.decided /\ o.decided <= bar'
                                   /\ o.decided < bar'
    <3>1. ASSUME NEW o \in Range(pending)
          PROVE  lastBar'[o.symbol] = lastBar[o.symbol]
      BY <2>1, QueueTypes DEF Waiting, HasBar
    <3> QED BY <2>1, <3>1 DEF Waiting
  <2> QED BY <2>1, <2>2 DEF Waiting
<1>4. CASE \E intents \in IntentLists : Decide(intents)
  <2>1. /\ phase' = "check" /\ UNCHANGED <<pending, bar, lastBar>> BY <1>4 DEF Decide
  <2> QED BY <2>1 DEF Waiting
<1>5. CASE RejectAtCheck \/ EndBar
  <2>1. phase' \in {"check", "feed"} /\ UNCHANGED <<pending, bar, lastBar>>
    BY <1>5 DEF RejectAtCheck, EndBar, Checking
  <2> QED BY <2>1 DEF Waiting
<1>6. CASE Submit
  <2> DEFINE o == Queued(Checked(Head(todo)))
  <2>1. /\ Checking /\ ~Blocked(Head(todo)) /\ pending' = Append(pending, o)
        /\ UNCHANGED <<phase, bar, lastBar>>
    BY <1>6 DEF Submit
  <2>2. phase = "check" /\ o \in QueuedOrders /\ o.decided = bar
    BY <2>1, HeadToCheck, CheckedType, QueuedType
  <2> HIDE DEF o
  <2>3. Range(pending') = Range(pending) \cup {o}
    BY <2>1, <2>2, AppendTypes DEF TypeInv, TypeOK
  <2>4. bar \in Nat /\ lastBar[o.symbol] <= bar
    BY <2>2, QueueTypes, SwitchNumbers DEF TypeInv, Shape
  <2>5. \A x \in Range(pending') : lastBar'[x.symbol] <= x.decided /\ x.decided <= bar'
    BY <2>1, <2>2, <2>3, <2>4 DEF Waiting
  <2> QED BY <2>1, <2>2, <2>5 DEF Waiting
<1>7. CASE UNCHANGED vars BY <1>7 DEF vars, Waiting, HasBar
<1> QED BY <1>1, <1>2, <1>3, <1>4, <1>5, <1>6, <1>7 DEF Next

LEMMA BackedStep == ASSUME TypeInv, Waiting, Backed, [Next]_vars PROVE Backed'
<1>1. CASE \E bars \in Slices : NextBar(bars)
  <2>1. todo' = pending /\ Range(pending') = {} /\ book' = book
    BY <1>1, EmptyTypes DEF NextBar
  <2> QED BY <2>1 DEF Backed
<1>2. CASE KeepPending
  <2>1. /\ Executing /\ Walk /\ pending' = Append(pending, Head(todo)) /\ ~HasBar(Head(todo))
        /\ UNCHANGED <<phase, book, fills>>
    BY <1>2 DEF KeepPending
  <2>2. /\ phase = "execute" /\ Head(todo) \in Range(todo) /\ Range(todo') \subseteq Range(todo)
        /\ Head(todo) \in QueuedOrders
    BY <2>1, HeadToExecute
  <2>3. Range(pending') = Range(pending) \cup {Head(todo)}
    BY <2>1, <2>2, AppendTypes DEF TypeInv, TypeOK
  <2>4. ~Sold(Head(todo).symbol) BY <2>1, <2>2 DEF Waiting, Sold, HasBar
  <2>5. \A o \in Range(pending') : o.held <= book'.qty[o.symbol]
    BY <2>1, <2>2, <2>3, <2>4 DEF Backed
  <2>6. \A o \in Range(todo') : o.held <= book'.qty[o.symbol] \/ Sold(o.symbol)'
    BY <2>1, <2>2 DEF Backed, Sold
  <2> QED BY <2>5, <2>6 DEF Backed
<1>3. CASE RejectAtExecution
  <2>1. Executing /\ Walk /\ UNCHANGED <<phase, book, fills, pending>>
    BY <1>3 DEF RejectAtExecution
  <2>2. phase = "execute" /\ Range(todo') \subseteq Range(todo) BY <2>1, HeadToExecute
  <2>3. \A s : Sold(s)' <=> Sold(s) BY <2>1 DEF Sold
  <2> QED BY <2>1, <2>2, <2>3 DEF Backed
<1>4. CASE FillOrder
  <2> DEFINE o == Head(todo)
  <2>1. /\ Executing /\ Walk /\ HasBar(o) /\ ~Oversold(o)
        /\ book' = ApplyFill(book, o, Open(o)) /\ fills' = Append(fills, o)
        /\ UNCHANGED <<phase, pending>>
    BY <1>4 DEF FillOrder
  <2>2. /\ phase = "execute" /\ Range(todo') \subseteq Range(todo) /\ o \in QueuedOrders
    BY <2>1, HeadToExecute
  <2> HIDE DEF o
  <2>3. Range(fills') = Range(fills) \cup {o}
    BY <2>1, <2>2, AppendTypes DEF TypeInv, TypeOK
  <2>4. /\ \A s \in Symbols \ {o.symbol} : book'.qty[s] = book.qty[s]
        /\ o.side = "BUY" => book'.qty[o.symbol] = book.qty[o.symbol] + o.qty
    <3>1. book.cash \in Int /\ book.qty \in [Symbols -> Nat] BY DEF TypeInv, TypeOK
    <3>2. Open(o) \in Nat \ {0}
      <4>1. o.symbol \in Symbols /\ slice[o.symbol] # NoPrice
        BY <2>1, <2>2 DEF HasBar, QueuedOrders
      <4> QED BY <4>1, BarTypes DEF TypeInv, Shape, Open
    <3>3. ~(o.side = "SELL" /\ o.qty > book.qty[o.symbol]) BY <2>1 DEF Oversold
    <3> QED BY <2>1, <2>2, <3>1, <3>2, <3>3, FillTypes
  <2>5. \A x \in Range(pending') : x.held <= book'.qty[x.symbol]
    <3>1. ASSUME NEW x \in Range(pending) PROVE book'.qty[x.symbol] = book.qty[x.symbol]
      <4>1. x.symbol # o.symbol BY <2>1, <2>2 DEF Waiting, HasBar
      <4> QED BY <2>4, <4>1, QueueTypes
    <3> QED BY <2>1, <3>1 DEF Backed
  <2>6. ASSUME NEW x \in Range(todo') PROVE x.held <= book'.qty[x.symbol] \/ Sold(x.symbol)'
    <3>1. /\ x \in Range(todo) /\ x \in QueuedOrders /\ x.symbol \in Symbols
      BY <2>2, QueueTypes
    <3>2. CASE Sold(x.symbol) BY <2>3, <3>2 DEF Sold
    <3>3. CASE ~Sold(x.symbol)
      <4>1. x.held <= book.qty[x.symbol] BY <2>2, <3>1, <3>3 DEF Backed
      <4>2. CASE x.symbol # o.symbol BY <2>4, <3>1, <4>1, <4>2
      <4>3. CASE x.symbol = o.symbol /\ o.side = "BUY"
        <5>1. x.held \in Nat /\ book.qty[o.symbol] \in Nat /\ o.qty \in Nat
          BY <2>2, <3>1, QueueTypes
        <5> QED BY <2>4, <4>1, <4>3, <5>1
      <4>4. CASE x.symbol = o.symbol /\ o.side = "SELL" BY <2>3, <4>4 DEF Sold
      <4> QED BY <2>2, <4>2, <4>3, <4>4 DEF QueuedOrders
    <3> QED BY <3>2, <3>3
  <2> QED BY <2>5, <2>6 DEF Backed
<1>5. CASE \E scale \in VolScales : Monitor(scale)
  <2>1. phase' = "decide" /\ UNCHANGED <<pending, book>> BY <1>5 DEF Monitor
  <2> QED BY <2>1 DEF Backed
<1>6. CASE \E intents \in IntentLists : Decide(intents)
  <2>1. phase' = "check" /\ UNCHANGED <<pending, book>> BY <1>6 DEF Decide
  <2> QED BY <2>1 DEF Backed
<1>7. CASE RejectAtCheck \/ EndBar
  <2>1. phase' \in {"check", "feed"} /\ UNCHANGED <<pending, book>>
    BY <1>7 DEF RejectAtCheck, EndBar, Checking
  <2> QED BY <2>1 DEF Backed
<1>8. CASE Submit
  <2> DEFINE c == Checked(Head(todo))
  <2>1. /\ Checking /\ ~Blocked(Head(todo)) /\ pending' = Append(pending, Queued(c))
        /\ UNCHANGED <<phase, book>>
    BY <1>8 DEF Submit
  <2>2. phase = "check" /\ c \in Orders BY <2>1, HeadToCheck, CheckedType
  <2> HIDE DEF c
  <2>3. Queued(c) \in QueuedOrders /\ Queued(c).symbol = c.symbol
        /\ Queued(c).held = book.qty[c.symbol]
    BY <2>2, QueuedType
  <2>4. Range(pending') = Range(pending) \cup {Queued(c)}
    BY <2>1, <2>3, AppendTypes DEF TypeInv, TypeOK
  <2>5. book.qty[c.symbol] <= book.qty[c.symbol]
    <3>1. book.qty[c.symbol] \in Nat BY <2>2 DEF Orders, TypeInv, TypeOK
    <3> QED BY <3>1
  <2> QED BY <2>1, <2>2, <2>3, <2>4, <2>5 DEF Backed
<1>9. CASE UNCHANGED vars BY <1>9 DEF vars, Backed, Sold
<1> QED BY <1>1, <1>2, <1>3, <1>4, <1>5, <1>6, <1>7, <1>8, <1>9 DEF Next

LEMMA QueueAlways == Spec => []QueueInv
<1>1. Init => Waiting /\ Backed
  BY EmptyTypes DEF Init, Waiting, Backed
<1>2. QueueInv /\ [Next]_vars => QueueInv' BY TypesStep, WaitingStep, BackedStep DEF QueueInv
<1> QED BY <1>1, <1>2, TypesInit, PTL DEF Spec, QueueInv

(* No look-ahead and no delay, whatever the feed skips (ADR-0001;            *)
(* SimulatedBroker.on_bar).                                                  *)
THEOREM FirstBarAfterTheDecision == Spec => []FirstBarAfterDecision
<1>1. QueueInv => FirstBarAfterDecision
  <2> SUFFICES ASSUME QueueInv PROVE FirstBarAfterDecision OBVIOUS
  <2>1. \A o \in AtBroker : \/ o \in Range(pending)
                            \/ phase = "execute" /\ o \in Range(todo)
    BY DEF AtBroker
  <2>2. \A o \in AtBroker : lastBar[o.symbol] <= o.decided BY <2>1 DEF QueueInv, Waiting
  <2>3. phase = "execute" => \A o \in AtBroker \cup Range(fills) :
          lastBar[o.symbol] <= o.decided /\ o.decided < bar
    BY <2>1 DEF QueueInv, Waiting
  <2> QED BY <2>2, <2>3 DEF FirstBarAfterDecision
<1> QED BY <1>1, QueueAlways, PTL

ExitStep ==
  /\ Checking /\ IsExit(Head(todo)) => pending' = Append(pending, Queued(Head(todo)))
  /\ Executing /\ HasBar(Head(todo))
       /\ Head(todo).side = "SELL" /\ Head(todo).qty <= Head(todo).held =>
       \/ fills' = Append(fills, Head(todo))
       \/ \E f \in Range(fills) : f.side = "SELL" /\ f.symbol = Head(todo).symbol

LEMMA ExitsStep == ASSUME QueueInv, Next PROVE ExitStep
<1>1. ASSUME Checking, IsExit(Head(todo)) PROVE pending' = Append(pending, Queued(Head(todo)))
  <2>1. Head(todo).side = "SELL" /\ Uncapped(Head(todo)) BY <1>1 DEF IsExit, Uncapped
  <2>2. ~Blocked(Head(todo)) BY <1>1, <2>1 DEF Blocked
  <2>3. phase = "check" /\ todo # <<>> BY <1>1 DEF Checking
  <2>4. Submit
    BY <2>2, <2>3 DEF Next, NextBar, KeepPending, RejectAtExecution, FillOrder, Executing, Monitor,
                      Decide, RejectAtCheck, EndBar
  <2>5. Checked(Head(todo)) = Head(todo) BY <2>1 DEF Checked
  <2> QED BY <2>4, <2>5 DEF Submit
<1>2. ASSUME Executing, HasBar(Head(todo)), Head(todo).side = "SELL",
             Head(todo).qty <= Head(todo).held
      PROVE  fills' = Append(fills, Head(todo)) \/ Sold(Head(todo).symbol)
  <2>1. phase = "execute" /\ todo # <<>> BY <1>2 DEF Executing
  <2>2. FillOrder \/ RejectAtExecution
    BY <1>2, <2>1 DEF Next, NextBar, KeepPending, Monitor, Decide, RejectAtCheck, Submit, EndBar,
                      Checking
  <2>3. CASE FillOrder BY <2>3 DEF FillOrder
  <2>4. CASE RejectAtExecution
    <3> DEFINE o == Head(todo)
    <3>1. o \in Range(todo) /\ o \in QueuedOrders
      BY <1>2, <2>4, HeadToExecute DEF RejectAtExecution, QueueInv
    <3>2. o.qty > book.qty[o.symbol] BY <1>2, <2>4 DEF RejectAtExecution, Underfunded, Oversold
    <3>3. o.qty <= o.held BY <1>2
    <3>4. o.held <= book.qty[o.symbol] \/ Sold(o.symbol)
      BY <2>1, <3>1 DEF QueueInv, Backed
    <3>5. o.qty \in Nat /\ o.held \in Nat /\ book.qty[o.symbol] \in Nat
      BY <3>1, QueueTypes DEF QueueInv
    <3> HIDE DEF o
    <3>6. Sold(o.symbol) BY <3>2, <3>3, <3>4, <3>5
    <3> QED BY <3>6 DEF o
  <2> QED BY <2>2, <2>3, <2>4
<1> QED BY <1>1, <1>2 DEF ExitStep, Sold

(* There is always a way out: an exit passes the check as it is, and at the  *)
(* broker only an earlier sell of the same symbol stops it (Guardrails.check,*)
(* ADR-0013).                                                                *)
THEOREM ExitsAlwaysGoThrough == Spec => ExitsGoThrough
<1>1. QueueInv /\ [Next]_vars => [ExitStep]_vars BY ExitsStep
<1>2. Spec => [][ExitStep]_vars BY <1>1, QueueAlways, PTL DEF Spec
<1> QED BY <1>2 DEF ExitsGoThrough, ExitStep

-----------------------------------------------------------------------------
(* The caps *)

LEMMA ValueTimes ==
  ASSUME NEW p \in Marks, p # NoPrice
  PROVE  /\ Value(0, p) = 0
         /\ \A n \in Nat : Value(n, p) = n * Value(1, p)
         /\ \A m, n \in Nat : Value(m + n, p) = Value(m, p) + Value(n, p)
<1>1. p \in Nat /\ Money \in Nat BY CostTypes DEF Marks
<1>2. \A n \in Nat : n * p * Money = n * (1 * p * Money)
  <2>1. \A n \in Nat : n * p * Money = n * (p * Money) BY <1>1
  <2>2. 1 * p * Money = p * Money BY <1>1
  <2> QED BY <2>1, <2>2
<1>3. \A m, n \in Nat : (m + n) * p * Money = m * p * Money + n * p * Money
  <2>1. SUFFICES ASSUME NEW m \in Nat, NEW n \in Nat
                 PROVE  (m + n) * p * Money = m * p * Money + n * p * Money
    OBVIOUS
  <2>2. (m + n) * p = m * p + n * p /\ m * p \in Nat /\ n * p \in Nat BY <1>1
  <2> QED BY <1>1, <2>2
<1>4. 0 * p * Money = 0 BY <1>1
<1> QED BY <1>2, <1>3, <1>4 DEF Value

LEMMA Monotone ==
  ASSUME NEW a \in Int, NEW b \in Int, a <= b, NEW v \in Nat
  PROVE  a * v <= b * v /\ a * v \in Int /\ b * v \in Int
OBVIOUS

-----------------------------------------------------------------------------
(* What a bar has bought *)

LEMMA BuysType ==
  ASSUME TypeInv, NEW s
  PROVE  /\ IsFiniteSet(BuysThisBar(s)) /\ DOMAIN pending = 1..Len(pending) /\ Len(pending) \in Nat
         /\ \A i \in BuysThisBar(s) : i \in 1..Len(pending) /\ pending[i].qty \in Nat \ {0}
         /\ BoughtThisBar(s) = SumFunctionOnSet([i \in BuysThisBar(s) |-> pending[i].qty],
                                                BuysThisBar(s))
         /\ BoughtThisBar(s) \in Nat
<1>1. pending \in Seq(QueuedOrders) BY DEF TypeInv, TypeOK
<1>2. DOMAIN pending = 1..Len(pending) /\ Len(pending) \in Nat BY <1>1
<1>3. \A i \in 1..Len(pending) : pending[i] \in QueuedOrders BY <1>1
<1>4. \A i \in BuysThisBar(s) : i \in 1..Len(pending) /\ pending[i].qty \in Nat \ {0}
  BY <1>2, <1>3 DEF BuysThisBar, QueuedOrders
<1>5. IsFiniteSet(BuysThisBar(s))
  <2>1. 1 \in Int /\ Len(pending) \in Int BY <1>2
  <2>2. IsFiniteSet(1..Len(pending)) BY <2>1, FS_Interval
  <2>3. BuysThisBar(s) \in SUBSET (1..Len(pending)) BY <1>4
  <2> QED BY <2>2, <2>3, FS_Subset
<1> DEFINE B == BuysThisBar(s)
           f == [i \in B |-> pending[i].qty]
<1>6. DOMAIN f = B /\ \A i \in B : f[i] \in Nat BY <1>4
<1>7. BoughtThisBar(s) = SumFunctionOnSet(f, B) BY <1>6 DEF BoughtThisBar, SumFunction
<1>8. IsFiniteSet(B) BY <1>5
<1>9. SumFunctionOnSet(f, B) \in Nat
  <2> HIDE DEF f, B
  <2> QED BY <1>6, <1>8, SumNat
<1> QED BY <1>2, <1>4, <1>5, <1>7, <1>9

LEMMA NothingBought ==
  ASSUME TypeInv, \A o \in Range(pending) : o.decided < bar, NEW s
  PROVE  BoughtThisBar(s) = 0
<1>1. BuysThisBar(s) = {}
  <2>1. SUFFICES ASSUME NEW i \in BuysThisBar(s) PROVE FALSE OBVIOUS
  <2>2. pending[i] \in Range(pending) /\ pending[i].decided = bar BY DEF BuysThisBar, Range
  <2>3. bar < bar /\ bar \in Nat BY <2>2, SwitchNumbers
  <2> QED BY <2>3
<1> DEFINE f == [i \in BuysThisBar(s) |-> pending[i].qty]
<1>2. BoughtThisBar(s) = SumFunctionOnSet(f, BuysThisBar(s)) BY BuysType
<1> HIDE DEF f
<1>3. SumFunctionOnSet(f, {}) = 0 BY SumEmpty
<1> QED BY <1>1, <1>2, <1>3

LEMMA BoughtSame ==
  ASSUME pending' = pending, bar' = bar, NEW s PROVE BoughtThisBar(s)' = BoughtThisBar(s)
BY DEF BoughtThisBar, BuysThisBar

LEMMA AppendBought ==
  ASSUME TypeInv, NEW x \in QueuedOrders, pending' = Append(pending, x), bar' = bar, NEW s
  PROVE  BoughtThisBar(s)' = BoughtThisBar(s)
           + (IF x.symbol = s /\ x.side = "BUY" /\ x.decided = bar THEN x.qty ELSE 0)
<1> DEFINE B == BuysThisBar(s)
           n == Len(pending) + 1
           f == [i \in B |-> pending[i].qty]
<1>1. /\ IsFiniteSet(B) /\ DOMAIN pending = 1..Len(pending) /\ Len(pending) \in Nat
      /\ \A i \in B : i \in 1..Len(pending) /\ pending[i].qty \in Nat \ {0}
      /\ BoughtThisBar(s) = SumFunctionOnSet(f, B) /\ BoughtThisBar(s) \in Nat
  BY BuysType
<1>2. /\ DOMAIN pending' = DOMAIN pending \cup {n} /\ pending'[n] = x
      /\ \A i \in DOMAIN pending : pending'[i] = pending[i]
  BY AppendTypes DEF TypeInv, TypeOK
<1>3. n \notin DOMAIN pending /\ n \notin B BY <1>1
<1>4. BuysThisBar(s)' = {i \in DOMAIN pending' : pending'[i].symbol = s /\ pending'[i].side = "BUY"
                                                 /\ pending'[i].decided = bar}
  BY DEF BuysThisBar
<1>5. CASE x.symbol = s /\ x.side = "BUY" /\ x.decided = bar
  <2> DEFINE D == B \cup {n}
             g == [i \in D |-> pending'[i].qty]
  <2>1. BuysThisBar(s)' = D BY <1>2, <1>4, <1>5 DEF BuysThisBar
  <2>2. BoughtThisBar(s)' = SumFunction(g) BY <2>1 DEF BoughtThisBar
  <2>3. DOMAIN g = D OBVIOUS
  <2>4. BoughtThisBar(s)' = SumFunctionOnSet(g, D)
    <3> HIDE DEF g
    <3> QED BY <2>2, <2>3 DEF SumFunction
  <2>5. \A i \in B : g[i] = f[i] /\ f[i] \in Int BY <1>1, <1>2
  <2>6. x.qty \in Int BY DEF QueuedOrders
  <2>7. g[n] = x.qty /\ \A i \in D : g[i] \in Int BY <1>2, <2>5, <2>6
  <2> HIDE DEF g, f, n, B
  <2>8. SumFunctionOnSet(g, B \cup {n}) = SumFunctionOnSet(g, B) + g[n]
    BY <1>1, <1>3, <2>7, SumAdd
  <2>9. SumFunctionOnSet(g, B) = SumFunctionOnSet(f, B) BY <1>1, <2>5, SumSame
  <2> QED BY <1>1, <1>5, <2>4, <2>7, <2>8, <2>9
<1>6. CASE ~(x.symbol = s /\ x.side = "BUY" /\ x.decided = bar)
  <2>1. BuysThisBar(s)' = B BY <1>2, <1>4, <1>6 DEF BuysThisBar
  <2>2. [i \in B |-> pending'[i].qty] = f BY <1>1, <1>2
  <2>3. BoughtThisBar(s)' = SumFunction([i \in B |-> pending'[i].qty]) BY <2>1 DEF BoughtThisBar
  <2>4. BoughtThisBar(s)' = SumFunction(f) BY <2>2, <2>3
  <2>5. BoughtThisBar(s)' = BoughtThisBar(s) BY <2>4 DEF BoughtThisBar
  <2> HIDE DEF f, B
  <2> QED BY <1>1, <1>6, <2>5
<1> QED BY <1>5, <1>6

(* The tallies of a bar are what it queued to buy, at the marks.             *)
Spent ==
  [s \in Symbols |-> IF committedQty[s] > 0 THEN Value(committedQty[s], lastClose[s]) ELSE 0]

SectorMembers(x) == {s \in Symbols : SectorOf[s] = x}

Tallied ==
  phase # "execute" =>
    /\ \A s \in Symbols : BoughtThisBar(s) = committedQty[s]
    /\ \A s \in Symbols : committedQty[s] > 0 => s \in Priced
    /\ committedGross = SumFunctionOnSet(Spent, Symbols)
    /\ \A x \in Sectors : committedSector[x] = SumFunctionOnSet(Spent, SectorMembers(x))

LEMMA SpentTypes ==
  ASSUME TypeInv, Tallied, phase # "execute"
  PROVE  /\ \A s \in Symbols : Spent[s] \in Nat
         /\ \A s \in Priced : Spent[s] = Value(committedQty[s], lastClose[s])
                              /\ Value(committedQty[s], lastClose[s]) \in Nat
         /\ IsFiniteSet(Symbols) /\ \A x : IsFiniteSet(SectorMembers(x))
<1>1. committedQty \in [Symbols -> Nat] /\ lastClose \in [Symbols -> Marks]
  BY DEF TypeInv, TypeOK, Shape
<1>2. \A s \in Priced : s \in Symbols /\ lastClose[s] \in Marks /\ lastClose[s] # NoPrice
  BY <1>1 DEF Priced
<1>3. \A s \in Priced : Value(committedQty[s], lastClose[s]) \in Nat BY <1>1, <1>2, ValueType
<1>4. \A s \in Priced : Value(0, lastClose[s]) = 0 BY <1>2, ValueTimes
<1>5. \A s \in Symbols : Spent[s] = IF committedQty[s] > 0
                                    THEN Value(committedQty[s], lastClose[s]) ELSE 0
  BY DEF Spent
<1>6. \A s \in Priced : Spent[s] = Value(committedQty[s], lastClose[s])
  <2>1. ASSUME NEW s \in Priced PROVE Spent[s] = Value(committedQty[s], lastClose[s])
    <3>1. s \in Symbols /\ committedQty[s] \in Nat BY <1>1, <1>2
    <3>2. CASE committedQty[s] > 0 BY <1>5, <3>1, <3>2
    <3>3. CASE committedQty[s] = 0 BY <1>4, <1>5, <3>1, <3>3
    <3> QED BY <3>1, <3>2, <3>3
  <2> QED BY <2>1
<1>7. \A s \in Symbols : Spent[s] \in Nat BY <1>3, <1>5 DEF Tallied
<1>8. IsFiniteSet(Symbols) BY EngineAssumption
<1>9. \A x : IsFiniteSet(SectorMembers(x))
  <2>1. \A x : SectorMembers(x) \in SUBSET Symbols BY DEF SectorMembers
  <2> QED BY <1>8, <2>1, FS_Subset
<1> QED BY <1>3, <1>6, <1>7, <1>8, <1>9

LEMMA TalliedMonitor ==
  ASSUME TypeInv, Waiting, NEW scale \in VolScales, Monitor(scale) PROVE Tallied'
<1>1. /\ phase = "execute" /\ pending' = pending /\ bar' = bar
      /\ committedQty' = [s \in Symbols |-> 0] /\ committedGross' = 0
      /\ committedSector' = [x \in Sectors |-> 0]
  BY DEF Monitor
<1>2. \A s \in Symbols : BoughtThisBar(s)' = 0 BY <1>1, NothingBought, BoughtSame DEF Waiting
<1>3. \A s \in Symbols : committedQty'[s] = 0 BY <1>1
<1>4. \A s \in Symbols : Spent'[s] = 0 BY <1>3 DEF Spent
<1> DEFINE w == Spent'
<1>5. IsFiniteSet(Symbols) BY EngineAssumption
<1>6. \A T \in SUBSET Symbols : SumFunctionOnSet(w, T) = 0
  <2>1. ASSUME NEW T \in SUBSET Symbols PROVE SumFunctionOnSet(w, T) = 0
    <3>1. \A s \in T : w[s] = 0 BY <1>4
    <3>2. IsFiniteSet(T) BY <1>5, FS_Subset
    <3> HIDE DEF w
    <3> QED BY <3>1, <3>2, SumZero
  <2> QED BY <2>1
<1>7. committedGross' = SumFunctionOnSet(w, Symbols) BY <1>1, <1>6
<1>8. \A x \in Sectors : committedSector'[x] = SumFunctionOnSet(w, SectorMembers(x))
  <2>1. \A x : SectorMembers(x) \in SUBSET Symbols BY DEF SectorMembers
  <2> HIDE DEF w
  <2> QED BY <1>1, <1>6, <2>1
<1>9. \A s \in Symbols : BoughtThisBar(s)' = committedQty'[s] BY <1>2, <1>3
<1>10. \A s \in Symbols : ~(committedQty'[s] > 0) BY <1>3
<1> QED BY <1>7, <1>8, <1>9, <1>10 DEF Tallied, SectorMembers, Sectors

(* A submission in the terms of what it adds.                                *)
LEMMA Submission ==
  ASSUME TypeInv, Submit
  PROVE  LET c == Checked(Head(todo)) IN
         /\ phase = "check" /\ phase' = "check" /\ bar' = bar /\ c \in Orders /\ c.symbol \in Priced
         /\ UNCHANGED <<switchVars, slice, book, lastClose, volScale>>
         /\ pending' = Append(pending, Queued(c)) /\ Queued(c) \in QueuedOrders
         /\ Queued(c).symbol = c.symbol /\ Queued(c).side = c.side /\ Queued(c).qty = c.qty
         /\ Queued(c).decided = bar
         /\ Commit(c) /\ (Uncapped(c) <=> c.side = "SELL")
         /\ c.side # "SELL" =>
              /\ c.side = "BUY" /\ EquityNow > 0 /\ c.qty \in Nat \ {0}
              /\ c.qty <= PositionRoom(c.symbol) /\ c.qty <= GrossRoom(c.symbol)
              /\ SectorCapped(c.symbol) => c.qty <= SectorRoom(c.symbol)
<1> DEFINE o == Head(todo)
           c == Checked(o)
<1>1. /\ Checking /\ ~Blocked(o) /\ pending' = Append(pending, Queued(c)) /\ Commit(c)
      /\ UNCHANGED <<switchVars, bar, phase, slice, book, lastClose, volScale>>
  BY DEF Submit
<1>2. phase = "check" /\ o \in Orders /\ o.symbol \in Priced BY <1>1, HeadToCheck
<1> HIDE DEF o
<1>3. /\ c \in Orders /\ c.symbol = o.symbol /\ c.side = o.side
      /\ Uncapped(o) <=> o.side = "SELL"
      /\ Uncapped(c) <=> Uncapped(o)
      /\ ~Uncapped(o) => c.qty = AllowedQty(o)
  BY <1>1, <1>2, CheckedType
<1> HIDE DEF c
<1>4. /\ Queued(c) \in QueuedOrders /\ Queued(c).symbol = c.symbol /\ Queued(c).side = c.side
      /\ Queued(c).qty = c.qty /\ Queued(c).decided = bar
  BY <1>2, <1>3, QueuedType
<1>5. ASSUME c.side # "SELL"
      PROVE  /\ c.side = "BUY" /\ EquityNow > 0 /\ c.qty \in Nat \ {0}
             /\ c.qty <= PositionRoom(c.symbol) /\ c.qty <= GrossRoom(c.symbol)
             /\ SectorCapped(c.symbol) => c.qty <= SectorRoom(c.symbol)
  <2>1. ~Uncapped(o) /\ c.side = "BUY" /\ c.qty \in Nat \ {0} BY <1>3, <1>5 DEF Orders
  <2>2. ~(EquityNow <= 0) BY <1>1, <2>1 DEF Blocked
  <2>3. EquityNow > 0
    <3>1. EquityNow \in Int BY <1>2, MarkedBook
    <3> QED BY <2>2, <3>1
  <2> QED BY <1>2, <1>3, <2>1, <2>3, AllowedBound
<1> QED BY <1>1, <1>2, <1>3, <1>4, <1>5 DEF c, o

LEMMA TalliedSubmit ==
  ASSUME TypeInv, Tallied, Submit PROVE Tallied'
<1> DEFINE c == Checked(Head(todo))
<1>1. /\ phase = "check" /\ phase' = "check" /\ bar' = bar /\ c \in Orders /\ c.symbol \in Priced
      /\ lastClose' = lastClose
      /\ pending' = Append(pending, Queued(c)) /\ Queued(c) \in QueuedOrders
      /\ Queued(c).symbol = c.symbol /\ Queued(c).side = c.side /\ Queued(c).qty = c.qty
      /\ Queued(c).decided = bar
      /\ Commit(c) /\ (Uncapped(c) <=> c.side = "SELL")
      /\ c.side # "SELL" => c.side = "BUY" /\ c.qty \in Nat \ {0}
  BY Submission
<1> HIDE DEF c
<1>2. \A s \in Symbols : BoughtThisBar(s)' = BoughtThisBar(s)
                           + (IF c.symbol = s /\ c.side = "BUY" THEN c.qty ELSE 0)
  BY <1>1, AppendBought
<1>3. /\ \A s \in Symbols : BoughtThisBar(s) = committedQty[s] /\ committedQty[s] \in Nat
      /\ \A s \in Symbols : committedQty[s] > 0 => s \in Priced
      /\ committedGross = SumFunctionOnSet(Spent, Symbols)
      /\ \A x \in Sectors : committedSector[x] = SumFunctionOnSet(Spent, SectorMembers(x))
  BY <1>1 DEF Tallied, TypeInv, TypeOK
<1>4. Priced' = Priced BY <1>1 DEF Priced
<1>5. CASE c.side = "SELL"
  <2>1. UNCHANGED <<committedQty, committedGross, committedSector>>
    BY <1>1, <1>5 DEF Commit
  <2>2. \A s \in Symbols : BoughtThisBar(s)' = committedQty'[s]
    BY <1>2, <1>3, <1>5, <2>1
  <2>3. Spent' = Spent BY <1>1, <2>1 DEF Spent
  <2> QED BY <1>3, <1>4, <2>1, <2>2, <2>3 DEF Tallied, SectorMembers, Sectors
<1>6. CASE c.side # "SELL"
  <2> DEFINE k == c.symbol
             p == lastClose[k]
             value == Value(c.qty, p)
             w == Spent'
  <2>1. k \in Symbols /\ k \in Priced /\ c.qty \in Nat \ {0} /\ p \in Marks /\ p # NoPrice
    BY <1>1, <1>6 DEF Priced, TypeInv, Shape
  <2>2. /\ committedQty' = [committedQty EXCEPT ![k] = @ + c.qty]
        /\ committedGross' = committedGross + value
        /\ committedSector' = [x \in Sectors |->
             committedSector[x] + IF x = SectorOf[k] THEN value ELSE 0]
    BY <1>1, <1>6 DEF Commit
  <2>3. committedQty \in [Symbols -> Nat] BY DEF TypeInv, TypeOK
  <2>4. /\ committedQty'[k] = committedQty[k] + c.qty
        /\ \A s \in Symbols \ {k} : committedQty'[s] = committedQty[s]
    BY <2>1, <2>2, <2>3
  <2>5. committedQty[k] \in Nat /\ committedQty'[k] > 0 BY <2>1, <2>3, <2>4
  <2>6. value \in Nat BY <2>1, ValueType
  <2>7. /\ Spent[k] = Value(committedQty[k], p)
        /\ \A s \in Symbols : Spent[s] \in Nat
        /\ IsFiniteSet(Symbols) /\ \A x : IsFiniteSet(SectorMembers(x))
    BY <1>1, <2>1, SpentTypes
  <2>8. w[k] = Spent[k] + value
    <3>1. w[k] = Value(committedQty[k] + c.qty, p) BY <1>1, <2>1, <2>4, <2>5 DEF Spent
    <3>2. Value(committedQty[k] + c.qty, p) = Value(committedQty[k], p) + Value(c.qty, p)
      BY <2>1, <2>5, ValueTimes
    <3> QED BY <2>7, <3>1, <3>2
  <2>9. \A s \in Symbols \ {k} : w[s] = Spent[s] BY <1>1, <2>4 DEF Spent
  <2> DEFINE u == Spent
  <2>10. /\ w[k] = u[k] + value /\ \A s \in Symbols \ {k} : w[s] = u[s]
         /\ \A s \in Symbols : u[s] \in Nat
    BY <2>7, <2>8, <2>9
  <2> HIDE DEF w, value, u
  <2>11. ASSUME NEW T \in SUBSET Symbols, k \in T
         PROVE  SumFunctionOnSet(w, T) = SumFunctionOnSet(u, T) + value
    <3>1. IsFiniteSet(T) BY <2>7, FS_Subset
    <3>2. /\ \A s \in T : u[s] \in Int
          /\ w[k] \in Int /\ \A s \in T \ {k} : w[s] = u[s]
      BY <2>1, <2>6, <2>10
    <3>3. SumFunctionOnSet(w, T) = SumFunctionOnSet(u, T) - u[k] + w[k]
      BY <2>11, <3>1, <3>2, SumChange
    <3>4. SumFunctionOnSet(u, T) \in Int BY <3>1, <3>2, SumType
    <3>5. u[k] \in Int BY <2>11, <3>2
    <3> QED BY <2>6, <2>10, <3>3, <3>4, <3>5
  <2>12. ASSUME NEW T \in SUBSET Symbols, k \notin T
         PROVE  SumFunctionOnSet(w, T) = SumFunctionOnSet(u, T)
    <3>1. IsFiniteSet(T) BY <2>7, FS_Subset
    <3>2. \A s \in T : u[s] \in Int /\ w[s] = u[s] BY <2>10, <2>12
    <3> QED BY <3>1, <3>2, SumSame
  <2>13. committedGross' = SumFunctionOnSet(w, Symbols)
    BY <1>3, <2>1, <2>2, <2>11 DEF u
  <2>14. ASSUME NEW x \in Sectors
         PROVE  committedSector'[x] = SumFunctionOnSet(w, SectorMembers(x))
    <3>1. SectorMembers(x) \in SUBSET Symbols BY DEF SectorMembers
    <3>2. committedSector[x] = SumFunctionOnSet(u, SectorMembers(x)) BY <1>3 DEF u
    <3>3. CASE x = SectorOf[k]
      <4>1. k \in SectorMembers(x) BY <2>1, <3>3 DEF SectorMembers
      <4>2. committedSector'[x] = committedSector[x] + value BY <2>2, <3>3
      <4> QED BY <2>11, <3>1, <3>2, <4>1, <4>2
    <3>4. CASE x # SectorOf[k]
      <4>1. k \notin SectorMembers(x) BY <3>4 DEF SectorMembers
      <4>2. committedSector[x] \in Nat BY DEF TypeInv, TypeOK
      <4>3. committedSector'[x] = committedSector[x] BY <2>2, <3>4, <4>2
      <4> QED BY <2>12, <3>1, <3>2, <4>1, <4>3
    <3> QED BY <3>3, <3>4
  <2>15. \A s \in Symbols : BoughtThisBar(s)' = committedQty'[s]
    <3>1. ASSUME NEW s \in Symbols PROVE BoughtThisBar(s)' = committedQty'[s]
      <4>1. CASE s = k BY <1>1, <1>2, <1>3, <1>6, <2>4, <4>1
      <4>2. CASE s # k BY <1>2, <1>3, <2>4, <4>2
      <4> QED BY <4>1, <4>2
    <3> QED BY <3>1
  <2>16. \A s \in Symbols : committedQty'[s] > 0 => s \in Priced BY <1>3, <2>1, <2>4
  <2> QED BY <1>4, <2>13, <2>14, <2>15, <2>16 DEF w, Tallied, SectorMembers, Sectors
<1> QED BY <1>5, <1>6

LEMMA TalliedStep == ASSUME TypeInv, Waiting, Tallied, [Next]_vars PROVE Tallied'
<1>1. CASE \/ \E bars \in Slices : NextBar(bars)
           \/ KeepPending \/ RejectAtExecution \/ FillOrder
  BY <1>1 DEF NextBar, KeepPending, RejectAtExecution, FillOrder, Executing, Tallied
<1>2. CASE \E scale \in VolScales : Monitor(scale) BY <1>2, TalliedMonitor
<1>3. CASE \/ \E intents \in IntentLists : Decide(intents)
           \/ RejectAtCheck \/ EndBar \/ UNCHANGED vars
  <2>1. /\ UNCHANGED <<pending, bar, lastClose, tallyVars>>
        /\ phase' # "execute" => phase # "execute"
    BY <1>3 DEF Decide, RejectAtCheck, EndBar, Checking, vars
  <2>2. \A s \in Symbols : BoughtThisBar(s)' = BoughtThisBar(s) BY <2>1, BoughtSame
  <2>3. Spent' = Spent /\ Priced' = Priced BY <2>1 DEF Spent, Priced, tallyVars
  <2> QED BY <2>1, <2>2, <2>3 DEF Tallied, tallyVars, SectorMembers, Sectors
<1>4. CASE Submit BY <1>4, TalliedSubmit
<1> QED BY <1>1, <1>2, <1>3, <1>4 DEF Next

(* Some symbol bought this bar leaves total within share ten-thousandths of  *)
(* equity, to half of one of its units.                                      *)
Fits(total, share) ==
  \E t \in Symbols : /\ committedQty[t] > 0
                     /\ 20000 * total <= 2 * share * EquityNow + 10000 * Value(1, lastClose[t])

WithinPosition(s) ==
  200 * Value(book.qty[s] + committedQty[s], lastClose[s])
    <= 2 * config.maxPosition * EquityNow + 100 * Value(1, lastClose[s])

WithinGross ==
  Fits(GrossOf(book, lastClose, Priced) + committedGross, config.maxGross * volScale)

WithinSector(s) ==
  Fits(GrossOf(book, lastClose, Mates(s)) + committedSector[SectorOf[s]], config.maxSector * 100)

(* What passed the check fits, tallies and book together.                    *)
Capped ==
  phase # "execute" =>
    \A s \in Symbols : committedQty[s] > 0 =>
      WithinPosition(s) /\ WithinGross /\ (SectorCapped(s) => WithinSector(s))

(* The arithmetic of a clamp: what is at most the room adds up to the cap.   *)
LEMMA ClampPosition ==
  ASSUME NEW v \in Nat, NEW cap \in Int, NEW held \in Nat, NEW room \in Int, NEW n \in Nat,
         n <= room, 200 * (room * v) <= 2 * cap - 200 * (held * v) + 100 * v
  PROVE  200 * ((held + n) * v) <= 2 * cap + 100 * v
<1> DEFINE x == n * v
           y == room * v
           h == held * v
<1>1. x <= y /\ x \in Int /\ y \in Int BY Monotone
<1>2. h \in Int /\ (held + n) * v = h + x OBVIOUS
<1> HIDE DEF x, y, h
<1>3. 200 * y <= 2 * cap - 200 * h + 100 * v BY DEF y, h
<1>4. 200 * (h + x) <= 2 * cap + 100 * v BY <1>1, <1>2, <1>3
<1> QED BY <1>2, <1>4

LEMMA ClampGross ==
  ASSUME NEW v \in Nat, NEW cap \in Int, NEW gross \in Int, NEW room \in Int, NEW n \in Nat,
         n <= room, 20000 * (room * v) <= 2 * cap - 20000 * gross + 10000 * v
  PROVE  20000 * (gross + n * v) <= 2 * cap + 10000 * v
<1> DEFINE x == n * v
           y == room * v
<1>1. x <= y /\ x \in Int /\ y \in Int BY Monotone
<1>2. 20000 * y <= 2 * cap - 20000 * gross + 10000 * v OBVIOUS
<1> HIDE DEF x, y
<1>3. 20000 * (gross + x) <= 2 * cap + 10000 * v BY <1>1, <1>2
<1> QED BY <1>3 DEF x

LEMMA ClampSector ==
  ASSUME NEW v \in Nat, NEW cap \in Int, NEW gross \in Int, NEW room \in Int, NEW n \in Nat,
         n <= room, 200 * (room * v) <= 2 * cap - 200 * gross + 100 * v
  PROVE  20000 * (gross + n * v) <= 200 * cap + 10000 * v
<1> DEFINE x == n * v
           y == room * v
<1>1. x <= y /\ x \in Int /\ y \in Int BY Monotone
<1>2. 200 * y <= 2 * cap - 200 * gross + 100 * v OBVIOUS
<1> HIDE DEF x, y
<1>3. 20000 * (gross + x) <= 200 * cap + 10000 * v BY <1>1, <1>2
<1> QED BY <1>3 DEF x

LEMMA CappedSubmit ==
  ASSUME TypeInv, Tallied, Capped, Submit PROVE Capped'
<1> DEFINE c == Checked(Head(todo))
           k == c.symbol
           p == lastClose[k]
           v == Value(1, p)
           value == Value(c.qty, p)
<1>1. /\ phase = "check" /\ phase' = "check" /\ c \in Orders /\ k \in Priced
      /\ UNCHANGED <<switchVars, book, lastClose, volScale>>
      /\ Commit(c) /\ (Uncapped(c) <=> c.side = "SELL")
      /\ c.side # "SELL" =>
           /\ c.qty \in Nat \ {0}
           /\ c.qty <= PositionRoom(k) /\ c.qty <= GrossRoom(k)
           /\ SectorCapped(k) => c.qty <= SectorRoom(k)
  BY Submission
<1> HIDE DEF c
<1>2. /\ config' = config /\ EquityNow' = EquityNow /\ Priced' = Priced
      /\ \A s : SectorCapped(s)' <=> SectorCapped(s)
      /\ \A s : Mates(s)' = Mates(s)
  BY <1>1 DEF switchVars, EquityNow, Priced, SectorCapped, Mates
<1>3. \A S : GrossOf(book, lastClose, S) \in Nat BY <1>1, MarkedBook
<1>4. EquityNow \in Int BY <1>1, MarkedBook
<1>5. \A s \in Symbols : committedQty[s] > 0 =>
        WithinPosition(s) /\ WithinGross /\ (SectorCapped(s) => WithinSector(s))
  BY <1>1 DEF Capped
<1>6. CASE c.side = "SELL"
  <2>1. UNCHANGED <<committedQty, committedGross, committedSector>> BY <1>1, <1>6 DEF Commit
  <2>2. \A s : WithinPosition(s)' <=> WithinPosition(s)
    BY <1>1, <1>2, <2>1 DEF WithinPosition
  <2>3. WithinGross' <=> WithinGross BY <1>1, <1>2, <2>1 DEF WithinGross, Fits
  <2>4. \A s : WithinSector(s)' <=> WithinSector(s) BY <1>1, <1>2, <2>1 DEF WithinSector, Fits
  <2> QED BY <1>2, <1>5, <2>1, <2>2, <2>3, <2>4 DEF Capped
<1>7. CASE c.side # "SELL"
  <2>1. /\ c.qty \in Nat \ {0} /\ c.qty <= PositionRoom(k) /\ c.qty <= GrossRoom(k)
        /\ SectorCapped(k) => c.qty <= SectorRoom(k)
    BY <1>1, <1>7
  <2>2. /\ committedQty' = [committedQty EXCEPT ![k] = @ + c.qty]
        /\ committedGross' = committedGross + value
        /\ committedSector' = [x \in Sectors |->
             committedSector[x] + IF x = SectorOf[k] THEN value ELSE 0]
    BY <1>1, <1>7 DEF Commit
  <2>3. /\ committedQty \in [Symbols -> Nat] /\ committedGross \in Nat
        /\ committedSector \in [Sectors -> Nat] /\ book.qty \in [Symbols -> Nat]
    BY DEF TypeInv, TypeOK
  <2>4. k \in Symbols /\ p \in Marks /\ p # NoPrice BY <1>1 DEF Priced, TypeInv, Shape
  <2>5. v \in Nat \ {0} /\ value = c.qty * v BY <1>1, <2>1, <2>4, UnitType, ValueTimes
  <2>6. /\ committedQty'[k] = committedQty[k] + c.qty
        /\ \A s \in Symbols \ {k} : committedQty'[s] = committedQty[s]
    BY <2>2, <2>3, <2>4
  <2>7. committedQty'[k] > 0 BY <2>1, <2>3, <2>4, <2>6
  <2>8. config.maxPosition \in Nat /\ config.maxGross \in Nat /\ volScale \in Nat
    BY Caps
  (* position *)
  <2>9. ASSUME NEW s \in Symbols, s = k PROVE WithinPosition(s)'
    <3> DEFINE held == book.qty[k] + committedQty[k]
               cap == config.maxPosition * EquityNow
               room == PositionRoom(k)
    <3>1. room \in Int /\ 200 * (room * v) <= 2 * cap - 200 * (held * v) + 100 * v
      BY <1>1, PositionRoomBound
    <3>2. held \in Nat /\ cap \in Int BY <1>4, <2>3, <2>4, <2>8
    <3>3. book.qty[k] + committedQty'[k] = held + c.qty BY <2>1, <2>3, <2>4, <2>6
    <3>4. Value(held + c.qty, p) = (held + c.qty) * v
      <4>1. held + c.qty \in Nat BY <2>1, <3>2
      <4> HIDE DEF held, p
      <4> QED BY <2>4, <4>1, ValueTimes
    <3>5. 2 * config.maxPosition * EquityNow = 2 * cap BY <1>4, <2>8
    <3> HIDE DEF held, cap, room, v
    <3>6. c.qty <= room BY <2>1 DEF room
    <3>7. 200 * ((held + c.qty) * v) <= 2 * cap + 100 * v
      BY <2>1, <2>5, <3>1, <3>2, <3>6, ClampPosition
    <3>8. 200 * Value(book.qty[k] + committedQty'[k], p)
            <= 2 * config.maxPosition * EquityNow + 100 * v
      BY <3>3, <3>4, <3>5, <3>7
    <3>9. 200 * Value(book.qty[s] + committedQty'[s], lastClose[s])
            <= 2 * config.maxPosition * EquityNow + 100 * Value(1, lastClose[s])
      BY <2>9, <3>8 DEF v
    <3> QED BY <1>1, <1>2, <3>9 DEF WithinPosition
  <2>10. ASSUME NEW s \in Symbols \ {k}, committedQty[s] > 0 PROVE WithinPosition(s)'
    <3>1. WithinPosition(s) BY <1>5, <2>10
    <3>2. committedQty'[s] = committedQty[s] BY <2>6
    <3> QED BY <1>1, <1>2, <3>1, <3>2 DEF WithinPosition
  (* gross *)
  <2>11. WithinGross'
    <3> DEFINE gross == GrossOf(book, lastClose, Priced) + committedGross
               cap == config.maxGross * volScale * EquityNow
               room == GrossRoom(k)
    <3>1. room \in Int /\ 20000 * (room * v) <= 2 * cap - 20000 * gross + 10000 * v
      BY <1>1, GrossRoomBound
    <3>2. gross \in Int /\ cap \in Int BY <1>3, <1>4, <2>3, <2>8
    <3>3. GrossOf(book, lastClose, Priced) + committedGross' = gross + c.qty * v
      <4>1. GrossOf(book, lastClose, Priced) \in Nat /\ value \in Nat BY <1>3, <2>1, <2>5
      <4> HIDE DEF value, v
      <4> QED BY <2>2, <2>3, <2>5, <4>1
    <3>4. 2 * (config.maxGross * volScale) * EquityNow = 2 * cap BY <1>4, <2>8
    <3> HIDE DEF gross, cap, room, v
    <3>5. c.qty <= room BY <2>1 DEF room
    <3>6. 20000 * (gross + c.qty * v) <= 2 * cap + 10000 * v
      BY <2>1, <2>5, <3>1, <3>2, <3>5, ClampGross
    <3>7. 20000 * (GrossOf(book, lastClose, Priced) + committedGross')
            <= 2 * (config.maxGross * volScale) * EquityNow + 10000 * v
      BY <3>3, <3>4, <3>6
    <3> QED BY <1>1, <1>2, <2>4, <2>7, <3>7 DEF WithinGross, Fits, v
  (* sectors *)
  <2>12. ASSUME NEW s \in Symbols, SectorCapped(s), SectorOf[s] = SectorOf[k]
         PROVE  WithinSector(s)'
    <3> DEFINE x == SectorOf[k]
               gross == GrossOf(book, lastClose, Mates(k)) + committedSector[x]
               cap == config.maxSector * EquityNow
               room == SectorRoom(k)
    <3>1. SectorCapped(k) BY <2>12 DEF SectorCapped
    <3>2. room \in Int /\ 200 * (room * v) <= 2 * cap - 200 * gross + 100 * v
      BY <1>1, <3>1, SectorRoomBound
    <3>3. x \in Sectors BY <2>4, <3>1 DEF SectorCapped, Sectors
    <3>4. committedSector[x] \in Nat BY <2>3, <3>3
    <3>5. config.maxSector \in Nat BY <3>1, Caps DEF SectorCapped
    <3>6. gross \in Int /\ cap \in Int BY <1>3, <1>4, <3>4, <3>5
    <3>7. committedSector'[x] = committedSector[x] + value BY <2>2, <3>3
    <3>8. GrossOf(book, lastClose, Mates(k)) + committedSector'[x] = gross + c.qty * v
      <4>1. GrossOf(book, lastClose, Mates(k)) \in Nat /\ value \in Nat BY <1>3, <2>1, <2>5
      <4> HIDE DEF value, v
      <4> QED BY <2>5, <3>4, <3>7, <4>1
    <3>9. 2 * (config.maxSector * 100) * EquityNow = 200 * cap BY <1>4, <3>5
    <3>10. Mates(s) = Mates(k) BY <2>12 DEF Mates
    <3> HIDE DEF gross, cap, room, v
    <3>11. c.qty <= room BY <2>1, <3>1 DEF room
    <3>12. 20000 * (gross + c.qty * v) <= 200 * cap + 10000 * v
      BY <2>1, <2>5, <3>2, <3>6, <3>11, ClampSector
    <3>13. 20000 * (GrossOf(book, lastClose, Mates(s)) + committedSector'[SectorOf[s]])
            <= 2 * (config.maxSector * 100) * EquityNow + 10000 * v
      BY <2>12, <3>8, <3>9, <3>10, <3>12
    <3> QED BY <1>1, <1>2, <2>4, <2>7, <3>13 DEF WithinSector, Fits, v
  <2>13. ASSUME NEW s \in Symbols, committedQty[s] > 0, SectorCapped(s), SectorOf[s] # SectorOf[k]
         PROVE  WithinSector(s)'
    <3>1. WithinSector(s) BY <1>5, <2>13
    <3>2. SectorOf[s] \in Sectors BY <2>13 DEF SectorCapped, Sectors
    <3>3. committedSector'[SectorOf[s]] = committedSector[SectorOf[s]]
      <4>1. committedSector[SectorOf[s]] \in Nat BY <2>3, <3>2
      <4> QED BY <2>2, <2>13, <3>2, <4>1
    <3>4. \A t \in Symbols : committedQty[t] > 0 => committedQty'[t] > 0 BY <2>6, <2>7
    <3> QED BY <1>1, <1>2, <3>1, <3>3, <3>4 DEF WithinSector, Fits
  <2>14. ASSUME NEW s \in Symbols, committedQty'[s] > 0
         PROVE  WithinPosition(s)' /\ WithinGross' /\ (SectorCapped(s)' => WithinSector(s)')
    <3>1. CASE s = k
      <4>1. WithinPosition(s)' BY <2>9, <3>1
      <4>2. SectorCapped(s) => WithinSector(s)' BY <2>12, <3>1
      <4> QED BY <1>2, <2>11, <4>1, <4>2
    <3>2. CASE s # k
      <4>1. committedQty[s] > 0 BY <2>6, <2>14, <3>2
      <4> QED BY <1>2, <2>10, <2>11, <2>12, <2>13, <3>2, <4>1
    <3> QED BY <3>1, <3>2
  <2> QED BY <2>14 DEF Capped
<1> QED BY <1>6, <1>7

LEMMA CappedStep == ASSUME TypeInv, Tallied, Capped, [Next]_vars PROVE Capped'
<1>1. CASE \/ \E bars \in Slices : NextBar(bars)
           \/ KeepPending \/ RejectAtExecution \/ FillOrder
  BY <1>1 DEF NextBar, KeepPending, RejectAtExecution, FillOrder, Executing, Capped
<1>2. CASE \E scale \in VolScales : Monitor(scale)
  <2>1. \A s \in Symbols : ~(committedQty'[s] > 0) BY <1>2 DEF Monitor
  <2> QED BY <2>1 DEF Capped
<1>3. CASE \/ \E intents \in IntentLists : Decide(intents)
           \/ RejectAtCheck \/ EndBar \/ UNCHANGED vars
  <2>1. /\ UNCHANGED <<switchVars, book, lastClose, tallyVars>>
        /\ phase' # "execute" => phase # "execute"
    BY <1>3 DEF Decide, RejectAtCheck, EndBar, Checking, vars
  <2>2. /\ config' = config /\ EquityNow' = EquityNow /\ Priced' = Priced
        /\ \A s : SectorCapped(s)' <=> SectorCapped(s)
        /\ \A s : Mates(s)' = Mates(s)
    BY <2>1 DEF switchVars, EquityNow, Priced, SectorCapped, Mates
  <2>3. \A s : WithinPosition(s)' <=> WithinPosition(s)
    BY <2>1, <2>2 DEF WithinPosition, tallyVars
  <2>4. WithinGross' <=> WithinGross BY <2>1, <2>2 DEF WithinGross, Fits, tallyVars
  <2>5. \A s : WithinSector(s)' <=> WithinSector(s)
    BY <2>1, <2>2 DEF WithinSector, Fits, tallyVars
  <2> QED BY <2>1, <2>2, <2>3, <2>4, <2>5 DEF Capped, tallyVars
<1>4. CASE Submit BY <1>4, CappedSubmit
<1> QED BY <1>1, <1>2, <1>3, <1>4 DEF Next

CapsInv == QueueInv /\ Tallied /\ Capped

LEMMA CapsAlways == Spec => []CapsInv
<1>1. Init => Tallied /\ Capped
  <2> SUFFICES ASSUME Init PROVE Tallied /\ Capped OBVIOUS
  <2>1. TypeInv BY TypesInit
  <2>2. /\ pending = <<>> /\ \A s \in Symbols : committedQty[s] = 0
        /\ committedGross = 0 /\ \A x \in Sectors : committedSector[x] = 0
    BY DEF Init
  <2>3. \A s \in Symbols : BoughtThisBar(s) = 0 BY <2>1, <2>2, EmptyTypes, NothingBought
  <2>4. \A s \in Symbols : Spent[s] = 0 BY <2>2 DEF Spent
  <2> DEFINE w == Spent
  <2>5. ASSUME NEW T \in SUBSET Symbols PROVE SumFunctionOnSet(w, T) = 0
    <3>1. IsFiniteSet(T) BY EngineAssumption, FS_Subset
    <3>2. \A s \in T : w[s] = 0 BY <2>4
    <3> HIDE DEF w
    <3> QED BY <3>1, <3>2, SumZero
  <2>6. \A x : SectorMembers(x) \in SUBSET Symbols BY DEF SectorMembers
  <2>7. \A s \in Symbols : ~(committedQty[s] > 0) BY <2>2
  <2> QED BY <2>2, <2>3, <2>5, <2>6, <2>7 DEF w, Tallied, Capped
<1>2. CapsInv /\ [Next]_vars => CapsInv'
  BY TypesStep, WaitingStep, BackedStep, TalliedStep, CappedStep DEF CapsInv, QueueInv
<1>3. Init => CapsInv
  BY <1>1, TypesInit, EmptyTypes DEF Init, CapsInv, QueueInv, Waiting, Backed
<1> QED BY <1>2, <1>3, PTL DEF Spec

(* The sums a state is judged by are the tallies the code kept.              *)
LEMMA AddedIs ==
  ASSUME TypeInv, Tallied, phase # "execute", NEW S \in SUBSET Symbols, NEW R \in SUBSET Symbols,
         R \cap {s \in Symbols : BoughtThisBar(s) > 0} = S \cap {s \in Symbols : BoughtThisBar(s) > 0}
  PROVE  SumFunction([s \in {x \in Symbols : BoughtThisBar(x) > 0} \cap R |->
                        Value(BoughtThisBar(s), lastClose[s])])
           = SumFunctionOnSet(Spent, S)
<1> DEFINE bought == {x \in Symbols : BoughtThisBar(x) > 0}
           T == bought \cap R
           g == [s \in T |-> Value(BoughtThisBar(s), lastClose[s])]
           w == Spent
<1>1. \A s \in Symbols : BoughtThisBar(s) = committedQty[s] /\ committedQty[s] \in Nat
  BY DEF Tallied, TypeInv, TypeOK
<1>2. \A s \in Symbols : w[s] = IF committedQty[s] > 0
                                THEN Value(committedQty[s], lastClose[s]) ELSE 0
  BY DEF Spent
<1>3. DOMAIN g = T /\ T \in SUBSET S /\ \A s \in S : s \in Symbols /\ (s \in T <=> s \in bought)
  OBVIOUS
<1>4. \A s \in T : g[s] = w[s] BY <1>1, <1>2
<1>5. \A s \in S \ T : w[s] = 0 BY <1>1, <1>2, <1>3
<1>6. \A s \in S : w[s] \in Int BY SpentTypes
<1>7. IsFiniteSet(S) BY EngineAssumption, FS_Subset
<1> HIDE DEF T, g, w
<1>8. SumFunction(g) = SumFunctionOnSet(g, T) BY <1>3 DEF SumFunction
<1>9. SumFunctionOnSet(g, T) = SumFunctionOnSet(w, S) BY <1>3, <1>4, <1>5, <1>6, <1>7, SumSupport
<1>10. SumFunction(g) = SumFunctionOnSet(w, S) BY <1>8, <1>9
<1> QED BY <1>10 DEF g, T, w

LEMMA CapsImplied == CapsInv => CapsBindTheBar
<1> SUFFICES ASSUME CapsInv, phase \in {"check", "feed"} PROVE CapsBindTheBar
  BY DEF CapsBindTheBar
<1> DEFINE bought == {s \in Symbols : BoughtThisBar(s) > 0}
           Added(symbols) ==
             SumFunction([s \in bought \cap symbols |-> Value(BoughtThisBar(s), lastClose[s])])
           WithinHalfUnit(total, share) ==
             \E s \in bought :
               20000 * total <= 2 * share * EquityNow + 10000 * Value(1, lastClose[s])
<1>1. TypeInv /\ Tallied /\ Capped /\ phase # "execute" BY DEF CapsInv, QueueInv
<1>2. \A s \in Symbols : BoughtThisBar(s) = committedQty[s] BY <1>1 DEF Tallied
<1>3. bought = {s \in Symbols : committedQty[s] > 0} BY <1>2
<1>4. /\ \A s \in bought : s \in Symbols /\ s \in Priced
      /\ \A s \in bought : WithinPosition(s) /\ WithinGross /\ (SectorCapped(s) => WithinSector(s))
  BY <1>1, <1>3 DEF Tallied, Capped
<1>5. \A total, share : Fits(total, share) => WithinHalfUnit(total, share)
  BY <1>3 DEF Fits
<1>6. ASSUME NEW s \in bought
      PROVE  200 * Value(book.qty[s] + BoughtThisBar(s), lastClose[s])
               <= 2 * config.maxPosition * EquityNow + 100 * Value(1, lastClose[s])
  BY <1>2, <1>4 DEF WithinPosition
<1>7. Added(Symbols) = committedGross
  <2>1. Added(Symbols) = SumFunctionOnSet(Spent, Symbols) BY <1>1, AddedIs
  <2> QED BY <1>1, <2>1 DEF Tallied
<1>8. bought # {} => WithinHalfUnit(GrossOf(book, lastClose, Priced) + Added(Symbols),
                                    config.maxGross * volScale)
  <2>1. bought # {} => WithinGross BY <1>4
  <2> HIDE DEF Added, WithinHalfUnit, bought
  <2> QED BY <1>5, <1>7, <2>1 DEF WithinGross
<1>9. ASSUME NEW s \in bought, SectorCapped(s)
      PROVE  WithinHalfUnit(GrossOf(book, lastClose, Mates(s)) + Added(Mates(s)),
                            config.maxSector * 100)
  <2>1. s \in Symbols /\ SectorOf[s] \in Sectors BY <1>4, <1>9 DEF SectorCapped, Sectors
  <2>2. Mates(s) \cap bought = SectorMembers(SectorOf[s]) \cap bought
    BY <1>4 DEF Mates, SectorMembers
  <2>3. Mates(s) \in SUBSET Symbols /\ SectorMembers(SectorOf[s]) \in SUBSET Symbols
    BY DEF Mates, SectorMembers, Priced
  <2>4. Added(Mates(s)) = SumFunctionOnSet(Spent, SectorMembers(SectorOf[s]))
    BY <1>1, <2>2, <2>3, AddedIs
  <2>5. Added(Mates(s)) = committedSector[SectorOf[s]] BY <1>1, <2>1, <2>4 DEF Tallied
  <2>6. WithinSector(s) BY <1>4, <1>9
  <2> HIDE DEF Added, WithinHalfUnit, bought
  <2> QED BY <1>5, <2>5, <2>6 DEF WithinSector
<1> HIDE DEF bought, Added, WithinHalfUnit
<1>10. /\ \A s \in bought : 200 * Value(book.qty[s] + BoughtThisBar(s), lastClose[s])
              <= 2 * config.maxPosition * EquityNow + 100 * Value(1, lastClose[s])
       /\ bought # {} => WithinHalfUnit(GrossOf(book, lastClose, Priced) + Added(Symbols),
                                        config.maxGross * volScale)
       /\ \A s \in bought : SectorCapped(s) =>
            WithinHalfUnit(GrossOf(book, lastClose, Mates(s)) + Added(Mates(s)),
                           config.maxSector * 100)
  BY <1>6, <1>8, <1>9
<1> QED BY <1>10 DEF bought, Added, WithinHalfUnit, CapsBindTheBar, Mates

(* The orders of one bar together never breach a cap, though each is checked *)
(* on its own: with all of them added to the book every bought symbol, the   *)
(* book and every sector are within their cap, to half a unit                *)
(* (Guardrails.check, its tallies).                                          *)
THEOREM CapsBind == Spec => []CapsBindTheBar
BY CapsAlways, CapsImplied, PTL

-----------------------------------------------------------------------------
(* The halt *)

LEMMA HaltStep ==
  ASSUME TypeInv, Waiting, HaltStopsEntries, [Next]_vars PROVE HaltStopsEntries'
<1>1. CASE \E scale \in VolScales : Monitor(scale)
  <2>1. /\ phase = "execute" /\ phase' = "decide" /\ pending' = pending
        /\ barIndex = bar - 1 /\ bar \in Nat
    BY <1>1, SwitchNumbers DEF Monitor, TypeInv, TypeOK
  <2>2. \/ latched' = FALSE
        \/ haltBar' = bar
        \/ UNCHANGED <<latched, haltBar>>
    <3>1. \/ latched' = FALSE
          \/ haltBar' = barIndex + 1
          \/ UNCHANGED <<latched, haltBar>>
      BY <1>1 DEF Monitor, Switch!Rearm, Switch!TripOnDrawdown, Switch!TripOnDailyLoss,
                  Switch!Hold, Switch!Trip
    <3> QED BY <2>1, <3>1
  <2>3. \A o \in AtBroker' : o \in AtBroker /\ o.decided < bar
    BY <2>1 DEF AtBroker, Waiting
  <2> QED BY <2>2, <2>3 DEF HaltStopsEntries
<1>2. CASE Submit
  <2> DEFINE o == Head(todo)
             q == Queued(Checked(o))
  <2>1. /\ phase = "check" /\ phase' = "check" /\ ~Blocked(o) /\ pending' = Append(pending, q)
        /\ UNCHANGED <<latched, haltBar>>
    BY <1>2 DEF Submit, Checking, switchVars
  <2>2. q \in QueuedOrders /\ q.side = Checked(o).side
    BY <1>2, Submission
  <2>3. latched => Checked(o).side # "BUY"
    BY <2>1 DEF Blocked, IsExit, Uncapped, Checked
  <2> HIDE DEF q, o
  <2>4. Range(pending') = Range(pending) \cup {q} BY <2>1, <2>2, AppendTypes DEF TypeInv, TypeOK
  <2>5. AtBroker' = AtBroker \cup {q} BY <2>1, <2>4 DEF AtBroker
  <2> QED BY <2>1, <2>2, <2>3, <2>5 DEF HaltStopsEntries
<1>3. CASE KeepPending \/ RejectAtExecution \/ FillOrder
  <2>1. /\ Executing /\ Walk /\ UNCHANGED <<phase, latched, haltBar>>
        /\ pending' = pending \/ pending' = Append(pending, Head(todo))
    BY <1>3 DEF KeepPending, RejectAtExecution, FillOrder, switchVars
  <2>2. /\ phase = "execute" /\ Head(todo) \in Range(todo) /\ Head(todo) \in QueuedOrders
        /\ Range(todo') \subseteq Range(todo)
    BY <2>1, HeadToExecute
  <2>3. Range(Append(pending, Head(todo))) = Range(pending) \cup {Head(todo)}
    BY <2>2, AppendTypes DEF TypeInv, TypeOK
  <2>4. AtBroker' \subseteq AtBroker BY <2>1, <2>2, <2>3 DEF AtBroker
  <2> QED BY <2>1, <2>4 DEF HaltStopsEntries
<1>4. CASE \/ \E bars \in Slices : NextBar(bars)
           \/ \E intents \in IntentLists : Decide(intents)
           \/ RejectAtCheck \/ EndBar \/ UNCHANGED vars
  <2>1. UNCHANGED <<latched, haltBar>>
    BY <1>4 DEF NextBar, Decide, RejectAtCheck, EndBar, vars, switchVars
  <2>2. AtBroker' \subseteq AtBroker
    BY <1>4, EmptyTypes
       DEF NextBar, Decide, RejectAtCheck, EndBar, Checking, vars, AtBroker
  <2> QED BY <2>1, <2>2 DEF HaltStopsEntries
<1> QED BY <1>1, <1>2, <1>3, <1>4 DEF Next

(* While the switch is latched, every buy still at the broker was decided    *)
(* before the bar that tripped it (Engine._step; Guardrails.check).          *)
THEOREM HaltStopsEveryEntry == Spec => []HaltStopsEntries
<1>1. Init => HaltStopsEntries BY DEF Init, Switch!Init, HaltStopsEntries
<1>2. QueueInv /\ HaltStopsEntries /\ [Next]_vars => HaltStopsEntries'
  BY HaltStep DEF QueueInv
<1> QED BY <1>1, <1>2, QueueAlways, PTL DEF Spec

-----------------------------------------------------------------------------
(* Cash *)

(* What the feed's opens must be worth for a sale to bring in more than its  *)
(* commission: always so when commissions are a rate (PerUnit = 0).          *)
SalesCoverTheirCosts ==
  \A bars \in Slices : \A s \in Symbols : bars[s] # NoPrice =>
    PerUnit * Money <= bars[s].open * ((Scale - Slip) * (Scale - Fee))

Funded ==
  /\ NoBorrowing
  /\ phase = "execute" => slice \in Slices

LEMMA SaleBringsIn ==
  ASSUME NEW qty \in Nat, NEW open \in Nat, PerUnit * Money <= open * ((Scale - Slip) * (Scale - Fee))
  PROVE  /\ Commission(qty, "SELL", open) <= qty * FillPrice("SELL", open)
         /\ Commission(qty, "SELL", open) \in Int /\ qty * FillPrice("SELL", open) \in Int
<1> DEFINE r == Scale - Slip
           fixed == PerUnit * Money
           x == open * r
<1>1. /\ r \in Nat /\ Scale \in Nat /\ Fee \in Nat /\ Fee <= Scale /\ Scale - Fee \in Nat
      /\ fixed \in Nat
  BY CostTypes
<1>2. fixed <= open * (r * (Scale - Fee)) OBVIOUS
<1>3. /\ FillPrice("SELL", open) = open * r * Scale
      /\ Commission(qty, "SELL", open) = qty * PerUnit * Money + qty * open * r * Fee
  BY DEF FillPrice, Commission, SlippedRate
<1>4. qty * PerUnit * Money = qty * fixed BY CostTypes
<1> HIDE DEF fixed, r
<1>5. x \in Nat /\ qty * open * r * Fee = qty * (x * Fee) /\ open * r * Scale = x * Scale
  BY <1>1
<1>6. open * (r * (Scale - Fee)) = x * Scale - x * Fee BY <1>1
<1> HIDE DEF x
<1> DEFINE a == x * Scale
           b == x * Fee
<1>7. a \in Int /\ b \in Int /\ fixed <= a - b BY <1>1, <1>2, <1>5, <1>6
<1> HIDE DEF a, b
<1>8. fixed + b <= a BY <1>1, <1>7
<1>9. qty * (fixed + b) <= qty * a /\ qty * (fixed + b) = qty * fixed + qty * b
      /\ qty * fixed \in Int /\ qty * b \in Int /\ qty * a \in Int
  BY <1>1, <1>7, <1>8
<1>10. Commission(qty, "SELL", open) = qty * fixed + qty * b BY <1>3, <1>4, <1>5 DEF b
<1>11. qty * FillPrice("SELL", open) = qty * a BY <1>3, <1>5 DEF a
<1> QED BY <1>9, <1>10, <1>11

LEMMA FundedStep ==
  ASSUME TypeInv, SalesCoverTheirCosts, Funded, [Next]_vars PROVE Funded'
<1>1. book.cash \in Int /\ book.cash >= 0 BY DEF TypeInv, TypeOK, Funded, NoBorrowing
<1>2. CASE FillOrder
  <2> DEFINE o == Head(todo)
             open == Open(o)
  <2>1. /\ Executing /\ Walk /\ HasBar(o) /\ ~Underfunded(o)
        /\ book' = ApplyFill(book, o, open) /\ UNCHANGED <<phase, slice>>
    BY <1>2 DEF FillOrder
  <2>2. phase = "execute" /\ o \in QueuedOrders BY <2>1, HeadToExecute
  <2>3. o.symbol \in Symbols /\ o.qty \in Nat /\ o.side \in {"BUY", "SELL"}
    BY <2>2 DEF QueuedOrders
  <2>4. open \in Nat
    <3>1. slice[o.symbol] # NoPrice BY <2>1 DEF HasBar
    <3> QED BY <2>3, <3>1, BarTypes DEF TypeInv, Shape, Open
  <2>5. slice \in Slices /\ slice[o.symbol] # NoPrice BY <2>1, <2>2 DEF Funded, HasBar
  <2> HIDE DEF o
  <2>6. book'.cash = book.cash - (IF o.side = "BUY" THEN o.qty ELSE -o.qty) * FillPrice(o.side, open)
                       - Commission(o.qty, o.side, open)
    BY <2>1 DEF ApplyFill
  <2>7. CASE o.side = "BUY"
    <3> DEFINE paid == o.qty * FillPrice("BUY", open)
               fee == Commission(o.qty, "BUY", open)
    <3>1. paid + fee <= book.cash \/ paid + fee \notin Int
      <4>1. ~(paid + fee > book.cash) BY <2>1, <2>7 DEF Underfunded, BuyCost
      <4> HIDE DEF paid, fee
      <4> QED BY <1>1, <4>1
    <3>2. paid \in Int /\ fee \in Int
      <4>1. SlippedRate("BUY") \in Int /\ FillPrice("BUY", open) \in Int
        BY <2>4, CostTypes DEF SlippedRate, FillPrice
      <4>2. o.qty * PerUnit * Money \in Int BY <2>3, CostTypes
      <4>3. o.qty * open * SlippedRate("BUY") * Fee \in Int BY <2>3, <2>4, <4>1, CostTypes
      <4> QED BY <2>3, <4>1, <4>2, <4>3 DEF Commission
    <3>3. book'.cash = book.cash - paid - fee BY <2>6, <2>7
    <3> HIDE DEF paid, fee
    <3>4. book'.cash >= 0 BY <1>1, <3>1, <3>2, <3>3
    <3> QED BY <2>1, <2>5, <3>4 DEF Funded, NoBorrowing
  <2>8. CASE o.side = "SELL"
    <3> DEFINE got == o.qty * FillPrice("SELL", open)
               fee == Commission(o.qty, "SELL", open)
    <3>1. PerUnit * Money <= open * ((Scale - Slip) * (Scale - Fee))
      BY <2>3, <2>5 DEF SalesCoverTheirCosts, Open
    <3>2. fee <= got /\ fee \in Int /\ got \in Int
      <4> HIDE DEF open
      <4> QED BY <2>3, <2>4, <3>1, SaleBringsIn
    <3>3. book'.cash = book.cash + got - fee
      <4>1. FillPrice("SELL", open) \in Int
        BY <2>4, CostTypes DEF SlippedRate, FillPrice
      <4>2. book'.cash = book.cash - (-o.qty) * FillPrice("SELL", open) - fee BY <2>6, <2>8
      <4> HIDE DEF open
      <4>3. (-o.qty) * FillPrice("SELL", open) = -got BY <2>3, <4>1
      <4> HIDE DEF got, fee
      <4> QED BY <1>1, <3>2, <4>2, <4>3
    <3> HIDE DEF got, fee
    <3>4. book'.cash >= 0 BY <1>1, <3>2, <3>3
    <3> QED BY <2>1, <2>5, <3>4 DEF Funded, NoBorrowing
  <2> QED BY <2>3, <2>7, <2>8
<1>3. CASE \E bars \in Slices : NextBar(bars)
  BY <1>3 DEF NextBar, Funded, NoBorrowing
<1>4. CASE KeepPending \/ RejectAtExecution
  BY <1>4 DEF KeepPending, RejectAtExecution, Funded, NoBorrowing
<1>5. CASE \/ \E scale \in VolScales : Monitor(scale)
           \/ \E intents \in IntentLists : Decide(intents)
           \/ RejectAtCheck \/ Submit \/ EndBar
  <2>1. phase' # "execute" /\ book' = book
    BY <1>5 DEF Monitor, Decide, RejectAtCheck, Submit, EndBar, Checking
  <2> QED BY <2>1 DEF Funded, NoBorrowing
<1>6. CASE UNCHANGED vars BY <1>6 DEF vars, Funded, NoBorrowing
<1> QED BY <1>2, <1>3, <1>4, <1>5, <1>6 DEF Next

(* Cash never goes negative, costs included, when no sale costs more in      *)
(* commission than it brings in (SimulatedBroker._execute): buys are tested  *)
(* against cash, sales are not.                                              *)
THEOREM NothingIsBorrowed ==
  ASSUME SalesCoverTheirCosts PROVE Spec => []NoBorrowing
<1>1. Init => Funded
  <2>1. StartCash * Money >= 0 BY EngineAssumption, CostTypes
  <2> QED BY <2>1 DEF Init, Funded, NoBorrowing
<1>2. TypeInv /\ Funded /\ [Next]_vars => Funded' BY FundedStep
<1>3. Funded => NoBorrowing BY DEF Funded
<1> QED BY <1>1, <1>2, <1>3, TypesAlways, PTL DEF Spec

-----------------------------------------------------------------------------
(* The switch in the engine *)

LEMMA SwitchInitial == Init => SwitchProofs!Init
BY DEF Init, Switch!Init, SwitchProofs!Init

LEMMA SwitchVariables == UNCHANGED switchVars => UNCHANGED SwitchProofs!vars
BY DEF switchVars, SwitchProofs!vars, SwitchProofs!switchVars, SwitchProofs!engineVars

(* Every step of the engine is a bar of the switch, or leaves it alone.      *)
LEMMA SwitchSteps ==
  ASSUME TypeInv, [Next]_vars PROVE [SwitchProofs!Next]_SwitchProofs!vars
<1>1. CASE \E scale \in VolScales : Monitor(scale)
  <2>1. PICK scale \in VolScales : Monitor(scale) BY <1>1
  <2> DEFINE e == Equity(book, lastClose')
  <2>2. Switch!Rearm(e) \/ Switch!TripOnDrawdown(e) \/ Switch!TripOnDailyLoss(e) \/ Switch!Hold(e)
    BY <2>1 DEF Monitor
  <2>3. e \in Int BY <2>1, MonitoredEquity
  <2> HIDE DEF e
  <2>4. SwitchProofs!Next BY <2>2, <2>3, SwitchAction
  <2> QED BY <2>4
<1>2. CASE \/ \E bars \in Slices : NextBar(bars)
           \/ KeepPending \/ RejectAtExecution \/ FillOrder
           \/ \E intents \in IntentLists : Decide(intents)
           \/ RejectAtCheck \/ Submit \/ EndBar \/ UNCHANGED vars
  <2>1. UNCHANGED switchVars
    BY <1>2 DEF NextBar, KeepPending, RejectAtExecution, FillOrder, Decide, RejectAtCheck, Submit,
                EndBar, vars
  <2> QED BY <2>1, SwitchVariables
<1> QED BY <1>1, <1>2 DEF Next

(* The engine implements the kill switch, asked once a bar with the equity   *)
(* of its book (Engine._step, step 3).                                       *)
THEOREM EngineRunsTheSwitch == Spec => Switch!Spec
<1>1. Init => Switch!Init BY DEF Init
<1>2. ASSUME TypeInv, [Next]_vars PROVE [Switch!Next]_Switch!vars
  <2>1. CASE \E scale \in VolScales : Monitor(scale)
    <3>1. PICK scale \in VolScales : Monitor(scale) BY <2>1
    <3>2. Equity(book, lastClose') \in Int BY <1>2, <3>1, MonitoredEquity
    <3> QED BY <3>1, <3>2 DEF Monitor, Switch!Next
  <2>2. CASE UNCHANGED switchVars
    BY <2>2 DEF switchVars, Switch!vars, Switch!switchVars, Switch!engineVars
  <2>3. (\E scale \in VolScales : Monitor(scale)) \/ UNCHANGED switchVars
    BY <1>2 DEF Next, NextBar, KeepPending, RejectAtExecution, FillOrder, Decide, RejectAtCheck,
                Submit, EndBar, vars
  <2> QED BY <2>1, <2>2, <2>3
<1> QED BY <1>1, <1>2, TypesAlways, PTL DEF Spec, Switch!Spec

SwitchInv ==
  /\ SwitchProofs!TypeInv /\ SwitchProofs!EpisodesFollowTheSwitch
  /\ SwitchProofs!HaltDurations /\ SwitchProofs!Remembers

LEMMA SwitchInvInit == Init => SwitchInv
<1> SUFFICES ASSUME Init PROVE SwitchInv OBVIOUS
<1>1. SwitchProofs!Init BY SwitchInitial
<1> QED BY <1>1, SwitchAssumed, SwitchProofs!TypeInit, SwitchProofs!EpisodesInit,
           SwitchProofs!DurationsInit, SwitchProofs!RemembersInit DEF SwitchInv

LEMMA SwitchInvStep == ASSUME TypeInv, SwitchInv, [Next]_vars PROVE SwitchInv'
<1>1. [SwitchProofs!Next]_SwitchProofs!vars BY SwitchSteps
<1>2. /\ SwitchProofs!TypeInv /\ SwitchProofs!EpisodesFollowTheSwitch
      /\ SwitchProofs!HaltDurations /\ SwitchProofs!Remembers
  BY DEF SwitchInv
<1>3. SwitchProofs!TypeInv' BY <1>1, <1>2, SwitchAssumed, SwitchProofs!TypeStep
<1>4. SwitchProofs!EpisodesFollowTheSwitch'
  BY <1>1, <1>2, SwitchAssumed, SwitchProofs!EpisodesStep
<1>5. SwitchProofs!HaltDurations' BY <1>1, <1>2, SwitchAssumed, SwitchProofs!DurationsStep
<1>6. SwitchProofs!Remembers' BY <1>1, <1>2, SwitchAssumed, SwitchProofs!RemembersStep
<1> QED BY <1>3, <1>4, <1>5, <1>6 DEF SwitchInv

(* What is proved of the kill switch holds of the switch in the engine,      *)
(* whose equity is what the book comes to: its episodes, how long they last, *)
(* where a drawdown halt begins and what a recovery is measured against      *)
(* (Guardrails.halted, Engine._step).                                        *)
THEOREM SwitchHoldsInTheEngine ==
  Spec => [](/\ Switch!EpisodesFollowTheSwitch /\ Switch!HaltDurations
             /\ Switch!DrawdownHaltsAreExact /\ Switch!LivePeakIsTheHaltPeak)
<1>1. SwitchInv =>
        /\ Switch!EpisodesFollowTheSwitch /\ Switch!HaltDurations
        /\ Switch!DrawdownHaltsAreExact /\ Switch!LivePeakIsTheHaltPeak
  BY DEF SwitchInv, SwitchProofs!Remembers,
         Switch!EpisodesFollowTheSwitch, SwitchProofs!EpisodesFollowTheSwitch,
         Switch!HaltDurations, SwitchProofs!HaltDurations,
         Switch!DrawdownHaltsAreExact, SwitchProofs!DrawdownHaltsAreExact,
         Switch!LivePeakIsTheHaltPeak, SwitchProofs!LivePeakIsTheHaltPeak,
         Switch!TradingSince, SwitchProofs!TradingSince, Switch!Fell, SwitchProofs!Fell
<1>2. TypeInv /\ SwitchInv /\ [Next]_vars => SwitchInv' BY SwitchInvStep
<1> QED BY <1>1, <1>2, SwitchInvInit, TypesAlways, PTL DEF Spec
=============================================================================
