------------------------------ MODULE MCEngine ------------------------------
(* Engine over two symbols of one sector, with feeds that gap, fall and skip *)
(* a symbol, and a strategy that targets, exits and sends raw orders.        *)
EXTENDS Engine

CONSTANTS a, b, tech

MCSymbols == {a, b}
MCSectorOf == [s \in MCSymbols |-> tech]

Bar(open, close) == [open |-> open, close |-> close]
Slice(x, y) == [s \in MCSymbols |-> IF s = a THEN x ELSE y]

MCSlices == { Slice(Bar(4, 4), Bar(5, 5)), Slice(Bar(4, 2), Bar(5, 5)),
              Slice(Bar(2, 4), NoPrice), Slice(NoPrice, Bar(7, 3)) }

Target(s, weight) == [kind |-> "target", symbol |-> s, weight |-> weight]
Raw(s, side, qty) == [kind |-> "order", symbol |-> s, side |-> side, qty |-> qty]

MCIntentLists ==
  { <<>>, <<Target(a, 50), Target(b, 50)>>, <<Target(a, 100), Raw(a, "BUY", 3)>>,
    <<Target(a, 0)>>, <<Target(b, 60), Raw(a, "SELL", 2), Target(a, 30)>> }

Limits(position, gross, sector, cooldown) ==
  [maxPosition |-> position, maxGross |-> gross, maxSector |-> sector,
   maxDrawdown |-> 20, maxDailyLoss |-> None, cooldown |-> cooldown, recovery |-> None]

MCConfigs == { Limits(60, 100, None, None), Limits(100, 90, 80, 1), Limits(200, 200, None, None) }
=============================================================================
