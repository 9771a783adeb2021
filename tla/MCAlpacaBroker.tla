--------------------------- MODULE MCAlpacaBroker ---------------------------
(* AlpacaBroker on one symbol held in an odd quantity, so that its exit is   *)
(* rounded up, with buys, exits and oversized sells, and perhaps a BUY left *)
(* working by an earlier session.                                            *)
EXTENDS AlpacaBroker

CONSTANTS a

MCSymbols == {a}
MCHoldings == [s \in MCSymbols |-> 1]

Ask(side, qty) == [symbol |-> a, side |-> side, qty |-> qty]

MCAsks == {Ask("BUY", 2), Ask("SELL", 2)}
MCInherited == {<<>>, <<Placed(Ask("BUY", 1))>>}
MCPrices == {1}
=============================================================================
