---------------------------- MODULE MCShadowAlpaca ----------------------------
(* ShadowAlpaca on one symbol.  A whole holding is an equity's, which the    *)
(* sizer can sell exactly; an odd one is a crypto holding, whose exit the    *)
(* sizer rounds up and the broker trims.                                     *)
EXTENDS ShadowAlpaca

CONSTANTS a

MCSymbols == {a}
WholeHolding == [s \in MCSymbols |-> 4]
OddHolding == [s \in MCSymbols |-> 1]

Ask(side, qty) == [symbol |-> a, side |-> side, qty |-> qty]

WholeAsks == {Ask("BUY", 4), Ask("SELL", 4)}
OddExits == {Ask("SELL", 2)}
MCInherited == {<<>>}
MCPrices == {1}
=============================================================================
