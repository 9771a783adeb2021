-------------------------- MODULE MCShadowSimulated --------------------------
(* ShadowSimulated on one symbol at one price, cash for a small buy only.    *)
EXTENDS ShadowSimulated

CONSTANTS a

MCSymbols == {a}
Ask(side, qty) == [symbol |-> a, side |-> side, qty |-> qty]
MCAsks == {Ask("BUY", 3), Ask("BUY", 1), Ask("SELL", 1)}
MCOpens == {[s \in MCSymbols |-> 2], [s \in MCSymbols |-> NoPrice]}
=============================================================================
