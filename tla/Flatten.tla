------------------------------ MODULE Flatten ------------------------------
(***************************************************************************)
(* `make paper-flatten` and `make paper-preflight`: the scripts that bring *)
(* the account to flat between two sessions, and the venue they talk to.   *)
(*                                                                         *)
(* Every call of a script is a step of its own; between two of them the    *)
(* venue fills an order or completes a cancellation. A call may fail, with *)
(* or without having taken effect at the venue.                            *)
(***************************************************************************)
EXTENDS Naturals, FiniteSets, FiniteSetsExt

CONSTANTS Tickers,    \* symbols the account may hold
          MaxFaults   \* calls that fail before the venue is reliable

ASSUME FlattenAssumption == MaxFaults \in Nat

VARIABLES held,     \* shares held of each symbol
          buy,      \* its BUY: "none", "working", or "pending" cancellation
          sell,     \* shares its working SELL is for, 0 without one
          at,       \* where the operator stands
          working,  \* the working orders the script has read
          todo,     \* symbols the script still has to act on
          failed,   \* an action of this pass failed
          seen,     \* the positions as they were last read
          live,     \* the symbols whose BUY was live at that moment (history)
          idle,     \* the pass found nothing to do (already_flat)
          faults    \* calls that have failed

venue == <<held, buy, sell>>
script == <<working, todo, failed, idle>>
flattenVars == <<held, buy, sell, at, working, todo, failed, seen, live, idle, faults>>

NoOrders == [buys |-> {}, sells |-> {}]
Live(s) == buy[s] # "none"
Empty == [s \in Tickers |-> 0]
In(positions) == {s \in Tickers : positions[s] > 0}
OpenOrders == [buys |-> {s \in Tickers : Live(s)}, sells |-> {s \in Tickers : sell[s] > 0}]
Flat == held = Empty /\ OpenOrders = NoOrders

\* A session ends holding its book, with some orders still working; a SELL that
\* works is for the whole position.
FlattenInit ==
  /\ held \in [Tickers -> 0 .. 1]
  /\ buy \in [Tickers -> {"none", "working"}]
  /\ sell \in [Tickers -> 0 .. 1]
  /\ \A s \in Tickers : sell[s] <= held[s] /\ ~(sell[s] > 0 /\ Live(s))
  /\ at = "preflight" /\ working = NoOrders /\ todo = {} /\ failed = FALSE
  /\ seen = Empty /\ live = {} /\ idle = FALSE /\ faults = 0

Fault == faults < MaxFaults /\ faults' = faults + 1
Reliable == faults' = faults

-----------------------------------------------------------------------------
(* The venue *)

FillBuy(s) ==
  /\ Live(s)
  /\ held' = [held EXCEPT ![s] = @ + 1] /\ buy' = [buy EXCEPT ![s] = "none"]
  /\ UNCHANGED <<sell, at, script, seen, live, faults>>

EndCancel(s) ==
  /\ buy[s] = "pending" /\ buy' = [buy EXCEPT ![s] = "none"]
  /\ UNCHANGED <<held, sell, at, script, seen, live, faults>>

FillSell(s) ==
  /\ sell[s] > 0
  /\ held' = [held EXCEPT ![s] = @ - sell[s]] /\ sell' = [sell EXCEPT ![s] = 0]
  /\ UNCHANGED <<buy, at, script, seen, live, faults>>

-----------------------------------------------------------------------------
(* The preflight: its positions, then its working orders *)

\* _account_and_positions; a call that fails is a failed check.
CheckPositions ==
  /\ at = "preflight" /\ at' = "preflight orders"
  /\ \/ Reliable /\ failed' = (held # Empty) /\ seen' = held
     \/ Fault /\ failed' = TRUE /\ seen' = Empty
  /\ live' = OpenOrders.buys
  /\ UNCHANGED <<venue, working, todo, idle>>

\* Mutant: the positions the preflight found do not fail it.
CheckOrdersAlone ==
  /\ at = "preflight orders"
  /\ \/ Reliable /\ at' = IF OpenOrders # NoOrders THEN "flatten" ELSE "preflight"
     \/ Fault /\ at' = "flatten"
  /\ failed' = FALSE /\ seen' = Empty /\ live' = {}
  /\ UNCHANGED <<venue, working, todo, idle>>

\* _open_orders; a preflight that is not clean sends the operator to the flatten
\* script, a clean one comes again before the next session.
CheckOrders ==
  /\ at = "preflight orders"
  /\ \/ Reliable /\ at' = IF failed \/ OpenOrders # NoOrders THEN "flatten" ELSE "preflight"
     \/ Fault /\ at' = "flatten"
  /\ failed' = FALSE /\ seen' = Empty /\ live' = {}
  /\ UNCHANGED <<venue, working, todo, idle>>

-----------------------------------------------------------------------------
(* The flatten script *)

\* main reads the working orders first; without them it exits 1.
FetchOrders ==
  /\ at = "flatten"
  /\ \/ Reliable /\ working' = OpenOrders /\ at' = "plan"
     \/ Fault /\ working' = NoOrders /\ at' = "preflight"
  /\ failed' = FALSE /\ idle' = FALSE
  /\ UNCHANGED <<venue, todo, seen, live>>

\* plan_and_flatten lists the positions; a failure there escapes.
ListPositions ==
  /\ at = "plan"
  /\ \/ /\ Reliable /\ seen' = held
        /\ idle' = (held = Empty /\ working = NoOrders)
        /\ todo' = working.buys
        /\ at' = IF idle' THEN "verify" ELSE "cancel"
        /\ working' = working
     \/ Fault /\ at' = "preflight" /\ working' = NoOrders /\ UNCHANGED <<todo, seen, idle>>
  /\ UNCHANGED <<venue, failed, live>>

\* The cancel of an order that has ended succeeds (RealAlpacaClient.cancel_order);
\* one that fails may still have reached the venue.
CancelBuy ==
  /\ at = "cancel"
  /\ \E s \in todo :
       /\ todo' = todo \ {s}
       /\ \/ Reliable /\ failed' = failed
             /\ buy' = [buy EXCEPT ![s] = IF Live(s) THEN "pending" ELSE "none"]
          \/ Fault /\ failed' = TRUE
             /\ buy' \in {buy, [buy EXCEPT ![s] = IF Live(s) THEN "pending" ELSE "none"]}
  /\ UNCHANGED <<held, sell, at, working, seen, live, idle>>

BuysCanceled ==
  /\ at = "cancel" /\ todo = {}
  /\ at' = "sell" /\ todo' = In(seen)
  /\ UNCHANGED <<venue, working, failed, seen, live, idle, faults>>

\* A market SELL of the quantity the positions were listed with. The venue refuses
\* it beside a working SELL (held_for_orders) or a live BUY (wash trade), and the
\* script takes both refusals for a position that is being flattened already.
SellPosition ==
  /\ at = "sell"
  /\ \E s \in todo :
       /\ todo' = todo \ {s}
       /\ IF s \in working.sells \/ sell[s] > 0 \/ Live(s)
            THEN UNCHANGED <<sell, failed, faults>>
            ELSE \/ Reliable /\ sell' = [sell EXCEPT ![s] = seen[s]] /\ failed' = failed
                 \/ Fault /\ sell' \in {sell, [sell EXCEPT ![s] = seen[s]]} /\ failed' = TRUE
  /\ UNCHANGED <<held, buy, at, working, seen, live, idle>>

PositionsSold ==
  /\ at = "sell" /\ todo = {} /\ at' = "verify"
  /\ UNCHANGED <<venue, script, seen, live, faults>>

\* _verify reads the positions and then the working orders.
VerifyPositions ==
  /\ at = "verify"
  /\ \/ Reliable /\ seen' = held /\ live' = OpenOrders.buys /\ at' = "verify orders"
        /\ UNCHANGED <<working, failed, idle>>
     \/ Fault /\ at' = "preflight" /\ working' = NoOrders /\ failed' = FALSE /\ idle' = FALSE
        /\ seen' = Empty /\ live' = {}
  /\ UNCHANGED <<venue, todo>>

\* Mutant: a pass without a failed action is clean.
VerifyNothing ==
  /\ at = "verify orders"
  /\ \/ Reliable /\ working' = OpenOrders
     \/ Fault /\ working' = NoOrders
  /\ at' = IF ~failed THEN "clean" ELSE "not clean"
  /\ UNCHANGED <<venue, todo, failed, seen, live, idle>>

\* Orders that cannot be read again leave the verdict to the positions alone.
VerifyOrders ==
  /\ at = "verify orders"
  /\ \/ Reliable /\ working' = OpenOrders
     \/ Fault /\ working' = NoOrders
  /\ at' = IF ~failed /\ (idle \/ (seen = Empty /\ working' = NoOrders)) THEN "clean" ELSE "not clean"
  /\ UNCHANGED <<venue, todo, failed, seen, live, idle>>

\* The operator re-checks with the preflight, as the script says.
Recheck ==
  /\ at \in {"clean", "not clean"} /\ at' = "preflight"
  /\ working' = NoOrders /\ failed' = FALSE /\ idle' = FALSE /\ seen' = Empty /\ live' = {}
  /\ UNCHANGED <<venue, todo, faults>>

FlattenScript ==
  \/ CheckPositions \/ CheckOrders \/ FetchOrders \/ ListPositions \/ CancelBuy
  \/ BuysCanceled \/ SellPosition \/ PositionsSold \/ VerifyPositions \/ VerifyOrders \/ Recheck

Venue == \E s \in Tickers : FillBuy(s) \/ EndCancel(s) \/ FillSell(s)

FlattenNext == FlattenScript \/ Venue

FlattenSpec == FlattenInit /\ [][FlattenNext]_flattenVars

\* The operator runs the scripts on, every order the venue holds ends.
FlattenFairness ==
  /\ WF_flattenVars(FlattenScript)
  /\ \A s \in Tickers : WF_flattenVars(FillSell(s)) /\ WF_flattenVars(FillBuy(s) \/ EndCancel(s))

FairFlattenSpec == FlattenSpec /\ FlattenFairness

-----------------------------------------------------------------------------
\* No step of a script or the venue ever sells more than the account holds: two
\* passes, or a pass behind one that timed out, never submit the same position
\* twice, so a long book is not turned into a short one.
NeverShort == \A s \in Tickers : sell[s] <= held[s]

\* "Clean: account is flat" is only wrong about a position that a BUY still being
\* cancelled opened after the verification read the positions.
CleanIsFlat == at = "clean" => In(held) \subseteq live

\* Repeating preflight and flatten brings every account to flat for good,
\* whatever was working when the session ended and whichever calls failed.
EventuallyFlat == <>[]Flat
=============================================================================
