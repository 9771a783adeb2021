---------------------------- MODULE ShadowAlpaca ----------------------------
(***************************************************************************)
(* A paper session's broker as the command line wires it: ShadowBroker      *)
(* around an AlpacaBroker.  Each step of the Alpaca broker is taken together *)
(* with what the shadow does right after it; the venue moves as before.     *)
(***************************************************************************)
EXTENDS AlpacaBroker

CONSTANT MaxBars   (* bound: the bars the shadow sees                        *)

VARIABLES
  enabled, tracked, closed, refusals, strays, lastBar, journaled, file,
  before,    (* ShadowBroker.on_bar: the rejections there were before it     *)
  objects    (* the Order object AlpacaBroker._requested holds for each id   *)

Shadow == INSTANCE Shadow

ASSUME ShadowAssumption == MaxBars \in Nat /\ None \notin Shadow!Answers

shadowVars == <<enabled, tracked, closed, refusals, strays, lastBar, journaled, file>>
allVars == <<vars, shadowVars, before, objects>>

ShadowedInit == Init /\ Shadow!ShadowInit /\ before = 0 /\ objects = <<>>

(* The object that reaches the live broker's book: a trimmed order is a copy. *)
Object(ask) == [ask |-> asked + 1, copy |-> Trim(ask) # ask]

(* What the shadow follows is the object it was handed, before any trim.     *)
ShadowSubmit(ask) ==
  LET refused == rejections' # rejections
      handed == [ask |-> asked + 1, copy |-> FALSE]
  IN /\ Submit(ask)
     /\ objects' = IF refused THEN objects
                   ELSE [id \in Range(ours') |->
                           IF id = Len(orders') THEN Object(ask) ELSE objects[id]]
     /\ Shadow!Track(Shadow!Row(handed, ask.symbol, ask.side, ask.qty), refused)
     /\ UNCHANGED before

(* The copy of the book, and where the rejection list stands.                *)
ShadowStartBar ==
  /\ lastBar < MaxBars
  /\ StartBar
  /\ before' = Len(rejections)
  /\ enabled' \in {enabled, FALSE}
  /\ UNCHANGED <<tracked, closed, refusals, strays, lastBar, journaled, file, objects>>

LiveFills ==
  [i \in DOMAIN fills |-> [symbol |-> fills[i].symbol, side |-> fills[i].side,
                           qty |-> fills[i].qty, of |-> objects[fills[i].id].ask]]

LiveRejections ==
  [i \in 1..Len(rejections) - before |->
     [order |-> objects[rejections[before + i].id],
      of |-> objects[rejections[before + i].id].ask]]

Verdicts(bars) ==
  LET asked_ == {row.order : row \in Range(Shadow!Priceable(tracked, bars))}
  IN [asked_ -> {"filled", "rejected"}]

(* The live on_bar returns; the bars it was given may have the symbol or not. *)
ShadowEndBar ==
  /\ ReadPositions
  /\ \E bars \in SUBSET Symbols :
       \/ \E verdict \in Verdicts(bars) :
            Shadow!Observe(bars, LiveFills, LiveRejections, verdict)
       \/ Shadow!ModelFails(bars)
       \/ bars = {} /\ Shadow!Off
  /\ UNCHANGED <<before, objects>>

(* Steps in which the shadow has no part.                                    *)
Alone ==
  /\ \/ \E id \in DOMAIN orders : Venue(id)
     \/ Retry \/ Settle \/ ReadCash \/ BarFails
     \/ \E ask \in Asks : SubmitFails(ask)
  /\ UNCHANGED <<shadowVars, before, objects>>

ShadowedNext ==
  \/ \E ask \in Asks : ShadowSubmit(ask)
  \/ ShadowStartBar
  \/ ShadowEndBar
  \/ Alone

ShadowedSpec == ShadowedInit /\ [][ShadowedNext]_allVars

----------------------------------------------------------------------------
(* Properties, of a shadow that is still on, between two bars. *)

Settled == phase = "submit" /\ enabled
RowIds(row) == {id \in DOMAIN objects : objects[id].ask = row.order.ask}

(* Each order the venue accepted has exactly one row and an order refused at *)
(* submit has none but is counted: nothing is reported pending that no venue *)
(* ever received, and nothing is forgotten (ShadowBroker.submit, ADR-0050).  *)
OneRowPerOrder ==
  Settled =>
    /\ {row.order.ask : row \in Range(Shadow!Rows)} = {objects[id].ask : id \in DOMAIN objects}
    /\ Len(Shadow!Rows) = Len(ours)
    /\ refusals = asked - Len(Shadow!Rows)

(* Each answer is on the row of the order it answers, and none is left over, *)
(* though a fill carries no order id (_attribute_live).                      *)
AttributionIsExact ==
  /\ strays = <<>>
  /\ \A row \in Range(Shadow!Rows) : row.live # None => row.live.of = row.order.ask

(* A row without a live answer is an order the broker is still waiting for,  *)
(* and a row with one says what the venue did: all of it, part of it before  *)
(* it was ended, or none of it (OUTCOME_PENDING, _PARTIAL, ADR-0033).        *)
RowsTellTheOutcome ==
  Settled => \A row \in Range(Shadow!Rows) : \A id \in RowIds(row) :
    IF id \in Range(pending) THEN row.live = None
    ELSE /\ row.live # None
         /\ row.live.qty = orders[id].filled
         /\ row.live.outcome = IF orders[id].status = "filled" THEN "filled"
                               ELSE IF orders[id].filled > 0 THEN "partial" ELSE "rejected"

(* Both sides are measured against one bar: the model answers an order on    *)
(* the bar its reference open is from, the first its symbol has after the    *)
(* submit (the module docstring's counterfactual).                           *)
ModelPricesTheReference ==
  \A row \in Range(Shadow!Rows) :
    /\ row.model # None => row.ref # None /\ row.model.ts = row.ref
    /\ row.ref # None => row.ref > row.since
    /\ enabled => (row.ref = None <=> row.model = None)

(* What is on disk is a prefix of what the finished session will report,     *)
(* whatever fails and whenever the session stops: a journaled row is never   *)
(* changed, reordered or written twice (ADR-0048).                           *)
JournalIsAPrefix ==
  /\ IsPrefix(file, closed)
  /\ enabled /\ phase = "submit" => file = closed
=============================================================================
