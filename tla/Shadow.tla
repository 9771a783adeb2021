-------------------------------- MODULE Shadow --------------------------------
(***************************************************************************)
(* ShadowBroker (divergence.py): the decorator that follows every order the *)
(* live broker accepted, asks a throwaway SimulatedBroker what it would     *)
(* have done with it, attributes the live broker's answers to the orders,   *)
(* and journals each row once both sides have answered.                     *)
(*                                                                          *)
(* The live broker is not in this module.  ShadowAlpaca and ShadowSimulated *)
(* take its steps and the shadow's together, as the code does: the live     *)
(* call first, then Track after a submit and Observe after an on_bar.       *)
(*                                                                          *)
(* An order is an Order object: two are the same only by identity, so it is *)
(* [ask |-> the submit that created it, copy |-> whether a broker replaced  *)
(* it on the way].  A fill is [symbol, side, qty, of] and a rejection       *)
(* [order, of]; "of" is the submit it answers and is for checking only.     *)
(* Prices are left out: a row's reference is the bar its open was taken     *)
(* from.  Clock instants and wording are left out too.  Every bar has a      *)
(* timestamp of its own, PaperSession!ProcessedOnce; a bar without any of    *)
(* the Symbols is one of other symbols.                                      *)
(***************************************************************************)
EXTENDS Integers, Sequences, SequencesExt, Selections

CONSTANTS None

VARIABLES
  enabled,     (* ShadowBroker._enabled                                      *)
  tracked,     (* ShadowBroker._tracked: rows some side has not answered     *)
  closed,      (* ShadowBroker._closed: rows both sides have answered        *)
  refusals,    (* ShadowBroker.submit_refusals, counted                      *)
  strays,      (* unmatched_live_fills and unmatched_live_rejections         *)
  lastBar,     (* ShadowBroker._last_bar_ts                                  *)
  journaled,   (* ShadowBroker._journaled                                    *)
  file         (* DivergenceJournal: the rows on disk                        *)

shadowVars == <<enabled, tracked, closed, refusals, strays, lastBar, journaled, file>>

ShadowInit ==
  /\ enabled = TRUE
  /\ tracked = <<>> /\ closed = <<>>
  /\ refusals = 0 /\ strays = <<>>
  /\ lastBar = 0
  /\ journaled = 0 /\ file = <<>>

Rows == closed \o tracked     (* ShadowBroker.divergences *)

----------------------------------------------------------------------------
(* submit *)

Row(order, symbol, side, qty) ==
  [order |-> order, symbol |-> symbol, side |-> side, qty |-> qty,
   since |-> lastBar, ref |-> None, live |-> None, model |-> None]

(* Any statement of the shadow may raise: it is off for the rest of the run. *)
Disable == enabled /\ enabled' = FALSE

(* Mutant: an order refused at submit is followed like any other. *)
TrackAll(row, refused) ==
  \/ /\ enabled
     /\ tracked' = Append(tracked, row)
     /\ UNCHANGED <<enabled, closed, refusals, strays, lastBar, journaled, file>>
  \/ Disable /\ UNCHANGED <<tracked, closed, refusals, strays, lastBar, journaled, file>>
  \/ ~enabled /\ UNCHANGED shadowVars

(* After the live submit: an order the broker refused is counted, never      *)
(* followed.                                                                 *)
Track(row, refused) ==
  \/ /\ enabled /\ refused
     /\ refusals' = refusals + 1
     /\ UNCHANGED <<enabled, tracked, closed, strays, lastBar, journaled, file>>
  \/ /\ enabled /\ ~refused
     /\ tracked' = Append(tracked, row)
     /\ UNCHANGED <<enabled, closed, refusals, strays, lastBar, journaled, file>>
  \/ Disable /\ UNCHANGED <<tracked, closed, refusals, strays, lastBar, journaled, file>>
  \/ ~enabled /\ UNCHANGED shadowVars

----------------------------------------------------------------------------
(* on_bar *)

(* Mutant: the reference moves on with every bar of the symbol. *)
ReferencedAfresh(rows, bars, t) ==
  [i \in DOMAIN rows |->
     IF rows[i].symbol \in bars THEN [rows[i] EXCEPT !.ref = t] ELSE rows[i]]

(* Every row's reference is the first bar its symbol has after the submit.   *)
Referenced(rows, bars, t) ==
  [i \in DOMAIN rows |->
     IF rows[i].ref = None /\ rows[i].symbol \in bars
       THEN [rows[i] EXCEPT !.ref = t] ELSE rows[i]]

(* Settlement: what one side did with an order.                              *)
Answers == [outcome : {"filled", "rejected", "partial"}, ts : Nat, qty : Nat, of : Nat]

Answer(outcome, t, qty, of) == [outcome |-> outcome, ts |-> t, qty |-> qty, of |-> of]

(* The orders the model is asked about, in order of their submits: it can    *)
(* answer those whose symbol has a bar, and answers each of them.            *)
Priceable(rows, bars) ==
  Selected(rows, {i \in DOMAIN rows : rows[i].model = None /\ rows[i].symbol \in bars})

(* verdict: what the model did with each order it was asked about.           *)
Modelled(rows, verdict, t) ==
  [i \in DOMAIN rows |->
     IF rows[i].model = None /\ rows[i].order \in DOMAIN verdict
       THEN [rows[i] EXCEPT !.model =
               Answer(verdict[rows[i].order], t,
                      IF verdict[rows[i].order] = "filled" THEN rows[i].qty ELSE 0,
                      rows[i].order.ask)]
       ELSE rows[i]]

(* Mutant: the side of a fill is not looked at. *)
MatchesSymbol(row, fill) == row.live = None /\ row.symbol = fill.symbol

Matches(row, fill) ==
  row.live = None /\ row.symbol = fill.symbol /\ row.side = fill.side

(* A fill goes to the oldest unanswered row of its symbol and side.          *)
TakeFill(state, fill, t) ==
  LET i == SelectInSeq(state.rows, LAMBDA row : Matches(row, fill))
  IN IF i = 0 THEN [state EXCEPT !.strays = Append(@, fill.of)]
     ELSE [state EXCEPT !.rows[i].live = Answer("filled", t, fill.qty, fill.of)]

(* Mutant: a rejection never amends a fill. *)
TakeRejectionWhole(state, rejection, t) ==
  LET i == SelectInSeq(state.rows,
             LAMBDA row : row.live = None /\ row.order = rejection.order)
  IN IF i # 0 THEN [state EXCEPT !.rows[i].live = Answer("rejected", t, 0, rejection.of)]
     ELSE state

(* A rejection goes to the row of the very order it names; if that order was *)
(* filled on this bar, the fill was a partial one.                           *)
TakeRejection(state, rejection, t) ==
  LET i == SelectInSeq(state.rows,
             LAMBDA row : row.live = None /\ row.order = rejection.order)
      j == SelectInSeq(state.rows,
             LAMBDA row : /\ row.live # None /\ row.order = rejection.order
                          /\ row.live.outcome = "filled" /\ row.live.ts = t)
  IN IF i # 0 THEN [state EXCEPT !.rows[i].live = Answer("rejected", t, 0, rejection.of)]
     ELSE IF j # 0 THEN [state EXCEPT !.rows[j].live.outcome = "partial"]
     ELSE [state EXCEPT !.strays = Append(@, rejection.of)]

(* _attribute_live: all fills before all rejections. *)
Attributed(rows, fills, rejections, t) ==
  FoldLeft(LAMBDA state, rejection : TakeRejection(state, rejection, t),
           FoldLeft(LAMBDA state, fill : TakeFill(state, fill, t),
                    [rows |-> rows, strays |-> <<>>], fills),
           rejections)

Answered(row) == row.live # None /\ row.model # None

(* Mutant: the cursor is not consulted. *)
FreshAll(rows) == rows

Fresh(rows) == SubSeq(rows, journaled + 1, Len(rows))

(* _flush_journal: the cursor moves only after a successful append; one that *)
(* raises may have written some of the rows.                                 *)
Flush(rows) ==
  \/ file' = file \o Fresh(rows) /\ journaled' = Len(rows) /\ UNCHANGED enabled
  \/ /\ Fresh(rows) # <<>> /\ Disable
     /\ \E written \in 0..Len(Fresh(rows)) : file' = file \o SubSeq(Fresh(rows), 1, written)
     /\ UNCHANGED journaled

(* _observe: references, the model, the live answers, harvest, journal.      *)
Observe(bars, fills, rejections, verdict) ==
  LET t == lastBar + 1
      seen == Attributed(Modelled(Referenced(tracked, bars, t), verdict, t),
                         fills, rejections, t)
  IN /\ enabled
     /\ tracked' = Selected(seen.rows, {i \in DOMAIN seen.rows : ~Answered(seen.rows[i])})
     /\ closed' = closed \o Selected(seen.rows, {i \in DOMAIN seen.rows : Answered(seen.rows[i])})
     /\ strays' = strays \o seen.strays
     /\ lastBar' = t
     /\ Flush(closed')
     /\ UNCHANGED refusals

(* The model raises: the references of this bar are kept, nothing else is.   *)
ModelFails(bars) ==
  /\ Disable
  /\ tracked' = Referenced(tracked, bars, lastBar + 1)
  /\ UNCHANGED <<closed, refusals, strays, lastBar, journaled, file>>

Off == ~enabled /\ UNCHANGED shadowVars
=============================================================================
