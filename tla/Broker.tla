------------------------------- MODULE Broker -------------------------------
(***************************************************************************)
(* What the Broker protocol (interfaces.py) promises the engine, with the   *)
(* venue hidden: submit refuses an order or queues it, and only on_bar      *)
(* settles what was queued, each order once and for good.  An order that    *)
(* was not ended early settles for exactly the quantity it was placed for;  *)
(* one that was ended settles for what it got, possibly nothing.  Orders    *)
(* are known by their place in the queueing order.                          *)
(***************************************************************************)
EXTENDS Integers, Sequences

CONSTANT Quantities   (* the quantities an order may be placed for *)

VARIABLES
  book,      (* the orders queued so far, each with what became of it  *)
  refusals   (* how many orders submit refused                          *)

brokerVars == <<book, refusals>>

Open(qty) == [qty |-> qty, state |-> "open", filled |-> 0]

(* The ways an open order may be settled. *)
Settlements(order) ==
  {[order EXCEPT !.state = "done", !.filled = order.qty]}
    \cup {[order EXCEPT !.state = "ended", !.filled = got] : got \in 0..order.qty}

BrokerInit == book = <<>> /\ refusals = 0

Submit(qty) ==
  \/ book' = Append(book, Open(qty)) /\ UNCHANGED refusals
  \/ refusals' = refusals + 1 /\ UNCHANGED book

(* One on_bar: any of the open orders settle, the others stay as they are. *)
OnBar ==
  /\ Len(book') = Len(book)
  /\ \A i \in DOMAIN book :
       \/ book'[i] = book[i]
       \/ book[i].state = "open" /\ book'[i] \in Settlements(book[i])
  /\ UNCHANGED refusals

BrokerNext == (\E qty \in Quantities : Submit(qty)) \/ OnBar

BrokerSpec == BrokerInit /\ [][BrokerNext]_brokerVars
=============================================================================
