---------------------------- MODULE MCOperations ----------------------------
(***************************************************************************)
(* What happens around the session loop: the paper command with the ledger *)
(* and the dashboard, or the scripts that flatten the account afterwards.  *)
(* The two share no state, so a behaviour is one of either.                *)
(***************************************************************************)
EXTENDS PaperCommand, Flatten

\* No script runs.
NoScript ==
  /\ held = Empty /\ buy = [s \in Tickers |-> "none"] /\ sell = Empty
  /\ at = "off" /\ working = NoOrders /\ todo = {} /\ failed = FALSE
  /\ seen = Empty /\ live = {} /\ idle = FALSE /\ faults = 0

OperationsInit == PaperInit /\ (NoScript \/ FlattenInit)

Commands == at = "off" /\ PaperNext /\ UNCHANGED flattenVars
Scripts == at # "off" /\ FlattenNext /\ UNCHANGED vars

OperationsSpec ==
  /\ OperationsInit
  /\ [][Commands \/ Scripts]_<<vars, flattenVars>>
  /\ FlattenFairness
=============================================================================
