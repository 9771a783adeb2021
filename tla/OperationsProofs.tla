-------------------------- MODULE OperationsProofs --------------------------
(***************************************************************************)
(* What is proved of the paper command and of the scripts that flatten the *)
(* account (PaperCommand, Flatten).                                        *)
(*                                                                         *)
(* For any number of sessions, bars and signals: whatever interrupts a     *)
(* paper session, and whenever the dashboard reads, the state file is one  *)
(* that some session wrote whole for a bar it had logged; a session that   *)
(* SIGTERM stops in its loop ends with its artifacts written; and the      *)
(* ledger never counts a trial that was not run.                           *)
(*                                                                         *)
(* For every set of symbols, every portfolio and every number of failing   *)
(* calls: the scripts never sell more than the account holds, and a pass   *)
(* that reports a flat account is wrong only about a BUY that filled after *)
(* the verification had read the positions.                                *)
(***************************************************************************)
EXTENDS PaperCommand, Flatten, FoldTheorems

Outside == {"left", "equity", "prior", "result", "append", "done", "escaped", "killed"}
Mark == [session : Nat, bar : Nat]

PaperTypes ==
  /\ session \in Nat /\ bar \in Nat /\ log \in Nat
  /\ state \in Mark /\ tmp \in Mark
  /\ view \in [state : Mark, log : Nat, of : Nat]
  /\ pc \in {"none"} \cup InLoop \cup Outside

(* Where the loop stands tells what it has logged and what it is writing.    *)
LoopIsInStep ==
  /\ (session = 0) = (pc = "none")
  /\ session = 0 => state.bar = 0
  /\ pc = "wait" => log = bar
  /\ pc = "step" => bar = log + 1
  /\ pc \in {"logged", "persist"} => log = bar /\ bar > 0
  /\ pc = "persist" => tmp = [session |-> session, bar |-> bar]

(* A state file of the running session is the log's last bar, but for the    *)
(* time between writing one and the other.                                   *)
StateFollowsTheLog ==
  /\ state.session <= session
  /\ state.session = session /\ session > 0 =>
       /\ state.bar > 0
       /\ pc \in {"wait", "step"} => state.bar = log
       /\ pc \in {"logged", "persist"} => state.bar + 1 = log
       /\ pc \in Outside => state.bar = log \/ state.bar + 1 = log

(* What the dashboard has read of the state is not ahead of what it will     *)
(* read, or has read, of the log.                                            *)
ViewFollowsTheLog ==
  /\ view.state.session <= session /\ view.of <= session
  /\ view.of = 0 /\ view.state.session = session => view.state.bar <= log
  /\ ViewIsCoherent

PInv == PaperTypes /\ LoopIsInStep /\ StateFollowsTheLog /\ ViewFollowsTheLog

-----------------------------------------------------------------------------
LEMMA PInvInit == PaperInit => PInv
<1> SUFFICES ASSUME PaperInit PROVE PInv
  OBVIOUS
<1>1. PaperTypes
  BY DEF PaperInit, PaperTypes, NoState, NoView, Mark, InLoop, Outside
<1>2. LoopIsInStep /\ StateFollowsTheLog
  BY DEF PaperInit, LoopIsInStep, StateFollowsTheLog, NoState
<1>3. ViewFollowsTheLog
  BY DEF PaperInit, ViewFollowsTheLog, ViewIsCoherent, NoView, NoState
<1> QED BY <1>1, <1>2, <1>3 DEF PInv

(* The fields the invariant speaks of, as numbers.                           *)
LEMMA Fields ==
  ASSUME PaperTypes
  PROVE  /\ state.session \in Nat /\ state.bar \in Nat
         /\ view.state.session \in Nat /\ view.state.bar \in Nat
         /\ view.log \in Nat /\ view.of \in Nat
BY DEF PaperTypes, Mark

(* At any moment the state file is at most one bar behind the log.           *)
LEMMA StateNearLog ==
  ASSUME PInv, state.session = session, session > 0
  PROVE  state.bar > 0 /\ (state.bar = log \/ state.bar + 1 = log)
<1>1. pc # "none" => pc \in {"wait", "step"} \/ pc \in {"logged", "persist"} \/ pc \in Outside
  BY DEF PInv, PaperTypes, InLoop
<1>2. CASE pc = "none"
  BY <1>2 DEF PInv, LoopIsInStep, StateFollowsTheLog
<1>3. CASE pc # "none"
  BY <1>1, <1>3 DEF PInv, StateFollowsTheLog
<1> QED BY <1>2, <1>3

(* A step that leaves the files and the log alone, and the loop where it is  *)
(* or for good: the finalization, signals, and the commands beside.          *)
Aside ==
  /\ UNCHANGED <<session, bar, log, state, view>>
  /\ \/ pc' = pc /\ tmp' = tmp
     \/ pc # "none" /\ pc' \in Outside /\ tmp' \in {tmp, NoState}

LEMMA AsideStep == ASSUME PInv, Aside PROVE PInv'
<1> USE DEF PInv
<1>1. session' = session /\ bar' = bar /\ log' = log /\ state' = state /\ view' = view
  BY DEF Aside
<1>2. PaperTypes'
  BY <1>1 DEF Aside, PaperTypes, NoState, Mark
<1>3. ViewFollowsTheLog'
  BY <1>1 DEF ViewFollowsTheLog, ViewIsCoherent
<1>4. CASE pc' = pc /\ tmp' = tmp
  BY <1>1, <1>2, <1>3, <1>4 DEF LoopIsInStep, StateFollowsTheLog
<1>5. CASE pc # "none" /\ pc' \in Outside
  <2>1. LoopIsInStep'
    BY <1>1, <1>5 DEF LoopIsInStep, Outside
  <2>2. StateFollowsTheLog'
    <3>1. state.session = session /\ session > 0 => state.bar = log \/ state.bar + 1 = log
      BY <1>5 DEF PaperTypes, StateFollowsTheLog, InLoop
    <3> QED BY <1>1, <1>5, <3>1 DEF StateFollowsTheLog, Outside
  <2> QED BY <1>2, <1>3, <2>1, <2>2
<1> QED BY <1>4, <1>5 DEF Aside

LEMMA AsideCases ==
  ASSUME PaperTypes,
         \/ LeaveLoop \/ Disarm \/ WriteEquity \/ ReadPrior \/ WriteResult \/ AppendTrial
         \/ Signal \/ ResearchRun \/ ResearchAppend \/ ResearchCrash
  PROVE  Aside
<1> USE DEF Aside, Outside, logging, artifacts
<1>1. CASE LeaveLoop \/ Disarm \/ WriteEquity
  BY <1>1 DEF LeaveLoop, Disarm, WriteEquity
<1>2. CASE ReadPrior
  BY <1>2 DEF ReadPrior
<1>3. CASE WriteResult \/ AppendTrial
  BY <1>3 DEF WriteResult, AppendTrial
<1>4. CASE Sigterm
  <2>1. pc # "none" /\ UNCHANGED <<session, bar, log, state, view>>
    BY <1>4 DEF Sigterm, Deliver, Ended
  <2>2. (pc' = pc /\ tmp' = tmp) \/ (pc' \in {"left", "escaped"} /\ tmp' \in {tmp, NoState})
    BY <1>4 DEF Sigterm, Raised
  <2> QED BY <2>1, <2>2
<1>5. CASE Interrupt
  <2>1. pc # "none" /\ UNCHANGED <<session, bar, log, state, view>>
    BY <1>5 DEF Interrupt, Deliver, Ended
  <2>2. pc' \in {"left", "escaped"} /\ tmp' \in {tmp, NoState}
    BY <1>5 DEF Interrupt, Raised
  <2> QED BY <2>1, <2>2
<1>6. CASE Kill
  BY <1>6 DEF Kill, Deliver, Ended
<1>7. CASE KillInAppend
  BY <1>7 DEF KillInAppend
<1>8. CASE ResearchRun \/ ResearchAppend \/ ResearchCrash
  BY <1>8 DEF ResearchRun, ResearchAppend, ResearchCrash, ResearchUnchanged
<1> QED BY <1>1, <1>2, <1>3, <1>4, <1>5, <1>6, <1>7, <1>8 DEF Signal

LEMMA PInvStep == PInv /\ [PaperNext]_vars => PInv'
<1> SUFFICES ASSUME PInv, [PaperNext]_vars PROVE PInv'
  OBVIOUS
<1> USE DEF PInv, logging, artifacts
<1>0. /\ session \in Nat /\ bar \in Nat /\ log \in Nat
      /\ state.session \in Nat /\ state.bar \in Nat
      /\ view.state.session \in Nat /\ view.state.bar \in Nat
      /\ view.log \in Nat /\ view.of \in Nat
  BY Fields DEF PaperTypes
<1>1. CASE Start
  <2>1. /\ session' = session + 1 /\ pc' = "wait" /\ bar' = 0 /\ log' = 0
        /\ state' = state /\ tmp' = tmp /\ view' = view
    BY <1>1 DEF Start
  <2>2. PaperTypes' BY <1>0, <2>1 DEF PaperTypes, InLoop
  <2>3. LoopIsInStep' BY <1>0, <2>1 DEF LoopIsInStep
  <2>4. StateFollowsTheLog' BY <1>0, <2>1 DEF StateFollowsTheLog
  <2>5. ViewFollowsTheLog' BY <1>0, <2>1 DEF ViewFollowsTheLog, ViewIsCoherent
  <2> QED BY <2>2, <2>3, <2>4, <2>5
<1>2. CASE StepBar
  <2>1. /\ pc = "wait" /\ pc' = "step" /\ bar' = bar + 1 /\ session' = session /\ log' = log
        /\ state' = state /\ tmp' = tmp /\ view' = view
    BY <1>2 DEF StepBar
  <2>2. PaperTypes' BY <1>0, <2>1 DEF PaperTypes, InLoop
  <2>3. LoopIsInStep' BY <1>0, <2>1 DEF LoopIsInStep
  <2>4. StateFollowsTheLog' BY <1>0, <2>1 DEF StateFollowsTheLog, Outside
  <2>5. ViewFollowsTheLog' BY <1>0, <2>1 DEF ViewFollowsTheLog, ViewIsCoherent
  <2> QED BY <2>2, <2>3, <2>4, <2>5
<1>3. CASE WriteLog
  <2>1. /\ pc = "step" /\ pc' = "logged" /\ bar' = bar /\ session' = session /\ log' = log + 1
        /\ state' = state /\ tmp' = tmp /\ view' = view
    BY <1>3 DEF WriteLog
  <2>2. PaperTypes' BY <1>0, <2>1 DEF PaperTypes, InLoop
  <2>3. LoopIsInStep' BY <1>0, <2>1 DEF LoopIsInStep
  <2>4. StateFollowsTheLog' BY <1>0, <2>1 DEF StateFollowsTheLog, Outside
  <2>5. ViewFollowsTheLog' BY <1>0, <2>1 DEF ViewFollowsTheLog, ViewIsCoherent
  <2> QED BY <2>2, <2>3, <2>4, <2>5
<1>4. CASE WriteTemp
  <2>1. /\ pc = "logged" /\ pc' = "persist" /\ bar' = bar /\ session' = session /\ log' = log
        /\ state' = state /\ tmp' = [session |-> session, bar |-> bar] /\ view' = view
    BY <1>4 DEF WriteTemp
  <2>2. PaperTypes' BY <1>0, <2>1 DEF PaperTypes, InLoop, Mark
  <2>3. LoopIsInStep' BY <1>0, <2>1 DEF LoopIsInStep
  <2>4. StateFollowsTheLog' BY <1>0, <2>1 DEF StateFollowsTheLog, Outside
  <2>5. ViewFollowsTheLog' BY <1>0, <2>1 DEF ViewFollowsTheLog, ViewIsCoherent
  <2> QED BY <2>2, <2>3, <2>4, <2>5
<1>5. CASE ReplaceState
  <2>1. /\ pc = "persist" /\ pc' = "wait" /\ bar' = bar /\ session' = session /\ log' = log
        /\ state' = tmp /\ tmp' = NoState /\ view' = view
    BY <1>5 DEF ReplaceState
  <2>2. tmp = [session |-> session, bar |-> bar] /\ log = bar /\ bar > 0 /\ session # 0
    BY <2>1 DEF LoopIsInStep
  <2>3. PaperTypes' BY <1>0, <2>1, <2>2 DEF PaperTypes, InLoop, NoState, Mark
  <2>4. LoopIsInStep' BY <1>0, <2>1, <2>2 DEF LoopIsInStep
  <2>5. StateFollowsTheLog' BY <1>0, <2>1, <2>2 DEF StateFollowsTheLog, Outside
  <2>6. ViewFollowsTheLog' BY <1>0, <2>1 DEF ViewFollowsTheLog, ViewIsCoherent
  <2> QED BY <2>3, <2>4, <2>5, <2>6
<1>6. CASE ReadState \/ ReadLogLines
  <2>1. UNCHANGED <<session, bar, log, state, tmp, pc>>
    BY <1>6 DEF ReadState, ReadLogLines, ReaderUnchanged
  <2>2. LoopIsInStep' /\ StateFollowsTheLog'
    BY <2>1 DEF LoopIsInStep, StateFollowsTheLog
  <2>3. CASE ReadState
    <3>1. view' = [state |-> state, log |-> 0, of |-> 0]
      BY <2>3 DEF ReadState
    <3>2. PaperTypes' BY <2>1, <3>1 DEF PaperTypes
    <3>3. state.session = session => state.bar <= log
      <4>1. CASE session = 0
        BY <1>0, <4>1 DEF LoopIsInStep
      <4>2. CASE session # 0
        BY <1>0, <4>2, StateNearLog
      <4> QED BY <4>1, <4>2
    <3>4. view'.state = state /\ view'.of = 0
      BY <3>1
    <3>5. state.session <= session
      BY DEF StateFollowsTheLog
    <3>6. ViewFollowsTheLog'
      BY <1>0, <2>1, <3>3, <3>4, <3>5 DEF ViewFollowsTheLog, ViewIsCoherent
    <3> QED BY <2>2, <3>2, <3>6
  <2>4. CASE ReadLogLines
    <3>1. view.of = 0 /\ view' = [view EXCEPT !.log = log, !.of = session]
      BY <2>4 DEF ReadLogLines
    <3>2. view'.state = view.state /\ view'.log = log /\ view'.of = session
          /\ view' \in [state : Mark, log : Nat, of : Nat]
      BY <1>0, <3>1 DEF PaperTypes
    <3>3. PaperTypes' BY <2>1, <3>2 DEF PaperTypes
    <3>4. ViewFollowsTheLog'
      BY <1>0, <2>1, <3>1, <3>2 DEF ViewFollowsTheLog, ViewIsCoherent
    <3> QED BY <2>2, <3>3, <3>4
  <2> QED BY <1>6, <2>3, <2>4
<1>7. CASE UNCHANGED vars
  <2>1. Aside BY <1>7 DEF vars, Aside
  <2> QED BY <2>1, AsideStep
<1>8. CASE \/ LeaveLoop \/ Disarm \/ WriteEquity \/ ReadPrior \/ WriteResult \/ AppendTrial
           \/ Signal \/ ResearchRun \/ ResearchAppend \/ ResearchCrash
  BY <1>8, AsideCases, AsideStep
<1> QED BY <1>1, <1>2, <1>3, <1>4, <1>5, <1>6, <1>7, <1>8 DEF PaperNext, SessionStep

LEMMA PInvAlways == PaperSpec => []PInv
BY PInvInit, PInvStep, PTL DEF PaperSpec

-----------------------------------------------------------------------------
(* A reader of the session directory sees, after any crash and between any   *)
(* two writes, a state that some session wrote whole for a bar it had logged *)
(* (_persist_state, read_state, read_log_lines).                             *)
THEOREM StateIsWhole == PaperSpec => []StateIsALoggedBar
<1>1. PInv => StateIsALoggedBar
  <2> SUFFICES ASSUME PInv PROVE StateIsALoggedBar
    OBVIOUS
  <2>1. state.session \in Nat /\ state.bar \in Nat /\ log \in Nat /\ session \in Nat
    BY Fields DEF PInv, PaperTypes
  <2>2. state.session = session /\ session > 0 =>
          state.bar > 0 /\ (state.bar = log \/ state.bar + 1 = log)
    BY StateNearLog
  <2>3. state.session = session /\ session > 0 => state.bar > 0 /\ log - state.bar \in {0, 1}
    BY <2>1, <2>2
  <2> QED BY <2>3 DEF PInv, StateFollowsTheLog, ViewFollowsTheLog, StateIsALoggedBar
<1> QED BY <1>1, PInvAlways, PTL

-----------------------------------------------------------------------------
(* The termination guard keeps its promise *)

Written == [trials : Nat, whole : BOOLEAN, ended : BOOLEAN]

LEMMA AppendGrows ==
  ASSUME NEW f \in Seq(Written), NEW x \in Written, NEW g, g = Append(f, x)
  PROVE  /\ g \in Seq(Written) /\ Len(f) \in Nat /\ Len(g) = Len(f) + 1
         /\ DOMAIN f = 1..Len(f) /\ DOMAIN g = 1..Len(f) + 1
         /\ \A i \in 1..Len(f) : g[i] = f[i]
OBVIOUS

(* A ledger that cannot be read is not repaired by anything appended to it.  *)
LEMMA UnreadableStays ==
  ASSUME NEW f \in Seq(Written), NEW x \in Written, ~Readable(f)
  PROVE  ~Readable(Append(f, x))
<1> DEFINE g == Append(f, x)
<1> HIDE DEF g
<1>1. PICK i \in Starts(f) : ~Parses(f, i) /\ \E j \in Starts(f) : ~(j <= i)
  BY DEF Readable
<1>2. PICK j \in Starts(f) : ~(j <= i)
  BY <1>1
<1>3. /\ Len(f) \in Nat /\ Len(g) = Len(f) + 1
      /\ DOMAIN f = 1..Len(f) /\ DOMAIN g = 1..Len(f) + 1
      /\ \A k \in 1..Len(f) : g[k] = f[k]
  BY AppendGrows DEF g
<1>4. i \in 1..Len(f) /\ j \in 1..Len(f)
  BY <1>3 DEF Starts
<1>5. i # Len(f) /\ i # Len(g)
  <2> HIDE DEF g
  <2> DEFINE nf == Len(f)
  <2> DEFINE ng == Len(g)
  <2>1. nf \in Nat /\ ng = nf + 1 /\ i \in 1..nf /\ j \in 1..nf /\ ~(j <= i)
    BY <1>2, <1>3, <1>4
  <2> HIDE DEF nf, ng
  <2>2. i # nf /\ i # ng
    BY <2>1
  <2> QED BY <2>2 DEF nf, ng
<1>6. ~Parses(g, i)
  BY <1>1, <1>3, <1>4, <1>5 DEF Parses
<1>7. ASSUME NEW k \in Starts(f) PROVE k \in Starts(g)
  <2>1. k \in 1..Len(f) /\ (k = 1 \/ f[k - 1].ended)
    BY <1>3 DEF Starts
  <2>2. k # 1 => k - 1 \in 1..Len(f)
    BY <1>3, <2>1
  <2>3. k \in DOMAIN g
    BY <1>3, <2>1
  <2> QED BY <1>3, <2>1, <2>2, <2>3 DEF Starts
<1> QED BY <1>2, <1>6, <1>7 DEF Readable, g

SavedTypes ==
  /\ armed \in BOOLEAN /\ promised \in {"none", "yes", "no"}
  /\ pc \in {"none"} \cup InLoop \cup Outside
  /\ file \in Seq(Written) /\ research.trials \in Nat

(* While the promise stands the guard is disarmed, so nothing raises any     *)
(* more, and the finalization goes on from where it is.                      *)
PromiseIsKept ==
  /\ pc \in InLoop /\ promised = "none" => armed = TRUE
  /\ promised = "yes" =>
       /\ armed = FALSE
       /\ pc \in {"left", "equity", "prior", "result", "append", "done", "escaped"}
       /\ pc \notin {"left", "equity"} => equity = session
       /\ pc \in {"append", "done"} => result.session = session
       /\ pc = "escaped" => ~Readable(file)

SavedInv == SavedTypes /\ PromiseIsKept

LEMMA SavedInit == PaperInit => SavedInv
<1> SUFFICES ASSUME PaperInit PROVE SavedInv
  OBVIOUS
<1>1. SavedTypes
  <2>1. armed = FALSE /\ promised = "none" /\ pc = "none" /\ file = <<>> /\ research.trials = 0
    BY DEF PaperInit, LedgerInit, Idle
  <2>2. armed \in BOOLEAN BY <2>1
  <2>3. file \in Seq(Written) BY <2>1
  <2> QED BY <2>1, <2>2, <2>3 DEF SavedTypes
<1>2. PromiseIsKept
  BY DEF PaperInit, PromiseIsKept, InLoop
<1> QED BY <1>1, <1>2 DEF SavedInv

(* The commands beside the session only append to the ledger.                *)
LEMMA ResearchStep ==
  ASSUME SavedInv, ResearchRun \/ ResearchAppend \/ ResearchCrash PROVE SavedInv'
<1> USE DEF SavedInv, ResearchUnchanged, artifacts, logging
<1>1. UNCHANGED <<pc, session, armed, equity, result, promised>>
  BY DEF ResearchRun, ResearchAppend, ResearchCrash
<1>2. research'.trials \in Nat
  <2>1. CASE ResearchRun
    BY <2>1, LedgerAssumption DEF ResearchRun
  <2>2. CASE ResearchAppend \/ ResearchCrash
    BY <2>2 DEF ResearchAppend, ResearchCrash, Idle
  <2> QED BY <2>1, <2>2
<1>3. file' = file \/ \E x \in Written : file' = Append(file, x)
  <2>1. CASE ResearchRun
    BY <2>1 DEF ResearchRun
  <2>2. CASE ResearchAppend
    BY <2>2 DEF ResearchAppend, Appended, SavedTypes, Written
  <2>3. CASE ResearchCrash
    BY <2>3 DEF ResearchCrash, Torn, SavedTypes, Written
  <2> QED BY <2>1, <2>2, <2>3
<1>4. file' \in Seq(Written) /\ (~Readable(file) => ~Readable(file'))
  <2>1. CASE file' = file
    BY <2>1 DEF SavedTypes
  <2>2. CASE \E x \in Written : file' = Append(file, x)
    BY <2>2, UnreadableStays, AppendGrows DEF SavedTypes
  <2> QED BY <1>3, <2>1, <2>2
<1>5. SavedTypes' BY <1>1, <1>2, <1>4 DEF SavedTypes
<1>6. PromiseIsKept' BY <1>1, <1>4 DEF PromiseIsKept
<1> QED BY <1>5, <1>6

(* A signal: the first SIGTERM of the loop makes the promise and disarms the *)
(* guard, every other signal withdraws it or falls on a disarmed guard.      *)
LEMMA SignalStep == ASSUME SavedInv, Signal PROVE SavedInv'
<1> USE DEF SavedInv
<1>1. CASE Sigterm
  <2>1. /\ UNCHANGED <<file, research, session, equity, result>>
        /\ promised' = IF promised = "yes" \/ (promised = "none" /\ pc \in InLoop)
                       THEN "yes" ELSE "no"
    <3>1. Deliver("term") BY <1>1 DEF Sigterm
    <3>2. UNCHANGED <<file, research, session, equity, result>>
      BY <3>1 DEF Deliver, artifacts
    <3>3. promised' = IF promised = "yes" \/ (promised = "none" /\ pc \in InLoop)
                      THEN "yes" ELSE "no"
      BY <3>1 DEF Deliver
    <3> QED BY <3>2, <3>3
  <2>2. \/ armed = FALSE /\ armed' = FALSE /\ pc' = pc
        \/ armed' = FALSE /\ armed = TRUE /\ pc' = IF pc \in InLoop THEN "left" ELSE "escaped"
    BY <1>1 DEF Sigterm, Raised, SavedTypes
  <2>3. SavedTypes'
    BY <2>1, <2>2 DEF SavedTypes, Outside
  <2>4. PromiseIsKept'
    <3>1. CASE promised = "yes"
      BY <2>1, <2>2, <3>1 DEF PromiseIsKept
    <3>2. CASE promised = "none" /\ pc \in InLoop
      <4>1. pc' = "left" /\ armed' = FALSE /\ promised' = "yes"
        BY <2>1, <2>2, <3>2 DEF PromiseIsKept
      <4> QED BY <4>1 DEF PromiseIsKept
    <3>3. CASE promised = "no" \/ (promised = "none" /\ pc \notin InLoop)
      <4>1. promised' = "no" BY <2>1, <3>3
      <4> QED BY <4>1 DEF PromiseIsKept
    <3> QED BY <3>1, <3>2, <3>3 DEF SavedTypes
  <2> QED BY <2>3, <2>4
<1>2. CASE Interrupt
  <2>1. promised' = "no" /\ UNCHANGED <<file, research, armed>>
        /\ pc' \in {"left", "escaped"}
    <3>1. promised' = "no" BY <1>2 DEF Interrupt, Deliver
    <3>2. UNCHANGED <<file, research, armed>> BY <1>2 DEF Interrupt, Deliver
    <3>3. pc' \in {"left", "escaped"} BY <1>2 DEF Interrupt, Raised
    <3> QED BY <3>1, <3>2, <3>3
  <2>2. SavedTypes' BY <2>1 DEF SavedTypes, Outside
  <2> QED BY <2>1, <2>2 DEF PromiseIsKept
<1>3. CASE Kill
  <2>1. promised' = "no" /\ UNCHANGED <<file, research, armed>> /\ pc' = "killed"
    <3>1. promised' = "no" BY <1>3 DEF Kill, Deliver
    <3>2. UNCHANGED <<file, research, armed>> BY <1>3 DEF Kill, Deliver
    <3>3. pc' = "killed" BY <1>3 DEF Kill
    <3> QED BY <3>1, <3>2, <3>3
  <2>2. SavedTypes' BY <2>1 DEF SavedTypes, Outside
  <2> QED BY <2>1, <2>2 DEF PromiseIsKept
<1>4. CASE KillInAppend
  <2>1. promised' = "no" /\ UNCHANGED <<research, armed>> /\ pc' = "killed"
    BY <1>4 DEF KillInAppend
  <2>2. file' \in Seq(Written)
    <3>1. file' = file \/ \E x \in Written : file' = Append(file, x)
      BY <1>4 DEF KillInAppend, Torn, Written
    <3> QED BY <3>1, AppendGrows DEF SavedTypes
  <2>3. SavedTypes' BY <2>1, <2>2 DEF SavedTypes, Outside
  <2> QED BY <2>1, <2>3 DEF PromiseIsKept
<1> QED BY <1>1, <1>2, <1>3, <1>4 DEF Signal

(* The session itself, from its start to its record in the ledger.           *)
LEMMA SessionSavedStep == ASSUME SavedInv, SessionStep PROVE SavedInv'
<1> USE DEF SavedInv, artifacts, logging
<1>1. CASE Start
  <2>1. /\ pc' = "wait" /\ armed' = TRUE /\ promised' = "none"
        /\ UNCHANGED <<file, research>>
    BY <1>1 DEF Start
  <2>2. SavedTypes' BY <2>1 DEF SavedTypes, InLoop
  <2> QED BY <2>1, <2>2 DEF PromiseIsKept
<1>2. CASE StepBar \/ WriteLog \/ WriteTemp \/ ReplaceState
  <2>1. /\ pc \in InLoop /\ pc' \in InLoop
        /\ UNCHANGED <<file, research, armed, promised, session, equity, result>>
    BY <1>2 DEF StepBar, WriteLog, WriteTemp, ReplaceState, InLoop
  <2>2. SavedTypes' BY <2>1 DEF SavedTypes
  <2>3. promised # "yes" BY <2>1 DEF PromiseIsKept, InLoop
  <2> QED BY <2>1, <2>2, <2>3 DEF PromiseIsKept
<1>3. CASE LeaveLoop
  <2>1. /\ pc = "wait" /\ pc' = "left"
        /\ UNCHANGED <<file, research, armed, promised, session, equity, result>>
    BY <1>3 DEF LeaveLoop
  <2>2. SavedTypes' BY <2>1 DEF SavedTypes, Outside
  <2>3. promised # "yes" BY <2>1 DEF PromiseIsKept
  <2> QED BY <2>1, <2>2, <2>3 DEF PromiseIsKept, InLoop
<1>4. CASE Disarm \/ WriteEquity
  <2>1. /\ (pc = "left" /\ pc' = "equity" /\ armed' = FALSE /\ equity' = equity)
           \/ (pc = "equity" /\ pc' = "prior" /\ armed' = armed /\ equity' = session)
        /\ UNCHANGED <<file, research, promised, session, result>>
    BY <1>4 DEF Disarm, WriteEquity
  <2>2. SavedTypes' BY <2>1 DEF SavedTypes, Outside
  <2>3. PromiseIsKept' BY <2>1 DEF PromiseIsKept, InLoop
  <2> QED BY <2>2, <2>3
<1>5. CASE ReadPrior
  <2>1. /\ pc = "prior" /\ (pc' = "result" \/ (pc' = "escaped" /\ ~Readable(file)))
        /\ UNCHANGED <<file, research, armed, promised, session, equity, result>>
    BY <1>5 DEF ReadPrior
  <2>2. SavedTypes' BY <2>1 DEF SavedTypes, Outside
  <2>3. PromiseIsKept' BY <2>1 DEF PromiseIsKept, InLoop
  <2> QED BY <2>2, <2>3
<1>6. CASE WriteResult
  <2>1. /\ pc = "result" /\ pc' = "append" /\ result'.session = session
        /\ UNCHANGED <<file, research, armed, promised, session, equity>>
    BY <1>6 DEF WriteResult
  <2>2. SavedTypes' BY <2>1 DEF SavedTypes, Outside
  <2>3. PromiseIsKept' BY <2>1 DEF PromiseIsKept, InLoop
  <2> QED BY <2>2, <2>3
<1>7. CASE AppendTrial
  <2>1. /\ pc = "append" /\ pc' = "done" /\ file' = Appended(file, 1)
        /\ UNCHANGED <<research, armed, promised, session, equity, result>>
    BY <1>7 DEF AppendTrial
  <2>2. file' \in Seq(Written)
    <3>1. [trials |-> 1, whole |-> TRUE, ended |-> TRUE] \in Written BY DEF Written
    <3> QED BY <2>1, <3>1, AppendGrows DEF Appended, SavedTypes
  <2>3. SavedTypes' BY <2>1, <2>2 DEF SavedTypes, Outside
  <2>4. PromiseIsKept' BY <2>1 DEF PromiseIsKept, InLoop
  <2> QED BY <2>3, <2>4
<1> QED BY <1>1, <1>2, <1>3, <1>4, <1>5, <1>6, <1>7 DEF SessionStep

LEMMA SavedStep == SavedInv /\ [PaperNext]_vars => SavedInv'
<1> SUFFICES ASSUME SavedInv, [PaperNext]_vars PROVE SavedInv'
  OBVIOUS
<1>1. CASE ReadState \/ ReadLogLines
  BY <1>1 DEF ReadState, ReadLogLines, ReaderUnchanged, artifacts, SavedInv, SavedTypes,
              PromiseIsKept
<1>2. CASE UNCHANGED vars
  BY <1>2 DEF vars, SavedInv, SavedTypes, PromiseIsKept
<1> QED BY <1>1, <1>2, SessionSavedStep, SignalStep, ResearchStep DEF PaperNext

(* A session whose first signal is a SIGTERM during the loop, and that gets  *)
(* none but SIGTERMs, ends with its artifacts written (_TerminationGuard).   *)
THEOREM StoppedIsSaved == PaperSpec => []StoppedSessionIsSaved
<1>1. SavedInv => StoppedSessionIsSaved
  BY DEF SavedInv, PromiseIsKept, StoppedSessionIsSaved
<1> QED BY <1>1, SavedInit, SavedStep, PTL DEF PaperSpec

-----------------------------------------------------------------------------
(* The ledger counts no trial that did not run *)

Trials(f) == [i \in DOMAIN f |-> f[i].trials]
AllTrials(f) == SumFunctionOnSet(Trials(f), DOMAIN f)

LEMMA TrialsTypes ==
  ASSUME NEW f \in Seq(Written)
  PROVE  /\ IsFiniteSet(DOMAIN f) /\ \A i \in DOMAIN f : Trials(f)[i] \in Nat
         /\ AllTrials(f) \in Nat
<1>1. DOMAIN f = 1..Len(f) /\ Len(f) \in Nat OBVIOUS
<1>2. IsFiniteSet(DOMAIN f) BY <1>1, FS_Interval
<1>3. ASSUME NEW i \in DOMAIN f PROVE Trials(f)[i] \in Nat
  <2>1. f[i] \in Written OBVIOUS
  <2> QED BY <2>1 DEF Trials, Written
<1> QED BY <1>2, <1>3, SumNat DEF AllTrials

(* What a torn record swallows is not counted, and nothing is counted twice. *)
LEMMA CountIsPart ==
  ASSUME NEW f \in Seq(Written)
  PROVE  CumulativeTrials(f) \in Nat /\ CumulativeTrials(f) <= AllTrials(f)
<1> DEFINE counted == Records(f)
<1>1. counted \in SUBSET DOMAIN f BY DEF Records, Starts
<1>2. CumulativeTrials(f) = SumFunctionOnSet(Trials(f), counted) BY DEF CumulativeTrials, Trials
<1> HIDE DEF counted
<1>3. IsFiniteSet(counted) /\ \A i \in counted : Trials(f)[i] \in Nat
  BY <1>1, TrialsTypes, FS_Subset
<1>4. SumFunctionOnSet(Trials(f), counted) \in Nat BY <1>3, SumNat
<1>5. SumFunctionOnSet(Trials(f), counted) <= SumFunctionOnSet(Trials(f), DOMAIN f)
  BY <1>1, TrialsTypes, SumSubset
<1> QED BY <1>2, <1>4, <1>5 DEF AllTrials

LEMMA AppendedTrials ==
  ASSUME NEW f \in Seq(Written), NEW x \in Written
  PROVE  Append(f, x) \in Seq(Written) /\ AllTrials(Append(f, x)) = AllTrials(f) + x.trials
<1> DEFINE g == Append(f, x)
           n == Len(f) + 1
<1>1. /\ g \in Seq(Written) /\ DOMAIN g = DOMAIN f \cup {n} /\ n \notin DOMAIN f
      /\ \A i \in DOMAIN f : g[i] = f[i]
      /\ g[n] = x
  OBVIOUS
<1> HIDE DEF g, n
<1>2. Trials(g)[n] = x.trials /\ \A i \in DOMAIN f : Trials(g)[i] = Trials(f)[i]
  BY <1>1 DEF Trials
<1>3. \A i \in DOMAIN f \cup {n} : Trials(g)[i] \in Int BY <1>1, TrialsTypes
<1>4. SumFunctionOnSet(Trials(g), DOMAIN f \cup {n})
        = SumFunctionOnSet(Trials(g), DOMAIN f) + Trials(g)[n]
  BY <1>1, <1>3, TrialsTypes, SumAdd
<1>5. SumFunctionOnSet(Trials(g), DOMAIN f) = SumFunctionOnSet(Trials(f), DOMAIN f)
  BY <1>2, TrialsTypes, SumSame
<1> QED BY <1>1, <1>2, <1>4, <1>5 DEF AllTrials, g

(* The trials that have run and whose record is still to be appended.        *)
Unwritten == research.trials + (IF pc = "append" THEN 1 ELSE 0)

CountTypes ==
  /\ ran \in Nat /\ prior \in Nat /\ result \in [session : Nat, prior : Nat]
  /\ research \in [trials : Nat, prior : Nat] /\ session \in Nat

(* Every append is of trials that have run, and of none a second time.       *)
LedgerInv ==
  /\ CountTypes /\ file \in Seq(Written)
  /\ AllTrials(file) + Unwritten <= ran
  /\ prior <= ran
  /\ result.session > 0 => result.prior < ran
  /\ research.trials > 0 => research.prior + research.trials <= ran

LEMMA LedgerInvInit == PaperInit => LedgerInv
<1> SUFFICES ASSUME PaperInit PROVE LedgerInv
  OBVIOUS
<1>1. /\ file = <<>> /\ pc = "none" /\ session = 0 /\ prior = 0 /\ ran = 0
      /\ result = [session |-> 0, prior |-> 0] /\ research = [trials |-> 0, prior |-> 0]
  BY DEF PaperInit, LedgerInit, Idle
<1>2. file \in Seq(Written) /\ AllTrials(file) = 0
  <2>1. file \in Seq(Written) /\ DOMAIN file = {} BY <1>1
  <2> QED BY <2>1, SumEmpty DEF AllTrials
<1> QED BY <1>1, <1>2 DEF LedgerInv, CountTypes, Unwritten

(* A command's append: of what was unwritten, or of a torn part of it.       *)
LEMMA AppendCounts ==
  ASSUME file \in Seq(Written), NEW n \in Nat,
         file' = Appended(file, n) \/ file' \in Torn(file, n)
  PROVE  file' \in Seq(Written) /\ AllTrials(file') <= AllTrials(file) + n
<1>1. file' = file \/ \E x \in Written : x.trials = n /\ file' = Append(file, x)
  BY DEF Appended, Torn, Written
<1>2. CASE file' = file BY <1>2, TrialsTypes
<1>3. ASSUME NEW x \in Written, x.trials = n, file' = Append(file, x)
      PROVE  file' \in Seq(Written) /\ AllTrials(file') <= AllTrials(file) + n
  <2>1. AllTrials(file') = AllTrials(file) + n /\ file' \in Seq(Written)
    BY <1>3, AppendedTrials
  <2> QED BY <2>1, TrialsTypes
<1> QED BY <1>1, <1>2, <1>3

LEMMA LedgerStep == ASSUME LedgerInv, [PaperNext]_vars PROVE LedgerInv'
<1> USE DEF artifacts, logging
<1>1. /\ CountTypes /\ file \in Seq(Written) /\ AllTrials(file) \in Nat
      /\ research.trials \in Nat /\ research.prior \in Nat /\ result.prior \in Nat
      /\ ran \in Nat /\ prior \in Nat /\ Unwritten \in Nat
  BY TrialsTypes DEF LedgerInv, CountTypes, Unwritten
<1>2. CumulativeTrials(file) \in Nat /\ CumulativeTrials(file) <= AllTrials(file)
  BY <1>1, CountIsPart
<1>3. CASE /\ UNCHANGED <<file, result, research, ran>> /\ session' \in Nat
           /\ prior' \in {0, prior, CumulativeTrials(file)}
           /\ pc' # "append" \/ pc' = pc
  <2>1. prior' \in Nat /\ prior' <= ran BY <1>1, <1>2, <1>3 DEF LedgerInv
  <2>2. Unwritten' <= Unwritten /\ Unwritten' \in Nat BY <1>1, <1>3 DEF Unwritten
  <2>3. CountTypes' BY <1>3, <2>1 DEF LedgerInv, CountTypes
  <2>4. AllTrials(file') = AllTrials(file) BY <1>3
  <2>5. (AllTrials(file) + Unwritten <= ran)' BY <1>1, <1>3, <2>2, <2>4 DEF LedgerInv
  <2> QED BY <1>3, <2>1, <2>3, <2>5 DEF LedgerInv
<1>4. CASE Start \/ StepBar \/ WriteLog \/ WriteTemp \/ ReplaceState \/ LeaveLoop
  <2>1. UNCHANGED <<file, result, research, ran>> /\ session' \in Nat /\ prior' \in {0, prior}
    BY <1>1, <1>4 DEF Start, StepBar, WriteLog, WriteTemp, ReplaceState, LeaveLoop, CountTypes
  <2>2. pc' # "append"
    BY <1>4 DEF Start, StepBar, WriteLog, WriteTemp, ReplaceState, LeaveLoop
  <2> QED BY <1>3, <2>1, <2>2
<1>5. CASE Disarm \/ WriteEquity \/ ReadPrior
  <2>1. /\ UNCHANGED <<file, result, research, ran, session>>
        /\ prior' \in {prior, CumulativeTrials(file)}
    BY <1>5 DEF Disarm, WriteEquity, ReadPrior
  <2>2. pc' # "append" BY <1>5 DEF Disarm, WriteEquity, ReadPrior
  <2> QED BY <1>1, <1>3, <2>1, <2>2 DEF CountTypes
<1>6. CASE Sigterm \/ Interrupt \/ Kill
  <2>1. UNCHANGED <<file, result, research, ran, session, prior>>
    BY <1>6 DEF Sigterm, Interrupt, Kill, Deliver
  <2>2. pc' \in {pc, "left", "escaped", "killed"}
    BY <1>6 DEF Sigterm, Interrupt, Kill, Raised
  <2> QED BY <1>1, <1>3, <2>1, <2>2 DEF CountTypes
<1>7. CASE ReadState \/ ReadLogLines \/ UNCHANGED vars
  <2>1. UNCHANGED <<file, result, research, ran, session, prior, pc>>
    BY <1>7 DEF ReadState, ReadLogLines, ReaderUnchanged, vars
  <2> QED BY <1>1, <1>3, <2>1 DEF CountTypes
<1>8. CASE WriteResult
  <2>1. /\ pc = "result" /\ pc' = "append" /\ prior' = 0 /\ ran' = ran + 1
        /\ UNCHANGED <<file, research, session>>
    BY <1>8 DEF WriteResult
  <2>2. result' = [session |-> session, prior |-> prior] BY <1>8 DEF WriteResult
  <2>3. CountTypes' /\ result'.prior = prior BY <1>1, <2>1, <2>2 DEF CountTypes
  <2>4. Unwritten' = Unwritten + 1 BY <1>1, <2>1 DEF Unwritten
  <2>5. AllTrials(file') = AllTrials(file) BY <2>1
  <2>6. (AllTrials(file) + Unwritten <= ran)' BY <1>1, <2>1, <2>4, <2>5 DEF LedgerInv
  <2>7. (research.trials > 0 => research.prior + research.trials <= ran)'
    BY <1>1, <2>1 DEF LedgerInv
  <2> QED BY <1>1, <2>1, <2>3, <2>6, <2>7 DEF LedgerInv
<1>9. CASE AppendTrial \/ KillInAppend
  <2>1. /\ pc = "append" /\ pc' # "append"
        /\ file' = Appended(file, 1) \/ file' \in Torn(file, 1)
        /\ UNCHANGED <<result, research, ran, session, prior>>
    BY <1>9 DEF AppendTrial, KillInAppend
  <2>2. file' \in Seq(Written) /\ AllTrials(file') <= AllTrials(file) + 1
    BY <1>1, <2>1, AppendCounts
  <2>3. Unwritten' = research.trials /\ Unwritten = research.trials + 1
    BY <1>1, <2>1 DEF Unwritten
  <2>4. AllTrials(file') \in Nat BY <2>2, TrialsTypes
  <2>5. AllTrials(file') + Unwritten' <= ran BY <1>1, <2>2, <2>3, <2>4 DEF LedgerInv
  <2> QED BY <2>1, <2>2, <2>5 DEF LedgerInv, CountTypes
<1>10. CASE ResearchRun
  <2>1. PICK n \in 1..MaxTrials :
          /\ research' = [trials |-> n, prior |-> CumulativeTrials(file)]
          /\ ran' = ran + n
    BY <1>10 DEF ResearchRun
  <2>2. /\ UNCHANGED <<file, result, session, prior, pc>> /\ research.trials = 0 /\ n \in Nat
    BY <1>10, LedgerAssumption DEF ResearchRun, ResearchUnchanged
  <2>3. research'.trials = n /\ research'.prior = CumulativeTrials(file) /\ CountTypes'
    BY <1>1, <1>2, <2>1, <2>2 DEF CountTypes
  <2>4. Unwritten' = Unwritten + n BY <1>1, <2>2, <2>3 DEF Unwritten
  <2>5. AllTrials(file') = AllTrials(file) BY <2>2
  <2>6. (AllTrials(file) + Unwritten <= ran)' BY <1>1, <2>1, <2>2, <2>4, <2>5 DEF LedgerInv
  <2>7. CumulativeTrials(file) <= ran BY <1>1, <1>2 DEF LedgerInv
  <2>8. (research.trials > 0 => research.prior + research.trials <= ran)'
    BY <1>1, <1>2, <2>1, <2>2, <2>3, <2>7
  <2>9. (result.session > 0 => result.prior < ran)' /\ (prior <= ran)'
    BY <1>1, <2>1, <2>2 DEF LedgerInv
  <2> QED BY <1>1, <2>2, <2>3, <2>6, <2>8, <2>9 DEF LedgerInv
<1>11. CASE ResearchAppend \/ ResearchCrash
  <2>1. /\ file' = Appended(file, research.trials) \/ file' \in Torn(file, research.trials)
        /\ research' = [trials |-> 0, prior |-> 0]
        /\ UNCHANGED <<result, ran, session, prior, pc>>
    BY <1>11 DEF ResearchAppend, ResearchCrash, ResearchUnchanged, Idle
  <2>2. file' \in Seq(Written) /\ AllTrials(file') <= AllTrials(file) + research.trials
    BY <1>1, <2>1, AppendCounts
  <2>3. research'.trials = 0 /\ CountTypes' BY <1>1, <2>1 DEF CountTypes
  <2>4. Unwritten' + research.trials = Unwritten /\ Unwritten' \in Nat
    BY <1>1, <2>1, <2>3 DEF Unwritten
  <2>5. AllTrials(file') \in Nat BY <2>2, TrialsTypes
  <2>6. AllTrials(file') + Unwritten' <= ran BY <1>1, <2>2, <2>4, <2>5 DEF LedgerInv
  <2> QED BY <2>1, <2>2, <2>3, <2>6 DEF LedgerInv
<1> QED BY <1>4, <1>5, <1>6, <1>7, <1>8, <1>9, <1>10, <1>11 DEF PaperNext, SessionStep, Signal

(* No reader of the ledger is ever told of a trial that no command ran, and  *)
(* no figure is deflated by the trial it belongs to (ledger.append,          *)
(* cumulative_trials, _finish_paper_session).                                *)
THEOREM LedgerNeverOvercounts == PaperSpec => []LedgerIsALowerBound
<1>1. LedgerInv => LedgerIsALowerBound
  <2> SUFFICES ASSUME LedgerInv PROVE LedgerIsALowerBound
    OBVIOUS
  <2>1. /\ CumulativeTrials(file) \in Nat /\ CumulativeTrials(file) <= AllTrials(file)
        /\ AllTrials(file) \in Nat
    BY CountIsPart, TrialsTypes DEF LedgerInv
  <2>2. Unwritten \in Nat /\ ran \in Nat BY DEF LedgerInv, CountTypes, Unwritten
  <2>3. CumulativeTrials(file) <= ran BY <2>1, <2>2 DEF LedgerInv
  <2> QED BY <2>3 DEF LedgerInv, LedgerIsALowerBound
<1>2. LedgerInv /\ [PaperNext]_vars => LedgerInv' BY LedgerStep
<1> QED BY <1>1, <1>2, LedgerInvInit, PTL DEF PaperSpec

-----------------------------------------------------------------------------
(* The scripts. *)

Places == {"preflight", "preflight orders", "flatten", "plan", "cancel", "sell", "verify",
           "verify orders", "clean", "not clean"}

FlattenTypes ==
  /\ held \in [Tickers -> Nat] /\ sell \in [Tickers -> Nat] /\ seen \in [Tickers -> Nat]
  /\ buy \in [Tickers -> {"none", "working", "pending"}]
  /\ at \in Places
  /\ working \in [buys : SUBSET Tickers, sells : SUBSET Tickers]
  /\ todo \subseteq Tickers /\ live \subseteq Tickers
  /\ failed \in BOOLEAN /\ idle \in BOOLEAN

(* Until it is sold, a position without a working SELL is not sold by anyone *)
(* else, so it is still as large as it was listed.                           *)
UnsoldIsHeld ==
  /\ at \in {"plan", "cancel"} => \A s \in Tickers : s \notin working.sells => sell[s] = 0
  /\ at = "cancel" => \A s \in Tickers : s \notin working.sells => seen[s] <= held[s]
  /\ at = "sell" => \A s \in todo : s \notin working.sells => sell[s] = 0 /\ seen[s] <= held[s]

(* A pass that found nothing to do found the account flat, and it stays so.  *)
IdleIsFlat ==
  /\ at = "plan" => \A s \in Tickers : Live(s) => s \in working.buys
  /\ idle => /\ at \in {"verify", "verify orders", "clean", "not clean"}
             /\ \A s \in Tickers : held[s] = 0 /\ ~Live(s)

(* What is held and was not seen was opened by a BUY that was live then.     *)
HeldIsExplained ==
  /\ at \in {"verify orders", "clean"} => \A s \in Tickers : Live(s) => s \in live
  /\ at = "verify orders" => \A s \in Tickers : held[s] > 0 => seen[s] > 0 \/ s \in live
  /\ at = "clean" => \A s \in Tickers : held[s] > 0 => s \in live

FlattenInv == FlattenTypes /\ NeverShort /\ UnsoldIsHeld /\ IdleIsFlat /\ HeldIsExplained

-----------------------------------------------------------------------------
(* The scripts begin with an account whose working SELLs are covered.       *)
LEMMA FlattenInvInit == FlattenInit => FlattenInv
<1> SUFFICES ASSUME FlattenInit PROVE FlattenInv
  OBVIOUS
<1>1. FlattenTypes
  <2>1. held \in [Tickers -> Nat] /\ sell \in [Tickers -> Nat] /\ seen \in [Tickers -> Nat]
    BY DEF FlattenInit, Empty
  <2>2. buy \in [Tickers -> {"none", "working", "pending"}]
    BY DEF FlattenInit
  <2>3. working \in [buys : SUBSET Tickers, sells : SUBSET Tickers]
    BY DEF FlattenInit, NoOrders
  <2> QED BY <2>1, <2>2, <2>3 DEF FlattenInit, FlattenTypes, Places
<1>2. NeverShort /\ UnsoldIsHeld
  BY DEF FlattenInit, NeverShort, UnsoldIsHeld
<1>3. IdleIsFlat /\ HeldIsExplained
  BY DEF FlattenInit, IdleIsFlat, HeldIsExplained
<1> QED BY <1>1, <1>2, <1>3 DEF FlattenInv

(* The venue: a fill or the end of a cancelled BUY, at any moment.          *)
LEMMA VenueStep == ASSUME FlattenInv, Venue PROVE FlattenInv'
<1> PICK s \in Tickers : FillBuy(s) \/ EndCancel(s) \/ FillSell(s)
  BY DEF Venue
<1> USE DEF FlattenInv
<1>1. CASE FillBuy(s)
  <2>1. FlattenTypes' BY <1>1 DEF FillBuy, FlattenTypes, script, Live
  <2>2. NeverShort' BY <1>1 DEF FillBuy, FlattenTypes, NeverShort, script
  <2>3. UnsoldIsHeld' BY <1>1 DEF FillBuy, FlattenTypes, UnsoldIsHeld, script
  <2>4. IdleIsFlat' BY <1>1 DEF FillBuy, FlattenTypes, IdleIsFlat, script, Live
  <2>5. HeldIsExplained' BY <1>1 DEF FillBuy, FlattenTypes, HeldIsExplained, script, Live
  <2> QED BY <2>1, <2>2, <2>3, <2>4, <2>5
<1>2. CASE EndCancel(s)
  <2>1. FlattenTypes' BY <1>2 DEF EndCancel, FlattenTypes, script
  <2>2. NeverShort' BY <1>2 DEF EndCancel, NeverShort, script
  <2>3. UnsoldIsHeld' BY <1>2 DEF EndCancel, UnsoldIsHeld, script
  <2>4. IdleIsFlat' BY <1>2 DEF EndCancel, FlattenTypes, IdleIsFlat, script, Live
  <2>5. HeldIsExplained' BY <1>2 DEF EndCancel, FlattenTypes, HeldIsExplained, script, Live
  <2> QED BY <2>1, <2>2, <2>3, <2>4, <2>5
<1>3. CASE FillSell(s)
  <2>0. sell[s] \in Nat /\ held[s] \in Nat /\ sell[s] <= held[s] /\ sell[s] > 0
    BY <1>3 DEF FillSell, FlattenTypes, NeverShort
  <2>1. FlattenTypes' BY <1>3, <2>0 DEF FillSell, FlattenTypes, script
  <2>2. NeverShort' BY <1>3, <2>0 DEF FillSell, FlattenTypes, NeverShort, script
  <2>3. UnsoldIsHeld' BY <1>3, <2>0 DEF FillSell, FlattenTypes, UnsoldIsHeld, script
  <2>4. IdleIsFlat'
    <3>1. held[s] # 0 BY <2>0
    <3>2. ~idle BY <3>1 DEF IdleIsFlat
    <3>3. idle' = idle /\ at' = at /\ working' = working /\ buy' = buy
      BY <1>3 DEF FillSell, script
    <3> QED BY <3>2, <3>3 DEF IdleIsFlat, Live
  <2>5. HeldIsExplained'
    <3>1. \A r \in Tickers : held'[r] > 0 => held[r] > 0
      BY <1>3, <2>0 DEF FillSell, FlattenTypes
    <3>2. at' = at /\ seen' = seen /\ live' = live /\ buy' = buy
      BY <1>3 DEF FillSell
    <3> QED BY <3>1, <3>2 DEF HeldIsExplained, Live
  <2> QED BY <2>1, <2>2, <2>3, <2>4, <2>5
<1> QED BY <1>1, <1>2, <1>3

(* The steps of a script that trade nothing: what they read is what the     *)
(* venue held at that moment.                                               *)
Reading ==
  \/ CheckPositions \/ CheckOrders \/ FetchOrders \/ ListPositions \/ BuysCanceled
  \/ PositionsSold \/ VerifyPositions \/ VerifyOrders \/ Recheck

LEMMA ReadingStep == ASSUME FlattenInv, Reading PROVE FlattenInv'
<1> USE DEF FlattenInv, venue, script
<1>1. held' = held /\ buy' = buy /\ sell' = sell
  BY DEF Reading, CheckPositions, CheckOrders, FetchOrders, ListPositions, BuysCanceled,
         PositionsSold, VerifyPositions, VerifyOrders, Recheck
<1>2. NeverShort' BY <1>1 DEF NeverShort
<1>3. NoOrders \in [buys : SUBSET Tickers, sells : SUBSET Tickers] /\ Empty \in [Tickers -> Nat]
  BY DEF NoOrders, Empty
<1>4. OpenOrders \in [buys : SUBSET Tickers, sells : SUBSET Tickers]
  BY DEF OpenOrders
<1>5. CASE CheckPositions
  <2>1. FlattenTypes' BY <1>1, <1>3, <1>4, <1>5 DEF CheckPositions, FlattenTypes, Places
  <2>2. UnsoldIsHeld' /\ IdleIsFlat' /\ HeldIsExplained'
    BY <1>5 DEF CheckPositions, UnsoldIsHeld, IdleIsFlat, HeldIsExplained
  <2> QED BY <1>2, <2>1, <2>2
<1>6. CASE CheckOrders
  <2>1. FlattenTypes' BY <1>1, <1>3, <1>6 DEF CheckOrders, FlattenTypes, Places
  <2>2. UnsoldIsHeld' /\ IdleIsFlat' /\ HeldIsExplained'
    BY <1>6 DEF CheckOrders, UnsoldIsHeld, IdleIsFlat, HeldIsExplained
  <2> QED BY <1>2, <2>1, <2>2
<1>7. CASE FetchOrders
  <2>1. FlattenTypes' BY <1>1, <1>3, <1>4, <1>7 DEF FetchOrders, FlattenTypes, Places
  <2>2. UnsoldIsHeld' BY <1>1, <1>7 DEF FetchOrders, UnsoldIsHeld, OpenOrders, FlattenTypes
  <2>3. IdleIsFlat'
    <3>1. idle' = FALSE /\ (at' = "preflight" \/ (at' = "plan" /\ working' = OpenOrders))
      BY <1>7 DEF FetchOrders
    <3>2. \A s \in Tickers : Live(s) => s \in OpenOrders.buys
      BY DEF OpenOrders
    <3> QED BY <1>1, <3>1, <3>2 DEF IdleIsFlat, Live
  <2>4. HeldIsExplained' BY <1>7 DEF FetchOrders, HeldIsExplained
  <2> QED BY <1>2, <2>1, <2>2, <2>3, <2>4
<1>8. CASE ListPositions
  <2>1. FlattenTypes' BY <1>1, <1>3, <1>8 DEF ListPositions, FlattenTypes, Places
  <2>2. UnsoldIsHeld' BY <1>1, <1>8 DEF ListPositions, UnsoldIsHeld, FlattenTypes
  <2>3. IdleIsFlat'
    <3>1. ~idle
      BY <1>8 DEF ListPositions, IdleIsFlat
    <3>2. at' # "plan"
      BY <1>8 DEF ListPositions
    <3>3. ASSUME idle' PROVE at' = "verify" /\ held = Empty /\ working = NoOrders
      BY <1>8, <3>1, <3>3 DEF ListPositions
    <3>4. ASSUME idle', NEW s \in Tickers PROVE held'[s] = 0 /\ ~Live(s)'
      <4>1. at = "plan"
        BY <1>8 DEF ListPositions
      <4>2. held[s] = 0 /\ s \notin working.buys
        BY <3>3, <3>4 DEF Empty, NoOrders
      <4> QED BY <1>1, <4>1, <4>2 DEF IdleIsFlat, Live
    <3> QED BY <3>2, <3>3, <3>4 DEF IdleIsFlat
  <2>4. HeldIsExplained' BY <1>8 DEF ListPositions, HeldIsExplained
  <2> QED BY <1>2, <2>1, <2>2, <2>3, <2>4
<1>9. CASE BuysCanceled
  <2>1. FlattenTypes' BY <1>1, <1>9 DEF BuysCanceled, FlattenTypes, Places, In
  <2>2. UnsoldIsHeld' BY <1>1, <1>9 DEF BuysCanceled, UnsoldIsHeld, In
  <2>3. IdleIsFlat' /\ HeldIsExplained'
    <3>1. at = "cancel" /\ at' = "sell" /\ idle' = idle
      BY <1>9 DEF BuysCanceled
    <3>2. ~idle BY <3>1 DEF IdleIsFlat
    <3> QED BY <3>1, <3>2 DEF IdleIsFlat, HeldIsExplained
  <2> QED BY <1>2, <2>1, <2>2, <2>3
<1>10. CASE PositionsSold
  <2>1. FlattenTypes' BY <1>1, <1>10 DEF PositionsSold, FlattenTypes, Places
  <2>2. UnsoldIsHeld' /\ IdleIsFlat' /\ HeldIsExplained'
    BY <1>10 DEF PositionsSold, UnsoldIsHeld, IdleIsFlat, HeldIsExplained
  <2> QED BY <1>2, <2>1, <2>2
<1>11. CASE VerifyPositions
  <2>1. FlattenTypes' BY <1>1, <1>3, <1>4, <1>11 DEF VerifyPositions, FlattenTypes, Places
  <2>2. UnsoldIsHeld' BY <1>11 DEF VerifyPositions, UnsoldIsHeld
  <2>3. IdleIsFlat'
    <3>1. at' \in {"verify orders", "preflight"} /\ (idle' = idle \/ idle' = FALSE)
      BY <1>11 DEF VerifyPositions
    <3>2. idle' => idle /\ at' = "verify orders"
      BY <1>11 DEF VerifyPositions
    <3> QED BY <1>1, <3>1, <3>2 DEF IdleIsFlat, Live
  <2>4. HeldIsExplained'
    BY <1>1, <1>11 DEF VerifyPositions, HeldIsExplained, OpenOrders, Live
  <2> QED BY <1>2, <2>1, <2>2, <2>3, <2>4
<1>12. CASE VerifyOrders
  <2>1. FlattenTypes' BY <1>1, <1>3, <1>4, <1>12 DEF VerifyOrders, FlattenTypes, Places
  <2>2. UnsoldIsHeld' BY <1>12 DEF VerifyOrders, UnsoldIsHeld
  <2>3. IdleIsFlat'
    <3>1. at' \in {"clean", "not clean"} /\ idle' = idle
      BY <1>12 DEF VerifyOrders
    <3> QED BY <1>1, <3>1 DEF IdleIsFlat, Live
  <2>4. HeldIsExplained'
    <3>1. at = "verify orders" /\ live' = live /\ seen' = seen
      BY <1>12 DEF VerifyOrders
    <3>2. at' = "clean" \/ at' = "not clean"
      BY <1>12 DEF VerifyOrders
    <3>3. ASSUME at' = "clean" PROVE idle \/ seen = Empty
      BY <1>12, <3>3 DEF VerifyOrders
    <3>4. ASSUME at' = "clean", NEW s \in Tickers, held[s] > 0 PROVE s \in live
      <4>1. CASE idle
        <5>1. held[s] = 0 BY <4>1, <3>4 DEF IdleIsFlat
        <5> QED BY <5>1, <3>4
      <4>2. CASE seen = Empty
        <5>1. ~(seen[s] > 0) BY <4>2, <3>4 DEF Empty
        <5> QED BY <5>1, <3>1, <3>4 DEF HeldIsExplained
      <4> QED BY <3>3, <3>4, <4>1, <4>2
    <3>5. \A s \in Tickers : Live(s) => s \in live
      BY <3>1 DEF HeldIsExplained
    <3> QED BY <1>1, <3>1, <3>2, <3>4, <3>5 DEF HeldIsExplained, Live
  <2> QED BY <1>2, <2>1, <2>2, <2>3, <2>4
<1>13. CASE Recheck
  <2>1. FlattenTypes' BY <1>1, <1>3, <1>13 DEF Recheck, FlattenTypes, Places
  <2>2. UnsoldIsHeld' /\ IdleIsFlat' /\ HeldIsExplained'
    BY <1>13 DEF Recheck, UnsoldIsHeld, IdleIsFlat, HeldIsExplained
  <2> QED BY <1>2, <2>1, <2>2
<1> QED BY <1>5, <1>6, <1>7, <1>8, <1>9, <1>10, <1>11, <1>12, <1>13 DEF Reading

(* A cancellation, whether it answers or not.                               *)
LEMMA CancelStep == ASSUME FlattenInv, CancelBuy PROVE FlattenInv'
<1> USE DEF FlattenInv, CancelBuy
<1>1. /\ \A s \in Tickers : Live(s)' => Live(s)
      /\ buy' \in [Tickers -> {"none", "working", "pending"}]
  BY DEF FlattenTypes, Live
<1>2. FlattenTypes' BY <1>1 DEF FlattenTypes
<1>3. NeverShort' BY DEF NeverShort
<1>4. UnsoldIsHeld' BY DEF UnsoldIsHeld
<1>5. IdleIsFlat' /\ HeldIsExplained' BY DEF IdleIsFlat, HeldIsExplained
<1> QED BY <1>2, <1>3, <1>4, <1>5

(* A SELL is for no more than the account holds, because what was listed is *)
(* still there.                                                             *)
LEMMA SellStep == ASSUME FlattenInv, SellPosition PROVE FlattenInv'
<1> USE DEF FlattenInv
<1> PICK s \in todo :
      /\ todo' = todo \ {s}
      /\ IF s \in working.sells \/ sell[s] > 0 \/ Live(s)
           THEN UNCHANGED <<sell, failed, faults>>
           ELSE \/ Reliable /\ sell' = [sell EXCEPT ![s] = seen[s]] /\ failed' = failed
                \/ Fault /\ sell' \in {sell, [sell EXCEPT ![s] = seen[s]]} /\ failed' = TRUE
  BY DEF SellPosition
<1>1. at = "sell" /\ UNCHANGED <<held, buy, at, working, seen, live, idle>>
  BY DEF SellPosition
<1>2. s \in Tickers /\ failed' \in BOOLEAN
  BY DEF FlattenTypes
<1>3. sell' = sell \/ (s \notin working.sells /\ sell' = [sell EXCEPT ![s] = seen[s]])
  OBVIOUS
<1>4. FlattenTypes' BY <1>1, <1>2, <1>3 DEF FlattenTypes
<1>5. NeverShort' BY <1>1, <1>2, <1>3 DEF FlattenTypes, NeverShort, UnsoldIsHeld
<1>6. UnsoldIsHeld' BY <1>1, <1>2, <1>3 DEF FlattenTypes, UnsoldIsHeld
<1>7. IdleIsFlat' /\ HeldIsExplained' BY <1>1 DEF IdleIsFlat, HeldIsExplained
<1> QED BY <1>4, <1>5, <1>6, <1>7

LEMMA FlattenStep == FlattenInv /\ [FlattenNext]_flattenVars => FlattenInv'
<1> SUFFICES ASSUME FlattenInv, [FlattenNext]_flattenVars PROVE FlattenInv'
  OBVIOUS
<1>1. CASE UNCHANGED flattenVars
  BY <1>1 DEF flattenVars, FlattenInv, FlattenTypes, NeverShort, UnsoldIsHeld, IdleIsFlat, HeldIsExplained, Live
<1>2. CASE FlattenNext
  BY <1>2, VenueStep, ReadingStep, CancelStep, SellStep DEF FlattenNext, FlattenScript, Reading
<1> QED BY <1>1, <1>2

LEMMA FlattenHolds == FlattenSpec => []FlattenInv
BY FlattenInvInit, FlattenStep, PTL DEF FlattenSpec

-----------------------------------------------------------------------------
(* No step of paper_flatten.py, interleaved with fills and failing calls in *)
(* any way, leaves a working SELL for more shares than are held.            *)
THEOREM SellsAreCovered == FlattenSpec => []NeverShort
BY FlattenHolds, PTL DEF FlattenInv

(* "Clean" (_verify) is right about every position except those of BUYs     *)
(* that were still live when the positions were read.                       *)
THEOREM CleanMeansFlat == FlattenSpec => []CleanIsFlat
<1>1. FlattenInv => CleanIsFlat
  BY DEF FlattenInv, HeldIsExplained, CleanIsFlat, In
<1> QED BY <1>1, FlattenHolds, PTL
=============================================================================
