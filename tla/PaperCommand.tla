---------------------------- MODULE PaperCommand ----------------------------
(***************************************************************************)
(* `trading paper --out DIR --ledger FILE`, run several times over in the  *)
(* same directory, beside research commands that share the ledger.         *)
(*                                                                         *)
(* What a session does per bar (the Engine module) is one step here; what  *)
(* is modelled is what reaches the disk and when: the session log, the     *)
(* state file written through a temporary file and a rename, the artifacts *)
(* written once the loop is over, and the record in the ledger. SIGTERM,   *)
(* Ctrl-C and SIGKILL arrive between any two steps.                        *)
(***************************************************************************)
EXTENDS Ledger

CONSTANTS Sessions,    \* sessions run one after the other in the directory
          Bars,        \* bars a session processes at the most
          MaxSignals   \* bound on the signals of one session

ASSUME PaperCommandAssumption == Sessions \in Nat /\ Bars \in Nat /\ MaxSignals \in Nat

VARIABLES pc,        \* where the session stands
          session,   \* number of the session, 0 before the first
          armed,     \* the termination guard still honours SIGTERM
          bar,       \* bars this session has stepped
          log,       \* the bar lines in paper_session.log
          tmp,       \* paper_state.json.tmp
          state,     \* paper_state.json: a session and a bar, or NoState
          equity,    \* the session whose curve equity_curve.csv holds
          result,    \* the session and prior trials result.json reports
          prior,     \* the ledger's count as this session read it
          signals,   \* signals delivered to this session
          promised,  \* its signals so far: "none", "yes" if they are SIGTERMs
                     \* of which the first found the loop running, else "no"
          view,      \* the payload of the live dashboard
          research,  \* the research command: its trials and the count it read
          ran        \* trials that commands have completed (history)

vars == <<file, pc, session, armed, bar, log, tmp, state, equity, result, prior,
          signals, promised, view, research, ran>>
artifacts == <<equity, result>>
logging == <<log, tmp, state>>

NoState == [session |-> 0, bar |-> 0]
Idle == [trials |-> 0, prior |-> 0]
NoView == [state |-> NoState, log |-> 0, of |-> 0]
InLoop == {"wait", "step", "logged", "persist"}
Ended == {"none", "done", "escaped", "killed"}

PaperInit ==
  /\ LedgerInit
  /\ pc = "none" /\ session = 0 /\ armed = FALSE /\ bar = 0 /\ log = 0
  /\ tmp = NoState /\ state = NoState /\ equity = 0
  /\ result = [session |-> 0, prior |-> 0] /\ prior = 0 /\ signals = 0 /\ promised = "none"
  /\ view = NoView
  /\ research = Idle /\ ran = 0

\* The log of the previous session is truncated; its other files stay.
Start ==
  /\ pc \in Ended /\ session < Sessions
  /\ session' = session + 1 /\ pc' = "wait" /\ armed' = TRUE /\ bar' = 0
  /\ log' = 0 /\ signals' = 0 /\ promised' = "none" /\ prior' = 0
  /\ UNCHANGED <<file, tmp, state, artifacts, view, research, ran>>

\* Mutant: the state is saved before the bar is logged.
StepBarSavesFirst ==
  /\ pc = "wait" /\ bar < Bars
  /\ bar' = bar + 1 /\ state' = [session |-> session, bar |-> bar'] /\ pc' = "step"
  /\ UNCHANGED <<file, session, armed, log, tmp, artifacts, prior, signals, promised, view, research, ran>>

StepBar ==
  /\ pc = "wait" /\ bar < Bars
  /\ bar' = bar + 1 /\ pc' = "step"
  /\ UNCHANGED <<file, session, armed, logging, artifacts, prior, signals, promised, view, research, ran>>

WriteLog ==
  /\ pc = "step"
  /\ log' = log + 1 /\ pc' = "logged"
  /\ UNCHANGED <<file, session, armed, bar, tmp, state, artifacts, prior, signals,
                 promised, view, research, ran>>

WriteTemp ==
  /\ pc = "logged"
  /\ tmp' = [session |-> session, bar |-> bar] /\ pc' = "persist"
  /\ UNCHANGED <<file, session, armed, bar, log, state, artifacts, prior, signals,
                 promised, view, research, ran>>

ReplaceState ==
  /\ pc = "persist"
  /\ state' = tmp /\ tmp' = NoState /\ pc' = "wait"
  /\ UNCHANGED <<file, session, armed, bar, log, artifacts, prior, signals, promised, view, research, ran>>

\* The loop ends by itself: too many quiet polls.
LeaveLoop ==
  /\ pc = "wait" /\ pc' = "left"
  /\ UNCHANGED <<file, session, armed, bar, logging, artifacts, prior, signals,
                 promised, view, research, ran>>

Disarm ==
  /\ pc = "left"
  /\ armed' = FALSE /\ pc' = "equity"
  /\ UNCHANGED <<file, session, bar, logging, artifacts, prior, signals, promised, view, research, ran>>

WriteEquity ==
  /\ pc = "equity"
  /\ equity' = session /\ pc' = "prior"
  /\ UNCHANGED <<file, session, armed, bar, logging, result, prior, signals, promised, view, research, ran>>

\* Mutant: the trial of the session itself is among its prior trials.
ReadPriorAndOwn ==
  /\ pc = "prior"
  /\ IF Readable(file)
       THEN prior' = CumulativeTrials(file) + 1 /\ pc' = "result"
       ELSE prior' = prior /\ pc' = "escaped"
  /\ UNCHANGED <<file, session, armed, bar, logging, artifacts, signals, promised, view, research, ran>>

\* A ledger that cannot be loaded ends the command with a traceback.
ReadPrior ==
  /\ pc = "prior"
  /\ IF Readable(file)
       THEN prior' = CumulativeTrials(file) /\ pc' = "result"
       ELSE prior' = prior /\ pc' = "escaped"
  /\ UNCHANGED <<file, session, armed, bar, logging, artifacts, signals, promised, view, research, ran>>

WriteResult ==
  /\ pc = "result"
  /\ result' = [session |-> session, prior |-> prior] /\ pc' = "append"
  /\ prior' = 0 /\ ran' = ran + 1
  /\ UNCHANGED <<file, session, armed, bar, logging, equity, signals, promised, view, research>>

AppendTrial ==
  /\ pc = "append"
  /\ file' = Appended(file, 1) /\ pc' = "done"
  /\ UNCHANGED <<session, armed, bar, logging, artifacts, prior, signals, promised, view, research, ran>>

Deliver(s) ==
  /\ pc \notin Ended /\ signals < MaxSignals
  /\ signals' = signals + 1
  /\ promised' =
       IF s = "term" /\ (promised = "yes" \/ (promised = "none" /\ pc \in InLoop))
       THEN "yes" ELSE "no"
  /\ UNCHANGED <<file, session, bar, log, state, artifacts, prior, view, research, ran>>

\* An exception raised between two steps: the loop finalizes the session, and
\* the temporary state file is removed on the way out; anywhere else it leaves
\* the command.
Raised ==
  /\ pc' = IF pc \in InLoop THEN "left" ELSE "escaped"
  /\ tmp' = IF pc = "persist" THEN NoState ELSE tmp

\* Mutant: the guard stays armed behind the first signal.
SigtermStaysArmed ==
  /\ Deliver("term")
  /\ IF armed THEN armed' = armed /\ Raised
              ELSE UNCHANGED <<armed, pc, tmp>>

Sigterm ==
  /\ Deliver("term")
  /\ IF armed THEN armed' = FALSE /\ Raised
              ELSE UNCHANGED <<armed, pc, tmp>>

Interrupt == Deliver("int") /\ Raised /\ UNCHANGED armed

\* SIGKILL, or the machine: what was being written may stay torn.
Kill ==
  /\ Deliver("kill")
  /\ pc' = "killed" /\ UNCHANGED <<armed, tmp>>

KillInAppend ==
  /\ pc = "append" /\ signals < MaxSignals
  /\ file' \in Torn(file, 1)
  /\ signals' = signals + 1 /\ promised' = "no" /\ pc' = "killed"
  /\ UNCHANGED <<session, armed, bar, logging, artifacts, prior, view, research, ran>>

-----------------------------------------------------------------------------
\* The live dashboard builds its payload from the state file and then, in a
\* read of its own, from the log.
ReaderUnchanged ==
  UNCHANGED <<file, pc, session, armed, bar, logging, artifacts, prior, signals, promised,
              research, ran>>

ReadState == view' = [state |-> state, log |-> 0, of |-> 0] /\ ReaderUnchanged

ReadLogLines ==
  /\ view.of = 0
  /\ view' = [view EXCEPT !.log = log, !.of = session]
  /\ ReaderUnchanged

\* A backtest or a sweep beside the session: it reads the count, runs its
\* trials, prints the deflated figure and appends the trials it ran.
ResearchUnchanged ==
  UNCHANGED <<pc, session, armed, bar, logging, artifacts, prior, signals, promised, view>>

ResearchRun ==
  /\ research.trials = 0 /\ ran < MaxRecords /\ Readable(file)
  /\ \E n \in 1 .. MaxTrials :
       /\ research' = [trials |-> n, prior |-> CumulativeTrials(file)]
       /\ ran' = ran + n
  /\ UNCHANGED file /\ ResearchUnchanged

ResearchAppend ==
  /\ research.trials > 0
  /\ file' = Appended(file, research.trials)
  /\ research' = Idle
  /\ UNCHANGED ran /\ ResearchUnchanged

ResearchCrash ==
  /\ research.trials > 0
  /\ file' \in Torn(file, research.trials)
  /\ research' = Idle
  /\ UNCHANGED ran /\ ResearchUnchanged

SessionStep ==
  \/ Start \/ StepBar \/ WriteLog \/ WriteTemp \/ ReplaceState \/ LeaveLoop \/ Disarm
  \/ WriteEquity \/ ReadPrior \/ WriteResult \/ AppendTrial

Signal == Sigterm \/ Interrupt \/ Kill \/ KillInAppend

PaperNext ==
  \/ SessionStep \/ Signal
  \/ ReadState \/ ReadLogLines
  \/ ResearchRun \/ ResearchAppend \/ ResearchCrash

PaperSpec == PaperInit /\ [][PaperNext]_vars

-----------------------------------------------------------------------------
\* The live dashboard never shows a state newer than the bars it lists, however
\* its two reads interleave with the session's two writes.
ViewIsCoherent ==
  view.of > 0 /\ view.state.session = view.of => view.state.bar <= view.log

\* What a reader of the directory sees, at any moment and after any crash, is a
\* state file some session wrote whole for a bar it had already logged, at most
\* one bar behind the log of the running session (_persist_state), and the
\* dashboard, which reads the two files one after the other, sees no other.
StateIsALoggedBar ==
  /\ state.session <= session
  /\ state.session = session /\ session > 0 =>
       /\ state.bar > 0
       /\ log - state.bar \in {0, 1}
  /\ ViewIsCoherent

\* The promise of the termination guard: a session whose first signal is a
\* SIGTERM that finds the loop running, and that receives nothing but SIGTERMs,
\* is never lost: it ends with its equity curve and its result written, unless
\* the ledger it must read in between is corrupt.
StoppedSessionIsSaved ==
  pc \in {"done", "escaped"} /\ promised = "yes"
  => /\ equity = session
     /\ result.session = session \/ ~Readable(file)

\* The deflation counts a lower bound of the trials that were run: neither a
\* torn record, a crash nor another command's append ever makes the ledger
\* report a trial that no command completed, and no figure is deflated by the
\* trial it belongs to.
LedgerIsALowerBound ==
  /\ Readable(file) => CumulativeTrials(file) <= ran
  /\ result.session > 0 => result.prior < ran
  /\ research.trials > 0 => research.prior + research.trials <= ran
=============================================================================
