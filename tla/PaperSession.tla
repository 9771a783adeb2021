---------------------------- MODULE PaperSession ----------------------------
(***************************************************************************)
(* PaperSession.run (engine.py) over a RecentWindowFeed                     *)
(* (data/recent_window.py): the poll / warm up or step / sleep loop of a    *)
(* paper session, on a clock that ticks once per bar interval.              *)
(*                                                                          *)
(* The bar with START t is complete from t + 1 on.  The market data source  *)
(* is the environment: which intervals a symbol trades in, which of its     *)
(* bars come late (withheld until released), which fetches fail, and how    *)
(* late the sleeper wakes are all choices.  What a step does to the book is  *)
(* the module Engine; here it is the timestamp stepped and the history it   *)
(* extends.  Left out: the hard stop after 100 000 polls (max_polls), and   *)
(* how absences are logged; their streaks are kept.                         *)
(***************************************************************************)
EXTENDS Integers, Sequences, FiniteSets, FiniteSetsExt, SequencesExt, Selections

CONSTANTS
  Symbols,
  None,
  LastTime,       (* bound: the last interval any symbol trades in           *)
  FirstPolls,     (* the instants a session may be opened at                 *)
  Tapes,          (* the trading records a source may hold, [Symbols -> sets *)
                  (* of intervals]                                           *)
  MaxWithheld,    (* bound: bars that may come late                          *)
  MaxOversleep,   (* bound: intervals the clock may wake late                *)
  Lookback,       (* newest bars kept per symbol                             *)
  Warmup,         (* PaperSession(warmup=...)                                *)
  MaxNewBars,     (* run(max_new_bars=...), or None                          *)
  MaxEmptyPolls   (* run(max_empty_polls=...)                                *)

ASSUME SessionAssumption ==
  /\ LastTime \in Nat /\ Lookback \in Nat \ {0} /\ Warmup \in BOOLEAN
  /\ MaxEmptyPolls \in Nat \ {0} /\ MaxOversleep \in Nat
  /\ FirstPolls \subseteq 0..LastTime
  /\ Tapes \subseteq [Symbols -> SUBSET (0..LastTime)]
  /\ None \notin Nat
  /\ MaxNewBars \in (Nat \ {0}) \cup {None}

VARIABLES
  now,            (* the clock                                               *)
  tape,           (* the source: the intervals each symbol trades in         *)
  withheld,       (* late bars, not in the source yet                        *)
  phase,          (* "poll", "step", "sleep" or "done"                       *)
  fresh,          (* the revealed timestamps run() has still to step         *)
  seen,           (* PaperSession._seen                                      *)
  warmupPending,  (* PaperSession._warmup_pending                            *)
  primed,         (* the timestamps primed: warmup_bars is how many          *)
  history,        (* _RunState.history, bars as their timestamps             *)
  sessionLog,     (* PaperSession.session_log: timestamp and instant stepped *)
  emptyPolls,     (* the run's count of consecutive quiet polls              *)
  streaks,        (* RecentWindowFeed._streaks, up to the persistence limit  *)
  opened,         (* checking only: the instant the boundary was crossed     *)
  silence,        (* checking only: quiet polls in a row, at most one too many *)
  spoilt          (* checking only: symbols a fetch failed or came late for  *)

sourceVars == <<now, tape, withheld>>
sessionVars == <<seen, primed, history, sessionLog>>
checkVars == <<opened, silence, spoilt>>
vars == <<sourceVars, phase, fresh, warmupPending, sessionVars, emptyPolls, streaks, checkVars>>

PersistentAbsence == 3

-----------------------------------------------------------------------------
(* RecentWindowFeed.poll *)

(* Everything the source answers with: the bar still forming included.       *)
Fetched(s) == {t \in tape[s] : t <= now /\ <<s, t>> \notin withheld}

(* Mutant: a bar is taken for complete in the interval it is forming in.     *)
CompleteAtOnce(t) == now >= t

(* IntervalCompleteness: [t, t + 1) has elapsed.                             *)
Complete(t) == now >= t + 1

Newest(times) ==
  {t \in times : Cardinality({u \in times : u > t}) < Lookback}

(* Mutant: one failing fetch takes the whole poll down.                      *)
WindowAllOrNothing(s, failing) ==
  IF failing # {} THEN {} ELSE Newest({t \in Fetched(s) : Complete(t)})

Window(s, failing) ==
  IF s \in failing THEN {} ELSE Newest({t \in Fetched(s) : Complete(t)})

(* build_feed, less what the session has seen.                               *)
Fresh(failing) ==
  {[ts |-> t, bars |-> {s \in Symbols : t \in Window(s, failing)}] :
     t \in (UNION {Window(s, failing) : s \in Symbols}) \ seen}

Times(feed) == {slice.ts : slice \in feed}

NoteAbsences(failing) ==
  streaks' = [s \in Symbols |->
    IF s \in failing \/ Fetched(s) = {} THEN Min({streaks[s] + 1, PersistentAbsence}) ELSE 0]

Polling(failing) ==
  /\ phase = "poll"
  /\ NoteAbsences(failing)
  /\ spoilt' = spoilt \cup failing \cup {late[1] : late \in withheld}
  /\ UNCHANGED sourceVars

-----------------------------------------------------------------------------
(* PaperSession.run *)

Init ==
  /\ now \in FirstPolls
  /\ tape \in Tapes
  /\ \E late \in kSubset(MaxWithheld, {<<s, t>> : s \in Symbols, t \in 0..LastTime}) :
       withheld = {l \in late : l[2] \in tape[l[1]]}
  /\ phase = "poll"
  /\ fresh = {}
  /\ seen = {}
  /\ warmupPending = Warmup
  /\ primed = {}
  /\ history = [s \in Symbols |-> <<>>]
  /\ sessionLog = <<>>
  /\ emptyPolls = 0
  /\ streaks = [s \in Symbols |-> 0]
  /\ opened = None
  /\ silence = 0
  /\ spoilt = {}

(* prime_history and _step alike: a symbol's bar joins its history.          *)
Extended(slice) ==
  [s \in Symbols |-> IF s \in slice.bars THEN Append(history[s], slice.ts) ELSE history[s]]

Primed(feed) ==
  [s \in Symbols |->
     history[s] \o Ranked(Times({slice \in feed : s \in slice.bars}))]

(* Mutant: the primed timestamps are not remembered.                         *)
AbsorbForgetting(failing) ==
  /\ warmupPending
  /\ Polling(failing)
  /\ Fresh(failing) # {}
  /\ history' = Primed(Fresh(failing))
  /\ primed' = Times(Fresh(failing))
  /\ warmupPending' = FALSE
  /\ emptyPolls' = 0
  /\ opened' = now
  /\ silence' = 0
  /\ phase' = "sleep"
  /\ UNCHANGED <<fresh, seen, sessionLog>>

(* Mutant: the poll that warmed the session up counts as a quiet one.        *)
AbsorbAsQuiet(failing) ==
  /\ warmupPending
  /\ Polling(failing)
  /\ Fresh(failing) # {}
  /\ history' = Primed(Fresh(failing))
  /\ seen' = seen \cup Times(Fresh(failing))
  /\ primed' = Times(Fresh(failing))
  /\ warmupPending' = FALSE
  /\ emptyPolls' = emptyPolls + 1
  /\ opened' = now
  /\ silence' = 0
  /\ phase' = "sleep"
  /\ UNCHANGED <<fresh, sessionLog>>

(* The first poll that reveals bars warms the session up: nothing is traded. *)
Absorb(failing) ==
  /\ warmupPending
  /\ Polling(failing)
  /\ Fresh(failing) # {}
  /\ history' = Primed(Fresh(failing))
  /\ seen' = seen \cup Times(Fresh(failing))
  /\ primed' = Times(Fresh(failing))
  /\ warmupPending' = FALSE
  /\ emptyPolls' = 0
  /\ opened' = now
  /\ silence' = 0
  /\ phase' = "sleep"
  /\ UNCHANGED <<fresh, sessionLog>>

(* Mutant: before the warmup a quiet poll is waited out, not counted.        *)
QuietPollOnceWarm(failing) ==
  /\ Polling(failing)
  /\ Fresh(failing) = {}
  /\ silence' = Min({silence + 1, MaxEmptyPolls + 1})
  /\ emptyPolls' = IF warmupPending THEN 0 ELSE emptyPolls + 1
  /\ phase' = IF emptyPolls' >= MaxEmptyPolls THEN "done" ELSE "sleep"
  /\ UNCHANGED <<fresh, warmupPending, sessionVars, opened>>

(* A poll that reveals nothing, before the warmup or after it.               *)
QuietPoll(failing) ==
  /\ Polling(failing)
  /\ Fresh(failing) = {}
  /\ silence' = Min({silence + 1, MaxEmptyPolls + 1})
  /\ emptyPolls' = emptyPolls + 1
  /\ phase' = IF emptyPolls' >= MaxEmptyPolls THEN "done" ELSE "sleep"
  /\ UNCHANGED <<fresh, warmupPending, sessionVars, opened>>

(* A live poll: the count is reset after the bars, before anything reads it. *)
Reveal(failing) ==
  /\ ~warmupPending
  /\ Polling(failing)
  /\ Fresh(failing) # {}
  /\ fresh' = Fresh(failing)
  /\ emptyPolls' = 0
  /\ opened' = IF opened = None THEN now ELSE opened
  /\ silence' = 0
  /\ phase' = "step"
  /\ UNCHANGED <<warmupPending, sessionVars>>

(* Engine._step on the earliest fresh timestamp, and the bar-count stop.     *)
Step ==
  /\ phase = "step"
  /\ \E slice \in fresh :
       /\ slice.ts = Min(Times(fresh))
       /\ history' = Extended(slice)
       /\ seen' = seen \cup {slice.ts}
       /\ sessionLog' = Append(sessionLog, [ts |-> slice.ts, at |-> now])
       /\ fresh' = fresh \ {slice}
  /\ phase' = IF MaxNewBars # None /\ Len(sessionLog') >= MaxNewBars THEN "done"
              ELSE IF fresh' = {} THEN "sleep" ELSE "step"
  /\ UNCHANGED <<sourceVars, warmupPending, primed, emptyPolls, streaks, checkVars>>

(* sleep_until(_next_due()): the next boundary, or a later wake-up; after    *)
(* the last interval the clock need not be counted further.                  *)
Sleep ==
  /\ phase = "sleep"
  /\ \E late \in 0..MaxOversleep : now' = Min({now + 1 + late, LastTime + 1})
  /\ phase' = "poll"
  /\ UNCHANGED <<tape, withheld, fresh, warmupPending, sessionVars, emptyPolls, streaks, checkVars>>

(* The environment: the source gains a bar that was late.                    *)
Release ==
  /\ phase # "done"
  /\ \E late \in withheld :
       /\ late[2] < now
       /\ withheld' = withheld \ {late}
       /\ spoilt' = spoilt \cup {late[1]}
  /\ UNCHANGED <<now, tape, phase, fresh, warmupPending, sessionVars, emptyPolls, streaks,
                 opened, silence>>

Session ==
  \/ Step
  \/ Sleep
  \/ \E failing \in SUBSET Symbols :
       QuietPoll(failing) \/ Absorb(failing) \/ Reveal(failing)

Next == Session \/ Release

(* The loop runs on one thread that nothing else blocks: it keeps going.     *)
Spec == Init /\ [][Next]_vars /\ WF_vars(Session)

-----------------------------------------------------------------------------
(* Properties *)

Intervals == 0..LastTime
Stepped == {sessionLog[i].ts : i \in DOMAIN sessionLog}

(* No bar is primed or stepped while it is still forming (ADR-0022,          *)
(* RecentWindowFeed.poll).                                                   *)
OnlyCompletedBars ==
  /\ \A i \in DOMAIN sessionLog : sessionLog[i].at >= sessionLog[i].ts + 1
  /\ \A t \in primed : opened >= t + 1

SteppedOnce ==
  /\ \A i, j \in DOMAIN sessionLog : sessionLog[i].ts = sessionLog[j].ts => i = j
  /\ Stepped \cap primed = {}

(* A timestamp is primed or stepped, once, and never both, however often the *)
(* feed reveals it again; no symbol has a bar twice in its history           *)
(* (PaperSession.run, ADR-0042).                                             *)
ProcessedOnce ==
  /\ SteppedOnce
  /\ \A s \in Symbols : IsInjective(history[s])

(* A symbol whose every fetch succeeded and no bar of which came late has a  *)
(* history without gaps and in order: after each poll it holds every         *)
(* completed bar since the session opened, and the newest Lookback before,   *)
(* whatever happened to the other symbols (RecentWindowFeed.poll, ADR-0035). *)
PunctualSymbolsAreWhole ==
  phase = "sleep" /\ opened # None => \A s \in Symbols \ spoilt :
    LET done == {t \in tape[s] : t < now}
        missing == done \ Range(history[s])
    IN /\ \A t \in missing : t < opened /\ Cardinality({u \in done : u > t}) >= Lookback
       /\ \A i, j \in DOMAIN history[s] : i < j => history[s][i] < history[s][j]

(* The session gives up on real silence and on nothing else: it counts       *)
(* exactly the polls in a row that revealed nothing, before the warmup too,  *)
(* and is over at MaxEmptyPolls of them or when its quota of bars is spent   *)
(* (PaperSession.run, ADR-0049).                                             *)
SilenceIsReal ==
  /\ silence <= MaxEmptyPolls
  /\ phase \in {"poll", "sleep"} => silence < MaxEmptyPolls
  /\ phase = "done" =>
       silence = MaxEmptyPolls \/ (MaxNewBars # None /\ Len(sessionLog) = MaxNewBars)

(* Once its source has nothing more to give, the session ends by itself,     *)
(* warmed up or not, also when no fetch ever succeeds (PaperSession.run).    *)
Terminates == <>(phase = "done")

(* The strategy's first call is on the first bar to complete after the       *)
(* session opened: no bar that had closed by then is ever traded             *)
(* (PaperSession's docstring, Warmup vs. live, ADR-0042).                    *)
LiveBarsCloseAfterOpening ==
  Warmup => \A i \in DOMAIN sessionLog : sessionLog[i].ts + 1 > opened

=============================================================================
