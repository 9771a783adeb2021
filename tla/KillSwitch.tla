----------------------------- MODULE KillSwitch -----------------------------
(***************************************************************************)
(* The portfolio kill switch: Guardrails.halted with _trip, _rearm_due and *)
(* _rearm (risk.py), and the halt episodes Engine._step keeps beside it    *)
(* (engine.py).  The switch is asked exactly once per bar, with the book   *)
(* already marked to that bar's close, so one bar is one action; the four  *)
(* ways a bar can end are four actions with exclusive guards.              *)
(*                                                                         *)
(* Equity is an integer and may be zero or negative (a commission on a     *)
(* sell may overdraw the account).  Thresholds are whole percents.  The    *)
(* volatility window and the per-bar tallies halted() also refreshes do    *)
(* not feed the switch; Guardrails models the tallies.                     *)
(***************************************************************************)
EXTENDS Integers, Sequences

CONSTANTS
  Equities,   (* the marks a bar may close at                                *)
  Configs,    (* the RiskConfig values a run may be started with             *)
  None,       (* Python's None                                               *)
  MaxBars     (* bound: bars in a run                                        *)

Percents == 1..100

(* RiskConfig.__post_init__: the ranges, and a non-empty hysteresis band.    *)
ValidConfig(c) ==
  /\ c.maxDrawdown \in Percents
  /\ c.maxDailyLoss \in Percents \cup {None}
  /\ c.cooldown \in (Nat \ {0}) \cup {None}
  /\ c.recovery \in (0..99) \cup {None}
  /\ c.recovery # None => c.recovery < c.maxDrawdown

ASSUME ConstantsAssumption ==
  /\ Equities \subseteq Int
  /\ None \notin Int
  /\ MaxBars \in Nat
  /\ \A c \in Configs : ValidConfig(c)

VARIABLES
  config,       (* the run's RiskConfig, fixed                               *)
  peak,         (* Guardrails._peak                                          *)
  prevEquity,   (* Guardrails._prev_equity                                   *)
  latched,      (* Guardrails._halted                                        *)
  haltBar,      (* Guardrails._halt_bar                                      *)
  barIndex,     (* Guardrails._bar_index                                     *)
  haltCount,    (* Guardrails._halt_count                                    *)
  resumeCount,  (* Guardrails._resume_count                                  *)
  runHalted,    (* _RunState.halted                                          *)
  episodes,     (* _RunState.halt_episodes, timestamps as bar indices        *)
  marks         (* the equity curve so far: the mark of every bar            *)

switchVars == <<peak, prevEquity, latched, haltBar, barIndex, haltCount, resumeCount>>
engineVars == <<runHalted, episodes, marks>>
vars == <<config, switchVars, engineVars>>

-----------------------------------------------------------------------------

(* Equity b lies at least pct percent below reference a; a reference that is *)
(* not positive never counts as a fall.                                      *)
Fell(a, b, pct) == a > 0 /\ 100 * (a - b) >= pct * a

NewPeak(e) == IF peak = None \/ e > peak THEN e ELSE peak

(* Guardrails._rearm_due: either configured condition re-arms on its own.    *)
(* Mutant: the halting bar is counted twice.                                 *)
CooldownOverEarly ==
  /\ config.cooldown # None
  /\ haltBar # None
  /\ barIndex + 2 - haltBar >= config.cooldown

CooldownOver ==
  /\ config.cooldown # None
  /\ haltBar # None
  /\ barIndex + 1 - haltBar >= config.cooldown

(* Mutant: strict comparison, so a full recovery misses a threshold of zero. *)
RecoveredStrictly(e) ==
  /\ config.recovery # None
  /\ NewPeak(e) > 0 => 100 * (NewPeak(e) - e) < config.recovery * NewPeak(e)

Recovered(e) ==
  /\ config.recovery # None
  /\ NewPeak(e) > 0 => 100 * (NewPeak(e) - e) <= config.recovery * NewPeak(e)

RearmDue(e) == CooldownOver \/ Recovered(e)

DrawdownBreach(e) == Fell(NewPeak(e), e, config.maxDrawdown)

DailyLossBreach(e) ==
  /\ config.maxDailyLoss # None
  /\ prevEquity # None
  /\ Fell(prevEquity, e, config.maxDailyLoss)

Closed(episode, bar) ==
  [halt |-> episode.halt, resume |-> bar, reason |-> episode.reason]

(* Mutant: an episode per halted bar, not per edge.                          *)
RecordEpisodeOnLevel(halted, bar, reason) ==
  /\ runHalted' = halted
  /\ episodes' =
       IF halted
       THEN Append(episodes, [halt |-> bar, resume |-> None, reason |-> reason])
       ELSE IF runHalted /\ episodes # <<>>
       THEN [episodes EXCEPT ![Len(episodes)] = Closed(@, bar)]
       ELSE episodes

(* Engine._step, step 3: episodes follow the edges of the engine's own flag. *)
RecordEpisode(halted, bar, reason) ==
  /\ runHalted' = halted
  /\ episodes' =
       IF halted /\ ~runHalted
       THEN Append(episodes, [halt |-> bar, resume |-> None, reason |-> reason])
       ELSE IF runHalted /\ ~halted /\ episodes # <<>>
       THEN [episodes EXCEPT ![Len(episodes)] = Closed(@, bar)]
       ELSE episodes

(* What every bar does, however it ends.                                     *)
MarkBar(e) ==
  /\ barIndex < MaxBars
  /\ barIndex' = barIndex + 1
  /\ prevEquity' = e
  /\ marks' = Append(marks, e)
  /\ UNCHANGED config

Trip(e, reason) ==
  /\ latched' = TRUE
  /\ haltBar' = barIndex + 1
  /\ haltCount' = haltCount + 1
  /\ peak' = NewPeak(e)
  /\ UNCHANGED resumeCount
  /\ RecordEpisode(TRUE, barIndex + 1, reason)

-----------------------------------------------------------------------------

Init ==
  /\ config \in Configs
  /\ peak = None
  /\ prevEquity = None
  /\ latched = FALSE
  /\ haltBar = None
  /\ barIndex = 0
  /\ haltCount = 0
  /\ resumeCount = 0
  /\ runHalted = FALSE
  /\ episodes = <<>>
  /\ marks = <<>>

(* Mutant: the peak survives the re-arm.                                     *)
RearmKeepingPeak(e) ==
  /\ latched /\ RearmDue(e)
  /\ MarkBar(e)
  /\ latched' = FALSE
  /\ haltBar' = None
  /\ peak' = NewPeak(e)
  /\ resumeCount' = resumeCount + 1
  /\ UNCHANGED haltCount
  /\ RecordEpisode(FALSE, barIndex + 1, None)

(* Mutant: the bar of the ended halt is not forgotten.                       *)
RearmKeepingHaltBar(e) ==
  /\ latched /\ RearmDue(e)
  /\ MarkBar(e)
  /\ latched' = FALSE
  /\ peak' = e
  /\ resumeCount' = resumeCount + 1
  /\ UNCHANGED <<haltBar, haltCount>>
  /\ RecordEpisode(FALSE, barIndex + 1, None)

(* The re-arm consumes the bar: the trip tests are skipped.                  *)
Rearm(e) ==
  /\ latched /\ RearmDue(e)
  /\ MarkBar(e)
  /\ latched' = FALSE
  /\ haltBar' = None
  /\ peak' = e
  /\ resumeCount' = resumeCount + 1
  /\ UNCHANGED haltCount
  /\ RecordEpisode(FALSE, barIndex + 1, None)

TripOnDrawdown(e) ==
  /\ ~latched /\ DrawdownBreach(e)
  /\ MarkBar(e)
  /\ Trip(e, "drawdown")

TripOnDailyLoss(e) ==
  /\ ~latched /\ ~DrawdownBreach(e) /\ DailyLossBreach(e)
  /\ MarkBar(e)
  /\ Trip(e, "daily loss")

(* A bar that changes no latch: trading goes on, or the halt stays in force. *)
Hold(e) ==
  /\ IF latched THEN ~RearmDue(e) ELSE ~DrawdownBreach(e) /\ ~DailyLossBreach(e)
  /\ MarkBar(e)
  /\ peak' = NewPeak(e)
  /\ UNCHANGED <<latched, haltBar, haltCount, resumeCount>>
  /\ RecordEpisode(latched, barIndex + 1, None)

Next ==
  \E e \in Equities :
    Rearm(e) \/ TripOnDrawdown(e) \/ TripOnDailyLoss(e) \/ Hold(e)

Spec == Init /\ [][Next]_vars

-----------------------------------------------------------------------------
(* Properties *)

Bars == 1..MaxBars
Reasons == {"drawdown", "daily loss"}
Episode == [halt : Bars, resume : Bars \cup {None}, reason : Reasons]

(* Types of the switch's and the engine's state; a mark exists for every bar *)
(* seen, and the switch has a peak and a previous mark from the first bar on.*)
TypeOK ==
  /\ config \in Configs
  /\ barIndex \in 0..MaxBars
  /\ peak \in Int \cup {None} /\ (peak = None <=> barIndex = 0)
  /\ prevEquity \in Int \cup {None} /\ (prevEquity = None <=> barIndex = 0)
  /\ latched \in BOOLEAN
  /\ haltBar \in 1..barIndex \cup {None} /\ (haltBar = None <=> ~latched)
  /\ haltCount \in Nat
  /\ resumeCount \in Nat
  /\ runHalted \in BOOLEAN
  /\ episodes \in Seq(Episode)
  /\ marks \in Seq(Int)
  /\ Len(marks) = barIndex

(* The bar trading (re)started on before the i-th halt: the first bar of the *)
(* run, or the bar the episode before it resumed on.                         *)
TradingSince(i) == IF i = 1 THEN 1 ELSE episodes[i - 1].resume

(* The record the report prints is the switch's own history: as many         *)
(* episodes as trips, as many closed as re-arms, only the last one open and  *)
(* only while the switch is latched, in strictly alternating bar order       *)
(* (Guardrails.halted, guarantee 3; Engine._step, step 3).                   *)
EpisodesFollowTheSwitch ==
  /\ runHalted = latched
  /\ haltCount = Len(episodes)
  /\ resumeCount = IF latched THEN haltCount - 1 ELSE haltCount
  /\ latched => haltBar = episodes[Len(episodes)].halt
  /\ \A i \in DOMAIN episodes :
       /\ (episodes[i].resume = None) <=> (latched /\ i = Len(episodes))
       /\ episodes[i].resume # None =>
            episodes[i].halt < episodes[i].resume /\ episodes[i].resume <= barIndex
       /\ i > 1 => episodes[i - 1].resume < episodes[i].halt

(* How long a halt lasts and how soon the next may follow: with a cooldown   *)
(* of N a halt is in force at most N bars, exactly N when nothing else can   *)
(* re-arm it, and then halts are at least N + 1 bars apart; any two halts    *)
(* are at least two bars apart (a re-arm bar never re-halts); and with no    *)
(* recovery configured the first halt is never lifted.                       *)
HaltDurations ==
  /\ \A i \in DOMAIN episodes :
       LET open == episodes[i].resume = None
           inForce == IF open THEN barIndex + 1 - episodes[i].halt
                      ELSE episodes[i].resume - episodes[i].halt
       IN /\ config.cooldown # None => inForce <= config.cooldown
          /\ config.cooldown # None /\ config.recovery = None /\ ~open =>
               inForce = config.cooldown
          /\ config.cooldown = None /\ config.recovery = None => open
  /\ \A i \in DOMAIN episodes : i > 1 =>
       /\ episodes[i].halt - episodes[i - 1].halt >= 2
       /\ config.cooldown # None /\ config.recovery = None =>
            episodes[i].halt - episodes[i - 1].halt >= config.cooldown + 1

(* The drawdown halt against a reference that keeps every mark: a drawdown   *)
(* episode opens on a bar that is a full max_drawdown below a mark made      *)
(* since trading last (re)started, and no bar that is so is traded through,  *)
(* the re-arm bar itself excepted (Guardrails.halted, guarantee 2).          *)
DrawdownHaltsAreExact ==
  /\ \A i \in DOMAIN episodes : episodes[i].reason = "drawdown" =>
       \E j \in TradingSince(i)..episodes[i].halt :
         Fell(marks[j], marks[episodes[i].halt], config.maxDrawdown)
  /\ ~latched /\ barIndex > 0 =>
       \A j \in TradingSince(Len(episodes) + 1)..barIndex :
         ~Fell(marks[j], marks[barIndex], config.maxDrawdown)

(* Measuring recovery against the live peak is measuring it against the peak *)
(* at the time of the halt: while halted under a recovery threshold the peak *)
(* is a mark made by trading, never one made since (Guardrails.halted).      *)
LivePeakIsTheHaltPeak ==
  latched /\ config.recovery # None =>
    /\ \E j \in TradingSince(Len(episodes))..haltBar : peak = marks[j]
    /\ \A j \in TradingSince(Len(episodes))..barIndex : marks[j] <= peak

=============================================================================
