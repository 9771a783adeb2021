-------------------------- MODULE KillSwitchProofs --------------------------
(***************************************************************************)
(* What KillSwitch promises, for every set of marks, every set of valid    *)
(* configurations and runs of every length.                                *)
(***************************************************************************)
EXTENDS KillSwitch, TLAPS

(* TypeOK is inductive only together with the engine's flag agreeing with    *)
(* the switch's: an episode is opened by a trip and by nothing else.         *)
TypeInv == TypeOK /\ runHalted = latched

-----------------------------------------------------------------------------
(* The action each step is, with its guards, as the proofs take them.        *)

(* A step of the switch is one of its four actions or changes nothing.       *)
LEMMA StepCases ==
  ASSUME [Next]_vars
  PROVE  \/ \E e \in Equities :
              Rearm(e) \/ TripOnDrawdown(e) \/ TripOnDailyLoss(e) \/ Hold(e)
         \/ UNCHANGED vars
BY DEF Next

(* The running peak is an integer from the first bar on, and no mark of the  *)
(* bar exceeds it.                                                           *)
LEMMA NewPeakBounds ==
  ASSUME TypeOK, NEW e \in Int
  PROVE  /\ NewPeak(e) \in Int
         /\ NewPeak(e) >= e
         /\ NewPeak(e) = e \/ NewPeak(e) = peak
         /\ barIndex > 0 => NewPeak(e) >= peak
BY ConstantsAssumption DEF TypeOK, NewPeak

-----------------------------------------------------------------------------
(* Type correctness *)

(* Closing the last episode keeps the list a list of episodes.               *)
LEMMA CloseLastEpisode ==
  ASSUME NEW s \in Seq(Episode), s # <<>>, NEW b \in Bars,
         NEW t, t = [s EXCEPT ![Len(s)] = Closed(@, b)]
  PROVE  /\ t \in Seq(Episode)
         /\ Len(t) = Len(s) /\ DOMAIN t = 1..Len(s)
         /\ t[Len(s)] = Closed(s[Len(s)], b)
         /\ \A i \in 1..Len(s) - 1 : t[i] = s[i]
<1>1. Len(s) \in 1..Len(s) /\ s[Len(s)] \in Episode
  OBVIOUS
<1>2. Closed(s[Len(s)], b) \in Episode
  BY <1>1 DEF Episode, Closed
<1> QED
  BY <1>1, <1>2

(* Appending an episode adds one element and moves none.                     *)
LEMMA OpenEpisode ==
  ASSUME NEW s \in Seq(Episode), NEW ep \in Episode, NEW t, t = Append(s, ep)
  PROVE  /\ t \in Seq(Episode)
         /\ Len(t) = Len(s) + 1 /\ DOMAIN t = 1..Len(s) + 1
         /\ t[Len(s) + 1] = ep
         /\ \A i \in 1..Len(s) : t[i] = s[i]
OBVIOUS

(* Every initial state is typed.                                             *)
LEMMA TypeInit == Init => TypeInv
<1> SUFFICES ASSUME Init PROVE TypeInv
  OBVIOUS
<1>1. episodes \in Seq(Episode) /\ marks \in Seq(Int) /\ Len(marks) = 0
  BY DEF Init
<1>2. config \in Configs /\ barIndex = 0 /\ peak = None /\ prevEquity = None /\ haltBar = None
      /\ haltCount = 0 /\ resumeCount = 0
  BY DEF Init
<1>3. latched = FALSE /\ runHalted = FALSE
  BY DEF Init
<1>4. barIndex \in 0..MaxBars /\ haltCount \in Nat /\ resumeCount \in Nat /\ Len(marks) = barIndex
  BY <1>1, <1>2, ConstantsAssumption
<1>5. latched \in BOOLEAN /\ runHalted \in BOOLEAN /\ runHalted = latched
  BY <1>3
<1>6. haltBar \in 1..barIndex \cup {None} /\ (haltBar = None <=> ~latched)
  BY <1>2, <1>3
<1> QED
  BY <1>1, <1>2, <1>4, <1>5, <1>6 DEF TypeInv, TypeOK

(* Every step keeps the types and the agreement of the two flags.            *)
LEMMA TypeStep == TypeInv /\ [Next]_vars => TypeInv'
<1> SUFFICES ASSUME TypeInv, [Next]_vars PROVE TypeInv'
  OBVIOUS
<1> USE ConstantsAssumption
<1>1. ASSUME NEW e \in Equities, Rearm(e) PROVE TypeInv'
  <2>1. e \in Int /\ barIndex + 1 \in Bars /\ barIndex \in Nat
    BY <1>1 DEF Rearm, MarkBar, TypeInv, TypeOK, Bars
  <2>2. episodes' \in Seq(Episode)
    <3>1. CASE episodes = <<>>
      BY <1>1, <3>1 DEF Rearm, RecordEpisode, TypeInv, TypeOK
    <3>2. CASE episodes # <<>>
      <4>1. episodes' = [episodes EXCEPT ![Len(episodes)] = Closed(@, barIndex + 1)]
        BY <1>1, <3>2 DEF Rearm, RecordEpisode, TypeInv
      <4> QED
        BY <4>1, <3>2, <2>1, CloseLastEpisode DEF TypeInv, TypeOK
    <3> QED
      BY <3>1, <3>2
  <2>3. runHalted' = FALSE /\ latched' = FALSE /\ haltBar' = None
    BY <1>1 DEF Rearm, RecordEpisode
  <2>4. peak' = e /\ prevEquity' = e /\ barIndex' = barIndex + 1 /\ config' = config
        /\ haltCount' = haltCount /\ resumeCount' = resumeCount + 1 /\ marks' = Append(marks, e)
    BY <1>1 DEF Rearm, MarkBar, RecordEpisode
  <2>5. marks' \in Seq(Int) /\ Len(marks') = barIndex'
    BY <2>1, <2>4 DEF TypeInv, TypeOK
  <2>6. latched' \in BOOLEAN /\ runHalted' \in BOOLEAN /\ runHalted' = latched'
    BY <2>3
  <2>7. haltBar' \in 1..barIndex' \cup {None} /\ (haltBar' = None <=> ~latched')
    BY <2>3
  <2>8. /\ barIndex' \in 0..MaxBars /\ haltCount' \in Nat /\ resumeCount' \in Nat
        /\ peak' \in Int \cup {None} /\ (peak' = None <=> barIndex' = 0)
        /\ prevEquity' \in Int \cup {None} /\ (prevEquity' = None <=> barIndex' = 0)
    BY <2>1, <2>4 DEF TypeInv, TypeOK, Bars
  <2> QED
    BY <2>2, <2>4, <2>5, <2>6, <2>7, <2>8 DEF TypeInv, TypeOK
<1>2. ASSUME NEW e \in Equities, NEW r \in Reasons, ~latched, MarkBar(e), Trip(e, r)
      PROVE  TypeInv'
  <2>1. e \in Int /\ barIndex + 1 \in Bars /\ barIndex \in Nat
    BY <1>2 DEF MarkBar, TypeInv, TypeOK, Bars
  <2>2. [halt |-> barIndex + 1, resume |-> None, reason |-> r] \in Episode
    BY <2>1 DEF Episode
  <2>3. episodes' \in Seq(Episode)
    BY <1>2, <2>2 DEF Trip, RecordEpisode, TypeInv, TypeOK
  <2>4. NewPeak(e) \in Int
    BY <2>1, NewPeakBounds DEF TypeInv
  <2> QED
    BY <1>2, <2>1, <2>3, <2>4 DEF MarkBar, Trip, RecordEpisode, TypeInv, TypeOK, Bars
<1>3. ASSUME NEW e \in Equities, Hold(e) PROVE TypeInv'
  <2>1. e \in Int /\ barIndex + 1 \in Bars /\ barIndex \in Nat
    BY <1>3 DEF Hold, MarkBar, TypeInv, TypeOK, Bars
  <2>2. episodes' = episodes /\ runHalted' = latched
    BY <1>3 DEF Hold, RecordEpisode, TypeInv, TypeOK
  <2>3. NewPeak(e) \in Int
    BY <2>1, NewPeakBounds DEF TypeInv
  <2> QED
    BY <1>3, <2>1, <2>2, <2>3 DEF Hold, MarkBar, TypeInv, TypeOK, Bars
<1>4. ASSUME UNCHANGED vars PROVE TypeInv'
  BY <1>4 DEF vars, switchVars, engineVars, TypeInv, TypeOK
<1> QED
  BY <1>1, <1>2, <1>3, <1>4, StepCases
     DEF TripOnDrawdown, TripOnDailyLoss, Reasons

LEMMA TypeInvariant == Spec => []TypeInv
BY TypeInit, TypeStep, PTL DEF Spec

(* The state of the switch and of the engine's record is always well typed   *)
(* (Guardrails.halted, Engine._step).                                        *)
THEOREM TypeCorrect == Spec => []TypeOK
<1>1. TypeInv => TypeOK
  BY DEF TypeInv
<1> QED
  BY <1>1, TypeInvariant, PTL

-----------------------------------------------------------------------------
(* What each action leaves behind, with the engine's edge test resolved by   *)
(* the agreement of the two flags.                                           *)

Opened(reason) == [halt |-> barIndex + 1, resume |-> None, reason |-> reason]

LEMMA RearmEffect ==
  ASSUME TypeInv, NEW e \in Equities, Rearm(e), episodes # <<>>
  PROVE  /\ latched /\ ~latched' /\ ~runHalted'
         /\ barIndex' = barIndex + 1 /\ haltCount' = haltCount
         /\ resumeCount' = resumeCount + 1 /\ peak' = e
         /\ marks' = Append(marks, e) /\ config' = config
         /\ episodes' = [episodes EXCEPT ![Len(episodes)] = Closed(@, barIndex + 1)]
         /\ barIndex \in Nat /\ e \in Int
BY ConstantsAssumption DEF Rearm, MarkBar, RecordEpisode, TypeInv, TypeOK

LEMMA TripEffect ==
  ASSUME TypeInv, NEW e \in Equities, NEW r \in Reasons,
         ~latched, MarkBar(e), Trip(e, r)
  PROVE  /\ latched' /\ runHalted'
         /\ barIndex' = barIndex + 1 /\ haltCount' = haltCount + 1
         /\ haltBar' = barIndex + 1
         /\ resumeCount' = resumeCount /\ peak' = NewPeak(e)
         /\ marks' = Append(marks, e) /\ config' = config
         /\ episodes' = Append(episodes, Opened(r))
         /\ barIndex \in Nat /\ e \in Int
BY ConstantsAssumption DEF Trip, MarkBar, RecordEpisode, TypeInv, TypeOK, Opened

LEMMA HoldEffect ==
  ASSUME TypeInv, NEW e \in Equities, Hold(e)
  PROVE  /\ latched' = latched /\ runHalted' = runHalted /\ haltBar' = haltBar
         /\ barIndex' = barIndex + 1 /\ haltCount' = haltCount
         /\ resumeCount' = resumeCount /\ peak' = NewPeak(e)
         /\ marks' = Append(marks, e) /\ config' = config
         /\ episodes' = episodes
         /\ barIndex \in Nat /\ e \in Int
BY ConstantsAssumption DEF Hold, MarkBar, RecordEpisode, TypeInv, TypeOK

(* The fields of an episode, spelled out: the provers need not see records.  *)
EpisodeTyped(ep) ==
  /\ ep.halt \in Nat
  /\ ep.resume \in Nat \cup {None}

LEMMA EpisodeTypes ==
  ASSUME NEW ep \in Episode PROVE EpisodeTyped(ep)
BY ConstantsAssumption DEF Episode, Bars, EpisodeTyped

(* The fields of an episode just opened and of one just closed.              *)
LEMMA EpisodeFields ==
  ASSUME NEW ep \in Episode, NEW b \in Int, NEW r \in Reasons
  PROVE  /\ Closed(ep, b).halt = ep.halt /\ Closed(ep, b).resume = b
         /\ Closed(ep, b).reason = ep.reason
         /\ Opened(r).halt = barIndex + 1 /\ Opened(r).resume = None
         /\ Opened(r).reason = r
BY DEF Episode, Closed, Opened

-----------------------------------------------------------------------------
(* The episodes are the switch's history *)

LEMMA EpisodesInit == Init => EpisodesFollowTheSwitch
<1> SUFFICES ASSUME Init PROVE EpisodesFollowTheSwitch
  OBVIOUS
<1>1. latched = FALSE /\ runHalted = FALSE
  BY DEF Init
<1>2. haltCount = 0 /\ resumeCount = 0 /\ Len(episodes) = 0 /\ DOMAIN episodes = {}
  BY DEF Init
<1>3. latched => haltBar = episodes[Len(episodes)].halt
  BY <1>1
<1>4. resumeCount = IF latched THEN haltCount - 1 ELSE haltCount
  BY <1>1, <1>2
<1> QED
  BY <1>1, <1>2, <1>3, <1>4 DEF EpisodesFollowTheSwitch

LEMMA EpisodesStep ==
  TypeInv /\ EpisodesFollowTheSwitch /\ [Next]_vars => EpisodesFollowTheSwitch'
<1> SUFFICES ASSUME TypeInv, EpisodesFollowTheSwitch, [Next]_vars
             PROVE  EpisodesFollowTheSwitch'
  OBVIOUS
<1> DEFINE n == Len(episodes)
<1>1. /\ n \in Nat /\ barIndex \in Nat /\ DOMAIN episodes = 1..n
      /\ \A i \in 1..n : EpisodeTyped(episodes[i])
      /\ None \notin Int /\ latched \in BOOLEAN /\ runHalted \in BOOLEAN
      /\ latched => n >= 1 /\ haltBar \in 1..barIndex
  <2>1. n \in Nat /\ DOMAIN episodes = 1..n /\ \A i \in 1..n : episodes[i] \in Episode
    BY DEF TypeInv, TypeOK
  <2>2. latched => n >= 1
    BY <2>1 DEF TypeInv, TypeOK, EpisodesFollowTheSwitch
  <2> QED
    BY <2>1, <2>2, EpisodeTypes, ConstantsAssumption DEF TypeInv, TypeOK
<1>2. ASSUME NEW e \in Equities, Rearm(e) PROVE EpisodesFollowTheSwitch'
  <2>1. latched /\ n >= 1 /\ episodes # <<>>
    BY <1>1, <1>2 DEF Rearm
  <2>2. /\ DOMAIN episodes' = 1..n /\ Len(episodes') = n
        /\ episodes'[n] = Closed(episodes[n], barIndex + 1)
        /\ \A i \in 1..n - 1 : episodes'[i] = episodes[i]
    <3>1. barIndex + 1 \in Bars
      BY <1>1, <1>2, ConstantsAssumption DEF Rearm, MarkBar, RecordEpisode, Bars
    <3>2. episodes' = [episodes EXCEPT ![Len(episodes)] = Closed(@, barIndex + 1)]
      BY <1>2, <2>1, RearmEffect
    <3>3. episodes \in Seq(Episode)
      BY DEF TypeInv, TypeOK
    <3>4. /\ Len(episodes') = Len(episodes) /\ DOMAIN episodes' = 1..Len(episodes)
          /\ episodes'[Len(episodes)] = Closed(episodes[Len(episodes)], barIndex + 1)
          /\ \A i \in 1..Len(episodes) - 1 : episodes'[i] = episodes[i]
      BY <3>1, <3>2, <3>3, <2>1, CloseLastEpisode
    <3> QED
      BY <3>4
  <2>3. episodes'[n].halt = episodes[n].halt /\ episodes'[n].resume = barIndex + 1
    BY <1>1, <2>1, <2>2, EpisodeFields DEF Closed
  <2>4. episodes[n].halt = haltBar /\ haltBar <= barIndex
    BY <1>1, <2>1 DEF EpisodesFollowTheSwitch
  <2>5. ~latched' /\ runHalted' = latched' /\ barIndex' = barIndex + 1
        /\ haltCount' = haltCount /\ resumeCount' = resumeCount + 1
        /\ latched' \in BOOLEAN /\ runHalted' \in BOOLEAN
    BY <1>2, <2>1, RearmEffect, TypeStep DEF TypeInv, TypeOK
  <2>6. haltCount' = Len(episodes') /\ resumeCount' = haltCount'
    BY <2>1, <2>2, <2>5, <1>1 DEF EpisodesFollowTheSwitch, TypeInv, TypeOK
  <2>7. ASSUME NEW i \in 1..n
        PROVE  /\ (episodes'[i].resume = None) <=> (latched' /\ i = Len(episodes'))
               /\ episodes'[i].resume # None =>
                    episodes'[i].halt < episodes'[i].resume /\ episodes'[i].resume <= barIndex'
               /\ i > 1 => episodes'[i - 1].resume < episodes'[i].halt
    <3>1. CASE i = n
      <4>1. episodes'[i].resume = barIndex + 1 /\ barIndex + 1 # None
        BY <3>1, <2>3, <1>1
      <4>2. episodes'[i].halt = haltBar /\ haltBar < barIndex + 1
        BY <3>1, <2>1, <2>3, <2>4, <1>1
      <4>3. i > 1 => episodes[i - 1].resume < episodes[i].halt
        BY <3>1, <1>1 DEF EpisodesFollowTheSwitch
      <4>4. i > 1 => episodes'[i - 1].resume < episodes'[i].halt
        BY <4>3, <3>1, <2>2, <2>3, <1>1
      <4>5. episodes'[i].resume # None /\ episodes'[i].halt < episodes'[i].resume
            /\ episodes'[i].resume <= barIndex'
        BY <4>1, <4>2, <2>5, <1>1
      <4> QED
        BY <4>4, <4>5, <2>5
    <3>2. CASE i < n
      <4>1. episodes'[i] = episodes[i] /\ (i > 1 => episodes'[i - 1] = episodes[i - 1])
        BY <3>2, <2>2, <1>1
      <4>2. episodes[i].resume # None /\ EpisodeTyped(episodes[i])
        BY <3>2, <1>1 DEF EpisodesFollowTheSwitch
      <4>3. /\ episodes[i].halt < episodes[i].resume /\ episodes[i].resume <= barIndex
            /\ i > 1 => episodes[i - 1].resume < episodes[i].halt
        BY <4>2, <1>1 DEF EpisodesFollowTheSwitch
      <4>4. episodes[i].resume <= barIndex + 1
        BY <4>2, <4>3, <1>1 DEF EpisodeTyped
      <4>5. ~(latched' /\ i = Len(episodes')) /\ barIndex' = barIndex + 1
        BY <2>5
      <4> QED
        BY <4>1, <4>2, <4>3, <4>4, <4>5
    <3>3. i = n \/ i < n
      <4>1. n \in Nat
        BY <1>1
      <4> QED
        BY <4>1
    <3> QED
      BY <3>1, <3>2, <3>3
  <2> QED
    BY <2>2, <2>5, <2>6, <2>7 DEF EpisodesFollowTheSwitch
<1>3. ASSUME NEW e \in Equities, NEW r \in Reasons, ~latched, MarkBar(e), Trip(e, r)
      PROVE  EpisodesFollowTheSwitch'
  <2>1. /\ Len(episodes') = n + 1 /\ DOMAIN episodes' = 1..n + 1
        /\ episodes'[n + 1] = Opened(r)
        /\ \A i \in 1..n : episodes'[i] = episodes[i]
    <3>1. episodes \in Seq(Episode)
      BY DEF TypeInv, TypeOK
    <3>2. barIndex + 1 \in Bars
      BY <1>1, <1>3, ConstantsAssumption DEF MarkBar, Bars
    <3>3. Opened(r) \in Episode
      BY <3>2 DEF Opened, Episode
    <3>4. episodes' = Append(episodes, Opened(r))
      BY <1>3, TripEffect
    <3>5. /\ Len(episodes') = Len(episodes) + 1 /\ DOMAIN episodes' = 1..Len(episodes) + 1
          /\ episodes'[Len(episodes) + 1] = Opened(r)
          /\ \A i \in 1..Len(episodes) : episodes'[i] = episodes[i]
      BY <3>1, <3>3, <3>4, OpenEpisode
    <3> QED
      BY <3>5
  <2>2. episodes'[n + 1].halt = barIndex + 1 /\ episodes'[n + 1].resume = None
    BY <2>1 DEF Opened
  <2>3. latched' /\ runHalted' = latched' /\ barIndex' = barIndex + 1
        /\ haltBar' = barIndex + 1
        /\ haltCount' = haltCount + 1 /\ resumeCount' = resumeCount
        /\ latched' \in BOOLEAN /\ runHalted' \in BOOLEAN
    BY <1>3, TripEffect, TypeStep DEF TypeInv, TypeOK
  <2>4. haltCount' = Len(episodes') /\ resumeCount' = haltCount' - 1
    BY <1>3, <2>1, <2>3, <1>1 DEF EpisodesFollowTheSwitch, TypeInv, TypeOK
  <2>5. ASSUME NEW i \in 1..n + 1
        PROVE  /\ (episodes'[i].resume = None) <=> (latched' /\ i = Len(episodes'))
               /\ episodes'[i].resume # None =>
                    episodes'[i].halt < episodes'[i].resume /\ episodes'[i].resume <= barIndex'
               /\ i > 1 => episodes'[i - 1].resume < episodes'[i].halt
    <3>1. CASE i = n + 1
      <4>1. i > 1 => episodes[n].resume <= barIndex /\ episodes[n].resume \in Int
        BY <3>1, <1>1, <1>3 DEF EpisodesFollowTheSwitch, EpisodeTyped
      <4> QED
        BY <4>1, <3>1, <1>1, <2>1, <2>2, <2>3
    <3>2. CASE i <= n
      <4>1. episodes'[i] = episodes[i] /\ (i > 1 => episodes'[i - 1] = episodes[i - 1])
        BY <3>2, <2>1, <1>1
      <4>2. episodes[i].resume # None /\ EpisodeTyped(episodes[i])
        BY <3>2, <1>1, <1>3 DEF EpisodesFollowTheSwitch
      <4>3. /\ episodes[i].halt < episodes[i].resume /\ episodes[i].resume <= barIndex
            /\ i > 1 => episodes[i - 1].resume < episodes[i].halt
        BY <3>2, <4>2, <1>1 DEF EpisodesFollowTheSwitch
      <4>4. episodes[i].resume <= barIndex + 1
        BY <4>2, <4>3, <1>1 DEF EpisodeTyped
      <4>5. i # Len(episodes')
        BY <3>2, <2>1, <1>1
      <4> QED
        BY <4>1, <4>2, <4>3, <4>4, <4>5, <2>3
    <3>3. i = n + 1 \/ i <= n
      BY <1>1
    <3> QED
      BY <3>1, <3>2, <3>3
  <2> QED
    BY <2>1, <2>2, <2>3, <2>4, <2>5 DEF EpisodesFollowTheSwitch
<1>4. ASSUME NEW e \in Equities, Hold(e) PROVE EpisodesFollowTheSwitch'
  <2>1. ASSUME NEW i \in 1..n, episodes[i].resume # None
        PROVE  episodes[i].resume <= barIndex + 1
    BY <2>1, <1>1 DEF EpisodesFollowTheSwitch, EpisodeTyped
  <2> QED
    BY <1>1, <1>4, <2>1, HoldEffect DEF EpisodesFollowTheSwitch
<1>5. CASE UNCHANGED vars
  BY <1>5 DEF vars, switchVars, engineVars, EpisodesFollowTheSwitch
<1> QED
  BY <1>2, <1>3, <1>4, <1>5, StepCases DEF TripOnDrawdown, TripOnDailyLoss, Reasons

(* The engine's halt episodes are, in every run, the trips and re-arms of    *)
(* the switch in strict alternation (Engine._step, step 3).                  *)
THEOREM EpisodesCorrect == Spec => []EpisodesFollowTheSwitch
BY EpisodesInit, EpisodesStep, TypeInvariant, PTL DEF Spec

-----------------------------------------------------------------------------
(* How long halts last *)

(* One episode of HaltDurations, on the bar b.                               *)
Lasts(ep, b) ==
  LET open == ep.resume = None
      inForce == IF open THEN b + 1 - ep.halt ELSE ep.resume - ep.halt
  IN /\ config.cooldown # None => inForce <= config.cooldown
     /\ config.cooldown # None /\ config.recovery = None /\ ~open => inForce = config.cooldown
     /\ config.cooldown = None /\ config.recovery = None => open

(* Two consecutive ones.                                                     *)
Apart(before, ep) ==
  /\ ep.halt - before.halt >= 2
  /\ config.cooldown # None /\ config.recovery = None =>
       ep.halt - before.halt >= config.cooldown + 1

LEMMA DurationsUnfolded ==
  HaltDurations <=> /\ \A i \in DOMAIN episodes : Lasts(episodes[i], barIndex)
                    /\ \A i \in DOMAIN episodes : i > 1 => Apart(episodes[i - 1], episodes[i])
BY DEF HaltDurations, Lasts, Apart

(* The facts about the record that every step starts from.                   *)
Known(n) ==
  /\ n \in Nat /\ n = Len(episodes) /\ DOMAIN episodes = 1..n
  /\ barIndex \in Nat
  /\ \A i \in 1..n : /\ EpisodeTyped(episodes[i])
                     /\ episodes[i].resume = None <=> (latched /\ i = n)
                     /\ episodes[i].resume # None =>
                          episodes[i].halt < episodes[i].resume /\ episodes[i].resume <= barIndex
  /\ latched => n >= 1 /\ haltBar \in 1..barIndex /\ haltBar = episodes[n].halt
  /\ config.cooldown \in (Nat \ {0}) \cup {None} /\ None \notin Int

LEMMA KnownFacts ==
  ASSUME TypeInv, EpisodesFollowTheSwitch PROVE Known(Len(episodes))
<1> DEFINE n == Len(episodes)
<1>1. n \in Nat /\ DOMAIN episodes = 1..n /\ \A i \in 1..n : episodes[i] \in Episode
  BY DEF TypeInv, TypeOK
<1>2. barIndex \in Nat /\ (latched => n >= 1 /\ haltBar \in 1..barIndex)
  BY <1>1, ConstantsAssumption DEF TypeInv, TypeOK, EpisodesFollowTheSwitch
<1>3. config.cooldown \in (Nat \ {0}) \cup {None} /\ None \notin Int
  BY ConstantsAssumption DEF TypeInv, TypeOK, ValidConfig
<1>4. \A i \in 1..n : EpisodeTyped(episodes[i])
  BY <1>1, EpisodeTypes
<1>5. \A i \in 1..n : /\ episodes[i].resume = None <=> (latched /\ i = n)
                      /\ episodes[i].resume # None =>
                           episodes[i].halt < episodes[i].resume /\ episodes[i].resume <= barIndex
  BY <1>1 DEF EpisodesFollowTheSwitch
<1>6. latched => haltBar = episodes[n].halt
  BY DEF EpisodesFollowTheSwitch
<1> QED BY <1>1, <1>2, <1>3, <1>4, <1>5, <1>6 DEF Known

(* A re-arm closes the last episode where it stands and moves nothing else.  *)
LEMMA RearmShape ==
  ASSUME TypeInv, EpisodesFollowTheSwitch, NEW e \in Equities, Rearm(e),
         NEW n, n = Len(episodes)
  PROVE  /\ latched /\ ~latched' /\ config' = config /\ barIndex' = barIndex + 1
         /\ DOMAIN episodes' = 1..n /\ Len(episodes') = n
         /\ \A i \in 1..n - 1 : episodes'[i] = episodes[i]
         /\ episodes'[n].halt = episodes[n].halt
         /\ episodes'[n].resume = barIndex + 1
         /\ episodes'[n].reason = episodes[n].reason
<1>1. Known(n) BY KnownFacts
<1>2. latched /\ n >= 1 /\ episodes # <<>>
  BY <1>1 DEF Rearm, Known
<1>3. barIndex + 1 \in Bars
  BY <1>1, ConstantsAssumption DEF Rearm, MarkBar, RecordEpisode, Bars, Known
<1>4. episodes' = [episodes EXCEPT ![Len(episodes)] = Closed(@, barIndex + 1)]
  BY <1>2, RearmEffect
<1>5. episodes \in Seq(Episode)
  BY DEF TypeInv, TypeOK
<1>6. /\ Len(episodes') = n /\ DOMAIN episodes' = 1..n
      /\ episodes'[n] = Closed(episodes[n], barIndex + 1)
      /\ \A i \in 1..n - 1 : episodes'[i] = episodes[i]
  BY <1>2, <1>3, <1>4, <1>5, CloseLastEpisode
<1>7. /\ Closed(episodes[n], barIndex + 1).halt = episodes[n].halt
      /\ Closed(episodes[n], barIndex + 1).resume = barIndex + 1
      /\ Closed(episodes[n], barIndex + 1).reason = episodes[n].reason
  BY DEF Closed
<1>8. ~latched' /\ config' = config /\ barIndex' = barIndex + 1
  BY <1>2, RearmEffect
<1> QED BY <1>2, <1>6, <1>7, <1>8

(* A trip appends an open episode.                                           *)
LEMMA TripShape ==
  ASSUME TypeInv, EpisodesFollowTheSwitch, NEW e \in Equities, NEW r \in Reasons,
         ~latched, MarkBar(e), Trip(e, r), NEW n, n = Len(episodes)
  PROVE  /\ latched' /\ config' = config /\ barIndex' = barIndex + 1
         /\ haltBar' = barIndex + 1
         /\ DOMAIN episodes' = 1..n + 1 /\ Len(episodes') = n + 1
         /\ \A i \in 1..n : episodes'[i] = episodes[i]
         /\ episodes'[n + 1].halt = barIndex + 1
         /\ episodes'[n + 1].resume = None
         /\ episodes'[n + 1].reason = r
<1>1. Known(n) BY KnownFacts
<1>2. barIndex + 1 \in Bars
  BY <1>1, ConstantsAssumption DEF MarkBar, Bars, Known
<1>3. Opened(r) \in Episode
  BY <1>2 DEF Opened, Episode
<1>4. episodes' = Append(episodes, Opened(r)) /\ episodes \in Seq(Episode)
  BY TripEffect DEF TypeInv, TypeOK
<1>5. /\ Len(episodes') = n + 1 /\ DOMAIN episodes' = 1..n + 1
      /\ episodes'[n + 1] = Opened(r)
      /\ \A i \in 1..n : episodes'[i] = episodes[i]
  BY <1>3, <1>4, OpenEpisode
<1>6. Opened(r).halt = barIndex + 1 /\ Opened(r).resume = None /\ Opened(r).reason = r
  BY DEF Opened
<1>7. latched' /\ config' = config /\ barIndex' = barIndex + 1 /\ haltBar' = barIndex + 1
  BY TripEffect
<1> QED BY <1>5, <1>6, <1>7

LEMMA DurationsInit == Init => HaltDurations
BY DEF Init, HaltDurations

LEMMA DurationsStep ==
  TypeInv /\ EpisodesFollowTheSwitch /\ HaltDurations /\ [Next]_vars => HaltDurations'
<1> SUFFICES ASSUME TypeInv, EpisodesFollowTheSwitch, HaltDurations, [Next]_vars
             PROVE  HaltDurations'
  OBVIOUS
<1> DEFINE n == Len(episodes)
<1> DEFINE c == config.cooldown
<1>0. Known(n)
  BY KnownFacts
<1>1. /\ \A i \in 1..n : Lasts(episodes[i], barIndex)
      /\ \A i \in 1..n : i > 1 => Apart(episodes[i - 1], episodes[i])
  BY <1>0, DurationsUnfolded DEF Known
(* A closed episode has lasted as long as it ever will.                      *)
<1>2. ASSUME NEW i \in 1..n, episodes[i].resume # None
      PROVE  Lasts(episodes[i], barIndex + 1)
  BY <1>1, <1>2 DEF Lasts
<1>3. ASSUME NEW e \in Equities, Rearm(e) PROVE HaltDurations'
  <2>1. /\ latched /\ config' = config /\ barIndex' = barIndex + 1
        /\ DOMAIN episodes' = 1..n
        /\ \A i \in 1..n - 1 : episodes'[i] = episodes[i]
        /\ episodes'[n].halt = episodes[n].halt
        /\ episodes'[n].resume = barIndex + 1
    BY <1>3, RearmShape
  <2>2. n \in 1..n /\ episodes[n].resume = None /\ episodes[n].halt = haltBar
        /\ haltBar \in Nat /\ barIndex \in Nat
    <3>1. n \in Nat /\ n >= 1 /\ haltBar \in 1..barIndex /\ haltBar = episodes[n].halt
          /\ barIndex \in Nat
      BY <1>0, <2>1 DEF Known
    <3>2. n \in 1..n /\ haltBar \in Nat
      BY <3>1
    <3>3. episodes[n].resume = None
      BY <1>0, <2>1, <3>2 DEF Known
    <3> QED BY <3>1, <3>2, <3>3
  <2>3. c # None => barIndex + 1 - haltBar <= c
    BY <1>1, <2>2 DEF Lasts
  <2>4. c = None => config.recovery # None
    BY <1>3 DEF Rearm, RearmDue, CooldownOver, Recovered
  <2>5. c # None /\ config.recovery = None => barIndex + 1 - haltBar >= c
    BY <1>3 DEF Rearm, RearmDue, CooldownOver, Recovered
  <2>6. c \in Nat \cup {None} /\ None \notin Int
    BY <1>0 DEF Known
  <2>7. Lasts(episodes'[n], barIndex + 1)
    BY <2>1, <2>2, <2>3, <2>4, <2>5, <2>6 DEF Lasts
  <2>8. ASSUME NEW i \in 1..n - 1 PROVE Lasts(episodes'[i], barIndex + 1)
    <3>1. i \in 1..n /\ i # n
      BY <2>2
    <3>2. episodes[i].resume # None
      BY <1>0, <3>1 DEF Known
    <3> QED BY <1>2, <2>1, <3>1, <3>2
  <2>9. \A i \in 1..n : Lasts(episodes'[i], barIndex + 1)
    <3>1. \A i \in 1..n : i = n \/ i \in 1..n - 1
      BY <2>2
    <3> QED BY <2>7, <2>8, <3>1
  <2>10. \A i \in 1..n : i > 1 => Apart(episodes'[i - 1], episodes'[i])
    <3>1. ASSUME NEW i \in 1..n, i > 1
          PROVE  i - 1 \in 1..n - 1 /\ episodes'[i - 1] = episodes[i - 1]
                 /\ episodes'[i].halt = episodes[i].halt
      BY <3>1, <2>1, <2>2
    <3> QED BY <3>1, <1>1 DEF Apart
  <2>11. (\A i \in 1..n : Lasts(episodes[i], barIndex)')
         /\ (\A i \in 1..n : i > 1 => Apart(episodes[i - 1], episodes[i])')
    BY <2>1, <2>9, <2>10 DEF Lasts, Apart
  <2> QED BY <2>1, <2>11 DEF HaltDurations, Lasts, Apart
<1>4. ASSUME NEW e \in Equities, NEW r \in Reasons, ~latched, MarkBar(e), Trip(e, r)
      PROVE  HaltDurations'
  <2>1. /\ config' = config /\ barIndex' = barIndex + 1
        /\ DOMAIN episodes' = 1..n + 1
        /\ \A i \in 1..n : episodes'[i] = episodes[i]
        /\ episodes'[n + 1].halt = barIndex + 1
        /\ episodes'[n + 1].resume = None
    BY <1>4, TripShape
  <2>2. c \in (Nat \ {0}) \cup {None} /\ None \notin Int /\ barIndex \in Nat /\ n \in Nat
    BY <1>0 DEF Known
  <2>3. Lasts(episodes'[n + 1], barIndex + 1)
    BY <2>1, <2>2 DEF Lasts
  <2>4. \A i \in 1..n : episodes[i].resume # None
    BY <1>0, <1>4 DEF Known
  <2>5. \A i \in 1..n : Lasts(episodes'[i], barIndex + 1)
    BY <1>2, <2>1, <2>4
  <2>6. ASSUME n >= 1 PROVE Apart(episodes[n], episodes'[n + 1])
    <3>1. /\ episodes[n].halt \in Nat /\ episodes[n].resume \in Nat
          /\ episodes[n].halt < episodes[n].resume /\ episodes[n].resume <= barIndex
          /\ Lasts(episodes[n], barIndex)
      <4>1. n \in 1..n BY <2>2, <2>6
      <4>2. EpisodeTyped(episodes[n]) /\ episodes[n].resume # None /\ Lasts(episodes[n], barIndex)
        BY <1>0, <1>1, <2>4, <4>1 DEF Known
      <4>3. episodes[n].halt < episodes[n].resume /\ episodes[n].resume <= barIndex
        BY <1>0, <4>1, <4>2 DEF Known
      <4> QED BY <4>2, <4>3 DEF EpisodeTyped
    <3>2. c # None /\ config.recovery = None => episodes[n].resume - episodes[n].halt = c
      BY <2>2, <3>1 DEF Lasts
    <3> QED BY <2>1, <2>2, <3>1, <3>2 DEF Apart
  <2>7. \A i \in 1..n + 1 : i > 1 => Apart(episodes'[i - 1], episodes'[i])
    <3>1. ASSUME NEW i \in 1..n, i > 1 PROVE Apart(episodes'[i - 1], episodes'[i])
      <4>1. i - 1 \in 1..n BY <2>2, <3>1
      <4> QED BY <1>1, <2>1, <3>1, <4>1
    <3>2. n >= 1 => Apart(episodes'[n], episodes'[n + 1])
      <4>1. n >= 1 => n \in 1..n BY <2>2
      <4> QED BY <2>1, <2>6, <4>1
    <3>3. \A i \in 1..n + 1 : i > 1 => i \in 1..n \/ (i = n + 1 /\ i - 1 = n /\ n >= 1)
      BY <2>2
    <3> QED BY <3>1, <3>2, <3>3
  <2>8. \A i \in 1..n + 1 : Lasts(episodes'[i], barIndex + 1)
    <3>1. \A i \in 1..n + 1 : i = n + 1 \/ i \in 1..n
      BY <2>2
    <3> QED BY <2>3, <2>5, <3>1
  <2>9. (\A i \in 1..n + 1 : Lasts(episodes[i], barIndex)')
        /\ (\A i \in 1..n + 1 : i > 1 => Apart(episodes[i - 1], episodes[i])')
    BY <2>1, <2>7, <2>8 DEF Lasts, Apart
  <2> QED BY <2>1, <2>9 DEF HaltDurations, Lasts, Apart
<1>5. ASSUME NEW e \in Equities, Hold(e) PROVE HaltDurations'
  <2>1. config' = config /\ barIndex' = barIndex + 1 /\ episodes' = episodes
    BY <1>5, HoldEffect
  <2>2. ASSUME NEW i \in 1..n, episodes[i].resume = None
        PROVE  Lasts(episodes[i], barIndex + 1)
    <3>1. latched /\ haltBar \in Nat /\ haltBar # None /\ episodes[i].halt = haltBar
      <4>1. latched /\ i = n
        BY <1>0, <2>2 DEF Known
      <4>2. haltBar \in 1..barIndex /\ haltBar = episodes[n].halt /\ barIndex \in Nat
            /\ None \notin Int
        BY <1>0, <4>1 DEF Known
      <4>3. haltBar \in Nat /\ haltBar # None
        BY <4>2
      <4> QED BY <4>1, <4>2, <4>3
    <3>2. c # None => ~(barIndex + 1 - haltBar >= c)
      BY <1>5, <3>1 DEF Hold, RearmDue, CooldownOver
    <3>3. c \in Nat \cup {None} /\ barIndex \in Nat
      BY <1>0 DEF Known
    <3> QED BY <2>2, <3>1, <3>2, <3>3 DEF Lasts
  <2>3. \A i \in 1..n : Lasts(episodes[i], barIndex + 1)
    BY <1>2, <2>2
  <2>4. DOMAIN episodes = 1..n
    BY <1>0 DEF Known
  <2>5. (\A i \in 1..n : Lasts(episodes[i], barIndex)')
        /\ (\A i \in 1..n : i > 1 => Apart(episodes[i - 1], episodes[i])')
    BY <1>1, <2>1, <2>3 DEF Lasts, Apart
  <2> QED BY <2>1, <2>4, <2>5 DEF HaltDurations, Lasts, Apart
<1>6. CASE UNCHANGED vars
  BY <1>6 DEF vars, switchVars, engineVars, HaltDurations
<1> QED
  BY <1>3, <1>4, <1>5, <1>6, StepCases DEF TripOnDrawdown, TripOnDailyLoss, Reasons

(* A halt is in force as long as its configuration says, and the next one    *)
(* keeps its distance (Guardrails._rearm_due).                               *)
THEOREM DurationsCorrect == Spec => []HaltDurations
BY DurationsInit, DurationsStep, EpisodesInit, EpisodesStep, TypeInvariant, PTL DEF Spec

-----------------------------------------------------------------------------
(* What the peak remembers *)

(* TradingSince, of any list of episodes.                                    *)
Since(eps, i) == IF i = 1 THEN 1 ELSE eps[i - 1].resume

Among(p, from, to, ms) == \E j \in from..to : p = ms[j]
Above(p, from, to, ms) == \A j \in from..to : ms[j] <= p

(* The two halves of DrawdownHaltsAreExact, of any run.                      *)
Exact(eps, ms, c, i) ==
  eps[i].reason = "drawdown" =>
    \E j \in Since(eps, i)..eps[i].halt : Fell(ms[j], ms[eps[i].halt], c.maxDrawdown)

Unbroken(from, to, ms, c) == \A j \in from..to : ~Fell(ms[j], ms[to], c.maxDrawdown)

LEMMA ExactUnfolded ==
  DrawdownHaltsAreExact <=>
    /\ \A i \in DOMAIN episodes : Exact(episodes, marks, config, i)
    /\ ~latched /\ barIndex > 0 =>
         Unbroken(Since(episodes, Len(episodes) + 1), barIndex, marks, config)
BY DEF DrawdownHaltsAreExact, Exact, Unbroken, Since, TradingSince

LEMMA ExactUnfoldedNext ==
  DrawdownHaltsAreExact' <=>
    /\ \A i \in DOMAIN episodes' : Exact(episodes', marks', config', i)
    /\ ~latched' /\ barIndex' > 0 =>
         Unbroken(Since(episodes', Len(episodes') + 1), barIndex', marks', config')
BY DEF DrawdownHaltsAreExact, Exact, Unbroken, Since, TradingSince

LEMMA LivePeakUnfolded ==
  LivePeakIsTheHaltPeak <=>
    (latched /\ config.recovery # None =>
       /\ Among(peak, Since(episodes, Len(episodes)), haltBar, marks)
       /\ Above(peak, Since(episodes, Len(episodes)), barIndex, marks))
BY DEF LivePeakIsTheHaltPeak, Among, Above, Since, TradingSince

LEMMA LivePeakUnfoldedNext ==
  LivePeakIsTheHaltPeak' <=>
    (latched' /\ config'.recovery # None =>
       /\ Among(peak', Since(episodes', Len(episodes')), haltBar', marks')
       /\ Above(peak', Since(episodes', Len(episodes')), barIndex', marks'))
BY DEF LivePeakIsTheHaltPeak, Among, Above, Since, TradingSince

(* While trading, the peak is the greatest mark since trading (re)started:   *)
(* what the two properties above say of the bar a halt begins on rests on it.*)
PeakInv ==
  ~latched /\ barIndex > 0 =>
    /\ Among(peak, Since(episodes, Len(episodes) + 1), barIndex, marks)
    /\ Above(peak, Since(episodes, Len(episodes) + 1), barIndex, marks)

Remembers == PeakInv /\ DrawdownHaltsAreExact /\ LivePeakIsTheHaltPeak

(* A fall from a mark is a fall from any higher one.                         *)
LEMMA FellFromHigher ==
  ASSUME NEW a \in Int, NEW p \in Int, NEW e \in Int, NEW pct \in Percents,
         a <= p, Fell(a, e, pct)
  PROVE  Fell(p, e, pct)
<1> DEFINE d == p - a
<1>1. d \in Nat /\ 100 - pct \in Nat /\ p = a + d
  BY DEF Percents
<1>2. (100 - pct) * d \in Nat
  BY <1>1
<1>3. pct * p = pct * a + pct * d /\ (100 - pct) * d = 100 * d - pct * d
  BY <1>1 DEF Percents
<1>4. pct * a \in Int /\ pct * d \in Int /\ pct * p \in Int
  BY <1>1 DEF Percents
<1>5. a > 0 /\ 100 * (a - e) >= pct * a
  BY DEF Fell
<1>6. 100 * (p - e) = 100 * (a - e) + 100 * d
  BY <1>1
<1>7. 100 * d >= pct * d
  BY <1>1, <1>2, <1>3, <1>4
<1>8. 100 * (p - e) >= pct * p /\ p > 0
  BY <1>1, <1>3, <1>4, <1>5, <1>6, <1>7
<1> QED BY <1>8 DEF Fell

(* No mark is a fall from itself.                                            *)
LEMMA NoFallFromItself ==
  ASSUME NEW e \in Int, NEW pct \in Percents PROVE ~Fell(e, e, pct)
<1>1. e > 0 => pct * e > 0
  BY DEF Percents
<1>2. 100 * (e - e) = 0
  OBVIOUS
<1> QED BY <1>1, <1>2 DEF Fell, Percents

LEMMA MarksGrow ==
  ASSUME TypeInv, NEW e \in Int, marks' = Append(marks, e)
  PROVE  /\ \A j \in 1..barIndex : marks'[j] = marks[j] /\ marks[j] \in Int
         /\ marks'[barIndex + 1] = e
<1>1. marks \in Seq(Int) /\ Len(marks) = barIndex /\ barIndex \in Nat
  BY ConstantsAssumption DEF TypeInv, TypeOK
<1>2. \A j \in 1..barIndex : marks[j] \in Int
  BY <1>1
<1>3. \A j \in 1..barIndex : Append(marks, e)[j] = marks[j]
  BY <1>1
<1>4. Append(marks, e)[barIndex + 1] = e
  BY <1>1
<1> QED BY <1>2, <1>3, <1>4

(* Trading (re)started on a bar of the run, before every halt that ended it. *)
LEMMA SinceBounds ==
  ASSUME TypeInv, EpisodesFollowTheSwitch, NEW n, n = Len(episodes)
  PROVE  /\ \A i \in 1..n : /\ Since(episodes, i) \in Nat /\ Since(episodes, i) >= 1
                            /\ Since(episodes, i) <= episodes[i].halt
                            /\ episodes[i].halt \in Nat /\ episodes[i].halt <= barIndex
         /\ ~latched => /\ Since(episodes, n + 1) \in Nat /\ Since(episodes, n + 1) >= 1
                        /\ barIndex > 0 => Since(episodes, n + 1) <= barIndex
                        /\ barIndex = 0 => Since(episodes, n + 1) = 1
<1>1. Known(n) BY KnownFacts
<1>2. n \in Nat /\ barIndex \in Nat /\ None \notin Int
  BY <1>1 DEF Known
<1>3. ASSUME NEW i \in 1..n PROVE episodes[i].halt \in Nat /\ episodes[i].halt >= 1
  <2>1. episodes[i] \in Episode BY <1>3, <1>1 DEF Known, TypeInv, TypeOK
  <2> QED BY <2>1, ConstantsAssumption DEF Episode, Bars
<1>4. ASSUME NEW i \in 1..n, episodes[i].resume # None
      PROVE  /\ episodes[i].resume \in Nat /\ episodes[i].resume >= 1
             /\ episodes[i].halt <= barIndex /\ episodes[i].resume <= barIndex
  <2>1. EpisodeTyped(episodes[i]) BY <1>1 DEF Known
  <2>2. episodes[i].halt < episodes[i].resume /\ episodes[i].resume <= barIndex
    BY <1>1, <1>4 DEF Known
  <2> QED BY <1>2, <1>3, <1>4, <2>1, <2>2 DEF EpisodeTyped
<1>5. ASSUME NEW i \in 1..n, episodes[i].resume = None PROVE episodes[i].halt <= barIndex
  <2>1. latched /\ i = n BY <1>1, <1>5 DEF Known
  <2>2. haltBar \in 1..barIndex /\ haltBar = episodes[n].halt
    BY <1>1, <2>1 DEF Known
  <2> QED BY <1>2, <2>1, <2>2
<1>6. ASSUME NEW i \in 1..n, i > 1
      PROVE  /\ i - 1 \in 1..n /\ episodes[i - 1].resume # None
             /\ episodes[i - 1].resume < episodes[i].halt
  <2>1. i - 1 \in 1..n /\ i - 1 # n BY <1>2, <1>6
  <2>2. episodes[i - 1].resume # None BY <1>1, <2>1 DEF Known
  <2>3. episodes[i - 1].resume < episodes[i].halt
    BY <1>1, <1>6 DEF EpisodesFollowTheSwitch, Known
  <2> QED BY <2>1, <2>2, <2>3
<1>7. ASSUME NEW i \in 1..n
      PROVE  /\ Since(episodes, i) \in Nat /\ Since(episodes, i) >= 1
             /\ Since(episodes, i) <= episodes[i].halt
  <2>1. CASE i = 1 BY <2>1, <1>3 DEF Since
  <2>2. CASE i # 1
    <3>1. i > 1 BY <2>2, <1>2
    <3>2. Since(episodes, i) = episodes[i - 1].resume BY <2>2 DEF Since
    <3> QED BY <3>1, <3>2, <1>3, <1>4, <1>6
  <2> QED BY <2>1, <2>2
<1>8. ASSUME ~latched
      PROVE  /\ Since(episodes, n + 1) \in Nat /\ Since(episodes, n + 1) >= 1
             /\ barIndex > 0 => Since(episodes, n + 1) <= barIndex
             /\ barIndex = 0 => Since(episodes, n + 1) = 1
  <2>1. CASE n = 0
    <3>1. Since(episodes, n + 1) = 1 BY <2>1 DEF Since
    <3> QED BY <3>1, <1>2
  <2>2. CASE n # 0
    <3>1. n \in 1..n /\ n + 1 # 1 /\ n + 1 - 1 = n BY <2>2, <1>2
    <3>2. episodes[n].resume # None BY <1>1, <1>8, <3>1 DEF Known
    <3>3. Since(episodes, n + 1) = episodes[n].resume BY <3>1 DEF Since
    <3>4. /\ episodes[n].resume \in Nat /\ episodes[n].resume >= 1
          /\ episodes[n].resume <= barIndex
      BY <1>4, <3>1, <3>2
    <3> QED BY <3>3, <3>4, <1>2
  <2> QED BY <2>1, <2>2
<1>9. \A i \in 1..n : episodes[i].halt <= barIndex BY <1>4, <1>5
<1> QED BY <1>3, <1>7, <1>8, <1>9

(* The peak of the bar that ends is the greatest mark since trading started. *)
LEMMA NewPeakRemembers ==
  ASSUME TypeInv, EpisodesFollowTheSwitch, PeakInv, ~latched, NEW e \in Int,
         marks' = Append(marks, e), NEW n, n = Len(episodes)
  PROVE  /\ Among(NewPeak(e), Since(episodes, n + 1), barIndex + 1, marks')
         /\ Above(NewPeak(e), Since(episodes, n + 1), barIndex + 1, marks')
         /\ Since(episodes, n + 1) \in 1..barIndex + 1
<1> DEFINE t == Since(episodes, n + 1)
<1>1. barIndex \in Nat /\ None \notin Int
  BY ConstantsAssumption DEF TypeInv, TypeOK
<1>2. NewPeak(e) \in Int /\ NewPeak(e) >= e /\ (NewPeak(e) = e \/ NewPeak(e) = peak)
      /\ (barIndex > 0 => NewPeak(e) >= peak)
  BY NewPeakBounds DEF TypeInv
<1>3. t \in 1..barIndex + 1 /\ (barIndex > 0 => t \in 1..barIndex) /\ (barIndex = 0 => t = 1)
  BY <1>1, SinceBounds
<1>4. /\ \A j \in 1..barIndex : marks'[j] = marks[j] /\ marks[j] \in Int
      /\ marks'[barIndex + 1] = e
  BY MarksGrow
<1>5. barIndex > 0 => peak \in Int /\ Among(peak, t, barIndex, marks) /\ Above(peak, t, barIndex, marks)
  <2>1. barIndex > 0 => peak \in Int BY <1>1 DEF TypeInv, TypeOK
  <2> QED BY <2>1 DEF PeakInv
<1>6. Above(NewPeak(e), t, barIndex + 1, marks')
  <2> SUFFICES ASSUME NEW j \in t..barIndex + 1 PROVE marks'[j] <= NewPeak(e)
    BY DEF Above
  <2>1. CASE j = barIndex + 1 BY <2>1, <1>2, <1>4
  <2>2. CASE j # barIndex + 1
    <3>1. j \in 1..barIndex /\ j \in t..barIndex /\ barIndex > 0 BY <2>2, <1>1, <1>3
    <3>2. marks[j] <= peak BY <3>1, <1>5 DEF Above
    <3>3. marks'[j] = marks[j] /\ marks[j] \in Int /\ peak \in Int /\ peak <= NewPeak(e)
      BY <3>1, <1>2, <1>4, <1>5
    <3> QED BY <3>2, <3>3, <1>2
  <2> QED BY <2>1, <2>2
<1>7. Among(NewPeak(e), t, barIndex + 1, marks')
  <2>1. CASE NewPeak(e) = e
    <3>1. barIndex + 1 \in t..barIndex + 1 BY <1>1, <1>3
    <3> QED BY <2>1, <3>1, <1>4 DEF Among
  <2>2. CASE NewPeak(e) # e
    <3>1. barIndex > 0
      <4>1. barIndex = 0 => peak = None BY DEF TypeInv, TypeOK
      <4>2. barIndex = 0 => NewPeak(e) = e BY <4>1 DEF NewPeak
      <4> QED BY <4>2, <2>2, <1>1
    <3>2. PICK j \in t..barIndex : peak = marks[j] BY <3>1, <1>5 DEF Among
    <3>3. j \in t..barIndex + 1 /\ j \in 1..barIndex BY <1>1, <1>3, <3>1
    <3> QED BY <2>2, <3>2, <3>3, <1>2, <1>4 DEF Among
  <2> QED BY <2>1, <2>2
<1> QED BY <1>3, <1>6, <1>7

(* What the record says of a halt that began before this bar stays true.     *)
LEMMA ExactStays ==
  ASSUME TypeInv, EpisodesFollowTheSwitch, NEW i \in 1..Len(episodes),
         Exact(episodes, marks, config, i),
         NEW e \in Int, marks' = Append(marks, e), config' = config,
         Since(episodes', i) = Since(episodes, i),
         episodes'[i].halt = episodes[i].halt, episodes'[i].reason = episodes[i].reason
  PROVE  Exact(episodes', marks', config', i)
<1> SUFFICES ASSUME episodes[i].reason = "drawdown"
             PROVE  \E j \in Since(episodes, i)..episodes[i].halt :
                      Fell(marks'[j], marks'[episodes[i].halt], config.maxDrawdown)
  BY DEF Exact
<1>1. PICK j \in Since(episodes, i)..episodes[i].halt :
        Fell(marks[j], marks[episodes[i].halt], config.maxDrawdown)
  BY DEF Exact
<1>2. /\ Since(episodes, i) \in Nat /\ Since(episodes, i) >= 1
      /\ episodes[i].halt \in Nat /\ episodes[i].halt <= barIndex
      /\ Since(episodes, i) <= episodes[i].halt
  BY SinceBounds
<1>3. barIndex \in Nat BY ConstantsAssumption DEF TypeInv, TypeOK
<1>4. j \in 1..barIndex /\ episodes[i].halt \in 1..barIndex BY <1>2, <1>3
<1>5. marks'[j] = marks[j] /\ marks'[episodes[i].halt] = marks[episodes[i].halt]
  BY <1>4, MarksGrow
<1> QED BY <1>1, <1>5

LEMMA RemembersInit == Init => Remembers
<1> SUFFICES ASSUME Init PROVE Remembers
  OBVIOUS
<1>1. barIndex = 0 /\ latched = FALSE /\ DOMAIN episodes = {}
  BY DEF Init
<1>2. PeakInv BY <1>1 DEF PeakInv
<1>3. DrawdownHaltsAreExact BY <1>1 DEF DrawdownHaltsAreExact
<1>4. LivePeakIsTheHaltPeak BY <1>1 DEF LivePeakIsTheHaltPeak
<1> QED BY <1>2, <1>3, <1>4 DEF Remembers

LEMMA RemembersStep ==
  TypeInv /\ EpisodesFollowTheSwitch /\ Remembers /\ [Next]_vars => Remembers'
<1> SUFFICES ASSUME TypeInv, EpisodesFollowTheSwitch, Remembers, [Next]_vars
             PROVE  Remembers'
  OBVIOUS
<1> DEFINE n == Len(episodes)
<1> DEFINE t == Since(episodes, n + 1)
<1>0. Known(n) BY KnownFacts
<1>1. /\ n \in Nat /\ barIndex \in Nat /\ DOMAIN episodes = 1..n /\ None \notin Int
      /\ Equities \subseteq Int /\ config.maxDrawdown \in Percents
  BY <1>0, ConstantsAssumption DEF Known, TypeInv, TypeOK, ValidConfig
<1>2. \A i \in 1..n : Exact(episodes, marks, config, i)
  BY <1>1, ExactUnfolded DEF Remembers
<1>3. ASSUME NEW e \in Equities, Rearm(e) PROVE Remembers'
  <2>1. /\ latched /\ ~latched' /\ config' = config /\ barIndex' = barIndex + 1
        /\ DOMAIN episodes' = 1..n /\ Len(episodes') = n
        /\ \A i \in 1..n - 1 : episodes'[i] = episodes[i]
        /\ episodes'[n].halt = episodes[n].halt
        /\ episodes'[n].resume = barIndex + 1
        /\ episodes'[n].reason = episodes[n].reason
    BY <1>3, RearmShape
  <2>2. n >= 1 /\ peak' = e /\ marks' = Append(marks, e) /\ e \in Int
    <3>1. n >= 1 BY <1>0, <2>1 DEF Known
    <3> QED BY <3>1, <1>1, <1>3 DEF Rearm, MarkBar
  <2>3. marks'[barIndex + 1] = e BY <2>2, MarksGrow
  <2>4. Since(episodes', n + 1) = barIndex + 1
    BY <1>1, <2>1, <2>2 DEF Since
  <2>5. ASSUME NEW i \in 1..n PROVE Exact(episodes', marks', config', i)
    <3>1. Since(episodes', i) = Since(episodes, i)
      <4>1. i # 1 => i - 1 \in 1..n - 1 BY <1>1
      <4> QED BY <2>1, <4>1 DEF Since
    <3>2. episodes'[i].halt = episodes[i].halt /\ episodes'[i].reason = episodes[i].reason
      <4> HIDE DEF n
      <4>1. i = n \/ i \in 1..n - 1 BY <1>1
      <4> QED BY <2>1, <4>1
    <3> QED BY <1>2, <2>1, <2>2, <3>1, <3>2, ExactStays
  <2>6. \A j \in barIndex + 1..barIndex + 1 : j = barIndex + 1 BY <1>1
  <2>7. Unbroken(Since(episodes', n + 1), barIndex', marks', config')
    <3>1. ~Fell(e, e, config.maxDrawdown) BY <1>1, <2>2, NoFallFromItself
    <3> QED BY <2>1, <2>3, <2>4, <2>6, <3>1 DEF Unbroken
  <2>8. DrawdownHaltsAreExact'
    BY <2>1, <2>5, <2>7, ExactUnfoldedNext
  <2>9. LivePeakIsTheHaltPeak' BY <2>1, LivePeakUnfoldedNext
  <2>10. PeakInv'
    <3>1. barIndex + 1 \in barIndex + 1..barIndex + 1 /\ e <= e BY <1>1, <2>2
    <3> QED BY <2>1, <2>2, <2>3, <2>4, <2>6, <3>1 DEF PeakInv, Among, Above
  <2> QED BY <2>8, <2>9, <2>10 DEF Remembers
<1>4. ASSUME NEW e \in Equities, NEW r \in Reasons, ~latched, MarkBar(e), Trip(e, r),
             r = "drawdown" => DrawdownBreach(e)
      PROVE  Remembers'
  <2>1. /\ latched' /\ config' = config /\ barIndex' = barIndex + 1
        /\ haltBar' = barIndex + 1
        /\ DOMAIN episodes' = 1..n + 1 /\ Len(episodes') = n + 1
        /\ \A i \in 1..n : episodes'[i] = episodes[i]
        /\ episodes'[n + 1].halt = barIndex + 1
        /\ episodes'[n + 1].reason = r
    BY <1>4, TripShape
  <2>2. peak' = NewPeak(e) /\ marks' = Append(marks, e) /\ e \in Int
    BY <1>4, TripEffect
  <2>3. marks'[barIndex + 1] = e BY <2>2, MarksGrow
  <2>4. \A i \in 1..n + 1 : Since(episodes', i) = Since(episodes, i)
    <3>1. \A i \in 1..n + 1 : i # 1 => i - 1 \in 1..n BY <1>1
    <3> QED BY <2>1, <3>1 DEF Since
  <2>5. /\ Among(NewPeak(e), t, barIndex + 1, marks')
        /\ Above(NewPeak(e), t, barIndex + 1, marks')
    BY <1>4, <2>2, NewPeakRemembers DEF Remembers
  <2>6. Exact(episodes', marks', config', n + 1)
    <3>1. PICK j \in t..barIndex + 1 : NewPeak(e) = marks'[j] BY <2>5 DEF Among
    <3>2. r = "drawdown" => Fell(marks'[j], e, config.maxDrawdown)
      BY <1>4, <3>1 DEF DrawdownBreach
    <3>3. Since(episodes', n + 1) = t BY <1>1, <2>4
    <3> QED BY <2>1, <2>3, <3>1, <3>2, <3>3 DEF Exact
  <2>7. ASSUME NEW i \in 1..n PROVE Exact(episodes', marks', config', i)
    <3>1. i \in 1..n + 1 BY <1>1
    <3> QED BY <1>2, <2>1, <2>2, <2>4, <3>1, ExactStays
  <2>8. DrawdownHaltsAreExact'
    <3>1. \A i \in 1..n + 1 : i = n + 1 \/ i \in 1..n BY <1>1
    <3> QED BY <2>1, <2>6, <2>7, <3>1, ExactUnfoldedNext
  <2>9. LivePeakIsTheHaltPeak'
    <3>1. Since(episodes', n + 1) = t BY <1>1, <2>4
    <3> QED BY <2>1, <2>2, <2>5, <3>1, LivePeakUnfoldedNext
  <2>10. PeakInv' BY <2>1 DEF PeakInv
  <2> QED BY <2>8, <2>9, <2>10 DEF Remembers
<1>5. ASSUME NEW e \in Equities, Hold(e) PROVE Remembers'
  <2>1. /\ latched' = latched /\ haltBar' = haltBar /\ barIndex' = barIndex + 1
        /\ peak' = NewPeak(e) /\ marks' = Append(marks, e) /\ config' = config
        /\ episodes' = episodes /\ e \in Int
    BY <1>5, HoldEffect
  <2>2. /\ \A j \in 1..barIndex : marks'[j] = marks[j] /\ marks[j] \in Int
        /\ marks'[barIndex + 1] = e
    BY <2>1, MarksGrow
  <2>3. \A i \in 1..n : Exact(episodes', marks', config', i)
    BY <1>2, <2>1, ExactStays
  <2>4. CASE ~latched
    <3>1. /\ Among(NewPeak(e), t, barIndex + 1, marks')
          /\ Above(NewPeak(e), t, barIndex + 1, marks')
          /\ t \in 1..barIndex + 1
      BY <2>1, <2>4, NewPeakRemembers DEF Remembers
    <3>2. ~Fell(NewPeak(e), e, config.maxDrawdown)
      BY <1>5, <2>4 DEF Hold, DrawdownBreach
    <3>3. NewPeak(e) \in Int BY <2>1, NewPeakBounds DEF TypeInv
    <3>4. ASSUME NEW j \in t..barIndex + 1 PROVE ~Fell(marks'[j], e, config.maxDrawdown)
      <4>1. j \in 1..barIndex \/ j = barIndex + 1 BY <1>1, <3>1
      <4>2. marks'[j] \in Int BY <2>1, <2>2, <4>1
      <4>3. marks'[j] <= NewPeak(e) BY <3>1 DEF Above
      <4> QED BY <1>1, <2>1, <3>2, <3>3, <4>2, <4>3, FellFromHigher
    <3>5. Unbroken(t, barIndex', marks', config')
      BY <2>1, <2>2, <3>4 DEF Unbroken
    <3>6. DrawdownHaltsAreExact' BY <1>1, <2>1, <2>3, <3>5, ExactUnfoldedNext
    <3>7. PeakInv' BY <2>1, <3>1 DEF PeakInv
    <3>8. LivePeakIsTheHaltPeak' BY <2>1, <2>4, LivePeakUnfoldedNext
    <3> QED BY <3>6, <3>7, <3>8 DEF Remembers
  <2>5. CASE latched
    <3>1. DrawdownHaltsAreExact' BY <1>1, <2>1, <2>3, <2>5, ExactUnfoldedNext
    <3>2. PeakInv' BY <2>1, <2>5 DEF PeakInv
    <3>3. ASSUME config.recovery # None
          PROVE  /\ Among(peak', Since(episodes, n), haltBar, marks')
                 /\ Above(peak', Since(episodes, n), barIndex + 1, marks')
      <4>1. n \in 1..n /\ haltBar \in 1..barIndex
        <5>1. n >= 1 /\ haltBar \in 1..barIndex BY <1>0, <2>5 DEF Known
        <5> QED BY <5>1, <1>1
      <4>2. Since(episodes, n) \in Nat /\ Since(episodes, n) >= 1
        BY <4>1, SinceBounds
      <4>3. peak \in Int /\ barIndex > 0
        BY <1>1, <4>1 DEF TypeInv, TypeOK
      <4>4. NewPeak(e) > 0 /\ 100 * (NewPeak(e) - e) > config.recovery * NewPeak(e)
        <5>1. ~Recovered(e) BY <1>5, <2>5 DEF Hold, RearmDue
        <5>2. NewPeak(e) \in Int BY <2>1, NewPeakBounds DEF TypeInv
        <5>3. config.recovery \in 0..99
          BY <3>3, ConstantsAssumption DEF TypeInv, TypeOK, ValidConfig
        <5>4. config.recovery * NewPeak(e) \in Int BY <5>2, <5>3
        <5> QED BY <3>3, <2>1, <5>1, <5>2, <5>4 DEF Recovered
      <4>5. e < NewPeak(e) /\ NewPeak(e) = peak
        <5>1. config.recovery \in Nat
          <6>1. config.recovery \in 0..99
            BY <3>3, ConstantsAssumption DEF TypeInv, TypeOK, ValidConfig
          <6> QED BY <6>1
        <5>2. NewPeak(e) \in Nat
          BY <2>1, <4>4, NewPeakBounds DEF TypeInv
        <5>3. config.recovery * NewPeak(e) \in Nat BY <5>1, <5>2
        <5>4. e < NewPeak(e) BY <2>1, <4>4, <5>2, <5>3
        <5>5. NewPeak(e) = e \/ NewPeak(e) = peak BY <2>1, NewPeakBounds DEF TypeInv
        <5> QED BY <5>2, <5>4, <5>5, <2>1
      <4>6. /\ Among(peak, Since(episodes, n), haltBar, marks)
            /\ Above(peak, Since(episodes, n), barIndex, marks)
        BY <2>5, <3>3, LivePeakUnfolded DEF Remembers
      <4>7. Among(peak, Since(episodes, n), haltBar, marks')
        <5>1. PICK j \in Since(episodes, n)..haltBar : peak = marks[j] BY <4>6 DEF Among
        <5>2. j \in 1..barIndex BY <1>1, <4>1, <4>2
        <5> QED BY <2>2, <5>1, <5>2 DEF Among
      <4>8. Above(peak, Since(episodes, n), barIndex + 1, marks')
        <5> SUFFICES ASSUME NEW j \in Since(episodes, n)..barIndex + 1 PROVE marks'[j] <= peak
          BY DEF Above
        <5>1. CASE j = barIndex + 1 BY <5>1, <2>1, <2>2, <4>3, <4>5
        <5>2. CASE j # barIndex + 1
          <6>1. j \in Since(episodes, n)..barIndex /\ j \in 1..barIndex
            BY <5>2, <1>1, <4>2
          <6> QED BY <6>1, <2>2, <4>6 DEF Above
        <5> QED BY <5>1, <5>2
      <4> QED BY <2>1, <4>5, <4>7, <4>8
    <3>4. LivePeakIsTheHaltPeak' BY <2>1, <3>3, LivePeakUnfoldedNext
    <3> QED BY <3>1, <3>2, <3>4 DEF Remembers
  <2>6. latched \in BOOLEAN BY DEF TypeInv, TypeOK
  <2> QED BY <2>4, <2>5, <2>6
<1>6. CASE UNCHANGED vars
  BY <1>6 DEF vars, switchVars, engineVars, Remembers, PeakInv, DrawdownHaltsAreExact,
              LivePeakIsTheHaltPeak, TradingSince
<1>7. ASSUME NEW e \in Equities, TripOnDrawdown(e) PROVE Remembers'
  BY <1>4, <1>7 DEF TripOnDrawdown, Reasons
<1>8. ASSUME NEW e \in Equities, TripOnDailyLoss(e) PROVE Remembers'
  BY <1>4, <1>8 DEF TripOnDailyLoss, Reasons
<1> QED
  BY <1>3, <1>5, <1>6, <1>7, <1>8, StepCases

LEMMA RemembersAlways == Spec => []Remembers
BY RemembersInit, RemembersStep, EpisodesInit, EpisodesStep, TypeInvariant, PTL DEF Spec

(* A drawdown halt begins exactly when the book is a full max_drawdown below *)
(* its best mark since trading (re)started (Guardrails.halted).              *)
THEOREM DrawdownHaltsCorrect == Spec => []DrawdownHaltsAreExact
BY RemembersAlways, PTL DEF Remembers

(* Under a recovery threshold the peak does not move while halted            *)
(* (Guardrails._rearm_due).                                                  *)
THEOREM LivePeakCorrect == Spec => []LivePeakIsTheHaltPeak
BY RemembersAlways, PTL DEF Remembers

=============================================================================
