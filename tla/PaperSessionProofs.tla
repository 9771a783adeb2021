------------------------- MODULE PaperSessionProofs -------------------------
(***************************************************************************)
(* For every source, every pattern of late bars and failing fetches, any    *)
(* clock and every setting of the session: only completed bars are used,    *)
(* each timestamp once, and the session gives up on real silence only.      *)
(***************************************************************************)
EXTENDS PaperSession, FoldTheorems

Slice == [ts : Nat, bars : SUBSET Symbols]

Typed ==
  /\ now \in Nat
  /\ tape \in [Symbols -> SUBSET (0..LastTime)]
  /\ phase \in {"poll", "step", "sleep", "done"}
  /\ fresh \subseteq Slice
  /\ warmupPending \in BOOLEAN
  /\ sessionLog \in Seq([ts : Nat, at : Nat])
  /\ emptyPolls \in Nat /\ silence \in Nat
  /\ opened \in Nat \cup {None}

(* What a poll revealed and run() has still to step.                         *)
FreshIsNew ==
  phase = "step" =>
    /\ \A slice \in fresh : now >= slice.ts + 1 /\ slice.ts \notin seen
    /\ \A x, y \in fresh : x.ts = y.ts => x = y

(* PaperSession._seen covers everything primed or stepped.                   *)
SeenIsAll == Stepped \cup primed \subseteq seen

(* Bars are primed at the opening, and nothing is before it.                 *)
PrimedAtOpening == (opened = None \/ warmupPending) => primed = {}

(* The count, poll by poll, and the quota that is not spent yet.             *)
CountIsReal ==
  /\ phase \in {"poll", "sleep"} => silence = emptyPolls /\ silence < MaxEmptyPolls
  /\ phase = "step" => silence = 0 /\ emptyPolls = 0
  /\ phase # "done" /\ MaxNewBars # None => Len(sessionLog) < MaxNewBars
  /\ SilenceIsReal

SessionInv ==
  /\ Typed /\ FreshIsNew /\ SeenIsAll /\ PrimedAtOpening
  /\ OnlyCompletedBars /\ SteppedOnce /\ CountIsReal

-----------------------------------------------------------------------------
LEMMA LesserOfTwo ==
  ASSUME NEW x \in Int, NEW y \in Int
  PROVE  Min({x, y}) = IF x <= y THEN x ELSE y
<1> DEFINE least == IF x <= y THEN x ELSE y
<1>1. least \in {x, y} /\ \A z \in {x, y} : least <= z OBVIOUS
<1>2. \A m \in {x, y} : (\A z \in {x, y} : m <= z) => m = least OBVIOUS
<1> HIDE DEF least
<1>3. Min({x, y}) = least BY <1>1, <1>2 DEF Min
<1> QED BY <1>3 DEF least

(* What a poll reveals is complete, not seen before, and one slice a time.   *)
LEMMA FreshFacts ==
  ASSUME Typed, NEW failing \in SUBSET Symbols
  PROVE  /\ Fresh(failing) \subseteq Slice
         /\ \A slice \in Fresh(failing) : now >= slice.ts + 1 /\ slice.ts \notin seen
         /\ \A x, y \in Fresh(failing) : x.ts = y.ts => x = y
<1>1. ASSUME NEW s \in Symbols, NEW t \in Window(s, failing) PROVE t \in Nat /\ now >= t + 1
  BY <1>1, SessionAssumption DEF Window, Newest, Fetched, Complete, Typed
<1>2. ASSUME NEW slice \in Fresh(failing)
      PROVE  /\ slice = [ts |-> slice.ts, bars |-> {s \in Symbols : slice.ts \in Window(s, failing)}]
             /\ slice.ts \in (UNION {Window(s, failing) : s \in Symbols}) \ seen
  BY <1>2 DEF Fresh
<1>3. ASSUME NEW slice \in Fresh(failing)
      PROVE  slice.ts \in Nat /\ now >= slice.ts + 1 /\ slice.ts \notin seen
  <2> DEFINE revealed == UNION {Window(s, failing) : s \in Symbols}
  <2>1. slice.ts \in revealed \ seen BY <1>2
  <2>2. PICK s \in Symbols : slice.ts \in Window(s, failing) BY <2>1
  <2> HIDE DEF revealed
  <2>3. slice.ts \in Nat /\ now >= slice.ts + 1 BY <1>1, <2>2
  <2> QED BY <2>1, <2>3
<1>4. Fresh(failing) \subseteq Slice
  <2>1. ASSUME NEW slice \in Fresh(failing) PROVE slice \in Slice
    <3> DEFINE bars == {s \in Symbols : slice.ts \in Window(s, failing)}
    <3>1. slice = [ts |-> slice.ts, bars |-> bars] BY <1>2
    <3>2. bars \in SUBSET Symbols OBVIOUS
    <3>3. slice.ts \in Nat BY <1>3
    <3> HIDE DEF bars
    <3> QED BY <3>1, <3>2, <3>3 DEF Slice
  <2> QED BY <2>1
<1>5. \A x, y \in Fresh(failing) : x.ts = y.ts => x = y
  BY <1>2, Zenon
<1> QED BY <1>3, <1>4, <1>5

LEMMA SessionInit == Init => SessionInv
<1> SUFFICES ASSUME Init PROVE SessionInv
  OBVIOUS
<1>1. Typed BY SessionAssumption DEF Init, Typed
<1>2. Stepped = {} BY DEF Init, Stepped
<1>3. OnlyCompletedBars /\ SteppedOnce BY <1>2 DEF Init, OnlyCompletedBars, SteppedOnce
<1>4. CountIsReal BY SessionAssumption DEF Init, CountIsReal, SilenceIsReal
<1> QED BY <1>1, <1>2, <1>3, <1>4 DEF Init, SessionInv, FreshIsNew, SeenIsAll, PrimedAtOpening

-----------------------------------------------------------------------------
(* A quiet poll counts one more, and ends the session at the limit.          *)
LEMMA QuietPollStep ==
  ASSUME SessionInv, NEW failing \in SUBSET Symbols, QuietPoll(failing) PROVE SessionInv'
<1>1. /\ phase = "poll"
      /\ UNCHANGED <<now, tape, fresh, warmupPending, seen, primed, sessionLog, opened>>
      /\ emptyPolls' = emptyPolls + 1
      /\ silence' = Min({silence + 1, MaxEmptyPolls + 1})
      /\ phase' = IF emptyPolls' >= MaxEmptyPolls THEN "done" ELSE "sleep"
  BY DEF QuietPoll, Polling, sourceVars, sessionVars
<1>2. /\ silence = emptyPolls /\ silence < MaxEmptyPolls /\ silence \in Nat /\ emptyPolls \in Nat
      /\ MaxEmptyPolls \in Nat
  BY <1>1, SessionAssumption DEF SessionInv, CountIsReal, Typed
<1>3. silence' = silence + 1 /\ silence + 1 <= MaxEmptyPolls
  BY <1>1, <1>2, LesserOfTwo
<1>4. phase' \in {"done", "sleep"} BY <1>1
<1>5. Typed' BY <1>1, <1>2, <1>3, <1>4 DEF SessionInv, Typed
<1>6. CountIsReal'
  BY <1>1, <1>2, <1>3, <1>4 DEF SessionInv, CountIsReal, SilenceIsReal
<1>7. (FreshIsNew /\ SeenIsAll /\ PrimedAtOpening /\ OnlyCompletedBars /\ SteppedOnce)'
  BY <1>1, <1>4 DEF SessionInv, FreshIsNew, SeenIsAll, PrimedAtOpening, OnlyCompletedBars,
     SteppedOnce, Stepped
<1> QED BY <1>5, <1>6, <1>7 DEF SessionInv

(* The warmup takes what no step has seen.                                   *)
LEMMA AbsorbStep ==
  ASSUME SessionInv, NEW failing \in SUBSET Symbols, Absorb(failing) PROVE SessionInv'
<1>1. /\ phase = "poll" /\ phase' = "sleep" /\ warmupPending /\ ~warmupPending'
      /\ UNCHANGED <<now, tape, fresh, sessionLog>>
      /\ seen' = seen \cup Times(Fresh(failing)) /\ primed' = Times(Fresh(failing))
      /\ emptyPolls' = 0 /\ silence' = 0 /\ opened' = now
  BY DEF Absorb, Polling, sourceVars
<1>2. warmupPending' \in BOOLEAN BY DEF Absorb
<1>3. Typed' BY <1>1, <1>2 DEF SessionInv, Typed
<1>4. \A t \in primed' : now >= t + 1 /\ t \notin seen
  BY <1>1, FreshFacts DEF Times, SessionInv
<1>5. OnlyCompletedBars' BY <1>1, <1>4 DEF SessionInv, OnlyCompletedBars
<1>6. Stepped' = Stepped BY <1>1 DEF Stepped
<1>7. SteppedOnce' BY <1>1, <1>4, <1>6 DEF SessionInv, SteppedOnce, SeenIsAll
<1>8. SeenIsAll' BY <1>1, <1>6 DEF SessionInv, SeenIsAll
<1>9. PrimedAtOpening'
  <2>1. opened' # None BY <1>1, SessionAssumption DEF SessionInv, Typed
  <2> QED BY <1>1, <2>1 DEF PrimedAtOpening
<1>10. CountIsReal'
  BY <1>1, SessionAssumption DEF SessionInv, CountIsReal, SilenceIsReal
<1> QED BY <1>1, <1>3, <1>5, <1>7, <1>8, <1>9, <1>10 DEF SessionInv, FreshIsNew

LEMMA RevealStep ==
  ASSUME SessionInv, NEW failing \in SUBSET Symbols, Reveal(failing) PROVE SessionInv'
<1>1. /\ phase = "poll" /\ phase' = "step" /\ fresh' = Fresh(failing)
      /\ UNCHANGED <<now, tape, warmupPending, seen, primed, sessionLog>>
      /\ emptyPolls' = 0 /\ silence' = 0
      /\ opened' = IF opened = None THEN now ELSE opened
  BY DEF Reveal, Polling, sourceVars, sessionVars
<1>2. Typed' BY <1>1, FreshFacts DEF SessionInv, Typed
<1>3. FreshIsNew' BY <1>1, FreshFacts DEF SessionInv, FreshIsNew
<1>4. OnlyCompletedBars' BY <1>1 DEF SessionInv, OnlyCompletedBars, PrimedAtOpening
<1>5. (SeenIsAll /\ SteppedOnce)' BY <1>1 DEF SessionInv, SeenIsAll, SteppedOnce, Stepped
<1>6. PrimedAtOpening' BY <1>1 DEF SessionInv, PrimedAtOpening
<1>7. CountIsReal'
  BY <1>1, SessionAssumption DEF SessionInv, CountIsReal, SilenceIsReal
<1> QED BY <1>2, <1>3, <1>4, <1>5, <1>6, <1>7 DEF SessionInv

(* A step logs one fresh timestamp; the others of that poll stay new.        *)
LEMMA StepStep == ASSUME SessionInv, Step PROVE SessionInv'
<1>1. PICK slice \in fresh :
        /\ seen' = seen \cup {slice.ts}
        /\ sessionLog' = Append(sessionLog, [ts |-> slice.ts, at |-> now])
        /\ fresh' = fresh \ {slice}
  BY DEF Step
<1>2. /\ phase = "step" /\ phase' \in {"done", "sleep", "step"}
      /\ UNCHANGED <<now, tape, warmupPending, primed, emptyPolls, opened, silence>>
      /\ phase' = IF MaxNewBars # None /\ Len(sessionLog') >= MaxNewBars THEN "done"
                  ELSE IF fresh' = {} THEN "sleep" ELSE "step"
  BY DEF Step, sourceVars, checkVars
<1> DEFINE entry == [ts |-> slice.ts, at |-> now]
<1>3. /\ slice \in Slice /\ slice.ts \in Nat /\ now >= slice.ts + 1 /\ slice.ts \notin seen
      /\ \A other \in fresh' : other.ts # slice.ts /\ other.ts \notin seen /\ now >= other.ts + 1
  BY <1>1, <1>2 DEF SessionInv, Typed, FreshIsNew, Slice
<1>4. entry \in [ts : Nat, at : Nat] BY <1>3 DEF SessionInv, Typed
<1>5. /\ sessionLog' \in Seq([ts : Nat, at : Nat]) /\ Len(sessionLog') = Len(sessionLog) + 1
      /\ DOMAIN sessionLog = 1..Len(sessionLog) /\ Len(sessionLog) \in Nat
      /\ DOMAIN sessionLog' = 1..(Len(sessionLog) + 1)
      /\ \A i \in DOMAIN sessionLog : sessionLog'[i] = sessionLog[i]
      /\ sessionLog'[Len(sessionLog) + 1] = entry
  <2>1. sessionLog \in Seq([ts : Nat, at : Nat]) BY DEF SessionInv, Typed
  <2> HIDE DEF entry
  <2>2. sessionLog' = Append(sessionLog, entry) BY <1>1 DEF entry
  <2> QED BY <1>4, <2>1, <2>2
<1>6. entry.ts = slice.ts /\ entry.at = now OBVIOUS
<1> HIDE DEF entry
<1>7. Stepped' = Stepped \cup {slice.ts}
  <2>1. Stepped' \subseteq Stepped \cup {slice.ts} BY <1>5, <1>6 DEF Stepped
  <2>2. Stepped \subseteq Stepped' BY <1>5 DEF Stepped
  <2>3. Len(sessionLog) + 1 \in DOMAIN sessionLog' /\ sessionLog'[Len(sessionLog) + 1].ts = slice.ts
    BY <1>5, <1>6
  <2>4. slice.ts \in Stepped' BY <2>3 DEF Stepped
  <2> QED BY <2>1, <2>2, <2>4
<1>8. Typed' BY <1>1, <1>2, <1>5 DEF SessionInv, Typed
<1>9. FreshIsNew' BY <1>1, <1>2, <1>3 DEF SessionInv, FreshIsNew
<1>10. SeenIsAll' BY <1>1, <1>2, <1>7 DEF SessionInv, SeenIsAll
<1>11. PrimedAtOpening' BY <1>2 DEF SessionInv, PrimedAtOpening
<1>12. OnlyCompletedBars'
  <2>1. ASSUME NEW i \in DOMAIN sessionLog' PROVE sessionLog'[i].at >= sessionLog'[i].ts + 1
    <3>1. CASE i \in DOMAIN sessionLog
      BY <1>5, <3>1 DEF SessionInv, OnlyCompletedBars
    <3>2. CASE i = Len(sessionLog) + 1 BY <1>3, <1>5, <1>6, <3>2
    <3> QED BY <1>5, <3>1, <3>2
  <2>2. \A t \in primed' : opened' >= t + 1
    BY <1>2 DEF SessionInv, OnlyCompletedBars
  <2> QED BY <2>1, <2>2 DEF OnlyCompletedBars
<1>13. SteppedOnce'
  <2>1. \A i \in DOMAIN sessionLog : sessionLog[i].ts # slice.ts
    BY <1>3 DEF SessionInv, SeenIsAll, Stepped
  <2>2. \A i, j \in DOMAIN sessionLog' : sessionLog'[i].ts = sessionLog'[j].ts => i = j
    BY <1>5, <1>6, <2>1 DEF SessionInv, SteppedOnce
  <2>3. (Stepped \cap primed)' = {}
    BY <1>2, <1>3, <1>7 DEF SessionInv, SteppedOnce, SeenIsAll
  <2> QED BY <2>2, <2>3 DEF SteppedOnce
<1>14. CountIsReal'
  <2>1. CASE MaxNewBars = None
    BY <1>2, <2>1, SessionAssumption DEF SessionInv, CountIsReal, SilenceIsReal
  <2>2. CASE MaxNewBars # None
    <3>1. MaxNewBars \in Nat /\ Len(sessionLog) < MaxNewBars
      BY <1>2, <2>2, SessionAssumption DEF SessionInv, CountIsReal
    <3> QED BY <1>2, <1>5, <2>2, <3>1, SessionAssumption
            DEF SessionInv, CountIsReal, SilenceIsReal
  <2> QED BY <2>1, <2>2
<1> QED BY <1>8, <1>9, <1>10, <1>11, <1>12, <1>13, <1>14 DEF SessionInv

LEMMA SleepStep == ASSUME SessionInv, Sleep PROVE SessionInv'
<1>1. PICK late \in 0..MaxOversleep : now' = Min({now + 1 + late, LastTime + 1})
  BY DEF Sleep
<1>2. /\ phase = "sleep" /\ phase' = "poll"
      /\ UNCHANGED <<tape, fresh, warmupPending, seen, primed, sessionLog, emptyPolls, opened,
                     silence>>
  BY DEF Sleep, sessionVars, checkVars
<1>3. now' \in Nat
  <2>1. now + 1 + late \in Nat /\ LastTime + 1 \in Nat
    BY SessionAssumption DEF SessionInv, Typed
  <2> QED BY <1>1, <2>1, LesserOfTwo
<1>4. Typed' BY <1>2, <1>3 DEF SessionInv, Typed
<1>5. (FreshIsNew /\ SeenIsAll /\ PrimedAtOpening /\ OnlyCompletedBars /\ SteppedOnce)'
  BY <1>2 DEF SessionInv, FreshIsNew, SeenIsAll, PrimedAtOpening, OnlyCompletedBars,
     SteppedOnce, Stepped
<1>6. CountIsReal' BY <1>2 DEF SessionInv, CountIsReal, SilenceIsReal
<1> QED BY <1>4, <1>5, <1>6 DEF SessionInv

LEMMA SessionStep == SessionInv /\ [Next]_vars => SessionInv'
<1> SUFFICES ASSUME SessionInv, [Next]_vars PROVE SessionInv'
  OBVIOUS
<1>1. CASE UNCHANGED vars \/ Release
  <2>1. UNCHANGED <<now, tape, phase, fresh, warmupPending, seen, primed, sessionLog, emptyPolls,
                    opened, silence>>
    BY <1>1 DEF vars, Release, sourceVars, sessionVars, checkVars
  <2> QED BY <2>1 DEF SessionInv, Typed, FreshIsNew, SeenIsAll, PrimedAtOpening,
             OnlyCompletedBars, SteppedOnce, Stepped, CountIsReal, SilenceIsReal
<1>2. CASE Session
  BY <1>2, StepStep, SleepStep, QuietPollStep, AbsorbStep, RevealStep DEF Session
<1> QED BY <1>1, <1>2 DEF Next

LEMMA SessionAlways == Spec => []SessionInv
BY SessionInit, SessionStep, PTL DEF Spec

-----------------------------------------------------------------------------
(* Histories *)

Rising(h) == \A i, j \in DOMAIN h : i < j => h[i] < h[j]

(* A history is part of what the session has seen, and nothing is seen       *)
(* before the opening.                                                       *)
HistoryInv ==
  /\ seen \subseteq Nat
  /\ history \in [Symbols -> Seq(Nat)]
  /\ \A s \in Symbols : IsInjective(history[s]) /\ Range(history[s]) \subseteq seen
  /\ opened = None => seen = {}
  /\ warmupPending => opened = None
  /\ phase = "step" => opened # None

LEMMA RisingIsInjective == ASSUME NEW h \in Seq(Nat), Rising(h) PROVE IsInjective(h)
<1>1. ASSUME NEW i \in DOMAIN h, NEW j \in DOMAIN h, h[i] = h[j] PROVE i = j
  <2>1. h[i] \in Nat /\ h[j] \in Nat /\ i \in Nat /\ j \in Nat OBVIOUS
  <2>2. ~(i < j) /\ ~(j < i) BY <1>1, <2>1 DEF Rising
  <2> QED BY <2>1, <2>2
<1> QED BY <1>1 DEF IsInjective

LEMMA RankedHistory ==
  ASSUME NEW T \in SUBSET Nat, IsFiniteSet(T)
  PROVE  Ranked(T) \in Seq(Nat) /\ Range(Ranked(T)) = T /\ Rising(Ranked(T))
<1> DEFINE r == Ranked(T)
           n == Cardinality(T)
<1>1. /\ n \in Nat /\ r \in [1..n -> T] /\ \A t \in T : \E j \in 1..n : r[j] = t
      /\ \A j, k \in 1..n : j < k => r[j] < r[k]
  BY RankedLists
<1> HIDE DEF r, n
<1>2. r \in [1..n -> Nat] BY <1>1
<1>3. r \in Seq(Nat) /\ DOMAIN r = 1..n BY <1>1, <1>2
<1>4. Range(r) = T BY <1>1, <1>3 DEF Range
<1>5. Rising(r) BY <1>1, <1>3 DEF Rising
<1> QED BY <1>3, <1>4, <1>5 DEF r

LEMMA JoinedHistory ==
  ASSUME NEW h \in Seq(Nat), NEW r \in Seq(Nat), IsInjective(h), IsInjective(r),
         Range(h) \cap Range(r) = {}
  PROVE  /\ h \o r \in Seq(Nat) /\ Range(h \o r) = Range(h) \cup Range(r)
         /\ IsInjective(h \o r)
<1> DEFINE g == h \o r
           m == Len(h)
           n == Len(r)
<1>1. /\ m \in Nat /\ n \in Nat /\ g \in Seq(Nat) /\ DOMAIN g = 1..(m + n)
      /\ DOMAIN h = 1..m /\ DOMAIN r = 1..n
      /\ \A i \in 1..m : g[i] = h[i]
      /\ \A i \in 1..(m + n) : ~(i <= m) => g[i] = r[i - m]
  OBVIOUS
<1> HIDE DEF g, m, n
<1>2. \A i \in 1..(m + n) : i \in 1..m \/ (~(i <= m) /\ i - m \in 1..n) BY <1>1
<1>3. \A j \in 1..n : j + m \in 1..(m + n) /\ ~(j + m <= m) /\ (j + m) - m = j BY <1>1
<1>4. Range(g) = Range(h) \cup Range(r)
  <2>1. \A i \in 1..(m + n) : g[i] \in Range(h) \cup Range(r) BY <1>1, <1>2 DEF Range
  <2>2. \A i \in 1..m : i \in 1..(m + n) BY <1>1
  <2>3. \A i \in 1..m : h[i] \in Range(g) BY <1>1, <2>2 DEF Range
  <2>4. ASSUME NEW j \in 1..n PROVE r[j] \in Range(g)
    <3>1. j + m \in 1..(m + n) /\ g[j + m] = r[j] BY <1>1, <1>3
    <3> QED BY <1>1, <3>1 DEF Range
  <2>5. Range(h) \subseteq Range(g) /\ Range(r) \subseteq Range(g) BY <1>1, <2>3, <2>4 DEF Range
  <2>6. Range(g) \subseteq Range(h) \cup Range(r) BY <1>1, <2>1 DEF Range
  <2> QED BY <2>5, <2>6
<1>5. IsInjective(g)
  <2>1. SUFFICES ASSUME NEW i \in 1..(m + n), NEW j \in 1..(m + n), g[i] = g[j] PROVE i = j
    BY <1>1 DEF IsInjective
  <2>2. CASE i \in 1..m /\ j \in 1..m BY <1>1, <2>1, <2>2 DEF IsInjective
  <2>3. CASE i - m \in 1..n /\ j - m \in 1..n /\ ~(i <= m) /\ ~(j <= m)
    <3>1. r[i - m] = r[j - m] BY <1>1, <2>1, <2>3
    <3>2. i - m = j - m BY <1>1, <2>3, <3>1 DEF IsInjective
    <3> QED BY <1>1, <3>2
  <2>4. CASE i \in 1..m /\ j - m \in 1..n /\ ~(j <= m) BY <1>1, <2>1, <2>4 DEF Range
  <2>5. CASE j \in 1..m /\ i - m \in 1..n /\ ~(i <= m) BY <1>1, <2>1, <2>5 DEF Range
  <2> QED BY <1>2, <2>2, <2>3, <2>4, <2>5
<1> QED BY <1>1, <1>4, <1>5 DEF g

LEMMA LongerHistory ==
  ASSUME NEW h \in Seq(Nat), NEW t \in Nat, t \notin Range(h), IsInjective(h)
  PROVE  /\ Append(h, t) \in Seq(Nat) /\ Range(Append(h, t)) = Range(h) \cup {t}
         /\ IsInjective(Append(h, t))
         /\ Rising(h) /\ (\A x \in Range(h) : x < t) => Rising(Append(h, t))
<1> DEFINE g == Append(h, t)
           n == Len(h)
<1>1. /\ n \in Nat /\ g \in Seq(Nat) /\ DOMAIN g = 1..(n + 1) /\ DOMAIN h = 1..n
      /\ \A i \in 1..n : g[i] = h[i]
      /\ g[n + 1] = t
  OBVIOUS
<1> HIDE DEF g, n
<1>2. \A i \in 1..(n + 1) : i \in 1..n \/ i = n + 1 BY <1>1
<1>3. Range(g) = Range(h) \cup {t}
  <2>1. \A i \in 1..n : i \in 1..(n + 1) BY <1>1
  <2>2. n + 1 \in 1..(n + 1) BY <1>1
  <2> QED BY <1>1, <1>2, <2>1, <2>2 DEF Range
<1>4. IsInjective(g) BY <1>1, <1>2 DEF IsInjective, Range
<1>5. ASSUME Rising(h), \A x \in Range(h) : x < t PROVE Rising(g)
  <2>1. SUFFICES ASSUME NEW i \in 1..(n + 1), NEW j \in 1..(n + 1), i < j PROVE g[i] < g[j]
    BY <1>1 DEF Rising
  <2>2. i \in 1..n BY <1>1, <2>1
  <2>3. CASE j \in 1..n BY <1>1, <1>5, <2>1, <2>2, <2>3 DEF Rising
  <2>4. CASE j = n + 1
    <3>1. g[i] \in Range(h) BY <1>1, <2>2 DEF Range
    <3> QED BY <1>1, <1>5, <2>4, <3>1
  <2> QED BY <1>2, <2>3, <2>4
<1> QED BY <1>1, <1>3, <1>4, <1>5 DEF g

(* A window is a finite set of intervals.                                    *)
LEMMA WindowTypes ==
  ASSUME Typed, NEW failing \in SUBSET Symbols, NEW s \in Symbols
  PROVE  Window(s, failing) \in SUBSET Nat /\ IsFiniteSet(Window(s, failing))
<1>1. Window(s, failing) \subseteq tape[s]
  BY DEF Window, Newest, Fetched
<1>2. tape[s] \subseteq 0..LastTime BY DEF Typed
<1>3. LastTime \in Nat BY SessionAssumption
<1>4. IsFiniteSet(0..LastTime) BY <1>3, FS_Interval
<1>5. Window(s, failing) \in SUBSET (0..LastTime) BY <1>1, <1>2
<1> QED BY <1>3, <1>4, <1>5, FS_Subset

(* The slices that carry a symbol's bar are its window, less what was seen.  *)
LEMMA FreshOf ==
  ASSUME NEW failing, NEW s \in Symbols
  PROVE  /\ \A slice \in Fresh(failing) :
              s \in slice.bars => slice.ts \in Window(s, failing) \ seen
         /\ \A t \in Window(s, failing) \ seen :
              \E slice \in Fresh(failing) : slice.ts = t /\ s \in slice.bars
         /\ Times({slice \in Fresh(failing) : s \in slice.bars}) = Window(s, failing) \ seen
<1> DEFINE revealed == (UNION {Window(x, failing) : x \in Symbols}) \ seen
           slice_(t) == [ts |-> t, bars |-> {x \in Symbols : t \in Window(x, failing)}]
<1>1. Fresh(failing) = {slice_(t) : t \in revealed} BY DEF Fresh
<1>2. \A t : slice_(t).ts = t /\ (s \in slice_(t).bars <=> t \in Window(s, failing)) OBVIOUS
<1>3. \A t \in revealed : t \notin seen OBVIOUS
<1>4. \A t \in Window(s, failing) \ seen : t \in revealed OBVIOUS
<1> HIDE DEF revealed, slice_
<1>5. \A slice \in Fresh(failing) :
        s \in slice.bars => slice.ts \in Window(s, failing) \ seen
  BY <1>1, <1>2, <1>3
<1>6. \A t \in Window(s, failing) \ seen :
        \E slice \in Fresh(failing) : slice.ts = t /\ s \in slice.bars
  BY <1>1, <1>2, <1>4
<1> QED BY <1>5, <1>6 DEF Times

(* What the warmup makes of the histories.                                   *)
LEMMA PrimedHistory ==
  ASSUME SessionInv, HistoryInv, NEW failing \in SUBSET Symbols, NEW s \in Symbols, NEW h,
         h = Primed(Fresh(failing))[s]
  PROVE  /\ h \in Seq(Nat) /\ IsInjective(h)
         /\ Range(h) = Range(history[s]) \cup (Window(s, failing) \ seen)
         /\ history[s] = <<>> => Rising(h)
<1> DEFINE T == Window(s, failing) \ seen
<1>1. T \in SUBSET Nat /\ IsFiniteSet(T)
  BY WindowTypes, FS_Subset DEF SessionInv
<1>2. Times({slice \in Fresh(failing) : s \in slice.bars}) = T BY FreshOf
<1>3. h = history[s] \o Ranked(T) BY <1>2 DEF Primed
<1>4. history[s] \in Seq(Nat) /\ IsInjective(history[s]) /\ Range(history[s]) \cap T = {}
  BY DEF HistoryInv
<1> HIDE DEF T
<1> DEFINE r == Ranked(T)
<1>5. r \in Seq(Nat) /\ Range(r) = T /\ Rising(r) BY <1>1, RankedHistory
<1>6. IsInjective(r) BY <1>5, RisingIsInjective
<1>7. h = history[s] \o r BY <1>3
<1> HIDE DEF r
<1>8. h \in Seq(Nat) /\ Range(h) = Range(history[s]) \cup Range(r) /\ IsInjective(h)
  BY <1>4, <1>5, <1>6, <1>7, JoinedHistory
<1>9. history[s] = <<>> => h = r BY <1>5, <1>7
<1> QED BY <1>5, <1>8, <1>9 DEF T

(* What a step makes of them.                                                *)
LEMMA ExtendedHistory ==
  ASSUME SessionInv, HistoryInv, phase = "step", NEW slice \in fresh, NEW s \in Symbols, NEW h,
         h = Extended(slice)[s]
  PROVE  /\ h \in Seq(Nat) /\ IsInjective(h)
         /\ Range(h) = Range(history[s]) \cup (IF s \in slice.bars THEN {slice.ts} ELSE {})
         /\ /\ Rising(history[s])
            /\ s \in slice.bars => \A x \in Range(history[s]) : x < slice.ts
            => Rising(h)
<1>1. slice.ts \in Nat /\ slice.ts \notin seen
  BY DEF SessionInv, Typed, FreshIsNew, Slice
<1>2. /\ history[s] \in Seq(Nat) /\ IsInjective(history[s])
      /\ slice.ts \notin Range(history[s])
  BY <1>1 DEF HistoryInv
<1>3. h = IF s \in slice.bars THEN Append(history[s], slice.ts) ELSE history[s] BY DEF Extended
<1>4. CASE s \in slice.bars BY <1>1, <1>2, <1>3, <1>4, LongerHistory
<1>5. CASE s \notin slice.bars BY <1>2, <1>3, <1>5
<1> QED BY <1>4, <1>5

LEMMA HistoryInit == Init => HistoryInv
<1> SUFFICES ASSUME Init PROVE HistoryInv
  OBVIOUS
<1>1. seen = {} /\ opened = None /\ history = [s \in Symbols |-> <<>>] /\ phase = "poll" BY DEF Init
<1>2. \A s \in Symbols : history[s] = <<>> /\ history[s] \in Seq(Nat) BY <1>1
<1>3. history \in [Symbols -> Seq(Nat)] BY <1>1, <1>2
<1>4. \A s \in Symbols : IsInjective(history[s]) /\ Range(history[s]) = {}
  BY <1>2 DEF IsInjective, Range
<1> QED BY <1>1, <1>3, <1>4 DEF HistoryInv

LEMMA HistoryStep == ASSUME SessionInv, HistoryInv, [Next]_vars PROVE HistoryInv'
<1>1. CASE UNCHANGED <<history, seen, warmupPending, opened>> /\ (phase' # "step" \/ phase' = phase)
  BY <1>1 DEF HistoryInv
<1>2. ASSUME NEW failing \in SUBSET Symbols, Absorb(failing) PROVE HistoryInv'
  <2>1. /\ history' = Primed(Fresh(failing)) /\ seen' = seen \cup Times(Fresh(failing))
        /\ opened' = now /\ ~warmupPending' /\ phase' = "sleep"
    BY <1>2 DEF Absorb
  <2>2. ASSUME NEW s \in Symbols
        PROVE  /\ history'[s] \in Seq(Nat) /\ IsInjective(history'[s])
               /\ Range(history'[s]) \subseteq seen'
    <3>1. /\ history'[s] \in Seq(Nat) /\ IsInjective(history'[s])
          /\ Range(history'[s]) = Range(history[s]) \cup (Window(s, failing) \ seen)
      BY <2>1, PrimedHistory
    <3>2. Window(s, failing) \ seen \subseteq Times(Fresh(failing))
      BY FreshOf DEF Times
    <3> QED BY <2>1, <3>1, <3>2 DEF HistoryInv
  <2>3. history' \in [Symbols -> Seq(Nat)]
    <3>1. history' = [s \in Symbols |-> history'[s]] BY <2>1 DEF Primed
    <3> QED BY <2>2, <3>1
  <2>4. opened' # None BY <2>1, SessionAssumption DEF SessionInv, Typed
  <2>5. Times(Fresh(failing)) \subseteq Nat BY FreshFacts DEF SessionInv, Times, Slice
  <2> QED BY <2>1, <2>2, <2>3, <2>4, <2>5 DEF HistoryInv
<1>3. ASSUME NEW failing \in SUBSET Symbols, Reveal(failing) PROVE HistoryInv'
  <2>1. /\ UNCHANGED <<history, seen, warmupPending>> /\ ~warmupPending
        /\ opened' = IF opened = None THEN now ELSE opened
    BY <1>3 DEF Reveal, sessionVars
  <2>2. opened' # None BY <2>1, SessionAssumption DEF SessionInv, Typed
  <2> QED BY <2>1, <2>2 DEF HistoryInv
<1>4. CASE Step
  <2>1. PICK slice \in fresh : history' = Extended(slice) /\ seen' = seen \cup {slice.ts}
    BY <1>4 DEF Step
  <2>2. phase = "step" /\ UNCHANGED <<warmupPending, opened>> BY <1>4 DEF Step, checkVars
  <2>3. ASSUME NEW s \in Symbols
        PROVE  /\ history'[s] \in Seq(Nat) /\ IsInjective(history'[s])
               /\ Range(history'[s]) \subseteq seen'
    BY <2>1, <2>2, ExtendedHistory DEF HistoryInv
  <2>4. history' \in [Symbols -> Seq(Nat)]
    <3>1. history' = [s \in Symbols |-> history'[s]] BY <2>1 DEF Extended
    <3> QED BY <2>3, <3>1
  <2>5. opened # None BY <2>2 DEF HistoryInv
  <2>6. slice.ts \in Nat BY <2>2 DEF SessionInv, Typed, Slice
  <2> QED BY <2>1, <2>2, <2>3, <2>4, <2>5, <2>6 DEF HistoryInv
<1>5. CASE Sleep \/ Release \/ (\E failing \in SUBSET Symbols : QuietPoll(failing)) \/ UNCHANGED vars
  <2>1. UNCHANGED <<history, seen, warmupPending, opened>> /\ (phase' # "step" \/ phase' = phase)
    BY <1>5 DEF Sleep, Release, QuietPoll, vars, sessionVars, checkVars
  <2> QED BY <1>1, <2>1
<1> QED BY <1>2, <1>3, <1>4, <1>5 DEF Next, Session
LEMMA HistoryAlways == Spec => []HistoryInv
<1>1. SessionInv /\ SessionInv' /\ HistoryInv /\ [Next]_vars => HistoryInv' BY HistoryStep
<1> QED BY <1>1, HistoryInit, SessionAlways, PTL DEF Spec

-----------------------------------------------------------------------------
(* A punctual symbol misses nothing *)

(* The bars of a symbol that trade after t and before p.                     *)
After(s, t, p) == {u \in tape[s] : u < p /\ u > t}

(* A bar the window of the opening, or the whole of it, was too short for.   *)
Old(s, t, p) == t < opened /\ Cardinality(After(s, t, p)) >= Lookback

(* A bar that is revealed and not stepped yet.                               *)
Coming(s, t) == phase = "step" /\ \E slice \in fresh : slice.ts = t /\ s \in slice.bars

(* Up to p every bar of the symbol is in its history, or too old, or coming, *)
(* and those to come are newer than those of the history.                    *)
WholeUpTo(s, p) ==
  /\ Rising(history[s])
  /\ \A t \in tape[s] : t < p => t \in Range(history[s]) \/ Old(s, t, p) \/ Coming(s, t)
  /\ phase = "step" =>
       \A slice \in fresh : s \in slice.bars => \A t \in Range(history[s]) : t < slice.ts

(* p is the instant of the last poll, which the next one is at most          *)
(* MaxOversleep + 1 intervals behind.                                        *)
LastPoll(p) ==
  /\ p <= now
  /\ phase = "poll" => now <= p + 1 + MaxOversleep
  /\ phase # "poll" => p = now
  /\ \A t \in seen : t < p

PunctualInv ==
  /\ now <= LastTime + 1
  /\ phase # "done" /\ opened # None =>
       \E p \in Nat : LastPoll(p) /\ \A s \in Symbols \ spoilt : WholeUpTo(s, p)

LEMMA AfterTypes ==
  ASSUME Typed, NEW s \in Symbols
  PROVE  \A t, p : /\ IsFiniteSet(After(s, t, p)) /\ Cardinality(After(s, t, p)) \in Nat
                   /\ \A q \in Nat : p \in Nat /\ p <= q =>
                        Cardinality(After(s, t, p)) <= Cardinality(After(s, t, q))
<1>1. tape[s] \subseteq 0..LastTime /\ LastTime \in Nat BY SessionAssumption DEF Typed
<1>2. IsFiniteSet(0..LastTime) BY <1>1, FS_Interval
<1>3. ASSUME NEW t, NEW p PROVE IsFiniteSet(After(s, t, p)) /\ Cardinality(After(s, t, p)) \in Nat
  <2>1. After(s, t, p) \in SUBSET (0..LastTime) BY <1>1 DEF After
  <2> QED BY <1>2, <2>1, FS_Subset, FS_CardinalityType
<1>4. ASSUME NEW t, NEW p \in Nat, NEW q \in Nat, p <= q
      PROVE  Cardinality(After(s, t, p)) <= Cardinality(After(s, t, q))
  <2>1. \A u \in tape[s] : u \in Nat BY <1>1
  <2>2. After(s, t, p) \in SUBSET After(s, t, q) BY <1>4, <2>1 DEF After
  <2> QED BY <1>3, <2>2, FS_Subset
<1> QED BY <1>3, <1>4

(* The newest bars before now, when nothing failed or was late.              *)
LEMMA PunctualWindow ==
  ASSUME Typed, NEW failing \in SUBSET Symbols, NEW s \in Symbols, s \notin failing,
         \A late \in withheld : late[1] # s
  PROVE  \A t : t \in Window(s, failing) <=>
                  t \in tape[s] /\ t < now /\ Cardinality(After(s, t, now)) < Lookback
<1>1. tape[s] \subseteq 0..LastTime /\ now \in Nat /\ LastTime \in Nat
  BY SessionAssumption DEF Typed
<1>2. \A t \in tape[s] : t \in Int /\ (t <= now /\ now >= t + 1 <=> t < now) BY <1>1
<1>3. \A t \in tape[s] : <<s, t>> \notin withheld
  <2>1. \A t : <<s, t>>[1] = s OBVIOUS
  <2> QED BY <2>1
<1> DEFINE done == {t \in tape[s] : t < now}
<1>4. {t \in Fetched(s) : Complete(t)} = done BY <1>2, <1>3 DEF Fetched, Complete
<1>5. \A t : {u \in done : u > t} = After(s, t, now) BY DEF After
<1>6. Window(s, failing) = Newest(done) BY <1>4 DEF Window
<1>7. \A t : t \in Newest(done) <=> t \in done /\ Cardinality({u \in done : u > t}) < Lookback
  BY DEF Newest
<1> QED BY <1>5, <1>6, <1>7

(* Between two polls that are not too far apart, nothing is lost.            *)
LEMMA NothingBetweenPolls ==
  ASSUME Typed, MaxOversleep < Lookback, NEW s \in Symbols, NEW p \in Nat,
         p <= now, now <= p + 1 + MaxOversleep
  PROVE  \A t \in tape[s] : t >= p => Cardinality(After(s, t, now)) < Lookback
<1> SUFFICES ASSUME NEW t \in tape[s], t >= p PROVE Cardinality(After(s, t, now)) < Lookback
  OBVIOUS
<1>1. /\ tape[s] \subseteq 0..LastTime /\ now \in Nat /\ LastTime \in Nat /\ t \in Nat
      /\ MaxOversleep \in Nat /\ Lookback \in Nat
  BY SessionAssumption DEF Typed
<1> DEFINE lo == t + 1
           hi == now - 1
<1>2. After(s, t, now) \in SUBSET (lo..hi) BY <1>1 DEF After
<1>3. lo \in Int /\ hi \in Int /\ (~(lo > hi) => hi - lo + 1 <= MaxOversleep) BY <1>1
<1> HIDE DEF lo, hi
<1>4. IsFiniteSet(lo..hi) /\ Cardinality(lo..hi) = IF lo > hi THEN 0 ELSE hi - lo + 1
  BY <1>3, FS_Interval
<1>5. Cardinality(After(s, t, now)) <= Cardinality(lo..hi) BY <1>2, <1>4, FS_Subset
<1>6. Cardinality(After(s, t, now)) \in Nat BY AfterTypes
<1>7. Cardinality(lo..hi) \in Int /\ Cardinality(lo..hi) <= MaxOversleep BY <1>1, <1>3, <1>4
<1> QED BY <1>1, <1>5, <1>6, <1>7

(* What a poll reveals of a punctual symbol is what its history misses, and  *)
(* newer than all of it.  opening is the instant the session opened at.      *)
LEMMA PolledBars ==
  ASSUME SessionInv, HistoryInv, PunctualInv, phase = "poll", MaxOversleep < Lookback,
         NEW failing \in SUBSET Symbols, Polling(failing), NEW s \in Symbols \ spoilt',
         NEW opening, opening = IF opened = None THEN now ELSE opened
  PROVE  /\ \A t \in tape[s] : t < now =>
              \/ t \in Range(history[s])
              \/ t < opening /\ Cardinality(After(s, t, now)) >= Lookback
              \/ t \in Window(s, failing) \ seen
         /\ \A t \in Window(s, failing) \ seen : \A x \in Range(history[s]) : x < t
         /\ Rising(history[s])
<1>1. s \notin failing /\ (\A late \in withheld : late[1] # s) /\ s \in Symbols \ spoilt
  BY DEF Polling
<1>2. \A t : t \in Window(s, failing) <=>
               t \in tape[s] /\ t < now /\ Cardinality(After(s, t, now)) < Lookback
  BY <1>1, PunctualWindow DEF SessionInv
<1>3. /\ now \in Nat /\ Lookback \in Nat /\ \A t \in tape[s] : t \in Nat
      /\ \A t : Cardinality(After(s, t, now)) \in Nat
      /\ Range(history[s]) \subseteq seen
  BY AfterTypes, SessionAssumption DEF SessionInv, Typed, HistoryInv
<1>4. CASE opened = None
  <2>1. seen = {} BY <1>4 DEF HistoryInv
  <2>2. Range(history[s]) = {} BY <1>3, <2>1
  <2>3. DOMAIN history[s] = {} BY <2>2 DEF Range
  <2>4. Rising(history[s]) BY <2>3 DEF Rising
  <2> QED BY <1>2, <1>3, <1>4, <2>1, <2>2, <2>4
<1>5. CASE opened # None
  <2>1. PICK p \in Nat : LastPoll(p) /\ WholeUpTo(s, p)
    BY <1>1, <1>5 DEF PunctualInv
  <2>2. p <= now /\ now <= p + 1 + MaxOversleep /\ \A t \in seen : t < p
    BY <2>1 DEF LastPoll
  <2>3. /\ Rising(history[s])
        /\ \A t \in tape[s] : t < p => t \in Range(history[s]) \/ Old(s, t, p)
    BY <2>1 DEF WholeUpTo, Coming
  <2>4. \A t \in tape[s] : t >= p => Cardinality(After(s, t, now)) < Lookback
    BY <2>2, NothingBetweenPolls DEF SessionInv
  <2>5. \A t : Old(s, t, p) => t < opening /\ Cardinality(After(s, t, now)) >= Lookback
    <3>1. SUFFICES ASSUME NEW t, Old(s, t, p)
                   PROVE  t < opening /\ Cardinality(After(s, t, now)) >= Lookback
      OBVIOUS
    <3>2. /\ Cardinality(After(s, t, p)) <= Cardinality(After(s, t, now))
          /\ Cardinality(After(s, t, p)) \in Nat
      BY <1>3, <2>2, AfterTypes DEF SessionInv
    <3> QED BY <1>3, <1>5, <3>1, <3>2 DEF Old
  <2>6. \A t \in tape[s] : t >= p => t \notin seen
    <3>1. SUFFICES ASSUME NEW t \in tape[s], t >= p, t \in seen PROVE FALSE
      OBVIOUS
    <3>2. t < p /\ t \in Nat BY <1>3, <2>2, <3>1
    <3> QED BY <3>1, <3>2
  <2>7. ASSUME NEW t \in tape[s], t < now
        PROVE  \/ t \in Range(history[s])
               \/ t < opening /\ Cardinality(After(s, t, now)) >= Lookback
               \/ t \in Window(s, failing) \ seen
    <3>1. CASE t < p BY <2>3, <2>5, <3>1
    <3>2. CASE ~(t < p)
      <4>1. t >= p BY <1>3, <3>2
      <4> QED BY <1>2, <2>4, <2>6, <2>7, <4>1
    <3> QED BY <3>1, <3>2
  <2>8. ASSUME NEW t \in Window(s, failing) \ seen, NEW x \in Range(history[s]) PROVE x < t
    <3>1. t \in tape[s] /\ t \in Nat /\ Cardinality(After(s, t, now)) < Lookback
      BY <1>2, <1>3, <2>8
    <3>2. ~(t < p)
      <4>1. SUFFICES ASSUME t < p PROVE FALSE OBVIOUS
      <4>2. t \notin Range(history[s]) BY <1>3, <2>8
      <4>3. Cardinality(After(s, t, now)) >= Lookback BY <2>3, <2>5, <3>1, <4>1, <4>2
      <4> QED BY <1>3, <3>1, <4>3
    <3>3. x < p /\ x \in Nat
      <4>1. x \in Nat BY <2>8 DEF HistoryInv, Range
      <4> QED BY <1>3, <2>2, <2>8, <4>1
    <3> QED BY <3>1, <3>2, <3>3
  <2> QED BY <2>3, <2>7, <2>8
<1> QED BY <1>4, <1>5

LEMMA PunctualInit == Init => PunctualInv
<1> SUFFICES ASSUME Init PROVE PunctualInv
  OBVIOUS
<1>1. now \in 0..LastTime /\ opened = None BY SessionAssumption DEF Init
<1>2. now <= LastTime + 1 BY <1>1, SessionAssumption
<1> QED BY <1>1, <1>2 DEF PunctualInv

(* What was seen before a poll is older than the poll.                       *)
LEMMA SeenIsPast ==
  ASSUME SessionInv, HistoryInv, PunctualInv, phase # "done"
  PROVE  \A t \in seen : t < now
<1> SUFFICES ASSUME NEW t \in seen PROVE t < now
  OBVIOUS
<1>1. t \in Nat /\ now \in Nat /\ opened # None BY DEF HistoryInv, SessionInv, Typed
<1>2. PICK p \in Nat : LastPoll(p) BY <1>1 DEF PunctualInv
<1>3. t < p /\ p <= now BY <1>2 DEF LastPoll
<1> QED BY <1>1, <1>3

(* A poll that reveals nothing shows that nothing is missing.                *)
LEMMA PunctualQuiet ==
  ASSUME SessionInv, HistoryInv, PunctualInv, MaxOversleep < Lookback,
         NEW failing \in SUBSET Symbols, QuietPoll(failing)
  PROVE  PunctualInv'
<1>1. /\ phase = "poll" /\ phase' \in {"done", "sleep"} /\ Polling(failing)
      /\ Fresh(failing) = {}
      /\ UNCHANGED <<now, tape, history, seen, opened>>
  BY DEF QuietPoll, Polling, sourceVars, sessionVars
<1>2. now <= LastTime + 1 /\ now \in Nat BY DEF PunctualInv, SessionInv, Typed
<1>3. CASE phase' = "sleep" /\ opened # None
  <2>1. LastPoll(now)' BY <1>1, <1>2, <1>3, SeenIsPast DEF LastPoll
  <2>2. ASSUME NEW s \in Symbols \ spoilt' PROVE WholeUpTo(s, now)'
    <3>1. Window(s, failing) \ seen = {} BY <1>1, FreshOf
    <3>2. /\ Rising(history[s])
          /\ \A t \in tape[s] : t < now =>
               t \in Range(history[s]) \/ (t < opened /\ Cardinality(After(s, t, now)) >= Lookback)
      BY <1>1, <1>3, <2>2, <3>1, PolledBars
    <3> QED BY <1>1, <1>3, <3>2 DEF WholeUpTo, Old, After
  <2> QED BY <1>1, <1>2, <2>1, <2>2 DEF PunctualInv
<1> QED BY <1>1, <1>2, <1>3 DEF PunctualInv

(* The warmup takes the whole window, which is all a history can miss.       *)
LEMMA PunctualAbsorb ==
  ASSUME SessionInv, HistoryInv, PunctualInv, MaxOversleep < Lookback,
         NEW failing \in SUBSET Symbols, Absorb(failing)
  PROVE  PunctualInv'
<1>1. /\ phase = "poll" /\ phase' = "sleep" /\ Polling(failing) /\ warmupPending
      /\ history' = Primed(Fresh(failing)) /\ seen' = seen \cup Times(Fresh(failing))
      /\ opened' = now /\ UNCHANGED <<now, tape>>
  BY DEF Absorb, Polling, sourceVars
<1>2. now <= LastTime + 1 /\ now \in Nat BY DEF PunctualInv, SessionInv, Typed
<1>3. opened = None /\ seen = {} BY <1>1 DEF HistoryInv
<1>4. LastPoll(now)'
  <2>1. \A t \in Times(Fresh(failing)) : t \in Nat /\ now >= t + 1
    BY FreshFacts DEF SessionInv, Times, Slice
  <2>2. \A t \in seen' : t < now BY <1>1, <1>2, <1>3, <2>1
  <2> QED BY <1>1, <1>2, <2>2 DEF LastPoll
<1>5. ASSUME NEW s \in Symbols \ spoilt' PROVE WholeUpTo(s, now)'
  <2>1. /\ \A t \in tape[s] : t < now =>
             \/ t \in Range(history[s])
             \/ t < now /\ Cardinality(After(s, t, now)) >= Lookback
             \/ t \in Window(s, failing) \ seen
    BY <1>1, <1>3, <1>5, PolledBars
  <2>2. history[s] = <<>>
    <3> DEFINE h == history[s]
    <3>1. h \in Seq(Nat) /\ Range(h) = {} BY <1>3 DEF HistoryInv
    <3>2. DOMAIN h = {} BY <3>1 DEF Range
    <3> HIDE DEF h
    <3>3. Len(h) \in Nat /\ DOMAIN h = 1..Len(h) BY <3>1
    <3>4. Len(h) = 0 BY <3>2, <3>3
    <3>5. h = <<>> BY <3>1, <3>4
    <3> QED BY <3>5 DEF h
  <2>3. /\ Range(history'[s]) = Range(history[s]) \cup (Window(s, failing) \ seen)
        /\ Rising(history'[s])
    BY <1>1, <2>2, PrimedHistory
  <2> QED BY <1>1, <2>1, <2>3 DEF WholeUpTo, Old, After
<1> QED BY <1>1, <1>2, <1>4, <1>5 DEF PunctualInv

(* A live poll leaves what it reveals to be stepped.                         *)
LEMMA PunctualReveal ==
  ASSUME SessionInv, HistoryInv, PunctualInv, MaxOversleep < Lookback,
         NEW failing \in SUBSET Symbols, Reveal(failing)
  PROVE  PunctualInv'
<1>1. /\ phase = "poll" /\ phase' = "step" /\ Polling(failing) /\ fresh' = Fresh(failing)
      /\ UNCHANGED <<now, tape, history, seen>>
      /\ opened' = IF opened = None THEN now ELSE opened
  BY DEF Reveal, Polling, sourceVars, sessionVars
<1>2. now <= LastTime + 1 /\ now \in Nat BY DEF PunctualInv, SessionInv, Typed
<1>3. LastPoll(now)' BY <1>1, <1>2, SeenIsPast DEF LastPoll
<1>4. ASSUME NEW s \in Symbols \ spoilt' PROVE WholeUpTo(s, now)'
  <2>1. /\ Rising(history[s])
        /\ \A t \in tape[s] : t < now =>
             \/ t \in Range(history[s])
             \/ t < opened' /\ Cardinality(After(s, t, now)) >= Lookback
             \/ t \in Window(s, failing) \ seen
        /\ \A t \in Window(s, failing) \ seen : \A x \in Range(history[s]) : x < t
    BY <1>1, <1>4, PolledBars
  <2>2. /\ \A slice \in Fresh(failing) :
             s \in slice.bars => slice.ts \in Window(s, failing) \ seen
        /\ \A t \in Window(s, failing) \ seen :
             \E slice \in Fresh(failing) : slice.ts = t /\ s \in slice.bars
    BY FreshOf
  <2>3. \A t \in Window(s, failing) \ seen : Coming(s, t)' BY <1>1, <2>2 DEF Coming
  <2>4. \A slice \in fresh' : s \in slice.bars => \A t \in Range(history'[s]) : t < slice.ts
    BY <1>1, <2>1, <2>2
  <2>5. \A t \in tape'[s] : t < now' =>
          t \in Range(history'[s]) \/ Old(s, t, now)' \/ Coming(s, t)'
    BY <1>1, <2>1, <2>3 DEF Old, After
  <2> QED BY <1>1, <2>1, <2>4, <2>5 DEF WholeUpTo
<1> QED BY <1>1, <1>2, <1>3, <1>4 DEF PunctualInv

(* A step appends the earliest bar that was to come.                         *)
LEMMA PunctualStep ==
  ASSUME SessionInv, HistoryInv, PunctualInv, Step PROVE PunctualInv'
<1>1. PICK slice \in fresh :
        /\ slice.ts = Min(Times(fresh))
        /\ history' = Extended(slice) /\ seen' = seen \cup {slice.ts}
        /\ fresh' = fresh \ {slice}
        /\ phase' = IF MaxNewBars # None /\ Len(sessionLog') >= MaxNewBars THEN "done"
                    ELSE IF fresh' = {} THEN "sleep" ELSE "step"
  BY DEF Step
<1>2. phase = "step" /\ UNCHANGED <<now, tape, opened, spoilt>>
  BY DEF Step, sourceVars, checkVars
<1>3. now <= LastTime + 1 /\ now \in Nat BY DEF PunctualInv, SessionInv, Typed
<1>4. CASE phase' = "done" BY <1>2, <1>3, <1>4 DEF PunctualInv
<1>5. CASE phase' # "done"
  <2>1. phase' = IF fresh' = {} THEN "sleep" ELSE "step" BY <1>1, <1>5
  <2>2. \A other \in fresh : other.ts \in Nat /\ other.ts \notin seen /\ now >= other.ts + 1
    BY <1>2 DEF SessionInv, Typed, FreshIsNew, Slice
  <2>3. \A x, y \in fresh : x.ts = y.ts => x = y BY <1>2 DEF SessionInv, FreshIsNew
  <2>4. \A other \in fresh' : slice.ts < other.ts
    <3>1. Times(fresh) \subseteq Nat /\ slice.ts \in Times(fresh) BY <2>2 DEF Times
    <3>2. \A t \in Times(fresh) : slice.ts <= t
      <4>1. PICK m \in Times(fresh) : \A t \in Times(fresh) : m <= t
        <5>1. Times(fresh) # {} BY <3>1
        <5> QED BY <3>1, <5>1, LeastMember
      <4>2. \E m_ \in Times(fresh) : \A t \in Times(fresh) : m_ <= t BY <4>1
      <4> QED BY <1>1, <4>2 DEF Min
    <3>3. ASSUME NEW other \in fresh' PROVE slice.ts < other.ts
      <4>1. other \in fresh /\ other # slice BY <1>1, <3>3
      <4>2. slice.ts <= other.ts /\ slice.ts # other.ts /\ slice.ts \in Nat /\ other.ts \in Nat
        BY <2>2, <2>3, <3>2, <4>1 DEF Times
      <4> QED BY <4>2
    <3> QED BY <3>3
  <2>5. opened # None BY <1>2 DEF HistoryInv
  <2>6. PICK p \in Nat : LastPoll(p) /\ \A s \in Symbols \ spoilt : WholeUpTo(s, p)
    BY <1>2, <2>5 DEF PunctualInv
  <2>7. p = now BY <1>2, <2>6 DEF LastPoll
  <2>8. LastPoll(now)'
    <3>1. \A t \in seen' : t < now BY <1>1, <1>2, <1>3, <2>2, SeenIsPast
    <3> QED BY <1>2, <1>3, <2>1, <3>1 DEF LastPoll
  <2>9. ASSUME NEW s \in Symbols \ spoilt' PROVE WholeUpTo(s, now)'
    <3>1. WholeUpTo(s, now) BY <1>2, <2>6, <2>7, <2>9
    <3>2. s \in slice.bars => \A x \in Range(history[s]) : x < slice.ts
      BY <1>2, <3>1 DEF WholeUpTo
    <3>3. /\ Range(history'[s]) = Range(history[s]) \cup (IF s \in slice.bars THEN {slice.ts} ELSE {})
          /\ Rising(history'[s])
      BY <1>1, <1>2, <3>1, <3>2, ExtendedHistory DEF WholeUpTo
    <3>4. ASSUME NEW t \in tape[s], t < now
          PROVE  t \in Range(history'[s]) \/ Old(s, t, now)' \/ Coming(s, t)'
      <4>1. CASE t \in Range(history[s]) BY <3>3, <4>1
      <4>2. CASE Old(s, t, now) BY <1>2, <4>2 DEF Old, After
      <4>3. CASE Coming(s, t)
        <5>1. PICK other \in fresh : other.ts = t /\ s \in other.bars BY <4>3 DEF Coming
        <5>2. CASE other = slice BY <3>3, <5>1, <5>2
        <5>3. CASE other # slice
          <6>1. other \in fresh' BY <1>1, <5>3
          <6>2. phase' = "step" BY <2>1, <6>1
          <6> QED BY <5>1, <6>1, <6>2 DEF Coming
        <5> QED BY <5>2, <5>3
      <4> QED BY <3>1, <3>4, <4>1, <4>2, <4>3 DEF WholeUpTo
    <3>5. ASSUME NEW other \in fresh', s \in other.bars, NEW x \in Range(history'[s])
          PROVE  x < other.ts
      <4>1. other \in fresh BY <1>1, <3>5
      <4>2. CASE x \in Range(history[s]) BY <1>2, <3>1, <3>5, <4>1, <4>2 DEF WholeUpTo
      <4>3. CASE x = slice.ts BY <2>4, <3>5, <4>3
      <4> QED BY <3>3, <3>5, <4>2, <4>3
    <3> QED BY <1>2, <3>3, <3>4, <3>5 DEF WholeUpTo
  <2> QED BY <1>2, <1>3, <2>8, <2>9 DEF PunctualInv
<1> QED BY <1>4, <1>5

LEMMA PunctualSleep ==
  ASSUME SessionInv, HistoryInv, PunctualInv, Sleep PROVE PunctualInv'
<1>1. PICK late \in 0..MaxOversleep : now' = Min({now + 1 + late, LastTime + 1})
  BY DEF Sleep
<1>2. /\ phase = "sleep" /\ phase' = "poll"
      /\ UNCHANGED <<tape, fresh, seen, history, opened, spoilt>>
  BY DEF Sleep, sessionVars, checkVars
<1>3. /\ now \in Nat /\ now <= LastTime + 1 /\ LastTime \in Nat /\ MaxOversleep \in Nat
      /\ late \in Nat /\ late <= MaxOversleep
  BY SessionAssumption DEF PunctualInv, SessionInv, Typed
<1>4. now' = IF now + 1 + late <= LastTime + 1 THEN now + 1 + late ELSE LastTime + 1
  BY <1>1, <1>3, LesserOfTwo
<1>5. now <= now' /\ now' <= now + 1 + MaxOversleep /\ now' <= LastTime + 1 BY <1>3, <1>4
<1>6. CASE opened # None
  <2>1. PICK p \in Nat : LastPoll(p) /\ \A s \in Symbols \ spoilt : WholeUpTo(s, p)
    BY <1>2, <1>6 DEF PunctualInv
  <2>2. p = now /\ \A t \in seen : t < p BY <1>2, <2>1 DEF LastPoll
  <2>3. p <= now' /\ now' <= p + 1 + MaxOversleep BY <1>5, <2>2
  <2> HIDE DEF LastPoll
  <2>4. \A q : q = p => LastPoll(q)' BY <1>2, <2>2, <2>3 DEF LastPoll
  <2>5. \A s \in Symbols \ spoilt : \A q : q = p => WholeUpTo(s, q)'
    BY <1>2, <2>1 DEF WholeUpTo, Old, After, Coming
  <2> QED BY <1>2, <1>5, <2>4, <2>5 DEF PunctualInv
<1> QED BY <1>2, <1>5, <1>6 DEF PunctualInv

LEMMA PunctualNext ==
  ASSUME SessionInv, HistoryInv, PunctualInv, MaxOversleep < Lookback, [Next]_vars
  PROVE  PunctualInv'
<1>1. CASE UNCHANGED vars \/ Release
  <2>1. /\ UNCHANGED <<now, tape, phase, fresh, seen, history, opened>>
        /\ spoilt \subseteq spoilt'
    BY <1>1 DEF vars, Release, sourceVars, sessionVars, checkVars
  <2>2. \A p \in Nat : LastPoll(p)' = LastPoll(p) BY <2>1 DEF LastPoll
  <2>3. \A s \in Symbols \ spoilt' : \A p \in Nat : WholeUpTo(s, p) => WholeUpTo(s, p)'
    BY <2>1 DEF WholeUpTo, Old, After, Coming
  <2> QED BY <2>1, <2>2, <2>3 DEF PunctualInv
<1>2. CASE Session
  BY <1>2, PunctualStep, PunctualSleep, PunctualQuiet, PunctualAbsorb, PunctualReveal DEF Session
<1> QED BY <1>1, <1>2 DEF Next

-----------------------------------------------------------------------------
(* No bar is primed or stepped while it is still forming                     *)
(* (RecentWindowFeed.poll, ADR-0022).                                        *)
THEOREM NothingForming == Spec => []OnlyCompletedBars
BY SessionAlways, PTL DEF SessionInv

(* A timestamp is primed or stepped, once, and never both, however often the *)
(* feed reveals it again (PaperSession.run, ADR-0042).                       *)
THEOREM NothingTwice == Spec => []SteppedOnce
BY SessionAlways, PTL DEF SessionInv

(* The session ends by itself after exactly MaxEmptyPolls quiet polls in a   *)
(* row or with its quota of bars, and not otherwise (ADR-0049).              *)
THEOREM GivesUpOnSilence == Spec => []SilenceIsReal
<1>1. SessionInv => SilenceIsReal BY DEF SessionInv, CountIsReal
<1> QED BY <1>1, SessionAlways, PTL

(* The history of no symbol ever has a bar twice, and no timestamp is primed *)
(* or stepped twice, however often the feed reveals it (PaperSession.run,    *)
(* prime_history, ADR-0042).                                                 *)
THEOREM EverythingOnce == Spec => []ProcessedOnce
<1>1. SessionInv /\ HistoryInv => ProcessedOnce BY DEF SessionInv, HistoryInv, ProcessedOnce
<1> QED BY <1>1, SessionAlways, HistoryAlways, PTL

(* A symbol that is never late and whose fetches succeed has, whatever       *)
(* happens to the others, a history without gaps and in order, when the      *)
(* clock never sleeps through more intervals than the window is long         *)
(* (RecentWindowFeed.poll, ADR-0035); a longer sleep loses bars.             *)
THEOREM PunctualIsWhole ==
  ASSUME MaxOversleep < Lookback
  PROVE  Spec => []PunctualSymbolsAreWhole
<1>1. SessionInv /\ HistoryInv /\ PunctualInv /\ [Next]_vars => PunctualInv'
  BY PunctualNext
<1>2. SessionInv /\ HistoryInv /\ PunctualInv => PunctualSymbolsAreWhole
  <2> SUFFICES ASSUME SessionInv, HistoryInv, PunctualInv, phase = "sleep", opened # None,
                      NEW s \in Symbols \ spoilt
               PROVE  LET done == {t \in tape[s] : t < now}
                          missing == done \ Range(history[s])
                      IN /\ \A t \in missing :
                              t < opened /\ Cardinality({u \in done : u > t}) >= Lookback
                         /\ \A i, j \in DOMAIN history[s] : i < j => history[s][i] < history[s][j]
    BY DEF PunctualSymbolsAreWhole
  <2>1. PICK p \in Nat : LastPoll(p) /\ WholeUpTo(s, p) BY DEF PunctualInv
  <2>2. WholeUpTo(s, now) BY <2>1 DEF LastPoll
  <2>3. \A t \in tape[s] : t < now => t \in Range(history[s]) \/ Old(s, t, now)
    BY <2>2 DEF WholeUpTo, Coming
  <2> DEFINE done == {t \in tape[s] : t < now}
  <2>4. \A t : {u \in done : u > t} = After(s, t, now) BY DEF After
  <2>5. \A t \in done \ Range(history[s]) :
          t < opened /\ Cardinality(After(s, t, now)) >= Lookback
    BY <2>3 DEF Old
  <2> QED BY <2>2, <2>4, <2>5 DEF WholeUpTo, Rising
<1> QED BY <1>1, <1>2, PunctualInit, SessionAlways, HistoryAlways, PTL DEF Spec
=============================================================================
