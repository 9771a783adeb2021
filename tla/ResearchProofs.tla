--------------------------- MODULE ResearchProofs ---------------------------
(***************************************************************************)
(* What the research commands promise, for every value of the constants:    *)
(* the strategies keep their book (Strategies), a search leaves nothing out *)
(* and sees nothing twice (Sweep), a run is prepared from what was known     *)
(* before it, on series that are vouched for (Sources), and its regimes, its *)
(* drawdown and its budget are what they say of it (Metrics).               *)
(***************************************************************************)
EXTENDS MCResearch, FoldTheorems

(* An equal share is a natural number, so many of them are no more than the
   whole, and it is not nothing if there are no more sharers than parts. *)
LEMMA ShareIs ==
  ASSUME NEW w \in Nat, NEW n \in Nat \ {0}
  PROVE  w \div n \in Nat /\ n * (w \div n) <= w /\ (n <= w => w \div n > 0)
<1> DEFINE q == w \div n
<1>1. q \in Int /\ w = n * q + (w % n) /\ w % n \in 0..n-1 OBVIOUS
<1> HIDE DEF q
<1>2. q >= 0
  <2> SUFFICES ASSUME q <= -1 PROVE FALSE BY <1>1
  <2>1. n * q <= n * (-1) BY <1>1
  <2> QED BY <1>1, <2>1
<1>3. n * q <= w BY <1>1
<1>4. n <= w => q # 0 BY <1>1
<1> QED BY <1>1, <1>2, <1>3, <1>4 DEF q

Intents == UNION {[S -> Nat] : S \in SUBSET Symbols}

Books == [hist : [Symbols -> Seq(Closes)], long : SUBSET Symbols, since : Nat,
          alloc : Seq(SUBSET Symbols), established : BOOLEAN, held : SUBSET Symbols,
          pending : Intents, intents : Intents, standing : [Symbols -> Nat],
          whole : BOOLEAN, clean : 0 .. 2]

Bars == UNION {[S -> Closes] : S \in SUBSET Symbols}

(* What SMT needs of a set of functions whose domains differ. *)
LEMMA IntentsIs ==
  /\ <<>> \in Intents /\ DOMAIN <<>> = {}
  /\ \A f \in Intents : /\ DOMAIN f \subseteq Symbols
                        /\ \A x \in DOMAIN f : f[x] \in Nat
                        /\ f = [x \in DOMAIN f |-> f[x]]
  /\ \A S \in SUBSET Symbols : \A f \in [S -> Nat] : f \in Intents /\ DOMAIN f = S
<1>1. <<>> \in [{} -> Nat] OBVIOUS
<1> QED BY <1>1 DEF Intents

(* The bars of one timestamp. *)
LEMMA BarsIs ==
  /\ \A f \in Bars : DOMAIN f \subseteq Symbols /\ \A x \in DOMAIN f : f[x] \in Closes
  /\ \A S \in SUBSET Symbols : \A f \in [S -> Closes] : f \in Bars /\ DOMAIN f = S
BY DEF Bars

(* The share of each of the symbols of a bar. *)
LEMMA Equal ==
  ASSUME NEW S \in SUBSET Symbols, S # {}
  PROVE  /\ IsFiniteSet(S) /\ Cardinality(S) \in Nat \ {0} /\ Cardinality(S) <= Cardinality(Symbols)
         /\ Weight \div Cardinality(S) \in Nat \ {0}
         /\ Cardinality(S) * (Weight \div Cardinality(S)) <= Weight
<1>1. IsFiniteSet(Symbols) /\ Weight \in Nat /\ Cardinality(Symbols) <= Weight
  BY StrategiesAssumption
<1>2. IsFiniteSet(S) /\ Cardinality(S) <= Cardinality(Symbols) BY <1>1, FS_Subset
<1>3. Cardinality(S) \in Nat /\ Cardinality(Symbols) \in Nat BY <1>1, <1>2, FS_CardinalityType
<1>4. Cardinality(S) # 0 BY <1>2, FS_EmptySet
<1> QED BY <1>1, <1>2, <1>3, <1>4, ShareIs

(* The orders of earlier bars. *)
(* What settling and extending leave alone, and what on_bar does. *)
Unmoved(s, b) ==
  /\ s.long = b.long /\ s.alloc = b.alloc /\ s.established = b.established
  /\ s.standing = b.standing /\ s.whole = b.whole /\ s.clean = b.clean

Untouched(t, b) ==
  /\ t.held = b.held /\ t.pending = b.pending
  /\ t.standing = b.standing /\ t.whole = b.whole /\ t.clean = b.clean

(* Settled orders move the position; the others wait. *)
LEMMA SettleIs ==
  ASSUME NEW b \in Books, NEW bars \in Bars, NEW rejected \in SUBSET (DOMAIN b.pending \cap DOMAIN bars)
  PROVE  LET s == Settle(b, bars, rejected)
             done == (DOMAIN b.pending \cap DOMAIN bars) \ rejected
         IN /\ s \in Books
            /\ Unmoved(s, b)
            /\ \A x \in Symbols : x \in s.held <=> IF x \in done THEN b.pending[x] > 0 ELSE x \in b.held
            /\ DOMAIN s.pending = DOMAIN b.pending \ DOMAIN bars
            /\ \A x \in DOMAIN s.pending : s.pending[x] = b.pending[x]
<1> DEFINE s == Settle(b, bars, rejected)
           done == (DOMAIN b.pending \cap DOMAIN bars) \ rejected
           P == [x \in DOMAIN b.pending \ DOMAIN bars |-> b.pending[x]]
           H == (b.held \ done) \cup {x \in done : b.pending[x] > 0}
<1>1. b.pending \in Intents /\ b.held \in SUBSET Symbols BY DEF Books
<1>2. DOMAIN b.pending \subseteq Symbols /\ \A x \in DOMAIN b.pending : b.pending[x] \in Nat
  BY <1>1, IntentsIs
<1>3. P \in [DOMAIN b.pending \ DOMAIN bars -> Nat] BY <1>2
<1>4. P \in Intents BY <1>2, <1>3, IntentsIs
<1>5. H \in SUBSET Symbols BY <1>1, <1>2
<1>6. s = [b EXCEPT !.held = H, !.pending = P] BY DEF Settle
<1>7. DOMAIN P = DOMAIN b.pending \ DOMAIN bars /\ \A x \in DOMAIN P : P[x] = b.pending[x] OBVIOUS
<1>9. \A x \in Symbols : x \in H <=> IF x \in done THEN b.pending[x] > 0 ELSE x \in b.held OBVIOUS
<1> HIDE DEF s, P, H, done
<1>8. s \in Books /\ s.held = H /\ s.pending = P /\ Unmoved(s, b) BY <1>4, <1>5, <1>6 DEF Books, Unmoved
<1> QED BY <1>7, <1>8, <1>9 DEF s, done

(* A strategy asks for a number of bars. *)
LEMMA AskedIs == strategy \in Strategies => Asked \in Nat
<1> SUFFICES ASSUME strategy \in Strategies PROVE Asked \in Nat OBVIOUS
<1>1. Slow \in Nat /\ Lookback + 1 \in Nat /\ Period + 1 \in Nat /\ Lookback + Skip + 1 \in Nat
  BY StrategiesAssumption
<1> QED BY <1>1 DEF Asked, Strategies

(* The end of a history is a history. *)
LEMMA LastOfIs ==
  ASSUME NEW h \in Seq(Closes), NEW n \in 0 .. Len(h)
  PROVE  LastOf(h, n) \in Seq(Closes) /\ Len(LastOf(h, n)) = n
BY DEF LastOf

(* A bar lengthens histories, and nothing else. *)
LEMMA ExtendIs ==
  ASSUME NEW b \in Books, NEW bars \in Bars, strategy \in Strategies
  PROVE  LET e == Extend(b, bars)
         IN e \in Books /\ Unmoved(e, b) /\ e.held = b.held /\ e.pending = b.pending
<1> DEFINE New(x) == Append(b.hist[x], bars[x])
           Many(x) == IF Len(New(x)) < Asked THEN Len(New(x)) ELSE Asked
           H == [x \in Symbols |-> IF x \in DOMAIN bars THEN LastOf(New(x), Many(x)) ELSE b.hist[x]]
<1>1. b.hist \in [Symbols -> Seq(Closes)] BY DEF Books
<1>2. ASSUME NEW x \in Symbols, x \in DOMAIN bars PROVE LastOf(New(x), Many(x)) \in Seq(Closes)
  <2>1. New(x) \in Seq(Closes) BY <1>1, <1>2, BarsIs
  <2> HIDE DEF New
  <2>2. Many(x) \in 0 .. Len(New(x)) BY <2>1, AskedIs
  <2> QED BY <2>1, <2>2, LastOfIs
<1>3. H \in [Symbols -> Seq(Closes)] BY <1>1, <1>2
<1>4. Extend(b, bars) = [b EXCEPT !.hist = H] BY DEF Extend
<1> HIDE DEF H
<1> QED BY <1>3, <1>4 DEF Books, Unmoved

(* What the engine notes of a strategy's answer: intents become orders. *)
LEMMA RecordedIs ==
  ASSUME NEW b \in Books, NEW bars \in Bars, NEW trouble \in BOOLEAN
  PROVE  LET r == Recorded(b, bars, trouble)
         IN /\ r \in Books
            /\ r.long = b.long /\ r.alloc = b.alloc /\ r.established = b.established /\ r.held = b.held
            /\ DOMAIN r.pending = DOMAIN b.pending \cup DOMAIN b.intents
            /\ \A x \in DOMAIN r.pending :
                 r.pending[x] = IF x \in DOMAIN b.intents THEN b.intents[x] ELSE b.pending[x]
            /\ \A x \in Symbols :
                 r.standing[x] = IF x \in DOMAIN b.intents THEN b.intents[x] ELSE b.standing[x]
            /\ r.whole = (b.whole /\ DOMAIN bars = Symbols)
            /\ r.clean = IF trouble \/ DOMAIN bars # Symbols THEN 0
                         ELSE IF b.clean < 2 THEN b.clean + 1 ELSE 2
<1> DEFINE P == [x \in DOMAIN b.pending \cup DOMAIN b.intents |->
                   IF x \in DOMAIN b.intents THEN b.intents[x] ELSE b.pending[x]]
           S == [x \in Symbols |-> IF x \in DOMAIN b.intents THEN b.intents[x] ELSE b.standing[x]]
           W == b.whole /\ DOMAIN bars = Symbols
           C == IF trouble \/ DOMAIN bars # Symbols THEN 0 ELSE IF b.clean < 2 THEN b.clean + 1 ELSE 2
           r == Recorded(b, bars, trouble)
<1>1. /\ b.pending \in Intents /\ b.intents \in Intents /\ b.standing \in [Symbols -> Nat]
      /\ b.whole \in BOOLEAN /\ b.clean \in 0 .. 2
  BY DEF Books
<1>2. /\ DOMAIN b.pending \subseteq Symbols /\ \A x \in DOMAIN b.pending : b.pending[x] \in Nat
      /\ DOMAIN b.intents \subseteq Symbols /\ \A x \in DOMAIN b.intents : b.intents[x] \in Nat
  BY <1>1, IntentsIs
<1>3. P \in [DOMAIN b.pending \cup DOMAIN b.intents -> Nat] BY <1>2
<1>4. P \in Intents BY <1>2, <1>3, IntentsIs
<1>5. S \in [Symbols -> Nat] BY <1>1, <1>2
<1>6. W \in BOOLEAN /\ C \in 0 .. 2 BY <1>1
<1>7. r = [b EXCEPT !.pending = P, !.standing = S, !.whole = W, !.clean = C] BY DEF Recorded
<1>8. /\ DOMAIN P = DOMAIN b.pending \cup DOMAIN b.intents
      /\ \A x \in DOMAIN P : P[x] = IF x \in DOMAIN b.intents THEN b.intents[x] ELSE b.pending[x]
      /\ \A x \in Symbols : S[x] = IF x \in DOMAIN b.intents THEN b.intents[x] ELSE b.standing[x]
  OBVIOUS
<1> HIDE DEF r, P, S, W, C
<1>9. /\ r \in Books /\ r.pending = P /\ r.standing = S /\ r.whole = W /\ r.clean = C
      /\ r.long = b.long /\ r.alloc = b.alloc /\ r.established = b.established /\ r.held = b.held
  BY <1>4, <1>5, <1>6, <1>7 DEF Books
<1> QED BY <1>8, <1>9 DEF r, W, C

(* Long or flat. *)
LEMMA TransitionIs ==
  ASSUME NEW b \in Books, NEW bars \in Bars, NEW W \in SUBSET (DOMAIN bars), NEW wants \in [W -> BOOLEAN],
         DOMAIN bars # {}
  PROVE  LET t == Transition(b, bars, wants)
             share == Weight \div Cardinality(DOMAIN bars)
         IN /\ t \in Books
            /\ Untouched(t, b)
            /\ DOMAIN t.intents \subseteq DOMAIN bars
            /\ \A x \in DOMAIN t.intents : t.intents[x] = IF x \in t.long THEN share ELSE 0
            /\ \A x \in Symbols : x \notin DOMAIN t.intents => (x \in t.long <=> x \in b.long)
<1> DEFINE share == Weight \div Cardinality(DOMAIN bars)
           changed == {x \in DOMAIN wants : wants[x] # (x \in b.long)}
           L == (b.long \ changed) \cup {x \in changed : wants[x]}
           I == [x \in changed |-> IF wants[x] THEN share ELSE 0]
           t == Transition(b, bars, wants)
<1>1. DOMAIN bars \subseteq Symbols /\ b.long \subseteq Symbols BY BarsIs DEF Books
<1>2. share \in Nat BY <1>1, Equal
<1> HIDE DEF share
<1>3. changed \subseteq DOMAIN bars /\ changed \subseteq Symbols BY <1>1
<1>4. t = [b EXCEPT !.long = L, !.intents = I] BY DEF Transition, share
<1>5. I \in [changed -> Nat] BY <1>2
<1>6. I \in Intents /\ DOMAIN I = changed BY <1>3, <1>5, IntentsIs
<1>7. L \in SUBSET Symbols BY <1>1, <1>3
<1>8. \A x \in changed : x \in L <=> wants[x] OBVIOUS
<1>9. \A x \in Symbols : x \notin changed => (x \in L <=> x \in b.long) OBVIOUS
<1>10. \A x \in changed : I[x] = IF x \in L THEN share ELSE 0 BY <1>8
<1> HIDE DEF t, L, I, changed
<1>11. t \in Books /\ t.long = L /\ t.intents = I /\ Untouched(t, b)
  BY <1>4, <1>6, <1>7 DEF Books, Untouched
<1> QED BY <1>3, <1>6, <1>9, <1>10, <1>11 DEF t, share

(* Only symbols of the bar are judged. *)
LEMMA ReadyIs == \A b, bars, n : Ready(b, bars, n) \subseteq DOMAIN bars
BY DEF Ready

LongOrFlat == {"sma_crossover", "momentum", "mean_reversion"}

(* The three strategies that judge symbol by symbol differ only in what they want. *)
LEMMA LongOrFlatIs ==
  ASSUME NEW b \in Books, NEW bars \in Bars, DOMAIN bars # {}, NEW funded, strategy \in LongOrFlat
  PROVE  \E W \in SUBSET (DOMAIN bars) : \E wants \in [W -> BOOLEAN] :
           OnBar(b, bars, funded) = Transition(b, bars, wants)
<1>1. CASE strategy = "sma_crossover"
  <2> DEFINE W == Ready(b, bars, Slow)
             wants == [x \in W |-> Sum(LastOf(b.hist[x], Fast)) * Slow >= Sum(LastOf(b.hist[x], Slow)) * Fast]
  <2>1. wants \in [W -> BOOLEAN] OBVIOUS
  <2>2. OnBar(b, bars, funded) = Transition(b, bars, wants) BY <1>1 DEF OnBar, SmaCrossover
  <2> HIDE DEF wants
  <2> QED BY <2>1, <2>2, ReadyIs
<1>2. CASE strategy = "momentum"
  <2> DEFINE W == Ready(b, bars, Lookback + 1)
             wants == [x \in W |-> Last(b.hist[x]) > LastOf(b.hist[x], Lookback + 1)[1]]
  <2>1. wants \in [W -> BOOLEAN] OBVIOUS
  <2>2. OnBar(b, bars, funded) = Transition(b, bars, wants) BY <1>2 DEF OnBar, Momentum
  <2> HIDE DEF wants
  <2> QED BY <2>1, <2>2, ReadyIs
<1>3. CASE strategy = "mean_reversion"
  <2> DEFINE W == Ready(b, bars, Period + 1)
             wants == [x \in W |-> IF x \in b.long THEN ~IsRecovered(LastOf(b.hist[x], Period + 1))
                                   ELSE IsOversold(LastOf(b.hist[x], Period + 1))]
  <2>3. \A h : IsRecovered(h) \in BOOLEAN /\ IsOversold(h) \in BOOLEAN BY DEF IsRecovered, IsOversold
  <2>1. wants \in [W -> BOOLEAN] BY <2>3
  <2>2. OnBar(b, bars, funded) = Transition(b, bars, wants) BY <1>3 DEF OnBar, MeanReversion
  <2> HIDE DEF wants
  <2> QED BY <2>1, <2>2, ReadyIs
<1> QED BY <1>1, <1>2, <1>3 DEF LongOrFlat

(* Sums of equal shares. *)
LEMMA SumShares ==
  ASSUME NEW S, IsFiniteSet(S), NEW T \in SUBSET S, NEW v \in Nat,
         NEW f, \A x \in T : f[x] = v, \A x \in S \ T : f[x] = 0
  PROVE  SumFunctionOnSet(f, S) = Cardinality(T) * v
<1> DEFINE P == {U \in SUBSET T : SumFunctionOnSet(f, U) = Cardinality(U) * v}
<1>1. {} \in P BY SumEmpty, FS_EmptySet
<1>2. ASSUME NEW U \in SUBSET T, U # {}, \A x \in U : U \ {x} \in P PROVE U \in P
  <2>1. IsFiniteSet(U) BY FS_Subset
  <2>2. PICK x \in U : TRUE BY <1>2
  <2>3. SumFunctionOnSet(f, U \ {x}) = Cardinality(U \ {x}) * v BY <1>2
  <2>4. SumFunctionOnSet(f, U) = f[x] + SumFunctionOnSet(f, U \ {x})
    <3>1. \A e \in U : f[e] \in Int OBVIOUS
    <3> QED BY <2>1, <3>1, SumRemove
  <2>5. Cardinality(U \ {x}) = Cardinality(U) - 1 /\ Cardinality(U) \in Nat
    BY <2>1, FS_RemoveElement, FS_CardinalityType
  <2>6. f[x] = v OBVIOUS
  <2> DEFINE n == Cardinality(U)
  <2>7. SumFunctionOnSet(f, U) = v + (n - 1) * v BY <2>3, <2>4, <2>5, <2>6
  <2>8. v + (n - 1) * v = n * v BY <2>5
  <2> QED BY <2>7, <2>8
<1>3. IsFiniteSet(T) BY FS_Subset
<1>4. P \in SUBSET (SUBSET T) OBVIOUS
<1>5. \A U \in SUBSET T : U # {} /\ (\A x \in U : U \ {x} \in P) => U \in P BY <1>2
<1> HIDE DEF P
<1>6. P = SUBSET T BY <1>1, <1>3, <1>4, <1>5, SetOfSubsets
<1>7. SumFunctionOnSet(f, T) = Cardinality(T) * v
  <2>1. T \in P BY <1>6
  <2> QED BY <2>1 DEF P
<1>8. SumFunctionOnSet(f, T) = SumFunctionOnSet(f, S)
  <2>1. \A x \in S : f[x] \in Int OBVIOUS
  <2> QED BY <2>1, SumSupport
<1> QED BY <1>7, <1>8

(* Of a strict total order at most k members have fewer than k ahead of them. *)
LEMMA FirstOfAnOrder ==
  ASSUME NEW S, IsFiniteSet(S), NEW ahead \in [S -> SUBSET S], NEW k \in Nat,
         \A x \in S : x \notin ahead[x],
         \A x, y \in S : x # y => x \in ahead[y] \/ y \in ahead[x],
         \A x, y, z \in S : x \in ahead[y] /\ y \in ahead[z] => x \in ahead[z],
         NEW win \in SUBSET S, \A x \in win : Cardinality(ahead[x]) < k
  PROVE  Cardinality(win) \in 0 .. k
<1> DEFINE rank == [x \in win |-> Cardinality(ahead[x])]
<1>1. \A x \in S : IsFiniteSet(ahead[x]) /\ Cardinality(ahead[x]) \in Nat BY FS_Subset, FS_CardinalityType
<1>2. ASSUME NEW x \in S, NEW y \in S, x \in ahead[y]
      PROVE  Cardinality(ahead[x]) < Cardinality(ahead[y])
  <2>1. ahead[x] \subseteq ahead[y]
    <3>1. \A z \in S : z \in ahead[x] => z \in ahead[y] BY <1>2
    <3> QED BY <3>1
  <2>2. ahead[x] # ahead[y] BY <1>2
  <2>3. /\ Cardinality(ahead[x]) <= Cardinality(ahead[y])
        /\ Cardinality(ahead[x]) = Cardinality(ahead[y]) => ahead[x] = ahead[y]
    BY <1>1, <2>1, FS_Subset
  <2> QED BY <1>1, <2>2, <2>3
<1>3. rank \in [win -> 0 .. k - 1] BY <1>1
<1>4. ASSUME NEW x \in win, NEW y \in win, rank[x] = rank[y] PROVE x = y
  <2>1. Cardinality(ahead[x]) = Cardinality(ahead[y]) BY <1>4
  <2>2. SUFFICES ASSUME x # y PROVE FALSE OBVIOUS
  <2>3. x \in ahead[y] \/ y \in ahead[x] BY <2>2
  <2> QED BY <1>1, <1>2, <2>1, <2>3
<1>5. IsFiniteSet(win) /\ IsFiniteSet(0 .. k - 1) /\ Cardinality(0 .. k - 1) = k
  BY FS_Subset, FS_Interval
<1>6. rank \in Injection(win, 0 .. k - 1) BY <1>3, <1>4 DEF Injection, IsInjective
<1>7. Cardinality(win) <= Cardinality(0 .. k - 1) BY <1>5, <1>6, FS_Injection
<1>8. Cardinality(win) \in Nat BY <1>5, FS_CardinalityType
<1> QED BY <1>5, <1>7, <1>8

(* Products keep the order. *)
LEMMA Times ==
  ASSUME NEW a \in Int, NEW b \in Int, NEW c \in Nat \ {0}
  PROVE  (a > b <=> a * c > b * c) /\ (a >= b <=> a * c >= b * c)
OBVIOUS

(* Trailing returns, compared by their products, are transitive. *)
LEMMA RatiosOrdered ==
  ASSUME NEW a \in Nat \ {0}, NEW b \in Nat \ {0}, NEW c \in Nat \ {0},
         NEW d \in Nat \ {0}, NEW e \in Nat \ {0}, NEW f \in Nat \ {0},
         a * d >= c * b, c * f >= e * d
  PROVE  a * f >= e * b /\ (a * d > c * b \/ c * f > e * d => a * f > e * b)
<1>1. /\ (a * d) * f >= (c * b) * f /\ (a * d > c * b => (a * d) * f > (c * b) * f)
  <2>1. a * d \in Int /\ c * b \in Int OBVIOUS
  <2> QED BY <2>1, Times
<1>2. /\ (c * f) * b >= (e * d) * b /\ (c * f > e * d => (c * f) * b > (e * d) * b)
  <2>1. c * f \in Int /\ e * d \in Int OBVIOUS
  <2> QED BY <2>1, Times
<1>3. (a * d) * f = (a * f) * d /\ (c * b) * f = (c * f) * b /\ (e * d) * b = (e * b) * d OBVIOUS
<1>4. /\ (a * f) * d \in Int /\ (c * f) * b \in Int /\ (e * b) * d \in Int
      /\ a * f \in Int /\ e * b \in Int
  OBVIOUS
<1>5. (a * f) * d >= (e * b) * d /\ (a * d > c * b \/ c * f > e * d => (a * f) * d > (e * b) * d)
  BY <1>1, <1>2, <1>3, <1>4
<1> QED BY <1>4, <1>5, Times

(* The strategies that set the whole book at once. *)
LEMMA RebalanceIs ==
  ASSUME NEW b \in Books, NEW bars \in Bars, NEW scored, NEW target \in [DOMAIN bars -> Nat]
  PROVE  LET t == Rebalance(b, bars, scored, target)
         IN /\ t \in Books
            /\ Untouched(t, b)
            /\ t.intents = <<>> \/ t.intents = target
<1> DEFINE t == Rebalance(b, bars, scored, target)
           since == IF b.since < Every THEN b.since + 1 ELSE Every
           I == [x \in DOMAIN bars |-> target[x]]
<1>0. I = target OBVIOUS
<1>1. Every \in Nat /\ b.since \in Nat BY StrategiesAssumption DEF Books
<1>2. since \in Nat BY <1>1
<1>3. I \in [DOMAIN bars -> Nat] OBVIOUS
<1>4. I \in Intents /\ <<>> \in Intents BY <1>3, BarsIs, IntentsIs
<1>5. \/ t = [b EXCEPT !.since = since, !.intents = <<>>]
      \/ t = [b EXCEPT !.since = 0, !.intents = I]
  BY DEF Rebalance
<1> HIDE DEF t, since, I
<1>6. CASE t = [b EXCEPT !.since = since, !.intents = <<>>]
  <2>1. t \in Books /\ t.intents = <<>> /\ Untouched(t, b) BY <1>2, <1>4, <1>6 DEF Books, Untouched
  <2> QED BY <2>1 DEF t
<1>7. CASE t = [b EXCEPT !.since = 0, !.intents = I]
  <2>1. t \in Books /\ t.intents = I /\ Untouched(t, b) BY <1>4, <1>7 DEF Books, Untouched
  <2> QED BY <1>0, <2>1 DEF t
<1> QED BY <1>5, <1>6, <1>7

Capped(f) == SumFunctionOnSet(f, DOMAIN f) <= Weight

(* As many shares as fit into the whole are a capped target. *)
LEMMA CappedShares ==
  ASSUME NEW S \in SUBSET Symbols, NEW T \in SUBSET S, NEW v \in Nat, Cardinality(T) * v <= Weight
  PROVE  Capped([x \in S |-> IF x \in T THEN v ELSE 0])
<1> DEFINE f == [x \in S |-> IF x \in T THEN v ELSE 0]
<1>1. IsFiniteSet(S) BY FS_Subset, StrategiesAssumption
<1>2. (\A x \in T : f[x] = v) /\ (\A x \in S \ T : f[x] = 0) /\ DOMAIN f = S OBVIOUS
<1> HIDE DEF f
<1>3. SumFunctionOnSet(f, S) = Cardinality(T) * v BY <1>1, <1>2, SumShares
<1>4. Capped(f) BY <1>2, <1>3 DEF Capped
<1> QED BY <1>4 DEF f

(* Fewer shares than fit. *)
LEMMA AtMost ==
  ASSUME NEW n \in Nat, NEW m \in 0 .. n, NEW v \in Nat, NEW w \in Nat, n * v <= w
  PROVE  m * v <= w
<1>1. n * v = m * v + (n - m) * v /\ (n - m) * v >= 0 /\ m * v \in Int OBVIOUS
<1> QED BY <1>1

(* The winners are at most TopK, since being ahead is a strict total order. *)
LEMMA CrossSectionalIs ==
  ASSUME NEW b \in Books, NEW bars \in Bars, DOMAIN bars # {}
  PROVE  \E scored : \E target \in [DOMAIN bars -> Nat] :
           CrossSectional(b, bars) = Rebalance(b, bars, scored, target) /\ Capped(target)
<1> DEFINE scored == Ready(b, bars, Lookback + 1)
           First(x) == LastOf(b.hist[x], Lookback + 1)[1]
           Score(x, y) == Last(b.hist[x]) * First(y)
           Ahead(x, y) == Score(x, y) > Score(y, x) \/ (Score(x, y) = Score(y, x) /\ x < y)
           before == [x \in scored |-> {y \in scored : y # x /\ Ahead(y, x)}]
           win == {x \in scored : Cardinality({y \in scored : y # x /\ Ahead(y, x)}) < TopK}
           share == Weight \div TopK
           target == [x \in DOMAIN bars |-> IF x \in win THEN share ELSE 0]
<1>1. scored \subseteq DOMAIN bars /\ DOMAIN bars \subseteq Symbols BY ReadyIs, BarsIs
<1>2. IsFiniteSet(scored) /\ scored \subseteq Nat BY <1>1, FS_Subset, StrategiesAssumption
<1>3. ASSUME NEW x \in scored PROVE Last(b.hist[x]) \in Nat \ {0} /\ First(x) \in Nat \ {0}
  <2>1. b.hist[x] \in Seq(Closes) /\ Len(b.hist[x]) >= Lookback + 1 /\ Lookback \in Nat \ {0}
    BY <1>1, StrategiesAssumption DEF Books, Ready
  <2>2. Closes \subseteq Nat \ {0} BY StrategiesAssumption
  <2>3. Last(b.hist[x]) \in Closes BY <2>1 DEF Last
  <2>4. LastOf(b.hist[x], Lookback + 1) \in Seq(Closes) /\ Len(LastOf(b.hist[x], Lookback + 1)) = Lookback + 1
    BY <2>1, LastOfIs
  <2>5. First(x) \in Closes BY <2>1, <2>4
  <2> QED BY <2>2, <2>3, <2>5
<1> HIDE DEF First, scored
<1>4. \A x, y \in scored : Score(x, y) \in Nat BY <1>3
<1>5. \A x \in scored : ~Ahead(x, x) BY <1>2, <1>4
<1>6. \A x, y \in scored : x # y => Ahead(x, y) \/ Ahead(y, x) BY <1>2, <1>4
<1>7. ASSUME NEW x \in scored, NEW y \in scored, NEW z \in scored, Ahead(x, y), Ahead(y, z)
      PROVE  Ahead(x, z)
  <2>1. Score(x, y) >= Score(y, x) /\ Score(y, z) >= Score(z, y) BY <1>4, <1>7
  <2>2. Score(x, z) >= Score(z, x) /\ (Score(x, y) > Score(y, x) \/ Score(y, z) > Score(z, y)
                                        => Score(x, z) > Score(z, x))
    BY <1>3, <2>1, RatiosOrdered
  <2> HIDE DEF Score
  <2>3. CASE x < y /\ y < z BY <1>2, <1>4, <2>2, <2>3
  <2>4. CASE ~(x < y /\ y < z) BY <1>7, <2>2, <2>4
  <2> QED BY <2>3, <2>4
<1> HIDE DEF Ahead
<1>8. before \in [scored -> SUBSET scored] OBVIOUS
<1>9. \A x, y \in scored : y \in before[x] <=> Ahead(y, x) BY <1>5
<1>10. win \in SUBSET scored /\ \A x \in win : Cardinality(before[x]) < TopK OBVIOUS
<1> HIDE DEF before, win
<1>11. TopK \in Nat \ {0} /\ Weight \in Nat BY StrategiesAssumption
<1>12. Cardinality(win) \in 0 .. TopK
  <2>1. \A x \in scored : x \notin before[x] BY <1>5, <1>9
  <2>2. \A x, y \in scored : x # y => x \in before[y] \/ y \in before[x] BY <1>6, <1>9
  <2>3. \A x, y, z \in scored : x \in before[y] /\ y \in before[z] => x \in before[z] BY <1>7, <1>9
  <2>4. TopK \in Nat BY <1>11
  <2> QED BY <1>2, <1>8, <1>10, <2>1, <2>2, <2>3, <2>4, FirstOfAnOrder
<1>13. share \in Nat /\ TopK * share <= Weight BY <1>11, ShareIs
<1>14. win \subseteq DOMAIN bars /\ Cardinality(win) \in 0 .. TopK BY <1>1, <1>10, <1>12
<1>15. CrossSectional(b, bars) = Rebalance(b, bars, scored, target)
  BY DEF CrossSectional, scored, First, Ahead, win
<1> HIDE DEF share
<1>16. Cardinality(win) * share <= Weight BY <1>11, <1>13, <1>14, AtMost
<1>17. Capped(target) BY <1>1, <1>13, <1>14, <1>16, CappedShares
<1>18. target \in [DOMAIN bars -> Nat] BY <1>13
<1> HIDE DEF target
<1> QED BY <1>15, <1>17, <1>18

(* The symbols in a trend share the whole. *)
LEMMA TrendFollowingIs ==
  ASSUME NEW b \in Books, NEW bars \in Bars, DOMAIN bars # {}
  PROVE  \E scored : \E target \in [DOMAIN bars -> Nat] :
           TrendFollowing(b, bars) = Rebalance(b, bars, scored, target) /\ Capped(target)
<1> DEFINE span == Lookback + Skip + 1
           scored == Ready(b, bars, span)
           trending == {x \in scored : LET h == LastOf(b.hist[x], span) IN h[span - Skip] > h[1]}
           share == Weight \div Cardinality(trending)
           target == [x \in DOMAIN bars |-> IF x \in trending THEN share ELSE 0]
<1>1. trending \subseteq DOMAIN bars /\ DOMAIN bars \subseteq Symbols
  <2>1. trending \subseteq scored OBVIOUS
  <2> QED BY <2>1, ReadyIs, BarsIs
<1>2. TrendFollowing(b, bars) = Rebalance(b, bars, scored, target) BY DEF TrendFollowing
<1> HIDE DEF trending, scored
<1>3. trending # {} => share \in Nat /\ Cardinality(trending) * share <= Weight BY <1>1, Equal
<1>4. target \in [DOMAIN bars -> Nat] BY <1>3
<1>5. Capped(target)
  <2>1. CASE trending # {}
    <3> HIDE DEF share
    <3> QED BY <1>1, <1>3, <2>1, CappedShares
  <2>2. CASE trending = {}
    <3>1. target = [x \in DOMAIN bars |-> IF x \in {} THEN 0 ELSE 0] BY <2>2
    <3>2. Cardinality({}) * 0 <= Weight /\ {} \in SUBSET (DOMAIN bars) /\ 0 \in Nat
      BY FS_EmptySet, StrategiesAssumption
    <3> HIDE DEF target
    <3> QED BY <1>1, <3>1, <3>2, CappedShares
  <2> QED BY <2>1, <2>2
<1> HIDE DEF target
<1> QED BY <1>2, <1>4, <1>5

(* Every symbol of the bar gets an equal share. *)
LEMMA EqualWeightIs ==
  ASSUME NEW b \in Books, NEW bars \in Bars, DOMAIN bars # {}
  PROVE  LET t == EqualWeight(b, bars)
             share == Weight \div Cardinality(DOMAIN bars)
         IN /\ t \in Books
            /\ Untouched(t, b)
            /\ DOMAIN t.intents = DOMAIN bars /\ \A x \in DOMAIN bars : t.intents[x] = share
            /\ Capped(t.intents)
<1> DEFINE t == EqualWeight(b, bars)
           share == Weight \div Cardinality(DOMAIN bars)
           I == [x \in DOMAIN bars |-> share]
<1>1. DOMAIN bars \in SUBSET Symbols BY BarsIs
<1>2. share \in Nat \ {0} /\ Cardinality(DOMAIN bars) * share <= Weight BY <1>1, Equal
<1>3. t = [b EXCEPT !.intents = I] BY DEF EqualWeight
<1> HIDE DEF share
<1>4. I \in [DOMAIN bars -> Nat] BY <1>2
<1>5. I \in Intents BY <1>1, <1>4, IntentsIs
<1>6. I = [x \in DOMAIN bars |-> IF x \in DOMAIN bars THEN share ELSE 0] OBVIOUS
<1>7. Capped([x \in DOMAIN bars |-> IF x \in DOMAIN bars THEN share ELSE 0]) BY <1>1, <1>2, CappedShares
<1>8. Capped(I) BY <1>6, <1>7
<1> HIDE DEF t, I
<1>10. DOMAIN I = DOMAIN bars /\ \A x \in DOMAIN bars : I[x] = share BY DEF I
<1>9. t \in Books /\ t.intents = I /\ Untouched(t, b) BY <1>3, <1>5 DEF Books, Untouched
<1> QED BY <1>8, <1>9, <1>10 DEF t, share

(* What buy-and-hold decides. *)
LEMMA BuyAndHoldIs ==
  ASSUME NEW b \in Books, NEW bars \in Bars, DOMAIN bars # {}, NEW funded \in BOOLEAN,
         b.alloc = <<>> => b.held = {}
  PROVE  LET t == BuyAndHold(b, bars, funded)
             alloc == IF b.alloc = <<>> THEN <<DOMAIN bars>> ELSE b.alloc
         IN /\ t \in Books
            /\ Untouched(t, b)
            /\ \/ /\ b.established \/ alloc[1] \subseteq b.held
                  /\ t.established /\ t.alloc = b.alloc /\ DOMAIN t.intents = {}
               \/ /\ ~b.established /\ ~(alloc[1] \subseteq b.held)
                  /\ ~t.established /\ t.alloc = alloc
                  /\ DOMAIN t.intents \subseteq alloc[1] \ b.held
                  /\ funded \/ b.held = {} => DOMAIN t.intents = (alloc[1] \ b.held) \cap DOMAIN bars
                  /\ \A x \in DOMAIN t.intents : t.intents[x] > 0
<1> DEFINE t == BuyAndHold(b, bars, funded)
           alloc == IF b.alloc = <<>> THEN <<DOMAIN bars>> ELSE b.alloc
           missing == alloc[1] \ b.held
           tradable == missing \cap DOMAIN bars
           I == IF b.held = {} THEN [x \in tradable |-> Weight \div Cardinality(alloc[1])]
                ELSE [x \in (IF funded THEN tradable ELSE {}) |-> 1]
<1>1. DOMAIN bars \in SUBSET Symbols /\ b.held \in SUBSET Symbols /\ b.alloc \in Seq(SUBSET Symbols)
  BY BarsIs DEF Books
<1>2. alloc \in Seq(SUBSET Symbols) /\ alloc # <<>> /\ alloc[1] \in SUBSET Symbols
  <2>1. CASE b.alloc = <<>> BY <1>1, <2>1
  <2>2. CASE b.alloc # <<>>
    <3>1. Len(b.alloc) >= 1 BY <1>1, <2>2
    <3> QED BY <1>1, <2>2, <3>1
  <2> QED BY <2>1, <2>2
<1>3. b.alloc = <<>> /\ b.held = {} <=> b.alloc = <<>> OBVIOUS
<1>4. t = IF b.established THEN [b EXCEPT !.intents = <<>>]
          ELSE IF missing = {} THEN [b EXCEPT !.established = TRUE, !.intents = <<>>]
          ELSE [b EXCEPT !.alloc = alloc, !.intents = I]
  BY <1>2, <1>3 DEF BuyAndHold
<1>5. /\ I \in [DOMAIN I -> Nat \ {0}] /\ DOMAIN I \subseteq tradable
      /\ funded \/ b.held = {} => DOMAIN I = tradable
  <2>1. CASE b.held = {}
    <3>1. CASE alloc[1] = {}
      <4>1. tradable = {} BY <3>1
      <4> HIDE DEF tradable
      <4> QED BY <2>1, <4>1
    <3>2. CASE alloc[1] # {}
      <4>1. Weight \div Cardinality(alloc[1]) \in Nat \ {0} BY <1>2, <3>2, Equal
      <4> QED BY <2>1, <4>1
    <3> QED BY <3>1, <3>2
  <2>2. CASE b.held # {} BY <2>2
  <2> QED BY <2>1, <2>2
<1>6. missing \subseteq Symbols /\ tradable \subseteq Symbols BY <1>2
<1> HIDE DEF t, alloc, I
<1>7. I \in [DOMAIN I -> Nat] BY <1>5
<1>8. I \in Intents /\ <<>> \in Intents /\ DOMAIN <<>> = {} BY <1>5, <1>6, <1>7, IntentsIs
<1>9. CASE b.established
  <2>1. t = [b EXCEPT !.intents = <<>>] BY <1>4, <1>9
  <2>2. /\ t \in Books /\ t.intents = <<>> /\ t.alloc = b.alloc /\ t.established
        /\ Untouched(t, b)
    BY <1>8, <1>9, <2>1 DEF Books, Untouched
  <2> QED BY <1>8, <1>9, <2>2 DEF t, alloc
<1>10. CASE ~b.established /\ missing = {}
  <2>1. t = [b EXCEPT !.established = TRUE, !.intents = <<>>] BY <1>4, <1>10
  <2>2. /\ t \in Books /\ t.intents = <<>> /\ t.alloc = b.alloc /\ t.established
        /\ Untouched(t, b)
    BY <1>8, <2>1 DEF Books, Untouched
  <2> QED BY <1>8, <1>10, <2>2 DEF t, alloc
<1>11. CASE ~b.established /\ missing # {}
  <2>1. t = [b EXCEPT !.alloc = alloc, !.intents = I] BY <1>4, <1>11
  <2>2. /\ t \in Books /\ t.intents = I /\ t.alloc = alloc /\ ~t.established
        /\ Untouched(t, b)
    BY <1>2, <1>8, <1>11, <2>1 DEF Books, Untouched
  <2> QED BY <1>5, <1>11, <2>2 DEF t, alloc
<1> QED BY <1>9, <1>10, <1>11

-----------------------------------------------------------------------------
(* The invariant. *)

EqualShare == Weight \div Cardinality(Symbols)

(* A symbol is remembered as long exactly if it was last asked for, and on   *)
(* whole bars it was asked for with the share of a whole universe.           *)
TransitionsKept ==
  strategy \in LongOrFlat =>
    /\ \A x \in Symbols : book.standing[x] > 0 <=> x \in book.long
    /\ book.whole => \A x \in Symbols : book.standing[x] \in {0, EqualShare}

WeightKept ==
  book.whole /\ strategy \notin LongOrFlat \cup {"buy_and_hold"} => Capped(book.standing)

(* After one undisturbed bar every symbol has an order, after two all is held. *)
EqualWeightKept ==
  strategy = "equal_weight" =>
    /\ book.clean >= 1 => DOMAIN book.pending = Symbols /\ \A x \in Symbols : book.pending[x] > 0
    /\ book.clean = 2 => book.held = Symbols

(* Only what is missing of the frozen allocation is ordered; after one       *)
(* undisturbed bar all that is missing is.                                   *)
AllocationKept ==
  strategy = "buy_and_hold" =>
    /\ book.alloc = <<>> => /\ book.held = {} /\ DOMAIN book.pending = {}
                            /\ book.clean = 0 /\ ~book.established
    /\ book.alloc # <<>> => DOMAIN book.pending \subseteq book.alloc[1] \ book.held
    /\ \A x \in DOMAIN book.pending : book.pending[x] > 0
    /\ book.established => book.alloc[1] \subseteq book.held
    /\ book.clean >= 1 /\ ~book.established => book.alloc[1] \ book.held \subseteq DOMAIN book.pending
    /\ book.clean = 2 => book.established

StrategyInv ==
  /\ strategy \in Strategies \cup {"none"} /\ book \in Books
  /\ strategy = "none" => book = Fresh
  /\ TransitionsKept /\ WeightKept /\ EqualWeightKept /\ AllocationKept

(* A strategy that was just built has done nothing. *)
LEMMA FreshIs ==
  /\ Fresh \in Books
  /\ Fresh.clean = 0 /\ Fresh.alloc = <<>> /\ Fresh.held = {} /\ ~Fresh.established
  /\ Fresh.long = {} /\ \A x \in Symbols : Fresh.standing[x] = 0
  /\ DOMAIN Fresh.pending = {} /\ Capped(Fresh.standing)
<1>1. Every \in Nat BY StrategiesAssumption
<1>2. <<>> \in Intents /\ DOMAIN <<>> = {} BY IntentsIs
<1>3. [x \in Symbols |-> <<>>] \in [Symbols -> Seq(Closes)] OBVIOUS
<1>4. [x \in Symbols |-> 0] \in [Symbols -> Nat] OBVIOUS
<1>5. Fresh \in Books BY <1>1, <1>2, <1>3, <1>4 DEF Fresh, Books
<1>6. Fresh.standing = [x \in Symbols |-> 0] BY DEF Fresh
<1>7. Capped([x \in Symbols |-> 0])
  <2>1. Capped([x \in Symbols |-> IF x \in {} THEN 0 ELSE 0])
    <3>1. Cardinality({}) * 0 <= Weight /\ {} \in SUBSET Symbols /\ 0 \in Nat
      BY FS_EmptySet, StrategiesAssumption
    <3> QED BY <3>1, CappedShares
  <2> QED BY <2>1
<1>8. Capped(Fresh.standing) BY <1>6, <1>7
<1>9. /\ Fresh.clean = 0 /\ Fresh.alloc = <<>> /\ Fresh.held = {} /\ ~Fresh.established
      /\ Fresh.long = {} /\ Fresh.pending = <<>>
  BY DEF Fresh
<1> QED BY <1>2, <1>5, <1>6, <1>8, <1>9

(* Building a strategy establishes the invariant. *)
LEMMA StrategyInvFresh == strategy \in Strategies \cup {"none"} /\ book = Fresh => StrategyInv
<1> SUFFICES ASSUME strategy \in Strategies \cup {"none"}, book = Fresh PROVE StrategyInv OBVIOUS
<1>1. TransitionsKept BY FreshIs DEF TransitionsKept
<1>2. WeightKept BY FreshIs DEF WeightKept
<1>3. EqualWeightKept BY FreshIs DEF EqualWeightKept
<1>4. AllocationKept BY FreshIs DEF AllocationKept
<1> QED BY <1>1, <1>2, <1>3, <1>4, FreshIs DEF StrategyInv

(* A cap is about the values. *)
LEMMA CappedSame ==
  ASSUME NEW f \in [Symbols -> Nat], NEW g \in [Symbols -> Nat], Capped(f), \A x \in Symbols : g[x] = f[x]
  PROVE  Capped(g)
<1>1. f = g OBVIOUS
<1> QED BY <1>1

(* One bar, of any strategy. *)
LEMMA BarStep ==
  ASSUME StrategyInv, Bar
  PROVE  StrategyInv'
<1>1. strategy \in Strategies /\ strategy' = strategy /\ book \in Books
  BY DEF Bar, StrategyInv
<1>2. PICK on \in (SUBSET Symbols) \ {{}}, funded \in BOOLEAN :
        \E bars \in [on -> Closes], rejected \in SUBSET (DOMAIN book.pending \cap on) :
           book' = Recorded(OnBar(Extend(Settle(book, bars, rejected), bars), bars, funded), bars,
                            rejected # {} \/ ~funded)
  BY DEF Bar
<1>3. PICK bars \in [on -> Closes], rejected \in SUBSET (DOMAIN book.pending \cap on) :
        book' = Recorded(OnBar(Extend(Settle(book, bars, rejected), bars), bars, funded), bars,
                         rejected # {} \/ ~funded)
  BY <1>2
<1> DEFINE s == Settle(book, bars, rejected)
           e == Extend(s, bars)
           t == OnBar(e, bars, funded)
           trouble == rejected # {} \/ ~funded
           done == (DOMAIN book.pending \cap DOMAIN bars) \ rejected
<1>4. bars \in Bars /\ DOMAIN bars = on /\ on # {} /\ on \subseteq Symbols BY BarsIs
<1>5. /\ s \in Books /\ Unmoved(s, book)
      /\ \A x \in Symbols : x \in s.held <=> IF x \in done THEN book.pending[x] > 0 ELSE x \in book.held
      /\ DOMAIN s.pending = DOMAIN book.pending \ on
      /\ \A x \in DOMAIN s.pending : s.pending[x] = book.pending[x]
  BY <1>1, <1>4, SettleIs
<1> HIDE DEF s
<1>6. e \in Books /\ Unmoved(e, s) /\ e.held = s.held /\ e.pending = s.pending BY <1>1, <1>4, <1>5, ExtendIs
<1> HIDE DEF e
<1>7. /\ e.long = book.long /\ e.alloc = book.alloc /\ e.established = book.established
      /\ e.held = s.held /\ e.pending = s.pending /\ e.standing = book.standing
      /\ e.whole = book.whole /\ e.clean = book.clean
  BY <1>5, <1>6 DEF Unmoved
<1>8. trouble \in BOOLEAN /\ book' = Recorded(t, bars, trouble) BY <1>3 DEF s, e
<1> HIDE DEF t, trouble
<1>9. ASSUME t \in Books
      PROVE  /\ book' \in Books
             /\ book'.long = t.long /\ book'.alloc = t.alloc /\ book'.established = t.established
             /\ book'.held = t.held
             /\ DOMAIN book'.pending = DOMAIN t.pending \cup DOMAIN t.intents
             /\ \A x \in DOMAIN book'.pending :
                  book'.pending[x] = IF x \in DOMAIN t.intents THEN t.intents[x] ELSE t.pending[x]
             /\ \A x \in Symbols :
                  book'.standing[x] = IF x \in DOMAIN t.intents THEN t.intents[x] ELSE t.standing[x]
             /\ book'.whole = (t.whole /\ on = Symbols)
             /\ book'.clean = IF trouble \/ on # Symbols THEN 0
                              ELSE IF t.clean < 2 THEN t.clean + 1 ELSE 2
  BY <1>4, <1>8, <1>9, RecordedIs
<1>10. CASE strategy \in LongOrFlat
  <2>0. PICK W \in SUBSET (DOMAIN bars) : \E wants \in [W -> BOOLEAN] : t = Transition(e, bars, wants)
    BY <1>4, <1>6, <1>10, LongOrFlatIs DEF t
  <2>1. PICK wants \in [W -> BOOLEAN] : t = Transition(e, bars, wants) BY <2>0
  <2> DEFINE share == Weight \div Cardinality(DOMAIN bars)
  <2>2. /\ t \in Books
        /\ Untouched(t, e)
        /\ DOMAIN t.intents \subseteq DOMAIN bars
        /\ \A x \in DOMAIN t.intents : t.intents[x] = IF x \in t.long THEN share ELSE 0
        /\ \A x \in Symbols : x \notin DOMAIN t.intents => (x \in t.long <=> x \in e.long)
    BY <1>4, <1>6, <2>1, TransitionIs
  <2>3. t.standing = book.standing /\ t.whole = book.whole BY <1>7, <2>2 DEF Untouched
  <2>4. share \in Nat \ {0} /\ (on = Symbols => share = EqualShare) BY <1>4, Equal DEF EqualShare
  <2> HIDE DEF share
  <2>5. book.standing \in [Symbols -> Nat] BY <1>1 DEF Books
  <2>6. \A x \in Symbols : book'.standing[x] > 0 <=> x \in book'.long
    <3> SUFFICES ASSUME NEW x \in Symbols PROVE book'.standing[x] > 0 <=> x \in book'.long OBVIOUS
    <3>1. /\ book'.long = t.long
          /\ book'.standing[x] = IF x \in DOMAIN t.intents THEN t.intents[x] ELSE book.standing[x]
      BY <1>9, <2>2, <2>3
    <3>2. CASE x \in DOMAIN t.intents BY <2>2, <2>4, <3>1, <3>2
    <3>3. CASE x \notin DOMAIN t.intents
      <4>1. x \in t.long <=> x \in e.long BY <2>2, <3>3
      <4>2. book.standing[x] > 0 <=> x \in book.long BY <1>10 DEF StrategyInv, TransitionsKept
      <4> QED BY <1>7, <3>1, <3>3, <4>1, <4>2
    <3> QED BY <3>2, <3>3
  <2>7. ASSUME book'.whole, NEW x \in Symbols PROVE book'.standing[x] \in {0, EqualShare}
    BY <1>9, <1>10, <2>2, <2>3, <2>4, <2>7 DEF StrategyInv, TransitionsKept
  <2>8. TransitionsKept' BY <1>1, <2>6, <2>7 DEF TransitionsKept, EqualShare
  <2>9. WeightKept' /\ EqualWeightKept' /\ AllocationKept'
    BY <1>1, <1>10 DEF WeightKept, EqualWeightKept, AllocationKept, LongOrFlat
  <2> QED BY <1>1, <1>9, <1>10, <2>2, <2>8, <2>9 DEF StrategyInv, Strategies
<1>11. CASE strategy \in {"cross_sectional", "trend_following"}
  <2>0. \E scored : \E target \in [DOMAIN bars -> Nat] :
          t = Rebalance(e, bars, scored, target) /\ Capped(target)
    BY <1>4, <1>6, <1>11, CrossSectionalIs, TrendFollowingIs DEF t, OnBar
  <2>00. PICK scored : \E target \in [DOMAIN bars -> Nat] :
           t = Rebalance(e, bars, scored, target) /\ Capped(target)
    BY <2>0
  <2>1. PICK target \in [DOMAIN bars -> Nat] : t = Rebalance(e, bars, scored, target) /\ Capped(target)
    BY <2>00
  <2>2. /\ t \in Books
        /\ Untouched(t, e)
        /\ t.intents = <<>> \/ t.intents = target
    BY <1>4, <1>6, <2>1, RebalanceIs
  <2>3. t.standing = book.standing /\ t.whole = book.whole BY <1>7, <2>2 DEF Untouched
  <2>4. ASSUME book'.whole PROVE Capped(book'.standing)
    <3>1. on = Symbols /\ book.whole BY <1>9, <2>2, <2>3, <2>4
    <3>2. book'.standing \in [Symbols -> Nat] /\ book.standing \in [Symbols -> Nat]
      BY <1>1, <1>9, <2>2 DEF Books
    <3>3. CASE t.intents = <<>>
      <4>1. DOMAIN t.intents = {} BY <3>3
      <4>2. \A x \in Symbols : book'.standing[x] = book.standing[x] BY <1>9, <2>2, <2>3, <4>1
      <4>3. Capped(book.standing) BY <1>11, <3>1 DEF StrategyInv, WeightKept, LongOrFlat
      <4> QED BY <3>2, <4>2, <4>3, CappedSame
    <3>4. CASE t.intents = target
      <4>1. DOMAIN t.intents = Symbols BY <1>4, <3>1, <3>4
      <4>2. \A x \in Symbols : book'.standing[x] = t.intents[x] BY <1>9, <2>2, <4>1
      <4>3. t.intents \in [Symbols -> Nat] BY <1>4, <2>1, <3>1, <3>4
      <4> QED BY <2>1, <3>2, <3>4, <4>2, <4>3, CappedSame
    <3> QED BY <2>2, <3>3, <3>4
  <2>5. WeightKept' BY <1>1, <2>4 DEF WeightKept, Capped
  <2>6. TransitionsKept' /\ EqualWeightKept' /\ AllocationKept'
    BY <1>1, <1>11 DEF TransitionsKept, EqualWeightKept, AllocationKept, LongOrFlat
  <2> QED BY <1>1, <1>9, <1>11, <2>2, <2>5, <2>6 DEF StrategyInv
<1>12. CASE strategy = "equal_weight"
  <2> DEFINE share == Weight \div Cardinality(DOMAIN bars)
  <2>1. /\ t \in Books
        /\ Untouched(t, e)
        /\ DOMAIN t.intents = DOMAIN bars /\ \A x \in DOMAIN bars : t.intents[x] = share
        /\ Capped(t.intents)
    BY <1>4, <1>6, <1>12, EqualWeightIs DEF t, OnBar
  <2>2. /\ t.standing = book.standing /\ t.whole = book.whole /\ t.clean = book.clean
        /\ t.held = s.held /\ t.pending = s.pending
    BY <1>7, <2>1 DEF Untouched
  <2>3. share \in Nat \ {0} BY <1>4, Equal
  <2> HIDE DEF share
  <2>4. DOMAIN t.intents = on BY <1>4, <2>1
  <2>5. ASSUME book'.whole PROVE Capped(book'.standing)
    <3>1. on = Symbols BY <1>9, <2>1, <2>5
    <3>2. book'.standing \in [Symbols -> Nat] BY <1>9, <2>1 DEF Books
    <3>3. \A x \in Symbols : book'.standing[x] = t.intents[x] BY <1>9, <2>1, <2>4, <3>1
    <3>4. t.intents \in [Symbols -> Nat]
      <4>1. t.intents \in Intents BY <2>1 DEF Books
      <4> QED BY <1>4, <2>1, <3>1, <4>1, IntentsIs
    <3> QED BY <2>1, <3>2, <3>3, <3>4, CappedSame
  <2>6. WeightKept' BY <1>1, <2>5 DEF WeightKept, Capped
  <2>7. /\ book.clean \in 0 .. 2 /\ book.held \in SUBSET Symbols /\ s.held \in SUBSET Symbols
        /\ DOMAIN book.pending \subseteq Symbols
    <3>1. book.pending \in Intents BY <1>1 DEF Books
    <3> QED BY <1>1, <1>5, <3>1, IntentsIs DEF Books
  <2>8. ASSUME book'.clean >= 1
        PROVE  /\ on = Symbols /\ rejected = {} /\ book'.clean = IF book.clean < 2 THEN book.clean + 1 ELSE 2
               /\ DOMAIN book'.pending = Symbols /\ \A x \in Symbols : book'.pending[x] > 0
    <3>1. /\ on = Symbols /\ ~trouble
          /\ book'.clean = IF book.clean < 2 THEN book.clean + 1 ELSE 2
      BY <1>9, <2>1, <2>2, <2>8
    <3>2. DOMAIN book'.pending = Symbols BY <1>4, <1>5, <1>9, <2>1, <2>2, <2>4, <2>7, <3>1
    <3>3. \A x \in Symbols : book'.pending[x] > 0 BY <1>4, <1>9, <2>1, <2>3, <2>4, <3>1, <3>2
    <3> QED BY <3>1, <3>2, <3>3 DEF trouble
  <2>9. ASSUME book'.clean = 2 PROVE book'.held = Symbols
    <3>1. on = Symbols /\ rejected = {} /\ book.clean >= 1 BY <2>7, <2>8, <2>9
    <3>2. DOMAIN book.pending = Symbols /\ \A x \in Symbols : book.pending[x] > 0
      BY <1>12, <3>1 DEF StrategyInv, EqualWeightKept
    <3>3. s.held = Symbols BY <1>4, <1>5, <2>7, <3>1, <3>2
    <3> QED BY <1>9, <2>1, <2>2, <3>3
  <2>10. EqualWeightKept' BY <1>1, <2>8, <2>9 DEF EqualWeightKept
  <2>11. TransitionsKept' /\ AllocationKept'
    BY <1>1, <1>12 DEF TransitionsKept, AllocationKept, LongOrFlat
  <2> QED BY <1>1, <1>9, <1>12, <2>1, <2>6, <2>10, <2>11 DEF StrategyInv
<1>13. CASE strategy = "buy_and_hold"
  <2> DEFINE alloc == IF e.alloc = <<>> THEN <<DOMAIN bars>> ELSE e.alloc
  <2>1. /\ book.alloc = <<>> => /\ book.held = {} /\ DOMAIN book.pending = {}
                                /\ book.clean = 0 /\ ~book.established
        /\ book.alloc # <<>> => DOMAIN book.pending \subseteq book.alloc[1] \ book.held
        /\ \A x \in DOMAIN book.pending : book.pending[x] > 0
        /\ book.established => book.alloc[1] \subseteq book.held
        /\ book.clean >= 1 /\ ~book.established => book.alloc[1] \ book.held \subseteq DOMAIN book.pending
        /\ book.clean = 2 => book.established
    BY <1>13 DEF StrategyInv, AllocationKept
  <2>2. /\ book.clean \in 0 .. 2 /\ book.held \in SUBSET Symbols /\ book.alloc \in Seq(SUBSET Symbols)
        /\ book.established \in BOOLEAN
    BY <1>1 DEF Books
  <2>3. s.held = book.held \cup done /\ DOMAIN s.pending \cap s.held = {}
    <3>1. DOMAIN book.pending \cap book.held = {} BY <2>1
    <3>2. s.held \in SUBSET Symbols /\ DOMAIN book.pending \subseteq Symbols
      <4>1. book.pending \in Intents BY <1>1 DEF Books
      <4> QED BY <1>5, <4>1, IntentsIs DEF Books
    <3> QED BY <1>4, <1>5, <2>1, <2>2, <3>1, <3>2
  <2>4. e.alloc = <<>> => e.held = {} BY <1>7, <2>1, <2>3
  <2>5. /\ t \in Books
        /\ Untouched(t, e)
        /\ \/ /\ e.established \/ alloc[1] \subseteq e.held
              /\ t.established /\ t.alloc = e.alloc /\ DOMAIN t.intents = {}
           \/ /\ ~e.established /\ ~(alloc[1] \subseteq e.held)
              /\ ~t.established /\ t.alloc = alloc
              /\ DOMAIN t.intents \subseteq alloc[1] \ e.held
              /\ funded \/ e.held = {} => DOMAIN t.intents = (alloc[1] \ e.held) \cap DOMAIN bars
              /\ \A x \in DOMAIN t.intents : t.intents[x] > 0
    BY <1>4, <1>6, <1>13, <2>4, BuyAndHoldIs DEF t, OnBar
  <2>6. t.held = s.held /\ t.pending = s.pending /\ t.clean = book.clean
    BY <1>7, <2>5 DEF Untouched
  <2>8. DOMAIN s.pending \subseteq alloc[1] \ s.held
    BY <1>5, <1>7, <2>1, <2>3
  <2>9. \A x \in DOMAIN s.pending : s.pending[x] > 0 BY <1>5, <2>1
  <2>10. alloc[1] \subseteq Symbols
    <3>1. CASE e.alloc = <<>> BY <1>4, <3>1
    <3>2. CASE e.alloc # <<>>
      <4>1. Len(book.alloc) >= 1 BY <1>7, <2>2, <3>2
      <4> QED BY <1>7, <2>2, <3>2, <4>1
    <3> QED BY <3>1, <3>2
  <2>11. ASSUME book'.clean >= 1
         PROVE  /\ on = Symbols /\ rejected = {} /\ funded
                /\ book'.clean = IF book.clean < 2 THEN book.clean + 1 ELSE 2
    <3>1. on = Symbols /\ ~trouble /\ book'.clean = IF book.clean < 2 THEN book.clean + 1 ELSE 2
      BY <1>9, <2>5, <2>6, <2>11
    <3> QED BY <3>1 DEF trouble
  <2>12. ASSUME /\ e.established \/ alloc[1] \subseteq e.held
                /\ t.established /\ t.alloc = e.alloc /\ DOMAIN t.intents = {}
         PROVE  AllocationKept'
    <3>1. e.alloc # <<>> /\ alloc = book.alloc
      <4> SUFFICES ASSUME e.alloc = <<>> PROVE FALSE BY <1>7
      <4>1. ~e.established /\ e.held = {} /\ alloc[1] = DOMAIN bars BY <1>7, <2>1, <2>4
      <4> QED BY <1>4, <2>12, <4>1
    <3>2. alloc[1] \subseteq s.held BY <1>7, <2>1, <2>3, <2>12, <3>1
    <3>3. DOMAIN book'.pending = {} BY <1>9, <2>5, <2>6, <2>8, <2>12, <3>2
    <3>4. book'.alloc = book.alloc /\ book'.established /\ book'.held = s.held /\ book.alloc # <<>>
      BY <1>7, <1>9, <2>5, <2>6, <2>12, <3>1
    <3> QED BY <1>1, <3>1, <3>2, <3>3, <3>4 DEF AllocationKept
  <2>13. ASSUME /\ ~e.established /\ ~(alloc[1] \subseteq e.held)
                /\ ~t.established /\ t.alloc = alloc
                /\ DOMAIN t.intents \subseteq alloc[1] \ e.held
                /\ funded \/ e.held = {} => DOMAIN t.intents = (alloc[1] \ e.held) \cap DOMAIN bars
                /\ \A x \in DOMAIN t.intents : t.intents[x] > 0
         PROVE  AllocationKept'
    <3>1. book'.alloc = alloc /\ ~book'.established /\ book'.held = s.held
      BY <1>9, <2>5, <2>6, <2>13
    <3>2. alloc # <<>> BY <1>4
    <3> HIDE DEF alloc
    <3>3. DOMAIN book'.pending \subseteq alloc[1] \ s.held
      BY <1>7, <1>9, <2>5, <2>6, <2>8, <2>13
    <3>4. \A x \in DOMAIN book'.pending : book'.pending[x] > 0
      BY <1>9, <2>5, <2>6, <2>9, <2>13
    <3>5. ASSUME book'.clean >= 1 PROVE alloc[1] \ s.held \subseteq DOMAIN book'.pending
      BY <1>4, <1>7, <1>9, <2>5, <2>10, <2>11, <2>13, <3>5
    <3>6. book'.clean # 2
      <4> SUFFICES ASSUME book'.clean = 2 PROVE FALSE OBVIOUS
      <4>1. on = Symbols /\ rejected = {} /\ book.clean >= 1 BY <2>2, <2>11
      <4>2. book.alloc # <<>> /\ ~book.established /\ alloc = book.alloc BY <1>7, <2>1, <2>13, <4>1 DEF alloc
      <4>3. alloc[1] \ book.held \subseteq DOMAIN book.pending BY <2>1, <4>1, <4>2
      <4>4. done = DOMAIN book.pending BY <1>4, <2>1, <2>10, <4>1, <4>2
      <4>5. alloc[1] \subseteq s.held BY <2>3, <4>3, <4>4
      <4> QED BY <1>7, <2>13, <4>5
    <3> QED BY <1>1, <3>1, <3>2, <3>3, <3>4, <3>5, <3>6 DEF AllocationKept
  <2>14. AllocationKept' BY <2>5, <2>12, <2>13
  <2>15. TransitionsKept' /\ WeightKept' /\ EqualWeightKept'
    BY <1>1, <1>13 DEF TransitionsKept, WeightKept, EqualWeightKept, LongOrFlat
  <2> QED BY <1>1, <1>9, <1>13, <2>5, <2>14, <2>15 DEF StrategyInv
<1> QED BY <1>1, <1>10, <1>11, <1>12, <1>13 DEF Strategies, LongOrFlat

(* Every step keeps the invariant. *)
LEMMA StrategyStep == StrategyInv /\ [StrategyNext]_<<strategy, book>> => StrategyInv'
<1> SUFFICES ASSUME StrategyInv, [StrategyNext]_<<strategy, book>> PROVE StrategyInv' OBVIOUS
<1>1. CASE Build
  <2>1. strategy' \in Strategies /\ book' = Fresh BY <1>1 DEF Build, StrategyInv
  <2>2. (strategy \in Strategies \cup {"none"} /\ book = Fresh => StrategyInv)'
    BY StrategyInvFresh, PTL
  <2> QED BY <2>1, <2>2 DEF Fresh
<1>2. CASE Bar BY <1>2, BarStep
<1>3. CASE UNCHANGED <<strategy, book>>
  BY <1>3 DEF StrategyInv, TransitionsKept, WeightKept, EqualWeightKept, AllocationKept, Capped
<1> QED BY <1>1, <1>2, <1>3 DEF StrategyNext

(* The inductive invariant holds throughout. *)
LEMMA StrategyHolds == StrategySpec => []StrategyInv
<1>1. StrategyInit => StrategyInv BY StrategyInvFresh DEF StrategyInit
<1> QED BY <1>1, StrategyStep, PTL DEF StrategySpec

(* Every strategy of the registry keeps its book, for every number of symbols, *)
(* every window and every run of bars, orders, rejections and missing bars: a  *)
(* transition strategy is long of exactly what it last asked for, equal weight *)
(* and buy and hold hold their allocation two undisturbed bars after whatever  *)
(* was rejected or missed, and while no bar has missed a symbol no strategy    *)
(* but buy and hold has asked for more than the whole (the strategies' on_bar, *)
(* with the orders the broker refuses).                                        *)
THEOREM BooksAreKept == StrategySpec => []StrategiesKeepTheirBook
<1>1. StrategyInv => StrategiesKeepTheirBook
  <2> SUFFICES ASSUME StrategyInv PROVE StrategiesKeepTheirBook OBVIOUS
  <2>1. book.standing \in [Symbols -> Nat] /\ book.clean \in 0 .. 2 /\ book.alloc \in Seq(SUBSET Symbols)
    BY DEF StrategyInv, Books
  <2>2. ASSUME book.whole, strategy # "buy_and_hold" PROVE Sum(book.standing) <= Weight
    <3>1. Sum(book.standing) = SumFunctionOnSet(book.standing, Symbols) BY <2>1 DEF Sum, SumFunction
    <3>2. CASE strategy \in LongOrFlat
      <4> DEFINE T == {x \in Symbols : book.standing[x] = EqualShare}
      <4>1. CASE Symbols = {}
        <5>1. SumFunctionOnSet(book.standing, {}) = 0 BY SumEmpty
        <5> QED BY <3>1, <4>1, <5>1, StrategiesAssumption
      <4>2. CASE Symbols # {}
        <5>1. /\ EqualShare \in Nat /\ Cardinality(Symbols) * EqualShare <= Weight /\ IsFiniteSet(Symbols)
              /\ Cardinality(Symbols) \in Nat /\ Weight \in Nat
          BY <4>2, Equal, StrategiesAssumption DEF EqualShare
        <5>2. /\ \A x \in T : book.standing[x] = EqualShare
              /\ \A x \in Symbols \ T : book.standing[x] = 0
          BY <2>2, <3>2 DEF StrategyInv, TransitionsKept
        <5>3. T \in SUBSET Symbols OBVIOUS
        <5> HIDE DEF T
        <5>4. SumFunctionOnSet(book.standing, Symbols) = Cardinality(T) * EqualShare
          BY <5>1, <5>2, <5>3, SumShares
        <5>5. Cardinality(T) \in 0 .. Cardinality(Symbols) BY <5>1, <5>3, FS_Subset, FS_CardinalityType
        <5>6. Cardinality(T) * EqualShare <= Weight BY <5>1, <5>5, AtMost
        <5> QED BY <3>1, <5>4, <5>6
      <4> QED BY <4>1, <4>2
    <3>3. CASE strategy \notin LongOrFlat
      <4>1. Capped(book.standing) BY <2>2, <3>3 DEF StrategyInv, WeightKept
      <4> QED BY <2>1, <4>1 DEF Capped, Sum, SumFunction
    <3> QED BY <3>2, <3>3
  <2>3. strategy \in LongOrFlat => \A x \in Symbols : book.standing[x] > 0 <=> x \in book.long
    BY DEF StrategyInv, TransitionsKept
  <2>4. strategy = "equal_weight" /\ book.clean = 2 => book.held = Symbols
    BY DEF StrategyInv, EqualWeightKept
  <2>5. ASSUME strategy = "buy_and_hold"
        PROVE  /\ book.clean = 2 => book.established
               /\ book.established => book.alloc[1] \subseteq book.held /\ DOMAIN book.pending = {}
               /\ DOMAIN book.pending \cap book.held = {}
    BY <2>5 DEF StrategyInv, AllocationKept
  <2> QED BY <2>2, <2>3, <2>4, <2>5 DEF StrategiesKeepTheirBook, LongOrFlat
<1> QED BY <1>1, StrategyHolds, PTL

(* A research command is a run of one strategy, so its books are kept.         *)
COROLLARY ResearchKeepsBooks == Spec => []StrategiesKeepTheirBook
<1>1. Init => StrategyInit BY DEF Init
<1>2. [Next]_<<study, strategy, book>> => [StrategyNext]_<<strategy, book>> BY DEF Next
<1>3. Spec => StrategySpec BY <1>1, <1>2, PTL DEF Spec, StrategySpec
<1> QED BY <1>3, BooksAreKept

-----------------------------------------------------------------------------
(* Spans of time (Sweep) *)

(* A day starts where the last one ended, and later times are on later days.  *)
LEMMA DaysPass ==
  ASSUME NEW a \in Int, NEW b \in Int
  PROVE  /\ a \div Day \in Int /\ NextDayStart(a) \in Int /\ a < NextDayStart(a)
         /\ b <= a => b \div Day <= a \div Day
         /\ NextDayStart(a) <= b => a \div Day < b \div Day
<1>1. Day \in Nat \ {0} BY SweepAssumption
<1> DEFINE p == a \div Day
           q == b \div Day
<1>2. /\ p \in Int /\ a = Day * p + (a % Day) /\ a % Day \in 0 .. Day - 1
      /\ q \in Int /\ b = Day * q + (b % Day) /\ b % Day \in 0 .. Day - 1
  BY <1>1
<1>3. NextDayStart(a) = (p + 1) * Day BY DEF NextDayStart
<1> HIDE DEF p, q
<1>4. (p + 1) * Day \in Int /\ (p + 1) * Day = Day * p + Day BY <1>1, <1>2
<1>5. ASSUME NEW x \in Int, NEW y \in Int, x <= y - 1 PROVE Day * x <= Day * y - Day
  <2>1. Day * x <= Day * (y - 1)
    <3>1. y - 1 - x \in Nat BY <1>5
    <3>2. Day * (y - 1 - x) \in Nat BY <1>1, <3>1
    <3>3. Day * (y - 1) - Day * x = Day * (y - 1 - x) BY <1>1, <1>5
    <3> QED BY <1>1, <1>5, <3>2, <3>3
  <2> QED BY <1>1, <1>5, <2>1
<1>6. ASSUME b <= a PROVE q <= p
  <2> SUFFICES ASSUME p <= q - 1 PROVE FALSE BY <1>2
  <2>1. Day * p <= Day * q - Day BY <1>2, <1>5
  <2> QED BY <1>1, <1>2, <1>6, <2>1
<1>7. ASSUME (p + 1) * Day <= b PROVE p < q
  <2> SUFFICES ASSUME q <= p PROVE FALSE BY <1>2
  <2>1. Day * q <= Day * p
    <3>1. q <= (p + 1) - 1 BY <1>2
    <3>2. Day * q <= Day * (p + 1) - Day BY <1>2, <1>5, <3>1
    <3> QED BY <1>1, <1>2, <3>2
  <2> QED BY <1>1, <1>2, <1>4, <1>7, <2>1
<1> QED BY <1>1, <1>2, <1>3, <1>4, <1>6, <1>7 DEF p, q

(* The windows of a range follow each other without a gap.                    *)
Marks(B, n) ==
  /\ B \in [0 .. n -> Int]
  /\ \A i \in 0 .. n : \A j \in 0 .. i : B[j] <= B[i]

Between(W, B, n) == \A i \in 1 .. n : W[i].from = B[i - 1] /\ W[i].to = B[i]

(* What split_windows returns: each window lies between two marks.             *)
LEMMA WindowsAre ==
  ASSUME NEW start \in Int, NEW end \in Int, NEW n \in Nat \ {0, 1}, start < end
  PROVE  /\ Len(SplitWindows(start, end, n)) = n /\ DOMAIN SplitWindows(start, end, n) = 1 .. n
         /\ \E B : /\ Marks(B, n) /\ B[0] = start /\ B[n] = end
                  /\ Between(SplitWindows(start, end, n), B, n)
<1> DEFINE width == (end - start) \div n
           B == [i \in 0 .. n |-> IF i = n THEN end ELSE start + width * i]
           W == SplitWindows(start, end, n)
<1>1. end - start \in Nat /\ n \in Nat \ {0} OBVIOUS
<1>2. width \in Nat /\ n * width <= end - start BY <1>1, ShareIs
<1> HIDE DEF width
<1>3. B \in [0 .. n -> Int] BY <1>2
<1>4. B[0] = start /\ B[n] = end BY <1>2
<1>5. ASSUME NEW i \in 0 .. n, NEW j \in 0 .. i PROVE B[j] <= B[i]
  <2>1. CASE i = j BY <1>3, <2>1
  <2>2. CASE i # j
    <3>1. j \in 0 .. n - 1 /\ B[j] = start + width * j BY <2>2
    <3>2. width * j <= width * i
      <4>1. i - j \in Nat /\ width * (i - j) \in Nat BY <1>2
      <4>2. width * i - width * j = width * (i - j) BY <1>2
      <4> QED BY <1>2, <4>1, <4>2
    <3>3. width * i <= width * n
      <4>1. n - i \in Nat /\ width * (n - i) \in Nat BY <1>2
      <4>2. width * n - width * i = width * (n - i) BY <1>2
      <4> QED BY <1>2, <4>1, <4>2
    <3>4. width * j \in Int /\ width * i \in Int /\ width * n = n * width BY <1>2
    <3>5. CASE i = n BY <1>2, <3>1, <3>2, <3>3, <3>4, <3>5
    <3>6. CASE i # n BY <3>1, <3>2, <3>4, <3>6
    <3> QED BY <3>5, <3>6
  <2> QED BY <2>1, <2>2
<1>6. W = [i \in 1 .. n |-> Span(B[i - 1], B[i])]
  <2> DEFINE V == [i \in 1 .. n |-> Span(IF i - 1 = n THEN end ELSE start + width * (i - 1),
                                         IF i = n THEN end ELSE start + width * i)]
  <2>1. W = V
    <3>1. ~(n <= 1 \/ end <= start) OBVIOUS
    <3> QED BY <3>1 DEF SplitWindows, width
  <2>2. ASSUME NEW i \in 1 .. n PROVE V[i] = Span(B[i - 1], B[i])
    <3>1. i - 1 \in 0 .. n /\ i \in 0 .. n OBVIOUS
    <3> QED BY <3>1
  <2> HIDE DEF B
  <2> QED BY <2>1, <2>2
<1> HIDE DEF B, W
<1>7. Len(W) = n /\ DOMAIN W = 1 .. n /\ \A i \in 1 .. n : W[i] = Span(B[i - 1], B[i]) BY <1>6
<1>8. Between(W, B, n) BY <1>7 DEF Between, Span
<1>9. Marks(B, n) BY <1>3, <1>5 DEF Marks
<1> QED BY <1>4, <1>7, <1>8, <1>9 DEF W

(* The windows of a sweep cover its range and touch only in one instant, for   *)
(* every range and every number of windows (split_windows).                    *)
THEOREM WindowsAlwaysTile ==
  ASSUME NEW start \in Int, NEW end \in Int, NEW windows \in Nat
  PROVE  WindowsTile(start, end, windows)
<1> DEFINE W == SplitWindows(start, end, windows)
<1>1. CASE windows <= 1 \/ end <= start
  <2>1. W = <<Span(start, end)>> BY <1>1 DEF SplitWindows
  <2>2. Len(W) = 1 /\ DOMAIN W = {1} /\ W[1] = Span(start, end) BY <2>1
  <2> HIDE DEF W
  <2>3. W[1].from = start /\ W[1].to = end BY <2>2 DEF Span
  <2>4. \A i \in 1 .. Len(W) - 1 : FALSE BY <2>2
  <2>5. start < end => \A i \in DOMAIN W : W[i].from <= W[i].to BY <2>2, <2>3
  <2> QED BY <2>2, <2>3, <2>4, <2>5 DEF WindowsTile, W
<1>2. CASE windows \in Nat \ {0, 1} /\ start < end
  <2>1. Len(W) = windows /\ DOMAIN W = 1 .. windows BY <1>2, WindowsAre
  <2>2. PICK B : Marks(B, windows) /\ B[0] = start /\ B[windows] = end /\ Between(W, B, windows)
    BY <1>2, WindowsAre
  <2> HIDE DEF W
  <2>3. \A i \in 1 .. windows : W[i].from = B[i - 1] /\ W[i].to = B[i] BY <2>2 DEF Between
  <2>4. W[1].from = start /\ W[windows].to = end BY <1>2, <2>2, <2>3
  <2>5. \A i \in 1 .. windows - 1 : W[i].to = W[i + 1].from BY <2>3
  <2>6. \A i \in 1 .. windows : W[i].from <= W[i].to BY <2>2, <2>3 DEF Marks
  <2> QED BY <2>1, <2>4, <2>5, <2>6 DEF WindowsTile, W
<1> QED BY <1>1, <1>2

Splits(spans, B, folds) ==
  \A k \in 1 .. folds : /\ spans[k].inSample.to = B[k]
                        /\ spans[k].outOfSample.from = NextDayStart(B[k])
                        /\ spans[k].outOfSample.to = B[k + 1]

(* An out-of-sample span starts on the day after its in-sample span, and ends  *)
(* before the in-sample span of the next fold does.                            *)
LEMMA FoldsAre ==
  ASSUME NEW start \in Int, NEW end \in Int, NEW folds \in Nat, NEW mode
  PROVE  LET spans == SplitFolds(start, end, folds, mode)
         IN \/ DOMAIN spans = {} /\ spans = <<>>
            \/ /\ DOMAIN spans = 1 .. folds /\ Len(spans) = folds
               /\ \E B : Marks(B, folds + 1) /\ Splits(spans, B, folds)
<1> DEFINE spans == SplitFolds(start, end, folds, mode)
<1>1. CASE folds < 1 \/ end <= start
  <2>1. spans = <<>> BY <1>1 DEF SplitFolds
  <2> QED BY <2>1
<1>2. CASE folds >= 1 /\ start < end
  <2> DEFINE W == SplitWindows(start, end, folds + 1)
             From(k) == IF mode = "anchored" THEN start ELSE W[k].from
  <2>1. folds + 1 \in Nat \ {0, 1} BY <1>2
  <2>2. PICK B : Marks(B, folds + 1) /\ Between(W, B, folds + 1)
    BY <1>2, <2>1, WindowsAre
  <2>3. spans = [k \in 1 .. folds |-> [inSample |-> Span(From(k), W[k].to),
                                      outOfSample |-> Span(NextDayStart(W[k].to), W[k + 1].to)]]
    BY <1>2 DEF SplitFolds
  <2> HIDE DEF W, From, spans
  <2>4. DOMAIN spans = 1 .. folds /\ Len(spans) = folds BY <2>3
  <2>5. ASSUME NEW k \in 1 .. folds
        PROVE  /\ spans[k].inSample.to = B[k]
               /\ spans[k].outOfSample.from = NextDayStart(B[k])
               /\ spans[k].outOfSample.to = B[k + 1]
    <3>1. k \in 1 .. folds + 1 /\ k + 1 \in 1 .. folds + 1 BY <1>2
    <3>2. W[k].to = B[k] /\ W[k + 1].to = B[k + 1] BY <2>2, <3>1 DEF Between
    <3>3. /\ spans[k].inSample = Span(From(k), W[k].to)
          /\ spans[k].outOfSample = Span(NextDayStart(W[k].to), W[k + 1].to)
      BY <2>3
    <3> QED BY <3>2, <3>3 DEF Span
  <2>6. Splits(spans, B, folds) BY <2>5 DEF Splits
  <2> QED BY <2>2, <2>4, <2>6 DEF spans
<1> QED BY <1>1, <1>2

(* The in-sample scores of a grid on fold k, and why a fold may not complete.  *)
ScoresOf(runnable, score, k) == [i \in DOMAIN runnable |-> score[runnable[i]][k]]

Excused(f) == f.why \in {"no in-sample data", "no out-of-sample data"}

(* What run_walk_forward reports of a fold.                                    *)
LEMMA FoldIs ==
  ASSUME NEW k, NEW span, NEW runnable, NEW tape, NEW score,
         NEW f, f = RunFold(k, span, runnable, tape, score)
  PROVE  /\ f.usable \in BOOLEAN
         /\ f.usable => /\ f.seen = BarsIn(tape, span.inSample)
                        /\ f.tested = BarsIn(tape, span.outOfSample)
                        /\ f.sharpes = ScoresOf(runnable, score, k)
         /\ ~f.usable /\ runnable # <<>> => Excused(f)
<1> DEFINE scored == [i \in DOMAIN runnable |-> [params |-> runnable[i], score |-> score[runnable[i]][k]]]
<1>1. DOMAIN scored = DOMAIN runnable /\ \A i \in DOMAIN scored : scored[i].score = score[runnable[i]][k]
  OBVIOUS
<1>2. [i \in DOMAIN scored |-> scored[i].score] = [i \in DOMAIN runnable |-> score[runnable[i]][k]]
  BY <1>1
<1> DEFINE s == [i \in DOMAIN scored |-> scored[i].score]
           is == BarsIn(tape, span.inSample)
           oos == BarsIn(tape, span.outOfSample)
           p == Best(scored).params
           w == {x \in {"in", "out"} : Cardinality(IF x = "in" THEN is ELSE oos) < 2}
           g == RunFold(k, span, runnable, tape, score)
<1>3. g = IF runnable = <<>> THEN [index |-> k, usable |-> FALSE, why |-> "no combination"]
          ELSE IF is = {} THEN [index |-> k, usable |-> FALSE, why |-> "no in-sample data"]
          ELSE IF oos = {} THEN [index |-> k, usable |-> FALSE, why |-> "no out-of-sample data"]
          ELSE [index |-> k, usable |-> TRUE, params |-> p, seen |-> is, tested |-> oos,
                sharpes |-> s, warnings |-> w]
  BY DEF RunFold
<1>4. s = [i \in DOMAIN runnable |-> score[runnable[i]][k]] BY <1>2
<1>6. s = ScoresOf(runnable, score, k) BY <1>4 DEF ScoresOf
<1> HIDE DEF g, scored, is, oos, p, w, s
<1>5. /\ g.usable \in BOOLEAN
      /\ g.usable => g.seen = is /\ g.tested = oos /\ g.sharpes = s
      /\ ~g.usable /\ runnable # <<>> => Excused(g)
  <2>1. CASE runnable = <<>> BY <1>3, <2>1
  <2>2. CASE runnable # <<>> /\ is = {} BY <1>3, <2>2 DEF Excused
  <2>3. CASE runnable # <<>> /\ is # {} /\ oos = {} BY <1>3, <2>3 DEF Excused
  <2>4. CASE runnable # <<>> /\ is # {} /\ oos # {} BY <1>3, <2>4
  <2> QED BY <2>1, <2>2, <2>3, <2>4
<1>7. f = g BY DEF g
<1> QED BY <1>5, <1>6, <1>7 DEF is, oos

(* The completed folds of a walk-forward, in order.                            *)
Usable(walk, n) == {i \in 1 .. n : walk[i].usable}

(* What Completed selects, and in which order.                                 *)
LEMMA CompletedAre ==
  ASSUME NEW n \in Nat, NEW walk, DOMAIN walk = 1 .. n
  PROVE  LET I == Usable(walk, n)
         IN /\ I \in SUBSET Nat /\ IsFiniteSet(I)
            /\ Cardinality(I) \in Nat /\ Len(Completed(walk)) = Cardinality(I)
            /\ DOMAIN Completed(walk) = 1 .. Cardinality(I)
            /\ Ranked(I) \in [1 .. Cardinality(I) -> I]
            /\ \A j \in 1 .. Cardinality(I) : Completed(walk)[j] = walk[Ranked(I)[j]]
            /\ \A j, k \in 1 .. Cardinality(I) : j < k => Ranked(I)[j] < Ranked(I)[k]
<1> DEFINE I == Usable(walk, n)
<1>1. I \in SUBSET (1 .. n) /\ IsFiniteSet(1 .. n) BY FS_Interval DEF Usable
<1>2. I \in SUBSET Nat /\ IsFiniteSet(I) BY <1>1, FS_Subset
<1>3. Completed(walk) = Selected(walk, I) BY DEF Completed, Usable
<1> HIDE DEF I
<1>4. /\ Cardinality(I) \in Nat /\ Ranked(I) \in [1 .. Cardinality(I) -> I]
      /\ \A j, k \in 1 .. Cardinality(I) : j < k => Ranked(I)[j] < Ranked(I)[k]
  BY <1>2, RankedLists
<1>5. Completed(walk) = [j \in 1 .. Cardinality(I) |-> walk[Ranked(I)[j]]] BY <1>3 DEF Selected
<1>6. /\ Len(Completed(walk)) = Cardinality(I) /\ DOMAIN Completed(walk) = 1 .. Cardinality(I)
      /\ \A j \in 1 .. Cardinality(I) : Completed(walk)[j] = walk[Ranked(I)[j]]
  BY <1>4, <1>5
<1> QED BY <1>2, <1>4, <1>6 DEF I

(* No out-of-sample run sees a bar of the days its parameters were picked on,  *)
(* nor a bar another out-of-sample run saw: for every range, number of folds,  *)
(* mode, grid and tape, with whatever holes (split_folds, run_walk_forward).   *)
THEOREM EveryWalkIsUnseen ==
  ASSUME NEW start \in Int, NEW end \in Int, NEW folds \in Nat, NEW mode, NEW runnable,
         NEW tape \in SUBSET Int, NEW score
  PROVE  OutOfSampleIsUnseen(RunWalkForward(start, end, folds, mode, runnable, tape, score))
<1> DEFINE spans == SplitFolds(start, end, folds, mode)
           walk == [i \in DOMAIN spans |-> RunFold(i, spans[i], runnable, tape, score)]
           done == Completed(walk)
<1>1. RunWalkForward(start, end, folds, mode, runnable, tape, score) = walk BY DEF RunWalkForward
<1> DEFINE n == IF DOMAIN spans = {} THEN 0 ELSE folds
<1>2. n \in Nat /\ DOMAIN spans = 1 .. n /\ \E B : Marks(B, n + 1) /\ Splits(spans, B, n)
  <2>1. CASE DOMAIN spans = {}
    <3> DEFINE B == [i \in 0 .. 1 |-> 0]
    <3>1. Marks(B, n + 1) BY <2>1 DEF Marks
    <3>2. Splits(spans, B, n) BY <2>1 DEF Splits
    <3> QED BY <2>1, <3>1, <3>2
  <2>2. CASE DOMAIN spans # {}
    <3> HIDE DEF spans
    <3>1. DOMAIN spans = 1 .. folds /\ \E B : Marks(B, folds + 1) /\ Splits(spans, B, folds)
      BY <2>2, FoldsAre DEF spans
    <3> QED BY <2>2, <3>1
  <2> QED BY <2>1, <2>2
<1>3. PICK B : Marks(B, n + 1) /\ Splits(spans, B, n) BY <1>2
<1>4. DOMAIN walk = 1 .. n /\ \A k \in 1 .. n : walk[k] = RunFold(k, spans[k], runnable, tape, score)
  BY <1>2
<1> HIDE DEF spans, walk, n
<1>5. ASSUME NEW k \in 1 .. n, walk[k].usable
      PROVE  /\ \A a \in walk[k].seen : a \in Int /\ a <= B[k]
             /\ \A b \in walk[k].tested : b \in Int /\ NextDayStart(B[k]) <= b /\ b <= B[k + 1]
  <2>1. walk[k] = RunFold(k, spans[k], runnable, tape, score) BY <1>4
  <2>2. /\ walk[k].seen = BarsIn(tape, spans[k].inSample)
        /\ walk[k].tested = BarsIn(tape, spans[k].outOfSample)
    <3> DEFINE f == walk[k]
    <3>1. f.usable /\ f = RunFold(k, spans[k], runnable, tape, score) BY <1>5, <2>1
    <3> HIDE DEF f
    <3>2. f.seen = BarsIn(tape, spans[k].inSample) /\ f.tested = BarsIn(tape, spans[k].outOfSample)
      BY <3>1, FoldIs
    <3> QED BY <3>2 DEF f
  <2>3. /\ spans[k].inSample.to = B[k]
        /\ spans[k].outOfSample.from = NextDayStart(B[k]) /\ spans[k].outOfSample.to = B[k + 1]
    BY <1>3 DEF Splits
  <2> QED BY <2>2, <2>3 DEF BarsIn
<1>6. \A i \in 0 .. n + 1 : B[i] \in Int /\ \A j \in 0 .. i : B[j] <= B[i] BY <1>2, <1>3 DEF Marks
<1> DEFINE I == Usable(walk, n)
<1>7. /\ DOMAIN done = 1 .. Cardinality(I) /\ Ranked(I) \in [1 .. Cardinality(I) -> I]
      /\ Cardinality(I) \in Nat
      /\ \A j \in 1 .. Cardinality(I) : done[j] = walk[Ranked(I)[j]]
      /\ \A j, k \in 1 .. Cardinality(I) : j < k => Ranked(I)[j] < Ranked(I)[k]
  BY <1>2, <1>4, CompletedAre
<1>8. \A k \in I : k \in 1 .. n /\ walk[k].usable BY DEF Usable
<1> HIDE DEF I, done
<1>9. ASSUME NEW i \in DOMAIN done
      PROVE  /\ \A a \in done[i].seen, b \in done[i].tested : a \div Day < b \div Day
             /\ \A j \in 1 .. i - 1 : done[j].tested \cap done[i].tested = {}
  <2> DEFINE k == Ranked(I)[i]
  <2>1. k \in 1 .. n /\ walk[k].usable /\ done[i] = walk[k] /\ i \in Nat BY <1>7, <1>8
  <2>2. ASSUME NEW a \in done[i].seen, NEW b \in done[i].tested PROVE a \div Day < b \div Day
    <3> HIDE DEF k
    <3>1. a \in Int /\ b \in Int /\ a <= B[k] /\ NextDayStart(B[k]) <= b BY <1>5, <2>1, <2>2
    <3>2. B[k] \in Int BY <1>2, <1>6, <2>1
    <3>3. a \div Day <= B[k] \div Day /\ B[k] \div Day < b \div Day BY <3>1, <3>2, DaysPass
    <3>4. a \div Day \in Int /\ B[k] \div Day \in Int /\ b \div Day \in Int BY <3>1, <3>2, DaysPass
    <3> QED BY <3>3, <3>4
  <2>3. ASSUME NEW j \in 1 .. i - 1, NEW b \in done[j].tested \cap done[i].tested PROVE FALSE
    <3> DEFINE m == Ranked(I)[j]
    <3>1. j \in 1 .. Cardinality(I) /\ i \in 1 .. Cardinality(I) /\ j < i BY <1>7, <2>1
    <3>2. m \in 1 .. n /\ walk[m].usable /\ done[j] = walk[m] /\ m < k BY <1>7, <1>8, <3>1
    <3> HIDE DEF k, m
    <3>3. b \in Int /\ b <= B[m + 1] /\ NextDayStart(B[k]) <= b BY <1>5, <2>1, <2>3, <3>2
    <3>4. m + 1 \in 0 .. k /\ k \in 0 .. n + 1 BY <1>2, <2>1, <3>2
    <3>5. B[m + 1] <= B[k] /\ B[k] \in Int /\ B[m + 1] \in Int BY <1>2, <1>6, <3>4
    <3>6. B[k] < NextDayStart(B[k]) /\ NextDayStart(B[k]) \in Int BY <3>5, DaysPass
    <3> QED BY <3>3, <3>5, <3>6
  <2> QED BY <2>2, <2>3
<1>10. OutOfSampleIsUnseen(walk) BY <1>9 DEF OutOfSampleIsUnseen, done
<1> QED BY <1>1, <1>10

(* A finite set of integers has a greatest and a least member.                 *)
LEMMA MaxExists ==
  ASSUME NEW S \in SUBSET Int, IsFiniteSet(S), S # {}
  PROVE  Max(S) \in S /\ \A y \in S : Max(S) >= y
<1> DEFINE P == {T \in SUBSET S : T # {} => \E x \in T : \A y \in T : x >= y}
<1>1. {} \in P OBVIOUS
<1>2. ASSUME NEW T \in SUBSET S, T # {}, \A x \in T : T \ {x} \in P PROVE T \in P
  <2>1. PICK a \in T : TRUE BY <1>2
  <2>2. CASE T \ {a} = {}
    <3>1. \A y \in T : a >= y BY <2>2
    <3> QED BY <2>1, <3>1
  <2>3. CASE T \ {a} # {}
    <3>1. PICK b \in T \ {a} : \A y \in T \ {a} : b >= y BY <1>2, <2>1, <2>3
    <3>2. CASE a >= b
      <4>1. \A y \in T : a >= y BY <2>1, <3>1, <3>2
      <4> QED BY <2>1, <4>1
    <3>3. CASE ~(a >= b)
      <4>1. \A y \in T : b >= y BY <2>1, <3>1, <3>3
      <4> QED BY <3>1, <4>1
    <3> QED BY <3>2, <3>3
  <2> QED BY <2>2, <2>3
<1>3. P \in SUBSET (SUBSET S) OBVIOUS
<1> HIDE DEF P
<1>4. \A T \in SUBSET S : T # {} /\ (\A x \in T : T \ {x} \in P) => T \in P BY <1>2
<1>5. P = SUBSET S BY <1>1, <1>3, <1>4, SetOfSubsets
<1>6. \E x \in S : \A y \in S : x >= y
  <2>1. S \in P BY <1>5
  <2> QED BY <2>1 DEF P
<1> QED BY <1>6 DEF Max

(* The least one.                                                              *)
LEMMA MinExists ==
  ASSUME NEW S \in SUBSET Int, IsFiniteSet(S), S # {}
  PROVE  Min(S) \in S /\ \A y \in S : Min(S) <= y
<1> DEFINE P == {T \in SUBSET S : T # {} => \E x \in T : \A y \in T : x <= y}
<1>1. {} \in P OBVIOUS
<1>2. ASSUME NEW T \in SUBSET S, T # {}, \A x \in T : T \ {x} \in P PROVE T \in P
  <2>1. PICK a \in T : TRUE BY <1>2
  <2>2. CASE T \ {a} = {}
    <3>1. \A y \in T : a <= y BY <2>2
    <3> QED BY <2>1, <3>1
  <2>3. CASE T \ {a} # {}
    <3>1. PICK b \in T \ {a} : \A y \in T \ {a} : b <= y BY <1>2, <2>1, <2>3
    <3>2. CASE a <= b
      <4>1. \A y \in T : a <= y BY <2>1, <3>1, <3>2
      <4> QED BY <2>1, <4>1
    <3>3. CASE ~(a <= b)
      <4>1. \A y \in T : b <= y BY <2>1, <3>1, <3>3
      <4> QED BY <3>1, <4>1
    <3> QED BY <3>2, <3>3
  <2> QED BY <2>2, <2>3
<1>3. P \in SUBSET (SUBSET S) OBVIOUS
<1> HIDE DEF P
<1>4. \A T \in SUBSET S : T # {} /\ (\A x \in T : T \ {x} \in P) => T \in P BY <1>2
<1>5. P = SUBSET S BY <1>1, <1>3, <1>4, SetOfSubsets
<1>6. \E x \in S : \A y \in S : x <= y
  <2>1. S \in P BY <1>5
  <2> QED BY <2>1 DEF P
<1> QED BY <1>6 DEF Min

(* The trials of the folds, joined one fold after the other.                   *)
Joined(w, g) ==
  g = [T \in SUBSET (DOMAIN w) |-> IF T = {} THEN <<>> ELSE g[T \ {Max(T)}] \o w[Max(T)].sharpes]

TrialsOf(w) == FoldLeft(LAMBDA all, f : all \o f.sharpes, <<>>, w)

(* The trials of a walk-forward are those of its completed folds.              *)
LEMMA InSampleIs == ASSUME NEW walk PROVE InSampleTrials(walk) = TrialsOf(Completed(walk))
BY DEF InSampleTrials, TrialsOf

(* The fold that joins them is a recursion over the folds before the last.     *)
LEMMA JoinedDef == ASSUME NEW w PROVE TrialsOf(w) = (CHOOSE g : Joined(w, g))[DOMAIN w]
BY DEF TrialsOf, FoldLeft, MapThenFoldSet, Joined

(* As many trials as folds times candidates.                                   *)
LEMMA JoinedLength ==
  ASSUME NEW n \in Nat, NEW w, DOMAIN w = 1 .. n, NEW m \in Nat,
         \A i \in 1 .. n : w[i].sharpes \in Seq(Int) /\ Len(w[i].sharpes) = m
  PROVE  TrialsOf(w) \in Seq(Int) /\ Len(TrialsOf(w)) = n * m
<1> DEFINE S == 1 .. n
           c == [T \in SUBSET S |-> Max(T)]
           F == [p \in S \X Seq(Int) |-> p[2] \o w[p[1]].sharpes]
<1>1. IsFiniteSet(S) /\ Cardinality(S) = n /\ S \in SUBSET Int /\ DOMAIN w = S BY FS_Interval
<1>2. F \in [S \X Seq(Int) -> Seq(Int)] OBVIOUS
<1>3. \A T \in SUBSET S : T # {} => c[T] = Max(T) /\ c[T] \in T
  <2> SUFFICES ASSUME NEW T \in SUBSET S, T # {} PROVE Max(T) \in T OBVIOUS
  <2>1. T \in SUBSET Int /\ IsFiniteSet(T) BY <1>1, FS_Subset
  <2> QED BY <2>1, MaxExists
<1>4. <<>> \in Seq(Int) /\ Len(<<>>) = 0 OBVIOUS
<1>5. \A x \in S, v \in Seq(Int) : F[<<x, v>>] = v \o w[x].sharpes OBVIOUS
<1>17. \A x \in S : w[x].sharpes \in Seq(Int) /\ Len(w[x].sharpes) = m OBVIOUS
<1> HIDE DEF c, F, S
<1>6. PICK h \in [SUBSET S -> Seq(Int)] : Recursion(S, <<>>, c, F, h)
  BY <1>1, <1>2, <1>3, <1>4, RecursionExists
<1>7. Joined(w, h)
  <2>1. ASSUME NEW T \in SUBSET S
        PROVE  h[T] = IF T = {} THEN <<>> ELSE h[T \ {Max(T)}] \o w[Max(T)].sharpes
    <3>1. CASE T = {} BY <1>1, <1>6, <3>1 DEF Recursion
    <3>2. CASE T # {}
      <4>1. h[T] = F[<<c[T], h[T \ {c[T]}]>>] BY <1>6, <3>2 DEF Recursion
      <4>2. c[T] \in S /\ h[T \ {c[T]}] \in Seq(Int) BY <1>3, <1>6, <3>2
      <4> QED BY <1>3, <1>5, <3>2, <4>1, <4>2
    <3> QED BY <3>1, <3>2
  <2>2. h = [T \in SUBSET S |-> h[T]] BY <1>6
  <2> QED BY <1>1, <2>1, <2>2 DEF Joined
<1> DEFINE g == CHOOSE k : Joined(w, k)
<1>8. Joined(w, g) BY <1>7
<1>9. TrialsOf(w) = g[S] BY <1>1, JoinedDef
<1> HIDE DEF g
<1> DEFINE P == {T \in SUBSET S : g[T] \in Seq(Int) /\ Len(g[T]) = Cardinality(T) * m}
<1>10. {} \in P
  <2>1. g[{}] = <<>> BY <1>8 DEF Joined
  <2>2. Cardinality({}) * m = 0 BY FS_EmptySet
  <2> QED BY <1>4, <2>1, <2>2
<1>11. ASSUME NEW T \in SUBSET S, T # {}, \A x \in T : T \ {x} \in P PROVE T \in P
  <2> DEFINE x == Max(T)
  <2>1. x \in T BY <1>3, <1>11
  <2>2. g[T] = g[T \ {x}] \o w[x].sharpes BY <1>1, <1>8, <1>11 DEF Joined
  <2>3. IsFiniteSet(T) BY <1>1, FS_Subset
  <2>4. Cardinality(T) \in Nat /\ Cardinality(T \ {x}) = Cardinality(T) - 1
    BY <2>1, <2>3, FS_CardinalityType, FS_RemoveElement
  <2> HIDE DEF x
  <2>5. g[T \ {x}] \in Seq(Int) /\ Len(g[T \ {x}]) = Cardinality(T \ {x}) * m BY <1>11, <2>1
  <2>6. w[x].sharpes \in Seq(Int) /\ Len(w[x].sharpes) = m BY <1>17, <2>1
  <2>7. g[T] \in Seq(Int) /\ Len(g[T]) = (Cardinality(T) - 1) * m + m
    <3> DEFINE a == g[T \ {x}]
               b == w[x].sharpes
    <3>1. a \in Seq(Int) /\ b \in Seq(Int) /\ g[T] = a \o b BY <2>2, <2>5, <2>6
    <3>2. Len(a) = (Cardinality(T) - 1) * m /\ Len(b) = m BY <2>4, <2>5, <2>6
    <3> HIDE DEF a, b
    <3>3. g[T] \in Seq(Int) /\ Len(g[T]) = Len(a) + Len(b) BY <3>1
    <3> QED BY <3>2, <3>3
  <2>8. (Cardinality(T) - 1) * m + m = Cardinality(T) * m BY <2>4
  <2> QED BY <2>7, <2>8
<1>12. P \in SUBSET (SUBSET S) OBVIOUS
<1> HIDE DEF P
<1>13. \A T \in SUBSET S : T # {} /\ (\A x \in T : T \ {x} \in P) => T \in P BY <1>11
<1>14. P = SUBSET S BY <1>1, <1>10, <1>12, <1>13, SetOfSubsets
<1>15. S \in P BY <1>14
<1>16. g[S] \in Seq(Int) /\ Len(g[S]) = n * m BY <1>1, <1>15 DEF P
<1> QED BY <1>9, <1>16

(* What every walk-forward is: as many folds as its range allows, each of them *)
(* run on its own span.                                                        *)
LEMMA WalkIs ==
  ASSUME NEW start \in Int, NEW end \in Int, NEW folds \in Nat, NEW mode, NEW runnable, NEW tape,
         NEW score
  PROVE  LET walk == RunWalkForward(start, end, folds, mode, runnable, tape, score)
             spans == SplitFolds(start, end, folds, mode)
         IN \E n \in {0, folds} :
              /\ DOMAIN walk = 1 .. n /\ Len(walk) = n
              /\ \A k \in 1 .. n : walk[k] = RunFold(k, spans[k], runnable, tape, score)
<1> DEFINE spans == SplitFolds(start, end, folds, mode)
           walk == [i \in DOMAIN spans |-> RunFold(i, spans[i], runnable, tape, score)]
<1>1. RunWalkForward(start, end, folds, mode, runnable, tape, score) = walk BY DEF RunWalkForward
<1>2. PICK n \in {0, folds} : DOMAIN spans = 1 .. n
  <2>1. CASE DOMAIN spans = {}
    <3>1. DOMAIN spans = 1 .. 0 BY <2>1
    <3> QED BY <3>1
  <2>2. CASE DOMAIN spans # {}
    <3>1. DOMAIN spans = 1 .. folds BY <2>2, FoldsAre
    <3> QED BY <3>1
  <2> QED BY <2>1, <2>2
<1> HIDE DEF spans
<1>3. /\ DOMAIN walk = 1 .. n /\ Len(walk) = n
      /\ \A k \in 1 .. n : walk[k] = RunFold(k, spans[k], runnable, tape, score)
  BY <1>2
<1> QED BY <1>1, <1>3 DEF spans

(* A completed fold scored the whole grid; another says why it is not.         *)
Reports(f, runnable) ==
  /\ f.usable => f.sharpes \in Seq(Int) /\ Len(f.sharpes) = Len(runnable)
  /\ ~f.usable /\ runnable # <<>> => Excused(f)

(* A fold run by run_walk_forward reports one of the two.                      *)
LEMMA FoldReports ==
  ASSUME NEW k, NEW span, NEW Params, NEW runnable \in Seq(Params), NEW tape, NEW score,
         \A x \in Params : score[x][k] \in Int,
         NEW f, f = RunFold(k, span, runnable, tape, score)
  PROVE  Reports(f, runnable)
<1>1. /\ f.usable => f.sharpes = ScoresOf(runnable, score, k)
      /\ ~f.usable /\ runnable # <<>> => Excused(f)
  BY FoldIs
<1>2. ASSUME f.usable PROVE f.sharpes \in Seq(Int) /\ Len(f.sharpes) = Len(runnable)
  <2> DEFINE m == Len(runnable)
  <2>1. m \in Nat /\ DOMAIN runnable = 1 .. m /\ \A i \in 1 .. m : runnable[i] \in Params OBVIOUS
  <2>2. f.sharpes = [i \in 1 .. m |-> score[runnable[i]][k]] BY <1>1, <1>2, <2>1 DEF ScoresOf
  <2> HIDE DEF m
  <2>3. f.sharpes \in [1 .. m -> Int] BY <2>1, <2>2
  <2>4. f.sharpes \in Seq(Int) /\ Len(f.sharpes) = m BY <2>1, <2>3
  <2> QED BY <2>4 DEF m
<1> QED BY <1>1, <1>2 DEF Reports

(* Every fold asked for is completed or says why it is not, and the deflation  *)
(* of a walk-forward counts every candidate of every completed fold: for every *)
(* range, number of folds, mode, grid and tape (run_walk_forward,              *)
(* deflated_in_sample).                                                        *)
THEOREM EveryFoldIsAccounted ==
  ASSUME NEW start \in Int, NEW end \in Int, NEW folds \in Nat, NEW mode, NEW tape,
         NEW Params, NEW runnable \in Seq(Params),
         NEW score, \A x \in Params : \A j \in 1 .. folds : score[x][j] \in Int, NEW prior \in Nat
  PROVE  FoldsAreAccounted(RunWalkForward(start, end, folds, mode, runnable, tape, score),
                           folds, runnable, prior)
<1> DEFINE walk == RunWalkForward(start, end, folds, mode, runnable, tape, score)
           spans == SplitFolds(start, end, folds, mode)
           done == Completed(walk)
           all == InSampleTrials(walk)
           m == Len(runnable)
<1>1. PICK n \in {0, folds} :
        /\ DOMAIN walk = 1 .. n /\ Len(walk) = n
        /\ \A k \in 1 .. n : walk[k] = RunFold(k, spans[k], runnable, tape, score)
  BY WalkIs
<1>2. n \in Nat /\ 1 .. n \subseteq 1 .. folds /\ m \in Nat /\ DOMAIN runnable = 1 .. m BY <1>1
<1> HIDE DEF walk, spans
<1>3. \A k \in 1 .. n : Reports(walk[k], runnable)
  <2> SUFFICES ASSUME NEW k \in 1 .. n PROVE Reports(walk[k], runnable) OBVIOUS
  <2>1. walk[k] = RunFold(k, spans[k], runnable, tape, score) BY <1>1
  <2>2. k \in 1 .. folds BY <1>2
  <2>3. \A x \in Params : score[x][k] \in Int BY <2>2
  <2> QED BY <2>1, <2>3, FoldReports
<1> DEFINE I == Usable(walk, n)
           c == Cardinality(I)
<1>4. /\ DOMAIN done = 1 .. c /\ Ranked(I) \in [1 .. c -> I] /\ c \in Nat /\ Len(done) = c
      /\ \A j \in 1 .. c : done[j] = walk[Ranked(I)[j]]
  BY <1>1, <1>2, CompletedAre
<1>5. \A k \in I : k \in 1 .. n /\ walk[k].usable BY DEF Usable
<1> HIDE DEF I, c, done, m
<1>6. \A j \in 1 .. c : done[j].sharpes \in Seq(Int) /\ Len(done[j].sharpes) = m
  <2> SUFFICES ASSUME NEW j \in 1 .. c
               PROVE  done[j].sharpes \in Seq(Int) /\ Len(done[j].sharpes) = m
    OBVIOUS
  <2> DEFINE k == Ranked(I)[j]
  <2>1. k \in I /\ done[j] = walk[k] BY <1>4
  <2> HIDE DEF k
  <2>2. walk[k].usable /\ Reports(walk[k], runnable) BY <1>3, <1>5, <2>1
  <2> QED BY <2>1, <2>2 DEF Reports, m
<1>7. all = TrialsOf(done) BY InSampleIs DEF done
<1>8. all \in Seq(Int) /\ Len(all) = c * m
  <2> HIDE DEF all
  <2>1. m \in Nat BY <1>2 DEF m
  <2>2. TrialsOf(done) \in Seq(Int) /\ Len(TrialsOf(done)) = c * m
    <3> DEFINE w == done
    <3>1. c \in Nat /\ DOMAIN w = 1 .. c BY <1>4
    <3>2. \A j \in 1 .. c : w[j].sharpes \in Seq(Int) /\ Len(w[j].sharpes) = m BY <1>6
    <3> HIDE DEF w
    <3> QED BY <2>1, <3>1, <3>2, JoinedLength DEF w
  <2> QED BY <1>7, <2>2
<1> HIDE DEF all
<1>9. DeflatedInSample(walk, prior) = IF all = <<>> THEN Absent ELSE Deflated(all, prior)
  BY DEF DeflatedInSample, all
<1>10. Deflated(all, prior).trials = Len(all) + prior /\ Len(all) \in Nat BY <1>8 DEF Deflated
<1>11. DeflatedInSample(walk, prior) # Absent =>
         DeflatedInSample(walk, prior).trials = Len(InSampleTrials(walk)) + prior
  BY <1>9, <1>10 DEF all
<1>12. Len(InSampleTrials(walk)) = Len(Completed(walk)) * Len(runnable)
  BY <1>4, <1>8 DEF all, done, m
<1>13. walk # <<>> => Len(walk) = folds
  <2> SUFFICES ASSUME n = 0 PROVE walk = <<>> BY <1>1
  <2>1. walk = [i \in DOMAIN spans |-> RunFold(i, spans[i], runnable, tape, score)]
    BY DEF walk, spans, RunWalkForward
  <2>2. DOMAIN walk = {} BY <1>1
  <2> QED BY <2>1, <2>2
<1>14. \A i \in DOMAIN walk : ~walk[i].usable /\ runnable # <<>> =>
         walk[i].why \in {"no in-sample data", "no out-of-sample data"}
  BY <1>1, <1>3 DEF Reports, Excused
<1> QED BY <1>11, <1>12, <1>13, <1>14 DEF FoldsAreAccounted, walk

(* Scaling keeps the order.                                                    *)
LEMMA Scaled ==
  ASSUME NEW a \in Int, NEW b \in Int, a <= b, NEW k \in Nat
  PROVE  a * k <= b * k /\ a * k \in Int /\ b * k \in Int
<1>1. (b - a) * k \in Nat
  <2>1. b - a \in Nat OBVIOUS
  <2> QED BY <2>1
<1>2. (b - a) * k = b * k - a * k OBVIOUS
<1> QED BY <1>1, <1>2

-----------------------------------------------------------------------------
(* Trials (Sweep) *)

(* A cell of a table with W columns, counted from 1: its row and its column.   *)
RowOf(k, W) == ((k - 1) \div W) + 1
ColumnOf(k, W) == ((k - 1) % W) + 1

(* A cell lies in the row and the column it is counted in.                     *)
LEMMA CellIs ==
  ASSUME NEW W \in Nat \ {0}, NEW k \in Nat \ {0}
  PROVE  /\ RowOf(k, W) \in Nat \ {0} /\ ColumnOf(k, W) \in 1 .. W
         /\ k = W * (RowOf(k, W) - 1) + ColumnOf(k, W)
<1> DEFINE q == (k - 1) \div W
           r == (k - 1) % W
<1>1. q \in Nat BY ShareIs
<1>2. r \in 0 .. W - 1 /\ k - 1 = W * q + r OBVIOUS
<1>3. RowOf(k, W) = q + 1 /\ ColumnOf(k, W) = r + 1 BY DEF RowOf, ColumnOf
<1> HIDE DEF q, r
<1>4. RowOf(k, W) - 1 = q BY <1>1, <1>3
<1>5. W * q \in Nat BY <1>1
<1> QED BY <1>1, <1>2, <1>3, <1>4, <1>5

(* Each row and column has one cell.                                           *)
LEMMA CellsDiffer ==
  ASSUME NEW W \in Nat \ {0}, NEW i \in Nat \ {0}, NEW j \in 1 .. W
  PROVE  /\ W * (i - 1) + j \in Nat \ {0}
         /\ RowOf(W * (i - 1) + j, W) = i /\ ColumnOf(W * (i - 1) + j, W) = j
         /\ \A R \in Nat : i <= R => W * (i - 1) + j <= R * W
<1> DEFINE k == W * (i - 1) + j
           p == RowOf(k, W) - 1
           c == ColumnOf(k, W)
<1>1. W * (i - 1) \in Nat OBVIOUS
<1>2. k \in Nat \ {0} BY <1>1
<1> HIDE DEF k
<1>3. p \in Nat /\ c \in 1 .. W /\ k = W * p + c
  <2>1. /\ RowOf(k, W) \in Nat \ {0} /\ ColumnOf(k, W) \in 1 .. W
        /\ k = W * (RowOf(k, W) - 1) + ColumnOf(k, W)
    BY <1>2, CellIs
  <2> HIDE DEF c
  <2>2. p \in Nat BY <2>1
  <2>3. c \in 1 .. W BY <2>1 DEF c
  <2>4. k = W * p + c BY <2>1 DEF c
  <2> QED BY <2>2, <2>3, <2>4
<1> HIDE DEF p, c
<1>4. W * (i - 1) + j = W * p + c BY <1>3 DEF k
<1>5. p = i - 1
  <2>1. ASSUME p <= i - 2 PROVE FALSE
    <3>1. (p + 1) * W <= (i - 1) * W BY <1>3, <2>1, Scaled
    <3>2. W * p + W <= W * (i - 1)
      <4>1. (p + 1) * W = W * p + W /\ (i - 1) * W = W * (i - 1) BY <1>3
      <4> QED BY <3>1, <4>1
    <3>3. W * p \in Nat BY <1>3
    <3> QED BY <1>1, <1>3, <1>4, <3>2, <3>3
  <2>2. ASSUME i - 1 <= p - 1 PROVE FALSE
    <3>1. i * W <= p * W BY <1>3, <2>2, Scaled
    <3>2. W * (i - 1) + W <= W * p BY <1>3, <3>1
    <3>3. W * p \in Nat BY <1>3
    <3> QED BY <1>1, <1>3, <1>4, <3>2, <3>3
  <2> QED BY <1>3, <2>1, <2>2
<1>6. c = j
  <2> DEFINE x == W * (i - 1)
  <2>1. x + j = x + c BY <1>4, <1>5
  <2>2. x \in Nat BY <1>1
  <2> HIDE DEF x
  <2> QED BY <1>3, <2>1, <2>2
<1>7. RowOf(k, W) = i
  <2>1. RowOf(k, W) \in Nat /\ RowOf(k, W) - 1 = i - 1 BY <1>2, <1>5, CellIs DEF p
  <2> QED BY <2>1
<1>8. ASSUME NEW R \in Nat, i <= R PROVE W * (i - 1) + j <= R * W
  <2>1. i * W <= R * W /\ R * W \in Int BY <1>8, Scaled
  <2>2. W * (i - 1) + W = i * W OBVIOUS
  <2> QED BY <1>1, <2>1, <2>2
<1>9. ColumnOf(k, W) = j BY <1>6 DEF c
<1> QED BY <1>2, <1>7, <1>8, <1>9 DEF k

(* The cells of a table whose columns are in T.                                *)
CellsIn(R, W, T) == {k \in 1 .. R * W : ColumnOf(k, W) \in T}

(* A table has a cell for every row and column, so as many as their product.   *)
LEMMA CellsAre ==
  ASSUME NEW R \in Nat, NEW W \in Nat \ {0}, NEW T \in SUBSET (1 .. W)
  PROVE  /\ IsFiniteSet(CellsIn(R, W, T)) /\ CellsIn(R, W, T) \in SUBSET Nat
         /\ Cardinality(CellsIn(R, W, T)) = R * Cardinality(T)
<1> DEFINE P == (1 .. R) \X T
           C == CellsIn(R, W, T)
           f == [p \in P |-> W * (p[1] - 1) + p[2]]
<1>1. IsFiniteSet(1 .. R) /\ Cardinality(1 .. R) = R /\ IsFiniteSet(1 .. W) BY FS_Interval
<1>2. IsFiniteSet(T) BY <1>1, FS_Subset
<1>3. IsFiniteSet(P) /\ Cardinality(P) = R * Cardinality(T) BY <1>1, <1>2, FS_Product
<1>4. \A i \in 1 .. R, j \in T :
         W * (i - 1) + j \in C /\ RowOf(W * (i - 1) + j, W) = i /\ ColumnOf(W * (i - 1) + j, W) = j
  <2> SUFFICES ASSUME NEW i \in 1 .. R, NEW j \in T
               PROVE  /\ W * (i - 1) + j \in C
                      /\ RowOf(W * (i - 1) + j, W) = i /\ ColumnOf(W * (i - 1) + j, W) = j
    OBVIOUS
  <2> DEFINE k == W * (i - 1) + j
  <2>1. /\ k \in Nat \ {0} /\ RowOf(k, W) = i /\ ColumnOf(k, W) = j
        /\ k <= R * W
    <3>1. i \in Nat \ {0} /\ i <= R /\ j \in 1 .. W OBVIOUS
    <3> QED BY <3>1, CellsDiffer
  <2>2. R * W \in Nat OBVIOUS
  <2> HIDE DEF k
  <2>3. k \in C BY <2>1, <2>2 DEF CellsIn
  <2> QED BY <2>1, <2>3 DEF k
<1>5. \A p \in P : f[p] = W * (p[1] - 1) + p[2] /\ p[1] \in 1 .. R /\ p[2] \in T OBVIOUS
<1>6. f \in [P -> C] BY <1>4
<1>7. \A p, r \in P : f[p] = f[r] => p = r
  <2> SUFFICES ASSUME NEW p \in P, NEW r \in P, f[p] = f[r] PROVE p = r OBVIOUS
  <2>1. /\ p[1] \in 1 .. R /\ p[2] \in T /\ f[p] = W * (p[1] - 1) + p[2]
        /\ r[1] \in 1 .. R /\ r[2] \in T /\ f[r] = W * (r[1] - 1) + r[2]
    BY <1>5
  <2> HIDE DEF f
  <2>2. RowOf(f[p], W) = p[1] /\ ColumnOf(f[p], W) = p[2]
    <3> DEFINE a == p[1]
               b == p[2]
    <3>1. a \in 1 .. R /\ b \in T /\ f[p] = W * (a - 1) + b BY <2>1
    <3> HIDE DEF a, b
    <3>2. RowOf(W * (a - 1) + b, W) = a /\ ColumnOf(W * (a - 1) + b, W) = b BY <1>4, <3>1
    <3> QED BY <3>1, <3>2 DEF a, b
  <2>3. RowOf(f[r], W) = r[1] /\ ColumnOf(f[r], W) = r[2]
    <3> DEFINE a == r[1]
               b == r[2]
    <3>1. a \in 1 .. R /\ b \in T /\ f[r] = W * (a - 1) + b BY <2>1
    <3> HIDE DEF a, b
    <3>2. RowOf(W * (a - 1) + b, W) = a /\ ColumnOf(W * (a - 1) + b, W) = b BY <1>4, <3>1
    <3> QED BY <3>1, <3>2 DEF a, b
  <2>4. p[1] = r[1] /\ p[2] = r[2] BY <2>2, <2>3
  <2>5. p = <<p[1], p[2]>> /\ r = <<r[1], r[2]>> OBVIOUS
  <2> HIDE DEF f, P
  <2> QED BY <2>4, <2>5
<1>8. \A k \in C : \E p \in P : f[p] = k
  <2> SUFFICES ASSUME NEW k \in C PROVE \E p \in P : f[p] = k OBVIOUS
  <2> DEFINE i == RowOf(k, W)
             j == ColumnOf(k, W)
  <2>1. k \in Nat \ {0} /\ k <= R * W /\ j \in T BY DEF CellsIn
  <2>2. i \in Nat \ {0} /\ j \in 1 .. W /\ k = W * (i - 1) + j BY <2>1, CellIs
  <2> HIDE DEF i, j
  <2>3. i <= R
    <3> SUFFICES ASSUME R <= i - 1 PROVE FALSE BY <2>2
    <3>1. R * W <= (i - 1) * W BY <2>2, Scaled
    <3>2. (i - 1) * W \in Int /\ (i - 1) * W = W * (i - 1) /\ R * W \in Int BY <2>2
    <3> QED BY <2>1, <2>2, <3>1, <3>2
  <2>4. <<i, j>> \in P BY <2>1, <2>2, <2>3
  <2>5. f[<<i, j>>] = k BY <2>2, <2>4
  <2> QED BY <2>4, <2>5
<1> HIDE DEF P, C, f
<1>9. f \in Bijection(P, C)
  BY <1>6, <1>7, <1>8 DEF Bijection, Injection, Surjection, IsInjective
<1>10. IsFiniteSet(C) /\ Cardinality(C) = Cardinality(P)
  <2>1. ExistsBijection(P, C) BY <1>9 DEF ExistsBijection
  <2> QED BY <1>3, <2>1, FS_Bijection
<1>11. CellsIn(R, W, T) \in SUBSET Nat BY DEF CellsIn
<1> QED BY <1>3, <1>10, <1>11 DEF C

(* The best of some rows is one of them, and none is above it.                 *)
LEMMA BestIs ==
  ASSUME NEW n \in Nat \ {0}, NEW rows, DOMAIN rows = 1 .. n, \A i \in 1 .. n : rows[i].score \in Int
  PROVE  \E i \in 1 .. n : Best(rows) = rows[i] /\ \A j \in 1 .. n : rows[j].score <= rows[i].score
<1> DEFINE P == {m \in Nat : m + 1 <= n =>
                   \E i \in 1 .. m + 1 : \A j \in 1 .. m + 1 : rows[j].score <= rows[i].score}
           B == {i \in DOMAIN rows : \A j \in DOMAIN rows : rows[j].score <= rows[i].score}
<1>1. 0 \in P
  <2>1. 1 \in 1 .. 1 /\ \A j \in 1 .. 1 : rows[j].score <= rows[1].score BY DEF P
  <2> QED BY <2>1
<1>2. ASSUME NEW m \in P PROVE m + 1 \in P
  <2> SUFFICES ASSUME m + 2 <= n
               PROVE  \E i \in 1 .. m + 2 : \A j \in 1 .. m + 2 : rows[j].score <= rows[i].score
    OBVIOUS
  <2>1. m \in Nat /\ m + 1 <= n OBVIOUS
  <2>2. PICK i \in 1 .. m + 1 : \A j \in 1 .. m + 1 : rows[j].score <= rows[i].score BY <2>1
  <2> DEFINE s == rows[i].score
             t == rows[m + 2].score
  <2>3. s \in Int /\ t \in Int /\ m \in Nat BY <2>1
  <2>4. \A j \in 1 .. m + 1 : rows[j].score \in Int /\ rows[j].score <= s BY <2>1, <2>2
  <2>5. \A j \in 1 .. m + 2 : j \in 1 .. m + 1 \/ j = m + 2 BY <2>1
  <2>6. CASE s <= t
    <3>1. \A j \in 1 .. m + 2 : rows[j].score <= rows[m + 2].score
      <4> SUFFICES ASSUME NEW j \in 1 .. m + 2 PROVE rows[j].score <= t OBVIOUS
      <4> HIDE DEF s, t
      <4>1. CASE j \in 1 .. m + 1 BY <2>3, <2>4, <2>6, <4>1
      <4>2. CASE j = m + 2 BY <2>3, <4>2 DEF t
      <4> QED BY <2>5, <4>1, <4>2
    <3>2. m + 2 \in 1 .. m + 2 BY <2>1
    <3> QED BY <3>1, <3>2
  <2>7. CASE ~(s <= t)
    <3>1. \A j \in 1 .. m + 2 : rows[j].score <= rows[i].score
      <4> SUFFICES ASSUME NEW j \in 1 .. m + 2 PROVE rows[j].score <= s OBVIOUS
      <4> HIDE DEF s, t
      <4>1. CASE j \in 1 .. m + 1 BY <2>4, <4>1
      <4>2. CASE j = m + 2
        <5>1. rows[j].score = t BY <4>2 DEF t
        <5> QED BY <2>3, <2>7, <5>1
      <4> QED BY <2>5, <4>1, <4>2
    <3>2. i \in 1 .. m + 2 BY <2>1
    <3> QED BY <3>1, <3>2
  <2> QED BY <2>6, <2>7
<1>3. P \in SUBSET Nat OBVIOUS
<1> HIDE DEF P
<1>4. P = Nat
  <2>1. \A m \in P : m + 1 \in P BY <1>2
  <2> QED BY <1>1, <1>3, <2>1, SetOfNaturals
<1>5. B # {}
  <2>1. n - 1 \in P BY <1>4
  <2>2. PICK i \in 1 .. n : \A j \in 1 .. n : rows[j].score <= rows[i].score BY <2>1 DEF P
  <2>3. i \in B BY <2>2
  <2> QED BY <2>3
<1>6. B \in SUBSET Int /\ IsFiniteSet(B)
  <2>1. IsFiniteSet(1 .. n) /\ B \in SUBSET (1 .. n) BY FS_Interval
  <2> QED BY <2>1, FS_Subset
<1>7. Best(rows) = rows[Min(B)] BY DEF Best
<1>8. \A i \in B : i \in 1 .. n /\ \A j \in 1 .. n : rows[j].score <= rows[i].score OBVIOUS
<1> HIDE DEF B
<1>9. Min(B) \in B BY <1>5, <1>6, MinExists
<1> QED BY <1>7, <1>8, <1>9

(* The first n naturals are n.                                                 *)
LEMMA UpTo == ASSUME NEW n \in Nat PROVE IsFiniteSet(1 .. n) /\ Cardinality(1 .. n) = n
BY FS_Interval

(* How many there are of each kind in a sweep of which R of the a * b          *)
(* combinations run.                                                           *)
RunRows(W) == [params : Nat \X Nat, window : 1 .. W, score : Int]

SweepCounts(s, N, W, empty, R) ==
  /\ R \in 0 .. N
  /\ Len(ExpandGrid(s.grid)) = N
  /\ s.skipped \in Seq(Nat \X Nat) /\ Len(s.skipped) = N - R
  /\ s.runs \in Seq(RunRows(W)) /\ Len(s.runs) = R * (W - Cardinality(empty))
  /\ s.emptyWindows = IF R = 0 THEN {} ELSE empty

(* Every sweep has such counts.                                                *)
LEMMA SweepIs ==
  ASSUME NEW a \in Nat, NEW b \in Nat, NEW accepted, NEW windows \in Nat \ {0},
         NEW empty \in SUBSET (1 .. windows), NEW score,
         \A c \in ToSet(ExpandGrid(<<a, b>>)) : score[c] \in Int,
         NEW s, s = RunSweep(<<a, b>>, accepted, windows, empty, score)
  PROVE  \E R : SweepCounts(s, a * b, windows, empty, R)
<1> DEFINE W == windows
           N == a * b
           grid == <<a, b>>
           all == ExpandGrid(grid)
           good == {k \in DOMAIN all : all[k] \in accepted}
           bad == DOMAIN all \ good
           R == Cardinality(good)
           combos == PartitionGrid(grid, accepted)
           Row == RunRows(W)
           D == ToSet(all)
<1>1. N \in Nat /\ IsFiniteSet(1 .. N) /\ Cardinality(1 .. N) = N
  <2>1. N \in Nat OBVIOUS
  <2> HIDE DEF N
  <2> QED BY <2>1, UpTo
<1>2. /\ DOMAIN all = 1 .. N /\ Len(all) = N
      /\ \A k \in 1 .. N : all[k] = <<RowOf(k, b), ColumnOf(k, b)>>
  <2>1. all = [k \in 1 .. N |-> <<((k - 1) \div b) + 1, ((k - 1) % b) + 1>>] BY DEF ExpandGrid
  <2> HIDE DEF all, N
  <2> QED BY <1>1, <2>1 DEF RowOf, ColumnOf
<1>3. \A k \in 1 .. N : all[k] \in Nat \X Nat
  <2> SUFFICES ASSUME NEW k \in 1 .. N PROVE all[k] \in Nat \X Nat OBVIOUS
  <2>1. b # 0
    <3> SUFFICES ASSUME b = 0 PROVE FALSE OBVIOUS
    <3>1. N = 0 OBVIOUS
    <3> QED BY <3>1
  <2>2. k \in Nat \ {0} BY <1>1
  <2> HIDE DEF all, N
  <2>3. RowOf(k, b) \in Nat /\ ColumnOf(k, b) \in Nat BY <2>1, <2>2, CellIs
  <2> QED BY <1>2, <2>3
<1> HIDE DEF all, N
<1>17. (\A k \in 1 .. N : all[k] \in D) /\ (\A c \in D : c \in Nat \X Nat /\ score[c] \in Int)
  <2>1. D = {all[k] : k \in 1 .. N} BY <1>2 DEF ToSet
  <2>2. \A c \in D : score[c] \in Int BY DEF all
  <2> HIDE DEF D
  <2> QED BY <1>3, <2>1, <2>2
<1> HIDE DEF D
<1>4. /\ good \in SUBSET (1 .. N) /\ bad \in SUBSET (1 .. N) /\ bad = (1 .. N) \ good
      /\ IsFiniteSet(good) /\ IsFiniteSet(bad) /\ R \in Nat /\ R <= N /\ Cardinality(bad) = N - R
  <2>1. good \in SUBSET (1 .. N) /\ bad = (1 .. N) \ good BY <1>2
  <2>2. (1 .. N) \cap good = good BY <2>1
  <2> HIDE DEF good, bad
  <2>3. IsFiniteSet(good) /\ Cardinality(good) <= N BY <1>1, <2>1, FS_Subset
  <2>4. IsFiniteSet(bad) /\ Cardinality(bad) = N - R
    <3>1. /\ IsFiniteSet((1 .. N) \ good)
          /\ Cardinality((1 .. N) \ good) = Cardinality(1 .. N) - Cardinality((1 .. N) \cap good)
      BY <1>1, FS_Difference
    <3> QED BY <1>1, <2>1, <2>2, <3>1
  <2>5. R \in Nat BY <2>3, FS_CardinalityType
  <2> QED BY <2>1, <2>3, <2>4, <2>5
<1>5. combos.runnable = Selected(all, good) /\ combos.skipped = Selected(all, bad)
  BY DEF PartitionGrid, all
<1> HIDE DEF good, bad, combos
<1>6. /\ combos.runnable \in Seq(D) /\ Len(combos.runnable) = R
      /\ combos.skipped \in Seq(Nat \X Nat) /\ Len(combos.skipped) = N - R
  <2>1. good \in SUBSET Nat /\ bad \in SUBSET Nat BY <1>4
  <2>2. \A i \in good : all[i] \in D BY <1>4, <1>17
  <2>3. \A i \in bad : all[i] \in Nat \X Nat BY <1>3, <1>4
  <2>4. Selected(all, good) \in Seq(D) /\ Len(Selected(all, good)) = R
    BY <1>4, <2>1, <2>2, SelectedIs
  <2>5. Selected(all, bad) \in Seq(Nat \X Nat) /\ Len(Selected(all, bad)) = N - R
    BY <1>4, <2>1, <2>3, SelectedIs
  <2> QED BY <1>5, <2>4, <2>5
<1> HIDE DEF R
<1> DEFINE every == [k \in 1 .. Len(combos.runnable) * windows |->
                  LET combo == combos.runnable[((k - 1) \div windows) + 1]
                      window == ((k - 1) % windows) + 1
                  IN [params |-> combo, window |-> window, score |-> score[combo] * window]]
           J == {k \in DOMAIN every : every[k].window \notin empty}
           M == R * W
<1>7. s = [runs |-> Selected(every, J), skipped |-> combos.skipped, grid |-> grid,
           emptyWindows |-> IF every = <<>> THEN {} ELSE empty]
  BY DEF RunSweep, combos
<1>8. M \in Nat /\ DOMAIN every = 1 .. M BY <1>4, <1>6
<1>9. \A k \in 1 .. M : every[k] \in Row /\ every[k].window = ColumnOf(k, W)
  <2> SUFFICES ASSUME NEW k \in 1 .. M PROVE every[k] \in Row /\ every[k].window = ColumnOf(k, W)
    OBVIOUS
  <2> DEFINE c == combos.runnable[RowOf(k, W)]
             w == ColumnOf(k, W)
  <2>1. every[k] = [params |-> c, window |-> w, score |-> score[c] * w]
    BY <1>8 DEF RowOf, ColumnOf
  <2>2. k \in Nat \ {0} /\ k <= R * W BY <1>8
  <2>3. RowOf(k, W) \in Nat \ {0} /\ w \in 1 .. W /\ k = W * (RowOf(k, W) - 1) + w BY <2>2, CellIs
  <2>4. RowOf(k, W) <= R
    <3> DEFINE i == RowOf(k, W)
    <3> HIDE DEF i, w
    <3> SUFFICES ASSUME R <= i - 1 PROVE FALSE BY <1>4, <2>3 DEF i
    <3>1. R * W <= (i - 1) * W BY <1>4, <2>3, Scaled DEF i
    <3>2. (i - 1) * W = W * (i - 1) /\ (i - 1) * W \in Int BY <2>3 DEF i
    <3>3. k = W * (i - 1) + w /\ w \in 1 .. W BY <2>3 DEF i
    <3> HIDE DEF M
    <3> QED BY <1>8, <2>2, <3>1, <3>2, <3>3 DEF M
  <2>5. c \in Nat \X Nat /\ score[c] \in Int
    <3>1. RowOf(k, W) \in 1 .. Len(combos.runnable) BY <1>4, <1>6, <2>3, <2>4
    <3>2. c \in D BY <1>6, <3>1
    <3> QED BY <1>17, <3>2
  <2> HIDE DEF c, w, every
  <2>6. score[c] * w \in Int BY <2>3, <2>5
  <2>7. [params |-> c, window |-> w, score |-> score[c] * w] \in Row BY <2>3, <2>5, <2>6 DEF RunRows
  <2> QED BY <2>1, <2>7 DEF w, RunRows
<1>10. J = CellsIn(R, W, (1 .. W) \ empty)
  <2> HIDE DEF every
  <2>1. \A k \in 1 .. M : ColumnOf(k, W) \in 1 .. W
    <3> SUFFICES ASSUME NEW k \in 1 .. M PROVE ColumnOf(k, W) \in 1 .. W OBVIOUS
    <3>1. k \in Nat \ {0} BY <1>8
    <3> QED BY <3>1, CellIs
  <2>2. J = {k \in 1 .. M : ColumnOf(k, W) \notin empty} BY <1>8, <1>9
  <2> QED BY <2>1, <2>2 DEF CellsIn
<1> HIDE DEF every, J
<1>11. /\ IsFiniteSet(empty) /\ Cardinality(empty) \in Nat
       /\ Cardinality((1 .. W) \ empty) = W - Cardinality(empty)
  <2>1. IsFiniteSet(1 .. W) /\ Cardinality(1 .. W) = W BY UpTo
  <2>2. (1 .. W) \cap empty = empty OBVIOUS
  <2>3. Cardinality((1 .. W) \ empty) = W - Cardinality(empty)
    <3>1. Cardinality((1 .. W) \ empty) = Cardinality(1 .. W) - Cardinality((1 .. W) \cap empty)
      BY <2>1, FS_Difference
    <3> QED BY <2>1, <2>2, <3>1
  <2>4. IsFiniteSet(empty) BY <2>1, FS_Subset
  <2> QED BY <2>3, <2>4, FS_CardinalityType
<1>12. IsFiniteSet(J) /\ J \in SUBSET Nat /\ Cardinality(J) = R * (W - Cardinality(empty))
  <2>1. (1 .. W) \ empty \in SUBSET (1 .. W) OBVIOUS
  <2> QED BY <1>4, <1>10, <1>11, <2>1, CellsAre
<1>13. Selected(every, J) \in Seq(Row) /\ Len(Selected(every, J)) = R * (W - Cardinality(empty))
  <2>1. \A k \in J : every[k] \in Row BY <1>8, <1>9 DEF J
  <2> QED BY <1>12, <2>1, SelectedIs
<1>14. (every = <<>>) = (R = 0)
  <2>1. ASSUME R = 0 PROVE every = <<>>
    <3>1. DOMAIN every = {} BY <1>8, <2>1
    <3> QED BY <3>1 DEF every
  <2>2. ASSUME R # 0 PROVE every # <<>>
    <3>1. 1 <= R BY <1>4, <2>2
    <3>2. 1 * W <= R * W BY <1>4, <3>1, Scaled
    <3>3. 1 \in DOMAIN every BY <1>8, <3>2
    <3> QED BY <3>3
  <2> QED BY <2>1, <2>2
<1>15. /\ Len(ExpandGrid(s.grid)) = N /\ s.skipped \in Seq(Nat \X Nat) /\ Len(s.skipped) = N - R
       /\ s.runs \in Seq(Row) /\ Len(s.runs) = R * (W - Cardinality(empty))
       /\ s.emptyWindows = IF R = 0 THEN {} ELSE empty
  <2>1. /\ s.grid = grid /\ s.skipped = combos.skipped /\ s.runs = Selected(every, J)
        /\ s.emptyWindows = IF every = <<>> THEN {} ELSE empty
    <3> DEFINE r == Selected(every, J)
               k == combos.skipped
               e == IF every = <<>> THEN {} ELSE empty
    <3> HIDE DEF grid, r, k, e
    <3>1. s = [runs |-> r, skipped |-> k, grid |-> grid, emptyWindows |-> e] BY <1>7 DEF r, k, e
    <3>2. s.grid = grid /\ s.skipped = k /\ s.runs = r /\ s.emptyWindows = e BY <3>1
    <3> QED BY <3>2 DEF r, k, e
  <2>2. Len(ExpandGrid(s.grid)) = N BY <1>2, <2>1 DEF all
  <2> QED BY <1>6, <1>13, <1>14, <2>1, <2>2
<1>16. R \in 0 .. a * b BY <1>1, <1>4 DEF N
<1> QED BY <1>15, <1>16 DEF N, SweepCounts

(* Every cell of a sweep is a run, a rejected combination or an empty window,  *)
(* and the winner, which nothing beats, is deflated by as many trials as ran:  *)
(* for every grid, set of accepted combinations, number of windows and set of  *)
(* windows without data (run_sweep, SweepSummary.deflated_winner).             *)
THEOREM EverySweepIsAccounted ==
  ASSUME NEW a \in Nat, NEW b \in Nat, NEW accepted, NEW windows \in Nat \ {0},
         NEW empty \in SUBSET (1 .. windows), NEW score,
         \A c \in ToSet(ExpandGrid(<<a, b>>)) : score[c] \in Int, NEW prior \in Nat
  PROVE  TrialsAreAccounted(RunSweep(<<a, b>>, accepted, windows, empty, score), windows, prior)
<1> DEFINE s == RunSweep(<<a, b>>, accepted, windows, empty, score)
           W == windows
           E == Cardinality(empty)
           d == DeflatedWinner(s, prior)
           Row == RunRows(W)
<1> HIDE DEF s, Row
<1>1. PICK R : SweepCounts(s, a * b, W, empty, R)
  <2>1. s = RunSweep(<<a, b>>, accepted, windows, empty, score) BY DEF s
  <2> QED BY <2>1, SweepIs
<1>2. E \in Nat /\ E <= W
  <2>1. IsFiniteSet(1 .. W) /\ Cardinality(1 .. W) = W BY UpTo
  <2>2. IsFiniteSet(empty) /\ Cardinality(empty) <= Cardinality(1 .. W) BY <2>1, FS_Subset
  <2>3. Cardinality(empty) \in Nat BY <2>2, FS_CardinalityType
  <2> QED BY <2>1, <2>2, <2>3
<1>3. Len(ExpandGrid(s.grid)) * W =
        Len(s.runs) + Len(s.skipped) * W
        + (Len(ExpandGrid(s.grid)) - Len(s.skipped)) * Cardinality(s.emptyWindows)
  <2> DEFINE N == a * b
             C == Cardinality(s.emptyWindows)
  <2>1. N \in Nat /\ R \in 0 .. N BY <1>1 DEF SweepCounts
  <2>2. C = (IF R = 0 THEN 0 ELSE E) BY <1>1, FS_EmptySet DEF SweepCounts
  <2> HIDE DEF N, C, E
  <2>3. R * C = R * E /\ R * E \in Int BY <1>2, <2>1, <2>2
  <2>4. N - (N - R) = R BY <2>1
  <2>5. N * W = R * (W - E) + (N - R) * W + R * E BY <1>2, <2>1
  <2>6. Len(s.runs) = R * (W - E) /\ Len(s.skipped) = N - R /\ Len(ExpandGrid(s.grid)) = N
    BY <1>1 DEF N, E, SweepCounts
  <2>7. N * W = R * (W - E) + (N - R) * W + (N - (N - R)) * C BY <2>3, <2>4, <2>5
  <2> QED BY <2>6, <2>7 DEF C
<1> DEFINE n == Len(s.runs)
           t == TrialSharpes(s)
<1>4. n \in Nat /\ DOMAIN s.runs = 1 .. n /\ \A i \in 1 .. n : s.runs[i] \in Row
  BY <1>1 DEF SweepCounts, Row
<1>5. \A r \in Row : r.score \in Int BY DEF Row, RunRows
<1>6. Len(t) = n
  <2>1. t = [i \in DOMAIN s.runs |-> s.runs[i].score] BY DEF TrialSharpes
  <2> HIDE DEF n, t
  <2> QED BY <1>4, <2>1
<1>7. /\ (d = Absent) = (s.runs = <<>>)
      /\ d # Absent => /\ d.by.trials = n + prior
                       /\ \A i \in DOMAIN s.runs : s.runs[i].score <= d.winner.score
  <2>1. CASE s.runs = <<>>
    <3>1. d = Absent BY <2>1 DEF DeflatedWinner
    <3> QED BY <2>1, <3>1
  <2>2. CASE s.runs # <<>>
    <3> DEFINE w == Best(s.runs)
               f == Deflated(t, prior)
    <3>1. d = [winner |-> w, by |-> f] BY <2>2 DEF DeflatedWinner
    <3>2. f.trials = n + prior BY <1>6 DEF Deflated
    <3>3. n # 0 BY <1>1, <2>2
    <3> HIDE DEF w, f, d, n
    <3>4. d # Absent /\ d.winner = w /\ d.by = f BY <3>1 DEF Absent
    <3>5. PICK i \in 1 .. n : w = s.runs[i] /\ \A j \in 1 .. n : s.runs[j].score <= s.runs[i].score
      <4> DEFINE rows == s.runs
      <4>1. n \in Nat \ {0} /\ DOMAIN rows = 1 .. n /\ \A k \in 1 .. n : rows[k].score \in Int
        BY <1>4, <1>5, <3>3
      <4> HIDE DEF rows
      <4>2. \E k \in 1 .. n : Best(rows) = rows[k] /\ \A j \in 1 .. n : rows[j].score <= rows[k].score
        BY <4>1, BestIs
      <4> QED BY <4>2 DEF rows, w
    <3> QED BY <1>4, <2>2, <3>2, <3>4, <3>5
  <2> QED BY <2>1, <2>2
<1>8. TrialsAreAccounted(s, W, prior) BY <1>3, <1>7 DEF TrialsAreAccounted
<1> QED BY <1>8 DEF s

-----------------------------------------------------------------------------
(* Plateaus (Sweep) *)

(* The mean of a combination that ran is a sum over at least one run.          *)
Ratio == Int \X (Nat \ {0})

(* So the mean of a scored combination is a ratio.                             *)
LEMMA ComboIs ==
  ASSUME NEW W, NEW s, s.runs \in Seq(RunRows(W)), NEW c \in Scored(s)
  PROVE  ComboScore(s, c) \in Ratio
<1> DEFINE n == Len(s.runs)
           own == {i \in DOMAIN s.runs : s.runs[i].params = c}
           f == [i \in own |-> s.runs[i].score]
<1>1. n \in Nat /\ DOMAIN s.runs = 1 .. n /\ \A i \in 1 .. n : s.runs[i].score \in Int
  <2>1. \A r \in RunRows(W) : r.score \in Int BY DEF RunRows
  <2> QED BY <2>1
<1>2. own # {} /\ own \in SUBSET (1 .. n)
  <2>1. PICK i \in DOMAIN s.runs : c = s.runs[i].params BY DEF Scored
  <2>2. i \in own BY <2>1
  <2> QED BY <1>1, <2>2
<1>3. IsFiniteSet(own)
  <2> HIDE DEF own, n
  <2>1. IsFiniteSet(1 .. n) BY <1>1, UpTo
  <2> QED BY <1>2, <2>1, FS_Subset
<1>4. ComboScore(s, c) = <<SumFunctionOnSet(f, own), Cardinality(own)>> BY DEF ComboScore, SumFunction
<1>5. \A i \in own : f[i] \in Int BY <1>1, <1>2
<1> HIDE DEF own, f
<1>6. SumFunctionOnSet(f, own) \in Int BY <1>3, <1>5, SumType
<1>7. Cardinality(own) \in Nat \ {0} BY <1>2, <1>3, FS_CardinalityType, FS_EmptySet
<1> QED BY <1>4, <1>6, <1>7 DEF Ratio

(* One more element is at most one more.                                       *)
LEMMA AddOne ==
  ASSUME NEW S, IsFiniteSet(S), NEW n \in Nat, Cardinality(S) <= n, NEW x
  PROVE  IsFiniteSet(S \cup {x}) /\ Cardinality(S \cup {x}) <= n + 1
<1>1. /\ IsFiniteSet(S \cup {x})
      /\ Cardinality(S \cup {x}) = IF x \in S THEN Cardinality(S) ELSE Cardinality(S) + 1
  BY FS_AddElement
<1>2. Cardinality(S) \in Nat BY FS_CardinalityType
<1> QED BY <1>1, <1>2

(* Four names are at most four things.                                         *)
LEMMA AtMostFour ==
  ASSUME NEW w, NEW x, NEW y, NEW z
  PROVE  IsFiniteSet({w, x, y, z}) /\ Cardinality({w, x, y, z}) <= 4
<1> DEFINE A == {w}
           B == A \cup {x}
           C == B \cup {y}
<1>1. IsFiniteSet(A) /\ Cardinality(A) <= 1 BY FS_Singleton
<1> HIDE DEF A
<1>2. IsFiniteSet(B) /\ Cardinality(B) <= 1 + 1
  <2>1. 1 \in Nat OBVIOUS
  <2> QED BY ONLY <2>1, <1>1, AddOne
<1> HIDE DEF B
<1>3. IsFiniteSet(C) /\ Cardinality(C) <= 2 + 1
  <2>1. 2 \in Nat /\ Cardinality(B) <= 2 BY <1>2
  <2> QED BY ONLY <2>1, <1>2, AddOne
<1> HIDE DEF C
<1>4. IsFiniteSet(C \cup {z}) /\ Cardinality(C \cup {z}) <= 3 + 1
  <2>1. 3 \in Nat /\ Cardinality(C) <= 3 BY <1>3
  <2> QED BY ONLY <2>1, <1>3, AddOne
<1>5. {w, x, y, z} = C \cup {z} BY DEF A, B, C
<1> QED BY <1>4, <1>5

(* A combination's neighbours are one step away along one axis.                *)
LEMMA NeighboursAre ==
  ASSUME NEW W, NEW s, s.runs \in Seq(RunRows(W)), NEW c \in Scored(s)
  PROVE  /\ c \notin Neighbours(s, c) /\ Neighbours(s, c) \subseteq Scored(s)
         /\ \A n \in Scored(s) : n \in Neighbours(s, c) <=> c \in Neighbours(s, n)
         /\ IsFiniteSet(Neighbours(s, c)) /\ Cardinality(Neighbours(s, c)) \in 0 .. 4
<1> DEFINE Next4 == {<<c[1] - 1, c[2]>>, <<c[1] + 1, c[2]>>, <<c[1], c[2] - 1>>, <<c[1], c[2] + 1>>}
           Near(a, b) == \/ Magnitude(a[1] - b[1]) = 1 /\ a[2] = b[2]
                         \/ Magnitude(a[2] - b[2]) = 1 /\ a[1] = b[1]
<1>1. \A n \in Scored(s) : n \in Nat \X Nat
  <2>1. \A r \in RunRows(W) : r.params \in Nat \X Nat BY DEF RunRows
  <2> QED BY <2>1 DEF Scored
<1>2. \A a \in Scored(s), n \in Scored(s) : n \in Neighbours(s, a) <=> Near(n, a)
  <2> SUFFICES ASSUME NEW a \in Scored(s), NEW n \in Scored(s)
               PROVE  n \in Neighbours(s, a) <=> Near(n, a)
    OBVIOUS
  <2>1. n \in Neighbours(s, a) <=> \E axis \in 1 .. 2 : /\ Magnitude(n[axis] - a[axis]) = 1
                                                        /\ n[3 - axis] = a[3 - axis]
    BY DEF Neighbours
  <2>2. \A axis \in 1 .. 2 : axis = 1 \/ axis = 2 OBVIOUS
  <2>3. 3 - 1 = 2 /\ 3 - 2 = 1 OBVIOUS
  <2> QED BY <2>1, <2>2, <2>3
<1>3. \A a \in Nat \X Nat, b \in Nat \X Nat : (Near(a, b) <=> Near(b, a)) /\ ~Near(a, a)
  <2> SUFFICES ASSUME NEW a \in Nat \X Nat, NEW b \in Nat \X Nat
               PROVE  (Near(a, b) <=> Near(b, a)) /\ ~Near(a, a)
    OBVIOUS
  <2> DEFINE x1 == a[1]
             x2 == a[2]
             y1 == b[1]
             y2 == b[2]
  <2>1. /\ Magnitude(x1 - y1) = Magnitude(y1 - x1) /\ Magnitude(x2 - y2) = Magnitude(y2 - x2)
        /\ Magnitude(x1 - x1) = 0 /\ Magnitude(x2 - x2) = 0
    BY DEF Magnitude
  <2> QED BY <2>1
<1>4. c \in Nat \X Nat BY <1>1
<1>5. \A n \in Nat \X Nat : Near(n, c) => n \in Next4
  <2> SUFFICES ASSUME NEW n \in Nat \X Nat, Near(n, c) PROVE n \in Next4 OBVIOUS
  <2>1. n[1] \in Nat /\ n[2] \in Nat /\ c[1] \in Nat /\ c[2] \in Nat /\ n = <<n[1], n[2]>> BY <1>4
  <2>2. CASE Magnitude(n[1] - c[1]) = 1 /\ n[2] = c[2]
    <3>1. n[1] = c[1] - 1 \/ n[1] = c[1] + 1 BY <2>1, <2>2 DEF Magnitude
    <3> QED BY <2>1, <2>2, <3>1
  <2>3. CASE Magnitude(n[2] - c[2]) = 1 /\ n[1] = c[1]
    <3>1. n[2] = c[2] - 1 \/ n[2] = c[2] + 1 BY <2>1, <2>3 DEF Magnitude
    <3> QED BY <2>1, <2>3, <3>1
  <2> QED BY <2>2, <2>3
<1>6. Neighbours(s, c) \subseteq Scored(s) BY DEF Neighbours
<1>7. Neighbours(s, c) \subseteq Next4
  <2> SUFFICES ASSUME NEW n \in Neighbours(s, c) PROVE n \in Next4 OBVIOUS
  <2>1. n \in Scored(s) /\ n \in Nat \X Nat BY <1>1, <1>6
  <2>2. Near(n, c) BY <1>2, <2>1
  <2> HIDE DEF Near, Next4
  <2> QED BY <1>5, <2>1, <2>2
<1>8. IsFiniteSet(Next4) /\ Cardinality(Next4) <= 4
  BY AtMostFour
<1> HIDE DEF Next4, Near
<1>9. IsFiniteSet(Neighbours(s, c)) /\ Cardinality(Neighbours(s, c)) \in 0 .. 4
  <2>1. IsFiniteSet(Neighbours(s, c)) /\ Cardinality(Neighbours(s, c)) <= Cardinality(Next4)
    BY <1>7, <1>8, FS_Subset
  <2>2. Cardinality(Neighbours(s, c)) \in Nat /\ Cardinality(Next4) \in Nat
    BY <1>8, <2>1, FS_CardinalityType
  <2> QED BY <1>8, <2>1, <2>2
<1>10. c \notin Neighbours(s, c) BY <1>2, <1>3, <1>4
<1>11. \A n \in Scored(s) : n \in Neighbours(s, c) <=> c \in Neighbours(s, n) BY <1>1, <1>2, <1>3, <1>4
<1> QED BY <1>6, <1>9, <1>10, <1>11

(* The sum of the neighbours' means, one neighbour at a time.                  *)
NearMean(s, near) == FoldSet(LAMBDA n, sum : AddRatios(ComboScore(s, n), sum), Zero, near)

MeanOf(s, near, g) ==
  g = [T \in SUBSET near |-> IF T = {} THEN Zero
                             ELSE AddRatios(ComboScore(s, CHOOSE x \in T : TRUE),
                                            g[T \ {CHOOSE x \in T : TRUE}])]

(* The fold over the neighbours is a recursion over sets of them.              *)
LEMMA MeanDef == ASSUME NEW s, NEW near PROVE NearMean(s, near) = (CHOOSE g : MeanOf(s, near, g))[near]
BY DEF NearMean, FoldSet, MapThenFoldSet, MeanOf

(* The sum of two ratios is a ratio.                                           *)
LEMMA RatiosAdd ==
  ASSUME NEW p \in Ratio, NEW q \in Ratio
  PROVE  AddRatios(p, q) \in Ratio
<1>1. p[1] \in Int /\ q[1] \in Int /\ p[2] \in Nat \ {0} /\ q[2] \in Nat \ {0} BY DEF Ratio
<1> DEFINE a == p[1]
           b == p[2]
           c == q[1]
           d == q[2]
<1>2. AddRatios(p, q) = <<a * d + c * b, b * d>> BY DEF AddRatios
<1>3. a \in Int /\ c \in Int /\ b \in Nat \ {0} /\ d \in Nat \ {0} BY <1>1
<1> HIDE DEF a, b, c, d
<1>4. a * d + c * b \in Int BY <1>3
<1>5. b * d \in Nat \ {0}
  <2>1. 1 * d <= b * d /\ b * d \in Int BY <1>3, Scaled
  <2> QED BY <1>3, <2>1
<1> QED BY <1>2, <1>4, <1>5 DEF Ratio

(* If none of the neighbours is above p, then neither is their mean.           *)
MeanBelow(p, v, t) == v[1] * p[2] <= t * (p[1] * v[2])

(* One more neighbour that is not above p keeps the mean below it.             *)
LEMMA MeanGrows ==
  ASSUME NEW p \in Ratio, NEW q \in Ratio, AtLeast(p, q), NEW v \in Ratio, NEW t \in Nat,
         MeanBelow(p, v, t)
  PROVE  MeanBelow(p, AddRatios(q, v), t + 1)
<1> DEFINE a == p[1]
           b == p[2]
           c == q[1]
           d == q[2]
           e == v[1]
           f == v[2]
<1>1. /\ a \in Int /\ c \in Int /\ e \in Int /\ b \in Nat \ {0} /\ d \in Nat \ {0} /\ f \in Nat \ {0}
  BY DEF Ratio
<1>2. ~(a * d < c * b) BY DEF AtLeast, Less
<1>3. e * b <= t * (a * f) BY DEF MeanBelow
<1>4. AddRatios(q, v) = <<c * f + e * d, d * f>> BY DEF AddRatios
<1>5. MeanBelow(p, AddRatios(q, v), t + 1) = ((c * f + e * d) * b <= (t + 1) * (a * (d * f)))
  BY <1>4 DEF MeanBelow
<1> HIDE DEF a, b, c, d, e, f
<1>6. c * b \in Int /\ a * d \in Int /\ c * b <= a * d BY <1>1, <1>2
<1>7. (c * b) * f <= (a * d) * f BY <1>1, <1>6, Scaled
<1>8. e * b \in Int /\ t * (a * f) \in Int BY <1>1
<1>9. (e * b) * d <= (t * (a * f)) * d BY <1>1, <1>3, <1>8, Scaled
<1>10. (c * f + e * d) * b = (c * b) * f + (e * b) * d BY <1>1
<1>11. (t + 1) * (a * (d * f)) = (a * d) * f + (t * (a * f)) * d BY <1>1
<1> DEFINE x1 == (c * b) * f
           x2 == (a * d) * f
           y1 == (e * b) * d
           y2 == (t * (a * f)) * d
<1>12. x1 \in Int /\ x2 \in Int /\ y1 \in Int /\ y2 \in Int BY <1>1
<1>13. x1 <= x2 /\ y1 <= y2 BY <1>7, <1>9
<1>14. (c * f + e * d) * b = x1 + y1 /\ (t + 1) * (a * (d * f)) = x2 + y2 BY <1>10, <1>11
<1> HIDE DEF x1, x2, y1, y2
<1>15. x1 + y1 <= x2 + y2 BY <1>12, <1>13
<1> QED BY <1>5, <1>14, <1>15

(* So the mean of all of them is not above p.                                  *)
LEMMA MeanIs ==
  ASSUME NEW s, NEW near, IsFiniteSet(near), \A n \in near : ComboScore(s, n) \in Ratio,
         NEW p \in Ratio, \A n \in near : AtLeast(p, ComboScore(s, n))
  PROVE  /\ NearMean(s, near) \in Ratio
         /\ MeanBelow(p, NearMean(s, near), Cardinality(near))
<1> DEFINE c == [T \in SUBSET near |-> CHOOSE x \in T : TRUE]
           F == [z \in near \X Ratio |-> AddRatios(ComboScore(s, z[1]), z[2])]
<1>1. Zero \in Ratio BY DEF Zero, Ratio
<1>2. F \in [near \X Ratio -> Ratio]
  <2> SUFFICES ASSUME NEW z \in near \X Ratio
               PROVE  AddRatios(ComboScore(s, z[1]), z[2]) \in Ratio
    OBVIOUS
  <2>1. z[1] \in near /\ z[2] \in Ratio OBVIOUS
  <2>2. ComboScore(s, z[1]) \in Ratio BY <2>1
  <2> QED BY <2>1, <2>2, RatiosAdd
<1>3. \A T \in SUBSET near : T # {} => c[T] = (CHOOSE x \in T : TRUE) /\ c[T] \in T OBVIOUS
<1>4. \A x \in near, v \in Ratio : F[<<x, v>>] = AddRatios(ComboScore(s, x), v) OBVIOUS
<1> HIDE DEF c, F
<1>5. PICK h \in [SUBSET near -> Ratio] : Recursion(near, Zero, c, F, h)
  BY <1>1, <1>2, <1>3, RecursionExists
<1>6. MeanOf(s, near, h)
  <2>1. ASSUME NEW T \in SUBSET near
        PROVE  h[T] = IF T = {} THEN Zero ELSE AddRatios(ComboScore(s, CHOOSE x \in T : TRUE),
                                                         h[T \ {CHOOSE x \in T : TRUE}])
    <3>1. CASE T = {} BY <1>5, <3>1 DEF Recursion
    <3>2. CASE T # {}
      <4>1. h[T] = F[<<c[T], h[T \ {c[T]}]>>] BY <1>5, <3>2 DEF Recursion
      <4>2. c[T] \in near /\ h[T \ {c[T]}] \in Ratio BY <1>3, <1>5, <3>2
      <4> QED BY <1>3, <1>4, <3>2, <4>1, <4>2
    <3> QED BY <3>1, <3>2
  <2>2. h = [T \in SUBSET near |-> h[T]] BY <1>5
  <2> QED BY <2>1, <2>2 DEF MeanOf
<1> DEFINE g == CHOOSE k : MeanOf(s, near, k)
<1>7. MeanOf(s, near, g) BY <1>6
<1>8. NearMean(s, near) = g[near] BY MeanDef
<1> HIDE DEF g
<1> DEFINE P == {T \in SUBSET near : g[T] \in Ratio /\ MeanBelow(p, g[T], Cardinality(T))}
<1>9. {} \in P
  <2>1. g[{}] = Zero BY <1>7 DEF MeanOf
  <2>2. Cardinality({}) = 0 BY FS_EmptySet
  <2>3. MeanBelow(p, Zero, 0)
    <3>1. p[2] \in Int /\ p[1] \in Int BY DEF Ratio
    <3>2. Zero[1] * p[2] = 0 /\ 0 * (p[1] * Zero[2]) = 0 BY <3>1 DEF Zero
    <3> QED BY <3>2 DEF MeanBelow
  <2> QED BY <1>1, <2>1, <2>2, <2>3
<1>10. ASSUME NEW T \in SUBSET near, T # {}, \A x \in T : T \ {x} \in P PROVE T \in P
  <2> DEFINE x == CHOOSE y \in T : TRUE
             R == T \ {x}
  <2>1. x \in T /\ x \in near BY <1>10
  <2>2. g[T] = AddRatios(ComboScore(s, x), g[R]) BY <1>7, <1>10 DEF MeanOf
  <2>3. IsFiniteSet(T) BY FS_Subset
  <2>4. Cardinality(T) \in Nat /\ Cardinality(R) = Cardinality(T) - 1 /\ Cardinality(R) \in Nat
    <3> HIDE DEF x
    <3>1. IsFiniteSet(R) /\ Cardinality(R) = Cardinality(T) - 1 BY <2>1, <2>3, FS_RemoveElement
    <3> QED BY <2>3, <3>1, FS_CardinalityType
  <2> HIDE DEF x
  <2>5. g[R] \in Ratio /\ MeanBelow(p, g[R], Cardinality(R)) BY <1>10, <2>1
  <2>6. ComboScore(s, x) \in Ratio /\ AtLeast(p, ComboScore(s, x)) BY <2>1
  <2> HIDE DEF R
  <2>7. g[T] \in Ratio /\ MeanBelow(p, g[T], Cardinality(R) + 1)
    BY <2>2, <2>4, <2>5, <2>6, RatiosAdd, MeanGrows
  <2>8. Cardinality(R) + 1 = Cardinality(T) BY <2>4
  <2> QED BY <2>7, <2>8
<1>11. P \in SUBSET (SUBSET near) OBVIOUS
<1> HIDE DEF P
<1>12. \A T \in SUBSET near : T # {} /\ (\A x \in T : T \ {x} \in P) => T \in P BY <1>10
<1>13. P = SUBSET near BY <1>9, <1>11, <1>12, SetOfSubsets
<1>14. near \in P BY <1>13
<1> QED BY <1>8, <1>14 DEF P

(* What a row of the stability table says.                                     *)
LEMMA StabilityIs ==
  ASSUME NEW s, NEW c \in Scored(s)
  PROVE  /\ DOMAIN Stability(s) = Scored(s)
         /\ Stability(s)[c].score = ComboScore(s, c)
         /\ Stability(s)[c].count = Cardinality(Neighbours(s, c))
         /\ Neighbours(s, c) = {} => Stability(s)[c].gap = Absent
         /\ Neighbours(s, c) # {} =>
              Stability(s)[c].gap[1] =
                ComboScore(s, c)[1] * NearMean(s, Neighbours(s, c))[2] * Cardinality(Neighbours(s, c))
                - NearMean(s, Neighbours(s, c))[1] * ComboScore(s, c)[2]
<1> DEFINE near == Neighbours(s, c)
           mean == NearMean(s, near)
           own == ComboScore(s, c)
           gap == IF near = {} THEN Absent
                  ELSE <<own[1] * mean[2] * Cardinality(near) - mean[1] * own[2],
                         own[2] * mean[2] * Cardinality(near)>>
<1>1. DOMAIN Stability(s) = Scored(s) BY DEF Stability
<1>2. Stability(s)[c] = [score |-> own, count |-> Cardinality(near), gap |-> gap]
  BY DEF Stability, NearMean
<1>3. Neighbours(s, c) = {} => gap = Absent OBVIOUS
<1>4. near # {} => gap[1] = own[1] * mean[2] * Cardinality(near) - mean[1] * own[2] OBVIOUS
<1> HIDE DEF gap, own, mean, near
<1>5. /\ Stability(s)[c].score = own /\ Stability(s)[c].count = Cardinality(near)
      /\ Stability(s)[c].gap = gap
  BY <1>2
<1> QED BY <1>1, <1>3, <1>4, <1>5 DEF own, mean, near

(* Being on a plateau is mutual and the best combination is never below the    *)
(* mean of its neighbours, on whatever part of a grid ran (SweepSummary        *)
(* .parameter_stability).                                                      *)
THEOREM PlateausAreAlwaysMutual ==
  ASSUME NEW W, NEW s, s.runs \in Seq(RunRows(W))
  PROVE  PlateausAreMutual(s)
<1> DEFINE rows == Stability(s)
<1>1. ASSUME NEW c \in Scored(s)
      PROVE  DOMAIN rows = Scored(s) /\ c \notin Neighbours(s, c) /\ rows[c].count <= 4
  <2>1. DOMAIN rows = Scored(s) /\ rows[c].count = Cardinality(Neighbours(s, c)) BY StabilityIs
  <2>2. c \notin Neighbours(s, c) /\ Cardinality(Neighbours(s, c)) \in 0 .. 4 BY NeighboursAre
  <2> HIDE DEF rows
  <2> QED BY <2>1, <2>2
<1>2. DOMAIN rows = Scored(s) BY DEF Stability
<1>3. \A c, n \in Scored(s) : n \in Neighbours(s, c) <=> c \in Neighbours(s, n) BY NeighboursAre
<1>4. ASSUME NEW c \in Scored(s), \A n \in Scored(s) : AtLeast(rows[c].score, rows[n].score),
             rows[c].gap # Absent
      PROVE  rows[c].gap[1] >= 0
  <2> DEFINE near == Neighbours(s, c)
             p == ComboScore(s, c)
             v == NearMean(s, near)
             t == Cardinality(near)
  <2>1. rows[c].score = p /\ \A n \in Scored(s) : rows[n].score = ComboScore(s, n)
    BY StabilityIs
  <2>2. near # {} /\ rows[c].gap[1] = p[1] * v[2] * t - v[1] * p[2] BY <1>4, StabilityIs
  <2>3. near \subseteq Scored(s) /\ IsFiniteSet(near) /\ t \in Nat BY NeighboursAre
  <2>4. p \in Ratio /\ \A n \in near : ComboScore(s, n) \in Ratio BY <2>3, ComboIs
  <2> HIDE DEF rows, near, p
  <2>5. \A n \in near : AtLeast(p, ComboScore(s, n)) BY <1>4, <2>1, <2>3
  <2>6. v \in Ratio /\ MeanBelow(p, v, t) BY <2>3, <2>4, <2>5, MeanIs
  <2> HIDE DEF v, t
  <2>7. v[1] * p[2] <= t * (p[1] * v[2]) BY <2>6 DEF MeanBelow
  <2>8. p[1] \in Int /\ p[2] \in Int /\ v[1] \in Int /\ v[2] \in Int BY <2>4, <2>6 DEF Ratio
  <2>9. p[1] * v[2] * t = t * (p[1] * v[2]) /\ v[1] * p[2] \in Int /\ t * (p[1] * v[2]) \in Int
    BY <2>3, <2>8
  <2> QED BY <2>2, <2>7, <2>9
<1> HIDE DEF rows
<1>5. \A c \in DOMAIN rows : c \notin Neighbours(s, c) /\ rows[c].count <= 4 BY <1>1, <1>2
<1>6. \A c, n \in DOMAIN rows : (n \in Neighbours(s, c)) = (c \in Neighbours(s, n))
  BY <1>2, <1>3 DEF Neighbours
<1>7. \A c \in DOMAIN rows :
         (\A n \in DOMAIN rows : AtLeast(rows[c].score, rows[n].score)) /\ rows[c].gap # Absent
         => rows[c].gap[1] >= 0
  BY <1>2, <1>4
<1> QED BY <1>5, <1>6, <1>7 DEF PlateausAreMutual, rows

-----------------------------------------------------------------------------
(* Cost levels (Sweep) *)

(* A finite set of naturals in ascending order.                                *)
LEMMA AscendingIs ==
  ASSUME NEW S \in SUBSET Nat, IsFiniteSet(S)
  PROVE  /\ Cardinality(S) \in Nat /\ DOMAIN Ascending(S) = 1 .. Cardinality(S)
         /\ Len(Ascending(S)) = Cardinality(S)
         /\ \A i \in 1 .. Cardinality(S) : Ascending(S)[i] \in S
         /\ \A x \in S : \E i \in 1 .. Cardinality(S) : Ascending(S)[i] = x
         /\ \A i, j \in 1 .. Cardinality(S) : i < j => Ascending(S)[i] < Ascending(S)[j]
<1> DEFINE n == Cardinality(S)
           A == Ascending(S)
           R(x) == Cardinality(Below(S, x))
           UpToX(x) == {y \in S : y <= x}
<1>1. n \in Nat BY FS_CardinalityType
<1>2. A = [i \in 1 .. n |-> CHOOSE x \in S : Cardinality(UpToX(x)) = i] BY DEF Ascending
<1>3. DOMAIN A = 1 .. n /\ Len(A) = n
  <2> HIDE DEF n, UpToX
  <2> QED BY <1>1, <1>2
<1>4. \A x \in S : R(x) \in Nat /\ Cardinality(UpToX(x)) = R(x) + 1
  <2> SUFFICES ASSUME NEW x \in S PROVE R(x) \in Nat /\ Cardinality(UpToX(x)) = R(x) + 1 OBVIOUS
  <2>1. IsFiniteSet(Below(S, x)) /\ R(x) \in Nat BY BelowIsFinite
  <2>2. UpToX(x) = Below(S, x) \cup {x}
    <3>1. x \in Nat /\ \A y \in S : y \in Nat OBVIOUS
    <3>2. \A y \in S : y <= x <=> y < x \/ y = x BY <3>1
    <3> QED BY <3>2 DEF Below
  <2>3. x \notin Below(S, x) BY DEF Below
  <2>4. Cardinality(Below(S, x) \cup {x}) = R(x) + 1
    <3> DEFINE b == Below(S, x)
    <3>1. IsFiniteSet(b) /\ x \notin b BY <2>1, <2>3
    <3> HIDE DEF b
    <3>2. Cardinality(b \cup {x}) = Cardinality(b) + 1 BY <3>1, FS_AddElement
    <3> QED BY <3>2 DEF b
  <2> QED BY <2>1, <2>2, <2>4
<1>5. \A i \in 1 .. n : A[i] \in S /\ R(A[i]) = i - 1
  <2> SUFFICES ASSUME NEW i \in 1 .. n PROVE A[i] \in S /\ R(A[i]) = i - 1 OBVIOUS
  <2>1. PICK x \in S : R(x) = i - 1 BY RankExists
  <2>2. Cardinality(UpToX(x)) = i BY <1>1, <1>4, <2>1
  <2>3. A[i] = CHOOSE y \in S : Cardinality(UpToX(y)) = i BY <1>2
  <2>4. A[i] \in S /\ Cardinality(UpToX(A[i])) = i
    <3> HIDE DEF UpToX, A
    <3> QED BY <2>2, <2>3
  <2> DEFINE a == A[i]
  <2>5. a \in S /\ Cardinality(UpToX(a)) = i BY <2>4
  <2> HIDE DEF a, UpToX, A
  <2>6. R(a) \in Nat /\ R(a) + 1 = i BY <1>4, <2>5
  <2> HIDE DEF R, n
  <2>7. a \in S /\ R(a) = i - 1 BY <1>1, <2>5, <2>6
  <2> QED BY <2>7 DEF a
<1>6. \A x, y \in S : (x < y => R(x) < R(y)) /\ R(x) < n BY RankRises
<1> HIDE DEF A, n, R
<1>7. ASSUME NEW i \in 1 .. n, NEW j \in 1 .. n, i < j PROVE A[i] < A[j]
  <2> DEFINE x == A[i]
             y == A[j]
  <2>1. x \in Nat /\ y \in Nat /\ x \in S /\ y \in S /\ R(x) = i - 1 /\ R(y) = j - 1 BY <1>5
  <2> HIDE DEF x, y
  <2>2. x # y BY <1>7, <2>1
  <2>3. ~(y < x)
    <3> SUFFICES ASSUME y < x PROVE FALSE OBVIOUS
    <3>1. R(y) < R(x) BY <1>6, <2>1
    <3> QED BY <1>1, <1>7, <2>1, <3>1
  <2>4. x < y BY <2>1, <2>2, <2>3
  <2> QED BY <2>4 DEF x, y
<1>8. ASSUME NEW x \in S PROVE \E i \in 1 .. n : A[i] = x
  <2> DEFINE i == R(x) + 1
             y == A[i]
  <2>1. R(x) \in Nat /\ R(x) < n BY <1>4, <1>6
  <2>2. i \in 1 .. n BY <1>1, <2>1
  <2>3. y \in S /\ R(y) = R(x) BY <1>5, <2>1, <2>2
  <2> HIDE DEF y, i
  <2>4. ~(x < y) /\ ~(y < x)
    <3>1. ASSUME x < y PROVE FALSE
      <4>1. R(x) < R(y) BY <1>6, <2>3, <3>1
      <4> QED BY <2>1, <2>3, <4>1
    <3>2. ASSUME y < x PROVE FALSE
      <4>1. R(y) < R(x) BY <1>6, <2>3, <3>2
      <4> QED BY <2>1, <2>3, <4>1
    <3> QED BY <3>1, <3>2
  <2>5. x = y
    <3>1. x \in Nat /\ y \in Nat BY <2>3
    <3> QED BY <2>4, <3>1
  <2> QED BY <2>2, <2>5 DEF y
<1> QED BY <1>1, <1>3, <1>5, <1>7, <1>8 DEF n, A

(* Walking up levels of which the first is alive: the first fall.              *)
Falls(v, n, threshold) == {i \in 2 .. n : v[i] <= threshold /\ ~(v[i - 1] <= threshold)}

(* Before the first fall everything is alive.                                  *)
LEMMA FirstFall ==
  ASSUME NEW n \in Nat \ {0}, NEW v, NEW threshold, ~(v[1] <= threshold)
  PROVE  /\ Falls(v, n, threshold) = {} => \A i \in 1 .. n : ~(v[i] <= threshold)
         /\ Falls(v, n, threshold) # {} =>
              LET hi == Min(Falls(v, n, threshold))
              IN /\ hi \in 2 .. n /\ v[hi] <= threshold
                 /\ \A i \in 1 .. hi - 1 : ~(v[i] <= threshold)
<1> DEFINE falls == Falls(v, n, threshold)
           Early(i) == \A f \in falls : i < f
           P == {m \in Nat : \A i \in 1 .. n : i <= m + 1 /\ Early(i) => ~(v[i] <= threshold)}
<1>1. 0 \in P
  <2>1. \A i \in 1 .. n : i <= 0 + 1 => i = 1 OBVIOUS
  <2> QED BY <2>1
<1>2. ASSUME NEW m \in P PROVE m + 1 \in P
  <2> SUFFICES ASSUME NEW i \in 1 .. n, i <= m + 2, Early(i) PROVE ~(v[i] <= threshold)
    OBVIOUS
  <2>1. m \in Nat OBVIOUS
  <2>2. CASE i = 1 BY <2>2
  <2>3. CASE i # 1
    <3>1. i - 1 \in 1 .. n /\ i - 1 <= m + 1 /\ i \in 2 .. n BY <2>1, <2>3
    <3>2. \A f \in falls : f \in Int BY DEF Falls
    <3>3. Early(i - 1)
      <4> SUFFICES ASSUME NEW f \in falls PROVE i - 1 < f OBVIOUS
      <4>1. i < f /\ f \in Int BY <3>2
      <4> QED BY <4>1
    <3>4. ~(v[i - 1] <= threshold) BY <3>1, <3>3
    <3>5. ~(i \in falls)
      <4> SUFFICES ASSUME i \in falls PROVE FALSE OBVIOUS
      <4>1. i < i OBVIOUS
      <4> QED BY <4>1
    <3> QED BY <3>1, <3>4, <3>5 DEF Falls
  <2> QED BY <2>2, <2>3
<1>3. P \in SUBSET Nat OBVIOUS
<1> HIDE DEF P
<1>4. P = Nat
  <2>1. \A m \in P : m + 1 \in P BY <1>2
  <2> QED BY <1>1, <1>3, <2>1, SetOfNaturals
<1>5. \A i \in 1 .. n : Early(i) => ~(v[i] <= threshold)
  <2> SUFFICES ASSUME NEW i \in 1 .. n, Early(i) PROVE ~(v[i] <= threshold) OBVIOUS
  <2>1. i - 1 \in P /\ i <= (i - 1) + 1 BY <1>4
  <2> QED BY <2>1 DEF P
<1>6. falls = {} => \A i \in 1 .. n : ~(v[i] <= threshold) BY <1>5
<1>7. ASSUME falls # {}
      PROVE  /\ Min(falls) \in 2 .. n /\ v[Min(falls)] <= threshold
             /\ \A i \in 1 .. Min(falls) - 1 : ~(v[i] <= threshold)
  <2>1. falls \in SUBSET (2 .. n) /\ IsFiniteSet(2 .. n) BY FS_Interval DEF Falls
  <2>2. falls \in SUBSET Int /\ IsFiniteSet(falls)
    <3>1. 2 .. n \subseteq Int OBVIOUS
    <3> QED BY <2>1, <3>1, FS_Subset
  <2>3. \A i \in falls : i \in 2 .. n /\ v[i] <= threshold BY DEF Falls
  <2> HIDE DEF falls
  <2> DEFINE hi == Min(falls)
  <2>4. hi \in falls /\ \A f \in falls : hi <= f BY <1>7, <2>2, MinExists
  <2>5. hi \in 2 .. n /\ v[hi] <= threshold BY <2>3, <2>4
  <2> HIDE DEF hi
  <2>6. ASSUME NEW i \in 1 .. hi - 1 PROVE i \in 1 .. n /\ Early(i)
    <3>1. i \in 1 .. n /\ i < hi BY <2>5
    <3>2. \A f \in falls : f \in Int /\ hi <= f BY <2>3, <2>4
    <3> QED BY <2>5, <3>1, <3>2
  <2>7. \A i \in 1 .. hi - 1 : ~(v[i] <= threshold) BY <1>5, <2>6
  <2> QED BY <2>5, <2>7 DEF hi
<1> QED BY <1>6, <1>7

(* What the first fall says of an edge.                                        *)
LEMMA DeathIs ==
  ASSUME NEW levels, NEW v, NEW threshold, levels # <<>>, NEW n, n = Len(levels),
         NEW d, d = EdgeDeath(levels, v, threshold)
  PROVE  /\ v[1] <= threshold => d.dead = TRUE /\ d.survives = FALSE
         /\ ~(v[1] <= threshold) /\ Falls(v, n, threshold) = {} => d.dead = FALSE /\ d.survives = TRUE
         /\ ~(v[1] <= threshold) /\ Falls(v, n, threshold) # {} =>
              LET hi == Min(Falls(v, n, threshold))
              IN /\ d.dead = FALSE /\ d.survives = FALSE
                 /\ d.crossing = <<levels[hi - 1] * (v[hi - 1] - v[hi])
                                   + (v[hi - 1] - threshold) * (levels[hi] - levels[hi - 1]),
                                   v[hi - 1] - v[hi]>>
<1> DEFINE falls == {i \in 2 .. Len(levels) : v[i] <= threshold /\ ~(v[i - 1] <= threshold)}
           hi == Min(falls)
           drop == v[hi - 1] - v[hi]
           x == <<levels[hi - 1] * drop + (v[hi - 1] - threshold) * (levels[hi] - levels[hi - 1]), drop>>
           y == <<levels[1], 1>>
           e == EdgeDeath(levels, v, threshold)
<1>1. falls = Falls(v, n, threshold) BY DEF Falls
<1>2. e = IF v[1] <= threshold THEN [crossing |-> y, dead |-> TRUE, survives |-> FALSE]
          ELSE IF falls = {} THEN [crossing |-> Absent, dead |-> FALSE, survives |-> TRUE]
          ELSE [crossing |-> x, dead |-> FALSE, survives |-> FALSE]
  BY DEF EdgeDeath
<1> DEFINE z == x
<1>3. z = <<levels[hi - 1] * (v[hi - 1] - v[hi])
            + (v[hi - 1] - threshold) * (levels[hi] - levels[hi - 1]), v[hi - 1] - v[hi]>>
  OBVIOUS
<1>4. e = IF v[1] <= threshold THEN [crossing |-> y, dead |-> TRUE, survives |-> FALSE]
          ELSE IF falls = {} THEN [crossing |-> Absent, dead |-> FALSE, survives |-> TRUE]
          ELSE [crossing |-> z, dead |-> FALSE, survives |-> FALSE]
  BY <1>2
<1> HIDE DEF e, z, y, falls
<1>5. /\ v[1] <= threshold => e.dead = TRUE /\ e.survives = FALSE
      /\ ~(v[1] <= threshold) /\ falls = {} => e.dead = FALSE /\ e.survives = TRUE
      /\ ~(v[1] <= threshold) /\ falls # {} => e.dead = FALSE /\ e.survives = FALSE /\ e.crossing = z
  <2>1. CASE v[1] <= threshold BY <1>4, <2>1
  <2>2. CASE ~(v[1] <= threshold) /\ falls = {} BY <1>4, <2>2
  <2>3. CASE ~(v[1] <= threshold) /\ falls # {} BY <1>4, <2>3
  <2> QED BY <2>1, <2>2, <2>3
<1>6. d = e BY DEF e
<1> QED BY <1>1, <1>3, <1>5, <1>6

(* The crossing lies between the last level alive and the first one dead.      *)
LEMMA CrossingLies ==
  ASSUME NEW a \in Nat, NEW b \in Nat, a < b, NEW p \in Int, NEW q \in Int, NEW t \in Int,
         p > t, q <= t
  PROVE  LET x == <<a * (p - q) + (p - t) * (b - a), p - q>>
         IN Less(<<a, 1>>, x) /\ ~Less(<<b, 1>>, x)
<1> DEFINE w == p - q
           g == p - t
           h == b - a
           c == a * w + g * h
<1>1. w \in Nat /\ g \in Nat \ {0} /\ h \in Nat \ {0} /\ g <= w /\ b = a + h OBVIOUS
<1>2. Less(<<a, 1>>, <<c, w>>) = (a * w < c * 1) /\ Less(<<b, 1>>, <<c, w>>) = (b * w < c * 1) BY DEF Less
<1> HIDE DEF w, g, h
<1>3. a * w \in Int /\ g * h \in Int /\ w * h \in Int BY <1>1
<1>4. 1 * h <= g * h BY <1>1, Scaled
<1>5. g * h <= w * h BY <1>1, Scaled
<1>6. b * w = a * w + w * h
  <2>1. (a + h) * w = a * w + w * h BY <1>1
  <2> QED BY <1>1, <2>1
<1> DEFINE i == a * w
           j == g * h
           k == w * h
<1>7. i \in Int /\ j \in Int /\ k \in Int /\ h <= j /\ j <= k /\ c = i + j /\ b * w = i + k BY <1>1, <1>3, <1>4, <1>5, <1>6
<1> HIDE DEF i, j, k, c
<1>8. i < c * 1 /\ ~(b * w < c * 1) BY <1>1, <1>7
<1>9. Less(<<a, 1>>, <<c, w>>) /\ ~Less(<<b, 1>>, <<c, w>>)
  <2>1. a * w = i BY DEF i
  <2> QED BY <1>2, <1>8, <2>1
<1> QED BY <1>9 DEF c, w, g, h

(* An edge dies once: for every list of levels, every result at each of them   *)
(* and every threshold (CostSensitivitySummary.edge_death).                    *)
THEOREM EveryEdgeDiesOnce ==
  ASSUME NEW asked \in Seq(Nat), NEW valueAt, \A l \in Nat : l \in ToSet(asked) => valueAt[l] \in Int,
         NEW threshold \in Int
  PROVE  EdgeDiesOnce(asked, valueAt, threshold)
<1> DEFINE S == ToSet(asked)
           x == CostSensitivity(asked, FALSE, valueAt, threshold)
           A == Ascending(S)
           v == [i \in DOMAIN A |-> valueAt[A[i]]]
           n == Cardinality(S)
           alive == {l \in S : \A m \in S : m <= l => valueAt[m] > threshold}
           dead == S \ alive
<1>1. CASE asked = <<>>
  <2>1. x = Absent BY <1>1 DEF CostSensitivity
  <2> QED BY <2>1 DEF EdgeDiesOnce
<1>2. CASE asked # <<>>
  <2>1. S \in SUBSET Nat /\ IsFiniteSet(S) /\ S # {}
    <3> DEFINE k == Len(asked)
    <3>1. k \in Nat /\ DOMAIN asked = 1 .. k /\ k # 0 BY <1>2
    <3>2. S = {asked[i] : i \in 1 .. k} BY <3>1 DEF ToSet
    <3>3. asked \in Surjection(1 .. k, S) BY <3>1, <3>2 DEF Surjection
    <3> HIDE DEF k
    <3>4. IsFiniteSet(1 .. k) BY <3>1, UpTo
    <3>5. IsFiniteSet(S) BY <3>3, <3>4, FS_Surjection
    <3>6. asked[1] \in S BY <3>1, <3>2
    <3>7. S \in SUBSET Nat BY <3>1, <3>2
    <3> QED BY <3>5, <3>6, <3>7
  <2>2. /\ n \in Nat \ {0} /\ DOMAIN A = 1 .. n /\ Len(A) = n
        /\ \A i \in 1 .. n : A[i] \in S
        /\ \A l \in S : \E i \in 1 .. n : A[i] = l
        /\ \A i, j \in 1 .. n : i < j => A[i] < A[j]
    <3> HIDE DEF S
    <3>1. n # 0 BY <2>1, FS_EmptySet
    <3> QED BY <2>1, <3>1, AscendingIs
  <2>3. x = [levels |-> A, death |-> EdgeDeath(A, v, threshold)] BY <1>2 DEF CostSensitivity
  <2>4. \A l \in S : valueAt[l] \in Int BY <2>1
  <2>5. DOMAIN v = 1 .. n /\ \A i \in 1 .. n : v[i] = valueAt[A[i]] BY <2>2
  <2> DEFINE d == EdgeDeath(A, v, threshold)
             falls == Falls(v, n, threshold)
             hi == Min(falls)
  <2>6. x # Absent => x.death = d
    <3> HIDE DEF A, d, x
    <3> QED BY <2>3 DEF d
  <2>7. \A i \in 1 .. n : A[i] \in Nat /\ v[i] \in Int BY <2>1, <2>2, <2>4, <2>5
  <2>8. \A i, j \in 1 .. n : A[i] <= A[j] => i <= j
    <3> SUFFICES ASSUME NEW i \in 1 .. n, NEW j \in 1 .. n, A[i] <= A[j], ~(i <= j) PROVE FALSE
      OBVIOUS
    <3>1. j < i BY <2>2
    <3>2. A[j] < A[i] BY <2>2, <3>1
    <3> DEFINE a == A[i]
               b == A[j]
    <3>3. a \in Nat /\ b \in Nat /\ a <= b /\ b < a BY <2>7, <3>2
    <3> HIDE DEF a, b
    <3> QED BY <3>3
  <2> HIDE DEF S, A, v, n, x, d
  <2>9. \A i \in 1 .. n : A[i] \in alive <=> \A j \in 1 .. i : v[j] > threshold
    <3> SUFFICES ASSUME NEW i \in 1 .. n PROVE A[i] \in alive <=> \A j \in 1 .. i : v[j] > threshold
      OBVIOUS
    <3>1. \A j \in 1 .. i : j \in 1 .. n /\ A[j] \in S /\ A[j] <= A[i] /\ v[j] = valueAt[A[j]]
      <4> SUFFICES ASSUME NEW j \in 1 .. i PROVE j \in 1 .. n /\ A[j] \in S /\ A[j] <= A[i] /\ v[j] = valueAt[A[j]]
        OBVIOUS
      <4>1. j \in 1 .. n BY <2>2
      <4>2. j = i \/ j < i BY <2>2
      <4>3. A[j] <= A[i] BY <2>2, <2>7, <4>1, <4>2
      <4> QED BY <2>2, <2>5, <4>1, <4>3
    <3>2. \A m \in S : m <= A[i] => \E j \in 1 .. i : m = A[j]
      <4> SUFFICES ASSUME NEW m \in S, m <= A[i] PROVE \E j \in 1 .. i : m = A[j] OBVIOUS
      <4>1. PICK j \in 1 .. n : A[j] = m BY <2>2
      <4>2. j <= i BY <2>8, <4>1
      <4>3. j \in 1 .. i BY <2>2, <4>2
      <4> QED BY <4>1, <4>3
    <3>3. A[i] \in S BY <2>2
    <3> QED BY <3>1, <3>2, <3>3
  <2>10. /\ v[1] <= threshold => d.dead = TRUE /\ d.survives = FALSE
         /\ ~(v[1] <= threshold) /\ falls = {} => d.dead = FALSE /\ d.survives = TRUE
         /\ ~(v[1] <= threshold) /\ falls # {} =>
              /\ d.dead = FALSE /\ d.survives = FALSE
              /\ d.crossing = <<A[hi - 1] * (v[hi - 1] - v[hi])
                                + (v[hi - 1] - threshold) * (A[hi] - A[hi - 1]), v[hi - 1] - v[hi]>>
    <3>1. A # <<>>
      <4> SUFFICES ASSUME A = <<>> PROVE FALSE OBVIOUS
      <4>1. Len(A) = 0 OBVIOUS
      <4> QED BY <2>2, <4>1
    <3>2. d = EdgeDeath(A, v, threshold) /\ n = Len(A) BY <2>2 DEF d
    <3> QED BY <3>1, <3>2, DeathIs
  <2>11. 1 \in 1 .. n BY <2>2
  <2>12. CASE v[1] <= threshold
    <3>1. alive = {}
      <4> SUFFICES ASSUME NEW l \in alive PROVE FALSE OBVIOUS
      <4>1. PICK i \in 1 .. n : A[i] = l BY <2>2
      <4>2. 1 \in 1 .. i BY <2>2
      <4>3. v[1] > threshold BY <2>9, <4>1, <4>2
      <4> QED BY <2>7, <2>11, <2>12, <4>3
    <3>2. dead # {} BY <2>1, <3>1
    <3> HIDE DEF alive, dead
    <3> QED BY <2>6, <2>10, <2>12, <3>1, <3>2 DEF EdgeDiesOnce, alive, dead, x, S
  <2>13. CASE ~(v[1] <= threshold) /\ falls = {}
    <3>1. \A i \in 1 .. n : ~(v[i] <= threshold) BY <2>2, <2>13, FirstFall
    <3>2. alive = S
      <4> SUFFICES ASSUME NEW l \in S PROVE l \in alive OBVIOUS
      <4>1. PICK i \in 1 .. n : A[i] = l BY <2>2
      <4>2. \A j \in 1 .. i : v[j] > threshold
        <5> SUFFICES ASSUME NEW j \in 1 .. i PROVE v[j] > threshold OBVIOUS
        <5>1. j \in 1 .. n BY <2>2
        <5> QED BY <2>7, <3>1, <5>1
      <4> HIDE DEF alive
      <4> QED BY <2>9, <4>1, <4>2
    <3>3. dead = {} /\ alive # {} BY <2>1, <3>2
    <3> HIDE DEF alive, dead
    <3> QED BY <2>6, <2>10, <2>13, <3>3 DEF EdgeDiesOnce, alive, dead, x, S
  <2>14. CASE ~(v[1] <= threshold) /\ falls # {}
    <3>1. hi \in 2 .. n /\ v[hi] <= threshold /\ \A i \in 1 .. hi - 1 : ~(v[i] <= threshold)
      BY <2>2, <2>14, FirstFall
    <3> DEFINE a == A[hi - 1]
               b == A[hi]
               p == v[hi - 1]
               q == v[hi]
               c == <<a * (p - q) + (p - threshold) * (b - a), p - q>>
    <3>2. d.dead = FALSE /\ d.survives = FALSE /\ d.crossing = c BY <2>10, <2>14
    <3> HIDE DEF hi
    <3>3. hi - 1 \in 1 .. n /\ hi \in 1 .. n /\ hi - 1 < hi /\ hi - 1 \in 1 .. hi - 1 BY <2>2, <3>1
    <3>4. a \in Nat /\ b \in Nat /\ a < b /\ p \in Int /\ q \in Int /\ p > threshold /\ q <= threshold
      <4>1. a < b BY <2>2, <3>3
      <4>2. ~(p <= threshold) BY <3>1, <3>3
      <4> QED BY <2>7, <3>1, <3>3, <4>1, <4>2
    <3>5. Less(<<a, 1>>, c) /\ ~Less(<<b, 1>>, c)
      <4> HIDE DEF a, b, p, q
      <4> QED BY <3>4, CrossingLies
    <3> HIDE DEF c
    <3>6. \A i \in 1 .. n : A[i] \in alive <=> i < hi
      <4> SUFFICES ASSUME NEW i \in 1 .. n PROVE A[i] \in alive <=> i < hi OBVIOUS
      <4>1. CASE i < hi
        <5>1. \A j \in 1 .. i : j \in 1 .. hi - 1 /\ j \in 1 .. n BY <2>2, <3>3, <4>1
        <5>2. \A j \in 1 .. i : v[j] > threshold BY <2>7, <3>1, <5>1
        <5> HIDE DEF alive
        <5> QED BY <2>9, <4>1, <5>2
      <4>2. CASE ~(i < hi)
        <5>1. hi \in 1 .. i BY <2>2, <3>3, <4>2
        <5>2. ~(v[hi] > threshold) BY <2>7, <3>1, <3>3
        <5> HIDE DEF alive
        <5> QED BY <2>9, <4>2, <5>1, <5>2
      <4> QED BY <4>1, <4>2
    <3>7. a \in alive /\ b \in dead
      <4>1. b \in S BY <2>2, <3>3
      <4> HIDE DEF alive
      <4> QED BY <2>2, <3>3, <3>6, <4>1
    <3>8. alive \in SUBSET Int /\ IsFiniteSet(alive) /\ dead \in SUBSET Int /\ IsFiniteSet(dead)
      <4>1. alive \in SUBSET S /\ dead \in SUBSET S OBVIOUS
      <4> HIDE DEF alive, dead
      <4>2. S \in SUBSET Int BY <2>1
      <4> QED BY <2>1, <4>1, <4>2, FS_Subset
    <3>9. \A l \in S : \E i \in 1 .. n : A[i] = l BY <2>2
    <3>10. alive \subseteq S /\ dead \subseteq S /\ \A l \in dead : l \notin alive OBVIOUS
    <3> HIDE DEF alive, dead
    <3>11. Max(alive) = a
      <4> DEFINE m == Max(alive)
      <4>1. m \in alive /\ m >= a BY <3>7, <3>8, MaxExists
      <4> HIDE DEF m
      <4>2. PICK i \in 1 .. n : A[i] = m BY <3>9, <3>10, <4>1
      <4>3. i < hi BY <3>6, <4>1, <4>2
      <4>4. i = hi - 1 \/ i < hi - 1 BY <3>3, <4>3
      <4>5. CASE i = hi - 1 BY <4>2, <4>5 DEF m
      <4>6. CASE i < hi - 1
        <5>1. m < a BY <2>2, <3>3, <4>2, <4>6
        <5>2. m \in Nat /\ a \in Nat BY <2>7, <3>4, <4>2
        <5> HIDE DEF a
        <5> QED BY <4>1, <5>1, <5>2
      <4> QED BY <4>4, <4>5, <4>6
    <3>12. Min(dead) = b
      <4> DEFINE m == Min(dead)
      <4>1. m \in dead /\ m <= b BY <3>7, <3>8, MinExists
      <4> HIDE DEF m
      <4>2. PICK i \in 1 .. n : A[i] = m BY <3>9, <3>10, <4>1
      <4>3. ~(i < hi) BY <3>6, <3>10, <4>1, <4>2
      <4>4. i = hi \/ hi < i BY <3>3, <4>3
      <4>5. CASE i = hi BY <4>2, <4>5 DEF m
      <4>6. CASE hi < i
        <5>1. b < m BY <2>2, <3>3, <4>2, <4>6
        <5>2. m \in Nat /\ b \in Nat BY <2>7, <3>4, <4>2
        <5> HIDE DEF b
        <5> QED BY <4>1, <5>1, <5>2
      <4> QED BY <4>4, <4>5, <4>6
    <3>13. alive # {} /\ dead # {} BY <3>7
    <3> HIDE DEF a, b
    <3> QED BY <2>6, <3>2, <3>5, <3>11, <3>12, <3>13 DEF EdgeDiesOnce, alive, dead, x, S
  <2> QED BY <2>12, <2>13, <2>14
<1> QED BY <1>1, <1>2
-----------------------------------------------------------------------------
(* The searches of the research commands *)

(* A search leaves nothing out and sees nothing twice: what a sweep, a         *)
(* walk-forward and a cost sensitivity report is what the theorems above give  *)
(* for every input (sweep.py).                                                 *)
THEOREM SearchesAreAccounted == Spec => []SearchIsAccounted
<1>1. Init => SearchIsAccounted
  <2> SUFFICES ASSUME study = [of |-> "none"] PROVE SearchIsAccounted BY DEF Init
  <2>1. study.of = "none" OBVIOUS
  <2> QED BY <2>1 DEF SearchIsAccounted
<1>2. ASSUME SearchIsAccounted, [Next]_<<study, strategy, book>> PROVE SearchIsAccounted'
  <2>1. CASE StudySweep
    <3>1. PICK g \in {<<2, 2>>, <<3, 1>>}, windows \in 1 .. 2 :
            \E out \in {{}, {<<1, 1>>}, {<<2, 1>>, <<1, 2>>}, ToSet(ExpandGrid(g))},
               empty \in SUBSET (1 .. windows), s \in [ToSet(ExpandGrid(g)) -> {-1, 0, 2}] :
              study' = [of |-> "sweep", windows |-> windows,
                        summary |-> RunSweep(g, ToSet(ExpandGrid(g)) \ out, windows, empty, s)]
      BY <2>1 DEF StudySweep
    <3>2. PICK out \in {{}, {<<1, 1>>}, {<<2, 1>>, <<1, 2>>}, ToSet(ExpandGrid(g))},
               empty \in SUBSET (1 .. windows), s \in [ToSet(ExpandGrid(g)) -> {-1, 0, 2}] :
            study' = [of |-> "sweep", windows |-> windows,
                      summary |-> RunSweep(g, ToSet(ExpandGrid(g)) \ out, windows, empty, s)]
      BY <3>1
    <3> DEFINE accepted == ToSet(ExpandGrid(g)) \ out
               summary == RunSweep(g, accepted, windows, empty, s)
    <3>3. study'.of = "sweep" /\ study'.windows = windows /\ study'.summary = summary BY <3>2
    <3>4. PICK a \in Nat, b \in Nat : g = <<a, b>>
      <4>1. g = <<2, 2>> \/ g = <<3, 1>> OBVIOUS
      <4> QED BY <4>1
    <3>5. windows \in Nat \ {0} /\ 2 \in Nat OBVIOUS
    <3>6. \A c \in ToSet(ExpandGrid(<<a, b>>)) : s[c] \in Int BY <3>4
    <3>7. summary = RunSweep(<<a, b>>, accepted, windows, empty, s) BY <3>4
    <3> HIDE DEF accepted, summary
    <3>8. TrialsAreAccounted(summary, windows, 2)
      BY <3>5, <3>6, <3>7, EverySweepIsAccounted
    <3>9. PlateausAreMutual(summary)
      <4>1. PICK R : SweepCounts(summary, a * b, windows, empty, R) BY <3>5, <3>6, <3>7, SweepIs
      <4>2. summary.runs \in Seq(RunRows(windows)) BY <4>1 DEF SweepCounts
      <4> QED BY <4>2, PlateausAreAlwaysMutual
    <3> QED BY <3>3, <3>8, <3>9 DEF SearchIsAccounted
  <2>2. CASE StudyFolds
    <3>1. PICK end \in {0, 5, 8, 12, 13}, folds \in 0 .. 3, mode \in {"anchored", "rolling"},
               runnable \in {<<>>, <<1>>, <<1, 2>>}, s \in [{1, 2} -> [1 .. 3 -> {0, 1}]] :
            \E tape \in {0 .. end, {t \in 0 .. end : t % 3 = 0}, 4 .. end, {0, 7}} :
              study' = [of |-> "folds", folds |-> folds, runnable |-> runnable, end |-> end,
                        walk |-> RunWalkForward(0, end, folds, mode, runnable, tape, s)]
      BY <2>2 DEF StudyFolds
    <3>2. PICK tape \in {0 .. end, {t \in 0 .. end : t % 3 = 0}, 4 .. end, {0, 7}} :
              study' = [of |-> "folds", folds |-> folds, runnable |-> runnable, end |-> end,
                        walk |-> RunWalkForward(0, end, folds, mode, runnable, tape, s)]
      BY <3>1
    <3>10. tape \in SUBSET Int
      <4>1. end \in Int OBVIOUS
      <4>2. 0 .. end \subseteq Int /\ 4 .. end \subseteq Int /\ {0, 7} \subseteq Int BY <4>1
      <4>3. {t \in 0 .. end : t % 3 = 0} \subseteq Int BY <4>2
      <4> QED BY <4>2, <4>3
    <3> DEFINE walk == RunWalkForward(0, end, folds, mode, runnable, tape, s)
    <3>3. /\ study'.of = "folds" /\ study'.folds = folds /\ study'.runnable = runnable
          /\ study'.end = end /\ study'.walk = walk
      BY <3>2
    <3>4. 0 \in Int /\ end \in Int /\ folds \in Nat /\ 2 \in Nat /\ folds <= 3 OBVIOUS
    <3>5. runnable \in Seq({1, 2})
      <4>1. <<>> \in Seq({1, 2}) OBVIOUS
      <4>2. <<1>> \in Seq({1, 2}) OBVIOUS
      <4>3. <<1, 2>> \in Seq({1, 2}) OBVIOUS
      <4> QED BY <4>1, <4>2, <4>3
    <3>6. \A x \in {1, 2} : \A j \in 1 .. folds : s[x][j] \in Int
      <4> SUFFICES ASSUME NEW x \in {1, 2}, NEW j \in 1 .. folds PROVE s[x][j] \in Int OBVIOUS
      <4>1. s[x] \in [1 .. 3 -> {0, 1}] /\ j \in 1 .. 3 BY <3>4
      <4> QED BY <4>1
    <3>7. OutOfSampleIsUnseen(walk) BY <3>4, <3>10, EveryWalkIsUnseen
    <3>8. FoldsAreAccounted(walk, folds, runnable, 2) BY <3>4, <3>5, <3>6, <3>10, EveryFoldIsAccounted
    <3>9. \A w \in 0 .. 3 : WindowsTile(0, end, w) BY <3>4, WindowsAlwaysTile
    <3> HIDE DEF walk
    <3> QED BY <3>3, <3>7, <3>8, <3>9 DEF SearchIsAccounted
  <2>3. CASE StudyCosts
    <3>1. PICK asked \in {<<>>, <<5>>, <<10, 0, 5>>, <<5, 0, 5>>}, v \in [{0, 5, 10} -> -1 .. 2] :
            study' = [of |-> "costs", asked |-> asked, value |-> v]
      BY <2>3 DEF StudyCosts
    <3>2. study'.of = "costs" /\ study'.asked = asked /\ study'.value = v BY <3>1
    <3>3. asked \in Seq(Nat)
      <4>1. <<>> \in Seq(Nat) OBVIOUS
      <4>2. <<5>> \in Seq(Nat) OBVIOUS
      <4>3. <<10, 0, 5>> \in Seq(Nat) OBVIOUS
      <4>4. <<5, 0, 5>> \in Seq(Nat) OBVIOUS
      <4> QED BY <4>1, <4>2, <4>3, <4>4
    <3>4. \A l \in Nat : l \in ToSet(asked) => v[l] \in Int
      <4>1. \A i \in DOMAIN asked : asked[i] \in {0, 5, 10}
        <5>1. CASE asked = <<>> BY <5>1
        <5>2. CASE asked = <<5>> BY <5>2
        <5>3. CASE asked = <<10, 0, 5>> BY <5>3
        <5>4. CASE asked = <<5, 0, 5>> BY <5>4
        <5> QED BY <5>1, <5>2, <5>3, <5>4
      <4>2. ToSet(asked) \subseteq {0, 5, 10} BY <4>1 DEF ToSet
      <4> QED BY <4>2
    <3>5. EdgeDiesOnce(asked, v, 0)
      <4>1. 0 \in Int OBVIOUS
      <4> QED BY ONLY <4>1, <3>3, <3>4, EveryEdgeDiesOnce
    <3> QED BY <3>2, <3>5 DEF SearchIsAccounted
  <2>4. CASE \/ StudyCurve \/ StudyRun \/ StudyPair \/ StudySignificance \/ StudySplit
             \/ StudySources \/ StudyRecords
    <3>1. study'.of \in {"curve", "run", "pair", "significance", "split", "sources", "cache", "index",
                         "universe", "file"}
      <4>1. CASE StudyCurve BY <4>1 DEF StudyCurve
      <4>2. CASE StudyRun BY <4>2 DEF StudyRun
      <4>3. CASE StudyPair BY <4>3 DEF StudyPair
      <4>4. CASE StudySignificance BY <4>4 DEF StudySignificance
      <4>5. CASE StudySplit BY <4>5 DEF StudySplit
      <4>6. CASE StudySources BY <4>6 DEF StudySources
      <4>7. CASE StudyRecords BY <4>7 DEF StudyRecords
      <4> QED BY <2>4, <4>1, <4>2, <4>3, <4>4, <4>5, <4>6, <4>7
    <3> QED BY <3>1 DEF SearchIsAccounted
  <2>5. CASE study' = study BY <1>2, <2>5 DEF SearchIsAccounted
  <2> QED BY <1>2, <2>1, <2>2, <2>3, <2>4, <2>5 DEF Next, Study
<1> QED BY <1>1, <1>2, PTL DEF Spec
-----------------------------------------------------------------------------
(* The sources of a run *)
(* Sources *)

(* What a venue knows of a symbol.                                             *)
Quotes == [ts : Int, raw : Nat, close : Nat, volume : Nat]
StockSplits == [day : Int, ratio : Nat \X Nat]
Answers == [up : BOOLEAN, rawUp : BOOLEAN, splitsUp : BOOLEAN,
            bars : SUBSET Quotes, splits : SUBSET StockSplits]
Providers ==
  {p \in Answers : IsFiniteSet(p.bars) /\ \A b, c \in p.bars : b.ts = c.ts => b = c}

Inside(p, from, to) == {b \in p.bars : from <= b.ts /\ b.ts <= to}

(* The elements of a sequence.                                                 *)
LEMMA ToSetIs ==
  ASSUME NEW X, NEW s \in Seq(X)
  PROVE  /\ DOMAIN s = 1 .. Len(s) /\ Len(s) \in Nat /\ IsFiniteSet(DOMAIN s)
         /\ ToSet(s) \subseteq X /\ \A i \in DOMAIN s : s[i] \in ToSet(s)
         /\ \A x \in ToSet(s) : \E i \in DOMAIN s : s[i] = x
<1>1. DOMAIN s = 1 .. Len(s) /\ Len(s) \in Nat OBVIOUS
<1>2. IsFiniteSet(1 .. Len(s)) BY <1>1, FS_Interval
<1> QED BY <1>1, <1>2 DEF ToSet

(* What a selection of a sequence holds.                                       *)
LEMMA SelectedSet ==
  ASSUME NEW I \in SUBSET Nat, IsFiniteSet(I), NEW s, NEW X, \A i \in I : s[i] \in X
  PROVE  /\ Selected(s, I) \in Seq(X) /\ Len(Selected(s, I)) = Cardinality(I)
         /\ \A x : x \in ToSet(Selected(s, I)) <=> \E i \in I : s[i] = x
<1>3. /\ Selected(s, I) \in Seq(X) /\ Len(Selected(s, I)) = Cardinality(I)
      /\ \A i \in I : \E j \in 1 .. Cardinality(I) : Selected(s, I)[j] = s[i]
      /\ \A j \in 1 .. Cardinality(I) : \E i \in I : Selected(s, I)[j] = s[i]
  BY SelectedIs
<1>4. DOMAIN Selected(s, I) = 1 .. Cardinality(I) BY <1>3
<1>5. \A x : x \in ToSet(Selected(s, I)) <=> \E j \in 1 .. Cardinality(I) : Selected(s, I)[j] = x
  BY <1>4 DEF ToSet
<1> QED BY <1>3, <1>5

LEMMA SelectionHolds ==
  ASSUME NEW X, NEW s \in Seq(X), NEW I \in SUBSET (DOMAIN s)
  PROVE  /\ Selected(s, I) \in Seq(X) /\ Len(Selected(s, I)) = Cardinality(I)
         /\ \A x : x \in ToSet(Selected(s, I)) <=> \E i \in I : s[i] = x
<1>1. I \in SUBSET Nat /\ IsFiniteSet(I)
  <2>1. IsFiniteSet(DOMAIN s) /\ DOMAIN s \in SUBSET Nat BY ToSetIs
  <2> QED BY <2>1, FS_Subset
<1>2. \A i \in I : s[i] \in X OBVIOUS
<1> QED BY <1>1, <1>2, SelectedSet

(* dict.fromkeys keeps what was asked for, once each.                          *)
LEMMA DedupeIs ==
  ASSUME NEW X, NEW s \in Seq(X)
  PROVE  /\ Dedupe(s) \in Seq(X) /\ ToSet(Dedupe(s)) = ToSet(s)
         /\ \A i, j \in DOMAIN Dedupe(s) : Dedupe(s)[i] = Dedupe(s)[j] => i = j
<1> DEFINE I == {i \in DOMAIN s : \A j \in 1 .. i - 1 : s[j] # s[i]}
<1>1. I \in SUBSET (DOMAIN s) /\ Dedupe(s) = Selected(s, I) BY DEF Dedupe
<1>2. /\ Dedupe(s) \in Seq(X) /\ Len(Dedupe(s)) = Cardinality(I)
      /\ \A x : x \in ToSet(Dedupe(s)) <=> \E i \in I : s[i] = x
  BY <1>1, SelectionHolds
<1>3. DOMAIN s = 1 .. Len(s) /\ Len(s) \in Nat /\ IsFiniteSet(DOMAIN s) BY ToSetIs
<1>4. ASSUME NEW k \in DOMAIN s PROVE \E i \in I : s[i] = s[k]
  <2> DEFINE K == {i \in DOMAIN s : s[i] = s[k]}
             m == Min(K)
  <2>1. K \in SUBSET Int /\ IsFiniteSet(K) /\ K # {} BY <1>3, FS_Subset
  <2>2. m \in K /\ \A y \in K : m <= y BY <2>1, MinExists
  <2> HIDE DEF m
  <2>3. ASSUME NEW j \in 1 .. m - 1 PROVE s[j] # s[m]
    <3>1. j \in DOMAIN s /\ ~(m <= j) BY <1>3, <2>2
    <3> QED BY <2>2, <3>1
  <2> QED BY <2>2, <2>3
<1>5. ToSet(Dedupe(s)) = ToSet(s)
  <2>1. \A x : x \in ToSet(s) <=> \E k \in DOMAIN s : s[k] = x BY DEF ToSet
  <2>2. \A i \in I : i \in DOMAIN s OBVIOUS
  <2> HIDE DEF I
  <2>3. \A x : x \in ToSet(Dedupe(s)) <=> x \in ToSet(s) BY <1>2, <1>4, <2>1, <2>2
  <2> QED BY <2>3
<1>6. I \in SUBSET Nat /\ IsFiniteSet(I) BY <1>1, <1>3, FS_Subset
<1>7. /\ Cardinality(I) \in Nat /\ Ranked(I) \in [1..Cardinality(I) -> I]
      /\ \A j, k \in 1..Cardinality(I) : j < k => Ranked(I)[j] < Ranked(I)[k]
  BY <1>6, RankedLists
<1>8. DOMAIN Dedupe(s) = 1 .. Cardinality(I) BY <1>2
<1>9. \A j \in 1 .. Cardinality(I) : Dedupe(s)[j] = s[Ranked(I)[j]] BY <1>1 DEF Selected
<1>10. ASSUME NEW j \in 1 .. Cardinality(I), NEW k \in 1 .. Cardinality(I), j < k
       PROVE  Dedupe(s)[j] # Dedupe(s)[k]
  <2>1. Ranked(I)[j] \in I /\ Ranked(I)[k] \in I /\ Ranked(I)[j] < Ranked(I)[k] BY <1>7, <1>10
  <2>2. \A a, b \in I : a < b => s[a] # s[b]
    <3> SUFFICES ASSUME NEW a \in I, NEW b \in I, a < b PROVE s[a] # s[b] OBVIOUS
    <3>1. a \in 1 .. b - 1 BY <1>3
    <3> QED BY <3>1
  <2> QED BY <1>9, <2>1, <2>2
<1>11. \A i, j \in DOMAIN Dedupe(s) : Dedupe(s)[i] = Dedupe(s)[j] => i = j
  <2> SUFFICES ASSUME NEW i \in DOMAIN Dedupe(s), NEW j \in DOMAIN Dedupe(s),
                      Dedupe(s)[i] = Dedupe(s)[j], i # j
               PROVE  FALSE
    OBVIOUS
  <2>1. i \in Nat /\ j \in Nat BY <1>7, <1>8
  <2>2. i < j \/ j < i BY <2>1
  <2> QED BY <1>8, <1>10, <2>2
<1> QED BY <1>2, <1>5, <1>11

(* An answer holds the bars of the window, in order of time.                   *)
LEMMA FetchIs ==
  ASSUME NEW p \in Providers, p.up, NEW from \in Int, NEW to \in Int
  PROVE  /\ Fetch(p, from, to).ok
         /\ Fetch(p, from, to).bars \in Seq(Quotes)
         /\ ToSet(Fetch(p, from, to).bars) = Inside(p, from, to)
         /\ \A i, j \in DOMAIN Fetch(p, from, to).bars :
              i < j => Fetch(p, from, to).bars[i].ts < Fetch(p, from, to).bars[j].ts
<1> DEFINE S == Inside(p, from, to)
           key == [b \in S |-> b.ts]
           h == Arranged(S, key)
<1>1. IsFiniteSet(p.bars) /\ p.bars \in SUBSET Quotes /\ \A b, c \in p.bars : b.ts = c.ts => b = c
  BY DEF Providers, Answers
<1>2. S \in SUBSET Quotes /\ IsFiniteSet(S) /\ S \subseteq p.bars BY <1>1, FS_Subset DEF Inside
<1>3. key \in [S -> Int] /\ \A b \in S : key[b] = b.ts
  <2>1. \A b \in S : b.ts \in Int BY <1>2 DEF Quotes
  <2> QED BY <2>1
<1>4. \A b, c \in S : key[b] = key[c] => b = c BY <1>1, <1>2, <1>3
<1>5. Fetch(p, from, to) = [ok |-> TRUE, bars |-> h] BY DEF Fetch, Returns, InTimeOrder, Inside
<1> HIDE DEF S, key, h
<1>6. /\ Cardinality(S) \in Nat /\ h \in [1..Cardinality(S) -> S]
      /\ \A x \in S : \E j \in 1..Cardinality(S) : h[j] = x
      /\ \A j, k \in 1..Cardinality(S) : j < k => key[h[j]] < key[h[k]]
  BY <1>2, <1>3, <1>4, ArrangedLists DEF h
<1>7. h \in Seq(Quotes) /\ DOMAIN h = 1 .. Cardinality(S) BY <1>2, <1>6
<1>8. ToSet(h) = S
  <2>1. \A x : x \in ToSet(h) <=> \E j \in DOMAIN h : h[j] = x BY DEF ToSet
  <2>2. \A x : x \in ToSet(h) <=> x \in S BY <1>6, <1>7, <2>1
  <2> QED BY <2>2
<1>9. \A j, k \in DOMAIN h : j < k => h[j].ts < h[k].ts BY <1>3, <1>6, <1>7
<1>10. Fetch(p, from, to).ok /\ Fetch(p, from, to).bars = h BY <1>5
<1> QED BY <1>7, <1>8, <1>9, <1>10 DEF S

(* What was known of a symbol before a day.                                    *)
LEMMA UntilIs ==
  ASSUME NEW p \in Providers, NEW day \in Int
  PROVE  /\ Until(p, day).up = p.up /\ Until(p, day).rawUp = p.rawUp
         /\ Until(p, day).splitsUp = p.splitsUp
         /\ \A b : b \in Until(p, day).bars <=> b \in p.bars /\ b.ts < day
         /\ \A s : s \in Until(p, day).splits <=> s \in p.splits /\ s.day < day
<1>1. p \in Answers BY DEF Providers
<1> DEFINE known == {b \in p.bars : b.ts < day}
           effective == {s \in p.splits : s.day < day}
<1>2. Until(p, day) = [p EXCEPT !.bars = known, !.splits = effective] BY DEF Until
<1> HIDE DEF known, effective
<1>3. p = [up |-> p.up, rawUp |-> p.rawUp, splitsUp |-> p.splitsUp, bars |-> p.bars, splits |-> p.splits]
  BY <1>1 DEF Answers
<1>4. Until(p, day) = [up |-> p.up, rawUp |-> p.rawUp, splitsUp |-> p.splitsUp,
                       bars |-> known, splits |-> effective]
  BY <1>2, <1>3
<1>5. /\ Until(p, day).up = p.up /\ Until(p, day).rawUp = p.rawUp /\ Until(p, day).splitsUp = p.splitsUp
      /\ Until(p, day).bars = known /\ Until(p, day).splits = effective
  BY <1>4
<1> QED BY <1>5 DEF known, effective

(* An answer about the days before one is the same whatever came after it.     *)
LEMMA AnswersAreBlind ==
  ASSUME NEW p \in Providers, NEW from \in Int, NEW to \in Int, NEW day \in Int, to < day, NEW adjusted
  PROVE  GetBars(Until(p, day), from, to, adjusted) = GetBars(p, from, to, adjusted)
<1> DEFINE q == Until(p, day)
<1>1. /\ q.up = p.up /\ q.rawUp = p.rawUp /\ q.splitsUp = p.splitsUp
      /\ \A b : b \in q.bars <=> b \in p.bars /\ b.ts < day
      /\ \A s : s \in q.splits <=> s \in p.splits /\ s.day < day
  BY UntilIs
<1> HIDE DEF q
<1>2. {b \in q.bars : from <= b.ts /\ b.ts <= to} = {b \in p.bars : from <= b.ts /\ b.ts <= to}
  <2>1. \A b \in p.bars : b.ts \in Int BY DEF Providers, Answers, Quotes
  <2>2. \A b \in p.bars : b.ts <= to => b.ts < day BY <2>1
  <2> QED BY <1>1, <2>2
<1>3. Fetch(q, from, to) = Fetch(p, from, to) BY <1>1, <1>2 DEF Fetch
<1>4. RawForCrossCheck(q, from, to) = RawForCrossCheck(p, from, to) BY <1>1, <1>3 DEF RawForCrossCheck
<1>5. \A s \in p.splits : s.day <= to => s.day < day
  <2>1. \A s \in p.splits : s.day \in Int BY DEF Providers, Answers, StockSplits
  <2> QED BY <2>1
<1>6. ASSUME NEW bars PROVE SplitLeftIn(q, bars, from, to) <=> SplitLeftIn(p, bars, from, to)
  <2> DEFINE Left(s) == /\ from <= s.day /\ s.day <= to /\ IsMeasurable(s.ratio)
                        /\ Straddle(bars, s.day) # {}
                        /\ Straddle(bars, s.day) \subseteq RawForCrossCheck(p, from, to)
                        /\ FactorUnchanged(Straddle(bars, s.day))
  <2>1. SplitLeftIn(p, bars, from, to) <=> p.splitsUp /\ Len(bars) >= 2 /\ \E s \in p.splits : Left(s)
    BY DEF SplitLeftIn
  <2>2. SplitLeftIn(q, bars, from, to) <=> q.splitsUp /\ Len(bars) >= 2 /\ \E s \in q.splits : Left(s)
    BY <1>4 DEF SplitLeftIn
  <2>3. \A s : Left(s) => s.day <= to OBVIOUS
  <2> HIDE DEF Left
  <2>4. (\E s \in q.splits : Left(s)) <=> (\E s \in p.splits : Left(s)) BY <1>1, <1>5, <2>3
  <2> QED BY <1>1, <2>1, <2>2, <2>4
<1>7. GetBars(q, from, to, adjusted) = GetBars(p, from, to, adjusted)
  <2> DEFINE a == Fetch(p, from, to)
  <2>1. SplitLeftIn(q, a.bars, from, to) <=> SplitLeftIn(p, a.bars, from, to) BY <1>6
  <2> HIDE DEF a
  <2>2. a = Fetch(p, from, to) /\ a = Fetch(q, from, to) BY <1>3 DEF a
  <2>3. (a.ok /\ adjusted /\ SplitLeftIn(q, a.bars, from, to)) <=> (a.ok /\ adjusted /\ SplitLeftIn(p, a.bars, from, to))
    BY <2>1
  <2> QED BY <2>2, <2>3 DEF GetBars
<1> QED BY <1>7 DEF q

(* A refused symbol has no bars.                                               *)
LEMMA RefusedIsBare ==
  ASSUME NEW p, NEW from, NEW to, NEW adjusted
  PROVE  /\ ~GetBars(p, from, to, adjusted).ok => GetBars(p, from, to, adjusted).bars = <<>>
         /\ GetBars(p, from, to, adjusted).bars # <<>> =>
              p.up /\ GetBars(p, from, to, adjusted) = Fetch(p, from, to)
<1>1. Raises.bars = <<>> /\ ~Raises.ok BY DEF Raises
<1>2. \A bars : Returns(bars).ok BY DEF Returns
<1>3. Fetch(p, from, to) = Raises \/ (p.up /\ Fetch(p, from, to).ok) BY <1>2 DEF Fetch
<1>4. GetBars(p, from, to, adjusted) = Raises \/ GetBars(p, from, to, adjusted) = Fetch(p, from, to)
  BY DEF GetBars
<1> QED BY <1>1, <1>3, <1>4

Past(venue, day) == [s \in DOMAIN venue |-> Until(venue[s], day)]

(* Nobody passes a screen without a measure.                                   *)
LEMMA PassedIsMeasured ==
  ASSUME NEW answer, NEW x, NEW y, NEW floor, Verdict(answer, <<x, y>>, floor).passed
  PROVE  Verdict(answer, <<x, y>>, floor).measure # <<>>
<1>1. CASE ~answer.ok \/ answer.bars = <<>>
  <2>1. Verdict(answer, <<x, y>>, floor) = [measure |-> <<>>, passed |-> FALSE] BY <1>1 DEF Verdict
  <2> QED BY <2>1
<1>2. CASE ~(~answer.ok \/ answer.bars = <<>>)
  <2>1. Verdict(answer, <<x, y>>, floor).measure = <<x, y>> BY <1>2 DEF Verdict
  <2>2. Len(<<x, y>>) = 2 /\ Len(<<>>) = 0 OBVIOUS
  <2> QED BY <2>1, <2>2
<1> QED BY <1>1, <1>2

(* A screen judges every symbol, and passes none without a measure.            *)
Measured(screen, symbols) ==
  DOMAIN screen = ToSet(symbols) /\ \A s \in ToSet(symbols) : screen[s].passed => screen[s].measure # <<>>

(* Both screens read the days before the run only.                             *)
LEMMA ScreensArePast ==
  ASSUME NEW S, NEW venue \in [S -> Providers], NEW symbols \in Seq(S), NEW start \in Int, NEW days \in Int,
         NEW interval, NEW floor
  PROVE  /\ ScreenByAdv(venue, symbols, start, days, floor)
              = ScreenByAdv(Past(venue, start), symbols, start, days, floor)
         /\ Measured(ScreenByAdv(venue, symbols, start, days, floor), symbols)
         /\ ScreenByTapeDensity(venue, symbols, start, days, interval, floor)
              = ScreenByTapeDensity(Past(venue, start), symbols, start, days, interval, floor)
         /\ Measured(ScreenByTapeDensity(venue, symbols, start, days, interval, floor), symbols)
<1> DEFINE past == Past(venue, start)
           w == FormationWindow(start, days)
           A(v, s) == GetBars(v[s], w.from, w.to, TRUE)
           D(v, s) == GetBars(v[s], w.from, w.to, FALSE)
           VA(v, s) == Verdict(A(v, s), AverageDollarVolume(A(v, s).bars), floor)
           VD(v, s) == Verdict(D(v, s), BarCoverage(D(v, s).bars, w, interval), floor)
<1>1. w.from = start - 1 - days /\ w.to = start - 1 BY DEF FormationWindow
<1>2. ToSet(symbols) \subseteq S BY ToSetIs
<1>3. ASSUME NEW s \in ToSet(symbols) PROVE A(venue, s) = A(past, s) /\ D(venue, s) = D(past, s)
  <2>1. s \in S /\ venue[s] \in Providers BY <1>2
  <2>2. past[s] = Until(venue[s], start) BY <2>1 DEF Past
  <2>3. w.from \in Int /\ w.to \in Int /\ w.to < start BY <1>1
  <2> HIDE DEF w, past
  <2>4. \A adjusted : GetBars(Until(venue[s], start), w.from, w.to, adjusted)
                       = GetBars(venue[s], w.from, w.to, adjusted)
    BY <2>1, <2>3, AnswersAreBlind
  <2> QED BY <2>2, <2>4
<1>4. \A v : ScreenByAdv(v, symbols, start, days, floor) = [s \in ToSet(symbols) |-> VA(v, s)]
  BY DEF ScreenByAdv
<1>5. \A v : ScreenByTapeDensity(v, symbols, start, days, interval, floor) = [s \in ToSet(symbols) |-> VD(v, s)]
  BY DEF ScreenByTapeDensity
<1>6. \A v, s : VA(v, s).passed => VA(v, s).measure # <<>>
  <2> SUFFICES ASSUME NEW v, NEW s, VA(v, s).passed PROVE VA(v, s).measure # <<>> OBVIOUS
  <2>1. PICK x, y : AverageDollarVolume(A(v, s).bars) = <<x, y>> BY DEF AverageDollarVolume
  <2> HIDE DEF A
  <2> QED BY <2>1, PassedIsMeasured
<1>7. \A v, s : VD(v, s).passed => VD(v, s).measure # <<>>
  <2> SUFFICES ASSUME NEW v, NEW s, VD(v, s).passed PROVE VD(v, s).measure # <<>> OBVIOUS
  <2>1. PICK x, y : BarCoverage(D(v, s).bars, w, interval) = <<x, y>> BY DEF BarCoverage
  <2> HIDE DEF D, w
  <2> QED BY <2>1, PassedIsMeasured
<1>8. \A s \in ToSet(symbols) : VA(venue, s) = VA(past, s) /\ VD(venue, s) = VD(past, s)
  <2> HIDE DEF A, D, w, past
  <2> QED BY <1>3
<1> HIDE DEF VA, VD, past
<1>9. ScreenByAdv(venue, symbols, start, days, floor) = ScreenByAdv(past, symbols, start, days, floor)
  BY <1>4, <1>8
<1>10. ScreenByTapeDensity(venue, symbols, start, days, interval, floor)
         = ScreenByTapeDensity(past, symbols, start, days, interval, floor)
  BY <1>5, <1>8
<1>11. /\ DOMAIN ScreenByAdv(venue, symbols, start, days, floor) = ToSet(symbols)
       /\ \A s \in ToSet(symbols) : ScreenByAdv(venue, symbols, start, days, floor)[s] = VA(venue, s)
  BY <1>4
<1>12. /\ DOMAIN ScreenByTapeDensity(venue, symbols, start, days, interval, floor) = ToSet(symbols)
       /\ \A s \in ToSet(symbols) :
            ScreenByTapeDensity(venue, symbols, start, days, interval, floor)[s] = VD(venue, s)
  BY <1>5
<1>13. /\ Measured(ScreenByAdv(venue, symbols, start, days, floor), symbols)
       /\ Measured(ScreenByTapeDensity(venue, symbols, start, days, interval, floor), symbols)
  BY <1>6, <1>7, <1>11, <1>12 DEF Measured
<1> QED BY <1>9, <1>10, <1>13 DEF past

LEMMA LiquidityIsPast ==
  ASSUME NEW S, NEW venue \in [S -> Providers], NEW symbols \in Seq(S), NEW start \in Int, NEW days \in Int,
         NEW floor
  PROVE  /\ ScreenByAdv(venue, symbols, start, days, floor)
              = ScreenByAdv(Past(venue, start), symbols, start, days, floor)
         /\ Measured(ScreenByAdv(venue, symbols, start, days, floor), symbols)
<1>1. /\ ScreenByAdv(venue, symbols, start, days, floor)
           = ScreenByAdv(Past(venue, start), symbols, start, days, floor)
      /\ Measured(ScreenByAdv(venue, symbols, start, days, floor), symbols)
      /\ ScreenByTapeDensity(venue, symbols, start, days, 1, floor)
           = ScreenByTapeDensity(Past(venue, start), symbols, start, days, 1, floor)
      /\ Measured(ScreenByTapeDensity(venue, symbols, start, days, 1, floor), symbols)
  BY ScreensArePast
<1> QED BY <1>1

(* A screen keeps those that pass it.                                          *)
LEMMA KeptIs ==
  ASSUME NEW S, NEW symbols \in Seq(S), NEW screen
  PROVE  /\ Kept(screen, symbols) \in Seq(S)
         /\ \A x : x \in ToSet(Kept(screen, symbols)) <=> x \in ToSet(symbols) /\ screen[x].passed
<1> DEFINE I == {i \in DOMAIN symbols : screen[symbols[i]].passed}
<1>1. Kept(screen, symbols) = Selected(symbols, I) BY DEF Kept
<1>2. I \in SUBSET (DOMAIN symbols) OBVIOUS
<1>3. \A i : i \in I <=> i \in DOMAIN symbols /\ screen[symbols[i]].passed OBVIOUS
<1> HIDE DEF I
<1>4. /\ Selected(symbols, I) \in Seq(S)
      /\ \A x : x \in ToSet(Selected(symbols, I)) <=> \E i \in I : symbols[i] = x
  BY <1>2, SelectionHolds
<1>5. \A x : x \in ToSet(symbols) <=> \E i \in DOMAIN symbols : symbols[i] = x BY DEF ToSet
<1>6. \A x : x \in ToSet(Selected(symbols, I)) <=> x \in ToSet(symbols) /\ screen[x].passed
  BY <1>3, <1>4, <1>5
<1> QED BY <1>1, <1>4, <1>6

(* Every symbol of a load failed, was bare, or is in the series.               *)
Loads(load, venue, symbols, start, end) ==
  LET G(x) == GetBars(venue[x], start, end, TRUE)
  IN /\ \A x : x \in ToSet(load.failed) <=> x \in ToSet(symbols) /\ ~G(x).ok
     /\ \A x : x \in ToSet(load.bare) <=> x \in ToSet(symbols) /\ G(x).ok /\ G(x).bars = <<>>
     /\ \A x : x \in DOMAIN load.series <=> x \in ToSet(symbols) /\ G(x).bars # <<>>
     /\ \A x \in DOMAIN load.series : load.series[x] = G(x).bars

LEMMA LoadIs ==
  ASSUME NEW S, NEW venue, NEW symbols \in Seq(S), NEW start, NEW end
  PROVE  Loads(LoadSeries(venue, symbols, start, end), venue, symbols, start, end)
<1> DEFINE G(x) == GetBars(venue[x], start, end, TRUE)
           answer == [s \in ToSet(symbols) |-> G(s)]
           once == Dedupe(symbols)
           F == {i \in DOMAIN once : ~answer[once[i]].ok}
           B == {i \in DOMAIN once : answer[once[i]].ok /\ answer[once[i]].bars = <<>>}
           T == {s \in ToSet(symbols) : answer[s].bars # <<>>}
           series == [s \in T |-> answer[s].bars]
           load == LoadSeries(venue, symbols, start, end)
<1>1. load = [series |-> series, failed |-> Selected(once, F), bare |-> Selected(once, B)]
  BY DEF LoadSeries
<1>2. once \in Seq(S) /\ ToSet(once) = ToSet(symbols) BY DedupeIs
<1>3. \A x \in ToSet(symbols) : answer[x] = G(x) OBVIOUS
<1>4. DOMAIN series = T /\ \A x \in T : series[x] = answer[x].bars OBVIOUS
<1>5. F \in SUBSET (DOMAIN once) /\ B \in SUBSET (DOMAIN once) OBVIOUS
<1>6. /\ \A i : i \in F <=> i \in DOMAIN once /\ ~answer[once[i]].ok
      /\ \A i : i \in B <=> i \in DOMAIN once /\ answer[once[i]].ok /\ answer[once[i]].bars = <<>>
      /\ \A x : x \in T <=> x \in ToSet(symbols) /\ answer[x].bars # <<>>
  OBVIOUS
<1> HIDE DEF G, answer, once, F, B, T, series, load
<1>7. /\ \A x : x \in ToSet(Selected(once, F)) <=> \E i \in F : once[i] = x
      /\ \A x : x \in ToSet(Selected(once, B)) <=> \E i \in B : once[i] = x
  BY <1>2, <1>5, SelectionHolds
<1>8. \A x : x \in ToSet(symbols) <=> \E i \in DOMAIN once : once[i] = x BY <1>2 DEF ToSet
<1>9. /\ load.series = series /\ load.failed = Selected(once, F) /\ load.bare = Selected(once, B)
  BY <1>1
<1>10. \A x : x \in ToSet(load.failed) <=> x \in ToSet(symbols) /\ ~G(x).ok
  BY <1>3, <1>6, <1>7, <1>8, <1>9
<1>11. \A x : x \in ToSet(load.bare) <=> x \in ToSet(symbols) /\ G(x).ok /\ G(x).bars = <<>>
  BY <1>3, <1>6, <1>7, <1>8, <1>9
<1>12. \A x : x \in DOMAIN load.series <=> x \in ToSet(symbols) /\ G(x).bars # <<>>
  BY <1>3, <1>4, <1>6, <1>9
<1>13. \A x \in DOMAIN load.series : load.series[x] = G(x).bars
  BY <1>3, <1>4, <1>6, <1>9
<1> QED BY <1>10, <1>11, <1>12, <1>13 DEF G, Loads, load

(* What is decided before a run is decided by the days before it, and every    *)
(* symbol asked for is screened out, missing, or in the run on data that was   *)
(* there: for every venue, list of symbols and run (_apply_liquidity_screen,   *)
(* _apply_tape_density_screen, load_series).                                   *)
THEOREM EveryScreenIsBlind ==
  ASSUME NEW S, NEW venue \in [S -> Providers], NEW symbols \in Seq(S),
         NEW run, run.start \in Int, run.end \in Int, run.days \in Int
  PROVE  PreparedFromThePast(Prepare(venue, symbols, run),
                             Prepare(Past(venue, run.start), symbols, run), symbols, run)
<1> DEFINE past == Past(venue, run.start)
           adv == ScreenByAdv(venue, symbols, run.start, run.days, run.adv)
           T1 == Kept(adv, symbols)
           U == IF run.continuous THEN T1 ELSE <<>>
           dense == ScreenByTapeDensity(venue, U, run.start, run.days, 1, run.density)
           T2 == IF run.continuous THEN Kept(dense, T1) ELSE T1
           load == LoadSeries(venue, T2, run.start, run.end)
           tier == LiquidityTier(venue, T2, run.start, run.days, run.tier)
           now == Prepare(venue, symbols, run)
           then == Prepare(past, symbols, run)
<1>1. /\ adv = ScreenByAdv(past, symbols, run.start, run.days, run.adv)
      /\ Measured(adv, symbols)
  BY LiquidityIsPast
<1> HIDE DEF adv
<1>2. T1 \in Seq(S) /\ \A x : x \in ToSet(T1) <=> x \in ToSet(symbols) /\ adv[x].passed BY KeptIs
<1> HIDE DEF T1
<1>3. U \in Seq(S) BY <1>2
<1>4. \A x : x \in ToSet(U) <=> run.continuous /\ x \in ToSet(T1) BY DEF ToSet
<1> HIDE DEF U
<1>5. /\ dense = ScreenByTapeDensity(past, U, run.start, run.days, 1, run.density)
      /\ Measured(dense, U)
  BY <1>3, ScreensArePast
<1> HIDE DEF dense
<1>6. /\ Kept(dense, T1) \in Seq(S)
      /\ \A x : x \in ToSet(Kept(dense, T1)) <=> x \in ToSet(T1) /\ dense[x].passed
  BY <1>2, KeptIs
<1>7. /\ T2 \in Seq(S)
      /\ \A x : x \in ToSet(T2) <=> x \in ToSet(T1) /\ (run.continuous => dense[x].passed)
  BY <1>2, <1>6
<1>8. now = [adv |-> adv, dense |-> dense, tickers |-> T2, tier |-> tier,
             loaded |-> load, runs |-> DOMAIN load.series # {}]
  BY DEF Prepare, Loaded, Dense, Liquid, adv, T1, U, dense
<1>9. /\ then.adv = adv /\ then.dense = dense
      /\ then.tier = LiquidityTier(past, T2, run.start, run.days, run.tier)
  <2> HIDE DEF past
  <2>1. Liquid(past, symbols, run) = [adv |-> adv, tickers |-> T1] BY <1>1 DEF Liquid, T1
  <2>2. Dense(past, run, [adv |-> adv, tickers |-> T1]) = [adv |-> adv, dense |-> dense, tickers |-> T2]
    BY <1>5 DEF Dense, U
  <2>3. then = Loaded(past, run, [adv |-> adv, dense |-> dense, tickers |-> T2]) BY <2>1, <2>2 DEF Prepare
  <2> HIDE DEF T2
  <2> QED BY <2>3 DEF Loaded
<1> HIDE DEF T2, then, now
<1>10. tier = LiquidityTier(past, T2, run.start, run.days, run.tier)
  <2>1. ScreenByAdv(venue, T2, run.start, run.days, run.tier) = ScreenByAdv(past, T2, run.start, run.days, run.tier)
    BY <1>7, LiquidityIsPast
  <2> HIDE DEF past
  <2> QED BY <2>1 DEF LiquidityTier
<1> HIDE DEF tier, past
<1> DEFINE G(x) == GetBars(venue[x], run.start, run.end, TRUE)
<1>11. /\ \A x : x \in ToSet(load.failed) <=> x \in ToSet(T2) /\ ~G(x).ok
       /\ \A x : x \in ToSet(load.bare) <=> x \in ToSet(T2) /\ G(x).ok /\ G(x).bars = <<>>
       /\ \A x : x \in DOMAIN load.series <=> x \in ToSet(T2) /\ G(x).bars # <<>>
       /\ \A x \in DOMAIN load.series : load.series[x] = G(x).bars
  <2>1. Loads(load, venue, T2, run.start, run.end) BY <1>7, LoadIs
  <2> HIDE DEF load
  <2> QED BY <2>1 DEF Loads
<1>12. \A x : /\ ~G(x).ok => G(x).bars = <<>>
              /\ G(x).bars # <<>> => venue[x].up /\ G(x) = Fetch(venue[x], run.start, run.end)
  BY RefusedIsBare
<1> HIDE DEF G, load
<1> DEFINE A == {s \in ToSet(symbols) : ~adv[s].passed}
           D == {s \in ToSet(U) : ~dense[s].passed}
           stages == <<A, D, ToSet(load.failed), ToSet(load.bare), DOMAIN load.series>>
<1>13. ASSUME NEW s \in ToSet(symbols)
       PROVE  Cardinality({i \in DOMAIN stages : s \in stages[i]}) = 1
  <2>1. /\ s \in A <=> ~adv[s].passed
        /\ s \in D <=> run.continuous /\ adv[s].passed /\ ~dense[s].passed
        /\ s \in ToSet(T2) <=> adv[s].passed /\ (run.continuous => dense[s].passed)
    BY <1>2, <1>4, <1>7
  <2>2. /\ s \in ToSet(load.failed) <=> s \in ToSet(T2) /\ ~G(s).ok
        /\ s \in ToSet(load.bare) <=> s \in ToSet(T2) /\ G(s).ok /\ G(s).bars = <<>>
        /\ s \in DOMAIN load.series <=> s \in ToSet(T2) /\ G(s).bars # <<>>
        /\ ~G(s).ok => G(s).bars = <<>>
    BY <1>11, <1>12
  <2>3. /\ DOMAIN stages = 1 .. 5 /\ stages[1] = A /\ stages[2] = D /\ stages[3] = ToSet(load.failed)
        /\ stages[4] = ToSet(load.bare) /\ stages[5] = DOMAIN load.series
    OBVIOUS
  <2> DEFINE in(i) == s \in stages[i]
  <2> HIDE DEF stages, A, D
  <2>4. \E k \in 1 .. 5 : in(k) /\ \A i \in 1 .. 5 : i # k => ~in(i)
    <3>1. \A i \in 1 .. 5 : i = 1 \/ i = 2 \/ i = 3 \/ i = 4 \/ i = 5 OBVIOUS
    <3>2. CASE s \in A
      <4>1. in(1) /\ ~in(2) /\ ~in(3) /\ ~in(4) /\ ~in(5) BY <2>1, <2>2, <2>3, <3>2
      <4> HIDE DEF in
      <4> QED BY <3>1, <4>1
    <3>3. CASE s \in D
      <4>1. in(2) /\ ~in(1) /\ ~in(3) /\ ~in(4) /\ ~in(5) BY <2>1, <2>2, <2>3, <3>3
      <4> HIDE DEF in
      <4> QED BY <3>1, <4>1
    <3>4. CASE s \in ToSet(load.failed)
      <4>1. in(3) /\ ~in(1) /\ ~in(2) /\ ~in(4) /\ ~in(5) BY <2>1, <2>2, <2>3, <3>4
      <4> HIDE DEF in
      <4> QED BY <3>1, <4>1
    <3>5. CASE s \in ToSet(load.bare)
      <4>1. in(4) /\ ~in(1) /\ ~in(2) /\ ~in(3) /\ ~in(5) BY <2>1, <2>2, <2>3, <3>5
      <4> HIDE DEF in
      <4> QED BY <3>1, <4>1
    <3>6. CASE s \in DOMAIN load.series
      <4>1. in(5) /\ ~in(1) /\ ~in(2) /\ ~in(3) /\ ~in(4) BY <2>1, <2>2, <2>3, <3>6
      <4> HIDE DEF in
      <4> QED BY <3>1, <4>1
    <3>7. s \in A \/ s \in D \/ s \in ToSet(load.failed) \/ s \in ToSet(load.bare) \/ s \in DOMAIN load.series
      BY <2>1, <2>2
    <3> QED BY <3>2, <3>3, <3>4, <3>5, <3>6, <3>7
  <2>5. PICK k \in 1 .. 5 : in(k) /\ \A i \in 1 .. 5 : i # k => ~in(i) BY <2>4
  <2>6. {i \in DOMAIN stages : s \in stages[i]} = {k} BY <2>3, <2>5
  <2> QED BY <2>6, FS_Singleton
<1>14. ASSUME NEW s \in DOMAIN load.series
       PROVE  adv[s].measure # <<>> /\ (run.continuous => dense[s].measure # <<>>)
  <2>1. s \in ToSet(T2) BY <1>11
  <2>2. s \in ToSet(T1) /\ (run.continuous => dense[s].passed) BY <1>7, <2>1
  <2>3. s \in ToSet(symbols) /\ adv[s].passed BY <1>2, <2>2
  <2>4. run.continuous => s \in ToSet(U) BY <1>4, <2>2
  <2> QED BY <1>1, <1>5, <2>2, <2>3, <2>4 DEF Measured
<1>15. ASSUME NEW s \in DOMAIN load.series, NEW i \in DOMAIN load.series[s]
       PROVE  load.series[s][i].ts \in run.start .. run.end
  <2>1. s \in ToSet(T2) /\ G(s).bars # <<>> /\ load.series[s] = G(s).bars BY <1>11
  <2>2. venue[s].up /\ G(s) = Fetch(venue[s], run.start, run.end) BY <1>12, <2>1
  <2>3. ToSet(symbols) \subseteq S BY ToSetIs
  <2>4. s \in S BY <1>2, <1>7, <2>1, <2>3
  <2>5. venue[s] \in Providers BY <2>4
  <2>6. ToSet(Fetch(venue[s], run.start, run.end).bars) = Inside(venue[s], run.start, run.end)
    BY <2>2, <2>5, FetchIs
  <2>7. load.series[s][i] \in ToSet(Fetch(venue[s], run.start, run.end).bars) BY <2>1, <2>2 DEF ToSet
  <2>8. load.series[s][i] \in Inside(venue[s], run.start, run.end) BY <2>6, <2>7
  <2>9. \A b \in venue[s].bars : b.ts \in Int BY <2>5 DEF Providers, Answers, Quotes
  <2> QED BY <2>8, <2>9 DEF Inside
<1>16. /\ now.adv = adv /\ now.dense = dense /\ now.tier = tier /\ now.loaded = load BY <1>8
<1>17. {s \in DOMAIN now.adv : ~now.adv[s].passed} = A /\ {s \in DOMAIN now.dense : ~now.dense[s].passed} = D
  BY <1>1, <1>5, <1>16 DEF Measured
<1>18. stages = <<{s \in DOMAIN now.adv : ~now.adv[s].passed}, {s \in DOMAIN now.dense : ~now.dense[s].passed},
                  ToSet(now.loaded.failed), ToSet(now.loaded.bare), DOMAIN now.loaded.series>>
  BY <1>16, <1>17
<1>19. now.adv = then.adv /\ now.dense = then.dense /\ now.tier = then.tier BY <1>9, <1>10, <1>16
<1> HIDE DEF A, D, stages
<1>20. PreparedFromThePast(now, then, symbols, run)
  BY <1>13, <1>14, <1>15, <1>16, <1>18, <1>19 DEF PreparedFromThePast
<1> QED BY <1>20 DEF now, then, past

(* The pair a split falls between.                                             *)
Pair(bars, day, b, c) ==
  /\ Straddle(bars, day) = {b, c} /\ b \in ToSet(bars) /\ c \in ToSet(bars)
  /\ b.ts < day /\ day <= c.ts /\ Len(bars) >= 2

LEMMA StraddleIs ==
  ASSUME NEW bars \in Seq(Quotes), NEW day \in Int
  PROVE  Straddle(bars, day) = {} \/ \E b, c \in Quotes : Pair(bars, day, b, c)
<1> DEFINE before == {i \in DOMAIN bars : bars[i].ts < day}
           after == DOMAIN bars \ before
           b == bars[Max(before)]
           c == bars[Min(after)]
<1>1. DOMAIN bars = 1 .. Len(bars) /\ Len(bars) \in Nat /\ IsFiniteSet(DOMAIN bars) BY ToSetIs
<1>2. Straddle(bars, day) = IF before = {} \/ after = {} THEN {} ELSE {b, c} BY DEF Straddle
<1>3. SUFFICES ASSUME before # {}, after # {} PROVE \E x, y \in Quotes : Pair(bars, day, x, y)
  BY <1>2
<1>4. before \in SUBSET Int /\ IsFiniteSet(before) /\ after \in SUBSET Int /\ IsFiniteSet(after)
  BY <1>1, FS_Subset
<1>5. Max(before) \in before /\ Min(after) \in after BY <1>3, <1>4, MaxExists, MinExists
<1>6. /\ Max(before) \in DOMAIN bars /\ Min(after) \in DOMAIN bars
      /\ b.ts < day /\ ~(c.ts < day)
  BY <1>5
<1>7. Max(before) # Min(after) BY <1>5
<1> HIDE DEF before, after
<1>8. b \in Quotes /\ c \in Quotes BY <1>6
<1>9. b.ts \in Int /\ c.ts \in Int BY <1>8 DEF Quotes
<1>10. Len(bars) >= 2 BY <1>1, <1>6, <1>7
<1>11. b \in ToSet(bars) /\ c \in ToSet(bars) BY <1>6 DEF ToSet
<1>12. Straddle(bars, day) = {b, c} BY <1>2, <1>3
<1> HIDE DEF b, c
<1>13. Pair(bars, day, b, c) BY <1>6, <1>9, <1>10, <1>11, <1>12 DEF Pair
<1> QED BY <1>8, <1>13

(* What a listing quotes.                                                      *)
RawOf(v, split, t) == IF t < split.day THEN (v[t] * split.ratio[1]) \div split.ratio[2] ELSE v[t]
Quoted(v, split, applied, gap, b) ==
  /\ b.raw = IF b.ts = gap THEN 0 ELSE RawOf(v, split, b.ts)
  /\ b.close = IF applied THEN v[b.ts] ELSE RawOf(v, split, b.ts)

Lists(p, days, v, split, applied, up, rawUp, splitsUp, gap) ==
  /\ p \in Providers
  /\ p.up = up /\ p.rawUp = rawUp /\ p.splitsUp = splitsUp /\ p.splits = {split}
  /\ \A b \in p.bars : b.ts \in days /\ Quoted(v, split, applied, gap, b)

LEMMA ListingIs ==
  ASSUME NEW days \in SUBSET Int, IsFiniteSet(days), NEW v, \A t \in days : v[t] \in Nat \ {0},
         NEW split \in StockSplits, split.ratio[2] > 0, NEW applied \in BOOLEAN,
         NEW up \in BOOLEAN, NEW rawUp \in BOOLEAN, NEW splitsUp \in BOOLEAN, NEW gap
  PROVE  Lists(Listing(days, v, split, applied, up, rawUp, splitsUp, gap),
               days, v, split, applied, up, rawUp, splitsUp, gap)
<1> DEFINE p == Listing(days, v, split, applied, up, rawUp, splitsUp, gap)
<1> DEFINE Quote(t) == [ts |-> t, raw |-> IF t = gap THEN 0 ELSE RawOf(v, split, t),
                        close |-> IF applied THEN v[t] ELSE RawOf(v, split, t), volume |-> 1]
<1>1. p = [up |-> up, rawUp |-> rawUp, splitsUp |-> splitsUp, splits |-> {split},
           bars |-> {Quote(t) : t \in days}]
  BY DEF Listing, RawOf
<1>2. ASSUME NEW t \in days PROVE RawOf(v, split, t) \in Nat
  <2>1. v[t] \in Nat /\ split.ratio[1] \in Nat /\ split.ratio[2] \in Nat \ {0} BY DEF StockSplits
  <2>2. v[t] * split.ratio[1] \in Nat BY <2>1
  <2> DEFINE n == v[t] * split.ratio[1]
             d == split.ratio[2]
  <2> HIDE DEF n, d
  <2>3. n \in Nat /\ d \in Nat \ {0} BY <2>1, <2>2 DEF n, d
  <2>4. n \div d \in Nat BY <2>3
  <2> QED BY <2>1, <2>4 DEF RawOf, n, d
<1>3. ASSUME NEW t \in days PROVE Quote(t) \in Quotes
  <2>1. v[t] \in Nat OBVIOUS
  <2> QED BY <1>2, <2>1 DEF Quotes
<1>4. \A t \in days : Quote(t).ts = t /\ Quoted(v, split, applied, gap, Quote(t)) BY DEF Quoted
<1> HIDE DEF Quote, p
<1>5. IsFiniteSet({Quote(t) : t \in days})
  <2> DEFINE T == {Quote(t) : t \in days}
             q == [t \in days |-> Quote(t)]
  <2>1. q \in Surjection(days, T) BY DEF Surjection
  <2> HIDE DEF q, T
  <2>2. IsFiniteSet(T) BY <2>1, FS_Surjection
  <2> QED BY <2>2 DEF T
<1>6. p.bars = {Quote(t) : t \in days} /\ p \in Answers BY <1>1, <1>3 DEF Answers
<1>7. \A b, c \in p.bars : b.ts = c.ts => b = c BY <1>4, <1>6
<1>8. p \in Providers BY <1>5, <1>6, <1>7 DEF Providers
<1> QED BY <1>1, <1>4, <1>6, <1>8 DEF Lists, p

(* A split of 3:2 or more moves the factor by more than the tolerance.         *)
LEMMA FactorMoves ==
  ASSUME NEW A \in Nat \ {0}, NEW B \in Nat \ {0}, NEW x \in Nat \ {0}, NEW y \in Nat \ {0}, NEW r \in Nat,
         r * B = x * A, IsMeasurable(<<A, B>>),
         50 * (r * y - x * y) <= x * y, 50 * (x * y - r * y) <= x * y
  PROVE  FALSE
<1>1. 2 * A >= 3 * B \/ 3 * A <= 2 * B BY DEF IsMeasurable
<1>2. 50 * (r - x) <= x /\ 50 * (x - r) <= x
  <2>1. r * y - x * y = (r - x) * y /\ x * y - r * y = (x - r) * y OBVIOUS
  <2>2. 50 * ((r - x) * y) <= x * y /\ 50 * ((x - r) * y) <= x * y BY <2>1
  <2>3. \A e \in Int : e * y <= x * y => e <= x
    <3> SUFFICES ASSUME NEW e \in Int, e * y <= x * y PROVE e <= x OBVIOUS
    <3>1. (e - x) * y <= 0 BY SMT
    <3>2. e - x > 0 => (e - x) * y > 0 BY SMT
    <3> QED BY <3>1, <3>2
  <2>4. 50 * ((r - x) * y) = (50 * (r - x)) * y /\ 50 * ((x - r) * y) = (50 * (x - r)) * y OBVIOUS
  <2>5. 50 * (r - x) \in Int /\ 50 * (x - r) \in Int OBVIOUS
  <2> QED BY <2>2, <2>3, <2>4, <2>5
<1>3. (50 * (r - x)) * B <= x * B /\ (50 * (x - r)) * B <= x * B
  <2>1. \A e \in Int : e <= x => e * B <= x * B BY SMT
  <2> QED BY <1>2, <2>1
<1>4. (50 * (r - x)) * B = 50 * (x * A) - 50 * (x * B) /\ (50 * (x - r)) * B = 50 * (x * B) - 50 * (x * A)
  <2>1. (50 * (r - x)) * B = 50 * (r * B) - 50 * (x * B) OBVIOUS
  <2>2. (50 * (x - r)) * B = 50 * (x * B) - 50 * (r * B) OBVIOUS
  <2> QED BY <2>1, <2>2
<1> DEFINE a == x * A
           b == x * B
<1>5. a \in Nat /\ b \in Nat \ {0} BY SMT
<1>6. 2 * a >= 3 * b \/ 3 * a <= 2 * b
  <2>1. CASE 2 * A >= 3 * B
    <3>1. x * (2 * A) >= x * (3 * B) BY <2>1
    <3>2. x * (2 * A) = 2 * a /\ x * (3 * B) = 3 * b OBVIOUS
    <3> QED BY <3>1, <3>2
  <2>2. CASE 3 * A <= 2 * B
    <3>1. x * (3 * A) <= x * (2 * B) BY <2>2
    <3>2. x * (3 * A) = 3 * a /\ x * (2 * B) = 2 * b OBVIOUS
    <3> QED BY <3>1, <3>2
  <2> QED BY <1>1, <2>1, <2>2
<1>7. 50 * a - 50 * b <= b /\ 50 * b - 50 * a <= b BY <1>3, <1>4
<1> HIDE DEF a, b
<1> QED BY <1>5, <1>6, <1>7

(* An adjusted series is refused exactly if it still carries a split that the  *)
(* venue's records prove: for every listing, price path, window, gap and set   *)
(* of lookups that fail (_verify_splits_applied). Prices before the split are  *)
(* whole at its ratio.                                                         *)
THEOREM EverySplitIsCaught ==
  ASSUME NEW days \in SUBSET Int, IsFiniteSet(days), NEW v, \A t \in days : v[t] \in Nat \ {0},
         NEW split \in StockSplits, split.ratio[1] > 0, split.ratio[2] > 0,
         \A t \in days : (v[t] * split.ratio[1]) % split.ratio[2] = 0,
         NEW applied \in BOOLEAN, NEW up \in BOOLEAN, NEW rawUp \in BOOLEAN, NEW splitsUp \in BOOLEAN,
         NEW gap, NEW from \in Int, NEW to \in Int
  PROVE  SplitIsCaught(Listing(days, v, split, applied, up, rawUp, splitsUp, gap), split, applied, from, to)
<1> DEFINE p == Listing(days, v, split, applied, up, rawUp, splitsUp, gap)
           bars == Fetch(p, from, to).bars
           pair == Straddle(bars, split.day)
           proved == /\ p.splitsUp /\ p.rawUp /\ from <= split.day /\ split.day <= to
                     /\ pair # {} /\ \A b \in pair : b.raw > 0
<1>1. /\ p \in Providers
      /\ p.up = up /\ p.rawUp = rawUp /\ p.splitsUp = splitsUp /\ p.splits = {split}
      /\ \A b \in p.bars : b.ts \in days /\ Quoted(v, split, applied, gap, b)
  <2>1. Lists(p, days, v, split, applied, up, rawUp, splitsUp, gap) BY ListingIs
  <2> HIDE DEF p
  <2> QED BY <2>1 DEF Lists
<1>2. split.day \in Int /\ split.ratio[1] \in Nat \ {0} /\ split.ratio[2] \in Nat \ {0}
      /\ split.ratio = <<split.ratio[1], split.ratio[2]>>
  BY DEF StockSplits
<1> HIDE DEF p
<1>3. SUFFICES ASSUME p.up
               PROVE  GetBars(p, from, to, TRUE).ok <=> applied \/ ~proved \/ ~IsMeasurable(split.ratio)
  BY DEF SplitIsCaught, p
<1>4. /\ Fetch(p, from, to).ok /\ bars \in Seq(Quotes) /\ ToSet(bars) = Inside(p, from, to)
  BY <1>1, <1>3, FetchIs
<1>5. GetBars(p, from, to, TRUE).ok <=> ~SplitLeftIn(p, bars, from, to)
  <2>1. ~Raises.ok BY DEF Raises
  <2> QED BY <1>4, <2>1 DEF GetBars
<1>6. SplitLeftIn(p, bars, from, to) <=>
        /\ p.splitsUp /\ Len(bars) >= 2 /\ from <= split.day /\ split.day <= to /\ IsMeasurable(split.ratio)
        /\ pair # {} /\ pair \subseteq RawForCrossCheck(p, from, to) /\ FactorUnchanged(pair)
  BY <1>1 DEF SplitLeftIn
<1>7. \A b \in ToSet(bars) : b \in RawForCrossCheck(p, from, to) <=> p.rawUp /\ b.raw > 0
  BY DEF RawForCrossCheck
<1>8. RawForCrossCheck(p, from, to) \subseteq ToSet(bars) /\ (~p.rawUp => RawForCrossCheck(p, from, to) = {})
  BY DEF RawForCrossCheck
<1>9. \A b \in ToSet(bars) : b \in p.bars BY <1>4 DEF Inside
<1> HIDE DEF bars
<1>10. ASSUME ~applied, proved, IsMeasurable(split.ratio) PROVE SplitLeftIn(p, bars, from, to)
  <2>1. PICK b \in Quotes, c \in Quotes : Pair(bars, split.day, b, c) BY <1>2, <1>4, <1>10, StraddleIs
  <2>2. /\ pair = {b, c} /\ b \in ToSet(bars) /\ c \in ToSet(bars) /\ b.ts < split.day /\ split.day <= c.ts
        /\ Len(bars) >= 2
    BY <2>1 DEF Pair
  <2>3. b.raw > 0 /\ c.raw > 0 /\ b.raw \in Nat /\ c.raw \in Nat /\ b.ts \in Int /\ c.ts \in Int
    BY <1>10, <2>2 DEF Quotes
  <2>4. Quoted(v, split, applied, gap, b) /\ Quoted(v, split, applied, gap, c) BY <1>1, <1>9, <2>2
  <2>5. b.close = b.raw /\ c.close = c.raw BY <1>10, <2>3, <2>4 DEF Quoted
  <2>6. b.ts < c.ts BY <1>2, <2>2, <2>3
  <2>7. FactorUnchanged({b, c})
    <3> DEFINE k == b.raw * c.raw
    <3>1. k \in Nat BY <2>3
    <3>2. b.raw * c.close = k /\ b.close * c.raw = k BY <2>5
    <3> HIDE DEF k
    <3>3. 50 * (k - k) <= k BY <3>1
    <3> QED BY <2>3, <2>5, <2>6, <3>2, <3>3 DEF FactorUnchanged
  <2>8. pair \subseteq RawForCrossCheck(p, from, to) BY <1>7, <1>10, <2>2, <2>3
  <2> HIDE DEF pair
  <2>9. FactorUnchanged(pair) BY <2>2, <2>7
  <2> QED BY <1>6, <1>10, <2>2, <2>8, <2>9
<1>11. ASSUME SplitLeftIn(p, bars, from, to), applied \/ ~proved \/ ~IsMeasurable(split.ratio) PROVE FALSE
  <2>1. /\ p.splitsUp /\ from <= split.day /\ split.day <= to /\ IsMeasurable(split.ratio)
        /\ pair # {} /\ pair \subseteq RawForCrossCheck(p, from, to) /\ FactorUnchanged(pair)
    BY <1>6, <1>11
  <2>2. p.rawUp /\ \A b \in pair : b.raw > 0 BY <1>7, <1>8, <2>1
  <2>3. applied BY <1>11, <2>1, <2>2
  <2>4. PICK b \in Quotes, c \in Quotes : Pair(bars, split.day, b, c) BY <1>2, <1>4, <2>1, StraddleIs
  <2>5. /\ pair = {b, c} /\ b \in ToSet(bars) /\ c \in ToSet(bars) /\ b.ts < split.day /\ split.day <= c.ts
    BY <2>4 DEF Pair
  <2>6. b.ts \in Int /\ c.ts \in Int BY DEF Quotes
  <2> HIDE DEF pair
  <2>7. 50 * (b.raw * c.close - b.close * c.raw) <= b.close * c.raw
        /\ 50 * (b.close * c.raw - b.raw * c.close) <= b.close * c.raw
    <3>1. FactorUnchanged({b, c}) BY <2>1, <2>5
    <3>2. ~(b.ts < b.ts) /\ ~(c.ts < c.ts) /\ ~(c.ts < b.ts) BY <1>2, <2>5, <2>6
    <3> QED BY <3>1, <3>2 DEF FactorUnchanged
  <2>8. /\ b.ts \in days /\ Quoted(v, split, applied, gap, b) /\ b.raw > 0
        /\ c.ts \in days /\ Quoted(v, split, applied, gap, c) /\ c.raw > 0
    BY <1>1, <1>9, <2>2, <2>5
  <2> DEFINE x == v[b.ts]
             y == v[c.ts]
             A == split.ratio[1]
             B == split.ratio[2]
             r == (x * A) \div B
  <2>9. b.close = x /\ c.close = y /\ c.raw = y /\ b.raw = r
    <3>1. ~(c.ts < split.day) BY <1>2, <2>5, <2>6
    <3> QED BY <2>3, <2>5, <2>8, <3>1 DEF Quoted, RawOf
  <2>10. x \in Nat \ {0} /\ y \in Nat \ {0} /\ A \in Nat \ {0} /\ B \in Nat \ {0} /\ (x * A) % B = 0
    BY <1>2, <2>8
  <2>11. r \in Nat BY <2>9 DEF Quotes
  <2>12. IsMeasurable(<<A, B>>) BY <1>2, <2>1
  <2>13. 50 * (r * y - x * y) <= x * y /\ 50 * (x * y - r * y) <= x * y BY <2>7, <2>9
  <2>14. r * B = x * A
    <3> DEFINE n == x * A
    <3>1. n \in Nat /\ n % B = 0 BY <2>10
    <3> HIDE DEF n, B
    <3>2. n = (B * (n \div B)) + (n % B) BY <2>10, <3>1
    <3>3. n \div B \in Nat BY <2>10, <3>1
    <3>4. (n \div B) * B = n BY <2>10, <3>1, <3>2, <3>3
    <3> QED BY <3>4 DEF n
  <2> HIDE DEF x, y, A, B, r
  <2> QED BY <2>10, <2>11, <2>12, <2>13, <2>14, FactorMoves
<1> HIDE DEF proved
<1>12. GetBars(p, from, to, TRUE).ok <=> applied \/ ~proved \/ ~IsMeasurable(split.ratio)
  BY <1>5, <1>10, <1>11
<1> QED BY <1>12

(* A stable sort's key: first by the timestamp, then by the place.             *)
LEMMA KeyRises ==
  ASSUME NEW n \in Nat, NEW a \in Int, NEW b \in Int, NEW i \in 1 .. n, NEW k \in 1 .. n, a < b
  PROVE  a * n + i < b * n + k
<1>1. (b - a - 1) * n >= 0
  <2>1. b - a - 1 \in Nat OBVIOUS
  <2> DEFINE d == b - a - 1
  <2> HIDE DEF d
  <2>2. d \in Nat BY <2>1 DEF d
  <2>3. d * n >= 0 BY <2>2
  <2> QED BY <2>3 DEF d
<1>2. b * n = a * n + n + (b - a - 1) * n OBVIOUS
<1> DEFINE x == a * n
           y == b * n
           z == (b - a - 1) * n
<1>3. x \in Int /\ y \in Int /\ z \in Int OBVIOUS
<1>4. y = x + n + z /\ z >= 0 BY <1>1, <1>2
<1> HIDE DEF x, y, z
<1>5. x + i < y + k BY <1>3, <1>4
<1> QED BY <1>5 DEF x, y

Rows == [ts : Int, wellFormed : BOOLEAN]

(* A file is served whole and in order, or refused: for every file and window, *)
(* with rows in any order and of one timestamp (CsvAdapter.get_bars).          *)
THEOREM EveryFileIsServedWhole ==
  ASSUME NEW rows \in Seq(Rows), NEW from \in Int, NEW to \in Int
  PROVE  FileIsServedWhole(rows, from, to)
<1> DEFINE n == Len(rows)
           I == {i \in DOMAIN rows : from <= rows[i].ts /\ rows[i].ts <= to}
           key == [i \in I |-> rows[i].ts * n + i]
           h == Arranged(I, key)
           bars == [j \in DOMAIN h |-> rows[h[j]]]
           refused == \E i \in DOMAIN rows : ~rows[i].wellFormed
           answer == CsvBars(rows, from, to)
<1>1. answer = IF refused THEN Raises ELSE [ok |-> TRUE, bars |-> bars] BY DEF CsvBars, Returns
<1>2. DOMAIN rows = 1 .. n /\ n \in Nat /\ IsFiniteSet(DOMAIN rows) BY ToSetIs
<1>3. I \subseteq DOMAIN rows /\ IsFiniteSet(I) BY <1>2, FS_Subset
<1>4. \A i \in I : rows[i].ts \in Int /\ i \in 1 .. n
  <2>1. \A i \in DOMAIN rows : rows[i] \in Rows OBVIOUS
  <2> QED BY <1>2, <1>3, <2>1 DEF Rows
<1>5. I = {i \in DOMAIN rows : rows[i].ts \in from .. to}
  <2>1. \A i \in DOMAIN rows : rows[i].ts \in Int
    <3>1. \A i \in DOMAIN rows : rows[i] \in Rows OBVIOUS
    <3> QED BY <3>1 DEF Rows
  <2> QED BY <2>1
<1> HIDE DEF I
<1>6. /\ key \in [I -> Int] /\ \A i \in I : key[i] = rows[i].ts * n + i
  <2>1. \A i \in I : rows[i].ts * n + i \in Int
    <3> SUFFICES ASSUME NEW i \in I PROVE rows[i].ts * n + i \in Int OBVIOUS
    <3>1. rows[i].ts \in Int /\ i \in Int /\ n \in Int BY <1>2, <1>4
    <3> HIDE DEF n
    <3> QED BY <3>1
  <2> HIDE DEF n
  <2> QED BY <2>1
<1> HIDE DEF key
<1>7. ASSUME NEW i \in I, NEW k \in I, rows[i].ts < rows[k].ts PROVE key[i] < key[k]
  <2>1. rows[i].ts * n + i < rows[k].ts * n + k BY <1>2, <1>4, <1>7, KeyRises
  <2> QED BY <1>6, <2>1
<1>8. ASSUME NEW i \in I, NEW k \in I, key[i] = key[k] PROVE i = k
  <2>1. rows[i].ts \in Int /\ rows[k].ts \in Int /\ key[i] \in Int /\ key[k] \in Int BY <1>4, <1>6
  <2>2. ~(rows[i].ts < rows[k].ts) /\ ~(rows[k].ts < rows[i].ts) BY <1>7, <1>8, <2>1
  <2>3. rows[i].ts = rows[k].ts BY <2>1, <2>2
  <2>4. rows[i].ts * n + i = rows[i].ts * n + k BY <1>6, <1>8, <2>3
  <2> DEFINE x == rows[i].ts * n
  <2>5. x \in Int /\ i \in Int /\ k \in Int /\ x + i = x + k
    <3>1. i \in Int /\ k \in Int /\ n \in Int BY <1>2, <1>4
    <3> HIDE DEF n
    <3> QED BY <2>1, <2>4, <3>1
  <2> HIDE DEF x
  <2> QED BY <2>5
<1>9. /\ Cardinality(I) \in Nat /\ h \in [1..Cardinality(I) -> I]
      /\ \A j, k \in 1..Cardinality(I) : j < k => key[h[j]] < key[h[k]]
  BY <1>3, <1>6, <1>8, ArrangedLists
<1> HIDE DEF h
<1>10. DOMAIN bars = 1 .. Cardinality(I) /\ Len(bars) = Cardinality(I)
       /\ \A j \in 1 .. Cardinality(I) : bars[j] = rows[h[j]]
  BY <1>9
<1>11. ASSUME NEW k \in DOMAIN bars, NEW j \in 1 .. k PROVE bars[j].ts <= bars[k].ts
  <2>1. j \in 1 .. Cardinality(I) /\ k \in 1 .. Cardinality(I) /\ j <= k BY <1>9, <1>10
  <2>2. h[j] \in I /\ h[k] \in I BY <1>9, <2>1
  <2>3. bars[j].ts = rows[h[j]].ts /\ bars[k].ts = rows[h[k]].ts BY <1>10, <2>1
  <2>4. rows[h[j]].ts \in Int /\ rows[h[k]].ts \in Int /\ key[h[j]] \in Int /\ key[h[k]] \in Int
    BY <1>4, <1>6, <2>2
  <2>5. CASE j = k BY <2>3, <2>4, <2>5
  <2>6. CASE j < k
    <3>1. key[h[j]] < key[h[k]] BY <1>9, <2>1, <2>6
    <3>2. ~(rows[h[k]].ts < rows[h[j]].ts)
      <4> SUFFICES ASSUME rows[h[k]].ts < rows[h[j]].ts PROVE FALSE OBVIOUS
      <4>1. key[h[k]] < key[h[j]] BY <1>7, <2>2
      <4> QED BY <2>4, <3>1, <4>1
    <3> QED BY <2>3, <2>4, <3>2
  <2>7. j \in Int /\ k \in Int BY <1>9, <2>1
  <2> QED BY <2>1, <2>5, <2>6, <2>7
<1> HIDE DEF bars
<1>12. answer.ok <=> \A i \in DOMAIN rows : rows[i].wellFormed
  <2>1. ~Raises.ok BY DEF Raises
  <2> QED BY <1>1, <2>1
<1>13. answer.ok => answer.bars = bars
  <2>1. ~Raises.ok BY DEF Raises
  <2> QED BY <1>1, <2>1
<1> HIDE DEF answer
<1>14. answer.ok =>
         /\ Len(answer.bars) = Cardinality({i \in DOMAIN rows : rows[i].ts \in from .. to})
         /\ \A i \in DOMAIN answer.bars : \A j \in 1 .. i : answer.bars[j].ts <= answer.bars[i].ts
  BY <1>5, <1>10, <1>11, <1>13
<1>15. FileIsServedWhole(rows, from, to) <=>
         /\ answer.ok <=> \A i \in DOMAIN rows : rows[i].wellFormed
         /\ answer.ok =>
              /\ Len(answer.bars) = Cardinality({i \in DOMAIN rows : rows[i].ts \in from .. to})
              /\ \A i \in DOMAIN answer.bars : \A j \in 1 .. i : answer.bars[j].ts <= answer.bars[i].ts
  BY DEF FileIsServedWhole, answer
<1> QED BY <1>12, <1>14, <1>15

(* Three disjoint parts of the first n naturals count n.                       *)
LEMMA ThreeParts ==
  ASSUME NEW n \in Nat, NEW A, NEW B, NEW C,
         \A i : /\ ~(i \in A /\ i \in B) /\ ~(i \in A \union B /\ i \in C)
                /\ (i \in (A \union B) \union C) <=> i \in 1 .. n
  PROVE  Cardinality(A) + Cardinality(B) + Cardinality(C) = n
<1>1. A \intersect B = {} /\ (A \union B) \intersect C = {} /\ (A \union B) \union C = 1 .. n
  OBVIOUS
<1>2. IsFiniteSet(A) /\ IsFiniteSet(B) /\ IsFiniteSet(C)
  <2>1. IsFiniteSet(1 .. n) BY FS_Interval
  <2>2. A \subseteq 1 .. n /\ B \subseteq 1 .. n /\ C \subseteq 1 .. n BY <1>1
  <2> QED BY <2>1, <2>2, FS_Subset
<1>3. Cardinality({}) = 0 BY FS_EmptySet
<1>4. IsFiniteSet(A \union B) /\ Cardinality(A \union B) = Cardinality(A) + Cardinality(B) - Cardinality({})
  BY <1>1, <1>2, FS_Union
<1>5. Cardinality((A \union B) \union C) = Cardinality(A \union B) + Cardinality(C) - Cardinality({})
  BY <1>1, <1>2, <1>4, FS_Union
<1>6. Cardinality(A) \in Nat /\ Cardinality(B) \in Nat /\ Cardinality(C) \in Nat /\ Cardinality(A \union B) \in Nat
  BY <1>2, <1>4, FS_CardinalityType
<1>7. Cardinality((A \union B) \union C) = n BY <1>1, UpTo
<1> QED BY <1>3, <1>4, <1>5, <1>6, <1>7

Assets == [answers : BOOLEAN, tradable : BOOLEAN, fractionable : BOOLEAN]

(* Every symbol asked for gets one verdict, for every list of symbols and      *)
(* every set of answers (validate_universe).                                   *)
THEOREM EveryUniverseIsJudged ==
  ASSUME NEW S, NEW symbols \in Seq(S), NEW asset \in [S -> Assets]
  PROVE  UniverseIsJudged(symbols, asset)
<1> DEFINE once == Dedupe(symbols)
           Status(a) == IF ~a.answers THEN "unverified"
                        ELSE IF a.tradable /\ a.fractionable THEN "usable" ELSE "unusable"
           I(status) == {i \in DOMAIN once : Status(asset[once[i]]) = status}
           v == ValidateUniverse(symbols, asset)
           lists == <<v.usable, v.unusable, v.unverified>>
<1>1. /\ v.requested = once
      /\ v.usable = Selected(once, I("usable")) /\ v.unusable = Selected(once, I("unusable"))
      /\ v.unverified = Selected(once, I("unverified"))
  BY DEF ValidateUniverse
<1>2. /\ once \in Seq(S) /\ ToSet(once) = ToSet(symbols)
      /\ \A i, j \in DOMAIN once : once[i] = once[j] => i = j
  BY DedupeIs
<1> HIDE DEF once
<1>3. \A w : I(w) \in SUBSET (DOMAIN once) OBVIOUS
<1>4. \A w : /\ Selected(once, I(w)) \in Seq(S) /\ Len(Selected(once, I(w))) = Cardinality(I(w))
             /\ \A x : x \in ToSet(Selected(once, I(w))) <=> \E i \in I(w) : once[i] = x
  <2> SUFFICES ASSUME NEW w
               PROVE  /\ Selected(once, I(w)) \in Seq(S) /\ Len(Selected(once, I(w))) = Cardinality(I(w))
                      /\ \A x : x \in ToSet(Selected(once, I(w))) <=> \E i \in I(w) : once[i] = x
    OBVIOUS
  <2> DEFINE J == I(w)
  <2>1. J \in SUBSET (DOMAIN once) BY <1>3
  <2> HIDE DEF J
  <2>2. /\ Selected(once, J) \in Seq(S) /\ Len(Selected(once, J)) = Cardinality(J)
        /\ \A x : x \in ToSet(Selected(once, J)) <=> \E i \in J : once[i] = x
    BY <1>2, <2>1, SelectionHolds
  <2> QED BY <2>2 DEF J
<1> DEFINE st(s) == Status(asset[s])
<1>5. \A w, x : x \in ToSet(Selected(once, I(w))) <=> x \in ToSet(symbols) /\ st(x) = w
  <2>1. \A x : x \in ToSet(symbols) <=> \E i \in DOMAIN once : once[i] = x BY <1>2 DEF ToSet
  <2>2. \A w, i : i \in I(w) <=> i \in DOMAIN once /\ st(once[i]) = w OBVIOUS
  <2> HIDE DEF I, st
  <2> QED BY <1>4, <2>1, <2>2
<1>6. \A s : st(s) = "usable" \/ st(s) = "unusable" \/ st(s) = "unverified" OBVIOUS
<1>7. \A s : st(s) = "unusable" => asset[s].answers OBVIOUS
<1>8. Cardinality(I("usable")) + Cardinality(I("unusable")) + Cardinality(I("unverified")) = Len(once)
  <2>1. DOMAIN once = 1 .. Len(once) /\ Len(once) \in Nat BY <1>2, ToSetIs
  <2>2. \A w, i : i \in I(w) <=> i \in DOMAIN once /\ st(once[i]) = w OBVIOUS
  <2>3. "usable" # "unusable" /\ "usable" # "unverified" /\ "unusable" # "unverified" OBVIOUS
  <2> HIDE DEF I, st
  <2>4. \A i : /\ ~(i \in I("usable") /\ i \in I("unusable"))
               /\ ~(i \in I("usable") \union I("unusable") /\ i \in I("unverified"))
               /\ (i \in (I("usable") \union I("unusable")) \union I("unverified")) <=> i \in 1 .. Len(once)
    BY <1>6, <2>1, <2>2, <2>3
  <2> QED BY <2>1, <2>4, ThreeParts
<1> HIDE DEF v, I, st
<1>9. Len(v.usable) + Len(v.unusable) + Len(v.unverified) = Len(v.requested) BY <1>1, <1>4, <1>8
<1>10. ASSUME NEW s \in ToSet(symbols) PROVE Cardinality({i \in 1 .. 3 : Contains(lists[i], s)}) = 1
  <2>1. lists[1] = v.usable /\ lists[2] = v.unusable /\ lists[3] = v.unverified OBVIOUS
  <2>2. \A w, x : Contains(Selected(once, I(w)), x) <=> x \in ToSet(Selected(once, I(w)))
    <3> SUFFICES ASSUME NEW w, NEW x
                 PROVE  Contains(Selected(once, I(w)), x) <=> x \in ToSet(Selected(once, I(w)))
      OBVIOUS
    <3> DEFINE q == Selected(once, I(w))
    <3>1. q \in Seq(S) BY <1>4
    <3> HIDE DEF q
    <3>2. DOMAIN q = 1 .. Len(q) BY <3>1
    <3>3. Contains(q, x) <=> x \in ToSet(q) BY <3>2 DEF Contains, ToSet
    <3> QED BY <3>3 DEF q
  <2> HIDE DEF lists
  <2> DEFINE in(i) == Contains(lists[i], s)
  <2>3. /\ in(1) <=> st(s) = "usable"
        /\ in(2) <=> st(s) = "unusable"
        /\ in(3) <=> st(s) = "unverified"
    BY <1>1, <1>5, <2>1, <2>2
  <2> HIDE DEF in
  <2>4. \A i \in 1 .. 3 : i = 1 \/ i = 2 \/ i = 3 OBVIOUS
  <2>5. "usable" # "unusable" /\ "usable" # "unverified" /\ "unusable" # "unverified" OBVIOUS
  <2>6. \E k \in 1 .. 3 : in(k) /\ \A i \in 1 .. 3 : i # k => ~in(i)
    <3>1. CASE st(s) = "usable"
      <4>1. in(1) /\ ~in(2) /\ ~in(3) BY <2>3, <2>5, <3>1
      <4> QED BY <2>4, <4>1
    <3>2. CASE st(s) = "unusable"
      <4>1. in(2) /\ ~in(1) /\ ~in(3) BY <2>3, <2>5, <3>2
      <4> QED BY <2>4, <4>1
    <3>3. CASE st(s) = "unverified"
      <4>1. in(3) /\ ~in(1) /\ ~in(2) BY <2>3, <2>5, <3>3
      <4> QED BY <2>4, <4>1
    <3> QED BY <1>6, <3>1, <3>2, <3>3
  <2>7. PICK k \in 1 .. 3 : in(k) /\ \A i \in 1 .. 3 : i # k => ~in(i) BY <2>6
  <2>8. {i \in 1 .. 3 : in(i)} = {k} BY <2>7
  <2>9. Cardinality({i \in 1 .. 3 : in(i)}) = 1 BY <2>8, FS_Singleton
  <2> QED BY <2>9 DEF in
<1>11. ToSet(v.requested) = ToSet(symbols) /\ IsInjective(v.requested)
  BY <1>1, <1>2 DEF IsInjective
<1>12. \A s \in ToSet(v.unusable) : asset[s].answers BY <1>1, <1>5, <1>7
<1> HIDE DEF lists
<1>13. UniverseIsJudged(symbols, asset) <=>
         /\ ToSet(v.requested) = ToSet(symbols) /\ IsInjective(v.requested)
         /\ \A s \in ToSet(symbols) : Cardinality({i \in 1 .. 3 : Contains(lists[i], s)}) = 1
         /\ Len(v.usable) + Len(v.unusable) + Len(v.unverified) = Len(v.requested)
         /\ \A s \in ToSet(v.unusable) : asset[s].answers
  BY DEF UniverseIsJudged, v, lists
<1> QED BY <1>9, <1>10, <1>11, <1>12, <1>13

-----------------------------------------------------------------------------
(* The members of an index, from its changes *)

(* Whether a set T of the changes leaves a symbol in the index.                *)
LeavesIn(w, T, s) ==
  \E i \in T : /\ s \in w[i].added
               /\ \A j \in T : j > i => ~(s \in w[j].added \union w[j].removed)

ReplayOf(w) == FoldLeft(LAMBDA members, c : (members \ c.removed) \union c.added, {}, w)

Replayed(w, g) ==
  g = [T \in SUBSET (DOMAIN w) |->
         IF T = {} THEN {} ELSE (g[T \ {Max(T)}] \ w[Max(T)].removed) \union w[Max(T)].added]

(* The replay is a recursion over the changes before the last.                 *)
LEMMA ReplayDef == ASSUME NEW w PROVE ReplayOf(w) = (CHOOSE g : Replayed(w, g))[DOMAIN w]
BY DEF ReplayOf, FoldLeft, MapThenFoldSet, Replayed

(* The last change decides of the symbols it names, and of no other.           *)
LEMMA LastDecides ==
  ASSUME NEW w, NEW T \in SUBSET Int, NEW x \in T, \A y \in T : x >= y, NEW s
  PROVE  LeavesIn(w, T, s) <=> (LeavesIn(w, T \ {x}, s) /\ s \notin w[x].removed) \/ s \in w[x].added
<1> DEFINE named(j) == s \in w[j].added \union w[j].removed
<1>1. ASSUME LeavesIn(w, T, s), s \notin w[x].added
      PROVE  LeavesIn(w, T \ {x}, s) /\ s \notin w[x].removed
  <2>1. PICK i \in T : s \in w[i].added /\ \A j \in T : j > i => ~named(j) BY <1>1 DEF LeavesIn
  <2>2. i # x /\ x > i
    <3>1. i # x BY <1>1, <2>1
    <3>2. i \in Int /\ x \in Int /\ x >= i OBVIOUS
    <3> QED BY <3>1, <3>2
  <2>3. ~named(x) BY <2>1, <2>2
  <2>4. i \in T \ {x} /\ \A j \in T \ {x} : j > i => ~named(j) BY <2>1, <2>2
  <2> QED BY <2>1, <2>3, <2>4 DEF LeavesIn
<1>2. ASSUME s \in w[x].added PROVE LeavesIn(w, T, s)
  <2>1. \A j \in T : ~(j > x)
    <3> SUFFICES ASSUME NEW j \in T PROVE ~(j > x) OBVIOUS
    <3>1. j \in Int /\ x \in Int /\ x >= j OBVIOUS
    <3> QED BY <3>1
  <2> QED BY <1>2, <2>1 DEF LeavesIn
<1>3. ASSUME LeavesIn(w, T \ {x}, s), s \notin w[x].removed, s \notin w[x].added PROVE LeavesIn(w, T, s)
  <2>1. PICK i \in T \ {x} : s \in w[i].added /\ \A j \in T \ {x} : j > i => ~named(j)
    BY <1>3 DEF LeavesIn
  <2>2. ~named(x) BY <1>3
  <2>3. i \in T /\ \A j \in T : j > i => ~named(j) BY <2>1, <2>2
  <2> QED BY <2>1, <2>3 DEF LeavesIn
<1> QED BY <1>1, <1>2, <1>3

(* What a replay leaves.                                                       *)
LEMMA ReplayIs ==
  ASSUME NEW n \in Nat, NEW w, DOMAIN w = 1 .. n, NEW X,
         \A i \in 1 .. n : w[i].added \in SUBSET X /\ w[i].removed \in SUBSET X
  PROVE  ReplayOf(w) = {s \in X : LeavesIn(w, 1 .. n, s)}
<1> DEFINE S == 1 .. n
           V == SUBSET X
           c == [T \in SUBSET S |-> Max(T)]
           F == [p \in S \X V |-> (p[2] \ w[p[1]].removed) \union w[p[1]].added]
<1>1. IsFiniteSet(S) /\ S \in SUBSET Int /\ DOMAIN w = S BY FS_Interval
<1>2. F \in [S \X V -> V] OBVIOUS
<1>3. \A T \in SUBSET S : T # {} => c[T] = Max(T) /\ c[T] \in T /\ \A y \in T : c[T] >= y
  <2> SUFFICES ASSUME NEW T \in SUBSET S, T # {} PROVE Max(T) \in T /\ \A y \in T : Max(T) >= y OBVIOUS
  <2>1. T \in SUBSET Int /\ IsFiniteSet(T) BY <1>1, FS_Subset
  <2> QED BY <2>1, MaxExists
<1>4. {} \in V OBVIOUS
<1>5. \A x \in S, v \in V : F[<<x, v>>] = (v \ w[x].removed) \union w[x].added OBVIOUS
<1> HIDE DEF c, F, S, V
<1>6. PICK h \in [SUBSET S -> V] : Recursion(S, {}, c, F, h)
  BY <1>1, <1>2, <1>3, <1>4, RecursionExists
<1>7. Replayed(w, h)
  <2>1. ASSUME NEW T \in SUBSET S
        PROVE  h[T] = IF T = {} THEN {} ELSE (h[T \ {Max(T)}] \ w[Max(T)].removed) \union w[Max(T)].added
    <3>1. CASE T = {} BY <1>1, <1>6, <3>1 DEF Recursion
    <3>2. CASE T # {}
      <4>1. h[T] = F[<<c[T], h[T \ {c[T]}]>>] BY <1>6, <3>2 DEF Recursion
      <4>2. c[T] \in S /\ h[T \ {c[T]}] \in V BY <1>3, <1>6, <3>2
      <4> QED BY <1>3, <1>5, <3>2, <4>1, <4>2
    <3> QED BY <3>1, <3>2
  <2>2. h = [T \in SUBSET S |-> h[T]] BY <1>6
  <2> QED BY <1>1, <2>1, <2>2 DEF Replayed
<1> DEFINE g == CHOOSE k : Replayed(w, k)
<1>8. Replayed(w, g) BY <1>7
<1>9. ReplayOf(w) = g[S] BY <1>1, ReplayDef
<1> HIDE DEF g
<1> DEFINE P == {T \in SUBSET S : g[T] = {s \in X : LeavesIn(w, T, s)}}
<1>10. {} \in P
  <2>1. g[{}] = {} BY <1>8 DEF Replayed
  <2>2. {s \in X : LeavesIn(w, {}, s)} = {} BY DEF LeavesIn
  <2> QED BY <2>1, <2>2
<1>11. ASSUME NEW T \in SUBSET S, T # {}, \A x \in T : T \ {x} \in P PROVE T \in P
  <2> DEFINE x == Max(T)
  <2>1. x \in T /\ \A y \in T : x >= y BY <1>3, <1>11
  <2>2. g[T] = (g[T \ {x}] \ w[x].removed) \union w[x].added BY <1>1, <1>8, <1>11 DEF Replayed
  <2>3. T \in SUBSET Int BY <1>1
  <2>4. w[x].added \in SUBSET X BY <2>1 DEF S
  <2> HIDE DEF x
  <2>5. g[T \ {x}] = {s \in X : LeavesIn(w, T \ {x}, s)} BY <1>11, <2>1
  <2>6. \A s : LeavesIn(w, T, s) <=> (LeavesIn(w, T \ {x}, s) /\ s \notin w[x].removed) \/ s \in w[x].added
    BY <2>1, <2>3, LastDecides
  <2>7. g[T] = {s \in X : LeavesIn(w, T, s)} BY <2>2, <2>4, <2>5, <2>6
  <2> QED BY <2>7
<1>12. P \in SUBSET (SUBSET S) OBVIOUS
<1> HIDE DEF P
<1>13. \A T \in SUBSET S : T # {} /\ (\A x \in T : T \ {x} \in P) => T \in P BY <1>11
<1>14. P = SUBSET S BY <1>1, <1>10, <1>12, <1>13, SetOfSubsets
<1>15. S \in P BY <1>14
<1>16. g[S] = {s \in X : LeavesIn(w, S, s)} BY <1>15 DEF P
<1> QED BY <1>9, <1>16 DEF S

(* Changes in order, each later than the one before, rise all along.           *)
LEMMA DaysRise ==
  ASSUME NEW n \in Nat, NEW d, \A i \in 1 .. n : d[i] \in Int,
         \A i \in 2 .. n : d[i - 1] < d[i]
  PROVE  \A i, j \in 1 .. n : i < j => d[i] < d[j]
<1> DEFINE P == {k \in Nat : k <= n => \A i \in 1 .. k : i < k => d[i] < d[k]}
<1>1. 0 \in P OBVIOUS
<1>2. ASSUME NEW k \in P PROVE k + 1 \in P
  <2> SUFFICES ASSUME k + 1 <= n, NEW i \in 1 .. k + 1, i < k + 1 PROVE d[i] < d[k + 1] OBVIOUS
  <2>1. k \in Nat /\ k <= n /\ i \in 1 .. k /\ k \in 1 .. n /\ i \in 1 .. n /\ k + 1 \in 2 .. n OBVIOUS
  <2>2. d[(k + 1) - 1] < d[k + 1] BY <2>1
  <2>3. d[k] < d[k + 1]
    <3>1. (k + 1) - 1 = k BY <2>1
    <3> QED BY <2>2, <3>1
  <2>4. CASE i = k BY <2>3, <2>4
  <2>5. CASE i < k
    <3>1. d[i] < d[k] BY <2>1, <2>5
    <3>2. d[i] \in Int /\ d[k] \in Int /\ d[k + 1] \in Int BY <2>1
    <3> QED BY <2>3, <3>1, <3>2
  <2> QED BY <2>1, <2>4, <2>5
<1>3. P \in SUBSET Nat OBVIOUS
<1> HIDE DEF P
<1>4. P = Nat BY <1>1, <1>2, <1>3, SetOfNaturals
<1>5. ASSUME NEW i \in 1 .. n, NEW j \in 1 .. n, i < j PROVE d[i] < d[j]
  <2>1. j \in P BY <1>4
  <2> QED BY <1>5, <2>1 DEF P
<1> QED BY <1>5

(* A set of first indices is counted by its last.                              *)
LEMMA FirstOnes ==
  ASSUME NEW n \in Nat, NEW U \in SUBSET (1 .. n), \A i \in U : \A j \in 1 .. i : j \in U
  PROVE  Cardinality(U) \in 0 .. n /\ U = 1 .. Cardinality(U)
<1>1. IsFiniteSet(U) /\ U \in SUBSET Int
  <2>1. IsFiniteSet(1 .. n) BY FS_Interval
  <2>2. IsFiniteSet(U) BY <2>1, FS_Subset
  <2>3. U \in SUBSET Int OBVIOUS
  <2> QED BY <2>2, <2>3
<1>2. CASE U = {}
  <2>1. Cardinality(U) = 0 BY <1>2, FS_EmptySet
  <2> QED BY <1>2, <2>1
<1>3. CASE U # {}
  <2> DEFINE m == Max(U)
  <2>1. m \in U /\ \A y \in U : m >= y BY <1>1, <1>3, MaxExists
  <2> HIDE DEF m
  <2>2. m \in 1 .. n BY <2>1
  <2>3. U = 1 .. m
    <3>1. \A i \in U : i \in 1 .. m
      <4> SUFFICES ASSUME NEW i \in U PROVE i \in 1 .. m OBVIOUS
      <4>1. i \in 1 .. n /\ m >= i BY <2>1
      <4> QED BY <2>2, <4>1
    <3>2. \A i \in 1 .. m : i \in U BY <2>1
    <3> QED BY <3>1, <3>2
  <2>4. Cardinality(1 .. m) = m BY <2>2, UpTo
  <2> QED BY <2>2, <2>3, <2>4
<1> QED BY <1>2, <1>3

Changes(X) == [day : Int, added : SUBSET X, removed : SUBSET X]

(* What the changes of an index are, one by one.                               *)
LEMMA ChangesAre ==
  ASSUME NEW X, NEW changes \in Seq(Changes(X))
  PROVE  /\ Len(changes) \in Nat /\ DOMAIN changes = 1 .. Len(changes)
         /\ changes # <<>> => 1 \in 1 .. Len(changes)
         /\ \A i \in 1 .. Len(changes) : /\ changes[i].day \in Int
                                         /\ changes[i].added \in SUBSET X
                                         /\ changes[i].removed \in SUBSET X
         /\ \A k \in 0 .. Len(changes) :
              /\ DOMAIN SubSeq(changes, 1, k) = 1 .. k
              /\ \A i \in 1 .. k : SubSeq(changes, 1, k)[i] = changes[i]
<1>1. Len(changes) \in Nat /\ DOMAIN changes = 1 .. Len(changes) OBVIOUS
<1>2. \A i \in 1 .. Len(changes) : changes[i] \in Changes(X) OBVIOUS
<1>3. \A k \in 0 .. Len(changes) :
        /\ DOMAIN SubSeq(changes, 1, k) = 1 .. k
        /\ \A i \in 1 .. k : SubSeq(changes, 1, k)[i] = changes[i]
  OBVIOUS
<1>4. changes # <<>> => 1 \in 1 .. Len(changes) OBVIOUS
<1> QED BY <1>1, <1>2, <1>3, <1>4 DEF Changes

(* The members of an index on a day are those its changes up to that day leave *)
(* in it, for every list of changes and every day (MembershipFile.members_as_of).*)
THEOREM EveryMembershipIsItsReplay ==
  ASSUME NEW X, NEW changes \in Seq(Changes(X)), NEW day \in Int
  PROVE  MembershipIsTheReplay(changes, day)
<1> DEFINE n == Len(changes)
           U == {i \in DOMAIN changes : changes[i].day <= day}
           k == Cardinality(U)
           answer == MembersAsOf(changes, day)
<1>1. /\ n \in Nat /\ DOMAIN changes = 1 .. n
      /\ changes # <<>> => 1 \in 1 .. n
      /\ \A i \in 1 .. n : /\ changes[i].day \in Int
                           /\ changes[i].added \in SUBSET X /\ changes[i].removed \in SUBSET X
      /\ \A j \in 0 .. n : /\ DOMAIN SubSeq(changes, 1, j) = 1 .. j
                           /\ \A i \in 1 .. j : SubSeq(changes, 1, j)[i] = changes[i]
  BY ChangesAre
<1> SUFFICES ASSUME WellOrdered(changes)
             PROVE  /\ answer.ok <=> U # {}
                    /\ answer.ok => answer.members = {s \in UNION {changes[i].added : i \in U} : LeavesIn(changes, U, s)}
  BY DEF MembershipIsTheReplay, LeavesIn
<1>2. /\ changes # <<>> /\ 1 \in 1 .. n
      /\ \A i \in 2 .. n : changes[i - 1].day < changes[i].day
  BY <1>1 DEF WellOrdered
<1>3. answer = IF day < changes[1].day THEN [ok |-> FALSE, members |-> {}]
               ELSE [ok |-> TRUE, members |-> MembersAfter(changes, k)]
  BY DEF MembersAsOf
<1> HIDE DEF n, answer
<1>4. \A i, j \in 1 .. n : i < j => changes[i].day < changes[j].day
  <2> DEFINE d == [i \in 1 .. n |-> changes[i].day]
  <2>1. \A i \in 1 .. n : d[i] = changes[i].day OBVIOUS
  <2>2. \A i \in 2 .. n : i - 1 \in 1 .. n /\ i \in 1 .. n BY <1>1
  <2> HIDE DEF d
  <2>3. \A i \in 1 .. n : d[i] \in Int BY <1>1, <2>1
  <2>4. \A i \in 2 .. n : d[i - 1] < d[i] BY <1>2, <2>1, <2>2
  <2>5. \A i, j \in 1 .. n : i < j => d[i] < d[j] BY <1>1, <2>3, <2>4, DaysRise
  <2> QED BY <2>1, <2>5
<1>5. U \in SUBSET (1 .. n) /\ \A i \in U : \A j \in 1 .. i : j \in U
  <2>1. U \in SUBSET (1 .. n) BY <1>1
  <2>2. ASSUME NEW i \in U, NEW j \in 1 .. i PROVE j \in U
    <3>1. i \in 1 .. n /\ changes[i].day <= day BY <2>1
    <3>2. j \in 1 .. n BY <1>1, <3>1
    <3>3. changes[i].day \in Int /\ changes[j].day \in Int BY <1>1, <3>1, <3>2
    <3>4. j = i \/ changes[j].day < changes[i].day BY <1>4, <3>1, <3>2
    <3>5. changes[j].day <= day BY <3>1, <3>3, <3>4
    <3> QED BY <1>1, <3>2, <3>5
  <2> QED BY <2>1, <2>2
<1>6. k \in 0 .. n /\ U = 1 .. k BY <1>1, <1>5, FirstOnes
<1>7. U # {} <=> ~(day < changes[1].day)
  <2>1. changes[1].day \in Int BY <1>1, <1>2
  <2>2. 1 \in U <=> changes[1].day <= day BY <1>1, <1>2
  <2>3. U # {} => 1 \in U
    <3> SUFFICES ASSUME NEW i \in U PROVE 1 \in U OBVIOUS
    <3>1. 1 \in 1 .. i BY <1>5
    <3> QED BY <1>5, <3>1
  <2> QED BY <2>1, <2>2, <2>3
<1> HIDE DEF U, k
<1>8. ReplayOf(SubSeq(changes, 1, k)) = {s \in UNION {changes[i].added : i \in U} : LeavesIn(changes, U, s)}
  <2> DEFINE w == SubSeq(changes, 1, k)
  <2>1. DOMAIN w = 1 .. k /\ k \in Nat /\ \A i \in 1 .. k : i \in 1 .. n /\ w[i] = changes[i]
    BY <1>1, <1>6
  <2> HIDE DEF w
  <2>2. \A i \in 1 .. k : w[i].added \in SUBSET X /\ w[i].removed \in SUBSET X BY <1>1, <2>1
  <2>3. ReplayOf(w) = {s \in X : LeavesIn(w, 1 .. k, s)} BY <2>1, <2>2, ReplayIs
  <2>4. \A s : LeavesIn(w, 1 .. k, s) <=> LeavesIn(changes, U, s) BY <1>6, <2>1 DEF LeavesIn
  <2>5. \A s : LeavesIn(changes, U, s) => s \in UNION {changes[i].added : i \in U} BY DEF LeavesIn
  <2>6. UNION {changes[i].added : i \in U} \subseteq X BY <1>1, <1>6, <2>1
  <2>7. ReplayOf(w) = {s \in UNION {changes[i].added : i \in U} : LeavesIn(changes, U, s)}
    BY <2>3, <2>4, <2>5, <2>6
  <2> QED BY <2>7 DEF w
<1>9. MembersAfter(changes, k) = ReplayOf(SubSeq(changes, 1, k)) BY DEF MembersAfter, ReplayOf
<1> QED BY <1>3, <1>7, <1>8, <1>9

-----------------------------------------------------------------------------
(* What is read again from the cache *)

Nothing == [cache |-> <<>>, results |-> <<>>]

ReadOnce(reads, a) ==
  LET r == YFinanceBars(reads.cache, a)
  IN [cache |-> r.cache, results |-> Append(reads.results, r.result)]

ReadsOf(w) == FoldLeft(LAMBDA reads, a : ReadOnce(reads, a), Nothing, w)

ReadAll(w, g) ==
  g = [T \in SUBSET (DOMAIN w) |-> IF T = {} THEN Nothing ELSE ReadOnce(g[T \ {Max(T)}], w[Max(T)])]

(* The reads are a recursion over the answers before the last.                 *)
LEMMA ReadsDef == ASSUME NEW w PROVE ReadsOf(w) = (CHOOSE g : ReadAll(w, g))[DOMAIN w]
BY DEF ReadsOf, FoldLeft, MapThenFoldSet, ReadAll

LEMMA ReadsAre == ASSUME NEW w PROVE YFinanceReads(w) = ReadsOf(w).results
BY Zenon DEF YFinanceReads, ReadsOf, ReadOnce, Nothing

Answered(B) == [refused : BOOLEAN, bars : B]
Reads(B) == [cache : Seq(B), results : Seq([ok : BOOLEAN, bars : B \union {<<>>}])]

(* One read, from what is cached.                                              *)
LEMMA OneRead ==
  ASSUME NEW B, NEW v \in Reads(B), NEW a \in Answered(B)
  PROVE  /\ ReadOnce(v, a) \in Reads(B)
         /\ ReadOnce(v, a).results = Append(v.results, IF v.cache # <<>> THEN Returns(v.cache[1])
                                                       ELSE IF a.refused THEN Raises ELSE Returns(a.bars))
         /\ ReadOnce(v, a).cache = IF v.cache # <<>> \/ a.refused THEN v.cache ELSE <<a.bars>>
<1> DEFINE R == [ok : BOOLEAN, bars : B \union {<<>>}]
           t == IF v.cache # <<>> THEN Returns(v.cache[1]) ELSE IF a.refused THEN Raises ELSE Returns(a.bars)
           q == IF v.cache # <<>> \/ a.refused THEN v.cache ELSE <<a.bars>>
<1>1. v.cache \in Seq(B) /\ v.results \in Seq(R) /\ a.bars \in B /\ a.refused \in BOOLEAN
  BY DEF Reads, Answered
<1>2. v.cache # <<>> => v.cache[1] \in B BY <1>1
<1>3. t \in R BY <1>1, <1>2 DEF Returns, Raises
<1>4. q \in Seq(B)
  <2>1. <<a.bars>> \in Seq(B) BY <1>1
  <2> QED BY <1>1, <2>1
<1>5. YFinanceBars(v.cache, a) = [cache |-> q, result |-> t] BY DEF YFinanceBars
<1> HIDE DEF q, t
<1>6. ReadOnce(v, a) = [cache |-> q, results |-> Append(v.results, t)] BY <1>5 DEF ReadOnce
<1> HIDE DEF R
<1>7. Append(v.results, t) \in Seq(R) BY <1>1, <1>3
<1>8. ReadOnce(v, a) \in Reads(B) BY <1>4, <1>6, <1>7 DEF Reads, R
<1>9. ReadOnce(v, a).results = Append(v.results, t) /\ ReadOnce(v, a).cache = q BY <1>6
<1> QED BY <1>8, <1>9 DEF q, t

(* What the first answers of a source leave behind.                            *)
Remembered(w, v, i) ==
  /\ Len(v.results) = i
  /\ (\A k \in 1 .. i : w[k].refused) => v.cache = <<>>
  /\ \A k \in 1 .. i : ~w[k].refused /\ (\A l \in 1 .. k - 1 : w[l].refused) => v.cache = <<w[k].bars>>
  /\ \A l \in 1 .. i :
       /\ (\A k \in 1 .. l : w[k].refused) => v.results[l] = Raises
       /\ \A k \in 1 .. l : ~w[k].refused /\ (\A m \in 1 .. k - 1 : w[m].refused)
                              => v.results[l] = Returns(w[k].bars)

(* Every answer after a refusal is as if the source had not been asked, and    *)
(* the first that is none is the answer from then on.                          *)
LEMMA NextRead ==
  ASSUME NEW B, NEW i \in Nat, NEW w, \A k \in 1 .. i + 1 : w[k] \in Answered(B),
         NEW v \in Reads(B), Remembered(w, v, i)
  PROVE  Remembered(w, ReadOnce(v, w[i + 1]), i + 1)
<1> DEFINE a == w[i + 1]
           u == ReadOnce(v, a)
           t == IF v.cache # <<>> THEN Returns(v.cache[1]) ELSE IF a.refused THEN Raises ELSE Returns(a.bars)
           all(l) == \A k \in 1 .. l : w[k].refused
           first(k) == ~w[k].refused /\ \A l \in 1 .. k - 1 : w[l].refused
<1>1. a \in Answered(B) OBVIOUS
<1>2. /\ u \in Reads(B) /\ u.results = Append(v.results, t)
      /\ u.cache = IF v.cache # <<>> \/ a.refused THEN v.cache ELSE <<a.bars>>
  BY <1>1, OneRead
<1>3. /\ Len(v.results) = i
      /\ all(i) => v.cache = <<>>
      /\ \A k \in 1 .. i : first(k) => v.cache = <<w[k].bars>>
      /\ \A l \in 1 .. i : /\ all(l) => v.results[l] = Raises
                           /\ \A k \in 1 .. l : first(k) => v.results[l] = Returns(w[k].bars)
  BY DEF Remembered
<1>4. all(i + 1) => all(i) /\ a.refused OBVIOUS
<1>5. first(i + 1) => all(i) /\ ~a.refused
  <2>1. (i + 1) - 1 = i OBVIOUS
  <2> QED BY <2>1
<1>6. \A k : k \in 1 .. i + 1 <=> k \in 1 .. i \/ k = i + 1 OBVIOUS
<1>7. \A x : <<x>> # <<>> /\ <<x>>[1] = x OBVIOUS
<1> DEFINE S == v.results
<1>8. Len(Append(S, t)) = i + 1 /\ Append(S, t)[i + 1] = t /\ \A l \in 1 .. i : Append(S, t)[l] = S[l]
  <2> DEFINE R == [ok : BOOLEAN, bars : B \union {<<>>}]
  <2>1. S \in Seq(R) BY DEF Reads
  <2>2. Len(S) = i BY <1>3
  <2> HIDE DEF S, R, t
  <2> QED BY <2>1, <2>2
<1> HIDE DEF u, all, first, S
<1>9. t = IF v.cache # <<>> THEN Returns(v.cache[1]) ELSE IF a.refused THEN Raises ELSE Returns(a.bars)
  OBVIOUS
<1> HIDE DEF t
<1>10. u.results = Append(S, t) BY <1>2 DEF S
<1>11. all(i + 1) => u.cache = <<>> /\ t = Raises BY <1>2, <1>3, <1>4, <1>9
<1>12. ASSUME NEW k \in 1 .. i + 1, first(k) PROVE u.cache = <<w[k].bars>> /\ t = Returns(w[k].bars)
  <2>1. CASE k \in 1 .. i
    <3>1. v.cache = <<w[k].bars>> BY <1>3, <1>12, <2>1
    <3> QED BY <1>2, <1>7, <1>9, <3>1
  <2>2. CASE k = i + 1
    <3>1. v.cache = <<>> /\ ~a.refused BY <1>3, <1>5, <1>12, <2>2
    <3> QED BY <1>2, <1>9, <2>2, <3>1
  <2> QED BY <1>6, <2>1, <2>2
<1>13. ASSUME NEW l \in 1 .. i + 1
       PROVE  /\ all(l) => u.results[l] = Raises
              /\ \A k \in 1 .. l : first(k) => u.results[l] = Returns(w[k].bars)
  <2>1. CASE l \in 1 .. i
    <3>1. u.results[l] = v.results[l] BY <1>8, <1>10, <2>1 DEF S
    <3> QED BY <1>3, <2>1, <3>1
  <2>2. CASE l = i + 1
    <3>1. u.results[l] = t BY <1>8, <1>10, <2>2
    <3> QED BY <1>11, <1>12, <2>2, <3>1
  <2> QED BY <1>6, <2>1, <2>2
<1>14. Len(u.results) = i + 1 BY <1>8, <1>10
<1>15. \A k \in 1 .. i + 1 : first(k) => u.cache = <<w[k].bars>> BY <1>12
<1>16. \A l \in 1 .. i + 1 : /\ all(l) => u.results[l] = Raises
                             /\ \A k \in 1 .. l : first(k) => u.results[l] = Returns(w[k].bars)
  BY <1>13
<1>17. Remembered(w, u, i + 1) BY <1>11, <1>14, <1>15, <1>16 DEF Remembered, all, first
<1> QED BY <1>17 DEF u

(* What all the answers leave behind.                                          *)
LEMMA ReadsHold ==
  ASSUME NEW B, NEW n \in Nat, NEW w, DOMAIN w = 1 .. n, \A k \in 1 .. n : w[k] \in Answered(B)
  PROVE  Remembered(w, ReadsOf(w), n)
<1> DEFINE S == 1 .. n
           V == Reads(B)
           c == [T \in SUBSET S |-> Max(T)]
           F == [p \in S \X V |-> ReadOnce(p[2], w[p[1]])]
<1>1. IsFiniteSet(S) /\ S \in SUBSET Int /\ DOMAIN w = S BY FS_Interval
<1>2. F \in [S \X V -> V]
  <2>1. ASSUME NEW p \in S \X V PROVE ReadOnce(p[2], w[p[1]]) \in V
    <3>1. p[2] \in Reads(B) /\ w[p[1]] \in Answered(B) BY <2>1
    <3> QED BY <3>1, OneRead
  <2> HIDE DEF V, S
  <2> QED BY <2>1
<1>3. \A T \in SUBSET S : T # {} => c[T] = Max(T) /\ c[T] \in T /\ \A y \in T : c[T] >= y
  <2> SUFFICES ASSUME NEW T \in SUBSET S, T # {} PROVE Max(T) \in T /\ \A y \in T : Max(T) >= y OBVIOUS
  <2>1. T \in SUBSET Int /\ IsFiniteSet(T) BY <1>1, FS_Subset
  <2> QED BY <2>1, MaxExists
<1>4. Nothing \in V BY DEF Nothing, Reads
<1>5. \A x \in S, v \in V : F[<<x, v>>] = ReadOnce(v, w[x]) OBVIOUS
<1> HIDE DEF c, F, S, V
<1>6. PICK h \in [SUBSET S -> V] : Recursion(S, Nothing, c, F, h)
  BY <1>1, <1>2, <1>3, <1>4, RecursionExists
<1>7. ReadAll(w, h)
  <2>1. ASSUME NEW T \in SUBSET S
        PROVE  h[T] = IF T = {} THEN Nothing ELSE ReadOnce(h[T \ {Max(T)}], w[Max(T)])
    <3>1. CASE T = {} BY <1>1, <1>6, <3>1 DEF Recursion
    <3>2. CASE T # {}
      <4>1. h[T] = F[<<c[T], h[T \ {c[T]}]>>] BY <1>6, <3>2 DEF Recursion
      <4>2. c[T] \in S /\ h[T \ {c[T]}] \in V BY <1>3, <1>6, <3>2
      <4> QED BY <1>3, <1>5, <3>2, <4>1, <4>2
    <3> QED BY <3>1, <3>2
  <2>2. h = [T \in SUBSET S |-> h[T]] BY <1>6
  <2> QED BY <1>1, <2>1, <2>2 DEF ReadAll
<1> DEFINE g == CHOOSE k : ReadAll(w, k)
<1>8. ReadAll(w, g) BY <1>7
<1>9. ReadsOf(w) = g[S] BY <1>1, ReadsDef
<1> HIDE DEF g
<1> DEFINE P == {i \in Nat : i <= n => g[1 .. i] \in V /\ Remembered(w, g[1 .. i], i)}
<1>10. 0 \in P
  <2>1. 1 .. 0 = {} OBVIOUS
  <2>2. g[{}] = Nothing BY <1>8 DEF ReadAll
  <2>3. Remembered(w, Nothing, 0)
    <3>1. Nothing.results = <<>> /\ Nothing.cache = <<>> /\ Len(<<>>) = 0 BY DEF Nothing
    <3> HIDE DEF S, V
    <3> QED BY <2>1, <3>1 DEF Remembered
  <2> QED BY <1>4, <2>1, <2>2, <2>3
<1>11. ASSUME NEW i \in P PROVE i + 1 \in P
  <2> SUFFICES ASSUME i + 1 <= n PROVE g[1 .. i + 1] \in V /\ Remembered(w, g[1 .. i + 1], i + 1) OBVIOUS
  <2>1. i \in Nat /\ i <= n /\ i + 1 \in 1 .. n OBVIOUS
  <2>2. g[1 .. i] \in V /\ Remembered(w, g[1 .. i], i) BY <2>1
  <2> DEFINE T == 1 .. i + 1
  <2>3. T \in SUBSET S /\ T # {} /\ i + 1 \in T /\ \A y \in T : y <= i + 1 BY <2>1 DEF S
  <2>4. T \ {i + 1} = 1 .. i BY <2>1
  <2> HIDE DEF T
  <2>5. Max(T) = i + 1
    <3>1. Max(T) \in T /\ Max(T) >= i + 1 BY <1>3, <2>3
    <3>2. Max(T) \in Int /\ Max(T) <= i + 1 BY <1>1, <2>3, <3>1
    <3> QED BY <2>1, <3>1, <3>2
  <2>6. g[T] = ReadOnce(g[1 .. i], w[i + 1])
    <3>1. g[T] = ReadOnce(g[T \ {Max(T)}], w[Max(T)]) BY <1>1, <1>8, <2>3 DEF ReadAll
    <3> QED BY <2>4, <2>5, <3>1
  <2>7. w[i + 1] \in Answered(B) BY <2>1
  <2>9. \A k \in 1 .. i + 1 : w[k] \in Answered(B) BY <2>1
  <2>10. g[1 .. i] \in Reads(B) BY <2>2 DEF V
  <2> DEFINE v == g[1 .. i]
  <2>11. v \in Reads(B) /\ Remembered(w, v, i) BY <2>2, <2>10
  <2>12. g[T] = ReadOnce(v, w[i + 1]) BY <2>6
  <2> HIDE DEF v
  <2>8. g[T] \in V
    <3>1. ReadOnce(v, w[i + 1]) \in Reads(B) BY <2>7, <2>11, OneRead
    <3> QED BY <2>12, <3>1 DEF V
  <2>13. Remembered(w, ReadOnce(v, w[i + 1]), i + 1) BY <2>1, <2>9, <2>11, NextRead
  <2>14. Remembered(w, g[T], i + 1) BY <2>12, <2>13
  <2> QED BY <2>8, <2>14 DEF T
<1>12. P \in SUBSET Nat OBVIOUS
<1> HIDE DEF P
<1>13. P = Nat BY <1>10, <1>11, <1>12, SetOfNaturals
<1>14. n \in P BY <1>13
<1>15. Remembered(w, g[S], n) BY <1>14 DEF P, S
<1> QED BY <1>9, <1>15

(* Some read that is answered is the first.                                    *)
LEMMA FirstAnswer ==
  ASSUME NEW i \in Nat, NEW w, \E j \in 1 .. i : ~w[j].refused
  PROVE  \E k \in 1 .. i : ~w[k].refused /\ \A l \in 1 .. k - 1 : w[l].refused
<1> DEFINE T == {j \in 1 .. i : ~w[j].refused}
<1>1. T \in SUBSET Nat /\ T # {} OBVIOUS
<1> HIDE DEF T
<1>2. PICK k \in T : \A j \in T : k <= j BY <1>1, LeastMember
<1>3. k \in 1 .. i /\ ~w[k].refused BY <1>2 DEF T
<1>4. ASSUME NEW l \in 1 .. k - 1 PROVE w[l].refused
  <2>1. l \in 1 .. i /\ ~(k <= l) BY <1>3
  <2>2. l \notin T BY <1>2, <2>1
  <2> QED BY <2>1, <2>2 DEF T
<1> QED BY <1>3, <1>4

(* A refusal is never remembered as missing history and an answer, once given, *)
(* is given again, for every run of answers (YFinanceAdapter.get_bars).        *)
THEOREM NoRefusalIsAbsence ==
  ASSUME NEW B, NEW answers \in Seq(Answered(B))
  PROVE  RefusalIsNotAbsence(answers)
<1> DEFINE n == Len(answers)
           results == YFinanceReads(answers)
           first(k) == ~answers[k].refused /\ \A l \in 1 .. k - 1 : answers[l].refused
<1>1. n \in Nat /\ DOMAIN answers = 1 .. n /\ \A k \in 1 .. n : answers[k] \in Answered(B) OBVIOUS
<1>2. results = ReadsOf(answers).results BY ReadsAre
<1> HIDE DEF n, results
<1>3. Remembered(answers, ReadsOf(answers), n) BY <1>1, ReadsHold
<1>4. \A l \in 1 .. n : /\ (\A k \in 1 .. l : answers[k].refused) => results[l] = Raises
                        /\ \A k \in 1 .. l : first(k) => results[l] = Returns(answers[k].bars)
  BY <1>2, <1>3 DEF Remembered
<1>5. ASSUME NEW i \in 1 .. n, \E j \in 1 .. i : ~answers[j].refused
      PROVE  results[i] = Returns(answers[CHOOSE k \in 1 .. i : first(k)].bars)
  <2>1. \E k \in 1 .. i : first(k)
    <3>1. i \in Nat BY <1>1
    <3> QED BY <1>5, <3>1, FirstAnswer
  <2> DEFINE k == CHOOSE k \in 1 .. i : first(k)
  <2>2. k \in 1 .. i /\ first(k) BY <2>1
  <2> HIDE DEF k
  <2>3. results[i] = Returns(answers[k].bars) BY <1>4, <2>2
  <2> QED BY <2>3 DEF k
<1>6. ASSUME NEW i \in 1 .. n, ~(\E j \in 1 .. i : ~answers[j].refused) PROVE ~results[i].ok
  <2>1. results[i] = Raises BY <1>4, <1>6
  <2> QED BY <2>1 DEF Raises
<1> QED BY <1>1, <1>5, <1>6 DEF RefusalIsNotAbsence, results

-----------------------------------------------------------------------------
(* The studies of the sources *)

(* A listing without its splits is still one of a provider.                    *)
LEMMA ListingsAreProviders == Listings \subseteq Providers
<1> SUFFICES ASSUME NEW p \in Listings PROVE p \in Providers OBVIOUS
<1> DEFINE split == [day |-> 3, ratio |-> <<2, 1>>]
           v == [t \in 1 .. 6 |-> 4]
<1>1. PICK days \in {1 .. 6, {1, 2, 3}, {4, 5, 6}, {2, 4}, {}}, applied \in BOOLEAN, up \in BOOLEAN,
           continuous \in BOOLEAN :
        p = Listed(days, applied, up, continuous)
  BY DEF Listings
<1>2. days \subseteq 1 .. 6 OBVIOUS
<1>3. IsFiniteSet(days) /\ days \in SUBSET Int
  <2>1. IsFiniteSet(1 .. 6)
    <3>1. 6 \in Nat OBVIOUS
    <3> QED BY <3>1, UpTo
  <2>2. IsFiniteSet(days) BY <1>2, <2>1, FS_Subset
  <2>3. days \in SUBSET Int BY <1>2
  <2> QED BY <2>2, <2>3
<1>4. \A t \in days : v[t] \in Nat \ {0} BY <1>2
<1>5. split \in StockSplits /\ split.ratio[2] > 0 BY DEF StockSplits
<1> DEFINE yes == TRUE
           q == Listing(days, v, split, applied, up, yes, yes, 0)
<1>6. p = [q EXCEPT !.splits = IF continuous THEN {} ELSE @] BY <1>1 DEF Listed
<1>10. yes \in BOOLEAN OBVIOUS
<1> HIDE DEF split, v, yes
<1>7. Lists(q, days, v, split, applied, up, yes, yes, 0) BY <1>3, <1>4, <1>5, <1>10, ListingIs
<1> HIDE DEF q
<1>8. q \in Answers /\ IsFiniteSet(q.bars) /\ \A b, c \in q.bars : b.ts = c.ts => b = c
  BY <1>7 DEF Lists, Providers
<1>9. p \in Answers /\ p.bars = q.bars BY <1>6, <1>8 DEF Answers
<1> QED BY <1>8, <1>9 DEF Providers

(* A study of a sweep or of folds is one of no record.                         *)
LEMMA SearchesAreApart ==
  ASSUME StudySweep \/ StudyFolds
  PROVE  study'.of \in {"sweep", "folds"}
<1>1. CASE StudySweep
  <2>1. PICK g \in {<<2, 2>>, <<3, 1>>}, windows \in 1 .. 2 :
          \E out \in {{}, {<<1, 1>>}, {<<2, 1>>, <<1, 2>>}, ToSet(ExpandGrid(g))},
             empty \in SUBSET (1 .. windows), s \in [ToSet(ExpandGrid(g)) -> {-1, 0, 2}] :
            study' = [of |-> "sweep", windows |-> windows,
                      summary |-> RunSweep(g, ToSet(ExpandGrid(g)) \ out, windows, empty, s)]
    BY <1>1 DEF StudySweep
  <2> QED BY <2>1
<1>2. CASE StudyFolds
  <2>1. PICK end \in {0, 5, 8, 12, 13}, folds \in 0 .. 3, mode \in {"anchored", "rolling"},
             runnable \in {<<>>, <<1>>, <<1, 2>>}, s \in [{1, 2} -> [1 .. 3 -> {0, 1}]] :
          \E tape \in {0 .. end, {t \in 0 .. end : t % 3 = 0}, 4 .. end, {0, 7}} :
            study' = [of |-> "folds", folds |-> folds, runnable |-> runnable, end |-> end,
                      walk |-> RunWalkForward(0, end, folds, mode, runnable, tape, s)]
    BY <1>2 DEF StudyFolds
  <2>2. PICK tape \in {0 .. end, {t \in 0 .. end : t % 3 = 0}, 4 .. end, {0, 7}} :
            study' = [of |-> "folds", folds |-> folds, runnable |-> runnable, end |-> end,
                      walk |-> RunWalkForward(0, end, folds, mode, runnable, tape, s)]
    BY <2>1
  <2> QED BY <2>2
<1> QED BY <1>1, <1>2

(* The screens of a command are blind to the run they are for: what a study of *)
(* the sources prepares is what the theorem above gives for every venue        *)
(* (_apply_liquidity_screen, formation_window, load_series).                   *)
THEOREM ScreensStayBlind == Spec => []ScreensAreBlind
<1>1. Init => ScreensAreBlind
  <2> SUFFICES ASSUME study = [of |-> "none"] PROVE ScreensAreBlind BY DEF Init
  <2>1. study.of = "none" OBVIOUS
  <2> QED BY <2>1 DEF ScreensAreBlind
<1>2. ASSUME ScreensAreBlind, [Next]_<<study, strategy, book>> PROVE ScreensAreBlind'
  <2>1. CASE StudySources
    <3>1. PICK venue \in [{"a", "b"} -> Listings], symbols \in {<<"a", "b">>, <<"b", "a", "b">>},
               continuous \in BOOLEAN, floor \in {<<0, 1>>, <<5, 1>>} :
            study' = [of |-> "sources", venue |-> venue, symbols |-> symbols,
                      run |-> [start |-> 4, end |-> 6, days |-> 2, adv |-> floor, tier |-> <<6, 1>>,
                               density |-> <<4, 5>>, continuous |-> continuous]]
      BY <2>1, SMTT(40) DEF StudySources
    <3> DEFINE run == [start |-> 4, end |-> 6, days |-> 2, adv |-> floor, tier |-> <<6, 1>>,
                       density |-> <<4, 5>>, continuous |-> continuous]
    <3>2. study'.venue = venue /\ study'.symbols = symbols /\ study'.run = run BY <3>1
    <3>3. run.start \in Int /\ run.end \in Int /\ run.days \in Int OBVIOUS
    <3> HIDE DEF run
    <3>4. venue \in [{"a", "b"} -> Providers] BY ListingsAreProviders
    <3>5. symbols \in Seq({"a", "b"})
      <4>1. <<"a", "b">> \in Seq({"a", "b"}) OBVIOUS
      <4>2. <<"b", "a", "b">> \in Seq({"a", "b"}) OBVIOUS
      <4> QED BY <4>1, <4>2
    <3>6. PreparedFromThePast(Prepare(venue, symbols, run),
                              Prepare(Past(venue, run.start), symbols, run), symbols, run)
      BY <3>3, <3>4, <3>5, EveryScreenIsBlind
    <3>7. ScreensAreBlind' <=>
            (study'.of = "sources" =>
               PreparedFromThePast(Prepare(study'.venue, study'.symbols, study'.run),
                                   Prepare(Past(study'.venue, study'.run.start), study'.symbols, study'.run),
                                   study'.symbols, study'.run))
      BY DEF ScreensAreBlind, Past
    <3> QED BY <3>2, <3>6, <3>7
  <2>2. CASE ~StudySources /\ study' # study
    <3>1. study'.of # "sources"
      <4>1. Study BY <1>2, <2>2 DEF Next
      <4>2. CASE StudyRecords BY <4>2 DEF StudyRecords
      <4>3. CASE StudySweep \/ StudyFolds BY <4>3, SearchesAreApart
      <4>4. CASE StudyCosts BY <4>4 DEF StudyCosts
      <4>5. CASE StudySplit BY <4>5 DEF StudySplit
      <4>6. CASE StudyCurve BY <4>6 DEF StudyCurve
      <4>7. CASE StudyRun BY <4>7 DEF StudyRun
      <4>8. CASE StudyPair BY <4>8 DEF StudyPair
      <4>9. CASE StudySignificance BY <4>9 DEF StudySignificance
      <4> QED BY <2>2, <4>1, <4>2, <4>3, <4>4, <4>5, <4>6, <4>7, <4>8, <4>9 DEF Study
    <3> QED BY <3>1 DEF ScreensAreBlind
  <2>3. CASE study' = study BY <1>2, <2>3 DEF ScreensAreBlind
  <2> QED BY <2>1, <2>2, <2>3
<1> QED BY <1>1, <1>2, PTL DEF Spec

(* A series that reaches a run is one its source vouches for: each study of a  *)
(* record is an instance of one of the theorems above (_verify_splits_applied, *)
(* the adapters' get_bars, members_as_of, validate_universe).                  *)
THEOREM SeriesStayVouchedFor == Spec => []SeriesAreVouchedFor
<1>1. Init => SeriesAreVouchedFor
  <2> SUFFICES ASSUME study = [of |-> "none"] PROVE SeriesAreVouchedFor BY DEF Init
  <2>1. study.of = "none" OBVIOUS
  <2> QED BY <2>1 DEF SeriesAreVouchedFor
<1>2. ASSUME SeriesAreVouchedFor, [Next]_<<study, strategy, book>> PROVE SeriesAreVouchedFor'
  <2>1. CASE StudySplit
    <3>1. PICK days \in {{1, 2, 3, 4}, {1, 3}, {3, 4}}, v \in [1 .. 4 -> {4, 8}], day \in 2 .. 4,
               ratio \in {<<2, 1>>, <<1, 2>>, <<5, 4>>}, answers \in [{"up", "raw", "splits"} -> BOOLEAN],
               applied \in BOOLEAN, gap \in {0, 3} :
            study' = [of |-> "split", split |-> [day |-> day, ratio |-> ratio], applied |-> applied,
                      p |-> Listing(days, v, [day |-> day, ratio |-> ratio], applied, answers["up"],
                                    answers["raw"], answers["splits"], gap)]
      BY <2>1 DEF StudySplit
    <3> DEFINE split == [day |-> day, ratio |-> ratio]
               up == answers["up"]
               raw == answers["raw"]
               splits == answers["splits"]
               p == Listing(days, v, split, applied, up, raw, splits, gap)
    <3>2. /\ study'.of = "split" /\ study'.split = split /\ study'.applied = applied /\ study'.p = p
      BY <3>1
    <3>3. days \subseteq 1 .. 4 OBVIOUS
    <3>4. IsFiniteSet(days) /\ days \in SUBSET Int
      <4>1. IsFiniteSet(1 .. 4)
        <5>1. 4 \in Nat OBVIOUS
        <5> QED BY <5>1, UpTo
      <4>2. IsFiniteSet(days) BY <3>3, <4>1, FS_Subset
      <4>3. days \in SUBSET Int BY <3>3
      <4> QED BY <4>2, <4>3
    <3>5. \A t \in days : v[t] \in {4, 8} BY <3>3
    <3>6. \A t \in days : v[t] \in Nat \ {0} BY <3>5
    <3>7. split.ratio = <<2, 1>> \/ split.ratio = <<1, 2>> \/ split.ratio = <<5, 4>> OBVIOUS
    <3>8. split \in StockSplits
      <4>1. ratio \in Nat \X Nat OBVIOUS
      <4> QED BY <4>1 DEF StockSplits
    <3>9. split.ratio[1] > 0 /\ split.ratio[2] > 0 BY <3>7
    <3>10. \A t \in days : (v[t] * split.ratio[1]) % split.ratio[2] = 0
      <4> SUFFICES ASSUME NEW t \in days PROVE (v[t] * split.ratio[1]) % split.ratio[2] = 0 OBVIOUS
      <4>1. v[t] = 4 \/ v[t] = 8 BY <3>5
      <4> QED BY <3>7, <4>1
    <3>11. up \in BOOLEAN /\ raw \in BOOLEAN /\ splits \in BOOLEAN OBVIOUS
    <3> HIDE DEF split, up, raw, splits
    <3>12. \A from, to \in Int : SplitIsCaught(p, split, applied, from, to)
      BY <3>4, <3>6, <3>8, <3>9, <3>10, <3>11, EverySplitIsCaught
    <3> HIDE DEF p
    <3>13. \A from \in 1 .. 2, to \in 3 .. 4 : SplitIsCaught(p, split, applied, from, to) BY <3>12
    <3> QED BY <3>2, <3>13 DEF SeriesAreVouchedFor
  <2>2. CASE StudyRecords
    <3>1. CASE \E n \in 1 .. 3 : \E answers \in [1 .. n -> [refused : BOOLEAN, bars : {<<>>, <<1>>, <<2>>}]] :
                 study' = [of |-> "cache", answers |-> answers]
      <4> DEFINE B == {<<>>, <<1>>, <<2>>}
      <4>1. PICK n \in 1 .. 3 : \E answers \in [1 .. n -> Answered(B)] :
                   study' = [of |-> "cache", answers |-> answers]
        BY <3>1 DEF Answered
      <4>2. PICK answers \in [1 .. n -> Answered(B)] : study' = [of |-> "cache", answers |-> answers] BY <4>1
      <4> HIDE DEF B
      <4>3. answers \in Seq(Answered(B)) BY <4>2
      <4>4. RefusalIsNotAbsence(answers) BY <4>3, NoRefusalIsAbsence
      <4>5. study'.of = "cache" /\ study'.answers = answers BY <4>2
      <4> QED BY <4>4, <4>5 DEF SeriesAreVouchedFor
    <3>2. CASE \E n \in 1 .. 3 : \E days \in [1 .. n -> 1 .. 3],
                 sets \in [1 .. n -> [added : SUBSET {"a", "b"}, removed : {{}, {"a"}}]] :
                 study' = [of |-> "index",
                           changes |-> [i \in 1 .. n |-> [day |-> days[i], added |-> sets[i].added,
                                                         removed |-> sets[i].removed]]]
      <4>7. PICK n \in 1 .. 3 : \E days \in [1 .. n -> 1 .. 3],
                 sets \in [1 .. n -> [added : SUBSET {"a", "b"}, removed : {{}, {"a"}}]] :
                 study' = [of |-> "index",
                           changes |-> [i \in 1 .. n |-> [day |-> days[i], added |-> sets[i].added,
                                                         removed |-> sets[i].removed]]]
        BY <3>2
      <4>1. PICK days \in [1 .. n -> 1 .. 3],
                 sets \in [1 .. n -> [added : SUBSET {"a", "b"}, removed : {{}, {"a"}}]] :
                 study' = [of |-> "index",
                           changes |-> [i \in 1 .. n |-> [day |-> days[i], added |-> sets[i].added,
                                                         removed |-> sets[i].removed]]]
        BY <4>7
      <4> DEFINE changes == [i \in 1 .. n |-> [day |-> days[i], added |-> sets[i].added,
                                              removed |-> sets[i].removed]]
                 X == {"a", "b"}
      <4>2. \A i \in 1 .. n : changes[i] \in Changes(X)
        <5> SUFFICES ASSUME NEW i \in 1 .. n PROVE changes[i] \in Changes(X) OBVIOUS
        <5>1. days[i] \in Int /\ sets[i].added \in SUBSET X /\ sets[i].removed \in {{}, {"a"}} OBVIOUS
        <5>2. sets[i].removed \in SUBSET X BY <5>1
        <5> QED BY <5>1, <5>2 DEF Changes
      <4>3. study'.of = "index" /\ study'.changes = changes BY <4>1
      <4>6. changes \in [1 .. n -> Changes(X)] BY <4>2
      <4> HIDE DEF changes, X
      <4>4. changes \in Seq(Changes(X)) BY <4>6
      <4>5. \A day \in 0 .. 4 : MembershipIsTheReplay(changes, day) BY <4>4, EveryMembershipIsItsReplay
      <4> QED BY <4>3, <4>5 DEF SeriesAreVouchedFor
    <3>3. CASE \E symbols \in {<<"a", "b">>, <<"b", "a", "b">>, <<"a", "a">>},
                 asset \in [{"a", "b"} -> [answers : BOOLEAN, tradable : BOOLEAN, fractionable : BOOLEAN]] :
                 study' = [of |-> "universe", symbols |-> symbols, asset |-> asset]
      <4>1. PICK symbols \in {<<"a", "b">>, <<"b", "a", "b">>, <<"a", "a">>}, asset \in [{"a", "b"} -> Assets] :
                 study' = [of |-> "universe", symbols |-> symbols, asset |-> asset]
        BY <3>3 DEF Assets
      <4>2. symbols \in Seq({"a", "b"})
        <5>1. <<"a", "b">> \in Seq({"a", "b"}) OBVIOUS
        <5>2. <<"b", "a", "b">> \in Seq({"a", "b"}) OBVIOUS
        <5>3. <<"a", "a">> \in Seq({"a", "b"}) OBVIOUS
        <5> QED BY <5>1, <5>2, <5>3
      <4>3. UniverseIsJudged(symbols, asset) BY <4>2, EveryUniverseIsJudged
      <4>4. study'.of = "universe" /\ study'.symbols = symbols /\ study'.asset = asset BY <4>1
      <4> QED BY <4>3, <4>4 DEF SeriesAreVouchedFor
    <3>4. CASE \E n \in 0 .. 3 : \E rows \in [1 .. n -> [ts : 1 .. 3, wellFormed : BOOLEAN]] :
                 study' = [of |-> "file", rows |-> rows]
      <4>1. PICK n \in 0 .. 3 : \E rows \in [1 .. n -> [ts : 1 .. 3, wellFormed : BOOLEAN]] :
                 study' = [of |-> "file", rows |-> rows]
        BY <3>4
      <4>2. PICK rows \in [1 .. n -> [ts : 1 .. 3, wellFormed : BOOLEAN]] :
                 study' = [of |-> "file", rows |-> rows]
        BY <4>1
      <4>3. \A i \in 1 .. n : rows[i] \in Rows
        <5>1. \A i \in 1 .. n : rows[i] \in [ts : 1 .. 3, wellFormed : BOOLEAN] BY <4>2
        <5> QED BY <5>1 DEF Rows
      <4>6. rows \in [1 .. n -> Rows] BY <4>2, <4>3
      <4>4. rows \in Seq(Rows) BY <4>6
      <4>5. FileIsServedWhole(rows, 1, 2) BY <4>4, EveryFileIsServedWhole
      <4>7. study'.of = "file" /\ study'.rows = rows BY <4>2
      <4> QED BY <4>5, <4>7 DEF SeriesAreVouchedFor
    <3> QED BY <2>2, <3>1, <3>2, <3>3, <3>4 DEF StudyRecords
  <2>3. CASE ~StudySplit /\ ~StudyRecords /\ study' # study
    <3>1. study'.of \in {"sweep", "folds", "costs", "curve", "run", "pair", "significance", "sources"}
      <4>1. Study BY <1>2, <2>3 DEF Next
      <4>2. CASE StudySources BY <4>2 DEF StudySources
      <4>3. CASE StudySweep \/ StudyFolds BY <4>3, SearchesAreApart
      <4>4. CASE StudyCosts BY <4>4 DEF StudyCosts
      <4>6. CASE StudyCurve BY <4>6 DEF StudyCurve
      <4>7. CASE StudyRun BY <4>7 DEF StudyRun
      <4>8. CASE StudyPair BY <4>8 DEF StudyPair
      <4>9. CASE StudySignificance BY <4>9 DEF StudySignificance
      <4> QED BY <2>3, <4>1, <4>2, <4>3, <4>4, <4>6, <4>7, <4>8, <4>9 DEF Study
    <3> QED BY <3>1 DEF SeriesAreVouchedFor
  <2>4. CASE study' = study BY <1>2, <2>4 DEF SeriesAreVouchedFor
  <2> QED BY <2>1, <2>2, <2>3, <2>4
<1> QED BY <1>1, <1>2, PTL DEF Spec

-----------------------------------------------------------------------------
(* Metrics *)

(* What a fold from the left is the last value of: one that starts at a base and *)
(* is carried from each element of a sequence to the next.                     *)
Carries(w, n, base, F, g) ==
  /\ g[{}] = base
  /\ \A T \in SUBSET (1 .. n) : T # {} => g[T] = F[<<g[T \ {Max(T)}], w[Max(T)]>>]

LEMMA CarryExists ==
  ASSUME NEW n \in Nat, NEW X, NEW w, \A i \in 1 .. n : w[i] \in X,
         NEW V, NEW base \in V, NEW F \in [V \X X -> V]
  PROVE  \E g \in [SUBSET (1 .. n) -> V] : Carries(w, n, base, F, g)
<1> DEFINE S == 1 .. n
           c == [T \in SUBSET S |-> Max(T)]
           G == [p \in S \X V |-> F[<<p[2], w[p[1]]>>]]
<1>1. IsFiniteSet(S) /\ S \in SUBSET Int BY UpTo
<1>2. G \in [S \X V -> V]
  <2>1. ASSUME NEW p \in S \X V PROVE F[<<p[2], w[p[1]]>>] \in V
    <3>1. <<p[2], w[p[1]]>> \in V \X X BY <2>1
    <3> QED BY <3>1
  <2> HIDE DEF S
  <2> QED BY <2>1
<1>3. \A T \in SUBSET S : T # {} => c[T] = Max(T) /\ c[T] \in T
  <2> SUFFICES ASSUME NEW T \in SUBSET S, T # {} PROVE Max(T) \in T OBVIOUS
  <2>1. T \in SUBSET Int /\ IsFiniteSet(T) BY <1>1, FS_Subset
  <2> QED BY <2>1, MaxExists
<1>4. \A x \in S, v \in V : G[<<x, v>>] = F[<<v, w[x]>>] OBVIOUS
<1> HIDE DEF c, G, S
<1>5. PICK g \in [SUBSET S -> V] : Recursion(S, base, c, G, g)
  BY <1>1, <1>2, <1>3, RecursionExists
<1>6. g[{}] = base BY <1>5 DEF Recursion
<1>7. ASSUME NEW T \in SUBSET S, T # {} PROVE g[T] = F[<<g[T \ {Max(T)}], w[Max(T)]>>]
  <2>1. g[T] = G[<<c[T], g[T \ {c[T]}]>>] BY <1>5, <1>7 DEF Recursion
  <2>2. c[T] \in S /\ g[T \ {c[T]}] \in V BY <1>3, <1>5, <1>7
  <2> QED BY <1>3, <1>4, <1>7, <2>1, <2>2
<1> QED BY <1>5, <1>6, <1>7 DEF Carries, S

(* The same, element by element.                                               *)
Carried(w, n, V, base, F, g) ==
  /\ g[{}] = base
  /\ \A T \in SUBSET (1 .. n) : T # {} /\ g[T \ {Max(T)}] \in V => g[T] = F[<<g[T \ {Max(T)}], w[Max(T)]>>]

Steps(w, n, V, base, F, st, last) ==
  /\ st \in [0 .. n -> V] /\ st[0] = base /\ st[n] = last
  /\ \A i \in 1 .. n : st[i] = F[<<st[i - 1], w[i]>>]

Stepped(w, n, V, base, F, last) == \E st : Steps(w, n, V, base, F, st, last)

LEMMA CarriedSteps ==
  ASSUME NEW n \in Nat, NEW X, NEW w, \A i \in 1 .. n : w[i] \in X,
         NEW V, NEW base \in V, NEW F \in [V \X X -> V], NEW g, Carried(w, n, V, base, F, g)
  PROVE  Stepped(w, n, V, base, F, g[1 .. n])
<1> DEFINE st == [i \in 0 .. n |-> g[1 .. i]]
           P == {i \in Nat : i <= n => g[1 .. i] \in V /\ (i # 0 => g[1 .. i] = F[<<g[1 .. i - 1], w[i]>>])}
<1>1. 0 \in P /\ g[1 .. 0] = base
  <2>1. 1 .. 0 = {} OBVIOUS
  <2>2. g[1 .. 0] = base BY <2>1 DEF Carried
  <2> QED BY <2>2
<1>2. ASSUME NEW i \in P PROVE i + 1 \in P
  <2> SUFFICES ASSUME i + 1 <= n
               PROVE  g[1 .. i + 1] \in V /\ g[1 .. i + 1] = F[<<g[1 .. (i + 1) - 1], w[i + 1]>>]
    OBVIOUS
  <2>1. i \in Nat /\ i <= n /\ i + 1 \in 1 .. n /\ (i + 1) - 1 = i OBVIOUS
  <2>2. g[1 .. i] \in V BY <2>1
  <2> DEFINE T == 1 .. i + 1
  <2>3. T \in SUBSET (1 .. n) /\ T # {} /\ i + 1 \in T /\ T \ {i + 1} = 1 .. i
    <3>1. \A x \in Int : x \in T <=> 1 <= x /\ x <= i + 1 BY <2>1
    <3>2. i + 1 \in T /\ T \subseteq Int BY <2>1, <3>1
    <3>3. T \in SUBSET (1 .. n) BY <2>1
    <3>4. \A x \in Int : x \in 1 .. i <=> 1 <= x /\ x <= i BY <2>1
    <3>5. 1 .. i \subseteq Int BY <2>1
    <3>6. ASSUME NEW x PROVE x \in T \ {i + 1} <=> x \in 1 .. i
      <4>1. CASE x \in Int
        <5>1. x <= i + 1 /\ x # i + 1 <=> x <= i BY <2>1, <4>1
        <5> HIDE DEF T
        <5> QED BY <3>1, <3>4, <4>1, <5>1
      <4>2. CASE x \notin Int BY <3>2, <3>5, <4>2
      <4> QED BY <4>1, <4>2
    <3> HIDE DEF T
    <3> QED BY <3>2, <3>3, <3>6
  <2>4. Max(T) = i + 1
    <3>1. IsFiniteSet(T) /\ T \in SUBSET Int BY <2>1, UpTo
    <3>2. Max(T) \in T /\ \A y \in T : Max(T) >= y BY <2>3, <3>1, MaxExists
    <3>3. Max(T) \in Int /\ Max(T) <= i + 1 /\ Max(T) >= i + 1 BY <2>3, <3>2
    <3> QED BY <2>1, <3>3
  <2> HIDE DEF T
  <2>5. g[T] = F[<<g[1 .. i], w[i + 1]>>] BY <2>2, <2>3, <2>4 DEF Carried
  <2>6. <<g[1 .. i], w[i + 1]>> \in V \X X BY <2>1, <2>2
  <2>7. g[T] \in V BY <2>5, <2>6
  <2> QED BY <2>1, <2>5, <2>7 DEF T
<1>3. P \in SUBSET Nat OBVIOUS
<1> HIDE DEF P
<1>4. P = Nat BY <1>1, <1>2, <1>3, SetOfNaturals
<1>5. \A i \in 0 .. n : g[1 .. i] \in V /\ (i # 0 => g[1 .. i] = F[<<g[1 .. i - 1], w[i]>>])
  <2> SUFFICES ASSUME NEW i \in 0 .. n
               PROVE  g[1 .. i] \in V /\ (i # 0 => g[1 .. i] = F[<<g[1 .. i - 1], w[i]>>])
    OBVIOUS
  <2>1. i \in P /\ i <= n BY <1>4
  <2> QED BY <2>1 DEF P
<1>6. \A i \in 0 .. n : st[i] = g[1 .. i] OBVIOUS
<1>7. st \in [0 .. n -> V] BY <1>5
<1> HIDE DEF st
<1>8. ASSUME NEW i \in 1 .. n PROVE st[i] = F[<<st[i - 1], w[i]>>]
  <2>1. i \in 0 .. n /\ i - 1 \in 0 .. n /\ i # 0 OBVIOUS
  <2> QED BY <1>5, <1>6, <2>1
<1>9. 0 \in 0 .. n /\ n \in 0 .. n OBVIOUS
<1>10. st[0] = base /\ st[n] = g[1 .. n] BY <1>1, <1>6, <1>9
<1> QED BY <1>7, <1>8, <1>10 DEF Steps, Stepped

(* Fills of one symbol.                                                        *)
Fills == [ts : Nat, side : {"BUY", "SELL"}, qty : Nat, price : Nat]

LEMMA NotionalType ==
  ASSUME NEW fills \in Seq(Fills)
  PROVE  Notional(fills) \in Nat
<1> DEFINE f == [i \in DOMAIN fills |-> fills[i].qty * fills[i].price]
<1>1. PICK n \in Nat : fills \in [1 .. n -> Fills] OBVIOUS
<1>2. IsFiniteSet(DOMAIN fills)
  <2>1. DOMAIN fills = 1 .. n BY <1>1
  <2> QED BY <2>1, UpTo
<1>3. ASSUME NEW i \in DOMAIN f PROVE f[i] \in Nat
  <2>1. fills[i] \in Fills BY <1>1
  <2>2. fills[i].qty \in Nat /\ fills[i].price \in Nat BY <2>1 DEF Fills
  <2> QED BY <1>3, <2>2
<1>4. DOMAIN f = DOMAIN fills OBVIOUS
<1>5. Notional(fills) = SumFunctionOnSet(f, DOMAIN f) BY DEF Notional, SumFunction
<1> HIDE DEF f
<1> QED BY <1>2, <1>3, <1>4, <1>5, SumNat

LEMMA Weighed ==
  ASSUME NEW fills \in Seq(Fills), NEW rate \in [DOMAIN fills -> Nat]
  PROVE  SumFunction([i \in DOMAIN fills |-> fills[i].qty * fills[i].price * rate[i]]) \in Nat
<1> DEFINE f == [i \in DOMAIN fills |-> fills[i].qty * fills[i].price * rate[i]]
<1>1. PICK n \in Nat : fills \in [1 .. n -> Fills] OBVIOUS
<1>2. IsFiniteSet(DOMAIN fills)
  <2>1. DOMAIN fills = 1 .. n BY <1>1
  <2> QED BY <2>1, UpTo
<1>3. ASSUME NEW i \in DOMAIN f PROVE f[i] \in Nat
  <2>1. fills[i] \in Fills BY <1>1
  <2>2. fills[i].qty \in Nat /\ fills[i].price \in Nat BY <2>1 DEF Fills
  <2>3. rate[i] \in Nat BY <1>3
  <2> DEFINE a == fills[i].qty
             b == fills[i].price
             k == rate[i]
  <2>4. f[i] = a * b * k BY <1>3
  <2>5. a \in Nat /\ b \in Nat /\ k \in Nat BY <2>2, <2>3
  <2> HIDE DEF a, b, k, f
  <2> QED BY <2>4, <2>5
<1>4. DOMAIN f = DOMAIN fills OBVIOUS
<1>5. SumFunction(f) = SumFunctionOnSet(f, DOMAIN f) BY DEF SumFunction
<1> HIDE DEF f
<1> QED BY <1>2, <1>3, <1>4, <1>5, SumNat DEF f

LEMMA SumOfValues ==
  ASSUME NEW v \in Seq(Int)
  PROVE  SumFunction(v) \in Int
<1>1. IsFiniteSet(DOMAIN v)
  <2>1. Len(v) \in Nat /\ DOMAIN v = 1 .. Len(v) OBVIOUS
  <2> QED BY <2>1, UpTo
<1>2. \A i \in DOMAIN v : v[i] \in Int OBVIOUS
<1>3. SumFunction(v) = SumFunctionOnSet(v, DOMAIN v) BY DEF SumFunction
<1> QED BY <1>1, <1>2, <1>3, SumType

LEMMA Reordered ==
  ASSUME NEW b \in Nat, NEW t \in Nat, NEW N \in Nat, NEW k \in Nat, NEW s \in Nat
  PROVE  b * (t * N) < k * s * 1 <=> (b * N) * t < k * s
<1>1. b * (t * N) = (b * N) * t OBVIOUS
<1>2. k * s * 1 = k * s OBVIOUS
<1> QED BY <1>1, <1>2

(* Every cost budget is a ceiling on the turnover: a run is over it exactly when *)
(* its turnover is above the implied one (assess_cost_budget).                 *)
THEOREM EveryBudgetIsItsCeiling ==
  ASSUME NEW fills \in Seq(Fills), NEW v \in Seq(Int), NEW rate \in [DOMAIN fills -> Nat],
         NEW budget \in Nat
  PROVE  BudgetIsTheCeiling(fills, v, rate, budget)
<1> DEFINE x == CostBudget(fills, v, rate, budget)
           r == EffectiveRate(fills, rate)
           t == Turnover(fills, v)
           N == Notional(fills)
           s == SumFunction([i \in DOMAIN fills |-> fills[i].qty * fills[i].price * rate[i]])
<1>1. N \in Nat BY NotionalType
<1>2. s \in Nat BY Weighed
<1>3. t[1] \in Nat /\ t[2] \in Nat
  <2>1. SumFunction(v) \in Int BY SumOfValues
  <2> HIDE DEF N
  <2>2. t = IF v = <<>> \/ SumFunction(v) <= 0 THEN <<0, 1>> ELSE <<N, SumFunction(v)>>
    BY DEF Turnover, Zero, N
  <2> HIDE DEF t
  <2> QED BY <1>1, <2>1, <2>2
<1>4. \A a, b : <<a, b>> # Absent BY DEF Absent
<1>5. r = IF N <= 0 THEN Absent ELSE <<s, N>> BY DEF EffectiveRate
<1> HIDE DEF N, s
<1>6. CASE N <= 0
  <2>1. r = Absent BY <1>5, <1>6
  <2>2. x = [turnover |-> t, implied |-> Absent, drag |-> Absent, exceeds |-> FALSE, notes |-> 1]
    BY <2>1 DEF CostBudget
  <2>3. x.exceeds = FALSE /\ x.notes = 1 /\ x.implied = Absent BY <2>2
  <2> HIDE DEF x
  <2>4. ~x.exceeds /\ x.notes = 1 /\ x.implied = Absent BY <2>3
  <2> QED BY <2>4 DEF BudgetIsTheCeiling, x
<1>7. CASE ~(N <= 0)
  <2>1. r # Absent /\ r[1] = s /\ r[2] = N BY <1>4, <1>5, <1>7
  <2> DEFINE over == budget * (t[2] * N) < t[1] * s * 1
  <2> HIDE DEF r, t
  <2>2. x = [turnover |-> t,
             implied |-> IF r[1] > 0 THEN <<budget * r[2], r[1]>> ELSE Absent,
             drag |-> <<t[1] * r[1], t[2] * r[2]>>,
             exceeds |-> Less(<<budget, 1>>, <<t[1] * r[1], t[2] * r[2]>>),
             notes |-> IF r[1] > 0 THEN 0 ELSE 1]
    BY <2>1 DEF CostBudget, r, t
  <2>3. /\ x.turnover = t /\ x.drag = <<t[1] * s, t[2] * N>>
        /\ x.implied = IF s > 0 THEN <<budget * N, s>> ELSE Absent
        /\ x.exceeds = Less(<<budget, 1>>, <<t[1] * s, t[2] * N>>)
    BY <2>1, <2>2
  <2> HIDE DEF x
  <2>4. Less(<<budget, 1>>, <<t[1] * s, t[2] * N>>) <=> over BY DEF Less
  <2>5. Less(<<budget * N, s>>, t) <=> (budget * N) * t[2] < t[1] * s BY DEF Less
  <2>6. over <=> (budget * N) * t[2] < t[1] * s BY <1>1, <1>2, <1>3, Reordered
  <2>7. x.drag # Absent BY <1>4, <2>3
  <2>8. x.exceeds <=> over BY <2>3, <2>4
  <2>9. x.exceeds \in BOOLEAN BY <2>3 DEF Less
  <2>12. Less(<<budget * N, s>>, t) \in BOOLEAN BY DEF Less
  <2>10. x.implied # Absent => x.exceeds = Less(x.implied, x.turnover)
    <3> SUFFICES ASSUME x.implied # Absent PROVE x.exceeds = Less(x.implied, x.turnover) OBVIOUS
    <3>1. x.implied = <<budget * N, s>> /\ x.turnover = t BY <2>3
    <3>2. x.exceeds <=> Less(<<budget * N, s>>, t) BY <2>5, <2>6, <2>8
    <3>3. x.exceeds = Less(<<budget * N, s>>, t) BY <2>9, <2>12, <3>2
    <3> QED BY <3>1, <3>3
  <2>11. x.exceeds => x.implied # Absent
    <3> SUFFICES ASSUME x.exceeds, ~(s > 0) PROVE FALSE BY <1>4, <2>3
    <3>1. s = 0 BY <1>2
    <3>2. t[1] * s * 1 = 0 BY <1>3, <3>1
    <3>3. budget * (t[2] * N) \in Nat BY <1>1, <1>3
    <3>4. over BY <2>8
    <3> QED BY <3>2, <3>3, <3>4
  <2> QED BY <2>7, <2>10, <2>11 DEF BudgetIsTheCeiling, x
<1> QED BY <1>6, <1>7, <1>1

(* A step of the scan of a drawdown, and the scan.                             *)
Positive == Nat \ {0}
Ratios == Nat \X Positive
Scans == [peak : Positive, worst : Ratios]

Scan(a, x) ==
  LET peak == IF x > a.peak THEN x ELSE a.peak
  IN [peak |-> peak, worst |-> IF Less(a.worst, <<peak - x, peak>>)
                               THEN <<peak - x, peak>> ELSE a.worst]

ScanOf(w, base) == FoldLeft(LAMBDA a, x : Scan(a, x), base, w)

Scanned(w, base, g) ==
  g = [T \in SUBSET (DOMAIN w) |-> IF T = {} THEN base ELSE Scan(g[T \ {Max(T)}], w[Max(T)])]

LEMMA DrawdownIs ==
  ASSUME NEW path
  PROVE  MaxDrawdown(path) = Lowest(ScanOf(path, [peak |-> Head(path), worst |-> Zero]).worst)
BY DEF MaxDrawdown, ScanOf, Scan

LEMMA ScannedDef == ASSUME NEW w, NEW base PROVE ScanOf(w, base) = (CHOOSE g : Scanned(w, base, g))[DOMAIN w]
BY DEF ScanOf, FoldLeft, MapThenFoldSet, Scanned

Scanning == [p \in Scans \X Positive |-> Scan(p[1], p[2])]

LEMMA ScanType ==
  ASSUME NEW a \in Scans, NEW x \in Positive
  PROVE  Scan(a, x) \in Scans
<1> DEFINE peak == IF x > a.peak THEN x ELSE a.peak
<1>1. x \in Positive /\ a.peak \in Positive /\ a.worst \in Ratios BY DEF Scans
<1>2. peak \in Positive /\ peak - x \in Nat BY <1>1 DEF Positive
<1>3. <<peak - x, peak>> \in Ratios BY <1>2 DEF Ratios
<1>4. Scan(a, x) = [peak |-> peak, worst |-> IF Less(a.worst, <<peak - x, peak>>)
                                             THEN <<peak - x, peak>> ELSE a.worst]
  BY DEF Scan
<1> HIDE DEF peak
<1> QED BY <1>1, <1>2, <1>3, <1>4 DEF Scans

LEMMA ScanSteps ==
  ASSUME NEW n \in Nat, NEW w, DOMAIN w = 1 .. n, \A i \in 1 .. n : w[i] \in Positive,
         NEW base \in Scans
  PROVE  Stepped(w, n, Scans, base, Scanning, ScanOf(w, base))
<1>1. Scanning \in [Scans \X Positive -> Scans]
  <2>1. ASSUME NEW p \in Scans \X Positive PROVE Scan(p[1], p[2]) \in Scans
    <3>1. p[1] \in Scans /\ p[2] \in Positive OBVIOUS
    <3> QED BY <3>1, ScanType
  <2> QED BY <2>1 DEF Scanning
<1>2. \A v \in Scans, x \in Positive : Scanning[<<v, x>>] = Scan(v, x) BY DEF Scanning
<1>3. PICK h \in [SUBSET (1 .. n) -> Scans] : Carries(w, n, base, Scanning, h)
  BY <1>1, CarryExists
<1>4. \A T \in SUBSET (1 .. n) : T # {} => Max(T) \in T
  <2> SUFFICES ASSUME NEW T \in SUBSET (1 .. n), T # {} PROVE Max(T) \in T OBVIOUS
  <2>1. IsFiniteSet(1 .. n) BY UpTo
  <2>2. IsFiniteSet(T) BY <2>1, FS_Subset
  <2>3. T \in SUBSET Int OBVIOUS
  <2> QED BY <2>2, <2>3, MaxExists
<1>5. Scanned(w, base, h)
  <2>1. ASSUME NEW T \in SUBSET (1 .. n)
        PROVE  h[T] = IF T = {} THEN base ELSE Scan(h[T \ {Max(T)}], w[Max(T)])
    <3>1. CASE T = {} BY <1>3, <3>1 DEF Carries
    <3>2. CASE T # {}
      <4>1. h[T] = Scanning[<<h[T \ {Max(T)}], w[Max(T)]>>] BY <1>3, <3>2 DEF Carries
      <4>2. Max(T) \in 1 .. n /\ h[T \ {Max(T)}] \in Scans BY <1>3, <1>4, <3>2
      <4>3. w[Max(T)] \in Positive BY <4>2
      <4> QED BY <1>2, <3>2, <4>1, <4>2, <4>3
    <3> QED BY <3>1, <3>2
  <2>2. h = [T \in SUBSET (1 .. n) |-> h[T]] BY <1>3
  <2> QED BY <2>1, <2>2 DEF Scanned
<1> DEFINE g == CHOOSE k : Scanned(w, base, k)
<1>6. Scanned(w, base, g) BY <1>5
<1>7. ScanOf(w, base) = g[1 .. n] BY ScannedDef
<1> HIDE DEF g
<1>8. Carried(w, n, Scans, base, Scanning, g)
  <2>1. g[{}] = base BY <1>6 DEF Scanned
  <2>2. ASSUME NEW T \in SUBSET (1 .. n), T # {}, g[T \ {Max(T)}] \in Scans
        PROVE  g[T] = Scanning[<<g[T \ {Max(T)}], w[Max(T)]>>]
    <3>1. g[T] = Scan(g[T \ {Max(T)}], w[Max(T)]) BY <1>6, <2>2 DEF Scanned
    <3>2. Max(T) \in 1 .. n BY <1>4, <2>2
    <3>3. w[Max(T)] \in Positive BY <3>2
    <3> QED BY <1>2, <2>2, <3>1, <3>3
  <2> QED BY <2>1, <2>2 DEF Carried
<1>9. Stepped(w, n, Scans, base, Scanning, g[1 .. n]) BY <1>1, <1>8, CarriedSteps
<1> QED BY <1>7, <1>9

(* Ratios are ordered, and a ratio is in the order of any equal to it.         *)
Quotients == Int \X Positive

LEMMA OrderIsTransitive ==
  ASSUME NEW p \in Quotients, NEW q \in Quotients, NEW r \in Quotients, ~Less(p, q), ~Less(q, r)
  PROVE  ~Less(p, r)
<1> DEFINE a == p[1]
           b == p[2]
           c == q[1]
           d == q[2]
           e == r[1]
           f == r[2]
<1>1. a \in Int /\ c \in Int /\ e \in Int /\ b \in Nat \ {0} /\ d \in Nat \ {0} /\ f \in Nat \ {0}
  BY DEF Quotients, Positive
<1>2. ~(a * d < c * b) /\ ~(c * f < e * d) BY DEF Less
<1> HIDE DEF a, b, c, d, e, f
<1>3. ASSUME a * f < e * b PROVE FALSE
  <2>1. (a * f) * d < (e * b) * d BY <1>1, <1>3
  <2>2. (c * b) * f <= (a * d) * f BY <1>1, <1>2
  <2>3. (e * d) * b <= (c * f) * b BY <1>1, <1>2
  <2>4. (a * f) * d = (a * d) * f /\ (e * b) * d = (e * d) * b /\ (c * b) * f = (c * f) * b BY <1>1
  <2>5. (a * d) * f \in Int /\ (e * d) * b \in Int /\ (c * f) * b \in Int BY <1>1
  <2> QED BY <2>1, <2>2, <2>3, <2>4, <2>5
<1> QED BY <1>3 DEF Less, a, b, e, f

(* After each bar of a path the scan holds its peak so far, and the deepest of   *)
(* its falls so far.                                                           *)
FallTo(v, i, f) == \E j, k \in 1 .. i : j <= k /\ Same(f, <<v[j] - v[k], v[j]>>)

ScansTo(v, i, a) ==
  /\ \E j \in 1 .. i : a.peak = v[j]
  /\ \A j \in 1 .. i : v[j] <= a.peak
  /\ FallTo(v, i, a.worst)
  /\ \A j, k \in 1 .. i : j <= k => ~Less(a.worst, <<v[j] - v[k], v[j]>>)

LEMMA SameIsNotLess ==
  ASSUME NEW p \in Ratios PROVE Same(p, p) /\ ~Less(p, p)
<1>1. p[1] * p[2] \in Nat BY DEF Ratios, Positive
<1> QED BY <1>1 DEF Same, Less

(* A fall to the same bar from a higher peak is no shallower.                  *)
LEMMA HigherPeakIsDeeper ==
  ASSUME NEW h \in Positive, NEW l \in Positive, NEW x \in Positive, l <= h
  PROVE  ~Less(<<h - x, h>>, <<l - x, l>>)
<1>1. (h - x) * l = h * l - x * l /\ (l - x) * h = h * l - x * h BY DEF Positive
<1>2. x * l <= x * h BY DEF Positive
<1>3. ~((h - x) * l < (l - x) * h)
  <2>1. h * l \in Int /\ x * l \in Int /\ x * h \in Int BY DEF Positive
  <2> QED BY <1>1, <1>2, <2>1
<1> QED BY <1>3 DEF Less

LEMMA ScanGoesOn ==
  ASSUME NEW n \in Nat, NEW v, \A i \in 1 .. n : v[i] \in Positive,
         NEW i \in 1 .. n, i + 1 \in 1 .. n, NEW a \in Scans, ScansTo(v, i, a)
  PROVE  ScansTo(v, i + 1, Scan(a, v[i + 1]))
<1> DEFINE x == v[i + 1]
           peak == IF x > a.peak THEN x ELSE a.peak
           fall == <<peak - x, peak>>
           b == Scan(a, x)
<1>1. x \in Positive /\ a.peak \in Positive /\ a.worst \in Ratios BY DEF Scans
<1>2. peak \in Positive /\ peak - x \in Nat /\ x <= peak /\ a.peak <= peak BY <1>1 DEF Positive
<1>3. fall \in Ratios BY <1>2 DEF Ratios
<1>4. b = [peak |-> peak, worst |-> IF Less(a.worst, fall) THEN fall ELSE a.worst] BY DEF Scan
<1>5. b.peak = peak /\ b.worst = IF Less(a.worst, fall) THEN fall ELSE a.worst BY <1>4
<1>6. i \in Nat /\ i >= 1 /\ i + 1 \in 1 .. i + 1 /\ 1 .. i \subseteq 1 .. i + 1
  OBVIOUS
<1>7. \A j \in 1 .. i + 1 : j \in 1 .. i \/ j = i + 1 BY <1>6
<1>15. \A j \in 1 .. i + 1 : j \in 1 .. n BY <1>6
<1>16. fall \in Quotients /\ a.worst \in Quotients BY <1>1, <1>3 DEF Quotients, Ratios
<1>8. \E j \in 1 .. i + 1 : peak = v[j]
  <2>1. PICK j \in 1 .. i : a.peak = v[j] BY DEF ScansTo
  <2>2. CASE x > a.peak BY <1>6, <2>2
  <2>3. CASE ~(x > a.peak) BY <1>6, <2>1, <2>3
  <2> QED BY <2>2, <2>3
<1> HIDE DEF b, peak
<1>9. ASSUME NEW j \in 1 .. i + 1 PROVE v[j] <= peak
  <2>1. CASE j = i + 1 BY <1>2, <2>1
  <2>2. CASE j \in 1 .. i
    <3>1. v[j] <= a.peak BY <2>2 DEF ScansTo
    <3>2. v[j] \in Positive BY <1>15
    <3> QED BY <1>1, <1>2, <3>1, <3>2 DEF Positive
  <2> QED BY <1>7, <2>1, <2>2
<1>10. b.worst \in Ratios /\ ~Less(b.worst, fall) /\ ~Less(b.worst, a.worst)
  <2>1. CASE Less(a.worst, fall)
    <3>1. b.worst = fall BY <1>5, <2>1
    <3>2. ~Less(fall, fall) BY <1>3, SameIsNotLess
    <3>3. ~Less(fall, a.worst)
      <4>1. ~Less(a.worst, a.worst) BY <1>1, SameIsNotLess
      <4> DEFINE p == fall[1]
                 q == fall[2]
                 r == a.worst[1]
                 s == a.worst[2]
      <4>2. p \in Nat /\ q \in Nat /\ r \in Nat /\ s \in Nat BY <1>1, <1>3 DEF Ratios, Positive
      <4>3. r * q < p * s BY <2>1 DEF Less
      <4> HIDE DEF p, q, r, s
      <4>4. p * s \in Int /\ r * q \in Int BY <4>2
      <4>5. ~(p * s < r * q) BY <4>3, <4>4
      <4> QED BY <4>5 DEF Less, p, q, r, s
    <3> QED BY <1>3, <3>1, <3>2, <3>3
  <2>2. CASE ~Less(a.worst, fall)
    <3>1. b.worst = a.worst BY <1>5, <2>2
    <3> QED BY <1>1, <2>2, <3>1, SameIsNotLess
  <2> QED BY <2>1, <2>2
<1>11. FallTo(v, i + 1, b.worst)
  <2>1. CASE Less(a.worst, fall)
    <3>1. b.worst = fall BY <1>5, <2>1
    <3>2. PICK j \in 1 .. i + 1 : peak = v[j] BY <1>8
    <3>3. j <= i + 1 BY <1>6
    <3>5. fall = <<v[j] - v[i + 1], v[j]>> BY <3>2
    <3>6. Same(fall, fall) BY <1>3, SameIsNotLess
    <3>4. Same(fall, <<v[j] - v[i + 1], v[j]>>) BY <3>5, <3>6
    <3> QED BY <1>6, <3>1, <3>3, <3>4 DEF FallTo
  <2>2. CASE ~Less(a.worst, fall)
    <3>1. b.worst = a.worst BY <1>5, <2>2
    <3>2. PICK j, k \in 1 .. i : j <= k /\ Same(a.worst, <<v[j] - v[k], v[j]>>) BY DEF ScansTo, FallTo
    <3>3. j \in 1 .. i + 1 /\ k \in 1 .. i + 1 BY <1>6
    <3> QED BY <3>1, <3>2, <3>3 DEF FallTo
  <2> QED BY <2>1, <2>2
<1>12. ASSUME NEW j \in 1 .. i + 1, NEW k \in 1 .. i + 1, j <= k
       PROVE  ~Less(b.worst, <<v[j] - v[k], v[j]>>)
  <2> DEFINE f == <<v[j] - v[k], v[j]>>
  <2>1. v[j] \in Positive /\ v[k] \in Positive BY <1>15
  <2>4. f \in Quotients /\ b.worst \in Quotients
    <3>1. v[j] - v[k] \in Int BY <2>1 DEF Positive
    <3>2. f \in Quotients BY <2>1, <3>1 DEF Quotients
    <3> QED BY <1>10, <3>2 DEF Quotients, Ratios
  <2>2. CASE k = i + 1
    <3>1. f = <<v[j] - x, v[j]>> BY <2>2
    <3>2. v[j] <= peak BY <1>9
    <3>3. ~Less(fall, f) BY <1>1, <1>2, <2>1, <3>1, <3>2, HigherPeakIsDeeper
    <3> QED BY <1>10, <1>16, <2>4, <3>3, OrderIsTransitive
  <2>3. CASE k \in 1 .. i
    <3>1. j \in 1 .. i BY <1>6, <1>12, <2>3
    <3>2. ~Less(a.worst, f) BY <1>12, <2>3, <3>1 DEF ScansTo
    <3> QED BY <1>10, <1>16, <2>4, <3>2, OrderIsTransitive
  <2> QED BY <1>7, <2>2, <2>3
<1>13. ScansTo(v, i + 1, b) BY <1>5, <1>8, <1>9, <1>11, <1>12 DEF ScansTo
<1> QED BY <1>13 DEF b

(* The whole scan.                                                             *)
LEMMA ScanIsDeepest ==
  ASSUME NEW n \in Positive, NEW v, DOMAIN v = 1 .. n, \A i \in 1 .. n : v[i] \in Positive
  PROVE  LET a == ScanOf(v, [peak |-> v[1], worst |-> Zero]) IN a \in Scans /\ ScansTo(v, n, a)
<1> DEFINE base == [peak |-> v[1], worst |-> Zero]
           a == ScanOf(v, base)
<1>1. n \in Nat /\ 1 \in 1 .. n BY DEF Positive
<1>2. base \in Scans
  <2>1. v[1] \in Positive BY <1>1
  <2>2. Zero \in Ratios BY DEF Zero, Ratios, Positive
  <2> QED BY <2>1, <2>2 DEF Scans
<1>3. base.peak = v[1] /\ base.worst = Zero OBVIOUS
<1> HIDE DEF base
<1>4. Stepped(v, n, Scans, base, Scanning, a) BY <1>1, <1>2, ScanSteps
<1>5. PICK st : Steps(v, n, Scans, base, Scanning, st, a) BY <1>4 DEF Stepped
<1> HIDE DEF a
<1>6. /\ st \in [0 .. n -> Scans] /\ st[0] = base /\ st[n] = a
      /\ \A i \in 1 .. n : st[i] = Scanning[<<st[i - 1], v[i]>>]
  BY <1>5 DEF Steps
<1>7. \A i \in 1 .. n : st[i - 1] \in Scans /\ st[i] = Scan(st[i - 1], v[i])
  <2> SUFFICES ASSUME NEW i \in 1 .. n PROVE st[i - 1] \in Scans /\ st[i] = Scan(st[i - 1], v[i])
    OBVIOUS
  <2>1. i - 1 \in 0 .. n BY <1>1
  <2>2. st[i - 1] \in Scans /\ v[i] \in Positive BY <1>6, <2>1
  <2>3. Scanning[<<st[i - 1], v[i]>>] = Scan(st[i - 1], v[i]) BY <2>2 DEF Scanning
  <2> QED BY <1>6, <2>2, <2>3
<1>8. ScansTo(v, 1, st[1])
  <2>1. st[1] = Scan(base, v[1]) BY <1>1, <1>6, <1>7
  <2>2. v[1] \in Positive BY <1>1
  <2>3. ~(v[1] > v[1]) /\ v[1] - v[1] = 0 BY <2>2 DEF Positive
  <2>4. ~(v[1] > base.peak) BY <1>3, <2>3
  <2>5. ~Less(Zero, <<0, v[1]>>) /\ Same(Zero, <<0, v[1]>>) BY <2>2 DEF Less, Same, Zero, Positive
  <2>6. st[1] = [peak |-> v[1], worst |-> Zero] BY <1>3, <2>1, <2>3, <2>4, <2>5 DEF Scan
  <2>7. st[1].peak = v[1] /\ st[1].worst = Zero BY <2>6
  <2>8. 1 .. 1 = {1} OBVIOUS
  <2>9. v[1] <= v[1] BY <2>2 DEF Positive
  <2>10. \A j, k \in 1 .. 1 : v[j] <= v[1] /\ <<v[j] - v[k], v[j]>> = <<0, v[1]>> BY <2>3, <2>8, <2>9
  <2>11. FallTo(v, 1, Zero)
    <3>1. 1 \in 1 .. 1 /\ <<v[1] - v[1], v[1]>> = <<0, v[1]>> /\ 1 <= 1 BY <2>3
    <3> QED BY <2>5, <3>1 DEF FallTo
  <2> QED BY <2>5, <2>7, <2>8, <2>10, <2>11 DEF ScansTo
<1> DEFINE P == {i \in Nat : i + 1 <= n => ScansTo(v, i + 1, st[i + 1])}
<1>9. 0 \in P
  <2>1. 0 + 1 = 1 OBVIOUS
  <2> QED BY <1>8, <2>1
<1>10. ASSUME NEW i \in P PROVE i + 1 \in P
  <2> SUFFICES ASSUME (i + 1) + 1 <= n PROVE ScansTo(v, (i + 1) + 1, st[(i + 1) + 1])
    OBVIOUS
  <2> DEFINE m == i + 1
  <2>1. m \in 1 .. n /\ m + 1 \in 1 .. n /\ m \in Nat /\ (m + 1) - 1 = m BY <1>1
  <2>2. m <= n BY <1>1, <2>1
  <2>3. ScansTo(v, m, st[m]) BY <2>2
  <2> HIDE DEF m, P
  <2>4. st[m] \in Scans /\ st[m + 1] = Scan(st[m], v[m + 1]) BY <1>7, <2>1
  <2>5. ScansTo(v, m + 1, Scan(st[m], v[m + 1])) BY <1>1, <2>1, <2>3, <2>4, ScanGoesOn
  <2> QED BY <2>4, <2>5 DEF m
<1>11. P \in SUBSET Nat OBVIOUS
<1> HIDE DEF P
<1>12. P = Nat BY <1>9, <1>10, <1>11, SetOfNaturals
<1>13. ScansTo(v, n, st[n])
  <2>1. n - 1 \in Nat /\ (n - 1) + 1 = n /\ n <= n BY DEF Positive
  <2>2. n - 1 \in P BY <1>12, <2>1
  <2>3. (n - 1) + 1 <= n => ScansTo(v, (n - 1) + 1, st[(n - 1) + 1]) BY <2>2 DEF P
  <2> QED BY <2>1, <2>3
<1>14. n \in 0 .. n BY <1>1
<1> QED BY <1>6, <1>13, <1>14 DEF a, base

(* A ratio in its lowest terms is the same ratio.                              *)
LoweredOf(w, p) == FoldLeft(LAMBDA q, k : Halved(q), p, w)

Lowered(w, p, g) == g = [T \in SUBSET (DOMAIN w) |-> IF T = {} THEN p ELSE Halved(g[T \ {Max(T)}])]

LEMMA LoweredDef == ASSUME NEW w, NEW p PROVE LoweredOf(w, p) = (CHOOSE g : Lowered(w, p, g))[DOMAIN w]
BY DEF LoweredOf, FoldLeft, MapThenFoldSet, Lowered

LEMMA LowestIs == ASSUME NEW p PROVE Lowest(p) = LoweredOf([k \in 1 .. 16 |-> k], p)
BY DEF Lowest, LoweredOf

LEMMA HalvedIsSame ==
  ASSUME NEW p \in Ratios
  PROVE  Halved(p) \in Ratios /\ Halved(p)[1] * p[2] = p[1] * Halved(p)[2]
<1> DEFINE a == p[1]
           b == p[2]
<1>1. a \in Nat /\ b \in Positive BY DEF Ratios
<1>2. CASE a % 2 = 0 /\ b % 2 = 0
  <2> DEFINE c == a \div 2
             d == b \div 2
  <2>1. a = 2 * c /\ b = 2 * d /\ c \in Nat /\ d \in Nat BY <1>1, <1>2 DEF Positive
  <2>2. Halved(p) = <<c, d>> BY <1>2 DEF Halved
  <2> HIDE DEF a, b, c, d
  <2>3. d # 0 /\ c * b = a * d BY <1>1, <2>1 DEF Positive
  <2>4. Halved(p) \in Ratios /\ Halved(p)[1] = c /\ Halved(p)[2] = d BY <2>1, <2>2, <2>3 DEF Ratios, Positive
  <2>5. c * b = a * d BY <2>3
  <2> QED BY <2>4, <2>5 DEF a, b
<1>3. CASE ~(a % 2 = 0 /\ b % 2 = 0)
  <2>1. Halved(p) = p BY <1>3 DEF Halved
  <2>2. p[1] * p[2] = p[1] * p[2] OBVIOUS
  <2> QED BY <2>1, <2>2
<1> QED BY <1>2, <1>3

LEMMA SameIsTransitive ==
  ASSUME NEW p \in Ratios, NEW q \in Ratios, NEW r \in Ratios, Same(p, q), Same(q, r)
  PROVE  Same(p, r)
<1> DEFINE a == p[1]
           b == p[2]
           c == q[1]
           d == q[2]
           e == r[1]
           f == r[2]
<1>1. a \in Nat /\ c \in Nat /\ e \in Nat /\ b \in Nat \ {0} /\ d \in Nat \ {0} /\ f \in Nat \ {0}
  BY DEF Ratios, Positive
<1>2. a * d = c * b /\ c * f = e * d BY DEF Same
<1> HIDE DEF a, b, c, d, e, f
<1>3. (a * f) * d = (a * d) * f /\ (c * b) * f = (c * f) * b /\ (e * d) * b = (e * b) * d BY <1>1
<1>4. (a * f) * d = (e * b) * d BY <1>2, <1>3
<1>5. a * f \in Nat /\ e * b \in Nat BY <1>1
<1>6. a * f = e * b
  <2> DEFINE x == a * f
             y == e * b
  <2>1. x \in Nat /\ y \in Nat /\ x * d = y * d BY <1>4, <1>5
  <2> HIDE DEF x, y
  <2>2. x = y BY <1>1, <2>1
  <2> QED BY <2>2 DEF x, y
<1> QED BY <1>6 DEF Same, a, b, e, f

LEMMA LowestIsSame ==
  ASSUME NEW p \in Ratios
  PROVE  Lowest(p) \in Ratios /\ Same(Lowest(p), p)
<1> DEFINE w == [k \in 1 .. 16 |-> k]
           V == {q \in Ratios : Same(q, p)}
           F == [x \in V \X Int |-> Halved(x[1])]
<1>1. p \in V BY SameIsNotLess
<1>2. F \in [V \X Int -> V]
  <2>1. ASSUME NEW x \in V \X Int PROVE Halved(x[1]) \in V
    <3>1. x[1] \in Ratios /\ Same(x[1], p) OBVIOUS
    <3>2. Halved(x[1]) \in Ratios /\ Same(Halved(x[1]), x[1]) BY <3>1, HalvedIsSame DEF Same
    <3>3. Same(Halved(x[1]), p) BY <3>1, <3>2, SameIsTransitive
    <3> QED BY <3>2, <3>3
  <2> QED BY <2>1
<1>3. \A v \in V, k \in Int : F[<<v, k>>] = Halved(v) OBVIOUS
<1>4. 16 \in Nat /\ DOMAIN w = 1 .. 16 /\ \A i \in 1 .. 16 : w[i] \in Int OBVIOUS
<1> HIDE DEF V, F, w
<1>5. PICK h \in [SUBSET (1 .. 16) -> V] : Carries(w, 16, p, F, h) BY <1>1, <1>2, <1>4, CarryExists
<1>6. \A T \in SUBSET (1 .. 16) : T # {} => Max(T) \in T
  <2> SUFFICES ASSUME NEW T \in SUBSET (1 .. 16), T # {} PROVE Max(T) \in T OBVIOUS
  <2>1. IsFiniteSet(1 .. 16) BY <1>4, UpTo
  <2>2. IsFiniteSet(T) BY <2>1, FS_Subset
  <2>3. T \in SUBSET Int OBVIOUS
  <2> QED BY <2>2, <2>3, MaxExists
<1>7. Lowered(w, p, h)
  <2>1. ASSUME NEW T \in SUBSET (1 .. 16) PROVE h[T] = IF T = {} THEN p ELSE Halved(h[T \ {Max(T)}])
    <3>1. CASE T = {} BY <1>5, <3>1 DEF Carries
    <3>2. CASE T # {}
      <4>1. h[T] = F[<<h[T \ {Max(T)}], w[Max(T)]>>] BY <1>5, <3>2 DEF Carries
      <4>2. Max(T) \in 1 .. 16 /\ h[T \ {Max(T)}] \in V BY <1>5, <1>6, <3>2
      <4>3. w[Max(T)] \in Int BY <1>4, <4>2
      <4> QED BY <1>3, <3>2, <4>1, <4>2, <4>3
    <3> QED BY <3>1, <3>2
  <2>2. h = [T \in SUBSET (1 .. 16) |-> h[T]] BY <1>5
  <2> QED BY <1>4, <2>1, <2>2 DEF Lowered
<1> DEFINE g == CHOOSE k : Lowered(w, p, k)
<1>8. Lowered(w, p, g) BY <1>7
<1>9. Lowest(p) = g[1 .. 16] BY <1>4, LowestIs, LoweredDef DEF w
<1> HIDE DEF g
<1>10. Carried(w, 16, V, p, F, g)
  <2>1. g[{}] = p BY <1>8 DEF Lowered
  <2>2. ASSUME NEW T \in SUBSET (1 .. 16), T # {}, g[T \ {Max(T)}] \in V
        PROVE  g[T] = F[<<g[T \ {Max(T)}], w[Max(T)]>>]
    <3>1. g[T] = Halved(g[T \ {Max(T)}]) BY <1>4, <1>8, <2>2 DEF Lowered
    <3>2. Max(T) \in 1 .. 16 BY <1>6, <2>2
    <3>3. w[Max(T)] \in Int BY <1>4, <3>2
    <3> QED BY <1>3, <2>2, <3>1, <3>3
  <2> QED BY <2>1, <2>2 DEF Carried
<1>11. Stepped(w, 16, V, p, F, g[1 .. 16]) BY <1>1, <1>2, <1>4, <1>10, CarriedSteps
<1>12. PICK st : Steps(w, 16, V, p, F, st, g[1 .. 16]) BY <1>11 DEF Stepped
<1>13. g[1 .. 16] \in V BY <1>12 DEF Steps
<1> QED BY <1>9, <1>13 DEF V

(* The one-pass drawdown of every curve of positive equity is its deepest fall   *)
(* between any two bars (max_drawdown).                                        *)
THEOREM EveryDrawdownIsTheDeepest ==
  ASSUME NEW n \in Positive, NEW v \in [1 .. n -> Positive]
  PROVE  DrawdownIsTheDeepestFall(v)
<1> DEFINE a == ScanOf(v, [peak |-> v[1], worst |-> Zero])
           m == MaxDrawdown(v)
<1>1. DOMAIN v = 1 .. n /\ \A i \in 1 .. n : v[i] \in Positive OBVIOUS
<1>2. a \in Scans /\ ScansTo(v, n, a) BY <1>1, ScanIsDeepest
<1>3. Head(v) = v[1] BY DEF Head
<1>4. m = Lowest(a.worst) BY <1>3, DrawdownIs
<1> HIDE DEF a, m
<1>5. a.worst \in Ratios BY <1>2 DEF Scans
<1>6. m \in Ratios /\ Same(m, a.worst) BY <1>4, <1>5, LowestIsSame
<1>7. ~Less(m, a.worst)
  <2>1. m[1] \in Nat /\ m[2] \in Nat /\ a.worst[1] \in Nat /\ a.worst[2] \in Nat BY <1>5, <1>6 DEF Ratios, Positive
  <2>2. m[1] * a.worst[2] = a.worst[1] * m[2] BY <1>6 DEF Same
  <2>3. m[1] * a.worst[2] \in Nat BY <2>1
  <2> QED BY <2>2, <2>3 DEF Less
<1>8. ASSUME NEW j \in 1 .. n, NEW k \in 1 .. n, j <= k PROVE ~Less(m, <<v[j] - v[k], v[j]>>)
  <2>1. ~Less(a.worst, <<v[j] - v[k], v[j]>>) BY <1>2, <1>8 DEF ScansTo
  <2>2. v[j] - v[k] \in Int /\ v[j] \in Positive BY <1>1 DEF Positive
  <2>3. <<v[j] - v[k], v[j]>> \in Quotients BY <2>2 DEF Quotients
  <2>4. m \in Quotients /\ a.worst \in Quotients BY <1>5, <1>6 DEF Ratios, Quotients
  <2> QED BY <1>7, <2>1, <2>3, <2>4, OrderIsTransitive
<1>9. \A f \in FallsOf(v) : ~Less(m, f) BY <1>1, <1>8 DEF FallsOf
<1>10. \E f \in FallsOf(v) : Same(m, f)
  <2>1. PICK j, k \in 1 .. n : j <= k /\ Same(a.worst, <<v[j] - v[k], v[j]>>) BY <1>2 DEF ScansTo, FallTo
  <2> DEFINE f == <<v[j] - v[k], v[j]>>
  <2>2. f \in FallsOf(v)
    <3>1. <<j, k>> \in (DOMAIN v) \X (DOMAIN v) BY <1>1
    <3> QED BY <2>1, <3>1 DEF FallsOf
  <2>3. v[j] \in Positive /\ v[k] \in Positive /\ v[j] - v[k] \in Int BY <1>1 DEF Positive
  <2>4. v[j] - v[k] \in Nat
    <3> DEFINE x == a.worst[1]
               y == a.worst[2]
               d == v[j] - v[k]
               e == v[j]
    <3>1. x \in Nat /\ y \in Positive /\ d \in Int /\ e \in Positive BY <1>5, <2>3 DEF Ratios
    <3>2. x * e = d * y BY <2>1 DEF Same
    <3> HIDE DEF x, y, d, e
    <3>3. x * e >= 0 BY <3>1 DEF Positive
    <3>4. d < 0 => d * y < 0 BY <3>1 DEF Positive
    <3>5. d >= 0
      <4> SUFFICES ASSUME d < 0 PROVE FALSE BY <3>1
      <4>1. d * y < 0 BY <3>4
      <4>2. x * e < 0 BY <3>2, <4>1
      <4>3. x * e \in Int BY <3>1 DEF Positive
      <4> QED BY <3>3, <4>2, <4>3
    <3> QED BY <3>1, <3>5 DEF d
  <2>5. f \in Ratios BY <2>3, <2>4 DEF Ratios
  <2> HIDE DEF f
  <2>6. Same(a.worst, f) BY <2>1 DEF f
  <2>7. Same(m, f) BY <1>5, <1>6, <2>5, <2>6, SameIsTransitive
  <2> QED BY <2>2, <2>7
<1> QED BY <1>9, <1>10 DEF DrawdownIsTheDeepestFall, m

(* What a fill adds to the tally of a regime, and the tally.                   *)
Tallies == [qty : Int, cost : Int \X Int, wins : Int, closes : Int, entries : Int, traded : Int]

Tally(a, f, stamps) ==
  LET counted == IF f.ts \in stamps THEN 1 ELSE 0
      bought == a.qty + f.qty
  IN IF f.side = "BUY"
     THEN [a EXCEPT !.qty = bought,
                    !.entries = IF a.qty <= 0 THEN @ + counted ELSE @,
                    !.traded = @ + counted * f.qty * f.price,
                    !.cost = <<a.qty * a.cost[1] + f.qty * f.price * a.cost[2],
                               a.cost[2] * bought>>]
     ELSE [a EXCEPT !.qty = @ - f.qty,
                    !.closes = @ + counted,
                    !.wins = IF Less(a.cost, <<f.price, 1>>) THEN @ + counted ELSE @,
                    !.traded = @ + counted * f.qty * f.price]

TallyOf(w, stamps) == FoldLeft(LAMBDA a, f : Tally(a, f, stamps), NoTrades, w)

Tallied(w, stamps, g) ==
  g = [T \in SUBSET (DOMAIN w) |-> IF T = {} THEN NoTrades ELSE Tally(g[T \ {Max(T)}], w[Max(T)], stamps)]

Tallying(stamps) == [p \in Tallies \X Fills |-> Tally(p[1], p[2], stamps)]

LEMMA StatsAre == ASSUME NEW fills, NEW stamps PROVE RegimeTradeStats(fills, stamps) = TallyOf(fills, stamps)
BY DEF RegimeTradeStats, TallyOf, Tally

LEMMA TalliedDef ==
  ASSUME NEW w, NEW stamps PROVE TallyOf(w, stamps) = (CHOOSE g : Tallied(w, stamps, g))[DOMAIN w]
BY DEF TallyOf, FoldLeft, MapThenFoldSet, Tallied

Bought(f) == IF f.side = "BUY" THEN f.qty ELSE -f.qty
Costing(a, f) ==
  IF f.side = "BUY" THEN <<a.qty * a.cost[1] + f.qty * f.price * a.cost[2], a.cost[2] * (a.qty + f.qty)>>
  ELSE a.cost
Opens(a, f) == f.side = "BUY" /\ a.qty <= 0
Wins(a, f) == f.side # "BUY" /\ Less(a.cost, <<f.price, 1>>)

AddsFill(a, f, k, b) ==
  /\ b.qty = a.qty + Bought(f) /\ b.cost = Costing(a, f)
  /\ b.entries = IF Opens(a, f) THEN a.entries + k ELSE a.entries
  /\ b.closes = IF f.side # "BUY" THEN a.closes + k ELSE a.closes
  /\ b.wins = IF Wins(a, f) THEN a.wins + k ELSE a.wins
  /\ b.traded = a.traded + k * f.qty * f.price

LEMMA TallyIs ==
  ASSUME NEW a \in Tallies, NEW f \in Fills, NEW stamps
  PROVE  /\ Tally(a, f, stamps) \in Tallies
         /\ AddsFill(a, f, IF f.ts \in stamps THEN 1 ELSE 0, Tally(a, f, stamps))
<1> DEFINE k == IF f.ts \in stamps THEN 1 ELSE 0
           b == Tally(a, f, stamps)
           cost == <<a.qty * a.cost[1] + f.qty * f.price * a.cost[2], a.cost[2] * (a.qty + f.qty)>>
           traded == a.traded + k * f.qty * f.price
           won == Less(a.cost, <<f.price, 1>>)
<1>1. f.qty \in Nat /\ f.price \in Nat /\ f.side \in {"BUY", "SELL"} BY DEF Fills
<1>2. /\ a = [qty |-> a.qty, cost |-> a.cost, wins |-> a.wins, closes |-> a.closes,
              entries |-> a.entries, traded |-> a.traded]
      /\ a.qty \in Int /\ a.cost \in Int \X Int /\ a.wins \in Int /\ a.closes \in Int
      /\ a.entries \in Int /\ a.traded \in Int
  BY DEF Tallies
<1>3. k \in Int OBVIOUS
<1>4. traded \in Int /\ a.qty + f.qty \in Int /\ a.qty - f.qty \in Int BY <1>1, <1>2, <1>3
<1>5. cost \in Int \X Int
  <2>1. a.cost[1] \in Int /\ a.cost[2] \in Int BY <1>2
  <2>2. a.qty * a.cost[1] \in Int /\ f.qty * f.price * a.cost[2] \in Int /\ a.cost[2] * (a.qty + f.qty) \in Int
    BY <1>1, <1>2, <1>4, <2>1
  <2> QED BY <2>2
<1>6. CASE f.side = "BUY"
  <2>1. b = [a EXCEPT !.qty = a.qty + f.qty,
                      !.entries = IF a.qty <= 0 THEN @ + k ELSE @,
                      !.traded = @ + k * f.qty * f.price,
                      !.cost = cost]
    BY <1>6 DEF Tally
  <2> HIDE DEF b, k, cost, traded
  <2>2. b = [qty |-> a.qty + f.qty, cost |-> cost, wins |-> a.wins, closes |-> a.closes,
             entries |-> IF a.qty <= 0 THEN a.entries + k ELSE a.entries, traded |-> traded]
    BY <1>2, <2>1 DEF traded
  <2>3. b \in Tallies BY <1>2, <1>3, <1>4, <1>5, <2>2 DEF Tallies
  <2>4. AddsFill(a, f, k, b) BY <1>6, <2>2 DEF AddsFill, Bought, Costing, Opens, Wins, cost, traded
  <2> QED BY <2>3, <2>4 DEF b, k
<1>7. CASE f.side # "BUY"
  <2>1. b = [a EXCEPT !.qty = @ - f.qty,
                      !.closes = @ + k,
                      !.wins = IF won THEN @ + k ELSE @,
                      !.traded = @ + k * f.qty * f.price]
    BY <1>7 DEF Tally
  <2> HIDE DEF b, k, traded, won
  <2>2. b = [qty |-> a.qty - f.qty, cost |-> a.cost, wins |-> IF won THEN a.wins + k ELSE a.wins,
             closes |-> a.closes + k, entries |-> a.entries, traded |-> traded]
    BY <1>2, <2>1 DEF traded
  <2>3. b \in Tallies BY <1>2, <1>3, <1>4, <2>2 DEF Tallies
  <2>4. a.qty - f.qty = a.qty + (-f.qty) BY <1>1, <1>2
  <2>5. AddsFill(a, f, k, b) BY <1>7, <2>2, <2>4 DEF AddsFill, Bought, Costing, Opens, Wins, traded, won
  <2> QED BY <2>3, <2>5 DEF b, k
<1> QED BY <1>6, <1>7

LEMMA TallySteps ==
  ASSUME NEW n \in Nat, NEW w, DOMAIN w = 1 .. n, \A i \in 1 .. n : w[i] \in Fills, NEW stamps
  PROVE  Stepped(w, n, Tallies, NoTrades, Tallying(stamps), TallyOf(w, stamps))
<1> DEFINE F == Tallying(stamps)
<1>0. NoTrades \in Tallies BY DEF NoTrades, Tallies, Zero
<1>1. F \in [Tallies \X Fills -> Tallies]
  <2>1. ASSUME NEW p \in Tallies \X Fills PROVE Tally(p[1], p[2], stamps) \in Tallies
    <3>1. p[1] \in Tallies /\ p[2] \in Fills OBVIOUS
    <3> QED BY <3>1, TallyIs
  <2> QED BY <2>1 DEF Tallying
<1>2. \A v \in Tallies, x \in Fills : F[<<v, x>>] = Tally(v, x, stamps) BY DEF Tallying
<1> HIDE DEF F
<1>3. PICK h \in [SUBSET (1 .. n) -> Tallies] : Carries(w, n, NoTrades, F, h)
  BY <1>0, <1>1, CarryExists
<1>4. \A T \in SUBSET (1 .. n) : T # {} => Max(T) \in T
  <2> SUFFICES ASSUME NEW T \in SUBSET (1 .. n), T # {} PROVE Max(T) \in T OBVIOUS
  <2>1. IsFiniteSet(1 .. n) BY UpTo
  <2>2. IsFiniteSet(T) BY <2>1, FS_Subset
  <2>3. T \in SUBSET Int OBVIOUS
  <2> QED BY <2>2, <2>3, MaxExists
<1>5. Tallied(w, stamps, h)
  <2>1. ASSUME NEW T \in SUBSET (1 .. n)
        PROVE  h[T] = IF T = {} THEN NoTrades ELSE Tally(h[T \ {Max(T)}], w[Max(T)], stamps)
    <3>1. CASE T = {} BY <1>3, <3>1 DEF Carries
    <3>2. CASE T # {}
      <4>1. h[T] = F[<<h[T \ {Max(T)}], w[Max(T)]>>] BY <1>3, <3>2 DEF Carries
      <4>2. Max(T) \in 1 .. n /\ h[T \ {Max(T)}] \in Tallies BY <1>3, <1>4, <3>2
      <4>3. w[Max(T)] \in Fills BY <4>2
      <4> QED BY <1>2, <3>2, <4>1, <4>2, <4>3
    <3> QED BY <3>1, <3>2
  <2>2. h = [T \in SUBSET (1 .. n) |-> h[T]] BY <1>3
  <2> QED BY <2>1, <2>2 DEF Tallied
<1> DEFINE g == CHOOSE k : Tallied(w, stamps, k)
<1>6. Tallied(w, stamps, g) BY <1>5
<1>7. TallyOf(w, stamps) = g[1 .. n] BY TalliedDef
<1> HIDE DEF g
<1>8. Carried(w, n, Tallies, NoTrades, F, g)
  <2>1. g[{}] = NoTrades BY <1>6 DEF Tallied
  <2>2. ASSUME NEW T \in SUBSET (1 .. n), T # {}, g[T \ {Max(T)}] \in Tallies
        PROVE  g[T] = F[<<g[T \ {Max(T)}], w[Max(T)]>>]
    <3>1. g[T] = Tally(g[T \ {Max(T)}], w[Max(T)], stamps) BY <1>6, <2>2 DEF Tallied
    <3>2. Max(T) \in 1 .. n BY <1>4, <2>2
    <3>3. w[Max(T)] \in Fills BY <3>2
    <3> QED BY <1>2, <2>2, <3>1, <3>3
  <2> QED BY <2>1, <2>2 DEF Carried
<1>9. Stepped(w, n, Tallies, NoTrades, F, g[1 .. n]) BY <1>0, <1>1, <1>8, CarriedSteps
<1> QED BY <1>7, <1>9 DEF F

(* The tallies after each fill.                                                *)
TalliesAfter(w, n, stamps, st) ==
  /\ st \in [0 .. n -> Tallies] /\ st[0] = NoTrades /\ st[n] = TallyOf(w, stamps)
  /\ \A i \in 1 .. n : AddsFill(st[i - 1], w[i], IF w[i].ts \in stamps THEN 1 ELSE 0, st[i])

HasTallies(w, n, stamps) == \E st : TalliesAfter(w, n, stamps, st)

LEMMA TalliesExist ==
  ASSUME NEW n \in Nat, NEW w, DOMAIN w = 1 .. n, \A i \in 1 .. n : w[i] \in Fills, NEW stamps
  PROVE  HasTallies(w, n, stamps)
<1> DEFINE F == Tallying(stamps)
           last == TallyOf(w, stamps)
<1>1. Stepped(w, n, Tallies, NoTrades, F, last) BY TallySteps
<1>2. \A v \in Tallies, x \in Fills : F[<<v, x>>] = Tally(v, x, stamps) BY DEF Tallying
<1> HIDE DEF F, last
<1>3. PICK st : Steps(w, n, Tallies, NoTrades, F, st, last) BY <1>1 DEF Stepped
<1>4. /\ st \in [0 .. n -> Tallies] /\ st[0] = NoTrades /\ st[n] = last
      /\ \A i \in 1 .. n : st[i] = F[<<st[i - 1], w[i]>>]
  BY <1>3 DEF Steps
<1>5. ASSUME NEW i \in 1 .. n
      PROVE  AddsFill(st[i - 1], w[i], IF w[i].ts \in stamps THEN 1 ELSE 0, st[i])
  <2>1. i - 1 \in 0 .. n OBVIOUS
  <2>2. st[i - 1] \in Tallies /\ w[i] \in Fills BY <1>4, <2>1
  <2>3. st[i] = Tally(st[i - 1], w[i], stamps) BY <1>2, <1>4, <2>2
  <2> QED BY <2>2, <2>3, TallyIs
<1>6. TalliesAfter(w, n, stamps, st) BY <1>4, <1>5 DEF TalliesAfter, last
<1> QED BY <1>6 DEF HasTallies

(* The tallies of two disjoint sets of stamps follow one position and add up to  *)
(* those of their union, after every fill.                                     *)
AddUp(a, b, c) ==
  /\ a.qty = c.qty /\ b.qty = c.qty /\ a.cost = c.cost /\ b.cost = c.cost
  /\ a.entries + b.entries = c.entries /\ a.closes + b.closes = c.closes
  /\ a.wins + b.wins = c.wins /\ a.traded + b.traded = c.traded

LEMMA AddUpGoesOn ==
  ASSUME NEW f \in Fills, NEW a \in Tallies, NEW b \in Tallies, NEW c \in Tallies, AddUp(a, b, c),
         NEW k \in Int, NEW l \in Int, NEW a2 \in Tallies, NEW b2 \in Tallies, NEW c2 \in Tallies,
         AddsFill(a, f, k, a2), AddsFill(b, f, l, b2), AddsFill(c, f, k + l, c2)
  PROVE  AddUp(a2, b2, c2)
<1> DEFINE q == f.qty
           p == f.price
<1>1. q \in Nat /\ p \in Nat BY DEF Fills
<1>2. /\ a.entries \in Int /\ b.entries \in Int /\ a.closes \in Int /\ b.closes \in Int
      /\ a.wins \in Int /\ b.wins \in Int /\ a.traded \in Int /\ b.traded \in Int
      /\ c.entries \in Int /\ c.closes \in Int /\ c.wins \in Int /\ c.traded \in Int
  BY DEF Tallies
<1>3. a.qty = c.qty /\ b.qty = c.qty /\ a.cost = c.cost /\ b.cost = c.cost BY DEF AddUp
<1>4. /\ a.entries + b.entries = c.entries /\ a.closes + b.closes = c.closes
      /\ a.wins + b.wins = c.wins /\ a.traded + b.traded = c.traded
  BY DEF AddUp
<1>5. a2.qty = c2.qty /\ b2.qty = c2.qty BY <1>3 DEF AddsFill
<1>6. Costing(a, f) = Costing(c, f) /\ Costing(b, f) = Costing(c, f) BY <1>3 DEF Costing
<1>7. a2.cost = c2.cost /\ b2.cost = c2.cost BY <1>6 DEF AddsFill
<1>8. (Opens(a, f) <=> Opens(c, f)) /\ (Opens(b, f) <=> Opens(c, f)) BY <1>3 DEF Opens
<1>9. (Wins(a, f) <=> Wins(c, f)) /\ (Wins(b, f) <=> Wins(c, f)) BY <1>3 DEF Wins
<1>10. a2.entries + b2.entries = c2.entries
  <2>1. CASE Opens(c, f)
    <3>1. a2.entries = a.entries + k /\ b2.entries = b.entries + l /\ c2.entries = c.entries + (k + l)
      BY <1>8, <2>1 DEF AddsFill
    <3> QED BY <1>2, <1>4, <3>1
  <2>2. CASE ~Opens(c, f)
    <3>1. a2.entries = a.entries /\ b2.entries = b.entries /\ c2.entries = c.entries
      BY <1>8, <2>2 DEF AddsFill
    <3> QED BY <1>4, <3>1
  <2> QED BY <2>1, <2>2
<1>11. a2.wins + b2.wins = c2.wins
  <2>1. CASE Wins(c, f)
    <3>1. a2.wins = a.wins + k /\ b2.wins = b.wins + l /\ c2.wins = c.wins + (k + l)
      BY <1>9, <2>1 DEF AddsFill
    <3> QED BY <1>2, <1>4, <3>1
  <2>2. CASE ~Wins(c, f)
    <3>1. a2.wins = a.wins /\ b2.wins = b.wins /\ c2.wins = c.wins BY <1>9, <2>2 DEF AddsFill
    <3> QED BY <1>4, <3>1
  <2> QED BY <2>1, <2>2
<1>12. a2.closes + b2.closes = c2.closes
  <2>1. CASE f.side # "BUY"
    <3>1. a2.closes = a.closes + k /\ b2.closes = b.closes + l /\ c2.closes = c.closes + (k + l)
      BY <2>1 DEF AddsFill
    <3> QED BY <1>2, <1>4, <3>1
  <2>2. CASE f.side = "BUY"
    <3>1. a2.closes = a.closes /\ b2.closes = b.closes /\ c2.closes = c.closes BY <2>2 DEF AddsFill
    <3> QED BY <1>4, <3>1
  <2> QED BY <2>1, <2>2
<1>13. a2.traded + b2.traded = c2.traded
  <2>1. a2.traded = a.traded + k * q * p /\ b2.traded = b.traded + l * q * p
        /\ c2.traded = c.traded + (k + l) * q * p
    BY DEF AddsFill
  <2> HIDE DEF q, p
  <2>2. (k + l) * q * p = k * q * p + l * q * p BY <1>1
  <2>3. k * q * p \in Int /\ l * q * p \in Int BY <1>1
  <2> QED BY <1>2, <1>4, <2>1, <2>2, <2>3
<1> QED BY <1>5, <1>7, <1>10, <1>11, <1>12, <1>13 DEF AddUp

LEMMA TalliesAddUp ==
  ASSUME NEW n \in Nat, NEW w, DOMAIN w = 1 .. n, \A i \in 1 .. n : w[i] \in Fills,
         NEW A, NEW B, A \cap B = {}
  PROVE  AddUp(RegimeTradeStats(w, A), RegimeTradeStats(w, B), RegimeTradeStats(w, A \cup B))
<1>1. HasTallies(w, n, A) /\ HasTallies(w, n, B) /\ HasTallies(w, n, A \cup B) BY TalliesExist
<1>2. PICK a : TalliesAfter(w, n, A, a) BY <1>1 DEF HasTallies
<1>3. PICK b : TalliesAfter(w, n, B, b) BY <1>1 DEF HasTallies
<1>4. PICK c : TalliesAfter(w, n, A \cup B, c) BY <1>1 DEF HasTallies
<1>5. /\ a \in [0 .. n -> Tallies] /\ b \in [0 .. n -> Tallies] /\ c \in [0 .. n -> Tallies]
      /\ a[0] = NoTrades /\ b[0] = NoTrades /\ c[0] = NoTrades
  BY <1>2, <1>3, <1>4 DEF TalliesAfter
<1> DEFINE P == {i \in Nat : i <= n => AddUp(a[i], b[i], c[i])}
<1>6. 0 \in P
  <2>1. AddUp(NoTrades, NoTrades, NoTrades) BY DEF AddUp, NoTrades
  <2> QED BY <1>5, <2>1
<1>7. ASSUME NEW i \in P PROVE i + 1 \in P
  <2> SUFFICES ASSUME i + 1 <= n PROVE AddUp(a[i + 1], b[i + 1], c[i + 1]) OBVIOUS
  <2> DEFINE m == i + 1
             f == w[m]
             k == IF f.ts \in A THEN 1 ELSE 0
             l == IF f.ts \in B THEN 1 ELSE 0
             j == IF f.ts \in A \cup B THEN 1 ELSE 0
  <2>1. m \in 1 .. n /\ m - 1 = i /\ i \in 0 .. n /\ m \in 0 .. n /\ i <= n OBVIOUS
  <2>2. AddUp(a[i], b[i], c[i]) BY <2>1
  <2>3. f \in Fills BY <2>1
  <2>4. k \in Int /\ l \in Int /\ j = k + l OBVIOUS
  <2> HIDE DEF P, m
  <2>5. AddsFill(a[m - 1], f, k, a[m]) BY <1>2, <2>1 DEF TalliesAfter
  <2>6. AddsFill(b[m - 1], f, l, b[m]) BY <1>3, <2>1 DEF TalliesAfter
  <2>7. AddsFill(c[m - 1], f, j, c[m]) BY <1>4, <2>1 DEF TalliesAfter
  <2>8. a[i] \in Tallies /\ b[i] \in Tallies /\ c[i] \in Tallies
        /\ a[m] \in Tallies /\ b[m] \in Tallies /\ c[m] \in Tallies
    BY <1>5, <2>1
  <2> HIDE DEF f, k, l, j
  <2>9. AddsFill(a[i], f, k, a[m]) /\ AddsFill(b[i], f, l, b[m]) /\ AddsFill(c[i], f, k + l, c[m])
    BY <2>1, <2>4, <2>5, <2>6, <2>7
  <2>10. AddUp(a[m], b[m], c[m]) BY <2>2, <2>3, <2>4, <2>8, <2>9, AddUpGoesOn
  <2> QED BY <2>10 DEF m
<1>8. P \in SUBSET Nat OBVIOUS
<1> HIDE DEF P
<1>9. P = Nat BY <1>6, <1>7, <1>8, SetOfNaturals
<1>10. AddUp(a[n], b[n], c[n])
  <2>1. n \in P /\ n <= n BY <1>9
  <2> QED BY <2>1 DEF P
<1>11. a[n] = TallyOf(w, A) /\ b[n] = TallyOf(w, B) /\ c[n] = TallyOf(w, A \cup B)
  BY <1>2, <1>3, <1>4 DEF TalliesAfter
<1> QED BY <1>10, <1>11, StatsAre

(* What a position is before a fill, and the fills that open one.              *)
HeldUpTo(fills, i) ==
  SumFunction([j \in 1 .. i - 1 |-> IF fills[j].side = "BUY" THEN fills[j].qty ELSE -fills[j].qty])

Opening(fills) == {i \in DOMAIN fills : fills[i].side = "BUY" /\ HeldUpTo(fills, i) <= 0}

LEMMA EntryCountIs == ASSUME NEW fills PROVE EntryCount(fills) = Cardinality(Opening(fills))
BY DEF EntryCount, Opening, HeldUpTo

LEMMA UpToNext ==
  ASSUME NEW i \in Nat
  PROVE  1 .. i + 1 = (1 .. i) \cup {i + 1} /\ i + 1 \notin 1 .. i /\ IsFiniteSet(1 .. i)
<1>1. \A x \in Int : (1 <= x /\ x <= i + 1) <=> (1 <= x /\ x <= i) \/ x = i + 1 OBVIOUS
<1>2. \A x \in Int : (x \in 1 .. i + 1 <=> 1 <= x /\ x <= i + 1) /\ (x \in 1 .. i <=> 1 <= x /\ x <= i)
  OBVIOUS
<1>3. i + 1 \in Int /\ 1 .. i \subseteq Int /\ 1 .. i + 1 \subseteq Int OBVIOUS
<1>4. ASSUME NEW x PROVE x \in 1 .. i + 1 <=> x \in (1 .. i) \cup {i + 1}
  <2>1. CASE x \in Int BY <1>1, <1>2, <1>3, <2>1
  <2>2. CASE x \notin Int BY <1>3, <2>2
  <2> QED BY <2>1, <2>2
<1>5. i + 1 \notin 1 .. i OBVIOUS
<1> QED BY <1>4, <1>5, UpTo

LEMMA HeldIs ==
  ASSUME NEW n \in Nat, NEW w, DOMAIN w = 1 .. n, \A i \in 1 .. n : w[i] \in Fills,
         NEW i \in 0 .. n
  PROVE  HeldUpTo(w, i + 1) = SumFunctionOnSet([j \in 1 .. n |-> Bought(w[j])], 1 .. i)
<1> DEFINE g == [j \in 1 .. n |-> Bought(w[j])]
           h == [j \in 1 .. i |-> IF w[j].side = "BUY" THEN w[j].qty ELSE -w[j].qty]
<1>1. i \in Nat /\ (i + 1) - 1 = i /\ 1 .. i \subseteq 1 .. n OBVIOUS
<1>2. HeldUpTo(w, i + 1) = SumFunction(h) BY <1>1 DEF HeldUpTo
<1>3. SumFunction(h) = SumFunctionOnSet(h, 1 .. i) BY DEF SumFunction
<1>4. ASSUME NEW j \in 1 .. i PROVE g[j] \in Int /\ h[j] = g[j]
  <2>1. w[j] \in Fills BY <1>1
  <2>2. w[j].qty \in Nat BY <2>1 DEF Fills
  <2>3. g[j] = Bought(w[j]) /\ h[j] = Bought(w[j]) BY <1>1 DEF Bought
  <2> QED BY <2>2, <2>3 DEF Bought
<1> HIDE DEF g, h
<1>5. IsFiniteSet(1 .. i) BY <1>1, UpTo
<1>6. SumFunctionOnSet(h, 1 .. i) = SumFunctionOnSet(g, 1 .. i) BY <1>4, <1>5, SumSame
<1> QED BY <1>2, <1>3, <1>6 DEF g

(* The tally of a set of stamps that has them all counts the entries and the     *)
(* traded value of the blotter.                                                *)
LEMMA TallyCountsAll ==
  ASSUME NEW n \in Nat, NEW w, DOMAIN w = 1 .. n, \A i \in 1 .. n : w[i] \in Fills,
         NEW A, \A i \in 1 .. n : w[i].ts \in A
  PROVE  /\ RegimeTradeStats(w, A).entries = EntryCount(w)
         /\ RegimeTradeStats(w, A).traded = Notional(w)
<1> DEFINE g == [j \in 1 .. n |-> Bought(w[j])]
           h == [j \in 1 .. n |-> w[j].qty * w[j].price]
           Before(i) == {j \in 1 .. i : j \in Opening(w)}
           After(a, i) == /\ a.qty = SumFunctionOnSet(g, 1 .. i)
                          /\ a.entries = Cardinality(Before(i))
                          /\ a.traded = SumFunctionOnSet(h, 1 .. i)
<1>1. PICK st : TalliesAfter(w, n, A, st)
  <2>1. HasTallies(w, n, A) BY TalliesExist
  <2> QED BY <2>1 DEF HasTallies
<1>2. st \in [0 .. n -> Tallies] /\ st[0] = NoTrades /\ st[n] = TallyOf(w, A) BY <1>1 DEF TalliesAfter
<1>3. ASSUME NEW i \in 1 .. n
      PROVE  AddsFill(st[i - 1], w[i], 1, st[i])
  <2>1. w[i].ts \in A OBVIOUS
  <2>2. AddsFill(st[i - 1], w[i], IF w[i].ts \in A THEN 1 ELSE 0, st[i]) BY <1>1 DEF TalliesAfter
  <2> QED BY <2>1, <2>2
<1>4. \A i \in 1 .. n : g[i] = Bought(w[i]) /\ h[i] = w[i].qty * w[i].price OBVIOUS
<1>5. \A i \in 1 .. n : g[i] \in Int /\ h[i] \in Int
  <2> SUFFICES ASSUME NEW i \in 1 .. n PROVE g[i] \in Int /\ h[i] \in Int OBVIOUS
  <2>1. w[i] \in Fills OBVIOUS
  <2>2. w[i].qty \in Nat /\ w[i].price \in Nat BY <2>1 DEF Fills
  <2> QED BY <1>4, <2>2 DEF Bought
<1>6. \A i \in 0 .. n : HeldUpTo(w, i + 1) = SumFunctionOnSet(g, 1 .. i) BY HeldIs
<1>7. Notional(w) = SumFunctionOnSet(h, 1 .. n) BY DEF Notional, SumFunction
<1> HIDE DEF g, h
<1> DEFINE P == {i \in Nat : i <= n => After(st[i], i)}
<1>8. 0 \in P
  <2>1. 1 .. 0 = {} OBVIOUS
  <2>2. Before(0) = {} BY <2>1
  <2>3. Cardinality({}) = 0 BY FS_EmptySet
  <2>4. SumFunctionOnSet(g, {}) = 0 /\ SumFunctionOnSet(h, {}) = 0 BY SumEmpty
  <2>5. st[0].qty = 0 /\ st[0].entries = 0 /\ st[0].traded = 0 BY <1>2 DEF NoTrades
  <2>6. After(st[0], 0) BY <2>1, <2>2, <2>3, <2>4, <2>5
  <2> QED BY <2>6
<1>9. ASSUME NEW i \in P PROVE i + 1 \in P
  <2> SUFFICES ASSUME i + 1 <= n PROVE After(st[i + 1], i + 1) OBVIOUS
  <2> DEFINE m == i + 1
             a == st[i]
             b == st[m]
             f == w[m]
  <2>1. m \in 1 .. n /\ m - 1 = i /\ i \in Nat /\ i \in 0 .. n /\ i <= n OBVIOUS
  <2>2. /\ a.qty = SumFunctionOnSet(g, 1 .. i)
        /\ a.entries = Cardinality(Before(i))
        /\ a.traded = SumFunctionOnSet(h, 1 .. i)
    BY <2>1
  <2>3. 1 .. m = (1 .. i) \cup {m} /\ m \notin 1 .. i /\ IsFiniteSet(1 .. i) BY <2>1, UpToNext
  <2>4. 1 .. i \subseteq 1 .. n /\ (1 .. i) \cup {m} \subseteq 1 .. n BY <2>1
  <2> HIDE DEF P, m
  <2>5. AddsFill(a, f, 1, b)
    <3>1. AddsFill(st[m - 1], w[m], 1, st[m]) BY <1>3, <2>1
    <3> QED BY <2>1, <3>1
  <2>6. SumFunctionOnSet(g, 1 .. m) = SumFunctionOnSet(g, 1 .. i) + g[m]
    <3>1. \A x \in (1 .. i) \cup {m} : g[x] \in Int BY <1>5, <2>4
    <3>2. SumFunctionOnSet(g, (1 .. i) \cup {m}) = SumFunctionOnSet(g, 1 .. i) + g[m]
      BY <2>3, <3>1, SumAdd
    <3> QED BY <2>3, <3>2
  <2>7. SumFunctionOnSet(h, 1 .. m) = SumFunctionOnSet(h, 1 .. i) + h[m]
    <3>1. \A x \in (1 .. i) \cup {m} : h[x] \in Int BY <1>5, <2>4
    <3>2. SumFunctionOnSet(h, (1 .. i) \cup {m}) = SumFunctionOnSet(h, 1 .. i) + h[m]
      BY <2>3, <3>1, SumAdd
    <3> QED BY <2>3, <3>2
  <2>8. f \in Fills /\ g[m] = Bought(f) /\ h[m] = f.qty * f.price BY <1>4, <2>1
  <2>9. f.qty \in Nat /\ f.price \in Nat BY <2>8 DEF Fills
  <2>10. m \in Opening(w) <=> Opens(a, f)
    <3>1. HeldUpTo(w, m) = a.qty
      <4>1. HeldUpTo(w, i + 1) = SumFunctionOnSet(g, 1 .. i) BY <1>6, <2>1
      <4> QED BY <2>2, <4>1 DEF m
    <3> QED BY <2>1, <3>1 DEF Opening, Opens
  <2>11. b.qty = a.qty + g[m] BY <2>5, <2>8 DEF AddsFill
  <2>12. b.traded = a.traded + h[m]
    <3>1. b.traded = a.traded + 1 * f.qty * f.price BY <2>5 DEF AddsFill
    <3>2. 1 * f.qty * f.price = f.qty * f.price BY <2>9
    <3> QED BY <2>8, <3>1, <3>2
  <2>13. IsFiniteSet(Before(i)) /\ m \notin Before(i)
    <3>1. Before(i) \subseteq 1 .. i OBVIOUS
    <3> QED BY <2>3, <3>1, FS_Subset
  <2>14. b.entries = Cardinality(Before(m))
    <3>1. CASE Opens(a, f)
      <4>1. Before(m) = Before(i) \cup {m} BY <2>3, <2>10, <3>1
      <4>2. Cardinality(Before(i) \cup {m}) = Cardinality(Before(i)) + 1 BY <2>13, FS_AddElement
      <4>3. b.entries = a.entries + 1 BY <2>5, <3>1 DEF AddsFill
      <4> QED BY <2>2, <4>1, <4>2, <4>3
    <3>2. CASE ~Opens(a, f)
      <4>1. Before(m) = Before(i) BY <2>3, <2>10, <3>2
      <4>2. b.entries = a.entries BY <2>5, <3>2 DEF AddsFill
      <4> QED BY <2>2, <4>1, <4>2
    <3> QED BY <3>1, <3>2
  <2>15. After(b, m) BY <2>2, <2>6, <2>7, <2>11, <2>12, <2>14
  <2> QED BY <2>15 DEF m
<1>10. P \in SUBSET Nat OBVIOUS
<1>14. \A i \in P : i <= n => After(st[i], i) OBVIOUS
<1> HIDE DEF P
<1>11. P = Nat BY <1>8, <1>9, <1>10, SetOfNaturals
<1>12. After(st[n], n)
  <2>1. n \in P /\ n <= n BY <1>11
  <2> QED BY <1>14, <2>1
<1>13. Before(n) = Opening(w) BY DEF Opening
<1> QED BY <1>2, <1>7, <1>12, <1>13, EntryCountIs, StatsAre

(* What one regime tallies, and the two regimes of a split.                    *)
EndsOf(c, indices) == {Stamps(c)[i + 1] : i \in indices}

LEMMA RegimeIs ==
  ASSUME NEW c, NEW fills, NEW indices
  PROVE  LET g == Regime(c, fills, indices)
             s == RegimeTradeStats(fills, EndsOf(c, indices))
         IN /\ g.bars = Cardinality(indices) /\ g.entries = s.entries /\ g.closes = s.closes
            /\ g.wins = s.wins /\ g.traded = s.traded
BY DEF Regime, EndsOf

LEMMA ReturnsOf ==
  ASSUME NEW T \in SUBSET Nat, IsFiniteSet(T), NEW c, DOMAIN c = T
  PROVE  Len(DailyReturns(c)) = IF T = {} THEN 0 ELSE Cardinality(T) - 1
<1> DEFINE v == Values(c)
           n == Cardinality(T)
           r == DailyReturns(c)
<1>1. n \in Nat /\ DOMAIN Stamps(c) = 1 .. n BY AscendingIs DEF Stamps
<1>2. v = [i \in 1 .. n |-> c[Stamps(c)[i]]] BY <1>1 DEF Values
<1>3. Len(v) = n BY <1>1, <1>2
<1>4. DOMAIN r = 1 .. n - 1 BY <1>3 DEF DailyReturns, StepReturns
<1>9. \E f : r = [i \in 1 .. n - 1 |-> f[i]]
  <2>1. r = [i \in 1 .. n - 1 |-> r[i]] BY <1>3 DEF DailyReturns, StepReturns
  <2> QED BY <2>1
<1> HIDE DEF v, n, r
<1>5. CASE T = {}
  <2>1. n = 0 BY <1>5, FS_EmptySet DEF n
  <2>2. 1 .. n - 1 = 1 .. 0 BY <2>1
  <2>3. PICK f : r = [i \in 1 .. n - 1 |-> f[i]] BY <1>9
  <2>4. r = [i \in 1 .. 0 |-> f[i]] BY <2>2, <2>3
  <2>5. Len(r) = 0 BY <2>4
  <2> QED BY <1>5, <2>5 DEF r
<1>6. CASE T # {}
  <2>1. n # 0 BY <1>6, FS_EmptySet DEF n
  <2>2. n - 1 \in Nat BY <1>1, <2>1
  <2>3. PICK f : r = [i \in 1 .. n - 1 |-> f[i]] BY <1>9
  <2>4. Len(r) = n - 1 BY <2>2, <2>3
  <2> QED BY <1>6, <2>4 DEF r, n
<1> QED BY <1>5, <1>6

LEMMA AddUpBack ==
  ASSUME NEW a \in Tallies, NEW b \in Tallies, NEW c \in Tallies, AddUp(a, b, c)
  PROVE  /\ a.entries = c.entries - b.entries /\ a.closes = c.closes - b.closes
         /\ a.wins = c.wins - b.wins /\ a.traded = c.traded - b.traded
<1>1. a.entries \in Int /\ b.entries \in Int /\ a.closes \in Int /\ b.closes \in Int BY DEF Tallies
<1>2. a.wins \in Int /\ b.wins \in Int /\ a.traded \in Int /\ b.traded \in Int BY DEF Tallies
<1>3. a.entries + b.entries = c.entries /\ a.closes + b.closes = c.closes BY DEF AddUp
<1>4. a.wins + b.wins = c.wins /\ a.traded + b.traded = c.traded BY DEF AddUp
<1>5. a.entries = c.entries - b.entries /\ a.closes = c.closes - b.closes BY <1>1, <1>3
<1>6. a.wins = c.wins - b.wins /\ a.traded = c.traded - b.traded BY <1>2, <1>4
<1> QED BY <1>5, <1>6

LEMMA EverySplit ==
  ASSUME NEW T \in SUBSET Nat, IsFiniteSet(T), NEW c, DOMAIN c = T, NEW n \in Nat,
         NEW fills, DOMAIN fills = 1 .. n, \A i \in 1 .. n : fills[i] \in Fills /\ fills[i].ts \in T,
         Len(DailyReturns(c)) >= Window,
         NEW indices \in SUBSET Classified(DailyReturns(c))
  PROVE  SplitAddsUp(c, fills, <<Regime(c, fills, indices),
                                 Regime(c, fills, Classified(DailyReturns(c)) \ indices)>>)
<1> DEFINE r == DailyReturns(c)
           N == Len(r)
           all == Classified(r)
           others == all \ indices
           ts == Stamps(c)
           A == EndsOf(c, indices)
           B == EndsOf(c, others)
           warm == {ts[i + 1] : i \in all}
           one == Regime(c, fills, indices)
           two == Regime(c, fills, others)
<1>1. Window \in Nat /\ Window >= 2 BY MetricsAssumption
<1>2. N \in Nat /\ N + 1 = Cardinality(T)
  <2>1. N = IF T = {} THEN 0 ELSE Cardinality(T) - 1 BY ReturnsOf
  <2>2. Cardinality(T) \in Nat BY FS_CardinalityType
  <2>3. T # {} BY <1>1, <2>1
  <2>4. Cardinality(T) # 0 BY <2>3, FS_EmptySet
  <2> HIDE DEF N
  <2> QED BY <2>1, <2>2, <2>3, <2>4
<1>3. all = Window .. N BY DEF Classified
<1>4. /\ \A i \in 1 .. Cardinality(T) : ts[i] \in T
      /\ \A i, j \in 1 .. Cardinality(T) : i < j => ts[i] < ts[j]
  BY AscendingIs DEF Stamps
<1>5. \A i \in all : i \in Nat /\ i + 1 \in 1 .. Cardinality(T)
  <2> HIDE DEF N, all
  <2> QED BY <1>1, <1>2, <1>3
<1>6. A \cup B = warm BY DEF EndsOf
<1>7. A \cap B = {}
  <2> SUFFICES ASSUME NEW i \in indices, NEW j \in others, ts[i + 1] = ts[j + 1] PROVE FALSE
    BY DEF EndsOf
  <2>1. i \in all /\ j \in all /\ i # j OBVIOUS
  <2>2. i + 1 \in 1 .. Cardinality(T) /\ j + 1 \in 1 .. Cardinality(T) /\ i \in Nat /\ j \in Nat
    BY <1>5, <2>1
  <2>3. ts[i + 1] \in Nat /\ ts[j + 1] \in Nat BY <1>4, <2>2
  <2>4. i + 1 < j + 1 \/ j + 1 < i + 1 BY <2>1, <2>2
  <2>5. ts[i + 1] < ts[j + 1] \/ ts[j + 1] < ts[i + 1] BY <1>4, <2>2, <2>4
  <2> HIDE DEF ts
  <2> QED BY <2>3, <2>5
<1>8. warm \subseteq T BY <1>4, <1>5
<1> DEFINE early == RegimeTradeStats(fills, T \ warm)
           late == RegimeTradeStats(fills, warm)
           run == RegimeTradeStats(fills, T)
<1>9. AddUp(RegimeTradeStats(fills, A), RegimeTradeStats(fills, B), late)
  <2>1. AddUp(RegimeTradeStats(fills, A), RegimeTradeStats(fills, B), RegimeTradeStats(fills, A \cup B))
    <3> HIDE DEF A, B
    <3> QED BY <1>7, TalliesAddUp
  <2> QED BY <1>6, <2>1
<1>10. AddUp(late, early, run)
  <2> DEFINE R == T \ warm
  <2>1. warm \cap R = {} /\ warm \cup R = T BY <1>8
  <2> HIDE DEF warm, R
  <2>2. AddUp(RegimeTradeStats(fills, warm), RegimeTradeStats(fills, R), RegimeTradeStats(fills, warm \cup R))
    BY <2>1, TalliesAddUp
  <2> QED BY <2>1, <2>2 DEF R
<1>11. run.entries = EntryCount(fills) /\ run.traded = Notional(fills) BY TallyCountsAll
<1>12. late \in Tallies /\ early \in Tallies /\ run \in Tallies
  <2>1. \A S : RegimeTradeStats(fills, S) \in Tallies
    <3> SUFFICES ASSUME NEW S PROVE RegimeTradeStats(fills, S) \in Tallies OBVIOUS
    <3>1. HasTallies(fills, n, S) BY TalliesExist
    <3>2. PICK st : TalliesAfter(fills, n, S, st) BY <3>1 DEF HasTallies
    <3>3. st[n] \in Tallies /\ st[n] = TallyOf(fills, S) BY <3>2 DEF TalliesAfter
    <3> QED BY <3>3, StatsAre
  <2> QED BY <2>1
<1>13. one.bars + two.bars = N - Window + 1
  <2>1. IsFiniteSet(all) /\ Cardinality(all) = N - Window + 1
    <3>1. Window \in Int /\ N \in Int /\ ~(Window > N) BY <1>1, <1>2
    <3>2. IsFiniteSet(Window .. N) /\ Cardinality(Window .. N) = IF Window > N THEN 0 ELSE N - Window + 1
      BY <3>1, FS_Interval
    <3> QED BY <1>3, <3>1, <3>2
  <2>2. IsFiniteSet(indices) BY <2>1, FS_Subset
  <2>3. Cardinality(all \ indices) = Cardinality(all) - Cardinality(all \cap indices) BY <2>1, FS_Difference
  <2>4. all \cap indices = indices OBVIOUS
  <2>5. Cardinality(indices) \in Nat /\ Cardinality(all) \in Nat BY <2>1, <2>2, FS_CardinalityType
  <2>6. one.bars = Cardinality(indices) /\ two.bars = Cardinality(others) BY RegimeIs
  <2> DEFINE x == Cardinality(indices)
             y == Cardinality(all)
             z == Cardinality(others)
  <2>7. z = y - x BY <2>3, <2>4
  <2>8. x \in Nat /\ y \in Nat /\ y = N - Window + 1 BY <2>1, <2>5
  <2>9. one.bars = x /\ two.bars = z BY <2>6
  <2> HIDE DEF one, two, all, N, x, y, z
  <2>10. x + z = y BY <2>7, <2>8
  <2> QED BY <2>8, <2>9, <2>10
<1>14. /\ one.entries + two.entries = late.entries /\ one.closes + two.closes = late.closes
       /\ one.wins + two.wins = late.wins /\ one.traded + two.traded = late.traded
  <2> DEFINE a == RegimeTradeStats(fills, A)
             b == RegimeTradeStats(fills, B)
  <2>1. one.entries = a.entries /\ one.closes = a.closes /\ one.wins = a.wins /\ one.traded = a.traded
    BY RegimeIs
  <2>2. two.entries = b.entries /\ two.closes = b.closes /\ two.wins = b.wins /\ two.traded = b.traded
    BY RegimeIs
  <2>3. AddUp(a, b, late) BY <1>9
  <2> HIDE DEF a, b, one, two, late
  <2> QED BY <2>1, <2>2, <2>3 DEF AddUp
<1> DEFINE pair == <<one, two>>
<1>15. pair[1] = one /\ pair[2] = two OBVIOUS
<1>16. /\ late.entries = run.entries - early.entries /\ late.closes = run.closes - early.closes
       /\ late.wins = run.wins - early.wins /\ late.traded = run.traded - early.traded
  <2> HIDE DEF late, early, run
  <2> QED BY <1>10, <1>12, AddUpBack
<1>17. SplitAddsUp(c, fills, pair)
       <=> /\ pair[1].bars + pair[2].bars = N - Window + 1
           /\ pair[1].entries + pair[2].entries = EntryCount(fills) - early.entries
           /\ pair[1].closes + pair[2].closes = run.closes - early.closes
           /\ pair[1].wins + pair[2].wins = run.wins - early.wins
           /\ pair[1].traded + pair[2].traded = Notional(fills) - early.traded
  <2> HIDE DEF pair
  <2> QED BY DEF SplitAddsUp
<1> HIDE DEF one, two, late, early, run
<1>18. SplitAddsUp(c, fills, pair) BY <1>11, <1>13, <1>14, <1>15, <1>16, <1>17
<1> QED BY <1>18 DEF one, two

(* The regimes of every run partition it, however its bars are labelled          *)
(* (compute_regime_report, _regime_trade_stats).                               *)
THEOREM RegimesAlwaysPartition ==
  ASSUME NEW T \in SUBSET Nat, IsFiniteSet(T), NEW c, DOMAIN c = T, NEW n \in Nat,
         NEW fills, DOMAIN fills = 1 .. n, \A i \in 1 .. n : fills[i] \in Fills /\ fills[i].ts \in T
  PROVE  RegimesPartition(c, fills)
<1> DEFINE x == RegimeReport(c, fills)
           r == DailyReturns(c)
           Split(indices) == <<Regime(c, fills, indices), Regime(c, fills, Classified(r) \ indices)>>
           V == ReachesMedian(Volatility(r))
           D == ReachesMedian(Trend(r))
<1>1. x = IF Len(r) < Window THEN Absent ELSE [vol |-> Split(V), trend |-> Split(D)] BY DEF RegimeReport
<1>2. Len(r) \in Nat /\ Window \in Nat
  <2>1. Len(r) = IF T = {} THEN 0 ELSE Cardinality(T) - 1 BY ReturnsOf
  <2>2. Cardinality(T) \in Nat /\ (T # {} => Cardinality(T) # 0) BY FS_CardinalityType, FS_EmptySet
  <2>3. Window \in Nat BY MetricsAssumption
  <2> HIDE DEF r
  <2> QED BY <2>1, <2>2, <2>3
<1>3. SUFFICES ASSUME x # Absent PROVE SplitAddsUp(c, fills, x.vol) /\ SplitAddsUp(c, fills, x.trend)
  BY DEF RegimesPartition
<1>4. Len(r) >= Window
  <2> HIDE DEF r, x
  <2>1. ~(Len(r) < Window) BY <1>1, <1>3
  <2> QED BY <1>2, <2>1
<1>5. V \in SUBSET Classified(r)
  <2>1. DOMAIN Volatility(r) = Classified(r) BY DEF Volatility
  <2>2. V \in SUBSET DOMAIN Volatility(r) BY DEF ReachesMedian
  <2> QED BY <2>1, <2>2
<1>6. D \in SUBSET Classified(r)
  <2>1. DOMAIN Trend(r) = Classified(r) BY DEF Trend
  <2>2. D \in SUBSET DOMAIN Trend(r) BY DEF ReachesMedian
  <2> QED BY <2>1, <2>2
<1> HIDE DEF V, D
<1>7. SplitAddsUp(c, fills, Split(V)) BY <1>4, <1>5, EverySplit
<1>8. SplitAddsUp(c, fills, Split(D)) BY <1>4, <1>6, EverySplit
<1>9. x.vol = Split(V) /\ x.trend = Split(D)
  <2> DEFINE p == Split(V)
             q == Split(D)
  <2>1. ~(Len(r) < Window) BY <1>2, <1>4
  <2>2. x = [vol |-> p, trend |-> q] BY <1>1, <2>1
  <2> HIDE DEF p, q, x
  <2>3. x.vol = p /\ x.trend = q BY <2>2
  <2> QED BY <2>3 DEF p, q
<1> HIDE DEF x
<1> QED BY <1>7, <1>8, <1>9

(* The curves and the blotters of the instance are those of the theorems above.  *)
RunFills == {f \in Fills : f.ts \in 1 .. 5}

LEMMA BlottersAreFills == \A f \in Blotters : f \in Seq(RunFills)
<1>1. ASSUME NEW t \in {2, 3, 4, 5}, NEW s \in {"BUY", "SELL"}, NEW q \in 1 .. 3, NEW p \in 1 .. 3
      PROVE  Fill(t, s, q, p) \in RunFills
  <2>1. t \in Nat /\ t \in 1 .. 5 /\ q \in Nat /\ p \in Nat OBVIOUS
  <2> QED BY <2>1 DEF Fill, Fills, RunFills
<1> DEFINE days == {<<2, 2, 3>>, <<2, 3, 4>>, <<2, 4, 5>>, <<4, 4, 5>>}
           Opened(t, q) == <<Fill(t[1], "BUY", 1, 1), Fill(t[2], "BUY", 1, 3), Fill(t[3], "SELL", q, 2)>>
           Reopened(again) == IF again THEN <<Fill(5, "BUY", 1, 1)>> ELSE <<>>
<1>2. ASSUME NEW t \in days, NEW q \in 1 .. 2, NEW again \in BOOLEAN
      PROVE  Opened(t, q) \o Reopened(again) \in Seq(RunFills)
  <2>1. t[1] \in {2, 3, 4, 5} /\ t[2] \in {2, 3, 4, 5} /\ t[3] \in {2, 3, 4, 5} OBVIOUS
  <2>2. q \in 1 .. 3 /\ 1 \in 1 .. 3 /\ 2 \in 1 .. 3 /\ 3 \in 1 .. 3 /\ 5 \in {2, 3, 4, 5} OBVIOUS
  <2> DEFINE x == Fill(t[1], "BUY", 1, 1)
             y == Fill(t[2], "BUY", 1, 3)
             z == Fill(t[3], "SELL", q, 2)
             u == Fill(5, "BUY", 1, 1)
  <2>3. x \in RunFills /\ y \in RunFills /\ z \in RunFills /\ u \in RunFills BY <1>1, <2>1, <2>2
  <2> HIDE DEF x, y, z, u
  <2>4. <<x, y, z>> \in Seq(RunFills) /\ <<u>> \in Seq(RunFills) /\ <<>> \in Seq(RunFills) BY <2>3
  <2>5. \A a, b \in Seq(RunFills) : a \o b \in Seq(RunFills) OBVIOUS
  <2>6. Opened(t, q) = <<x, y, z>> BY DEF x, y, z
  <2>7. Reopened(again) \in Seq(RunFills) BY <2>4 DEF u
  <2> HIDE DEF Opened, Reopened
  <2> QED BY <2>4, <2>5, <2>6, <2>7
<1>3. Blotters = {Opened(t, q) \o Reopened(again) : t \in days, q \in 1 .. 2, again \in BOOLEAN}
  BY DEF Blotters
<1>4. SUFFICES ASSUME NEW f \in Blotters PROVE f \in Seq(RunFills) OBVIOUS
<1>5. PICK t \in days, q \in 1 .. 2, again \in BOOLEAN : f = Opened(t, q) \o Reopened(again)
  <2> HIDE DEF days, Opened, Reopened
  <2> QED BY <1>3
<1> HIDE DEF days, Opened, Reopened
<1> QED BY <1>2, <1>5

LEMMA ValuesArePositive ==
  ASSUME NEW c \in [1 .. 5 -> {1, 2, 4}]
  PROVE  Values(c) \in [1 .. 5 -> Positive]
<1>1. IsFiniteSet(1 .. 5) /\ Cardinality(1 .. 5) = 5
  <2>1. 5 \in Nat OBVIOUS
  <2> QED BY <2>1, UpTo
<1>2. DOMAIN c = 1 .. 5 /\ 1 .. 5 \in SUBSET Nat OBVIOUS
<1>3. DOMAIN Stamps(c) = 1 .. 5 /\ \A i \in 1 .. 5 : Stamps(c)[i] \in 1 .. 5
  BY <1>1, <1>2, AscendingIs DEF Stamps
<1>4. Values(c) = [i \in 1 .. 5 |-> c[Stamps(c)[i]]] BY <1>3 DEF Values
<1>5. \A i \in 1 .. 5 : c[Stamps(c)[i]] \in Positive BY <1>3 DEF Positive
<1> QED BY <1>4, <1>5

(* The figures of every run: its regimes partition it, its drawdown is the         *)
(* deepest fall of its curve and its cost budget a ceiling (compute_regime_report, *)
(* max_drawdown, assess_cost_budget), with the curve picked one of the instance.   *)
CurveIsPicked == study.of = "curve" => study.curve \in [1 .. 5 -> {1, 2, 4}]

RunsAreMeasured == CurveIsPicked /\ RegimesAddUp /\ FallsAndCostsAreExact

LEMMA RunsStayMeasured == Spec => []RunsAreMeasured
<1>1. Init => RunsAreMeasured
  <2> SUFFICES ASSUME study = [of |-> "none"] PROVE RunsAreMeasured BY DEF Init
  <2>1. study.of = "none" OBVIOUS
  <2> QED BY <2>1 DEF RunsAreMeasured, CurveIsPicked, RegimesAddUp, FallsAndCostsAreExact
<1>2. ASSUME RunsAreMeasured, [Next]_<<study, strategy, book>> PROVE RunsAreMeasured'
  <2>1. CASE StudyRun
    <3>1. study.curve \in [1 .. 5 -> {1, 2, 4}]
      BY <1>2, <2>1 DEF StudyRun, RunsAreMeasured, CurveIsPicked
    <3>2. PICK f \in Blotters : study' = [of |-> "run", curve |-> study.curve, fills |-> f]
      BY <2>1 DEF StudyRun
    <3> DEFINE c == study.curve
               v == Values(c)
               rate == [i \in DOMAIN f |-> i % 2]
    <3>3. study'.of = "run" /\ study'.curve = c /\ study'.fills = f BY <3>2
    <3>4. f \in Seq(RunFills) BY BlottersAreFills
    <3>5. PICK n \in Nat : DOMAIN f = 1 .. n /\ \A i \in 1 .. n : f[i] \in RunFills BY <3>4
    <3>6. f \in Seq(Fills)
      <4>1. RunFills \subseteq Fills BY DEF RunFills
      <4>2. f = [i \in 1 .. n |-> f[i]]
        <5>1. f = [i \in 1 .. Len(f) |-> f[i]] /\ DOMAIN f = 1 .. Len(f) BY <3>4
        <5> QED BY <3>5, <5>1
      <4>3. \A i \in 1 .. n : f[i] \in Fills BY <3>5, <4>1
      <4>4. f \in [1 .. n -> Fills] BY <4>2, <4>3
      <4> QED BY <4>4
    <3>7. \A i \in 1 .. n : f[i] \in Fills /\ f[i].ts \in 1 .. 5 BY <3>5 DEF RunFills
    <3>8. IsFiniteSet(1 .. 5) /\ 1 .. 5 \in SUBSET Nat /\ DOMAIN c = 1 .. 5
      <4>1. 5 \in Nat OBVIOUS
      <4>2. IsFiniteSet(1 .. 5) BY <4>1, UpTo
      <4>3. 1 .. 5 \in SUBSET Nat OBVIOUS
      <4>4. DOMAIN c = 1 .. 5 BY <3>1
      <4> QED BY <4>2, <4>3, <4>4
    <3>9. v \in [1 .. 5 -> Positive] BY <3>1, ValuesArePositive
    <3> HIDE DEF c, v
    <3>10. RegimesPartition(c, f) BY <3>5, <3>7, <3>8, RegimesAlwaysPartition
    <3>11. 5 \in Positive BY DEF Positive
    <3>12. DrawdownIsTheDeepestFall(v) BY <3>9, <3>11, EveryDrawdownIsTheDeepest
    <3>13. v \in Seq(Int)
      <4>1. Positive \subseteq Int /\ 5 \in Nat BY DEF Positive
      <4>2. v \in [1 .. 5 -> Int]
        <5>1. \A i \in 1 .. 5 : v[i] \in Int BY <3>9, <4>1
        <5>2. v = [i \in 1 .. 5 |-> v[i]] BY <3>9
        <5> QED BY <5>1, <5>2
      <4>3. PICK k \in Nat : k = 5 OBVIOUS
      <4>4. v \in [1 .. k -> Int] BY <4>2, <4>3
      <4> QED BY <4>4
    <3>14. rate \in [DOMAIN f -> Nat]
      <4>1. \A i \in 1 .. n : i % 2 \in Nat OBVIOUS
      <4> QED BY <3>5, <4>1
    <3> HIDE DEF rate
    <3>15. BudgetIsTheCeiling(f, v, rate, 1)
      <4>1. 1 \in Nat OBVIOUS
      <4> QED BY <3>6, <3>13, <3>14, <4>1, EveryBudgetIsItsCeiling
    <3>16. RegimesAddUp' BY <3>3, <3>10 DEF RegimesAddUp
    <3>17. FallsAndCostsAreExact'
      <4>1. FallsAndCostsAreExact' <=>
              (study'.of = "run" =>
                 /\ DrawdownIsTheDeepestFall(Values(study'.curve))
                 /\ BudgetIsTheCeiling(study'.fills, Values(study'.curve), [i \in DOMAIN study'.fills |-> i % 2], 1))
        BY DEF FallsAndCostsAreExact
      <4> QED BY <3>3, <3>12, <3>15, <4>1 DEF v, rate
    <3>18. CurveIsPicked'
      <4>1. study'.of # "curve" BY <3>3
      <4> QED BY <4>1 DEF CurveIsPicked
    <3> QED BY <3>16, <3>17, <3>18 DEF RunsAreMeasured
  <2>2. CASE StudyCurve
    <3>1. PICK c \in Curves(1 .. 5) : study' = [of |-> "curve", curve |-> c] BY <2>2 DEF StudyCurve
    <3>2. study'.of = "curve" /\ study'.curve = c BY <3>1
    <3>3. c \in [1 .. 5 -> {1, 2, 4}] BY DEF Curves
    <3>4. study'.of # "run" BY <3>2
    <3>5. CurveIsPicked' BY <3>2, <3>3 DEF CurveIsPicked
    <3>6. RegimesAddUp' /\ FallsAndCostsAreExact' BY <3>4 DEF RegimesAddUp, FallsAndCostsAreExact
    <3> QED BY <3>5, <3>6 DEF RunsAreMeasured
  <2>3. CASE ~StudyRun /\ ~StudyCurve /\ study' # study
    <3>1. study'.of # "run" /\ study'.of # "curve"
      <4>1. Study BY <1>2, <2>3 DEF Next
      <4>2. CASE StudyRecords BY <4>2 DEF StudyRecords
      <4>3. CASE StudySweep \/ StudyFolds BY <4>3, SearchesAreApart
      <4>4. CASE StudyCosts BY <4>4 DEF StudyCosts
      <4>5. CASE StudySplit BY <4>5 DEF StudySplit
      <4>6. CASE StudySources BY <4>6 DEF StudySources
      <4>7. CASE StudyPair BY <4>7 DEF StudyPair
      <4>8. CASE StudySignificance BY <4>8 DEF StudySignificance
      <4> QED BY <2>3, <4>1, <4>2, <4>3, <4>4, <4>5, <4>6, <4>7, <4>8 DEF Study
    <3> QED BY <3>1 DEF RunsAreMeasured, CurveIsPicked, RegimesAddUp, FallsAndCostsAreExact
  <2>4. CASE study' = study
    BY <1>2, <2>4 DEF RunsAreMeasured, CurveIsPicked, RegimesAddUp, FallsAndCostsAreExact
  <2> QED BY <2>1, <2>2, <2>3, <2>4
<1> QED BY <1>1, <1>2, PTL DEF Spec

(* The regimes of a run partition its bars and its fills, its drawdown is the      *)
(* deepest fall of its curve, and its cost budget the ceiling of its turnover      *)
(* (_regime_trade_stats, max_drawdown, assess_cost_budget).                       *)
THEOREM RunsStayExact == Spec => []RunIsMeasured
<1>1. RunsAreMeasured => RunIsMeasured BY DEF RunsAreMeasured, RunIsMeasured
<1> QED BY <1>1, RunsStayMeasured, PTL
=============================================================================
