---------------------------- MODULE ShadowProofs ----------------------------
(***************************************************************************)
(* What is proved of ShadowAlpaca, for every set of orders, every account    *)
(* the session opens with and every number of bars.                          *)
(*                                                                          *)
(* The broker underneath keeps BrokerInv (AlpacaProofs); Watch is what the   *)
(* shadow relies on besides: which orders may get an answer from on_bar      *)
(* (Due), no two of them of one symbol and side, and each with an object of  *)
(* its own.  The attribution is two folds, seen here as sequences of states  *)
(* (FillStates, RejectionStates); FillsLand and RejectionsLand say where     *)
(* every answer goes when each has one row it can go to, and SeenIs that on  *)
(* a bar of ShadowAlpaca each has.                                           *)
(***************************************************************************)
EXTENDS ShadowAlpaca, AlpacaProofs

-----------------------------------------------------------------------------
(* The broker underneath. *)

LEMMA BrokerMoves == [ShadowedNext]_allVars => [Next]_vars
<1>1. ASSUME NEW ask \in Asks, ShadowSubmit(ask) PROVE Next
  BY <1>1 DEF ShadowSubmit, Next
<1>2. CASE ShadowStartBar BY <1>2 DEF ShadowStartBar, Next
<1>3. CASE ShadowEndBar BY <1>3 DEF ShadowEndBar, Next, OnBar
<1>4. CASE Alone BY <1>4 DEF Alone, Next, OnBar
<1>5. CASE UNCHANGED allVars BY <1>5 DEF allVars
<1> QED BY <1>1, <1>2, <1>3, <1>4, <1>5 DEF ShadowedNext

-----------------------------------------------------------------------------
(* The attribution as two recursions along lists. *)

FillStep(rows, list, t, g) ==
  g = [T \in SUBSET DOMAIN list |->
         IF T = {} THEN [rows |-> rows, strays |-> <<>>]
         ELSE Shadow!TakeFill(g[T \ {Shadow!Max(T)}], list[Shadow!Max(T)], t)]

FillsTaken(rows, list, t) == (CHOOSE g : FillStep(rows, list, t, g))[DOMAIN list]

RejectionStep(state, list, t, g) ==
  g = [T \in SUBSET DOMAIN list |->
         IF T = {} THEN state
         ELSE Shadow!TakeRejection(g[T \ {Shadow!Max(T)}], list[Shadow!Max(T)], t)]

RejectionsTaken(state, list, t) == (CHOOSE g : RejectionStep(state, list, t, g))[DOMAIN list]

LEMMA AttributedIs ==
  ASSUME NEW rows, NEW f, NEW r, NEW t
  PROVE  Shadow!Attributed(rows, f, r, t) = RejectionsTaken(FillsTaken(rows, f, t), r, t)
BY DEF Shadow!Attributed, Shadow!FoldLeft, Shadow!MapThenFoldSet, FillStep, RejectionStep,
       FillsTaken, RejectionsTaken

-----------------------------------------------------------------------------
(* The attribution: one answer. *)

LEMMA GreatestMember ==
  ASSUME NEW n \in Nat, NEW T \in SUBSET (1..n), T # {}
  PROVE  Shadow!Max(T) \in T
<1> DEFINE U == {n - x : x \in T}
<1>1. U \in SUBSET Nat /\ U # {}
  <2>1. \A x \in T : n - x \in Nat OBVIOUS
  <2> QED BY <2>1
<1>2. \A u \in U : \E x \in T : u = n - x OBVIOUS
<1>5. \A x \in T : n - x \in U OBVIOUS
<1> HIDE DEF U
<1>3. PICK m \in U : \A u \in U : m <= u BY <1>1, LeastMember
<1>4. PICK x \in T : m = n - x BY <1>2
<1>6. \A y \in T : x >= y
  <2>1. ASSUME NEW y \in T PROVE x >= y
    <3>1. n - x <= n - y BY <1>3, <1>4, <1>5
    <3>2. x \in Nat /\ y \in Nat OBVIOUS
    <3> QED BY <3>1, <3>2
  <2> QED BY <2>1
<1> QED BY <1>6 DEF Shadow!Max

LEMMA GreatestOfPrefix ==
  ASSUME NEW k \in Nat \ {0} PROVE Shadow!Max(1..k) = k
<1>1. k \in 1..k OBVIOUS
<1>2. Shadow!Max(1..k) = CHOOSE x \in 1..k : \A y \in 1..k : x >= y BY DEF Shadow!Max
<1>3. \A y \in 1..k : k >= y OBVIOUS
<1>4. /\ Shadow!Max(1..k) \in 1..k /\ \A y \in 1..k : Shadow!Max(1..k) >= y
  BY <1>1, <1>2, <1>3
<1>5. Shadow!Max(1..k) >= k BY <1>1, <1>4
<1> QED BY <1>4, <1>5

(* The first row that passes a test, or 0.                                   *)
First(I) == IF I # {} THEN Shadow!Min(I) ELSE 0

LEMMA FirstIs ==
  ASSUME NEW I \in SUBSET Nat
  PROVE  /\ I = {} => First(I) = 0
         /\ I # {} => First(I) \in I
<1>1. ASSUME I # {} PROVE First(I) \in I
  <2>1. PICK m \in I : \A k \in I : m <= k BY <1>1, LeastMember
  <2> QED BY <1>1, <2>1 DEF First, Shadow!Min
<1> QED BY <1>1 DEF First

Identity == [ask : Nat, copy : BOOLEAN]
RowType ==
  [order : Identity, symbol : Symbols, side : {"BUY", "SELL"}, qty : Nat \ {0}, since : Nat,
   ref : Nat \cup {None}, live : Shadow!Answers \cup {None}, model : Shadow!Answers \cup {None}]
FillSeen == [symbol : Symbols, side : {"BUY", "SELL"}, qty : Nat, of : Nat]
RejectionSeen == [order : Identity, of : Nat]

States(n) == [rows : [1..n -> RowType], strays : Seq(Nat)]

Unanswered(rows, fill) == {i \in 1..Len(rows) : Shadow!Matches(rows[i], fill)}
Named(rows, rejection) ==
  {i \in 1..Len(rows) : rows[i].live = None /\ rows[i].order = rejection.order}
FilledNow(rows, rejection, t) ==
  {i \in 1..Len(rows) : /\ rows[i].live # None /\ rows[i].order = rejection.order
                        /\ rows[i].live.outcome = "filled" /\ rows[i].live.ts = t}

Put(state, i, answer) == [state EXCEPT !.rows[i].live = answer]
Amend(state, j) == [state EXCEPT !.rows[j].live.outcome = "partial"]
Astray(state, of) == [state EXCEPT !.strays = Append(@, of)]

LEMMA TakeFillIs ==
  ASSUME NEW state, NEW fill, NEW t
  PROVE  LET i == First(Unanswered(state.rows, fill)) IN
         Shadow!TakeFill(state, fill, t)
           = IF i = 0 THEN Astray(state, fill.of)
             ELSE Put(state, i, Shadow!Answer("filled", t, fill.qty, fill.of))
BY DEF Shadow!TakeFill, Shadow!SelectInSeq, Unanswered, First, Astray, Put

LEMMA TakeRejectionIs ==
  ASSUME NEW state, NEW rejection, NEW t
  PROVE  LET i == First(Named(state.rows, rejection))
             j == First(FilledNow(state.rows, rejection, t))
         IN Shadow!TakeRejection(state, rejection, t)
              = IF i # 0 THEN Put(state, i, Shadow!Answer("rejected", t, 0, rejection.of))
                ELSE IF j # 0 THEN Amend(state, j)
                ELSE Astray(state, rejection.of)
BY DEF Shadow!TakeRejection, Shadow!SelectInSeq, Named, FilledNow, First, Amend, Put, Astray

(* One answer more on one row.                                               *)
LEMMA PutIs ==
  ASSUME NEW n \in Nat, NEW state \in States(n), NEW i \in 1..n, NEW answer \in Shadow!Answers
  PROVE  /\ Put(state, i, answer) \in States(n)
         /\ Put(state, i, answer).strays = state.strays
         /\ \A k \in 1..n \ {i} : Put(state, i, answer).rows[k] = state.rows[k]
         /\ Put(state, i, answer).rows[i] = [state.rows[i] EXCEPT !.live = answer]
<1> DEFINE row == [state.rows[i] EXCEPT !.live = answer]
           rows == [state.rows EXCEPT ![i] = row]
           new == [state EXCEPT !.rows = rows]
<1>1. Put(state, i, answer) = new BY DEF Put
<1>2. state.rows \in [1..n -> RowType] /\ state.strays \in Seq(Nat) BY DEF States
<1>3. row \in RowType BY <1>2 DEF RowType
<1> HIDE DEF row
<1>4. rows \in [1..n -> RowType] /\ rows[i] = row /\ \A k \in 1..n \ {i} : rows[k] = state.rows[k]
  BY <1>2, <1>3
<1> HIDE DEF rows
<1>5. new \in States(n) /\ new.rows = rows /\ new.strays = state.strays BY <1>2, <1>4 DEF States
<1> QED BY <1>1, <1>4, <1>5 DEF row

LEMMA AmendIs ==
  ASSUME NEW n \in Nat, NEW state \in States(n), NEW i \in 1..n, state.rows[i].live \in Shadow!Answers
  PROVE  Amend(state, i) = Put(state, i, [state.rows[i].live EXCEPT !.outcome = "partial"])
<1> DEFINE answer == [state.rows[i].live EXCEPT !.outcome = "partial"]
           row == [state.rows[i] EXCEPT !.live = answer]
<1>1. Amend(state, i) = [state EXCEPT !.rows = [state.rows EXCEPT ![i] = row]] BY DEF Amend
<1> HIDE DEF answer
<1>2. Put(state, i, answer) = [state EXCEPT !.rows = [state.rows EXCEPT ![i] = row]] BY DEF Put
<1> HIDE DEF row
<1> QED BY <1>1, <1>2 DEF answer

LEMMA AstrayIs ==
  ASSUME NEW n \in Nat, NEW state \in States(n), NEW of \in Nat
  PROVE  Astray(state, of) \in States(n)
<1>1. Append(state.strays, of) \in Seq(Nat) BY DEF States
<1> QED BY <1>1 DEF Astray, States

LEMMA AnswerType ==
  ASSUME NEW outcome \in {"filled", "rejected", "partial"}, NEW t \in Nat, NEW qty \in Nat, NEW of \in Nat
  PROVE  Shadow!Answer(outcome, t, qty, of) \in Shadow!Answers
BY DEF Shadow!Answer, Shadow!Answers

LEMMA AmendedType ==
  ASSUME NEW answer \in Shadow!Answers
  PROVE  [answer EXCEPT !.outcome = "partial"] \in Shadow!Answers
BY DEF Shadow!Answers

LEMMA StateRows ==
  ASSUME NEW n \in Nat, NEW state \in States(n)
  PROVE  Len(state.rows) = n /\ DOMAIN state.rows = 1..n /\ \A i \in 1..n : state.rows[i] \in RowType
BY DEF States

LEMMA TakeFillType ==
  ASSUME NEW n \in Nat, NEW state \in States(n), NEW fill \in FillSeen, NEW t \in Nat
  PROVE  Shadow!TakeFill(state, fill, t) \in States(n)
<1> DEFINE I == Unanswered(state.rows, fill)
           i == First(I)
           answer == Shadow!Answer("filled", t, fill.qty, fill.of)
<1>1. I \in SUBSET (1..n) BY StateRows DEF Unanswered
<1>2. fill.of \in Nat /\ answer \in Shadow!Answers BY AnswerType DEF FillSeen
<1>3. Shadow!TakeFill(state, fill, t) = IF i = 0 THEN Astray(state, fill.of) ELSE Put(state, i, answer)
  BY TakeFillIs
<1> HIDE DEF I, answer
<1>4. I \in SUBSET Nat BY <1>1
<1>5. i = 0 \/ i \in 1..n BY <1>1, <1>4, FirstIs
<1> HIDE DEF i
<1>6. CASE i = 0
  <2>1. Shadow!TakeFill(state, fill, t) = Astray(state, fill.of) BY <1>3, <1>6
  <2> QED BY <1>2, <2>1, AstrayIs
<1>7. CASE i \in 1..n
  <2>1. i # 0 BY <1>7
  <2>2. Shadow!TakeFill(state, fill, t) = Put(state, i, answer) BY <1>3, <2>1
  <2>3. Put(state, i, answer) \in States(n) BY <1>2, <1>7, PutIs
  <2> QED BY <2>2, <2>3
<1> QED BY <1>5, <1>6, <1>7

LEMMA TakeRejectionType ==
  ASSUME NEW n \in Nat, NEW state \in States(n), NEW rejection \in RejectionSeen, NEW t \in Nat
  PROVE  Shadow!TakeRejection(state, rejection, t) \in States(n)
<1> DEFINE I == Named(state.rows, rejection)
           J == FilledNow(state.rows, rejection, t)
           i == First(I)
           j == First(J)
           answer == Shadow!Answer("rejected", t, 0, rejection.of)
<1>1. I \in SUBSET (1..n) /\ J \in SUBSET (1..n) BY StateRows DEF Named, FilledNow
<1>2. rejection.of \in Nat /\ answer \in Shadow!Answers BY AnswerType DEF RejectionSeen
<1>3. Shadow!TakeRejection(state, rejection, t)
        = IF i # 0 THEN Put(state, i, answer)
          ELSE IF j # 0 THEN Amend(state, j) ELSE Astray(state, rejection.of)
  BY TakeRejectionIs
<1>4. \A k \in J : state.rows[k].live # None BY DEF FilledNow
<1> HIDE DEF I, J, answer
<1>5. I \in SUBSET Nat /\ J \in SUBSET Nat BY <1>1
<1>6. i = 0 \/ i \in 1..n BY <1>1, <1>5, FirstIs
<1>7. j = 0 \/ (j \in 1..n /\ state.rows[j].live # None) BY <1>1, <1>4, <1>5, FirstIs
<1> HIDE DEF i, j
<1>8. ASSUME j \in 1..n, state.rows[j].live # None PROVE Amend(state, j) \in States(n)
  <2>1. state.rows[j] \in RowType BY <1>8, StateRows
  <2>2. state.rows[j].live \in Shadow!Answers BY <1>8, <2>1 DEF RowType
  <2>3. [state.rows[j].live EXCEPT !.outcome = "partial"] \in Shadow!Answers BY <2>2, AmendedType
  <2> DEFINE amended == [state.rows[j].live EXCEPT !.outcome = "partial"]
  <2>4. Amend(state, j) = Put(state, j, amended) BY <1>8, <2>2, AmendIs
  <2>5. amended \in Shadow!Answers BY <2>3
  <2> HIDE DEF amended
  <2>6. Put(state, j, amended) \in States(n) BY <1>8, <2>5, PutIs
  <2> QED BY <2>4, <2>6
<1>9. CASE i \in 1..n
  <2>1. i # 0 BY <1>9
  <2>2. Shadow!TakeRejection(state, rejection, t) = Put(state, i, answer) BY <1>3, <2>1
  <2>3. Put(state, i, answer) \in States(n) BY <1>2, <1>9, PutIs
  <2> QED BY <2>2, <2>3
<1>10. CASE i = 0 /\ j = 0
  <2>1. Shadow!TakeRejection(state, rejection, t) = Astray(state, rejection.of) BY <1>3, <1>10
  <2> QED BY <1>2, <2>1, AstrayIs
<1>11. CASE i = 0 /\ j \in 1..n /\ state.rows[j].live # None
  <2>1. j # 0 BY <1>11
  <2>2. Shadow!TakeRejection(state, rejection, t) = Amend(state, j) BY <1>3, <1>11, <2>1
  <2> QED BY <1>8, <1>11, <2>2
<1> QED BY <1>6, <1>7, <1>9, <1>10, <1>11

Empty(rows) == [rows |-> rows, strays |-> <<>>]

LEMMA SequenceDomain ==
  ASSUME NEW X, NEW s \in Seq(X)
  PROVE  /\ Len(s) \in Nat /\ DOMAIN s = 1..Len(s) /\ IsFiniteSet(1..Len(s))
         /\ \A i \in 1..Len(s) : s[i] \in X
BY FS_Interval

(* One after the other: the states between two fills.                        *)
LEMMA FillStates ==
  ASSUME NEW n \in Nat, NEW rows \in [1..n -> RowType], NEW list \in Seq(FillSeen), NEW t \in Nat
  PROVE  \E st :
           /\ \A k \in 0..Len(list) : st[k] \in States(n)
           /\ st[0] = Empty(rows)
           /\ \A k \in 0..Len(list) - 1 : st[k + 1] = Shadow!TakeFill(st[k], list[k + 1], t)
           /\ FillsTaken(rows, list, t) = st[Len(list)]
<1> DEFINE N == Len(list)
           S == 1..N
           V == States(n)
           c == [T \in SUBSET S |-> Shadow!Max(T)]
           F == [p \in S \X V |-> Shadow!TakeFill(p[2], list[p[1]], t)]
           base == Empty(rows)
<1>1. N \in Nat /\ DOMAIN list = S /\ IsFiniteSet(S) /\ \A i \in S : list[i] \in FillSeen
  BY SequenceDomain
<1>2. base \in V BY DEF States, Empty
<1>3. \A T \in SUBSET S : T # {} => c[T] \in T BY <1>1, GreatestMember
<1>4. F \in [S \X V -> V]
  <2>1. \A p \in S \X V : p[1] \in S /\ p[2] \in V OBVIOUS
  <2>2. \A p \in S \X V : Shadow!TakeFill(p[2], list[p[1]], t) \in V
    <3> HIDE DEF S, V
    <3>1. ASSUME NEW p \in S \X V PROVE Shadow!TakeFill(p[2], list[p[1]], t) \in V
      <4>1. p[2] \in States(n) /\ list[p[1]] \in FillSeen BY <1>1, <2>1 DEF V
      <4> QED BY <4>1, TakeFillType DEF V
    <3> QED BY <3>1
  <2> QED BY <2>2
<1>5. \A k \in S, v \in V : F[<<k, v>>] = Shadow!TakeFill(v, list[k], t) OBVIOUS
<1>6. \A T \in SUBSET S : c[T] = Shadow!Max(T) OBVIOUS
<1> HIDE DEF c, F, V
<1>7. PICK h \in [SUBSET S -> V] : Recursion(S, base, c, F, h)
  BY <1>1, <1>2, <1>3, <1>4, RecursionExists
<1>8. FillStep(rows, list, t, h)
  <2>1. ASSUME NEW T \in SUBSET S
        PROVE  h[T] = IF T = {} THEN base
                      ELSE Shadow!TakeFill(h[T \ {Shadow!Max(T)}], list[Shadow!Max(T)], t)
    <3>1. h[T] = IF T = {} THEN base ELSE F[<<c[T], h[T \ {c[T]}]>>] BY <1>7 DEF Recursion
    <3>2. ASSUME T # {}
          PROVE F[<<c[T], h[T \ {c[T]}]>>] = Shadow!TakeFill(h[T \ {c[T]}], list[c[T]], t)
      <4>1. c[T] \in S BY <1>3, <3>2
      <4>2. h[T \ {c[T]}] \in V BY <1>7
      <4> QED BY <1>5, <4>1, <4>2
    <3> QED BY <1>6, <3>1, <3>2
  <2>2. h = [T \in SUBSET S |-> h[T]] BY <1>7
  <2> QED BY <1>1, <2>1, <2>2 DEF FillStep, Empty
<1> DEFINE g == CHOOSE k : FillStep(rows, list, t, k)
<1>9. FillStep(rows, list, t, g) BY <1>8
<1>10. FillsTaken(rows, list, t) = g[S] BY <1>1 DEF FillsTaken
<1> HIDE DEF g
<1>11. g[{}] = base BY <1>9 DEF FillStep, Empty
<1>12. ASSUME NEW k \in 0..N - 1 PROVE g[1..(k + 1)] = Shadow!TakeFill(g[1..k], list[k + 1], t)
  <2> DEFINE T == 1..(k + 1)
  <2>1. T \in SUBSET S /\ T # {} /\ k + 1 \in Nat \ {0} BY <1>1
  <2>2. T \ {k + 1} = 1..k BY <1>1
  <2>3. Shadow!Max(T) = k + 1 BY <2>1, GreatestOfPrefix
  <2> HIDE DEF T
  <2>4. g[T] = Shadow!TakeFill(g[T \ {Shadow!Max(T)}], list[Shadow!Max(T)], t)
    BY <1>1, <1>9, <2>1 DEF FillStep
  <2> QED BY <2>2, <2>3, <2>4 DEF T
<1> DEFINE st == [k \in 0..N |-> g[1..k]]
<1>13. /\ st[0] = base /\ st[N] = FillsTaken(rows, list, t)
       /\ \A k \in 0..N - 1 : st[k + 1] = Shadow!TakeFill(st[k], list[k + 1], t)
  <2>1. 1..0 = {} /\ 0 \in 0..N /\ N \in 0..N BY <1>1
  <2>2. \A k \in 0..N - 1 : k \in 0..N /\ k + 1 \in 0..N BY <1>1
  <2> HIDE DEF N
  <2> QED BY <1>10, <1>11, <1>12, <2>1, <2>2
<1> HIDE DEF st
<1>14. \A k \in 0..N : st[k] \in States(n)
  <2> DEFINE P == {k \in Nat : k <= N => st[k] \in States(n)}
  <2>1. 0 \in P BY <1>2, <1>13 DEF V
  <2>2. ASSUME NEW k \in P PROVE k + 1 \in P
    <3>1. ASSUME k + 1 <= N PROVE st[k + 1] \in States(n)
      <4>1. k \in 0..N - 1 /\ k + 1 \in S /\ k <= N BY <1>1, <3>1
      <4>2. st[k] \in States(n) /\ list[k + 1] \in FillSeen BY <1>1, <4>1
      <4> QED BY <1>13, <4>1, <4>2, TakeFillType
    <3> QED BY <3>1
  <2>3. P \in SUBSET Nat OBVIOUS
  <2> HIDE DEF P
  <2>4. P = Nat BY <2>1, <2>2, <2>3, SetOfNaturals
  <2>5. \A k \in 0..N : k \in Nat /\ k <= N BY <1>1
  <2> QED BY <2>4, <2>5 DEF P
<1> QED BY <1>13, <1>14
(* And between two rejections.                                               *)
LEMMA RejectionStates ==
  ASSUME NEW n \in Nat, NEW base \in States(n), NEW list \in Seq(RejectionSeen), NEW t \in Nat
  PROVE  \E st :
           /\ \A k \in 0..Len(list) : st[k] \in States(n)
           /\ st[0] = base
           /\ \A k \in 0..Len(list) - 1 : st[k + 1] = Shadow!TakeRejection(st[k], list[k + 1], t)
           /\ RejectionsTaken(base, list, t) = st[Len(list)]
<1> DEFINE N == Len(list)
           S == 1..N
           V == States(n)
           c == [T \in SUBSET S |-> Shadow!Max(T)]
           F == [p \in S \X V |-> Shadow!TakeRejection(p[2], list[p[1]], t)]
<1>1. N \in Nat /\ DOMAIN list = S /\ IsFiniteSet(S) /\ \A i \in S : list[i] \in RejectionSeen
  BY SequenceDomain
<1>2. base \in V BY DEF V
<1>3. \A T \in SUBSET S : T # {} => c[T] \in T BY <1>1, GreatestMember
<1>4. F \in [S \X V -> V]
  <2>1. \A p \in S \X V : p[1] \in S /\ p[2] \in V OBVIOUS
  <2>2. \A p \in S \X V : Shadow!TakeRejection(p[2], list[p[1]], t) \in V
    <3> HIDE DEF S, V
    <3>1. ASSUME NEW p \in S \X V PROVE Shadow!TakeRejection(p[2], list[p[1]], t) \in V
      <4>1. p[2] \in States(n) /\ list[p[1]] \in RejectionSeen BY <1>1, <2>1 DEF V
      <4> QED BY <4>1, TakeRejectionType DEF V
    <3> QED BY <3>1
  <2> QED BY <2>2
<1>5. \A k \in S, v \in V : F[<<k, v>>] = Shadow!TakeRejection(v, list[k], t) OBVIOUS
<1>6. \A T \in SUBSET S : c[T] = Shadow!Max(T) OBVIOUS
<1> HIDE DEF c, F, V
<1>7. PICK h \in [SUBSET S -> V] : Recursion(S, base, c, F, h)
  BY <1>1, <1>2, <1>3, <1>4, RecursionExists
<1>8. RejectionStep(base, list, t, h)
  <2>1. ASSUME NEW T \in SUBSET S
        PROVE  h[T] = IF T = {} THEN base
                      ELSE Shadow!TakeRejection(h[T \ {Shadow!Max(T)}], list[Shadow!Max(T)], t)
    <3>1. h[T] = IF T = {} THEN base ELSE F[<<c[T], h[T \ {c[T]}]>>] BY <1>7 DEF Recursion
    <3>2. ASSUME T # {}
          PROVE F[<<c[T], h[T \ {c[T]}]>>] = Shadow!TakeRejection(h[T \ {c[T]}], list[c[T]], t)
      <4>1. c[T] \in S BY <1>3, <3>2
      <4>2. h[T \ {c[T]}] \in V BY <1>7
      <4> QED BY <1>5, <4>1, <4>2
    <3> QED BY <1>6, <3>1, <3>2
  <2>2. h = [T \in SUBSET S |-> h[T]] BY <1>7
  <2> QED BY <1>1, <2>1, <2>2 DEF RejectionStep
<1> DEFINE g == CHOOSE k : RejectionStep(base, list, t, k)
<1>9. RejectionStep(base, list, t, g) BY <1>8
<1>10. RejectionsTaken(base, list, t) = g[S] BY <1>1 DEF RejectionsTaken
<1> HIDE DEF g
<1>11. g[{}] = base BY <1>9 DEF RejectionStep
<1>12. ASSUME NEW k \in 0..N - 1 PROVE g[1..(k + 1)] = Shadow!TakeRejection(g[1..k], list[k + 1], t)
  <2> DEFINE T == 1..(k + 1)
  <2>1. T \in SUBSET S /\ T # {} /\ k + 1 \in Nat \ {0} BY <1>1
  <2>2. T \ {k + 1} = 1..k BY <1>1
  <2>3. Shadow!Max(T) = k + 1 BY <2>1, GreatestOfPrefix
  <2> HIDE DEF T
  <2>4. g[T] = Shadow!TakeRejection(g[T \ {Shadow!Max(T)}], list[Shadow!Max(T)], t)
    BY <1>1, <1>9, <2>1 DEF RejectionStep
  <2> QED BY <2>2, <2>3, <2>4 DEF T
<1> DEFINE st == [k \in 0..N |-> g[1..k]]
<1>13. /\ st[0] = base /\ st[N] = RejectionsTaken(base, list, t)
       /\ \A k \in 0..N - 1 : st[k + 1] = Shadow!TakeRejection(st[k], list[k + 1], t)
  <2>1. 1..0 = {} /\ 0 \in 0..N /\ N \in 0..N BY <1>1
  <2>2. \A k \in 0..N - 1 : k \in 0..N /\ k + 1 \in 0..N BY <1>1
  <2> HIDE DEF N
  <2> QED BY <1>10, <1>11, <1>12, <2>1, <2>2
<1> HIDE DEF st
<1>14. \A k \in 0..N : st[k] \in States(n)
  <2> DEFINE P == {k \in Nat : k <= N => st[k] \in States(n)}
  <2>1. 0 \in P BY <1>2, <1>13 DEF V
  <2>2. ASSUME NEW k \in P PROVE k + 1 \in P
    <3>1. ASSUME k + 1 <= N PROVE st[k + 1] \in States(n)
      <4>1. k \in 0..N - 1 /\ k + 1 \in S /\ k <= N BY <1>1, <3>1
      <4>2. st[k] \in States(n) /\ list[k + 1] \in RejectionSeen BY <1>1, <4>1
      <4> QED BY <1>13, <4>1, <4>2, TakeRejectionType
    <3> QED BY <3>1
  <2>3. P \in SUBSET Nat OBVIOUS
  <2> HIDE DEF P
  <2>4. P = Nat BY <2>1, <2>2, <2>3, SetOfNaturals
  <2>5. \A k \in 0..N : k \in Nat /\ k <= N BY <1>1
  <2> QED BY <2>4, <2>5 DEF P
<1> QED BY <1>13, <1>14

-----------------------------------------------------------------------------
(* The attribution: the fills of a bar. *)

LEMMA NoAnswer == \A answer \in Shadow!Answers : answer # None
BY ShadowAssumption

(* Each fill has one row it can go to, a row of its own.                     *)
FillsMatch(n, rows, list, a) ==
  /\ a \in [1..Len(list) -> 1..n]
  /\ \A k \in 1..Len(list) : Shadow!Matches(rows[a[k]], list[k])
  /\ \A k \in 1..Len(list), i \in 1..n : Shadow!Matches(rows[i], list[k]) => i = a[k]
  /\ \A k, l \in 1..Len(list) : a[k] = a[l] => k = l

FilledRow(row, fill, t) == [row EXCEPT !.live = Shadow!Answer("filled", t, fill.qty, fill.of)]

AfterFills(n, rows, list, a, t, k, state) ==
  /\ state \in States(n) /\ state.strays = <<>>
  /\ \A i \in 1..n : (\A l \in 1..k : a[l] # i) => state.rows[i] = rows[i]
  /\ \A l \in 1..k : state.rows[a[l]] = FilledRow(rows[a[l]], list[l], t)

LEMMA FilledRowIs ==
  ASSUME NEW row \in RowType, NEW fill \in FillSeen, NEW t \in Nat
  PROVE  /\ FilledRow(row, fill, t).live = Shadow!Answer("filled", t, fill.qty, fill.of)
         /\ FilledRow(row, fill, t).live # None
         /\ FilledRow(row, fill, t).order = row.order
<1> DEFINE answer == Shadow!Answer("filled", t, fill.qty, fill.of)
<1>1. answer \in Shadow!Answers /\ answer # None BY AnswerType, NoAnswer DEF FillSeen
<1>2. FilledRow(row, fill, t) = [row EXCEPT !.live = answer] BY DEF FilledRow
<1> HIDE DEF answer
<1>3. [row EXCEPT !.live = answer].live = answer /\ [row EXCEPT !.live = answer].order = row.order
  BY DEF RowType
<1> QED BY <1>1, <1>2, <1>3 DEF answer

LEMMA NextFill ==
  ASSUME NEW n \in Nat, NEW rows \in [1..n -> RowType], NEW list \in Seq(FillSeen), NEW t \in Nat,
         NEW a, FillsMatch(n, rows, list, a), NEW k \in 0..Len(list) - 1, NEW state,
         AfterFills(n, rows, list, a, t, k, state)
  PROVE  AfterFills(n, rows, list, a, t, k + 1, Shadow!TakeFill(state, list[k + 1], t))
<1> DEFINE fill == list[k + 1]
           i == a[k + 1]
           I == Unanswered(state.rows, fill)
           answer == Shadow!Answer("filled", t, fill.qty, fill.of)
           new == Shadow!TakeFill(state, fill, t)
<1>1. /\ Len(list) \in Nat /\ k + 1 \in 1..Len(list) /\ k \in Nat
      /\ \A l \in 1..k : l \in 1..Len(list) /\ l # k + 1
      /\ \A l \in 1..(k + 1) : l \in 1..k \/ l = k + 1
  OBVIOUS
<1>2. fill \in FillSeen /\ answer \in Shadow!Answers
  <2>1. fill \in FillSeen BY <1>1
  <2>2. fill.qty \in Nat /\ fill.of \in Nat BY <2>1 DEF FillSeen
  <2> HIDE DEF fill
  <2> QED BY <2>1, <2>2, AnswerType
<1>3. i \in 1..n /\ \A l \in 1..k : a[l] # i BY <1>1 DEF FillsMatch
<1>4. /\ state \in States(n) /\ state.strays = <<>> /\ state.rows[i] = rows[i]
      /\ Len(state.rows) = n
  BY <1>3, StateRows DEF AfterFills
<1>5. i \in I BY <1>1, <1>3, <1>4 DEF Unanswered, FillsMatch
<1>6. ASSUME NEW j \in I PROVE j = i
  <2>1. j \in 1..n /\ Shadow!Matches(state.rows[j], fill) BY <1>4 DEF Unanswered
  <2>2. state.rows[j].live = None BY <2>1 DEF Shadow!Matches
  <2>3. ASSUME NEW l \in 1..k, a[l] = j PROVE FALSE
    <3>1. l \in 1..Len(list) /\ list[l] \in FillSeen /\ rows[j] \in RowType
      BY <1>1, <2>1
    <3>2. state.rows[j] = FilledRow(rows[j], list[l], t) BY <2>3 DEF AfterFills
    <3>3. FilledRow(rows[j], list[l], t).live # None BY <3>1, FilledRowIs
    <3> QED BY <2>2, <3>2, <3>3
  <2>4. state.rows[j] = rows[j] BY <2>1, <2>3 DEF AfterFills
  <2> QED BY <1>1, <2>1, <2>4 DEF FillsMatch
<1>7. First(I) = i /\ i # 0
  <2>1. I \in SUBSET Nat /\ I # {} BY <1>5 DEF Unanswered
  <2> HIDE DEF I, i
  <2>2. First(I) \in I BY <2>1, FirstIs
  <2>3. i # 0 BY <1>3
  <2> QED BY <1>6, <2>2, <2>3
<1>8. new = Put(state, i, answer)
  <2>1. new = IF First(I) = 0 THEN Astray(state, fill.of) ELSE Put(state, First(I), answer)
    BY TakeFillIs
  <2> HIDE DEF I, new, answer, i
  <2> QED BY <1>7, <2>1
<1> HIDE DEF I, new, i
<1>9. /\ new \in States(n) /\ new.strays = state.strays
      /\ \A j \in 1..n \ {i} : new.rows[j] = state.rows[j]
      /\ new.rows[i] = [state.rows[i] EXCEPT !.live = answer]
  <2> HIDE DEF answer
  <2> QED BY <1>2, <1>3, <1>4, <1>8, PutIs
<1>10. new.rows[i] = FilledRow(rows[i], fill, t) BY <1>4, <1>9 DEF FilledRow
<1> HIDE DEF answer, fill
<1>11. ASSUME NEW j \in 1..n, \A l \in 1..(k + 1) : a[l] # j PROVE new.rows[j] = rows[j]
  <2>1. k + 1 \in 1..(k + 1) /\ \A l \in 1..k : l \in 1..(k + 1) BY <1>1
  <2>2. j # i /\ \A l \in 1..k : a[l] # j BY <1>11, <2>1 DEF i
  <2>3. state.rows[j] = rows[j] BY <2>2 DEF AfterFills
  <2> QED BY <1>9, <2>2, <2>3
<1>12. ASSUME NEW l \in 1..(k + 1) PROVE new.rows[a[l]] = FilledRow(rows[a[l]], list[l], t)
  <2>1. CASE l = k + 1 BY <1>10, <2>1 DEF i, fill
  <2>2. CASE l \in 1..k
    <3>1. a[l] # i /\ a[l] \in 1..n BY <1>1, <1>3, <2>2 DEF FillsMatch
    <3>2. new.rows[a[l]] = state.rows[a[l]] BY <1>9, <3>1
    <3> QED BY <2>2, <3>2 DEF AfterFills
  <2> QED BY <1>1, <2>1, <2>2
<1>13. AfterFills(n, rows, list, a, t, k + 1, new)
  BY <1>4, <1>9, <1>11, <1>12 DEF AfterFills
<1> QED BY <1>13 DEF new, fill

(* Every fill goes to its own row, and no other row is touched.              *)
LEMMA FillsLand ==
  ASSUME NEW n \in Nat, NEW rows \in [1..n -> RowType], NEW list \in Seq(FillSeen), NEW t \in Nat,
         NEW a, FillsMatch(n, rows, list, a)
  PROVE  AfterFills(n, rows, list, a, t, Len(list), FillsTaken(rows, list, t))
<1> DEFINE N == Len(list)
<1>1. PICK st :
         /\ \A k \in 0..N : st[k] \in States(n)
         /\ st[0] = Empty(rows)
         /\ \A k \in 0..N - 1 : st[k + 1] = Shadow!TakeFill(st[k], list[k + 1], t)
         /\ FillsTaken(rows, list, t) = st[N]
  BY FillStates
<1>2. N \in Nat OBVIOUS
<1> DEFINE P == {k \in Nat : k <= N => AfterFills(n, rows, list, a, t, k, st[k])}
<1>3. 0 \in P
  <2>1. st[0] \in States(n) /\ st[0].rows = rows /\ st[0].strays = <<>> BY <1>1, <1>2 DEF Empty
  <2>2. 1..0 = {} OBVIOUS
  <2> QED BY <2>1, <2>2 DEF AfterFills
<1>4. ASSUME NEW k \in P PROVE k + 1 \in P
  <2>1. ASSUME k + 1 <= N PROVE AfterFills(n, rows, list, a, t, k + 1, st[k + 1])
    <3>1. k \in 0..N - 1 /\ k <= N BY <1>2, <2>1
    <3>2. AfterFills(n, rows, list, a, t, k, st[k]) BY <3>1
    <3>3. AfterFills(n, rows, list, a, t, k + 1, Shadow!TakeFill(st[k], list[k + 1], t))
      BY <3>1, <3>2, NextFill
    <3> QED BY <1>1, <3>1, <3>3
  <2> QED BY <2>1
<1>5. P \in SUBSET Nat OBVIOUS
<1> HIDE DEF P
<1>6. P = Nat BY <1>3, <1>4, <1>5, SetOfNaturals
<1>7. AfterFills(n, rows, list, a, t, N, st[N]) BY <1>2, <1>6 DEF P
<1> QED BY <1>1, <1>7

-----------------------------------------------------------------------------
(* The attribution: the rejections of a bar. *)

(* Each rejection names one row, a row of its own, which is unanswered or    *)
(* was filled on this bar.                                                   *)
RejectionsMatch(n, rows, list, b, t) ==
  /\ b \in [1..Len(list) -> 1..n]
  /\ \A k \in 1..Len(list) :
       /\ rows[b[k]].order = list[k].order
       /\ rows[b[k]].live # None =>
            rows[b[k]].live.outcome = "filled" /\ rows[b[k]].live.ts = t
  /\ \A k \in 1..Len(list), i \in 1..n : rows[i].order = list[k].order => i = b[k]
  /\ \A k, l \in 1..Len(list) : b[k] = b[l] => k = l

RejectedRow(row, rejection, t) ==
  [row EXCEPT !.live = IF row.live = None THEN Shadow!Answer("rejected", t, 0, rejection.of)
                       ELSE [row.live EXCEPT !.outcome = "partial"]]

AfterRejections(n, rows, list, b, t, k, state) ==
  /\ state \in States(n) /\ state.strays = <<>>
  /\ \A i \in 1..n : (\A l \in 1..k : b[l] # i) => state.rows[i] = rows[i]
  /\ \A l \in 1..k : state.rows[b[l]] = RejectedRow(rows[b[l]], list[l], t)

LEMMA RejectedRowIs ==
  ASSUME NEW row \in RowType, NEW rejection \in RejectionSeen, NEW t \in Nat
  PROVE  RejectedRow(row, rejection, t).order = row.order
BY DEF RejectedRow, RowType

LEMMA NextRejection ==
  ASSUME NEW n \in Nat, NEW rows \in [1..n -> RowType], NEW list \in Seq(RejectionSeen),
         NEW t \in Nat, NEW b, RejectionsMatch(n, rows, list, b, t), NEW k \in 0..Len(list) - 1,
         NEW state, AfterRejections(n, rows, list, b, t, k, state)
  PROVE  AfterRejections(n, rows, list, b, t, k + 1, Shadow!TakeRejection(state, list[k + 1], t))
<1> DEFINE rejection == list[k + 1]
           i == b[k + 1]
           I == Named(state.rows, rejection)
           J == FilledNow(state.rows, rejection, t)
           new == Shadow!TakeRejection(state, rejection, t)
<1>1. /\ Len(list) \in Nat /\ k + 1 \in 1..Len(list) /\ k \in Nat
      /\ \A l \in 1..k : l \in 1..Len(list) /\ l # k + 1
      /\ \A l \in 1..(k + 1) : l \in 1..k \/ l = k + 1
  OBVIOUS
<1>2. rejection \in RejectionSeen BY <1>1
<1>3. i \in 1..n /\ i # 0 /\ \A l \in 1..k : b[l] # i BY <1>1 DEF RejectionsMatch
<1>4. /\ state \in States(n) /\ state.strays = <<>> /\ state.rows[i] = rows[i]
      /\ Len(state.rows) = n /\ rows[i] \in RowType
  BY <1>3, StateRows DEF AfterRejections
<1>5. /\ rows[i].order = rejection.order
      /\ rows[i].live # None => rows[i].live.outcome = "filled" /\ rows[i].live.ts = t
  BY <1>1 DEF RejectionsMatch
<1>6. ASSUME NEW j \in 1..n, state.rows[j].order = rejection.order PROVE j = i
  <2>1. state.rows[j].order = rows[j].order
    <3>1. CASE \A l \in 1..k : b[l] # j BY <3>1 DEF AfterRejections
    <3>2. ASSUME NEW l \in 1..k, b[l] = j PROVE state.rows[j].order = rows[j].order
      <4>1. list[l] \in RejectionSeen /\ rows[j] \in RowType BY <1>1, <3>2
      <4>2. state.rows[j] = RejectedRow(rows[j], list[l], t) BY <3>2 DEF AfterRejections
      <4> QED BY <4>1, <4>2, RejectedRowIs
    <3> QED BY <3>1, <3>2
  <2> QED BY <1>1, <1>6, <2>1 DEF RejectionsMatch
<1>7. /\ I \subseteq {i} /\ J \subseteq {i}
      /\ i \in I <=> rows[i].live = None
      /\ rows[i].live # None => i \in J
  BY <1>3, <1>4, <1>5, <1>6 DEF Named, FilledNow
<1>8. /\ rejection.of \in Nat /\ Shadow!Answer("rejected", t, 0, rejection.of) \in Shadow!Answers
  <2>1. rejection.of \in Nat BY <1>2 DEF RejectionSeen
  <2> HIDE DEF rejection
  <2> QED BY <2>1, AnswerType
<1>9. new = IF First(I) # 0
            THEN Put(state, First(I), Shadow!Answer("rejected", t, 0, rejection.of))
            ELSE IF First(J) # 0 THEN Amend(state, First(J)) ELSE Astray(state, rejection.of)
  BY TakeRejectionIs
<1> HIDE DEF I, J, new, i, rejection
<1>10. \E answer \in Shadow!Answers :
         /\ new = Put(state, i, answer)
         /\ RejectedRow(rows[i], rejection, t) = [rows[i] EXCEPT !.live = answer]
  <2>1. CASE rows[i].live = None
    <3>1. I = {i} /\ First(I) = i
      <4>1. i \in Nat BY <1>3
      <4>2. I = {i} BY <1>7, <2>1
      <4>3. I \in SUBSET Nat BY <4>1, <4>2
      <4> QED BY <4>2, <4>3, FirstIs
    <3>2. new = Put(state, i, Shadow!Answer("rejected", t, 0, rejection.of))
      BY <1>3, <1>9, <3>1
    <3>3. RejectedRow(rows[i], rejection, t)
            = [rows[i] EXCEPT !.live = Shadow!Answer("rejected", t, 0, rejection.of)]
      BY <2>1 DEF RejectedRow
    <3> QED BY <1>8, <3>2, <3>3
  <2>2. CASE rows[i].live # None
    <3>1. I = {} /\ First(I) = 0
      <4>1. I = {} /\ I \in SUBSET Nat BY <1>7, <2>2
      <4> QED BY <4>1, FirstIs
    <3>2. J = {i} /\ First(J) = i
      <4>1. i \in Nat BY <1>3
      <4>2. J = {i} BY <1>7, <2>2
      <4>3. J \in SUBSET Nat BY <4>1, <4>2
      <4> QED BY <4>2, <4>3, FirstIs
    <3>3. new = Amend(state, i) BY <1>3, <1>9, <3>1, <3>2
    <3>4. rows[i].live \in Shadow!Answers BY <1>4, <2>2 DEF RowType
    <3>5. state.rows[i].live = rows[i].live /\ state.rows[i].live \in Shadow!Answers BY <1>4, <3>4
    <3>6. new = Put(state, i, [state.rows[i].live EXCEPT !.outcome = "partial"])
      BY <1>3, <1>4, <3>3, <3>5, AmendIs
    <3>7. new = Put(state, i, [rows[i].live EXCEPT !.outcome = "partial"]) BY <3>5, <3>6
    <3>8. RejectedRow(rows[i], rejection, t)
            = [rows[i] EXCEPT !.live = [rows[i].live EXCEPT !.outcome = "partial"]]
      BY <2>2 DEF RejectedRow
    <3>9. [rows[i].live EXCEPT !.outcome = "partial"] \in Shadow!Answers BY <3>4, AmendedType
    <3> QED BY <3>7, <3>8, <3>9
  <2> QED BY <2>1, <2>2
<1>11. PICK answer \in Shadow!Answers :
         /\ new = Put(state, i, answer)
         /\ RejectedRow(rows[i], rejection, t) = [rows[i] EXCEPT !.live = answer]
  BY <1>10
<1>12. /\ new \in States(n) /\ new.strays = state.strays
       /\ \A j \in 1..n \ {i} : new.rows[j] = state.rows[j]
       /\ new.rows[i] = RejectedRow(rows[i], rejection, t)
  BY <1>3, <1>4, <1>11, PutIs
<1>13. ASSUME NEW j \in 1..n, \A l \in 1..(k + 1) : b[l] # j PROVE new.rows[j] = rows[j]
  <2>1. k + 1 \in 1..(k + 1) /\ \A l \in 1..k : l \in 1..(k + 1) BY <1>1
  <2>2. j # i /\ \A l \in 1..k : b[l] # j BY <1>13, <2>1 DEF i
  <2>3. state.rows[j] = rows[j] BY <2>2 DEF AfterRejections
  <2> QED BY <1>12, <2>2, <2>3
<1>14. ASSUME NEW l \in 1..(k + 1) PROVE new.rows[b[l]] = RejectedRow(rows[b[l]], list[l], t)
  <2>1. CASE l = k + 1 BY <1>12, <2>1 DEF i, rejection
  <2>2. CASE l \in 1..k
    <3>1. b[l] # i /\ b[l] \in 1..n BY <1>1, <1>3, <2>2 DEF RejectionsMatch
    <3>2. new.rows[b[l]] = state.rows[b[l]] BY <1>12, <3>1
    <3> QED BY <2>2, <3>2 DEF AfterRejections
  <2> QED BY <1>1, <2>1, <2>2
<1>15. AfterRejections(n, rows, list, b, t, k + 1, new)
  BY <1>4, <1>12, <1>13, <1>14 DEF AfterRejections
<1> QED BY <1>15 DEF new, rejection

LEMMA RejectionsLand ==
  ASSUME NEW n \in Nat, NEW base \in States(n), base.strays = <<>>,
         NEW list \in Seq(RejectionSeen), NEW t \in Nat,
         NEW b, RejectionsMatch(n, base.rows, list, b, t)
  PROVE  AfterRejections(n, base.rows, list, b, t, Len(list), RejectionsTaken(base, list, t))
<1> DEFINE N == Len(list)
           rows == base.rows
<1>1. PICK st :
         /\ \A k \in 0..N : st[k] \in States(n)
         /\ st[0] = base
         /\ \A k \in 0..N - 1 : st[k + 1] = Shadow!TakeRejection(st[k], list[k + 1], t)
         /\ RejectionsTaken(base, list, t) = st[N]
  BY RejectionStates
<1>2. N \in Nat /\ rows \in [1..n -> RowType] BY DEF States
<1> DEFINE P == {k \in Nat : k <= N => AfterRejections(n, rows, list, b, t, k, st[k])}
<1>3. 0 \in P
  <2>1. 1..0 = {} OBVIOUS
  <2> QED BY <1>1, <1>2, <2>1 DEF AfterRejections
<1>4. ASSUME NEW k \in P PROVE k + 1 \in P
  <2>1. ASSUME k + 1 <= N PROVE AfterRejections(n, rows, list, b, t, k + 1, st[k + 1])
    <3>1. k \in 0..N - 1 /\ k <= N BY <1>2, <2>1
    <3>2. AfterRejections(n, rows, list, b, t, k, st[k]) BY <3>1
    <3>3. AfterRejections(n, rows, list, b, t, k + 1, Shadow!TakeRejection(st[k], list[k + 1], t))
      BY <1>2, <3>1, <3>2, NextRejection
    <3> QED BY <1>1, <3>1, <3>3
  <2> QED BY <2>1
<1>5. P \in SUBSET Nat OBVIOUS
<1> HIDE DEF P
<1>6. P = Nat BY <1>3, <1>4, <1>5, SetOfNaturals
<1>7. AfterRejections(n, rows, list, b, t, N, st[N]) BY <1>2, <1>6 DEF P
<1> QED BY <1>1, <1>7

-----------------------------------------------------------------------------
(* What the broker leaves the shadow to watch. *)

(* The rejections of this bar, and the orders they are of.                   *)
NewRejections == {k \in DOMAIN rejections : k > before}
Newly == {rejections[k].id : k \in NewRejections}

InBar == phase \in {"poll", "positions"}

(* What on_bar has found so far is what the venue did: an order it ended is  *)
(* on the list of rejections, once, and among the fills if it got something. *)
RejectionsNoted ==
  /\ before \in Nat /\ before <= Len(rejections)
  /\ InBar =>
       /\ \A k \in NewRejections : /\ rejections[k].id \in Range(ours) \ UnderWay
                                   /\ orders[rejections[k].id].status = "ended"
       /\ \A k, l \in NewRejections : rejections[k].id = rejections[l].id => k = l
       /\ \A id \in Collected : /\ orders[id].filled > 0
                                /\ orders[id].status = "ended" => id \in Newly
       /\ \A id \in Newly \ Collected : orders[id].filled = 0

(* The guard keeps an order's symbol and side as they were sent.             *)
RequestedIs ==
  \A id \in DOMAIN requested : /\ requested[id].symbol = orders[id].symbol
                               /\ requested[id].side = orders[id].side

(* Every order has an object of its own.                                     *)
ObjectsKnown ==
  /\ objects \in [Range(ours) -> Identity]
  /\ \A id \in Range(ours) : objects[id].ask \in 1..asked
  /\ \A i, j \in Range(ours) : objects[i].ask = objects[j].ask => i = j

(* The orders whose rows have no answer yet, and no two of one symbol and    *)
(* side among them.                                                          *)
Due == IF InBar THEN UnderWay \cup Collected \cup Newly ELSE Range(pending)

DueApart ==
  phase # "over" =>
    \A i, j \in Due : orders[i].symbol = orders[j].symbol /\ orders[i].side = orders[j].side => i = j

Watch == RejectionsNoted /\ RequestedIs /\ ObjectsKnown /\ DueApart

LEMMA DueIsOurs == BrokerInv /\ Watch => Due \subseteq Range(ours) /\ Due \subseteq DOMAIN orders
BY DEF BrokerInv, Lists, Noted, Watch, RejectionsNoted, Due, UnderWay, Newly, Ids

LEMMA WatchInit == ShadowedInit => Watch
<1> SUFFICES ASSUME ShadowedInit PROVE Watch
  OBVIOUS
<1>1. /\ phase = "boot" /\ pending = <<>> /\ requested = <<>> /\ rejections = <<>> /\ ours = <<>>
      /\ before = 0 /\ objects = <<>>
  BY DEF ShadowedInit, Init
<1>2. RejectionsNoted BY <1>1 DEF RejectionsNoted, InBar
<1>3. RequestedIs /\ DueApart BY <1>1, EmptyList DEF RequestedIs, DueApart, Due, InBar
<1>4. ObjectsKnown BY <1>1, EmptyList DEF ObjectsKnown
<1> QED BY <1>2, <1>3, <1>4 DEF Watch

LEMMA WatchVenue ==
  ASSUME BrokerInv, Watch, NEW id \in DOMAIN orders, Venue(id), UNCHANGED <<before, objects>>
  PROVE  Watch' /\ Due' = Due
<1>1. /\ UNCHANGED <<phase, pending, requested, rejections, todo, stillPending, fills, asked, ours>>
      /\ \A i \in DOMAIN orders :
           /\ orders'[i].symbol = orders[i].symbol /\ orders'[i].side = orders[i].side
           /\ orders[i].status # "working" =>
                /\ orders'[i].status = orders[i].status /\ orders'[i].filled = orders[i].filled
  BY VenueShape
<1>2. /\ UnderWay' = UnderWay /\ Collected' = Collected /\ Newly' = Newly
      /\ NewRejections' = NewRejections /\ Due' = Due
  BY <1>1 DEF UnderWay, Collected, Newly, NewRejections, Due, InBar
<1>3. RejectionsNoted'
  <2>1. \A i \in Collected : i \in DOMAIN orders /\ orders[i].status # "working"
    BY DEF BrokerInv, Noted, Lists, IsLive, Ids
  <2>2. InBar => \A i \in Newly : i \in DOMAIN orders /\ orders[i].status = "ended"
    BY DEF BrokerInv, Lists, Ids, Watch, RejectionsNoted, Newly
  <2>3. /\ \A i \in Collected : orders'[i].status = orders[i].status /\ orders'[i].filled = orders[i].filled
        /\ InBar => \A i \in Newly : orders'[i].status = orders[i].status /\ orders'[i].filled = orders[i].filled
    BY <1>1, <2>1, <2>2
  <2>4. \A k \in NewRejections : rejections[k].id \in Newly BY DEF Newly
  <2> QED BY <1>1, <1>2, <2>3, <2>4 DEF Watch, RejectionsNoted, InBar
<1>4. RequestedIs'
  BY <1>1 DEF Watch, RequestedIs, BrokerInv, Lists, Ids
<1>5. ObjectsKnown' BY <1>1 DEF Watch, ObjectsKnown
<1>6. DueApart' BY <1>1, <1>2, DueIsOurs DEF Watch, DueApart
<1> QED BY <1>2, <1>3, <1>4, <1>5, <1>6 DEF Watch

LEMMA WatchSettle ==
  ASSUME BrokerInv, Watch, Settle, UNCHANGED <<before, objects>>
  PROVE  Watch' /\ Due' = Due
<1> DEFINE id == Head(todo)
           n == Len(rejections) + 1
<1>1. /\ phase = "poll" /\ phase' = "poll" /\ todo # <<>> /\ UNCHANGED <<orders, ours, pending, asked>>
      /\ DOMAIN requested' = DOMAIN requested \ {id}
      /\ \A i \in DOMAIN requested' : requested'[i] = requested[i]
      /\ UnderWay' = UnderWay \ {id}
  BY SettleShape
<1>2. id \in UnderWay /\ id \in Range(ours) /\ id \notin Collected BY <1>1, NextPolled
<1>3. /\ rejections \in Seq(Rejection) /\ fills \in Seq(Fill)
  BY DEF BrokerInv, Typed
<1>4. \/ /\ orders[id].status = "filled" /\ rejections' = rejections
         /\ Newly' = Newly /\ NewRejections' = NewRejections
      \/ /\ orders[id].status = "ended" /\ n \in Nat
         /\ DOMAIN rejections' = DOMAIN rejections \cup {n} /\ rejections'[n].id = id
         /\ \A k \in DOMAIN rejections : rejections'[k] = rejections[k]
         /\ NewRejections' = NewRejections \cup {n} /\ n \notin NewRejections
         /\ Newly' = Newly \cup {id} /\ Len(rejections') = Len(rejections) + 1
  <2>1. CASE orders[id].status = "filled" /\ rejections' = rejections
    BY <2>1 DEF Newly, NewRejections
  <2>2. CASE /\ orders[id].status = "ended"
             /\ rejections' = Append(rejections, [order |-> requested[id], id |-> id, why |-> "ended"])
             /\ [order |-> requested[id], id |-> id, why |-> "ended"] \in Rejection
    <3> DEFINE rejection == [order |-> requested[id], id |-> id, why |-> "ended"]
    <3>1. rejection.id = id OBVIOUS
    <3> HIDE DEF rejection, id
    <3>2. rejections' = Append(rejections, rejection) /\ rejection \in Rejection
      BY <2>2 DEF rejection
    <3>3. /\ DOMAIN rejections' = DOMAIN rejections \cup {n} /\ rejections'[n].id = id
          /\ \A k \in DOMAIN rejections : rejections'[k] = rejections[k]
          /\ n \notin DOMAIN rejections /\ n \in Nat /\ Len(rejections') = Len(rejections) + 1
      BY <1>3, <3>1, <3>2
    <3>4. n > before BY <1>3 DEF Watch, RejectionsNoted
    <3> HIDE DEF n
    <3>5. NewRejections' = NewRejections \cup {n} /\ n \notin NewRejections
      BY <3>3, <3>4 DEF NewRejections
    <3>6. Newly' = Newly \cup {id}
      <4>1. \A k \in NewRejections : rejections'[k] = rejections[k] BY <3>3 DEF NewRejections
      <4> QED BY <3>3, <3>5, <4>1 DEF Newly
    <3> QED BY <2>2, <3>3, <3>5, <3>6 DEF n
  <2> QED BY <2>1, <2>2, SettleShape
<1>5. \/ Collected' = Collected \cup {id} /\ orders[id].filled > 0
      \/ Collected' = Collected /\ orders[id].status = "ended" /\ orders[id].filled = 0
  <2>1. CASE fills' = Append(fills, FillOf(id)) /\ FillOf(id) \in Fill
    <3>1. Collected' = Collected \cup {id}
      <4>1. FillOf(id).id = id BY DEF FillOf
      <4> DEFINE fill == FillOf(id)
                 m == Len(fills) + 1
      <4> HIDE DEF fill
      <4>2. /\ DOMAIN fills' = DOMAIN fills \cup {m} /\ fills'[m] = fill
            /\ \A k \in DOMAIN fills : fills'[k] = fills[k]
        BY <1>3, <2>1 DEF fill
      <4> QED BY <4>1, <4>2 DEF Collected, fill
    <3>2. orders[id].filled > 0
      <4>1. fills' = fills \o Fills(id, orders[id]) BY DEF Settle
      <4>2. CASE orders[id].filled > 0 BY <4>2
      <4>3. CASE ~(orders[id].filled > 0)
        <5>1. Fills(id, orders[id]) = <<>> BY <4>3 DEF Fills
        <5>2. fills' = fills BY <1>3, <4>1, <5>1
        <5>3. Collected' = Collected BY <5>2 DEF Collected
        <5> QED BY <1>2, <3>1, <5>3
      <4> QED BY <4>2, <4>3
    <3> QED BY <3>1, <3>2
  <2>2. CASE fills' = fills /\ orders[id].status = "ended" /\ orders[id].filled = 0
    BY <2>2 DEF Collected
  <2> QED BY <2>1, <2>2, SettledOrder
<1> HIDE DEF id, n
<1>6. Due' = Due
  <2>1. Due = UnderWay \cup Collected \cup Newly /\ Due' = UnderWay' \cup Collected' \cup Newly'
    BY <1>1 DEF Due, InBar
  <2> QED BY <1>1, <1>2, <1>4, <1>5, <2>1
<1>7. /\ \A k \in NewRejections : /\ rejections[k].id \in Range(ours) \ UnderWay
                                  /\ orders[rejections[k].id].status = "ended"
      /\ \A k, l \in NewRejections : rejections[k].id = rejections[l].id => k = l
      /\ \A i \in Collected : orders[i].filled > 0 /\ (orders[i].status = "ended" => i \in Newly)
      /\ \A i \in Newly \ Collected : orders[i].filled = 0
      /\ before \in Nat /\ before <= Len(rejections)
      /\ \A k \in NewRejections : k \in DOMAIN rejections
  BY <1>1 DEF Watch, RejectionsNoted, InBar, NewRejections
<1>8. RejectionsNoted'
  <2>1. /\ \A k \in NewRejections' : /\ rejections'[k].id \in Range(ours) \ UnderWay'
                                     /\ orders[rejections'[k].id].status = "ended"
        /\ \A k, l \in NewRejections' : rejections'[k].id = rejections'[l].id => k = l
    BY <1>1, <1>2, <1>4, <1>7
  <2>2. \A i \in Collected' : orders[i].filled > 0 /\ (orders[i].status = "ended" => i \in Newly')
    BY <1>4, <1>5, <1>7
  <2>3. \A i \in Newly' \ Collected' : orders[i].filled = 0 BY <1>4, <1>5, <1>7
  <2>4. before' \in Nat /\ before' <= Len(rejections')
    <3>1. Len(rejections) \in Nat BY <1>3
    <3> QED BY <1>4, <1>7, <3>1
  <2> QED BY <1>1, <2>1, <2>2, <2>3, <2>4 DEF RejectionsNoted
<1>9. RequestedIs' BY <1>1 DEF Watch, RequestedIs
<1>10. ObjectsKnown' BY <1>1 DEF Watch, ObjectsKnown
<1>11. DueApart' BY <1>1, <1>6 DEF Watch, DueApart
<1> QED BY <1>6, <1>8, <1>9, <1>10, <1>11 DEF Watch

LEMMA WatchStartBar ==
  ASSUME BrokerInv, Watch, StartBar, before' = Len(rejections), objects' = objects
  PROVE  Watch' /\ Due' = Due
<1>1. /\ phase \in {"boot", "submit"} /\ phase' = "poll" /\ todo' = pending
      /\ UNCHANGED <<orders, pending, requested, rejections, stillPending, fills, asked, ours>>
  BY DEF StartBar, venueVars, brokerVars
<1>2. stillPending = <<>> /\ fills = <<>> BY <1>1 DEF BrokerInv, Lists
<1>3. UnderWay' = Range(pending) /\ Collected' = {}
  BY <1>1, <1>2, EmptyList DEF UnderWay, Collected
<1>4. rejections \in Seq(Rejection) BY DEF BrokerInv, Typed
<1>5. Len(rejections) \in Nat /\ \A k \in DOMAIN rejections : ~(k > Len(rejections)) BY <1>4
<1>6. NewRejections' = {} /\ Newly' = {}
  <2>1. NewRejections' = {} BY <1>1, <1>5 DEF NewRejections
  <2> QED BY <2>1 DEF Newly
<1>7. Due' = Due BY <1>1, <1>3, <1>6 DEF Due, InBar
<1>8. RejectionsNoted' BY <1>1, <1>3, <1>5, <1>6 DEF RejectionsNoted
<1>9. RequestedIs' /\ ObjectsKnown' BY <1>1 DEF Watch, RequestedIs, ObjectsKnown
<1>10. DueApart' BY <1>1, <1>7 DEF Watch, DueApart
<1> QED BY <1>7, <1>8, <1>9, <1>10 DEF Watch

LEMMA WatchOnBar ==
  ASSUME BrokerInv, Watch, Retry \/ ReadCash, UNCHANGED <<before, objects>>
  PROVE  Watch' /\ Due' = Due
<1>1. /\ phase = "poll" /\ phase' \in {"poll", "positions"}
      /\ UNCHANGED <<orders, requested, rejections, fills, asked, ours>>
  BY DEF Retry, ReadCash, venueVars, brokerVars
<1>2. UnderWay' = UnderWay
  <2>1. CASE Retry
    <3>1. /\ phase = "poll" /\ phase' = "poll" /\ todo # <<>> /\ pending' = pending
          /\ stillPending' = Append(stillPending, Head(todo)) /\ todo' = Tail(todo)
      BY <2>1 DEF Retry, brokerVars
    <3>2. Head(todo) \in Nat /\ Range(todo) = {Head(todo)} \cup Range(Tail(todo)) BY <3>1, NextPolled
    <3>3. stillPending \in Seq(Nat) BY DEF BrokerInv, Typed
    <3>4. Range(stillPending') = Range(stillPending) \cup {Head(todo)} BY <3>1, <3>2, <3>3, AppendId
    <3> QED BY <3>1, <3>2, <3>4 DEF UnderWay
  <2>2. CASE ReadCash
    <3>1. phase = "poll" /\ phase' = "positions" /\ todo = <<>> /\ pending' = stillPending
      BY <2>2 DEF ReadCash
    <3> QED BY <3>1, EmptyList DEF UnderWay
  <2> QED BY <2>1, <2>2
<1>3. Collected' = Collected /\ NewRejections' = NewRejections /\ Newly' = Newly /\ Due' = Due
  BY <1>1, <1>2 DEF Collected, NewRejections, Newly, Due, InBar
<1>4. RejectionsNoted' BY <1>1, <1>2, <1>3 DEF Watch, RejectionsNoted, InBar
<1>5. RequestedIs' /\ ObjectsKnown' BY <1>1 DEF Watch, RequestedIs, ObjectsKnown
<1>6. DueApart' BY <1>1, <1>3 DEF Watch, DueApart
<1> QED BY <1>3, <1>4, <1>5, <1>6 DEF Watch

LEMMA WatchReadPositions ==
  ASSUME BrokerInv, Watch, ReadPositions, UNCHANGED <<before, objects>>
  PROVE  Watch' /\ Due' = Range(pending)
<1>1. /\ phase = "positions" /\ phase' = "submit"
      /\ UNCHANGED <<orders, pending, requested, rejections, asked, ours>>
  BY DEF ReadPositions, venueVars
<1>2. Due' = Range(pending) /\ Range(pending) \subseteq Due
  BY <1>1 DEF Due, InBar, UnderWay
<1>3. RejectionsNoted' BY <1>1 DEF Watch, RejectionsNoted, InBar
<1>4. RequestedIs' /\ ObjectsKnown' BY <1>1 DEF Watch, RequestedIs, ObjectsKnown
<1>5. DueApart' BY <1>1, <1>2 DEF Watch, DueApart
<1> QED BY <1>2, <1>3, <1>4, <1>5 DEF Watch

LEMMA WatchBarFails ==
  ASSUME BrokerInv, Watch, BarFails, UNCHANGED <<before, objects>>
  PROVE  Watch'
<1>1. phase' = "over" /\ UNCHANGED <<orders, pending, requested, rejections, asked, ours>>
  BY DEF BarFails, venueVars, brokerVars
<1>2. RejectionsNoted' BY <1>1 DEF Watch, RejectionsNoted, InBar
<1>3. RequestedIs' /\ ObjectsKnown' BY <1>1 DEF Watch, RequestedIs, ObjectsKnown
<1>4. DueApart' BY <1>1 DEF DueApart
<1> QED BY <1>2, <1>3, <1>4 DEF Watch

LEMMA WatchSubmitFails ==
  ASSUME BrokerInv, Watch, NEW ask \in Asks, SubmitFails(ask), UNCHANGED <<before, objects>>
  PROVE  Watch'
<1>1. /\ phase' = "over" /\ UNCHANGED <<pending, requested, rejections, ours>> /\ asked' = asked + 1
      /\ orders' = orders \/ orders' = Append(orders, Placed(Trim(ask)))
  BY DEF SubmitFails, Asking
<1>2. \A i \in DOMAIN orders : orders'[i] = orders[i]
  BY <1>1, PlacedOrder
<1>3. RejectionsNoted' BY <1>1 DEF Watch, RejectionsNoted, InBar
<1>4. RequestedIs'
  <2>1. DOMAIN requested \subseteq DOMAIN orders BY DEF BrokerInv, Lists, Ids
  <2> QED BY <1>1, <1>2, <2>1 DEF Watch, RequestedIs
<1>5. ObjectsKnown'
  <2>1. asked \in Nat BY BrokerAssumption DEF BrokerInv, Typed
  <2>2. 1..asked \subseteq 1..(asked + 1) BY <2>1
  <2> QED BY <1>1, <2>2 DEF Watch, ObjectsKnown
<1>6. DueApart' BY <1>1 DEF DueApart
<1> QED BY <1>3, <1>4, <1>5, <1>6 DEF Watch

(* submit: a refused order leaves nothing but its count and its line in the  *)
(* list.                                                                     *)
LEMMA WatchRefuse ==
  ASSUME BrokerInv, Watch, NEW ask \in Asks, NEW why \in {"duplicate", "oversell", "venue"},
         Asking(ask), phase' = phase, Refuse(Trim(ask), why), UNCHANGED <<before, objects>>
  PROVE  Watch' /\ Due' = Due /\ rejections' # rejections
<1>1. /\ phase = "submit" /\ UNCHANGED <<phase, orders, pending, requested, ours>> /\ asked' = asked + 1
      /\ rejections' = Append(rejections, [order |-> Trim(ask), id |-> None, why |-> why])
  BY DEF Refuse, Asking, venueVars
<1>2. Due' = Due BY <1>1 DEF Due, InBar
<1>3. Len(rejections') = Len(rejections) + 1 /\ Len(rejections) \in Nat
  <2>1. rejections \in Seq(Rejection) BY DEF BrokerInv, Typed
  <2> DEFINE r == [order |-> Trim(ask), id |-> None, why |-> why]
  <2> HIDE DEF r
  <2>2. rejections' = Append(rejections, r) BY <1>1 DEF r
  <2> QED BY <2>1, <2>2
<1>4. RejectionsNoted' BY <1>1, <1>3 DEF Watch, RejectionsNoted, InBar
<1>5. RequestedIs' BY <1>1 DEF Watch, RequestedIs
<1>6. ObjectsKnown'
  <2>1. asked \in Nat BY BrokerAssumption DEF BrokerInv, Typed
  <2>2. 1..asked \subseteq 1..(asked + 1) BY <2>1
  <2> QED BY <1>1, <2>2 DEF Watch, ObjectsKnown
<1>7. DueApart' BY <1>1, <1>2 DEF Watch, DueApart
<1> QED BY <1>2, <1>3, <1>4, <1>5, <1>6, <1>7 DEF Watch

(* submit: an accepted order is due, and its object is new.                  *)
LEMMA WatchPlace ==
  ASSUME BrokerInv, Watch, NEW ask \in Asks, Asking(ask), phase' = phase, Working(Trim(ask)) = {},
         Place(Trim(ask)), before' = before,
         objects' = [i \in Range(ours') |->
                       IF i = Len(orders') THEN Object(ask) ELSE objects[i]]
  PROVE  /\ Watch' /\ Due' = Due \cup {Len(orders) + 1} /\ rejections' = rejections
         /\ Len(orders) + 1 \notin DOMAIN orders
         /\ Range(ours') = Range(ours) \cup {Len(orders) + 1} /\ Len(ours') = Len(ours) + 1
         /\ objects'[Len(orders) + 1] = Object(ask)
         /\ \A id \in Range(ours) : objects'[id] = objects[id]
<1> DEFINE id == Len(orders) + 1
<1>1. /\ phase = "submit" /\ phase' = "submit" /\ asked' = asked + 1 /\ rejections' = rejections
      /\ orders' = Append(orders, Placed(Trim(ask))) /\ pending' = Append(pending, id)
      /\ requested' = [i \in DOMAIN requested \cup {id} |-> IF i = id THEN Trim(ask) ELSE requested[i]]
      /\ ours' = Append(ours, id)
  BY DEF Place, Asking
<1>2. /\ id \in Nat /\ id \notin DOMAIN orders /\ DOMAIN orders' = DOMAIN orders \cup {id}
      /\ \A i \in DOMAIN orders : orders'[i] = orders[i]
      /\ orders'[id].symbol = Trim(ask).symbol /\ orders'[id].side = Trim(ask).side
  BY <1>1, PlacedOrder DEF Placed
<1>3. Len(orders') = id
  <2>1. orders \in Seq(VenueOrder) BY DEF BrokerInv, Typed
  <2> DEFINE o == Placed(Trim(ask))
  <2> HIDE DEF o
  <2>2. orders' = Append(orders, o) BY <1>1 DEF o
  <2> QED BY <2>1, <2>2
<1> HIDE DEF id
<1>4. /\ Range(ours) \subseteq DOMAIN orders /\ Range(pending) \subseteq Range(ours)
      /\ DOMAIN requested = Range(pending)
  BY <1>1 DEF BrokerInv, Lists, Ids, UnderWay
<1>5. Range(ours') = Range(ours) \cup {id} /\ Range(pending') = Range(pending) \cup {id}
  <2>1. ours \in Seq(Nat) /\ pending \in Seq(Nat) BY DEF BrokerInv, Typed
  <2> QED BY <1>1, <1>2, <2>1, AppendId
<1>6. Due = Range(pending) /\ Due' = Due \cup {id} BY <1>1, <1>5 DEF Due, InBar
<1>7. RejectionsNoted' BY <1>1 DEF Watch, RejectionsNoted, InBar
<1>8. RequestedIs'
  <2>1. DOMAIN requested' = DOMAIN requested \cup {id} BY <1>1
  <2>2. requested'[id].symbol = orders'[id].symbol /\ requested'[id].side = orders'[id].side
    BY <1>1, <1>2
  <2>3. ASSUME NEW i \in DOMAIN requested
        PROVE  requested'[i] = requested[i] /\ orders'[i] = orders[i]
    <3>1. i \in DOMAIN orders /\ i # id BY <1>2, <1>4
    <3> QED BY <1>1, <1>2, <3>1
  <2> QED BY <2>1, <2>2, <2>3 DEF Watch, RequestedIs
<1>9. DueApart'
  <2>1. ASSUME NEW i \in Due
        PROVE  ~(orders[i].symbol = Trim(ask).symbol /\ orders[i].side = Trim(ask).side)
    <3>1. i \in DOMAIN requested /\ i \in Range(pending) BY <1>4, <1>6
    <3>2. requested[i].symbol = orders[i].symbol /\ requested[i].side = orders[i].side
      BY <3>1 DEF Watch, RequestedIs
    <3> QED BY <3>1, <3>2 DEF Working
  <2>2. \A i \in Due : i # id /\ orders'[i] = orders[i] BY <1>2, <1>4, <1>6
  <2>3. ASSUME NEW i \in Due, NEW j \in Due,
               orders'[i].symbol = orders'[j].symbol, orders'[i].side = orders'[j].side
        PROVE  i = j
    BY <1>1, <2>2, <2>3 DEF Watch, DueApart
  <2>4. ASSUME NEW i \in Due
        PROVE  ~(orders'[i].symbol = orders'[id].symbol /\ orders'[i].side = orders'[id].side)
    BY <1>2, <2>1, <2>2
  <2> QED BY <1>6, <2>3, <2>4 DEF DueApart
<1>10. /\ DOMAIN objects = Range(ours) /\ DOMAIN objects' = Range(ours) \cup {id}
       /\ objects'[id] = Object(ask) /\ \A i \in Range(ours) : objects'[i] = objects[i]
  <2>1. DOMAIN objects = Range(ours) BY DEF Watch, ObjectsKnown
  <2>2. id \notin Range(ours) BY <1>2, <1>4
  <2> QED BY <1>3, <1>5, <2>1, <2>2
<1>11. ObjectsKnown'
  <2>1. asked \in Nat BY BrokerAssumption DEF BrokerInv, Typed
  <2>2. Object(ask) \in Identity /\ Object(ask).ask = asked + 1 BY <2>1 DEF Object, Identity
  <2>3. objects' \in [Range(ours') -> Identity]
    <3>1. objects' = [i \in Range(ours') |-> objects'[i]] OBVIOUS
    <3>2. \A i \in Range(ours') : objects'[i] \in Identity
      BY <1>5, <1>10, <2>2 DEF Watch, ObjectsKnown
    <3> QED BY <3>1, <3>2
  <2>4. \A i \in Range(ours) : objects'[i].ask \in 1..asked BY <1>10 DEF Watch, ObjectsKnown
  <2>5. \A k \in 1..asked : k \in 1..(asked + 1) /\ k # asked + 1 BY <2>1
  <2>6. asked + 1 \in 1..(asked + 1) BY <2>1
  <2>7. \A i \in Range(ours') : objects'[i].ask \in 1..asked'
    BY <1>1, <1>5, <1>10, <2>2, <2>4, <2>5, <2>6
  <2>8. \A i, j \in Range(ours') : objects'[i].ask = objects'[j].ask => i = j
    <3>1. \A i, j \in Range(ours) : objects'[i].ask = objects'[j].ask => i = j
      BY <1>10 DEF Watch, ObjectsKnown
    <3>2. \A i \in Range(ours) : objects'[i].ask # objects'[id].ask
      BY <1>10, <2>2, <2>4, <2>5
    <3> QED BY <1>5, <3>1, <3>2
  <2> QED BY <2>3, <2>7, <2>8 DEF ObjectsKnown
<1>12. Len(ours') = Len(ours) + 1
  <2>1. ours \in Seq(Nat) BY DEF BrokerInv, Typed
  <2> QED BY <1>1, <1>2, <2>1
<1> QED BY <1>1, <1>2, <1>5, <1>6, <1>7, <1>8, <1>9, <1>10, <1>11, <1>12 DEF Watch, id

(* What a submit does at the live broker, as the shadow sees it.             *)
LEMMA SubmitSeen ==
  ASSUME BrokerInv, Watch, NEW ask \in Asks, ShadowSubmit(ask)
  PROVE  /\ Watch' /\ phase = "submit" /\ phase' = "submit" /\ asked' = asked + 1
         /\ LET refused == rejections' # rejections
                id == Len(orders) + 1
            IN \/ /\ refused /\ Due' = Due /\ UNCHANGED <<orders, ours, objects, pending>>
               \/ /\ ~refused /\ Due' = Due \cup {id} /\ id \notin DOMAIN orders
                  /\ Range(ours') = Range(ours) \cup {id} /\ Len(ours') = Len(ours) + 1
                  /\ objects'[id] = Object(ask)
                  /\ \A i \in Range(ours) : objects'[i] = objects[i]
                  /\ \A i \in DOMAIN orders : orders'[i] = orders[i]
                  /\ orders'[id] = Placed(Trim(ask))
<1>1. Submit(ask) /\ before' = before BY DEF ShadowSubmit
<1>2. Asking(ask) /\ phase' = phase /\ phase = "submit" /\ asked' = asked + 1
  BY <1>1 DEF Submit, Asking
<1>3. ASSUME NEW why \in {"duplicate", "oversell", "venue"}, Refuse(Trim(ask), why)
      PROVE  /\ Watch' /\ rejections' # rejections /\ Due' = Due
             /\ UNCHANGED <<orders, ours, objects, pending>>
  <2>1. rejections' # rejections
    <3>1. rejections \in Seq(Rejection) BY DEF BrokerInv, Typed
    <3> DEFINE r == [order |-> Trim(ask), id |-> None, why |-> why]
    <3> HIDE DEF r
    <3>2. rejections' = Append(rejections, r) BY <1>3 DEF Refuse, r
    <3> QED BY <3>1, <3>2
  <2>2. objects' = objects BY <2>1 DEF ShadowSubmit
  <2>3. Watch' /\ Due' = Due BY <1>1, <1>2, <1>3, <2>2, WatchRefuse
  <2> QED BY <1>3, <2>1, <2>2, <2>3 DEF Refuse, venueVars
<1>4. ASSUME Working(Trim(ask)) = {}, Place(Trim(ask))
      PROVE  /\ Watch' /\ Due' = Due \cup {Len(orders) + 1} /\ rejections' = rejections
             /\ Len(orders) + 1 \notin DOMAIN orders
             /\ Range(ours') = Range(ours) \cup {Len(orders) + 1} /\ Len(ours') = Len(ours) + 1
             /\ objects'[Len(orders) + 1] = Object(ask)
             /\ \A i \in Range(ours) : objects'[i] = objects[i]
  <2>1. rejections' = rejections BY <1>4 DEF Place
  <2>2. objects' = [i \in Range(ours') |-> IF i = Len(orders') THEN Object(ask) ELSE objects[i]]
    BY <2>1 DEF ShadowSubmit
  <2> QED BY <1>1, <1>2, <1>4, <2>2, WatchPlace
<1>5. ASSUME Place(Trim(ask))
      PROVE  /\ \A i \in DOMAIN orders : orders'[i] = orders[i]
             /\ orders'[Len(orders) + 1] = Placed(Trim(ask))
  BY <1>5, PlacedOrder DEF Place
<1> QED BY <1>1, <1>2, <1>3, <1>4, <1>5, SubmitShape

LEMMA WatchStep == BrokerInv /\ Watch /\ [ShadowedNext]_allVars => Watch'
<1> SUFFICES ASSUME BrokerInv, Watch, [ShadowedNext]_allVars PROVE Watch'
  OBVIOUS
<1>1. ASSUME NEW ask \in Asks, ShadowSubmit(ask) PROVE Watch' BY <1>1, SubmitSeen
<1>2. CASE ShadowStartBar BY <1>2, WatchStartBar DEF ShadowStartBar
<1>3. CASE ShadowEndBar BY <1>3, WatchReadPositions DEF ShadowEndBar
<1>4. CASE Alone
  <2>1. UNCHANGED <<before, objects>> BY <1>4 DEF Alone
  <2>2. ASSUME NEW id \in DOMAIN orders, Venue(id) PROVE Watch' BY <2>1, <2>2, WatchVenue
  <2>3. ASSUME NEW ask \in Asks, SubmitFails(ask) PROVE Watch' BY <2>1, <2>3, WatchSubmitFails
  <2>4. CASE Retry \/ ReadCash BY <2>1, <2>4, WatchOnBar
  <2>5. CASE Settle BY <2>1, <2>5, WatchSettle
  <2>6. CASE BarFails BY <2>1, <2>6, WatchBarFails
  <2> QED BY <1>4, <2>2, <2>3, <2>4, <2>5, <2>6 DEF Alone
<1>5. CASE UNCHANGED allVars
  <2>1. UNCHANGED <<orders, phase, pending, requested, rejections, todo, stillPending, fills, asked,
                    ours, before, objects>>
    BY <1>5 DEF allVars, vars, venueVars, brokerVars, barVars
  <2>2. /\ UnderWay' = UnderWay /\ Collected' = Collected /\ Newly' = Newly
        /\ NewRejections' = NewRejections
    BY <2>1 DEF UnderWay, Collected, Newly, NewRejections
  <2>3. Due' = Due BY <2>1, <2>2 DEF Due, InBar
  <2>4. RejectionsNoted' BY <2>1, <2>2 DEF Watch, RejectionsNoted, InBar
  <2>5. RequestedIs' /\ ObjectsKnown' BY <2>1 DEF Watch, RequestedIs, ObjectsKnown
  <2>6. DueApart' BY <2>1, <2>3 DEF Watch, DueApart
  <2> QED BY <2>4, <2>5, <2>6 DEF Watch
<1> QED BY <1>1, <1>2, <1>3, <1>4, <1>5 DEF ShadowedNext

-----------------------------------------------------------------------------
(* What the shadow is given, and what the attribution leaves alone. *)

(* What the shadow reads off the live broker when on_bar returns.            *)
LEMMA LiveFillsType ==
  ASSUME BrokerInv, Watch
  PROVE  /\ LiveFills \in Seq(FillSeen) /\ Len(LiveFills) = Len(fills)
         /\ DOMAIN fills = 1..Len(fills) /\ Len(fills) \in Nat
<1>1. fills \in Seq(Fill) /\ DOMAIN fills = 1..Len(fills) /\ Len(fills) \in Nat
  BY DEF BrokerInv, Typed
<1>2. ASSUME NEW i \in DOMAIN fills PROVE LiveFills[i] \in FillSeen
  <2>1. fills[i] \in Fill /\ fills[i].id \in Collected BY <1>1 DEF Collected
  <2>2. objects[fills[i].id] \in Identity
    BY <2>1 DEF BrokerInv, Noted, Watch, ObjectsKnown
  <2>3. objects[fills[i].id].ask \in Nat BY <2>2 DEF Identity
  <2>4. LiveFills[i] = [symbol |-> fills[i].symbol, side |-> fills[i].side,
                        qty |-> fills[i].qty, of |-> objects[fills[i].id].ask]
    BY DEF LiveFills
  <2> QED BY <2>1, <2>3, <2>4 DEF Fill, FillSeen
<1>3. LiveFills \in [1..Len(fills) -> FillSeen]
  <2>1. LiveFills = [i \in 1..Len(fills) |-> LiveFills[i]] BY <1>1 DEF LiveFills
  <2> QED BY <1>1, <1>2, <2>1
<1> QED BY <1>1, <1>3

LEMMA LiveRejectionsType ==
  ASSUME BrokerInv, Watch, phase = "positions"
  PROVE  /\ LiveRejections \in Seq(RejectionSeen)
         /\ Len(LiveRejections) = Len(rejections) - before
         /\ \A i \in 1..Len(LiveRejections) :
              /\ before + i \in NewRejections
              /\ LiveRejections[i] = [order |-> objects[rejections[before + i].id],
                                      of |-> objects[rejections[before + i].id].ask]
         /\ \A k \in NewRejections : k - before \in 1..Len(LiveRejections) /\ before + (k - before) = k
<1> DEFINE n == Len(rejections) - before
<1>1. /\ rejections \in Seq(Rejection) /\ DOMAIN rejections = 1..Len(rejections)
      /\ Len(rejections) \in Nat /\ before \in Nat /\ n \in Nat
  BY DEF BrokerInv, Typed, Watch, RejectionsNoted
<1>2. ASSUME NEW i \in 1..n PROVE before + i \in NewRejections
  BY <1>1 DEF NewRejections
<1>3. ASSUME NEW i \in 1..n PROVE LiveRejections[i] \in RejectionSeen
  <2>1. objects[rejections[before + i].id] \in Identity
    <3>1. rejections[before + i].id \in Range(ours)
      BY <1>2 DEF Watch, RejectionsNoted, InBar
    <3> QED BY <3>1 DEF Watch, ObjectsKnown
  <2>2. LiveRejections[i] = [order |-> objects[rejections[before + i].id],
                             of |-> objects[rejections[before + i].id].ask]
    BY DEF LiveRejections
  <2> QED BY <2>1, <2>2 DEF RejectionSeen, Identity
<1>4. LiveRejections \in [1..n -> RejectionSeen]
  <2>1. LiveRejections = [i \in 1..n |-> LiveRejections[i]] BY DEF LiveRejections
  <2> QED BY <1>3, <2>1
<1>5. \A k \in NewRejections : k - before \in 1..n /\ before + (k - before) = k
  BY <1>1 DEF NewRejections
<1>6. \A i \in 1..n : LiveRejections[i] = [order |-> objects[rejections[before + i].id],
                                           of |-> objects[rejections[before + i].id].ask]
  BY DEF LiveRejections
<1>7. Len(LiveRejections) = n
  <2> HIDE DEF n
  <2> QED BY <1>1, <1>4
<1>8. LiveRejections \in Seq(RejectionSeen) BY <1>1, <1>4
<1>9. \A i \in 1..Len(LiveRejections) :
        /\ before + i \in NewRejections
        /\ LiveRejections[i] = [order |-> objects[rejections[before + i].id],
                                of |-> objects[rejections[before + i].id].ask]
  <2> HIDE DEF n
  <2> QED BY <1>2, <1>6, <1>7
<1>10. \A k \in NewRejections : k - before \in 1..Len(LiveRejections) /\ before + (k - before) = k
  <2> HIDE DEF n
  <2> QED BY <1>5, <1>7
<1> QED BY <1>7, <1>8, <1>9, <1>10

-----------------------------------------------------------------------------
(* Attribution touches nothing but the live answers. *)

SameButLive(row, new) ==
  /\ new.order = row.order /\ new.symbol = row.symbol /\ new.side = row.side /\ new.qty = row.qty
  /\ new.since = row.since /\ new.ref = row.ref /\ new.model = row.model

LEMMA PutSame ==
  ASSUME NEW row \in RowType, NEW answer PROVE SameButLive(row, [row EXCEPT !.live = answer])
BY DEF SameButLive, RowType

KeepsRows(n, old, state) == \A i \in 1..n : SameButLive(old[i], state.rows[i])

LEMMA PutKeeps ==
  ASSUME NEW n \in Nat, NEW state \in States(n), NEW i \in 1..n, NEW answer \in Shadow!Answers,
         NEW old, KeepsRows(n, old, state)
  PROVE  KeepsRows(n, old, Put(state, i, answer))
<1>0. /\ Put(state, i, answer) \in States(n)
      /\ Put(state, i, answer).strays = state.strays
      /\ \A k \in 1..n \ {i} : Put(state, i, answer).rows[k] = state.rows[k]
      /\ Put(state, i, answer).rows[i] = [state.rows[i] EXCEPT !.live = answer]
  BY PutIs
<1>1. ASSUME NEW k \in 1..n PROVE SameButLive(old[k], Put(state, i, answer).rows[k])
  <2>1. SameButLive(old[k], state.rows[k]) BY DEF KeepsRows
  <2>2. CASE k # i
    <3>2. Put(state, i, answer).rows[k] = state.rows[k] BY <1>0, <2>2
    <3> QED BY <2>1, <3>2
  <2>3. CASE k = i
    <3>1. Put(state, i, answer).rows[k] = [state.rows[k] EXCEPT !.live = answer] BY <1>0, <2>3
    <3>2. SameButLive(state.rows[k], [state.rows[k] EXCEPT !.live = answer]) BY StateRows, PutSame
    <3> QED BY <2>1, <3>1, <3>2 DEF SameButLive
  <2> QED BY <2>2, <2>3
<1> QED BY <1>1 DEF KeepsRows

LEMMA AstrayKeeps ==
  ASSUME NEW n \in Nat, NEW state \in States(n), NEW of, NEW old, KeepsRows(n, old, state)
  PROVE  KeepsRows(n, old, Astray(state, of))
<1>1. Astray(state, of).rows = state.rows BY DEF Astray, States
<1> QED BY <1>1 DEF KeepsRows

LEMMA FillKeeps ==
  ASSUME NEW n \in Nat, NEW state \in States(n), NEW fill \in FillSeen, NEW t \in Nat,
         NEW old, KeepsRows(n, old, state)
  PROVE  KeepsRows(n, old, Shadow!TakeFill(state, fill, t))
<1> DEFINE I == Unanswered(state.rows, fill)
           i == First(I)
           answer == Shadow!Answer("filled", t, fill.qty, fill.of)
<1>1. I \in SUBSET (1..n) BY StateRows DEF Unanswered
<1>2. answer \in Shadow!Answers BY AnswerType DEF FillSeen
<1>3. Shadow!TakeFill(state, fill, t) = IF i = 0 THEN Astray(state, fill.of) ELSE Put(state, i, answer)
  BY TakeFillIs
<1> HIDE DEF I, answer
<1>4. I \in SUBSET Nat BY <1>1
<1>5. i = 0 \/ i \in 1..n BY <1>1, <1>4, FirstIs
<1> HIDE DEF i
<1>6. CASE i = 0
  <2>1. Shadow!TakeFill(state, fill, t) = Astray(state, fill.of) BY <1>3, <1>6
  <2> QED BY <2>1, AstrayKeeps
<1>7. CASE i \in 1..n
  <2>1. Shadow!TakeFill(state, fill, t) = Put(state, i, answer)
    <3>1. i # 0 BY <1>7
    <3> QED BY <1>3, <3>1
  <2>2. KeepsRows(n, old, Put(state, i, answer)) BY <1>2, <1>7, PutKeeps
  <2> QED BY <2>1, <2>2
<1> QED BY <1>5, <1>6, <1>7

LEMMA RejectionKeeps ==
  ASSUME NEW n \in Nat, NEW state \in States(n), NEW rejection \in RejectionSeen, NEW t \in Nat,
         NEW old, KeepsRows(n, old, state)
  PROVE  KeepsRows(n, old, Shadow!TakeRejection(state, rejection, t))
<1> DEFINE I == Named(state.rows, rejection)
           J == FilledNow(state.rows, rejection, t)
           i == First(I)
           j == First(J)
           answer == Shadow!Answer("rejected", t, 0, rejection.of)
<1>1. I \in SUBSET (1..n) /\ J \in SUBSET (1..n) BY StateRows DEF Named, FilledNow
<1>2. answer \in Shadow!Answers BY AnswerType DEF RejectionSeen
<1>3. Shadow!TakeRejection(state, rejection, t)
        = IF i # 0 THEN Put(state, i, answer)
          ELSE IF j # 0 THEN Amend(state, j) ELSE Astray(state, rejection.of)
  BY TakeRejectionIs
<1>4. \A k \in J : state.rows[k].live # None BY DEF FilledNow
<1> HIDE DEF I, J, answer
<1>5. I \in SUBSET Nat /\ J \in SUBSET Nat BY <1>1
<1>6. i = 0 \/ i \in 1..n BY <1>1, <1>5, FirstIs
<1>7. j = 0 \/ (j \in 1..n /\ state.rows[j].live # None) BY <1>1, <1>4, <1>5, FirstIs
<1> HIDE DEF i, j
<1>8. CASE i \in 1..n
  <2>1. i # 0 BY <1>8
  <2>2. Shadow!TakeRejection(state, rejection, t) = Put(state, i, answer) BY <1>3, <2>1
  <2>3. KeepsRows(n, old, Put(state, i, answer)) BY <1>2, <1>8, PutKeeps
  <2> QED BY <2>2, <2>3
<1>9. CASE i = 0 /\ j = 0
  <2>1. Shadow!TakeRejection(state, rejection, t) = Astray(state, rejection.of) BY <1>3, <1>9
  <2> QED BY <2>1, AstrayKeeps
<1>10. CASE i = 0 /\ j \in 1..n /\ state.rows[j].live # None
  <2> DEFINE amended == [state.rows[j].live EXCEPT !.outcome = "partial"]
  <2>1. j # 0 BY <1>10
  <2>2. Shadow!TakeRejection(state, rejection, t) = Amend(state, j) BY <1>3, <1>10, <2>1
  <2>3. state.rows[j] \in RowType BY <1>10, StateRows
  <2>4. state.rows[j].live \in Shadow!Answers BY <1>10, <2>3 DEF RowType
  <2>5. amended \in Shadow!Answers BY <2>4, AmendedType
  <2>6. Amend(state, j) = Put(state, j, amended) BY <1>10, <2>4, AmendIs
  <2> HIDE DEF amended
  <2>7. KeepsRows(n, old, Put(state, j, amended)) BY <1>10, <2>5, PutKeeps
  <2> QED BY <2>2, <2>6, <2>7
<1> QED BY <1>6, <1>7, <1>8, <1>9, <1>10

(* A recursion along a list keeps what each of its steps keeps.              *)
LEMMA FillsKeep ==
  ASSUME NEW n \in Nat, NEW rows \in [1..n -> RowType], NEW list \in Seq(FillSeen), NEW t \in Nat
  PROVE  /\ FillsTaken(rows, list, t) \in States(n)
         /\ KeepsRows(n, rows, FillsTaken(rows, list, t))
<1> DEFINE N == Len(list)
<1>1. PICK st :
        /\ \A k \in 0..N : st[k] \in States(n)
        /\ st[0] = Empty(rows)
        /\ \A k \in 0..N - 1 : st[k + 1] = Shadow!TakeFill(st[k], list[k + 1], t)
        /\ FillsTaken(rows, list, t) = st[N]
  BY FillStates
<1>2. N \in Nat /\ N \in 0..N OBVIOUS
<1> DEFINE P == {k \in Nat : k <= N => KeepsRows(n, rows, st[k])}
<1>3. 0 \in P
  <2>1. st[0].rows = rows BY <1>1 DEF Empty
  <2> QED BY <2>1 DEF KeepsRows, SameButLive
<1>4. ASSUME NEW k \in P PROVE k + 1 \in P
  <2>1. ASSUME k + 1 <= N PROVE KeepsRows(n, rows, st[k + 1])
    <3>1. k \in 0..N - 1 /\ k \in 0..N /\ k <= N /\ k + 1 \in 1..N BY <1>2, <2>1
    <3>2. st[k] \in States(n) /\ list[k + 1] \in FillSeen /\ KeepsRows(n, rows, st[k])
      BY <1>1, <3>1
    <3>3. KeepsRows(n, rows, Shadow!TakeFill(st[k], list[k + 1], t)) BY <3>2, FillKeeps
    <3> QED BY <1>1, <3>1, <3>3
  <2> QED BY <2>1
<1>5. P \in SUBSET Nat OBVIOUS
<1> HIDE DEF P
<1>6. P = Nat BY <1>3, <1>4, <1>5, SetOfNaturals
<1>7. KeepsRows(n, rows, st[N]) BY <1>2, <1>6 DEF P
<1> QED BY <1>1, <1>2, <1>7

LEMMA RejectionsKeep ==
  ASSUME NEW n \in Nat, NEW base \in States(n), NEW list \in Seq(RejectionSeen), NEW t \in Nat
  PROVE  /\ RejectionsTaken(base, list, t) \in States(n)
         /\ \A rows : KeepsRows(n, rows, base) => KeepsRows(n, rows, RejectionsTaken(base, list, t))
<1> DEFINE N == Len(list)
<1>1. PICK st :
        /\ \A k \in 0..N : st[k] \in States(n)
        /\ st[0] = base
        /\ \A k \in 0..N - 1 : st[k + 1] = Shadow!TakeRejection(st[k], list[k + 1], t)
        /\ RejectionsTaken(base, list, t) = st[N]
  BY RejectionStates
<1>2. N \in Nat /\ N \in 0..N OBVIOUS
<1>3. ASSUME NEW rows, KeepsRows(n, rows, base) PROVE KeepsRows(n, rows, st[N])
  <2> DEFINE P == {k \in Nat : k <= N => KeepsRows(n, rows, st[k])}
  <2>1. 0 \in P BY <1>1, <1>3
  <2>2. ASSUME NEW k \in P PROVE k + 1 \in P
    <3>1. ASSUME k + 1 <= N PROVE KeepsRows(n, rows, st[k + 1])
      <4>1. k \in 0..N - 1 /\ k \in 0..N /\ k <= N /\ k + 1 \in 1..N BY <1>2, <3>1
      <4>2. st[k] \in States(n) /\ list[k + 1] \in RejectionSeen /\ KeepsRows(n, rows, st[k])
        BY <1>1, <4>1
      <4>3. KeepsRows(n, rows, Shadow!TakeRejection(st[k], list[k + 1], t)) BY <4>2, RejectionKeeps
      <4> QED BY <1>1, <4>1, <4>3
    <3> QED BY <3>1
  <2>3. P \in SUBSET Nat OBVIOUS
  <2> HIDE DEF P
  <2>4. P = Nat BY <2>1, <2>2, <2>3, SetOfNaturals
  <2>5. KeepsRows(n, rows, st[N]) BY <1>2, <2>4 DEF P
  <2> QED BY <2>5
<1> QED BY <1>1, <1>2, <1>3

LEMMA AttributedKeeps ==
  ASSUME NEW n \in Nat, NEW rows \in [1..n -> RowType], NEW f \in Seq(FillSeen),
         NEW r \in Seq(RejectionSeen), NEW t \in Nat
  PROVE  /\ Shadow!Attributed(rows, f, r, t) \in States(n)
         /\ KeepsRows(n, rows, Shadow!Attributed(rows, f, r, t))
<1> DEFINE base == FillsTaken(rows, f, t)
<1>1. base \in States(n) /\ KeepsRows(n, rows, base) BY FillsKeep
<1>2. Shadow!Attributed(rows, f, r, t) = RejectionsTaken(base, r, t) BY AttributedIs
<1> HIDE DEF base
<1>3. /\ RejectionsTaken(base, r, t) \in States(n)
      /\ KeepsRows(n, rows, RejectionsTaken(base, r, t))
  BY <1>1, RejectionsKeep
<1> QED BY <1>2, <1>3

-----------------------------------------------------------------------------
(* Selections. *)

LEMMA ASelection == ASSUME NEW s, NEW I PROVE Shadow!Selected(s, I) = Selected(s, I)
BY DEF Shadow!Selected, Shadow!Ranked, Shadow!Cardinality, Selected, Ranked, Cardinality

(* A selection takes each member once, from a place of its own.              *)
Drawn(sel, s, I, h) ==
  /\ h \in [1..Len(sel) -> I]
  /\ \A j \in 1..Len(sel) : sel[j] = s[h[j]]
  /\ \A j, k \in 1..Len(sel) : h[j] = h[k] => j = k
  /\ \A i \in I : \E j \in 1..Len(sel) : h[j] = i

LEMMA SelectionIsDrawn ==
  ASSUME NEW n \in Nat, NEW s \in [1..n -> RowType], NEW I \in SUBSET (1..n)
  PROVE  /\ Selected(s, I) \in Seq(RowType) /\ Len(Selected(s, I)) = Cardinality(I)
         /\ \E h : Drawn(Selected(s, I), s, I, h)
         /\ Range(Selected(s, I)) = {s[i] : i \in I}
<1> DEFINE sel == Selected(s, I)
           N == Cardinality(I)
           h == Ranked(I)
<1>1. I \in SUBSET Nat /\ IsFiniteSet(I) /\ \A i \in I : s[i] \in RowType
  <2>1. IsFiniteSet(1..n) BY FS_Interval
  <2>2. IsFiniteSet(I) BY <2>1, FS_Subset
  <2>3. \A i \in I : i \in 1..n OBVIOUS
  <2> QED BY <2>2, <2>3
<1>2. /\ N \in Nat /\ h \in [1..N -> I] /\ \A i \in I : \E j \in 1..N : h[j] = i
      /\ \A j, k \in 1..N : j < k => h[j] < h[k]
  BY <1>1, RankedLists
<1>3. \A j \in 1..N : sel[j] = s[h[j]] BY DEF Selected
<1>4. sel \in Seq(RowType) /\ Len(sel) = N BY <1>1, SelectedIs
<1> HIDE DEF sel, N, h
<1>5. \A j, k \in 1..N : h[j] = h[k] => j = k
  <2>1. ASSUME NEW j \in 1..N, NEW k \in 1..N, h[j] = h[k] PROVE j = k
    <3>1. h[j] \in Nat /\ h[k] \in Nat BY <1>1, <1>2
    <3>2. ~(h[j] < h[k]) /\ ~(h[k] < h[j]) BY <2>1, <3>1
    <3>3. ~(j < k) /\ ~(k < j) BY <1>2, <3>2
    <3>4. j \in Nat /\ k \in Nat BY <1>2
    <3> QED BY <3>3, <3>4
  <2> QED BY <2>1
<1>6. Drawn(sel, s, I, h) BY <1>2, <1>3, <1>4, <1>5 DEF Drawn
<1>7. Range(sel) = {s[i] : i \in I}
  <2>1. DOMAIN sel = 1..N BY <1>2, <1>4
  <2>2. ASSUME NEW j \in 1..N PROVE sel[j] \in {s[i] : i \in I} BY <1>2, <1>3
  <2>3. ASSUME NEW i \in I PROVE \E j \in 1..N : s[i] = sel[j] BY <1>2, <1>3
  <2> QED BY <2>1, <2>2, <2>3 DEF Range
<1> QED BY <1>4, <1>6, <1>7 DEF sel, N

LEMMA HalvesAddUp ==
  ASSUME NEW n \in Nat, NEW I \in SUBSET (1..n), NEW J \in SUBSET (1..n),
         I \cup J = 1..n, I \cap J = {}
  PROVE  Cardinality(I) + Cardinality(J) = n /\ Cardinality(I) \in Nat /\ Cardinality(J) \in Nat
<1>1. IsFiniteSet(1..n) /\ Cardinality(1..n) = n BY FS_Interval
<1>2. IsFiniteSet(I) /\ IsFiniteSet(J) BY <1>1, FS_Subset
<1>3. Cardinality(I) \in Nat /\ Cardinality(J) \in Nat BY <1>2, FS_CardinalityType
<1>4. Cardinality(I \cup J) = Cardinality(I) + Cardinality(J) - Cardinality(I \cap J)
  BY <1>2, FS_Union
<1>5. Cardinality(I \cap J) = 0 BY FS_EmptySet
<1>6. Cardinality(I \cup J) = n BY <1>1
<1> QED BY <1>3, <1>4, <1>5, <1>6

LEMMA ConcatRange ==
  ASSUME NEW X, NEW s \in Seq(X), NEW u \in Seq(X)
  PROVE  s \o u \in Seq(X) /\ Len(s \o u) = Len(s) + Len(u) /\ Range(s \o u) = Range(s) \cup Range(u)
<1> DEFINE w == s \o u
           m == Len(s)
           n == Len(u)
<1>1. /\ m \in Nat /\ n \in Nat /\ DOMAIN s = 1..m /\ DOMAIN u = 1..n
      /\ w \in Seq(X) /\ Len(w) = m + n /\ DOMAIN w = 1..(m + n)
  OBVIOUS
<1>2. \A i \in 1..n : w[m + i] = u[i] OBVIOUS
<1>3. \A i \in 1..m : w[i] = s[i] OBVIOUS
<1> HIDE DEF w, m, n
<1>4. ASSUME NEW i \in DOMAIN w PROVE w[i] \in Range(s) \cup Range(u)
  <2>1. CASE i \in 1..m BY <1>1, <1>3, <2>1 DEF Range
  <2>2. CASE i \notin 1..m
    <3>1. i - m \in 1..n /\ m + (i - m) = i BY <1>1, <2>2
    <3>2. w[i] = u[i - m] BY <1>2, <3>1
    <3> QED BY <1>1, <3>1, <3>2 DEF Range
  <2> QED BY <2>1, <2>2
<1>5. ASSUME NEW i \in 1..m PROVE s[i] \in Range(w)
  <2>1. i \in DOMAIN w BY <1>1
  <2> QED BY <1>3, <2>1 DEF Range
<1>6. ASSUME NEW i \in 1..n PROVE u[i] \in Range(w)
  <2>1. m + i \in DOMAIN w BY <1>1
  <2> QED BY <1>2, <2>1 DEF Range
<1>7. Range(w) = Range(s) \cup Range(u)
  <2>1. Range(w) \subseteq Range(s) \cup Range(u) BY <1>4 DEF Range
  <2>2. Range(s) \subseteq Range(w) BY <1>1, <1>5 DEF Range
  <2>3. Range(u) \subseteq Range(w) BY <1>1, <1>6 DEF Range
  <2> QED BY <2>1, <2>2, <2>3
<1> QED BY <1>1, <1>7 DEF w, m, n

-----------------------------------------------------------------------------
(* References and the model. *)

ShadowTyped ==
  /\ enabled \in BOOLEAN
  /\ tracked \in Seq(RowType) /\ closed \in Seq(RowType) /\ file \in Seq(RowType)
  /\ strays \in Seq(Nat) /\ refusals \in Nat /\ lastBar \in Nat /\ journaled \in Nat

(* A row before and after its reference and its model side are seen to.      *)
SameButPriced(row, new) ==
  /\ new.order = row.order /\ new.symbol = row.symbol /\ new.side = row.side /\ new.qty = row.qty
  /\ new.since = row.since /\ new.live = row.live

Priced(row, new, bars, verdict, t) ==
  /\ new \in RowType /\ SameButPriced(row, new)
  /\ new.ref = IF row.ref = None /\ row.symbol \in bars THEN t ELSE row.ref
  /\ IF row.model = None /\ row.order \in DOMAIN verdict
       THEN new.model \in Shadow!Answers /\ new.model.ts = t
       ELSE new.model = row.model

LEMMA ReferencedIs ==
  ASSUME NEW n \in Nat, NEW rows \in [1..n -> RowType], NEW bars, NEW t \in Nat
  PROVE  /\ Shadow!Referenced(rows, bars, t) \in [1..n -> RowType]
         /\ \A i \in 1..n :
              LET row == rows[i]
                  new == Shadow!Referenced(rows, bars, t)[i]
              IN /\ SameButPriced(row, new) /\ new.model = row.model
                 /\ new.ref = IF row.ref = None /\ row.symbol \in bars THEN t ELSE row.ref
<1> DEFINE next == Shadow!Referenced(rows, bars, t)
<1>1. next = [i \in 1..n |-> next[i]] BY DEF Shadow!Referenced
<1>2. ASSUME NEW i \in 1..n
      PROVE  /\ next[i] \in RowType /\ SameButPriced(rows[i], next[i]) /\ next[i].model = rows[i].model
             /\ next[i].ref = IF rows[i].ref = None /\ rows[i].symbol \in bars THEN t ELSE rows[i].ref
  <2> DEFINE row == rows[i]
  <2>1. row \in RowType OBVIOUS
  <2>2. next[i] = IF row.ref = None /\ row.symbol \in bars THEN [row EXCEPT !.ref = t] ELSE row
    BY DEF Shadow!Referenced
  <2> HIDE DEF row
  <2>3. /\ [row EXCEPT !.ref = t] \in RowType /\ SameButPriced(row, [row EXCEPT !.ref = t])
        /\ [row EXCEPT !.ref = t].model = row.model /\ [row EXCEPT !.ref = t].ref = t
    BY <2>1 DEF RowType, SameButPriced
  <2>4. SameButPriced(row, row) BY DEF SameButPriced
  <2>5. /\ next[i] \in RowType /\ SameButPriced(row, next[i]) /\ next[i].model = row.model
        /\ next[i].ref = IF row.ref = None /\ row.symbol \in bars THEN t ELSE row.ref
    <3> HIDE DEF next
    <3>1. CASE row.ref = None /\ row.symbol \in bars
      <4>1. next[i] = [row EXCEPT !.ref = t] BY <2>2, <3>1
      <4> QED BY <2>3, <3>1, <4>1
    <3>2. CASE ~(row.ref = None /\ row.symbol \in bars)
      <4>1. next[i] = row BY <2>2, <3>2
      <4> QED BY <2>1, <2>4, <3>2, <4>1
    <3> QED BY <3>1, <3>2
  <2> QED BY <2>5 DEF row
<1> HIDE DEF next
<1>3. next \in [1..n -> RowType] BY <1>1, <1>2
<1> QED BY <1>2, <1>3 DEF next

LEMMA ModelledIs ==
  ASSUME NEW n \in Nat, NEW rows \in [1..n -> RowType], NEW t \in Nat,
         NEW verdict, verdict \in [DOMAIN verdict -> {"filled", "rejected"}]
  PROVE  /\ Shadow!Modelled(rows, verdict, t) \in [1..n -> RowType]
         /\ \A i \in 1..n :
              LET row == rows[i]
                  new == Shadow!Modelled(rows, verdict, t)[i]
              IN /\ SameButPriced(row, new) /\ new.ref = row.ref
                 /\ IF row.model = None /\ row.order \in DOMAIN verdict
                      THEN new.model \in Shadow!Answers /\ new.model.ts = t
                      ELSE new.model = row.model
<1> DEFINE next == Shadow!Modelled(rows, verdict, t)
           Asked(row) == row.model = None /\ row.order \in DOMAIN verdict
<1>1. next = [i \in 1..n |-> next[i]] BY DEF Shadow!Modelled
<1>2. ASSUME NEW i \in 1..n
      PROVE  /\ next[i] \in RowType /\ SameButPriced(rows[i], next[i]) /\ next[i].ref = rows[i].ref
             /\ IF Asked(rows[i]) THEN next[i].model \in Shadow!Answers /\ next[i].model.ts = t
                                  ELSE next[i].model = rows[i].model
  <2> DEFINE row == rows[i]
             answer == Shadow!Answer(verdict[row.order], t,
                                     IF verdict[row.order] = "filled" THEN row.qty ELSE 0,
                                     row.order.ask)
  <2>1. row \in RowType OBVIOUS
  <2>2. next[i] = IF Asked(row) THEN [row EXCEPT !.model = answer] ELSE row
    BY DEF Shadow!Modelled
  <2>3. ASSUME Asked(row) PROVE answer \in Shadow!Answers /\ answer.ts = t
    <3>1. verdict[row.order] \in {"filled", "rejected"} BY <2>3
    <3>2. row.qty \in Nat /\ row.order.ask \in Nat BY <2>1 DEF RowType, Identity
    <3> HIDE DEF row
    <3> QED BY <3>1, <3>2 DEF Shadow!Answer, Shadow!Answers
  <2> HIDE DEF row, answer
  <2>4. ASSUME answer \in Shadow!Answers
        PROVE  /\ [row EXCEPT !.model = answer] \in RowType
               /\ SameButPriced(row, [row EXCEPT !.model = answer])
               /\ [row EXCEPT !.model = answer].ref = row.ref
               /\ [row EXCEPT !.model = answer].model = answer
    BY <2>1, <2>4 DEF RowType, SameButPriced
  <2>5. SameButPriced(row, row) BY DEF SameButPriced
  <2>6. /\ next[i] \in RowType /\ SameButPriced(row, next[i]) /\ next[i].ref = row.ref
        /\ IF Asked(row) THEN next[i].model \in Shadow!Answers /\ next[i].model.ts = t
                         ELSE next[i].model = row.model
    <3> HIDE DEF next, Asked
    <3>1. CASE Asked(row)
      <4>1. next[i] = [row EXCEPT !.model = answer] BY <2>2, <3>1
      <4> QED BY <2>3, <2>4, <3>1, <4>1
    <3>2. CASE ~Asked(row)
      <4>1. next[i] = row BY <2>2, <3>2
      <4> QED BY <2>1, <2>5, <3>2, <4>1
    <3> QED BY <3>1, <3>2
  <2> QED BY <2>6 DEF row
<1> HIDE DEF next
<1>3. next \in [1..n -> RowType] BY <1>1, <1>2
<1> QED BY <1>2, <1>3 DEF next

(* The rows as the live answers find them.                                   *)
Prepared(bars, verdict) ==
  Shadow!Modelled(Shadow!Referenced(tracked, bars, lastBar + 1), verdict, lastBar + 1)

LEMMA PreparedIs ==
  ASSUME ShadowTyped, NEW bars, NEW verdict, verdict \in [DOMAIN verdict -> {"filled", "rejected"}]
  PROVE  /\ Prepared(bars, verdict) \in [1..Len(tracked) -> RowType]
         /\ \A i \in 1..Len(tracked) :
              Priced(tracked[i], Prepared(bars, verdict)[i], bars, verdict, lastBar + 1)
<1> DEFINE n == Len(tracked)
           t == lastBar + 1
           mid == Shadow!Referenced(tracked, bars, t)
           new == Shadow!Modelled(mid, verdict, t)
<1>1. n \in Nat /\ tracked \in [1..n -> RowType] /\ t \in Nat BY DEF ShadowTyped
<1>2. Prepared(bars, verdict) = new BY DEF Prepared
<1> HIDE DEF n, t
<1>3. /\ mid \in [1..n -> RowType]
      /\ \A i \in 1..n :
           /\ SameButPriced(tracked[i], mid[i]) /\ mid[i].model = tracked[i].model
           /\ mid[i].ref = IF tracked[i].ref = None /\ tracked[i].symbol \in bars THEN t ELSE tracked[i].ref
  BY <1>1, ReferencedIs
<1> HIDE DEF mid
<1>4. /\ new \in [1..n -> RowType]
      /\ \A i \in 1..n :
           /\ SameButPriced(mid[i], new[i]) /\ new[i].ref = mid[i].ref
           /\ IF mid[i].model = None /\ mid[i].order \in DOMAIN verdict
                THEN new[i].model \in Shadow!Answers /\ new[i].model.ts = t
                ELSE new[i].model = mid[i].model
  BY <1>1, <1>3, ModelledIs
<1> HIDE DEF new
<1>5. ASSUME NEW i \in 1..n PROVE Priced(tracked[i], new[i], bars, verdict, t)
  <2>1. SameButPriced(tracked[i], mid[i]) /\ SameButPriced(mid[i], new[i]) BY <1>3, <1>4
  <2>2. SameButPriced(tracked[i], new[i]) /\ mid[i].order = tracked[i].order
    BY <2>1 DEF SameButPriced
  <2>3. new[i] \in RowType BY <1>4
  <2> QED BY <1>3, <1>4, <2>2, <2>3 DEF Priced
<1> QED BY <1>2, <1>4, <1>5 DEF n, t

-----------------------------------------------------------------------------
(* A bar of the shadow. *)

(* The rows once the live answers are on them, and which of those rows have  *)
(* both answers.                                                             *)
Seen(bars, verdict) ==
  Shadow!Attributed(Prepared(bars, verdict), LiveFills, LiveRejections, lastBar + 1)

Done(bars, verdict) == {i \in 1..Len(tracked) : Shadow!Answered(Seen(bars, verdict).rows[i])}
Left(bars, verdict) == {i \in 1..Len(tracked) : ~Shadow!Answered(Seen(bars, verdict).rows[i])}

LEMMA VerdictIs ==
  ASSUME ShadowTyped, NEW bars, NEW verdict \in Verdicts(bars)
  PROVE  /\ verdict \in [DOMAIN verdict -> {"filled", "rejected"}]
         /\ \A order : order \in DOMAIN verdict <=>
              \E i \in 1..Len(tracked) : /\ tracked[i].order = order /\ tracked[i].model = None
                                         /\ tracked[i].symbol \in bars
<1> DEFINE n == Len(tracked)
           I == {i \in 1..n : tracked[i].model = None /\ tracked[i].symbol \in bars}
           P == Shadow!Priceable(tracked, bars)
<1>1. n \in Nat /\ tracked \in [1..n -> RowType] /\ DOMAIN tracked = 1..n BY DEF ShadowTyped
<1>2. P = Selected(tracked, I)
  <2>1. P = Shadow!Selected(tracked, I) BY <1>1 DEF Shadow!Priceable
  <2> QED BY <2>1, ASelection
<1>3. I \in SUBSET (1..n) OBVIOUS
<1>4. Range(P) = {tracked[i] : i \in I}
  <2> HIDE DEF I, P, n
  <2>1. Range(Selected(tracked, I)) = {tracked[i] : i \in I} BY <1>1, <1>3, SelectionIsDrawn
  <2> QED BY <1>2, <2>1
<1>5. verdict \in [{row.order : row \in Range(P)} -> {"filled", "rejected"}]
  BY DEF Verdicts
<1> HIDE DEF P
<1>6. DOMAIN verdict = {tracked[i].order : i \in I} BY <1>4, <1>5
<1> QED BY <1>5, <1>6

(* What one bar of the shadow does, when nothing of it raises before the     *)
(* journal.                                                                  *)
Observed(bars, verdict) ==
  /\ enabled /\ lastBar' = lastBar + 1 /\ refusals' = refusals /\ Shadow!Flush(closed')
  /\ Seen(bars, verdict) \in States(Len(tracked))
  /\ KeepsRows(Len(tracked), Prepared(bars, verdict), Seen(bars, verdict))
  /\ tracked' \in Seq(RowType)
  /\ \E h : Drawn(tracked', Seen(bars, verdict).rows, Left(bars, verdict), h)
  /\ \E new \in Seq(RowType) :
       /\ closed' = closed \o new
       /\ Range(new) = {Seen(bars, verdict).rows[i] : i \in Done(bars, verdict)}
       /\ Len(new) + Len(tracked') = Len(tracked)
  /\ Range(tracked') = {Seen(bars, verdict).rows[i] : i \in Left(bars, verdict)}
  /\ strays' = strays \o Seen(bars, verdict).strays

LEMMA ObserveShape ==
  ASSUME BrokerInv, Watch, ShadowTyped, phase = "positions", NEW bars, NEW verdict \in Verdicts(bars),
         Shadow!Observe(bars, LiveFills, LiveRejections, verdict)
  PROVE  Observed(bars, verdict)
<1> DEFINE n == Len(tracked)
           seen == Seen(bars, verdict)
           I == Left(bars, verdict)
           J == Done(bars, verdict)
           new == Selected(seen.rows, J)
<1>1. n \in Nat /\ lastBar + 1 \in Nat BY DEF ShadowTyped
<1>2. /\ Prepared(bars, verdict) \in [1..n -> RowType]
      /\ verdict \in [DOMAIN verdict -> {"filled", "rejected"}]
  BY VerdictIs, PreparedIs
<1>3. seen \in States(n) /\ KeepsRows(n, Prepared(bars, verdict), seen)
  <2> DEFINE rows == Prepared(bars, verdict)
             f == LiveFills
             r == LiveRejections
             t == lastBar + 1
  <2>1. rows \in [1..n -> RowType] /\ f \in Seq(FillSeen) /\ r \in Seq(RejectionSeen) /\ t \in Nat
    BY <1>1, <1>2, LiveFillsType, LiveRejectionsType
  <2>2. seen = Shadow!Attributed(rows, f, r, t) BY DEF Seen
  <2> HIDE DEF rows, f, r, t, seen, n
  <2>3. /\ Shadow!Attributed(rows, f, r, t) \in States(n)
        /\ KeepsRows(n, rows, Shadow!Attributed(rows, f, r, t))
    BY <1>1, <2>1, AttributedKeeps
  <2> QED BY <2>2, <2>3 DEF rows
<1>4. seen.rows \in [1..n -> RowType] /\ DOMAIN seen.rows = 1..n BY <1>3 DEF States
<1>5. /\ enabled /\ lastBar' = lastBar + 1 /\ refusals' = refusals /\ Shadow!Flush(closed')
      /\ strays' = strays \o seen.strays
  BY DEF Shadow!Observe, Seen, Prepared
<1>6. tracked' = Selected(seen.rows, I) /\ closed' = closed \o new
  <2>1. /\ tracked' = Shadow!Selected(seen.rows, {i \in DOMAIN seen.rows : ~Shadow!Answered(seen.rows[i])})
        /\ closed' = closed \o Shadow!Selected(seen.rows, {i \in DOMAIN seen.rows : Shadow!Answered(seen.rows[i])})
    BY DEF Shadow!Observe, Seen, Prepared
  <2>2. /\ {i \in DOMAIN seen.rows : ~Shadow!Answered(seen.rows[i])} = I
        /\ {i \in DOMAIN seen.rows : Shadow!Answered(seen.rows[i])} = J
    BY <1>4 DEF Left, Done
  <2> QED BY <2>1, <2>2, ASelection
<1>7. I \in SUBSET (1..n) /\ J \in SUBSET (1..n) /\ I \cup J = 1..n /\ I \cap J = {}
  BY DEF Left, Done
<1> DEFINE s == seen.rows
<1> HIDE DEF n, seen, I, J, new, s
<1>8. s \in [1..n -> RowType] BY <1>4 DEF s
<1>9. /\ Selected(s, I) \in Seq(RowType) /\ Len(Selected(s, I)) = Cardinality(I)
      /\ \E h : Drawn(Selected(s, I), s, I, h)
      /\ Range(Selected(s, I)) = {s[i] : i \in I}
  BY <1>1, <1>7, <1>8, SelectionIsDrawn
<1>10. /\ Selected(s, J) \in Seq(RowType) /\ Len(Selected(s, J)) = Cardinality(J)
       /\ Range(Selected(s, J)) = {s[i] : i \in J}
  BY <1>1, <1>7, <1>8, SelectionIsDrawn
<1>11. Cardinality(I) + Cardinality(J) = n /\ Cardinality(I) \in Nat /\ Cardinality(J) \in Nat
  BY <1>1, <1>7, HalvesAddUp
<1>12. tracked' = Selected(s, I) /\ new = Selected(s, J) BY <1>6 DEF s, new
<1>13. Len(new) + Len(tracked') = n BY <1>9, <1>10, <1>11, <1>12
<1> QED BY <1>3, <1>5, <1>6, <1>9, <1>10, <1>12, <1>13 DEF Observed, n, seen, I, J, s

-----------------------------------------------------------------------------
(* The journal. *)

(* What is on disk is the start of the closed rows, and all of them as long  *)
(* as the shadow is on.                                                      *)
Journaled ==
  /\ IsPrefix(file, closed)
  /\ enabled => file = closed /\ journaled = Len(closed)

LEMMA PrefixIs ==
  ASSUME NEW X, NEW s \in Seq(X), NEW u \in Seq(X), NEW w \in 0..Len(u)
  PROVE  /\ IsPrefix(s, s) /\ IsPrefix(s \o SubSeq(u, 1, w), s \o u)
         /\ s \o SubSeq(u, 1, w) \in Seq(X)
<1>1. IsPrefix(s, s) BY DEF IsPrefix
<1> DEFINE p == SubSeq(u, 1, w)
           m == Len(s)
<1>2. /\ m \in Nat /\ Len(u) \in Nat /\ w \in Nat /\ w <= Len(u)
      /\ p \in Seq(X) /\ Len(p) = w /\ \A i \in 1..w : p[i] = u[i]
  OBVIOUS
<1> HIDE DEF p, m
<1>3. /\ s \o p \in Seq(X) /\ s \o u \in Seq(X)
      /\ Len(s \o p) = m + w /\ Len(s \o u) = m + Len(u)
  BY <1>2 DEF m
<1>4. ASSUME NEW i \in 1..(m + w) PROVE (s \o p)[i] = (s \o u)[i]
  <2>1. CASE i \in 1..m BY <1>2, <2>1 DEF m
  <2>2. CASE i \notin 1..m
    <3>1. i - m \in 1..w /\ i - m \in 1..Len(u) /\ i \in 1..(m + Len(u)) BY <1>2, <2>2
    <3>2. (s \o p)[i] = p[i - m] BY <1>2, <2>2, <3>1 DEF m
    <3>3. (s \o u)[i] = u[i - m] BY <1>2, <2>2, <3>1 DEF m
    <3> QED BY <1>2, <3>1, <3>2, <3>3
  <2> QED BY <2>1, <2>2
<1>5. IsPrefix(s \o p, s \o u)
  <2> DEFINE a == s \o p
             b == s \o u
             k == m + w
  <2>1. /\ a \in Seq(X) /\ b \in Seq(X) /\ Len(a) = k /\ k \in Nat /\ k <= Len(b)
        /\ \A i \in 1..k : a[i] = b[i]
    BY <1>2, <1>3, <1>4
  <2> HIDE DEF a, b, k
  <2>2. SubSeq(a, 1, k) \in Seq(X) /\ SubSeq(b, 1, k) \in Seq(X)
        /\ Len(SubSeq(a, 1, k)) = k /\ Len(SubSeq(b, 1, k)) = k
        /\ \A i \in 1..k : SubSeq(a, 1, k)[i] = a[i] /\ SubSeq(b, 1, k)[i] = b[i]
    BY <2>1
  <2>3. SubSeq(a, 1, k) = SubSeq(b, 1, k) BY <2>1, <2>2
  <2> QED BY <2>1, <2>3 DEF IsPrefix, a, b
<1> QED BY <1>1, <1>3, <1>5 DEF p

(* _flush_journal appends what came since: all of it, or a part of it and    *)
(* the shadow is off.                                                        *)
LEMMA FlushShape ==
  ASSUME ShadowTyped, Journaled, enabled, NEW new \in Seq(RowType), closed' = closed \o new,
         Shadow!Flush(closed')
  PROVE  /\ enabled' \in BOOLEAN /\ file' \in Seq(RowType) /\ journaled' \in Nat
         /\ IsPrefix(file', closed')
         /\ enabled' => file' = closed' /\ journaled' = Len(closed')
<1> DEFINE fresh == Shadow!Fresh(closed')
<1>1. closed \in Seq(RowType) /\ file = closed /\ journaled = Len(closed) /\ Len(closed) \in Nat
  BY DEF ShadowTyped, Journaled
<1>2. closed' \in Seq(RowType) /\ Len(closed') = Len(closed) + Len(new) /\ Len(new) \in Nat
  BY <1>1
<1>3. fresh = new
  <2> DEFINE a == closed
             b == closed \o new
             m == Len(a)
             k == Len(b)
  <2>1. fresh = SubSeq(b, m + 1, k) BY <1>1 DEF Shadow!Fresh
  <2>2. /\ a \in Seq(RowType) /\ m \in Nat /\ k = m + Len(new) /\ Len(new) \in Nat
        /\ b \in Seq(RowType)
    BY <1>1
  <2>3. SubSeq(b, m + 1, k) \in Seq(RowType) /\ Len(SubSeq(b, m + 1, k)) = Len(new)
    <3> HIDE DEF a, b, m, k
    <3>1. k - (m + 1) + 1 = Len(new) BY <2>2
    <3>2. k = Len(b) BY DEF k
    <3>3. SubSeq(b, m + 1, k) \in Seq(RowType) BY <2>2, <3>2
    <3>4. Len(SubSeq(b, m + 1, k)) = Len(new) BY <2>2, <3>1, <3>2
    <3> QED BY <3>3, <3>4
  <2>4. ASSUME NEW i \in 1..Len(new) PROVE SubSeq(b, m + 1, k)[i] = new[i]
    <3>1. b[m + i] = new[i] BY <2>2
    <3> HIDE DEF a, b
    <3>2. SubSeq(b, m + 1, k)[i] = b[(m + 1) + i - 1] BY <2>2
    <3>3. (m + 1) + i - 1 = m + i BY <2>2
    <3> QED BY <3>1, <3>2, <3>3
  <2> DEFINE u == SubSeq(b, m + 1, k)
  <2>5. fresh = u /\ u \in Seq(RowType) /\ Len(u) = Len(new) /\ \A i \in 1..Len(new) : u[i] = new[i]
    BY <2>1, <2>3, <2>4
  <2> HIDE DEF u, fresh
  <2> QED BY <2>5
<1>4. CASE file' = file \o fresh /\ journaled' = Len(closed') /\ enabled' = enabled
  <2>1. file' = closed' BY <1>1, <1>3, <1>4
  <2>2. IsPrefix(file', closed') BY <1>2, <2>1 DEF IsPrefix
  <2> QED BY <1>2, <1>4, <2>1, <2>2 DEF ShadowTyped
<1>5. ASSUME NEW w \in 0..Len(fresh), file' = file \o SubSeq(fresh, 1, w), enabled' = FALSE,
             journaled' = journaled
      PROVE  /\ enabled' \in BOOLEAN /\ file' \in Seq(RowType) /\ journaled' \in Nat
             /\ IsPrefix(file', closed')
  <2>1. w \in 0..Len(new) /\ file' = closed \o SubSeq(new, 1, w) BY <1>1, <1>3, <1>5
  <2>2. file' \in Seq(RowType) /\ IsPrefix(file', closed')
    <3> DEFINE a == closed
    <3>1. a \in Seq(RowType) /\ file' = a \o SubSeq(new, 1, w) /\ closed' = a \o new BY <1>1, <2>1
    <3> HIDE DEF a
    <3> QED BY <2>1, <3>1, PrefixIs
  <2> QED BY <1>1, <1>5, <2>2
<1> HIDE DEF fresh
<1>6. \/ file' = file \o fresh /\ journaled' = Len(closed') /\ enabled' = enabled
      \/ \E w \in 0..Len(fresh) : /\ file' = file \o SubSeq(fresh, 1, w) /\ enabled' = FALSE
                                  /\ journaled' = journaled
  BY DEF Shadow!Flush, Shadow!Disable, fresh
<1> QED BY <1>4, <1>5, <1>6

Followed(ask) ==
  Shadow!Row([ask |-> asked + 1, copy |-> FALSE], ask.symbol, ask.side, ask.qty)

LEMMA FollowedIs ==
  ASSUME BrokerInv, ShadowTyped, NEW ask \in Asks
  PROVE  /\ Followed(ask) \in RowType
         /\ Followed(ask).order = [ask |-> asked + 1, copy |-> FALSE]
         /\ Followed(ask).symbol = ask.symbol /\ Followed(ask).side = ask.side
         /\ Followed(ask).qty = ask.qty
         /\ Followed(ask).since = lastBar /\ Followed(ask).ref = None
         /\ Followed(ask).live = None /\ Followed(ask).model = None
<1>1. asked + 1 \in Nat /\ lastBar \in Nat
  <2>1. asked \in Nat BY BrokerAssumption DEF BrokerInv, Typed
  <2> QED BY <2>1 DEF ShadowTyped
<1>2. ask.symbol \in Symbols /\ ask.side \in {"BUY", "SELL"} /\ ask.qty \in Nat \ {0}
  BY BrokerAssumption
<1> QED BY <1>1, <1>2 DEF Followed, Shadow!Row, RowType, Identity

(* ShadowBroker.submit, after the live broker's.                             *)
LEMMA TrackShape ==
  ASSUME NEW ask \in Asks, ShadowSubmit(ask)
  PROVE  /\ UNCHANGED <<closed, strays, lastBar, journaled, file, before>>
         /\ \/ /\ enabled /\ enabled' = enabled /\ rejections' # rejections
               /\ refusals' = refusals + 1 /\ tracked' = tracked
            \/ /\ enabled /\ enabled' = enabled /\ rejections' = rejections
               /\ tracked' = Append(tracked, Followed(ask)) /\ refusals' = refusals
            \/ enabled' = FALSE /\ UNCHANGED <<tracked, refusals>>
            \/ ~enabled /\ UNCHANGED <<enabled, tracked, refusals>>
<1>1. /\ before' = before
      /\ Shadow!Track(Followed(ask), rejections' # rejections)
  BY DEF ShadowSubmit, Followed
<1> DEFINE row == Followed(ask)
           refused == rejections' # rejections
<1>2. Shadow!Track(row, refused) BY <1>1
<1> HIDE DEF row
<1> QED BY <1>1, <1>2 DEF Shadow!Track, Shadow!Disable, Shadow!shadowVars, row

ShadowInv == ShadowTyped /\ Journaled

LEMMA ShadowInvInit == ShadowedInit => ShadowInv
<1> SUFFICES ASSUME ShadowedInit PROVE ShadowInv
  OBVIOUS
<1>1. /\ enabled = TRUE /\ tracked = <<>> /\ closed = <<>> /\ refusals = 0 /\ strays = <<>>
      /\ lastBar = 0 /\ journaled = 0 /\ file = <<>>
  BY DEF ShadowedInit, Shadow!ShadowInit
<1>2. <<>> \in Seq(RowType) /\ <<>> \in Seq(Nat) /\ Len(<<>>) = 0 OBVIOUS
<1>3. IsPrefix(<<>>, <<>>) BY DEF IsPrefix
<1> QED BY <1>1, <1>2, <1>3 DEF ShadowInv, ShadowTyped, Journaled

LEMMA ShadowInvSubmit ==
  ASSUME BrokerInv, ShadowInv, NEW ask \in Asks, ShadowSubmit(ask)
  PROVE  ShadowInv'
<1>1. ShadowTyped /\ Journaled BY DEF ShadowInv
<1>2. Followed(ask) \in RowType BY <1>1, FollowedIs
<1>3. /\ UNCHANGED <<closed, strays, lastBar, journaled, file>>
      /\ tracked' \in Seq(RowType) /\ refusals' \in Nat /\ enabled' \in BOOLEAN
      /\ enabled' => enabled
  <2> DEFINE row == Followed(ask)
  <2>1. row \in RowType BY <1>2
  <2>2. /\ UNCHANGED <<closed, strays, lastBar, journaled, file, before>>
        /\ \/ /\ enabled /\ enabled' = enabled /\ rejections' # rejections
               /\ refusals' = refusals + 1 /\ tracked' = tracked
           \/ /\ enabled /\ enabled' = enabled /\ rejections' = rejections
              /\ tracked' = Append(tracked, row) /\ refusals' = refusals
           \/ enabled' = FALSE /\ UNCHANGED <<tracked, refusals>>
           \/ ~enabled /\ UNCHANGED <<enabled, tracked, refusals>>
    BY TrackShape
  <2> HIDE DEF row
  <2>3. tracked \in Seq(RowType) /\ refusals \in Nat /\ enabled \in BOOLEAN BY <1>1 DEF ShadowTyped
  <2>4. Append(tracked, row) \in Seq(RowType) /\ refusals + 1 \in Nat BY <2>1, <2>3
  <2>5. tracked' \in Seq(RowType) BY <2>2, <2>3, <2>4
  <2>6. refusals' \in Nat BY <2>2, <2>3, <2>4
  <2>7. enabled' \in BOOLEAN /\ (enabled' => enabled)
    <3>1. enabled' = enabled \/ enabled' = FALSE BY <2>2, Zenon
    <3>2. FALSE \in BOOLEAN /\ enabled \in BOOLEAN BY <2>3
    <3>3. enabled' \in BOOLEAN BY <3>1, <3>2, Zenon
    <3>4. enabled' => enabled BY <3>1, Zenon
    <3> QED BY <3>3, <3>4
  <2> QED BY <2>2, <2>5, <2>6, <2>7
<1> QED BY <1>1, <1>3 DEF ShadowInv, ShadowTyped, Journaled

LEMMA ShadowInvObserve ==
  ASSUME BrokerInv, Watch, ShadowInv, phase = "positions", NEW bars, NEW verdict \in Verdicts(bars),
         Shadow!Observe(bars, LiveFills, LiveRejections, verdict)
  PROVE  ShadowInv'
<1>1. ShadowTyped /\ Journaled BY DEF ShadowInv
<1> DEFINE seen == Seen(bars, verdict)
<1>2. /\ enabled /\ lastBar' = lastBar + 1 /\ refusals' = refusals /\ Shadow!Flush(closed')
      /\ seen \in States(Len(tracked)) /\ tracked' \in Seq(RowType)
      /\ \E new \in Seq(RowType) : closed' = closed \o new
      /\ strays' = strays \o seen.strays
  <2>1. Observed(bars, verdict) BY <1>1, ObserveShape
  <2> QED BY <2>1 DEF Observed
<1> HIDE DEF seen
<1>3. PICK new \in Seq(RowType) : closed' = closed \o new BY <1>2
<1>4. /\ enabled' \in BOOLEAN /\ file' \in Seq(RowType) /\ journaled' \in Nat
      /\ IsPrefix(file', closed')
      /\ enabled' => file' = closed' /\ journaled' = Len(closed')
  BY <1>1, <1>2, <1>3, FlushShape
<1>5. closed' \in Seq(RowType) BY <1>1, <1>3 DEF ShadowTyped
<1>6. strays' \in Seq(Nat)
  <2>1. seen.strays \in Seq(Nat) /\ strays \in Seq(Nat) BY <1>1, <1>2 DEF States, ShadowTyped
  <2> QED BY <1>2, <2>1
<1>7. lastBar' \in Nat /\ refusals' \in Nat BY <1>1, <1>2 DEF ShadowTyped
<1> QED BY <1>2, <1>4, <1>5, <1>6, <1>7 DEF ShadowInv, ShadowTyped, Journaled

(* The model raises: the rows have their references and the shadow is off.   *)
LEMMA ModelFailsShape ==
  ASSUME ShadowTyped, NEW bars, Shadow!ModelFails(bars)
  PROVE  /\ enabled' = FALSE /\ UNCHANGED <<closed, refusals, strays, lastBar, journaled, file>>
         /\ tracked' \in Seq(RowType) /\ Len(tracked') = Len(tracked)
         /\ \A i \in 1..Len(tracked) :
              /\ SameButPriced(tracked[i], tracked'[i]) /\ tracked'[i].model = tracked[i].model
              /\ tracked'[i].ref = IF tracked[i].ref = None /\ tracked[i].symbol \in bars
                                     THEN lastBar + 1 ELSE tracked[i].ref
<1> DEFINE n == Len(tracked)
           t == lastBar + 1
           next == Shadow!Referenced(tracked, bars, t)
<1>1. n \in Nat /\ tracked \in [1..n -> RowType] /\ t \in Nat BY DEF ShadowTyped
<1>2. /\ enabled' = FALSE /\ UNCHANGED <<closed, refusals, strays, lastBar, journaled, file>>
      /\ tracked' = next
  BY DEF Shadow!ModelFails, Shadow!Disable
<1> HIDE DEF n, t
<1>3. /\ next \in [1..n -> RowType]
      /\ \A i \in 1..n :
           /\ SameButPriced(tracked[i], next[i]) /\ next[i].model = tracked[i].model
           /\ next[i].ref = IF tracked[i].ref = None /\ tracked[i].symbol \in bars THEN t ELSE tracked[i].ref
  BY <1>1, ReferencedIs
<1> HIDE DEF next
<1>4. tracked' \in Seq(RowType) /\ Len(tracked') = n BY <1>1, <1>2, <1>3
<1> QED BY <1>2, <1>3, <1>4 DEF n, t

LEMMA ShadowInvStep == BrokerInv /\ Watch /\ ShadowInv /\ [ShadowedNext]_allVars => ShadowInv'
<1> SUFFICES ASSUME BrokerInv, Watch, ShadowInv, [ShadowedNext]_allVars PROVE ShadowInv'
  OBVIOUS
<1>1. ASSUME NEW ask \in Asks, ShadowSubmit(ask) PROVE ShadowInv' BY <1>1, ShadowInvSubmit
<1>2. CASE UNCHANGED <<tracked, closed, refusals, strays, lastBar, journaled, file>>
           /\ enabled' \in {enabled, FALSE}
  <2>1. ShadowTyped' BY <1>2 DEF ShadowInv, ShadowTyped
  <2>2. enabled' => enabled
    <3>1. enabled' = enabled \/ enabled' = FALSE BY <1>2
    <3> QED BY <3>1, Zenon
  <2>3. Journaled' BY <1>2, <2>2 DEF ShadowInv, Journaled
  <2> QED BY <2>1, <2>3 DEF ShadowInv
<1>3. CASE ShadowStartBar BY <1>2, <1>3 DEF ShadowStartBar
<1>4. CASE ShadowEndBar
  <2>1. PICK bars \in SUBSET Symbols :
          \/ \E verdict \in Verdicts(bars) :
               Shadow!Observe(bars, LiveFills, LiveRejections, verdict)
          \/ Shadow!ModelFails(bars)
          \/ Shadow!Off
    BY <1>4 DEF ShadowEndBar
  <2>2. phase = "positions" BY <1>4 DEF ShadowEndBar, ReadPositions
  <2>3. CASE \E verdict \in Verdicts(bars) :
               Shadow!Observe(bars, LiveFills, LiveRejections, verdict)
    BY <2>2, <2>3, ShadowInvObserve
  <2>4. CASE Shadow!ModelFails(bars)
    <3>1. ShadowTyped /\ Journaled BY DEF ShadowInv
    <3>2. /\ enabled' = FALSE /\ UNCHANGED <<closed, refusals, strays, lastBar, journaled, file>>
          /\ tracked' \in Seq(RowType)
      BY <2>4, <3>1, ModelFailsShape
    <3> QED BY <3>1, <3>2 DEF ShadowInv, ShadowTyped, Journaled
  <2>5. CASE Shadow!Off BY <1>2, <2>5 DEF Shadow!Off, Shadow!shadowVars
  <2> QED BY <2>1, <2>3, <2>4, <2>5
<1>5. CASE Alone \/ UNCHANGED allVars BY <1>2, <1>5 DEF Alone, allVars, shadowVars
<1> QED BY <1>1, <1>3, <1>4, <1>5 DEF ShadowedNext

LEMMA ShadowHolds == ShadowedSpec => [](BrokerInv /\ Watch /\ ShadowInv)
<1>1. ShadowedInit => BrokerInv /\ Watch /\ ShadowInv
  BY BrokerInit, WatchInit, ShadowInvInit DEF ShadowedInit
<1>2. BrokerInv /\ Watch /\ ShadowInv /\ [ShadowedNext]_allVars => (BrokerInv /\ Watch /\ ShadowInv)'
  BY BrokerMoves, BrokerStep, WatchStep, ShadowInvStep
<1> QED BY <1>1, <1>2, PTL DEF ShadowedSpec

(* What is on disk is a prefix of what the finished session will report,     *)
(* whatever fails and whenever the session stops: a journaled row is never   *)
(* changed, reordered or written twice (_observe, _flush_journal, ADR-0048). *)
THEOREM JournalHolds == ShadowedSpec => []JournalIsAPrefix
<1>1. ShadowInv => JournalIsAPrefix BY DEF ShadowInv, Journaled, JournalIsAPrefix
<1> QED BY <1>1, ShadowHolds, PTL

-----------------------------------------------------------------------------
(* Both sides are of one bar. *)

(* Each row waiting is of an order of its own.                               *)
RowsApart ==
  /\ \A i \in 1..Len(tracked) : tracked[i].order.ask \in 1..asked
  /\ \A i, j \in 1..Len(tracked) : tracked[i].order.ask = tracked[j].order.ask => i = j

PricedRow(row, on, bar) ==
  /\ row.since <= bar
  /\ row.model # None => row.ref # None /\ row.model.ts = row.ref
  /\ row.ref # None => row.ref > row.since
  /\ on => (row.ref = None <=> row.model = None)

RowsPriced == \A row \in Range(closed) \cup Range(tracked) : PricedRow(row, enabled, lastBar)

Waiting == RowsApart /\ RowsPriced

LEMMA TrackedShape ==
  ASSUME ShadowTyped
  PROVE  /\ Len(tracked) \in Nat /\ DOMAIN tracked = 1..Len(tracked)
         /\ \A i \in 1..Len(tracked) : tracked[i] \in RowType /\ tracked[i] \in Range(tracked)
         /\ \A row \in Range(tracked) : row \in RowType /\ \E i \in 1..Len(tracked) : row = tracked[i]
         /\ \A row \in Range(closed) : row \in RowType
<1>1. tracked \in Seq(RowType) /\ closed \in Seq(RowType) BY DEF ShadowTyped
<1>2. /\ Len(tracked) \in Nat /\ DOMAIN tracked = 1..Len(tracked)
      /\ \A i \in 1..Len(tracked) : tracked[i] \in RowType
  BY <1>1
<1>3. \A i \in DOMAIN closed : closed[i] \in RowType BY <1>1
<1> QED BY <1>2, <1>3 DEF Range

LEMMA PricedLater ==
  ASSUME NEW row \in RowType, NEW on, NEW bar \in Nat, NEW later \in Nat, bar <= later,
         PricedRow(row, on, bar)
  PROVE  PricedRow(row, on, later) /\ PricedRow(row, FALSE, later)
<1>1. row.since \in Nat BY DEF RowType
<1>2. row.since <= bar BY DEF PricedRow
<1>3. row.since <= later BY <1>1, <1>2
<1> QED BY <1>3 DEF PricedRow

(* A bar prices each row that was still unpriced, on both sides, or on none. *)
LEMMA PreparedIsPriced ==
  ASSUME ShadowTyped, Waiting, enabled, NEW bars, NEW verdict \in Verdicts(bars),
         NEW i \in 1..Len(tracked)
  PROVE  PricedRow(Prepared(bars, verdict)[i], TRUE, lastBar + 1)
<1> DEFINE row == tracked[i]
           new == Prepared(bars, verdict)[i]
           t == lastBar + 1
<1>1. lastBar \in Nat /\ t \in Nat /\ t > lastBar BY DEF ShadowTyped
<1>2. row \in RowType /\ PricedRow(row, TRUE, lastBar)
  <2>1. row \in RowType /\ row \in Range(tracked) BY TrackedShape
  <2>2. PricedRow(row, enabled, lastBar) BY <2>1 DEF Waiting, RowsPriced
  <2> QED BY <2>1, <2>2 DEF PricedRow
<1>3. Priced(row, new, bars, verdict, t) BY VerdictIs, PreparedIs
<1>4. row.order \in DOMAIN verdict <=> row.model = None /\ row.symbol \in bars
  <2>1. ASSUME row.order \in DOMAIN verdict PROVE row.model = None /\ row.symbol \in bars
    <3>1. PICK j \in 1..Len(tracked) : /\ tracked[j].order = row.order /\ tracked[j].model = None
                                       /\ tracked[j].symbol \in bars
      BY <2>1, VerdictIs
    <3>2. j = i BY <3>1 DEF Waiting, RowsApart
    <3> QED BY <3>1, <3>2
  <2>2. ASSUME row.model = None, row.symbol \in bars PROVE row.order \in DOMAIN verdict
    BY <2>2, VerdictIs
  <2> QED BY <2>1, <2>2
<1>5. t # None /\ \A answer \in Shadow!Answers : answer # None
  BY <1>1, BrokerAssumption, NoAnswer
<1>6. /\ row.ref = None <=> row.model = None
      /\ row.model # None => row.ref # None /\ row.model.ts = row.ref
      /\ row.ref # None => row.ref > row.since
      /\ row.since <= lastBar /\ row.since \in Nat
  BY <1>2 DEF PricedRow, RowType
<1> HIDE DEF row, new, t
<1>7. new.since = row.since BY <1>3 DEF Priced, SameButPriced
<1>8. row.since <= t /\ t > row.since BY <1>1, <1>6 DEF t
<1>9. CASE row.ref = None /\ row.symbol \in bars
  <2>1. new.ref = t BY <1>3, <1>9 DEF Priced
  <2>2. new.model \in Shadow!Answers /\ new.model.ts = t
    BY <1>3, <1>4, <1>6, <1>9 DEF Priced
  <2>3. PricedRow(new, TRUE, t) BY <1>5, <1>7, <1>8, <2>1, <2>2 DEF PricedRow
  <2> QED BY <2>3 DEF new, t
<1>10. CASE ~(row.ref = None /\ row.symbol \in bars)
  <2>1. new.ref = row.ref BY <1>3, <1>10 DEF Priced
  <2>2. new.model = row.model BY <1>3, <1>4, <1>6, <1>10 DEF Priced
  <2>3. PricedRow(new, TRUE, t) BY <1>6, <1>7, <1>8, <2>1, <2>2 DEF PricedRow
  <2> QED BY <2>3 DEF new, t
<1> QED BY <1>9, <1>10

LEMMA WaitingObserve ==
  ASSUME BrokerInv, Watch, ShadowInv, Waiting, phase = "positions", asked' = asked,
         NEW bars, NEW verdict \in Verdicts(bars),
         Shadow!Observe(bars, LiveFills, LiveRejections, verdict)
  PROVE  Waiting'
<1>1. ShadowTyped BY DEF ShadowInv
<1> DEFINE n == Len(tracked)
           seen == Seen(bars, verdict)
           I == Left(bars, verdict)
           J == Done(bars, verdict)
           rows == Prepared(bars, verdict)
<1>2. /\ enabled /\ lastBar' = lastBar + 1 /\ seen \in States(n) /\ KeepsRows(n, rows, seen)
      /\ tracked' \in Seq(RowType) /\ \E h : Drawn(tracked', seen.rows, I, h)
      /\ \E new \in Seq(RowType) : /\ closed' = closed \o new
                                   /\ Range(new) = {seen.rows[i] : i \in J}
                                   /\ Len(new) + Len(tracked') = n
      /\ Range(tracked') = {seen.rows[i] : i \in I}
  <2>1. Observed(bars, verdict) BY <1>1, ObserveShape
  <2> QED BY <2>1 DEF Observed
<1>3. I \in SUBSET (1..n) /\ J \in SUBSET (1..n) BY DEF Left, Done
<1>4. ASSUME NEW i \in 1..n
      PROVE  /\ seen.rows[i].order = tracked[i].order
             /\ PricedRow(seen.rows[i], TRUE, lastBar + 1)
  <2>1. SameButLive(rows[i], seen.rows[i]) BY <1>2 DEF KeepsRows
  <2>2. PricedRow(rows[i], TRUE, lastBar + 1) BY <1>1, <1>2, PreparedIsPriced
  <2>3. SameButPriced(tracked[i], rows[i])
    BY <1>1, VerdictIs, PreparedIs DEF Priced
  <2> HIDE DEF rows, seen
  <2> QED BY <2>1, <2>2, <2>3 DEF SameButLive, SameButPriced, PricedRow
<1> HIDE DEF n, seen, I, J, rows
<1>5. RowsApart'
  <2>1. PICK h : Drawn(tracked', seen.rows, I, h) BY <1>2
  <2>2. ASSUME NEW j \in 1..Len(tracked')
        PROVE  h[j] \in 1..n /\ tracked'[j].order = tracked[h[j]].order
    <3>1. h[j] \in I /\ tracked'[j] = seen.rows[h[j]] BY <2>1 DEF Drawn
    <3> QED BY <1>3, <1>4, <3>1
  <2>3. \A j, k \in 1..Len(tracked') : h[j] = h[k] => j = k BY <2>1 DEF Drawn
  <2>4. /\ \A i \in 1..n : tracked[i].order.ask \in 1..asked
        /\ \A i, j \in 1..n : tracked[i].order.ask = tracked[j].order.ask => i = j
    BY DEF Waiting, RowsApart, n
  <2>5. ASSUME NEW j \in 1..Len(tracked') PROVE tracked'[j].order.ask \in 1..asked'
    BY <2>2, <2>4
  <2>6. ASSUME NEW j \in 1..Len(tracked'), NEW k \in 1..Len(tracked'),
               tracked'[j].order.ask = tracked'[k].order.ask
        PROVE  j = k
    <3>1. /\ h[j] \in 1..n /\ tracked'[j].order = tracked[h[j]].order
          /\ h[k] \in 1..n /\ tracked'[k].order = tracked[h[k]].order
      BY <2>2
    <3>2. tracked[h[j]].order.ask = tracked[h[k]].order.ask BY <2>6, <3>1
    <3>3. h[j] = h[k] BY <2>4, <3>1, <3>2
    <3> QED BY <2>3, <3>3
  <2> QED BY <2>5, <2>6 DEF RowsApart
<1>6. RowsPriced'
  <2>1. PICK new \in Seq(RowType) : closed' = closed \o new /\ Range(new) = {seen.rows[i] : i \in J}
    BY <1>2
  <2>2. Range(closed') = Range(closed) \cup {seen.rows[i] : i \in J}
    <3>1. closed \in Seq(RowType) BY <1>1 DEF ShadowTyped
    <3> QED BY <2>1, <3>1, ConcatRange
  <2>3. ASSUME NEW row \in Range(closed) PROVE PricedRow(row, TRUE, lastBar')
    <3>1. PricedRow(row, enabled, lastBar) /\ row \in RowType
      BY <1>1, TrackedShape DEF Waiting, RowsPriced
    <3>2. PricedRow(row, TRUE, lastBar) BY <1>2, <3>1 DEF PricedRow
    <3>3. lastBar \in Nat /\ lastBar' \in Nat /\ lastBar <= lastBar' BY <1>1, <1>2 DEF ShadowTyped
    <3> QED BY <3>1, <3>2, <3>3, PricedLater
  <2>4. ASSUME NEW row \in Range(closed') \cup Range(tracked') PROVE PricedRow(row, TRUE, lastBar')
    <3>1. CASE row \in Range(closed) BY <2>3, <3>1
    <3>2. CASE \E i \in 1..n : row = seen.rows[i] BY <1>2, <1>4, <3>2
    <3> QED BY <1>2, <1>3, <2>2, <2>4, <3>1, <3>2
  <2>5. ASSUME NEW row \in Range(closed') \cup Range(tracked')
        PROVE  PricedRow(row, enabled', lastBar')
    <3>1. PricedRow(row, TRUE, lastBar') BY <2>4, <2>5
    <3> QED BY <3>1 DEF PricedRow
  <2> QED BY <2>5 DEF RowsPriced
<1> QED BY <1>5, <1>6 DEF Waiting

LEMMA WaitingKept ==
  ASSUME BrokerInv, Waiting, UNCHANGED <<tracked, closed, lastBar>>, enabled' => enabled,
         asked' = asked \/ asked' = asked + 1
  PROVE  Waiting'
<1>1. asked \in Nat BY BrokerAssumption DEF BrokerInv, Typed
<1>2. \A k \in 1..asked : k \in 1..asked' BY <1>1
<1>3. RowsApart' BY <1>2 DEF Waiting, RowsApart
<1>4. RowsPriced'
  <2>1. ASSUME NEW row \in Range(closed) \cup Range(tracked) PROVE PricedRow(row, enabled', lastBar')
    <3>1. PricedRow(row, enabled, lastBar) BY DEF Waiting, RowsPriced
    <3>2. CASE enabled' BY <3>1, <3>2 DEF PricedRow
    <3>3. CASE ~enabled' BY <3>1, <3>3 DEF PricedRow
    <3> QED BY <3>2, <3>3
  <2> QED BY <2>1 DEF RowsPriced
<1> QED BY <1>3, <1>4 DEF Waiting

LEMMA WaitingSubmit ==
  ASSUME BrokerInv, Watch, ShadowInv, Waiting, NEW ask \in Asks, ShadowSubmit(ask)
  PROVE  Waiting'
<1>1. ShadowTyped BY DEF ShadowInv
<1>2. asked' = asked + 1 BY SubmitSeen
<1>3. UNCHANGED <<closed, lastBar>> BY TrackShape
<1>4. CASE tracked' = tracked /\ (enabled' = enabled \/ enabled' = FALSE)
  <2>1. enabled' => enabled BY <1>4, Zenon
  <2> QED BY <1>2, <1>3, <1>4, <2>1, WaitingKept
<1>5. CASE tracked' = Append(tracked, Followed(ask)) /\ enabled' = enabled
  <2> DEFINE row == Followed(ask)
             n == Len(tracked)
  <2>1. row \in RowType /\ row.order.ask = asked + 1 BY <1>1, FollowedIs
  <2>2. PricedRow(row, enabled, lastBar)
    <3>1. row.since = lastBar /\ row.ref = None /\ row.model = None BY <1>1, FollowedIs
    <3>2. lastBar \in Nat BY <1>1 DEF ShadowTyped
    <3> HIDE DEF row
    <3> QED BY <3>1, <3>2 DEF PricedRow
  <2> HIDE DEF row
  <2>3. asked \in Nat BY BrokerAssumption DEF BrokerInv, Typed
  <2>4. /\ tracked \in Seq(RowType) /\ n \in Nat /\ tracked' = Append(tracked, row)
    BY <1>1, <1>5 DEF ShadowTyped, row
  <2>5. /\ Len(tracked') = n + 1 /\ tracked'[n + 1] = row /\ \A i \in 1..n : tracked'[i] = tracked[i]
        /\ Range(tracked') = Range(tracked) \cup {row}
    BY <2>1, <2>4, AppendRange
  <2>6. \A i \in 1..(n + 1) : i \in 1..n \/ i = n + 1 BY <2>4
  <2>7. /\ \A i \in 1..n : tracked[i].order.ask \in 1..asked
        /\ \A i, j \in 1..n : tracked[i].order.ask = tracked[j].order.ask => i = j
    BY DEF Waiting, RowsApart
  <2> HIDE DEF n
  <2>8. /\ \A k \in 1..asked : k \in 1..asked' /\ k # asked + 1
        /\ asked + 1 \in 1..asked'
    BY <1>2, <2>3
  <2>9. \A i \in 1..n : tracked'[i].order.ask \in 1..asked /\ tracked'[i].order.ask # asked + 1
    BY <2>5, <2>7, <2>8
  <2>10. tracked'[n + 1].order.ask = asked + 1 BY <2>1, <2>5
  <2>11. RowsApart'
    <3>1. ASSUME NEW i \in 1..(n + 1) PROVE tracked'[i].order.ask \in 1..asked'
      BY <2>6, <2>8, <2>9, <2>10
    <3>2. ASSUME NEW i \in 1..(n + 1), NEW j \in 1..(n + 1),
                 tracked'[i].order.ask = tracked'[j].order.ask
          PROVE  i = j
      <4>1. CASE i = n + 1 BY <2>6, <2>9, <2>10, <3>2, <4>1
      <4>2. CASE j = n + 1 BY <2>6, <2>9, <2>10, <3>2, <4>2
      <4>3. CASE i \in 1..n /\ j \in 1..n BY <2>5, <2>7, <3>2, <4>3
      <4> QED BY <2>6, <4>1, <4>2, <4>3
    <3> QED BY <2>5, <3>1, <3>2 DEF RowsApart
  <2>12. RowsPriced' BY <1>3, <1>5, <2>2, <2>5 DEF Waiting, RowsPriced
  <2> QED BY <2>11, <2>12 DEF Waiting
<1> QED BY <1>4, <1>5, TrackShape

LEMMA WaitingModelFails ==
  ASSUME BrokerInv, ShadowInv, Waiting, asked' = asked, NEW bars, Shadow!ModelFails(bars)
  PROVE  Waiting'
<1>1. ShadowTyped BY DEF ShadowInv
<1> DEFINE n == Len(tracked)
<1>2. /\ enabled' = FALSE /\ UNCHANGED <<closed, lastBar>>
      /\ tracked' \in Seq(RowType) /\ Len(tracked') = n
      /\ \A i \in 1..n :
           /\ SameButPriced(tracked[i], tracked'[i]) /\ tracked'[i].model = tracked[i].model
           /\ tracked'[i].ref = IF tracked[i].ref = None /\ tracked[i].symbol \in bars
                                  THEN lastBar + 1 ELSE tracked[i].ref
  BY <1>1, ModelFailsShape
<1>3. RowsApart'
  <2>1. \A i \in 1..n : tracked'[i].order = tracked[i].order BY <1>2 DEF SameButPriced
  <2> QED BY <1>2, <2>1 DEF Waiting, RowsApart
<1>4. ASSUME NEW i \in 1..n PROVE PricedRow(tracked'[i], FALSE, lastBar)
  <2> DEFINE row == tracked[i]
             new == tracked'[i]
  <2>1. row \in RowType /\ row \in Range(tracked) BY <1>1, TrackedShape
  <2>2. PricedRow(row, enabled, lastBar) BY <2>1 DEF Waiting, RowsPriced
  <2>3. lastBar \in Nat /\ row.since \in Nat BY <1>1, <2>1 DEF ShadowTyped, RowType
  <2>4. new.since = row.since /\ new.model = row.model BY <1>2 DEF SameButPriced
  <2>5. new.ref = IF row.ref = None /\ row.symbol \in bars THEN lastBar + 1 ELSE row.ref
    BY <1>2
  <2> HIDE DEF row, new
  <2>6. row.model # None => row.ref # None BY <2>2 DEF PricedRow
  <2>7. PricedRow(new, FALSE, lastBar)
    <3>1. lastBar + 1 > row.since /\ row.since <= lastBar BY <2>2, <2>3 DEF PricedRow
    <3>2. CASE row.ref = None /\ row.symbol \in bars
      BY <2>4, <2>5, <2>6, <3>1, <3>2 DEF PricedRow
    <3>3. CASE ~(row.ref = None /\ row.symbol \in bars)
      BY <2>2, <2>4, <2>5, <3>3 DEF PricedRow
    <3> QED BY <3>2, <3>3
  <2> QED BY <2>7 DEF new
<1>5. RowsPriced'
  <2>1. ASSUME NEW row \in Range(tracked') PROVE PricedRow(row, FALSE, lastBar)
    <3>1. DOMAIN tracked' = 1..n BY <1>2
    <3> QED BY <1>4, <3>1 DEF Range
  <2>2. ASSUME NEW row \in Range(closed) PROVE PricedRow(row, FALSE, lastBar)
    BY DEF Waiting, RowsPriced, PricedRow
  <2> QED BY <1>2, <2>1, <2>2 DEF RowsPriced
<1> QED BY <1>3, <1>5 DEF Waiting

LEMMA WaitingStep ==
  BrokerInv /\ Watch /\ ShadowInv /\ Waiting /\ [ShadowedNext]_allVars => Waiting'
<1> SUFFICES ASSUME BrokerInv, Watch, ShadowInv, Waiting, [ShadowedNext]_allVars PROVE Waiting'
  OBVIOUS
<1>1. ASSUME NEW ask \in Asks, ShadowSubmit(ask) PROVE Waiting' BY <1>1, WaitingSubmit
<1>2. CASE UNCHANGED <<tracked, closed, lastBar>> /\ enabled' \in {enabled, FALSE}
           /\ (asked' = asked \/ asked' = asked + 1)
  <2>1. enabled' = enabled \/ enabled' = FALSE BY <1>2
  <2>2. enabled' => enabled BY <2>1, Zenon
  <2> QED BY <1>2, <2>2, WaitingKept
<1>3. CASE ShadowStartBar BY <1>2, <1>3 DEF ShadowStartBar, StartBar
<1>4. CASE ShadowEndBar
  <2>1. PICK bars \in SUBSET Symbols :
          \/ \E verdict \in Verdicts(bars) :
               Shadow!Observe(bars, LiveFills, LiveRejections, verdict)
          \/ Shadow!ModelFails(bars)
          \/ Shadow!Off
    BY <1>4 DEF ShadowEndBar
  <2>2. phase = "positions" /\ asked' = asked BY <1>4 DEF ShadowEndBar, ReadPositions
  <2>3. CASE \E verdict \in Verdicts(bars) :
               Shadow!Observe(bars, LiveFills, LiveRejections, verdict)
    BY <2>2, <2>3, WaitingObserve
  <2>4. CASE Shadow!ModelFails(bars) BY <2>2, <2>4, WaitingModelFails
  <2>5. CASE Shadow!Off BY <1>2, <2>2, <2>5 DEF Shadow!Off, Shadow!shadowVars
  <2> QED BY <2>1, <2>3, <2>4, <2>5
<1>5. CASE UNCHANGED allVars
  BY <1>2, <1>5 DEF allVars, vars, shadowVars
<1>6. CASE Alone
  <2>1. UNCHANGED shadowVars BY <1>6 DEF Alone
  <2>2. asked' = asked \/ asked' = asked + 1
    BY <1>6, VenueShape DEF Alone, Retry, Settle, ReadCash, BarFails, SubmitFails, Asking
  <2> QED BY <1>2, <2>1, <2>2 DEF shadowVars
<1> QED BY <1>1, <1>3, <1>4, <1>5, <1>6 DEF ShadowedNext

LEMMA WaitingInit == ShadowedInit => Waiting
<1> SUFFICES ASSUME ShadowedInit PROVE Waiting
  OBVIOUS
<1>1. tracked = <<>> /\ closed = <<>> BY DEF ShadowedInit, Shadow!ShadowInit
<1> QED BY <1>1, EmptyList DEF Waiting, RowsApart, RowsPriced

LEMMA WaitingHolds == ShadowedSpec => []Waiting
BY WaitingInit, WaitingStep, ShadowHolds, PTL DEF ShadowedSpec

LEMMA RowsAre ==
  ASSUME ShadowTyped
  PROVE  /\ Range(Shadow!Rows) = Range(closed) \cup Range(tracked)
         /\ Len(Shadow!Rows) = Len(closed) + Len(tracked)
<1>1. closed \in Seq(RowType) /\ tracked \in Seq(RowType) BY DEF ShadowTyped
<1> QED BY <1>1, ConcatRange DEF Shadow!Rows

(* Both sides are measured against one bar: the model answers an order on    *)
(* the bar its reference open is from, the first its symbol has after the    *)
(* submit (_observe; the module docstring's counterfactual).                 *)
THEOREM ModelPricesAsReferred == ShadowedSpec => []ModelPricesTheReference
<1>1. ShadowInv /\ Waiting => ModelPricesTheReference
  BY RowsAre DEF ShadowInv, Waiting, RowsPriced, PricedRow, ModelPricesTheReference
<1> QED BY <1>1, ShadowHolds, WaitingHolds, PTL

-----------------------------------------------------------------------------
(* Every order has its row. *)

RowAsks == {row.order.ask : row \in Range(closed) \cup Range(tracked)}
ObjectAsks == {objects[id].ask : id \in DOMAIN objects}

(* Every ask is accounted for: by the row of its order, or by the count of   *)
(* the refused.                                                              *)
Accounted ==
  enabled /\ phase # "over" =>
    /\ RowAsks = ObjectAsks
    /\ Len(closed) + Len(tracked) = Len(ours)
    /\ refusals + Len(ours) = asked

LEMMA AccountedSubmit ==
  ASSUME BrokerInv, Watch, ShadowInv, Accounted, NEW ask \in Asks, ShadowSubmit(ask)
  PROVE  Accounted'
<1>1. ShadowTyped BY DEF ShadowInv
<1> DEFINE refused == rejections' # rejections
           id == Len(orders) + 1
           row == Followed(ask)
           n == Len(tracked)
<1>2. /\ Watch' /\ phase = "submit" /\ phase' = "submit" /\ asked' = asked + 1
      /\ \/ refused /\ UNCHANGED <<ours, objects>>
         \/ /\ ~refused /\ Range(ours') = Range(ours) \cup {id} /\ Len(ours') = Len(ours) + 1
            /\ objects'[id] = Object(ask) /\ \A i \in Range(ours) : objects'[i] = objects[i]
  BY SubmitSeen
<1>3. /\ closed' = closed
      /\ \/ enabled /\ refused /\ refusals' = refusals + 1 /\ tracked' = tracked
         \/ enabled /\ ~refused /\ tracked' = Append(tracked, row) /\ refusals' = refusals
         \/ enabled' = FALSE
         \/ ~enabled /\ enabled' = enabled
  BY TrackShape
<1>4. row \in RowType /\ row.order.ask = asked + 1 BY <1>1, FollowedIs
<1>5. /\ asked \in Nat /\ refusals \in Nat /\ Len(ours) \in Nat /\ n \in Nat /\ Len(closed) \in Nat
      /\ tracked \in Seq(RowType)
  <2>1. asked \in Nat BY BrokerAssumption DEF BrokerInv, Typed
  <2>2. ours \in Seq(Nat) BY DEF BrokerInv, Typed
  <2> QED BY <1>1, <2>1, <2>2 DEF ShadowTyped
<1>6. DOMAIN objects = Range(ours) /\ DOMAIN objects' = Range(ours')
  BY <1>2 DEF Watch, ObjectsKnown
<1>7. Object(ask).ask = asked + 1 BY DEF Object
<1> HIDE DEF row, id, refused
<1>8. CASE enabled /\ refused /\ refusals' = refusals + 1 /\ tracked' = tracked
  <2>1. RowAsks' = RowAsks /\ ObjectAsks' = ObjectAsks BY <1>2, <1>3, <1>8 DEF RowAsks, ObjectAsks
  <2> QED BY <1>2, <1>3, <1>5, <1>8, <2>1 DEF Accounted
<1>9. CASE enabled /\ ~refused /\ tracked' = Append(tracked, row) /\ refusals' = refusals
  <2>1. Range(tracked') = Range(tracked) \cup {row} /\ Len(tracked') = n + 1
    BY <1>4, <1>5, <1>9, AppendRange
  <2>2. RowAsks' = RowAsks \cup {asked + 1} BY <1>3, <1>4, <2>1 DEF RowAsks
  <2>3. ObjectAsks' = ObjectAsks \cup {asked + 1} BY <1>2, <1>6, <1>7, <1>9 DEF ObjectAsks
  <2> QED BY <1>2, <1>3, <1>5, <1>9, <2>1, <2>2, <2>3 DEF Accounted
<1> QED BY <1>3, <1>8, <1>9 DEF Accounted

LEMMA AccountedObserve ==
  ASSUME BrokerInv, Watch, ShadowInv, Accounted, phase = "positions", UNCHANGED <<ours, objects, asked>>,
         NEW bars, NEW verdict \in Verdicts(bars),
         Shadow!Observe(bars, LiveFills, LiveRejections, verdict)
  PROVE  Accounted'
<1>1. ShadowTyped BY DEF ShadowInv
<1> DEFINE n == Len(tracked)
           seen == Seen(bars, verdict)
           I == Left(bars, verdict)
           J == Done(bars, verdict)
           rows == Prepared(bars, verdict)
<1>2. /\ enabled /\ refusals' = refusals /\ KeepsRows(n, rows, seen)
      /\ tracked' \in Seq(RowType)
      /\ \E new \in Seq(RowType) : /\ closed' = closed \o new
                                   /\ Range(new) = {seen.rows[i] : i \in J}
                                   /\ Len(new) + Len(tracked') = n
      /\ Range(tracked') = {seen.rows[i] : i \in I}
  <2>1. Observed(bars, verdict) BY <1>1, ObserveShape
  <2> QED BY <2>1 DEF Observed
<1>3. I \cup J = 1..n BY DEF Left, Done
<1>4. ASSUME NEW i \in 1..n PROVE seen.rows[i].order = tracked[i].order
  <2>1. SameButLive(rows[i], seen.rows[i]) BY <1>2 DEF KeepsRows
  <2>2. SameButPriced(tracked[i], rows[i]) BY <1>1, VerdictIs, PreparedIs DEF Priced
  <2> QED BY <2>1, <2>2 DEF SameButLive, SameButPriced
<1> HIDE DEF n, seen, I, J, rows
<1>5. PICK new \in Seq(RowType) : /\ closed' = closed \o new
                                  /\ Range(new) = {seen.rows[i] : i \in J}
                                  /\ Len(new) + Len(tracked') = n
  BY <1>2
<1>6. closed \in Seq(RowType) /\ Len(closed) \in Nat /\ Len(new) \in Nat /\ Len(tracked') \in Nat
  BY <1>1, <1>2 DEF ShadowTyped
<1>7. Range(closed') = Range(closed) \cup Range(new) /\ Len(closed') = Len(closed) + Len(new)
  BY <1>5, <1>6, ConcatRange
<1>8. Range(closed') \cup Range(tracked') = Range(closed) \cup {seen.rows[i] : i \in 1..n}
  BY <1>2, <1>3, <1>5, <1>7
<1>9. Range(tracked) = {tracked[i] : i \in 1..n} BY <1>1, TrackedShape DEF n
<1>10. RowAsks' = RowAsks
  <2>1. RowAsks' = {row.order.ask : row \in Range(closed) \cup {seen.rows[i] : i \in 1..n}}
    BY <1>8 DEF RowAsks
  <2>2. RowAsks = {row.order.ask : row \in Range(closed) \cup {tracked[i] : i \in 1..n}}
    BY <1>9 DEF RowAsks
  <2> QED BY <1>4, <2>1, <2>2
<1>11. ObjectAsks' = ObjectAsks BY DEF ObjectAsks
<1>12. phase # "over" OBVIOUS
<1>13. Len(closed') + Len(tracked') = Len(closed) + n BY <1>5, <1>6, <1>7
<1> QED BY <1>2, <1>10, <1>11, <1>12, <1>13 DEF Accounted, n

LEMMA AccountedStep ==
  BrokerInv /\ Watch /\ ShadowInv /\ Accounted /\ [ShadowedNext]_allVars => Accounted'
<1> SUFFICES ASSUME BrokerInv, Watch, ShadowInv, Accounted, [ShadowedNext]_allVars PROVE Accounted'
  OBVIOUS
<1>1. ASSUME NEW ask \in Asks, ShadowSubmit(ask) PROVE Accounted' BY <1>1, AccountedSubmit
<1>2. CASE /\ UNCHANGED <<tracked, closed, refusals, ours, objects, asked>>
           /\ enabled' = enabled \/ enabled' = FALSE
           /\ phase' # "over" => phase # "over"
  <2>1. RowAsks' = RowAsks /\ ObjectAsks' = ObjectAsks BY <1>2 DEF RowAsks, ObjectAsks
  <2>2. enabled' => enabled BY <1>2, Zenon
  <2> QED BY <1>2, <2>1, <2>2 DEF Accounted
<1>3. CASE ShadowStartBar
  <2>1. /\ UNCHANGED <<tracked, closed, refusals, ours, objects, asked>> /\ phase # "over"
        /\ enabled' \in {enabled, FALSE}
    BY <1>3 DEF ShadowStartBar, StartBar
  <2> QED BY <1>2, <2>1
<1>4. CASE ShadowEndBar
  <2>1. PICK bars \in SUBSET Symbols :
          \/ \E verdict \in Verdicts(bars) :
               Shadow!Observe(bars, LiveFills, LiveRejections, verdict)
          \/ Shadow!ModelFails(bars)
          \/ Shadow!Off
    BY <1>4 DEF ShadowEndBar
  <2>2. phase = "positions" /\ UNCHANGED <<ours, objects, asked>>
    BY <1>4 DEF ShadowEndBar, ReadPositions
  <2>3. CASE \E verdict \in Verdicts(bars) :
               Shadow!Observe(bars, LiveFills, LiveRejections, verdict)
    BY <2>2, <2>3, AccountedObserve
  <2>4. CASE Shadow!ModelFails(bars)
    BY <2>4 DEF Shadow!ModelFails, Shadow!Disable, Accounted
  <2>5. CASE Shadow!Off
    BY <2>2, <2>5 DEF Shadow!Off, Shadow!shadowVars, Accounted
  <2> QED BY <2>1, <2>3, <2>4, <2>5
<1>5. CASE UNCHANGED allVars
  <2>1. UNCHANGED <<tracked, closed, refusals, ours, objects, asked, enabled, phase>>
    BY <1>5 DEF allVars, vars, shadowVars
  <2> QED BY <1>2, <2>1
<1>6. CASE Alone
  <2>1. UNCHANGED <<tracked, closed, refusals, objects, enabled>>
    BY <1>6 DEF Alone, shadowVars
  <2>2. ASSUME NEW id \in DOMAIN orders, Venue(id) PROVE Accounted'
    <3>1. UNCHANGED <<ours, asked, phase>> BY <2>2, VenueShape
    <3> QED BY <1>2, <2>1, <3>1
  <2>3. CASE Retry \/ Settle \/ ReadCash
    <3>1. UNCHANGED <<ours, asked>> /\ phase # "over" BY <2>3 DEF Retry, Settle, ReadCash
    <3> QED BY <1>2, <2>1, <3>1
  <2>4. CASE BarFails \/ \E ask \in Asks : SubmitFails(ask)
    BY <2>4 DEF BarFails, SubmitFails, Accounted
  <2> QED BY <1>6, <2>2, <2>3, <2>4 DEF Alone
<1> QED BY <1>1, <1>3, <1>4, <1>5, <1>6 DEF ShadowedNext

LEMMA AccountedInit == ShadowedInit => Accounted
<1> SUFFICES ASSUME ShadowedInit PROVE Accounted
  OBVIOUS
<1>1. /\ tracked = <<>> /\ closed = <<>> /\ objects = <<>> /\ ours = <<>> /\ refusals = 0 /\ asked = 0
  BY DEF ShadowedInit, Shadow!ShadowInit, Init
<1>2. RowAsks = {} /\ ObjectAsks = {} BY <1>1, EmptyList DEF RowAsks, ObjectAsks
<1>3. Len(<<>>) = 0 OBVIOUS
<1> QED BY <1>1, <1>2, <1>3 DEF Accounted

LEMMA AccountedHolds == ShadowedSpec => []Accounted
BY AccountedInit, AccountedStep, ShadowHolds, PTL DEF ShadowedSpec

(* Each order the venue accepted has exactly one row and an order refused at *)
(* submit has none but is counted: nothing is reported pending that no venue *)
(* ever received, and nothing is forgotten (ShadowBroker.submit, ADR-0050).  *)
THEOREM EveryOrderHasItsRow == ShadowedSpec => []OneRowPerOrder
<1>1. ShadowInv /\ BrokerInv /\ Accounted => OneRowPerOrder
  <2> SUFFICES ASSUME ShadowInv, BrokerInv, Accounted, phase = "submit", enabled
               PROVE  /\ RowAsks = ObjectAsks
                      /\ Len(closed) + Len(tracked) = Len(ours)
                      /\ refusals = asked - Len(ours)
    BY RowsAre DEF OneRowPerOrder, Settled, RowAsks, ObjectAsks, ShadowInv
  <2>1. asked \in Nat BY BrokerAssumption DEF BrokerInv, Typed
  <2>2. ours \in Seq(Nat) BY DEF BrokerInv, Typed
  <2>3. Len(ours) \in Nat /\ refusals \in Nat BY <2>2 DEF ShadowInv, ShadowTyped
  <2> QED BY <2>1, <2>3 DEF Accounted
<1> QED BY <1>1, AccountedHolds, ShadowHolds, PTL

-----------------------------------------------------------------------------
(* Every row is told the truth. *)

(* The live broker has replaced no order on its way: nothing was trimmed.    *)
Untrimmed == \A id \in DOMAIN objects : objects[id].copy = FALSE

(* The row says what became of the order, which is over.                     *)
Tells(row, order) ==
  /\ row.live # None /\ order.status # "working"
  /\ row.live.qty = order.filled
  /\ row.live.outcome = IF order.status = "filled" THEN "filled"
                        ELSE IF order.filled > 0 THEN "partial" ELSE "rejected"

(* A row is of an order the venue accepted, and tells what became of it once *)
(* on_bar has returned the answer.                                           *)
RowFollows(row) ==
  /\ \E id \in Range(ours) : /\ row.order = objects[id]
                             /\ row.symbol = orders[id].symbol /\ row.side = orders[id].side
  /\ \A id \in Range(ours) : row.order = objects[id] =>
       IF id \in Due THEN row.live = None ELSE Tells(row, orders[id])

Follows ==
  enabled /\ phase # "over" =>
    /\ \A row \in Range(closed) : row.live # None
    /\ \A row \in Range(closed) \cup Range(tracked) : RowFollows(row)

RowExact(row) == row.live # None => row.live.of = row.order.ask

Exact == strays = <<>> /\ \A row \in Range(closed) \cup Range(tracked) : RowExact(row)

Truthful == Untrimmed => Exact /\ Follows

(* Whatever on_bar may bring an answer for has a row that waits for one.     *)
LEMMA DueHasARow ==
  ASSUME BrokerInv, Watch, ShadowTyped, Accounted, Follows, enabled, phase # "over", NEW id \in Due
  PROVE  \E i \in 1..Len(tracked) :
           /\ tracked[i].order = objects[id] /\ tracked[i].live = None
           /\ tracked[i].symbol = orders[id].symbol /\ tracked[i].side = orders[id].side
<1>1. id \in Range(ours) /\ DOMAIN objects = Range(ours)
  BY DueIsOurs DEF Watch, ObjectsKnown
<1>2. objects[id].ask \in RowAsks BY <1>1 DEF Accounted, ObjectAsks
<1>3. PICK row \in Range(closed) \cup Range(tracked) : row.order.ask = objects[id].ask
  BY <1>2 DEF RowAsks
<1>4. RowFollows(row) BY DEF Follows
<1>5. PICK j \in Range(ours) : /\ row.order = objects[j] /\ row.symbol = orders[j].symbol
                               /\ row.side = orders[j].side
  BY <1>4 DEF RowFollows
<1>6. j = id BY <1>1, <1>3, <1>5 DEF Watch, ObjectsKnown
<1>7. row.live = None BY <1>1, <1>4, <1>5, <1>6 DEF RowFollows
<1>8. row \in Range(tracked) BY <1>7 DEF Follows
<1>9. PICK i \in 1..Len(tracked) : row = tracked[i] BY <1>8, TrackedShape
<1> QED BY <1>5, <1>6, <1>7, <1>9

(* A step that leaves the rows alone and does not touch an order it is done  *)
(* with.                                                                     *)
LEMMA TruthfulKept ==
  ASSUME Truthful, UNCHANGED <<tracked, closed, strays, ours, objects>>, Due' = Due,
         BrokerInv, Watch,
         enabled' => enabled, phase' # "over" => phase # "over",
         \A id \in Range(ours) :
           /\ orders'[id].symbol = orders[id].symbol /\ orders'[id].side = orders[id].side
           /\ orders[id].status # "working" =>
                orders'[id].status = orders[id].status /\ orders'[id].filled = orders[id].filled
  PROVE  Truthful'
<1> SUFFICES ASSUME Untrimmed' PROVE Exact' /\ Follows'
  BY DEF Truthful
<1>1. Untrimmed BY DEF Untrimmed
<1>2. Exact' BY <1>1 DEF Truthful, Exact, RowExact
<1>3. ASSUME enabled', phase' # "over" PROVE Follows'
  <2>1. Follows /\ enabled /\ phase # "over" BY <1>1, <1>3 DEF Truthful
  <2>2. ASSUME NEW row \in Range(closed) \cup Range(tracked) PROVE RowFollows(row)'
    <3>1. RowFollows(row) BY <2>1 DEF Follows
    <3>2. ASSUME NEW id \in Range(ours), Tells(row, orders[id]) PROVE Tells(row, orders'[id])
      BY <3>2 DEF Tells
    <3>3. PICK j \in Range(ours) : /\ row.order = objects[j] /\ row.symbol = orders[j].symbol
                                   /\ row.side = orders[j].side
      BY <3>1 DEF RowFollows
    <3>4. \A id \in Range(ours) : row.order = objects[id] =>
            IF id \in Due' THEN row.live = None ELSE Tells(row, orders'[id])
      BY <3>1, <3>2 DEF RowFollows
    <3>5. row.symbol = orders'[j].symbol /\ row.side = orders'[j].side BY <3>3
    <3> QED BY <3>3, <3>4, <3>5 DEF RowFollows
  <2> QED BY <2>1, <2>2 DEF Follows
<1>4. CASE ~enabled' \/ ~(phase' # "over")
  <2>1. Follows' BY <1>4, Zenon DEF Follows
  <2> QED BY <1>2, <2>1
<1> QED BY <1>2, <1>3, <1>4

(* The rest of the run the shadow is off, or the session is over.            *)
LEMMA TruthfulEnds ==
  ASSUME Truthful, UNCHANGED <<tracked, closed, strays, objects>>, ~enabled' \/ phase' = "over"
  PROVE  Truthful'
BY DEF Truthful, Untrimmed, Exact, RowExact, Follows

LEMMA TruthfulSubmit ==
  ASSUME BrokerInv, Watch, ShadowInv, Truthful, NEW ask \in Asks, ShadowSubmit(ask)
  PROVE  Truthful'
<1>1. ShadowTyped BY DEF ShadowInv
<1> DEFINE refused == rejections' # rejections
<1>2. PICK id : id = Len(orders) + 1 OBVIOUS
<1>3. PICK row : row = Followed(ask) OBVIOUS
<1>4. /\ Watch' /\ phase = "submit" /\ phase' = "submit" /\ asked' = asked + 1
      /\ \/ refused /\ Due' = Due /\ UNCHANGED <<orders, ours, objects>>
         \/ /\ ~refused /\ Due' = Due \cup {id} /\ id \notin DOMAIN orders
            /\ Range(ours') = Range(ours) \cup {id}
            /\ objects'[id] = Object(ask) /\ \A i \in Range(ours) : objects'[i] = objects[i]
            /\ \A i \in DOMAIN orders : orders'[i] = orders[i]
            /\ orders'[id] = Placed(Trim(ask))
  BY <1>2, SubmitSeen
<1>5. /\ closed' = closed /\ strays' = strays
      /\ \/ enabled /\ refused /\ enabled' = enabled /\ tracked' = tracked
         \/ enabled /\ ~refused /\ enabled' = enabled /\ tracked' = Append(tracked, row)
         \/ enabled' = FALSE /\ tracked' = tracked
         \/ ~enabled /\ enabled' = enabled /\ tracked' = tracked
  BY <1>3, TrackShape
<1>6. /\ row \in RowType /\ row.order = [ask |-> asked + 1, copy |-> FALSE] /\ row.live = None
      /\ row.symbol = ask.symbol /\ row.side = ask.side
  BY <1>1, <1>3, FollowedIs
<1>7. /\ tracked \in Seq(RowType) /\ asked \in Nat
      /\ DOMAIN objects = Range(ours) /\ DOMAIN objects' = Range(ours')
      /\ Range(ours) \subseteq DOMAIN orders
  <2>1. asked \in Nat BY BrokerAssumption DEF BrokerInv, Typed
  <2> QED BY <1>1, <1>4, <2>1 DEF ShadowTyped, Watch, ObjectsKnown, BrokerInv, Lists, Ids
<1> HIDE DEF refused
<1> SUFFICES ASSUME Untrimmed' PROVE Exact' /\ Follows'
  BY DEF Truthful
<1>8. Exact /\ Follows
  <2>1. \A i \in Range(ours) : i \in Range(ours') /\ objects'[i] = objects[i] BY <1>4
  <2> QED BY <1>7, <2>1 DEF Untrimmed, Truthful
<1>9. Range(tracked') = Range(tracked) \/ Range(tracked') = Range(tracked) \cup {row}
  <2>1. CASE tracked' = tracked BY <2>1 DEF Range
  <2>2. CASE tracked' = Append(tracked, row) BY <1>6, <1>7, <2>2, AppendRange
  <2> QED BY <1>5, <2>1, <2>2
<1>10. Exact' BY <1>5, <1>6, <1>8, <1>9 DEF Exact, RowExact
<1>11. CASE refused
  <2>1. CASE enabled'
    <3>1. /\ UNCHANGED <<tracked, closed, strays, ours, objects, orders, phase>> /\ Due' = Due
          /\ enabled
      BY <1>4, <1>5, <1>11, <2>1
    <3>2. \A r : RowFollows(r)' <=> RowFollows(r) BY <3>1 DEF RowFollows, Tells
    <3> QED BY <1>8, <1>10, <3>1, <3>2 DEF Follows
  <2>2. CASE ~enabled'
    <3>1. Follows' BY <2>2, Zenon DEF Follows
    <3> QED BY <1>10, <3>1
  <2> QED BY <2>1, <2>2
<1>12. CASE ~enabled'
  <2>1. Follows' BY <1>12, Zenon DEF Follows
  <2> QED BY <1>10, <2>1
<1>13. CASE enabled' /\ ~refused
  <2>1. enabled /\ tracked' = Append(tracked, row) BY <1>5, <1>13
  <2>2. objects'[id] = row.order
    <3> DEFINE altered == Trim(ask) # ask
               object == [ask |-> asked + 1, copy |-> altered]
    <3>1. Object(ask) = object BY DEF Object
    <3>2. objects'[id].copy = FALSE BY <1>4, <1>7, <1>13 DEF Untrimmed
    <3>3. object.copy = altered OBVIOUS
    <3> HIDE DEF altered, object
    <3>4. altered = FALSE BY <1>4, <1>13, <3>1, <3>2, <3>3
    <3>5. object = [ask |-> asked + 1, copy |-> FALSE] BY <3>4 DEF object
    <3> QED BY <1>4, <1>6, <1>13, <3>1, <3>5
  <2>3. orders'[id].symbol = row.symbol /\ orders'[id].side = row.side
    <3>1. Trim(ask).symbol = ask.symbol /\ Trim(ask).side = ask.side BY TrimShape
    <3> QED BY <1>4, <1>6, <1>13, <3>1 DEF Placed
  <2>4. /\ id \in Range(ours') /\ id \in Due' /\ id \notin Range(ours)
        /\ \A i \in Range(ours) : /\ i \in Range(ours') /\ (i \in Due' <=> i \in Due)
                                  /\ orders'[i] = orders[i] /\ objects'[i] = objects[i]
        /\ \A i \in Range(ours') : i \in Range(ours) \/ i = id
    BY <1>4, <1>7, <1>13
  <2>5. \A i \in Range(ours) : objects[i] # row.order
    <3>1. \A i \in Range(ours) : objects[i].ask \in 1..asked BY DEF Watch, ObjectsKnown
    <3>2. row.order.ask \notin 1..asked BY <1>6, <1>7
    <3> QED BY <3>1, <3>2
  <2>6. RowFollows(row)' BY <1>6, <2>2, <2>3, <2>4, <2>5 DEF RowFollows
  <2>7. ASSUME NEW r \in Range(closed) \cup Range(tracked) PROVE RowFollows(r)'
    <3>1. RowFollows(r) BY <1>4, <1>8, <2>1 DEF Follows
    <3>2. PICK i \in Range(ours) : /\ r.order = objects[i] /\ r.symbol = orders[i].symbol
                                   /\ r.side = orders[i].side
      BY <3>1 DEF RowFollows
    <3>3. r.order # objects'[id] BY <2>2, <2>5, <3>2
    <3>4. ASSUME NEW j \in Range(ours'), r.order = objects'[j]
          PROVE  IF j \in Due' THEN r.live = None ELSE Tells(r, orders'[j])
      <4>1. j \in Range(ours) /\ r.order = objects[j] BY <2>4, <3>3, <3>4
      <4>2. IF j \in Due THEN r.live = None ELSE Tells(r, orders[j])
        BY <3>1, <4>1 DEF RowFollows
      <4> QED BY <2>4, <4>1, <4>2 
    <3> QED BY <2>4, <3>2, <3>4 DEF RowFollows, Tells
  <2>8. Range(tracked') = Range(tracked) \cup {row} BY <1>6, <1>7, <2>1, AppendRange
  <2>9. \A r \in Range(closed) : r.live # None BY <1>4, <1>8, <2>1 DEF Follows
  <2>10. Follows' BY <1>5, <2>6, <2>7, <2>8, <2>9 DEF Follows
  <2> QED BY <1>10, <2>10
<1> QED BY <1>11, <1>12, <1>13

LEMMA TruthfulModelFails ==
  ASSUME ShadowInv, Truthful, NEW bars, Shadow!ModelFails(bars), objects' = objects
  PROVE  Truthful'
<1>1. ShadowTyped BY DEF ShadowInv
<1> DEFINE n == Len(tracked)
<1>2. /\ enabled' = FALSE /\ closed' = closed /\ strays' = strays /\ Len(tracked') = n
      /\ tracked' \in Seq(RowType) /\ \A i \in 1..n : SameButPriced(tracked[i], tracked'[i])
  BY <1>1, ModelFailsShape
<1>3. \A i \in 1..n : tracked'[i].order = tracked[i].order /\ tracked'[i].live = tracked[i].live
  BY <1>2 DEF SameButPriced
<1>4. \A i \in 1..n : tracked[i] \in Range(tracked) BY <1>1, TrackedShape
<1>5. \A row \in Range(tracked') : \E i \in 1..n : row = tracked'[i] BY <1>2 DEF Range
<1>6. Exact => Exact' BY <1>2, <1>3, <1>4, <1>5 DEF Exact, RowExact
<1>7. Follows' BY <1>2, Zenon DEF Follows
<1> QED BY <1>6, <1>7 DEF Truthful, Untrimmed

(* All that is known of a shadow that is on, between its steps.              *)
Known == /\ BrokerInv /\ Watch /\ ShadowTyped /\ Waiting /\ Accounted
         /\ Exact /\ Follows
         /\ enabled /\ phase # "over"

(* The row of an order that waits for an answer. *)
RowOf(id) == CHOOSE i \in 1..Len(tracked) : tracked[i].order = objects[id]

LEMMA RowOfIs ==
  ASSUME Known
  PROVE  /\ \A id \in Due :
              /\ RowOf(id) \in 1..Len(tracked) /\ tracked[RowOf(id)].order = objects[id]
              /\ tracked[RowOf(id)].live = None
              /\ tracked[RowOf(id)].symbol = orders[id].symbol
              /\ tracked[RowOf(id)].side = orders[id].side
         /\ \A id \in Due : \A i \in 1..Len(tracked) : tracked[i].order = objects[id] => i = RowOf(id)
         /\ \A i, j \in Due : RowOf(i) = RowOf(j) => i = j
         /\ \A i \in 1..Len(tracked) :
              tracked[i].live = None => \E id \in Due : tracked[i].order = objects[id] /\ i = RowOf(id)
<1> DEFINE n == Len(tracked)
<1>1. \A i, j \in 1..n : tracked[i].order = tracked[j].order => i = j
  BY DEF Known, Waiting, RowsApart
<1>2. Due \subseteq Range(ours) BY DueIsOurs DEF Known
<1>3. ASSUME NEW id \in Due
      PROVE  /\ RowOf(id) \in 1..n /\ tracked[RowOf(id)].order = objects[id]
             /\ tracked[RowOf(id)].live = None
             /\ tracked[RowOf(id)].symbol = orders[id].symbol
             /\ tracked[RowOf(id)].side = orders[id].side
             /\ \A i \in 1..n : tracked[i].order = objects[id] => i = RowOf(id)
  <2>1. PICK i \in 1..n :
          /\ tracked[i].order = objects[id] /\ tracked[i].live = None
          /\ tracked[i].symbol = orders[id].symbol /\ tracked[i].side = orders[id].side
    BY DueHasARow DEF Known
  <2>2. RowOf(id) \in 1..n /\ tracked[RowOf(id)].order = objects[id] BY <2>1 DEF RowOf
  <2> HIDE DEF n
  <2>3. \A k \in 1..n : tracked[k].order = objects[id] => k = RowOf(id) BY <1>1, <2>2
  <2> QED BY <2>1, <2>2, <2>3
<1>4. ASSUME NEW i \in Due, NEW j \in Due, RowOf(i) = RowOf(j) PROVE i = j
  <2>1. objects[i] = objects[j] BY <1>3, <1>4
  <2> QED BY <1>2, <2>1 DEF Known, Watch, ObjectsKnown
<1>5. ASSUME NEW i \in 1..n, tracked[i].live = None
      PROVE  \E id \in Due : tracked[i].order = objects[id] /\ i = RowOf(id)
  <2>1. tracked[i] \in Range(tracked) BY TrackedShape DEF Known
  <2>2. RowFollows(tracked[i]) BY <2>1 DEF Known, Follows
  <2>3. PICK id \in Range(ours) : tracked[i].order = objects[id] BY <2>2 DEF RowFollows
  <2>4. id \in Due BY <1>5, <2>2, <2>3 DEF RowFollows, Tells
  <2> QED BY <1>3, <2>3, <2>4
<1> QED BY <1>3, <1>4, <1>5

LEMMA PreparedSame ==
  ASSUME ShadowTyped, NEW bars, NEW verdict \in Verdicts(bars)
  PROVE  /\ Prepared(bars, verdict) \in [1..Len(tracked) -> RowType]
         /\ \A i \in 1..Len(tracked) : SameButPriced(tracked[i], Prepared(bars, verdict)[i])
BY VerdictIs, PreparedIs DEF Priced

FillPlaces == [k \in 1..Len(fills) |-> RowOf(fills[k].id)]

(* The orders on_bar got something for, and those it found ended.            *)
LEMMA FoundIsDue ==
  ASSUME Known, phase = "positions"
  PROVE  /\ Due = Range(pending) \cup Collected \cup Newly
         /\ \A k \in 1..Len(fills) : fills[k].id \in Collected
         /\ \A k \in 1..Len(fills) : fills[k] = FillOf(fills[k].id)
         /\ \A id \in Collected : \E k \in 1..Len(fills) : fills[k].id = id
         /\ \A k, l \in 1..Len(fills) : fills[k].id = fills[l].id => k = l
         /\ DOMAIN fills = 1..Len(fills) /\ Len(fills) \in Nat
<1>1. Due = Range(pending) \cup Collected \cup Newly BY DEF Due, InBar, UnderWay
<1>2. DOMAIN fills = 1..Len(fills) /\ Len(fills) \in Nat BY LiveFillsType DEF Known
<1> QED BY <1>1, <1>2 DEF Known, BrokerInv, Noted, Collected

LEMMA FillsAreMatched ==
  ASSUME Known, phase = "positions", NEW bars, NEW verdict \in Verdicts(bars)
  PROVE  FillsMatch(Len(tracked), Prepared(bars, verdict), LiveFills, FillPlaces)
<1> DEFINE n == Len(tracked)
           N == Len(fills)
           rows == Prepared(bars, verdict)
<1>1. /\ rows \in [1..n -> RowType]
      /\ \A i \in 1..n : /\ rows[i].live = tracked[i].live
                         /\ rows[i].symbol = tracked[i].symbol /\ rows[i].side = tracked[i].side
  BY PreparedSame DEF Known, SameButPriced
<1>2. Len(LiveFills) = N /\ DOMAIN fills = 1..N BY LiveFillsType DEF Known
<1>3. \A k \in 1..N : /\ LiveFills[k].symbol = orders[fills[k].id].symbol
                      /\ LiveFills[k].side = orders[fills[k].id].side
                      /\ fills[k].id \in Due
  BY <1>2, FoundIsDue DEF LiveFills, FillOf
<1>4. \A k \in 1..N : FillPlaces[k] = RowOf(fills[k].id) BY DEF FillPlaces
<1>5. FillPlaces \in [1..N -> 1..n] BY <1>3, RowOfIs DEF FillPlaces
<1>6. \A k \in 1..N : /\ FillPlaces[k] \in 1..n
                      /\ tracked[FillPlaces[k]].live = None
                      /\ tracked[FillPlaces[k]].symbol = LiveFills[k].symbol
                      /\ tracked[FillPlaces[k]].side = LiveFills[k].side
  BY <1>3, <1>4, RowOfIs
<1> HIDE DEF n, N, rows
<1>7. \A k \in 1..N : Shadow!Matches(rows[FillPlaces[k]], LiveFills[k])
  BY <1>1, <1>6 DEF Shadow!Matches
<1>8. ASSUME NEW k \in 1..N, NEW i \in 1..n, Shadow!Matches(rows[i], LiveFills[k])
      PROVE  i = FillPlaces[k]
  <2>1. /\ tracked[i].live = None /\ tracked[i].symbol = LiveFills[k].symbol
        /\ tracked[i].side = LiveFills[k].side
    BY <1>1, <1>8 DEF Shadow!Matches
  <2>2. PICK id \in Due : tracked[i].order = objects[id] /\ i = RowOf(id)
    BY <2>1, RowOfIs DEF n
  <2>3. orders[id].symbol = tracked[i].symbol /\ orders[id].side = tracked[i].side
    BY <2>2, RowOfIs
  <2>4. id = fills[k].id BY <1>3, <2>1, <2>3 DEF Known, Watch, DueApart
  <2> QED BY <1>4, <2>2, <2>4
<1>9. ASSUME NEW k \in 1..N, NEW l \in 1..N, FillPlaces[k] = FillPlaces[l] PROVE k = l
  <2>1. fills[k].id = fills[l].id BY <1>3, <1>4, <1>9, RowOfIs
  <2> QED BY <2>1, FoundIsDue DEF N
<1> QED BY <1>2, <1>5, <1>7, <1>8, <1>9 DEF FillsMatch, n, N, rows

Filled(bars, verdict) == FillsTaken(Prepared(bars, verdict), LiveFills, lastBar + 1)

(* The rows once the fills are on them. *)
LEMMA FilledIs ==
  ASSUME Known, phase = "positions", NEW bars, NEW verdict \in Verdicts(bars)
  PROVE  /\ Filled(bars, verdict) \in States(Len(tracked)) /\ Filled(bars, verdict).strays = <<>>
         /\ \A i \in 1..Len(tracked) : Filled(bars, verdict).rows[i].order = tracked[i].order
         /\ \A i \in 1..Len(tracked) :
              (\A id \in Collected : RowOf(id) # i) => Filled(bars, verdict).rows[i].live = tracked[i].live
         /\ \A id \in Collected :
              Filled(bars, verdict).rows[RowOf(id)].live
                = Shadow!Answer("filled", lastBar + 1, orders[id].filled, objects[id].ask)
<1> DEFINE n == Len(tracked)
           N == Len(LiveFills)
           rows == Prepared(bars, verdict)
           base == Filled(bars, verdict)
           t == lastBar + 1
<1>1. /\ n \in Nat /\ t \in Nat /\ rows \in [1..n -> RowType]
      /\ \A i \in 1..n : rows[i].live = tracked[i].live /\ rows[i].order = tracked[i].order
  BY PreparedSame DEF Known, SameButPriced, ShadowTyped
<1>2. LiveFills \in Seq(FillSeen) /\ N = Len(fills) /\ N \in Nat BY LiveFillsType DEF Known
<1>3. FillsMatch(n, rows, LiveFills, FillPlaces) BY FillsAreMatched
<1> HIDE DEF n, rows, t
<1>4. AfterFills(n, rows, LiveFills, FillPlaces, t, N, base)
  BY <1>1, <1>2, <1>3, FillsLand DEF Filled, rows, t
<1> HIDE DEF base
<1>5. /\ base \in States(n) /\ base.strays = <<>>
      /\ \A i \in 1..n : (\A l \in 1..N : FillPlaces[l] # i) => base.rows[i] = rows[i]
      /\ \A l \in 1..N : base.rows[FillPlaces[l]] = FilledRow(rows[FillPlaces[l]], LiveFills[l], t)
  BY <1>4 DEF AfterFills
<1>6. \A l \in 1..N : /\ FillPlaces[l] = RowOf(fills[l].id) /\ FillPlaces[l] \in 1..n
                      /\ fills[l].id \in Collected /\ LiveFills[l] \in FillSeen
                      /\ LiveFills[l].qty = orders[fills[l].id].filled
                      /\ LiveFills[l].of = objects[fills[l].id].ask
  <2>1. \A l \in 1..N : LiveFills[l] \in FillSeen BY <1>2
  <2>2. \A l \in 1..N : fills[l] = FillOf(fills[l].id) /\ fills[l].id \in Collected
    BY <1>2, FoundIsDue
  <2>3. \A l \in 1..N : FillPlaces[l] = RowOf(fills[l].id) BY <1>2 DEF FillPlaces
  <2>4. \A l \in 1..N : FillPlaces[l] \in 1..n BY <1>3 DEF FillsMatch
  <2>5. \A l \in 1..N : /\ LiveFills[l].qty = fills[l].qty
                        /\ LiveFills[l].of = objects[fills[l].id].ask
    BY <1>2, FoundIsDue DEF LiveFills
  <2>6. ASSUME NEW l \in 1..N PROVE fills[l].qty = orders[fills[l].id].filled
    <3>1. PICK id : id = fills[l].id OBVIOUS
    <3>2. fills[l] = FillOf(id) BY <2>2, <3>1
    <3>3. FillOf(id).qty = orders[id].filled BY DEF FillOf
    <3> QED BY <3>1, <3>2, <3>3
  <2> QED BY <2>1, <2>2, <2>3, <2>4, <2>5, <2>6
<1>7. \A l \in 1..N :
        /\ base.rows[FillPlaces[l]].live
             = Shadow!Answer("filled", t, LiveFills[l].qty, LiveFills[l].of)
        /\ base.rows[FillPlaces[l]].order = rows[FillPlaces[l]].order
  BY <1>1, <1>5, <1>6, FilledRowIs
<1>8. ASSUME NEW i \in 1..n
      PROVE  /\ base.rows[i].order = tracked[i].order
             /\ (\A id \in Collected : RowOf(id) # i) => base.rows[i].live = tracked[i].live
  <2>1. CASE \E l \in 1..N : FillPlaces[l] = i BY <1>1, <1>6, <1>7, <2>1
  <2>2. CASE \A l \in 1..N : FillPlaces[l] # i BY <1>1, <1>5, <2>2
  <2> QED BY <2>1, <2>2
<1>9. ASSUME NEW id \in Collected
      PROVE  base.rows[RowOf(id)].live = Shadow!Answer("filled", t, orders[id].filled, objects[id].ask)
  <2>1. PICK l \in 1..N : fills[l].id = id BY <1>2, FoundIsDue
  <2> QED BY <1>6, <1>7, <2>1
<1> QED BY <1>5, <1>8, <1>9 DEF n, t, base

RejectionPlaces == [k \in 1..Len(LiveRejections) |-> RowOf(rejections[before + k].id)]

LEMMA RejectionsAreMatched ==
  ASSUME Known, phase = "positions", NEW bars, NEW verdict \in Verdicts(bars)
  PROVE  /\ RejectionsMatch(Len(tracked), Filled(bars, verdict).rows, LiveRejections,
                            RejectionPlaces, lastBar + 1)
         /\ Len(LiveRejections) \in Nat
         /\ \A k \in 1..Len(LiveRejections) :
              /\ rejections[before + k].id \in Newly
              /\ LiveRejections[k].of = objects[rejections[before + k].id].ask
              /\ RejectionPlaces[k] = RowOf(rejections[before + k].id)
         /\ \A id \in Newly : \E k \in 1..Len(LiveRejections) : rejections[before + k].id = id
<1> DEFINE n == Len(tracked)
           N == Len(LiveRejections)
           base == Filled(bars, verdict)
           t == lastBar + 1
           Id(k) == rejections[before + k].id
<1>1. /\ base \in States(n)
      /\ \A i \in 1..n : base.rows[i].order = tracked[i].order
      /\ \A i \in 1..n : (\A id \in Collected : RowOf(id) # i) => base.rows[i].live = tracked[i].live
      /\ \A id \in Collected :
           base.rows[RowOf(id)].live = Shadow!Answer("filled", t, orders[id].filled, objects[id].ask)
  BY FilledIs
<1>2. /\ LiveRejections \in Seq(RejectionSeen)
      /\ \A k \in 1..N :
           /\ before + k \in NewRejections
           /\ LiveRejections[k] = [order |-> objects[Id(k)], of |-> objects[Id(k)].ask]
      /\ \A k \in NewRejections : k - before \in 1..N /\ before + (k - before) = k
  BY LiveRejectionsType DEF Known
<1>3. N \in Nat BY <1>2
<1>4. \A k \in 1..N : LiveRejections[k].order = objects[Id(k)] /\ LiveRejections[k].of = objects[Id(k)].ask
  <2>1. ASSUME NEW k \in 1..N
        PROVE  LiveRejections[k].order = objects[Id(k)] /\ LiveRejections[k].of = objects[Id(k)].ask
    <3> DEFINE object == objects[Id(k)]
    <3>1. LiveRejections[k] = [order |-> object, of |-> object.ask] BY <1>2
    <3> HIDE DEF object
    <3>2. LiveRejections[k].order = object /\ LiveRejections[k].of = object.ask BY <3>1
    <3> QED BY <3>2 DEF object
  <2> QED BY <2>1
<1>5. \A k \in 1..N : Id(k) \in Newly /\ Id(k) \in Due
  <2>1. \A k \in 1..N : Id(k) \in Newly BY <1>2 DEF Newly
  <2> QED BY <2>1, FoundIsDue
<1>6. \A id \in Newly : \E k \in 1..N : Id(k) = id
  <2>1. ASSUME NEW id \in Newly PROVE \E k \in 1..N : Id(k) = id
    <3>1. PICK m \in NewRejections : rejections[m].id = id BY DEF Newly
    <3>2. m - before \in 1..N /\ Id(m - before) = id BY <1>2, <3>1
    <3> QED BY <3>2
  <2> QED BY <2>1
<1>7. \A k \in 1..N : RejectionPlaces[k] = RowOf(Id(k)) BY DEF RejectionPlaces
<1>8. RejectionPlaces \in [1..N -> 1..n] BY <1>5, RowOfIs DEF RejectionPlaces
<1>9. ASSUME NEW k \in 1..N, NEW l \in 1..N, Id(k) = Id(l) PROVE k = l
  <2>1. before + k = before + l
    BY <1>2, <1>9 DEF Known, Watch, RejectionsNoted, InBar
  <2>2. before \in Nat BY DEF Known, Watch, RejectionsNoted
  <2> QED BY <1>3, <2>1, <2>2
<1> HIDE DEF n, N, base, Id
<1>10. ASSUME NEW k \in 1..N
      PROVE  /\ base.rows[RejectionPlaces[k]].order = LiveRejections[k].order
             /\ base.rows[RejectionPlaces[k]].live # None =>
                  /\ base.rows[RejectionPlaces[k]].live.outcome = "filled"
                  /\ base.rows[RejectionPlaces[k]].live.ts = t
             /\ \A i \in 1..n : base.rows[i].order = LiveRejections[k].order => i = RejectionPlaces[k]
  <2> DEFINE i == RejectionPlaces[k]
             id == Id(k)
  <2>1. i = RowOf(id) /\ id \in Due /\ i \in 1..n /\ tracked[i].order = objects[id]
        /\ tracked[i].live = None
    BY <1>5, <1>7, RowOfIs DEF n
  <2>2. LiveRejections[k].order = objects[id] BY <1>4
  <2>3. base.rows[i].order = objects[id] BY <1>1, <2>1
  <2> HIDE DEF i, id
  <2>4. ASSUME base.rows[i].live # None
        PROVE  base.rows[i].live.outcome = "filled" /\ base.rows[i].live.ts = t
    <3>1. PICK j \in Collected : RowOf(j) = i BY <1>1, <2>1, <2>4
    <3>2. base.rows[i].live = Shadow!Answer("filled", t, orders[j].filled, objects[j].ask)
      BY <1>1, <3>1
    <3> QED BY <3>2 DEF Shadow!Answer
  <2>5. ASSUME NEW j \in 1..n, base.rows[j].order = objects[id] PROVE j = i
    BY <1>1, <2>1, <2>5, RowOfIs DEF n
  <2> QED BY <2>2, <2>3, <2>4, <2>5 DEF i
<1>11. ASSUME NEW k \in 1..N, NEW l \in 1..N, RejectionPlaces[k] = RejectionPlaces[l] PROVE k = l
  BY <1>5, <1>7, <1>9, <1>11, RowOfIs
<1>12. RejectionsMatch(n, base.rows, LiveRejections, RejectionPlaces, t)
  BY <1>8, <1>10, <1>11 DEF RejectionsMatch, N
<1> QED BY <1>3, <1>5, <1>6, <1>7, <1>12, <1>4 DEF n, N, base, Id

Found == Collected \cup Newly

(* What on_bar has found of an order is all there is to find.                *)
LEMMA FoundIsOver ==
  ASSUME Known, phase = "positions"
  PROVE  /\ \A id \in Collected : orders[id].status = "ended" => id \in Newly
         /\ \A id \in Collected \ Newly : orders[id].status = "filled"
         /\ \A id \in Newly : orders[id].status = "ended"
         /\ \A id \in Collected : orders[id].filled > 0
         /\ \A id \in Newly \ Collected : orders[id].filled = 0
         /\ \A id \in Found : /\ id \in Range(ours) /\ id \notin Range(pending)
                              /\ orders[id].filled \in Nat /\ objects[id].ask \in Nat
<1>1. /\ \A id \in Collected : orders[id].status = "ended" => id \in Newly
      /\ \A id \in Newly : orders[id].status = "ended" /\ id \in Range(ours) /\ id \notin Range(pending)
      /\ \A id \in Collected : orders[id].filled > 0
      /\ \A id \in Newly \ Collected : orders[id].filled = 0
  BY DEF Known, Watch, RejectionsNoted, InBar, Newly, UnderWay
<1>2. \A id \in Collected : id \in Range(ours) /\ id \notin Range(pending) /\ orders[id].status # "working"
  BY DEF Known, BrokerInv, Noted, IsLive, UnderWay
<1>3. \A id \in Range(ours) : orders[id] \in VenueOrder
  <2>1. orders \in Seq(VenueOrder) /\ Range(ours) \subseteq DOMAIN orders
    BY DEF Known, BrokerInv, Typed, Lists, Ids
  <2> QED BY <2>1
<1>4. \A id \in Range(ours) : /\ orders[id].status \in {"working", "filled", "ended"}
                              /\ orders[id].filled \in Nat
  BY <1>3 DEF VenueOrder
<1>5. \A id \in Range(ours) : objects[id].ask \in Nat
  BY DEF Known, Watch, ObjectsKnown, Identity
<1> QED BY <1>1, <1>2, <1>4, <1>5 DEF Found

(* The rows once all the answers are on them: the answer on a row is of its  *)
(* order and says what became of it, and no other row has changed.           *)
LEMMA SeenIs ==
  ASSUME Known, phase = "positions", NEW bars, NEW verdict \in Verdicts(bars)
  PROVE  /\ Seen(bars, verdict).strays = <<>>
         /\ \A i \in 1..Len(tracked) :
              (\A id \in Found : RowOf(id) # i) => Seen(bars, verdict).rows[i].live = tracked[i].live
         /\ \A id \in Found : /\ Tells(Seen(bars, verdict).rows[RowOf(id)], orders[id])
                              /\ Seen(bars, verdict).rows[RowOf(id)].live.of = objects[id].ask
<1> DEFINE n == Len(tracked)
           N == Len(LiveRejections)
           base == Filled(bars, verdict)
           seen == Seen(bars, verdict)
           t == lastBar + 1
           Id(k) == rejections[before + k].id
<1>1. /\ base \in States(n) /\ base.strays = <<>>
      /\ \A i \in 1..n : (\A id \in Collected : RowOf(id) # i) => base.rows[i].live = tracked[i].live
      /\ \A id \in Collected :
           base.rows[RowOf(id)].live = Shadow!Answer("filled", t, orders[id].filled, objects[id].ask)
  BY FilledIs
<1>2. /\ RejectionsMatch(n, base.rows, LiveRejections, RejectionPlaces, t)
      /\ \A k \in 1..N : /\ Id(k) \in Newly /\ LiveRejections[k].of = objects[Id(k)].ask
                         /\ RejectionPlaces[k] = RowOf(Id(k))
      /\ \A id \in Newly : \E k \in 1..N : Id(k) = id
  BY RejectionsAreMatched
<1>3. n \in Nat /\ t \in Nat BY DEF Known, ShadowTyped
<1>4. LiveRejections \in Seq(RejectionSeen) BY LiveRejectionsType DEF Known
<1>5. seen = RejectionsTaken(base, LiveRejections, t) BY AttributedIs DEF Seen, Filled
<1> HIDE DEF n, N, base, seen, t, Id
<1>6. AfterRejections(n, base.rows, LiveRejections, RejectionPlaces, t, N, seen)
  BY <1>1, <1>2, <1>3, <1>4, <1>5, RejectionsLand DEF N
<1>7. /\ seen \in States(n) /\ seen.strays = <<>>
      /\ \A i \in 1..n : (\A k \in 1..N : RejectionPlaces[k] # i) => seen.rows[i] = base.rows[i]
      /\ \A k \in 1..N : seen.rows[RejectionPlaces[k]]
                           = RejectedRow(base.rows[RejectionPlaces[k]], LiveRejections[k], t)
  BY <1>6 DEF AfterRejections
<1>8. \A id \in Found : RowOf(id) \in 1..n /\ tracked[RowOf(id)].live = None /\ id \in Due
  BY FoundIsDue, RowOfIs DEF Found, n
<1>9. \A i, j \in Found : RowOf(i) = RowOf(j) => i = j BY <1>8, RowOfIs
<1>10. ASSUME NEW i \in 1..n, \A id \in Found : RowOf(id) # i
       PROVE  seen.rows[i].live = tracked[i].live
  <2>1. \A k \in 1..N : RejectionPlaces[k] # i BY <1>2, <1>10 DEF Found
  <2> QED BY <1>1, <1>7, <1>10, <2>1 DEF Found
<1>11. ASSUME NEW id \in Collected \ Newly
       PROVE  seen.rows[RowOf(id)].live = Shadow!Answer("filled", t, orders[id].filled, objects[id].ask)
  <2>1. \A k \in 1..N : RejectionPlaces[k] # RowOf(id)
    <3>1. ASSUME NEW k \in 1..N, RejectionPlaces[k] = RowOf(id) PROVE FALSE
      <4>1. Id(k) \in Newly /\ RowOf(Id(k)) = RowOf(id) BY <1>2, <3>1
      <4> QED BY <1>9, <4>1 DEF Found
    <3> QED BY <3>1
  <2>2. seen.rows[RowOf(id)] = base.rows[RowOf(id)] BY <1>7, <1>8, <2>1 DEF Found
  <2> QED BY <1>1, <2>2
<1>12. ASSUME NEW id \in Newly
       PROVE  \E k \in 1..N :
                /\ LiveRejections[k].of = objects[id].ask
                /\ base.rows[RowOf(id)] \in RowType
                /\ seen.rows[RowOf(id)] = RejectedRow(base.rows[RowOf(id)], LiveRejections[k], t)
  <2>1. PICK k \in 1..N : Id(k) = id BY <1>2
  <2>2. RowOf(id) \in 1..n BY <1>8 DEF Found
  <2>3. base.rows[RowOf(id)] \in RowType BY <1>1, <1>3, <2>2, StateRows
  <2> QED BY <1>2, <1>7, <2>1, <2>3
<1>13. ASSUME NEW id \in Newly \ Collected
       PROVE  seen.rows[RowOf(id)].live = Shadow!Answer("rejected", t, 0, objects[id].ask)
  <2>1. PICK k \in 1..N :
          /\ LiveRejections[k].of = objects[id].ask
          /\ base.rows[RowOf(id)] \in RowType
          /\ seen.rows[RowOf(id)] = RejectedRow(base.rows[RowOf(id)], LiveRejections[k], t)
    BY <1>12
  <2>2. base.rows[RowOf(id)].live = None
    <3>1. \A j \in Collected : RowOf(j) # RowOf(id) BY <1>9 DEF Found
    <3> QED BY <1>1, <1>8, <3>1 DEF Found
  <2> DEFINE row == base.rows[RowOf(id)]
  <2> HIDE DEF row
  <2>3. /\ row \in RowType /\ row.live = None
        /\ seen.rows[RowOf(id)] = RejectedRow(row, LiveRejections[k], t)
    BY <2>1, <2>2 DEF row
  <2>4. RejectedRow(row, LiveRejections[k], t)
          = [row EXCEPT !.live = Shadow!Answer("rejected", t, 0, LiveRejections[k].of)]
    BY <2>3 DEF RejectedRow
  <2> DEFINE answer == Shadow!Answer("rejected", t, 0, LiveRejections[k].of)
  <2>5. RejectedRow(row, LiveRejections[k], t) = [row EXCEPT !.live = answer] BY <2>4
  <2> HIDE DEF answer
  <2>6. [row EXCEPT !.live = answer].live = answer BY <2>3 DEF RowType
  <2> QED BY <2>1, <2>3, <2>5, <2>6 DEF answer
<1>14. ASSUME NEW id \in Newly \cap Collected
       PROVE  seen.rows[RowOf(id)].live = Shadow!Answer("partial", t, orders[id].filled, objects[id].ask)
  <2>1. PICK k \in 1..N :
          /\ base.rows[RowOf(id)] \in RowType
          /\ seen.rows[RowOf(id)] = RejectedRow(base.rows[RowOf(id)], LiveRejections[k], t)
    BY <1>12
  <2>2. base.rows[RowOf(id)].live = Shadow!Answer("filled", t, orders[id].filled, objects[id].ask)
    BY <1>1
  <2> DEFINE row == base.rows[RowOf(id)]
             answer == Shadow!Answer("filled", t, orders[id].filled, objects[id].ask)
             amended == [answer EXCEPT !.outcome = "partial"]
  <2>3. amended = Shadow!Answer("partial", t, orders[id].filled, objects[id].ask)
    BY DEF Shadow!Answer
  <2> HIDE DEF row, answer
  <2>4. row \in RowType /\ row.live = answer /\ seen.rows[RowOf(id)] = RejectedRow(row, LiveRejections[k], t)
    BY <2>1, <2>2 DEF row, answer
  <2>5. answer # None
    <3>1. orders[id].filled \in Nat /\ objects[id].ask \in Nat BY FoundIsOver DEF Found
    <3>2. answer \in Shadow!Answers BY <1>3, <3>1, AnswerType DEF answer
    <3> QED BY <3>2, NoAnswer
  <2>6. RejectedRow(row, LiveRejections[k], t) = [row EXCEPT !.live = amended]
    BY <2>4, <2>5 DEF RejectedRow
  <2> HIDE DEF amended
  <2>7. [row EXCEPT !.live = amended].live = amended BY <2>4 DEF RowType
  <2> QED BY <2>3, <2>4, <2>6, <2>7
<1>15. ASSUME NEW outcome \in {"filled", "rejected", "partial"}, NEW qty \in Nat, NEW of \in Nat
       PROVE  /\ Shadow!Answer(outcome, t, qty, of) # None
              /\ Shadow!Answer(outcome, t, qty, of).outcome = outcome
              /\ Shadow!Answer(outcome, t, qty, of).qty = qty
              /\ Shadow!Answer(outcome, t, qty, of).of = of
  <2>1. Shadow!Answer(outcome, t, qty, of) \in Shadow!Answers BY <1>3, AnswerType
  <2>2. Shadow!Answer(outcome, t, qty, of) # None BY <2>1, NoAnswer
  <2> QED BY <2>2 DEF Shadow!Answer
<1>16. ASSUME NEW id \in Found
       PROVE  Tells(seen.rows[RowOf(id)], orders[id]) /\ seen.rows[RowOf(id)].live.of = objects[id].ask
  <2>1. orders[id].filled \in Nat /\ objects[id].ask \in Nat /\ 0 \in Nat BY FoundIsOver
  <2>2. CASE id \in Collected \ Newly
    <3>1. orders[id].status = "filled" BY <2>2, FoundIsOver
    <3> QED BY <1>11, <1>15, <2>1, <2>2, <3>1 DEF Tells
  <2>3. CASE id \in Newly \ Collected
    <3>1. orders[id].status = "ended" /\ orders[id].filled = 0 BY <2>3, FoundIsOver
    <3> QED BY <1>13, <1>15, <2>1, <2>3, <3>1 DEF Tells
  <2>4. CASE id \in Newly \cap Collected
    <3>1. orders[id].status = "ended" /\ orders[id].filled > 0 BY <2>4, FoundIsOver
    <3> QED BY <1>14, <1>15, <2>1, <2>4, <3>1 DEF Tells
  <2> QED BY <2>2, <2>3, <2>4 DEF Found
<1> QED BY <1>7, <1>10, <1>16 DEF n, seen

LEMMA SeenFollows ==
  ASSUME Known, phase = "positions", NEW bars, NEW verdict \in Verdicts(bars),
         KeepsRows(Len(tracked), Prepared(bars, verdict), Seen(bars, verdict)),
         NEW i \in 1..Len(tracked)
  PROVE  LET row == Seen(bars, verdict).rows[i]
         IN /\ row.order = tracked[i].order /\ RowExact(row)
            /\ \E id \in Range(ours) : /\ row.order = objects[id]
                                       /\ row.symbol = orders[id].symbol /\ row.side = orders[id].side
            /\ \A id \in Range(ours) : row.order = objects[id] =>
                 IF id \in Range(pending) THEN row.live = None ELSE Tells(row, orders[id])
<1> DEFINE rows == Prepared(bars, verdict)
           seen == Seen(bars, verdict)
           row == seen.rows[i]
           old == tracked[i]
<1>1. row.order = old.order /\ row.symbol = old.symbol /\ row.side = old.side
  <2>1. SameButLive(rows[i], row) BY DEF KeepsRows
  <2>2. SameButPriced(old, rows[i]) BY PreparedSame DEF Known
  <2> HIDE DEF rows, seen
  <2> QED BY <2>1, <2>2 DEF SameButLive, SameButPriced
<1>2. /\ (\A id \in Found : RowOf(id) # i) => row.live = old.live
      /\ \A id \in Found : RowOf(id) = i => Tells(row, orders[id]) /\ row.live.of = objects[id].ask
  BY SeenIs
<1> HIDE DEF row
<1>3. RowFollows(old) /\ RowExact(old)
  <2>1. old \in Range(tracked) BY TrackedShape DEF Known
  <2> QED BY <2>1 DEF Known, Follows, Exact
<1>4. \A id \in Found : /\ id \in Due /\ RowOf(id) \in 1..Len(tracked) /\ id \in Range(ours)
                        /\ tracked[RowOf(id)].order = objects[id] /\ id \notin Range(pending)
  BY FoundIsDue, FoundIsOver, RowOfIs DEF Found
<1>5. \A id \in Found : RowOf(id) = i => old.order = objects[id] BY <1>4
<1>6. \A id \in Found : old.order = objects[id] => RowOf(id) = i BY <1>4, RowOfIs
<1>7. \A j, k \in Range(ours) : objects[j] = objects[k] => j = k
  BY DEF Known, Watch, ObjectsKnown
<1>8. \A id : id \in Due <=> id \in Range(pending) \/ id \in Found BY FoundIsDue DEF Found
<1> HIDE DEF old
<1>9. RowExact(row)
  <2>1. CASE \A id \in Found : RowOf(id) # i BY <1>1, <1>2, <1>3, <2>1 DEF RowExact
  <2>2. CASE \E id \in Found : RowOf(id) = i BY <1>1, <1>2, <1>5, <2>2 DEF RowExact
  <2> QED BY <2>1, <2>2
<1>10. ASSUME NEW id \in Range(ours), row.order = objects[id]
       PROVE  IF id \in Range(pending) THEN row.live = None ELSE Tells(row, orders[id])
  <2>1. CASE id \in Found BY <1>1, <1>2, <1>4, <1>6, <1>10, <2>1
  <2>2. CASE id \notin Found
    <3>1. \A j \in Found : RowOf(j) # i BY <1>1, <1>4, <1>5, <1>7, <1>10, <2>2
    <3>2. row.live = old.live BY <1>2, <3>1
    <3>3. IF id \in Due THEN old.live = None ELSE Tells(old, orders[id])
      BY <1>1, <1>3, <1>10 DEF RowFollows
    <3> QED BY <1>8, <2>2, <3>2, <3>3 DEF Tells
  <2> QED BY <2>1, <2>2
<1>11. \E id \in Range(ours) : /\ row.order = objects[id]
                               /\ row.symbol = orders[id].symbol /\ row.side = orders[id].side
  BY <1>1, <1>3 DEF RowFollows
<1> QED BY <1>1, <1>9, <1>10, <1>11 DEF row, old

LEMMA TruthfulObserve ==
  ASSUME BrokerInv, Watch, ShadowInv, Waiting, Accounted, Truthful,
         ReadPositions, UNCHANGED <<before, objects>>, NEW bars, NEW verdict \in Verdicts(bars),
         Shadow!Observe(bars, LiveFills, LiveRejections, verdict)
  PROVE  Truthful'
<1> SUFFICES ASSUME Untrimmed' PROVE Exact' /\ Follows'
  BY DEF Truthful
<1>1. /\ phase = "positions" /\ phase' = "submit" /\ UNCHANGED <<orders, ours, objects, pending>>
  BY DEF ReadPositions, venueVars
<1>2. Due' = Range(pending) BY WatchReadPositions
<1>3. ShadowTyped BY DEF ShadowInv
<1> DEFINE n == Len(tracked)
           seen == Seen(bars, verdict)
           I == Left(bars, verdict)
           J == Done(bars, verdict)
<1>4. /\ enabled /\ KeepsRows(n, Prepared(bars, verdict), seen)
      /\ \E new \in Seq(RowType) : closed' = closed \o new /\ Range(new) = {seen.rows[i] : i \in J}
      /\ Range(tracked') = {seen.rows[i] : i \in I}
      /\ strays' = strays \o seen.strays
  <2>1. Observed(bars, verdict) BY <1>1, <1>3, ObserveShape
  <2> QED BY <2>1 DEF Observed
<1>5. Known
  <2>1. Untrimmed BY <1>1 DEF Untrimmed
  <2> QED BY <1>1, <1>3, <1>4, <2>1 DEF Truthful, Known
<1>6. ASSUME NEW i \in 1..n
      PROVE  /\ seen.rows[i].order = tracked[i].order /\ RowExact(seen.rows[i])
             /\ \E id \in Range(ours) : /\ seen.rows[i].order = objects[id]
                                        /\ seen.rows[i].symbol = orders[id].symbol
                                        /\ seen.rows[i].side = orders[id].side
             /\ \A id \in Range(ours) : seen.rows[i].order = objects[id] =>
                  IF id \in Range(pending) THEN seen.rows[i].live = None
                  ELSE Tells(seen.rows[i], orders[id])
  BY <1>1, <1>4, <1>5, SeenFollows
<1>7. seen.strays = <<>> BY <1>1, <1>5, SeenIs
<1>8. /\ I \in SUBSET (1..n) /\ J \in SUBSET (1..n)
      /\ \A i \in J : seen.rows[i].live # None
  BY DEF Left, Done, Shadow!Answered
<1> HIDE DEF n, seen, I, J
<1>9. PICK new \in Seq(RowType) : closed' = closed \o new /\ Range(new) = {seen.rows[i] : i \in J}
  BY <1>4
<1>10. Range(closed') = Range(closed) \cup {seen.rows[i] : i \in J}
  BY <1>3, <1>9, ConcatRange DEF ShadowTyped
<1>11. \A row \in Range(closed') \cup Range(tracked') :
         row \in Range(closed) \/ \E i \in 1..n : row = seen.rows[i]
  BY <1>4, <1>8, <1>10
<1>12. Exact'
  <2>1. strays = <<>> /\ \A row \in Range(closed) : RowExact(row) BY <1>5 DEF Known, Exact
  <2>2. strays' = <<>> BY <1>4, <1>7, <2>1
  <2>3. \A row \in Range(closed') \cup Range(tracked') : RowExact(row) BY <1>6, <1>11, <2>1
  <2> QED BY <2>2, <2>3 DEF Exact, RowExact
<1>13. ASSUME NEW row \in Range(closed) PROVE RowFollows(row)'
  <2>1. RowFollows(row) /\ row.live # None BY <1>5 DEF Known, Follows
  <2>2. Range(pending) \subseteq Due BY <1>1, <1>5, FoundIsDue
  <2> QED BY <1>1, <1>2, <2>1, <2>2 DEF RowFollows, Tells
<1>14. ASSUME NEW i \in 1..n, NEW row, row = seen.rows[i] PROVE RowFollows(row)'
  BY <1>1, <1>2, <1>6, <1>14 DEF RowFollows, Tells
<1>15. \A row \in Range(closed') : row.live # None BY <1>5, <1>8, <1>10 DEF Known, Follows
<1>16. \A row \in Range(closed') \cup Range(tracked') : RowFollows(row)' BY <1>11, <1>13, <1>14
<1> QED BY <1>12, <1>15, <1>16 DEF Follows

LEMMA TruthfulStep ==
  BrokerInv /\ Watch /\ ShadowInv /\ Waiting /\ Accounted /\ Truthful /\ [ShadowedNext]_allVars => Truthful'
<1> SUFFICES ASSUME BrokerInv, Watch, ShadowInv, Waiting, Accounted, Truthful, [ShadowedNext]_allVars
             PROVE  Truthful'
  OBVIOUS
<1>1. ASSUME NEW ask \in Asks, ShadowSubmit(ask) PROVE Truthful' BY <1>1, TruthfulSubmit
<1>2. ASSUME UNCHANGED <<tracked, closed, strays, ours, objects, orders>>, Due' = Due,
             enabled' = enabled \/ enabled' = FALSE, phase' # "over" => phase # "over"
      PROVE  Truthful'
  <2>1. enabled' => enabled BY <1>2, Zenon
  <2> QED BY <1>2, <2>1, TruthfulKept
<1>3. CASE ShadowStartBar
  <2>1. /\ UNCHANGED <<tracked, closed, strays, ours, objects, orders>> /\ phase # "over"
        /\ enabled' \in {enabled, FALSE} /\ StartBar /\ before' = Len(rejections)
    BY <1>3 DEF ShadowStartBar, StartBar, venueVars
  <2> QED BY <1>2, <2>1, WatchStartBar
<1>4. CASE ShadowEndBar
  <2>1. PICK bars \in SUBSET Symbols :
          \/ \E verdict \in Verdicts(bars) :
               Shadow!Observe(bars, LiveFills, LiveRejections, verdict)
          \/ Shadow!ModelFails(bars)
          \/ Shadow!Off
    BY <1>4 DEF ShadowEndBar
  <2>2. ReadPositions /\ UNCHANGED <<before, objects>> BY <1>4 DEF ShadowEndBar
  <2>3. CASE \E verdict \in Verdicts(bars) :
               Shadow!Observe(bars, LiveFills, LiveRejections, verdict)
    BY <2>2, <2>3, TruthfulObserve
  <2>4. CASE Shadow!ModelFails(bars) BY <2>2, <2>4, TruthfulModelFails
  <2>5. CASE Shadow!Off
    <3>1. ~enabled' BY <2>5, Zenon DEF Shadow!Off, Shadow!shadowVars
    <3>2. UNCHANGED <<tracked, closed, strays>> BY <2>5 DEF Shadow!Off, Shadow!shadowVars
    <3> QED BY <2>2, <3>1, <3>2, TruthfulEnds
  <2> QED BY <2>1, <2>3, <2>4, <2>5
<1>5. CASE UNCHANGED allVars
  <2>1. UNCHANGED <<tracked, closed, strays, ours, objects, orders, enabled, phase, pending,
                    todo, stillPending, fills, rejections, before>>
    BY <1>5 DEF allVars, vars, shadowVars, venueVars, brokerVars, barVars
  <2>2. Due' = Due BY <2>1 DEF Due, InBar, UnderWay, Collected, Newly, NewRejections
  <2> QED BY <1>2, <2>1, <2>2
<1>6. CASE Alone
  <2>1. UNCHANGED <<tracked, closed, strays, objects, enabled, before>>
    BY <1>6 DEF Alone, shadowVars
  <2>2. ASSUME NEW id \in DOMAIN orders, Venue(id) PROVE Truthful'
    <3>1. /\ UNCHANGED <<ours, phase>>
          /\ \A i \in DOMAIN orders :
               /\ orders'[i].symbol = orders[i].symbol /\ orders'[i].side = orders[i].side
               /\ orders[i].status # "working" =>
                    orders'[i].status = orders[i].status /\ orders'[i].filled = orders[i].filled
      BY <2>2, VenueShape
    <3>2. Due' = Due BY <2>1, <2>2, WatchVenue
    <3>3. Range(ours) \subseteq DOMAIN orders BY DEF BrokerInv, Lists, Ids
    <3> QED BY <2>1, <3>1, <3>2, <3>3, TruthfulKept
  <2>3. CASE Retry \/ ReadCash
    <3>1. UNCHANGED <<ours, orders>> /\ phase # "over" BY <2>3 DEF Retry, ReadCash, venueVars
    <3>2. Due' = Due BY <2>1, <2>3, WatchOnBar
    <3> QED BY <1>2, <2>1, <3>1, <3>2
  <2>4. CASE Settle
    <3>1. UNCHANGED <<ours, orders>> /\ phase # "over" BY <2>4 DEF Settle, venueVars
    <3>2. Due' = Due BY <2>1, <2>4, WatchSettle
    <3> QED BY <1>2, <2>1, <3>1, <3>2
  <2>5. CASE BarFails \/ \E ask \in Asks : SubmitFails(ask)
    <3>1. phase' = "over" BY <2>5 DEF BarFails, SubmitFails
    <3> QED BY <2>1, <3>1, TruthfulEnds
  <2> QED BY <1>6, <2>2, <2>3, <2>4, <2>5 DEF Alone
<1> QED BY <1>1, <1>3, <1>4, <1>5, <1>6 DEF ShadowedNext

LEMMA TruthfulInit == ShadowedInit => Truthful
<1> SUFFICES ASSUME ShadowedInit PROVE Truthful
  OBVIOUS
<1>1. tracked = <<>> /\ closed = <<>> /\ strays = <<>> BY DEF ShadowedInit, Shadow!ShadowInit
<1> QED BY <1>1, EmptyList DEF Truthful, Exact, Follows

LEMMA TruthfulHolds == ShadowedSpec => [](BrokerInv /\ Watch /\ ShadowInv /\ Truthful)
BY TruthfulInit, TruthfulStep, ShadowHolds, WaitingHolds, AccountedHolds, PTL DEF ShadowedSpec

(* Each answer is on the row of the order it answers, and none is left over, *)
(* though a fill carries no order id, as long as the live broker has trimmed *)
(* no order: the copy it makes of one is no longer the object the shadow     *)
(* knows (_attribute_live, _trim_rounding_oversell).                         *)
THEOREM AnswersFindTheirRows == ShadowedSpec => [](Untrimmed => AttributionIsExact)
<1>1. ShadowInv /\ Truthful => (Untrimmed => AttributionIsExact)
  BY RowsAre DEF ShadowInv, Truthful, Exact, RowExact, AttributionIsExact
<1> QED BY <1>1, TruthfulHolds, PTL

(* A row without a live answer is an order the broker is still waiting for,  *)
(* and a row with one says what the venue did, as long as nothing was        *)
(* trimmed (OUTCOME_PENDING, _PARTIAL, ADR-0033).                            *)
THEOREM RowsAreTruthful == ShadowedSpec => [](Untrimmed => RowsTellTheOutcome)
<1>1. Watch /\ ShadowInv /\ Truthful => (Untrimmed => RowsTellTheOutcome)
  <2> SUFFICES ASSUME Watch, ShadowInv, Truthful, Untrimmed, phase = "submit", enabled,
                      NEW row \in Range(closed) \cup Range(tracked),
                      NEW id \in DOMAIN objects, objects[id].ask = row.order.ask
               PROVE  IF id \in Range(pending) THEN row.live = None ELSE Tells(row, orders[id])
    BY RowsAre DEF RowsTellTheOutcome, Settled, RowIds, Tells, ShadowInv
  <2>1. RowFollows(row) BY DEF Truthful, Follows
  <2>2. DOMAIN objects = Range(ours) BY DEF Watch, ObjectsKnown
  <2>3. PICK j \in Range(ours) : row.order = objects[j] BY <2>1 DEF RowFollows
  <2>4. j = id BY <2>2, <2>3 DEF Watch, ObjectsKnown
  <2>5. Due = Range(pending) BY DEF Due, InBar
  <2> QED BY <2>1, <2>3, <2>4, <2>5 DEF RowFollows
<1> QED BY <1>1, TruthfulHolds, PTL

-----------------------------------------------------------------------------
(* Equities *)

(* The venue's grid is the sizer's: holdings and orders are whole units.     *)
WholeUnits ==
  /\ Grain = 2
  /\ \A ask \in Asks : ask.qty % 2 = 0
  /\ \A s \in Symbols : Holdings[s] % 2 = 0

Whole == \A s \in Symbols : account.qty[s] % 2 = 0 /\ portfolio.qty[s] % 2 = 0

LEMMA WholeStep ==
  ASSUME WholeUnits
  PROVE  BrokerInv /\ Watch /\ Whole /\ Untrimmed /\ [ShadowedNext]_allVars => Whole' /\ Untrimmed'
<1> SUFFICES ASSUME BrokerInv, Watch, Whole, Untrimmed, [ShadowedNext]_allVars
             PROVE  Whole' /\ Untrimmed'
  OBVIOUS
<1>1. CASE UNCHANGED <<account, portfolio, objects>> BY <1>1 DEF Whole, Untrimmed
<1>2. ASSUME NEW ask \in Asks, ShadowSubmit(ask) PROVE Whole' /\ Untrimmed'
  <2>1. UNCHANGED <<account, portfolio>> BY <1>2, SubmitShape DEF ShadowSubmit, Submit, Asking, Refuse, Place, venueVars
  <2>2. Trim(ask) = ask
    <3> DEFINE held == portfolio.qty[ask.symbol]
    <3>1. ask.symbol \in Symbols /\ ask.qty \in Nat /\ ask.qty % 2 = 0 BY BrokerAssumption DEF WholeUnits
    <3>2. held \in Int /\ held % 2 = 0 BY <3>1 DEF Whole, BrokerInv, Typed, Purse
    <3> HIDE DEF held
    <3>3. ask.qty - held # 1 BY <3>1, <3>2
    <3>4. ask.qty - held \notin 1..HalfUnit BY <3>1, <3>2, <3>3 DEF HalfUnit
    <3> QED BY <3>4 DEF Trim, held
  <2>3. Object(ask).copy = FALSE BY <2>2 DEF Object
  <2>4. Untrimmed'
    <3>1. /\ Watch'
          /\ \/ objects' = objects
             \/ /\ Range(ours') = Range(ours) \cup {Len(orders) + 1}
                /\ objects'[Len(orders) + 1] = Object(ask)
                /\ \A i \in Range(ours) : objects'[i] = objects[i]
      BY <1>2, SubmitSeen
    <3>2. DOMAIN objects = Range(ours) /\ DOMAIN objects' = Range(ours')
      BY <3>1 DEF Watch, ObjectsKnown
    <3> QED BY <2>3, <3>1, <3>2 DEF Untrimmed
  <2> QED BY <2>1, <2>4 DEF Whole
<1>3. CASE ShadowStartBar BY <1>1, <1>3 DEF ShadowStartBar, StartBar, venueVars, brokerVars
<1>4. CASE ShadowEndBar
  <2>1. account' = account /\ objects' = objects /\ portfolio' = [cash |-> cashRead, qty |-> account.qty]
    BY <1>4 DEF ShadowEndBar, ReadPositions, venueVars
  <2>2. portfolio'.qty = account.qty BY <2>1
  <2> QED BY <2>1, <2>2 DEF Whole, Untrimmed
<1>5. CASE UNCHANGED allVars BY <1>1, <1>5 DEF allVars, vars, venueVars, brokerVars
<1>6. CASE Alone
  <2>1. objects' = objects BY <1>6 DEF Alone
  <2>2. ASSUME NEW id \in DOMAIN orders, Venue(id) PROVE Whole'
    <3>1. portfolio' = portfolio BY <2>2, VenueShape
    <3>2. CASE Execute(id)
      <4>1. PICK n \in Nat \ {0} :
              /\ n % Grain = 0
              /\ \A s \in Symbols : account'.qty[s] = account.qty[s] + Bought(orders[id], s, n)
        BY <3>2, ExecuteShape
      <4>2. n % 2 = 0 BY <4>1 DEF WholeUnits
      <4>3. ASSUME NEW s \in Symbols PROVE account'.qty[s] % 2 = 0
        <5> DEFINE q == account.qty[s]
        <5>1. q \in Int /\ q % 2 = 0 BY DEF Whole, BrokerInv, Typed, Purse
        <5>2. Bought(orders[id], s, n) \in {0, n, -n} BY DEF Bought, Signed
        <5>3. account'.qty[s] \in {q + 0, q + n, q + -n} BY <4>1, <5>2
        <5> HIDE DEF q
        <5>4. (q + n) % 2 = 0 /\ (q + -n) % 2 = 0 /\ (q + 0) % 2 = 0 BY <4>2, <5>1
        <5> QED BY <5>3, <5>4
      <4> QED BY <3>1, <4>3 DEF Whole
    <3>3. CASE PublishPrice(id) \/ EndOrder(id)
      BY <3>1, <3>3 DEF PublishPrice, EndOrder, Whole
    <3> QED BY <2>2, <3>2, <3>3 DEF Venue
  <2>3. CASE Retry \/ Settle \/ ReadCash \/ BarFails
    BY <1>1, <2>1, <2>3 DEF Retry, Settle, ReadCash, BarFails, venueVars, brokerVars
  <2>4. CASE \E ask \in Asks : SubmitFails(ask)
    BY <1>1, <2>1, <2>4 DEF SubmitFails, Asking
  <2> QED BY <1>6, <2>1, <2>2, <2>3, <2>4 DEF Alone, Untrimmed
<1> QED BY <1>2, <1>3, <1>4, <1>5, <1>6 DEF ShadowedNext

LEMMA WholeInit == ASSUME WholeUnits PROVE ShadowedInit => Whole /\ Untrimmed
<1> SUFFICES ASSUME ShadowedInit PROVE Whole /\ Untrimmed
  OBVIOUS
<1>1. account.qty = Holdings /\ portfolio.qty = Holdings /\ objects = <<>>
  BY DEF ShadowedInit, Init
<1> QED BY <1>1, EmptyList DEF WholeUnits, Whole, Untrimmed

(* Where the venue's grid is the sizer's, nothing is ever trimmed and the    *)
(* shadow's account of the session is exact: the rounding oversell of        *)
(* ADR-0058 is crypto's.                                                     *)
THEOREM EquitiesAreFollowedExactly ==
  ASSUME WholeUnits
  PROVE  ShadowedSpec => [](AttributionIsExact /\ RowsTellTheOutcome)
<1>1. ShadowedInit => Whole /\ Untrimmed BY WholeInit
<1>2. BrokerInv /\ Watch /\ Whole /\ Untrimmed /\ [ShadowedNext]_allVars => (Whole /\ Untrimmed)'
  BY WholeStep
<1>3. ShadowedSpec => []Untrimmed BY <1>1, <1>2, ShadowHolds, PTL DEF ShadowedSpec
<1> QED BY <1>3, AnswersFindTheirRows, RowsAreTruthful, PTL

=============================================================================
