---------------------------- MODULE FoldTheorems ----------------------------
(***************************************************************************)
(* Lemmas about the data the models compute with: sums over finite sets    *)
(* (SumFunctionOnSet of the community modules) and selections of sequences. *)
(*                                                                         *)
(* Induction is over sets, which the provers can instantiate: a set of     *)
(* naturals that holds 0 and is closed under successor is Nat, and a set of *)
(* subsets of S that holds {} and grows by an element at a time has them    *)
(* all.                                                                     *)
(***************************************************************************)
EXTENDS Integers, Sequences, Selections, FiniteSetsExt, Functions, FiniteSetTheorems,
        WellFoundedInduction, TLAPS

(* Every set of naturals that is not empty has a least member.               *)
LEMMA LeastMember ==
  ASSUME NEW T \in SUBSET Nat, T # {}
  PROVE  \E m \in T : \A k \in T : m <= k
<1> DEFINE R == OpToRel(<, Nat)
<1>1. IsWellFoundedOn(R, Nat) BY NatLessThanWellFounded
<1>2. \A x, y \in Nat : <<y, x>> \in R <=> y < x BY DEF OpToRel
<1> HIDE DEF R
<1>3. PICK m \in T : \A k \in T : <<k, m>> \notin R
  BY <1>1, WFMin
<1>4. \A k \in T : ~(k < m) BY <1>2, <1>3
<1> QED BY <1>4

(* Induction over the naturals, of a set of them.                            *)
LEMMA SetOfNaturals ==
  ASSUME NEW P \in SUBSET Nat, 0 \in P, \A n \in P : n + 1 \in P
  PROVE  P = Nat
<1> SUFFICES ASSUME P # Nat PROVE FALSE OBVIOUS
<1> DEFINE T == Nat \ P
<1>1. T \in SUBSET Nat /\ T # {} OBVIOUS
<1> HIDE DEF T
<1>2. PICK m \in T : \A k \in T : m <= k BY <1>1, LeastMember
<1>3. m \in Nat /\ m \notin P BY <1>2 DEF T
<1>4. m - 1 \in Nat BY <1>3
<1>5. m - 1 \notin T
  <2>1. ~(m <= m - 1) BY <1>3
  <2> QED BY <1>2, <2>1
<1>6. m - 1 \in P BY <1>4, <1>5 DEF T
<1> QED BY <1>3, <1>4, <1>6

(* Induction over the subsets of a finite set, of a set of them.             *)
LEMMA SetOfSubsets ==
  ASSUME NEW S, IsFiniteSet(S), NEW P \in SUBSET (SUBSET S), {} \in P,
         \A T \in SUBSET S : T # {} /\ (\A x \in T : T \ {x} \in P) => T \in P
  PROVE  P = SUBSET S
<1> DEFINE Q == {n \in Nat : \A T \in SUBSET S : Cardinality(T) = n => T \in P}
<1>1. \A T \in SUBSET S : IsFiniteSet(T) /\ Cardinality(T) \in Nat
  BY FS_Subset, FS_CardinalityType
<1>2. 0 \in Q
  BY <1>1, FS_EmptySet
<1>3. ASSUME NEW n \in Q PROVE n + 1 \in Q
  <2>1. ASSUME NEW T \in SUBSET S, Cardinality(T) = n + 1 PROVE T \in P
    <3>1. IsFiniteSet(T) /\ n \in Nat BY <1>1
    <3>2. Cardinality(T) # 0 BY <2>1, <3>1
    <3>3. T # {} BY <3>2, FS_EmptySet
    <3>4. ASSUME NEW x \in T PROVE T \ {x} \in P
      <4>1. Cardinality(T \ {x}) = Cardinality(T) - 1 BY <3>1, FS_RemoveElement
      <4>2. Cardinality(T \ {x}) = n BY <2>1, <3>1, <4>1
      <4> QED BY <4>2
    <3> QED BY <3>3, <3>4
  <2> QED BY <2>1
<1> HIDE DEF Q
<1>4. Q = Nat
  <2>1. Q \in SUBSET Nat BY DEF Q
  <2> QED BY <1>2, <1>3, <2>1, SetOfNaturals
<1>5. \A T \in SUBSET S : T \in P BY <1>1, <1>4 DEF Q
<1> QED BY <1>5

(* A recursion over the subsets of a finite set, one chosen element at a     *)
(* time, has a solution.                                                     *)
Recursion(S, base, c, F, g) ==
  g = [T \in SUBSET S |-> IF T = {} THEN base ELSE F[<<c[T], g[T \ {c[T]}]>>]]

LEMMA RecursionExists ==
  ASSUME NEW S, IsFiniteSet(S), NEW V, NEW base \in V, NEW c, NEW F \in [S \X V -> V],
         \A T \in SUBSET S : T # {} => c[T] \in T
  PROVE  \E g \in [SUBSET S -> V] : Recursion(S, base, c, F, g)
<1> DEFINE Pairs == (SUBSET S) \X V
           Closed(R) ==
             /\ <<{}, base>> \in R
             /\ \A T \in SUBSET S, v \in V :
                  T # {} /\ <<T \ {c[T]}, v>> \in R => <<T, F[<<c[T], v>>]>> \in R
           G == {p \in Pairs : \A R \in SUBSET Pairs : Closed(R) => p \in R}
           P == {T \in SUBSET S : \E v \in V : <<T, v>> \in G /\ \A w \in V : <<T, w>> \in G => w = v}
<1>1. \A T \in SUBSET S, v \in V : T # {} => F[<<c[T], v>>] \in V
  <2>1. ASSUME NEW T \in SUBSET S, NEW v \in V, T # {} PROVE F[<<c[T], v>>] \in V
    <3>1. <<c[T], v>> \in S \X V BY <2>1
    <3> QED BY <3>1
  <2> QED BY <2>1
<1>2. Closed(G)
  <2>1. <<{}, base>> \in G OBVIOUS
  <2>2. ASSUME NEW T \in SUBSET S, NEW v \in V, T # {}, <<T \ {c[T]}, v>> \in G
        PROVE  <<T, F[<<c[T], v>>]>> \in G
    <3>1. <<T, F[<<c[T], v>>]>> \in Pairs BY <1>1, <2>2
    <3>2. ASSUME NEW R \in SUBSET Pairs, Closed(R) PROVE <<T, F[<<c[T], v>>]>> \in R
      BY <2>2, <3>2
    <3> QED BY <3>1, <3>2
  <2> QED BY <2>1, <2>2
<1>3. ASSUME NEW R \in SUBSET Pairs, Closed(R) PROVE G \subseteq R BY <1>3
<1>4. {} \in P
  <2>1. ASSUME NEW w \in V, <<{}, w>> \in G, w # base PROVE FALSE
    <3> DEFINE R == Pairs \ {<<{}, w>>}
    <3>1. <<{}, base>> \in R BY <2>1
    <3>2. ASSUME NEW T \in SUBSET S, NEW v \in V, T # {} PROVE <<T, F[<<c[T], v>>]>> \in R
      BY <1>1, <3>2
    <3>3. Closed(R) BY <3>1, <3>2
    <3>4. <<{}, w>> \in R BY <1>3, <2>1, <3>3
    <3> QED BY <3>4
  <2>2. <<{}, base>> \in G BY <1>2
  <2> QED BY <2>1, <2>2
<1>5. ASSUME NEW T \in SUBSET S, T # {}, \A x \in T : T \ {x} \in P PROVE T \in P
  <2>1. T \ {c[T]} \in P BY <1>5
  <2>2. PICK v \in V : <<T \ {c[T]}, v>> \in G /\ \A w \in V : <<T \ {c[T]}, w>> \in G => w = v
    BY <2>1
  <2>3. F[<<c[T], v>>] \in V /\ <<T, F[<<c[T], v>>]>> \in G BY <1>1, <1>2, <1>5, <2>2
  <2>4. ASSUME NEW w \in V, <<T, w>> \in G, w # F[<<c[T], v>>] PROVE FALSE
    <3> DEFINE R == G \ {<<T, w>>}
    <3>1. <<{}, base>> \in R BY <1>2, <1>5
    <3>2. ASSUME NEW U \in SUBSET S, NEW u \in V, U # {}, <<U \ {c[U]}, u>> \in R
          PROVE  <<U, F[<<c[U], u>>]>> \in R
      <4>1. <<U, F[<<c[U], u>>]>> \in G BY <1>2, <3>2
      <4>2. CASE U = T BY <2>2, <2>4, <3>2, <4>1, <4>2
      <4>3. CASE U # T BY <4>1, <4>3
      <4> QED BY <4>2, <4>3
    <3>3. Closed(R) /\ R \in SUBSET Pairs BY <3>1, <3>2
    <3>4. <<T, w>> \in R BY <1>3, <2>4, <3>3
    <3> QED BY <3>4
  <2> QED BY <2>3, <2>4
<1>6. P \in SUBSET (SUBSET S) OBVIOUS
<1> HIDE DEF P, G
<1>7. \A T \in SUBSET S : T # {} /\ (\A x \in T : T \ {x} \in P) => T \in P
  BY <1>5
<1>8. P = SUBSET S BY <1>4, <1>6, <1>7, SetOfSubsets
<1> DEFINE g == [T \in SUBSET S |-> CHOOSE v \in V : <<T, v>> \in G]
<1>9. ASSUME NEW T \in SUBSET S
      PROVE  /\ g[T] \in V /\ <<T, g[T]>> \in G
             /\ \A w \in V : <<T, w>> \in G => w = g[T]
  <2>1. PICK v \in V : <<T, v>> \in G /\ \A w \in V : <<T, w>> \in G => w = v
    BY <1>8 DEF P
  <2> QED BY <2>1
<1> HIDE DEF g
<1>10. g[{}] = base BY <1>2, <1>9
<1>11. ASSUME NEW T \in SUBSET S, T # {} PROVE g[T] = F[<<c[T], g[T \ {c[T]}]>>]
  <2>1. T \ {c[T]} \in SUBSET S OBVIOUS
  <2>2. g[T \ {c[T]}] \in V /\ <<T \ {c[T]}, g[T \ {c[T]}]>> \in G BY <1>9, <2>1
  <2>3. <<T, F[<<c[T], g[T \ {c[T]}]>>]>> \in G BY <1>2, <1>11, <2>2
  <2>4. F[<<c[T], g[T \ {c[T]}]>>] \in V BY <1>1, <1>11, <2>2
  <2> QED BY <1>9, <2>3, <2>4
<1>12. g \in [SUBSET S -> V] BY <1>9 DEF g
<1>13. \A T \in SUBSET S : g[T] = IF T = {} THEN base ELSE F[<<c[T], g[T \ {c[T]}]>>]
  BY <1>10, <1>11
<1>14. g = [T \in SUBSET S |-> g[T]] BY <1>12
<1>15. Recursion(S, base, c, F, g) BY <1>13, <1>14 DEF Recursion
<1> QED BY <1>12, <1>15

(* Two such recursions agree on the subsets they share.                      *)
LEMMA RecursionUnique ==
  ASSUME NEW S1, NEW S2, NEW base, NEW c, NEW F, NEW g1, NEW g2,
         Recursion(S1, base, c, F, g1), Recursion(S2, base, c, F, g2),
         NEW T, T \subseteq S1 \cap S2, IsFiniteSet(T),
         \A U \in SUBSET T : U # {} => c[U] \in U
  PROVE  g1[T] = g2[T]
<1> DEFINE P == {U \in SUBSET T : g1[U] = g2[U]}
<1>1. {} \in P BY DEF Recursion
<1>2. ASSUME NEW U \in SUBSET T, U # {}, \A x \in U : U \ {x} \in P PROVE U \in P
  <2>1. c[U] \in U BY <1>2
  <2>2. g1[U \ {c[U]}] = g2[U \ {c[U]}] BY <1>2, <2>1
  <2>3. U \in SUBSET S1 /\ U \in SUBSET S2 OBVIOUS
  <2>4. g1[U] = F[<<c[U], g1[U \ {c[U]}]>>] BY <1>2, <2>3 DEF Recursion
  <2>5. g2[U] = F[<<c[U], g2[U \ {c[U]}]>>] BY <1>2, <2>3 DEF Recursion
  <2> QED BY <2>2, <2>4, <2>5
<1>3. P \in SUBSET (SUBSET T) OBVIOUS
<1> HIDE DEF P
<1>4. \A U \in SUBSET T : U # {} /\ (\A x \in U : U \ {x} \in P) => U \in P BY <1>2
<1>5. P = SUBSET T BY <1>1, <1>3, <1>4, SetOfSubsets
<1> QED BY <1>5 DEF P

-----------------------------------------------------------------------------
(* Sums of integers over finite sets *)

SumStep(f, S, g) ==
  g = [T \in SUBSET S |->
         IF T = {} THEN 0 ELSE f[CHOOSE x \in T : TRUE] + g[T \ {CHOOSE x \in T : TRUE}]]

SumChoice(D) == [T \in SUBSET D |-> CHOOSE x \in T : TRUE]

Adder(f, D) == [p \in D \X Int |-> f[p[1]] + p[2]]

LEMMA SumDef == ASSUME NEW f, NEW S PROVE SumFunctionOnSet(f, S) = (CHOOSE g : SumStep(f, S, g))[S]
BY DEF SumFunctionOnSet, FoldFunctionOnSet, MapThenFoldSet, SumStep

(* A sum is a recursion whose step adds a chosen element.                    *)
LEMMA SumIsRecursion ==
  ASSUME NEW S, NEW D, S \subseteq D, NEW f, \A x \in S : f[x] \in Int, NEW g, SumStep(f, S, g),
         g \in [SUBSET S -> Int]
  PROVE  Recursion(S, 0, SumChoice(D), Adder(f, D), g)
<1> DEFINE c == SumChoice(D)
           F == Adder(f, D)
<1> USE DEF SumChoice, Adder
<1>1. ASSUME NEW T \in SUBSET S, T # {} PROVE g[T] = F[<<c[T], g[T \ {c[T]}]>>]
  <2>1. c[T] = (CHOOSE x \in T : TRUE) /\ c[T] \in T BY <1>1
  <2>2. g[T] = f[c[T]] + g[T \ {c[T]}] BY <1>1, <2>1 DEF SumStep
  <2>3. g[T \ {c[T]}] \in Int BY <1>1
  <2>4. <<c[T], g[T \ {c[T]}]>> \in D \X Int BY <1>1, <2>1, <2>3
  <2> HIDE DEF c
  <2> QED BY <2>2, <2>4
<1>2. g[{}] = 0 BY DEF SumStep
<1> HIDE DEF c, F
<1>3. \A T \in SUBSET S : g[T] = IF T = {} THEN 0 ELSE F[<<c[T], g[T \ {c[T]}]>>]
  BY <1>1, <1>2
<1>4. g = [T \in SUBSET S |-> g[T]] OBVIOUS
<1>5. Recursion(S, 0, c, F, g) BY <1>3, <1>4 DEF Recursion
<1> QED BY <1>5 DEF c, F

LEMMA SumExists ==
  ASSUME NEW S, IsFiniteSet(S), NEW f, \A x \in S : f[x] \in Int
  PROVE  \E g \in [SUBSET S -> Int] : SumStep(f, S, g) /\ SumFunctionOnSet(f, S) = g[S]
<1> DEFINE c == [T \in SUBSET S |-> CHOOSE x \in T : TRUE]
           F == [p \in S \X Int |-> f[p[1]] + p[2]]
           V == Int
<1>1. F \in [S \X V -> V] OBVIOUS
<1>2. \A T \in SUBSET S : T # {} => c[T] \in T OBVIOUS
<1>3. 0 \in V OBVIOUS
<1> HIDE DEF c, F, V
<1>4. PICK h \in [SUBSET S -> V] : Recursion(S, 0, c, F, h)
  BY <1>1, <1>2, <1>3, RecursionExists
<1>5. h \in [SUBSET S -> Int] BY <1>4 DEF V
<1>6. ASSUME NEW T \in SUBSET S, T # {} PROVE h[T] = f[c[T]] + h[T \ {c[T]}]
  <2>1. h[T] = F[<<c[T], h[T \ {c[T]}]>>] BY <1>4, <1>6 DEF Recursion
  <2>2. <<c[T], h[T \ {c[T]}]>> \in S \X Int BY <1>2, <1>5, <1>6
  <2> QED BY <2>1, <2>2 DEF F
<1>7. h[{}] = 0 BY <1>4 DEF Recursion
<1>8. \A T \in SUBSET S : h[T] = IF T = {} THEN 0 ELSE
        f[CHOOSE x \in T : TRUE] + h[T \ {CHOOSE x \in T : TRUE}]
  BY <1>6, <1>7 DEF c
<1>9. h = [T \in SUBSET S |-> h[T]] BY <1>5
<1>10. SumStep(f, S, h) BY <1>8, <1>9 DEF SumStep
<1> DEFINE g == CHOOSE k : SumStep(f, S, k)
<1>11. SumStep(f, S, g) BY <1>10
<1>12. SumFunctionOnSet(f, S) = g[S] BY SumDef
<1> HIDE DEF g
<1>13. g = h
  <2> DEFINE P == {T \in SUBSET S : g[T] = h[T]}
  <2>1. {} \in P BY <1>7, <1>11 DEF SumStep
  <2>2. ASSUME NEW T \in SUBSET S, T # {}, \A x \in T : T \ {x} \in P PROVE T \in P
    <3>1. c[T] \in T /\ c[T] = CHOOSE x \in T : TRUE BY <1>2, <2>2 DEF c
    <3>2. g[T \ {c[T]}] = h[T \ {c[T]}] BY <2>2, <3>1
    <3>3. g[T] = f[c[T]] + g[T \ {c[T]}] BY <1>11, <2>2, <3>1 DEF SumStep
    <3> QED BY <1>6, <2>2, <3>2, <3>3
  <2>3. P \in SUBSET (SUBSET S) OBVIOUS
  <2> HIDE DEF P
  <2>4. \A T \in SUBSET S : T # {} /\ (\A x \in T : T \ {x} \in P) => T \in P BY <2>2
  <2>5. P = SUBSET S BY <2>1, <2>3, <2>4, SetOfSubsets
  <2>6. \A T \in SUBSET S : g[T] = h[T] BY <2>5 DEF P
  <2>7. g = [T \in SUBSET S |-> g[T]] BY <1>11 DEF SumStep
  <2> QED BY <1>9, <2>6, <2>7
<1> QED BY <1>5, <1>11, <1>12, <1>13

LEMMA SumType ==
  ASSUME NEW S, IsFiniteSet(S), NEW f, \A x \in S : f[x] \in Int
  PROVE  SumFunctionOnSet(f, S) \in Int
<1>1. PICK g \in [SUBSET S -> Int] : SumStep(f, S, g) /\ SumFunctionOnSet(f, S) = g[S] BY SumExists
<1> QED BY <1>1

LEMMA SumEmpty == ASSUME NEW f PROVE SumFunctionOnSet(f, {}) = 0
<1>1. IsFiniteSet({}) BY FS_EmptySet
<1>2. \A x \in {} : f[x] \in Int OBVIOUS
<1>3. PICK g \in [SUBSET {} -> Int] : SumStep(f, {}, g) /\ SumFunctionOnSet(f, {}) = g[{}]
  BY <1>1, <1>2, SumExists
<1> QED BY <1>3 DEF SumStep

(* Taking the chosen element off.                                            *)
LEMMA SumUnfold ==
  ASSUME NEW S, IsFiniteSet(S), NEW f, \A x \in S : f[x] \in Int, S # {}
  PROVE  \E x \in S : SumFunctionOnSet(f, S) = f[x] + SumFunctionOnSet(f, S \ {x})
<1> DEFINE x == CHOOSE e \in S : TRUE
           R == S \ {x}
<1>1. x \in S /\ R \subseteq S /\ IsFiniteSet(R) BY FS_Subset
<1>2. PICK g \in [SUBSET S -> Int] : SumStep(f, S, g) /\ SumFunctionOnSet(f, S) = g[S] BY SumExists
<1>3. PICK h \in [SUBSET R -> Int] : SumStep(f, R, h) /\ SumFunctionOnSet(f, R) = h[R] BY <1>1, SumExists
<1>4. g[S] = f[x] + g[R] BY <1>2 DEF SumStep
<1> HIDE DEF R
<1>5. Recursion(S, 0, SumChoice(S), Adder(f, S), g)
  <2>1. S \subseteq S OBVIOUS
  <2> QED BY <1>2, <2>1, SumIsRecursion
<1>6. Recursion(R, 0, SumChoice(S), Adder(f, S), h)
  <2>1. \A e \in R : f[e] \in Int BY <1>1
  <2> QED BY <1>1, <1>3, <2>1, SumIsRecursion
<1>7. \A U \in SUBSET R : U # {} => SumChoice(S)[U] \in U BY <1>1 DEF SumChoice
<1>8. R \subseteq S \cap R BY <1>1
<1>9. g[R] = h[R] BY <1>1, <1>5, <1>6, <1>7, <1>8, RecursionUnique
<1> QED BY <1>1, <1>2, <1>3, <1>4, <1>9 DEF R

(* Taking any element off.                                                   *)
LEMMA SumRemove ==
  ASSUME NEW S, IsFiniteSet(S), NEW f, \A x \in S : f[x] \in Int
  PROVE  \A x \in S : SumFunctionOnSet(f, S) = f[x] + SumFunctionOnSet(f, S \ {x})
<1> DEFINE P == {T \in SUBSET S : \A x \in T : SumFunctionOnSet(f, T) = f[x] + SumFunctionOnSet(f, T \ {x})}
<1>1. {} \in P OBVIOUS
<1>2. ASSUME NEW T \in SUBSET S, T # {}, \A x \in T : T \ {x} \in P PROVE T \in P
  <2>1. IsFiniteSet(T) BY FS_Subset
  <2>2. PICK y \in T : SumFunctionOnSet(f, T) = f[y] + SumFunctionOnSet(f, T \ {y}) BY <1>2, <2>1, SumUnfold
  <2>3. ASSUME NEW x \in T, x # y PROVE SumFunctionOnSet(f, T) = f[x] + SumFunctionOnSet(f, T \ {x})
    <3>1. SumFunctionOnSet(f, T \ {y}) = f[x] + SumFunctionOnSet(f, (T \ {y}) \ {x}) BY <1>2, <2>3
    <3>2. SumFunctionOnSet(f, T \ {x}) = f[y] + SumFunctionOnSet(f, (T \ {x}) \ {y}) BY <1>2, <2>3
    <3>3. (T \ {y}) \ {x} = (T \ {x}) \ {y} OBVIOUS
    <3> DEFINE rest == SumFunctionOnSet(f, (T \ {x}) \ {y})
    <3>4. IsFiniteSet((T \ {x}) \ {y}) BY <2>1, FS_Subset
    <3>5. rest \in Int BY <3>4, SumType
    <3>6. f[x] \in Int /\ f[y] \in Int OBVIOUS
    <3>7. SumFunctionOnSet(f, T) = f[y] + (f[x] + rest) BY <2>2, <3>1, <3>3
    <3>8. SumFunctionOnSet(f, T \ {x}) = f[y] + rest BY <3>2
    <3> HIDE DEF rest
    <3> QED BY <3>5, <3>6, <3>7, <3>8
  <2> QED BY <2>2, <2>3
<1>3. P \in SUBSET (SUBSET S) OBVIOUS
<1>4. \A T \in SUBSET S : T # {} /\ (\A x \in T : T \ {x} \in P) => T \in P BY <1>2
<1> HIDE DEF P
<1>5. P = SUBSET S BY <1>1, <1>3, <1>4, SetOfSubsets
<1> QED BY <1>5 DEF P

LEMMA SumAdd ==
  ASSUME NEW S, IsFiniteSet(S), NEW y, y \notin S, NEW f, \A x \in S \cup {y} : f[x] \in Int
  PROVE  SumFunctionOnSet(f, S \cup {y}) = SumFunctionOnSet(f, S) + f[y]
<1> DEFINE U == S \cup {y}
<1>1. IsFiniteSet(U) BY FS_AddElement
<1>2. SumFunctionOnSet(f, U) = f[y] + SumFunctionOnSet(f, U \ {y}) BY <1>1, SumRemove
<1>3. SumFunctionOnSet(f, U \ {y}) = SumFunctionOnSet(f, S)
  <2>1. U \ {y} = S OBVIOUS
  <2> QED BY <2>1
<1>4. SumFunctionOnSet(f, S) \in Int /\ f[y] \in Int BY SumType
<1> HIDE DEF U
<1>5. SumFunctionOnSet(f, U) = SumFunctionOnSet(f, S) + f[y] BY <1>2, <1>3, <1>4
<1> QED BY <1>5 DEF U

(* The sum looks at the set only.                                            *)
LEMMA SumSame ==
  ASSUME NEW S, IsFiniteSet(S), NEW f, NEW g, \A x \in S : f[x] \in Int /\ g[x] = f[x]
  PROVE  SumFunctionOnSet(g, S) = SumFunctionOnSet(f, S)
<1> DEFINE P == {T \in SUBSET S : SumFunctionOnSet(g, T) = SumFunctionOnSet(f, T)}
<1>1. {} \in P BY SumEmpty
<1>2. ASSUME NEW T \in SUBSET S, T # {}, \A x \in T : T \ {x} \in P PROVE T \in P
  <2>1. IsFiniteSet(T) BY FS_Subset
  <2>2. PICK x \in T : TRUE BY <1>2
  <2>3. SumFunctionOnSet(g, T \ {x}) = SumFunctionOnSet(f, T \ {x}) BY <1>2
  <2>4. SumFunctionOnSet(f, T) = f[x] + SumFunctionOnSet(f, T \ {x}) BY <2>1, SumRemove
  <2>5. SumFunctionOnSet(g, T) = g[x] + SumFunctionOnSet(g, T \ {x}) BY <2>1, SumRemove
  <2> QED BY <2>3, <2>4, <2>5
<1>3. P \in SUBSET (SUBSET S) OBVIOUS
<1>4. \A T \in SUBSET S : T # {} /\ (\A x \in T : T \ {x} \in P) => T \in P BY <1>2
<1> HIDE DEF P
<1>5. P = SUBSET S BY <1>1, <1>3, <1>4, SetOfSubsets
<1> QED BY <1>5 DEF P

(* One value changes.                                                        *)
LEMMA SumChange ==
  ASSUME NEW S, IsFiniteSet(S), NEW y \in S, NEW f, NEW g, \A x \in S : f[x] \in Int,
         g[y] \in Int, \A x \in S \ {y} : g[x] = f[x]
  PROVE  SumFunctionOnSet(g, S) = SumFunctionOnSet(f, S) - f[y] + g[y]
<1> DEFINE R == S \ {y}
<1>1. IsFiniteSet(R) BY FS_Subset
<1>2. \A x \in S : g[x] \in Int OBVIOUS
<1>3. SumFunctionOnSet(f, S) = f[y] + SumFunctionOnSet(f, R) BY SumRemove
<1>4. SumFunctionOnSet(g, S) = g[y] + SumFunctionOnSet(g, R) BY <1>2, SumRemove
<1>5. \A x \in R : f[x] \in Int /\ g[x] = f[x] OBVIOUS
<1> HIDE DEF R
<1>6. SumFunctionOnSet(g, R) = SumFunctionOnSet(f, R) BY <1>1, <1>5, SumSame
<1>7. SumFunctionOnSet(f, R) \in Int BY <1>1, <1>5, SumType
<1> QED BY <1>3, <1>4, <1>6, <1>7

LEMMA SumNat ==
  ASSUME NEW S, IsFiniteSet(S), NEW f, \A x \in S : f[x] \in Nat
  PROVE  SumFunctionOnSet(f, S) \in Nat
<1> DEFINE P == {T \in SUBSET S : SumFunctionOnSet(f, T) \in Nat}
<1>1. {} \in P BY SumEmpty
<1>2. ASSUME NEW T \in SUBSET S, T # {}, \A x \in T : T \ {x} \in P PROVE T \in P
  <2>1. IsFiniteSet(T) BY FS_Subset
  <2>2. PICK x \in T : TRUE BY <1>2
  <2>3. SumFunctionOnSet(f, T \ {x}) \in Nat /\ f[x] \in Nat BY <1>2
  <2>4. SumFunctionOnSet(f, T) = f[x] + SumFunctionOnSet(f, T \ {x}) BY <2>1, SumRemove
  <2> QED BY <2>3, <2>4
<1>3. P \in SUBSET (SUBSET S) OBVIOUS
<1>4. \A T \in SUBSET S : T # {} /\ (\A x \in T : T \ {x} \in P) => T \in P BY <1>2
<1> HIDE DEF P
<1>5. P = SUBSET S BY <1>1, <1>3, <1>4, SetOfSubsets
<1> QED BY <1>5 DEF P

(* Sums of two sets without a common member.                                 *)
LEMMA SumUnion ==
  ASSUME NEW S, IsFiniteSet(S), NEW D, IsFiniteSet(D), S \cap D = {},
         NEW f, \A x \in S \cup D : f[x] \in Int
  PROVE  SumFunctionOnSet(f, S \cup D) = SumFunctionOnSet(f, S) + SumFunctionOnSet(f, D)
<1> DEFINE P == {T \in SUBSET S :
                   SumFunctionOnSet(f, T \cup D) = SumFunctionOnSet(f, T) + SumFunctionOnSet(f, D)}
<1>1. {} \in P
  <2>1. SumFunctionOnSet(f, D) \in Int BY SumType
  <2>2. {} \cup D = D OBVIOUS
  <2> QED BY <2>1, <2>2, SumEmpty
<1>2. ASSUME NEW T \in SUBSET S, T # {}, \A x \in T : T \ {x} \in P PROVE T \in P
  <2>1. IsFiniteSet(T) BY FS_Subset
  <2>2. PICK x \in T : TRUE BY <1>2
  <2>3. (T \ {x}) \cup D = (T \cup D) \ {x} OBVIOUS
  <2>4. SumFunctionOnSet(f, (T \cup D) \ {x})
          = SumFunctionOnSet(f, T \ {x}) + SumFunctionOnSet(f, D) BY <1>2, <2>3
  <2>5. SumFunctionOnSet(f, T) = f[x] + SumFunctionOnSet(f, T \ {x}) BY <2>1, SumRemove
  <2>6. IsFiniteSet(T \cup D) BY <2>1, FS_Union
  <2>7. \A e \in T \cup D : f[e] \in Int OBVIOUS
  <2>8. SumFunctionOnSet(f, T \cup D) = f[x] + SumFunctionOnSet(f, (T \cup D) \ {x})
    BY <2>6, <2>7, SumRemove
  <2>9. IsFiniteSet(T \ {x}) BY <2>1, FS_Subset
  <2>10. /\ SumFunctionOnSet(f, T \ {x}) \in Int /\ SumFunctionOnSet(f, D) \in Int
         /\ f[x] \in Int
    BY <2>9, SumType
  <2> QED BY <2>4, <2>5, <2>8, <2>10
<1>3. P \in SUBSET (SUBSET S) OBVIOUS
<1>4. \A T \in SUBSET S : T # {} /\ (\A x \in T : T \ {x} \in P) => T \in P BY <1>2
<1> HIDE DEF P
<1>5. P = SUBSET S BY <1>1, <1>3, <1>4, SetOfSubsets
<1> QED BY <1>5 DEF P

LEMMA SumZero ==
  ASSUME NEW S, IsFiniteSet(S), NEW f, \A x \in S : f[x] = 0
  PROVE  SumFunctionOnSet(f, S) = 0
<1> DEFINE P == {T \in SUBSET S : SumFunctionOnSet(f, T) = 0}
<1>1. {} \in P BY SumEmpty
<1>2. ASSUME NEW T \in SUBSET S, T # {}, \A x \in T : T \ {x} \in P PROVE T \in P
  <2>1. IsFiniteSet(T) BY FS_Subset
  <2>2. PICK x \in T : TRUE BY <1>2
  <2>3. SumFunctionOnSet(f, T \ {x}) = 0 /\ f[x] = 0 BY <1>2
  <2>4. \A e \in T : f[e] \in Int OBVIOUS
  <2>5. SumFunctionOnSet(f, T) = f[x] + SumFunctionOnSet(f, T \ {x}) BY <2>1, <2>4, SumRemove
  <2> QED BY <2>3, <2>5
<1>3. P \in SUBSET (SUBSET S) OBVIOUS
<1>4. \A T \in SUBSET S : T # {} /\ (\A x \in T : T \ {x} \in P) => T \in P BY <1>2
<1> HIDE DEF P
<1>5. P = SUBSET S BY <1>1, <1>3, <1>4, SetOfSubsets
<1> QED BY <1>5 DEF P

(* What is zero can be left out.                                             *)
LEMMA SumSupport ==
  ASSUME NEW S, IsFiniteSet(S), NEW T \in SUBSET S, NEW f, NEW g, \A x \in S : f[x] \in Int,
         \A x \in T : g[x] = f[x], \A x \in S \ T : f[x] = 0
  PROVE  SumFunctionOnSet(g, T) = SumFunctionOnSet(f, S)
<1> DEFINE R == S \ T
<1>1. IsFiniteSet(T) /\ IsFiniteSet(R) BY FS_Subset
<1>2. T \cap R = {} /\ T \cup R = S OBVIOUS
<1>3. (\A x \in T : f[x] \in Int) /\ (\A x \in R : f[x] = 0) /\ (\A x \in T \cup R : f[x] \in Int)
  OBVIOUS
<1> HIDE DEF R
<1>4. SumFunctionOnSet(g, T) = SumFunctionOnSet(f, T) BY <1>1, <1>3, SumSame
<1>5. SumFunctionOnSet(f, R) = 0 BY <1>1, <1>3, SumZero
<1>6. SumFunctionOnSet(f, T \cup R) = SumFunctionOnSet(f, T) + SumFunctionOnSet(f, R)
  BY <1>1, <1>2, <1>3, SumUnion
<1>7. SumFunctionOnSet(f, T) \in Int BY <1>1, <1>3, SumType
<1>8. SumFunctionOnSet(f, T) + 0 = SumFunctionOnSet(f, T) BY <1>7
<1> QED BY <1>2, <1>4, <1>5, <1>6, <1>8

(* What is not negative only adds.                                           *)
LEMMA SumSubset ==
  ASSUME NEW S, IsFiniteSet(S), NEW T \in SUBSET S, NEW f, \A x \in S : f[x] \in Nat
  PROVE  SumFunctionOnSet(f, T) <= SumFunctionOnSet(f, S)
<1> DEFINE R == S \ T
<1>1. IsFiniteSet(T) /\ IsFiniteSet(R) BY FS_Subset
<1>2. T \cap R = {} /\ T \cup R = S OBVIOUS
<1>3. (\A x \in T : f[x] \in Nat) /\ (\A x \in R : f[x] \in Nat) /\ (\A x \in T \cup R : f[x] \in Int)
  OBVIOUS
<1> HIDE DEF R
<1>4. SumFunctionOnSet(f, T \cup R) = SumFunctionOnSet(f, T) + SumFunctionOnSet(f, R)
  BY <1>1, <1>2, <1>3, SumUnion
<1>5. SumFunctionOnSet(f, T) \in Nat /\ SumFunctionOnSet(f, R) \in Nat BY <1>1, <1>3, SumNat
<1>6. SumFunctionOnSet(f, S) = SumFunctionOnSet(f, T) + SumFunctionOnSet(f, R) BY <1>2, <1>4
<1> QED BY <1>5, <1>6

(* h gives the members of S other names, which are E.                        *)
Renames(h, S, E) ==
  /\ \A x, y \in S : h[x] = h[y] => x = y
  /\ \A e : e \in E <=> \E x \in S : e = h[x]

(* Counting the same things by other names.                                  *)
LEMMA SumReindex ==
  ASSUME NEW S, IsFiniteSet(S), NEW h, NEW E, Renames(h, S, E), NEW f, NEW g,
         \A x \in S : f[x] \in Int /\ g[h[x]] = f[x]
  PROVE  SumFunctionOnSet(g, E) = SumFunctionOnSet(f, S)
<1> DEFINE Image(T) == {h[x] : x \in T}
           P == {T \in SUBSET S : /\ IsFiniteSet(Image(T))
                                  /\ SumFunctionOnSet(g, Image(T)) = SumFunctionOnSet(f, T)}
<1>1. {} \in P
  <2>1. Image({}) = {} OBVIOUS
  <2> HIDE DEF Image
  <2> QED BY <2>1, SumEmpty, FS_EmptySet
<1>2. ASSUME NEW T \in SUBSET S, T # {}, \A x \in T : T \ {x} \in P PROVE T \in P
  <2>1. IsFiniteSet(T) BY FS_Subset
  <2>2. PICK x \in T : TRUE BY <1>2
  <2> DEFINE R == T \ {x}
             D == Image(R)
  <2>3. SumFunctionOnSet(g, D) = SumFunctionOnSet(f, R) /\ IsFiniteSet(D) BY <1>2
  <2>4. IsFiniteSet(R) BY <2>1, FS_Subset
  <2>5. IsFiniteSet(D \cup {h[x]}) BY <2>3, FS_AddElement
  <2> DEFINE y == h[x]
  <2>6. Image(T) = D \cup {y} /\ y \notin D BY DEF Renames
  <2>7. \A e \in D \cup {y} : g[e] \in Int OBVIOUS
  <2>8. \A e \in T : f[e] \in Int OBVIOUS
  <2>12. f[x] \in Int /\ g[y] = f[x] OBVIOUS
  <2> HIDE DEF D, R, y
  <2>9. SumFunctionOnSet(g, D \cup {y}) = SumFunctionOnSet(g, D) + g[y]
    BY <2>3, <2>6, <2>7, SumAdd
  <2>10. SumFunctionOnSet(f, T) = f[x] + SumFunctionOnSet(f, R) BY <2>1, <2>8, SumRemove DEF R
  <2>11. SumFunctionOnSet(f, R) \in Int BY <2>4, <2>8, SumType DEF R
  <2> HIDE DEF Image
  <2>13. SumFunctionOnSet(g, Image(T)) = SumFunctionOnSet(f, T)
    BY <2>3, <2>6, <2>9, <2>10, <2>11, <2>12
  <2> QED BY <2>5, <2>6, <2>13 DEF y
<1>3. P \in SUBSET (SUBSET S) OBVIOUS
<1>4. \A T \in SUBSET S : T # {} /\ (\A x \in T : T \ {x} \in P) => T \in P BY <1>2
<1> HIDE DEF P
<1>5. P = SUBSET S BY <1>1, <1>3, <1>4, SetOfSubsets
<1>6. Image(S) = E BY DEF Renames
<1>7. SumFunctionOnSet(g, Image(S)) = SumFunctionOnSet(f, S) BY <1>5 DEF P
<1> QED BY <1>6, <1>7

(* The sum over a list grown by new entries, which stand for the members of  *)
(* N: k gives the places J of the entries, h the members they stand for.     *)
LEMMA SumGrown ==
  ASSUME NEW S, IsFiniteSet(S), NEW J, IsFiniteSet(J), NEW k, NEW E, Renames(k, J, E),
         IsFiniteSet(E), S \cap E = {}, NEW h, NEW N, Renames(h, J, N),
         NEW b, NEW c, NEW A, \A i \in S : b[i] \in Int /\ c[i] = b[i],
         \A j \in J : A[h[j]] \in Int /\ c[k[j]] = A[h[j]]
  PROVE  SumFunctionOnSet(c, S \cup E) = SumFunctionOnSet(b, S) + SumFunctionOnSet(A, N)
<1> DEFINE f == [j \in J |-> A[h[j]]]
<1>1. \A j \in J : f[j] \in Int /\ c[k[j]] = f[j] /\ A[h[j]] = f[j] OBVIOUS
<1> HIDE DEF f
<1>2. \A e \in S \cup E : c[e] \in Int BY <1>1 DEF Renames
<1>3. SumFunctionOnSet(c, E) = SumFunctionOnSet(f, J) BY <1>1, SumReindex
<1>4. SumFunctionOnSet(A, N) = SumFunctionOnSet(f, J) BY <1>1, SumReindex
<1>5. SumFunctionOnSet(c, S) = SumFunctionOnSet(b, S) BY SumSame
<1>6. SumFunctionOnSet(c, S \cup E) = SumFunctionOnSet(c, S) + SumFunctionOnSet(c, E)
  BY <1>2, SumUnion
<1> QED BY <1>3, <1>4, <1>5, <1>6

-----------------------------------------------------------------------------
(* Sets of naturals in order, and selections *)

Below(I, i) == {k \in I : k < i}

LEMMA BelowIsFinite ==
  ASSUME NEW I \in SUBSET Nat, IsFiniteSet(I), NEW i
  PROVE  IsFiniteSet(Below(I, i)) /\ Cardinality(Below(I, i)) \in Nat
BY FS_Subset, FS_CardinalityType DEF Below

(* A member has fewer members below it than one above it, and than the set.  *)
LEMMA RankRises ==
  ASSUME NEW I \in SUBSET Nat, IsFiniteSet(I), NEW i \in I
  PROVE  /\ Cardinality(Below(I, i)) < Cardinality(I)
         /\ \A j \in I : i < j => Cardinality(Below(I, i)) < Cardinality(Below(I, j))
<1>1. Below(I, i) \subseteq I /\ Below(I, i) # I BY DEF Below
<1>2. /\ IsFiniteSet(Below(I, i)) /\ Cardinality(Below(I, i)) \in Nat
      /\ Cardinality(I) \in Nat
  BY BelowIsFinite, FS_CardinalityType
<1>3. Cardinality(Below(I, i)) <= Cardinality(I) BY <1>1, FS_Subset
<1>4. Cardinality(Below(I, i)) # Cardinality(I) BY <1>1, FS_Subset
<1>5. ASSUME NEW j \in I, i < j PROVE Cardinality(Below(I, i)) < Cardinality(Below(I, j))
  <2>1. /\ Below(I, i) \subseteq Below(I, j) /\ Below(I, i) # Below(I, j)
    <3>1. i \in Below(I, j) /\ i \notin Below(I, i) BY <1>5 DEF Below
    <3>2. \A k \in I : k < i => k < j BY <1>5
    <3>3. Below(I, i) \subseteq Below(I, j) BY <3>2 DEF Below
    <3> QED BY <3>1, <3>3
  <2>2. IsFiniteSet(Below(I, j)) /\ Cardinality(Below(I, j)) \in Nat BY BelowIsFinite
  <2>3. /\ Cardinality(Below(I, i)) <= Cardinality(Below(I, j))
        /\ Cardinality(Below(I, i)) # Cardinality(Below(I, j))
    BY <2>1, <2>2, FS_Subset
  <2> QED BY <1>2, <2>2, <2>3
<1> QED BY <1>2, <1>3, <1>4, <1>5

(* Every rank below the size of the set is some member's.                    *)
LEMMA RankExists ==
  ASSUME NEW I \in SUBSET Nat, IsFiniteSet(I), NEW n \in 1..Cardinality(I)
  PROVE  \E i \in I : Cardinality(Below(I, i)) = n - 1
<1> DEFINE N == Cardinality(I)
           rank == [i \in I |-> Cardinality(Below(I, i)) + 1]
<1>1. N \in Nat BY FS_CardinalityType
<1>2. \A i \in I : rank[i] \in 1..N BY <1>1, BelowIsFinite, RankRises
<1>3. \A i, j \in I : rank[i] = rank[j] => i = j
  <2>1. ASSUME NEW i \in I, NEW j \in I, i < j PROVE rank[i] # rank[j]
    <3>1. Cardinality(Below(I, i)) < Cardinality(Below(I, j)) BY <2>1, RankRises
    <3>2. Cardinality(Below(I, i)) \in Nat /\ Cardinality(Below(I, j)) \in Nat
      BY BelowIsFinite
    <3> QED BY <3>1, <3>2
  <2>2. \A i, j \in I : i # j => i < j \/ j < i OBVIOUS
  <2> HIDE DEF rank
  <2> QED BY <2>1, <2>2
<1>4. rank \in Injection(I, 1..N) BY <1>2, <1>3 DEF Injection, IsInjective
<1>5. IsFiniteSet(1..N) /\ Cardinality(1..N) = N BY <1>1, FS_Interval
<1> HIDE DEF rank
<1>6. rank \in Surjection(I, 1..N) BY <1>4, <1>5, FS_Injection
<1>7. PICK i \in I : rank[i] = n BY <1>6 DEF Surjection
<1>8. Cardinality(Below(I, i)) \in Nat /\ n \in Nat BY <1>1, BelowIsFinite
<1>9. Cardinality(Below(I, i)) + 1 = n BY <1>7 DEF rank
<1> QED BY <1>8, <1>9

(* Ranked lists the members, each once, in order.                            *)
LEMMA RankedLists ==
  ASSUME NEW I \in SUBSET Nat, IsFiniteSet(I)
  PROVE  /\ Cardinality(I) \in Nat
         /\ Ranked(I) \in [1..Cardinality(I) -> I]
         /\ \A i \in I : \E j \in 1..Cardinality(I) : Ranked(I)[j] = i
         /\ \A j, k \in 1..Cardinality(I) : j < k => Ranked(I)[j] < Ranked(I)[k]
<1> DEFINE N == Cardinality(I)
           h == Ranked(I)
<1>1. N \in Nat BY FS_CardinalityType
<1>2. \A i \in I : Cardinality({k \in I : k < i}) = Cardinality(Below(I, i)) BY DEF Below
<1>3. ASSUME NEW j \in 1..N PROVE h[j] \in I /\ Cardinality(Below(I, h[j])) = j - 1
  <2>1. PICK i \in I : Cardinality(Below(I, i)) = j - 1 BY RankExists
  <2>2. h[j] = CHOOSE e \in I : Cardinality({k \in I : k < e}) = j - 1 BY DEF Ranked
  <2>3. Cardinality({k \in I : k < i}) = j - 1 BY <1>2, <2>1
  <2>4. h[j] \in I /\ Cardinality({k \in I : k < h[j]}) = j - 1 BY <2>2, <2>3
  <2> QED BY <1>2, <2>4
<1>4. h \in [1..N -> I] BY <1>3 DEF Ranked
<1> HIDE DEF h
<1>5. ASSUME NEW i \in I PROVE \E j \in 1..N : h[j] = i
  <2> DEFINE j == Cardinality(Below(I, i)) + 1
  <2>1. j \in 1..N BY <1>1, BelowIsFinite, RankRises
  <2>2. h[j] \in I /\ Cardinality(Below(I, h[j])) = j - 1 BY <1>3, <2>1
  <2>3. Cardinality(Below(I, h[j])) = Cardinality(Below(I, i)) BY <2>2, BelowIsFinite
  <2> HIDE DEF j
  <2>4. \A x, y \in I : Cardinality(Below(I, x)) = Cardinality(Below(I, y)) => ~(x < y)
    <3>1. SUFFICES ASSUME NEW x \in I, NEW y \in I,
                          Cardinality(Below(I, x)) = Cardinality(Below(I, y)), x < y
                   PROVE  FALSE
      OBVIOUS
    <3>2. Cardinality(Below(I, x)) < Cardinality(Below(I, y)) BY <3>1, RankRises
    <3>3. Cardinality(Below(I, x)) \in Nat BY BelowIsFinite
    <3> QED BY <3>1, <3>2, <3>3
  <2>5. h[j] \in Nat /\ i \in Nat BY <2>2
  <2>6. ~(h[j] < i) /\ ~(i < h[j]) BY <2>2, <2>3, <2>4
  <2>7. h[j] = i BY <2>5, <2>6
  <2> QED BY <2>1, <2>7
<1>6. ASSUME NEW j \in 1..N, NEW k \in 1..N, j < k PROVE h[j] < h[k]
  <2>1. /\ h[j] \in I /\ h[k] \in I
        /\ Cardinality(Below(I, h[j])) = j - 1 /\ Cardinality(Below(I, h[k])) = k - 1
    BY <1>3
  <2>2. ~(h[k] < h[j])
    <3>1. SUFFICES ASSUME h[k] < h[j] PROVE FALSE OBVIOUS
    <3>2. Cardinality(Below(I, h[k])) < Cardinality(Below(I, h[j])) BY <2>1, <3>1, RankRises
    <3> QED BY <1>1, <1>6, <2>1, <3>2
  <2>3. h[k] # h[j]
    <3>1. k - 1 # j - 1 BY <1>1, <1>6
    <3> QED BY <2>1, <3>1
  <2>4. h[j] \in Nat /\ h[k] \in Nat BY <2>1
  <2> QED BY <2>2, <2>3, <2>4
<1> QED BY <1>1, <1>4, <1>5, <1>6 DEF h

(* What a selection is: the sequence along the ranked indices.               *)
LEMMA SelectedIs ==
  ASSUME NEW I \in SUBSET Nat, IsFiniteSet(I), NEW s, NEW X, \A i \in I : s[i] \in X
  PROVE  /\ Selected(s, I) \in Seq(X)
         /\ Len(Selected(s, I)) = Cardinality(I)
         /\ \A i \in I : \E j \in 1..Cardinality(I) : Selected(s, I)[j] = s[i]
         /\ \A j \in 1..Cardinality(I) : \E i \in I : Selected(s, I)[j] = s[i]
<1> DEFINE N == Cardinality(I)
<1>1. /\ N \in Nat /\ Ranked(I) \in [1..N -> I]
      /\ \A i \in I : \E j \in 1..N : Ranked(I)[j] = i
  BY RankedLists
<1>2. Selected(s, I) = [j \in 1..N |-> s[Ranked(I)[j]]] BY DEF Selected
<1> HIDE DEF N
<1>3. Selected(s, I) \in Seq(X) /\ Len(Selected(s, I)) = N
  <2>1. \A j \in 1..N : s[Ranked(I)[j]] \in X BY <1>1
  <2>2. Selected(s, I) \in [1..N -> X] BY <1>2, <2>1
  <2> QED BY <1>1, <2>2
<1>4. \A j \in 1..N : Selected(s, I)[j] = s[Ranked(I)[j]] BY <1>2
<1>5. \A i \in I : \E j \in 1..N : Selected(s, I)[j] = s[i] BY <1>1, <1>4
<1>6. \A j \in 1..N : \E i \in I : Selected(s, I)[j] = s[i] BY <1>1, <1>4
<1> QED BY <1>3, <1>5, <1>6 DEF N

-----------------------------------------------------------------------------
(* Finite sets in the order of a key *)

Lesser(S, key, x) == {y \in S : key[y] < key[x]}

(* The members of a lesser key, which are fewer the lesser the key.          *)
LEMMA LesserRises ==
  ASSUME NEW S, IsFiniteSet(S), NEW key \in [S -> Int], NEW x \in S
  PROVE  /\ IsFiniteSet(Lesser(S, key, x)) /\ Cardinality(Lesser(S, key, x)) \in Nat
         /\ Cardinality(Lesser(S, key, x)) < Cardinality(S)
         /\ \A y \in S : key[x] < key[y] =>
              Cardinality(Lesser(S, key, x)) < Cardinality(Lesser(S, key, y))
<1>1. \A y \in S : /\ IsFiniteSet(Lesser(S, key, y)) /\ Cardinality(Lesser(S, key, y)) \in Nat
                   /\ Lesser(S, key, y) \subseteq S
  BY FS_Subset, FS_CardinalityType DEF Lesser
<1>2. x \notin Lesser(S, key, x)
  <2>1. key[x] \in Int OBVIOUS
  <2> QED BY <2>1 DEF Lesser
<1>3. Cardinality(S) \in Nat BY FS_CardinalityType
<1>4. Cardinality(Lesser(S, key, x)) < Cardinality(S)
  <2>1. Lesser(S, key, x) # S BY <1>2
  <2>2. /\ Cardinality(Lesser(S, key, x)) <= Cardinality(S)
        /\ Cardinality(Lesser(S, key, x)) # Cardinality(S)
    BY <1>1, <2>1, FS_Subset
  <2> QED BY <1>1, <1>3, <2>2
<1>5. ASSUME NEW y \in S, key[x] < key[y]
      PROVE  Cardinality(Lesser(S, key, x)) < Cardinality(Lesser(S, key, y))
  <2>1. x \in Lesser(S, key, y) BY <1>5 DEF Lesser
  <2>2. \A z \in S : key[z] < key[x] => key[z] < key[y]
    <3>1. \A z \in S : key[z] \in Int OBVIOUS
    <3> QED BY <1>5, <3>1
  <2>3. Lesser(S, key, x) \subseteq Lesser(S, key, y) BY <2>2 DEF Lesser
  <2>4. Lesser(S, key, x) # Lesser(S, key, y) BY <1>2, <2>1
  <2>5. /\ Cardinality(Lesser(S, key, x)) <= Cardinality(Lesser(S, key, y))
        /\ Cardinality(Lesser(S, key, x)) # Cardinality(Lesser(S, key, y))
    BY <1>1, <2>3, <2>4, FS_Subset
  <2> QED BY <1>1, <2>5
<1> QED BY <1>1, <1>4, <1>5

(* Where keys tell the members apart, a set in order lists each of them once. *)
LEMMA ArrangedLists ==
  ASSUME NEW S, IsFiniteSet(S), NEW key \in [S -> Int], \A x, y \in S : key[x] = key[y] => x = y
  PROVE  /\ Cardinality(S) \in Nat
         /\ Arranged(S, key) \in [1..Cardinality(S) -> S]
         /\ \A x \in S : \E j \in 1..Cardinality(S) : Arranged(S, key)[j] = x
         /\ \A j, k \in 1..Cardinality(S) : j < k => key[Arranged(S, key)[j]] < key[Arranged(S, key)[k]]
<1> DEFINE N == Cardinality(S)
           rank == [x \in S |-> Cardinality(Lesser(S, key, x)) + 1]
           h == Arranged(S, key)
<1>1. N \in Nat BY FS_CardinalityType
<1>2. \A x \in S : Cardinality(Lesser(S, key, x)) \in Nat /\ Cardinality(Lesser(S, key, x)) < N
  BY LesserRises
<1>3. \A x \in S : rank[x] \in 1..N BY <1>1, <1>2
<1>4. \A x, y \in S : key[x] < key[y] => rank[x] < rank[y]
  <2> SUFFICES ASSUME NEW x \in S, NEW y \in S, key[x] < key[y] PROVE rank[x] < rank[y] OBVIOUS
  <2>1. Cardinality(Lesser(S, key, x)) < Cardinality(Lesser(S, key, y)) BY LesserRises
  <2> QED BY <1>2, <2>1
<1>5. rank = [x \in S |-> Cardinality(Lesser(S, key, x)) + 1] OBVIOUS
<1> HIDE DEF rank
<1>6. \A x, y \in S : rank[x] = rank[y] => x = y
  <2> SUFFICES ASSUME NEW x \in S, NEW y \in S, rank[x] = rank[y] PROVE x = y OBVIOUS
  <2>1. key[x] \in Int /\ key[y] \in Int /\ rank[x] \in Int /\ rank[y] \in Int BY <1>3
  <2>2. ~(rank[x] < rank[y]) /\ ~(rank[y] < rank[x]) BY <2>1
  <2>3. ~(key[x] < key[y]) /\ ~(key[y] < key[x]) BY <1>4, <2>2
  <2>4. key[x] = key[y] BY <2>1, <2>3
  <2> QED BY <2>4
<1>7. rank \in [S -> 1..N] BY <1>3, <1>5
<1>8. rank \in Injection(S, 1..N) BY <1>6, <1>7 DEF Injection, IsInjective
<1>9. IsFiniteSet(1..N) /\ Cardinality(1..N) = N BY <1>1, FS_Interval
<1>10. rank \in Surjection(S, 1..N) BY <1>8, <1>9, FS_Injection
<1>11. \A j \in 1..N : \E x \in S : rank[x] = j BY <1>10 DEF Surjection
<1>12. ASSUME NEW j \in 1..N PROVE h[j] \in S /\ rank[h[j]] = j
  <2>1. PICK x \in S : rank[x] = j BY <1>11
  <2>2. \A y \in S : Cardinality({z \in S : key[z] < key[y]}) = Cardinality(Lesser(S, key, y))
    BY DEF Lesser
  <2>3. \A y \in S : rank[y] = j <=> Cardinality({z \in S : key[z] < key[y]}) = j - 1
    <3> SUFFICES ASSUME NEW y \in S
                 PROVE  rank[y] = j <=> Cardinality({z \in S : key[z] < key[y]}) = j - 1
      OBVIOUS
    <3>1. rank[y] = Cardinality({z \in S : key[z] < key[y]}) + 1 BY <1>5, <2>2
    <3>2. Cardinality({z \in S : key[z] < key[y]}) \in Nat /\ j \in Nat BY <1>1, <1>2, <2>2
    <3> QED BY <3>1, <3>2
  <2>4. h[j] = CHOOSE y \in S : Cardinality({z \in S : key[z] < key[y]}) = j - 1 BY DEF Arranged
  <2>5. h[j] \in S /\ Cardinality({z \in S : key[z] < key[h[j]]}) = j - 1 BY <2>1, <2>3, <2>4
  <2> QED BY <2>3, <2>5
<1>13. h \in [1..N -> S] BY <1>12 DEF Arranged
<1> HIDE DEF h, N
<1>14. ASSUME NEW x \in S PROVE \E j \in 1..N : h[j] = x
  <2>1. rank[x] \in 1..N BY <1>3
  <2>2. h[rank[x]] \in S /\ rank[h[rank[x]]] = rank[x] BY <1>12, <2>1
  <2> QED BY <1>6, <2>1, <2>2
<1>15. ASSUME NEW j \in 1..N, NEW k \in 1..N, j < k PROVE key[h[j]] < key[h[k]]
  <2>1. h[j] \in S /\ h[k] \in S /\ rank[h[j]] = j /\ rank[h[k]] = k BY <1>12
  <2>2. key[h[j]] \in Int /\ key[h[k]] \in Int BY <2>1
  <2>3. j \in Int /\ k \in Int BY <1>1
  <2>4. key[h[j]] # key[h[k]] BY <1>15, <2>1, <2>3
  <2>5. ~(key[h[k]] < key[h[j]])
    <3> SUFFICES ASSUME key[h[k]] < key[h[j]] PROVE FALSE OBVIOUS
    <3>1. rank[h[k]] < rank[h[j]] BY <1>4, <2>1
    <3> QED BY <1>15, <2>1, <2>3, <3>1
  <2> QED BY <2>2, <2>4, <2>5
<1> QED BY <1>1, <1>13, <1>14, <1>15 DEF h, N
=============================================================================
