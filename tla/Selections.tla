----------------------------- MODULE Selections -----------------------------
(***************************************************************************)
(* A selection of a sequence by its indices, in order, as Python's          *)
(* comprehensions make one, and a set in the order of a key.  They are      *)
(* SelectSeq and SortSeq with the indices named, so that what they return   *)
(* can be reasoned about (FoldTheorems).                                    *)
(***************************************************************************)
EXTENDS Integers, FiniteSets

(* The members of a finite set of naturals, the least first.                 *)
Ranked(I) == [j \in 1..Cardinality(I) |-> CHOOSE i \in I : Cardinality({k \in I : k < i}) = j - 1]

Selected(s, I) == [j \in 1..Cardinality(I) |-> s[Ranked(I)[j]]]

(* The members of a finite set, those of a lesser key first.                 *)
Arranged(S, key) ==
  [j \in 1..Cardinality(S) |-> CHOOSE x \in S : Cardinality({y \in S : key[y] < key[x]}) = j - 1]
=============================================================================
