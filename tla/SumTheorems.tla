---------------------------- MODULE SumTheorems -----------------------------
(***************************************************************************)
(* Sums of natural numbers over finite sets and concatenations of          *)
(* sequences of sequences, as the community modules define them            *)
(* (SumFunctionOnSet, FlattenSeq): the sum exists, any element may be      *)
(* taken out first, a set may be split; a concatenation exists and grows   *)
(* at its end.                                                             *)
(*                                                                         *)
(* The library's induction theorems take the statement as an operator,     *)
(* which the provers cannot instantiate; here the induction is over the    *)
(* set of the numbers, or of the subsets, for which the statement holds.   *)
(***************************************************************************)
EXTENDS Integers, FiniteSets, Functions, SequencesExt, FiniteSetTheorems, SequenceTheorems,
        WellFoundedInduction, TLAPS

(* Sums *)

\* Induction over the naturals: the statement is the set of the numbers it holds
\* for.
LEMMA NatSetInduction ==
  ASSUME NEW S, 0 \in S, \A n \in Nat : n \in S => n + 1 \in S
  PROVE  Nat \subseteq S
<1> DEFINE T == Nat \ S
           R == OpToRel(<, Nat)
<1>1. SUFFICES ASSUME T # {} PROVE FALSE
  OBVIOUS
<1>2. IsWellFoundedOn(R, Nat)
  BY NatLessThanWellFounded
<1>3. \A x, y \in Nat : <<x, y>> \in R <=> x < y
  BY DEF OpToRel
<1> HIDE DEF R
<1>4. PICK x \in T : \A y \in T : ~ (<<y, x>> \in R)
  BY <1>1, <1>2, WFMin
<1>5. x # 0 /\ x \in Nat
  OBVIOUS
<1>6. x - 1 \in Nat /\ x - 1 < x /\ (x - 1) + 1 = x
  BY <1>5
<1>7. x - 1 \notin S
  BY <1>6
<1> QED BY <1>3, <1>4, <1>6, <1>7

\* A set of naturals that is not empty has a least element.
LEMMA NatLeast ==
  ASSUME NEW S \in SUBSET Nat, S # {}
  PROVE  \E x \in S : \A y \in S : x <= y
<1> DEFINE R == OpToRel(<, Nat)
<1>1. IsWellFoundedOn(R, Nat)
  BY NatLessThanWellFounded
<1>2. \A x, y \in Nat : <<x, y>> \in R <=> x < y
  BY DEF OpToRel
<1> HIDE DEF R
<1>3. PICK x \in S : \A y \in S : ~ (<<y, x>> \in R)
  BY <1>1, WFMin
<1>4. \A y \in S : x \in Nat /\ y \in Nat /\ ~(y < x)
  BY <1>2, <1>3
<1>5. \A y \in S : x <= y
  BY <1>4
<1> QED BY <1>5

\* Induction over the subsets of a finite set.
LEMMA SubsetInduction ==
  ASSUME NEW S, IsFiniteSet(S), NEW P, {} \in P,
         \A T \in SUBSET S : T # {} /\ (\A x \in T : T \ {x} \in P) => T \in P
  PROVE  \A T \in SUBSET S : T \in P
<1> DEFINE N == {n \in Nat : \A T \in SUBSET S : Cardinality(T) = n => T \in P}
<1>0. ASSUME NEW T \in SUBSET S PROVE IsFiniteSet(T) /\ Cardinality(T) \in Nat
  BY FS_Subset, FS_CardinalityType
<1>1. 0 \in N
  BY <1>0, FS_EmptySet
<1>2. ASSUME NEW n \in Nat, n \in N PROVE n + 1 \in N
  <2>1. SUFFICES ASSUME NEW T \in SUBSET S, Cardinality(T) = n + 1 PROVE T \in P
    OBVIOUS
  <2>2. T # {}
    <3>1. Cardinality({}) = 0 /\ n + 1 # 0
      BY FS_EmptySet
    <3>2. Cardinality(T) # Cardinality({})
      BY <2>1, <3>1
    <3> QED BY <3>2
  <2>3. ASSUME NEW x \in T PROVE T \ {x} \in P
    <3>1. Cardinality(T \ {x}) = n
      BY <1>0, <2>1, FS_RemoveElement
    <3> QED BY <1>2, <3>1
  <2> QED BY <2>2, <2>3
<1>3. Nat \subseteq N
  <2> HIDE DEF N
  <2> QED BY <1>1, <1>2, NatSetInduction
<1> QED BY <1>0, <1>3

Pick(T) == CHOOSE x \in T : TRUE

Solves(f, S, g) ==
  g = [T \in SUBSET S |-> IF T = {} THEN 0 ELSE f[Pick(T)] + g[T \ {Pick(T)}]]

\* The element the definition takes out belongs to the set.
LEMMA PickIn == ASSUME NEW T, T # {} PROVE Pick(T) \in T
BY DEF Pick

\* The sum is the value of a solution of the recursion over the subsets.
LEMMA SumDef ==
  ASSUME NEW f, NEW S
  PROVE  SumFunctionOnSet(f, S) = (CHOOSE g : Solves(f, S, g))[S]
BY DEF SumFunctionOnSet, FoldFunctionOnSet, MapThenFoldSet, Solves, Pick

\* The recursion has a solution, and its values are naturals.
LEMMA Solvable ==
  ASSUME NEW S, IsFiniteSet(S), NEW f, \A x \in S : f[x] \in Nat
  PROVE  \E g \in [SUBSET S -> Nat] : Solves(f, S, g)
<1> DEFINE Small(n) == {T \in SUBSET S : Cardinality(T) <= n}
           Next(g, T) == IF T = {} THEN 0 ELSE f[Pick(T)] + g[T \ {Pick(T)}]
           N == {n \in Nat : \E g \in [Small(n) -> Nat] : \A T \in Small(n) : g[T] = Next(g, T)}
<1>0. ASSUME NEW T \in SUBSET S
      PROVE  /\ IsFiniteSet(T) /\ Cardinality(T) \in Nat /\ (T = {} <=> Cardinality(T) = 0)
             /\ T # {} => /\ Pick(T) \in T /\ T \ {Pick(T)} \in SUBSET S
                          /\ Cardinality(T \ {Pick(T)}) = Cardinality(T) - 1
  <2>1. IsFiniteSet(T) /\ Cardinality(T) \in Nat /\ (T = {} <=> Cardinality(T) = 0)
    BY FS_Subset, FS_CardinalityType, FS_EmptySet
  <2>2. ASSUME T # {} PROVE Pick(T) \in T
    BY <2>2, PickIn
  <2>3. ASSUME T # {} PROVE Cardinality(T \ {Pick(T)}) = Cardinality(T) - 1
    BY <2>1, <2>2, <2>3, FS_RemoveElement
  <2> QED BY <2>1, <2>2, <2>3
<1>1. 0 \in N
  <2> DEFINE g == [T \in Small(0) |-> 0]
  <2>1. ASSUME NEW T \in Small(0) PROVE T = {}
    <3>1. T \in SUBSET S /\ Cardinality(T) <= 0 /\ Cardinality(T) \in Nat
      BY <1>0
    <3>2. Cardinality(T) = 0
      BY <3>1
    <3> QED BY <1>0, <3>1, <3>2
  <2>2. g \in [Small(0) -> Nat] /\ \A T \in Small(0) : g[T] = Next(g, T)
    BY <2>1
  <2> HIDE DEF g, Next, Small
  <2> QED BY <2>2
<1>2. ASSUME NEW n \in Nat, n \in N PROVE n + 1 \in N
  <2>1. PICK g \in [Small(n) -> Nat] : \A T \in Small(n) : g[T] = Next(g, T)
    BY <1>2
  <2> DEFINE h == [T \in Small(n + 1) |-> Next(g, T)]
  <2>2. ASSUME NEW T \in Small(n + 1), T # {}
        PROVE  /\ T \ {Pick(T)} \in Small(n) /\ T \ {Pick(T)} \in Small(n + 1)
               /\ f[Pick(T)] \in Nat /\ g[T \ {Pick(T)}] \in Nat
    BY <1>0, <2>2
  <2>3. \A T \in Small(n) : g[T] = h[T] /\ T \in Small(n + 1)
    <3>1. ASSUME NEW T \in Small(n) PROVE T \in Small(n + 1)
      <4>1. T \in SUBSET S /\ Cardinality(T) <= n /\ Cardinality(T) \in Nat
        BY <1>0
      <4> QED BY <4>1
    <3> HIDE DEF Next, Small
    <3> QED BY <2>1, <3>1
  <2>4. \A T \in Small(n + 1) : Next(g, T) \in Nat
    BY <2>2
  <2>5. h \in [Small(n + 1) -> Nat]
    BY <2>4
  <2>6. ASSUME NEW T \in Small(n + 1) PROVE h[T] = Next(h, T)
    <3>1. h[T] = Next(g, T)
      BY DEF h
    <3>2. CASE T = {}
      BY <3>1, <3>2
    <3>3. CASE T # {}
      <4>1. g[T \ {Pick(T)}] = h[T \ {Pick(T)}]
        BY <2>2, <2>3, <3>3
      <4> HIDE DEF h
      <4> QED BY <3>1, <3>3, <4>1
    <3> QED BY <3>2, <3>3
  <2> HIDE DEF h, Next, Small
  <2> QED BY <2>5, <2>6
<1>3. Nat \subseteq N
  <2> HIDE DEF N
  <2> QED BY <1>1, <1>2, NatSetInduction
<1>4. Small(Cardinality(S)) = SUBSET S
  <2>1. \A T \in SUBSET S : Cardinality(T) <= Cardinality(S)
    BY FS_Subset
  <2> QED BY <2>1
<1>5. Cardinality(S) \in N
  BY <1>3, FS_CardinalityType
<1>6. PICK g \in [Small(Cardinality(S)) -> Nat] : \A T \in Small(Cardinality(S)) : g[T] = Next(g, T)
  BY <1>5
<1>7. g \in [SUBSET S -> Nat] /\ \A T \in SUBSET S : g[T] = Next(g, T)
  <2> HIDE DEF Small, Next
  <2> QED BY <1>4, <1>6
<1>8. Solves(f, S, g)
  BY <1>7 DEF Solves
<1> QED BY <1>7, <1>8

\* Solutions for two sets agree on what the sets share.
LEMMA SolutionsAgree ==
  ASSUME NEW S, IsFiniteSet(S), NEW R \in SUBSET S, NEW f, NEW g, NEW h,
         Solves(f, S, g), Solves(f, R, h)
  PROVE  \A T \in SUBSET R : g[T] = h[T]
<1> DEFINE P == {T \in SUBSET R : g[T] = h[T]}
<1>0. /\ \A T \in SUBSET R : h[T] = IF T = {} THEN 0 ELSE f[Pick(T)] + h[T \ {Pick(T)}]
      /\ \A T \in SUBSET R : g[T] = IF T = {} THEN 0 ELSE f[Pick(T)] + g[T \ {Pick(T)}]
  <2>1. SUBSET R \subseteq SUBSET S
    OBVIOUS
  <2> QED BY <2>1 DEF Solves
<1>1. {} \in P
  BY <1>0
<1>2. ASSUME NEW T \in SUBSET R, T # {}, \A x \in T : T \ {x} \in P PROVE T \in P
  <2>1. T \ {Pick(T)} \in P
    BY <1>2, PickIn
  <2> QED BY <1>0, <1>2, <2>1
<1>3. IsFiniteSet(R)
  BY FS_Subset
<1>4. \A T \in SUBSET R : T \in P
  <2> HIDE DEF P
  <2> QED BY <1>1, <1>2, <1>3, SubsetInduction
<1> QED BY <1>4

-----------------------------------------------------------------------------
(* The sum of a function with natural values over a finite set *)

\* The sum is a natural and obeys the recursion; the empty sum is 0.
LEMMA SumRecursion ==
  ASSUME NEW S, IsFiniteSet(S), NEW f, \A x \in S : f[x] \in Nat
  PROVE  /\ SumFunctionOnSet(f, S) \in Nat
         /\ S = {} => SumFunctionOnSet(f, S) = 0
         /\ S # {} => SumFunctionOnSet(f, S) = f[Pick(S)] + SumFunctionOnSet(f, S \ {Pick(S)})
<1> DEFINE Sol(T) == CHOOSE g : Solves(f, T, g)
<1>1. PICK k \in [SUBSET S -> Nat] : Solves(f, S, k)
  BY Solvable
<1>2. ASSUME NEW T \in SUBSET S PROVE Solves(f, T, Sol(T))
  <2>1. IsFiniteSet(T) /\ \A x \in T : f[x] \in Nat
    BY FS_Subset
  <2>2. \E g : Solves(f, T, g)
    BY <2>1, Solvable
  <2> QED BY <2>2
<1> HIDE DEF Sol
<1>3. ASSUME NEW T \in SUBSET S PROVE SumFunctionOnSet(f, T) = k[T]
  <2>1. SumFunctionOnSet(f, T) = Sol(T)[T]
    BY SumDef DEF Sol
  <2>2. k[T] = Sol(T)[T]
    BY <1>1, <1>2, SolutionsAgree
  <2> QED BY <2>1, <2>2
<1>4. k[S] \in Nat /\ k[S] = IF S = {} THEN 0 ELSE f[Pick(S)] + k[S \ {Pick(S)}]
  BY <1>1 DEF Solves
<1>5. S \in SUBSET S /\ S \ {Pick(S)} \in SUBSET S
  OBVIOUS
<1> QED BY <1>3, <1>4, <1>5

\* Any element may be taken out first.
LEMMA SumRemove ==
  ASSUME NEW S, IsFiniteSet(S), NEW f, \A x \in S : f[x] \in Nat, NEW e \in S
  PROVE  SumFunctionOnSet(f, S) = f[e] + SumFunctionOnSet(f, S \ {e})
<1> DEFINE Sum(T) == SumFunctionOnSet(f, T)
           P == {T \in SUBSET S : \A x \in T : Sum(T) = f[x] + Sum(T \ {x})}
<1>0. ASSUME NEW T \in SUBSET S
      PROVE  /\ IsFiniteSet(T) /\ Sum(T) \in Nat
             /\ T # {} => Pick(T) \in T /\ Sum(T) = f[Pick(T)] + Sum(T \ {Pick(T)})
  BY FS_Subset, PickIn, SumRecursion
<1> HIDE DEF Sum
<1>1. {} \in P
  OBVIOUS
<1>2. ASSUME NEW T \in SUBSET S, T # {}, \A x \in T : T \ {x} \in P PROVE T \in P
  <2> DEFINE c == Pick(T)
  <2>1. c \in T /\ Sum(T) = f[c] + Sum(T \ {c})
    BY <1>0, <1>2
  <2> HIDE DEF c
  <2>2. ASSUME NEW x \in T, x # c PROVE Sum(T) = f[x] + Sum(T \ {x})
    <3> DEFINE B == (T \ {c}) \ {x}
    <3>1. Sum(T \ {c}) = f[x] + Sum(B)
      BY <1>2, <2>1, <2>2
    <3>2. (T \ {x}) \ {c} = B
      OBVIOUS
    <3>3. Sum(T \ {x}) = f[c] + Sum((T \ {x}) \ {c})
      BY <1>2, <2>1, <2>2
    <3>4. Sum(B) \in Nat /\ f[c] \in Nat /\ f[x] \in Nat
      BY <1>0, <2>1
    <3> HIDE DEF B
    <3> DEFINE b == Sum(B)
               d == f[c]
               k == f[x]
    <3>5. Sum(T) = d + (k + b) /\ Sum(T \ {x}) = d + b /\ b \in Nat /\ d \in Nat /\ k \in Nat
      BY <2>1, <3>1, <3>2, <3>3, <3>4
    <3>6. f[x] = k OBVIOUS
    <3> HIDE DEF b, d, k
    <3> QED BY <3>5, <3>6
  <2> QED BY <2>1, <2>2
<1>3. S \in P
  <2> HIDE DEF P
  <2>1. \A T \in SUBSET S : T \in P
    BY <1>1, <1>2, SubsetInduction
  <2> QED BY <2>1
<1> QED BY <1>3 DEF Sum

\* Only the values on the set matter.
LEMMA SumSame ==
  ASSUME NEW S, IsFiniteSet(S), NEW f, NEW g, \A x \in S : f[x] \in Nat /\ g[x] = f[x]
  PROVE  SumFunctionOnSet(f, S) = SumFunctionOnSet(g, S)
<1> DEFINE P == {T \in SUBSET S : SumFunctionOnSet(f, T) = SumFunctionOnSet(g, T)}
<1>0. ASSUME NEW T \in SUBSET S
      PROVE  IsFiniteSet(T) /\ (\A x \in T : f[x] \in Nat) /\ (\A x \in T : g[x] \in Nat)
  BY FS_Subset
<1>1. {} \in P
  BY <1>0, SumRecursion
<1>2. ASSUME NEW T \in SUBSET S, T # {}, \A x \in T : T \ {x} \in P PROVE T \in P
  <2>1. /\ SumFunctionOnSet(f, T) = f[Pick(T)] + SumFunctionOnSet(f, T \ {Pick(T)})
        /\ SumFunctionOnSet(g, T) = g[Pick(T)] + SumFunctionOnSet(g, T \ {Pick(T)})
    BY <1>0, <1>2, SumRecursion
  <2>2. Pick(T) \in T
    BY <1>2, PickIn
  <2> QED BY <1>2, <2>1, <2>2
<1>3. \A T \in SUBSET S : T \in P
  <2> HIDE DEF P
  <2> QED BY <1>1, <1>2, SubsetInduction
<1> QED BY <1>3

\* A set and the rest.
LEMMA SumSplit ==
  ASSUME NEW S, IsFiniteSet(S), NEW f, \A x \in S : f[x] \in Nat, NEW A \in SUBSET S
  PROVE  SumFunctionOnSet(f, S) = SumFunctionOnSet(f, A) + SumFunctionOnSet(f, S \ A)
<1> DEFINE Sum(T) == SumFunctionOnSet(f, T)
           P == {T \in SUBSET S : Sum(S) = Sum(T) + Sum(S \ T)}
<1>0. ASSUME NEW T \in SUBSET S
      PROVE  IsFiniteSet(T) /\ (\A x \in T : f[x] \in Nat) /\ Sum(T) \in Nat
  BY FS_Subset, SumRecursion
<1>1. {} \in P
  <2>1. Sum({}) = 0 /\ S \ {} = S /\ Sum(S) \in Nat
    BY <1>0, SumRecursion
  <2> QED BY <2>1
<1>2. ASSUME NEW T \in SUBSET S, T # {}, \A x \in T : T \ {x} \in P PROVE T \in P
  <2>1. PICK x \in T : TRUE
    BY <1>2
  <2>2. Sum(T) = f[x] + Sum(T \ {x})
    BY <1>0, SumRemove
  <2> DEFINE B == S \ (T \ {x})
  <2>3. x \in B /\ B \ {x} = S \ T /\ B \in SUBSET S
    OBVIOUS
  <2>4. Sum(B) = f[x] + Sum(B \ {x})
    BY <1>0, <2>3, SumRemove
  <2>5. Sum(S) = Sum(T \ {x}) + Sum(B)
    BY <1>2
  <2>6. Sum(T \ {x}) \in Nat /\ Sum(B \ {x}) \in Nat /\ f[x] \in Nat
    BY <1>0
  <2> DEFINE rest == Sum(S \ T)
             less == Sum(T \ {x})
  <2>7. Sum(B \ {x}) = rest
    BY <2>3
  <2> HIDE DEF B, Sum
  <2>8. less \in Nat /\ rest \in Nat /\ f[x] \in Nat
    BY <2>6, <2>7
  <2>9. Sum(T) = f[x] + less /\ Sum(S) = less + (f[x] + rest)
    BY <2>2, <2>4, <2>5, <2>7
  <2> HIDE DEF rest, less
  <2>10. Sum(S) = Sum(T) + rest
    BY <2>8, <2>9
  <2> QED BY <2>10 DEF rest
<1>3. \A T \in SUBSET S : T \in P
  <2> HIDE DEF P
  <2> QED BY <1>1, <1>2, SubsetInduction
<1> QED BY <1>3

\* A sum of zeros.
LEMMA SumZero ==
  ASSUME NEW S, IsFiniteSet(S), NEW f, \A x \in S : f[x] = 0
  PROVE  SumFunctionOnSet(f, S) = 0
<1> DEFINE P == {T \in SUBSET S : SumFunctionOnSet(f, T) = 0}
<1>0. ASSUME NEW T \in SUBSET S
      PROVE  IsFiniteSet(T) /\ (\A x \in T : f[x] \in Nat)
  BY FS_Subset
<1>1. {} \in P
  BY <1>0, SumRecursion
<1>2. ASSUME NEW T \in SUBSET S, T # {}, \A x \in T : T \ {x} \in P PROVE T \in P
  <2>1. Pick(T) \in T /\ SumFunctionOnSet(f, T) = f[Pick(T)] + SumFunctionOnSet(f, T \ {Pick(T)})
    BY <1>0, <1>2, PickIn, SumRecursion
  <2> QED BY <1>2, <2>1
<1>3. \A T \in SUBSET S : T \in P
  <2> HIDE DEF P
  <2> QED BY <1>1, <1>2, SubsetInduction
<1> QED BY <1>3

-----------------------------------------------------------------------------
(* Concatenations *)

\* z is s followed by t.
IsCat(z, s, t) ==
  /\ Len(s) \in Nat /\ Len(t) \in Nat /\ Len(z) = Len(s) + Len(t)
  /\ \A i \in 1..Len(s) : z[i] = s[i]
  /\ \A j \in 1..Len(t) : z[Len(s) + j] = t[j]

\* Where the elements of a concatenation come from.
LEMMA ConcatAt ==
  ASSUME NEW S, NEW s \in Seq(S), NEW t \in Seq(S)
  PROVE  s \o t \in Seq(S) /\ IsCat(s \o t, s, t)
<1>1. Len(s) \in Nat /\ Len(t) \in Nat BY LenProperties
<1>2. s \o t \in Seq(S) /\ Len(s \o t) = Len(s) + Len(t) BY ConcatProperties
<1>3. \A i \in 1..(Len(s) + Len(t)) : (s \o t)[i] = IF i <= Len(s) THEN s[i] ELSE t[i - Len(s)]
  BY ConcatProperties
<1>4. ASSUME NEW i \in 1..Len(s) PROVE (s \o t)[i] = s[i]
  BY <1>1, <1>3
<1>5. ASSUME NEW j \in 1..Len(t) PROVE (s \o t)[Len(s) + j] = t[j]
  <2>1. Len(s) + j \in 1..(Len(s) + Len(t)) /\ ~(Len(s) + j <= Len(s)) /\ (Len(s) + j) - Len(s) = j
    BY <1>1
  <2> QED BY <1>3, <2>1
<1> QED BY <1>1, <1>2, <1>4, <1>5 DEF IsCat

\* f holds the concatenations of the first parts of s (FlattenSeq).
Joined(s, f) ==
  f = [i \in 1..Len(s) |-> IF i = 1 THEN s[i] ELSE f[i - 1] \o s[i]]

\* FlattenSeq is the last of them.
LEMMA FlattenDef ==
  ASSUME NEW s, Len(s) # 0
  PROVE  FlattenSeq(s) = (CHOOSE f : Joined(s, f))[Len(s)]
BY DEF FlattenSeq, Joined

\* The recursion has a solution.
LEMMA JoinedExists ==
  ASSUME NEW T, NEW s \in Seq(T)
  PROVE  \E f : Joined(s, f)
<1> DEFINE Step(f, i) == IF i = 1 THEN s[i] ELSE f[i - 1] \o s[i]
           N == {n \in Nat : \E f : f = [i \in 1..n |-> Step(f, i)]}
<1>1. 0 \in N
  <2> DEFINE f == [i \in 1..0 |-> <<>>]
  <2>1. f = [i \in 1..0 |-> Step(f, i)]
    OBVIOUS
  <2> HIDE DEF f, Step
  <2> QED BY <2>1
<1>2. ASSUME NEW n \in Nat, n \in N PROVE n + 1 \in N
  <2>1. PICK f : f = [i \in 1..n |-> Step(f, i)]
    BY <1>2
  <2> DEFINE g == [i \in 1..(n + 1) |-> Step(f, i)]
  <2>2. \A i \in 1..n : g[i] = f[i]
    <3>1. \A i \in 1..n : i \in 1..(n + 1) /\ f[i] = Step(f, i)
      <4> HIDE DEF Step
      <4> QED BY <2>1
    <3> HIDE DEF Step
    <3> QED BY <3>1
  <2>3. ASSUME NEW i \in 1..(n + 1) PROVE Step(f, i) = Step(g, i)
    <3>1. CASE i = 1
      BY <3>1
    <3>2. CASE i # 1
      <4>1. i - 1 \in 1..n
        BY <3>2
      <4>2. g[i - 1] = f[i - 1]
        BY <2>2, <4>1
      <4> HIDE DEF g
      <4> QED BY <3>2, <4>2
    <3> QED BY <3>1, <3>2
  <2>4. g = [i \in 1..(n + 1) |-> Step(g, i)]
    <3>1. \A i \in 1..(n + 1) : g[i] = Step(g, i)
      <4> HIDE DEF Step
      <4> QED BY <2>3
    <3>2. g = [i \in 1..(n + 1) |-> g[i]]
      <4> HIDE DEF Step
      <4> QED OBVIOUS
    <3> HIDE DEF g, Step
    <3> QED BY <3>1, <3>2
  <2> HIDE DEF g, Step
  <2> QED BY <2>4
<1>3. Nat \subseteq N
  <2> HIDE DEF N
  <2> QED BY <1>1, <1>2, NatSetInduction
<1>4. PICK f : f = [i \in 1..Len(s) |-> Step(f, i)]
  BY <1>3, LenProperties
<1> QED BY <1>4 DEF Joined

\* One more part is concatenated at the end.
LEMMA FlattenAppend ==
  ASSUME NEW S, NEW s \in Seq(Seq(S)), NEW x \in Seq(S)
  PROVE  /\ FlattenSeq(s) \in Seq(S)
         /\ FlattenSeq(Append(s, x)) = FlattenSeq(s) \o x
<1> DEFINE t == Append(s, x)
           n == Len(s)
           f == CHOOSE g : Joined(s, g)
           h == CHOOSE g : Joined(t, g)
<1>1. /\ n \in Nat /\ t \in Seq(Seq(S)) /\ Len(t) = n + 1 /\ t[n + 1] = x
      /\ \A i \in 1..n : t[i] = s[i] /\ s[i] \in Seq(S)
  BY AppendProperties, LenProperties, ElementOfSeq
<1>2. Joined(s, f) /\ Joined(t, h)
  <2>1. (\E g : Joined(s, g)) /\ (\E g : Joined(t, g))
    <3> HIDE DEF t
    <3> QED BY <1>1, JoinedExists
  <2> HIDE DEF t
  <2> QED BY <2>1
<1> HIDE DEF t, n, f, h
<1>3. /\ \A i \in 1..n : f[i] = IF i = 1 THEN s[i] ELSE f[i - 1] \o s[i]
      /\ \A i \in 1..(n + 1) : h[i] = IF i = 1 THEN t[i] ELSE h[i - 1] \o t[i]
  <2>1. f = [i \in 1..n |-> IF i = 1 THEN s[i] ELSE f[i - 1] \o s[i]]
    BY <1>2 DEF Joined, n
  <2>2. h = [i \in 1..(n + 1) |-> IF i = 1 THEN t[i] ELSE h[i - 1] \o t[i]]
    BY <1>1, <1>2 DEF Joined
  <2> QED BY <2>1, <2>2
<1> DEFINE M == {i \in Nat : i \in 1..n => f[i] = h[i] /\ f[i] \in Seq(S)}
<1>4. 0 \in M OBVIOUS
<1>5. ASSUME NEW i \in Nat, i \in M PROVE i + 1 \in M
  <2>1. SUFFICES ASSUME i + 1 \in 1..n PROVE f[i + 1] = h[i + 1] /\ f[i + 1] \in Seq(S)
    OBVIOUS
  <2>2. i + 1 \in 1..(n + 1) /\ t[i + 1] = s[i + 1] /\ s[i + 1] \in Seq(S)
    BY <1>1, <2>1
  <2>3. CASE i = 0
    BY <1>3, <2>1, <2>2, <2>3
  <2>4. CASE i # 0
    <3>1. i \in 1..n /\ i + 1 # 1 /\ (i + 1) - 1 = i
      BY <1>1, <2>1, <2>4
    <3>2. f[i] = h[i] /\ f[i] \in Seq(S)
      BY <1>5, <3>1
    <3>3. f[i + 1] = f[i] \o s[i + 1] /\ h[i + 1] = h[i] \o t[i + 1]
      BY <1>3, <2>1, <2>2, <3>1
    <3>4. f[i] \o s[i + 1] \in Seq(S)
      BY <2>2, <3>2, ConcatProperties
    <3> QED BY <2>2, <3>2, <3>3, <3>4
  <2> QED BY <2>3, <2>4
<1>6. \A i \in 1..n : f[i] = h[i] /\ f[i] \in Seq(S)
  <2>1. Nat \subseteq M
    <3> HIDE DEF M
    <3> QED BY <1>4, <1>5, NatSetInduction
  <2> QED BY <1>1, <2>1
<1>7. FlattenSeq(t) = h[n + 1]
  <2>1. Len(t) # 0 BY <1>1
  <2> QED BY <1>1, <2>1, FlattenDef DEF h
<1>8. CASE n = 0
  <2>1. s = <<>> BY <1>8, EmptySeq DEF n
  <2>2. FlattenSeq(s) = <<>> BY <1>8, <2>1 DEF FlattenSeq, n
  <2>3. h[n + 1] = x BY <1>1, <1>3, <1>8
  <2>4. <<>> \o x = x BY ConcatEmptySeq
  <2> QED BY <1>7, <2>2, <2>3, <2>4 DEF t
<1>9. CASE n # 0
  <2>1. FlattenSeq(s) = f[n] BY <1>9, FlattenDef DEF n, f
  <2>2. n \in 1..n /\ n + 1 \in 1..(n + 1) /\ n + 1 # 1 /\ (n + 1) - 1 = n
    BY <1>1, <1>9
  <2>3. h[n + 1] = h[n] \o x BY <1>1, <1>3, <2>2
  <2> QED BY <1>6, <1>7, <2>1, <2>2, <2>3 DEF t
<1> QED BY <1>8, <1>9

\* The concatenation of the first c parts.
Part(s, c) == FlattenSeq(SubSeq(s, 1, c))

\* The parts grow by one element after the other.
LEMMA PartFacts ==
  ASSUME NEW S, NEW s \in Seq(Seq(S))
  PROVE  /\ Part(s, 0) = <<>> /\ Part(s, Len(s)) = FlattenSeq(s)
         /\ \A c \in 0..Len(s) : Part(s, c) \in Seq(S)
         /\ \A c \in 0..(Len(s) - 1) : Part(s, c + 1) = Part(s, c) \o s[c + 1]
<1>1. Len(s) \in Nat OBVIOUS
<1>2. SubSeq(s, 1, 0) = <<>> /\ SubSeq(s, 1, Len(s)) = s
  BY SubSeqFull, SubSeqEmpty
<1>3. FlattenSeq(<<>>) = <<>>
  BY DEF FlattenSeq
<1>4. ASSUME NEW c \in 0..Len(s) PROVE SubSeq(s, 1, c) \in Seq(Seq(S))
  BY <1>1, SubSeqProperties
<1>5. ASSUME NEW c \in 0..Len(s) PROVE Part(s, c) \in Seq(S)
  <2>1. <<>> \in Seq(S) BY EmptySeq
  <2> QED BY <1>4, <2>1, FlattenAppend DEF Part
<1>6. ASSUME NEW c \in 0..(Len(s) - 1) PROVE Part(s, c + 1) = Part(s, c) \o s[c + 1]
  <2> DEFINE u == SubSeq(s, 1, c)
             v == SubSeq(s, 1, c + 1)
  <2>1. c \in Nat /\ c + 1 \in 1..Len(s) /\ c \in 0..Len(s) /\ s[c + 1] \in Seq(S)
    BY <1>1, ElementOfSeq
  <2>2. /\ u \in Seq(Seq(S)) /\ v \in Seq(Seq(S)) /\ Len(u) = c /\ Len(v) = c + 1
        /\ (\A i \in 1..c : u[i] = s[i]) /\ (\A i \in 1..(c + 1) : v[i] = s[i])
    BY <1>1, <2>1, SubSeqProperties
  <2> HIDE DEF u, v
  <2>3. v = Append(u, s[c + 1])
    <3> DEFINE w == Append(u, s[c + 1])
    <3>1. w \in Seq(Seq(S)) /\ Len(w) = c + 1 /\ w[c + 1] = s[c + 1] /\ \A i \in 1..c : w[i] = s[i]
      BY <2>1, <2>2, AppendProperties
    <3> HIDE DEF w
    <3>2. ASSUME NEW i \in 1..(c + 1) PROVE w[i] = v[i]
      <4>1. i = c + 1 \/ i \in 1..c BY <2>1
      <4> QED BY <2>1, <2>2, <3>1, <4>1
    <3> QED BY <2>2, <3>1, <3>2, SeqEqual DEF w
  <2> QED BY <2>1, <2>2, <2>3, FlattenAppend DEF Part, u, v
<1> QED BY <1>2, <1>3, <1>5, <1>6 DEF Part

\* A longer concatenation begins with the shorter one.
LEMMA PartGrows ==
  ASSUME NEW S, NEW s \in Seq(Seq(S)), NEW c \in 0..Len(s)
  PROVE  /\ Len(Part(s, c)) <= Len(FlattenSeq(s))
         /\ \A j \in 1..Len(Part(s, c)) : FlattenSeq(s)[j] = Part(s, c)[j]
<1> DEFINE Ext(d) == /\ Len(Part(s, c)) <= Len(Part(s, d))
                     /\ \A j \in 1..Len(Part(s, c)) : Part(s, d)[j] = Part(s, c)[j]
           M == {d \in Nat : d \in c..Len(s) => Ext(d)}
<1>1. Len(s) \in Nat /\ c \in Nat OBVIOUS
<1>2. Part(s, c) \in Seq(S) /\ Len(Part(s, c)) \in Nat BY PartFacts
<1>3. Ext(c) BY <1>2
<1>4. 0 \in M
  <2>1. 0 \in c..Len(s) => c = 0 BY <1>1
  <2> HIDE DEF Ext
  <2> QED BY <1>3, <2>1
<1>5. ASSUME NEW d \in Nat, d \in M PROVE d + 1 \in M
  <2>1. SUFFICES ASSUME d + 1 \in c..Len(s) PROVE Ext(d + 1)
    OBVIOUS
  <2>2. CASE d + 1 = c
    <3> HIDE DEF Ext
    <3> QED BY <1>3, <2>2
  <2>3. CASE d + 1 # c
    <3>1. d \in c..Len(s) /\ d \in 0..(Len(s) - 1) /\ d + 1 \in 1..Len(s)
      BY <1>1, <2>1, <2>3
    <3>2. Ext(d) BY <1>5, <3>1
    <3>3. Part(s, d + 1) = Part(s, d) \o s[d + 1] /\ Part(s, d) \in Seq(S) /\ s[d + 1] \in Seq(S)
      BY <3>1, PartFacts, ElementOfSeq
    <3>4. /\ Len(Part(s, d + 1)) = Len(Part(s, d)) + Len(s[d + 1])
          /\ Len(s[d + 1]) \in Nat /\ Len(Part(s, d)) \in Nat
          /\ \A j \in 1..Len(Part(s, d)) : Part(s, d + 1)[j] = Part(s, d)[j]
      BY <3>3, ConcatProperties, LenProperties
    <3> QED BY <1>2, <3>2, <3>4
  <2> QED BY <2>2, <2>3
<1>6. Ext(Len(s))
  <2>1. Nat \subseteq M
    <3> HIDE DEF M
    <3> QED BY <1>4, <1>5, NatSetInduction
  <2>2. Len(s) \in c..Len(s) BY <1>1
  <2> HIDE DEF Ext
  <2> QED BY <1>1, <2>1, <2>2
<1> QED BY <1>6, PartFacts
=============================================================================
