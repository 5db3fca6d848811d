---------------------------- MODULE SumTheorems ----------------------------
(***************************************************************************)
(* Sums of a function over a finite set, as the community modules fold     *)
(* them: SumFunctionOnSet(c, S) adds up c[x] for all x in S.  The fold is  *)
(* a recursive function that takes out one element after the other, chosen *)
(* from what is left.  What it computes is shown by induction over the     *)
(* subsets of S.  The induction is stated of sets, not of formulas: a set  *)
(* that has s whenever it has every smaller subset has every subset.       *)
(***************************************************************************)
EXTENDS Integers, Functions, FiniteSetTheorems, TLAPS

\* Induction over the subsets of a finite set.
LEMMA SubsetInduction ==
  ASSUME NEW S, IsFiniteSet(S), NEW T,
         \A s \in SUBSET S : (\A u \in SUBSET s : u # s => u \in T) => s \in T
  PROVE  \A s \in SUBSET S : s \in T
<1> SUFFICES ASSUME (SUBSET S) \ T # {} PROVE FALSE
  OBVIOUS
<1>1. FiniteSubsetsOf(S) = SUBSET S
  BY FS_FiniteSubsetsOfFinite
<1>2. IsWellFoundedOn(StrictSubsetOrdering(S), SUBSET S)
  <2> DEFINE F == FiniteSubsetsOf(S)
             P == SUBSET S
  <2>1. IsWellFoundedOn(StrictSubsetOrdering(S), F)
    BY FS_StrictSubsetOrderingWellFounded
  <2>2. F = P
    BY <1>1
  <2> HIDE DEF F, P
  <2>3. IsWellFoundedOn(StrictSubsetOrdering(S), P)
    BY <2>1, <2>2
  <2> QED BY <2>3 DEF P
<1>3. PICK s \in (SUBSET S) \ T : \A u \in (SUBSET S) \ T : ~ (<<u, s>> \in StrictSubsetOrdering(S))
  <2> DEFINE U == (SUBSET S) \ T
             R == StrictSubsetOrdering(S)
  <2>1. U \subseteq SUBSET S /\ U # {} /\ IsWellFoundedOn(R, SUBSET S)
    BY <1>2
  <2> HIDE DEF U, R
  <2>2. \E s \in U : \A u \in U : ~ (<<u, s>> \in R)
    BY <2>1, WFMin
  <2> QED BY <2>2 DEF U, R
<1>4. \A u \in SUBSET s : u # s => u \in T
  BY <1>3 DEF StrictSubsetOrdering
<1> QED BY <1>3, <1>4

-----------------------------------------------------------------------------
(* The fold satisfies its own equation.                                    *)

Taken(s) == CHOOSE x \in s : TRUE
TakeOne(c, g, s) == IF s = {} THEN 0 ELSE c[Taken(s)] + g[s \ {Taken(s)}]
Sums(c, g, S) == g = [s \in SUBSET S |-> TakeOne(c, g, s)]
SumsOf(c, S) == CHOOSE g : Sums(c, g, S)

LEMMA SumIsFold ==
  ASSUME NEW c, NEW S
  PROVE  SumFunctionOnSet(c, S) = SumsOf(c, S)[S]
BY DEF SumFunctionOnSet, FoldFunctionOnSet, MapThenFoldSet, SumsOf, Sums, TakeOne, Taken

LEMMA TakenIn == \A s : s # {} => Taken(s) \in s
BY DEF Taken

\* Solutions of the equation for two sets agree on the smaller one.
LEMMA SumsAgree ==
  ASSUME NEW S, NEW T \in SUBSET S, IsFiniteSet(T), NEW c, NEW g, Sums(c, g, S), NEW h, Sums(c, h, T)
  PROVE  g[T] = h[T]
<1> DEFINE A == {s \in SUBSET T : g[s] = h[s]}
<1>1. ASSUME NEW s \in SUBSET T, \A u \in SUBSET s : u # s => u \in A
      PROVE  s \in A
  <2>1. g[s] = TakeOne(c, g, s) /\ h[s] = TakeOne(c, h, s)
    BY DEF Sums
  <2>2. s # {} => s \ {Taken(s)} \in A
    BY <1>1, TakenIn
  <2>3. TakeOne(c, g, s) = TakeOne(c, h, s)
    BY <2>2 DEF TakeOne
  <2> QED BY <2>1, <2>3
<1> HIDE DEF A
<1>2. \A s \in SUBSET T : s \in A
  BY <1>1, SubsetInduction
<1> QED BY <1>2 DEF A

\* The equation has a solution for the set.
HasSums(c, s) == \E g : Sums(c, g, s)

LEMMA SumsSolve ==
  ASSUME NEW S, NEW c, HasSums(c, S)
  PROVE  Sums(c, SumsOf(c, S), S)
BY DEF HasSums, SumsOf

LEMMA SumTakesOne ==
  ASSUME NEW S, IsFiniteSet(S), NEW c, \A s \in SUBSET S : HasSums(c, s)
  PROVE  SumFunctionOnSet(c, S) =
           TakeOne(c, [s \in SUBSET S |-> SumFunctionOnSet(c, s)], S)
<1>1. Sums(c, SumsOf(c, S), S)
  BY SumsSolve
<1>2. SumFunctionOnSet(c, S) = TakeOne(c, SumsOf(c, S), S)
  <2> DEFINE g == SumsOf(c, S)
  <2> HIDE DEF g
  <2>1. g = [s \in SUBSET S |-> TakeOne(c, g, s)]
    BY <1>1 DEF Sums, g
  <2>2. g[S] = TakeOne(c, g, S)
    BY <2>1
  <2> QED BY <2>2, SumIsFold DEF g
<1>3. CASE S = {}
  BY <1>2, <1>3 DEF TakeOne
<1>4. CASE S # {}
  <2> DEFINE t == S \ {Taken(S)}
  <2>1. t \in SUBSET S /\ t # S /\ IsFiniteSet(t)
    BY <1>4, TakenIn, FS_Subset
  <2>2. Sums(c, SumsOf(c, t), t)
    BY <2>1, SumsSolve
  <2>3. SumsOf(c, S)[t] = SumsOf(c, t)[t]
    <3> DEFINE g == SumsOf(c, S)
               h == SumsOf(c, t)
    <3>1. Sums(c, g, S) /\ Sums(c, h, t) /\ t \in SUBSET S /\ IsFiniteSet(t)
      BY <1>1, <2>1, <2>2
    <3> HIDE DEF g, h, t
    <3>2. g[t] = h[t]
      BY <3>1, SumsAgree
    <3> QED BY <3>2 DEF g, h
  <2>4. SumsOf(c, S)[t] = SumFunctionOnSet(c, t)
    BY <2>3, SumIsFold
  <2> HIDE DEF t
  <2>5. [s \in SUBSET S |-> SumFunctionOnSet(c, s)][t] = SumFunctionOnSet(c, t)
    BY <2>1
  <2> QED BY <1>2, <1>4, <2>4, <2>5 DEF TakeOne, t
<1> QED BY <1>3, <1>4

\* Every finite set has sums: those of its subsets, and its own made of them.
LEMMA SumsExist ==
  ASSUME NEW S, IsFiniteSet(S), NEW c
  PROVE  \A s \in SUBSET S : HasSums(c, s)
<1> DEFINE A == {s \in SUBSET S : HasSums(c, s)}
<1>1. ASSUME NEW s \in SUBSET S, \A u \in SUBSET s : u # s => u \in A
      PROVE  s \in A
  <2> DEFINE k == [u \in SUBSET s |-> SumFunctionOnSet(c, u)]
             g == [u \in SUBSET s |-> TakeOne(c, k, u)]
  <2>1. ASSUME NEW u \in SUBSET s PROVE TakeOne(c, k, u) = TakeOne(c, g, u)
    <3>1. CASE u = {}
      BY <3>1 DEF TakeOne
    <3>2. CASE u # {}
      <4> DEFINE v == u \ {Taken(u)}
      <4>1. v \in SUBSET s /\ v # s /\ IsFiniteSet(v)
        BY <3>2, TakenIn, FS_Subset
      <4>2. \A w \in SUBSET v : HasSums(c, w)
        <5> SUFFICES ASSUME NEW w \in SUBSET v PROVE HasSums(c, w)
          OBVIOUS
        <5>1. w \in SUBSET s /\ w # s
          BY <3>2, TakenIn
        <5> QED BY <1>1, <5>1
      <4>3. SumFunctionOnSet(c, v) = TakeOne(c, [w \in SUBSET v |-> SumFunctionOnSet(c, w)], v)
        BY <4>1, <4>2, SumTakesOne
      <4>4. TakeOne(c, [w \in SUBSET v |-> SumFunctionOnSet(c, w)], v) = TakeOne(c, k, v)
        <5>1. v # {} => v \ {Taken(v)} \in SUBSET v /\ v \ {Taken(v)} \in SUBSET s
          BY <4>1
        <5> HIDE DEF v
        <5> QED BY <5>1 DEF TakeOne
      <4>5. g[v] = k[v]
        <5> HIDE DEF v
        <5>1. k[v] = SumFunctionOnSet(c, v)
          BY <4>1
        <5>2. g[v] = TakeOne(c, k, v)
          BY <4>1
        <5> QED BY <4>3, <4>4, <5>1, <5>2
      <4> HIDE DEF k, g
      <4> QED BY <3>2, <4>5 DEF TakeOne
    <3> QED BY <3>1, <3>2
  <2>2. Sums(c, g, s)
    BY <2>1 DEF Sums
  <2> QED BY <2>2 DEF HasSums
<1> HIDE DEF A
<1>2. \A s \in SUBSET S : s \in A
  BY <1>1, SubsetInduction
<1> QED BY <1>2 DEF A

LEMMA SumEquation ==
  ASSUME NEW S, IsFiniteSet(S), S # {}, NEW c
  PROVE  SumFunctionOnSet(c, S) = c[Taken(S)] + SumFunctionOnSet(c, S \ {Taken(S)})
<1>1. SumFunctionOnSet(c, S) = TakeOne(c, [s \in SUBSET S |-> SumFunctionOnSet(c, s)], S)
  BY SumTakesOne, SumsExist
<1> DEFINE t == S \ {Taken(S)}
<1>2. t \in SUBSET S
  OBVIOUS
<1> HIDE DEF t
<1> QED BY <1>1, <1>2 DEF TakeOne, t

LEMMA SumEmpty == ASSUME NEW c PROVE SumFunctionOnSet(c, {}) = 0
BY SumTakesOne, SumsExist, FS_EmptySet DEF TakeOne

-----------------------------------------------------------------------------
(* What the sum is, whatever the order in which elements are taken.        *)

\* A sum of integers is an integer.
LEMMA SumInt ==
  ASSUME NEW S, IsFiniteSet(S), NEW c, \A x \in S : c[x] \in Int
  PROVE  \A s \in SUBSET S : SumFunctionOnSet(c, s) \in Int
<1> DEFINE A == {s \in SUBSET S : SumFunctionOnSet(c, s) \in Int}
<1>1. ASSUME NEW s \in SUBSET S, \A u \in SUBSET s : u # s => u \in A
      PROVE  s \in A
  <2>1. CASE s = {}
    BY <2>1, SumEmpty
  <2>2. CASE s # {}
    <3>1. s \ {Taken(s)} \in A /\ c[Taken(s)] \in Int /\ IsFiniteSet(s)
      BY <1>1, <2>2, TakenIn, FS_Subset
    <3>2. SumFunctionOnSet(c, s) = c[Taken(s)] + SumFunctionOnSet(c, s \ {Taken(s)})
      BY <2>2, <3>1, SumEquation
    <3>3. SumFunctionOnSet(c, s) \in Int
      BY <3>1, <3>2
    <3> QED BY <3>3
  <2> QED BY <2>1, <2>2
<1> HIDE DEF A
<1>2. \A s \in SUBSET S : s \in A
  BY <1>1, SubsetInduction
<1> QED BY <1>2 DEF A

\* Any element may be taken out first.
THEOREM SumRemove ==
  ASSUME NEW S, IsFiniteSet(S), NEW c, \A x \in S : c[x] \in Int
  PROVE  \A x \in S : SumFunctionOnSet(c, S) = c[x] + SumFunctionOnSet(c, S \ {x})
<1> DEFINE A == {s \in SUBSET S : \A x \in s :
                   SumFunctionOnSet(c, s) = c[x] + SumFunctionOnSet(c, s \ {x})}
<1>1. ASSUME NEW s \in SUBSET S, \A u \in SUBSET s : u # s => u \in A
      PROVE  s \in A
  <2> SUFFICES ASSUME NEW x \in s
               PROVE  SumFunctionOnSet(c, s) = c[x] + SumFunctionOnSet(c, s \ {x})
    OBVIOUS
  <2> DEFINE y == Taken(s)
  <2>1. y \in s /\ IsFiniteSet(s)
    BY TakenIn, FS_Subset
  <2>2. SumFunctionOnSet(c, s) = c[y] + SumFunctionOnSet(c, s \ {y})
    BY <2>1, SumEquation
  <2> HIDE DEF y
  <2>3. CASE x = y
    BY <2>2, <2>3
  <2>4. CASE x # y
    <3>1. SumFunctionOnSet(c, s \ {y}) = c[x] + SumFunctionOnSet(c, (s \ {y}) \ {x})
      BY <1>1, <2>1, <2>4
    <3>2. SumFunctionOnSet(c, s \ {x}) = c[y] + SumFunctionOnSet(c, (s \ {x}) \ {y})
      BY <1>1, <2>1, <2>4
    <3>3. (s \ {x}) \ {y} = (s \ {y}) \ {x}
      OBVIOUS
    <3>4. /\ SumFunctionOnSet(c, (s \ {y}) \ {x}) \in Int
          /\ c[x] \in Int /\ c[y] \in Int
      BY <2>1, SumInt
    <3> DEFINE rest == SumFunctionOnSet(c, (s \ {y}) \ {x})
    <3>5. /\ SumFunctionOnSet(c, s) = c[y] + (c[x] + rest)
          /\ SumFunctionOnSet(c, s \ {x}) = c[y] + rest
      BY <2>2, <3>1, <3>2, <3>3
    <3>6. rest \in Int
      BY <3>4
    <3> HIDE DEF rest
    <3> QED BY <3>4, <3>5, <3>6
  <2> QED BY <2>3, <2>4
<1> HIDE DEF A
<1>2. \A s \in SUBSET S : s \in A
  BY <1>1, SubsetInduction
<1> QED BY <1>2 DEF A

\* Functions that agree on a set have the same sum.
THEOREM SumSame ==
  ASSUME NEW S, IsFiniteSet(S), NEW c, NEW d, \A x \in S : c[x] = d[x]
  PROVE  SumFunctionOnSet(c, S) = SumFunctionOnSet(d, S)
<1> DEFINE A == {s \in SUBSET S : SumFunctionOnSet(c, s) = SumFunctionOnSet(d, s)}
<1>1. ASSUME NEW s \in SUBSET S, \A u \in SUBSET s : u # s => u \in A
      PROVE  s \in A
  <2>1. CASE s = {}
    BY <2>1, SumEmpty
  <2>2. CASE s # {}
    <3>1. s \ {Taken(s)} \in A /\ c[Taken(s)] = d[Taken(s)] /\ IsFiniteSet(s)
      BY <1>1, <2>2, TakenIn, FS_Subset
    <3> QED BY <2>2, <3>1, SumEquation
  <2> QED BY <2>1, <2>2
<1> HIDE DEF A
<1>2. \A s \in SUBSET S : s \in A
  BY <1>1, SubsetInduction
<1> QED BY <1>2 DEF A

\* Sums of natural numbers grow with the set and with the function.
THEOREM SumMonotone ==
  ASSUME NEW T, IsFiniteSet(T), NEW S \in SUBSET T, NEW c, NEW d,
         \A x \in T : d[x] \in Nat,
         \A x \in S : c[x] \in Nat /\ c[x] <= d[x]
  PROVE  SumFunctionOnSet(c, S) <= SumFunctionOnSet(d, T)
<1> DEFINE A == {t \in SUBSET T :
                   SumFunctionOnSet(c, S \cap t) <= SumFunctionOnSet(d, t)}
<1>1. ASSUME NEW t \in SUBSET T, \A u \in SUBSET t : u # t => u \in A
      PROVE  t \in A
  <2>1. CASE t = {}
    <3>1. S \cap t = {}
      BY <2>1
    <3> QED BY <2>1, <3>1, SumEmpty
  <2>2. CASE t # {}
    <3>1. PICK x \in t : TRUE
      BY <2>2
    <3> DEFINE u == t \ {x}
    <3>2. u \in SUBSET T /\ u \in SUBSET t /\ u # t
      BY <3>1
    <3>3. SumFunctionOnSet(c, S \cap u) <= SumFunctionOnSet(d, u)
      <4> HIDE DEF u
      <4> QED BY <1>1, <3>2
    <3>4. IsFiniteSet(t) /\ IsFiniteSet(S) /\ IsFiniteSet(S \cap t)
      BY FS_Subset
    <3>5. SumFunctionOnSet(d, t) = d[x] + SumFunctionOnSet(d, u)
      BY <3>1, <3>4, SumRemove
    <3>6. SumFunctionOnSet(c, S \cap u) \in Int /\ SumFunctionOnSet(d, u) \in Int
      BY <3>2, <3>4, SumInt
    <3>7. CASE x \in S
      <4>1. (S \cap t) \ {x} = S \cap u
        OBVIOUS
      <4>2. SumFunctionOnSet(c, S \cap t) = c[x] + SumFunctionOnSet(c, S \cap u)
        BY <3>1, <3>4, <3>7, <4>1, SumRemove
      <4>3. c[x] \in Nat /\ d[x] \in Nat /\ c[x] <= d[x]
        BY <3>1, <3>7
      <4> HIDE DEF u
      <4>4. SumFunctionOnSet(c, S \cap t) <= SumFunctionOnSet(d, t)
        BY <3>3, <3>5, <3>6, <4>2, <4>3
      <4> QED BY <4>4
    <3>8. CASE x \notin S
      <4>1. S \cap t = S \cap u
        BY <3>8
      <4>2. d[x] \in Nat
        BY <3>1
      <4> HIDE DEF u
      <4>3. SumFunctionOnSet(c, S \cap t) = SumFunctionOnSet(c, S \cap u)
        BY <4>1
      <4>4. SumFunctionOnSet(c, S \cap t) <= SumFunctionOnSet(d, t)
        BY <3>3, <3>5, <3>6, <4>2, <4>3
      <4> QED BY <4>4
    <3> QED BY <3>7, <3>8
  <2> QED BY <2>1, <2>2
<1> HIDE DEF A
<1>2. \A t \in SUBSET T : t \in A
  BY <1>1, SubsetInduction
<1>3. SumFunctionOnSet(c, S \cap T) <= SumFunctionOnSet(d, T)
  BY <1>2 DEF A
<1>4. S \cap T = S
  OBVIOUS
<1> QED BY <1>3, <1>4

\* A sum of natural numbers is a natural number.
LEMMA SumNat ==
  ASSUME NEW S, IsFiniteSet(S), NEW c, \A x \in S : c[x] \in Nat
  PROVE  SumFunctionOnSet(c, S) \in Nat
<1>1. SumFunctionOnSet(c, S) \in Int
  BY SumInt
<1>2. SumFunctionOnSet(c, {}) <= SumFunctionOnSet(c, S)
  BY SumMonotone
<1>3. SumFunctionOnSet(c, {}) = 0
  BY SumEmpty
<1> QED BY <1>1, <1>2, <1>3
=============================================================================
