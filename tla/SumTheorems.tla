---------------------------- MODULE SumTheorems ----------------------------
\* Facts about SumFunctionOnSet of the community module Functions, for the
\* values of a function that are natural numbers, on a finite set.
\*
\* The library's induction theorems take an operator as a parameter. Here
\* induction is stated with a set instead: of numbers, or of subsets.
EXTENDS Naturals, FiniteSets, Functions, FiniteSetTheorems, WellFoundedInduction, TLAPS

\* Products and quotients of natural numbers.
LEMMA ProductMonotone ==
  ASSUME NEW a \in Nat, NEW b \in Nat, NEW d \in Nat, a <= b
  PROVE  a * d <= b * d
<1>1. b * d = a * d + (b - a) * d OBVIOUS
<1>2. (b - a) * d >= 0
 <2>1. b - a \in Nat OBVIOUS
 <2>2. \A x, y \in Nat : x * y >= 0 OBVIOUS
 <2>3. QED BY <2>1, <2>2
<1>3. QED BY <1>1, <1>2

LEMMA QuotientBound ==
  ASSUME NEW s \in Nat, NEW d \in Nat \ {0}
  PROVE  s \div d \in Nat /\ (s \div d) * d <= s
  OBVIOUS

Below == {ss \in Nat \X Nat : ss[1] < ss[2]}

LEMMA BelowWellFounded == IsWellFoundedOn(Below, Nat)
  BY NatLessThanWellFounded, Zenon DEF OpToRel, Below

\* A set of numbers with 0 and with the successor of each holds them all.
LEMMA NatSetInduction ==
  ASSUME NEW S, 0 \in S, \A n \in Nat : n \in S => n + 1 \in S
  PROVE  Nat \subseteq S
<1> SUFFICES ASSUME ~(Nat \subseteq S) PROVE FALSE OBVIOUS
<1> DEFINE T == Nat \ S
<1>1. T # {} /\ T \subseteq Nat OBVIOUS
<1> HIDE DEF T
<1>2. PICK x \in T : \A y \in T : ~(<<y, x>> \in Below) BY <1>1, BelowWellFounded, WFMin, Zenon
<1>3. \A y \in T : ~(y < x) BY <1>1, <1>2 DEF Below
<1> QED BY <1>1, <1>3 DEF T

\* A family with {} and, with each of its finite sets, the set that has one
\* element of S more, holds every finite set S.
LEMMA FiniteSetInduction ==
  ASSUME NEW S, IsFiniteSet(S), NEW F, {} \in F,
         \A T \in SUBSET S : \A x \in S \ T : T \in F => T \cup {x} \in F
  PROVE  S \in F
<1> DEFINE Of(n) == \A T \in SUBSET S : Cardinality(T) = n => T \in F
           N == {n \in Nat : Of(n)}
<1>1. \A T \in SUBSET S : IsFiniteSet(T) /\ Cardinality(T) \in Nat BY FS_Subset, FS_CardinalityType
<1>2. Of(0) BY <1>1, FS_EmptySet
<1>3. ASSUME NEW n \in Nat, Of(n) PROVE Of(n + 1)
 <2> SUFFICES ASSUME NEW T \in SUBSET S, Cardinality(T) = n + 1 PROVE T \in F OBVIOUS
 <2> HIDE DEF N
 <2>1. Cardinality({}) = 0 BY FS_EmptySet
 <2>2. T # {} BY <2>1
 <2>3. PICK x \in T : TRUE BY <2>2
 <2>4. IsFiniteSet(T) BY <1>1
 <2>5. Cardinality(T \ {x}) = IF x \in T THEN Cardinality(T) - 1 ELSE Cardinality(T) BY <2>4, FS_RemoveElement
 <2>6. T \ {x} \in SUBSET S /\ Cardinality(T \ {x}) = n BY <2>3, <2>5
 <2>7. T \ {x} \in F BY <1>3, <2>6
 <2>8. T = (T \ {x}) \cup {x} /\ x \in S \ (T \ {x}) BY <2>3
 <2> QED BY <2>6, <2>7, <2>8
<1> HIDE DEF Of
<1>4. Nat \subseteq N
 <2>1. 0 \in N BY <1>2
 <2>2. \A n \in Nat : n \in N => n + 1 \in N BY <1>3
 <2> HIDE DEF N
 <2> QED BY <2>1, <2>2, NatSetInduction
<1>5. Cardinality(S) \in N BY <1>1, <1>4
<1>6. Of(Cardinality(S)) BY <1>5
<1> QED BY <1>6 DEF Of

----
\* The recursive function that a sum is a value of.

AnyOf(s) == CHOOSE x \in s : TRUE

Sums(g, f, D) ==
  g = [s \in D |-> IF s = {} THEN 0 ELSE f[AnyOf(s)] + g[s \ {AnyOf(s)}]]

LEMMA SumIsAValue ==
  ASSUME NEW f, NEW S
  PROVE  SumFunctionOnSet(f, S) = (CHOOSE g : Sums(g, f, SUBSET S))[S]
  BY Zenon DEF SumFunctionOnSet, FoldFunctionOnSet, MapThenFoldSet, Sums, AnyOf

\* The subsets of S with at most n elements.
Upto(n, S) == {s \in SUBSET S : Cardinality(s) <= n}

LEMMA OneSmaller ==
  ASSUME NEW S, IsFiniteSet(S), NEW s \in SUBSET S, s # {}
  PROVE  /\ AnyOf(s) \in s
         /\ IsFiniteSet(s) /\ Cardinality(s) \in Nat \ {0}
         /\ \A x \in s : /\ s \ {x} \in SUBSET S
                          /\ Cardinality(s \ {x}) = Cardinality(s) - 1
<1>1. AnyOf(s) \in s BY DEF AnyOf
<1>2. IsFiniteSet(s) BY FS_Subset
<1>3. Cardinality(s) \in Nat /\ Cardinality(s) # 0 BY <1>2, FS_CardinalityType, FS_EmptySet
<1>4. \A x \in s : Cardinality(s \ {x}) = Cardinality(s) - 1 BY <1>2, FS_RemoveElement
<1> QED BY <1>1, <1>2, <1>3, <1>4

LEMMA SumsExist ==
  ASSUME NEW S, IsFiniteSet(S), NEW f
  PROVE  \E g : Sums(g, f, SUBSET S)
<1> DEFINE Some(n) == \E g : Sums(g, f, Upto(n, S))
           N == {n \in Nat : Some(n)}
<1>1. \A s \in SUBSET S : Cardinality(s) \in Nat BY FS_Subset, FS_CardinalityType
<1>2. Some(0)
 <2>1. Upto(0, S) \subseteq {{}} BY <1>1, OneSmaller DEF Upto
 <2> DEFINE g == [s \in Upto(0, S) |-> 0]
 <2>2. g = [s \in Upto(0, S) |-> IF s = {} THEN 0 ELSE f[AnyOf(s)] + g[s \ {AnyOf(s)}]] BY <2>1
 <2>3. Sums(g, f, Upto(0, S)) BY <2>2 DEF Sums
 <2> QED BY <2>3
<1>3. ASSUME NEW n \in Nat, Some(n) PROVE Some(n + 1)
 <2> DEFINE Value(h, s) == IF s = {} THEN 0 ELSE f[AnyOf(s)] + h[s \ {AnyOf(s)}]
 <2>1. PICK g : g = [s \in Upto(n, S) |-> Value(g, s)] BY <1>3 DEF Sums
 <2> DEFINE h == [s \in Upto(n + 1, S) |-> Value(g, s)]
 <2>2. Upto(n, S) \subseteq Upto(n + 1, S) BY <1>1 DEF Upto
 <2>3. \A s \in Upto(n, S) : h[s] = g[s]
  <3> SUFFICES ASSUME NEW s \in Upto(n, S) PROVE h[s] = g[s] OBVIOUS
  <3>1. h[s] = Value(g, s) BY <2>2
  <3>2. g[s] = Value(g, s) BY <2>1
  <3> QED BY <3>1, <3>2
 <2>4. \A s \in Upto(n + 1, S) : s # {} => s \ {AnyOf(s)} \in Upto(n, S) BY <1>1, OneSmaller DEF Upto
 <2>5. \A s \in Upto(n + 1, S) : Value(h, s) = Value(g, s)
  <3> HIDE DEF h
  <3> QED BY <2>3, <2>4
 <2>6. h = [s \in Upto(n + 1, S) |-> Value(h, s)] BY <2>5
 <2>7. Sums(h, f, Upto(n + 1, S)) BY <2>6 DEF Sums
 <2> QED BY <2>7
<1> HIDE DEF Some
<1>4. Nat \subseteq N
 <2>1. 0 \in N BY <1>2
 <2>2. \A n \in Nat : n \in N => n + 1 \in N BY <1>3
 <2> HIDE DEF N
 <2> QED BY <2>1, <2>2, NatSetInduction
<1>5. Cardinality(S) \in N BY <1>1, <1>4
<1>6. Some(Cardinality(S)) BY <1>5
<1>7. Upto(Cardinality(S), S) = SUBSET S BY FS_Subset DEF Upto
<1> QED BY <1>6, <1>7 DEF Some

AddsUp(g, f, S) == Sums(g, f, SUBSET S)

\* The sum over S is g[S] for a g that adds up the subsets of S.
LEMMA SumHasSums ==
  ASSUME NEW S, IsFiniteSet(S), NEW f
  PROVE  \E g : AddsUp(g, f, S) /\ SumFunctionOnSet(f, S) = g[S]
<1> DEFINE g == CHOOSE h : Sums(h, f, SUBSET S)
<1>1. AddsUp(g, f, S) BY SumsExist DEF AddsUp
<1>2. SumFunctionOnSet(f, S) = g[S] BY SumIsAValue
<1> QED BY <1>1, <1>2

\* The value for a set does not depend on the order of its elements.
LEMMA SumsInAnyOrder ==
  ASSUME NEW S, IsFiniteSet(S), NEW f, \A x \in S : f[x] \in Nat,
         NEW g, AddsUp(g, f, S)
  PROVE  \A s \in SUBSET S : g[s] \in Nat /\ \A x \in s : g[s] = f[x] + g[s \ {x}]
<1> DEFINE Good(t) == g[t] \in Nat /\ \A x \in t : g[t] = f[x] + g[t \ {x}]
           Of(n) == \A t \in SUBSET S : Cardinality(t) <= n => Good(t)
           N == {n \in Nat : Of(n)}
<1>1. \A t \in SUBSET S : Cardinality(t) \in Nat /\ (Cardinality(t) = 0 => t = {})
  BY FS_Subset, FS_CardinalityType, FS_EmptySet
<1>2. \A t \in SUBSET S : g[t] = IF t = {} THEN 0 ELSE f[AnyOf(t)] + g[t \ {AnyOf(t)}] BY DEF AddsUp, Sums
<1>3. Good({}) BY <1>2
<1>4. Of(0)
 <2>1. \A t \in SUBSET S : Cardinality(t) <= 0 => t = {} BY <1>1
 <2> HIDE DEF Good
 <2> QED BY <1>3, <2>1
<1>5. ASSUME NEW n \in Nat, Of(n) PROVE Of(n + 1)
 <2> HIDE DEF N
 <2> SUFFICES ASSUME NEW t \in SUBSET S, Cardinality(t) <= n + 1, t # {} PROVE Good(t)
  <3> HIDE DEF Good
  <3> QED BY <1>3
 <2> DEFINE p == AnyOf(t)
 <2>1. /\ p \in t
       /\ \A x \in t : t \ {x} \in SUBSET S /\ Cardinality(t \ {x}) <= n
   BY OneSmaller
 <2>2. g[t] = f[p] + g[t \ {p}] BY <1>2
 <2> HIDE DEF p
 <2>3. ASSUME NEW x \in t PROVE Good(t \ {x})
  <3> HIDE DEF Good
  <3> QED BY <1>5, <2>1
 <2>4. ASSUME NEW x \in t PROVE g[t] = f[x] + g[t \ {x}]
  <3>1. CASE x = p BY <2>2, <3>1
  <3>2. CASE x # p
   <4> DEFINE u == t \ {x, p}
   <4>1. u = (t \ {p}) \ {x} /\ u = (t \ {x}) \ {p} OBVIOUS
   <4> HIDE DEF u
   <4>2. g[t \ {p}] = f[x] + g[u] BY <2>1, <2>3, <3>2, <4>1
   <4>3. g[t \ {x}] = f[p] + g[u] BY <2>1, <2>3, <3>2, <4>1
   <4>4. g[u] \in Nat
    <5>1. u \in SUBSET S /\ Cardinality(u) <= n
     <6> DEFINE r == t \ {x}
     <6>1. r # {} /\ r \in SUBSET S /\ p \in r /\ u = r \ {p} /\ Cardinality(r) <= n BY <2>1, <3>2, <4>1
     <6> HIDE DEF r
     <6>2. Cardinality(u) = Cardinality(r) - 1 /\ Cardinality(r) \in Nat BY <6>1, OneSmaller
     <6> QED BY <6>1, <6>2
    <5> QED BY <1>5, <5>1
   <4> QED BY <2>1, <2>2, <4>2, <4>3, <4>4
  <3> QED BY <3>1, <3>2
 <2>5. g[t] \in Nat
  <3>1. f[p] \in Nat /\ g[t \ {p}] \in Nat BY <2>1, <2>3
  <3> QED BY <2>2, <3>1
 <2> QED BY <2>4, <2>5
<1>6. Nat \subseteq N
 <2> HIDE DEF Of
 <2>1. 0 \in N BY <1>4
 <2>2. \A n \in Nat : n \in N => n + 1 \in N BY <1>5
 <2> HIDE DEF N
 <2> QED BY <2>1, <2>2, NatSetInduction
<1>7. ASSUME NEW s \in SUBSET S PROVE Good(s)
 <2>1. Cardinality(s) \in N BY <1>1, <1>6
 <2>2. Of(Cardinality(s)) BY <2>1
 <2> HIDE DEF Good
 <2> QED BY <1>1, <2>2
<1> QED BY <1>7

Within(S, D) == S \subseteq D
SameOn(f, e, S) == \A x \in S : e[x] = f[x]

\* Functions that agree on a set have the same sums over it.
LEMMA SumsAgree ==
  ASSUME NEW S, IsFiniteSet(S), NEW f, NEW g, AddsUp(g, f, S),
         NEW D, Within(S, D), NEW e, NEW h, AddsUp(h, e, D),
         SameOn(f, e, S)
  PROVE  g[S] = h[S]
<1> DEFINE Of(n) == \A t \in SUBSET S : Cardinality(t) <= n => g[t] = h[t]
           N == {n \in Nat : Of(n)}
<1>1. \A t \in SUBSET S : Cardinality(t) \in Nat /\ (Cardinality(t) = 0 => t = {})
  BY FS_Subset, FS_CardinalityType, FS_EmptySet
<1>2. \A t \in SUBSET S :
        /\ g[t] = IF t = {} THEN 0 ELSE f[AnyOf(t)] + g[t \ {AnyOf(t)}]
        /\ h[t] = IF t = {} THEN 0 ELSE e[AnyOf(t)] + h[t \ {AnyOf(t)}]
  BY DEF AddsUp, Sums, Within
<1>3. Of(0)
 <2>1. \A t \in SUBSET S : Cardinality(t) <= 0 => t = {} BY <1>1
 <2>2. g[{}] = 0 /\ h[{}] = 0 BY <1>2
 <2> QED BY <2>1, <2>2
<1>4. ASSUME NEW n \in Nat, Of(n) PROVE Of(n + 1)
 <2> HIDE DEF N
 <2> SUFFICES ASSUME NEW t \in SUBSET S, Cardinality(t) <= n + 1, t # {} PROVE g[t] = h[t] BY <1>2
 <2> DEFINE p == AnyOf(t)
 <2>1. p \in t /\ t \ {p} \in SUBSET S /\ Cardinality(t \ {p}) <= n BY OneSmaller
 <2>2. g[t] = f[p] + g[t \ {p}] /\ h[t] = e[p] + h[t \ {p}] BY <1>2
 <2> HIDE DEF p
 <2> QED BY <1>4, <2>1, <2>2 DEF SameOn
<1>5. Nat \subseteq N
 <2> HIDE DEF Of
 <2>1. 0 \in N BY <1>3
 <2>2. \A n \in Nat : n \in N => n + 1 \in N BY <1>4
 <2> HIDE DEF N
 <2> QED BY <2>1, <2>2, NatSetInduction
<1>6. Cardinality(S) \in N BY <1>1, <1>5
<1> QED BY <1>1, <1>6

----
\* What the proofs of the other modules use.

LEMMA SumOfNone == ASSUME NEW f PROVE SumFunctionOnSet(f, {}) = 0
<1>1. IsFiniteSet({}) BY FS_EmptySet
<1>2. PICK g : AddsUp(g, f, {}) /\ SumFunctionOnSet(f, {}) = g[{}] BY <1>1, SumHasSums
<1> QED BY <1>2 DEF AddsUp, Sums

LEMMA SumIsNat ==
  ASSUME NEW S, IsFiniteSet(S), NEW f, \A x \in S : f[x] \in Nat
  PROVE  SumFunctionOnSet(f, S) \in Nat
<1>1. PICK g : AddsUp(g, f, S) /\ SumFunctionOnSet(f, S) = g[S] BY SumHasSums
<1>2. g[S] \in Nat BY <1>1, SumsInAnyOrder, S \in SUBSET S
<1> QED BY <1>1, <1>2

\* Only the values on the set matter.
LEMMA SumOfSame ==
  ASSUME NEW S, IsFiniteSet(S), NEW f, NEW e, \A x \in S : e[x] = f[x]
  PROVE  SumFunctionOnSet(f, S) = SumFunctionOnSet(e, S)
<1>1. PICK g : AddsUp(g, f, S) /\ SumFunctionOnSet(f, S) = g[S] BY SumHasSums
<1>2. PICK h : AddsUp(h, e, S) /\ SumFunctionOnSet(e, S) = h[S] BY SumHasSums
<1>3. g[S] = h[S]
 <2>1. Within(S, S) /\ SameOn(f, e, S) BY DEF SameOn, Within
 <2> QED BY <1>1, <1>2, <2>1, SumsAgree
<1> QED BY <1>1, <1>2, <1>3

\* Any element can be taken out.
LEMMA SumWithout ==
  ASSUME NEW S, IsFiniteSet(S), NEW f, \A x \in S : f[x] \in Nat, NEW x \in S
  PROVE  SumFunctionOnSet(f, S) = f[x] + SumFunctionOnSet(f, S \ {x})
<1>1. PICK g : AddsUp(g, f, S) /\ SumFunctionOnSet(f, S) = g[S] BY SumHasSums
<1>2. IsFiniteSet(S \ {x}) BY FS_RemoveElement
<1>3. PICK h : AddsUp(h, f, S \ {x}) /\ SumFunctionOnSet(f, S \ {x}) = h[S \ {x}] BY <1>2, SumHasSums
<1>4. g[S] = f[x] + g[S \ {x}] BY <1>1, SumsInAnyOrder
<1>5. h[S \ {x}] = g[S \ {x}]
 <2>1. Within(S \ {x}, S) /\ SameOn(f, f, S \ {x}) BY DEF SameOn, Within
 <2> QED BY <1>1, <1>2, <1>3, <2>1, SumsAgree
<1> QED BY <1>1, <1>3, <1>4, <1>5

\* An element can be added.
LEMMA SumWith ==
  ASSUME NEW S, IsFiniteSet(S), NEW f, NEW x, x \notin S,
         f[x] \in Nat, \A y \in S : f[y] \in Nat
  PROVE  SumFunctionOnSet(f, S \cup {x}) = f[x] + SumFunctionOnSet(f, S)
<1> DEFINE T == S \cup {x}
<1>1. IsFiniteSet(T) /\ x \in T /\ T \ {x} = S /\ \A y \in T : f[y] \in Nat BY FS_AddElement
<1> HIDE DEF T
<1>2. SumFunctionOnSet(f, T) = f[x] + SumFunctionOnSet(f, T \ {x}) BY <1>1, SumWithout
<1> QED BY <1>1, <1>2 DEF T

\* One value changes.
LEMMA SumOfChange ==
  ASSUME NEW S, IsFiniteSet(S), NEW f, NEW e, NEW x \in S,
         \A y \in S : f[y] \in Nat /\ e[y] \in Nat,
         \A y \in S \ {x} : e[y] = f[y]
  PROVE  SumFunctionOnSet(e, S) + f[x] = SumFunctionOnSet(f, S) + e[x]
<1>1. IsFiniteSet(S \ {x}) BY FS_RemoveElement
<1>2. SumFunctionOnSet(f, S \ {x}) = SumFunctionOnSet(e, S \ {x}) BY <1>1, SumOfSame
<1>3. SumFunctionOnSet(f, S \ {x}) \in Nat BY <1>1, SumIsNat
<1>4. SumFunctionOnSet(f, S) = f[x] + SumFunctionOnSet(f, S \ {x}) BY SumWithout
<1>5. SumFunctionOnSet(e, S) = e[x] + SumFunctionOnSet(e, S \ {x}) BY SumWithout
<1> QED BY <1>2, <1>3, <1>4, <1>5

\* A part and the rest.
LEMMA SumOfSplit ==
  ASSUME NEW S, IsFiniteSet(S), NEW f, \A x \in S : f[x] \in Nat, NEW T \in SUBSET S
  PROVE  /\ SumFunctionOnSet(f, T) \in Nat /\ SumFunctionOnSet(f, S \ T) \in Nat
         /\ SumFunctionOnSet(f, S) = SumFunctionOnSet(f, T) + SumFunctionOnSet(f, S \ T)
<1> DEFINE U == S \ T
           Splits(R) == SumFunctionOnSet(f, T \cup R) = SumFunctionOnSet(f, T) + SumFunctionOnSet(f, R)
           F == {R \in SUBSET U : Splits(R)}
<1>1. IsFiniteSet(T) /\ IsFiniteSet(U) /\ SumFunctionOnSet(f, T) \in Nat
 <2>1. IsFiniteSet(T) /\ IsFiniteSet(U) BY FS_Subset
 <2> QED BY <2>1, SumIsNat
<1>2. {} \in F
 <2>1. SumFunctionOnSet(f, {}) = 0 /\ T \cup {} = T BY SumOfNone
 <2> QED BY <1>1, <2>1
<1>3. ASSUME NEW R \in SUBSET U, NEW x \in U \ R, R \in F PROVE R \cup {x} \in F
 <2>1. IsFiniteSet(R) /\ IsFiniteSet(T \cup R) /\ R \subseteq S /\ T \cup R \subseteq S
       /\ x \in S /\ x \notin R /\ x \notin T \cup R
   BY <1>1, FS_Subset
 <2>2. SumFunctionOnSet(f, R \cup {x}) = f[x] + SumFunctionOnSet(f, R) BY <2>1, SumWith
 <2>3. SumFunctionOnSet(f, (T \cup R) \cup {x}) = f[x] + SumFunctionOnSet(f, T \cup R) BY <2>1, SumWith
 <2>4. SumFunctionOnSet(f, R) \in Nat /\ f[x] \in Nat BY <2>1, SumIsNat
 <2>5. Splits(R) BY <1>3
 <2>6. T \cup (R \cup {x}) = (T \cup R) \cup {x} OBVIOUS
 <2>7. SumFunctionOnSet(f, T \cup (R \cup {x})) = SumFunctionOnSet(f, (T \cup R) \cup {x}) BY <2>6
 <2>8. Splits(R \cup {x}) BY <1>1, <2>2, <2>3, <2>4, <2>5, <2>7
 <2> QED BY <1>3, <2>8
<1>4. U \in F
 <2> HIDE DEF F, U
 <2> QED BY <1>1, <1>2, <1>3, FiniteSetInduction
<1>5. SumFunctionOnSet(f, U) \in Nat BY <1>1, SumIsNat
<1>6. T \cup U = S OBVIOUS
<1> QED BY <1>1, <1>4, <1>5, <1>6

\* Fewer elements have no greater sum.
LEMMA SumOfPart ==
  ASSUME NEW S, IsFiniteSet(S), NEW f, \A x \in S : f[x] \in Nat, NEW T \in SUBSET S
  PROVE  SumFunctionOnSet(f, T) <= SumFunctionOnSet(f, S)
<1>1. /\ SumFunctionOnSet(f, T) \in Nat /\ SumFunctionOnSet(f, S \ T) \in Nat
      /\ SumFunctionOnSet(f, S) = SumFunctionOnSet(f, T) + SumFunctionOnSet(f, S \ T)
  BY SumOfSplit
<1> QED BY <1>1

\* What is at most the sum of its own group, for each element, is in all
\* at most the sum of the groups.
LEMMA SumOfGroups ==
  ASSUME NEW S, IsFiniteSet(S), NEW T, IsFiniteSet(T),
         NEW e, \A x \in S : e[x] \in Nat, NEW f, \A y \in T : f[y] \in Nat,
         NEW h, \A x \in S : e[x] <= SumFunctionOnSet(f, {y \in T : h[y] = x})
  PROVE  SumFunctionOnSet(e, S) <= SumFunctionOnSet(f, T)
<1> DEFINE Of(R) == {y \in T : h[y] \in R}
           Less(R) == SumFunctionOnSet(e, R) <= SumFunctionOnSet(f, Of(R))
           F == {R \in SUBSET S : Less(R)}
<1>1. {} \in F
 <2>1. Of({}) = {} /\ SumFunctionOnSet(e, {}) = 0 /\ SumFunctionOnSet(f, {}) = 0 BY SumOfNone
 <2> QED BY <2>1
<1>2. ASSUME NEW R \in SUBSET S, NEW x \in S \ R, R \in F PROVE R \cup {x} \in F
 <2> DEFINE N == Of(R \cup {x})
            P == Of(R)
            Q == {y \in T : h[y] = x}
 <2>1. N \subseteq T /\ P \subseteq N /\ N \ P = Q /\ IsFiniteSet(R) /\ IsFiniteSet(N)
  <3>1. N \subseteq T /\ P \subseteq N /\ N \ P = Q OBVIOUS
  <3> QED BY <3>1, FS_Subset
 <2>2. e[x] <= SumFunctionOnSet(f, Q) OBVIOUS
 <2>3. SumFunctionOnSet(e, R) <= SumFunctionOnSet(f, P) BY <1>2
 <2> HIDE DEF N, P, Q
 <2>4. SumFunctionOnSet(e, R \cup {x}) = e[x] + SumFunctionOnSet(e, R) BY <2>1, SumWith
 <2>5. /\ SumFunctionOnSet(f, P) \in Nat /\ SumFunctionOnSet(f, N \ P) \in Nat
       /\ SumFunctionOnSet(f, N) = SumFunctionOnSet(f, P) + SumFunctionOnSet(f, N \ P)
   BY <2>1, SumOfSplit
 <2>6. SumFunctionOnSet(e, R) \in Nat /\ e[x] \in Nat BY <2>1, SumIsNat
 <2>7. SumFunctionOnSet(e, R \cup {x}) <= SumFunctionOnSet(f, N)
  <3>1. SumFunctionOnSet(f, N \ P) = SumFunctionOnSet(f, Q) BY <2>1
  <3> QED BY <2>2, <2>3, <2>4, <2>5, <2>6, <3>1
 <2> QED BY <2>7 DEF N
<1>3. S \in F
 <2> HIDE DEF F
 <2> QED BY <1>1, <1>2, FiniteSetInduction
<1>4. SumFunctionOnSet(e, S) <= SumFunctionOnSet(f, Of(S)) /\ Of(S) \in SUBSET T BY <1>3
<1>5. SumFunctionOnSet(f, Of(S)) <= SumFunctionOnSet(f, T) BY <1>4, SumOfPart
<1>6. SumFunctionOnSet(f, Of(S)) \in Nat /\ SumFunctionOnSet(e, S) \in Nat
      /\ SumFunctionOnSet(f, T) \in Nat
 <2>1. IsFiniteSet(Of(S)) BY <1>4, FS_Subset
 <2> QED BY <2>1, SumIsNat
<1> QED BY <1>4, <1>5, <1>6

----
\* The same of the sum of all values of a function.

LEMMA SumOfFunction ==
  ASSUME NEW S, NEW f, DOMAIN f = S
  PROVE  SumFunction(f) = SumFunctionOnSet(f, S)
  BY DEF SumFunction

LEMMA FunctionSumIsNat ==
  ASSUME NEW S, IsFiniteSet(S), NEW f \in [S -> Nat]
  PROVE  SumFunction(f) \in Nat
<1>1. SumFunction(f) = SumFunctionOnSet(f, S) BY SumOfFunction
<1> QED BY <1>1, SumIsNat

LEMMA FunctionSumOfChange ==
  ASSUME NEW S, IsFiniteSet(S), NEW f \in [S -> Nat], NEW e \in [S -> Nat],
         NEW x \in S, \A y \in S \ {x} : e[y] = f[y]
  PROVE  /\ SumFunction(f) \in Nat /\ SumFunction(e) \in Nat
         /\ SumFunction(e) + f[x] = SumFunction(f) + e[x]
<1>1. SumFunction(f) = SumFunctionOnSet(f, S) /\ SumFunction(e) = SumFunctionOnSet(e, S) BY SumOfFunction
<1>2. SumFunctionOnSet(e, S) + f[x] = SumFunctionOnSet(f, S) + e[x] BY SumOfChange
<1> QED BY <1>1, <1>2, FunctionSumIsNat

OneMore(S, x, T) == x \notin S /\ T = S \cup {x}

LEMMA FunctionSumOfMore ==
  ASSUME NEW S, IsFiniteSet(S), NEW x, NEW T, OneMore(S, x, T),
         NEW f, f \in [S -> Nat], NEW e, e \in [T -> Nat], SameOn(f, e, S)
  PROVE  SumFunction(e) = e[x] + SumFunction(f)
<1>1. SumFunction(f) = SumFunctionOnSet(f, S) BY SumOfFunction
<1>2. SumFunction(e) = SumFunctionOnSet(e, S \cup {x}) BY SumOfFunction DEF OneMore
<1>3. e[x] \in Nat /\ \A y \in S : e[y] \in Nat BY DEF OneMore
<1>4. SumFunctionOnSet(e, S \cup {x}) = e[x] + SumFunctionOnSet(e, S) BY <1>3, SumWith DEF OneMore
<1>5. SumFunctionOnSet(f, S) = SumFunctionOnSet(e, S) BY SumOfSame DEF SameOn
<1> QED BY <1>1, <1>2, <1>4, <1>5

LEMMA FunctionSumOfZeros ==
  ASSUME NEW S, IsFiniteSet(S), NEW f \in [S -> Nat], \A x \in S : f[x] = 0
  PROVE  SumFunction(f) = 0
<1> DEFINE F == {R \in SUBSET S : SumFunctionOnSet(f, R) = 0}
<1>1. {} \in F BY SumOfNone
<1>2. ASSUME NEW R \in SUBSET S, NEW x \in S \ R, R \in F PROVE R \cup {x} \in F
 <2>1. IsFiniteSet(R) BY FS_Subset
 <2>2. SumFunctionOnSet(f, R \cup {x}) = f[x] + SumFunctionOnSet(f, R) BY <2>1, SumWith
 <2>3. SumFunctionOnSet(f, R \cup {x}) = 0 BY <1>2, <2>2
 <2> QED BY <2>3
<1> HIDE DEF F
<1>3. S \in F BY <1>1, <1>2, FiniteSetInduction
<1>4. SumFunction(f) = SumFunctionOnSet(f, S) BY SumOfFunction
<1> QED BY <1>3, <1>4 DEF F
=============================================================================
