-------------------------- MODULE UpipPagerProofs --------------------------
(***************************************************************************)
(* Theorems about the UPIP pager, for any chunk size, capacity and length  *)
(* of data.                                                                *)
(***************************************************************************)
EXTENDS UpipPager, FiniteSetTheorems, SequenceTheorems, WellFoundedInduction, TLAPS

-----------------------------------------------------------------------------
(* Sums. *)
LEMMA HasMinimum ==
    ASSUME NEW T \in SUBSET Nat, T # {} PROVE \E x \in T : \A y \in T : x <= y
<1> DEFINE Less == OpToRel(<, Nat)
<1>1. IsWellFoundedOn(Less, Nat)
  BY NatLessThanWellFounded
<1> HIDE DEF Less
<1>2. PICK x \in T : \A y \in T : ~(<<y, x>> \in Less)
  BY <1>1, T \subseteq Nat, WFMin, Zenon
<1>3. \A m, n \in Nat : m < n => <<m, n>> \in Less
  <2>1. Less = {ss \in Nat \X Nat : ss[1] < ss[2]}
    BY DEF OpToRel, Less
  <2> QED
    BY <2>1
<1>4. ASSUME NEW y \in T PROVE x <= y
  <2>1. x \in Nat /\ y \in Nat /\ ~(<<y, x>> \in Less)
    BY <1>2
  <2> QED
    BY <1>3, <2>1
<1> QED
  BY <1>4

Chosen(s) == CHOOSE x \in s : TRUE

\* g adds up the values of f on the sets in D.
Adds(f, D, g) ==
    g = [s \in D |-> IF s = {} THEN 0 ELSE f[Chosen(s)] + g[s \ {Chosen(s)}]]

LEMMA SumIs ==
    ASSUME NEW f, NEW S
    PROVE  SumFunctionOnSet(f, S) = (CHOOSE g : Adds(f, SUBSET S, g))[S]
  BY Zenon DEF SumFunctionOnSet, FoldFunctionOnSet, MapThenFoldSet, Adds, Chosen

LEMMA ChosenParts ==
    ASSUME NEW S, IsFiniteSet(S), S # {}
    PROVE  /\ Chosen(S) \in S /\ IsFiniteSet(S \ {Chosen(S)})
           /\ Cardinality(S) \in Nat /\ Cardinality(S) # 0
           /\ Cardinality(S \ {Chosen(S)}) = Cardinality(S) - 1
<1>1. Chosen(S) \in S
  BY Zenon DEF Chosen
<1>2. Cardinality(S) \in Nat /\ Cardinality(S) # 0
  BY FS_CardinalityType, FS_EmptySet
<1> QED
  BY <1>1, <1>2, FS_RemoveElement

LEMMA AddsExist ==
    ASSUME NEW f, NEW S, IsFiniteSet(S) PROVE \E g : Adds(f, SUBSET S, g)
<1> DEFINE Sub(n) == {s \in SUBSET S : Cardinality(s) <= n}
<1> DEFINE T == {n \in Nat : ~\E g : Adds(f, Sub(n), g)}
<1>1. \A s \in SUBSET S : IsFiniteSet(s) /\ Cardinality(s) \in Nat /\ Cardinality(s) <= Cardinality(S)
  BY FS_Subset, FS_CardinalityType
<1>2. ASSUME NEW s \in SUBSET S, s # {}
      PROVE  /\ s \ {Chosen(s)} \in SUBSET S /\ Cardinality(s) \in Nat /\ Cardinality(s) # 0
             /\ Cardinality(s \ {Chosen(s)}) = Cardinality(s) - 1
  BY <1>1, <1>2, ChosenParts
<1>3. T = {}
  <2>1. SUFFICES ASSUME T # {} PROVE FALSE
    OBVIOUS
  <2>2. PICK m \in T : \A y \in T : m <= y
    <3>1. T \in SUBSET Nat
      OBVIOUS
    <3> HIDE DEF T
    <3> QED
      BY <2>1, <3>1, HasMinimum
  <2>3. m \in Nat /\ ~\E g : Adds(f, Sub(m), g)
    BY <2>2
  <2>4. m # 0
    <3>1. SUFFICES ASSUME m = 0 PROVE FALSE
      OBVIOUS
    <3> DEFINE g0 == [s \in Sub(0) |-> 0]
    <3>2. \A s \in Sub(0) : s = {}
      BY <1>1, FS_EmptySet
    <3>3. g0 = [s \in Sub(0) |-> IF s = {} THEN 0 ELSE f[Chosen(s)] + g0[s \ {Chosen(s)}]]
      BY <3>2
    <3>4. Adds(f, Sub(0), g0)
      BY <3>3 DEF Adds
    <3> QED
      BY <3>1, <3>4, <2>3
  <2>5. PICK i \in Nat : m = i + 1
    BY <2>3, <2>4
  <2>6. PICK g : Adds(f, Sub(i), g)
    BY <2>2, <2>5
  <2> DEFINE h == [s \in Sub(m) |-> IF Cardinality(s) <= i THEN g[s] ELSE f[Chosen(s)] + g[s \ {Chosen(s)}]]
  <2>7. ASSUME NEW s \in Sub(m)
        PROVE  h[s] = IF s = {} THEN 0 ELSE f[Chosen(s)] + h[s \ {Chosen(s)}]
    <3>1. s \in SUBSET S /\ Cardinality(s) \in Nat
      BY <1>1
    <3>2. CASE s = {}
      <4>1. s \in Sub(i) /\ Cardinality(s) <= i
        BY <3>2, FS_EmptySet
      <4>2. h[s] = g[s]
        BY <4>1
      <4>3. g[s] = 0
        BY <4>1, <3>2, <2>6, Zenon DEF Adds
      <4> QED
        BY <3>2, <4>2, <4>3
    <3>3. CASE s # {}
      <4>1. PICK r : r = s \ {Chosen(s)}
        OBVIOUS
      <4>2. r \in SUBSET S /\ Cardinality(r) = Cardinality(s) - 1
        BY <3>1, <3>3, <4>1, <1>2
      <4>3. r \in Sub(m) /\ Cardinality(r) <= i
        BY <3>1, <4>2, <2>5
      <4>4. h[r] = g[r]
        BY <4>3
      <4>5. h[s] = f[Chosen(s)] + g[r]
        <5>1. CASE Cardinality(s) <= i
          <6>1. s \in Sub(i) /\ h[s] = g[s]
            BY <5>1
          <6>2. g[s] = f[Chosen(s)] + g[s \ {Chosen(s)}]
            BY <6>1, <3>3, <2>6, Zenon DEF Adds
          <6> QED
            BY <6>1, <6>2, <4>1
        <5>2. CASE ~(Cardinality(s) <= i)
          BY <5>2, <4>1
        <5> QED
          BY <5>1, <5>2
      <4> QED
        BY <3>3, <4>1, <4>4, <4>5
    <3> QED
      BY <3>2, <3>3
  <2> HIDE DEF Sub
  <2>8. h = [s \in Sub(m) |-> IF s = {} THEN 0 ELSE f[Chosen(s)] + h[s \ {Chosen(s)}]]
    BY <2>7, Zenon
  <2>9. Adds(f, Sub(m), h)
    BY <2>8 DEF Adds
  <2> QED
    BY <2>9, <2>3
<1>4. Cardinality(S) \in Nat
  BY FS_CardinalityType
<1>5. Sub(Cardinality(S)) = SUBSET S
  BY <1>1
<1> QED
  BY <1>3, <1>4, <1>5

LEMMA SumWithin ==
    ASSUME NEW f, NEW R, IsFiniteSet(R), NEW r \in SUBSET R
    PROVE  (CHOOSE g : Adds(f, SUBSET R, g))[r] = SumFunctionOnSet(f, r)
<1> DEFINE I(S) == CHOOSE g : Adds(f, SUBSET S, g)
<1> DEFINE Q(n) == \A S, s : IsFiniteSet(S) /\ s \in SUBSET S /\ Cardinality(s) = n => I(S)[s] = I(s)[s]
<1> DEFINE T == {n \in Nat : ~Q(n)}
<1>1. ASSUME NEW S, IsFiniteSet(S), NEW s \in SUBSET S
      PROVE  I(S)[s] = IF s = {} THEN 0 ELSE f[Chosen(s)] + I(S)[s \ {Chosen(s)}]
  <2>1. Adds(f, SUBSET S, I(S))
    BY <1>1, AddsExist, Zenon
  <2> HIDE DEF I
  <2> QED
    BY <2>1, Zenon DEF Adds
<1> HIDE DEF I
<1>2. T = {}
  <2>1. SUFFICES ASSUME T # {} PROVE FALSE
    OBVIOUS
  <2>2. PICK m \in T : \A y \in T : m <= y
    <3>1. T \in SUBSET Nat
      OBVIOUS
    <3> HIDE DEF T
    <3> QED
      BY <2>1, <3>1, HasMinimum
  <2>3. PICK S, s : m \in Nat /\ IsFiniteSet(S) /\ s \in SUBSET S /\ Cardinality(s) = m /\ I(S)[s] # I(s)[s]
    BY <2>2
  <2>4. IsFiniteSet(s)
    BY <2>3, FS_Subset
  <2>5. I(S)[s] = IF s = {} THEN 0 ELSE f[Chosen(s)] + I(S)[s \ {Chosen(s)}]
    BY <2>3, <1>1
  <2>6. I(s)[s] = IF s = {} THEN 0 ELSE f[Chosen(s)] + I(s)[s \ {Chosen(s)}]
    BY <2>4, <1>1
  <2>7. s # {}
    BY <2>3, <2>5, <2>6
  <2>8. PICK t : t = s \ {Chosen(s)}
    OBVIOUS
  <2>9. m # 0 /\ Cardinality(t) = m - 1
    BY <2>3, <2>4, <2>7, <2>8, ChosenParts
  <2>10. PICK k \in Nat : k = m - 1 /\ ~(m <= k)
    BY <2>3, <2>9
  <2>11. k \notin T
    BY <2>2, <2>10
  <2>12. Q(k)
    BY <2>11
  <2>13. I(S)[t] = I(t)[t] /\ I(s)[t] = I(t)[t]
    BY <2>3, <2>4, <2>8, <2>9, <2>10, <2>12
  <2> QED
    BY <2>3, <2>5, <2>6, <2>7, <2>8, <2>13
<1>3. Cardinality(r) \in Nat
  BY FS_Subset, FS_CardinalityType
<1>4. I(R)[r] = I(r)[r]
  BY <1>2, <1>3
<1>5. SumFunctionOnSet(f, r) = I(r)[r]
  BY SumIs DEF I
<1> QED
  BY <1>4, <1>5 DEF I

LEMMA SumUnfolds ==
    ASSUME NEW f, NEW S, IsFiniteSet(S)
    PROVE  SumFunctionOnSet(f, S) = IF S = {} THEN 0
                                    ELSE f[Chosen(S)] + SumFunctionOnSet(f, S \ {Chosen(S)})
<1>1. PICK g : g = CHOOSE h : Adds(f, SUBSET S, h)
  OBVIOUS
<1>2. Adds(f, SUBSET S, g)
  BY <1>1, AddsExist, Zenon
<1>3. \A s \in SUBSET S : g[s] = SumFunctionOnSet(f, s)
  BY <1>1, SumWithin
<1>4. S \in SUBSET S /\ S \ {Chosen(S)} \in SUBSET S
  OBVIOUS
<1>5. g[S] = IF S = {} THEN 0 ELSE f[Chosen(S)] + g[S \ {Chosen(S)}]
  BY <1>2, <1>4, Zenon DEF Adds
<1> QED
  BY <1>3, <1>4, <1>5

LEMMA SumType ==
    ASSUME NEW f, NEW R, IsFiniteSet(R), \A x \in R : f[x] \in Nat
    PROVE  SumFunctionOnSet(f, R) \in Nat
<1> DEFINE Bad(S) == IsFiniteSet(S) /\ (\A x \in S : f[x] \in Nat) /\ SumFunctionOnSet(f, S) \notin Nat
<1> DEFINE T == {n \in Nat : \E S : Bad(S) /\ Cardinality(S) = n}
<1>1. T = {}
  <2>1. SUFFICES ASSUME T # {} PROVE FALSE
    OBVIOUS
  <2>2. PICK m \in T : \A y \in T : m <= y
    <3>1. T \in SUBSET Nat
      OBVIOUS
    <3> HIDE DEF T
    <3> QED
      BY <2>1, <3>1, HasMinimum
  <2>3. PICK S : Bad(S) /\ Cardinality(S) = m /\ m \in Nat
    BY <2>2
  <2>4. SumFunctionOnSet(f, S) = IF S = {} THEN 0
                                 ELSE f[Chosen(S)] + SumFunctionOnSet(f, S \ {Chosen(S)})
    BY <2>3, SumUnfolds
  <2>5. S # {}
    BY <2>3, <2>4
  <2>6. PICK t : t = S \ {Chosen(S)}
    OBVIOUS
  <2>7. Chosen(S) \in S /\ IsFiniteSet(t) /\ Cardinality(t) = m - 1 /\ m # 0
    BY <2>3, <2>5, <2>6, ChosenParts
  <2>8. PICK k \in Nat : k = m - 1 /\ ~(m <= k)
    BY <2>3, <2>7
  <2>9. ~Bad(t)
    BY <2>2, <2>7, <2>8
  <2>10. SumFunctionOnSet(f, t) \in Nat /\ f[Chosen(S)] \in Nat
    BY <2>3, <2>6, <2>7, <2>9
  <2> QED
    BY <2>3, <2>4, <2>5, <2>6, <2>10
<1>2. Cardinality(R) \in Nat
  BY FS_CardinalityType
<1> QED
  BY <1>1, <1>2

\* The order of the summands does not matter.
LEMMA SumInsert ==
    ASSUME NEW f, NEW R, IsFiniteSet(R), \A x \in R : f[x] \in Nat,
           NEW a, a \notin R, f[a] \in Nat
    PROVE  SumFunctionOnSet(f, R \cup {a}) = SumFunctionOnSet(f, R) + f[a]
<1> DEFINE Sum(S) == SumFunctionOnSet(f, S)
<1> DEFINE Fine(S, x) == IsFiniteSet(S) /\ (\A y \in S \cup {x} : f[y] \in Nat) /\ x \notin S
<1> DEFINE Bad(S, x) == Fine(S, x) /\ Sum(S \cup {x}) # Sum(S) + f[x]
<1> DEFINE T == {n \in Nat : \E S, x : Bad(S, x) /\ Cardinality(S) = n}
<1>1. T = {}
  <2>1. SUFFICES ASSUME T # {} PROVE FALSE
    OBVIOUS
  <2>2. PICK m \in T : \A y \in T : m <= y
    <3>1. T \in SUBSET Nat
      OBVIOUS
    <3> HIDE DEF T
    <3> QED
      BY <2>1, <3>1, HasMinimum
  <2>3. PICK S, x : Bad(S, x) /\ Cardinality(S) = m /\ m \in Nat
    BY <2>2
  <2>4. Fine(S, x) /\ Sum(S \cup {x}) # Sum(S) + f[x]
    BY <2>3
  <2>5. IsFiniteSet(S) /\ IsFiniteSet(S \cup {x}) /\ Sum(S) \in Nat /\ x \notin S /\ f[x] \in Nat
    <3>1. IsFiniteSet(S) /\ (\A y \in S : f[y] \in Nat) /\ x \notin S /\ f[x] \in Nat
      BY <2>4
    <3> QED
      BY <3>1, FS_AddElement, SumType
  <2>6. PICK c : c = Chosen(S \cup {x})
    OBVIOUS
  <2>7. c \in S \cup {x} /\ Sum(S \cup {x}) = f[c] + Sum((S \cup {x}) \ {c})
    <3>1. S \cup {x} # {}
      OBVIOUS
    <3> QED
      BY <3>1, <2>5, <2>6, ChosenParts, SumUnfolds
  <2> HIDE DEF Sum
  <2>8. CASE c = x
    <3>1. (S \cup {x}) \ {c} = S
      BY <2>5, <2>8
    <3> QED
      BY <2>4, <2>5, <2>7, <2>8, <3>1
  <2>9. CASE c # x
    <3>1. c \in S
      BY <2>7, <2>9
    <3>2. PICK t : t = S \ {c}
      OBVIOUS
    <3>3. IsFiniteSet(t) /\ Cardinality(t) = m - 1 /\ m # 0
      BY <3>1, <3>2, <2>3, <2>5, FS_RemoveElement, FS_EmptySet
    <3>4. PICK k \in Nat : k = m - 1 /\ ~(m <= k)
      BY <2>3, <3>3
    <3>5. Fine(t, x) /\ Fine(t, c)
      BY <3>1, <3>2, <3>3, <2>4, <2>9
    <3>6. Sum(t \cup {x}) = Sum(t) + f[x] /\ Sum(t \cup {c}) = Sum(t) + f[c]
      BY <3>3, <3>4, <3>5, <2>2
    <3>7. t \cup {x} = (S \cup {x}) \ {c} /\ t \cup {c} = S
      BY <3>1, <3>2, <2>9
    <3>8. Sum(t) \in Nat /\ f[c] \in Nat
      BY <3>5, <2>4, <3>1, SumType DEF Sum
    <3>9. Sum(S \cup {x}) = f[c] + (Sum(t) + f[x]) /\ Sum(S) = Sum(t) + f[c]
      BY <3>6, <3>7, <2>7
    <3> QED
      BY <3>8, <3>9, <2>4, <2>5
  <2> QED
    BY <2>8, <2>9
<1>2. Cardinality(R) \in Nat
  BY FS_CardinalityType
<1>3. Fine(R, a)
  OBVIOUS
<1> QED
  BY <1>1, <1>2, <1>3

LEMMA SumSame ==
    ASSUME NEW f, NEW g, NEW R, IsFiniteSet(R), \A x \in R : f[x] = g[x]
    PROVE  SumFunctionOnSet(f, R) = SumFunctionOnSet(g, R)
<1> DEFINE Bad(S) == /\ IsFiniteSet(S) /\ \A x \in S : f[x] = g[x]
                     /\ SumFunctionOnSet(f, S) # SumFunctionOnSet(g, S)
<1> DEFINE T == {n \in Nat : \E S : Bad(S) /\ Cardinality(S) = n}
<1>1. T = {}
  <2>1. SUFFICES ASSUME T # {} PROVE FALSE
    OBVIOUS
  <2>2. PICK m \in T : \A y \in T : m <= y
    <3>1. T \in SUBSET Nat
      OBVIOUS
    <3> HIDE DEF T
    <3> QED
      BY <2>1, <3>1, HasMinimum
  <2>3. PICK S : Bad(S) /\ Cardinality(S) = m /\ m \in Nat
    BY <2>2
  <2>4. IsFiniteSet(S)
    BY <2>3
  <2>5. S # {}
    BY <2>3, <2>4, SumUnfolds
  <2>6. PICK t, c : t = S \ {c} /\ c = Chosen(S)
    OBVIOUS
  <2>7. c \in S /\ IsFiniteSet(t) /\ Cardinality(t) = m - 1 /\ m # 0 /\ t \in SUBSET S
    BY <2>3, <2>4, <2>5, <2>6, ChosenParts
  <2>8. PICK k \in Nat : k = m - 1 /\ ~(m <= k)
    BY <2>3, <2>7
  <2>9. ~Bad(t)
    BY <2>2, <2>7, <2>8
  <2>10. SumFunctionOnSet(f, t) = SumFunctionOnSet(g, t) /\ f[c] = g[c]
    BY <2>3, <2>7, <2>9
  <2>11. /\ SumFunctionOnSet(f, S) = f[c] + SumFunctionOnSet(f, t)
         /\ SumFunctionOnSet(g, S) = g[c] + SumFunctionOnSet(g, t)
    BY <2>4, <2>5, <2>6, SumUnfolds
  <2> QED
    BY <2>3, <2>10, <2>11
<1>2. Cardinality(R) \in Nat
  BY FS_CardinalityType
<1> QED
  BY <1>1, <1>2

LEMMA SumPlus ==
    ASSUME NEW f, NEW g, NEW h, NEW R, IsFiniteSet(R),
           \A x \in R : f[x] \in Nat /\ g[x] \in Nat /\ h[x] = f[x] + g[x]
    PROVE  SumFunctionOnSet(h, R) = SumFunctionOnSet(f, R) + SumFunctionOnSet(g, R)
<1> DEFINE Bad(S) == /\ IsFiniteSet(S) /\ \A x \in S : f[x] \in Nat /\ g[x] \in Nat /\ h[x] = f[x] + g[x]
                     /\ SumFunctionOnSet(h, S) # SumFunctionOnSet(f, S) + SumFunctionOnSet(g, S)
<1> DEFINE T == {n \in Nat : \E S : Bad(S) /\ Cardinality(S) = n}
<1>1. T = {}
  <2>1. SUFFICES ASSUME T # {} PROVE FALSE
    OBVIOUS
  <2>2. PICK m \in T : \A y \in T : m <= y
    <3>1. T \in SUBSET Nat
      OBVIOUS
    <3> HIDE DEF T
    <3> QED
      BY <2>1, <3>1, HasMinimum
  <2>3. PICK S : Bad(S) /\ Cardinality(S) = m /\ m \in Nat
    BY <2>2
  <2>4. IsFiniteSet(S)
    BY <2>3
  <2>5. S # {}
    <3>1. SUFFICES ASSUME S = {} PROVE FALSE
      OBVIOUS
    <3>2. SumFunctionOnSet(h, S) = 0 /\ SumFunctionOnSet(f, S) = 0 /\ SumFunctionOnSet(g, S) = 0
      BY <3>1, <2>4, SumUnfolds
    <3> QED
      BY <3>2, <2>3
  <2>6. PICK t, c : t = S \ {c} /\ c = Chosen(S)
    OBVIOUS
  <2>7. c \in S /\ IsFiniteSet(t) /\ Cardinality(t) = m - 1 /\ m # 0 /\ t \in SUBSET S
    BY <2>3, <2>4, <2>5, <2>6, ChosenParts
  <2>8. PICK k \in Nat : k = m - 1 /\ ~(m <= k)
    BY <2>3, <2>7
  <2>9. ~Bad(t)
    BY <2>2, <2>7, <2>8
  <2>10. /\ SumFunctionOnSet(h, t) = SumFunctionOnSet(f, t) + SumFunctionOnSet(g, t)
         /\ f[c] \in Nat /\ g[c] \in Nat /\ h[c] = f[c] + g[c]
         /\ \A x \in t : f[x] \in Nat /\ g[x] \in Nat
    BY <2>3, <2>7, <2>9
  <2>11. SumFunctionOnSet(f, t) \in Nat /\ SumFunctionOnSet(g, t) \in Nat
    BY <2>7, <2>10, SumType
  <2>12. /\ SumFunctionOnSet(f, S) = f[c] + SumFunctionOnSet(f, t)
         /\ SumFunctionOnSet(g, S) = g[c] + SumFunctionOnSet(g, t)
         /\ SumFunctionOnSet(h, S) = h[c] + SumFunctionOnSet(h, t)
    BY <2>4, <2>5, <2>6, SumUnfolds
  <2>13. SumFunctionOnSet(h, S) = SumFunctionOnSet(f, S) + SumFunctionOnSet(g, S)
    BY <2>10, <2>11, <2>12
  <2> QED
    BY <2>3, <2>13
<1>2. Cardinality(R) \in Nat
  BY FS_CardinalityType
<1> QED
  BY <1>1, <1>2

LEMMA SumOnes ==
    ASSUME NEW f, NEW R, IsFiniteSet(R), \A x \in R : f[x] = 1
    PROVE  SumFunctionOnSet(f, R) = Cardinality(R)
<1> DEFINE Bad(S) == /\ IsFiniteSet(S) /\ \A x \in S : f[x] = 1
                     /\ SumFunctionOnSet(f, S) # Cardinality(S)
<1> DEFINE T == {n \in Nat : \E S : Bad(S) /\ Cardinality(S) = n}
<1>1. T = {}
  <2>1. SUFFICES ASSUME T # {} PROVE FALSE
    OBVIOUS
  <2>2. PICK m \in T : \A y \in T : m <= y
    <3>1. T \in SUBSET Nat
      OBVIOUS
    <3> HIDE DEF T
    <3> QED
      BY <2>1, <3>1, HasMinimum
  <2>3. PICK S : Bad(S) /\ Cardinality(S) = m /\ m \in Nat
    BY <2>2
  <2>4. IsFiniteSet(S)
    BY <2>3
  <2>5. S # {}
    BY <2>3, <2>4, SumUnfolds, FS_EmptySet
  <2>6. PICK t, c : t = S \ {c} /\ c = Chosen(S)
    OBVIOUS
  <2>7. c \in S /\ IsFiniteSet(t) /\ Cardinality(t) = m - 1 /\ m # 0 /\ t \in SUBSET S
    BY <2>3, <2>4, <2>5, <2>6, ChosenParts
  <2>8. PICK k \in Nat : k = m - 1 /\ ~(m <= k)
    BY <2>3, <2>7
  <2>9. ~Bad(t)
    BY <2>2, <2>7, <2>8
  <2>10. SumFunctionOnSet(f, t) = m - 1 /\ f[c] = 1
    BY <2>3, <2>7, <2>9
  <2>11. SumFunctionOnSet(f, S) = f[c] + SumFunctionOnSet(f, t)
    BY <2>4, <2>5, <2>6, SumUnfolds
  <2>12. SumFunctionOnSet(f, S) = m
    BY <2>3, <2>10, <2>11
  <2> QED
    BY <2>3, <2>12
<1>2. Cardinality(R) \in Nat
  BY FS_CardinalityType
<1> QED
  BY <1>1, <1>2

LEMMA SumZeros ==
    ASSUME NEW f, NEW R, IsFiniteSet(R), \A x \in R : f[x] = 0
    PROVE  SumFunctionOnSet(f, R) = 0
<1> DEFINE Bad(S) == /\ IsFiniteSet(S) /\ \A x \in S : f[x] = 0
                     /\ SumFunctionOnSet(f, S) # 0
<1> DEFINE T == {n \in Nat : \E S : Bad(S) /\ Cardinality(S) = n}
<1>1. T = {}
  <2>1. SUFFICES ASSUME T # {} PROVE FALSE
    OBVIOUS
  <2>2. PICK m \in T : \A y \in T : m <= y
    <3>1. T \in SUBSET Nat
      OBVIOUS
    <3> HIDE DEF T
    <3> QED
      BY <2>1, <3>1, HasMinimum
  <2>3. PICK S : Bad(S) /\ Cardinality(S) = m /\ m \in Nat
    BY <2>2
  <2>4. IsFiniteSet(S)
    BY <2>3
  <2>5. S # {}
    BY <2>3, <2>4, SumUnfolds
  <2>6. PICK t, c : t = S \ {c} /\ c = Chosen(S)
    OBVIOUS
  <2>7. c \in S /\ IsFiniteSet(t) /\ Cardinality(t) = m - 1 /\ m # 0 /\ t \in SUBSET S
    BY <2>3, <2>4, <2>5, <2>6, ChosenParts
  <2>8. PICK k \in Nat : k = m - 1 /\ ~(m <= k)
    BY <2>3, <2>7
  <2>9. ~Bad(t)
    BY <2>2, <2>7, <2>8
  <2>10. SumFunctionOnSet(f, t) = 0 /\ f[c] = 0
    BY <2>3, <2>7, <2>9
  <2>11. SumFunctionOnSet(f, S) = f[c] + SumFunctionOnSet(f, t)
    BY <2>4, <2>5, <2>6, SumUnfolds
  <2> QED
    BY <2>3, <2>10, <2>11
<1>2. Cardinality(R) \in Nat
  BY FS_CardinalityType
<1> QED
  BY <1>1, <1>2

LEMMA SumSplit ==
    ASSUME NEW f, NEW Q, IsFiniteSet(Q), NEW R, IsFiniteSet(R), Q \cap R = {},
           \A x \in Q \cup R : f[x] \in Nat
    PROVE  SumFunctionOnSet(f, Q \cup R) = SumFunctionOnSet(f, Q) + SumFunctionOnSet(f, R)
<1> DEFINE Bad(S) == /\ IsFiniteSet(S) /\ Q \cap S = {} /\ \A x \in S : f[x] \in Nat
                     /\ SumFunctionOnSet(f, Q \cup S) # SumFunctionOnSet(f, Q) + SumFunctionOnSet(f, S)
<1> DEFINE T == {n \in Nat : \E S : Bad(S) /\ Cardinality(S) = n}
<1>1. T = {}
  <2>1. SUFFICES ASSUME T # {} PROVE FALSE
    OBVIOUS
  <2>2. PICK m \in T : \A y \in T : m <= y
    <3>1. T \in SUBSET Nat
      OBVIOUS
    <3> HIDE DEF T
    <3> QED
      BY <2>1, <3>1, HasMinimum
  <2>3. PICK S : Bad(S) /\ Cardinality(S) = m /\ m \in Nat
    BY <2>2
  <2>4. IsFiniteSet(S)
    BY <2>3
  <2>5. S # {}
    <3>1. SUFFICES ASSUME S = {} PROVE FALSE
      OBVIOUS
    <3>2. SumFunctionOnSet(f, S) = 0 /\ Q \cup S = Q
      BY <3>1, <2>4, SumUnfolds
    <3>3. SumFunctionOnSet(f, Q) \in Nat
      BY SumType
    <3> QED
      BY <3>2, <3>3, <2>3
  <2>6. PICK t, c : t = S \ {c} /\ c = Chosen(S)
    OBVIOUS
  <2>7. c \in S /\ IsFiniteSet(t) /\ Cardinality(t) = m - 1 /\ m # 0 /\ t \in SUBSET S
    BY <2>3, <2>4, <2>5, <2>6, ChosenParts
  <2>8. PICK k \in Nat : k = m - 1 /\ ~(m <= k)
    BY <2>3, <2>7
  <2>9. ~Bad(t)
    BY <2>2, <2>7, <2>8
  <2>10. /\ SumFunctionOnSet(f, Q \cup t) = SumFunctionOnSet(f, Q) + SumFunctionOnSet(f, t)
         /\ f[c] \in Nat /\ (\A x \in t : f[x] \in Nat) /\ c \notin Q /\ c \notin t
    BY <2>3, <2>6, <2>7, <2>9
  <2>11. SumFunctionOnSet(f, Q) \in Nat /\ SumFunctionOnSet(f, t) \in Nat
    BY <2>7, <2>10, SumType
  <2>12. SumFunctionOnSet(f, S) = f[c] + SumFunctionOnSet(f, t)
    BY <2>4, <2>5, <2>6, SumUnfolds
  <2>13. PICK U : U = Q \cup t
    OBVIOUS
  <2>14. IsFiniteSet(U) /\ c \notin U /\ \A x \in U : f[x] \in Nat
    BY <2>7, <2>10, <2>13, FS_Union
  <2>15. SumFunctionOnSet(f, U \cup {c}) = SumFunctionOnSet(f, U) + f[c]
    BY <2>10, <2>14, SumInsert
  <2>16. U \cup {c} = Q \cup S
    BY <2>6, <2>7, <2>13
  <2>17. SumFunctionOnSet(f, Q \cup S) = SumFunctionOnSet(f, Q) + SumFunctionOnSet(f, S)
    <3>1. PICK q \in Nat, r \in Nat, v \in Nat :
              q = SumFunctionOnSet(f, Q) /\ r = SumFunctionOnSet(f, t) /\ v = f[c]
      BY <2>10, <2>11
    <3>2. SumFunctionOnSet(f, U) = q + r
      BY <3>1, <2>10, <2>13
    <3>3. SumFunctionOnSet(f, Q \cup S) = q + r + v
      BY <3>1, <3>2, <2>15, <2>16
    <3>4. SumFunctionOnSet(f, S) = v + r
      BY <3>1, <2>12
    <3> QED
      BY <3>1, <3>3, <3>4
  <2> QED
    BY <2>3, <2>17
<1>2. Cardinality(R) \in Nat
  BY FS_CardinalityType
<1> QED
  BY <1>1, <1>2

-----------------------------------------------------------------------------
(* Chunks. *)
LEMMA MinTwo ==
    ASSUME NEW a \in Int, NEW b \in Int PROVE Min({a, b}) = IF a <= b THEN a ELSE b
<1>1. PICK m \in {a, b} : \A y \in {a, b} : m <= y
  BY a <= b \/ b <= a
<1>2. Min({a, b}) \in {a, b} /\ \A y \in {a, b} : Min({a, b}) <= y
  BY <1>1, Zenon DEF Min
<1> QED
  BY <1>2

LEMMA CeilParts ==
    ASSUME NEW n \in Nat
    PROVE  /\ Ceil(n) \in Nat /\ n <= Ceil(n) * ChunkSize
           /\ \A k \in 1 .. Ceil(n) : (k - 1) * ChunkSize < n
<1>1. PICK c \in Nat : c = ChunkSize /\ c > 0
  BY ChunkAssumption
<1>2. PICK q : q = (n + c - 1) \div c
  OBVIOUS
<1>3. q \in Nat /\ q * c <= n + c - 1 /\ n + c - 1 < q * c + c
  BY <1>1, <1>2
<1>4. n <= q * c
  BY <1>1, <1>3
<1>5. ASSUME NEW k \in 1 .. q PROVE (k - 1) * c < n
  <2>1. (k - 1) * c + c <= q * c
    BY <1>1, <1>3
  <2> QED
    BY <2>1, <1>1, <1>3
<1> QED
  BY <1>1, <1>2, <1>3, <1>4, <1>5 DEF Ceil

LEMMA TokenParts ==
    ASSUME NEW task \in Tasks, NEW offset \in Nat, NEW size \in Nat, size > 0,
           NEW t, t = Token(task, offset, size)
    PROVE  /\ t \in ForkToken /\ t.task = task /\ t.offset = offset /\ t.raw_size = size
           /\ t.total_chunks = None /\ t.access_count = 0
<1>1. PICK zero \in Nat : zero = 0
  OBVIOUS
<1>2. t = [task |-> task, offset |-> offset, raw_size |-> size, total_chunks |-> zero,
           state |-> "PagedOut", sealed |-> TRUE, storage |-> Local, access_count |-> zero]
  BY <1>1 DEF Token, None
<1>3. size \in Nat \ {0} /\ Local \in {Local} \cup Kernels /\ "PagedOut" \in States
  BY DEF States
<1>4. t \in ForkToken
  BY <1>2, <1>3 DEF ForkToken
<1> QED
  BY <1>1, <1>2, <1>4 DEF None

LEMMA BytesOfParts ==
    ASSUME NEW len \in Nat
    PROVE  /\ BytesOf(len, 0) = 0
           /\ \A k \in Nat : BytesOf(len, k) \in Nat
           /\ \A k \in 1 .. Ceil(len) :
                BytesOf(len, k) = BytesOf(len, k - 1)
                                  + (IF ChunkSize <= len - (k - 1) * ChunkSize
                                     THEN ChunkSize ELSE len - (k - 1) * ChunkSize)
<1>1. PICK c \in Nat : c = ChunkSize /\ c > 0
  BY ChunkAssumption
<1>2. \A k \in Nat : k * c \in Nat
  OBVIOUS
<1>3. \A k \in Nat : BytesOf(len, k) = IF len <= k * c THEN len ELSE k * c
  BY <1>1, <1>2, MinTwo DEF BytesOf
<1>4. BytesOf(len, 0) = 0
  BY <1>3
<1>5. ASSUME NEW k \in 1 .. Ceil(len)
      PROVE  BytesOf(len, k) = BytesOf(len, k - 1)
                               + (IF c <= len - (k - 1) * c THEN c ELSE len - (k - 1) * c)
  <2>1. Ceil(len) \in Nat /\ (k - 1) * c < len
    BY <1>1, CeilParts
  <2>2. PICK i \in Nat : i = k - 1
    BY <2>1
  <2>3. PICK from \in Nat : from = i * c
    BY <1>2
  <2>4. from < len
    BY <2>1, <2>2, <2>3
  <2>5. k * c = from + c
    BY <1>1, <2>1, <2>2, <2>3
  <2>6. k \in Nat
    BY <2>1
  <2>7. BytesOf(len, k) = (IF len <= from + c THEN len ELSE from + c)
    BY <2>5, <2>6, <1>3
  <2>8. BytesOf(len, i) = from
    BY <2>3, <2>4, <1>3
  <2>9. BytesOf(len, k) = from + (IF c <= len - from THEN c ELSE len - from)
    BY <1>1, <2>3, <2>4, <2>7
  <2> QED
    BY <2>2, <2>3, <2>8, <2>9
<1> QED
  BY <1>1, <1>2, <1>3, <1>4, <1>5

LEMMA PieceParts ==
    ASSUME NEW task \in Tasks, NEW base \in Nat, NEW len \in Nat, NEW k \in 1 .. Ceil(len),
           NEW p, p = Piece(task, base, len, k)
    PROVE  /\ p \in ForkToken /\ p.total_chunks = None /\ p.access_count = 0
           /\ p.offset = base + (k - 1) * ChunkSize
           /\ p.raw_size \in Nat
           /\ BytesOf(len, k) = BytesOf(len, k - 1) + p.raw_size
           /\ k * ChunkSize < len => p.raw_size = ChunkSize
<1>1. PICK c \in Nat : c = ChunkSize /\ c > 0
  BY ChunkAssumption
<1>2. Ceil(len) \in Nat /\ (k - 1) * c < len
  BY <1>1, CeilParts
<1>3. PICK i \in Nat : i = k - 1
  BY <1>2
<1>4. PICK from \in Nat : from = i * c
  OBVIOUS
<1>5. from < len
  BY <1>2, <1>3, <1>4
<1>6. PICK size : size = IF c <= len - from THEN c ELSE len - from
  OBVIOUS
<1>7. size \in Nat /\ size > 0
  BY <1>1, <1>5, <1>6
<1>8. Min({c, len - from}) = size
  BY <1>6, MinTwo
<1>9. p = Token(task, base + from, size)
  BY <1>1, <1>3, <1>4, <1>8 DEF Piece
<1>10. /\ p \in ForkToken /\ p.raw_size = size /\ p.offset = base + from
       /\ p.total_chunks = None /\ p.access_count = 0
  BY <1>7, <1>9, TokenParts
<1>11. BytesOf(len, k) = BytesOf(len, k - 1) + size
  BY <1>1, <1>3, <1>4, <1>6, BytesOfParts
<1>12. k * c < len => size = c
  <2>1. k * c = from + c
    BY <1>1, <1>2, <1>3, <1>4
  <2> QED
    BY <2>1, <1>1, <1>5, <1>6
<1> QED
  BY <1>1, <1>3, <1>4, <1>7, <1>10, <1>11, <1>12

LEMMA IntervalGrows ==
    \A a, d, e \in Nat : e = d + 1 /\ a <= e => a .. e = (a .. d) \cup {e}
<1>1. SUFFICES ASSUME NEW a \in Nat, NEW d \in Nat, NEW e \in Nat, e = d + 1, a <= e
               PROVE  a .. e = (a .. d) \cup {e}
  OBVIOUS
<1>2. ASSUME NEW x \in a .. e PROVE x \in (a .. d) \cup {e}
  BY <1>1
<1>3. ASSUME NEW x \in (a .. d) \cup {e} PROVE x \in a .. e
  BY <1>1
<1> QED
  BY <1>2, <1>3

\* f gives, after n, the sizes of the first m pieces.
PieceSizes(f, len, n, m) ==
    \A k \in 1 .. m : f[n + k] \in Nat /\ BytesOf(len, k) = BytesOf(len, k - 1) + f[n + k]

\* The first m pieces add up to their bytes, wherever they are put.
LEMMA PiecesSum ==
    ASSUME NEW len \in Nat, NEW n \in Nat, NEW m \in Nat, NEW f, PieceSizes(f, len, n, m)
    PROVE  SumFunctionOnSet(f, n + 1 .. n + m) = BytesOf(len, m)
<1>0. \A k \in 1 .. m : f[n + k] \in Nat /\ BytesOf(len, k) = BytesOf(len, k - 1) + f[n + k]
  BY DEF PieceSizes
<1> DEFINE T == {j \in 0 .. m : SumFunctionOnSet(f, n + 1 .. n + j) # BytesOf(len, j)}
<1>1. T = {}
  <2>1. SUFFICES ASSUME T # {} PROVE FALSE
    OBVIOUS
  <2>2. PICK j \in T : \A y \in T : j <= y
    <3>1. T \in SUBSET Nat
      OBVIOUS
    <3> HIDE DEF T
    <3> QED
      BY <2>1, <3>1, HasMinimum
  <2>3. j \in 0 .. m /\ SumFunctionOnSet(f, n + 1 .. n + j) # BytesOf(len, j)
    BY <2>2
  <2>4. j # 0
    <3>1. n + 1 .. n + 0 = {}
      OBVIOUS
    <3>2. SumFunctionOnSet(f, {}) = 0
      BY SumUnfolds, FS_EmptySet
    <3>3. BytesOf(len, 0) = 0
      BY BytesOfParts
    <3> QED
      BY <3>1, <3>2, <3>3, <2>3
  <2>5. PICK i \in 0 .. m : i = j - 1 /\ ~(j <= i)
    BY <2>3, <2>4
  <2>6. SumFunctionOnSet(f, n + 1 .. n + i) = BytesOf(len, i)
    BY <2>2, <2>5
  <2> DEFINE S == n + 1 .. n + i
  <2>7. IsFiniteSet(S)
    BY FS_Interval
  <2>a. PICK e \in Nat, d \in Nat : e = n + j /\ d = n + i /\ e = d + 1 /\ d >= n
    BY <2>3, <2>4, <2>5
  <2>8. n + 1 .. n + j = S \cup {e} /\ e \notin S
    <3>1. S = n + 1 .. d /\ n + 1 .. n + j = n + 1 .. e
      BY <2>a
    <3>2. n + 1 .. e = (n + 1 .. d) \cup {e}
      <4>1. PICK a \in Nat : a = n + 1 /\ a <= e
        BY <2>a
      <4>2. e = d + 1 /\ a <= e
        BY <2>a, <4>1
      <4> HIDE DEF T, S
      <4>3. a .. e = (a .. d) \cup {e}
        BY <4>2, IntervalGrows
      <4> QED
        BY <4>1, <4>3
    <3> QED
      BY <3>1, <3>2, <2>a
  <2>9. \A x \in S : f[x] \in Nat
    <3>1. SUFFICES ASSUME NEW x \in S PROVE f[x] \in Nat
      OBVIOUS
    <3>2. PICK k \in 1 .. m : x = n + k
      <4>1. PICK k \in Int : k = x - n
        OBVIOUS
      <4>2. x = n + k /\ k \in 1 .. m
        BY <4>1, <2>5
      <4> QED
        BY <4>2
    <3> QED
      BY <1>0, <3>2
  <2>10. j \in 1 .. m
    BY <2>3, <2>4
  <2>11. f[n + j] \in Nat /\ BytesOf(len, j) = BytesOf(len, i) + f[n + j]
    <3>1. f[n + j] \in Nat /\ BytesOf(len, j) = BytesOf(len, j - 1) + f[n + j]
      BY <1>0, <2>10
    <3> QED
      BY <2>5, <3>1
  <2> HIDE DEF S
  <2>12. SumFunctionOnSet(f, S \cup {e}) = SumFunctionOnSet(f, S) + f[e]
    <3>1. f[e] \in Nat /\ e \notin S
      BY <2>a, <2>8, <2>11
    <3> QED
      BY <3>1, <2>7, <2>9, SumInsert
  <2> QED
    BY <2>3, <2>6, <2>8, <2>11, <2>12, <2>a DEF S
<1>2. m \in 0 .. m
  OBVIOUS
<1> QED
  BY <1>1, <1>2

-----------------------------------------------------------------------------
(* The books, as sums over the tokens. *)
Sizes(ts)    == [i \in 1 .. Len(ts) |-> ts[i].raw_size]
Accesses(ts) == [i \in 1 .. Len(ts) |-> ts[i].access_count]
Restores(ts) == [i \in 1 .. Len(ts) |-> ts[i].access_count * ts[i].raw_size]
Total(f, n)  == SumFunctionOnSet(f, 1 .. n)

LEMMA EntryParts ==
    ASSUME NEW ts \in Seq(ForkToken), NEW n \in Nat, n = Len(ts), NEW i \in 1 .. n
    PROVE  /\ ts[i] \in ForkToken /\ ts[i].raw_size \in Nat /\ ts[i].access_count \in Nat
           /\ Sizes(ts)[i] = ts[i].raw_size /\ Accesses(ts)[i] = ts[i].access_count
           /\ Restores(ts)[i] = ts[i].access_count * ts[i].raw_size
           /\ Restores(ts)[i] \in Nat
<1>1. ts[i] \in ForkToken
  BY ElementOfSeq
<1>2. ts[i].raw_size \in Nat /\ ts[i].access_count \in Nat
  BY <1>1 DEF ForkToken
<1> QED
  BY <1>1, <1>2 DEF Sizes, Accesses, Restores

LEMMA IntervalSplit ==
    ASSUME NEW n \in Nat, NEW m \in Nat
    PROVE  /\ 1 .. n + m = (1 .. n) \cup (n + 1 .. n + m)
           /\ (1 .. n) \cap (n + 1 .. n + m) = {}
           /\ IsFiniteSet(1 .. n) /\ IsFiniteSet(n + 1 .. n + m)
<1>1. ASSUME NEW x \in 1 .. n + m PROVE x \in (1 .. n) \cup (n + 1 .. n + m)
  OBVIOUS
<1>2. ASSUME NEW x \in (1 .. n) \cup (n + 1 .. n + m) PROVE x \in 1 .. n + m
  OBVIOUS
<1>3. (1 .. n) \cap (n + 1 .. n + m) = {}
  OBVIOUS
<1> QED
  BY <1>1, <1>2, <1>3, FS_Interval

\* The tokens added at the end count with their size and as never paged in.
LEMMA AccountGrow ==
    ASSUME NEW ts \in Seq(ForkToken), NEW us \in Seq(ForkToken), NEW n \in Nat, NEW m \in Nat,
           Len(ts) = n, Len(us) = n + m,
           \A i \in 1 .. n : /\ us[i].raw_size = ts[i].raw_size
                             /\ us[i].access_count = ts[i].access_count,
           \A i \in n + 1 .. n + m : us[i].access_count = 0
    PROVE  /\ Total(Sizes(us), n + m) = Total(Sizes(ts), n)
                                        + SumFunctionOnSet(Sizes(us), n + 1 .. n + m)
           /\ Total(Accesses(us), n + m) = Total(Accesses(ts), n)
           /\ Total(Restores(us), n + m) = Total(Restores(ts), n)
<1> DEFINE Old == 1 .. n
           New == n + 1 .. n + m
<1>1. 1 .. n + m = Old \cup New /\ Old \cap New = {} /\ IsFiniteSet(Old) /\ IsFiniteSet(New)
  BY IntervalSplit
<1>2. n + m \in Nat
  OBVIOUS
<1>3. ASSUME NEW i \in Old \cup New
      PROVE  Sizes(us)[i] \in Nat /\ Accesses(us)[i] \in Nat /\ Restores(us)[i] \in Nat
  BY <1>1, <1>2, EntryParts
<1>4. ASSUME NEW i \in Old
      PROVE  /\ Sizes(us)[i] = Sizes(ts)[i] /\ Accesses(us)[i] = Accesses(ts)[i]
             /\ Restores(us)[i] = Restores(ts)[i]
             /\ Accesses(ts)[i] \in Nat /\ Restores(ts)[i] \in Nat
  <2>1. i \in 1 .. n + m
    BY <1>1
  <2>2. /\ Sizes(us)[i] = us[i].raw_size /\ Accesses(us)[i] = us[i].access_count
        /\ Restores(us)[i] = us[i].access_count * us[i].raw_size
    BY <2>1, <1>2, EntryParts
  <2>3. /\ Sizes(ts)[i] = ts[i].raw_size /\ Accesses(ts)[i] = ts[i].access_count
        /\ Restores(ts)[i] = ts[i].access_count * ts[i].raw_size
        /\ ts[i].access_count \in Nat /\ Restores(ts)[i] \in Nat
    BY EntryParts
  <2> QED
    BY <2>2, <2>3
<1>5. ASSUME NEW i \in New PROVE Accesses(us)[i] = 0 /\ Restores(us)[i] = 0
  <2>1. i \in 1 .. n + m /\ us[i].access_count = 0
    BY <1>1
  <2>2. /\ Accesses(us)[i] = us[i].access_count /\ us[i].raw_size \in Nat
        /\ Restores(us)[i] = us[i].access_count * us[i].raw_size
    BY <2>1, <1>2, EntryParts
  <2> QED
    BY <2>1, <2>2
<1> HIDE DEF Old, New
<1>6. SumFunctionOnSet(Sizes(us), Old \cup New)
        = SumFunctionOnSet(Sizes(us), Old) + SumFunctionOnSet(Sizes(us), New)
  BY <1>1, <1>3, SumSplit
<1>7. SumFunctionOnSet(Accesses(us), Old \cup New)
        = SumFunctionOnSet(Accesses(us), Old) + SumFunctionOnSet(Accesses(us), New)
  BY <1>1, <1>3, SumSplit
<1>8. SumFunctionOnSet(Restores(us), Old \cup New)
        = SumFunctionOnSet(Restores(us), Old) + SumFunctionOnSet(Restores(us), New)
  BY <1>1, <1>3, SumSplit
<1>9. SumFunctionOnSet(Sizes(us), Old) = SumFunctionOnSet(Sizes(ts), Old)
  BY <1>1, <1>4, SumSame
<1>10. SumFunctionOnSet(Accesses(us), Old) = SumFunctionOnSet(Accesses(ts), Old)
  BY <1>1, <1>4, SumSame
<1>11. SumFunctionOnSet(Restores(us), Old) = SumFunctionOnSet(Restores(ts), Old)
  BY <1>1, <1>4, SumSame
<1>12. SumFunctionOnSet(Accesses(us), New) = 0
  BY <1>1, <1>5, SumZeros
<1>13. SumFunctionOnSet(Restores(us), New) = 0
  BY <1>1, <1>5, SumZeros
<1>14. SumFunctionOnSet(Accesses(ts), Old) \in Nat /\ SumFunctionOnSet(Restores(ts), Old) \in Nat
  BY <1>1, <1>4, SumType
<1>15. /\ SumFunctionOnSet(Accesses(us), Old \cup New) = SumFunctionOnSet(Accesses(ts), Old)
       /\ SumFunctionOnSet(Restores(us), Old \cup New) = SumFunctionOnSet(Restores(ts), Old)
  BY <1>7, <1>8, <1>10, <1>11, <1>12, <1>13, <1>14
<1>16. SumFunctionOnSet(Sizes(us), Old \cup New)
         = SumFunctionOnSet(Sizes(ts), Old) + SumFunctionOnSet(Sizes(us), New)
  BY <1>6, <1>9
<1> QED
  BY <1>1, <1>15, <1>16, Zenon DEF Total, Old, New

\* The tokens in A are paged in once more, the others as often as before.
LEMMA AccountServe ==
    ASSUME NEW ts \in Seq(ForkToken), NEW us \in Seq(ForkToken), NEW n \in Nat,
           Len(ts) = n, Len(us) = n, NEW A \in SUBSET (1 .. n),
           \A i \in 1 .. n : /\ us[i].raw_size = ts[i].raw_size
                             /\ us[i].access_count = ts[i].access_count + (IF i \in A THEN 1 ELSE 0)
    PROVE  /\ IsFiniteSet(A)
           /\ Total(Sizes(us), n) = Total(Sizes(ts), n)
           /\ Total(Accesses(us), n) = Total(Accesses(ts), n) + Cardinality(A)
           /\ Total(Restores(us), n) = Total(Restores(ts), n) + SumFunctionOnSet(Sizes(ts), A)
           /\ Cardinality(A) \in Nat /\ SumFunctionOnSet(Sizes(ts), A) \in Nat
<1> DEFINE All == 1 .. n
           B   == All \ A
           one == [i \in All |-> IF i \in A THEN 1 ELSE 0]
           add == [i \in All |-> IF i \in A THEN Sizes(ts)[i] ELSE 0]
<1>1. All = A \cup B /\ A \cap B = {} /\ IsFiniteSet(All) /\ IsFiniteSet(A) /\ IsFiniteSet(B)
  <2>1. PICK S : S = All
    OBVIOUS
  <2>2. IsFiniteSet(S) /\ A \in SUBSET S /\ B = S \ A
    <3>1. IsFiniteSet(1 .. n)
      BY FS_Interval
    <3>2. A \in SUBSET S /\ B = S \ A
      BY <2>1, Zenon
    <3> HIDE DEF B
    <3> QED
      BY <2>1, <3>1, <3>2
  <2>3. S = A \cup (S \ A) /\ A \cap (S \ A) = {} /\ IsFiniteSet(A) /\ IsFiniteSet(S \ A)
    <3>1. S = A \cup (S \ A) /\ A \cap (S \ A) = {}
      BY <2>2
    <3>2. S \ A \subseteq S /\ A \subseteq S
      BY <2>2, Zenon
    <3>3. IsFiniteSet(A) /\ IsFiniteSet(S \ A)
      BY <2>2, <3>2, FS_Subset, Zenon
    <3> QED
      BY <3>1, <3>3
  <2> HIDE DEF B
  <2> QED
    BY <2>1, <2>2, <2>3
<1>2. \A i \in All : /\ Sizes(ts)[i] = ts[i].raw_size /\ Accesses(ts)[i] = ts[i].access_count
                     /\ Restores(ts)[i] = ts[i].access_count * ts[i].raw_size
                     /\ Restores(ts)[i] \in Nat /\ ts[i].raw_size \in Nat /\ ts[i].access_count \in Nat
  BY EntryParts
<1>3. \A i \in All : /\ Sizes(us)[i] = us[i].raw_size /\ Accesses(us)[i] = us[i].access_count
                     /\ Restores(us)[i] = us[i].access_count * us[i].raw_size
  BY EntryParts
<1>4. \A i \in All : Sizes(us)[i] = Sizes(ts)[i]
  BY <1>2, <1>3
<1>5. \A i \in All : Accesses(ts)[i] \in Nat /\ one[i] \in Nat /\ Accesses(us)[i] = Accesses(ts)[i] + one[i]
  BY <1>2, <1>3
<1>6. ASSUME NEW i \in All
      PROVE  Restores(ts)[i] \in Nat /\ add[i] \in Nat /\ Restores(us)[i] = Restores(ts)[i] + add[i]
  <2>1. PICK a \in Nat, r \in Nat : a = ts[i].access_count /\ r = ts[i].raw_size
    BY <1>2
  <2>2. (a + 1) * r = a * r + r /\ (a + 0) * r = a * r + 0 /\ a * r \in Nat
    OBVIOUS
  <2>3. Restores(ts)[i] = a * r /\ Sizes(ts)[i] = r
    BY <1>2, <2>1
  <2>4. CASE i \in A
    <3>1. Restores(us)[i] = (a + 1) * r /\ add[i] = r
      BY <1>3, <2>1, <2>3, <2>4
    <3> QED
      BY <2>2, <2>3, <3>1
  <2>5. CASE i \notin A
    <3>1. Restores(us)[i] = (a + 0) * r /\ add[i] = 0
      BY <1>3, <2>1, <2>3, <2>5
    <3> QED
      BY <2>2, <2>3, <3>1
  <2> QED
    BY <2>4, <2>5
<1>7. /\ \A i \in A : one[i] = 1 /\ add[i] = Sizes(ts)[i] /\ Sizes(ts)[i] \in Nat
      /\ \A i \in B : one[i] = 0 /\ add[i] = 0
  BY <1>2
<1>8. \A i \in A \cup B : one[i] \in Nat /\ add[i] \in Nat
  BY <1>5, <1>6
<1> HIDE DEF All, B, one, add
<1>9. SumFunctionOnSet(Sizes(us), All) = SumFunctionOnSet(Sizes(ts), All)
  BY <1>1, <1>4, SumSame
<1>10. SumFunctionOnSet(Accesses(us), All) = SumFunctionOnSet(Accesses(ts), All) + SumFunctionOnSet(one, All)
  <2>1. PICK f, g, h : f = Accesses(ts) /\ g = one /\ h = Accesses(us)
    OBVIOUS
  <2>2. \A i \in All : f[i] \in Nat /\ g[i] \in Nat /\ h[i] = f[i] + g[i]
    BY <1>5, <2>1
  <2>3. IsFiniteSet(All)
    BY <1>1
  <2>4. SumFunctionOnSet(h, All) = SumFunctionOnSet(f, All) + SumFunctionOnSet(g, All)
    BY ONLY <2>2, <2>3, SumPlus
  <2> QED
    BY <2>1, <2>4
<1>11. SumFunctionOnSet(Restores(us), All) = SumFunctionOnSet(Restores(ts), All) + SumFunctionOnSet(add, All)
  <2>1. PICK f, g, h : f = Restores(ts) /\ g = add /\ h = Restores(us)
    OBVIOUS
  <2>2. \A i \in All : f[i] \in Nat /\ g[i] \in Nat /\ h[i] = f[i] + g[i]
    BY <1>6, <2>1
  <2>3. IsFiniteSet(All)
    BY <1>1
  <2>4. SumFunctionOnSet(h, All) = SumFunctionOnSet(f, All) + SumFunctionOnSet(g, All)
    BY ONLY <2>2, <2>3, SumPlus
  <2> QED
    BY <2>1, <2>4
<1>12. SumFunctionOnSet(one, All) = Cardinality(A)
  <2>1. SumFunctionOnSet(one, A \cup B) = SumFunctionOnSet(one, A) + SumFunctionOnSet(one, B)
    BY <1>1, <1>8, SumSplit
  <2>2. SumFunctionOnSet(one, A) = Cardinality(A) /\ SumFunctionOnSet(one, B) = 0
    BY <1>1, <1>7, SumOnes, SumZeros
  <2>3. Cardinality(A) \in Nat
    BY <1>1, FS_CardinalityType
  <2> QED
    BY <1>1, <2>1, <2>2, <2>3
<1>13. SumFunctionOnSet(Sizes(ts), A) \in Nat
  BY <1>1, <1>7, SumType
<1>14. SumFunctionOnSet(add, All) = SumFunctionOnSet(Sizes(ts), A)
  <2>1. SumFunctionOnSet(add, A \cup B) = SumFunctionOnSet(add, A) + SumFunctionOnSet(add, B)
    BY <1>1, <1>8, SumSplit
  <2>2. SumFunctionOnSet(add, A) = SumFunctionOnSet(Sizes(ts), A)
    BY <1>1, <1>7, SumSame
  <2>3. SumFunctionOnSet(add, B) = 0
    BY <1>1, <1>7, SumZeros
  <2> QED
    BY <1>1, <2>1, <2>2, <2>3, <1>13
<1>15. Cardinality(A) \in Nat
  BY <1>1, FS_CardinalityType
<1> QED
  BY <1>1, <1>9, <1>10, <1>11, <1>12, <1>13, <1>14, <1>15, Zenon DEF Total, All

LEMMA PartOfAll ==
    ASSUME NEW ts \in Seq(ForkToken), NEW n \in Nat, Len(ts) = n, NEW A \in SUBSET (1 .. n)
    PROVE  /\ SumFunctionOnSet(Sizes(ts), A) \in Nat
           /\ SumFunctionOnSet(Sizes(ts), A) <= Total(Sizes(ts), n)
<1> DEFINE B == (1 .. n) \ A
<1>1. 1 .. n = A \cup B /\ A \cap B = {} /\ IsFiniteSet(A) /\ IsFiniteSet(B)
  <2>1. PICK S : S = 1 .. n
    OBVIOUS
  <2>2. IsFiniteSet(S) /\ A \in SUBSET S /\ B = S \ A
    <3>1. IsFiniteSet(1 .. n)
      BY FS_Interval
    <3>2. A \in SUBSET S /\ B = S \ A
      BY <2>1, Zenon
    <3> HIDE DEF B
    <3> QED
      BY <2>1, <3>1, <3>2
  <2>3. S = A \cup (S \ A) /\ A \cap (S \ A) = {} /\ IsFiniteSet(A) /\ IsFiniteSet(S \ A)
    <3>1. S = A \cup (S \ A) /\ A \cap (S \ A) = {}
      BY <2>2
    <3>2. S \ A \subseteq S /\ A \subseteq S
      BY <2>2, Zenon
    <3>3. IsFiniteSet(A) /\ IsFiniteSet(S \ A)
      BY <2>2, <3>2, FS_Subset, Zenon
    <3> QED
      BY <3>1, <3>3
  <2> HIDE DEF B
  <2> QED
    BY <2>1, <2>2, <2>3
<1>2. \A i \in 1 .. n : Sizes(ts)[i] \in Nat
  BY EntryParts
<1>3. \A i \in A \cup B : Sizes(ts)[i] \in Nat
  BY <1>1, <1>2
<1> HIDE DEF B
<1>4. SumFunctionOnSet(Sizes(ts), A) \in Nat /\ SumFunctionOnSet(Sizes(ts), B) \in Nat
  BY <1>1, <1>3, SumType
<1>5. SumFunctionOnSet(Sizes(ts), A \cup B)
        = SumFunctionOnSet(Sizes(ts), A) + SumFunctionOnSet(Sizes(ts), B)
  BY <1>1, <1>3, SumSplit
<1>6. Total(Sizes(ts), n) = SumFunctionOnSet(Sizes(ts), A) + SumFunctionOnSet(Sizes(ts), B)
  BY <1>1, <1>5 DEF Total
<1> QED
  BY <1>4, <1>6

\* What the statistics have to be for the tokens ts.
Balanced(ts, id, out, in, sent, got) ==
    /\ ts \in Seq(ForkToken) /\ Len(ts) <= MaxPagedChunks
    /\ id = Len(ts) /\ out = Len(ts)
    /\ sent = Total(Sizes(ts), Len(ts))
    /\ in = Total(Accesses(ts), Len(ts))
    /\ got = Total(Restores(ts), Len(ts))

\* What may become of one token.
Lives(t, u) ==
    /\ t.state = "Consumed" => u.state = "Consumed" /\ u.access_count = t.access_count
    /\ u.access_count # t.access_count => t.sealed /\ u.state \in {"PagedIn", "Consumed"}
    /\ u.state = "PagedOut" => t.state = "PagedOut"
    /\ u.task = t.task /\ u.offset = t.offset /\ u.raw_size = t.raw_size

LEMMA BalancedTypes ==
    ASSUME NEW ts, NEW id, NEW out, NEW in, NEW sent, NEW got, Balanced(ts, id, out, in, sent, got)
    PROVE  id \in Nat /\ out \in Nat /\ in \in Nat /\ sent \in Nat /\ got \in Nat
<1>1. PICK n \in Nat : n = Len(ts)
  BY LenProperties DEF Balanced
<1>2. ts \in Seq(ForkToken)
  BY DEF Balanced
<1>3. IsFiniteSet(1 .. n)
  BY FS_Interval
<1>4. ASSUME NEW i \in 1 .. n
      PROVE  Sizes(ts)[i] \in Nat /\ Accesses(ts)[i] \in Nat /\ Restores(ts)[i] \in Nat
  BY <1>1, <1>2, EntryParts
<1>5. Total(Sizes(ts), n) \in Nat /\ Total(Accesses(ts), n) \in Nat /\ Total(Restores(ts), n) \in Nat
  BY <1>3, <1>4, SumType DEF Total
<1> QED
  BY <1>1, <1>5 DEF Balanced

LEMMA BalancedGrow ==
    ASSUME NEW ts, NEW id, NEW out, NEW in, NEW sent, NEW got, Balanced(ts, id, out, in, sent, got),
           NEW n \in Nat, n = Len(ts), NEW m \in Nat, n + m <= MaxPagedChunks,
           NEW us \in Seq(ForkToken), Len(us) = n + m,
           \A i \in 1 .. n : /\ us[i].raw_size = ts[i].raw_size
                             /\ us[i].access_count = ts[i].access_count,
           \A i \in n + 1 .. n + m : us[i].access_count = 0,
           NEW more, more = SumFunctionOnSet(Sizes(us), n + 1 .. n + m)
    PROVE  Balanced(us, id + m, out + m, in, sent + more, got)
<1>1. /\ ts \in Seq(ForkToken) /\ id = n /\ out = n
      /\ sent = Total(Sizes(ts), n) /\ in = Total(Accesses(ts), n) /\ got = Total(Restores(ts), n)
  BY DEF Balanced
<1>2. /\ Total(Sizes(us), n + m) = Total(Sizes(ts), n) + more
      /\ Total(Accesses(us), n + m) = Total(Accesses(ts), n)
      /\ Total(Restores(us), n + m) = Total(Restores(ts), n)
  BY <1>1, AccountGrow
<1> QED
  BY <1>1, <1>2 DEF Balanced

LEMMA BalancedServe ==
    ASSUME NEW ts, NEW id, NEW out, NEW in, NEW sent, NEW got, Balanced(ts, id, out, in, sent, got),
           NEW n \in Nat, n = Len(ts),
           NEW us \in Seq(ForkToken), Len(us) = n, NEW A \in SUBSET (1 .. n),
           \A i \in 1 .. n : /\ us[i].raw_size = ts[i].raw_size
                             /\ us[i].access_count = ts[i].access_count + (IF i \in A THEN 1 ELSE 0)
    PROVE  Balanced(us, id, out, in + Cardinality(A), sent, got + SumFunctionOnSet(Sizes(ts), A))
<1>1. /\ ts \in Seq(ForkToken) /\ id = n /\ out = n /\ n <= MaxPagedChunks
      /\ sent = Total(Sizes(ts), n) /\ in = Total(Accesses(ts), n) /\ got = Total(Restores(ts), n)
  BY DEF Balanced
<1>2. /\ Total(Sizes(us), n) = Total(Sizes(ts), n)
      /\ Total(Accesses(us), n) = Total(Accesses(ts), n) + Cardinality(A)
      /\ Total(Restores(us), n) = Total(Restores(ts), n) + SumFunctionOnSet(Sizes(ts), A)
  BY <1>1, AccountServe
<1> QED
  BY <1>1, <1>2 DEF Balanced

\* A call that neither makes tokens nor serves one leaves the books alone.
LEMMA BalancedKeep ==
    ASSUME NEW ts, NEW id, NEW out, NEW in, NEW sent, NEW got, Balanced(ts, id, out, in, sent, got),
           NEW n \in Nat, n = Len(ts),
           NEW us \in Seq(ForkToken), Len(us) = n,
           \A i \in 1 .. n : /\ us[i].raw_size = ts[i].raw_size
                             /\ us[i].access_count = ts[i].access_count
    PROVE  Balanced(us, id, out, in, sent, got)
<1>1. ts \in Seq(ForkToken)
  BY DEF Balanced
<1>2. ASSUME NEW i \in 1 .. n
      PROVE  /\ us[i].raw_size = ts[i].raw_size
             /\ us[i].access_count = ts[i].access_count + (IF i \in {} THEN 1 ELSE 0)
  <2>1. ts[i].access_count \in Nat
    BY <1>1, EntryParts
  <2> QED
    BY <2>1
<1>3. Balanced(us, id, out, in + Cardinality({}), sent, got + SumFunctionOnSet(Sizes(ts), {}))
  <2>1. {} \in SUBSET (1 .. n)
    OBVIOUS
  <2> QED
    BY <2>1, <1>2, BalancedServe
<1>4. Cardinality({}) = 0 /\ SumFunctionOnSet(Sizes(ts), {}) = 0
  BY FS_EmptySet, SumUnfolds
<1>5. in \in Nat /\ got \in Nat
  BY BalancedTypes
<1> QED
  BY <1>3, <1>4, <1>5

LEMMA LivesSame == \A t \in ForkToken : Lives(t, t)
  BY DEF Lives

\* One token is replaced.
LEMMA PutToken ==
    ASSUME NEW ts \in Seq(ForkToken), NEW n \in Nat, n = Len(ts), NEW i \in 1 .. n,
           NEW v \in ForkToken, NEW us, us = [ts EXCEPT ![i] = v]
    PROVE  /\ us \in Seq(ForkToken) /\ Len(us) = n
           /\ us[i] = v /\ \A j \in 1 .. n : j # i => us[j] = ts[j]
           /\ ts[i] \in ForkToken
  BY ElementOfSeq, ExceptSeq

-----------------------------------------------------------------------------
(* The calls, one by one. *)
Books == Balanced(tokens, next_token_id, pages_out, pages_in, bytes_paged_out, bytes_paged_in)

ResultOK == result.op \in Ops /\ result.kind \in Kinds /\ result.n \in Nat /\ result.bytes \in Nat

Lived == \A i \in 1 .. Len(tokens) : Lives(tokens[i], tokens'[i])

PagerInv == Books /\ ResultOK /\ integrity_violations \in Nat /\ remote_continuations \in Nat

LEMMA ReturnedParts ==
    ASSUME NEW op \in Ops, NEW kind \in Kinds, NEW n \in Nat, NEW bytes \in Nat,
           NEW r, r = Returned(op, kind, n, bytes)
    PROVE  /\ r.op \in Ops /\ r.kind \in Kinds /\ r.n \in Nat /\ r.bytes \in Nat
           /\ r.op = op /\ r.kind = kind /\ r.n = n /\ r.bytes = bytes
  BY DEF Returned

\* The length of the tokens as a number.
LEMMA TokensParts ==
    ASSUME Books
    PROVE  /\ tokens \in Seq(ForkToken) /\ Len(tokens) \in Nat
           /\ \A i \in 1 .. Len(tokens) : tokens[i] \in ForkToken
  BY LenProperties, ElementOfSeq DEF Books, Balanced

\* A token replaced by one that may follow it and was not served.
LEMMA ReplaceToken ==
    ASSUME Books, NEW i \in Indices, NEW v \in ForkToken, tokens' = [tokens EXCEPT ![i] = v],
           Lives(tokens[i], v), v.access_count = tokens[i].access_count,
           UNCHANGED <<counters, pages_in, bytes_paged_in>>
    PROVE  Books' /\ Lived /\ Len(tokens') = Len(tokens)
<1>1. PICK n \in Nat : n = Len(tokens)
  BY TokensParts
<1>2. i \in 1 .. n /\ tokens \in Seq(ForkToken)
  BY <1>1, TokensParts DEF Indices
<1>3. PICK us : us = tokens'
  OBVIOUS
<1>4. /\ us \in Seq(ForkToken) /\ Len(us) = n
      /\ us[i] = v /\ \A j \in 1 .. n : j # i => us[j] = tokens[j]
  BY <1>1, <1>2, <1>3, PutToken
<1>5. \A j \in 1 .. n : Lives(tokens[j], us[j]) /\ us[j].access_count = tokens[j].access_count
  BY <1>1, <1>4, TokensParts, LivesSame
<1>6. \A j \in 1 .. n : us[j].raw_size = tokens[j].raw_size
  BY <1>5 DEF Lives
<1>7. Balanced(us, next_token_id, pages_out, pages_in, bytes_paged_out, bytes_paged_in)
  BY <1>1, <1>4, <1>5, <1>6, BalancedKeep DEF Books
<1> QED
  BY <1>1, <1>3, <1>4, <1>5, <1>7 DEF Books, Lived, counters

LEMMA ConsumeStep ==
    ASSUME Books, NEW i \in Indices, consume(i)
    PROVE  Books' /\ Lived /\ ResultOK' /\ Len(tokens') = Len(tokens)
<1>1. PICK t \in ForkToken : t = tokens[i]
  BY TokensParts DEF Indices
<1> DEFINE v == [t EXCEPT !.state = "Consumed"]
<1>2. v \in ForkToken
  BY DEF ForkToken, States
<1>3. Lives(t, v) /\ v.access_count = t.access_count
  BY DEF Lives, ForkToken
<1>4. tokens' = [tokens EXCEPT ![i] = v]
  BY <1>1 DEF consume
<1> HIDE DEF v
<1>5. UNCHANGED <<counters, pages_in, bytes_paged_in>>
  BY DEF consume
<1>6. Books' /\ Lived /\ Len(tokens') = Len(tokens)
  BY <1>1, <1>2, <1>3, <1>4, <1>5, ReplaceToken
<1>7. ResultOK'
  <2>0. PICK r : r = result'
    OBVIOUS
  <2>1. PICK zero \in Nat : zero = 0
    OBVIOUS
  <2>2. r = Returned("consume", "true", zero, zero)
    BY <2>0, <2>1 DEF consume
  <2>a. "consume" \in Ops /\ "true" \in Kinds
    BY DEF Ops, Kinds
  <2>3. r.op \in Ops /\ r.kind \in Kinds /\ r.n \in Nat /\ r.bytes \in Nat
    BY <2>2, <2>a, ReturnedParts
  <2> QED
    BY <2>0, <2>3 DEF ResultOK
<1> QED
  BY <1>6, <1>7

LEMMA TamperStep ==
    ASSUME Books, ResultOK, NEW i \in Indices, Tamper(i)
    PROVE  Books' /\ Lived /\ ResultOK' /\ Len(tokens') = Len(tokens)
<1>1. PICK t \in ForkToken : t = tokens[i]
  BY TokensParts DEF Indices
<1> DEFINE v == [t EXCEPT !.sealed = FALSE]
<1>2. v \in ForkToken
  BY DEF ForkToken
<1>3. Lives(t, v) /\ v.access_count = t.access_count
  BY DEF Lives, ForkToken
<1>4. tokens' = [tokens EXCEPT ![i] = v]
  BY <1>1 DEF Tamper
<1> HIDE DEF v
<1>5. UNCHANGED <<counters, pages_in, bytes_paged_in>>
  BY DEF Tamper
<1>6. Books' /\ Lived /\ Len(tokens') = Len(tokens)
  BY <1>1, <1>2, <1>3, <1>4, <1>5, ReplaceToken
<1>7. ResultOK'
  BY DEF Tamper, ResultOK
<1> QED
  BY <1>6, <1>7

LEMMA ContinuationStep ==
    ASSUME Books, NEW i \in Indices, NEW k \in Kernels, prepare_continuation(i, k)
    PROVE  Books' /\ Lived /\ ResultOK' /\ Len(tokens') = Len(tokens)
<1>1. PICK t \in ForkToken : t = tokens[i]
  BY TokensParts DEF Indices
<1> DEFINE v == [t EXCEPT !.storage = k]
<1>2. v \in ForkToken
  BY DEF ForkToken
<1>3. Lives(t, v) /\ v.access_count = t.access_count
  BY DEF Lives, ForkToken
<1>4. tokens' = [tokens EXCEPT ![i] = v]
  BY <1>1 DEF prepare_continuation
<1> HIDE DEF v
<1>5. UNCHANGED <<counters, pages_in, bytes_paged_in>>
  BY DEF prepare_continuation
<1>6. Books' /\ Lived /\ Len(tokens') = Len(tokens)
  BY <1>1, <1>2, <1>3, <1>4, <1>5, ReplaceToken
<1>7. ResultOK'
  <2>0. PICK r : r = result'
    OBVIOUS
  <2>1. PICK zero \in Nat : zero = 0
    OBVIOUS
  <2>2. r = Returned("prepare_continuation", "Some", zero, zero)
    BY <2>0, <2>1 DEF prepare_continuation
  <2>a. "prepare_continuation" \in Ops /\ "Some" \in Kinds
    BY DEF Ops, Kinds
  <2>3. r.op \in Ops /\ r.kind \in Kinds /\ r.n \in Nat /\ r.bytes \in Nat
    BY <2>2, <2>a, ReturnedParts
  <2> QED
    BY <2>0, <2>3 DEF ResultOK
<1> QED
  BY <1>6, <1>7

LEMMA ViolationStep ==
    ASSUME Books, NEW i \in Indices, page_in_violation(i)
    PROVE  Books' /\ Lived /\ ResultOK' /\ Len(tokens') = Len(tokens)
<1>1. PICK t \in ForkToken : t = tokens[i]
  BY TokensParts DEF Indices
<1> DEFINE v == [t EXCEPT !.state = "Invalid"]
<1>2. v \in ForkToken
  BY DEF ForkToken, States
<1>3. Lives(t, v) /\ v.access_count = t.access_count
  BY <1>1 DEF Lives, ForkToken, page_in_violation
<1>4. tokens' = [tokens EXCEPT ![i] = v]
  BY <1>1 DEF page_in_violation
<1> HIDE DEF v
<1>5. UNCHANGED <<counters, pages_in, bytes_paged_in>>
  BY DEF page_in_violation
<1>6. Books' /\ Lived /\ Len(tokens') = Len(tokens)
  BY <1>1, <1>2, <1>3, <1>4, <1>5, ReplaceToken
<1>7. ResultOK'
  <2>0. PICK r : r = result'
    OBVIOUS
  <2>1. PICK zero \in Nat : zero = 0
    OBVIOUS
  <2>2. r = Returned("page_in", "IntegrityViolation", zero, zero)
    BY <2>0, <2>1 DEF page_in_violation
  <2>a. "page_in" \in Ops /\ "IntegrityViolation" \in Kinds
    BY DEF Ops, Kinds
  <2>3. r.op \in Ops /\ r.kind \in Kinds /\ r.n \in Nat /\ r.bytes \in Nat
    BY <2>2, <2>a, ReturnedParts
  <2> QED
    BY <2>0, <2>3 DEF ResultOK
<1> QED
  BY <1>6, <1>7

LEMMA RefusedStep ==
    ASSUME Books, NEW i, page_in_refused(i)
    PROVE  Books' /\ Lived /\ ResultOK' /\ Len(tokens') = Len(tokens)
<1>1. tokens' = tokens /\ UNCHANGED <<next_token_id, pages_out, bytes_paged_out, pages_in, bytes_paged_in>>
  BY DEF page_in_refused, counters
<1>2. Lived
  BY <1>1, TokensParts, LivesSame DEF Lived
<1>3. ResultOK'
  <2>0. PICK r : r = result'
    OBVIOUS
  <2>1. PICK zero \in Nat, kind \in Kinds :
            /\ zero = 0
            /\ kind = IF i \in Indices THEN "AlreadyConsumed" ELSE "TokenNotFound"
    BY DEF Kinds
  <2>2. r = Returned("page_in", kind, zero, zero)
    BY <2>0, <2>1 DEF page_in_refused
  <2>a. "page_in" \in Ops
    BY DEF Ops, Kinds
  <2>3. r.op \in Ops /\ r.kind \in Kinds /\ r.n \in Nat /\ r.bytes \in Nat
    BY <2>2, <2>a, ReturnedParts
  <2> QED
    BY <2>0, <2>3 DEF ResultOK
<1> QED
  BY <1>1, <1>2, <1>3 DEF Books

LEMMA SuccessStep ==
    ASSUME Books, NEW i \in Indices, page_in_success(i)
    PROVE  Books' /\ Lived /\ ResultOK' /\ Len(tokens') = Len(tokens)
<1>1. PICK n \in Nat : n = Len(tokens)
  BY TokensParts
<1>2. i \in 1 .. n /\ tokens \in Seq(ForkToken)
  BY <1>1, TokensParts DEF Indices
<1>3. PICK t \in ForkToken : t = tokens[i]
  BY <1>1, <1>2, TokensParts
<1>4. PICK a \in Nat : a = t.access_count + 1
  BY DEF ForkToken
<1> DEFINE v == [t EXCEPT !.state = "PagedIn", !.access_count = a]
<1>5. v \in ForkToken
  BY DEF ForkToken, States
<1>6. Lives(t, v) /\ v.access_count = t.access_count + 1 /\ v.raw_size = t.raw_size
  BY <1>3, <1>4 DEF Lives, ForkToken, page_in_success
<1>7. PICK us : us = tokens'
  OBVIOUS
<1>8. us = [tokens EXCEPT ![i] = v]
  BY <1>3, <1>4, <1>7 DEF page_in_success, Restored
<1> HIDE DEF v
<1>9. /\ us \in Seq(ForkToken) /\ Len(us) = n
      /\ us[i] = v /\ \A j \in 1 .. n : j # i => us[j] = tokens[j]
  BY <1>1, <1>2, <1>5, <1>8, PutToken
<1>10. \A j \in 1 .. n : Lives(tokens[j], us[j])
  BY <1>1, <1>3, <1>6, <1>9, TokensParts, LivesSame
<1>11. ASSUME NEW j \in 1 .. n
       PROVE  /\ us[j].raw_size = tokens[j].raw_size
              /\ us[j].access_count = tokens[j].access_count + (IF j \in {i} THEN 1 ELSE 0)
  <2>1. tokens[j].access_count \in Nat
    BY <1>1, <1>2, EntryParts
  <2>2. CASE j = i
    BY <2>2, <1>3, <1>6, <1>9
  <2>3. CASE j # i
    BY <2>1, <2>3, <1>9
  <2> QED
    BY <2>2, <2>3
<1>12. Balanced(us, next_token_id, pages_out, pages_in + Cardinality({i}), bytes_paged_out,
                bytes_paged_in + SumFunctionOnSet(Sizes(tokens), {i}))
  <2>1. {i} \in SUBSET (1 .. n)
    BY <1>2
  <2> QED
    BY <2>1, <1>1, <1>9, <1>11, BalancedServe DEF Books
<1>13. Cardinality({i}) = 1
  BY FS_Singleton
<1>14. SumFunctionOnSet(Sizes(tokens), {i}) = tokens[i].raw_size
  <2>1. Sizes(tokens)[i] = tokens[i].raw_size /\ tokens[i].raw_size \in Nat
    BY <1>1, <1>2, EntryParts
  <2>2. IsFiniteSet({}) /\ SumFunctionOnSet(Sizes(tokens), {}) = 0
    BY FS_EmptySet, SumUnfolds
  <2>3. SumFunctionOnSet(Sizes(tokens), {} \cup {i}) = SumFunctionOnSet(Sizes(tokens), {}) + Sizes(tokens)[i]
    BY <2>1, <2>2, SumInsert
  <2>4. {} \cup {i} = {i}
    OBVIOUS
  <2> QED
    BY <2>1, <2>2, <2>3, <2>4
<1>15. /\ pages_in' = pages_in + 1 /\ bytes_paged_in' = bytes_paged_in + tokens[i].raw_size
       /\ UNCHANGED <<next_token_id, pages_out, bytes_paged_out>>
  BY DEF page_in_success, counters
<1>16. Books'
  BY <1>7, <1>12, <1>13, <1>14, <1>15 DEF Books
<1>17. ResultOK'
  <2>0. PICK r : r = result'
    OBVIOUS
  <2>1. PICK zero \in Nat, one \in Nat : zero = 0 /\ one = 1
    OBVIOUS
  <2>2. r = Returned("page_in", "Success", one, zero)
    BY <2>0, <2>1 DEF page_in_success
  <2>a. "page_in" \in Ops /\ "Success" \in Kinds
    BY DEF Ops, Kinds
  <2>3. r.op \in Ops /\ r.kind \in Kinds /\ r.n \in Nat /\ r.bytes \in Nat
    BY <2>2, <2>a, ReturnedParts
  <2> QED
    BY <2>0, <2>3 DEF ResultOK
<1> QED
  BY <1>1, <1>7, <1>9, <1>10, <1>16, <1>17 DEF Lived

LEMMA SumOfOne ==
    ASSUME NEW f, NEW a, f[a] \in Nat PROVE SumFunctionOnSet(f, {a}) = f[a]
<1>1. IsFiniteSet({}) /\ SumFunctionOnSet(f, {}) = 0
  BY FS_EmptySet, SumUnfolds
<1>2. SumFunctionOnSet(f, {} \cup {a}) = SumFunctionOnSet(f, {}) + f[a]
  BY <1>1, SumInsert
<1>3. {} \cup {a} = {a}
  OBVIOUS
<1> QED
  BY <1>1, <1>2, <1>3

LEMMA AppendParts ==
    ASSUME NEW ts \in Seq(ForkToken), NEW n \in Nat, n = Len(ts), NEW v \in ForkToken,
           NEW us, us = Append(ts, v)
    PROVE  /\ us \in Seq(ForkToken) /\ Len(us) = n + 1
           /\ us[n + 1] = v /\ \A i \in 1 .. n : us[i] = ts[i]
  BY AppendProperties

LEMMA PageOutStep ==
    ASSUME Books, NEW task \in Tasks, NEW offset \in Nat, NEW len \in Nat, page_out(task, offset, len)
    PROVE  /\ Books' /\ Lived /\ ResultOK'
           /\ result'.op = "page_out"
<1>1. PICK n \in Nat : n = Len(tokens)
  BY TokensParts
<1>2. tokens \in Seq(ForkToken)
  BY TokensParts
<1>3. "page_out" \in Ops /\ "Empty" \in Kinds /\ "MaxReached" \in Kinds /\ "Success" \in Kinds
  BY DEF Ops, Kinds
<1>4. PICK r : r = result'
  OBVIOUS
<1>5. PICK zero \in Nat, one \in Nat : zero = 0 /\ one = 1
  OBVIOUS
<1>6. CASE len = 0 \/ Full
  <2>1. /\ tokens' = tokens
        /\ UNCHANGED <<next_token_id, pages_out, bytes_paged_out, pages_in, bytes_paged_in>>
    BY <1>6 DEF page_out, counters
  <2>2. Lived
    BY <2>1, TokensParts, LivesSame DEF Lived
  <2>3. PICK kind \in Kinds : r = Returned("page_out", kind, zero, zero)
    BY <1>3, <1>4, <1>5, <1>6 DEF page_out
  <2>4. r.op \in Ops /\ r.kind \in Kinds /\ r.n \in Nat /\ r.bytes \in Nat /\ r.op = "page_out"
    BY <1>3, <2>3, ReturnedParts
  <2> QED
    BY <1>4, <2>1, <2>2, <2>4 DEF Books, ResultOK
<1>7. CASE ~(len = 0 \/ Full)
  <2>1. len > 0 /\ n + 1 <= MaxPagedChunks
    BY <1>1, <1>7, ChunkAssumption DEF Full
  <2>2. PICK v : v = Token(task, offset, len)
    OBVIOUS
  <2>3. v \in ForkToken /\ v.raw_size = len /\ v.access_count = 0
    BY <2>1, <2>2, TokenParts
  <2>4. PICK us : us = tokens'
    OBVIOUS
  <2>5. us = Append(tokens, v)
    BY <1>7, <2>2, <2>4 DEF page_out
  <2>6. /\ us \in Seq(ForkToken) /\ Len(us) = n + 1
        /\ us[n + 1] = v /\ \A i \in 1 .. n : us[i] = tokens[i]
    BY <1>1, <1>2, <2>3, <2>5, AppendParts
  <2>7. \A i \in 1 .. n : Lives(tokens[i], us[i])
    BY <1>1, <2>6, TokensParts, LivesSame
  <2>8. n + 1 .. n + 1 = {n + 1}
    OBVIOUS
  <2>9. \A i \in n + 1 .. n + 1 : us[i].access_count = 0
    BY <2>3, <2>6, <2>8
  <2>10. SumFunctionOnSet(Sizes(us), n + 1 .. n + 1) = len
    <3>1. PICK e \in Nat : e = n + 1 /\ e \in 1 .. e
      OBVIOUS
    <3>2. Sizes(us)[e] = us[e].raw_size
      BY <2>6, <3>1, EntryParts
    <3>3. Sizes(us)[e] = len
      BY <2>3, <2>6, <3>1, <3>2
    <3>4. SumFunctionOnSet(Sizes(us), {e}) = len
      BY <3>3, SumOfOne
    <3> QED
      BY <2>8, <3>1, <3>4
  <2>11. Balanced(us, next_token_id + 1, pages_out + 1, pages_in, bytes_paged_out + len, bytes_paged_in)
    <3>1. /\ n + one <= MaxPagedChunks /\ Len(us) = n + one
          /\ \A i \in n + 1 .. n + one : us[i].access_count = 0
          /\ len = SumFunctionOnSet(Sizes(us), n + 1 .. n + one)
      BY <1>5, <2>1, <2>6, <2>9, <2>10
    <3>2. \A i \in 1 .. n : /\ us[i].raw_size = tokens[i].raw_size
                            /\ us[i].access_count = tokens[i].access_count
      BY <2>6
    <3>3. Balanced(us, next_token_id + one, pages_out + one, pages_in, bytes_paged_out + len, bytes_paged_in)
      <4>1. Balanced(tokens, next_token_id, pages_out, pages_in, bytes_paged_out, bytes_paged_in)
        BY DEF Books
      <4>2. one \in Nat /\ n = Len(tokens) /\ us \in Seq(ForkToken)
        BY <1>1, <1>5, <2>6
      <4> QED
        BY <4>1, <4>2, <3>1, <3>2, BalancedGrow
    <3> QED
      BY <1>5, <3>3
  <2>12. /\ next_token_id' = next_token_id + 1 /\ pages_out' = pages_out + 1
         /\ bytes_paged_out' = bytes_paged_out + len /\ UNCHANGED <<pages_in, bytes_paged_in>>
    BY <1>7 DEF page_out
  <2>13. Books'
    BY <2>4, <2>11, <2>12 DEF Books
  <2>14. r = Returned("page_out", "Success", one, len)
    BY <1>4, <1>5, <1>7 DEF page_out
  <2>15. r.op \in Ops /\ r.kind \in Kinds /\ r.n \in Nat /\ r.bytes \in Nat /\ r.op = "page_out"
    BY <1>3, <2>14, ReturnedParts
  <2> QED
    BY <1>1, <1>4, <2>4, <2>7, <2>13, <2>15 DEF Lived, ResultOK
<1> QED
  BY <1>6, <1>7

-----------------------------------------------------------------------------
(* Bulks. *)
LEMMA ListOfPieces ==
    ASSUME NEW m \in Nat, NEW P(_), \A k \in 1 .. m : P(k) \in ForkToken,
           NEW s, s = [k \in 1 .. m |-> P(k)]
    PROVE  s \in Seq(ForkToken) /\ Len(s) = m /\ \A k \in 1 .. m : s[k] = P(k)
  OBVIOUS

Joined(all, ts, ps, n, m) ==
    /\ all \in Seq(ForkToken) /\ Len(all) = n + m
    /\ \A i \in 1 .. n : all[i] = ts[i]
    /\ \A k \in 1 .. m : all[n + k] = ps[k]

LEMMA BulkTokens ==
    ASSUME NEW ts \in Seq(ForkToken), NEW n \in Nat, n = Len(ts),
           NEW ps \in Seq(ForkToken), NEW m \in Nat, m = Len(ps),
           NEW all, all = ts \o ps
    PROVE  Joined(all, ts, ps, n, m)
<1>1. /\ all \in Seq(ForkToken) /\ Len(all) = Len(ts) + Len(ps)
      /\ \A i \in 1 .. Len(ts) + Len(ps) : all[i] = IF i <= Len(ts) THEN ts[i] ELSE ps[i - Len(ts)]
  BY ConcatProperties
<1>2. \A i \in 1 .. n + m : all[i] = IF i <= n THEN ts[i] ELSE ps[i - n]
  BY <1>1
<1>3. ASSUME NEW k \in 1 .. m PROVE all[n + k] = ps[k]
  <2>1. n + k \in 1 .. n + m /\ ~(n + k <= n) /\ (n + k) - n = k
    OBVIOUS
  <2> QED
    BY <1>2, <2>1
<1>4. ASSUME NEW i \in 1 .. n PROVE all[i] = ts[i]
  <2>1. i \in 1 .. n + m /\ i <= n
    OBVIOUS
  <2> QED
    BY <1>2, <2>1
<1> QED
  BY <1>1, <1>3, <1>4 DEF Joined

\* Labelling changes nothing but the number of chunks.
LEMMA LabelOne ==
    ASSUME NEW t \in ForkToken, NEW total \in Nat, NEW u, u = [t EXCEPT !.total_chunks = total]
    PROVE  /\ u \in ForkToken /\ Lives(t, u) /\ u.total_chunks = total
           /\ u.access_count = t.access_count /\ u.raw_size = t.raw_size /\ u.offset = t.offset
<1>1. u \in ForkToken
  BY DEF ForkToken
<1> QED
  BY <1>1 DEF ForkToken, Lives

LEMMA LabelParts ==
    ASSUME NEW ts \in Seq(ForkToken), NEW n \in Nat, n = Len(ts), NEW start \in Int,
           NEW total \in Nat, NEW us, us = Label(ts, start, total)
    PROVE  /\ us \in Seq(ForkToken) /\ Len(us) = n
           /\ \A i \in 1 .. n : /\ Lives(ts[i], us[i]) /\ us[i].access_count = ts[i].access_count
                                /\ us[i].raw_size = ts[i].raw_size /\ us[i].offset = ts[i].offset
                                /\ i - 1 < start => us[i] = ts[i]
                                /\ i - 1 >= start /\ ts[i].total_chunks = None =>
                                     us[i].total_chunks = total
<1> DEFINE L(i) == IF i - 1 >= start /\ ts[i].total_chunks = None
                   THEN [ts[i] EXCEPT !.total_chunks = total] ELSE ts[i]
<1>1. DOMAIN ts = 1 .. n
  BY LenProperties
<1>2. us = [i \in 1 .. n |-> L(i)]
  BY <1>1, Zenon DEF Label
<1>3. ASSUME NEW i \in 1 .. n
      PROVE  /\ L(i) \in ForkToken
             /\ Lives(ts[i], L(i)) /\ L(i).access_count = ts[i].access_count
             /\ L(i).raw_size = ts[i].raw_size /\ L(i).offset = ts[i].offset
             /\ i - 1 < start => L(i) = ts[i]
             /\ i - 1 >= start /\ ts[i].total_chunks = None => L(i).total_chunks = total
  <2>1. PICK t \in ForkToken : t = ts[i]
    BY EntryParts
  <2>2. PICK u : u = [t EXCEPT !.total_chunks = total]
    OBVIOUS
  <2>3. /\ u \in ForkToken /\ Lives(t, u) /\ u.total_chunks = total
        /\ u.access_count = t.access_count /\ u.raw_size = t.raw_size /\ u.offset = t.offset
    BY <2>2, LabelOne
  <2>4. L(i) = IF i - 1 >= start /\ t.total_chunks = None THEN u ELSE t
    BY <2>1, <2>2
  <2>5. Lives(t, t)
    BY LivesSame
  <2> HIDE DEF L
  <2>6. CASE i - 1 >= start /\ t.total_chunks = None
    BY <2>1, <2>3, <2>4, <2>6
  <2>7. CASE ~(i - 1 >= start /\ t.total_chunks = None)
    BY <2>1, <2>4, <2>5, <2>7
  <2> QED
    BY <2>6, <2>7
<1> HIDE DEF L
<1>4. us \in Seq(ForkToken) /\ Len(us) = n /\ \A i \in 1 .. n : us[i] = L(i)
  BY <1>2, <1>3, ListOfPieces
<1> QED
  BY <1>3, <1>4

\* The body of BulkIsWhole, for the tokens before and after.
Whole(ts, us, bytes) ==
    LET new == Len(ts) + 1 .. Len(us)
    IN  /\ \A i \in 1 .. Len(ts) : us[i] = ts[i]
        /\ \A i \in new :
             /\ us[i].total_chunks = Cardinality(new)
             /\ i + 1 \in new => us[i + 1].offset = us[i].offset + us[i].raw_size
        /\ bytes = SumFunctionOnSet([i \in new |-> us[i].raw_size], new)

\* us is ts with the first m pieces of a bulk put at the end.
Extended(ts, us, n, m, task, base, len) ==
    /\ us \in Seq(ForkToken) /\ Len(us) = n + m
    /\ \A i \in 1 .. n : Lives(ts[i], us[i]) /\ us[i].access_count = ts[i].access_count
    /\ \A k \in 1 .. m : /\ us[n + k].access_count = 0
                         /\ us[n + k].raw_size = Piece(task, base, len, k).raw_size
                         /\ us[n + k].offset = Piece(task, base, len, k).offset

Gives(f, us, n, m) == \A i \in n + 1 .. n + m : f[i] = us[i].raw_size

LEMMA ExtendedBytes ==
    ASSUME NEW ts \in Seq(ForkToken), NEW n \in Nat, n = Len(ts),
           NEW task \in Tasks, NEW base \in Nat, NEW len \in Nat, NEW m \in Nat, m <= Ceil(len),
           NEW us, Extended(ts, us, n, m, task, base, len),
           NEW f, Gives(f, us, n, m)
    PROVE  SumFunctionOnSet(f, n + 1 .. n + m) = BytesOf(len, m)
<1>1. ASSUME NEW k \in 1 .. m
      PROVE  f[n + k] \in Nat /\ BytesOf(len, k) = BytesOf(len, k - 1) + f[n + k]
  <2>1. PICK p : p = Piece(task, base, len, k)
    OBVIOUS
  <2>2. k \in 1 .. Ceil(len)
    BY CeilParts
  <2>3. p.raw_size \in Nat /\ BytesOf(len, k) = BytesOf(len, k - 1) + p.raw_size
    BY <2>1, <2>2, PieceParts
  <2>4. n + k \in n + 1 .. n + m /\ us[n + k].raw_size = p.raw_size
    BY <2>1 DEF Extended
  <2>5. f[n + k] = p.raw_size
    BY <2>4 DEF Gives
  <2> QED
    BY <2>3, <2>5
<1>2. PieceSizes(f, len, n, m)
  BY <1>1 DEF PieceSizes
<1> QED
  BY <1>2, PiecesSum

Following(us, n, m) ==
    \A k, j \in 1 .. m : j = k + 1 => us[n + j].offset = us[n + k].offset + us[n + k].raw_size

LEMMA PiecesFollow ==
    ASSUME NEW ts \in Seq(ForkToken), NEW n \in Nat, n = Len(ts),
           NEW task \in Tasks, NEW base \in Nat, NEW len \in Nat, NEW m \in Nat, m = Ceil(len),
           NEW us, Extended(ts, us, n, m, task, base, len)
    PROVE  Following(us, n, m)
<1>0. SUFFICES ASSUME NEW k \in 1 .. m, NEW j \in 1 .. m, j = k + 1
               PROVE  us[n + j].offset = us[n + k].offset + us[n + k].raw_size
  BY DEF Following
<1>1. PICK c \in Nat : c = ChunkSize /\ c > 0
  BY ChunkAssumption
<1>2. PICK p, q : p = Piece(task, base, len, k) /\ q = Piece(task, base, len, j)
  OBVIOUS
<1>3. (j - 1) * c < len
  BY <1>1, CeilParts
<1>4. k * c < len
  <2>1. j - 1 = k
    BY <1>0
  <2> QED
    BY <1>3, <2>1
<1>a. k \in 1 .. Ceil(len) /\ j \in 1 .. Ceil(len)
  OBVIOUS
<1>5. p.offset = base + (k - 1) * c /\ p.raw_size = c
  <2>1. /\ p.offset = base + (k - 1) * ChunkSize
        /\ k * ChunkSize < len => p.raw_size = ChunkSize
    BY <1>2, <1>a, PieceParts
  <2> QED
    BY <1>1, <1>4, <2>1
<1>6. q.offset = base + (j - 1) * c
  <2>1. q.offset = base + (j - 1) * ChunkSize
    <3>1. j \in 1 .. Ceil(len) /\ q = Piece(task, base, len, j)
      BY <1>2, <1>a
    <3> QED
      BY ONLY <3>1, PieceParts
  <2> QED
    BY <1>1, <2>1
<1>7. PICK i \in Nat : i = k - 1
  OBVIOUS
<1>8. q.offset = base + (i + 1) * c /\ p.offset = base + i * c
  BY <1>0, <1>5, <1>6, <1>7
<1>9. (i + 1) * c = i * c + c /\ i * c \in Nat
  OBVIOUS
<1>10. q.offset = p.offset + p.raw_size
  BY <1>5, <1>8, <1>9
<1> QED
  BY <1>0, <1>2, <1>10 DEF Extended

LEMMA BulkStep ==
    ASSUME Books, NEW task \in Tasks, NEW base \in Nat, NEW len \in Nat, page_out_bulk(task, base, len)
    PROVE  /\ Books' /\ Lived /\ ResultOK'
           /\ result'.n = 0 /\ Len(tokens') > Len(tokens) => Whole(tokens, tokens', result'.bytes)
<1>1. PICK n \in Nat : n = Len(tokens)
  BY TokensParts
<1>2. tokens \in Seq(ForkToken) /\ n <= MaxPagedChunks /\ next_token_id = n
  BY <1>1, TokensParts DEF Books, Balanced
<1>3. PICK total \in Nat : total = Ceil(len)
  BY CeilParts
<1>4. PICK m \in Nat : m = Fitting(len) /\ m <= total /\ n + m <= MaxPagedChunks
  <2>1. PICK room \in Nat : room = MaxPagedChunks - n
    BY <1>2, ChunkAssumption
  <2>2. Fitting(len) = IF total <= room THEN total ELSE room
    BY <1>1, <1>3, <2>1, MinTwo DEF Fitting
  <2> QED
    BY <2>1, <2>2, ChunkAssumption
<1>5. ASSUME NEW k \in 1 .. m
      PROVE  /\ Piece(task, base, len, k) \in ForkToken
             /\ Piece(task, base, len, k).total_chunks = None
             /\ Piece(task, base, len, k).access_count = 0
  <2>1. k \in 1 .. Ceil(len)
    BY <1>3, <1>4
  <2>2. PICK p : p = Piece(task, base, len, k)
    OBVIOUS
  <2>3. p \in ForkToken /\ p.total_chunks = None /\ p.access_count = 0
    BY <2>1, <2>2, PieceParts
  <2> QED
    BY <2>2, <2>3
<1>6. PICK ps : ps = [k \in 1 .. m |-> Piece(task, base, len, k)]
  OBVIOUS
<1>7. ps \in Seq(ForkToken) /\ Len(ps) = m /\ \A k \in 1 .. m : ps[k] = Piece(task, base, len, k)
  BY <1>5, <1>6, ListOfPieces
<1>8. PICK all : all = tokens \o ps
  OBVIOUS
<1>9. /\ all \in Seq(ForkToken) /\ Len(all) = n + m
      /\ \A i \in 1 .. n : all[i] = tokens[i]
      /\ \A k \in 1 .. m : all[n + k] = ps[k]
  <2>1. Joined(all, tokens, ps, n, m)
    BY <1>1, <1>2, <1>7, <1>8, BulkTokens
  <2> QED
    BY <2>1 DEF Joined
<1>10. PICK start \in Int : start = n + m - total
  OBVIOUS
<1>11. PICK bytes \in Nat : bytes = BytesOf(len, m)
  BY BytesOfParts
<1>12. PICK missing \in Nat : missing = total - m
  BY <1>4
<1>13. PICK us, r : us = tokens' /\ r = result'
  OBVIOUS
<1>14. \/ start >= 0 /\ us = Label(all, start, total) /\ r = Returned("page_out_bulk", "returned", missing, bytes)
       \/ /\ start < 0 /\ us = all
          /\ \E kind \in {"returned", "panicked"} : r = Returned("page_out_bulk", kind, missing, bytes)
  BY <1>2, <1>3, <1>4, <1>6, <1>8, <1>10, <1>11, <1>12, <1>13, Zenon DEF page_out_bulk
<1>15. /\ next_token_id' = next_token_id + m /\ pages_out' = pages_out + m
       /\ bytes_paged_out' = bytes_paged_out + bytes /\ UNCHANGED <<pages_in, bytes_paged_in>>
  BY <1>4, <1>11, Zenon DEF page_out_bulk
<1>16. Extended(tokens, us, n, m, task, base, len)
  <2>1. ASSUME NEW k \in 1 .. m
        PROVE  /\ n + k \in 1 .. n + m
               /\ all[n + k].access_count = 0
               /\ all[n + k].raw_size = Piece(task, base, len, k).raw_size
               /\ all[n + k].offset = Piece(task, base, len, k).offset
    BY <1>5, <1>7, <1>9
  <2>2. ASSUME NEW i \in 1 .. n
        PROVE  i \in 1 .. n + m /\ Lives(tokens[i], all[i]) /\ all[i] = tokens[i]
    BY <1>1, <1>9, TokensParts, LivesSame
  <2>3. CASE us = all
    BY <1>9, <2>1, <2>2, <2>3 DEF Extended
  <2>4. CASE us = Label(all, start, total)
    <3>1. /\ us \in Seq(ForkToken) /\ Len(us) = n + m
          /\ \A i \in 1 .. n + m : /\ Lives(all[i], us[i]) /\ us[i].access_count = all[i].access_count
                                   /\ us[i].raw_size = all[i].raw_size /\ us[i].offset = all[i].offset
      BY <1>9, <2>4, LabelParts
    <3>2. ASSUME NEW i \in 1 .. n
          PROVE  Lives(tokens[i], us[i]) /\ us[i].access_count = tokens[i].access_count
      BY <2>2, <3>1
    <3>3. ASSUME NEW k \in 1 .. m
          PROVE  /\ us[n + k].access_count = 0
                 /\ us[n + k].raw_size = Piece(task, base, len, k).raw_size
                 /\ us[n + k].offset = Piece(task, base, len, k).offset
      BY <2>1, <3>1
    <3> QED
      BY <3>1, <3>2, <3>3 DEF Extended
  <2> QED
    BY <1>14, <2>3, <2>4
<1>17. \A i \in 1 .. n : Lives(tokens[i], us[i]) /\ us[i].access_count = tokens[i].access_count
  BY <1>16 DEF Extended
<1>18. us \in Seq(ForkToken) /\ Len(us) = n + m
  BY <1>16 DEF Extended
<1>19. Books'
  <2>1. \A i \in 1 .. n : us[i].raw_size = tokens[i].raw_size /\ us[i].access_count = tokens[i].access_count
    BY <1>17 DEF Lives
  <2>2. ASSUME NEW i \in n + 1 .. n + m PROVE us[i].access_count = 0
    <3>1. PICK k \in Int : k = i - n
      OBVIOUS
    <3>2. i = n + k /\ k \in 1 .. m
      BY <3>1
    <3> QED
      BY <1>16, <3>2 DEF Extended
  <2>3. Gives(Sizes(us), us, n, m)
    <3>1. SUFFICES ASSUME NEW i \in n + 1 .. n + m PROVE Sizes(us)[i] = us[i].raw_size
      BY DEF Gives
    <3>2. i \in 1 .. n + m /\ n + m \in Nat
      OBVIOUS
    <3> QED
      BY <1>18, <3>2, EntryParts
  <2>4. SumFunctionOnSet(Sizes(us), n + 1 .. n + m) = bytes
    <3>1. /\ tokens \in Seq(ForkToken) /\ n = Len(tokens) /\ m <= Ceil(len)
          /\ Extended(tokens, us, n, m, task, base, len)
      BY <1>1, <1>2, <1>3, <1>4, <1>16
    <3>2. SumFunctionOnSet(Sizes(us), n + 1 .. n + m) = BytesOf(len, m)
      BY <2>3, <3>1, ExtendedBytes
    <3> QED
      BY <1>11, <3>2
  <2>5. Balanced(us, next_token_id + m, pages_out + m, pages_in, bytes_paged_out + bytes, bytes_paged_in)
    BY <1>1, <1>4, <1>18, <2>1, <2>2, <2>4, BalancedGrow DEF Books
  <2> QED
    BY <1>13, <1>15, <2>5 DEF Books
<1>20. PICK kind \in Kinds : r = Returned("page_out_bulk", kind, missing, bytes)
  BY <1>14 DEF Kinds
<1>21. /\ r.op \in Ops /\ r.kind \in Kinds /\ r.n \in Nat /\ r.bytes \in Nat
       /\ r.n = missing /\ r.bytes = bytes
  <2>1. "page_out_bulk" \in Ops
    BY DEF Ops
  <2> QED
    BY <1>20, <2>1, ReturnedParts
<1>22. ASSUME missing = 0, m > 0 PROVE Whole(tokens, us, bytes)
  <2>1. start = n /\ m = total /\ start >= 0
    BY <1>4, <1>10, <1>12, <1>22
  <2>2. us = Label(all, start, total)
    BY <1>14, <2>1
  <2>3. \A i \in 1 .. n + m :
           /\ i - 1 < start => us[i] = all[i]
           /\ i - 1 >= start /\ all[i].total_chunks = None => us[i].total_chunks = total
    BY <1>9, <2>2, LabelParts
  <2>4. ASSUME NEW i \in 1 .. n PROVE us[i] = tokens[i]
    <3>1. i \in 1 .. n + m /\ i - 1 < start
      BY <2>1
    <3> QED
      BY <1>9, <2>3, <3>1
  <2>5. Cardinality(n + 1 .. n + m) = m
    <3>1. PICK a \in Int, b \in Int : a = n + 1 /\ b = n + m /\ a <= b
      BY <1>22
    <3>2. Cardinality(a .. b) = b - a + 1
      BY <3>1, FS_Interval
    <3> QED
      BY <3>1, <3>2
  <2>6. ASSUME NEW i \in n + 1 .. n + m
        PROVE  /\ us[i].total_chunks = m
               /\ i + 1 \in n + 1 .. n + m => us[i + 1].offset = us[i].offset + us[i].raw_size
    <3>1. PICK k \in Int : k = i - n
      OBVIOUS
    <3>2. i = n + k /\ k \in 1 .. m
      BY <3>1
    <3>3. i \in 1 .. n + m /\ i - 1 >= start
      BY <2>1
    <3>4. all[i].total_chunks = None
      BY <1>5, <1>7, <1>9, <3>2
    <3>5. us[i].total_chunks = m
      BY <2>1, <2>3, <3>3, <3>4
    <3>6. ASSUME i + 1 \in n + 1 .. n + m PROVE us[i + 1].offset = us[i].offset + us[i].raw_size
      <4>1. PICK j \in 1 .. m : j = k + 1
        BY <3>2, <3>6
      <4>2. us[n + j].offset = us[n + k].offset + us[n + k].raw_size
        <5>1. /\ tokens \in Seq(ForkToken) /\ n = Len(tokens) /\ m = Ceil(len)
              /\ Extended(tokens, us, n, m, task, base, len)
          BY <1>1, <1>2, <1>3, <1>16, <2>1
        <5>2. Following(us, n, m)
          BY <5>1, PiecesFollow
        <5> QED
          BY <3>2, <4>1, <5>2 DEF Following
      <4>3. n + j = i + 1
        BY <3>2, <4>1
      <4> QED
        BY <3>2, <4>2, <4>3
    <3> QED
      BY <3>5, <3>6
  <2>7. bytes = SumFunctionOnSet([i \in n + 1 .. n + m |-> us[i].raw_size], n + 1 .. n + m)
    <3>1. PICK f : f = [i \in n + 1 .. n + m |-> us[i].raw_size]
      OBVIOUS
    <3>2. Gives(f, us, n, m)
      BY <3>1 DEF Gives
    <3>3. SumFunctionOnSet(f, n + 1 .. n + m) = bytes
      <4>1. /\ tokens \in Seq(ForkToken) /\ n = Len(tokens) /\ m <= Ceil(len)
            /\ Extended(tokens, us, n, m, task, base, len)
        BY <1>1, <1>2, <1>3, <1>4, <1>16
      <4>2. SumFunctionOnSet(f, n + 1 .. n + m) = BytesOf(len, m)
        BY <3>2, <4>1, ExtendedBytes
      <4> QED
        BY <1>11, <4>2
    <3> QED
      BY <3>1, <3>3
  <2> QED
    BY <1>1, <1>18, <2>4, <2>5, <2>6, <2>7 DEF Whole
<1>23. result'.n = 0 /\ Len(tokens') > Len(tokens) => Whole(tokens, tokens', result'.bytes)
  BY <1>1, <1>13, <1>18, <1>21, <1>22
<1> QED
  BY <1>1, <1>13, <1>17, <1>19, <1>21, <1>23 DEF Lived, ResultOK

-----------------------------------------------------------------------------
(* Assembly. *)

\* One token in an assembly: served, found broken, or left alone.
Assembled(t, served, broken) ==
    IF served THEN Restored(t, "Consumed")
    ELSE IF broken THEN [t EXCEPT !.state = "Invalid"] ELSE t

LEMMA AssembledParts ==
    ASSUME NEW t \in ForkToken, NEW served \in BOOLEAN, NEW broken \in BOOLEAN,
           served => t.sealed /\ t.state # "Consumed", broken => t.state # "Consumed",
           NEW u, u = Assembled(t, served, broken)
    PROVE  /\ u \in ForkToken /\ Lives(t, u)
           /\ u.raw_size = t.raw_size
           /\ u.access_count = t.access_count + (IF served THEN 1 ELSE 0)
<1>1. PICK a \in Nat : a = t.access_count + 1 /\ t.access_count = t.access_count + 0
  BY DEF ForkToken
<1>2. CASE served
  <2>1. u = [t EXCEPT !.state = "Consumed", !.access_count = a]
    BY <1>1, <1>2 DEF Assembled, Restored
  <2>2. u \in ForkToken
    BY <2>1 DEF ForkToken, States
  <2> QED
    BY <1>1, <1>2, <2>1, <2>2 DEF ForkToken, Lives
<1>3. CASE ~served /\ broken
  <2>1. u = [t EXCEPT !.state = "Invalid"]
    BY <1>3 DEF Assembled
  <2>2. u \in ForkToken
    BY <2>1 DEF ForkToken, States
  <2> QED
    BY <1>1, <1>3, <2>1, <2>2 DEF ForkToken, Lives
<1>4. CASE ~served /\ ~broken
  <2>1. u = t
    BY <1>4 DEF Assembled
  <2> QED
    BY <1>1, <1>4, <2>1, LivesSame
<1> QED
  BY <1>2, <1>3, <1>4

LEMMA MinIsIn ==
    ASSUME NEW S \in SUBSET Nat, S # {} PROVE Min(S) \in S
<1>1. \E x \in S : \A y \in S : x <= y
  BY HasMinimum
<1> QED
  BY <1>1, Zenon DEF Min

LEMMA AssembleStep ==
    ASSUME Books, NEW task \in Tasks, assemble(task)
    PROVE  Books' /\ Lived /\ ResultOK' /\ Len(tokens') = Len(tokens)
<1>1. PICK n \in Nat : n = Len(tokens)
  BY TokensParts
<1>2. tokens \in Seq(ForkToken) /\ Indices = 1 .. n
  BY <1>1, TokensParts DEF Indices
<1>3. PICK pending, served : pending = Pending(task) /\ served = Served(task)
  OBVIOUS
<1>4. PICK failed : failed = pending \ served
  OBVIOUS
<1>5. /\ pending \in SUBSET (1 .. n) /\ served \in SUBSET (1 .. n) /\ failed \in SUBSET (1 .. n)
      /\ served \subseteq pending
  BY <1>2, <1>3, <1>4 DEF Pending, Served
<1>6. \A i \in pending : tokens[i].state # "Consumed"
  BY <1>3 DEF Pending
<1>7. \A i \in served : tokens[i].sealed
  <2>1. SUFFICES ASSUME NEW i \in served PROVE tokens[i].sealed
    OBVIOUS
  <2>2. i \in pending /\ \A j \in pending : j <= i => tokens[j].sealed
    BY <1>3 DEF Served
  <2>3. i <= i
    BY <1>5
  <2> QED
    BY <2>2, <2>3
<1>8. PICK first : first = Min(failed)
  OBVIOUS
<1>9. failed # {} => first \in pending
  <2>1. SUFFICES ASSUME failed # {} PROVE first \in pending
    OBVIOUS
  <2>2. failed \in SUBSET Nat
    BY <1>5
  <2>3. first \in failed
    BY <1>8, <2>1, <2>2, MinIsIn
  <2> QED
    BY <1>4, <2>3
<1> DEFINE In(i)  == i \in served
           Out(i) == failed # {} /\ i = first
           P(i)   == Assembled(tokens[i], In(i), Out(i))
<1>10. PICK us : us = tokens'
  OBVIOUS
<1>11. us = [i \in 1 .. n |-> P(i)]
  BY <1>2, <1>3, <1>4, <1>8, <1>10, Zenon DEF assemble, Assembled
<1>12. ASSUME NEW i \in 1 .. n
       PROVE  /\ P(i) \in ForkToken /\ Lives(tokens[i], P(i))
              /\ P(i).raw_size = tokens[i].raw_size
              /\ P(i).access_count = tokens[i].access_count + (IF i \in served THEN 1 ELSE 0)
  <2>1. PICK t \in ForkToken : t = tokens[i]
    BY <1>1, TokensParts
  <2>2. PICK b \in BOOLEAN, c \in BOOLEAN : (b <=> In(i)) /\ (c <=> Out(i))
    <3> HIDE DEF In, Out
    <3>1. \E b \in BOOLEAN : b <=> In(i)
      <4>1. CASE In(i)
        BY <4>1, TRUE \in BOOLEAN, Zenon
      <4>2. CASE ~In(i)
        BY <4>2, FALSE \in BOOLEAN, Zenon
      <4> QED
        BY <4>1, <4>2
    <3>2. \E c \in BOOLEAN : c <=> Out(i)
      <4>1. CASE Out(i)
        BY <4>1, TRUE \in BOOLEAN, Zenon
      <4>2. CASE ~Out(i)
        BY <4>2, FALSE \in BOOLEAN, Zenon
      <4> QED
        BY <4>1, <4>2
    <3> QED
      BY <3>1, <3>2, Zenon
  <2>3. b => t.sealed /\ t.state # "Consumed"
    BY <1>5, <1>6, <1>7, <2>1, <2>2
  <2>4. c => t.state # "Consumed"
    BY <1>6, <1>9, <2>1, <2>2
  <2>5. PICK u : u = Assembled(t, b, c)
    OBVIOUS
  <2>6. /\ u \in ForkToken /\ Lives(t, u) /\ u.raw_size = t.raw_size
        /\ u.access_count = t.access_count + (IF b THEN 1 ELSE 0)
    BY <2>3, <2>4, <2>5, AssembledParts
  <2>7. P(i) = u
    BY <2>1, <2>2, <2>5, Zenon DEF Assembled
  <2>8. b <=> i \in served
    BY <2>2
  <2> HIDE DEF P
  <2> QED
    BY <2>1, <2>6, <2>7, <2>8
<1> HIDE DEF P, In, Out
<1>13. us \in Seq(ForkToken) /\ Len(us) = n /\ \A i \in 1 .. n : us[i] = P(i)
  BY <1>11, <1>12, ListOfPieces
<1>14. Balanced(us, next_token_id, pages_out, pages_in + Cardinality(served), bytes_paged_out,
                bytes_paged_in + SumFunctionOnSet(Sizes(tokens), served))
  <2>1. \A i \in 1 .. n : /\ us[i].raw_size = tokens[i].raw_size
                          /\ us[i].access_count = tokens[i].access_count + (IF i \in served THEN 1 ELSE 0)
    BY <1>12, <1>13
  <2> QED
    BY <1>1, <1>5, <1>13, <2>1, BalancedServe DEF Books
<1>15. PICK bytes \in Nat : bytes = Bytes(served) /\ bytes = SumFunctionOnSet(Sizes(tokens), served)
  <2>1. SumFunctionOnSet(Sizes(tokens), served) \in Nat
    BY <1>1, <1>2, <1>5, PartOfAll
  <2>2. Bytes(served) = SumFunctionOnSet(Sizes(tokens), served)
    BY DEF Bytes, Sizes, Indices
  <2> QED
    BY <2>1, <2>2
<1>16. PICK many \in Nat : many = Cardinality(served)
  <2>1. IsFiniteSet(served)
    <3>1. IsFiniteSet(1 .. n) /\ served \subseteq 1 .. n
      BY <1>5, FS_Interval
    <3> QED
      BY <3>1, FS_Subset, Zenon
  <2> QED
    BY <2>1, FS_CardinalityType
<1>17. /\ pages_in' = pages_in + many /\ bytes_paged_in' = bytes_paged_in + bytes
       /\ UNCHANGED <<next_token_id, pages_out, bytes_paged_out>>
  BY <1>3, <1>15, <1>16 DEF assemble, counters
<1>18. Books'
  BY <1>10, <1>14, <1>15, <1>16, <1>17 DEF Books
<1>19. ResultOK'
  <2>0. PICK r : r = result'
    OBVIOUS
  <2>1. PICK zero \in Nat : zero = 0
    OBVIOUS
  <2>2. \/ r = Returned("assemble", "IntegrityFailed", zero, zero)
        \/ r = Returned("assemble", "Incomplete", many, bytes)
        \/ r = Returned("assemble", "Complete", many, bytes)
    BY <1>3, <1>15, <1>16, <2>0, <2>1 DEF assemble
  <2>a. /\ "assemble" \in Ops /\ "IntegrityFailed" \in Kinds
        /\ "Incomplete" \in Kinds /\ "Complete" \in Kinds
    BY DEF Ops, Kinds
  <2>3. r.op \in Ops /\ r.kind \in Kinds /\ r.n \in Nat /\ r.bytes \in Nat
    BY <2>2, <2>a, ReturnedParts
  <2> QED
    BY <2>0, <2>3 DEF ResultOK
<1>20. \A i \in 1 .. n : Lives(tokens[i], us[i])
  BY <1>12, <1>13
<1> QED
  BY <1>1, <1>10, <1>13, <1>18, <1>19, <1>20 DEF Lived

-----------------------------------------------------------------------------
(* All calls together. *)
LEMMA InitBalanced == Init => PagerInv
<1>1. SUFFICES ASSUME Init PROVE PagerInv
  OBVIOUS
<1>2. tokens = <<>> /\ tokens \in Seq(ForkToken) /\ Len(tokens) = 0
  BY <1>1 DEF Init
<1>3. 1 .. 0 = {} /\ IsFiniteSet({})
  BY FS_EmptySet
<1>4. \A f : Total(f, 0) = 0
  BY <1>3, SumUnfolds DEF Total
<1>5. /\ next_token_id = 0 /\ pages_out = 0 /\ pages_in = 0
      /\ bytes_paged_out = 0 /\ bytes_paged_in = 0
      /\ integrity_violations = 0 /\ remote_continuations = 0
  BY <1>1 DEF Init
<1>6. Books
  BY <1>2, <1>4, <1>5, ChunkAssumption DEF Books, Balanced
<1>7. ResultOK
  <2>1. PICK zero \in Nat : zero = 0
    OBVIOUS
  <2>2. PICK r : r = result
    OBVIOUS
  <2>3. r = Returned("new", "None", zero, zero)
    BY <1>1, <2>1, <2>2 DEF Init
  <2>4. "new" \in Ops /\ "None" \in Kinds
    BY DEF Ops, Kinds
  <2>5. r.op \in Ops /\ r.kind \in Kinds /\ r.n \in Nat /\ r.bytes \in Nat
    BY <2>3, <2>4, ReturnedParts
  <2> QED
    BY <2>2, <2>5 DEF ResultOK
<1> QED
  BY <1>5, <1>6, <1>7 DEF PagerInv

WholeIfBulk ==
    result'.op = "page_out_bulk" /\ result'.n = 0 /\ Len(tokens') > Len(tokens) =>
        Whole(tokens, tokens', result'.bytes)

\* What every call keeps and does.
LEMMA EveryCall ==
    ASSUME PagerInv, [Next]_vars PROVE PagerInv' /\ Lived /\ WholeIfBulk
<1>0. /\ Books /\ ResultOK /\ Len(tokens) \in Nat
      /\ integrity_violations \in Nat /\ remote_continuations \in Nat
  BY TokensParts DEF PagerInv
<1>1. ASSUME NEW t \in Tasks, NEW len \in Single, page_out(t, 0, len)
      PROVE  PagerInv' /\ Lived /\ WholeIfBulk
  <2>1. PICK zero \in Nat : zero = 0
    OBVIOUS
  <2>2. len \in Nat /\ page_out(t, zero, len)
    BY <1>1, <2>1, InputAssumption
  <2>3. Books' /\ Lived /\ ResultOK' /\ result'.op = "page_out"
    BY <1>0, <2>2, PageOutStep
  <2>4. UNCHANGED <<integrity_violations, remote_continuations>>
    BY <1>1 DEF page_out
  <2> QED
    BY <1>0, <2>3, <2>4 DEF PagerInv, WholeIfBulk
<1>2. ASSUME NEW t \in Tasks, NEW len \in Bulk, page_out_bulk(t, 0, len)
      PROVE  PagerInv' /\ Lived /\ WholeIfBulk
  <2>1. PICK zero \in Nat : zero = 0
    OBVIOUS
  <2>2. len \in Nat /\ page_out_bulk(t, zero, len)
    BY <1>2, <2>1, InputAssumption
  <2>3. /\ Books' /\ Lived /\ ResultOK'
        /\ result'.n = 0 /\ Len(tokens') > Len(tokens) => Whole(tokens, tokens', result'.bytes)
    BY <1>0, <2>2, BulkStep
  <2>4. UNCHANGED <<integrity_violations, remote_continuations>>
    BY <1>2 DEF page_out_bulk
  <2> QED
    BY <1>0, <2>3, <2>4 DEF PagerInv, WholeIfBulk
<1>a. ASSUME Len(tokens') = Len(tokens) PROVE WholeIfBulk
  BY <1>0, <1>a DEF WholeIfBulk
<1>3. ASSUME NEW i \in 1 .. MaxPagedChunks, page_in(i) PROVE PagerInv' /\ Lived /\ WholeIfBulk
  <2>1. CASE i \in Indices /\ page_in_success(i)
    <3>1. Books' /\ Lived /\ ResultOK' /\ Len(tokens') = Len(tokens)
      BY <1>0, <2>1, SuccessStep
    <3>2. UNCHANGED <<integrity_violations, remote_continuations>>
      BY <2>1 DEF page_in_success
    <3> QED
      BY <1>0, <1>a, <3>1, <3>2 DEF PagerInv
  <2>2. CASE i \in Indices /\ page_in_violation(i)
    <3>1. Books' /\ Lived /\ ResultOK' /\ Len(tokens') = Len(tokens)
      BY <1>0, <2>2, ViolationStep
    <3>2. integrity_violations' = integrity_violations + 1 /\ UNCHANGED remote_continuations
      BY <2>2 DEF page_in_violation
    <3> QED
      BY <1>0, <1>a, <3>1, <3>2 DEF PagerInv
  <2>3. CASE page_in_refused(i)
    <3>1. Books' /\ Lived /\ ResultOK' /\ Len(tokens') = Len(tokens)
      BY <1>0, <2>3, RefusedStep
    <3>2. UNCHANGED <<integrity_violations, remote_continuations>>
      BY <2>3 DEF page_in_refused
    <3> QED
      BY <1>0, <1>a, <3>1, <3>2 DEF PagerInv
  <2> QED
    BY <1>3, <2>1, <2>2, <2>3 DEF page_in
<1>4. ASSUME NEW i \in Indices, consume(i) PROVE PagerInv' /\ Lived /\ WholeIfBulk
  <2>1. Books' /\ Lived /\ ResultOK' /\ Len(tokens') = Len(tokens)
    BY <1>0, <1>4, ConsumeStep
  <2>2. UNCHANGED <<integrity_violations, remote_continuations>>
    BY <1>4 DEF consume
  <2> QED
    BY <1>0, <1>a, <2>1, <2>2 DEF PagerInv
<1>5. ASSUME NEW i \in Indices, Tamper(i) PROVE PagerInv' /\ Lived /\ WholeIfBulk
  <2>1. Books' /\ Lived /\ ResultOK' /\ Len(tokens') = Len(tokens)
    BY <1>0, <1>5, TamperStep
  <2>2. UNCHANGED <<integrity_violations, remote_continuations>>
    BY <1>5 DEF Tamper
  <2> QED
    BY <1>0, <1>a, <2>1, <2>2 DEF PagerInv
<1>6. ASSUME NEW t \in Tasks, assemble(t) PROVE PagerInv' /\ Lived /\ WholeIfBulk
  <2>1. Books' /\ Lived /\ ResultOK' /\ Len(tokens') = Len(tokens)
    BY <1>0, <1>6, AssembleStep
  <2>2. integrity_violations' \in Nat /\ UNCHANGED remote_continuations
    BY <1>0, <1>6 DEF assemble
  <2> QED
    BY <1>0, <1>a, <2>1, <2>2 DEF PagerInv
<1>7. ASSUME NEW i \in Indices, NEW k \in Kernels, prepare_continuation(i, k)
      PROVE  PagerInv' /\ Lived /\ WholeIfBulk
  <2>1. Books' /\ Lived /\ ResultOK' /\ Len(tokens') = Len(tokens)
    BY <1>0, <1>7, ContinuationStep
  <2>2. remote_continuations' = remote_continuations + 1 /\ UNCHANGED integrity_violations
    BY <1>7 DEF prepare_continuation
  <2> QED
    BY <1>0, <1>a, <2>1, <2>2 DEF PagerInv
<1>8. ASSUME UNCHANGED vars PROVE PagerInv' /\ Lived /\ WholeIfBulk
  <2>1. Lived
    BY <1>0, <1>8, TokensParts, LivesSame DEF Lived, vars
  <2>2. Books' /\ ResultOK' /\ UNCHANGED <<tokens, integrity_violations, remote_continuations>>
    BY <1>0, <1>8 DEF Books, ResultOK, vars
  <2> QED
    BY <1>0, <1>a, <2>1, <2>2 DEF PagerInv
<1> QED
  BY <1>1, <1>2, <1>3, <1>4, <1>5, <1>6, <1>7, <1>8 DEF Next

\* Whatever calls are made and fail, and whatever becomes of the tokens outside,
\* the tokens are well formed and within MAX_PAGED_CHUNKS, ids and page counts
\* are their number, and the byte counts are the sums of PagerStats over them.
THEOREM PagerInvariance == Spec => [](TypeOK /\ PagerInv)
<1>1. Init => PagerInv
  BY InitBalanced
<1>2. PagerInv /\ [Next]_vars => PagerInv'
  BY EveryCall
<1>3. PagerInv => TypeOK
  <2>1. SUFFICES ASSUME PagerInv PROVE TypeOK
    OBVIOUS
  <2>2. /\ next_token_id \in Nat /\ pages_out \in Nat /\ pages_in \in Nat
        /\ bytes_paged_out \in Nat /\ bytes_paged_in \in Nat
    BY <2>1, BalancedTypes DEF PagerInv, Books
  <2> QED
    BY <2>1, <2>2 DEF PagerInv, Books, Balanced, ResultOK, TypeOK
<1> QED
  BY <1>1, <1>2, <1>3, PTL DEF Spec

\* The statistics of stats() add up: ids are places, bytes_paged_out the size of
\* all tokens, bytes_paged_in their size as often as each was paged in by
\* page_in or assemble, and bytes_currently_paged never exceeds what went out.
THEOREM BooksBalance == Spec => []Accounting
<1>1. PagerInv => Accounting
  <2>1. SUFFICES ASSUME PagerInv PROVE Accounting
    OBVIOUS
  <2>2. PICK n \in Nat : n = Len(tokens)
    BY <2>1, TokensParts DEF PagerInv
  <2>3. /\ tokens \in Seq(ForkToken) /\ next_token_id = Len(tokens) /\ pages_out = Len(tokens)
        /\ bytes_paged_out = Total(Sizes(tokens), n)
        /\ pages_in = Total(Accesses(tokens), n)
        /\ bytes_paged_in = Total(Restores(tokens), n)
    BY <2>1, <2>2 DEF PagerInv, Books, Balanced
  <2>4. Indices = 1 .. n
    BY <2>2 DEF Indices
  <2>5. /\ Sizes(tokens) = [i \in Indices |-> tokens[i].raw_size]
        /\ Accesses(tokens) = [i \in Indices |-> tokens[i].access_count]
        /\ Restores(tokens) = [i \in Indices |-> tokens[i].access_count * tokens[i].raw_size]
    BY Zenon DEF Sizes, Accesses, Restores, Indices
  <2>6. /\ bytes_paged_out = Bytes(Indices)
        /\ bytes_currently_paged = SumFunctionOnSet(Sizes(tokens), active_tokens)
    BY <2>3, <2>4, <2>5, Zenon DEF Bytes, bytes_currently_paged, Total
  <2>7. active_tokens \in SUBSET (1 .. n)
    BY <2>4 DEF active_tokens
  <2>8. bytes_currently_paged <= bytes_paged_out
    BY <2>2, <2>3, <2>6, <2>7, PartOfAll
  <2>9. /\ pages_in = SumFunctionOnSet([i \in Indices |-> tokens[i].access_count], Indices)
        /\ bytes_paged_in =
             SumFunctionOnSet([i \in Indices |-> tokens[i].access_count * tokens[i].raw_size], Indices)
    BY <2>3, <2>4, <2>5, Zenon DEF Total
  <2> QED
    BY <2>3, <2>6, <2>8, <2>9, Zenon DEF Accounting
<1> QED
  BY <1>1, PagerInvariance, PTL

\* No call brings a consumed token back, hands out bytes under a broken seal or
\* changes the task, place or size of a token (page_in, consume, assemble).
THEOREM TokensLiveOnce == Spec => TokenLifecycle
<1> DEFINE Step == \A i \in Indices :
        LET t == tokens[i]
            u == tokens'[i]
        IN  /\ t.state = "Consumed" => u.state = "Consumed" /\ u.access_count = t.access_count
            /\ u.access_count # t.access_count => t.sealed /\ u.state \in {"PagedIn", "Consumed"}
            /\ u.state = "PagedOut" => t.state = "PagedOut"
            /\ u.task = t.task /\ u.offset = t.offset /\ u.raw_size = t.raw_size
<1>1. ASSUME PagerInv, [Next]_vars PROVE Step
  <2>1. Lived
    BY <1>1, EveryCall
  <2> QED
    BY <2>1, Zenon DEF Lived, Lives, Indices
<1>2. PagerInv /\ [Next]_vars => [Step]_vars
  BY <1>1
<1> QED
  BY <1>2, PagerInvariance, PTL DEF Spec, TokenLifecycle

\* page_out_bulk, when every piece finds room: the new tokens cover the data
\* without a gap, carry their number, and no earlier token is relabelled,
\* although the code labels every unlabelled token from start_seq on.
THEOREM BulksAreWhole == Spec => BulkIsWhole
<1> DEFINE Step == result'.op = "page_out_bulk" /\ result'.n = 0 /\ Len(tokens') > Len(tokens) =>
        LET new == Len(tokens) + 1 .. Len(tokens')
        IN  /\ \A i \in Indices : tokens'[i] = tokens[i]
            /\ \A i \in new :
                 /\ tokens'[i].total_chunks = Cardinality(new)
                 /\ i + 1 \in new => tokens'[i + 1].offset = tokens'[i].offset + tokens'[i].raw_size
            /\ result'.bytes = SumFunctionOnSet([i \in new |-> tokens'[i].raw_size], new)
<1>1. ASSUME PagerInv, [Next]_vars PROVE Step
  <2>1. WholeIfBulk
    BY <1>1, EveryCall
  <2> QED
    BY <2>1, Zenon DEF WholeIfBulk, Whole, Indices
<1>2. PagerInv /\ [Next]_vars => [Step]_vars
  BY <1>1
<1> QED
  BY <1>2, PagerInvariance, PTL DEF Spec, BulkIsWhole

-----------------------------------------------------------------------------
(* Memory pressure. *)
LEMMA Steps ==
    ASSUME NEW c \in Nat, NEW i \in Nat, NEW j \in Nat, i < j
    PROVE  c * (i + 1) = c * i + c /\ c * i + c <= c * j /\ c * i \in Nat
<1>1. PICK d \in Nat : j = i + 1 + d
  <2>1. j - (i + 1) \in Nat /\ j = i + 1 + (j - (i + 1))
    OBVIOUS
  <2> QED
    BY <2>1
<1>2. c * j = c * i + c + c * d /\ c * d \in Nat /\ c * i \in Nat /\ c * (i + 1) = c * i + c
  BY <1>1
<1> QED
  BY <1>2

\* The places of m chunks in a row are as many.
LEMMA RowSize ==
    ASSUME NEW c \in Nat, c > 0, NEW first \in Nat, NEW m \in Nat
    PROVE  Cardinality({first + c * i : i \in 0 .. (m - 1)}) = m
<1> DEFINE S == 0 .. (m - 1)
<1> DEFINE P(i) == first + c * i
<1> DEFINE T == {P(i) : i \in S}
<1> DEFINE f == [i \in S |-> P(i)]
<1>1. IsFiniteSet(S) /\ Cardinality(S) = m
  BY FS_Interval
<1>2. ASSUME NEW i \in S, NEW j \in S, i # j PROVE P(i) # P(j)
  <2>1. c * i \in Nat /\ c * j \in Nat
    OBVIOUS
  <2>2. CASE i < j
    <3>1. c * i + c <= c * j
      BY <2>2, Steps
    <3> QED
      BY <2>1, <3>1
  <2>3. CASE j < i
    <3>1. c * j + c <= c * i
      BY <2>3, Steps
    <3> QED
      BY <2>1, <3>1
  <2> QED
    BY <1>2, <2>2, <2>3
<1> HIDE DEF P
<1>3. f \in [S -> T] /\ \A i \in S : f[i] = P(i)
  BY Zenon
<1>4. \A y \in T : \E i \in S : f[i] = y
  BY <1>3, Zenon
<1>5. \A i, j \in S : f[i] = f[j] => i = j
  BY <1>2, <1>3, Zenon
<1> HIDE DEF S, T, f
<1>6. f \in Injection(S, T) /\ f \in Surjection(S, T)
  <2>1. DOMAIN f = S
    BY <1>3
  <2>2. IsInjective(f)
    BY <1>5, <2>1, Zenon DEF IsInjective
  <2> QED
    BY <1>3, <1>4, <2>2, Zenon DEF Injection, Surjection
<1>7. Cardinality(T) = m
  BY <1>1, <1>6, FS_Surjection
<1> QED
  BY <1>7 DEF T, S, P

\* What find_coldest_offsets offers lies in the allocation, chunk behind chunk.
LEMMA ColdFits ==
    ASSUME NEW allocated \in Nat, NEW count \in Nat
    PROVE  /\ \A o \in find_coldest_offsets(allocated, count) :
                 o \in Nat /\ o + ChunkSize <= allocated
           /\ \A o, q \in find_coldest_offsets(allocated, count) : o < q => o + ChunkSize <= q
<1>1. PICK c \in Nat : c = ChunkSize /\ c > 0
  BY ChunkAssumption
<1>2. PICK first \in Nat : first = Saturating(allocated - c * count)
  BY DEF Saturating
<1> DEFINE J == {j \in 0 .. (count - 1) : first + c * (j + 1) <= allocated}
<1>3. find_coldest_offsets(allocated, count) = {first + c * i : i \in J}
  BY <1>1, <1>2 DEF find_coldest_offsets
<1>4. ASSUME NEW i \in J
      PROVE  c * i \in Nat /\ first + c * i + c <= allocated /\ i \in Nat
  <2>1. i \in Nat /\ first + c * (i + 1) <= allocated /\ i < i + 1 /\ i + 1 \in Nat
    OBVIOUS
  <2>2. c * (i + 1) = c * i + c /\ c * i \in Nat
    BY ONLY <2>1, c \in Nat, Steps
  <2> QED
    BY <2>1, <2>2
<1> HIDE DEF J
<1>5. ASSUME NEW o \in find_coldest_offsets(allocated, count)
      PROVE  o \in Nat /\ o + ChunkSize <= allocated
  <2>1. PICK i \in J : o = first + c * i
    BY <1>3
  <2> QED
    BY <1>1, <1>4, <2>1
<1>6. ASSUME NEW o \in find_coldest_offsets(allocated, count),
             NEW q \in find_coldest_offsets(allocated, count), o < q
      PROVE  o + ChunkSize <= q
  <2>1. PICK i \in J : o = first + c * i
    BY <1>3
  <2>2. PICK j \in J : q = first + c * j
    BY <1>3
  <2>3. i \in Nat /\ j \in Nat /\ c * i \in Nat /\ c * j \in Nat
    BY <1>4
  <2>4. c * i < c * j
    BY <1>6, <2>1, <2>2, <2>3
  <2>5. i < j
    <3>1. SUFFICES ASSUME ~(i < j) PROVE FALSE
      OBVIOUS
    <3>2. i = j \/ j < i
      BY <3>1, <2>3
    <3>3. CASE j < i
      <4>1. c * j + c <= c * i
        BY <2>3, <3>3, Steps
      <4> QED
        BY <4>1, <2>3, <2>4
    <3> QED
      BY <3>2, <3>3, <2>3, <2>4
  <2>6. c * i + c <= c * j
    BY <2>3, <2>5, Steps
  <2> QED
    BY <1>1, <2>1, <2>2, <2>3, <2>6
<1> QED
  BY <1>5, <1>6

\* When the allocation holds as many chunks as were asked for, all are found.
LEMMA ColdCount ==
    ASSUME NEW allocated \in Nat, NEW count \in Nat, ChunkSize * count <= allocated
    PROVE  Cardinality(find_coldest_offsets(allocated, count)) = count
<1>1. PICK c \in Nat : c = ChunkSize /\ c > 0
  BY ChunkAssumption
<1>2. PICK all \in Nat : all = c * count /\ all <= allocated
  BY <1>1
<1>3. PICK first \in Nat : first = allocated - all
  BY <1>2
<1>4. first = Saturating(allocated - c * count)
  BY <1>2, <1>3 DEF Saturating
<1> DEFINE J == {j \in 0 .. (count - 1) : first + c * (j + 1) <= allocated}
<1>5. find_coldest_offsets(allocated, count) = {first + c * i : i \in J}
  BY <1>1, <1>4 DEF find_coldest_offsets
<1>6. ASSUME NEW j \in 0 .. (count - 1) PROVE first + c * (j + 1) <= allocated
  <2>1. j \in Nat /\ j < count
    OBVIOUS
  <2>2. c * (j + 1) = c * j + c /\ c * j + c <= c * count
    BY ONLY <2>1, c \in Nat, count \in Nat, Steps
  <2>3. PICK part \in Nat : part = c * (j + 1)
    BY <2>1
  <2>4. part <= all
    BY <1>2, <2>2, <2>3
  <2> QED
    BY <1>2, <1>3, <2>3, <2>4
<1>7. J = 0 .. (count - 1)
  BY <1>6
<1> HIDE DEF J
<1>8. Cardinality({first + c * i : i \in 0 .. (count - 1)}) = count
  BY <1>1, RowSize, Zenon
<1>9. find_coldest_offsets(allocated, count) = {first + c * i : i \in 0 .. (count - 1)}
  BY <1>5, <1>7, Zenon
<1> QED
  BY <1>8, <1>9, Zenon

\* The chunks counted for a target bring the allocation down to it.
LEMMA FreedReaches ==
    ASSUME NEW allocated \in Nat, NEW budget \in Nat, NEW pct \in Nat, pct \in {70, 80},
           allocated > 0 \/ budget > 0, allocated * 100 >= budget * (pct + 10),
           NEW count, count = ChunksToFree(allocated, budget, pct),
           ChunkSize * count <= allocated
    PROVE  /\ count \in Nat /\ count > 0
           /\ (allocated - ChunkSize * count) * 100 <= budget * pct
<1>1. PICK c \in Nat : c = ChunkSize /\ c > 0
  BY ChunkAssumption
<1>2. PICK t \in Nat : t = (budget * pct) \div 100 /\ t * 100 <= budget * pct
  <2>1. CASE pct = 70
    BY <2>1
  <2>2. CASE pct = 80
    BY <2>2
  <2> QED
    BY <2>1, <2>2
<1>3. allocated > t
  <2>1. CASE pct = 70
    BY <1>2, <2>1
  <2>2. CASE pct = 80
    BY <1>2, <2>2
  <2> QED
    BY <2>1, <2>2
<1>4. PICK over \in Nat : over = allocated - t /\ over > 0
  BY <1>3
<1>5. count = Ceil(over)
  BY <1>2, <1>4 DEF ChunksToFree, Saturating
<1>6. count \in Nat /\ over <= count * ChunkSize
  BY <1>5, CeilParts
<1>7. PICK freed \in Nat : freed = c * count /\ over <= freed /\ freed <= allocated
  BY <1>1, <1>6
<1>8. count # 0
  BY <1>4, <1>7
<1>9. (allocated - freed) * 100 <= t * 100
  BY <1>4, <1>7
<1>10. PICK goal \in Nat : goal = budget * pct
  OBVIOUS
<1>11. (allocated - freed) * 100 <= goal
  BY <1>2, <1>7, <1>9, <1>10
<1> QED
  BY <1>1, <1>6, <1>7, <1>8, <1>10, <1>11

LEMMA PressureCases ==
    ASSUME NEW allocated \in Nat, NEW budget \in Nat,
           NEW p, p = check_pressure(allocated, budget)
    PROVE  /\ p.chunks \in Nat
           /\ p.level = "Critical" =>
                /\ Utilised(allocated, budget, 95) /\ p.chunks = ChunksToFree(allocated, budget, 80)
           /\ p.level = "Elevated" =>
                /\ Utilised(allocated, budget, 80) /\ p.chunks = ChunksToFree(allocated, budget, 70)
<1>1. ASSUME NEW pct \in {70, 80} PROVE ChunksToFree(allocated, budget, pct) \in Nat
  <2>1. (budget * pct) \div 100 \in Nat
    OBVIOUS
  <2>2. Saturating(allocated - (budget * pct) \div 100) \in Nat
    BY <2>1 DEF Saturating
  <2> QED
    BY <2>2, CeilParts DEF ChunksToFree
<1>2. ChunksToFree(allocated, budget, 70) \in Nat /\ ChunksToFree(allocated, budget, 80) \in Nat
  BY <1>1
<1> QED
  BY <1>2 DEF check_pressure

\* check_pressure asks for enough and find_coldest_offsets offers that much, in
\* chunks that lie inside the allocation and do not overlap, for every chunk
\* size, allocation and budget (upip_pager.rs).
THEOREM PressureComesDown == PressureIsRelieved
<1>1. SUFFICES ASSUME NEW allocated \in Regions, NEW budget \in Regions
               PROVE  LET p     == check_pressure(allocated, budget)
                          cold  == find_coldest_offsets(allocated, p.chunks)
                          after == allocated - ChunkSize * Cardinality(cold)
                      IN  /\ \A o \in cold : o >= 0 /\ o + ChunkSize <= allocated
                          /\ \A o, q \in cold : o < q => o + ChunkSize <= q
                          /\ p.level \in {"Critical", "Elevated"} /\ ChunkSize * p.chunks <= allocated =>
                               /\ cold # {}
                               /\ after * 100 <= budget * (IF p.level = "Elevated" THEN 70 ELSE 80)
  BY Zenon DEF PressureIsRelieved
<1>2. allocated \in Nat /\ budget \in Nat
  BY InputAssumption
<1>3. PICK p : p = check_pressure(allocated, budget)
  OBVIOUS
<1>4. p.chunks \in Nat
  BY <1>2, <1>3, PressureCases
<1>5. PICK cold : cold = find_coldest_offsets(allocated, p.chunks)
  OBVIOUS
<1>6. /\ \A o \in cold : o >= 0 /\ o + ChunkSize <= allocated
      /\ \A o, q \in cold : o < q => o + ChunkSize <= q
  BY <1>2, <1>4, <1>5, ColdFits
<1>7. ASSUME p.level \in {"Critical", "Elevated"}, ChunkSize * p.chunks <= allocated
      PROVE  /\ cold # {}
             /\ (allocated - ChunkSize * Cardinality(cold)) * 100
                    <= budget * (IF p.level = "Elevated" THEN 70 ELSE 80)
  <2>1. Cardinality(cold) = p.chunks
    BY <1>2, <1>4, <1>5, <1>7, ColdCount
  <2>2. PICK pct \in Nat : pct = IF p.level = "Elevated" THEN 70 ELSE 80
    OBVIOUS
  <2>3. pct \in {70, 80} /\ p.chunks = ChunksToFree(allocated, budget, pct)
    BY <1>2, <1>3, <1>7, <2>2, PressureCases
  <2>4. (allocated > 0 \/ budget > 0) /\ allocated * 100 >= budget * (pct + 10)
    <3>1. CASE p.level = "Elevated"
      <4>1. Utilised(allocated, budget, 80)
        BY <1>2, <1>3, <3>1, PressureCases
      <4> QED
        BY <4>1, <3>1, <2>2 DEF Utilised
    <3>2. CASE p.level = "Critical"
      <4>1. Utilised(allocated, budget, 95) /\ pct = 80
        BY <1>2, <1>3, <3>2, <2>2, PressureCases
      <4> QED
        BY <4>1, <1>2 DEF Utilised
    <3> QED
      BY <3>1, <3>2, <1>7
  <2>5. p.chunks > 0 /\ (allocated - ChunkSize * p.chunks) * 100 <= budget * pct
    BY <1>2, <1>7, <2>3, <2>4, FreedReaches
  <2>6. cold # {}
    BY <2>1, <2>5, FS_EmptySet
  <2> QED
    BY <2>1, <2>2, <2>5, <2>6
<1> QED
  BY <1>3, <1>5, <1>6, <1>7, Zenon
=============================================================================
