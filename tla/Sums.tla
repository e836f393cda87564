-------------------------------- MODULE Sums --------------------------------
(***************************************************************************)
(* Facts about SumFunctionOnSet, the sum of the values of a function over   *)
(* a finite set, that the proofs about money and quantities need.  The     *)
(* library defines it by a recursive function that picks the elements in   *)
(* some order; the facts are proved from that definition, by looking at a  *)
(* smallest set for which they would fail.                                 *)
(***************************************************************************)
EXTENDS Functions, FiniteSetTheorems, TLAPS

\* A smallest one among some subsets of a finite set.
LEMMA SmallestSubset ==
  ASSUME NEW S, IsFiniteSet(S), NEW T, T \subseteq SUBSET S, T # {}
  PROVE  \E U \in T : \A V \in T : ~(V \subseteq U /\ V # U)
<1>1. IsWellFoundedOn(StrictSubsetOrdering(S), SUBSET S)
  BY FS_StrictSubsetOrderingWellFounded, FS_FiniteSubsetsOfFinite
<1>2. PICK U \in T : \A V \in T : <<V, U>> \notin StrictSubsetOrdering(S)
  BY <1>1, WFMin
<1>3. \A V \in T : <<V, U>> \in (SUBSET S) \X (SUBSET S)
  OBVIOUS
<1>4. QED
  BY <1>2, <1>3 DEF StrictSubsetOrdering

(***************************************************************************)
(* The recursive function of the definition.                               *)
(***************************************************************************)
Some(s) == CHOOSE x \in s : TRUE

Sums(f, S, g) ==
  g = [s \in SUBSET S |-> IF s = {} THEN 0 ELSE f[Some(s)] + g[s \ {Some(s)}]]

LEMMA SumsDef ==
  ASSUME NEW f, NEW S
  PROVE  SumFunctionOnSet(f, S) = (CHOOSE g : Sums(f, S, g))[S]
  BY DEF SumFunctionOnSet, FoldFunctionOnSet, MapThenFoldSet, Sums, Some

LEMMA SomeIn ==
  ASSUME NEW s, s # {}
  PROVE  Some(s) \in s
  BY DEF Some

LEMMA SumsAt ==
  ASSUME NEW f, NEW S, NEW g, Sums(f, S, g), NEW s, s \subseteq S
  PROVE  g[s] = IF s = {} THEN 0 ELSE f[Some(s)] + g[s \ {Some(s)}]
  BY DEF Sums

\* Two such functions agree where both are defined ...
LEMMA SumsAgree ==
  ASSUME NEW f, NEW S, NEW T, NEW g, NEW h, IsFiniteSet(S), T \subseteq S,
         Sums(f, S, g), Sums(f, T, h), NEW s, s \subseteq T
  PROVE  g[s] = h[s]
<1> DEFINE Bad == {U \in SUBSET T : g[U] # h[U]}
<1>1. SUFFICES Bad = {}
  BY <1>1
<1>2. SUFFICES ASSUME Bad # {} PROVE FALSE
  OBVIOUS
<1>3. Bad \subseteq SUBSET S
  OBVIOUS
<1>4. PICK U \in Bad : \A V \in Bad : ~(V \subseteq U /\ V # U)
  <2> HIDE DEF Bad
  <2> QED
    BY <1>2, <1>3, SmallestSubset
<1>5. U \subseteq T /\ U \subseteq S /\ g[U] # h[U]
  OBVIOUS
<1>6. /\ g[U] = IF U = {} THEN 0 ELSE f[Some(U)] + g[U \ {Some(U)}]
      /\ h[U] = IF U = {} THEN 0 ELSE f[Some(U)] + h[U \ {Some(U)}]
  <2> HIDE DEF Bad
  <2>1. g[U] = IF U = {} THEN 0 ELSE f[Some(U)] + g[U \ {Some(U)}]
    BY <1>5, SumsAt
  <2>2. h[U] = IF U = {} THEN 0 ELSE f[Some(U)] + h[U \ {Some(U)}]
    BY <1>5, SumsAt
  <2>3. QED
    BY <2>1, <2>2
<1>7. U # {}
  BY <1>5, <1>6
<1>8. U \ {Some(U)} \subseteq U /\ U \ {Some(U)} # U
  BY <1>7, SomeIn
<1>9. g[U \ {Some(U)}] = h[U \ {Some(U)}]
  BY <1>4, <1>5, <1>8
<1>10. QED
  BY <1>5, <1>6, <1>9

\* ... and there is one for every finite set.
LEMMA SumsExist ==
  ASSUME NEW f, NEW S, IsFiniteSet(S)
  PROVE  \E g : Sums(f, S, g)
<1> DEFINE Bad == {U \in SUBSET S : ~\E g : Sums(f, U, g)}
<1>1. SUFFICES ASSUME Bad # {} PROVE FALSE
  OBVIOUS
<1>2. PICK U \in Bad : \A V \in Bad : ~(V \subseteq U /\ V # U)
  <2>1. Bad \subseteq SUBSET S
    OBVIOUS
  <2> HIDE DEF Bad
  <2> QED
    BY <1>1, <2>1, SmallestSubset
<1>3. U \subseteq S /\ ~\E g : Sums(f, U, g)
  OBVIOUS
<1> DEFINE it(s) == CHOOSE g : Sums(f, s, g)
<1>4. ASSUME NEW s, s \subseteq U, s # U
      PROVE  Sums(f, s, it(s))
  <2>1. \E g : Sums(f, s, g)
    BY <1>2, <1>3, <1>4
  <2>2. QED
    BY <2>1
<1> DEFINE x == Some(U)
           g == [s \in SUBSET U |-> IF s = {} THEN 0
                   ELSE f[Some(s)] + it(s \ {Some(s)})[s \ {Some(s)}]]
<1>5. ASSUME NEW s, s \subseteq U, s # U
      PROVE  g[s] = it(s)[s]
  <2>1. Sums(f, s, it(s))
    BY <1>4, <1>5
  <2>2. it(s)[s] = IF s = {} THEN 0 ELSE f[Some(s)] + it(s)[s \ {Some(s)}]
    <3> HIDE DEF it
    <3> QED
      BY <2>1, SumsAt
  <2>3. CASE s = {}
    BY <2>2, <2>3
  <2>4. CASE s # {}
    <3> DEFINE r == s \ {Some(s)}
    <3>1. r \subseteq s /\ r \subseteq U /\ r # U
      BY <1>5
    <3>2. Sums(f, r, it(r))
      BY <1>4, <3>1
    <3>3. IsFiniteSet(s)
      BY <1>3, <1>5, FS_Subset
    <3>4. it(s)[r] = it(r)[r]
      <4> HIDE DEF it, r
      <4> QED
        BY <2>1, <3>1, <3>2, <3>3, SumsAgree
    <3>5. g[s] = f[Some(s)] + it(r)[r]
      <4> HIDE DEF it
      <4> QED
        BY <1>5, <2>4
    <3>6. QED
      <4> HIDE DEF it, g
      <4> QED
        BY <2>2, <2>4, <3>4, <3>5
  <2>5. QED
    BY <2>3, <2>4
<1>6. ASSUME NEW s, s \subseteq U
      PROVE  g[s] = IF s = {} THEN 0 ELSE f[Some(s)] + g[s \ {Some(s)}]
  <2>1. CASE s = {}
    BY <2>1
  <2>2. CASE s # {}
    <3> DEFINE r == s \ {Some(s)}
    <3>1. r \subseteq U /\ r # U
      BY <1>6, <2>2, SomeIn
    <3>2. g[r] = it(r)[r]
      <4> HIDE DEF g, it
      <4> QED
        BY <1>5, <3>1
    <3>3. g[s] = f[Some(s)] + it(r)[r]
      <4> HIDE DEF it
      <4> QED
        BY <1>6, <2>2
    <3>4. QED
      <4> HIDE DEF it, g
      <4> QED
        BY <2>2, <3>2, <3>3
  <2>3. QED
    BY <2>1, <2>2
<1>7. Sums(f, U, g)
  <2> DEFINE h == [s \in SUBSET U |-> IF s = {} THEN 0
                                      ELSE f[Some(s)] + g[s \ {Some(s)}]]
  <2>1. g = [s \in SUBSET U |-> g[s]]
    <3> HIDE DEF it
    <3> QED
      OBVIOUS
  <2>2. g = h
    <3> HIDE DEF g
    <3> QED
      BY <1>6, <2>1
  <2>3. QED
    <3> HIDE DEF g
    <3> QED
      BY <2>2 DEF Sums
<1>8. QED
  <2> HIDE DEF g
  <2> QED
    BY <1>3, <1>7

(***************************************************************************)
(* The facts.                                                              *)
(***************************************************************************)
\* The sum over nothing is zero ...
LEMMA SumOfNone ==
  ASSUME NEW f
  PROVE  SumFunctionOnSet(f, {}) = 0
<1> DEFINE g == CHOOSE g : Sums(f, {}, g)
<1>1. \E h : Sums(f, {}, h)
  BY SumsExist, FS_EmptySet
<1>2. Sums(f, {}, g)
  BY <1>1
<1>3. g[{}] = 0
  <2> HIDE DEF g
  <2> QED
    BY <1>2, SumsAt
<1>4. QED
  BY <1>3, SumsDef

\* ... and over anything else an element and the rest.
LEMMA SumOfSome ==
  ASSUME NEW f, NEW S, IsFiniteSet(S), S # {}
  PROVE  SumFunctionOnSet(f, S) = f[Some(S)] + SumFunctionOnSet(f, S \ {Some(S)})
<1> DEFINE R == S \ {Some(S)}
           g == CHOOSE g : Sums(f, S, g)
           h == CHOOSE h : Sums(f, R, h)
<1>1. R \subseteq S /\ IsFiniteSet(R)
  BY FS_Subset
<1>2. (\E i : Sums(f, S, i)) /\ (\E i : Sums(f, R, i))
  <2> HIDE DEF R
  <2> QED
    BY <1>1, SumsExist
<1>3. Sums(f, S, g) /\ Sums(f, R, h)
  BY <1>2
<1>4. g[S] = f[Some(S)] + g[R]
  <2> HIDE DEF g
  <2> QED
    BY <1>3, SumsAt
<1>5. g[R] = h[R]
  <2> HIDE DEF g, h, R
  <2> QED
    BY <1>1, <1>3, SumsAgree
<1>6. SumFunctionOnSet(f, S) = g[S] /\ SumFunctionOnSet(f, R) = h[R]
  BY SumsDef
<1>7. QED
  <2> HIDE DEF g, h
  <2> QED
    BY <1>4, <1>5, <1>6

\* A sum of integers is one ...
LEMMA SumTyped ==
  ASSUME NEW f, NEW S, IsFiniteSet(S), \A x \in S : f[x] \in Int
  PROVE  SumFunctionOnSet(f, S) \in Int
<1> DEFINE Bad == {U \in SUBSET S : SumFunctionOnSet(f, U) \notin Int}
<1>1. SUFFICES ASSUME Bad # {} PROVE FALSE
  OBVIOUS
<1>2. PICK U \in Bad : \A V \in Bad : ~(V \subseteq U /\ V # U)
  <2>1. Bad \subseteq SUBSET S
    OBVIOUS
  <2> HIDE DEF Bad
  <2> QED
    BY <1>1, <2>1, SmallestSubset
<1>3. U \subseteq S /\ SumFunctionOnSet(f, U) \notin Int /\ IsFiniteSet(U)
  BY FS_Subset
<1>4. U # {}
  BY <1>3, SumOfNone
<1> DEFINE R == U \ {Some(U)}
<1>5. Some(U) \in U /\ R \subseteq U /\ R # U
  BY <1>4, SomeIn
<1>6. SumFunctionOnSet(f, R) \in Int
  BY <1>2, <1>3, <1>5
<1>7. SumFunctionOnSet(f, U) = f[Some(U)] + SumFunctionOnSet(f, R)
  <2> HIDE DEF Bad
  <2> QED
    BY <1>3, <1>4, SumOfSome
<1>8. QED
  <2> HIDE DEF R, Bad
  <2> QED
    BY <1>3, <1>5, <1>6, <1>7

\* ... and one of natural numbers is not negative.
LEMMA SumNotNegative ==
  ASSUME NEW f, NEW S, IsFiniteSet(S), \A x \in S : f[x] \in Nat
  PROVE  SumFunctionOnSet(f, S) \in Nat
<1> DEFINE Bad == {U \in SUBSET S : SumFunctionOnSet(f, U) \notin Nat}
<1>1. SUFFICES ASSUME Bad # {} PROVE FALSE
  OBVIOUS
<1>2. PICK U \in Bad : \A V \in Bad : ~(V \subseteq U /\ V # U)
  <2>1. Bad \subseteq SUBSET S
    OBVIOUS
  <2> HIDE DEF Bad
  <2> QED
    BY <1>1, <2>1, SmallestSubset
<1>3. U \subseteq S /\ SumFunctionOnSet(f, U) \notin Nat /\ IsFiniteSet(U)
  BY FS_Subset
<1>4. U # {}
  BY <1>3, SumOfNone
<1> DEFINE R == U \ {Some(U)}
<1>5. Some(U) \in U /\ R \subseteq U /\ R # U
  BY <1>4, SomeIn
<1>6. SumFunctionOnSet(f, R) \in Nat
  BY <1>2, <1>3, <1>5
<1>7. SumFunctionOnSet(f, U) = f[Some(U)] + SumFunctionOnSet(f, R)
  <2> HIDE DEF Bad
  <2> QED
    BY <1>3, <1>4, SumOfSome
<1>8. QED
  <2> HIDE DEF R, Bad
  <2> QED
    BY <1>3, <1>5, <1>6, <1>7

\* Any element can be taken out of a sum ...
LEMMA SumSplit ==
  ASSUME NEW f, NEW S, IsFiniteSet(S), \A x \in S : f[x] \in Int, NEW x \in S
  PROVE  SumFunctionOnSet(f, S) = f[x] + SumFunctionOnSet(f, S \ {x})
<1> DEFINE Rest(U, y) == f[y] + SumFunctionOnSet(f, U \ {y})
           Bad == {U \in SUBSET S : \E y \in U : SumFunctionOnSet(f, U) # Rest(U, y)}
<1>1. SUFFICES ASSUME Bad # {} PROVE FALSE
  OBVIOUS
<1>2. PICK U \in Bad : \A V \in Bad : ~(V \subseteq U /\ V # U)
  <2>1. Bad \subseteq SUBSET S
    OBVIOUS
  <2> HIDE DEF Bad
  <2> QED
    BY <1>1, <2>1, SmallestSubset
<1>3. U \subseteq S /\ IsFiniteSet(U)
  BY FS_Subset
<1>4. PICK y \in U : SumFunctionOnSet(f, U) # Rest(U, y)
  OBVIOUS
<1> DEFINE z == Some(U)
           Uy == U \ {y}
           Uz == U \ {z}
           Uyz == Uy \ {z}
<1>5. z \in U /\ IsFiniteSet(Uy) /\ IsFiniteSet(Uyz)
  BY <1>3, SomeIn, FS_Subset
<1>6. SumFunctionOnSet(f, U) = f[z] + SumFunctionOnSet(f, Uz)
  <2> HIDE DEF Bad, Rest
  <2> QED
    BY <1>3, <1>4, SumOfSome
<1>7. y # z
  BY <1>4, <1>6
<1>8. SumFunctionOnSet(f, Uz) = f[y] + SumFunctionOnSet(f, Uyz)
  <2>1. Uz \subseteq U /\ Uz # U /\ y \in Uz /\ Uz \in SUBSET S
    BY <1>3, <1>5, <1>7
  <2>2. Uz \notin Bad
    BY <1>2, <2>1
  <2>3. SumFunctionOnSet(f, Uz) = f[y] + SumFunctionOnSet(f, Uz \ {y})
    BY <2>1, <2>2
  <2>4. Uz \ {y} = Uyz
    OBVIOUS
  <2>5. QED
    BY <2>3, <2>4
<1>9. SumFunctionOnSet(f, Uy) = f[z] + SumFunctionOnSet(f, Uyz)
  <2>1. Uy \subseteq U /\ Uy # U /\ z \in Uy /\ Uy \in SUBSET S
    BY <1>3, <1>5, <1>7
  <2>2. Uy \notin Bad
    BY <1>2, <2>1
  <2>3. QED
    BY <2>1, <2>2
<1>10. SumFunctionOnSet(f, Uyz) \in Int
  <2>1. \A v \in Uyz : f[v] \in Int
    BY <1>3
  <2> HIDE DEF Bad, Rest, Uyz
  <2> QED
    BY <1>5, <2>1, SumTyped
<1>11. f[y] \in Int /\ f[z] \in Int
  BY <1>3, <1>5
<1>12. SumFunctionOnSet(f, U) # f[y] + SumFunctionOnSet(f, Uy)
  BY <1>4
<1>13. QED
  <2> HIDE DEF Uy, Uz, Uyz, z, Bad, Rest
  <2> QED
    BY <1>6, <1>8, <1>9, <1>10, <1>11, <1>12

\* ... and nothing but the values on the set matters.
LEMMA SumSame ==
  ASSUME NEW f, NEW h, NEW S, IsFiniteSet(S), \A x \in S : f[x] = h[x]
  PROVE  SumFunctionOnSet(f, S) = SumFunctionOnSet(h, S)
<1> DEFINE Bad == {U \in SUBSET S : SumFunctionOnSet(f, U) # SumFunctionOnSet(h, U)}
<1>1. SUFFICES ASSUME Bad # {} PROVE FALSE
  OBVIOUS
<1>2. PICK U \in Bad : \A V \in Bad : ~(V \subseteq U /\ V # U)
  <2>1. Bad \subseteq SUBSET S
    OBVIOUS
  <2> HIDE DEF Bad
  <2> QED
    BY <1>1, <2>1, SmallestSubset
<1>3. /\ U \subseteq S /\ IsFiniteSet(U)
      /\ SumFunctionOnSet(f, U) # SumFunctionOnSet(h, U)
  BY FS_Subset
<1>4. U # {}
  BY <1>3, SumOfNone
<1> DEFINE R == U \ {Some(U)}
<1>5. Some(U) \in U /\ R \subseteq U /\ R # U
  BY <1>4, SomeIn
<1>6. SumFunctionOnSet(f, R) = SumFunctionOnSet(h, R)
  BY <1>2, <1>3, <1>5
<1>7. /\ SumFunctionOnSet(f, U) = f[Some(U)] + SumFunctionOnSet(f, R)
      /\ SumFunctionOnSet(h, U) = h[Some(U)] + SumFunctionOnSet(h, R)
  <2> HIDE DEF Bad
  <2>1. SumFunctionOnSet(f, U) = f[Some(U)] + SumFunctionOnSet(f, R)
    BY <1>3, <1>4, SumOfSome
  <2>2. SumFunctionOnSet(h, U) = h[Some(U)] + SumFunctionOnSet(h, R)
    BY <1>3, <1>4, SumOfSome
  <2>3. QED
    BY <2>1, <2>2
<1>8. f[Some(U)] = h[Some(U)]
  BY <1>3, <1>5
<1>9. QED
  <2> HIDE DEF R, Bad
  <2> QED
    BY <1>3, <1>6, <1>7, <1>8

\* An element that changes changes the sum by as much.
LEMMA SumChange ==
  ASSUME NEW f, NEW h, NEW S, IsFiniteSet(S), NEW x \in S,
         \A y \in S : f[y] \in Int /\ h[y] \in Int,
         \A y \in S \ {x} : f[y] = h[y]
  PROVE  SumFunctionOnSet(h, S) = SumFunctionOnSet(f, S) - f[x] + h[x]
<1> DEFINE R == S \ {x}
<1>1. IsFiniteSet(R) /\ \A y \in R : f[y] \in Int
  BY FS_Subset
<1>2. SumFunctionOnSet(f, S) = f[x] + SumFunctionOnSet(f, R)
  BY SumSplit
<1>3. SumFunctionOnSet(h, S) = h[x] + SumFunctionOnSet(h, R)
  BY SumSplit
<1> HIDE DEF R
<1>4. SumFunctionOnSet(f, R) \in Int
  BY <1>1, SumTyped
<1>5. SumFunctionOnSet(f, R) = SumFunctionOnSet(h, R)
  BY <1>1, SumSame DEF R
<1>6. QED
  BY <1>2, <1>3, <1>4, <1>5

\* A part of a sum of natural numbers is at most the whole.
LEMMA SumPart ==
  ASSUME NEW f, NEW S, IsFiniteSet(S), \A y \in S : f[y] \in Nat,
         NEW T, T \subseteq S
  PROVE  SumFunctionOnSet(f, T) <= SumFunctionOnSet(f, S)
<1> DEFINE Bad == {U \in SUBSET S : /\ T \subseteq U
                                  /\ SumFunctionOnSet(f, T) > SumFunctionOnSet(f, U)}
<1>0. \A U \in SUBSET S : SumFunctionOnSet(f, U) \in Nat
  BY SumNotNegative, FS_Subset
<1>1. SUFFICES ASSUME Bad # {} PROVE FALSE
  BY <1>0
<1>2. PICK U \in Bad : \A V \in Bad : ~(V \subseteq U /\ V # U)
  <2>1. Bad \subseteq SUBSET S
    OBVIOUS
  <2> HIDE DEF Bad
  <2> QED
    BY <1>1, <2>1, SmallestSubset
<1>3. /\ U \subseteq S /\ IsFiniteSet(U) /\ T \subseteq U
      /\ SumFunctionOnSet(f, T) > SumFunctionOnSet(f, U)
  BY FS_Subset
<1>4. PICK x \in U : x \notin T
  <2>1. CASE U = T
    BY <1>0, <1>3, <2>1
  <2>2. QED
    BY <1>3, <2>1
<1> DEFINE R == U \ {x}
<1>5. T \subseteq R /\ R \subseteq U /\ R # U /\ R \in SUBSET S
  BY <1>3, <1>4
<1>6. SumFunctionOnSet(f, U) = f[x] + SumFunctionOnSet(f, R)
  <2>1. \A y \in U : f[y] \in Int
    BY <1>3
  <2> HIDE DEF Bad
  <2> QED
    BY <1>3, <2>1, SumSplit
<1>7. ~(SumFunctionOnSet(f, T) > SumFunctionOnSet(f, R))
  BY <1>2, <1>5
<1>8. f[x] \in Nat /\ SumFunctionOnSet(f, R) \in Nat /\ SumFunctionOnSet(f, T) \in Nat
  BY <1>0, <1>3, <1>5
<1>9. QED
  <2> HIDE DEF R, Bad
  <2> QED
    BY <1>3, <1>6, <1>7, <1>8

\* A sum of zeros.
LEMMA SumOfZeros ==
  ASSUME NEW f, NEW S, IsFiniteSet(S), \A x \in S : f[x] = 0
  PROVE  SumFunctionOnSet(f, S) = 0
<1>1. \A U \in SUBSET S : SumFunctionOnSet(f, U) \in Int
  BY SumTyped, FS_Subset
<1> DEFINE Bad == {U \in SUBSET S : SumFunctionOnSet(f, U) # 0}
<1>2. SUFFICES ASSUME Bad # {} PROVE FALSE
  OBVIOUS
<1>3. PICK U \in Bad : \A V \in Bad : ~(V \subseteq U /\ V # U)
  <2>1. Bad \subseteq SUBSET S
    OBVIOUS
  <2> HIDE DEF Bad
  <2>2. QED
    BY <1>2, <2>1, SmallestSubset
<1>4. IsFiniteSet(U) /\ U \subseteq S
  BY <1>3, FS_Subset
<1>5. U # {}
  BY <1>3, SumOfNone
<1>6. SumFunctionOnSet(f, U) = f[Some(U)] + SumFunctionOnSet(f, U \ {Some(U)})
  BY <1>4, <1>5, SumOfSome
<1>7. Some(U) \in U /\ f[Some(U)] = 0
  BY <1>4, <1>5, SomeIn
<1>8. SumFunctionOnSet(f, U \ {Some(U)}) = 0
  BY <1>3, <1>4, <1>7
<1>9. QED
  BY <1>3, <1>6, <1>7, <1>8

\* Two sums whose terms are together not negative.
LEMMA SumsTogether ==
  ASSUME NEW f, NEW h, NEW S, IsFiniteSet(S),
         \A x \in S : f[x] \in Int /\ h[x] \in Int /\ f[x] + h[x] >= 0
  PROVE  SumFunctionOnSet(f, S) + SumFunctionOnSet(h, S) >= 0
<1>1. \A U \in SUBSET S : SumFunctionOnSet(f, U) \in Int /\ SumFunctionOnSet(h, U) \in Int
  BY SumTyped, FS_Subset
<1> DEFINE Sum(U) == SumFunctionOnSet(f, U) + SumFunctionOnSet(h, U)
           Bad == {U \in SUBSET S : ~(Sum(U) >= 0)}
<1>2. SUFFICES ASSUME Bad # {} PROVE FALSE
  OBVIOUS
<1>3. PICK U \in Bad : \A V \in Bad : ~(V \subseteq U /\ V # U)
  <2>1. Bad \subseteq SUBSET S
    OBVIOUS
  <2> HIDE DEF Bad
  <2>2. QED
    BY <1>2, <2>1, SmallestSubset
<1>4. IsFiniteSet(U) /\ U \subseteq S
  BY <1>3, FS_Subset
<1>5. U # {}
  <2>1. SumFunctionOnSet(f, {}) = 0 /\ SumFunctionOnSet(h, {}) = 0
    BY SumOfNone
  <2>2. Sum({}) >= 0
    BY <2>1
  <2> HIDE DEF Sum
  <2>3. QED
    BY <1>3, <2>2
<1> DEFINE x == Some(U)
           R == U \ {x}
<1>6. /\ SumFunctionOnSet(f, U) = f[x] + SumFunctionOnSet(f, R)
      /\ SumFunctionOnSet(h, U) = h[x] + SumFunctionOnSet(h, R)
  BY <1>4, <1>5, SumOfSome
<1>7. x \in U /\ f[x] \in Int /\ h[x] \in Int /\ f[x] + h[x] >= 0
  <2>1. x \in U
    BY <1>5, SomeIn
  <2> HIDE DEF x
  <2>2. QED
    BY <1>4, <2>1
<1> HIDE DEF x
<1>8. R \in SUBSET S /\ R \subseteq U /\ R # U
  BY <1>4, <1>7
<1>9. Sum(R) >= 0
  BY <1>3, <1>8
<1>10. SumFunctionOnSet(f, R) \in Int /\ SumFunctionOnSet(h, R) \in Int
  BY <1>1, <1>8
<1> HIDE DEF R
<1>11. Sum(U) >= 0
  BY <1>6, <1>7, <1>9, <1>10
<1>12. QED
  BY <1>3, <1>11

\* A sum of terms that are made of two others and a constant.
Linear(a, b, c, x, y, n) == a * x + b * y + c * n

Terms(a, b, c, f, h, r, S) ==
  \A x \in S : f[x] \in Int /\ h[x] \in Int /\ r[x] = Linear(a, b, c, f[x], h[x], 1)

LEMMA SumLinear ==
  ASSUME NEW f, NEW h, NEW r, NEW S, IsFiniteSet(S), NEW a \in Int, NEW b \in Int, NEW c \in Int,
         Terms(a, b, c, f, h, r, S)
  PROVE  SumFunctionOnSet(r, S)
           = Linear(a, b, c, SumFunctionOnSet(f, S), SumFunctionOnSet(h, S), Cardinality(S))
<1> DEFINE Made(U) ==
             Linear(a, b, c, SumFunctionOnSet(f, U), SumFunctionOnSet(h, U), Cardinality(U))
           Bad == {U \in SUBSET S : SumFunctionOnSet(r, U) # Made(U)}
<1>1. SUFFICES ASSUME Bad # {} PROVE FALSE
  OBVIOUS
<1>2. PICK U \in Bad : \A V \in Bad : ~(V \subseteq U /\ V # U)
  <2>1. Bad \subseteq SUBSET S
    OBVIOUS
  <2> HIDE DEF Bad
  <2>2. QED
    BY <1>1, <2>1, SmallestSubset
<1>3. IsFiniteSet(U) /\ U \subseteq S
  BY <1>2, FS_Subset
<1>4. U # {}
  <2>1. /\ SumFunctionOnSet(f, {}) = 0 /\ SumFunctionOnSet(h, {}) = 0
        /\ SumFunctionOnSet(r, {}) = 0
    BY SumOfNone
  <2>2. Cardinality({}) = 0
    BY FS_EmptySet
  <2>3. SumFunctionOnSet(r, {}) = Made({})
    BY <2>1, <2>2 DEF Linear
  <2> HIDE DEF Made
  <2>4. QED
    BY <1>2, <2>3
<1> DEFINE x == Some(U)
           R == U \ {x}
<1>5. /\ SumFunctionOnSet(f, U) = f[x] + SumFunctionOnSet(f, R)
      /\ SumFunctionOnSet(h, U) = h[x] + SumFunctionOnSet(h, R)
      /\ SumFunctionOnSet(r, U) = r[x] + SumFunctionOnSet(r, R)
  BY <1>3, <1>4, SumOfSome
<1>6. x \in U
  BY <1>4, SomeIn
<1> HIDE DEF x
<1>7. f[x] \in Int /\ h[x] \in Int /\ r[x] = a * f[x] + b * h[x] + c * 1
  BY <1>3, <1>6 DEF Linear, Terms
<1>8. R \in SUBSET S /\ R \subseteq U /\ R # U
  BY <1>3, <1>6
<1>9. IsFiniteSet(R) /\ Cardinality(R) \in Nat
  BY <1>3, <1>8, FS_Subset, FS_CardinalityType
<1>10. Cardinality(U) = Cardinality(R) + 1
  <2>1. Cardinality(R) = Cardinality(U) - 1 /\ Cardinality(U) \in Nat
    BY <1>3, <1>6, FS_RemoveElement, FS_CardinalityType
  <2>2. QED
    BY <2>1
<1>11. SumFunctionOnSet(f, R) \in Int /\ SumFunctionOnSet(h, R) \in Int
  <2>1. \A y \in R : f[y] \in Int /\ h[y] \in Int
    BY <1>8 DEF Terms
  <2>2. QED
    BY <1>9, <2>1, SumTyped
<1>12. SumFunctionOnSet(r, R) = Made(R)
  BY <1>2, <1>8
<1> HIDE DEF R
<1>13. PICK n \in Nat : n = Cardinality(R)
  BY <1>9
<1>14. PICK y \in Int, z \in Int : y = SumFunctionOnSet(f, R) /\ z = SumFunctionOnSet(h, R)
  BY <1>11
<1>15. PICK u \in Int, w \in Int : u = f[x] /\ w = h[x]
  BY <1>7
<1>16. SumFunctionOnSet(r, U) = a * u + b * w + c + (a * y + b * z + c * n)
  BY <1>5, <1>7, <1>12, <1>13, <1>14, <1>15 DEF Linear
<1>17. Made(U) = a * (u + y) + b * (w + z) + c * (n + 1)
  BY <1>5, <1>10, <1>13, <1>14, <1>15 DEF Linear
<1>18. a * u + b * w + c + (a * y + b * z + c * n) = a * (u + y) + b * (w + z) + c * (n + 1)
  OBVIOUS
<1>19. QED
  BY <1>2, <1>16, <1>17, <1>18

\* Terms that are zero do not count.
LEMMA SumSupport ==
  ASSUME NEW f, NEW S, IsFiniteSet(S), \A x \in S : f[x] \in Int,
         NEW T, T \subseteq S, \A x \in S \ T : f[x] = 0
  PROVE  SumFunctionOnSet(f, T) = SumFunctionOnSet(f, S)
<1> DEFINE Bad == {U \in SUBSET S : /\ T \subseteq U
                                    /\ SumFunctionOnSet(f, T) # SumFunctionOnSet(f, U)}
<1>1. SUFFICES ASSUME Bad # {} PROVE FALSE
  OBVIOUS
<1>2. PICK U \in Bad : \A V \in Bad : ~(V \subseteq U /\ V # U)
  <2>1. Bad \subseteq SUBSET S
    OBVIOUS
  <2> HIDE DEF Bad
  <2>2. QED
    BY <1>1, <2>1, SmallestSubset
<1>3. IsFiniteSet(U) /\ U \subseteq S /\ T \subseteq U
  BY <1>2, FS_Subset
<1>4. PICK x \in U : x \notin T
  BY <1>2, <1>3
<1>5. SumFunctionOnSet(f, U) = f[x] + SumFunctionOnSet(f, U \ {x})
  <2>1. \A y \in U : f[y] \in Int
    BY <1>3
  <2>2. QED
    BY <1>3, <2>1, SumSplit
<1>6. f[x] = 0
  BY <1>3, <1>4
<1>7. SumFunctionOnSet(f, T) = SumFunctionOnSet(f, U \ {x})
  <2>1. U \ {x} \subseteq U /\ U \ {x} # U /\ T \subseteq U \ {x} /\ U \ {x} \in SUBSET S
    BY <1>3, <1>4
  <2>2. QED
    BY <1>2, <2>1
<1>8. SumFunctionOnSet(f, U \ {x}) \in Int
  <2>1. \A y \in U \ {x} : f[y] \in Int
    BY <1>3
  <2>2. IsFiniteSet(U \ {x})
    BY <1>3, FS_Subset
  <2>3. QED
    BY <2>1, <2>2, SumTyped
<1>9. QED
  BY <1>2, <1>5, <1>6, <1>7, <1>8

\* Term by term, r is the sum of f and h.
AddUp(f, h, r, S) == \A x \in S : f[x] \in Int /\ h[x] \in Int /\ r[x] = f[x] + h[x]

LEMMA SumAdded ==
  ASSUME NEW f, NEW h, NEW r, NEW S, IsFiniteSet(S), AddUp(f, h, r, S)
  PROVE  SumFunctionOnSet(r, S) = SumFunctionOnSet(f, S) + SumFunctionOnSet(h, S)
<1>1. PICK a \in Int, b \in Int, c \in Int : a = 1 /\ b = 1 /\ c = 0
  OBVIOUS
<1>2. Terms(a, b, c, f, h, r, S)
  BY <1>1 DEF AddUp, Linear, Terms
<1>3. SumFunctionOnSet(r, S)
        = Linear(a, b, c, SumFunctionOnSet(f, S), SumFunctionOnSet(h, S), Cardinality(S))
  BY <1>2, SumLinear
<1>4. /\ SumFunctionOnSet(f, S) \in Int /\ SumFunctionOnSet(h, S) \in Int
      /\ Cardinality(S) \in Int
  BY SumTyped, FS_CardinalityType DEF AddUp
<1>5. QED
  BY <1>1, <1>3, <1>4 DEF Linear
=============================================================================
