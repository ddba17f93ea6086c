----------------------------- MODULE NumberFacts -----------------------------
(***************************************************************************)
(* Facts about whole numbers that the proofs about several components use: *)
(* least and greatest elements, sums over a set (as the community module   *)
(* Functions defines them, by a recursion that takes the elements in an    *)
(* unspecified order), and the existence of functions that are defined by  *)
(* recursion over an interval.                                             *)
(***************************************************************************)
EXTENDS Integers, FiniteSets, FiniteSetsExt, Functions, FiniteSetTheorems,
        WellFoundedInduction, TLAPS

\* Every non-empty set of natural numbers has a least element.
LEMMA NatMin ==
  ASSUME NEW T \in SUBSET Nat, T # {}
  PROVE  \E x \in T : \A y \in T : x <= y
  <1>1. PICK R : R = OpToRel(<, Nat)
    OBVIOUS
  <1>2. IsWellFoundedOn(R, Nat)
    BY <1>1, NatLessThanWellFounded
  <1>3. PICK x \in T : \A y \in T : ~(<<y, x>> \in R)
    BY <1>2, WFMin
  <1>4. ASSUME NEW y \in T PROVE x <= y
    <2>1. y < x => <<y, x>> \in R
      BY <1>1 DEF OpToRel
    <2>2. x \in Nat /\ y \in Nat
      OBVIOUS
    <2> QED
      BY <1>3, <2>1, <2>2
  <1> QED
    BY <1>4

\* Every non-empty finite set of integers has a greatest element.
LEMMA FiniteMax ==
  ASSUME NEW S \in SUBSET Int, IsFiniteSet(S), S # {}
  PROVE  \E x \in S : \A y \in S : y <= x
  <1>1. SUFFICES ASSUME ~ \E x \in S : \A y \in S : y <= x PROVE FALSE
    OBVIOUS
  <1>2. PICK D : D = {n \in Nat : \E T \in SUBSET Int :
                        /\ IsFiniteSet(T) /\ Cardinality(T) = n /\ T # {}
                        /\ ~ \E x \in T : \A y \in T : y <= x}
    OBVIOUS
  <1>3. Cardinality(S) \in D
    BY <1>1, <1>2, FS_CardinalityType
  <1>4. PICK n \in D : \A m \in D : n <= m
    BY <1>2, <1>3, NatMin
  <1>5. PICK T \in SUBSET Int : /\ IsFiniteSet(T) /\ Cardinality(T) = n /\ T # {}
                                /\ ~ \E x \in T : \A y \in T : y <= x
    BY <1>2, <1>4
  <1>6. PICK x \in T : TRUE
    BY <1>5
  <1>7. /\ IsFiniteSet(T \ {x}) /\ Cardinality(T \ {x}) = n - 1
        /\ n \in Nat
    BY <1>2, <1>5, FS_RemoveElement
  <1>8. n - 1 \in Nat
    BY <1>7, FS_CardinalityType
  <1>9. CASE T \ {x} = {}
    <2>1. \A y \in T : y <= x
      BY <1>9
    <2> QED
      BY <1>5, <2>1
  <1>10. CASE T \ {x} # {}
    <2>1. n - 1 \notin D
      BY <1>4, <1>7
    <2>2. PICK z \in T \ {x} : \A y \in T \ {x} : y <= z
      BY <1>2, <1>7, <1>8, <1>10, <2>1
    <2>3. CASE x <= z
      BY <1>5, <2>2, <2>3
    <2>4. CASE ~(x <= z)
      <3>1. \A y \in T : y <= x
        BY <2>2, <2>4
      <3> QED
        BY <1>5, <3>1
    <2> QED
      BY <2>3, <2>4
  <1> QED
    BY <1>9, <1>10

\* The greatest of finitely many integers.
LEMMA MaxFacts ==
  ASSUME NEW S \in SUBSET Int, IsFiniteSet(S), S # {}
  PROVE  Max(S) \in S /\ \A y \in S : y <= Max(S)
  <1>1. PICK x \in S : \A y \in S : y <= x
    BY FiniteMax
  <1>2. \A y \in S : x >= y
    BY <1>1
  <1>3. Max(S) \in S /\ \A y \in S : Max(S) >= y
    BY <1>2 DEF Max
  <1> QED
    BY <1>3

\* The least of finitely many integers.
LEMMA MinFacts ==
  ASSUME NEW S \in SUBSET Int, IsFiniteSet(S), S # {}
  PROVE  Min(S) \in S /\ \A y \in S : Min(S) <= y
  <1>1. PICK N : N = {0 - x : x \in S}
    OBVIOUS
  <1>2. N \in SUBSET Int /\ IsFiniteSet(N) /\ N # {}
    <2>1. PICK f : f = [x \in S |-> 0 - x]
      OBVIOUS
    <2>2. f \in Surjection(S, N)
      BY <1>1, <2>1 DEF Surjection
    <2>3. ASSUME NEW n \in N PROVE n \in Int
      BY <1>1
    <2>4. N # {}
      BY <1>1
    <2> QED
      BY <2>2, <2>3, <2>4, FS_Surjection
  <1>3. PICK n \in N : \A y \in N : y <= n
    BY <1>2, FiniteMax
  <1>4. PICK x \in S : n = 0 - x
    BY <1>1
  <1>5. ASSUME NEW y \in S PROVE x <= y
    <2>1. 0 - y \in N
      BY <1>1
    <2>2. 0 - y <= 0 - x
      BY <1>3, <1>4, <2>1
    <2> QED
      BY <2>2
  <1> QED
    BY <1>5 DEF Min

\* The greater of two integers.
LEMMA MaxOfTwo ==
  ASSUME NEW a \in Int, NEW b \in Int
  PROVE  Max({a, b}) = IF a <= b THEN b ELSE a
  <1>1. \A x, y \in {a, b} : (\A z \in {a, b} : x >= z) /\ (\A z \in {a, b} : y >= z) => x = y
    OBVIOUS
  <1>2. PICK m : m = IF a <= b THEN b ELSE a
    OBVIOUS
  <1>3. m \in {a, b} /\ \A z \in {a, b} : m >= z
    BY <1>2
  <1> QED
    BY <1>1, <1>2, <1>3 DEF Max

\* The lesser of two integers.
LEMMA MinOfTwo ==
  ASSUME NEW a \in Int, NEW b \in Int
  PROVE  Min({a, b}) = IF a <= b THEN a ELSE b
  <1>1. \A x, y \in {a, b} : (\A z \in {a, b} : x <= z) /\ (\A z \in {a, b} : y <= z) => x = y
    OBVIOUS
  <1>2. PICK m : m = IF a <= b THEN a ELSE b
    OBVIOUS
  <1>3. m \in {a, b} /\ \A z \in {a, b} : m <= z
    BY <1>2
  <1> QED
    BY <1>1, <1>2, <1>3 DEF Min

\* The sum over a set, taken from the community module.
IsSum(f, S, g) ==
  g = [s \in SUBSET S |->
        IF s = {} THEN 0
        ELSE f[CHOOSE x \in s : TRUE] + g[s \ {CHOOSE x \in s : TRUE}]]

SumStep(f, g, s) ==
  IF s = {} THEN 0 ELSE f[CHOOSE x \in s : TRUE] + g[s \ {CHOOSE x \in s : TRUE}]

\* A sum over a set is what the recursion over that set gives.
LEMMA SumDef ==
  ASSUME NEW f, NEW S
  PROVE  SumFunctionOnSet(f, S) = (CHOOSE g : IsSum(f, S, g))[S]
  BY DEF SumFunctionOnSet, FoldFunctionOnSet, MapThenFoldSet, IsSum

\* The recursion has one value.
LEMMA SumAgree ==
  ASSUME NEW f, NEW S, NEW T, NEW g, NEW h, IsSum(f, S, g), IsSum(f, T, h),
         NEW s, IsFiniteSet(s), s \subseteq S, s \subseteq T
  PROVE  g[s] = h[s]
  <1>1. SUFFICES ASSUME g[s] # h[s] PROVE FALSE
    OBVIOUS
  <1>2. PICK E : E = {k \in Nat : \E r \in SUBSET s : Cardinality(r) = k /\ g[r] # h[r]}
    OBVIOUS
  <1>3. Cardinality(s) \in E
    BY <1>1, <1>2, FS_CardinalityType
  <1>4. PICK k \in E : \A m \in E : k <= m
    BY <1>2, <1>3, NatMin
  <1>5. PICK r \in SUBSET s : Cardinality(r) = k /\ g[r] # h[r]
    BY <1>2, <1>4
  <1>6. g[r] = SumStep(f, g, r) /\ h[r] = SumStep(f, h, r)
    <2>1. r \in SUBSET S /\ r \in SUBSET T
      OBVIOUS
    <2> QED
      BY <2>1 DEF IsSum, SumStep
  <1>7. r # {}
    BY <1>5, <1>6 DEF SumStep
  <1>8. PICK z \in r : z = CHOOSE w \in r : TRUE
    BY <1>7
  <1>9. IsFiniteSet(r) /\ k \in Nat
    BY <1>2, <1>4, FS_Subset
  <1>10. Cardinality(r \ {z}) = k - 1 /\ IsFiniteSet(r \ {z})
    BY <1>5, <1>9, FS_RemoveElement
  <1>11. k - 1 \in Nat /\ k - 1 \notin E
    BY <1>4, <1>9, <1>10, FS_CardinalityType
  <1>12. g[r \ {z}] = h[r \ {z}]
    BY <1>2, <1>10, <1>11
  <1> QED
    BY <1>5, <1>6, <1>7, <1>8, <1>12 DEF SumStep

\* The recursion ends.
LEMMA SumExists ==
  ASSUME NEW f, NEW S, IsFiniteSet(S)
  PROVE  \E g : IsSum(f, S, g)
  <1>1. SUFFICES ASSUME ~ \E g : IsSum(f, S, g) PROVE FALSE
    OBVIOUS
  <1>2. PICK D : D = {n \in Nat : \E T : /\ IsFiniteSet(T) /\ Cardinality(T) = n
                                         /\ ~ \E g : IsSum(f, T, g)}
    OBVIOUS
  <1>3. Cardinality(S) \in D
    BY <1>1, <1>2, FS_CardinalityType
  <1>4. PICK n \in D : \A m \in D : n <= m
    BY <1>2, <1>3, NatMin
  <1>5. PICK T : IsFiniteSet(T) /\ Cardinality(T) = n /\ ~ \E g : IsSum(f, T, g)
    BY <1>2, <1>4
  <1>6. ASSUME NEW x \in T PROVE \E g : IsSum(f, T \ {x}, g)
    <2>1. /\ IsFiniteSet(T \ {x}) /\ Cardinality(T \ {x}) = n - 1
          /\ n \in Nat
      BY <1>2, <1>5, FS_RemoveElement
    <2>2. n - 1 \in Nat
      BY <2>1, FS_CardinalityType
    <2>3. n - 1 \notin D
      BY <1>4, <2>1
    <2> QED
      BY <1>2, <2>1, <2>2, <2>3
  <1>7. PICK h : h = [x \in T |-> CHOOSE g : IsSum(f, T \ {x}, g)]
    OBVIOUS
  <1>8. \A x \in T : IsSum(f, T \ {x}, h[x])
    BY <1>6, <1>7
  \* Two of these functions agree where both are defined.
  <1>9. ASSUME NEW x \in T, NEW y \in T, NEW s \in SUBSET (T \ {x, y})
        PROVE  h[x][s] = h[y][s]
    <2>1. IsFiniteSet(s) /\ s \subseteq T \ {x} /\ s \subseteq T \ {y}
      BY <1>5, FS_Subset
    <2>2. PICK A, B, g1, g2 : /\ A = T \ {x} /\ B = T \ {y}
                              /\ g1 = h[x] /\ g2 = h[y]
      OBVIOUS
    <2>3. IsSum(f, A, g1) /\ IsSum(f, B, g2) /\ s \subseteq A /\ s \subseteq B
      BY <1>8, <2>1, <2>2
    <2>4. g1[s] = g2[s]
      BY <2>1, <2>3, SumAgree
    <2> QED
      BY <2>2, <2>4
  <1>10. PICK pick : pick = [s \in SUBSET T |-> CHOOSE x \in s : TRUE]
    OBVIOUS
  <1>11. \A s \in SUBSET T : s # {} => pick[s] \in s
    BY <1>10
  <1>12. PICK g : g = [s \in SUBSET T |->
                        IF s = {} THEN 0 ELSE f[pick[s]] + h[pick[s]][s \ {pick[s]}]]
    OBVIOUS
  <1>13. ASSUME NEW s \in SUBSET T, NEW x \in T, x \notin s PROVE g[s] = h[x][s]
    <2>1. h[x][s] = SumStep(f, h[x], s)
      <3>1. s \in SUBSET (T \ {x})
        BY <1>13
      <3> QED
        BY <1>8, <3>1 DEF IsSum, SumStep
    <2>2. CASE s = {}
      BY <1>12, <2>1, <2>2 DEF SumStep
    <2>3. CASE s # {}
      <3>1. PICK p \in s : p = pick[s]
        BY <1>11, <2>3
      <3>2. p = CHOOSE w \in s : TRUE
        BY <1>10, <3>1
      <3>3. g[s] = f[p] + h[p][s \ {p}]
        BY <1>12, <2>3, <3>1
      <3>4. h[x][s] = f[p] + h[x][s \ {p}]
        BY <2>1, <2>3, <3>2 DEF SumStep
      <3>5. p \in T /\ s \ {p} \in SUBSET (T \ {x, p})
        BY <1>13
      <3>6. h[x][s \ {p}] = h[p][s \ {p}]
        BY <1>9, <3>5
      <3> QED
        BY <3>3, <3>4, <3>6
    <2> QED
      BY <2>2, <2>3
  <1>14. ASSUME NEW s \in SUBSET T PROVE g[s] = SumStep(f, g, s)
    <2>1. CASE s = {}
      BY <1>12, <2>1 DEF SumStep
    <2>2. CASE s # {}
      <3>1. PICK p \in s : p = pick[s]
        BY <1>11, <2>2
      <3>2. p = CHOOSE w \in s : TRUE
        BY <1>10, <3>1
      <3>3. g[s] = f[p] + h[p][s \ {p}]
        BY <1>12, <2>2, <3>1
      <3>4. g[s \ {p}] = h[p][s \ {p}]
        <4>1. s \ {p} \in SUBSET T /\ p \in T /\ p \notin s \ {p}
          OBVIOUS
        <4> QED
          BY <1>13, <4>1
      <3> QED
        BY <2>2, <3>2, <3>3, <3>4 DEF SumStep
    <2> QED
      BY <2>1, <2>2
  <1>15. g = [s \in SUBSET T |-> SumStep(f, g, s)]
    BY <1>12, <1>14
  <1>16. IsSum(f, T, g)
    BY <1>15 DEF IsSum, SumStep
  <1> QED
    BY <1>5, <1>16

\* A sum over nothing is 0.
LEMMA SumEmpty ==
  ASSUME NEW f
  PROVE  SumFunctionOnSet(f, {}) = 0
  <1>1. IsFiniteSet({})
    BY FS_EmptySet
  <1>2. PICK g : g = CHOOSE h : IsSum(f, {}, h)
    OBVIOUS
  <1>3. IsSum(f, {}, g)
    BY <1>1, <1>2, SumExists
  <1>4. g[{}] = 0
    BY <1>3 DEF IsSum
  <1> QED
    BY <1>2, <1>4, SumDef

\* The element that the recursion takes first.
LEMMA SumFirst ==
  ASSUME NEW f, NEW S, IsFiniteSet(S), S # {}
  PROVE  \E x \in S : SumFunctionOnSet(f, S) = f[x] + SumFunctionOnSet(f, S \ {x})
  <1>1. PICK g : g = CHOOSE h : IsSum(f, S, h)
    OBVIOUS
  <1>2. IsSum(f, S, g)
    BY <1>1, SumExists
  <1>3. PICK x \in S : x = CHOOSE w \in S : TRUE
    OBVIOUS
  <1>4. g[S] = f[x] + g[S \ {x}]
    BY <1>2, <1>3 DEF IsSum
  <1>5. IsFiniteSet(S \ {x})
    BY FS_RemoveElement
  <1>6. PICK k : k = CHOOSE h : IsSum(f, S \ {x}, h)
    OBVIOUS
  <1>7. IsSum(f, S \ {x}, k)
    BY <1>5, <1>6, SumExists
  <1>8. g[S \ {x}] = k[S \ {x}]
    BY <1>2, <1>5, <1>7, SumAgree
  <1>9. SumFunctionOnSet(f, S) = g[S] /\ SumFunctionOnSet(f, S \ {x}) = k[S \ {x}]
    BY <1>1, <1>6, SumDef
  <1> QED
    BY <1>4, <1>8, <1>9

\* Any element can be taken first, and integers add up to an integer.
SumFact(f, S) ==
  /\ SumFunctionOnSet(f, S) \in Int
  /\ \A x \in S : SumFunctionOnSet(f, S) = f[x] + SumFunctionOnSet(f, S \ {x})

\* A sum is an integer, and any element can be split off it.
LEMMA SumFacts ==
  ASSUME NEW S, IsFiniteSet(S), NEW f, \A x \in S : f[x] \in Int
  PROVE  SumFact(f, S)
  <1>1. SUFFICES ASSUME ~SumFact(f, S) PROVE FALSE
    OBVIOUS
  <1>2. PICK E : E = {k \in Nat : \E r \in SUBSET S : Cardinality(r) = k /\ ~SumFact(f, r)}
    OBVIOUS
  <1>3. Cardinality(S) \in E
    BY <1>1, <1>2, FS_CardinalityType
  <1>4. PICK k \in E : \A m \in E : k <= m
    BY <1>2, <1>3, NatMin
  <1>5. PICK r \in SUBSET S : Cardinality(r) = k /\ ~SumFact(f, r)
    BY <1>2, <1>4
  <1>6. IsFiniteSet(r) /\ k \in Nat
    BY <1>2, <1>4, FS_Subset
  <1>7. ASSUME NEW z \in r PROVE SumFact(f, r \ {z})
    <2>1. Cardinality(r \ {z}) = k - 1 /\ IsFiniteSet(r \ {z})
      BY <1>5, <1>6, FS_RemoveElement
    <2>2. k - 1 \in Nat /\ k - 1 \notin E
      BY <1>4, <1>6, <2>1, FS_CardinalityType
    <2> QED
      BY <1>2, <2>1, <2>2
  <1>8. CASE r = {}
    BY <1>5, <1>8, SumEmpty DEF SumFact
  <1>9. CASE r # {}
    <2>1. PICK z \in r : SumFunctionOnSet(f, r) = f[z] + SumFunctionOnSet(f, r \ {z})
      BY <1>6, <1>9, SumFirst
    <2>2. SumFunctionOnSet(f, r) \in Int
      BY <1>7, <2>1 DEF SumFact
    <2>3. ASSUME NEW x \in r
          PROVE  SumFunctionOnSet(f, r) = f[x] + SumFunctionOnSet(f, r \ {x})
      <3>1. CASE x = z
        BY <2>1, <3>1
      <3>2. CASE x # z
        <4>1. x \in r \ {z} /\ z \in r \ {x}
          BY <3>2
        <4>2. /\ SumFunctionOnSet(f, r \ {z})
                   = f[x] + SumFunctionOnSet(f, (r \ {z}) \ {x})
              /\ SumFunctionOnSet(f, r \ {x})
                   = f[z] + SumFunctionOnSet(f, (r \ {x}) \ {z})
          BY <1>7, <4>1 DEF SumFact
        <4>3. (r \ {z}) \ {x} = (r \ {x}) \ {z}
          OBVIOUS
        <4>4. PICK rest : rest = SumFunctionOnSet(f, (r \ {z}) \ {x})
          OBVIOUS
        <4>5. rest \in Int
          <5>1. SumFunctionOnSet(f, r \ {z}) \in Int /\ SumFact(f, r \ {z})
            BY <1>7 DEF SumFact
          <5>2. IsFiniteSet((r \ {z}) \ {x}) /\ Cardinality((r \ {z}) \ {x}) = k - 2
            <6>1. Cardinality(r \ {z}) = k - 1 /\ IsFiniteSet(r \ {z})
              BY <1>5, <1>6, FS_RemoveElement
            <6>2. PICK q : q = r \ {z}
              OBVIOUS
            <6>3. IsFiniteSet(q) /\ Cardinality(q) = k - 1 /\ x \in q
              BY <4>1, <6>1, <6>2
            <6>4. IsFiniteSet(q \ {x}) /\ Cardinality(q \ {x}) = (k - 1) - 1
              BY <6>3, FS_RemoveElement
            <6> QED
              BY <1>6, <6>2, <6>4
          <5>3. k - 2 \in Nat /\ k - 2 \notin E
            BY <1>4, <1>6, <5>2, FS_CardinalityType
          <5>4. SumFact(f, (r \ {z}) \ {x})
            BY <1>2, <5>2, <5>3
          <5> QED
            BY <4>4, <5>4 DEF SumFact
        <4>6. /\ SumFunctionOnSet(f, r) = f[z] + (f[x] + rest)
              /\ SumFunctionOnSet(f, r \ {x}) = f[z] + rest
          BY <2>1, <4>2, <4>3, <4>4
        <4>7. f[x] \in Int /\ f[z] \in Int
          OBVIOUS
        <4> QED
          BY <4>5, <4>6, <4>7
      <3> QED
        BY <3>1, <3>2
    <2> QED
      BY <1>5, <2>2, <2>3 DEF SumFact
  <1> QED
    BY <1>8, <1>9

\* Sums of equal terms are equal; natural numbers add up to one that is no less
\* than each of them.
LEMMA SumSame ==
  ASSUME NEW S, IsFiniteSet(S), NEW f, NEW g, \A x \in S : f[x] \in Int /\ g[x] = f[x]
  PROVE  SumFunctionOnSet(g, S) = SumFunctionOnSet(f, S)
  <1>1. SUFFICES ASSUME SumFunctionOnSet(g, S) # SumFunctionOnSet(f, S) PROVE FALSE
    OBVIOUS
  <1>2. PICK E : E = {k \in Nat : \E r \in SUBSET S :
                        /\ Cardinality(r) = k
                        /\ SumFunctionOnSet(g, r) # SumFunctionOnSet(f, r)}
    OBVIOUS
  <1>3. Cardinality(S) \in E
    BY <1>1, <1>2, FS_CardinalityType
  <1>4. PICK k \in E : \A m \in E : k <= m
    BY <1>2, <1>3, NatMin
  <1>5. PICK r \in SUBSET S : /\ Cardinality(r) = k
                              /\ SumFunctionOnSet(g, r) # SumFunctionOnSet(f, r)
    BY <1>2, <1>4
  <1>6. IsFiniteSet(r) /\ k \in Nat
    BY <1>2, <1>4, FS_Subset
  <1>7. r # {}
    BY <1>5, SumEmpty
  <1>8. PICK x \in r : TRUE
    BY <1>7
  <1>9. SumFact(f, r) /\ SumFact(g, r)
    BY <1>6, SumFacts
  <1>10. Cardinality(r \ {x}) = k - 1 /\ IsFiniteSet(r \ {x})
    BY <1>5, <1>6, FS_RemoveElement
  <1>11. k - 1 \in Nat /\ k - 1 \notin E
    BY <1>4, <1>6, <1>10, FS_CardinalityType
  <1>12. SumFunctionOnSet(g, r \ {x}) = SumFunctionOnSet(f, r \ {x})
    BY <1>2, <1>10, <1>11
  <1>13. g[x] = f[x]
    OBVIOUS
  <1> QED
    BY <1>5, <1>9, <1>12, <1>13 DEF SumFact

\* A sum of natural numbers is one.
LEMMA SumNat ==
  ASSUME NEW S, IsFiniteSet(S), NEW f, \A x \in S : f[x] \in Nat
  PROVE  SumFunctionOnSet(f, S) \in Nat
  <1>1. SUFFICES ASSUME SumFunctionOnSet(f, S) \notin Nat PROVE FALSE
    OBVIOUS
  <1>2. PICK E : E = {k \in Nat : \E r \in SUBSET S :
                        Cardinality(r) = k /\ SumFunctionOnSet(f, r) \notin Nat}
    OBVIOUS
  <1>3. Cardinality(S) \in E
    BY <1>1, <1>2, FS_CardinalityType
  <1>4. PICK k \in E : \A m \in E : k <= m
    BY <1>2, <1>3, NatMin
  <1>5. PICK r \in SUBSET S : Cardinality(r) = k /\ SumFunctionOnSet(f, r) \notin Nat
    BY <1>2, <1>4
  <1>6. IsFiniteSet(r) /\ k \in Nat
    BY <1>2, <1>4, FS_Subset
  <1>7. r # {}
    BY <1>5, SumEmpty
  <1>8. PICK x \in r : TRUE
    BY <1>7
  <1>9. SumFact(f, r)
    BY <1>6, SumFacts
  <1>10. Cardinality(r \ {x}) = k - 1 /\ IsFiniteSet(r \ {x})
    BY <1>5, <1>6, FS_RemoveElement
  <1>11. k - 1 \in Nat /\ k - 1 \notin E
    BY <1>4, <1>6, <1>10, FS_CardinalityType
  <1>12. SumFunctionOnSet(f, r \ {x}) \in Nat
    BY <1>2, <1>10, <1>11
  <1>13. f[x] \in Nat
    OBVIOUS
  <1> QED
    BY <1>5, <1>9, <1>12, <1>13 DEF SumFact

\* A sum of zeros is zero.
LEMMA SumZero ==
  ASSUME NEW S, IsFiniteSet(S), NEW f, \A x \in S : f[x] = 0
  PROVE  SumFunctionOnSet(f, S) = 0
  <1>1. SUFFICES ASSUME SumFunctionOnSet(f, S) # 0 PROVE FALSE
    OBVIOUS
  <1>2. PICK E : E = {k \in Nat : \E r \in SUBSET S :
                        Cardinality(r) = k /\ SumFunctionOnSet(f, r) # 0}
    OBVIOUS
  <1>3. Cardinality(S) \in E
    BY <1>1, <1>2, FS_CardinalityType
  <1>4. PICK k \in E : \A m \in E : k <= m
    BY <1>2, <1>3, NatMin
  <1>5. PICK r \in SUBSET S : Cardinality(r) = k /\ SumFunctionOnSet(f, r) # 0
    BY <1>2, <1>4
  <1>6. IsFiniteSet(r) /\ k \in Nat
    BY <1>2, <1>4, FS_Subset
  <1>7. r # {}
    BY <1>5, SumEmpty
  <1>8. PICK x \in r : TRUE
    BY <1>7
  <1>9. SumFact(f, r)
    <2>1. \A y \in r : f[y] \in Int
      OBVIOUS
    <2> QED
      BY <1>6, <2>1, SumFacts
  <1>10. Cardinality(r \ {x}) = k - 1 /\ IsFiniteSet(r \ {x})
    BY <1>5, <1>6, FS_RemoveElement
  <1>11. k - 1 \in Nat /\ k - 1 \notin E
    BY <1>4, <1>6, <1>10, FS_CardinalityType
  <1>12. SumFunctionOnSet(f, r \ {x}) = 0
    BY <1>2, <1>10, <1>11
  <1>13. f[x] = 0
    OBVIOUS
  <1> QED
    BY <1>5, <1>9, <1>12, <1>13 DEF SumFact

\* A sum of which one term changes, changes as much.
LEMMA SumChange ==
  ASSUME NEW S, IsFiniteSet(S), NEW f, NEW g, NEW s, NEW v \in Int,
         \A x \in S : f[x] \in Int,
         \A x \in S : g[x] = IF x = s THEN f[x] + v ELSE f[x]
  PROVE  SumFunctionOnSet(g, S) = SumFunctionOnSet(f, S) + IF s \in S THEN v ELSE 0
  <1>1. \A x \in S : g[x] \in Int
    OBVIOUS
  <1>2. SumFact(f, S) /\ SumFact(g, S)
    BY <1>1, SumFacts
  <1>3. CASE s \notin S
    <2>1. \A x \in S : f[x] \in Int /\ g[x] = f[x]
      BY <1>3
    <2>2. SumFunctionOnSet(g, S) = SumFunctionOnSet(f, S)
      BY <2>1, SumSame
    <2> QED
      BY <1>2, <1>3, <2>2 DEF SumFact
  <1>4. CASE s \in S
    <2>1. PICK r : r = S \ {s}
      OBVIOUS
    <2>2. IsFiniteSet(r) /\ \A x \in r : x \in S /\ x # s
      BY <2>1, FS_Subset
    <2>3. \A x \in r : f[x] \in Int /\ g[x] = f[x]
      BY <2>2
    <2>4. SumFunctionOnSet(g, r) = SumFunctionOnSet(f, r)
      BY <2>2, <2>3, SumSame
    <2>5. /\ SumFunctionOnSet(f, S) = f[s] + SumFunctionOnSet(f, r)
          /\ SumFunctionOnSet(g, S) = g[s] + SumFunctionOnSet(g, r)
      BY <1>2, <1>4, <2>1 DEF SumFact
    <2>6. SumFunctionOnSet(f, r) \in Int
      BY <2>2, <2>3, SumFacts DEF SumFact
    <2>7. g[s] = f[s] + v /\ f[s] \in Int
      BY <1>4
    <2> QED
      BY <1>4, <2>4, <2>5, <2>6, <2>7
  <1> QED
    BY <1>3, <1>4

\* Min of a set of natural numbers, and Max of a bounded one.
LEMMA MinOfNats ==
  ASSUME NEW T \in SUBSET Nat, T # {}
  PROVE  Min(T) \in T /\ \A y \in T : Min(T) <= y
  BY NatMin DEF Min

LEMMA MaxUpTo ==
  ASSUME NEW n \in Nat, NEW T \in SUBSET (0..n), T # {}
  PROVE  Max(T) \in T /\ \A y \in T : Max(T) >= y
<1> DEFINE D == {n - x : x \in T}
<1>1. D \in SUBSET Nat /\ D # {}
  <2>1. \A x \in T : n - x \in Nat
    OBVIOUS
  <2>2. QED
    BY <2>1
<1>2. PICK d \in D : \A e \in D : d <= e
  BY <1>1, NatMin
<1>3. PICK x \in T : d = n - x
  OBVIOUS
<1>4. ASSUME NEW y \in T PROVE x >= y
  <2>1. d <= n - y
    BY <1>2
  <2>2. x \in 0..n /\ y \in 0..n
    OBVIOUS
  <2>3. QED
    BY <1>3, <2>1, <2>2
<1>5. QED
  BY <1>4 DEF Max

------------------------------------------------------------------------------
\* Functions that are defined by recursion over 0..n exist.
GoesUp(n, V, v, F, f) ==
  /\ f \in [0..n -> V]
  /\ f[0] = v /\ \A i \in 1..n : f[i] = F[<<i, f[i - 1]>>]

LEMMA RecursionUp ==
  ASSUME NEW n \in Nat, NEW V, NEW v \in V,
         NEW F, F \in [(1..n) \X V -> V]
  PROVE  \E f : GoesUp(n, V, v, F, f)
<1> DEFINE Upto(k, f) == f[0] = v /\ \A i \in 1..k : f[i] = F[<<i, f[i - 1]>>]
           bad == {k \in 0..n : ~\E f \in [0..n -> V] : Upto(k, f)}
<1>1. bad = {}
  <2> SUFFICES ASSUME bad # {} PROVE FALSE
    OBVIOUS
  <2>1. PICK k \in bad : \A j \in bad : k <= j
    <3>1. bad \in SUBSET Nat
      OBVIOUS
    <3>2. QED
      BY <3>1, NatMin
  <2>2. CASE k = 0
    <3>1. PICK f : f = [i \in 0..n |-> v]
      OBVIOUS
    <3>2. f \in [0..n -> V] /\ f[0] = v
      BY <3>1
    <3>3. Upto(0, f)
      BY <3>2
    <3>4. QED
      BY <2>1, <2>2, <3>2, <3>3
  <2>3. CASE k # 0
    <3>1. k \in 1..n /\ k - 1 \in 0..n /\ k - 1 \notin bad
      <4>1. k \in 0..n /\ k \in 1..n /\ k - 1 \in 0..n /\ ~(k <= k - 1)
        BY <2>3
      <4>2. QED
        BY <2>1, <4>1
    <3>2. PICK f \in [0..n -> V] : Upto(k - 1, f)
      BY <3>1
    <3>3. PICK g : g = [f EXCEPT ![k] = F[<<k, f[k - 1]>>]]
      OBVIOUS
    <3>4. F[<<k, f[k - 1]>>] \in V
      BY <3>1
    <3>5. g \in [0..n -> V]
      BY <3>3, <3>4
    <3>6. \A i \in 0..n : g[i] = IF i = k THEN F[<<k, f[k - 1]>>] ELSE f[i]
      BY <3>3
    <3>7. g[0] = v
      BY <3>1, <3>2, <3>6
    <3>8. ASSUME NEW i \in 1..k PROVE g[i] = F[<<i, g[i - 1]>>]
      <4>1. i \in 0..n /\ i - 1 \in 0..n /\ i - 1 # k
        BY <3>1
      <4>2. g[i - 1] = f[i - 1]
        BY <3>6, <4>1
      <4>3. CASE i = k
        BY <3>6, <4>1, <4>2, <4>3
      <4>4. CASE i # k
        <5>1. i \in 1..(k - 1)
          BY <3>1, <4>4
        <5>2. QED
          BY <3>2, <3>6, <4>1, <4>2, <4>4, <5>1
      <4>5. QED
        BY <4>3, <4>4
    <3>9. QED
      BY <2>1, <3>5, <3>7, <3>8
  <2>4. QED
    BY <2>2, <2>3
<1>2. n \notin bad
  BY <1>1
<1>3. QED
  BY <1>2 DEF GoesUp

\* The same, from hi down to lo.
GoesDown(lo, hi, V, v, F, f) ==
  /\ f \in [lo..hi -> V]
  /\ f[hi] = v /\ \A t \in lo..(hi - 1) : f[t] = F[<<t, f[t + 1]>>]

LEMMA RecursionDown ==
  ASSUME NEW lo \in Int, NEW hi \in Int, lo <= hi, NEW V, NEW v \in V,
         NEW F, F \in [(lo..(hi - 1)) \X V -> V]
  PROVE  \E f : GoesDown(lo, hi, V, v, F, f)
<1>1. PICK n \in Nat : n = hi - lo
  OBVIOUS
<1>2. PICK G : G = [x \in (1..n) \X V |-> F[<<hi - x[1], x[2]>>]]
  OBVIOUS
<1>3. \A i \in 1..n, x \in V : G[<<i, x>>] = F[<<hi - i, x>>]
  BY <1>2
<1>4. \A i \in 1..n : hi - i \in lo..(hi - 1)
  BY <1>1
<1>5. G \in [(1..n) \X V -> V]
  <2>1. \A x \in (1..n) \X V : F[<<hi - x[1], x[2]>>] \in V
    BY <1>4
  <2>2. QED
    BY <1>2, <2>1
<1>6. PICK g : GoesUp(n, V, v, G, g)
  BY <1>5, RecursionUp
<1>7. PICK f : f = [t \in lo..hi |-> g[hi - t]]
  OBVIOUS
<1>8. \A t \in lo..hi : hi - t \in 0..n
  BY <1>1
<1>9. f \in [lo..hi -> V]
  BY <1>6, <1>7, <1>8 DEF GoesUp
<1>10. f[hi] = v
  <2>1. hi \in lo..hi /\ hi - hi = 0
    OBVIOUS
  <2>2. QED
    BY <1>6, <1>7, <2>1 DEF GoesUp
<1>11. ASSUME NEW t \in lo..(hi - 1) PROVE f[t] = F[<<t, f[t + 1]>>]
  <2>1. /\ t \in lo..hi /\ t + 1 \in lo..hi /\ hi - t \in 1..n
        /\ hi - (t + 1) = hi - t - 1 /\ hi - t - 1 \in 0..n /\ hi - (hi - t) = t
    BY <1>1
  <2>2. f[t] = g[hi - t] /\ f[t + 1] = g[hi - t - 1]
    BY <1>7, <2>1
  <2>3. g[hi - t - 1] \in V
    BY <1>6, <2>1 DEF GoesUp
  <2>4. g[hi - t] = G[<<hi - t, g[hi - t - 1]>>]
    BY <1>6, <2>1 DEF GoesUp
  <2>5. G[<<hi - t, g[hi - t - 1]>>] = F[<<hi - (hi - t), g[hi - t - 1]>>]
    BY <1>3, <2>1, <2>3
  <2>6. QED
    BY <2>1, <2>2, <2>4, <2>5
<1>12. QED
  BY <1>9, <1>10, <1>11 DEF GoesDown
=============================================================================
