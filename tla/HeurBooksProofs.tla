---------------------------- MODULE HeurBooksProofs ----------------------------
(***************************************************************************)
(* Heuristic allocation keeps its books: for every network, every supply   *)
(* and demand and every sequence of calls, the availability schedule, the  *)
(* execution and substitution volumes and the shipments of the solution    *)
(* agree.                                                                  *)
(*                                                                         *)
(* The postprocessor computes from the volumes alone what they leave of    *)
(* each part.  The allocator never does: it adds to and takes from its     *)
(* schedule entry by entry.  The invariant Bookkeeping compares the two in *)
(* the middle of an explosion, where an entry is accounted for some of its *)
(* executions only.                                                        *)
(***************************************************************************)
EXTENDS HeurAllocProofs

(***************************************************************************)
(* 1. Requirements.  Whatever a commit requires is of a part in the list   *)
(* below the part it is for, and between the periods that the iteration of *)
(* innerCommit looks at; so nothing required is missed.                    *)
(***************************************************************************)

\* The sets that Below is made of, as one step of its recursion.
SetBelow(i, seq) ==
  LET p == SortedParts[i]
      listOf(q) == UNION {seq[j] : j \in {k \in 1..(i - 1) : SortedParts[k] = q}}
  IN  {p} \cup UNION {listOf(q) : q \in MadeFrom(p)}

BelowSteps(f) ==
  [i \in 0..Len(SortedParts) |->
     IF i = 0 THEN <<>> ELSE Append(f[i - 1], SetBelow(i, f[i - 1]))]

LEMMA BelowDef ==
  ASSUME NEW p \in Parts
  PROVE  Below[p] = (CHOOSE f : f = BelowSteps(f))[Len(SortedParts)]
                       [CHOOSE i \in DOMAIN SortedParts : SortedParts[i] = p]
  BY DEF Below, BelowSteps, SetBelow

IndexOf(p) == CHOOSE i \in DOMAIN SortedParts : SortedParts[i] = p

LEMMA IndexOfPart ==
  /\ Len(SortedParts) \in Nat /\ DOMAIN SortedParts = 1..Len(SortedParts)
  /\ \A p \in Parts : IndexOf(p) \in 1..Len(SortedParts) /\ SortedParts[IndexOf(p)] = p
  /\ \A i \in 1..Len(SortedParts) : SortedParts[i] \in Parts /\ IndexOf(SortedParts[i]) = i
<1>1. SortedParts \in Seq(Parts) /\ Len(SortedParts) \in Nat
      /\ DOMAIN SortedParts = 1..Len(SortedParts)
  BY PartsAssumption
<1>2. ASSUME NEW p \in Parts
      PROVE  IndexOf(p) \in 1..Len(SortedParts) /\ SortedParts[IndexOf(p)] = p
  <2>1. p \in ToSet(SortedParts)
    BY PartsAssumption
  <2>2. \E i \in DOMAIN SortedParts : SortedParts[i] = p
    BY <2>1 DEF ToSet
  <2>3. QED
    BY <1>1, <2>2 DEF IndexOf
<1>3. ASSUME NEW i \in 1..Len(SortedParts)
      PROVE  SortedParts[i] \in Parts /\ IndexOf(SortedParts[i]) = i
  <2>1. SortedParts[i] \in Parts
    BY <1>1
  <2>2. IndexOf(SortedParts[i]) \in DOMAIN SortedParts
        /\ SortedParts[IndexOf(SortedParts[i])] = SortedParts[i]
    BY <1>1, <1>2, <2>1
  <2>3. QED
    BY <1>1, <2>1, <2>2, OrderAssumption
<1>4. QED
  BY <1>1, <1>2, <1>3

LEMMA MadeFromParts ==
  ASSUME NEW p \in Parts, NEW q \in MadeFrom(p)
  PROVE  q \in Parts /\ IndexOf(q) < IndexOf(p)
<1> DEFINE opns == {OpnOf[e] : e \in ToSet(Producing[p]) \cap ExpAllowed}
           boms == UNION {ToSet(Bom[o]) : o \in opns}
           cons == boms \cup UNION {ToSet(Subs[b]) : b \in boms}
<1>1. PICK c \in cons : q = PartOf[c]
  BY DEF MadeFrom
<1>2. opns \subseteq Operations
  BY BillsAssumption DEF Entries
<1>3. ASSUME NEW S, NEW s \in Seq(S) PROVE ToSet(s) \subseteq S
  BY <1>3 DEF ToSet
<1>4. \A o \in opns : ToSet(Bom[o]) \subseteq BomEntries
  BY <1>2, <1>3, BillsAssumption
<1>5. boms \subseteq BomEntries
  BY <1>4
<1>6. \A b \in boms : ToSet(Subs[b]) \subseteq SubEntries
  BY <1>3, <1>5, BillsAssumption
<1>7. cons \subseteq Entries
  BY <1>5, <1>6 DEF Entries
<1>8. q \in Parts
  BY <1>1, <1>7, BillsAssumption
<1>9. QED
  BY <1>8, IndexOfPart, OrderAssumption

\* What is below a part, by the order of sortedPartIndex.
LEMMA BelowIs ==
  ASSUME NEW p \in Parts
  PROVE  Below[p] = {p} \cup UNION {Below[q] : q \in MadeFrom(p)}
<1>1. PICK N : N = Len(SortedParts)
  OBVIOUS
<1>2. N \in Nat /\ DOMAIN SortedParts = 1..N
  BY <1>1, IndexOfPart
<1>4. ASSUME NEW i \in 1..N, NEW s, s \in Seq(SUBSET Parts), Len(s) = i - 1
      PROVE  SetBelow(i, s) \in SUBSET Parts
  <2>1. SortedParts[i] \in Parts
    BY <1>1, IndexOfPart
  <2>2. \A j \in 1..(i - 1) : s[j] \in SUBSET Parts
    BY <1>4
  <2>3. QED
    BY <2>1, <2>2 DEF SetBelow
<1> DEFINE App(i, s) == IF Len(s) = i - 1 THEN Append(s, SetBelow(i, s)) ELSE <<>>
<1>5. PICK F : F = [x \in (1..N) \X Seq(SUBSET Parts) |-> App(x[1], x[2])]
  OBVIOUS
<1>6. ASSUME NEW i \in 1..N, NEW s \in Seq(SUBSET Parts)
      PROVE  App(i, s) \in Seq(SUBSET Parts) /\ F[<<i, s>>] = App(i, s)
  <2>1. <<>> \in Seq(SUBSET Parts)
    OBVIOUS
  <2>2. Len(s) = i - 1 => Append(s, SetBelow(i, s)) \in Seq(SUBSET Parts)
    BY <1>4, AppendProperties
  <2>3. F[<<i, s>>] = App(i, s)
    BY <1>5
  <2>4. QED
    BY <2>1, <2>2, <2>3
<1>7. F \in [(1..N) \X Seq(SUBSET Parts) -> Seq(SUBSET Parts)]
  <2>1. \A x \in (1..N) \X Seq(SUBSET Parts) : App(x[1], x[2]) \in Seq(SUBSET Parts)
    BY <1>6
  <2> HIDE DEF App
  <2>2. QED
    BY <1>5, <2>1
<1>70. <<>> \in Seq(SUBSET Parts)
  OBVIOUS
<1>8. PICK g : GoesUp(N, Seq(SUBSET Parts), <<>>, F, g)
  BY <1>2, <1>7, <1>70, RecursionUp
<1>9. /\ g \in [0..N -> Seq(SUBSET Parts)] /\ g[0] = <<>>
      /\ \A i \in 1..N : g[i - 1] \in Seq(SUBSET Parts) /\ g[i] = App(i, g[i - 1])
  <2>1. /\ g \in [0..N -> Seq(SUBSET Parts)] /\ g[0] = <<>>
        /\ \A i \in 1..N : g[i] = F[<<i, g[i - 1]>>]
    BY <1>8 DEF GoesUp
  <2>2. \A i \in 1..N : g[i - 1] \in Seq(SUBSET Parts)
    BY <1>2, <2>1
  <2>3. QED
    BY <1>6, <2>1, <2>2
<1> HIDE DEF App
<1>10. \A i \in 0..N : Len(g[i]) = i
  <2> DEFINE bad == {i \in 0..N : Len(g[i]) # i}
  <2> SUFFICES ASSUME bad # {} PROVE FALSE
    OBVIOUS
  <2>1. bad \in SUBSET Nat
    BY <1>2
  <2>2. PICK i \in bad : \A j \in bad : i <= j
    BY <2>1, NatMin
  <2>3. CASE i = 0
    BY <1>9, <2>2, <2>3
  <2>4. CASE i # 0
    <3>1. i \in 1..N /\ i - 1 \in 0..N /\ ~(i <= i - 1)
      BY <1>2, <2>2, <2>4
    <3>2. Len(g[i - 1]) = i - 1
      BY <2>2, <3>1
    <3>3. g[i] = Append(g[i - 1], SetBelow(i, g[i - 1])) /\ g[i - 1] \in Seq(SUBSET Parts)
      BY <1>9, <3>1, <3>2 DEF App
    <3>4. Len(g[i]) = Len(g[i - 1]) + 1
      BY <3>3
    <3>5. QED
      BY <2>2, <3>1, <3>2, <3>4
  <2>5. QED
    BY <2>3, <2>4
<1>11. \A i \in 1..N : g[i] = Append(g[i - 1], SetBelow(i, g[i - 1]))
  <2>1. \A i \in 1..N : Len(g[i - 1]) = i - 1
    BY <1>2, <1>10
  <2>2. QED
    BY <1>9, <2>1 DEF App
<1>12. g = BelowSteps(g)
  <2>1. g = [i \in 0..N |-> g[i]]
    BY <1>9
  <2>2. ASSUME NEW i \in 0..N
        PROVE  g[i] = IF i = 0 THEN <<>> ELSE Append(g[i - 1], SetBelow(i, g[i - 1]))
    <3>1. CASE i = 0
      BY <1>9, <3>1
    <3>2. CASE i # 0
      <4>1. i \in 1..N
        BY <1>2, <3>2
      <4>2. QED
        BY <1>11, <3>2, <4>1
    <3>3. QED
      BY <3>1, <3>2
  <2>3. QED
    BY <1>1, <2>1, <2>2 DEF BelowSteps
<1>13. PICK f : f = BelowSteps(f) /\ \A q \in Parts : Below[q] = f[N][IndexOf(q)]
  <2>1. PICK f : f = CHOOSE h : h = BelowSteps(h)
    OBVIOUS
  <2>2. f = BelowSteps(f)
    BY <1>12, <2>1
  <2>3. \A q \in Parts : Below[q] = f[N][IndexOf(q)]
    BY <1>1, <2>1, BelowDef DEF IndexOf
  <2>4. QED
    BY <2>2, <2>3
<1>14. f[0] = <<>> /\ \A i \in 1..N : f[i] = Append(f[i - 1], SetBelow(i, f[i - 1]))
  <2>1. f = [i \in 0..N |-> IF i = 0 THEN <<>> ELSE Append(f[i - 1], SetBelow(i, f[i - 1]))]
    BY <1>1, <1>13 DEF BelowSteps
  <2>2. \A i \in 0..N : f[i] = IF i = 0 THEN <<>> ELSE Append(f[i - 1], SetBelow(i, f[i - 1]))
    BY <2>1
  <2>3. 0 \in 0..N /\ \A i \in 1..N : i \in 0..N /\ i # 0
    BY <1>2
  <2>4. QED
    BY <2>2, <2>3
<1>15. f = g
  <2> DEFINE bad == {i \in 0..N : f[i] # g[i]}
  <2>1. bad = {}
    <3> SUFFICES ASSUME bad # {} PROVE FALSE
      OBVIOUS
    <3>1. bad \in SUBSET Nat
      BY <1>2
    <3>2. PICK i \in bad : \A j \in bad : i <= j
      BY <3>1, NatMin
    <3>3. i # 0
      BY <1>9, <1>14, <3>2
    <3>4. i \in 1..N /\ i - 1 \in 0..N /\ ~(i <= i - 1)
      BY <1>2, <3>2, <3>3
    <3>5. f[i - 1] = g[i - 1]
      BY <3>2, <3>4
    <3>6. QED
      BY <1>11, <1>14, <3>2, <3>4, <3>5
  <2>2. f = [i \in 0..N |-> f[i]]
    BY <1>1, <1>13 DEF BelowSteps
  <2>3. QED
    BY <1>9, <2>1, <2>2
\* The k-th set is there from the k-th step on.
<1>16. \A i \in 0..N : \A k \in 1..i : g[i][k] = SetBelow(k, g[k - 1])
  <2> DEFINE bad == {i \in 0..N : \E k \in 1..i : g[i][k] # SetBelow(k, g[k - 1])}
  <2> SUFFICES ASSUME bad # {} PROVE FALSE
    OBVIOUS
  <2>1. bad \in SUBSET Nat
    BY <1>2
  <2>2. PICK i \in bad : \A j \in bad : i <= j
    BY <2>1, NatMin
  <2>3. PICK k \in 1..i : g[i][k] # SetBelow(k, g[k - 1])
    BY <2>2
  <2>4. i \in 1..N /\ i - 1 \in 0..N /\ ~(i <= i - 1) /\ k \in 1..N
    BY <1>2, <2>2, <2>3
  <2>5. \A l \in 1..(i - 1) : g[i - 1][l] = SetBelow(l, g[l - 1])
    BY <2>2, <2>4
  <2>6. g[i] = Append(g[i - 1], SetBelow(i, g[i - 1])) /\ g[i - 1] \in Seq(SUBSET Parts)
        /\ Len(g[i - 1]) = i - 1
    BY <1>9, <1>10, <1>11, <2>4
  <2>7. g[i][k] = IF k = i THEN SetBelow(i, g[i - 1]) ELSE g[i - 1][k]
    <3>1. PICK s \in Seq(SUBSET Parts) : s = g[i - 1]
      BY <2>6
    <3>2. PICK x : x = SetBelow(i, g[i - 1])
      OBVIOUS
    <3>3. \A l \in 1..(Len(s) + 1) : Append(s, x)[l] = IF l = Len(s) + 1 THEN x ELSE s[l]
      BY <3>1
    <3>4. Len(s) + 1 = i
      BY <2>4, <2>6, <3>1
    <3>5. QED
      BY <2>3, <2>6, <3>1, <3>2, <3>3, <3>4
  <2>8. k # i => k \in 1..(i - 1)
    BY <2>3, <2>4
  <2>9. QED
    BY <2>3, <2>5, <2>7, <2>8
<1>17. \A q \in Parts : Below[q] = SetBelow(IndexOf(q), g[IndexOf(q) - 1])
  <2>1. \A q \in Parts : IndexOf(q) \in 1..N
    BY <1>1, IndexOfPart
  <2>2. N \in 0..N
    BY <1>2
  <2>3. QED
    BY <1>13, <1>15, <1>16, <2>1, <2>2
<1>18. PICK n : n = IndexOf(p)
  OBVIOUS
<1>19. n \in 1..N /\ SortedParts[n] = p /\ n - 1 \in 0..N
  BY <1>1, <1>2, <1>18, IndexOfPart
<1>20. ASSUME NEW q \in MadeFrom(p)
       PROVE  UNION {g[n - 1][j] : j \in {k \in 1..(n - 1) : SortedParts[k] = q}} = Below[q]
  <2>1. PICK m : m = IndexOf(q)
    OBVIOUS
  <2>2. q \in Parts /\ m \in 1..N /\ SortedParts[m] = q /\ m < n
    BY <1>1, <1>18, <2>1, MadeFromParts, IndexOfPart
  <2>3. {k \in 1..(n - 1) : SortedParts[k] = q} = {m}
    <3>1. m \in 1..(n - 1)
      BY <1>2, <1>19, <2>2
    <3>2. ASSUME NEW k \in 1..(n - 1), SortedParts[k] = q PROVE k = m
      <4>1. k \in 1..N
        BY <1>2, <1>19
      <4>2. QED
        BY <1>1, <2>1, <3>2, <4>1, IndexOfPart
    <3>3. QED
      BY <2>2, <3>1, <3>2
  <2>4. g[n - 1][m] = SetBelow(m, g[m - 1])
    <3>1. m \in 1..(n - 1)
      BY <1>2, <1>19, <2>2
    <3>2. QED
      BY <1>16, <1>19, <3>1
  <2>5. g[n - 1][m] = Below[q]
    BY <1>17, <2>1, <2>2, <2>4
  <2>6. QED
    BY <2>3, <2>5
<1>21. Below[p] = {p} \cup UNION {UNION {g[n - 1][j] : j \in {k \in 1..(n - 1) : SortedParts[k] = q}}
                                   : q \in MadeFrom(p)}
  <2>1. Below[p] = SetBelow(n, g[n - 1])
    BY <1>17, <1>18
  <2>2. QED
    BY <1>19, <2>1 DEF SetBelow
<1>22. QED
  BY <1>20, <1>21

\* Whatever a part below is made from is below.
LEMMA BelowIsClosed ==
  ASSUME NEW p \in Parts, NEW q \in Below[p], NEW r \in MadeFrom(q)
  PROVE  r \in Below[p]
<1> DEFINE Open(x) == \E y \in Below[x] : \E z \in MadeFrom(y) : z \notin Below[x]
           bad == {i \in 1..Len(SortedParts) : Open(SortedParts[i])}
<1>1. SUFFICES bad = {}
  <2>1. IndexOf(p) \notin bad /\ IndexOf(p) \in 1..Len(SortedParts) /\ SortedParts[IndexOf(p)] = p
    BY <1>1, IndexOfPart
  <2>2. QED
    BY <2>1
<1>2. SUFFICES ASSUME bad # {} PROVE FALSE
  OBVIOUS
<1>3. bad \in SUBSET Nat
  BY IndexOfPart
<1>4. PICK i \in bad : \A j \in bad : i <= j
  BY <1>2, <1>3, NatMin
<1>5. PICK x : x = SortedParts[i]
  OBVIOUS
<1>6. x \in Parts /\ i = IndexOf(x) /\ i \in Nat
  BY <1>3, <1>4, <1>5, IndexOfPart
<1>70. PICK y \in Below[x] : \E z \in MadeFrom(y) : z \notin Below[x]
  BY <1>4, <1>5
<1>7. PICK z \in MadeFrom(y) : z \notin Below[x]
  BY <1>70
<1>8. CASE y = x
  <2>1. z \in Parts
    BY <1>6, <1>7, <1>8, MadeFromParts
  <2>2. z \in Below[z]
    BY <2>1, BelowIs
  <2>3. Below[z] \subseteq Below[x]
    BY <1>6, <1>7, <1>8, BelowIs
  <2>4. QED
    BY <1>7, <2>2, <2>3
<1>9. CASE y # x
  <2>1. PICK w \in MadeFrom(x) : y \in Below[w]
    BY <1>6, <1>7, <1>9, BelowIs
  <2>2. w \in Parts /\ IndexOf(w) < i /\ IndexOf(w) \in Nat
    BY <1>6, <2>1, MadeFromParts, IndexOfPart
  <2>3. IndexOf(w) \notin bad
    BY <1>4, <1>6, <2>2
  <2>4. ~Open(w)
    BY <2>2, <2>3, IndexOfPart
  <2>5. z \in Below[w]
    BY <1>7, <2>1, <2>4
  <2>6. QED
    BY <1>6, <1>7, <2>1, <2>5, BelowIs
<1>10. QED
  BY <1>8, <1>9

\* The list has every part that is below, and no other.
LEMMA BelowListHasAll ==
  ASSUME NEW p \in Parts, NEW q \in Parts, q \in Below[p]
  PROVE  /\ \E j \in DOMAIN BelowList[p] : BelowList[p][j] = q
         /\ \A j \in DOMAIN BelowList[p] : BelowList[p][j] \in Below[p]
<1>1. PICK N : N = Len(SortedParts)
  OBVIOUS
<1>2. N \in Nat /\ DOMAIN SortedParts = 1..N /\ SortedParts \in Seq(Parts)
  BY <1>1, IndexOfPart, PartsAssumption
<1>3. PICK F : F = [x \in (1..N) \X Seq(Parts) |-> ListStep(p, x[1], x[2])]
  OBVIOUS
<1>4. \A i \in 1..N, l \in Seq(Parts) : F[<<i, l>>] = ListStep(p, i, l)
  BY <1>3
<1>5. ASSUME NEW i \in 1..N, NEW l \in Seq(Parts) PROVE ListStep(p, i, l) \in Seq(Parts)
  <2>1. SortedParts[i] \in Parts
    BY <1>2
  <2>2. <<SortedParts[i]>> \in Seq(Parts)
    BY <2>1
  <2>3. <<SortedParts[i]>> \o l \in Seq(Parts)
    BY <2>2, ConcatProperties
  <2>4. QED
    BY <2>3 DEF ListStep
<1>6. F \in [(1..N) \X Seq(Parts) -> Seq(Parts)]
  <2>1. \A x \in (1..N) \X Seq(Parts) : ListStep(p, x[1], x[2]) \in Seq(Parts)
    BY <1>5
  <2>2. QED
    BY <1>3, <2>1
<1>60. <<>> \in Seq(Parts)
  OBVIOUS
<1>7. PICK g : GoesUp(N, Seq(Parts), <<>>, F, g)
  BY <1>2, <1>6, <1>60, RecursionUp
<1>8. \A i \in 1..N : g[i] = ListStep(p, i, g[i - 1]) /\ g[i - 1] \in Seq(Parts)
  <2>1. \A i \in 1..N : g[i - 1] \in Seq(Parts)
    BY <1>2, <1>7 DEF GoesUp
  <2>2. QED
    BY <1>4, <1>7, <2>1 DEF GoesUp
<1>9. g = ListSteps(p, g)
  BY <1>1, <1>2, <1>7, <1>8 DEF ListSteps, GoesUp
<1>10. PICK f : f = ListSteps(p, f) /\ BelowList[p] = f[N]
  BY <1>1, <1>9, BelowListSteps
<1>11. f[0] = <<>> /\ \A i \in 1..N : f[i] = ListStep(p, i, f[i - 1])
  BY <1>1, <1>2, <1>10 DEF ListSteps
<1>12. PICK n : n = IndexOf(q)
  OBVIOUS
<1>13. n \in 1..N /\ SortedParts[n] = q
  BY <1>1, <1>12, IndexOfPart
<1> DEFINE Has(i) == /\ f[i] \in Seq(Parts)
                     /\ n <= i => \E j \in DOMAIN f[i] : f[i][j] = q
                     /\ \A j \in DOMAIN f[i] : f[i][j] \in Below[p]
           bad == {i \in 0..N : ~Has(i)}
<1>14. bad = {}
  <2> SUFFICES ASSUME bad # {} PROVE FALSE
    OBVIOUS
  <2>1. bad \in SUBSET Nat
    BY <1>2
  <2>2. PICK i \in bad : \A j \in bad : i <= j
    BY <2>1, NatMin
  <2>3. i # 0
    <3>1. Has(0)
      BY <1>11, <1>13
    <3>2. QED
      BY <2>2, <3>1
  <2>4. i \in 1..N /\ i - 1 \in 0..N /\ ~(i <= i - 1) /\ i \in Nat /\ n \in Nat
    BY <1>2, <1>13, <2>2, <2>3
  <2>5. Has(i - 1)
    BY <2>2, <2>4
  <2>6. PICK s \in Seq(Parts) : s = f[i - 1]
    BY <2>5
  <2>7. f[i] = ListStep(p, i, s) /\ f[i] \in Seq(Parts)
    BY <1>5, <1>11, <2>4, <2>6
  <2>8. PICK x \in Parts : x = SortedParts[i]
    BY <1>2, <2>4
  <2>9. <<x>> \in Seq(Parts) /\ Len(<<x>>) = 1 /\ <<x>>[1] = x
    BY <2>8
  <2>10. PICK t : t = <<x>> \o s
    OBVIOUS
  <2>11. /\ t \in Seq(Parts) /\ Len(t) = 1 + Len(s)
         /\ \A k \in 1..Len(t) : t[k] = IF k <= 1 THEN <<x>>[k] ELSE s[k - 1]
    BY <2>9, <2>10, ConcatProperties
  <2>12. \A k \in 1..Len(s) : k + 1 \in DOMAIN t /\ t[k + 1] = s[k]
    <3>1. Len(s) \in Nat /\ DOMAIN t = 1..Len(t)
      BY <2>11
    <3>2. QED
      BY <2>11, <3>1
  <2>13. t[1] = x /\ 1 \in DOMAIN t
    <3>1. Len(s) \in Nat /\ DOMAIN t = 1..Len(t)
      BY <2>11
    <3>2. QED
      BY <2>9, <2>11, <3>1
  <2>17. \A k \in DOMAIN f[i] : f[i][k] \in Below[p]
    <3>1. CASE x \in Below[p]
      <4>1. f[i] = t
        BY <2>7, <2>8, <2>10, <3>1 DEF ListStep
      <4>2. ASSUME NEW k \in DOMAIN t PROVE t[k] \in Below[p]
        <5>1. k \in 1..Len(t) /\ Len(s) \in Nat /\ k \in Nat
          BY <2>11
        <5>2. CASE k <= 1
          <6>1. k = 1
            BY <5>1, <5>2
          <6>2. QED
            BY <2>13, <3>1, <6>1
        <5>3. CASE ~(k <= 1)
          <6>1. t[k] = s[k - 1]
            BY <2>11, <5>1, <5>3
          <6>2. k - 1 \in DOMAIN s
            BY <2>6, <2>11, <5>1, <5>3
          <6>3. QED
            BY <2>5, <2>6, <6>1, <6>2
        <5>4. QED
          BY <5>2, <5>3
      <4>3. QED
        BY <4>1, <4>2
    <3>2. CASE x \notin Below[p]
      <4>1. f[i] = s
        BY <2>7, <2>8, <2>10, <3>2 DEF ListStep
      <4>2. QED
        BY <2>5, <2>6, <4>1
    <3>3. QED
      BY <3>1, <3>2
  <2>14. CASE n = i
    <3>1. f[i] = t /\ x = q
      BY <1>13, <2>7, <2>8, <2>10, <2>14 DEF ListStep
    <3>2. Has(i)
      BY <2>7, <2>13, <2>17, <3>1
    <3>3. QED
      BY <2>2, <3>2
  <2>15. CASE n # i
    <3>1. CASE n <= i - 1
      <4>1. PICK j \in DOMAIN s : s[j] = q
        BY <2>5, <2>6, <3>1
      <4>2. f[i] = t \/ f[i] = s
        BY <2>7, <2>8, <2>10 DEF ListStep
      <4>3. j \in 1..Len(s)
        BY <4>1
      <4>4. Has(i)
        BY <2>7, <2>12, <2>17, <4>1, <4>2, <4>3
      <4>5. QED
        BY <2>2, <4>4
    <3>2. CASE ~(n <= i - 1)
      <4>1. ~(n <= i)
        BY <2>4, <2>15, <3>2
      <4>2. QED
        BY <2>2, <2>7, <2>17, <4>1
    <3>3. QED
      BY <3>1, <3>2
  <2>16. QED
    BY <2>14, <2>15
<1>15. N \in 0..N /\ n <= N
  BY <1>2, <1>13
<1>16. Has(N)
  BY <1>14, <1>15
<1>17. QED
  BY <1>10, <1>15, <1>16

------------------------------------------------------------------------------

InList(q, list) == \E i \in DOMAIN list : list[i] = q

\* Whatever is required is in the list of parts and between the periods
\* that the iteration looks at.
ReqsIn(r, list) ==
  \A q \in Parts, u \in Periods :
     /\ ReqVol(r, q, u) >= 0
     /\ ReqVol(r, q, u) > 0 =>
          FirstPer(r, q) <= u /\ u <= LastPer(r, q) /\ InList(q, list)

ReqsWithin == pc \in {"fill"} \cup Exploding => ReqsIn(req, TopList)

\* What an addition to the requirements schedule changes.
LEMMA AddToIs ==
  ASSUME NEW r, Typed(r, ReqLocs), NEW p \in Parts, NEW t \in Periods, NEW qty \in Int,
         NEW n, n = AddTo(r, p, t, qty)
  PROVE  /\ ReqVol(n, p, t) = ReqVol(r, p, t) + qty
         /\ FirstPer(n, p) <= t /\ t <= LastPer(n, p)
         /\ \A q \in Parts :
              FirstPer(n, q) <= FirstPer(r, q) /\ LastPer(r, q) <= LastPer(n, q)
         /\ \A q \in Parts, u \in Periods :
              /\ ReqVol(r, q, u) \in Int
              /\ FirstPer(r, q) \in Int /\ LastPer(r, q) \in Int
              /\ FirstPer(n, q) \in Int /\ LastPer(n, q) \in Int
<1>0. PICK locR, locF, locL : locR = ReqLoc(p, t) /\ locF = FirstPerLoc(p) /\ locL = LastPerLoc(p)
  OBVIOUS
<1>1. KindOf(locR) \in Kinds /\ KindOf(locF) \in Kinds /\ KindOf(locL) \in Kinds
  BY <1>0 DEF ReqLoc, FirstPerLoc, LastPerLoc, KindOf, Kinds
<1>2. /\ locR \in ReqLocs /\ locF \in ReqLocs /\ locL \in ReqLocs
      /\ locR # locF /\ locR # locL /\ locF # locL
  BY <1>0 DEF ReqLocs, ReqLoc, FirstPerLoc, LastPerLoc
<1>3. \A q \in Parts :
         /\ FirstPerLoc(q) \in ReqLocs /\ LastPerLoc(q) \in ReqLocs
         /\ FirstPerLoc(q) # locR /\ LastPerLoc(q) # locR
         /\ FirstPerLoc(q) # locL /\ LastPerLoc(q) # locF
         /\ \A u \in Periods : ReqLoc(q, u) \in ReqLocs
  BY <1>0 DEF ReqLocs, ReqLoc, FirstPerLoc, LastPerLoc
<1>4. t \in Int
  BY NumberOfPeriods
<1>5. PICK vol : vol = SaveAndAssign(r, locR, ReqVol(r, p, t) + qty)
  OBVIOUS
<1>6. PICK new \in Int : new = ReqVol(r, p, t) + qty
  BY <1>0, <1>2 DEF Typed, ReqVol
<1>7. Typed(vol, ReqLocs) /\ vol.mem = [r.mem EXCEPT ![locR] = new]
  BY <1>1, <1>2, <1>5, <1>6, TypedSave DEF SaveAndAssign
<1>8. PICK first : first = IF t < FirstPer(vol, p) THEN SaveAndAssign(vol, locF, t) ELSE vol
  OBVIOUS
<1>9. Typed(first, ReqLocs)
      /\ first.mem = IF t < vol.mem[locF] THEN [vol.mem EXCEPT ![locF] = t] ELSE vol.mem
  BY <1>0, <1>1, <1>2, <1>4, <1>7, <1>8, TypedSave DEF SaveAndAssign, FirstPer
<1>10. PICK last : last = IF t > LastPer(first, p) THEN SaveAndAssign(first, locL, t) ELSE first
  OBVIOUS
<1>11. Typed(last, ReqLocs)
       /\ last.mem = IF t > first.mem[locL] THEN [first.mem EXCEPT ![locL] = t] ELSE first.mem
  BY <1>0, <1>1, <1>2, <1>4, <1>9, <1>10, TypedSave DEF SaveAndAssign, LastPer
<1>12. n = last
  BY <1>0, <1>5, <1>8, <1>10 DEF AddTo
<1>13. /\ DOMAIN r.mem = ReqLocs /\ DOMAIN vol.mem = ReqLocs /\ DOMAIN first.mem = ReqLocs
       /\ \A l \in ReqLocs : /\ r.mem[l] \in Int /\ vol.mem[l] \in Int
                             /\ first.mem[l] \in Int /\ last.mem[l] \in Int
  BY <1>7, <1>9, <1>11 DEF Typed
<1>14. last.mem[locR] = r.mem[locR] + qty
  <2>1. vol.mem[locR] = new
    BY <1>2, <1>7, <1>13
  <2>2. first.mem[locR] = vol.mem[locR]
    BY <1>2, <1>9, <1>13
  <2>3. last.mem[locR] = first.mem[locR]
    BY <1>2, <1>11, <1>13
  <2>4. QED
    BY <1>0, <1>6, <2>1, <2>2, <2>3 DEF ReqVol
<1>15. last.mem[locF] <= t /\ t <= last.mem[locL]
  <2>1. first.mem[locF] <= t
    BY <1>2, <1>4, <1>9, <1>13
  <2>2. last.mem[locF] = first.mem[locF]
    BY <1>2, <1>11, <1>13
  <2>3. t <= last.mem[locL]
    BY <1>2, <1>4, <1>11, <1>13
  <2>4. QED
    BY <2>1, <2>2, <2>3
<1>16. \A l \in ReqLocs : l # locR /\ l # locL => last.mem[l] <= r.mem[l]
  <2>1. ASSUME NEW l \in ReqLocs, l # locR, l # locL PROVE last.mem[l] <= r.mem[l]
    <3>1. vol.mem[l] = r.mem[l]
      BY <1>7, <1>13, <2>1
    <3>2. first.mem[l] <= vol.mem[l]
      BY <1>4, <1>9, <1>13, <2>1
    <3>3. last.mem[l] = first.mem[l]
      BY <1>11, <1>13, <2>1
    <3>4. QED
      BY <1>13, <3>1, <3>2, <3>3
  <2>2. QED
    BY <2>1
<1>17. \A l \in ReqLocs : l # locR /\ l # locF => r.mem[l] <= last.mem[l]
  <2>1. ASSUME NEW l \in ReqLocs, l # locR, l # locF PROVE r.mem[l] <= last.mem[l]
    <3>1. vol.mem[l] = r.mem[l]
      BY <1>7, <1>13, <2>1
    <3>2. first.mem[l] = vol.mem[l]
      BY <1>9, <1>13, <2>1
    <3>3. first.mem[l] <= last.mem[l]
      BY <1>4, <1>11, <1>13, <2>1
    <3>4. QED
      BY <1>13, <3>1, <3>2, <3>3
  <2>2. QED
    BY <2>1
<1>18. \A q \in Parts :
          last.mem[FirstPerLoc(q)] <= r.mem[FirstPerLoc(q)]
          /\ r.mem[LastPerLoc(q)] <= last.mem[LastPerLoc(q)]
  BY <1>3, <1>16, <1>17
<1>19. QED
  BY <1>0, <1>3, <1>12, <1>13, <1>14, <1>15, <1>18 DEF ReqVol, FirstPer, LastPer

LEMMA AddToReqsIn ==
  ASSUME NEW r, Typed(r, ReqLocs), NEW list, ReqsIn(r, list), NEW p \in Parts,
         NEW t \in Periods, NEW qty \in Nat, InList(p, list)
  PROVE  ReqsIn(AddTo(r, p, t, qty), list)
<1>1. PICK n : n = AddTo(r, p, t, qty)
  OBVIOUS
<1>2. qty \in Int
  OBVIOUS
<1>3. /\ ReqVol(n, p, t) = ReqVol(r, p, t) + qty
      /\ FirstPer(n, p) <= t /\ t <= LastPer(n, p)
      /\ \A q \in Parts : FirstPer(n, q) <= FirstPer(r, q) /\ LastPer(r, q) <= LastPer(n, q)
      /\ \A q \in Parts, u \in Periods :
           /\ ReqVol(r, q, u) \in Int
           /\ FirstPer(r, q) \in Int /\ LastPer(r, q) \in Int
           /\ FirstPer(n, q) \in Int /\ LastPer(n, q) \in Int
  BY <1>1, <1>2, AddToIs
<1>4. \A q \in Parts, u \in Periods :
         <<q, u>> # <<p, t>> => ReqVol(n, q, u) = ReqVol(r, q, u)
  BY <1>1, <1>2, TypedAddTo
<1>5. ASSUME NEW q \in Parts, NEW u \in Periods
      PROVE  /\ ReqVol(n, q, u) >= 0
             /\ ReqVol(n, q, u) > 0 =>
                  FirstPer(n, q) <= u /\ u <= LastPer(n, q) /\ InList(q, list)
  <2>1. CASE q = p /\ u = t
    <3>1. ReqVol(r, p, t) >= 0 /\ ReqVol(r, p, t) \in Int
      BY <1>3 DEF ReqsIn
    <3>2. ReqVol(n, q, u) >= 0
      BY <1>3, <2>1, <3>1
    <3>3. QED
      BY <1>3, <2>1, <3>2
  <2>2. CASE ~(q = p /\ u = t)
    <3>1. ReqVol(n, q, u) = ReqVol(r, q, u)
      BY <1>4, <2>2
    <3>2. /\ ReqVol(r, q, u) >= 0
          /\ ReqVol(r, q, u) > 0 =>
               FirstPer(r, q) <= u /\ u <= LastPer(r, q) /\ InList(q, list)
      BY DEF ReqsIn
    <3>3. u \in Int
      BY NumberOfPeriods
    <3>4. FirstPer(n, q) <= FirstPer(r, q) /\ LastPer(r, q) <= LastPer(n, q)
          /\ FirstPer(r, q) \in Int /\ LastPer(r, q) \in Int
          /\ FirstPer(n, q) \in Int /\ LastPer(n, q) \in Int
      BY <1>3
    <3>5. QED
      BY <3>1, <3>2, <3>3, <3>4
  <2>3. QED
    BY <2>1, <2>2
<1>6. QED
  BY <1>1, <1>5 DEF ReqsIn

LEMMA NoReqsIn ==
  ASSUME NEW r, r.mem = NoReqs, NEW list PROVE ReqsIn(r, list)
<1>1. \A q \in Parts, u \in Periods : NoReqs[ReqLoc(q, u)] = 0
  <2>1. \A q \in Parts, u \in Periods : ReqLoc(q, u) \in ReqLocs
    BY DEF ReqLocs
  <2>2. \A q \in Parts, u \in Periods : ReqLoc(q, u)[2] = "reqVol"
    BY DEF ReqLoc
  <2>3. QED
    BY <2>1, <2>2 DEF NoReqs
<1>2. \A q \in Parts, u \in Periods : ReqVol(r, q, u) = 0
  BY <1>1 DEF ReqVol
<1>3. QED
  BY <1>2 DEF ReqsIn

\* The part itself, and whatever a part of the list is made from.
LEMMA ListIsClosed ==
  ASSUME NEW p \in Parts
  PROVE  /\ InList(p, BelowList[p])
         /\ \A q, r : InList(q, BelowList[p]) /\ r \in MadeFrom(q) => InList(r, BelowList[p])
<1>1. p \in Below[p]
  BY BelowIs
<1>2. InList(p, BelowList[p]) /\ \A j \in DOMAIN BelowList[p] : BelowList[p][j] \in Below[p]
  BY <1>1, BelowListHasAll DEF InList
<1>3. ASSUME NEW q, NEW r, InList(q, BelowList[p]), r \in MadeFrom(q)
      PROVE  InList(r, BelowList[p])
  <2>1. q \in Below[p]
    BY <1>2, <1>3 DEF InList
  <2>2. BelowList[p] \in Seq(Parts)
    BY BelowListDescends DEF Descends
  <2>3. q \in Parts
    BY <1>3, <2>2 DEF InList
  <2>4. r \in Parts
    BY <1>3, <2>3, MadeFromParts
  <2>5. r \in Below[p]
    BY <1>3, <2>1, BelowIsClosed
  <2>6. QED
    BY <2>4, <2>5, BelowListHasAll DEF InList
<1>4. QED
  BY <1>2, <1>3

------------------------------------------------------------------------------

LEMMA ReqsAtStart ==
  ASSUME Reqs, pc \notin CommitPoints PROVE req.mem = NoReqs
<1>1. Clean(req) /\ StoreShape(req) /\ Recovers(req, NoReqs)
  BY DEF Reqs
<1>2. NoReqs = [loc \in DOMAIN NoReqs |-> NoReqs[loc]]
  BY DEF NoReqs
<1>3. QED
  BY <1>1, <1>2, ReqLocsHaveKinds, CleanIsRecovered

LEMMA StartReqs ==
  ASSUME Allocation, NEW theMode, StartCommit(theMode), pc \in {"try", "perm"}
  PROVE  /\ ReqsWithin'
         /\ TryQty \in Nat \ {0} /\ top.part \in Parts /\ top.per \in Periods
         /\ ReqVol(req', top.part, top.per) = TryQty
         /\ \A q \in Parts, u \in Periods :
              <<q, u>> # <<top.part, top.per>> => ReqVol(req', q, u) = 0
<1>1. pc \notin CommitPoints /\ pc \in Trying
  BY DEF CommitPoints, Trying
<1>2. Reqs /\ Locals /\ SearchType /\ CallType /\ TopType /\ Typed(req, ReqLocs)
  BY DEF Allocation, Locals, Sched
<1>3. req.mem = NoReqs
  BY <1>1, <1>2, ReqsAtStart
<1>4. search.stage # "none"
  <2>1. mode = "none"
    BY <1>1, <1>2 DEF Reqs
  <2>2. QED
    BY <1>2 DEF SearchType
<1>5. TryQty \in 1..netQty /\ netQty \in Nat
  <2>1. TryQty \in 1..netQty
    BY <1>1, <1>2, <1>4, TryQtyFits
  <2>2. netQty \in Nat
    BY <1>2 DEF CallType
  <2>3. QED
    BY <2>1, <2>2
<1>6. PICK q0 \in Nat \ {0} : q0 = TryQty
  BY <1>5
<1>7. PICK p \in Parts, t \in Periods : p = top.part /\ t = top.per
  BY <1>1, <1>2 DEF TopType
<1>8. req' = AddTo(req, p, t, q0) /\ pc' = "fill" /\ top' = top
  BY <1>6, <1>7 DEF StartCommit, callVars
<1>9. \A q \in Parts, u \in Periods : ReqVol(req, q, u) = 0
  <2>1. \A q \in Parts, u \in Periods : ReqLoc(q, u) \in ReqLocs /\ ReqLoc(q, u)[2] = "reqVol"
    BY DEF ReqLocs, ReqLoc
  <2>2. QED
    BY <1>3, <2>1 DEF NoReqs, ReqVol
<1>10. ReqsIn(req, BelowList[p])
  BY <1>3, NoReqsIn
<1>11. q0 \in Int /\ q0 \in Nat
  OBVIOUS
<1>12. ReqVol(req', p, t) = q0
  <2>1. ReqVol(req', p, t) = ReqVol(req, p, t) + q0
    BY <1>2, <1>8, <1>11, AddToIs
  <2>2. QED
    BY <1>9, <1>11, <2>1
<1>13. \A q \in Parts, u \in Periods : <<q, u>> # <<p, t>> => ReqVol(req', q, u) = 0
  BY <1>2, <1>8, <1>9, <1>11, TypedAddTo
<1>14. ReqsIn(req', BelowList[p])
  BY <1>2, <1>8, <1>10, <1>11, ListIsClosed, AddToReqsIn
<1>15. TopList' = BelowList[p]
  <2>1. top' # NoTop
    BY <1>7, <1>8 DEF NoTop, Periods
  <2>2. QED
    BY <1>7, <1>8, <2>1 DEF TopList
<1>16. ReqsWithin'
  BY SMTT(30), <1>14, <1>15 DEF ReqsWithin
<1>17. QED
  BY <1>6, <1>7, <1>12, <1>13, <1>16

LEMMA ReqsOfFill ==
  ASSUME Allocation, ReqsWithin, FillStep PROVE ReqsWithin'
<1>0. Reqs /\ TopType /\ CursorType /\ Typed(req, ReqLocs)
  BY DEF Allocation, Locals, Sched, FrameType
<1>1. ASSUME NEW r \in NextReqs, NEW rollPer \in Periods \cup {-1},
             NetAndRollReq(r[1], r[2], rollPer)
      PROVE  ReqsWithin'
  <2>1. PICK j, u : j = r[1] /\ u = r[2]
    OBVIOUS
  <2>2. PICK p : p = TopList[j]
    OBVIOUS
  <2>3. PICK reqVol : reqVol = ReqVol(req, p, u)
    OBVIOUS
  <2>4. /\ pc = "fill" /\ j \in DOMAIN TopList /\ u \in Periods
        /\ p \in Parts /\ reqVol \in Nat \ {0}
    BY <1>0, <2>1, <2>2, <2>3, NextReqsAre
  <2>5. PICK vol : vol = RollVol(soln, p, u, reqVol)
    OBVIOUS
  <2>6. /\ rollPer = IF vol = 0 THEN -1 ELSE RollPeriod(soln, p, u)
        /\ req' = IF rollPer < 0 THEN req ELSE AddTo(req, p, rollPer, vol)
        /\ p \in UncondSR /\ top' = top
    BY <1>1, <2>1, <2>2, <2>3, <2>5 DEF NetAndRollReq, CommitUnchanged, callVars
  <2>7. SoundAndFeasible(soln)
    BY <2>4 DEF Allocation, Sched
  <2>8. p \in Materials
    BY <2>6, UncondSRAssumption
  <2>9. vol \in 0..reqVol /\ (rollPer # -1 => rollPer \in Periods /\ u < rollPer)
    BY <2>4, <2>5, <2>6, <2>7, <2>8, RollFeasible
  <2>10. ReqsIn(req, TopList)
    BY <2>4 DEF ReqsWithin
  <2>11. ReqsIn(req', TopList)
    <3>1. CASE rollPer < 0
      BY <2>6, <2>10, <3>1
    <3>2. CASE ~(rollPer < 0)
      <4>1. rollPer \in Periods /\ vol \in Nat
        BY <2>4, <2>9, <3>2
      <4>2. InList(p, TopList)
        BY <2>2, <2>4 DEF InList
      <4>3. QED
        BY <1>0, <2>4, <2>6, <2>10, <3>2, <4>1, <4>2, AddToReqsIn
    <3>3. QED
      BY <3>1, <3>2
  <2>12. TopList' = TopList
    BY <2>6 DEF TopList
  <2>13. QED
    BY <2>11, <2>12 DEF ReqsWithin
<1>2. CASE req' = req /\ top' = top /\ pc \in {"fill", "explode"}
  <2>1. TopList' = TopList
    BY <1>2 DEF TopList
  <2>2. QED
    BY <1>2, <2>1 DEF ReqsWithin, Exploding
<1>3. QED
  BY <1>1, <1>2 DEF FillStep, NetReq, AllFilled, CannotExplode, ExplodeBopEnt,
                    CommitUnchanged, callVars

\* What an explosion requires for a BOM entry: of which part, when, how much.
LEMMA ConsumedReq ==
  ASSUME Allocation, pc = "cons",
         NEW p, p = PartOf[FrameBom], NEW u, u = Impact[FrameBom][frame.execPer]
  PROVE  /\ p \in Parts /\ u \in Periods
         /\ FrameBom \in BomEntries /\ frame.execPer \in Periods
         /\ Rate[FrameBom] \in Int /\ frame.net \in Nat
         /\ ConsumedQty(FrameBom, frame.net) \in Int
         /\ p \in MadeFrom(frame.part) /\ frame.part \in Parts
         /\ cursor.idx \in DOMAIN TopList /\ frame.part = TopList[cursor.idx]
         /\ \A i \in DOMAIN TopList, t \in Periods : TopList[i] = p => ~Passed(i, t)
<1>0. FrameOK /\ TopType /\ FrameType /\ CursorType
  BY DEF Allocation, Locals, FrameType
<1>4. FrameBom \in BomEntries /\ FrameBom \in Entries
      /\ InEffect(FrameBom, frame.execPer) /\ frame.net \in Nat
  BY <1>0, FrameEntries DEF FrameType, ScanType, Entries
<1>5. frame.execPer \in Periods
  BY <1>0 DEF FrameOK
<1>6. p \in Parts /\ u \in Periods /\ Rate[FrameBom] \in Int
  BY <1>4, <1>5, ImpactInEffect
<1>7. ConsumedQty(FrameBom, frame.net) \in Int
  BY <1>4, <1>6 DEF ConsumedQty
<1>8. p \in MadeFrom(frame.part)
  <2>1. /\ frame.bop \in ToSet(Producing[frame.part]) /\ frame.bop \in ExpAllowed
        /\ FrameOpn \in Operations
    BY <1>0, ExecutionMeans DEF Executing
  <2>2. Bom[FrameOpn] \in Seq(BomEntries) /\ frame.bomIdx \in DOMAIN Bom[FrameOpn]
    BY <1>0, <2>1, BillsAssumption DEF FrameOK
  <2>3. FrameBom \in ToSet(Bom[FrameOpn])
    BY <2>2, SeqElements DEF FrameBom
  <2>4. QED
    BY <2>1, <2>3 DEF MadeFrom, FrameOpn
<1>9. /\ cursor.idx \in DOMAIN TopList /\ frame.part = TopList[cursor.idx]
  BY <1>0 DEF FrameType, FillsReq, Exploding, Executing
<1>10. Descends(TopList, Len(SortedParts)) /\ TopList \in Seq(Parts)
  BY <1>0, TopListParts DEF Trying, CommitPoints
<1>11. ASSUME NEW i \in DOMAIN TopList, NEW t \in Periods, TopList[i] = p
       PROVE  ~Passed(i, t)
  <2>1. TopList[i] \in Parts /\ i \in Nat /\ cursor.idx \in Nat
    BY <1>0, <1>10, SeqElements DEF CursorType
  <2>2. cursor.idx < i
    BY <1>8, <1>9, <1>10, <1>11, MadeFromLater
  <2>3. QED
    BY <2>1, <2>2 DEF Passed
<1>12. frame.part \in Parts
  BY <1>9, <1>10, SeqElements
<1>13. QED
  BY <1>4, <1>5, <1>6, <1>7, <1>8, <1>9, <1>11, <1>12

LEMMA ReqsOfExplode ==
  ASSUME Allocation, ReqsWithin, ExplodeStep PROVE ReqsWithin'
<1>1. CASE ExplodeConsEntry
  <2>1. PICK p, u : p = PartOf[FrameBom] /\ u = Impact[FrameBom][frame.execPer]
    OBVIOUS
  <2>2. PICK qty : qty = ConsumedQty(FrameBom, frame.net)
    OBVIOUS
  <2>3. /\ pc = "cons" /\ req' = IF qty > 0 THEN AddTo(req, p, u, qty) ELSE req
        /\ top' = top
    BY <1>1, <2>1, <2>2 DEF ExplodeConsEntry, CommitUnchanged, callVars
  <2>4. /\ p \in Parts /\ u \in Periods /\ qty \in Int
        /\ p \in MadeFrom(frame.part)
        /\ cursor.idx \in DOMAIN TopList /\ frame.part = TopList[cursor.idx]
    BY <2>1, <2>2, <2>3, ConsumedReq
  <2>5. ReqsIn(req, TopList) /\ Typed(req, ReqLocs) /\ TopType
    BY <2>3 DEF ReqsWithin, Allocation, Sched, Locals, Exploding, Executing
  <2>6. InList(p, TopList)
    <3>1. InList(frame.part, TopList)
      BY <2>4 DEF InList
    <3>2. top \in [part : Parts, per : Periods]
      BY <2>3, <2>5 DEF TopType, Trying, CommitPoints
    <3>3. top.part \in Parts /\ TopList = BelowList[top.part]
      BY <3>2 DEF TopList, NoTop, Periods
    <3>4. QED
      BY <2>4, <3>1, <3>3, ListIsClosed
  <2>7. ReqsIn(req', TopList)
    <3>1. CASE qty > 0
      BY <2>3, <2>4, <2>5, <2>6, <3>1, AddToReqsIn
    <3>2. CASE ~(qty > 0)
      BY <2>3, <2>5, <3>2
    <3>3. QED
      BY <3>1, <3>2
  <2>8. TopList' = TopList
    BY <2>3 DEF TopList
  <2>9. QED
    BY <2>7, <2>8 DEF ReqsWithin
<1>2. CASE req' = req /\ top' = top /\ pc \in Executing
  <2>1. TopList' = TopList
    BY <1>2 DEF TopList
  <2>2. QED
    BY <1>2, <2>1 DEF ReqsWithin, Exploding, Executing
<1>3. QED
  BY <1>1, <1>2
     DEF ExplodeStep, BomEntryNotInEffect, ExplodeBomEntry, NetConsEntry,
         NetByProductEntry, SkipSubEntry, BomEntriesExploded, ExplodeBopEntry, UseProduct,
         CommitUnchanged, callVars, Executing

LEMMA ReqsOfOthers ==
  ASSUME Allocation, MaxQtyStep \/ UndoStep \/ StockSLBStep \/ Call PROVE ReqsWithin'
<1>1. CASE TempCommit
  BY <1>1, StartReqs DEF TempCommit
<1>2. CASE PermCommit
  BY <1>2, StartReqs DEF PermCommit
<1>3. CASE pc' \notin {"fill"} \cup Exploding
  BY <1>3 DEF ReqsWithin
<1>4. MaxQtyStep => TempCommit \/ PermCommit \/ pc' \notin {"fill"} \cup Exploding
  BY DEF MaxQtyStep, SkipBlocked, CommitMaxQty, TempCommitReturns, PermCommitReturns,
         CommitMaxQtyEnds, PostIncHeurAlloc, Exploding, Executing
<1>5. UndoStep \/ StockSLBStep \/ Call => pc' \notin {"fill"} \cup Exploding
  BY DEF UndoStep, ClearReqSched, RestoreSoln, StockSLBStep, EnforceStockSLB,
         StockSLBEnforced, StockSLBsEnforced, Call, IncHeurAlloc, FinishHeurAlloc,
         StartHeurAlloc, Exploding, Executing
<1>6. QED
  BY <1>1, <1>2, <1>3, <1>4, <1>5

LEMMA ReqsNext == Allocation /\ ReqsWithin /\ [Next]_vars => ReqsWithin'
<1> SUFFICES ASSUME Allocation, ReqsWithin, [Next]_vars PROVE ReqsWithin'
  OBVIOUS
<1>1. CASE UNCHANGED vars
  <2>1. TopList' = TopList /\ UNCHANGED <<req, pc>>
    BY <1>1 DEF vars, callVars, commVars, TopList
  <2>2. QED
    BY <2>1 DEF ReqsWithin
<1>2. CASE Next
  BY <1>2, ReqsOfFill, ReqsOfExplode, ReqsOfOthers DEF Next, Run
<1>3. QED
  BY <1>1, <1>2

(***************************************************************************)
(* 2. Calls.  What a call asks for, the stock bounds that finish() still   *)
(* has to enforce, and the periods in which what is asked for may be made: *)
(* stock can be kept from each of them until it is needed.                 *)
(***************************************************************************)

\* The step of the recursion of FlattenSeq.
FlatFun(seqs, f) ==
  [i \in 1..Len(seqs) |-> IF i = 1 THEN seqs[i] ELSE f[i - 1] \o seqs[i]]

LEMMA FlattenDef ==
  ASSUME NEW seqs, Len(seqs) # 0
  PROVE  FlattenSeq(seqs) = (CHOOSE f : f = FlatFun(seqs, f))[Len(seqs)]
  BY DEF FlattenSeq, FlatFun

FlatParts(S, seqs, f) ==
  /\ f[Len(seqs)] = FlattenSeq(seqs)
  /\ \A i \in 1..Len(seqs) : f[i] \in Seq(S) /\ seqs[i] \in Seq(S)
  /\ f[1] = seqs[1] /\ \A i \in 2..Len(seqs) : f[i] = f[i - 1] \o seqs[i]

\* The pieces of a sequence, put together one after the other.
LEMMA FlattenIs ==
  ASSUME NEW S, NEW N \in Nat \ {0}, NEW seqs \in Seq(Seq(S)), Len(seqs) = N
  PROVE  \E f : FlatParts(S, seqs, f)
<1>1. \A i \in 1..N : seqs[i] \in Seq(S)
  OBVIOUS
<1>2. PICK F : F = [x \in (1..(N - 1)) \X Seq(S) |-> x[2] \o seqs[x[1] + 1]]
  OBVIOUS
<1>3. ASSUME NEW i \in 1..(N - 1), NEW l \in Seq(S)
      PROVE  F[<<i, l>>] = l \o seqs[i + 1] /\ l \o seqs[i + 1] \in Seq(S)
  <2>1. seqs[i + 1] \in Seq(S)
    BY <1>1
  <2>2. l \o seqs[i + 1] \in Seq(S)
    BY <2>1, ConcatProperties
  <2>3. QED
    BY <1>2, <2>2
<1>4. F \in [(1..(N - 1)) \X Seq(S) -> Seq(S)]
  <2>1. \A x \in (1..(N - 1)) \X Seq(S) : x[2] \o seqs[x[1] + 1] \in Seq(S)
    BY <1>3
  <2>2. QED
    BY <1>2, <2>1
<1>5. seqs[1] \in Seq(S) /\ N - 1 \in Nat
  BY <1>1
<1>6. PICK h : GoesUp(N - 1, Seq(S), seqs[1], F, h)
  BY <1>4, <1>5, RecursionUp
<1>7. PICK g : g = [i \in 1..N |-> h[i - 1]]
  OBVIOUS
<1>8. h \in [0..(N - 1) -> Seq(S)] /\ h[0] = seqs[1]
      /\ \A i \in 1..(N - 1) : h[i] = F[<<i, h[i - 1]>>]
  BY <1>6 DEF GoesUp
<1>9. \A i \in 1..N : g[i] \in Seq(S)
  BY <1>7, <1>8
<1>10. g[1] = seqs[1]
  BY <1>7, <1>8
<1>11. ASSUME NEW i \in 2..N PROVE g[i] = g[i - 1] \o seqs[i]
  <2>1. i - 1 \in 1..(N - 1) /\ i \in 1..N /\ i - 1 \in 1..N /\ i - 1 + 1 = i
    OBVIOUS
  <2>2. h[i - 1] = F[<<i - 1, h[i - 1 - 1]>>] /\ h[i - 1 - 1] \in Seq(S)
    BY <1>8, <2>1
  <2>3. h[i - 1] = h[i - 1 - 1] \o seqs[i]
    BY <1>3, <2>1, <2>2
  <2>4. QED
    BY <1>7, <2>1, <2>3
<1>12. g = FlatFun(seqs, g)
  <2>1. g = [i \in 1..N |-> g[i]]
    BY <1>7
  <2>2. ASSUME NEW i \in 1..N
        PROVE  g[i] = IF i = 1 THEN seqs[i] ELSE g[i - 1] \o seqs[i]
    <3>1. CASE i = 1
      BY <1>10, <3>1
    <3>2. CASE i # 1
      <4>1. i \in 2..N
        BY <3>2
      <4>2. QED
        BY <1>11, <3>2, <4>1
    <3>3. QED
      BY <3>1, <3>2
  <2>3. QED
    BY <2>1, <2>2 DEF FlatFun
<1>13. PICK f : f = CHOOSE k : k = FlatFun(seqs, k)
  OBVIOUS
<1>14. f = FlatFun(seqs, f)
  BY <1>12, <1>13
<1>15. f = [i \in 1..N |-> f[i]] /\ f[1] = seqs[1] /\ \A i \in 2..N : f[i] = f[i - 1] \o seqs[i]
  <2>1. f = [i \in 1..N |-> IF i = 1 THEN seqs[i] ELSE f[i - 1] \o seqs[i]]
    BY <1>14 DEF FlatFun
  <2>2. f = [i \in 1..N |-> f[i]]
        /\ \A i \in 1..N : f[i] = IF i = 1 THEN seqs[i] ELSE f[i - 1] \o seqs[i]
    BY <2>1
  <2>3. 1 \in 1..N /\ \A i \in 2..N : i \in 1..N /\ i # 1
    OBVIOUS
  <2>4. QED
    BY <2>2, <2>3
<1>16. \A i \in 1..N : f[i] \in Seq(S)
  <2> DEFINE bad == {i \in 1..N : f[i] \notin Seq(S)}
  <2> SUFFICES ASSUME bad # {} PROVE FALSE
    OBVIOUS
  <2>1. bad \in SUBSET Nat
    OBVIOUS
  <2>2. PICK i \in bad : \A j \in bad : i <= j
    BY <2>1, NatMin
  <2>3. i # 1
    BY <1>1, <1>15, <2>2
  <2>4. i \in 2..N /\ i - 1 \in 1..N /\ ~(i <= i - 1) /\ i \in 1..N
    BY <2>2, <2>3
  <2>5. f[i - 1] \in Seq(S) /\ seqs[i] \in Seq(S)
    BY <1>1, <2>2, <2>4
  <2>6. f[i] = f[i - 1] \o seqs[i]
    BY <1>15, <2>4
  <2>7. f[i] \in Seq(S)
    BY <2>5, <2>6, ConcatProperties
  <2>8. QED
    BY <2>2, <2>7
<1>17. FlattenSeq(seqs) = f[N]
  BY <1>13, FlattenDef
<1>18. QED
  BY <1>1, <1>15, <1>16, <1>17 DEF FlatParts

LEMMA FlattenType ==
  ASSUME NEW S, NEW seqs \in Seq(Seq(S)) PROVE FlattenSeq(seqs) \in Seq(S)
<1>1. PICK N \in Nat : N = Len(seqs)
  OBVIOUS
<1>2. CASE N = 0
  <2>1. seqs = <<>>
    BY <1>1, <1>2, EmptySeq
  <2>2. FlattenSeq(seqs) = seqs
    BY <1>1, <1>2 DEF FlattenSeq
  <2>3. <<>> \in Seq(S)
    OBVIOUS
  <2>4. QED
    BY <2>1, <2>2, <2>3
<1>3. CASE N # 0
  <2>1. N \in 1..N /\ N \in Nat \ {0}
    BY <1>3
  <2>2. Len(seqs) = N
    BY <1>1
  <2>3. PICK f : FlatParts(S, seqs, f)
    BY <2>1, <2>2, FlattenIs
  <2>4. QED
    BY <2>1, <2>2, <2>3 DEF FlatParts
<1>4. QED
  BY <1>2, <1>3

------------------------------------------------------------------------------

\* A stock bound to be enforced is at a stage where stock may be kept.
Slb == {b \in [mat : Materials, per : Periods] : CanStock(b.mat, b.per)}

SlbStep(p, i, rest) ==
  IF CanStock(p, i - 1) /\ StockSLB[p][i - 1] > 0
  THEN Append(rest, [mat |-> p, per |-> i - 1]) ELSE rest

SlbSteps(p, f) ==
  [i \in 0..NPeriods |-> IF i = 0 THEN <<>> ELSE SlbStep(p, i, f[i - 1])]

LEMMA SlbsOfDef ==
  ASSUME NEW p
  PROVE  SlbsOf(p) = (CHOOSE f : f = SlbSteps(p, f))[NPeriods]
  BY DEF SlbsOf, SlbSteps, SlbStep

LEMMA SlbsOfIs ==
  ASSUME NEW p
  PROVE  \E f : /\ f[NPeriods] = SlbsOf(p)
                /\ f[0] = <<>>
                /\ \A i \in 1..NPeriods : f[i] = SlbStep(p, i, f[i - 1])
                /\ \A i \in 0..NPeriods : f[i] \in Seq(Slb)
<1>1. PICK N : N = NPeriods
  OBVIOUS
<1>2. N \in Nat
  BY <1>1, NumberOfPeriods
<1>3. ASSUME NEW i \in 1..N, NEW l \in Seq(Slb)
      PROVE  SlbStep(p, i, l) \in Seq(Slb)
  <2>1. CASE CanStock(p, i - 1)
    <3>1. p \in Materials /\ i - 1 \in Periods
      BY <1>1, <1>2, <2>1, NumberOfPeriods DEF CanStock
    <3>2. [mat |-> p, per |-> i - 1] \in Slb
      BY <2>1, <3>1 DEF Slb
    <3>3. Append(l, [mat |-> p, per |-> i - 1]) \in Seq(Slb)
      BY <3>2, AppendProperties
    <3>4. QED
      BY <3>3 DEF SlbStep
  <2>2. CASE ~CanStock(p, i - 1)
    BY <2>2 DEF SlbStep
  <2>3. QED
    BY <2>1, <2>2
<1>4. PICK F : F = [x \in (1..N) \X Seq(Slb) |-> SlbStep(p, x[1], x[2])]
  OBVIOUS
<1>5. \A i \in 1..N, l \in Seq(Slb) : F[<<i, l>>] = SlbStep(p, i, l)
  BY <1>4
<1>6. F \in [(1..N) \X Seq(Slb) -> Seq(Slb)]
  <2>1. \A x \in (1..N) \X Seq(Slb) : SlbStep(p, x[1], x[2]) \in Seq(Slb)
    BY <1>3
  <2>2. QED
    BY <1>4, <2>1
<1>7. <<>> \in Seq(Slb)
  OBVIOUS
<1>8. PICK g : GoesUp(N, Seq(Slb), <<>>, F, g)
  BY <1>2, <1>6, <1>7, RecursionUp
<1>9. \A i \in 1..N : g[i] = SlbStep(p, i, g[i - 1]) /\ g[i - 1] \in Seq(Slb)
  <2>1. \A i \in 1..N : g[i - 1] \in Seq(Slb)
    BY <1>2, <1>8 DEF GoesUp
  <2>2. QED
    BY <1>5, <1>8, <2>1 DEF GoesUp
<1>10. g = SlbSteps(p, g)
  BY <1>1, <1>2, <1>8, <1>9 DEF SlbSteps, GoesUp
<1>11. PICK f : f = SlbSteps(p, f) /\ SlbsOf(p) = f[N]
  BY <1>1, <1>10, SlbsOfDef
<1>12. f[0] = <<>> /\ \A i \in 1..N : f[i] = SlbStep(p, i, f[i - 1])
  BY <1>1, <1>2, <1>11 DEF SlbSteps
<1>13. \A i \in 0..N : f[i] \in Seq(Slb)
  <2> DEFINE bad == {i \in 0..N : f[i] \notin Seq(Slb)}
  <2> SUFFICES ASSUME bad # {} PROVE FALSE
    OBVIOUS
  <2>1. bad \in SUBSET Nat
    BY <1>2
  <2>2. PICK i \in bad : \A j \in bad : i <= j
    BY <2>1, NatMin
  <2>3. i # 0
    BY <1>7, <1>12, <2>2
  <2>4. i \in 1..N /\ i - 1 \in 0..N /\ ~(i <= i - 1)
    BY <1>2, <2>2, <2>3
  <2>5. f[i - 1] \in Seq(Slb)
    BY <2>2, <2>4
  <2>6. QED
    BY <1>3, <1>12, <2>2, <2>4, <2>5
<1>14. QED
  BY <1>1, <1>11, <1>12, <1>13

LEMMA SlbsAreStocked ==
  FlattenSeq([i \in DOMAIN SlbOrder |-> SlbsOf(SlbOrder[i])]) \in Seq(Slb)
<1>1. PICK seqs : seqs = [i \in DOMAIN SlbOrder |-> SlbsOf(SlbOrder[i])]
  OBVIOUS
<1>2. SlbOrder \in Seq(Parts)
  <2>1. SortedParts \in Seq(Parts) /\ Len(SortedParts) \in Nat
    BY PartsAssumption
  <2>2. Reverse(SortedParts) \in [1..Len(SortedParts) -> Parts]
    BY <2>1 DEF Reverse
  <2>3. Reverse(SortedParts) \in Seq(Parts)
    BY <2>1, <2>2
  <2>4. QED
    BY <2>1, <2>3 DEF SlbOrder
<1>3. \A p : SlbsOf(p) \in Seq(Slb)
  <2>1. NPeriods \in 0..NPeriods
    BY NumberOfPeriods
  <2>2. QED
    BY <2>1, SlbsOfIs
<1>4. seqs \in [1..Len(SlbOrder) -> Seq(Slb)]
  BY <1>1, <1>2, <1>3
<1>5. seqs \in Seq(Seq(Slb))
  BY <1>2, <1>4
<1>6. QED
  BY <1>1, <1>5, FlattenType

------------------------------------------------------------------------------

\* What may be made in any of the periods to try is there when it is needed.
LEMMA PeriodsToTryReach ==
  ASSUME NEW d \in Demands, NEW t \in Periods
  PROVE  \A i \in DOMAIN PeriodsToTry(d, t) :
           Reaches(DemandedPart[d], PeriodsToTry(d, t)[i], t)
<1>1. t \in Nat /\ t <= NPeriods - 1
  BY NumberOfPeriods
<1>2. PICK ahead \in Nat : ahead = BuildAheadUB[d][t]
  BY DemandsAssumption
<1>3. PICK earliest : earliest = Max({0, t - ahead})
  OBVIOUS
<1>4. PICK x \in Int : x = t - ahead
  BY <1>1
<1>5. earliest \in Nat /\ earliest <= t
  <2>1. earliest \in Nat /\ earliest = IF x <= 0 THEN 0 ELSE x
    BY <1>3, <1>4, NetMax
  <2>2. QED
    BY <1>1, <1>4, <2>1
<1>6. PICK able : able = {u \in earliest..t :
                            \A v \in u..(t - 1) : CanStock(DemandedPart[d], v)}
  OBVIOUS
<1>7. able \in SUBSET Nat /\ t \in able
  BY <1>1, <1>5, <1>6
<1>8. PICK firstPer : firstPer = Min(able)
  OBVIOUS
<1>9. firstPer \in able /\ firstPer \in Nat /\ firstPer <= t
  BY <1>7, <1>8, MinOfNats
<1>10. PICK n \in Nat : n = t - firstPer + 1
  BY <1>1, <1>9
<1>11. PICK up : up = [i \in 1..n |-> firstPer + i - 1]
  OBVIOUS
<1>12. \A i \in 1..n : firstPer + i - 1 \in Periods /\ n - i + 1 \in 1..n
  BY <1>1, <1>9, <1>10, NumberOfPeriods
<1>13. ASSUME NEW i \in 1..n PROVE Reaches(DemandedPart[d], up[i], t)
  <2>1. up[i] = firstPer + i - 1 /\ up[i] \in Periods /\ firstPer <= up[i] /\ up[i] <= t
    BY <1>1, <1>9, <1>10, <1>11, <1>12
  <2>2. \A v \in firstPer..(t - 1) : CanStock(DemandedPart[d], v)
    BY <1>6, <1>9
  <2>3. ASSUME NEW v \in up[i]..(t - 1) PROVE CanStock(DemandedPart[d], v)
    <3>1. up[i] \in Int /\ t - 1 \in Int
      BY <1>1, <1>9, <2>1
    <3>2. v \in firstPer..(t - 1)
      BY <1>1, <1>9, <2>1, <3>1
    <3>3. QED
      BY <2>2, <3>2
  <2>4. QED
    BY <2>1, <2>3 DEF Reaches
<1>14. up \in Seq(Periods) /\ Len(up) = n
  <2>1. up \in [1..n -> Periods]
    BY <1>11, <1>12
  <2>2. QED
    BY <2>1
<1>15. DOMAIN up = 1..n /\ DOMAIN Reverse(up) = 1..n
       /\ \A i \in 1..n : Reverse(up)[i] = up[n - i + 1]
  BY <1>11, <1>14 DEF Reverse
<1>16. PeriodsToTry(d, t) = IF d \in PrefBuildAhead THEN up ELSE Reverse(up)
  BY <1>2, <1>3, <1>6, <1>8, <1>10, <1>11 DEF PeriodsToTry
<1>17. QED
  BY <1>12, <1>13, <1>15, <1>16

------------------------------------------------------------------------------

TodoReaches ==
  \A i \in DOMAIN call.todo : Reaches(CallPart, call.todo[i], call.per)

\* What a call asks for, and what a commit tries to make for it in time.
CallMeans ==
  /\ slbs \in Seq(Slb)
  /\ pc \in InCall => TodoReaches
  /\ pc \in Trying => top.part = CallPart /\ Reaches(CallPart, top.per, call.per)
  /\ call.kind = "slb" => slbs # <<>> /\ slbs[1].per = call.per
  /\ pc \in Executing => frame.bomIdx \in Nat \ {0}

LEMMA FrameIndexOfFill ==
  ASSUME FrameOK, FillStep PROVE pc' \in Executing => frame'.bomIdx \in Nat \ {0}
<1>1. ASSUME NEW e, NEW t, ExplodeBopEnt(e, t) PROVE frame'.bomIdx = 1
  <2>1. frame' = [frame EXCEPT !.bop = e, !.execPer = t,
                               !.delta = FrameDelta(OpnOf[e], t), !.bomIdx = 1]
    BY <1>1 DEF ExplodeBopEnt
  <2>2. QED
    BY SMTT(30), <2>1 DEF FrameOK, NoFrame
<1>2. \/ \E e, t : ExplodeBopEnt(e, t)
      \/ pc' \notin Executing
  BY DEF FillStep, NetReq, NetAndRollReq, Netted, AllFilled, CannotExplode, Executing
<1>3. QED
  BY <1>1, <1>2

LEMMA FrameIndexOfExplode ==
  ASSUME FrameOK, ExplodeStep, frame.bomIdx \in Nat \ {0}
  PROVE  pc' \in Executing => frame'.bomIdx \in Nat \ {0}
<1> USE DEF FrameOK, NoFrame
<1>1. ASSUME frame' = NextBomEntry PROVE frame'.bomIdx \in Nat \ {0}
  BY <1>1 DEF NextBomEntry
<1>2. ASSUME NEW net, NettedTo(net) PROVE frame'.bomIdx \in Nat \ {0}
  <2>1. \/ frame' = NextBomEntry
        \/ frame' = [frame EXCEPT !.net = net]
        \/ frame' = [frame EXCEPT !.net = net, !.subIdx = @ + 1]
    BY <1>2 DEF NettedTo
  <2>2. QED
    BY <1>1, <2>1
<1>3. CASE NetConsEntry
  BY <1>2, <1>3 DEF NetConsEntry
<1>4. CASE NetByProductEntry
  BY <1>2, <1>4 DEF NetByProductEntry
<1>5. CASE SkipSubEntry
  BY <1>2, <1>5 DEF SkipSubEntry
<1>6. CASE BomEntryNotInEffect \/ ExplodeConsEntry
  BY <1>1, <1>6 DEF BomEntryNotInEffect, ExplodeConsEntry
<1>7. CASE ExplodeBomEntry \/ BomEntriesExploded \/ ExplodeBopEntry
  <2>1. \/ frame' = [frame EXCEPT !.net = frame.delta]
        \/ frame' = [frame EXCEPT !.bopIdx = 1]
        \/ frame' = [frame EXCEPT !.bopIdx = frame.bopIdx + 1]
    BY <1>7 DEF ExplodeBomEntry, BomEntriesExploded, ExplodeBopEntry
  <2>2. QED
    BY <2>1
<1>8. CASE UseProduct
  BY <1>8 DEF UseProduct, Executing
<1>9. QED
  BY <1>3, <1>4, <1>5, <1>6, <1>7, <1>8 DEF ExplodeStep

LEMMA CallOfCommit ==
  ASSUME FrameOK, CallMeans, FillStep \/ ExplodeStep \/ UndoStep PROVE CallMeans'
<1>1. UNCHANGED <<slbs, call, top>> /\ pc \in CommitPoints /\ pc' \in CommitPoints
  BY ZenonT(60) DEF FillStep, NetReq, NetAndRollReq, Netted, AllFilled, CannotExplode, ExplodeBopEnt,
         ExplodeStep, BomEntryNotInEffect, ExplodeBomEntry, NetConsEntry, NettedTo,
         NetByProductEntry, SkipSubEntry, ExplodeConsEntry, BomEntriesExploded,
         ExplodeBopEntry, UseProduct, UndoStep, ClearReqSched, RestoreSoln,
         CommitUnchanged, callVars, results, CommitPoints, NextReqs, PendingReqs
<1>2. CallPart' = CallPart /\ (TodoReaches <=> TodoReaches')
  BY <1>1 DEF CallPart, TodoReaches
<1>3. pc' \in Executing => frame'.bomIdx \in Nat \ {0}
  <2>1. CASE FillStep
    BY <2>1, FrameIndexOfFill
  <2>2. CASE ExplodeStep
    <3>1. pc \in Executing
      BY <2>2 DEF ExplodeStep, BomEntryNotInEffect, ExplodeBomEntry, NetConsEntry,
         NetByProductEntry, SkipSubEntry, ExplodeConsEntry, BomEntriesExploded,
         ExplodeBopEntry, UseProduct, Executing
    <3>2. QED
      BY <2>2, <3>1, FrameIndexOfExplode DEF CallMeans
  <2>3. CASE UndoStep
    BY <2>3 DEF UndoStep, ClearReqSched, RestoreSoln, Executing
  <2>4. QED
    BY <2>1, <2>2, <2>3
<1>4. pc \in Trying /\ pc \in InCall
  BY <1>1 DEF Trying, InCall
<1>5. QED
  BY SMTT(30), <1>1, <1>2, <1>3, <1>4 DEF CallMeans

LEMMA CallKept ==
  ASSUME CallMeans, UNCHANGED <<slbs, call>>, pc \in InCall, pc' \notin Executing,
         pc' \in Trying => pc \in Trying /\ top' = top
  PROVE  CallMeans'
<1>1. CallPart' = CallPart /\ (TodoReaches <=> TodoReaches')
  BY DEF CallPart, TodoReaches
<1>2. QED
  BY <1>1 DEF CallMeans

LEMMA CallOver ==
  ASSUME slbs' \in Seq(Slb), call' = NoCall, pc' \notin InCall PROVE CallMeans'
<1>1. pc' \notin Trying /\ pc' \notin Executing /\ call'.kind # "slb"
  BY DEF Trying, InCall, Executing, CommitPoints, NoCall
<1>2. QED
  BY <1>1 DEF CallMeans

LEMMA CallOfTail ==
  ASSUME CallType, CallMeans, pc \in InCall, pc' \notin Executing, slbs' = slbs,
         call.todo # <<>>, call' = [call EXCEPT !.todo = Tail(@)],
         pc' \in Trying => top' = [part |-> CallPart, per |-> Head(call.todo)]
  PROVE  CallMeans'
<1>1. PICK todo \in Seq(Periods) : todo = call.todo
  BY DEF CallType
<1>2. PICK rest : rest = Tail(todo)
  OBVIOUS
<1>3. call' = [call EXCEPT !.todo = rest] /\ todo # <<>>
  BY <1>1, <1>2
<1>4. call'.kind = call.kind /\ call'.demand = call.demand /\ call'.per = call.per
      /\ call'.todo = rest
  BY <1>3 DEF CallType
<1>5. CallPart' = CallPart
  BY <1>4 DEF CallPart
<1>6. /\ \A i \in DOMAIN rest : i + 1 \in DOMAIN todo /\ rest[i] = todo[i + 1]
      /\ 1 \in DOMAIN todo /\ Head(todo) = todo[1]
  BY <1>1, <1>2, <1>3
<1>7. \A i \in DOMAIN todo : Reaches(CallPart, todo[i], call.per)
  BY <1>1 DEF CallMeans, TodoReaches
<1>8. TodoReaches' /\ Reaches(CallPart, Head(todo), call.per)
  BY <1>4, <1>5, <1>6, <1>7 DEF TodoReaches
<1>9. ASSUME pc' \in Trying
      PROVE  top'.part = CallPart' /\ Reaches(CallPart', top'.per, call'.per)
  <2>1. top' = [part |-> CallPart, per |-> Head(todo)]
    BY <1>1, <1>9
  <2>2. QED
    BY <1>4, <1>5, <1>8, <2>1
<1>10. QED
  BY <1>4, <1>8, <1>9 DEF CallMeans

LEMMA CallOfMaxQty ==
  ASSUME Allocation, CallMeans, MaxQtyStep PROVE CallMeans'
<1>0. CallType /\ Reqs
  BY DEF Allocation, Locals
<1> USE DEF InCall, Trying, CommitPoints, Executing, callVars, results
<1>1. CASE SkipBlocked
  BY <1>0, <1>1, CallOfTail DEF SkipBlocked
<1>2. CASE CommitMaxQty
  BY <1>0, <1>2, CallOfTail DEF CommitMaxQty
<1>3. CASE TempCommit
  BY <1>3, CallKept DEF TempCommit, StartCommit
<1>4. CASE PermCommit
  BY <1>4, CallKept DEF PermCommit, StartCommit
<1>5. CASE TempCommitReturns
  <2>1. /\ pc = "return" /\ pc' \in {"perm", "cmqEnd", "try"}
        /\ UNCHANGED <<slbs, call, top>>
    BY <1>5 DEF TempCommitReturns
  <2>2. QED
    BY <2>1, CallKept
<1>6. CASE PermCommitReturns
  BY <1>6, CallKept DEF PermCommitReturns
<1>7. CASE CommitMaxQtyEnds
  BY <1>7, CallKept DEF CommitMaxQtyEnds
<1>8. CASE PostIncHeurAlloc
  BY <1>8, CallOver DEF PostIncHeurAlloc, CallMeans
<1>9. QED
  BY <1>1, <1>2, <1>3, <1>4, <1>5, <1>6, <1>7, <1>8 DEF MaxQtyStep

LEMMA CallOfOthers ==
  ASSUME Allocation, CallMeans, StockSLBStep \/ Call PROVE CallMeans'
<1>0. CallType
  BY DEF Allocation, Locals
<1> USE DEF InCall, Trying, CommitPoints, Executing, callVars, results
<1>1. ASSUME NEW d \in Demands, NEW t \in Periods, NEW v \in 1..MaxDesIncVol,
             IncHeurAlloc(d, t, v)
      PROVE  CallMeans'
  <2>1. PICK vol : vol = Min({v, DemandedIncVolUB(d, t)})
    OBVIOUS
  <2>2. PICK todo : todo = PeriodsToTry(d, t)
    OBVIOUS
  <2>3. /\ pc' = "cmq" /\ slbs' = slbs
        /\ call' = [kind |-> "inc", demand |-> d, per |-> t, vol |-> vol, todo |-> todo]
    BY <1>1, <2>1, <2>2 DEF IncHeurAlloc
  <2>4. CallPart' = DemandedPart[d] /\ call'.todo = todo /\ call'.per = t
        /\ call'.kind = "inc"
    BY <2>3 DEF CallPart
  <2>5. TodoReaches'
    BY <2>2, <2>4, PeriodsToTryReach DEF TodoReaches
  <2>6. QED
    BY <2>3, <2>4, <2>5 DEF CallMeans
<1>2. CASE FinishHeurAlloc
  <2>1. /\ slbs' = FlattenSeq([i \in DOMAIN SlbOrder |-> SlbsOf(SlbOrder[i])])
        /\ pc = "idle" /\ pc' = "slb" /\ call' = call
    BY <1>2 DEF FinishHeurAlloc
  <2>2. call = NoCall
    BY <1>0, <2>1 DEF CallType
  <2>3. QED
    BY <2>1, <2>2, SlbsAreStocked, CallOver
<1>3. CASE StartHeurAlloc \/ StockSLBsEnforced
  <2>1. call = NoCall /\ call' = call /\ slbs' = slbs /\ pc' \notin InCall
    BY <1>0, <1>3 DEF StartHeurAlloc, StockSLBsEnforced, CallType
  <2>2. QED
    BY <2>1, CallOver DEF CallMeans
<1>4. ASSUME NEW m \in Materials, NEW t \in Periods, StockSLBEnforced(m, t)
      PROVE  CallMeans'
  <2>1. call.kind = "slb" /\ slbs' = Tail(slbs) /\ call' = NoCall /\ pc' = "slb"
    BY <1>4 DEF StockSLBEnforced
  <2>2. slbs \in Seq(Slb) /\ slbs # <<>>
    BY <2>1 DEF CallMeans
  <2>3. Tail(slbs) \in Seq(Slb)
    BY <2>2
  <2>4. QED
    BY <2>1, <2>3, CallOver
<1>5. ASSUME NEW m \in Materials, NEW t \in Periods, EnforceStockSLB(m, t)
      PROVE  CallMeans'
  <2>1. /\ slbs # <<>> /\ slbs[1] = [mat |-> m, per |-> t] /\ slbs' = slbs /\ pc' = "cmq"
        /\ call' = [NoCall EXCEPT !.kind = "slb", !.per = t, !.vol = netQty',
                                  !.todo = <<t>>]
    BY <1>5 DEF EnforceStockSLB
  <2>2. call'.kind = "slb" /\ call'.per = t /\ call'.todo = <<t>>
    BY <2>1 DEF NoCall
  <2>3. CallPart' = m /\ slbs'[1].per = t
    BY <2>1, <2>2 DEF CallPart
  <2>4. Reaches(m, t, t)
    <3>1. t \in Nat
      BY NumberOfPeriods
    <3>2. QED
      BY <3>1 DEF Reaches
  <2>5. TodoReaches'
    BY <2>2, <2>3, <2>4 DEF TodoReaches
  <2>6. QED
    BY <2>1, <2>2, <2>3, <2>5 DEF CallMeans
<1>6. QED
  BY <1>1, <1>2, <1>3, <1>4, <1>5 DEF StockSLBStep, Call

LEMMA CallMeansInit == Init => CallMeans
<1> SUFFICES ASSUME Init PROVE CallMeans
  OBVIOUS
<1>1. pc = "idle" /\ call.kind = "none" /\ slbs = <<>>
  BY DEF Init, NoCall
<1>2. <<>> \in Seq(Slb)
  OBVIOUS
<1>3. QED
  BY <1>1, <1>2 DEF CallMeans, InCall, Trying, Executing, CommitPoints

LEMMA CallMeansNext == Allocation /\ CallMeans /\ [Next]_vars => CallMeans'
<1> SUFFICES ASSUME Allocation, CallMeans, [Next]_vars PROVE CallMeans'
  OBVIOUS
<1>1. CASE UNCHANGED vars
  <2>1. UNCHANGED <<slbs, call, top, pc, frame>>
    BY <1>1 DEF vars, callVars, commVars, results
  <2>2. CallPart' = CallPart /\ (TodoReaches <=> TodoReaches')
    BY <2>1 DEF CallPart, TodoReaches
  <2>3. QED
    BY <2>1, <2>2 DEF CallMeans
<1>2. CASE Next
  BY <1>2, CallOfCommit, CallOfMaxQty, CallOfOthers DEF Next, Run, Allocation
<1>3. QED
  BY <1>1, <1>2

(***************************************************************************)
(* 3. Shipments.  A call never asks for more than is in demand, so nothing *)
(* is shipped that is not.                                                 *)
(***************************************************************************)

LEMMA SumOverIs ==
  ASSUME NEW f, NEW lo, NEW hi
  PROVE  SumOver(f, lo, hi) = SumFunctionOnSet(f, lo..hi)
  BY DEF SumOver, SumFunctionOnSet

\* The bound on a further shipment, as that on what it leaves unmet.
LEMMA DemandedIs ==
  ASSUME demandVol \in [Demands -> [Periods -> Nat]],
         shipVol \in [Demands -> [Periods -> Nat]],
         NEW d \in Demands, d \in ShipLate, NEW t \in Periods
  PROVE  /\ \A u \in Periods : UnmetCumDem(d, u) \in Int
         /\ \A u \in Periods : t <= u => DemandedIncVolUB(d, t) <= UnmetCumDem(d, u)
         /\ \E u \in Periods : t <= u /\ DemandedIncVolUB(d, t) = UnmetCumDem(d, u)
<1>1. demandVol[d] \in [Periods -> Nat] /\ shipVol[d] \in [Periods -> Nat]
  OBVIOUS
<1>2. \A u \in Periods : UnmetCumDem(d, u) \in Int
  BY <1>1, SumOverIsInt DEF UnmetCumDem
<1>3. PICK T : T = {UnmetCumDem(d, u) : u \in t..(NPeriods - 1)}
  OBVIOUS
<1>4. t \in Nat /\ t <= NPeriods - 1 /\ NPeriods - 1 \in Nat
  BY NumberOfPeriods
<1>5. /\ t..(NPeriods - 1) \subseteq Periods /\ t \in t..(NPeriods - 1)
      /\ \A u \in Periods : t <= u => u \in t..(NPeriods - 1)
  BY SMTT(30), <1>4, NumberOfPeriods
<1>6. IsFiniteSet(t..(NPeriods - 1))
  BY <1>4, FS_Interval
<1>7. PICK f : f = [u \in t..(NPeriods - 1) |-> UnmetCumDem(d, u)]
  OBVIOUS
<1>8. f \in Surjection(t..(NPeriods - 1), T)
  BY <1>3, <1>7 DEF Surjection
<1>9. IsFiniteSet(T)
  BY <1>6, <1>8, FS_Surjection
<1>10. T \in SUBSET Int /\ T # {}
  BY <1>2, <1>3, <1>5
<1>11. Min(T) \in T /\ \A y \in T : Min(T) <= y
  BY <1>9, <1>10, MinFacts
<1>12. DemandedIncVolUB(d, t) = Min(T)
  BY <1>3 DEF DemandedIncVolUB
<1>13. PICK u \in t..(NPeriods - 1) : Min(T) = UnmetCumDem(d, u)
  BY <1>3, <1>11
<1>14. u \in Periods /\ t <= u
  BY <1>4, <1>5, <1>13
<1>15. ASSUME NEW w \in Periods, t <= w PROVE Min(T) <= UnmetCumDem(d, w)
  <2>1. UnmetCumDem(d, w) \in T
    BY <1>3, <1>5, <1>15
  <2>2. QED
    BY <1>11, <2>1
<1>16. QED
  BY <1>2, <1>12, <1>13, <1>14, <1>15

\* What a call asks for is still in demand: nothing is shipped in between.
Asked == call.kind = "inc" => call.vol <= DemandedIncVolUB(call.demand, call.per)

ShipsDemand == ShipWithinDemand /\ Asked

\* Shipment of a volume in a period.
LEMMA UnmetChanges ==
  ASSUME demandVol \in [Demands -> [Periods -> Nat]],
         shipVol \in [Demands -> [Periods -> Nat]], demandVol' = demandVol,
         NEW d \in Demands, NEW t \in Periods, NEW k \in Int,
         shipVol' = [shipVol EXCEPT ![d][t] = shipVol[d][t] + k]
  PROVE  /\ \A u \in Periods :
              UnmetCumDem(d, u)' = UnmetCumDem(d, u) - IF t <= u THEN k ELSE 0
         /\ \A c \in Demands : c # d => shipVol'[c] = shipVol[c]
<1>1. PICK f, g : f = shipVol[d] /\ g = shipVol'[d]
  OBVIOUS
<1>2. f \in [Periods -> Nat]
  BY <1>1
<1>3. g = [f EXCEPT ![t] = f[t] + k]
  BY <1>1
<1>4. \A u \in Periods : f[u] \in Nat /\ f[u] \in Int
                         /\ g[u] = IF u = t THEN f[u] + k ELSE f[u]
  BY <1>2, <1>3
<1>5. ASSUME NEW u \in Periods
      PROVE  UnmetCumDem(d, u)' = UnmetCumDem(d, u) - IF t <= u THEN k ELSE 0
  <2>1. u \in Nat /\ 0..u \subseteq Periods /\ t \in Nat
    BY NumberOfPeriods
  <2>2. IsFiniteSet(0..u)
    BY <2>1, FS_Interval
  <2>3. \A w \in 0..u : f[w] \in Int
    BY <1>4, <2>1
  <2>4. \A w \in 0..u : g[w] = IF w = t THEN f[w] + k ELSE f[w]
    BY <1>4, <2>1
  <2>5. SumFunctionOnSet(g, 0..u) = SumFunctionOnSet(f, 0..u) + IF t \in 0..u THEN k ELSE 0
    BY ZenonT(60), <2>2, <2>3, <2>4, SumChange
  <2>6. SumOver(g, 0, u) = SumOver(f, 0, u) + IF t <= u THEN k ELSE 0
    BY <2>1, <2>5, SumOverIs
  <2>7. SumOver(f, 0, u) \in Int /\ SumOver(demandVol[d], 0, u) \in Int
    BY <1>2, SumOverIsInt
  <2>8. /\ UnmetCumDem(d, u) = SumOver(demandVol[d], 0, u) - SumOver(f, 0, u)
        /\ UnmetCumDem(d, u)' = SumOver(demandVol[d], 0, u) - SumOver(g, 0, u)
    BY <1>1 DEF UnmetCumDem
  <2>9. QED
    BY <2>6, <2>7, <2>8
<1>6. QED
  BY <1>5

LEMMA SameUB ==
  ASSUME NEW d, NEW t, demandVol' = demandVol, shipVol'[d] = shipVol[d]
  PROVE  DemandedIncVolUB(d, t)' = DemandedIncVolUB(d, t)
<1>1. \A u : UnmetCumDem(d, u)' = UnmetCumDem(d, u)
  BY DEF UnmetCumDem
<1>2. QED
  BY <1>1 DEF DemandedIncVolUB

LEMMA NothingShipped ==
  ASSUME demandVol \in [Demands -> [Periods -> Nat]],
         shipVol = [d \in Demands |-> [t \in Periods |-> 0]]
  PROVE  ShipWithinDemand
<1> SUFFICES ASSUME NEW d \in Demands, NEW t \in Periods
             PROVE  DemandedIncVolUB(d, t) >= 0
  BY DEF ShipWithinDemand
<1>0. shipVol \in [Demands -> [Periods -> Nat]]
  OBVIOUS
<1>1. ASSUME NEW u \in Periods PROVE UnmetCumDem(d, u) \in Nat
  <2>1. u \in Nat /\ 0..u \subseteq Periods
    BY NumberOfPeriods
  <2>2. IsFiniteSet(0..u)
    BY <2>1, FS_Interval
  <2>3. PICK f : f = demandVol[d]
    OBVIOUS
  <2>4. \A w \in 0..u : f[w] \in Nat
    BY <2>1, <2>3
  <2>5. SumFunctionOnSet(f, 0..u) \in Nat
    BY <2>2, <2>4, SumNat
  <2>6. PICK g : g = shipVol[d]
    OBVIOUS
  <2>7. \A w \in 0..u : g[w] = 0
    BY <2>1, <2>6
  <2>8. SumFunctionOnSet(g, 0..u) = 0
    BY <2>2, <2>7, SumZero
  <2>9. SumOver(f, 0, u) \in Nat /\ SumOver(g, 0, u) = 0
    BY <2>5, <2>8, SumOverIs
  <2>10. QED
    BY <2>3, <2>6, <2>9 DEF UnmetCumDem
<1>2. CASE d \in ShipLate
  <2>1. PICK u \in Periods : DemandedIncVolUB(d, t) = UnmetCumDem(d, u)
    BY <1>0, <1>2, DemandedIs
  <2>2. QED
    BY <1>1, <2>1
<1>3. CASE d \notin ShipLate
  BY <1>3 DEF DemandedIncVolUB
<1>4. QED
  BY <1>2, <1>3

\* The same after a step.
VolsTyped == /\ demandVol \in [Demands -> [Periods -> Nat]]
             /\ shipVol \in [Demands -> [Periods -> Nat]]

UBIsReached ==
  \A d \in Demands, t \in Periods : d \in ShipLate =>
    \E u \in Periods : t <= u /\ DemandedIncVolUB(d, t) = UnmetCumDem(d, u)

NoShipment == shipVol = [d \in Demands |-> [t \in Periods |-> 0]]

LEMMA Afterwards ==
  /\ VolsTyped' => UBIsReached'
  /\ VolsTyped' /\ NoShipment' => ShipWithinDemand'
<1>1. VolsTyped => UBIsReached
  BY DemandedIs DEF VolsTyped, UBIsReached
<1>2. VolsTyped /\ NoShipment => ShipWithinDemand
  BY NothingShipped DEF VolsTyped, NoShipment
<1>3. QED
  BY <1>1, <1>2, PTL

LEMMA ShippedStays ==
  ASSUME ShipsDemand, UNCHANGED <<demandVol, shipVol, call>> PROVE ShipsDemand'
<1>1. \A d \in Demands, t \in Periods : DemandedIncVolUB(d, t)' = DemandedIncVolUB(d, t)
  BY SameUB
<1>2. DemandedIncVolUB(call.demand, call.per)' = DemandedIncVolUB(call.demand, call.per)
  BY SameUB
<1>3. QED
  BY <1>1, <1>2 DEF ShipsDemand, ShipWithinDemand, Asked

LEMMA ShipsNext ==
  ASSUME Allocation, ShipsDemand, [Next]_vars, Allocation' PROVE ShipsDemand'
<1>0. /\ demandVol' = demandVol /\ CallType /\ demandVol \in [Demands -> [Periods -> Nat]]
      /\ shipVol \in [Demands -> [Periods -> Nat]]
      /\ shipVol' \in [Demands -> [Periods -> Nat]]
  BY InputsStay, InputsAreTyped DEF Allocation, Locals, inputs
<1>1. CASE PostIncHeurAlloc
  <2>1. PICK d \in Demands, t \in Periods : d = call.demand /\ t = call.per
    BY <1>0, <1>1 DEF CallType, PostIncHeurAlloc
  <2>2. PICK k \in Int : k = call.vol - netQty
    BY <1>0 DEF CallType
  <2>3. k \in Nat /\ k <= call.vol /\ call.vol \in Nat
    BY SMTT(30), <1>0, <2>2 DEF CallType
  <2>4. /\ shipVol' = [shipVol EXCEPT ![d][t] = shipVol[d][t] + k]
        /\ call' = NoCall /\ call.kind = "inc"
    BY <1>1, <2>1, <2>2 DEF PostIncHeurAlloc
  <2>5. /\ \A u \in Periods :
              UnmetCumDem(d, u)' = UnmetCumDem(d, u) - IF t <= u THEN k ELSE 0
        /\ \A c \in Demands : c # d => shipVol'[c] = shipVol[c]
    BY <1>0, <2>4, UnmetChanges
  <2>6. k <= DemandedIncVolUB(d, t)
    <3>1. DemandedIncVolUB(d, t) \in Int
      BY DemandedIsInt DEF Allocation
    <3>2. QED
      BY <2>1, <2>3, <2>4, <3>1 DEF ShipsDemand, Asked
  <2>7. ASSUME NEW c \in Demands, NEW u \in Periods PROVE DemandedIncVolUB(c, u)' >= 0
    <3>1. CASE c # d
      BY <1>0, <2>5, <3>1, SameUB DEF ShipsDemand, ShipWithinDemand
    <3>2. CASE c = d /\ d \in ShipLate
      <4>1. \A w \in Periods : UnmetCumDem(d, w) \in Int
        BY <1>0, <3>2, DemandedIs
      <4>2. PICK w \in Periods :
              u <= w /\ DemandedIncVolUB(d, u)' = UnmetCumDem(d, w)'
        <5>1. demandVol' \in [Demands -> [Periods -> Nat]]
          BY <1>0
        <5>2. QED
          BY <1>0, <3>2, <5>1, Afterwards DEF VolsTyped, UBIsReached
      <4>3. DemandedIncVolUB(d, w) >= 0 /\ DemandedIncVolUB(d, w) <= UnmetCumDem(d, w)
            /\ DemandedIncVolUB(d, w) \in Int
        <5>1. w <= w
          BY NumberOfPeriods
        <5>2. DemandedIncVolUB(d, w) <= UnmetCumDem(d, w)
          BY <1>0, <3>2, <5>1, DemandedIs
        <5>3. DemandedIncVolUB(d, w) \in Int
          BY DemandedIsInt DEF Allocation
        <5>4. QED
          BY <5>2, <5>3 DEF ShipsDemand, ShipWithinDemand
      <4>4. t <= w => k <= UnmetCumDem(d, w)
        <5>1. t <= w => DemandedIncVolUB(d, t) <= UnmetCumDem(d, w)
          BY <1>0, <3>2, DemandedIs
        <5>2. DemandedIncVolUB(d, t) \in Int
          BY DemandedIsInt DEF Allocation
        <5>3. QED
          BY <2>6, <4>1, <5>1, <5>2
      <4>5. UnmetCumDem(d, w)' = UnmetCumDem(d, w) - IF t <= w THEN k ELSE 0
        BY <2>5
      <4>6. UnmetCumDem(d, w)' >= 0
        BY <4>1, <4>3, <4>4, <4>5
      <4>7. QED
        BY <3>2, <4>2, <4>6
    <3>3. CASE c = d /\ d \notin ShipLate
      <4>1. PICK f, g : f = shipVol[d] /\ g = shipVol'[d]
        OBVIOUS
      <4>2. f \in [Periods -> Nat] /\ demandVol[d] \in [Periods -> Nat]
        BY <1>0, <4>1
      <4>3. g = [f EXCEPT ![t] = f[t] + k]
        BY <1>0, <2>4, <4>1
      <4>4. g[u] = IF u = t THEN f[u] + k ELSE f[u]
        BY <4>2, <4>3
      <4>5. DemandedIncVolUB(d, u) = demandVol[d][u] - f[u]
            /\ DemandedIncVolUB(d, t) = demandVol[d][t] - f[t]
            /\ DemandedIncVolUB(d, u)' = demandVol[d][u] - g[u]
        BY <1>0, <3>3, <4>1 DEF DemandedIncVolUB
      <4>6. DemandedIncVolUB(d, u) >= 0
        BY DEF ShipsDemand, ShipWithinDemand
      <4>7. f[u] \in Nat /\ demandVol[d][u] \in Nat
        BY <4>2
      <4>8. QED
        BY <2>3, <2>6, <3>3, <4>4, <4>5, <4>6, <4>7
    <3>4. QED
      BY <3>1, <3>2, <3>3
  <2>8. Asked'
    BY <2>4 DEF Asked, NoCall
  <2>9. QED
    BY <2>7, <2>8 DEF ShipsDemand, ShipWithinDemand
<1>2. CASE StartHeurAlloc
  <2>1. shipVol' = [d \in Demands |-> [t \in Periods |-> 0]] /\ call = NoCall /\ call' = call
    BY <1>0, <1>2 DEF StartHeurAlloc, callVars, CallType
  <2>2. ShipWithinDemand'
    BY <1>0, <2>1, Afterwards DEF VolsTyped, NoShipment
  <2>3. QED
    BY <2>1, <2>2 DEF ShipsDemand, Asked, NoCall
<1>3. ASSUME NEW d \in Demands, NEW t \in Periods, NEW v \in 1..MaxDesIncVol,
             IncHeurAlloc(d, t, v)
      PROVE  ShipsDemand'
  <2>1. PICK ub \in Int : ub = DemandedIncVolUB(d, t)
    BY DemandedIsInt DEF Allocation
  <2>2. PICK vol : vol = Min({v, ub})
    OBVIOUS
  <2>3. vol <= ub
    BY <2>1, <2>2, MinOfTwo
  <2>4. /\ shipVol' = shipVol
        /\ call' = [kind |-> "inc", demand |-> d, per |-> t, vol |-> vol,
                    todo |-> PeriodsToTry(d, t)]
    BY <1>3, <2>1, <2>2 DEF IncHeurAlloc, results
  <2>5. \A c \in Demands, u \in Periods : DemandedIncVolUB(c, u)' = DemandedIncVolUB(c, u)
    BY <1>0, <2>4, SameUB
  <2>6. call'.demand = d /\ call'.per = t /\ call'.vol = vol
    BY <2>4
  <2>7. DemandedIncVolUB(call.demand, call.per)' = ub
    BY <1>0, <2>1, <2>4, <2>5, <2>6
  <2>8. Asked'
    BY <2>3, <2>6, <2>7 DEF Asked
  <2>9. QED
    BY <2>5, <2>8 DEF ShipsDemand, ShipWithinDemand
<1>4. ASSUME shipVol' = shipVol, call'.kind # "inc" PROVE ShipsDemand'
  <2>1. \A d \in Demands, t \in Periods : DemandedIncVolUB(d, t)' = DemandedIncVolUB(d, t)
    BY <1>0, <1>4, SameUB
  <2>2. QED
    BY <1>4, <2>1 DEF ShipsDemand, ShipWithinDemand, Asked
<1>5. ASSUME shipVol' = shipVol, call' = [call EXCEPT !.todo = Tail(@)] PROVE ShipsDemand'
  <2>1. PICK todo : todo = Tail(call.todo)
    OBVIOUS
  <2>2. call' = [call EXCEPT !.todo = todo]
    BY <1>5, <2>1
  <2>3. call'.kind = call.kind /\ call'.demand = call.demand /\ call'.vol = call.vol
        /\ call'.per = call.per
    BY <1>0, <2>2 DEF CallType
  <2>4. \A d \in Demands, t \in Periods : DemandedIncVolUB(d, t)' = DemandedIncVolUB(d, t)
    BY <1>0, <1>5, SameUB
  <2>5. DemandedIncVolUB(call.demand, call.per)' = DemandedIncVolUB(call.demand, call.per)
    <3>1. PICK d, t : d = call.demand /\ t = call.per
      OBVIOUS
    <3>2. DemandedIncVolUB(d, t)' = DemandedIncVolUB(d, t)
      BY <1>0, <1>5, SameUB
    <3>3. QED
      BY <2>3, <3>1, <3>2
  <2>6. QED
    BY <2>3, <2>4, <2>5 DEF ShipsDemand, ShipWithinDemand, Asked
<1>6. CASE UNCHANGED <<shipVol, call>>
  BY <1>0, <1>6, ShippedStays
<1> USE DEF results, callVars
<1>7. MaxQtyStep => \/ PostIncHeurAlloc \/ UNCHANGED <<shipVol, call>>
                    \/ (shipVol' = shipVol /\ call' = [call EXCEPT !.todo = Tail(@)])
  BY SMTT(30) DEF MaxQtyStep, SkipBlocked, CommitMaxQty, TempCommit, PermCommit, StartCommit,
         TempCommitReturns, PermCommitReturns, CommitMaxQtyEnds
<1>8. FillStep \/ ExplodeStep \/ UndoStep => UNCHANGED <<shipVol, call>>
  BY DEF FillStep, NetReq, NetAndRollReq, AllFilled, CannotExplode, ExplodeBopEnt,
         ExplodeStep, BomEntryNotInEffect, ExplodeBomEntry, NetConsEntry,
         NetByProductEntry, SkipSubEntry, ExplodeConsEntry, BomEntriesExploded,
         ExplodeBopEntry, UseProduct, UndoStep, ClearReqSched, RestoreSoln,
         CommitUnchanged
<1>9. StockSLBStep => shipVol' = shipVol /\ (call'.kind # "inc" \/ call' = call)
  <2>1. ASSUME NEW m, NEW t, EnforceStockSLB(m, t) PROVE call'.kind = "slb"
    BY <2>1 DEF EnforceStockSLB, NoCall
  <2>2. StockSLBStep => shipVol' = shipVol /\ (\/ \E m, t : EnforceStockSLB(m, t)
                                               \/ call' = NoCall \/ call' = call)
    BY DEF StockSLBStep, EnforceStockSLB, StockSLBEnforced, StockSLBsEnforced
  <2>3. QED
    BY <2>1, <2>2 DEF NoCall
<1>10. FinishHeurAlloc => UNCHANGED <<shipVol, call>>
  BY DEF FinishHeurAlloc
<1>11. UNCHANGED vars => UNCHANGED <<shipVol, call>>
  BY DEF vars
<1>12. QED
  BY <1>1, <1>2, <1>3, <1>4, <1>5, <1>6, <1>7, <1>8, <1>9, <1>10, <1>11
     DEF Next, Run, Call

LEMMA ShipsInit == Init => ShipsDemand
<1> SUFFICES ASSUME Init PROVE ShipsDemand
  OBVIOUS
<1>1. demandVol \in [Demands -> [Periods -> Nat]]
  BY InputsAreTyped DEF Init, Inputs
<1>2. ShipWithinDemand
  BY <1>1, NothingShipped DEF Init
<1>3. QED
  BY <1>2 DEF ShipsDemand, Asked, Init, NoCall

(***************************************************************************)
(* 4. Executions.  How many of the executions in the solution are an       *)
(* entry's own: substitutes stand in for some of a BOM entry's, and an     *)
(* explosion under way has not come to all entries yet, though execVol has *)
(* been increased already.                                                 *)
(***************************************************************************)

LEMMA TotalOfIs ==
  ASSUME NEW f, NEW S PROVE TotalOf(f, S) = SumFunctionOnSet(f, S)
  BY DEF TotalOf, SumFunctionOnSet

\* The executions for which each entry has supplied or consumed, according
\* to a solution: those that a substitute stands in for are its own.
SubVols(mem, b, u) == [i \in DOMAIN Subs[b] |-> mem[SubLoc(Subs[b][i], u)]]

NonSub(mem, b, u) ==
  mem[ExecLoc(OpnOf[b], u)] - SumFunctionOnSet(SubVols(mem, b, u), DOMAIN Subs[b])

Count(mem, e, u) ==
  IF e \in BopEntries THEN mem[ExecLoc(OpnOf[e], u)]
  ELSE IF e \in BomEntries THEN NonSub(mem, e, u)
  ELSE mem[SubLoc(e, u)]

\* What n executions add to the part of an entry.
Volume(e, n) == IF e \in BopEntries THEN Rate[e] * n ELSE -(Rate[e] * n)

LEMMA VolumeIs ==
  ASSUME NEW e \in Entries, NEW n \in Int, NEW k \in Int
  PROVE  /\ Volume(e, n) \in Int
         /\ Volume(e, n + k) = Volume(e, n) + Volume(e, k)
         /\ Volume(e, 0) = 0
<1>1. PICK r \in Int : r = Rate[e]
  BY BillsAssumption
<1>2. r * n \in Int /\ r * k \in Int /\ r * (n + k) = r * n + r * k /\ r * 0 = 0
  OBVIOUS
<1>3. PICK x, y \in Int : x = r * n /\ y = r * k
  BY <1>2
<1>4. -(x + y) = -x + -y /\ -x \in Int
  BY <1>3
<1>5. -0 = 0
  BY MinusZero
<1>6. QED
  BY <1>1, <1>2, <1>3, <1>4, <1>5 DEF Volume

LEMMA SolnVars ==
  /\ \A o \in Operations, u \in Periods : ExecLoc(o, u) \in SolnLocs
  /\ \A c \in SubEntries, u \in Periods : SubLoc(c, u) \in SolnLocs
  /\ \A p \in Parts, u \in Periods : AvailLoc(p, u) \in SolnLocs
  /\ \A o, u : ExecLoc(o, u)[2] = "execVol"
  /\ \A c, u : SubLoc(c, u)[2] = "subVol"
  /\ \A p, u : AvailLoc(p, u)[2] = "incAvailVol"
  /\ \A o, u, o2, u2 : ExecLoc(o, u) = ExecLoc(o2, u2) => o = o2 /\ u = u2
  /\ \A o, u, o2, u2 : SubLoc(o, u) = SubLoc(o2, u2) => o = o2 /\ u = u2
<1>1. \A o, u, o2, u2 : ExecLoc(o, u) = ExecLoc(o2, u2) => o = o2 /\ u = u2
  BY DEF ExecLoc
<1>2. \A o, u, o2, u2 : SubLoc(o, u) = SubLoc(o2, u2) => o = o2 /\ u = u2
  BY DEF SubLoc
<1>3. /\ \A o, u : ExecLoc(o, u)[2] = "execVol"
      /\ \A c, u : SubLoc(c, u)[2] = "subVol"
      /\ \A p, u : AvailLoc(p, u)[2] = "incAvailVol"
  BY DEF ExecLoc, SubLoc, AvailLoc
<1>4. /\ \A o \in Operations, u \in Periods : ExecLoc(o, u) \in SolnLocs
      /\ \A c \in SubEntries, u \in Periods : SubLoc(c, u) \in SolnLocs
      /\ \A p \in Parts, u \in Periods : AvailLoc(p, u) \in SolnLocs
  BY DEF SolnLocs
<1>5. QED
  BY <1>1, <1>2, <1>3, <1>4

LEMMA SubsAre ==
  ASSUME NEW b \in BomEntries
  PROVE  /\ Subs[b] \in Seq(SubEntries) /\ IsFiniteSet(DOMAIN Subs[b])
         /\ \A i \in DOMAIN Subs[b] : Subs[b][i] \in SubEntries
         /\ \A i, j \in DOMAIN Subs[b] : Subs[b][i] = Subs[b][j] => i = j
         /\ \A c \in BomEntries : c # b => \A i \in DOMAIN Subs[b], j \in DOMAIN Subs[c] :
              Subs[b][i] # Subs[c][j]
<1>1. Subs[b] \in Seq(SubEntries) /\ \A c \in BomEntries : Subs[c] \in Seq(SubEntries)
  BY BillsAssumption
<1>2. IsFiniteSet(DOMAIN Subs[b])
  <2>1. DOMAIN Subs[b] = 1..Len(Subs[b]) /\ Len(Subs[b]) \in Nat
    BY <1>1
  <2>2. QED
    BY <2>1, FS_Interval
<1>3. \A i \in DOMAIN Subs[b] : Subs[b][i] \in SubEntries
  BY <1>1
<1>4. \A i, j \in DOMAIN Subs[b] : Subs[b][i] = Subs[b][j] => i = j
  BY EntriesAssumption DEF IsInjective
<1>5. ASSUME NEW c \in BomEntries, c # b, NEW i \in DOMAIN Subs[b], NEW j \in DOMAIN Subs[c]
      PROVE  Subs[b][i] # Subs[c][j]
  <2>1. ToSet(Subs[b]) \cap ToSet(Subs[c]) = {}
    BY <1>5, EntriesAssumption
  <2>2. Subs[b][i] \in ToSet(Subs[b]) /\ Subs[c][j] \in ToSet(Subs[c])
    BY <1>1, <1>5, SeqElements
  <2>3. QED
    BY <2>1, <2>2
<1>6. QED
  BY <1>1, <1>2, <1>3, <1>4, <1>5

LEMMA EntriesAre ==
  ASSUME NEW e \in Entries
  PROVE  /\ OpnOf[e] \in Operations
         /\ e \in BopEntries \/ e \in BomEntries \/ e \in SubEntries
         /\ e \in BomEntries => e \notin BopEntries /\ e \notin SubEntries
         /\ e \in SubEntries => e \notin BopEntries /\ e \notin BomEntries
         /\ e \in BopEntries => e \notin BomEntries /\ e \notin SubEntries
  BY BillsAssumption, EntriesAssumption DEF Entries

LEMMA CountIsInt ==
  ASSUME NEW mem, IntMem(mem), NEW u \in Periods
  PROVE  /\ \A e \in Entries : Count(mem, e, u) \in Int
         /\ \A b \in BomEntries : \A i \in DOMAIN Subs[b] : SubVols(mem, b, u)[i] \in Int
         /\ \A b \in BomEntries :
              SumFunctionOnSet(SubVols(mem, b, u), DOMAIN Subs[b]) \in Int
<1>1. \A o \in Operations : mem[ExecLoc(o, u)] \in Int
  BY SolnVars DEF IntMem
<1>2. \A c \in SubEntries : mem[SubLoc(c, u)] \in Int
  BY SolnVars DEF IntMem
<1>3. ASSUME NEW b \in BomEntries, NEW i \in DOMAIN Subs[b]
      PROVE  SubVols(mem, b, u)[i] \in Int
  BY <1>2, SubsAre DEF SubVols
<1>4. ASSUME NEW b \in BomEntries
      PROVE  SumFunctionOnSet(SubVols(mem, b, u), DOMAIN Subs[b]) \in Int
  BY <1>3, SubsAre, SumFacts DEF SumFact
<1>5. ASSUME NEW e \in Entries PROVE Count(mem, e, u) \in Int
  <2>1. OpnOf[e] \in Operations /\ mem[ExecLoc(OpnOf[e], u)] \in Int
    BY <1>1, EntriesAre
  <2>2. CASE e \in BopEntries
    BY <2>1, <2>2 DEF Count
  <2>3. CASE e \in BomEntries
    BY <1>4, <2>1, <2>3 DEF Count, NonSub
  <2>4. CASE e \in SubEntries
    BY <1>2, <2>4, EntriesAre DEF Count
  <2>5. QED
    BY <2>2, <2>3, <2>4, EntriesAre
<1>6. QED
  BY <1>3, <1>4, <1>5

\* Executions and substitutions are the same.
SameVols(mem, next) ==
  \A loc \in SolnLocs : loc[2] \in {"execVol", "subVol"} => next[loc] = mem[loc]

LEMMA CountSame ==
  ASSUME NEW mem, NEW next, SameVols(mem, next), NEW u \in Periods, NEW e \in Entries
  PROVE  Count(next, e, u) = Count(mem, e, u)
<1>1. \A o \in Operations : next[ExecLoc(o, u)] = mem[ExecLoc(o, u)]
  BY SolnVars DEF SameVols
<1>2. \A c \in SubEntries : next[SubLoc(c, u)] = mem[SubLoc(c, u)]
  BY SolnVars DEF SameVols
<1>3. \A b \in BomEntries : SubVols(next, b, u) = SubVols(mem, b, u)
  BY <1>2, SubsAre DEF SubVols
<1>4. QED
  BY <1>1, <1>2, <1>3, EntriesAre DEF Count, NonSub

WithExec(mem, o, u, vol) == [mem EXCEPT ![ExecLoc(o, u)] = mem[ExecLoc(o, u)] + vol]

LEMMA CountOfExec ==
  ASSUME NEW mem, IntMem(mem), NEW o \in Operations, NEW t \in Periods, NEW delta \in Int,
         NEW next, next = WithExec(mem, o, t, delta),
         NEW e \in Entries, NEW u \in Periods
  PROVE  Count(next, e, u) =
           Count(mem, e, u) + IF e \notin SubEntries /\ OpnOf[e] = o /\ u = t
                              THEN delta ELSE 0
<1>1. /\ DOMAIN mem = SolnLocs /\ ExecLoc(o, t) \in SolnLocs
      /\ \A loc \in SolnLocs : mem[loc] \in Int
  BY SolnVars DEF IntMem
<1>2. \A loc \in SolnLocs :
        next[loc] = IF loc = ExecLoc(o, t) THEN mem[loc] + delta ELSE mem[loc]
  BY <1>1 DEF WithExec
<1>3. \A q \in Operations : /\ mem[ExecLoc(q, u)] \in Int
                            /\ next[ExecLoc(q, u)] =
                                 mem[ExecLoc(q, u)] + IF q = o /\ u = t THEN delta ELSE 0
  BY <1>1, <1>2, SolnVars
<1>4. \A c \in SubEntries : next[SubLoc(c, u)] = mem[SubLoc(c, u)]
  <2>1. \A c \in SubEntries : SubLoc(c, u) \in SolnLocs /\ SubLoc(c, u) # ExecLoc(o, t)
    BY SolnVars DEF SubLoc, ExecLoc
  <2>2. QED
    BY <1>2, <2>1
<1>5. CASE e \in BopEntries
  BY <1>3, <1>5, EntriesAre DEF Count
<1>6. CASE e \in BomEntries
  <2>1. SubVols(next, e, u) = SubVols(mem, e, u)
    BY <1>4, <1>6, SubsAre DEF SubVols
  <2>2. SumFunctionOnSet(SubVols(mem, e, u), DOMAIN Subs[e]) \in Int
    BY <1>6, CountIsInt
  <2>3. OpnOf[e] \in Operations /\ e \notin BopEntries /\ e \notin SubEntries
    BY <1>6, EntriesAre
  <2>4. QED
    BY <1>3, <1>6, <2>1, <2>2, <2>3 DEF Count, NonSub
<1>7. CASE e \in SubEntries
  <2>1. mem[SubLoc(e, u)] \in Int
    BY <1>1, <1>7, SolnVars
  <2>2. QED
    BY <1>4, <1>7, <2>1, EntriesAre DEF Count
<1>8. QED
  BY <1>5, <1>6, <1>7, EntriesAre

WithSub(mem, c, u, vol) == [mem EXCEPT ![SubLoc(c, u)] = mem[SubLoc(c, u)] + vol]

LEMMA CountOfSub ==
  ASSUME NEW mem, IntMem(mem), NEW b \in BomEntries, NEW i \in DOMAIN Subs[b],
         NEW c, c = Subs[b][i], NEW t \in Periods, NEW vol \in Int,
         NEW next, next = WithSub(mem, c, t, vol),
         NEW e \in Entries, NEW u \in Periods
  PROVE  Count(next, e, u) =
           Count(mem, e, u) + IF e = c /\ u = t THEN vol
                              ELSE IF e = b /\ u = t THEN -vol ELSE 0
<1>0. c \in SubEntries /\ c \notin BomEntries /\ c \notin BopEntries
  <2>1. c \in SubEntries
    BY SubsAre
  <2>2. QED
    BY <2>1, EntriesAre DEF Entries
<1>1. /\ DOMAIN mem = SolnLocs /\ SubLoc(c, t) \in SolnLocs
      /\ \A loc \in SolnLocs : mem[loc] \in Int
  BY <1>0, SolnVars DEF IntMem
<1>2. \A loc \in SolnLocs :
        next[loc] = IF loc = SubLoc(c, t) THEN mem[loc] + vol ELSE mem[loc]
  BY <1>1 DEF WithSub
<1>3. \A d \in SubEntries : /\ mem[SubLoc(d, u)] \in Int
                            /\ next[SubLoc(d, u)] =
                                 mem[SubLoc(d, u)] + IF d = c /\ u = t THEN vol ELSE 0
  BY <1>1, <1>2, SolnVars
<1>4. \A o \in Operations : next[ExecLoc(o, u)] = mem[ExecLoc(o, u)]
                            /\ mem[ExecLoc(o, u)] \in Int
  <2>1. \A o \in Operations : ExecLoc(o, u) \in SolnLocs /\ SubLoc(c, t) # ExecLoc(o, u)
    BY SolnVars DEF SubLoc, ExecLoc
  <2>2. QED
    BY <1>1, <1>2, <2>1
<1>5. CASE e \in BopEntries
  <2>1. mem[ExecLoc(OpnOf[e], u)] \in Int /\ e # c /\ e # b
    BY <1>0, <1>4, <1>5, EntriesAre
  <2>2. QED
    BY <1>4, <1>5, <2>1, EntriesAre DEF Count
<1>6. CASE e \in BomEntries
  <2>1. PICK f, g, S : f = SubVols(mem, e, u) /\ g = SubVols(next, e, u) /\ S = DOMAIN Subs[e]
    OBVIOUS
  <2>2. IsFiniteSet(S) /\ \A j \in S : f[j] \in Int
    BY <1>6, <2>1, CountIsInt, SubsAre
  <2>3. OpnOf[e] \in Operations /\ e \notin BopEntries /\ e \notin SubEntries /\ e # c
    BY <1>0, <1>6, EntriesAre
  <2>4. SumFunctionOnSet(f, S) \in Int
    BY <2>2, SumFacts DEF SumFact
  <2>5. CASE e = b /\ u = t
    <3>1. \A j \in S : g[j] = IF j = i THEN f[j] + vol ELSE f[j]
      <4>1. ASSUME NEW j \in S PROVE g[j] = IF j = i THEN f[j] + vol ELSE f[j]
        <5>1. Subs[e][j] \in SubEntries /\ (Subs[e][j] = c <=> j = i)
          BY <1>6, <2>1, <2>5, SubsAre
        <5>2. f[j] = mem[SubLoc(Subs[e][j], u)] /\ g[j] = next[SubLoc(Subs[e][j], u)]
          BY <2>1 DEF SubVols
        <5>3. QED
          BY <1>3, <2>2, <2>5, <5>1, <5>2
      <4>2. QED
        BY <4>1
    <3>2. i \in S
      BY <2>1, <2>5
    <3>3. SumFunctionOnSet(g, S) = SumFunctionOnSet(f, S) + IF i \in S THEN vol ELSE 0
      BY <2>2, <3>1, SumChange
    <3>4. QED
      BY <1>4, <1>6, <2>1, <2>3, <2>4, <2>5, <3>2, <3>3 DEF Count, NonSub
  <2>6. CASE ~(e = b /\ u = t)
    <3>1. ASSUME NEW j \in S PROVE g[j] = f[j]
      <4>1. Subs[e][j] \in SubEntries /\ ~(Subs[e][j] = c /\ u = t)
        BY <1>6, <2>1, <2>6, SubsAre
      <4>2. f[j] = mem[SubLoc(Subs[e][j], u)] /\ g[j] = next[SubLoc(Subs[e][j], u)]
        BY <2>1 DEF SubVols
      <4>3. mem[SubLoc(Subs[e][j], u)] \in Int
        BY <1>3, <4>1
      <4>4. QED
        BY <1>3, <4>1, <4>2, <4>3
    <3>2. SumFunctionOnSet(g, S) = SumFunctionOnSet(f, S)
      BY <2>2, <3>1, SumSame
    <3>3. QED
      BY <1>4, <1>6, <2>1, <2>3, <2>4, <2>6, <3>2 DEF Count, NonSub
  <2>7. QED
    BY <2>5, <2>6
<1>7. CASE e \in SubEntries
  <2>1. e # b /\ e \notin BopEntries /\ e \notin BomEntries
    BY <1>7, EntriesAre
  <2>2. QED
    BY <1>3, <1>7, <2>1 DEF Count
<1>8. QED
  BY <1>5, <1>6, <1>7, EntriesAre

------------------------------------------------------------------------------

\* What an explosion that has reached point pt with local variables fr has
\* still to do for each entry of the operation that it executes.
OpnIn(fr) == OpnOf[fr.bop]

AtBom(fr) == Bom[OpnIn(fr)][fr.bomIdx]

BomToSee(pt, fr, b) ==
  \E k \in DOMAIN Bom[OpnIn(fr)] :
     Bom[OpnIn(fr)][k] = b /\ (k > fr.bomIdx \/ (k = fr.bomIdx /\ pt = "bom"))

BopToSee(pt, fr, e) ==
  \E k \in DOMAIN Bop[OpnIn(fr)] :
     Bop[OpnIn(fr)][k] = e /\ (pt = "bop" => k >= fr.bopIdx)

UnseenIn(pt, fr, e) ==
  IF e \in BopEntries THEN IF BopToSee(pt, fr, e) THEN fr.delta ELSE 0
  ELSE IF e \in BomEntries /\ pt # "bop"
  THEN IF BomToSee(pt, fr, e) THEN fr.delta
       ELSE IF pt \in {"net", "cons"} /\ e = AtBom(fr) THEN fr.net ELSE 0
  ELSE 0

Scanning == {"bom", "net", "cons"}

LEMMA BillsAre ==
  ASSUME NEW o \in Operations
  PROVE  /\ Bom[o] \in Seq(BomEntries) /\ Bop[o] \in Seq(BopEntries)
         /\ \A k \in DOMAIN Bom[o] : Bom[o][k] \in BomEntries /\ k \in Nat \ {0} /\ OpnOf[Bom[o][k]] = o
         /\ \A k \in DOMAIN Bop[o] : Bop[o][k] \in BopEntries /\ k \in Nat \ {0} /\ OpnOf[Bop[o][k]] = o
         /\ \A k, l \in DOMAIN Bom[o] : Bom[o][k] = Bom[o][l] => k = l
         /\ \A k, l \in DOMAIN Bop[o] : Bop[o][k] = Bop[o][l] => k = l
         /\ \A n \in Nat \ {0} : n \notin DOMAIN Bom[o] => \A k \in DOMAIN Bom[o] : k < n
         /\ \A n \in Nat \ {0} : n \notin DOMAIN Bop[o] => \A k \in DOMAIN Bop[o] : k < n
<1>1. Bom[o] \in Seq(BomEntries) /\ Bop[o] \in Seq(BopEntries)
  BY BillsAssumption
<1>2. /\ \A k, l \in DOMAIN Bom[o] : Bom[o][k] = Bom[o][l] => k = l
      /\ \A k, l \in DOMAIN Bop[o] : Bop[o][k] = Bop[o][l] => k = l
  BY EntriesAssumption DEF IsInjective
<1>3. ASSUME NEW k \in DOMAIN Bom[o]
      PROVE  Bom[o][k] \in BomEntries /\ k \in Nat \ {0} /\ OpnOf[Bom[o][k]] = o
  <2>1. Bom[o][k] \in ToSet(Bom[o]) /\ Bom[o][k] \in BomEntries /\ k \in 1..Len(Bom[o])
    BY <1>1, SeqElements
  <2>2. QED
    BY <1>1, <2>1, EntriesAssumption
<1>4. ASSUME NEW k \in DOMAIN Bop[o]
      PROVE  Bop[o][k] \in BopEntries /\ k \in Nat \ {0} /\ OpnOf[Bop[o][k]] = o
  <2>1. Bop[o][k] \in ToSet(Bop[o]) /\ Bop[o][k] \in BopEntries /\ k \in 1..Len(Bop[o])
    BY <1>1, SeqElements
  <2>2. QED
    BY <1>1, <2>1, EntriesAssumption
<1>5. \A n \in Nat \ {0} : n \notin DOMAIN Bom[o] => \A k \in DOMAIN Bom[o] : k < n
  BY <1>1
<1>6. \A n \in Nat \ {0} : n \notin DOMAIN Bop[o] => \A k \in DOMAIN Bop[o] : k < n
  BY <1>1
<1>7. QED
  BY <1>1, <1>2, <1>3, <1>4, <1>5, <1>6

LEMMA EntryIsListed ==
  ASSUME NEW e \in Entries
  PROVE  /\ e \in BomEntries => \E k \in DOMAIN Bom[OpnOf[e]] : Bom[OpnOf[e]][k] = e
         /\ e \in BopEntries => \E k \in DOMAIN Bop[OpnOf[e]] : Bop[OpnOf[e]][k] = e
<1>1. /\ e \in BomEntries => e \in ToSet(Bom[OpnOf[e]])
      /\ e \in BopEntries => e \in ToSet(Bop[OpnOf[e]])
  BY EntriesAssumption
<1>2. QED
  BY <1>1 DEF ToSet

SameRun(fr, fr2) == fr2.bop = fr.bop /\ fr2.delta = fr.delta

LEMMA UnseenAtBom ==
  ASSUME NEW fr, OpnIn(fr) \in Operations, fr.bomIdx \in DOMAIN Bom[OpnIn(fr)]
  PROVE  /\ AtBom(fr) \in BomEntries /\ AtBom(fr) \notin BopEntries /\ AtBom(fr) \notin SubEntries
         /\ UnseenIn("bom", fr, AtBom(fr)) = fr.delta
         /\ \A pt \in {"net", "cons"} : UnseenIn(pt, fr, AtBom(fr)) = fr.net
<1>1. PICK o \in Operations : o = OpnIn(fr)
  OBVIOUS
<1>2. PICK n : n = fr.bomIdx
  OBVIOUS
<1>3. n \in DOMAIN Bom[o] /\ AtBom(fr) = Bom[o][n]
  BY <1>1, <1>2 DEF AtBom
<1>4. AtBom(fr) \in BomEntries /\ n \in Nat
  BY <1>3, BillsAre
<1>5. AtBom(fr) \notin BopEntries /\ AtBom(fr) \notin SubEntries
  BY <1>4, EntriesAre DEF Entries
<1>6. BomToSee("bom", fr, AtBom(fr))
  BY <1>1, <1>2, <1>3 DEF BomToSee
<1>7. \A pt \in {"net", "cons"} : ~BomToSee(pt, fr, AtBom(fr))
  <2>1. ASSUME NEW pt \in {"net", "cons"}, BomToSee(pt, fr, AtBom(fr)) PROVE FALSE
    <3>1. PICK k \in DOMAIN Bom[o] : Bom[o][k] = Bom[o][n] /\ k > n
      BY <1>1, <1>2, <1>3, <2>1 DEF BomToSee
    <3>2. k = n
      BY <1>3, <3>1, BillsAre
    <3>3. QED
      BY <1>4, <3>1, <3>2
  <2>2. QED
    BY <2>1
<1>8. QED
  BY <1>4, <1>5, <1>6, <1>7 DEF UnseenIn

LEMMA UnseenOfOthers ==
  ASSUME NEW fr, NEW fr2, SameRun(fr, fr2), fr2.bomIdx = fr.bomIdx,
         OpnIn(fr) \in Operations,
         NEW pt \in Scanning, NEW pt2 \in Scanning, NEW e, e # AtBom(fr)
  PROVE  UnseenIn(pt2, fr2, e) = UnseenIn(pt, fr, e)
<1>1. OpnIn(fr2) = OpnIn(fr) /\ AtBom(fr2) = AtBom(fr) /\ fr2.delta = fr.delta
  BY DEF OpnIn, AtBom, SameRun
<1>2. BopToSee(pt2, fr2, e) <=> BopToSee(pt, fr, e)
  BY <1>1 DEF BopToSee, Scanning
<1>3. BomToSee(pt2, fr2, e) <=> BomToSee(pt, fr, e)
  <2>1. \A k \in DOMAIN Bom[OpnIn(fr)] : Bom[OpnIn(fr)][k] = e => k # fr.bomIdx
    BY DEF AtBom
  <2>2. QED
    BY <1>1, <2>1 DEF BomToSee
<1>4. pt # "bop" /\ pt2 # "bop"
  BY DEF Scanning
<1>5. QED
  BY <1>1, <1>2, <1>3, <1>4 DEF UnseenIn

LEMMA UnseenAfterBom ==
  ASSUME NEW fr, NEW fr2, SameRun(fr, fr2), fr.bomIdx \in DOMAIN Bom[OpnIn(fr)],
         fr2.bomIdx = fr.bomIdx + 1, OpnIn(fr) \in Operations,
         NEW pt \in Scanning, NEW e
  PROVE  UnseenIn("bom", fr2, e) = IF e = AtBom(fr) THEN 0 ELSE UnseenIn(pt, fr, e)
<1>1. OpnIn(fr2) = OpnIn(fr) /\ fr2.delta = fr.delta
  BY DEF OpnIn, SameRun
<1>2. PICK o \in Operations : o = OpnIn(fr)
  OBVIOUS
<1>3. PICK n : n = fr.bomIdx
  OBVIOUS
<1>4. n \in DOMAIN Bom[o] /\ AtBom(fr) = Bom[o][n] /\ n \in Nat /\ fr2.bomIdx = n + 1
  <2>1. n \in DOMAIN Bom[o]
    BY <1>2, <1>3
  <2>2. n \in Nat
    BY <2>1, BillsAre
  <2>3. QED
    BY <1>2, <1>3, <2>1, <2>2 DEF AtBom
<1>5. \A k \in DOMAIN Bom[o] : k \in Nat
  BY BillsAre
<1>6. BopToSee("bom", fr2, e) <=> BopToSee(pt, fr, e)
  BY <1>1 DEF BopToSee, Scanning
<1>7. CASE e = AtBom(fr)
  <2>1. ~BomToSee("bom", fr2, e)
    <3>1. SUFFICES ASSUME BomToSee("bom", fr2, e) PROVE FALSE
      OBVIOUS
    <3>2. PICK k \in DOMAIN Bom[o] : Bom[o][k] = e /\ (k > n + 1 \/ k = n + 1)
      BY <1>1, <1>2, <1>4, <3>1 DEF BomToSee
    <3>3. k = n
      BY <1>4, <1>7, <3>2, BillsAre
    <3>4. QED
      BY <1>4, <3>2, <3>3
  <2>2. e \notin BopEntries
    BY <1>7, UnseenAtBom
  <2>3. QED
    BY <1>7, <2>1, <2>2 DEF UnseenIn
<1>8. CASE e # AtBom(fr)
  <2>1. \A k \in DOMAIN Bom[o] : Bom[o][k] = e => k # n
    BY <1>4, <1>8
  <2>2. \A k \in DOMAIN Bom[o] : k # n => (k > n + 1 \/ k = n + 1 <=> k > n)
    BY <1>4, <1>5
  <2>3. BomToSee("bom", fr2, e) <=> BomToSee(pt, fr, e)
    BY <1>1, <1>2, <1>3, <1>4, <2>1, <2>2 DEF BomToSee
  <2>4. pt # "bop"
    BY DEF Scanning
  <2>5. QED
    BY <1>1, <1>6, <1>8, <2>3, <2>4 DEF UnseenIn
<1>9. QED
  BY <1>7, <1>8

LEMMA UnseenAtStart ==
  ASSUME NEW fr, OpnIn(fr) \in Operations, fr.bomIdx = 1, NEW e \in Entries
  PROVE  UnseenIn("bom", fr, e) =
           IF e \notin SubEntries /\ OpnOf[e] = OpnIn(fr) THEN fr.delta ELSE 0
<1>1. PICK o \in Operations : o = OpnIn(fr)
  OBVIOUS
<1>2. ASSUME e \in BopEntries
      PROVE  BopToSee("bom", fr, e) <=> OpnOf[e] = o
  <2>1. OpnOf[e] = o => \E k \in DOMAIN Bop[o] : Bop[o][k] = e
    BY <1>2, EntryIsListed
  <2>2. \A k \in DOMAIN Bop[o] : Bop[o][k] = e => OpnOf[e] = o
    BY BillsAre
  <2>3. QED
    BY <1>1, <2>1, <2>2 DEF BopToSee
<1>3. ASSUME e \in BomEntries
      PROVE  BomToSee("bom", fr, e) <=> OpnOf[e] = o
  <2>1. OpnOf[e] = o => \E k \in DOMAIN Bom[o] : Bom[o][k] = e
    BY <1>3, EntryIsListed
  <2>2. \A k \in DOMAIN Bom[o] : (Bom[o][k] = e => OpnOf[e] = o) /\ (k > 1 \/ k = 1)
    BY BillsAre
  <2>3. QED
    BY <1>1, <2>1, <2>2 DEF BomToSee
<1>4. QED
  BY <1>1, <1>2, <1>3, EntriesAre DEF UnseenIn

LEMMA UnseenAtBop ==
  ASSUME NEW fr, NEW fr2, SameRun(fr, fr2), OpnIn(fr) \in Operations,
         fr.bomIdx \in Nat \ {0}, fr.bomIdx \notin DOMAIN Bom[OpnIn(fr)],
         fr2.bopIdx = 1, NEW e
  PROVE  UnseenIn("bop", fr2, e) = UnseenIn("bom", fr, e)
<1>1. OpnIn(fr2) = OpnIn(fr) /\ fr2.delta = fr.delta
  BY DEF OpnIn, SameRun
<1>2. BopToSee("bop", fr2, e) <=> BopToSee("bom", fr, e)
  <2>1. \A k \in DOMAIN Bop[OpnIn(fr)] : k >= 1
    BY BillsAre
  <2>2. QED
    BY <1>1, <2>1 DEF BopToSee
<1>3. ~BomToSee("bom", fr, e)
  <2>1. PICK n : n = fr.bomIdx
    OBVIOUS
  <2>2. \A k \in DOMAIN Bom[OpnIn(fr)] : k < n /\ k \in Nat /\ n \in Nat
    BY <2>1, BillsAre
  <2>3. \A k \in DOMAIN Bom[OpnIn(fr)] : ~(k > n \/ k = n)
    BY <2>2
  <2>4. QED
    BY <2>1, <2>3 DEF BomToSee
<1>4. QED
  BY <1>1, <1>2, <1>3 DEF UnseenIn

LEMMA UnseenAfterBop ==
  ASSUME NEW fr, NEW fr2, SameRun(fr, fr2), OpnIn(fr) \in Operations,
         fr.bopIdx \in DOMAIN Bop[OpnIn(fr)], fr2.bopIdx = fr.bopIdx + 1, NEW e,
         NEW b, b = Bop[OpnIn(fr)][fr.bopIdx]
  PROVE  /\ UnseenIn("bop", fr2, e) = IF e = b THEN 0 ELSE UnseenIn("bop", fr, e)
         /\ UnseenIn("bop", fr, b) = fr.delta
<1>1. OpnIn(fr2) = OpnIn(fr) /\ fr2.delta = fr.delta
  BY DEF OpnIn, SameRun
<1>2. PICK o \in Operations : o = OpnIn(fr)
  OBVIOUS
<1>3. PICK n : n = fr.bopIdx
  OBVIOUS
<1>4. n \in DOMAIN Bop[o] /\ b = Bop[o][n] /\ b \in BopEntries /\ n \in Nat /\ fr2.bopIdx = n + 1
  <2>1. n \in DOMAIN Bop[o] /\ b = Bop[o][n]
    BY <1>2, <1>3
  <2>2. n \in Nat /\ b \in BopEntries
    BY <2>1, BillsAre
  <2>3. QED
    BY <1>3, <2>1, <2>2
<1>5. \A k \in DOMAIN Bop[o] : k \in Nat
  BY BillsAre
<1>6. BopToSee("bop", fr, b)
  <2>1. n >= n
    BY <1>4
  <2>2. QED
    BY <1>2, <1>3, <1>4, <2>1 DEF BopToSee
<1>7. CASE e = b
  <2>1. ~BopToSee("bop", fr2, e)
    <3>1. SUFFICES ASSUME BopToSee("bop", fr2, e) PROVE FALSE
      OBVIOUS
    <3>2. PICK k \in DOMAIN Bop[o] : Bop[o][k] = e /\ k >= n + 1
      BY <1>1, <1>2, <1>4, <3>1 DEF BopToSee
    <3>3. k = n
      BY <1>4, <1>7, <3>2, BillsAre
    <3>4. QED
      BY <1>4, <3>2, <3>3
  <2>2. QED
    BY <1>4, <1>6, <1>7, <2>1 DEF UnseenIn
<1>8. CASE e # b
  <2>1. \A k \in DOMAIN Bop[o] : Bop[o][k] = e => (k >= n + 1 <=> k >= n)
    BY <1>4, <1>5, <1>8
  <2>2. BopToSee("bop", fr2, e) <=> BopToSee("bop", fr, e)
    BY <1>1, <1>2, <1>3, <1>4, <2>1 DEF BopToSee
  <2>3. QED
    BY <1>1, <1>4, <1>6, <1>8, <2>2 DEF UnseenIn
<1>9. QED
  BY <1>7, <1>8

LEMMA UnseenAtEnd ==
  ASSUME NEW fr, OpnIn(fr) \in Operations, fr.bopIdx \in Nat \ {0},
         fr.bopIdx \notin DOMAIN Bop[OpnIn(fr)], NEW e
  PROVE  UnseenIn("bop", fr, e) = 0
<1>1. PICK n \in Nat \ {0} : n = fr.bopIdx
  OBVIOUS
<1>2. \A k \in DOMAIN Bop[OpnIn(fr)] : k < n /\ k \in Nat
  BY <1>1, BillsAre
<1>3. \A k \in DOMAIN Bop[OpnIn(fr)] : ~(k >= n)
  BY <1>2
<1>4. ~BopToSee("bop", fr, e)
  BY <1>1, <1>3 DEF BopToSee
<1>5. QED
  BY <1>4 DEF UnseenIn

LEMMA UnseenIsNat ==
  ASSUME NEW pt, NEW fr, fr.delta \in Nat, pt \in {"net", "cons"} => fr.net \in Nat, NEW e
  PROVE  UnseenIn(pt, fr, e) \in Nat
  BY DEF UnseenIn

(***************************************************************************)
(* 5. What is held.  A permanent commit moves a unit between what is       *)
(* offered, required, in the frame, consumed and made: Held is the sum of  *)
(* what is not offered any more, and how it moves is the sum of how these  *)
(* do.                                                                     *)
(***************************************************************************)

\* The executions of a permanent commit's explosion that are still to be
\* accounted for an entry: they are in execVol already.
Unseen(e, u) ==
  IF mode = "perm" /\ pc \in Executing /\ u = frame.execPer
  THEN UnseenIn(pc, frame, e) ELSE 0

\* The executions of which what an entry supplies or consumes is accounted.
Done(e, u) == Count(base, e, u) - Unseen(e, u)

Booking == mode = "perm" /\ pc \in {"fill"} \cup Exploding

\* What a permanent commit has still to take of a part: the requirements
\* ahead of the cursor, and the rest of the one in progress.
Ahead(p, t) == ~\E i \in DOMAIN TopList : TopList[i] = p /\ Passed(i, t)

Pend(p, t) == IF Booking /\ Ahead(p, t) THEN ReqVol(req, p, t) ELSE 0

InFrame(p, t) ==
  IF Booking /\ pc # "fill" /\ p = frame.part /\ t = frame.fillPer THEN frame.qty ELSE 0

Owed(p, t) == Pend(p, t) + InFrame(p, t) - base[AvailLoc(p, t)]

AtImpact(p, t) == {x \in Impacts : PartOf[x[1]] = p /\ Impact[x[1]][x[2]] = t}

DoneVols == [x \in Impacts |-> Volume(x[1], Done(x[1], x[2]))]

MadeSum(p, t) == SumFunctionOnSet(DoneVols, AtImpact(p, t))

ShippedAt(t) == [d \in Demands |-> shipVol[d][t]]

ShipSum(p, t) == SumFunctionOnSet(ShippedAt(t), {d \in Demands : DemandedPart[d] = p})

\* What the solution leaves and the schedule does not offer any more.
Held(p, t) == supplyVol[p][t] + Owed(p, t) + MadeSum(p, t) - ShipSum(p, t)

LEMMA ImpactsAre ==
  /\ IsFiniteSet(Impacts)
  /\ \A p, t : AtImpact(p, t) \subseteq Impacts /\ IsFiniteSet(AtImpact(p, t))
  /\ \A x \in Impacts : x = <<x[1], x[2]>> /\ x[1] \in Entries /\ x[2] \in Periods
                        /\ InEffect(x[1], x[2])
<1>1. IsFiniteSet(Periods)
  BY NumberOfPeriods, FS_Interval DEF Periods
<1>2. IsFiniteSet(Entries \X Periods)
  BY <1>1, EntriesAssumption, FS_Product
<1>3. Impacts \subseteq Entries \X Periods
  BY DEF Impacts
<1>4. IsFiniteSet(Impacts)
  BY <1>2, <1>3, FS_Subset
<1>5. \A p, t : AtImpact(p, t) \subseteq Impacts
  BY DEF AtImpact
<1>6. \A p, t : IsFiniteSet(AtImpact(p, t))
  BY <1>4, <1>5, FS_Subset
<1>7. QED
  BY <1>3, <1>4, <1>5, <1>6 DEF Impacts

\* What is written into the frame is a number.
LEMMA UnseenIsInt ==
  ASSUME FrameType, NEW e, NEW u PROVE Unseen(e, u) \in Nat
<1>1. CASE mode = "perm" /\ pc \in Executing /\ u = frame.execPer
  <2>1. frame.delta \in Nat /\ (pc \in {"net", "cons"} => frame.net \in Nat)
    BY <1>1 DEF FrameType, MakesReq, ScanType
  <2>2. QED
    BY <1>1, <2>1, UnseenIsNat DEF Unseen
<1>2. CASE ~(mode = "perm" /\ pc \in Executing /\ u = frame.execPer)
  BY <1>2 DEF Unseen
<1>3. QED
  BY <1>1, <1>2

LEMMA HeldIsInt ==
  ASSUME Allocation
  PROVE  /\ \A e \in Entries, u \in Periods : Done(e, u) \in Int /\ Count(base, e, u) \in Int
         /\ \A x \in Impacts : DoneVols[x] \in Int
         /\ \A p \in Parts, t \in Periods : /\ Pend(p, t) \in Int /\ InFrame(p, t) \in Int
                                            /\ Owed(p, t) \in Int /\ Held(p, t) \in Int
                                            /\ MadeSum(p, t) \in Int /\ ShipSum(p, t) \in Int
                                            /\ supplyVol[p][t] \in Nat
                                            /\ base[AvailLoc(p, t)] \in Int
<1>0. /\ FrameType /\ FrameOK /\ IntMem(base) /\ Typed(req, ReqLocs)
      /\ supplyVol \in [Parts -> [Periods -> Nat]]
      /\ shipVol \in [Demands -> [Periods -> Nat]]
  BY InputsAreTyped DEF Allocation, Sched, Locals
<1>1. \A e \in Entries, u \in Periods : Count(base, e, u) \in Int /\ Unseen(e, u) \in Int
  BY <1>0, CountIsInt, UnseenIsInt
<1>2. \A e \in Entries, u \in Periods : Done(e, u) \in Int
  BY <1>1 DEF Done
<1>3. ASSUME NEW x \in Impacts PROVE DoneVols[x] \in Int
  <2>1. x[1] \in Entries /\ x[2] \in Periods /\ Done(x[1], x[2]) \in Int
    BY <1>2, ImpactsAre
  <2>2. Volume(x[1], Done(x[1], x[2])) \in Int
    BY <2>1, VolumeIs
  <2>3. QED
    BY <2>2 DEF DoneVols
<1>4. ASSUME NEW p \in Parts, NEW t \in Periods
      PROVE  /\ Pend(p, t) \in Int /\ InFrame(p, t) \in Int
             /\ Owed(p, t) \in Int /\ Held(p, t) \in Int
             /\ MadeSum(p, t) \in Int /\ ShipSum(p, t) \in Int
             /\ supplyVol[p][t] \in Nat
             /\ base[AvailLoc(p, t)] \in Int
  <2>1. Pend(p, t) \in Int
    <3>1. ReqVol(req, p, t) \in Int
      BY <1>0 DEF Typed, ReqLocs, ReqVol
    <3>2. QED
      BY <3>1 DEF Pend
  <2>2. InFrame(p, t) \in Int
    BY <1>0 DEF InFrame, Booking, FrameType, FillsReq
  <2>3. base[AvailLoc(p, t)] \in Int
    BY <1>0, AvailIsInt
  <2>4. Owed(p, t) \in Int
    BY <2>1, <2>2, <2>3 DEF Owed
  <2>5. MadeSum(p, t) \in Int
    <3>1. IsFiniteSet(AtImpact(p, t)) /\ \A x \in AtImpact(p, t) : DoneVols[x] \in Int
      BY <1>3, ImpactsAre
    <3>2. QED
      BY <3>1, SumFacts DEF SumFact, MadeSum
  <2>6. ShipSum(p, t) \in Int
    <3>1. IsFiniteSet({d \in Demands : DemandedPart[d] = p})
      BY DemandsAssumption, FS_Subset
    <3>2. \A d \in {c \in Demands : DemandedPart[c] = p} : ShippedAt(t)[d] \in Int
      BY <1>0 DEF ShippedAt
    <3>3. QED
      BY <3>1, <3>2, SumFacts DEF SumFact, ShipSum
  <2>7. supplyVol[p][t] \in Nat
    BY <1>0
  <2>8. Held(p, t) \in Int
    BY <2>4, <2>5, <2>6, <2>7 DEF Held
  <2>9. QED
    BY <2>1, <2>2, <2>3, <2>4, <2>5, <2>6, <2>7, <2>8
<1>5. QED
  BY <1>1, <1>2, <1>3, <1>4

------------------------------------------------------------------------------

\* A step accounts k more executions of entry e in period u.
DoneMoves(e, u, k) ==
  \A f \in Entries, w \in Periods :
    Done(f, w)' = Done(f, w) + IF f = e /\ w = u THEN k ELSE 0

DoneStays == \A f \in Entries, w \in Periods : Done(f, w)' = Done(f, w)

OwedMoves(p, t, d) ==
  \A q \in Parts, v \in Periods :
    Owed(q, v)' = Owed(q, v) + IF q = p /\ v = t THEN d ELSE 0

OwedStays == \A q \in Parts, v \in Periods : Owed(q, v)' = Owed(q, v)

HeldMoves(p, t, d) ==
  \A q \in Parts, v \in Periods :
    Held(q, v)' = Held(q, v) + IF q = p /\ v = t THEN d ELSE 0

HeldStays == \A q \in Parts, v \in Periods : Held(q, v)' = Held(q, v)

LEMMA MadeMoves ==
  ASSUME Allocation, NEW e \in Entries, NEW u \in Periods, NEW k \in Int, DoneMoves(e, u, k),
         NEW p \in Parts, NEW t \in Periods
  PROVE  MadeSum(p, t)' =
           MadeSum(p, t) + IF <<e, u>> \in AtImpact(p, t) THEN Volume(e, k) ELSE 0
<1>1. PICK f, g, S, x0 : /\ f = DoneVols /\ g = DoneVols' /\ S = AtImpact(p, t)
                         /\ x0 = <<e, u>>
  OBVIOUS
<1>2. IsFiniteSet(S) /\ S \subseteq Impacts
  BY <1>1, ImpactsAre
<1>3. PICK v \in Int : v = Volume(e, k)
  BY VolumeIs
<1>4. \A x \in S : f[x] \in Int
  BY <1>1, <1>2, HeldIsInt
<1>5. ASSUME NEW x \in S PROVE g[x] = IF x = x0 THEN f[x] + v ELSE f[x]
  <2>1. x \in Impacts /\ x[1] \in Entries /\ x[2] \in Periods /\ x = <<x[1], x[2]>>
    BY <1>2, ImpactsAre
  <2>2. PICK n \in Int : n = Done(x[1], x[2])
    BY <2>1, HeldIsInt
  <2>3. Done(x[1], x[2])' = n + IF x = x0 THEN k ELSE 0
    BY <1>1, <2>1, <2>2 DEF DoneMoves
  <2>4. f[x] = Volume(x[1], n) /\ g[x] = Volume(x[1], Done(x[1], x[2])')
    BY <1>1, <2>1, <2>2 DEF DoneVols, Volume
  <2>5. CASE x = x0
    <3>1. Done(x[1], x[2])' = n + k /\ x[1] = e
      BY <1>1, <2>1, <2>3, <2>5
    <3>2. Volume(e, n + k) = Volume(e, n) + Volume(e, k)
      BY <2>2, VolumeIs
    <3>3. QED
      BY <1>3, <2>4, <2>5, <3>1, <3>2
  <2>6. CASE x # x0
    BY <2>2, <2>3, <2>4, <2>6
  <2>7. QED
    BY <2>5, <2>6
<1>6. SumFunctionOnSet(g, S) = SumFunctionOnSet(f, S) + IF x0 \in S THEN v ELSE 0
  BY <1>2, <1>4, <1>5, SumChange
<1>7. /\ MadeSum(p, t) = SumFunctionOnSet(f, S)
      /\ MadeSum(p, t)' = SumFunctionOnSet(g, S)
  BY <1>1 DEF MadeSum, AtImpact, Impacts, InEffect
<1>8. QED
  BY <1>1, <1>3, <1>6, <1>7

LEMMA MadeStays ==
  ASSUME Allocation, DoneStays, NEW p \in Parts, NEW t \in Periods
  PROVE  MadeSum(p, t)' = MadeSum(p, t)
<1>1. PICK f, g, S : f = DoneVols /\ g = DoneVols' /\ S = AtImpact(p, t)
  OBVIOUS
<1>2. IsFiniteSet(S) /\ S \subseteq Impacts
  BY <1>1, ImpactsAre
<1>3. \A x \in S : f[x] \in Int /\ g[x] = f[x]
  <2>1. \A x \in S : f[x] \in Int
    BY <1>1, <1>2, HeldIsInt
  <2>2. \A x \in S : g[x] = f[x]
    BY <1>1, <1>2, ImpactsAre DEF DoneVols, DoneStays, Volume
  <2>3. QED
    BY <2>1, <2>2
<1>4. SumFunctionOnSet(g, S) = SumFunctionOnSet(f, S)
  BY <1>2, <1>3, SumSame
<1>5. QED
  BY <1>1, <1>4 DEF MadeSum, AtImpact, Impacts, InEffect

LEMMA ShipStays ==
  ASSUME shipVol' = shipVol, NEW p, NEW t PROVE ShipSum(p, t)' = ShipSum(p, t)
  BY DEF ShipSum, ShippedAt

\* What is owed is changed, nothing else.
LEMMA HeldOfOwed ==
  ASSUME Allocation, UNCHANGED <<supplyVol, shipVol>>, DoneStays,
         NEW p \in Parts, NEW t \in Periods, NEW d \in Int, OwedMoves(p, t, d)
  PROVE  HeldMoves(p, t, d)
<1> SUFFICES ASSUME NEW q \in Parts, NEW v \in Periods
             PROVE  Held(q, v)' = Held(q, v) + IF q = p /\ v = t THEN d ELSE 0
  BY DEF HeldMoves
<1>1. /\ Owed(q, v) \in Int /\ MadeSum(q, v) \in Int /\ ShipSum(q, v) \in Int
      /\ supplyVol[q][v] \in Int
  BY HeldIsInt
<1>2. MadeSum(q, v)' = MadeSum(q, v) /\ ShipSum(q, v)' = ShipSum(q, v)
  BY MadeStays, ShipStays
<1>3. Owed(q, v)' = Owed(q, v) + IF q = p /\ v = t THEN d ELSE 0
  BY DEF OwedMoves
<1>4. /\ Held(q, v) = supplyVol[q][v] + Owed(q, v) + MadeSum(q, v) - ShipSum(q, v)
      /\ Held(q, v)' = supplyVol[q][v] + Owed(q, v)' + MadeSum(q, v)' - ShipSum(q, v)'
  BY DEF Held
<1>5. QED
  BY <1>1, <1>2, <1>3, <1>4

LEMMA HeldOfNothing ==
  ASSUME Allocation, UNCHANGED <<supplyVol, shipVol>>, DoneStays, OwedStays
  PROVE  HeldStays
<1> SUFFICES ASSUME NEW q \in Parts, NEW v \in Periods
             PROVE  Held(q, v)' = Held(q, v)
  BY DEF HeldStays
<1>1. MadeSum(q, v)' = MadeSum(q, v) /\ ShipSum(q, v)' = ShipSum(q, v)
  BY MadeStays, ShipStays
<1>2. Owed(q, v)' = Owed(q, v)
  BY DEF OwedStays
<1>3. QED
  BY <1>1, <1>2 DEF Held

\* What an entry consumes or supplies is taken from what is available, or
\* added to it, or is going to be.
LEMMA HeldOfEntry ==
  ASSUME Allocation, UNCHANGED <<supplyVol, shipVol>>,
         NEW e \in Entries, NEW u \in Periods, NEW k \in Int, DoneMoves(e, u, k),
         InEffect(e, u),
         NEW d \in Int, OwedMoves(PartOf[e], Impact[e][u], d), d + Volume(e, k) = 0
  PROVE  HeldStays
<1> SUFFICES ASSUME NEW q \in Parts, NEW v \in Periods
             PROVE  Held(q, v)' = Held(q, v)
  BY DEF HeldStays
<1>1. /\ Owed(q, v) \in Int /\ MadeSum(q, v) \in Int /\ ShipSum(q, v) \in Int
      /\ supplyVol[q][v] \in Int
  BY HeldIsInt
<1>2. ShipSum(q, v)' = ShipSum(q, v)
  BY ShipStays
<1>3. Owed(q, v)' = Owed(q, v) + IF q = PartOf[e] /\ v = Impact[e][u] THEN d ELSE 0
  BY DEF OwedMoves
<1>4. <<e, u>> \in AtImpact(q, v) <=> q = PartOf[e] /\ v = Impact[e][u]
  BY DEF AtImpact, Impacts
<1>5. MadeSum(q, v)' = MadeSum(q, v) + IF q = PartOf[e] /\ v = Impact[e][u]
                                       THEN Volume(e, k) ELSE 0
  BY <1>4, MadeMoves
<1>6. Volume(e, k) \in Int
  BY VolumeIs
<1>7. /\ Held(q, v) = supplyVol[q][v] + Owed(q, v) + MadeSum(q, v) - ShipSum(q, v)
      /\ Held(q, v)' = supplyVol[q][v] + Owed(q, v)' + MadeSum(q, v)' - ShipSum(q, v)'
  BY DEF Held
<1>8. PICK x, y, z, w \in Int : x = Owed(q, v) /\ y = MadeSum(q, v) /\ z = ShipSum(q, v)
                                /\ w = supplyVol[q][v]
  BY <1>1
<1>9. CASE q = PartOf[e] /\ v = Impact[e][u]
  <2>1. PICK n \in Int : n = Volume(e, k)
    BY <1>6
  <2>2. Owed(q, v)' = x + d /\ MadeSum(q, v)' = y + n /\ d + n = 0
    BY <1>3, <1>5, <1>8, <1>9, <2>1
  <2>3. w + (x + d) + (y + n) - z = w + x + y - z
    BY <2>2
  <2>4. QED
    BY <1>2, <1>7, <1>8, <2>2, <2>3
<1>10. CASE ~(q = PartOf[e] /\ v = Impact[e][u])
  <2>1. Owed(q, v)' = x /\ MadeSum(q, v)' = y
    BY <1>3, <1>5, <1>8, <1>10
  <2>2. QED
    BY <1>2, <1>7, <1>8, <2>1
<1>11. QED
  BY <1>9, <1>10

LEMMA HeldOfNoEffect ==
  ASSUME Allocation, UNCHANGED <<supplyVol, shipVol>>,
         NEW e \in Entries, NEW u \in Periods, NEW k \in Int, DoneMoves(e, u, k),
         ~InEffect(e, u), OwedStays
  PROVE  HeldStays
<1> SUFFICES ASSUME NEW q \in Parts, NEW v \in Periods
             PROVE  Held(q, v)' = Held(q, v)
  BY DEF HeldStays
<1>1. <<e, u>> \notin AtImpact(q, v)
  BY DEF AtImpact, Impacts
<1>2. MadeSum(q, v)' = MadeSum(q, v)
  <2>1. MadeSum(q, v)' = MadeSum(q, v) + 0
    BY <1>1, MadeMoves
  <2>2. MadeSum(q, v) \in Int
    BY HeldIsInt
  <2>3. QED
    BY <2>1, <2>2
<1>3. ShipSum(q, v)' = ShipSum(q, v) /\ Owed(q, v)' = Owed(q, v)
  BY ShipStays DEF OwedStays
<1>4. QED
  BY <1>2, <1>3 DEF Held

------------------------------------------------------------------------------

UnseenMoves(e, u, k) ==
  \A f \in Entries, w \in Periods :
    Unseen(f, w)' = Unseen(f, w) - IF f = e /\ w = u THEN k ELSE 0

UnseenStays == \A f \in Entries, w \in Periods : Unseen(f, w)' = Unseen(f, w)

\* A step of the explosion of a permanent commit.
InPerm == mode = "perm" /\ mode' = mode /\ Allocation

Exploded == InPerm /\ pc \in Executing /\ pc' \in Executing

LEMMA UnseenOfStep ==
  ASSUME Exploded, frame'.execPer = frame.execPer, NEW f, NEW w
  PROVE  /\ Unseen(f, w) = IF w = frame.execPer THEN UnseenIn(pc, frame, f) ELSE 0
         /\ Unseen(f, w)' = IF w = frame.execPer THEN UnseenIn(pc', frame', f) ELSE 0
  BY DEF Exploded, InPerm, Unseen

LEMMA ExplosionIs ==
  ASSUME Allocation, pc \in Executing
  PROVE  /\ frame.execPer \in Periods /\ frame.delta \in Nat
         /\ OpnIn(frame) = FrameOpn /\ FrameOpn \in Operations /\ AtBom(frame) = FrameBom
         /\ pc \in {"net", "cons"} => frame.net \in Nat /\ frame.bomIdx \in DOMAIN Bom[FrameOpn]
                                      /\ InEffect(FrameBom, frame.execPer)
<1>1. /\ frame.execPer \in Periods /\ frame.delta \in Nat
      /\ pc \in {"net", "cons"} => frame.net \in Nat /\ frame.bomIdx \in DOMAIN Bom[FrameOpn]
                                   /\ InEffect(FrameBom, frame.execPer)
  BY DEF Allocation, FrameOK, FrameType, MakesReq, ScanType, Executing
<1>2. FrameOpn \in Operations
  BY ExecutionMeans DEF Allocation, Locals
<1>3. OpnIn(frame) = FrameOpn /\ AtBom(frame) = FrameBom
  BY DEF OpnIn, FrameOpn, AtBom, FrameBom
<1>4. QED
  BY <1>1, <1>2, <1>3

LEMMA UnseenOfNext ==
  ASSUME Exploded, pc \in Scanning, pc' = "bom", frame' = NextBomEntry,
         frame.bomIdx \in DOMAIN Bom[FrameOpn],
         NEW k, k = IF pc = "bom" THEN frame.delta ELSE frame.net
  PROVE  /\ UnseenMoves(FrameBom, frame.execPer, k)
         /\ k \in Nat /\ FrameBom \in BomEntries
<1>0. Allocation /\ FrameOK
  BY DEF Exploded, InPerm, Allocation
<1>1. /\ frame.execPer \in Periods /\ OpnIn(frame) = FrameOpn /\ FrameOpn \in Operations
      /\ AtBom(frame) = FrameBom /\ k \in Nat
  BY <1>0, ExplosionIs DEF Exploded, Scanning
<1>2. /\ frame'.bop = frame.bop /\ frame'.delta = frame.delta
      /\ frame'.execPer = frame.execPer /\ frame'.bomIdx = frame.bomIdx + 1
  BY <1>0 DEF NextBomEntry, FrameOK, NoFrame
<1>3. SameRun(frame, frame')
  BY <1>2 DEF SameRun
<1>4. \A e : UnseenIn("bom", frame', e) =
               IF e = FrameBom THEN 0 ELSE UnseenIn(pc, frame, e)
  BY <1>1, <1>2, <1>3, UnseenAfterBom
<1>5. UnseenIn(pc, frame, FrameBom) = k /\ FrameBom \in BomEntries
  BY <1>1, UnseenAtBom DEF Scanning
<1>6. ASSUME NEW f \in Entries, NEW w \in Periods
      PROVE  Unseen(f, w)' =
               Unseen(f, w) - IF f = FrameBom /\ w = frame.execPer THEN k ELSE 0
  <2>1. /\ Unseen(f, w) = IF w = frame.execPer THEN UnseenIn(pc, frame, f) ELSE 0
        /\ Unseen(f, w)' = IF w = frame.execPer THEN UnseenIn("bom", frame', f) ELSE 0
    BY <1>2, UnseenOfStep
  <2>2. Unseen(f, w) \in Nat
    BY <1>0, UnseenIsInt DEF Allocation
  <2>3. QED
    BY <1>1, <1>4, <1>5, <2>1, <2>2
<1>7. QED
  BY <1>1, <1>5, <1>6 DEF UnseenMoves

LEMMA UnseenOfNet ==
  ASSUME Exploded, pc = "net", pc' \in {"net", "cons"}, NEW net \in Nat,
         \/ frame' = [frame EXCEPT !.net = net]
         \/ frame' = [frame EXCEPT !.net = net, !.subIdx = @ + 1]
  PROVE  UnseenMoves(FrameBom, frame.execPer, frame.net - net)
<1>0. Allocation /\ FrameOK
  BY DEF Exploded, InPerm, Allocation
<1>1. /\ frame.execPer \in Periods /\ OpnIn(frame) = FrameOpn /\ FrameOpn \in Operations
      /\ AtBom(frame) = FrameBom /\ frame.net \in Nat
      /\ frame.bomIdx \in DOMAIN Bom[FrameOpn]
  BY <1>0, ExplosionIs DEF Executing
<1>2. /\ frame'.bop = frame.bop /\ frame'.delta = frame.delta /\ frame'.net = net
      /\ frame'.execPer = frame.execPer /\ frame'.bomIdx = frame.bomIdx
  BY <1>0 DEF FrameOK, NoFrame
<1>3. SameRun(frame, frame') /\ OpnIn(frame') = FrameOpn /\ AtBom(frame') = FrameBom
  BY <1>1, <1>2 DEF SameRun, OpnIn, AtBom
<1>4. pc \in Scanning /\ pc' \in Scanning
  BY DEF Scanning
<1>5. \A e : e # FrameBom => UnseenIn(pc', frame', e) = UnseenIn(pc, frame, e)
  BY <1>1, <1>2, <1>3, <1>4, UnseenOfOthers
<1>6. UnseenIn(pc, frame, FrameBom) = frame.net
  BY <1>1, UnseenAtBom
<1>7. UnseenIn(pc', frame', FrameBom) = net
  <2>1. OpnIn(frame') \in Operations /\ frame'.bomIdx \in DOMAIN Bom[OpnIn(frame')]
    BY <1>1, <1>2, <1>3
  <2>2. \A pt \in {"net", "cons"} : UnseenIn(pt, frame', AtBom(frame')) = frame'.net
    BY <2>1, UnseenAtBom
  <2>3. QED
    BY <1>2, <1>3, <2>2
<1>8. ASSUME NEW f \in Entries, NEW w \in Periods
      PROVE  Unseen(f, w)' = Unseen(f, w) - IF f = FrameBom /\ w = frame.execPer
                                            THEN frame.net - net ELSE 0
  <2>1. /\ Unseen(f, w) = IF w = frame.execPer THEN UnseenIn(pc, frame, f) ELSE 0
        /\ Unseen(f, w)' = IF w = frame.execPer THEN UnseenIn(pc', frame', f) ELSE 0
    BY <1>2, UnseenOfStep
  <2>2. Unseen(f, w) \in Nat
    BY <1>0, UnseenIsInt DEF Allocation
  <2>3. QED
    BY <1>1, <1>5, <1>6, <1>7, <2>1, <2>2
<1>9. QED
  BY <1>8 DEF UnseenMoves

LEMMA UnseenOfNetting ==
  ASSUME Exploded, pc = "net", NEW net \in Nat, NettedTo(net)
  PROVE  UnseenMoves(FrameBom, frame.execPer, frame.net - net)
<1>0. Allocation
  BY DEF Exploded, InPerm
<1>1. frame.net \in Nat /\ frame.bomIdx \in DOMAIN Bom[FrameOpn]
  BY <1>0, ExplosionIs DEF Executing
<1>2. CASE net = 0
  <2>1. frame' = NextBomEntry /\ pc' = "bom"
    BY <1>2 DEF NettedTo
  <2>2. UnseenMoves(FrameBom, frame.execPer, frame.net)
    <3>1. pc \in Scanning
      BY DEF Scanning
    <3>2. QED
      BY <1>1, <2>1, <3>1, UnseenOfNext
  <2>3. frame.net - net = frame.net
    BY <1>1, <1>2
  <2>4. QED
    BY <2>2, <2>3
<1>3. CASE net # 0
  <2>1. /\ pc' \in {"net", "cons"}
        /\ \/ frame' = [frame EXCEPT !.net = net]
           \/ frame' = [frame EXCEPT !.net = net, !.subIdx = @ + 1]
    BY <1>3 DEF NettedTo
  <2>2. QED
    BY <2>1, UnseenOfNet
<1>4. QED
  BY <1>2, <1>3

LEMMA UnseenOfBegun ==
  ASSUME Exploded, ExplodeBomEntry PROVE UnseenStays
<1>0. Allocation /\ FrameOK /\ pc = "bom" /\ frame.bomIdx \in DOMAIN Bom[FrameOpn]
      /\ frame' = [frame EXCEPT !.net = frame.delta] /\ pc' \in {"net", "cons"}
  BY DEF Exploded, InPerm, Allocation, ExplodeBomEntry
<1>1. /\ frame.execPer \in Periods /\ OpnIn(frame) = FrameOpn /\ FrameOpn \in Operations
      /\ AtBom(frame) = FrameBom
  BY <1>0, ExplosionIs DEF Executing
<1>2. /\ frame'.bop = frame.bop /\ frame'.delta = frame.delta /\ frame'.net = frame.delta
      /\ frame'.execPer = frame.execPer /\ frame'.bomIdx = frame.bomIdx
  BY <1>0 DEF FrameOK, NoFrame
<1>3. SameRun(frame, frame') /\ OpnIn(frame') = FrameOpn /\ AtBom(frame') = FrameBom
  BY <1>1, <1>2 DEF SameRun, OpnIn, AtBom
<1>4. pc \in Scanning /\ pc' \in Scanning
  BY <1>0 DEF Scanning
<1>5. \A e : e # FrameBom => UnseenIn(pc', frame', e) = UnseenIn(pc, frame, e)
  BY <1>1, <1>2, <1>3, <1>4, UnseenOfOthers
<1>6. UnseenIn(pc, frame, FrameBom) = frame.delta
  BY <1>0, <1>1, UnseenAtBom
<1>7. UnseenIn(pc', frame', FrameBom) = frame.delta
  <2>1. OpnIn(frame') \in Operations /\ frame'.bomIdx \in DOMAIN Bom[OpnIn(frame')]
    BY <1>0, <1>1, <1>2, <1>3
  <2>2. \A pt \in {"net", "cons"} : UnseenIn(pt, frame', AtBom(frame')) = frame'.net
    BY <2>1, UnseenAtBom
  <2>3. QED
    BY <1>0, <1>2, <1>3, <2>2
<1>8. QED
  BY <1>2, <1>5, <1>6, <1>7, UnseenOfStep DEF UnseenStays

LEMMA UnseenOfBopStart ==
  ASSUME Exploded, CallMeans, BomEntriesExploded PROVE UnseenStays
<1>0. Allocation /\ FrameOK /\ pc = "bom" /\ frame.bomIdx \notin DOMAIN Bom[FrameOpn]
      /\ frame' = [frame EXCEPT !.bopIdx = 1] /\ pc' = "bop" /\ frame.bomIdx \in Nat \ {0}
  BY DEF Exploded, InPerm, Allocation, BomEntriesExploded, CallMeans
<1>1. OpnIn(frame) = FrameOpn /\ FrameOpn \in Operations
  BY <1>0, ExplosionIs DEF Executing
<1>2. /\ SameRun(frame, frame') /\ frame'.execPer = frame.execPer /\ frame'.bopIdx = 1
  BY <1>0 DEF FrameOK, NoFrame, SameRun
<1>3. \A e : UnseenIn("bop", frame', e) = UnseenIn("bom", frame, e)
  BY <1>0, <1>1, <1>2, UnseenAtBop
<1>4. QED
  BY <1>0, <1>2, <1>3, UnseenOfStep DEF UnseenStays

LEMMA UnseenOfBop ==
  ASSUME Exploded, ExplodeBopEntry, NEW e, e = Bop[FrameOpn][frame.bopIdx]
  PROVE  UnseenMoves(e, frame.execPer, frame.delta) /\ e \in BopEntries
<1>0. Allocation /\ FrameOK /\ pc = "bop" /\ frame.bopIdx \in DOMAIN Bop[FrameOpn]
      /\ frame' = [frame EXCEPT !.bopIdx = @ + 1] /\ pc' = "bop"
  BY DEF Exploded, InPerm, Allocation, ExplodeBopEntry
<1>1. OpnIn(frame) = FrameOpn /\ FrameOpn \in Operations /\ frame.delta \in Nat
      /\ frame.execPer \in Periods
  BY <1>0, ExplosionIs DEF Executing
<1>2. /\ SameRun(frame, frame') /\ frame'.execPer = frame.execPer
      /\ frame'.bopIdx = frame.bopIdx + 1
  BY <1>0 DEF FrameOK, NoFrame, SameRun
<1>3. /\ \A f : UnseenIn("bop", frame', f) = IF f = e THEN 0 ELSE UnseenIn("bop", frame, f)
      /\ UnseenIn("bop", frame, e) = frame.delta
  <2>1. frame.bopIdx \in DOMAIN Bop[OpnIn(frame)] /\ e = Bop[OpnIn(frame)][frame.bopIdx]
    BY <1>0, <1>1
  <2>2. OpnIn(frame) \in Operations /\ frame.delta \in Nat
    BY <1>1
  <2>3. QED
    BY <1>2, <2>1, <2>2, UnseenAfterBop
<1>4. ASSUME NEW f \in Entries, NEW w \in Periods
      PROVE  Unseen(f, w)' =
               Unseen(f, w) - IF f = e /\ w = frame.execPer THEN frame.delta ELSE 0
  <2>1. /\ Unseen(f, w) = IF w = frame.execPer THEN UnseenIn("bop", frame, f) ELSE 0
        /\ Unseen(f, w)' = IF w = frame.execPer THEN UnseenIn("bop", frame', f) ELSE 0
    BY <1>0, <1>2, UnseenOfStep
  <2>2. Unseen(f, w) \in Nat
    BY <1>0, UnseenIsInt DEF Allocation
  <2>3. QED
    BY <1>1, <1>3, <2>1, <2>2
<1>5. e \in BopEntries
  BY <1>0, <1>1, BillsAre
<1>6. QED
  BY <1>4, <1>5 DEF UnseenMoves

LEMMA UnseenOfUse ==
  ASSUME InPerm, UseProduct PROVE UnseenStays
<1>0. Allocation /\ pc = "bop" /\ frame.bopIdx \notin DOMAIN Bop[FrameOpn] /\ pc' = "fill"
  BY DEF InPerm, UseProduct
<1>1. OpnIn(frame) = FrameOpn /\ FrameOpn \in Operations
  BY <1>0, ExplosionIs DEF Executing
<1>2. frame.bopIdx \in Nat \ {0}
  BY <1>0 DEF Allocation, FrameType, ScanType
<1>3. \A f : UnseenIn("bop", frame, f) = 0
  BY <1>0, <1>1, <1>2, UnseenAtEnd
<1>4. \A f, w : Unseen(f, w) = 0 /\ Unseen(f, w)' = 0
  BY <1>0, <1>3 DEF Unseen, Executing
<1>5. QED
  BY <1>4 DEF UnseenStays

LEMMA UnseenOutside ==
  ASSUME pc \notin Executing \/ mode # "perm", pc' \notin Executing \/ mode' # "perm"
  PROVE  UnseenStays
  BY DEF Unseen, UnseenStays

------------------------------------------------------------------------------

LEMMA DoneOfUnseen ==
  ASSUME Allocation, SameVols(base, base'), NEW e, NEW u, NEW k \in Int, UnseenMoves(e, u, k)
  PROVE  DoneMoves(e, u, k)
<1> SUFFICES ASSUME NEW f \in Entries, NEW w \in Periods
             PROVE  Done(f, w)' = Done(f, w) + IF f = e /\ w = u THEN k ELSE 0
  BY DEF DoneMoves
<1>1. Count(base, f, w) \in Int /\ Unseen(f, w) \in Int
  BY HeldIsInt, UnseenIsInt DEF Allocation
<1>2. Count(base, f, w)' = Count(base, f, w)
  <2>1. Count(base', f, w) = Count(base, f, w)
    BY CountSame
  <2>2. QED
    BY <2>1 DEF Count, NonSub, SubVols
<1>3. Unseen(f, w)' = Unseen(f, w) - IF f = e /\ w = u THEN k ELSE 0
  BY DEF UnseenMoves
<1>4. QED
  BY <1>1, <1>2, <1>3 DEF Done

LEMMA DoneOfNothing ==
  ASSUME SameVols(base, base'), UnseenStays PROVE DoneStays
<1> SUFFICES ASSUME NEW f \in Entries, NEW w \in Periods
             PROVE  Done(f, w)' = Done(f, w)
  BY DEF DoneStays
<1>1. Count(base, f, w)' = Count(base, f, w)
  <2>1. Count(base', f, w) = Count(base, f, w)
    BY CountSame
  <2>2. QED
    BY <2>1 DEF Count, NonSub, SubVols
<1>2. QED
  BY <1>1 DEF Done, UnseenStays

LEMMA DoneOfSub ==
  ASSUME Allocation, NEW mid, SameVols(base, mid), IntMem(mid),
         NEW b \in BomEntries, NEW i \in DOMAIN Subs[b], NEW c, c = Subs[b][i],
         NEW u \in Periods, NEW vol \in Int,
         base' = WithSub(mid, c, u, vol),
         UnseenMoves(b, u, vol)
  PROVE  DoneMoves(c, u, vol)
<1> SUFFICES ASSUME NEW f \in Entries, NEW w \in Periods
             PROVE  Done(f, w)' = Done(f, w) + IF f = c /\ w = u THEN vol ELSE 0
  BY DEF DoneMoves
<1>1. Count(base, f, w) \in Int /\ Unseen(f, w) \in Int
  BY HeldIsInt, UnseenIsInt DEF Allocation
<1>2. Count(base, f, w)' =
        Count(base, f, w) + IF f = c /\ w = u THEN vol
                            ELSE IF f = b /\ w = u THEN -vol ELSE 0
  <2>1. Count(mid, f, w) = Count(base, f, w)
    BY CountSame
  <2>2. Count(base', f, w) =
          Count(mid, f, w) + IF f = c /\ w = u THEN vol
                             ELSE IF f = b /\ w = u THEN -vol ELSE 0
    <3> PICK next : next = base'
      OBVIOUS
    <3>1. next = WithSub(mid, c, u, vol)
      OBVIOUS
    <3>2. Count(next, f, w) =
            Count(mid, f, w) + IF f = c /\ w = u THEN vol
                               ELSE IF f = b /\ w = u THEN -vol ELSE 0
      BY <3>1, CountOfSub
    <3>3. QED
      BY <3>2
  <2>3. QED
    BY <2>1, <2>2 DEF Count, NonSub, SubVols
<1>3. Unseen(f, w)' = Unseen(f, w) - IF f = b /\ w = u THEN vol ELSE 0
  BY DEF UnseenMoves
<1>4. c # b
  <2>1. c \in SubEntries
    BY SubsAre
  <2>2. QED
    BY <2>1, EntriesAre DEF Entries
<1>5. QED
  BY <1>1, <1>2, <1>3, <1>4 DEF Done

------------------------------------------------------------------------------

AvailMoves(p, t, a) ==
  \A q \in Parts, v \in Periods :
    base'[AvailLoc(q, v)] = base[AvailLoc(q, v)] + IF q = p /\ v = t THEN a ELSE 0

AvailStays == \A q \in Parts, v \in Periods : base'[AvailLoc(q, v)] = base[AvailLoc(q, v)]

LEMMA PermSoln ==
  ASSUME Allocation, mode # "temp", pc # "restore"
  PROVE  Sound(soln) /\ soln.mem = base /\ IntMem(base)
  BY DEF Allocation, Rollback, Sched, SoundAndFeasible

LEMMA PermWrite ==
  ASSUME mode # "temp", NEW s, Write(s) PROVE base' = s.mem
  BY DEF Write

\* A write of what is available changes no execution or substitution volume.
LEMMA WroteAvail ==
  ASSUME Allocation, mode # "temp", pc # "restore", NEW p \in Parts, NEW t \in Periods,
         NEW a \in Int, Write(AddAvail(soln, p, t, a))
  PROVE  AvailMoves(p, t, a) /\ SameVols(base, base') /\ IntMem(base')
<1>1. Sound(soln) /\ soln.mem = base /\ IntMem(base)
  BY PermSoln
<1>2. PICK n : n = AddAvail(soln, p, t, a)
  OBVIOUS
<1>3. AddsTo(soln, p, t, a, n)
  BY <1>1, <1>2, AddAvailSound
<1>4. base' = n.mem
  BY <1>2, PermWrite
<1>5. ASSUME NEW q \in Parts, NEW v \in Periods
      PROVE  base'[AvailLoc(q, v)] = base[AvailLoc(q, v)] + IF q = p /\ v = t THEN a ELSE 0
  <2>1. base[AvailLoc(q, v)] \in Int
    BY <1>1, AvailIsInt
  <2>2. CASE q = p /\ v = t
    BY <1>1, <1>3, <1>4, <2>2 DEF AddsTo
  <2>3. CASE ~(q = p /\ v = t)
    <3>1. <<q, v>> # <<p, t>>
      BY <2>3
    <3>2. base'[AvailLoc(q, v)] = base[AvailLoc(q, v)]
      BY <1>1, <1>3, <1>4, <3>1 DEF AddsTo
    <3>3. QED
      BY <2>1, <2>3, <3>2
  <2>4. QED
    BY <2>2, <2>3
<1>6. QED
  BY <1>1, <1>3, <1>4, <1>5 DEF AvailMoves, SameVols, AddsTo

LEMMA WroteNothing ==
  ASSUME Allocation, mode # "temp", pc # "restore", Write(soln)
  PROVE  base' = base
  BY PermSoln, PermWrite

LEMMA NothingWritten ==
  ASSUME base' = base
  PROVE  AvailStays /\ SameVols(base, base')
  BY DEF AvailStays, SameVols

LEMMA AvailMovesBy0 ==
  ASSUME Allocation, AvailStays, NEW p, NEW t PROVE AvailMoves(p, t, 0)
<1> SUFFICES ASSUME NEW q \in Parts, NEW v \in Periods
             PROVE  base'[AvailLoc(q, v)] =
                      base[AvailLoc(q, v)] + IF q = p /\ v = t THEN 0 ELSE 0
  BY DEF AvailMoves
<1>1. base[AvailLoc(q, v)] \in Int
  BY AvailIsInt DEF Allocation, Sched
<1>2. QED
  BY <1>1 DEF AvailStays

LEMMA WroteNetted ==
  ASSUME Allocation, mode = "perm", pc # "restore", NEW p \in Parts, NEW t \in Periods,
         NEW vol \in Nat, Write(NettedStore(soln, p, t, vol))
  PROVE  AvailMoves(p, t, -vol) /\ SameVols(base, base')
<1>1. CASE vol = 0
  <2>1. base' = base
    BY <1>1, WroteNothing DEF NettedStore
  <2>2. AvailMoves(p, t, 0) /\ SameVols(base, base')
    BY <2>1, NothingWritten, AvailMovesBy0
  <2>3. QED
    BY <1>1, <2>2, MinusZero
<1>2. CASE vol # 0
  BY <1>2, WroteAvail DEF NettedStore
<1>3. QED
  BY <1>1, <1>2

------------------------------------------------------------------------------

\* What the commit has still to take stays the same.
TakesSame ==
  \A q \in Parts, v \in Periods : Pend(q, v)' = Pend(q, v) /\ InFrame(q, v)' = InFrame(q, v)

LEMMA TakesOfSame ==
  ASSUME InPerm, SameReq, req' = req, pc \in Exploding, pc' \in Exploding
  PROVE  TakesSame
<1>1. Booking /\ Booking' /\ pc # "fill" /\ pc' # "fill"
  BY DEF InPerm, Booking, Exploding, Executing
<1>2. \A q, v : Ahead(q, v)' = Ahead(q, v) /\ ReqVol(req, q, v)' = ReqVol(req, q, v)
  BY DEF Ahead, Passed, TopList, SameReq
<1>3. QED
  BY <1>1, <1>2 DEF TakesSame, Pend, InFrame, SameReq

LEMMA OwedOfAvail ==
  ASSUME Allocation, TakesSame, NEW p, NEW t, NEW a \in Int, AvailMoves(p, t, a)
  PROVE  OwedMoves(p, t, -a)
<1> SUFFICES ASSUME NEW q \in Parts, NEW v \in Periods
             PROVE  Owed(q, v)' = Owed(q, v) + IF q = p /\ v = t THEN -a ELSE 0
  BY DEF OwedMoves
<1>1. PICK x, y, z \in Int : x = Pend(q, v) /\ y = InFrame(q, v) /\ z = base[AvailLoc(q, v)]
  BY HeldIsInt
<1>2. Pend(q, v)' = x /\ InFrame(q, v)' = y
  BY <1>1 DEF TakesSame
<1>3. base'[AvailLoc(q, v)] = z + IF q = p /\ v = t THEN a ELSE 0
  BY <1>1 DEF AvailMoves
<1>4. Owed(q, v) = x + y - z /\ Owed(q, v)' = Pend(q, v)' + InFrame(q, v)' - base'[AvailLoc(q, v)]
  BY <1>1 DEF Owed
<1>5. QED
  BY <1>2, <1>3, <1>4

LEMMA OwedOfNothing ==
  ASSUME TakesSame, AvailStays PROVE OwedStays
<1> SUFFICES ASSUME NEW q \in Parts, NEW v \in Periods PROVE Owed(q, v)' = Owed(q, v)
  BY DEF OwedStays
<1>1. Pend(q, v)' = Pend(q, v) /\ InFrame(q, v)' = InFrame(q, v)
      /\ base'[AvailLoc(q, v)] = base[AvailLoc(q, v)]
  BY DEF TakesSame, AvailStays
<1>2. QED
  BY <1>1 DEF Owed

\* No step of a permanent commit loses an execution that is accounted.
DoneGrows == \A f \in Entries, w \in Periods : Done(f, w)' >= Done(f, w)

LEMMA MovesGrow ==
  ASSUME Allocation, NEW e, NEW u, NEW k \in Nat, DoneMoves(e, u, k) PROVE DoneGrows
<1> SUFFICES ASSUME NEW f \in Entries, NEW w \in Periods PROVE Done(f, w)' >= Done(f, w)
  BY DEF DoneGrows
<1>1. PICK n \in Int : n = Done(f, w)
  BY HeldIsInt
<1>2. Done(f, w)' = n + IF f = e /\ w = u THEN k ELSE 0
  BY <1>1 DEF DoneMoves
<1>3. QED
  BY <1>1, <1>2

LEMMA StaysGrow ==
  ASSUME Allocation, DoneStays PROVE DoneGrows
<1> SUFFICES ASSUME NEW f \in Entries, NEW w \in Periods PROVE Done(f, w)' >= Done(f, w)
  BY DEF DoneGrows
<1>1. PICK n \in Int : n = Done(f, w)
  BY HeldIsInt
<1>2. Done(f, w)' = n
  BY SMTT(30), <1>1 DEF DoneStays
<1>3. QED
  BY <1>1, <1>2

\* What every step inside a permanent commit does to the books.
BooksAgree == HeldStays /\ DoneGrows

LEMMA SameInputs ==
  ASSUME FillStep \/ ExplodeStep PROVE UNCHANGED <<supplyVol, shipVol>>
  BY DEF FillStep, ExplodeStep, CommitUnchanged, inputs, results, NetReq, NetAndRollReq,
     AllFilled, CannotExplode, ExplodeBopEnt, BomEntryNotInEffect, ExplodeBomEntry,
     NetConsEntry, NetByProductEntry, SkipSubEntry, ExplodeConsEntry, BomEntriesExploded,
     ExplodeBopEntry, UseProduct

(***************************************************************************)
(* 6. Each step of an explosion in a permanent commit leaves what is held  *)
(* the same.                                                               *)
(***************************************************************************)

LEMMA SameReqOfNext ==
  ASSUME FrameOK, UNCHANGED <<top, cursor>>, frame' = NextBomEntry
  PROVE  SameReq
  BY DEF SameReq, NextBomEntry, FrameOK, NoFrame

LEMMA SameReqOfNetting ==
  ASSUME FrameOK, UNCHANGED <<top, cursor>>, NEW net, NettedTo(net)
  PROVE  SameReq /\ pc' \in Executing
<1>1. CASE net = 0
  <2>1. frame' = NextBomEntry /\ pc' = "bom"
    BY <1>1 DEF NettedTo
  <2>2. QED
    BY <2>1, SameReqOfNext DEF Executing
<1>2. CASE net # 0
  <2>1. /\ pc' \in {"net", "cons"}
        /\ \/ frame' = [frame EXCEPT !.net = net]
           \/ frame' = [frame EXCEPT !.net = net, !.subIdx = @ + 1]
    BY <1>2 DEF NettedTo
  <2>2. frame'.part = frame.part /\ frame'.fillPer = frame.fillPer /\ frame'.qty = frame.qty
    BY <2>1 DEF FrameOK, NoFrame
  <2>3. QED
    BY <2>1, <2>2 DEF SameReq, Executing
<1>3. QED
  BY <1>1, <1>2

LEMMA AgreeOfNoEffect ==
  ASSUME InPerm, BomEntryNotInEffect PROVE BooksAgree
<1>0. Allocation /\ FrameOK /\ pc = "bom" /\ pc' = "bom" /\ frame' = NextBomEntry
      /\ frame.bomIdx \in DOMAIN Bom[FrameOpn] /\ ~InEffect(FrameBom, frame.execPer)
      /\ UNCHANGED <<base, req, top, cursor>>
  BY DEF InPerm, Allocation, BomEntryNotInEffect, CommitUnchanged, callVars
<1>1. SameReq
  BY <1>0, SameReqOfNext
<1>2. Exploded /\ pc \in Scanning /\ pc \in Exploding /\ pc' \in Exploding
  BY <1>0 DEF Exploded, Executing, Exploding, Scanning
<1>3. UnseenMoves(FrameBom, frame.execPer, frame.delta) /\ frame.delta \in Nat
      /\ FrameBom \in BomEntries
  BY <1>0, <1>2, UnseenOfNext
<1>4. AvailStays /\ SameVols(base, base')
  BY <1>0, NothingWritten
<1>5. frame.delta \in Int
  BY <1>3
<1>6. DoneMoves(FrameBom, frame.execPer, frame.delta)
  BY <1>0, <1>3, <1>4, <1>5, DoneOfUnseen
<1>7. OwedStays
  BY <1>0, <1>1, <1>2, <1>4, TakesOfSame, OwedOfNothing
<1>8. frame.execPer \in Periods /\ FrameBom \in Entries
  BY <1>0, <1>2, <1>3, ExplosionIs DEF Exploded, Entries
<1>9. HeldStays
  <2>1. UNCHANGED <<supplyVol, shipVol>>
    BY SameInputs DEF ExplodeStep
  <2>2. QED
    BY <1>0, <1>5, <1>6, <1>7, <1>8, <2>1, HeldOfNoEffect
<1>10. QED
  BY <1>0, <1>3, <1>6, <1>9, MovesGrow DEF BooksAgree

LEMMA AgreeOfNothing ==
  ASSUME Allocation, UNCHANGED <<supplyVol, shipVol>>, DoneStays, OwedStays
  PROVE  BooksAgree
  BY HeldOfNothing, StaysGrow DEF BooksAgree

LEMMA AgreeOfBegun ==
  ASSUME InPerm, ExplodeBomEntry PROVE BooksAgree
<1>0. Allocation /\ FrameOK /\ pc = "bom" /\ pc' \in {"net", "cons"}
      /\ frame' = [frame EXCEPT !.net = frame.delta]
      /\ UNCHANGED <<base, req, top, cursor>>
  BY DEF InPerm, Allocation, ExplodeBomEntry, CommitUnchanged, callVars
<1>1. SameReq
  BY <1>0 DEF SameReq, FrameOK, NoFrame
<1>2. Exploded /\ pc \in Exploding /\ pc' \in Exploding
  BY <1>0 DEF Exploded, Executing, Exploding
<1>3. UnseenStays
  BY <1>2, UnseenOfBegun
<1>4. AvailStays /\ SameVols(base, base')
  BY <1>0, NothingWritten
<1>5. DoneStays /\ OwedStays
  BY <1>1, <1>2, <1>3, <1>4, <1>0, DoneOfNothing, TakesOfSame, OwedOfNothing
<1>6. UNCHANGED <<supplyVol, shipVol>>
  BY SameInputs DEF ExplodeStep
<1>7. QED
  BY <1>0, <1>5, <1>6, AgreeOfNothing

LEMMA AgreeOfBopStart ==
  ASSUME InPerm, CallMeans, BomEntriesExploded PROVE BooksAgree
<1>0. Allocation /\ FrameOK /\ pc = "bom" /\ pc' = "bop"
      /\ frame' = [frame EXCEPT !.bopIdx = 1]
      /\ UNCHANGED <<base, req, top, cursor>>
  BY DEF InPerm, Allocation, BomEntriesExploded, CommitUnchanged, callVars
<1>1. SameReq
  BY <1>0 DEF SameReq, FrameOK, NoFrame
<1>2. Exploded /\ pc \in Exploding /\ pc' \in Exploding
  BY <1>0 DEF Exploded, Executing, Exploding
<1>3. UnseenStays
  BY <1>2, UnseenOfBopStart
<1>4. AvailStays /\ SameVols(base, base')
  BY <1>0, NothingWritten
<1>5. DoneStays /\ OwedStays
  BY <1>1, <1>2, <1>3, <1>4, <1>0, DoneOfNothing, TakesOfSame, OwedOfNothing
<1>6. UNCHANGED <<supplyVol, shipVol>>
  BY SameInputs DEF ExplodeStep
<1>7. QED
  BY <1>0, <1>5, <1>6, AgreeOfNothing

LEMMA AgreeOfEntry ==
  ASSUME Allocation, UNCHANGED <<supplyVol, shipVol>>,
         NEW e \in Entries, NEW u \in Periods, NEW k \in Nat, DoneMoves(e, u, k),
         InEffect(e, u),
         NEW d \in Int, OwedMoves(PartOf[e], Impact[e][u], d), d + Volume(e, k) = 0
  PROVE  BooksAgree
<1>1. k \in Int
  OBVIOUS
<1>2. HeldStays
  BY <1>1, HeldOfEntry
<1>3. QED
  BY <1>2, MovesGrow DEF BooksAgree

LEMMA AgreeOfPass ==
  ASSUME InPerm, pc = "net", NettedTo(frame.net),
         UNCHANGED <<base, req, top, cursor, supplyVol, shipVol>>
  PROVE  BooksAgree
<1>0. Allocation /\ FrameOK
  BY DEF InPerm, Allocation
<1>1. SameReq /\ pc' \in Executing
  BY <1>0, SameReqOfNetting
<1>2. Exploded /\ pc \in Exploding /\ pc' \in Exploding /\ pc \in Executing
  BY <1>0, <1>1 DEF Exploded, Executing, Exploding
<1>3. frame.net \in Nat
  BY <1>0, <1>2, ExplosionIs
<1>4. UnseenMoves(FrameBom, frame.execPer, frame.net - frame.net)
  BY <1>0, <1>2, <1>3, UnseenOfNetting
<1>5. AvailStays /\ SameVols(base, base')
  BY <1>0, NothingWritten
<1>6. UnseenStays
  <2> SUFFICES ASSUME NEW f \in Entries, NEW w \in Periods
               PROVE  Unseen(f, w)' = Unseen(f, w)
    BY DEF UnseenStays
  <2>1. Unseen(f, w) \in Nat
    BY <1>0, UnseenIsInt DEF Allocation
  <2>2. Unseen(f, w)' = Unseen(f, w) - IF f = FrameBom /\ w = frame.execPer
                                       THEN frame.net - frame.net ELSE 0
    BY <1>4 DEF UnseenMoves
  <2>3. QED
    BY <1>3, <2>1, <2>2
<1>7. DoneStays /\ OwedStays
  BY <1>0, <1>1, <1>2, <1>5, <1>6, DoneOfNothing, TakesOfSame, OwedOfNothing
<1>8. QED
  BY <1>0, <1>7, AgreeOfNothing

LEMMA AgreeOfSkip ==
  ASSUME InPerm, SkipSubEntry PROVE BooksAgree
<1>1. pc = "net" /\ NettedTo(frame.net) /\ UNCHANGED <<base, req, top, cursor>>
  BY DEF SkipSubEntry, CommitUnchanged, callVars
<1>2. UNCHANGED <<supplyVol, shipVol>>
  BY SameInputs DEF ExplodeStep
<1>3. QED
  BY <1>1, <1>2, AgreeOfPass

------------------------------------------------------------------------------

\* A store that differs from base by a more in what is available of p in t.
Holds(s, p, t, a) ==
  /\ Sound(s) /\ SameVols(base, s.mem)
  /\ \A q \in Parts, v \in Periods :
       s.mem[AvailLoc(q, v)] = base[AvailLoc(q, v)] + IF q = p /\ v = t THEN a ELSE 0

LEMMA AddHolds ==
  ASSUME Allocation, mode # "temp", pc # "restore", NEW p \in Parts, NEW t \in Periods,
         NEW a \in Int
  PROVE  Holds(AddAvail(soln, p, t, a), p, t, a)
<1>1. Sound(soln) /\ soln.mem = base /\ IntMem(base)
  BY PermSoln
<1>2. PICK n : n = AddAvail(soln, p, t, a)
  OBVIOUS
<1>3. Sound(n) /\ AddsTo(soln, p, t, a, n)
  BY <1>1, <1>2, AddAvailSound
<1>4. ASSUME NEW q \in Parts, NEW v \in Periods
      PROVE  n.mem[AvailLoc(q, v)] = base[AvailLoc(q, v)] + IF q = p /\ v = t THEN a ELSE 0
  <2>1. base[AvailLoc(q, v)] \in Int
    BY <1>1, AvailIsInt
  <2>2. CASE q = p /\ v = t
    BY <1>1, <1>3, <2>2 DEF AddsTo
  <2>3. CASE ~(q = p /\ v = t)
    <3>1. <<q, v>> # <<p, t>>
      BY <2>3
    <3>2. n.mem[AvailLoc(q, v)] = base[AvailLoc(q, v)]
      BY <1>1, <1>3, <3>1 DEF AddsTo
    <3>3. QED
      BY <2>1, <2>3, <3>2
  <2>4. QED
    BY <2>2, <2>3
<1>5. Holds(n, p, t, a)
  BY <1>1, <1>3, <1>4 DEF Holds, SameVols, AddsTo
<1>6. QED
  BY <1>2, <1>5

LEMMA SolnHolds ==
  ASSUME Allocation, mode = "perm", pc # "restore", NEW p, NEW t
  PROVE  Holds(soln, p, t, 0)
<1>1. Sound(soln) /\ soln.mem = base /\ IntMem(base)
  BY PermSoln
<1>2. \A q \in Parts, v \in Periods : base[AvailLoc(q, v)] \in Int
  BY <1>1, AvailIsInt
<1>3. QED
  BY <1>1, <1>2 DEF Holds, SameVols

LEMMA NettedHolds ==
  ASSUME Allocation, mode = "perm", pc # "restore", NEW p \in Parts, NEW t \in Periods,
         NEW vol \in Nat
  PROVE  Holds(NettedStore(soln, p, t, vol), p, t, -vol)
<1>1. CASE vol = 0
  BY <1>1, SolnHolds, MinusZero DEF NettedStore
<1>2. CASE vol # 0
  BY <1>2, AddHolds DEF NettedStore
<1>3. QED
  BY <1>1, <1>2

LEMMA HeldIsWritten ==
  ASSUME mode = "perm", NEW s, NEW p, NEW t, NEW a, Holds(s, p, t, a), Write(s)
  PROVE  AvailMoves(p, t, a) /\ SameVols(base, base')
<1>1. base' = s.mem
  BY PermWrite
<1>2. QED
  BY <1>1 DEF Holds, AvailMoves

\* The store after one more substitution of c in period u.
LEMMA SubIsWritten ==
  ASSUME mode = "perm", NEW s, NEW p, NEW t, NEW a, Holds(s, p, t, a),
         NEW c \in SubEntries, NEW u \in Periods, NEW vol \in Int,
         Write(Put(s, SubLoc(c, u), s.mem[SubLoc(c, u)] + vol, mode = "temp"))
  PROVE  AvailMoves(p, t, a) /\ base' = WithSub(s.mem, c, u, vol) /\ IntMem(s.mem)
<1>0. Sound(s) /\ IntMem(s.mem) /\ StoreShape(s)
  BY DEF Holds, Sound
<1>1. PICK loc : loc = SubLoc(c, u)
  OBVIOUS
<1>2. loc \in SolnLocs /\ loc[2] = "subVol" /\ KindOf(loc) \in Kinds
  BY <1>1, SolnVars, SolnLocsHaveKinds
<1>3. PICK val : val = s.mem[SubLoc(c, u)] + vol
  OBVIOUS
<1>4. val \in Int
  BY <1>0, <1>1, <1>2, <1>3 DEF IntMem
<1>5. PICK n : n = Put(s, loc, val, mode = "temp")
  OBVIOUS
<1>6. SameAvail(s, n)
  BY <1>0, <1>2, <1>4, <1>5, PutSound
<1>7. n.mem = [s.mem EXCEPT ![loc] = val]
  BY <1>0, <1>2, <1>5, PutIs
<1>8. base' = n.mem
  BY <1>1, <1>3, <1>5, PermWrite
<1>9. base' = WithSub(s.mem, c, u, vol)
  BY <1>1, <1>3, <1>7, <1>8 DEF WithSub
<1>10. AvailMoves(p, t, a)
  BY <1>6, <1>8 DEF AvailMoves, Holds, SameAvail
<1>11. QED
  BY <1>0, <1>9, <1>10

LEMMA ConsIs ==
  ASSUME Allocation, pc = "net"
  PROVE  /\ FrameBom \in BomEntries /\ FrameBom \in Entries
         /\ \/ FrameCons = FrameBom /\ FrameCons \notin SubEntries
            \/ /\ FrameCons \in SubEntries
               /\ \E i \in DOMAIN Subs[FrameBom] : FrameCons = Subs[FrameBom][i]
<1>1. FrameOK /\ frame.subIdx \in 0..Len(Subs[FrameBom])
  BY DEF Allocation, FrameOK
<1>2. FrameBom \in BomEntries
  BY <1>1, FrameEntries
<1>3. Subs[FrameBom] \in Seq(SubEntries)
  BY <1>2, SubsAre
<1>4. FrameBom \in Entries
  BY <1>2 DEF Entries
<1>5. CASE frame.subIdx = 0
  BY <1>2, <1>4, <1>5, EntriesAre DEF FrameCons
<1>6. CASE frame.subIdx # 0
  <2>1. PICK i : i = frame.subIdx
    OBVIOUS
  <2>2. i \in DOMAIN Subs[FrameBom] /\ FrameCons = Subs[FrameBom][i]
    BY <1>1, <1>3, <1>6, <2>1 DEF FrameCons
  <2>3. FrameCons \in SubEntries
    BY <1>2, <2>2, SubsAre
  <2>4. QED
    BY <1>2, <1>4, <2>2, <2>3
<1>7. QED
  BY <1>5, <1>6

LEMMA ConsInEffect ==
  ASSUME Allocation, pc = "net", NetIsAllowed(FrameCons)
  PROVE  InEffect(FrameCons, frame.execPer)
<1>1. InEffect(FrameBom, frame.execPer)
  BY DEF Allocation, FrameType, ScanType
<1>2. QED
  BY <1>1, ConsIs DEF NetIsAllowed

\* vol executions of the entry being netted, or of one of its substitutes,
\* are accounted, and a is what that adds to what is available.
LEMMA AgreeOfNetted ==
  ASSUME InPerm, pc = "net", NetIsAllowed(FrameCons),
         UNCHANGED <<req, top, cursor, supplyVol, shipVol>>,
         NEW vol \in Nat, vol <= frame.net, NettedTo(frame.net - vol),
         NEW a \in Int, a = Volume(FrameCons, vol),
         NEW s, Holds(s, PartOf[FrameCons], Impact[FrameCons][frame.execPer], a),
         Write(IF FrameCons \in SubEntries
               THEN Put(s, SubLoc(FrameCons, frame.execPer),
                        s.mem[SubLoc(FrameCons, frame.execPer)] + vol, mode = "temp")
               ELSE s)
  PROVE  BooksAgree
<1>0. Allocation /\ FrameOK /\ FrameType /\ TopType
  BY DEF InPerm, Allocation, Locals
<1>1. SameReq /\ pc' \in Executing
  BY <1>0, SameReqOfNetting
<1>2. Exploded /\ pc \in Exploding /\ pc' \in Exploding /\ pc \in Executing /\ mode = "perm"
  BY <1>0, <1>1 DEF Exploded, Executing, Exploding, InPerm
<1>3. frame.net \in Nat /\ frame.execPer \in Periods
  BY <1>0, <1>2, ExplosionIs
<1>4. UnseenMoves(FrameBom, frame.execPer, vol)
  <2>1. frame.net - vol \in Nat /\ frame.net - (frame.net - vol) = vol
    BY <1>3
  <2>2. UnseenMoves(FrameBom, frame.execPer, frame.net - (frame.net - vol))
    BY <1>2, <2>1, UnseenOfNetting
  <2>3. QED
    BY <2>1, <2>2
<1>5. PICK c, p, t, u : /\ c = FrameCons /\ p = PartOf[c] /\ u = frame.execPer
                        /\ t = Impact[c][u]
  OBVIOUS
<1>6. c \in Entries /\ p \in Parts /\ t \in Periods /\ u \in Periods /\ InEffect(c, u)
  BY <1>0, <1>5, ConsMeans, ConsInEffect
<1>7. FrameBom \in BomEntries
  BY <1>0, ConsIs
<1>8. AvailMoves(p, t, a) /\ DoneMoves(c, u, vol)
  <2>1. CASE c \in SubEntries
    <3>1. /\ AvailMoves(p, t, a) /\ base' = WithSub(s.mem, c, u, vol) /\ IntMem(s.mem)
      BY <1>2, <1>3, <1>5, <2>1, SubIsWritten
    <3>2. PICK i \in DOMAIN Subs[FrameBom] : c = Subs[FrameBom][i]
      BY <1>0, <1>5, <2>1, ConsIs
    <3>3. SameVols(base, s.mem)
      BY DEF Holds
    <3>4. PICK mid : mid = s.mem
      OBVIOUS
    <3>5. DoneMoves(c, u, vol)
      BY <1>0, <1>4, <1>5, <1>6, <1>7, <3>1, <3>2, <3>3, <3>4, DoneOfSub
    <3>6. QED
      BY <3>1, <3>5
  <2>2. CASE c \notin SubEntries
    <3>1. AvailMoves(p, t, a) /\ SameVols(base, base')
      BY <1>2, <1>5, <2>2, HeldIsWritten
    <3>2. c = FrameBom
      BY <1>0, <1>5, <2>2, ConsIs
    <3>3. DoneMoves(c, u, vol)
      BY <1>0, <1>4, <1>5, <3>1, <3>2, DoneOfUnseen
    <3>4. QED
      BY <3>1, <3>3
  <2>3. QED
    BY <2>1, <2>2
<1>9. OwedMoves(p, t, -a)
  BY <1>0, <1>1, <1>2, <1>8, TakesOfSame, OwedOfAvail
<1>10. -a \in Int /\ -a + Volume(c, vol) = 0
  BY <1>5
<1>11. QED
  BY <1>0, <1>5, <1>6, <1>8, <1>9, <1>10, AgreeOfEntry

------------------------------------------------------------------------------

LEMMA AgreeOfNetCons ==
  ASSUME InPerm, NetConsEntry PROVE BooksAgree
<1>0. Allocation /\ FrameOK /\ TopType /\ FrameType /\ Sched /\ mode = "perm"
  BY DEF InPerm, Allocation, Locals
<1>1. PICK c : c = FrameCons
  OBVIOUS
<1>2. PICK p, t, net : p = PartOf[c] /\ t = Impact[c][frame.execPer] /\ net = frame.net
  OBVIOUS
<1>3. PICK vol : vol = NetWoSRVol(soln, p, t, net)
  OBVIOUS
<1>4. PICK u : u = frame.execPer
  OBVIOUS
<1>5. PICK n : n = NettedStore(soln, p, t, vol)
  OBVIOUS
<1>6. PICK s : s = IF c \in SubEntries /\ vol > 0
                   THEN Put(n, SubLoc(c, u), n.mem[SubLoc(c, u)] + vol, mode = "temp")
                   ELSE n
  BY SMTT(30)
<1>7. /\ pc = "net" /\ NetIsAllowed(FrameCons) /\ Write(s) /\ NettedTo(net - vol)
      /\ req' = req /\ cursor' = cursor /\ top' = top /\ Rate[c] = 1
  BY <1>0, <1>1, <1>2, <1>3, <1>4, <1>5, <1>6
     DEF NetConsEntry, NettedStore, CommitUnchanged, callVars
<1>8. p \in Parts /\ t \in Periods /\ net \in Nat /\ u \in Periods /\ c \in Entries
  BY <1>0, <1>1, <1>2, <1>4, <1>7, ConsMeans
<1>9. SoundAndFeasible(soln)
  BY <1>0, <1>7 DEF Sched
<1>10. vol \in 0..net
  BY <1>3, <1>8, <1>9, NetFeasible
<1>11. UNCHANGED <<supplyVol, shipVol>>
  BY SameInputs DEF ExplodeStep
<1>12. CASE vol = 0
  <2>1. base' = base
    <3>1. s = soln
      BY <1>5, <1>6, <1>12 DEF NettedStore
    <3>2. QED
      BY <1>0, <1>7, <3>1, WroteNothing
  <2>2. NettedTo(frame.net)
    BY <1>2, <1>7, <1>8, <1>12
  <2>3. QED
    BY <1>7, <1>11, <2>1, <2>2, AgreeOfPass
<1>13. CASE vol # 0
  <2>1. Holds(n, p, t, -vol)
    BY <1>0, <1>5, <1>7, <1>8, <1>10, NettedHolds
  <2>2. vol \in Nat /\ vol <= frame.net /\ -vol \in Int /\ vol > 0
    BY <1>2, <1>8, <1>10, <1>13
  <2>3. -vol = Volume(c, vol)
    <3>1. c \notin BopEntries
      BY <1>0, <1>1, <1>7, <1>8, ConsIs, EntriesAre
    <3>2. QED
      BY <1>7, <2>2, <3>1 DEF Volume
  <2>4. s = IF c \in SubEntries
            THEN Put(n, SubLoc(c, u), n.mem[SubLoc(c, u)] + vol, mode = "temp") ELSE n
    BY <1>6, <2>2
  <2>5. PICK a \in Int : a = -vol
    BY <2>2
  <2>6. NettedTo(frame.net - vol)
    BY <1>2, <1>7
  <2>7. Holds(n, PartOf[FrameCons], Impact[FrameCons][frame.execPer], a)
    BY <1>1, <1>2, <2>1, <2>5
  <2>8. a = Volume(FrameCons, vol)
    BY <1>1, <2>3, <2>5
  <2>9. Write(IF FrameCons \in SubEntries
               THEN Put(n, SubLoc(FrameCons, frame.execPer),
                        n.mem[SubLoc(FrameCons, frame.execPer)] + vol, mode = "temp")
               ELSE n)
    BY <1>1, <1>4, <1>7, <2>4
  <2>10. QED
    BY <1>7, <1>11, <2>2, <2>6, <2>7, <2>8, <2>9, AgreeOfNetted
<1>14. QED
  BY <1>12, <1>13

LEMMA AgreeOfByProduct ==
  ASSUME InPerm, NetByProductEntry PROVE BooksAgree
<1>0. Allocation /\ FrameOK /\ TopType /\ FrameType /\ mode = "perm"
  BY DEF InPerm, Allocation, Locals
<1>1. PICK c : c = FrameCons
  OBVIOUS
<1>2. PICK p, t, net : p = PartOf[c] /\ t = Impact[c][frame.execPer] /\ net = frame.net
  OBVIOUS
<1>3. PICK a : a = -(Rate[c] * net)
  OBVIOUS
<1>4. PICK u : u = frame.execPer
  OBVIOUS
<1>5. PICK n : n = IF Rate[c] = 0 THEN soln ELSE AddAvail(soln, p, t, a)
  OBVIOUS
<1>6. PICK s : s = IF c \in SubEntries
                   THEN Put(n, SubLoc(c, u), n.mem[SubLoc(c, u)] + net, mode = "temp")
                   ELSE n
  OBVIOUS
<1>7. /\ pc = "net" /\ NetIsAllowed(FrameCons) /\ Rate[c] <= 0 /\ Write(s) /\ NettedTo(0)
      /\ req' = req /\ cursor' = cursor /\ top' = top
  BY <1>0, <1>1, <1>2, <1>3, <1>4, <1>5, <1>6
     DEF NetByProductEntry, ConsumedQty, CommitUnchanged, callVars
<1>8. /\ p \in Parts /\ t \in Periods /\ net \in Nat /\ u \in Periods /\ c \in Entries
      /\ Rate[c] \in Int
  BY <1>0, <1>1, <1>2, <1>4, <1>7, ConsMeans
<1>9. a \in Int
  <2>1. a \in Nat
    BY <1>3, <1>7, <1>8, NegativeIsGiven
  <2>2. QED
    BY <2>1
<1>10. UNCHANGED <<supplyVol, shipVol>>
  BY SameInputs DEF ExplodeStep
<1>11. a = Volume(c, net)
  <2>1. c \notin BopEntries
    BY <1>0, <1>1, <1>7, <1>8, ConsIs, EntriesAre
  <2>2. QED
    BY <1>3, <2>1 DEF Volume
<1>12. Holds(n, p, t, a)
  <2>1. CASE Rate[c] = 0
    <3>1. a = 0
      BY <1>3, <1>8, <2>1, MinusZero
    <3>2. QED
      BY <1>0, <1>5, <1>7, <2>1, <3>1, SolnHolds
  <2>2. CASE Rate[c] # 0
    BY <1>0, <1>5, <1>7, <1>8, <1>9, <2>2, AddHolds
  <2>3. QED
    BY <2>1, <2>2
<1>13. net <= frame.net /\ NettedTo(frame.net - net)
  BY <1>2, <1>7, <1>8
<1>14. Write(IF FrameCons \in SubEntries
             THEN Put(n, SubLoc(FrameCons, frame.execPer),
                      n.mem[SubLoc(FrameCons, frame.execPer)] + net, mode = "temp")
             ELSE n)
  BY <1>1, <1>4, <1>6, <1>7
<1>15. Holds(n, PartOf[FrameCons], Impact[FrameCons][frame.execPer], a)
       /\ a = Volume(FrameCons, net)
  BY <1>1, <1>2, <1>11, <1>12
<1>16. QED
  BY <1>7, <1>8, <1>9, <1>10, <1>13, <1>14, <1>15, AgreeOfNetted

\* A requirement ahead of the cursor is owed.
LEMMA OwedOfReq ==
  ASSUME Allocation, Booking, Booking', pc # "fill", pc' # "fill", SameReq,
         NEW p \in Parts, NEW t \in Periods, NEW qty \in Int, req' = AddTo(req, p, t, qty),
         Ahead(p, t), AvailStays
  PROVE  OwedMoves(p, t, qty)
<1> SUFFICES ASSUME NEW q \in Parts, NEW v \in Periods
             PROVE  Owed(q, v)' = Owed(q, v) + IF q = p /\ v = t THEN qty ELSE 0
  BY DEF OwedMoves
<1>0. Typed(req, ReqLocs)
  BY DEF Allocation, Sched
<1>1. PICK x, y, z \in Int : x = Pend(q, v) /\ y = InFrame(q, v) /\ z = base[AvailLoc(q, v)]
  BY HeldIsInt
<1>2. InFrame(q, v)' = y /\ base'[AvailLoc(q, v)] = z
  BY <1>1 DEF InFrame, AvailStays, SameReq
<1>3. Ahead(q, v)' = Ahead(q, v)
  BY DEF Ahead, Passed, TopList, SameReq
<1>4. Pend(q, v)' = x + IF q = p /\ v = t THEN qty ELSE 0
  <2>1. CASE q = p /\ v = t
    <3>1. ReqVol(req', p, t) = ReqVol(req, p, t) + qty
      BY <1>0, AddToIs
    <3>2. x = ReqVol(req, p, t) /\ Pend(q, v)' = ReqVol(req', p, t)
      BY <1>1, <1>3, <2>1 DEF Pend, ReqVol
    <3>3. QED
      BY <2>1, <3>1, <3>2
  <2>2. CASE ~(q = p /\ v = t)
    <3>1. <<q, v>> # <<p, t>>
      BY <2>2
    <3>2. ReqVol(req', q, v) = ReqVol(req, q, v)
      BY <1>0, <3>1, TypedAddTo
    <3>3. Pend(q, v)' = x
      BY <1>1, <1>3, <3>2 DEF Pend, ReqVol
    <3>4. QED
      BY <1>1, <2>2, <3>3
  <2>3. QED
    BY <2>1, <2>2
<1>5. Owed(q, v) = x + y - z /\ Owed(q, v)' = Pend(q, v)' + InFrame(q, v)' - base'[AvailLoc(q, v)]
  BY <1>1 DEF Owed
<1>6. QED
  BY <1>2, <1>4, <1>5

LEMMA OwedBy0 ==
  ASSUME Allocation, OwedStays, NEW p, NEW t PROVE OwedMoves(p, t, 0)
<1> SUFFICES ASSUME NEW q \in Parts, NEW v \in Periods
             PROVE  Owed(q, v)' = Owed(q, v) + IF q = p /\ v = t THEN 0 ELSE 0
  BY DEF OwedMoves
<1>1. Owed(q, v) \in Int
  BY HeldIsInt
<1>2. QED
  BY <1>1 DEF OwedStays

------------------------------------------------------------------------------

LEMMA AgreeOfConsEntry ==
  ASSUME InPerm, ExplodeConsEntry PROVE BooksAgree
<1>0. Allocation /\ FrameOK /\ TopType /\ FrameType /\ mode = "perm"
  BY DEF InPerm, Allocation, Locals
<1>1. PICK p, u, t : p = PartOf[FrameBom] /\ u = frame.execPer /\ t = Impact[FrameBom][u]
  OBVIOUS
<1>2. PICK qty : qty = ConsumedQty(FrameBom, frame.net)
  OBVIOUS
<1>3. PICK s : s = IF qty < 0 THEN AddAvail(soln, p, t, -qty) ELSE soln
  OBVIOUS
<1>4. /\ pc = "cons" /\ pc' = "bom" /\ frame' = NextBomEntry
      /\ req' = IF qty > 0 THEN AddTo(req, p, t, qty) ELSE req
      /\ Write(s) /\ cursor' = cursor /\ top' = top
  BY <1>1, <1>2, <1>3 DEF ExplodeConsEntry, CommitUnchanged, callVars
<1>5. /\ p \in Parts /\ t \in Periods /\ u \in Periods /\ FrameBom \in BomEntries
      /\ frame.net \in Nat /\ qty \in Int
      /\ \A i \in DOMAIN TopList, v \in Periods : TopList[i] = p => ~Passed(i, v)
  BY <1>0, <1>1, <1>2, <1>4, ConsumedReq
<1>6. Ahead(p, t)
  BY <1>5 DEF Ahead
<1>7. InEffect(FrameBom, u) /\ FrameBom \in Entries
  BY <1>0, <1>1, <1>4, <1>5 DEF FrameType, ScanType, Entries
<1>8. SameReq
  BY <1>0, <1>4, SameReqOfNext
<1>9. /\ Exploded /\ pc \in Exploding /\ pc' \in Exploding /\ pc \in Scanning
      /\ Booking /\ Booking' /\ pc # "fill" /\ pc' # "fill"
  BY <1>4 DEF Exploded, Executing, Exploding, Scanning, InPerm, Booking
<1>10. UnseenMoves(FrameBom, u, frame.net)
  <2>1. frame.bomIdx \in DOMAIN Bom[FrameOpn] /\ frame.execPer = u
    BY <1>0, <1>1, <1>4 DEF FrameOK
  <2>2. QED
    BY <1>4, <1>9, <2>1, UnseenOfNext
<1>11. UNCHANGED <<supplyVol, shipVol>>
  BY SameInputs DEF ExplodeStep
<1>12. OwedMoves(p, t, qty) /\ SameVols(base, base')
  <2>1. CASE qty > 0
    <3>0. s = soln
      BY <1>3, <1>5, <2>1
    <3>1. base' = base
      BY <1>0, <1>4, <3>0, WroteNothing
    <3>2. AvailStays /\ SameVols(base, base')
      BY <3>1, NothingWritten
    <3>3. req' = AddTo(req, p, t, qty)
      BY <1>4, <2>1
    <3>4. QED
      BY <1>0, <1>5, <1>6, <1>8, <1>9, <3>2, <3>3, OwedOfReq
  <2>2. CASE qty < 0
    <3>1. PICK a \in Int : a = -qty
      BY <1>5
    <3>2. AvailMoves(p, t, a) /\ SameVols(base, base')
      BY <1>0, <1>3, <1>4, <1>5, <2>2, <3>1, WroteAvail
    <3>3. req' = req
      BY <1>4, <1>5, <2>2
    <3>4. OwedMoves(p, t, -a)
      BY <1>0, <1>8, <1>9, <3>2, <3>3, TakesOfSame, OwedOfAvail
    <3>5. -a = qty
      BY <1>5, <3>1
    <3>6. QED
      BY <3>2, <3>4, <3>5
  <2>3. CASE qty = 0
    <3>1. base' = base /\ req' = req
      BY <1>0, <1>3, <1>4, <2>3, WroteNothing
    <3>2. AvailStays /\ SameVols(base, base')
      BY <3>1, NothingWritten
    <3>3. OwedStays
      BY <1>0, <1>8, <1>9, <3>1, <3>2, TakesOfSame, OwedOfNothing
    <3>4. QED
      BY <1>0, <2>3, <3>2, <3>3, OwedBy0
  <2>4. QED
    BY <1>5, <2>1, <2>2, <2>3
<1>13. DoneMoves(FrameBom, u, frame.net)
  <2>1. frame.net \in Int
    BY <1>5
  <2>2. QED
    BY <1>0, <1>10, <1>12, <2>1, DoneOfUnseen
<1>14. qty + Volume(FrameBom, frame.net) = 0
  <2>1. FrameBom \notin BopEntries
    BY <1>5, <1>7, EntriesAre
  <2>2. Volume(FrameBom, frame.net) = -qty
    BY <1>2, <2>1 DEF Volume, ConsumedQty
  <2>3. QED
    BY <1>5, <2>2
<1>15. OwedMoves(PartOf[FrameBom], Impact[FrameBom][u], qty)
  BY <1>1, <1>12
<1>16. QED
  BY <1>0, <1>5, <1>7, <1>11, <1>13, <1>14, <1>15, AgreeOfEntry

LEMMA AgreeOfBop ==
  ASSUME InPerm, ExplodeBopEntry PROVE BooksAgree
<1>0. Allocation /\ FrameOK /\ TopType /\ FrameType /\ mode = "perm"
  BY DEF InPerm, Allocation, Locals
<1>1. PICK e, u : e = Bop[FrameOpn][frame.bopIdx] /\ u = frame.execPer
  OBVIOUS
<1>2. PICK p, t : p = PartOf[e] /\ t = Impact[e][u]
  OBVIOUS
<1>3. PICK vol : vol = IF InEffect(e, u) THEN frame.delta * Rate[e] ELSE 0
  OBVIOUS
<1>4. PICK s : s = IF vol > 0 THEN AddAvail(soln, p, t, vol) ELSE soln
  OBVIOUS
<1>5. /\ pc = "bop" /\ pc' = "bop"
      /\ Write(s) /\ frame' = [frame EXCEPT !.bopIdx = @ + 1]
      /\ req' = req /\ cursor' = cursor /\ top' = top
  BY <1>1, <1>2, <1>3, <1>4 DEF ExplodeBopEntry, CommitUnchanged, callVars
<1>6. /\ Exploded /\ pc \in Exploding /\ pc' \in Exploding /\ pc \in Executing
  BY <1>5 DEF Exploded, Executing, Exploding, InPerm
<1>7. UnseenMoves(e, u, frame.delta) /\ e \in BopEntries
  BY <1>1, <1>6, UnseenOfBop
<1>8. frame.delta \in Nat /\ u \in Periods
  BY <1>0, <1>1, <1>6, ExplosionIs
<1>9. SameReq
  BY <1>0, <1>5 DEF SameReq, FrameOK, NoFrame
<1>10. e \in Entries /\ Rate[e] \in Int /\ Rate[e] >= 0
  <2>1. e \in Entries
    BY <1>7 DEF Entries
  <2>2. Rate[e] \in Int
    BY <2>1, BillsAssumption
  <2>3. Rate[e] >= 0
    BY <1>7, EntriesAssumption
  <2>4. QED
    BY <2>1, <2>2, <2>3
<1>11. UNCHANGED <<supplyVol, shipVol>>
  BY SameInputs DEF ExplodeStep
<1>12. CASE InEffect(e, u)
  <2>1. p \in Parts /\ t \in Periods
    BY <1>2, <1>8, <1>10, <1>12, ImpactInEffect
  <2>2. vol \in Nat /\ vol = Rate[e] * frame.delta
    <3>1. PICK rate \in Nat : rate = Rate[e]
      BY <1>10
    <3>2. PICK d \in Nat : d = frame.delta
      BY <1>8
    <3>3. d * rate \in Nat /\ d * rate = rate * d
      BY SMTT(30)
    <3>4. QED
      BY <1>3, <1>12, <3>1, <3>2, <3>3
  <2>3. AvailMoves(p, t, vol) /\ SameVols(base, base')
    <3>1. CASE vol > 0
      <4>1. vol \in Int
        BY <2>2
      <4>2. Write(AddAvail(soln, p, t, vol))
        BY <1>4, <1>5, <3>1
      <4>3. QED
        BY <1>0, <1>5, <2>1, <4>1, <4>2, WroteAvail
    <3>2. CASE vol = 0
      <4>1. base' = base
        BY <1>0, <1>4, <1>5, <3>2, WroteNothing
      <4>2. AvailStays /\ SameVols(base, base')
        BY <4>1, NothingWritten
      <4>3. QED
        BY <1>0, <3>2, <4>2, AvailMovesBy0
    <3>3. QED
      BY <2>2, <3>1, <3>2
  <2>4. OwedMoves(p, t, -vol)
    <3>1. vol \in Int
      BY <2>2
    <3>2. QED
      BY <1>0, <1>5, <1>6, <1>9, <2>3, <3>1, TakesOfSame, OwedOfAvail
  <2>5. DoneMoves(e, u, frame.delta)
    <3>1. frame.delta \in Int
      BY <1>8
    <3>2. QED
      BY <1>0, <1>7, <2>3, <3>1, DoneOfUnseen
  <2>6. Volume(e, frame.delta) = vol
    BY <1>7, <2>2 DEF Volume
  <2>7. -vol \in Int /\ -vol + Volume(e, frame.delta) = 0
    BY <2>2, <2>6
  <2>8. OwedMoves(PartOf[e], Impact[e][u], -vol)
    BY <1>2, <2>4
  <2>9. QED
    BY <1>0, <1>8, <1>10, <1>11, <1>12, <2>5, <2>7, <2>8, AgreeOfEntry
<1>13. CASE ~InEffect(e, u)
  <2>1. base' = base
    BY <1>0, <1>3, <1>4, <1>5, <1>13, WroteNothing
  <2>2. AvailStays /\ SameVols(base, base')
    BY <2>1, NothingWritten
  <2>3. OwedStays
    BY <1>5, <1>6, <1>9, <2>2, TakesOfSame, OwedOfNothing
  <2>4. frame.delta \in Int
    BY <1>8
  <2>5. DoneMoves(e, u, frame.delta)
    BY <1>0, <1>7, <2>2, <2>4, DoneOfUnseen
  <2>6. HeldStays
    BY <1>0, <1>8, <1>10, <1>11, <1>13, <2>3, <2>4, <2>5, HeldOfNoEffect
  <2>7. QED
    BY <1>0, <1>8, <2>5, <2>6, MovesGrow DEF BooksAgree
<1>14. QED
  BY <1>12, <1>13

\* The requirement in progress is no longer owed: it is taken from what was
\* made.
LEMMA AgreeOfUse ==
  ASSUME InPerm, UseProduct PROVE BooksAgree
<1>0. Allocation /\ FrameOK /\ TopType /\ FrameType /\ mode = "perm"
  BY DEF InPerm, Allocation, Locals
<1>1. PICK p, t, qty : p = frame.part /\ t = frame.fillPer /\ qty = frame.qty
  OBVIOUS
<1>2. /\ pc = "bop" /\ pc' = "fill" /\ Write(AddAvail(soln, p, t, -qty))
      /\ UNCHANGED <<req, cursor, top>>
  BY <1>1 DEF UseProduct, CommitUnchanged, callVars
<1>3. p \in Parts /\ t \in Periods /\ qty \in Nat
  BY <1>0, <1>1, <1>2, FrameMeans DEF Exploding, Executing
<1>4. PICK a \in Int : a = -qty
  BY <1>3
<1>5. AvailMoves(p, t, a) /\ SameVols(base, base')
  BY <1>0, <1>2, <1>3, <1>4, WroteAvail
<1>6. UnseenStays
  BY UnseenOfUse
<1>7. DoneStays
  BY <1>5, <1>6, DoneOfNothing
<1>8. UNCHANGED <<supplyVol, shipVol>>
  BY SameInputs DEF ExplodeStep
<1>9. Booking /\ Booking'
  BY <1>2 DEF InPerm, Booking, Exploding, Executing
<1>10. ASSUME NEW q \in Parts, NEW v \in Periods PROVE Owed(q, v)' = Owed(q, v)
  <2>1. PICK x, z \in Int : x = Pend(q, v) /\ z = base[AvailLoc(q, v)]
    BY <1>0, HeldIsInt
  <2>2. Pend(q, v)' = x
    BY <1>2, <1>9, <2>1 DEF Pend, Ahead, Passed, TopList, ReqVol
  <2>3. InFrame(q, v) = (IF q = p /\ v = t THEN qty ELSE 0) /\ InFrame(q, v)' = 0
    BY <1>1, <1>2, <1>9 DEF InFrame
  <2>4. base'[AvailLoc(q, v)] = z + IF q = p /\ v = t THEN a ELSE 0
    BY <1>5, <2>1 DEF AvailMoves
  <2>5. Owed(q, v) = x + InFrame(q, v) - z /\ Owed(q, v)' = Pend(q, v)' + InFrame(q, v)' - base'[AvailLoc(q, v)]
    BY <2>1 DEF Owed
  <2>6. QED
    BY <1>3, <1>4, <2>1, <2>2, <2>3, <2>4, <2>5
<1>11. OwedStays
  BY <1>10 DEF OwedStays
<1>12. QED
  BY <1>0, <1>7, <1>8, <1>11, AgreeOfNothing

------------------------------------------------------------------------------

\* The executions that are added to execVol are still to be accounted.
LEMMA DoneOfExecution ==
  ASSUME InPerm, FrameOK, pc = "explode", pc' = "bom",
         NEW e, NEW t \in Periods, NEW delta \in Int, OpnOf[e] \in Operations,
         base' = WithExec(base, OpnOf[e], t, delta),
         frame'.bop = e, frame'.execPer = t, frame'.delta = delta, frame'.bomIdx = 1
  PROVE  DoneStays
<1> SUFFICES ASSUME NEW f \in Entries, NEW w \in Periods
             PROVE  Done(f, w)' = Done(f, w)
  BY DEF DoneStays
<1>0. IntMem(base) /\ Allocation
  BY DEF InPerm, Allocation, Sched
<1>1. Count(base, f, w) \in Int
  BY <1>0, HeldIsInt
<1>2. Unseen(f, w) = 0
  BY DEF Unseen, Executing
<1>3. Unseen(f, w)' = IF w = t /\ f \notin SubEntries /\ OpnOf[f] = OpnOf[e] THEN delta ELSE 0
  <2>1. PICK fr : fr = frame'
    OBVIOUS
  <2>2. OpnIn(fr) = OpnOf[e] /\ fr.bomIdx = 1
    BY <2>1 DEF OpnIn
  <2>3. UnseenIn("bom", fr, f) = IF f \notin SubEntries /\ OpnOf[f] = OpnIn(fr) THEN fr.delta ELSE 0
    BY <2>2, UnseenAtStart
  <2>4. Unseen(f, w)' = IF w = t THEN UnseenIn("bom", fr, f) ELSE 0
    BY <2>1 DEF Unseen, Executing, InPerm, UnseenIn, BomToSee, BopToSee, AtBom, OpnIn
  <2>5. QED
    BY <2>1, <2>2, <2>3, <2>4
<1>4. Count(base, f, w)' =
        Count(base, f, w) + IF f \notin SubEntries /\ OpnOf[f] = OpnOf[e] /\ w = t
                            THEN delta ELSE 0
  <2>1. PICK next : next = base'
    OBVIOUS
  <2>2. PICK o \in Operations : o = OpnOf[e]
    OBVIOUS
  <2>3. next = WithExec(base, o, t, delta)
    BY <2>1, <2>2
  <2>4. Count(next, f, w) =
          Count(base, f, w) + IF f \notin SubEntries /\ OpnOf[f] = o /\ w = t
                              THEN delta ELSE 0
    BY <1>0, <2>3, CountOfExec
  <2>5. Count(base, f, w)' = Count(next, f, w)
    BY <2>1 DEF Count, NonSub, SubVols
  <2>6. QED
    BY <2>2, <2>4, <2>5
<1>5. QED
  BY <1>1, <1>2, <1>3, <1>4 DEF Done

LEMMA AgreeOfExecution ==
  ASSUME InPerm, NEW e \in ExpAllowed, NEW t \in Periods, ExplodeBopEnt(e, t)
  PROVE  BooksAgree
<1>0. FrameOK /\ TopType /\ FrameType /\ Sched /\ Allocation /\ mode = "perm"
  BY DEF InPerm, Allocation, Locals
<1>1. PICK o : o = OpnOf[e]
  OBVIOUS
<1>2. PICK loc : loc = ExecLoc(o, t)
  OBVIOUS
<1>3. PICK delta : delta = LotSizeDelta(o, ExecVol(soln, o, t), frame.qty)
  BY SMTT(30)
<1>4. /\ pc = "explode" /\ pc' = "bom"
      /\ Explodeable(frame.part, FrameExpPer)
      /\ e = ExpBopEntry[frame.part][FrameExpPer]
      /\ Write(Put(soln, loc, soln.mem[loc] + delta, mode = "temp"))
      /\ frame' = [frame EXCEPT !.bop = e, !.execPer = t, !.delta = delta, !.bomIdx = 1]
      /\ req' = req /\ cursor' = cursor /\ top' = top
  BY <1>1, <1>2, <1>3
     DEF ExplodeBopEnt, ExpIsPossible, FrameDelta, CommitUnchanged, callVars
<1>5. o \in Operations
  BY <1>1, BillsAssumption DEF Entries
<1>6. loc \in SolnLocs /\ loc[2] = "execVol" /\ KindOf(loc) \in Kinds
  BY <1>2, <1>5, SolnVars, SolnLocsHaveKinds
<1>7. Sound(soln) /\ soln.mem = base /\ IntMem(base) /\ StoreShape(soln)
  BY <1>0, <1>4, PermSoln DEF Sound
<1>8. soln.mem[loc] \in Int
  BY <1>6, <1>7 DEF IntMem
<1>9. frame.qty \in Nat \ {0}
  BY <1>0, <1>4, FrameMeans DEF Exploding
<1>10. delta \in Int
  BY <1>2, <1>3, <1>5, <1>8, <1>9, LotSizesCover DEF ExecVol
<1>11. PICK val \in Int : val = soln.mem[loc] + delta
  BY <1>8, <1>10
<1>12. PICK n : n = Put(soln, loc, val, mode = "temp")
  OBVIOUS
<1>13. SameAvail(soln, n) /\ n.mem = [base EXCEPT ![loc] = val]
  BY <1>6, <1>7, <1>12, PutSound, PutIs
<1>14. base' = n.mem
  BY <1>0, <1>4, <1>11, <1>12, PermWrite
<1>15. AvailStays
  BY <1>7, <1>13, <1>14 DEF AvailStays, SameAvail
<1>16. /\ frame'.bop = e /\ frame'.execPer = t /\ frame'.delta = delta /\ frame'.bomIdx = 1
       /\ frame'.part = frame.part /\ frame'.fillPer = frame.fillPer
       /\ frame'.qty = frame.qty
  BY <1>0, <1>4 DEF FrameOK, NoFrame
<1>17. DoneStays
  <2>1. base' = WithExec(base, OpnOf[e], t, delta)
    BY <1>1, <1>2, <1>7, <1>11, <1>13, <1>14 DEF WithExec
  <2>2. OpnOf[e] \in Operations
    BY <1>1, <1>5
  <2>3. QED
    BY <1>0, <1>4, <1>10, <1>16, <2>1, <2>2, DoneOfExecution
<1>18. SameReq /\ pc \in Exploding /\ pc' \in Exploding
  BY <1>4, <1>16 DEF SameReq, Exploding, Executing
<1>19. OwedStays
  BY <1>4, <1>15, <1>18, TakesOfSame, OwedOfNothing
<1>20. UNCHANGED <<supplyVol, shipVol>>
  BY SameInputs DEF FillStep
<1>21. QED
  BY <1>0, <1>17, <1>19, <1>20, AgreeOfNothing

------------------------------------------------------------------------------

\* Between the cursor and the next requirement there is nothing to fill.
LEMMA NothingBetween ==
  ASSUME Allocation, ReqsWithin, pc = "fill", NEW j \in DOMAIN TopList, NEW v \in Periods,
         ~Passed(j, v),
         \A r \in PendingReqs : r # <<j, v>>
  PROVE  ReqVol(req, TopList[j], v) = 0
<1>0. TopType /\ Typed(req, ReqLocs)
  BY DEF Allocation, Locals, Sched
<1>1. PICK q \in Parts : q = TopList[j]
  BY <1>0, TopListParts, SeqElements DEF Trying, CommitPoints
<1>2. ReqsIn(req, TopList)
  BY DEF ReqsWithin
<1>3. SUFFICES ASSUME ReqVol(req, q, v) # 0 PROVE FALSE
  BY <1>1
<1>4. ReqVol(req, q, v) \in Int /\ ReqVol(req, q, v) >= 0
  BY <1>0, <1>2 DEF ReqsIn, Typed, ReqLocs, ReqVol
<1>5. ReqVol(req, q, v) > 0
  BY <1>3, <1>4
<1>6. FirstPer(req, q) <= v /\ v <= LastPer(req, q)
  BY <1>2, <1>5 DEF ReqsIn
<1>7. j > cursor.idx \/ (j = cursor.idx /\ v > cursor.per)
  <2>1. CursorType /\ TopList \in Seq(Parts)
    BY <1>0, TopListParts DEF Allocation, FrameType, Trying, CommitPoints
  <2>2. cursor.idx \in Nat /\ cursor.per \in Nat /\ j \in Nat /\ v \in Nat
    BY <2>1, NumberOfPeriods DEF CursorType
  <2>3. QED
    BY <2>2 DEF Passed
<1>8. PICK r : r = <<j, v>>
  OBVIOUS
<1>9. r \in (DOMAIN TopList) \X Periods /\ r[1] = j /\ r[2] = v
  BY <1>8
<1>10. r \in PendingReqs
  BY <1>1, <1>5, <1>6, <1>7, <1>9 DEF PendingReqs
<1>11. QED
  BY <1>8, <1>10

(***************************************************************************)
(* 7. So do the steps between explosions: netting of a requirement, moving *)
(* one to a later period, filling; and a permanent commit agrees with the  *)
(* books as a whole.  A temporary one does not touch them.                 *)
(***************************************************************************)

LEMMA AheadOfNext ==
  ASSUME Allocation, ReqsWithin, NEW r \in NextReqs, NEW i, NEW t, i = r[1], t = r[2],
         cursor' = [idx |-> i, per |-> t], top' = top, NEW p, p = TopList[i]
  PROVE  /\ pc = "fill" /\ i \in DOMAIN TopList /\ t \in Periods /\ p \in Parts
         /\ Ahead(p, t) /\ ~Ahead(p, t)'
         /\ \A q \in Parts, v \in Periods : Ahead(q, v)' => Ahead(q, v)
         /\ \A q \in Parts, v \in Periods :
              <<q, v>> # <<p, t>> /\ Ahead(q, v) /\ ~Ahead(q, v)' => ReqVol(req, q, v) = 0
         /\ \A v \in Periods : t < v => Ahead(p, v)'
<1>0. TopType /\ Reqs /\ Typed(req, ReqLocs) /\ CursorType
  BY DEF Allocation, Locals, Sched, FrameType
<1>1. /\ pc = "fill" /\ i \in DOMAIN TopList /\ t \in Periods /\ p \in Parts
      /\ i > cursor.idx \/ (i = cursor.idx /\ t > cursor.per)
  BY <1>0, NextReqsAre
<1>2. TopList \in Seq(Parts) /\ Descends(TopList, Len(SortedParts))
  BY <1>0, <1>1, TopListParts DEF Trying, CommitPoints
<1>3. \A j \in DOMAIN TopList : j \in Nat \ {0}
  BY <1>2
<1>4. \A v \in Periods : v \in Nat
  BY NumberOfPeriods
<1>5. cursor.idx \in Nat /\ cursor.per \in Nat /\ i \in Nat /\ t \in Nat
  BY <1>0, <1>1, <1>3, <1>4 DEF CursorType
<1>6. \A j, v : Passed(j, v)' <=> j < i \/ (j = i /\ v <= t)
  BY DEF Passed
<1>7. \A j \in DOMAIN TopList : TopList[j] = p => j = i
  BY <1>1, <1>2, ListIsInjective
<1>8. TopList' = TopList
  BY DEF TopList
<1>9. Ahead(p, t)
  <2>1. ~Passed(i, t)
    BY <1>1, <1>5 DEF Passed
  <2>2. QED
    BY <1>7, <2>1 DEF Ahead
<1>10. ~Ahead(p, t)'
  BY <1>1, <1>5, <1>6, <1>8 DEF Ahead
<1>11. ASSUME NEW j \in DOMAIN TopList, NEW v \in Periods, Passed(j, v)
       PROVE  Passed(j, v)'
  <2>1. j \in Nat /\ v \in Nat
    BY <1>3, <1>4
  <2>2. QED
    BY <1>1, <1>5, <1>6, <1>11, <2>1 DEF Passed
<1>12. \A q \in Parts, v \in Periods : Ahead(q, v)' => Ahead(q, v)
  BY <1>8, <1>11 DEF Ahead
<1>13. ASSUME NEW q \in Parts, NEW v \in Periods, <<q, v>> # <<p, t>>, Ahead(q, v),
              ~Ahead(q, v)'
       PROVE  ReqVol(req, q, v) = 0
  <2>1. PICK j \in DOMAIN TopList : TopList[j] = q /\ Passed(j, v)'
    BY <1>8, <1>13 DEF Ahead
  <2>2. ~Passed(j, v)
    BY <1>13, <2>1 DEF Ahead
  <2>3. j < i \/ (j = i /\ v <= t)
    BY <1>6, <2>1
  <2>4. ~(j = i /\ v = t)
    BY <1>13, <2>1
  <2>5. \A s \in PendingReqs : s # <<j, v>>
    <3>1. SUFFICES ASSUME NEW s \in PendingReqs, s = <<j, v>> PROVE FALSE
      OBVIOUS
    <3>2. i < s[1] \/ (i = s[1] /\ t <= s[2])
      BY DEF NextReqs
    <3>3. s[1] = j /\ s[2] = v /\ j \in Nat /\ v \in Nat
      BY <1>3, <1>4, <3>1
    <3>4. QED
      BY <1>5, <2>3, <2>4, <3>2, <3>3
  <2>6. ReqVol(req, TopList[j], v) = 0
    BY <1>1, <2>2, <2>5, NothingBetween
  <2>7. QED
    BY <2>1, <2>6
<1>14. ASSUME NEW v \in Periods, t < v PROVE Ahead(p, v)'
  <2>1. ~Passed(i, v)'
    BY <1>4, <1>5, <1>6, <1>14
  <2>2. QED
    BY <1>7, <1>8, <2>1 DEF Ahead
<1>15. QED
  BY <1>1, <1>9, <1>10, <1>12, <1>13, <1>14

\* The requirements are kept, or more of p in the later period u is required.
MoreReq(p, t, u, more) ==
  \/ req' = req /\ more = 0
  \/ req' = AddTo(req, p, u, more) /\ u \in Periods /\ t < u

TakesNext(p, t, vol, rest, u, more, q, v) ==
  /\ Pend(q, v) \in Int /\ Pend(q, v)' \in Int
  /\ InFrame(q, v) = 0 /\ InFrame(q, v)' = IF q = p /\ v = t THEN rest ELSE 0
  /\ q = p /\ v = t => Pend(q, v) = vol + rest /\ Pend(q, v)' = 0
  /\ ~(q = p /\ v = t) =>
       Pend(q, v)' = Pend(q, v) + IF more # 0 /\ q = p /\ v = u THEN more ELSE 0

\* What is taken for the next requirement, from what is available or by going
\* on to make it, is no longer required.
LEMMA TakesOfNext ==
  ASSUME InPerm, ReqsWithin, NEW r \in NextReqs, NEW i, NEW t, i = r[1], t = r[2],
         NEW p, p = TopList[i], NEW vol \in Int, NEW rest \in Nat,
         ReqVol(req, p, t) = vol + rest, Netted(i, t, rest), top' = top,
         NEW more \in Nat, NEW rollPer, MoreReq(p, t, rollPer, more),
         NEW q \in Parts, NEW v \in Periods
  PROVE  TakesNext(p, t, vol, rest, rollPer, more, q, v)
<1> USE DEF TakesNext, MoreReq
<1>0. Allocation /\ Typed(req, ReqLocs) /\ FrameOK /\ mode = "perm" /\ mode' = "perm"
  BY DEF InPerm, Allocation, Sched
<1>1. cursor' = [idx |-> i, per |-> t]
  BY DEF Netted
<1>2. /\ pc = "fill" /\ i \in DOMAIN TopList /\ t \in Periods /\ p \in Parts
      /\ Ahead(p, t) /\ ~Ahead(p, t)'
      /\ \A q2 \in Parts, v2 \in Periods : Ahead(q2, v2)' => Ahead(q2, v2)
      /\ \A q2 \in Parts, v2 \in Periods :
           <<q2, v2>> # <<p, t>> /\ Ahead(q2, v2) /\ ~Ahead(q2, v2)' => ReqVol(req, q2, v2) = 0
      /\ \A v2 \in Periods : t < v2 => Ahead(p, v2)'
  BY <1>0, <1>1, AheadOfNext
<1>3. Booking /\ pc' \in {"fill", "explode"} /\ Booking'
  BY <1>0, <1>2 DEF Booking, Netted, Exploding
<1>4. InFrame(q, v) = 0
  BY <1>2 DEF InFrame
<1>5. InFrame(q, v)' = IF q = p /\ v = t THEN rest ELSE 0
  <2>1. CASE rest = 0
    BY <2>1 DEF InFrame, Netted
  <2>2. CASE rest # 0
    <3>1. frame' = [NoFrame EXCEPT !.part = p, !.fillPer = t, !.qty = rest] /\ pc' = "explode"
      BY <2>2 DEF Netted
    <3>2. frame'.part = p /\ frame'.fillPer = t /\ frame'.qty = rest
      BY <3>1 DEF NoFrame
    <3>3. QED
      BY <1>3, <3>1, <3>2 DEF InFrame
  <2>3. QED
    BY <2>1, <2>2
<1>6. Pend(q, v) \in Int /\ ReqVol(req, q, v) \in Int
  BY <1>0, HeldIsInt DEF Typed, ReqLocs, ReqVol
<1>7. Pend(q, v) = (IF Ahead(q, v) THEN ReqVol(req, q, v) ELSE 0)
      /\ Pend(q, v)' = IF Ahead(q, v)' THEN ReqVol(req', q, v) ELSE 0
  BY <1>3 DEF Pend, ReqVol
<1>8. CASE q = p /\ v = t
  <2>1. Pend(q, v) = vol + rest /\ Pend(q, v)' = 0
    BY <1>2, <1>7, <1>8
  <2>2. QED
    BY <1>4, <1>5, <1>6, <1>8, <2>1
<1>9. CASE ~(q = p /\ v = t)
  <2>1. <<q, v>> # <<p, t>>
    BY <1>9
  <2>2. ReqVol(req', q, v) =
          ReqVol(req, q, v) + IF more # 0 /\ q = p /\ v = rollPer THEN more ELSE 0
    <3>1. CASE req' = req /\ more = 0
      BY <1>6, <3>1
    <3>2. CASE req' = AddTo(req, p, rollPer, more) /\ rollPer \in Periods /\ t < rollPer
      <4>0. more \in Int /\ rollPer \in Periods /\ p \in Parts
        BY <1>2, <3>2
      <4>1. CASE q = p /\ v = rollPer
        <5>1. ReqVol(req', p, rollPer) = ReqVol(req, p, rollPer) + more
          BY <1>0, <3>2, <4>0, AddToIs
        <5>2. QED
          BY <1>6, <4>0, <4>1, <5>1
      <4>2. CASE ~(q = p /\ v = rollPer)
        <5>1. <<q, v>> # <<p, rollPer>>
          BY <4>2
        <5>2. ReqVol(req', q, v) = ReqVol(req, q, v)
          BY <1>0, <3>2, <4>0, <5>1, TypedAddTo
        <5>3. QED
          BY <1>6, <4>2, <5>2
      <4>3. QED
        BY <4>1, <4>2
    <3>3. QED
      BY <3>1, <3>2
  <2>3. CASE more # 0 /\ q = p /\ v = rollPer
    <3>1. t < rollPer
      BY <2>3
    <3>2. Ahead(q, v)' /\ Ahead(q, v)
      BY <1>2, <2>3, <3>1
    <3>3. Pend(q, v)' = Pend(q, v) + more
      BY <1>7, <2>2, <2>3, <3>2
    <3>4. QED
      BY <1>4, <1>5, <1>6, <1>9, <2>3, <3>3
  <2>4. CASE ~(more # 0 /\ q = p /\ v = rollPer)
    <3>1. ReqVol(req', q, v) = ReqVol(req, q, v)
      BY <1>6, <2>2, <2>4
    <3>2. Pend(q, v)' = Pend(q, v)
      BY <1>2, <1>7, <2>1, <3>1
    <3>3. QED
      BY <1>4, <1>5, <1>6, <1>9, <2>4, <3>2
  <2>5. QED
    BY <2>3, <2>4
<1>10. QED
  BY <1>8, <1>9

------------------------------------------------------------------------------

LEMMA AgreeOfNetReq ==
  ASSUME InPerm, ReqsWithin, NEW r \in NextReqs, NetReq(r[1], r[2]) PROVE BooksAgree
<1>0. Allocation /\ Reqs /\ TopType /\ Sched /\ Typed(req, ReqLocs) /\ mode = "perm"
  BY DEF InPerm, Allocation, Locals, Sched
<1>1. PICK i, t : i = r[1] /\ t = r[2]
  OBVIOUS
<1>2. PICK p : p = TopList[i]
  OBVIOUS
<1>3. PICK reqVol : reqVol = ReqVol(req, p, t)
  OBVIOUS
<1>4. /\ pc = "fill" /\ t \in Periods /\ p \in Parts /\ reqVol \in Nat \ {0}
  BY <1>0, <1>1, <1>2, <1>3, NextReqsAre
<1>5. PICK vol : vol = NetWoSRVol(soln, p, t, reqVol)
  OBVIOUS
<1>6. /\ Write(NettedStore(soln, p, t, vol)) /\ Netted(i, t, reqVol - vol)
      /\ req' = req /\ top' = top
  BY <1>1, <1>2, <1>3, <1>5 DEF NetReq, NettedStore, CommitUnchanged, callVars
<1>7. SoundAndFeasible(soln)
  BY <1>0, <1>4 DEF Sched
<1>8. vol \in 0..reqVol
  BY <1>4, <1>5, <1>7, NetFeasible
<1>9. vol \in Nat /\ vol \in Int
  BY <1>8
<1>10. PICK rest \in Nat : rest = reqVol - vol
  BY <1>4, <1>8
<1>11. AvailMoves(p, t, -vol) /\ SameVols(base, base')
  BY <1>0, <1>4, <1>6, <1>9, WroteNetted
<1>12. UnseenStays
  BY <1>4, <1>6, UnseenOutside DEF Netted, Executing
<1>13. DoneStays
  BY <1>11, <1>12, DoneOfNothing
<1>14. UNCHANGED <<supplyVol, shipVol>>
  BY SameInputs DEF FillStep
<1>15. reqVol = vol + rest /\ Netted(i, t, rest)
  BY <1>4, <1>6, <1>9, <1>10
<1>16. ASSUME NEW q \in Parts, NEW v \in Periods PROVE Owed(q, v)' = Owed(q, v)
  <2>1. 0 \in Nat
    OBVIOUS
  <2>2. /\ Pend(q, v) \in Int /\ Pend(q, v)' \in Int
        /\ InFrame(q, v) = 0 /\ InFrame(q, v)' = IF q = p /\ v = t THEN rest ELSE 0
        /\ q = p /\ v = t => Pend(q, v) = vol + rest /\ Pend(q, v)' = 0
        /\ ~(q = p /\ v = t) =>
             Pend(q, v)' = Pend(q, v) + IF 0 # 0 /\ q = p /\ v = t THEN 0 ELSE 0
    <3>1. MoreReq(p, t, t, 0)
      BY <1>6 DEF MoreReq
    <3>2. TakesNext(p, t, vol, rest, t, 0, q, v)
      BY <1>1, <1>2, <1>3, <1>6, <1>9, <1>15, <2>1, <3>1, TakesOfNext
    <3>3. QED
      BY <3>2 DEF TakesNext
  <2>3. PICK z \in Int : z = base[AvailLoc(q, v)]
    BY <1>0, HeldIsInt
  <2>4. base'[AvailLoc(q, v)] = z + IF q = p /\ v = t THEN -vol ELSE 0
    BY <1>11, <2>3 DEF AvailMoves
  <2>5. Owed(q, v) = Pend(q, v) + InFrame(q, v) - z
        /\ Owed(q, v)' = Pend(q, v)' + InFrame(q, v)' - base'[AvailLoc(q, v)]
    BY <2>3 DEF Owed
  <2>6. CASE q = p /\ v = t
    <3>1. Owed(q, v) = vol + rest + 0 - z /\ Owed(q, v)' = 0 + rest - (z - vol)
      BY <1>9, <2>2, <2>4, <2>5, <2>6
    <3>2. QED
      BY <1>9, <3>1
  <2>7. CASE ~(q = p /\ v = t)
    <3>1. Pend(q, v)' = Pend(q, v) /\ InFrame(q, v)' = 0 /\ base'[AvailLoc(q, v)] = z
      BY <2>2, <2>4, <2>7
    <3>2. QED
      BY <2>2, <2>5, <3>1
  <2>8. QED
    BY <2>6, <2>7
<1>17. OwedStays
  BY <1>16 DEF OwedStays
<1>18. QED
  BY <1>0, <1>13, <1>14, <1>17, AgreeOfNothing

\* A requirement is rolled: what is taken in t is given back in rollPer.
LEMMA RolledHolds ==
  ASSUME Allocation, mode # "temp", pc # "restore", NEW p \in Parts, NEW t \in Periods,
         NEW u \in Periods, t # u, NEW vol \in Nat,
         Write(AddAvail(AddAvail(soln, p, t, -vol), p, u, vol)),
         NEW q \in Parts, NEW v \in Periods
  PROVE  /\ SameVols(base, base')
         /\ base'[AvailLoc(q, v)] =
              base[AvailLoc(q, v)] + IF q = p /\ v = t THEN -vol
                                     ELSE IF q = p /\ v = u THEN vol ELSE 0
<1>1. PICK s : s = AddAvail(soln, p, t, -vol)
  OBVIOUS
<1>2. -vol \in Int /\ vol \in Int
  OBVIOUS
<1>3. Holds(s, p, t, -vol)
  BY <1>1, <1>2, AddHolds
<1>4. PICK n : n = AddAvail(s, p, u, vol)
  OBVIOUS
<1>5. AddsTo(s, p, u, vol, n)
  BY <1>2, <1>3, <1>4, AddAvailSound DEF Holds
<1>6. base' = n.mem
  BY <1>1, <1>4, PermWrite
<1>7. SameVols(base, base')
  BY <1>3, <1>5, <1>6 DEF Holds, SameVols, AddsTo
<1>8. PICK x \in Int : x = base[AvailLoc(q, v)]
  BY HeldIsInt
<1>9. s.mem[AvailLoc(q, v)] = x + IF q = p /\ v = t THEN -vol ELSE 0
  BY <1>3, <1>8 DEF Holds
<1>10. CASE q = p /\ v = u
  <2>1. base'[AvailLoc(q, v)] = s.mem[AvailLoc(q, v)] + vol
    BY <1>5, <1>6, <1>10 DEF AddsTo
  <2>2. s.mem[AvailLoc(q, v)] = x
    BY <1>8, <1>9, <1>10
  <2>3. QED
    BY <1>7, <1>8, <1>10, <2>1, <2>2
<1>11. CASE ~(q = p /\ v = u)
  <2>1. <<q, v>> # <<p, u>>
    BY <1>11
  <2>2. base'[AvailLoc(q, v)] = s.mem[AvailLoc(q, v)]
    BY <1>5, <1>6, <2>1 DEF AddsTo
  <2>3. QED
    BY <1>7, <1>8, <1>9, <1>11, <2>2
<1>12. QED
  BY <1>10, <1>11

LEMMA AgreeOfRoll ==
  ASSUME InPerm, ReqsWithin, NEW r \in NextReqs, NEW rollPer \in Periods \cup {-1},
         NetAndRollReq(r[1], r[2], rollPer)
  PROVE  BooksAgree
<1>0. Allocation /\ Reqs /\ TopType /\ Sched /\ Typed(req, ReqLocs) /\ mode = "perm"
  BY DEF InPerm, Allocation, Locals, Sched
<1>1. PICK i, t : i = r[1] /\ t = r[2]
  OBVIOUS
<1>2. PICK p : p = TopList[i]
  OBVIOUS
<1>3. PICK reqVol : reqVol = ReqVol(req, p, t)
  OBVIOUS
<1>4. /\ pc = "fill" /\ t \in Periods /\ p \in Parts /\ reqVol \in Nat \ {0}
  BY <1>0, <1>1, <1>2, <1>3, NextReqsAre
<1>5. PICK vol : vol = RollVol(soln, p, t, reqVol)
  OBVIOUS
<1>6. /\ rollPer = IF vol = 0 THEN -1 ELSE RollPeriod(soln, p, t)
      /\ Write(RolledStore(soln, p, t, vol, rollPer)) /\ Netted(i, t, reqVol - vol)
      /\ req' = IF rollPer < 0 THEN req ELSE AddTo(req, p, rollPer, vol)
      /\ p \in UncondSR /\ top' = top
  BY <1>1, <1>2, <1>3, <1>5 DEF NetAndRollReq, RolledStore, CommitUnchanged, callVars
<1>7. SoundAndFeasible(soln) /\ p \in Materials
  BY <1>0, <1>4, <1>6, UncondSRAssumption DEF Sched
<1>8. /\ vol \in 0..reqVol
      /\ rollPer # -1 => rollPer \in Periods /\ t < rollPer
  BY <1>4, <1>5, <1>6, <1>7, RollFeasible
<1>9. vol \in Nat /\ vol \in Int
  BY <1>8
<1>10. PICK rest \in Nat : rest = reqVol - vol
  BY <1>4, <1>8
<1>11. reqVol = vol + rest /\ Netted(i, t, rest)
  BY <1>4, <1>6, <1>9, <1>10
<1>12. UnseenStays
  BY <1>4, <1>6, UnseenOutside DEF Netted, Executing
<1>13. UNCHANGED <<supplyVol, shipVol>>
  BY SameInputs DEF FillStep
<1>14. CASE rollPer = -1
  <2>1. Write(NettedStore(soln, p, t, vol)) /\ req' = req
    <3>1. rollPer < 0
      BY <1>14
    <3>2. QED
      BY <1>6, <3>1 DEF RolledStore, NettedStore
  <2>2. AvailMoves(p, t, -vol) /\ SameVols(base, base')
    BY <1>0, <1>4, <1>9, <2>1, WroteNetted
  <2>3. DoneStays
    BY <1>12, <2>2, DoneOfNothing
  <2>4. ASSUME NEW q \in Parts, NEW v \in Periods PROVE Owed(q, v)' = Owed(q, v)
    <3>1. 0 \in Nat
      OBVIOUS
    <3>2. /\ Pend(q, v) \in Int /\ Pend(q, v)' \in Int
          /\ InFrame(q, v) = 0 /\ InFrame(q, v)' = IF q = p /\ v = t THEN rest ELSE 0
          /\ q = p /\ v = t => Pend(q, v) = vol + rest /\ Pend(q, v)' = 0
          /\ ~(q = p /\ v = t) =>
               Pend(q, v)' = Pend(q, v) + IF 0 # 0 /\ q = p /\ v = t THEN 0 ELSE 0
      <4>1. MoreReq(p, t, t, 0)
        BY <2>1 DEF MoreReq
      <4>2. TakesNext(p, t, vol, rest, t, 0, q, v)
        BY <1>1, <1>2, <1>3, <1>6, <1>9, <1>11, <3>1, <4>1, TakesOfNext
      <4>3. QED
        BY <4>2 DEF TakesNext
    <3>3. PICK z \in Int : z = base[AvailLoc(q, v)]
      BY <1>0, HeldIsInt
    <3>4. base'[AvailLoc(q, v)] = z + IF q = p /\ v = t THEN -vol ELSE 0
      BY <2>2, <3>3 DEF AvailMoves
    <3>5. Owed(q, v) = Pend(q, v) + InFrame(q, v) - z
          /\ Owed(q, v)' = Pend(q, v)' + InFrame(q, v)' - base'[AvailLoc(q, v)]
      BY <3>3 DEF Owed
    <3>6. CASE q = p /\ v = t
      <4>1. Owed(q, v) = vol + rest + 0 - z /\ Owed(q, v)' = 0 + rest - (z - vol)
        BY <1>9, <3>2, <3>4, <3>5, <3>6
      <4>2. QED
        BY <1>9, <4>1
    <3>7. CASE ~(q = p /\ v = t)
      <4>1. Pend(q, v)' = Pend(q, v) /\ InFrame(q, v)' = 0 /\ base'[AvailLoc(q, v)] = z
        BY <3>2, <3>4, <3>7
      <4>2. QED
        BY <3>2, <3>5, <4>1
    <3>8. QED
      BY <3>6, <3>7
  <2>5. OwedStays
    BY <2>4 DEF OwedStays
  <2>6. QED
    BY <1>0, <1>13, <2>3, <2>5, AgreeOfNothing
<1>15. CASE rollPer # -1
  <2>1. rollPer \in Periods /\ t < rollPer /\ ~(rollPer < 0) /\ rollPer # t /\ vol # 0
    <3>1. rollPer \in Nat /\ t \in Nat
      BY <1>4, <1>8, <1>15, NumberOfPeriods
    <3>2. vol # 0
      BY <1>6, <1>15
    <3>3. QED
      BY <1>8, <1>15, <3>1, <3>2
  <2>2. /\ Write(AddAvail(AddAvail(soln, p, t, -vol), p, rollPer, vol))
        /\ req' = AddTo(req, p, rollPer, vol)
    BY <1>6, <2>1 DEF RolledStore
  <2>3. SameVols(base, base')
    BY <1>0, <1>4, <1>9, <2>1, <2>2, RolledHolds
  <2>4. DoneStays
    BY <1>12, <2>3, DoneOfNothing
  <2>5. ASSUME NEW q \in Parts, NEW v \in Periods PROVE Owed(q, v)' = Owed(q, v)
    <3>1. /\ Pend(q, v) \in Int /\ Pend(q, v)' \in Int
          /\ InFrame(q, v) = 0 /\ InFrame(q, v)' = IF q = p /\ v = t THEN rest ELSE 0
          /\ q = p /\ v = t => Pend(q, v) = vol + rest /\ Pend(q, v)' = 0
          /\ ~(q = p /\ v = t) =>
               Pend(q, v)' = Pend(q, v) + IF vol # 0 /\ q = p /\ v = rollPer THEN vol ELSE 0
      <4>1. MoreReq(p, t, rollPer, vol)
        BY <2>1, <2>2 DEF MoreReq
      <4>2. TakesNext(p, t, vol, rest, rollPer, vol, q, v)
        BY <1>1, <1>2, <1>3, <1>6, <1>9, <1>11, <4>1, TakesOfNext
      <4>3. QED
        BY <4>2 DEF TakesNext
    <3>2. PICK z \in Int : z = base[AvailLoc(q, v)]
      BY <1>0, HeldIsInt
    <3>3. base'[AvailLoc(q, v)] = z + IF q = p /\ v = t THEN -vol
                                      ELSE IF q = p /\ v = rollPer THEN vol ELSE 0
      BY <1>0, <1>4, <1>9, <2>1, <2>2, <3>2, RolledHolds
    <3>4. Owed(q, v) = Pend(q, v) + InFrame(q, v) - z
          /\ Owed(q, v)' = Pend(q, v)' + InFrame(q, v)' - base'[AvailLoc(q, v)]
      BY <3>2 DEF Owed
    <3>5. CASE q = p /\ v = t
      <4>1. Owed(q, v) = vol + rest + 0 - z /\ Owed(q, v)' = 0 + rest - (z - vol)
        BY <1>9, <3>1, <3>3, <3>4, <3>5
      <4>2. QED
        BY <1>9, <4>1
    <3>6. CASE q = p /\ v = rollPer
      <4>1. Pend(q, v)' = Pend(q, v) + vol /\ InFrame(q, v)' = 0
            /\ base'[AvailLoc(q, v)] = z + vol
        BY <2>1, <3>1, <3>3, <3>6
      <4>2. QED
        BY <1>9, <3>1, <3>4, <4>1
    <3>7. CASE ~(q = p /\ v = t) /\ ~(q = p /\ v = rollPer)
      <4>1. Pend(q, v)' = Pend(q, v) /\ InFrame(q, v)' = 0 /\ base'[AvailLoc(q, v)] = z
        BY <3>1, <3>3, <3>7
      <4>2. QED
        BY <3>1, <3>4, <4>1
    <3>8. QED
      BY <3>5, <3>6, <3>7
  <2>6. OwedStays
    BY <2>5 DEF OwedStays
  <2>7. QED
    BY <1>0, <1>13, <2>4, <2>6, AgreeOfNothing
<1>16. QED
  BY <1>14, <1>15

\* When no requirement is ahead of the cursor, nothing is owed.
LEMMA AgreeOfFilled ==
  ASSUME InPerm, ReqsWithin, AllFilled PROVE BooksAgree
<1>0. Allocation /\ mode = "perm" /\ TopType
  BY DEF InPerm, Allocation, Locals
<1>1. /\ pc = "fill" /\ pc' = "clear" /\ PendingReqs = {} /\ base' = base
  BY DEF AllFilled
<1>2. UnseenStays
  BY <1>1, UnseenOutside DEF Executing
<1>3. AvailStays /\ SameVols(base, base')
  BY <1>1, NothingWritten
<1>4. DoneStays
  BY <1>2, <1>3, DoneOfNothing
<1>5. ASSUME NEW q \in Parts, NEW v \in Periods
      PROVE  Pend(q, v)' = Pend(q, v) /\ InFrame(q, v)' = InFrame(q, v)
  <2>1. Pend(q, v)' = 0 /\ InFrame(q, v)' = 0 /\ InFrame(q, v) = 0
    BY <1>1 DEF Pend, InFrame, Booking, Exploding, Executing
  <2>2. Pend(q, v) = 0
    <3>1. SUFFICES ASSUME Ahead(q, v) PROVE ReqVol(req, q, v) = 0
      BY DEF Pend
    <3>2. CASE \E j \in DOMAIN TopList : TopList[j] = q
      <4>1. PICK j \in DOMAIN TopList : TopList[j] = q
        BY <3>2
      <4>2. ~Passed(j, v)
        BY <3>1, <4>1 DEF Ahead
      <4>3. \A s \in PendingReqs : s # <<j, v>>
        BY <1>1
      <4>4. ReqVol(req, TopList[j], v) = 0
        BY <1>0, <1>1, <4>2, <4>3, NothingBetween
      <4>5. QED
        BY <4>1, <4>4
    <3>3. CASE ~\E j \in DOMAIN TopList : TopList[j] = q
      <4>1. ReqsIn(req, TopList)
        BY <1>1 DEF ReqsWithin
      <4>2. ReqVol(req, q, v) >= 0 /\ ~(ReqVol(req, q, v) > 0)
        BY <3>3, <4>1 DEF ReqsIn, InList
      <4>3. ReqVol(req, q, v) \in Int
        BY <1>0 DEF Allocation, Sched, Typed, ReqLocs, ReqVol
      <4>4. QED
        BY <4>2, <4>3
    <3>4. QED
      BY <3>2, <3>3
  <2>3. QED
    BY <2>1, <2>2
<1>6. OwedStays
  BY <1>3, <1>5, OwedOfNothing DEF TakesSame
<1>7. UNCHANGED <<supplyVol, shipVol>>
  BY SameInputs DEF FillStep
<1>8. QED
  BY <1>0, <1>4, <1>6, <1>7, AgreeOfNothing

------------------------------------------------------------------------------

\* Where no permanent commit is booking, a step that leaves base alone leaves
\* the books alone.
LEMMA AgreeOutside ==
  ASSUME Allocation, UNCHANGED <<base, supplyVol, shipVol>>, ~Booking, ~Booking'
  PROVE  BooksAgree
<1>1. AvailStays /\ SameVols(base, base')
  BY NothingWritten
<1>2. pc \notin Executing \/ mode # "perm"
  BY DEF Booking, Exploding
<1>3. pc' \notin Executing \/ mode' # "perm"
  BY DEF Booking, Exploding
<1>4. DoneStays
  BY <1>1, <1>2, <1>3, UnseenOutside, DoneOfNothing
<1>5. OwedStays
  BY <1>1, OwedOfNothing DEF TakesSame, Pend, InFrame
<1>6. QED
  BY <1>4, <1>5, AgreeOfNothing

LEMMA UndoIsQuiet ==
  ASSUME UndoStep
  PROVE  /\ pc \in {"clear", "restore"} /\ pc' \in {"clear", "restore", "return"}
         /\ UNCHANGED <<base, supplyVol, shipVol, mode, call, netQty, top, search, slbs, cursor, ok>>
<1>1. CASE ClearReqSched
  BY <1>1 DEF ClearReqSched, CommitUnchanged, inputs, results, callVars
<1>2. CASE RestoreSoln
  BY SMTT(30), <1>2 DEF RestoreSoln, CommitUnchanged, inputs, results, callVars, commVars
<1>3. QED
  BY <1>1, <1>2 DEF UndoStep

LEMMA CommitIsQuiet ==
  ASSUME FillStep \/ ExplodeStep
  PROVE  UNCHANGED <<supplyVol, shipVol, mode, call, netQty, top, search, slbs>>
  BY DEF FillStep, ExplodeStep, CommitUnchanged, inputs, results, callVars, NetReq,
     NetAndRollReq, AllFilled, CannotExplode, ExplodeBopEnt, BomEntryNotInEffect,
     ExplodeBomEntry, NetConsEntry, NetByProductEntry, SkipSubEntry, ExplodeConsEntry,
     BomEntriesExploded, ExplodeBopEntry, UseProduct

\* Of the steps of a permanent commit only a failure leaves the books apart.
LEMMA PermAgrees ==
  ASSUME InPerm, ReqsWithin, CallMeans, FillStep \/ ExplodeStep \/ UndoStep
  PROVE  BooksAgree \/ CannotExplode
<1>1. CASE FillStep
  <2>1. ASSUME NEW r \in NextReqs, NetReq(r[1], r[2]) PROVE BooksAgree
    BY <2>1, AgreeOfNetReq
  <2>2. ASSUME NEW r \in NextReqs, NEW u \in Periods \cup {-1}, NetAndRollReq(r[1], r[2], u)
        PROVE  BooksAgree
    BY <2>2, AgreeOfRoll
  <2>3. CASE AllFilled
    BY <2>3, AgreeOfFilled
  <2>4. ASSUME NEW e \in ExpAllowed, NEW u \in Periods, ExplodeBopEnt(e, u)
        PROVE  BooksAgree
    BY <2>4, AgreeOfExecution
  <2>5. QED
    BY <1>1, <2>1, <2>2, <2>3, <2>4 DEF FillStep
<1>2. CASE ExplodeStep
  BY <1>2, AgreeOfNoEffect, AgreeOfBegun, AgreeOfNetCons, AgreeOfByProduct, AgreeOfSkip,
     AgreeOfConsEntry, AgreeOfBopStart, AgreeOfBop, AgreeOfUse DEF ExplodeStep
<1>3. CASE UndoStep
  <2>1. ~Booking /\ ~Booking'
    BY <1>3, UndoIsQuiet DEF Booking, Exploding, Executing
  <2>2. UNCHANGED <<base, supplyVol, shipVol>> /\ Allocation
    BY SMTT(30), <1>3, UndoIsQuiet DEF InPerm
  <2>3. QED
    BY <2>1, <2>2, AgreeOutside
<1>4. QED
  BY <1>1, <1>2, <1>3

\* A temporary commit writes nothing that counts.
LEMMA BaseOfTemp ==
  ASSUME mode = "temp", FillStep \/ ExplodeStep \/ UndoStep PROVE base' = base
  BY DEF FillStep, ExplodeStep, UndoStep, Write, NetReq,
     NetAndRollReq, AllFilled, CannotExplode, ExplodeBopEnt, BomEntryNotInEffect,
     ExplodeBomEntry, NetConsEntry, NetByProductEntry, SkipSubEntry, ExplodeConsEntry,
     BomEntriesExploded, ExplodeBopEntry, UseProduct, ClearReqSched, RestoreSoln

LEMMA TempAgrees ==
  ASSUME Allocation, mode = "temp", FillStep \/ ExplodeStep \/ UndoStep PROVE BooksAgree
<1>1. base' = base
  BY BaseOfTemp
<1>2. UNCHANGED <<supplyVol, shipVol, mode>>
  BY UndoIsQuiet, CommitIsQuiet
<1>3. ~Booking /\ ~Booking'
  BY <1>2 DEF Booking
<1>4. QED
  BY <1>1, <1>2, <1>3, AgreeOutside

------------------------------------------------------------------------------

HeldLocs == {AvailLoc(p, t) : p \in Parts, t \in Periods}

HeldMem == [loc \in HeldLocs |-> Held(loc[3], loc[4])]

LEMMA HeldMemIs ==
  ASSUME NEW p \in Parts, NEW t \in Periods
  PROVE  HeldMem[AvailLoc(p, t)] = Held(p, t) /\ HeldMem'[AvailLoc(p, t)] = Held(p, t)'
<1>1. PICK loc : loc = AvailLoc(p, t)
  OBVIOUS
<1>2. loc \in HeldLocs /\ loc[3] = p /\ loc[4] = t
  BY <1>1 DEF HeldLocs, AvailLoc
<1>3. HeldMem[loc] = Held(p, t)
  BY <1>2 DEF HeldMem
<1>4. HeldMem'[loc] = Held(p, t)'
  BY <1>2 DEF HeldMem, HeldLocs, Held, Owed, Pend, InFrame, MadeSum, ShipSum
<1>5. QED
  BY <1>1, <1>3, <1>4

LEMMA LeftOfStay ==
  ASSUME HeldStays, NEW p \in Parts, NEW left, IsLeft(HeldMem, p, left)
  PROVE  IsLeft(HeldMem', p, left)
<1>1. PICK m, n : m = HeldMem /\ n = HeldMem'
  OBVIOUS
<1>2. \A t \in Periods : n[AvailLoc(p, t)] = m[AvailLoc(p, t)]
  BY <1>1, HeldMemIs DEF HeldStays
<1>3. IsLeft(n, p, left)
  BY <1>1, <1>2 DEF IsLeft
<1>4. QED
  BY <1>1, <1>3

LEMMA LeftOfMove ==
  ASSUME Allocation, NEW p \in Parts, NEW t \in Periods, NEW d \in Int, HeldMoves(p, t, d),
         NEW left, IsLeft(HeldMem, p, left)
  PROVE  IsLeft(HeldMem', p, LeftPlus(p, left, t, d))
<1>1. PICK m, n : m = HeldMem /\ n = HeldMem'
  OBVIOUS
<1>2. ASSUME NEW u \in Periods
      PROVE  /\ m[AvailLoc(p, u)] \in Int
             /\ n[AvailLoc(p, u)] = IF u = t THEN m[AvailLoc(p, u)] + d ELSE m[AvailLoc(p, u)]
  <2>1. m[AvailLoc(p, u)] = Held(p, u) /\ n[AvailLoc(p, u)] = Held(p, u)'
    BY <1>1, HeldMemIs
  <2>2. Held(p, u) \in Int
    BY HeldIsInt
  <2>3. Held(p, u)' = Held(p, u) + IF u = t THEN d ELSE 0
    BY DEF HeldMoves
  <2>4. QED
    BY <2>1, <2>2, <2>3
<1>3. IsLeft(n, p, LeftPlus(p, left, t, d))
  BY <1>1, <1>2, LeftOfSum
<1>4. QED
  BY <1>1, <1>3

LEMMA LeftOfOthers ==
  ASSUME Allocation, NEW p, NEW t, NEW d, HeldMoves(p, t, d), NEW q \in Parts, q # p,
         NEW left, IsLeft(HeldMem, q, left)
  PROVE  IsLeft(HeldMem', q, left)
<1>1. PICK m, n : m = HeldMem /\ n = HeldMem'
  OBVIOUS
<1>2. ASSUME NEW u \in Periods
      PROVE  n[AvailLoc(q, u)] = m[AvailLoc(q, u)]
  <2>1. m[AvailLoc(q, u)] = Held(q, u) /\ n[AvailLoc(q, u)] = Held(q, u)'
    BY <1>1, HeldMemIs
  <2>2. Held(q, u) \in Int
    BY HeldIsInt
  <2>3. Held(q, u)' = Held(q, u) + 0
    BY DEF HeldMoves
  <2>4. QED
    BY <2>1, <2>2, <2>3
<1>3. IsLeft(n, q, left)
  BY <1>1, <1>2 DEF IsLeft
<1>4. QED
  BY <1>1, <1>3

(***************************************************************************)
(* 8. The ledger.  What is held covers, in each period, what has been      *)
(* committed for the call in progress and not been shipped yet: its floor. *)
(* Between commits it moves to a shipment, or to a stock bound, and the    *)
(* floor with it.                                                          *)
(***************************************************************************)

\* What has been committed, or is being committed, for the call in progress:
\* it is to be left of part p from period t on.
Got(p, t) ==
  IF call.kind # "none" /\ p = CallPart /\ Reaches(p, call.per, t)
  THEN call.vol - netQty ELSE 0

Tried(p, t) ==
  IF mode = "perm" /\ p = top.part /\ Reaches(p, top.per, t) THEN TryQty ELSE 0

Floor(p, t) == Got(p, t) + Tried(p, t)

HasLeft(p) ==
  \E left : IsLeft(HeldMem, p, left) /\ \A t \in Periods : left[t] >= Floor(p, t)

\* The books are in order unless a permanent commit has failed.
InOrder == pc # "fatal" /\ (mode = "perm" => ok)

Books == InOrder => \A p \in Parts : HasLeft(p)

DonePos == \A e \in Entries, u \in Periods : Done(e, u) >= 0

CursorStarts == pc \notin {"fill"} \cup Exploding => cursor = NoCursor

Ledger == CursorStarts /\ DonePos /\ Books

LEMMA FloorIsNat ==
  ASSUME Allocation, NEW p, NEW t
  PROVE  Got(p, t) \in Nat /\ Tried(p, t) \in Nat /\ Floor(p, t) \in Nat
<1>1. Got(p, t) \in Nat
  <2>1. netQty \in 0..call.vol /\ call.vol \in Nat
    BY DEF Allocation, Locals, CallType
  <2>2. call.vol - netQty \in Nat
    BY <2>1
  <2>3. QED
    BY <2>2 DEF Got
<1>2. ASSUME mode = "perm" PROVE TryQty \in Nat
  <2>1. pc \in Trying /\ search.stage # "none" /\ SearchType /\ CallType
    BY <1>2 DEF Allocation, Reqs, Locals, SearchType, Trying
  <2>2. TryQty \in 1..netQty /\ netQty \in Nat
    BY <2>1, TryQtyFits DEF CallType
  <2>3. QED
    BY <2>2
<1>3. Tried(p, t) \in Nat
  BY <1>2 DEF Tried
<1>4. QED
  BY <1>1, <1>3 DEF Floor

FloorNat == \A p, t : Floor(p, t) \in Nat

DoneInt == \A e \in Entries, u \in Periods : Done(e, u) \in Int

LEMMA FloorAndDone == Allocation => FloorNat /\ DoneInt
  BY FloorIsNat, HeldIsInt DEF FloorNat, DoneInt

LEMMA FloorAndDoneNext == Allocation' => FloorNat' /\ DoneInt'
  BY FloorAndDone, PTL

\* The floor rises by no more than what is added in period t of part p.
FloorRises(p, t, d) ==
  \A q \in Parts, v \in Periods :
    Floor(q, v)' <= Floor(q, v) + IF q = p /\ Reaches(p, t, v) THEN d ELSE 0

FloorFalls == \A q \in Parts, v \in Periods : Floor(q, v)' <= Floor(q, v)

LEMMA LeftAfterStay ==
  ASSUME Allocation, Allocation', HeldStays, FloorFalls, NEW p \in Parts, HasLeft(p)
  PROVE  HasLeft(p)'
<1>1. PICK left : IsLeft(HeldMem, p, left) /\ \A t \in Periods : left[t] >= Floor(p, t)
  BY DEF HasLeft
<1>2. IsLeft(HeldMem', p, left) /\ left \in [Periods -> Int]
  BY <1>1, LeftOfStay DEF IsLeft
<1>3. ASSUME NEW t \in Periods PROVE left[t] >= Floor(p, t)'
  <2>1. PICK a, b : a = Floor(p, t) /\ b = Floor(p, t)'
    OBVIOUS
  <2>2. a \in Nat /\ b \in Nat
    BY <2>1, FloorIsNat, FloorAndDoneNext DEF FloorNat
  <2>3. b <= a
    BY <2>1 DEF FloorFalls
  <2>4. left[t] >= a /\ left[t] \in Int
    BY <1>1, <1>2, <2>1
  <2>5. left[t] >= b
    BY <2>2, <2>3, <2>4
  <2>6. QED
    BY <2>1, <2>5
<1>4. QED
  BY <1>2, <1>3 DEF HasLeft

LEMMA LeftAfterMove ==
  ASSUME Allocation, Allocation', NEW p \in Parts, NEW t \in Periods, NEW d \in Int,
         HeldMoves(p, t, d), FloorRises(p, t, d), NEW q \in Parts, HasLeft(q)
  PROVE  HasLeft(q)'
<1>1. PICK left : IsLeft(HeldMem, q, left) /\ \A v \in Periods : left[v] >= Floor(q, v)
  BY DEF HasLeft
<1>2. ASSUME NEW v \in Periods
      PROVE  /\ Floor(q, v) \in Nat /\ Floor(q, v)' \in Nat
             /\ Floor(q, v)' <= Floor(q, v) + IF q = p /\ Reaches(p, t, v) THEN d ELSE 0
             /\ left[v] \in Int /\ left[v] >= Floor(q, v)
  BY <1>1, FloorIsNat, FloorAndDoneNext DEF FloorNat, FloorRises, IsLeft
<1>3. CASE q # p
  <2>1. IsLeft(HeldMem', q, left)
    BY <1>1, <1>3, LeftOfOthers
  <2>2. ASSUME NEW v \in Periods PROVE left[v] >= Floor(q, v)'
    <3>1. PICK a, b : a = Floor(q, v) /\ b = Floor(q, v)'
      OBVIOUS
    <3>2. a \in Nat /\ b \in Nat /\ b <= a + 0 /\ left[v] \in Int /\ left[v] >= a
      BY <1>2, <1>3, <3>1
    <3>3. left[v] >= b
      BY <3>2
    <3>4. QED
      BY <3>1, <3>3
  <2>3. QED
    BY <2>1, <2>2 DEF HasLeft
<1>4. CASE q = p
  <2>1. PICK new : new = LeftPlus(p, left, t, d)
    OBVIOUS
  <2>2. IsLeft(HeldMem', p, new)
    BY <1>1, <1>4, <2>1, LeftOfMove
  <2>3. ASSUME NEW v \in Periods PROVE new[v] >= Floor(p, v)'
    <3>1. PICK a, b : a = Floor(p, v) /\ b = Floor(p, v)'
      OBVIOUS
    <3>2. /\ a \in Nat /\ b \in Nat /\ b <= a + IF Reaches(p, t, v) THEN d ELSE 0
          /\ left[v] \in Int /\ left[v] >= a
      BY <1>2, <1>4, <3>1
    <3>3. new[v] = IF Reaches(p, t, v) THEN left[v] + d ELSE left[v]
      BY <2>1 DEF LeftPlus
    <3>4. new[v] >= b
      BY <3>2, <3>3
    <3>5. QED
      BY <3>1, <3>4
  <2>4. QED
    BY <1>4, <2>2, <2>3 DEF HasLeft
<1>5. QED
  BY <1>3, <1>4

LEMMA BooksStay ==
  ASSUME Allocation, Allocation', Books, HeldStays, FloorFalls, InOrder' => InOrder
  PROVE  Books'
<1>1. ASSUME InOrder', NEW p \in Parts PROVE HasLeft(p)'
  BY <1>1, LeftAfterStay DEF Books
<1>2. QED
  BY <1>1 DEF Books

LEMMA BooksMove ==
  ASSUME Allocation, Allocation', Books, InOrder' => InOrder,
         NEW p \in Parts, NEW t \in Periods, NEW d \in Int, HeldMoves(p, t, d),
         FloorRises(p, t, d)
  PROVE  Books'
<1>1. ASSUME InOrder', NEW q \in Parts PROVE HasLeft(q)'
  BY <1>1, LeftAfterMove DEF Books
<1>2. QED
  BY <1>1 DEF Books

LEMMA DoneStaysPos ==
  ASSUME Allocation, Allocation', DonePos, DoneGrows PROVE DonePos'
<1>1. \A e \in Entries, u \in Periods : Done(e, u)' \in Int
  BY FloorAndDoneNext DEF DoneInt
<1>2. ASSUME NEW e \in Entries, NEW u \in Periods PROVE Done(e, u)' >= 0
  <2>1. Done(e, u) \in Int /\ Done(e, u)' \in Int
    BY <1>1, HeldIsInt
  <2>2. Done(e, u) >= 0 /\ Done(e, u)' >= Done(e, u)
    BY DEF DonePos, DoneGrows
  <2>3. QED
    BY <2>1, <2>2
<1>3. QED
  BY <1>2 DEF DonePos

------------------------------------------------------------------------------

LEMMA SameGot ==
  ASSUME call'.kind = call.kind, call'.demand = call.demand, call'.per = call.per,
         call'.vol = call.vol, netQty' = netQty, slbs' = slbs
  PROVE  \A p, t : Got(p, t)' = Got(p, t)
<1>1. CallPart' = CallPart
  BY DEF CallPart
<1>2. QED
  BY <1>1 DEF Got

LEMMA FloorOfGot ==
  ASSUME Allocation, mode' # "perm", \A p, t : Got(p, t)' = Got(p, t) PROVE FloorFalls
<1>1. ASSUME NEW p \in Parts, NEW t \in Periods PROVE Floor(p, t)' <= Floor(p, t)
  <2>1. Got(p, t) \in Nat /\ Tried(p, t) \in Nat
    BY FloorIsNat
  <2>2. Tried(p, t)' = 0
    BY DEF Tried
  <2>3. QED
    BY <2>1, <2>2 DEF Floor
<1>2. QED
  BY <1>1 DEF FloorFalls

LEMMA FloorOfSame ==
  ASSUME Allocation, UNCHANGED <<call, netQty, slbs, top, search, mode>> PROVE FloorFalls
<1>1. \A p, t : Got(p, t)' = Got(p, t)
  BY SameGot
<1>2. TryQty' = TryQty
  BY DEF TryQty, CurMult, CurSearchInc
<1>3. ASSUME NEW p \in Parts, NEW t \in Periods PROVE Floor(p, t)' <= Floor(p, t)
  <2>1. Got(p, t) \in Nat /\ Tried(p, t) \in Nat
    BY FloorIsNat
  <2>2. Tried(p, t)' = Tried(p, t)
    BY <1>2 DEF Tried
  <2>3. QED
    BY <1>1, <2>1, <2>2 DEF Floor
<1>4. QED
  BY <1>3 DEF FloorFalls

NothingIsGot == call.kind = "none" \/ call.vol = netQty

LEMMA NoFloor ==
  ASSUME Allocation, Allocation', mode' # "perm", NothingIsGot'
  PROVE  \A p, t : Floor(p, t)' = 0
<1>1. call'.vol \in Nat /\ (call'.kind # "none" => call'.vol = netQty')
  BY DEF Allocation, Locals, CallType, NothingIsGot
<1>2. \A p, t : Got(p, t)' = 0
  BY <1>1 DEF Got
<1>3. \A p, t : Tried(p, t)' = 0
  BY DEF Tried
<1>4. QED
  BY <1>2, <1>3 DEF Floor

LEMMA FloorOfNone ==
  ASSUME Allocation, Allocation', mode' # "perm", NothingIsGot'
  PROVE  FloorFalls
<1>1. ASSUME NEW p \in Parts, NEW t \in Periods PROVE Floor(p, t)' <= Floor(p, t)
  BY NoFloor, FloorIsNat
<1>2. QED
  BY <1>1 DEF FloorFalls

------------------------------------------------------------------------------

LEMMA CursorNext == Allocation /\ CursorStarts /\ [Next]_vars => CursorStarts'
<1> SUFFICES ASSUME Allocation, CursorStarts, [Next]_vars PROVE CursorStarts'
  OBVIOUS
<1> USE DEF CursorStarts, Exploding, Executing
<1>1. CASE UNCHANGED vars
  BY <1>1 DEF vars, commVars
<1>2. CASE MaxQtyStep
  BY SMTT(30), <1>2 DEF MaxQtyStep, SkipBlocked, CommitMaxQty, TempCommit, PermCommit, StartCommit,
     TempCommitReturns, PermCommitReturns, CommitMaxQtyEnds, PostIncHeurAlloc, commVars
<1>3. CASE FillStep
  BY <1>3 DEF FillStep, NetReq, NetAndRollReq, Netted, AllFilled, CannotExplode, ExplodeBopEnt
<1>4. CASE ExplodeStep
  BY <1>4 DEF ExplodeStep, BomEntryNotInEffect, ExplodeBomEntry, NetConsEntry, NettedTo,
     NetByProductEntry, SkipSubEntry, ExplodeConsEntry, BomEntriesExploded,
     ExplodeBopEntry, UseProduct
<1>5. CASE UndoStep
  BY <1>5, UndoIsQuiet
<1>6. CASE StockSLBStep
  BY <1>6 DEF StockSLBStep, EnforceStockSLB, StockSLBEnforced, StockSLBsEnforced, commVars
<1>7. CASE Call
  BY <1>7 DEF Call, IncHeurAlloc, FinishHeurAlloc, StartHeurAlloc, commVars
<1>8. QED
  BY <1>1, <1>2, <1>3, <1>4, <1>5, <1>6, <1>7 DEF Next, Run

------------------------------------------------------------------------------

\* Where nothing is written and no permanent commit is booking, the ledger
\* holds as long as its floor does not rise.
LEMMA LedgerOutside ==
  ASSUME Allocation, Allocation', Ledger, UNCHANGED <<base, supplyVol, shipVol>>,
         ~Booking, ~Booking', FloorFalls, InOrder' => InOrder
  PROVE  DonePos' /\ Books'
<1>1. BooksAgree
  BY AgreeOutside
<1>2. QED
  BY <1>1, DoneStaysPos, BooksStay DEF BooksAgree, Ledger

LEMMA LedgerOfCommit ==
  ASSUME Control, Allocation, Allocation', Ledger, ReqsWithin, CallMeans,
         FillStep \/ ExplodeStep \/ UndoStep
  PROVE  DonePos' /\ Books'
<1>1. UNCHANGED <<supplyVol, shipVol, mode, call, netQty, top, search, slbs>>
  BY UndoIsQuiet, CommitIsQuiet
<1>2. FloorFalls
  BY <1>1, FloorOfSame
<1>3. mode \in {"none", "temp", "perm"}
  BY SMTT(30) DEF Control
<1>4. pc \in CommitPoints /\ pc' \in CommitPoints
  BY DEF FillStep, NetReq, NetAndRollReq, Netted, AllFilled, CannotExplode, ExplodeBopEnt,
         ExplodeStep, BomEntryNotInEffect, ExplodeBomEntry, NetConsEntry, NettedTo,
         NetByProductEntry, SkipSubEntry, ExplodeConsEntry, BomEntriesExploded,
         ExplodeBopEntry, UseProduct, UndoStep, ClearReqSched, RestoreSoln,
         CommitPoints, NextReqs, PendingReqs
<1>5. CASE CannotExplode /\ mode = "perm"
  <2>1. ok' = FALSE /\ base' = base /\ pc = "explode" /\ pc' = "clear"
    BY <1>5 DEF CannotExplode
  <2>2. Books'
    BY <1>1, <1>5, <2>1 DEF Books, InOrder
  <2>3. DoneStays
    <3>1. SameVols(base, base')
      BY <2>1, NothingWritten
    <3>2. pc \notin Executing /\ pc' \notin Executing
      BY <2>1 DEF Executing
    <3>3. QED
      BY <3>1, <3>2, UnseenOutside, DoneOfNothing
  <2>4. DonePos'
    BY <2>3, StaysGrow, DoneStaysPos DEF Ledger
  <2>5. QED
    BY <2>2, <2>4
<1>6. CASE ~CannotExplode /\ mode = "perm"
  <2>1. InPerm
    BY <1>1, <1>6 DEF InPerm
  <2>2. BooksAgree
    BY SMTT(30), <1>6, <2>1, PermAgrees
  <2>3. ok' = ok
    BY <1>6, UndoIsQuiet DEF FillStep, NetReq, NetAndRollReq, Netted, AllFilled,
         ExplodeBopEnt, ExplodeStep, BomEntryNotInEffect, ExplodeBomEntry, NetConsEntry,
         NetByProductEntry, SkipSubEntry, ExplodeConsEntry, BomEntriesExploded,
         ExplodeBopEntry, UseProduct
  <2>4. InOrder' => InOrder
    BY <1>1, <1>4, <2>3 DEF InOrder, CommitPoints
  <2>5. QED
    BY <1>2, <2>2, <2>4, DoneStaysPos, BooksStay DEF BooksAgree, Ledger
<1>7. CASE mode # "perm"
  <2>0. mode = "temp"
    BY <1>3, <1>4, <1>7 DEF Allocation, Reqs
  <2>1. BooksAgree
    BY <2>0, TempAgrees
  <2>2. InOrder' => InOrder
    BY <1>4, <1>7 DEF InOrder, CommitPoints
  <2>3. QED
    BY <1>2, <2>1, <2>2, DoneStaysPos, BooksStay DEF BooksAgree, Ledger
<1>8. QED
  BY <1>5, <1>6, <1>7

------------------------------------------------------------------------------

Ships(d, t, k) == shipVol' = [shipVol EXCEPT ![d][t] = shipVol[d][t] + k]

LEMMA ShipMoves ==
  ASSUME Allocation, NEW d \in Demands, NEW t \in Periods, NEW k \in Int, Ships(d, t, k),
         NEW p \in Parts, NEW v \in Periods
  PROVE  ShipSum(p, v)' = ShipSum(p, v) + IF p = DemandedPart[d] /\ v = t THEN k ELSE 0
<1>0. shipVol \in [Demands -> [Periods -> Nat]]
  BY DEF Allocation, Locals
<1>1. PICK f, g, S : f = ShippedAt(v) /\ g = ShippedAt(v)'
                     /\ S = {c \in Demands : DemandedPart[c] = p}
  OBVIOUS
<1>2. IsFiniteSet(S) /\ S \subseteq Demands
  BY <1>1, DemandsAssumption, FS_Subset
<1>3. ASSUME NEW c \in Demands
      PROVE  shipVol[c][v] \in Nat /\ shipVol'[c][v] = IF c = d /\ v = t THEN shipVol[c][v] + k
                                                       ELSE shipVol[c][v]
  BY <1>0 DEF Ships
<1>4. \A c \in S : f[c] = shipVol[c][v] /\ g[c] = shipVol'[c][v] /\ f[c] \in Int
  BY <1>0, <1>1, <1>2 DEF ShippedAt, Ships
<1>5. ShipSum(p, v) = SumFunctionOnSet(f, S) /\ ShipSum(p, v)' = SumFunctionOnSet(g, S)
  BY <1>1 DEF ShipSum
<1>6. d \in S <=> p = DemandedPart[d]
  BY <1>1
<1>7. CASE v = t
  <2>1. \A c \in S : f[c] \in Int
    BY <1>4
  <2>2. \A c \in S : g[c] = IF c = d THEN f[c] + k ELSE f[c]
    BY <1>2, <1>3, <1>4, <1>7
  <2>3. SumFunctionOnSet(g, S) = SumFunctionOnSet(f, S) + IF d \in S THEN k ELSE 0
    BY <1>2, <2>1, <2>2, SumChange
  <2>4. QED
    BY <1>5, <1>6, <1>7, <2>3
<1>8. CASE v # t
  <2>1. \A c \in S : f[c] \in Int /\ g[c] = f[c]
    BY <1>2, <1>3, <1>4, <1>8
  <2>2. SumFunctionOnSet(g, S) = SumFunctionOnSet(f, S)
    BY <1>2, <2>1, SumSame
  <2>3. ShipSum(p, v) \in Int
    BY HeldIsInt
  <2>4. QED
    BY <1>5, <1>8, <2>2, <2>3
<1>9. QED
  BY <1>7, <1>8

LEMMA HeldOfShip ==
  ASSUME Allocation, UNCHANGED <<base, supplyVol>>, ~Booking, ~Booking',
         NEW d \in Demands, NEW t \in Periods, NEW k \in Int, Ships(d, t, k)
  PROVE  DoneStays /\ HeldMoves(DemandedPart[d], t, -k)
<1>1. DoneStays
  <2>1. pc \notin Executing \/ mode # "perm"
    BY DEF Booking, Exploding
  <2>2. pc' \notin Executing \/ mode' # "perm"
    BY DEF Booking, Exploding
  <2>3. QED
    BY <2>1, <2>2, NothingWritten, UnseenOutside, DoneOfNothing
<1>2. ASSUME NEW q \in Parts, NEW v \in Periods
      PROVE  Held(q, v)' = Held(q, v) + IF q = DemandedPart[d] /\ v = t THEN -k ELSE 0
  <2>1. PICK x, y, z, w \in Int : x = Owed(q, v) /\ y = MadeSum(q, v) /\ z = ShipSum(q, v)
                                  /\ w = supplyVol[q][v]
    BY HeldIsInt
  <2>2. MadeSum(q, v)' = y
    BY <1>1, <2>1, MadeStays
  <2>3. Owed(q, v)' = x
    BY <2>1 DEF Owed, Pend, InFrame
  <2>4. ShipSum(q, v)' = z + IF q = DemandedPart[d] /\ v = t THEN k ELSE 0
    <3>1. ShipSum(q, v)' = ShipSum(q, v) + IF q = DemandedPart[d] /\ v = t THEN k ELSE 0
      BY ShipMoves
    <3>2. QED
      BY <2>1, <3>1
  <2>5. /\ Held(q, v) = w + x + y - z
        /\ Held(q, v)' = w + x + y - ShipSum(q, v)'
    BY <2>1, <2>2, <2>3 DEF Held
  <2>6. QED
    BY <2>4, <2>5
<1>3. QED
  BY <1>1, <1>2 DEF HeldMoves

\* What is kept in stock from t to u, and from u to v, is kept from t to v.
LEMMA ReachesFurther ==
  ASSUME NEW p, NEW t, NEW u, NEW v, Reaches(p, t, u), Reaches(p, u, v)
  PROVE  Reaches(p, t, v)
<1>1. t \in Int /\ u \in Int /\ v \in Int /\ t <= u /\ u <= v
  BY NumberOfPeriods DEF Reaches
<1>2. \A w \in t..(v - 1) : w \in t..(u - 1) \/ w \in u..(v - 1)
  BY <1>1
<1>3. QED
  BY <1>1, <1>2 DEF Reaches

\* What was committed for the call is what the commit has tried.
LEMMA FloorOfPerm ==
  ASSUME Allocation, Allocation', CallMeans, pc = "return", mode = "perm", mode' = "none",
         netQty' = netQty - TryQty, UNCHANGED <<call, slbs>>
  PROVE  FloorFalls
<1>1. top.part = CallPart /\ Reaches(CallPart, top.per, call.per)
  BY DEF CallMeans, Trying, CommitPoints
<1>2. CallPart' = CallPart
  BY DEF CallPart
<1>3. /\ TryQty \in 1..netQty /\ netQty \in 0..call.vol /\ call.vol \in Nat
  BY TryQtyFits DEF Allocation, Locals, SearchType, CallType, Trying, CommitPoints
<1>4. ASSUME NEW p \in Parts, NEW v \in Periods PROVE Floor(p, v)' <= Floor(p, v)
  <2>0. Got(p, v) \in Nat /\ Tried(p, v) \in Nat
    BY FloorIsNat
  <2>1. Tried(p, v)' = 0
    BY DEF Tried
  <2>2. CASE call.kind # "none" /\ p = CallPart /\ Reaches(p, call.per, v)
    <3>1. Reaches(p, top.per, v) /\ p = top.part
      BY <1>1, <2>2, ReachesFurther
    <3>2. Tried(p, v) = TryQty
      BY <3>1 DEF Tried
    <3>3. Got(p, v) = call.vol - netQty /\ Got(p, v)' = call.vol - (netQty - TryQty)
      BY <1>2, <2>2 DEF Got
    <3>4. PICK a, b, c \in Int : a = call.vol /\ b = netQty /\ c = TryQty
      BY <1>3
    <3>5. a - (b - c) + 0 <= a - b + c
      OBVIOUS
    <3>6. QED
      BY <2>1, <3>2, <3>3, <3>4, <3>5 DEF Floor
  <2>3. CASE ~(call.kind # "none" /\ p = CallPart /\ Reaches(p, call.per, v))
    <3>1. Got(p, v)' = 0
      BY <1>2, <2>3 DEF Got
    <3>2. QED
      BY <2>0, <2>1, <3>1 DEF Floor
  <2>4. QED
    BY <2>2, <2>3
<1>5. QED
  BY <1>4 DEF FloorFalls

\* A permanent commit begins: what is to be made is required of the top part.
LEMMA HeldOfStart ==
  ASSUME Allocation, CursorStarts, PermCommit
  PROVE  /\ top.part \in Parts /\ top.per \in Periods /\ TryQty \in Nat
         /\ DoneStays /\ HeldMoves(top.part, top.per, TryQty)
<1>1. StartCommit("perm") /\ pc = "perm" /\ pc' = "fill" /\ mode' = "perm"
      /\ UNCHANGED <<supplyVol, shipVol, base, cursor, top>>
  BY DEF PermCommit, StartCommit, inputs, results, callVars
<1>2. /\ TryQty \in Nat \ {0} /\ top.part \in Parts /\ top.per \in Periods
      /\ ReqVol(req', top.part, top.per) = TryQty
      /\ \A q \in Parts, u \in Periods :
           <<q, u>> # <<top.part, top.per>> => ReqVol(req', q, u) = 0
  BY <1>1, StartReqs
<1>3. DoneStays
  <2>1. pc \notin Executing /\ pc' \notin Executing
    BY <1>1 DEF Executing
  <2>2. QED
    BY <1>1, <2>1, NothingWritten, UnseenOutside, DoneOfNothing
<1>4. cursor.idx = 0 /\ cursor' = cursor
  BY <1>1 DEF CursorStarts, Exploding, Executing, NoCursor
<1>5. TopList' = TopList /\ \A i \in DOMAIN TopList : i > 0
  <2>1. TopList' = TopList
    BY <1>1 DEF TopList
  <2>2. TopList \in Seq(Parts)
    BY <1>1, TopListParts DEF Allocation, Locals, Trying, CommitPoints
  <2>3. QED
    BY <2>1, <2>2
<1>6. \A q, v : Ahead(q, v)'
  <2>1. \A i, v : Passed(i, v)' <=> i < 0 \/ (i = 0 /\ v <= cursor.per)
    BY <1>4 DEF Passed
  <2>2. \A i \in DOMAIN TopList : i \in Nat /\ i > 0
    <3>1. TopList \in Seq(Parts)
      BY <1>1, TopListParts DEF Allocation, Locals, Trying, CommitPoints
    <3>2. QED
      BY <1>5, <3>1
  <2>3. \A i \in DOMAIN TopList : \A v : ~Passed(i, v)'
    BY <2>1, <2>2
  <2>4. QED
    BY <1>5, <2>3 DEF Ahead
<1>7. ASSUME NEW q \in Parts, NEW v \in Periods
      PROVE  Owed(q, v)' = Owed(q, v) + IF q = top.part /\ v = top.per THEN TryQty ELSE 0
  <2>1. PICK a \in Int : a = base[AvailLoc(q, v)]
    BY HeldIsInt
  <2>2. Pend(q, v) = 0 /\ InFrame(q, v) = 0 /\ InFrame(q, v)' = 0
    BY <1>1 DEF Pend, InFrame, Booking, Exploding, Executing
  <2>3. Booking'
    BY <1>1 DEF Booking
  <2>4. Pend(q, v)' = ReqVol(req', q, v)
    BY <1>6, <2>3 DEF Pend
  <2>5. Owed(q, v) = 0 + 0 - a /\ Owed(q, v)' = ReqVol(req', q, v) + 0 - a
    BY <1>1, <2>1, <2>2, <2>4 DEF Owed
  <2>6. CASE q = top.part /\ v = top.per
    BY <1>2, <2>1, <2>5, <2>6
  <2>7. CASE ~(q = top.part /\ v = top.per)
    <3>1. ReqVol(req', q, v) = 0
      BY <1>2, <2>7
    <3>2. QED
      BY <2>1, <2>5, <2>7, <3>1
  <2>8. QED
    BY <2>6, <2>7
<1>8. OwedMoves(top.part, top.per, TryQty)
  BY <1>7 DEF OwedMoves
<1>9. PICK k \in Int : k = TryQty
  BY <1>2
<1>10. HeldMoves(top.part, top.per, k)
  BY <1>1, <1>2, <1>3, <1>8, <1>9, HeldOfOwed
<1>11. QED
  BY <1>2, <1>3, <1>9, <1>10

------------------------------------------------------------------------------

LEMMA LedgerOfPermCommit ==
  ASSUME Allocation, Allocation', Ledger, PermCommit PROVE DonePos' /\ Books'
<1>1. PICK p \in Parts, t \in Periods, d \in Nat : p = top.part /\ t = top.per /\ d = TryQty
  BY HeldOfStart DEF Ledger
<1>2. DoneStays /\ HeldMoves(p, t, d)
  BY <1>1, HeldOfStart DEF Ledger
<1>3. /\ pc = "perm" /\ pc' = "fill" /\ mode' = "perm"
      /\ UNCHANGED <<call, netQty, slbs, top, search>>
  BY DEF PermCommit, StartCommit, results, callVars
<1>4. mode = "none"
  <2>1. mode = "none" <=> pc \notin CommitPoints
    BY DEF Allocation, Reqs
  <2>2. QED
    BY <1>3, <2>1 DEF CommitPoints
<1>5. TryQty' = TryQty
  BY <1>3 DEF TryQty, CurMult, CurSearchInc
<1>6. \A q, v : Got(q, v)' = Got(q, v)
  BY <1>3, SameGot
<1>7. ASSUME NEW q \in Parts, NEW v \in Periods
      PROVE  Floor(q, v)' <= Floor(q, v) + IF q = p /\ Reaches(p, t, v) THEN d ELSE 0
  <2>1. PICK a \in Nat : a = Got(q, v)
    BY FloorIsNat
  <2>2. Floor(q, v) = a + 0
    BY <1>4, <2>1 DEF Floor, Tried
  <2>3. Tried(q, v)' = IF q = p /\ Reaches(p, t, v) THEN d ELSE 0
    BY <1>1, <1>3, <1>5 DEF Tried
  <2>4. Floor(q, v)' = a + IF q = p /\ Reaches(p, t, v) THEN d ELSE 0
    BY <1>6, <2>1, <2>3 DEF Floor
  <2>5. QED
    BY <2>2, <2>4
<1>8. FloorRises(p, t, d)
  BY <1>7 DEF FloorRises
<1>9. InOrder' => InOrder
  BY <1>3, <1>4 DEF InOrder
<1>10. d \in Int
  OBVIOUS
<1>11. Books'
  BY <1>2, <1>8, <1>9, <1>10, BooksMove DEF Ledger
<1>12. DonePos'
  BY <1>2, StaysGrow, DoneStaysPos DEF Ledger
<1>13. QED
  BY <1>11, <1>12

\* The call ships what was committed for it.
LEMMA LedgerOfPost ==
  ASSUME Allocation, Allocation', Ledger, PostIncHeurAlloc PROVE DonePos' /\ Books'
<1>1. /\ pc = "cmq" /\ pc' = "idle" /\ call.kind = "inc" /\ call' = NoCall /\ netQty' = 0
      /\ UNCHANGED <<base, supplyVol, mode>>
      /\ Ships(call.demand, call.per, call.vol - netQty)
  BY DEF PostIncHeurAlloc, inputs, Ships
<1>2. PICK d \in Demands, t \in Periods, k \in Nat :
        d = call.demand /\ t = call.per /\ k = call.vol - netQty
  <2>1. call.demand \in Demands /\ call.per \in Periods /\ netQty \in 0..call.vol
        /\ call.vol \in Nat
    BY <1>1 DEF Allocation, Locals, CallType
  <2>2. call.vol - netQty \in Nat
    BY <2>1
  <2>3. QED
    BY <2>1, <2>2
<1>3. Ships(d, t, k)
  BY <1>1, <1>2
<1>4. mode = "none" /\ mode' = "none"
  <2>1. mode = "none" <=> pc \notin CommitPoints
    BY DEF Allocation, Reqs
  <2>2. QED
    BY <1>1, <2>1 DEF CommitPoints
<1>5. k \in Int /\ -k \in Int /\ ~Booking /\ ~Booking'
  BY <1>4 DEF Booking
<1>6. PICK p \in Parts : p = DemandedPart[d]
  BY DemandsAssumption
<1>7. DoneStays /\ HeldMoves(p, t, -k)
  BY <1>1, <1>3, <1>5, <1>6, HeldOfShip
<1>8. ASSUME NEW q \in Parts, NEW v \in Periods
      PROVE  Floor(q, v)' <= Floor(q, v) + IF q = p /\ Reaches(p, t, v) THEN -k ELSE 0
  <2>1. Floor(q, v)' = 0
    BY <1>1, <1>4, NoFloor DEF NothingIsGot, NoCall
  <2>2. Floor(q, v) \in Nat
    BY FloorIsNat
  <2>3. CASE q = p /\ Reaches(p, t, v)
    <3>1. Got(q, v) = k
      BY <1>1, <1>2, <1>6, <2>3 DEF Got, CallPart
    <3>2. Tried(q, v) = 0
      BY <1>4 DEF Tried
    <3>3. QED
      BY <2>1, <2>3, <3>1, <3>2 DEF Floor
  <2>4. CASE ~(q = p /\ Reaches(p, t, v))
    BY <2>1, <2>2, <2>4
  <2>5. QED
    BY <2>3, <2>4
<1>9. FloorRises(p, t, -k)
  BY <1>8 DEF FloorRises
<1>10. InOrder' => InOrder
  BY <1>1, <1>4 DEF InOrder
<1>11. Books'
  BY <1>5, <1>7, <1>9, <1>10, BooksMove DEF Ledger
<1>12. DonePos'
  BY <1>7, StaysGrow, DoneStaysPos DEF Ledger
<1>13. QED
  BY <1>11, <1>12

LEMMA LedgerOfMaxQty ==
  ASSUME Control, Allocation, Allocation', Ledger, CallMeans, MaxQtyStep PROVE DonePos' /\ Books'
<1>1. mode = "none" <=> pc \notin CommitPoints
  BY DEF Allocation, Reqs
<1>2. CallType
  BY DEF Allocation, Locals
<1> USE DEF CommitPoints
<1>3. CASE SkipBlocked \/ CommitMaxQty
  <2>1. /\ pc = "cmq" /\ pc' \in {"cmq", "try"}
        /\ UNCHANGED <<base, supplyVol, shipVol, mode, netQty, slbs>>
        /\ call' = [call EXCEPT !.todo = Tail(call.todo)]
    BY <1>3 DEF SkipBlocked, CommitMaxQty, inputs, results
  <2>2. mode = "none" /\ mode' = "none"
    BY <1>1, <2>1
  <2>3. /\ call'.kind = call.kind /\ call'.demand = call.demand /\ call'.per = call.per
        /\ call'.vol = call.vol
    BY <1>2, <2>1 DEF CallType
  <2>4. FloorFalls
    BY <2>1, <2>2, <2>3, SameGot, FloorOfGot
  <2>5. InOrder' => InOrder
    BY <2>1, <2>2 DEF InOrder
  <2>6. ~Booking /\ ~Booking'
    BY <2>2 DEF Booking
  <2>7. QED
    BY <2>1, <2>4, <2>5, <2>6, LedgerOutside
<1>4. CASE TempCommit
  <2>1. /\ pc = "try" /\ pc' = "fill" /\ mode' = "temp"
        /\ UNCHANGED <<base, supplyVol, shipVol, call, netQty, slbs>>
    BY <1>4 DEF TempCommit, StartCommit, inputs, results, callVars
  <2>2. mode = "none"
    BY <1>1, <2>1
  <2>3. FloorFalls
    BY <2>1, SameGot, FloorOfGot
  <2>4. InOrder' => InOrder
    BY <2>1, <2>2 DEF InOrder
  <2>5. ~Booking /\ ~Booking'
    BY <2>1, <2>2 DEF Booking
  <2>6. QED
    BY <2>1, <2>3, <2>4, <2>5, LedgerOutside
<1>5. CASE PermCommit
  BY <1>5, LedgerOfPermCommit
<1>6. CASE TempCommitReturns
  <2>1. /\ pc = "return" /\ mode = "temp" /\ mode' = "none"
        /\ UNCHANGED <<base, supplyVol, shipVol, call, netQty, slbs>>
    BY <1>6 DEF TempCommitReturns, inputs, results
  <2>2. FloorFalls
    BY <2>1, SameGot, FloorOfGot
  <2>3. InOrder' => InOrder
    BY <2>1 DEF InOrder
  <2>4. ~Booking /\ ~Booking'
    BY <2>1 DEF Booking
  <2>5. QED
    BY <2>1, <2>2, <2>3, <2>4, LedgerOutside
<1>7. CASE PermCommitReturns
  <2>1. /\ pc = "return" /\ mode = "perm" /\ mode' = "none"
        /\ UNCHANGED <<base, supplyVol, shipVol, call, slbs>>
    BY <1>7 DEF PermCommitReturns, inputs, results
  <2>2. ~Booking /\ ~Booking'
    BY <2>1 DEF Booking, Exploding, Executing
  <2>3. BooksAgree
    BY <2>1, <2>2, AgreeOutside
  <2>4. DonePos'
    BY <2>3, DoneStaysPos DEF BooksAgree, Ledger
  <2>5. CASE ok
    <3>1. netQty' = netQty - TryQty /\ pc' = "cmqEnd"
      BY <1>7, <2>5 DEF PermCommitReturns
    <3>2. FloorFalls
      BY <2>1, <3>1, FloorOfPerm
    <3>3. InOrder
      BY <2>1, <2>5 DEF InOrder
    <3>4. QED
      BY <2>3, <2>4, <3>2, <3>3, BooksStay DEF BooksAgree, Ledger
  <2>6. CASE ~ok
    BY <1>7, <2>4, <2>6 DEF PermCommitReturns, Books, InOrder
  <2>7. QED
    BY <2>5, <2>6
<1>8. CASE CommitMaxQtyEnds
  <2>1. /\ pc = "cmqEnd" /\ pc' = "cmq"
        /\ UNCHANGED <<base, supplyVol, shipVol, call, netQty, slbs, mode>>
    BY <1>8 DEF CommitMaxQtyEnds, inputs
  <2>2. mode = "none" /\ mode' = "none"
    BY <1>1, <2>1
  <2>3. FloorFalls
    BY <2>1, <2>2, SameGot, FloorOfGot
  <2>4. InOrder' => InOrder
    BY <2>1, <2>2 DEF InOrder
  <2>5. ~Booking /\ ~Booking'
    BY <2>2 DEF Booking
  <2>6. QED
    BY <2>1, <2>3, <2>4, <2>5, LedgerOutside
<1>9. CASE PostIncHeurAlloc
  BY <1>9, LedgerOfPost
<1>10. QED
  BY <1>3, <1>4, <1>5, <1>6, <1>7, <1>8, <1>9 DEF MaxQtyStep

------------------------------------------------------------------------------

Quiet == /\ mode = "none" /\ mode' = "none" /\ pc # "restore" /\ Allocation /\ Allocation'
         /\ UNCHANGED <<supplyVol, shipVol>>
         /\ pc # "fatal"

LEMMA QuietIs ==
  ASSUME Quiet
  PROVE  /\ ~Booking /\ ~Booking' /\ TakesSame /\ (InOrder' => InOrder) /\ UnseenStays
         /\ mode # "temp"
<1>1. ~Booking /\ ~Booking' /\ mode # "temp"
  BY DEF Quiet, Booking
<1>2. TakesSame
  BY <1>1 DEF TakesSame, Pend, InFrame
<1>3. InOrder' => InOrder
  BY DEF Quiet, InOrder
<1>4. UnseenStays
  BY UnseenOutside DEF Quiet
<1>5. QED
  BY <1>1, <1>2, <1>3, <1>4

LEMMA LedgerOfNothing ==
  ASSUME Quiet, Ledger, base' = base, FloorFalls PROVE DonePos' /\ Books'
<1>1. ~Booking /\ ~Booking' /\ (InOrder' => InOrder)
  BY QuietIs
<1>2. UNCHANGED <<base, supplyVol, shipVol>> /\ Allocation /\ Allocation'
  BY DEF Quiet
<1>3. QED
  BY <1>1, <1>2, LedgerOutside

\* What is taken of part p in period t is held, what is given back no more.
LEMMA HeldOfAvail ==
  ASSUME Quiet, NEW p \in Parts, NEW t \in Periods, NEW a \in Int, AvailMoves(p, t, a),
         SameVols(base, base')
  PROVE  DoneStays /\ HeldMoves(p, t, -a)
<1>1. Allocation /\ UNCHANGED <<supplyVol, shipVol>> /\ TakesSame /\ UnseenStays
  BY QuietIs DEF Quiet
<1>2. OwedMoves(p, t, -a)
  BY <1>1, OwedOfAvail
<1>3. DoneStays
  BY <1>1, DoneOfNothing
<1>4. PICK d \in Int : d = -a
  OBVIOUS
<1>5. HeldMoves(p, t, d)
  BY <1>1, <1>2, <1>3, <1>4, HeldOfOwed
<1>6. QED
  BY <1>3, <1>4, <1>5

LEMMA LedgerOfAvail ==
  ASSUME Quiet, Ledger, NEW p \in Parts, NEW t \in Periods, NEW a \in Int,
         AvailMoves(p, t, a), SameVols(base, base'), FloorRises(p, t, -a)
  PROVE  DonePos' /\ Books'
<1>1. Allocation /\ Allocation' /\ (InOrder' => InOrder)
  BY QuietIs DEF Quiet
<1>2. DoneStays /\ HeldMoves(p, t, -a)
  BY HeldOfAvail
<1>3. -a \in Int
  OBVIOUS
<1>4. Books'
  BY <1>1, <1>2, <1>3, BooksMove DEF Ledger
<1>5. DonePos'
  BY <1>1, <1>2, StaysGrow, DoneStaysPos DEF Ledger
<1>6. QED
  BY <1>4, <1>5

------------------------------------------------------------------------------

\* What is moved from a period to one that it reaches.
HeldShifts(p, t, u, d) ==
  \A q \in Parts, v \in Periods :
    Held(q, v)' = Held(q, v) + IF q = p /\ v = t THEN d ELSE IF q = p /\ v = u THEN -d ELSE 0

LEMMA LeftOfShift ==
  ASSUME Allocation, NEW p \in Parts, NEW t \in Periods, NEW u \in Periods, t # u,
         NEW d \in Nat, HeldShifts(p, t, u, d), Reaches(p, t, u),
         NEW q \in Parts, NEW left, IsLeft(HeldMem, q, left)
  PROVE  \E new : IsLeft(HeldMem', q, new) /\ \A v \in Periods : new[v] >= left[v]
<1>1. PICK m, n : m = HeldMem /\ n = HeldMem'
  OBVIOUS
<1>2. ASSUME NEW v \in Periods
      PROVE  /\ m[AvailLoc(q, v)] \in Int
             /\ n[AvailLoc(q, v)] =
                  m[AvailLoc(q, v)] + IF q = p /\ v = t THEN d
                                      ELSE IF q = p /\ v = u THEN -d ELSE 0
  <2>1. m[AvailLoc(q, v)] = Held(q, v) /\ n[AvailLoc(q, v)] = Held(q, v)'
    BY <1>1, HeldMemIs
  <2>2. Held(q, v) \in Int
    BY HeldIsInt
  <2>3. QED
    BY <2>1, <2>2 DEF HeldShifts
<1>3. IsLeft(m, q, left) /\ left \in [Periods -> Int]
  BY <1>1 DEF IsLeft
<1>4. d \in Int /\ -d \in Int
  OBVIOUS
<1>5. CASE q # p
  <2>1. \A v \in Periods : n[AvailLoc(q, v)] = m[AvailLoc(q, v)]
    BY <1>2, <1>5
  <2>2. IsLeft(n, q, left)
    BY <1>3, <2>1 DEF IsLeft
  <2>3. \A v \in Periods : left[v] >= left[v]
    BY <1>3
  <2>4. QED
    BY <1>1, <2>2, <2>3
<1>6. CASE q = p
  <2>1. PICK mid : mid = [loc \in HeldLocs |->
                            IF loc[4] = t THEN m[loc] + d ELSE m[loc]]
    OBVIOUS
  <2>2. ASSUME NEW v \in Periods
        PROVE  mid[AvailLoc(p, v)] = IF v = t THEN m[AvailLoc(p, v)] + d ELSE m[AvailLoc(p, v)]
    <3>1. PICK loc : loc = AvailLoc(p, v)
      OBVIOUS
    <3>2. loc \in HeldLocs /\ loc[4] = v
      BY <3>1 DEF HeldLocs, AvailLoc
    <3>3. mid[loc] = IF v = t THEN m[loc] + d ELSE m[loc]
      BY <2>1, <3>2
    <3>4. QED
      BY <3>1, <3>3
  <2>3. PICK first : first = LeftPlus(p, left, t, d)
    OBVIOUS
  <2>4. \A v \in Periods : m[AvailLoc(p, v)] \in Int
    BY <1>2, <1>6
  <2>5. IsLeft(mid, p, first)
    BY <1>3, <1>4, <1>6, <2>2, <2>3, <2>4, LeftOfSum
  <2>6. \A v \in Periods : mid[AvailLoc(p, v)] \in Int
    BY <2>2, <2>4
  <2>7. ASSUME NEW v \in Periods
        PROVE  n[AvailLoc(p, v)] =
                 IF v = u THEN mid[AvailLoc(p, v)] + -d ELSE mid[AvailLoc(p, v)]
    <3>1. PICK x \in Int : x = m[AvailLoc(p, v)]
      BY <2>4
    <3>2. mid[AvailLoc(p, v)] = IF v = t THEN x + d ELSE x
      BY <2>2, <3>1
    <3>3. n[AvailLoc(p, v)] = x + IF v = t THEN d ELSE IF v = u THEN -d ELSE 0
      BY <1>2, <1>6, <3>1
    <3>4. QED
      BY <3>2, <3>3
  <2>8. PICK new : new = LeftPlus(p, first, u, -d)
    OBVIOUS
  <2>9. IsLeft(n, p, new)
    BY <1>4, <2>5, <2>6, <2>7, <2>8, LeftOfSum
  <2>10. ASSUME NEW v \in Periods PROVE new[v] >= left[v]
    <3>1. PICK x \in Int : x = left[v]
      BY <1>3
    <3>2. first[v] = IF Reaches(p, t, v) THEN x + d ELSE x
      BY <2>3, <3>1 DEF LeftPlus
    <3>3. new[v] = IF Reaches(p, u, v) THEN first[v] + -d ELSE first[v]
      BY <2>8 DEF LeftPlus
    <3>4. Reaches(p, u, v) => Reaches(p, t, v)
      BY ReachesFurther
    <3>5. QED
      BY <3>1, <3>2, <3>3, <3>4
  <2>11. QED
    BY <1>1, <1>6, <2>9, <2>10
<1>7. QED
  BY <1>5, <1>6

\* What is available is moved from a period to another one.
Moved(p, t, u, d) ==
  \A q \in Parts, v \in Periods :
    base'[AvailLoc(q, v)] = base[AvailLoc(q, v)] + IF q = p /\ v = t THEN -d
                                                   ELSE IF q = p /\ v = u THEN d ELSE 0

LEMMA HeldOfShift ==
  ASSUME Quiet, NEW p \in Parts, NEW t \in Periods, NEW u \in Periods, t # u,
         NEW d \in Nat, SameVols(base, base'), Moved(p, t, u, d)
  PROVE  DoneStays /\ HeldShifts(p, t, u, d)
<1>1. /\ Allocation /\ UNCHANGED <<supplyVol, shipVol>> /\ TakesSame /\ UnseenStays
  BY QuietIs DEF Quiet
<1>2. DoneStays
  BY <1>1, DoneOfNothing
<1>3. ASSUME NEW q \in Parts, NEW v \in Periods
      PROVE  Held(q, v)' =
               Held(q, v) + IF q = p /\ v = t THEN d ELSE IF q = p /\ v = u THEN -d ELSE 0
  <2>1. PICK x, y, z, a, b, c \in Int :
          /\ x = Pend(q, v) /\ y = InFrame(q, v) /\ z = base[AvailLoc(q, v)]
          /\ a = supplyVol[q][v] /\ b = MadeSum(q, v) /\ c = ShipSum(q, v)
    <3>1. /\ Pend(q, v) \in Int /\ InFrame(q, v) \in Int /\ base[AvailLoc(q, v)] \in Int
          /\ MadeSum(q, v) \in Int /\ ShipSum(q, v) \in Int /\ supplyVol[q][v] \in Nat
      BY <1>1, HeldIsInt
    <3>2. supplyVol[q][v] \in Int
      BY <3>1
    <3>3. QED
      BY <3>1, <3>2
  <2>2. /\ Pend(q, v)' = x /\ InFrame(q, v)' = y /\ supplyVol'[q][v] = a
        /\ MadeSum(q, v)' = b /\ ShipSum(q, v)' = c
    BY <1>1, <1>2, <2>1, MadeStays, ShipStays DEF TakesSame
  <2>3. base'[AvailLoc(q, v)] = z + IF q = p /\ v = t THEN -d
                                    ELSE IF q = p /\ v = u THEN d ELSE 0
    BY <2>1 DEF Moved
  <2>4. Held(q, v) = a + (x + y - z) + b - c
    BY <2>1 DEF Held, Owed
  <2>5. Held(q, v)' = a + (x + y - base'[AvailLoc(q, v)]) + b - c
    BY <2>2 DEF Held, Owed
  <2>6. QED
    BY <2>3, <2>4, <2>5
<1>4. QED
  BY <1>2, <1>3 DEF HeldShifts

LEMMA LedgerOfShift ==
  ASSUME Quiet, Ledger, NEW p \in Parts, NEW t \in Periods, NEW u \in Periods, t # u,
         NEW d \in Nat, Reaches(p, t, u), SameVols(base, base'), FloorFalls,
         Moved(p, t, u, d)
  PROVE  DonePos' /\ Books'
<1>1. Allocation /\ Allocation' /\ (InOrder' => InOrder)
  BY QuietIs DEF Quiet
<1>2. DoneStays /\ HeldShifts(p, t, u, d)
  BY HeldOfShift
<1>3. ASSUME InOrder', NEW q \in Parts PROVE HasLeft(q)'
  <2>1. HasLeft(q)
    BY <1>1, <1>3 DEF Ledger, Books
  <2>2. PICK left : IsLeft(HeldMem, q, left) /\ \A v \in Periods : left[v] >= Floor(q, v)
    BY <2>1 DEF HasLeft
  <2>3. PICK new : IsLeft(HeldMem', q, new) /\ \A v \in Periods : new[v] >= left[v]
    BY <1>1, <1>2, <2>2, LeftOfShift
  <2>4. ASSUME NEW v \in Periods PROVE new[v] >= Floor(q, v)'
    <3>1. left[v] \in Int /\ new[v] \in Int
      BY <2>2, <2>3 DEF IsLeft
    <3>2. PICK a, b \in Nat : a = Floor(q, v) /\ b = Floor(q, v)'
      BY <1>1, FloorIsNat, FloorAndDoneNext DEF FloorNat
    <3>3. b <= a /\ left[v] >= a /\ new[v] >= left[v]
      BY <2>2, <2>3, <3>2 DEF FloorFalls
    <3>4. new[v] >= b
      BY <3>1, <3>3
    <3>5. QED
      BY <3>2, <3>4
  <2>5. QED
    BY <2>3, <2>4 DEF HasLeft
<1>4. Books'
  BY <1>3 DEF Books
<1>5. DonePos'
  BY <1>1, <1>2, StaysGrow, DoneStaysPos DEF Ledger
<1>6. QED
  BY <1>4, <1>5

------------------------------------------------------------------------------

LEMMA SlbIsStocked ==
  ASSUME CallMeans, slbs # <<>>, NEW m, NEW t, slbs[1] = [mat |-> m, per |-> t]
  PROVE  CanStock(m, t)
<1>1. slbs[1] \in Slb
  BY DEF CallMeans
<1>2. slbs[1].mat = m /\ slbs[1].per = t
  OBVIOUS
<1>3. QED
  BY <1>1, <1>2 DEF Slb

LEMMA NextIsReached ==
  ASSUME NEW m \in Parts, NEW t \in Periods, CanStock(m, t), NEW u, u = t + 1, t < NPeriods - 1
  PROVE  u \in Periods /\ t # u /\ Reaches(m, t, u)
<1>1. t \in Nat /\ u \in Periods /\ t <= u
  BY NumberOfPeriods
<1>2. \A w \in t..(u - 1) : w = t
  BY <1>1
<1>3. QED
  BY <1>1, <1>2 DEF Reaches

\* d units that are available in period t are reserved for the next one.
Reserved(m, t, d) ==
  \/ d = 0 /\ base' = base
  \/ /\ t < NPeriods - 1
     /\ Reaches(m, t, t + 1)
     /\ Moved(m, t, t + 1, d)
     /\ SameVols(base, base')
  \/ /\ t = NPeriods - 1
     /\ AvailMoves(m, t, -d)
     /\ SameVols(base, base')

LEMMA EnforceReserves ==
  ASSUME Allocation, Allocation', CallMeans, NEW m \in Materials, NEW t \in Periods,
         EnforceStockSLB(m, t)
  PROVE  /\ Quiet /\ pc = "slb" /\ pc' = "cmq" /\ slbs # <<>> /\ slbs' = slbs
         /\ slbs[1] = [mat |-> m, per |-> t]
         /\ call'.kind = "slb" /\ call'.vol = netQty' /\ NothingIsGot'
         /\ \E d \in Nat : netQty' = StockSLB[m][t] - d /\ Reserved(m, t, d)
<1>1. PICK slb \in Nat : slb = StockSLB[m][t]
  BY DemandsAssumption
<1>2. PICK res : res = AvailToNet(soln, m, t, slb, 0)
  OBVIOUS
<1>3. PICK s : s = IF res <= 0 THEN soln
                   ELSE KeepInStock(AddAvail(soln, m, t, -res), m, t, res)
  OBVIOUS
<1>4. /\ pc = "slb" /\ pc' = "cmq" /\ Write(s) /\ slbs # <<>> /\ slbs' = slbs
      /\ slbs[1] = [mat |-> m, per |-> t]
      /\ UNCHANGED <<supplyVol, shipVol, mode>>
      /\ netQty' = slb - Max({0, res})
      /\ call' = [NoCall EXCEPT !.kind = "slb", !.per = t, !.vol = netQty', !.todo = <<t>>]
  BY <1>1, <1>2, <1>3 DEF EnforceStockSLB, inputs, results
<1>5. mode = "none"
  <2>1. mode = "none" <=> pc \notin CommitPoints
    BY DEF Allocation, Reqs
  <2>2. QED
    BY <1>4, <2>1 DEF CommitPoints
<1>6. Quiet /\ mode # "temp" /\ pc # "restore" /\ m \in Parts
  BY <1>4, <1>5 DEF Quiet, Parts
<1>7. call'.vol = netQty' /\ call'.kind = "slb"
  BY <1>4 DEF NoCall
<1>8. res \in Int
  <2>1. IntMem(soln.mem) /\ Feasible(soln.mem) /\ slb \in Int
    BY <1>4 DEF Allocation, Sched, SoundAndFeasible, Sound
  <2>2. PICK left : IsLeft(soln.mem, m, left) /\ Nonneg(left)
    BY <1>6, <2>1 DEF Feasible, Covered
  <2>3. QED
    BY <1>2, <2>1, <2>2, AvailToNetFits
<1>9. Max({0, res}) = IF res <= 0 THEN 0 ELSE res
  BY <1>8, NetMax
<1>10. CASE res <= 0
  <2>1. base' = base
    BY <1>3, <1>4, <1>6, <1>10, WroteNothing
  <2>2. netQty' = slb - 0 /\ 0 \in Nat
    BY <1>4, <1>9, <1>10
  <2>3. Reserved(m, t, 0)
    BY <2>1 DEF Reserved
  <2>4. QED
    BY <1>1, <1>4, <1>6, <1>7, <2>2, <2>3 DEF NothingIsGot
<1>11. CASE ~(res <= 0)
  <2>1. PICK d \in Nat : d = res
    BY <1>8, <1>11
  <2>2. netQty' = slb - d
    BY <1>4, <1>9, <1>11, <2>1
  <2>3. CASE t < NPeriods - 1
    <3>1. PICK u \in Periods : u = t + 1
      BY <2>3, NumberOfPeriods
    <3>2. t # u /\ Reaches(m, t, u)
      BY <1>4, <1>6, <2>3, <3>1, SlbIsStocked, NextIsReached
    <3>3. Write(AddAvail(AddAvail(soln, m, t, -d), m, u, d))
      BY <1>3, <1>4, <1>11, <2>1, <2>3, <3>1 DEF KeepInStock
    <3>4. ASSUME NEW q \in Parts, NEW v \in Periods
          PROVE  /\ SameVols(base, base')
                 /\ base'[AvailLoc(q, v)] =
                      base[AvailLoc(q, v)] + IF q = m /\ v = t THEN -d
                                             ELSE IF q = m /\ v = u THEN d ELSE 0
      BY <1>6, <3>2, <3>3, RolledHolds
    <3>5. SameVols(base, base')
      BY <1>6, <3>4
    <3>6. Moved(m, t, u, d)
      BY <3>4 DEF Moved
    <3>7. Reserved(m, t, d)
      BY <2>3, <3>1, <3>2, <3>5, <3>6 DEF Reserved
    <3>8. QED
      BY <1>1, <1>4, <1>6, <1>7, <2>2, <3>7 DEF NothingIsGot
  <2>4. CASE ~(t < NPeriods - 1)
    <3>1. Write(AddAvail(soln, m, t, -d))
      BY <1>3, <1>4, <1>11, <2>1, <2>4 DEF KeepInStock
    <3>2. PICK a \in Int : a = -d
      OBVIOUS
    <3>3. AvailMoves(m, t, a) /\ SameVols(base, base')
      BY <1>6, <3>1, <3>2, WroteAvail
    <3>4. t = NPeriods - 1
      BY <2>4, NumberOfPeriods
    <3>5. Reserved(m, t, d)
      BY <3>2, <3>3, <3>4 DEF Reserved
    <3>6. QED
      BY <1>1, <1>4, <1>6, <1>7, <2>2, <3>5 DEF NothingIsGot
  <2>5. QED
    BY <2>3, <2>4
<1>12. QED
  BY <1>10, <1>11

LEMMA LedgerOfEnforce ==
  ASSUME Allocation, Allocation', Ledger, CallMeans, NEW m \in Materials, NEW t \in Periods,
         EnforceStockSLB(m, t)
  PROVE  DonePos' /\ Books'
<1>1. Quiet /\ NothingIsGot' /\ mode' # "perm" /\ m \in Parts
  BY EnforceReserves DEF Quiet, Parts
<1>2. FloorFalls /\ \A q, v : Floor(q, v)' = 0
  BY <1>1, NoFloor, FloorOfNone
<1>3. PICK d \in Nat : Reserved(m, t, d)
  BY EnforceReserves
<1>4. CASE base' = base
  BY <1>1, <1>2, <1>4, LedgerOfNothing
<1>5. CASE /\ t < NPeriods - 1 /\ Reaches(m, t, t + 1) /\ Moved(m, t, t + 1, d)
           /\ SameVols(base, base')
  <2>1. PICK u \in Periods : u = t + 1 /\ t # u
    BY <1>5, NumberOfPeriods
  <2>2. QED
    BY <1>1, <1>2, <1>5, <2>1, LedgerOfShift
<1>6. CASE AvailMoves(m, t, -d) /\ SameVols(base, base')
  <2>1. PICK a \in Int : a = -d
    OBVIOUS
  <2>2. ASSUME NEW q \in Parts, NEW v \in Periods
        PROVE  Floor(q, v)' <= Floor(q, v) + IF q = m /\ Reaches(m, t, v) THEN -a ELSE 0
    BY <1>2, <2>1, FloorIsNat
  <2>3. FloorRises(m, t, -a)
    BY <2>2 DEF FloorRises
  <2>4. QED
    BY <1>1, <1>6, <2>1, <2>3, LedgerOfAvail
<1>7. QED
  BY <1>3, <1>4, <1>5, <1>6 DEF Reserved

\* k units are put into stock at the end of period t.
Stored(m, t, k) ==
  \/ /\ k = 0 \/ t = NPeriods - 1
     /\ base' = base
  \/ /\ t < NPeriods - 1
     /\ Reaches(m, t, t + 1)
     /\ AvailMoves(m, t + 1, k)
     /\ SameVols(base, base')

\* What was committed for a stock bound is put into stock.
LEMMA EnforcedStores ==
  ASSUME Allocation, Allocation', CallMeans, NEW m \in Materials, NEW t \in Periods,
         StockSLBEnforced(m, t)
  PROVE  /\ Quiet /\ pc = "cmq" /\ pc' = "slb" /\ slbs # <<>> /\ slbs' = Tail(slbs)
         /\ slbs[1] = [mat |-> m, per |-> t]
         /\ call.kind = "slb" /\ CallPart = m /\ call.per = t /\ call' = NoCall
         /\ \E k \in Nat : k = call.vol - netQty /\ Stored(m, t, k)
<1>0. CallType
  BY DEF Allocation, Locals
<1>1. PICK k \in Nat : k = call.vol - netQty
  BY <1>0 DEF CallType
<1>2. /\ pc = "cmq" /\ pc' = "slb" /\ call.kind = "slb"
      /\ Write(IF k > 0 THEN KeepInStock(soln, m, t, k) ELSE soln)
      /\ slbs[1] = [mat |-> m, per |-> t] /\ call' = NoCall /\ slbs' = Tail(slbs)
      /\ UNCHANGED <<supplyVol, shipVol, mode>>
  BY <1>1 DEF StockSLBEnforced, inputs
<1>3. mode = "none"
  <2>1. mode = "none" <=> pc \notin CommitPoints
    BY DEF Allocation, Reqs
  <2>2. QED
    BY <1>2, <2>1 DEF CommitPoints
<1>4. Quiet /\ mode # "temp" /\ pc # "restore" /\ m \in Parts
  BY <1>2, <1>3 DEF Quiet, Parts
<1>5. slbs # <<>> /\ CallPart = m /\ call.per = t
  BY <1>2 DEF CallMeans, CallPart
<1>6. Stored(m, t, k)
  <2>1. CASE ~(k > 0 /\ t < NPeriods - 1)
    <3>1. Write(soln)
      BY <1>2, <2>1 DEF KeepInStock
    <3>2. base' = base
      BY <1>4, <3>1, WroteNothing
    <3>3. k = 0 \/ t = NPeriods - 1
      BY <2>1, NumberOfPeriods
    <3>4. QED
      BY <3>2, <3>3 DEF Stored
  <2>2. CASE k > 0 /\ t < NPeriods - 1
    <3>1. PICK u \in Periods : u = t + 1
      BY <2>2, NumberOfPeriods
    <3>2. Reaches(m, t, u)
      BY <1>2, <1>4, <1>5, <2>2, <3>1, SlbIsStocked, NextIsReached
    <3>3. Write(AddAvail(soln, m, u, k)) /\ k \in Int
      BY <1>2, <2>2, <3>1 DEF KeepInStock
    <3>4. AvailMoves(m, u, k) /\ SameVols(base, base')
      BY <1>4, <3>3, WroteAvail
    <3>5. QED
      BY <2>2, <3>1, <3>2, <3>4 DEF Stored
  <2>3. QED
    BY <2>1, <2>2
<1>7. QED
  BY <1>1, <1>2, <1>4, <1>5, <1>6

LEMMA LedgerOfEnforced ==
  ASSUME Allocation, Allocation', Ledger, CallMeans, NEW m \in Materials, NEW t \in Periods,
         StockSLBEnforced(m, t)
  PROVE  DonePos' /\ Books'
<1>1. /\ Quiet /\ call.kind = "slb" /\ CallPart = m /\ call.per = t /\ call'.kind = "none"
      /\ mode = "none" /\ mode' # "perm" /\ m \in Parts
  <2>1. Quiet /\ call.kind = "slb" /\ CallPart = m /\ call.per = t /\ call' = NoCall
    BY EnforcedStores
  <2>2. NoCall.kind = "none"
    BY DEF NoCall
  <2>3. mode = "none" /\ mode' # "perm" /\ m \in Parts
    BY <2>1 DEF Quiet, Parts
  <2>4. QED
    BY <2>1, <2>2, <2>3
<1>2. FloorFalls /\ \A q, v : Floor(q, v)' = 0
  BY <1>1, NoFloor, FloorOfNone DEF NothingIsGot
<1>3. PICK k \in Nat : k = call.vol - netQty /\ Stored(m, t, k)
  BY EnforcedStores
<1>4. CASE base' = base
  BY <1>1, <1>2, <1>4, LedgerOfNothing
<1>5. CASE /\ t < NPeriods - 1 /\ Reaches(m, t, t + 1) /\ AvailMoves(m, t + 1, k)
           /\ SameVols(base, base')
  <2>1. PICK u \in Periods : u = t + 1
    BY <1>5, NumberOfPeriods
  <2>2. ASSUME NEW q \in Parts, NEW v \in Periods
        PROVE  Floor(q, v)' <= Floor(q, v) + IF q = m /\ Reaches(m, u, v) THEN -k ELSE 0
    <3>1. Floor(q, v)' = 0 /\ Floor(q, v) \in Nat
      BY <1>2, FloorIsNat
    <3>2. CASE q = m /\ Reaches(m, u, v)
      <4>1. Reaches(m, t, v)
        BY <1>5, <2>1, <3>2, ReachesFurther
      <4>2. Got(q, v) = k
        BY <1>1, <1>3, <3>2, <4>1 DEF Got
      <4>3. Tried(q, v) = 0
        BY <1>1 DEF Tried
      <4>4. QED
        BY <3>1, <3>2, <4>2, <4>3 DEF Floor
    <3>3. CASE ~(q = m /\ Reaches(m, u, v))
      BY <3>1, <3>3
    <3>4. QED
      BY <3>2, <3>3
  <2>3. FloorRises(m, u, -k)
    BY <2>2 DEF FloorRises
  <2>4. k \in Int
    OBVIOUS
  <2>5. QED
    BY <1>1, <1>5, <2>1, <2>3, <2>4, LedgerOfAvail
<1>6. QED
  BY <1>3, <1>4, <1>5 DEF Stored

------------------------------------------------------------------------------

Fresh == /\ base = InitMem(supplyVol) /\ pc = "idle" /\ mode = "none" /\ call = NoCall
         /\ NoShipment

LEMMA InitMemIs ==
  ASSUME NEW supply
  PROVE  /\ \A o \in Operations, u \in Periods : InitMem(supply)[ExecLoc(o, u)] = 0
         /\ \A c \in SubEntries, u \in Periods : InitMem(supply)[SubLoc(c, u)] = 0
         /\ \A p \in Parts, u \in Periods : InitMem(supply)[AvailLoc(p, u)] = supply[p][u]
<1>1. PICK mem : mem = InitMem(supply)
  OBVIOUS
<1>2. mem = [loc \in SolnLocs |->
               CASE loc[2] = "incAvailVol" -> supply[loc[3]][loc[4]]
                 [] loc[2] = "lastDecPer"  -> -1
                 [] OTHER                  -> 0]
  BY <1>1 DEF InitMem
<1>3. \A loc \in SolnLocs : loc[2] \in {"execVol", "subVol"} => mem[loc] = 0
  BY <1>2
<1>4. \A loc \in SolnLocs : loc[2] = "incAvailVol" => mem[loc] = supply[loc[3]][loc[4]]
  BY <1>2
<1>5. ASSUME NEW p \in Parts, NEW u \in Periods PROVE mem[AvailLoc(p, u)] = supply[p][u]
  <2>1. AvailLoc(p, u)[3] = p /\ AvailLoc(p, u)[4] = u
    BY DEF AvailLoc
  <2>2. QED
    BY <1>4, <2>1, SolnVars
<1>6. \A o \in Operations, u \in Periods : mem[ExecLoc(o, u)] = 0
  BY <1>3, SolnVars
<1>7. \A c \in SubEntries, u \in Periods : mem[SubLoc(c, u)] = 0
  BY <1>3, SolnVars
<1>8. QED
  BY <1>1, <1>5, <1>6, <1>7

LEMMA FreshIsDone ==
  ASSUME Fresh, NEW e \in Entries, NEW u \in Periods PROVE Done(e, u) = 0
<1>1. Unseen(e, u) = 0
  BY DEF Unseen, Fresh
<1>2. CASE e \in BopEntries
  BY <1>1, <1>2, InitMemIs, BillsAssumption DEF Done, Count, Fresh
<1>3. CASE e \notin BopEntries /\ e \in BomEntries
  <2>1. PICK f, S : f = SubVols(base, e, u) /\ S = DOMAIN Subs[e]
    OBVIOUS
  <2>2. IsFiniteSet(S) /\ \A i \in S : Subs[e][i] \in SubEntries
    BY <1>3, <2>1, SubsAre
  <2>3. \A i \in S : f[i] = 0
    BY <2>1, <2>2, InitMemIs DEF SubVols, Fresh
  <2>4. SumFunctionOnSet(f, S) = 0
    BY <2>2, <2>3, SumZero
  <2>5. base[ExecLoc(OpnOf[e], u)] = 0
    BY InitMemIs, BillsAssumption DEF Fresh
  <2>6. NonSub(base, e, u) = 0 - 0
    BY <2>1, <2>4, <2>5 DEF NonSub
  <2>7. QED
    BY <1>1, <1>3, <2>6 DEF Done, Count
<1>4. CASE e \notin BopEntries /\ e \notin BomEntries
  <2>1. e \in SubEntries
    BY <1>4 DEF Entries
  <2>2. base[SubLoc(e, u)] = 0
    BY <2>1, InitMemIs DEF Fresh
  <2>3. QED
    BY <1>1, <1>4, <2>2 DEF Done, Count
<1>5. QED
  BY <1>2, <1>3, <1>4

LEMMA FreshIsHeld ==
  ASSUME Allocation, Fresh, NEW p \in Parts, NEW t \in Periods PROVE Held(p, t) = 0
<1>1. PICK f, S : f = DoneVols /\ S = AtImpact(p, t)
  OBVIOUS
<1>2. IsFiniteSet(S) /\ S \subseteq Impacts
  BY <1>1, ImpactsAre
<1>3. ASSUME NEW x \in S PROVE f[x] = 0
  <2>1. x \in Impacts /\ x[1] \in Entries /\ x[2] \in Periods
    BY <1>2, ImpactsAre
  <2>2. Done(x[1], x[2]) = 0
    BY <2>1, FreshIsDone
  <2>3. f[x] = Volume(x[1], Done(x[1], x[2]))
    BY <1>1, <2>1 DEF DoneVols
  <2>4. Volume(x[1], 0) = 0
    BY <2>1, VolumeIs
  <2>5. QED
    BY <2>2, <2>3, <2>4
<1>4. MadeSum(p, t) = 0
  BY <1>1, <1>2, <1>3, SumZero DEF MadeSum
<1>5. PICK g, D : g = ShippedAt(t) /\ D = {d \in Demands : DemandedPart[d] = p}
  OBVIOUS
<1>6. IsFiniteSet(D)
  BY <1>5, DemandsAssumption, FS_Subset
<1>7. \A d \in D : g[d] = 0
  BY <1>5 DEF ShippedAt, Fresh, NoShipment
<1>8. ShipSum(p, t) = 0
  BY <1>5, <1>6, <1>7, SumZero DEF ShipSum
<1>9. PICK n \in Int : n = supplyVol[p][t]
  <2>1. supplyVol[p][t] \in Nat
    BY HeldIsInt
  <2>2. QED
    BY <2>1
<1>10. base[AvailLoc(p, t)] = n
  BY <1>9, InitMemIs DEF Fresh
<1>11. Pend(p, t) = 0 /\ InFrame(p, t) = 0
  BY DEF Pend, InFrame, Booking, Fresh
<1>12. Held(p, t) = n + (0 + 0 - n) + 0 - 0
  BY <1>4, <1>8, <1>9, <1>10, <1>11 DEF Held, Owed
<1>13. QED
  BY <1>12

FreshLedger == Allocation /\ Fresh => DonePos /\ Books

LEMMA LedgerOfFresh == FreshLedger
<1> SUFFICES ASSUME Allocation, Fresh PROVE DonePos /\ Books
  BY DEF FreshLedger
<1>1. DonePos
  BY FreshIsDone DEF DonePos
<1>2. ASSUME NEW p \in Parts PROVE HasLeft(p)
  <2>1. PICK m, left : m = HeldMem /\ left = [t \in Periods |-> 0]
    OBVIOUS
  <2>2. \A t \in Periods : m[AvailLoc(p, t)] = 0
    BY <2>1, HeldMemIs, FreshIsHeld
  <2>3. \A t \in Periods : Carried(p, left, t) = 0
    BY <2>1, NumberOfPeriods DEF Carried
  <2>4. IsLeft(m, p, left)
    BY <2>1, <2>2, <2>3 DEF IsLeft
  <2>5. \A t : Floor(p, t) = 0
    BY DEF Floor, Got, Tried, Fresh, NoCall
  <2>6. \A t \in Periods : left[t] >= Floor(p, t)
    BY <2>1, <2>5
  <2>7. QED
    BY <2>1, <2>4, <2>6 DEF HasLeft
<1>3. QED
  BY <1>1, <1>2 DEF Books

LEMMA LedgerOfFreshNext == FreshLedger'
  BY LedgerOfFresh, PTL

LEMMA LedgerOfOthers ==
  ASSUME Allocation, Allocation', Ledger, CallMeans, StockSLBStep \/ Call
  PROVE  DonePos' /\ Books'
<1>1. mode = "none" <=> pc \notin CommitPoints
  BY DEF Allocation, Reqs
<1>2. CallType
  BY DEF Allocation, Locals
<1> USE DEF CommitPoints
<1>3. ASSUME NEW m \in Materials, NEW t \in Periods, EnforceStockSLB(m, t)
      PROVE  DonePos' /\ Books'
  BY <1>3, LedgerOfEnforce
<1>4. ASSUME NEW m \in Materials, NEW t \in Periods, StockSLBEnforced(m, t)
      PROVE  DonePos' /\ Books'
  BY <1>4, LedgerOfEnforced
<1>5. CASE StockSLBsEnforced \/ FinishHeurAlloc
  <2>1. /\ pc \in {"slb", "idle"} /\ UNCHANGED <<supplyVol, shipVol, base, mode, call, netQty>>
    BY <1>5 DEF StockSLBsEnforced, FinishHeurAlloc, inputs, results, callVars
  <2>2. mode = "none" /\ call = NoCall
    BY <1>1, <1>2, <2>1 DEF CallType
  <2>3. Quiet
    BY <2>1, <2>2 DEF Quiet
  <2>4. FloorFalls
    BY <2>1, <2>2, FloorOfNone DEF NothingIsGot, NoCall
  <2>5. QED
    BY <2>1, <2>3, <2>4, LedgerOfNothing
<1>6. ASSUME NEW d \in Demands, NEW t \in Periods, NEW v \in 1..MaxDesIncVol,
             IncHeurAlloc(d, t, v)
      PROVE  DonePos' /\ Books'
  <2>1. /\ pc = "idle" /\ UNCHANGED <<supplyVol, shipVol, base, mode>>
    BY <1>6 DEF IncHeurAlloc, inputs, results
  <2>2. PICK vol : vol = Min({v, DemandedIncVolUB(d, t)})
    OBVIOUS
  <2>3. PICK todo : todo = PeriodsToTry(d, t)
    OBVIOUS
  <2>4. /\ netQty' = vol
        /\ call' = [kind |-> "inc", demand |-> d, per |-> t, vol |-> vol, todo |-> todo]
    BY <1>6, <2>2, <2>3 DEF IncHeurAlloc
  <2>5. NothingIsGot' /\ mode = "none"
    BY <1>1, <2>1, <2>4 DEF NothingIsGot
  <2>6. Quiet
    BY <2>1, <2>5 DEF Quiet
  <2>7. FloorFalls
    BY <2>1, <2>5, FloorOfNone
  <2>8. QED
    BY <2>1, <2>6, <2>7, LedgerOfNothing
<1>7. CASE StartHeurAlloc
  <2>1. /\ pc = "done" /\ pc' = "idle" /\ base' = InitMem(supplyVol) /\ supplyVol' = supplyVol
        /\ NoShipment' /\ mode' = mode /\ call' = call
    BY <1>7 DEF StartHeurAlloc, NoShipment, inputs, callVars
  <2>2. mode = "none" /\ call = NoCall
    BY <1>1, <1>2, <2>1 DEF CallType
  <2>3. Fresh'
    BY <2>1, <2>2 DEF Fresh, InitMem
  <2>4. QED
    BY <2>3, LedgerOfFreshNext DEF FreshLedger
<1>8. QED
  BY <1>3, <1>4, <1>5, <1>6, <1>7 DEF StockSLBStep, Call

LEMMA LedgerInit == Init => Ledger
<1> SUFFICES ASSUME Init PROVE Ledger
  OBVIOUS
<1>1. Allocation
  BY AllocationInit
<1>2. Fresh
  BY DEF Fresh, Init, NoShipment
<1>3. CursorStarts
  BY DEF CursorStarts, Init
<1>4. QED
  BY <1>1, <1>2, <1>3, LedgerOfFresh DEF FreshLedger, Ledger

(***************************************************************************)
(* 9. The invariant, and what follows from it at rest: the first theorems. *)
(***************************************************************************)

LEMMA BooksOfStutter ==
  ASSUME Allocation, UNCHANGED vars PROVE DoneStays /\ HeldStays
<1>1. /\ UNCHANGED <<supplyVol, shipVol, base, call, netQty, slbs, top, search, mode>>
      /\ UNCHANGED <<pc, frame, req, cursor, ok>>
  BY DEF vars, inputs, results, callVars, commVars
<1>2. UnseenStays
  BY <1>1 DEF UnseenStays, Unseen
<1>3. DoneStays
  BY <1>1, <1>2, NothingWritten, DoneOfNothing
<1>4. TopList' = TopList
  BY <1>1 DEF TopList
<1>5. \A p, t : Ahead(p, t)' = Ahead(p, t)
  BY <1>1, <1>4 DEF Ahead, Passed
<1>6. TakesSame
  BY <1>1, <1>5 DEF TakesSame, Pend, InFrame, Booking
<1>7. QED
  BY <1>1, <1>3, <1>6, NothingWritten, OwedOfNothing, HeldOfNothing

LEMMA LedgerStays ==
  ASSUME Allocation, Allocation', Ledger, UNCHANGED vars PROVE DonePos' /\ Books'
<1>1. UNCHANGED <<call, netQty, slbs, top, search, mode, pc, ok>>
  BY DEF vars, results, callVars, commVars
<1>2. DoneStays /\ HeldStays
  BY BooksOfStutter
<1>3. FloorFalls
  BY <1>1, FloorOfSame
<1>4. InOrder' => InOrder
  BY <1>1 DEF InOrder
<1>5. QED
  BY <1>2, <1>3, <1>4, StaysGrow, DoneStaysPos, BooksStay DEF Ledger

\* The strengthening of the books that is inductive.
Bookkeeping ==
  Control /\ Allocation /\ ReqsWithin /\ CallMeans /\ ShipsDemand /\ Ledger

LEMMA BookkeepingInit == Init => Bookkeeping
<1> SUFFICES ASSUME Init PROVE Bookkeeping
  OBVIOUS
<1>1. ReqsWithin
  BY DEF Init, ReqsWithin, Exploding, Executing
<1>2. QED
  BY <1>1, ControlInit, AllocationInit, CallMeansInit, ShipsInit, LedgerInit DEF Bookkeeping

LEMMA BookkeepingNext == Bookkeeping /\ [Next]_vars => Bookkeeping'
<1> SUFFICES ASSUME Bookkeeping, [Next]_vars PROVE Bookkeeping'
  OBVIOUS
<1>0. Control /\ Allocation /\ ReqsWithin /\ CallMeans /\ ShipsDemand /\ Ledger
  BY DEF Bookkeeping
<1>1. Control' /\ Allocation' /\ ReqsWithin' /\ CallMeans'
  BY <1>0, ControlNext, AllocationNext, ReqsNext, CallMeansNext
<1>2. ShipsDemand'
  BY <1>0, <1>1, ShipsNext
<1>3. CursorStarts'
  BY <1>0, CursorNext DEF Ledger
<1>4. DonePos' /\ Books'
  <2>1. CASE UNCHANGED vars
    BY <1>0, <1>1, <2>1, LedgerStays
  <2>2. CASE FillStep \/ ExplodeStep \/ UndoStep
    BY <1>0, <1>1, <2>2, LedgerOfCommit
  <2>3. CASE MaxQtyStep
    BY <1>0, <1>1, <2>3, LedgerOfMaxQty
  <2>4. CASE StockSLBStep \/ Call
    BY <1>0, <1>1, <2>4, LedgerOfOthers
  <2>5. QED
    BY <2>1, <2>2, <2>3, <2>4 DEF Next, Run
<1>5. QED
  BY <1>1, <1>2, <1>3, <1>4 DEF Bookkeeping, Ledger

THEOREM BooksAreKept == Spec => []Bookkeeping
  BY BookkeepingInit, BookkeepingNext, PTL DEF Spec

------------------------------------------------------------------------------

LEMMA RestingBase ==
  ASSUME Allocation, AtRest PROVE soln.mem = base /\ \A e, u : Unseen(e, u) = 0
  BY DEF AtRest, Allocation, Rollback, Unseen

LEMMA NonSubVolIs ==
  ASSUME Allocation, AtRest, NEW b \in BomEntries, NEW u \in Periods
  PROVE  NonSubVol(b, u) = Done(b, u)
<1>1. soln.mem = base /\ Unseen(b, u) = 0
  BY RestingBase
<1>2. b \notin BopEntries /\ b \in Entries
  BY EntriesAre, BillsAssumption DEF Entries
<1>3. Done(b, u) = NonSub(base, b, u) - 0
  BY <1>1, <1>2 DEF Done, Count
<1>4. NonSub(base, b, u) \in Int
  BY <1>1, <1>2, HeldIsInt DEF Count
<1>5. NonSubVol(b, u) = NonSub(base, b, u)
  <2>1. [i \in DOMAIN Subs[b] |-> SubVol(soln, Subs[b][i], u)] = SubVols(base, b, u)
    BY <1>1 DEF SubVol, SubVols
  <2>2. ExecVol(soln, OpnOf[b], u) = base[ExecLoc(OpnOf[b], u)]
    BY <1>1 DEF ExecVol
  <2>3. QED
    BY <2>1, <2>2, TotalOfIs DEF NonSubVol, NonSub
<1>6. QED
  BY <1>3, <1>4, <1>5

LEMMA EntryVolIs ==
  ASSUME Allocation, AtRest, NEW e \in Entries, NEW u \in Periods
  PROVE  EntryVol(e, u) = Volume(e, Done(e, u))
<1>1. soln.mem = base /\ Unseen(e, u) = 0
  BY RestingBase
<1>2. Count(base, e, u) \in Int
  BY HeldIsInt
<1>3. Done(e, u) = Count(base, e, u)
  <2>1. Done(e, u) = Count(base, e, u) - 0
    BY <1>1 DEF Done
  <2>2. QED
    BY <1>2, <2>1
<1>4. CASE e \in BopEntries
  <2>1. e \notin BomEntries /\ e \notin SubEntries
    BY <1>4, EntriesAre
  <2>2. EntryVol(e, u) = Rate[e] * ExecVol(soln, OpnOf[e], u)
    BY <1>4, <2>1 DEF EntryVol
  <2>3. ExecVol(soln, OpnOf[e], u) = Done(e, u)
    BY <1>1, <1>3, <1>4 DEF ExecVol, Count
  <2>4. QED
    BY <1>4, <2>2, <2>3 DEF Volume
<1>5. CASE e \in BomEntries
  <2>1. e \notin BopEntries /\ e \notin SubEntries
    BY <1>5, EntriesAre
  <2>2. EntryVol(e, u) = -(Rate[e] * NonSubVol(e, u))
    BY <1>5, <2>1 DEF EntryVol
  <2>3. NonSubVol(e, u) = Done(e, u)
    BY <1>5, NonSubVolIs
  <2>4. QED
    BY <2>1, <2>2, <2>3 DEF Volume
<1>6. CASE e \in SubEntries
  <2>1. e \notin BopEntries /\ e \notin BomEntries
    BY <1>6, EntriesAre
  <2>2. EntryVol(e, u) = -(Rate[e] * SubVol(soln, e, u))
    BY <1>6, <2>1 DEF EntryVol
  <2>3. SubVol(soln, e, u) = Done(e, u)
    BY <1>1, <1>3, <2>1 DEF SubVol, Count
  <2>4. QED
    BY <2>1, <2>2, <2>3 DEF Volume
<1>7. QED
  BY <1>4, <1>5, <1>6 DEF Entries

\* At rest, what is held is what the solution leaves and the schedule does not
\* offer.
LEMMA HeldAtRest ==
  ASSUME Allocation, AtRest, NEW p \in Parts, NEW t \in Periods
  PROVE  /\ LeftBySoln[p][t] - IncAvailVol(soln, p, t) = Held(p, t)
         /\ LeftBySoln[p][t] = IncAvailVol(soln, p, t) + Held(p, t)
         /\ LeftBySoln[p][t] \in Int /\ IncAvailVol(soln, p, t) \in Int
<1>1. soln.mem = base
  BY RestingBase
<1>2. [x \in Impacts |-> EntryVol(x[1], x[2])] = DoneVols
  <2>1. \A x \in Impacts : EntryVol(x[1], x[2]) = Volume(x[1], Done(x[1], x[2]))
    BY ImpactsAre, EntryVolIs
  <2>2. QED
    BY <2>1 DEF DoneVols
<1>3. TotalOf([x \in Impacts |-> EntryVol(x[1], x[2])],
              {x \in Impacts : PartOf[x[1]] = p /\ Impact[x[1]][x[2]] = t}) = MadeSum(p, t)
  BY <1>2, TotalOfIs DEF MadeSum, AtImpact
<1>4. TotalOf([d \in Demands |-> shipVol[d][t]], {d \in Demands : DemandedPart[d] = p})
        = ShipSum(p, t)
  BY TotalOfIs DEF ShipSum, ShippedAt
<1>5. LeftBySoln[p][t] = supplyVol[p][t] + MadeSum(p, t) - ShipSum(p, t)
  BY <1>3, <1>4 DEF LeftBySoln
<1>6. IncAvailVol(soln, p, t) = base[AvailLoc(p, t)]
  BY <1>1 DEF IncAvailVol
<1>7. Pend(p, t) = 0 /\ InFrame(p, t) = 0
  BY DEF Pend, InFrame, Booking, AtRest
<1>8. PICK x, y, z, w \in Int : x = base[AvailLoc(p, t)] /\ y = MadeSum(p, t)
                                /\ z = ShipSum(p, t) /\ w = supplyVol[p][t]
  <2>1. /\ base[AvailLoc(p, t)] \in Int /\ MadeSum(p, t) \in Int /\ ShipSum(p, t) \in Int
        /\ supplyVol[p][t] \in Nat
    BY HeldIsInt
  <2>2. supplyVol[p][t] \in Int
    BY <2>1
  <2>3. QED
    BY <2>1, <2>2
<1>9. Held(p, t) = w + (0 + 0 - x) + y - z
  BY <1>7, <1>8 DEF Held, Owed
<1>10. LeftBySoln[p][t] = w + y - z /\ IncAvailVol(soln, p, t) = x
  BY <1>5, <1>6, <1>8
<1>11. QED
  BY <1>8, <1>9, <1>10

------------------------------------------------------------------------------

LEMMA IdleIsAtRest ==
  ASSUME Bookkeeping, Idle
  PROVE  Allocation /\ AtRest /\ \A p \in Parts : Covered(HeldMem, p)
<1>1. Allocation /\ CallType /\ Books
  BY DEF Bookkeeping, Ledger, Allocation, Locals
<1>2. mode = "none"
  <2>1. mode = "none" <=> pc \notin CommitPoints
    BY <1>1 DEF Allocation, Reqs
  <2>2. QED
    BY <2>1 DEF Idle, CommitPoints
<1>3. call.kind = "none"
  BY <1>1 DEF CallType, Idle, NoCall
<1>4. \A p, t : Floor(p, t) = 0
  BY <1>2, <1>3 DEF Floor, Got, Tried
<1>5. ASSUME NEW p \in Parts PROVE Covered(HeldMem, p)
  <2>1. HasLeft(p)
    BY <1>1, <1>2 DEF Books, InOrder, Idle
  <2>2. QED
    BY <1>4, <2>1 DEF HasLeft, Covered, Nonneg
<1>6. QED
  BY <1>1, <1>2, <1>5 DEF AtRest

\* What there is up to a period in all.
UpTo(f, t) == IF t = 0 THEN 0 ELSE SumFunctionOnSet(f, 0..(t - 1))

LEMMA SumUpTo ==
  ASSUME NEW f, \A u \in Periods : f[u] \in Int, NEW t \in Periods
  PROVE  /\ UpTo(f, t) \in Int /\ SumFunctionOnSet(f, 0..t) \in Int
         /\ SumFunctionOnSet(f, 0..t) = f[t] + UpTo(f, t)
<1>1. t \in Nat /\ 0..t \subseteq Periods
  BY NumberOfPeriods
<1>2. ASSUME NEW n \in Int, 0..n \subseteq Periods
      PROVE  SumFunctionOnSet(f, 0..n) \in Int /\ SumFact(f, 0..n)
  <2>1. IsFiniteSet(0..n)
    BY <1>2, FS_Interval
  <2>2. \A x \in 0..n : f[x] \in Int
    BY <1>2
  <2>3. QED
    BY <2>1, <2>2, SumFacts DEF SumFact
<1>3. t \in Int /\ t - 1 \in Int /\ 0..(t - 1) \subseteq Periods /\ t \in 0..t
      /\ (0..t) \ {t} = 0..(t - 1)
  BY <1>1
<1>4. /\ SumFunctionOnSet(f, 0..t) = f[t] + SumFunctionOnSet(f, 0..(t - 1))
      /\ SumFunctionOnSet(f, 0..t) \in Int /\ SumFunctionOnSet(f, 0..(t - 1)) \in Int
  <2>1. SumFact(f, 0..t) /\ SumFunctionOnSet(f, 0..t) \in Int
    BY <1>1, <1>2, <1>3
  <2>2. SumFunctionOnSet(f, 0..(t - 1)) \in Int
    BY <1>2, <1>3
  <2>3. QED
    BY <1>3, <2>1, <2>2 DEF SumFact
<1>5. UpTo(f, t) = SumFunctionOnSet(f, 0..(t - 1))
  <2>1. CASE t = 0
    <3>1. 0..(t - 1) = {}
      BY <2>1
    <3>2. QED
      BY <2>1, <3>1, SumEmpty DEF UpTo
  <2>2. CASE t # 0
    BY <2>2 DEF UpTo
  <2>3. QED
    BY <2>1, <2>2
<1>6. QED
  BY <1>4, <1>5

\* What may be carried over is at most what there is in all.
LEMMA SumCovers ==
  ASSUME NEW mem, NEW p, Covered(mem, p), NEW f,
         \A t \in Periods : f[t] = mem[AvailLoc(p, t)] /\ f[t] \in Int
  PROVE  \A t \in Periods : SumFunctionOnSet(f, 0..t) >= 0
<1>1. PICK left : IsLeft(mem, p, left) /\ Nonneg(left)
  BY DEF Covered
<1>2. \A t \in Periods : left[t] \in Int /\ left[t] >= 0
  BY <1>1 DEF IsLeft, Nonneg
<1> DEFINE bad == {t \in Periods : ~(SumFunctionOnSet(f, 0..t) >= left[t])}
<1>3. bad = {}
  <2> SUFFICES ASSUME bad # {} PROVE FALSE
    OBVIOUS
  <2>1. bad \in SUBSET Nat
    BY NumberOfPeriods
  <2>2. PICK t \in bad : \A u \in bad : t <= u
    BY <2>1, NatMin
  <2>3. t \in Periods /\ t \in Nat
    BY <2>1, <2>2
  <2>4. left[t] = Carried(p, left, t) + f[t]
    BY <1>1, <2>3 DEF IsLeft
  <2>5. SumFunctionOnSet(f, 0..t) = f[t] + UpTo(f, t) /\ f[t] \in Int /\ UpTo(f, t) \in Int
    BY <2>3, SumUpTo
  <2>6. UpTo(f, t) >= Carried(p, left, t) /\ Carried(p, left, t) \in Int
    <3>1. CASE t = 0
      BY <3>1 DEF Carried, UpTo
    <3>2. CASE t > 0
      <4>1. t - 1 \in Periods /\ ~(t <= t - 1)
        BY <2>3, <3>2, NumberOfPeriods
      <4>2. t - 1 \notin bad
        BY <2>2, <4>1
      <4>3. UpTo(f, t) >= left[t - 1] /\ left[t - 1] \in Int /\ left[t - 1] >= 0
        BY <1>2, <3>2, <4>1, <4>2 DEF UpTo
      <4>4. QED
        BY <2>5, <3>2, <4>3 DEF Carried
    <3>3. QED
      BY <2>3, <3>1, <3>2
  <2>7. SumFunctionOnSet(f, 0..t) >= left[t]
    BY <2>4, <2>5, <2>6
  <2>8. QED
    BY <2>2, <2>7
<1>4. ASSUME NEW t \in Periods PROVE SumFunctionOnSet(f, 0..t) >= 0
  <2>1. SumFunctionOnSet(f, 0..t) >= left[t] /\ SumFunctionOnSet(f, 0..t) \in Int
    BY <1>3, SumUpTo
  <2>2. QED
    BY <1>2, <2>1
<1>5. QED
  BY <1>4

LEMMA CoveredSchedule ==
  ASSUME Bookkeeping, Idle, NEW p \in Parts, NEW t \in Periods PROVE Withheld[p][t] >= 0
<1>1. Allocation /\ AtRest /\ Covered(HeldMem, p)
  BY IdleIsAtRest
<1>2. PICK f : f = [u \in Periods |-> LeftBySoln[p][u] - IncAvailVol(soln, p, u)]
  OBVIOUS
<1>3. ASSUME NEW u \in Periods PROVE f[u] = HeldMem[AvailLoc(p, u)] /\ f[u] \in Int
  <2>1. f[u] = Held(p, u)
    BY <1>1, <1>2, HeldAtRest
  <2>2. Held(p, u) \in Int
    BY <1>1, HeldIsInt
  <2>3. QED
    BY <2>1, <2>2, HeldMemIs
<1>4. SumFunctionOnSet(f, 0..t) >= 0
  BY <1>1, <1>3, SumCovers
<1>5. Withheld[p][t] = TotalOf(f, 0..t)
  BY <1>2 DEF Withheld
<1>6. QED
  BY <1>4, <1>5, TotalOfIs

LEMMA SubsWithinExecs ==
  ASSUME Bookkeeping, AtRest, NEW b \in BomEntries, NEW u \in Periods PROVE NonSubVol(b, u) >= 0
<1>1. NonSubVol(b, u) = Done(b, u)
  BY NonSubVolIs DEF Bookkeeping
<1>2. Done(b, u) >= 0
  BY DEF Bookkeeping, Ledger, DonePos, Entries
<1>3. QED
  BY <1>1, <1>2

\* The schedule, the substitutions and the shipments that the permanent
\* commits of any series of calls have made, each with its own write, agree
\* with the executions, the supply and the demand: see SolutionAddsUp.
THEOREM SolutionKeepsAddingUp == Spec => []SolutionAddsUp
<1>1. Bookkeeping => SolutionAddsUp
  <2> SUFFICES ASSUME Bookkeeping PROVE SolutionAddsUp
    OBVIOUS
  <2>1. ScheduleIsCovered
    BY CoveredSchedule DEF ScheduleIsCovered
  <2>2. SubVolWithinExecVol
    BY SubsWithinExecs DEF SubVolWithinExecVol
  <2>3. ShipWithinDemand
    BY DEF Bookkeeping, ShipsDemand
  <2>4. QED
    BY <2>1, <2>2, <2>3 DEF SolutionAddsUp
<1>2. QED
  BY <1>1, BooksAreKept, PTL

------------------------------------------------------------------------------

\* What is left of two schedules together is what is left of each.
LEMMA CoveredTogether ==
  ASSUME NEW mem1, NEW mem2, NEW mem, NEW p, Covered(mem1, p), Covered(mem2, p),
         \A t \in Periods :
            /\ mem1[AvailLoc(p, t)] \in Int /\ mem2[AvailLoc(p, t)] \in Int
            /\ mem[AvailLoc(p, t)] = mem1[AvailLoc(p, t)] + mem2[AvailLoc(p, t)]
  PROVE  Covered(mem, p)
<1>1. PICK left1, left2 : /\ IsLeft(mem1, p, left1) /\ Nonneg(left1)
                          /\ IsLeft(mem2, p, left2) /\ Nonneg(left2)
  BY DEF Covered
<1>2. PICK left : left = [t \in Periods |-> left1[t] + left2[t]]
  OBVIOUS
<1>3. \A t \in Periods : /\ left1[t] \in Int /\ left1[t] >= 0
                         /\ left2[t] \in Int /\ left2[t] >= 0
  BY <1>1 DEF IsLeft, Nonneg
<1>4. left \in [Periods -> Int] /\ Nonneg(left)
  BY <1>2, <1>3 DEF Nonneg
<1>5. ASSUME NEW t \in Periods
      PROVE  left[t] = Carried(p, left, t) + mem[AvailLoc(p, t)]
  <2>1. /\ left1[t] = Carried(p, left1, t) + mem1[AvailLoc(p, t)]
        /\ left2[t] = Carried(p, left2, t) + mem2[AvailLoc(p, t)]
    BY <1>1 DEF IsLeft
  <2>2. /\ Carried(p, left, t) = Carried(p, left1, t) + Carried(p, left2, t)
        /\ Carried(p, left1, t) \in Int /\ Carried(p, left2, t) \in Int
    <3>1. CASE t > 0 /\ CanStock(p, t - 1)
      <4>1. t - 1 \in Periods
        BY <3>1, NumberOfPeriods
      <4>2. QED
        BY <1>2, <1>3, <3>1, <4>1 DEF Carried
    <3>2. CASE ~(t > 0 /\ CanStock(p, t - 1))
      BY <3>2 DEF Carried
    <3>3. QED
      BY <3>1, <3>2
  <2>3. left[t] = left1[t] + left2[t]
    BY <1>2
  <2>4. PICK a, b, c, d \in Int :
          /\ a = Carried(p, left1, t) /\ b = mem1[AvailLoc(p, t)]
          /\ c = Carried(p, left2, t) /\ d = mem2[AvailLoc(p, t)]
    BY <2>2
  <2>5. left[t] = (a + b) + (c + d)
    BY <2>1, <2>3, <2>4
  <2>6. Carried(p, left, t) = a + c /\ mem[AvailLoc(p, t)] = b + d
    BY <2>2, <2>4
  <2>7. QED
    BY <2>5, <2>6
<1>6. IsLeft(mem, p, left)
  BY <1>4, <1>5 DEF IsLeft
<1>7. QED
  BY <1>4, <1>6 DEF Covered

LEMMA SolutionLeaves == ASSUME Bookkeeping, Idle PROVE NNScrap(LeftBySoln)
<1>1. Allocation /\ AtRest
  BY IdleIsAtRest
<1>2. PICK avail, mem : /\ avail = LeftBySoln
                        /\ mem = [loc \in HeldLocs |-> avail[loc[3]][loc[4]]]
  OBVIOUS
<1>3. ASSUME NEW p \in Parts, NEW t \in Periods PROVE mem[AvailLoc(p, t)] = avail[p][t]
  <2>1. PICK loc : loc = AvailLoc(p, t)
    OBVIOUS
  <2>2. loc \in HeldLocs /\ loc[3] = p /\ loc[4] = t
    BY <2>1 DEF HeldLocs, AvailLoc
  <2>3. QED
    BY <1>2, <2>1, <2>2
<1>4. avail = [p \in Parts |-> [t \in Periods |-> mem[AvailLoc(p, t)]]]
  <2>1. avail = [p \in Parts |-> [t \in Periods |-> avail[p][t]]]
    BY <1>2 DEF LeftBySoln
  <2>2. QED
    BY <1>3, <2>1
<1>5. ASSUME NEW p \in Parts PROVE Covered(mem, p)
  <2>1. Covered(soln.mem, p) /\ Covered(HeldMem, p)
    <3>1. soln.mem = base /\ Feasible(base)
      BY <1>1, RestingBase DEF Allocation, Sched
    <3>2. QED
      BY <3>1, IdleIsAtRest DEF Feasible
  <2>2. PICK m1, m2 : m1 = soln.mem /\ m2 = HeldMem
    OBVIOUS
  <2>3. ASSUME NEW t \in Periods
        PROVE  /\ m1[AvailLoc(p, t)] \in Int /\ m2[AvailLoc(p, t)] \in Int
               /\ mem[AvailLoc(p, t)] = m1[AvailLoc(p, t)] + m2[AvailLoc(p, t)]
    <3>1. /\ LeftBySoln[p][t] = IncAvailVol(soln, p, t) + Held(p, t)
          /\ IncAvailVol(soln, p, t) \in Int /\ Held(p, t) \in Int
      BY <1>1, HeldAtRest, HeldIsInt
    <3>2. m1[AvailLoc(p, t)] = IncAvailVol(soln, p, t)
      BY <2>2 DEF IncAvailVol
    <3>3. m2[AvailLoc(p, t)] = Held(p, t)
      BY <2>2, HeldMemIs
    <3>4. QED
      BY <1>2, <1>3, <3>1, <3>2, <3>3
  <2>4. QED
    BY <2>1, <2>2, <2>3, CoveredTogether
<1>6. Feasible(mem)
  BY <1>5 DEF Feasible
<1>7. NNScrap(avail)
  BY <1>4, <1>6, FeasibleIsNNScrap
<1>8. QED
  BY <1>2, <1>7

\* verifyUhsNNScrapCon, of the schedule and of the solution itself: what the
\* permanent commits of any series of calls execute, substitute and ship can
\* be met from supply and production, with stock carried over only where that
\* is allowed, and the schedule offers no more than is left.
THEOREM PromisesStayFeasible == Spec => []PromisesAreFeasible
<1>1. Bookkeeping => SolutionIsFeasible
  BY SolutionLeaves DEF SolutionIsFeasible
<1>2. QED
  BY <1>1, BooksAreKept, ScheduleStaysFeasible, PTL DEF PromisesAreFeasible

(***************************************************************************)
(* 10. The balance.  Where no demand may be built ahead, a call is made    *)
(* for in its own period, and the books balance period by period: but for  *)
(* what is asked for the call in progress, all that is held is in stock,   *)
(* and of a part no more is in stock at the end of a period than the stock *)
(* bound that has been enforced there.                                     *)
(***************************************************************************)

NoCommon(s, t) == \A a \in DOMAIN s, b \in DOMAIN t : s[a] # t[b]

FromBoth(both, s, t) ==
  \A c \in DOMAIN both :
    (\E a \in DOMAIN s : both[c] = s[a]) \/ (\E b \in DOMAIN t : both[c] = t[b])

\* Two sequences without repetitions and without a common element.
LEMMA ConcatDistinct ==
  ASSUME NEW S, NEW s \in Seq(S), NEW t \in Seq(S), IsInjective(s), IsInjective(t),
         NoCommon(s, t), NEW both, both = s \o t
  PROVE  IsInjective(both) /\ FromBoth(both, s, t)
<1>1. PICK m, n \in Nat : m = Len(s) /\ n = Len(t)
  OBVIOUS
<1>2. \A a \in DOMAIN s, b \in DOMAIN t : s[a] # t[b]
  BY DEF NoCommon
<1>3. DOMAIN s = 1..m /\ DOMAIN t = 1..n
  BY <1>1
<1>4. DOMAIN both = 1..(m + n) /\ \A c \in 1..(m + n) :
        both[c] = IF c <= m THEN s[c] ELSE t[c - m]
  BY <1>1
<1>5. ASSUME NEW c \in 1..(m + n)
      PROVE  /\ c <= m => c \in DOMAIN s /\ both[c] = s[c]
             /\ c > m => c - m \in DOMAIN t /\ both[c] = t[c - m]
  BY <1>3, <1>4
<1>6. ASSUME NEW c \in 1..(m + n), NEW d \in 1..(m + n), both[c] = both[d] PROVE c = d
  <2>1. CASE c <= m /\ d <= m
    BY <1>5, <1>6, <2>1 DEF IsInjective
  <2>2. CASE c > m /\ d > m
    <3>1. c - m \in DOMAIN t /\ d - m \in DOMAIN t /\ t[c - m] = t[d - m]
      BY <1>5, <1>6, <2>2
    <3>2. c - m = d - m
      BY <3>1 DEF IsInjective
    <3>3. QED
      BY <3>2
  <2>3. CASE c <= m /\ d > m
    <3>1. c \in DOMAIN s /\ d - m \in DOMAIN t /\ s[c] = t[d - m]
      BY <1>5, <1>6, <2>3
    <3>2. QED
      BY <1>2, <3>1
  <2>4. CASE c > m /\ d <= m
    <3>1. d \in DOMAIN s /\ c - m \in DOMAIN t /\ s[d] = t[c - m]
      BY <1>5, <1>6, <2>4
    <3>2. QED
      BY <1>2, <3>1
  <2>5. QED
    BY <2>1, <2>2, <2>3, <2>4
<1>7. IsInjective(both)
  BY <1>4, <1>6 DEF IsInjective
<1>8. ASSUME NEW c \in 1..(m + n)
      PROVE  (\E a \in DOMAIN s : both[c] = s[a]) \/ (\E b \in DOMAIN t : both[c] = t[b])
  <2>1. c <= m \/ c > m
    OBVIOUS
  <2>2. QED
    BY <1>5, <2>1
<1>9. QED
  BY <1>4, <1>7, <1>8 DEF FromBoth

\* The pieces of a sequence are distinct and have no common element.
Apart(seqs) ==
  \A i, j \in DOMAIN seqs : i # j =>
     \A a \in DOMAIN seqs[i], b \in DOMAIN seqs[j] : seqs[i][a] # seqs[j][b]

LEMMA FlattenDistinct ==
  ASSUME NEW S, NEW seqs \in Seq(Seq(S)), \A i \in DOMAIN seqs : IsInjective(seqs[i]),
         Apart(seqs)
  PROVE  IsInjective(FlattenSeq(seqs))
<1>1. PICK N \in Nat : N = Len(seqs)
  OBVIOUS
<1>2. DOMAIN seqs = 1..N
  BY <1>1
<1>3. CASE N = 0
  <2>1. seqs = <<>>
    BY <1>1, <1>3, EmptySeq
  <2>2. FlattenSeq(seqs) = seqs
    BY <1>1, <1>3 DEF FlattenSeq
  <2>3. QED
    BY <2>1, <2>2 DEF IsInjective
<1>4. CASE N # 0
  <2>1. Len(seqs) = N /\ N \in Nat \ {0} /\ N \in 1..N
    BY <1>1, <1>4
  <2>2. PICK f : FlatParts(S, seqs, f)
    BY <2>1, FlattenIs
  <2>3. /\ f[N] = FlattenSeq(seqs) /\ f[1] = seqs[1]
        /\ \A i \in 1..N : f[i] \in Seq(S) /\ seqs[i] \in Seq(S)
        /\ \A i \in 2..N : f[i] = f[i - 1] \o seqs[i]
    BY <2>1, <2>2 DEF FlatParts
  <2> DEFINE good(i) ==
        /\ IsInjective(f[i])
        /\ \A a \in DOMAIN f[i] : \E j \in 1..i : \E b \in DOMAIN seqs[j] : f[i][a] = seqs[j][b]
      bad == {i \in 1..N : ~good(i)}
  <2>4. bad = {}
    <3> SUFFICES ASSUME bad # {} PROVE FALSE
      OBVIOUS
    <3>1. bad \in SUBSET Nat
      OBVIOUS
    <3>2. PICK i \in bad : \A j \in bad : i <= j
      BY <3>1, NatMin
    <3>3. i \in 1..N /\ ~good(i)
      BY <3>2
    <3>4. i # 1
      <4>1. good(1)
        <5>1. 1 \in 1..N
          BY <2>1
        <5>2. IsInjective(seqs[1])
          BY <1>2, <5>1
        <5>3. IsInjective(f[1])
          BY <2>3, <5>2
        <5>4. 1 \in 1..1 /\ \A a \in DOMAIN f[1] : a \in DOMAIN seqs[1] /\ f[1][a] = seqs[1][a]
          BY <2>3
        <5>5. QED
          BY <5>3, <5>4
      <4>2. QED
        BY <3>3, <4>1
    <3>5. i \in 2..N /\ i - 1 \in 1..N /\ ~(i <= i - 1)
      BY <3>3, <3>4
    <3>6. good(i - 1)
      BY <3>2, <3>5
    <3>7. f[i - 1] \in Seq(S) /\ seqs[i] \in Seq(S) /\ f[i] = f[i - 1] \o seqs[i]
          /\ IsInjective(f[i - 1]) /\ IsInjective(seqs[i])
      BY <1>2, <2>3, <3>3, <3>5, <3>6
    <3>8. ASSUME NEW a \in DOMAIN f[i - 1], NEW c \in DOMAIN seqs[i]
          PROVE  f[i - 1][a] # seqs[i][c]
      <4>1. PICK j \in 1..(i - 1) : \E b \in DOMAIN seqs[j] : f[i - 1][a] = seqs[j][b]
        BY <3>6
      <4>2. j \in DOMAIN seqs /\ i \in DOMAIN seqs /\ j # i
        BY <1>2, <3>3
      <4>3. QED
        BY <4>1, <4>2 DEF Apart
    <3>9. PICK g, s : g = f[i - 1] /\ s = seqs[i]
      OBVIOUS
    <3>10. IsInjective(f[i]) /\ FromBoth(f[i], g, s)
      <4>1. g \in Seq(S) /\ s \in Seq(S) /\ IsInjective(g) /\ IsInjective(s) /\ f[i] = g \o s
        BY <3>7, <3>9
      <4>2. NoCommon(g, s)
        BY <3>8, <3>9 DEF NoCommon
      <4>3. QED
        BY <4>1, <4>2, ConcatDistinct
    <3>11. ASSUME NEW a \in DOMAIN f[i]
           PROVE  \E j \in 1..i : \E b \in DOMAIN seqs[j] : f[i][a] = seqs[j][b]
      <4>1. CASE \E b \in DOMAIN g : f[i][a] = g[b]
        <5>1. PICK b \in DOMAIN f[i - 1] : f[i][a] = f[i - 1][b]
          BY <3>9, <4>1
        <5>2. PICK j \in 1..(i - 1) : \E c \in DOMAIN seqs[j] : f[i - 1][b] = seqs[j][c]
          BY <3>6
        <5>3. j \in 1..i
          BY <3>5
        <5>4. QED
          BY <5>1, <5>2, <5>3
      <4>2. CASE \E b \in DOMAIN s : f[i][a] = s[b]
        <5>1. i \in 1..i
          BY <3>5
        <5>2. QED
          BY <3>9, <4>2, <5>1
      <4>3. QED
        BY <3>10, <4>1, <4>2 DEF FromBoth
    <3>12. good(i)
      BY <3>10, <3>11
    <3>13. QED
      BY <3>3, <3>12
  <2>5. good(N)
    BY <2>1, <2>4
  <2>6. QED
    BY <2>3, <2>5
<1>5. QED
  BY <1>3, <1>4

------------------------------------------------------------------------------

\* The stock bounds of a part, each once.
LEMMA SlbsOfDistinct ==
  ASSUME NEW p
  PROVE  IsInjective(SlbsOf(p)) /\ \A a \in DOMAIN SlbsOf(p) : SlbsOf(p)[a].mat = p
<1>1. PICK N \in Nat : N = NPeriods
  BY NumberOfPeriods
<1>2. PICK f : /\ f[N] = SlbsOf(p) /\ f[0] = <<>>
               /\ \A i \in 1..N : f[i] = SlbStep(p, i, f[i - 1])
               /\ \A i \in 0..N : f[i] \in Seq(Slb)
  BY <1>1, SlbsOfIs
<1> DEFINE good(i) ==
      IsInjective(f[i]) /\ \A a \in DOMAIN f[i] : f[i][a].mat = p /\ f[i][a].per < i
    bad == {i \in 0..N : ~good(i)}
<1>3. bad = {}
  <2> SUFFICES ASSUME bad # {} PROVE FALSE
    OBVIOUS
  <2>1. bad \in SUBSET Nat
    OBVIOUS
  <2>2. PICK i \in bad : \A j \in bad : i <= j
    BY <2>1, NatMin
  <2>3. i \in 0..N /\ ~good(i)
    BY <2>2
  <2>4. i # 0
    <3>1. good(0)
      BY <1>2 DEF IsInjective
    <3>2. QED
      BY <2>3, <3>1
  <2>5. i \in 1..N /\ i - 1 \in 0..N /\ ~(i <= i - 1)
    BY <2>3, <2>4
  <2>6. good(i - 1)
    BY <2>2, <2>5
  <2>7. PICK l, b : l = f[i - 1] /\ b = [mat |-> p, per |-> i - 1]
    OBVIOUS
  <2>8. l \in Seq(Slb) /\ f[i] = SlbStep(p, i, l)
    BY <1>2, <2>5, <2>7
  <2>9. IsInjective(l) /\ \A a \in DOMAIN l : l[a].mat = p /\ l[a].per < i - 1
    BY <2>6, <2>7
  <2>10. \A a \in DOMAIN l : l[a].per \in Int /\ l[a].per < i
    <3>1. \A a \in DOMAIN l : l[a] \in Slb
      BY <2>8
    <3>2. \A c \in Slb : c.per \in Int
      BY NumberOfPeriods DEF Slb
    <3>3. QED
      BY <2>5, <2>9, <3>1, <3>2
  <2>11. CASE f[i] = l
    <3>1. good(i)
      BY <2>9, <2>10, <2>11
    <3>2. QED
      BY <2>3, <3>1
  <2>12. CASE f[i] = Append(l, b)
    <3>1. PICK n \in Nat : n = Len(l)
      BY <2>8
    <3>2. PICK h : h = Append(l, b)
      OBVIOUS
    <3>3. /\ DOMAIN h = 1..(n + 1) /\ DOMAIN l = 1..n
          /\ \A a \in 1..n : h[a] = l[a]
          /\ h[n + 1] = b
      BY <2>8, <3>1, <3>2
    <3>4. b.mat = p /\ b.per = i - 1
      BY <2>7
    <3>5. \A a \in 1..n : h[a] # b
      BY <2>9, <2>10, <3>3, <3>4
    <3>6. ASSUME NEW a \in 1..(n + 1), NEW c \in 1..(n + 1), h[a] = h[c] PROVE a = c
      <4>1. CASE a \in 1..n /\ c \in 1..n
        BY <2>9, <3>3, <3>6, <4>1 DEF IsInjective
      <4>2. CASE a = n + 1 \/ c = n + 1
        <5>1. a \in 1..n \/ a = n + 1
          OBVIOUS
        <5>2. c \in 1..n \/ c = n + 1
          OBVIOUS
        <5>3. QED
          BY <3>3, <3>5, <3>6, <4>2, <5>1, <5>2
      <4>3. QED
        BY <4>1, <4>2
    <3>7. ASSUME NEW a \in 1..(n + 1) PROVE h[a].mat = p /\ h[a].per < i
      <4>1. CASE a \in 1..n
        BY <2>9, <2>10, <3>3, <4>1
      <4>2. CASE a = n + 1
        BY <2>5, <3>3, <3>4, <4>2
      <4>3. QED
        BY <4>1, <4>2
    <3>8. IsInjective(h) /\ \A a \in DOMAIN h : h[a].mat = p /\ h[a].per < i
      BY <3>3, <3>6, <3>7 DEF IsInjective
    <3>9. good(i)
      BY <2>12, <3>2, <3>8
    <3>10. QED
      BY <2>3, <3>9
  <2>13. QED
    BY <2>7, <2>8, <2>11, <2>12 DEF SlbStep
<1>4. good(N)
  BY <1>1, <1>3
<1>5. QED
  BY <1>2, <1>4

LEMMA SlbOrderDistinct == IsInjective(SlbOrder) /\ SlbOrder \in Seq(Parts)
<1>1. PICK n \in Nat : n = Len(SortedParts)
  BY IndexOfPart
<1>2. SortedParts \in Seq(Parts) /\ DOMAIN SortedParts = 1..n
  BY <1>1, PartsAssumption
<1>3. \A i, j \in 1..n : SortedParts[i] = SortedParts[j] => i = j
  <2>1. \A i \in 1..n : IndexOf(SortedParts[i]) = i
    BY <1>1, IndexOfPart
  <2>2. QED
    BY <2>1
<1>4. PICK s : s = SortedParts
  OBVIOUS
<1>5. Reverse(s) = [i \in 1..n |-> s[n - i + 1]]
  BY <1>1, <1>4 DEF Reverse
<1>6. \A i \in 1..n : n - i + 1 \in 1..n
  OBVIOUS
<1>7. IsInjective(Reverse(s)) /\ Reverse(s) \in [1..n -> Parts]
  <2>1. ASSUME NEW i \in 1..n, NEW j \in 1..n, Reverse(s)[i] = Reverse(s)[j] PROVE i = j
    <3>1. n - i + 1 \in 1..n /\ n - j + 1 \in 1..n /\ s[n - i + 1] = s[n - j + 1]
      BY <1>5, <1>6, <2>1
    <3>2. n - i + 1 = n - j + 1
      BY <1>3, <1>4, <3>1
    <3>3. QED
      BY <3>2
  <2>2. DOMAIN Reverse(s) = 1..n
    BY <1>5
  <2>3. \A i \in 1..n : s[n - i + 1] \in Parts
    BY <1>2, <1>4, <1>6
  <2>4. QED
    BY <1>5, <2>1, <2>2, <2>3 DEF IsInjective
<1>8. IsInjective(SortedParts)
  BY <1>2, <1>3 DEF IsInjective
<1>9. Reverse(s) \in Seq(Parts)
  BY <1>7
<1>10. QED
  BY SMTT(30), <1>2, <1>4, <1>7, <1>8, <1>9 DEF SlbOrder

SlbsDistinct == IsInjective(slbs)

LEMMA AllSlbsDistinct ==
  IsInjective(FlattenSeq([i \in DOMAIN SlbOrder |-> SlbsOf(SlbOrder[i])]))
<1>1. PICK seqs : seqs = [i \in DOMAIN SlbOrder |-> SlbsOf(SlbOrder[i])]
  OBVIOUS
<1>2. \A p : SlbsOf(p) \in Seq(Slb)
  <2>1. NPeriods \in 0..NPeriods
    BY NumberOfPeriods
  <2>2. QED
    BY <2>1, SlbsOfIs
<1>3. seqs \in [1..Len(SlbOrder) -> Seq(Slb)]
  BY <1>1, <1>2, SlbOrderDistinct
<1>4. seqs \in Seq(Seq(Slb))
  BY <1>3, SlbOrderDistinct
<1>5. ASSUME NEW i \in DOMAIN seqs
      PROVE  IsInjective(seqs[i]) /\ \A a \in DOMAIN seqs[i] : seqs[i][a].mat = SlbOrder[i]
  <2>1. seqs[i] = SlbsOf(SlbOrder[i])
    BY <1>1
  <2>2. QED
    BY <2>1, SlbsOfDistinct
<1>6. ASSUME NEW i \in DOMAIN seqs, NEW j \in DOMAIN seqs, i # j,
             NEW a \in DOMAIN seqs[i], NEW b \in DOMAIN seqs[j]
      PROVE  seqs[i][a] # seqs[j][b]
  <2>1. SlbOrder[i] # SlbOrder[j]
    BY <1>1, <1>6, SlbOrderDistinct DEF IsInjective
  <2>2. seqs[i][a].mat = SlbOrder[i] /\ seqs[j][b].mat = SlbOrder[j]
    BY <1>5
  <2>3. QED
    BY <2>1, <2>2
<1>7. Apart(seqs)
  BY <1>6 DEF Apart
<1>8. QED
  BY <1>1, <1>4, <1>5, <1>7, FlattenDistinct

------------------------------------------------------------------------------

\* No demand may be built ahead.
BuildAheadIsOff == \A d \in Demands, t \in Periods : BuildAheadUB[d][t] = 0

LEMMA OnlyItsPeriod ==
  ASSUME BuildAheadIsOff, NEW d \in Demands, NEW t \in Periods
  PROVE  \A i \in DOMAIN PeriodsToTry(d, t) : PeriodsToTry(d, t)[i] = t
<1>1. t \in Nat
  BY NumberOfPeriods
<1>2. PICK earliest : earliest = Max({0, t - BuildAheadUB[d][t]})
  OBVIOUS
<1>3. earliest = t
  <2>1. t - BuildAheadUB[d][t] = t /\ t \in Int
    BY <1>1 DEF BuildAheadIsOff
  <2>2. earliest = IF t <= 0 THEN 0 ELSE t
    BY <1>2, <2>1, NetMax
  <2>3. QED
    BY <1>1, <2>2
<1>4. PICK able : able = {u \in earliest..t :
                            \A v \in u..(t - 1) : CanStock(DemandedPart[d], v)}
  OBVIOUS
<1>5. able \in SUBSET Nat /\ t \in able /\ \A u \in able : u = t
  BY <1>1, <1>3, <1>4
<1>6. PICK firstPer : firstPer = Min(able)
  OBVIOUS
<1>7. firstPer = t
  BY <1>5, <1>6, MinOfNats
<1>8. PICK up : up = [i \in 1..(t - firstPer + 1) |-> firstPer + i - 1]
  OBVIOUS
<1>9. up = [i \in 1..1 |-> t]
  BY <1>1, <1>7, <1>8
<1>10. up \in Seq(Periods) /\ Len(up) = 1
  BY <1>9
<1>11. Reverse(up) = [i \in 1..1 |-> up[1 - i + 1]]
  BY <1>10 DEF Reverse
<1>12. PeriodsToTry(d, t) = IF d \in PrefBuildAhead THEN up ELSE Reverse(up)
  BY <1>2, <1>4, <1>6, <1>8 DEF PeriodsToTry
<1>13. QED
  BY <1>9, <1>11, <1>12

------------------------------------------------------------------------------

OnTime == \A i \in DOMAIN call.todo : call.todo[i] = call.per

\* What a call asks for is made in its own period only.
NotAhead == /\ pc \in InCall => OnTime
            /\ pc \in Trying => top.per = call.per

LEMMA OnTimeOfTail ==
  ASSUME CallType, NotAhead, pc \in InCall, call.todo # <<>>,
         call' = [call EXCEPT !.todo = Tail(call.todo)],
         pc' \in Trying => top'.per = Head(call.todo)
  PROVE  NotAhead'
<1>1. PICK todo \in Seq(Periods) : todo = call.todo
  BY DEF CallType
<1>2. PICK rest : rest = Tail(todo)
  OBVIOUS
<1>3. call' = [call EXCEPT !.todo = rest] /\ todo # <<>>
  BY <1>1, <1>2
<1>4. call'.per = call.per /\ call'.todo = rest
  BY <1>3 DEF CallType
<1>5. /\ \A i \in DOMAIN rest : i + 1 \in DOMAIN todo /\ rest[i] = todo[i + 1]
      /\ 1 \in DOMAIN todo /\ Head(todo) = todo[1]
  BY <1>1, <1>2, <1>3
<1>6. \A i \in DOMAIN todo : todo[i] = call.per
  BY <1>1 DEF NotAhead, OnTime
<1>7. OnTime'
  BY <1>4, <1>5, <1>6 DEF OnTime
<1>8. Head(todo) = call.per
  BY <1>5, <1>6
<1>9. QED
  BY <1>1, <1>4, <1>7, <1>8 DEF NotAhead

LEMMA OnTimeKept ==
  ASSUME NotAhead, UNCHANGED call, pc \in InCall, pc' \in Trying => pc \in Trying /\ top' = top
  PROVE  NotAhead'
<1>1. OnTime' <=> OnTime
  BY DEF OnTime
<1>2. QED
  BY <1>1 DEF NotAhead

LEMMA NotAheadNext ==
  BuildAheadIsOff /\ Allocation /\ NotAhead /\ [Next]_vars => NotAhead'
<1> SUFFICES ASSUME BuildAheadIsOff, Allocation, NotAhead, [Next]_vars PROVE NotAhead'
  OBVIOUS
<1>0. CallType
  BY DEF Allocation, Locals
<1> USE DEF InCall, Trying, CommitPoints, callVars, results
<1>1. CASE UNCHANGED vars
  BY <1>1 DEF vars, NotAhead, OnTime
<1>2. CASE FillStep \/ ExplodeStep \/ UndoStep
  <2>1. UNCHANGED <<call, top>> /\ pc \in CommitPoints /\ pc' \in CommitPoints
    BY <1>2 DEF FillStep, NetReq, NetAndRollReq, Netted, AllFilled, CannotExplode,
         ExplodeBopEnt, ExplodeStep, BomEntryNotInEffect, ExplodeBomEntry, NetConsEntry,
         NettedTo, NetByProductEntry, SkipSubEntry, ExplodeConsEntry, BomEntriesExploded,
         ExplodeBopEntry, UseProduct, UndoStep, ClearReqSched, RestoreSoln,
         CommitUnchanged, NextReqs, PendingReqs
  <2>2. QED
    BY SMTT(30), <2>1, OnTimeKept
<1>3. CASE SkipBlocked
  <2>1. /\ pc = "cmq" /\ pc' = "cmq" /\ call.todo # <<>>
        /\ call' = [call EXCEPT !.todo = Tail(call.todo)]
    BY <1>3 DEF SkipBlocked
  <2>2. QED
    BY <1>0, <2>1, OnTimeOfTail
<1>4. CASE CommitMaxQty
  <2>1. /\ pc = "cmq" /\ pc' = "try" /\ call.todo # <<>>
        /\ call' = [call EXCEPT !.todo = Tail(call.todo)]
        /\ top' = [part |-> CallPart, per |-> Head(call.todo)]
    BY <1>4 DEF CommitMaxQty
  <2>2. QED
    BY <1>0, <2>1, OnTimeOfTail
<1>5. CASE TempCommit \/ PermCommit \/ TempCommitReturns
  <2>1. UNCHANGED <<call, top>> /\ pc \in Trying
    BY <1>5 DEF TempCommit, PermCommit, StartCommit, TempCommitReturns
  <2>2. QED
    BY <2>1, OnTimeKept
<1>6. CASE PermCommitReturns \/ CommitMaxQtyEnds
  <2>1. UNCHANGED call /\ pc \in InCall /\ pc' \in {"cmqEnd", "cmq", "fatal"}
    BY <1>6 DEF PermCommitReturns, CommitMaxQtyEnds
  <2>2. QED
    BY <2>1, OnTimeKept
<1>7. CASE PostIncHeurAlloc \/ FinishHeurAlloc \/ StartHeurAlloc \/ StockSLBsEnforced
  <2>1. pc' \notin InCall
    BY <1>7 DEF PostIncHeurAlloc, FinishHeurAlloc, StartHeurAlloc, StockSLBsEnforced
  <2>2. QED
    BY <2>1 DEF NotAhead
<1>8. ASSUME NEW m \in Materials, NEW t \in Periods, StockSLBEnforced(m, t)
      PROVE  NotAhead'
  <2>1. pc' \notin InCall
    BY <1>8 DEF StockSLBEnforced
  <2>2. QED
    BY <2>1 DEF NotAhead
<1>9. ASSUME NEW m \in Materials, NEW t \in Periods, EnforceStockSLB(m, t)
      PROVE  NotAhead'
  <2>1. /\ pc' = "cmq"
        /\ call' = [NoCall EXCEPT !.kind = "slb", !.per = t, !.vol = netQty',
                                  !.todo = <<t>>]
    BY <1>9 DEF EnforceStockSLB
  <2>2. call'.per = t /\ call'.todo = <<t>>
    BY <2>1 DEF NoCall
  <2>3. QED
    BY <2>1, <2>2 DEF NotAhead, OnTime
<1>10. ASSUME NEW d \in Demands, NEW t \in Periods, NEW v \in 1..MaxDesIncVol,
              IncHeurAlloc(d, t, v)
       PROVE  NotAhead'
  <2>1. PICK vol : vol = Min({v, DemandedIncVolUB(d, t)})
    OBVIOUS
  <2>2. PICK todo : todo = PeriodsToTry(d, t)
    OBVIOUS
  <2>3. /\ pc' = "cmq"
        /\ call' = [kind |-> "inc", demand |-> d, per |-> t, vol |-> vol, todo |-> todo]
    BY <1>10, <2>1, <2>2 DEF IncHeurAlloc
  <2>4. call'.todo = todo /\ call'.per = t
    BY <2>3
  <2>5. OnTime'
    BY <2>2, <2>4, OnlyItsPeriod DEF OnTime
  <2>6. QED
    BY <2>3, <2>5 DEF NotAhead
<1>11. QED
  BY <1>1, <1>2, <1>3, <1>4, <1>5, <1>6, <1>7, <1>8, <1>9, <1>10
     DEF Next, Run, MaxQtyStep, StockSLBStep, Call

LEMMA SlbsDistinctNext == CallMeans /\ SlbsDistinct /\ [Next]_vars => SlbsDistinct'
<1> SUFFICES ASSUME CallMeans, SlbsDistinct, [Next]_vars PROVE SlbsDistinct'
  OBVIOUS
<1>1. ASSUME NEW m \in Materials, NEW t \in Periods, StockSLBEnforced(m, t)
      PROVE  SlbsDistinct'
  <2>1. slbs' = Tail(slbs) /\ slbs # <<>> /\ slbs \in Seq(Slb)
    BY <1>1 DEF StockSLBEnforced, CallMeans
  <2>2. PICK n \in Nat : n = Len(slbs)
    BY <2>1
  <2>3. /\ DOMAIN slbs = 1..n /\ DOMAIN slbs' = 1..(n - 1)
        /\ \A i \in 1..(n - 1) : slbs'[i] = slbs[i + 1]
    BY <2>1, <2>2
  <2>4. ASSUME NEW i \in 1..(n - 1), NEW j \in 1..(n - 1), slbs'[i] = slbs'[j] PROVE i = j
    <3>1. i + 1 \in DOMAIN slbs /\ j + 1 \in DOMAIN slbs /\ slbs[i + 1] = slbs[j + 1]
      BY <2>3, <2>4
    <3>2. i + 1 = j + 1
      BY <3>1 DEF SlbsDistinct, IsInjective
    <3>3. QED
      BY <3>2
  <2>5. QED
    BY <2>3, <2>4 DEF SlbsDistinct, IsInjective
<1>2. CASE FinishHeurAlloc
  BY <1>2, AllSlbsDistinct DEF FinishHeurAlloc, SlbsDistinct
<1>3. CASE UNCHANGED slbs
  BY SMTT(30), <1>3 DEF SlbsDistinct
<1> USE DEF callVars, results
<1>4. CASE FillStep \/ ExplodeStep \/ UndoStep
  BY <1>3, <1>4 DEF FillStep, NetReq, NetAndRollReq, Netted, AllFilled, CannotExplode,
         ExplodeBopEnt, ExplodeStep, BomEntryNotInEffect, ExplodeBomEntry, NetConsEntry,
         NettedTo, NetByProductEntry, SkipSubEntry, ExplodeConsEntry, BomEntriesExploded,
         ExplodeBopEntry, UseProduct, UndoStep, ClearReqSched, RestoreSoln,
         CommitUnchanged
<1>5. CASE MaxQtyStep
  BY <1>3, <1>5 DEF MaxQtyStep, SkipBlocked, CommitMaxQty, TempCommit, PermCommit,
         StartCommit, TempCommitReturns, PermCommitReturns, CommitMaxQtyEnds, PostIncHeurAlloc
<1>6. CASE StockSLBsEnforced \/ StartHeurAlloc \/ UNCHANGED vars
  BY <1>3, <1>6 DEF StockSLBsEnforced, StartHeurAlloc, vars
<1>7. ASSUME NEW m \in Materials, NEW t \in Periods, EnforceStockSLB(m, t)
      PROVE  SlbsDistinct'
  BY <1>3, <1>7 DEF EnforceStockSLB
<1>8. ASSUME NEW d \in Demands, NEW t \in Periods, NEW v \in 1..MaxDesIncVol,
             IncHeurAlloc(d, t, v)
      PROVE  SlbsDistinct'
  BY <1>3, <1>8 DEF IncHeurAlloc
<1>9. QED
  BY <1>1, <1>2, <1>4, <1>5, <1>6, <1>7, <1>8 DEF Next, Run, StockSLBStep, Call

------------------------------------------------------------------------------

\* What has been committed for the call in progress, and what is being
\* committed for it, is asked of its part in its period.
Due(p, t) ==
  IF call.kind # "none" /\ p = CallPart /\ t = call.per THEN call.vol - netQty ELSE 0

InTrial(p, t) ==
  IF mode = "perm" /\ p = top.part /\ t = top.per THEN TryQty ELSE 0

Asks(p, t) == Due(p, t) + InTrial(p, t)

\* Of what is held, what is kept in stock for good.
Rest(p, t) == Held(p, t) - Asks(p, t)

\* A stock bound that is still to be enforced; that of the call in progress
\* is the first.
ToReserve(p, t) ==
  \E i \in DOMAIN slbs : slbs[i] = [mat |-> p, per |-> t] /\ (call.kind = "slb" => i > 1)

Reserving(p, t) == call.kind = "slb" /\ slbs[1] = [mat |-> p, per |-> t]

\* How much is kept at most.
Cap(p, t) ==
  IF CanStock(p, t) /\ (pc \in {"slb", "done"} \/ call.kind = "slb") /\ ~ToReserve(p, t)
  THEN StockSLB[p][t] - IF Reserving(p, t) THEN call.vol ELSE 0
  ELSE 0

Before(kept, t) == IF t = 0 THEN 0 ELSE kept[t - 1]

\* kept is what is kept in stock of part p at the end of each period.
Keeps(p, kept) ==
  /\ kept \in [Periods -> Int]
  /\ \A t \in Periods : /\ kept[t] >= 0 /\ kept[t] <= Cap(p, t)
                        /\ Rest(p, t) = kept[t] - Before(kept, t)

Balanced == InOrder => \A p \in Parts : \E kept : Keeps(p, kept)

LEMMA RestIsInt ==
  Allocation => \A p \in Parts, t \in Periods :
                  /\ Held(p, t) \in Int /\ Asks(p, t) \in Int /\ Due(p, t) \in Int
                  /\ Rest(p, t) \in Int
<1> SUFFICES ASSUME Allocation, NEW p \in Parts, NEW t \in Periods
             PROVE  /\ Held(p, t) \in Int /\ Asks(p, t) \in Int /\ Due(p, t) \in Int
                    /\ Rest(p, t) \in Int
  OBVIOUS
<1>1. Due(p, t) \in Int
  <2>1. netQty \in 0..call.vol /\ call.vol \in Nat
    BY DEF Allocation, Locals, CallType
  <2>2. call.vol - netQty \in Int
    BY <2>1
  <2>3. QED
    BY <2>2 DEF Due
<1>2. ASSUME mode = "perm" PROVE TryQty \in Int
  <2>1. pc \in Trying /\ search.stage # "none" /\ SearchType /\ CallType
    BY <1>2 DEF Allocation, Reqs, Locals, SearchType, Trying
  <2>2. TryQty \in 1..netQty /\ netQty \in Nat
    BY <2>1, TryQtyFits DEF CallType
  <2>3. QED
    BY <2>2
<1>3. InTrial(p, t) \in Int
  BY <1>2 DEF InTrial
<1>4. Held(p, t) \in Int
  BY HeldIsInt
<1>5. QED
  BY <1>1, <1>3, <1>4 DEF Asks, Rest

LEMMA RestIsIntNext ==
  Allocation' => \A p \in Parts, t \in Periods :
                  /\ Held(p, t)' \in Int /\ Asks(p, t)' \in Int /\ Due(p, t)' \in Int
                  /\ Rest(p, t)' \in Int
<1>1. (Allocation => \A p \in Parts, t \in Periods :
                  /\ Held(p, t) \in Int /\ Asks(p, t) \in Int /\ Due(p, t) \in Int
                  /\ Rest(p, t) \in Int)'
  BY RestIsInt, PTL
<1>2. QED
  BY <1>1

LEMMA CapIsInt ==
  Allocation => \A p \in Parts, t \in Periods : Cap(p, t) \in Int
<1> SUFFICES ASSUME Allocation, NEW p \in Parts, NEW t \in Periods PROVE Cap(p, t) \in Int
  OBVIOUS
<1>1. call.vol \in Int
  BY DEF Allocation, Locals, CallType
<1>2. CanStock(p, t) => StockSLB[p][t] \in Int
  BY DemandsAssumption DEF CanStock
<1>3. QED
  BY <1>1, <1>2 DEF Cap

LEMMA CapIsIntNext ==
  Allocation' => \A p \in Parts, t \in Periods : Cap(p, t)' \in Int
<1>1. (Allocation => \A p \in Parts, t \in Periods : Cap(p, t) \in Int)'
  BY CapIsInt, PTL
<1>2. QED
  BY <1>1

------------------------------------------------------------------------------

\* A step puts d units more of part p into stock at the end of period t.
RestShifts(p, t, d) ==
  \A q \in Parts, v \in Periods :
    Rest(q, v)' = Rest(q, v) + IF q = p /\ v = t THEN d
                               ELSE IF q = p /\ v = t + 1 THEN -d ELSE 0

CapRises(p, t, d) ==
  \A q \in Parts, v \in Periods :
    Cap(q, v)' >= Cap(q, v) + IF q = p /\ v = t THEN d ELSE 0

LEMMA KeptOnShift ==
  ASSUME Allocation, Allocation', NEW p, NEW t \in Periods, NEW d \in Nat,
         RestShifts(p, t, d), CapRises(p, t, d), NEW q \in Parts, NEW kept, Keeps(q, kept)
  PROVE  \E more : Keeps(q, more)'
<1>1. PICK more : more = [v \in Periods |-> IF q = p /\ v = t THEN kept[v] + d ELSE kept[v]]
  OBVIOUS
<1>2. /\ kept \in [Periods -> Int] /\ more \in [Periods -> Int]
      /\ \A v \in Periods : more[v] = IF q = p /\ v = t THEN kept[v] + d ELSE kept[v]
  BY <1>1 DEF Keeps
<1>3. ASSUME NEW v \in Periods
      PROVE  more[v] >= 0 /\ more[v] <= Cap(q, v)' /\ Rest(q, v)' = more[v] - Before(more, v)
  <2>1. PICK k, c, c2, r \in Int : k = kept[v] /\ c = Cap(q, v) /\ c2 = Cap(q, v)' /\ r = Rest(q, v)
    BY <1>2, CapIsInt, CapIsIntNext, RestIsInt
  <2>2. k >= 0 /\ k <= c /\ r = k - Before(kept, v)
    BY <2>1 DEF Keeps
  <2>3. c2 >= c + IF q = p /\ v = t THEN d ELSE 0
    BY <2>1 DEF CapRises
  <2>4. more[v] = k + IF q = p /\ v = t THEN d ELSE 0
    BY <1>2, <2>1
  <2>5. Rest(q, v)' = r + IF q = p /\ v = t THEN d ELSE IF q = p /\ v = t + 1 THEN -d ELSE 0
    BY <2>1 DEF RestShifts
  <2>6. /\ Before(kept, v) \in Int
        /\ Before(more, v) = Before(kept, v) + IF q = p /\ v = t + 1 THEN d ELSE 0
    <3>1. v \in Nat /\ t \in Nat
      BY NumberOfPeriods
    <3>2. CASE v = 0
      BY <3>1, <3>2 DEF Before
    <3>3. CASE v # 0
      <4>1. v - 1 \in Periods
        BY <3>1, <3>3, NumberOfPeriods
      <4>2. PICK b \in Int : b = kept[v - 1]
        BY <1>2, <4>1
      <4>3. more[v - 1] = b + IF q = p /\ v - 1 = t THEN d ELSE 0
        BY <1>2, <4>1, <4>2
      <4>4. v - 1 = t <=> v = t + 1
        BY <3>1
      <4>5. QED
        BY <3>3, <4>2, <4>3, <4>4 DEF Before
    <3>4. QED
      BY <3>2, <3>3
  <2>7. t + 1 # t
    BY NumberOfPeriods
  <2>8. PICK b \in Int : b = Before(kept, v)
    BY <2>6
  <2>9. more[v] >= 0 /\ more[v] <= c2
    BY <2>2, <2>3, <2>4
  <2>10. Rest(q, v)' = more[v] - Before(more, v)
    BY <2>2, <2>4, <2>5, <2>6, <2>7, <2>8
  <2>11. QED
    BY <2>1, <2>9, <2>10
<1>4. Keeps(q, more)'
  BY <1>2, <1>3 DEF Keeps
<1>5. QED
  BY <1>4

LEMMA BalancedOnShift ==
  ASSUME Allocation, Allocation', Balanced, InOrder' => InOrder,
         NEW p, NEW t \in Periods, NEW d \in Nat, RestShifts(p, t, d), CapRises(p, t, d)
  PROVE  Balanced'
<1>1. ASSUME InOrder', NEW q \in Parts PROVE \E more : Keeps(q, more)'
  <2>1. PICK kept : Keeps(q, kept)
    BY <1>1 DEF Balanced
  <2>2. QED
    BY <2>1, KeptOnShift
<1>2. QED
  BY <1>1 DEF Balanced

RestStays == \A q \in Parts, v \in Periods : Rest(q, v)' = Rest(q, v)

CapStays == \A q \in Parts, v \in Periods : Cap(q, v)' >= Cap(q, v)

LEMMA BalancedOnStay ==
  ASSUME Allocation, Allocation', Balanced, InOrder' => InOrder, RestStays, CapStays
  PROVE  Balanced'
<1>1. 0 \in Periods /\ 0 \in Nat
  BY NumberOfPeriods
<1>2. ASSUME NEW q \in Parts, NEW v \in Periods
      PROVE  Rest(q, v) \in Int /\ Rest(q, v)' = Rest(q, v) + 0
             /\ Cap(q, v) \in Int /\ Cap(q, v)' >= Cap(q, v) + 0
  <2>1. PICK r, c \in Int : r = Rest(q, v) /\ c = Cap(q, v)
    BY RestIsInt, CapIsInt
  <2>2. r + 0 = r /\ c + 0 = c
    OBVIOUS
  <2>3. Rest(q, v)' = r /\ Cap(q, v)' >= c
    BY <2>1 DEF RestStays, CapStays
  <2>4. QED
    BY <2>1, <2>2, <2>3
<1>3. \A p : RestShifts(p, 0, 0)
  BY <1>2 DEF RestShifts
<1>4. \A p : CapRises(p, 0, 0)
  BY <1>2 DEF CapRises
<1>5. QED
  BY <1>1, <1>3, <1>4, BalancedOnShift

------------------------------------------------------------------------------

AsksStay == \A q \in Parts, v \in Periods : Asks(q, v)' = Asks(q, v)

AsksMove(p, t, d) ==
  \A q \in Parts, v \in Periods :
    Asks(q, v)' = Asks(q, v) + IF q = p /\ v = t THEN d ELSE 0

LEMMA RestOfStay ==
  ASSUME HeldStays, AsksStay PROVE RestStays
<1>1. ASSUME NEW q \in Parts, NEW v \in Periods PROVE Rest(q, v)' = Rest(q, v)
  BY DEF HeldStays, AsksStay, Rest
<1>2. QED
  BY <1>1 DEF RestStays

LEMMA RestOfMove ==
  ASSUME Allocation, NEW p \in Parts, NEW t \in Periods, NEW d \in Int, HeldMoves(p, t, d),
         AsksMove(p, t, d)
  PROVE  RestStays
<1>1. ASSUME NEW q \in Parts, NEW v \in Periods PROVE Rest(q, v)' = Rest(q, v)
  <2>1. PICK h, a \in Int : h = Held(q, v) /\ a = Asks(q, v)
    BY RestIsInt
  <2>2. PICK e \in Int : e = IF q = p /\ v = t THEN d ELSE 0
    OBVIOUS
  <2>3. Held(q, v)' = h + e
    BY <2>1, <2>2 DEF HeldMoves
  <2>4. Asks(q, v)' = a + e
    BY <2>1, <2>2 DEF AsksMove
  <2>5. Rest(q, v) = h - a /\ Rest(q, v)' = (h + e) - (a + e)
    BY <2>1, <2>3, <2>4 DEF Rest
  <2>6. QED
    BY <2>5
<1>2. QED
  BY <1>1 DEF RestStays

LEMMA DueOfSame ==
  ASSUME call'.kind = call.kind, call'.demand = call.demand, call'.per = call.per,
         call'.vol = call.vol, netQty' = netQty, slbs' = slbs
  PROVE  \A p, t : Due(p, t)' = Due(p, t)
<1>1. CallPart' = CallPart
  BY DEF CallPart
<1>2. QED
  BY <1>1 DEF Due

LEMMA AsksOfDue ==
  ASSUME mode # "perm", mode' # "perm", \A p, t : Due(p, t)' = Due(p, t) PROVE AsksStay
<1>1. \A p, t : InTrial(p, t) = 0 /\ InTrial(p, t)' = 0
  BY DEF InTrial
<1>2. QED
  BY <1>1 DEF AsksStay, Asks

LEMMA AsksOfSame ==
  ASSUME UNCHANGED <<call, netQty, slbs, top, search, mode>> PROVE AsksStay
<1>1. \A p, t : Due(p, t)' = Due(p, t)
  BY DueOfSame
<1>2. TryQty' = TryQty
  BY DEF TryQty, CurMult, CurSearchInc
<1>3. \A p, t : InTrial(p, t)' = InTrial(p, t)
  BY <1>2 DEF InTrial
<1>4. QED
  BY <1>1, <1>3 DEF AsksStay, Asks

LEMMA NoAsks ==
  ASSUME Allocation, mode # "perm", NothingIsGot PROVE \A p, t : Asks(p, t) = 0
<1>1. call.vol \in Nat /\ (call.kind # "none" => call.vol = netQty)
  BY DEF Allocation, Locals, CallType, NothingIsGot
<1>2. \A p, t : Due(p, t) = 0
  BY <1>1 DEF Due
<1>3. \A p, t : InTrial(p, t) = 0
  BY DEF InTrial
<1>4. QED
  BY <1>2, <1>3 DEF Asks

LEMMA NoAsksNext ==
  Allocation' /\ mode' # "perm" /\ NothingIsGot' => \A p, t : Asks(p, t)' = 0
<1>1. (Allocation /\ mode # "perm" /\ NothingIsGot => \A p, t : Asks(p, t) = 0)'
  <2>1. Allocation /\ mode # "perm" /\ NothingIsGot => \A p, t : Asks(p, t) = 0
    BY NoAsks
  <2>2. QED
    BY <2>1, PTL
<1>2. QED
  BY <1>1

LEMMA CapOfSame ==
  ASSUME Allocation, call'.kind = call.kind, call'.vol = call.vol, slbs' = slbs,
         pc' \in {"slb", "done"} <=> pc \in {"slb", "done"}
  PROVE  CapStays
<1>1. \A p, t : (ToReserve(p, t)' <=> ToReserve(p, t)) /\ (Reserving(p, t)' <=> Reserving(p, t))
  BY DEF ToReserve, Reserving
<1>2. \A p, t : Cap(p, t)' = Cap(p, t)
  BY <1>1 DEF Cap, CanStock
<1>3. ASSUME NEW p \in Parts, NEW t \in Periods PROVE Cap(p, t)' >= Cap(p, t)
  <2>1. Cap(p, t) \in Int
    BY CapIsInt
  <2>2. QED
    BY <1>2, <2>1
<1>4. QED
  BY <1>3 DEF CapStays

\* Nothing is kept until allocation finishes.
LEMMA CapIs0 ==
  ASSUME pc \notin {"slb", "done"}, call.kind # "slb" PROVE \A p, t : Cap(p, t) = 0
  BY DEF Cap

LEMMA CapIs0Next ==
  pc' \notin {"slb", "done"} /\ call'.kind # "slb" => \A p, t : Cap(p, t)' = 0
  BY DEF Cap

------------------------------------------------------------------------------

\* Where nothing is written and no permanent commit is booking.
LEMMA BalancedOutside ==
  ASSUME Allocation, Allocation', Balanced, UNCHANGED <<base, supplyVol, shipVol>>,
         ~Booking, ~Booking', AsksStay, CapStays, InOrder' => InOrder
  PROVE  Balanced'
<1>1. HeldStays
  BY AgreeOutside DEF BooksAgree
<1>2. QED
  BY <1>1, RestOfStay, BalancedOnStay

LEMMA BalancedOnCommit ==
  ASSUME Control, Allocation, Allocation', Balanced, ReqsWithin, CallMeans,
         FillStep \/ ExplodeStep \/ UndoStep
  PROVE  Balanced'
<1>1. UNCHANGED <<supplyVol, shipVol, mode, call, netQty, top, search, slbs>>
  BY UndoIsQuiet, CommitIsQuiet
<1>2. AsksStay
  BY <1>1, AsksOfSame
<1>3. mode \in {"none", "temp", "perm"}
  BY DEF Control
<1>4. pc \in CommitPoints /\ pc' \in CommitPoints
  BY DEF FillStep, NetReq, NetAndRollReq, Netted, AllFilled, CannotExplode, ExplodeBopEnt,
         ExplodeStep, BomEntryNotInEffect, ExplodeBomEntry, NetConsEntry, NettedTo,
         NetByProductEntry, SkipSubEntry, ExplodeConsEntry, BomEntriesExploded,
         ExplodeBopEntry, UseProduct, UndoStep, ClearReqSched, RestoreSoln,
         CommitPoints, NextReqs, PendingReqs
<1>5. CapStays
  BY <1>1, <1>4, CapOfSame DEF CommitPoints
<1>6. CASE CannotExplode /\ mode = "perm"
  <2>1. ok' = FALSE
    BY <1>6 DEF CannotExplode
  <2>2. QED
    BY <1>1, <1>6, <2>1 DEF Balanced, InOrder
<1>7. CASE ~CannotExplode /\ mode = "perm"
  <2>1. InPerm
    BY <1>1, <1>7 DEF InPerm
  <2>2. HeldStays
    BY <1>7, <2>1, PermAgrees DEF BooksAgree
  <2>3. ok' = ok
    BY <1>7, UndoIsQuiet DEF FillStep, NetReq, NetAndRollReq, Netted, AllFilled,
         ExplodeBopEnt, ExplodeStep, BomEntryNotInEffect, ExplodeBomEntry, NetConsEntry,
         NetByProductEntry, SkipSubEntry, ExplodeConsEntry, BomEntriesExploded,
         ExplodeBopEntry, UseProduct
  <2>4. InOrder' => InOrder
    BY <1>1, <1>4, <2>3 DEF InOrder, CommitPoints
  <2>5. QED
    BY <1>2, <1>5, <2>2, <2>4, RestOfStay, BalancedOnStay
<1>8. CASE mode # "perm"
  <2>0. mode = "temp"
    BY <1>3, <1>4, <1>8 DEF Allocation, Reqs
  <2>1. HeldStays
    BY <2>0, TempAgrees DEF BooksAgree
  <2>2. InOrder' => InOrder
    BY <1>4, <1>8 DEF InOrder, CommitPoints
  <2>3. QED
    BY <1>2, <1>5, <2>1, <2>2, RestOfStay, BalancedOnStay
<1>9. QED
  BY <1>6, <1>7, <1>8

------------------------------------------------------------------------------

\* What a permanent commit begins to make is asked of the top part.
LEMMA BalancedOnPermCommit ==
  ASSUME Allocation, Allocation', CursorStarts, Balanced, PermCommit PROVE Balanced'
<1>1. PICK p \in Parts, t \in Periods, d \in Nat : p = top.part /\ t = top.per /\ d = TryQty
  BY HeldOfStart
<1>2. HeldMoves(p, t, d)
  BY <1>1, HeldOfStart
<1>3. /\ pc = "perm" /\ pc' = "fill" /\ mode' = "perm"
      /\ UNCHANGED <<call, netQty, slbs, top, search>>
  BY DEF PermCommit, StartCommit, results, callVars
<1>4. mode = "none"
  <2>1. mode = "none" <=> pc \notin CommitPoints
    BY DEF Allocation, Reqs
  <2>2. QED
    BY <1>3, <2>1 DEF CommitPoints
<1>5. TryQty' = TryQty
  BY <1>3 DEF TryQty, CurMult, CurSearchInc
<1>6. \A q, v : Due(q, v)' = Due(q, v)
  BY <1>3, DueOfSame
<1>7. ASSUME NEW q \in Parts, NEW v \in Periods
      PROVE  Asks(q, v)' = Asks(q, v) + IF q = p /\ v = t THEN d ELSE 0
  <2>1. PICK a \in Int : a = Due(q, v)
    BY RestIsInt
  <2>2. Asks(q, v) = a + 0
    BY <1>4, <2>1 DEF Asks, InTrial
  <2>3. InTrial(q, v)' = IF q = p /\ v = t THEN d ELSE 0
    BY <1>1, <1>3, <1>5 DEF InTrial
  <2>4. Asks(q, v)' = a + IF q = p /\ v = t THEN d ELSE 0
    BY <1>6, <2>1, <2>3 DEF Asks
  <2>5. QED
    BY <2>2, <2>4
<1>8. AsksMove(p, t, d)
  BY <1>7 DEF AsksMove
<1>9. d \in Int
  OBVIOUS
<1>10. RestStays
  BY <1>2, <1>8, <1>9, RestOfMove
<1>11. CapStays
  BY <1>3, CapOfSame
<1>12. InOrder' => InOrder
  BY <1>3, <1>4 DEF InOrder
<1>13. QED
  BY <1>10, <1>11, <1>12, BalancedOnStay

\* What has been made is due: it was asked for in the period of the call.
LEMMA AsksOfPerm ==
  ASSUME Allocation, CallMeans, NotAhead, pc = "return", mode = "perm", mode' = "none",
         netQty' = netQty - TryQty, UNCHANGED <<call, slbs>>
  PROVE  AsksStay
<1>1. top.part = CallPart /\ top.per = call.per
  BY DEF CallMeans, NotAhead, Trying, CommitPoints
<1>2. call.kind # "none"
  BY DEF Allocation, Locals, CallType, InCall, CommitPoints
<1>3. CallPart' = CallPart
  BY DEF CallPart
<1>4. PICK a, b, c \in Int : a = call.vol /\ b = netQty /\ c = TryQty
  <2>1. /\ TryQty \in 1..netQty /\ netQty \in 0..call.vol /\ call.vol \in Nat
    BY TryQtyFits DEF Allocation, Locals, SearchType, CallType, Trying, CommitPoints
  <2>2. QED
    BY <2>1
<1>5. ASSUME NEW q \in Parts, NEW v \in Periods PROVE Asks(q, v)' = Asks(q, v)
  <2>1. InTrial(q, v)' = 0
    BY DEF InTrial
  <2>2. CASE q = CallPart /\ v = call.per
    <3>1. InTrial(q, v) = c /\ Due(q, v) = a - b /\ Due(q, v)' = a - (b - c)
      BY <1>1, <1>2, <1>3, <1>4, <2>2 DEF InTrial, Due
    <3>2. Asks(q, v) = a - b + c /\ Asks(q, v)' = a - (b - c) + 0
      BY <2>1, <3>1 DEF Asks
    <3>3. QED
      BY <1>4, <3>2
  <2>3. CASE ~(q = CallPart /\ v = call.per)
    <3>1. InTrial(q, v) = 0 /\ Due(q, v) = 0 /\ Due(q, v)' = 0
      BY <1>1, <1>3, <2>3 DEF InTrial, Due
    <3>2. QED
      BY <2>1, <3>1 DEF Asks
  <2>4. QED
    BY <2>2, <2>3
<1>6. QED
  BY <1>5 DEF AsksStay

\* The call ships what is due.
LEMMA BalancedOnPost ==
  ASSUME Allocation, Allocation', Balanced, PostIncHeurAlloc PROVE Balanced'
<1>1. /\ pc = "cmq" /\ pc' = "idle" /\ call.kind = "inc" /\ call' = NoCall /\ netQty' = 0
      /\ UNCHANGED <<base, supplyVol, mode>>
      /\ Ships(call.demand, call.per, call.vol - netQty)
  BY DEF PostIncHeurAlloc, inputs, Ships
<1>2. PICK d \in Demands, t \in Periods, k \in Nat :
        d = call.demand /\ t = call.per /\ k = call.vol - netQty
  <2>1. call.demand \in Demands /\ call.per \in Periods /\ netQty \in 0..call.vol
        /\ call.vol \in Nat
    BY <1>1 DEF Allocation, Locals, CallType
  <2>2. call.vol - netQty \in Nat
    BY <2>1
  <2>3. QED
    BY <2>1, <2>2
<1>3. Ships(d, t, k)
  BY <1>1, <1>2
<1>4. mode = "none" /\ mode' = "none"
  <2>1. mode = "none" <=> pc \notin CommitPoints
    BY DEF Allocation, Reqs
  <2>2. QED
    BY <1>1, <2>1 DEF CommitPoints
<1>5. k \in Int /\ -k \in Int /\ ~Booking /\ ~Booking'
  BY <1>4 DEF Booking
<1>6. PICK p \in Parts : p = DemandedPart[d]
  BY DemandsAssumption
<1>7. HeldMoves(p, t, -k)
  BY <1>1, <1>3, <1>5, <1>6, HeldOfShip
<1>8. ASSUME NEW q \in Parts, NEW v \in Periods
      PROVE  Asks(q, v)' = Asks(q, v) + IF q = p /\ v = t THEN -k ELSE 0
  <2>1. Asks(q, v)' = 0
    BY <1>1, <1>4, NoAsksNext DEF NothingIsGot, NoCall
  <2>2. Due(q, v) = IF q = p /\ v = t THEN k ELSE 0
    BY <1>1, <1>2, <1>6 DEF Due, CallPart
  <2>3. InTrial(q, v) = 0
    BY <1>4 DEF InTrial
  <2>4. Asks(q, v) = (IF q = p /\ v = t THEN k ELSE 0) + 0
    BY <2>2, <2>3 DEF Asks
  <2>5. QED
    BY <1>5, <2>1, <2>4
<1>9. AsksMove(p, t, -k)
  BY <1>8 DEF AsksMove
<1>10. RestStays
  BY <1>5, <1>7, <1>9, RestOfMove
<1>11. CapStays
  <2>1. \A q, v : Cap(q, v) = 0 /\ Cap(q, v)' = 0
    BY <1>1, CapIs0, CapIs0Next DEF NoCall
  <2>2. QED
    BY <2>1 DEF CapStays
<1>12. InOrder' => InOrder
  BY <1>1, <1>4 DEF InOrder
<1>13. QED
  BY <1>10, <1>11, <1>12, BalancedOnStay

LEMMA BalancedOnMaxQty ==
  ASSUME Control, Allocation, Allocation', CursorStarts, CallMeans, NotAhead, Balanced,
         MaxQtyStep
  PROVE  Balanced'
<1>1. mode = "none" <=> pc \notin CommitPoints
  BY DEF Allocation, Reqs
<1>2. CallType
  BY DEF Allocation, Locals
<1> USE DEF CommitPoints
<1>3. CASE SkipBlocked \/ CommitMaxQty
  <2>1. /\ pc = "cmq" /\ pc' \in {"cmq", "try"}
        /\ UNCHANGED <<base, supplyVol, shipVol, mode, netQty, slbs>>
        /\ call' = [call EXCEPT !.todo = Tail(call.todo)]
    BY <1>3 DEF SkipBlocked, CommitMaxQty, inputs, results
  <2>2. mode = "none" /\ mode' = "none"
    BY <1>1, <2>1
  <2>3. /\ call'.kind = call.kind /\ call'.demand = call.demand /\ call'.per = call.per
        /\ call'.vol = call.vol
    BY <1>2, <2>1 DEF CallType
  <2>4. AsksStay
    <3>1. \A p, t : Due(p, t)' = Due(p, t)
      BY <2>1, <2>3, DueOfSame
    <3>2. QED
      BY <2>2, <3>1, AsksOfDue
  <2>5. CapStays
    BY <2>1, <2>3, CapOfSame
  <2>6. InOrder' => InOrder
    BY <2>1, <2>2 DEF InOrder
  <2>7. ~Booking /\ ~Booking'
    BY <2>2 DEF Booking
  <2>8. QED
    BY <2>1, <2>4, <2>5, <2>6, <2>7, BalancedOutside
<1>4. CASE TempCommit \/ TempCommitReturns \/ CommitMaxQtyEnds
  <2>1. /\ pc \in {"try", "return", "cmqEnd"}
        /\ pc' \in {"fill", "perm", "cmqEnd", "try", "cmq"}
        /\ UNCHANGED <<base, supplyVol, shipVol, call, netQty, slbs>>
    BY <1>4 DEF TempCommit, StartCommit, TempCommitReturns, CommitMaxQtyEnds, inputs, results,
         callVars
  <2>2. mode \in {"none", "temp"} /\ mode' \in {"none", "temp"}
    BY <1>1, <1>4 DEF TempCommit, StartCommit, TempCommitReturns, CommitMaxQtyEnds
  <2>3. AsksStay
    <3>1. \A p, t : Due(p, t)' = Due(p, t)
      BY <2>1, DueOfSame
    <3>2. QED
      BY <2>2, <3>1, AsksOfDue
  <2>4. CapStays
    BY <2>1, CapOfSame
  <2>5. InOrder' => InOrder
    BY <2>1, <2>2 DEF InOrder
  <2>6. ~Booking /\ ~Booking'
    BY <2>2 DEF Booking
  <2>7. QED
    BY <2>1, <2>3, <2>4, <2>5, <2>6, BalancedOutside
<1>5. CASE PermCommit
  BY <1>5, BalancedOnPermCommit
<1>6. CASE PermCommitReturns
  <2>1. /\ pc = "return" /\ mode = "perm" /\ mode' = "none"
        /\ UNCHANGED <<base, supplyVol, shipVol, call, slbs>>
    BY <1>6 DEF PermCommitReturns, inputs, results
  <2>2. ~Booking /\ ~Booking'
    BY <2>1 DEF Booking, Exploding, Executing
  <2>3. CASE ok
    <3>1. netQty' = netQty - TryQty /\ pc' = "cmqEnd"
      BY <1>6, <2>3 DEF PermCommitReturns
    <3>2. AsksStay
      BY <2>1, <3>1, AsksOfPerm
    <3>3. CapStays
      BY <2>1, <3>1, CapOfSame
    <3>4. InOrder
      BY <2>1, <2>3 DEF InOrder
    <3>5. QED
      BY <2>1, <2>2, <3>2, <3>3, <3>4, BalancedOutside
  <2>4. CASE ~ok
    BY <1>6, <2>4 DEF PermCommitReturns, Balanced, InOrder
  <2>5. QED
    BY <2>3, <2>4
<1>7. CASE PostIncHeurAlloc
  BY <1>7, BalancedOnPost
<1>8. QED
  BY <1>3, <1>4, <1>5, <1>6, <1>7 DEF MaxQtyStep

------------------------------------------------------------------------------

LEMMA FirstOnly ==
  ASSUME CallMeans, SlbsDistinct, slbs # <<>>
  PROVE  /\ 1 \in DOMAIN slbs /\ DOMAIN slbs \subseteq Nat \ {0} /\ slbs \in Seq(Slb)
         /\ \A i \in DOMAIN slbs : slbs[i] = slbs[1] => i = 1
         /\ \A i \in DOMAIN slbs : i # 1 => i > 1
<1>1. slbs \in Seq(Slb) /\ 1 \in DOMAIN slbs /\ DOMAIN slbs \subseteq Nat \ {0}
  BY DEF CallMeans
<1>2. \A i \in DOMAIN slbs : slbs[i] = slbs[1] => i = 1
  BY <1>1 DEF SlbsDistinct, IsInjective
<1>3. \A i \in DOMAIN slbs : i # 1 => i > 1
  BY <1>1
<1>4. QED
  BY <1>1, <1>2, <1>3

\* What is reserved for a stock bound may be kept, and what is then made for
\* it as well.
LEMMA CapOfEnforce ==
  ASSUME Allocation, CallMeans, SlbsDistinct, NEW m \in Materials, NEW t \in Periods,
         slbs # <<>>, slbs[1] = [mat |-> m, per |-> t], slbs' = slbs,
         pc = "slb", pc' = "cmq", call'.kind = "slb",
         NEW d \in Nat, call'.vol = StockSLB[m][t] - d
  PROVE  CapRises(m, t, d)
<1>1. call.kind # "slb" /\ CanStock(m, t) /\ StockSLB[m][t] \in Nat
  <2>1. call = NoCall
    BY DEF Allocation, Locals, CallType
  <2>2. QED
    BY <2>1, SlbIsStocked, DemandsAssumption DEF NoCall
<1>2. ASSUME NEW q \in Parts, NEW v \in Periods
      PROVE  Cap(q, v)' >= Cap(q, v) + IF q = m /\ v = t THEN d ELSE 0
  <2>1. CASE q = m /\ v = t
    <3>1. ToReserve(q, v)
      BY <1>1, <2>1, FirstOnly DEF ToReserve
    <3>2. ~ToReserve(q, v)' /\ Reserving(q, v)'
      BY <2>1, FirstOnly DEF ToReserve, Reserving
    <3>3. Cap(q, v) = 0
      BY <3>1 DEF Cap
    <3>4. Cap(q, v)' = StockSLB[m][t] - (StockSLB[m][t] - d)
      BY <1>1, <2>1, <3>2 DEF Cap, CanStock
    <3>5. QED
      BY <1>1, <2>1, <3>3, <3>4
  <2>2. CASE ~(q = m /\ v = t)
    <3>1. [mat |-> q, per |-> v] # slbs[1]
      BY <2>2
    <3>2. ToReserve(q, v)' <=> ToReserve(q, v)
      BY <1>1, <3>1, FirstOnly DEF ToReserve
    <3>3. ~Reserving(q, v)' /\ ~Reserving(q, v)
      BY <1>1, <3>1 DEF Reserving
    <3>4. Cap(q, v)' = Cap(q, v)
      BY <3>2, <3>3 DEF Cap, CanStock
    <3>5. Cap(q, v) \in Int
      BY CapIsInt
    <3>6. QED
      BY <2>2, <3>4, <3>5
  <2>3. QED
    BY <2>1, <2>2
<1>3. QED
  BY <1>2 DEF CapRises

LEMMA CapOfEnforced ==
  ASSUME Allocation, CallMeans, SlbsDistinct, NEW m \in Materials, NEW t \in Periods,
         slbs # <<>>, slbs[1] = [mat |-> m, per |-> t], slbs' = Tail(slbs),
         pc' = "slb", call.kind = "slb", call' = NoCall,
         NEW k \in Nat, k = call.vol - netQty
  PROVE  CapRises(m, t, k)
<1>1. CanStock(m, t) /\ StockSLB[m][t] \in Nat /\ call'.kind # "slb"
  BY SlbIsStocked, DemandsAssumption DEF NoCall
<1>2. call.vol \in Nat /\ netQty \in Nat
  BY DEF Allocation, Locals, CallType
<1>3. PICK n \in Nat : n = Len(slbs)
  BY FirstOnly
<1>4. DOMAIN slbs = 1..n /\ DOMAIN slbs' = 1..(n - 1) /\ \A i \in 1..(n - 1) : slbs'[i] = slbs[i + 1]
  BY <1>3, FirstOnly
<1>5. ASSUME NEW b PROVE (\E i \in DOMAIN slbs' : slbs'[i] = b) <=> (\E i \in DOMAIN slbs : slbs[i] = b /\ i > 1)
  <2>1. ASSUME NEW i \in DOMAIN slbs', slbs'[i] = b PROVE \E j \in DOMAIN slbs : slbs[j] = b /\ j > 1
    <3>1. i + 1 \in DOMAIN slbs /\ i + 1 > 1 /\ slbs[i + 1] = b
      BY <1>4, <2>1
    <3>2. QED
      BY <3>1
  <2>2. ASSUME NEW j \in DOMAIN slbs, slbs[j] = b, j > 1 PROVE \E i \in DOMAIN slbs' : slbs'[i] = b
    <3>1. j - 1 \in 1..(n - 1) /\ (j - 1) + 1 = j
      BY <1>4, <2>2
    <3>2. slbs'[j - 1] = slbs[(j - 1) + 1]
      BY <1>4, <3>1
    <3>3. QED
      BY <1>4, <2>2, <3>1, <3>2
  <2>3. QED
    BY <2>1, <2>2
<1>6. \A q, v : ToReserve(q, v)' <=> ToReserve(q, v)
  BY <1>1, <1>5 DEF ToReserve
<1>7. \A q, v : ~Reserving(q, v)'
  BY <1>1 DEF Reserving
<1>8. ASSUME NEW q \in Parts, NEW v \in Periods
      PROVE  Cap(q, v)' >= Cap(q, v) + IF q = m /\ v = t THEN k ELSE 0
  <2>1. CASE q = m /\ v = t
    <3>1. ~ToReserve(q, v) /\ Reserving(q, v)
      BY <2>1, FirstOnly DEF ToReserve, Reserving
    <3>2. Cap(q, v) = StockSLB[m][t] - call.vol
      BY <1>1, <2>1, <3>1 DEF Cap
    <3>3. Cap(q, v)' = StockSLB[m][t] - 0
      BY <1>1, <1>6, <1>7, <2>1, <3>1 DEF Cap, CanStock
    <3>4. PICK x, y, z \in Nat : x = StockSLB[m][t] /\ y = call.vol /\ z = netQty
      BY <1>1, <1>2
    <3>5. x - 0 >= (x - y) + (y - z)
      BY <3>4
    <3>6. QED
      BY <2>1, <3>2, <3>3, <3>4, <3>5
  <2>2. CASE ~(q = m /\ v = t)
    <3>1. [mat |-> q, per |-> v] # slbs[1]
      BY <2>2
    <3>2. ~Reserving(q, v)
      BY <3>1 DEF Reserving
    <3>3. Cap(q, v)' = Cap(q, v)
      BY <1>6, <1>7, <3>2 DEF Cap, CanStock
    <3>4. Cap(q, v) \in Int
      BY CapIsInt
    <3>5. QED
      BY <2>2, <3>3, <3>4
  <2>3. QED
    BY <2>1, <2>2
<1>9. QED
  BY <1>8 DEF CapRises

------------------------------------------------------------------------------

LEMMA BalancedOnEnforce ==
  ASSUME Allocation, Allocation', Balanced, CallMeans, SlbsDistinct,
         NEW m \in Materials, NEW t \in Periods, EnforceStockSLB(m, t)
  PROVE  Balanced'
<1>1. /\ Quiet /\ pc = "slb" /\ pc' = "cmq" /\ slbs # <<>> /\ slbs' = slbs
      /\ slbs[1] = [mat |-> m, per |-> t]
      /\ call'.kind = "slb" /\ call'.vol = netQty' /\ NothingIsGot'
  BY EnforceReserves
<1>2. PICK d \in Nat : netQty' = StockSLB[m][t] - d /\ Reserved(m, t, d)
  BY EnforceReserves
<1>3. /\ InOrder' => InOrder
      /\ mode # "perm" /\ mode' # "perm" /\ m \in Parts /\ d \in Int /\ -d \in Int
  BY <1>1, QuietIs DEF Quiet, Parts
<1>4. CapRises(m, t, d)
  BY <1>1, <1>2, CapOfEnforce
<1>5. ASSUME NEW q \in Parts, NEW v \in Periods
      PROVE  /\ Held(q, v) \in Int
             /\ Rest(q, v) = Held(q, v) - 0 /\ Rest(q, v)' = Held(q, v)' - 0
  <2>1. NothingIsGot
    BY <1>1 DEF Allocation, Locals, CallType, NothingIsGot, NoCall
  <2>2. Asks(q, v) = 0 /\ Asks(q, v)' = 0
    BY <1>1, <1>3, <2>1, NoAsks, NoAsksNext
  <2>3. QED
    BY <2>2, RestIsInt DEF Rest
<1>6. ASSUME NEW q \in Parts, NEW v \in Periods
      PROVE  Rest(q, v)' = Rest(q, v) + IF q = m /\ v = t THEN d
                                        ELSE IF q = m /\ v = t + 1 THEN -d ELSE 0
  <2>1. PICK h \in Int : h = Held(q, v)
    BY <1>5
  <2>2. CASE d = 0 /\ base' = base
    <3>1. ~Booking /\ ~Booking' /\ UNCHANGED <<supplyVol, shipVol>>
      BY <1>1, QuietIs DEF Quiet
    <3>2. HeldStays
      BY <2>2, <3>1, AgreeOutside DEF BooksAgree
    <3>3. Held(q, v)' = h
      BY <2>1, <3>2 DEF HeldStays
    <3>4. QED
      BY <1>5, <2>1, <2>2, <3>3
  <2>3. CASE t < NPeriods - 1 /\ Moved(m, t, t + 1, d) /\ SameVols(base, base')
    <3>1. PICK u \in Periods : u = t + 1 /\ t # u
      BY <2>3, NumberOfPeriods
    <3>2. HeldShifts(m, t, u, d)
      BY <1>1, <1>3, <2>3, <3>1, HeldOfShift
    <3>3. Held(q, v)' = h + IF q = m /\ v = t THEN d ELSE IF q = m /\ v = u THEN -d ELSE 0
      BY <2>1, <3>2 DEF HeldShifts
    <3>4. QED
      BY <1>5, <2>1, <3>1, <3>3
  <2>4. CASE t = NPeriods - 1 /\ AvailMoves(m, t, -d) /\ SameVols(base, base')
    <3>1. PICK a \in Int : a = -d
      BY <1>3
    <3>2. HeldMoves(m, t, -a)
      BY <1>1, <1>3, <2>4, <3>1, HeldOfAvail
    <3>3. Held(q, v)' = h + IF q = m /\ v = t THEN -a ELSE 0
      BY <2>1, <3>2 DEF HeldMoves
    <3>4. v # t + 1
      BY <2>4, NumberOfPeriods
    <3>5. -a = d
      BY <3>1
    <3>6. QED
      BY <1>5, <2>1, <3>3, <3>4, <3>5
  <2>5. QED
    BY <1>2, <2>2, <2>3, <2>4 DEF Reserved
<1>7. RestShifts(m, t, d)
  BY <1>6 DEF RestShifts
<1>8. QED
  BY <1>3, <1>4, <1>7, BalancedOnShift

LEMMA BalancedOnEnforced ==
  ASSUME Allocation, Allocation', Balanced, CallMeans, SlbsDistinct,
         NEW m \in Materials, NEW t \in Periods, StockSLBEnforced(m, t)
  PROVE  Balanced'
<1>1. /\ Quiet /\ pc = "cmq" /\ pc' = "slb" /\ slbs # <<>> /\ slbs' = Tail(slbs)
      /\ slbs[1] = [mat |-> m, per |-> t]
      /\ call.kind = "slb" /\ CallPart = m /\ call.per = t /\ call' = NoCall
  BY EnforcedStores
<1>2. PICK k \in Nat : k = call.vol - netQty /\ Stored(m, t, k)
  BY EnforcedStores
<1>3. /\ InOrder' => InOrder
      /\ mode # "perm" /\ mode' # "perm" /\ m \in Parts /\ k \in Int /\ -k \in Int
  BY <1>1, QuietIs DEF Quiet, Parts
<1>4. CapRises(m, t, k)
  BY <1>1, <1>2, CapOfEnforced
<1>5. ASSUME NEW q \in Parts, NEW v \in Periods
      PROVE  /\ Held(q, v) \in Int
             /\ Rest(q, v) = Held(q, v) - (IF q = m /\ v = t THEN k ELSE 0)
             /\ Rest(q, v)' = Held(q, v)' - 0
  <2>1. NothingIsGot'
    BY <1>1 DEF NothingIsGot, NoCall
  <2>2. Asks(q, v)' = 0
    BY <1>3, <2>1, NoAsksNext
  <2>3. Due(q, v) = IF q = m /\ v = t THEN k ELSE 0
    BY <1>1, <1>2 DEF Due
  <2>4. InTrial(q, v) = 0
    BY <1>3 DEF InTrial
  <2>5. Asks(q, v) = IF q = m /\ v = t THEN k ELSE 0
    BY <1>3, <2>3, <2>4 DEF Asks
  <2>6. QED
    BY <2>2, <2>5, RestIsInt DEF Rest
<1>6. ASSUME NEW q \in Parts, NEW v \in Periods
      PROVE  Rest(q, v)' = Rest(q, v) + IF q = m /\ v = t THEN k
                                        ELSE IF q = m /\ v = t + 1 THEN -k ELSE 0
  <2>1. PICK h \in Int : h = Held(q, v)
    BY <1>5
  <2>2. t # t + 1
    BY NumberOfPeriods
  <2>3. CASE (k = 0 \/ t = NPeriods - 1) /\ base' = base
    <3>1. ~Booking /\ ~Booking' /\ UNCHANGED <<supplyVol, shipVol>>
      BY <1>1, QuietIs DEF Quiet
    <3>2. HeldStays
      BY <2>3, <3>1, AgreeOutside DEF BooksAgree
    <3>3. Held(q, v)' = h
      BY <2>1, <3>2 DEF HeldStays
    <3>4. k = 0 \/ v # t + 1
      BY <2>3, NumberOfPeriods
    <3>5. QED
      BY <1>3, <1>5, <2>1, <2>2, <3>3, <3>4
  <2>4. CASE t < NPeriods - 1 /\ AvailMoves(m, t + 1, k) /\ SameVols(base, base')
    <3>1. PICK u \in Periods : u = t + 1
      BY <2>4, NumberOfPeriods
    <3>2. HeldMoves(m, u, -k)
      BY <1>1, <1>3, <2>4, <3>1, HeldOfAvail
    <3>3. Held(q, v)' = h + IF q = m /\ v = u THEN -k ELSE 0
      BY <2>1, <3>2 DEF HeldMoves
    <3>4. QED
      BY <1>3, <1>5, <2>1, <2>2, <3>1, <3>3
  <2>5. QED
    BY <1>2, <2>3, <2>4 DEF Stored
<1>7. RestShifts(m, t, k)
  BY <1>6 DEF RestShifts
<1>8. QED
  BY <1>3, <1>4, <1>7, BalancedOnShift

------------------------------------------------------------------------------

FreshBalance == Allocation /\ Fresh => Balanced

LEMMA BalancedWhenFresh == FreshBalance
<1> SUFFICES ASSUME Allocation, Fresh, NEW p \in Parts PROVE \E kept : Keeps(p, kept)
  BY DEF FreshBalance, Balanced
<1>1. PICK kept : kept = [t \in Periods |-> 0]
  OBVIOUS
<1>2. mode # "perm" /\ NothingIsGot /\ pc = "idle" /\ call.kind = "none"
  BY DEF Fresh, NothingIsGot, NoCall
<1>3. ASSUME NEW t \in Periods
      PROVE  kept[t] >= 0 /\ kept[t] <= Cap(p, t) /\ Rest(p, t) = kept[t] - Before(kept, t)
  <2>1. Held(p, t) = 0
    BY FreshIsHeld
  <2>2. Asks(p, t) = 0
    BY <1>2, NoAsks
  <2>3. Cap(p, t) = 0
    BY <1>2, CapIs0
  <2>4. Before(kept, t) = 0
    BY <1>1, NumberOfPeriods DEF Before
  <2>5. QED
    BY <1>1, <2>1, <2>2, <2>3, <2>4 DEF Rest
<1>4. kept \in [Periods -> Int]
  BY <1>1
<1>5. Keeps(p, kept)
  BY <1>3, <1>4 DEF Keeps
<1>6. QED
  BY <1>5

LEMMA BalancedWhenFreshNext == FreshBalance'
  BY BalancedWhenFresh, PTL

------------------------------------------------------------------------------

\* Outside a call nothing is asked for, and a step that writes nothing leaves
\* what is kept alone.
LEMMA BalancedOnNothing ==
  ASSUME Quiet, Balanced, base' = base, NothingIsGot, NothingIsGot', CapStays
  PROVE  Balanced'
<1>1. ~Booking /\ ~Booking' /\ (InOrder' => InOrder)
  BY QuietIs
<1>2. /\ UNCHANGED <<base, supplyVol, shipVol>> /\ Allocation /\ Allocation'
      /\ mode # "perm" /\ mode' # "perm"
  BY DEF Quiet
<1>3. AsksStay
  BY <1>2, NoAsks, NoAsksNext DEF AsksStay
<1>4. QED
  BY <1>1, <1>2, <1>3, BalancedOutside

LEMMA CapOfFinish ==
  ASSUME FinishHeurAlloc, call = NoCall PROVE CapStays
<1>1. pc = "idle" /\ call' = call
  BY DEF FinishHeurAlloc, callVars
<1>2. call.kind = "none" /\ call'.kind = "none"
  BY <1>1 DEF NoCall
<1>3. \A p, t : Cap(p, t) = 0
  BY <1>1, <1>2, CapIs0
<1>4. ASSUME NEW p \in Parts, NEW t \in Periods PROVE Cap(p, t)' >= 0
  <2>1. ~Reserving(p, t)'
    BY <1>2 DEF Reserving
  <2>2. Cap(p, t)' = 0 \/ (CanStock(p, t) /\ Cap(p, t)' = StockSLB[p][t] - 0)
    BY <2>1 DEF Cap, CanStock
  <2>3. CanStock(p, t) => StockSLB[p][t] \in Nat
    BY DemandsAssumption DEF CanStock
  <2>4. QED
    BY <2>2, <2>3
<1>5. QED
  BY <1>3, <1>4 DEF CapStays

LEMMA BalancedOnOthers ==
  ASSUME Allocation, Allocation', Balanced, CallMeans, SlbsDistinct, StockSLBStep \/ Call
  PROVE  Balanced'
<1>1. mode = "none" <=> pc \notin CommitPoints
  BY DEF Allocation, Reqs
<1>2. CallType
  BY DEF Allocation, Locals
<1> USE DEF CommitPoints
<1>3. ASSUME NEW m \in Materials, NEW t \in Periods, EnforceStockSLB(m, t)
      PROVE  Balanced'
  BY <1>3, BalancedOnEnforce
<1>4. ASSUME NEW m \in Materials, NEW t \in Periods, StockSLBEnforced(m, t)
      PROVE  Balanced'
  BY <1>4, BalancedOnEnforced
<1>5. CASE StockSLBsEnforced \/ FinishHeurAlloc
  <2>1. /\ pc \in {"slb", "idle"} /\ UNCHANGED <<supplyVol, shipVol, base, mode, call, netQty>>
    BY <1>5 DEF StockSLBsEnforced, FinishHeurAlloc, inputs, results, callVars
  <2>2. mode = "none" /\ call = NoCall
    BY <1>1, <1>2, <2>1 DEF CallType
  <2>3. Quiet
    BY <2>1, <2>2 DEF Quiet
  <2>4. NothingIsGot /\ NothingIsGot'
    BY <2>1, <2>2 DEF NothingIsGot, NoCall
  <2>5. CASE StockSLBsEnforced
    <3>1. pc = "slb" /\ pc' = "done" /\ slbs' = slbs /\ call' = call
      BY <2>5 DEF StockSLBsEnforced, results, callVars
    <3>2. CapStays
      BY <3>1, CapOfSame
    <3>3. QED
      BY <2>1, <2>3, <2>4, <3>2, BalancedOnNothing
  <2>6. CASE FinishHeurAlloc
    BY <2>1, <2>2, <2>3, <2>4, <2>6, CapOfFinish, BalancedOnNothing
  <2>7. QED
    BY <1>5, <2>5, <2>6
<1>6. ASSUME NEW d \in Demands, NEW t \in Periods, NEW v \in 1..MaxDesIncVol,
             IncHeurAlloc(d, t, v)
      PROVE  Balanced'
  <2>1. /\ pc = "idle" /\ pc' = "cmq" /\ UNCHANGED <<supplyVol, shipVol, base, mode>>
    BY <1>6 DEF IncHeurAlloc, inputs, results
  <2>2. PICK vol : vol = Min({v, DemandedIncVolUB(d, t)})
    OBVIOUS
  <2>3. PICK todo : todo = PeriodsToTry(d, t)
    OBVIOUS
  <2>4. /\ netQty' = vol
        /\ call' = [kind |-> "inc", demand |-> d, per |-> t, vol |-> vol, todo |-> todo]
    BY <1>6, <2>2, <2>3 DEF IncHeurAlloc
  <2>5. call = NoCall /\ mode = "none"
    BY <1>1, <1>2, <2>1 DEF CallType
  <2>6. NothingIsGot /\ NothingIsGot' /\ call.kind = "none" /\ call'.kind = "inc"
    BY <2>4, <2>5 DEF NothingIsGot, NoCall
  <2>7. Quiet
    BY <2>1, <2>5 DEF Quiet
  <2>8. \A q, u : Cap(q, u) = 0 /\ Cap(q, u)' = 0
    BY <2>1, <2>6, CapIs0, CapIs0Next
  <2>9. CapStays
    BY <2>8 DEF CapStays
  <2>10. QED
    BY <2>1, <2>6, <2>7, <2>9, BalancedOnNothing
<1>7. CASE StartHeurAlloc
  <2>1. /\ pc = "done" /\ pc' = "idle" /\ base' = InitMem(supplyVol) /\ supplyVol' = supplyVol
        /\ NoShipment' /\ mode' = mode /\ call' = call
    BY <1>7 DEF StartHeurAlloc, NoShipment, inputs, callVars
  <2>2. mode = "none" /\ call = NoCall
    BY <1>1, <1>2, <2>1 DEF CallType
  <2>3. Fresh'
    BY <2>1, <2>2 DEF Fresh, InitMem
  <2>4. QED
    BY <2>3, BalancedWhenFreshNext DEF FreshBalance
<1>8. QED
  BY <1>3, <1>4, <1>5, <1>6, <1>7 DEF StockSLBStep, Call

LEMMA BalancedOnStutter ==
  ASSUME Allocation, Allocation', Balanced, UNCHANGED vars PROVE Balanced'
<1>1. UNCHANGED <<call, netQty, slbs, top, search, mode, pc, ok>>
  BY DEF vars, results, callVars, commVars
<1>2. HeldStays
  BY BooksOfStutter
<1>3. AsksStay
  BY <1>1, AsksOfSame
<1>4. CapStays
  BY <1>1, CapOfSame
<1>5. InOrder' => InOrder
  BY <1>1 DEF InOrder
<1>6. QED
  BY <1>2, <1>3, <1>4, <1>5, RestOfStay, BalancedOnStay

\* The strengthening of the balance that is inductive.
Balancing == Bookkeeping /\ SlbsDistinct /\ NotAhead /\ Balanced

LEMMA BalancingInit == Init => Balancing
<1> SUFFICES ASSUME Init PROVE Balancing
  OBVIOUS
<1>1. Bookkeeping /\ Allocation
  BY BookkeepingInit, AllocationInit
<1>2. slbs = <<>> /\ pc = "idle"
  BY DEF Init
<1>3. SlbsDistinct
  BY <1>2 DEF SlbsDistinct, IsInjective
<1>4. NotAhead
  BY <1>2 DEF NotAhead, InCall, Trying, CommitPoints
<1>5. Fresh
  BY DEF Fresh, Init, NoShipment
<1>6. Balanced
  BY <1>1, <1>5, BalancedWhenFresh DEF FreshBalance
<1>7. QED
  BY <1>1, <1>3, <1>4, <1>6 DEF Balancing

LEMMA BalancingNext == BuildAheadIsOff /\ Balancing /\ [Next]_vars => Balancing'
<1> SUFFICES ASSUME BuildAheadIsOff, Balancing, [Next]_vars PROVE Balancing'
  OBVIOUS
<1>0. /\ Bookkeeping /\ SlbsDistinct /\ NotAhead /\ Balanced
      /\ Control /\ Allocation /\ ReqsWithin /\ CallMeans /\ CursorStarts
  BY DEF Balancing, Bookkeeping, Ledger
<1>1. Bookkeeping' /\ Allocation'
  <2>1. Bookkeeping'
    BY <1>0, BookkeepingNext
  <2>2. QED
    BY <2>1 DEF Bookkeeping
<1>2. SlbsDistinct' /\ NotAhead'
  BY <1>0, SlbsDistinctNext, NotAheadNext
<1>3. Balanced'
  <2>1. CASE UNCHANGED vars
    BY <1>0, <1>1, <2>1, BalancedOnStutter
  <2>2. CASE FillStep \/ ExplodeStep \/ UndoStep
    BY <1>0, <1>1, <2>2, BalancedOnCommit
  <2>3. CASE MaxQtyStep
    BY <1>0, <1>1, <2>3, BalancedOnMaxQty
  <2>4. CASE StockSLBStep \/ Call
    BY <1>0, <1>1, <2>4, BalancedOnOthers
  <2>5. QED
    BY <2>1, <2>2, <2>3, <2>4 DEF Next, Run
<1>4. QED
  BY <1>1, <1>2, <1>3 DEF Balancing

------------------------------------------------------------------------------

\* What was kept is the sum of what more was kept in each period.
LEMMA KeptInAll ==
  ASSUME NEW kept \in [Periods -> Int], NEW f,
         \A u \in Periods : f[u] = kept[u] - Before(kept, u)
  PROVE  \A t \in Periods : SumFunctionOnSet(f, 0..t) = kept[t]
<1>1. ASSUME NEW u \in Periods PROVE f[u] \in Int /\ Before(kept, u) \in Int
  <2>1. u = 0 \/ u - 1 \in Periods
    BY NumberOfPeriods
  <2>2. Before(kept, u) \in Int /\ kept[u] \in Int
    BY <2>1 DEF Before
  <2>3. QED
    BY <2>2
<1> DEFINE bad == {t \in Periods : SumFunctionOnSet(f, 0..t) # kept[t]}
<1>2. bad = {}
  <2> SUFFICES ASSUME bad # {} PROVE FALSE
    OBVIOUS
  <2>1. bad \in SUBSET Nat
    BY NumberOfPeriods
  <2>2. PICK t \in bad : \A u \in bad : t <= u
    BY <2>1, NatMin
  <2>3. t \in Periods /\ t \in Nat
    BY <2>1, <2>2
  <2>4. f[t] = kept[t] - Before(kept, t) /\ kept[t] \in Int /\ Before(kept, t) \in Int
    BY <1>1, <2>3
  <2>5. SumFunctionOnSet(f, 0..t) = f[t] + UpTo(f, t)
    BY <1>1, <2>3, SumUpTo
  <2>6. UpTo(f, t) = Before(kept, t)
    <3>1. CASE t = 0
      BY <3>1 DEF UpTo, Before
    <3>2. CASE t # 0
      <4>1. t - 1 \in Periods /\ ~(t <= t - 1)
        BY <2>3, <3>2, NumberOfPeriods
      <4>2. t - 1 \notin bad
        BY <2>2, <4>1
      <4>3. QED
        BY <3>2, <4>1, <4>2 DEF UpTo, Before
    <3>3. QED
      BY <3>1, <3>2
  <2>7. SumFunctionOnSet(f, 0..t) = kept[t]
    BY <2>4, <2>5, <2>6
  <2>8. QED
    BY <2>2, <2>7
<1>3. QED
  BY <1>2

LEMMA BalanceAtRest ==
  ASSUME Balancing, Idle, NEW p \in Parts, NEW t \in Periods
  PROVE  Withheld[p][t] \in
           0..(IF pc = "done" /\ CanStock(p, t) THEN StockSLB[p][t] ELSE 0)
<1>1. /\ Bookkeeping /\ Balanced /\ Allocation /\ CallType
  BY DEF Balancing, Bookkeeping, Allocation, Locals
<1>2. Allocation /\ AtRest
  BY <1>1, IdleIsAtRest
<1>3. call = NoCall /\ mode = "none" /\ pc # "fatal"
  BY <1>1, <1>2 DEF CallType, Idle, AtRest
<1>4. PICK kept : Keeps(p, kept)
  BY <1>1, <1>3 DEF Balanced, InOrder
<1>5. kept \in [Periods -> Int]
  BY <1>4 DEF Keeps
<1>6. PICK f : f = [u \in Periods |-> LeftBySoln[p][u] - IncAvailVol(soln, p, u)]
  OBVIOUS
<1>7. ASSUME NEW u \in Periods PROVE f[u] = kept[u] - Before(kept, u)
  <2>1. f[u] = Held(p, u) /\ Held(p, u) \in Int
    BY <1>2, <1>6, HeldAtRest, RestIsInt
  <2>2. Asks(p, u) = 0
    BY <1>2, <1>3, NoAsks DEF NothingIsGot, NoCall
  <2>3. Rest(p, u) = Held(p, u)
    BY <2>1, <2>2 DEF Rest
  <2>4. QED
    BY <1>4, <2>1, <2>3 DEF Keeps
<1>8. SumFunctionOnSet(f, 0..t) = kept[t]
  BY <1>5, <1>7, KeptInAll
<1>9. Withheld[p][t] = TotalOf(f, 0..t)
  BY <1>6 DEF Withheld
<1>10. Withheld[p][t] = kept[t] /\ kept[t] \in Int
  BY <1>5, <1>8, <1>9, TotalOfIs
<1>11. kept[t] >= 0 /\ kept[t] <= Cap(p, t)
  BY <1>4 DEF Keeps
<1>12. PICK c \in Int : c = IF pc = "done" /\ CanStock(p, t) THEN StockSLB[p][t] ELSE 0
  <2>1. CanStock(p, t) => StockSLB[p][t] \in Int
    BY DemandsAssumption DEF CanStock
  <2>2. QED
    BY <2>1
<1>13. Cap(p, t) = 0 \/ Cap(p, t) = c - 0
  <2>1. ~Reserving(p, t) /\ call.kind # "slb" /\ pc # "slb"
    BY <1>3 DEF Reserving, NoCall, Idle
  <2>2. QED
    BY <1>12, <2>1 DEF Cap
<1>14. c >= 0
  <2>1. CanStock(p, t) => StockSLB[p][t] >= 0
    BY DemandsAssumption DEF CanStock
  <2>2. QED
    BY <1>12, <2>1
<1>15. kept[t] \in 0..c
  BY <1>10, <1>11, <1>13, <1>14
<1>16. QED
  BY <1>10, <1>12, <1>15

\* Where no demand may be built ahead, the availability schedule offers
\* exactly what the solution leaves, period by period, but for what finish()
\* has put into stock: of each material at most its stock bound.
THEOREM ScheduleStaysBalance == BuildAheadIsOff => (Spec => []ScheduleIsBalance)
<1>1. Balancing => ScheduleIsBalance
  BY BalanceAtRest DEF ScheduleIsBalance
<1>2. ASSUME BuildAheadIsOff PROVE Spec => []ScheduleIsBalance
  <2>1. Balancing /\ [Next]_vars => Balancing'
    BY <1>2, BalancingNext
  <2>2. QED
    BY <1>1, <2>1, BalancingInit, PTL DEF Spec
<1>3. QED
  BY <1>2

==============================================================================
