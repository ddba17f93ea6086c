--------------------------- MODULE FindMandECsProofs ---------------------------
(***************************************************************************)
(* Proofs about FindMandECs, for every network and every choice of the     *)
(* windows of the mandatory engineering changes:                           *)
(*                                                                         *)
(*   MarksStayJustified         no material is marked without a reason;    *)
(*   ObsoleteStockIsPrevented   what the propagation is for.               *)
(*                                                                         *)
(* The scan of propMandECs goes on, for each marked period, from where it  *)
(* stopped for the period after it.  PropMarksFacts says that nothing is   *)
(* passed over by that: for each marked period it finds the last period in *)
(* which the entry can consume by then.  The first theorem follows because *)
(* the reasons for a mark never go away.  The second needs the invariant   *)
(* ScannedAreClosed: an entry whose scan is over has marked all it must,   *)
(* and, the bills being sorted, no later scan of the pass marks a material *)
(* that it consumes.                                                       *)
(***************************************************************************)
EXTENDS FindMandECs, SequenceTheorems, WellFoundedInduction, TLAPS

-------------------------------------------------------------------------------
(* Numbers. *)

\* Every non-empty set of natural numbers has a least element.
LEMMA NatMin ==
  ASSUME NEW T \in SUBSET Nat, T # {}
  PROVE  \E x \in T : \A y \in T : x <= y
  <1>1. PICK R : R = OpToRel(<, Nat)
    OBVIOUS
  <1>2. IsWellFoundedOn(R, Nat)
    BY <1>1, NatLessThanWellFounded
  <1>3. PICK x \in T : \A y \in T : ~(<<y, x>> \in R)
    BY <1>2, WFMin
  <1>4. ASSUME NEW y \in T PROVE x <= y
    <2>1. y < x => <<y, x>> \in R
      BY <1>1 DEF OpToRel
    <2>2. x \in Nat /\ y \in Nat
      OBVIOUS
    <2> QED
      BY <1>3, <2>1, <2>2
  <1> QED
    BY <1>4

Marks == Periods \cup {-1}

\* A set of periods has a last one, which Max picks.
LEMMA MaxFacts ==
  ASSUME NEW S \in SUBSET Marks, S # {}
  PROVE  /\ Max(S) \in S /\ \A x \in S : x <= Max(S)
         /\ \A y \in S : (\A x \in S : x <= y) => y = Max(S)
  <1>1. NPeriods \in Nat
    BY ListsAssumption
  <1>2. \A x \in S : x \in Int /\ NPeriods - x \in Nat
    BY <1>1 DEF Marks, Periods
  <1>3. PICK T : T = {NPeriods - x : x \in S}
    OBVIOUS
  <1>4. T \in SUBSET Nat /\ T # {}
    BY <1>2, <1>3
  <1>5. PICK n \in T : \A m \in T : n <= m
    BY <1>4, NatMin
  <1>6. PICK x \in S : n = NPeriods - x
    BY <1>3
  <1>7. ASSUME NEW y \in S PROVE x >= y
    <2>1. NPeriods - y \in T
      BY <1>3
    <2> QED
      BY <1>1, <1>2, <1>5, <1>6, <2>1
  <1>8. Max(S) \in S /\ \A y \in S : Max(S) >= y
    BY <1>7 DEF Max
  <1>9. ASSUME NEW y \in S, \A z \in S : z <= y PROVE y = Max(S)
    <2>1. y <= Max(S) /\ Max(S) <= y
      BY <1>2, <1>8, <1>9
    <2> QED
      BY <1>2, <1>8, <2>1
  <1> QED
    BY <1>2, <1>8, <1>9

-------------------------------------------------------------------------------
(* The scan of propMandECs: what it finds for a marked period is the last     *)
(* period in which the entry can consume by then.                             *)

ConsEntries == BomEntries \cup SubEntries

\* The execution periods of entry c that consume by period t.
Hit(c, t) == {u \in Periods : InEffect(c, u) /\ Impact[c][u] <= t}

LEMMA PeriodFacts ==
  /\ NPeriods \in Nat /\ NPeriods >= 1
  /\ \A t : t \in Periods <=> t \in Int /\ 0 <= t /\ t <= NPeriods - 1
  /\ \A t : t \in Marks <=> t \in Int /\ -1 <= t /\ t <= NPeriods - 1
  BY ListsAssumption DEF Periods, Marks

LEMMA ImpactType == Impact \in [Entries -> [Periods -> Marks]]
  <1>1. RawImpact \in [Entries -> [Periods -> Marks]]
    <2>1. ASSUME NEW t PROVE t \in -1..(NPeriods - 1) <=> t \in Marks
      BY PeriodFacts
    <2>2. -1..(NPeriods - 1) = Marks
      BY <2>1
    <2> QED
      BY <2>2, ListsAssumption DEF Entries, Periods
  <1>2. ASSUME NEW e \in Entries, NEW t \in Periods
        PROVE  RawImpact[e][t] \in Marks /\ -1 \in Marks
    BY <1>1 DEF Marks
  <1>3. 0..(NPeriods - 1) = Periods /\ BomEntries \cup SubEntries \cup BopEntries = Entries
    BY DEF Periods, Entries
  <1> QED
    BY <1>2, <1>3 DEF Impact

LEMMA LastExecFacts ==
  ASSUME NEW c \in ConsEntries, NEW t \in Periods
  PROVE  /\ LastExec(c, t) \in {-1} \cup Hit(c, t)
         /\ \A u \in Hit(c, t) : u <= LastExec(c, t)
         /\ Hit(c, t) = {} => LastExec(c, t) = -1
         /\ Hit(c, t) # {} => LastExec(c, t) = Max(Hit(c, t))
  <1>1. PICK H : H = Hit(c, t)
    OBVIOUS
  <1>2. H \in SUBSET Periods
    BY <1>1 DEF Hit
  <1>3. PICK S : S = {-1} \cup H
    OBVIOUS
  <1>4. S \in SUBSET Marks /\ S # {}
    BY <1>2, <1>3 DEF Marks
  <1>5. LastExec(c, t) = Max(S)
    BY <1>1, <1>3 DEF LastExec, Hit
  <1>6. Max(S) \in S /\ \A x \in S : x <= Max(S)
    BY <1>4, MaxFacts
  <1>7. ASSUME H # {} PROVE Max(S) = Max(H)
    <2>1. H \in SUBSET Marks
      BY <1>2 DEF Marks
    <2>2. PICK m : m = Max(H)
      OBVIOUS
    <2>3. m \in H /\ \A x \in H : x <= m
      BY <1>7, <2>1, <2>2, MaxFacts
    <2>4. m \in S /\ -1 <= m
      BY <1>2, <1>3, <2>3, PeriodFacts
    <2>5. \A x \in S : x <= m
      BY <1>3, <2>3, <2>4
    <2>6. m = Max(S)
      BY <1>4, <2>4, <2>5, MaxFacts
    <2> QED
      BY <2>2, <2>6
  <1> QED
    BY <1>1, <1>3, <1>5, <1>6, <1>7

\* The value of execPer after the iteration for period t, as the scan
\* computes it from the value f[t + 1] after the iteration before.
ScanStep(c, M, f, t) ==
  LET start == IF t = NPeriods - 1 THEN NPeriods - 1 ELSE f[t + 1]
      found == {u \in Hit(c, t) : u <= start}
  IN  IF <<PartOf[c], t>> \notin M THEN start
      ELSE IF found = {} THEN -1 ELSE Max(found)

\* Its value in closed form.
Later(c, M, t) == {u \in Periods : t <= u /\ <<PartOf[c], u>> \in M}
ScanValue(c, M, t) ==
  IF Later(c, M, t) = {} THEN NPeriods - 1
  ELSE LastExec(c, CHOOSE u \in Later(c, M, t) : \A v \in Later(c, M, t) : u <= v)

LEMMA ScanValueMarked ==
  ASSUME NEW c \in ConsEntries, NEW M, NEW t \in Periods, <<PartOf[c], t>> \in M
  PROVE  ScanValue(c, M, t) = LastExec(c, t)
  <1>1. PICK L : L = Later(c, M, t)
    OBVIOUS
  <1>2. t \in L /\ \A v \in L : t <= v /\ v \in Int
    BY <1>1, PeriodFacts DEF Later
  <1>3. \A u \in L : (\A v \in L : u <= v) => u = t
    BY <1>2
  <1>4. (CHOOSE u \in L : \A v \in L : u <= v) = t
    BY <1>2, <1>3
  <1> QED
    BY <1>1, <1>2, <1>4 DEF ScanValue

LEMMA ScanValueUnmarked ==
  ASSUME NEW c \in ConsEntries, NEW M, NEW t \in Periods, <<PartOf[c], t>> \notin M
  PROVE  ScanValue(c, M, t) =
           IF t = NPeriods - 1 THEN NPeriods - 1 ELSE ScanValue(c, M, t + 1)
  <1>1. Later(c, M, t) = Later(c, M, t + 1)
    <2>1. ASSUME NEW u \in Periods, <<PartOf[c], u>> \in M
          PROVE  t <= u <=> t + 1 <= u
      BY <2>1, PeriodFacts
    <2> QED
      BY <2>1 DEF Later
  <1>2. t = NPeriods - 1 => Later(c, M, t + 1) = {}
    BY PeriodFacts DEF Later
  <1> QED
    BY <1>1, <1>2 DEF ScanValue

\* Later periods leave the scan no earlier than where it must go on.
LEMMA ScanValueBounds ==
  ASSUME NEW c \in ConsEntries, NEW M, NEW t \in Periods, t # NPeriods - 1,
         NEW u \in Hit(c, t)
  PROVE  u <= ScanValue(c, M, t + 1)
  <1>1. PICK L : L = Later(c, M, t + 1)
    OBVIOUS
  <1>2. u \in Periods /\ u <= NPeriods - 1
    BY PeriodFacts DEF Hit
  <1>3. CASE L = {}
    BY <1>1, <1>2, <1>3 DEF ScanValue
  <1>4. CASE L # {}
    <2>1. L \in SUBSET Nat
      BY <1>1, PeriodFacts DEF Later
    <2>2. \E w \in L : \A v \in L : w <= v
      BY <1>4, <2>1, NatMin
    <2>3. PICK w : w = CHOOSE z \in L : \A v \in L : z <= v
      OBVIOUS
    <2>4. w \in L
      BY <2>2, <2>3
    <2>5. w \in Periods /\ t <= w
      BY <1>1, <2>4, PeriodFacts DEF Later
    <2>6. u \in Hit(c, w)
      <3>1. c \in Entries
        BY DEF ConsEntries, Entries
      <3>2. Impact[c][u] \in Marks
        BY <1>2, <3>1, ImpactType
      <3>3. InEffect(c, u) /\ Impact[c][u] <= t
        BY DEF Hit
      <3>4. Impact[c][u] <= w
        BY <2>5, <3>2, <3>3, PeriodFacts
      <3> QED
        BY <1>2, <3>3, <3>4 DEF Hit
    <2>7. u <= LastExec(c, w)
      BY <2>5, <2>6, LastExecFacts
    <2> QED
      BY <1>1, <1>4, <2>3, <2>7 DEF ScanValue
  <1> QED
    BY <1>3, <1>4

LEMMA ScanValueSteps ==
  ASSUME NEW c \in ConsEntries, NEW M, NEW t \in Periods, NEW f,
         t # NPeriods - 1 => f[t + 1] = ScanValue(c, M, t + 1)
  PROVE  ScanStep(c, M, f, t) = ScanValue(c, M, t)
  <1>1. PICK start : start = IF t = NPeriods - 1 THEN NPeriods - 1 ELSE f[t + 1]
    OBVIOUS
  <1>2. \A u \in Hit(c, t) : u <= start
    <2>1. CASE t = NPeriods - 1
      <3>1. \A u \in Hit(c, t) : u \in Periods
        BY DEF Hit
      <3> QED
        BY <1>1, <2>1, <3>1, PeriodFacts
    <2>2. CASE t # NPeriods - 1
      BY <1>1, <2>2, ScanValueBounds
    <2> QED
      BY <2>1, <2>2
  <1>3. {u \in Hit(c, t) : u <= start} = Hit(c, t)
    BY <1>2
  <1>4. ScanStep(c, M, f, t) = IF <<PartOf[c], t>> \notin M THEN start
                               ELSE IF Hit(c, t) = {} THEN -1 ELSE Max(Hit(c, t))
    BY <1>1, <1>3 DEF ScanStep
  <1>5. CASE <<PartOf[c], t>> \notin M
    BY <1>1, <1>4, <1>5, ScanValueUnmarked
  <1>6. CASE <<PartOf[c], t>> \in M
    BY <1>4, <1>6, ScanValueMarked, LastExecFacts
  <1> QED
    BY <1>5, <1>6

\* The recursive function of PropMarks is the closed form.
LEMMA ScanIsClosedForm ==
  ASSUME NEW c \in ConsEntries, NEW M
  PROVE  (CHOOSE f : f = [t \in Periods |-> ScanStep(c, M, f, t)])
           = [t \in Periods |-> ScanValue(c, M, t)]
  <1>1. PICK g : g = [t \in Periods |-> ScanValue(c, M, t)]
    OBVIOUS
  <1>2. g = [t \in Periods |-> ScanStep(c, M, g, t)]
    <2>1. ASSUME NEW t \in Periods PROVE ScanStep(c, M, g, t) = ScanValue(c, M, t)
      <3>1. t # NPeriods - 1 => t + 1 \in Periods
        BY PeriodFacts
      <3>2. t # NPeriods - 1 => g[t + 1] = ScanValue(c, M, t + 1)
        BY <1>1, <3>1
      <3> QED
        BY <3>2, ScanValueSteps
    <2> QED
      BY <1>1, <2>1
  <1>3. ASSUME NEW f, f = [t \in Periods |-> ScanStep(c, M, f, t)] PROVE f = g
    <2>1. ASSUME NEW t \in Periods, f[t] # ScanValue(c, M, t) PROVE FALSE
      <3>1. PICK D : D = {n \in Nat : /\ NPeriods - 1 - n \in Periods
                                      /\ f[NPeriods - 1 - n]
                                           # ScanValue(c, M, NPeriods - 1 - n)}
        OBVIOUS
      <3>2. NPeriods - 1 - t \in Nat /\ NPeriods - 1 - (NPeriods - 1 - t) = t
        BY PeriodFacts
      <3>3. D \in SUBSET Nat /\ NPeriods - 1 - t \in D
        BY <2>1, <3>1, <3>2
      <3>4. PICK n \in D : \A k \in D : n <= k
        BY <3>3, NatMin
      <3>5. PICK s : s = NPeriods - 1 - n
        OBVIOUS
      <3>6. n \in Nat /\ s \in Periods /\ f[s] # ScanValue(c, M, s)
        BY <3>1, <3>4, <3>5
      <3>7. ASSUME s # NPeriods - 1 PROVE f[s + 1] = ScanValue(c, M, s + 1)
        <4>1. s + 1 \in Periods /\ n - 1 \in Nat /\ NPeriods - 1 - (n - 1) = s + 1
          BY <3>5, <3>6, <3>7, PeriodFacts
        <4>2. n - 1 \notin D
          BY <3>4, <3>6
        <4> QED
          BY <3>1, <4>1, <4>2
      <3>8. ScanStep(c, M, f, s) = ScanValue(c, M, s)
        BY <3>6, <3>7, ScanValueSteps
      <3>9. f[s] = ScanStep(c, M, f, s)
        BY <1>3, <3>6
      <3> QED
        BY <3>6, <3>8, <3>9
    <2>2. \A t \in Periods : f[t] = ScanValue(c, M, t)
      BY <2>1
    <2>3. f = [t \in Periods |-> f[t]]
      BY <1>3
    <2> QED
      BY <1>1, <2>2, <2>3
  <1> QED
    BY <1>1, <1>2, <1>3

\* What the scan of one consuming entry marks.
LEMMA PropMarksFacts ==
  ASSUME NEW c \in ConsEntries, NEW M
  PROVE  PropMarks(c, M) =
           IF PartOf[c] \notin Materials THEN {}
           ELSE UNION {MarksOf(OpnOf[c], LastExec(c, t)) :
                         t \in {u \in Periods : /\ <<PartOf[c], u>> \in M
                                                /\ LastExec(c, u) >= 0}}
  <1>1. PICK f : f = CHOOSE h : h = [t \in Periods |-> ScanStep(c, M, h, t)]
    OBVIOUS
  <1>2. f = [t \in Periods |-> ScanValue(c, M, t)]
    BY <1>1, ScanIsClosedForm
  <1>3. PropMarks(c, M) =
          IF PartOf[c] \notin Materials THEN {}
          ELSE UNION {MarksOf(OpnOf[c], f[t]) :
                        t \in {u \in Periods : <<PartOf[c], u>> \in M /\ f[u] >= 0}}
    BY <1>1 DEF PropMarks, ScanStep, Hit
  <1>4. ASSUME NEW u \in Periods, <<PartOf[c], u>> \in M
        PROVE  f[u] = LastExec(c, u)
    BY <1>2, <1>4, ScanValueMarked
  <1>5. PICK T : T = {u \in Periods : <<PartOf[c], u>> \in M /\ f[u] >= 0}
    OBVIOUS
  <1>6. T = {u \in Periods : <<PartOf[c], u>> \in M /\ LastExec(c, u) >= 0}
    BY <1>4, <1>5
  <1>7. \A t \in T : f[t] = LastExec(c, t)
    BY <1>4, <1>5
  <1>8. {MarksOf(OpnOf[c], f[t]) : t \in T} = {MarksOf(OpnOf[c], LastExec(c, t)) : t \in T}
    BY <1>7
  <1> QED
    BY <1>3, <1>5, <1>6, <1>8

-------------------------------------------------------------------------------
(* MarksAreJustified: every mark has a reason. *)

LEMMA SeqElements ==
  ASSUME NEW S, NEW s \in Seq(S)
  PROVE  ToSet(s) \subseteq S /\ Len(s) \in Nat /\ DOMAIN s = 1..Len(s)
  BY DEF ToSet

LEMMA BillElements ==
  /\ \A o \in Operations : ToSet(Bop[o]) \subseteq BopEntries
  /\ \A o \in Operations : ToSet(Bom[o]) \subseteq BomEntries
  /\ \A b \in BomEntries : ToSet(Subs[b]) \subseteq SubEntries
  <1>1. ASSUME NEW o \in Operations
        PROVE  ToSet(Bop[o]) \subseteq BopEntries /\ ToSet(Bom[o]) \subseteq BomEntries
    <2>1. Bop[o] \in Seq(BopEntries) /\ Bom[o] \in Seq(BomEntries)
      BY ListsAssumption
    <2> QED
      BY <2>1, SeqElements
  <1>2. ASSUME NEW b \in BomEntries PROVE ToSet(Subs[b]) \subseteq SubEntries
    <2>1. Subs[b] \in Seq(SubEntries)
      BY ListsAssumption
    <2> QED
      BY <2>1, SeqElements
  <1> QED
    BY <1>1, <1>2

\* A consuming entry belongs to the bill of its operation.
LEMMA ConsOwner ==
  ASSUME NEW c \in ConsEntries
  PROVE  OpnOf[c] \in Operations /\ c \in ConsOf(OpnOf[c])
  <1>1. CASE c \in BomEntries
    BY <1>1, OwnersAssumption DEF ConsOf
  <1>2. CASE c \in SubEntries
    <2>1. PICK b \in BomEntries : c \in ToSet(Subs[b])
      BY <1>2, OwnersAssumption
    <2>2. /\ OpnOf[b] \in Operations /\ b \in ToSet(Bom[OpnOf[b]])
          /\ OpnOf[c] = OpnOf[b]
      BY <2>1, OwnersAssumption
    <2> QED
      BY <2>1, <2>2 DEF ConsOf
  <1> QED
    BY <1>1, <1>2 DEF ConsEntries

WindowType == window \in [EcEntries -> [from : Periods, to : Periods]]
MarksType  == marks \subseteq Materials \X Periods

LEMMA MarksOfFacts ==
  ASSUME NEW o \in Operations, NEW t \in Periods
  PROVE  /\ MarksOf(o, t) \subseteq Materials \X Periods
         /\ \A mark \in MarksOf(o, t) :
              \E e \in BopEntries : /\ e \in ToSet(Bop[o]) /\ OpnOf[e] = o
                                    /\ PartOf[e] = mark[1] /\ Impact[e][t] = mark[2]
  <1>1. SUFFICES ASSUME NEW mark \in MarksOf(o, t)
        PROVE  /\ mark \in Materials \X Periods
               /\ \E e \in BopEntries : /\ e \in ToSet(Bop[o]) /\ OpnOf[e] = o
                                        /\ PartOf[e] = mark[1] /\ Impact[e][t] = mark[2]
    OBVIOUS
  <1>2. PICK e \in {f \in ToSet(Bop[o]) : PartOf[f] \in Materials /\ InEffect(f, t)} :
          mark = <<PartOf[e], Impact[e][t]>>
    BY <1>1 DEF MarksOf
  <1>3. e \in ToSet(Bop[o]) /\ OpnOf[e] = o
    BY <1>2, OwnersAssumption
  <1>4. e \in BopEntries /\ e \in Entries
    BY <1>3, BillElements DEF Entries
  <1>5. Impact[e][t] \in Marks /\ Impact[e][t] >= 0
    BY <1>2, <1>4, ImpactType DEF InEffect
  <1>6. Impact[e][t] \in Periods
    BY <1>5, PeriodFacts
  <1> QED
    BY <1>2, <1>3, <1>4, <1>6

\* An operation incurs a change in the period of each direct mark.
LEMMA DirectMarksFacts ==
  ASSUME WindowType, NEW b \in EcEntries
  PROVE  \A mark \in DirectMarks(b) :
           \E u \in Periods : mark \in MarksOf(OpnOf[b], u) /\ DirectlyIncurs(OpnOf[b], u)
  <1>1. b \in BomEntries
    BY ListsAssumption
  <1>2. b \in ToSet(Bom[OpnOf[b]])
    BY <1>1, OwnersAssumption
  <1>3. window[b] \in [from : Periods, to : Periods]
    BY DEF WindowType
  <1>4. From(b) \in Periods /\ To(b) \in Periods
    BY <1>3 DEF From, To
  <1>5. PICK before, after :
           /\ before = IF From(b) > 0 THEN {From(b) - 1} ELSE {}
           /\ after = IF To(b) < NPeriods - 1 THEN {To(b)} ELSE {}
    OBVIOUS
  <1>6. DirectMarks(b) = UNION {MarksOf(OpnOf[b], t) : t \in before \cup after}
    BY <1>1, <1>5 DEF DirectMarks
  <1>7. ASSUME NEW t \in before \cup after
        PROVE  /\ t \in Periods /\ t # NPeriods - 1
               /\ t = From(b) - 1 \/ t = To(b)
    <2>1. CASE t \in before
      <3>1. From(b) > 0 /\ t = From(b) - 1
        BY <1>5, <2>1
      <3> QED
        BY <1>4, <3>1, PeriodFacts
    <2>2. CASE t \in after
      <3>1. To(b) < NPeriods - 1 /\ t = To(b)
        BY <1>5, <2>2
      <3> QED
        BY <1>4, <3>1, PeriodFacts
    <2> QED
      BY <2>1, <2>2
  <1>8. ASSUME NEW t \in before \cup after PROVE DirectlyIncurs(OpnOf[b], t)
    BY <1>2, <1>7 DEF DirectlyIncurs
  <1> QED
    BY <1>6, <1>7, <1>8

\* An operation incurs a change in the period of each propagated mark.
LEMMA PropagatedFacts ==
  ASSUME NEW c \in ConsEntries
  PROVE  \A mark \in PropMarks(c, marks) :
           \E u \in Periods : /\ mark \in MarksOf(OpnOf[c], u)
                              /\ IncursFrom(ConsEntries, OpnOf[c], u)
  <1>1. SUFFICES ASSUME NEW mark \in PropMarks(c, marks)
                 PROVE  \E u \in Periods : /\ mark \in MarksOf(OpnOf[c], u)
                                           /\ IncursFrom(ConsEntries, OpnOf[c], u)
    OBVIOUS
  <1>2. PICK t \in {u \in Periods : <<PartOf[c], u>> \in marks /\ LastExec(c, u) >= 0} :
          mark \in MarksOf(OpnOf[c], LastExec(c, t))
    <2>1. PropMarks(c, marks) =
           IF PartOf[c] \notin Materials THEN {}
           ELSE UNION {MarksOf(OpnOf[c], LastExec(c, t)) :
                         t \in {u \in Periods : /\ <<PartOf[c], u>> \in marks
                                                /\ LastExec(c, u) >= 0}}
      BY PropMarksFacts
    <2> QED
      BY <2>1
  <1>3. LastExec(c, t) \in Periods
    <2>1. LastExec(c, t) \in {-1} \cup Hit(c, t)
      BY <1>2, LastExecFacts
    <2>2. LastExec(c, t) # -1
      BY <1>2
    <2> QED
      BY <2>1, <2>2 DEF Hit
  <1>4. IncursFrom(ConsEntries, OpnOf[c], LastExec(c, t))
    BY <1>2, ConsOwner DEF IncursFrom
  <1> QED
    BY <1>2, <1>3, <1>4

Justified(mark) ==
  \E e \in BopEntries, u \in Periods :
     PartOf[e] = mark[1] /\ Impact[e][u] = mark[2] /\ Incurs(OpnOf[e], u)

\* The marks that one step adds are in range, and the step has a reason.
LEMMA ScanFacts ==
  ASSUME WindowType, Next
  PROVE  /\ window' = window
         /\ \E found : /\ marks' = marks \cup found
                       /\ found \subseteq Materials \X Periods
                       /\ \A mark \in found : Justified(mark)
  <1>1. ASSUME NEW o \in Operations, NEW u \in Periods, NEW mark \in MarksOf(o, u),
               Incurs(o, u)
        PROVE  mark \in Materials \X Periods /\ Justified(mark)
    <2>1. mark \in Materials \X Periods
      BY MarksOfFacts
    <2>2. PICK e \in BopEntries : /\ OpnOf[e] = o
                                  /\ PartOf[e] = mark[1] /\ Impact[e][u] = mark[2]
      BY MarksOfFacts
    <2> QED
      BY <1>1, <2>1, <2>2 DEF Justified
  <1>2. ASSUME NEW c \in ConsEntries, NEW mark \in PropMarks(c, marks)
        PROVE  mark \in Materials \X Periods /\ Justified(mark)
    <2>1. OpnOf[c] \in Operations
      BY ConsOwner
    <2>2. PICK u \in Periods : /\ mark \in MarksOf(OpnOf[c], u)
                               /\ IncursFrom(ConsEntries, OpnOf[c], u)
      BY <1>2, PropagatedFacts
    <2> QED
      BY <1>1, <2>1, <2>2 DEF Incurs, ConsEntries
  <1>3. ASSUME NEW b \in EcEntries, NEW mark \in DirectMarks(b)
        PROVE  mark \in Materials \X Periods /\ Justified(mark)
    <2>1. OpnOf[b] \in Operations
      BY ListsAssumption, OwnersAssumption
    <2>2. PICK u \in Periods : mark \in MarksOf(OpnOf[b], u) /\ DirectlyIncurs(OpnOf[b], u)
      BY <1>3, DirectMarksFacts
    <2> QED
      BY <1>1, <2>1, <2>2 DEF Incurs
  <1>4. ASSUME NEW b \in BomEntries, SetDirectMandECs(b)
        PROVE  /\ window' = window
               /\ \E found : /\ marks' = marks \cup found
                             /\ found \subseteq Materials \X Periods
                             /\ \A mark \in found : Justified(mark)
    <2>1. PICK found : found = IF b \in EcEntries THEN DirectMarks(b) ELSE {}
      OBVIOUS
    <2>2. window' = window /\ marks' = marks \cup found
      BY <1>4, <2>1 DEF SetDirectMandECs, Scan
    <2>3. \A mark \in found : mark \in Materials \X Periods /\ Justified(mark)
      BY <1>3, <2>1
    <2> QED
      BY <2>2, <2>3
  <1>5. ASSUME NEW c \in ConsEntries, PropBomMandECs(c) \/ PropSubMandECs(c)
        PROVE  /\ window' = window
               /\ \E found : /\ marks' = marks \cup found
                             /\ found \subseteq Materials \X Periods
                             /\ \A mark \in found : Justified(mark)
    <2>1. PICK found : found = PropMarks(c, marks)
      OBVIOUS
    <2>2. window' = window /\ marks' = marks \cup found
      BY <1>5, <2>1 DEF PropBomMandECs, PropSubMandECs, Scan
    <2>3. \A mark \in found : mark \in Materials \X Periods /\ Justified(mark)
      BY <1>2, <2>1
    <2> QED
      BY <2>2, <2>3
  <1> QED
    BY <1>4, <1>5 DEF Next, ConsEntries

\* What a step that leaves the windows alone does not change.
LEMMA Frame ==
  ASSUME window' = window
  PROVE  /\ Impact' = Impact
         /\ \A b : From(b)' = From(b) /\ To(b)' = To(b)
         /\ \A o, u : MarksOf(o, u)' = MarksOf(o, u)
         /\ \A c, t : LastExec(c, t)' = LastExec(c, t)
  <1>1. \A b : From(b)' = From(b) /\ To(b)' = To(b)
    BY DEF From, To
  <1>2. Impact' = Impact
    BY <1>1 DEF Impact
  <1> QED
    BY <1>1, <1>2 DEF MarksOf, LastExec, InEffect

LEMMA JustifiedForever ==
  ASSUME window' = window, marks \subseteq marks', NEW mark, Justified(mark)
  PROVE  Justified(mark)'
  <1>1. PICK e \in BopEntries, u \in Periods :
          PartOf[e] = mark[1] /\ Impact[e][u] = mark[2] /\ Incurs(OpnOf[e], u)
    BY DEF Justified
  <1>2. DirectlyIncurs(OpnOf[e], u) => DirectlyIncurs(OpnOf[e], u)'
    BY Frame DEF DirectlyIncurs
  <1>3. IncursFrom(BomEntries \cup SubEntries, OpnOf[e], u)
          => IncursFrom(BomEntries \cup SubEntries, OpnOf[e], u)'
    BY Frame DEF IncursFrom
  <1>4. Incurs(OpnOf[e], u)'
    BY <1>1, <1>2, <1>3 DEF Incurs
  <1> QED
    BY <1>1, <1>4, Frame DEF Justified

\* The inductive invariant: the windows and the marks are in range, and every
\* mark is justified by the marks there are.
IInv == WindowType /\ MarksType /\ MarksAreJustified

LEMMA IInvStep == IInv /\ [Next]_vars => IInv'
  <1>1. ASSUME IInv, Next PROVE IInv'
    <2>1. PICK found : /\ marks' = marks \cup found
                       /\ found \subseteq Materials \X Periods
                       /\ \A mark \in found : Justified(mark)
      BY <1>1, ScanFacts DEF IInv
    <2>2. window' = window
      BY <1>1, ScanFacts DEF IInv
    <2>3. WindowType'
      BY <1>1, <2>2 DEF IInv, WindowType
    <2>4. MarksType'
      BY <1>1, <2>1 DEF IInv, MarksType
    <2>5. \A mark \in marks' : Justified(mark)
      BY <1>1, <2>1 DEF IInv, MarksAreJustified, Justified
    <2>6. \A mark \in marks' : Justified(mark)'
      BY <2>1, <2>2, <2>5, JustifiedForever
    <2>7. MarksAreJustified'
      BY <2>6 DEF MarksAreJustified, Justified
    <2> QED
      BY <2>3, <2>4, <2>7 DEF IInv
  <1>2. ASSUME IInv, UNCHANGED vars PROVE IInv'
    <2>1. window' = window /\ marks' = marks
      BY <1>2 DEF vars
    <2>2. \A mark \in marks' : Justified(mark)'
      BY <1>2, <2>1, JustifiedForever DEF IInv, MarksAreJustified, Justified
    <2> QED
      BY <1>2, <2>1, <2>2 DEF IInv, WindowType, MarksType, MarksAreJustified, Justified
  <1> QED
    BY <1>1, <1>2

LEMMA IInvHolds == Spec => []IInv
  <1>1. Init => IInv
    BY DEF Init, IInv, WindowType, MarksType, MarksAreJustified
  <1> QED
    BY <1>1, IInvStep, PTL DEF Spec

\* No material is kept out of stock without a reason: whatever the network,
\* the windows of the changes and the order of the scans, findMandECs marks a
\* material in a period only if some operation makes it then in an execution
\* period in which the operation incurs a change, directly or through what it
\* consumes.
THEOREM MarksStayJustified == Spec => []MarksAreJustified
  <1>1. IInv => MarksAreJustified
    BY DEF IInv
  <1> QED
    BY <1>1, IInvHolds, PTL

-------------------------------------------------------------------------------
(* The order of the scans: every entry is scanned. *)

FlatStep(seqs, f, i) == IF i = 1 THEN seqs[i] ELSE f[i - 1] \o seqs[i]
IsFlat(seqs, n, f) == f = [i \in 1..n |-> FlatStep(seqs, f, i)]

LEMMA FlatExists ==
  ASSUME NEW seqs, NEW n \in Nat
  PROVE  \E f : IsFlat(seqs, n, f)
  <1>1. SUFFICES ASSUME ~ \E f : IsFlat(seqs, n, f) PROVE FALSE
    OBVIOUS
  <1>2. PICK D : D = {k \in Nat : ~ \E f : IsFlat(seqs, k, f)}
    OBVIOUS
  <1>3. D \in SUBSET Nat /\ D # {}
    BY <1>1, <1>2
  <1>4. PICK k \in D : \A j \in D : k <= j
    BY <1>3, NatMin
  <1>5. k \in Nat /\ ~ \E f : IsFlat(seqs, k, f)
    BY <1>2, <1>4
  <1>6. ASSUME k = 0 PROVE FALSE
    <2>1. PICK f : f = [i \in 1..0 |-> i]
      OBVIOUS
    <2>2. f = [i \in 1..0 |-> FlatStep(seqs, f, i)]
      BY <2>1
    <2> QED
      BY <1>5, <1>6, <2>2 DEF IsFlat
  <1>7. ASSUME k # 0 PROVE FALSE
    <2>1. k - 1 \in Nat /\ k - 1 \notin D
      BY <1>4, <1>5, <1>7
    <2>2. PICK f : IsFlat(seqs, k - 1, f)
      BY <1>2, <2>1
    <2>3. PICK g : g = [i \in 1..k |-> FlatStep(seqs, f, i)]
      OBVIOUS
    <2>4. ASSUME NEW i \in 1..(k - 1) PROVE g[i] = f[i]
      <3>1. i \in 1..k
        BY <1>5
      <3> QED
        BY <2>2, <2>3, <3>1 DEF IsFlat
    <2>5. ASSUME NEW i \in 1..k PROVE FlatStep(seqs, f, i) = FlatStep(seqs, g, i)
      <3>1. i # 1 => i - 1 \in 1..(k - 1)
        BY <1>5
      <3> QED
        BY <2>4, <3>1 DEF FlatStep
    <2>6. IsFlat(seqs, k, g)
      BY <2>3, <2>5 DEF IsFlat
    <2> QED
      BY <1>5, <2>6
  <1> QED
    BY <1>6, <1>7

LEMMA ConcatElements ==
  ASSUME NEW S, NEW s \in Seq(S), NEW r \in Seq(S)
  PROVE  s \o r \in Seq(S) /\ ToSet(s \o r) = ToSet(s) \cup ToSet(r)
  <1>1. /\ s \o r \in Seq(S) /\ Len(s \o r) = Len(s) + Len(r)
        /\ \A i \in 1..(Len(s) + Len(r)) :
             (s \o r)[i] = IF i <= Len(s) THEN s[i] ELSE r[i - Len(s)]
    BY ConcatProperties
  <1>2. Len(s) \in Nat /\ Len(r) \in Nat
    OBVIOUS
  <1>3. ASSUME NEW x \in ToSet(s \o r) PROVE x \in ToSet(s) \cup ToSet(r)
    <2>1. PICK i \in 1..(Len(s) + Len(r)) : x = (s \o r)[i]
      BY <1>1, SeqElements DEF ToSet
    <2>2. CASE i <= Len(s)
      <3>1. i \in DOMAIN s /\ x = s[i]
        BY <1>1, <1>2, <2>1, <2>2, SeqElements
      <3> QED
        BY <3>1 DEF ToSet
    <2>3. CASE ~(i <= Len(s))
      <3>1. i - Len(s) \in DOMAIN r /\ x = r[i - Len(s)]
        BY <1>1, <1>2, <2>1, <2>3, SeqElements
      <3> QED
        BY <3>1 DEF ToSet
    <2> QED
      BY <2>2, <2>3
  <1>4. ASSUME NEW x \in ToSet(s) PROVE x \in ToSet(s \o r)
    <2>1. PICK i \in 1..Len(s) : x = s[i]
      BY SeqElements DEF ToSet
    <2>2. i \in DOMAIN (s \o r) /\ (s \o r)[i] = s[i]
      BY <1>1, <1>2, <2>1, SeqElements
    <2> QED
      BY <2>1, <2>2 DEF ToSet
  <1>5. ASSUME NEW x \in ToSet(r) PROVE x \in ToSet(s \o r)
    <2>1. PICK i \in 1..Len(r) : x = r[i]
      BY SeqElements DEF ToSet
    <2>2. PICK j : j = Len(s) + i
      OBVIOUS
    <2>3. j \in 1..(Len(s) + Len(r)) /\ ~(j <= Len(s)) /\ j - Len(s) = i
      BY <1>2, <2>1, <2>2
    <2>4. j \in DOMAIN (s \o r) /\ (s \o r)[j] = r[i]
      BY <1>1, <2>3, SeqElements
    <2> QED
      BY <2>1, <2>4 DEF ToSet
  <1> QED
    BY <1>1, <1>3, <1>4, <1>5

\* A flattened sequence has the elements of the sequences it is made of.
LEMMA FlattenFacts ==
  ASSUME NEW S, NEW seqs \in Seq(Seq(S))
  PROVE  /\ FlattenSeq(seqs) \in Seq(S)
         /\ \A i \in DOMAIN seqs : ToSet(seqs[i]) \subseteq ToSet(FlattenSeq(seqs))
  <1>1. PICK n : n = Len(seqs)
    OBVIOUS
  <1>2. n \in Nat /\ DOMAIN seqs = 1..n /\ \A i \in 1..n : seqs[i] \in Seq(S)
    BY <1>1
  <1>3. CASE n = 0
    <2>1. FlattenSeq(seqs) = seqs
      BY <1>1, <1>3 DEF FlattenSeq
    <2>2. seqs = << >>
      BY <1>1, <1>3, EmptySeq
    <2>3. DOMAIN seqs = {}
      BY <1>2, <1>3
    <2> QED
      BY <2>1, <2>2, <2>3
  <1>4. CASE n # 0
    <2>1. PICK f : f = CHOOSE h : h = [i \in 1..n |-> FlatStep(seqs, h, i)]
      OBVIOUS
    <2>2. f = [i \in 1..n |-> FlatStep(seqs, f, i)]
      BY <1>2, <2>1, FlatExists DEF IsFlat
    <2>3. FlattenSeq(seqs) = f[n]
      BY <1>1, <1>4, <2>1 DEF FlattenSeq, FlatStep
    <2>4. PICK D : D = {k \in 1..n : ~ /\ f[k] \in Seq(S)
                                       /\ \A i \in 1..k : ToSet(seqs[i]) \subseteq ToSet(f[k])}
      OBVIOUS
    <2>5. ASSUME D # {} PROVE FALSE
      <3>1. D \in SUBSET Nat
        BY <2>4
      <3>2. PICK k \in D : \A j \in D : k <= j
        BY <2>5, <3>1, NatMin
      <3>3. k \in 1..n /\ k \in Nat
        BY <2>4, <3>2
      <3>4. ~ /\ f[k] \in Seq(S)
              /\ \A i \in 1..k : ToSet(seqs[i]) \subseteq ToSet(f[k])
        BY <2>4, <3>2
      <3>5. CASE k = 1
        <4>1. f[k] = seqs[k]
          BY <2>2, <3>3, <3>5 DEF FlatStep
        <4>2. \A i \in 1..k : i = k
          BY <3>5
        <4> QED
          BY <1>2, <3>3, <3>4, <4>1, <4>2
      <3>6. CASE k # 1
        <4>1. k - 1 \in 1..n /\ k - 1 \notin D
          BY <1>2, <3>2, <3>3, <3>6
        <4>2. /\ f[k - 1] \in Seq(S)
              /\ \A i \in 1..(k - 1) : ToSet(seqs[i]) \subseteq ToSet(f[k - 1])
          BY <2>4, <4>1
        <4>3. f[k] = f[k - 1] \o seqs[k]
          BY <2>2, <3>3, <3>6 DEF FlatStep
        <4>4. f[k] \in Seq(S) /\ ToSet(f[k]) = ToSet(f[k - 1]) \cup ToSet(seqs[k])
          BY <1>2, <3>3, <4>2, <4>3, ConcatElements
        <4>5. \A i \in 1..k : i = k \/ i \in 1..(k - 1)
          BY <3>3
        <4> QED
          BY <3>4, <4>2, <4>4, <4>5
      <3> QED
        BY <3>5, <3>6
    <2>6. n \in 1..n
      BY <1>2, <1>4
    <2>7. /\ f[n] \in Seq(S)
          /\ \A i \in 1..n : ToSet(seqs[i]) \subseteq ToSet(f[n])
      BY <2>4, <2>5, <2>6
    <2> QED
      BY <1>2, <2>3, <2>7
  <1> QED
    BY <1>3, <1>4

LEMMA BomOrderFacts ==
  BomOrder \in Seq(BomEntries) /\ BomEntries \subseteq ToSet(BomOrder)
  <1>1. PICK n \in Nat : n = Len(SortedOpns)
    BY ListsAssumption
  <1>2. DOMAIN SortedOpns = 1..n /\ \A i \in 1..n : SortedOpns[i] \in Operations
    BY <1>1, ListsAssumption
  <1>3. PICK seqs : seqs = [i \in DOMAIN SortedOpns |-> Bom[SortedOpns[i]]]
    OBVIOUS
  <1>4. \A i \in 1..n : Bom[SortedOpns[i]] \in Seq(BomEntries)
    BY <1>2, ListsAssumption
  <1>5. seqs \in [1..n -> Seq(BomEntries)]
    BY <1>2, <1>3, <1>4
  <1>6. seqs \in Seq(Seq(BomEntries)) /\ DOMAIN seqs = 1..n
    BY <1>5
  <1>7. BomOrder = FlattenSeq(seqs)
    BY <1>3 DEF BomOrder
  <1>8. BomOrder \in Seq(BomEntries)
    BY <1>6, <1>7, FlattenFacts
  <1>9. ASSUME NEW b \in BomEntries PROVE b \in ToSet(BomOrder)
    <2>1. OpnOf[b] \in ToSet(SortedOpns) /\ b \in ToSet(Bom[OpnOf[b]])
      BY ListsAssumption, OwnersAssumption
    <2>2. PICK i \in 1..n : OpnOf[b] = SortedOpns[i]
      BY <1>2, <2>1 DEF ToSet
    <2>3. b \in ToSet(seqs[i])
      BY <1>2, <1>3, <2>1, <2>2
    <2> QED
      BY <1>6, <1>7, <2>3, FlattenFacts
  <1> QED
    BY <1>8, <1>9

LEMMA SubOrderFacts ==
  SubOrder \in Seq(SubEntries) /\ SubEntries \subseteq ToSet(SubOrder)
  <1>1. PICK n \in Nat : n = Len(BomOrder)
    BY BomOrderFacts
  <1>2. DOMAIN BomOrder = 1..n /\ \A i \in 1..n : BomOrder[i] \in BomEntries
    BY <1>1, BomOrderFacts
  <1>3. PICK seqs : seqs = [i \in DOMAIN BomOrder |-> Subs[BomOrder[i]]]
    OBVIOUS
  <1>4. \A i \in 1..n : Subs[BomOrder[i]] \in Seq(SubEntries)
    BY <1>2, ListsAssumption
  <1>5. seqs \in [1..n -> Seq(SubEntries)]
    BY <1>2, <1>3, <1>4
  <1>6. seqs \in Seq(Seq(SubEntries)) /\ DOMAIN seqs = 1..n
    BY <1>5
  <1>7. SubOrder = FlattenSeq(seqs)
    BY <1>3 DEF SubOrder
  <1>8. SubOrder \in Seq(SubEntries)
    BY <1>6, <1>7, FlattenFacts
  <1>9. ASSUME NEW s \in SubEntries PROVE s \in ToSet(SubOrder)
    <2>1. PICK b \in BomEntries : s \in ToSet(Subs[b])
      BY OwnersAssumption
    <2>2. b \in ToSet(BomOrder)
      BY BomOrderFacts
    <2>3. PICK i \in 1..n : b = BomOrder[i]
      BY <1>2, <2>2 DEF ToSet
    <2>4. s \in ToSet(seqs[i])
      BY <1>2, <1>3, <2>1, <2>3
    <2> QED
      BY <1>6, <1>7, <2>4, FlattenFacts
  <1> QED
    BY <1>8, <1>9

-------------------------------------------------------------------------------
(* NoObsoleteStock: an entry that has been scanned stays closed. *)

\* What propMandECs has to mark for entry c is marked.
Closed(c) ==
  \A t \in Periods :
    <<PartOf[c], t>> \in marks /\ LastExec(c, t) >= 0
    => MarksOf(OpnOf[c], LastExec(c, t)) \subseteq marks

\* A step that marks no material of c keeps it closed.
LEMMA ClosedForever ==
  ASSUME window' = window, marks \subseteq marks', NEW c, Closed(c),
         \A t \in Periods : <<PartOf[c], t>> \in marks' => <<PartOf[c], t>> \in marks
  PROVE  Closed(c)'
  BY Frame DEF Closed

\* The scan of c closes it.
LEMMA ScanCloses ==
  ASSUME window' = window, NEW c \in ConsEntries, MarksType,
         marks' = marks \cup PropMarks(c, marks),
         \A t \in Periods : <<PartOf[c], t>> \in marks' => <<PartOf[c], t>> \in marks
  PROVE  Closed(c)'
  <1>1. SUFFICES ASSUME NEW t \in Periods, <<PartOf[c], t>> \in marks', LastExec(c, t) >= 0
                 PROVE  MarksOf(OpnOf[c], LastExec(c, t)) \subseteq marks'
    BY Frame DEF Closed
  <1>2. <<PartOf[c], t>> \in marks /\ PartOf[c] \in Materials
    BY <1>1 DEF MarksType
  <1>3. MarksOf(OpnOf[c], LastExec(c, t)) \subseteq PropMarks(c, marks)
    BY <1>1, <1>2, PropMarksFacts
  <1> QED
    BY <1>3

\* The scan of c marks only what the operation of c makes.
LEMMA ScanMarksProducts ==
  ASSUME NEW c \in ConsEntries, NEW mark \in PropMarks(c, marks)
  PROVE  \E e \in ToSet(Bop[OpnOf[c]]) : PartOf[e] = mark[1]
  <1>1. PICK u \in Periods : mark \in MarksOf(OpnOf[c], u)
    BY PropagatedFacts
  <1>2. OpnOf[c] \in Operations
    BY ConsOwner
  <1> QED
    BY <1>1, <1>2, MarksOfFacts

\* A pass in an order in which no entry makes what an entry before it, or
\* itself, consumes closes one entry after the other.
Orderly(order) ==
  \A j \in DOMAIN order : \A e \in ToSet(Bop[OpnOf[order[j]]]), i \in 1..j :
     PartOf[e] # PartOf[order[i]]

ClosedTo(order, n) == \A i \in 1..n : Closed(order[i])

LEMMA PassCloses ==
  ASSUME NEW S \in SUBSET ConsEntries, NEW order \in Seq(S), Orderly(order),
         window' = window, MarksType, NEW n \in Nat, n < Len(order),
         ClosedTo(order, n),
         marks' = marks \cup PropMarks(order[n + 1], marks)
  PROVE  ClosedTo(order, n + 1)'
  <1>1. n + 1 \in DOMAIN order /\ order[n + 1] \in ConsEntries
    OBVIOUS
  <1>2. ASSUME NEW i \in 1..(n + 1), NEW t \in Periods, <<PartOf[order[i]], t>> \in marks'
        PROVE  <<PartOf[order[i]], t>> \in marks
    <2>1. SUFFICES ASSUME <<PartOf[order[i]], t>> \in PropMarks(order[n + 1], marks)
                   PROVE  FALSE
      BY <1>2
    <2>2. PICK e \in ToSet(Bop[OpnOf[order[n + 1]]]) : PartOf[e] = PartOf[order[i]]
      BY <1>1, <2>1, ScanMarksProducts
    <2> QED
      BY <1>1, <2>2 DEF Orderly
  <1>3. ASSUME NEW i \in 1..n PROVE Closed(order[i])'
    <2>1. Closed(order[i]) /\ i \in 1..(n + 1)
      BY DEF ClosedTo
    <2> QED
      BY <1>2, <2>1, ClosedForever
  <1>4. Closed(order[n + 1])'
    BY <1>1, <1>2, ScanCloses
  <1>5. \A i \in 1..(n + 1) : i \in 1..n \/ i = n + 1
    OBVIOUS
  <1> QED
    BY <1>3, <1>4, <1>5 DEF ClosedTo

\* The entries that have been scanned in this pass, or in the pass before
\* when none has been scanned yet, are closed.
ScannedAreClosed ==
  /\ idx \in Nat
  /\ pass = "bom" => ClosedTo(BomOrder, idx)
  /\ pass = "sub" => ClosedTo(SubOrder, idx)
  /\ pass = "sub" /\ idx = 0 => ClosedTo(BomOrder, Len(BomOrder))
  /\ pass = "done" => ClosedTo(SubOrder, Len(SubOrder))

LEMMA ScannedInit == Init => ScannedAreClosed
  BY DEF Init, ScannedAreClosed

LEMMA ScannedStep ==
  ASSUME SortedBills, IInv, ScannedAreClosed, [Next]_vars
  PROVE  ScannedAreClosed'
  <1>1. Orderly(BomOrder) /\ Orderly(SubOrder)
    BY DEF SortedBills, Orderly
  <1>2. idx \in Nat /\ Len(BomOrder) \in Nat /\ Len(SubOrder) \in Nat
    BY BomOrderFacts, SubOrderFacts DEF ScannedAreClosed
  <1>3. ASSUME NEW b \in BomEntries, SetDirectMandECs(b) PROVE ScannedAreClosed'
    <2>1. \/ idx' = 0 /\ pass' = "bom"
          \/ idx' = idx + 1 /\ pass' = "direct"
      BY <1>3 DEF SetDirectMandECs, Scan
    <2>2. ClosedTo(BomOrder, 0)'
      BY DEF ClosedTo
    <2> QED
      BY <1>2, <2>1, <2>2 DEF ScannedAreClosed
  <1>4. ASSUME NEW b \in BomEntries, PropBomMandECs(b) PROVE ScannedAreClosed'
    <2>1. /\ window' = window /\ marks' = marks \cup PropMarks(BomOrder[idx + 1], marks)
          /\ idx < Len(BomOrder) /\ pass = "bom"
      BY <1>4 DEF PropBomMandECs, Scan
    <2>2. BomEntries \in SUBSET ConsEntries
      BY DEF ConsEntries
    <2>8. PICK n : n = idx
      OBVIOUS
    <2>3. ClosedTo(BomOrder, n + 1)'
      BY <1>1, <1>2, <2>1, <2>2, <2>8, BomOrderFacts, PassCloses DEF IInv, ScannedAreClosed
    <2>4. \/ idx + 1 = Len(BomOrder) /\ idx' = 0 /\ pass' = "sub"
          \/ idx' = idx + 1 /\ pass' = "bom"
      BY <1>4 DEF PropBomMandECs, Scan
    <2>5. ClosedTo(SubOrder, 0)'
      BY DEF ClosedTo
    <2>6. CASE idx + 1 = Len(BomOrder) /\ idx' = 0 /\ pass' = "sub"
      <3>1. ClosedTo(BomOrder, Len(BomOrder))'
        BY <2>3, <2>6, <2>8
      <3> QED
        BY <2>5, <2>6, <3>1 DEF ScannedAreClosed
    <2>7. CASE idx' = idx + 1 /\ pass' = "bom"
      BY <1>2, <2>3, <2>7, <2>8 DEF ScannedAreClosed
    <2> QED
      BY <2>4, <2>6, <2>7
  <1>5. ASSUME NEW s \in SubEntries, PropSubMandECs(s) PROVE ScannedAreClosed'
    <2>1. /\ window' = window /\ marks' = marks \cup PropMarks(SubOrder[idx + 1], marks)
          /\ idx < Len(SubOrder) /\ pass = "sub"
      BY <1>5 DEF PropSubMandECs, Scan
    <2>2. SubEntries \in SUBSET ConsEntries
      BY DEF ConsEntries
    <2>8. PICK n : n = idx
      OBVIOUS
    <2>3. ClosedTo(SubOrder, n + 1)'
      BY <1>1, <1>2, <2>1, <2>2, <2>8, SubOrderFacts, PassCloses DEF IInv, ScannedAreClosed
    <2>4. \/ idx + 1 = Len(SubOrder) /\ idx' = 0 /\ pass' = "done"
          \/ idx' = idx + 1 /\ pass' = "sub"
      BY <1>5 DEF PropSubMandECs, Scan
    <2>6. CASE idx + 1 = Len(SubOrder) /\ idx' = 0 /\ pass' = "done"
      <3>1. ClosedTo(SubOrder, Len(SubOrder))'
        BY <2>3, <2>6, <2>8
      <3> QED
        BY <2>6, <3>1 DEF ScannedAreClosed
    <2>7. CASE idx' = idx + 1 /\ pass' = "sub"
      BY <1>2, <2>3, <2>7, <2>8 DEF ScannedAreClosed
    <2> QED
      BY <2>4, <2>6, <2>7
  <1>6. ASSUME UNCHANGED vars PROVE ScannedAreClosed'
    <2>1. window' = window /\ marks' = marks /\ pass' = pass /\ idx' = idx
      BY <1>6 DEF vars
    <2>2. \A c : Closed(c) => Closed(c)'
      BY <2>1, Frame DEF Closed
    <2>3. \A order, n : ClosedTo(order, n) => ClosedTo(order, n)'
      BY <2>2 DEF ClosedTo
    <2> QED
      BY <2>1, <2>3 DEF ScannedAreClosed
  <1> QED
    BY <1>3, <1>4, <1>5, <1>6 DEF Next

\* In effect, an entry has its raw impact period.
LEMMA ImpactsIncrease ==
  ASSUME MonotoneImpacts, NEW e \in BopEntries, NEW t \in Periods, NEW u \in Periods,
         t <= u, InEffect(e, t), InEffect(e, u)
  PROVE  /\ Impact[e][t] <= Impact[e][u]
         /\ Impact[e][t] \in Periods /\ Impact[e][u] \in Periods
  <1>1. e \in Entries
    BY DEF Entries
  <1>2. ASSUME NEW v \in Periods, InEffect(e, v)
        PROVE  Impact[e][v] = RawImpact[e][v] /\ Impact[e][v] \in Periods
    <2>1. Impact[e][v] \in Marks /\ Impact[e][v] >= 0
      BY <1>1, <1>2, ImpactType DEF InEffect
    <2>2. Impact[e][v] \in Periods /\ Impact[e][v] # -1
      BY <2>1, PeriodFacts
    <2>3. Impact[e][v] = -1 \/ Impact[e][v] = RawImpact[e][v]
      BY <1>1 DEF Impact, Entries, Periods
    <2> QED
      BY <2>2, <2>3
  <1>3. RawImpact[e][t] >= 0 /\ RawImpact[e][u] >= 0
    BY <1>2, PeriodFacts
  <1> QED
    BY <1>2, <1>3 DEF MonotoneImpacts

LEMMA ClosedIsNotStocked ==
  ASSUME MonotoneImpacts, NEW C \in SUBSET ConsEntries, \A c \in C : Closed(c)
  PROVE  NotStockedVia(C)
  <1>1. SUFFICES ASSUME NEW c \in C, NEW t \in Periods,
                        <<PartOf[c], t>> \in marks, LastExec(c, t) >= 0,
                        NEW e \in ToSet(Bop[OpnOf[c]]), NEW u \in 0..LastExec(c, t),
                        PartOf[e] \in Materials, InEffect(e, LastExec(c, t)),
                        InEffect(e, u)
                 PROVE  \E v \in Impact[e][u]..Impact[e][LastExec(c, t)] :
                           <<PartOf[e], v>> \in marks
    BY DEF NotStockedVia
  <1>2. PICK last : last = LastExec(c, t)
    OBVIOUS
  <1>3. last \in Periods
    <2>1. last \in {-1} \cup Hit(c, t)
      BY <1>2, LastExecFacts
    <2>2. last # -1
      BY <1>1, <1>2
    <2> QED
      BY <2>1, <2>2 DEF Hit
  <1>4. u \in Periods /\ u <= last
    BY <1>2, <1>3, PeriodFacts
  <1>5. OpnOf[c] \in Operations
    BY ConsOwner
  <1>6. e \in BopEntries
    BY <1>5, BillElements
  <1>7. /\ Impact[e][u] <= Impact[e][last]
        /\ Impact[e][u] \in Periods /\ Impact[e][last] \in Periods
    BY <1>1, <1>2, <1>3, <1>4, <1>6, ImpactsIncrease
  <1>8. <<PartOf[e], Impact[e][last]>> \in MarksOf(OpnOf[c], last)
    BY <1>1, <1>2 DEF MarksOf
  <1>9. <<PartOf[e], Impact[e][last]>> \in marks
    BY <1>1, <1>2, <1>8 DEF Closed
  <1>10. Impact[e][last] \in Impact[e][u]..Impact[e][last]
    BY <1>7, PeriodFacts
  <1> QED
    BY <1>2, <1>9, <1>10

LEMMA ScannedIsNotStocked ==
  ASSUME MonotoneImpacts, ScannedAreClosed
  PROVE  NoObsoleteStock
  <1>1. ASSUME NEW S, NEW order \in Seq(S), NEW C \in SUBSET ToSet(order),
               ClosedTo(order, Len(order))
        PROVE  \A c \in C : Closed(c)
    <2>1. SUFFICES ASSUME NEW c \in C PROVE Closed(c)
      OBVIOUS
    <2>2. PICK i \in 1..Len(order) : c = order[i]
      BY SeqElements DEF ToSet
    <2> QED
      BY <1>1, <2>2 DEF ClosedTo
  <1>2. ASSUME pass = "sub", idx = 0 PROVE NotStockedVia(BomEntries)
    <2>1. \A c \in BomEntries : Closed(c)
      BY <1>1, <1>2, BomOrderFacts DEF ScannedAreClosed
    <2> QED
      BY <2>1, ClosedIsNotStocked DEF ConsEntries
  <1>3. ASSUME pass = "done" PROVE NotStockedVia(SubEntries)
    <2>1. \A c \in SubEntries : Closed(c)
      BY <1>1, <1>3, SubOrderFacts DEF ScannedAreClosed
    <2> QED
      BY <2>1, ClosedIsNotStocked DEF ConsEntries
  <1> QED
    BY <1>2, <1>3 DEF NoObsoleteStock

\* Material that is obsolete after a period is not kept beyond it by making a
\* product of it early: the propagation of findMandECs is complete for the
\* BOM entries when they have been scanned and for the substitutes in the
\* end, in every network whose bills are sorted and whose impact periods do
\* not decrease, which is what the comment before findMandECs relies on.
THEOREM ObsoleteStockIsPrevented ==
  ASSUME SortedBills, MonotoneImpacts
  PROVE  Spec => []NoObsoleteStock
  <1>1. Init => ScannedAreClosed
    BY ScannedInit
  <1>2. IInv /\ ScannedAreClosed /\ [Next]_vars => ScannedAreClosed'
    BY ScannedStep
  <1>3. ScannedAreClosed => NoObsoleteStock
    BY ScannedIsNotStocked
  <1> QED
    BY <1>1, <1>2, <1>3, IInvHolds, PTL DEF Spec
=============================================================================
