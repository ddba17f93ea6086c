-------------------------- MODULE HeurImplodeProofs --------------------------
(***************************************************************************)
(* What implosion and the equitable allocator do with the volumes they     *)
(* ask for, for all demands, periods, data, lists and sequences of calls:  *)
(* no volume is negative, the two books of what is unmet agree, priorities *)
(* are respected, demands of equal priority share a shortage and nothing   *)
(* is denied that could have been shipped, all but for less than a search  *)
(* increment, or for a period that is blocked.                             *)
(*                                                                         *)
(* The invariant is AllInv.  Facts about the operators of the model come   *)
(* first (volumes up to a period, bounds on a shipment, the rounds of a    *)
(* share, the order of priorities), then the invariant, one lemma per step,*)
(* and what follows.                                                       *)
(***************************************************************************)
EXTENDS HeurImplode, NumberFacts, SequenceTheorems

-------------------------------------------------------------------------------
(* Volumes that accumulate over the periods. *)

LastPer == NPeriods - 1

\* The periods are the integers from 0 to the last one.
LEMMA PeriodFacts ==
  /\ NPeriods \in Nat /\ NPeriods >= 1 /\ LastPer \in Periods
  /\ \A t : t \in Periods <=> t \in Int /\ 0 <= t /\ t <= LastPer
  /\ \A t \in Periods : t \in Nat
  BY PeriodsAssumption DEF Periods, LastPer

\* The periods up to a period.
LEMMA FirstPeriods ==
  ASSUME NEW t \in Periods
  PROVE  IsFiniteSet(0..t) /\ \A u \in 0..t : u \in Periods
  <1>1. t \in Int /\ 0 \in Int /\ t <= LastPer
    BY PeriodFacts
  <1>2. IsFiniteSet(0..t)
    BY <1>1, FS_Interval
  <1>3. ASSUME NEW u \in 0..t PROVE u \in Periods
    <2>1. u \in Int /\ 0 <= u /\ u <= t /\ LastPer \in Int
      BY <1>1, PeriodFacts
    <2>2. u <= LastPer
      BY <1>1, <2>1
    <2> QED
      BY <2>1, <2>2, PeriodFacts
  <1> QED
    BY <1>2, <1>3

\* A volume up to a period is that of the period and that up to the one before.
LEMMA UpToFacts ==
  ASSUME NEW f, \A t \in Periods : f[t] \in Int, NEW t \in Periods
  PROVE  /\ UpTo(f, t) \in Int
         /\ UpTo(f, t) = f[t] + UpTo(f, t - 1)
         /\ UpTo(f, -1) = 0
  <1>1. IsFiniteSet(0..t) /\ \A u \in 0..t : u \in Periods
    BY FirstPeriods
  <1>2. SumFact(f, 0..t)
    BY <1>1, SumFacts
  <1>3. t \in 0..t /\ (0..t) \ {t} = 0..(t - 1)
    BY PeriodFacts
  <1>4. 0..(-1) = {}
    OBVIOUS
  <1> QED
    BY <1>2, <1>3, <1>4, SumEmpty DEF UpTo, SumFact

\* What accumulates from natural numbers is a natural number.
LEMMA UpToNat ==
  ASSUME NEW f, \A t \in Periods : f[t] \in Nat, NEW t \in Periods
  PROVE  UpTo(f, t) \in Nat
  <1>1. IsFiniteSet(0..t) /\ \A u \in 0..t : u \in Periods
    BY FirstPeriods
  <1> QED
    BY <1>1, SumNat DEF UpTo

\* A volume of one period counts in that period and in later ones.
LEMMA UpToChange ==
  ASSUME NEW f, \A t \in Periods : f[t] \in Int, NEW g, NEW s \in Periods, NEW v \in Int,
         \A t \in Periods : g[t] = IF t = s THEN f[t] + v ELSE f[t],
         NEW t \in Periods
  PROVE  UpTo(g, t) = UpTo(f, t) + IF s <= t THEN v ELSE 0
  <1>1. IsFiniteSet(0..t) /\ \A u \in 0..t : u \in Periods
    BY FirstPeriods
  <1>2. s \in 0..t <=> s <= t
    BY PeriodFacts
  <1>3. \A u \in 0..t : f[u] \in Int
    BY <1>1
  <1>4. \A u \in 0..t : g[u] = IF u = s THEN f[u] + v ELSE f[u]
    BY <1>1
  <1>5. SumFunctionOnSet(g, 0..t) = SumFunctionOnSet(f, 0..t) + IF s \in 0..t THEN v ELSE 0
    BY <1>1, <1>3, <1>4, SumChange
  <1> QED
    BY <1>2, <1>5 DEF UpTo

\* A set of values of later periods has a least one.
LEMMA MinOverPeriods ==
  ASSUME NEW g, NEW t \in Periods, \A u \in t..(NPeriods - 1) : g[u] \in Int
  PROVE  /\ \E w \in t..(NPeriods - 1) : Min({g[u] : u \in t..(NPeriods - 1)}) = g[w]
         /\ \A u \in t..(NPeriods - 1) : Min({g[v] : v \in t..(NPeriods - 1)}) <= g[u]
         /\ Min({g[u] : u \in t..(NPeriods - 1)}) \in Int
  <1>1. PICK P : P = t..(NPeriods - 1)
    OBVIOUS
  <1>2. IsFiniteSet(P) /\ t \in P
    <2>1. t \in Int /\ NPeriods - 1 \in Int /\ t <= NPeriods - 1
      BY PeriodFacts DEF LastPer
    <2> QED
      BY <1>1, <2>1, FS_Interval
  <1>3. PICK S : S = {g[u] : u \in P}
    OBVIOUS
  <1>4. PICK h : h = [u \in P |-> g[u]]
    OBVIOUS
  <1>5. h \in Surjection(P, S)
    BY <1>3, <1>4 DEF Surjection
  <1>6. IsFiniteSet(S)
    BY <1>2, <1>5, FS_Surjection
  <1>7. ASSUME NEW x \in S PROVE x \in Int
    BY <1>1, <1>3
  <1>8. g[t] \in S
    BY <1>2, <1>3
  <1>9. S \in SUBSET Int /\ S # {}
    BY <1>7, <1>8
  <1>10. Min(S) \in S /\ \A y \in S : Min(S) <= y
    BY <1>6, <1>9, MinFacts
  <1>11. \E w \in P : Min(S) = g[w]
    BY <1>3, <1>10
  <1>12. \A u \in P : Min(S) <= g[u]
    BY <1>3, <1>10
  <1>13. Min(S) \in Int
    BY <1>9, <1>10
  <1> QED
    BY <1>1, <1>3, <1>11, <1>12, <1>13

-------------------------------------------------------------------------------
(* Supply, demand and shipments. *)

DataType ==
  data \in [demandVol : Schedules, priority : Schedules, supplyVol : [Periods -> Nat],
            equitability : Nat \ {0}, forcedMultiEq : BOOLEAN, skipFailures : BOOLEAN,
            userHeurStart : BOOLEAN]

\* The types of the data.
LEMMA DataFacts ==
  ASSUME DataType
  PROVE  /\ data.demandVol \in Schedules /\ data.priority \in Schedules
         /\ data.supplyVol \in [Periods -> Nat] /\ data.equitability \in Nat
         /\ data.equitability >= 1
         /\ \A d \in Demands, t \in Periods : data.demandVol[d][t] \in Nat
         /\ \A d \in Demands, t \in Periods : data.priority[d][t] \in Nat
         /\ \A t \in Periods : data.supplyVol[t] \in Nat
  BY DEF DataType, Schedules

\* The entries of a schedule.
LEMMA ScheduleEntry ==
  ASSUME NEW f \in Schedules
  PROVE  \A d \in Demands : /\ f[d] \in [Periods -> Nat]
                            /\ \A t \in Periods : f[d][t] \in Nat /\ f[d][t] \in Int
  BY DEF Schedules

\* A shipment is added to one demand and period.
LEMMA ShippedFacts ==
  ASSUME NEW ship \in Schedules, NEW d \in Demands, NEW t \in Periods, NEW vol \in Nat
  PROVE  /\ Shipped(ship, d, t, vol) \in Schedules
         /\ \A e \in Demands, u \in Periods :
              Shipped(ship, d, t, vol)[e][u]
                = IF e = d /\ u = t THEN ship[e][u] + vol ELSE ship[e][u]
         /\ \A e \in Demands : e # d => Shipped(ship, d, t, vol)[e] = ship[e]
  <1>1. ship[d][t] + vol \in Nat
    BY ScheduleEntry
  <1>2. ship[d] \in [Periods -> Nat]
    BY ScheduleEntry
  <1>3. [ship[d] EXCEPT ![t] = ship[d][t] + vol] \in [Periods -> Nat]
    BY <1>1, <1>2
  <1>4. Shipped(ship, d, t, vol)
          = [ship EXCEPT ![d] = [ship[d] EXCEPT ![t] = ship[d][t] + vol]]
    BY DEF Shipped
  <1> QED
    BY <1>1, <1>2, <1>3, <1>4 DEF Schedules

\* A shipment accumulates from its period on.
LEMMA ShippedUpTo ==
  ASSUME NEW ship \in Schedules, NEW d \in Demands, NEW t \in Periods, NEW vol \in Nat,
         NEW e \in Demands, NEW u \in Periods
  PROVE  UpTo(Shipped(ship, d, t, vol)[e], u)
           = UpTo(ship[e], u) + IF e = d /\ t <= u THEN vol ELSE 0
  <1>1. PICK g : g = Shipped(ship, d, t, vol)[e]
    OBVIOUS
  <1>2. PICK f : f = ship[e]
    OBVIOUS
  <1>3. \A v \in Periods : f[v] \in Int
    BY <1>2, ScheduleEntry
  <1>4. UpTo(f, u) \in Int
    BY <1>3, UpToFacts
  <1>5. CASE e # d
    <2>1. g = f
      BY <1>1, <1>2, <1>5, ShippedFacts
    <2> QED
      BY <1>1, <1>2, <1>4, <1>5, <2>1
  <1>6. CASE e = d
    <2>1. \A v \in Periods : g[v] = IF v = t THEN f[v] + vol ELSE f[v]
      BY <1>1, <1>2, <1>6, ShippedFacts
    <2>2. vol \in Int
      OBVIOUS
    <2>3. UpTo(g, u) = UpTo(f, u) + IF t <= u THEN vol ELSE 0
      BY <1>3, <2>1, <2>2, UpToChange
    <2> QED
      BY <1>1, <1>2, <1>6, <2>3
  <1> QED
    BY <1>5, <1>6

\* What supply leaves over is an integer, maybe a negative one.
LEMMA LeftOverType ==
  ASSUME DataType, NEW ship \in Schedules, NEW u \in Periods
  PROVE  LeftOver(ship, u) \in Int
  <1>1. UpTo(data.supplyVol, u) \in Nat
    BY DataFacts, UpToNat
  <1>2. PICK f : f = [e \in Demands |-> UpTo(ship[e], u)]
    OBVIOUS
  <1>3. ASSUME NEW e \in Demands PROVE f[e] \in Int
    <2>1. \A v \in Periods : ship[e][v] \in Int
      BY ScheduleEntry
    <2>2. UpTo(ship[e], u) \in Int
      BY <2>1, UpToFacts
    <2> QED
      BY <1>2, <2>2
  <1>4. SumFunctionOnSet(f, Demands) \in Int
    BY <1>3, DataAssumption, SumFacts DEF SumFact
  <1>5. DOMAIN f = Demands
    BY <1>2
  <1> QED
    BY <1>1, <1>2, <1>4, <1>5 DEF LeftOver, SumFunction

\* A shipment takes its volume off the supply left over from its period on.
LEMMA ShippedLeftOver ==
  ASSUME DataType, NEW ship \in Schedules, NEW d \in Demands, NEW t \in Periods,
         NEW vol \in Nat, NEW u \in Periods
  PROVE  LeftOver(Shipped(ship, d, t, vol), u)
           = LeftOver(ship, u) - IF t <= u THEN vol ELSE 0
  <1>1. PICK f : f = [e \in Demands |-> UpTo(ship[e], u)]
    OBVIOUS
  <1>2. PICK g : g = [e \in Demands |-> UpTo(Shipped(ship, d, t, vol)[e], u)]
    OBVIOUS
  <1>3. PICK v : v = IF t <= u THEN vol ELSE 0
    OBVIOUS
  <1>4. ASSUME NEW e \in Demands PROVE f[e] \in Int
    <2>1. \A x \in Periods : ship[e][x] \in Int
      BY ScheduleEntry
    <2>2. UpTo(ship[e], u) \in Int
      BY <2>1, UpToFacts
    <2> QED
      BY <1>1, <2>2
  <1>5. ASSUME NEW e \in Demands PROVE g[e] = IF e = d THEN f[e] + v ELSE f[e]
    <2>1. /\ g[e] = UpTo(Shipped(ship, d, t, vol)[e], u) /\ f[e] = UpTo(ship[e], u)
      BY <1>1, <1>2
    <2>2. g[e] = f[e] + IF e = d /\ t <= u THEN vol ELSE 0
      BY <2>1, ShippedUpTo
    <2> QED
      BY <1>3, <1>4, <2>2
  <1>6. v \in Int
    BY <1>3
  <1>7. SumFunctionOnSet(g, Demands) = SumFunctionOnSet(f, Demands) + v
    <2>1. PICK S : S = Demands
      OBVIOUS
    <2>2. IsFiniteSet(S) /\ d \in S
      BY <2>1, DataAssumption
    <2>3. (\A e \in S : f[e] \in Int) /\ \A e \in S : g[e] = IF e = d THEN f[e] + v ELSE f[e]
      BY <1>4, <1>5, <2>1
    <2>4. SumFunctionOnSet(g, S) = SumFunctionOnSet(f, S) + IF d \in S THEN v ELSE 0
      BY <1>6, <2>2, <2>3, SumChange
    <2> QED
      BY <2>1, <2>2, <2>4
  <1>8. SumFunctionOnSet(f, Demands) \in Int
    BY <1>4, DataAssumption, SumFacts DEF SumFact
  <1>9. DOMAIN f = Demands /\ DOMAIN g = Demands
    BY <1>1, <1>2
  <1>10. UpTo(data.supplyVol, u) \in Nat
    BY DataFacts, UpToNat
  <1>11. /\ LeftOver(ship, u) = UpTo(data.supplyVol, u) - SumFunctionOnSet(f, Demands)
         /\ LeftOver(Shipped(ship, d, t, vol), u)
              = UpTo(data.supplyVol, u) - SumFunctionOnSet(g, Demands)
    BY <1>1, <1>2, <1>9 DEF LeftOver, SumFunction
  <1> QED
    BY <1>3, <1>6, <1>7, <1>8, <1>10, <1>11

\* Cumulative unmet demand is an integer, maybe a negative one.
LEMMA UnmetCumDemType ==
  ASSUME DataType, NEW ship \in Schedules, NEW d \in Demands, NEW u \in Periods
  PROVE  UnmetCumDem(ship, d, u) \in Int
  <1>1. \A x \in Periods : ship[d][x] \in Int /\ data.demandVol[d][x] \in Int
    BY ScheduleEntry, DataFacts
  <1>2. UpTo(ship[d], u) \in Int /\ UpTo(data.demandVol[d], u) \in Int
    BY <1>1, UpToFacts
  <1> QED
    BY <1>2 DEF UnmetCumDem

\* A shipment takes its volume off the unmet demand from its period on.
LEMMA ShippedUnmetCumDem ==
  ASSUME DataType, NEW ship \in Schedules, NEW d \in Demands, NEW t \in Periods,
         NEW vol \in Nat, NEW e \in Demands, NEW u \in Periods
  PROVE  UnmetCumDem(Shipped(ship, d, t, vol), e, u)
           = UnmetCumDem(ship, e, u) - IF e = d /\ t <= u THEN vol ELSE 0
  <1>1. \A x \in Periods : ship[e][x] \in Int /\ data.demandVol[e][x] \in Int
    BY ScheduleEntry, DataFacts
  <1>2. UpTo(ship[e], u) \in Int /\ UpTo(data.demandVol[e], u) \in Int
    BY <1>1, UpToFacts
  <1> QED
    BY <1>2, ShippedUpTo DEF UnmetCumDem

-------------------------------------------------------------------------------
(* How much is allocated. *)

\* Shipments stay within supply and demand, for any shipments.
Feasible(ship) ==
  \A t \in Periods :
    /\ LeftOver(ship, t) >= 0
    /\ \A d \in Demands : IncVolUB(ship, d, t) >= 0

\* What a commit can take is the least supply that is left over from a period on.
LEMMA ObtainableFacts ==
  ASSUME DataType, NEW ship \in Schedules, NEW t \in Periods
  PROVE  /\ Obtainable(ship, t) \in Nat
         /\ Feasible(ship) => /\ \E w \in Periods : t <= w /\ Obtainable(ship, t) = LeftOver(ship, w)
                              /\ \A u \in Periods : t <= u => Obtainable(ship, t) <= LeftOver(ship, u)
  <1>1. PICK g : g = [u \in t..(NPeriods - 1) |-> LeftOver(ship, u)]
    OBVIOUS
  <1>2. \A u : u \in t..(NPeriods - 1) <=> u \in Periods /\ t <= u
    BY PeriodFacts DEF LastPer
  <1>3. \A u \in t..(NPeriods - 1) : g[u] = LeftOver(ship, u) /\ g[u] \in Int
    BY <1>1, <1>2, LeftOverType
  <1>4. {g[u] : u \in t..(NPeriods - 1)} = {LeftOver(ship, u) : u \in t..(NPeriods - 1)}
    BY <1>3
  <1>5. PICK m : m = Min({g[u] : u \in t..(NPeriods - 1)})
    OBVIOUS
  <1>6. /\ \E w \in t..(NPeriods - 1) : m = g[w]
        /\ \A u \in t..(NPeriods - 1) : m <= g[u]
        /\ m \in Int
    BY <1>3, <1>5, MinOverPeriods
  <1>7. Obtainable(ship, t) = Max({0, m})
    BY <1>4, <1>5 DEF Obtainable
  <1>8. Obtainable(ship, t) = IF 0 <= m THEN m ELSE 0
    BY <1>6, <1>7, MaxOfTwo
  <1>9. ASSUME Feasible(ship) PROVE 0 <= m
    <2>1. PICK w \in t..(NPeriods - 1) : m = g[w]
      BY <1>6
    <2>2. LeftOver(ship, w) >= 0
      BY <1>2, <1>9, <2>1 DEF Feasible
    <2> QED
      BY <1>3, <2>1, <2>2
  <1> QED
    BY <1>2, <1>3, <1>6, <1>8, <1>9

\* compDemandedIncVol finds the least unmet demand from a period on, or, for a
\* demand that may not be shipped late, what is unmet of that period.
LEMMA IncVolUBFacts ==
  ASSUME DataType, NEW ship \in Schedules, NEW d \in Demands, NEW t \in Periods
  PROVE  /\ IncVolUB(ship, d, t) \in Int
         /\ d \in ShipLate =>
              /\ \E w \in Periods : t <= w /\ IncVolUB(ship, d, t) = UnmetCumDem(ship, d, w)
              /\ \A u \in Periods : t <= u => IncVolUB(ship, d, t) <= UnmetCumDem(ship, d, u)
         /\ d \notin ShipLate => IncVolUB(ship, d, t) = data.demandVol[d][t] - ship[d][t]
  <1>1. PICK g : g = [u \in t..(NPeriods - 1) |-> UnmetCumDem(ship, d, u)]
    OBVIOUS
  <1>2. \A u : u \in t..(NPeriods - 1) <=> u \in Periods /\ t <= u
    BY PeriodFacts DEF LastPer
  <1>3. \A u \in t..(NPeriods - 1) : g[u] = UnmetCumDem(ship, d, u) /\ g[u] \in Int
    BY <1>1, <1>2, UnmetCumDemType
  <1>4. {g[u] : u \in t..(NPeriods - 1)} = {UnmetCumDem(ship, d, u) : u \in t..(NPeriods - 1)}
    BY <1>3
  <1>5. PICK m : m = Min({g[u] : u \in t..(NPeriods - 1)})
    OBVIOUS
  <1>6. /\ \E w \in t..(NPeriods - 1) : m = g[w]
        /\ \A u \in t..(NPeriods - 1) : m <= g[u]
        /\ m \in Int
    BY <1>3, <1>5, MinOverPeriods
  <1>7. CASE d \in ShipLate
    <2>1. IncVolUB(ship, d, t) = m
      BY <1>4, <1>5, <1>7 DEF IncVolUB
    <2> QED
      BY <1>2, <1>3, <1>6, <1>7, <2>1
  <1>8. CASE d \notin ShipLate
    <2>1. IncVolUB(ship, d, t) = data.demandVol[d][t] - ship[d][t]
      BY <1>8 DEF IncVolUB
    <2>2. data.demandVol[d][t] \in Int /\ ship[d][t] \in Int
      BY DataFacts, ScheduleEntry
    <2> QED
      BY <1>8, <2>1, <2>2
  <1> QED
    BY <1>7, <1>8

-------------------------------------------------------------------------------
(* What one call of incHeurAlloc finds. *)

\* Products with a natural number increase.
LEMMA Products ==
  ASSUME NEW a \in Nat, NEW b \in Nat, a <= b, NEW c \in Nat
  PROVE  a * c \in Nat /\ b * c \in Nat /\ a * c <= b * c
  <1>1. PICK k \in Nat : b = a + k
    <2>1. b - a \in Nat /\ b = a + (b - a)
      OBVIOUS
    <2> QED
      BY <2>1
  <1>2. b * c = a * c + k * c
    BY <1>1
  <1>3. k * c \in Nat /\ a * c \in Nat
    OBVIOUS
  <1> QED
    BY <1>2, <1>3

\* The division of natural numbers.
LEMMA Quotient ==
  ASSUME NEW a \in Nat, NEW b \in Nat \ {0}
  PROVE  a \div b \in Nat /\ b * (a \div b) <= a /\ a < b * (a \div b) + b
  OBVIOUS

\* A quotient is no less than another if its dividend is.
LEMMA QuotientsIncrease ==
  ASSUME NEW a \in Nat, NEW c \in Nat, a <= c, NEW b \in Nat \ {0}
  PROVE  a \div b <= c \div b
  <1>1. PICK q, r : q = a \div b /\ r = c \div b
    OBVIOUS
  <1>2. q \in Nat /\ r \in Nat /\ b * q <= a /\ c < b * r + b
    BY <1>1, Quotient
  <1>3. SUFFICES ASSUME r + 1 <= q PROVE FALSE
    BY <1>1, <1>2
  <1>4. (r + 1) * b <= q * b
    BY <1>2, <1>3, Products
  <1>5. (r + 1) * b = b * r + b /\ q * b = b * q
    BY <1>2
  <1>6. b * r \in Nat /\ b * q \in Nat
    BY <1>2
  <1> QED
    BY <1>2, <1>4, <1>5, <1>6

\* The search finds what was desired, or what leaves less than an increment.
LEMMA MaxQtyFacts ==
  ASSUME DataType, NEW ship \in Schedules, NEW d \in Demands, NEW t \in Periods,
         NEW des \in Nat, NEW b, b = Obtainable(ship, t),
         NEW q, q = MaxQty(ship, d, t, des)
  PROVE  /\ q \in Nat /\ q <= des /\ q <= b
         /\ \/ q = des
            \/ b < des /\ b - q < SearchInc[d]
  <1>1. b \in Nat /\ SearchInc[d] \in Nat \ {0}
    BY ObtainableFacts, DataAssumption
  <1>2. CASE des <= b
    <2>1. q = des
      BY <1>2 DEF MaxQty
    <2> QED
      BY <1>1, <1>2, <2>1
  <1>3. CASE ~(des <= b)
    <2>1. PICK i, k : i = SearchInc[d] /\ k = b \div i
      OBVIOUS
    <2>2. q = i * k
      BY <1>3, <2>1 DEF MaxQty
    <2>3. i \in Nat \ {0} /\ k \in Nat /\ i * k <= b /\ b < i * k + i
      BY <1>1, <2>1, Quotient
    <2>4. i * k \in Nat
      BY <2>3
    <2> QED
      BY <1>1, <1>3, <2>1, <2>2, <2>3, <2>4
  <1> QED
    BY <1>2, <1>3

\* The volume that is demanded is no more than each of its bounds.
LEMMA DemandedFacts ==
  ASSUME DataType, NEW ship \in Schedules, NEW d \in Demands, NEW t \in Periods,
         Feasible(ship), NEW des \in Nat, NEW m, m = DemandedIncVol(ship, d, t, des)
  PROVE  /\ m \in Nat /\ m <= des /\ m <= IncVolUB(ship, d, t)
         /\ des <= IncVolUB(ship, d, t) => m = des
  <1>1. PICK a : a = IncVolUB(ship, d, t)
    OBVIOUS
  <1>2. a \in Int /\ a >= 0
    BY <1>1, IncVolUBFacts DEF Feasible
  <1>3. PICK n : n = Min({des, a})
    OBVIOUS
  <1>4. n = IF des <= a THEN des ELSE a
    BY <1>2, <1>3, MinOfTwo
  <1>5. m = Max({0, n})
    BY <1>1, <1>3 DEF DemandedIncVol
  <1>6. n \in Nat
    BY <1>2, <1>4
  <1>7. m = n
    BY <1>5, <1>6, MaxOfTwo
  <1> QED
    BY <1>1, <1>2, <1>4, <1>6, <1>7

\* incHeurAlloc allocates no more than each of its three bounds.  When it
\* allocates less than is demanded and the period was not blocked, less than a
\* search increment is left.
LEMMA IncVolFacts ==
  ASSUME DataType, NEW ship \in Schedules, NEW d \in Demands, NEW t \in Periods,
         Feasible(ship), NEW des \in Nat, NEW b, b = Obtainable(ship, t),
         NEW m, m = DemandedIncVol(ship, d, t, des),
         NEW vol, vol = IncVol(ship, d, t, des)
  PROVE  /\ vol \in Nat /\ vol <= des /\ vol <= IncVolUB(ship, d, t) /\ vol <= b
         /\ vol <= m
         /\ data.skipFailures /\ t \in blocked => vol = 0
         /\ \/ data.skipFailures /\ t \in blocked
            \/ vol = m
            \/ b < m /\ b - vol < SearchInc[d]
  <1>1. m \in Nat /\ m <= des /\ m <= IncVolUB(ship, d, t) /\ IncVolUB(ship, d, t) \in Int
    BY DemandedFacts, IncVolUBFacts
  <1>2. b \in Nat
    BY ObtainableFacts
  <1>3. CASE data.skipFailures /\ t \in blocked
    <2>1. vol = 0
      BY <1>3 DEF IncVol
    <2> QED
      BY <1>1, <1>2, <1>3, <2>1
  <1>4. CASE ~(data.skipFailures /\ t \in blocked)
    <2>1. vol = MaxQty(ship, d, t, m)
      BY <1>4 DEF IncVol
    <2>2. /\ vol \in Nat /\ vol <= m /\ vol <= b
          /\ vol = m \/ (b < m /\ b - vol < SearchInc[d])
      BY <1>1, <2>1, MaxQtyFacts
    <2> QED
      BY <1>1, <1>2, <1>4, <2>2
  <1> QED
    BY <1>3, <1>4

\* After an allocation what is left is less by what was allocated, and the
\* shipments are still feasible.
LEMMA ShippedFeasible ==
  ASSUME DataType, NEW ship \in Schedules, NEW d \in Demands, NEW t \in Periods,
         Feasible(ship), NEW vol \in Nat,
         vol <= IncVolUB(ship, d, t), vol <= Obtainable(ship, t)
  PROVE  /\ Feasible(Shipped(ship, d, t, vol))
         /\ Obtainable(Shipped(ship, d, t, vol), t) = Obtainable(ship, t) - vol
         /\ \A u \in Periods : Obtainable(Shipped(ship, d, t, vol), u) <= Obtainable(ship, u)
  <1>1. PICK new : new = Shipped(ship, d, t, vol)
    OBVIOUS
  <1>2. new \in Schedules
    BY <1>1, ShippedFacts
  <1>3. \A u \in Periods : /\ LeftOver(new, u) = LeftOver(ship, u) - IF t <= u THEN vol ELSE 0
                           /\ LeftOver(ship, u) \in Int /\ LeftOver(ship, u) >= 0
    BY <1>1, ShippedLeftOver, LeftOverType DEF Feasible
  <1>4. \A u \in Periods : t <= u => vol <= LeftOver(ship, u)
    BY <1>3, ObtainableFacts
  <1>5. \A u \in Periods : LeftOver(new, u) >= 0
    BY <1>3, <1>4
  <1>6. ASSUME NEW u \in Periods, NEW e \in Demands PROVE IncVolUB(new, e, u) >= 0
    <2>1. IncVolUB(ship, e, u) \in Int /\ IncVolUB(ship, e, u) >= 0
      BY IncVolUBFacts DEF Feasible
    <2>2. CASE e \in ShipLate
      <3>1. PICK w \in Periods : u <= w /\ IncVolUB(new, e, u) = UnmetCumDem(new, e, w)
        BY <1>2, <2>2, IncVolUBFacts
      <3>2. UnmetCumDem(new, e, w)
              = UnmetCumDem(ship, e, w) - IF e = d /\ t <= w THEN vol ELSE 0
        BY <1>1, ShippedUnmetCumDem
      <3>3. /\ IncVolUB(ship, e, u) <= UnmetCumDem(ship, e, w)
            /\ UnmetCumDem(ship, e, w) \in Int
        BY <2>2, <3>1, IncVolUBFacts, UnmetCumDemType
      <3>4. ASSUME e = d, t <= w PROVE vol <= UnmetCumDem(ship, e, w)
        <4>1. IncVolUB(ship, d, t) <= UnmetCumDem(ship, d, w)
          BY <2>2, <3>4, IncVolUBFacts
        <4>2. IncVolUB(ship, d, t) \in Int
          BY IncVolUBFacts
        <4> QED
          BY <3>3, <3>4, <4>1, <4>2
      <3> QED
        BY <2>1, <3>1, <3>2, <3>3, <3>4
    <2>3. CASE e \notin ShipLate
      <3>1. /\ IncVolUB(new, e, u) = data.demandVol[e][u] - new[e][u]
            /\ IncVolUB(ship, e, u) = data.demandVol[e][u] - ship[e][u]
        BY <1>2, <2>3, IncVolUBFacts
      <3>2. new[e][u] = IF e = d /\ u = t THEN ship[e][u] + vol ELSE ship[e][u]
        BY <1>1, ShippedFacts
      <3>3. data.demandVol[e][u] \in Int /\ ship[e][u] \in Int
        BY DataFacts, ScheduleEntry
      <3>4. e = d /\ u = t => vol <= IncVolUB(ship, e, u)
        OBVIOUS
      <3> QED
        BY <2>1, <3>1, <3>2, <3>3, <3>4
    <2> QED
      BY <2>2, <2>3
  <1>7. Feasible(new)
    BY <1>5, <1>6 DEF Feasible
  <1>8. ASSUME NEW u \in Periods PROVE Obtainable(new, u) <= Obtainable(ship, u)
    <2>1. PICK w \in Periods : u <= w /\ Obtainable(ship, u) = LeftOver(ship, w)
      BY ObtainableFacts
    <2>2. Obtainable(new, u) <= LeftOver(new, w)
      BY <1>2, <1>7, <2>1, ObtainableFacts
    <2>3. Obtainable(new, u) \in Nat
      BY <1>2, ObtainableFacts
    <2> QED
      BY <1>3, <2>1, <2>2, <2>3
  <1>9. Obtainable(new, t) = Obtainable(ship, t) - vol
    <2>1. PICK w \in Periods : t <= w /\ Obtainable(ship, t) = LeftOver(ship, w)
      BY ObtainableFacts
    <2>2. PICK x \in Periods : t <= x /\ Obtainable(new, t) = LeftOver(new, x)
      BY <1>2, <1>7, ObtainableFacts
    <2>3. Obtainable(new, t) <= LeftOver(new, w) /\ Obtainable(ship, t) <= LeftOver(ship, x)
      BY <1>2, <1>7, <2>1, <2>2, ObtainableFacts
    <2> QED
      BY <1>3, <2>1, <2>2, <2>3
  <1> QED
    BY <1>1, <1>7, <1>8, <1>9

-------------------------------------------------------------------------------
(* The volume that is desired in a round. *)

\* The volumes desired in the rounds increase from 0 to the whole.
LEMMA NewDesVolFacts ==
  ASSUME DataType, NEW d \in Demands, NEW total \in Nat
  PROVE  /\ \A r \in Nat : /\ NewDesVol(d, total, r) \in Nat
                           /\ NewDesVol(d, total, r) <= total
                           /\ NewDesVol(d, total, r) <= NewDesVol(d, total, r + 1)
         /\ NewDesVol(d, total, 0) = 0
         /\ NewDesVol(d, total, data.equitability) = total
  <1>1. PICK E, I : E = data.equitability /\ I = SearchInc[d]
    OBVIOUS
  <1>2. E \in Nat /\ E >= 1 /\ I \in Nat /\ I >= 1
    <2>1. E \in Nat /\ E >= 1
      BY <1>1, DataFacts
    <2>2. SearchInc \in [Demands -> Nat \ {0}]
      BY DataAssumption
    <2>3. I \in Nat /\ I # 0
      BY <1>1, <2>2
    <2> QED
      BY <2>1, <2>3
  <1>3. PICK b : b = E * I
    OBVIOUS
  <1>4. b \in Nat /\ b >= 1
    <2>1. 1 * I <= E * I /\ E * I \in Nat
      BY <1>2, Products
    <2> QED
      BY <1>2, <1>3, <2>1
  <1>5. PICK q : q = [r \in Nat |-> (r * total + b - 1) \div b]
    OBVIOUS
  <1>6. ASSUME NEW r \in Nat
        PROVE  /\ r * total \in Nat /\ r * total + b - 1 \in Nat
               /\ q[r] = (r * total + b - 1) \div b
               /\ q[r] \in Nat
    <2>1. r * total \in Nat
      OBVIOUS
    <2>2. r * total + b - 1 \in Nat
      BY <1>4, <2>1
    <2>3. PICK a : a = r * total + b - 1
      OBVIOUS
    <2>4. a \div b \in Nat
      BY <1>4, <2>2, <2>3, Quotient
    <2> QED
      BY <1>5, <2>1, <2>2, <2>3, <2>4
  <1>7. ASSUME NEW r \in Nat PROVE NewDesVol(d, total, r) = Min({total, q[r] * I})
    BY <1>1, <1>3, <1>6 DEF NewDesVol, CeilDiv
  <1>8. ASSUME NEW r \in Nat
        PROVE  /\ q[r] * I \in Nat
               /\ NewDesVol(d, total, r) = IF total <= q[r] * I THEN total ELSE q[r] * I
    <2>1. PICK p : p = q[r] * I
      OBVIOUS
    <2>2. p \in Nat
      BY <1>2, <1>6, <2>1, Products
    <2>3. NewDesVol(d, total, r) = Min({total, p})
      BY <1>7, <2>1
    <2> QED
      BY <2>1, <2>2, <2>3, MinOfTwo
  <1>9. ASSUME NEW r \in Nat PROVE q[r] * I <= q[r + 1] * I
    <2>1. r * total <= (r + 1) * total
      BY Products
    <2>2. r * total + b - 1 <= (r + 1) * total + b - 1
      BY <1>4, <1>6, <2>1
    <2>3. PICK x, y : x = r * total + b - 1 /\ y = (r + 1) * total + b - 1
      OBVIOUS
    <2>4. x \in Nat /\ y \in Nat /\ x <= y
      <3>1. r + 1 \in Nat
        OBVIOUS
      <3>2. y \in Nat
        BY <1>6, <2>3, <3>1
      <3> QED
        BY <1>6, <2>2, <2>3, <3>2
    <2>5. x \div b <= y \div b
      BY <1>4, <2>4, QuotientsIncrease
    <2>6. q[r] <= q[r + 1]
      BY <1>6, <2>3, <2>5
    <2> QED
      BY <1>2, <1>6, <2>6, Products
  <1>10. q[0] * I = 0
    <2>1. q[0] = (b - 1) \div b
      <3>1. 0 * total + b - 1 = b - 1
        BY <1>4
      <3> QED
        BY <1>6, <3>1
    <2>2. PICK z : z = q[0]
      OBVIOUS
    <2>3. z \in Nat /\ b * z <= b - 1
      BY <1>4, <1>6, <2>1, <2>2, Quotient
    <2>4. ASSUME z >= 1 PROVE FALSE
      <3>1. 1 * b <= z * b /\ z * b = b * z
        BY <1>4, <2>3, <2>4, Products
      <3> QED
        BY <1>4, <2>3, <3>1
    <2>5. z = 0
      BY <2>3, <2>4
    <2> QED
      BY <1>2, <2>2, <2>5
  <1>11. total <= q[E] * I
    <2>1. PICK z : z = q[E]
      OBVIOUS
    <2>2. PICK a : a = E * total + b - 1
      OBVIOUS
    <2>3. z \in Nat /\ z = a \div b /\ a \in Nat
      BY <1>2, <1>6, <2>1, <2>2
    <2>4. a < b * z + b
      BY <1>4, <2>3, Quotient
    <2>5. E * total \in Nat /\ b * z \in Nat
      BY <1>2, <1>4, <2>3
    <2>6. E * total <= b * z
      BY <1>4, <2>2, <2>4, <2>5
    <2>7. b * z = E * (z * I)
      BY <1>2, <1>3, <2>3
    <2>8. PICK p : p = z * I
      OBVIOUS
    <2>9. p \in Nat /\ E * total <= E * p
      BY <1>2, <2>3, <2>6, <2>7, <2>8
    <2>10. ASSUME p + 1 <= total PROVE FALSE
      <3>1. (p + 1) * E <= total * E
        BY <1>2, <2>9, <2>10, Products
      <3>2. (p + 1) * E = E * p + E /\ total * E = E * total
        BY <1>2, <2>9
      <3>3. E * p \in Nat
        BY <1>2, <2>9
      <3> QED
        BY <1>2, <2>5, <2>9, <3>1, <3>2, <3>3
    <2> QED
      BY <2>1, <2>8, <2>9, <2>10
  <1>12. ASSUME NEW r \in Nat
         PROVE  /\ NewDesVol(d, total, r) \in Nat
                /\ NewDesVol(d, total, r) <= total
                /\ NewDesVol(d, total, r) <= NewDesVol(d, total, r + 1)
    <2>1. PICK x, y : x = q[r] * I /\ y = q[r + 1] * I
      OBVIOUS
    <2>2. x \in Nat /\ y \in Nat /\ x <= y /\ r + 1 \in Nat
      BY <1>8, <1>9, <2>1
    <2>3. /\ NewDesVol(d, total, r) = IF total <= x THEN total ELSE x
          /\ NewDesVol(d, total, r + 1) = IF total <= y THEN total ELSE y
      BY <1>8, <2>1, <2>2
    <2> QED
      BY <2>2, <2>3
  <1>13. NewDesVol(d, total, 0) = 0
    BY <1>8, <1>10
  <1>14. NewDesVol(d, total, E) = total
    BY <1>2, <1>8, <1>11
  <1> QED
    BY <1>1, <1>12, <1>13, <1>14

-------------------------------------------------------------------------------
(* The order of the demands. *)

\* A sequence of the elements of a set of demands in the order of priority.
InOrder(pri, D, n, s) ==
  /\ s \in [1..n -> D]
  /\ \A i, j \in 1..n : i < j => Precedes(pri, s[i], s[j])

\* No two demands have the same place in the list of all demands.
LEMMA MappingFacts ==
  /\ \A d \in Demands : MappingIndex[d] \in Nat
  /\ \A d, e \in Demands : MappingIndex[d] = MappingIndex[e] => d = e
  BY DataAssumption DEF IsInjective

\* All demands can be put in the order of any priorities.
LEMMA OrderExists ==
  ASSUME NEW pri \in [Demands -> Nat]
  PROVE  \E s : InOrder(pri, Demands, Cardinality(Demands), s)
  <1>1. SUFFICES ASSUME ~ \E s : InOrder(pri, Demands, Cardinality(Demands), s)
                 PROVE  FALSE
    OBVIOUS
  <1>2. PICK E : E = {n \in Nat : \E D \in SUBSET Demands :
                        Cardinality(D) = n /\ ~ \E s : InOrder(pri, D, n, s)}
    OBVIOUS
  <1>3. IsFiniteSet(Demands)
    BY DataAssumption
  <1>4. Cardinality(Demands) \in E
    BY <1>1, <1>2, <1>3, FS_CardinalityType
  <1>5. PICK n \in E : \A m \in E : n <= m
    BY <1>2, <1>4, NatMin
  <1>6. PICK D \in SUBSET Demands : Cardinality(D) = n /\ ~ \E s : InOrder(pri, D, n, s)
    BY <1>2, <1>5
  <1>7. IsFiniteSet(D) /\ n \in Nat
    BY <1>2, <1>3, <1>5, FS_Subset
  <1>8. CASE D = {}
    <2>1. n = 0
      BY <1>6, <1>8, FS_EmptySet
    <2>2. PICK s : s = [i \in 1..0 |-> i]
      OBVIOUS
    <2>3. s \in [1..0 -> D]
      BY <2>2
    <2>4. InOrder(pri, D, n, s)
      BY <2>1, <2>3 DEF InOrder
    <2> QED
      BY <1>6, <2>4
  <1>9. CASE D # {}
    <2>1. PICK P : P = {pri[d] : d \in D}
      OBVIOUS
    <2>2. ASSUME NEW x \in P PROVE x \in Nat
      BY <2>1
    <2>3. P \in SUBSET Nat /\ P # {}
      BY <1>9, <2>1, <2>2
    <2>4. PICK p \in P : \A x \in P : p <= x
      BY <2>3, NatMin
    <2>5. PICK I : I = {MappingIndex[d] : d \in {e \in D : pri[e] = p}}
      OBVIOUS
    <2>6. ASSUME NEW x \in I PROVE x \in Nat
      BY <2>5, MappingFacts
    <2>7. I \in SUBSET Nat /\ I # {}
      BY <2>1, <2>4, <2>5, <2>6
    <2>8. PICK k \in I : \A x \in I : k <= x
      BY <2>7, NatMin
    <2>9. PICK m \in D : pri[m] = p /\ MappingIndex[m] = k
      BY <2>5, <2>8
    <2>10. ASSUME NEW d \in D, d # m PROVE Precedes(pri, m, d)
      <3>1. p <= pri[d] /\ p \in Nat /\ pri[d] \in Nat
        BY <2>1, <2>4
      <3>2. CASE p < pri[d]
        BY <2>9, <3>2 DEF Precedes
      <3>3. CASE pri[d] = p
        <4>1. k <= MappingIndex[d] /\ k \in Nat /\ MappingIndex[d] \in Nat
          BY <2>5, <2>6, <2>8, <3>3
        <4>2. MappingIndex[d] # k
          BY <2>9, <2>10, MappingFacts
        <4> QED
          BY <2>9, <3>3, <4>1, <4>2 DEF Precedes
      <3> QED
        BY <3>1, <3>2, <3>3
    <2>11. Cardinality(D \ {m}) = n - 1
      BY <1>6, <1>7, FS_RemoveElement
    <2>12. n - 1 \in Nat
      <3>1. IsFiniteSet(D \ {m})
        BY <1>7, FS_RemoveElement
      <3> QED
        BY <2>11, <3>1, FS_CardinalityType
    <2>13. n - 1 \notin E
      BY <1>5, <1>7
    <2>14. PICK s : InOrder(pri, D \ {m}, n - 1, s)
      BY <1>2, <2>11, <2>12, <2>13
    <2>15. PICK r : r = [i \in 1..n |-> IF i = 1 THEN m ELSE s[i - 1]]
      OBVIOUS
    <2>16. ASSUME NEW i \in 1..n, i # 1
           PROVE  i - 1 \in 1..(n - 1) /\ r[i] = s[i - 1] /\ r[i] \in D /\ r[i] # m
      <3>1. i - 1 \in 1..(n - 1)
        BY <1>7, <2>16
      <3> QED
        BY <2>14, <2>15, <2>16, <3>1 DEF InOrder
    <2>17. r \in [1..n -> D]
      BY <2>15, <2>16
    <2>18. ASSUME NEW i \in 1..n, NEW j \in 1..n, i < j
           PROVE  Precedes(pri, r[i], r[j])
      <3>1. j # 1
        BY <1>7, <2>18
      <3>2. CASE i = 1
        BY <2>10, <2>15, <2>16, <3>1, <3>2
      <3>3. CASE i # 1
        <4>1. i - 1 < j - 1
          BY <1>7, <2>18
        <4> QED
          BY <2>14, <2>16, <3>1, <3>3, <4>1 DEF InOrder
      <3> QED
        BY <3>2, <3>3
    <2>19. InOrder(pri, D, n, r)
      BY <2>17, <2>18 DEF InOrder
    <2> QED
      BY <1>6, <2>19
  <1> QED
    BY <1>8, <1>9

\* Every demand is sorted, once, and no demand comes before a better one.
LEMMA SortedFacts ==
  ASSUME NEW pri \in [Demands -> Nat], NEW s, s = SortedBy(pri)
  PROVE  /\ s \in Seq(Demands)
         /\ \A i, j \in DOMAIN s : s[i] = s[j] => i = j
         /\ \A d \in Demands : \E i \in DOMAIN s : s[i] = d
         /\ \A i, j \in DOMAIN s : pri[s[i]] < pri[s[j]] => i < j
  <1>1. PICK n : n = Cardinality(Demands)
    OBVIOUS
  <1>2. IsFiniteSet(Demands) /\ n \in Nat
    BY <1>1, DataAssumption, FS_CardinalityType
  <1>3. InOrder(pri, Demands, n, s)
    BY <1>1, OrderExists DEF SortedBy, InOrder
  <1>4. s \in [1..n -> Demands] /\ DOMAIN s = 1..n
    BY <1>3 DEF InOrder
  <1>5. s \in Seq(Demands)
    BY <1>2, <1>4
  <1>6. ASSUME NEW i \in 1..n, NEW j \in 1..n, i < j
        PROVE  s[i] # s[j] /\ ~(pri[s[j]] < pri[s[i]])
    <2>1. Precedes(pri, s[i], s[j])
      BY <1>3, <1>6 DEF InOrder
    <2>2. /\ s[i] \in Demands /\ s[j] \in Demands
          /\ pri[s[i]] \in Nat /\ pri[s[j]] \in Nat
          /\ MappingIndex[s[i]] \in Nat /\ MappingIndex[s[j]] \in Nat
      BY <1>4, MappingFacts
    <2> QED
      BY <2>1, <2>2 DEF Precedes
  <1>7. ASSUME NEW i \in 1..n, NEW j \in 1..n
        PROVE  /\ s[i] = s[j] => i = j
               /\ pri[s[i]] < pri[s[j]] => i < j
    <2>1. i < j \/ j < i \/ i = j
      BY <1>2
    <2>2. CASE i < j
      BY <1>6, <2>2
    <2>3. CASE j < i
      BY <1>6, <2>3
    <2>4. CASE i = j
      <3>1. pri[s[i]] \in Nat
        BY <1>4
      <3> QED
        BY <2>4, <3>1
    <2> QED
      BY <2>1, <2>2, <2>3, <2>4
  <1>8. ASSUME NEW x \in Demands, \A i \in 1..n : s[i] # x PROVE FALSE
    <2>1. s \in [1..n -> Demands \ {x}]
      BY <1>4, <1>8
    <2>2. IsFiniteSet(Demands \ {x}) /\ Cardinality(Demands \ {x}) = n - 1
      BY <1>1, <1>2, FS_RemoveElement
    <2>3. IsFiniteSet(1..n) /\ Cardinality(1..n) = n
      BY <1>2, FS_Interval
    <2>4. n - 1 < n
      BY <1>2
    <2>5. PICK N, T : N = 1..n /\ T = Demands \ {x}
      OBVIOUS
    <2>6. /\ IsFiniteSet(N) /\ IsFiniteSet(T) /\ Cardinality(T) < Cardinality(N)
          /\ s \in [N -> T]
      BY <2>1, <2>2, <2>3, <2>4, <2>5
    <2>7. \E i, j \in N : i # j /\ s[i] = s[j]
      BY <2>6, FS_PigeonHole
    <2> QED
      BY <1>7, <2>5, <2>7
  <1> QED
    BY <1>4, <1>5, <1>7, <1>8

\* modPriority_ has a natural number for every demand.
LEMMA ModPriorityType ==
  ASSUME DataType, NEW t \in Periods
  PROVE  ModPriority(t) \in [Demands -> Nat]
  <1>1. PICK S, R : /\ R = {Range(data.priority[d]) : d \in Demands}
                    /\ S = {1} \cup UNION R
    OBVIOUS
  <1>2. ASSUME NEW x \in S PROVE x \in Nat
    <2>1. CASE x = 1
      BY <2>1
    <2>2. CASE x \in UNION R
      <3>1. PICK d \in Demands : x \in Range(data.priority[d])
        BY <1>1, <2>2
      <3>2. data.priority[d] \in [Periods -> Nat]
        BY DataFacts, ScheduleEntry
      <3>3. PICK u \in Periods : x = data.priority[d][u]
        BY <3>1, <3>2 DEF Range
      <3> QED
        BY <3>2, <3>3
    <2> QED
      BY <1>1, <2>1, <2>2
  <1>3. IsFiniteSet(S)
    <2>1. IsFiniteSet(Periods)
      <3>1. 0 \in Int /\ NPeriods - 1 \in Int
        BY PeriodFacts
      <3> QED
        BY <3>1, FS_Interval DEF Periods
    <2>2. ASSUME NEW r \in R PROVE IsFiniteSet(r)
      <3>1. PICK d \in Demands : r = Range(data.priority[d])
        BY <1>1
      <3>2. PICK f : f = data.priority[d]
        OBVIOUS
      <3>3. f \in [Periods -> Nat]
        BY <3>2, DataFacts, ScheduleEntry
      <3>4. f \in Surjection(Periods, r)
        BY <3>1, <3>2, <3>3 DEF Surjection, Range
      <3> QED
        BY <2>1, <3>4, FS_Surjection
    <2>3. IsFiniteSet(R)
      <3>1. PICK g : g = [d \in Demands |-> Range(data.priority[d])]
        OBVIOUS
      <3>2. g \in Surjection(Demands, R)
        BY <1>1, <3>1 DEF Surjection
      <3>3. IsFiniteSet(Demands)
        BY DataAssumption
      <3> QED
        BY <3>2, <3>3, FS_Surjection
    <2>4. IsFiniteSet(UNION R)
      BY <2>2, <2>3, FS_UNION
    <2>5. IsFiniteSet({1})
      BY FS_Singleton
    <2> QED
      BY <1>1, <2>4, <2>5, FS_Union
  <1>4. S \in SUBSET Int /\ S # {}
    <2>1. \A x \in S : x \in Int
      BY <1>2
    <2>2. 1 \in S
      BY <1>1
    <2> QED
      BY <2>1, <2>2
  <1>5. Max(S) \in S
    BY <1>3, <1>4, MaxFacts
  <1>6. MaxPri \in Nat
    BY <1>1, <1>2, <1>5 DEF MaxPri
  <1>7. \A d \in Demands : data.priority[d][t] \in Nat
    BY DataFacts
  <1> QED
    BY <1>6, <1>7 DEF ModPriority

\* A value for every demand and period.
IsTable(f) == f = [d \in Demands |-> [t \in Periods |-> f[d][t]]]

\* The equitable allocator has its four parts, of which prevDesVol_ has a value
\* for every demand and period.
EqHasItsParts ==
  /\ eq = [active |-> eq.active, desIncVol |-> eq.desIncVol,
           incVol |-> eq.incVol, prevDesVol |-> eq.prevDesVol]
  /\ IsTable(eq.prevDesVol)

Records ==
  /\ work = [list |-> work.list, multi |-> work.multi, itNo |-> work.itNo,
             pos |-> work.pos, imploding |-> work.imploding]
  /\ place = [demPer |-> place.demPer, shipPer |-> place.shipPer,
              idx |-> place.idx]

\* An allocation in progress, of either kind, has an active allocator.
EqIsActive ==
  /\ eq.active \in BOOLEAN /\ active \in BOOLEAN
  /\ eq.active => active
  /\ pc # "idle" => eq.active

IsTarget(list, d, t) ==
  \E i \in DOMAIN list : list[i].demand = d /\ list[i].per = t

\* Only a target of the allocation in progress has a volume that was desired
\* before, and only if it is allocated in rounds.
OnlyTargetsDesiredBefore ==
  \A d \in Demands, t \in Periods :
    \/ eq.prevDesVol[d][t] = 0
    \/ pc = "eq" /\ work.multi /\ IsTarget(work.list, d, t)

\* The sorting of an earlier period, if there was no new one, is still right.
SortedForPeriod ==
  pc = "scan" \/ (pc = "eq" /\ work.imploding)
    => /\ place.demPer \in Periods
       /\ sorted = SortedBy(ModPriority(place.demPer))

IInv == /\ Records /\ EqHasItsParts /\ EqIsActive /\ OnlyTargetsDesiredBefore
        /\ SortedForPeriod

-------------------------------------------------------------------------------
\* An inactive allocator, and the same one made active, have their parts, and
\* remember nothing.
LEMMA InactiveParts ==
  /\ Inactive = [active |-> FALSE, desIncVol |-> Inactive.desIncVol,
                 incVol |-> Inactive.incVol, prevDesVol |-> Zeros]
  /\ Activated(Inactive) = [active |-> TRUE, desIncVol |-> Inactive.desIncVol,
                            incVol |-> Inactive.incVol, prevDesVol |-> Zeros]
  BY DEF Inactive, Activated

\* Zeros is a table of zeros.
LEMMA ZerosIsZero ==
  /\ IsTable(Zeros)
  /\ \A d \in Demands, t \in Periods : Zeros[d][t] = 0
  BY DEF Zeros, IsTable

\* A table that is 0 everywhere is Zeros.
LEMMA ZeroIsZeros ==
  ASSUME NEW f, IsTable(f),
         \A d \in Demands, t \in Periods : f[d][t] = 0
  PROVE  f = Zeros
  <1>1. [d \in Demands |-> [t \in Periods |-> f[d][t]]]
          = [d \in Demands |-> [t \in Periods |-> 0]]
    OBVIOUS
  <1> QED
    BY <1>1 DEF Zeros, IsTable

\* A change of one entry keeps a table a table, and its other entries.
LEMMA EntryOfTable ==
  ASSUME NEW f, IsTable(f),
         NEW d, NEW t, NEW v, NEW g, g = [f EXCEPT ![d][t] = v]
  PROVE  /\ IsTable(g)
         /\ \A e \in Demands, u \in Periods :
              (e = d /\ u = t) \/ g[e][u] = f[e][u]
  <1> DEFINE h == [e \in Demands |-> [u \in Periods |->
                     IF e = d /\ u = t THEN v ELSE f[e][u]]]
  <1>1. DOMAIN f = Demands /\ \A e \in Demands : DOMAIN f[e] = Periods
    BY DEF IsTable
  <1>2. g = h
    <2>1. DOMAIN g = Demands /\ DOMAIN h = Demands
      BY <1>1
    <2>2. ASSUME NEW e \in Demands PROVE g[e] = h[e]
      <3>1. CASE e = d
        <4>1. g[e] = [f[e] EXCEPT ![t] = v]
          BY <1>1, <3>1
        <4>2. h[e] = [u \in Periods |-> IF u = t THEN v ELSE f[e][u]]
          BY <3>1
        <4>3. f[e] = [u \in Periods |-> f[e][u]]
          BY DEF IsTable
        <4>4. [f[e] EXCEPT ![t] = v]
                = [u \in Periods |-> IF u = t THEN v ELSE f[e][u]]
          BY <4>3
        <4> QED
          BY <4>1, <4>2, <4>4
      <3>2. CASE e # d
        <4>1. g[e] = f[e]
          BY <1>1, <3>2
        <4>2. h[e] = [u \in Periods |-> f[e][u]]
          BY <3>2
        <4>3. f[e] = [u \in Periods |-> f[e][u]]
          BY DEF IsTable
        <4> QED
          BY <4>1, <4>2, <4>3
      <3> QED
        BY <3>1, <3>2
    <2>3. g = [e \in Demands |-> g[e]] /\ h = [e \in Demands |-> h[e]]
      BY <2>1
    <2> HIDE DEF h
    <2> QED
      BY <2>2, <2>3
  <1>3. \A e \in Demands, u \in Periods :
          (e = d /\ u = t) \/ h[e][u] = f[e][u]
    OBVIOUS
  <1>4. IsTable(h)
    BY DEF IsTable
  <1> HIDE DEF h
  <1> QED
    BY <1>2, <1>3, <1>4

-------------------------------------------------------------------------------
\* The inductive invariant.

EqInv == EqHasItsParts /\ EqIsActive /\ OnlyTargetsDesiredBefore

\* A step that leaves the allocator and its work alone keeps what they promise.
LEMMA EqKept ==
  ASSUME EqInv, eq' = eq, active' = active, pc' = pc, work' = work
  PROVE  EqInv'
  BY DEF EqInv, EqHasItsParts, EqIsActive, OnlyTargetsDesiredBefore, IsTarget

\* An allocator that remembers nothing keeps the promises outside an
\* allocation.
LEMMA EqFresh ==
  ASSUME NEW des, NEW inc,
         eq' = [active |-> eq'.active, desIncVol |-> des, incVol |-> inc,
                prevDesVol |-> Zeros],
         eq'.active \in BOOLEAN, active' \in BOOLEAN,
         eq'.active => active', pc' # "idle" => eq'.active
  PROVE  EqInv'
  <1>1. eq'.desIncVol = des /\ eq'.incVol = inc /\ eq'.prevDesVol = Zeros
    OBVIOUS
  <1>2. EqHasItsParts'
    BY <1>1, ZerosIsZero DEF EqHasItsParts
  <1>3. EqIsActive'
    BY DEF EqIsActive
  <1>4. OnlyTargetsDesiredBefore'
    BY <1>1, ZerosIsZero DEF OnlyTargetsDesiredBefore
  <1> QED
    BY <1>2, <1>3, <1>4 DEF EqInv

\* A step that changes other parts of the allocator only, and does not cut an
\* allocation in rounds short.
LEMMA EqOtherParts ==
  ASSUME EqInv, NEW des, NEW inc,
         eq' = [active |-> eq.active, desIncVol |-> des, incVol |-> inc,
                prevDesVol |-> eq.prevDesVol],
         active' = active, pc' # "idle" => eq.active,
         pc = "eq" => pc' = "eq" /\ work'.list = work.list
                      /\ work'.multi = work.multi
  PROVE  EqInv'
  <1>1. /\ eq'.active = eq.active /\ eq'.desIncVol = des /\ eq'.incVol = inc
        /\ eq'.prevDesVol = eq.prevDesVol
    OBVIOUS
  <1>2. EqHasItsParts'
    BY <1>1 DEF EqInv, EqHasItsParts
  <1>3. EqIsActive'
    BY <1>1 DEF EqInv, EqIsActive
  <1>4. OnlyTargetsDesiredBefore'
    BY <1>1 DEF EqInv, OnlyTargetsDesiredBefore, IsTarget
  <1> QED
    BY <1>2, <1>3, <1>4 DEF EqInv

\* An allocator that is not active.
LEMMA EqInactive ==
  ASSUME eq' = Inactive, active' \in BOOLEAN, pc' = "idle"
  PROVE  EqInv'
  <1>1. eq'.active = FALSE
    BY DEF Inactive
  <1>2. eq' = [active |-> eq'.active, desIncVol |-> Inactive.desIncVol,
               incVol |-> Inactive.incVol, prevDesVol |-> Zeros]
    BY <1>1, InactiveParts
  <1> QED
    BY <1>1, <1>2, EqFresh

\* The first invariant holds initially ...
LEMMA InitIInv == Init => IInv
  <1> SUFFICES ASSUME Init PROVE IInv
    OBVIOUS
  <1>1. Records
    BY DEF Init, Records, NoWork
  <1>2. eq.prevDesVol = Zeros /\ eq.active = FALSE /\ active = FALSE
        /\ pc = "idle" /\ eq = Inactive
    BY DEF Init, Inactive
  <1>3. EqHasItsParts
    BY <1>2, InactiveParts, ZerosIsZero DEF EqHasItsParts
  <1>4. EqIsActive
    BY <1>2 DEF EqIsActive
  <1>5. OnlyTargetsDesiredBefore
    BY <1>2, ZerosIsZero DEF OnlyTargetsDesiredBefore
  <1>6. SortedForPeriod
    BY <1>2 DEF SortedForPeriod
  <1> QED
    BY <1>1, <1>3, <1>4, <1>5, <1>6 DEF IInv

\* The shape of the records of an allocation and of the place in implosion.
LEMMA RecordsStep == Records /\ [Next]_vars => Records'
  <1> SUFFICES ASSUME Records, [Next]_vars PROVE Records'
    OBVIOUS
  <1> USE DEF Records
  <1>1. ASSUME NEW e, NEW list, NEW imploding,
               BeginEqAlloc(e, list, imploding), place' = place
        PROVE  Records'
    BY <1>1 DEF BeginEqAlloc
  <1>2. CASE Implode
    BY <1>2 DEF Implode
  <1>3. CASE witEqHeurAlloc
    BY <1>1, <1>3 DEF witEqHeurAlloc, imploder
  <1>4. CASE AllocTarget
    <2>1. work' = [work EXCEPT !.pos = @ + 1]
          \/ work' = [work EXCEPT !.pos = 1, !.itNo = @ + 1]
      BY <1>4 DEF AllocTarget, NextTarget
    <2> QED
      BY <1>4, <2>1 DEF AllocTarget, imploder
  <1>5. CASE EndEqAlloc
    BY <1>5 DEF EndEqAlloc, NoWork
  <1>6. CASE AllocGroup \/ AllocLastGroup
    BY <1>1, <1>6 DEF AllocGroup, AllocLastGroup, imploder
  <1>7. CASE PassOver \/ IncAlloc \/ SelectForEqAlloc \/ NextShipPer
    BY <1>7 DEF PassOver, IncAlloc, SelectForEqAlloc, NextShipPer, NextDemand
  <1>8. CASE NextDemPer
    BY <1>8 DEF NextDemPer
  <1>9. CASE witStartHeurAlloc \/ EndHeurAlloc \/ witIncHeurAlloc
             \/ FinishImplosion
    BY <1>9 DEF witStartHeurAlloc, EndHeurAlloc, witIncHeurAlloc,
       FinishImplosion, imploder
  <1>10. CASE UNCHANGED vars
    BY <1>10 DEF vars, imploder
  <1> QED
    BY <1>2, <1>3, <1>4, <1>5, <1>6, <1>7, <1>8, <1>9, <1>10
       DEF Next, ApiCall, ImplosionStep, EqStep

\* The beginning of an allocation by an active allocator in which nothing is
\* left of an earlier one.
LEMMA BeginKeepsEqInv ==
  ASSUME NEW des, NEW inc, NEW list, NEW imploding, EqInv,
         active, pc # "eq", active' = active,
         BeginEqAlloc([active |-> TRUE, desIncVol |-> des, incVol |-> inc,
                       prevDesVol |-> eq.prevDesVol], list, imploding)
  PROVE  EqInv'
  <1>1. PICK inc2 : eq' = [active |-> TRUE, desIncVol |-> des, incVol |-> inc2,
                           prevDesVol |-> eq.prevDesVol]
    BY DEF BeginEqAlloc
  <1>2. /\ eq'.active = TRUE /\ eq'.desIncVol = des /\ eq'.incVol = inc2
        /\ eq'.prevDesVol = eq.prevDesVol
    BY <1>1
  <1>3. EqHasItsParts'
    BY <1>1, <1>2 DEF EqInv, EqHasItsParts
  <1>4. EqIsActive'
    BY <1>2 DEF EqInv, EqIsActive
  <1>5. OnlyTargetsDesiredBefore'
    BY <1>2 DEF EqInv, OnlyTargetsDesiredBefore
  <1> QED
    BY <1>3, <1>4, <1>5 DEF EqInv

\* One target: only its own entry is remembered.
LEMMA TargetKeepsEqInv == Records /\ EqInv /\ AllocTarget => EqInv'
  <1> SUFFICES ASSUME Records, EqInv, AllocTarget PROVE EqInv'
    BY SMTT(30)
  <1> DEFINE x == work.list[work.pos]
  <1>1. /\ active' = active /\ pc' = pc /\ pc = "eq"
        /\ work.pos \in DOMAIN work.list
        /\ work'.list = work.list /\ work'.multi = work.multi
    <2>1. work' = [work EXCEPT !.pos = @ + 1]
          \/ work' = [work EXCEPT !.pos = 1, !.itNo = @ + 1]
      BY DEF AllocTarget, NextTarget
    <2> QED
      BY <2>1 DEF AllocTarget, Records
  <1>2. CASE work.multi
    <2>1. PICK goal, vol :
            eq' = [eq EXCEPT !.incVol[x.demand][x.per] = @ + vol,
                             !.prevDesVol[x.demand][x.per] = goal]
      BY <1>2 DEF AllocTarget
    <2> DEFINE inc == [eq.incVol EXCEPT ![x.demand][x.per] = @ + vol]
               prev == [eq.prevDesVol EXCEPT ![x.demand][x.per] = goal]
    <2>2. eq' = [active |-> eq.active, desIncVol |-> eq.desIncVol,
                 incVol |-> inc, prevDesVol |-> prev]
      BY <2>1 DEF EqInv, EqHasItsParts
    <2>3. /\ eq'.active = eq.active /\ eq'.desIncVol = eq.desIncVol
          /\ eq'.incVol = inc /\ eq'.prevDesVol = prev
      BY <2>2
    <2>4. IsTable(eq.prevDesVol)
      BY DEF EqInv, EqHasItsParts
    <2>5. prev = [eq.prevDesVol EXCEPT ![x.demand][x.per] = goal]
      OBVIOUS
    <2> HIDE DEF prev, inc, x
    <2>6. /\ IsTable(prev)
          /\ \A e \in Demands, u \in Periods :
               \/ e = x.demand /\ u = x.per
               \/ prev[e][u] = eq.prevDesVol[e][u]
      <3>1. PICK f : f = eq.prevDesVol
        OBVIOUS
      <3>2. PICK d, t : d = x.demand /\ t = x.per
        OBVIOUS
      <3>3. IsTable(f) /\ prev = [f EXCEPT ![d][t] = goal]
        BY <2>4, <2>5, <3>1, <3>2
      <3>4. IsTable(prev)
        BY <3>3, EntryOfTable
      <3>5. ASSUME NEW e \in Demands, NEW u \in Periods
            PROVE  (e = d /\ u = t) \/ prev[e][u] = f[e][u]
        BY <3>3, EntryOfTable
      <3> QED
        BY <3>1, <3>2, <3>4, <3>5
    <2> USE DEF x
    <2>7. EqHasItsParts'
      BY <2>2, <2>3, <2>6 DEF EqHasItsParts
    <2>8. EqIsActive'
      BY <1>1, <2>3 DEF EqInv, EqIsActive
    <2>9. OnlyTargetsDesiredBefore'
      BY SMTT(30), <1>1, <1>2, <2>3, <2>6
         DEF EqInv, OnlyTargetsDesiredBefore, IsTarget
    <2> QED
      BY SMTT(30), <2>7, <2>8, <2>9 DEF EqInv
  <1>3. CASE ~work.multi
    <2>1. PICK vol : eq' = [eq EXCEPT !.incVol[x.demand][x.per] = vol]
      BY <1>3 DEF AllocTarget
    <2>2. eq' = [active |-> eq.active, desIncVol |-> eq.desIncVol,
                 incVol |-> [eq.incVol EXCEPT ![x.demand][x.per] = vol],
                 prevDesVol |-> eq.prevDesVol]
      BY <2>1 DEF EqInv, EqHasItsParts
    <2> QED
      BY <1>1, <2>2, EqOtherParts DEF EqInv, EqIsActive
  <1> QED
    BY <1>2, <1>3

\* The end of an allocation: every entry is 0 again.
LEMMA EndKeepsEqInv == EqInv /\ EndEqAlloc => EqInv'
  <1> SUFFICES ASSUME EqInv, EndEqAlloc PROVE EqInv'
    OBVIOUS
  <1> DEFINE reset == [d \in Demands |-> [t \in Periods |->
                        IF IsTarget(work.list, d, t)
                        THEN 0 ELSE eq.prevDesVol[d][t]]]
  <1>1. CASE work.multi
    <2>1. eq' = [eq EXCEPT !.prevDesVol = reset]
      BY <1>1 DEF EndEqAlloc, PrevReset, IsTarget
    <2>2. eq' = [active |-> eq.active, desIncVol |-> eq.desIncVol,
                 incVol |-> eq.incVol, prevDesVol |-> reset]
      BY <2>1 DEF EqInv, EqHasItsParts
    <2>3. reset = Zeros
      <3>1. \A d \in Demands, t \in Periods : reset[d][t] = 0
        BY DEF EqInv, OnlyTargetsDesiredBefore
      <3>2. IsTable(reset)
        BY DEF IsTable
      <3> HIDE DEF reset
      <3> QED
        BY <3>1, <3>2, ZeroIsZeros
    <2> HIDE DEF reset
    <2>4. eq'.active = eq.active
      BY <2>2
    <2> QED
      BY <2>2, <2>3, <2>4, EqFresh DEF EndEqAlloc, EqInv, EqIsActive
  <1>2. CASE ~work.multi
    <2>1. eq.prevDesVol = Zeros
      BY <1>2, ZeroIsZeros
         DEF EqInv, EqHasItsParts, OnlyTargetsDesiredBefore
    <2>2. eq' = eq
      BY <1>2 DEF EndEqAlloc
    <2> QED
      BY <2>1, <2>2, EqFresh DEF EndEqAlloc, EqInv, EqIsActive, EqHasItsParts
  <1> QED
    BY <1>1, <1>2

\* The allocator, for every action.
LEMMA EqInvStep == Records /\ EqInv /\ [Next]_vars => EqInv'
  <1> SUFFICES ASSUME Records, EqInv, [Next]_vars PROVE EqInv'
    OBVIOUS
  <1>1. /\ eq = [active |-> eq.active, desIncVol |-> eq.desIncVol,
                 incVol |-> eq.incVol, prevDesVol |-> eq.prevDesVol]
        /\ eq.active \in BOOLEAN /\ active \in BOOLEAN
        /\ eq.active => active
        /\ pc # "idle" => eq.active
        /\ pc = "idle" => eq.prevDesVol = Zeros
    <2>1. ASSUME pc = "idle" PROVE eq.prevDesVol = Zeros
      BY <2>1, ZeroIsZeros
         DEF EqInv, EqHasItsParts, OnlyTargetsDesiredBefore
    <2> QED
      BY <2>1 DEF EqInv, EqHasItsParts, EqIsActive
  <1>2. CASE Implode
    BY <1>2, InactiveParts, EqFresh DEF Implode
  <1>3. CASE witStartHeurAlloc \/ EndHeurAlloc
    <2>1. eq' = Inactive /\ pc' = "idle" /\ active' \in BOOLEAN
      BY <1>3 DEF witStartHeurAlloc, EndHeurAlloc, Called
    <2> QED
      BY <2>1, EqInactive
  <1>4. CASE witIncHeurAlloc
    BY <1>4, EqKept DEF witIncHeurAlloc
  <1>5. CASE witEqHeurAlloc
    <2>1. PICK list : BeginEqAlloc(WithDesired(Activated(eq), list), list, FALSE)
      BY <1>5 DEF witEqHeurAlloc
    <2>2. /\ pc = "idle" /\ active /\ active' = active
      BY <1>5 DEF witEqHeurAlloc, Called
    <2>3. PICK des1, inc : Activated(eq) = [active |-> TRUE,
                                            desIncVol |-> des1,
                                            incVol |-> inc,
                                            prevDesVol |-> eq.prevDesVol]
      <3>1. CASE eq.active
        BY <1>1, <3>1 DEF Activated
      <3>2. CASE ~eq.active
        BY <1>1, <2>2, <3>2 DEF Activated, Inactive
      <3> QED
        BY <3>1, <3>2
    <2>4. PICK des : WithDesired(Activated(eq), list)
                       = [active |-> TRUE, desIncVol |-> des, incVol |-> inc,
                          prevDesVol |-> eq.prevDesVol]
      <3>1. PICK e : e = Activated(eq)
        OBVIOUS
      <3>2. PICK r : r = WithDesired(e, list)
        OBVIOUS
      <3>3. PICK prev : prev = eq.prevDesVol
        OBVIOUS
      <3>4. e = [active |-> TRUE, desIncVol |-> des1, incVol |-> inc,
                 prevDesVol |-> prev]
        BY <2>3, <3>1, <3>3
      <3>5. PICK des : r = [e EXCEPT !.desIncVol = des]
        BY <3>2 DEF WithDesired
      <3>6. r = [active |-> TRUE, desIncVol |-> des, incVol |-> inc,
                 prevDesVol |-> prev]
        BY <3>4, <3>5
      <3> QED
        BY <3>1, <3>2, <3>3, <3>6
    <2> QED
      BY <2>1, <2>2, <2>4, BeginKeepsEqInv
  <1>6. CASE AllocTarget
    BY <1>6, TargetKeepsEqInv
  <1>7. CASE EndEqAlloc
    BY <1>7, EndKeepsEqInv
  <1>8. CASE AllocGroup \/ AllocLastGroup
    <2>1. /\ BeginEqAlloc(eq, Reverse(selected), TRUE)
          /\ pc = "scan" /\ active' = active
      BY <1>8 DEF AllocGroup, AllocLastGroup, Scanning
    <2>2. /\ eq.active = TRUE /\ active
          /\ eq = [active |-> TRUE, desIncVol |-> eq.desIncVol,
                   incVol |-> eq.incVol, prevDesVol |-> eq.prevDesVol]
      BY <1>1, <2>1
    <2> QED
      BY <2>1, <2>2, BeginKeepsEqInv
  <1>9. CASE SelectForEqAlloc
    <2>1. PICK list : eq' = WithDesired(eq, list)
      BY <1>9 DEF SelectForEqAlloc
    <2>2. PICK des : eq' = [active |-> eq.active, desIncVol |-> des,
                            incVol |-> eq.incVol, prevDesVol |-> eq.prevDesVol]
      BY <1>1, <2>1 DEF WithDesired
    <2>3. pc = "scan" /\ pc' = pc /\ active' = active
      BY <1>9 DEF SelectForEqAlloc, Scanning
    <2> QED
      BY <1>1, <2>2, <2>3, EqOtherParts
  <1>10. CASE PassOver \/ IncAlloc \/ NextShipPer \/ NextDemPer
    BY <1>10, EqKept DEF PassOver, IncAlloc, NextShipPer, NextDemPer
  <1>11. CASE FinishImplosion
    <2>1. eq' = Inactive /\ pc' = "idle" /\ active' = FALSE
      BY <1>11 DEF FinishImplosion
    <2> QED
      BY <2>1, EqInactive
  <1>12. CASE UNCHANGED vars
    BY <1>12, EqKept DEF vars
  <1> QED
    BY <1>2, <1>3, <1>4, <1>5, <1>6, <1>7, <1>8, <1>9, <1>10, <1>11, <1>12
       DEF Next, ApiCall, ImplosionStep, EqStep

\* The sorting, for every action.  Data does not change during a call.
LEMMA SortedStep == Records /\ SortedForPeriod /\ [Next]_vars
                      => SortedForPeriod'
  <1> SUFFICES ASSUME Records, SortedForPeriod, [Next]_vars
               PROVE  SortedForPeriod'
    OBVIOUS
  <1>1. ASSUME data' = data, sorted' = sorted, place'.demPer = place.demPer,
               pc' = "scan" \/ (pc' = "eq" /\ work'.imploding)
                 => pc = "scan" \/ (pc = "eq" /\ work.imploding)
        PROVE  SortedForPeriod'
    <2>1. \A t : ModPriority(t)' = ModPriority(t)
      BY <1>1 DEF ModPriority, MaxPri
    <2>2. CASE pc = "scan" \/ (pc = "eq" /\ work.imploding)
      <3>1. ModPriority(place.demPer)' = ModPriority(place.demPer)
        BY <1>1, <2>1
      <3> QED
        BY <1>1, <2>2, <3>1 DEF SortedForPeriod
    <2> QED
      BY <1>1, <2>2 DEF SortedForPeriod
  <1>2. CASE Implode
    <2>1. /\ data' = data /\ place'.demPer = 0
          /\ sorted' = SortedBy(ModPriority(0))
      BY <1>2 DEF Implode, SortedFor, PrioritiesAreDifferent
    <2>2. \A t : ModPriority(t)' = ModPriority(t)
      BY <2>1 DEF ModPriority, MaxPri
    <2>3. ModPriority(place.demPer)' = ModPriority(0)
      BY <2>1, <2>2
    <2>4. 0 \in Periods
      BY PeriodsAssumption DEF Periods
    <2> QED
      BY <2>1, <2>3, <2>4 DEF SortedForPeriod
  <1>3. CASE NextDemPer
    <2>1. /\ data' = data /\ pc = "scan"
          /\ place.demPer \in Periods
          /\ place'.demPer = place.demPer + 1
          /\ place.demPer < NPeriods - 1
          /\ sorted' = SortedFor(place.demPer + 1)
          /\ sorted = SortedBy(ModPriority(place.demPer))
      BY <1>3 DEF NextDemPer, PeriodDone, SortedForPeriod
    <2>2. /\ place.demPer + 1 \in Periods
          /\ (place.demPer + 1) - 1 = place.demPer
      BY <2>1, PeriodsAssumption DEF Periods
    <2>3. sorted' = SortedBy(ModPriority(place.demPer + 1))
      BY <2>1, <2>2 DEF SortedFor, PrioritiesAreDifferent
    <2>4. \A t : ModPriority(t)' = ModPriority(t)
      BY <2>1 DEF ModPriority, MaxPri
    <2>5. ModPriority(place.demPer)' = ModPriority(place.demPer + 1)
      BY <2>1, <2>4
    <2> QED
      BY <2>1, <2>2, <2>3, <2>5 DEF SortedForPeriod
  <1>4. CASE witStartHeurAlloc \/ EndHeurAlloc \/ witIncHeurAlloc
             \/ witEqHeurAlloc
    BY SMTT(30), <1>1, <1>4 DEF witStartHeurAlloc, EndHeurAlloc, witIncHeurAlloc,
       witEqHeurAlloc, BeginEqAlloc, imploder, Called
  <1>5. CASE AllocTarget
    <2>1. work' = [work EXCEPT !.pos = @ + 1]
          \/ work' = [work EXCEPT !.pos = 1, !.itNo = @ + 1]
      BY <1>5 DEF AllocTarget, NextTarget
    <2>2. work'.imploding = work.imploding
      BY <2>1 DEF Records
    <2> QED
      BY <1>1, <1>5, <2>2 DEF AllocTarget, imploder
  <1>6. CASE EndEqAlloc
    BY <1>1, <1>6 DEF EndEqAlloc
  <1>7. CASE AllocGroup \/ AllocLastGroup
    BY <1>1, <1>7 DEF AllocGroup, AllocLastGroup, Scanning, imploder
  <1>8. CASE PassOver \/ IncAlloc \/ SelectForEqAlloc \/ NextShipPer
    <2>1. place'.demPer = place.demPer
      BY <1>8 DEF PassOver, IncAlloc, SelectForEqAlloc, NextShipPer, NextDemand,
         Records
    <2> QED
      BY <1>1, <1>8, <2>1 DEF PassOver, IncAlloc, SelectForEqAlloc, NextShipPer,
         Scanning, PeriodDone
  <1>9. CASE FinishImplosion
    BY <1>1, <1>9 DEF FinishImplosion, imploder
  <1>10. CASE UNCHANGED vars
    BY <1>1, <1>10 DEF vars, imploder
  <1> QED
    BY <1>2, <1>3, <1>4, <1>5, <1>6, <1>7, <1>8, <1>9, <1>10
       DEF Next, ApiCall, ImplosionStep, EqStep

\* ... and always.
LEMMA Invariance == Spec => []IInv
  <1>1. IInv /\ [Next]_vars => IInv'
    BY RecordsStep, EqInvStep, SortedStep DEF IInv, EqInv
  <1> QED
    BY InitIInv, <1>1, PTL DEF Spec

-------------------------------------------------------------------------------
(* What the operators on the equitable allocator and its lists do. *)

Targets == [demand : Demands, per : Periods, vol : Nat]

EqRec == [active : BOOLEAN, desIncVol : Schedules, incVol : Schedules,
          prevDesVol : Schedules]

WorkRec == [list : Seq(Targets), multi : BOOLEAN, itNo : Nat, pos : Nat,
            imploding : BOOLEAN]

PlaceRec == [demPer : Periods, shipPer : Periods, idx : Nat]

Distinct(list) ==
  \A i, j \in DOMAIN list :
     list[i].demand = list[j].demand /\ list[i].per = list[j].per => i = j

\* The targets of a list.
LEMMA ListEntry ==
  ASSUME NEW list \in Seq(Targets)
  PROVE  /\ DOMAIN list = 1..Len(list) /\ Len(list) \in Nat
         /\ \A i \in DOMAIN list :
              /\ list[i] \in Targets /\ list[i].demand \in Demands
              /\ list[i].per \in Periods /\ list[i].vol \in Nat
  <1>1. DOMAIN list = 1..Len(list) /\ Len(list) \in Nat
    OBVIOUS
  <1>2. \A i \in DOMAIN list : list[i] \in Targets
    OBVIOUS
  <1>3. \A x \in Targets : x.demand \in Demands /\ x.per \in Periods /\ x.vol \in Nat
    BY DEF Targets
  <1> QED
    BY <1>1, <1>2, <1>3

\* A schedule that is 0 at the targets of a list and another elsewhere.
LEMMA ClearedFacts ==
  ASSUME NEW f \in Schedules, NEW list, NEW g,
         g = [d \in Demands |-> [t \in Periods |->
                IF IsTarget(list, d, t) THEN 0 ELSE f[d][t]]]
  PROVE  /\ g \in Schedules
         /\ \A d \in Demands, t \in Periods :
              g[d][t] = IF IsTarget(list, d, t) THEN 0 ELSE f[d][t]
  <1>1. \A d \in Demands, t \in Periods : f[d][t] \in Nat
    BY ScheduleEntry
  <1> QED
    BY <1>1 DEF Schedules

\* One entry of a schedule changes.
WithEntry(f, d, t, v) == [f EXCEPT ![d][t] = v]

\* A schedule of which one entry is replaced.
LEMMA EntryFacts ==
  ASSUME NEW f \in Schedules, NEW d \in Demands, NEW t \in Periods, NEW v \in Nat
  PROVE  /\ WithEntry(f, d, t, v) \in Schedules
         /\ \A e \in Demands, u \in Periods :
              WithEntry(f, d, t, v)[e][u] = IF e = d /\ u = t THEN v ELSE f[e][u]
         /\ \A e \in Demands : e # d => WithEntry(f, d, t, v)[e] = f[e]
  <1>1. f[d] \in [Periods -> Nat]
    BY ScheduleEntry
  <1>2. PICK row : row = [f[d] EXCEPT ![t] = v]
    OBVIOUS
  <1>3. row \in [Periods -> Nat]
    BY <1>1, <1>2
  <1>4. WithEntry(f, d, t, v) = [f EXCEPT ![d] = row]
    BY <1>2 DEF WithEntry
  <1> QED
    BY <1>1, <1>2, <1>3, <1>4 DEF Schedules

\* A schedule of zeros is a schedule.
LEMMA ZerosType == Zeros \in Schedules
  BY DEF Zeros, Schedules

\* An equitable allocator that is not active, and one that has been activated.
LEMMA InactiveFacts ==
  /\ Inactive \in EqRec /\ Inactive.active = FALSE /\ Inactive.prevDesVol = Zeros
  /\ \A e \in EqRec :
       /\ Activated(e) \in EqRec /\ Activated(e).active
       /\ e.prevDesVol = Zeros => Activated(e).prevDesVol = Zeros
  <1>1. Inactive \in EqRec /\ Inactive.active = FALSE /\ Inactive.prevDesVol = Zeros
    BY ZerosType DEF Inactive, EqRec
  <1>2. ASSUME NEW e \in EqRec
        PROVE  /\ Activated(e) \in EqRec /\ Activated(e).active
               /\ e.prevDesVol = Zeros => Activated(e).prevDesVol = Zeros
    <2>1. CASE e.active
      BY <2>1 DEF Activated
    <2>2. CASE ~e.active
      <3>1. Activated(e) = [Inactive EXCEPT !.active = TRUE]
        BY <2>2 DEF Activated
      <3>2. [Inactive EXCEPT !.active = TRUE] \in EqRec
        BY <1>1 DEF EqRec
      <3>3. Activated(e).active = TRUE /\ Activated(e).prevDesVol = Zeros
        BY <1>1, <3>1 DEF EqRec
      <3> QED
        BY <3>1, <3>2, <3>3
    <2> QED
      BY <2>1, <2>2
  <1> QED
    BY <1>1, <1>2

\* Only the desired volumes of the targets are set, each to what its list says.
LEMMA WithDesiredFacts ==
  ASSUME NEW e \in EqRec, NEW list \in Seq(Targets), Distinct(list),
         NEW r, r = WithDesired(e, list)
  PROVE  /\ r \in EqRec
         /\ r.active = e.active /\ r.incVol = e.incVol /\ r.prevDesVol = e.prevDesVol
         /\ \A i \in DOMAIN list : r.desIncVol[list[i].demand][list[i].per] = list[i].vol
         /\ \A d \in Demands, t \in Periods :
              ~IsTarget(list, d, t) => r.desIncVol[d][t] = e.desIncVol[d][t]
  <1>1. PICK at : at = [d \in Demands |-> [t \in Periods |->
                          {i \in DOMAIN list : list[i].demand = d /\ list[i].per = t}]]
    OBVIOUS
  <1>2. PICK old : old = e.desIncVol
    OBVIOUS
  <1>3. old \in Schedules
    BY <1>2 DEF EqRec
  <1>4. PICK g : g = [d \in Demands |-> [t \in Periods |->
                        IF at[d][t] = {} THEN old[d][t]
                        ELSE list[CHOOSE i \in at[d][t] : TRUE].vol]]
    OBVIOUS
  <1>5. r = [e EXCEPT !.desIncVol = g]
    <2>1. PICK h : h = [d \in Demands |-> [t \in Periods |->
                    IF {i \in DOMAIN list : list[i].demand = d /\ list[i].per = t} = {}
                    THEN old[d][t]
                    ELSE list[CHOOSE i \in {i \in DOMAIN list :
                                              list[i].demand = d /\ list[i].per = t}
                              : TRUE].vol]]
      OBVIOUS
    <2>2. r = [e EXCEPT !.desIncVol = h]
      BY <1>2, <2>1 DEF WithDesired
    <2>3. ASSUME NEW d \in Demands, NEW t \in Periods PROVE h[d][t] = g[d][t]
      <3>1. PICK S : S = {i \in DOMAIN list : list[i].demand = d /\ list[i].per = t}
        OBVIOUS
      <3>2. h[d][t] = IF S = {} THEN old[d][t] ELSE list[CHOOSE i \in S : TRUE].vol
        BY <2>1, <3>1
      <3>3. S = at[d][t]
        BY <1>1, <3>1
      <3> QED
        BY <1>4, <3>2, <3>3
    <2>4. ASSUME NEW d \in Demands PROVE h[d] = g[d]
      <3>1. h[d] = [t \in Periods |-> h[d][t]]
        BY <2>1
      <3>2. g[d] = [t \in Periods |-> g[d][t]]
        BY <1>4
      <3> QED
        BY <2>3, <3>1, <3>2
    <2>5. h = [d \in Demands |-> h[d]] /\ g = [d \in Demands |-> g[d]]
      BY <1>4, <2>1
    <2>6. h = g
      BY <2>4, <2>5
    <2> QED
      BY <2>2, <2>6
  <1>6. ASSUME NEW d \in Demands, NEW t \in Periods, IsTarget(list, d, t)
        PROVE  \E i \in DOMAIN list : /\ list[i].demand = d /\ list[i].per = t
                                      /\ g[d][t] = list[i].vol
    <2>1. at[d][t] # {}
      BY <1>1, <1>6 DEF IsTarget
    <2>2. PICK k : k = CHOOSE i \in at[d][t] : TRUE
      OBVIOUS
    <2>3. k \in at[d][t]
      BY <2>1, <2>2
    <2>4. k \in DOMAIN list /\ list[k].demand = d /\ list[k].per = t
      BY <1>1, <2>3
    <2>5. g[d][t] = list[k].vol
      BY <1>4, <2>1, <2>2
    <2> QED
      BY <2>4, <2>5
  <1>7. ASSUME NEW d \in Demands, NEW t \in Periods, ~IsTarget(list, d, t)
        PROVE  g[d][t] = old[d][t]
    <2>1. at[d][t] = {}
      BY <1>1, <1>7 DEF IsTarget
    <2> QED
      BY <1>4, <2>1
  <1>8. ASSUME NEW d \in Demands, NEW t \in Periods PROVE g[d][t] \in Nat
    <2>1. CASE IsTarget(list, d, t)
      BY <1>6, <2>1, ListEntry
    <2>2. CASE ~IsTarget(list, d, t)
      BY <1>3, <1>7, <2>2, ScheduleEntry
    <2> QED
      BY <2>1, <2>2
  <1>9. g \in Schedules
    <2>1. ASSUME NEW d \in Demands PROVE g[d] \in [Periods -> Nat]
      <3>1. g[d] = [t \in Periods |-> g[d][t]]
        BY <1>4
      <3> QED
        BY <1>8, <3>1
    <2>2. g = [d \in Demands |-> g[d]]
      BY <1>4
    <2> QED
      BY <2>1, <2>2 DEF Schedules
  <1>10. r \in EqRec
    BY <1>5, <1>9 DEF EqRec
  <1>11. /\ r.active = e.active /\ r.incVol = e.incVol /\ r.prevDesVol = e.prevDesVol
         /\ r.desIncVol = g
    BY <1>5 DEF EqRec
  <1>12. ASSUME NEW i \in DOMAIN list
         PROVE  g[list[i].demand][list[i].per] = list[i].vol
    <2>1. PICK d, t : d = list[i].demand /\ t = list[i].per
      OBVIOUS
    <2>2. d \in Demands /\ t \in Periods
      BY <2>1, ListEntry
    <2>3. IsTarget(list, d, t)
      BY <2>1 DEF IsTarget
    <2>4. PICK k \in DOMAIN list : /\ list[k].demand = d /\ list[k].per = t
                                   /\ g[d][t] = list[k].vol
      BY <1>6, <2>2, <2>3
    <2>5. k = i
      BY <2>1, <2>4 DEF Distinct
    <2> QED
      BY <2>1, <2>4, <2>5
  <1> QED
    BY <1>2, <1>7, <1>10, <1>11, <1>12

\* What eqAlloc sets before its first target: nothing is allocated yet.
LEMMA BeginFacts ==
  ASSUME NEW e \in EqRec, NEW list \in Seq(Targets), NEW imploding \in BOOLEAN,
         BeginEqAlloc(e, list, imploding)
  PROVE  /\ work' \in WorkRec /\ work'.list = list /\ work'.itNo = 1 /\ work'.pos = 1
         /\ work'.imploding = imploding
         /\ eq' \in EqRec
         /\ eq'.active = e.active /\ eq'.desIncVol = e.desIncVol
         /\ eq'.prevDesVol = e.prevDesVol
         /\ work'.multi => \A d \in Demands, t \in Periods :
                             IsTarget(list, d, t) => eq'.incVol[d][t] = 0
         /\ pc' = "eq"
  <1>1. PICK multi : multi = (data.forcedMultiEq \/ MultiSigDDs(e, list))
    OBVIOUS
  <1>2. multi \in BOOLEAN
    BY <1>1 DEF MultiSigDDs
  <1>3. work' = [list |-> list, multi |-> multi, itNo |-> 1, pos |-> 1,
                 imploding |-> imploding]
    BY <1>1 DEF BeginEqAlloc
  <1>4. /\ work' \in WorkRec /\ work'.list = list /\ work'.itNo = 1 /\ work'.pos = 1
        /\ work'.imploding = imploding
    BY <1>2, <1>3 DEF WorkRec
  <1>5. work'.multi = multi
    BY <1>3
  <1>6. PICK old : old = e.incVol
    OBVIOUS
  <1>7. old \in Schedules
    BY <1>6 DEF EqRec
  <1>8. PICK g : g = [d \in Demands |-> [t \in Periods |->
                        IF IsTarget(list, d, t) THEN 0 ELSE old[d][t]]]
    OBVIOUS
  <1>9. /\ g \in Schedules
        /\ \A d \in Demands, t \in Periods :
             g[d][t] = IF IsTarget(list, d, t) THEN 0 ELSE old[d][t]
    BY <1>7, <1>8, ClearedFacts
  <1>10. CASE multi
    <2>1. eq' = [e EXCEPT !.incVol = g]
      BY <1>1, <1>6, <1>8, <1>10 DEF BeginEqAlloc, IsTarget
    <2>2. eq' \in EqRec
      BY <1>9, <2>1 DEF EqRec
    <2>3. /\ eq'.active = e.active /\ eq'.desIncVol = e.desIncVol
          /\ eq'.prevDesVol = e.prevDesVol /\ eq'.incVol = g
      BY <2>1 DEF EqRec
    <2> QED
      BY <1>4, <1>9, <2>2, <2>3 DEF BeginEqAlloc
  <1>11. CASE ~multi
    <2>1. eq' = e
      BY <1>1, <1>11 DEF BeginEqAlloc
    <2> QED
      BY <1>4, <1>5, <1>11, <2>1 DEF BeginEqAlloc
  <1> QED
    BY <1>2, <1>10, <1>11

\* The reset after the last round leaves the other parts alone.
LEMMA PrevResetFacts ==
  ASSUME NEW e \in EqRec, NEW list, NEW r, r = PrevReset(e, list)
  PROVE  /\ r \in EqRec
         /\ r.active = e.active /\ r.desIncVol = e.desIncVol /\ r.incVol = e.incVol
  <1>1. PICK old : old = e.prevDesVol
    OBVIOUS
  <1>2. old \in Schedules
    BY <1>1 DEF EqRec
  <1>3. PICK g : g = [d \in Demands |-> [t \in Periods |->
                        IF IsTarget(list, d, t) THEN 0 ELSE old[d][t]]]
    OBVIOUS
  <1>4. g \in Schedules
    BY <1>2, <1>3, ClearedFacts
  <1>5. r = [e EXCEPT !.prevDesVol = g]
    BY <1>1, <1>3 DEF PrevReset, IsTarget
  <1>6. r \in EqRec
    BY <1>4, <1>5 DEF EqRec
  <1>7. r.active = e.active /\ r.desIncVol = e.desIncVol /\ r.incVol = e.incVol
    BY <1>5 DEF EqRec
  <1> QED
    BY <1>6, <1>7

\* A reversed list has the same targets.
LEMMA ReverseFacts ==
  ASSUME NEW list \in Seq(Targets), NEW back, back = Reverse(list)
  PROVE  /\ back \in Seq(Targets) /\ Len(back) = Len(list) /\ DOMAIN back = DOMAIN list
         /\ \A i \in DOMAIN list : /\ Len(list) - i + 1 \in DOMAIN list
                                   /\ back[i] = list[Len(list) - i + 1]
  <1>1. PICK n \in Nat : n = Len(list)
    BY ListEntry
  <1>2. back = [i \in 1..n |-> list[(n - i) + 1]]
    BY <1>1 DEF Reverse
  <1>3. ASSUME NEW i \in 1..n PROVE (n - i) + 1 \in 1..n
    OBVIOUS
  <1>4. DOMAIN list = 1..n
    BY <1>1
  <1>5. back \in [1..n -> Targets]
    BY <1>2, <1>3, <1>4, ListEntry
  <1>6. back \in Seq(Targets) /\ Len(back) = n
    BY <1>2, <1>5
  <1> QED
    BY <1>1, <1>2, <1>3, <1>4, <1>6

-------------------------------------------------------------------------------
(* What is unmet and what is shipped are two books of one quantity. *)

\* A schedule of what is unmet of a demand agrees with the shipments.
Book(f, ship, d) ==
  /\ \A u \in Periods : UpTo(f, u) <= UnmetCumDem(ship, d, u)
  /\ UpTo(f, LastPer) = UnmetCumDem(ship, d, LastPer)
  /\ d \notin ShipLate => \A t \in Periods : f[t] = data.demandVol[d][t] - ship[d][t]

\* The sums up to a period of volumes that are equal.
LEMMA UpToSame ==
  ASSUME NEW f, NEW g, \A t \in Periods : f[t] \in Int /\ g[t] = f[t], NEW t \in Periods
  PROVE  UpTo(g, t) = UpTo(f, t)
  <1>1. IsFiniteSet(0..t) /\ \A u \in 0..t : u \in Periods
    BY FirstPeriods
  <1> QED
    BY <1>1, SumSame DEF UpTo

\* A property of the first period that passes on from period to period.
LEMMA PeriodInduction ==
  ASSUME NEW T \in SUBSET Periods, 0 \in T,
         \A t \in T : t + 1 \in Periods => t + 1 \in T
  PROVE  T = Periods
  <1>1. SUFFICES ASSUME Periods \ T # {} PROVE FALSE
    OBVIOUS
  <1>2. PICK R : R = Periods \ T
    OBVIOUS
  <1>3. \A t \in R : t \in Nat
    BY <1>2, PeriodFacts
  <1>4. R \in SUBSET Nat /\ R # {}
    BY <1>1, <1>2, <1>3
  <1>5. PICK t \in R : \A u \in R : t <= u
    BY <1>4, NatMin
  <1>6. t \in Periods /\ t # 0 /\ t \in Int /\ 0 <= t /\ t <= LastPer /\ LastPer \in Int
    BY <1>2, <1>5, PeriodFacts
  <1>7. t - 1 \in Periods /\ ~(t <= t - 1) /\ (t - 1) + 1 = t
    <2>1. t - 1 \in Int /\ 0 <= t - 1 /\ t - 1 <= LastPer
      BY <1>6
    <2> QED
      BY <1>6, <2>1, PeriodFacts
  <1>8. t - 1 \in T
    BY <1>2, <1>5, <1>7
  <1>9. t \in T
    BY <1>6, <1>7, <1>8
  <1> QED
    BY <1>2, <1>5, <1>9

\* No volume is more than the sum up to its period or a later one.
LEMMA UpToBounds ==
  ASSUME NEW f, \A t \in Periods : f[t] \in Nat, NEW s \in Periods
  PROVE  \A u \in Periods : s <= u => f[s] <= UpTo(f, u)
  <1>1. PICK T : T = {u \in Periods : s <= u => f[s] <= UpTo(f, u)}
    OBVIOUS
  <1>2. \A u \in Periods : /\ UpTo(f, u) \in Nat /\ UpTo(f, u) = f[u] + UpTo(f, u - 1)
                           /\ UpTo(f, -1) = 0
    BY UpToNat, UpToFacts
  <1>3. 0 \in Periods /\ s \in Int /\ 0 <= s
    BY PeriodFacts
  <1>4. 0 \in T
    <2>1. UpTo(f, 0) = f[0]
      <3>1. UpTo(f, 0 - 1) = 0
        BY <1>2
      <3> QED
        BY <1>2, <1>3, <3>1
    <2>2. s <= 0 => s = 0
      BY <1>3
    <2> QED
      BY <1>1, <1>3, <2>1, <2>2
  <1>5. ASSUME NEW t \in T, t + 1 \in Periods PROVE t + 1 \in T
    <2>1. t \in Periods /\ t \in Int /\ (t + 1) - 1 = t
      BY <1>1, PeriodFacts
    <2>2. UpTo(f, t + 1) = f[t + 1] + UpTo(f, t)
      BY <1>2, <1>5, <2>1
    <2>3. f[t + 1] \in Nat /\ UpTo(f, t) \in Nat /\ f[s] \in Nat
      BY <1>2, <1>5, <2>1
    <2>4. CASE s <= t
      BY <1>1, <1>3, <1>5, <2>1, <2>2, <2>3, <2>4
    <2>5. CASE s = t + 1
      BY <1>1, <1>3, <1>5, <2>1, <2>2, <2>3, <2>5
    <2>6. s <= t + 1 => s <= t \/ s = t + 1
      BY <1>3, <2>1
    <2> QED
      BY <1>1, <1>5, <2>4, <2>5, <2>6
  <1>6. T = Periods
    BY <1>1, <1>4, <1>5, PeriodInduction
  <1> QED
    BY <1>1, <1>6

\* Volume goes from one book to the other.
LEMMA BookStep ==
  ASSUME DataType, NEW ship \in Schedules, NEW d \in Demands, NEW f,
         \A t \in Periods : f[t] \in Int, Book(f, ship, d),
         NEW p \in Periods, NEW s \in Periods, p <= s, d \notin ShipLate => p = s,
         NEW vol \in Nat, NEW g, \A t \in Periods : g[t] = IF t = p THEN f[t] - vol ELSE f[t]
  PROVE  Book(g, Shipped(ship, d, s, vol), d)
  <1>1. PICK new : new = Shipped(ship, d, s, vol)
    OBVIOUS
  <1>2. PICK w \in Int : w = 0 - vol
    OBVIOUS
  <1>3. \A t \in Periods : g[t] = IF t = p THEN f[t] + w ELSE f[t]
    BY <1>2
  <1>4. ASSUME NEW u \in Periods
        PROVE  /\ UpTo(g, u) = UpTo(f, u) - IF p <= u THEN vol ELSE 0
               /\ UpTo(f, u) \in Int
               /\ UnmetCumDem(new, d, u) = UnmetCumDem(ship, d, u) - IF s <= u THEN vol ELSE 0
               /\ UnmetCumDem(ship, d, u) \in Int
               /\ s <= u => p <= u
    <2>1. UpTo(g, u) = UpTo(f, u) + IF p <= u THEN w ELSE 0
      BY <1>3, UpToChange
    <2>2. UpTo(f, u) \in Int
      BY UpToFacts
    <2>3. UnmetCumDem(new, d, u) = UnmetCumDem(ship, d, u) - IF d = d /\ s <= u THEN vol ELSE 0
      BY <1>1, ShippedUnmetCumDem
    <2>4. UnmetCumDem(ship, d, u) \in Int
      BY UnmetCumDemType
    <2>5. s \in Int /\ p \in Int /\ u \in Int
      BY PeriodFacts
    <2> QED
      BY <1>2, <2>1, <2>2, <2>3, <2>4, <2>5
  <1>5. \A u \in Periods : UpTo(g, u) <= UnmetCumDem(new, d, u)
    <2>1. ASSUME NEW u \in Periods PROVE UpTo(g, u) <= UnmetCumDem(new, d, u)
      <3>1. UpTo(f, u) <= UnmetCumDem(ship, d, u)
        BY DEF Book
      <3> QED
        BY <1>4, <3>1
    <2> QED
      BY <2>1
  <1>6. UpTo(g, LastPer) = UnmetCumDem(new, d, LastPer)
    <2>1. LastPer \in Periods /\ p <= LastPer /\ s <= LastPer
      BY PeriodFacts
    <2>2. UpTo(f, LastPer) = UnmetCumDem(ship, d, LastPer)
      BY DEF Book
    <2> QED
      BY <1>4, <2>1, <2>2
  <1>7. ASSUME d \notin ShipLate, NEW t \in Periods
        PROVE  g[t] = data.demandVol[d][t] - new[d][t]
    <2>1. f[t] = data.demandVol[d][t] - ship[d][t]
      BY <1>7 DEF Book
    <2>2. new[d][t] = IF d = d /\ t = s THEN ship[d][t] + vol ELSE ship[d][t]
      BY <1>1, ShippedFacts
    <2>3. data.demandVol[d][t] \in Int /\ ship[d][t] \in Int
      BY DataFacts, ScheduleEntry
    <2> QED
      BY <1>7, <2>1, <2>2, <2>3
  <1> QED
    BY <1>1, <1>5, <1>6, <1>7 DEF Book

\* A book that is right with one function is right with one of the same values.
LEMMA BookSame ==
  ASSUME NEW f, NEW g, \A t \in Periods : f[t] \in Int /\ g[t] = f[t],
         NEW ship, NEW new, NEW d, new[d] = ship[d], Book(f, ship, d)
  PROVE  Book(g, new, d)
  <1>1. \A u \in Periods : UpTo(g, u) = UpTo(f, u)
    BY UpToSame
  <1>2. \A u \in Periods : UnmetCumDem(new, d, u) = UnmetCumDem(ship, d, u)
    BY DEF UnmetCumDem
  <1>3. LastPer \in Periods
    BY PeriodFacts
  <1> QED
    BY <1>1, <1>2, <1>3 DEF Book

\* What is unmet of a demand that may be shipped in a period is not cut there.
LEMMA UnmetNotCut ==
  ASSUME DataType, NEW ship \in Schedules, NEW d \in Demands, NEW f,
         \A t \in Periods : f[t] \in Nat, Book(f, ship, d),
         NEW p \in Periods, NEW s \in Periods, p <= s, d \notin ShipLate => p = s
  PROVE  f[p] <= IncVolUB(ship, d, s)
  <1>1. CASE d \in ShipLate
    <2>1. PICK w \in Periods : s <= w /\ IncVolUB(ship, d, s) = UnmetCumDem(ship, d, w)
      BY <1>1, IncVolUBFacts
    <2>2. UpTo(f, w) <= UnmetCumDem(ship, d, w) /\ UnmetCumDem(ship, d, w) \in Int
      BY UnmetCumDemType DEF Book
    <2>3. p <= w
      BY <2>1, PeriodFacts
    <2>4. f[p] <= UpTo(f, w) /\ UpTo(f, w) \in Nat /\ f[p] \in Nat
      BY <2>3, UpToBounds, UpToNat
    <2> QED
      BY <2>1, <2>2, <2>4
  <1>2. CASE d \notin ShipLate
    <2>1. f[p] = data.demandVol[d][p] - ship[d][p] /\ p = s
      BY <1>2 DEF Book
    <2>2. IncVolUB(ship, d, s) = data.demandVol[d][s] - ship[d][s]
      BY <1>2, IncVolUBFacts
    <2>3. f[p] \in Nat
      OBVIOUS
    <2> QED
      BY <2>1, <2>2, <2>3
  <1> QED
    BY <1>1, <1>2

-------------------------------------------------------------------------------
(* The netting of a start that the user has given. *)

\* What carried is, from a period on.
IsCarried(d, c, from) ==
  c = [t \in from..NPeriods |->
         IF t = NPeriods THEN 0
         ELSE Max({0, c[t + 1] + shipVol[d][t] - data.demandVol[d][t]})]

\* The recursion of allocShipVols has a value in every period.
LEMMA CarriedExists ==
  ASSUME NEW d \in Demands
  PROVE  \E c : IsCarried(d, c, 0)
  <1>1. SUFFICES ASSUME ~ \E c : IsCarried(d, c, 0) PROVE FALSE
    OBVIOUS
  <1>2. PICK E : E = {k \in Nat : k <= NPeriods /\ ~ \E c : IsCarried(d, c, NPeriods - k)}
    OBVIOUS
  <1>3. NPeriods \in Nat /\ NPeriods \in E
    <2>1. NPeriods \in Nat /\ NPeriods - NPeriods = 0 /\ NPeriods <= NPeriods
      BY PeriodFacts
    <2> QED
      BY <1>1, <1>2, <2>1
  <1>4. PICK k \in E : \A m \in E : k <= m
    BY <1>2, <1>3, NatMin
  <1>5. k \in Nat /\ k <= NPeriods
    BY <1>2
  <1>6. PICK a \in Nat : a = NPeriods - k
    BY <1>3, <1>5
  <1>7. ~ \E c : IsCarried(d, c, a)
    BY <1>2, <1>6
  <1>8. CASE k = 0
    <2>1. PICK c : c = [t \in NPeriods..NPeriods |-> 0]
      OBVIOUS
    <2>2. \A t \in NPeriods..NPeriods : t = NPeriods
      BY <1>3
    <2>3. c = [t \in NPeriods..NPeriods |->
                 IF t = NPeriods THEN 0
                 ELSE Max({0, c[t + 1] + shipVol[d][t] - data.demandVol[d][t]})]
      BY <2>1, <2>2
    <2>4. a = NPeriods
      BY <1>3, <1>6, <1>8
    <2> QED
      BY <1>7, <2>3, <2>4 DEF IsCarried
  <1>9. CASE k # 0
    <2>1. k - 1 \in Nat /\ k - 1 <= NPeriods /\ ~(k <= k - 1) /\ NPeriods - (k - 1) = a + 1
      BY <1>3, <1>5, <1>6, <1>9
    <2>2. PICK c : IsCarried(d, c, a + 1)
      BY <1>2, <1>4, <2>1
    <2>3. PICK e : e = [t \in a..NPeriods |->
                          IF t = a
                          THEN Max({0, c[a + 1] + shipVol[d][a] - data.demandVol[d][a]})
                          ELSE c[t]]
      OBVIOUS
    <2>4. a # NPeriods /\ a + 1 \in Nat /\ a + 1 <= NPeriods
      BY <1>3, <1>5, <1>6, <1>9
    <2>5. ASSUME NEW t \in a..NPeriods
          PROVE  e[t] = IF t = NPeriods THEN 0
                        ELSE Max({0, e[t + 1] + shipVol[d][t] - data.demandVol[d][t]})
      <3>1. t # NPeriods => t + 1 \in (a + 1)..NPeriods /\ t + 1 # a /\ t + 1 \in a..NPeriods
        BY <1>3
      <3>2. t # NPeriods => e[t + 1] = c[t + 1]
        BY <2>3, <3>1
      <3>3. CASE t = a
        BY <2>3, <2>4, <3>2, <3>3
      <3>4. CASE t # a
        <4>1. t \in (a + 1)..NPeriods
          BY <1>3, <3>4
        <4>2. c[t] = IF t = NPeriods THEN 0
                     ELSE Max({0, c[t + 1] + shipVol[d][t] - data.demandVol[d][t]})
          BY <2>2, <4>1 DEF IsCarried
        <4>3. e[t] = c[t]
          BY <2>3, <3>4
        <4> QED
          BY <3>2, <4>2, <4>3
      <3> QED
        BY <3>3, <3>4
    <2>6. e = [t \in a..NPeriods |-> e[t]]
      BY <2>3
    <2>7. IsCarried(d, e, a)
      BY <2>5, <2>6 DEF IsCarried
    <2> QED
      BY <1>7, <2>7
  <1> QED
    BY <1>8, <1>9

\* The cumulative demand that feasible shipments leave unmet is not negative.
LEMMA UnmetCumDemNat ==
  ASSUME DataType, NEW ship \in Schedules, Feasible(ship), NEW d \in Demands
  PROVE  \A t \in Periods : UnmetCumDem(ship, d, t) \in Nat
  <1>1. \A t \in Periods : UnmetCumDem(ship, d, t) \in Int
    BY UnmetCumDemType
  <1>2. CASE d \in ShipLate
    <2>1. ASSUME NEW t \in Periods PROVE UnmetCumDem(ship, d, t) >= 0
      <3>1. IncVolUB(ship, d, t) \in Int /\ IncVolUB(ship, d, t) >= 0
        BY IncVolUBFacts DEF Feasible
      <3>2. t <= t
        BY PeriodFacts
      <3>3. IncVolUB(ship, d, t) <= UnmetCumDem(ship, d, t)
        BY <1>2, <3>2, IncVolUBFacts
      <3> QED
        BY <1>1, <3>1, <3>3
    <2> QED
      BY <1>1, <2>1
  <1>3. CASE d \notin ShipLate
    <2>1. \A t \in Periods : data.demandVol[d][t] - ship[d][t] >= 0
      BY <1>3, IncVolUBFacts DEF Feasible
    <2>2. \A t \in Periods : data.demandVol[d][t] \in Int /\ ship[d][t] \in Int
      BY DataFacts, ScheduleEntry
    <2>3. \A t \in Periods :
            /\ UpTo(data.demandVol[d], t) \in Int
            /\ UpTo(data.demandVol[d], t) = data.demandVol[d][t] + UpTo(data.demandVol[d], t - 1)
            /\ UpTo(data.demandVol[d], -1) = 0
      BY <2>2, UpToFacts
    <2>4. \A t \in Periods :
            /\ UpTo(ship[d], t) \in Int
            /\ UpTo(ship[d], t) = ship[d][t] + UpTo(ship[d], t - 1)
            /\ UpTo(ship[d], -1) = 0
      BY <2>2, UpToFacts
    <2>5. PICK T : T = {t \in Periods : UpTo(data.demandVol[d], t) - UpTo(ship[d], t) >= 0}
      OBVIOUS
    <2>6. 0 \in T
      <3>1. 0 \in Periods /\ 0 - 1 = -1
        BY PeriodFacts
      <3>2. UpTo(data.demandVol[d], 0) = data.demandVol[d][0] + 0 /\ UpTo(ship[d], 0) = ship[d][0] + 0
        BY <2>3, <2>4, <3>1
      <3> QED
        BY <2>1, <2>2, <2>5, <3>1, <3>2
    <2>7. ASSUME NEW t \in T, t + 1 \in Periods PROVE t + 1 \in T
      <3>1. t \in Periods /\ (t + 1) - 1 = t
        BY <2>5, PeriodFacts
      <3>2. /\ UpTo(data.demandVol[d], t + 1) = data.demandVol[d][t + 1] + UpTo(data.demandVol[d], t)
            /\ UpTo(ship[d], t + 1) = ship[d][t + 1] + UpTo(ship[d], t)
        BY <2>3, <2>4, <2>7, <3>1
      <3>3. /\ UpTo(data.demandVol[d], t) \in Int /\ UpTo(ship[d], t) \in Int
            /\ data.demandVol[d][t + 1] \in Int /\ ship[d][t + 1] \in Int
            /\ data.demandVol[d][t + 1] - ship[d][t + 1] >= 0
        BY <2>1, <2>2, <2>3, <2>4, <2>7, <3>1
      <3>4. UpTo(data.demandVol[d], t) - UpTo(ship[d], t) >= 0
        BY <2>5
      <3> QED
        BY <2>5, <2>7, <3>2, <3>3, <3>4
    <2>8. T = Periods
      BY <2>5, <2>6, <2>7, PeriodInduction
    <2>9. ASSUME NEW t \in Periods PROVE UnmetCumDem(ship, d, t) >= 0
      BY <2>5, <2>8 DEF UnmetCumDem
    <2> QED
      BY <1>1, <2>9
  <1> QED
    BY <1>2, <1>3

\* The book of a demand, period by period.
LEMMA UnmetCumDemStep ==
  ASSUME DataType, NEW ship \in Schedules, NEW d \in Demands, NEW t \in Periods
  PROVE  /\ t # 0 => UnmetCumDem(ship, d, t)
                       = UnmetCumDem(ship, d, t - 1) + data.demandVol[d][t] - ship[d][t]
         /\ t # 0 => t - 1 \in Periods
         /\ UnmetCumDem(ship, d, 0) = data.demandVol[d][0] - ship[d][0]
  <1>1. \A u \in Periods : data.demandVol[d][u] \in Int /\ ship[d][u] \in Int
    BY DataFacts, ScheduleEntry
  <1>2. \A u \in Periods :
          /\ UpTo(data.demandVol[d], u) \in Int
          /\ UpTo(data.demandVol[d], u) = data.demandVol[d][u] + UpTo(data.demandVol[d], u - 1)
          /\ UpTo(data.demandVol[d], -1) = 0
    BY <1>1, UpToFacts
  <1>3. \A u \in Periods :
          /\ UpTo(ship[d], u) \in Int
          /\ UpTo(ship[d], u) = ship[d][u] + UpTo(ship[d], u - 1)
          /\ UpTo(ship[d], -1) = 0
    BY <1>1, UpToFacts
  <1>4. t # 0 => t - 1 \in Periods
    <2>1. t \in Int /\ 0 <= t /\ t <= LastPer /\ LastPer \in Int
      BY PeriodFacts
    <2>2. t # 0 => t - 1 \in Int /\ 0 <= t - 1 /\ t - 1 <= LastPer
      BY <2>1
    <2> QED
      BY <2>2, PeriodFacts
  <1>5. 0 \in Periods /\ 0 - 1 = -1
    BY PeriodFacts
  <1>6. /\ UpTo(data.demandVol[d], 0) = data.demandVol[d][0] + 0
        /\ UpTo(ship[d], 0) = ship[d][0] + 0
    BY <1>2, <1>3, <1>5
  <1>7. UnmetCumDem(ship, d, 0) = data.demandVol[d][0] - ship[d][0]
    BY <1>1, <1>5, <1>6 DEF UnmetCumDem
  <1>8. ASSUME t # 0
        PROVE  UnmetCumDem(ship, d, t)
                 = UnmetCumDem(ship, d, t - 1) + data.demandVol[d][t] - ship[d][t]
    <2>1. t - 1 \in Periods
      BY <1>4, <1>8
    <2>2. /\ UpTo(data.demandVol[d], t) = data.demandVol[d][t] + UpTo(data.demandVol[d], t - 1)
          /\ UpTo(ship[d], t) = ship[d][t] + UpTo(ship[d], t - 1)
          /\ UpTo(data.demandVol[d], t - 1) \in Int /\ UpTo(ship[d], t - 1) \in Int
      BY <1>2, <1>3, <2>1
    <2> QED
      BY <1>1, <2>2 DEF UnmetCumDem
  <1> QED
    BY <1>4, <1>7, <1>8

\* The recursion of allocShipVols, whatever function of it is chosen: what is
\* carried is not negative, nothing is carried beyond the first period, and
\* what is netted is what is not carried.
LEMMA NettedByCarried ==
  ASSUME DataType, shipVol \in Schedules, NEW d \in Demands
  PROVE  \E c : /\ IsCarried(d, c, 0)
                /\ Netted(d) = [t \in Periods |->
                     Max({0, data.demandVol[d][t] - shipVol[d][t] - c[t + 1]})]
  <1>1. PICK A, D, S : A = Periods \cup {NPeriods} /\ D = data.demandVol[d] /\ S = shipVol[d]
    OBVIOUS
  <1>2. PICK c : c = CHOOSE carried : carried = [t \in A |->
                       IF t = NPeriods THEN 0
                       ELSE Max({0, carried[t + 1] + S[t] - D[t]})]
    OBVIOUS
  <1>3. Netted(d) = [t \in Periods |-> Max({0, D[t] - S[t] - c[t + 1]})]
    BY <1>1, <1>2 DEF Netted
  <1>4. A = 0..NPeriods
    <2>1. NPeriods \in Nat /\ NPeriods >= 1
      BY PeriodFacts
    <2>2. \A t : t \in Periods <=> t \in 0..(NPeriods - 1)
      BY DEF Periods
    <2> QED
      BY <1>1, <2>1, <2>2
  <1>5. PICK b : IsCarried(d, b, 0)
    BY CarriedExists
  <1>6. b = [t \in A |-> IF t = NPeriods THEN 0 ELSE Max({0, b[t + 1] + S[t] - D[t]})]
    BY <1>1, <1>4, <1>5 DEF IsCarried
  <1>7. c = [t \in A |-> IF t = NPeriods THEN 0 ELSE Max({0, c[t + 1] + S[t] - D[t]})]
    BY <1>2, <1>6
  <1>8. IsCarried(d, c, 0)
    BY <1>1, <1>4, <1>7 DEF IsCarried
  <1> QED
    BY <1>1, <1>3, <1>8

\* What allocShipVols leaves of the demand agrees with the starting shipments.
LEMMA NettedFacts ==
  ASSUME DataType, shipVol \in Schedules, Feasible(shipVol), NEW d \in Demands
  PROVE  Netted(d) \in [Periods -> Nat] /\ Book(Netted(d), shipVol, d)
  <1>1. PICK c : /\ IsCarried(d, c, 0)
                 /\ Netted(d) = [t \in Periods |->
                      Max({0, data.demandVol[d][t] - shipVol[d][t] - c[t + 1]})]
    BY NettedByCarried
  <1>2. PICK n : n = Netted(d)
    OBVIOUS
  <1>3. PICK x : x = [t \in Periods |-> data.demandVol[d][t] - shipVol[d][t]]
    OBVIOUS
  <1>4. \A t \in Periods : x[t] = data.demandVol[d][t] - shipVol[d][t] /\ x[t] \in Int
    BY <1>3, DataFacts, ScheduleEntry
  <1>5. NPeriods \in Nat /\ NPeriods >= 1 /\ 0 \in Periods
    BY PeriodFacts
  <1>6. ASSUME NEW t \in Periods PROVE t \in 0..NPeriods /\ t # NPeriods /\ t + 1 \in 0..NPeriods
    BY <1>5 DEF Periods
  <1>7. c[NPeriods] = 0
    <2>1. NPeriods \in 0..NPeriods
      BY <1>5
    <2> QED
      BY <1>1, <2>1 DEF IsCarried
  <1>8. ASSUME NEW t \in Periods
        PROVE  c[t] = Max({0, c[t + 1] + shipVol[d][t] - data.demandVol[d][t]})
    BY <1>1, <1>6, <1>8 DEF IsCarried
  \* What a period carries, and that it is no more than what was unmet before.
  <1>9. PICK Carries : Carries = {t \in Periods : c[t + 1] \in Nat
                                    /\ c[t + 1] <= UnmetCumDem(shipVol, d, t)
                                    /\ (d \notin ShipLate => c[t + 1] = 0)}
    OBVIOUS
  <1>10. \A t \in Periods : UnmetCumDem(shipVol, d, t) \in Nat
    BY UnmetCumDemNat
  <1>11. ASSUME NEW t \in Periods, c[t + 1] \in Nat
         PROVE  /\ n[t] = IF 0 <= x[t] - c[t + 1] THEN x[t] - c[t + 1] ELSE 0
                /\ c[t] = IF 0 <= c[t + 1] - x[t] THEN c[t + 1] - x[t] ELSE 0
    <2>1. PICK a : a = x[t] - c[t + 1]
      OBVIOUS
    <2>2. PICK b : b = c[t + 1] - x[t]
      OBVIOUS
    <2>3. a \in Int /\ b \in Int
      BY <1>4, <1>11, <2>1, <2>2
    <2>4. /\ data.demandVol[d][t] - shipVol[d][t] - c[t + 1] = a
          /\ c[t + 1] + shipVol[d][t] - data.demandVol[d][t] = b
      BY <1>4, <1>11, <2>1, <2>2, DataFacts, ScheduleEntry
    <2>5. n[t] = Max({0, a}) /\ c[t] = Max({0, b})
      BY <1>1, <1>2, <1>8, <2>4
    <2>6. Max({0, a}) = (IF 0 <= a THEN a ELSE 0) /\ Max({0, b}) = (IF 0 <= b THEN b ELSE 0)
      BY <2>3, MaxOfTwo
    <2> QED
      BY <2>1, <2>2, <2>5, <2>6
  <1>12. ASSUME d \notin ShipLate, NEW t \in Periods PROVE x[t] >= 0
    BY <1>4, <1>12, IncVolUBFacts DEF Feasible
  \* From the last period down.
  <1>13. Carries = Periods
    <2>1. SUFFICES ASSUME Periods \ Carries # {} PROVE FALSE
      BY <1>9
    <2>2. PICK R : R = {NPeriods - t : t \in Periods \ Carries}
      OBVIOUS
    <2>3. ASSUME NEW r \in R PROVE r \in Nat
      BY <1>5, <2>2, PeriodFacts DEF LastPer
    <2>4. R \in SUBSET Nat /\ R # {}
      BY <2>1, <2>2, <2>3
    <2>5. PICK r \in R : \A s \in R : r <= s
      BY <2>4, NatMin
    <2>6. PICK t \in Periods \ Carries : r = NPeriods - t
      BY <2>2, <2>5
    <2>7. \A s \in Periods \ Carries : NPeriods - t <= NPeriods - s
      BY <2>2, <2>5, <2>6
    <2>8. CASE t = LastPer
      <3>1. c[t + 1] = 0
        BY <1>5, <1>7, <2>8 DEF LastPer
      <3> QED
        BY <1>9, <1>10, <2>6, <3>1
    <2>9. CASE t # LastPer
      <3>1. t + 1 \in Periods /\ t + 1 # 0 /\ (t + 1) - 1 = t /\ t \in Nat
        <4>1. t \in Int /\ 0 <= t /\ t <= LastPer /\ LastPer \in Int
          BY PeriodFacts
        <4>2. t + 1 \in Int /\ 0 <= t + 1 /\ t + 1 <= LastPer
          BY <2>9, <4>1
        <4> QED
          BY <4>1, <4>2, PeriodFacts
      <3>2. PICK s \in Periods : s = t + 1
        BY <3>1
      <3>3. ~(NPeriods - t <= NPeriods - s)
        BY <1>5, <3>1, <3>2
      <3>4. s \in Carries
        BY <2>7, <3>3
      <3>5. /\ c[s + 1] \in Nat /\ c[s + 1] <= UnmetCumDem(shipVol, d, s)
            /\ (d \notin ShipLate => c[s + 1] = 0)
        BY <1>9, <3>4
      <3>6. c[s] = IF 0 <= c[s + 1] - x[s] THEN c[s + 1] - x[s] ELSE 0
        BY <1>11, <3>5
      <3>7. UnmetCumDem(shipVol, d, s)
              = UnmetCumDem(shipVol, d, t) + data.demandVol[d][s] - shipVol[d][s]
        BY <3>1, <3>2, UnmetCumDemStep
      <3>8. UnmetCumDem(shipVol, d, s) = UnmetCumDem(shipVol, d, t) + x[s] /\ x[s] \in Int
        <4>1. data.demandVol[d][s] \in Int /\ shipVol[d][s] \in Int
          BY DataFacts, ScheduleEntry
        <4> QED
          BY <1>4, <1>10, <3>7, <4>1
      <3>9. c[s] \in Nat /\ c[s] <= UnmetCumDem(shipVol, d, t)
        BY <1>10, <3>5, <3>6, <3>8
      <3>10. d \notin ShipLate => c[s] = 0
        <4>1. d \notin ShipLate => x[s] >= 0 /\ c[s + 1] = 0
          BY <1>12, <3>5
        <4> QED
          BY <3>6, <3>8, <4>1
      <3> QED
        BY <1>9, <2>6, <3>2, <3>9, <3>10
    <2> QED
      BY <2>8, <2>9
  <1>14. \A t \in Periods : /\ c[t + 1] \in Nat /\ c[t + 1] <= UnmetCumDem(shipVol, d, t)
                            /\ (d \notin ShipLate => c[t + 1] = 0)
    BY <1>9, <1>13
  <1>15. ASSUME NEW t \in Periods PROVE n[t] \in Nat /\ c[t] \in Nat /\ n[t] = x[t] - c[t + 1] + c[t]
    <2>1. c[t + 1] \in Nat /\ x[t] \in Int
      BY <1>4, <1>14
    <2> QED
      BY <1>11, <2>1
  <1>16. n = [t \in Periods |-> n[t]]
    BY <1>1, <1>2
  <1>17. n \in [Periods -> Nat]
    BY <1>15, <1>16
  <1>18. c[0] = 0
    <2>1. c[0 + 1] \in Nat /\ c[0 + 1] <= UnmetCumDem(shipVol, d, 0) /\ x[0] \in Int
      BY <1>4, <1>5, <1>14
    <2>2. UnmetCumDem(shipVol, d, 0) = x[0]
      BY <1>4, <1>5, UnmetCumDemStep
    <2>3. c[0] = IF 0 <= c[0 + 1] - x[0] THEN c[0 + 1] - x[0] ELSE 0
      BY <1>5, <1>11, <2>1
    <2> QED
      BY <2>1, <2>2, <2>3
  <1>19. \A t \in Periods : /\ UpTo(n, t) \in Int /\ UpTo(n, t) = n[t] + UpTo(n, t - 1)
                            /\ UpTo(n, -1) = 0
    <2>1. \A t \in Periods : n[t] \in Int
      BY <1>15
    <2> QED
      BY <2>1, UpToFacts
  <1>20. PICK T : T = {t \in Periods : UpTo(n, t) = UnmetCumDem(shipVol, d, t) - c[t + 1]}
    OBVIOUS
  <1>21. 0 \in T
    <2>1. UpTo(n, 0) = n[0]
      <3>1. UpTo(n, 0 - 1) = 0
        BY <1>5, <1>19
      <3>2. n[0] \in Nat
        BY <1>5, <1>15
      <3> QED
        BY <1>5, <1>19, <3>1, <3>2
    <2>2. n[0] = x[0] - c[0 + 1] + c[0] /\ c[0 + 1] \in Nat /\ x[0] \in Int
      BY <1>4, <1>5, <1>14, <1>15
    <2>3. UnmetCumDem(shipVol, d, 0) = x[0]
      BY <1>4, <1>5, UnmetCumDemStep
    <2>4. UpTo(n, 0) = UnmetCumDem(shipVol, d, 0) - c[0 + 1]
      BY <1>18, <2>1, <2>2, <2>3
    <2> QED
      BY <1>5, <1>20, <2>4
  <1>22. ASSUME NEW t \in T, t + 1 \in Periods PROVE t + 1 \in T
    <2>1. PICK s \in Periods : s = t + 1
      BY <1>22
    <2>2. t \in Periods /\ t \in Nat /\ s - 1 = t /\ s # 0
      <3>1. t \in Periods
        BY <1>20
      <3>2. t \in Nat
        BY <3>1, PeriodFacts
      <3> QED
        BY <2>1, <3>1, <3>2
    <2>3. UpTo(n, s) = n[s] + UpTo(n, t)
      BY <1>19, <2>2
    <2>4. UpTo(n, t) = UnmetCumDem(shipVol, d, t) - c[s]
      BY <1>20, <2>1
    <2>5. n[s] = x[s] - c[s + 1] + c[s] /\ c[s] \in Nat /\ c[s + 1] \in Nat /\ x[s] \in Int
      BY <1>4, <1>14, <1>15
    <2>6. UnmetCumDem(shipVol, d, s) = UnmetCumDem(shipVol, d, t) + x[s]
      <3>1. UnmetCumDem(shipVol, d, s)
              = UnmetCumDem(shipVol, d, t) + data.demandVol[d][s] - shipVol[d][s]
        BY <2>2, UnmetCumDemStep
      <3>2. data.demandVol[d][s] \in Int /\ shipVol[d][s] \in Int
        BY DataFacts, ScheduleEntry
      <3> QED
        BY <1>4, <1>10, <2>2, <3>1, <3>2
    <2>7. UnmetCumDem(shipVol, d, t) \in Nat
      BY <1>10, <2>2
    <2>8. UpTo(n, s) = UnmetCumDem(shipVol, d, s) - c[s + 1]
      BY <2>3, <2>4, <2>5, <2>6, <2>7
    <2> QED
      BY <1>20, <2>1, <2>8
  <1>23. T = Periods
    BY <1>20, <1>21, <1>22, PeriodInduction
  <1>24. \A u \in Periods : UpTo(n, u) <= UnmetCumDem(shipVol, d, u)
    <2>1. ASSUME NEW u \in Periods PROVE UpTo(n, u) <= UnmetCumDem(shipVol, d, u)
      <3>1. /\ UpTo(n, u) = UnmetCumDem(shipVol, d, u) - c[u + 1]
            /\ c[u + 1] \in Nat /\ UnmetCumDem(shipVol, d, u) \in Nat
        BY <1>10, <1>14, <1>20, <1>23
      <3> QED
        BY <3>1
    <2> QED
      BY <2>1
  <1>25. UpTo(n, LastPer) = UnmetCumDem(shipVol, d, LastPer)
    <2>1. LastPer \in Periods /\ LastPer + 1 = NPeriods
      BY <1>5, PeriodFacts DEF LastPer
    <2>2. /\ UpTo(n, LastPer) = UnmetCumDem(shipVol, d, LastPer) - c[LastPer + 1]
          /\ UnmetCumDem(shipVol, d, LastPer) \in Nat
      BY <1>10, <1>20, <1>23, <2>1
    <2> QED
      BY <1>7, <2>1, <2>2
  <1>26. ASSUME d \notin ShipLate, NEW t \in Periods
         PROVE  n[t] = data.demandVol[d][t] - shipVol[d][t]
    <2>1. c[t + 1] = 0 /\ x[t] \in Int /\ x[t] >= 0
      BY <1>4, <1>12, <1>14, <1>26
    <2>2. n[t] = x[t]
      BY <1>11, <2>1
    <2> QED
      BY <1>4, <2>2
  <1> QED
    BY <1>2, <1>17, <1>24, <1>25, <1>26 DEF Book

\* Without a start nothing is shipped, and all demand is unmet.
LEMMA ZerosFacts ==
  ASSUME DataType
  PROVE  /\ Feasible(Zeros)
         /\ \A d \in Demands : Book(data.demandVol[d], Zeros, d)
  <1>1. Zeros \in Schedules /\ \A d \in Demands, t \in Periods : Zeros[d][t] = 0
    BY ZerosType, ZerosIsZero
  <1>2. ASSUME NEW f, \A t \in Periods : f[t] = 0, NEW t \in Periods PROVE UpTo(f, t) = 0
    <2>1. \A u \in Periods : f[u] \in Nat
      BY <1>2
    <2>2. PICK T : T = {u \in Periods : UpTo(f, u) = 0}
      OBVIOUS
    <2>3. \A u \in Periods : /\ UpTo(f, u) = f[u] + UpTo(f, u - 1)
                             /\ UpTo(f, -1) = 0
      BY <2>1, UpToFacts
    <2>4. 0 \in Periods /\ 0 - 1 = -1
      BY PeriodFacts
    <2>5. 0 \in T
      BY <1>2, <2>2, <2>3, <2>4
    <2>6. ASSUME NEW u \in T, u + 1 \in Periods PROVE u + 1 \in T
      <3>1. (u + 1) - 1 = u
        BY <2>2, PeriodFacts
      <3>2. UpTo(f, u + 1) = f[u + 1] + UpTo(f, u)
        BY <2>3, <2>6, <3>1
      <3> QED
        BY <1>2, <2>2, <2>6, <3>2
    <2>7. T = Periods
      BY <2>2, <2>5, <2>6, PeriodInduction
    <2> QED
      BY <1>2, <2>2, <2>7
  <1>3. ASSUME NEW d \in Demands, NEW t \in Periods
        PROVE  /\ UnmetCumDem(Zeros, d, t) = UpTo(data.demandVol[d], t)
               /\ UnmetCumDem(Zeros, d, t) \in Nat
               /\ UpTo(Zeros[d], t) = 0
    <2>1. UpTo(Zeros[d], t) = 0
      BY <1>1, <1>2
    <2>2. UpTo(data.demandVol[d], t) \in Nat
      BY DataFacts, UpToNat
    <2> QED
      BY <2>1, <2>2 DEF UnmetCumDem
  <1>4. ASSUME NEW d \in Demands PROVE Book(data.demandVol[d], Zeros, d)
    <2>1. ASSUME NEW u \in Periods
          PROVE  UpTo(data.demandVol[d], u) <= UnmetCumDem(Zeros, d, u)
      BY <1>3
    <2>2. LastPer \in Periods
      BY PeriodFacts
    <2>3. \A t \in Periods : data.demandVol[d][t] = data.demandVol[d][t] - Zeros[d][t]
      BY <1>1, DataFacts
    <2> QED
      BY <1>3, <2>1, <2>2, <2>3 DEF Book
  <1>5. ASSUME NEW d \in Demands, NEW t \in Periods PROVE IncVolUB(Zeros, d, t) >= 0
    <2>1. CASE d \in ShipLate
      <3>1. PICK w \in Periods : IncVolUB(Zeros, d, t) = UnmetCumDem(Zeros, d, w)
        BY <1>1, <2>1, IncVolUBFacts
      <3>2. UnmetCumDem(Zeros, d, w) \in Nat
        BY <1>3
      <3> QED
        BY <3>1, <3>2
    <2>2. CASE d \notin ShipLate
      <3>1. IncVolUB(Zeros, d, t) = data.demandVol[d][t] - Zeros[d][t]
        BY <1>1, <2>2, IncVolUBFacts
      <3>2. data.demandVol[d][t] \in Nat
        BY DataFacts
      <3> QED
        BY <1>1, <3>1, <3>2
    <2> QED
      BY <2>1, <2>2
  <1>6. ASSUME NEW t \in Periods PROVE LeftOver(Zeros, t) >= 0
    <2>1. PICK f : f = [d \in Demands |-> UpTo(Zeros[d], t)]
      OBVIOUS
    <2>2. \A d \in Demands : f[d] = 0
      BY <1>3, <2>1
    <2>3. SumFunctionOnSet(f, Demands) = 0
      <3>2. PICK S : S = Demands
        OBVIOUS
      <3>3. \A d \in S : f[d] \in Int /\ f[d] = 0
        BY <2>2, <3>2
      <3>4. IsFiniteSet(S)
        BY <3>2, DataAssumption
      <3>5. PICK E : E = {k \in Nat : \E r \in SUBSET S :
                            Cardinality(r) = k /\ SumFunctionOnSet(f, r) # 0}
        OBVIOUS
      <3>6. ASSUME SumFunctionOnSet(f, S) # 0 PROVE FALSE
        <4>1. Cardinality(S) \in E
          BY <3>4, <3>5, <3>6, FS_CardinalityType
        <4>2. PICK k \in E : \A m \in E : k <= m
          BY <3>5, <4>1, NatMin
        <4>3. PICK r \in SUBSET S : Cardinality(r) = k /\ SumFunctionOnSet(f, r) # 0
          BY <3>5, <4>2
        <4>4. IsFiniteSet(r) /\ k \in Nat
          BY <3>4, <3>5, FS_Subset
        <4>5. r # {}
          BY <4>3, SumEmpty
        <4>6. PICK d \in r : SumFunctionOnSet(f, r) = f[d] + SumFunctionOnSet(f, r \ {d})
          BY <4>4, <4>5, SumFirst
        <4>7. PICK q : q = r \ {d}
          OBVIOUS
        <4>8. IsFiniteSet(q) /\ Cardinality(q) = k - 1 /\ k - 1 \in Nat
          <5>1. IsFiniteSet(q) /\ Cardinality(q) = k - 1
            BY <4>3, <4>4, <4>7, FS_RemoveElement
          <5> QED
            BY <5>1, FS_CardinalityType
        <4>9. k - 1 \notin E
          BY <4>2, <4>4
        <4>10. SumFunctionOnSet(f, q) = 0
          BY <3>5, <4>7, <4>8, <4>9
        <4> QED
          BY <3>3, <4>3, <4>6, <4>7, <4>10
      <3> QED
        BY <3>2, <3>6
    <2>4. UpTo(data.supplyVol, t) \in Nat
      BY DataFacts, UpToNat
    <2>5. DOMAIN f = Demands
      BY <2>1
    <2>6. LeftOver(Zeros, t) = UpTo(data.supplyVol, t) - SumFunctionOnSet(f, Demands)
      BY <2>1, <2>5 DEF LeftOver, SumFunction
    <2> QED
      BY <2>3, <2>4, <2>6
  <1> QED
    BY <1>4, <1>5, <1>6 DEF Feasible

-------------------------------------------------------------------------------
(* The invariant of implosion and of equitable allocation. *)

Types ==
  /\ DataType
  /\ shipVol \in Schedules /\ unmet \in Schedules /\ active \in BOOLEAN
  /\ eq \in EqRec /\ sorted \in Seq(Demands) /\ place \in PlaceRec
  /\ selected \in Seq(Targets) /\ work \in WorkRec /\ pc \in {"idle", "scan", "eq"}

Implosion == pc = "scan" \/ (pc = "eq" /\ work.imploding)

\* What is desired and allocated of a target of the allocation in progress, and
\* what was desired of it in the rounds before.
Des(i)  == eq.desIncVol[work.list[i].demand][work.list[i].per]
Inc(i)  == eq.incVol[work.list[i].demand][work.list[i].per]
Prev(i) == eq.prevDesVol[work.list[i].demand][work.list[i].per]
Goal(i, r) == NewDesVol(work.list[i].demand, Des(i), r)

\* The rounds: a target has been asked for up to the present round or up to the
\* one before, and has got no more.
Rounds ==
  pc = "eq" =>
    /\ work.list # <<>> /\ Distinct(work.list)
    /\ 1 <= work.itNo /\ work.itNo <= NRounds
    /\ 1 <= work.pos /\ work.pos <= Len(work.list) + 1
    /\ work.pos = Len(work.list) + 1 => work.itNo = NRounds
    /\ \A i \in DOMAIN work.list :
         /\ work.multi =>
              /\ Prev(i) = Goal(i, IF i < work.pos THEN work.itNo ELSE work.itNo - 1)
              /\ Inc(i) <= Prev(i)
         /\ ~work.multi /\ i < work.pos => Inc(i) <= Des(i)

\* A group: demands that have been scanned, have equal priority, and for which
\* all that is unmet of the period of demand is desired in the present period.
InGroup(list, i) ==
  /\ data.equitability > 1
  /\ list[i].per = place.shipPer
  /\ eq.desIncVol[list[i].demand][place.shipPer] = unmet[list[i].demand][place.demPer]
  /\ ~PassedOver(list[i].demand)
  /\ \E j \in DOMAIN sorted : j < place.idx /\ sorted[j] = list[i].demand
  /\ \A k \in DOMAIN list :
       /\ ModPriority(place.demPer)[list[k].demand]
            = ModPriority(place.demPer)[list[i].demand]
       /\ list[k].demand = list[i].demand => k = i

Group ==
  /\ ~Implosion => selected = <<>>
  /\ pc = "scan" => \A i \in DOMAIN selected : InGroup(selected, i)
  /\ pc = "eq" /\ work.imploding => \A i \in DOMAIN work.list : InGroup(work.list, i)

\* What the allocation in progress has allocated to a demand is still in unmet.
Got(d) ==
  IF pc = "eq" /\ \E i \in DOMAIN work.list : /\ work.list[i].demand = d
                                              /\ work.multi \/ i < work.pos
  THEN eq.incVol[d][place.shipPer] ELSE 0

Open(d) == [t \in Periods |-> IF t = place.demPer THEN unmet[d][t] - Got(d)
                                                  ELSE unmet[d][t]]

Books ==
  Implosion => /\ place.demPer <= place.shipPer /\ 1 <= place.idx
               /\ \A d \in Demands : Book(Open(d), shipVol, d)

\* A volume could not be obtained for a demand in a period, and cannot be: the
\* period is blocked, or less than the volume and than one increment is left.
Short(ship, bl, d, u, n) ==
  IF data.skipFailures
    THEN u \in bl
    ELSE Obtainable(ship, u) < n /\ Obtainable(ship, u) < SearchInc[d]

Lacks(d) == Short(shipVol, blocked, d, place.shipPer, unmet[d][place.demPer])

Awaits(d) ==
  \/ pc = "scan" /\ \E i \in DOMAIN selected : selected[i].demand = d
  \/ pc = "eq" /\ \E i \in DOMAIN work.list : work.list[i].demand = d

\* A demand that has been scanned has what it may get, or waits for it.
Served ==
  Implosion =>
    \A j \in DOMAIN sorted : j < place.idx =>
       PassedOver(sorted[j]) \/ Lacks(sorted[j]) \/ Awaits(sorted[j])

\* A target has got all that it was asked for, or what it has not got could not
\* be obtained.
Gets(i, x) ==
  \/ Inc(i) = x
  \/ Short(shipVol, blocked, work.list[i].demand, place.shipPer, x - Inc(i))

Filled ==
  pc = "eq" /\ work.imploding =>
    \A i \in DOMAIN work.list :
      /\ work.multi => Gets(i, Prev(i))
      /\ ~work.multi /\ i < work.pos => Gets(i, Des(i))

\* When a target has failed there is a round that what was left had been shared
\* in; what is left then and is given out later is less than one increment.
SharedIn(r, j, i) ==
  /\ Goal(i, r - 1) <= Inc(i)
  /\ IF data.skipFailures
       THEN place.shipPer \in blocked /\ Inc(i) <= Goal(i, r)
       ELSE Obtainable(shipVol, place.shipPer) + Inc(i)
              <= Goal(i, r) + SearchInc[work.list[j].demand] - 1

Shared ==
  pc = "eq" /\ work.imploding /\ work.multi =>
    \/ \A i \in DOMAIN work.list : Inc(i) = Prev(i)
    \/ \E r \in 1..data.equitability, j \in DOMAIN work.list :
         \A i \in DOMAIN work.list : SharedIn(r, j, i)

\* What is unmet after the periods in which it could have been met.
Denied ==
  Implosion =>
    \A d \in Demands, t \in Periods, u \in Periods :
      /\ t <= u /\ unmet[d][t] > 0
      /\ t < place.demPer \/ (t = place.demPer /\ u < place.shipPer)
      => \/ Short(shipVol, blocked, d, u, unmet[d][t])
         \/ d \notin ShipLate /\ u > t
         \/ u - t > ShipLateUB[d][t]

Progress == Rounds /\ Group /\ Books /\ Served /\ Filled /\ Shared /\ Denied

\* A period is blocked only if some demand could not take one more increment.
Blocked ==
  /\ blocked \subseteq Periods
  /\ \A u \in blocked : \E e \in Demands : Obtainable(shipVol, u) < SearchInc[e]

AllInv == IInv /\ Types /\ Feasible(shipVol) /\ Blocked /\ Progress

-------------------------------------------------------------------------------
(* Steps.  The data do not change. *)

\* No step changes the data.
LEMMA DataStep == Next => data' = data
  <1>1. ApiCall => data' = data
    BY DEF ApiCall, Implode, witStartHeurAlloc, EndHeurAlloc, witIncHeurAlloc,
       witEqHeurAlloc
  <1>2. ImplosionStep => data' = data
    BY DEF ImplosionStep, PassOver, IncAlloc, AllocGroup, SelectForEqAlloc,
       AllocLastGroup, NextShipPer, NextDemPer, FinishImplosion
  <1>3. EqStep => data' = data
    BY DEF EqStep, AllocTarget, EndEqAlloc
  <1> QED
    BY <1>1, <1>2, <1>3 DEF Next

\* What is a function of the data does not change with them.
LEMMA DataKept ==
  ASSUME data' = data
  PROVE  /\ DataType' = DataType
         /\ \A t : ModPriority(t)' = ModPriority(t)
         /\ \A d, v, r : NewDesVol(d, v, r)' = NewDesVol(d, v, r)
         /\ \A ship, t : Obtainable(ship, t)' = Obtainable(ship, t)
         /\ \A ship, d, t : IncVolUB(ship, d, t)' = IncVolUB(ship, d, t)
         /\ \A ship, bl, d, u, n : Short(ship, bl, d, u, n)' = Short(ship, bl, d, u, n)
         /\ \A ship : Feasible(ship)' = Feasible(ship)
         /\ \A f, ship, d : Book(f, ship, d)' = Book(f, ship, d)
  <1>1. DataType' = DataType
    BY DEF DataType
  <1>2. \A t : ModPriority(t)' = ModPriority(t)
    BY DEF ModPriority, MaxPri
  <1>3. \A d, v, r : NewDesVol(d, v, r)' = NewDesVol(d, v, r)
    BY DEF NewDesVol
  <1>4. \A ship, t : LeftOver(ship, t)' = LeftOver(ship, t)
    BY DEF LeftOver
  <1>5. \A ship, d, t : UnmetCumDem(ship, d, t)' = UnmetCumDem(ship, d, t)
    BY DEF UnmetCumDem
  <1>6. \A ship, t : Obtainable(ship, t)' = Obtainable(ship, t)
    BY <1>4 DEF Obtainable
  <1>7. \A ship, d, t : IncVolUB(ship, d, t)' = IncVolUB(ship, d, t)
    BY <1>5 DEF IncVolUB
  <1>8. \A ship : Feasible(ship)' = Feasible(ship)
    BY <1>4, <1>7 DEF Feasible
  <1>9. \A f, ship, d : Book(f, ship, d)' = Book(f, ship, d)
    BY <1>5 DEF Book
  <1>10. \A ship, bl, d, u, n : Short(ship, bl, d, u, n)' = Short(ship, bl, d, u, n)
    BY <1>6 DEF Short
  <1> QED
    BY <1>1, <1>2, <1>3, <1>6, <1>7, <1>8, <1>9, <1>10

\* What cannot be obtained in a period cannot be obtained in an earlier one that
\* is blocked, or that nothing more is left in.
LEMMA ShortEarlier ==
  ASSUME DataType, NEW ship \in Schedules, Feasible(ship), NEW bl, NEW d \in Demands,
         NEW u \in Periods, NEW s \in Periods, u <= s, NEW n \in Nat, NEW m \in Nat,
         Short(ship, bl, d, s, n), Short(ship, bl, d, u, m)
  PROVE  Short(ship, bl, d, u, n)
  <1>1. CASE data.skipFailures
    BY <1>1 DEF Short
  <1>2. CASE ~data.skipFailures
    <2>1. Obtainable(ship, s) < n /\ Obtainable(ship, s) < SearchInc[d]
      BY <1>2 DEF Short
    <2>2. PICK w \in Periods : s <= w /\ Obtainable(ship, s) = LeftOver(ship, w)
      BY ObtainableFacts
    <2>3. u <= w
      BY <2>2, PeriodFacts
    <2>4. Obtainable(ship, u) <= Obtainable(ship, s)
      BY <2>2, <2>3, ObtainableFacts
    <2>5. /\ Obtainable(ship, u) \in Nat /\ Obtainable(ship, s) \in Nat
          /\ SearchInc[d] \in Nat
      BY ObtainableFacts, DataAssumption
    <2>6. Obtainable(ship, u) < n /\ Obtainable(ship, u) < SearchInc[d]
      BY <2>1, <2>4, <2>5
    <2> QED
      BY <1>2, <2>6 DEF Short
  <1> QED
    BY <1>1, <1>2

\* A volume that cannot be obtained for a demand that could take it is at least
\* one unit, and the search for it finds nothing.
LEMMA ShortFindsNothing ==
  ASSUME DataType, NEW ship \in Schedules, NEW bl, NEW d \in Demands,
         NEW u \in Periods, NEW n \in Nat, Short(ship, bl, d, u, n), ~data.skipFailures
  PROVE  MaxQty(ship, d, u, n) = 0
  <1>1. PICK b, i, k : b = Obtainable(ship, u) /\ i = SearchInc[d] /\ k = b \div i
    OBVIOUS
  <1>2. b < n /\ b < i
    BY <1>1 DEF Short
  <1>3. b \in Nat /\ i \in Nat \ {0}
    BY <1>1, ObtainableFacts, DataAssumption
  <1>4. k \in Nat /\ i * k <= b
    BY <1>1, <1>3, Quotient
  <1>5. k = 0
    <2>1. SUFFICES ASSUME k >= 1 PROVE FALSE
      BY <1>4
    <2>2. 1 * i <= k * i
      BY <1>3, <1>4, <2>1, Products
    <2>3. 1 * i = i /\ k * i = i * k
      BY <1>3, <1>4
    <2> QED
      BY <1>2, <1>3, <1>4, <2>2, <2>3
  <1>6. MaxQty(ship, d, u, n) = i * k
    BY <1>1, <1>2, <1>3 DEF MaxQty
  <1> QED
    BY <1>3, <1>5, <1>6

\* What one call of incHeurAlloc for a demand does: vol is what it allocates,
\* new and bl are the shipments and the blocked periods after it.
AllocResult(ship, d, t, des, vol, new, bl) ==
  /\ vol \in Nat /\ vol <= des
  /\ new \in Schedules /\ Feasible(new)
  /\ blocked \subseteq bl /\ bl \subseteq blocked \cup {t}
  /\ Obtainable(new, t) = Obtainable(ship, t) - vol
  /\ \A u \in Periods : /\ Obtainable(new, u) \in Nat /\ Obtainable(ship, u) \in Nat
                        /\ Obtainable(new, u) <= Obtainable(ship, u)
  /\ data.skipFailures /\ t \in blocked => vol = 0
  /\ des <= IncVolUB(ship, d, t) => vol = des \/ Short(new, bl, d, t, des - vol)
  /\ \A u \in bl : u \notin blocked => Obtainable(new, u) < SearchInc[d]
  /\ \A u \in Periods, e \in Demands, n \in Nat, m \in Nat :
       Short(ship, blocked, e, u, n) /\ n <= m => Short(new, bl, e, u, m)

LEMMA AllocFacts ==
  ASSUME DataType, NEW ship \in Schedules, Feasible(ship), NEW d \in Demands,
         NEW t \in Periods, NEW des \in Nat,
         NEW vol, vol = IncVol(ship, d, t, des), NEW new, new = Shipped(ship, d, t, vol),
         NEW bl, bl = BlockedAfter(ship, d, t, des)
  PROVE  AllocResult(ship, d, t, des, vol, new, bl)
  <1>1. PICK b, m : b = Obtainable(ship, t) /\ m = DemandedIncVol(ship, d, t, des)
    OBVIOUS
  <1>2. /\ vol \in Nat /\ vol <= des
        /\ vol <= IncVolUB(ship, d, t) /\ vol <= b /\ vol <= m
        /\ data.skipFailures /\ t \in blocked => vol = 0
        /\ \/ data.skipFailures /\ t \in blocked
           \/ vol = m
           \/ b < m /\ b - vol < SearchInc[d]
    BY <1>1, IncVolFacts
  <1>3. new \in Schedules
    BY <1>2, ShippedFacts
  <1>4. /\ Feasible(new) /\ Obtainable(new, t) = b - vol
        /\ \A u \in Periods : Obtainable(new, u) <= Obtainable(ship, u)
    BY <1>1, <1>2, ShippedFeasible
  <1>5. \A u \in Periods : Obtainable(new, u) \in Nat /\ Obtainable(ship, u) \in Nat
    BY <1>3, ObtainableFacts
  <1>6. m \in Nat /\ (des <= IncVolUB(ship, d, t) => m = des) /\ SearchInc[d] \in Nat
    BY <1>1, DemandedFacts, DataAssumption
  <1>7. bl = IF data.skipFailures /\ vol < m THEN blocked \cup {t} ELSE blocked
    BY <1>1 DEF BlockedAfter
  <1>8. blocked \subseteq bl /\ bl \subseteq blocked \cup {t}
    BY <1>7
  <1>9. ASSUME des <= IncVolUB(ship, d, t) PROVE vol = des \/ Short(new, bl, d, t, des - vol)
    <2>1. m = des
      BY <1>6, <1>9
    <2>2. CASE data.skipFailures
      <3>1. vol = des \/ t \in bl
        BY <1>2, <1>6, <1>7, <2>1, <2>2
      <3> QED
        BY <2>2, <3>1 DEF Short
    <2>3. CASE ~data.skipFailures
      <3>1. vol = des \/ (b < des /\ b - vol < SearchInc[d])
        BY <1>2, <2>1, <2>3
      <3>2. b \in Nat
        BY <1>1, <1>5
      <3>3. vol = des \/ (b - vol < des - vol /\ b - vol < SearchInc[d])
        BY <1>2, <3>1, <3>2
      <3> QED
        BY <1>4, <2>3, <3>3 DEF Short
    <2> QED
      BY <2>2, <2>3
  <1>10. ASSUME NEW u \in bl, u \notin blocked PROVE Obtainable(new, u) < SearchInc[d]
    <2>1. u = t /\ data.skipFailures /\ vol < m
      BY <1>7, <1>10
    <2>2. b - vol < SearchInc[d]
      BY <1>2, <1>6, <1>10, <2>1
    <2> QED
      BY <1>4, <2>1, <2>2
  <1>11. ASSUME NEW u \in Periods, NEW e \in Demands, NEW n \in Nat, NEW k \in Nat,
                Short(ship, blocked, e, u, n), n <= k
         PROVE  Short(new, bl, e, u, k)
    <2>1. CASE data.skipFailures
      BY <1>8, <1>11, <2>1 DEF Short
    <2>2. CASE ~data.skipFailures
      <3>1. Obtainable(ship, u) < n /\ Obtainable(ship, u) < SearchInc[e]
        BY <1>11, <2>2 DEF Short
      <3>2. Obtainable(new, u) < k /\ Obtainable(new, u) < SearchInc[e]
        BY <1>4, <1>5, <1>11, <3>1, DataAssumption
      <3> QED
        BY <2>2, <3>2 DEF Short
    <2> QED
      BY <2>1, <2>2
  <1> QED
    BY <1>1, <1>2, <1>3, <1>4, <1>5, <1>8, <1>9, <1>10, <1>11 DEF AllocResult

\* The lists of the application.
LEMMA ListFacts ==
  ASSUME NEW list \in Lists
  PROVE  list \in Seq(Targets) /\ list # <<>> /\ Distinct(list) /\ 1 \in DOMAIN list
  <1>1. list \in Seq(Targets) /\ list # <<>>
    BY DataAssumption DEF Targets
  <1>2. Distinct(list)
    BY DataAssumption DEF Distinct
  <1>3. 1 \in DOMAIN list
    BY <1>1
  <1> QED
    BY <1>1, <1>2, <1>3

\* Parts of the typing that are read often.
LEMMA TypeFacts ==
  ASSUME Types
  PROVE  /\ eq.active \in BOOLEAN /\ eq.desIncVol \in Schedules /\ eq.incVol \in Schedules
         /\ eq.prevDesVol \in Schedules
         /\ place.demPer \in Periods /\ place.shipPer \in Periods /\ place.idx \in Nat
         /\ work.list \in Seq(Targets) /\ work.multi \in BOOLEAN /\ work.itNo \in Nat
         /\ work.pos \in Nat /\ work.imploding \in BOOLEAN
  <1>1. eq \in EqRec /\ place \in PlaceRec /\ work \in WorkRec
    BY DEF Types
  <1>2. /\ eq.active \in BOOLEAN /\ eq.desIncVol \in Schedules /\ eq.incVol \in Schedules
        /\ eq.prevDesVol \in Schedules
    BY <1>1 DEF EqRec
  <1>3. place.demPer \in Periods /\ place.shipPer \in Periods /\ place.idx \in Nat
    BY <1>1 DEF PlaceRec
  <1>4. /\ work.list \in Seq(Targets) /\ work.multi \in BOOLEAN /\ work.itNo \in Nat
        /\ work.pos \in Nat /\ work.imploding \in BOOLEAN
    BY <1>1 DEF WorkRec
  <1> QED
    BY <1>2, <1>3, <1>4

\* Nothing is asked of the progress of what is not going on.
LEMMA NoProgress ==
  ASSUME pc' = "idle", selected' = <<>>
  PROVE  Progress'
  BY DEF Progress, Implosion, Rounds, Group, Books, Served, Filled, Shared, Denied

\* No allocation is in progress.
LEMMA NoWorkFacts == NoWork \in WorkRec
  BY DEF NoWork, WorkRec

\* Outside a call of the allocator nothing is desired before.
LEMMA NothingBefore ==
  ASSUME IInv, pc # "eq"
  PROVE  eq.prevDesVol = Zeros
  BY ZeroIsZeros DEF IInv, EqHasItsParts, OnlyTargetsDesiredBefore

\* The shipments that an allocation starts from.
LEMMA StartFacts ==
  ASSUME AllInv
  PROVE  StartShipVol \in Schedules /\ Feasible(StartShipVol)
  BY ZerosType, ZerosFacts DEF AllInv, Types, StartShipVol

\* The calls that end at once.
LEMMA ShortCallsStep ==
  ASSUME AllInv, witStartHeurAlloc \/ EndHeurAlloc \/ witIncHeurAlloc
  PROVE  Types' /\ Feasible(shipVol)' /\ Progress'
  <1>1. /\ data' = data /\ unmet' = unmet /\ sorted' = sorted /\ place' = place
        /\ selected' = selected /\ work' = work /\ pc = "idle" /\ pc' = "idle"
    BY DEF witStartHeurAlloc, EndHeurAlloc, witIncHeurAlloc, imploder, Called
  <1>2. selected = <<>>
    BY <1>1 DEF AllInv, Progress, Group, Implosion
  <1>3. Progress'
    BY <1>1, <1>2, NoProgress
  <1>4. Types
    BY DEF AllInv
  <1>5. /\ eq' \in EqRec /\ active' \in BOOLEAN
        /\ shipVol' \in Schedules /\ Feasible(shipVol')
    <2>1. CASE witStartHeurAlloc
      BY <2>1, StartFacts, InactiveFacts DEF witStartHeurAlloc
    <2>2. CASE EndHeurAlloc
      <3>1. eq' = Inactive /\ active' = FALSE /\ shipVol' = shipVol
        BY <2>2 DEF EndHeurAlloc
      <3>2. shipVol \in Schedules /\ Feasible(shipVol)
        BY DEF AllInv, Types
      <3> QED
        BY <3>1, <3>2, InactiveFacts
    <2>3. CASE witIncHeurAlloc
      <3>1. PICK list \in Lists :
              shipVol' = Shipped(shipVol, list[1].demand, list[1].per,
                                 IncVol(shipVol, list[1].demand, list[1].per, list[1].vol))
        BY <2>3 DEF witIncHeurAlloc
      <3>2. PICK d, t, des, vol :
              /\ d = list[1].demand /\ t = list[1].per /\ des = list[1].vol
              /\ vol = IncVol(shipVol, d, t, des)
        OBVIOUS
      <3>3. d \in Demands /\ t \in Periods /\ des \in Nat
        BY <3>2, ListFacts, ListEntry
      <3>4. PICK new, bl : /\ new = Shipped(shipVol, d, t, vol)
                           /\ bl = BlockedAfter(shipVol, d, t, des)
        OBVIOUS
      <3>5. new \in Schedules /\ Feasible(new)
        <4>1. DataType /\ shipVol \in Schedules /\ Feasible(shipVol)
          BY DEF AllInv, Types
        <4>2. AllocResult(shipVol, d, t, des, vol, new, bl)
          BY <3>2, <3>3, <3>4, <4>1, AllocFacts
        <4> QED
          BY <4>2 DEF AllocResult
      <3>6. shipVol' = new
        BY <3>1, <3>2, <3>4
      <3>7. eq' = eq /\ active' = active
        BY <2>3 DEF witIncHeurAlloc
      <3> QED
        BY <3>5, <3>6, <3>7 DEF AllInv, Types
    <2> QED
      BY <2>1, <2>2, <2>3
  <1>6. Types'
    BY <1>1, <1>4, <1>5, DataKept DEF Types
  <1>7. Feasible(shipVol)'
    BY <1>1, <1>5, DataKept
  <1> QED
    BY <1>3, <1>6, <1>7

\* The beginning of an equitable allocation.
LEMMA BeginRounds ==
  ASSUME AllInv, NEW e \in EqRec, NEW list \in Seq(Targets), NEW imploding \in BOOLEAN,
         BeginEqAlloc(e, list, imploding), list # <<>>, Distinct(list),
         e.prevDesVol = Zeros, data' = data
  PROVE  /\ eq' \in EqRec /\ work' \in WorkRec /\ work'.list = list
         /\ work'.imploding = imploding /\ work'.pos = 1 /\ pc' = "eq"
         /\ eq'.desIncVol = e.desIncVol
         /\ \A i \in DOMAIN list : work'.multi => Inc(i)' = 0 /\ Prev(i)' = 0
         /\ Rounds'
  <1>1. /\ work' \in WorkRec /\ work'.list = list /\ work'.itNo = 1 /\ work'.pos = 1
        /\ work'.imploding = imploding
        /\ eq' \in EqRec
        /\ eq'.active = e.active /\ eq'.desIncVol = e.desIncVol
        /\ eq'.prevDesVol = e.prevDesVol
        /\ work'.multi => \A d \in Demands, t \in Periods :
                            IsTarget(list, d, t) => eq'.incVol[d][t] = 0
        /\ pc' = "eq"
    BY BeginFacts
  <1>2. DataType
    BY DEF AllInv, Types
  <1>3. \A d \in Demands, t \in Periods : Zeros[d][t] = 0
    BY ZerosIsZero
  <1>4. ASSUME NEW i \in DOMAIN list
        PROVE  /\ list[i].demand \in Demands /\ list[i].per \in Periods
               /\ IsTarget(list, list[i].demand, list[i].per)
    BY ListEntry DEF IsTarget
  <1>5. ASSUME NEW i \in DOMAIN list, work'.multi
        PROVE  Inc(i)' = 0 /\ Prev(i)' = 0
    <2>1. Inc(i)' = eq'.incVol[list[i].demand][list[i].per]
      BY <1>1 DEF Inc
    <2>2. Prev(i)' = Zeros[list[i].demand][list[i].per]
      BY <1>1 DEF Prev
    <2> QED
      BY <1>1, <1>3, <1>4, <1>5, <2>1, <2>2
  <1>6. \A i \in DOMAIN list : 1 <= i
    BY ListEntry
  <1>7. ASSUME NEW i \in DOMAIN list PROVE Goal(i, 0)' = 0
    <2>1. PICK v : v = Des(i)'
      OBVIOUS
    <2>2. v \in Nat
      <3>1. eq'.desIncVol \in Schedules
        BY <1>1 DEF EqRec
      <3> QED
        BY <1>1, <1>4, <2>1, <3>1, ScheduleEntry DEF Des
    <2>3. Goal(i, 0)' = NewDesVol(list[i].demand, v, 0)
      BY <1>1, <2>1, DataKept DEF Goal
    <2> QED
      BY <1>2, <1>4, <2>2, <2>3, NewDesVolFacts
  <1>8. 1 <= NRounds'
    <2>1. data.equitability \in Nat /\ data.equitability >= 1
      BY <1>2, DataFacts
    <2>2. NRounds' = IF work'.multi THEN data.equitability ELSE 1
      BY DEF NRounds
    <2> QED
      BY <2>1, <2>2
  <1>9. 1 <= Len(list) + 1 /\ 1 # Len(list) + 1
    BY ListEntry
  <1>10. ASSUME NEW i \in DOMAIN list
         PROVE  /\ work'.multi =>
                     /\ Prev(i)' = Goal(i, IF i < work.pos THEN work.itNo
                                                           ELSE work.itNo - 1)'
                     /\ Inc(i)' <= Prev(i)'
                /\ ~(i < work'.pos)
    <2>1. i \in Int /\ ~(i < 1)
      BY <1>6, ListEntry
    <2>2. ~(i < work'.pos) /\ work'.itNo - 1 = 0
      BY <1>1, <2>1
    <2>3. Goal(i, IF i < work.pos THEN work.itNo ELSE work.itNo - 1)' = 0
      BY <1>7, <2>2 DEF Goal
    <2> QED
      BY <1>5, <2>2, <2>3
  <1>11. Rounds'
    BY <1>1, <1>8, <1>9, <1>10 DEF Rounds
  <1> QED
    BY <1>1, <1>5, <1>11

\* witEqHeurAlloc has only the assertions of the allocator to keep.
LEMMA EqHeurAllocStep ==
  ASSUME AllInv, witEqHeurAlloc
  PROVE  Types' /\ Feasible(shipVol)' /\ Progress'
  <1>1. PICK list \in Lists :
          BeginEqAlloc(WithDesired(Activated(eq), list), list, FALSE)
    BY DEF witEqHeurAlloc
  <1>2. /\ data' = data /\ shipVol' = shipVol /\ active' = active /\ unmet' = unmet
        /\ sorted' = sorted /\ place' = place /\ selected' = selected /\ pc = "idle"
    BY DEF witEqHeurAlloc, imploder, Called
  <1>3. PICK a, e : a = Activated(eq) /\ e = WithDesired(a, list)
    OBVIOUS
  <1>4. list \in Seq(Targets) /\ list # <<>> /\ Distinct(list)
    BY ListFacts
  <1>5. a \in EqRec /\ a.prevDesVol = Zeros
    <2>1. eq \in EqRec /\ eq.prevDesVol = Zeros
      BY <1>2, NothingBefore DEF AllInv, Types
    <2> QED
      BY <1>3, <2>1, InactiveFacts
  <1>6. e \in EqRec /\ e.prevDesVol = Zeros
    BY <1>3, <1>4, <1>5, WithDesiredFacts
  <1>7. BeginEqAlloc(e, list, FALSE)
    BY <1>1, <1>3
  <1>8. /\ eq' \in EqRec /\ work' \in WorkRec /\ work'.imploding = FALSE
        /\ pc' = "eq" /\ Rounds'
    BY <1>2, <1>4, <1>6, <1>7, BeginRounds
  <1>9. Types'
    BY <1>2, <1>8, DataKept DEF AllInv, Types
  <1>10. Feasible(shipVol)'
    BY <1>2, DataKept DEF AllInv
  <1>11. selected = <<>>
    BY <1>2 DEF AllInv, Progress, Group, Implosion
  <1>12. Group' /\ Books' /\ Served' /\ Filled' /\ Shared' /\ Denied'
    BY <1>2, <1>8, <1>11 DEF Implosion, Group, Books, Served, Filled, Shared, Denied
  <1> QED
    BY <1>8, <1>9, <1>10, <1>12 DEF Progress

-------------------------------------------------------------------------------
(* Steps of the scanning. *)

\* While demands are scanned nothing is open that is not unmet.
LEMMA BooksScan ==
  ASSUME AllInv, pc = "scan"
  PROVE  /\ place.demPer <= place.shipPer /\ 1 <= place.idx
         /\ \A d \in Demands : Book(unmet[d], shipVol, d)
  <1>1. /\ place.demPer <= place.shipPer /\ 1 <= place.idx
        /\ \A d \in Demands : Book(Open(d), shipVol, d)
    BY DEF AllInv, Progress, Books, Implosion
  <1>2. ASSUME NEW d \in Demands PROVE Book(unmet[d], shipVol, d)
    <2>1. Got(d) = 0
      BY DEF Got
    <2>2. PICK f, g : f = Open(d) /\ g = unmet[d]
      OBVIOUS
    <2>3. \A t \in Periods : g[t] \in Nat
      BY <2>2, ScheduleEntry DEF AllInv, Types
    <2>4. \A t \in Periods : f[t] \in Int /\ g[t] = f[t]
      BY <2>1, <2>2, <2>3 DEF Open
    <2>5. Book(f, shipVol, d)
      BY <1>1, <2>2
    <2>6. Book(g, shipVol, d)
      BY <2>4, <2>5, BookSame
    <2> QED
      BY <2>2, <2>6
  <1> QED
    BY <1>1, <1>2

\* The books of a state in which no group is being allocated.
LEMMA BooksKept ==
  ASSUME data' = data, pc' = "scan", unmet' \in Schedules,
         place'.demPer <= place'.shipPer, 1 <= place'.idx,
         \A d \in Demands : Book(unmet'[d], shipVol', d)
  PROVE  Books'
  <1>1. ASSUME NEW d \in Demands PROVE Book(Open(d), shipVol, d)'
    <2>1. Got(d)' = 0
      BY DEF Got
    <2>2. PICK f, g, ship : f = Open(d)' /\ g = unmet'[d] /\ ship = shipVol'
      OBVIOUS
    <2>3. \A t \in Periods : g[t] \in Nat
      BY <2>2, ScheduleEntry
    <2>4. \A t \in Periods : g[t] \in Int /\ f[t] = g[t]
      BY <2>1, <2>2, <2>3 DEF Open
    <2>5. Book(g, ship, d)
      BY <2>2
    <2>6. Book(f, ship, d)
      BY <2>4, <2>5, BookSame
    <2>7. Book(f, ship, d)'
      BY <2>6, DataKept
    <2> QED
      BY <2>2, <2>7, DataKept
  <1> QED
    BY <1>1 DEF Books

\* Nothing is asked of the rounds while demands are scanned.
LEMMA ScanFrame ==
  ASSUME pc' = "scan"
  PROVE  Rounds' /\ Filled' /\ Shared'
  BY DEF Rounds, Filled, Shared

\* A demand that has what it may get is passed over.
LEMMA PassOverStep ==
  ASSUME AllInv, PassOver
  PROVE  Types' /\ Feasible(shipVol)' /\ Progress'
  <1>1. /\ data' = data /\ shipVol' = shipVol /\ active' = active /\ eq' = eq
        /\ blocked' = blocked
        /\ unmet' = unmet /\ sorted' = sorted /\ selected' = selected /\ work' = work
        /\ pc = "scan" /\ pc' = "scan"
        /\ place.idx <= Len(sorted) /\ PassedOver(sorted[place.idx])
        /\ place' = [place EXCEPT !.idx = @ + 1]
    BY DEF PassOver, Scanning, NextDemand, Current
  <1>2. Types
    BY DEF AllInv
  <1>3. /\ place' \in PlaceRec /\ place'.demPer = place.demPer
        /\ place'.shipPer = place.shipPer /\ place'.idx = place.idx + 1
        /\ place.idx \in Nat
    <2>1. place \in PlaceRec
      BY <1>2 DEF Types
    <2>2. place' = [place EXCEPT !.idx = @ + 1]
      BY <1>1
    <2> QED
      BY <2>1, <2>2 DEF PlaceRec
  <1>4. Types'
    BY <1>1, <1>2, <1>3, DataKept DEF Types
  <1>5. Feasible(shipVol)'
    BY <1>1, DataKept DEF AllInv
  <1>6. \A d : PassedOver(d)' = PassedOver(d)
    BY <1>1, <1>3 DEF PassedOver
  <1>7. \A t : ModPriority(t)' = ModPriority(t)
    BY <1>1, DataKept
  <1>8. \A j \in DOMAIN sorted : j \in Nat
    BY <1>2 DEF Types
  <1>9. Group'
    <2>1. ASSUME NEW i \in DOMAIN selected PROVE InGroup(selected, i)'
      <3>1. InGroup(selected, i)
        BY <1>1 DEF AllInv, Progress, Group
      <3>2. ModPriority(place.demPer)' = ModPriority(place.demPer)
        BY <1>3, <1>7
      <3>3. \A j \in DOMAIN sorted : j < place.idx => j < place'.idx
        BY <1>3, <1>8
      <3> QED
        BY <1>1, <1>3, <1>6, <3>1, <3>2, <3>3 DEF InGroup
    <2> QED
      BY <1>1, <2>1 DEF Group, Implosion
  <1>10. Books'
    <2>1. 1 <= place'.idx
      BY <1>3
    <2> QED
      BY <1>1, <1>2, <1>3, <2>1, BooksScan, BooksKept DEF Types
  <1>11. Served'
    <2>1. \A e : Lacks(e)' = Lacks(e)
      BY <1>1, <1>3, DataKept DEF Lacks
    <2>2. \A d : Awaits(d)' = Awaits(d)
      BY <1>1 DEF Awaits
    <2>3. ASSUME NEW j \in DOMAIN sorted, j < place'.idx
          PROVE  PassedOver(sorted[j]) \/ Lacks(sorted[j]) \/ Awaits(sorted[j])
      <3>1. j < place.idx \/ j = place.idx
        BY <1>3, <1>8, <2>3
      <3>2. CASE j < place.idx
        BY <1>1, <3>2 DEF AllInv, Progress, Served, Implosion
      <3> QED
        BY <1>1, <3>1, <3>2
    <2>4. ASSUME NEW j \in DOMAIN sorted, j < place'.idx
          PROVE  (PassedOver(sorted[j]) \/ Lacks(sorted[j]) \/ Awaits(sorted[j]))'
      <3>1. PICK d : d = sorted[j]
        OBVIOUS
      <3>2. PassedOver(d)' \/ Lacks(d)' \/ Awaits(d)'
        BY <1>6, <2>1, <2>2, <2>3, <2>4, <3>1
      <3>3. d = sorted'[j]
        BY <1>1, <3>1
      <3> QED
        BY <3>2, <3>3 DEF PassedOver, Awaits
    <2> QED
      BY <1>1, <2>4 DEF Served
  <1>12. Denied'
    <2>1. \A e, u, v : Short(shipVol, blocked, e, u, v)' = Short(shipVol, blocked, e, u, v)
      BY <1>1, DataKept
    <2>2. Denied
      BY DEF AllInv, Progress
    <2> QED
      BY <1>1, <1>3, <2>1, <2>2 DEF Denied, Implosion
  <1> QED
    BY <1>1, <1>4, <1>5, <1>9, <1>10, <1>11, <1>12, ScanFrame DEF Progress

\* Every demand is in the sorted list, behind those of better priority.
LEMMA SortedList ==
  ASSUME AllInv, Implosion
  PROVE  /\ \A i, j \in DOMAIN sorted : sorted[i] = sorted[j] => i = j
         /\ \A d \in Demands : \E i \in DOMAIN sorted : sorted[i] = d
         /\ \A i, j \in DOMAIN sorted :
              ModPriority(place.demPer)[sorted[i]] < ModPriority(place.demPer)[sorted[j]]
                => i < j
  <1>1. PICK t : t = place.demPer
    OBVIOUS
  <1>2. t \in Periods /\ sorted = SortedBy(ModPriority(t))
    BY <1>1 DEF AllInv, IInv, SortedForPeriod, Implosion
  <1>3. ModPriority(t) \in [Demands -> Nat]
    BY <1>2, ModPriorityType DEF AllInv, Types
  <1>4. PICK pri : pri = ModPriority(t)
    OBVIOUS
  <1>5. /\ \A i, j \in DOMAIN sorted : sorted[i] = sorted[j] => i = j
        /\ \A d \in Demands : \E i \in DOMAIN sorted : sorted[i] = d
        /\ \A i, j \in DOMAIN sorted : pri[sorted[i]] < pri[sorted[j]] => i < j
    BY <1>2, <1>3, <1>4, SortedFacts
  <1> QED
    BY <1>1, <1>4, <1>5

\* When all demands have been scanned, each of them has what it may get of the
\* period of shipment.
LEMMA PeriodDoneFacts ==
  ASSUME AllInv, PeriodDone
  PROVE  \A d \in Demands : PassedOver(d) \/ Lacks(d)
  <1>1. pc = "scan" /\ place.idx > Len(sorted) /\ selected = <<>>
    BY DEF PeriodDone
  <1>2. place.idx \in Nat /\ sorted \in Seq(Demands)
    BY TypeFacts DEF AllInv, Types
  <1>3. ASSUME NEW d \in Demands PROVE PassedOver(d) \/ Lacks(d)
    <2>1. PICK j \in DOMAIN sorted : sorted[j] = d
      BY <1>1, SortedList DEF Implosion
    <2>2. j < place.idx
      BY <1>1, <1>2
    <2>3. PassedOver(sorted[j]) \/ Lacks(sorted[j]) \/ Awaits(sorted[j])
      BY <1>1, <2>2 DEF AllInv, Progress, Served, Implosion
    <2>4. ~Awaits(sorted[j])
      BY <1>1 DEF Awaits
    <2> QED
      BY <2>1, <2>3, <2>4
  <1> QED
    BY <1>3

\* What Denied says of the present period of shipment then.
LEMMA DeniedNow ==
  ASSUME AllInv, PeriodDone, NEW d \in Demands, unmet[d][place.demPer] > 0
  PROVE  \/ Lacks(d)
         \/ d \notin ShipLate /\ place.shipPer > place.demPer
         \/ place.shipPer - place.demPer > ShipLateUB[d][place.demPer]
  <1>1. PassedOver(d) \/ Lacks(d)
    BY PeriodDoneFacts
  <1>2. unmet[d][place.demPer] # 0
    <2>1. place.demPer \in Periods
      BY TypeFacts DEF AllInv
    <2>2. unmet[d][place.demPer] \in Nat
      BY <2>1, ScheduleEntry DEF AllInv, Types
    <2> QED
      BY <2>2
  <1> QED
    BY <1>1, <1>2 DEF PassedOver

\* At the end of a period of shipment all demands have been served.
LEMMA NextShipPerStep ==
  ASSUME AllInv, NextShipPer
  PROVE  Types' /\ Feasible(shipVol)' /\ Progress'
  <1>1. /\ data' = data /\ shipVol' = shipVol /\ active' = active /\ eq' = eq
        /\ blocked' = blocked
        /\ unmet' = unmet /\ sorted' = sorted /\ selected' = selected /\ work' = work
        /\ pc = "scan" /\ pc' = "scan" /\ selected = <<>> /\ PeriodDone
        /\ place.shipPer < NPeriods - 1
        /\ place' = [place EXCEPT !.shipPer = @ + 1, !.idx = 1]
    BY DEF NextShipPer, PeriodDone
  <1>2. Types /\ place.demPer \in Periods /\ place.shipPer \in Periods /\ place.idx \in Nat
    BY TypeFacts DEF AllInv
  <1>3. PICK s : s = place.shipPer + 1
    OBVIOUS
  <1>4. s \in Periods /\ s \in Int /\ place.shipPer \in Int /\ place.demPer \in Int
    <2>1. place.shipPer \in Int /\ 0 <= place.shipPer /\ LastPer \in Int /\ place.demPer \in Int
      BY <1>2, PeriodFacts
    <2>2. s \in Int /\ 0 <= s /\ s <= LastPer
      BY <1>1, <1>3, <2>1 DEF LastPer
    <2> QED
      BY <2>1, <2>2, PeriodFacts
  <1>5. PICK p : p = [place EXCEPT !.shipPer = s]
    OBVIOUS
  <1>6. p \in PlaceRec /\ p.demPer = place.demPer /\ p.shipPer = s
    BY <1>2, <1>4, <1>5 DEF Types, PlaceRec
  <1>7. place' = [p EXCEPT !.idx = 1]
    BY <1>1, <1>2, <1>3, <1>5 DEF Types, PlaceRec
  <1>8. /\ place' \in PlaceRec /\ place'.demPer = place.demPer
        /\ place'.shipPer = s /\ place'.idx = 1
    BY <1>6, <1>7 DEF PlaceRec
  <1>9. Types'
    BY <1>1, <1>2, <1>8, DataKept DEF Types
  <1>10. Feasible(shipVol)'
    BY <1>1, DataKept DEF AllInv
  <1>11. Group'
    BY <1>1 DEF Group, Implosion
  <1>12. Books'
    <2>1. place'.demPer <= place'.shipPer /\ 1 <= place'.idx
      <3>1. place.demPer <= place.shipPer
        BY <1>1, BooksScan
      <3> QED
        BY <1>3, <1>4, <1>8, <3>1
    <2> QED
      BY <1>1, <1>2, <2>1, BooksScan, BooksKept DEF Types
  <1>13. Served'
    <2>1. \A j \in DOMAIN sorted : ~(j < 1)
      BY <1>2 DEF Types
    <2> QED
      BY <1>1, <1>8, <2>1 DEF Served
  <1>14. Denied'
    <2>1. \A e, u, v : Short(shipVol, blocked, e, u, v)' = Short(shipVol, blocked, e, u, v)
      BY <1>1, DataKept
    <2>2. ASSUME NEW d \in Demands, NEW t \in Periods, NEW u \in Periods,
                 t <= u, unmet[d][t] > 0,
                 t < place.demPer \/ (t = place.demPer /\ u < s)
          PROVE  \/ Short(shipVol, blocked, d, u, unmet[d][t])
                 \/ d \notin ShipLate /\ u > t
                 \/ u - t > ShipLateUB[d][t]
      <3>1. \/ t < place.demPer \/ (t = place.demPer /\ u < place.shipPer)
            \/ t = place.demPer /\ u = place.shipPer
        <4>1. u \in Int
          BY PeriodFacts
        <4> QED
          BY <1>3, <1>4, <2>2, <4>1
      <3>2. CASE t < place.demPer \/ (t = place.demPer /\ u < place.shipPer)
        BY <1>1, <2>2, <3>2 DEF AllInv, Progress, Denied, Implosion
      <3>3. CASE t = place.demPer /\ u = place.shipPer
        BY <1>1, <2>2, <3>3, DeniedNow DEF Lacks
      <3> QED
        BY <3>1, <3>2, <3>3
    <2> QED
      BY <1>1, <1>8, <2>1, <2>2 DEF Denied
  <1> QED
    BY <1>1, <1>9, <1>10, <1>11, <1>12, <1>13, <1>14, ScanFrame DEF Progress

\* The demands in the order of the priorities of a period.
LEMMA SortedType ==
  ASSUME AllInv, NEW t \in Periods
  PROVE  SortedFor(t) \in Seq(Demands)
  <1>1. PICK pri : pri = ModPriority(t)
    OBVIOUS
  <1>2. pri \in [Demands -> Nat]
    BY <1>1, ModPriorityType DEF AllInv, Types
  <1>3. SortedBy(pri) \in Seq(Demands)
    BY <1>2, SortedFacts
  <1> QED
    BY <1>1, <1>3 DEF SortedFor, AllInv, Types

\* At the end of a period of demand nothing of it can be met any more.
LEMMA NextDemPerStep ==
  ASSUME AllInv, NextDemPer
  PROVE  Types' /\ Feasible(shipVol)' /\ Progress'
  <1>1. /\ data' = data /\ shipVol' = shipVol /\ active' = active /\ eq' = eq
        /\ blocked' = blocked
        /\ unmet' = unmet /\ selected' = selected /\ work' = work
        /\ pc = "scan" /\ pc' = "scan" /\ selected = <<>> /\ PeriodDone
        /\ place.shipPer = NPeriods - 1 /\ place.demPer < NPeriods - 1
        /\ sorted' = SortedFor(place.demPer + 1)
        /\ place' = [demPer |-> place.demPer + 1, shipPer |-> place.demPer + 1, idx |-> 1]
    BY DEF NextDemPer, PeriodDone
  <1>2. Types /\ place.demPer \in Periods
    BY TypeFacts DEF AllInv
  <1>3. PICK s : s = place.demPer + 1
    OBVIOUS
  <1>4. s \in Periods /\ s \in Int /\ place.demPer \in Int
    <2>1. place.demPer \in Int /\ 0 <= place.demPer /\ LastPer \in Int
      BY <1>2, PeriodFacts
    <2>2. s \in Int /\ 0 <= s /\ s <= LastPer
      BY <1>1, <1>3, <2>1 DEF LastPer
    <2> QED
      BY <2>1, <2>2, PeriodFacts
  <1>5. place' \in PlaceRec /\ place'.demPer = s /\ place'.shipPer = s /\ place'.idx = 1
    BY <1>1, <1>3, <1>4 DEF PlaceRec
  <1>6. sorted' \in Seq(Demands)
    BY <1>1, <1>3, <1>4, SortedType
  <1>7. Types'
    BY <1>1, <1>2, <1>5, <1>6, DataKept DEF Types
  <1>8. Feasible(shipVol)'
    BY <1>1, DataKept DEF AllInv
  <1>9. Group'
    BY <1>1 DEF Group, Implosion
  <1>10. Books'
    <2>1. place'.demPer <= place'.shipPer /\ 1 <= place'.idx
      BY <1>4, <1>5
    <2> QED
      BY <1>1, <1>2, <2>1, BooksScan, BooksKept DEF Types
  <1>11. Served'
    <2>1. \A j \in DOMAIN sorted' : ~(j < 1)
      BY <1>6
    <2> QED
      BY <1>5, <2>1 DEF Served
  <1>12. Denied'
    <2>1. \A e, u, v : Short(shipVol, blocked, e, u, v)' = Short(shipVol, blocked, e, u, v)
      BY <1>1, DataKept
    <2>2. ASSUME NEW d \in Demands, NEW t \in Periods, NEW u \in Periods,
                 t <= u, unmet[d][t] > 0, t < s \/ (t = s /\ u < s)
          PROVE  \/ Short(shipVol, blocked, d, u, unmet[d][t])
                 \/ d \notin ShipLate /\ u > t
                 \/ u - t > ShipLateUB[d][t]
      <3>1. t \in Int /\ u \in Int /\ u <= LastPer /\ LastPer = place.shipPer
        BY <1>1, PeriodFacts DEF LastPer
      <3>2. \/ t < place.demPer \/ (t = place.demPer /\ u < place.shipPer)
            \/ t = place.demPer /\ u = place.shipPer
        <4>1. LastPer \in Int
          BY PeriodFacts
        <4> QED
          BY <1>3, <1>4, <2>2, <3>1, <4>1
      <3>3. CASE t < place.demPer \/ (t = place.demPer /\ u < place.shipPer)
        BY <1>1, <2>2, <3>3 DEF AllInv, Progress, Denied, Implosion
      <3>4. CASE t = place.demPer /\ u = place.shipPer
        BY <1>1, <2>2, <3>4, DeniedNow DEF Lacks
      <3> QED
        BY <3>2, <3>3, <3>4
    <2> QED
      BY <1>1, <1>5, <2>1, <2>2 DEF Denied
  <1> QED
    BY <1>1, <1>7, <1>8, <1>9, <1>10, <1>11, <1>12, ScanFrame DEF Progress

\* When implosion is over nothing is left to keep but the shipments.
LEMMA FinishImplosionStep ==
  ASSUME AllInv, FinishImplosion
  PROVE  Types' /\ Feasible(shipVol)' /\ Progress'
  <1>1. /\ data' = data /\ shipVol' = shipVol /\ active' = FALSE /\ eq' = Inactive
        /\ unmet' = unmet /\ sorted' = sorted /\ place' = place /\ selected' = selected
        /\ work' = work /\ pc' = "idle" /\ selected = <<>>
    BY DEF FinishImplosion, PeriodDone, imploder
  <1>2. Types'
    BY <1>1, DataKept, InactiveFacts DEF AllInv, Types
  <1>3. Feasible(shipVol)'
    BY <1>1, DataKept DEF AllInv
  <1>4. Progress'
    BY <1>1, NoProgress
  <1> QED
    BY <1>2, <1>3, <1>4

\* Implosion starts with books that agree, of the shipments it starts from.
LEMMA ImplodeStep ==
  ASSUME AllInv, Implode
  PROVE  Types' /\ Feasible(shipVol)' /\ Progress'
  <1>1. /\ data' = data /\ shipVol' = StartShipVol /\ active' = TRUE
        /\ eq' = Activated(Inactive) /\ unmet' = InitialUnmet /\ sorted' = SortedFor(0)
        /\ selected' = selected /\ work' = work
        /\ pc = "idle" /\ pc' = "scan"
        /\ place' = [demPer |-> 0, shipPer |-> 0, idx |-> 1]
    BY DEF Implode, Called
  <1>2. Types /\ DataType /\ shipVol \in Schedules /\ Feasible(shipVol)
    BY DEF AllInv, Types
  <1>3. 0 \in Periods
    BY PeriodFacts
  <1>4. place' \in PlaceRec /\ place'.demPer = 0 /\ place'.shipPer = 0 /\ place'.idx = 1
    BY <1>1, <1>3 DEF PlaceRec
  <1>5. sorted' \in Seq(Demands)
    BY <1>1, <1>3, SortedType
  <1>6. /\ unmet' \in Schedules
        /\ \A d \in Demands : Book(unmet'[d], shipVol', d)
    <2>1. CASE data.userHeurStart
      <3>1. shipVol' = shipVol /\ unmet' = [d \in Demands |-> Netted(d)]
        BY <1>1, <2>1 DEF StartShipVol, InitialUnmet
      <3>2. \A d \in Demands : Netted(d) \in [Periods -> Nat] /\ Book(Netted(d), shipVol, d)
        BY <1>2, NettedFacts
      <3>3. unmet' \in Schedules
        BY <3>1, <3>2 DEF Schedules
      <3>4. \A d \in Demands : unmet'[d] = Netted(d)
        BY <3>1
      <3> QED
        BY <3>1, <3>2, <3>3, <3>4
    <2>2. CASE ~data.userHeurStart
      <3>1. shipVol' = Zeros /\ unmet' = data.demandVol
        BY <1>1, <2>2 DEF StartShipVol, InitialUnmet
      <3> QED
        BY <1>2, <3>1, DataFacts, ZerosFacts
    <2> QED
      BY <2>1, <2>2
  <1>7. shipVol' \in Schedules /\ Feasible(shipVol')
    BY <1>1, StartFacts
  <1>8. eq' \in EqRec
    BY <1>1, InactiveFacts
  <1>9. Types'
    BY <1>1, <1>2, <1>4, <1>5, <1>6, <1>7, <1>8, DataKept DEF Types
  <1>10. Feasible(shipVol)'
    BY <1>1, <1>7, DataKept
  <1>11. selected' = <<>>
    BY <1>1 DEF AllInv, Progress, Group, Implosion
  <1>12. Group'
    BY <1>1, <1>11 DEF Group, Implosion
  <1>13. Books'
    BY <1>1, <1>4, <1>6, BooksKept
  <1>14. Served'
    <2>1. \A j \in DOMAIN sorted' : ~(j < 1)
      BY <1>5
    <2> QED
      BY <1>4, <2>1 DEF Served
  <1>15. Denied'
    <2>1. \A t \in Periods : ~(t < 0)
      BY PeriodFacts
    <2> QED
      BY <1>4, <2>1 DEF Denied
  <1> QED
    BY <1>1, <1>9, <1>10, <1>12, <1>13, <1>14, <1>15, ScanFrame DEF Progress

\* A demand that is not passed over, where implosion is.
LEMMA OpenDemand ==
  ASSUME AllInv, Implosion, NEW d \in Demands, ~PassedOver(d)
  PROVE  /\ place.demPer \in Periods /\ place.shipPer \in Periods
         /\ place.demPer <= place.shipPer
         /\ d \notin ShipLate => place.demPer = place.shipPer
  <1>1. place.demPer \in Periods /\ place.shipPer \in Periods
    BY TypeFacts DEF AllInv
  <1>2. place.demPer \in Int /\ place.shipPer \in Int
    BY <1>1, PeriodFacts
  <1>3. place.demPer <= place.shipPer
    BY DEF AllInv, Progress, Books
  <1> QED
    BY <1>1, <1>2, <1>3 DEF PassedOver

\* A demand is asked for at once: both books change by what it gets.
LEMMA IncAllocStep ==
  ASSUME AllInv, IncAlloc
  PROVE  Types' /\ Feasible(shipVol)' /\ Progress'
  <1>1. PICK d, p, s, des, vol, new, bl :
          /\ d = sorted[place.idx] /\ p = place.demPer /\ s = place.shipPer
          /\ des = unmet[d][p] /\ vol = IncVol(shipVol, d, s, des)
          /\ new = Shipped(shipVol, d, s, vol) /\ bl = BlockedAfter(shipVol, d, s, des)
    OBVIOUS
  <1>2. /\ data' = data /\ shipVol' = new /\ active' = active /\ eq' = eq
        /\ blocked' = bl
        /\ unmet' = [unmet EXCEPT ![d][p] = @ - vol]
        /\ sorted' = sorted /\ selected' = selected /\ work' = work
        /\ pc = "scan" /\ pc' = "scan"
        /\ place.idx <= Len(sorted) /\ ~PassedOver(d) /\ data.equitability = 1
        /\ place' = [place EXCEPT !.idx = @ + 1]
    BY <1>1 DEF IncAlloc, Scanning, NextDemand, Current
  <1>3. Types /\ DataType /\ shipVol \in Schedules /\ unmet \in Schedules /\ Feasible(shipVol)
    BY DEF AllInv, Types
  <1>4. /\ place' \in PlaceRec /\ place'.demPer = p
        /\ place'.shipPer = s /\ place'.idx = place.idx + 1
        /\ place.idx \in Nat /\ 1 <= place.idx
    BY SMTT(30), <1>1, <1>2, <1>3, BooksScan DEF Types, PlaceRec
  <1>5. \A j \in DOMAIN sorted : j \in Nat /\ sorted[j] \in Demands
    BY <1>3 DEF Types
  <1>6. place.idx \in DOMAIN sorted /\ d \in Demands
    BY <1>1, <1>2, <1>3, <1>4 DEF Types
  <1>7. p \in Periods /\ s \in Periods /\ p <= s /\ (d \notin ShipLate => p = s)
    BY <1>1, <1>2, <1>6, OpenDemand DEF Implosion
  <1>8. des \in Nat
    BY <1>1, <1>3, <1>6, <1>7, ScheduleEntry
  <1>9. des <= IncVolUB(shipVol, d, s)
    <2>1. PICK f : f = unmet[d]
      OBVIOUS
    <2>2. \A t \in Periods : f[t] \in Nat
      BY <1>3, <1>6, <2>1, ScheduleEntry
    <2>3. Book(f, shipVol, d)
      BY <1>2, <1>6, <2>1, BooksScan
    <2>4. f[p] <= IncVolUB(shipVol, d, s)
      BY <1>3, <1>6, <1>7, <2>2, <2>3, UnmetNotCut
    <2> QED
      BY <1>1, <2>1, <2>4
  <1>10. /\ vol \in Nat /\ vol <= des /\ new \in Schedules /\ Feasible(new)
         /\ \A u \in Periods, e \in Demands, n \in Nat, m \in Nat :
              Short(shipVol, blocked, e, u, n) /\ n <= m => Short(new, bl, e, u, m)
         /\ vol = des \/ Short(new, bl, d, s, des - vol)
    <2>1. /\ vol = IncVol(shipVol, d, s, des) /\ new = Shipped(shipVol, d, s, vol)
          /\ bl = BlockedAfter(shipVol, d, s, des)
      BY <1>1
    <2>2. DataType /\ shipVol \in Schedules /\ Feasible(shipVol)
      BY <1>3
    <2>3. s \in Periods
      BY <1>7
    <2>4. AllocResult(shipVol, d, s, des, vol, new, bl)
      BY <1>6, <1>8, <2>1, <2>2, <2>3, AllocFacts
    <2> QED
      BY <1>9, <2>4 DEF AllocResult
  <1>11. /\ unmet' \in Schedules
         /\ \A e \in Demands, u \in Periods :
              unmet'[e][u] = IF e = d /\ u = p THEN des - vol ELSE unmet[e][u]
         /\ \A e \in Demands : e # d => unmet'[e] = unmet[e]
    <2>1. PICK v : v = des - vol
      OBVIOUS
    <2>2. v \in Nat
      BY <1>8, <1>10, <2>1
    <2>3. PICK f, g : f = unmet /\ g = unmet'
      BY SMTT(30)
    <2>4. f \in Schedules /\ g = [f EXCEPT ![d][p] = v]
      BY <1>1, <1>2, <1>3, <2>1, <2>3
    <2>5. d \in Demands
      BY <1>6
    <2>6. p \in Periods
      BY <1>7
    <2>7. f \in Schedules
      BY <2>4
    <2>8. g = WithEntry(f, d, p, v)
      BY <2>4 DEF WithEntry
    <2>9. /\ g \in Schedules
          /\ \A e \in Demands, u \in Periods :
               g[e][u] = IF e = d /\ u = p THEN v ELSE f[e][u]
          /\ \A e \in Demands : e # d => g[e] = f[e]
      BY <2>2, <2>5, <2>6, <2>7, <2>8, EntryFacts
    <2>10. unmet' \in Schedules
      BY <2>3, <2>9
    <2>11. \A e \in Demands, u \in Periods :
             unmet'[e][u] = IF e = d /\ u = p THEN des - vol ELSE unmet[e][u]
      BY <2>1, <2>3, <2>9
    <2>12. \A e \in Demands : e # d => unmet'[e] = unmet[e]
      BY <2>3, <2>9
    <2> QED
      BY <2>10, <2>11, <2>12
  <1>12. Types'
    BY <1>2, <1>3, <1>4, <1>10, <1>11, DataKept DEF Types
  <1>13. Feasible(shipVol)'
    BY <1>2, <1>10, DataKept
  <1>14. selected = <<>>
    <2>1. \A i \in DOMAIN selected : data.equitability > 1
      BY <1>2 DEF AllInv, Progress, Group, InGroup
    <2>2. selected # <<>> => 1 \in DOMAIN selected
      BY <1>3 DEF Types
    <2> QED
      BY <1>2, <2>1, <2>2
  <1>15. Group'
    BY <1>2, <1>14 DEF Group, Implosion
  <1>16. Books'
    <2>1. ASSUME NEW e \in Demands PROVE Book(unmet'[e], shipVol', e)
      <3>1. PICK f, g : f = unmet[e] /\ g = unmet'[e]
        OBVIOUS
      <3>2. \A t \in Periods : f[t] \in Int
        BY <1>3, <3>1, ScheduleEntry
      <3>3. Book(f, shipVol, e)
        BY SMTT(30), <1>2, <3>1, BooksScan
      <3>4. CASE e = d
        <4>1. \A t \in Periods : g[t] = IF t = p THEN f[t] - vol ELSE f[t]
          BY <1>1, <1>6, <1>11, <3>1, <3>4
        <4>2. Book(g, Shipped(shipVol, d, s, vol), d)
          BY <1>3, <1>6, <1>7, <1>10, <3>2, <3>3, <3>4, <4>1, BookStep
        <4> QED
          BY <1>1, <1>2, <3>1, <3>4, <4>2
      <3>5. CASE e # d
        <4>1. new[e] = shipVol[e]
          BY SMTT(30), <1>1, <1>3, <1>6, <1>7, <1>10, <3>5, ShippedFacts
        <4>2. \A t \in Periods : f[t] \in Int /\ g[t] = f[t]
          BY <1>11, <3>1, <3>2, <3>5
        <4>3. Book(g, new, e)
          BY <3>3, <4>1, <4>2, BookSame
        <4> QED
          BY <1>2, <3>1, <4>3
      <3> QED
        BY <3>4, <3>5
    <2>2. p <= s /\ 1 <= place.idx + 1
      BY <1>4, <1>7
    <2> QED
      BY <1>2, <1>4, <1>11, <2>1, <2>2, BooksKept
  <1>17. Served'
    <2>1. ASSUME NEW j \in DOMAIN sorted, j < place'.idx
          PROVE  PassedOver(sorted[j])' \/ Lacks(sorted[j])'
      <3>1. PICK e \in Demands : e = sorted[j]
        BY <1>5
      <3>2. Lacks(e)' = Short(new, bl, e, s, unmet'[e][p])
        BY <1>2, <1>4, DataKept DEF Lacks
      <3>3. j < place.idx \/ j = place.idx
        BY <1>4, <1>5, <2>1
      <3>4. CASE e = d
        <4>1. ASSUME vol = des PROVE PassedOver(e)'
          <5>1. unmet'[e][p] = 0
            BY <1>7, <1>8, <1>11, <3>4, <4>1
          <5> QED
            BY <1>4, <5>1 DEF PassedOver
        <4>2. ASSUME Short(new, bl, d, s, des - vol) PROVE Lacks(e)'
          <5>1. unmet'[e][p] = des - vol
            BY <1>7, <1>11, <3>4
          <5> QED
            BY <3>2, <3>4, <4>2, <5>1
        <4> QED
          BY <1>2, <1>10, <3>1, <4>1, <4>2
      <3>5. CASE e # d
        <4>1. j < place.idx
          BY <1>1, <3>1, <3>3, <3>5
        <4>2. PassedOver(sorted[j]) \/ Lacks(sorted[j]) \/ Awaits(sorted[j])
          BY <1>2, <4>1 DEF AllInv, Progress, Served, Implosion
        <4>3. ~Awaits(sorted[j])
          BY <1>2, <1>14 DEF Awaits
        <4>4. PassedOver(e)' = PassedOver(e)
          BY <1>1, <1>4, <1>11, <3>5 DEF PassedOver
        <4>5. Lacks(e) => Lacks(e)'
          <5>1. unmet[e][p] \in Nat /\ unmet'[e][p] = unmet[e][p]
            BY <1>3, <1>7, <1>11, <3>5, ScheduleEntry
          <5>2. ASSUME Short(shipVol, blocked, e, s, unmet[e][p])
                PROVE  Short(new, bl, e, s, unmet'[e][p])
            BY <1>7, <1>10, <5>1, <5>2
          <5> QED
            BY <1>1, <3>2, <5>2 DEF Lacks
        <4> QED
          BY <1>2, <3>1, <4>2, <4>3, <4>4, <4>5
      <3> QED
        BY <3>4, <3>5
    <2> QED
      BY <1>2, <2>1 DEF Served
  <1>18. Denied'
    <2>1. ASSUME NEW e \in Demands, NEW t \in Periods, NEW u \in Periods, unmet'[e][t] > 0,
                 t <= u, t < p \/ (t = p /\ u < s)
          PROVE  \/ Short(new, bl, e, u, unmet'[e][t])
                 \/ e \notin ShipLate /\ u > t
                 \/ u - t > ShipLateUB[e][t]
      <3>1. unmet[e][t] \in Nat /\ unmet'[e][t] \in Nat /\ unmet'[e][t] <= unmet[e][t]
        <4>1. vol \in Nat /\ vol <= des
          BY <1>10
        <4>2. unmet[e][t] \in Nat /\ unmet'[e][t] \in Nat
          BY <1>3, <1>11, ScheduleEntry
        <4>3. unmet'[e][t] = IF e = d /\ t = p THEN des - vol ELSE unmet[e][t]
          BY <1>11
        <4>4. CASE e = d /\ t = p
          BY <1>1, <1>8, <4>1, <4>2, <4>3, <4>4
        <4> QED
          BY <4>2, <4>3, <4>4
      <3>2. unmet[e][t] > 0
        BY SMTT(30), <2>1, <3>1
      <3>3. \/ Short(shipVol, blocked, e, u, unmet[e][t])
            \/ e \notin ShipLate /\ u > t
            \/ u - t > ShipLateUB[e][t]
        BY <1>1, <1>2, <2>1, <3>2 DEF AllInv, Progress, Denied, Implosion
      <3>4. ASSUME Short(shipVol, blocked, e, u, unmet[e][t])
            PROVE  Short(new, bl, e, u, unmet'[e][t])
        <4>1. Short(new, bl, e, u, unmet[e][t])
          BY <1>10, <3>1, <3>4
        <4>2. CASE e = d /\ t = p
          <5>1. unmet[e][t] = des /\ unmet'[e][t] = des - vol /\ vol # des
            BY <1>1, <1>8, <1>11, <2>1, <4>2
          <5>2. Short(new, bl, e, s, unmet'[e][t])
            BY <1>10, <4>2, <5>1
          <5>3. u <= s
            BY <1>7, <2>1, <4>2, PeriodFacts
          <5> QED
            BY <1>3, <1>7, <1>10, <3>1, <4>1, <5>2, <5>3, ShortEarlier
        <4>3. CASE ~(e = d /\ t = p)
          BY <1>11, <4>1, <4>3
        <4> QED
          BY <4>2, <4>3
      <3> QED
        BY <3>3, <3>4
    <2>2. \A e, t, u : Short(shipVol, blocked, e, u, unmet[e][t])'
                         = Short(new, bl, e, u, unmet'[e][t])
      BY <1>2, DataKept
    <2>3. place'.demPer = p /\ place'.shipPer = s
      BY <1>4
    <2> QED
      BY <2>1, <2>2, <2>3 DEF Denied
  <1> QED
    BY <1>2, <1>12, <1>13, <1>15, <1>16, <1>17, <1>18, ScanFrame DEF Progress

\* A demand joins the group that is selected.
LEMMA SelectStep ==
  ASSUME AllInv, SelectForEqAlloc
  PROVE  Types' /\ Feasible(shipVol)' /\ Progress'
  <1>1. PICK d, p, s, x :
          /\ d = sorted[place.idx] /\ p = place.demPer /\ s = place.shipPer
          /\ x = [demand |-> d, per |-> s, vol |-> unmet[d][p]]
    OBVIOUS
  <1>2. /\ data' = data /\ shipVol' = shipVol /\ active' = active
        /\ blocked' = blocked
        /\ eq' = WithDesired(eq, <<x>>) /\ unmet' = unmet
        /\ sorted' = sorted /\ selected' = <<x>> \o selected /\ work' = work
        /\ pc = "scan" /\ pc' = "scan"
        /\ place.idx <= Len(sorted) /\ ~PassedOver(d) /\ data.equitability > 1
        /\ ~StartsNewGroup(d)
        /\ place' = [place EXCEPT !.idx = @ + 1]
    BY <1>1 DEF SelectForEqAlloc, Scanning, NextDemand, Current
  <1>3. Types /\ DataType /\ shipVol \in Schedules /\ unmet \in Schedules
        /\ selected \in Seq(Targets) /\ eq \in EqRec
    BY DEF AllInv, Types
  <1>4. /\ place' \in PlaceRec /\ place'.demPer = p
        /\ place'.shipPer = s /\ place'.idx = place.idx + 1
        /\ place.idx \in Nat /\ 1 <= place.idx
    <2>1. place \in PlaceRec
      BY <1>3 DEF Types
    <2>2. place' = [place EXCEPT !.idx = @ + 1]
      BY <1>2
    <2>3. place.idx \in Nat
      BY <2>1 DEF PlaceRec
    <2>4. /\ place' \in PlaceRec /\ place'.demPer = place.demPer
          /\ place'.shipPer = place.shipPer /\ place'.idx = place.idx + 1
      BY <2>1, <2>2, <2>3 DEF PlaceRec
    <2>5. 1 <= place.idx
      BY <1>2, BooksScan
    <2> QED
      BY <1>1, <2>3, <2>4, <2>5
  <1>5. \A j \in DOMAIN sorted : j \in Nat /\ sorted[j] \in Demands
    BY <1>3 DEF Types
  <1>6. place.idx \in DOMAIN sorted /\ d \in Demands
    BY <1>1, <1>2, <1>3, <1>4 DEF Types
  <1>7. p \in Periods /\ s \in Periods /\ p <= s
    BY <1>1, <1>2, <1>6, OpenDemand DEF Implosion
  <1>8. x \in Targets /\ x.demand = d /\ x.per = s /\ x.vol = unmet[d][p]
    <2>1. unmet[d][p] \in Nat
      BY <1>3, <1>6, <1>7, ScheduleEntry
    <2> QED
      BY <1>1, <1>6, <1>7, <2>1 DEF Targets
  <1>9. PICK one : one = <<x>>
    OBVIOUS
  <1>10. one \in Seq(Targets) /\ DOMAIN one = {1} /\ one[1] = x
    BY <1>8, <1>9
  <1>11. /\ eq' \in EqRec /\ eq'.desIncVol[d][s] = unmet[d][p]
         /\ \A e \in Demands, u \in Periods :
              e # d => eq'.desIncVol[e][u] = eq.desIncVol[e][u]
    <2>1. Distinct(one)
      BY <1>10 DEF Distinct
    <2>2. eq' = WithDesired(eq, one)
      BY <1>2, <1>9
    <2>3. PICK r : r = eq'
      OBVIOUS
    <2>4. /\ r \in EqRec
          /\ \A i \in DOMAIN one : r.desIncVol[one[i].demand][one[i].per] = one[i].vol
          /\ \A e \in Demands, u \in Periods :
               ~IsTarget(one, e, u) => r.desIncVol[e][u] = eq.desIncVol[e][u]
      BY <1>3, <1>10, <2>1, <2>2, <2>3, WithDesiredFacts
    <2>5. ASSUME NEW e, e # d, NEW u PROVE ~IsTarget(one, e, u)
      BY <1>8, <1>10, <2>5 DEF IsTarget
    <2>6. r.desIncVol[d][s] = unmet[d][p]
      BY <1>8, <1>10, <2>4
    <2> QED
      BY <2>3, <2>4, <2>5, <2>6
  <1>12. PICK n \in Nat : n = Len(selected)
    BY <1>3
  <1>13. PICK longer : longer = one \o selected
    OBVIOUS
  <1>14. /\ longer \in Seq(Targets) /\ DOMAIN longer = 1..(n + 1)
         /\ longer[1] = x
         /\ \A i \in 2..(n + 1) : longer[i] = selected[i - 1] /\ i - 1 \in DOMAIN selected
    <2>1. Len(one) = 1 /\ one \in Seq(Targets) /\ selected \in Seq(Targets)
      BY <1>3, <1>9, <1>10
    <2>2. /\ longer \in Seq(Targets) /\ Len(longer) = Len(one) + Len(selected)
          /\ \A i \in 1..(Len(one) + Len(selected)) :
               longer[i] = IF i <= Len(one) THEN one[i] ELSE selected[i - Len(one)]
      BY <1>13, <2>1, ConcatProperties
    <2>3. \A i \in 1..(1 + n) : longer[i] = IF i <= 1 THEN one[i] ELSE selected[i - 1]
      BY <1>12, <2>1, <2>2
    <2>7. Len(longer) = 1 + n
      BY <1>12, <2>1, <2>2
    <2>8. DOMAIN longer = 1..(n + 1)
      BY <1>12, <2>2, <2>7
    <2>4. \A i \in 2..(n + 1) : i \in 1..(1 + n) /\ ~(i <= 1) /\ i - 1 \in 1..n
      BY <1>12
    <2>5. DOMAIN selected = 1..n
      BY <1>3, <1>12
    <2>6. 1 \in 1..(1 + n) /\ 1 <= 1
      BY <1>12
    <2> QED
      BY <1>10, <2>2, <2>3, <2>4, <2>5, <2>6, <2>8
  <1>15. selected' = longer
    BY <1>2, <1>9, <1>13
  <1>16. Types'
    BY <1>2, <1>3, <1>4, <1>11, <1>14, <1>15, DataKept DEF Types
  <1>17. Feasible(shipVol)'
    BY <1>2, DataKept DEF AllInv
  <1>18. \A e : PassedOver(e)' = PassedOver(e)
    BY <1>1, <1>2, <1>4 DEF PassedOver
  <1>19. PICK pri : pri = ModPriority(p)
    OBVIOUS
  <1>20. ModPriority(place.demPer)' = pri
    BY <1>2, <1>4, <1>19, DataKept
  \* The group as it was, and the demand that joins it.
  <1>21. ASSUME NEW i \in DOMAIN selected
         PROVE  /\ selected[i].per = s
                /\ eq.desIncVol[selected[i].demand][s] = unmet[selected[i].demand][p]
                /\ ~PassedOver(selected[i].demand)
                /\ \E j \in DOMAIN sorted : j < place.idx /\ sorted[j] = selected[i].demand
                /\ \A k \in DOMAIN selected :
                     /\ pri[selected[k].demand] = pri[selected[i].demand]
                     /\ selected[k].demand = selected[i].demand => k = i
                /\ selected[i].demand \in Demands
    <2>1. InGroup(selected, i)
      BY <1>2 DEF AllInv, Progress, Group
    <2>2. selected[i].demand \in Demands
      BY <1>3, ListEntry
    <2> QED
      BY <1>1, <1>19, <2>1, <2>2 DEF InGroup
  <1>22. ASSUME NEW i \in DOMAIN selected
         PROVE  selected[i].demand # d /\ pri[selected[i].demand] = pri[d]
    <2>1. PICK j \in DOMAIN sorted : j < place.idx /\ sorted[j] = selected[i].demand
      BY <1>21
    <2>2. j # place.idx
      BY <1>4, <1>5, <2>1
    <2>3. selected[i].demand # d
      BY <1>1, <1>2, <1>6, <2>1, <2>2, SortedList DEF Implosion
    <2>4. 1 \in DOMAIN selected /\ selected # <<>>
      BY <1>3, <1>12
    <2>5. pri[d] = pri[selected[1].demand]
      BY <1>1, <1>2, <1>19, <2>4 DEF StartsNewGroup
    <2>6. pri[selected[1].demand] = pri[selected[i].demand]
      BY <1>21, <2>4
    <2> QED
      BY <2>3, <2>5, <2>6
  <1>23. ASSUME NEW i \in DOMAIN longer
         PROVE  /\ longer[i].demand \in Demands
                /\ longer[i].per = s
                /\ eq'.desIncVol[longer[i].demand][s] = unmet[longer[i].demand][p]
                /\ ~PassedOver(longer[i].demand)
                /\ \E j \in DOMAIN sorted : j < place.idx + 1 /\ sorted[j] = longer[i].demand
                /\ pri[longer[i].demand] = pri[d]
    <2>1. CASE i = 1
      <3>1. place.idx < place.idx + 1
        BY <1>4
      <3> QED
        BY <1>1, <1>2, <1>6, <1>8, <1>11, <1>14, <2>1, <3>1
    <2>2. CASE i # 1
      <3>1. i \in 2..(n + 1)
        BY <1>12, <1>14, <2>2
      <3>2. PICK k \in DOMAIN selected : longer[i] = selected[k]
        BY <1>14, <3>1
      <3>3. PICK j \in DOMAIN sorted : j < place.idx /\ sorted[j] = selected[k].demand
        BY <1>21
      <3>4. j < place.idx + 1
        BY <1>4, <1>5, <3>3
      <3> QED
        BY <1>7, <1>11, <1>21, <1>22, <3>2, <3>3, <3>4
    <2> QED
      BY SMTT(30), <2>1, <2>2
  <1>24. ASSUME NEW i \in DOMAIN longer, NEW k \in DOMAIN longer,
                longer[k].demand = longer[i].demand
         PROVE  k = i
    <2>1. ASSUME NEW l \in DOMAIN longer, l # 1
          PROVE  /\ l - 1 \in DOMAIN selected /\ longer[l] = selected[l - 1] /\ l \in Int
                 /\ longer[l].demand # d
      <3>1. l \in 2..(n + 1)
        BY <1>12, <1>14, <2>1
      <3> QED
        BY <1>14, <1>22, <3>1
    <2>2. longer[1].demand = d
      BY <1>8, <1>14
    <2>3. CASE i = 1 \/ k = 1
      BY <1>24, <2>1, <2>2, <2>3
    <2>4. CASE i # 1 /\ k # 1
      <3>1. k - 1 = i - 1
        BY <1>21, <1>24, <2>1, <2>4
      <3> QED
        BY <2>1, <2>4, <3>1
    <2> QED
      BY <2>3, <2>4
  <1>25. Group'
    <2>1. ASSUME NEW i \in DOMAIN longer PROVE InGroup(longer, i)'
      <3>1. /\ data'.equitability > 1
            /\ longer[i].per = place'.shipPer
            /\ eq'.desIncVol[longer[i].demand][place'.shipPer]
                 = unmet'[longer[i].demand][place'.demPer]
            /\ \E j \in DOMAIN sorted' : j < place'.idx /\ sorted'[j] = longer[i].demand
        BY <1>2, <1>4, <1>23
      <3>2. ~PassedOver(longer[i].demand)'
        BY <1>18, <1>23
      <3>3. \A k \in DOMAIN longer :
              /\ ModPriority(place.demPer)'[longer[k].demand]
                   = ModPriority(place.demPer)'[longer[i].demand]
              /\ longer[k].demand = longer[i].demand => k = i
        BY <1>20, <1>23, <1>24
      <3> QED
        BY <3>1, <3>2, <3>3 DEF InGroup
    <2>2. \A i \in DOMAIN selected' : InGroup(selected, i)'
      BY <1>15, <2>1 DEF InGroup
    <2> QED
      BY <1>2, <2>2 DEF Group, Implosion
  <1>26. Books'
    <2>1. 1 <= place'.idx
      BY <1>4
    <2> QED
      BY <1>1, <1>2, <1>3, <1>4, <2>1, BooksScan, BooksKept
  <1>27. Served'
    <2>1. \A e : Lacks(e)' = Lacks(e)
      BY <1>1, <1>2, <1>4, DataKept DEF Lacks
    <2>2. ASSUME NEW j \in DOMAIN sorted, j < place'.idx, NEW e, e = sorted[j]
          PROVE  PassedOver(e)' \/ Lacks(e)' \/ Awaits(e)'
      <3>1. j < place.idx \/ j = place.idx
        BY <1>4, <1>5, <2>2
      <3>2. ASSUME NEW k \in DOMAIN longer, longer[k].demand = e PROVE Awaits(e)'
        BY <1>2, <1>15, <3>2 DEF Awaits
      <3>3. CASE j = place.idx
        <4>1. 1 \in DOMAIN longer /\ longer[1].demand = e
          BY <1>1, <1>8, <1>12, <1>14, <2>2, <3>3
        <4> QED
          BY <3>2, <4>1
      <3>4. CASE j < place.idx
        <4>1. PassedOver(e) \/ Lacks(e) \/ Awaits(e)
          BY <1>2, <2>2, <3>4 DEF AllInv, Progress, Served, Implosion
        <4>2. CASE Awaits(e)
          <5>1. PICK i \in DOMAIN selected : selected[i].demand = e
            BY <1>2, <4>2 DEF Awaits
          <5>2. i \in 1..n
            BY <1>3, <1>12
          <5>3. i + 1 \in 2..(n + 1) /\ (i + 1) - 1 = i /\ i + 1 \in 1..(n + 1)
            BY <1>12, <5>2
          <5>4. longer[i + 1] = selected[i] /\ i + 1 \in DOMAIN longer
            BY <1>14, <5>3
          <5> QED
            BY <3>2, <5>1, <5>4
        <4> QED
          BY <1>18, <2>1, <4>1, <4>2
      <3> QED
        BY <3>1, <3>3, <3>4
    <2> QED
      BY <1>2, <2>2 DEF Served
  <1>28. Denied'
    <2>1. \A e, u, v : Short(shipVol, blocked, e, u, v)' = Short(shipVol, blocked, e, u, v)
      BY <1>2, DataKept
    <2>2. Denied
      BY DEF AllInv, Progress
    <2> QED
      BY <1>1, <1>2, <1>4, <2>1, <2>2 DEF Denied, Implosion
  <1> QED
    BY <1>2, <1>16, <1>17, <1>25, <1>26, <1>27, <1>28, ScanFrame DEF Progress

\* A group begins to be allocated.
LEMMA GroupBegins ==
  ASSUME AllInv, pc = "scan", selected # <<>>,
         BeginEqAlloc(eq, Reverse(selected), TRUE),
         data' = data, shipVol' = shipVol, active' = active, unmet' = unmet,
         blocked' = blocked,
         sorted' = sorted, place' = place, selected' = selected
  PROVE  Types' /\ Feasible(shipVol)' /\ Progress'
  <1>1. PICK n, back : n = Len(selected) /\ back = Reverse(selected)
    OBVIOUS
  <1>2. Types /\ selected \in Seq(Targets) /\ eq \in EqRec
    BY DEF AllInv, Types
  <1>3. /\ back \in Seq(Targets) /\ Len(back) = n /\ DOMAIN back = DOMAIN selected
        /\ \A i \in DOMAIN selected : /\ n - i + 1 \in DOMAIN selected
                                      /\ back[i] = selected[n - i + 1]
    BY <1>1, <1>2, ReverseFacts
  <1>4. n \in Nat /\ DOMAIN selected = 1..n /\ n # 0
    BY <1>1, <1>2, ListEntry
  <1>5. ASSUME NEW i \in DOMAIN selected PROVE InGroup(selected, i)
    BY DEF AllInv, Progress, Group
  <1>6. ASSUME NEW i \in DOMAIN back, NEW k \in DOMAIN back,
               back[k].demand = back[i].demand
        PROVE  k = i
    <2>1. n - i + 1 \in DOMAIN selected /\ n - k + 1 \in DOMAIN selected
      BY <1>3
    <2>2. selected[n - k + 1].demand = selected[n - i + 1].demand
      BY <1>3, <1>6
    <2>3. n - k + 1 = n - i + 1
      BY <1>5, <2>1, <2>2 DEF InGroup
    <2>4. i \in Int /\ k \in Int
      BY <1>3, <1>4
    <2> QED
      BY <1>4, <2>3, <2>4
  <1>7. Distinct(back) /\ back # <<>>
    <2>1. back # <<>>
      BY <1>3, <1>4
    <2>2. Distinct(back)
      BY <1>6 DEF Distinct
    <2> QED
      BY <2>1, <2>2
  <1>8. /\ eq' \in EqRec /\ work' \in WorkRec /\ work'.list = back
        /\ work'.imploding = TRUE /\ work'.pos = 1 /\ pc' = "eq"
        /\ eq'.desIncVol = eq.desIncVol
        /\ \A i \in DOMAIN back : work'.multi => Inc(i)' = 0 /\ Prev(i)' = 0
        /\ Rounds'
    <2>1. BeginEqAlloc(eq, back, TRUE)
      BY <1>1
    <2>2. eq.prevDesVol = Zeros
      BY NothingBefore DEF AllInv
    <2>3. TRUE \in BOOLEAN
      OBVIOUS
    <2> QED
      <3>1. back \in Seq(Targets) /\ back # <<>> /\ Distinct(back)
        BY <1>3, <1>7
      <3>2. eq \in EqRec
        BY <1>2
      <3>3. BeginEqAlloc(eq, back, TRUE)
        BY <2>1
      <3> QED
        BY <2>2, <2>3, <3>1, <3>2, <3>3, BeginRounds
  <1>9. Types'
    <2>1. selected' \in Seq(Targets)
      BY <1>2
    <2> QED
      BY <1>2, <1>8, <2>1, DataKept DEF Types
  <1>10. Feasible(shipVol)'
    BY DataKept DEF AllInv
  <1>11. \A d : PassedOver(d)' = PassedOver(d)
    BY DEF PassedOver
  <1>12. \A t : ModPriority(t)' = ModPriority(t)
    BY DataKept
  <1>13. ASSUME NEW i \in DOMAIN back PROVE InGroup(back, i)'
    <2>1. PICK m \in DOMAIN selected : back[i] = selected[m]
      BY <1>3
    <2>2. InGroup(selected, m)
      BY <1>5
    <2>3. PICK pri : pri = ModPriority(place.demPer)
      OBVIOUS
    <2>4. ModPriority(place.demPer)' = pri
      BY <1>12, <2>3
    <2>5. ASSUME NEW k \in DOMAIN back PROVE pri[back[k].demand] = pri[back[i].demand]
      <3>1. PICK l \in DOMAIN selected : back[k] = selected[l]
        BY <1>3
      <3>2. pri[selected[l].demand] = pri[selected[m].demand]
        BY <2>2, <2>3 DEF InGroup
      <3> QED
        BY <2>1, <3>1, <3>2
    <2>6. \A k \in DOMAIN back : back[k].demand = back[i].demand => k = i
      BY <1>6
    <2>7. /\ data'.equitability > 1 /\ back[i].per = place'.shipPer
          /\ eq'.desIncVol[back[i].demand][place'.shipPer]
               = unmet'[back[i].demand][place'.demPer]
          /\ \E j \in DOMAIN sorted' : j < place'.idx /\ sorted'[j] = back[i].demand
          /\ ~PassedOver(back[i].demand)'
      <3>1. PICK e : e = back[i].demand /\ e = selected[m].demand
        BY <2>1
      <3>2. /\ data.equitability > 1 /\ selected[m].per = place.shipPer
            /\ eq.desIncVol[e][place.shipPer] = unmet[e][place.demPer]
            /\ \E j \in DOMAIN sorted : j < place.idx /\ sorted[j] = e
            /\ ~PassedOver(e)
        BY <2>2, <3>1 DEF InGroup
      <3>3. ~PassedOver(e)'
        BY <1>11, <3>2
      <3>4. eq'.desIncVol[e][place'.shipPer] = unmet'[e][place'.demPer]
        BY <1>8, <3>2
      <3>5. ~PassedOver(back[i].demand)'
        BY <3>1, <3>3 DEF PassedOver
      <3>6. back[i].per = place'.shipPer
        BY <2>1, <3>2
      <3>7. \E j \in DOMAIN sorted' : j < place'.idx /\ sorted'[j] = e
        BY <3>2
      <3>8. eq'.desIncVol[back[i].demand][place'.shipPer]
              = unmet'[back[i].demand][place'.demPer]
        BY <3>1, <3>4
      <3>9. \E j \in DOMAIN sorted' : j < place'.idx /\ sorted'[j] = back[i].demand
        BY <3>1, <3>7
      <3>10. data'.equitability > 1
        BY <3>2
      <3> QED
        BY <3>5, <3>6, <3>8, <3>9, <3>10
    <2> QED
      BY <2>4, <2>5, <2>6, <2>7 DEF InGroup
  <1>14. Group'
    <2>1. \A i \in DOMAIN work'.list : InGroup(work.list, i)'
      BY <1>8, <1>13 DEF InGroup
    <2> QED
      BY <1>8, <2>1 DEF Group, Implosion
  <1>15. Books'
    <2>1. ASSUME NEW d \in Demands PROVE Got(d)' = 0
      <3>1. CASE \E i \in DOMAIN back : back[i].demand = d /\ (work'.multi \/ i < 1)
        <4>1. PICK i \in DOMAIN back : back[i].demand = d /\ (work'.multi \/ i < 1)
          BY <3>1
        <4>2. i \in Int /\ ~(i < 1)
          BY <1>3, <1>4
        <4>3. Inc(i)' = 0
          BY <1>8, <4>1, <4>2
        <4>4. back[i].per = place'.shipPer
          BY <1>13 DEF InGroup
        <4>5. Inc(i)' = eq'.incVol[d][place'.shipPer]
          BY <1>8, <4>1, <4>4 DEF Inc
        <4> QED
          BY <4>3, <4>5 DEF Got
      <3>2. CASE ~ \E i \in DOMAIN back : back[i].demand = d /\ (work'.multi \/ i < 1)
        BY <1>8, <3>2 DEF Got
      <3> QED
        BY <3>1, <3>2
    <2>2. ASSUME NEW d \in Demands PROVE Book(Open(d), shipVol, d)'
      <3>1. PICK f, g, ship : f = Open(d)' /\ g = unmet[d] /\ ship = shipVol
        OBVIOUS
      <3>2. \A t \in Periods : g[t] \in Nat
        BY <1>2, <3>1, ScheduleEntry DEF Types
      <3>3. \A t \in Periods : g[t] \in Int /\ f[t] = g[t]
        BY <2>1, <3>1, <3>2 DEF Open
      <3>4. Book(g, ship, d)
        BY <3>1, BooksScan
      <3>5. Book(f, ship, d)
        BY <3>3, <3>4, BookSame
      <3>6. Book(f, ship, d)'
        BY <3>5, DataKept
      <3> QED
        BY <3>1, <3>6
    <2>3. place'.demPer <= place'.shipPer /\ 1 <= place'.idx
      BY BooksScan
    <2> QED
      BY <2>2, <2>3 DEF Books
  <1>16. Served'
    <2>1. \A e : Lacks(e)' = Lacks(e)
      BY DataKept DEF Lacks
    <2>2. ASSUME NEW d, Awaits(d) PROVE Awaits(d)'
      <3>1. PICK m \in DOMAIN selected : selected[m].demand = d
        BY <2>2 DEF Awaits
      <3>2. m \in 1..n
        BY <1>4
      <3>3. n - m + 1 \in 1..n /\ n - (n - m + 1) + 1 = m
        BY <1>4, <3>2
      <3>4. back[n - m + 1] = selected[m] /\ n - m + 1 \in DOMAIN back
        BY <1>3, <1>4, <3>3
      <3>5. \E i \in DOMAIN back : back[i].demand = d
        BY <3>1, <3>4
      <3> QED
        BY <1>8, <3>5 DEF Awaits
    <2>3. ASSUME NEW j \in DOMAIN sorted, j < place.idx, NEW d, d = sorted[j]
          PROVE  PassedOver(d)' \/ Lacks(d)' \/ Awaits(d)'
      <3>1. PassedOver(d) \/ Lacks(d) \/ Awaits(d)
        BY <2>3 DEF AllInv, Progress, Served, Implosion
      <3> QED
        BY <1>11, <2>1, <2>2, <3>1
    <2> QED
      BY <2>3 DEF Served
  <1>17. Filled'
    <2>1. \A i \in DOMAIN back : work'.multi => Inc(i)' = Prev(i)'
      BY <1>8
    <2>2. \A i \in DOMAIN back : ~(i < work'.pos)
      BY <1>3, <1>4, <1>8
    <2> QED
      BY <1>8, <2>1, <2>2 DEF Filled, Gets
  <1>18. Shared'
    <2>1. work'.multi => \A i \in DOMAIN back : Inc(i)' = Prev(i)'
      BY <1>8
    <2> QED
      BY <1>8, <2>1 DEF Shared
  <1>19. Denied'
    <2>1. \A e, u, v : Short(shipVol, blocked, e, u, v)' = Short(shipVol, blocked, e, u, v)
      BY DataKept
    <2>2. Denied
      BY DEF AllInv, Progress
    <2> QED
      BY <2>1, <2>2 DEF Denied, Implosion
  <1> QED
    BY <1>8, <1>9, <1>10, <1>14, <1>15, <1>16, <1>17, <1>18, <1>19 DEF Progress

\* The selected group is handed to the equitable allocator.
LEMMA GroupSteps ==
  ASSUME AllInv, AllocGroup \/ AllocLastGroup
  PROVE  Types' /\ Feasible(shipVol)' /\ Progress'
  <1>1. /\ pc = "scan" /\ selected # <<>>
        /\ BeginEqAlloc(eq, Reverse(selected), TRUE)
        /\ data' = data /\ shipVol' = shipVol /\ active' = active /\ unmet' = unmet
        /\ blocked' = blocked
        /\ sorted' = sorted /\ place' = place /\ selected' = selected
    BY DEF AllocGroup, AllocLastGroup, Scanning, StartsNewGroup, imploder
  <1> QED
    BY <1>1, GroupBegins

-------------------------------------------------------------------------------
(* One target of an equitable allocation. *)

Asked == IF work.multi THEN Goal(work.pos, work.itNo) - Prev(work.pos) ELSE Des(work.pos)

\* The target and what it is asked for.
LEMMA AskedFacts ==
  ASSUME AllInv, pc = "eq", NEW l, l = work.list, NEW n, n = work.pos, n \in DOMAIN l
  PROVE  /\ n \in Nat /\ l[n].demand \in Demands /\ l[n].per \in Periods
         /\ Des(n) \in Nat /\ Inc(n) \in Nat /\ Prev(n) \in Nat
         /\ work.multi => Goal(n, work.itNo) \in Nat
         /\ work.multi => Prev(n) <= Goal(n, work.itNo) /\ Inc(n) <= Prev(n)
         /\ work.multi => Goal(n, work.itNo) <= Des(n)
         /\ Asked \in Nat
  <1>1. DataType /\ l \in Seq(Targets) /\ work.itNo \in Nat /\ work.pos \in Nat
    BY TypeFacts DEF AllInv, Types
  <1>2. n \in Nat /\ l[n].demand \in Demands /\ l[n].per \in Periods
    BY <1>1, ListEntry
  <1>3. PICK d, t : d = l[n].demand /\ t = l[n].per
    BY SMTT(30)
  <1>4. Des(n) \in Nat /\ Inc(n) \in Nat /\ Prev(n) \in Nat
    <2>1. eq.desIncVol \in Schedules /\ eq.incVol \in Schedules /\ eq.prevDesVol \in Schedules
      BY SMTT(30), TypeFacts DEF AllInv
    <2>2. /\ eq.desIncVol[d][t] \in Nat /\ eq.incVol[d][t] \in Nat
          /\ eq.prevDesVol[d][t] \in Nat
      BY <1>2, <1>3, <2>1, ScheduleEntry
    <2> QED
      BY <1>3, <2>2 DEF Des, Inc, Prev
  <1>5. CASE work.multi
    <2>1. /\ 1 <= work.itNo
          /\ Prev(n) = Goal(n, IF n < work.pos THEN work.itNo ELSE work.itNo - 1)
          /\ Inc(n) <= Prev(n)
      BY <1>5 DEF AllInv, Progress, Rounds
    <2>2. ~(n < work.pos)
      BY <1>2
    <2>3. Prev(n) = Goal(n, work.itNo - 1)
      BY <2>1, <2>2
    <2>4. PICK r : r = work.itNo - 1
      OBVIOUS
    <2>5. r \in Nat /\ r + 1 = work.itNo
      BY <1>1, <2>1, <2>4
    <2>6. PICK v : v = Des(n)
      OBVIOUS
    <2>7. v \in Nat
      BY <1>4, <2>6
    <2>8. /\ NewDesVol(d, v, r + 1) \in Nat /\ NewDesVol(d, v, r + 1) <= v
          /\ NewDesVol(d, v, r) <= NewDesVol(d, v, r + 1)
      <3>1. d \in Demands
        BY <1>2, <1>3
      <3>2. r + 1 \in Nat
        BY <2>5
      <3> QED
        BY <1>1, <2>5, <2>7, <3>1, <3>2, NewDesVolFacts
    <2>9. Goal(n, work.itNo) = NewDesVol(d, v, r + 1) /\ Goal(n, work.itNo - 1) = NewDesVol(d, v, r)
      BY <1>3, <2>4, <2>5, <2>6 DEF Goal
    <2>10. Goal(n, work.itNo) \in Nat /\ Prev(n) <= Goal(n, work.itNo)
           /\ Goal(n, work.itNo) <= Des(n)
      BY <2>3, <2>6, <2>8, <2>9
    <2>11. Asked = Goal(n, work.itNo) - Prev(n)
      BY <1>5 DEF Asked
    <2>12. Asked \in Nat
      BY <1>4, <2>10, <2>11
    <2> QED
      BY <1>2, <1>4, <2>1, <2>10, <2>12
  <1>6. CASE ~work.multi
    BY <1>2, <1>4, <1>6 DEF Asked
  <1> QED
    BY <1>5, <1>6

\* How the iteration goes on.
LEMMA NextTargetFacts ==
  ASSUME work \in WorkRec, work.pos \in DOMAIN work.list, NEW w, w = NextTarget,
         work.itNo <= NRounds, NRounds \in Int
  PROVE  /\ w \in WorkRec /\ w.list = work.list /\ w.multi = work.multi
         /\ w.imploding = work.imploding
         /\ \/ /\ w.pos = work.pos + 1 /\ w.itNo = work.itNo
               /\ work.pos < Len(work.list) \/ work.itNo = NRounds
            \/ /\ w.pos = 1 /\ w.itNo = work.itNo + 1 /\ work.pos = Len(work.list)
               /\ work.itNo < NRounds
  <1>1. PICK n, r, l : n = work.pos /\ r = work.itNo /\ l = work.list
    OBVIOUS
  <1>2. n \in Nat /\ r \in Nat /\ l \in Seq(Targets)
    BY <1>1 DEF WorkRec
  <1>3. n <= Len(l) /\ 1 <= n /\ Len(l) \in Nat
    BY <1>1, <1>2, ListEntry
  <1>4. CASE n < Len(l) \/ r = NRounds
    <2>1. w = [work EXCEPT !.pos = @ + 1]
      BY <1>1, <1>4 DEF NextTarget
    <2>2. n + 1 \in Nat
      BY <1>2
    <2>3. w = [work EXCEPT !.pos = n + 1]
      BY <1>1, <2>1
    <2>4. /\ w \in WorkRec /\ w.list = work.list /\ w.multi = work.multi
          /\ w.imploding = work.imploding /\ w.pos = n + 1 /\ w.itNo = r
      BY <1>1, <2>2, <2>3 DEF WorkRec
    <2> QED
      BY <1>1, <1>4, <2>4
  <1>5. CASE ~(n < Len(l) \/ r = NRounds)
    <2>1. w = [work EXCEPT !.pos = 1, !.itNo = @ + 1]
      BY <1>1, <1>5 DEF NextTarget
    <2>2. r + 1 \in Nat
      BY <1>2
    <2>3. PICK w1 : w1 = [work EXCEPT !.pos = 1]
      OBVIOUS
    <2>4. /\ w1 \in WorkRec /\ w1.list = work.list /\ w1.multi = work.multi
          /\ w1.imploding = work.imploding /\ w1.pos = 1 /\ w1.itNo = r
      BY <1>1, <2>3 DEF WorkRec
    <2>5. w = [w1 EXCEPT !.itNo = r + 1]
      BY <1>1, <2>1, <2>3 DEF WorkRec
    <2>6. /\ w \in WorkRec /\ w.list = work.list /\ w.multi = work.multi
          /\ w.imploding = work.imploding /\ w.pos = 1 /\ w.itNo = r + 1
      BY <2>2, <2>4, <2>5 DEF WorkRec
    <2>7. n = Len(l)
      BY <1>2, <1>3, <1>5
    <2>9. r < NRounds
      BY <1>1, <1>2, <1>5
    <2> QED
      BY <1>1, <2>6, <2>7, <2>9
  <1> QED
    BY <1>4, <1>5

\* What an allocated volume does to the allocator, in rounds or at once.
AfterRound(e, d, t, x, y) ==
  [e EXCEPT !.incVol = WithEntry(e.incVol, d, t, x),
            !.prevDesVol = WithEntry(e.prevDesVol, d, t, y)]

AfterTarget(e, d, t, x) == [e EXCEPT !.incVol = WithEntry(e.incVol, d, t, x)]

\* What the allocator remembers after a target has been allocated in a round.
LEMMA RoundEq ==
  ASSUME NEW e \in EqRec, NEW d \in Demands, NEW t \in Periods, NEW x \in Nat, NEW y \in Nat
  PROVE  /\ AfterRound(e, d, t, x, y) \in EqRec
         /\ AfterRound(e, d, t, x, y).desIncVol = e.desIncVol
         /\ AfterRound(e, d, t, x, y).prevDesVol = WithEntry(e.prevDesVol, d, t, y)
         /\ AfterRound(e, d, t, x, y).incVol = WithEntry(e.incVol, d, t, x)
  <1>1. PICK f, g : f = e.incVol /\ g = e.prevDesVol
    OBVIOUS
  <1>2. f \in Schedules /\ g \in Schedules
    BY <1>1 DEF EqRec
  <1>3. PICK inc, prev : inc = WithEntry(f, d, t, x) /\ prev = WithEntry(g, d, t, y)
    OBVIOUS
  <1>4. inc \in Schedules /\ prev \in Schedules
    BY <1>2, <1>3, EntryFacts
  <1>5. PICK r : r = AfterRound(e, d, t, x, y)
    OBVIOUS
  <1>6. r = [e EXCEPT !.incVol = inc, !.prevDesVol = prev]
    BY <1>1, <1>3, <1>5 DEF AfterRound
  <1>7. r \in EqRec /\ r.desIncVol = e.desIncVol /\ r.prevDesVol = prev /\ r.incVol = inc
    BY <1>4, <1>6 DEF EqRec
  <1> QED
    BY <1>1, <1>3, <1>5, <1>7

\* What the allocator remembers after its only target has been allocated.
LEMMA TargetEq ==
  ASSUME NEW e \in EqRec, NEW d \in Demands, NEW t \in Periods, NEW x \in Nat
  PROVE  /\ AfterTarget(e, d, t, x) \in EqRec
         /\ AfterTarget(e, d, t, x).desIncVol = e.desIncVol
         /\ AfterTarget(e, d, t, x).incVol = WithEntry(e.incVol, d, t, x)
  <1>1. PICK f : f = e.incVol
    OBVIOUS
  <1>2. f \in Schedules
    BY <1>1 DEF EqRec
  <1>3. PICK inc : inc = WithEntry(f, d, t, x)
    OBVIOUS
  <1>4. inc \in Schedules
    BY <1>2, <1>3, EntryFacts
  <1>5. PICK r : r = AfterTarget(e, d, t, x)
    OBVIOUS
  <1>6. r = [e EXCEPT !.incVol = inc]
    BY <1>1, <1>3, <1>5 DEF AfterTarget
  <1>7. r \in EqRec /\ r.desIncVol = e.desIncVol /\ r.incVol = inc
    BY <1>4, <1>6 DEF EqRec
  <1> QED
    BY <1>1, <1>3, <1>5, <1>7

\* The number of rounds is a natural number.
LEMMA NRoundsType ==
  ASSUME AllInv
  PROVE  NRounds \in Nat
  <1>1. data.equitability \in Nat
    BY SMTT(30), DataFacts DEF AllInv, Types
  <1> QED
    BY <1>1 DEF NRounds

\* What the step does, with what it reads named.
LEMMA TargetFacts ==
  ASSUME AllInv, AllocTarget, NEW l, l = work.list, NEW n, n = work.pos,
         NEW d, d = l[n].demand, NEW t, t = l[n].per, NEW asked, asked = Asked,
         NEW vol, vol = IncVol(shipVol, d, t, asked)
  PROVE  /\ data' = data /\ active' = active /\ unmet' = unmet /\ sorted' = sorted
         /\ place' = place /\ selected' = selected /\ pc = "eq" /\ pc' = "eq"
         /\ n \in DOMAIN l /\ n \in Nat /\ d \in Demands /\ t \in Periods
         /\ asked \in Nat /\ vol \in Nat /\ vol <= asked
         /\ shipVol' = Shipped(shipVol, d, t, vol)
         /\ shipVol' \in Schedules /\ Feasible(shipVol')
         /\ work' = NextTarget
         /\ eq' \in EqRec /\ eq'.desIncVol = eq.desIncVol
         /\ \A f \in Demands, u \in Periods :
              eq'.incVol[f][u] = IF f = d /\ u = t
                                 THEN IF work.multi THEN eq.incVol[d][t] + vol ELSE vol
                                 ELSE eq.incVol[f][u]
         /\ work.multi =>
              eq'.prevDesVol = WithEntry(eq.prevDesVol, d, t, Goal(n, work.itNo))
         /\ blocked \subseteq blocked' /\ blocked' \subseteq blocked \cup {t}
         /\ Obtainable(shipVol', t) = Obtainable(shipVol, t) - vol
         /\ \A u \in Periods : /\ Obtainable(shipVol', u) \in Nat
                               /\ Obtainable(shipVol, u) \in Nat
                               /\ Obtainable(shipVol', u) <= Obtainable(shipVol, u)
         /\ data.skipFailures /\ t \in blocked => vol = 0
         /\ asked <= IncVolUB(shipVol, d, t) =>
              vol = asked \/ Short(shipVol', blocked', d, t, asked - vol)
         /\ \A u \in blocked' : u \notin blocked => Obtainable(shipVol', u) < SearchInc[d]
         /\ \A u \in Periods, e \in Demands, m \in Nat, k \in Nat :
              Short(shipVol, blocked, e, u, m) /\ m <= k => Short(shipVol', blocked', e, u, k)
  <1>1. /\ data' = data /\ active' = active /\ unmet' = unmet /\ sorted' = sorted
        /\ place' = place /\ selected' = selected /\ pc = "eq" /\ pc' = "eq"
        /\ n \in DOMAIN l /\ work' = NextTarget
    BY DEF AllocTarget, imploder
  <1>2. /\ n \in Nat /\ d \in Demands /\ t \in Periods
        /\ Des(n) \in Nat /\ Inc(n) \in Nat
        /\ work.multi => Goal(n, work.itNo) \in Nat
        /\ asked \in Nat
    BY <1>1, AskedFacts
  <1>3. Goal(n, work.itNo) = NewDesVol(d, eq.desIncVol[d][t], work.itNo)
    BY SMTT(30) DEF Goal, Des
  <1>4. asked = IF work.multi THEN Offer(Goal(n, work.itNo), eq, d, t)
                              ELSE eq.desIncVol[d][t]
    BY DEF Asked, Offer, Prev, Des
  <1>5. /\ shipVol' = Shipped(shipVol, d, t, vol)
        /\ blocked' = BlockedAfter(shipVol, d, t, asked)
        /\ eq' = IF work.multi
                 THEN [eq EXCEPT !.incVol[d][t] = @ + vol,
                                 !.prevDesVol[d][t] = Goal(n, work.itNo)]
                 ELSE [eq EXCEPT !.incVol[d][t] = vol]
    BY <1>3, <1>4 DEF AllocTarget
  <1>6. PICK new, bl : /\ new = Shipped(shipVol, d, t, vol)
                       /\ bl = BlockedAfter(shipVol, d, t, asked)
    OBVIOUS
  <1>7. /\ vol \in Nat /\ vol <= asked /\ new \in Schedules /\ Feasible(new)
        /\ blocked \subseteq bl /\ bl \subseteq blocked \cup {t}
        /\ Obtainable(new, t) = Obtainable(shipVol, t) - vol
        /\ \A u \in Periods : /\ Obtainable(new, u) \in Nat
                              /\ Obtainable(shipVol, u) \in Nat
                              /\ Obtainable(new, u) <= Obtainable(shipVol, u)
        /\ data.skipFailures /\ t \in blocked => vol = 0
        /\ asked <= IncVolUB(shipVol, d, t) =>
             vol = asked \/ Short(new, bl, d, t, asked - vol)
        /\ \A u \in bl : u \notin blocked => Obtainable(new, u) < SearchInc[d]
        /\ \A u \in Periods, e \in Demands, m \in Nat, k \in Nat :
             Short(shipVol, blocked, e, u, m) /\ m <= k => Short(new, bl, e, u, k)
    <2>1. DataType /\ shipVol \in Schedules /\ Feasible(shipVol)
      BY DEF AllInv, Types
    <2>2. d \in Demands
      BY <1>2
    <2>3. t \in Periods
      BY <1>2
    <2>4. asked \in Nat
      BY <1>2
    <2>5. shipVol \in Schedules
      BY <2>1
    <2>6. AllocResult(shipVol, d, t, asked, vol, new, bl)
      BY SMTT(30), <1>6, <2>1, <2>2, <2>3, <2>4, <2>5, AllocFacts
    <2> QED
      BY <2>6 DEF AllocResult
  <1>8. shipVol' = new /\ blocked' = bl
    BY <1>5, <1>6
  <1>9. /\ eq' \in EqRec /\ eq'.desIncVol = eq.desIncVol
        /\ \A f \in Demands, u \in Periods :
              eq'.incVol[f][u] = IF f = d /\ u = t
                                 THEN IF work.multi THEN eq.incVol[d][t] + vol ELSE vol
                                 ELSE eq.incVol[f][u]
        /\ work.multi =>
              eq'.prevDesVol = WithEntry(eq.prevDesVol, d, t, Goal(n, work.itNo))
    <2>1. PICK x, old : /\ x = IF work.multi THEN eq.incVol[d][t] + vol ELSE vol
                        /\ old = eq.incVol
      OBVIOUS
    <2>2. eq \in EqRec
      BY DEF AllInv, Types
    <2>3. old \in Schedules
      BY SMTT(30), <2>1, TypeFacts DEF AllInv
    <2>4. d \in Demands
      BY <1>2
    <2>5. t \in Periods
      BY <1>2
    <2>6. x \in Nat
      <3>1. eq.incVol[d][t] \in Nat
        BY <1>2 DEF Inc
      <3>2. vol \in Nat
        BY <1>7
      <3> QED
        BY SMTT(30), <2>1, <3>1, <3>2
    <2>7. /\ eq' \in EqRec /\ eq'.desIncVol = eq.desIncVol
          /\ eq'.incVol = WithEntry(old, d, t, x)
          /\ work.multi =>
               eq'.prevDesVol = WithEntry(eq.prevDesVol, d, t, Goal(n, work.itNo))
      <3>1. CASE work.multi
        <4>1. PICK y : y = Goal(n, work.itNo)
          OBVIOUS
        <4>2. y \in Nat
          BY <1>2, <3>1, <4>1
        <4>3. PICK inc, prev : /\ inc = WithEntry(eq.incVol, d, t, x)
                               /\ prev = WithEntry(eq.prevDesVol, d, t, y)
          OBVIOUS
        <4>4. PICK r : r = eq'
          BY SMTT(30)
        <4>5. r = [eq EXCEPT !.incVol = inc, !.prevDesVol = prev]
          BY <1>5, <2>1, <2>2, <3>1, <4>1, <4>3, <4>4 DEF WithEntry, EqRec
        <4>6. eq' = AfterRound(eq, d, t, x, y)
          BY <4>3, <4>4, <4>5 DEF AfterRound
        <4>7. /\ AfterRound(eq, d, t, x, y) \in EqRec
              /\ AfterRound(eq, d, t, x, y).desIncVol = eq.desIncVol
              /\ AfterRound(eq, d, t, x, y).prevDesVol = WithEntry(eq.prevDesVol, d, t, y)
              /\ AfterRound(eq, d, t, x, y).incVol = WithEntry(eq.incVol, d, t, x)
          BY SMTT(30), <2>2, <2>4, <2>5, <2>6, <4>2, RoundEq
        <4> QED
          BY <2>1, <4>1, <4>6, <4>7
      <3>2. CASE ~work.multi
        <4>1. eq' = AfterTarget(eq, d, t, x)
          BY <1>5, <2>1, <2>2, <3>2 DEF WithEntry, AfterTarget, EqRec
        <4> QED
          BY SMTT(30), <2>1, <2>2, <2>4, <2>5, <2>6, <3>2, <4>1, TargetEq
      <3> QED
        BY SMTT(30), <3>1, <3>2
    <2>8. PICK new2 : new2 = eq'.incVol
      OBVIOUS
    <2>9. ASSUME NEW f \in Demands, NEW u \in Periods
          PROVE  new2[f][u] = IF f = d /\ u = t THEN x ELSE old[f][u]
      BY SMTT(30), <2>3, <2>4, <2>5, <2>6, <2>7, <2>8, EntryFacts
    <2>10. ASSUME NEW f \in Demands, NEW u \in Periods
           PROVE  eq'.incVol[f][u] = IF f = d /\ u = t
                                     THEN IF work.multi THEN eq.incVol[d][t] + vol ELSE vol
                                     ELSE eq.incVol[f][u]
      BY <2>1, <2>8, <2>9
    <2> QED
      BY <2>7, <2>10
  <1>10. /\ blocked \subseteq blocked' /\ blocked' \subseteq blocked \cup {t}
         /\ Obtainable(shipVol', t) = Obtainable(shipVol, t) - vol
         /\ \A u \in Periods : /\ Obtainable(shipVol', u) \in Nat
                               /\ Obtainable(shipVol, u) \in Nat
                               /\ Obtainable(shipVol', u) <= Obtainable(shipVol, u)
         /\ data.skipFailures /\ t \in blocked => vol = 0
         /\ asked <= IncVolUB(shipVol, d, t) =>
              vol = asked \/ Short(shipVol', blocked', d, t, asked - vol)
         /\ \A u \in blocked' : u \notin blocked => Obtainable(shipVol', u) < SearchInc[d]
         /\ \A u \in Periods, e \in Demands, m \in Nat, k \in Nat :
              Short(shipVol, blocked, e, u, m) /\ m <= k => Short(shipVol', blocked', e, u, k)
    BY <1>7, <1>8
  <1>11. shipVol' \in Schedules /\ Feasible(shipVol')
    BY <1>7, <1>8
  <1>12. vol \in Nat /\ vol <= asked
    BY SMTT(30), <1>7
  <1> QED
    BY <1>1, <1>2, <1>5, <1>9, <1>10, <1>11, <1>12

\* What that means for every target of the list.
LEMMA TargetEntries ==
  ASSUME AllInv, AllocTarget, NEW l, l = work.list, NEW n, n = work.pos,
         NEW d, d = l[n].demand, NEW t, t = l[n].per, NEW asked, asked = Asked,
         NEW vol, vol = IncVol(shipVol, d, t, asked)
  PROVE  /\ work' \in WorkRec /\ work'.list = l /\ work'.multi = work.multi
         /\ work'.imploding = work.imploding
         /\ \/ /\ work'.pos = n + 1 /\ work'.itNo = work.itNo
               /\ n < Len(l) \/ work.itNo = NRounds
            \/ /\ work'.pos = 1 /\ work'.itNo = work.itNo + 1 /\ n = Len(l)
               /\ work.itNo < NRounds
         /\ NRounds' = NRounds
         /\ \A i \in DOMAIN l :
              /\ i \in Nat /\ l[i].demand \in Demands /\ l[i].per \in Periods
              /\ Des(i)' = Des(i) /\ Des(i) \in Nat /\ Inc(i) \in Nat
              /\ \A r : Goal(i, r)' = Goal(i, r)
              /\ i # n => Inc(i)' = Inc(i)
              /\ i # n /\ work.multi => Prev(i)' = Prev(i)
         /\ work.multi => Inc(n)' = Inc(n) + vol /\ Prev(n)' = Goal(n, work.itNo)
         /\ ~work.multi => Inc(n)' = vol
  <1>1. /\ data' = data /\ pc = "eq" /\ n \in DOMAIN l /\ n \in Nat
        /\ d \in Demands /\ t \in Periods
        /\ work' = NextTarget /\ eq'.desIncVol = eq.desIncVol
        /\ \A f \in Demands, u \in Periods :
              eq'.incVol[f][u] = IF f = d /\ u = t
                                 THEN IF work.multi THEN eq.incVol[d][t] + vol ELSE vol
                                 ELSE eq.incVol[f][u]
        /\ work.multi =>
              eq'.prevDesVol = WithEntry(eq.prevDesVol, d, t, Goal(n, work.itNo))
    BY SMTT(30), TargetFacts
  <1>2. /\ work' \in WorkRec /\ work'.list = l /\ work'.multi = work.multi
        /\ work'.imploding = work.imploding
        /\ \/ /\ work'.pos = n + 1 /\ work'.itNo = work.itNo
              /\ n < Len(l) \/ work.itNo = NRounds
           \/ /\ work'.pos = 1 /\ work'.itNo = work.itNo + 1 /\ n = Len(l)
              /\ work.itNo < NRounds
    <2>1. work \in WorkRec
      BY SMTT(30) DEF AllInv, Types
    <2>2. work.pos \in DOMAIN work.list
      BY SMTT(30), <1>1
    <2>3. work.itNo <= NRounds
      BY <1>1 DEF AllInv, Progress, Rounds
    <2>4. NRounds \in Int
      BY NRoundsType
    <2>5. PICK w : w = NextTarget
      OBVIOUS
    <2>6. /\ w \in WorkRec /\ w.list = work.list /\ w.multi = work.multi
          /\ w.imploding = work.imploding
          /\ \/ /\ w.pos = work.pos + 1 /\ w.itNo = work.itNo
                /\ work.pos < Len(work.list) \/ work.itNo = NRounds
             \/ /\ w.pos = 1 /\ w.itNo = work.itNo + 1 /\ work.pos = Len(work.list)
                /\ work.itNo < NRounds
      BY SMTT(30), <2>1, <2>2, <2>3, <2>4, <2>5, NextTargetFacts
    <2> QED
      BY <1>1, <2>5, <2>6
  <1>3. NRounds' = NRounds
    BY <1>1, <1>2 DEF NRounds
  <1>4. \A i \in DOMAIN l : i \in Nat /\ l[i].demand \in Demands /\ l[i].per \in Periods
    BY ListEntry, TypeFacts DEF AllInv
  <1>5. ASSUME NEW i \in DOMAIN l
        PROVE  /\ Des(i)' = Des(i) /\ Des(i) \in Nat /\ Inc(i) \in Nat
               /\ \A r : Goal(i, r)' = Goal(i, r)
    <2>1. eq.desIncVol \in Schedules /\ eq.incVol \in Schedules
      BY TypeFacts DEF AllInv
    <2>2. Des(i) \in Nat /\ Inc(i) \in Nat
      BY SMTT(30), <1>4, <2>1, ScheduleEntry DEF Des, Inc
    <2>3. Des(i)' = Des(i)
      BY <1>1, <1>2 DEF Des
    <2>4. ASSUME NEW r PROVE Goal(i, r)' = Goal(i, r)
      <3>1. PICK e, v : e = l[i].demand /\ v = Des(i)
        OBVIOUS
      <3>2. Goal(i, r) = NewDesVol(e, v, r)
        BY <3>1 DEF Goal
      <3>3. Goal(i, r)' = NewDesVol(e, v, r)'
        BY <1>2, <2>3, <3>1 DEF Goal, NewDesVol
      <3> QED
        BY <1>1, <3>2, <3>3, DataKept
    <2> QED
      BY <2>2, <2>3, <2>4
  <1>6. ASSUME NEW i \in DOMAIN l, i # n
        PROVE  Inc(i)' = Inc(i) /\ (work.multi => Prev(i)' = Prev(i))
    <2>1. PICK e, u : e = l[i].demand /\ u = l[i].per
      OBVIOUS
    <2>2. e \in Demands /\ u \in Periods
      BY SMTT(30), <1>4, <2>1
    <2>3. ~(e = d /\ u = t)
      <3>1. Distinct(l)
        BY SMTT(30), <1>1 DEF AllInv, Progress, Rounds
      <3> QED
        BY SMTT(30), <1>1, <1>6, <2>1, <3>1 DEF Distinct
    <2>4. Inc(i)' = Inc(i)
      BY <1>1, <1>2, <2>1, <2>2, <2>3 DEF Inc
    <2>5. ASSUME work.multi PROVE Prev(i)' = Prev(i)
      <3>1. PICK f, g, v : f = eq.prevDesVol /\ g = eq'.prevDesVol /\ v = Goal(n, work.itNo)
        OBVIOUS
      <3>2. f \in Schedules
        BY SMTT(30), <3>1, TypeFacts DEF AllInv
      <3>3. v \in Nat
        BY SMTT(30), <1>1, <2>5, <3>1, AskedFacts
      <3>4. g = WithEntry(f, d, t, v)
        BY <1>1, <2>5, <3>1
      <3>5. d \in Demands /\ t \in Periods
        BY <1>1
      <3>6. g[e][u] = f[e][u]
        BY SMTT(30), <2>2, <2>3, <3>2, <3>3, <3>4, <3>5, EntryFacts
      <3> QED
        BY <1>2, <2>1, <3>1, <3>6 DEF Prev
    <2> QED
      BY <2>4, <2>5
  <1>7. /\ work.multi => Inc(n)' = Inc(n) + vol
        /\ ~work.multi => Inc(n)' = vol
    <2>1. eq'.incVol[d][t] = IF work.multi THEN eq.incVol[d][t] + vol ELSE vol
      BY <1>1
    <2>2. Inc(n)' = eq'.incVol[d][t] /\ Inc(n) = eq.incVol[d][t]
      BY <1>2 DEF Inc
    <2> QED
      BY <2>1, <2>2
  <1>8. ASSUME work.multi PROVE Prev(n)' = Goal(n, work.itNo)
    <2>1. PICK f, g, v : f = eq.prevDesVol /\ g = eq'.prevDesVol /\ v = Goal(n, work.itNo)
      OBVIOUS
    <2>2. f \in Schedules
      BY <2>1, TypeFacts DEF AllInv
    <2>3. v \in Nat
      BY <1>1, <1>8, <2>1, AskedFacts
    <2>4. g = WithEntry(f, d, t, v)
      BY <1>1, <1>8, <2>1
    <2>5. d \in Demands /\ t \in Periods
      BY <1>1
    <2>6. g[d][t] = v
      BY <2>2, <2>3, <2>4, <2>5, EntryFacts
    <2> QED
      BY <1>2, <2>1, <2>6 DEF Prev
  <1> QED
    BY <1>1, <1>2, <1>3, <1>4, <1>5, <1>6, <1>7, <1>8

\* The rounds go on.
LEMMA TargetRounds ==
  ASSUME AllInv, AllocTarget
  PROVE  Rounds'
  <1>1. PICK l, n : l = work.list /\ n = work.pos
    OBVIOUS
  <1>2. PICK d, t, asked : d = l[n].demand /\ t = l[n].per /\ asked = Asked
    OBVIOUS
  <1>3. PICK vol : vol = IncVol(shipVol, d, t, asked)
    OBVIOUS
  <1>4. /\ pc = "eq" /\ n \in DOMAIN l /\ n \in Nat /\ asked \in Nat /\ vol \in Nat
        /\ vol <= asked
    BY <1>1, <1>2, <1>3, TargetFacts
  <1>5. /\ work' \in WorkRec /\ work'.list = l /\ work'.multi = work.multi
        /\ \/ /\ work'.pos = n + 1 /\ work'.itNo = work.itNo
              /\ n < Len(l) \/ work.itNo = NRounds
           \/ /\ work'.pos = 1 /\ work'.itNo = work.itNo + 1 /\ n = Len(l)
              /\ work.itNo < NRounds
        /\ NRounds' = NRounds
    BY <1>1, <1>2, <1>3, TargetEntries
  <1>6. \A i \in DOMAIN l :
          /\ i \in Nat
          /\ Des(i)' = Des(i) /\ Des(i) \in Nat /\ Inc(i) \in Nat
          /\ \A r : Goal(i, r)' = Goal(i, r)
          /\ i # n => Inc(i)' = Inc(i)
          /\ i # n /\ work.multi => Prev(i)' = Prev(i)
    BY <1>1, <1>2, <1>3, TargetEntries
  <1>7. /\ work.multi => Inc(n)' = Inc(n) + vol /\ Prev(n)' = Goal(n, work.itNo)
        /\ ~work.multi => Inc(n)' = vol
    BY <1>1, <1>2, <1>3, TargetEntries
  <1>8. /\ l # <<>> /\ Distinct(l)
        /\ 1 <= work.itNo /\ work.itNo <= NRounds /\ work.itNo \in Nat /\ NRounds \in Nat
        /\ \A i \in DOMAIN l :
             /\ work.multi =>
                  /\ Prev(i) = Goal(i, IF i < n THEN work.itNo ELSE work.itNo - 1)
                  /\ Inc(i) <= Prev(i)
             /\ ~work.multi /\ i < n => Inc(i) <= Des(i)
    BY <1>1, <1>4, TypeFacts, NRoundsType DEF AllInv, Progress, Rounds
  <1>9. DOMAIN l = 1..Len(l) /\ Len(l) \in Nat
    BY <1>1, TypeFacts, ListEntry DEF AllInv
  <1>10. 1 <= n /\ n <= Len(l)
    BY <1>4, <1>9
  <1>11. /\ 1 <= work'.itNo /\ work'.itNo <= NRounds'
         /\ 1 <= work'.pos /\ work'.pos <= Len(l) + 1
         /\ work'.pos = Len(l) + 1 => work'.itNo = NRounds'
    BY <1>4, <1>5, <1>8, <1>9, <1>10
  <1>12. ASSUME NEW i \in DOMAIN l, work.multi
         PROVE  /\ Prev(i)' = Goal(i, IF i < work.pos THEN work.itNo ELSE work.itNo - 1)'
                /\ Inc(i)' <= Prev(i)'
    <2>1. PICK j : j = IF i < work'.pos THEN work'.itNo ELSE work'.itNo - 1
      OBVIOUS
    <2>2. Goal(i, IF i < work.pos THEN work.itNo ELSE work.itNo - 1)' = Goal(i, j)'
      BY <2>1 DEF Goal
    <2>3. Goal(i, j)' = Goal(i, j)
      BY <1>6
    <2>4. CASE i = n
      <3>1. j = work.itNo
        BY <1>4, <1>5, <1>8, <2>1, <2>4
      <3>2. Prev(i)' = Goal(i, j) /\ Inc(i)' = Inc(n) + vol
        BY <1>7, <1>12, <2>4, <3>1
      <3>3. /\ Inc(n) \in Nat /\ Prev(n) \in Nat /\ Goal(n, work.itNo) \in Nat
            /\ Inc(n) <= Prev(n)
        BY <1>1, <1>4, <1>12, AskedFacts
      <3>4. asked = Goal(n, work.itNo) - Prev(n)
        BY <1>1, <1>2, <1>12 DEF Asked
      <3>5. Inc(n) + vol <= Goal(n, work.itNo)
        BY <1>4, <3>3, <3>4
      <3> QED
        BY <2>2, <2>3, <2>4, <3>1, <3>2, <3>5
    <2>5. CASE i # n
      <3>1. i <= Len(l) /\ i \in Nat
        BY <1>9
      <3>2. j = IF i < n THEN work.itNo ELSE work.itNo - 1
        BY <1>4, <1>5, <1>8, <2>1, <2>5, <3>1
      <3>3. Prev(i) = Goal(i, j) /\ Inc(i) <= Prev(i)
        BY <1>8, <1>12, <3>2
      <3>4. Prev(i)' = Prev(i) /\ Inc(i)' = Inc(i)
        BY <1>6, <1>12, <2>5
      <3> QED
        BY <2>2, <2>3, <3>3, <3>4
    <2> QED
      BY <2>4, <2>5
  <1>13. ASSUME NEW i \in DOMAIN l, ~work.multi, i < work'.pos
         PROVE  Inc(i)' <= Des(i)'
    <2>1. NRounds = 1
      BY <1>13 DEF NRounds
    <2>2. work'.pos = n + 1
      BY <1>5, <1>8, <2>1
    <2>3. i \in Nat /\ (i = n \/ i < n)
      BY <1>4, <1>6, <1>13, <2>2
    <2>4. CASE i = n
      <3>1. asked = Des(n)
        BY <1>1, <1>2, <1>13 DEF Asked
      <3>2. Inc(n)' = vol
        BY <1>7, <1>13
      <3>3. Des(i)' = asked
        BY <1>6, <2>4, <3>1
      <3> QED
        BY <1>4, <2>4, <3>2, <3>3
    <2>5. CASE i # n
      <3>1. Inc(i) <= Des(i)
        BY <1>8, <1>13, <2>3, <2>5
      <3> QED
        BY <1>6, <2>5, <3>1
    <2> QED
      BY <2>4, <2>5
  <1>14. ASSUME NEW i \in DOMAIN l
         PROVE  /\ work'.multi =>
                    /\ Prev(i)' = Goal(i, IF i < work.pos THEN work.itNo ELSE work.itNo - 1)'
                    /\ Inc(i)' <= Prev(i)'
                /\ ~work'.multi /\ i < work'.pos => Inc(i)' <= Des(i)'
    BY <1>5, <1>12, <1>13
  <1> QED
    BY <1>5, <1>8, <1>11, <1>14 DEF Rounds

\* A target of a group: all it is asked for is open.
LEMMA GroupTarget ==
  ASSUME AllInv, AllocTarget, work.imploding, NEW l, l = work.list, NEW n, n = work.pos,
         NEW d, d = l[n].demand, NEW t, t = l[n].per, NEW asked, asked = Asked,
         NEW p, p = place.demPer, NEW f, f = Open(d)
  PROVE  /\ t = place.shipPer /\ Des(n) = unmet[d][p]
         /\ p \in Periods /\ t \in Periods /\ p <= t /\ (d \notin ShipLate => p = t)
         /\ Got(d) = IF work.multi THEN Inc(n) ELSE 0
         /\ \A u \in Periods : f[u] \in Nat
         /\ asked <= IncVolUB(shipVol, d, t)
  <1>1. /\ pc = "eq" /\ n \in DOMAIN l /\ n \in Nat /\ d \in Demands /\ t \in Periods
        /\ Des(n) \in Nat /\ Inc(n) \in Nat /\ Prev(n) \in Nat /\ asked \in Nat
        /\ work.multi => Goal(n, work.itNo) \in Nat
        /\ work.multi => Prev(n) <= Goal(n, work.itNo) /\ Inc(n) <= Prev(n)
        /\ work.multi => Goal(n, work.itNo) <= Des(n)
    <2>1. pc = "eq" /\ n \in DOMAIN l
      BY DEF AllocTarget
    <2> QED
      BY SMTT(30), <2>1, AskedFacts
  <1>2. ASSUME NEW i \in DOMAIN l PROVE InGroup(l, i)
    BY SMTT(30), <1>1 DEF AllInv, Progress, Group
  <1>3. /\ t = place.shipPer /\ Des(n) = unmet[d][p] /\ ~PassedOver(d)
        /\ \A k \in DOMAIN l : l[k].demand = d => k = n
    <2>1. InGroup(l, n)
      BY <1>1, <1>2
    <2> QED
      BY <2>1 DEF InGroup, Des
  <1>4. p \in Periods /\ p <= t /\ (d \notin ShipLate => p = t)
    BY <1>1, <1>3, OpenDemand DEF Implosion
  <1>5. Got(d) = IF work.multi THEN Inc(n) ELSE 0
    <2>1. CASE work.multi
      <3>1. Got(d) = eq.incVol[d][place.shipPer]
        BY <1>1, <2>1 DEF Got
      <3> QED
        BY <1>3, <2>1, <3>1 DEF Inc
    <2>2. CASE ~work.multi
      <3>1. ~ \E i \in DOMAIN l : l[i].demand = d /\ i < n
        BY <1>1, <1>3
      <3> QED
        BY <2>2, <3>1 DEF Got
    <2> QED
      BY <2>1, <2>2
  <1>6. unmet[d] \in [Periods -> Nat] /\ \A u \in Periods : unmet[d][u] \in Nat
    BY <1>1, ScheduleEntry DEF AllInv, Types
  <1>7. f[p] = Des(n) - Got(d) /\ f[p] \in Nat /\ asked <= f[p]
    <2>1. f[p] = Des(n) - Got(d)
      BY <1>3, <1>4 DEF Open
    <2>2. CASE work.multi
      <3>1. asked = Goal(n, work.itNo) - Prev(n) /\ Got(d) = Inc(n)
        BY <1>5, <2>2 DEF Asked
      <3>2. PICK a, b, c, e : a = Goal(n, work.itNo) /\ b = Prev(n) /\ c = Inc(n) /\ e = Des(n)
        OBVIOUS
      <3>3. /\ a \in Nat /\ b \in Nat /\ c \in Nat /\ e \in Nat /\ b <= a /\ c <= b /\ a <= e
        BY <1>1, <2>2, <3>2
      <3> QED
        BY <2>1, <3>1, <3>2, <3>3
    <2>3. CASE ~work.multi
      <3>1. asked = Des(n) /\ Got(d) = 0
        BY <1>5, <2>3 DEF Asked
      <3> QED
        BY <1>1, <2>1, <3>1
    <2> QED
      BY SMTT(30), <2>2, <2>3, <2>1
  <1>8. ASSUME NEW u \in Periods PROVE f[u] \in Nat
    <2>1. u # p => f[u] = unmet[d][u]
      BY DEF Open
    <2> QED
      BY <1>6, <1>7, <2>1
  <1>9. f[p] <= IncVolUB(shipVol, d, t)
    <2>1. DataType /\ shipVol \in Schedules
      BY DEF AllInv, Types
    <2>2. Book(f, shipVol, d)
      BY <1>1 DEF AllInv, Progress, Books, Implosion
    <2>3. d \in Demands /\ t \in Periods
      BY <1>1
    <2> QED
      BY <1>4, <1>8, <2>1, <2>2, <2>3, UnmetNotCut
  <1>10. asked <= IncVolUB(shipVol, d, t)
    <2>1. IncVolUB(shipVol, d, t) \in Int
      <3>1. DataType /\ shipVol \in Schedules
        BY DEF AllInv, Types
      <3> QED
        BY <1>1, <3>1, IncVolUBFacts
    <2> QED
      BY <1>1, <1>7, <1>9, <2>1
  <1> QED
    BY <1>1, <1>3, <1>4, <1>5, <1>8, <1>10

\* The volume of a target is in the shipments at once and in what is unmet later.
LEMMA TargetBooks ==
  ASSUME AllInv, AllocTarget
  PROVE  Books'
  <1>1. PICK l, n : l = work.list /\ n = work.pos
    OBVIOUS
  <1>2. PICK d, t, asked : d = l[n].demand /\ t = l[n].per /\ asked = Asked
    OBVIOUS
  <1>3. PICK vol, p, s : /\ vol = IncVol(shipVol, d, t, asked)
                         /\ p = place.demPer /\ s = place.shipPer
    OBVIOUS
  <1>4. /\ data' = data /\ unmet' = unmet /\ place' = place /\ pc = "eq" /\ pc' = "eq"
        /\ n \in DOMAIN l /\ n \in Nat /\ d \in Demands /\ t \in Periods /\ vol \in Nat
        /\ shipVol' = Shipped(shipVol, d, t, vol)
        /\ \A e \in Demands, u \in Periods :
              eq'.incVol[e][u] = IF e = d /\ u = t
                                 THEN IF work.multi THEN eq.incVol[d][t] + vol ELSE vol
                                 ELSE eq.incVol[e][u]
    BY <1>1, <1>2, <1>3, TargetFacts
  <1>5. /\ work'.list = l /\ work'.multi = work.multi /\ work'.imploding = work.imploding
        /\ \/ /\ work'.pos = n + 1 /\ work'.itNo = work.itNo
              /\ n < Len(l) \/ work.itNo = NRounds
           \/ /\ work'.pos = 1 /\ work'.itNo = work.itNo + 1 /\ n = Len(l)
              /\ work.itNo < NRounds
        /\ \A i \in DOMAIN l : i \in Nat
        /\ work.multi => Inc(n)' = Inc(n) + vol
        /\ ~work.multi => Inc(n)' = vol
    BY <1>1, <1>2, <1>3, TargetEntries
  <1>6. SUFFICES ASSUME work.imploding PROVE Books'
    BY <1>4, <1>5 DEF Books, Implosion
  <1>7. t = s /\ p \in Periods /\ s \in Periods /\ p <= s /\ (d \notin ShipLate => p = s)
    BY <1>1, <1>2, <1>3, <1>6, GroupTarget
  <1>8. Got(d) = IF work.multi THEN Inc(n) ELSE 0
    BY <1>1, <1>2, <1>3, <1>6, GroupTarget
  <1>9. /\ unmet \in Schedules /\ shipVol \in Schedules /\ DataType /\ eq.incVol \in Schedules
    BY TypeFacts DEF AllInv, Types
  <1>10. ~work.multi => work'.pos = n + 1
    <2>1. 1 <= work.itNo /\ work.itNo \in Nat
      BY <1>4, TypeFacts DEF AllInv, Progress, Rounds
    <2>2. ~work.multi => NRounds = 1
      BY DEF NRounds
    <2> QED
      BY <1>5, <2>1, <2>2
  <1>11. Got(d)' = Got(d) + vol
    <2>1. \E i \in DOMAIN l : l[i].demand = d /\ (work.multi \/ i < work'.pos)
      <3>1. n < n + 1
        BY <1>4
      <3> QED
        BY <1>2, <1>4, <1>10, <3>1
    <2>2. Got(d)' = eq'.incVol[d][s]
      BY <1>3, <1>4, <1>5, <2>1 DEF Got
    <2>3. Got(d)' = Inc(n)'
      BY <1>2, <1>5, <1>7, <2>2 DEF Inc
    <2>4. Inc(n) \in Nat
      BY <1>1, <1>4, AskedFacts
    <2> QED
      BY <1>4, <1>5, <1>8, <2>3, <2>4
  <1>12. ASSUME NEW e \in Demands, e # d PROVE Got(e)' = Got(e)
    <2>1. eq'.incVol[e][s] = eq.incVol[e][s]
      BY <1>4, <1>7, <1>12
    <2>2. (\E i \in DOMAIN l : l[i].demand = e /\ (work.multi \/ i < work'.pos))
            <=> (\E i \in DOMAIN l : l[i].demand = e /\ (work.multi \/ i < n))
      <3>1. ASSUME NEW i \in DOMAIN l, l[i].demand = e, ~work.multi
            PROVE  i < work'.pos <=> i < n
        <4>1. i # n /\ i \in Nat
          BY <1>2, <1>5, <1>12, <3>1
        <4> QED
          BY <1>4, <1>10, <3>1, <4>1
      <3> QED
        BY <3>1
    <2> QED
      BY <1>1, <1>3, <1>4, <1>5, <2>1, <2>2 DEF Got
  <1>13. ASSUME NEW e \in Demands PROVE Got(e) \in Nat /\ \A u \in Periods : unmet[e][u] \in Nat
    <2>1. eq.incVol[e][s] \in Nat
      BY <1>7, <1>9, ScheduleEntry
    <2>2. \A u \in Periods : unmet[e][u] \in Nat
      BY <1>9, ScheduleEntry
    <2> QED
      BY <1>3, <2>1, <2>2 DEF Got
  <1>14. ASSUME NEW e \in Demands PROVE Book(Open(e), shipVol, e)'
    <2>1. PICK f, g, new : f = Open(e) /\ g = Open(e)' /\ new = shipVol'
      OBVIOUS
    <2>2. Book(f, shipVol, e)
      BY <1>4, <1>6, <2>1 DEF AllInv, Progress, Books, Implosion
    <2>3. ASSUME NEW u \in Periods
          PROVE  /\ f[u] = IF u = p THEN unmet[e][u] - Got(e) ELSE unmet[e][u]
                 /\ g[u] = IF u = p THEN unmet[e][u] - Got(e)' ELSE unmet[e][u]
                 /\ f[u] \in Int
      <3>1. f[u] = IF u = p THEN unmet[e][u] - Got(e) ELSE unmet[e][u]
        BY <1>3, <2>1 DEF Open
      <3>2. g[u] = IF u = p THEN unmet[e][u] - Got(e)' ELSE unmet[e][u]
        BY <1>3, <1>4, <2>1 DEF Open
      <3>3. f[u] \in Int
        BY <1>13, <3>1
      <3> QED
        BY <3>1, <3>2, <3>3
    <2>4. Book(g, new, e)
      <3>1. CASE e = d
        <4>1. \A u \in Periods : g[u] = IF u = p THEN f[u] - vol ELSE f[u]
          <5>1. ASSUME NEW u \in Periods PROVE g[u] = IF u = p THEN f[u] - vol ELSE f[u]
            <6>1. PICK a, b, c : a = unmet[e][u] /\ b = Got(e) /\ c = Got(e)'
              OBVIOUS
            <6>2. a \in Nat /\ b \in Nat
              BY <1>13, <6>1
            <6>3. c = b + vol
              BY <1>11, <3>1, <6>1
            <6>4. f[u] = (IF u = p THEN a - b ELSE a) /\ g[u] = IF u = p THEN a - c ELSE a
              BY <2>3, <6>1
            <6>5. vol \in Nat
              BY <1>4
            <6> QED
              BY <6>2, <6>3, <6>4, <6>5
          <5> QED
            BY <5>1
        <4>2. \A u \in Periods : f[u] \in Int
          BY <2>3
        <4>3. Book(f, shipVol, d)
          BY <2>2, <3>1
        <4>4. vol \in Nat /\ d \in Demands
          BY <1>4
        <4>5. Book(g, Shipped(shipVol, d, s, vol), d)
          BY <1>7, <1>9, <4>1, <4>2, <4>3, <4>4, BookStep
        <4>6. new = Shipped(shipVol, d, s, vol)
          BY <1>4, <1>7, <2>1
        <4> QED
          BY <3>1, <4>5, <4>6
      <3>2. CASE e # d
        <4>1. \A u \in Periods : f[u] \in Int /\ g[u] = f[u]
          BY <1>12, <2>3, <3>2
        <4>2. new[e] = shipVol[e]
          <5>1. vol \in Nat /\ d \in Demands /\ t \in Periods
            BY <1>4
          <5> QED
            BY <1>4, <1>9, <2>1, <3>2, <5>1, ShippedFacts
        <4> QED
          BY <2>2, <4>1, <4>2, BookSame
      <3> QED
        BY <3>1, <3>2
    <2>5. Book(g, new, e)'
      BY <1>4, <2>4, DataKept
    <2> QED
      BY <2>1, <2>5
  <1>15. place'.demPer <= place'.shipPer /\ 1 <= place'.idx
    BY <1>4, <1>6 DEF AllInv, Progress, Books, Implosion
  <1> QED
    BY <1>14, <1>15 DEF Books

\* A target gets all it is asked for, or the rest cannot be obtained.
LEMMA TargetFilled ==
  ASSUME AllInv, AllocTarget
  PROVE  Filled' /\ Shared'
  <1>1. PICK l, n : l = work.list /\ n = work.pos
    OBVIOUS
  <1>2. PICK d, t, asked : d = l[n].demand /\ t = l[n].per /\ asked = Asked
    OBVIOUS
  <1>3. PICK vol, s : vol = IncVol(shipVol, d, t, asked) /\ s = place.shipPer
    OBVIOUS
  <1>4. /\ data' = data /\ place' = place /\ pc = "eq" /\ pc' = "eq"
        /\ n \in DOMAIN l /\ n \in Nat /\ asked \in Nat /\ vol \in Nat /\ vol <= asked
        /\ d \in Demands /\ t \in Periods
        /\ blocked \subseteq blocked'
        /\ Obtainable(shipVol', t) = Obtainable(shipVol, t) - vol
        /\ Obtainable(shipVol', t) \in Nat /\ Obtainable(shipVol, t) \in Nat
        /\ data.skipFailures /\ t \in blocked => vol = 0
        /\ asked <= IncVolUB(shipVol, d, t) =>
             vol = asked \/ Short(shipVol', blocked', d, t, asked - vol)
        /\ \A u \in Periods, e \in Demands, m \in Nat, k \in Nat :
             Short(shipVol, blocked, e, u, m) /\ m <= k => Short(shipVol', blocked', e, u, k)
    BY <1>1, <1>2, <1>3, TargetFacts
  <1>5. /\ work'.list = l /\ work'.multi = work.multi /\ work'.imploding = work.imploding
        /\ \/ /\ work'.pos = n + 1 /\ work'.itNo = work.itNo
              /\ n < Len(l) \/ work.itNo = NRounds
           \/ /\ work'.pos = 1 /\ work'.itNo = work.itNo + 1 /\ n = Len(l)
              /\ work.itNo < NRounds
    BY <1>1, <1>2, <1>3, TargetEntries
  <1>6. \A i \in DOMAIN l :
          /\ i \in Nat /\ l[i].demand \in Demands
          /\ Des(i)' = Des(i) /\ Des(i) \in Nat /\ Inc(i) \in Nat
          /\ \A r : Goal(i, r)' = Goal(i, r)
          /\ i # n => Inc(i)' = Inc(i)
          /\ i # n /\ work.multi => Prev(i)' = Prev(i)
    BY <1>1, <1>2, <1>3, TargetEntries
  <1>7. /\ work.multi => Inc(n)' = Inc(n) + vol /\ Prev(n)' = Goal(n, work.itNo)
        /\ ~work.multi => Inc(n)' = vol
    BY <1>1, <1>2, <1>3, TargetEntries
  <1>8. SUFFICES ASSUME work.imploding PROVE Filled' /\ Shared'
    BY <1>5 DEF Filled, Shared
  <1>9. t = s /\ asked <= IncVolUB(shipVol, d, t)
    BY <1>1, <1>2, <1>3, <1>8, GroupTarget
  <1>10. vol = asked \/ Short(shipVol', blocked', d, s, asked - vol)
    BY <1>4, <1>9
  <1>11. ASSUME NEW i \in DOMAIN l PROVE Prev(i) \in Nat
    <2>1. eq.prevDesVol \in Schedules
      BY TypeFacts DEF AllInv
    <2>2. l[i].demand \in Demands /\ l[i].per \in Periods
      BY <1>1, ListEntry, TypeFacts DEF AllInv
    <2> QED
      BY <1>1, <2>1, <2>2, ScheduleEntry DEF Prev
  <1>12. /\ 1 <= work.itNo /\ work.itNo <= NRounds /\ work.itNo \in Nat /\ NRounds \in Nat
         /\ \A i \in DOMAIN l :
              work.multi =>
                /\ Prev(i) = Goal(i, IF i < n THEN work.itNo ELSE work.itNo - 1)
                /\ Inc(i) <= Prev(i)
    BY <1>1, <1>4, TypeFacts, NRoundsType DEF AllInv, Progress, Rounds
  <1>13. ASSUME work.multi
         PROVE  /\ Inc(n) \in Nat /\ Prev(n) \in Nat /\ Goal(n, work.itNo) \in Nat
                /\ Inc(n) <= Prev(n)
                /\ asked = Goal(n, work.itNo) - Prev(n)
    BY <1>1, <1>2, <1>4, <1>13, AskedFacts DEF Asked
  <1>14. Filled'
    <2>1. ASSUME NEW i \in DOMAIN l,
                 \/ Inc(i)' = Prev(i)'
                 \/ Short(shipVol', blocked', l[i].demand, s, Prev(i)' - Inc(i)')
          PROVE  Gets(i, Prev(i))'
      BY <1>3, <1>4, <1>5, <2>1, DataKept DEF Gets
    <2>2. ASSUME NEW i \in DOMAIN l,
                 \/ Inc(i)' = Des(i)'
                 \/ Short(shipVol', blocked', l[i].demand, s, Des(i)' - Inc(i)')
          PROVE  Gets(i, Des(i))'
      BY <1>3, <1>4, <1>5, <2>2, DataKept DEF Gets
    <2>3. ASSUME NEW i \in DOMAIN l
          PROVE  /\ work.multi =>
                      \/ Inc(i) = Prev(i)
                      \/ Short(shipVol, blocked, l[i].demand, s, Prev(i) - Inc(i))
                 /\ ~work.multi /\ i < n =>
                      \/ Inc(i) = Des(i)
                      \/ Short(shipVol, blocked, l[i].demand, s, Des(i) - Inc(i))
      BY <1>1, <1>3, <1>4, <1>8 DEF AllInv, Progress, Filled, Gets
    <2>4. ASSUME NEW i \in DOMAIN l, work.multi PROVE Gets(i, Prev(i))'
      <3>1. PICK x : x = Prev(i) - Inc(i)
        OBVIOUS
      <3>2. x \in Nat
        BY <1>6, <1>11, <1>12, <2>4, <3>1
      <3>3. CASE i = n
        <4>1. Prev(i)' - Inc(i)' = x + (asked - vol)
          BY <1>4, <1>7, <1>13, <2>4, <3>1, <3>3
        <4>2. CASE Inc(i) = Prev(i)
          <5>1. Inc(i)' = Prev(i)' \/ Short(shipVol', blocked', d, s, asked - vol)
            BY <1>4, <1>7, <1>10, <1>13, <2>4, <3>3, <4>2
          <5>2. Prev(i)' - Inc(i)' = asked - vol
            BY <1>4, <1>7, <1>13, <2>4, <3>3, <4>2
          <5> QED
            BY <1>2, <2>1, <3>3, <5>1, <5>2
        <4>3. CASE Short(shipVol, blocked, d, s, x)
          <5>1. PICK y : y = x + (asked - vol)
            OBVIOUS
          <5>2. y \in Nat /\ x <= y
            BY <1>4, <3>2, <5>1
          <5>3. Short(shipVol', blocked', d, s, y)
            BY <1>4, <1>9, <3>2, <4>3, <5>2
          <5> QED
            BY <1>2, <2>1, <3>3, <4>1, <5>1, <5>3
        <4> QED
          BY <1>2, <2>3, <2>4, <3>1, <3>3, <4>2, <4>3
      <3>4. CASE i # n
        <4>1. Inc(i)' = Inc(i) /\ Prev(i)' = Prev(i)
          BY <1>6, <2>4, <3>4
        <4>2. Short(shipVol, blocked, l[i].demand, s, x)
                => Short(shipVol', blocked', l[i].demand, s, x)
          <5>1. x <= x
            BY <3>2
          <5> QED
            BY <1>4, <1>6, <1>9, <3>2, <5>1
        <4> QED
          BY <2>1, <2>3, <2>4, <3>1, <4>1, <4>2
      <3> QED
        BY <3>3, <3>4
    <2>5. ASSUME NEW i \in DOMAIN l, ~work.multi, i < work'.pos PROVE Gets(i, Des(i))'
      <3>1. NRounds = 1
        BY <2>5 DEF NRounds
      <3>2. work'.pos = n + 1
        BY <1>5, <1>12, <3>1
      <3>3. i = n \/ i < n
        BY <1>4, <1>6, <2>5, <3>2
      <3>4. CASE i = n
        <4>1. asked = Des(n) /\ Des(i)' = asked /\ Inc(i)' = vol
          BY <1>1, <1>2, <1>6, <1>7, <2>5, <3>4 DEF Asked
        <4> QED
          BY <1>2, <1>10, <2>2, <3>4, <4>1
      <3>5. CASE i # n
        <4>1. PICK x : x = Des(i) - Inc(i)
          OBVIOUS
        <4>2. Inc(i)' = Inc(i) /\ Des(i)' = Des(i) /\ i < n
          BY <1>6, <3>3, <3>5
        <4>3. x \in Nat /\ x <= x
          <5>1. Inc(i) <= Des(i)
            BY <1>1, <1>4, <2>5, <4>2 DEF AllInv, Progress, Rounds
          <5> QED
            BY <1>6, <4>1, <5>1
        <4>4. Short(shipVol, blocked, l[i].demand, s, x)
                => Short(shipVol', blocked', l[i].demand, s, x)
          BY <1>4, <1>6, <1>9, <4>3
        <4> QED
          BY <2>2, <2>3, <2>5, <4>1, <4>2, <4>4
      <3> QED
        BY <3>4, <3>5
    <2> QED
      BY <1>5, <2>4, <2>5 DEF Filled
  \* When a target fails, the present round is the one that is shared in.
  <1>15. Shared'
    <2>1. SUFFICES ASSUME work.multi PROVE Shared'
      BY <1>5 DEF Shared
    <2>2. PICK r0 : r0 = work.itNo
      OBVIOUS
    <2>3. r0 \in 1..data.equitability
      BY <1>12, <2>1, <2>2 DEF NRounds
    <2>4. ASSUME NEW r \in 1..data.equitability, NEW j \in DOMAIN l,
                 \A i \in DOMAIN l :
                   /\ Goal(i, r - 1) <= Inc(i)'
                   /\ IF data.skipFailures
                        THEN s \in blocked' /\ Inc(i)' <= Goal(i, r)
                        ELSE Obtainable(shipVol', s) + Inc(i)'
                               <= Goal(i, r) + SearchInc[l[j].demand] - 1
          PROVE  Shared'
      <3>1. Obtainable(shipVol, place.shipPer)' = Obtainable(shipVol', s)
        BY <1>3, <1>4, DataKept
      <3>2. ASSUME NEW i \in DOMAIN l PROVE SharedIn(r, j, i)'
        <4>1. Goal(i, r - 1)' = Goal(i, r - 1) /\ Goal(i, r)' = Goal(i, r)
          BY <1>6
        <4> QED
          BY <1>3, <1>4, <1>5, <2>4, <3>1, <4>1 DEF SharedIn
      <3> QED
        BY <1>4, <1>5, <2>4, <3>2 DEF Shared
    <2>5. CASE \A i \in DOMAIN l : Inc(i) = Prev(i)
      <3>1. ASSUME NEW i \in DOMAIN l
            PROVE  /\ Goal(i, r0 - 1) <= Inc(i)' /\ Inc(i)' <= Goal(i, r0)
                   /\ Inc(i)' \in Nat /\ Goal(i, r0) \in Nat
                   /\ vol = asked => Inc(i)' = Prev(i)'
        <4>1. PICK e, v, r : e = l[i].demand /\ v = Des(i) /\ r = r0 - 1
          OBVIOUS
        <4>2. e \in Demands /\ v \in Nat
          BY <1>6, <4>1
        <4>3. r \in Nat /\ r + 1 = r0
          BY <1>12, <2>2, <4>1
        <4>4. /\ NewDesVol(e, v, r) \in Nat /\ NewDesVol(e, v, r + 1) \in Nat
              /\ NewDesVol(e, v, r) <= NewDesVol(e, v, r + 1)
          <5>1. DataType
            BY DEF AllInv, Types
          <5>2. r + 1 \in Nat
            BY <4>3
          <5> QED
            BY <4>2, <4>3, <5>1, <5>2, NewDesVolFacts
        <4>5. Goal(i, r0 - 1) = NewDesVol(e, v, r) /\ Goal(i, r0) = NewDesVol(e, v, r + 1)
          BY <1>1, <4>1, <4>3 DEF Goal
        <4>6. PICK a, b : a = Goal(i, r0 - 1) /\ b = Goal(i, r0)
          OBVIOUS
        <4>7. a \in Nat /\ b \in Nat /\ a <= b
          BY <4>4, <4>5, <4>6
        <4>8. Prev(i) = IF i < n THEN b ELSE a
          BY <1>12, <2>1, <2>2, <4>6
        <4>9. CASE i = n
          <5>1. Prev(n) = a /\ Inc(n) = a
            BY <1>4, <2>5, <4>8, <4>9
          <5>2. asked = b - a
            BY <1>13, <2>1, <2>2, <4>6, <4>9, <5>1
          <5>3. Inc(n)' = a + vol /\ Prev(n)' = b
            BY <1>7, <2>1, <2>2, <4>6, <4>9, <5>1
          <5> QED
            BY <1>4, <4>6, <4>7, <4>9, <5>2, <5>3
        <4>10. CASE i # n
          <5>1. Inc(i)' = Prev(i) /\ Prev(i)' = Prev(i)
            BY <1>6, <2>1, <2>5, <4>10
          <5> QED
            BY <4>6, <4>7, <4>8, <5>1
        <4> QED
          BY <4>9, <4>10
      <3>2. CASE vol = asked
        <4>1. \A i \in DOMAIN l : Inc(i)' = Prev(i)'
          BY <3>1, <3>2
        <4> QED
          BY <1>5, <4>1 DEF Shared
      <3>3. CASE Short(shipVol', blocked', d, s, asked - vol)
        <4>1. CASE data.skipFailures
          <5>1. s \in blocked'
            BY <3>3, <4>1 DEF Short
          <5> QED
            BY <1>4, <2>3, <2>4, <3>1, <4>1, <5>1
        <4>2. CASE ~data.skipFailures
          <5>1. PICK o, x : o = Obtainable(shipVol', s) /\ x = SearchInc[l[n].demand]
            OBVIOUS
          <5>2. o < x
            BY <1>2, <3>3, <4>2, <5>1 DEF Short
          <5>3. o \in Nat /\ x \in Nat
            BY <1>2, <1>4, <1>9, <5>1, DataAssumption
          <5>4. ASSUME NEW i \in DOMAIN l PROVE o + Inc(i)' <= Goal(i, r0) + x - 1
            BY <3>1, <5>2, <5>3
          <5> QED
            BY <1>4, <2>3, <2>4, <3>1, <4>2, <5>1, <5>4
        <4> QED
          BY <4>1, <4>2
      <3> QED
        BY <1>10, <3>2, <3>3
    <2>6. CASE ~ \A i \in DOMAIN l : Inc(i) = Prev(i)
      <3>1. PICK r \in 1..data.equitability, j \in DOMAIN l :
              \A i \in DOMAIN l : SharedIn(r, j, i)
        BY <1>1, <1>4, <1>8, <2>1, <2>6 DEF AllInv, Progress, Shared
      <3>2. ASSUME NEW i \in DOMAIN l
            PROVE  /\ Goal(i, r - 1) <= Inc(i)
                   /\ IF data.skipFailures
                        THEN s \in blocked /\ Inc(i) <= Goal(i, r)
                        ELSE Obtainable(shipVol, s) + Inc(i)
                               <= Goal(i, r) + SearchInc[l[j].demand] - 1
                   /\ Goal(i, r - 1) \in Nat /\ Goal(i, r) \in Nat
        <4>1. SharedIn(r, j, i)
          BY <3>1
        <4>2. r - 1 \in Nat /\ r \in Nat /\ DataType
          BY <1>12, <2>3, DataFacts DEF AllInv, Types
        <4>3. Goal(i, r - 1) \in Nat /\ Goal(i, r) \in Nat
          BY <1>1, <1>6, <4>2, NewDesVolFacts DEF Goal
        <4> QED
          BY <1>1, <1>3, <4>1, <4>3 DEF SharedIn
      <3>3. CASE data.skipFailures
        <4>1. vol = 0 /\ s \in blocked'
          BY <1>4, <1>9, <3>2, <3>3
        <4>2. Inc(n)' = Inc(n)
          BY <1>7, <1>13, <2>1, <4>1
        <4>3. \A i \in DOMAIN l : Inc(i)' = Inc(i)
          BY <1>6, <4>2
        <4> QED
          BY <2>4, <3>2, <3>3, <4>1, <4>3
      <3>4. CASE ~data.skipFailures
        <4>1. ASSUME NEW i \in DOMAIN l
              PROVE  /\ Goal(i, r - 1) <= Inc(i)'
                     /\ Obtainable(shipVol', s) + Inc(i)'
                          <= Goal(i, r) + SearchInc[l[j].demand] - 1
          <5>1. PICK a, b, g, h, x, y, z :
                  /\ a = Obtainable(shipVol, s) /\ b = Obtainable(shipVol', s)
                  /\ g = Goal(i, r - 1) /\ h = Goal(i, r) /\ x = SearchInc[l[j].demand]
                  /\ y = Inc(i) /\ z = Inc(i)'
            OBVIOUS
          <5>2. /\ a \in Nat /\ b \in Nat /\ g \in Nat /\ h \in Nat /\ x \in Nat /\ y \in Nat
                /\ b = a - vol
            BY <1>4, <1>6, <1>9, <3>2, <5>1, DataAssumption
          <5>3. g <= y /\ a + y <= h + x - 1
            BY <3>2, <3>4, <5>1
          <5>4. z = y + vol \/ z = y
            BY <1>6, <1>7, <2>1, <5>1
          <5>5. g <= z /\ b + z <= h + x - 1
            BY <1>4, <5>2, <5>3, <5>4
          <5> QED
            BY <5>1, <5>5
        <4> QED
          BY <2>4, <3>4, <4>1
      <3> QED
        BY <3>3, <3>4
    <2> QED
      BY <2>5, <2>6
  <1> QED
    BY <1>14, <1>15

\* A target of the equitable allocator is allocated.
LEMMA TargetStep ==
  ASSUME AllInv, AllocTarget
  PROVE  Types' /\ Feasible(shipVol)' /\ Progress'
  <1>1. PICK l, n : l = work.list /\ n = work.pos
    OBVIOUS
  <1>2. PICK d, t, asked : d = l[n].demand /\ t = l[n].per /\ asked = Asked
    OBVIOUS
  <1>3. PICK vol : vol = IncVol(shipVol, d, t, asked)
    OBVIOUS
  <1>4. /\ data' = data /\ active' = active /\ unmet' = unmet /\ sorted' = sorted
        /\ place' = place /\ selected' = selected /\ pc = "eq" /\ pc' = "eq"
        /\ shipVol' \in Schedules /\ Feasible(shipVol')
        /\ eq' \in EqRec /\ eq'.desIncVol = eq.desIncVol
        /\ \A u \in Periods, e \in Demands, m \in Nat, k \in Nat :
             Short(shipVol, blocked, e, u, m) /\ m <= k => Short(shipVol', blocked', e, u, k)
    BY <1>1, <1>2, <1>3, TargetFacts
  <1>5. /\ work' \in WorkRec /\ work'.list = l /\ work'.multi = work.multi
        /\ work'.imploding = work.imploding
    BY <1>1, <1>2, <1>3, TargetEntries
  <1>6. Types'
    BY <1>4, <1>5, DataKept DEF AllInv, Types
  <1>7. Feasible(shipVol)'
    BY <1>4, DataKept
  <1>8. \A e : PassedOver(e)' = PassedOver(e)
    BY <1>4 DEF PassedOver
  <1>9. ModPriority(place.demPer)' = ModPriority(place.demPer)
    BY <1>4, DataKept
  <1>10. Group'
    <2>1. ASSUME NEW i \in DOMAIN l, work.imploding PROVE InGroup(work.list, i)'
      <3>1. InGroup(l, i)
        BY <1>1, <1>4, <2>1 DEF AllInv, Progress, Group
      <3>2. PICK e : e = l[i].demand
        OBVIOUS
      <3>3. ~PassedOver(e)'
        BY <1>8, <3>1, <3>2 DEF InGroup
      <3>4. ~PassedOver(l[i].demand)'
        BY <3>2, <3>3 DEF PassedOver
      <3>5. InGroup(l, i)'
        BY <1>4, <1>9, <3>1, <3>4 DEF InGroup
      <3> QED
        BY <1>5, <3>5 DEF InGroup, PassedOver
    <2>2. Group
      BY DEF AllInv, Progress
    <2> QED
      BY <1>4, <1>5, <2>1, <2>2 DEF Group, Implosion
  <1>11. /\ Implosion' => Implosion
         /\ \A e \in Demands, v \in Periods, u \in Periods :
              Short(shipVol, blocked, e, u, unmet[e][v])
                => Short(shipVol, blocked, e, u, unmet[e][v])'
    <2>1. Implosion' => Implosion
      BY <1>4, <1>5 DEF Implosion
    <2>2. ASSUME NEW e \in Demands, NEW v \in Periods, NEW u \in Periods,
                 Short(shipVol, blocked, e, u, unmet[e][v])
          PROVE  Short(shipVol, blocked, e, u, unmet[e][v])'
      <3>1. PICK x : x = unmet[e][v]
        OBVIOUS
      <3>2. x \in Nat /\ x <= x
        BY <3>1, ScheduleEntry DEF AllInv, Types
      <3>3. Short(shipVol', blocked', e, u, x)
        BY <1>4, <2>2, <3>1, <3>2
      <3> QED
        BY <1>4, <3>1, <3>3, DataKept
    <2> QED
      BY <2>1, <2>2
  <1>12. Served'
    <2>1. ASSUME Implosion', NEW j \in DOMAIN sorted, j < place.idx
          PROVE  PassedOver(sorted[j])' \/ Lacks(sorted[j])' \/ Awaits(sorted[j])'
      <3>1. PICK e \in Demands : e = sorted[j]
        BY DEF AllInv, Types
      <3>2. PassedOver(e) \/ Lacks(e) \/ Awaits(e)
        BY <1>11, <2>1, <3>1 DEF AllInv, Progress, Served
      <3>3. Awaits(e) => Awaits(e)'
        BY <1>1, <1>4, <1>5 DEF Awaits
      <3>4. Lacks(e) => Lacks(e)'
        <4>1. place.demPer \in Periods /\ place.shipPer \in Periods
          BY TypeFacts DEF AllInv
        <4> QED
          BY <1>4, <1>11, <4>1 DEF Lacks
      <3>5. PassedOver(e)' \/ Lacks(e)' \/ Awaits(e)'
        BY <1>8, <3>2, <3>3, <3>4
      <3> QED
        BY <1>4, <3>1, <3>5 DEF PassedOver, Awaits
    <2>2. ASSUME Implosion', NEW j \in DOMAIN sorted', j < place'.idx
          PROVE  (PassedOver(sorted[j]) \/ Lacks(sorted[j]) \/ Awaits(sorted[j]))'
      BY <1>4, <2>1, <2>2 DEF PassedOver, Awaits, Lacks
    <2> QED
      BY <2>2 DEF Served
  <1>13. Denied'
    <2>1. ASSUME Implosion' PROVE Denied'
      <3>1. Denied
        BY DEF AllInv, Progress
      <3> QED
        BY <1>4, <1>11, <2>1, <3>1 DEF Denied
    <2> QED
      BY <2>1 DEF Denied
  <1> QED
    BY <1>6, <1>7, <1>10, <1>12, <1>13, TargetRounds, TargetBooks, TargetFilled DEF Progress

-------------------------------------------------------------------------------
(* The end of an equitable allocation. *)

\* All targets have been asked for all that is desired of them.
LEMMA EndFacts ==
  ASSUME AllInv, pc = "eq", work.pos \notin DOMAIN work.list, NEW l, l = work.list
  PROVE  /\ l \in Seq(Targets) /\ work.itNo = NRounds
         /\ \A i \in DOMAIN l :
              /\ i \in Nat /\ i < work.pos
              /\ l[i].demand \in Demands /\ l[i].per \in Periods
              /\ Inc(i) \in Nat /\ Des(i) \in Nat /\ Inc(i) <= Des(i)
              /\ work.multi => Prev(i) = Des(i)
  <1>1. pc = "eq" /\ work.pos \notin DOMAIN l
    OBVIOUS
  <1>2. l \in Seq(Targets) /\ work.pos \in Nat /\ work.itNo \in Nat
    BY TypeFacts DEF AllInv
  <1>3. /\ 1 <= work.pos /\ work.pos <= Len(l) + 1
        /\ work.pos = Len(l) + 1 => work.itNo = NRounds
        /\ \A i \in DOMAIN l :
             /\ work.multi =>
                  /\ Prev(i) = Goal(i, IF i < work.pos THEN work.itNo ELSE work.itNo - 1)
                  /\ Inc(i) <= Prev(i)
             /\ ~work.multi /\ i < work.pos => Inc(i) <= Des(i)
    BY <1>1 DEF AllInv, Progress, Rounds
  <1>4. DOMAIN l = 1..Len(l) /\ Len(l) \in Nat
    BY <1>2, ListEntry
  <1>5. work.pos = Len(l) + 1
    BY <1>1, <1>2, <1>3, <1>4
  <1>6. work.itNo = NRounds
    BY <1>3, <1>5
  <1>7. ASSUME NEW i \in DOMAIN l
        PROVE  /\ i \in Nat /\ i < work.pos
               /\ l[i].demand \in Demands /\ l[i].per \in Periods
               /\ Inc(i) \in Nat /\ Des(i) \in Nat /\ Inc(i) <= Des(i)
               /\ work.multi => Prev(i) = Des(i)
    <2>1. i \in Nat /\ i < work.pos
      BY <1>4, <1>5
    <2>2. l[i].demand \in Demands /\ l[i].per \in Periods
      BY <1>2, ListEntry
    <2>3. Inc(i) \in Nat /\ Des(i) \in Nat
      <3>1. eq.desIncVol \in Schedules /\ eq.incVol \in Schedules
        BY TypeFacts DEF AllInv
      <3> QED
        BY <2>2, <3>1, ScheduleEntry DEF Inc, Des
    <2>4. ASSUME work.multi PROVE Prev(i) = Des(i) /\ Inc(i) <= Des(i)
      <3>1. Prev(i) = Goal(i, work.itNo) /\ Inc(i) <= Prev(i)
        BY <1>3, <2>1, <2>4
      <3>2. PICK e, v : e = l[i].demand /\ v = Des(i)
        OBVIOUS
      <3>3. e \in Demands /\ v \in Nat /\ DataType
        BY <2>2, <2>3, <3>2 DEF AllInv, Types
      <3>4. NewDesVol(e, v, data.equitability) = v
        BY <3>3, NewDesVolFacts
      <3>5. Goal(i, work.itNo) = NewDesVol(e, v, data.equitability)
        BY <1>6, <2>4, <3>2 DEF Goal, NRounds
      <3> QED
        BY <3>1, <3>2, <3>4, <3>5
    <2>5. ~work.multi => Inc(i) <= Des(i)
      BY <1>3, <2>1
    <2> QED
      BY <2>1, <2>2, <2>3, <2>4, <2>5
  <1> QED
    BY <1>1, <1>2, <1>6, <1>7

\* The sum over the indices of one demand, of which a group has at most one.
LEMMA SumOfOne ==
  ASSUME NEW f, NEW i, f[i] \in Int
  PROVE  SumFunctionOnSet(f, {i}) = f[i]
  <1>1. IsFiniteSet({i}) /\ {i} # {}
    BY FS_Singleton
  <1>2. PICK x \in {i} : SumFunctionOnSet(f, {i}) = f[x] + SumFunctionOnSet(f, {i} \ {x})
    BY <1>1, SumFirst
  <1>3. x = i /\ {i} \ {x} = {}
    OBVIOUS
  <1>4. SumFunctionOnSet(f, {}) = 0
    BY SumEmpty
  <1> QED
    BY <1>2, <1>3, <1>4

\* What was open is what is unmet afterwards.
LEMMA MetFacts ==
  ASSUME AllInv, EndEqAlloc, work.imploding, NEW m, m = Met(eq, work.list)
  PROVE  /\ m \in Schedules
         /\ \A e \in Demands, u \in Periods :
              /\ m[e][u] = Open(e)[u] /\ m[e][u] <= unmet[e][u]
         /\ \A i \in DOMAIN work.list :
              LET e == work.list[i].demand
              IN  m[e][place.demPer] = Des(i) - Inc(i)
  <1>1. PICK l, p, s : l = work.list /\ p = place.demPer /\ s = place.shipPer
    OBVIOUS
  <1>2. /\ pc = "eq" /\ l \in Seq(Targets)
        /\ \A i \in DOMAIN l :
             /\ i \in Nat /\ i < work.pos
             /\ l[i].demand \in Demands
             /\ Inc(i) \in Nat /\ Des(i) \in Nat /\ Inc(i) <= Des(i)
    BY <1>1, EndFacts DEF EndEqAlloc
  <1>3. p \in Periods /\ s \in Periods /\ unmet \in Schedules /\ eq.incVol \in Schedules
    BY <1>1, TypeFacts DEF AllInv, Types
  <1>4. ASSUME NEW i \in DOMAIN l
        PROVE  /\ l[i].per = s /\ Des(i) = unmet[l[i].demand][p]
               /\ Inc(i) = eq.incVol[l[i].demand][s]
               /\ \A k \in DOMAIN l : l[k].demand = l[i].demand => k = i
    <2>1. InGroup(l, i)
      BY <1>1, <1>2 DEF AllInv, Progress, Group
    <2> QED
      BY <1>1, <2>1 DEF InGroup, Des, Inc
  <1>5. ASSUME NEW e \in Demands
        PROVE  SumFunctionOnSet([i \in DOMAIN l |-> eq.incVol[e][l[i].per]],
                                {i \in DOMAIN l : l[i].demand = e}) = Got(e)
    <2>1. PICK f, S : /\ f = [i \in DOMAIN l |-> eq.incVol[e][l[i].per]]
                      /\ S = {i \in DOMAIN l : l[i].demand = e}
      OBVIOUS
    <2>2. CASE S = {}
      <3>1. SumFunctionOnSet(f, S) = 0
        BY <2>2, SumEmpty
      <3>2. ~ \E i \in DOMAIN l : l[i].demand = e
        BY <2>1, <2>2
      <3>3. Got(e) = 0
        BY <1>1, <3>2 DEF Got
      <3> QED
        BY <2>1, <3>1, <3>3
    <2>3. CASE S # {}
      <3>1. PICK i \in S : TRUE
        BY <2>3
      <3>2. i \in DOMAIN l /\ l[i].demand = e
        BY <2>1, <3>1
      <3>3. S = {i}
        BY <1>4, <2>1, <3>2
      <3>4. f[i] = eq.incVol[e][s] /\ f[i] \in Int
        <4>1. f[i] = eq.incVol[e][s]
          BY <1>4, <2>1, <3>2
        <4>2. eq.incVol[e][s] \in Int
          BY <1>3, ScheduleEntry
        <4> QED
          BY <4>1, <4>2
      <3>5. SumFunctionOnSet(f, S) = eq.incVol[e][s]
        BY <3>3, <3>4, SumOfOne
      <3>6. i < work.pos
        BY <1>2, <3>2
      <3>7. Got(e) = eq.incVol[e][s]
        BY <1>1, <1>2, <3>2, <3>6 DEF Got
      <3> QED
        BY <2>1, <3>5, <3>7
    <2> QED
      BY <2>2, <2>3
  <1>6. m = [e \in Demands |-> [unmet[e] EXCEPT ![p] = @ - Got(e)]]
    <2>1. PICK g : g = [e \in Demands |->
                          SumFunctionOnSet([i \in DOMAIN l |-> eq.incVol[e][l[i].per]],
                                           {i \in DOMAIN l : l[i].demand = e})]
      OBVIOUS
    <2>2. m = [e \in Demands |-> [unmet[e] EXCEPT ![p] = @ - g[e]]]
      BY <1>1, <2>1 DEF Met
    <2>3. \A e \in Demands : g[e] = Got(e)
      BY <1>5, <2>1
    <2> QED
      BY <2>2, <2>3
  <1>7. ASSUME NEW e \in Demands
        PROVE  /\ Got(e) \in Nat /\ Got(e) <= unmet[e][p]
               /\ unmet[e] \in [Periods -> Nat]
               /\ \A u \in Periods : unmet[e][u] \in Nat
    <2>1. unmet[e] \in [Periods -> Nat] /\ \A u \in Periods : unmet[e][u] \in Nat
      BY <1>3, ScheduleEntry
    <2>2. CASE \E i \in DOMAIN l : l[i].demand = e
      <3>1. PICK i \in DOMAIN l : l[i].demand = e
        BY <2>2
      <3>2. i < work.pos /\ Inc(i) \in Nat /\ Inc(i) <= Des(i)
        BY <1>2
      <3>3. Got(e) = eq.incVol[e][s]
        BY <1>1, <1>2, <3>1, <3>2 DEF Got
      <3>4. Inc(i) = eq.incVol[e][s] /\ Des(i) = unmet[e][p]
        BY <1>4, <3>1
      <3> QED
        BY <2>1, <3>2, <3>3, <3>4
    <2>3. CASE ~ \E i \in DOMAIN l : l[i].demand = e
      <3>1. Got(e) = 0
        BY <1>1, <2>3 DEF Got
      <3> QED
        BY <1>3, <2>1, <3>1
    <2> QED
      BY <2>2, <2>3
  <1>8. ASSUME NEW e \in Demands
        PROVE  /\ m[e] \in [Periods -> Nat]
               /\ \A u \in Periods : m[e][u] = IF u = p THEN unmet[e][u] - Got(e)
                                                        ELSE unmet[e][u]
    <2>1. PICK row, got : row = unmet[e] /\ got = Got(e)
      OBVIOUS
    <2>2. m[e] = [row EXCEPT ![p] = @ - got]
      BY <1>6, <2>1
    <2>3. row \in [Periods -> Nat] /\ got \in Nat /\ got <= row[p] /\ row[p] \in Nat
      BY <1>3, <1>7, <2>1
    <2>4. row[p] - got \in Nat
      BY <2>3
    <2>5. m[e] = [row EXCEPT ![p] = row[p] - got]
      BY <2>2
    <2> QED
      BY <1>3, <2>1, <2>3, <2>4, <2>5
  <1>9. m \in Schedules
    <2>1. m = [e \in Demands |-> m[e]]
      BY <1>6
    <2> QED
      BY <1>8, <2>1 DEF Schedules
  <1>10. ASSUME NEW e \in Demands, NEW u \in Periods
         PROVE  m[e][u] = Open(e)[u] /\ m[e][u] <= unmet[e][u]
    <2>1. Open(e)[u] = IF u = p THEN unmet[e][u] - Got(e) ELSE unmet[e][u]
      BY <1>1 DEF Open
    <2> QED
      BY <1>7, <1>8, <2>1
  <1>11. ASSUME NEW i \in DOMAIN l
         PROVE  m[l[i].demand][p] = Des(i) - Inc(i)
    <2>1. PICK e : e = l[i].demand
      OBVIOUS
    <2>2. e \in Demands /\ i < work.pos
      BY <1>2, <2>1
    <2>3. Got(e) = eq.incVol[e][s]
      BY <1>1, <1>2, <2>1, <2>2 DEF Got
    <2>4. m[e][p] = unmet[e][p] - Got(e)
      BY <1>3, <1>8, <2>2
    <2> QED
      BY <1>4, <2>1, <2>3, <2>4
  <1> QED
    BY <1>1, <1>9, <1>10, <1>11

\* The end of an equitable allocation: the books agree again.
LEMMA EndStep ==
  ASSUME AllInv, EndEqAlloc
  PROVE  Types' /\ Feasible(shipVol)' /\ Progress'
  <1>1. PICK l : l = work.list
    OBVIOUS
  <1>2. /\ data' = data /\ shipVol' = shipVol /\ active' = active /\ sorted' = sorted
        /\ blocked' = blocked /\ place' = place /\ work' = NoWork /\ pc = "eq"
        /\ eq' = IF work.multi THEN PrevReset(eq, l) ELSE eq
    BY <1>1 DEF EndEqAlloc
  <1>3. /\ l \in Seq(Targets) /\ work.itNo = NRounds
        /\ \A i \in DOMAIN l :
             /\ i \in Nat /\ i < work.pos
             /\ l[i].demand \in Demands /\ l[i].per \in Periods
             /\ Inc(i) \in Nat /\ Des(i) \in Nat /\ Inc(i) <= Des(i)
             /\ work.multi => Prev(i) = Des(i)
    BY <1>1, EndFacts DEF EndEqAlloc
  <1>4. eq' \in EqRec /\ work' \in WorkRec
    <2>1. eq \in EqRec
      BY DEF AllInv, Types
    <2> QED
      BY <1>2, <2>1, PrevResetFacts, NoWorkFacts
  <1>5. Types
    BY DEF AllInv
  <1>6. Feasible(shipVol)'
    BY <1>2, DataKept DEF AllInv
  <1>7. CASE ~work.imploding
    <2>1. pc' = "idle" /\ unmet' = unmet /\ selected' = selected
      BY <1>7 DEF EndEqAlloc
    <2>2. selected = <<>>
      BY <1>2, <1>7 DEF AllInv, Progress, Group, Implosion
    <2>3. Progress'
      BY <2>1, <2>2, NoProgress
    <2>4. Types'
      BY <1>2, <1>4, <1>5, <2>1, DataKept DEF Types
    <2> QED
      BY <1>6, <2>3, <2>4
  <1>8. CASE work.imploding
    <2>1. unmet' = Met(eq, l) /\ selected' = <<>> /\ pc' = "scan"
      BY <1>1, <1>8 DEF EndEqAlloc
    <2>2. /\ unmet' \in Schedules
          /\ \A e \in Demands, u \in Periods :
               unmet'[e][u] = Open(e)[u] /\ unmet'[e][u] <= unmet[e][u]
          /\ \A i \in DOMAIN l : unmet'[l[i].demand][place.demPer] = Des(i) - Inc(i)
      BY <1>1, <1>8, <2>1, MetFacts
    <2>3. place.demPer \in Periods /\ place.shipPer \in Periods /\ unmet \in Schedules
      BY <1>5, TypeFacts DEF Types
    <2>4. Types'
      <3>1. selected' \in Seq(Targets)
        BY <2>1
      <3> QED
        BY <1>2, <1>4, <1>5, <2>1, <2>2, <3>1, DataKept DEF Types
    <2>5. Group'
      BY <2>1 DEF Group, Implosion
    <2>6. Books'
      <3>1. ASSUME NEW e \in Demands PROVE Book(unmet'[e], shipVol', e)
        <4>1. PICK f, g : f = Open(e) /\ g = unmet'[e]
          OBVIOUS
        <4>2. \A u \in Periods : g[u] \in Nat /\ f[u] = g[u]
          BY <2>2, <4>1, ScheduleEntry
        <4>3. \A u \in Periods : f[u] \in Int /\ g[u] = f[u]
          BY <4>2
        <4>4. Book(f, shipVol, e)
          BY <1>2, <1>8, <4>1 DEF AllInv, Progress, Books, Implosion
        <4>5. Book(g, shipVol, e)
          BY <4>3, <4>4, BookSame
        <4> QED
          BY <1>2, <4>1, <4>5
      <3>2. place'.demPer <= place'.shipPer /\ 1 <= place'.idx
        BY <1>2, <1>8 DEF AllInv, Progress, Books, Implosion
      <3> QED
        BY <1>2, <2>1, <2>2, <3>1, <3>2, BooksKept
    <2>9. PICK p, s : p = place.demPer /\ s = place.shipPer
      OBVIOUS
    <2>10. ASSUME NEW i \in DOMAIN l, NEW e, e = l[i].demand
           PROVE  unmet'[e][p] = 0 \/ Short(shipVol, blocked, e, s, unmet'[e][p])
      <3>1. Gets(i, Des(i))
        BY <1>1, <1>2, <1>3, <1>8, <2>10 DEF AllInv, Progress, Filled
      <3>2. unmet'[e][p] = Des(i) - Inc(i)
        BY <2>2, <2>9, <2>10
      <3>3. Des(i) \in Nat
        BY <1>3
      <3>4. Inc(i) = Des(i) => unmet'[e][p] = 0
        BY <3>2, <3>3
      <3>5. ASSUME Short(shipVol, blocked, work.list[i].demand, place.shipPer,
                         Des(i) - Inc(i))
            PROVE  Short(shipVol, blocked, e, s, unmet'[e][p])
        BY <1>1, <2>9, <2>10, <3>2, <3>5
      <3> QED
        BY <3>1, <3>4, <3>5 DEF Gets
    <2>11. ASSUME NEW e \in Demands, ~ \E i \in DOMAIN l : l[i].demand = e
           PROVE  \A u \in Periods : unmet'[e][u] = unmet[e][u]
      <3>1. Got(e) = 0
        BY <1>1, <2>11 DEF Got
      <3>2. ASSUME NEW u \in Periods PROVE unmet'[e][u] = unmet[e][u]
        <4>1. unmet[e][u] \in Nat
          BY <2>3, ScheduleEntry
        <4>2. Open(e)[u] = unmet[e][u]
          BY <3>1, <4>1 DEF Open
        <4> QED
          BY <2>2, <4>2
      <3> QED
        BY <3>2
    <2>7. Served'
      <3>1. ASSUME NEW e \in Demands, PassedOver(e) PROVE PassedOver(e)'
        <4>1. unmet[e][place.demPer] = 0 => unmet'[e][place.demPer] = 0
          <5>1. PICK a, b : a = unmet[e][place.demPer] /\ b = unmet'[e][place.demPer]
            OBVIOUS
          <5>2. b \in Nat /\ b <= a
            BY <2>2, <2>3, <5>1, ScheduleEntry
          <5> QED
            BY <5>1, <5>2
        <4> QED
          BY <1>2, <3>1, <4>1 DEF PassedOver
      <3>2. \A e : Lacks(e)' = Short(shipVol, blocked, e, s, unmet'[e][p])
        BY <1>2, <2>9, DataKept DEF Lacks
      <3>3. ASSUME NEW e \in Demands, PassedOver(e) \/ Lacks(e) \/ Awaits(e)
            PROVE  PassedOver(e)' \/ Lacks(e)'
        <4>1. CASE \E i \in DOMAIN l : l[i].demand = e
          <5>1. unmet'[e][p] = 0 \/ Short(shipVol, blocked, e, s, unmet'[e][p])
            BY <2>10, <4>1
          <5>2. unmet'[e][p] = 0 => PassedOver(e)'
            BY <1>2, <2>9 DEF PassedOver
          <5> QED
            BY <3>2, <5>1, <5>2
        <4>2. CASE ~ \E i \in DOMAIN l : l[i].demand = e
          <5>1. ~Awaits(e)
            BY <1>1, <1>2, <4>2 DEF Awaits
          <5>2. unmet'[e][p] = unmet[e][p]
            BY <2>3, <2>9, <2>11, <4>2
          <5>3. Lacks(e) => Lacks(e)'
            BY <2>9, <3>2, <5>2 DEF Lacks
          <5> QED
            BY <3>1, <3>3, <5>1, <5>3
        <4> QED
          BY <4>1, <4>2
      <3>4. ASSUME NEW j \in DOMAIN sorted, j < place.idx
            PROVE  PassedOver(sorted[j])' \/ Lacks(sorted[j])'
        <4>1. PICK e : e = sorted[j]
          OBVIOUS
        <4>2. e \in Demands
          BY <1>5, <4>1 DEF Types
        <4>3. PassedOver(e) \/ Lacks(e) \/ Awaits(e)
          BY <1>2, <1>8, <3>4, <4>1 DEF AllInv, Progress, Served, Implosion
        <4>4. PassedOver(e)' \/ Lacks(e)'
          BY <3>3, <4>2, <4>3
        <4> QED
          BY <1>2, <4>1, <4>4 DEF PassedOver
      <3>5. ASSUME NEW j \in DOMAIN sorted', j < place'.idx
            PROVE  (PassedOver(sorted[j]) \/ Lacks(sorted[j]))'
        BY <1>2, <3>4, <3>5 DEF PassedOver
      <3> QED
        BY <3>5 DEF Served
    <2>8. Denied'
      <3>1. ASSUME NEW e \in Demands, NEW u \in Periods, NEW v \in Periods,
                   unmet'[e][u] > 0, u <= v, u < p \/ (u = p /\ v < s)
            PROVE  \/ Short(shipVol, blocked, e, v, unmet'[e][u])
                   \/ e \notin ShipLate /\ v > u
                   \/ v - u > ShipLateUB[e][u]
        <4>1. PICK x, y : x = unmet[e][u] /\ y = unmet'[e][u]
          OBVIOUS
        <4>2. x \in Nat /\ y \in Nat /\ y <= x /\ y > 0 /\ x > 0
          <5>1. x \in Nat /\ y \in Nat /\ y <= x /\ y > 0
            BY <2>2, <2>3, <3>1, <4>1, ScheduleEntry
          <5> QED
            BY <5>1
        <4>3. \/ Short(shipVol, blocked, e, v, x)
              \/ e \notin ShipLate /\ v > u
              \/ v - u > ShipLateUB[e][u]
          BY <1>2, <1>8, <2>9, <3>1, <4>1, <4>2 DEF AllInv, Progress, Denied, Implosion
        <4>4. ASSUME Short(shipVol, blocked, e, v, x)
              PROVE  Short(shipVol, blocked, e, v, y)
          <5>1. CASE u = p /\ \E i \in DOMAIN l : l[i].demand = e
            <6>1. Short(shipVol, blocked, e, s, y)
              BY <2>10, <4>1, <4>2, <5>1
            <6>2. v <= s /\ s \in Periods
              BY <2>3, <2>9, <3>1, <5>1, PeriodFacts
            <6>3. DataType /\ shipVol \in Schedules /\ Feasible(shipVol)
              BY DEF AllInv, Types
            <6> QED
              BY <4>2, <4>4, <6>1, <6>2, <6>3, ShortEarlier
          <5>2. CASE u # p
            <6>1. y = x
              BY <2>2, <2>9, <4>1, <5>2 DEF Open
            <6> QED
              BY <4>4, <6>1
          <5>3. CASE ~ \E i \in DOMAIN l : l[i].demand = e
            <6>1. y = x
              BY <2>11, <4>1, <5>3
            <6> QED
              BY <4>4, <6>1
          <5> QED
            BY <5>1, <5>2, <5>3
        <4> QED
          BY <4>1, <4>3, <4>4
      <3>2. \A e, u, v : Short(shipVol, blocked, e, v, unmet[e][u])'
                          = Short(shipVol, blocked, e, v, unmet'[e][u])
        BY <1>2, DataKept
      <3> QED
        BY <1>2, <2>9, <3>1, <3>2 DEF Denied
    <2> QED
      BY <1>6, <2>1, <2>4, <2>5, <2>6, <2>7, <2>8, ScanFrame DEF Progress
  <1> QED
    BY <1>7, <1>8

-------------------------------------------------------------------------------
(* The invariant. *)

\* A period that is blocked by an allocation is one in which the demand that it
\* was for cannot take one more increment.
LEMMA BlockedMore ==
  ASSUME Blocked, data' = data, NEW d \in Demands, NEW t \in Periods,
         blocked' \subseteq blocked \cup {t},
         \A u \in Periods : /\ Obtainable(shipVol', u) \in Nat
                            /\ Obtainable(shipVol, u) \in Nat
                            /\ Obtainable(shipVol', u) <= Obtainable(shipVol, u),
         \A u \in blocked' : u \notin blocked => Obtainable(shipVol', u) < SearchInc[d]
  PROVE  Blocked'
  <1>1. \A u : Obtainable(shipVol', u) = Obtainable(shipVol, u)'
    BY DataKept
  <1>2. blocked' \subseteq Periods
    BY DEF Blocked
  <1>3. ASSUME NEW u \in blocked'
        PROVE  \E e \in Demands : Obtainable(shipVol', u) < SearchInc[e]
    <2>1. CASE u \notin blocked
      BY <2>1
    <2>2. CASE u \in blocked
      <3>1. PICK e \in Demands : Obtainable(shipVol, u) < SearchInc[e]
        BY <2>2 DEF Blocked
      <3>2. SearchInc[e] \in Nat /\ u \in Periods
        BY <1>2, DataAssumption
      <3>3. PICK a, b : a = Obtainable(shipVol, u) /\ b = Obtainable(shipVol', u)
        OBVIOUS
      <3>4. a \in Nat /\ b \in Nat /\ b <= a /\ a < SearchInc[e]
        BY <3>1, <3>2, <3>3
      <3>5. Obtainable(shipVol', u) < SearchInc[e]
        BY <3>2, <3>3, <3>4
      <3> QED
        BY <3>5
    <2> QED
      BY <2>1, <2>2
  <1>4. \A u \in blocked' : \E e \in Demands : Obtainable(shipVol, u)' < SearchInc[e]
    BY <1>1, <1>3
  <1> QED
    BY <1>2, <1>4 DEF Blocked

\* A call of incHeurAlloc keeps it so.
LEMMA BlockedByAlloc ==
  ASSUME AllInv, data' = data, NEW d \in Demands, NEW t \in Periods, NEW des \in Nat,
         NEW vol, vol = IncVol(shipVol, d, t, des),
         shipVol' = Shipped(shipVol, d, t, vol),
         blocked' = BlockedAfter(shipVol, d, t, des)
  PROVE  Blocked'
  <1>1. PICK new, bl : new = shipVol' /\ bl = blocked'
    OBVIOUS
  <1>2. DataType /\ shipVol \in Schedules /\ Feasible(shipVol)
    BY DEF AllInv, Types
  <1>3. AllocResult(shipVol, d, t, des, vol, new, bl)
    BY <1>1, <1>2, AllocFacts
  <1>4. /\ bl \subseteq blocked \cup {t}
        /\ \A u \in Periods : /\ Obtainable(new, u) \in Nat /\ Obtainable(shipVol, u) \in Nat
                              /\ Obtainable(new, u) <= Obtainable(shipVol, u)
        /\ \A u \in bl : u \notin blocked => Obtainable(new, u) < SearchInc[d]
    BY <1>3 DEF AllocResult
  <1>5. /\ blocked' \subseteq blocked \cup {t}
        /\ \A u \in Periods : /\ Obtainable(shipVol', u) \in Nat
                              /\ Obtainable(shipVol, u) \in Nat
                              /\ Obtainable(shipVol', u) <= Obtainable(shipVol, u)
        /\ \A u \in blocked' : u \notin blocked => Obtainable(shipVol', u) < SearchInc[d]
    BY <1>1, <1>4
  <1>6. Blocked
    BY DEF AllInv
  <1> QED
    BY <1>5, <1>6, BlockedMore

\* Every step keeps it so: the other steps unblock all periods or leave them
\* blocked and the shipments as they are.
LEMMA BlockedStep == AllInv /\ Next => Blocked'
  <1> SUFFICES ASSUME AllInv, Next PROVE Blocked'
    OBVIOUS
  <1>1. data' = data
    BY DataStep
  <1>2. CASE blocked' = {}
    BY <1>2 DEF Blocked
  <1>3. CASE blocked' = blocked /\ shipVol' = shipVol
    <2>1. \A u : Obtainable(shipVol, u)' = Obtainable(shipVol, u)
      BY <1>1, <1>3, DataKept
    <2>2. Blocked
      BY DEF AllInv
    <2> QED
      BY <1>3, <2>1, <2>2 DEF Blocked
  <1>4. CASE witIncHeurAlloc
    <2>1. PICK list \in Lists :
            /\ shipVol' = Shipped(shipVol, list[1].demand, list[1].per,
                                  IncVol(shipVol, list[1].demand, list[1].per,
                                         list[1].vol))
            /\ blocked' = BlockedAfter(shipVol, list[1].demand, list[1].per,
                                       list[1].vol)
      BY <1>4 DEF witIncHeurAlloc
    <2>2. PICK d, t, des, vol :
            /\ d = list[1].demand /\ t = list[1].per /\ des = list[1].vol
            /\ vol = IncVol(shipVol, d, t, des)
      OBVIOUS
    <2>3. d \in Demands /\ t \in Periods /\ des \in Nat
      BY <2>2, ListFacts, ListEntry
    <2>4. /\ shipVol' = Shipped(shipVol, d, t, vol)
          /\ blocked' = BlockedAfter(shipVol, d, t, des)
      BY <2>1, <2>2
    <2> QED
      BY <1>1, <2>2, <2>3, <2>4, BlockedByAlloc
  <1>5. CASE IncAlloc
    <2>1. PICK d, t, des, vol :
            /\ d = sorted[place.idx] /\ t = place.shipPer /\ des = unmet[d][place.demPer]
            /\ vol = IncVol(shipVol, d, t, des)
      OBVIOUS
    <2>2. /\ shipVol' = Shipped(shipVol, d, t, vol)
          /\ blocked' = BlockedAfter(shipVol, d, t, des)
          /\ pc = "scan" /\ place.idx <= Len(sorted)
      BY <1>5, <2>1 DEF IncAlloc, Scanning, Current
    <2>3. place.idx \in Nat /\ 1 <= place.idx
      BY <2>2, TypeFacts, BooksScan DEF AllInv
    <2>4. d \in Demands
      BY <2>1, <2>2, <2>3 DEF AllInv, Types
    <2>5. t \in Periods /\ place.demPer \in Periods
      BY <2>1, TypeFacts DEF AllInv
    <2>6. des \in Nat
      BY <2>1, <2>4, <2>5, ScheduleEntry DEF AllInv, Types
    <2> QED
      BY <1>1, <2>1, <2>2, <2>4, <2>5, <2>6, BlockedByAlloc
  <1>6. CASE AllocTarget
    <2>1. PICK l, n, d, t, asked, vol :
            /\ l = work.list /\ n = work.pos /\ d = l[n].demand /\ t = l[n].per
            /\ asked = Asked /\ vol = IncVol(shipVol, d, t, asked)
      OBVIOUS
    <2>2. /\ d \in Demands /\ t \in Periods
          /\ blocked' \subseteq blocked \cup {t}
          /\ \A u \in Periods : /\ Obtainable(shipVol', u) \in Nat
                                /\ Obtainable(shipVol, u) \in Nat
                                /\ Obtainable(shipVol', u) <= Obtainable(shipVol, u)
          /\ \A u \in blocked' : u \notin blocked => Obtainable(shipVol', u) < SearchInc[d]
      BY <1>6, <2>1, TargetFacts
    <2>3. Blocked
      BY DEF AllInv
    <2> QED
      BY <1>1, <2>2, <2>3, BlockedMore
  <1>7. \/ witIncHeurAlloc \/ IncAlloc \/ AllocTarget
        \/ blocked' = {} \/ (blocked' = blocked /\ shipVol' = shipVol)
    BY DEF Next, ApiCall, Implode, witStartHeurAlloc, EndHeurAlloc, witEqHeurAlloc,
       ImplosionStep, PassOver, AllocGroup, SelectForEqAlloc, AllocLastGroup,
       NextShipPer, NextDemPer, FinishImplosion, EqStep, EndEqAlloc
  <1> QED
    BY <1>2, <1>3, <1>4, <1>5, <1>6, <1>7

\* The invariant holds initially ...
LEMMA InitAllInv == Init => AllInv
  <1> SUFFICES ASSUME Init PROVE AllInv
    OBVIOUS
  <1>1. IInv
    BY InitIInv
  <1>2. DataType
    <2>1. data \in [demandVol : DemandVols, priority : Priorities, supplyVol : Supplies,
                    equitability : Equitabilities, forcedMultiEq : BOOLEAN,
                    skipFailures : BOOLEAN, userHeurStart : BOOLEAN]
      BY DEF Init
    <2>2. DemandVols \subseteq Schedules /\ Priorities \subseteq Schedules
      BY DataAssumption DEF Schedules
    <2>3. Supplies \subseteq [Periods -> Nat] /\ Equitabilities \subseteq Nat \ {0}
      BY DataAssumption
    <2> QED
      BY <2>1, <2>2, <2>3 DEF DataType
  <1>3. shipVol \in Schedules
    <2>1. UserStarts \subseteq Schedules
      BY DataAssumption DEF Schedules
    <2>2. shipVol \in UserStarts \/ shipVol = Zeros
      BY DEF Init
    <2> QED
      BY <2>1, <2>2, ZerosType
  <1>4. Feasible(shipVol)
    BY DEF Init, Feasible
  <1>5. sorted \in Seq(Demands)
    <2>1. MappingIndex \in [Demands -> Nat]
      BY DataAssumption
    <2>2. sorted = SortedBy(MappingIndex)
      BY DEF Init
    <2> QED
      BY <2>1, <2>2, SortedFacts
  <1>6. place \in PlaceRec
    <2>1. place = [demPer |-> 0, shipPer |-> 0, idx |-> 1] /\ 0 \in Periods
      BY PeriodFacts DEF Init
    <2> QED
      BY <2>1 DEF PlaceRec
  <1>7. /\ unmet = Zeros /\ active = FALSE /\ eq = Inactive /\ selected = <<>>
        /\ work = NoWork /\ pc = "idle" /\ blocked = {}
    BY DEF Init
  <1>8. Types
    <2>1. selected \in Seq(Targets)
      BY <1>7
    <2> QED
      BY <1>2, <1>3, <1>5, <1>6, <1>7, <2>1, ZerosType, InactiveFacts, NoWorkFacts DEF Types
  <1>9. Progress
    BY <1>7 DEF Progress, Implosion, Rounds, Group, Books, Served, Filled, Shared, Denied
  <1>10. Blocked
    BY <1>7 DEF Blocked
  <1> QED
    BY <1>1, <1>4, <1>8, <1>9, <1>10 DEF AllInv

\* ... through steps that change nothing ...
LEMMA AllInvStutters ==
  ASSUME AllInv, UNCHANGED vars
  PROVE  Types' /\ Feasible(shipVol)' /\ Blocked' /\ Progress'
  <1>1. /\ data' = data /\ shipVol' = shipVol /\ active' = active /\ eq' = eq
        /\ blocked' = blocked
        /\ unmet' = unmet /\ sorted' = sorted /\ place' = place /\ selected' = selected
        /\ work' = work /\ pc' = pc
    BY DEF vars, imploder
  <1>2. Types'
    BY <1>1, DataKept DEF AllInv, Types
  <1>3. Feasible(shipVol)'
    BY SMTT(30), <1>1, DataKept DEF AllInv
  <1>4. Rounds'
    <2>1. Rounds
      BY DEF AllInv, Progress
    <2> QED
      BY <1>1, <2>1 DEF Rounds, Goal, Inc, Prev, Des, NewDesVol, NRounds
  <1>5. Group'
    <2>1. Group
      BY DEF AllInv, Progress
    <2>2. ModPriority(place.demPer)' = ModPriority(place.demPer)
      BY <1>1, DataKept
    <2>3. \A d : PassedOver(d)' = PassedOver(d)
      BY <1>1 DEF PassedOver
    <2>4. ASSUME NEW list, NEW i, InGroup(list, i) PROVE InGroup(list, i)'
      <3>1. PICK e : e = list[i].demand
        OBVIOUS
      <3>2. ~PassedOver(e)'
        BY <2>3, <2>4, <3>1 DEF InGroup
      <3>3. ~PassedOver(list[i].demand)'
        BY <3>1, <3>2 DEF PassedOver
      <3> QED
        BY <1>1, <2>2, <2>4, <3>3 DEF InGroup
    <2>5. ASSUME pc = "scan" PROVE \A i \in DOMAIN selected : InGroup(selected, i)'
      <3>1. ASSUME NEW i \in DOMAIN selected PROVE InGroup(selected, i)'
        <4>1. PICK list : list = selected
          OBVIOUS
        <4>2. InGroup(list, i)'
          BY <2>1, <2>4, <2>5, <4>1 DEF Group
        <4>3. list = selected'
          BY <1>1, <4>1
        <4> QED
          BY <4>2, <4>3
      <3> QED
        BY <3>1
    <2>6. ASSUME pc = "eq", work.imploding
          PROVE  \A i \in DOMAIN work.list : InGroup(work.list, i)'
      <3>1. ASSUME NEW i \in DOMAIN work.list PROVE InGroup(work.list, i)'
        <4>1. PICK list : list = work.list
          OBVIOUS
        <4>2. InGroup(list, i)'
          BY <2>1, <2>4, <2>6, <4>1 DEF Group
        <4>3. list = work'.list
          BY <1>1, <4>1
        <4> QED
          BY <4>2, <4>3
      <3> QED
        BY <3>1
    <2> QED
      BY <1>1, <2>1, <2>5, <2>6 DEF Group, Implosion
  <1>6. Books'
    <2>1. Books
      BY DEF AllInv, Progress
    <2>2. \A d : Open(d)' = Open(d)
      BY <1>1 DEF Open, Got
    <2>3. ASSUME NEW d, Book(Open(d), shipVol, d) PROVE Book(Open(d), shipVol, d)'
      <3>1. PICK f, ship : f = Open(d) /\ ship = shipVol
        OBVIOUS
      <3>2. Book(f, ship, d)'
        BY <1>1, <2>3, <3>1, DataKept
      <3>3. f = Open(d)' /\ ship = shipVol'
        BY <1>1, <2>2, <3>1
      <3> QED
        BY <3>2, <3>3
    <2> QED
      BY <1>1, <2>1, <2>3 DEF Books, Implosion
  <1>7. \A e, u, v : Short(shipVol, blocked, e, u, v)' = Short(shipVol, blocked, e, u, v)
    BY <1>1, DataKept
  <1>8. Served'
    <2>1. Served
      BY SMTT(30) DEF AllInv, Progress
    <2> QED
      BY <1>1, <1>7, <2>1 DEF Served, Implosion, PassedOver, Awaits, Lacks
  <1>9. Filled'
    <2>1. Filled
      BY DEF AllInv, Progress
    <2> QED
      BY SMTT(30), <1>1, <1>7, <2>1 DEF Filled, Gets, Inc, Prev, Des
  <1>10. Shared'
    <2>1. Shared
      BY DEF AllInv, Progress
    <2>2. \A r, j, i : SharedIn(r, j, i)' = SharedIn(r, j, i)
      <3>1. Obtainable(shipVol, place.shipPer)' = Obtainable(shipVol, place.shipPer)
        BY <1>1, DataKept
      <3> QED
        BY <1>1, <3>1 DEF SharedIn, Goal, Inc, Des, NewDesVol
    <2> QED
      BY <1>1, <2>1, <2>2 DEF Shared, Inc, Prev
  <1>11. Denied'
    <2>1. Denied
      BY DEF AllInv, Progress
    <2> QED
      BY <1>1, <1>7, <2>1 DEF Denied, Implosion
  <1>12. Blocked'
    <2>1. Blocked
      BY DEF AllInv
    <2>2. \A u : Obtainable(shipVol, u)' = Obtainable(shipVol, u)
      BY <1>1, DataKept
    <2> QED
      BY <1>1, <2>1, <2>2 DEF Blocked
  <1> QED
    BY <1>2, <1>3, <1>4, <1>5, <1>6, <1>8, <1>9, <1>10, <1>11, <1>12 DEF Progress

\* ... through all other steps ...
LEMMA AllInvStep == AllInv /\ [Next]_vars => AllInv'
  <1> SUFFICES ASSUME AllInv, [Next]_vars PROVE AllInv'
    OBVIOUS
  <1>1. IInv'
    BY RecordsStep, EqInvStep, SortedStep DEF AllInv, IInv, EqInv
  <1>2. Types' /\ Feasible(shipVol)' /\ Blocked' /\ Progress'
    <2>1. CASE ApiCall
      BY <2>1, ImplodeStep, ShortCallsStep, EqHeurAllocStep, BlockedStep DEF ApiCall, Next
    <2>2. CASE ImplosionStep
      BY <2>2, PassOverStep, IncAllocStep, GroupSteps, SelectStep, NextShipPerStep,
         NextDemPerStep, FinishImplosionStep, BlockedStep DEF ImplosionStep, Next
    <2>3. CASE EqStep
      BY <2>3, TargetStep, EndStep, BlockedStep DEF EqStep, Next
    <2>4. CASE UNCHANGED vars
      BY <2>4, AllInvStutters
    <2> QED
      BY <2>1, <2>2, <2>3, <2>4 DEF Next
  <1> QED
    BY <1>1, <1>2 DEF AllInv

\* ... and so always.
LEMMA AlwaysAllInv == Spec => []AllInv
  BY InitAllInv, AllInvStep, PTL DEF Spec

-------------------------------------------------------------------------------
(* What follows. *)

\* The parts of the state keep their types: above all, whatever implosion and
\* the equitable allocator take off what is unmet, it never gets negative.
THEOREM TypesHold == Spec => []TypeOK
  <1>1. AllInv => TypeOK
    <2> SUFFICES ASSUME AllInv PROVE TypeOK
      OBVIOUS
    <2>1. Types /\ work.list \in Seq(Targets) /\ blocked \subseteq Periods
      BY TypeFacts DEF AllInv, Blocked
    <2> QED
      BY <2>1 DEF Types, TypeOK, EqRec, PlaceRec, Targets
  <1> QED
    BY <1>1, AlwaysAllInv, PTL

\* The allocator never asks for a negative volume.
LEMMA AssertionsFollow == AllInv => AssertionsHold
  <1> SUFFICES ASSUME AllInv PROVE AssertionsHold
    OBVIOUS
  <1>1. (eq.active => active) /\ (pc = "eq" => eq.active)
    BY DEF AllInv, IInv, EqIsActive
  <1>2. ASSUME pc = "eq"
        PROVE  /\ work.list # <<>>
               /\ \A i, j \in DOMAIN work.list :
                    i # j => \/ work.list[i].demand # work.list[j].demand
                             \/ work.list[i].per # work.list[j].per
    BY <1>2 DEF AllInv, Progress, Rounds, Distinct
  <1>3. ASSUME pc = "eq", work.pos \in DOMAIN work.list,
               NEW d, d = work.list[work.pos].demand, NEW t, t = work.list[work.pos].per
        PROVE  Offer(NewDesVol(d, eq.desIncVol[d][t], work.itNo), eq, d, t) >= 0
    <2>1. PICK l, n : l = work.list /\ n = work.pos
      OBVIOUS
    <2>2. /\ d \in Demands /\ t \in Periods /\ Des(n) \in Nat /\ Prev(n) \in Nat
          /\ work.multi => Goal(n, work.itNo) \in Nat
          /\ work.multi => Prev(n) <= Goal(n, work.itNo)
      BY <1>3, <2>1, AskedFacts
    <2>3. PICK v, goal, prev : /\ v = Des(n) /\ prev = Prev(n)
                               /\ goal = NewDesVol(d, v, work.itNo)
      BY SMTT(30)
    <2>4. v = eq.desIncVol[d][t] /\ prev = eq.prevDesVol[d][t] /\ Goal(n, work.itNo) = goal
      BY <1>3, <2>1, <2>3 DEF Des, Prev, Goal
    <2>5. goal - prev >= 0
      <3>1. CASE work.multi
        <4>1. goal \in Nat /\ prev \in Nat
          BY <2>2, <2>3, <2>4, <3>1
        <4>2. prev <= goal
          BY <2>2, <2>3, <2>4, <3>1
        <4> QED
          BY <4>1, <4>2
      <3>2. CASE ~work.multi
        <4>1. prev = 0
          BY <2>2, <2>4, <3>2 DEF AllInv, IInv, OnlyTargetsDesiredBefore
        <4>2. goal \in Nat
          <5>1. DataType /\ work.itNo \in Nat
            BY TypeFacts DEF AllInv, Types
          <5>2. d \in Demands /\ v \in Nat
            BY <2>2, <2>3
          <5> QED
            BY <2>3, <5>1, <5>2, NewDesVolFacts
        <4> QED
          BY <4>1, <4>2
      <3> QED
        BY <3>1, <3>2
    <2> QED
      BY <2>3, <2>4, <2>5 DEF Offer
  <1> QED
    BY <1>1, <1>2, <1>3 DEF AssertionsHold

\* The two books of what is unmet.
LEMMA BooksAgree == AllInv => UnmetAgreesWithShipVol
  <1> SUFFICES ASSUME AllInv, pc = "scan", NEW d \in Demands
               PROVE  /\ UpTo(unmet[d], NPeriods - 1) = UnmetCumDem(shipVol, d, NPeriods - 1)
                      /\ ~PassedOver(d) =>
                           unmet[d][place.demPer] <= IncVolUB(shipVol, d, place.shipPer)
    BY DEF UnmetAgreesWithShipVol
  <1>1. PICK f : f = unmet[d]
    OBVIOUS
  <1>2. Book(f, shipVol, d)
    BY <1>1, BooksScan
  <1>3. UpTo(f, NPeriods - 1) = UnmetCumDem(shipVol, d, NPeriods - 1)
    BY <1>2 DEF Book, LastPer
  <1>4. ASSUME ~PassedOver(d)
        PROVE  f[place.demPer] <= IncVolUB(shipVol, d, place.shipPer)
    <2>1. /\ place.demPer \in Periods /\ place.shipPer \in Periods
          /\ place.demPer <= place.shipPer
          /\ d \notin ShipLate => place.demPer = place.shipPer
      BY <1>4, OpenDemand DEF Implosion
    <2>2. DataType /\ shipVol \in Schedules /\ unmet \in Schedules
      BY DEF AllInv, Types
    <2>3. \A u \in Periods : f[u] \in Nat
      BY <1>1, <2>2, ScheduleEntry
    <2> QED
      BY <1>2, <2>1, <2>2, <2>3, UnmetNotCut
  <1> QED
    BY <1>1, <1>3, <1>4

\* No volume that is asked for is negative or cut unexpectedly, and no more is
\* shipped than supply and demand allow, by whatever calls: implosion, the
\* equitable allocator and the calls of an application keep two books of what
\* is unmet and of what has been shipped (HeurImp.C and EqAll.C against
\* HeurAtor.C), and they agree.
THEOREM VolumesAlwaysAddUp == Spec => []VolumesAddUp
  <1>1. AllInv => ShipmentsAreFeasible
    BY DEF AllInv, Feasible, ShipmentsAreFeasible
  <1>2. AllInv => VolumesAddUp
    BY <1>1, AssertionsFollow, BooksAgree DEF VolumesAddUp
  <1> QED
    BY <1>2, AlwaysAllInv, PTL

\* When an allocation is over it has been shared in some round.
LEMMA SharingFollows == AllInv => ShortageIsShared
  <1> SUFFICES ASSUME AllInv, pc = "eq", work.imploding, work.multi,
                      work.pos \notin DOMAIN work.list
               PROVE  \E r \in 1..data.equitability, j \in DOMAIN work.list :
                        \A i \in DOMAIN work.list :
                          LET beyond == IF data.skipFailures
                                          THEN 0 ELSE SearchInc[work.list[j].demand] - 1
                          IN  Goal(i, r - 1) <= Inc(i) /\ Inc(i) <= Goal(i, r) + beyond
    BY DEF ShortageIsShared, Goal, Inc, Des
  <1>1. PICK l, E : l = work.list /\ E = data.equitability
    OBVIOUS
  <1>2. DataType /\ E \in Nat /\ E >= 1 /\ shipVol \in Schedules
    BY <1>1, DataFacts DEF AllInv, Types
  <1>3. \A i \in DOMAIN l :
          /\ l[i].demand \in Demands /\ Des(i) \in Nat /\ Inc(i) \in Nat
          /\ Prev(i) = Des(i)
    BY <1>1, EndFacts
  <1>4. \A j \in DOMAIN l : SearchInc[l[j].demand] \in Nat /\ SearchInc[l[j].demand] >= 1
    BY <1>3, DataAssumption
  <1>5. CASE \A i \in DOMAIN l : Inc(i) = Prev(i)
    <2>1. ASSUME NEW i \in DOMAIN l
          PROVE  /\ Goal(i, E - 1) <= Inc(i) /\ Inc(i) <= Goal(i, E)
                 /\ Inc(i) \in Nat /\ Goal(i, E) \in Nat
      <3>1. PICK e, v, r : e = l[i].demand /\ v = Des(i) /\ r = E - 1
        OBVIOUS
      <3>2. e \in Demands /\ v \in Nat /\ r \in Nat /\ r + 1 = E
        BY <1>2, <1>3, <3>1
      <3>3. NewDesVol(e, v, r) <= v /\ NewDesVol(e, v, E) = v
        BY <1>1, <1>2, <3>2, NewDesVolFacts
      <3>4. Goal(i, E - 1) = NewDesVol(e, v, r) /\ Goal(i, E) = NewDesVol(e, v, E)
        BY <1>1, <3>1 DEF Goal
      <3>5. Inc(i) = v
        BY <1>3, <1>5, <3>1
      <3> QED
        BY <3>2, <3>3, <3>4, <3>5
    <2>2. E \in 1..data.equitability
      BY <1>1, <1>2
    <2>3. PICK j \in DOMAIN l : TRUE
      <3>1. l # <<>> /\ l \in Seq(Targets)
        BY <1>1, EndFacts DEF AllInv, Progress, Rounds
      <3>2. 1 \in DOMAIN l
        BY <3>1
      <3> QED
        BY <3>2
    <2>4. PICK x : x = IF data.skipFailures THEN 0 ELSE SearchInc[l[j].demand] - 1
      OBVIOUS
    <2>5. x \in Nat
      BY <1>4, <2>4
    <2>6. ASSUME NEW i \in DOMAIN l
          PROVE  Goal(i, E - 1) <= Inc(i) /\ Inc(i) <= Goal(i, E) + x
      BY <2>1, <2>5
    <2> QED
      BY <1>1, <2>2, <2>4, <2>6
  <1>6. CASE ~ \A i \in DOMAIN l : Inc(i) = Prev(i)
    <2>1. PICK r \in 1..data.equitability : \E j \in DOMAIN l :
            \A i \in DOMAIN l : SharedIn(r, j, i)
      BY <1>1, <1>6 DEF AllInv, Progress, Shared
    <2>2. PICK j \in DOMAIN l : \A i \in DOMAIN l : SharedIn(r, j, i)
      BY <2>1
    <2>3. PICK x : x = IF data.skipFailures THEN 0 ELSE SearchInc[l[j].demand] - 1
      OBVIOUS
    <2>4. ASSUME NEW i \in DOMAIN l
          PROVE  Goal(i, r - 1) <= Inc(i) /\ Inc(i) <= Goal(i, r) + x
      <3>1. SharedIn(r, j, i)
        BY <2>2
      <3>2. PICK g, k, o : g = Goal(i, r) /\ k = Inc(i) /\ o = Obtainable(shipVol, place.shipPer)
        OBVIOUS
      <3>3. g \in Nat
        <4>1. PICK e, v : e = l[i].demand /\ v = Des(i)
          OBVIOUS
        <4>2. e \in Demands /\ v \in Nat /\ r \in Nat
          BY <1>2, <1>3, <4>1
        <4>3. NewDesVol(e, v, r) \in Nat
          BY <1>2, <4>2, NewDesVolFacts
        <4>4. g = NewDesVol(e, v, r)
          BY <1>1, <3>2, <4>1 DEF Goal
        <4> QED
          BY <4>3, <4>4
      <3>4. k \in Nat /\ o \in Nat
        <4>1. place.shipPer \in Periods
          BY TypeFacts DEF AllInv
        <4> QED
          BY <1>2, <1>3, <3>2, <4>1, ObtainableFacts
      <3>5. Goal(i, r - 1) <= k
        BY <3>1, <3>2 DEF SharedIn
      <3>6. CASE data.skipFailures
        <4>1. k <= g
          BY <3>1, <3>2, <3>6 DEF SharedIn
        <4> QED
          BY <2>3, <3>2, <3>3, <3>4, <3>5, <3>6, <4>1
      <3>7. CASE ~data.skipFailures
        <4>1. o + k <= g + SearchInc[l[j].demand] - 1
          BY <1>1, <3>1, <3>2, <3>7 DEF SharedIn
        <4>2. k <= g + x
          BY <1>4, <2>3, <3>3, <3>4, <3>7, <4>1
        <4> QED
          BY <3>2, <3>5, <4>2
      <3> QED
        BY <3>6, <3>7
    <2> QED
      BY <1>1, <2>3, <2>4
  <1> QED
    BY SMTT(30), <1>5, <1>6

\* Demands of equal priority share a shortage, for any demands, any search
\* increments and any equitability: when the allocation of a group ends there is
\* a round such that each of them has what was desired in the rounds before it
\* and no more than what was desired when it ended (EqAll.C:275), but for what is
\* less than the search increment of one that failed and others could still take.
THEOREM ShortageAlwaysShared == Spec => []ShortageIsShared
  BY SharingFollows, AlwaysAllInv, PTL

\* A demand with a better priority than one that has been scanned, or is being
\* scanned, has been scanned itself.
LEMMA BetterServed ==
  ASSUME AllInv, Implosion, NEW d \in Demands, NEW e \in Demands,
         ModPriority(place.demPer)[e] < ModPriority(place.demPer)[d],
         NEW i \in DOMAIN sorted, i <= place.idx, sorted[i] = d
  PROVE  PassedOver(e) \/ Lacks(e) \/ Awaits(e)
  <1>1. PICK j \in DOMAIN sorted : sorted[j] = e
    BY SortedList
  <1>2. j < i
    BY <1>1, SortedList
  <1>3. i \in Nat /\ j \in Nat /\ place.idx \in Nat
    BY TypeFacts DEF AllInv, Types
  <1>4. j < place.idx
    BY <1>2, <1>3
  <1> QED
    BY <1>1, <1>4 DEF AllInv, Progress, Served

\* What a demand that lacks something can get where the period is not blocked.
LEMMA LacksMeans ==
  ASSUME AllInv, NEW e \in Demands, Lacks(e),
         ~(data.skipFailures /\ place.shipPer \in blocked)
  PROVE  /\ ~data.skipFailures
         /\ MaxQty(shipVol, e, place.shipPer, unmet[e][place.demPer]) = 0
  <1>1. PICK u, n : u = place.shipPer /\ n = unmet[e][place.demPer]
    OBVIOUS
  <1>2. DataType /\ shipVol \in Schedules
    BY DEF AllInv, Types
  <1>3. u \in Periods /\ n \in Nat
    BY <1>1, TypeFacts, ScheduleEntry DEF AllInv, Types
  <1>4. Short(shipVol, blocked, e, u, n)
    BY <1>1 DEF Lacks
  <1>5. ~data.skipFailures
    BY <1>1, <1>4 DEF Short
  <1>6. MaxQty(shipVol, e, u, n) = 0
    BY <1>2, <1>3, <1>4, <1>5, ShortFindsNothing
  <1> QED
    BY <1>1, <1>5, <1>6

\* A demand that is asked for at once gets something only after better ones.
LEMMA PriorityByScan ==
  ASSUME AllInv, IncAlloc, NEW d \in Demands,
         shipVol'[d][place.shipPer] > shipVol[d][place.shipPer], NEW e \in Demands,
         ModPriority(place.demPer)[e] < ModPriority(place.demPer)[d]
  PROVE  \/ PassedOver(e)
         \/ /\ ~data.skipFailures
            /\ MaxQty(shipVol, e, place.shipPer, unmet[e][place.demPer]) = 0
  <1>1. PICK c, s, des, vol : /\ c = sorted[place.idx] /\ s = place.shipPer
                              /\ des = unmet[c][place.demPer]
                              /\ vol = IncVol(shipVol, c, s, des)
    BY SMTT(30)
  <1>2. /\ pc = "scan" /\ data.equitability = 1 /\ place.idx <= Len(sorted)
        /\ ~PassedOver(c) /\ shipVol' = Shipped(shipVol, c, s, vol)
    BY <1>1 DEF IncAlloc, Scanning, Current
  <1>3. /\ DataType /\ shipVol \in Schedules /\ Feasible(shipVol) /\ unmet \in Schedules
        /\ sorted \in Seq(Demands) /\ selected \in Seq(Targets)
    BY DEF AllInv, Types
  <1>4. place.idx \in Nat /\ 1 <= place.idx
    BY <1>2, BooksScan, TypeFacts DEF AllInv
  <1>5. place.idx \in DOMAIN sorted /\ c \in Demands
    BY <1>1, <1>2, <1>3, <1>4
  <1>6. s \in Periods /\ place.demPer \in Periods
    BY <1>1, TypeFacts DEF AllInv
  <1>7. vol \in Nat /\ (data.skipFailures /\ s \in blocked => vol = 0)
    <2>1. des \in Nat
      BY <1>1, <1>3, <1>5, <1>6, ScheduleEntry
    <2>2. PICK b, m : b = Obtainable(shipVol, s) /\ m = DemandedIncVol(shipVol, c, s, des)
      OBVIOUS
    <2>3. vol = IncVol(shipVol, c, s, des)
      BY <1>1
    <2>4. DataType /\ shipVol \in Schedules /\ Feasible(shipVol)
      BY <1>3
    <2>5. c \in Demands /\ s \in Periods
      BY <1>5, <1>6
    <2> QED
      BY <2>1, <2>2, <2>3, <2>4, <2>5, IncVolFacts
  <1>8. d = c /\ ~(data.skipFailures /\ s \in blocked)
    <2>1. shipVol'[d][s] = IF d = c THEN shipVol[d][s] + vol ELSE shipVol[d][s]
      <3>1. PICK new : new = Shipped(shipVol, c, s, vol)
        OBVIOUS
      <3>2. shipVol \in Schedules /\ c \in Demands /\ s \in Periods /\ vol \in Nat
        BY <1>3, <1>5, <1>6, <1>7
      <3>3. new[d][s] = IF d = c THEN shipVol[d][s] + vol ELSE shipVol[d][s]
        BY <3>1, <3>2, ShippedFacts
      <3> QED
        BY <1>2, <3>1, <3>3
    <2>2. PICK a, b : a = shipVol[d][s] /\ b = shipVol'[d][s]
      OBVIOUS
    <2>3. a \in Nat
      BY <1>3, <1>6, <2>2, ScheduleEntry
    <2>4. b > a
      BY <1>1, <2>2
    <2>5. d = c
      BY <2>1, <2>2, <2>3, <2>4
    <2>6. b = a + vol
      BY <2>1, <2>2, <2>5
    <2>7. vol # 0
      BY <2>3, <2>4, <2>6
    <2> QED
      BY <1>7, <2>5, <2>7
  <1>9. ~Awaits(e)
    <2>1. \A i \in DOMAIN selected : data.equitability > 1
      BY <1>2 DEF AllInv, Progress, Group, InGroup
    <2>2. \A i \in DOMAIN selected : FALSE
      BY <1>2, <2>1
    <2> QED
      BY <1>2, <2>2 DEF Awaits
  <1>10. PassedOver(e) \/ Lacks(e) \/ Awaits(e)
    <2>1. place.idx <= place.idx
      BY <1>4
    <2> QED
      BY <1>1, <1>2, <1>5, <1>8, <2>1, BetterServed DEF Implosion
  <1> QED
    BY <1>1, <1>8, <1>9, <1>10, LacksMeans

\* A group gets something only after the demands with a better priority.
LEMMA PriorityByGroup ==
  ASSUME AllInv, AllocTarget, work.imploding, NEW d \in Demands,
         shipVol'[d][place.shipPer] > shipVol[d][place.shipPer], NEW e \in Demands,
         ModPriority(place.demPer)[e] < ModPriority(place.demPer)[d]
  PROVE  \/ PassedOver(e)
         \/ /\ ~data.skipFailures
            /\ MaxQty(shipVol, e, place.shipPer, unmet[e][place.demPer]) = 0
  <1>1. PICK l, n : l = work.list /\ n = work.pos
    OBVIOUS
  <1>2. PICK c, t, asked : c = l[n].demand /\ t = l[n].per /\ asked = Asked
    OBVIOUS
  <1>3. PICK vol, s, pri : /\ vol = IncVol(shipVol, c, t, asked) /\ s = place.shipPer
                           /\ pri = ModPriority(place.demPer)
    OBVIOUS
  <1>4. /\ pc = "eq" /\ n \in DOMAIN l /\ c \in Demands /\ t \in Periods /\ vol \in Nat
        /\ shipVol' = Shipped(shipVol, c, t, vol)
        /\ data.skipFailures /\ t \in blocked => vol = 0
    BY <1>1, <1>2, <1>3, TargetFacts
  <1>5. ASSUME NEW i \in DOMAIN l
        PROVE  /\ l[i].per = s
               /\ \E j \in DOMAIN sorted : j < place.idx /\ sorted[j] = l[i].demand
               /\ \A k \in DOMAIN l : pri[l[k].demand] = pri[l[i].demand]
    <2>1. InGroup(l, i)
      BY <1>1, <1>4 DEF AllInv, Progress, Group
    <2> QED
      BY <1>3, <2>1 DEF InGroup
  <1>6. t = s
    BY <1>2, <1>4, <1>5
  <1>7. d = c /\ ~(data.skipFailures /\ s \in blocked)
    <2>1. shipVol \in Schedules
      BY DEF AllInv, Types
    <2>2. shipVol'[d][s] = IF d = c THEN shipVol[d][s] + vol ELSE shipVol[d][s]
      BY <1>4, <1>6, <2>1, ShippedFacts
    <2>3. shipVol[d][s] \in Nat
      BY <1>4, <1>6, <2>1, ScheduleEntry
    <2> QED
      BY <1>3, <1>4, <1>6, <2>2, <2>3
  <1>8. PICK j \in DOMAIN sorted : j < place.idx /\ sorted[j] = d
    BY <1>2, <1>4, <1>5, <1>7
  <1>9. PassedOver(e) \/ Lacks(e) \/ Awaits(e)
    <2>1. j <= place.idx
      BY <1>8, TypeFacts DEF AllInv, Types
    <2> QED
      BY <1>4, <1>8, <2>1, BetterServed DEF Implosion
  <1>10. ~Awaits(e)
    <2>1. SUFFICES ASSUME NEW k \in DOMAIN l, l[k].demand = e PROVE FALSE
      BY <1>1, <1>4 DEF Awaits
    <2>2. pri[e] = pri[d]
      BY <1>2, <1>4, <1>5, <1>7, <2>1
    <2>3. pri[e] < pri[d] /\ pri \in [Demands -> Nat]
      <3>1. DataType /\ place.demPer \in Periods
        BY TypeFacts DEF AllInv, Types
      <3> QED
        BY <1>3, <3>1, ModPriorityType
    <2>4. pri[e] \in Nat /\ pri[d] \in Nat
      BY <2>3
    <2> QED
      BY <2>2, <2>3, <2>4
  <1> QED
    BY <1>3, <1>7, <1>9, <1>10, LacksMeans

\* What can change shipments while implosion is going on.
LEMMA ShipmentSteps ==
  ASSUME AllInv, [Next]_vars, Implosion
  PROVE  shipVol' = shipVol \/ IncAlloc \/ (AllocTarget /\ work.imploding)
  <1>1. pc # "idle"
    BY DEF Implosion
  <1>2. ApiCall => pc = "idle"
    BY DEF ApiCall, Implode, witStartHeurAlloc, EndHeurAlloc, witIncHeurAlloc,
       witEqHeurAlloc, Called
  <1>3. ImplosionStep => IncAlloc \/ shipVol' = shipVol
    BY DEF ImplosionStep, PassOver, AllocGroup, SelectForEqAlloc, AllocLastGroup,
       NextShipPer, NextDemPer, FinishImplosion
  <1>4. EqStep => shipVol' = shipVol \/ (AllocTarget /\ work.imploding)
    BY DEF EqStep, EndEqAlloc, AllocTarget, Implosion
  <1>5. UNCHANGED vars => shipVol' = shipVol
    BY DEF vars
  <1> QED
    BY <1>1, <1>2, <1>3, <1>4, <1>5 DEF Next

\* While demand of a period is met from the supply of a period, a demand gets
\* something only if all demands with a better priority have all they may get, or
\* less than their search increment is left, with and without equitable
\* allocation (HeurImp.C, allocSortedDemands).
THEOREM PriorityAlwaysRespected == Spec => PriorityIsRespected
  <1>1. ASSUME AllInv, [Next]_vars, NEW d \in Demands,
               pc = "scan" \/ (pc = "eq" /\ work.imploding),
               shipVol'[d][place.shipPer] > shipVol[d][place.shipPer], NEW e \in Demands,
               ModPriority(place.demPer)[e] < ModPriority(place.demPer)[d]
        PROVE  \/ PassedOver(e)
               \/ /\ ~data.skipFailures
                  /\ MaxQty(shipVol, e, place.shipPer, unmet[e][place.demPer]) = 0
    <2>1. shipVol' # shipVol
      <3>1. place.shipPer \in Periods /\ shipVol \in Schedules
        BY <1>1, TypeFacts DEF AllInv, Types
      <3>2. shipVol[d][place.shipPer] \in Nat
        BY <1>1, <3>1, ScheduleEntry
      <3> QED
        BY <1>1, <3>2
    <2>2. IncAlloc \/ (AllocTarget /\ work.imploding)
      BY <1>1, <2>1, ShipmentSteps DEF Implosion
    <2> QED
      BY <1>1, <2>2, PriorityByScan, PriorityByGroup
  <1>2. AllInv /\ [Next]_vars =>
          [\A d \in Demands :
             /\ pc = "scan" \/ (pc = "eq" /\ work.imploding)
             /\ shipVol'[d][place.shipPer] > shipVol[d][place.shipPer]
             => \A e \in Demands :
                  ModPriority(place.demPer)[e] < ModPriority(place.demPer)[d]
                    => \/ PassedOver(e)
                       \/ /\ ~data.skipFailures
                          /\ MaxQty(shipVol, e, place.shipPer,
                                    unmet[e][place.demPer]) = 0]_vars
    BY <1>1
  <1> QED
    BY <1>2, AlwaysAllInv, PTL DEF Spec, PriorityIsRespected

\* What is unmet when implosion is over could not be shipped.
LEMMA NothingDenied ==
  ASSUME AllInv, FinishImplosion, NEW d \in Demands, NEW t \in Periods, unmet[d][t] > 0,
         NEW u \in t..(NPeriods - 1)
  PROVE  \/ MaxQty(shipVol, d, u, unmet[d][t]) = 0
         \/ /\ data.skipFailures
            /\ \E e \in Demands : Obtainable(shipVol, u) < SearchInc[e]
         \/ d \notin ShipLate /\ u > t
         \/ u - t > ShipLateUB[d][t]
  <1>1. /\ PeriodDone /\ pc = "scan" /\ place.shipPer = LastPer /\ place.demPer = LastPer
    BY DEF FinishImplosion, PeriodDone, LastPer
  <1>2. /\ t \in Int /\ 0 <= t /\ t <= LastPer /\ LastPer \in Int
    BY PeriodFacts
  <1>3. u \in Periods /\ u \in Int /\ t <= u /\ u <= LastPer
    <2>1. u \in Int /\ t <= u /\ u <= LastPer
      BY <1>2 DEF LastPer
    <2> QED
      BY <1>2, <2>1, PeriodFacts
  <1>4. \/ Short(shipVol, blocked, d, u, unmet[d][t])
        \/ d \notin ShipLate /\ u > t
        \/ u - t > ShipLateUB[d][t]
    <2>1. CASE t < LastPer \/ u < LastPer
      <3>1. t < place.demPer \/ (t = place.demPer /\ u < place.shipPer)
        BY <1>1, <1>2, <1>3, <2>1
      <3> QED
        BY <1>1, <1>3, <3>1 DEF AllInv, Progress, Denied, Implosion
    <2>2. CASE ~(t < LastPer \/ u < LastPer)
      <3>1. t = place.demPer /\ u = place.shipPer
        BY <1>1, <1>2, <1>3, <2>2
      <3> QED
        BY <1>1, <3>1, DeniedNow DEF Lacks
    <2> QED
      BY <2>1, <2>2
  <1>5. ASSUME Short(shipVol, blocked, d, u, unmet[d][t])
        PROVE  \/ MaxQty(shipVol, d, u, unmet[d][t]) = 0
               \/ /\ data.skipFailures
                  /\ \E e \in Demands : Obtainable(shipVol, u) < SearchInc[e]
    <2>1. CASE data.skipFailures
      <3>1. u \in blocked
        BY <1>5, <2>1 DEF Short
      <3> QED
        BY <2>1, <3>1 DEF AllInv, Blocked
    <2>2. CASE ~data.skipFailures
      <3>1. PICK n : n = unmet[d][t]
        OBVIOUS
      <3>2. DataType /\ shipVol \in Schedules /\ unmet \in Schedules
        BY DEF AllInv, Types
      <3>3. n \in Nat
        BY <3>1, <3>2, ScheduleEntry
      <3>4. MaxQty(shipVol, d, u, n) = 0
        BY <1>3, <1>5, <2>2, <3>1, <3>2, <3>3, ShortFindsNothing
      <3> QED
        BY <3>1, <3>4
    <2> QED
      BY <2>1, <2>2
  <1> QED
    BY <1>4, <1>5

\* What implosion leaves unmet could not be shipped in any period in which it
\* may be: less is left over by then than the search increment of the demand, or,
\* if failures are skipped, than that of the demand that blocked the period.
THEOREM NothingIsEverDenied == Spec => NothingIsDenied
  <1>1. AllInv /\ [Next]_vars =>
          [FinishImplosion =>
             \A d \in Demands, t \in Periods :
               unmet[d][t] > 0 =>
                 \A u \in t..(NPeriods - 1) :
                   \/ d \notin ShipLate /\ u > t
                   \/ u - t > ShipLateUB[d][t]
                   \/ MaxQty(shipVol, d, u, unmet[d][t]) = 0
                   \/ /\ data.skipFailures
                      /\ \E e \in Demands :
                            Obtainable(shipVol, u) < SearchInc[e]]_vars
    BY NothingDenied
  <1> QED
    BY <1>1, AlwaysAllInv, PTL DEF Spec, NothingIsDenied

\* Between two allocations nothing is left of what was desired in the rounds of
\* an earlier one, for any lists of targets, any equitability and any ending:
\* eqAllocMulti resets what it has set, although the loop that does so goes on
\* with an iterator that has reached the end of its list.
THEOREM NothingRemembered == Spec => []NothingDesiredBefore
  <1>1. IInv => NothingDesiredBefore
    BY ZeroIsZeros DEF IInv, EqHasItsParts, OnlyTargetsDesiredBefore,
       NothingDesiredBefore
  <1> QED
    BY Invariance, <1>1, PTL

\* The demands are in the order of the priorities of the present period
\* although they are not sorted in every period.
THEOREM SortedWhileScanning ==
  Spec => [](pc = "scan" => sorted = SortedBy(ModPriority(place.demPer)))
  <1>1. IInv => (pc = "scan" => sorted = SortedBy(ModPriority(place.demPer)))
    BY DEF IInv, SortedForPeriod
  <1> QED
    BY Invariance, <1>1, PTL
=============================================================================
