-------------------------------- MODULE MCHeur --------------------------------
(***************************************************************************)
(* Abbreviations for the data of the instances of HeurAlloc that TLC       *)
(* checks.                                                                 *)
(***************************************************************************)
EXTENDS HeurAllocProps

\* A vector over the periods, from its elements; the last one is repeated.
Vec(s) == [t \in Periods |-> IF t < Len(s) THEN s[t + 1] ELSE s[Len(s)]]

Zeros   == Vec(<<0>>)
SamePer == [t \in Periods |-> t]              \* no lead time
Within(lo, hi) == [t \in Periods |-> IF lo <= t /\ t <= hi THEN t ELSE -1]

NoLots == [min |-> 0, inc |-> 0, thresh2 |-> -1, min2 |-> 0, inc2 |-> 0]

NoBuildAhead == [d \in Demands |-> Zeros]
NoStockSLB   == [m \in Materials |-> Zeros]
NoExecUB     == [o \in Operations |-> -1]
NoLotSizes   == [o \in Operations |-> NoLots]
AllPeriodsFrom == [b \in BomEntries |-> 0]
AllPeriodsTo   == [b \in BomEntries |-> NPeriods - 1]
=============================================================================
