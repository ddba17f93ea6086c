----------------------------- MODULE HeurImplode -----------------------------
(***************************************************************************)
(* Heuristic implosion (class WitHeurImpPerf, HeurImp.C), equitable        *)
(* allocation (class WitEqAllocator, EqAll.C) and the API functions that   *)
(* an application uses instead to allocate by itself (demApi.C).           *)
(*                                                                         *)
(* Implosion goes through the periods of demand, for each of them through  *)
(* the periods in which it may be shipped, and for each of these through   *)
(* the demands by priority.  What is still unmet it asks for: at once, or, *)
(* when equitability is above 1, for all demands of equal priority         *)
(* together, which the equitable allocator serves in rounds of one share   *)
(* of each.                                                                *)
(*                                                                         *)
(* A call of incHeurAlloc is one step.  HeurAlloc has what it does in an   *)
(* arbitrary network; here all demands are for one material that is        *)
(* purchased and can be stocked, so that a commit succeeds if it takes no  *)
(* more than no earlier promise needs, and what the call gets is what the  *)
(* search with the search increment of the demand finds.  Volumes are      *)
(* whole numbers and tolerances 0.                                         *)
(***************************************************************************)
EXTENDS Integers, Sequences, FiniteSetsExt, Functions, SequencesExt

CONSTANTS
  NPeriods,
  Demands,
  MappingIndex,    \* the position of a demand in the list of all demands
  ShipLate,        \* the demands with shipLateAllowed
  ShipLateUB,      \* ShipLateUB[d][t], attribute
  SearchInc,       \* SearchInc[d], attribute
  Equitabilities,  \* values of the global attribute "equitability"
  DemandVols,      \* the demand volumes to consider
  Priorities,      \* the priorities to consider
  Supplies,        \* the supply volumes of the material to consider
  UserStarts,      \* starting shipment volumes to consider
  Lists,           \* the lists that the application calls witEqHeurAlloc with
  MaxCalls         \* bound: the API calls that start or use an allocation

Periods == 0..(NPeriods - 1)

\* A list of witEqHeurAlloc has no duplicate target: the call is refused
\* otherwise, and the run is not used any more (see ApiMgr).
ASSUME PeriodsAssumption == NPeriods \in Nat \ {0}
ASSUME DataAssumption ==
  /\ IsFiniteSet(Demands)
  /\ MappingIndex \in [Demands -> Nat] /\ IsInjective(MappingIndex)
  /\ SearchInc \in [Demands -> Nat \ {0}]
  /\ ShipLateUB \in [Demands -> [Periods -> Nat]]
  /\ Equitabilities \subseteq Nat \ {0}
  /\ DemandVols \cup Priorities \cup UserStarts
       \subseteq [Demands -> [Periods -> Nat]]
  /\ Supplies \subseteq [Periods -> Nat]
  /\ Lists \subseteq Seq([demand : Demands, per : Periods, vol : Nat])
  /\ \A list \in Lists :
        /\ list # <<>>
        /\ \A i, j \in DOMAIN list :
              list[i].demand = list[j].demand /\ list[i].per = list[j].per
                => i = j

VARIABLES
  data,      \* the attributes: demandVol, priority, supplyVol, equitability,
             \* forcedMultiEq, skipFailures and userHeurStart
  shipVol,   \* shipVol[d][t], attribute and result
  active,    \* heuristic allocation is active
  blocked,   \* blocked_ of the material: the periods in which a demand did
             \* not get all it asked for
  eq,        \* the equitable allocator
  unmet,     \* unmetDemandVol_[d][t]
  sorted,    \* sortedDemVec_
  place,     \* where implosion is: demPer, shipPer and the place in sorted
  selected,  \* selDemPers_, the latest pushed first
  work,      \* the allocation of the equitable allocator in progress
  pc,        \* "idle", "scan" (implosion), "eq" (equitable allocation)
  calls      \* number of API calls so far

imploder == <<unmet, sorted, place, selected>>
vars == <<data, shipVol, active, blocked, eq, imploder, work, pc, calls>>

-------------------------------------------------------------------------------
Zeros == [d \in Demands |-> [t \in Periods |-> 0]]

UpTo(f, t) == SumFunctionOnSet(f, 0..t)

\* Cumulative demand that the shipments up to a period leave unmet, and
\* cumulative supply that they leave over.
UnmetCumDem(ship, d, t) == UpTo(data.demandVol[d], t) - UpTo(ship[d], t)
LeftOver(ship, t) ==
  UpTo(data.supplyVol, t) - SumFunction([d \in Demands |-> UpTo(ship[d], t)])

\* compDemandedIncVol, without the desired volume
IncVolUB(ship, d, t) ==
  IF d \in ShipLate
    THEN Min({UnmetCumDem(ship, d, u) : u \in t..(NPeriods - 1)})
    ELSE data.demandVol[d][t] - ship[d][t]

\* The most that a commit can take of a purchased material.
Obtainable(ship, t) ==
  Max({0, Min({LeftOver(ship, u) : u \in t..(NPeriods - 1)})})

\* findMaxQty: all that is desired, or the largest multiple of the search
\* increment that can be obtained, which is none if one increment cannot.
MaxQty(ship, d, t, desQty) ==
  IF desQty <= Obtainable(ship, t)
    THEN desQty
    ELSE SearchInc[d] * (Obtainable(ship, t) \div SearchInc[d])

DemandedIncVol(ship, d, t, desIncVol) ==
  Max({0, Min({desIncVol, IncVolUB(ship, d, t)})})

\* The volume that incHeurAlloc allocates ...
IncVol(ship, d, t, desIncVol) ==
  IF data.skipFailures /\ t \in blocked
    THEN 0
    ELSE MaxQty(ship, d, t, DemandedIncVol(ship, d, t, desIncVol))

\* ... and the periods that are blocked when it has.
BlockedAfter(ship, d, t, desIncVol) ==
  IF /\ data.skipFailures
     /\ IncVol(ship, d, t, desIncVol) < DemandedIncVol(ship, d, t, desIncVol)
    THEN blocked \cup {t}
    ELSE blocked

Shipped(ship, d, t, vol) == [ship EXCEPT ![d][t] = @ + vol]

-------------------------------------------------------------------------------
\* Priorities.

MaxPri == Max({1} \cup UNION {Range(data.priority[d]) : d \in Demands})

\* modPriority_: a priority of 0 is the worst one.
ModPriority(t) ==
  [d \in Demands |-> IF data.priority[d][t] > 0 THEN data.priority[d][t] - 1
                                                ELSE MaxPri]

\* comparePriorities
Precedes(pri, d, e) ==
  \/ pri[d] < pri[e]
  \/ pri[d] = pri[e] /\ MappingIndex[d] < MappingIndex[e]

\* What the sort of sortedDemVec_ makes of all demands.
SortedBy(pri) ==
  CHOOSE s \in [1..Cardinality(Demands) -> Demands] :
    \A i, j \in 1..Cardinality(Demands) : i < j => Precedes(pri, s[i], s[j])

PrioritiesAreDifferent(t) == t = 0 \/ ModPriority(t) # ModPriority(t - 1)

SortedFor(t) ==
  IF PrioritiesAreDifferent(t) THEN SortedBy(ModPriority(t)) ELSE sorted

-------------------------------------------------------------------------------
\* Starting and ending an allocation.

Inactive == [active |-> FALSE, desIncVol |-> Zeros, incVol |-> Zeros,
             prevDesVol |-> Zeros]

\* WitEqAllocator::activate
Activated(e) == IF e.active THEN e ELSE [Inactive EXCEPT !.active = TRUE]

NoWork == [list |-> <<>>, multi |-> FALSE, itNo |-> 1, pos |-> 1,
           imploding |-> FALSE]

\* WitHeurAllMgr::start: the solution of an active allocation is reset first,
\* and shipments start from 0 unless the user has given a start.
StartShipVol == IF data.userHeurStart THEN shipVol ELSE Zeros

\* Mutant: shipments net the demand of their own period only.
NettedByPeriod(d) ==
  [t \in Periods |-> data.demandVol[d][t] - shipVol[d][t]]

\* allocShipVols for one demand: what is shipped by then nets the demand of a
\* period, the latest period first.  carried[t] is what is left for earlier
\* demand when period t has been netted.
Netted(d) ==
  LET carried[t \in Periods \cup {NPeriods}] ==
        IF t = NPeriods THEN 0
        ELSE Max({0, carried[t + 1] + shipVol[d][t] - data.demandVol[d][t]})
  IN  [t \in Periods |->
         Max({0, data.demandVol[d][t] - shipVol[d][t] - carried[t + 1]})]

\* Mutant: shipments are netted even if implosion does not start from them.
UnmetAlwaysNetted == [d \in Demands |-> Netted(d)]

\* init, which sees the shipments as they are before the start.
InitialUnmet ==
  IF data.userHeurStart THEN [d \in Demands |-> Netted(d)] ELSE data.demandVol

Init ==
  /\ data \in [demandVol : DemandVols, priority : Priorities,
               supplyVol : Supplies, equitability : Equitabilities,
               forcedMultiEq : BOOLEAN, skipFailures : BOOLEAN,
               userHeurStart : BOOLEAN]
  /\ shipVol \in IF data.userHeurStart THEN UserStarts ELSE {Zeros}
  \* The feasibility that a user-specified start is checked for.
  /\ \A t \in Periods : LeftOver(shipVol, t) >= 0
  /\ \A d \in Demands, t \in Periods : IncVolUB(shipVol, d, t) >= 0
  /\ active = FALSE /\ blocked = {} /\ eq = Inactive
  /\ unmet = Zeros /\ sorted = SortedBy(MappingIndex)
  /\ place = [demPer |-> 0, shipPer |-> 0, idx |-> 1]
  /\ selected = <<>> /\ work = NoWork
  /\ pc = "idle" /\ calls = 0

Called == pc = "idle" /\ calls < MaxCalls /\ calls' = calls + 1

\* WitHeurImpPerf::implode, up to the first period of mainLoop.
Implode ==
  /\ Called
  /\ unmet' = InitialUnmet
  /\ shipVol' = StartShipVol
  /\ active' = TRUE /\ blocked' = {}
  /\ eq' = Activated(Inactive)
  /\ sorted' = SortedFor(0)
  /\ place' = [demPer |-> 0, shipPer |-> 0, idx |-> 1]
  /\ pc' = "scan"
  /\ UNCHANGED <<data, selected, work>>

witStartHeurAlloc ==
  /\ Called
  /\ shipVol' = StartShipVol
  /\ active' = TRUE /\ blocked' = {}
  /\ eq' = Inactive
  /\ UNCHANGED <<data, imploder, work, pc>>

\* witFinishHeurAlloc and witShutDownHeurAlloc, as far as they matter here.
EndHeurAlloc ==
  /\ pc = "idle" /\ active
  /\ active' = FALSE /\ blocked' = {}
  /\ eq' = Inactive
  /\ UNCHANGED <<data, shipVol, imploder, work, pc, calls>>

witIncHeurAlloc ==
  /\ active /\ Called
  /\ \E list \in Lists :
       LET x == list[1]
       IN  /\ shipVol' = Shipped(shipVol, x.demand, x.per,
                                 IncVol(shipVol, x.demand, x.per, x.vol))
           /\ blocked' = BlockedAfter(shipVol, x.demand, x.per, x.vol)
  /\ UNCHANGED <<data, active, eq, imploder, work, pc>>

-------------------------------------------------------------------------------
\* Equitable allocation.

Desired(e, i, list) == e.desIncVol[list[i].demand][list[i].per]

MultiSigDDs(e, list) ==
  Cardinality({i \in DOMAIN list : Desired(e, i, list) > 0}) > 1

\* eqAlloc: several significant targets are allocated in rounds, and a single
\* one if the user wants it.
BeginEqAlloc(e, list, imploding) ==
  LET multi == data.forcedMultiEq \/ MultiSigDDs(e, list)
  IN  /\ work' = [list |-> list, multi |-> multi, itNo |-> 1, pos |-> 1,
                  imploding |-> imploding]
      /\ eq' = IF multi
               THEN [e EXCEPT !.incVol =
                       [d \in Demands |-> [t \in Periods |->
                          IF \E i \in DOMAIN list : list[i].demand = d
                                                    /\ list[i].per = t
                          THEN 0 ELSE @[d][t]]]]
               ELSE e
      /\ pc' = "eq"

CeilDiv(a, b) == (a + b - 1) \div b

\* Mutant: the last share falls short of the whole.
ShareRoundedDown(d, total, itNo) ==
  ((itNo * total) \div (data.equitability * SearchInc[d])) * SearchInc[d]

\* The volume desired of a target when a round is over: that fraction of the
\* whole, in multiples of the search increment.
NewDesVol(d, total, itNo) ==
  Min({total,
       CeilDiv(itNo * total, data.equitability * SearchInc[d]) * SearchInc[d]})

NRounds == IF work.multi THEN data.equitability ELSE 1

\* Mutant: the round is not counted.
NextTargetAgain ==
  IF work.pos < Len(work.list) \/ work.itNo = NRounds
    THEN [work EXCEPT !.pos = @ + 1]
    ELSE [work EXCEPT !.pos = 1]

\* Mutant: the rounds of a target are done before the next target's.
NextTargetLast ==
  IF work.itNo < NRounds
    THEN [work EXCEPT !.itNo = @ + 1]
    ELSE [work EXCEPT !.itNo = 1, !.pos = @ + 1]

\* The target after the present one, in this round or in the next.
NextTarget ==
  IF work.pos < Len(work.list) \/ work.itNo = NRounds
    THEN [work EXCEPT !.pos = @ + 1]
    ELSE [work EXCEPT !.pos = 1, !.itNo = @ + 1]

Offer(newDesVol, e, d, t) == newDesVol - e.prevDesVol[d][t]

\* The present target is allocated (in the present round).
AllocTarget ==
  /\ pc = "eq" /\ work.pos \in DOMAIN work.list
  /\ LET x     == work.list[work.pos]
         d     == x.demand
         t     == x.per
         total == eq.desIncVol[d][t]
         goal  == NewDesVol(d, total, work.itNo)
         asked == IF work.multi THEN Offer(goal, eq, d, t) ELSE total
         vol   == IncVol(shipVol, d, t, asked)
     IN  /\ shipVol' = Shipped(shipVol, d, t, vol)
         /\ blocked' = BlockedAfter(shipVol, d, t, asked)
         /\ eq' = IF work.multi
                  THEN [eq EXCEPT !.incVol[d][t] = @ + vol,
                                  !.prevDesVol[d][t] = goal]
                  ELSE [eq EXCEPT !.incVol[d][t] = vol]
  /\ work' = NextTarget
  /\ UNCHANGED <<data, active, imploder, pc, calls>>

\* Mutant: what was desired in earlier rounds is kept.
PrevKept(e, list) == e

\* The end of eqAllocMulti; the iterator starts again after its end.
PrevReset(e, list) ==
  [e EXCEPT !.prevDesVol =
     [d \in Demands |-> [t \in Periods |->
        IF \E i \in DOMAIN list : list[i].demand = d /\ list[i].per = t
        THEN 0 ELSE @[d][t]]]]

\* WitHeurImpPerf::eqAlloc: what has been allocated is no longer unmet.
Met(e, list) ==
  [d \in Demands |->
     [unmet[d] EXCEPT ![place.demPer] =
        @ - SumFunctionOnSet([i \in DOMAIN list |-> e.incVol[d][list[i].per]],
                             {i \in DOMAIN list : list[i].demand = d})]]

EndEqAlloc ==
  /\ pc = "eq" /\ work.pos \notin DOMAIN work.list
  /\ eq' = IF work.multi THEN PrevReset(eq, work.list) ELSE eq
  /\ IF work.imploding
     THEN /\ unmet' = Met(eq, work.list)
          /\ selected' = <<>>
          /\ pc' = "scan"
     ELSE /\ pc' = "idle"
          /\ UNCHANGED <<unmet, selected>>
  /\ work' = NoWork
  /\ UNCHANGED <<data, shipVol, active, blocked, sorted, place, calls>>

\* witEqHeurAlloc: the desired volumes are set, then allocated.
WithDesired(e, list) ==
  [e EXCEPT !.desIncVol =
     [d \in Demands |-> [t \in Periods |->
        LET at == {i \in DOMAIN list : list[i].demand = d /\ list[i].per = t}
        IN  IF at = {} THEN @[d][t] ELSE list[CHOOSE i \in at : TRUE].vol]]]

witEqHeurAlloc ==
  /\ active /\ Called
  /\ \E list \in Lists :
       BeginEqAlloc(WithDesired(Activated(eq), list), list, FALSE)
  /\ UNCHANGED <<data, shipVol, active, blocked, imploder>>

-------------------------------------------------------------------------------
\* mainLoop and allocSortedDemands.

Scanning == pc = "scan" /\ place.idx <= Len(sorted)
Current  == sorted[place.idx]

PassedOver(d) ==
  \/ unmet[d][place.demPer] = 0
  \/ d \notin ShipLate /\ place.shipPer > place.demPer
  \/ place.shipPer - place.demPer > ShipLateUB[d][place.demPer]

NextDemand == place' = [place EXCEPT !.idx = @ + 1]

PassOver ==
  /\ Scanning /\ PassedOver(Current)
  /\ NextDemand
  /\ UNCHANGED <<data, shipVol, active, blocked, eq, unmet, sorted, selected,
                 work, pc, calls>>

\* WitHeurImpPerf::incAlloc
IncAlloc ==
  /\ Scanning /\ ~PassedOver(Current)
  /\ data.equitability = 1
  /\ LET d   == Current
         vol == IncVol(shipVol, d, place.shipPer, unmet[d][place.demPer])
     IN  /\ shipVol' = Shipped(shipVol, d, place.shipPer, vol)
         /\ blocked' = BlockedAfter(shipVol, d, place.shipPer,
                                    unmet[d][place.demPer])
         /\ unmet' = [unmet EXCEPT ![d][place.demPer] = @ - vol]
  /\ NextDemand
  /\ UNCHANGED <<data, active, eq, sorted, selected, work, pc, calls>>

\* Mutant: all selected demands are one group.
OneGroup(d) == FALSE

StartsNewGroup(d) ==
  /\ selected # <<>>
  /\ ModPriority(place.demPer)[d]
       # ModPriority(place.demPer)[selected[1].demand]

\* selectForEqAlloc: the group that was selected is allocated before a demand
\* of another priority is selected ...
AllocGroup ==
  /\ Scanning /\ ~PassedOver(Current)
  /\ data.equitability > 1 /\ StartsNewGroup(Current)
  /\ BeginEqAlloc(eq, Reverse(selected), TRUE)
  /\ UNCHANGED <<data, shipVol, active, blocked, imploder, calls>>

\* ... and else the demand joins it.
SelectForEqAlloc ==
  /\ Scanning /\ ~PassedOver(Current)
  /\ data.equitability > 1 /\ ~StartsNewGroup(Current)
  /\ LET x == [demand |-> Current, per |-> place.shipPer,
               vol |-> unmet[Current][place.demPer]]
     IN  /\ selected' = <<x>> \o selected
         /\ eq' = WithDesired(eq, <<x>>)
  /\ NextDemand
  /\ UNCHANGED <<data, shipVol, active, blocked, unmet, sorted, work, pc,
                 calls>>

AllocLastGroup ==
  /\ pc = "scan" /\ place.idx > Len(sorted) /\ selected # <<>>
  /\ BeginEqAlloc(eq, Reverse(selected), TRUE)
  /\ UNCHANGED <<data, shipVol, active, blocked, imploder, calls>>

PeriodDone == pc = "scan" /\ place.idx > Len(sorted) /\ selected = <<>>

NextShipPer ==
  /\ PeriodDone /\ place.shipPer < NPeriods - 1
  /\ place' = [place EXCEPT !.shipPer = @ + 1, !.idx = 1]
  /\ UNCHANGED <<data, shipVol, active, blocked, eq, unmet, sorted, selected,
                 work, pc, calls>>

NextDemPer ==
  /\ PeriodDone /\ place.shipPer = NPeriods - 1
  /\ place.demPer < NPeriods - 1
  /\ LET t == place.demPer + 1
     IN  /\ sorted' = SortedFor(t)
         /\ place' = [demPer |-> t, shipPer |-> t, idx |-> 1]
  /\ UNCHANGED <<data, shipVol, active, blocked, eq, unmet, selected, work, pc,
                 calls>>

FinishImplosion ==
  /\ PeriodDone /\ place.shipPer = NPeriods - 1
  /\ place.demPer = NPeriods - 1
  /\ active' = FALSE /\ blocked' = {} /\ eq' = Inactive
  /\ pc' = "idle"
  /\ UNCHANGED <<data, shipVol, imploder, work, calls>>

ImplosionStep ==
  \/ PassOver \/ IncAlloc \/ AllocGroup \/ SelectForEqAlloc \/ AllocLastGroup
  \/ NextShipPer \/ NextDemPer \/ FinishImplosion

EqStep == AllocTarget \/ EndEqAlloc

ApiCall ==
  \/ Implode \/ witStartHeurAlloc \/ EndHeurAlloc
  \/ witIncHeurAlloc \/ witEqHeurAlloc

Next == ApiCall \/ ImplosionStep \/ EqStep

\* A call that has begun goes on: it runs in one thread and waits for nothing.
Spec == Init /\ [][Next]_vars /\ WF_vars(ImplosionStep \/ EqStep)

-------------------------------------------------------------------------------
\* Properties.

Schedules == [Demands -> [Periods -> Nat]]

TypeOK ==
  /\ shipVol \in Schedules /\ unmet \in Schedules
  /\ active \in BOOLEAN
  /\ blocked \subseteq Periods
  /\ eq \in [active : BOOLEAN, desIncVol : Schedules, incVol : Schedules,
             prevDesVol : Schedules]
  /\ sorted \in Seq(Demands)
  /\ place \in [demPer : Periods, shipPer : Periods, idx : Nat]
  /\ selected \in Seq([demand : Demands, per : Periods, vol : Nat])
  /\ work.list \in Seq([demand : Demands, per : Periods, vol : Nat])
  /\ pc \in {"idle", "scan", "eq"}

\* The assertions of the equitable allocator hold: it works only while
\* heuristic allocation is active, on a list that is not empty and has no
\* target twice, and never asks for a negative volume (HeurAtor.C:190).
AssertionsHold ==
  /\ eq.active => active
  /\ pc = "eq" =>
       /\ eq.active
       /\ work.list # <<>>
       /\ \A i, j \in DOMAIN work.list :
            i # j => \/ work.list[i].demand # work.list[j].demand
                     \/ work.list[i].per # work.list[j].per
       /\ work.pos \in DOMAIN work.list =>
            LET x     == work.list[work.pos]
                total == eq.desIncVol[x.demand][x.per]
            IN  Offer(NewDesVol(x.demand, total, work.itNo), eq,
                      x.demand, x.per) >= 0

\* Between two allocations of the equitable allocator nothing is left of what
\* was desired in the rounds of an earlier one, in whatever way it has ended.
NothingDesiredBefore == pc # "eq" => eq.prevDesVol = Zeros

\* Shipments stay within supply and demand, as they accumulate, whoever asks.
ShipmentsAreFeasible ==
  \A t \in Periods :
    /\ LeftOver(shipVol, t) >= 0
    /\ \A d \in Demands : IncVolUB(shipVol, d, t) >= 0

\* Two books of one quantity agree: what implosion thinks is unmet is what the
\* shipments leave of the demand, and what it asks for is never cut by the
\* volume that incHeurAlloc takes to be demanded.
UnmetAgreesWithShipVol ==
  pc = "scan" =>
    \A d \in Demands :
      /\ UpTo(unmet[d], NPeriods - 1) = UnmetCumDem(shipVol, d, NPeriods - 1)
      /\ ~PassedOver(d) =>
           unmet[d][place.demPer] <= IncVolUB(shipVol, d, place.shipPer)

\* No volume that is asked for is negative or cut unexpectedly, and no more is
\* shipped than supply and demand allow, by whatever calls.
VolumesAddUp ==
  AssertionsHold /\ ShipmentsAreFeasible /\ UnmetAgreesWithShipVol

\* What implosion leaves unmet could not be shipped in any period in which it
\* may be: of what is left over by then a commit takes nothing, or, if failures
\* are skipped, it is less than the search increment of some demand.
NothingIsDenied ==
  [][FinishImplosion =>
       \A d \in Demands, t \in Periods :
         unmet[d][t] > 0 =>
           \A u \in t..(NPeriods - 1) :
             \/ d \notin ShipLate /\ u > t
             \/ u - t > ShipLateUB[d][t]
             \/ MaxQty(shipVol, d, u, unmet[d][t]) = 0
             \/ /\ data.skipFailures
                /\ \E e \in Demands :
                      Obtainable(shipVol, u) < SearchInc[e]]_vars

\* While demand of a period is met from the supply of a period, a demand gets
\* something only if all demands with a better priority have all they may get.
\* It is less than the search increment of a demand that it may get instead,
\* and nothing if failures are skipped.
PriorityIsRespected ==
  [][\A d \in Demands :
       /\ pc = "scan" \/ (pc = "eq" /\ work.imploding)
       /\ shipVol'[d][place.shipPer] > shipVol[d][place.shipPer]
       => \A e \in Demands :
            ModPriority(place.demPer)[e] < ModPriority(place.demPer)[d]
              => \/ PassedOver(e)
                 \/ /\ ~data.skipFailures
                    /\ MaxQty(shipVol, e, place.shipPer,
                              unmet[e][place.demPer]) = 0]_vars

\* Demands of equal priority share a shortage: there is a round such that each
\* of them has what was desired in the rounds before it and no more than what
\* was desired when it ended.  What is beyond that, where failures are not
\* skipped, is less than the search increment of one of them, which has failed.
ShortageIsShared ==
  pc = "eq" /\ work.imploding /\ work.multi /\ work.pos \notin DOMAIN work.list =>
    \E r \in 1..data.equitability, j \in DOMAIN work.list :
      \A i \in DOMAIN work.list :
        LET d      == work.list[i].demand
            t      == work.list[i].per
            total  == eq.desIncVol[d][t]
            beyond == IF data.skipFailures
                        THEN 0 ELSE SearchInc[work.list[j].demand] - 1
        IN  /\ NewDesVol(d, total, r - 1) <= eq.incVol[d][t]
            /\ eq.incVol[d][t] <= NewDesVol(d, total, r) + beyond

\* A call ends.
CallEnds == pc \in {"scan", "eq"} ~> pc = "idle"
=============================================================================
