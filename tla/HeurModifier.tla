----------------------------- MODULE HeurModifier -----------------------------
(***************************************************************************)
(* Modifiable heuristic allocation (class WitHeurModifier): between two    *)
(* calls that allocate, the application may set execution, substitution    *)
(* and shipment volumes to whatever it likes.  Each setting changes the    *)
(* availability schedule by what it changes in the solution and records    *)
(* which constraints it may have violated; the next call that allocates,   *)
(* or the end of allocation, checks those and no others, and refuses to go *)
(* on if one of them is violated.                                          *)
(*                                                                         *)
(* The module adds the settings to HeurAlloc.  Allocation must recover its *)
(* selections and not skip failures (checkPreconditions).                  *)
(***************************************************************************)
EXTENDS HeurAllocProps

CONSTANTS
  Executable,  \* the pairs <<o, t>> with executable ()[t]
  Changes,     \* bound: by what a setting changes the volume of a period
  MaxSettings  \* bound: the number of settings

ASSUME ModifierAssumption ==
  /\ ~SkipFailures
  /\ Executable \subseteq Operations \X Periods
  /\ \A e \in Entries, t \in Periods :
        InEffect(e, t) => <<OpnOf[e], t>> \in Executable
  /\ \A e \in SubEntries : \E b \in BomEntries : e \in ToSet(Subs[b])
  /\ Changes \subseteq Int
  /\ MaxSettings \in Nat

VARIABLES
  toChk,     \* toChkCapPairs_, toChkMats_, toChkOpnPairs_, toChkBomEntPairs_
             \* and toChkDemands_, as sets
  nSettings

modVars == <<vars, toChk, nSettings>>

NothingToChk ==
  [caps |-> {}, mats |-> {}, opns |-> {}, bomEnts |-> {}, demands |-> {}]

ModInit == Init /\ toChk = NothingToChk /\ nSettings = 0

------------------------------------------------------------------------------
(***************************************************************************)
(* The settings.                                                           *)
(***************************************************************************)

\* The vectors that the application sets in place of vec.
NewVecs(vec) ==
  {[vec EXCEPT ![t] = @ + c] : t \in Periods, c \in {x \in Changes : x # 0}}
    \cap [Periods -> Nat]

Changed(vec, newVec) == {t \in Periods : newVec[t] # vec[t]}

\* recPartPairNeed, for each of some pairs of a part and a period.
WithParts(chk, pairs) ==
  [chk EXCEPT !.mats = @ \cup {x[1] : x \in {y \in pairs : y[1] \in Materials}},
              !.caps = @ \cup {x \in pairs : x[1] \in Capacities}]

\* Mutant: products, of which there is less when less is executed, are not
\* recorded.
ImpactedConsumed(es, pers) ==
  {<<PartOf[e], Impact[e][t]>> : e \in es \ BopEntries, t \in pers}
    \ (Parts \X {-1})

Impacted(es, pers) ==
  {<<PartOf[e], Impact[e][t]>> : e \in es, t \in pers} \ (Parts \X {-1})

\* Adds delta[t], times the sign of the entry, to the availability of its
\* part for each entry in effect, in the order of the code: period by period
\* and, in a period, along the list.
Spread(s, es, sign, delta) ==
  LET pairs == FlattenSeq([i \in 1..NPeriods |->
                             [j \in DOMAIN es |-> <<es[j], i - 1>>]])
      add(acc, x) ==
        IF InEffect(x[1], x[2]) /\ delta[x[2]] # 0
        THEN AddAvail(acc, PartOf[x[1]], Impact[x[1]][x[2]],
                      sign[x[1]] * Rate[x[1]] * delta[x[2]])
        ELSE acc
  IN  FoldLeft(add, s, pairs)

Set(s, locs, vec) ==
  [s EXCEPT !.mem = [loc \in DOMAIN @ |->
                       IF loc \in Range(locs)
                       THEN vec[CHOOSE t \in Periods : locs[t] = loc]
                       ELSE @[loc]]]

Setting ==
  /\ pc = "idle"
  /\ nSettings < MaxSettings
  /\ nSettings' = nSettings + 1

\* WitOperation::setExecVol and modifyForExecVol.
SetExecVol(o, vec) ==
  LET old   == [t \in Periods |-> ExecVol(soln, o, t)]
      pers  == Changed(old, vec)
      es    == Bom[o] \o Bop[o]
      sign  == [e \in ToSet(es) |-> IF e \in BopEntries THEN 1 ELSE -1]
      subbed == {b \in ToSet(Bom[o]) : Subs[b] # <<>>}
  IN  /\ Setting
      /\ toChk' = WithParts([toChk EXCEPT !.opns = @ \cup ({o} \X pers),
                                          !.bomEnts = @ \cup (subbed \X pers)],
                            Impacted(ToSet(es), pers))
      /\ Write(Set(Spread(soln, es, sign, [t \in Periods |-> vec[t] - old[t]]),
                   [t \in Periods |-> ExecLoc(o, t)], vec))
      /\ UNCHANGED <<inputs, results, callVars, mode, commVars, pc>>

\* WitSubEntry::setSubVol and modifyForSubVol: what is substituted is taken
\* from the substitute and given back to the part that the entry consumes.
SetSubVol(e, vec) ==
  LET old  == [t \in Periods |-> SubVol(soln, e, t)]
      b    == CHOOSE x \in BomEntries : e \in ToSet(Subs[x])
      pers == Changed(old, vec)
  IN  /\ Setting
      /\ toChk' = WithParts([toChk EXCEPT !.bomEnts = @ \cup ({b} \X pers)],
                            Impacted({e, b}, pers))
      /\ Write(Set(Spread(soln, <<e, b>>, [x \in {e, b} |-> IF x = e THEN -1 ELSE 1],
                          [t \in Periods |-> vec[t] - old[t]]),
                   [t \in Periods |-> SubLoc(e, t)], vec))
      /\ UNCHANGED <<inputs, results, callVars, mode, commVars, pc>>

\* WitDemand::setShipVol and modifyForShipVol.
SetShipVol(d, vec) ==
  LET p    == DemandedPart[d]
      pers == Changed(shipVol[d], vec)
      add(s, i) == IF vec[i - 1] = shipVol[d][i - 1] THEN s
                   ELSE AddAvail(s, p, i - 1, shipVol[d][i - 1] - vec[i - 1])
  IN  /\ Setting
      /\ toChk' = WithParts([toChk EXCEPT !.demands = @ \cup {d}], {p} \X pers)
      /\ Write(FoldLeft(add, soln, [i \in 1..NPeriods |-> i]))
      /\ shipVol' = [shipVol EXCEPT ![d] = vec]
      /\ UNCHANGED <<inputs, blocked, slbs, callVars, mode, commVars, pc>>

------------------------------------------------------------------------------
(***************************************************************************)
(* checkFeasibility.                                                       *)
(***************************************************************************)

\* checkScrapCon of a material: no stock that is missing, carrying over what
\* can be stocked, a shortage included.
NoShortage(avail, m) ==
  LET cum[t \in Periods] ==
        avail[t] + IF t > 0 /\ CanStock(m, t - 1) THEN cum[t - 1] ELSE 0
  IN  \A t \in Periods : cum[t] >= 0

LotSizeIsKept(o, vol) == vol > 0 => LotSizeDelta(o, vol, 0) <= 0

\* checkNonExecCon, checkExecHUBCon and checkLotSizeCon.
OpnIsFeasible(o, t) ==
  LET vol == ExecVol(soln, o, t)
  IN  /\ <<o, t>> \in Executable \/ vol = 0
      /\ ExecBoundIsSatisfied(o, vol)
      /\ LotSizeIsKept(o, vol)

IsFeasible(chk) ==
  /\ \A x \in chk.caps : IncAvailVol(soln, x[1], x[2]) >= 0
  /\ \A m \in chk.mats :
        NoShortage([t \in Periods |-> IncAvailVol(soln, m, t)], m)
  /\ \A x \in chk.opns : OpnIsFeasible(x[1], x[2])
  /\ \A x \in chk.bomEnts : NonSubVol(x[1], x[2]) >= 0
  /\ \A d \in chk.demands, t \in Periods : UnmetCumDem(d, t) >= 0

\* An error ends the use of the run.
Checked ==
  /\ IsFeasible(toChk)
  /\ toChk' = NothingToChk
  /\ UNCHANGED nSettings

\* A call that does nothing but find the violation.
Refuse ==
  /\ ~IsFeasible(toChk)
  /\ pc' = "refused"
  /\ UNCHANGED <<inputs, soln, base, results, callVars, mode, commVars,
                 toChk, nSettings>>

------------------------------------------------------------------------------
(***************************************************************************)
(* The calls that allocate.                                                *)
(***************************************************************************)

Inc(d, t, desIncVol) == Checked /\ IncHeurAlloc(d, t, desIncVol)

\* A call for which nothing is demanded returns after the check.
IncNothing == pc = "idle" /\ toChk # NothingToChk /\ Checked /\ UNCHANGED vars

\* enforceStockSLBs comes before the check, which is the modifier's last act
\* (WitHeurAtor::shutDown).
Finish == FinishHeurAlloc /\ UNCHANGED <<toChk, nSettings>>

ShutDown == Checked /\ StockSLBsEnforced

Refused ==
  /\ pc = "idle" \/ (pc = "slb" /\ slbs = <<>>)
  /\ Refuse

Restart == StartHeurAlloc /\ UNCHANGED <<toChk, nSettings>>

Allocating ==
  /\ \/ MaxQtyStep \/ FillStep \/ ExplodeStep \/ UndoStep
     \/ \E m \in Materials, t \in Periods :
          EnforceStockSLB(m, t) \/ StockSLBEnforced(m, t)
  /\ UNCHANGED <<toChk, nSettings>>

Stopped == pc = "refused" /\ UNCHANGED modVars

ModNext ==
  \/ \E o \in Operations :
       \E vec \in NewVecs([t \in Periods |-> ExecVol(soln, o, t)]) : SetExecVol(o, vec)
  \/ \E e \in SubEntries :
       \E vec \in NewVecs([t \in Periods |-> SubVol(soln, e, t)]) : SetSubVol(e, vec)
  \/ \E d \in Demands : \E vec \in NewVecs(shipVol[d]) : SetShipVol(d, vec)
  \/ \E d \in Demands, t \in Periods, v \in 1..MaxDesIncVol : Inc(d, t, v)
  \/ IncNothing \/ Finish \/ ShutDown \/ Refused \/ Restart
  \/ Allocating
  \/ Stopped

\* The thread that has entered a call keeps running.
ModSpec ==
  ModInit /\ [][ModNext]_modVars
    /\ WF_modVars(Allocating \/ ShutDown \/ (Refused /\ pc = "slb"))

------------------------------------------------------------------------------
\* Properties.

\* What is recorded is enough: once the recorded checks have passed, all of
\* the solution is feasible, whatever was set in whatever order, although the
\* stock bounds are enforced before the last check.  Of the demands, this
\* holds where late shipment is allowed: of the others, compDemandedIncVol
\* looks at one period only, and a call adds to what the application has
\* shipped later, past the cumulative demand.
CheckedIsFeasible ==
  toChk = NothingToChk =>
    /\ ExecVolsRespectBounds
    /\ \A x \in (Operations \X Periods) \ Executable : ExecVol(soln, x[1], x[2]) = 0
    /\ SubVolWithinExecVol
    /\ \A d \in ShipLate, t \in Periods : UnmetCumDem(d, t) >= 0
    /\ Idle => NNScrap(LeftBySoln)

\* A call that has been entered returns or is refused: the binary search
\* narrows, the iteration of innerCommit ends, and the restoration empties its
\* stacks.
CallEnds == pc # "idle" ~> pc \in {"idle", "done", "refused"}
==============================================================================
