------------------------------ MODULE AvailSched ------------------------------
(***************************************************************************)
(* The availability schedule of heuristic allocation (class WitAvailSched, *)
(* AvailSched.C) and its requirements schedule (class WitReqSched,         *)
(* HeurAll.C), as operators on the stores that hold them.                  *)
(*                                                                         *)
(* incAvailVol[p][t] is what is available of part p in period t and not    *)
(* yet committed.  A material that can be stocked is available later too,  *)
(* so a commitment may leave incAvailVol negative in a later period, to be *)
(* covered by what is left over from the periods before it.                *)
(*                                                                         *)
(* Volumes are whole numbers, so the tolerance NET_TOL is 0.  No material  *)
(* is under selective stock reallocation (class WitSsrMgr).                *)
(***************************************************************************)
EXTENDS BomNetwork, DataRepos

CONSTANT UncondSR   \* the materials with uncondSR_

ASSUME UncondSRAssumption ==
  UncondSR \subseteq {m \in Materials : Producing[m] # <<>>}

AvailLoc(p, t) == <<"dbl", "incAvailVol", p, t>>
LastDecLoc(m)  == <<"int", "lastDecPer", m, 0>>

IncAvailVol(s, p, t) == s.mem[AvailLoc(p, t)]
LastDecPer(s, m)     == s.mem[LastDecLoc(m)]

\* saveVal is called before every assignment; WitHeurAtor::saveVal makes it
\* save only while a temp commit is active.
Put(s, loc, val, save) ==
  IF save THEN SaveAndAssign(s, loc, val) ELSE Assign(s, loc, val)

\* Mutant: lastDecPer is overwritten without being saved.
AddSavingAvailOnly(s, p, t, delta, save) ==
  LET added == Put(s, AvailLoc(p, t), IncAvailVol(s, p, t) + delta, save)
  IN  IF /\ p \in Materials
         /\ IncAvailVol(added, p, t) < 0
         /\ t > LastDecPer(added, p)
      THEN Assign(added, LastDecLoc(p), t)
      ELSE added

\* Mutant: lastDecPer may move back.
AddMovingBack(s, p, t, delta, save) ==
  LET added == Put(s, AvailLoc(p, t), IncAvailVol(s, p, t) + delta, save)
  IN  IF p \in Materials /\ IncAvailVol(added, p, t) < 0
      THEN Put(added, LastDecLoc(p), t, save)
      ELSE added

AddToIncAvailVol(s, p, t, delta, save) ==
  LET added == Put(s, AvailLoc(p, t), IncAvailVol(s, p, t) + delta, save)
  IN  IF /\ p \in Materials
         /\ IncAvailVol(added, p, t) < 0
         /\ t > LastDecPer(added, p)
      THEN Put(added, LastDecLoc(p), t, save)
      ELSE added

\* allocedVol: the part of the stock at the end of reqPer that later
\* periods, up to lastDecPer, depend on.
AllocedVol(s, m, reqPer) ==
  LET last == LastDecPer(s, m)
      needed[t \in (reqPer + 1)..(last + 1)] ==
        IF t = last + 1 THEN 0
        ELSE Max({0, needed[t + 1] - IncAvailVol(s, m, t)})
  IN  IF last > reqPer THEN needed[reqPer + 1] ELSE 0

\* Mutant: mandatory ECs are ignored.
AllEarlierPers(m, t) == 0..t

\* The periods from which material m can be kept in stock until period t.
StockablePers(m, t) == {u \in 0..t : \A v \in u..(t - 1) : ~MandEC[m][v]}

\* availToNet: the volume, at most reqVol, that can be taken in reqPer from
\* the periods up to reqPer, when allVol of it is spoken for.
AvailToNet(s, m, reqPer, reqVol, allVol) ==
  LET sum[t \in 0..(reqPer + 1)] ==
        IF t = reqPer + 1 THEN - allVol
        ELSE sum[t + 1] + IncAvailVol(s, m, t)
      reach == StockablePers(m, reqPer)
  IN  IF \E t \in reach : sum[t] >= reqVol THEN reqVol ELSE sum[Min(reach)]

\* The volume by which netMatWoSR and netWithIncAvail reduce a requirement.
NetMatWoSRVol(s, m, reqPer, reqVol) ==
  LET allVol    == AllocedVol(s, m, reqPer)
      totReqVol == reqVol + allVol
      availVol  == AvailToNet(s, m, reqPer, totReqVol, 0)
      deltaVol  == IF availVol = totReqVol THEN reqVol ELSE availVol - allVol
  IN  Max({0, deltaVol})

NetWithIncAvailVol(s, p, t, reqVol) ==
  Max({0, Min({reqVol, IncAvailVol(s, p, t)})})

NetWoSRVol(s, p, t, reqVol) ==
  IF p \in Materials THEN NetMatWoSRVol(s, p, t, reqVol)
                     ELSE NetWithIncAvailVol(s, p, t, reqVol)

\* netAndRoll: the volume that is taken in reqPer although a later period
\* may depend on it, and the period to which the requirement is rolled.
RollVol(s, m, reqPer, reqVol) == Max({0, AvailToNet(s, m, reqPer, reqVol, 0)})

\* Mutant: the next period is passed over.
RollPeriodSkipping(s, m, fromPer) ==
  LET short == {t \in (fromPer + 2)..(NPeriods - 1) :
                  fromPer \in StockablePers(m, t) /\ IncAvailVol(s, m, t) < 0}
  IN  IF fromPer < LastDecPer(s, m) /\ short # {} THEN Min(short) ELSE -1

RollPeriod(s, m, fromPer) ==
  LET short == {t \in (fromPer + 1)..(NPeriods - 1) :
                  fromPer \in StockablePers(m, t) /\ IncAvailVol(s, m, t) < 0}
  IN  IF fromPer < LastDecPer(s, m) /\ short # {} THEN Min(short) ELSE -1

------------------------------------------------------------------------------
(***************************************************************************)
(* The requirements schedule: what one commit still has to fill.  It has a *)
(* repository of its own, in which every change is saved, and clear()      *)
(* restores it.                                                            *)
(***************************************************************************)

ReqLoc(p, t)   == <<"dbl", "reqVol", p, t>>
FirstPerLoc(p) == <<"int", "firstPer", p, 0>>
LastPerLoc(p)  == <<"int", "lastPer", p, 0>>

ReqVol(r, p, t) == r.mem[ReqLoc(p, t)]
FirstPer(r, p)  == r.mem[FirstPerLoc(p)]
LastPer(r, p)   == r.mem[LastPerLoc(p)]

ReqLocs == {ReqLoc(p, t) : p \in Parts, t \in Periods}
             \cup {FirstPerLoc(p) : p \in Parts}
             \cup {LastPerLoc(p) : p \in Parts}

NoReqs ==
  [loc \in ReqLocs |-> CASE loc[2] = "reqVol"   -> 0
                         [] loc[2] = "firstPer" -> NPeriods
                         [] OTHER               -> -1]  \* lastPer

\* Mutant: the requirement itself is not saved.
AddToUnsaved(r, p, t, qty) ==
  LET vol   == Assign(r, ReqLoc(p, t), ReqVol(r, p, t) + qty)
      first == IF t < FirstPer(vol, p)
               THEN SaveAndAssign(vol, FirstPerLoc(p), t) ELSE vol
  IN  IF t > LastPer(first, p)
      THEN SaveAndAssign(first, LastPerLoc(p), t) ELSE first

AddTo(r, p, t, qty) ==
  LET vol   == SaveAndAssign(r, ReqLoc(p, t), ReqVol(r, p, t) + qty)
      first == IF t < FirstPer(vol, p)
               THEN SaveAndAssign(vol, FirstPerLoc(p), t) ELSE vol
  IN  IF t > LastPer(first, p)
      THEN SaveAndAssign(first, LastPerLoc(p), t) ELSE first
=============================================================================
