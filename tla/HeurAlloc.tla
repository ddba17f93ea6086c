------------------------------ MODULE HeurAlloc ------------------------------
(***************************************************************************)
(* Heuristic allocation: class WitHeurAtor (HeurAtor.C) with the objects   *)
(* it owns, and the calls that WitHeurAllMgr (HeurAll.C) passes to it.     *)
(*                                                                         *)
(* One call of incHeurAlloc asks for desIncVol units of a demand in a      *)
(* period.  It looks for the largest quantity that can be made ready by a  *)
(* series of temporary commits, each of which explodes the quantity down   *)
(* the bills of materials, changing the tentative solution as it goes, and *)
(* is undone by the data repository; then it commits that quantity for     *)
(* good and expects the permanent commit to succeed.                       *)
(*                                                                         *)
(* soln is the store of the tentative solution, guarded by tempCommRepos;  *)
(* base is what its variables hold when temporary writes are disregarded.  *)
(* req is the requirements schedule of the commit in progress.             *)
(*                                                                         *)
(* Not modelled: the selection subsystem (multiSel), pegging, critical     *)
(* lists, lead-time bounds, the user-specified starting solution.          *)
(***************************************************************************)
EXTENDS AvailSched

CONSTANTS
  Demands,
  DemandedPart,      \* the part that a demand asks for
  ShipLate,          \* the demands with shipLateAllowed
  BuildAheadUB,      \* BuildAheadUB[d][t]: periods of build-ahead
  PrefBuildAhead,    \* the demands with prefBuildAhead
  SearchInc,         \* SearchInc[d]: the search increment
  ExecUB,            \* ExecUB[o]: hard upper bound on execVol; -1 if none
  LotSizes,          \* LotSizes[o]: min, inc, thresh2, min2 and inc2, where
                     \* inc = 0 if there are none, thresh2 = -1 if one level
  StockSLB,          \* StockSLB[m][t]: soft lower bound on the stock
  PrefHighStockSLBs, \* global attribute
  SkipFailures,      \* global attribute
  Supplies,          \* the supply volumes to consider
  DemandVols,        \* the demand volumes to consider
  MaxDesIncVol       \* bound: the largest desIncVol of a call

ASSUME DemandsAssumption ==
  /\ IsFiniteSet(Demands)
  /\ DemandedPart \in [Demands -> Parts]
  /\ BuildAheadUB \in [Demands -> [Periods -> Nat]]
  /\ SearchInc \in [Demands -> Nat \ {0}]
  /\ SkipFailures \in BOOLEAN
  /\ PrefHighStockSLBs \in BOOLEAN
  /\ StockSLB \in [Materials -> [Periods -> Nat]]
  /\ \A sup \in Supplies : sup \in [Parts -> [Periods -> Nat]]
  /\ \A vol \in DemandVols : vol \in [Demands -> [Periods -> Nat]]
  /\ MaxDesIncVol \in Nat \ {0}

\* Volumes stay whole: an exploded entry makes one unit per execution, and
\* an entry whose consumption may be netted consumes at most one.
ASSUME WholeVolumesAssumption ==
  /\ \A e \in ExpAllowed : Rate[e] = 1
  /\ \A b \in BomEntries :
        /\ HasSubsToNet(b) => Rate[b] <= 1
        /\ \A i \in DOMAIN Subs[b] : Rate[Subs[b][i]] <= 1

\* The setters of WitOperation, and WitPreprocessor::procLotSizes.
ASSUME LotSizesAssumption ==
  \A o \in Operations :
     /\ LotSizes[o] \in [min : Nat, inc : Nat, thresh2 : Int, min2 : Nat, inc2 : Nat]
     /\ LotSizes[o].thresh2 >= 0 => LotSizes[o].inc2 > 0

VARIABLES
  supplyVol,  \* supplyVol[p][t], input
  demandVol,  \* demandVol[d][t], input
  soln,       \* the store of incAvailVol, lastDecPer, execVol and subVol
  base,       \* the values of soln's variables but for temporary writes
  req,        \* the store of the requirements schedule
  shipVol,    \* shipVol[d][t]
  blocked,    \* blocked_, as the set of pairs <<part, period>>
  slbs,       \* the stock soft lower bounds that are still to be enforced
  call,       \* the call in progress
  netQty,     \* the part of its volume that is not committed yet
  top,        \* topPart_ and topPer_
  search,     \* the local variables of findMaxQty and binarySearch
  mode,       \* which of tempCommActive_ and permCommActive_ is true
  cursor,     \* where innerCommit's iteration over the requirements stands
  frame,      \* the local variables of the explosion in progress
  ok,         \* what commit is going to return
  pc          \* the point that the thread of control has reached

inputs   == <<supplyVol, demandVol>>
results  == <<shipVol, blocked, slbs>>
callVars == <<call, netQty, top, search>>
commVars == <<req, cursor, frame, ok>>
vars == <<inputs, soln, base, results, callVars, mode, commVars, pc>>

------------------------------------------------------------------------------

ExecLoc(o, t) == <<"exec", "execVol", o, t>>
SubLoc(s, t)  == <<"sub", "subVol", s, t>>

ExecVol(s, o, t) == s.mem[ExecLoc(o, t)]
SubVol(s, e, t)  == s.mem[SubLoc(e, t)]

SolnLocs == {AvailLoc(p, t) : p \in Parts, t \in Periods}
              \cup {LastDecLoc(m) : m \in Materials}
              \cup {ExecLoc(o, t) : o \in Operations, t \in Periods}
              \cup {SubLoc(s, t) : s \in SubEntries, t \in Periods}

\* The AvailSched constructor and initSoln.
InitMem(supply) ==
  [loc \in SolnLocs |-> CASE loc[2] = "incAvailVol" -> supply[loc[3]][loc[4]]
                          [] loc[2] = "lastDecPer"  -> -1
                          [] OTHER                  -> 0]

\* All writes of the solution go through here: while a temp commit is
\* active they are saved and leave the base alone.
Write(s) == /\ soln' = s
            /\ base' = IF mode = "temp" THEN base ELSE s.mem

AddAvail(s, p, t, delta) == AddToIncAvailVol(s, p, t, delta, mode = "temp")

NoCall   == [kind |-> "none", demand |-> "none", per |-> 0, vol |-> 0,
             todo |-> <<>>]
NoTop    == [part |-> "none", per |-> -1]
NoSearch == [stage |-> "none", des |-> 0, okMult |-> 0, failMult |-> 0]
NoCursor == [idx |-> 0, per |-> 0]
NoFrame  == [part |-> "none", fillPer |-> 0, qty |-> 0, bop |-> "none",
             execPer |-> 0, delta |-> 0, bomIdx |-> 0, subIdx |-> 0,
             net |-> 0, bopIdx |-> 0]

Init ==
  /\ supplyVol \in Supplies
  /\ demandVol \in DemandVols
  /\ soln = NewStore(InitMem(supplyVol))
  /\ base = InitMem(supplyVol)
  /\ req = NewStore(NoReqs)
  /\ shipVol = [d \in Demands |-> [t \in Periods |-> 0]]
  /\ blocked = {}
  /\ slbs = <<>>
  /\ call = NoCall
  /\ netQty = 0
  /\ top = NoTop
  /\ search = NoSearch
  /\ mode = "none"
  /\ cursor = NoCursor
  /\ frame = NoFrame
  /\ ok = TRUE
  /\ pc = "idle"

------------------------------------------------------------------------------
(***************************************************************************)
(* incHeurAlloc, called by the application.                                *)
(***************************************************************************)

SumOver(f, lo, hi) == FoldFunctionOnSet(LAMBDA a, b : a + b, 0, f, lo..hi)

\* compDemandedIncVol and minUnmetCumDem.
UnmetCumDem(d, t) ==
  SumOver(demandVol[d], 0, t) - SumOver(shipVol[d], 0, t)

\* Mutant: what later periods leave unmet is not looked at.
DemandedByThenOnly(d, t) ==
  IF d \in ShipLate THEN UnmetCumDem(d, t)
                    ELSE demandVol[d][t] - shipVol[d][t]

DemandedIncVolUB(d, t) ==
  IF d \in ShipLate
  THEN Min({UnmetCumDem(d, u) : u \in t..(NPeriods - 1)})
  ELSE demandVol[d][t] - shipVol[d][t]

\* The periods that doBaByDemand tries in turn; one if there is no
\* build-ahead.
PeriodsToTry(d, t) ==
  LET earliest == Max({0, t - BuildAheadUB[d][t]})
      firstPer == Min({u \in earliest..t :
                         \A v \in u..(t - 1) : CanStock(DemandedPart[d], v)})
      upward   == [i \in 1..(t - firstPer + 1) |-> firstPer + i - 1]
  IN  IF d \in PrefBuildAhead THEN upward ELSE Reverse(upward)

IncHeurAlloc(d, t, desIncVol) ==
  LET vol == Min({desIncVol, DemandedIncVolUB(d, t)})
  IN  /\ pc = "idle"
      /\ vol > 0
      /\ call' = [kind |-> "inc", demand |-> d, per |-> t, vol |-> vol,
                  todo |-> PeriodsToTry(d, t)]
      /\ netQty' = vol
      /\ pc' = "cmq"
      /\ UNCHANGED <<inputs, soln, base, results, top, search, mode, commVars>>

\* postIncHeurAlloc, once doBaByDemand has no period left or no need.
PostIncHeurAlloc ==
  /\ pc = "cmq"
  /\ call.kind = "inc"
  /\ call.todo = <<>> \/ netQty = 0
  /\ shipVol' = [shipVol EXCEPT ![call.demand][call.per] =
                   @ + (call.vol - netQty)]
  /\ call' = NoCall
  /\ netQty' = 0
  /\ pc' = "idle"
  /\ UNCHANGED <<inputs, soln, base, blocked, slbs, top, search, mode, commVars>>

------------------------------------------------------------------------------
(***************************************************************************)
(* commitMaxQty and the search of findMaxQty.                              *)
(***************************************************************************)

CallPart == IF call.kind = "inc" THEN DemandedPart[call.demand]
                                 ELSE slbs[1].mat

\* searchInc_ is the demand's during incHeurAlloc and 1 otherwise.
CurSearchInc == IF call.kind = "inc" THEN SearchInc[call.demand] ELSE 1

\* blocked_ is allocated only for the parts that are in demand.
CanBeBlocked(p) ==
  \E d \in Demands : DemandedPart[d] = p /\ \E t \in Periods : demandVol[d][t] > 0

SkipBlocked ==
  /\ pc = "cmq"
  /\ call.todo # <<>>
  /\ netQty > 0
  /\ SkipFailures
  /\ <<CallPart, Head(call.todo)>> \in blocked
  /\ call' = [call EXCEPT !.todo = Tail(@)]
  /\ UNCHANGED <<inputs, soln, base, results, netQty, top, search, mode,
                 commVars, pc>>

\* A desired quantity of at most one increment is tried as it is.
CommitMaxQty ==
  /\ pc = "cmq"
  /\ call.todo # <<>>
  /\ netQty > 0
  /\ ~(SkipFailures /\ <<CallPart, Head(call.todo)>> \in blocked)
  /\ top' = [part |-> CallPart, per |-> Head(call.todo)]
  /\ search' = [stage |-> IF netQty <= CurSearchInc THEN "desOnly" ELSE "inc",
                des |-> netQty, okMult |-> 1,
                failMult |-> -((-netQty) \div CurSearchInc)]
  /\ call' = [call EXCEPT !.todo = Tail(@)]
  /\ pc' = "try"
  /\ UNCHANGED <<inputs, soln, base, results, netQty, mode, commVars>>

CurMult == (search.okMult + search.failMult) \div 2

\* Mutant: the multiple that is known to fail is committed.
TryFailed ==
  CASE search.stage \in {"desOnly", "des"} -> search.des
    [] search.stage = "inc"                -> CurSearchInc
    [] search.stage = "bisect"             -> CurMult * CurSearchInc
    [] search.stage = "found"              -> search.failMult * CurSearchInc
    [] search.stage = "foundDes"           -> search.des

TryQty ==
  CASE search.stage \in {"desOnly", "des"} -> search.des
    [] search.stage = "inc"                -> CurSearchInc
    [] search.stage = "bisect"             -> CurMult * CurSearchInc
    [] search.stage = "found"              -> search.okMult * CurSearchInc
    [] search.stage = "foundDes"           -> search.des

\* Mutant: only a temporary commit is marked as active.
StartUnmarked(theMode) ==
  /\ mode' = IF theMode = "perm" THEN mode ELSE theMode
  /\ req' = AddTo(req, top.part, top.per, TryQty)
  /\ pc' = "fill"
  /\ UNCHANGED <<inputs, soln, base, results, callVars, cursor, frame, ok>>

\* tempCommit and permCommit, up to innerCommit's first requirement.
StartCommit(theMode) ==
  /\ mode' = theMode
  /\ req' = AddTo(req, top.part, top.per, TryQty)
  /\ pc' = "fill"
  /\ UNCHANGED <<inputs, soln, base, results, callVars, cursor, frame, ok>>

TempCommit == pc = "try" /\ StartCommit("temp")

\* commitMaxQtySel, when findMaxQty has returned a positive quantity.
PermCommit == pc = "perm" /\ StartCommit("perm")

\* Mutant: the search goes on when there is nothing left between.
StillOpen(s) == s.failMult > s.okMult

\* binarySearch goes on while there is a multiple between the greatest that
\* succeeded and the least that failed.
IsOpen(s) == s.failMult > s.okMult + 1

\* findMaxQty's next step, after tempCommit has returned.
AfterTempCommit(success) ==
  LET s == search
      narrowed == IF success THEN [s EXCEPT !.okMult   = CurMult]
                             ELSE [s EXCEPT !.failMult = CurMult]
      bisect(n) == [n EXCEPT !.stage = IF IsOpen(n) THEN "bisect" ELSE "found"]
  IN  CASE s.stage \in {"desOnly", "des"} /\ success ->
                                   [s EXCEPT !.stage = "foundDes"]
        [] s.stage = "desOnly" /\ ~success -> [s EXCEPT !.stage = "none"]
        [] s.stage = "inc" /\ ~success     -> [s EXCEPT !.stage = "none"]
        [] s.stage = "inc" /\ success      -> [s EXCEPT !.stage = "des"]
        [] s.stage = "des" /\ ~success     -> bisect(s)
        [] s.stage = "bisect"              -> bisect(narrowed)

TempCommitReturns ==
  /\ pc = "return"
  /\ mode = "temp"
  /\ mode' = "none"
  /\ search' = AfterTempCommit(ok)
  /\ ok' = TRUE
  /\ pc' = CASE search'.stage \in {"found", "foundDes"} -> "perm"
             [] search'.stage = "none"                  -> "cmqEnd"
             [] OTHER                                   -> "try"
  /\ UNCHANGED <<inputs, soln, base, results, call, netQty, top, req, cursor,
                 frame>>

\* A permanent commit that fails is a fatal error.
PermCommitReturns ==
  /\ pc = "return"
  /\ mode = "perm"
  /\ mode' = "none"
  /\ IF ok THEN netQty' = netQty - TryQty /\ pc' = "cmqEnd"
           ELSE netQty' = netQty          /\ pc' = "fatal"
  /\ UNCHANGED <<inputs, soln, base, results, call, top, search, commVars>>

CommitMaxQtyEnds ==
  /\ pc = "cmqEnd"
  /\ blocked' = IF SkipFailures /\ CanBeBlocked(top.part) /\ netQty > 0
                THEN blocked \cup {<<top.part, top.per>>} ELSE blocked
  /\ top' = NoTop
  /\ search' = NoSearch
  /\ pc' = "cmq"
  /\ UNCHANGED <<inputs, soln, base, shipVol, slbs, call, netQty, mode, commVars>>

------------------------------------------------------------------------------
(***************************************************************************)
(* innerCommit: the requirements are filled part by part along the top     *)
(* part's belowList and, for each part, period by period.                  *)
(***************************************************************************)

CommitUnchanged == UNCHANGED <<inputs, results, callVars, mode>>

TopList == IF top = NoTop THEN <<>> ELSE BelowList[top.part]

\* The requirements that the iteration has not passed yet.
PendingReqs ==
  LET isPending(i, t) ==
        /\ i > cursor.idx \/ (i = cursor.idx /\ t > cursor.per)
        /\ FirstPer(req, TopList[i]) <= t /\ t <= LastPer(req, TopList[i])
        /\ ReqVol(req, TopList[i], t) > 0
  IN  IF pc # "fill" THEN {}
      ELSE {r \in (DOMAIN TopList) \X Periods : isPending(r[1], r[2])}

NextReqs ==
  LET pending == PendingReqs
  IN  {q \in pending : \A r \in pending :
         q[1] < r[1] \/ (q[1] = r[1] /\ q[2] <= r[2])}

\* What fillReq does with the volume that netting has left: it has filled
\* the requirement, or goes on to fillNetReq.
Netted(i, t, rest) ==
  /\ cursor' = [idx |-> i, per |-> t]
  /\ IF rest = 0
     THEN frame' = NoFrame /\ pc' = "fill"
     ELSE /\ frame' = [NoFrame EXCEPT !.part = TopList[i], !.fillPer = t,
                                      !.qty = rest]
          /\ pc' = "explode"
  /\ ok' = ok

\* fillReq of the next requirement, for a part that is not under stock reallocation.
NetReq(i, t) ==
  LET p   == TopList[i]
      vol == NetWoSRVol(soln, p, t, ReqVol(req, p, t))
  IN  /\ pc = "fill"
      /\ p \notin UncondSR
      /\ Write(IF vol = 0 THEN soln ELSE AddAvail(soln, p, t, -vol))
      /\ Netted(i, t, ReqVol(req, p, t) - vol)
      /\ req' = req
      /\ CommitUnchanged

\* fillReq of a material under stock reallocation: netAndRollReq.
NetAndRollReq(i, t, rollPer) ==
  LET p     == TopList[i]
      vol   == RollVol(soln, p, t, ReqVol(req, p, t))
      taken == AddAvail(soln, p, t, -vol)
  IN  /\ pc = "fill"
      /\ p \in UncondSR
      /\ rollPer = IF vol = 0 THEN -1 ELSE RollPeriod(soln, p, t)
      /\ Write(IF vol = 0 THEN soln
               ELSE IF rollPer < 0 THEN taken
               ELSE AddAvail(taken, p, rollPer, vol))
      /\ req' = IF rollPer < 0 THEN req ELSE AddTo(req, p, rollPer, vol)
      /\ Netted(i, t, ReqVol(req, p, t) - vol)
      /\ CommitUnchanged

\* Every requirement is filled: innerCommit returns true.
AllFilled ==
  /\ pc = "fill"
  /\ PendingReqs = {}
  /\ cursor' = NoCursor
  /\ pc' = "clear"
  /\ UNCHANGED <<soln, base, req, frame, ok>> /\ CommitUnchanged

------------------------------------------------------------------------------
(***************************************************************************)
(* fillNetReq, explodePart and explodeBopEnt: the operation that makes the *)
(* part is executed to fill the rest of the requirement.                   *)
(***************************************************************************)

\* lotSizedExecVol and tllsExecVol.
LotSizedVol(vol, min, inc) == min + Max({0, -((min - vol) \div inc)}) * inc

\* Mutant: a volume that the first level carries past the threshold is kept.
TllsOneLevel(ls, vol) ==
  IF ls.thresh2 >= 0 /\ vol >= ls.thresh2
  THEN LotSizedVol(vol, ls.min2, ls.inc2)
  ELSE LotSizedVol(vol, ls.min, ls.inc)

TllsVol(ls, vol) ==
  LET vol1 == LotSizedVol(vol, ls.min, ls.inc)
  IN  IF ls.thresh2 < 0 THEN vol1
      ELSE IF vol >= ls.thresh2 THEN LotSizedVol(vol, ls.min2, ls.inc2)
      ELSE IF vol1 >= ls.thresh2 THEN LotSizedVol(ls.thresh2, ls.min2, ls.inc2)
      ELSE vol1

\* lotSizeDelta: the increase of execVol that leaves it lot-sized.
LotSizeDelta(o, vol, delta) ==
  IF LotSizes[o].inc = 0 THEN delta ELSE TllsVol(LotSizes[o], vol + delta) - vol

ExecBoundIsSatisfied(o, vol) == ExecUB[o] = -1 \/ vol <= ExecUB[o]

FrameExpPer == ExplosionPeriod[frame.part][frame.fillPer]

\* The increase of execVol that would fill the rest of the requirement.  It
\* is at least one: the early return of explodeBopEnt for an increase below
\* the tolerance, which takes a large production rate, is not modelled.
FrameDelta(o, execPer) ==
  LotSizeDelta(o, ExecVol(soln, o, execPer), frame.qty)

ExpIsPossible ==
  /\ Explodeable(frame.part, FrameExpPer)
  /\ LET e == ExpBopEntry[frame.part][FrameExpPer]
         u == ExpExecPeriod[e][FrameExpPer]
         o == OpnOf[e]
     IN  ExecBoundIsSatisfied(o, ExecVol(soln, o, u) + FrameDelta(o, u))

\* fillNetReq or explodeBopEnt returns false, and with it innerCommit.
CannotExplode ==
  /\ pc = "explode"
  /\ ~ExpIsPossible
  /\ ok' = FALSE
  /\ cursor' = NoCursor
  /\ frame' = NoFrame
  /\ pc' = "clear"
  /\ UNCHANGED <<soln, base, req>> /\ CommitUnchanged

\* innerExplodeBopEnt, up to its first BOM entry.
ExplodeBopEnt(e, execPer) ==
  LET o     == OpnOf[e]
      delta == FrameDelta(o, execPer)
      loc   == ExecLoc(o, execPer)
  IN  /\ pc = "explode"
      /\ ExpIsPossible
      /\ e = ExpBopEntry[frame.part][FrameExpPer]
      /\ execPer = ExpExecPeriod[e][FrameExpPer]
      /\ Write(Put(soln, loc, soln.mem[loc] + delta, mode = "temp"))
      /\ frame' = [frame EXCEPT !.bop = e, !.execPer = execPer,
                                !.delta = delta, !.bomIdx = 1]
      /\ pc' = "bom"
      /\ UNCHANGED <<req, cursor, ok>> /\ CommitUnchanged

------------------------------------------------------------------------------
(***************************************************************************)
(* explodeBomEntry for each BOM entry, explodeBopEntries, and the use of   *)
(* what was made.                                                          *)
(***************************************************************************)

FrameOpn == OpnOf[frame.bop]
FrameBom == Bom[FrameOpn][frame.bomIdx]

\* Mutant: an entry never gives anything back.
NonnegativeQty(c, execs) == Max({0, Rate[c] * execs})

\* What entry c consumes in execs executions; negative for a by-product.
ConsumedQty(c, execs) == Rate[c] * execs

NextBomEntry == [frame EXCEPT !.bomIdx = @ + 1, !.subIdx = 0, !.net = 0]

BomEntryNotInEffect ==
  /\ pc = "bom"
  /\ frame.bomIdx \in DOMAIN Bom[FrameOpn]
  /\ ~InEffect(FrameBom, frame.execPer)
  /\ frame' = NextBomEntry
  /\ pc' = "bom"
  /\ UNCHANGED <<soln, base, req, cursor, ok>> /\ CommitUnchanged

ExplodeBomEntry ==
  /\ pc = "bom"
  /\ frame.bomIdx \in DOMAIN Bom[FrameOpn]
  /\ InEffect(FrameBom, frame.execPer)
  /\ frame' = [frame EXCEPT !.net = frame.delta]
  /\ pc' = IF HasSubsToNet(FrameBom) THEN "net" ELSE "cons"
  /\ UNCHANGED <<soln, base, req, cursor, ok>> /\ CommitUnchanged

\* netConsEntries: first the BOM entry itself, then its substitutes, are
\* netted against what is available.
FrameCons == IF frame.subIdx = 0 THEN FrameBom
                                 ELSE Subs[FrameBom][frame.subIdx]

NetIsAllowed(c) ==
  c \in SubEntries => c \in NetAllowed /\ InEffect(c, frame.execPer)

\* The end of netConsEntries' iteration for one entry, with net executions
\* still to be supplied.
NettedTo(net) ==
  IF net = 0
  THEN frame' = NextBomEntry /\ pc' = "bom"
  ELSE IF frame.subIdx = Len(Subs[FrameBom])
  THEN frame' = [frame EXCEPT !.net = net] /\ pc' = "cons"
  ELSE frame' = [frame EXCEPT !.net = net, !.subIdx = @ + 1] /\ pc' = "net"

NetConsEntry ==
  LET c == FrameCons
      p == PartOf[c]
      t == Impact[c][frame.execPer]
      vol == NetWoSRVol(soln, p, t, frame.net)
      netted == IF vol = 0 THEN soln ELSE AddAvail(soln, p, t, -vol)
      loc == SubLoc(c, frame.execPer)
  IN  /\ pc = "net"
      /\ NetIsAllowed(c)
      /\ Rate[c] = 1
      /\ Write(IF c \in SubEntries /\ mode = "perm" /\ vol > 0
               THEN Put(netted, loc, netted.mem[loc] + vol, mode = "temp")
               ELSE netted)
      /\ NettedTo(frame.net - vol)
      /\ UNCHANGED <<req, cursor, ok>> /\ CommitUnchanged

\* An entry that consumes nothing, or produces, supplies all that is asked
\* for.
NetByProductEntry ==
  LET c == FrameCons
      p == PartOf[c]
      t == Impact[c][frame.execPer]
      out == IF Rate[c] = 0 THEN soln
             ELSE AddAvail(soln, p, t, -ConsumedQty(c, frame.net))
      loc == SubLoc(c, frame.execPer)
  IN  /\ pc = "net"
      /\ NetIsAllowed(c)
      /\ Rate[c] <= 0
      /\ Write(IF c \in SubEntries /\ mode = "perm"
               THEN Put(out, loc, out.mem[loc] + frame.net, mode = "temp")
               ELSE out)
      /\ NettedTo(0)
      /\ UNCHANGED <<req, cursor, ok>> /\ CommitUnchanged

SkipSubEntry ==
  /\ pc = "net"
  /\ ~NetIsAllowed(FrameCons)
  /\ NettedTo(frame.net)
  /\ UNCHANGED <<soln, base, req, cursor, ok>> /\ CommitUnchanged

\* explodeConsEntry, for the BOM entry itself.
ExplodeConsEntry ==
  LET p == PartOf[FrameBom]
      t == Impact[FrameBom][frame.execPer]
      consumedQty == ConsumedQty(FrameBom, frame.net)
  IN  /\ pc = "cons"
      /\ req' = IF consumedQty > 0 THEN AddTo(req, p, t, consumedQty) ELSE req
      /\ Write(IF consumedQty < 0 THEN AddAvail(soln, p, t, -consumedQty)
                                  ELSE soln)
      /\ frame' = NextBomEntry
      /\ pc' = "bom"
      /\ UNCHANGED <<cursor, ok>> /\ CommitUnchanged

BomEntriesExploded ==
  /\ pc = "bom"
  /\ frame.bomIdx \notin DOMAIN Bom[FrameOpn]
  /\ frame' = [frame EXCEPT !.bopIdx = 1]
  /\ pc' = "bop"
  /\ UNCHANGED <<soln, base, req, cursor, ok>> /\ CommitUnchanged

\* One iteration of explodeBopEntries.
ExplodeBopEntry ==
  LET e == Bop[FrameOpn][frame.bopIdx]
      t == Impact[e][frame.execPer]
      prodVol == IF InEffect(e, frame.execPer) THEN frame.delta * Rate[e] ELSE 0
  IN  /\ pc = "bop"
      /\ frame.bopIdx \in DOMAIN Bop[FrameOpn]
      /\ Write(IF prodVol > 0 THEN AddAvail(soln, PartOf[e], t, prodVol)
                              ELSE soln)
      /\ frame' = [frame EXCEPT !.bopIdx = @ + 1]
      /\ pc' = "bop"
      /\ UNCHANGED <<req, cursor, ok>> /\ CommitUnchanged

\* The end of innerExplodeBopEnt: the requirement takes what it needs of
\* what was made.
UseProduct ==
  /\ pc = "bop"
  /\ frame.bopIdx \notin DOMAIN Bop[FrameOpn]
  /\ Write(AddAvail(soln, frame.part, frame.fillPer, -frame.qty))
  /\ frame' = NoFrame
  /\ pc' = "fill"
  /\ UNCHANGED <<req, cursor, ok>> /\ CommitUnchanged

------------------------------------------------------------------------------
(***************************************************************************)
(* The end of commit: myReqSched->clear () and tempCommRepos->restore ().  *)
(***************************************************************************)

ClearReqSched ==
  /\ pc = "clear"
  /\ req' = IF Clean(req) THEN req ELSE RestoreStep(req)
  /\ pc' = IF Clean(req) THEN "restore" ELSE "clear"
  /\ UNCHANGED <<soln, base, cursor, frame, ok>> /\ CommitUnchanged

RestoreSoln ==
  /\ pc = "restore"
  /\ soln' = IF Clean(soln) THEN soln ELSE RestoreStep(soln)
  /\ pc' = IF Clean(soln) THEN "return" ELSE "restore"
  /\ UNCHANGED <<base, commVars>> /\ CommitUnchanged

------------------------------------------------------------------------------
(***************************************************************************)
(* enforceStockSLBs, called by HeurAllMgr::finish, and a new start.        *)
(***************************************************************************)

\* The stock bounds of a part, which has none unless it is a material.
SlbsOf(p) ==
  LET upTo[i \in 0..NPeriods] ==
        IF i = 0 THEN <<>>
        ELSE IF CanStock(p, i - 1) /\ StockSLB[p][i - 1] > 0
             THEN Append(upTo[i - 1], [mat |-> p, per |-> i - 1]) ELSE upTo[i - 1]
  IN  upTo[NPeriods]

SlbOrder == IF PrefHighStockSLBs THEN Reverse(SortedParts) ELSE SortedParts

FinishHeurAlloc ==
  /\ pc = "idle"
  /\ slbs' = FlattenSeq([i \in DOMAIN SlbOrder |-> SlbsOf(SlbOrder[i])])
  /\ pc' = "slb"
  /\ UNCHANGED <<inputs, soln, base, shipVol, blocked, callVars, mode, commVars>>

\* What is in stock at the end of period t is available one period later.
KeepInStock(s, m, t, vol) ==
  IF t < NPeriods - 1 THEN AddAvail(s, m, t + 1, vol) ELSE s

\* reserveAchStSLB: what is available is reserved for the stock at the end
\* of the period, by making it available one period later.
EnforceStockSLB(m, t) ==
  LET slb == StockSLB[m][t]
      res == AvailToNet(soln, m, t, slb, 0)
      taken == AddAvail(soln, m, t, -res)
  IN  /\ pc = "slb"
      /\ slbs # <<>>
      /\ slbs[1] = [mat |-> m, per |-> t]
      /\ Write(IF res <= 0 THEN soln ELSE KeepInStock(taken, m, t, res))
      /\ netQty' = slb - Max({0, res})
      /\ call' = [NoCall EXCEPT !.kind = "slb", !.per = t, !.vol = netQty',
                                !.todo = <<t>>]
      /\ pc' = "cmq"
      /\ UNCHANGED <<inputs, results, top, search, mode, commVars>>

\* The end of enforceStockSLB: what was committed goes into stock.
StockSLBEnforced(m, t) ==
  LET vol == call.vol - netQty
  IN  /\ pc = "cmq"
      /\ call.kind = "slb"
      /\ call.todo = <<>> \/ netQty = 0
      /\ slbs[1] = [mat |-> m, per |-> t]
      /\ Write(IF vol > 0 THEN KeepInStock(soln, m, t, vol) ELSE soln)
      /\ slbs' = Tail(slbs)
      /\ call' = NoCall
      /\ netQty' = 0
      /\ pc' = "slb"
      /\ UNCHANGED <<inputs, shipVol, blocked, top, search, mode, commVars>>

StockSLBsEnforced ==
  /\ pc = "slb"
  /\ slbs = <<>>
  /\ pc' = "done"
  /\ UNCHANGED <<inputs, soln, base, results, callVars, mode, commVars>>

\* HeurAllMgr::start makes a new HeurAtor, with a cleared solution.
StartHeurAlloc ==
  /\ pc = "done"
  /\ soln' = NewStore(InitMem(supplyVol))
  /\ base' = InitMem(supplyVol)
  /\ shipVol' = [d \in Demands |-> [t \in Periods |-> 0]]
  /\ blocked' = {}
  /\ pc' = "idle"
  /\ UNCHANGED <<inputs, slbs, callVars, mode, commVars>>

------------------------------------------------------------------------------

\* What the application calls, and what the thread then does by itself.
Call == \/ \E d \in Demands, t \in Periods, v \in 1..MaxDesIncVol :
             IncHeurAlloc(d, t, v)
        \/ FinishHeurAlloc
        \/ StartHeurAlloc

MaxQtyStep ==
  \/ SkipBlocked
  \/ CommitMaxQty
  \/ TempCommit
  \/ PermCommit
  \/ TempCommitReturns
  \/ PermCommitReturns
  \/ CommitMaxQtyEnds
  \/ PostIncHeurAlloc

FillStep ==
  \/ \E r \in NextReqs : NetReq(r[1], r[2])
  \/ \E r \in NextReqs, rollPer \in Periods \cup {-1} :
       NetAndRollReq(r[1], r[2], rollPer)
  \/ AllFilled
  \/ CannotExplode
  \/ \E e \in ExpAllowed, t \in Periods : ExplodeBopEnt(e, t)

ExplodeStep ==
  \/ BomEntryNotInEffect
  \/ ExplodeBomEntry
  \/ NetConsEntry
  \/ NetByProductEntry
  \/ SkipSubEntry
  \/ ExplodeConsEntry
  \/ BomEntriesExploded
  \/ ExplodeBopEntry
  \/ UseProduct

UndoStep == ClearReqSched \/ RestoreSoln

StockSLBStep ==
  \/ \E m \in Materials, t \in Periods : EnforceStockSLB(m, t)
  \/ \E m \in Materials, t \in Periods : StockSLBEnforced(m, t)
  \/ StockSLBsEnforced

Run == MaxQtyStep \/ FillStep \/ ExplodeStep \/ UndoStep \/ StockSLBStep

Next == Call \/ Run

\* The thread that has entered a call keeps running.
Spec == Init /\ [][Next]_vars /\ WF_vars(Run)
=============================================================================
