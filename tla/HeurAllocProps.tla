---------------------------- MODULE HeurAllocProps ----------------------------
(***************************************************************************)
(* What heuristic allocation promises.  "At rest" means that no commit is  *)
(* in progress: the solution is then what the permanent commits have made  *)
(* of it.                                                                  *)
(***************************************************************************)
EXTENDS HeurAlloc

AtRest == mode = "none"

\* Between two calls of the application.
Idle == pc \in {"idle", "done"}

TotalOf(f, S) == FoldFunctionOnSet(LAMBDA a, b : a + b, 0, f, S)

------------------------------------------------------------------------------

PcValues == {"idle", "cmq", "try", "perm", "fill", "explode", "bom", "net",
             "cons", "bop", "clear", "restore", "return", "cmqEnd", "slb",
             "done", "fatal"}

IsStore(s, locs) ==
  /\ s.mem \in [locs -> Int]
  /\ DOMAIN s.log = Kinds
  /\ \A k \in Kinds : \A i \in DOMAIN s.log[k] :
       s.log[k][i].loc \in locs /\ KindOf(s.log[k][i].loc) = k

\* Types of the variables; volumes that the code treats as nonnegative are
\* nonnegative, and the commit flags agree with the program point.
TypeOK ==
  /\ IsStore(soln, SolnLocs)
  /\ base \in [SolnLocs -> Int]
  /\ IsStore(req, ReqLocs)
  /\ shipVol \in [Demands -> [Periods -> Nat]]
  /\ blocked \subseteq Parts \X Periods
  /\ netQty \in 0..call.vol
  /\ mode \in {"none", "temp", "perm"}
  /\ mode # "none" <=> pc \in {"fill", "explode", "bom", "net", "cons", "bop",
                               "clear", "restore", "return"}
  /\ pc \in PcValues
  /\ ok \in BOOLEAN

------------------------------------------------------------------------------
(***************************************************************************)
(* Temporary commits.                                                      *)
(***************************************************************************)

\* In the middle of a temporary commit, at each of its writes and each step
\* of its restoration, the data repository holds what is needed to bring the
\* solution back to what it was before.
Undoable == mode = "temp" => Recovers(soln, base)

\* A temporary commit leaves no trace: whenever no temporary commit is in
\* progress, the availability schedule, the execution and the substitution
\* volumes are those of the permanent commits alone, and nothing is saved.
NoTrace == mode # "temp" => soln.mem = base /\ Clean(soln)

\* Both: a failed attempt of the binary search, however far it has got before
\* it fails, is undone completely by AttRepos::restore.
TempCommitsUndo == Undoable /\ NoTrace

\* What a temporary commit has found possible is possible: the permanent
\* commit that follows the search never fails (permCommitFailedFmsg).
PermCommitSucceeds == pc # "fatal"

\* Every commit starts with an empty requirements schedule.
ReqSchedCleared ==
  mode = "none" => req.mem = NoReqs /\ Clean(req)

------------------------------------------------------------------------------
(***************************************************************************)
(* The iteration of innerCommit.                                           *)
(***************************************************************************)

\* No step of a commit changes a requirement that the iteration has passed:
\* a requirement that is added to behind the cursor would never be filled.
NoReqBehindCursor ==
  [][(pc \in {"fill", "explode", "bom", "net", "cons", "bop"}) =>
       \A i \in DOMAIN TopList, t \in Periods :
          (i < cursor.idx \/ (i = cursor.idx /\ t <= cursor.per)) =>
             ReqVol(req', TopList[i], t) = ReqVol(req, TopList[i], t)]_vars

------------------------------------------------------------------------------
(***************************************************************************)
(* The availability schedule.                                              *)
(***************************************************************************)

\* lastDecPer is an upper bound on the periods with negative availability, at
\* every step of temporary and permanent commits: allocedVol (AvailSched.C:450)
\* and rollPeriod (515) look no further.  restore() empties the stack of integers
\* before that of volumes (Repos.C:102-110), so that the bound fails in the
\* middle of a restoration, where nothing reads it.
LastDecIsBound ==
  pc # "restore" =>
    \A m \in Materials, t \in Periods :
       IncAvailVol(soln, m, t) < 0 => t <= LastDecPer(soln, m)

\* allocedVol may ignore mandatory ECs, as its comment says, because no
\* stock is ever allocated across one.
NothingAllocedAcrossEC ==
  pc \in {"fill", "net"} =>
    \A m \in Materials, t \in Periods :
       MandEC[m][t] => AllocedVol(soln, m, t) = 0

\* verifyUhsNNScrapCon: carrying over what can be stocked, the availability
\* avail[p][t] is never negative.
NNScrap(avail) ==
  \A p \in Parts :
    LET left[t \in -1..(NPeriods - 1)] ==
          IF t = -1 THEN 0
          ELSE (IF t > 0 /\ CanStock(p, t - 1) THEN Max({0, left[t - 1]}) ELSE 0)
               + avail[p][t]
    IN  \A t \in Periods : left[t] >= 0

\* The schedule never promises more than there is, at rest and each time
\* that a requirement is about to be netted.
ScheduleIsFeasible ==
  AtRest \/ pc = "fill" =>
    NNScrap([p \in Parts |-> [t \in Periods |-> IncAvailVol(soln, p, t)]])

\* initForUHS: what the solution itself leaves of each part.
NonSubVol(b, u) ==
  ExecVol(soln, OpnOf[b], u)
    - TotalOf([i \in DOMAIN Subs[b] |-> SubVol(soln, Subs[b][i], u)],
             DOMAIN Subs[b])

EntryVol(e, u) ==
  CASE e \in BopEntries -> Rate[e] * ExecVol(soln, OpnOf[e], u)
    [] e \in BomEntries -> -(Rate[e] * NonSubVol(e, u))
    [] e \in SubEntries -> -(Rate[e] * SubVol(soln, e, u))

Impacts == {x \in Entries \X Periods : InEffect(x[1], x[2])}

LeftBySoln ==
  [p \in Parts |-> [t \in Periods |->
     supplyVol[p][t]
       + TotalOf([x \in Impacts |-> EntryVol(x[1], x[2])],
                {x \in Impacts : PartOf[x[1]] = p /\ Impact[x[1]][x[2]] = t})
       - TotalOf([d \in Demands |-> shipVol[d][t]],
                {d \in Demands : DemandedPart[d] = p})]]

\* The solution is feasible: the executions, substitutions and shipments of
\* every call so far can all be met from supply and production, with stock
\* carried over only where that is allowed.
SolutionIsFeasible == Idle => NNScrap(LeftBySoln)

\* How much the schedule offers less, up to each period, than what the
\* solution leaves.
Withheld ==
  LET left == LeftBySoln
  IN  [p \in Parts |-> [t \in Periods |->
         TotalOf([u \in Periods |-> left[p][u] - IncAvailVol(soln, p, u)], 0..t)]]

\* What AvailSched.h says of incAvailVol_: supply plus production minus
\* consumption minus shipment, and minus the increase of the stock that is
\* reserved for a soft lower bound.  What is reserved is never more than the
\* bound, and nothing before allocation finishes.
ScheduleIsBalance ==
  Idle => \A p \in Parts, t \in Periods :
            Withheld[p][t] \in
              0..(IF pc = "done" /\ CanStock(p, t) THEN StockSLB[p][t] ELSE 0)

\* With build-ahead by demand the schedule anticipates shipments that are
\* still to come, but never offers what was shipped already.
ScheduleIsCovered ==
  Idle => \A p \in Parts, t \in Periods : Withheld[p][t] >= 0

\* The availability schedule and the solution never promise more than there
\* is, after any series of commits, tentative and permanent.
PromisesAreFeasible == ScheduleIsFeasible /\ SolutionIsFeasible

------------------------------------------------------------------------------
(***************************************************************************)
(* The solution.                                                           *)
(***************************************************************************)

\* Execution volumes, permanent or tentative, respect the hard upper bounds
\* and the lot sizes, whatever the order in which they were increased.
ExecVolsRespectBounds ==
  \A o \in Operations, t \in Periods :
    LET v == ExecVol(soln, o, t)
    IN  /\ v >= 0
        /\ ExecBoundIsSatisfied(o, v)
        /\ (v > 0 /\ LotSizes[o].inc > 0) => TllsVol(LotSizes[o], v) = v

\* No more units are substituted for an entry than its operation executes.
SubVolWithinExecVol ==
  AtRest => \A b \in BomEntries, u \in Periods : NonSubVol(b, u) >= 0

\* Shipment never runs ahead of demand: cumulatively where late shipment is
\* allowed, period by period where it is not.
ShipWithinDemand ==
  \A d \in Demands, t \in Periods : DemandedIncVolUB(d, t) >= 0

\* The three books that the permanent commits of a long series of calls keep
\* apart agree: the schedule with the executions and shipments, the
\* substitutions with the executions, the shipments with the demand.
SolutionAddsUp ==
  ScheduleIsCovered /\ SubVolWithinExecVol /\ ShipWithinDemand
=============================================================================
