------------------------------ MODULE Lifecycle ------------------------------
(***************************************************************************)
(* The life cycle of the problem in a WitRun: which of its derived data    *)
(* structures exist, and what each API call builds, keeps and discards.    *)
(*                                                                         *)
(* WitProblem (Problem.C) owns a preprocessor (Pre.C), a postprocessor     *)
(* (Post.C), a manager of heuristic allocation (HeurAll.C) with an         *)
(* equitable allocator (EqAll.C), and a manager of optimizing implosion    *)
(* (DetOptImpMgr.C).  Each keeps a state of its own and calls the others   *)
(* when that state changes.  Every API function is a short program over    *)
(* these calls; here each of them is an operator from one state of the     *)
(* run, a record, to the next.                                             *)
(*                                                                         *)
(* The data itself is abstracted: an attribute is known by what has to be  *)
(* discarded when it changes.  Of a bound set the model keeps by how much  *)
(* its soft lower bound exceeds its hard lower bound.                      *)
(***************************************************************************)
EXTENDS Naturals

CONSTANTS
  Profiles, \* sets of API functions: an application uses those of one
  Gaps      \* the gaps between soft and hard lower bound that it uses

\* A gap of 1 is positive, but no more than FLOAT_EPSILON.
NoGap == 0
Tiny  == 1
Wide  == 2

ASSUME GapsAssumption == Gaps \subseteq {NoGap, Tiny, Wide} /\ NoGap \in Gaps

Variants == {"input", "heur", "heurOpt", "opt", "extOpt"}
Internal == Variants \ {"input"}
Starters == {"heuristic", "crash", "schedule", "accelerated"}

VARIABLES
  run,      \* the state of the WitRun
  used      \* the API functions that the application uses

vars == <<run, used>>

-------------------------------------------------------------------------------
\* The state of a new WitProblem.  History: "tables", whether the derived
\* tables were computed from the present data; "results", whether the results
\* were; "author", what computed the present solution; "init", the initial
\* solution method that the latest optimizing implosion has used.
Fresh ==
  [preprocessed |-> FALSE, tables |-> FALSE,
   postprocessed |-> FALSE, results |-> FALSE, pip |-> FALSE, fss |-> FALSE,
   variant |-> "input", author |-> "input",
   heur |-> FALSE, mods |-> FALSE, pegs |-> FALSE, eqActive |-> FALSE,
   op |-> "none", accelerated |-> FALSE, init |-> "none",
   extOptActive |-> FALSE, extOptMgr |-> "none",
   optInitMethod |-> "crash", accAfterOptImp |-> FALSE,
   accAfterSoftLB |-> FALSE, gap |-> NoGap,
   modHeurAlloc |-> FALSE, perfPegging |-> FALSE, ok |-> TRUE]

\* An assertion of the code: when it fails, the process ends.
Assert(w, holds) == [w EXCEPT !.ok = @ /\ holds]

-------------------------------------------------------------------------------
\* Calls between the parts of the problem.

\* WitHeurAllMgr::reset: the WitHeurAtor goes, and with it its modifier.
HeurReset(w) ==
  IF w.heur
    THEN [w EXCEPT !.heur = FALSE, !.mods = FALSE, !.pegs = FALSE,
                   !.eqActive = FALSE]
    ELSE w

Unpostprocess(w) ==
  IF w.postprocessed
    THEN [w EXCEPT !.postprocessed = FALSE, !.pip = FALSE, !.fss = FALSE]
    ELSE w

\* Mutant: only a postprocessed solution loses its variant.
ResetSolnLate(w) ==
  HeurReset(Unpostprocess(
    IF w.postprocessed THEN [w EXCEPT !.variant = "input"] ELSE w))

ResetSoln(w) == HeurReset(Unpostprocess([w EXCEPT !.variant = "input"]))

MakeCurrent(w, v) == [ResetSoln(w) EXCEPT !.variant = v]

\* WitOptStarter::beChosen
Choose(w, starter) ==
  [Assert(w, (starter = "accelerated") <=> w.accelerated)
     EXCEPT !.optInitMethod = starter]

\* Mutant: the acceleration outlives the optimization problem.
ShutDownKeepsAcc(w) == [w EXCEPT !.op = "none"]

\* WitDetOptImpMgr::shutDown
Unaccelerate(w) ==
  IF w.accelerated THEN Choose([w EXCEPT !.accelerated = FALSE], "crash") ELSE w

ShutDown(w) ==
  IF w.op = "none" THEN w ELSE [Unaccelerate(w) EXCEPT !.op = "none"]

Preprocess(w) ==
  IF w.preprocessed THEN w
  ELSE [w EXCEPT !.preprocessed = TRUE, !.tables = TRUE]

\* WitPreprocessor::getExpCycle shares setUp and shutDown with preprocess.
GetExpCycle(w) ==
  IF w.preprocessed THEN w ELSE [w EXCEPT !.preprocessed = TRUE]

Unpreprocess(w) ==
  IF w.preprocessed
    THEN [Choose(ShutDown(ResetSoln(w)), "crash")
            EXCEPT !.preprocessed = FALSE, !.tables = FALSE]
    ELSE w

Postprocess(w) ==
  IF w.postprocessed THEN w
  ELSE [Preprocess(HeurReset(w))
          EXCEPT !.postprocessed = TRUE, !.results = TRUE]

-------------------------------------------------------------------------------
\* Heuristic allocation and implosion.

NewHeurAtor(w, forOpt) ==
  [w EXCEPT !.heur = TRUE, !.mods = w.modHeurAlloc,
            !.pegs = ~forOpt /\ w.perfPegging,
            !.author = w.variant, !.results = FALSE]

\* WitHeurAllMgr::start
StartHeur(w, forOpt) ==
  LET c == MakeCurrent(ResetSoln(w), IF forOpt THEN "heurOpt" ELSE "heur")
  IN  NewHeurAtor(Preprocess(c), forOpt)

\* WitEqAllocator::activate
ActivateEq(w) ==
  IF w.eqActive THEN w ELSE [Assert(w, w.heur) EXCEPT !.eqActive = TRUE]

HeurImplode(w, forOpt) ==
  Postprocess(ActivateEq(StartHeur(Preprocess(w), forOpt)))

\* WitHeurAllMgr::modifiable
Modifiable(w) == w.heur /\ w.modHeurAlloc

-------------------------------------------------------------------------------
\* Optimizing implosion.

\* WitBoundedVar::needsAnSlbvVar
NeedsSlbvVar(w) == w.accAfterSoftLB \/ w.gap > Tiny

\* WitDetOptImpMgr::setUpOptProblem: the variables are generated only once.
SetUpOptProblem(w) ==
  IF w.op # "none" THEN w
  ELSE [w EXCEPT !.op = IF NeedsSlbvVar(w) THEN "slbv" ELSE "plain"]

CompInitSoln(w) ==
  LET s == [w EXCEPT !.init = w.optInitMethod]
  IN  IF w.optInitMethod = "heuristic" THEN HeurImplode(s, TRUE)
      ELSE IF w.optInitMethod = "accelerated" THEN Assert(s, w.accelerated)
      ELSE IF w.optInitMethod = "schedule" THEN Postprocess(s)
      ELSE s

\* Mutant: what was kept is discarded first, as for a change of the data.
StartOptImpAfresh(w) ==
  LET p == Preprocess(ShutDown(ResetSoln([w EXCEPT !.init = "none"])))
  IN  SetUpOptProblem(IF p.extOptActive THEN p ELSE CompInitSoln(p))

StartOptImp(w) ==
  LET p == Preprocess(ResetSoln([w EXCEPT !.init = "none"]))
  IN  SetUpOptProblem(IF p.extOptActive THEN p ELSE CompInitSoln(p))

FinishOptImp(w) ==
  LET u == [w EXCEPT !.author = w.variant, !.results = FALSE]
  IN  Postprocess(
        IF w.accAfterOptImp
          THEN Choose([u EXCEPT !.accelerated = TRUE], "accelerated")
          ELSE ShutDown(u))

OptImplode(w) == FinishOptImp(MakeCurrent(StartOptImp(w), "opt"))

EvalObjectives(w) ==
  Postprocess(SetUpOptProblem(Preprocess(MakeCurrent(w, "input"))))

StartExtOpt(w) ==
  LET a == [Assert(w, ~w.accAfterOptImp /\ ~w.extOptActive)
              EXCEPT !.extOptActive = TRUE]
  IN  [StartOptImp(a) EXCEPT !.extOptMgr = "created"]

\* Mutant: the manager is deleted, but the state remains active.
FinishExtOptActive(w) ==
  LET a == [Assert(w, w.extOptActive) EXCEPT !.extOptMgr = "none"]
  IN  FinishOptImp(MakeCurrent(a, "extOpt"))

FinishExtOpt(w) ==
  LET a == [Assert(w, w.extOptActive) EXCEPT !.extOptMgr = "none"]
  IN  [FinishOptImp(MakeCurrent(a, "extOpt")) EXCEPT !.extOptActive = FALSE]

ShutDownExtOpt(w) ==
  ShutDown([Assert(w, w.extOptActive) EXCEPT !.extOptMgr = "none"])

-------------------------------------------------------------------------------
\* Attributes.

\* Attributes that the derived tables depend on (WitOptComp::setMipMode) ...
SetUnpreAttr(w) ==
  [Unpreprocess(w) EXCEPT !.tables = FALSE, !.results = FALSE]

\* ... and those that only the results depend on (WitOptComp::setCompPrices).
SetUnpostAttr(w) == [ResetSoln(w) EXCEPT !.results = FALSE]

\* The execution, substitution and shipment volumes.
SetVol(w) ==
  LET v == IF Modifiable(w) THEN Assert(w, w.mods)
           ELSE [ResetSoln(Choose(ShutDown(w), "schedule"))
                   EXCEPT !.author = "input"]
  IN  [v EXCEPT !.results = FALSE]

\* WitBoundSet::unaccNeeded
UnaccNeeded(w, g) ==
  w.accelerated /\ ~w.accAfterSoftLB /\ w.gap = NoGap /\ g > NoGap

\* Mutant: the new bounds are added to the old ones.
SetBoundsAdds(w, g) ==
  LET r == ResetSoln(w)
      d == IF UnaccNeeded(r, g) THEN ShutDown(r) ELSE r
  IN  [d EXCEPT !.gap = @ + g, !.results = FALSE]

SetBounds(w, g) ==
  LET r == ResetSoln(w)
      d == IF UnaccNeeded(r, g) THEN ShutDown(r) ELSE r
  IN  [d EXCEPT !.gap = g, !.results = FALSE]

SetAccAfterOptImp(w, b) ==
  [ResetSoln(IF b THEN w ELSE ShutDown(w)) EXCEPT !.accAfterOptImp = b]

SetAccAfterSoftLB(w, b) ==
  LET r == ResetSoln(w)
      d == IF b # r.accAfterSoftLB THEN ShutDown(r) ELSE r
  IN  [d EXCEPT !.accAfterSoftLB = b]

SetModHeurAlloc(w, b) == [ResetSoln(w) EXCEPT !.modHeurAlloc = b]

\* Mutant: the pegger is replaced under a running allocation.
SetPerfPeggingOnly(w, b) == [w EXCEPT !.perfPegging = b]

SetPerfPegging(w, b) == [ResetSoln(w) EXCEPT !.perfPegging = b]

SetOptInitMethod(w, starter) == Choose(ShutDown(w), starter)

\* WitProblem::~WitProblem: preprocessing is undone, and whatever is left is
\* deleted, the optimization problem while the attributes are still there.
Initialize(w) == [Fresh EXCEPT !.ok = Unpreprocess(w).ok]

-------------------------------------------------------------------------------
\* The API.  A call that is refused makes the run unusable (see ApiMgr), so
\* the application makes the calls that the run allows.

\* What the API functions ask (DetOptImpMgr.h).
ApiExtOptActive == run.extOptMgr # "none"

\* A call of an API function, by what it makes of the run.  A failed assertion
\* ends the process in the middle of the call.
Does(w) ==
  /\ run.ok
  /\ run' = IF w.ok THEN w ELSE [run EXCEPT !.ok = FALSE]
  /\ UNCHANGED used

\* Most functions are refused while external optimization is active.
Calling(fn) == fn \in used /\ ~ApiExtOptActive

witInitialize      == "Initialize" \in used /\ Does(Initialize(run))
witPreprocess      == Calling("Preprocess") /\ Does(Preprocess(run))
witPostprocess     == Calling("Postprocess") /\ Does(Postprocess(run))
witGetExpCycle     == Calling("GetExpCycle") /\ Does(GetExpCycle(run))
witHeurImplode     == Calling("HeurImplode") /\ Does(HeurImplode(run, FALSE))
witStartHeurAlloc  == Calling("StartHeurAlloc") /\ Does(StartHeur(run, FALSE))
witEqHeurAlloc ==
  run.heur /\ Calling("EqHeurAlloc") /\ Does(ActivateEq(run))
witFinishHeurAlloc ==
  run.heur /\ Calling("FinishHeurAlloc") /\ Does(Postprocess(run))
witShutDownHeurAlloc ==
  run.heur /\ Calling("ShutDownHeurAlloc") /\ Does(HeurReset(run))
witBuildPip ==
  run.postprocessed /\ Calling("BuildPip") /\ Does([run EXCEPT !.pip = TRUE])
witGetFss ==
  /\ run.postprocessed /\ run.variant # "input"
  /\ Calling("GetFss") /\ Does([run EXCEPT !.fss = TRUE])
witOptImplode      == Calling("OptImplode") /\ Does(OptImplode(run))
witEvalObjectives  == Calling("EvalObjectives") /\ Does(EvalObjectives(run))
witStartExtOpt ==
  ~run.accAfterOptImp /\ Calling("StartExtOpt") /\ Does(StartExtOpt(run))
witSetExtOptSoln ==
  /\ "SetExtOptSoln" \in used /\ ApiExtOptActive
  /\ Does([run EXCEPT !.extOptMgr = "provided"])
witFinishExtOpt ==
  /\ "FinishExtOpt" \in used /\ run.extOptMgr = "provided"
  /\ Does(FinishExtOpt(run))
witShutDownExtOpt ==
  "ShutDownExtOpt" \in used /\ ApiExtOptActive /\ Does(ShutDownExtOpt(run))
witSetUnpreAttr    == Calling("SetUnpreAttr") /\ Does(SetUnpreAttr(run))
witSetUnpostAttr   == Calling("SetUnpostAttr") /\ Does(SetUnpostAttr(run))
witSetVol          == Calling("SetVol") /\ Does(SetVol(run))
witSetBounds ==
  \E g \in Gaps : Calling("SetBounds") /\ Does(SetBounds(run, g))
witSetAccAfterOptImp ==
  \E b \in BOOLEAN :
    Calling("SetAccAfterOptImp") /\ Does(SetAccAfterOptImp(run, b))
witSetAccAfterSoftLB ==
  \E b \in BOOLEAN :
    Calling("SetAccAfterSoftLB") /\ Does(SetAccAfterSoftLB(run, b))
witSetModHeurAlloc ==
  \E b \in BOOLEAN :
    Calling("SetModHeurAlloc") /\ Does(SetModHeurAlloc(run, b))
witSetPerfPegging ==
  \E b \in BOOLEAN :
    Calling("SetPerfPegging") /\ Does(SetPerfPegging(run, b))
witSetOptInitMethod ==
  \E s \in Starters \ {"accelerated"} :
    Calling("SetOptInitMethod") /\ Does(SetOptInitMethod(run, s))

Init == run = Fresh /\ used \in Profiles

Next ==
  \/ witInitialize \/ witPreprocess \/ witPostprocess \/ witGetExpCycle
  \/ witHeurImplode \/ witStartHeurAlloc \/ witEqHeurAlloc
  \/ witFinishHeurAlloc \/ witShutDownHeurAlloc
  \/ witBuildPip \/ witGetFss
  \/ witOptImplode \/ witEvalObjectives
  \/ witStartExtOpt \/ witSetExtOptSoln \/ witFinishExtOpt
  \/ witShutDownExtOpt
  \/ witSetUnpreAttr \/ witSetUnpostAttr \/ witSetVol \/ witSetBounds
  \/ witSetAccAfterOptImp \/ witSetAccAfterSoftLB
  \/ witSetModHeurAlloc \/ witSetPerfPegging \/ witSetOptInitMethod

Spec == Init /\ [][Next]_vars

-------------------------------------------------------------------------------
\* Properties.

\* The states of the parts.
RunRec ==
  [preprocessed : BOOLEAN, tables : BOOLEAN,
   postprocessed : BOOLEAN, results : BOOLEAN, pip : BOOLEAN, fss : BOOLEAN,
   variant : Variants, author : Variants,
   heur : BOOLEAN, mods : BOOLEAN, pegs : BOOLEAN, eqActive : BOOLEAN,
   op : {"none", "plain", "slbv"}, accelerated : BOOLEAN,
   init : Starters \cup {"none"},
   extOptActive : BOOLEAN, extOptMgr : {"none", "created", "provided"},
   optInitMethod : Starters, accAfterOptImp : BOOLEAN,
   accAfterSoftLB : BOOLEAN, gap : Gaps,
   modHeurAlloc : BOOLEAN, perfPegging : BOOLEAN, ok : BOOLEAN]

\* Every part is in one of its states.
TypeOK == run \in RunRec

\* Three promises of the documentation, each of which one function breaks.

\* An assertion of WIT never fails.
NoAssertionFails == run.ok

\* A preprocessed run has the tables that its present data gives.
PreprocessedHasTables == run.preprocessed => run.tables

\* An optimization problem that is kept has the variables for violating soft
\* lower bounds that its present bound sets need.
SoftBoundsCanBeViolated ==
  NeedsSlbvVar(run) /\ run.op # "none" => run.op = "slbv"

\* No sequence of calls without witShutDownExtOpt makes an assertion of WIT
\* fail: the starting method that is chosen fits the acceleration
\* (OptComp.C:435), external optimization starts and ends once
\* (DetOptImpMgr.C:160, 179), the equitable allocator is activated only during
\* an allocation (EqAll.C:112), and the optimization problem is gone before
\* the attributes that its deletion reads.
AssertionsHold == "ShutDownExtOpt" \notin used => NoAssertionFails

\* What is postprocessed is preprocessed and no longer being allocated, and
\* what rests on postprocessing goes with it: a PIP or a shortage schedule
\* never outlives the solution it was computed from.
PostprocessedIsFinal ==
  /\ run.postprocessed => run.preprocessed /\ ~run.heur
  /\ run.pip \/ run.fss => run.postprocessed
  /\ run.fss => run.variant # "input"

\* An allocation under way stands on derived tables, its modifier and its
\* pegger are the ones that the attributes call for (they are looked up
\* without a check), and the equitable allocator works only while it lasts.
AllocationIsConsistent ==
  /\ run.heur => /\ run.preprocessed
                 /\ run.variant = "heur"
                 /\ run.mods = run.modHeurAlloc
                 /\ run.pegs = run.perfPegging
  /\ run.eqActive => run.heur

\* An accelerated run has an optimization problem to start from, and the
\* starting method says so; an optimization problem stands on derived tables.
AccelerationIsSound ==
  /\ run.accelerated <=> run.optInitMethod = "accelerated"
  /\ run.accelerated => run.op # "none" /\ run.accAfterOptImp
  /\ run.op # "none" => run.preprocessed

\* The attribute "postprocessed" means that feasible, stockVol, scrapVol and
\* excessVol correspond to the present input data and schedules.
ResultsAreCurrent == run.postprocessed => run.results

\* Nothing but witGetExpCycle leaves a run that counts as preprocessed without
\* the tables that its present data gives.
TablesAreCurrent == "GetExpCycle" \notin used => PreprocessedHasTables

\* The variant, which decides what the feasibility check respects, names what
\* has computed the present solution whenever it is not the user.
VariantIsAuthor == run.variant # "input" => run.variant = run.author

\* Nothing but witEvalObjectives leaves an optimization problem that a change
\* of a bound set can make unfit: one that is kept always has the variables
\* that its soft lower bounds need.
SoftBoundsHaveVars ==
  "EvalObjectives" \notin used => SoftBoundsCanBeViolated

\* External optimization is active exactly while its manager exists, and then
\* there is an optimization problem for the application to solve; unless
\* witShutDownExtOpt has been called.
ExtOptIsConsistent ==
  "ShutDownExtOpt" \notin used =>
    /\ run.extOptActive <=> ApiExtOptActive
    /\ run.extOptActive => run.op # "none" /\ ~run.accAfterOptImp

\* What is said to be derived is derived from the data and the solution of
\* now: tables, postprocessed results, PIP, shortage schedule and variant.
DerivedDataIsCurrent ==
  TablesAreCurrent /\ ResultsAreCurrent /\ PostprocessedIsFinal /\ VariantIsAuthor

\* The optimization problem, the accelerated state and external optimization
\* exist only together with what they rest on.
OptimizationIsSound ==
  AccelerationIsSound /\ ExtOptIsConsistent /\ SoftBoundsHaveVars

\* Optimizing implosion starts from the initial solution that optInitMethod
\* asks for when it is called, if witShutDownExtOpt is not used.
StartsAsAsked ==
  [][witOptImplode /\ "ShutDownExtOpt" \notin used =>
       run'.init = run.optInitMethod]_vars
=============================================================================
