# Verification of WIT, the implosion engine of CMMPPT

WIT (`src/wit`) plans production: given supplies, demands, bills of materials
and capacities over a number of periods, *implosion* decides what is made,
substituted and shipped when.  This project models the parts of WIT that hold
its own logic and state - the heuristic engine, the life cycle of a problem and
the API manager - in TLA+, checks them with TLC on small instances and proves
properties of them with TLAPS for all instances.

All sources named below are in `src/wit/src`.

## 1. Inventory

| component | state it keeps | operations | what is hard | what makes it correct |
|---|---|---|---|---|
| **undo log** `WitDataRepos` (Repos.C) | six stacks of saved values | `saveVal`, `saveExecVol`, `saveSubVol`, `restore`, `restoreAndSave`, `clear` | a variable saved many times; undo in the middle of anything | restore brings every variable back to its value at the last empty log |
| **network tables** (Pre.C, PreHelp.C, MatCap.C) | explodeable entries, explosion periods, mandatory ECs, below lists | `preprocess`, `findMandECs`, `buildBelow`, ... | tables derived from each other in a fixed order | the iteration over a below list meets consumers before what they consume; no stock is carried across an EC |
| **availability schedule** `WitAvailSched` (AvailSched.C) | `incAvailVol_`, `lastDecPer_` | `netWoSR`, `netAndRoll`, `addToIncAvailVol`, `reserveAchStSLB` | updated incrementally, negative entries stand for promised stock | never promises more than there is; is the balance of the solution |
| **heuristic allocation** `WitHeurAtor`, `WitReqSched` (HeurAtor.C, HeurAll.C) | execution, substitution, shipment volumes; requirements schedule; `blocked_`; the commit flags | `incHeurAlloc`, `tempCommit`, `permCommit`, `enforceStockSLBs`, start, finish | trial commits that fail half way; the trial's verdict relied on later; requirements added while iterating | trials leave no trace, permanent commits succeed, the solution stays feasible |
| **modification** `WitHeurModifier` (HeurModifier.C) | what is to be checked, in five stacks | setting execution, substitution and shipment volumes between calls; `checkFeasibility` | availability must follow; only recorded constraints are checked | once they are checked, all of the solution is feasible |
| **selection** (Selector.C, MultiRoute.C, BuildAhd.C, MultiEx.C, PenExec.C, SelSplit.C, SelStRe.C) | the current choice of route, period and operation for each selection point | resolve after a failed commit, recover the initial state | a retry loop around commits with state recovery of its own | every failure resolves a selection or ends the loop; recovery restores all selections |
| **single-source allocation** `WitSglSrcMgr`, `WitSglSrcSite` | two pairs of repositories, the incumbent, a record per site | tries one candidate after the other, keeps what still gives the whole quantity | undo inside undo; records that outlive a trial | what is kept is the latest success; its sources are single unless every candidate failed |
| **equitable allocation** `WitEqAllocator` (EqAll.C) | `desIncVol_`, `prevDesVol_`, `incVol_` | rounds of `incHeurAlloc` over the targets | memory of earlier rounds, rounding of shares | a shortage is shared to within a round; nothing is remembered between calls |
| **heuristic implosion** `WitHeurImpPerf` (HeurImp.C) | unmet demand, the sorted demands, the selected group | three nested loops over demand period, shipment period and demand | sorting only where priorities change; groups of equal priority | priority is respected, nothing that a search finds is denied |
| **life cycle** `WitProblem`, `WitPreprocessor`, `WitPostprocessor`, `WitDetOptImpMgr`, `WitOptComp`, `WitVariant` | preprocessed, postprocessed, variant, active allocation, optimization problem, acceleration, external optimization | the shut-down and `prepSet...` functions that the API functions call | invalidation from many places | derived state is used only while it is valid |
| **API manager** `WitApiMgr`, `WitApiCall` | lock, return code, second manager and abort mark of a run | start and finish of each API function, exceptions | several threads; functions with two runs; calls cut short | one call at a time in a run; a lock is released; no work on a torn run |
| **critical lists, pegging, PIP** (HeurAll.C, Pegging.C, Pip*.C) | reports | record during commits or afterwards | stale current demand | reports only |
| **postprocessing** (Post.C, FeasChkr.C) | residuals, scrap, feasibility | `postprocess` | - | the balance, used here as a property |
| **MRP, optimization, stochastic mode, solvers, data I/O**; `mcl`, `sce`, `scenario`, `eso2`, `witj`, `gsa`, viewers | - | - | real-valued or pure input and output | not modelled |

How they interact: an application calls the API manager, which locks the run
and calls the function's body; what that builds and discards is the life
cycle.  `WitHeurAllMgr::start` preprocesses (network tables), resets the
solution and makes a `WitHeurAtor`, which owns the availability schedule, the
requirements schedule, the undo log and, if the application wants to modify the
allocation, a `WitHeurModifier`; equitable allocation and heuristic
implosion call `incHeurAlloc` in loops of their own; single-source allocation
replaces its search for the maximal quantity; `finish` enforces the soft
bounds on stock and postprocesses.  WIT itself starts no thread: the hard
behaviour is undo, deferred work and state that is updated incrementally over
long series of calls, and, where an application has several threads, the
locking of runs.

## 2. Plan

Done, in this order: `DataRepos`, `BomNetwork`, `AvailSched`, `HeurAlloc` and
`HeurAllocProps` (the undo log, the network tables and heuristic allocation);
`FindMandECs`; `ApiMgr`; `Lifecycle`; `SglSrc`; `HeurImplode` (with equitable
allocation); `HeurModifier`; and the proofs of section 5.

Next:

1. `Selection`: the retry loop of `WitSelector` over an abstract commit.
2. An abstract allocator ("a call ships some amount that is feasible and
   undoes the rest"), shown to be implemented by `HeurAlloc`, to replace the
   material of `HeurImplode`.
3. `NodeSorter` and `OffsetProc`, whose results are inputs of `BomNetwork`:
   the sort and the cycle it reports; integer rounding of offsets.

Theorems worth proving next, all of heuristic allocation:

* `CheckedIsFeasible`, the same books when the application sets volumes as well.  Stock
  bounds are enforced before the last check, so the invariants would have to hold of the
  parts that no setting has been recorded for, while others are short;
* refinement of the abstract allocator.

## 3. The modules

| module | models | shape |
|---|---|---|
| `DataRepos` | `WitDataRepos`, `WitVarRepos` and their stacks (Repos.C) | operators on a *store* `[mem, log]`: the variables it guards and one stack of saved values per repository |
| `BomNetwork` | what `WitPreprocessor` derives from bills and bounds (Pre.C, PreHelp.C, MatCap.C) | definitions over constants |
| `FindMandECs` | `findMandECs` | a state machine: one step per entry and pass; it instantiates `BomNetwork` with the changes chosen initially |
| `AvailSched` | `WitAvailSched` (AvailSched.C) and `WitReqSched` (HeurAll.C) | operators on stores |
| `HeurAlloc` | `WitHeurAtor` (HeurAtor.C) and the calls of `WitHeurAllMgr` | the state machine that composes the four above |
| `HeurAllocProps` | what allocation promises | properties |
| `HeurModifier` | `WitHeurModifier` and the setters that call it | extends the state machine of `HeurAlloc` with settings and checks |
| `SglSrc` | `WitSglSrcMgr`, `WitSglSrcSite`, multi-route selections | a state machine over an abstract allocation |
| `HeurImplode` | `WitHeurImpPerf`, `WitEqAllocator`, the allocation API (demApi.C) | a state machine; one `incHeurAlloc` is a step |
| `Lifecycle` | which derived state each API function builds, keeps and discards | one record; each function an operator on it, composed as the code composes its calls |
| `ApiMgr` | `WitApiMgr`, `WitApiCall` and the wrapper of every API function (api.C) | one process per thread |
| `MCHeur`, `MCSubs`, `MCRealloc`, `MCLots`, `MCMandECs`, `MCSglSrc`, `MCImplode`, `MCLife`, `MCApi` | - | small instances for TLC |
| `*Proofs` | - | theorems |
| `NumberFacts` | - | lemmas on whole numbers, sums and recursion that several of them use |

### Heuristic allocation

**State.** All variables that the code saves in a repository live in `mem`, a
function from locations such as `<<"exec", "execVol", o, t>>`, whose first
component names the repository (execution and substitution volumes have their
own).  `soln` is the store of `incAvailVol_`, `lastDecPer_`, `execVol`, `subVol`
(repository `tempCommRepos`); `req` is the store of the requirements schedule
with its `firstPer_` and `lastPer_`.  `base` is a history variable: the
value of the solution with temporary writes left out.  `frame`, `cursor`,
`search`, `top`, `call` are the local variables and object fields that are live
across steps; `pc` says which function the thread is in.

**Actions.** One action per handler of the recursion, at the granularity of one
entry of a bill, so that every intermediate state of an explosion and of a
restoration is a state of the model:

| `pc` | actions | code |
|---|---|---|
| `idle` | `IncHeurAlloc`, `FinishHeurAlloc` | `preIncHeurAlloc`, `doBaByDemand`; `WitHeurAllMgr::finish` |
| `cmq` | `SkipBlocked`, `CommitMaxQty`, `PostIncHeurAlloc` | `commitMaxQty`, `postIncHeurAlloc` |
| `try`, `perm` | `TempCommit`, `PermCommit` | `findMaxQty`, `binarySearch`, `tempCommit`, `permCommit` |
| `fill` | `NetReq`, `NetAndRollReq`, `AllFilled` | `innerCommit`, `fillReq`, `netAndRollReq` |
| `explode` | `ExplodeBopEnt`, `CannotExplode` | `fillNetReq`, `explodeBopEnt`, `checkExecBound` |
| `bom`, `net`, `cons`, `bop` | `ExplodeBomEntry`, `NetConsEntry`, `ExplodeConsEntry`, `ExplodeBopEntry`, ... | `innerExplodeBopEnt`, `explodeBomEntry`, `netConsEntry`, `explodeConsEntry`, `explodeBopEntries` |
| `clear`, `restore` | `ClearReqSched`, `RestoreSoln` | `commit` after `innerCommit`; one saved value per step |
| `return` | `TempCommitReturns`, `PermCommitReturns` | the search's decision; `fatal` stands for `permCommitFailedFmsg` |
| `cmqEnd` | `CommitMaxQtyEnds` | the end of `commitMaxQty`, where a part gets `blocked_` |
| `slb` | `EnforceStockSLB`, `StockSLBEnforced`, `StockSLBsEnforced` | `enforceStockSLBs` |
| `done` | `StartHeurAlloc` | `WitHeurAllMgr::start` after `finish` |

**Modification** (`HeurModifier`).  Between two calls `SetExecVol`, `SetSubVol` and
`SetShipVol` set a volume to anything: each writes the volume, adjusts the
availability entry by entry, and records in `toChk` what it may have violated.
`Inc`, `IncNothing` and `ShutDown` first check what is recorded (`Checked`);
`Refused` is the same call when the check fails, which ends the use of the run.  The
stacks of the code are sets here, since a check pops all of them and checking a
thing twice is checking it once.  A setting changes one period (`Changes`).

**Abstractions.** Volumes are whole numbers, so `NET_TOL` is 0 and consumption
rates of what may be netted are at most 1, exploded production rates exactly
1 (`WholeVolumesAssumption`).  It follows that the early return of
`explodeBopEnt` for a tiny increase cannot be taken.  Shares of multiple
routes, lead-time bounds, selective stock reallocation, pegging and critical
lists are switched off.  The order of
parts and of producing entries, impact periods and adjusted lot sizes are inputs
with the form the preprocessor gives them (an operation that is not executable in
a period has no entry in effect then, as `WitOffsetProc` leaves it).

### Single-source allocation

`alloc` stands for the volumes, one per candidate of a site and period; `config`
for the selections, the cached `hasResAlt_` and the flags that precede them;
`initLog` and `incumbLog` for the two pairs of repositories, each a store's log;
`site` for the fields of every `WitSglSrcSite`.  `CommitMaxQty` starts a call and
its multi-source allocation; `Allocate` makes one explosion or alteration of it,
`EndAlloc` decides with its result; `NextOpp` (`SelectDiscovery`, `TryNextCand`)
and `PreserveIncumb` are the loop; `RecoverInitState` is what happens to the
configuration between two calls.  `hist` is a history variable.  The allocation itself,
`WitSelector::commitMaxQty`, is abstracted to at most `MaxSteps` explosions and
alterations, in any order, that give the quantity in full or not.  Explosions of volume
zero, split selections, and the configuration variables of build-ahead and
multi-execution are left out: the repositories treat them like the others.

### Implosion and equitable allocation

`place` is where the three loops are, `sorted` the array that is sorted now and
then, `unmet` the private account of what is still to be met, `selected` the group
of equal priority that is waiting, `eq` the fields of the allocator, `work` the
progress of its rounds.  One `incHeurAlloc` is one step: all demands are for one
purchased material that can be stocked, so that a commit succeeds for what is
`Obtainable`, and no more.  `MaxQty` is what `findMaxQty` and `binarySearch` find
then: up to one search increment all or nothing, beyond it all or a multiple of the
increment of the demand.  `blocked` is the one row of `blocked_` that is left, with
which `skipFailures` refuses a period in which some demand did not get all it asked for;
`data.skipFailures` and `data.forcedMultiEq` take both values.  `SEARCH_TOL` (0.001
increments) and the 0.001 in the rounding of shares (EqAll.C:290) are 0: with whole
numbers they round nothing as long as increments are below 1000 and equitability times
increment is below 1000.  Left out: fractional search increments, directions of
multi-execution, automatic priorities, the variant that starts optimization, and lists
with duplicate targets (refused).
That earlier rounds are forgotten rests on an iterator that starts again after its
end (Stack.C:173-181); the model does what the code does there.

### Life cycle

`run` is one record with the state that the objects of a run keep about what is
derived from what; the operators have the names of the member functions and are
composed in their order (`unpreprocess` calls `shutDown` of optimization, and so on).
History fields (`tables`, `results`, `author`, `init`) say whether what is said to
be current is.  `used` is the set of API functions that the application uses: each of
three promises of the documentation is broken by one function (section 6),
and holds for applications without it.  Stochastic mode is never on;
refusals in multi-objective and MIP mode are left out; a bound set has one period.

### API manager

`mgr` has the fields of `WitApiMgr` per run, `call[t]` the place of thread `t` in
the call, `torn` (history) the runs on which a function's body was cut short.  The
test of the lock and its writing are two steps (`TestLock`, `Lock`; `TestLock2`,
`Lock2` for the second run).  The application obeys the documentation
(wit4.doc:316), which forbids overlapping calls for one run; what is checked is that WIT
then keeps its promises.  What a function does is `Work`, `Warn` or `Fail`, where
`Fail` stands for all refusals and errors of the body.

## 4. What is checked

Bounds of the runs of heuristic allocation: 3 periods (4 where stock is
reallocated, 2 with lot sizes), two operations in a chain, two demands of which
one may be shipped late, calls for 1 to 3 units (5 with lot sizes) in any order until
the demand is met, then `finish` and a new start.  Two operations are
the least at which a requirement is exploded, netted and exploded again; two
demands are the least at which one call takes what another had counted on; three
periods are the least at which stock passes over a period, four at which a
rolled requirement can be rolled again.  Supplies are chosen so that calls fail
at the first, in the middle and at the last entry of a bill.

| run | shows | bounds |
|---|---|---|
| `subs` | commits with a capacity, a lead time, a by-product, substitutes (one of them with a negative rate, in the last period only), build-ahead in both directions and soft bounds on stock: undo, success of permanent commits, an empty requirements schedule between commits, the books of availability, execution, substitution and shipment agree | 3 periods, 163 000 states |
| `realloc` | stock reallocation across a forbidden period: nothing is promised twice, `lastDecPer_` bounds negative availability, iteration leaves no requirement behind | 4 periods |
| `lots` | one- and two-level lot sizes, hard bounds, negative consumption, soft bounds on stock, a search increment of 2, and one setting by the application of any volume (by -1 or 2) at any moment between calls: what is recorded is enough, the schedule is the balance, every call ends | 2 periods, 375 000 states |
| `mand_ecs` | 3 engineering changes with every window over 4 periods: marks have a cause, obsolete material is not kept as a product | 41 000 states |
| `api` | two threads, two runs, 7 of the 11 kinds of function: locks, marks and return codes on every way through a call; every call returns | 729 000 states |
| `life` | every sequence of the API functions, for four sets of functions | 206 000 states |
| `sglsrc` | two calls for two sites with two candidates each in two periods, and every course of the allocations; in the second period one site has one candidate and the other none | at most 2 steps in an allocation |
| `implode` | implosion and the API functions that allocate, mixed, for three demands with changing priorities, late shipment, user-specified starts, equitabilities, search increments 1 and 2, skipped failures and forced rounds | 3 periods, 3 demands, 87 000 states |
| `mand_ecs_doc`, `cycle_doc`, `eval_doc`, `ext_opt_doc` | four statements of the sources and the documentation that do not hold (section 6) | - |

Why the smaller bounds are enough: two threads and two runs are the least at which a
copying function can meet another call on its second run (a third
thread would have to obey the same rule on overlaps); two sites
are the least at which a trial for one meets the single-source mode of another, two
steps the least at which an allocation visits one site twice or alters and
explodes; three demands are the least at which a group of equal priority is followed by
another demand.  The states of `Lifecycle` are all there are: it has no bound but
the values of the soft bounds.

The runs `mand_ecs`, `life`, `sglsrc` and `implode` do not check deadlock:
`findMandECs` returns, and an application of the others may stop anywhere: in
`life` after a failed assertion, in `sglsrc` and `implode` when the number of
calls is used up.  In `subs`, `realloc` and `lots` the application can always
make another call; in `api` the process ends explicitly.

**Fairness.** Weak fairness of the thread that is inside a call of WIT, and of nothing
else: nothing obliges the application to make a call.  In `HeurAlloc` and
`HeurModifier` it is fairness of the steps after the entry of a call, in
`SglSrc` of `InCall`, in `HeurImplode` of `ImplosionStep` and `EqStep`: this code is
sequential, holds no lock and waits for nothing.  In `ApiMgr` each thread inside WIT is
scheduled; WIT does not wait for a lock, it tests it and ends the process when it is
taken.  So `CallsReturn` and `CallEnds` say that loops and retries end,
and that no way out of a call is missing.

## 5. What is proved

TLAPS checks, for every instance that satisfies the stated assumptions, the
theorems below.  Each comes from an inductive invariant that is stronger than
the property; the module headers name its parts.

### Undo and heuristic allocation (`HeurAllocProofs`, `HeurBooksProofs`)

* **`TempCommitsAreUndone`**: `Spec => []TempCommitsUndo`.
  That nothing is left of a temporary commit is not inductive: that the solution
  equals `base` after a temporary commit depends on what its stacks hold during
  it.  The invariant `Rollback` says that while a temporary commit is active every
  variable is either unsaved and unchanged or has its old value as the *oldest*
  entry of a stack (`Recovers`), and nothing is saved otherwise.
  The first lemmas of the module say that saving and restoring a value keep this, for stacks
  of any height and variables saved any number of times; the rest of the proof
  needs of the explosion only that it writes by `Put`.
* **`CommitsStartClean`**: `Spec => []ReqSchedCleared`, with the same lemmas for
  the store `req`, and the fact that a commit, failed or not, passes through
  `clear` before it returns.
* **`ScheduleStaysFeasible`**: `Spec => []ScheduleIsFeasible`.  That the schedule
  covers what has been promised is not inductive: between `explode` and
  `bop` units have been taken that the explosion has still to make, and what may
  be taken depends on how far the search for stock has looked.  The invariant
  `Allocation` is the invariants of the two theorems above and
  * `Sched`: `base`, and the solution unless it is being restored, are *feasible*:
    there is a function `left` with `left[t] = (left[t-1] if the part can be
    stocked then) + incAvailVol_[t]` that is nowhere negative (`IsLeft`, `Covered`);
  * `Made`: when all the BOM entries are done, what the operation produces, added
    in its impact period, restores what the requirement that is exploded took;
  * `FrameType`: which requirement an explosion is for and that it is the one
    at the cursor (`FillsReq`), that the execution period produces in the period of the
    requirement or in one from which stock reaches it (`MakesReq`), and how far
    the bill has been scanned (`ScanType`);
  * `Locals` and `Inputs`: `0 <= netQty <= vol`, the bounds of the binary search
    (`SearchType`), that the list of periods to try is one of periods, that
    demands are for parts whose schedule they use.

  Facts about the operators come first.  `AllocedCovers`: what `allocedVol` leaves for
  later periods is enough, for every schedule; so what `AvailToNet` finds is no more than what is
  `left` of the part in any period that it reaches (`NettingFits`), and
  taking it keeps the schedule feasible (`TakingIsFeasible`).  `RollingFits` says
  the same of what a requirement moved to a later period takes there, and
  `LotSizesCover` that what an execution of one- or two-level lots makes is no less
  than what is required.
  The recursive functions of these operators are not evaluated: `RecursionUp` and
  `RecursionDown` of `NumberFacts` say that a function satisfying the recursion exists,
  and a least counterexample takes the place of induction.
* **`LastDecPerIsBound`**: `Spec => []LastDecIsBound`, from the same invariant, at every
  step of a call, inside temporary and permanent commits, where `allocedVol` and
  `rollPeriod` read `lastDecPer_`.  `Sched` says it of `base`, and of the
  solution unless it is being restored (`IntMem`); each write keeps it because of the last
  lines of `addToIncAvailVol`, whatever amount is added.  In the middle of a restoration it
  fails, since `restore` empties the stack of integers before that of volumes
  (Repos.C:102-110), but nothing reads it there.
* **`NothingIsAllocedAcross`**: `Spec => []NothingAllocedAcrossEC`, from the same
  invariant: a feasible schedule has a nonnegative rest in each segment of
  periods between two in which the part cannot be stocked.
* **`TypesAreOK`**: `Spec => []TypeOK`.
* **`NoReqIsLeftBehind`**: `Spec => NoReqBehindCursor`.  What is consumed by an operation
  comes later in the list of the parts below the top (`BelowListDescends`,
  `MadeFromLater`), and a requirement is rolled to a later period only.
* **`PermCommitsSucceed`**: `Spec => []PermCommitSucceeds`.  The property compares two
  behaviours, a temporary commit and the permanent one that repeats it many steps and
  several commits later.  No history variable is needed: what a commit does is determined by its
  `View` (the values of the solution and of the requirements, the list of parts, the
  iteration, the explosion), and `After` computes the next view from it.  The view leaves
  out what differs between the two commits, the mode, the stacks of saved values and the
  substitution volumes, and the lemmas `...Step`, one for each action, show that
  nothing else is read.  `Ends` says that the steps that `After` determines lead from a view
  to the end of the commit with a given result.  The invariant `Trial` says:
  * `OkIsProven`: the quantity that the search may return is one for which the commit
    succeeds from the present `base` (`StartOf`);
  * a temporary commit in progress is on the way from its start (`Leads`), so that when it
    comes to its end its result is that of its quantity;
  * a permanent commit in progress is on the way to success.

  `LocalsReset` says that whatever a commit uses has its first value before each, whichever
  commit came before and wherever it failed.
* **`SolutionKeepsAddingUp`** and **`PromisesStayFeasible`**: `Spec => []SolutionAddsUp`
  and `Spec => []PromisesAreFeasible`.  Both compare the schedule, which the allocator
  changes entry by entry, with the sums that the postprocessor forms over all
  executions, substitutions and shipments.  They hold between calls, and are not
  inductive: `innerExplodeBopEnt` increases the execution volume first, and
  the entries of the bill follow one at a time, each with requirements of its own.
  **`BooksAreKept`**, `Spec => []Bookkeeping`, is the invariant.
  * What an entry has been accounted for (`Done`) is its share of the
    executions (`Count`) without those of the explosion in progress that it has not been
    looked at for (`Unseen`).  What a permanent commit owes of a part (`Owed`) is the
    requirements that it has not come to, the rest of the one in progress, and minus what the
    schedule offers.  `Held`, supply plus owed plus made minus shipped, is therefore what
    the schedule does not offer of what there is.  The lemmas `AgreeOf...`, one for each action,
    show that no step inside a permanent commit changes it (`BooksAgree`).
  * `Books`: carried over from period to period wherever stock can be, what is held of each
    part is never below its `Floor`: what has been committed for the call in progress
    and is not shipped, from the period of the call on, and what is being tried, from the
    period in which it is made.  A commit raises the floor by what it requires
    of the top part, which it owes from then on; a shipment lowers both;
    the enforcement of a stock bound takes from what is offered and holds it.  A
    permanent commit that has failed is excluded: the program would stop there, and
    `PermCommitsSucceed` says that it never does.
  * `DonePos`: nothing is accounted for more executions than there are, so that
    substitutes stay within the executions of their operation.
  * `ReqsWithin`: whatever is required is of a part in the list and within
    `firstPer_` and `lastPer_`, so that the iteration misses nothing and what it owes is
    0 in the end; for this, whatever is made from a part of the list is in it (`ListIsClosed`).
  * `CallMeans`: the periods to try reach the period of the call, the stock bounds still to be
    enforced are where stock can be kept.  `ShipsDemand`: a call asks for no more than is in
    demand, which is `ShipWithinDemand` while calls are in progress.

  Between calls the floor is 0 and nothing is owed but what the schedule offers, so
  the sums over the solution cover it (`SolutionLeaves`, `SumCovers`).
* **`ScheduleStaysBalance`**: `BuildAheadIsOff => (Spec => []ScheduleIsBalance)`, the
  equation in place of the bound.  `BuildAheadIsOff` (no demand may be built ahead) is
  a hypothesis of the theorem because the property does not hold without it: the units of a
  demand that is built ahead are taken from the schedule before they are
  shipped (AvailSched.h:204, section 6).  The instances of the runs `lots` and `realloc` satisfy it.
  The invariant `Balancing` adds three conjuncts to `Bookkeeping`.
  * `Balanced`: what is held of a part at the end of a period, beyond what the call in
    progress asks for (`Asks`: what is due in its period and what is being tried),
    is what is kept in stock then less what was kept before (`Keeps`).  What is kept
    is at most `Cap`: 0 but where a stock bound has been enforced, and there
    the bound; of the bound that is being enforced, what has been enforced of it.
  * `NotAhead`: what a call for a demand makes, it makes for the period of the
    call.  This is where the hypothesis is needed (`OnlyItsPeriod`).
  * `SlbsDistinct`: every stock bound is in the list of those to enforce once, so that none
    is enforced on top of itself.

  Between calls nothing is asked for, and the sum over the periods up to `t`
  leaves what is kept at `t` (`KeptInAll`).

### Mandatory engineering changes (`FindMandECsProofs`)

* **`MarksStayJustified`**: `Spec => []MarksAreJustified`, for every network,
  every windows and every order of the scans, sorted or not.  The reasons for a
  mark are marks and windows, neither of which is ever taken away.
* **`ObsoleteStockIsPrevented`**: `Spec => []NoObsoleteStock`, under the two
  hypotheses on which the comment before `findMandECs` relies: `SortedBills` (an
  operation that makes a material is scanned after those that consume it) and
  `MonotoneImpacts` (impact periods do not decrease).  The run `mand_ecs` assumes both
  of its network, so they have instances.  `propMandECs` goes on, for each
  period, where it stopped for the period after it; `PropMarksFacts` says what this
  finds: the last execution period in which the entry can consume by the marked period.  The
  invariant `ScannedAreClosed` says that an entry whose scan is over has marked all it must;
  since the bills are sorted no later scan of the pass can spoil it.

### Single-source allocation (`SglSrcProofs`)

For any sites, candidates, periods and length of an allocation.  The invariant
`AllInv` has four layers.

* `IInv`: **`AssertionsAlwaysHold`** (`AssertionsHold`) and **`SourcesStaySingle`**
  (`SourcesAreSingle`).  It says of the *current* trial what the property says of
  the incumbent (`CurRecord`, `CurSingle`), with which sites are altered
  (`AlteredInCall`) and that the selections are applied at the start of each
  trial (`Applied`).
* `UndoInv`: **`AllocationAlwaysKept`** (`AllocationIsKept`).  The initial log undoes the
  current allocation to the start, and the incumbent's log redoes from there what was
  best; `RestoredSaved` and `RestoredSwapped` say so of saving and of
  `restoreAndSave` for every log.
* `LoopInv`: **`LastResort`** (`MultiSourceIsLastResort`).  Which candidates the
  iterator of a site has passed is what the history of trials says has been tried.
* `ConfInv`: **`UndoStaysRight`** (`UndoIsRight`), **`ConfigurationStaysRight`**
  (`ConfigurationIsRight`), **`RecoveryStaysComplete`** (`RecoveryIsComplete`) and
  **`TypesHold`** (`TypeOK`).  The logs of the configuration bring back the selections
  of the start, the pairs kept for recovery cover whatever is changed, and
  `hasResAlt_` is what a search would find.  That the loops over the stacks compute
  what `restore` and `restoreAndSave` stand for is proved for logs of any length by a
  least counterexample, which takes the place of induction.

### Implosion and equitable allocation (`HeurImplodeProofs`)

For any demands, periods, data, lists of targets and sequences of calls.  The
invariant is `AllInv`: types, `Feasible` shipments, `Blocked`, and `Progress`, which says for
each point of the three loops and of the rounds what has been reached.

* **`TypesHold`** (`TypeOK`): no volume gets negative.
* **`VolumesAlwaysAddUp`** (`VolumesAddUp`): shipments keep within cumulative supply and
  demand, and implosion's private account of what is unmet agrees with them
  (`Books`); so the allocator's own bound never cuts what implosion asks for.
* **`ShortageAlwaysShared`** (`ShortageIsShared`): there is a round such that every demand
  of a group ends with what was desired of it before that round, and no more than
  when it ended.  The one way to get more is to take, with a smaller increment, what
  another demand has failed on, which is less than one increment of that one; where
  failures are skipped nobody does.  `Rounds` and `Shared` say how far each target is: either all
  have got what the rounds so far desired, or one has failed, and what is
  left and what a target has got are together at most the goal of that round and
  less than that increment (`SharedIn`).
* **`PriorityAlwaysRespected`** (`PriorityIsRespected`) and **`NothingIsEverDenied`**
  (`NothingIsDenied`): `Served`, `Filled` and `Denied` say that whatever the
  loops have passed has all that can still be shipped for it, or is `Short`: a commit
  for the rest, in the increments of that demand, finds nothing, or the period is blocked.
  `Blocked`: in a blocked period less is left than the increment of some demand.  Neither
  property can say that nothing is left: an increment of 2 leaves one unit over, which
  a demand of a worse priority with an increment of 1 then gets, unless failures are
  skipped.
  `AllocResult` is what all these proofs need to know of one `incHeurAlloc`.
* **`NothingRemembered`** (`NothingDesiredBefore`) and **`SortedWhileScanning`**: nothing
  stays of an earlier call's rounds, and the demands are in the order of the present
  period's priorities whenever they are scanned, although they are sorted in some
  periods only.

### Life cycle (`LifecycleProofs`)

For every set of API functions that the application uses and every sequence of them:
**`PartsKeepTheirType`** (`TypeOK`), **`NoLifecycleAssertionFails`** (`AssertionsHold`),
**`DerivedDataStaysCurrent`** (`DerivedDataIsCurrent`), **`AllocationStaysConsistent`**
(`AllocationIsConsistent`), **`OptimizationStaysSound`** (`OptimizationIsSound`) and
**`ImplosionStartsAsAsked`** (the action property `StartsAsAsked`).  The invariant adds, for example,
that what rests on a solution is gone when there is none and that
postprocessing implies preprocessing.  There is a lemma for each call between the
parts, which says what it changes and what it leaves alone; the lemmas on the API
functions follow from these in the order in which the code composes the calls.
`OptimizationStaysSound` has the hypothesis `Tiny \notin Gaps`: no soft bound is
above its hard bound by less than `FLOAT_EPSILON`; section 6 says what happens otherwise.

### API manager (`ApiMgrProofs`)

For any number of threads and runs:

* **`Locking`** (`LockingIsRight`).  `CallInv`: the pointers of a call and of
  the manager of its run agree, no two calls use one run, whatever passed the test
  for an aborted call is still unmarked, and every torn run is marked or about to be.
* **`WorkStaysAllowed`** (`WorkIsAllowed`) and **`ReturnCodesCover`**
  (`ReturnCodeCovers`), from `Books`: between the check of a function's states and its
  body nothing of the run can change, since other calls are on other runs; and the worst message of a
  call is in the return code of one of its managers, which are merged before the
  second is left, on an abort as well.

### Assumptions

They are those stated in the modules: the types of the input data and how its lists belong
together (`ListsAssumption`, `OwnersAssumption`, `DataAssumption`, ...), that sites and
periods are finitely many, as are demands and entries; none is about the behaviour of the code that is
modelled.  `EntriesAssumption` says what the constructors of the entries do: each is of one
kind, in the list of what it belongs to, once, and in no other.  Three are about code whose results are inputs of the model:
`OrderAssumption` (`WitNodeSorter` sorts the parts, each once, behind those that
they may be made from; without it a requirement could be left behind),
`ProducersAssumption` (a `WitBopEntry` is in the lists of its operation and
of its part) and `LotSizesAssumption` (the setters of `WitOperation` refuse
negative lot sizes, and `procLotSizes` ignores two-level lots without an increment).  All of
them are evaluated on every instance that is checked.  The theorems on `HeurAlloc`
are about `Spec`, in which the application sets no volumes.

### Only model-checked

* Liveness (`CallsReturn`, `CallEnds`), which is out of the prover's reach.
* `CheckedIsFeasible` of `HeurModifier`.  Section 2 says what a proof would need.

## 6. Where documentation, comments and code differ

With a run that shows it:

* `mand_ecs_doc`: a mandatory EC that reaches a material through a substitute is
  not propagated from there through BOM entries, which were scanned before.  The
  run looks at marks before the last period only (a mark in the last one has no
  effect).  `NoObsoleteStock` states what the passes do guarantee: the
  propagation is right for BOM entries when they have been scanned and for
  substitutes in the end.  The scan order gives the same limitation where
  the sort of the parts does not order two materials (the sort follows the entries
  with `expAllowed`).  An `earliestPeriod` equal to the number of periods, for
  which `setDirectMandECs` would mark the last period, is left out.
* `cycle_doc`: after `witGetExpCycle` the problem counts as preprocessed although no
  table was computed (Pre.C:122), so that a cycle is never reported.
* `eval_doc`: an optimization problem that `witEvalObjectives` left behind is not
  discarded when a bound becomes soft, since the test asks whether the run is
  accelerated (BoundSet.C:296); the soft bound is ignored.
* `ext_opt_doc`: `witShutDownExtOpt` leaves `extOptActive_` set
  (DetOptImpMgr.C:200); the next `witStartExtOpt` fails an assertion.

Met while modelling, without a run of their own:

* HeurAtor.C:506-521: for a demand without `shipLateAllowed` a call looks at demand and
  shipment of its own period only.  After the application has set a shipment of
  more than the demand of a later period, which `checkCumShipCon`
  (HeurModifier.C:572) accepts as long as the cumulative demand is not exceeded, a call
  for an earlier period makes the cumulative shipment exceed the cumulative demand,
  contrary to wit1.doc:1056 and to what wit1.doc says of `desIncVol` in the notes on
  heuristic allocation ("it simply sets incVol small enough to satisfy this
  constraint").  `FeasChkr.C:420` requires of such demands that no period's shipment
  exceeds its demand, which the modifier does not check.  `CheckedIsFeasible` is
  therefore about the cumulative shipments of the other demands.
* AvailSched.h:217: `lastDecPer_` is documented as the maximum of the periods with
  negative availability; it is an upper bound, since nothing moves it back.
  `allocedVol` and `rollPeriod` need the bound only.
* AvailSched.h:204: with build-ahead by demand `incAvailVol_` is less than the balance
  that its comment gives, from the period of the commitment to that of the
  shipment.  `ScheduleIsCovered` is what holds instead.
* DataRepos.h:86: `isEmpty` does not look at the repositories
  of execution and substitution volumes.  Nothing calls it.
* SglSrcSite.h:180: `curVisited_` is cleared with the stack of visited sites
  (SglSrcMgr.C:523), in which sites that only temporary commits visited are missing;
  the record of such a site outlives the allocation, without harm, as
  `DiscoveryIsSound` shows.
* EqAll.h says that `eqAlloc` resets `desIncVol_`; it resets `prevDesVol_` only.
* BoundSet.C:302 takes a bound as softened when soft and hard bound were equal before,
  DetVars.C:457 gives it a variable only when they differ by more than a tolerance.  A
  soft bound that is first raised by less and then by more is not discovered
  (the gap `Tiny` of `Lifecycle`, which the run `life` leaves out).
* wit4.doc:403 says that a call returns the severest code of its messages; a copying
  function also returns that of messages issued for the second run
  (ApiMgr.C:110, 287), which `ReturnCodeCovers` states as a lower bound.

## 7. What is not modelled, and why

Selection is planned (section 2); `SglSrc` has as much of it as it needs.
Optimization, stochastic mode, the solver interfaces and `mcl` work on real
numbers and external solvers; `Lifecycle` has when they start and what ends them.
MRP, parts lexicography, postprocessing,
pegging and PIP read a finished solution in single passes; the balance that
postprocessing computes is used as a property.  Data input and output, messages,
attributes, `sce`, `scenario`, `eso2`, the language bindings and viewers carry no
state of the planning engine, and together they are by far the larger part of the
repository.

One hazard has no property: volumes below `NET_TOL`, which whole numbers do
not have.  Of `blocked_` the properties of `HeurImplode` say what a material can lose by
it; a part that becomes available again because another allocation makes it as a
by-product is not among them, and the sources do not say what should hold of it.
