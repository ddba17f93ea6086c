-------------------------------- MODULE SglSrc --------------------------------
(***************************************************************************)
(* Single-source heuristic allocation: classes WitSglSrcMgr (SglSrcMgr.C)  *)
(* and WitSglSrcSite (SglSrcSite.C), on top of the multi-route selections  *)
(* of MultiRoute.C.                                                        *)
(*                                                                         *)
(* To commit a quantity, the manager first allocates it with the sites in  *)
(* multi-source mode.  If that gives all of it, the manager takes it as    *)
(* the incumbent and then puts one site after the other into single-source *)
(* mode: it tries a candidate by allocating everything anew from the same  *)
(* initial state, and keeps the candidate if the quantity is still reached *)
(* in full.  Two undo logs bring back the initial state, two others bring  *)
(* back the incumbent.                                                     *)
(*                                                                         *)
(* One allocation is what Selector::commitMaxQty does.  Here it is any     *)
(* sequence of at most MaxSteps explosions through sites and alterations   *)
(* of multi-source selections, that gives the quantity in full or not.     *)
(***************************************************************************)
EXTENDS Integers, Sequences, FiniteSets, SequencesExt

CONSTANTS
  Sites,      \* the routing sites that may be single-sourced
  NCands,     \* NCands[s]: how many candidates s has, in the order of its list
  Periods,
  Eligible,   \* Eligible[s, p]: the candidates that may be used in p
  Height,     \* Height[s]: heightIdx()
  Recovery,   \* the attribute selectionRecovery
  NoSite,
  MaxSteps,   \* bound on the steps of one allocation
  MaxCalls    \* bound on the number of calls of commitMaxQty

None == 0

Cands(s) == 1..NCands[s]

ASSUME FiniteAssumption == IsFiniteSet(Sites) /\ IsFiniteSet(Periods)
ASSUME NCandsAssumption == NCands \in [Sites -> Nat \ {0, 1}]
ASSUME EligibleAssumption ==
  /\ Eligible \in [Sites \X Periods -> SUBSET Nat]
  /\ \A s \in Sites, p \in Periods : Eligible[s, p] \subseteq Cands(s)
ASSUME HeightAssumption ==
  /\ Height \in [Sites -> Nat]
  /\ \A s, t \in Sites : s # t => Height[s] # Height[t]
ASSUME NoSiteAssumption == NoSite \notin Sites
ASSUME BoundsAssumption ==
  Recovery \in BOOLEAN /\ MaxSteps \in Nat /\ MaxCalls \in Nat

VARIABLES
  pc,           \* where the manager is: "idle", "alloc" or "loop"
  testing,      \* the site whose candidate is being tried, if any
  alloc,        \* the allocation: a volume for each candidate of each site
  config,       \* the selection configuration
  recPairs,     \* the recovery pairs of the multi-route coordinator
  initLog,      \* initAllocRepos_ and initConfigRepos_
  incumbLog,    \* incumbAllocRepos_ and incumbConfigRepos_
  site,         \* the state of every WitSglSrcSite
  altered,      \* alteredSites_
  curVisit,     \* curVisitSites_
  incumbVisit,  \* incumbVisitSites_
  permIdx,      \* curPermCommIdx_
  permActive,   \* permCommActive_
  pureMs,       \* pureMsMode_
  steps,        \* the steps of the current allocation
  calls,        \* the calls of commitMaxQty so far
  flow,         \* history: the flow of the current allocation
  incumbFlow,   \* history: the flow of the incumbent allocation
  hist          \* history, see NoHistory

memory  == <<alloc, config, recPairs>>
logs    == <<initLog, incumbLog>>
visits  == <<curVisit, incumbVisit>>
perm    == <<permIdx, permActive>>
bounds  == <<steps, calls>>
flows   == <<flow, incumbFlow>>
vars    == <<pc, testing, memory, logs, site, altered, visits, perm, pureMs,
             bounds, flows, hist>>

-------------------------------------------------------------------------------
\* Undo logs (Repos.C).  The pairs of all kinds are in one log, since no two
\* variables of different kinds are the same.

EmptyLogs == [alloc |-> <<>>, config |-> <<>>]

Saved(log, mem, v) == Append(log, [loc |-> v, val |-> mem[v]])

SavesOf(log, v) == {i \in DOMAIN log : log[i].loc = v}

Oldest(S) == CHOOSE i \in S : \A j \in S : i <= j
Newest(S) == CHOOSE i \in S : \A j \in S : j <= i

\* Mutant: the newest of the saved values stays.
RestoredNewest(mem, log) ==
  [v \in DOMAIN mem |->
     IF SavesOf(log, v) = {} THEN mem[v] ELSE log[Newest(SavesOf(log, v))].val]

\* restore(): the saved values are written back, newest first, so that the
\* oldest one of a variable stays.
Restored(mem, log) ==
  [v \in DOMAIN mem |->
     IF SavesOf(log, v) = {} THEN mem[v] ELSE log[Oldest(SavesOf(log, v))].val]

\* Mutant: restoreAndSave saves the value that it writes back.
SwappedSame(mem, log) ==
  [i \in 1..Len(log) |-> log[Len(log) + 1 - i]]

\* The log that restoreAndSave() fills: its loop saves, newest first, what a
\* variable holds at that moment, which is the next newer saved value of the
\* variable, or the present one.
Swapped(mem, log) ==
  [i \in 1..Len(log) |->
     LET k     == Len(log) + 1 - i
         v     == log[k].loc
         newer == {j \in SavesOf(log, v) : j > k}
     IN  [loc |-> v,
          val |-> IF newer = {} THEN mem[v] ELSE log[Oldest(newer)].val]]

\* The loop of restoreAndSave() itself, which is also the one of restore() but
\* for the saving: the memory it leaves, and the log it fills.
UndoLoop(mem, log) ==
  LET after[n \in 0..Len(log)] ==
        IF n = 0 THEN [mem |-> mem, log |-> <<>>]
        ELSE LET r    == after[n - 1]
                 pair == log[Len(log) + 1 - n]
             IN  [mem |-> [r.mem EXCEPT ![pair.loc] = pair.val],
                  log |-> Saved(r.log, r.mem, pair.loc)]
  IN  after[Len(log)]

-------------------------------------------------------------------------------
\* The selection configuration (MultiRoute.C).

AllocVars == UNION {{<<s, c>> : c \in Cands(s)} : s \in Sites}

Sel(s, p)     == <<"selRtCand", s, p>>
ResAlt(s, p)  == <<"hasResAlt", s, p>>
Prev(s, p, c) == <<"prevSel", s, p, c>>

SelVars    == {Sel(s, p) : s \in Sites, p \in Periods}
ResAltVars == {ResAlt(s, p) : s \in Sites, p \in Periods}
PrevVarsOf(s) == {Prev(s, p, c) : p \in Periods, c \in Cands(s)}
PrevVars      == UNION {PrevVarsOf(s) : s \in Sites}

ConfigVars == SelVars \cup ResAltVars \cup PrevVars

Least(S) == IF S = {} THEN None ELSE CHOOSE c \in S : \A d \in S : c <= d

\* mrDefaultRtCand
Default(s, p) == Least(Eligible[s, p])

\* WitMrMgr::valid
Valid(cfg, s, p, c) == c \in Eligible[s, p] /\ ~cfg[Prev(s, p, c)]

\* WitMrPt::findNextRtCand
NextRtCand(cfg, s, p) ==
  Least({c \in Cands(s) : Valid(cfg, s, p, c) /\ c # cfg[Sel(s, p)]})

\* WitMrSite::selRtCand
SelRtCand(cfg, s, p) ==
  IF cfg[Sel(s, p)] # None THEN cfg[Sel(s, p)] ELSE Default(s, p)

InitSel(s, p)    == Default(s, p)
InitResAlt(s, p) == \E c \in Eligible[s, p] : c # Default(s, p)

InitConfig ==
  [v \in ConfigVars |->
     CASE v \in SelVars    -> InitSel(v[2], v[3])
       [] v \in ResAltVars -> InitResAlt(v[2], v[3])
       [] v \in PrevVars   -> FALSE]

-------------------------------------------------------------------------------
\* WitSglSrcSite.  "next" is nextRtCand_, as a position in myRtCands_.

NewSite ==
  [selRtCand |-> None, next |-> 1, curPcIdx |-> -1, incumbPcIdx |-> -1,
   curVisited |-> FALSE, curUnique |-> None, incumbUnique |-> None]

SglSrcMode(s) == site[s].selRtCand # None

\* Mutant: the last candidate is never considered.
HasTwoUntried(s) == site[s].next < NCands[s]

\* Mutant: the list has one candidate too many.
HasUntriedPastEnd(s) == site[s].next <= NCands[s] + 1

HasUntried(s) == site[s].next <= NCands[s]

\* History.  The flow of an allocation is the set of pairs <<site, candidate>>
\* that permanent explosions went through.  "start" is the state in which the
\* call found the problem, "best" is what the incumbent allocation left,
\* "tested" are the candidates that the call has tried, and "full" holds from
\* the end of a call that gave the whole quantity until the configuration
\* changes.
NoHistory ==
  [tested |-> {}, full |-> FALSE,
   start |-> [alloc |-> <<>>, config |-> <<>>],
   best  |-> [alloc |-> <<>>, config |-> <<>>]]

FlowAt(f, s) == {c \in Cands(s) : <<s, c>> \in f}

Init ==
  /\ pc = "idle" /\ testing = NoSite
  /\ alloc = [v \in AllocVars |-> 0]
  /\ config = InitConfig
  /\ recPairs = {}
  /\ initLog = EmptyLogs /\ incumbLog = EmptyLogs
  /\ site = [s \in Sites |-> NewSite]
  /\ altered = {} /\ curVisit = {} /\ incumbVisit = {}
  /\ permIdx = 0 /\ permActive = FALSE
  /\ pureMs = TRUE
  /\ steps = 0 /\ calls = 0
  /\ flow = {} /\ incumbFlow = {}
  /\ hist = NoHistory

-------------------------------------------------------------------------------
\* The beginning of cmqFixed.

\* initCmqFixed, for the sites of curVisitSites_.
CurReset(st) ==
  [s \in Sites |->
     IF s \in curVisit
     THEN [st[s] EXCEPT !.curPcIdx = -1, !.curVisited = FALSE,
                        !.curUnique = None]
     ELSE st[s]]

\* The selections that applySel changes, for the altered sites that are in
\* single-source mode.
ToSelect(st, alt) ==
  {v \in SelVars : /\ v[2] \in alt
                   /\ st[v[2]].selRtCand # None
                   /\ Valid(config, v[2], v[3], st[v[2]].selRtCand)
                   /\ SelRtCand(config, v[2], v[3]) # st[v[2]].selRtCand}

\* Everything that cmqFixed does before it calls Selector::commitMaxQty.
\* tryNextCand calls applySel for its site once more, to no other effect.
StartCmqFixed(st, alt) ==
  /\ pc' = "alloc"
  /\ site' = CurReset(st)
  /\ altered' = alt
  /\ curVisit' = {}
  /\ permIdx' = 0 /\ permActive' = FALSE /\ steps' = 0
  /\ flow' = {}
  /\ config' = [v \in ConfigVars |->
                  IF v \in ToSelect(st, alt)
                  THEN st[v[2]].selRtCand ELSE config[v]]
  /\ initLog' = [initLog EXCEPT !.config =
                   @ \o SetToSeq({[loc |-> v, val |-> config[v]] :
                                    v \in ToSelect(st, alt)})]
  /\ recPairs' = IF Recovery THEN recPairs \cup ToSelect(st, alt) ELSE recPairs

\* commitMaxQty and initMsAlloc, up to the multi-source allocation.
CommitMaxQty ==
  /\ pc = "idle" /\ calls < MaxCalls
  /\ calls' = calls + 1
  /\ testing' = NoSite
  /\ pureMs' = TRUE
  /\ StartCmqFixed(site, altered)
  /\ hist' = [hist EXCEPT !.tested = {}, !.full = FALSE,
                          !.start = [alloc |-> alloc, config |-> config]]
  /\ UNCHANGED <<alloc, incumbLog, incumbVisit, incumbFlow>>

-------------------------------------------------------------------------------
\* The steps of an allocation.

InAlloc == pc = "alloc" /\ steps < MaxSteps /\ steps' = steps + 1

\* expProhibited
ExpProhibited(s, p) ==
  SglSrcMode(s) /\ ~Valid(config, s, p, site[s].selRtCand)

\* Mutant: a second candidate does not end the uniqueness of the first.
FirstUnique(s, c) ==
  IF ~site[s].curVisited THEN c ELSE site[s].curUnique

\* The candidate that recordVisit remembers as the only one.
Unique(s, c) ==
  IF ~site[s].curVisited \/ site[s].curUnique = c THEN c ELSE None

\* An explosion of a temporary commit.  What it allocates is undone by the
\* repository of the temporary commit, that the visit happened is not.
TempExplode(s, p, c) ==
  /\ InAlloc
  /\ Eligible[s, p] # {} /\ c = SelRtCand(config, s, p)
  /\ ~ExpProhibited(s, p)
  /\ site' = [site EXCEPT ![s].curUnique = Unique(s, c),
                          ![s].curVisited = TRUE]
  /\ permActive' = FALSE
  /\ UNCHANGED <<pc, testing, memory, logs, altered, visits, permIdx, pureMs,
                 calls, flows, hist>>

\* What recordVisit does for a permanent commit with this index.
Visited(s, c, idx) ==
  [site[s] EXCEPT !.curUnique = Unique(s, c), !.curVisited = TRUE,
                  !.curPcIdx = idx]

\* An explosion of a permanent commit, in the present one or in a new one.
PermExplode(s, p, c, new) ==
  LET idx == IF new THEN permIdx + 1 ELSE permIdx
  IN  /\ InAlloc
      /\ new \/ permActive
      /\ Eligible[s, p] # {} /\ c = SelRtCand(config, s, p)
      /\ ~ExpProhibited(s, p)
      /\ permIdx' = idx /\ permActive' = TRUE
      /\ site' = [site EXCEPT ![s] = Visited(s, c, idx)]
      /\ curVisit' = IF site[s].curPcIdx = -1 THEN curVisit \cup {s}
                                              ELSE curVisit
      /\ initLog' = [initLog EXCEPT !.alloc = Saved(@, alloc, <<s, c>>)]
      /\ alloc' = [alloc EXCEPT ![<<s, c>>] = @ + 1]
      /\ flow' = flow \cup {<<s, c>>}
      /\ UNCHANGED <<pc, testing, config, recPairs, incumbLog, altered,
                     incumbVisit, pureMs, calls, incumbFlow, hist>>

\* The configuration after alterSelection.
Altered(s, p) ==
  LET prev == [config EXCEPT ![Prev(s, p, config[Sel(s, p)])] = TRUE]
      sel  == [prev EXCEPT ![Sel(s, p)] = NextRtCand(prev, s, p)]
  IN  [sel EXCEPT ![ResAlt(s, p)] = NextRtCand(sel, s, p) # None]

\* The variables that alterSelection and select save, in this order.
AlteredVars(s, p) ==
  <<ResAlt(s, p), Prev(s, p, config[Sel(s, p)]), Sel(s, p)>>

\* Mutant: the previous selection is not recorded for recovery.
PairsOfSel(s, p) == {Sel(s, p)}

\* The recovery pairs that setPrevSel and storeRecoveryPt push.
PairsOf(s, p) == {Sel(s, p), Prev(s, p, config[Sel(s, p)])}

\* An alteration point is recorded only for a site in multi-source mode.
AltPt(s, p) == config[Sel(s, p)] # None /\ ~SglSrcMode(s)

\* Selector::alterSelection, between two attempts at the rest of the quantity.
AlterSelection(s, p) ==
  /\ InAlloc
  /\ AltPt(s, p)
  /\ config' = Altered(s, p)
  /\ initLog' =
       [initLog EXCEPT !.config =
          @ \o [i \in DOMAIN AlteredVars(s, p) |->
                  [loc |-> AlteredVars(s, p)[i],
                   val |-> config[AlteredVars(s, p)[i]]]]]
  /\ recPairs' = IF Recovery THEN recPairs \cup PairsOf(s, p) ELSE recPairs
  /\ permActive' = FALSE
  /\ UNCHANGED <<pc, testing, alloc, incumbLog, site, altered, visits, permIdx,
                 pureMs, calls, flows, hist>>

-------------------------------------------------------------------------------
\* The end of an allocation.

\* Mutant: a site that the new incumbent does not visit keeps its old data.
SitesKept ==
  [s \in Sites |->
     IF s \in curVisit
     THEN [site[s] EXCEPT !.incumbPcIdx = site[s].curPcIdx,
                          !.incumbUnique = site[s].curUnique]
     ELSE site[s]]

\* resetIncumb for the old incumbent's sites, saveCurAsIncumb for the new one's.
SitesAsIncumb ==
  [s \in Sites |->
     IF s \in curVisit
     THEN [site[s] EXCEPT !.incumbPcIdx = site[s].curPcIdx,
                          !.incumbUnique = site[s].curUnique]
     ELSE IF s \in incumbVisit
     THEN [site[s] EXCEPT !.incumbPcIdx = -1, !.incumbUnique = None]
     ELSE site[s]]

\* saveCurAsIncumb
SaveCurAsIncumb ==
  /\ alloc'     = Restored(alloc, initLog.alloc)
  /\ config'    = Restored(config, initLog.config)
  /\ incumbLog' = [alloc  |-> Swapped(alloc, initLog.alloc),
                   config |-> Swapped(config, initLog.config)]
  /\ initLog' = EmptyLogs
  /\ site' = SitesAsIncumb
  /\ incumbVisit' = curVisit
  /\ incumbFlow' = flow
  /\ hist' = [hist EXCEPT !.best = [alloc |-> alloc, config |-> config]]

\* The end of initMsAlloc when all of the quantity was allocated.
MsAllocIsFull ==
  /\ pc = "alloc" /\ testing = NoSite
  /\ pc' = "loop"
  /\ SaveCurAsIncumb
  /\ UNCHANGED <<testing, recPairs, altered, curVisit, perm, pureMs, bounds,
                 flow>>

\* The end of initMsAlloc, and of the call, when it was not.
MsAllocIsShort ==
  /\ pc = "alloc" /\ testing = NoSite
  /\ pc' = "idle"
  /\ initLog' = EmptyLogs
  /\ UNCHANGED <<testing, memory, incumbLog, site, altered, visits, perm,
                 pureMs, bounds, flows, hist>>

\* The end of tryNextCand when all of the quantity was allocated.
Accept ==
  /\ pc = "alloc" /\ testing # NoSite
  /\ pc' = "loop" /\ testing' = NoSite
  /\ SaveCurAsIncumb
  /\ pureMs' = FALSE
  /\ UNCHANGED <<recPairs, altered, curVisit, perm, bounds, flow>>

\* The end of tryNextCand when it was not.
Reject ==
  /\ pc = "alloc" /\ testing # NoSite
  /\ pc' = "loop" /\ testing' = NoSite
  /\ alloc' = Restored(alloc, initLog.alloc)
  /\ config' = Restored(config, initLog.config)
  /\ initLog' = EmptyLogs
  /\ site' = [site EXCEPT ![testing].selRtCand = None]
  /\ UNCHANGED <<recPairs, incumbLog, altered, visits, perm, pureMs, bounds,
                 flows, hist>>

-------------------------------------------------------------------------------
\* The loop over the opportunities.

Opps == {s \in incumbVisit : ~SglSrcMode(s) /\ HasUntried(s)}

IsPreferredTo(s, t) ==
  \/ site[s].incumbPcIdx > site[t].incumbPcIdx
  \/ site[s].incumbPcIdx = site[t].incumbPcIdx /\ Height[s] > Height[t]

IsNextOpp(s) ==
  /\ pc = "loop"
  /\ s \in Opps
  /\ \A t \in Opps \ {s} : IsPreferredTo(s, t)

\* Mutant: the iterator over the candidates does not advance.
SelectedAgain(s) == [site EXCEPT ![s].selRtCand = site[s].next]

\* selectNext
Selected(s) ==
  [site EXCEPT ![s].selRtCand = site[s].next, ![s].next = site[s].next + 1]

\* nextCandIsSglSrc
NextCandIsSglSrc(s) == site[s].next = site[s].incumbUnique

\* selectDiscovery: the incumbent uses nothing but the next candidate.
SelectDiscovery(s) ==
  /\ IsNextOpp(s)
  /\ NextCandIsSglSrc(s)
  /\ altered' = altered \cup {s}
  /\ site' = Selected(s)
  /\ pureMs' = FALSE
  /\ UNCHANGED <<pc, testing, memory, logs, visits, perm, bounds, flows,
                 hist>>

\* tryNextCand, up to the allocation.
TryNextCand(s) ==
  /\ IsNextOpp(s)
  /\ ~NextCandIsSglSrc(s)
  /\ testing' = s
  /\ StartCmqFixed(Selected(s), altered \cup {s})
  /\ hist' = [hist EXCEPT !.tested = @ \cup {<<s, site[s].next>>}]
  /\ UNCHANGED <<alloc, incumbLog, incumbVisit, pureMs, calls, incumbFlow>>

\* WitSglSrcSite::reset for the altered sites.
AlteredReset ==
  [s \in Sites |-> IF s \in altered
                   THEN [site[s] EXCEPT !.selRtCand = None, !.next = 1]
                   ELSE site[s]]

\* Mutant: the incumbent's selections are kept in any case.
IncumbConfigAlways == Restored(config, incumbLog.config)

\* The configuration is the incumbent's only if all of it is multi-source.
PreservedConfig ==
  IF pureMs THEN Restored(config, incumbLog.config) ELSE config

\* The loop finds no opportunity: preserveIncumb.
PreserveIncumb ==
  /\ pc = "loop" /\ Opps = {}
  /\ pc' = "idle"
  /\ alloc' = Restored(alloc, incumbLog.alloc)
  /\ config' = PreservedConfig
  /\ incumbLog' = EmptyLogs
  /\ site' = AlteredReset
  /\ altered' = {}
  /\ hist' = [hist EXCEPT !.full = TRUE]
  /\ UNCHANGED <<testing, recPairs, initLog, visits, perm, pureMs, bounds,
                 flows>>

\* WitMrCoord::recoverInitState, at the end of an incremental allocation.
RecoverInitState ==
  LET prev == [v \in ConfigVars |->
                 IF v \in recPairs \cap PrevVars THEN FALSE ELSE config[v]]
      sel  == [v \in ConfigVars |->
                 IF v \in recPairs \cap SelVars THEN Default(v[2], v[3])
                                                ELSE prev[v]]
  IN  /\ pc = "idle" /\ Recovery /\ recPairs # {}
      /\ config' = [v \in ConfigVars |->
                      IF v \in ResAltVars /\ Sel(v[2], v[3]) \in recPairs
                      THEN NextRtCand(sel, v[2], v[3]) # None
                      ELSE sel[v]]
      /\ recPairs' = {}
      /\ hist' = [hist EXCEPT !.full = FALSE]
      /\ UNCHANGED <<pc, testing, alloc, logs, site, altered, visits, perm,
                     pureMs, bounds, flows>>

-------------------------------------------------------------------------------
Allocate ==
  \E s \in Sites, p \in Periods :
     \/ AlterSelection(s, p)
     \/ \E c \in Cands(s) :
           \/ TempExplode(s, p, c)
           \/ \E new \in BOOLEAN : PermExplode(s, p, c, new)

EndAlloc == MsAllocIsFull \/ MsAllocIsShort \/ Accept \/ Reject

NextOpp == \E s \in Sites : SelectDiscovery(s) \/ TryNextCand(s)

InCall == Allocate \/ EndAlloc \/ NextOpp \/ PreserveIncumb

Next == CommitMaxQty \/ InCall \/ RecoverInitState

Spec == Init /\ [][Next]_vars

\* The call runs in one thread and waits for nothing.
FairSpec == Spec /\ WF_vars(InCall)

-------------------------------------------------------------------------------
\* Properties.

Fields == {"selRtCand", "next", "curPcIdx", "incumbPcIdx", "curVisited",
           "curUnique", "incumbUnique"}

TypeOK ==
  /\ pc \in {"idle", "alloc", "loop"}
  /\ testing \in Sites \cup {NoSite}
  /\ alloc \in [AllocVars -> Nat]
  /\ DOMAIN config = ConfigVars
  /\ \A v \in SelVars : config[v] \in Cands(v[2]) \cup {None}
  /\ \A v \in ResAltVars \cup PrevVars : config[v] \in BOOLEAN
  /\ recPairs \subseteq SelVars \cup PrevVars
  /\ DOMAIN site = Sites
  /\ \A s \in Sites : /\ DOMAIN site[s] = Fields
                      /\ site[s].selRtCand \in Cands(s) \cup {None}
                      /\ site[s].next \in 1..(NCands[s] + 1)
                      /\ site[s].curPcIdx \in Nat \cup {-1}
                      /\ site[s].incumbPcIdx \in Nat \cup {-1}
                      /\ site[s].curVisited \in BOOLEAN
                      /\ site[s].curUnique \in Cands(s) \cup {None}
                      /\ site[s].incumbUnique \in Cands(s) \cup {None}
  /\ altered \subseteq Sites
  /\ curVisit \subseteq Sites /\ incumbVisit \subseteq Sites
  /\ permIdx \in Nat /\ permActive \in BOOLEAN
  /\ pureMs \in BOOLEAN
  /\ steps \in 0..MaxSteps /\ calls \in 0..MaxCalls

\* The assertions of SglSrcSite.C hold whenever the code reaches them: a site
\* in the stack of visited sites has the index of a permanent commit, a site
\* outside the incumbent's stack has none left over from an older incumbent.
\* Beside them, a site in single-source mode is among the altered ones.
AssertionsHold ==
  /\ \A s \in Sites : s \in curVisit <=> site[s].curPcIdx >= 0
  /\ \A s \in Sites : s \in incumbVisit <=> site[s].incumbPcIdx >= 0
  /\ \A s \in Sites : SglSrcMode(s) => s \in altered

\* What is taken as a discovery is one: if the incumbent's unique candidate of
\* a site is set, the incumbent's flow through the site uses no other one,
\* although the record of a site that only temporary commits visited is not
\* cleared between two allocations.
DiscoveryIsSound ==
  \A s \in Sites :
     site[s].incumbUnique # None =>
       FlowAt(incumbFlow, s) \subseteq {site[s].incumbUnique}

\* Whatever site is in single-source mode, the incumbent that will be restored
\* takes everything that flows through the site from its selected candidate:
\* in all periods, and also after later trials at other sites, accepted or not.
SingleSourced ==
  pc = "loop" =>
    \A s \in Sites :
       SglSrcMode(s) =>
         FlowAt(incumbFlow, s) \subseteq {site[s].selRtCand}

\* So a site that the call leaves to one source has one source: whether its
\* candidate was found by a trial or taken as a discovery.
SourcesAreSingle == DiscoveryIsSound /\ SingleSourced

\* Multi-source is the last resort: a call that gave the whole quantity leaves
\* flow through two candidates of a site only if it has tried every candidate
\* of the site.
MultiSourceIsLastResort ==
  pc = "idle" /\ hist.full =>
    \A s \in Sites :
       \/ \E c \in Cands(s) : FlowAt(incumbFlow, s) \subseteq {c}
       \/ \A c \in Cands(s) : <<s, c>> \in hist.tested

\* Every trial starts from the allocation in which the call found the problem,
\* and from its configuration but for the selections of the sites in
\* single-source mode.
TrialsStartAfresh ==
  pc = "alloc" /\ steps = 0 =>
    /\ alloc = hist.start.alloc
    /\ \A v \in ConfigVars :
         \/ config[v] = hist.start.config[v]
         \/ v \in SelVars /\ config[v] = site[v[2]].selRtCand

\* The call ends with the allocation of its latest success, however many trials
\* have failed since.
AllocationIsKept ==
  pc = "idle" /\ hist.full => alloc = hist.best.alloc

\* And with the configuration that belongs to it if no site is single-sourced,
\* else with the one in which the call found the problem.
ConfigurationIsKept ==
  pc = "idle" /\ hist.full =>
    config = IF pureMs THEN hist.best.config ELSE hist.start.config

\* What restore() and restoreAndSave() are said to do is what their loops do to
\* the logs of an allocation.
UndoIsTheLoop ==
  LET a == UndoLoop(alloc, initLog.alloc)
      g == UndoLoop(config, initLog.config)
  IN  /\ Restored(alloc, initLog.alloc) = a.mem
      /\ Restored(config, initLog.config) = g.mem
      /\ Swapped(alloc, initLog.alloc) = a.log
      /\ Swapped(config, initLog.config) = g.log

\* Between two calls nothing waits in an undo log, and all sites are in
\* multi-source mode with all their candidates ahead of them.
QuietBetweenCalls ==
  pc = "idle" =>
    /\ initLog = EmptyLogs /\ incumbLog = EmptyLogs
    /\ altered = {}
    /\ \A s \in Sites : site[s].selRtCand = None /\ site[s].next = 1

\* The cached hasResAlt_ is right wherever it may be asked, although applySel
\* changes selections without refreshing it.
ResAltIsCurrent ==
  \A s \in Sites, p \in Periods :
     ~SglSrcMode(s) =>
       (config[ResAlt(s, p)] <=> NextRtCand(config, s, p) # None)

\* The undo logs bring back what was there when they began: in each trial, and
\* in the two pairs of repositories together with what restoreAndSave moves
\* between them, so that nothing is left for the next call.
UndoIsRight == UndoIsTheLoop /\ TrialsStartAfresh /\ QuietBetweenCalls

\* The selections that a call leaves and works with are the right ones, and so
\* is what is cached about them.
ConfigurationIsRight == ConfigurationIsKept /\ ResAltIsCurrent

\* After recoverInitState the selections are the initial ones, through however
\* many trials the configuration went.
RecoveryIsComplete == [][RecoverInitState => config' = InitConfig]_vars

\* A call of commitMaxQty ends.
CallEnds == pc = "alloc" ~> pc = "idle"
===============================================================================
