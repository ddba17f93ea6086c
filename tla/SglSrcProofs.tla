----------------------------- MODULE SglSrcProofs -----------------------------
(***************************************************************************)
(* Single-source allocation does what its name says, for every number of   *)
(* sites, candidates and periods and every length of an allocation.  The   *)
(* inductive invariant, AllInv, is in four layers; each uses those before  *)
(* it.                                                                     *)
(*                                                                         *)
(*   IInv     the stacks of visited sites and the unique candidates: the   *)
(*            assertions hold, and what is single-sourced has one source.  *)
(*            It does not depend on what the undo logs restore.            *)
(*   UndoInv  what the logs of the allocation bring back.                  *)
(*   LoopInv  what the loop over the opportunities has tried.              *)
(*   ConfInv  what the logs of the configuration bring back, what the      *)
(*            recovery pairs cover, and the cached hasResAlt_.             *)
(***************************************************************************)
EXTENDS SglSrc, FiniteSetTheorems, WellFoundedInduction, SequenceTheorems,
        TLAPS

Positions == Nat \ {0}
PcIdxs    == Nat \cup {-1}

SiteStates ==
  [selRtCand : Nat, next : Positions, curPcIdx : PcIdxs, incumbPcIdx : PcIdxs,
   curVisited : BOOLEAN, curUnique : Nat, incumbUnique : Nat]

\* The part of the type invariant that the proofs need.
Types ==
  /\ pc \in {"idle", "alloc", "loop"}
  /\ testing \in Sites \cup {NoSite}
  /\ DOMAIN config = ConfigVars
  /\ site \in [Sites -> SiteStates]
  /\ altered \subseteq Sites
  /\ curVisit \subseteq Sites /\ incumbVisit \subseteq Sites
  /\ permIdx \in Nat

\* Only a call has altered sites, and none before its first trial.
AlteredInCall ==
  /\ pc = "idle" => altered = {}
  /\ pc = "alloc" /\ testing = NoSite => altered = {}
  /\ pc # "alloc" => testing = NoSite

\* The record of the present allocation: a site with flow has been visited,
\* and its unique candidate, if it has one, has all of the flow.
CurRecord ==
  \A s \in Sites :
    /\ FlowAt(flow, s) # {} => site[s].curVisited /\ s \in curVisit
    /\ site[s].curVisited /\ site[s].curUnique # None =>
         FlowAt(flow, s) \subseteq {site[s].curUnique}

\* During an allocation the selected candidate of a single-source site is its
\* selection wherever an explosion is not prohibited.
Applied ==
  pc = "alloc" =>
    \A s \in Sites, p \in Periods :
      SglSrcMode(s) /\ Valid(config, s, p, site[s].selRtCand) =>
        SelRtCand(config, s, p) = site[s].selRtCand

\* So all of the flow of the present allocation goes through it.
CurSingle ==
  pc = "alloc" =>
    \A s \in Sites :
      SglSrcMode(s) => FlowAt(flow, s) \subseteq {site[s].selRtCand}

\* And so does the flow of the incumbent, but for the site under test.
IncumbSingle ==
  \A s \in Sites :
    SglSrcMode(s) /\ s # testing =>
      FlowAt(incumbFlow, s) \subseteq {site[s].selRtCand}

IInv ==
  /\ Types
  /\ AssertionsHold
  /\ AlteredInCall
  /\ CurRecord
  /\ DiscoveryIsSound
  /\ Applied
  /\ CurSingle
  /\ IncumbSingle

\* The variables of the configuration are different from one another.
LEMMA ConfigVarFacts ==
  \A s \in Sites, p \in Periods : \A c \in Cands(s) :
     /\ Sel(s, p) \in SelVars /\ Sel(s, p) \in ConfigVars
     /\ Prev(s, p, c) \in ConfigVars /\ Prev(s, p, c) \notin SelVars
     /\ Sel(s, p)[2] = s /\ Sel(s, p)[3] = p
  <1> SUFFICES ASSUME NEW s \in Sites, NEW p \in Periods, NEW c \in Cands(s)
               PROVE  /\ Sel(s, p) \in SelVars /\ Sel(s, p) \in ConfigVars
                      /\ Prev(s, p, c) \in ConfigVars
                      /\ Prev(s, p, c) \notin SelVars
                      /\ Sel(s, p)[2] = s /\ Sel(s, p)[3] = p
    OBVIOUS
  <1>1. Sel(s, p) \in SelVars
    BY DEF SelVars
  <1>2. Prev(s, p, c) \in PrevVars
    <2>1. Prev(s, p, c) \in PrevVarsOf(s)
      BY DEF PrevVarsOf
    <2> QED
      BY <2>1 DEF PrevVars
  <1>3. Prev(s, p, c) \notin SelVars
    <2>1. ASSUME NEW t \in Sites, NEW q \in Periods, Prev(s, p, c) = Sel(t, q)
          PROVE  FALSE
      <3>1. Prev(s, p, c)[1] = "prevSel" /\ Sel(t, q)[1] = "selRtCand"
        BY DEF Prev, Sel
      <3> QED
        BY <2>1, <3>1
    <2> QED
      BY <2>1 DEF SelVars
  <1>4. Sel(s, p)[2] = s /\ Sel(s, p)[3] = p
    BY DEF Sel
  <1> QED
    BY <1>1, <1>2, <1>3, <1>4 DEF ConfigVars

LEMMA InitIInv == Init => IInv
  <1>1. SUFFICES ASSUME Init PROVE IInv
    OBVIOUS
  <1>2. \A s \in Sites : FlowAt({}, s) = {}
    BY DEF FlowAt
  <1> QED
    BY <1>1, <1>2
    DEF Init, IInv, Types, AssertionsHold, AlteredInCall, CurRecord,
        DiscoveryIsSound, Applied, CurSingle, IncumbSingle, NewSite,
        SiteStates, PcIdxs, Positions, SglSrcMode, None, InitConfig

\* What the beginning of cmqFixed establishes: no site is recorded as visited,
\* there is no flow yet, and the selections are applied.
LEMMA StartFacts ==
  ASSUME IInv, NEW st \in [Sites -> SiteStates], NEW alt \in SUBSET Sites,
         \A s \in Sites : st[s].curPcIdx = site[s].curPcIdx,
         \A s \in Sites : st[s].incumbPcIdx = site[s].incumbPcIdx,
         \A s \in Sites : st[s].incumbUnique = site[s].incumbUnique,
         \A s \in Sites : st[s].selRtCand # None => s \in alt,
         StartCmqFixed(st, alt)
  PROVE  /\ pc' = "alloc" /\ altered' = alt /\ flow' = {}
         /\ site' \in [Sites -> SiteStates]
         /\ \A s \in Sites : /\ site'[s].selRtCand = st[s].selRtCand
                             /\ site'[s].incumbUnique = site[s].incumbUnique
                             /\ site'[s].incumbPcIdx = site[s].incumbPcIdx
                             /\ site'[s].curPcIdx = -1
         /\ curVisit' = {} /\ permIdx' = 0 /\ DOMAIN config' = ConfigVars
         /\ CurRecord' /\ Applied' /\ CurSingle'
  <1>1. /\ pc' = "alloc" /\ altered' = alt /\ flow' = {} /\ curVisit' = {}
        /\ permIdx' = 0 /\ site' = CurReset(st)
        /\ DOMAIN config' = ConfigVars
    BY DEF StartCmqFixed
  <1>2. \A s \in Sites :
          /\ site'[s] \in SiteStates
          /\ site'[s].selRtCand = st[s].selRtCand
          /\ site'[s].incumbUnique = site[s].incumbUnique
          /\ site'[s].incumbPcIdx = site[s].incumbPcIdx
          /\ site'[s].curPcIdx = -1
    <2>1. SUFFICES ASSUME NEW s \in Sites
                   PROVE  /\ site'[s] \in SiteStates
                          /\ site'[s].selRtCand = st[s].selRtCand
                          /\ site'[s].incumbUnique = site[s].incumbUnique
                          /\ site'[s].incumbPcIdx = site[s].incumbPcIdx
                          /\ site'[s].curPcIdx = -1
      OBVIOUS
    <2>2. st[s] \in SiteStates
      OBVIOUS
    <2>3. CASE s \in curVisit
      <3>1. site'[s] = [st[s] EXCEPT !.curPcIdx = -1, !.curVisited = FALSE,
                                     !.curUnique = None]
        BY <1>1, <2>3 DEF CurReset
      <3>2. -1 \in PcIdxs /\ FALSE \in BOOLEAN /\ None \in Nat
        BY DEF None, PcIdxs
      <3>3. site'[s] \in SiteStates
        BY <2>2, <3>1, <3>2 DEF SiteStates
      <3>4. /\ site'[s].selRtCand = st[s].selRtCand
            /\ site'[s].incumbUnique = st[s].incumbUnique
            /\ site'[s].incumbPcIdx = st[s].incumbPcIdx
            /\ site'[s].curPcIdx = -1
        BY <2>2, <3>1 DEF SiteStates
      <3> QED
        BY <3>3, <3>4
    <2>4. CASE s \notin curVisit
      <3>1. site'[s] = st[s]
        BY <1>1, <2>4 DEF CurReset
      <3>2. ~(site[s].curPcIdx >= 0) /\ st[s].curPcIdx = site[s].curPcIdx
        BY <2>4 DEF IInv, AssertionsHold
      <3>3. st[s].curPcIdx \in Nat \cup {-1}
        BY <2>2 DEF SiteStates, PcIdxs
      <3>4. st[s].curPcIdx = -1
        <4>1. ~(st[s].curPcIdx >= 0)
          BY <3>2
        <4> QED
          BY <3>3, <4>1
      <3>5. st[s].incumbUnique = site[s].incumbUnique
        OBVIOUS
      <3>6. st[s].incumbPcIdx = site[s].incumbPcIdx
        OBVIOUS
      <3>7. site'[s].curPcIdx = -1
        BY <3>1, <3>4
      <3>8. site'[s] \in SiteStates
        BY <2>2, <3>1
      <3> QED
        BY <3>1, <3>5, <3>6, <3>7, <3>8
    <2> QED
      BY <2>3, <2>4
  <1>3. site' \in [Sites -> SiteStates]
    BY <1>1, <1>2 DEF CurReset
  <1>4. \A s \in Sites : FlowAt(flow', s) = {}
    BY <1>1 DEF FlowAt
  <1>5. CurRecord' /\ CurSingle'
    BY <1>4 DEF CurRecord, CurSingle
  <1>6. Applied'
    <2>0. config' = [v \in ConfigVars |->
                       IF v \in ToSelect(st, alt)
                       THEN st[v[2]].selRtCand ELSE config[v]]
      BY DEF StartCmqFixed
    <2>1. SUFFICES ASSUME NEW s \in Sites, NEW p \in Periods, SglSrcMode(s)',
                          Valid(config', s, p, site'[s].selRtCand)
                   PROVE  SelRtCand(config', s, p) = site'[s].selRtCand
      BY DEF Applied
    <2>c. PICK c : c = st[s].selRtCand
      OBVIOUS
    <2>2. /\ site'[s].selRtCand = c /\ st[s].selRtCand = c /\ c # None
          /\ s \in alt /\ c \in Nat
      BY <1>2, <2>1, <2>c DEF SglSrcMode, SiteStates
    <2>3. c \in Cands(s)
      BY <2>1, <2>2, EligibleAssumption DEF Valid
    <2>4. /\ Prev(s, p, c) \in ConfigVars /\ Prev(s, p, c) \notin SelVars
          /\ Sel(s, p) \in ConfigVars /\ Sel(s, p) \in SelVars
          /\ Sel(s, p)[2] = s /\ Sel(s, p)[3] = p
      BY <2>3, ConfigVarFacts
    <2>5. config'[Prev(s, p, c)] = config[Prev(s, p, c)]
      BY <2>0, <2>4 DEF ToSelect
    <2>6. Valid(config, s, p, c)
      BY <2>1, <2>2, <2>5 DEF Valid
    <2>7. CASE SelRtCand(config, s, p) = c
      <3>1. Sel(s, p) \notin ToSelect(st, alt)
        BY <2>2, <2>4, <2>7 DEF ToSelect
      <3>2. config'[Sel(s, p)] = config[Sel(s, p)]
        BY <2>0, <2>2, <2>4, <3>1
      <3> QED
        BY <2>2, <2>7, <3>2 DEF SelRtCand
    <2>8. CASE SelRtCand(config, s, p) # c
      <3>1. Sel(s, p) \in ToSelect(st, alt)
        BY <2>2, <2>4, <2>6, <2>8 DEF ToSelect
      <3>2. config'[Sel(s, p)] = c
        BY <2>0, <2>2, <2>4, <3>1
      <3> QED
        BY <2>2, <3>2 DEF SelRtCand
    <2> QED
      BY <2>7, <2>8
  <1> QED
    BY <1>1, <1>2, <1>3, <1>5, <1>6

LEMMA CommitMaxQtyKeeps == IInv /\ CommitMaxQty => IInv'
  <1>1. SUFFICES ASSUME IInv, CommitMaxQty PROVE IInv'
    OBVIOUS
  <1>2. /\ StartCmqFixed(site, altered)
        /\ testing' = NoSite /\ incumbVisit' = incumbVisit
        /\ incumbFlow' = incumbFlow /\ altered = {}
    BY <1>1 DEF CommitMaxQty, IInv, AlteredInCall
  <1>3. /\ site \in [Sites -> SiteStates] /\ altered \in SUBSET Sites
        /\ \A s \in Sites : site[s].selRtCand # None => s \in altered
    BY <1>1 DEF IInv, Types, AssertionsHold, SglSrcMode
  <1>4. /\ pc' = "alloc" /\ altered' = altered
        /\ site' \in [Sites -> SiteStates]
        /\ \A s \in Sites : /\ site'[s].selRtCand = site[s].selRtCand
                            /\ site'[s].incumbUnique = site[s].incumbUnique
                            /\ site'[s].incumbPcIdx = site[s].incumbPcIdx
                            /\ site'[s].curPcIdx = -1
        /\ curVisit' = {} /\ permIdx' = 0 /\ DOMAIN config' = ConfigVars
        /\ CurRecord' /\ Applied' /\ CurSingle'
    BY <1>1, <1>2, <1>3, StartFacts
  <1>5. Types' /\ AlteredInCall'
    BY <1>1, <1>2, <1>4 DEF IInv, Types, AlteredInCall
  <1>6. AssertionsHold' /\ DiscoveryIsSound' /\ IncumbSingle'
    BY <1>1, <1>2, <1>3, <1>4
    DEF IInv, AssertionsHold, DiscoveryIsSound, IncumbSingle, SglSrcMode
  <1> QED
    BY <1>4, <1>5, <1>6 DEF IInv

LEMMA TryNextCandKeeps ==
  ASSUME IInv, NEW s \in Sites, TryNextCand(s) PROVE IInv'
  <1>1. /\ StartCmqFixed(Selected(s), altered \cup {s})
        /\ testing' = s /\ incumbVisit' = incumbVisit
        /\ incumbFlow' = incumbFlow /\ pc = "loop"
        /\ testing = NoSite
    BY DEF TryNextCand, IInv, AlteredInCall, IsNextOpp
  <1>2. /\ Selected(s) \in [Sites -> SiteStates]
        /\ altered \cup {s} \in SUBSET Sites
        /\ \A t \in Sites : /\ Selected(s)[t].curPcIdx = site[t].curPcIdx
                            /\ Selected(s)[t].incumbPcIdx = site[t].incumbPcIdx
                            /\ Selected(s)[t].incumbUnique
                                 = site[t].incumbUnique
                            /\ t # s => Selected(s)[t] = site[t]
    <2>1. site[s] \in SiteStates /\ site[s].next \in Positions
      BY DEF IInv, Types, SiteStates
    <2> /\ site[s].next \in Nat /\ site[s].next + 1 \in Positions
      BY <2>1 DEF Positions
    <2>2. [site[s] EXCEPT !.selRtCand = site[s].next, !.next = site[s].next + 1]
            \in SiteStates
      BY <2>1 DEF SiteStates
    <2>3. \A t \in Sites :
            Selected(s)[t] =
              IF t = s
              THEN [site[s] EXCEPT !.selRtCand = site[s].next,
                                   !.next = site[s].next + 1]
              ELSE site[t]
      BY DEF Selected, IInv, Types
    <2>4. Selected(s) \in [Sites -> SiteStates]
      BY <2>2, <2>3 DEF Selected, IInv, Types
    <2>5. altered \cup {s} \in SUBSET Sites
      BY DEF IInv, Types
    <2> QED
      BY <2>1, <2>3, <2>4, <2>5 DEF SiteStates
  <1>3. \A t \in Sites :
          Selected(s)[t].selRtCand # None => t \in altered \cup {s}
    BY <1>2 DEF IInv, AssertionsHold, SglSrcMode
  <1>4. /\ pc' = "alloc" /\ altered' = altered \cup {s}
        /\ site' \in [Sites -> SiteStates]
        /\ \A t \in Sites : /\ site'[t].selRtCand = Selected(s)[t].selRtCand
                            /\ site'[t].incumbUnique = site[t].incumbUnique
                            /\ site'[t].incumbPcIdx = site[t].incumbPcIdx
                            /\ site'[t].curPcIdx = -1
        /\ curVisit' = {} /\ permIdx' = 0 /\ DOMAIN config' = ConfigVars
        /\ CurRecord' /\ Applied' /\ CurSingle'
    BY <1>1, <1>2, <1>3, StartFacts
  <1>5. Types' /\ AlteredInCall'
    BY <1>1, <1>4, NoSiteAssumption DEF IInv, Types, AlteredInCall
  <1>6. AssertionsHold' /\ DiscoveryIsSound'
    BY <1>1, <1>3, <1>4 DEF IInv, AssertionsHold, DiscoveryIsSound, SglSrcMode
  <1>7. IncumbSingle'
    BY <1>1, <1>2, <1>4, NoSiteAssumption DEF IInv, IncumbSingle, SglSrcMode
  <1> QED
    BY <1>4, <1>5, <1>6, <1>7 DEF IInv

\* A candidate of a site is a positive number.
LEMMA CandIsNat ==
  ASSUME NEW s \in Sites, NEW c \in Cands(s)
  PROVE  c \in Nat /\ c # None
  <1>1. NCands[s] \in Nat
    BY NCandsAssumption
  <1>2. c \in 1..NCands[s]
    BY DEF Cands
  <1> QED
    BY <1>1, <1>2 DEF None

\* What a recorded visit keeps and changes, of whichever kind it is.
LEMMA VisitFacts ==
  ASSUME IInv, NEW s \in Sites, NEW c \in Cands(s), NEW idx \in PcIdxs,
         site' = [site EXCEPT ![s] = Visited(s, c, idx)]
  PROVE  /\ site' \in [Sites -> SiteStates]
         /\ \A t \in Sites :
              /\ site'[t].selRtCand = site[t].selRtCand
              /\ site'[t].incumbPcIdx = site[t].incumbPcIdx
              /\ site'[t].incumbUnique = site[t].incumbUnique
              /\ t # s => site'[t] = site[t]
         /\ site'[s].curPcIdx = idx /\ site'[s].curVisited
         /\ site'[s].curUnique = Unique(s, c)
  <1>1. c \in Nat /\ None \in Nat
    BY CandIsNat DEF None
  <1>2. PICK u : u = Unique(s, c)
    OBVIOUS
  <1>3. u \in Nat
    BY <1>1, <1>2 DEF Unique
  <1>4. site \in [Sites -> SiteStates] /\ site[s] \in SiteStates
    BY DEF IInv, Types
  <1>5. site' = [site EXCEPT ![s] = [site[s] EXCEPT !.curUnique = u,
                               !.curVisited = TRUE, !.curPcIdx = idx]]
    BY <1>2 DEF Visited
  <1>6. PICK new : new = [site[s] EXCEPT !.curUnique = u, !.curVisited = TRUE,
                                         !.curPcIdx = idx]
    OBVIOUS
  <1>7. new \in SiteStates
    BY <1>3, <1>4, <1>6 DEF SiteStates
  <1>8. /\ new.selRtCand = site[s].selRtCand
        /\ new.incumbPcIdx = site[s].incumbPcIdx
        /\ new.incumbUnique = site[s].incumbUnique
        /\ new.curPcIdx = idx /\ new.curVisited /\ new.curUnique = u
    BY <1>4, <1>6 DEF SiteStates
  <1>9. site' = [site EXCEPT ![s] = new]
    BY <1>5, <1>6
  <1>10. site'[s] = new /\ \A t \in Sites : t # s => site'[t] = site[t]
    BY <1>4, <1>9
  <1>11. site' \in [Sites -> SiteStates]
    BY <1>4, <1>7, <1>9
  <1> QED
    BY <1>2, <1>8, <1>10, <1>11

LEMMA TempExplodeKeeps ==
  ASSUME IInv, NEW s \in Sites, NEW p \in Periods, NEW c \in Cands(s),
         TempExplode(s, p, c)
  PROVE  IInv'
  <1>1. /\ UNCHANGED <<pc, testing, config, altered, curVisit, incumbVisit,
                       permIdx, flow, incumbFlow>>
        /\ site' = [site EXCEPT ![s].curUnique = Unique(s, c),
                                ![s].curVisited = TRUE]
    BY DEF TempExplode, memory, visits, flows
  <1>2. PICK idx : idx = site[s].curPcIdx
    OBVIOUS
  <1>3. site \in [Sites -> SiteStates] /\ site[s] \in SiteStates
        /\ idx \in PcIdxs
    BY <1>2 DEF IInv, Types, SiteStates
  <1>4. site' = [site EXCEPT ![s] = Visited(s, c, idx)]
    BY <1>1, <1>2, <1>3 DEF Visited, SiteStates
  <1>5. /\ site' \in [Sites -> SiteStates]
        /\ \A t \in Sites :
             /\ site'[t].selRtCand = site[t].selRtCand
             /\ site'[t].incumbPcIdx = site[t].incumbPcIdx
             /\ site'[t].incumbUnique = site[t].incumbUnique
             /\ t # s => site'[t] = site[t]
        /\ site'[s].curPcIdx = idx /\ site'[s].curVisited
        /\ site'[s].curUnique = Unique(s, c)
    BY <1>3, <1>4, VisitFacts
  <1>6. Types' /\ AlteredInCall' /\ DiscoveryIsSound' /\ IncumbSingle'
    BY <1>1, <1>5
    DEF IInv, Types, AlteredInCall, DiscoveryIsSound, IncumbSingle, SglSrcMode
  <1>7. AssertionsHold'
    BY <1>1, <1>2, <1>5 DEF IInv, AssertionsHold, SglSrcMode
  <1>8. CurRecord'
    BY <1>1, <1>5 DEF IInv, CurRecord, Unique, None
  <1>9. Applied' /\ CurSingle'
    BY <1>1, <1>5 DEF IInv, Applied, CurSingle, SglSrcMode
  <1> QED
    BY <1>6, <1>7, <1>8, <1>9 DEF IInv

LEMMA PermExplodeKeeps ==
  ASSUME IInv, NEW s \in Sites, NEW p \in Periods, NEW c \in Cands(s),
         NEW new \in BOOLEAN, PermExplode(s, p, c, new)
  PROVE  IInv'
  <1>1. PICK idx : idx = IF new THEN permIdx + 1 ELSE permIdx
    OBVIOUS
  <1>2. /\ UNCHANGED <<pc, testing, config, altered, incumbVisit, incumbFlow>>
        /\ pc = "alloc"
        /\ permIdx' = idx
        /\ site' = [site EXCEPT ![s] = Visited(s, c, idx)]
        /\ curVisit' = IF site[s].curPcIdx = -1 THEN curVisit \cup {s}
                                                ELSE curVisit
        /\ flow' = flow \cup {<<s, c>>}
        /\ c = SelRtCand(config, s, p)
        /\ ~ExpProhibited(s, p)
    BY <1>1 DEF PermExplode, InAlloc
  <1>3. permIdx \in Nat
    BY DEF IInv, Types
  <1>4. idx \in Nat /\ idx \in PcIdxs
    BY <1>1, <1>3 DEF PcIdxs
  <1>5. /\ site' \in [Sites -> SiteStates]
        /\ \A t \in Sites :
             /\ site'[t].selRtCand = site[t].selRtCand
             /\ site'[t].incumbPcIdx = site[t].incumbPcIdx
             /\ site'[t].incumbUnique = site[t].incumbUnique
             /\ t # s => site'[t] = site[t]
        /\ site'[s].curPcIdx = idx /\ site'[s].curVisited
        /\ site'[s].curUnique = Unique(s, c)
    <2>1. site' = [site EXCEPT ![s] = Visited(s, c, idx)]
      BY <1>2
    <2> QED
      BY <1>4, <2>1, VisitFacts
  <1>6. site[s].curPcIdx = -1 \/ s \in curVisit
    <2>1. site[s].curPcIdx \in Nat \cup {-1}
      BY DEF IInv, Types, SiteStates, PcIdxs
    <2>2. site[s].curPcIdx >= 0 => s \in curVisit
      BY DEF IInv, AssertionsHold
    <2> QED
      BY <2>1, <2>2
  <1>7. s \in curVisit' /\ \A t \in Sites : t # s =>
                             (t \in curVisit' <=> t \in curVisit)
    BY <1>2, <1>6
  <1>8. Types' /\ AlteredInCall' /\ DiscoveryIsSound' /\ IncumbSingle'
    <2>1. curVisit' \subseteq Sites
      BY <1>2 DEF IInv, Types
    <2> QED
      BY <1>2, <1>4, <1>5, <2>1
      DEF IInv, Types, AlteredInCall, DiscoveryIsSound, IncumbSingle,
          SglSrcMode
  <1>9. AssertionsHold'
    <2>1. idx >= 0
      BY <1>4
    <2> QED
      BY <1>2, <1>5, <1>7, <2>1 DEF IInv, AssertionsHold, SglSrcMode
  <1>10. /\ FlowAt(flow', s) = FlowAt(flow, s) \cup {c}
         /\ \A t \in Sites : t # s => FlowAt(flow', t) = FlowAt(flow, t)
    BY <1>2 DEF FlowAt
  <1>11. CurRecord'
    <2>1. ASSUME NEW t \in Sites
          PROVE  /\ FlowAt(flow', t) # {} =>
                      site'[t].curVisited /\ t \in curVisit'
                 /\ site'[t].curVisited /\ site'[t].curUnique # None =>
                      FlowAt(flow', t) \subseteq {site'[t].curUnique}
      <3>1. CASE t # s
        BY <1>5, <1>7, <1>10, <3>1 DEF IInv, CurRecord
      <3>2. CASE t = s
        <4>1. /\ FlowAt(flow, s) # {} => site[s].curVisited
              /\ site[s].curVisited /\ site[s].curUnique # None =>
                   FlowAt(flow, s) \subseteq {site[s].curUnique}
          BY DEF IInv, CurRecord
        <4>2. c # None
          BY CandIsNat
        <4>3. site'[s].curUnique # None =>
                /\ site'[s].curUnique = c
                /\ ~site[s].curVisited \/ site[s].curUnique = c
          BY <1>5 DEF Unique
        <4>4. site'[s].curUnique # None => FlowAt(flow, s) \subseteq {c}
          BY <4>1, <4>2, <4>3
        <4> QED
          BY <1>5, <1>7, <1>10, <3>2, <4>3, <4>4
      <3> QED
        BY <3>1, <3>2
    <2> QED
      BY <2>1 DEF CurRecord
  <1>12. Applied'
    BY <1>2, <1>5 DEF IInv, Applied, SglSrcMode
  <1>13. CurSingle'
    <2>1. SglSrcMode(s) => c = site[s].selRtCand
      BY <1>2 DEF IInv, Applied, ExpProhibited
    <2> QED
      BY <1>2, <1>5, <1>10, <2>1 DEF IInv, CurSingle, SglSrcMode
  <1> QED
    BY <1>8, <1>9, <1>11, <1>12, <1>13 DEF IInv

\* The variables that alterSelection changes are those of its own site.
LEMMA OtherSites ==
  ASSUME NEW s \in Sites, NEW p \in Periods, DOMAIN config = ConfigVars,
         NEW t \in Sites, NEW q \in Periods, NEW c \in Cands(t), t # s
  PROVE  /\ Altered(s, p)[Sel(t, q)] = config[Sel(t, q)]
         /\ Altered(s, p)[Prev(t, q, c)] = config[Prev(t, q, c)]
         /\ DOMAIN Altered(s, p) = ConfigVars
  <1>1. PICK x : x = Prev(s, p, config[Sel(s, p)])
    OBVIOUS
  <1>2. PICK prev : prev = [config EXCEPT ![x] = TRUE]
    OBVIOUS
  <1>3. PICK y : y = NextRtCand(prev, s, p)
    OBVIOUS
  <1>4. PICK sel : sel = [prev EXCEPT ![Sel(s, p)] = y]
    OBVIOUS
  <1>5. PICK z : z = (NextRtCand(sel, s, p) # None)
    OBVIOUS
  <1>6. Altered(s, p) = [sel EXCEPT ![ResAlt(s, p)] = z]
    BY <1>1, <1>2, <1>3, <1>4, <1>5 DEF Altered
  <1>7. Sel(t, q) \in ConfigVars /\ Prev(t, q, c) \in ConfigVars
    BY ConfigVarFacts
  <1>8. /\ x[2] = s /\ Sel(s, p)[2] = s /\ ResAlt(s, p)[2] = s
        /\ Sel(t, q)[2] = t /\ Prev(t, q, c)[2] = t
    BY <1>1 DEF Prev, Sel, ResAlt
  <1>9. \A v \in ConfigVars : v[2] = t => Altered(s, p)[v] = config[v]
    <2>1. ASSUME NEW v \in ConfigVars, v[2] = t
          PROVE  Altered(s, p)[v] = config[v]
      <3>1. v # x /\ v # Sel(s, p) /\ v # ResAlt(s, p)
        BY <1>8, <2>1
      <3>2. prev[v] = config[v] /\ DOMAIN prev = ConfigVars
        BY <1>2, <3>1
      <3>3. sel[v] = prev[v] /\ DOMAIN sel = ConfigVars
        BY <1>4, <3>1, <3>2
      <3> QED
        BY <1>6, <3>1, <3>2, <3>3
    <2> QED
      BY <2>1
  <1>10. DOMAIN Altered(s, p) = ConfigVars
    BY <1>2, <1>4, <1>6
  <1> QED
    BY <1>7, <1>8, <1>9, <1>10

LEMMA AlterSelectionKeeps ==
  ASSUME IInv, NEW s \in Sites, NEW p \in Periods, AlterSelection(s, p)
  PROVE  IInv'
  <1>1. /\ UNCHANGED <<pc, testing, site, altered, curVisit, incumbVisit,
                       permIdx, flow, incumbFlow>>
        /\ config' = Altered(s, p)
        /\ ~SglSrcMode(s)
    BY DEF AlterSelection, AltPt, visits, flows
  <1>2. DOMAIN config = ConfigVars
    BY DEF IInv, Types
  <1>3. DOMAIN config' = ConfigVars
    BY <1>1, <1>2 DEF Altered
  <1>4. /\ Types' /\ AssertionsHold' /\ AlteredInCall' /\ CurRecord'
        /\ DiscoveryIsSound' /\ CurSingle' /\ IncumbSingle'
    BY <1>1, <1>3
    DEF IInv, Types, AssertionsHold, AlteredInCall, CurRecord,
        DiscoveryIsSound, CurSingle, IncumbSingle, SglSrcMode
  <1>5. Applied'
    <2>1. SUFFICES ASSUME pc' = "alloc", NEW t \in Sites, NEW q \in Periods,
                          SglSrcMode(t)',
                          Valid(config', t, q, site'[t].selRtCand)
                   PROVE  SelRtCand(config', t, q) = site'[t].selRtCand
      BY DEF Applied
    <2>2. PICK c : c = site[t].selRtCand
      OBVIOUS
    <2>3. SglSrcMode(t) /\ t # s /\ site'[t].selRtCand = c
      BY <1>1, <2>1, <2>2 DEF SglSrcMode
    <2>4. c \in Cands(t)
      BY <2>1, <2>3, EligibleAssumption DEF Valid
    <2>5. /\ config'[Sel(t, q)] = config[Sel(t, q)]
          /\ config'[Prev(t, q, c)] = config[Prev(t, q, c)]
      BY <1>1, <1>2, <2>3, <2>4, OtherSites
    <2>6. Valid(config, t, q, c)
      BY <2>1, <2>3, <2>5 DEF Valid
    <2>7. SelRtCand(config, t, q) = c
      BY <1>1, <2>1, <2>2, <2>3, <2>6 DEF IInv, Applied
    <2> QED
      BY <2>3, <2>5, <2>7 DEF SelRtCand
  <1> QED
    BY <1>4, <1>5 DEF IInv

\* What a new incumbent takes over from the allocation that becomes it.
LEMMA IncumbentFacts ==
  ASSUME IInv, site' = SitesAsIncumb
  PROVE  /\ site' \in [Sites -> SiteStates]
         /\ \A s \in Sites :
              /\ site'[s].selRtCand = site[s].selRtCand
              /\ site'[s].curPcIdx = site[s].curPcIdx
              /\ site'[s].curVisited <=> site[s].curVisited
              /\ site'[s].curUnique = site[s].curUnique
              /\ s \in curVisit => /\ site'[s].incumbPcIdx = site[s].curPcIdx
                                  /\ site'[s].incumbUnique = site[s].curUnique
              /\ s \notin curVisit => /\ site'[s].incumbPcIdx = -1
                                     /\ \/ site'[s].incumbUnique = None
                                        \/ site'[s].incumbUnique
                                             = site[s].incumbUnique
  <1>1. site \in [Sites -> SiteStates]
    BY DEF IInv, Types
  <1>2. ASSUME NEW s \in Sites
        PROVE  /\ site'[s] \in SiteStates
               /\ site'[s].selRtCand = site[s].selRtCand
               /\ site'[s].curPcIdx = site[s].curPcIdx
               /\ site'[s].curVisited <=> site[s].curVisited
               /\ site'[s].curUnique = site[s].curUnique
               /\ s \in curVisit => /\ site'[s].incumbPcIdx = site[s].curPcIdx
                                   /\ site'[s].incumbUnique
                                        = site[s].curUnique
               /\ s \notin curVisit => /\ site'[s].incumbPcIdx = -1
                                      /\ \/ site'[s].incumbUnique = None
                                         \/ site'[s].incumbUnique
                                              = site[s].incumbUnique
    <2>1. site[s] \in SiteStates
      BY <1>1
    <2>2. /\ site[s].curPcIdx \in PcIdxs /\ site[s].curUnique \in Nat
          /\ -1 \in PcIdxs /\ None \in Nat
      BY <2>1 DEF SiteStates, PcIdxs, None
    <2>3. CASE s \in curVisit
      <3>1. site'[s] = [site[s] EXCEPT !.incumbPcIdx = site[s].curPcIdx,
                                       !.incumbUnique = site[s].curUnique]
        BY <2>3 DEF SitesAsIncumb
      <3> QED
        BY <2>1, <2>2, <2>3, <3>1 DEF SiteStates
    <2>4. CASE s \notin curVisit /\ s \in incumbVisit
      <3>1. site'[s] = [site[s] EXCEPT !.incumbPcIdx = -1,
                                       !.incumbUnique = None]
        BY <2>4 DEF SitesAsIncumb
      <3> QED
        BY <2>1, <2>2, <2>4, <3>1 DEF SiteStates
    <2>5. CASE s \notin curVisit /\ s \notin incumbVisit
      <3>1. site'[s] = site[s]
        BY <2>5 DEF SitesAsIncumb
      <3>2. ~(site[s].incumbPcIdx >= 0)
        BY <2>5 DEF IInv, AssertionsHold
      <3>3. site[s].incumbPcIdx \in Nat \cup {-1}
        BY <2>1 DEF SiteStates, PcIdxs
      <3>4. site[s].incumbPcIdx = -1
        BY <3>2, <3>3
      <3> QED
        BY <2>1, <2>5, <3>1, <3>4
    <2> QED
      BY <2>3, <2>4, <2>5
  <1>3. site' \in [Sites -> SiteStates]
    BY <1>2 DEF SitesAsIncumb
  <1> QED
    BY <1>2, <1>3

\* A success makes the present allocation the incumbent.
LEMMA SuccessKeeps ==
  ASSUME IInv, pc = "alloc", SaveCurAsIncumb, pc' = "loop", testing' = NoSite,
         UNCHANGED <<altered, curVisit, permIdx, flow>>
  PROVE  IInv'
  <1>1. /\ site' = SitesAsIncumb /\ incumbVisit' = curVisit
        /\ incumbFlow' = flow
        /\ DOMAIN config' = DOMAIN config
    BY DEF SaveCurAsIncumb, Restored
  <1>2. /\ site' \in [Sites -> SiteStates]
        /\ \A s \in Sites :
             /\ site'[s].selRtCand = site[s].selRtCand
             /\ site'[s].curPcIdx = site[s].curPcIdx
             /\ site'[s].curVisited <=> site[s].curVisited
             /\ site'[s].curUnique = site[s].curUnique
             /\ s \in curVisit => /\ site'[s].incumbPcIdx = site[s].curPcIdx
                                 /\ site'[s].incumbUnique = site[s].curUnique
             /\ s \notin curVisit => /\ site'[s].incumbPcIdx = -1
                                    /\ \/ site'[s].incumbUnique = None
                                       \/ site'[s].incumbUnique
                                            = site[s].incumbUnique
    BY <1>1, IncumbentFacts
  <1>3. Types' /\ AlteredInCall' /\ Applied'
    BY <1>1, <1>2 DEF IInv, Types, AlteredInCall, Applied
  <1>4. AssertionsHold'
    <2>1. ~(-1 >= 0)
      OBVIOUS
    <2> QED
      BY <1>1, <1>2, <2>1 DEF IInv, AssertionsHold, SglSrcMode
  <1>5. CurRecord' /\ CurSingle'
    BY <1>2 DEF IInv, CurRecord, CurSingle
  <1>6. \A s \in Sites : s \notin curVisit => FlowAt(flow, s) = {}
    BY DEF IInv, CurRecord
  <1>7. DiscoveryIsSound'
    <2>1. ASSUME NEW s \in Sites, site'[s].incumbUnique # None
          PROVE  FlowAt(flow, s) \subseteq {site'[s].incumbUnique}
      <3>1. CASE s \notin curVisit
        BY <1>6, <3>1
      <3>2. CASE s \in curVisit /\ FlowAt(flow, s) = {}
        BY <3>2
      <3>3. CASE s \in curVisit /\ FlowAt(flow, s) # {}
        BY <1>2, <2>1, <3>3 DEF IInv, CurRecord
      <3> QED
        BY <3>1, <3>2, <3>3
    <2> QED
      BY <1>1, <2>1 DEF DiscoveryIsSound
  <1>8. IncumbSingle'
    BY <1>1, <1>2 DEF IInv, CurSingle, IncumbSingle, SglSrcMode
  <1> QED
    BY <1>3, <1>4, <1>5, <1>7, <1>8 DEF IInv

LEMMA MsAllocIsFullKeeps == IInv /\ MsAllocIsFull => IInv'
  <1>1. SUFFICES ASSUME IInv, MsAllocIsFull PROVE IInv'
    OBVIOUS
  <1>2. /\ pc = "alloc" /\ SaveCurAsIncumb /\ pc' = "loop"
        /\ testing' = NoSite
        /\ UNCHANGED <<altered, curVisit, permIdx, flow>>
    BY <1>1 DEF MsAllocIsFull, perm
  <1> QED
    BY <1>1, <1>2, SuccessKeeps

LEMMA AcceptKeeps == IInv /\ Accept => IInv'
  <1>1. SUFFICES ASSUME IInv, Accept PROVE IInv'
    OBVIOUS
  <1>2. /\ pc = "alloc" /\ SaveCurAsIncumb /\ pc' = "loop"
        /\ testing' = NoSite
        /\ UNCHANGED <<altered, curVisit, permIdx, flow>>
    BY <1>1 DEF Accept, perm
  <1> QED
    BY <1>1, <1>2, SuccessKeeps

LEMMA MsAllocIsShortKeeps == IInv /\ MsAllocIsShort => IInv'
  <1>1. SUFFICES ASSUME IInv, MsAllocIsShort PROVE IInv'
    OBVIOUS
  <1>2. /\ pc = "alloc" /\ testing = NoSite /\ pc' = "idle"
        /\ UNCHANGED <<testing, config, site, altered, curVisit, incumbVisit,
                       permIdx, flow, incumbFlow>>
    BY <1>1 DEF MsAllocIsShort, memory, visits, perm, flows
  <1> QED
    BY <1>1, <1>2
    DEF IInv, Types, AssertionsHold, AlteredInCall, CurRecord,
        DiscoveryIsSound, Applied, CurSingle, IncumbSingle, SglSrcMode

LEMMA RejectKeeps == IInv /\ Reject => IInv'
  <1>1. SUFFICES ASSUME IInv, Reject PROVE IInv'
    OBVIOUS
  <1>2. /\ pc = "alloc" /\ testing \in Sites
        /\ pc' = "loop" /\ testing' = NoSite
        /\ site' = [site EXCEPT ![testing].selRtCand = None]
        /\ DOMAIN config' = DOMAIN config
        /\ UNCHANGED <<altered, curVisit, incumbVisit, permIdx, flow,
                       incumbFlow>>
    BY <1>1 DEF Reject, Restored, visits, perm, flows, IInv, Types
  <1>3. PICK new : new = [site[testing] EXCEPT !.selRtCand = None]
    OBVIOUS
  <1>4. site \in [Sites -> SiteStates] /\ site[testing] \in SiteStates
    BY <1>1, <1>2 DEF IInv, Types
  <1>5. /\ new \in SiteStates /\ new.selRtCand = None
        /\ new.curPcIdx = site[testing].curPcIdx
        /\ new.incumbPcIdx = site[testing].incumbPcIdx
        /\ new.incumbUnique = site[testing].incumbUnique
        /\ new.curVisited <=> site[testing].curVisited
        /\ new.curUnique = site[testing].curUnique
    BY <1>3, <1>4 DEF SiteStates, None
  <1>6. site' = [site EXCEPT ![testing] = new]
    BY <1>2, <1>3, <1>4
  <1>7. /\ site' \in [Sites -> SiteStates] /\ site'[testing] = new
        /\ \A t \in Sites : t # testing => site'[t] = site[t]
    BY <1>2, <1>4, <1>5, <1>6
  <1>8. /\ site'[testing].selRtCand = None
        /\ \A t \in Sites :
             /\ site'[t].curPcIdx = site[t].curPcIdx
             /\ site'[t].incumbPcIdx = site[t].incumbPcIdx
             /\ site'[t].incumbUnique = site[t].incumbUnique
             /\ site'[t].curVisited <=> site[t].curVisited
             /\ site'[t].curUnique = site[t].curUnique
             /\ t # testing => site'[t].selRtCand = site[t].selRtCand
    BY <1>5, <1>7
  <1>9. Types' /\ AlteredInCall' /\ Applied' /\ CurSingle'
    BY <1>1, <1>2, <1>7 DEF IInv, Types, AlteredInCall, Applied, CurSingle
  <1>10. AssertionsHold'
    BY <1>1, <1>2, <1>8 DEF IInv, AssertionsHold, SglSrcMode
  <1>11. CurRecord' /\ DiscoveryIsSound'
    BY <1>1, <1>2, <1>8 DEF IInv, CurRecord, DiscoveryIsSound
  <1>12. IncumbSingle'
    BY <1>1, <1>2, <1>8 DEF IInv, IncumbSingle, SglSrcMode
  <1> QED
    BY <1>9, <1>10, <1>11, <1>12 DEF IInv

LEMMA SelectDiscoveryKeeps ==
  ASSUME IInv, NEW s \in Sites, SelectDiscovery(s) PROVE IInv'
  <1>1. /\ pc = "loop" /\ pc' = pc /\ testing' = testing
        /\ site' = Selected(s) /\ altered' = altered \cup {s}
        /\ site[s].next = site[s].incumbUnique
        /\ UNCHANGED <<config, curVisit, incumbVisit, permIdx, flow,
                       incumbFlow>>
    BY DEF SelectDiscovery, IsNextOpp, NextCandIsSglSrc, memory, visits, perm,
           flows
  <1>2. PICK new : new = [site[s] EXCEPT !.selRtCand = site[s].next,
                                         !.next = site[s].next + 1]
    OBVIOUS
  <1>3. site \in [Sites -> SiteStates] /\ site[s] \in SiteStates
    BY DEF IInv, Types
  <1>4. site[s].next \in Nat /\ site[s].next # None
        /\ site[s].next + 1 \in Positions
    BY <1>3 DEF SiteStates, Positions, None
  <1>5. /\ new \in SiteStates /\ new.selRtCand = site[s].next
        /\ new.curPcIdx = site[s].curPcIdx
        /\ new.incumbPcIdx = site[s].incumbPcIdx
        /\ new.incumbUnique = site[s].incumbUnique
        /\ new.curVisited <=> site[s].curVisited
        /\ new.curUnique = site[s].curUnique
    BY <1>2, <1>3, <1>4 DEF SiteStates
  <1>6. site' = [site EXCEPT ![s] = new]
    BY <1>1, <1>2, <1>3 DEF Selected
  <1>7. /\ site' \in [Sites -> SiteStates] /\ site'[s] = new
        /\ \A t \in Sites : t # s => site'[t] = site[t]
    BY <1>3, <1>5, <1>6
  <1>8. /\ site'[s].selRtCand = site[s].next
        /\ \A t \in Sites :
             /\ site'[t].curPcIdx = site[t].curPcIdx
             /\ site'[t].incumbPcIdx = site[t].incumbPcIdx
             /\ site'[t].incumbUnique = site[t].incumbUnique
             /\ site'[t].curVisited <=> site[t].curVisited
             /\ site'[t].curUnique = site[t].curUnique
             /\ t # s => site'[t].selRtCand = site[t].selRtCand
    BY <1>5, <1>7
  <1>9. Types' /\ AlteredInCall' /\ Applied' /\ CurSingle'
    BY <1>1, <1>7 DEF IInv, Types, AlteredInCall, Applied, CurSingle
  <1>10. AssertionsHold'
    BY <1>1, <1>8 DEF IInv, AssertionsHold, SglSrcMode
  <1>11. CurRecord' /\ DiscoveryIsSound'
    BY <1>1, <1>8 DEF IInv, CurRecord, DiscoveryIsSound
  <1>12. FlowAt(incumbFlow, s) \subseteq {site[s].next}
    BY <1>1, <1>4 DEF IInv, DiscoveryIsSound
  <1>13. IncumbSingle'
    BY <1>1, <1>8, <1>12 DEF IInv, IncumbSingle, SglSrcMode
  <1> QED
    BY <1>9, <1>10, <1>11, <1>13 DEF IInv

LEMMA PreserveIncumbKeeps == IInv /\ PreserveIncumb => IInv'
  <1>1. SUFFICES ASSUME IInv, PreserveIncumb PROVE IInv'
    OBVIOUS
  <1>2. /\ pc = "loop" /\ pc' = "idle" /\ testing' = testing
        /\ site' = AlteredReset /\ altered' = {}
        /\ DOMAIN config' = DOMAIN config
        /\ UNCHANGED <<curVisit, incumbVisit, permIdx, flow, incumbFlow>>
    BY <1>1 DEF PreserveIncumb, PreservedConfig, Restored, visits, perm, flows
  <1>3. ASSUME NEW s \in Sites
        PROVE  /\ site'[s] \in SiteStates
               /\ site'[s].selRtCand = None
               /\ site'[s].curPcIdx = site[s].curPcIdx
               /\ site'[s].incumbPcIdx = site[s].incumbPcIdx
               /\ site'[s].incumbUnique = site[s].incumbUnique
               /\ site'[s].curVisited <=> site[s].curVisited
               /\ site'[s].curUnique = site[s].curUnique
    <2>1. site[s] \in SiteStates /\ 1 \in Positions /\ None \in Nat
      BY <1>1 DEF IInv, Types, Positions, None
    <2>2. CASE s \in altered
      <3>1. site'[s] = [site[s] EXCEPT !.selRtCand = None, !.next = 1]
        BY <1>2, <2>2 DEF AlteredReset
      <3> QED
        BY <2>1, <3>1 DEF SiteStates
    <2>3. CASE s \notin altered
      <3>1. site'[s] = site[s]
        BY <1>2, <2>3 DEF AlteredReset
      <3>2. site[s].selRtCand = None
        BY <1>1, <2>3 DEF IInv, AssertionsHold, SglSrcMode
      <3> QED
        BY <2>1, <3>1, <3>2
    <2> QED
      BY <2>2, <2>3
  <1>4. site' \in [Sites -> SiteStates]
    BY <1>2, <1>3 DEF AlteredReset
  <1>5. /\ Types' /\ AlteredInCall' /\ AssertionsHold' /\ CurRecord'
        /\ DiscoveryIsSound' /\ Applied' /\ CurSingle' /\ IncumbSingle'
    BY <1>1, <1>2, <1>3, <1>4
    DEF IInv, Types, AlteredInCall, AssertionsHold, CurRecord,
        DiscoveryIsSound, Applied, CurSingle, IncumbSingle, SglSrcMode
  <1> QED
    BY <1>5 DEF IInv

LEMMA RecoverInitStateKeeps == IInv /\ RecoverInitState => IInv'
  <1>1. SUFFICES ASSUME IInv, RecoverInitState PROVE IInv'
    OBVIOUS
  <1>2. /\ pc = "idle" /\ DOMAIN config' = ConfigVars
        /\ UNCHANGED <<pc, testing, site, altered, curVisit, incumbVisit,
                       permIdx, flow, incumbFlow>>
    BY <1>1 DEF RecoverInitState, visits, perm, flows
  <1> QED
    BY <1>1, <1>2
    DEF IInv, Types, AssertionsHold, AlteredInCall, CurRecord,
        DiscoveryIsSound, Applied, CurSingle, IncumbSingle, SglSrcMode

LEMMA StutterKeeps == IInv /\ UNCHANGED vars => IInv'
  <1>1. SUFFICES ASSUME IInv, UNCHANGED vars PROVE IInv'
    OBVIOUS
  <1>2. UNCHANGED <<pc, testing, config, site, altered, curVisit, incumbVisit,
                    permIdx, flow, incumbFlow>>
    BY <1>1 DEF vars, memory, visits, perm, flows
  <1> QED
    BY <1>1, <1>2
    DEF IInv, Types, AssertionsHold, AlteredInCall, CurRecord,
        DiscoveryIsSound, Applied, CurSingle, IncumbSingle, SglSrcMode

LEMMA NextIInv == IInv /\ [Next]_vars => IInv'
  <1>1. ASSUME IInv, CommitMaxQty PROVE IInv'
    BY <1>1, CommitMaxQtyKeeps
  <1>2. ASSUME IInv, Allocate PROVE IInv'
    <2>1. PICK s \in Sites, p \in Periods :
            \/ AlterSelection(s, p)
            \/ \E c \in Cands(s) :
                  \/ TempExplode(s, p, c)
                  \/ \E new \in BOOLEAN : PermExplode(s, p, c, new)
      BY <1>2 DEF Allocate
    <2>2. CASE AlterSelection(s, p)
      BY <1>2, <2>2, AlterSelectionKeeps
    <2>3. ASSUME NEW c \in Cands(s), TempExplode(s, p, c) PROVE IInv'
      BY <1>2, <2>3, TempExplodeKeeps
    <2>4. ASSUME NEW c \in Cands(s), NEW new \in BOOLEAN,
                 PermExplode(s, p, c, new)
          PROVE  IInv'
      BY <1>2, <2>4, PermExplodeKeeps
    <2> QED
      BY <2>1, <2>2, <2>3, <2>4
  <1>3. ASSUME IInv, EndAlloc PROVE IInv'
    BY <1>3, MsAllocIsFullKeeps, MsAllocIsShortKeeps, AcceptKeeps, RejectKeeps
    DEF EndAlloc
  <1>4. ASSUME IInv, NextOpp PROVE IInv'
    <2>1. PICK s \in Sites : SelectDiscovery(s) \/ TryNextCand(s)
      BY <1>4 DEF NextOpp
    <2> QED
      BY <1>4, <2>1, SelectDiscoveryKeeps, TryNextCandKeeps
  <1>5. ASSUME IInv, PreserveIncumb PROVE IInv'
    BY <1>5, PreserveIncumbKeeps
  <1>6. ASSUME IInv, RecoverInitState PROVE IInv'
    BY <1>6, RecoverInitStateKeeps
  <1> QED
    BY <1>1, <1>2, <1>3, <1>4, <1>5, <1>6, StutterKeeps DEF Next, InCall

LEMMA IInvHolds == Spec => []IInv
  BY InitIInv, NextIInv, PTL DEF Spec

\* A site is in a stack of visited sites exactly if it has the index of a
\* permanent commit there, and only altered sites are in single-source mode:
\* the assertions of SglSrcSite.C hold.
THEOREM AssertionsAlwaysHold == Spec => []AssertionsHold
  <1>1. IInv => AssertionsHold
    BY DEF IInv
  <1> QED
    BY <1>1, IInvHolds, PTL

\* A discovery is one: all of the incumbent's flow through the site goes
\* through the candidate that is taken without a trial; and while the manager
\* looks for the next opportunity, every site in single-source mode has all of
\* the incumbent's flow in its selected candidate.
THEOREM SourcesStaySingle == Spec => []SourcesAreSingle
  <1>1. IInv => SingleSourced
    <2>1. SUFFICES ASSUME IInv, pc = "loop" PROVE SingleSourced
      BY DEF SingleSourced
    <2>2. testing = NoSite
      BY <2>1 DEF IInv, AlteredInCall
    <2> QED
      BY <2>1, <2>2, NoSiteAssumption DEF IInv, IncumbSingle, SingleSourced
  <1>2. IInv => SourcesAreSingle
    BY <1>1 DEF IInv, SourcesAreSingle
  <1> QED
    BY <1>2, IInvHolds, PTL

-------------------------------------------------------------------------------
(* What the undo logs bring back. *)

\* Every non-empty set of natural numbers has a least element.
LEMMA NatMin ==
  ASSUME NEW T \in SUBSET Nat, T # {}
  PROVE  \E x \in T : \A y \in T : x <= y
  <1>1. PICK R : R = OpToRel(<, Nat)
    OBVIOUS
  <1>2. IsWellFoundedOn(R, Nat)
    BY <1>1, NatLessThanWellFounded
  <1>3. PICK x \in T : \A y \in T : ~(<<y, x>> \in R)
    BY <1>2, WFMin
  <1>4. ASSUME NEW y \in T PROVE x <= y
    <2>1. y < x => <<y, x>> \in R
      BY <1>1 DEF OpToRel
    <2>2. x \in Nat /\ y \in Nat
      OBVIOUS
    <2> QED
      BY <1>3, <2>1, <2>2
  <1> QED
    BY <1>4

\* Oldest picks the least of a set of positions, and nothing else is least.
LEMMA OldestFacts ==
  ASSUME NEW T \in SUBSET Nat, T # {}
  PROVE  /\ Oldest(T) \in T
         /\ \A y \in T : Oldest(T) <= y
         /\ \A x \in T : (\A y \in T : x <= y) => x = Oldest(T)
  <1>1. \E x \in T : \A y \in T : x <= y
    BY NatMin
  <1>2. Oldest(T) \in T /\ \A y \in T : Oldest(T) <= y
    BY <1>1 DEF Oldest
  <1>3. ASSUME NEW x \in T, \A y \in T : x <= y PROVE x = Oldest(T)
    <2>1. x <= Oldest(T) /\ Oldest(T) <= x
      BY <1>2, <1>3
    <2>2. x \in Nat /\ Oldest(T) \in Nat
      BY <1>2
    <2> QED
      BY <2>1, <2>2
  <1> QED
    BY <1>2, <1>3

\* The logs of a memory of numbers.
Pairs(D, V) == [loc : D, val : V]
LEMMA RestoredEmpty ==
  ASSUME NEW D, NEW V, NEW mem \in [D -> V]
  PROVE  Restored(mem, <<>>) = mem
  BY DEF Restored, SavesOf

\* Saving adds a pair of the memory to the log.
LEMMA SavedType ==
  ASSUME NEW D, NEW V, NEW mem \in [D -> V], NEW log \in Seq(Pairs(D, V)), NEW v \in D
  PROVE  Saved(log, mem, v) \in Seq(Pairs(D, V))
  <1>1. PICK pair : pair = [loc |-> v, val |-> mem[v]]
    OBVIOUS
  <1>2. pair \in Pairs(D, V)
    BY <1>1 DEF Pairs
  <1>3. Append(log, pair) \in Seq(Pairs(D, V))
    BY <1>2, AppendProperties
  <1> QED
    BY <1>1, <1>3 DEF Saved

\* A saved assignment does not change what will be restored.
LEMMA RestoredSaved ==
  ASSUME NEW D, NEW V, NEW mem \in [D -> V], NEW log \in Seq(Pairs(D, V)),
         NEW v \in D, NEW m \in [D -> V],
         \A w \in D : w # v => m[w] = mem[w]
  PROVE  Restored(m, Saved(log, mem, v)) = Restored(mem, log)
  <1>1. PICK pair : pair = [loc |-> v, val |-> mem[v]]
    OBVIOUS
  <1>2. pair \in Pairs(D, V) /\ pair.loc = v /\ pair.val = mem[v]
    BY <1>1 DEF Pairs
  <1>3. PICK new : new = Append(log, pair)
    OBVIOUS
  <1>4. /\ new \in Seq(Pairs(D, V)) /\ Len(log) \in Nat
        /\ DOMAIN log = 1..Len(log) /\ DOMAIN new = 1..(Len(log) + 1)
        /\ \A i \in 1..Len(log) : new[i] = log[i]
        /\ new[Len(log) + 1] = pair
    BY <1>2, <1>3, AppendProperties, LenProperties
  <1>6. DOMAIN m = D
    OBVIOUS
  <1>7. ASSUME NEW w \in D
        PROVE  Restored(m, new)[w] = Restored(mem, log)[w]
    <2>1. /\ SavesOf(log, w) \in SUBSET Nat /\ SavesOf(new, w) \in SUBSET Nat
          /\ SavesOf(log, w) \subseteq 1..Len(log)
      BY <1>4 DEF SavesOf
    <2>2. CASE SavesOf(log, w) # {}
      <3>1. SavesOf(log, w) \subseteq SavesOf(new, w)
        BY <1>4 DEF SavesOf
      <3>2. \A i \in SavesOf(new, w) :
              i \in SavesOf(log, w) \/ i = Len(log) + 1
        BY <1>4 DEF SavesOf
      <3>3. PICK k : k = Oldest(SavesOf(log, w))
        OBVIOUS
      <3>4. k \in SavesOf(log, w) /\ \A y \in SavesOf(log, w) : k <= y
        BY <2>1, <2>2, <3>3, OldestFacts
      <3>5. k \in 1..Len(log)
        BY <2>1, <3>4
      <3>6. k \in SavesOf(new, w) /\ \A y \in SavesOf(new, w) : k <= y
        BY <1>4, <3>1, <3>2, <3>4, <3>5
      <3>7. k = Oldest(SavesOf(new, w))
        BY <2>1, <3>6, OldestFacts
      <3>8. Restored(m, new)[w] = new[k].val
        BY <1>6, <3>6, <3>7 DEF Restored
      <3>9. Restored(mem, log)[w] = log[k].val
        BY <2>2, <3>3 DEF Restored
      <3> QED
        BY <1>4, <3>5, <3>8, <3>9
    <2>3. CASE SavesOf(log, w) = {} /\ w # v
      <3>1. SavesOf(new, w) = {}
        BY <1>2, <1>4, <2>3 DEF SavesOf
      <3> QED
        BY <1>6, <2>3, <3>1 DEF Restored
    <2>4. CASE SavesOf(log, w) = {} /\ w = v
      <3>1. SavesOf(new, w) = {Len(log) + 1}
        BY <1>2, <1>4, <2>4 DEF SavesOf
      <3>2. Oldest(SavesOf(new, w)) = Len(log) + 1
        BY <1>4, <2>1, <3>1, OldestFacts
      <3>3. Restored(m, new)[w] = mem[v]
        BY <1>2, <1>4, <1>6, <3>1, <3>2 DEF Restored
      <3> QED
        BY <2>4, <3>3 DEF Restored
    <2> QED
      BY <2>2, <2>3, <2>4
  <1>8. Restored(m, new) = Restored(mem, log)
    BY <1>6, <1>7 DEF Restored
  <1> QED
    BY <1>1, <1>3, <1>4, <1>8 DEF Saved

\* Restoring keeps the memory a memory of numbers.
LEMMA RestoredType ==
  ASSUME NEW D, NEW V, NEW mem \in [D -> V], NEW log \in Seq(Pairs(D, V))
  PROVE  Restored(mem, log) \in [D -> V]
  <1>1. ASSUME NEW w \in D
        PROVE  (IF SavesOf(log, w) = {}
                THEN mem[w] ELSE log[Oldest(SavesOf(log, w))].val) \in V
    <2>1. CASE SavesOf(log, w) = {}
      BY <2>1
    <2>2. CASE SavesOf(log, w) # {}
      <3>1. /\ SavesOf(log, w) \in SUBSET Nat
            /\ SavesOf(log, w) \subseteq 1..Len(log)
        BY LenProperties DEF SavesOf
      <3>2. Oldest(SavesOf(log, w)) \in 1..Len(log)
        BY <2>2, <3>1, OldestFacts
      <3>3. log[Oldest(SavesOf(log, w))] \in Pairs(D, V)
        BY <3>2, LenProperties
      <3> QED
        BY <2>2, <3>3 DEF Pairs
    <2> QED
      BY <2>1, <2>2
  <1> QED
    BY <1>1 DEF Restored

\* What restoreAndSave restores, its own log brings back.
LEMMA RestoredSwapped ==
  ASSUME NEW D, NEW V, NEW mem \in [D -> V], NEW log \in Seq(Pairs(D, V))
  PROVE  /\ Swapped(mem, log) \in Seq(Pairs(D, V))
         /\ Restored(Restored(mem, log), Swapped(mem, log)) = mem
  <1>1. PICK n : n = Len(log)
    OBVIOUS
  <1>2. n \in Nat /\ DOMAIN log = 1..n /\ \A k \in 1..n : log[k] \in Pairs(D, V)
    BY <1>1, LenProperties
  <1>3. PICK sw : sw = Swapped(mem, log)
    OBVIOUS
  <1>4. ASSUME NEW i \in 1..n
        PROVE  \E k \in 1..n, newer \in SUBSET (1..n) :
                 /\ k = n + 1 - i
                 /\ newer = {j \in SavesOf(log, log[k].loc) : j > k}
                 /\ sw[i] = [loc |-> log[k].loc,
                             val |-> IF newer = {} THEN mem[log[k].loc]
                                     ELSE log[Oldest(newer)].val]
                 /\ sw[i] \in Pairs(D, V)
                 /\ sw[i].loc = log[k].loc
                 /\ newer = {} => sw[i].val = mem[log[k].loc]
    <2>1. PICK k : k = n + 1 - i
      OBVIOUS
    <2>2. k \in 1..n
      BY <1>2, <2>1
    <2>3. PICK v : v = log[k].loc
      OBVIOUS
    <2>4. v \in D
      BY <1>2, <2>2, <2>3 DEF Pairs
    <2>5. PICK newer : newer = {j \in SavesOf(log, v) : j > k}
      OBVIOUS
    <2>6. newer \in SUBSET (1..n) /\ newer \in SUBSET Nat
      BY <1>2, <2>5 DEF SavesOf
    <2>7. PICK x : x = IF newer = {} THEN mem[v] ELSE log[Oldest(newer)].val
      OBVIOUS
    <2>8. x \in V
      <3>1. CASE newer = {}
        BY <2>4, <2>7, <3>1
      <3>2. CASE newer # {}
        <4>1. Oldest(newer) \in 1..n
          BY <2>6, <3>2, OldestFacts
        <4>2. log[Oldest(newer)] \in Pairs(D, V)
          BY <1>2, <4>1
        <4> QED
          BY <2>7, <3>2, <4>2 DEF Pairs
      <3> QED
        BY <3>1, <3>2
    <2>9. sw[i] = [loc |-> v, val |-> x]
      BY <1>1, <1>3, <2>1, <2>3, <2>5, <2>7 DEF Swapped
    <2>10. sw[i] \in Pairs(D, V) /\ sw[i].loc = v /\ sw[i].val = x
      BY <2>4, <2>8, <2>9 DEF Pairs
    <2> QED
      BY <2>1, <2>2, <2>3, <2>5, <2>6, <2>7, <2>9, <2>10
  <1>5. /\ DOMAIN sw = 1..n /\ sw \in Seq(Pairs(D, V)) /\ Len(sw) = n
    <2>1. sw \in [1..n -> Pairs(D, V)]
      BY <1>1, <1>3, <1>4 DEF Swapped
    <2> QED
      BY <1>2, <2>1, LenProperties
  <1>6. \A i \in 1..n : sw[i].loc = log[n + 1 - i].loc
    BY <1>4
  <1>7. PICK old : old = Restored(mem, log)
    OBVIOUS
  <1>8. old \in [D -> V]
    BY <1>7, RestoredType
  <1>9. ASSUME NEW w \in D PROVE Restored(old, sw)[w] = mem[w]
    <2>1. CASE SavesOf(log, w) = {}
      <3>1. SavesOf(sw, w) = {}
        <4>1. ASSUME NEW i \in SavesOf(sw, w) PROVE FALSE
          <5>1. i \in 1..n /\ sw[i].loc = w
            BY <1>5 DEF SavesOf
          <5>2. n + 1 - i \in 1..n
            BY <1>2, <5>1
          <5>3. n + 1 - i \in SavesOf(log, w)
            BY <1>2, <1>6, <5>1, <5>2 DEF SavesOf
          <5> QED
            BY <2>1, <5>3
        <4> QED
          BY <4>1
      <3>2. Restored(old, sw)[w] = old[w]
        BY <1>8, <3>1 DEF Restored
      <3>3. old[w] = mem[w]
        BY <1>7, <2>1 DEF Restored
      <3> QED
        BY <3>2, <3>3
    <2>2. CASE SavesOf(log, w) # {}
      <3>1. SavesOf(sw, w) \in SUBSET Nat
        BY <1>5 DEF SavesOf
      <3>2. PICK j : j \in SavesOf(log, w)
        BY <2>2
      <3>3. j \in 1..n /\ log[j].loc = w
        BY <1>2, <3>2 DEF SavesOf
      <3>4. n + 1 - j \in 1..n /\ n + 1 - (n + 1 - j) = j
        BY <1>2, <3>3
      <3>5. n + 1 - j \in SavesOf(sw, w)
        BY <1>5, <1>6, <3>3, <3>4 DEF SavesOf
      <3>6. PICK i : i = Oldest(SavesOf(sw, w))
        OBVIOUS
      <3>7. i \in SavesOf(sw, w) /\ \A y \in SavesOf(sw, w) : i <= y
        BY <3>1, <3>5, <3>6, OldestFacts
      <3>8. i \in 1..n /\ sw[i].loc = w
        BY <1>5, <3>7 DEF SavesOf
      <3>9. PICK k \in 1..n, newer \in SUBSET (1..n) :
                 /\ k = n + 1 - i
                 /\ newer = {l \in SavesOf(log, log[k].loc) : l > k}
                 /\ sw[i].loc = log[k].loc
                 /\ newer = {} => sw[i].val = mem[log[k].loc]
        BY <1>4, <3>8
      <3>10. newer = {}
        <4>1. ASSUME NEW l \in newer PROVE FALSE
          <5>1. l \in SavesOf(log, w) /\ l > k
            BY <3>8, <3>9
          <5>2. l \in 1..n /\ log[l].loc = w
            BY <1>2, <5>1 DEF SavesOf
          <5>3. n + 1 - l \in 1..n /\ n + 1 - (n + 1 - l) = l
            BY <1>2, <5>2
          <5>4. n + 1 - l \in SavesOf(sw, w)
            BY <1>5, <1>6, <5>2, <5>3 DEF SavesOf
          <5>5. i <= n + 1 - l
            BY <3>7, <5>4
          <5> QED
            BY <1>2, <3>8, <3>9, <5>1, <5>2, <5>5
        <4> QED
          BY <4>1
      <3>11. sw[i].val = mem[w]
        BY <3>8, <3>9, <3>10
      <3> QED
        BY <1>8, <3>5, <3>6, <3>11 DEF Restored
    <2> QED
      BY <2>1, <2>2
  <1>10. Restored(old, sw) = mem
    BY <1>8, <1>9 DEF Restored
  <1> QED
    BY <1>3, <1>5, <1>7, <1>10

-----------------------------------------------------------------------------
\* Now the logs of the allocation.

Kinds   == {"alloc", "config"}
Records == {"tested", "full", "start", "best"}

\* The part of the type invariant that the proof needs.
LogTypes ==
  /\ pc \in {"idle", "alloc", "loop"}
  /\ alloc \in [AllocVars -> Nat]
  /\ DOMAIN initLog = Kinds /\ initLog.alloc \in Seq(Pairs(AllocVars, Nat))
  /\ DOMAIN incumbLog = Kinds /\ incumbLog.alloc \in Seq(Pairs(AllocVars, Nat))
  /\ DOMAIN hist = Records

\* The first log leads from the present allocation back to the one in which
\* the call found the problem.
InitLogUndoes ==
  /\ pc = "alloc" => Restored(alloc, initLog.alloc) = hist.start.alloc
  /\ pc = "loop" => alloc = hist.start.alloc
  /\ pc # "alloc" => initLog.alloc = <<>>

\* The second one leads from there on to the incumbent.
IncumbLogRedoes ==
  pc = "loop" \/ (pc = "alloc" /\ testing # NoSite) =>
    Restored(hist.start.alloc, incumbLog.alloc) = hist.best.alloc

UndoInv ==
  /\ LogTypes
  /\ InitLogUndoes
  /\ IncumbLogRedoes
  /\ pc # "idle" => hist.full = FALSE
  /\ AllocationIsKept

LEMMA InitUndoInv == Init => UndoInv
  <1>1. SUFFICES ASSUME Init PROVE UndoInv
    OBVIOUS
  <1>2. /\ pc = "idle" /\ alloc \in [AllocVars -> Nat]
        /\ initLog = EmptyLogs /\ incumbLog = EmptyLogs
        /\ hist = NoHistory
    BY <1>1 DEF Init
  <1>3. <<>> \in Seq(Pairs(AllocVars, Nat))
    OBVIOUS
  <1>4. LogTypes
    BY <1>2, <1>3 DEF LogTypes, EmptyLogs, NoHistory, Kinds, Records
  <1>5. InitLogUndoes /\ IncumbLogRedoes /\ AllocationIsKept
    BY <1>2
    DEF InitLogUndoes, IncumbLogRedoes, AllocationIsKept, EmptyLogs, NoHistory
  <1> QED
    BY <1>2, <1>4, <1>5 DEF UndoInv

\* The beginning of cmqFixed saves nothing of the allocation.
LEMMA StartKeepsLog ==
  ASSUME LogTypes, NEW st, NEW alt, StartCmqFixed(st, alt)
  PROVE  /\ pc' = "alloc" /\ DOMAIN initLog' = Kinds
         /\ initLog'.alloc = initLog.alloc
  BY DEF StartCmqFixed, LogTypes, Kinds

LEMMA CommitMaxQtyUndo == UndoInv /\ CommitMaxQty => UndoInv'
  <1>1. SUFFICES ASSUME UndoInv, CommitMaxQty PROVE UndoInv'
    OBVIOUS
  <1>2. /\ pc = "idle" /\ StartCmqFixed(site, altered)
        /\ alloc' = alloc /\ incumbLog' = incumbLog /\ testing' = NoSite
        /\ hist' = [hist EXCEPT !.tested = {}, !.full = FALSE,
                       !.start = [alloc |-> alloc, config |-> config]]
    BY <1>1 DEF CommitMaxQty
  <1>3. LogTypes
    BY <1>1 DEF UndoInv
  <1>4. /\ pc' = "alloc" /\ DOMAIN initLog' = Kinds
        /\ initLog'.alloc = initLog.alloc
    BY <1>2, <1>3, StartKeepsLog
  <1>5. DOMAIN hist' = Records /\ hist'.full = FALSE /\ hist'.start.alloc = alloc
    BY <1>2, <1>3 DEF LogTypes, Records
  <1>6. LogTypes'
    BY <1>2, <1>3, <1>4, <1>5 DEF LogTypes
  <1>7. Restored(alloc, <<>>) = alloc
    BY <1>3, RestoredEmpty DEF LogTypes
  <1>8. initLog'.alloc = <<>>
    BY <1>1, <1>2, <1>4 DEF UndoInv, InitLogUndoes
  <1>9. InitLogUndoes'
    BY <1>2, <1>4, <1>5, <1>7, <1>8 DEF InitLogUndoes
  <1>10. IncumbLogRedoes' /\ AllocationIsKept'
    BY <1>2, <1>4 DEF IncumbLogRedoes, AllocationIsKept
  <1> QED
    BY <1>5, <1>6, <1>9, <1>10 DEF UndoInv

LEMMA TryNextCandUndo ==
  ASSUME UndoInv, NEW s \in Sites, TryNextCand(s) PROVE UndoInv'
  <1>1. /\ pc = "loop" /\ StartCmqFixed(Selected(s), altered \cup {s})
        /\ alloc' = alloc /\ incumbLog' = incumbLog /\ testing' = s
        /\ hist' = [hist EXCEPT !.tested = @ \cup {<<s, site[s].next>>}]
    BY DEF TryNextCand, IsNextOpp
  <1>2. LogTypes
    BY DEF UndoInv
  <1>3. /\ pc' = "alloc" /\ DOMAIN initLog' = Kinds
        /\ initLog'.alloc = initLog.alloc
    BY <1>1, <1>2, StartKeepsLog
  <1>4. /\ DOMAIN hist' = Records /\ hist'.full = hist.full
        /\ hist'.start = hist.start /\ hist'.best = hist.best
    BY <1>1, <1>2 DEF LogTypes, Records
  <1>5. LogTypes'
    BY <1>1, <1>2, <1>3, <1>4 DEF LogTypes
  <1>6. Restored(alloc, <<>>) = alloc
    BY <1>2, RestoredEmpty DEF LogTypes
  <1>7. initLog'.alloc = <<>> /\ alloc = hist.start.alloc
    BY <1>1, <1>3 DEF UndoInv, InitLogUndoes
  <1>8. InitLogUndoes'
    BY <1>1, <1>3, <1>4, <1>6, <1>7 DEF InitLogUndoes
  <1>9. IncumbLogRedoes' /\ AllocationIsKept'
    <2>1. Restored(hist.start.alloc, incumbLog.alloc) = hist.best.alloc
      BY <1>1 DEF UndoInv, IncumbLogRedoes
    <2> QED
      BY <1>1, <1>3, <1>4, <2>1 DEF IncumbLogRedoes, AllocationIsKept
  <1>10. hist'.full = FALSE
    BY <1>1, <1>4 DEF UndoInv
  <1> QED
    BY <1>5, <1>8, <1>9, <1>10 DEF UndoInv

LEMMA PermExplodeUndo ==
  ASSUME UndoInv, NEW s \in Sites, NEW p \in Periods, NEW c \in Cands(s),
         NEW new \in BOOLEAN, PermExplode(s, p, c, new)
  PROVE  UndoInv'
  <1>1. PICK v : v = <<s, c>>
    OBVIOUS
  <1>2. PICK x : x = alloc[v] + 1
    OBVIOUS
  <1>3. /\ pc = "alloc" /\ pc' = pc /\ testing' = testing
        /\ incumbLog' = incumbLog
        /\ initLog' = [initLog EXCEPT !.alloc = Saved(@, alloc, v)]
        /\ alloc' = [alloc EXCEPT ![v] = x]
        /\ hist' = hist
    BY <1>1, <1>2 DEF PermExplode, InAlloc
  <1>4. LogTypes
    BY DEF UndoInv
  <1>5. v \in AllocVars
    BY <1>1 DEF AllocVars
  <1>6. x \in Nat
    BY <1>2, <1>4, <1>5 DEF LogTypes
  <1>7. /\ Saved(initLog.alloc, alloc, v) \in Seq(Pairs(AllocVars, Nat))
        /\ Restored(alloc', Saved(initLog.alloc, alloc, v))
             = Restored(alloc, initLog.alloc)
    <2>1. PICK log : log = initLog.alloc
      OBVIOUS
    <2>2. alloc \in [AllocVars -> Nat] /\ log \in Seq(Pairs(AllocVars, Nat))
      BY <1>4, <2>1 DEF LogTypes
    <2>3. /\ Saved(log, alloc, v) \in Seq(Pairs(AllocVars, Nat))
          /\ Restored(alloc', Saved(log, alloc, v)) = Restored(alloc, log)
      <3>1. PICK m : m = alloc'
        OBVIOUS
      <3>2. /\ m \in [AllocVars -> Nat]
            /\ \A w \in AllocVars : w # v => m[w] = alloc[w]
        BY <1>3, <1>5, <1>6, <2>2, <3>1
      <3>3. /\ Saved(log, alloc, v) \in Seq(Pairs(AllocVars, Nat))
            /\ Restored(m, Saved(log, alloc, v)) = Restored(alloc, log)
        <4>1. Saved(log, alloc, v) \in Seq(Pairs(AllocVars, Nat))
          BY <1>5, <2>2, SavedType
        <4>2. Restored(m, Saved(log, alloc, v)) = Restored(alloc, log)
          BY <1>5, <2>2, <3>2, RestoredSaved
        <4> QED
          BY <4>1, <4>2
      <3> QED
        BY <3>1, <3>3
    <2> QED
      BY <2>1, <2>3
  <1>8. /\ DOMAIN initLog' = Kinds
        /\ initLog'.alloc = Saved(initLog.alloc, alloc, v)
    BY <1>3, <1>4 DEF LogTypes, Kinds
  <1>9. /\ DOMAIN hist' = Records /\ hist'.full = hist.full
        /\ hist'.start = hist.start /\ hist'.best = hist.best
    BY <1>3, <1>4 DEF LogTypes, Records
  <1>10. alloc' \in [AllocVars -> Nat]
    BY <1>3, <1>4, <1>5, <1>6 DEF LogTypes
  <1>11. LogTypes'
    BY <1>3, <1>4, <1>7, <1>8, <1>9, <1>10 DEF LogTypes
  <1>12. InitLogUndoes'
    BY <1>3, <1>7, <1>8, <1>9 DEF UndoInv, InitLogUndoes
  <1>13. IncumbLogRedoes' /\ AllocationIsKept'
    BY <1>3, <1>9 DEF UndoInv, IncumbLogRedoes, AllocationIsKept
  <1>14. hist'.full = FALSE
    BY <1>3, <1>9 DEF UndoInv
  <1> QED
    BY <1>11, <1>12, <1>13, <1>14 DEF UndoInv

\* A temporary explosion and an altered selection leave the allocation alone.
LEMMA OtherStepsUndo ==
  ASSUME UndoInv, DOMAIN initLog' = Kinds, initLog'.alloc = initLog.alloc,
         DOMAIN hist' = Records, hist'.full = hist.full,
         hist'.start = hist.start, hist'.best = hist.best,
         UNCHANGED <<pc, testing, alloc, incumbLog>>
  PROVE  UndoInv'
  <1>1. LogTypes'
    BY DEF UndoInv, LogTypes
  <1>2. InitLogUndoes' /\ IncumbLogRedoes' /\ AllocationIsKept'
    BY DEF UndoInv, InitLogUndoes, IncumbLogRedoes, AllocationIsKept
  <1> QED
    BY <1>1, <1>2 DEF UndoInv

LEMMA TempExplodeUndo ==
  ASSUME UndoInv, NEW s \in Sites, NEW p \in Periods, NEW c \in Cands(s),
         TempExplode(s, p, c)
  PROVE  UndoInv'
  <1>1. /\ hist' = hist
        /\ UNCHANGED <<pc, testing, alloc, initLog, incumbLog>>
    BY DEF TempExplode, memory, logs
  <1>2. DOMAIN hist = Records /\ DOMAIN initLog = Kinds
    BY DEF UndoInv, LogTypes
  <1>3. /\ DOMAIN hist' = Records /\ hist'.full = hist.full
        /\ hist'.start = hist.start /\ hist'.best = hist.best
    BY <1>1, <1>2 DEF Records
  <1> QED
    BY <1>1, <1>2, <1>3, OtherStepsUndo

LEMMA AlterSelectionUndo ==
  ASSUME UndoInv, NEW s \in Sites, NEW p \in Periods, AlterSelection(s, p)
  PROVE  UndoInv'
  <1>1. DOMAIN hist = Records /\ DOMAIN initLog = Kinds
    BY DEF UndoInv, LogTypes
  <1>2. UNCHANGED <<pc, testing, alloc, incumbLog, hist>>
    BY DEF AlterSelection
  <1>3. DOMAIN initLog' = Kinds /\ initLog'.alloc = initLog.alloc
    BY <1>1 DEF AlterSelection, Kinds
  <1> QED
    BY <1>1, <1>2, <1>3, OtherStepsUndo

\* A success: the state in which the call found the problem is restored, and
\* the log of that restoring becomes the incumbent's.
LEMMA SuccessUndo ==
  ASSUME UndoInv, pc = "alloc", SaveCurAsIncumb, pc' = "loop" PROVE UndoInv'
  <1>1. PICK log : log = initLog.alloc
    OBVIOUS
  <1>2. /\ alloc' = Restored(alloc, log)
        /\ incumbLog' = [alloc  |-> Swapped(alloc, log),
                         config |-> Swapped(config, initLog.config)]
        /\ initLog' = EmptyLogs
        /\ hist' = [hist EXCEPT !.best = [alloc |-> alloc, config |-> config]]
    BY <1>1 DEF SaveCurAsIncumb
  <1>3. /\ alloc \in [AllocVars -> Nat] /\ log \in Seq(Pairs(AllocVars, Nat))
        /\ DOMAIN hist = Records
    BY <1>1 DEF UndoInv, LogTypes
  <1>4. alloc' \in [AllocVars -> Nat]
    BY <1>2, <1>3, RestoredType
  <1>5. Swapped(alloc, log) \in Seq(Pairs(AllocVars, Nat))
    BY <1>3, RestoredSwapped
  <1>6. Restored(Restored(alloc, log), Swapped(alloc, log)) = alloc
    BY <1>3, RestoredSwapped
  <1>7. /\ DOMAIN incumbLog' = Kinds /\ incumbLog'.alloc = Swapped(alloc, log)
        /\ DOMAIN initLog' = Kinds /\ initLog'.alloc = <<>>
    BY <1>2 DEF Kinds, EmptyLogs
  <1>8. /\ DOMAIN hist' = Records /\ hist'.full = hist.full
        /\ hist'.start = hist.start /\ hist'.best.alloc = alloc
    BY <1>2, <1>3 DEF Records
  <1>9. LogTypes'
    BY <1>4, <1>5, <1>7, <1>8 DEF LogTypes
  <1>10. alloc' = hist.start.alloc
    BY <1>1, <1>2 DEF UndoInv, InitLogUndoes
  <1>11. InitLogUndoes'
    BY <1>7, <1>8, <1>10 DEF InitLogUndoes
  <1>12. Restored(hist'.start.alloc, incumbLog'.alloc) = hist'.best.alloc
    BY <1>2, <1>6, <1>7, <1>8, <1>10
  <1>13. IncumbLogRedoes' /\ AllocationIsKept'
    BY <1>12 DEF IncumbLogRedoes, AllocationIsKept
  <1>14. hist'.full = FALSE
    BY <1>8 DEF UndoInv
  <1> QED
    BY <1>9, <1>11, <1>13, <1>14 DEF UndoInv

LEMMA MsAllocIsShortUndo == UndoInv /\ MsAllocIsShort => UndoInv'
  <1>1. SUFFICES ASSUME UndoInv, MsAllocIsShort PROVE UndoInv'
    OBVIOUS
  <1>2. /\ pc = "alloc" /\ pc' = "idle" /\ initLog' = EmptyLogs
        /\ UNCHANGED <<alloc, incumbLog, hist>>
    BY <1>1 DEF MsAllocIsShort, memory
  <1>3. DOMAIN initLog' = Kinds /\ initLog'.alloc = <<>>
    BY <1>2 DEF EmptyLogs, Kinds
  <1>4. LogTypes'
    BY <1>1, <1>2, <1>3 DEF UndoInv, LogTypes
  <1>5. hist'.full = FALSE
    BY <1>1, <1>2 DEF UndoInv
  <1>6. InitLogUndoes' /\ IncumbLogRedoes' /\ AllocationIsKept'
    BY <1>2, <1>3, <1>5 DEF InitLogUndoes, IncumbLogRedoes, AllocationIsKept
  <1> QED
    BY <1>2, <1>4, <1>6 DEF UndoInv

LEMMA RejectUndo == UndoInv /\ Reject => UndoInv'
  <1>1. SUFFICES ASSUME UndoInv, Reject PROVE UndoInv'
    OBVIOUS
  <1>2. /\ pc = "alloc" /\ testing # NoSite /\ pc' = "loop"
        /\ alloc' = Restored(alloc, initLog.alloc)
        /\ initLog' = EmptyLogs
        /\ UNCHANGED <<incumbLog, hist>>
    BY <1>1 DEF Reject
  <1>3. DOMAIN initLog' = Kinds /\ initLog'.alloc = <<>>
    BY <1>2 DEF EmptyLogs, Kinds
  <1>4. alloc' \in [AllocVars -> Nat]
    <2>1. PICK log : log = initLog.alloc
      OBVIOUS
    <2>2. alloc \in [AllocVars -> Nat] /\ log \in Seq(Pairs(AllocVars, Nat))
      BY <1>1, <2>1 DEF UndoInv, LogTypes
    <2> QED
      BY <1>2, <2>1, <2>2, RestoredType
  <1>5. LogTypes'
    BY <1>1, <1>2, <1>3, <1>4 DEF UndoInv, LogTypes
  <1>6. alloc' = hist.start.alloc
    BY <1>1, <1>2 DEF UndoInv, InitLogUndoes
  <1>7. InitLogUndoes'
    BY <1>2, <1>3, <1>6 DEF InitLogUndoes
  <1>8. hist.full = FALSE
    BY <1>1, <1>2 DEF UndoInv
  <1>9. IncumbLogRedoes' /\ AllocationIsKept'
    BY <1>1, <1>2, <1>8 DEF UndoInv, IncumbLogRedoes, AllocationIsKept
  <1> QED
    BY <1>2, <1>5, <1>7, <1>8, <1>9 DEF UndoInv

LEMMA PreserveIncumbUndo == UndoInv /\ PreserveIncumb => UndoInv'
  <1>1. SUFFICES ASSUME UndoInv, PreserveIncumb PROVE UndoInv'
    OBVIOUS
  <1>2. /\ pc = "loop" /\ pc' = "idle"
        /\ alloc' = Restored(alloc, incumbLog.alloc)
        /\ incumbLog' = EmptyLogs
        /\ initLog' = initLog
        /\ hist' = [hist EXCEPT !.full = TRUE]
    BY <1>1 DEF PreserveIncumb
  <1>3. /\ DOMAIN incumbLog' = Kinds /\ incumbLog'.alloc = <<>>
        /\ <<>> \in Seq(Pairs(AllocVars, Nat))
    BY <1>2 DEF EmptyLogs, Kinds
  <1>4. alloc' \in [AllocVars -> Nat]
    <2>1. PICK log : log = incumbLog.alloc
      OBVIOUS
    <2>2. alloc \in [AllocVars -> Nat] /\ log \in Seq(Pairs(AllocVars, Nat))
      BY <1>1, <2>1 DEF UndoInv, LogTypes
    <2> QED
      BY <1>2, <2>1, <2>2, RestoredType
  <1>5. DOMAIN hist = Records
    BY <1>1 DEF UndoInv, LogTypes
  <1>6. DOMAIN hist' = Records /\ hist'.best = hist.best
    BY <1>2, <1>5 DEF Records
  <1>7. LogTypes'
    BY <1>1, <1>2, <1>3, <1>4, <1>6 DEF UndoInv, LogTypes
  <1>8. alloc = hist.start.alloc
    BY <1>1, <1>2 DEF UndoInv, InitLogUndoes
  <1>9. Restored(hist.start.alloc, incumbLog.alloc) = hist.best.alloc
    BY <1>1, <1>2 DEF UndoInv, IncumbLogRedoes
  <1>10. alloc' = hist'.best.alloc
    BY <1>2, <1>6, <1>8, <1>9
  <1>11. InitLogUndoes'
    BY <1>1, <1>2 DEF UndoInv, InitLogUndoes
  <1>12. IncumbLogRedoes' /\ AllocationIsKept'
    BY <1>2, <1>10 DEF IncumbLogRedoes, AllocationIsKept
  <1> QED
    BY <1>2, <1>7, <1>11, <1>12 DEF UndoInv

LEMMA SelectDiscoveryUndo ==
  ASSUME UndoInv, NEW s \in Sites, SelectDiscovery(s) PROVE UndoInv'
  <1>1. UNCHANGED <<pc, testing, alloc, initLog, incumbLog, hist>>
    BY DEF SelectDiscovery, memory, logs
  <1>2. DOMAIN hist = Records /\ DOMAIN initLog = Kinds
    BY DEF UndoInv, LogTypes
  <1> QED
    BY <1>1, <1>2, OtherStepsUndo

LEMMA RecoverInitStateUndo == UndoInv /\ RecoverInitState => UndoInv'
  <1>1. SUFFICES ASSUME UndoInv, RecoverInitState PROVE UndoInv'
    OBVIOUS
  <1>2. /\ pc = "idle" /\ hist' = [hist EXCEPT !.full = FALSE]
        /\ UNCHANGED <<pc, testing, alloc, initLog, incumbLog>>
    BY <1>1 DEF RecoverInitState, logs
  <1>3. DOMAIN hist = Records
    BY <1>1 DEF UndoInv, LogTypes
  <1>4. DOMAIN hist' = Records /\ hist'.full = FALSE
    BY <1>2, <1>3 DEF Records
  <1>5. LogTypes'
    BY <1>1, <1>2, <1>4 DEF UndoInv, LogTypes
  <1>6. InitLogUndoes' /\ IncumbLogRedoes' /\ AllocationIsKept'
    BY <1>1, <1>2, <1>4
    DEF UndoInv, InitLogUndoes, IncumbLogRedoes, AllocationIsKept
  <1> QED
    BY <1>2, <1>5, <1>6 DEF UndoInv

LEMMA StutterUndo == UndoInv /\ UNCHANGED vars => UndoInv'
  <1>1. SUFFICES ASSUME UndoInv, UNCHANGED vars PROVE UndoInv'
    OBVIOUS
  <1>2. UNCHANGED <<pc, testing, alloc, initLog, incumbLog, hist>>
    BY <1>1 DEF vars, memory, logs
  <1>3. DOMAIN hist = Records /\ DOMAIN initLog = Kinds
    BY <1>1 DEF UndoInv, LogTypes
  <1> QED
    BY <1>1, <1>2, <1>3, OtherStepsUndo

LEMMA NextUndoInv == UndoInv /\ [Next]_vars => UndoInv'
  <1>1. ASSUME UndoInv, CommitMaxQty PROVE UndoInv'
    BY <1>1, CommitMaxQtyUndo
  <1>2. ASSUME UndoInv, Allocate PROVE UndoInv'
    <2>1. PICK s \in Sites, p \in Periods :
            \/ AlterSelection(s, p)
            \/ \E c \in Cands(s) :
                  \/ TempExplode(s, p, c)
                  \/ \E new \in BOOLEAN : PermExplode(s, p, c, new)
      BY <1>2 DEF Allocate
    <2>2. CASE AlterSelection(s, p)
      BY <1>2, <2>2, AlterSelectionUndo
    <2>3. ASSUME NEW c \in Cands(s), TempExplode(s, p, c) PROVE UndoInv'
      BY <1>2, <2>3, TempExplodeUndo
    <2>4. ASSUME NEW c \in Cands(s), NEW new \in BOOLEAN,
                 PermExplode(s, p, c, new)
          PROVE  UndoInv'
      BY <1>2, <2>4, PermExplodeUndo
    <2> QED
      BY <2>1, <2>2, <2>3, <2>4
  <1>3. ASSUME UndoInv, EndAlloc PROVE UndoInv'
    <2>1. CASE MsAllocIsFull
      BY <1>3, <2>1, SuccessUndo DEF MsAllocIsFull
    <2>2. CASE Accept
      BY <1>3, <2>2, SuccessUndo DEF Accept
    <2> QED
      BY <1>3, <2>1, <2>2, MsAllocIsShortUndo, RejectUndo DEF EndAlloc
  <1>4. ASSUME UndoInv, NextOpp PROVE UndoInv'
    <2>1. PICK s \in Sites : SelectDiscovery(s) \/ TryNextCand(s)
      BY <1>4 DEF NextOpp
    <2> QED
      BY <1>4, <2>1, SelectDiscoveryUndo, TryNextCandUndo
  <1>5. ASSUME UndoInv, PreserveIncumb PROVE UndoInv'
    BY <1>5, PreserveIncumbUndo
  <1>6. ASSUME UndoInv, RecoverInitState PROVE UndoInv'
    BY <1>6, RecoverInitStateUndo
  <1> QED
    BY <1>1, <1>2, <1>3, <1>4, <1>5, <1>6, StutterUndo DEF Next, InCall

LEMMA UndoInvHolds == Spec => []UndoInv
  BY InitUndoInv, NextUndoInv, PTL DEF Spec

\* A call that gives the whole quantity ends with the allocation of its latest
\* success, through however many failed trials the logs of commitMaxQty led.
THEOREM AllocationAlwaysKept == Spec => []AllocationIsKept
  <1>1. UndoInv => AllocationIsKept
    BY DEF UndoInv
  <1> QED
    BY <1>1, UndoInvHolds, PTL

-------------------------------------------------------------------------------
(* The loop over the opportunities tries everything. *)

InRange(s, x) ==
  /\ x.selRtCand \in Cands(s) \cup {None}
  /\ x.next \in 1..(NCands[s] + 1)
  /\ x.curUnique \in Cands(s) \cup {None}
  /\ x.incumbUnique \in Cands(s) \cup {None}

\* What the loop has gone past: a candidate of a site that is not in single-
\* source mode, or only for a trial, has been tried.
Tried(s) ==
  \/ SglSrcMode(s) /\ s # testing
  \/ \A c \in Cands(s) : c < site[s].next => <<s, c>> \in hist.tested

Scalars ==
  /\ permActive \in BOOLEAN /\ pureMs \in BOOLEAN
  /\ steps \in 0..MaxSteps /\ calls \in 0..MaxCalls

LoopInv ==
  /\ \A s \in Sites : InRange(s, site[s])
  /\ \A s \in Sites \ altered : site[s].selRtCand = None /\ site[s].next = 1
  /\ \A s \in Sites : FlowAt(incumbFlow, s) # {} => s \in incumbVisit
  /\ pc # "idle" => \A s \in Sites : Tried(s)
  /\ MultiSourceIsLastResort
  /\ Scalars

LEMMA InitLoop == Init => LoopInv
  <1> SUFFICES ASSUME Init PROVE LoopInv
    OBVIOUS
  <1>1. ASSUME NEW s \in Sites
        PROVE  /\ InRange(s, site[s])
               /\ site[s].selRtCand = None /\ site[s].next = 1
               /\ FlowAt(incumbFlow, s) = {}
    <2>1. site[s] = NewSite /\ NCands[s] \in Nat \ {0, 1} /\ incumbFlow = {}
      BY NCandsAssumption DEF Init
    <2> QED
      BY <2>1 DEF NewSite, InRange, FlowAt
  <1>2. pc = "idle" /\ hist.full = FALSE
    BY DEF Init, NoHistory
  <1>3. Scalars
    <2>1. permActive \in BOOLEAN /\ pureMs \in BOOLEAN
      BY DEF Init
    <2>2. steps \in 0..MaxSteps /\ calls \in 0..MaxCalls
      BY BoundsAssumption DEF Init
    <2> QED
      BY <2>1, <2>2 DEF Scalars
  <1> QED
    BY <1>1, <1>2, <1>3 DEF LoopInv, MultiSourceIsLastResort

\* A step that leaves the loop where it is.
LEMMA LoopFrame ==
  ASSUME LoopInv, Scalars',
         \A s \in Sites : /\ site'[s].selRtCand = site[s].selRtCand
                          /\ site'[s].next = site[s].next
                          /\ site'[s].incumbUnique = site[s].incumbUnique
                          /\ site'[s].curUnique \in Cands(s) \cup {None},
         UNCHANGED <<pc, testing, altered, incumbFlow, incumbVisit>>,
         hist'.tested = hist.tested, hist'.full = hist.full
  PROVE  LoopInv'
  <1>1. \A s \in Sites : InRange(s, site[s])'
    BY DEF LoopInv, InRange
  <1>2. \A s \in Sites : Tried(s) => Tried(s)'
    BY DEF Tried, SglSrcMode
  <1>3. MultiSourceIsLastResort'
    BY DEF LoopInv, MultiSourceIsLastResort
  <1> QED
    BY <1>1, <1>2, <1>3 DEF LoopInv

LEMMA UniqueRange ==
  ASSUME NEW s \in Sites, NEW c \in Cands(s)
  PROVE  Unique(s, c) \in Cands(s) \cup {None}
  BY DEF Unique

LEMMA ExplodeLoop ==
  ASSUME IInv, LoopInv, NEW s \in Sites, NEW p \in Periods, NEW c \in Cands(s),
         \/ TempExplode(s, p, c)
         \/ \E new \in BOOLEAN : PermExplode(s, p, c, new)
  PROVE  LoopInv'
  <1>1. /\ UNCHANGED <<pc, testing, altered, incumbFlow, incumbVisit, pureMs,
                       calls, hist>>
        /\ permActive' \in BOOLEAN
        /\ steps < MaxSteps /\ steps' = steps + 1
    BY DEF TempExplode, PermExplode, InAlloc, visits, flows
  <1>2. Scalars'
    BY <1>1, BoundsAssumption DEF LoopInv, Scalars
  <1>3. PICK idx :
          site' = [site EXCEPT ![s] =
                     [site[s] EXCEPT !.curUnique = Unique(s, c),
                                     !.curVisited = TRUE, !.curPcIdx = idx]]
    <2>1. CASE TempExplode(s, p, c)
      <3>1. PICK idx : idx = site[s].curPcIdx
        OBVIOUS
      <3>2. site \in [Sites -> SiteStates] /\ site[s] \in SiteStates
        BY DEF IInv, Types
      <3>3. site' = [site EXCEPT ![s].curUnique = Unique(s, c),
                                 ![s].curVisited = TRUE]
        BY <2>1 DEF TempExplode
      <3>4. site' = [site EXCEPT ![s] = Visited(s, c, idx)]
        BY <3>1, <3>2, <3>3 DEF Visited, SiteStates
      <3> QED
        BY <3>4 DEF Visited
    <2>2. CASE \E new \in BOOLEAN : PermExplode(s, p, c, new)
      BY <2>2 DEF PermExplode, Visited
    <2> QED
      BY <2>1, <2>2
  <1>4. ASSUME NEW t \in Sites
        PROVE  /\ site'[t].selRtCand = site[t].selRtCand
               /\ site'[t].next = site[t].next
               /\ site'[t].incumbUnique = site[t].incumbUnique
               /\ site'[t].curUnique \in Cands(t) \cup {None}
    <2>1. site \in [Sites -> SiteStates] /\ site[t] \in SiteStates
          /\ site[t].curUnique \in Cands(t) \cup {None}
      BY DEF IInv, Types, LoopInv, InRange
    <2>2. PICK u : u = Unique(s, c)
      OBVIOUS
    <2>3. CASE t = s
      <3>1. site'[t] = [site[t] EXCEPT !.curUnique = u,
                                       !.curVisited = TRUE, !.curPcIdx = idx]
        BY <1>3, <2>1, <2>2, <2>3
      <3>2. site'[t].curUnique = u
        BY <2>1, <3>1 DEF SiteStates
      <3>3. u \in Cands(t) \cup {None}
        BY <2>2, <2>3, UniqueRange
      <3>4. /\ site'[t].selRtCand = site[t].selRtCand
            /\ site'[t].next = site[t].next
            /\ site'[t].incumbUnique = site[t].incumbUnique
        BY <2>1, <3>1 DEF SiteStates
      <3> QED
        BY <3>2, <3>3, <3>4
    <2>4. CASE t # s
      BY <1>3, <2>1, <2>4
    <2> QED
      BY <2>3, <2>4
  <1> QED
    BY <1>1, <1>2, <1>4, LoopFrame

LEMMA AlterSelectionLoop ==
  ASSUME LoopInv, NEW s \in Sites, NEW p \in Periods, AlterSelection(s, p)
  PROVE  LoopInv'
  <1>1. /\ UNCHANGED <<pc, testing, altered, incumbFlow, incumbVisit, pureMs,
                       calls, hist, site>>
        /\ permActive' \in BOOLEAN
        /\ steps < MaxSteps /\ steps' = steps + 1
    BY DEF AlterSelection, InAlloc, visits, flows
  <1>2. Scalars'
    BY <1>1, BoundsAssumption DEF LoopInv, Scalars
  <1>3. \A t \in Sites : site[t].curUnique \in Cands(t) \cup {None}
    BY DEF LoopInv, InRange
  <1> QED
    BY <1>1, <1>2, <1>3, LoopFrame

\* The beginning of an allocation clears what it records itself.
LEMMA ResetFacts ==
  ASSUME NEW st \in [Sites -> SiteStates], NEW s \in Sites, InRange(s, st[s])
  PROVE  /\ InRange(s, CurReset(st)[s])
         /\ CurReset(st)[s].selRtCand = st[s].selRtCand
         /\ CurReset(st)[s].next = st[s].next
  <1>1. st[s] \in SiteStates
    OBVIOUS
  <1>2. \/ CurReset(st)[s] = [st[s] EXCEPT !.curPcIdx = -1, !.curVisited = FALSE,
                                           !.curUnique = None]
        \/ CurReset(st)[s] = st[s]
    BY DEF CurReset
  <1>3. CASE CurReset(st)[s] = [st[s] EXCEPT !.curPcIdx = -1,
                                  !.curVisited = FALSE, !.curUnique = None]
    BY <1>1, <1>3 DEF SiteStates, InRange
  <1> QED
    BY <1>2, <1>3

LEMMA CommitMaxQtyLoop ==
  ASSUME IInv, UndoInv, LoopInv, CommitMaxQty PROVE LoopInv'
  <1>1. /\ pc = "idle" /\ calls < MaxCalls /\ calls' = calls + 1
        /\ testing' = NoSite /\ pureMs' = TRUE
        /\ altered' = altered /\ pc' = "alloc" /\ steps' = 0
        /\ permActive' = FALSE
        /\ site' = CurReset(site)
        /\ UNCHANGED <<incumbVisit, incumbFlow>>
    BY DEF CommitMaxQty, StartCmqFixed
  <1>2. /\ site \in [Sites -> SiteStates]
        /\ \A s \in Sites : InRange(s, site[s])
    BY DEF IInv, Types, LoopInv
  <1>3. \A s \in Sites : /\ InRange(s, site'[s])
                         /\ site'[s].selRtCand = site[s].selRtCand
                         /\ site'[s].next = site[s].next
    BY <1>1, <1>2, ResetFacts
  <1>4. \A s \in Sites : site'[s].selRtCand = None /\ site'[s].next = 1
    BY <1>1, <1>3 DEF IInv, AlteredInCall, LoopInv
  <1>5. \A s \in Sites : Tried(s)'
    <2>1. ASSUME NEW s \in Sites, NEW c \in Cands(s) PROVE ~(c < 1)
      BY CandIsNat DEF None
    <2> QED
      BY <1>4, <2>1 DEF Tried
  <1>6. Scalars'
    <2>1. permActive' \in BOOLEAN /\ pureMs' \in BOOLEAN
      BY <1>1
    <2>2. steps' \in 0..MaxSteps /\ calls' \in 0..MaxCalls
      BY <1>1, BoundsAssumption DEF LoopInv, Scalars
    <2> QED
      BY <2>1, <2>2 DEF Scalars
  <1> QED
    BY <1>1, <1>3, <1>4, <1>5, <1>6 DEF LoopInv, MultiSourceIsLastResort, InRange

\* A candidate that is selected comes after all that were selected before.
LEMMA SelectedFacts ==
  ASSUME IInv, LoopInv, NEW s \in Sites, IsNextOpp(s)
  PROVE  /\ Selected(s) \in [Sites -> SiteStates]
         /\ \A t \in Sites : /\ InRange(t, Selected(s)[t])
                             /\ t # s => Selected(s)[t] = site[t]
         /\ site[s].next \in Cands(s) /\ site[s].next # None
         /\ Selected(s)[s].selRtCand = site[s].next
         /\ Selected(s)[s].next = site[s].next + 1
         /\ site[s].selRtCand = None
  <1>1. site \in [Sites -> SiteStates] /\ site[s] \in SiteStates
    BY DEF IInv, Types
  <1>2. /\ InRange(s, site[s]) /\ site[s].next <= NCands[s]
        /\ site[s].selRtCand = None
    BY DEF LoopInv, IsNextOpp, Opps, HasUntried, SglSrcMode
  <1>3. NCands[s] \in Nat
    BY NCandsAssumption
  <1>4. /\ site[s].next \in 1..NCands[s]
        /\ site[s].next + 1 \in 1..(NCands[s] + 1)
    BY <1>2, <1>3 DEF InRange
  <1>5. /\ site[s].next \in Cands(s) /\ site[s].next # None
        /\ site[s].next \in Nat /\ site[s].next + 1 \in Positions
    BY <1>3, <1>4 DEF Cands, None, Positions
  <1>6. PICK x : x = [site[s] EXCEPT !.selRtCand = site[s].next,
                                     !.next = site[s].next + 1]
    OBVIOUS
  <1>7. /\ x \in SiteStates /\ x.selRtCand = site[s].next
        /\ x.next = site[s].next + 1
        /\ x.curUnique = site[s].curUnique
        /\ x.incumbUnique = site[s].incumbUnique
    BY <1>1, <1>5, <1>6 DEF SiteStates
  <1>8. Selected(s) = [site EXCEPT ![s] = x]
    BY <1>1, <1>6 DEF Selected
  <1>9. /\ Selected(s) \in [Sites -> SiteStates] /\ Selected(s)[s] = x
        /\ \A t \in Sites : t # s => Selected(s)[t] = site[t]
    BY <1>1, <1>7, <1>8
  <1>10. InRange(s, x)
    BY <1>2, <1>4, <1>5, <1>7 DEF InRange
  <1> QED
    BY <1>2, <1>5, <1>7, <1>9, <1>10 DEF LoopInv

LEMMA TryNextCandLoop ==
  ASSUME IInv, UndoInv, LoopInv, NEW s \in Sites, TryNextCand(s) PROVE LoopInv'
  <1>1. /\ pc = "loop" /\ IsNextOpp(s) /\ testing' = s /\ pc' = "alloc"
        /\ altered' = altered \cup {s} /\ steps' = 0 /\ permActive' = FALSE
        /\ site' = CurReset(Selected(s))
        /\ UNCHANGED <<incumbVisit, incumbFlow, pureMs, calls>>
        /\ hist' = [hist EXCEPT !.tested = @ \cup {<<s, site[s].next>>}]
    BY DEF TryNextCand, StartCmqFixed, IsNextOpp
  <1>2. /\ hist'.tested = hist.tested \cup {<<s, site[s].next>>}
    BY <1>1 DEF UndoInv, LogTypes, Records
  <1>3. /\ Selected(s) \in [Sites -> SiteStates]
        /\ \A t \in Sites : /\ InRange(t, Selected(s)[t])
                            /\ t # s => Selected(s)[t] = site[t]
        /\ Selected(s)[s].next = site[s].next + 1
        /\ site[s].selRtCand = None
    BY <1>1, SelectedFacts
  <1>4. \A t \in Sites : /\ InRange(t, site'[t])
                         /\ site'[t].selRtCand = Selected(s)[t].selRtCand
                         /\ site'[t].next = Selected(s)[t].next
    BY <1>1, <1>3, ResetFacts
  <1>5. ASSUME NEW t \in Sites PROVE Tried(t)'
    <2>0. testing = NoSite
      BY <1>1 DEF IInv, AlteredInCall
    <2>1. Tried(t)
      BY <1>1 DEF LoopInv
    <2>2. CASE t # s
      BY <1>1, <1>2, <1>3, <1>4, <2>1, <2>2 DEF Tried, SglSrcMode
    <2>3. CASE t = s
      <3>1. \A c \in Cands(s) : c < site[s].next => <<s, c>> \in hist.tested
        BY <1>3, <2>1, <2>3 DEF Tried, SglSrcMode
      <3>2. site[s].next \in Nat
        BY DEF IInv, Types, SiteStates, Positions
      <3>3. ASSUME NEW c \in Cands(s), c < site[s].next + 1
            PROVE  <<s, c>> \in hist'.tested
        <4>1. c \in Nat
          BY CandIsNat
        <4>2. c < site[s].next \/ c = site[s].next
          BY <3>2, <3>3, <4>1
        <4> QED
          BY <1>2, <3>1, <4>2
      <3> QED
        BY <1>3, <1>4, <2>3, <3>3 DEF Tried
    <2> QED
      BY <2>2, <2>3
  <1>6. Scalars'
    <2>1. permActive' \in BOOLEAN /\ pureMs' \in BOOLEAN
      BY <1>1 DEF LoopInv, Scalars
    <2>2. steps' \in 0..MaxSteps /\ calls' \in 0..MaxCalls
      BY <1>1, BoundsAssumption DEF LoopInv, Scalars
    <2> QED
      BY <2>1, <2>2 DEF Scalars
  <1>7. \A t \in Sites \ altered' : site'[t].selRtCand = None /\ site'[t].next = 1
    BY <1>1, <1>3, <1>4 DEF LoopInv
  <1> QED
    BY <1>1, <1>4, <1>5, <1>6, <1>7 DEF LoopInv, MultiSourceIsLastResort

LEMMA SelectDiscoveryLoop ==
  ASSUME IInv, LoopInv, NEW s \in Sites, SelectDiscovery(s) PROVE LoopInv'
  <1>1. /\ IsNextOpp(s) /\ pc = "loop" /\ testing = NoSite
        /\ altered' = altered \cup {s} /\ site' = Selected(s) /\ pureMs' = FALSE
        /\ UNCHANGED <<pc, testing, permActive, steps, calls, hist,
                       incumbVisit, incumbFlow>>
    BY DEF SelectDiscovery, IInv, AlteredInCall, IsNextOpp, visits, flows,
           perm, bounds
  <1>2. /\ \A t \in Sites : /\ InRange(t, Selected(s)[t])
                            /\ t # s => Selected(s)[t] = site[t]
        /\ Selected(s)[s].selRtCand # None
    BY <1>1, SelectedFacts
  <1>3. ASSUME NEW t \in Sites PROVE Tried(t)'
    <2>1. Tried(t)
      BY <1>1 DEF LoopInv
    <2>2. CASE t # s
      BY <1>1, <1>2, <2>1, <2>2 DEF Tried, SglSrcMode
    <2>3. CASE t = s
      BY <1>1, <1>2, <2>3, NoSiteAssumption DEF Tried, SglSrcMode
    <2> QED
      BY <2>2, <2>3
  <1>4. Scalars'
    <2>1. permActive' \in BOOLEAN /\ pureMs' \in BOOLEAN
      BY <1>1 DEF LoopInv, Scalars
    <2>2. steps' \in 0..MaxSteps /\ calls' \in 0..MaxCalls
      BY <1>1 DEF LoopInv, Scalars
    <2> QED
      BY <2>1, <2>2 DEF Scalars
  <1> QED
    BY <1>1, <1>2, <1>3, <1>4 DEF LoopInv, MultiSourceIsLastResort

\* An allocation that ends keeps what was selected.
LEMMA SuccessLoop ==
  ASSUME IInv, UndoInv, LoopInv, pc = "alloc", SaveCurAsIncumb, pc' = "loop",
         testing' = NoSite, UNCHANGED <<altered, perm, bounds>>,
         pureMs' \in BOOLEAN
  PROVE  LoopInv'
  <1>1. /\ site' = SitesAsIncumb /\ incumbVisit' = curVisit
        /\ incumbFlow' = flow
        /\ hist' = [hist EXCEPT !.best = [alloc |-> alloc, config |-> config]]
    BY DEF SaveCurAsIncumb
  <1>2. hist'.tested = hist.tested
    BY <1>1 DEF UndoInv, LogTypes, Records
  <1>3. ASSUME NEW s \in Sites
        PROVE  /\ site'[s].selRtCand = site[s].selRtCand
               /\ site'[s].next = site[s].next
               /\ InRange(s, site'[s])
    <2>1. site[s] \in SiteStates /\ InRange(s, site[s])
      BY DEF IInv, Types, LoopInv
    <2>2. CASE s \in curVisit
      <3>1. site'[s] = [site[s] EXCEPT !.incumbPcIdx = site[s].curPcIdx,
                                       !.incumbUnique = site[s].curUnique]
        BY <1>1, <2>2 DEF SitesAsIncumb
      <3> QED
        BY <2>1, <3>1 DEF SiteStates, InRange
    <2>3. CASE s \notin curVisit /\ s \in incumbVisit
      <3>1. site'[s] = [site[s] EXCEPT !.incumbPcIdx = -1,
                                       !.incumbUnique = None]
        BY <1>1, <2>3 DEF SitesAsIncumb
      <3> QED
        BY <2>1, <3>1 DEF SiteStates, InRange
    <2>4. CASE s \notin curVisit /\ s \notin incumbVisit
      <3>1. site'[s] = site[s]
        BY <1>1, <2>4 DEF SitesAsIncumb
      <3> QED
        BY <2>1, <3>1
    <2> QED
      BY <2>2, <2>3, <2>4
  <1>4. ASSUME NEW s \in Sites PROVE Tried(s)'
    <2>1. Tried(s)
      BY DEF LoopInv
    <2> QED
      BY <1>2, <1>3, <2>1, NoSiteAssumption DEF Tried, SglSrcMode
  <1>5. \A s \in Sites : FlowAt(incumbFlow', s) # {} => s \in incumbVisit'
    BY <1>1 DEF IInv, CurRecord
  <1>6. Scalars'
    <2>1. permActive' \in BOOLEAN /\ pureMs' \in BOOLEAN
      BY DEF LoopInv, Scalars, perm
    <2>2. steps' \in 0..MaxSteps /\ calls' \in 0..MaxCalls
      BY DEF LoopInv, Scalars, bounds
    <2> QED
      BY <2>1, <2>2 DEF Scalars
  <1> QED
    BY <1>3, <1>4, <1>5, <1>6 DEF LoopInv, MultiSourceIsLastResort

LEMMA EndAllocLoop == ASSUME IInv, UndoInv, LoopInv, EndAlloc PROVE LoopInv'
  <1>1. CASE MsAllocIsFull
    <2>1. /\ pc = "alloc" /\ SaveCurAsIncumb /\ pc' = "loop"
          /\ UNCHANGED <<altered, perm, bounds, pureMs>>
          /\ testing' = NoSite
      BY <1>1 DEF MsAllocIsFull
    <2> QED
      BY <2>1, SuccessLoop DEF LoopInv, Scalars
  <1>2. CASE Accept
    <2>1. /\ pc = "alloc" /\ SaveCurAsIncumb /\ pc' = "loop"
          /\ UNCHANGED <<altered, perm, bounds>>
          /\ testing' = NoSite /\ pureMs' \in BOOLEAN
      BY <1>2 DEF Accept
    <2> QED
      BY <2>1, SuccessLoop
  <1>3. CASE MsAllocIsShort
    <2>1. /\ pc = "alloc" /\ pc' = "idle" /\ testing' = testing
          /\ UNCHANGED <<site, altered, incumbVisit, incumbFlow, hist, pureMs,
                         permActive, steps, calls>>
      BY <1>3 DEF MsAllocIsShort, visits, perm, bounds, flows
    <2>2. hist'.full = FALSE
      BY <2>1 DEF UndoInv
    <2>3. Scalars'
      BY <2>1 DEF LoopInv, Scalars
    <2> QED
      BY <2>1, <2>2, <2>3 DEF LoopInv, MultiSourceIsLastResort, InRange
  <1>4. CASE Reject
    <2>1. /\ pc = "alloc" /\ pc' = "loop" /\ testing \in Sites
          /\ testing' = NoSite
          /\ site' = [site EXCEPT ![testing].selRtCand = None]
          /\ UNCHANGED <<altered, incumbVisit, incumbFlow, hist, pureMs,
                         permActive, steps, calls>>
      BY <1>4 DEF Reject, visits, perm, bounds, flows, IInv, Types
    <2>2. ASSUME NEW s \in Sites
          PROVE  /\ site'[s].selRtCand = IF s = testing THEN None
                                         ELSE site[s].selRtCand
                 /\ site'[s].next = site[s].next
                 /\ site'[s].curUnique = site[s].curUnique
                 /\ site'[s].incumbUnique = site[s].incumbUnique
      <3>1. site \in [Sites -> SiteStates] /\ site[s] \in SiteStates
        BY DEF IInv, Types
      <3> QED
        BY <2>1, <3>1 DEF SiteStates
    <2>3. ASSUME NEW s \in Sites PROVE Tried(s)'
      <3>1. Tried(s)
        BY <2>1 DEF LoopInv
      <3> QED
        BY <2>1, <2>2, <3>1, NoSiteAssumption DEF Tried, SglSrcMode
    <2>4. Scalars'
      BY <2>1 DEF LoopInv, Scalars
    <2>5. \A s \in Sites : InRange(s, site'[s])
      BY <2>2 DEF LoopInv, InRange
    <2>6. \A s \in Sites \ altered' : site'[s].selRtCand = None /\ site'[s].next = 1
      BY <2>1, <2>2 DEF LoopInv
    <2> QED
      BY <2>1, <2>3, <2>4, <2>5, <2>6 DEF LoopInv, MultiSourceIsLastResort
  <1> QED
    BY <1>1, <1>2, <1>3, <1>4 DEF EndAlloc

\* The end of the loop: no site has anything left to try.
LEMMA PreserveIncumbLoop ==
  ASSUME IInv, UndoInv, LoopInv, PreserveIncumb PROVE LoopInv'
  <1>1. /\ pc = "loop" /\ pc' = "idle" /\ Opps = {} /\ testing = NoSite
        /\ testing' = testing /\ site' = AlteredReset /\ altered' = {}
        /\ hist' = [hist EXCEPT !.full = TRUE]
        /\ UNCHANGED <<incumbVisit, incumbFlow, pureMs, permActive, steps,
                       calls>>
    BY DEF PreserveIncumb, IInv, AlteredInCall, visits, perm, bounds, flows
  <1>2. hist'.tested = hist.tested
    BY <1>1 DEF UndoInv, LogTypes, Records
  <1>3. ASSUME NEW s \in Sites
        PROVE  /\ site'[s].selRtCand = None /\ site'[s].next = 1
               /\ InRange(s, site'[s])
    <2>1. site[s] \in SiteStates /\ InRange(s, site[s])
          /\ NCands[s] \in Nat
      BY NCandsAssumption DEF IInv, Types, LoopInv
    <2>2. CASE s \in altered
      <3>1. site'[s] = [site[s] EXCEPT !.selRtCand = None, !.next = 1]
        BY <1>1, <2>2 DEF AlteredReset
      <3>2. /\ site'[s].selRtCand = None /\ site'[s].next = 1
            /\ site'[s].curUnique = site[s].curUnique
            /\ site'[s].incumbUnique = site[s].incumbUnique
        BY <2>1, <3>1 DEF SiteStates
      <3> QED
        BY <2>1, <3>2 DEF InRange
    <2>3. CASE s \notin altered
      <3>1. site'[s] = site[s]
        BY <1>1, <2>3 DEF AlteredReset
      <3> QED
        BY <2>1, <2>3, <3>1 DEF LoopInv
    <2> QED
      BY <2>2, <2>3
  <1>4. ASSUME NEW s \in Sites
        PROVE  \/ \E c \in Cands(s) : FlowAt(incumbFlow, s) \subseteq {c}
               \/ \A c \in Cands(s) : <<s, c>> \in hist.tested
    <2>1. Tried(s) /\ InRange(s, site[s]) /\ NCands[s] \in Nat \ {0, 1}
      BY <1>1, NCandsAssumption DEF LoopInv
    <2>2. CASE s \notin incumbVisit
      <3>1. FlowAt(incumbFlow, s) = {} /\ 1 \in Cands(s)
        BY <2>1, <2>2 DEF LoopInv, Cands
      <3> QED
        BY <3>1
    <2>3. CASE SglSrcMode(s)
      <3>1. site[s].selRtCand \in Cands(s)
        BY <2>1, <2>3 DEF InRange, SglSrcMode
      <3>2. FlowAt(incumbFlow, s) \subseteq {site[s].selRtCand}
        BY <1>1, <2>3, NoSiteAssumption DEF IInv, IncumbSingle
      <3> QED
        BY <3>1, <3>2
    <2>4. CASE s \in incumbVisit /\ ~SglSrcMode(s)
      <3>1. ~HasUntried(s)
        BY <1>1, <2>4 DEF Opps
      <3>2. \A c \in Cands(s) : c < site[s].next
        BY <2>1, <3>1 DEF HasUntried, InRange, Cands
      <3> QED
        BY <2>1, <2>4, <3>2 DEF Tried
    <2> QED
      BY <2>2, <2>3, <2>4
  <1>5. MultiSourceIsLastResort'
    BY <1>1, <1>2, <1>4 DEF MultiSourceIsLastResort
  <1>6. Scalars'
    BY <1>1 DEF LoopInv, Scalars
  <1> QED
    BY <1>1, <1>3, <1>5, <1>6 DEF LoopInv

LEMMA RestLoop ==
  ASSUME IInv, UndoInv, LoopInv, RecoverInitState \/ UNCHANGED vars
  PROVE  LoopInv'
  <1>1. /\ UNCHANGED <<pc, testing, site, altered, incumbFlow, incumbVisit,
                       permActive, pureMs, steps, calls>>
        /\ hist' = hist \/ hist' = [hist EXCEPT !.full = FALSE]
    BY DEF RecoverInitState, vars, visits, perm, bounds, flows
  <1>2. /\ hist'.tested = hist.tested
        /\ hist'.full = hist.full \/ hist'.full = FALSE
    BY <1>1 DEF UndoInv, LogTypes, Records
  <1>3. \A s \in Sites : Tried(s) => Tried(s)'
    BY <1>1, <1>2 DEF Tried, SglSrcMode
  <1>4. MultiSourceIsLastResort'
    BY <1>1, <1>2 DEF LoopInv, MultiSourceIsLastResort
  <1>5. Scalars'
    BY <1>1 DEF LoopInv, Scalars
  <1> QED
    BY <1>1, <1>3, <1>4, <1>5 DEF LoopInv, InRange

LEMMA NextLoop == ASSUME IInv, UndoInv, LoopInv, [Next]_vars PROVE LoopInv'
  <1>1. ASSUME Allocate PROVE LoopInv'
    <2>1. PICK s \in Sites, p \in Periods :
            \/ AlterSelection(s, p)
            \/ \E c \in Cands(s) :
                  \/ TempExplode(s, p, c)
                  \/ \E new \in BOOLEAN : PermExplode(s, p, c, new)
      BY <1>1 DEF Allocate
    <2> QED
      BY <2>1, AlterSelectionLoop, ExplodeLoop
  <1>2. ASSUME NextOpp PROVE LoopInv'
    BY <1>2, SelectDiscoveryLoop, TryNextCandLoop DEF NextOpp
  <1> QED
    BY <1>1, <1>2, CommitMaxQtyLoop, EndAllocLoop, PreserveIncumbLoop, RestLoop
    DEF Next, InCall

-------------------------------------------------------------------------------
(* What restore() and restoreAndSave() do in their loops. *)

\* One turn of the loop, for the pair that comes n-th from the end.
Turn(log, n, r) ==
  [mem |-> [r.mem EXCEPT ![log[Len(log) + 1 - n].loc] =
                            log[Len(log) + 1 - n].val],
   log |-> Saved(r.log, r.mem, log[Len(log) + 1 - n].loc)]

Turns(mem, log, f) ==
  [n \in 0..Len(log) |->
     IF n = 0 THEN [mem |-> mem, log |-> <<>>] ELSE Turn(log, n, f[n - 1])]

LEMMA UndoLoopTurns ==
  ASSUME NEW mem, NEW log
  PROVE  UndoLoop(mem, log) = (CHOOSE f : f = Turns(mem, log, f))[Len(log)]
  BY DEF UndoLoop, Turns, Turn

\* The saves of a variable among the n latest pairs, and the memory that is
\* left when these have been undone.
LatestSaves(log, n, v) == {i \in SavesOf(log, v) : i > Len(log) - n}

UndoneTo(mem, log, n) ==
  [v \in DOMAIN mem |->
     IF LatestSaves(log, n, v) = {} THEN mem[v]
     ELSE log[Oldest(LatestSaves(log, n, v))].val]

AfterTurns(mem, log, n) ==
  [mem |-> UndoneTo(mem, log, n),
   log |-> [i \in 1..n |-> Swapped(mem, log)[i]]]

LEMMA UndoneFacts ==
  ASSUME NEW D, NEW V, NEW mem \in [D -> V], NEW log \in Seq(Pairs(D, V))
  PROVE  /\ UndoneTo(mem, log, 0) = mem
         /\ UndoneTo(mem, log, Len(log)) = Restored(mem, log)
         /\ \A n \in 1..Len(log) :
              /\ log[Len(log) + 1 - n].loc \in D
              /\ UndoneTo(mem, log, n) =
                   [UndoneTo(mem, log, n - 1) EXCEPT
                      ![log[Len(log) + 1 - n].loc] = log[Len(log) + 1 - n].val]
              /\ Swapped(mem, log)[n] =
                   [loc |-> log[Len(log) + 1 - n].loc,
                    val |-> UndoneTo(mem, log, n - 1)[log[Len(log) + 1 - n].loc]]
  <1>1. PICK N : N = Len(log)
    OBVIOUS
  <1>2. N \in Nat /\ DOMAIN log = 1..N /\ \A k \in 1..N : log[k] \in Pairs(D, V)
    BY <1>1, LenProperties
  <1>3. DOMAIN mem = D
    OBVIOUS
  <1>4. UndoneTo(mem, log, 0) = mem
    <2>1. \A v : LatestSaves(log, 0, v) = {}
      BY <1>1, <1>2 DEF LatestSaves, SavesOf
    <2> QED
      BY <2>1 DEF UndoneTo
  <1>5. UndoneTo(mem, log, N) = Restored(mem, log)
    <2>1. \A v : LatestSaves(log, N, v) = SavesOf(log, v)
      BY <1>1, <1>2 DEF LatestSaves, SavesOf
    <2> QED
      BY <2>1 DEF UndoneTo, Restored
  <1>6. ASSUME NEW n \in 1..N
        PROVE  /\ log[N + 1 - n].loc \in D
               /\ UndoneTo(mem, log, n) =
                    [UndoneTo(mem, log, n - 1) EXCEPT
                       ![log[N + 1 - n].loc] = log[N + 1 - n].val]
               /\ Swapped(mem, log)[n] =
                    [loc |-> log[N + 1 - n].loc,
                     val |-> UndoneTo(mem, log, n - 1)[log[N + 1 - n].loc]]
    <2>1. PICK k : k = N + 1 - n
      OBVIOUS
    <2>2. k \in 1..N /\ n \in Nat /\ n - 1 \in Nat
      BY <1>2, <2>1
    <2>3. log[k].loc \in D
      BY <1>2, <2>2 DEF Pairs
    <2>4. \A v : LatestSaves(log, n - 1, v) = {j \in SavesOf(log, v) : j > k}
      BY <1>1, <1>2, <2>1, <2>2 DEF LatestSaves, SavesOf
    <2>5. \A v : LatestSaves(log, n, v) =
                   LatestSaves(log, n - 1, v) \cup
                   (IF log[k].loc = v THEN {k} ELSE {})
      <3>1. ASSUME NEW v, NEW i \in LatestSaves(log, n, v)
            PROVE  i \in LatestSaves(log, n - 1, v) \cup
                         (IF log[k].loc = v THEN {k} ELSE {})
        <4>1. i \in 1..N /\ log[i].loc = v /\ i > N - n /\ i \in SavesOf(log, v)
          BY <1>1, <1>2, <3>1 DEF LatestSaves, SavesOf
        <4>2. i > k \/ i = k
          BY <1>2, <2>1, <2>2, <4>1
        <4> QED
          BY <2>4, <4>1, <4>2
      <3>2. ASSUME NEW v, NEW i \in LatestSaves(log, n - 1, v)
            PROVE  i \in LatestSaves(log, n, v)
        <4>1. i \in 1..N /\ i > k /\ i \in SavesOf(log, v)
          BY <1>2, <2>4, <3>2 DEF SavesOf
        <4> QED
          BY <1>1, <1>2, <2>1, <2>2, <4>1 DEF LatestSaves
      <3>3. k \in LatestSaves(log, n, log[k].loc)
        BY <1>1, <1>2, <2>1, <2>2 DEF LatestSaves, SavesOf
      <3> QED
        BY <3>1, <3>2, <3>3
    <2>6. ASSUME NEW v \in D
          PROVE  UndoneTo(mem, log, n)[v] =
                   IF v = log[k].loc THEN log[k].val
                   ELSE UndoneTo(mem, log, n - 1)[v]
      <3>1. CASE v # log[k].loc
        <4>1. LatestSaves(log, n, v) = LatestSaves(log, n - 1, v)
          BY <2>5, <3>1
        <4> QED
          BY <1>3, <3>1, <4>1 DEF UndoneTo
      <3>2. CASE v = log[k].loc
        <4>1. LatestSaves(log, n, v) \in SUBSET Nat
          BY <1>2 DEF LatestSaves, SavesOf
        <4>2. /\ k \in LatestSaves(log, n, v)
              /\ \A i \in LatestSaves(log, n, v) : i > k \/ i = k
          BY <2>4, <2>5, <3>2
        <4>3. \A i \in LatestSaves(log, n, v) : k <= i
          BY <2>2, <4>1, <4>2
        <4>4. Oldest(LatestSaves(log, n, v)) = k
          BY <4>1, <4>2, <4>3, OldestFacts
        <4> QED
          BY <1>3, <3>2, <4>2, <4>4 DEF UndoneTo
      <3> QED
        BY <3>1, <3>2
    <2>7. UndoneTo(mem, log, n) =
            [UndoneTo(mem, log, n - 1) EXCEPT ![log[k].loc] = log[k].val]
      <3>1. \A m : UndoneTo(mem, log, m) = [v \in D |-> UndoneTo(mem, log, m)[v]]
        BY <1>3 DEF UndoneTo
      <3>2. PICK a, b : a = UndoneTo(mem, log, n) /\ b = UndoneTo(mem, log, n - 1)
        OBVIOUS
      <3>3. /\ a = [v \in D |-> a[v]] /\ b = [v \in D |-> b[v]]
            /\ \A v \in D : a[v] = IF v = log[k].loc THEN log[k].val ELSE b[v]
        BY <2>6, <3>1, <3>2
      <3>4. a = [b EXCEPT ![log[k].loc] = log[k].val]
        BY <3>3
      <3> QED
        BY <3>2, <3>4
    <2>8. Swapped(mem, log)[n] =
            [loc |-> log[k].loc,
             val |-> IF LatestSaves(log, n - 1, log[k].loc) = {}
                     THEN mem[log[k].loc]
                     ELSE log[Oldest(LatestSaves(log, n - 1, log[k].loc))].val]
      BY <1>1, <2>1, <2>4 DEF Swapped
    <2>9. Swapped(mem, log)[n] =
            [loc |-> log[k].loc, val |-> UndoneTo(mem, log, n - 1)[log[k].loc]]
      BY <1>3, <2>3, <2>8 DEF UndoneTo
    <2> QED
      BY <2>1, <2>3, <2>7, <2>9
  <1> QED
    BY <1>1, <1>4, <1>5, <1>6

LEMMA AppendAsFunction ==
  ASSUME NEW S, NEW n \in Nat, n # 0, NEW f, \A i \in 1..n : f[i] \in S
  PROVE  [i \in 1..n |-> f[i]] = Append([i \in 1..(n - 1) |-> f[i]], f[n])
  <1>1. PICK m : m = n - 1
    OBVIOUS
  <1>2. m \in Nat /\ m + 1 = n
    BY <1>1
  <1>3. PICK h : h = [i \in 1..m |-> f[i]]
    OBVIOUS
  <1>4. h \in Seq(S)
    <2>1. \A i \in 1..m : f[i] \in S
      BY <1>2
    <2> QED
      BY <1>2, <1>3, <2>1, IsASeq
  <1>5. Len(h) = m
    BY <1>2, <1>3, <1>4, LenProperties
  <1>6. PICK a : a = Append(h, f[n])
    OBVIOUS
  <1>7. /\ a \in Seq(S)
        /\ Len(a) = n
        /\ \A i \in 1..m : a[i] = h[i]
        /\ a[n] = f[n]
    BY <1>2, <1>4, <1>5, <1>6, AppendProperties
  <1>8. DOMAIN a = 1..n /\ a = [i \in DOMAIN a |-> a[i]]
    BY <1>7, LenProperties
  <1>9. \A i \in 1..n : a[i] = f[i]
    <2>1. \A i \in 1..n : i = n \/ i \in 1..m
      BY <1>2
    <2> QED
      BY <1>3, <1>7, <2>1
  <1>10. a = [i \in 1..n |-> f[i]]
    BY <1>8, <1>9
  <1> QED
    BY <1>1, <1>3, <1>6, <1>10

\* The loop brings about what Restored and Swapped say.
LEMMA UndoLoopFacts ==
  ASSUME NEW D, NEW V, NEW mem \in [D -> V], NEW log \in Seq(Pairs(D, V))
  PROVE  /\ UndoLoop(mem, log).mem = Restored(mem, log)
         /\ UndoLoop(mem, log).log = Swapped(mem, log)
  <1>1. PICK N : N = Len(log)
    OBVIOUS
  <1>2. N \in Nat
    BY <1>1, LenProperties
  <1>3. PICK g : g = [n \in 0..N |-> AfterTurns(mem, log, n)]
    OBVIOUS
  <1>4. ASSUME NEW n \in 1..N
        PROVE  AfterTurns(mem, log, n) = Turn(log, n, AfterTurns(mem, log, n - 1))
    <2>1. PICK v : v = log[N + 1 - n].loc
      OBVIOUS
    <2>2. PICK sw : sw = Swapped(mem, log)
      OBVIOUS
    <2>3. PICK b : b = UndoneTo(mem, log, n - 1)
      OBVIOUS
    <2>4. /\ UndoneTo(mem, log, n) = [b EXCEPT ![v] = log[N + 1 - n].val]
          /\ sw[n] = [loc |-> v, val |-> b[v]]
      BY <1>1, <2>1, <2>2, <2>3, UndoneFacts
    <2>5. [i \in 1..n |-> sw[i]] = Append([i \in 1..(n - 1) |-> sw[i]], sw[n])
      <3>1. n \in Nat /\ n # 0
        BY <1>2
      <3>2. PICK S : S = {sw[i] : i \in 1..n}
        OBVIOUS
      <3>3. \A i \in 1..n : sw[i] \in S
        BY <3>2
      <3> QED
        BY <3>1, <3>3, AppendAsFunction
    <2>6. Saved([i \in 1..(n - 1) |-> sw[i]], b, v) = [i \in 1..n |-> sw[i]]
      BY <2>4, <2>5 DEF Saved
    <2>7. Turn(log, n, [mem |-> b, log |-> [i \in 1..(n - 1) |-> sw[i]]])
            = [mem |-> UndoneTo(mem, log, n), log |-> [i \in 1..n |-> sw[i]]]
      BY <1>1, <2>1, <2>4, <2>6 DEF Turn
    <2> QED
      BY <2>2, <2>3, <2>7 DEF AfterTurns
  <1>5. g[0] = [mem |-> mem, log |-> <<>>]
    <2>1. [i \in 1..0 |-> Swapped(mem, log)[i]] = <<>>
      OBVIOUS
    <2>2. UndoneTo(mem, log, 0) = mem
      BY UndoneFacts
    <2> QED
      BY <1>2, <1>3, <2>1, <2>2 DEF AfterTurns
  <1>6. g = Turns(mem, log, g)
    <2>1. \A n \in 0..N : n # 0 => n \in 1..N /\ n - 1 \in 0..N
      BY <1>2
    <2>2. \A n \in 0..N : g[n] = IF n = 0 THEN [mem |-> mem, log |-> <<>>]
                                 ELSE Turn(log, n, g[n - 1])
      BY <1>3, <1>4, <1>5, <2>1
    <2> QED
      BY <1>1, <1>3, <2>2 DEF Turns
  <1>7. PICK f : f = Turns(mem, log, f) /\ UndoLoop(mem, log) = f[N]
    <2>1. PICK f : f = CHOOSE h : h = Turns(mem, log, h)
      OBVIOUS
    <2>2. f = Turns(mem, log, f)
      BY <1>6, <2>1
    <2> QED
      BY <1>1, <2>1, <2>2, UndoLoopTurns
  <1>8. f[N] = g[N]
    <2>1. SUFFICES ASSUME {n \in 0..N : f[n] # g[n]} # {} PROVE FALSE
      BY <1>2
    <2>2. PICK n \in {m \in 0..N : f[m] # g[m]} :
             \A m \in {m \in 0..N : f[m] # g[m]} : n <= m
      <3>1. {m \in 0..N : f[m] # g[m]} \in SUBSET Nat
        BY <1>2
      <3> QED
        BY <2>1, <3>1, NatMin
    <2>3. n # 0
      BY <1>1, <1>2, <1>5, <1>7 DEF Turns
    <2>4. n \in Nat /\ n - 1 \in 0..N /\ ~(n <= n - 1)
      BY <1>2, <2>3
    <2>5. f[n - 1] = g[n - 1]
      BY <2>2, <2>4
    <2>6. f[n] = Turn(log, n, f[n - 1]) /\ g[n] = Turn(log, n, g[n - 1])
      BY <1>1, <1>6, <1>7, <2>3 DEF Turns
    <2> QED
      BY <2>2, <2>5, <2>6
  <1>9. [i \in 1..N |-> Swapped(mem, log)[i]] = Swapped(mem, log)
    BY <1>1 DEF Swapped
  <1>10. AfterTurns(mem, log, N) = [mem |-> Restored(mem, log),
                                    log |-> Swapped(mem, log)]
    BY <1>1, <1>9, UndoneFacts DEF AfterTurns
  <1> QED
    BY <1>2, <1>3, <1>7, <1>8, <1>10

-------------------------------------------------------------------------------
(* What the undo logs bring back of the configuration. *)

\* Pairs that hold what a memory has, for every variable that changes.
Saves(D, V, mem, m, add) ==
  /\ add \in Seq(Pairs(D, V))
  /\ \A i \in 1..Len(add) : add[i].val = mem[add[i].loc]
  /\ \A w \in D : m[w] = mem[w] \/ \E i \in 1..Len(add) : add[i].loc = w

\* They do not change what will be restored.
LEMMA RestoredAdded ==
  ASSUME NEW D, NEW V, NEW mem \in [D -> V], NEW m \in [D -> V],
         NEW log \in Seq(Pairs(D, V)), NEW add, Saves(D, V, mem, m, add)
  PROVE  /\ log \o add \in Seq(Pairs(D, V))
         /\ Restored(m, log \o add) = Restored(mem, log)
  <1>0. /\ add \in Seq(Pairs(D, V))
        /\ \A i \in 1..Len(add) : add[i].val = mem[add[i].loc]
        /\ \A w \in D : m[w] = mem[w] \/ \E i \in 1..Len(add) : add[i].loc = w
    BY DEF Saves
  <1>1. PICK new : new = log \o add
    OBVIOUS
  <1>2. PICK n, k : n = Len(log) /\ k = Len(add)
    OBVIOUS
  <1>3. /\ new \in Seq(Pairs(D, V)) /\ n \in Nat /\ k \in Nat
        /\ DOMAIN log = 1..n /\ DOMAIN new = 1..(n + k)
        /\ \A i \in 1..n : new[i] = log[i]
        /\ \A i \in 1..(n + k) : i > n => new[i] = add[i - n]
    <2>1. /\ new \in Seq(Pairs(D, V)) /\ Len(new) = n + k
          /\ \A i \in 1..(n + k) :
               new[i] = IF i <= n THEN log[i] ELSE add[i - n]
      BY <1>0, <1>1, <1>2, ConcatProperties
    <2>2. n \in Nat /\ k \in Nat /\ DOMAIN log = 1..n /\ DOMAIN new = 1..(n + k)
      BY <1>0, <1>2, <2>1, LenProperties
    <2>3. ASSUME NEW i \in 1..n PROVE new[i] = log[i]
      <3>1. i \in 1..(n + k) /\ i <= n
        BY <2>2
      <3> QED
        BY <2>1, <3>1
    <2>4. ASSUME NEW i \in 1..(n + k), i > n PROVE new[i] = add[i - n]
      <3>1. ~(i <= n)
        BY <2>2, <2>4
      <3> QED
        BY <2>1, <3>1
    <2> QED
      BY <2>1, <2>2, <2>3, <2>4
  <1>4. ASSUME NEW i \in 1..(n + k), i > n
        PROVE  new[i].val = mem[new[i].loc]
    <2>1. i - n \in 1..k
      BY <1>3, <1>4
    <2>2. add[i - n].val = mem[add[i - n].loc]
      BY <1>0, <1>2, <2>1
    <2> QED
      BY <1>3, <1>4, <2>2
  <1>5. DOMAIN m = D
    OBVIOUS
  <1>6. ASSUME NEW w \in D
        PROVE  Restored(m, new)[w] = Restored(mem, log)[w]
    <2>1. /\ SavesOf(log, w) \in SUBSET Nat /\ SavesOf(new, w) \in SUBSET Nat
          /\ SavesOf(log, w) \subseteq 1..n /\ SavesOf(new, w) \subseteq 1..(n + k)
      BY <1>3 DEF SavesOf
    <2>2. CASE SavesOf(log, w) # {}
      <3>1. SavesOf(log, w) \subseteq SavesOf(new, w)
        BY <1>3 DEF SavesOf
      <3>2. \A i \in SavesOf(new, w) : i \in SavesOf(log, w) \/ i > n
        <4>1. ASSUME NEW i \in SavesOf(new, w), ~(i > n)
              PROVE  i \in SavesOf(log, w)
          <5>1. i \in 1..n
            BY <1>3, <2>1, <4>1
          <5> QED
            BY <1>3, <5>1 DEF SavesOf
        <4> QED
          BY <4>1
      <3>3. PICK j : j = Oldest(SavesOf(log, w))
        OBVIOUS
      <3>4. j \in SavesOf(log, w) /\ \A y \in SavesOf(log, w) : j <= y
        BY <2>1, <2>2, <3>3, OldestFacts
      <3>5. j \in 1..n
        BY <2>1, <3>4
      <3>6. j \in SavesOf(new, w) /\ \A y \in SavesOf(new, w) : j <= y
        BY <1>3, <2>1, <3>1, <3>2, <3>4, <3>5
      <3>7. j = Oldest(SavesOf(new, w))
        BY <2>1, <3>6, OldestFacts
      <3>8. Restored(m, new)[w] = new[j].val
        BY <1>5, <3>6, <3>7 DEF Restored
      <3>9. Restored(mem, log)[w] = log[j].val
        BY <2>2, <3>3 DEF Restored
      <3> QED
        BY <1>3, <3>5, <3>8, <3>9
    <2>3. CASE SavesOf(log, w) = {} /\ SavesOf(new, w) # {}
      <3>1. PICK j : j = Oldest(SavesOf(new, w))
        OBVIOUS
      <3>2. j \in SavesOf(new, w)
        BY <2>1, <2>3, <3>1, OldestFacts
      <3>3. j \in 1..(n + k) /\ new[j].loc = w
        BY <1>3, <3>2 DEF SavesOf
      <3>4. j > n
        <4>1. CASE j \in 1..n
          <5>1. j \in SavesOf(log, w)
            BY <1>3, <3>3, <4>1 DEF SavesOf
          <5> QED
            BY <2>3, <5>1
        <4> QED
          BY <1>3, <3>3, <4>1
      <3>5. new[j].val = mem[w]
        BY <1>4, <3>3, <3>4
      <3>6. Restored(m, new)[w] = new[j].val
        BY <1>5, <2>3, <3>1 DEF Restored
      <3> QED
        BY <2>3, <3>5, <3>6 DEF Restored
    <2>4. CASE SavesOf(log, w) = {} /\ SavesOf(new, w) = {}
      <3>1. m[w] = mem[w]
        <4>1. ASSUME NEW i \in 1..k, add[i].loc = w PROVE FALSE
          <5>1. n + i \in 1..(n + k) /\ n + i > n /\ (n + i) - n = i
            BY <1>3
          <5>2. new[n + i] = add[i]
            BY <1>3, <5>1
          <5>3. n + i \in SavesOf(new, w)
            BY <1>3, <4>1, <5>1, <5>2 DEF SavesOf
          <5> QED
            BY <2>4, <5>3
        <4> QED
          BY <1>0, <1>2, <4>1
      <3> QED
        BY <1>5, <2>4, <3>1 DEF Restored
    <2> QED
      BY <2>2, <2>3, <2>4
  <1>7. Restored(m, new) = Restored(mem, log)
    BY <1>5, <1>6 DEF Restored
  <1> QED
    BY <1>1, <1>3, <1>7

\* SetToSeq lists a finite set.
LEMMA SetToSeqFacts ==
  ASSUME NEW S, IsFiniteSet(S)
  PROVE  /\ SetToSeq(S) \in Seq(S)
         /\ \A x \in S : \E i \in 1..Len(SetToSeq(S)) : SetToSeq(S)[i] = x
  <1>1. PICK n : n = Cardinality(S)
    OBVIOUS
  <1>2. n \in Nat /\ ExistsBijection(1..n, S)
    BY <1>1, FS_CardinalityType
  <1>3. PICK b : b \in Bijection(1..n, S)
    BY <1>2 DEF ExistsBijection
  <1>4. b \in [1..n -> S] /\ IsInjective(b)
    BY <1>3 DEF Bijection, Injection, IsInjective
  <1>5. PICK f : f = SetToSeq(S)
    OBVIOUS
  <1>6. f \in [1..n -> S] /\ IsInjective(f)
    BY <1>1, <1>4, <1>5 DEF SetToSeq
  <1>7. f \in Seq(S) /\ Len(f) = n
    BY <1>2, <1>6
  <1>8. ASSUME NEW x \in S, \A i \in 1..n : f[i] # x PROVE FALSE
    <2>1. f \in [1..n -> S \ {x}]
      BY <1>6, <1>8
    <2>2. IsFiniteSet(S \ {x}) /\ Cardinality(S \ {x}) = n - 1
      BY <1>1, FS_RemoveElement
    <2>3. IsFiniteSet(1..n) /\ Cardinality(1..n) = n
      BY <1>2, FS_Interval
    <2>4. n - 1 < n
      BY <1>2
    <2>5. \E i, j \in 1..n : i # j /\ f[i] = f[j]
      BY <2>1, <2>2, <2>3, <2>4, FS_PigeonHole
    <2> QED
      BY <1>6, <2>5 DEF IsInjective
  <1> QED
    BY <1>5, <1>7, <1>8

-------------------------------------------------------------------------------
(* The selection configuration. *)

Values == Nat \cup BOOLEAN

GoodConfig(cfg) ==
  /\ cfg \in [ConfigVars -> Values]
  /\ \A s \in Sites, p \in Periods : cfg[Sel(s, p)] \in Cands(s) \cup {None}
  /\ \A v \in ResAltVars \cup PrevVars : cfg[v] \in BOOLEAN

\* What the recovery pairs do not name is as it was at first.
Recoverable(cfg, rec) ==
  /\ \A s \in Sites, p \in Periods :
       Sel(s, p) \notin rec => /\ cfg[Sel(s, p)] = Default(s, p)
                                    /\ cfg[ResAlt(s, p)] = InitResAlt(s, p)
  /\ \A v \in PrevVars : v \notin rec => cfg[v] = FALSE

Sound(cfg, rec) == GoodConfig(cfg) /\ (Recovery => Recoverable(cfg, rec))

ResAltRight(cfg, s, p) == cfg[ResAlt(s, p)] <=> NextRtCand(cfg, s, p) # None

AllRight(cfg) == \A s \in Sites, p \in Periods : ResAltRight(cfg, s, p)

LEMMA VarFacts ==
  ASSUME NEW s, NEW t, NEW p, NEW q, NEW c, NEW d
  PROVE  /\ Sel(s, p) = Sel(t, q) => s = t /\ p = q
         /\ ResAlt(s, p) = ResAlt(t, q) => s = t /\ p = q
         /\ Prev(s, p, c) = Prev(t, q, d) => s = t /\ p = q /\ c = d
         /\ Sel(s, p) # ResAlt(t, q) /\ Sel(s, p) # Prev(t, q, d)
         /\ ResAlt(s, p) # Prev(t, q, d)
         /\ Sel(s, p)[2] = s /\ Sel(s, p)[3] = p
         /\ ResAlt(s, p)[2] = s /\ ResAlt(s, p)[3] = p
  <1>1. /\ Sel(s, p) = <<"selRtCand", s, p>> /\ Sel(t, q) = <<"selRtCand", t, q>>
        /\ ResAlt(s, p) = <<"hasResAlt", s, p>>
        /\ ResAlt(t, q) = <<"hasResAlt", t, q>>
        /\ Prev(s, p, c) = <<"prevSel", s, p, c>>
        /\ Prev(t, q, d) = <<"prevSel", t, q, d>>
    BY DEF Sel, ResAlt, Prev
  <1>2. /\ Sel(s, p)[1] = "selRtCand" /\ ResAlt(t, q)[1] = "hasResAlt"
        /\ Prev(t, q, d)[1] = "prevSel" /\ ResAlt(s, p)[1] = "hasResAlt"
    BY <1>1
  <1>3. /\ Sel(s, p) # ResAlt(t, q) /\ Sel(s, p) # Prev(t, q, d)
        /\ ResAlt(s, p) # Prev(t, q, d)
    BY <1>2
  <1>4. /\ Sel(s, p)[2] = s /\ Sel(s, p)[3] = p
        /\ Sel(t, q)[2] = t /\ Sel(t, q)[3] = q
        /\ ResAlt(s, p)[2] = s /\ ResAlt(s, p)[3] = p
        /\ ResAlt(t, q)[2] = t /\ ResAlt(t, q)[3] = q
        /\ Prev(s, p, c)[2] = s /\ Prev(s, p, c)[3] = p /\ Prev(s, p, c)[4] = c
        /\ Prev(t, q, d)[2] = t /\ Prev(t, q, d)[3] = q /\ Prev(t, q, d)[4] = d
    BY <1>1
  <1> QED
    BY <1>3, <1>4

\* Every variable of the configuration is one of these.
LEMMA VarKinds ==
  /\ \A s \in Sites, p \in Periods : /\ Sel(s, p) \in SelVars
                                     /\ ResAlt(s, p) \in ResAltVars
                                     /\ \A c \in Cands(s) : Prev(s, p, c) \in PrevVars
  /\ \A v \in SelVars : \E s \in Sites, p \in Periods : v = Sel(s, p)
  /\ \A v \in ResAltVars : \E s \in Sites, p \in Periods : v = ResAlt(s, p)
  /\ \A v \in PrevVars : \E s \in Sites, p \in Periods :
       \E c \in Cands(s) : v = Prev(s, p, c)
  /\ SelVars \cap ResAltVars = {} /\ SelVars \cap PrevVars = {}
  /\ ResAltVars \cap PrevVars = {}
  <1>1. /\ \A s \in Sites, p \in Periods : /\ Sel(s, p) \in SelVars
                                           /\ ResAlt(s, p) \in ResAltVars
        /\ \A v \in SelVars : \E s \in Sites, p \in Periods : v = Sel(s, p)
        /\ \A v \in ResAltVars : \E s \in Sites, p \in Periods : v = ResAlt(s, p)
    BY DEF SelVars, ResAltVars
  <1>2. \A s \in Sites, p \in Periods : \A c \in Cands(s) :
          Prev(s, p, c) \in PrevVars
    BY DEF PrevVars, PrevVarsOf
  <1>3. ASSUME NEW v \in PrevVars
        PROVE  \E s \in Sites, p \in Periods : \E c \in Cands(s) :
                 v = Prev(s, p, c)
    BY DEF PrevVars, PrevVarsOf
  <1>4. SelVars \cap ResAltVars = {}
    <2>1. ASSUME NEW v \in SelVars, v \in ResAltVars PROVE FALSE
      <3>1. PICK s \in Sites, p \in Periods : v = Sel(s, p)
        BY <1>1
      <3>2. PICK t \in Sites, q \in Periods : v = ResAlt(t, q)
        BY <1>1, <2>1
      <3>3. Sel(s, p) # ResAlt(t, q)
        BY VarFacts
      <3> QED
        BY <3>1, <3>2, <3>3
    <2> QED
      BY <2>1
  <1>5. SelVars \cap PrevVars = {} /\ ResAltVars \cap PrevVars = {}
    <2>1. ASSUME NEW v \in PrevVars, v \in SelVars \/ v \in ResAltVars
          PROVE  FALSE
      <3>1. PICK s \in Sites, p \in Periods : \E c \in Cands(s) : v = Prev(s, p, c)
        BY <1>3
      <3>2. \E t \in Sites, q \in Periods : v = Sel(t, q) \/ v = ResAlt(t, q)
        BY <1>1, <2>1
      <3> QED
        BY <3>1, <3>2, VarFacts
    <2> QED
      BY <2>1
  <1> QED
    BY <1>1, <1>2, <1>3, <1>4, <1>5

LEMMA SelVarsFinite == IsFiniteSet(SelVars)
  <1>1. PICK f : f = [x \in Sites \X Periods |-> Sel(x[1], x[2])]
    OBVIOUS
  <1>2. IsFiniteSet(Sites \X Periods)
    BY FiniteAssumption, FS_Product
  <1>3. f \in [Sites \X Periods -> SelVars]
    BY <1>1, VarKinds
  <1>4. \A v \in SelVars : \E x \in Sites \X Periods : f[x] = v
    <2>1. ASSUME NEW v \in SelVars
          PROVE  \E x \in Sites \X Periods : f[x] = v
      <3>1. PICK s \in Sites, p \in Periods : v = Sel(s, p)
        BY VarKinds
      <3>2. <<s, p>> \in Sites \X Periods /\ f[<<s, p>>] = Sel(s, p)
        BY <1>1
      <3> QED
        BY <3>1, <3>2
    <2> QED
      BY <2>1
  <1>5. f \in Surjection(Sites \X Periods, SelVars)
    BY <1>3, <1>4 DEF Surjection
  <1> QED
    BY <1>2, <1>5, FS_Surjection

LEMMA LeastFacts ==
  ASSUME NEW s \in Sites, NEW S \in SUBSET Cands(s)
  PROVE  /\ Least(S) \in Cands(s) \cup {None}
         /\ Least(S) # None <=> S # {}
         /\ S # {} => Least(S) \in S
  <1>1. Cands(s) \subseteq Nat \ {0}
    BY NCandsAssumption DEF Cands
  <1>2. ASSUME S # {} PROVE Least(S) \in S
    <2>1. \E x \in S : \A y \in S : x <= y
      BY <1>1, <1>2, NatMin
    <2> QED
      BY <1>2, <2>1 DEF Least
  <1>3. S = {} => Least(S) = None
    BY DEF Least
  <1> QED
    BY <1>1, <1>2, <1>3 DEF None

LEMMA SelectionFacts ==
  ASSUME NEW s \in Sites, NEW p \in Periods, NEW cfg
  PROVE  /\ Default(s, p) \in Cands(s) \cup {None}
         /\ NextRtCand(cfg, s, p) \in Cands(s) \cup {None}
         /\ NextRtCand(cfg, s, p) # None <=>
              \E c \in Eligible[s, p] : ~cfg[Prev(s, p, c)] /\ c # cfg[Sel(s, p)]
  <1>1. Eligible[s, p] \subseteq Cands(s)
    BY EligibleAssumption
  <1>2. PICK S : S = {c \in Cands(s) : Valid(cfg, s, p, c) /\ c # cfg[Sel(s, p)]}
    OBVIOUS
  <1>3. S \in SUBSET Cands(s) /\ NextRtCand(cfg, s, p) = Least(S)
    BY <1>2 DEF NextRtCand
  <1>4. S # {} <=>
          \E c \in Eligible[s, p] : ~cfg[Prev(s, p, c)] /\ c # cfg[Sel(s, p)]
    BY <1>1, <1>2 DEF Valid
  <1> QED
    BY <1>1, <1>3, <1>4, LeastFacts DEF Default

\* The next candidate of a point depends on the point only.
LEMMA RightFrame ==
  ASSUME NEW s \in Sites, NEW p \in Periods, NEW cfg, NEW old,
         ResAltRight(old, s, p),
         cfg[Sel(s, p)] = old[Sel(s, p)], cfg[ResAlt(s, p)] = old[ResAlt(s, p)],
         \A c \in Cands(s) : cfg[Prev(s, p, c)] = old[Prev(s, p, c)]
  PROVE  ResAltRight(cfg, s, p)
  <1>1. Eligible[s, p] \subseteq Cands(s)
    BY EligibleAssumption
  <1>2. (NextRtCand(cfg, s, p) # None) <=> (NextRtCand(old, s, p) # None)
    <2>1. (\E c \in Eligible[s, p] : ~cfg[Prev(s, p, c)] /\ c # cfg[Sel(s, p)])
          <=> (\E c \in Eligible[s, p] : ~old[Prev(s, p, c)] /\ c # old[Sel(s, p)])
      BY <1>1
    <2> QED
      BY <2>1, SelectionFacts
  <1> QED
    BY <1>2 DEF ResAltRight

LEMMA InitConfigFacts ==
  /\ \A s \in Sites, p \in Periods :
       /\ InitConfig[Sel(s, p)] = Default(s, p)
       /\ InitConfig[ResAlt(s, p)] = InitResAlt(s, p)
  /\ \A v \in PrevVars : InitConfig[v] = FALSE
  /\ \A rec : Sound(InitConfig, rec)
  /\ AllRight(InitConfig)
  <1>1. ASSUME NEW s \in Sites, NEW p \in Periods
        PROVE  InitConfig[Sel(s, p)] = Default(s, p)
    <2>1. /\ Sel(s, p) \in SelVars /\ Sel(s, p) \in ConfigVars
          /\ Sel(s, p) \notin ResAltVars /\ Sel(s, p) \notin PrevVars
      BY VarKinds DEF ConfigVars
    <2>2. Sel(s, p)[2] = s /\ Sel(s, p)[3] = p
      BY VarFacts
    <2> QED
      BY <2>1, <2>2 DEF InitConfig, InitSel
  <1>2. ASSUME NEW s \in Sites, NEW p \in Periods
        PROVE  InitConfig[ResAlt(s, p)] = InitResAlt(s, p)
    <2>1. /\ ResAlt(s, p) \in ResAltVars /\ ResAlt(s, p) \in ConfigVars
          /\ ResAlt(s, p) \notin SelVars /\ ResAlt(s, p) \notin PrevVars
      BY VarKinds DEF ConfigVars
    <2>2. ResAlt(s, p)[2] = s /\ ResAlt(s, p)[3] = p
      BY VarFacts
    <2> QED
      BY <2>1, <2>2 DEF InitConfig
  <1>3. ASSUME NEW v \in PrevVars PROVE InitConfig[v] = FALSE
    <2>1. v \in ConfigVars /\ v \notin SelVars /\ v \notin ResAltVars
      BY VarKinds DEF ConfigVars
    <2> QED
      BY <2>1 DEF InitConfig
  <1>4. InitConfig \in [ConfigVars -> Values]
    <2>1. ASSUME NEW v \in ConfigVars PROVE InitConfig[v] \in Values
      <3>1. CASE v \in SelVars
        <4>1. PICK s \in Sites, p \in Periods : v = Sel(s, p)
          BY <3>1, VarKinds
        <4>2. Default(s, p) \in Nat
          <5>1. Default(s, p) \in Cands(s) \cup {None}
            BY SelectionFacts
          <5> QED
            BY <5>1, CandIsNat DEF None
        <4> QED
          BY <1>1, <4>1, <4>2 DEF Values
      <3>2. CASE v \in ResAltVars
        <4>1. PICK s \in Sites, p \in Periods : v = ResAlt(s, p)
          BY <3>2, VarKinds
        <4>2. InitConfig[v] \in BOOLEAN
          BY <1>2, <4>1 DEF InitResAlt
        <4> QED
          BY <4>2 DEF Values
      <3>3. CASE v \in PrevVars
        BY <1>3, <3>3 DEF Values
      <3> QED
        BY <3>1, <3>2, <3>3 DEF ConfigVars
    <2>2. ASSUME NEW v \in ConfigVars
          PROVE  (CASE v \in SelVars    -> InitSel(v[2], v[3])
                    [] v \in ResAltVars -> InitResAlt(v[2], v[3])
                    [] v \in PrevVars   -> FALSE) \in Values
      BY <2>1, Zenon DEF InitConfig
    <2> QED
      BY <2>2, Zenon DEF InitConfig
  <1>5. GoodConfig(InitConfig)
    <2>1. \A s \in Sites, p \in Periods :
            InitConfig[Sel(s, p)] \in Cands(s) \cup {None}
      BY <1>1, SelectionFacts
    <2>2. ASSUME NEW v \in ResAltVars \cup PrevVars
          PROVE  InitConfig[v] \in BOOLEAN
      <3>1. CASE v \in ResAltVars
        <4>1. PICK s \in Sites, p \in Periods : v = ResAlt(s, p)
          BY <3>1, VarKinds
        <4> QED
          BY <1>2, <4>1 DEF InitResAlt
      <3> QED
        BY <1>3, <3>1
    <2> QED
      BY <1>4, <2>1, <2>2 DEF GoodConfig
  <1>6. \A rec : Recoverable(InitConfig, rec)
    BY <1>1, <1>2, <1>3 DEF Recoverable
  <1>7. ASSUME NEW s \in Sites, NEW p \in Periods
        PROVE  ResAltRight(InitConfig, s, p)
    <2>1. Eligible[s, p] \subseteq Cands(s)
      BY EligibleAssumption
    <2>2. \A c \in Eligible[s, p] : InitConfig[Prev(s, p, c)] = FALSE
      BY <1>3, <2>1, VarKinds
    <2>3. NextRtCand(InitConfig, s, p) # None <=> InitResAlt(s, p)
      BY <1>1, <2>2, SelectionFacts DEF InitResAlt
    <2> QED
      BY <1>2, <2>3 DEF ResAltRight
  <1> QED
    BY <1>1, <1>2, <1>3, <1>5, <1>6, <1>7 DEF Sound, AllRight

-------------------------------------------------------------------------------
(* What a step does to the configuration and its log. *)

LEMMA RestoredSet ==
  ASSUME NEW D, NEW V, NEW mem \in [D -> V], NEW m \in [D -> V],
         NEW log \in Seq(Pairs(D, V)), NEW T \in SUBSET D, IsFiniteSet(T),
         \A w \in D : w \notin T => m[w] = mem[w]
  PROVE  /\ log \o SetToSeq({[loc |-> v, val |-> mem[v]] : v \in T})
              \in Seq(Pairs(D, V))
         /\ Restored(m, log \o SetToSeq({[loc |-> v, val |-> mem[v]] : v \in T}))
              = Restored(mem, log)
  <1>1. PICK P : P = {[loc |-> v, val |-> mem[v]] : v \in T}
    OBVIOUS
  <1>2. P \subseteq Pairs(D, V)
    BY <1>1 DEF Pairs
  <1>3. ASSUME NEW v \in T PROVE \E x \in P : x.loc = v
    <2>1. [loc |-> v, val |-> mem[v]] \in P
      BY <1>1
    <2> QED
      BY <2>1
  <1>4. \A x \in P : x.val = mem[x.loc]
    BY <1>1
  <1>5. IsFiniteSet(P)
    <2>1. PICK f : f = [v \in T |-> [loc |-> v, val |-> mem[v]]]
      OBVIOUS
    <2>2. f \in [T -> P] /\ \A x \in P : \E v \in T : f[v] = x
      BY <1>1, <2>1
    <2>3. f \in Surjection(T, P)
      BY <2>2 DEF Surjection
    <2> QED
      BY <2>3, FS_Surjection
  <1>6. PICK add : add = SetToSeq(P)
    OBVIOUS
  <1>7. add \in Seq(P) /\ \A x \in P : \E i \in 1..Len(add) : add[i] = x
    BY <1>5, <1>6, SetToSeqFacts
  <1>8. \A i \in 1..Len(add) : add[i] \in P
    BY <1>7, LenProperties
  <1>9. add \in Seq(Pairs(D, V))
    BY <1>2, <1>7
  <1>10. \A i \in 1..Len(add) : add[i].val = mem[add[i].loc]
    BY <1>4, <1>8
  <1>11. ASSUME NEW w \in D
         PROVE  m[w] = mem[w] \/ \E i \in 1..Len(add) : add[i].loc = w
    <2>1. CASE w \in T
      <3>1. PICK x \in P : x.loc = w
        BY <1>3, <2>1
      <3> QED
        BY <1>7, <3>1
    <2> QED
      BY <2>1
  <1>12. /\ log \o add \in Seq(Pairs(D, V))
         /\ Restored(m, log \o add) = Restored(mem, log)
    <2>1. Saves(D, V, mem, m, add)
      BY <1>9, <1>10, <1>11 DEF Saves
    <2> QED
      BY <2>1, RestoredAdded
  <1> QED
    BY <1>1, <1>6, <1>12

ConfigLog(log) == log \in Seq(Pairs(ConfigVars, Values))

\* The sites of a state of the sites that are in multi-source mode.
IsMulti(st, s) == st[s].selRtCand = None

\* The beginning of an allocation: initCmqFixed and applySel.
LEMMA StartConfig ==
  ASSUME NEW st \in [Sites -> SiteStates], NEW alt \in SUBSET Sites,
         \A s \in Sites : InRange(s, st[s]),
         GoodConfig(config), DOMAIN initLog = Kinds, ConfigLog(initLog.config),
         StartCmqFixed(st, alt)
  PROVE  /\ GoodConfig(config')
         /\ DOMAIN initLog' = Kinds /\ ConfigLog(initLog'.config)
         /\ Restored(config', initLog'.config) = Restored(config, initLog.config)
         /\ \A v \in ConfigVars :
              \/ config'[v] = config[v]
              \/ v \in SelVars /\ config'[v] = site'[v[2]].selRtCand
         /\ \A s \in Sites, p \in Periods :
              \/ config'[Sel(s, p)] = config[Sel(s, p)]
              \/ ~IsMulti(st, s) /\ (Recovery => Sel(s, p) \in recPairs')
         /\ \A v \in ResAltVars \cup PrevVars : config'[v] = config[v]
         /\ recPairs \subseteq recPairs' /\ recPairs' \subseteq recPairs \cup SelVars
         /\ ~Recovery => recPairs' = recPairs
  <1>1. PICK T : T = ToSelect(st, alt)
    OBVIOUS
  <1>2. /\ T \subseteq SelVars
        /\ \A v \in T : st[v[2]].selRtCand # None
    BY <1>1 DEF ToSelect
  <1>3. /\ site' = CurReset(st)
        /\ config' = [v \in ConfigVars |->
                        IF v \in T THEN st[v[2]].selRtCand ELSE config[v]]
        /\ initLog' = [initLog EXCEPT !.config =
             @ \o SetToSeq({[loc |-> v, val |-> config[v]] : v \in T})]
        /\ recPairs' = IF Recovery THEN recPairs \cup T ELSE recPairs
    BY <1>1 DEF StartCmqFixed
  <1>4. /\ SelVars \subseteq ConfigVars /\ SelVars \cap ResAltVars = {}
        /\ SelVars \cap PrevVars = {}
        /\ ResAltVars \cup PrevVars \subseteq ConfigVars
    BY VarKinds DEF ConfigVars
  <1>5. \A v \in ConfigVars : v \notin T => config'[v] = config[v]
    BY <1>3
  <1>6. \A v \in T : config'[v] = st[v[2]].selRtCand
    BY <1>2, <1>3, <1>4
  <1>7. ASSUME NEW s \in Sites, NEW p \in Periods, Sel(s, p) \in T
        PROVE  /\ config'[Sel(s, p)] = st[s].selRtCand
               /\ st[s].selRtCand # None
               /\ st[s].selRtCand \in Cands(s)
    <2>1. Sel(s, p)[2] = s
      BY VarFacts
    <2>2. InRange(s, st[s])
      OBVIOUS
    <2> QED
      BY <1>2, <1>6, <1>7, <2>1, <2>2 DEF InRange
  <1>8. ASSUME NEW v \in T
        PROVE  config'[v] \in Values /\ config'[v] = site'[v[2]].selRtCand
    <2>1. PICK s \in Sites, p \in Periods : v = Sel(s, p)
      BY <1>2, VarKinds
    <2>2. v[2] = s
      BY <2>1, VarFacts
    <2>3. config'[v] = st[s].selRtCand /\ st[s].selRtCand \in Nat
      BY <1>7, <2>1, CandIsNat
    <2>4. site'[s].selRtCand = st[s].selRtCand
      BY <1>3, ResetFacts
    <2> QED
      BY <2>2, <2>3, <2>4 DEF Values
  <1>9. config' \in [ConfigVars -> Values]
    <2>1. \A v \in ConfigVars : config'[v] \in Values
      BY <1>5, <1>8 DEF GoodConfig
    <2>2. config' = [v \in ConfigVars |-> config'[v]]
      BY <1>3
    <2> QED
      BY <2>1, <2>2
  <1>10. \A v \in ResAltVars \cup PrevVars : config'[v] = config[v]
    BY <1>2, <1>4, <1>5
  <1>11. GoodConfig(config')
    <2>1. ASSUME NEW s \in Sites, NEW p \in Periods
          PROVE  config'[Sel(s, p)] \in Cands(s) \cup {None}
      <3>1. Sel(s, p) \in ConfigVars
        BY <1>4, VarKinds
      <3> QED
        BY <1>5, <1>7, <3>1 DEF GoodConfig
    <2> QED
      BY <1>9, <1>10, <2>1 DEF GoodConfig
  <1>12. DOMAIN initLog' = Kinds
    BY <1>3 DEF Kinds
  <1>13. /\ ConfigLog(initLog'.config)
         /\ Restored(config', initLog'.config) = Restored(config, initLog.config)
    <2>1. PICK log : log = initLog.config
      OBVIOUS
    <2>2. initLog'.config =
            log \o SetToSeq({[loc |-> v, val |-> config[v]] : v \in T})
      BY <1>3, <2>1 DEF Kinds
    <2>3. IsFiniteSet(T)
      BY <1>2, SelVarsFinite, FS_Subset
    <2>4. config \in [ConfigVars -> Values] /\ log \in Seq(Pairs(ConfigVars, Values))
      BY <2>1 DEF GoodConfig, ConfigLog
    <2>5. PICK m : m = config'
      OBVIOUS
    <2>6. m \in [ConfigVars -> Values] /\ T \in SUBSET ConfigVars
          /\ \A w \in ConfigVars : w \notin T => m[w] = config[w]
      BY <1>2, <1>4, <1>5, <1>9, <2>5
    <2>7. /\ log \o SetToSeq({[loc |-> v, val |-> config[v]] : v \in T})
               \in Seq(Pairs(ConfigVars, Values))
          /\ Restored(m, log \o SetToSeq({[loc |-> v, val |-> config[v]] : v \in T}))
               = Restored(config, log)
      BY <2>3, <2>4, <2>6, RestoredSet
    <2> QED
      BY <2>1, <2>2, <2>5, <2>7 DEF ConfigLog
  <1>14. \A v \in ConfigVars :
           \/ config'[v] = config[v]
           \/ v \in SelVars /\ config'[v] = site'[v[2]].selRtCand
    BY <1>2, <1>5, <1>8
  <1>15. ASSUME NEW s \in Sites, NEW p \in Periods,
                config'[Sel(s, p)] # config[Sel(s, p)]
         PROVE  ~IsMulti(st, s) /\ (Recovery => Sel(s, p) \in recPairs')
    <2>1. Sel(s, p) \in T
      BY <1>4, <1>5, <1>15, VarKinds
    <2> QED
      BY <1>3, <1>7, <2>1 DEF IsMulti
  <1>16. /\ recPairs \subseteq recPairs' /\ recPairs' \subseteq recPairs \cup SelVars
         /\ ~Recovery => recPairs' = recPairs
    BY <1>2, <1>3
  <1> QED
    BY <1>10, <1>11, <1>12, <1>13, <1>14, <1>15, <1>16

\* alterSelection and select.
LEMMA AlterConfig ==
  ASSUME NEW s \in Sites, NEW p \in Periods, AlterSelection(s, p),
         GoodConfig(config), DOMAIN initLog = Kinds, ConfigLog(initLog.config)
  PROVE  /\ GoodConfig(config')
         /\ DOMAIN initLog' = Kinds /\ ConfigLog(initLog'.config)
         /\ Restored(config', initLog'.config) = Restored(config, initLog.config)
         /\ ResAltRight(config', s, p)
         /\ \E c \in Cands(s) :
              /\ \A v \in ConfigVars :
                   \/ config'[v] = config[v]
                   \/ v \in {Sel(s, p), ResAlt(s, p), Prev(s, p, c)}
              /\ recPairs' = IF Recovery
                             THEN recPairs \cup {Sel(s, p), Prev(s, p, c)}
                             ELSE recPairs
  <1>1. PICK c : c = config[Sel(s, p)]
    OBVIOUS
  <1>2. /\ AltPt(s, p)
        /\ config' = Altered(s, p)
        /\ initLog' =
             [initLog EXCEPT !.config =
                @ \o [i \in DOMAIN AlteredVars(s, p) |->
                        [loc |-> AlteredVars(s, p)[i],
                         val |-> config[AlteredVars(s, p)[i]]]]]
        /\ recPairs' = IF Recovery THEN recPairs \cup {Sel(s, p), Prev(s, p, c)}
                       ELSE recPairs
    BY <1>1 DEF AlterSelection, PairsOf
  <1>3. c \in Cands(s)
    BY <1>1, <1>2 DEF AltPt, GoodConfig
  <1>4. PICK pr, sl, ra : pr = Prev(s, p, c) /\ sl = Sel(s, p) /\ ra = ResAlt(s, p)
    OBVIOUS
  <1>5. /\ pr \in ConfigVars /\ sl \in ConfigVars /\ ra \in ConfigVars
        /\ pr # sl /\ pr # ra /\ sl # ra
    <2>1. pr \in ConfigVars /\ sl \in ConfigVars /\ ra \in ConfigVars
      BY <1>3, <1>4, VarKinds DEF ConfigVars
    <2> QED
      BY <1>4, <2>1, VarFacts
  <1>6. PICK a : a = [config EXCEPT ![pr] = TRUE]
    OBVIOUS
  <1>7. PICK n1 : n1 = NextRtCand(a, s, p)
    OBVIOUS
  <1>8. PICK b : b = [a EXCEPT ![sl] = n1]
    OBVIOUS
  <1>9. PICK n2 \in BOOLEAN : n2 = (NextRtCand(b, s, p) # None)
    OBVIOUS
  <1>10. config' = [b EXCEPT ![ra] = n2]
    BY <1>1, <1>2, <1>4, <1>6, <1>7, <1>8, <1>9 DEF Altered
  <1>11. config \in [ConfigVars -> Values]
    BY DEF GoodConfig
  <1>12. /\ TRUE \in Values /\ n2 \in Values
         /\ n1 \in Cands(s) \cup {None} /\ n1 \in Values
    <2>1. n1 \in Cands(s) \cup {None}
      BY <1>7, SelectionFacts
    <2>2. n1 \in Nat
      BY <2>1, CandIsNat DEF None
    <2> QED
      BY <2>1, <2>2 DEF Values
  <1>13. PICK m : m = config'
    OBVIOUS
  <1>14. /\ m \in [ConfigVars -> Values]
         /\ m[pr] = TRUE /\ m[sl] = n1 /\ m[ra] = n2
         /\ \A v \in ConfigVars : v \notin {sl, ra, pr} => m[v] = config[v]
    <2>1. /\ a \in [ConfigVars -> Values] /\ a[pr] = TRUE
          /\ \A v \in ConfigVars : v # pr => a[v] = config[v]
      BY <1>5, <1>6, <1>11, <1>12
    <2>2. /\ b \in [ConfigVars -> Values] /\ b[pr] = TRUE /\ b[sl] = n1
          /\ \A v \in ConfigVars : v # pr /\ v # sl => b[v] = config[v]
      BY <1>5, <1>8, <1>12, <2>1
    <2>3. m = [b EXCEPT ![ra] = n2]
      BY <1>10, <1>13
    <2> QED
      BY <1>5, <1>12, <2>2, <2>3
  <1>15. ResAltRight(m, s, p)
    <2>1. \A d \in Cands(s) : /\ Prev(s, p, d) \in ConfigVars
                              /\ Prev(s, p, d) # ra /\ Prev(s, p, d) # sl
      <3>1. \A d \in Cands(s) : Prev(s, p, d) \in ConfigVars
        BY VarKinds DEF ConfigVars
      <3>2. \A d : Sel(s, p) # Prev(s, p, d) /\ ResAlt(s, p) # Prev(s, p, d)
        BY VarFacts
      <3> QED
        BY <1>4, <3>1, <3>2
    <2>2. b \in [ConfigVars -> Values]
      <3>1. a \in [ConfigVars -> Values]
        BY <1>5, <1>6, <1>11, <1>12
      <3> QED
        BY <1>5, <1>8, <1>12, <3>1
    <2>3. m = [b EXCEPT ![ra] = n2]
      BY <1>10, <1>13
    <2>4. m[sl] = b[sl] /\ \A d \in Cands(s) : m[Prev(s, p, d)] = b[Prev(s, p, d)]
      BY <1>5, <2>1, <2>2, <2>3
    <2>5. Eligible[s, p] \subseteq Cands(s)
      BY EligibleAssumption
    <2>6. (\E d \in Eligible[s, p] : ~m[Prev(s, p, d)] /\ d # m[sl])
          <=> (\E d \in Eligible[s, p] : ~b[Prev(s, p, d)] /\ d # b[sl])
      BY <2>4, <2>5
    <2>7. NextRtCand(m, s, p) # None <=> NextRtCand(b, s, p) # None
      BY <1>4, <2>6, SelectionFacts
    <2> QED
      BY <1>4, <1>9, <1>14, <2>7 DEF ResAltRight
  <1>16. GoodConfig(m)
    <2>1. ASSUME NEW t \in Sites, NEW q \in Periods
          PROVE  m[Sel(t, q)] \in Cands(t) \cup {None}
      <3>1. CASE Sel(t, q) = sl
        <4>1. t = s /\ q = p
          BY <1>4, <3>1, VarFacts
        <4> QED
          BY <1>12, <1>14, <3>1, <4>1
      <3>2. CASE Sel(t, q) # sl
        <4>1. Sel(t, q) # ra /\ Sel(t, q) # pr
          BY <1>4, VarFacts
        <4>2. Sel(t, q) \in ConfigVars
          BY VarKinds DEF ConfigVars
        <4> QED
          BY <1>14, <3>2, <4>1, <4>2 DEF GoodConfig
      <3> QED
        BY <3>1, <3>2
    <2>2. ASSUME NEW v \in ResAltVars \cup PrevVars PROVE m[v] \in BOOLEAN
      <3>1. v \in ConfigVars /\ v # sl
        BY <1>4, VarKinds DEF ConfigVars
      <3>2. CASE v = pr \/ v = ra
        BY <1>9, <1>14, <3>2
      <3>3. CASE v # pr /\ v # ra
        <4>1. m[v] = config[v]
          BY <1>14, <3>1, <3>3
        <4> QED
          BY <4>1 DEF GoodConfig
      <3> QED
        BY <3>2, <3>3
    <2> QED
      BY <1>14, <2>1, <2>2 DEF GoodConfig
  <1>17. PICK add : add = [i \in DOMAIN AlteredVars(s, p) |->
                             [loc |-> AlteredVars(s, p)[i],
                              val |-> config[AlteredVars(s, p)[i]]]]
    OBVIOUS
  <1>18. /\ add \in Seq(Pairs(ConfigVars, Values)) /\ Len(add) = 3
         /\ \A i \in 1..Len(add) : add[i].val = config[add[i].loc]
         /\ add[1].loc = ra /\ add[2].loc = pr /\ add[3].loc = sl
    <2>1. PICK av : av = AlteredVars(s, p)
      OBVIOUS
    <2>2. av = <<ra, pr, sl>>
      BY <1>1, <1>4, <2>1 DEF AlteredVars
    <2>3. /\ DOMAIN av = 1..3 /\ av[1] = ra /\ av[2] = pr /\ av[3] = sl
          /\ \A i \in 1..3 : av[i] \in ConfigVars
      BY <1>5, <2>2
    <2>4. add = [i \in 1..3 |-> [loc |-> av[i], val |-> config[av[i]]]]
      BY <1>17, <2>1, <2>3
    <2>5. \A i \in 1..3 : add[i] \in Pairs(ConfigVars, Values)
      BY <1>11, <2>3, <2>4 DEF Pairs
    <2>6. add \in [1..3 -> Pairs(ConfigVars, Values)]
      BY <2>4, <2>5
    <2>7. add \in Seq(Pairs(ConfigVars, Values)) /\ Len(add) = 3
      <3>1. PICK n : n = 3
        OBVIOUS
      <3>2. n \in Nat /\ add \in [1..n -> Pairs(ConfigVars, Values)]
        BY <2>6, <3>1
      <3>3. add \in Seq(Pairs(ConfigVars, Values)) /\ Len(add) = n
        BY <3>2
      <3> QED
        BY <3>1, <3>3
    <2> QED
      BY <2>3, <2>4, <2>7
  <1>19. PICK log : log = initLog.config
    OBVIOUS
  <1>20. /\ log \o add \in Seq(Pairs(ConfigVars, Values))
         /\ Restored(m, log \o add) = Restored(config, log)
    <2>1. \A w \in ConfigVars :
            m[w] = config[w] \/ \E i \in 1..Len(add) : add[i].loc = w
      BY <1>14, <1>18
    <2>2. log \in Seq(Pairs(ConfigVars, Values))
      BY <1>19 DEF ConfigLog
    <2>3. Saves(ConfigVars, Values, config, m, add)
      BY <1>18, <2>1 DEF Saves
    <2> QED
      BY <1>11, <1>14, <2>2, <2>3, RestoredAdded
  <1>21. DOMAIN initLog' = Kinds /\ initLog'.config = log \o add
    BY <1>2, <1>17, <1>19 DEF Kinds
  <1> QED
    BY <1>2, <1>3, <1>4, <1>13, <1>14, <1>15, <1>16, <1>19, <1>20, <1>21
    DEF ConfigLog

-------------------------------------------------------------------------------
(* The invariant about the configuration. *)

\* There is an incumbent, whose selections the second log leads to.
HasIncumb == pc = "loop" \/ (pc = "alloc" /\ testing # NoSite)

ConfigUndoes ==
  /\ ConfigLog(initLog.config) /\ ConfigLog(incumbLog.config)
  /\ pc = "alloc" => Restored(config, initLog.config) = hist.start.config
  /\ pc = "loop" => config = hist.start.config
  /\ pc # "alloc" => initLog = EmptyLogs
  /\ HasIncumb =>
       Restored(hist.start.config, incumbLog.config) = hist.best.config
  /\ ~HasIncumb => incumbLog = EmptyLogs
  /\ ConfigurationIsKept
  /\ TrialsStartAfresh

SelectionsRight ==
  /\ recPairs \subseteq SelVars \cup PrevVars
  /\ Sound(config, recPairs)
  /\ pc # "idle" => /\ Sound(hist.start.config, recPairs)
                    /\ AllRight(hist.start.config)
  /\ HasIncumb => /\ Sound(hist.best.config, recPairs)
                  /\ pureMs => AllRight(hist.best.config)
  /\ ResAltIsCurrent

ConfInv == ConfigUndoes /\ SelectionsRight

LEMMA RightCurrent ==
  ASSUME NEW s \in Sites, NEW p \in Periods
  PROVE  /\ ResAltIsCurrent /\ IsMulti(site, s) => ResAltRight(config, s, p)
         /\ AllRight(config) => ResAltIsCurrent
  BY DEF ResAltIsCurrent, ResAltRight, IsMulti, SglSrcMode, AllRight

LEMMA InitConf == Init => ConfInv
  <1> SUFFICES ASSUME Init PROVE ConfInv
    OBVIOUS
  <1>1. /\ pc = "idle" /\ hist = NoHistory /\ config = InitConfig
        /\ recPairs = {} /\ initLog = EmptyLogs /\ incumbLog = EmptyLogs
    BY DEF Init
  <1>2. /\ ~HasIncumb /\ hist.full = FALSE
        /\ initLog.config = <<>> /\ incumbLog.config = <<>>
    BY <1>1 DEF HasIncumb, NoHistory, EmptyLogs
  <1>3. ConfigUndoes
    BY <1>1, <1>2
    DEF ConfigUndoes, ConfigLog, ConfigurationIsKept, TrialsStartAfresh
  <1>4. Sound(config, recPairs) /\ AllRight(config)
    BY <1>1, InitConfigFacts
  <1>5. ResAltIsCurrent
    BY <1>4 DEF ResAltIsCurrent, ResAltRight, AllRight
  <1> QED
    BY <1>1, <1>2, <1>3, <1>4, <1>5 DEF ConfInv, SelectionsRight

\* Recovery pairs that are added do no harm.
LEMMA SoundGrows ==
  ASSUME NEW cfg, NEW rec, NEW more, Sound(cfg, rec), rec \subseteq more
  PROVE  Sound(cfg, more)
  BY DEF Sound, Recoverable

\* Steps that do not concern the configuration.
LEMMA ConfFrame ==
  ASSUME UndoInv, ConfInv, TrialsStartAfresh',
         UNCHANGED <<pc, testing, config, recPairs, incumbLog>>,
         initLog'.config = initLog.config, pc # "alloc" => initLog' = initLog,
         hist'.start = hist.start, hist'.best = hist.best,
         hist'.full = hist.full \/ hist'.full = FALSE,
         pureMs' => pureMs, pc = "idle" => pureMs' = pureMs,
         \A s \in Sites : IsMulti(site', s) => IsMulti(site, s)
  PROVE  ConfInv'
  <1>1. HasIncumb' = HasIncumb
    BY DEF HasIncumb
  <1>2. ConfigurationIsKept'
    BY DEF ConfInv, ConfigUndoes, ConfigurationIsKept
  <1>3. ConfigUndoes'
    BY <1>1, <1>2 DEF ConfInv, ConfigUndoes
  <1>4. ResAltIsCurrent'
    BY DEF ConfInv, SelectionsRight, ResAltIsCurrent, IsMulti, SglSrcMode
  <1>5. SelectionsRight'
    BY <1>1, <1>4 DEF ConfInv, SelectionsRight
  <1> QED
    BY <1>3, <1>5 DEF ConfInv

LEMMA ExplodeConf ==
  ASSUME IInv, UndoInv, LoopInv, ConfInv,
         NEW s \in Sites, NEW p \in Periods, NEW c \in Cands(s),
         \/ TempExplode(s, p, c)
         \/ \E new \in BOOLEAN : PermExplode(s, p, c, new)
  PROVE  ConfInv'
  <1>1. /\ UNCHANGED <<pc, testing, config, recPairs, incumbLog, hist, pureMs>>
        /\ pc = "alloc"
        /\ steps < MaxSteps /\ steps' = steps + 1
    BY DEF TempExplode, PermExplode, InAlloc, memory, logs
  <1>2. initLog'.config = initLog.config
    <2>1. CASE TempExplode(s, p, c)
      BY <2>1 DEF TempExplode, logs
    <2>2. CASE \E new \in BOOLEAN : PermExplode(s, p, c, new)
      BY <2>2 DEF PermExplode, UndoInv, LogTypes, Kinds
    <2> QED
      BY <2>1, <2>2
  <1>3. TrialsStartAfresh'
    <2>1. steps' # 0
      BY <1>1 DEF LoopInv, Scalars
    <2> QED
      BY <2>1 DEF TrialsStartAfresh
  <1>4. ASSUME NEW t \in Sites PROVE IsMulti(site', t) => IsMulti(site, t)
    <2>1. site \in [Sites -> SiteStates] /\ site[t] \in SiteStates
      BY DEF IInv, Types
    <2>2. CASE TempExplode(s, p, c)
      <3>1. site' = [site EXCEPT ![s].curUnique = Unique(s, c),
                                 ![s].curVisited = TRUE]
        BY <2>2 DEF TempExplode
      <3> QED
        BY <2>1, <3>1 DEF IsMulti, SiteStates
    <2>3. CASE \E new \in BOOLEAN : PermExplode(s, p, c, new)
      <3>1. PICK idx : site' = [site EXCEPT ![s] = Visited(s, c, idx)]
        BY <2>3 DEF PermExplode
      <3>2. Visited(s, c, idx).selRtCand = site[s].selRtCand
        BY <2>1 DEF IInv, Types, SiteStates, Visited
      <3> QED
        BY <2>1, <3>1, <3>2 DEF IsMulti
    <2> QED
      BY <2>2, <2>3
  <1> QED
    BY <1>1, <1>2, <1>3, <1>4, ConfFrame

LEMMA SelectDiscoveryConf ==
  ASSUME IInv, UndoInv, LoopInv, ConfInv, NEW s \in Sites, SelectDiscovery(s)
  PROVE  ConfInv'
  <1>1. /\ UNCHANGED <<pc, testing, config, recPairs, incumbLog, initLog, hist>>
        /\ pc = "loop" /\ IsNextOpp(s) /\ site' = Selected(s) /\ pureMs' = FALSE
    BY DEF SelectDiscovery, IsNextOpp, memory, logs
  <1>2. TrialsStartAfresh'
    BY <1>1 DEF TrialsStartAfresh
  <1>3. \A t \in Sites : IsMulti(site', t) => IsMulti(site, t)
    BY <1>1, SelectedFacts DEF IsMulti
  <1> QED
    BY <1>1, <1>2, <1>3, ConfFrame

\* The beginning of an allocation.
LEMMA StartConf ==
  ASSUME UndoInv, ConfInv, UndoInv',
         NEW st \in [Sites -> SiteStates], NEW alt \in SUBSET Sites,
         \A s \in Sites : InRange(s, st[s]) /\ (IsMulti(st, s) => IsMulti(site, s)),
         pc = "idle" \/ pc = "loop",
         StartCmqFixed(st, alt), UNCHANGED <<alloc, incumbLog>>,
         hist'.start.config = config, hist'.start.alloc = alloc,
         AllRight(config),
         HasIncumb' => HasIncumb /\ hist'.best = hist.best /\ (pureMs' => pureMs),
         ~HasIncumb' => ~HasIncumb
  PROVE  ConfInv'
  <1>1. /\ GoodConfig(config) /\ DOMAIN initLog = Kinds
        /\ ConfigLog(initLog.config) /\ initLog.config = <<>>
        /\ Sound(config, recPairs)
    BY DEF ConfInv, ConfigUndoes, EmptyLogs, SelectionsRight, Sound, UndoInv,
           LogTypes
  <1>2. /\ GoodConfig(config')
        /\ DOMAIN initLog' = Kinds /\ ConfigLog(initLog'.config)
        /\ Restored(config', initLog'.config) = Restored(config, initLog.config)
        /\ \A v \in ConfigVars :
             \/ config'[v] = config[v]
             \/ v \in SelVars /\ config'[v] = site'[v[2]].selRtCand
        /\ \A s \in Sites, p \in Periods :
             \/ config'[Sel(s, p)] = config[Sel(s, p)]
             \/ ~IsMulti(st, s) /\ (Recovery => Sel(s, p) \in recPairs')
        /\ \A v \in ResAltVars \cup PrevVars : config'[v] = config[v]
        /\ recPairs \subseteq recPairs' /\ recPairs' \subseteq recPairs \cup SelVars
    BY <1>1, StartConfig
  <1>3. pc' = "alloc" /\ site' = CurReset(st)
    BY DEF StartCmqFixed
  <1>4. \A s \in Sites : IsMulti(site', s) => IsMulti(st, s)
    BY <1>3, ResetFacts DEF IsMulti
  <1>5. Restored(config, <<>>) = config
    BY <1>1, RestoredEmpty DEF GoodConfig
  <1>6. TrialsStartAfresh'
    BY <1>2 DEF TrialsStartAfresh
  <1>7. HasIncumb => Restored(hist.start.config, incumbLog.config) = hist.best.config
    BY DEF ConfInv, ConfigUndoes
  <1>8. HasIncumb => config = hist.start.config
    BY DEF ConfInv, ConfigUndoes, HasIncumb
  <1>9. ConfigUndoes'
    <2>1. ConfigurationIsKept'
      BY <1>3 DEF ConfigurationIsKept
    <2>2. ~HasIncumb' => incumbLog' = EmptyLogs
      BY DEF ConfInv, ConfigUndoes
    <2>3. ConfigLog(incumbLog'.config)
      BY DEF ConfInv, ConfigUndoes
    <2>4. Restored(config', initLog'.config) = hist'.start.config
      BY <1>1, <1>2, <1>5
    <2>5. HasIncumb' =>
            Restored(hist'.start.config, incumbLog'.config) = hist'.best.config
      BY <1>7, <1>8
    <2> QED
      BY <1>2, <1>3, <1>6, <2>1, <2>2, <2>3, <2>4, <2>5 DEF ConfigUndoes
  <1>10. ASSUME Recovery PROVE Recoverable(config', recPairs')
    <2>1. Recoverable(config, recPairs)
      BY <1>1, <1>10 DEF Sound
    <2>2. ASSUME NEW s \in Sites, NEW p \in Periods, Sel(s, p) \notin recPairs'
          PROVE  /\ config'[Sel(s, p)] = Default(s, p)
                 /\ config'[ResAlt(s, p)] = InitResAlt(s, p)
      <3>1. Sel(s, p) \notin recPairs
        BY <1>2, <2>2
      <3>2. config'[Sel(s, p)] = config[Sel(s, p)]
        BY <1>2, <1>10, <2>2
      <3>3. config'[ResAlt(s, p)] = config[ResAlt(s, p)]
        BY <1>2, VarKinds
      <3> QED
        BY <2>1, <3>1, <3>2, <3>3 DEF Recoverable
    <2>3. ASSUME NEW v \in PrevVars, v \notin recPairs' PROVE config'[v] = FALSE
      <3>1. v \notin recPairs /\ config'[v] = config[v]
        BY <1>2, <2>3
      <3> QED
        BY <2>1, <3>1 DEF Recoverable
    <2> QED
      BY <2>2, <2>3 DEF Recoverable
  <1>11. Sound(config', recPairs')
    BY <1>2, <1>10 DEF Sound
  <1>12. Sound(config, recPairs')
    BY <1>1, <1>2, SoundGrows
  <1>13. HasIncumb' => /\ Sound(hist'.best.config, recPairs')
                       /\ pureMs' => AllRight(hist'.best.config)
    <2>1. HasIncumb => /\ Sound(hist.best.config, recPairs)
                       /\ pureMs => AllRight(hist.best.config)
      BY DEF ConfInv, SelectionsRight
    <2> QED
      BY <1>2, <2>1, SoundGrows
  <1>14. ResAltIsCurrent'
    <2>1. ASSUME NEW s \in Sites, NEW p \in Periods, IsMulti(site', s)
          PROVE  ResAltRight(config', s, p)
      <3>1. config'[Sel(s, p)] = config[Sel(s, p)]
        BY <1>2, <1>4, <2>1
      <3>2. /\ config'[ResAlt(s, p)] = config[ResAlt(s, p)]
            /\ \A c \in Cands(s) : config'[Prev(s, p, c)] = config[Prev(s, p, c)]
        BY <1>2, VarKinds
      <3>3. ResAltRight(config, s, p)
        BY DEF AllRight
      <3> QED
        BY <3>1, <3>2, <3>3, RightFrame
    <2> QED
      BY <2>1 DEF ResAltIsCurrent, ResAltRight, IsMulti, SglSrcMode
  <1>15. recPairs' \subseteq SelVars \cup PrevVars
    BY <1>2 DEF ConfInv, SelectionsRight
  <1>16. SelectionsRight'
    BY <1>3, <1>11, <1>12, <1>13, <1>14, <1>15 DEF SelectionsRight
  <1> QED
    BY <1>9, <1>16 DEF ConfInv

LEMMA CommitMaxQtyConf ==
  ASSUME IInv, UndoInv, LoopInv, ConfInv, UndoInv', CommitMaxQty PROVE ConfInv'
  <1>1. /\ pc = "idle" /\ testing' = NoSite /\ pc' = "alloc"
        /\ StartCmqFixed(site, altered) /\ UNCHANGED <<alloc, incumbLog>>
        /\ hist' = [hist EXCEPT !.tested = {}, !.full = FALSE,
                       !.start = [alloc |-> alloc, config |-> config]]
    BY DEF CommitMaxQty, StartCmqFixed
  <1>2. hist'.start.config = config /\ hist'.start.alloc = alloc
    BY <1>1 DEF UndoInv, LogTypes, Records
  <1>3. \A s \in Sites : site[s].selRtCand = None
    BY <1>1 DEF IInv, AlteredInCall, LoopInv
  <1>4. AllRight(config)
    BY <1>3, RightCurrent DEF AllRight, ConfInv, SelectionsRight, IsMulti
  <1>5. ~HasIncumb' /\ ~HasIncumb
    BY <1>1 DEF HasIncumb
  <1>6. /\ site \in [Sites -> SiteStates] /\ altered \in SUBSET Sites
        /\ \A s \in Sites : InRange(s, site[s])
    BY DEF IInv, Types, LoopInv
  <1> QED
    BY <1>1, <1>2, <1>4, <1>5, <1>6, StartConf

LEMMA TryNextCandConf ==
  ASSUME IInv, UndoInv, LoopInv, ConfInv, UndoInv', NEW s \in Sites,
         TryNextCand(s)
  PROVE  ConfInv'
  <1>1. /\ pc = "loop" /\ testing' = s /\ pc' = "alloc" /\ IsNextOpp(s)
        /\ StartCmqFixed(Selected(s), altered \cup {s})
        /\ UNCHANGED <<alloc, incumbLog, pureMs>>
        /\ hist' = [hist EXCEPT !.tested = @ \cup {<<s, site[s].next>>}]
    BY DEF TryNextCand, StartCmqFixed, IsNextOpp
  <1>2. hist'.start = hist.start /\ hist'.best = hist.best
    BY <1>1 DEF UndoInv, LogTypes, Records
  <1>3. hist'.start.config = config /\ hist'.start.alloc = alloc
    BY <1>1, <1>2 DEF ConfInv, ConfigUndoes, UndoInv, InitLogUndoes
  <1>4. AllRight(config)
    BY <1>1 DEF ConfInv, SelectionsRight, ConfigUndoes
  <1>5. HasIncumb' /\ HasIncumb
    BY <1>1, NoSiteAssumption DEF HasIncumb
  <1>6. /\ Selected(s) \in [Sites -> SiteStates]
        /\ altered \cup {s} \in SUBSET Sites
        /\ \A t \in Sites : InRange(t, Selected(s)[t])
        /\ \A t \in Sites : IsMulti(Selected(s), t) => IsMulti(site, t)
    BY <1>1, SelectedFacts DEF IInv, Types, IsMulti
  <1> QED
    BY <1>1, <1>2, <1>3, <1>4, <1>5, <1>6, StartConf

LEMMA AlterSelectionConf ==
  ASSUME IInv, UndoInv, LoopInv, ConfInv, NEW s \in Sites, NEW p \in Periods,
         AlterSelection(s, p)
  PROVE  ConfInv'
  <1>1. /\ pc = "alloc" /\ steps' = steps + 1
        /\ UNCHANGED <<pc, testing, incumbLog, hist, pureMs, site>>
    BY DEF AlterSelection, InAlloc
  <1>2. /\ GoodConfig(config) /\ DOMAIN initLog = Kinds
        /\ ConfigLog(initLog.config)
    BY DEF ConfInv, ConfigUndoes, SelectionsRight, Sound, UndoInv, LogTypes
  <1>3. /\ GoodConfig(config')
        /\ ConfigLog(initLog'.config)
        /\ Restored(config', initLog'.config) = Restored(config, initLog.config)
        /\ ResAltRight(config', s, p)
    BY <1>2, AlterConfig
  <1>4. PICK c \in Cands(s) :
          /\ \A v \in ConfigVars :
               \/ config'[v] = config[v]
               \/ v \in {Sel(s, p), ResAlt(s, p), Prev(s, p, c)}
          /\ recPairs' = IF Recovery THEN recPairs \cup {Sel(s, p), Prev(s, p, c)}
                         ELSE recPairs
    BY <1>2, AlterConfig
  <1>5. recPairs \subseteq recPairs'
    BY <1>4
  <1>6. HasIncumb' = HasIncumb
    BY <1>1 DEF HasIncumb
  <1>7. ConfigUndoes'
    <2>1. steps' # 0
      BY <1>1 DEF LoopInv, Scalars
    <2>2. TrialsStartAfresh'
      BY <2>1 DEF TrialsStartAfresh
    <2>3. ConfigurationIsKept'
      BY <1>1 DEF ConfigurationIsKept
    <2> QED
      BY <1>1, <1>3, <1>6, <2>2, <2>3 DEF ConfInv, ConfigUndoes
  <1>8. ASSUME NEW t \in Sites, NEW q \in Periods, <<t, q>> # <<s, p>>
        PROVE  /\ config'[Sel(t, q)] = config[Sel(t, q)]
               /\ config'[ResAlt(t, q)] = config[ResAlt(t, q)]
               /\ \A d \in Cands(t) : config'[Prev(t, q, d)] = config[Prev(t, q, d)]
    <2>1. /\ Sel(t, q) \in ConfigVars /\ ResAlt(t, q) \in ConfigVars
          /\ \A d \in Cands(t) : Prev(t, q, d) \in ConfigVars
      BY VarKinds DEF ConfigVars
    <2>2. Sel(t, q) \notin {Sel(s, p), ResAlt(s, p), Prev(s, p, c)}
      BY <1>8, VarFacts
    <2>3. ResAlt(t, q) \notin {Sel(s, p), ResAlt(s, p), Prev(s, p, c)}
      BY <1>8, VarFacts
    <2>4. ASSUME NEW d \in Cands(t)
          PROVE  Prev(t, q, d) \notin {Sel(s, p), ResAlt(s, p), Prev(s, p, c)}
      <3>1. Prev(t, q, d) # Sel(s, p) /\ Prev(t, q, d) # ResAlt(s, p)
        BY VarFacts
      <3>2. Prev(t, q, d) # Prev(s, p, c)
        BY <1>8, VarFacts
      <3> QED
        BY <3>1, <3>2
    <2> QED
      BY <1>4, <2>1, <2>2, <2>3, <2>4
  <1>9. ASSUME Recovery PROVE Recoverable(config', recPairs')
    <2>1. Recoverable(config, recPairs)
      BY <1>9 DEF ConfInv, SelectionsRight, Sound
    <2>2. ASSUME NEW t \in Sites, NEW q \in Periods, Sel(t, q) \notin recPairs'
          PROVE  /\ config'[Sel(t, q)] = Default(t, q)
                 /\ config'[ResAlt(t, q)] = InitResAlt(t, q)
      <3>1. Sel(t, q) # Sel(s, p) /\ Sel(t, q) \notin recPairs
        BY <1>4, <1>9, <2>2
      <3>2. <<t, q>> # <<s, p>>
        BY <3>1
      <3> QED
        BY <1>8, <2>1, <3>1, <3>2 DEF Recoverable
    <2>3. ASSUME NEW v \in PrevVars, v \notin recPairs' PROVE config'[v] = FALSE
      <3>1. v \notin recPairs /\ v # Prev(s, p, c)
        BY <1>4, <1>9, <2>3
      <3>2. v \in ConfigVars /\ v # Sel(s, p) /\ v # ResAlt(s, p)
        BY VarKinds DEF ConfigVars
      <3> QED
        BY <1>4, <2>1, <3>1, <3>2 DEF Recoverable
    <2> QED
      BY <2>2, <2>3 DEF Recoverable
  <1>10. Sound(config', recPairs')
    BY <1>3, <1>9 DEF Sound
  <1>11. /\ Sound(hist.start.config, recPairs') /\ AllRight(hist.start.config)
         /\ HasIncumb => Sound(hist.best.config, recPairs')
    BY <1>1, <1>5, SoundGrows DEF ConfInv, SelectionsRight
  <1>12. ResAltIsCurrent'
    <2>1. ASSUME NEW t \in Sites, NEW q \in Periods, IsMulti(site, t)
          PROVE  ResAltRight(config', t, q)
      <3>1. CASE <<t, q>> = <<s, p>>
        BY <1>3, <3>1
      <3>2. CASE <<t, q>> # <<s, p>>
        <4>1. ResAltRight(config, t, q)
          BY <2>1, RightCurrent DEF ConfInv, SelectionsRight
        <4> QED
          BY <1>8, <3>2, <4>1, RightFrame
      <3> QED
        BY <3>1, <3>2
    <2> QED
      BY <1>1, <2>1 DEF ResAltIsCurrent, ResAltRight, IsMulti, SglSrcMode
  <1>13. recPairs' \subseteq SelVars \cup PrevVars
    <2>1. Sel(s, p) \in SelVars /\ Prev(s, p, c) \in PrevVars
      BY VarKinds
    <2>2. recPairs \subseteq SelVars \cup PrevVars
      BY DEF ConfInv, SelectionsRight
    <2> QED
      BY <1>4, <2>1, <2>2
  <1>14. SelectionsRight'
    BY <1>1, <1>6, <1>10, <1>11, <1>12, <1>13 DEF ConfInv, SelectionsRight
  <1> QED
    BY <1>7, <1>14 DEF ConfInv

\* A success: what was restored is the configuration that the call found, and
\* the log of the restoring leads to the one of the new incumbent.
LEMMA SuccessConf ==
  ASSUME IInv, UndoInv, LoopInv, ConfInv, pc = "alloc", SaveCurAsIncumb,
         pc' = "loop", UNCHANGED recPairs,
         pureMs' => pureMs /\ altered = {}
  PROVE  ConfInv'
  <1>1. /\ config' = Restored(config, initLog.config)
        /\ incumbLog' = [alloc  |-> Swapped(alloc, initLog.alloc),
                         config |-> Swapped(config, initLog.config)]
        /\ initLog' = EmptyLogs
        /\ hist' = [hist EXCEPT !.best = [alloc |-> alloc, config |-> config]]
    BY DEF SaveCurAsIncumb
  <1>2. /\ hist'.start = hist.start /\ hist'.best.config = config
        /\ hist'.full = hist.full
    BY <1>1 DEF UndoInv, LogTypes, Records
  <1>3. config' = hist.start.config
    BY <1>1 DEF ConfInv, ConfigUndoes
  <1>4. config \in [ConfigVars -> Values]
        /\ initLog.config \in Seq(Pairs(ConfigVars, Values))
    BY DEF ConfInv, ConfigUndoes, ConfigLog, SelectionsRight, Sound, GoodConfig
  <1>5. /\ incumbLog'.config \in Seq(Pairs(ConfigVars, Values))
        /\ Restored(config', incumbLog'.config) = config
    <2>1. PICK log : log = initLog.config
      OBVIOUS
    <2>2. log \in Seq(Pairs(ConfigVars, Values))
      BY <1>4, <2>1
    <2>3. /\ Swapped(config, log) \in Seq(Pairs(ConfigVars, Values))
          /\ Restored(Restored(config, log), Swapped(config, log)) = config
      BY <1>4, <2>2, RestoredSwapped
    <2> QED
      BY <1>1, <2>1, <2>3
  <1>6. HasIncumb' /\ initLog'.config = <<>>
    BY <1>1 DEF HasIncumb, EmptyLogs
  <1>7. ConfigUndoes'
    <2>1. ConfigLog(initLog'.config) /\ ConfigLog(incumbLog'.config)
      BY <1>5, <1>6 DEF ConfigLog
    <2>2. ConfigurationIsKept' /\ TrialsStartAfresh'
      BY DEF ConfigurationIsKept, TrialsStartAfresh
    <2> QED
      BY <1>1, <1>2, <1>3, <1>5, <1>6, <2>1, <2>2 DEF ConfigUndoes
  <1>8. /\ Sound(config, recPairs) /\ Sound(hist.start.config, recPairs)
        /\ AllRight(hist.start.config)
    BY DEF ConfInv, SelectionsRight
  <1>9. pureMs' => AllRight(config)
    <2>1. ASSUME pureMs' PROVE AllRight(config)
      <3>1. \A s \in Sites : IsMulti(site, s)
        BY <2>1 DEF LoopInv, IsMulti
      <3> QED
        BY <3>1, RightCurrent DEF AllRight, ConfInv, SelectionsRight
    <2> QED
      BY <2>1
  <1>10. ResAltIsCurrent'
    BY <1>3, <1>8 DEF ResAltIsCurrent, AllRight, ResAltRight
  <1>11. SelectionsRight'
    BY <1>2, <1>3, <1>8, <1>9, <1>10 DEF SelectionsRight, ConfInv
  <1> QED
    BY <1>7, <1>11 DEF ConfInv

LEMMA EndAllocConf ==
  ASSUME IInv, UndoInv, LoopInv, ConfInv, EndAlloc PROVE ConfInv'
  <1>1. CASE MsAllocIsFull
    <2>1. /\ pc = "alloc" /\ testing = NoSite /\ SaveCurAsIncumb /\ pc' = "loop"
          /\ UNCHANGED <<recPairs, pureMs>>
      BY <1>1 DEF MsAllocIsFull
    <2>2. altered = {}
      BY <2>1 DEF IInv, AlteredInCall
    <2> QED
      BY <2>1, <2>2, SuccessConf
  <1>2. CASE Accept
    <2>1. /\ pc = "alloc" /\ SaveCurAsIncumb /\ pc' = "loop"
          /\ UNCHANGED recPairs /\ ~pureMs'
      BY <1>2 DEF Accept
    <2> QED
      BY <2>1, SuccessConf
  <1>3. CASE MsAllocIsShort
    <2>1. /\ pc = "alloc" /\ pc' = "idle" /\ testing = NoSite
          /\ initLog' = EmptyLogs
          /\ UNCHANGED <<config, recPairs, incumbLog, site, hist>>
      BY <1>3 DEF MsAllocIsShort, memory
    <2>2. ~HasIncumb /\ ~HasIncumb'
      BY <2>1 DEF HasIncumb
    <2>3. hist'.full = FALSE
      BY <2>1 DEF UndoInv
    <2>4. initLog'.config = <<>>
      BY <2>1 DEF EmptyLogs
    <2>5. ConfigUndoes'
      <3>1. ConfigLog(initLog'.config) /\ ConfigLog(incumbLog'.config)
        BY <2>1, <2>4 DEF ConfigLog, ConfInv, ConfigUndoes
      <3>2. ConfigurationIsKept' /\ TrialsStartAfresh'
        BY <2>1, <2>3 DEF ConfigurationIsKept, TrialsStartAfresh
      <3>3. incumbLog' = EmptyLogs
        BY <2>1, <2>2 DEF ConfInv, ConfigUndoes
      <3> QED
        BY <2>1, <2>2, <2>4, <3>1, <3>2, <3>3 DEF ConfigUndoes
    <2>6. ResAltIsCurrent'
      BY <2>1 DEF ConfInv, SelectionsRight, ResAltIsCurrent, SglSrcMode
    <2>7. SelectionsRight'
      BY <2>1, <2>2, <2>6 DEF ConfInv, SelectionsRight
    <2> QED
      BY <2>5, <2>7 DEF ConfInv
  <1>4. CASE Reject
    <2>1. /\ pc = "alloc" /\ pc' = "loop" /\ testing # NoSite
          /\ initLog' = EmptyLogs
          /\ config' = Restored(config, initLog.config)
          /\ UNCHANGED <<recPairs, incumbLog, hist, pureMs>>
      BY <1>4 DEF Reject
    <2>2. HasIncumb /\ HasIncumb'
      BY <2>1 DEF HasIncumb
    <2>3. config' = hist.start.config /\ initLog'.config = <<>>
      BY <2>1 DEF EmptyLogs, ConfInv, ConfigUndoes
    <2>4. ConfigUndoes'
      <3>1. ConfigLog(initLog'.config) /\ ConfigLog(incumbLog'.config)
        BY <2>1, <2>3 DEF ConfigLog, ConfInv, ConfigUndoes
      <3>2. ConfigurationIsKept' /\ TrialsStartAfresh'
        BY <2>1 DEF ConfigurationIsKept, TrialsStartAfresh
      <3>3. Restored(hist.start.config, incumbLog.config) = hist.best.config
        BY <2>2 DEF ConfInv, ConfigUndoes
      <3> QED
        BY <2>1, <2>2, <2>3, <3>1, <3>2, <3>3 DEF ConfigUndoes
    <2>5. /\ Sound(hist.start.config, recPairs) /\ AllRight(hist.start.config)
          /\ Sound(hist.best.config, recPairs)
          /\ pureMs => AllRight(hist.best.config)
      BY <2>1, <2>2 DEF ConfInv, SelectionsRight
    <2>6. ResAltIsCurrent'
      BY <2>3, <2>5 DEF ResAltIsCurrent, AllRight, ResAltRight
    <2>7. SelectionsRight'
      BY <2>1, <2>3, <2>5, <2>6 DEF SelectionsRight, ConfInv
    <2> QED
      BY <2>4, <2>7 DEF ConfInv
  <1> QED
    BY <1>1, <1>2, <1>3, <1>4 DEF EndAlloc

LEMMA PreserveIncumbConf ==
  ASSUME IInv, UndoInv, LoopInv, ConfInv, PreserveIncumb PROVE ConfInv'
  <1>1. /\ pc = "loop" /\ pc' = "idle" /\ incumbLog' = EmptyLogs
        /\ config' = IF pureMs THEN Restored(config, incumbLog.config) ELSE config
        /\ hist' = [hist EXCEPT !.full = TRUE]
        /\ UNCHANGED <<recPairs, initLog, pureMs, testing>>
    BY DEF PreserveIncumb, PreservedConfig
  <1>2. hist'.start = hist.start /\ hist'.best = hist.best
    BY <1>1 DEF UndoInv, LogTypes, Records
  <1>3. HasIncumb /\ ~HasIncumb'
    BY <1>1 DEF HasIncumb
  <1>4. config' = IF pureMs THEN hist.best.config ELSE hist.start.config
    BY <1>1, <1>3 DEF ConfInv, ConfigUndoes
  <1>5. ConfigUndoes'
    <2>1. initLog'.config = <<>> /\ incumbLog'.config = <<>>
      BY <1>1 DEF EmptyLogs, ConfInv, ConfigUndoes
    <2>2. ConfigLog(initLog'.config) /\ ConfigLog(incumbLog'.config)
      BY <2>1 DEF ConfigLog
    <2>3. ConfigurationIsKept' /\ TrialsStartAfresh'
      BY <1>1, <1>2, <1>4 DEF ConfigurationIsKept, TrialsStartAfresh
    <2>4. initLog' = EmptyLogs
      BY <1>1 DEF ConfInv, ConfigUndoes
    <2> QED
      BY <1>1, <1>3, <2>2, <2>3, <2>4 DEF ConfigUndoes
  <1>6. Sound(config', recPairs) /\ AllRight(config')
    BY <1>1, <1>3, <1>4 DEF ConfInv, SelectionsRight
  <1>7. ResAltIsCurrent'
    BY <1>6 DEF ResAltIsCurrent, AllRight, ResAltRight
  <1>8. SelectionsRight'
    BY <1>1, <1>3, <1>6, <1>7 DEF SelectionsRight, ConfInv
  <1> QED
    BY <1>5, <1>8 DEF ConfInv

\* recoverInitState puts back everything that the recovery pairs name, and the
\* rest has not changed.
LEMMA RecoveredConfig ==
  ASSUME ConfInv, RecoverInitState PROVE config' = InitConfig
  <1>1. PICK prev : prev = [v \in ConfigVars |->
                 IF v \in recPairs \cap PrevVars THEN FALSE ELSE config[v]]
    OBVIOUS
  <1>2. PICK sel : sel = [v \in ConfigVars |->
                 IF v \in recPairs \cap SelVars THEN Default(v[2], v[3])
                                                ELSE prev[v]]
    OBVIOUS
  <1>3. /\ Recovery
        /\ config' = [v \in ConfigVars |->
                        IF v \in ResAltVars /\ Sel(v[2], v[3]) \in recPairs
                        THEN NextRtCand(sel, v[2], v[3]) # None
                        ELSE sel[v]]
    BY <1>1, <1>2 DEF RecoverInitState
  <1>4. Recoverable(config, recPairs) /\ recPairs \subseteq SelVars \cup PrevVars
    BY <1>3 DEF ConfInv, SelectionsRight, Sound
  <1>5. ASSUME NEW s \in Sites, NEW p \in Periods
        PROVE  sel[Sel(s, p)] = Default(s, p)
    <2>1. Sel(s, p) \in ConfigVars /\ Sel(s, p) \in SelVars
          /\ Sel(s, p) \notin PrevVars /\ Sel(s, p)[2] = s /\ Sel(s, p)[3] = p
      BY VarKinds, VarFacts DEF ConfigVars
    <2>2. Sel(s, p) \notin recPairs => config[Sel(s, p)] = Default(s, p)
      BY <1>4 DEF Recoverable
    <2> QED
      BY <1>1, <1>2, <2>1, <2>2
  <1>6. ASSUME NEW v \in PrevVars PROVE sel[v] = FALSE
    <2>1. v \in ConfigVars /\ v \notin SelVars
      BY VarKinds DEF ConfigVars
    <2>2. v \notin recPairs => config[v] = FALSE
      BY <1>4 DEF Recoverable
    <2> QED
      BY <1>1, <1>2, <2>1, <2>2
  <1>7. ASSUME NEW s \in Sites, NEW p \in Periods
        PROVE  config'[ResAlt(s, p)] = InitResAlt(s, p)
    <2>1. /\ ResAlt(s, p) \in ConfigVars /\ ResAlt(s, p) \in ResAltVars
          /\ ResAlt(s, p) \notin SelVars /\ ResAlt(s, p) \notin PrevVars
          /\ ResAlt(s, p)[2] = s /\ ResAlt(s, p)[3] = p
      BY VarKinds, VarFacts DEF ConfigVars
    <2>2. CASE Sel(s, p) \in recPairs
      <3>1. config'[ResAlt(s, p)] = (NextRtCand(sel, s, p) # None)
        BY <1>3, <2>1, <2>2
      <3>2. Eligible[s, p] \subseteq Cands(s)
        BY EligibleAssumption
      <3>3. \A c \in Eligible[s, p] : sel[Prev(s, p, c)] = FALSE
        BY <1>6, <3>2, VarKinds
      <3>4. NextRtCand(sel, s, p) # None <=> InitResAlt(s, p)
        BY <1>5, <3>3, SelectionFacts DEF InitResAlt
      <3> QED
        BY <3>1, <3>4 DEF InitResAlt
    <2>3. CASE Sel(s, p) \notin recPairs
      <3>1. config[ResAlt(s, p)] = InitResAlt(s, p)
        BY <1>4, <2>3 DEF Recoverable
      <3>2. config'[ResAlt(s, p)] = sel[ResAlt(s, p)]
        BY <1>3, <2>1, <2>3
      <3>3. sel[ResAlt(s, p)] = config[ResAlt(s, p)]
        BY <1>1, <1>2, <2>1
      <3> QED
        BY <3>1, <3>2, <3>3
    <2> QED
      BY <2>2, <2>3
  <1>8. ASSUME NEW v \in ConfigVars PROVE config'[v] = InitConfig[v]
    <2>1. CASE v \in SelVars
      <3>1. PICK s \in Sites, p \in Periods : v = Sel(s, p)
        BY <2>1, VarKinds
      <3>2. v \notin ResAltVars
        BY <2>1, VarKinds
      <3>3. config'[v] = sel[v]
        BY <1>3, <3>2
      <3> QED
        BY <1>5, <3>1, <3>3, InitConfigFacts
    <2>2. CASE v \in ResAltVars
      <3>1. PICK s \in Sites, p \in Periods : v = ResAlt(s, p)
        BY <2>2, VarKinds
      <3> QED
        BY <1>7, <3>1, InitConfigFacts
    <2>3. CASE v \in PrevVars
      <3>1. v \notin ResAltVars
        BY <2>3, VarKinds
      <3>2. config'[v] = sel[v]
        BY <1>3, <3>1
      <3> QED
        BY <1>6, <2>3, <3>2, InitConfigFacts
    <2> QED
      BY <2>1, <2>2, <2>3 DEF ConfigVars
  <1>9. config' = [v \in ConfigVars |-> config'[v]]
    BY <1>3
  <1>10. InitConfig \in [ConfigVars -> Values]
    BY InitConfigFacts DEF Sound, GoodConfig
  <1> QED
    BY <1>8, <1>9, <1>10

LEMMA RecoverInitStateConf ==
  ASSUME IInv, UndoInv, LoopInv, ConfInv, RecoverInitState PROVE ConfInv'
  <1>1. /\ pc = "idle" /\ recPairs' = {} /\ hist' = [hist EXCEPT !.full = FALSE]
        /\ UNCHANGED <<pc, testing, initLog, incumbLog>>
    BY DEF RecoverInitState, logs
  <1>2. hist'.full = FALSE
    BY <1>1 DEF UndoInv, LogTypes, Records
  <1>3. ~HasIncumb /\ ~HasIncumb'
    BY <1>1 DEF HasIncumb
  <1>4. Sound(config', {}) /\ AllRight(config')
    BY RecoveredConfig, InitConfigFacts
  <1>5. ConfigUndoes'
    <2>1. ConfigurationIsKept' /\ TrialsStartAfresh'
      BY <1>1, <1>2 DEF ConfigurationIsKept, TrialsStartAfresh
    <2> QED
      BY <1>1, <1>3, <2>1 DEF ConfInv, ConfigUndoes
  <1>6. ResAltIsCurrent'
    BY <1>4 DEF ResAltIsCurrent, AllRight, ResAltRight
  <1>7. SelectionsRight'
    BY <1>1, <1>3, <1>4, <1>6 DEF SelectionsRight
  <1> QED
    BY <1>5, <1>7 DEF ConfInv

LEMMA StutterConf == ASSUME UndoInv, ConfInv, UNCHANGED vars PROVE ConfInv'
  <1>1. /\ UNCHANGED <<pc, testing, alloc, config, recPairs, initLog, incumbLog,
                       hist, pureMs, site, steps>>
    BY DEF vars, memory, logs, bounds
  <1>2. TrialsStartAfresh'
    BY <1>1 DEF ConfInv, ConfigUndoes, TrialsStartAfresh
  <1> QED
    BY <1>1, <1>2, ConfFrame

LEMMA NextConf ==
  ASSUME IInv, UndoInv, LoopInv, ConfInv, UndoInv', [Next]_vars PROVE ConfInv'
  <1>1. ASSUME Allocate PROVE ConfInv'
    <2>1. PICK s \in Sites, p \in Periods :
            \/ AlterSelection(s, p)
            \/ \E c \in Cands(s) :
                  \/ TempExplode(s, p, c)
                  \/ \E new \in BOOLEAN : PermExplode(s, p, c, new)
      BY <1>1 DEF Allocate
    <2> QED
      BY <2>1, AlterSelectionConf, ExplodeConf
  <1>2. ASSUME NextOpp PROVE ConfInv'
    BY <1>2, SelectDiscoveryConf, TryNextCandConf DEF NextOpp
  <1> QED
    BY <1>1, <1>2, CommitMaxQtyConf, EndAllocConf, PreserveIncumbConf,
       RecoverInitStateConf, StutterConf
    DEF Next, InCall

-------------------------------------------------------------------------------
(* All of it together. *)

AllInv == IInv /\ UndoInv /\ LoopInv /\ ConfInv

LEMMA AllInvHolds == Spec => []AllInv
  <1>1. Init => AllInv
    BY InitIInv, InitUndoInv, InitLoop, InitConf DEF AllInv
  <1>2. AllInv /\ [Next]_vars => AllInv'
    <2> SUFFICES ASSUME AllInv, [Next]_vars PROVE AllInv'
      OBVIOUS
    <2>1. IInv' /\ UndoInv'
      BY NextIInv, NextUndoInv DEF AllInv
    <2>2. LoopInv' /\ ConfInv'
      BY <2>1, NextLoop, NextConf DEF AllInv
    <2> QED
      BY <2>1, <2>2 DEF AllInv
  <1> QED
    BY <1>1, <1>2, PTL DEF Spec

\* Every variable keeps its type: the selections of a site are among its
\* candidates, and its iterator does not run past the end of their list.
THEOREM TypesHold == Spec => []TypeOK
  <1>1. AllInv => TypeOK
    <2> SUFFICES ASSUME AllInv PROVE TypeOK
      OBVIOUS
    <2>1. /\ pc \in {"idle", "alloc", "loop"}
          /\ testing \in Sites \cup {NoSite}
          /\ altered \subseteq Sites
          /\ curVisit \subseteq Sites /\ incumbVisit \subseteq Sites
          /\ permIdx \in Nat /\ DOMAIN site = Sites
      BY DEF AllInv, IInv, Types
    <2>2. alloc \in [AllocVars -> Nat]
      BY DEF AllInv, UndoInv, LogTypes
    <2>3. /\ recPairs \subseteq SelVars \cup PrevVars
          /\ GoodConfig(config)
      BY DEF AllInv, ConfInv, SelectionsRight, Sound
    <2>4. DOMAIN config = ConfigVars
          /\ \A v \in ResAltVars \cup PrevVars : config[v] \in BOOLEAN
      BY <2>3 DEF GoodConfig
    <2>5. ASSUME NEW v \in SelVars PROVE config[v] \in Cands(v[2]) \cup {None}
      <3>1. PICK s \in Sites, p \in Periods : v = Sel(s, p)
        BY VarKinds
      <3>2. v[2] = s
        BY <3>1, VarFacts
      <3> QED
        BY <2>3, <3>1, <3>2 DEF GoodConfig
    <2>6. ASSUME NEW s \in Sites
          PROVE  /\ DOMAIN site[s] = Fields
                 /\ site[s].selRtCand \in Cands(s) \cup {None}
                 /\ site[s].next \in 1..(NCands[s] + 1)
                 /\ site[s].curPcIdx \in Nat \cup {-1}
                 /\ site[s].incumbPcIdx \in Nat \cup {-1}
                 /\ site[s].curVisited \in BOOLEAN
                 /\ site[s].curUnique \in Cands(s) \cup {None}
                 /\ site[s].incumbUnique \in Cands(s) \cup {None}
      <3>1. site[s] \in SiteStates
        BY DEF AllInv, IInv, Types
      <3>2. DOMAIN site[s] = Fields
        BY <3>1 DEF SiteStates, Fields
      <3>3. /\ site[s].curPcIdx \in Nat \cup {-1}
            /\ site[s].incumbPcIdx \in Nat \cup {-1}
            /\ site[s].curVisited \in BOOLEAN
        BY <3>1 DEF SiteStates, PcIdxs
      <3>4. InRange(s, site[s])
        BY DEF AllInv, LoopInv
      <3> QED
        BY <3>2, <3>3, <3>4 DEF InRange
    <2>7. permActive \in BOOLEAN /\ pureMs \in BOOLEAN
      BY DEF AllInv, LoopInv, Scalars
    <2>8. steps \in 0..MaxSteps /\ calls \in 0..MaxCalls
      BY DEF AllInv, LoopInv, Scalars
    <2> QED
      BY <2>1, <2>2, <2>3, <2>4, <2>5, <2>6, <2>7, <2>8 DEF TypeOK
  <1> QED
    BY <1>1, AllInvHolds, PTL

\* A call leaves flow through two candidates of a site only when it has tried
\* every candidate of the site.
THEOREM LastResort == Spec => []MultiSourceIsLastResort
  <1>1. AllInv => MultiSourceIsLastResort
    BY DEF AllInv, LoopInv
  <1> QED
    BY <1>1, AllInvHolds, PTL

\* The undo logs bring back, in each trial and across the calls, what was there
\* when they began; and what restore() and restoreAndSave() are said to do is
\* what their loops do.
THEOREM UndoStaysRight == Spec => []UndoIsRight
  <1>1. AllInv => UndoIsRight
    <2> SUFFICES ASSUME AllInv PROVE UndoIsRight
      OBVIOUS
    <2>1. UndoIsTheLoop
      <3>1. PICK la, lc : la = initLog.alloc /\ lc = initLog.config
        OBVIOUS
      <3>2. /\ alloc \in [AllocVars -> Nat] /\ la \in Seq(Pairs(AllocVars, Nat))
            /\ config \in [ConfigVars -> Values]
            /\ lc \in Seq(Pairs(ConfigVars, Values))
        BY <3>1 DEF AllInv, UndoInv, LogTypes, ConfInv, ConfigUndoes, ConfigLog,
                    SelectionsRight, Sound, GoodConfig
      <3>3. /\ Restored(alloc, la) = UndoLoop(alloc, la).mem
            /\ Swapped(alloc, la) = UndoLoop(alloc, la).log
        BY <3>2, UndoLoopFacts
      <3>4. /\ Restored(config, lc) = UndoLoop(config, lc).mem
            /\ Swapped(config, lc) = UndoLoop(config, lc).log
        BY <3>2, UndoLoopFacts
      <3> QED
        BY <3>1, <3>3, <3>4 DEF UndoIsTheLoop
    <2>2. TrialsStartAfresh
      BY DEF AllInv, ConfInv, ConfigUndoes
    <2>3. ASSUME pc = "idle"
          PROVE  /\ initLog = EmptyLogs /\ incumbLog = EmptyLogs
                 /\ altered = {}
                 /\ \A s \in Sites : site[s].selRtCand = None /\ site[s].next = 1
      <3>1. initLog = EmptyLogs
        BY <2>3 DEF AllInv, ConfInv, ConfigUndoes
      <3>2. incumbLog = EmptyLogs
        BY <2>3 DEF AllInv, ConfInv, ConfigUndoes, HasIncumb
      <3>3. altered = {}
        BY <2>3 DEF AllInv, IInv, AlteredInCall
      <3>4. \A s \in Sites : site[s].selRtCand = None /\ site[s].next = 1
        BY <3>3 DEF AllInv, LoopInv
      <3> QED
        BY <3>1, <3>2, <3>3, <3>4
    <2> QED
      BY <2>1, <2>2, <2>3 DEF UndoIsRight, QuietBetweenCalls
  <1> QED
    BY <1>1, AllInvHolds, PTL

\* The selections that a call leaves are those of its latest success, or those
\* that it found if a site was single-sourced, and the cached hasResAlt_ says
\* what a search would find wherever it may be asked.
THEOREM ConfigurationStaysRight == Spec => []ConfigurationIsRight
  <1>1. AllInv => ConfigurationIsRight
    BY DEF AllInv, ConfInv, ConfigUndoes, SelectionsRight, ConfigurationIsRight
  <1> QED
    BY <1>1, AllInvHolds, PTL

\* recoverInitState leaves the initial selections, whatever was pushed, undone
\* and pushed again before.
THEOREM RecoveryStaysComplete == Spec => RecoveryIsComplete
  <1>1. AllInv /\ [Next]_vars => [RecoverInitState => config' = InitConfig]_vars
    BY RecoveredConfig DEF AllInv
  <1> QED
    BY <1>1, AllInvHolds, PTL DEF Spec, RecoveryIsComplete
=============================================================================
