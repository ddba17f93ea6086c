----------------------------- MODULE ApiMgrProofs -----------------------------
(***************************************************************************)
(* Proofs about ApiMgr, for any number of threads and runs.                *)
(***************************************************************************)
EXTENDS ApiMgr, TLAPS

USE DEF INFORMATIONAL, WARNING, SEVERE, FATAL

\* What the proofs of the other invariants use of TypeOK.
Labels == Inside \cup {"idle", "test", "lock", "return", "delete"}

MgrRec  == [locked : BOOLEAN, apiRc : Severities,
            prevApiAbort : BOOLEAN, mgr2 : Runs \cup {NoRun}]
CallRec == [pc : Labels, fn : Functions, run : Runs \cup {NoRun},
            arg : Runs \cup {NoRun}, worst : Severities, rc : Severities]

MgrType  == mgr \in [Runs -> MgrRec]
CallType == call \in [Threads -> CallRec]

IInv == MgrType /\ CallType /\ torn \subseteq Runs /\ CallInv /\ LockedWhileInCall /\ NoFalseAlarm

\* The invariant as far as thread t and the runs S that it uses are concerned.
LocalInv(t, S) ==
  /\ Shape(t)
  /\ Unmarked(t)
  /\ \A r \in S :
       /\ mgr[r].locked <=> r \in Held(t)
       /\ mgr[r].mgr2 # NoRun => call[t].pc \in Inside /\ Own(t) = r
       /\ r \in torn => mgr[r].prevApiAbort \/ (call[t].pc = "handle" /\ r \in Held(t))

LEMMA InitIInv == Init => IInv
  <1> SUFFICES ASSUME Init PROVE IInv OBVIOUS
  <1>1. MgrType /\ CallType
    BY DEF Init, MgrType, MgrRec, CallType, CallRec, NewMgr, Idle, Labels, Severities, Functions
  <1>2. CallInv
    BY NoRunAssumption DEF Init, CallInv, CallShape, Shape, OnlyInside, NoOverlap, InUse,
       ReadyIsUnmarked, Unmarked, Held, TornIsMarked, Ready, Inside, NewMgr, Idle
  <1>3. LockedWhileInCall /\ NoFalseAlarm /\ torn \subseteq Runs
    BY DEF Init, LockedWhileInCall, NoFalseAlarm, Held, Inside, NewMgr, Idle
  <1> QED BY <1>1, <1>2, <1>3 DEF IInv

\* A thread only holds runs that its call is for.
LEMMA HeldInUse ==
  ASSUME IInv, NEW t \in Threads
  PROVE  Held(t) \subseteq InUse(t) \cap Runs
  BY DEF IInv, CallInv, CallShape, Shape, Held, InUse, Inside, CallType, CallRec, Own, Arg

\* Runs that no other call is for are in the hands of thread t alone.
LEMMA Localize ==
  ASSUME IInv, NEW t \in Threads, NEW S \in SUBSET Runs,
         \A u \in Threads \ {t} : InUse(u) \cap S = {}
  PROVE  LocalInv(t, S)
  <1>1. \A u \in Threads \ {t} : Held(u) \cap S = {}
    BY HeldInUse
  <1>2. \A u \in Threads \ {t} : call[u].pc \in Inside => Own(u) \notin S
    BY DEF InUse, Inside
  <1>3. Shape(t) /\ Unmarked(t)
    BY DEF IInv, CallInv, CallShape, ReadyIsUnmarked
  <1>4. ASSUME NEW r \in S
        PROVE  /\ mgr[r].locked <=> r \in Held(t)
               /\ mgr[r].mgr2 # NoRun => call[t].pc \in Inside /\ Own(t) = r
               /\ r \in torn => mgr[r].prevApiAbort \/ (call[t].pc = "handle" /\ r \in Held(t))
    <2>1. \A u \in Threads : r \in Held(u) => u = t
      BY <1>1
    <2>2. mgr[r].locked <=> r \in Held(t)
      BY <2>1 DEF IInv, LockedWhileInCall
    <2>3. mgr[r].mgr2 # NoRun => call[t].pc \in Inside /\ Own(t) = r
      BY <1>2 DEF IInv, CallInv, OnlyInside
    <2>4. r \in torn => mgr[r].prevApiAbort \/ (call[t].pc = "handle" /\ r \in Held(t))
      BY <2>1 DEF IInv, CallInv, TornIsMarked
    <2> QED BY <2>2, <2>3, <2>4
  <1> QED BY <1>3, <1>4 DEF LocalInv

\* A step of thread t that touches only runs of S, which no other call is for,
\* preserves the invariant if it does so locally.
LEMMA Globalize ==
  ASSUME IInv, NEW t \in Threads, NEW S \in SUBSET Runs,
         \A u \in Threads \ {t} : InUse(u) \cap S = {},
         MgrType', CallType', NoFalseAlarm',
         \A u \in Threads \ {t} : call'[u] = call[u],
         \A r \in Runs \ S : mgr'[r] = mgr[r],
         torn' \subseteq torn \cup S, torn' \subseteq Runs,
         InUse(t) \cap Runs \subseteq S,
         InUse(t)' \cap Runs \subseteq S,
         Held(t)' \subseteq S,
         LocalInv(t, S)'
  PROVE  IInv'
  <1>1. ASSUME NEW u \in Threads \ {t}
        PROVE  /\ InUse(u)' = InUse(u) /\ Held(u)' = Held(u)
               /\ Held(u) \cap S = {}
               /\ Own(u)' = Own(u) /\ Arg(u)' = Arg(u)
               /\ call[u].pc # "idle" => Own(u) \in Runs \ S
    <2>1. Held(u) \subseteq InUse(u) \cap Runs
      BY HeldInUse
    <2>2. InUse(u) \cap S = {}
      OBVIOUS
    <2>3. call[u].pc # "idle" => Own(u) \in Runs \ S
      BY <2>2 DEF IInv, CallInv, CallShape, Shape, InUse
    <2>4. Own(u)' = Own(u) /\ Arg(u)' = Arg(u) /\ InUse(u)' = InUse(u)
      BY DEF Own, Arg, InUse
    <2>5. Held(u)' = Held(u)
      BY <2>3, <2>4 DEF Held, Inside
    <2> QED BY <2>1, <2>2, <2>3, <2>4, <2>5
  <1>2. CallShape'
    BY <1>1 DEF IInv, CallInv, CallShape, Shape, LocalInv, Inside
  <1>3. ReadyIsUnmarked'
    <2>1. ASSUME NEW u \in Threads \ {t} PROVE Unmarked(u)'
      <3>1. Held(u) \subseteq Runs \ S
        BY <1>1, HeldInUse
      <3> QED BY <1>1, <3>1 DEF IInv, CallInv, ReadyIsUnmarked, Unmarked, Ready
    <2> QED BY <2>1 DEF ReadyIsUnmarked, LocalInv
  <1>4. NoOverlap'
    BY <1>1 DEF IInv, CallInv, NoOverlap
  <1>5. OnlyInside'
    <2> SUFFICES ASSUME NEW r \in Runs, mgr'[r].mgr2 # NoRun
                 PROVE  \E u \in Threads : call'[u].pc \in Inside /\ Own(u)' = r
      BY DEF OnlyInside
    <2>1. CASE r \in S
      BY <2>1 DEF LocalInv
    <2>2. CASE r \notin S
      <3>1. PICK u \in Threads : call[u].pc \in Inside /\ Own(u) = r
        BY <2>2 DEF IInv, CallInv, OnlyInside
      <3>2. u # t
        BY <2>2, <3>1 DEF InUse, Inside
      <3> QED BY <1>1, <3>1, <3>2
    <2> QED BY <2>1, <2>2
  <1>6. TornIsMarked'
    <2> SUFFICES ASSUME NEW r \in torn'
                 PROVE  \/ mgr'[r].prevApiAbort
                        \/ \E u \in Threads : call'[u].pc = "handle" /\ r \in Held(u)'
      BY DEF TornIsMarked
    <2>1. CASE r \in S
      BY <2>1 DEF LocalInv
    <2>2. CASE r \notin S
      <3>1. r \in torn /\ r \in Runs
        BY <2>2
      <3>2. CASE mgr[r].prevApiAbort
        BY <2>2, <3>1, <3>2
      <3>3. CASE \E u \in Threads : call[u].pc = "handle" /\ r \in Held(u)
        <4>1. PICK u \in Threads : call[u].pc = "handle" /\ r \in Held(u)
          BY <3>3
        <4>2. u # t
          BY <4>1, <2>2, HeldInUse
        <4> QED BY <4>1, <4>2, <1>1
      <3> QED BY <3>1, <3>2, <3>3 DEF IInv, CallInv, TornIsMarked
    <2> QED BY <2>1, <2>2
  <1>7. LockedWhileInCall'
    <2>1. ASSUME NEW r \in Runs
          PROVE  mgr'[r].locked <=> \E u \in Threads : r \in Held(u)'
      <3>1. CASE r \in S
        BY <3>1, <1>1 DEF LocalInv
      <3>2. CASE r \notin S
        <4>1. mgr[r].locked <=> \E u \in Threads : r \in Held(u)
          BY DEF IInv, LockedWhileInCall
        <4>2. r \notin Held(t) /\ r \notin Held(t)'
          BY <3>2, HeldInUse
        <4> QED BY <3>2, <4>1, <4>2, <1>1
      <3> QED BY <3>1, <3>2
    <2>2. ASSUME NEW u \in Threads, NEW v \in Threads, u # v
          PROVE  Held(u)' \cap Held(v)' = {}
      BY <2>2, <1>1 DEF IInv, LockedWhileInCall
    <2> QED BY <2>1, <2>2 DEF LockedWhileInCall
  <1> QED BY <1>2, <1>3, <1>4, <1>5, <1>6, <1>7 DEF IInv, CallInv

-------------------------------------------------------------------------------
(* One lemma per action *)

\* What a thread inside a call knows.
LEMMA InCall ==
  ASSUME IInv, NEW t \in Threads, call[t].pc # "idle"
  PROVE  /\ Own(t) \in Runs
         /\ \A u \in Threads \ {t} : InUse(u) \cap (InUse(t) \cap Runs) = {}
         /\ LocalInv(t, InUse(t) \cap Runs)
         /\ Held(t) \subseteq InUse(t) \cap Runs
         /\ InUse(t) = {Own(t), Arg(t)}
  <1>1. Own(t) \in Runs
    BY DEF IInv, CallInv, CallShape, Shape
  <1>2. \A u \in Threads \ {t} : InUse(u) \cap (InUse(t) \cap Runs) = {}
    BY DEF IInv, CallInv, NoOverlap
  <1>3. LocalInv(t, InUse(t) \cap Runs)
    BY <1>2, Localize
  <1> QED BY <1>1, <1>2, <1>3, HeldInUse DEF InUse

LEMMA GotoFacts ==
  ASSUME IInv, NEW t \in Threads, NEW label, Goto(t, label)
  PROVE  /\ call'[t].pc = label
         /\ Own(t)' = Own(t) /\ Arg(t)' = Arg(t) /\ Fn(t)' = Fn(t)
         /\ \A u \in Threads \ {t} : call'[u] = call[u]
  BY DEF IInv, CallType, CallRec, Goto, Own, Arg, Fn

\* A thread that goes to another place of its call, and leaves the managers
\* and the history alone.
LEMMA GotoStep ==
  ASSUME IInv, NEW t \in Threads, NEW label \in Labels \ {"idle"},
         call[t].pc # "idle", Goto(t, label), UNCHANGED <<mgr, torn>>,
         NoFalseAlarm', Held(t)' = Held(t), Shape(t)', Unmarked(t)',
         call[t].pc \in Inside => label \in Inside,
         call[t].pc # "handle"
  PROVE  IInv'
  <1>0. PICK S \in SUBSET Runs : S = InUse(t) \cap Runs
    OBVIOUS
  <1>1. MgrType' /\ CallType'
    BY DEF IInv, MgrType, MgrRec, CallType, CallRec, Goto
  <1>2. InUse(t)' = InUse(t) /\ Own(t)' = Own(t)
    BY DEF InUse, Own, Arg, Goto, IInv, CallType, CallRec
  <1>3. \A u \in Threads \ {t} : call'[u] = call[u]
    BY DEF Goto, IInv, CallType, CallRec
  <1>4. call'[t].pc = label
    BY DEF Goto, IInv, CallType, CallRec
  <1>5. LocalInv(t, S)'
    BY InCall, <1>0, <1>2, <1>4 DEF LocalInv
  <1>6. torn \subseteq Runs
    BY DEF IInv
  <1> QED
    BY InCall, <1>0, <1>1, <1>2, <1>3, <1>5, <1>6, Globalize

LEMMA TestLockStep == ASSUME IInv, NEW t \in Threads, TestLock(t) PROVE IInv'
  <1>1. call[t].pc = "test" /\ Held(t) = {}
    BY DEF TestLock, At, Held, Inside
  <1>2. ~mgr[Own(t)].locked /\ Own(t) \in Runs
    BY <1>1, InCall DEF LocalInv
  <1>3. Goto(t, "lock") /\ UNCHANGED <<mgr, session, torn, exited>>
    BY <1>2 DEF TestLock
  <1>4. call'[t].pc = "lock" /\ Own(t)' = Own(t)
    BY <1>3, GotoFacts
  <1>5. Held(t)' = Held(t)
    BY <1>1, <1>4 DEF Held, Inside
  <1>6. Shape(t)' /\ Unmarked(t)'
    BY <1>2, <1>4 DEF Shape, Unmarked, Ready, Inside
  <1> QED
    BY <1>1, <1>3, <1>5, <1>6, GotoStep DEF Labels, Inside, IInv, NoFalseAlarm

\* Refuse, Warn and Fail: a message of a run that the thread holds.
LEMMA IssueStep ==
  ASSUME IInv, NEW t \in Threads, NEW r \in Held(t), NEW severity \in Severities,
         Issue(t, r, severity), UNCHANGED exited,
         call[t].pc \in {"start", "second", "check2", "body"},
         torn' = torn \/ (severity > WARNING /\ torn' = torn \cup Held(t))
  PROVE  IInv'
  <1>0. PICK S \in SUBSET Runs : S = InUse(t) \cap Runs
    OBVIOUS
  <1>1. /\ Own(t) \in Runs /\ Held(t) \subseteq S /\ InUse(t) = {Own(t), Arg(t)}
        /\ \A u \in Threads \ {t} : InUse(u) \cap S = {}
        /\ LocalInv(t, S)
    BY InCall, <1>0
  <1>2. \A a, b \in Severities : Worse(a, b) \in Severities
    BY DEF Worse, Severities
  <1>3. MgrType'
    BY <1>1, <1>2 DEF Issue, IInv, MgrType, MgrRec
  <1>4. CallType'
    <2>1. Worse(call[t].worst, severity) \in Severities
      BY <1>2 DEF IInv, CallType, CallRec
    <2> DEFINE c == [call[t] EXCEPT !.worst = Worse(@, severity),
                       !.pc = IF severity > WARNING THEN "handle" ELSE @]
    <2>2. call' = [call EXCEPT ![t] = c]
      BY DEF Issue, IInv, CallType, CallRec
    <2>3. c \in CallRec
      BY <2>1 DEF IInv, CallType, CallRec, Labels, Inside
    <2> QED BY <2>2, <2>3 DEF IInv, CallType, CallRec
  <1>5. /\ \A u \in Threads \ {t} : call'[u] = call[u]
        /\ Own(t)' = Own(t) /\ Arg(t)' = Arg(t)
        /\ call'[t].pc = IF severity > WARNING THEN "handle" ELSE call[t].pc
    BY DEF Issue, IInv, CallType, CallRec, Own, Arg
  <1>6. \A q \in Runs : /\ mgr'[q].locked = mgr[q].locked
                        /\ mgr'[q].mgr2 = mgr[q].mgr2
                        /\ mgr'[q].prevApiAbort = mgr[q].prevApiAbort
                        /\ q \notin S => mgr'[q] = mgr[q]
    BY <1>1 DEF Issue, IInv, MgrType, MgrRec
  <1>7. InUse(t)' = InUse(t)
    BY <1>1, <1>5 DEF InUse
  <1>8. Held(t)' = Held(t)
    <2>1. /\ call'[t].pc \in Inside \ {"test2", "lock2"}
          /\ call[t].pc \in Inside \ {"test2", "lock2"}
      BY <1>5 DEF Inside
    <2>2. mgr'[Own(t)].mgr2 = mgr[Own(t)].mgr2
      BY <1>1, <1>6
    <2> QED BY <1>5, <2>1, <2>2 DEF Held
  <1>9. LocalInv(t, S)'
    <2>1. Shape(t)'
      BY <1>1, <1>5, <1>6 DEF LocalInv, Shape, Inside
    <2>2. Unmarked(t)'
      BY <1>1, <1>5, <1>6, <1>8 DEF LocalInv, Unmarked, Ready
    <2>3. \A q \in S : (mgr[q].locked <=> q \in Held(t))'
      BY <1>1, <1>6, <1>8 DEF LocalInv
    <2>4. \A q \in S : (mgr[q].mgr2 # NoRun => call[t].pc \in Inside /\ Own(t) = q)'
      BY <1>1, <1>5, <1>6 DEF LocalInv, Inside
    <2>5. ASSUME NEW q \in S, q \in torn'
          PROVE  mgr'[q].prevApiAbort \/ (call'[t].pc = "handle" /\ q \in Held(t)')
      BY <1>1, <1>5, <1>6, <1>8, <2>5 DEF LocalInv
    <2> QED BY <2>1, <2>2, <2>3, <2>4, <2>5 DEF LocalInv
  <1> QED
    BY <1>0, <1>1, <1>3, <1>4, <1>5, <1>6, <1>7, <1>8, <1>9, Globalize DEF IInv, NoFalseAlarm

LEMMA RefuseStep ==
  ASSUME IInv, NEW t \in Threads, Refuse(t),
         call[t].pc \in {"start", "second", "check2", "body"}
  PROVE  IInv'
  <1>1. Own(t) \in Held(t)
    BY DEF Held, Inside
  <1> QED BY <1>1, IssueStep DEF Refuse, Severities

LEMMA StartStep == ASSUME IInv, NEW t \in Threads, StartInnerFunc(t) PROVE IInv'
  <1>1. CASE Refuse(t)
    BY <1>1, RefuseStep DEF StartInnerFunc, At
  <1>2. CASE \E label \in {"second", "body"} :
               Goto(t, label) /\ UNCHANGED <<mgr, session, torn, exited>>
    <2>1. PICK label \in {"second", "body"} :
            Goto(t, label) /\ UNCHANGED <<mgr, session, torn, exited>>
      BY <1>2
    <2>2. call'[t].pc = label /\ Own(t)' = Own(t) /\ Arg(t)' = Arg(t)
      BY <2>1, GotoFacts
    <2>3. call[t].pc = "start" /\ Own(t) \in Runs /\ mgr[Own(t)].mgr2 = NoRun
          /\ ~mgr[Own(t)].prevApiAbort
      BY InCall DEF StartInnerFunc, At, LocalInv, Shape, Unmarked, Ready
    <2>4. Held(t) = {Own(t)} /\ Held(t)' = {Own(t)}
      BY <2>1, <2>2, <2>3, NoRunAssumption DEF Held, Inside
    <2>5. Shape(t)' /\ Unmarked(t)'
      BY <2>1, <2>2, <2>3, <2>4, NoRunAssumption DEF Shape, Unmarked, Ready, Inside
    <2> QED
      BY <2>1, <2>3, <2>4, <2>5, GotoStep DEF Labels, Inside, IInv, NoFalseAlarm
  <1> QED BY <1>1, <1>2 DEF StartInnerFunc

\* The same as Globalize, for a thread inside a call and its runs.
LEMMA CallStep ==
  ASSUME IInv, NEW t \in Threads, call[t].pc # "idle",
         MgrType', CallType', NoFalseAlarm', torn' \subseteq torn,
         \A u \in Threads \ {t} : call'[u] = call[u],
         \A r \in Runs \ InUse(t) : mgr'[r] = mgr[r],
         InUse(t)' \subseteq InUse(t) \cup {NoRun},
         Held(t)' \subseteq InUse(t) \cap Runs,
         Shape(t)', Unmarked(t)',
         \A r \in InUse(t) \cap Runs :
           /\ mgr'[r].locked <=> r \in Held(t)'
           /\ mgr'[r].mgr2 # NoRun => call'[t].pc \in Inside /\ Own(t)' = r
           /\ r \in torn' => \/ mgr'[r].prevApiAbort
                            \/ (call'[t].pc = "handle" /\ r \in Held(t)')
  PROVE  IInv'
  <1>1. PICK S \in SUBSET Runs : S = InUse(t) \cap Runs
    OBVIOUS
  <1>2. LocalInv(t, S)'
    BY <1>1 DEF LocalInv
  <1>3. InUse(t) \cap Runs \subseteq S /\ InUse(t)' \cap Runs \subseteq S
    BY <1>1, NoRunAssumption
  <1>4. torn' \subseteq Runs
    BY DEF IInv
  <1> QED BY <1>1, <1>2, <1>3, <1>4, InCall, Globalize

LEMMA LockStep == ASSUME IInv, NEW t \in Threads, Lock(t) PROVE IInv'
  <1> DEFINE poisoned == mgr[Own(t)].prevApiAbort
             severity == IF poisoned THEN SEVERE ELSE INFORMATIONAL
             c == [call[t] EXCEPT !.worst = severity,
                                  !.pc = IF poisoned THEN "handle" ELSE "start"]
             m == [mgr[Own(t)] EXCEPT !.locked = TRUE, !.apiRc = severity]
  <1>1. /\ call[t].pc = "lock" /\ Own(t) \in Runs /\ Held(t) = {}
        /\ InUse(t) = {Own(t), Arg(t)} /\ LocalInv(t, InUse(t) \cap Runs)
    BY InCall DEF Lock, At, Held, Inside
  <1>2. call' = [call EXCEPT ![t] = c] /\ mgr' = [mgr EXCEPT ![Own(t)] = m]
        /\ UNCHANGED <<session, torn, exited>>
    BY DEF Lock, IInv, CallType, CallRec, MgrType, MgrRec
  <1>3. /\ c \in CallRec
        /\ m \in MgrRec
    <2>1. severity \in Severities
      BY DEF Severities
    <2>2. call[t] \in CallRec
      BY DEF IInv, CallType, CallRec
    <2>3. mgr[Own(t)] \in MgrRec
      BY <1>1 DEF IInv, MgrType, MgrRec
    <2>4. "handle" \in Labels /\ "start" \in Labels
      BY DEF Labels, Inside
    <2> HIDE DEF severity
    <2> QED BY <2>1, <2>2, <2>3, <2>4 DEF CallRec, MgrRec
  <1>4. MgrType' /\ CallType'
    BY <1>1, <1>2, <1>3 DEF IInv, MgrType, MgrRec, CallType, CallRec
  <1>5. /\ \A u \in Threads \ {t} : call'[u] = call[u]
        /\ \A r \in Runs \ {Own(t)} : mgr'[r] = mgr[r]
        /\ Own(t)' = Own(t) /\ Arg(t)' = Arg(t)
        /\ call'[t].pc = IF poisoned THEN "handle" ELSE "start"
        /\ mgr'[Own(t)].locked /\ mgr'[Own(t)].mgr2 = mgr[Own(t)].mgr2
        /\ mgr'[Own(t)].prevApiAbort = poisoned
    BY <1>1, <1>2 DEF IInv, CallType, CallRec, MgrType, MgrRec, Own, Arg
  <1>6. \A r \in InUse(t) \cap Runs : mgr[r].mgr2 = NoRun /\ ~mgr[r].locked
    BY <1>1 DEF LocalInv, Inside
  <1>7. Held(t)' = {Own(t)} /\ InUse(t)' = InUse(t)
    BY <1>1, <1>5, <1>6, NoRunAssumption DEF Held, InUse, Inside
  <1>8. Shape(t)' /\ Unmarked(t)'
    BY <1>1, <1>5, <1>6, <1>7, NoRunAssumption DEF Shape, Unmarked, Ready, Inside
  <1>9. ASSUME NEW r \in InUse(t) \cap Runs
        PROVE  /\ mgr'[r].locked <=> r \in Held(t)'
               /\ mgr'[r].mgr2 # NoRun => call'[t].pc \in Inside /\ Own(t)' = r
               /\ r \in torn' => \/ mgr'[r].prevApiAbort
                                \/ (call'[t].pc = "handle" /\ r \in Held(t)')
    BY <1>1, <1>2, <1>5, <1>6, <1>7 DEF LocalInv
  <1>10. NoFalseAlarm' /\ torn' \subseteq torn
    BY <1>2 DEF IInv, NoFalseAlarm
  <1> QED BY <1>1, <1>4, <1>5, <1>7, <1>8, <1>9, <1>10, CallStep

LEMMA SecondStep == ASSUME IInv, NEW t \in Threads, Second(t) PROVE IInv'
  <1>1. /\ call[t].pc = "second" /\ Own(t) \in Runs /\ mgr[Own(t)].mgr2 = NoRun
        /\ ~mgr[Own(t)].prevApiAbort /\ Held(t) = {Own(t)}
        /\ InUse(t) = {Own(t), Arg(t)} /\ LocalInv(t, InUse(t) \cap Runs)
    BY InCall, NoRunAssumption
       DEF Second, At, LocalInv, Shape, Unmarked, Ready, Held, Inside
  <1>2. CASE RefusesSecond(t)
    BY <1>1, <1>2, RefuseStep DEF Second
  <1>3. CASE ~RefusesSecond(t) /\ Arg(t) = Own(t)
    <2>1. Goto(t, "check2") /\ UNCHANGED <<mgr, session, torn, exited>>
      BY <1>3 DEF Second
    <2>2. call'[t].pc = "check2" /\ Own(t)' = Own(t) /\ Arg(t)' = Arg(t)
      BY <2>1, GotoFacts
    <2>3. Held(t)' = {Own(t)}
      BY <1>1, <2>1, <2>2, NoRunAssumption DEF Held, Inside
    <2>4. Shape(t)' /\ Unmarked(t)'
      BY <1>1, <2>1, <2>2, <2>3, NoRunAssumption DEF Shape, Unmarked, Ready, Inside
    <2> QED
      BY <1>1, <2>1, <2>3, <2>4, GotoStep DEF Labels, Inside, IInv, NoFalseAlarm
  <1>4. CASE ~RefusesSecond(t) /\ Arg(t) # Own(t)
    <2>1. Goto(t, "test2") /\ mgr' = [mgr EXCEPT ![Own(t)].mgr2 = Arg(t)]
          /\ UNCHANGED <<session, torn, exited>>
      BY <1>4 DEF Second
    <2>2. /\ call'[t].pc = "test2" /\ Own(t)' = Own(t) /\ Arg(t)' = Arg(t)
          /\ \A u \in Threads \ {t} : call'[u] = call[u]
      BY <2>1, GotoFacts
    <2>3. Arg(t) \in Runs
      BY <1>4 DEF RefusesSecond, IInv, CallType, CallRec, Arg
    <2>4. /\ \A r \in Runs \ {Own(t)} : mgr'[r] = mgr[r]
          /\ mgr'[Own(t)].mgr2 = Arg(t)
          /\ mgr'[Own(t)].locked = mgr[Own(t)].locked
          /\ mgr'[Own(t)].prevApiAbort = mgr[Own(t)].prevApiAbort
      BY <1>1, <2>1 DEF IInv, MgrType, MgrRec
    <2>5. MgrType' /\ CallType'
      <3>1. MgrType'
        BY <2>1, <2>3 DEF IInv, MgrType, MgrRec
      <3>2. "test2" \in Labels
        BY DEF Labels, Inside
      <3>3. CallType'
        BY <2>1, <3>2 DEF IInv, CallType, CallRec, Goto
      <3> QED BY <3>1, <3>3
    <2>6. Held(t)' = {Own(t)} /\ InUse(t)' = InUse(t)
      BY <1>1, <2>2 DEF Held, InUse, Inside
    <2>7. Shape(t)' /\ Unmarked(t)'
      BY <1>1, <1>4, <2>2, <2>3, <2>4, <2>6 DEF Shape, Unmarked, Ready, Inside
    <2>8. ASSUME NEW r \in InUse(t) \cap Runs
          PROVE  /\ mgr'[r].locked <=> r \in Held(t)'
                 /\ mgr'[r].mgr2 # NoRun => call'[t].pc \in Inside /\ Own(t)' = r
                 /\ r \in torn' => \/ mgr'[r].prevApiAbort
                                  \/ (call'[t].pc = "handle" /\ r \in Held(t)')
      BY <1>1, <2>1, <2>2, <2>4, <2>6 DEF LocalInv, Inside
    <2>9. NoFalseAlarm' /\ torn' \subseteq torn
      BY <2>1 DEF IInv, NoFalseAlarm
    <2> QED BY <1>1, <2>2, <2>4, <2>5, <2>6, <2>7, <2>8, <2>9, CallStep
  <1> QED BY <1>2, <1>3, <1>4

LEMMA TestLock2Step == ASSUME IInv, NEW t \in Threads, TestLock2(t) PROVE IInv'
  <1>1. /\ call[t].pc = "test2" /\ Own(t) \in Runs /\ Arg(t) \in Runs
        /\ Arg(t) = mgr[Own(t)].mgr2 /\ Arg(t) # Own(t)
        /\ ~mgr[Own(t)].prevApiAbort /\ Held(t) = {Own(t)}
        /\ InUse(t) = {Own(t), Arg(t)} /\ LocalInv(t, InUse(t) \cap Runs)
    BY InCall DEF TestLock2, At, LocalInv, Shape, Unmarked, Ready, Held, Inside
  <1>2. ~mgr[Arg(t)].locked
    BY <1>1 DEF LocalInv
  <1>3. Goto(t, "lock2") /\ UNCHANGED <<mgr, session, torn, exited>>
    BY <1>2 DEF TestLock2
  <1>4. call'[t].pc = "lock2" /\ Own(t)' = Own(t) /\ Arg(t)' = Arg(t)
    BY <1>3, GotoFacts
  <1>5. Held(t)' = Held(t)
    BY <1>1, <1>4 DEF Held, Inside
  <1>6. Shape(t)' /\ Unmarked(t)'
    BY <1>1, <1>3, <1>4 DEF Shape, Unmarked, Ready, Inside
  <1> QED
    BY <1>1, <1>3, <1>5, <1>6, GotoStep DEF Labels, Inside, IInv, NoFalseAlarm

LEMMA Lock2Step == ASSUME IInv, NEW t \in Threads, Lock2(t) PROVE IInv'
  <1>1. /\ call[t].pc = "lock2" /\ Own(t) \in Runs /\ Arg(t) \in Runs
        /\ Arg(t) = mgr[Own(t)].mgr2 /\ Arg(t) # Own(t)
        /\ ~mgr[Own(t)].prevApiAbort /\ Held(t) = {Own(t)}
        /\ InUse(t) = {Own(t), Arg(t)} /\ LocalInv(t, InUse(t) \cap Runs)
    BY InCall DEF Lock2, At, LocalInv, Shape, Unmarked, Ready, Held, Inside
  <1>2. \A a, b \in Severities : Worse(a, b) \in Severities
    BY DEF Worse, Severities
  <1> DEFINE marked == mgr[Arg(t)].prevApiAbort
             label == IF marked THEN "handle" ELSE "check2"
  <1>3. MgrType'
    <2>1. mgr[Own(t)] \in MgrRec /\ mgr[Arg(t)] \in MgrRec
      BY <1>1 DEF IInv, MgrType
    <2>2. CASE marked
      <3> DEFINE w == Worse(mgr[Own(t)].apiRc, SEVERE)
                 m0 == [mgr[Own(t)] EXCEPT !.apiRc = w]
                 m1 == [mgr[Arg(t)] EXCEPT !.locked = TRUE]
      <3>1. w \in Severities
        BY <1>2, <2>1 DEF Severities, MgrRec
      <3> HIDE DEF w
      <3>2. m0 \in MgrRec /\ m1 \in MgrRec
        BY <2>1, <3>1 DEF MgrRec
      <3>3. mgr' = [mgr EXCEPT ![Arg(t)].locked = TRUE, ![Own(t)].apiRc = w]
        BY <2>2 DEF Lock2, w
      <3>4. mgr' = [mgr EXCEPT ![Arg(t)] = m1, ![Own(t)] = m0]
        BY <1>1, <3>3 DEF IInv, MgrType
      <3> HIDE DEF m0, m1
      <3> QED BY <1>1, <3>2, <3>4 DEF IInv, MgrType
    <2>3. CASE ~marked
      <3> DEFINE m1 == [mgr[Arg(t)] EXCEPT !.locked = TRUE, !.apiRc = INFORMATIONAL]
      <3>1. m1 \in MgrRec
        <4>1. INFORMATIONAL \in Severities
          BY DEF Severities
        <4> QED BY <2>1, <4>1 DEF MgrRec
      <3>2. mgr' = [mgr EXCEPT ![Arg(t)] = m1]
        BY <1>1, <2>3 DEF Lock2, IInv, MgrType
      <3> HIDE DEF m1
      <3> QED BY <1>1, <3>1, <3>2 DEF IInv, MgrType
    <2> QED BY <2>2, <2>3
  <1>4. CallType'
    <2> DEFINE w == IF marked THEN Worse(call[t].worst, SEVERE) ELSE call[t].worst
               c == [call[t] EXCEPT !.worst = w, !.pc = label]
    <2>1. call[t] \in CallRec
      BY DEF IInv, CallType, CallRec
    <2>2. w \in Severities /\ label \in Labels
      BY <1>2, <2>1 DEF Severities, Labels, Inside, CallRec
    <2>3. call' = [call EXCEPT ![t] = c]
      BY <2>1 DEF Lock2, Goto, IInv, CallType, CallRec
    <2> HIDE DEF w, label
    <2>4. c \in CallRec
      BY <2>1, <2>2 DEF CallRec
    <2> QED BY <2>3, <2>4 DEF IInv, CallType, CallRec
  <1>5. /\ \A u \in Threads \ {t} : call'[u] = call[u]
        /\ Own(t)' = Own(t) /\ Arg(t)' = Arg(t)
        /\ call'[t].pc = label
    BY DEF Lock2, Goto, IInv, CallType, CallRec, Own, Arg
  <1>6. /\ \A r \in Runs \ {Own(t), Arg(t)} : mgr'[r] = mgr[r]
        /\ \A r \in Runs : /\ mgr'[r].mgr2 = mgr[r].mgr2
                          /\ mgr'[r].prevApiAbort = mgr[r].prevApiAbort
        /\ mgr'[Arg(t)].locked /\ mgr'[Own(t)].locked = mgr[Own(t)].locked
    BY <1>1 DEF Lock2, IInv, MgrType, MgrRec
  <1>7. InUse(t)' = InUse(t) /\ Held(t)' = {Own(t), Arg(t)}
    BY <1>1, <1>5, <1>6 DEF InUse, Held, Inside
  <1>8. Shape(t)' /\ Unmarked(t)'
    BY <1>1, <1>5, <1>6, <1>7 DEF Shape, Unmarked, Ready, Inside
  <1>9. UNCHANGED <<torn, exited>>
    BY DEF Lock2
  <1>10. ASSUME NEW r \in InUse(t) \cap Runs
        PROVE  /\ mgr'[r].locked <=> r \in Held(t)'
               /\ mgr'[r].mgr2 # NoRun => call'[t].pc \in Inside /\ Own(t)' = r
               /\ r \in torn' => \/ mgr'[r].prevApiAbort
                                \/ (call'[t].pc = "handle" /\ r \in Held(t)')
    BY <1>1, <1>5, <1>6, <1>7, <1>9 DEF LocalInv, Inside
  <1>11. NoFalseAlarm' /\ torn' \subseteq torn
    BY <1>9 DEF IInv, NoFalseAlarm
  <1> QED BY <1>1, <1>3, <1>4, <1>5, <1>6, <1>7, <1>8, <1>10, <1>11, CallStep

LEMMA Check2Step == ASSUME IInv, NEW t \in Threads, Check2(t) PROVE IInv'
  <1>1. CASE Refuse(t)
    BY <1>1, RefuseStep DEF Check2, At
  <1>2. CASE Goto(t, "body") /\ UNCHANGED <<mgr, session, torn, exited>>
    <2>1. call'[t].pc = "body" /\ Own(t)' = Own(t) /\ Arg(t)' = Arg(t)
      BY <1>2, GotoFacts
    <2>2. call[t].pc = "check2" /\ Own(t) \in Runs /\ Shape(t) /\ Unmarked(t)
      BY InCall DEF Check2, At, LocalInv
    <2>3. Held(t)' = Held(t)
      BY <1>2, <2>1, <2>2 DEF Held, Inside
    <2>4. Shape(t)' /\ Unmarked(t)'
      BY <1>2, <2>1, <2>2, <2>3 DEF Shape, Unmarked, Ready, Inside
    <2> QED
      BY <1>2, <2>2, <2>3, <2>4, GotoStep DEF Labels, Inside, IInv, NoFalseAlarm
  <1> QED BY <1>1, <1>2 DEF Check2

LEMMA BodyStep ==
  ASSUME IInv, NEW t \in Threads, Work(t) \/ Warn(t) \/ Fail(t) PROVE IInv'
  <1>1. CASE Work(t)
    <2>1. Goto(t, "finish") /\ UNCHANGED <<mgr, torn, exited>>
      BY <1>1 DEF Work
    <2>2. call'[t].pc = "finish" /\ Own(t)' = Own(t) /\ Arg(t)' = Arg(t)
      BY <2>1, GotoFacts
    <2>3. call[t].pc = "body" /\ Own(t) \in Runs /\ Shape(t) /\ Unmarked(t)
      BY <1>1, InCall DEF Work, At, LocalInv
    <2>4. Held(t)' = Held(t)
      BY <2>1, <2>2, <2>3 DEF Held, Inside
    <2>5. Shape(t)' /\ Unmarked(t)'
      BY <2>1, <2>2, <2>3, <2>4 DEF Shape, Unmarked, Ready, Inside
    <2> QED
      BY <2>1, <2>3, <2>4, <2>5, GotoStep DEF Labels, Inside, IInv, NoFalseAlarm
  <1>2. CASE Warn(t)
    <2>1. PICK r \in Held(t) : Issue(t, r, WARNING)
      BY <1>2 DEF Warn
    <2> QED BY <1>2, <2>1, IssueStep DEF Warn, At, Severities
  <1>3. CASE Fail(t)
    <2>1. PICK r \in Held(t), severity \in {SEVERE, FATAL} : Issue(t, r, severity)
      BY <1>3 DEF Fail
    <2>2. severity \in Severities /\ severity > WARNING
      BY DEF Severities
    <2> QED BY <1>3, <2>1, <2>2, IssueStep DEF Fail, At
  <1> QED BY <1>1, <1>2, <1>3

LEMMA FinishedFacts ==
  ASSUME NEW m \in [Runs -> MgrRec], NEW r \in Runs, m[r].mgr2 # r
  PROVE  /\ Finished(m, r) \in [Runs -> MgrRec]
         /\ ~Finished(m, r)[r].locked
         /\ Finished(m, r)[r].mgr2 = NoRun
         /\ \A q \in Runs :
              /\ Finished(m, r)[q].prevApiAbort = m[q].prevApiAbort
              /\ q = m[r].mgr2 => ~Finished(m, r)[q].locked
              /\ q # r => Finished(m, r)[q].mgr2 = m[q].mgr2
              /\ q \notin {r, m[r].mgr2} => Finished(m, r)[q] = m[q]
  <1> DEFINE r2 == m[r].mgr2
             code == IF r2 = NoRun THEN m[r].apiRc ELSE Worse(m[r].apiRc, m[r2].apiRc)
             m0 == [m[r] EXCEPT !.locked = FALSE, !.mgr2 = NoRun, !.apiRc = code]
  <1>1. r2 \in Runs \cup {NoRun} /\ m[r] \in MgrRec
    BY DEF MgrRec
  <1>2. code \in Severities
    BY <1>1 DEF Worse, MgrRec
  <1>3. Finished(m, r) = [q \in Runs |-> IF q = r THEN m0
                            ELSE IF q = r2 THEN [m[q] EXCEPT !.locked = FALSE]
                            ELSE m[q]]
    BY DEF Finished, MgrRec
  <1> HIDE DEF code
  <1>4. m0 \in MgrRec /\ m0.locked = FALSE /\ m0.mgr2 = NoRun
        /\ m0.prevApiAbort = m[r].prevApiAbort
    BY <1>1, <1>2 DEF MgrRec
  <1> HIDE DEF m0
  <1>5. ASSUME NEW q \in Runs, q # r
        PROVE  /\ Finished(m, r)[q] \in MgrRec
               /\ Finished(m, r)[q].prevApiAbort = m[q].prevApiAbort
               /\ q = m[r].mgr2 => Finished(m, r)[q].locked = FALSE
               /\ Finished(m, r)[q].mgr2 = m[q].mgr2
               /\ q \notin {r, m[r].mgr2} => Finished(m, r)[q] = m[q]
    BY <1>3, <1>5 DEF MgrRec
  <1>6. Finished(m, r)[r] = m0
    BY <1>3
  <1>7. Finished(m, r) \in [Runs -> MgrRec]
    <2>1. Finished(m, r) = [q \in Runs |-> Finished(m, r)[q]]
      BY <1>3
    <2> QED BY <1>4, <1>5, <1>6, <2>1
  <1> QED BY <1>4, <1>5, <1>6, <1>7

LEMMA MarkedFacts ==
  ASSUME NEW m \in [Runs -> MgrRec], NEW r \in Runs
  PROVE  /\ Marked(m, r) \in [Runs -> MgrRec]
         /\ \A q \in Runs :
              /\ Marked(m, r)[q].mgr2 = m[q].mgr2
              /\ Marked(m, r)[q].locked = m[q].locked
              /\ m[q].prevApiAbort => Marked(m, r)[q].prevApiAbort
              /\ q = r \/ q = m[r].mgr2 => Marked(m, r)[q].prevApiAbort
              /\ q \notin {r, m[r].mgr2} => Marked(m, r)[q] = m[q]
  BY DEF Marked, MgrRec

\* The locks of the runs of a call are given back, and after an error these
\* runs are marked.
LEMMA FinishStep ==
  ASSUME IInv, NEW t \in Threads, call[t].pc \in {"finish", "handle"},
         MgrType', Goto(t, "return"), UNCHANGED torn, NoFalseAlarm',
         ~mgr'[Own(t)].locked, mgr'[Own(t)].mgr2 = NoRun,
         \A r \in Runs :
           /\ mgr[r].prevApiAbort => mgr'[r].prevApiAbort
           /\ r = mgr[Own(t)].mgr2 => ~mgr'[r].locked
           /\ r # Own(t) => mgr'[r].mgr2 = mgr[r].mgr2
           /\ r \notin {Own(t), mgr[Own(t)].mgr2} => mgr'[r] = mgr[r]
           /\ call[t].pc = "handle" /\ r \in Held(t) => mgr'[r].prevApiAbort
  PROVE  IInv'
  <1>1. /\ Own(t) \in Runs /\ InUse(t) = {Own(t), Arg(t)}
        /\ LocalInv(t, InUse(t) \cap Runs)
        /\ mgr[Own(t)].mgr2 \in {NoRun, Arg(t)} \ {Own(t)}
    BY InCall DEF LocalInv, Shape, Inside
  <1>2. CallType'
    BY DEF Goto, IInv, CallType, CallRec, Labels
  <1>3. /\ call'[t].pc = "return" /\ Own(t)' = Own(t) /\ Arg(t)' = Arg(t)
        /\ \A u \in Threads \ {t} : call'[u] = call[u]
    BY GotoFacts
  <1>4. Held(t)' = {} /\ InUse(t)' = InUse(t)
    BY <1>1, <1>3 DEF Held, InUse, Inside
  <1>5. Shape(t)' /\ Unmarked(t)'
    BY <1>1, <1>3 DEF Shape, Unmarked, Ready, Inside
  <1>6. Held(t) = {Own(t)} \cup {r \in Runs : r = mgr[Own(t)].mgr2}
    BY DEF Held, Inside
  <1>7. ASSUME NEW r \in InUse(t) \cap Runs
        PROVE  /\ mgr'[r].locked <=> r \in Held(t)'
               /\ mgr'[r].mgr2 # NoRun => call'[t].pc \in Inside /\ Own(t)' = r
               /\ r \in torn' => \/ mgr'[r].prevApiAbort
                                \/ (call'[t].pc = "handle" /\ r \in Held(t)')
    <2>1. /\ mgr[r].locked <=> r \in Held(t)
          /\ r # Own(t) => mgr[r].mgr2 = NoRun
          /\ r \in torn => mgr[r].prevApiAbort \/ (call[t].pc = "handle" /\ r \in Held(t))
      BY <1>1 DEF LocalInv
    <2>2. ~mgr'[r].locked
      BY <1>6, <2>1
    <2> QED BY <1>4, <2>1, <2>2
  <1>8. \A r \in Runs \ InUse(t) : mgr'[r] = mgr[r]
    BY <1>1, NoRunAssumption
  <1> QED BY <1>1, <1>2, <1>3, <1>4, <1>5, <1>7, <1>8, CallStep

LEMMA FinishApiFuncStep ==
  ASSUME IInv, NEW t \in Threads, FinishApiFunc(t) \/ HandleAbortApiExc(t)
  PROVE  IInv'
  <1>1. call[t].pc \in {"finish", "handle"}
    BY DEF FinishApiFunc, HandleAbortApiExc, At
  <1>2. /\ Own(t) \in Runs
        /\ LocalInv(t, InUse(t) \cap Runs)
        /\ mgr[Own(t)].mgr2 # Own(t)
        /\ Held(t) = {Own(t)} \cup {r \in Runs : r = mgr[Own(t)].mgr2}
        /\ Held(t) \subseteq InUse(t) \cap Runs
    BY <1>1, InCall DEF LocalInv, Shape, Held, Inside
  <1>3. BothLocked(Own(t))
    BY <1>2 DEF BothLocked, LocalInv
  <1>4. mgr \in [Runs -> MgrRec]
    BY DEF IInv, MgrType
  <1>5. CASE FinishApiFunc(t)
    <2>1. /\ mgr' = Finished(mgr, Own(t)) /\ Goto(t, "return")
          /\ UNCHANGED <<session, torn, exited>> /\ call[t].pc = "finish"
      BY <1>3, <1>5 DEF FinishApiFunc, At
    <2>2. NoFalseAlarm'
      BY <2>1 DEF IInv, NoFalseAlarm
    <2> QED BY <1>2, <1>4, <2>1, <2>2, FinishedFacts, FinishStep DEF MgrType
  <1>6. CASE HandleAbortApiExc(t)
    <2>1. /\ mgr' = Finished(Marked(mgr, Own(t)), Own(t)) /\ Goto(t, "return")
          /\ exited' \in {"no", "stopRunning"} /\ UNCHANGED <<session, torn>>
          /\ call[t].pc = "handle"
      BY <1>3, <1>6 DEF HandleAbortApiExc, At
    <2>2. NoFalseAlarm'
      BY <2>1 DEF NoFalseAlarm
    <2>3. PICK m \in [Runs -> MgrRec] : m = Marked(mgr, Own(t))
      BY <1>2, <1>4, MarkedFacts
    <2>4. \A q \in Runs :
            /\ m[q].mgr2 = mgr[q].mgr2
            /\ mgr[q].prevApiAbort => m[q].prevApiAbort
            /\ q \in Held(t) => m[q].prevApiAbort
            /\ q \notin {Own(t), mgr[Own(t)].mgr2} => m[q] = mgr[q]
      BY <1>2, <1>4, <2>3, MarkedFacts
    <2>5. m[Own(t)].mgr2 = mgr[Own(t)].mgr2 /\ mgr' = Finished(m, Own(t))
      <3>1. m[Own(t)].mgr2 = mgr[Own(t)].mgr2
        BY <1>2, <2>4
      <3>2. mgr' = Finished(m, Own(t))
        BY <2>1, <2>3, Zenon
      <3> QED BY <3>1, <3>2
    <2>6. /\ MgrType' /\ ~mgr'[Own(t)].locked /\ mgr'[Own(t)].mgr2 = NoRun
          /\ \A q \in Runs :
               /\ mgr'[q].prevApiAbort <=> m[q].prevApiAbort
               /\ q = mgr[Own(t)].mgr2 => ~mgr'[q].locked
               /\ q # Own(t) => mgr'[q].mgr2 = m[q].mgr2
               /\ q \notin {Own(t), mgr[Own(t)].mgr2} => mgr'[q] = m[q]
      BY <1>2, <2>5, FinishedFacts DEF MgrType
    <2>7. \A q \in Runs :
               /\ mgr[q].prevApiAbort => mgr'[q].prevApiAbort
               /\ q = mgr[Own(t)].mgr2 => ~mgr'[q].locked
               /\ q # Own(t) => mgr'[q].mgr2 = mgr[q].mgr2
               /\ q \notin {Own(t), mgr[Own(t)].mgr2} => mgr'[q] = mgr[q]
               /\ call[t].pc = "handle" /\ q \in Held(t) => mgr'[q].prevApiAbort
      BY ONLY <2>4, <2>6
    <2> QED BY <2>1, <2>2, <2>6, <2>7, FinishStep
  <1> QED BY <1>5, <1>6

\* A call that ends leaves its thread with no run in hand.
LEMMA ReturnStep == ASSUME IInv, NEW t \in Threads, Return(t) PROVE IInv'
  <1> DEFINE rc == mgr[Own(t)].apiRc
  <1>1. /\ call[t].pc = "return" /\ Own(t) \in Runs /\ Held(t) = {}
        /\ InUse(t) = {Own(t), Arg(t)} /\ LocalInv(t, InUse(t) \cap Runs)
        /\ UNCHANGED <<mgr, session, torn, exited>>
    BY InCall DEF Return, At, Held, Inside
  <1>2. PICK c \in CallRec : /\ call' = [call EXCEPT ![t] = c]
                            /\ \/ c.pc = "delete" /\ c.run = Own(t) /\ c.arg = Arg(t)
                               \/ c.pc = "idle" /\ c.run = NoRun /\ c.arg = NoRun
    <2>1. rc \in Severities /\ call[t] \in CallRec
      BY <1>1 DEF IInv, MgrType, MgrRec, CallType
    <2>2. [call[t] EXCEPT !.rc = rc, !.pc = "delete"] \in CallRec
      BY <2>1 DEF CallRec, Labels
    <2>3. Idle(call[t].worst, rc) \in CallRec
      BY <2>1 DEF CallRec, Labels, Idle, Functions
    <2>4. CASE Fn(t) = "DeleteRun" /\ rc <= WARNING
      <3>1. call' = [call EXCEPT ![t] = [call[t] EXCEPT !.rc = rc, !.pc = "delete"]]
        BY <2>4 DEF Return, IInv, CallType, CallRec
      <3> QED BY <2>1, <2>2, <3>1 DEF Own, Arg, CallRec
    <2>5. CASE ~(Fn(t) = "DeleteRun" /\ rc <= WARNING)
      BY <2>3, <2>5 DEF Return, Idle
    <2> QED BY <2>4, <2>5
  <1>3. MgrType' /\ CallType'
    BY <1>1, <1>2 DEF IInv, MgrType, CallType
  <1>4. /\ call'[t] = c /\ \A u \in Threads \ {t} : call'[u] = call[u]
    BY <1>2 DEF IInv, CallType
  <1>5. Held(t)' = {} /\ InUse(t)' \subseteq InUse(t) \cup {NoRun}
    BY <1>1, <1>2, <1>4 DEF Held, InUse, Own, Arg, Inside
  <1>6. Shape(t)' /\ Unmarked(t)'
    BY <1>1, <1>2, <1>4 DEF Shape, Unmarked, Ready, Inside, Own
  <1>7. ASSUME NEW r \in InUse(t) \cap Runs
        PROVE  /\ mgr'[r].locked <=> r \in Held(t)'
               /\ mgr'[r].mgr2 # NoRun => call'[t].pc \in Inside /\ Own(t)' = r
               /\ r \in torn' => \/ mgr'[r].prevApiAbort
                                \/ (call'[t].pc = "handle" /\ r \in Held(t)')
    BY <1>1, <1>5 DEF LocalInv, Inside
  <1>8. NoFalseAlarm' /\ torn' \subseteq torn
    BY <1>1 DEF IInv, NoFalseAlarm
  <1> QED BY <1>1, <1>3, <1>4, <1>5, <1>6, <1>7, <1>8, CallStep

LEMMA DeleteStep == ASSUME IInv, NEW t \in Threads, Delete(t) PROVE IInv'
  <1>1. /\ call[t].pc = "delete" /\ Own(t) \in Runs /\ Held(t) = {}
        /\ InUse(t) = {Own(t), Arg(t)} /\ LocalInv(t, InUse(t) \cap Runs)
    BY InCall DEF Delete, At, Held, Inside
  <1>2. ~mgr[Own(t)].locked
    BY <1>1 DEF LocalInv
  <1> DEFINE c == Idle(call[t].worst, call[t].rc)
  <1>3. /\ mgr' = [mgr EXCEPT ![Own(t)] = NewMgr] /\ call' = [call EXCEPT ![t] = c]
        /\ torn' = torn \ {Own(t)} /\ UNCHANGED exited
    BY <1>2 DEF Delete
  <1>4. c \in CallRec /\ NewMgr \in MgrRec
    BY DEF IInv, CallType, CallRec, MgrRec, Labels, Idle, Functions, NewMgr, Severities
  <1>5. MgrType' /\ CallType'
    BY <1>3, <1>4 DEF IInv, MgrType, CallType
  <1>6. /\ call'[t] = c /\ \A u \in Threads \ {t} : call'[u] = call[u]
        /\ mgr'[Own(t)] = NewMgr /\ \A r \in Runs \ {Own(t)} : mgr'[r] = mgr[r]
    BY <1>1, <1>3 DEF IInv, CallType, MgrType
  <1>7. Held(t)' = {} /\ InUse(t)' = {}
    BY <1>6 DEF Held, InUse, Inside, Idle
  <1>8. Shape(t)' /\ Unmarked(t)'
    BY <1>6 DEF Shape, Unmarked, Ready, Inside, Idle
  <1>9. ASSUME NEW r \in InUse(t) \cap Runs
        PROVE  /\ mgr'[r].locked <=> r \in Held(t)'
               /\ mgr'[r].mgr2 # NoRun => call'[t].pc \in Inside /\ Own(t)' = r
               /\ r \in torn' => \/ mgr'[r].prevApiAbort
                                \/ (call'[t].pc = "handle" /\ r \in Held(t)')
    BY <1>1, <1>3, <1>6, <1>7 DEF LocalInv, Inside, NewMgr
  <1>10. NoFalseAlarm' /\ torn' \subseteq torn
    BY <1>3 DEF IInv, NoFalseAlarm
  <1> QED BY <1>1, <1>5, <1>6, <1>7, <1>8, <1>9, <1>10, CallStep

LEMMA BeginStep ==
  ASSUME IInv, NEW t \in Threads, NEW f \in Functions, NEW r \in Runs,
         NEW r2 \in Runs \cup {NoRun}, Call(t, f, r, r2)
  PROVE  IInv'
  <1> DEFINE S == {r, r2} \cap Runs
             c == [pc |-> "test", fn |-> f, run |-> r, arg |-> r2,
                   worst |-> INFORMATIONAL, rc |-> INFORMATIONAL]
  <1>1. /\ call[t].pc = "idle" /\ Held(t) = {} /\ InUse(t) = {}
        /\ \A u \in Threads \ {t} : InUse(u) \cap S = {}
        /\ call' = [call EXCEPT ![t] = c] /\ UNCHANGED exited
        /\ \/ mgr' = mgr /\ torn' = torn
           \/ mgr' = [mgr EXCEPT ![r] = NewMgr] /\ torn' = torn \ {r}
    BY DEF Call, At, Held, InUse, Inside
  <1>2. LocalInv(t, S)
    BY <1>1, Localize
  <1>3. c \in CallRec /\ NewMgr \in MgrRec
    BY DEF CallRec, MgrRec, Labels, NewMgr, Severities
  <1>4. MgrType' /\ CallType'
    BY <1>1, <1>3 DEF IInv, MgrType, CallType
  <1>5. /\ call'[t] = c /\ \A u \in Threads \ {t} : call'[u] = call[u]
        /\ \A q \in Runs \ S : mgr'[q] = mgr[q]
        /\ \A q \in S : mgr'[q] = mgr[q] \/ (mgr'[q] = NewMgr /\ q \notin torn')
        /\ torn' \subseteq torn
    BY <1>1 DEF IInv, CallType, MgrType
  <1>6. Held(t)' = {} /\ InUse(t)' = {r, r2}
    BY <1>5 DEF Held, InUse, Inside, Own, Arg
  <1>7. Shape(t)' /\ Unmarked(t)'
    BY <1>5 DEF Shape, Unmarked, Ready, Inside, Own
  <1>8. \A q \in S : ~mgr[q].locked /\ mgr[q].mgr2 = NoRun
                    /\ (q \in torn => mgr[q].prevApiAbort)
    BY <1>1, <1>2 DEF LocalInv, Inside
  <1>9. LocalInv(t, S)'
    BY <1>5, <1>6, <1>7, <1>8 DEF LocalInv, NewMgr
  <1>10. NoFalseAlarm' /\ torn' \subseteq Runs
    BY <1>1, <1>5 DEF IInv, NoFalseAlarm
  <1> QED BY <1>1, <1>4, <1>5, <1>6, <1>9, <1>10, Globalize

-------------------------------------------------------------------------------
LEMMA NextIInv == IInv /\ [Next]_vars => IInv'
  <1> SUFFICES ASSUME IInv, [Next]_vars PROVE IInv'
    OBVIOUS
  <1>1. CASE UNCHANGED vars
    BY <1>1 DEF vars, IInv, MgrType, CallType, CallInv, LockedWhileInCall,
       NoFalseAlarm, CallShape, Shape, OnlyInside, NoOverlap, InUse, Held, Own, Arg,
       ReadyIsUnmarked, Unmarked, TornIsMarked
  <1>2. ASSUME NEW t \in Threads, Step(t) PROVE IInv'
    BY <1>2, TestLockStep, LockStep, StartStep, SecondStep, TestLock2Step,
       Lock2Step, Check2Step, BodyStep, FinishApiFuncStep, ReturnStep, DeleteStep
       DEF Step
  <1> QED BY <1>1, <1>2, BeginStep DEF Next, Ended

\* Why a half-done run is never worked on: it is marked before it is unlocked.
LEMMA NotTorn == IInv => NeverOnTorn
  <1> SUFFICES ASSUME IInv, NEW t \in Threads, call[t].pc \in {"body", "finish"},
                      NEW r \in Held(t), r \in torn
               PROVE  FALSE
    BY DEF NeverOnTorn
  <1>1. Unmarked(t)
    BY DEF IInv, CallInv, ReadyIsUnmarked
  <1>2. ~mgr[r].prevApiAbort
    BY <1>1 DEF Unmarked
  <1>3. PICK u \in Threads : call[u].pc = "handle" /\ r \in Held(u)
    BY <1>2 DEF IInv, CallInv, TornIsMarked
  <1>4. u # t
    BY <1>3
  <1> QED BY <1>3, <1>4 DEF IInv, LockedWhileInCall

\* An application that makes no overlapping calls for one run, whatever its
\* threads, its runs and its functions: a run is locked exactly during its
\* calls, WIT raises no false alarm about its locks, and never works on a run
\* that a failed call left half-done (lockMyWitRun, start2WitRunFunc,
\* handleAbortApiExc).
THEOREM Locking == Spec => []LockingIsRight
  <1>1. IInv => LockingIsRight
    BY NotTorn DEF IInv, LockingIsRight
  <1> QED BY <1>1, InitIInv, NextIInv, PTL DEF Spec

-------------------------------------------------------------------------------
(***************************************************************************)
(* What a call asks of the sessions of its runs, and what it returns.      *)
(***************************************************************************)

SessionRec == [alive : BOOLEAN, active : BOOLEAN, extOpt : BOOLEAN]

\* External optimization is active only in a run that is initialized.
SessionOK ==
  /\ session \in [Runs -> SessionRec]
  /\ \A r \in Runs : session[r].extOpt => session[r].active

InSecond == {"second", "test2", "lock2", "check2"}

\* What a call has found out of the sessions of its runs.
Legal(t) ==
  /\ call[t].pc # "idle" =>
       /\ session[Own(t)].alive
       /\ Arg(t) # NoRun => Fn(t) \in TwoRuns /\ session[Arg(t)].alive
  /\ call[t].pc \in InSecond => Fn(t) \in TwoRuns
  /\ call[t].pc \in InSecond \cup {"body"} => Allowed(Fn(t), session[Own(t)])
  /\ call[t].pc \in (InSecond \ {"second"}) \cup {"body"} /\ Fn(t) \in TwoRuns =>
       /\ Arg(t) # NoRun
       /\ Fn(t) = "CopyData" => ~session[Own(t)].extOpt
  /\ call[t].pc = "body" /\ Fn(t) \in TwoRuns =>
       /\ session[Arg(t)].active /\ ~session[Arg(t)].extOpt
       /\ Fn(t) = "CopyObjData" => session[Own(t)].active /\ ~session[Own(t)].extOpt

\* Where the worst message of a call is recorded.
Covers(t) ==
  /\ call[t].pc \in {"idle", "delete"} => call[t].rc >= call[t].worst
  /\ call[t].pc \in Inside => \E r \in Held(t) : mgr[r].apiRc >= call[t].worst
  /\ call[t].pc = "return" => mgr[Own(t)].apiRc >= call[t].worst

Books == SessionOK /\ \A t \in Threads : Legal(t) /\ Covers(t)

LEMMA InitBooks == Init => Books
  <1> SUFFICES ASSUME Init PROVE Books
    OBVIOUS
  <1>1. SessionOK
    BY DEF Init, SessionOK, SessionRec, NoSession, NewSession
  <1>2. ASSUME NEW t \in Threads PROVE Legal(t) /\ Covers(t)
    <2>1. call[t].pc = "idle" /\ call[t].rc = call[t].worst /\ call[t].rc = 0
      BY DEF Init, Idle
    <2> QED
      BY <2>1 DEF Legal, Covers, InSecond, Inside
  <1> QED
    BY <1>1, <1>2 DEF Books

\* The calls of the other threads are for other runs.
LEMMA OthersBooks ==
  ASSUME IInv, Books, NEW u \in Threads, NEW S, InUse(u) \cap S = {},
         call'[u] = call[u],
         \A r \in Runs \ S : mgr'[r] = mgr[r] /\ session'[r] = session[r]
  PROVE  Legal(u)' /\ Covers(u)'
  <1>1. Own(u)' = Own(u) /\ Arg(u)' = Arg(u) /\ Fn(u)' = Fn(u)
    BY DEF Own, Arg, Fn
  <1>2. CASE call[u].pc = "idle"
    BY <1>2 DEF Books, Legal, Covers, InSecond, Inside
  <1>3. CASE call[u].pc # "idle"
    <2>1. Own(u) \in Runs \ S
      BY <1>3, InCall
    <2>2. Arg(u) # NoRun => Arg(u) \in Runs \ S
      BY <1>3 DEF InUse, IInv, CallType, CallRec, Arg
    <2>3. Held(u)' = Held(u)
      BY <1>1, <2>1 DEF Held, Inside
    <2>4. Held(u) \subseteq Runs \ S
      BY HeldInUse
    <2>5. Legal(u)'
      BY <1>1, <2>1, <2>2 DEF Books, Legal
    <2>6. Covers(u)'
      BY <1>1, <2>1, <2>3, <2>4 DEF Books, Covers
    <2> QED
      BY <2>5, <2>6
  <1> QED
    BY <1>2, <1>3

\* A step of a thread inside a call, as far as its own runs are concerned.
LEMMA MyBooks ==
  ASSUME IInv, Books, NEW t \in Threads, call[t].pc # "idle",
         SessionOK', Legal(t)', Covers(t)',
         \A u \in Threads \ {t} : call'[u] = call[u],
         \A r \in Runs \ InUse(t) : mgr'[r] = mgr[r] /\ session'[r] = session[r]
  PROVE  Books'
  <1>1. ASSUME NEW u \in Threads \ {t} PROVE Legal(u)' /\ Covers(u)'
    <2>1. InUse(u) \cap (InUse(t) \cap Runs) = {}
      BY InCall
    <2> QED
      BY <2>1, OthersBooks
  <1> QED
    BY <1>1 DEF Books

\* A thread that goes to another place inside its call.
LEMMA GotoBooks ==
  ASSUME IInv, Books, NEW t \in Threads, NEW label,
         call[t].pc # "idle", Goto(t, label), UNCHANGED <<mgr, session>>,
         Legal(t)', Covers(t)'
  PROVE  Books'
  <1>1. \A u \in Threads \ {t} : call'[u] = call[u]
    BY GotoFacts
  <1>2. SessionOK'
    BY DEF Books, SessionOK
  <1> QED
    BY <1>1, <1>2, MyBooks

\* The fields of a call and of a manager that a message leaves alone.
LEMMA IssueFacts ==
  ASSUME IInv, NEW t \in Threads, NEW r \in Runs, NEW severity \in Severities,
         Issue(t, r, severity)
  PROVE  /\ \A u \in Threads \ {t} : call'[u] = call[u]
         /\ Own(t)' = Own(t) /\ Arg(t)' = Arg(t) /\ Fn(t)' = Fn(t)
         /\ call'[t].pc = IF severity > WARNING THEN "handle" ELSE call[t].pc
         /\ call'[t].worst = Worse(call[t].worst, severity)
         /\ \A q \in Runs : /\ mgr'[q].mgr2 = mgr[q].mgr2
                            /\ q # r => mgr'[q] = mgr[q]
         /\ mgr'[r].apiRc = Worse(mgr[r].apiRc, severity)
  <1>1. /\ \A u \in Threads \ {t} : call'[u] = call[u]
        /\ Own(t)' = Own(t) /\ Arg(t)' = Arg(t) /\ Fn(t)' = Fn(t)
        /\ call'[t].pc = IF severity > WARNING THEN "handle" ELSE call[t].pc
        /\ call'[t].worst = Worse(call[t].worst, severity)
    BY DEF Issue, IInv, CallType, CallRec, Own, Arg, Fn
  <1>2. /\ \A q \in Runs : /\ mgr'[q].mgr2 = mgr[q].mgr2
                           /\ q # r => mgr'[q] = mgr[q]
        /\ mgr'[r].apiRc = Worse(mgr[r].apiRc, severity)
    BY DEF Issue, IInv, MgrType, MgrRec
  <1> QED
    BY <1>1, <1>2

\* A message is recorded for the run that it is issued for.
LEMMA IssueBooks ==
  ASSUME IInv, Books, NEW t \in Threads, NEW r \in Held(t),
         NEW severity \in Severities, Issue(t, r, severity),
         call[t].pc \in {"start", "second", "check2", "body"},
         SessionOK',
         \A q \in Runs : session'[q].alive = session[q].alive,
         severity <= WARNING => UNCHANGED session,
         \A q \in Runs \ InUse(t) : session'[q] = session[q]
  PROVE  Books'
  <1>1. /\ Own(t) \in Runs /\ Held(t) \subseteq InUse(t) \cap Runs /\ r \in Runs
        /\ InUse(t) = {Own(t), Arg(t)} /\ call[t].pc # "idle"
    BY InCall
  <1>2. /\ \A u \in Threads \ {t} : call'[u] = call[u]
        /\ Own(t)' = Own(t) /\ Arg(t)' = Arg(t) /\ Fn(t)' = Fn(t)
        /\ call'[t].pc = IF severity > WARNING THEN "handle" ELSE call[t].pc
        /\ call'[t].worst = Worse(call[t].worst, severity)
        /\ \A q \in Runs : /\ mgr'[q].mgr2 = mgr[q].mgr2
                           /\ q # r => mgr'[q] = mgr[q]
        /\ mgr'[r].apiRc = Worse(mgr[r].apiRc, severity)
    BY <1>1, IssueFacts
  <1>3. Held(t)' = Held(t)
    <2>1. /\ call'[t].pc \in Inside \ {"test2", "lock2"}
          /\ call[t].pc \in Inside \ {"test2", "lock2"}
      BY <1>2 DEF Inside
    <2>2. mgr'[Own(t)].mgr2 = mgr[Own(t)].mgr2
      BY <1>1, <1>2
    <2> QED
      BY <1>2, <2>1, <2>2 DEF Held
  <1>4. Legal(t)'
    <2>1. Arg(t) # NoRun => Arg(t) \in Runs
      BY DEF IInv, CallType, CallRec, Arg
    <2>2. CASE severity > WARNING
      BY <2>1, <2>2, <1>1, <1>2 DEF Books, Legal, InSecond
    <2>3. CASE severity <= WARNING
      <3>1. call'[t].pc = call[t].pc /\ session' = session
        BY <2>3, <1>2 DEF Severities
      <3> QED
        BY <3>1, <1>1, <1>2 DEF Books, Legal
    <2> QED
      BY <2>2, <2>3 DEF Severities
  <1>5. Covers(t)'
    <2>1. PICK q \in Held(t) : mgr[q].apiRc >= call[t].worst
      BY DEF Books, Covers, Inside
    <2>2. /\ mgr[q].apiRc \in Severities /\ mgr[r].apiRc \in Severities
          /\ call[t].worst \in Severities
      BY <1>1 DEF IInv, MgrType, MgrRec, CallType, CallRec
    <2>3. mgr'[q].apiRc >= call[t].worst
      BY <2>1, <2>2, <1>1, <1>2 DEF Worse, Severities
    <2>4. mgr'[r].apiRc >= severity
      BY <2>2, <1>2 DEF Worse, Severities
    <2>5. \E p \in Held(t)' : mgr'[p].apiRc >= call'[t].worst
      BY <2>3, <2>4, <1>2, <1>3 DEF Worse
    <2> QED
      BY <2>5, <1>2 DEF Covers, Inside
  <1> QED
    BY <1>1, <1>2, <1>4, <1>5, MyBooks

LEMMA RefuseBooks ==
  ASSUME IInv, Books, NEW t \in Threads, Refuse(t),
         call[t].pc \in {"start", "second", "check2", "body"}
  PROVE  Books'
  <1>1. Own(t) \in Held(t)
    BY DEF Held, Inside
  <1>2. SessionOK' /\ SEVERE \in Severities
    BY DEF Refuse, Books, SessionOK, Severities
  <1> QED
    BY <1>1, <1>2, IssueBooks DEF Refuse
LEMMA TestLockBooks ==
  ASSUME IInv, Books, NEW t \in Threads, TestLock(t) \/ TestLock2(t)
  PROVE  Books'
  <1>1. CASE TestLock(t)
    <2>1. call[t].pc = "test" /\ Own(t) \in Runs
      BY <1>1, InCall DEF TestLock, At
    <2>2. ~mgr[Own(t)].locked
      BY <1>1, <2>1, InCall DEF LocalInv, Held, Inside
    <2>3. Goto(t, "lock") /\ UNCHANGED <<mgr, session, torn, exited>>
      BY <1>1, <2>2 DEF TestLock
    <2>4. call'[t].pc = "lock" /\ Own(t)' = Own(t) /\ Arg(t)' = Arg(t) /\ Fn(t)' = Fn(t)
      BY <2>3, GotoFacts
    <2>5. Legal(t)'
      BY <2>1, <2>3, <2>4 DEF Books, Legal, InSecond
    <2>6. Covers(t)'
      BY <2>4 DEF Covers, Inside
    <2> QED
      BY <2>1, <2>3, <2>5, <2>6, GotoBooks
  <1>2. CASE TestLock2(t)
    <2>1. call[t].pc = "test2"
      BY <1>2 DEF TestLock2, At
    <2>2. Shape(t) /\ LocalInv(t, InUse(t) \cap Runs) /\ Own(t) \in Runs
          /\ Held(t) \subseteq InUse(t) \cap Runs /\ InUse(t) = {Own(t), Arg(t)}
      BY <2>1, InCall DEF LocalInv
    <2>3. Arg(t) \in Runs /\ Arg(t) # Own(t)
      BY <2>1, <2>2 DEF Shape, Inside
    <2>4. ~mgr[Arg(t)].locked
      BY <2>1, <2>2, <2>3 DEF LocalInv, Held
    <2>5. Goto(t, "lock2") /\ UNCHANGED <<mgr, session, torn, exited>>
      BY <1>2, <2>4 DEF TestLock2
    <2>6. call'[t].pc = "lock2" /\ Own(t)' = Own(t) /\ Arg(t)' = Arg(t)
          /\ Fn(t)' = Fn(t) /\ call'[t].worst = call[t].worst
      BY <2>5 DEF IInv, CallType, CallRec, Goto, Own, Arg, Fn
    <2>7. Legal(t)'
      BY <2>1, <2>5, <2>6 DEF Books, Legal, InSecond
    <2>8. Held(t) = {Own(t)} /\ Held(t)' = {Own(t)}
      BY <2>1, <2>6 DEF Held, Inside
    <2>9. Covers(t)'
      BY <2>1, <2>5, <2>6, <2>8 DEF Books, Covers, Inside
    <2> QED
      BY <2>1, <2>5, <2>7, <2>9, GotoBooks
  <1> QED
    BY <1>1, <1>2

LEMMA LockBooks == ASSUME IInv, Books, NEW t \in Threads, Lock(t) PROVE Books'
  <1> DEFINE severity == IF mgr[Own(t)].prevApiAbort THEN SEVERE ELSE INFORMATIONAL
  <1>1. call[t].pc = "lock" /\ Own(t) \in Runs /\ InUse(t) = {Own(t), Arg(t)}
    BY InCall DEF Lock, At
  <1>2. /\ \A u \in Threads \ {t} : call'[u] = call[u]
        /\ Own(t)' = Own(t) /\ Arg(t)' = Arg(t) /\ Fn(t)' = Fn(t)
        /\ call'[t].pc \in {"handle", "start"}
        /\ call'[t].worst = severity
    BY DEF Lock, IInv, CallType, CallRec, Own, Arg, Fn
  <1>3. /\ mgr'[Own(t)].apiRc = severity
        /\ \A r \in Runs \ {Own(t)} : mgr'[r] = mgr[r]
    BY <1>1 DEF Lock, IInv, MgrType, MgrRec
  <1>4. session' = session
    BY DEF Lock
  <1>5. Legal(t)'
    BY <1>1, <1>2, <1>4 DEF Books, Legal, InSecond
  <1>6. Own(t) \in Held(t)'
    BY <1>1, <1>2 DEF Held, Inside
  <1>7. Covers(t)'
    BY <1>2, <1>3, <1>6 DEF Covers, Inside
  <1>8. SessionOK'
    BY <1>4 DEF Books, SessionOK
  <1> QED
    BY <1>1, <1>2, <1>3, <1>4, <1>5, <1>7, <1>8, MyBooks

LEMMA StartBooks ==
  ASSUME IInv, Books, NEW t \in Threads, StartInnerFunc(t) PROVE Books'
  <1>1. call[t].pc = "start" /\ Own(t) \in Runs
    BY InCall DEF StartInnerFunc, At
  <1>2. CASE ~Allowed(Fn(t), session[Own(t)])
    BY <1>1, <1>2, RefuseBooks DEF StartInnerFunc
  <1>3. CASE Allowed(Fn(t), session[Own(t)])
    <2> DEFINE label == IF Fn(t) \in TwoRuns THEN "second" ELSE "body"
    <2>1. Goto(t, label) /\ UNCHANGED <<mgr, session, torn, exited>>
      BY <1>3 DEF StartInnerFunc
    <2>2. call'[t].pc = label /\ Own(t)' = Own(t) /\ Arg(t)' = Arg(t)
          /\ Fn(t)' = Fn(t) /\ call'[t].worst = call[t].worst
      BY <2>1 DEF IInv, CallType, CallRec, Goto, Own, Arg, Fn
    <2>3. Legal(t)'
      BY <1>1, <1>3, <2>1, <2>2 DEF Books, Legal, InSecond
    <2>4. mgr[Own(t)].mgr2 = NoRun
      BY <1>1, InCall DEF LocalInv, Shape
    <2>5. Held(t) = {Own(t)} /\ Held(t)' = {Own(t)}
      BY <1>1, <2>1, <2>2, <2>4, NoRunAssumption DEF Held, Inside
    <2>6. Covers(t)'
      BY <1>1, <2>1, <2>2, <2>5 DEF Books, Covers, Inside
    <2> QED
      BY <1>1, <2>1, <2>3, <2>6, GotoBooks
  <1> QED
    BY <1>2, <1>3

LEMMA SecondBooks == ASSUME IInv, Books, NEW t \in Threads, Second(t) PROVE Books'
  <1>1. /\ call[t].pc = "second" /\ Own(t) \in Runs
        /\ InUse(t) = {Own(t), Arg(t)}
        /\ mgr[Own(t)].mgr2 = NoRun
    BY InCall DEF Second, At, LocalInv, Shape
  <1>2. CASE RefusesSecond(t)
    BY <1>1, <1>2, RefuseBooks DEF Second
  <1>3. CASE ~RefusesSecond(t)
    <2>1. PICK label \in {"check2", "test2"} :
            /\ Goto(t, label) /\ UNCHANGED session
            /\ \/ mgr' = mgr /\ label = "check2"
               \/ mgr' = [mgr EXCEPT ![Own(t)].mgr2 = Arg(t)] /\ label = "test2"
      BY <1>3 DEF Second
    <2>2. /\ call'[t].pc = label /\ Own(t)' = Own(t) /\ Arg(t)' = Arg(t)
          /\ Fn(t)' = Fn(t) /\ call'[t].worst = call[t].worst
          /\ \A u \in Threads \ {t} : call'[u] = call[u]
      BY <2>1 DEF IInv, CallType, CallRec, Goto, Own, Arg, Fn
    <2>3. /\ \A r \in Runs : mgr'[r].apiRc = mgr[r].apiRc
          /\ \A r \in Runs \ {Own(t)} : mgr'[r] = mgr[r]
      BY <2>1 DEF IInv, MgrType, MgrRec
    <2>4. Fn(t) = "CopyData" => ~session[Own(t)].extOpt
      BY <1>1, <1>3 DEF RefusesSecond, Books, SessionOK
    <2>5. Legal(t)'
      BY <1>1, <1>3, <2>1, <2>2, <2>4 DEF Books, Legal, InSecond, RefusesSecond
    <2>6. Held(t) = {Own(t)}
      BY <1>1, NoRunAssumption DEF Held, Inside
    <2>7. Own(t) \in Held(t)'
      BY <1>1, <2>1, <2>2 DEF Held, Inside
    <2>8. Covers(t)'
      BY <1>1, <2>1, <2>2, <2>3, <2>6, <2>7 DEF Books, Covers, Inside
    <2>9. SessionOK'
      BY <2>1 DEF Books, SessionOK
    <2> QED
      BY <1>1, <2>1, <2>2, <2>3, <2>5, <2>8, <2>9, MyBooks
  <1> QED
    BY <1>2, <1>3

\* The second run's record is cleared only if nothing has been issued for it.
LEMMA Lock2Books == ASSUME IInv, Books, NEW t \in Threads, Lock2(t) PROVE Books'
  <1>1. /\ call[t].pc = "lock2" /\ Own(t) \in Runs /\ Arg(t) \in Runs
        /\ Arg(t) = mgr[Own(t)].mgr2 /\ Arg(t) # Own(t)
        /\ Held(t) = {Own(t)} /\ InUse(t) = {Own(t), Arg(t)}
    BY InCall DEF Lock2, At, LocalInv, Shape, Held, Inside
  <1>2. /\ \A u \in Threads \ {t} : call'[u] = call[u]
        /\ Own(t)' = Own(t) /\ Arg(t)' = Arg(t) /\ Fn(t)' = Fn(t)
        /\ call'[t].pc \in {"handle", "check2"}
        /\ call'[t].worst = IF mgr[Arg(t)].prevApiAbort
                            THEN Worse(call[t].worst, SEVERE) ELSE call[t].worst
    BY DEF Lock2, Goto, IInv, CallType, CallRec, Own, Arg, Fn
  <1>3. /\ mgr'[Own(t)].apiRc = IF mgr[Arg(t)].prevApiAbort
                               THEN Worse(mgr[Own(t)].apiRc, SEVERE)
                               ELSE mgr[Own(t)].apiRc
        /\ \A r \in Runs \ {Own(t), Arg(t)} : mgr'[r] = mgr[r]
    BY <1>1 DEF Lock2, IInv, MgrType, MgrRec
  <1>4. session' = session
    BY DEF Lock2
  <1>5. Legal(t)'
    BY <1>1, <1>2, <1>4 DEF Books, Legal, InSecond
  <1>6. Own(t) \in Held(t)'
    BY <1>1, <1>2 DEF Held, Inside
  <1>7. mgr[Own(t)].apiRc >= call[t].worst
    BY <1>1 DEF Books, Covers, Inside
  <1>8. mgr[Own(t)].apiRc \in Severities /\ call[t].worst \in Severities
    BY <1>1 DEF IInv, MgrType, MgrRec, CallType, CallRec
  <1>9. mgr'[Own(t)].apiRc >= call'[t].worst
    BY <1>2, <1>3, <1>7, <1>8 DEF Worse, Severities
  <1>10. Covers(t)'
    BY <1>2, <1>6, <1>9 DEF Covers, Inside
  <1>11. SessionOK'
    BY <1>4 DEF Books, SessionOK
  <1> QED
    BY <1>1, <1>2, <1>3, <1>4, <1>5, <1>10, <1>11, MyBooks

LEMMA Check2Books == ASSUME IInv, Books, NEW t \in Threads, Check2(t) PROVE Books'
  <1> DEFINE asked == {Arg(t)} \cup
                      (IF Fn(t) = "CopyObjData" THEN {Own(t)} ELSE {})
             fit == \A r \in asked : session[r].active /\ ~session[r].extOpt
  <1>1. call[t].pc = "check2" /\ Own(t) \in Runs
    BY InCall DEF Check2, At
  <1>2. CASE ~fit
    BY <1>1, <1>2, RefuseBooks DEF Check2
  <1>3. CASE fit
    <2>1. Goto(t, "body") /\ UNCHANGED <<mgr, session, torn, exited>>
      BY <1>3 DEF Check2
    <2>2. call'[t].pc = "body" /\ Own(t)' = Own(t) /\ Arg(t)' = Arg(t)
          /\ Fn(t)' = Fn(t) /\ call'[t].worst = call[t].worst
      BY <2>1 DEF IInv, CallType, CallRec, Goto, Own, Arg, Fn
    <2>3. Legal(t)'
      BY <1>1, <1>3, <2>1, <2>2 DEF Books, Legal, InSecond
    <2>4. Held(t)' = Held(t)
      BY <1>1, <2>1, <2>2 DEF Held, Inside
    <2>5. Covers(t)'
      BY <1>1, <2>1, <2>2, <2>4 DEF Books, Covers, Inside
    <2> QED
      BY <1>1, <2>1, <2>3, <2>5, GotoBooks
  <1> QED
    BY <1>2, <1>3

\* The work of a function that is allowed leaves the sessions in order.
LEMMA EffectFacts ==
  ASSUME SessionOK, NEW f, NEW r \in Runs, NEW r2,
         f = "StartExtOpt" => session[r].active
  PROVE  /\ Effect(f, r, r2) \in [Runs -> SessionRec]
         /\ \A q \in Runs : /\ Effect(f, r, r2)[q].alive = session[q].alive
                            /\ q # r => Effect(f, r, r2)[q] = session[q]
                            /\ Effect(f, r, r2)[q].extOpt =>
                                 Effect(f, r, r2)[q].active
  <1> DEFINE e == Effect(f, r, r2)
  <1>1. PICK a \in BOOLEAN, x \in BOOLEAN :
          /\ e = [session EXCEPT ![r].active = a, ![r].extOpt = x]
          /\ x => a
    <2>1. session = [session EXCEPT ![r].active = session[r].active,
                                    ![r].extOpt = session[r].extOpt]
      BY DEF SessionOK, SessionRec
    <2>2. CASE f = "Initialize" \/ (f = "CopyData" /\ r # r2)
      BY <2>2 DEF Effect
    <2>3. CASE f = "DeleteRun"
      BY <2>3 DEF Effect
    <2>4. CASE f = "StartExtOpt"
      <3>1. e = [session EXCEPT ![r].active = TRUE, ![r].extOpt = TRUE]
        BY <2>4 DEF Effect, SessionOK, SessionRec
      <3> QED
        BY <3>1
    <2>5. CASE f \in {"FinishExtOpt", "ShutDownExtOpt"}
      <3>1. e = [session EXCEPT ![r].active = session[r].active, ![r].extOpt = FALSE]
        BY <2>5 DEF Effect, SessionOK, SessionRec
      <3>2. session[r].active \in BOOLEAN
        BY DEF SessionOK, SessionRec
      <3> QED
        BY <3>1, <3>2
    <2>6. CASE ~(f = "Initialize" \/ (f = "CopyData" /\ r # r2)) /\
               f \notin {"DeleteRun", "StartExtOpt", "FinishExtOpt", "ShutDownExtOpt"}
      <3>1. e = session
        BY <2>6 DEF Effect
      <3>2. /\ session[r].active \in BOOLEAN /\ session[r].extOpt \in BOOLEAN
            /\ session[r].extOpt => session[r].active
        BY DEF SessionOK, SessionRec
      <3> QED
        BY <2>1, <3>1, <3>2
    <2> QED
      BY <2>2, <2>3, <2>4, <2>5, <2>6
  <1> HIDE DEF e
  <1>2. e \in [Runs -> SessionRec]
    BY <1>1 DEF SessionOK, SessionRec
  <1>3. ASSUME NEW q \in Runs
        PROVE  /\ e[q].alive = session[q].alive
               /\ q # r => e[q] = session[q]
               /\ e[q].extOpt => e[q].active
    BY <1>1 DEF SessionOK, SessionRec
  <1> QED
    BY <1>2, <1>3 DEF e

LEMMA BodyBooks ==
  ASSUME IInv, Books, NEW t \in Threads, Work(t) \/ Warn(t) \/ Fail(t)
  PROVE  Books'
  <1>1. /\ call[t].pc = "body" /\ Own(t) \in Runs /\ InUse(t) = {Own(t), Arg(t)}
    BY InCall DEF Work, Warn, Fail, At
  <1>2. Fn(t) = "StartExtOpt" => session[Own(t)].active
    BY <1>1 DEF Books, Legal, Allowed, PreInit
  <1> DEFINE e == Effect(Fn(t), Own(t), Arg(t))
  <1>a. /\ SessionOK
        /\ session \in [Runs -> SessionRec]
        /\ \A q \in Runs : session[q].extOpt => session[q].active
    BY DEF Books, SessionOK
  <1>b. /\ e \in [Runs -> SessionRec]
        /\ \A q \in Runs : /\ e[q].alive = session[q].alive
                           /\ q # Own(t) => e[q] = session[q]
                           /\ e[q].extOpt => e[q].active
    BY <1>1, <1>2, <1>a, EffectFacts
  <1> HIDE DEF e
  <1>3. \A s \in {session, e} :
          /\ s \in [Runs -> SessionRec]
          /\ \A q \in Runs : /\ s[q].alive = session[q].alive
                             /\ q # Own(t) => s[q] = session[q]
                             /\ s[q].extOpt => s[q].active
    BY <1>a, <1>b
  <1>4. CASE Work(t)
    <2>1. /\ Goto(t, "finish") /\ UNCHANGED mgr
          /\ session' = e
      BY <1>4 DEF Work, e
    <2>2. /\ call'[t].pc = "finish" /\ Own(t)' = Own(t) /\ Arg(t)' = Arg(t)
          /\ Fn(t)' = Fn(t) /\ call'[t].worst = call[t].worst
          /\ \A u \in Threads \ {t} : call'[u] = call[u]
      BY <2>1 DEF IInv, CallType, CallRec, Goto, Own, Arg, Fn
    <2>3. /\ SessionOK'
          /\ \A q \in Runs : /\ session'[q].alive = session[q].alive
                             /\ q # Own(t) => session'[q] = session[q]
      BY <1>3, <2>1 DEF SessionOK
    <2>4. Legal(t)'
      <3>1. Arg(t) # NoRun => Arg(t) \in Runs
        BY DEF IInv, CallType, CallRec, Arg
      <3> QED
        BY <1>1, <2>2, <2>3, <3>1 DEF Books, Legal, InSecond
    <2>5. Held(t)' = Held(t)
      BY <1>1, <2>1, <2>2 DEF Held, Inside
    <2>6. Covers(t)'
      BY <1>1, <2>1, <2>2, <2>5 DEF Books, Covers, Inside
    <2> QED
      BY <1>1, <2>1, <2>2, <2>3, <2>4, <2>6, MyBooks
  <1>5. CASE Warn(t)
    <2>1. PICK r \in Held(t) : Issue(t, r, WARNING)
      BY <1>5 DEF Warn
    <2>2. session' = session /\ SessionOK'
      BY <1>5 DEF Warn, Books, SessionOK
    <2> QED
      BY <1>1, <2>1, <2>2, IssueBooks DEF Severities
  <1>6. CASE Fail(t)
    <2>1. PICK r \in Held(t), severity \in {SEVERE, FATAL} : Issue(t, r, severity)
      BY <1>6 DEF Fail
    <2>2. severity \in Severities /\ ~(severity <= WARNING)
      BY DEF Severities
    <2>3. session' \in {session, e}
      BY <1>6 DEF Fail, e
    <2>4. /\ SessionOK'
          /\ \A q \in Runs : /\ session'[q].alive = session[q].alive
                             /\ q # Own(t) => session'[q] = session[q]
      BY <1>3, <2>3 DEF SessionOK
    <2> QED
      BY <1>1, <2>1, <2>2, <2>4, IssueBooks
  <1> QED
    BY <1>4, <1>5, <1>6

\* The return code of a run whose call ends covers its second run.
LEMMA FinishedCode ==
  ASSUME NEW m \in [Runs -> MgrRec], NEW r \in Runs
  PROVE  \A q \in Runs : q = r \/ q = m[r].mgr2 =>
           Finished(m, r)[r].apiRc >= m[q].apiRc
  <1> DEFINE r2 == m[r].mgr2
  <1>1. /\ m[r] \in MgrRec /\ r2 \in Runs \cup {NoRun}
        /\ Finished(m, r)[r].apiRc =
             IF r2 = NoRun THEN m[r].apiRc ELSE Worse(m[r].apiRc, m[r2].apiRc)
    BY DEF Finished, MgrRec
  <1>2. \A q \in Runs : m[q].apiRc \in Severities
    BY DEF MgrRec
  <1>3. ASSUME NEW q \in Runs, q = r
        PROVE  Finished(m, r)[r].apiRc >= m[q].apiRc
    <2>1. CASE r2 = NoRun
      BY <1>1, <1>2, <1>3, <2>1 DEF Severities
    <2>2. CASE r2 \in Runs
      BY <1>1, <1>2, <1>3, <2>2, NoRunAssumption DEF Worse, Severities
    <2> QED
      BY <1>1, <2>1, <2>2
  <1>4. ASSUME NEW q \in Runs, q = r2
        PROVE  Finished(m, r)[r].apiRc >= m[q].apiRc
    BY <1>1, <1>2, <1>4, NoRunAssumption DEF Worse, Severities
  <1> QED
    BY <1>3, <1>4

LEMMA FinishBooks ==
  ASSUME IInv, Books, NEW t \in Threads, FinishApiFunc(t) \/ HandleAbortApiExc(t)
  PROVE  Books'
  <1>1. /\ call[t].pc \in {"finish", "handle"} /\ Own(t) \in Runs
        /\ InUse(t) = {Own(t), Arg(t)}
        /\ LocalInv(t, InUse(t) \cap Runs)
        /\ Held(t) \subseteq InUse(t) \cap Runs
    BY InCall DEF FinishApiFunc, HandleAbortApiExc, At
  <1>2. /\ mgr[Own(t)].mgr2 \in {NoRun, Arg(t)} \ {Own(t)}
        /\ Held(t) = {Own(t)} \cup {r \in Runs : r = mgr[Own(t)].mgr2}
    BY <1>1 DEF LocalInv, Shape, Held, Inside
  <1>3. BothLocked(Own(t))
    BY <1>1, <1>2 DEF BothLocked, LocalInv
  <1>4. mgr \in [Runs -> MgrRec]
    BY DEF IInv, MgrType
  <1>5. PICK m \in [Runs -> MgrRec] :
          /\ mgr' = Finished(m, Own(t))
          /\ \A q \in Runs : /\ m[q].mgr2 = mgr[q].mgr2
                             /\ m[q].apiRc = mgr[q].apiRc
                             /\ q \notin {Own(t), mgr[Own(t)].mgr2} => m[q] = mgr[q]
    <2>1. CASE FinishApiFunc(t)
      BY <1>3, <1>4, <2>1 DEF FinishApiFunc
    <2>2. CASE HandleAbortApiExc(t)
      <3>1. PICK m \in [Runs -> MgrRec] : m = Marked(mgr, Own(t))
        BY <1>1, <1>4, MarkedFacts
      <3>2. mgr' = Finished(m, Own(t))
        <4>1. mgr' = Finished(Marked(mgr, Own(t)), Own(t))
          BY <1>3, <2>2 DEF HandleAbortApiExc
        <4> QED
          BY <3>1, <4>1, Zenon
      <3>3. \A q \in Runs : /\ m[q].mgr2 = mgr[q].mgr2
                            /\ q \notin {Own(t), mgr[Own(t)].mgr2} => m[q] = mgr[q]
        BY <1>1, <1>4, <3>1, MarkedFacts
      <3>4. \A q \in Runs : m[q].apiRc = mgr[q].apiRc
        BY <1>4, <3>1 DEF Marked, MgrRec
      <3> QED
        BY <3>2, <3>3, <3>4
    <2> QED
      BY <2>1, <2>2
  <1>6. /\ Goto(t, "return") /\ UNCHANGED session
    BY <1>3 DEF FinishApiFunc, HandleAbortApiExc
  <1>7. /\ call'[t].pc = "return" /\ Own(t)' = Own(t) /\ Arg(t)' = Arg(t)
        /\ Fn(t)' = Fn(t) /\ call'[t].worst = call[t].worst
        /\ \A u \in Threads \ {t} : call'[u] = call[u]
    BY <1>6 DEF IInv, CallType, CallRec, Goto, Own, Arg, Fn
  <1>8. m[Own(t)].mgr2 # Own(t)
    BY <1>1, <1>2, <1>5
  <1>9. \A q \in Runs : q \notin {Own(t), mgr[Own(t)].mgr2} => mgr'[q] = mgr[q]
    BY <1>1, <1>5, <1>8, FinishedFacts
  <1>10. \A q \in Held(t) : mgr'[Own(t)].apiRc >= mgr[q].apiRc
    BY <1>1, <1>2, <1>5, FinishedCode
  <1>11. Covers(t)'
    <2>1. PICK q \in Held(t) : mgr[q].apiRc >= call[t].worst
      BY <1>1 DEF Books, Covers, Inside
    <2>2. mgr'[Own(t)].apiRc >= mgr[q].apiRc
      BY <1>10
    <2>3. /\ mgr[q].apiRc \in Nat /\ call[t].worst \in Nat
      BY <1>1 DEF IInv, MgrType, MgrRec, CallType, CallRec, Severities
    <2>4. mgr'[Own(t)].apiRc \in Nat
      <3>1. Finished(m, Own(t)) \in [Runs -> MgrRec]
        BY <1>1, <1>8, FinishedFacts
      <3> QED
        BY <1>1, <1>5, <3>1 DEF MgrRec, Severities
    <2>5. mgr'[Own(t)].apiRc >= call'[t].worst
      BY <1>7, <2>1, <2>2, <2>3, <2>4
    <2> QED
      BY <1>7, <2>5 DEF Covers, Inside
  <1>12. Legal(t)'
    BY <1>1, <1>6, <1>7 DEF Books, Legal, InSecond
  <1>13. SessionOK'
    BY <1>6 DEF Books, SessionOK
  <1>14. \A r \in Runs \ InUse(t) : mgr'[r] = mgr[r] /\ session'[r] = session[r]
    BY <1>1, <1>2, <1>6, <1>9, NoRunAssumption
  <1> QED
    BY <1>1, <1>7, <1>11, <1>12, <1>13, <1>14, MyBooks

LEMMA ReturnBooks == ASSUME IInv, Books, NEW t \in Threads, Return(t) PROVE Books'
  <1> DEFINE rc == mgr[Own(t)].apiRc
  <1>1. /\ call[t].pc = "return" /\ Own(t) \in Runs
        /\ UNCHANGED <<mgr, session>>
        /\ rc >= call[t].worst
    BY InCall DEF Return, At, Books, Covers
  <1>2. call[t] \in CallRec /\ t \in DOMAIN call
    BY DEF IInv, CallType
  <1>3. CASE Fn(t) = "DeleteRun" /\ rc <= WARNING
    <2>1. call' = [call EXCEPT ![t].rc = rc, ![t].pc = "delete"]
      BY <1>3 DEF Return
    <2>2. /\ call'[t].pc = "delete" /\ call'[t].rc = rc
          /\ call'[t].worst = call[t].worst
          /\ Own(t)' = Own(t) /\ Arg(t)' = Arg(t) /\ Fn(t)' = Fn(t)
          /\ \A u \in Threads \ {t} : call'[u] = call[u]
      BY <2>1 DEF IInv, CallType, CallRec, Own, Arg, Fn
    <2>3. Legal(t)' /\ Covers(t)'
      BY <1>1, <2>2 DEF Books, Legal, Covers, InSecond, Inside
    <2>4. SessionOK'
      BY <1>1 DEF Books, SessionOK
    <2> QED
      BY <1>1, <2>2, <2>3, <2>4, MyBooks
  <1>4. CASE ~(Fn(t) = "DeleteRun" /\ rc <= WARNING)
    <2>1. call' = [call EXCEPT ![t] = Idle(call[t].worst, rc)]
      BY <1>4 DEF Return
    <2>2. /\ call'[t] = Idle(call[t].worst, rc)
          /\ \A u \in Threads \ {t} : call'[u] = call[u]
      BY <1>2, <2>1
    <2>3. Legal(t)' /\ Covers(t)'
      BY <1>1, <2>2 DEF Idle, Legal, Covers, InSecond, Inside
    <2>4. SessionOK'
      BY <1>1 DEF Books, SessionOK
    <2> QED
      BY <1>1, <2>2, <2>3, <2>4, MyBooks
  <1> QED
    BY <1>3, <1>4

LEMMA DeleteBooks == ASSUME IInv, Books, NEW t \in Threads, Delete(t) PROVE Books'
  <1>1. /\ call[t].pc = "delete" /\ Own(t) \in Runs
        /\ LocalInv(t, InUse(t) \cap Runs) /\ InUse(t) = {Own(t), Arg(t)}
        /\ call[t].rc >= call[t].worst
    BY InCall DEF Delete, At, Books, Covers
  <1>2. ~mgr[Own(t)].locked
    BY <1>1 DEF LocalInv, Held, Inside
  <1>3. /\ session' = [session EXCEPT ![Own(t)] = NoSession]
        /\ mgr' = [mgr EXCEPT ![Own(t)] = NewMgr]
        /\ call' = [call EXCEPT ![t] = Idle(call[t].worst, call[t].rc)]
    BY <1>2 DEF Delete
  <1>4. /\ call'[t] = Idle(call[t].worst, call[t].rc)
        /\ \A u \in Threads \ {t} : call'[u] = call[u]
    BY <1>3 DEF IInv, CallType
  <1>5. Legal(t)' /\ Covers(t)'
    BY <1>1, <1>4 DEF Idle, Legal, Covers, InSecond, Inside
  <1>6. NoSession \in SessionRec /\ NoSession.extOpt = FALSE
    BY DEF NoSession, NewSession, SessionRec
  <1>7. SessionOK'
    BY <1>1, <1>3, <1>6 DEF Books, SessionOK
  <1>8. \A r \in Runs \ InUse(t) : mgr'[r] = mgr[r] /\ session'[r] = session[r]
    BY <1>1, <1>3 DEF IInv, MgrType, Books, SessionOK
  <1> QED
    BY <1>1, <1>4, <1>5, <1>7, <1>8, MyBooks

\* A call begins: its runs exist, and nothing has been issued.
LEMMA BeginBooks ==
  ASSUME IInv, Books, NEW t \in Threads, NEW f \in Functions, NEW r \in Runs,
         NEW r2 \in Runs \cup {NoRun}, Call(t, f, r, r2)
  PROVE  Books'
  <1> DEFINE S == {r, r2} \cap Runs
  <1>1. /\ \A u \in Threads \ {t} : InUse(u) \cap S = {} /\ call'[u] = call[u]
        /\ call'[t] = [pc |-> "test", fn |-> f, run |-> r, arg |-> r2,
                       worst |-> INFORMATIONAL, rc |-> INFORMATIONAL]
        /\ r2 # NoRun => f \in TwoRuns /\ session[r2].alive
    BY DEF Call, IInv, CallType
  <1>2. /\ \A q \in Runs \ S : mgr'[q] = mgr[q] /\ session'[q] = session[q]
        /\ SessionOK'
        /\ session'[r].alive
        /\ f # "NewRun" => session' = session
    <2>1. CASE f = "NewRun"
      <3>1. /\ mgr' = [mgr EXCEPT ![r] = NewMgr]
            /\ session' = [session EXCEPT ![r] = NewSession]
        BY <2>1 DEF Call
      <3>2. NewSession \in SessionRec /\ ~NewSession.extOpt /\ NewSession.alive
        BY DEF NewSession, SessionRec
      <3>3. SessionOK' /\ session'[r].alive
        BY <3>1, <3>2 DEF Books, SessionOK
      <3> QED
        BY <2>1, <3>1, <3>3 DEF IInv, MgrType, Books, SessionOK
    <2>2. CASE f # "NewRun"
      BY <2>2 DEF Call, Books, SessionOK
    <2> QED
      BY <2>1, <2>2
  <1>3. Legal(t)'
    <2>1. /\ call'[t].pc = "test" /\ Own(t)' = r /\ Arg(t)' = r2 /\ Fn(t)' = f
      BY <1>1 DEF Own, Arg, Fn
    <2>2. r2 # NoRun => f \in TwoRuns /\ session'[r2].alive
      BY <1>1, <1>2 DEF TwoRuns
    <2> QED
      BY <1>2, <2>1, <2>2 DEF Legal, InSecond
  <1>4. Covers(t)'
    BY <1>1 DEF Covers, Inside
  <1>5. ASSUME NEW u \in Threads \ {t} PROVE Legal(u)' /\ Covers(u)'
    BY <1>1, <1>2, OthersBooks
  <1> QED
    BY <1>2, <1>3, <1>4, <1>5 DEF Books

LEMMA NextBooks == IInv /\ Books /\ [Next]_vars => Books'
  <1> SUFFICES ASSUME IInv, Books, [Next]_vars PROVE Books'
    OBVIOUS
  <1>1. CASE UNCHANGED vars
    <2>1. UNCHANGED <<mgr, session, call>>
      BY <1>1 DEF vars
    <2>2. \A t \in Threads : Legal(t)' /\ Covers(t)'
      BY <2>1 DEF Books, Legal, Covers, Own, Arg, Fn, Held
    <2> QED
      BY <2>1, <2>2 DEF Books, SessionOK
  <1>2. ASSUME NEW t \in Threads, Step(t) PROVE Books'
    BY <1>2, TestLockBooks, LockBooks, StartBooks, SecondBooks, Lock2Books,
       Check2Books, BodyBooks, FinishBooks, ReturnBooks, DeleteBooks DEF Step
  <1> QED
    BY <1>1, <1>2, BeginBooks DEF Next, Ended

AllBooks == IInv /\ Books

LEMMA SpecAllBooks == Spec => []AllBooks
  <1>1. Init => AllBooks
    BY InitIInv, InitBooks DEF AllBooks
  <1>2. AllBooks /\ [Next]_vars => AllBooks'
    BY NextIInv, NextBooks DEF AllBooks
  <1> QED
    BY <1>1, <1>2, PTL DEF Spec

\* Whatever the threads, the runs and the functions of the application: the
\* work of a function starts only on runs that exist and are in a state that
\* the function is made for (startInnerFunc, startCopyObjData, witCopyData),
\* and that is still so when it starts.
THEOREM WorkStaysAllowed == Spec => []WorkIsAllowed
  <1>1. AllBooks => WorkIsAllowed
    <2> SUFFICES ASSUME AllBooks, NEW t \in Threads, call[t].pc = "body"
                 PROVE  /\ \A r \in Held(t) : session[r].alive
                        /\ Fn(t) \notin PreInit => session[Own(t)].active
                        /\ Fn(t) \in {"Ordinary", "StartExtOpt"} =>
                             ~session[Own(t)].extOpt
                        /\ Fn(t) = "CopyObjData" => session[Own(t)].active
                        /\ Fn(t) \in TwoRuns => /\ session[Arg(t)].active
                                                /\ \A r \in Held(t) : ~session[r].extOpt
      BY DEF WorkIsAllowed
    <2>1. Legal(t) /\ Allowed(Fn(t), session[Own(t)])
      BY DEF AllBooks, Books, Legal
    <2>2. /\ LocalInv(t, InUse(t) \cap Runs)
          /\ Held(t) \subseteq InUse(t) \cap Runs /\ InUse(t) = {Own(t), Arg(t)}
      BY InCall DEF AllBooks
    <2>3. \A r \in Held(t) : r = Own(t) \/ (r = Arg(t) /\ Arg(t) # NoRun)
      BY <2>2, NoRunAssumption
    <2>4. \A r \in Held(t) : session[r].alive
      BY <2>1, <2>3 DEF Legal
    <2>5. Fn(t) \notin PreInit => session[Own(t)].active
      BY <2>1 DEF Allowed
    <2>6. Fn(t) \in {"Ordinary", "StartExtOpt"} => ~session[Own(t)].extOpt
      BY <2>1 DEF Allowed, ExtOptOk, PreInit
    <2>7. Fn(t) \in TwoRuns => /\ session[Arg(t)].active /\ ~session[Arg(t)].extOpt
                               /\ ~session[Own(t)].extOpt
      BY <2>1 DEF Legal, TwoRuns
    <2>8. Fn(t) = "CopyObjData" => session[Own(t)].active
      BY <2>1 DEF Legal, TwoRuns
    <2> QED
      BY <2>3, <2>4, <2>5, <2>6, <2>7, <2>8
  <1> QED
    BY <1>1, SpecAllBooks, PTL

\* The code that a call returns is at least as severe as every message issued
\* in it, for its own run or for the second one (finishApiFunc,
\* handleAbortApiExc, start2WitRunFunc).
THEOREM ReturnCodesCover == Spec => []ReturnCodeCovers
  <1>1. AllBooks => ReturnCodeCovers
    BY DEF AllBooks, Books, Covers, ReturnCodeCovers
  <1> QED
    BY <1>1, SpecAllBooks, PTL
===============================================================================
