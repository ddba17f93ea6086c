-------------------------------- MODULE ApiMgr --------------------------------
(***************************************************************************)
(* The API manager of WIT: class WitApiMgr (ApiMgr.h, ApiMgr.C) and the    *)
(* wrapper that every API function goes through (api.C).                   *)
(*                                                                         *)
(* An application has several WitRuns and may call WIT from several        *)
(* threads.  Each call locks the run it is for, refuses to work on a run   *)
(* whose earlier call was aborted, checks that the function is allowed in  *)
(* the state of the run, does the work, and unlocks.  A copying function   *)
(* does the same to a second run in the middle of the call.  An error is   *)
(* thrown as an exception, which marks every run that the call has locked. *)
(*                                                                         *)
(* The application respects the documented restriction: it never makes     *)
(* overlapping calls for one run.                                          *)
(***************************************************************************)
EXTENDS Naturals

CONSTANTS
  Threads,      \* the threads of the application
  Runs,         \* places for WitRuns
  NoRun,        \* the NULL pointer to a WitRun
  Used          \* the kinds of API function that the application uses

Functions ==
  {"NewRun", "DeleteRun", "Message", "Initialize", "CopyData", "CopyObjData",
   "Get", "Ordinary", "StartExtOpt", "FinishExtOpt", "ShutDownExtOpt"}

ASSUME NoRunAssumption == NoRun \notin Runs
ASSUME UsedAssumption  == Used \subseteq Functions

VARIABLES
  mgr,      \* the WitApiMgr of each run
  session,  \* what the manager asks of the rest of the run
  call,     \* the latest call of each thread
  torn,     \* history: the runs on which the work of a call was cut short
  exited    \* how the process ended, "no" while it runs

vars == <<mgr, session, call, torn, exited>>

-------------------------------------------------------------------------------
\* Functions that may be called before witInitialize, those that may be called
\* while external optimization is active (the ones named witGet... included),
\* and those with a second run as an argument.
PreInit == {"NewRun", "DeleteRun", "Message", "Initialize",
            "CopyData", "CopyObjData"}
ExtOptOk == PreInit \cup {"Get", "FinishExtOpt", "ShutDownExtOpt"}
TwoRuns == {"CopyData", "CopyObjData"}

INFORMATIONAL == 0
WARNING       == 1
SEVERE        == 2
FATAL         == 3
Severities    == INFORMATIONAL..FATAL

Worse(a, b) == IF a > b THEN a ELSE b

NewMgr == [locked |-> FALSE, apiRc |-> INFORMATIONAL,
           prevApiAbort |-> FALSE, mgr2 |-> NoRun]

NewSession == [alive |-> TRUE, active |-> FALSE, extOpt |-> FALSE]

NoSession == [NewSession EXCEPT !.alive = FALSE]

\* A thread outside WIT: what its last call issued at worst, and returned.
Idle(worst, rc) == [pc |-> "idle", fn |-> "Get", run |-> NoRun, arg |-> NoRun,
                    worst |-> worst, rc |-> rc]

Fn(t)   == call[t].fn
Own(t)  == call[t].run
Arg(t)  == call[t].arg
At(t, label) == call[t].pc = label /\ exited = "no"

\* Where a thread has locked its own run.
Inside == {"start", "second", "test2", "lock2", "check2", "body",
           "finish", "handle"}

\* The runs that a thread has locked.
Held(t) ==
  IF call[t].pc \notin Inside THEN {}
  ELSE {Own(t)} \cup
       {r \in Runs : /\ r = mgr[Own(t)].mgr2
                     /\ call[t].pc \notin {"test2", "lock2"}}

\* The runs that a call in progress is for.
InUse(t) == IF call[t].pc = "idle" THEN {} ELSE {Own(t), Arg(t)}

Goto(t, label) == call' = [call EXCEPT ![t].pc = label]

\* The message manager issues a message of run r in the call of thread t; it
\* throws the exception that aborts the call if it is an error message.
Issue(t, r, severity) ==
  /\ mgr'  = [mgr  EXCEPT ![r].apiRc = Worse(@, severity)]
  /\ call' = [call EXCEPT ![t].worst = Worse(@, severity),
                          ![t].pc = IF severity > WARNING THEN "handle" ELSE @]

Refuse(t) == Issue(t, Own(t), SEVERE) /\ UNCHANGED <<session, torn, exited>>

Stop(reason) == exited' = reason /\ UNCHANGED <<mgr, session, call, torn>>

-------------------------------------------------------------------------------
\* A thread calls an API function for a run that exists and that no other call
\* is for, or for a new run.  Only a copying function has a second argument.
Call(t, f, r, r2) ==
  /\ At(t, "idle")
  /\ f \in Used
  /\ r2 # NoRun => f \in TwoRuns /\ session[r2].alive
  /\ \A u \in Threads \ {t} : InUse(u) \cap ({r, r2} \cap Runs) = {}
  /\ call' = [call EXCEPT ![t] = [pc |-> "test", fn |-> f, run |-> r, arg |-> r2,
                                  worst |-> INFORMATIONAL,
                                  rc |-> INFORMATIONAL]]
  /\ IF f = "NewRun"
     THEN /\ ~session[r].alive
          /\ mgr' = [mgr EXCEPT ![r] = NewMgr]
          /\ session' = [session EXCEPT ![r] = NewSession]
          /\ torn' = torn \ {r}
     ELSE session[r].alive /\ UNCHANGED <<mgr, session, torn>>
  /\ UNCHANGED exited

\* lockMyWitRun, first half: a locked run is taken for an overlapping call.
TestLock(t) ==
  /\ At(t, "test")
  /\ IF mgr[Own(t)].locked
     THEN Stop("overlap")
     ELSE Goto(t, "lock") /\ UNCHANGED <<mgr, session, torn, exited>>

\* lockMyWitRun, second half, and the rest of startApiFunc.
Lock(t) ==
  /\ At(t, "lock")
  /\ LET poisoned == mgr[Own(t)].prevApiAbort
         severity == IF poisoned THEN SEVERE ELSE INFORMATIONAL
     IN  /\ mgr' = [mgr EXCEPT ![Own(t)].locked = TRUE,
                               ![Own(t)].apiRc  = severity]
         /\ call' = [call EXCEPT ![t].worst = severity,
                                 ![t].pc = IF poisoned THEN "handle" ELSE "start"]
  /\ UNCHANGED <<session, torn, exited>>

\* startInnerFunc: is the function allowed in the state of the run?
Allowed(f, s) ==
  /\ f \in PreInit \/ s.active
  /\ f \in ExtOptOk \/ ~s.extOpt

StartInnerFunc(t) ==
  /\ At(t, "start")
  /\ IF Allowed(Fn(t), session[Own(t)])
     THEN /\ Goto(t, IF Fn(t) \in TwoRuns THEN "second" ELSE "body")
          /\ UNCHANGED <<mgr, session, torn, exited>>
     ELSE Refuse(t)

\* The copying functions up to the lock of the original run.  witCopyData asks
\* first whether the duplicate run is in external optimization.
RefusesSecond(t) ==
  \/ Fn(t) = "CopyData" /\ session[Own(t)].active /\ session[Own(t)].extOpt
  \/ Arg(t) = NoRun

Second(t) ==
  /\ At(t, "second")
  /\ IF RefusesSecond(t) THEN Refuse(t)
     ELSE IF Arg(t) = Own(t)
     THEN Goto(t, "check2") /\ UNCHANGED <<mgr, session, torn, exited>>
     ELSE /\ mgr' = [mgr EXCEPT ![Own(t)].mgr2 = Arg(t)]
          /\ Goto(t, "test2")
          /\ UNCHANGED <<session, torn, exited>>

TestLock2(t) ==
  /\ At(t, "test2")
  /\ IF mgr[Arg(t)].locked
     THEN Stop("overlap")
     ELSE Goto(t, "lock2") /\ UNCHANGED <<mgr, session, torn, exited>>

\* start2WitRunFunc.  The return code of the second run is reset only if the
\* run may be used.
Lock2(t) ==
  /\ At(t, "lock2")
  /\ IF mgr[Arg(t)].prevApiAbort
     THEN /\ mgr' = [mgr EXCEPT ![Arg(t)].locked = TRUE,
                                ![Own(t)].apiRc  = Worse(@, SEVERE)]
          /\ call' = [call EXCEPT ![t].worst = Worse(@, SEVERE),
                                  ![t].pc = "handle"]
     ELSE /\ mgr' = [mgr EXCEPT ![Arg(t)].locked = TRUE,
                                ![Arg(t)].apiRc  = INFORMATIONAL]
          /\ Goto(t, "check2")
  /\ UNCHANGED <<session, torn, exited>>

\* Mutant: a run in the wrong state is waited for.
Check2Spins(t) ==
  /\ At(t, "check2")
  /\ IF session[Arg(t)].active /\ ~session[Arg(t)].extOpt
     THEN Goto(t, "body") /\ UNCHANGED <<mgr, session, torn, exited>>
     ELSE UNCHANGED vars

\* Mutant: only the original run is looked at.
Check2OnlyOrig(t) ==
  /\ At(t, "check2")
  /\ IF session[Arg(t)].active /\ ~session[Arg(t)].extOpt
     THEN Goto(t, "body") /\ UNCHANGED <<mgr, session, torn, exited>>
     ELSE Refuse(t)

\* The copying functions after it: the state of the run (startCopyObjData
\* only) and of the original run.
Check2(t) ==
  /\ At(t, "check2")
  /\ LET asked == {Arg(t)} \cup
                  (IF Fn(t) = "CopyObjData" THEN {Own(t)} ELSE {})
     IN  IF \A r \in asked : session[r].active /\ ~session[r].extOpt
         THEN Goto(t, "body") /\ UNCHANGED <<mgr, session, torn, exited>>
         ELSE Refuse(t)

\* What the work of a function does to the session of its run.  Only the
\* functions that need external optimization to be active ask for it here.
Effect(f, r, r2) ==
  CASE f = "Initialize" \/ (f = "CopyData" /\ r # r2)
         -> [session EXCEPT ![r].active = TRUE, ![r].extOpt = FALSE]
    [] f = "DeleteRun"
         -> [session EXCEPT ![r].active = FALSE, ![r].extOpt = FALSE]
    [] f = "StartExtOpt"
         -> [session EXCEPT ![r].extOpt = TRUE]
    [] f \in {"FinishExtOpt", "ShutDownExtOpt"}
         -> [session EXCEPT ![r].extOpt = FALSE]
    [] OTHER -> session

EndsExtOpt == {"FinishExtOpt", "ShutDownExtOpt"}
NeverFails == {"NewRun", "DeleteRun"}

\* The work of the function is done to its end.
Work(t) ==
  /\ At(t, "body")
  /\ Fn(t) \in EndsExtOpt => session[Own(t)].extOpt
  /\ session' = Effect(Fn(t), Own(t), Arg(t))
  /\ Goto(t, "finish")
  /\ UNCHANGED <<mgr, torn, exited>>

\* During the work a warning is issued, for the run or for the second one.
Warn(t) ==
  /\ At(t, "body")
  /\ Fn(t) \notin NeverFails
  /\ \E r \in Held(t) : Issue(t, r, WARNING)
  /\ UNCHANGED <<session, torn, exited>>

\* The work is cut short by an error, in its middle or at its end.
Fail(t) ==
  /\ At(t, "body")
  /\ Fn(t) \notin NeverFails
  /\ \E r \in Held(t), severity \in {SEVERE, FATAL} : Issue(t, r, severity)
  /\ session' \in {session} \cup
                  (IF Fn(t) \in EndsExtOpt THEN {}
                   ELSE {Effect(Fn(t), Own(t), Arg(t))})
  /\ torn' = torn \cup Held(t)
  /\ UNCHANGED exited

\* Mutant: the messages of the second run do not count.
FinishedOwnCode(m, r) ==
  [q \in Runs |-> IF q = r THEN [m[q] EXCEPT !.locked = FALSE, !.mgr2 = NoRun]
                  ELSE IF q = m[r].mgr2 THEN [m[q] EXCEPT !.locked = FALSE]
                  ELSE m[q]]

\* finishApiFunc, applied to the managers m: the return code is the worst of
\* the two runs, and both are unlocked.
Finished(m, r) ==
  LET r2 == m[r].mgr2
  IN  [q \in Runs |->
         IF q = r
         THEN [m[q] EXCEPT !.locked = FALSE, !.mgr2 = NoRun,
                           !.apiRc = IF r2 = NoRun THEN @
                                     ELSE Worse(@, m[r2].apiRc)]
         ELSE IF q = r2 THEN [m[q] EXCEPT !.locked = FALSE]
         ELSE m[q]]

\* The assertions of unlockMyWitRun.
BothLocked(r) ==
  /\ mgr[r].locked
  /\ mgr[r].mgr2 \in Runs => mgr[mgr[r].mgr2].locked

FinishApiFunc(t) ==
  /\ At(t, "finish")
  /\ IF BothLocked(Own(t))
     THEN /\ mgr' = Finished(mgr, Own(t))
          /\ Goto(t, "return")
          /\ UNCHANGED <<session, torn, exited>>
     ELSE Stop("assert")

\* Mutant: only the run of the call is marked.
MarkedOwn(m, r) == [m EXCEPT ![r].prevApiAbort = TRUE]

\* handleAbortApiExc: the runs of the call are marked before they are
\* unlocked.  abortApiFunc then stops the process, or returns or throws.
Marked(m, r) ==
  [q \in Runs |-> IF q = r \/ q = m[r].mgr2
                  THEN [m[q] EXCEPT !.prevApiAbort = TRUE] ELSE m[q]]

HandleAbortApiExc(t) ==
  /\ At(t, "handle")
  /\ IF BothLocked(Own(t))
     THEN /\ mgr' = Finished(Marked(mgr, Own(t)), Own(t))
          /\ Goto(t, "return")
          /\ exited' \in {"no", "stopRunning"}
          /\ UNCHANGED <<session, torn>>
     ELSE Stop("assert")

\* The call returns the code of its run.  witDeleteRun has more to do unless
\* the call that it makes of its own reports an error.
Return(t) ==
  /\ At(t, "return")
  /\ LET rc == mgr[Own(t)].apiRc
     IN  IF Fn(t) = "DeleteRun" /\ rc <= WARNING
         THEN call' = [call EXCEPT ![t].rc = rc, ![t].pc = "delete"]
         ELSE call' = [call EXCEPT ![t] = Idle(call[t].worst, rc)]
  /\ UNCHANGED <<mgr, session, torn, exited>>

Delete(t) ==
  /\ At(t, "delete")
  /\ IF mgr[Own(t)].locked
     THEN Stop("overlap")
     ELSE /\ session' = [session EXCEPT ![Own(t)] = NoSession]
          /\ mgr' = [mgr EXCEPT ![Own(t)] = NewMgr]
          /\ torn' = torn \ {Own(t)}
          /\ call' = [call EXCEPT ![t] = Idle(call[t].worst, call[t].rc)]
          /\ UNCHANGED exited

-------------------------------------------------------------------------------
Init ==
  /\ mgr = [r \in Runs |-> NewMgr]
  /\ session = [r \in Runs |-> NoSession]
  /\ call = [t \in Threads |-> Idle(INFORMATIONAL, INFORMATIONAL)]
  /\ torn = {}
  /\ exited = "no"

Step(t) ==
  \/ TestLock(t) \/ Lock(t) \/ StartInnerFunc(t)
  \/ Second(t) \/ TestLock2(t) \/ Lock2(t) \/ Check2(t)
  \/ Work(t) \/ Warn(t) \/ Fail(t)
  \/ FinishApiFunc(t) \/ HandleAbortApiExc(t) \/ Return(t) \/ Delete(t)

\* The process has ended.
Ended == exited # "no" /\ UNCHANGED vars

Next ==
  \/ \E t \in Threads :
       \/ \E f \in Functions, r \in Runs, r2 \in Runs \cup {NoRun} : Call(t, f, r, r2)
       \/ Step(t)
  \/ Ended

Spec == Init /\ [][Next]_vars

\* Each thread that is inside WIT goes on, whatever the others do: WIT has no
\* lock that a thread waits for.
FairSpec == Spec /\ \A t \in Threads : WF_vars(Step(t))

-------------------------------------------------------------------------------
(* Properties *)

TypeOK ==
  /\ mgr \in [Runs -> [locked : BOOLEAN, apiRc : Severities,
                       prevApiAbort : BOOLEAN, mgr2 : Runs \cup {NoRun}]]
  /\ session \in [Runs -> [alive : BOOLEAN, active : BOOLEAN, extOpt : BOOLEAN]]
  /\ call \in [Threads ->
                 [pc : Inside \cup {"idle", "test", "lock", "return", "delete"},
                  fn : Functions, run : Runs \cup {NoRun}, arg : Runs \cup {NoRun},
                  worst : Severities, rc : Severities]]
  /\ torn \subseteq Runs
  /\ exited \in {"no", "overlap", "assert", "stopRunning"}

\* A run is locked exactly while a call for it is in progress, as its first or
\* its second run, and it is locked by one call only; so that a call which was
\* aborted half-way leaves no run locked for good.
LockedWhileInCall ==
  /\ \A r \in Runs : mgr[r].locked <=> \E t \in Threads : r \in Held(t)
  /\ \A t, u \in Threads : t # u => Held(t) \cap Held(u) = {}

\* WIT never stops an application that respects the restriction on overlapping
\* calls with a thread-safety error, nor on an assertion about its locks.
NoFalseAlarm == exited \notin {"overlap", "assert"}

\* No work is ever done on a run, as first or second run of a call, on which
\* the work of an earlier call was cut short.
NeverOnTorn ==
  \A t \in Threads : call[t].pc \in {"body", "finish"} => Held(t) \cap torn = {}

\* Which runs a call may touch is right at every step: the ones it has locked,
\* it alone, and none that an aborted call has left half-done.
LockingIsRight == LockedWhileInCall /\ NoFalseAlarm /\ NeverOnTorn

\* The work of a function starts only in a state of its runs that the function
\* is made for: both runs of a copying function are initialized or will be,
\* and no run in external optimization is changed by an ordinary function.
WorkIsAllowed ==
  \A t \in Threads : call[t].pc = "body" =>
    /\ \A r \in Held(t) : session[r].alive
    /\ Fn(t) \notin PreInit => session[Own(t)].active
    /\ Fn(t) \in {"Ordinary", "StartExtOpt"} => ~session[Own(t)].extOpt
    /\ Fn(t) = "CopyObjData" => session[Own(t)].active
    /\ Fn(t) \in TwoRuns => /\ session[Arg(t)].active
                            /\ \A r \in Held(t) : ~session[r].extOpt

\* The code that a call returns is at least as severe as every message that
\* was issued in it, for its own run or for the second one.
ReturnCodeCovers ==
  \A t \in Threads : call[t].pc = "idle" => call[t].rc >= call[t].worst

\* Why these hold: how the place of a thread in its call and the managers of
\* its runs go together (the inductive invariant of ApiMgrProofs).
Ready == {"start", "second", "test2", "lock2", "check2", "body", "finish"}

Shape(t) ==
  /\ call[t].pc # "idle" => Own(t) \in Runs
  /\ call[t].pc \in {"test2", "lock2"} => Arg(t) \in Runs /\ Arg(t) = mgr[Own(t)].mgr2
  /\ call[t].pc \in Inside => mgr[Own(t)].mgr2 \in {NoRun, Arg(t)} \ {Own(t)}
  /\ call[t].pc \in {"start", "second"} => mgr[Own(t)].mgr2 = NoRun

CallShape == \A t \in Threads : Shape(t)

OnlyInside ==
  \A r \in Runs : mgr[r].mgr2 # NoRun =>
    \E t \in Threads : call[t].pc \in Inside /\ Own(t) = r

NoOverlap ==
  \A t, u \in Threads : t # u => InUse(t) \cap InUse(u) \cap Runs = {}

Unmarked(t) ==
  /\ call[t].pc \in Ready => ~mgr[Own(t)].prevApiAbort
  /\ call[t].pc \in {"check2", "body", "finish"} =>
       \A r \in Held(t) : ~mgr[r].prevApiAbort

ReadyIsUnmarked == \A t \in Threads : Unmarked(t)

TornIsMarked ==
  \A r \in torn : \/ mgr[r].prevApiAbort
                  \/ \E t \in Threads : call[t].pc = "handle" /\ r \in Held(t)

CallInv ==
  CallShape /\ OnlyInside /\ NoOverlap /\ ReadyIsUnmarked /\ TornIsMarked

\* Every call comes to an end, if the process does not.
CallsReturn ==
  \A t \in Threads :
    call[t].pc = "test" ~> (call[t].pc = "idle" \/ exited # "no")
===============================================================================
