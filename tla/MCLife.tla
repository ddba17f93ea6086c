-------------------------------- MODULE MCLife --------------------------------
\* The API functions that the runs of Lifecycle use.
EXTENDS Lifecycle

AllCalls ==
  {"Initialize", "Preprocess", "Postprocess", "GetExpCycle", "HeurImplode",
   "StartHeurAlloc", "EqHeurAlloc", "FinishHeurAlloc", "ShutDownHeurAlloc",
   "BuildPip", "GetFss", "OptImplode", "EvalObjectives", "StartExtOpt",
   "SetExtOptSoln", "FinishExtOpt", "ShutDownExtOpt", "SetUnpreAttr",
   "SetUnpostAttr", "SetVol", "SetBounds", "SetAccAfterOptImp",
   "SetAccAfterSoftLB", "SetModHeurAlloc", "SetPerfPegging",
   "SetOptInitMethod"}

\* All of the functions, and all but one of those that break a promise.
AllProfiles ==
  {AllCalls, AllCalls \ {"GetExpCycle"}, AllCalls \ {"EvalObjectives"},
   AllCalls \ {"ShutDownExtOpt"}}

ExpCycleProfiles == {{"Preprocess", "GetExpCycle", "SetUnpreAttr"}}
EvalProfiles     == {{"EvalObjectives", "SetBounds", "OptImplode"}}
ExtOptProfiles   == {{"StartExtOpt", "SetExtOptSoln", "FinishExtOpt",
                      "ShutDownExtOpt"}}

PlainGaps == {NoGap, Wide}
=============================================================================
