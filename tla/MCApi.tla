-------------------------------- MODULE MCApi --------------------------------
(***************************************************************************)
(* Instances of ApiMgr for TLC.                                            *)
(***************************************************************************)
EXTENDS ApiMgr

\* Enough of them for every way through a call: two that the others wait for,
\* both kinds of copying, and functions that start, end and are refused in
\* external optimization.
McFunctions == {"NewRun", "DeleteRun", "Initialize", "CopyData", "CopyObjData",
                "StartExtOpt", "FinishExtOpt"}
==============================================================================
