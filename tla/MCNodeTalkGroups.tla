-------------------------- MODULE MCNodeTalkGroups ---------------------------
(***************************************************************************)
(* A node that monitors t1 with priority, may monitor t2 for a while, and  *)
(* takes part in either.                                                   *)
(***************************************************************************)
EXTENDS NodeTalkGroups, TLC

CONSTANTS t1, t2

MCMonitorPrio == t1 :> 1
=============================================================================
