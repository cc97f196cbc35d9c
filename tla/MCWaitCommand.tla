---------------------------- MODULE MCWaitCommand ----------------------------
(***************************************************************************)
(* Model values for TLC.                                                   *)
(***************************************************************************)
EXTENDS WaitCommand

CONSTANTS j1, j2, w1, w2, c1

AllowAll == Workers \X Jobs

\* w2 is started with a -gitRemoteFilterExpr that no job matches.
AllowFiltered == (Workers \ {w2}) \X Jobs
==============================================================================
