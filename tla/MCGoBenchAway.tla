---------------------------- MODULE MCGoBenchAway ----------------------------
(***************************************************************************)
(* Model values and filters for TLC.                                       *)
(***************************************************************************)
EXTENDS GoBenchAwayInvariant

CONSTANTS j1, j2, w1, w2, w3, c1, c2

AllowAll == Workers \X Jobs
==============================================================================
