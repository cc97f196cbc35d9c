---------------------------- MODULE MCCreatedJobs ----------------------------
(***************************************************************************)
(* The instances of MCGoBenchAway, observed.                               *)
(***************************************************************************)
EXTENDS MCGoBenchAway, CreatedJobs
==============================================================================
