------------------------------ MODULE MCSchema ------------------------------
(***************************************************************************)
(* Model values for TLC.                                                   *)
(***************************************************************************)
EXTENDS SchemaInvariant

CONSTANTS j1, a1, a2, w1, q1, q2

Symmetric == Permutations(Queues) \union Permutations(Admins)
=============================================================================
