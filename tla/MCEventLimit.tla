----------------------------- MODULE MCEventLimit -----------------------------
(***************************************************************************)
(* The instances of MCPositionLifecycle with the history of fills.         *)
(***************************************************************************)
EXTENDS MCPositionLifecycle, EventLimit
=============================================================================
