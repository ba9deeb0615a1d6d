------------------------------- MODULE MCIntake -------------------------------
(***************************************************************************)
(* Small instances of Intake.                                              *)
(***************************************************************************)
EXTENDS Intake

Symmetry == Permutations(Requests)
==============================================================================
