---------------------------- MODULE MCProviders ----------------------------
(***************************************************************************)
(* Small instances of Providers.                                           *)
(***************************************************************************)
EXTENDS Providers, TLC

Symmetry == Permutations(Partners)
==============================================================================
