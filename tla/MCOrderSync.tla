----------------------------- MODULE MCOrderSync -----------------------------
(***************************************************************************)
(* Small instances of OrderSync: one failure code per class that the       *)
(* coordinator distinguishes.                                              *)
(***************************************************************************)
EXTENDS OrderSync, TLC

MCProviderCodes == {"PROVIDER_UNAVAILABLE", "PROVIDER_REJECTED",
                    "RECONCILIATION_REQUIRED"}

Symmetry == Permutations(Workers)
==============================================================================
