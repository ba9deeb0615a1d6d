--------------------------- MODULE MCNotifications ---------------------------
(***************************************************************************)
(* Small instances of Notifications.                                       *)
(***************************************************************************)
EXTENDS Notifications, TLC

Symmetry == Permutations(Notifications) \cup Permutations(Dispatchers)
==============================================================================
