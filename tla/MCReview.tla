------------------------------ MODULE MCReview ------------------------------
(***************************************************************************)
(* Small instances of Review.                                              *)
(***************************************************************************)
EXTENDS Review, TLC

Symmetry == Permutations(Operators) \cup Permutations(Orders)
             \cup Permutations(Purchases) \cup Permutations(Documents)

Clocks == {-3, 0, 3}
OneClock == {0}
==============================================================================
