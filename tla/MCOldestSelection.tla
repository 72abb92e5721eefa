------------------------- MODULE MCOldestSelection -------------------------
(* A small instance of OldestSelection for TLC. *)
EXTENDS OldestSelection, TLC

CONSTANTS k1, k2, k3, k4

\* Keys are interchangeable: the order of the slice is chosen in Init.
AnyKey == Permutations(Keys)

=============================================================================
