--------------------------- MODULE MCBootSession ----------------------------
(* A small card, one other clock manager, and interchangeable session names. *)
EXTENDS BootSession, TLC

Symmetry == Permutations(Sessions)
=============================================================================
