--------------------------- MODULE MCBlockingLoop ---------------------------
(* BlockingLoop with interchangeable clients.                              *)
EXTENDS BlockingLoop, TLC

Symmetry == Permutations(Clients)
=============================================================================
