--------------------------- MODULE MCAdapterSync ---------------------------
(* AdapterSync on small instances: see README.md for the bounds.           *)
EXTENDS AdapterSync, TLC

ThreadSymmetry == Permutations(Threads)
=============================================================================
