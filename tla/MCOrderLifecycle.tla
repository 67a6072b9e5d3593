--------------------------- MODULE MCOrderLifecycle ---------------------------
(* Model values and symmetry for the runs of OrderLifecycle.               *)
EXTENDS OrderLifecycle, TLC

Symmetry == Permutations(Sessions) \cup Permutations(Orders)
===============================================================================
