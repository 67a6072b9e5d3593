--------------------------- MODULE MCDeductionQueue ---------------------------
(* A small instance of DeductionQueue for TLC: a batch that covers what may *)
(* be in flight, the entry of each order and a copy of one per fault.       *)
EXTENDS DeductionQueue

CoveringBatch == Cardinality(Orders) + MaxFaults
===============================================================================
