---------------------------- MODULE MCCrmScheduler ----------------------------
(* A small instance of CrmScheduler for TLC: the first of two jobs is due   *)
(* twice as often as the second.                                           *)
EXTENDS CrmScheduler, TLC

MCJobOrder == <<"campaigns", "occasions">>
MCPeriod   == [campaigns |-> 1, occasions |-> 2]

Symmetry == Permutations(Cycles)
===============================================================================
