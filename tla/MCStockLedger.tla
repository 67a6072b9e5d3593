---------------------------- MODULE MCStockLedger ----------------------------
(* Small instances of StockLedger for TLC.                                 *)
EXTENDS StockLedger, TLC

CONSTANTS b1, b2

Work(asked, branches, prices, entries, types) ==
  [asked |-> asked, branches |-> branches, prices |-> prices, entries |-> entries, types |-> types]

(* Two branches and two transfers at a time.                               *)
Moves == Work({"send", "approve", "reject"}, {b1, b2}, {1}, 4, {})

(* Transfers with audits among them.                                       *)
Counts == Work({"send", "approve", "reject", "audit"}, {b1, b2}, {1}, 3, {})

(* Purchase orders that are edited, received and sold from.                *)
Trade == Work({"sell", "edit", "receive"}, {b1}, {1, 4}, 3, {})

(* Sales, waste and adjustments, with receipts among them.                 *)
Losses == Work({"sell", "waste", "adjust", "receive"}, {b1}, {1, 4}, 3,
               {"SALE_DEDUCTION"})

AllWorkloads == {Moves, Counts, Trade, Losses}

Symmetry == Permutations(Sessions) \cup Permutations(Transfers)
==============================================================================
