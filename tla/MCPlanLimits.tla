----------------------------- MODULE MCPlanLimits -----------------------------
(* Symmetry and workloads for the run of PlanLimits.                       *)
EXTENDS PlanLimits, TLC

Work(asked, allowances, time) == [asked |-> asked, allowances |-> allowances, time |-> time]
Upto(t, i) == [tables |-> t, items |-> i]

Redemptions == Work({"generate", "redeem", "ask", "deletePlan", "deleteCode", "update"},
                    {Upto(1, 1)}, TRUE)
Rooms == Work({"ask", "table", "change", "switchOff"}, {Upto(0, 0), Upto(1, 0)}, FALSE)
Menu  == Work({"ask", "update", "item", "remove"}, {Upto(0, 0), Upto(0, 1)}, FALSE)
AllWorkloads == {Redemptions, Rooms, Menu}

Symmetry == Permutations(Restaurants) \cup Permutations(Plans) \cup Permutations(Subs)
              \cup Permutations(Sessions)
===============================================================================
