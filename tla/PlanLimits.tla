------------------------------ MODULE PlanLimits ------------------------------
(***************************************************************************)
(* What a plan allows: the tables and the menu items of a restaurant are   *)
(* counted against the limits of the plan it subscribes to, while plans and*)
(* subscriptions change (Licences).                                        *)
(*                                                                         *)
(* Sources: services/table.service.ts, menuItem.service.ts, their          *)
(* controllers and repositories, repositories/subscription.repository.ts.  *)
(*                                                                         *)
(* As in Licences a request reads (Ask...) and later writes (Commit...); it*)
(* is kept in task.  Left out: QR codes, the contents of menu items, and   *)
(* their categories, which are never deleted.                              *)
(***************************************************************************)
EXTENDS Licences

CONSTANTS Tables, Numbers, Items, \* bounds: tables, their numbers, menu items
          Gone,                   \* an item that was deleted
          Workloads               \* bound: what is asked for, the limits of the plans, whether time passes

ASSUME GoneAssumption == Gone \notin Restaurants \cup {None}
ASSUME WorkloadsAssumption ==
  \A w \in Workloads : w.allowances \subseteq [tables : Nat, items : Nat]

VARIABLES
  work,      \* the workload of this behaviour
  allowance, \* plan.maxTables and maxMenuItems
  table,     \* restaurantTable
  item,      \* menuItem.restaurantId
  task,      \* session -> what it has read, or None
  shown      \* history: the largest limits that a restaurant's requests have read

rooms == <<table, item, task, shown>>
all   == <<vars, work, allowance, rooms>>

Table  == [of : Restaurants, number : Numbers, active : BOOLEAN]
Change == [op : {"change"}, table : Tables, number : Numbers \cup {None},
           active : BOOLEAN \cup {None}]
Task   == [op : {"table"}, of : Restaurants, number : Numbers] \cup Change
            \cup [op : {"item"}, of : Restaurants] \cup [op : {"remove"}, item : Items]

Allowance == [tables : Nat, items : Nat]
Nothing   == [tables |-> 0, items |-> 0]

ASSUME NoneIsNoTable == None \notin Table

(* @@unique([restaurantId, tableNumber])                                   *)
LimitTypes ==
  /\ work \in Workloads
  /\ allowance \in [Plans -> Allowance]
  /\ table \in [Tables -> Table \cup {None}]
  /\ \A t, u \in Tables : t # u /\ table[t] # None /\ table[u] # None =>
       <<table[t].of, table[t].number>> # <<table[u].of, table[u].number>>
  /\ item \in [Items -> Restaurants \cup {None, Gone}]
  /\ task \in [Sessions -> Task \cup {None}]
  /\ \A s \in Sessions : task[s] = None \/ req[s] = None
  /\ shown \in [Restaurants -> Allowance]

(* Rows refer to rows that exist.                                          *)
RowsAreSound == TypeOK /\ LimitTypes

LimitsInit ==
  /\ Init
  /\ work \in Workloads
  /\ allowance = [p \in Plans |-> Nothing]
  /\ table = [t \in Tables |-> None]
  /\ item = [i \in Items |-> None]
  /\ task = [s \in Sessions |-> None]
  /\ shown = [r \in Restaurants |-> Nothing]

-----------------------------------------------------------------------------
Take(s, operation, request) ==
  /\ operation \in work.asked
  /\ req[s] = None /\ task[s] = None
  /\ task' = [task EXCEPT ![s] = request]
  /\ UNCHANGED <<vars, work, allowance, table, item>>

Does(s, op) == task[s] # None /\ task[s].op = op

Close(s) ==
  /\ task' = [task EXCEPT ![s] = None]
  /\ UNCHANGED <<vars, work, allowance, shown>>

(* A refusal, a violated constraint, a failure.                            *)
GiveUp(s) ==
  /\ task[s] # None
  /\ Close(s)
  /\ UNCHANGED <<table, item>>

(* findActiveSubscriptionByRestaurantId: one that is active or pending,    *)
(* whether it has ended or not; which is the newest is left open.          *)
Current(r) == {x \in SubsOf(r) : sub[x].status \in {"ACTIVE", "PENDING"}}

Larger(m, n) == IF m < n THEN n ELSE m

Reads(r, x) ==
  LET limit == allowance[sub[x].plan]
  IN  shown' = [shown EXCEPT ![r] = [tables |-> Larger(@.tables, limit.tables),
                                     items |-> Larger(@.items, limit.items)]]

-----------------------------------------------------------------------------
(* Tables                                                                  *)

(* Seeded fault: tables that are switched off are not counted.             *)
ActiveTables(r) == Cardinality({t \in Tables : table[t] # None /\ table[t].of = r /\ table[t].active})

(* tableRepository.count                                                   *)
TableCount(r) == Cardinality({t \in Tables : table[t] # None /\ table[t].of = r})

NumberFree(r, n) == \A t \in Tables : table[t] # None => table[t].of # r \/ table[t].number # n

AskTable(s) ==
  \E r \in Restaurants, n \in Numbers : \E x \in Current(r) :
    /\ TableCount(r) < allowance[sub[x].plan].tables
    /\ NumberFree(r, n)
    /\ Take(s, "table", [op |-> "table", of |-> r, number |-> n])
    /\ Reads(r, x)

CommitTable(s) ==
  /\ Does(s, "table")
  /\ NumberFree(task[s].of, task[s].number)
  /\ \E t \in Tables : table[t] = None
  /\ table' = [table EXCEPT ![CHOOSE t \in Tables : table[t] = None] =
       [of |-> task[s].of, number |-> task[s].number, active |-> TRUE]]
  /\ Close(s)
  /\ UNCHANGED item

(* updateTable: a number that differs from the one read, which nobody else *)
(* has yet, and whether the table is in use; either may be left out.       *)
AskChange(s) ==
  \E t \in Tables, n \in Numbers \cup {None}, active \in BOOLEAN \cup {None} :
    /\ table[t] # None
    /\ n # None => NumberFree(table[t].of, n)
    /\ Take(s, "change", [op |-> "change", table |-> t, number |-> n, active |-> active])
    /\ UNCHANGED shown

(* deleteTable: tables are only ever switched off.                         *)
AskSwitchOff(s) ==
  \E t \in Tables :
    /\ table[t] # None
    /\ Take(s, "switchOff", [op |-> "change", table |-> t, number |-> None, active |-> FALSE])
    /\ UNCHANGED shown

Applied(row, change) ==
  [row EXCEPT !.number = IF change.number = None THEN @ ELSE change.number,
              !.active = IF change.active = None THEN @ ELSE change.active]

CommitChange(s) ==
  /\ Does(s, "change")
  /\ LET t == task[s].table  n == task[s].number
     IN  /\ n # None => NumberFree(table[t].of, n) \/ table[t].number = n
         /\ table' = [table EXCEPT ![t] = Applied(@, task[s])]
  /\ Close(s)
  /\ UNCHANGED item

-----------------------------------------------------------------------------
(* Menu items                                                              *)

ItemCount(r) == Cardinality({i \in Items : item[i] = r})

AskItem(s) ==
  \E r \in Restaurants : \E x \in Current(r) :
    /\ ItemCount(r) < allowance[sub[x].plan].items
    /\ Take(s, "item", [op |-> "item", of |-> r])
    /\ Reads(r, x)

CommitItem(s) ==
  /\ Does(s, "item")
  /\ \E i \in Items : item[i] = None
  /\ item' = [item EXCEPT ![CHOOSE i \in Items : item[i] = None] = task[s].of]
  /\ Close(s)
  /\ UNCHANGED table

AskRemove(s) ==
  \E i \in Items :
    /\ item[i] \in Restaurants
    /\ Take(s, "remove", [op |-> "remove", item |-> i])
    /\ UNCHANGED shown

CommitRemove(s) ==
  /\ Does(s, "remove")
  /\ item[task[s].item] \in Restaurants
  /\ item' = [item EXCEPT ![task[s].item] = Gone]
  /\ Close(s)
  /\ UNCHANGED table

-----------------------------------------------------------------------------
(* Plans and subscriptions go on as in Licences                            *)

CreateLimits(p) ==
  /\ CreatePlan(p)
  /\ \E a \in work.allowances : allowance' = [allowance EXCEPT ![p] = a]
  /\ UNCHANGED <<work, rooms>>

UpdateLimits(p) ==
  /\ UpdatePlan(p)
  /\ \E a \in work.allowances : allowance' = [allowance EXCEPT ![p] = a]
  /\ UNCHANGED <<work, rooms>>

Requested(s) ==
  /\ task[s] = None
  /\ req'[s] # None => req'[s].op \in work.asked
  /\ UNCHANGED <<work, allowance, rooms>>

Licensed(s) ==
  \/ AskGenerate(s) /\ Requested(s)
  \/ CommitGenerate(s) /\ Requested(s)
  \/ AskDeletePlan(s) /\ Requested(s)
  \/ CommitDeletePlan(s) /\ Requested(s)
  \/ AskDeleteCode(s) /\ Requested(s)
  \/ CommitDeleteCode(s) /\ Requested(s)
  \/ AskPending(s) /\ Requested(s)
  \/ CommitPending(s) /\ Requested(s)
  \/ AskUpdate(s) /\ Requested(s)
  \/ CommitUpdate(s) /\ Requested(s)
  \/ AskRedeem(s) /\ Requested(s)
  \/ CommitRedeem(s) /\ Requested(s)
  \/ Abandon(s) /\ Requested(s)

LimitsNext ==
  \/ \E p \in Plans : CreateLimits(p) \/ UpdateLimits(p)
  \/ \E s \in Sessions :
       \/ Licensed(s)
       \/ AskTable(s) \/ CommitTable(s) \/ AskChange(s) \/ AskSwitchOff(s) \/ CommitChange(s)
       \/ AskItem(s) \/ CommitItem(s) \/ AskRemove(s) \/ CommitRemove(s) \/ GiveUp(s)
  \/ Tick /\ work.time /\ UNCHANGED <<work, allowance, rooms>>

LimitsSpec == LimitsInit /\ [][LimitsNext]_all

-----------------------------------------------------------------------------
(* Correctness                                                             *)

(* Uses of a code are counted (Licences).  And whatever is created,        *)
(* switched off, deleted, renamed, or changed in the plans meanwhile: a    *)
(* restaurant has no more tables and menu items than the largest limit its *)
(* requests were ever shown, and one for each further request in flight,   *)
(* as the count is taken before the insertion (table.service.ts:39).       *)
LimitsAreKept ==
  /\ UsageIsCounted
  /\ \A r \in Restaurants :
       /\ Cardinality({t \in Tables : table[t] # None /\ table[t].of = r})
            < shown[r].tables + Cardinality(Sessions)
       /\ Cardinality({i \in Items : item[i] = r}) < shown[r].items + Cardinality(Sessions)
===============================================================================
