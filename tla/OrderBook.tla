------------------------------- MODULE OrderBook ------------------------------
(***************************************************************************)
(* What the restaurant's books promise of an order: it is opened, its bill *)
(* changes while it is open, and it is closed once, either cancelled       *)
(* without a receipt or paid with one receipt over the bill of that moment *)
(* (the reconciliation queries of tests/RECONCILIATION.md:16-27).          *)
(***************************************************************************)
EXTENDS Naturals

CONSTANT Orders

VARIABLES state,    \* order -> "absent", "open", "paid" or "cancelled"
          due,      \* order -> the bill
          received  \* order -> the receipts, summed

vars == <<state, due, received>>

Init ==
  /\ state = [o \in Orders |-> "absent"]
  /\ due = [o \in Orders |-> 0]
  /\ received = [o \in Orders |-> 0]

(* The bill of o alone may change.                                         *)
Bill(o) ==
  /\ due' \in [Orders -> Nat]
  /\ \A other \in Orders \ {o} : due'[other] = due[other]

Open(o) ==
  /\ state[o] = "absent"
  /\ state' = [state EXCEPT ![o] = "open"]
  /\ Bill(o)
  /\ UNCHANGED received

Rebill(o) ==
  /\ state[o] = "open"
  /\ Bill(o)
  /\ UNCHANGED <<state, received>>

Pay(o) ==
  /\ state[o] = "open"
  /\ state' = [state EXCEPT ![o] = "paid"]
  /\ received' = [received EXCEPT ![o] = due[o]]
  /\ UNCHANGED due

Cancel(o) ==
  /\ state[o] = "open"
  /\ state' = [state EXCEPT ![o] = "cancelled"]
  /\ UNCHANGED <<due, received>>

Next == \E o \in Orders : Open(o) \/ Rebill(o) \/ Pay(o) \/ Cancel(o)

Spec == Init /\ [][Next]_vars
===============================================================================
