------------------------------ MODULE StockOutbox -----------------------------
(***************************************************************************)
(* What settlement and the deduction queue promise together, with no       *)
(* queue in sight: the stock of a settled order is consumed once, or an    *)
(* operator is told that it was given up.                                  *)
(***************************************************************************)
EXTENDS Naturals

CONSTANT Orders

VARIABLES paid,     \* settled orders
          consumed, \* order -> times its stock was taken
          givenUp   \* orders reported to the operators

vars == <<paid, consumed, givenUp>>

Init ==
  /\ paid = {}
  /\ consumed = [o \in Orders |-> 0]
  /\ givenUp = {}

Settle(o) ==
  /\ o \notin paid
  /\ paid' = paid \cup {o}
  /\ UNCHANGED <<consumed, givenUp>>

Deduct(o) ==
  /\ o \in paid
  /\ consumed[o] = 0
  /\ consumed' = [consumed EXCEPT ![o] = 1]
  /\ UNCHANGED <<paid, givenUp>>

(* The report may be wrong: a worker can fail after the deduction of       *)
(* another, or of its own handler, has committed.                          *)
GiveUp(o) ==
  /\ o \in paid
  /\ givenUp' = givenUp \cup {o}
  /\ UNCHANGED <<paid, consumed>>

Next == \E o \in Orders : Settle(o) \/ Deduct(o) \/ GiveUp(o)

(* An order that is neither deducted nor given up does not stay so.        *)
Resolve(o) ==
  /\ consumed[o] = 0 /\ o \notin givenUp
  /\ Deduct(o) \/ GiveUp(o)

Spec == Init /\ [][Next]_vars
LiveSpec == Spec /\ \A o \in Orders : WF_vars(Resolve(o))
===============================================================================
