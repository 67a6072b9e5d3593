---------------------------- MODULE OrderLifecycle ----------------------------
(***************************************************************************)
(* Orders from checkout to settlement or cancellation, with the loyalty    *)
(* points, the coupons and the checkout keys that hang on them.            *)
(*                                                                         *)
(* Sources: controllers/public.controller.ts (placeOrder),                 *)
(* services/order.service.ts, services/crm/loyalty.service.ts,             *)
(* services/crm/coupon.service.ts.                                         *)
(*                                                                         *)
(* A request reads rows first and claims them later by an UPDATE whose     *)
(* WHERE repeats what it read.  Its steps here are: Ask..., the reads that *)
(* decide; CheckRewards, the reads of balance and coupon; Commit..., the   *)
(* claims and writes.  These last are one step: the first claim locks the  *)
(* order (or the checkout key) until the commit, and what precedes it only *)
(* reads.  Other requests run between the steps: the default isolation of  *)
(* these transactions is READ COMMITTED.  payOrder alone is serializable.  *)
(*                                                                         *)
(* Abstractions.  One customer with a loyalty account.  Amounts are whole  *)
(* rupees and tax is 0: tax is added line by line next to the subtotal.    *)
(* A request's payload is its checkout key's: a replay with another one is *)
(* refused and changes nothing, like a replay.  Notifications, socket      *)
(* events and the customer profile are left out.                           *)
(***************************************************************************)
EXTENDS Integers, Sequences, FiniteSets, Functions

CONSTANTS Orders, Sessions,  \* orders; concurrent requests
          Keys,              \* Idempotency-Key headers
          Coupons,           \* issuances of one coupon to the customer
          None,
          Prices,            \* what a batch of items may cost
          Points,            \* points a guest may ask to redeem
          CouponValue,       \* discount of the (FIXED) coupon
          Rates,             \* points per 100 rupees, times the tier's multiplier
          MaxPercent,        \* policy.maxRedemptionPercent
          Targets,           \* the statuses staff set; PAID is refused here
          InitialBalance,    \* points the customer starts with
          MaxItems           \* bound: the worth of all orders' items

ASSUME NoneAssumption == None \notin Orders \cup Keys \cup Coupons
ASSUME OrdersAssumption == IsFiniteSet(Orders)
ASSUME PricesAssumption == Prices \subseteq Nat \ {0}
ASSUME PointsAssumption == Points \subseteq Nat \ {0}
ASSUME RatesAssumption == Rates \subseteq Nat
ASSUME AmountsAssumption ==
  CouponValue \in Nat /\ InitialBalance \in Nat /\ MaxItems \in Nat
ASSUME TargetsAssumption ==
  Targets \subseteq {"NEW", "ACCEPTED", "PREPARING", "READY", "SERVED", "CANCELLED"}
ASSUME MaxPercentAssumption == MaxPercent \in 0 .. 100

VARIABLES
  row,      \* the orders table
  items,    \* order -> its OrderItem rows, priced
  ledger,   \* order -> what its loyalty ledger entries and its coupon sum up to
  balance,  \* loyaltyAccount.pointsBalance
  coupon,   \* issuance -> the order it is redeemed for, or None
  payments, \* order -> amounts of its SUCCESS payments
  invoice,  \* order -> grandTotal of its invoice, or None
  checkout, \* checkoutIdempotency: key -> order, or None
  bought,   \* key -> item batches committed for it (history)
  step,     \* session -> where its request is
  req       \* session -> its request, or None

db   == <<row, items, ledger, balance, coupon, payments, invoice, checkout, bought>>
vars == <<db, step, req>>

Statuses == {"absent", "NEW", "ACCEPTED", "PREPARING", "READY", "SERVED", "PAID", "CANCELLED"}
Closed   == {"PAID", "CANCELLED"}

AllowedTransitions ==
  [NEW       |-> {"PREPARING", "CANCELLED", "ACCEPTED"},
   ACCEPTED  |-> {"PREPARING", "CANCELLED"},
   PREPARING |-> {"READY", "CANCELLED"},
   READY     |-> {"SERVED", "CANCELLED", "PAID"},
   SERVED    |-> {"PAID"},
   PAID      |-> {},
   CANCELLED |-> {},
   absent    |-> {}]

Row    == [status : Statuses, subtotal : Nat, total : Nat, linked : BOOLEAN]
Absent == [status |-> "absent", subtotal |-> 0, total |-> 0, linked |-> FALSE]

(* uses: REDEMPTION entries; refunded: REFUND entries, summed; couponOff:  *)
(* the discount its notes name.                                            *)
Ledger  == [uses : Nat, redeemed : Nat, earned : Nat, refunded : Int, couponOff : Nat]
NoEntry == [uses |-> 0, redeemed |-> 0, earned |-> 0, refunded |-> 0, couponOff |-> 0]

Ops == {"place", "append", "discount", "status", "settle"}
Request == [op : Ops, order : Orders \cup {None}, seen : Row, price : Nat, points : Nat,
            link : BOOLEAN, key : Keys \cup {None}, coupon : Coupons \cup {None},
            to : Statuses]

ASSUME NoneIsNoRequest == None \notin Request

TypeOK ==
  /\ row \in [Orders -> Row]
  /\ items \in [Orders -> Nat]
  /\ ledger \in [Orders -> Ledger]
  /\ balance \in Int
  /\ coupon \in [Coupons -> Orders \cup {None}]
  /\ payments \in [Orders -> Seq(Nat)]
  /\ invoice \in [Orders -> Nat \cup {None}]
  /\ checkout \in [Keys -> Orders \cup {None}]
  /\ bought \in [Keys -> Nat]
  /\ step \in [Sessions -> {"idle", "check", "commit"}]
  /\ req \in [Sessions -> Request \cup {None}]
  /\ \A s \in Sessions : step[s] = "idle" <=> req[s] = None

Init ==
  /\ row = [o \in Orders |-> Absent]
  /\ items = [o \in Orders |-> 0]
  /\ ledger = [o \in Orders |-> NoEntry]
  /\ balance = InitialBalance
  /\ coupon = [c \in Coupons |-> None]
  /\ payments = [o \in Orders |-> <<>>]
  /\ invoice = [o \in Orders |-> None]
  /\ checkout = [k \in Keys |-> None]
  /\ bought = [k \in Keys |-> 0]
  /\ step = [s \in Sessions |-> "idle"]
  /\ req = [s \in Sessions |-> None]

-----------------------------------------------------------------------------
(* Requests                                                                *)

Blank == [op |-> "place", order |-> None, seen |-> Absent, price |-> 0, points |-> 0,
          link |-> FALSE, key |-> None, coupon |-> None, to |-> "NEW"]

(* What s has read decides that it goes on to `next`.                      *)
Ask(s, next, request) ==
  /\ step[s] = "idle"
  /\ step' = [step EXCEPT ![s] = next]
  /\ req' = [req EXCEPT ![s] = request]
  /\ UNCHANGED db

Committing(s, op) == step[s] = "commit" /\ req[s].op = op

(* The request is answered, refused or dead.                               *)
Finish(s) ==
  /\ step' = [step EXCEPT ![s] = "idle"]
  /\ req' = [req EXCEPT ![s] = None]

(* A claim that fails, a check that refuses, a rollback, a crash: the      *)
(* transaction leaves no trace.  The client may ask again.                 *)
Abandon(s) ==
  /\ step[s] # "idle"
  /\ Finish(s)
  /\ UNCHANGED db

(* A checkout key that has committed is answered with its order; only new  *)
(* keys go on.                                                             *)
NewKey(key) == key # None => checkout[key] = None

(* Seeded fault: no unique index on the checkout key.                      *)
KeyUnguarded(r) == TRUE

(* The unique index on (restaurant, key), checked when the row is written. *)
KeyUnused(r) == r.key # None => checkout[r.key] = None

Buy(r, o) ==
  IF r.key = None THEN UNCHANGED <<checkout, bought>>
  ELSE /\ checkout' = [checkout EXCEPT ![r.key] = o]
       /\ bought' = [bought EXCEPT ![r.key] = @ + 1]

(* Seeded faults: the claim repeats the status only; the id only.          *)
ClaimedByStatus(r) == row[r.order].status = r.seen.status
ClaimedById(r) == row[r.order].status # "absent"

(* UPDATE ... WHERE status and totalAmount are as read.                    *)
Claimed(r) ==
  /\ row[r.order].status = r.seen.status
  /\ row[r.order].total = r.seen.total

(* UPDATE ... WHERE pointsBalance >= points.                               *)
Affordable(points) == points > 0 => balance >= points

(* The bound on the instance: what all orders together may be worth.       *)
Room(price) == SumFunction(items) + price <= MaxItems

MaxRedemption(total) == (total * MaxPercent) \div 100

-----------------------------------------------------------------------------
(* placeOrder, a new order                                                 *)

AskPlace(s) ==
  \E price \in Prices, points \in Points \cup {0}, link \in BOOLEAN, key \in Keys \cup {None} :
    /\ NewKey(key)
    /\ points > 0 => link
    /\ points <= MaxRedemption(price)
    /\ Ask(s, "check", [Blank EXCEPT !.price = price, !.points = points,
                                     !.link = link, !.key = key])

(* placeOrder and applyLoyaltyDiscount read the balance, placeOrder also   *)
(* an open issuance of the coupon the guest names.                         *)
CheckRewards(s) ==
  /\ step[s] = "check"
  /\ balance >= req[s].points
  /\ \E c \in Coupons \cup {None} :
       /\ c # None => /\ req[s].op = "place" /\ req[s].link
                      /\ coupon[c] = None
       /\ req' = [req EXCEPT ![s].coupon = c]
  /\ step' = [step EXCEPT ![s] = "commit"]
  /\ UNCHANGED db

(* UPDATE ... WHERE isRedeemed = false.                                    *)
IssuanceOpen(c) == c # None => coupon[c] = None

CouponDiscount(r) ==
  IF r.coupon = None THEN 0
  ELSE IF CouponValue <= r.price - r.points THEN CouponValue ELSE r.price - r.points

CommitPlace(s) ==
  /\ Committing(s, "place")
  /\ LET r == req[s]
         off == CouponDiscount(r)
     IN  /\ KeyUnused(r) /\ IssuanceOpen(r.coupon) /\ Affordable(r.points)
         /\ Room(r.price)
         /\ \E o \in Orders :
              /\ row[o] = Absent
              /\ row' = [row EXCEPT ![o] = [status |-> "NEW", subtotal |-> r.price,
                                            total |-> r.price - r.points - off,
                                            linked |-> r.link]]
              /\ items' = [items EXCEPT ![o] = r.price]
              /\ ledger' = [ledger EXCEPT ![o].uses = IF r.points > 0 THEN 1 ELSE 0,
                                          ![o].redeemed = r.points,
                                          ![o].couponOff = off]
              /\ coupon' = IF r.coupon = None THEN coupon
                           ELSE [coupon EXCEPT ![r.coupon] = o]
              /\ Buy(r, o)
         /\ balance' = balance - r.points
  /\ Finish(s)
  /\ UNCHANGED <<payments, invoice>>

-----------------------------------------------------------------------------
(* placeOrder, more items for an order                                     *)

AskAppend(s) ==
  \E o \in Orders, price \in Prices, link \in BOOLEAN, key \in Keys \cup {None} :
    /\ row[o].status \notin Closed \cup {"absent"}
    /\ payments[o] = <<>>
    /\ Room(price)
    /\ NewKey(key)
    /\ Ask(s, "commit", [Blank EXCEPT !.op = "append", !.order = o, !.seen = row[o],
                                      !.price = price, !.link = link, !.key = key])

(* The new amounts are computed from what was read.                        *)
CommitAppend(s) ==
  /\ Committing(s, "append")
  /\ LET r == req[s]
         o == r.order
     IN  /\ KeyUnused(r) /\ Claimed(r)
         /\ Room(r.price)
         /\ row' = [row EXCEPT
              ![o].status = IF r.seen.status = "NEW" THEN "NEW" ELSE "PREPARING",
              ![o].subtotal = r.seen.subtotal + r.price,
              ![o].total = r.seen.total + r.price,
              ![o].linked = @ \/ (~r.seen.linked /\ r.link)]
         /\ items' = [items EXCEPT ![o] = @ + r.price]
         /\ Buy(r, o)
  /\ Finish(s)
  /\ UNCHANGED <<ledger, balance, coupon, payments, invoice>>

-----------------------------------------------------------------------------
(* applyLoyaltyDiscount                                                    *)

(* Seeded fault: the share of the bill that points may pay is not checked. *)
RedeemableUnbounded(o, points) == row[o].linked /\ ledger[o].uses = 0

(* No REDEMPTION entry yet, and at most the policy's share of the bill.    *)
Redeemable(o, points) ==
  /\ row[o].linked
  /\ points <= MaxRedemption(row[o].total)
  /\ ledger[o].uses = 0

AskDiscount(s) ==
  \E o \in Orders, points \in Points :
    /\ row[o].status \notin Closed \cup {"absent"}
    /\ Redeemable(o, points)
    /\ Ask(s, "check", [Blank EXCEPT !.op = "discount", !.order = o, !.seen = row[o],
                                     !.points = points])

CommitDiscount(s) ==
  /\ Committing(s, "discount")
  /\ LET r == req[s]
         o == r.order
     IN  /\ Claimed(r) /\ Affordable(r.points)
         /\ row' = [row EXCEPT ![o].total = r.seen.total - r.points]
         /\ ledger' = [ledger EXCEPT ![o].uses = @ + 1, ![o].redeemed = @ + r.points]
         /\ balance' = balance - r.points
  /\ Finish(s)
  /\ UNCHANGED <<items, coupon, payments, invoice, checkout, bought>>

-----------------------------------------------------------------------------
(* updateOrderStatus                                                       *)

AskStatus(s) ==
  \E o \in Orders, to \in Targets :
    /\ to \in AllowedTransitions[row[o].status]
    /\ Ask(s, "commit", [Blank EXCEPT !.op = "status", !.order = o, !.seen = row[o],
                                      !.to = to])

(* refundPointsForOrder: every EARN and REDEMPTION entry is reverted.      *)
Refund(o) ==
  /\ ledger' = [ledger EXCEPT ![o].refunded = @ + ledger[o].redeemed - ledger[o].earned]
  /\ balance' = balance + ledger[o].redeemed - ledger[o].earned

(* Seeded fault: the new status is written without claiming the old one.   *)
StatusUnclaimed(r) == TRUE

StatusClaimed(r) == row[r.order].status = r.seen.status

CommitStatus(s) ==
  /\ Committing(s, "status")
  /\ LET r == req[s]
     IN  /\ StatusClaimed(r)
         /\ row' = [row EXCEPT ![r.order].status = r.to]
         /\ IF r.to = "CANCELLED" THEN Refund(r.order) ELSE UNCHANGED <<ledger, balance>>
  /\ Finish(s)
  /\ UNCHANGED <<items, coupon, payments, invoice, checkout, bought>>

-----------------------------------------------------------------------------
(* payOrder                                                                *)

AskSettle(s) ==
  \E o \in Orders :
    /\ row[o].status \notin Closed \cup {"absent"}
    /\ payments[o] = <<>>
    /\ Ask(s, "commit", [Blank EXCEPT !.op = "settle", !.order = o, !.seen = row[o]])

(* Seeded fault: settlement does not notice that the order has changed.    *)
SnapshotIgnored(r) == row[r.order].status \notin Closed

(* Serializable: an update of the order since the read fails the commit.   *)
SnapshotHolds(r) == row[r.order] = r.seen

(* Payment, transaction, invoice, PENDING row and points in one commit.    *)
(* On an order that is PAID payOrder writes the same invoice again, if the *)
(* one payment covers the bill (PaidOnceInFull), and enqueues its          *)
(* deduction (DeductionQueue!SettleReplay).                                *)
CommitSettle(s) ==
  /\ Committing(s, "settle")
  /\ LET r == req[s]
         o == r.order
     IN  /\ SnapshotHolds(r)
         /\ row' = [row EXCEPT ![o].status = "PAID"]
         /\ payments' = [payments EXCEPT ![o] = Append(@, r.seen.total)]
         /\ invoice' = [invoice EXCEPT ![o] = r.seen.total]
         /\ \E rate \in Rates :
              LET points == IF r.seen.linked THEN (r.seen.total * rate) \div 100 ELSE 0
              IN  /\ ledger' = [ledger EXCEPT ![o].earned = @ + points]
                  /\ balance' = balance + points
  /\ Finish(s)
  /\ UNCHANGED <<items, coupon, checkout, bought>>

-----------------------------------------------------------------------------

Next ==
  \E s \in Sessions :
    \/ AskPlace(s) \/ AskAppend(s) \/ AskDiscount(s) \/ AskStatus(s) \/ AskSettle(s)
    \/ CheckRewards(s) \/ Abandon(s)
    \/ CommitPlace(s) \/ CommitAppend(s) \/ CommitDiscount(s)
    \/ CommitStatus(s) \/ CommitSettle(s)

Spec == Init /\ [][Next]_vars

-----------------------------------------------------------------------------
(* Correctness                                                             *)

(* The reconciliation queries find nothing: a PAID order has one receipt   *)
(* over its bill and an invoice of the same amount, every other order has  *)
(* none.  The bill must not move between the read of payOrder and its      *)
(* commit, nor after it (tests/RECONCILIATION.md:16-27).                   *)
PaidOnceInFull ==
  \A o \in Orders :
    IF row[o].status = "PAID"
      THEN payments[o] = <<row[o].total>> /\ invoice[o] = row[o].total
      ELSE payments[o] = <<>> /\ invoice[o] = None

(* The bill is what the items cost less the points and the coupon that     *)
(* were spent on it: no append and no discount overwrites another.         *)
BillIsExplained ==
  \A o \in Orders :
    row[o].total = items[o] - ledger[o].redeemed - ledger[o].couponOff

(* What the ledger entries of o add to the balance.                        *)
Net(o) == ledger[o].earned - ledger[o].redeemed + ledger[o].refunded

(* The guest's points are neither lost, doubled nor overspent: the balance *)
(* is the sum of the ledger, concurrent redemptions do not spend the same  *)
(* points, and a cancelled order gives its points back once, however many  *)
(* cancellations raced, while other orders get no refund.                  *)
PointsKept ==
  /\ balance >= 0
  /\ balance = InitialBalance
       + SumFunction([o \in Orders |-> Net(o)])
  /\ \A o \in Orders :
       ledger[o].refunded =
         IF row[o].status = "CANCELLED" THEN ledger[o].redeemed - ledger[o].earned ELSE 0

(* An issuance discounts one order only, and a checkout key buys its items *)
(* once, whatever is retried or raced.                                     *)
SpentOnce ==
  /\ \A o \in Orders : ledger[o].couponOff > 0 => \E c \in Coupons : coupon[c] = o
  /\ \A k \in Keys : bought[k] = IF checkout[k] = None THEN 0 ELSE 1

(* A PAID or CANCELLED order does not change any more.                     *)
ClosedIsFinal ==
  [][\A o \in Orders : row[o].status \in Closed =>
       UNCHANGED <<row[o], items[o], payments[o], ledger[o]>>]_vars

(* "Loyalty discount already applied to this order": an order is           *)
(* discounted by points once (order.service.ts:187-188, tests/             *)
(* RECONCILIATION.md:61).  Fails: the check is a read, and the claim does  *)
(* not see a second discount when an append restores the total.            *)
OneRedemption == \A o \in Orders : ledger[o].uses <= 1

(* The books' promise, refined.                                            *)
StateOf(o) == IF row[o].status \in {"absent", "PAID", "CANCELLED"}
                THEN [absent |-> "absent", PAID |-> "paid", CANCELLED |-> "cancelled"][row[o].status]
                ELSE "open"
Book == INSTANCE OrderBook
          WITH state <- [o \in Orders |-> StateOf(o)],
               due <- [o \in Orders |-> row[o].total],
               received <- [o \in Orders |-> IF payments[o] = <<>> THEN 0 ELSE payments[o][Len(payments[o])]]
BookKept == Book!Spec
===============================================================================
