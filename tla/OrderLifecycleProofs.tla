-------------------------- MODULE OrderLifecycleProofs --------------------------
(***************************************************************************)
(* Proofs about OrderLifecycle for every value of its constants.           *)
(*                                                                         *)
(* What an order's row, items, ledger, payments and invoice say of each    *)
(* other (Sound) is kept because a commit claims the row a request has     *)
(* read: what the request carries was decided on the row it changes.  The  *)
(* balance is the sum over all orders, of which a step changes one.        *)
(***************************************************************************)
EXTENDS OrderLifecycle, FiniteSetTheorems, SumTheorems, TLAPS

IsOpen(r) == r.status \notin Closed \cup {"absent"}

(* What a request of each kind was let through with.                       *)
WellFormed(r) ==
  /\ r.op = "place" => r.points <= MaxRedemption(r.price)
  /\ r.op # "place" => r.order \in Orders /\ IsOpen(r.seen)
  /\ r.op = "discount" => r.points <= MaxRedemption(r.seen.total)
  /\ r.op = "status" => r.to \in AllowedTransitions[r.seen.status] \cap Targets

RequestsWellFormed == \A s \in Sessions : req[s] # None => WellFormed(req[s])

(* The tables agree about o.                                               *)
Sound(o) ==
  /\ IF row[o].status = "PAID"
       THEN payments[o] = <<row[o].total>> /\ invoice[o] = row[o].total
       ELSE payments[o] = <<>> /\ invoice[o] = None
  /\ row[o].total = items[o] - ledger[o].redeemed - ledger[o].couponOff
  /\ ledger[o].refunded =
       IF row[o].status = "CANCELLED" THEN ledger[o].redeemed - ledger[o].earned ELSE 0
  /\ row[o].status # "PAID" => ledger[o].earned = 0
  /\ row[o].status = "absent" => ledger[o].redeemed = 0

BalanceIsSum == balance = InitialBalance + SumFunction([o \in Orders |-> Net(o)])

Books ==
  /\ \A o \in Orders : Sound(o)
  /\ balance >= 0
  /\ BalanceIsSum

IInv == TypeOK /\ RequestsWellFormed /\ Books /\ SpentOnce

-----------------------------------------------------------------------------
(* Amounts                                                                 *)

(* Points pay a part of a bill at most.                                    *)
LEMMA RedemptionBounded ==
  ASSUME NEW total \in Nat
  PROVE  MaxRedemption(total) \in Nat /\ MaxRedemption(total) <= total
<1>1. MaxPercent \in Nat /\ MaxPercent <= 100
  BY MaxPercentAssumption
<1> DEFINE share == total * MaxPercent
<1>2. share \in Nat /\ share <= total * 100
  BY <1>1
<1> HIDE DEF share
<1>3. share \div 100 \in Nat /\ share \div 100 <= total
  BY <1>2
<1> QED
  BY <1>3 DEF MaxRedemption, share

LEMMA RateTyped ==
  ASSUME NEW total \in Nat, NEW rate \in Rates
  PROVE  (total * rate) \div 100 \in Nat
<1> DEFINE share == total * rate
<1>1. share \in Nat
  BY RatesAssumption
<1> HIDE DEF share
<1>2. share \div 100 \in Nat
  BY <1>1
<1> QED
  BY <1>2 DEF share

LEMMA NetTyped ==
  ASSUME TypeOK
  PROVE  \A o \in Orders : Net(o) \in Int
BY DEF TypeOK, Ledger, Net

-----------------------------------------------------------------------------
(* Requests                                                                *)

LEMMA BlankTyped == Blank \in Request
BY DEF Blank, Request, Ops, Row, Absent, Statuses

(* A step that leaves the tables alone keeps what is said about them.      *)
LEMMA SameTables ==
  ASSUME Books, SpentOnce, UNCHANGED db
  PROVE  Books' /\ SpentOnce'
BY DEF Books, Sound, BalanceIsSum, Net, SpentOnce, db

LEMMA AskKeeps ==
  ASSUME IInv, NEW s \in Sessions, NEW r \in Request, WellFormed(r),
         NEW next \in {"check", "commit"}, Ask(s, next, r)
  PROVE  IInv'
<1>1. \A q \in Sessions : req'[q] = IF q = s THEN r ELSE req[q]
  BY DEF IInv, TypeOK, Ask
<1>2. \A q \in Sessions : step'[q] = IF q = s THEN next ELSE step[q]
  BY DEF IInv, TypeOK, Ask
<1>3. TypeOK'
  <2>1. /\ req' \in [Sessions -> Request \cup {None}]
        /\ step' \in [Sessions -> {"idle", "check", "commit"}]
    BY DEF IInv, TypeOK, Ask
  <2>2. \A q \in Sessions : step'[q] = "idle" <=> req'[q] = None
    BY <1>1, <1>2, NoneIsNoRequest DEF IInv, TypeOK
  <2> QED
    BY <2>1, <2>2 DEF IInv, TypeOK, Ask, db
<1>4. RequestsWellFormed'
  BY <1>1 DEF IInv, RequestsWellFormed, WellFormed
<1> QED
  BY <1>3, <1>4, SameTables DEF IInv, Ask

(* A request that ends leaves the others as they are.                      *)
LEMMA FinishEffect ==
  ASSUME TypeOK, RequestsWellFormed, NEW s \in Sessions, Finish(s)
  PROVE  /\ req' \in [Sessions -> Request \cup {None}]
         /\ step' \in [Sessions -> {"idle", "check", "commit"}]
         /\ \A q \in Sessions : step'[q] = "idle" <=> req'[q] = None
         /\ RequestsWellFormed'
<1>1. \A q \in Sessions : req'[q] = IF q = s THEN None ELSE req[q]
  BY DEF TypeOK, Finish
<1>2. \A q \in Sessions : step'[q] = IF q = s THEN "idle" ELSE step[q]
  BY DEF TypeOK, Finish
<1>3. /\ req' \in [Sessions -> Request \cup {None}]
      /\ step' \in [Sessions -> {"idle", "check", "commit"}]
  BY DEF TypeOK, Finish
<1> QED
  BY <1>1, <1>2, <1>3 DEF TypeOK, RequestsWellFormed, WellFormed

LEMMA Current ==
  ASSUME IInv, NEW s \in Sessions, step[s] # "idle"
  PROVE  req[s] \in Request /\ WellFormed(req[s])
BY DEF IInv, TypeOK, RequestsWellFormed

LEMMA AskPlaceKeeps == ASSUME IInv, NEW s \in Sessions, AskPlace(s) PROVE IInv'
<1>1. PICK price \in Prices, points \in Points \cup {0}, link \in BOOLEAN, key \in Keys \cup {None} :
        /\ points <= MaxRedemption(price)
        /\ Ask(s, "check", [Blank EXCEPT !.price = price, !.points = points,
                                         !.link = link, !.key = key])
  BY DEF AskPlace
<1> DEFINE r == [Blank EXCEPT !.price = price, !.points = points, !.link = link, !.key = key]
<1>2. price \in Nat /\ points \in Nat
  BY PricesAssumption, PointsAssumption
<1>3. r \in Request /\ r.op = "place" /\ r.price = price /\ r.points = points
  BY <1>2, BlankTyped DEF Request, Blank
<1>4. WellFormed(r)
  BY <1>1, <1>3 DEF WellFormed
<1> HIDE DEF r
<1> QED
  BY <1>1, <1>3, <1>4, AskKeeps DEF r

LEMMA AskAppendKeeps == ASSUME IInv, NEW s \in Sessions, AskAppend(s) PROVE IInv'
<1>1. PICK o \in Orders, price \in Prices, link \in BOOLEAN, key \in Keys \cup {None} :
        /\ row[o].status \notin Closed \cup {"absent"}
        /\ Ask(s, "commit", [Blank EXCEPT !.op = "append", !.order = o, !.seen = row[o],
                                          !.price = price, !.link = link, !.key = key])
  BY DEF AskAppend
<1> DEFINE r == [Blank EXCEPT !.op = "append", !.order = o, !.seen = row[o],
                              !.price = price, !.link = link, !.key = key]
<1>2. price \in Nat /\ row[o] \in Row
  BY PricesAssumption DEF IInv, TypeOK
<1>3. r \in Request /\ r.op = "append" /\ r.order = o /\ r.seen = row[o]
  BY <1>2, BlankTyped DEF Request, Blank, Ops
<1>4. WellFormed(r)
  BY <1>1, <1>3 DEF WellFormed, IsOpen
<1> HIDE DEF r
<1> QED
  BY <1>1, <1>3, <1>4, AskKeeps DEF r

LEMMA AskDiscountKeeps == ASSUME IInv, NEW s \in Sessions, AskDiscount(s) PROVE IInv'
<1>1. PICK o \in Orders, points \in Points :
        /\ row[o].status \notin Closed \cup {"absent"}
        /\ points <= MaxRedemption(row[o].total)
        /\ Ask(s, "check", [Blank EXCEPT !.op = "discount", !.order = o, !.seen = row[o],
                                         !.points = points])
  BY DEF AskDiscount, Redeemable
<1> DEFINE r == [Blank EXCEPT !.op = "discount", !.order = o, !.seen = row[o], !.points = points]
<1>2. points \in Nat /\ row[o] \in Row
  BY PointsAssumption DEF IInv, TypeOK
<1>3. r \in Request /\ r.op = "discount" /\ r.order = o /\ r.seen = row[o] /\ r.points = points
  BY <1>2, BlankTyped DEF Request, Blank, Ops
<1>4. WellFormed(r)
  BY <1>1, <1>3 DEF WellFormed, IsOpen
<1> HIDE DEF r
<1> QED
  BY <1>1, <1>3, <1>4, AskKeeps DEF r

LEMMA AskStatusKeeps == ASSUME IInv, NEW s \in Sessions, AskStatus(s) PROVE IInv'
<1>1. PICK o \in Orders, to \in Targets :
        /\ to \in AllowedTransitions[row[o].status]
        /\ Ask(s, "commit", [Blank EXCEPT !.op = "status", !.order = o, !.seen = row[o], !.to = to])
  BY DEF AskStatus
<1> DEFINE r == [Blank EXCEPT !.op = "status", !.order = o, !.seen = row[o], !.to = to]
<1>2. row[o] \in Row /\ to \in Statuses
  BY TargetsAssumption DEF IInv, TypeOK, Statuses
<1>3. r \in Request /\ r.op = "status" /\ r.order = o /\ r.seen = row[o] /\ r.to = to
  BY <1>2, BlankTyped DEF Request, Blank, Ops
<1>4. row[o].status \notin Closed \cup {"absent"}
  BY <1>1, <1>2 DEF Row, Statuses, Closed, AllowedTransitions
<1>5. WellFormed(r)
  BY <1>1, <1>3, <1>4 DEF WellFormed, IsOpen
<1> HIDE DEF r
<1> QED
  BY <1>1, <1>3, <1>5, AskKeeps DEF r

LEMMA AskSettleKeeps == ASSUME IInv, NEW s \in Sessions, AskSettle(s) PROVE IInv'
<1>1. PICK o \in Orders :
        /\ row[o].status \notin Closed \cup {"absent"}
        /\ Ask(s, "commit", [Blank EXCEPT !.op = "settle", !.order = o, !.seen = row[o]])
  BY DEF AskSettle
<1> DEFINE r == [Blank EXCEPT !.op = "settle", !.order = o, !.seen = row[o]]
<1>2. row[o] \in Row
  BY DEF IInv, TypeOK
<1>3. r \in Request /\ r.op = "settle" /\ r.order = o /\ r.seen = row[o]
  BY <1>2, BlankTyped DEF Request, Blank, Ops
<1>4. WellFormed(r)
  BY <1>1, <1>3 DEF WellFormed, IsOpen
<1> HIDE DEF r
<1> QED
  BY <1>1, <1>3, <1>4, AskKeeps DEF r

LEMMA CheckRewardsKeeps == ASSUME IInv, NEW s \in Sessions, CheckRewards(s) PROVE IInv'
<1>1. PICK c \in Coupons \cup {None} : req' = [req EXCEPT ![s].coupon = c]
  BY DEF CheckRewards
<1>2. req[s] \in Request /\ WellFormed(req[s])
  BY Current DEF CheckRewards
<1> DEFINE r == [req[s] EXCEPT !.coupon = c]
<1>3. /\ r \in Request /\ r.op = req[s].op /\ r.price = req[s].price /\ r.points = req[s].points
      /\ r.order = req[s].order /\ r.seen = req[s].seen /\ r.to = req[s].to
  BY <1>2 DEF Request
<1>4. WellFormed(r)
  BY <1>2, <1>3 DEF WellFormed
<1>5. req' = [req EXCEPT ![s] = r]
  BY <1>1 DEF IInv, TypeOK
<1> HIDE DEF r
<1>6. \A q \in Sessions : req'[q] = IF q = s THEN r ELSE req[q]
  BY <1>5 DEF IInv, TypeOK
<1>7. \A q \in Sessions : step'[q] = IF q = s THEN "commit" ELSE step[q]
  BY DEF IInv, TypeOK, CheckRewards
<1>8. TypeOK'
  <2>1. /\ req' \in [Sessions -> Request \cup {None}]
        /\ step' \in [Sessions -> {"idle", "check", "commit"}]
    BY <1>3, <1>5 DEF IInv, TypeOK, CheckRewards
  <2>2. \A q \in Sessions : step'[q] = "idle" <=> req'[q] = None
    BY <1>3, <1>6, <1>7, NoneIsNoRequest DEF IInv, TypeOK
  <2> QED
    BY <2>1, <2>2 DEF IInv, TypeOK, CheckRewards, db
<1>9. RequestsWellFormed'
  BY <1>4, <1>6 DEF IInv, RequestsWellFormed, WellFormed
<1> QED
  BY <1>8, <1>9, SameTables DEF IInv, CheckRewards

LEMMA AbandonKeeps == ASSUME IInv, NEW s \in Sessions, Abandon(s) PROVE IInv'
<1>1. TypeOK'
  BY FinishEffect DEF IInv, TypeOK, Abandon, db
<1> QED
  BY <1>1, FinishEffect, SameTables DEF IInv, Abandon

-----------------------------------------------------------------------------
(* Commits                                                                 *)

OthersKept(o) ==
  \A other \in Orders \ {o} :
    UNCHANGED <<row[other], items[other], ledger[other], payments[other], invoice[other]>>

(* What a commit does, as the books see it.                                *)
Opens(o) ==
  /\ row[o].status = "absent" /\ IsOpen(row'[o])
  /\ payments' = payments /\ OthersKept(o)

Rebills(o) ==
  /\ IsOpen(row[o]) /\ IsOpen(row'[o])
  /\ payments' = payments /\ OthersKept(o)

Cancels(o) ==
  /\ IsOpen(row[o]) /\ row'[o].status = "CANCELLED" /\ row'[o].total = row[o].total
  /\ payments' = payments /\ OthersKept(o)

Pays(o) ==
  /\ IsOpen(row[o]) /\ row'[o].status = "PAID" /\ row'[o].total = row[o].total
  /\ payments'[o] = <<row[o].total>> /\ OthersKept(o)

(* A step that changes the tables of o only.                               *)
LEMMA OneOrder ==
  ASSUME TypeOK, Books, TypeOK', NEW o \in Orders,
         OthersKept(o), Sound(o)', balance' >= 0, balance' = balance + Net(o)' - Net(o)
  PROVE  Books'
<1>1. \A other \in Orders : Sound(other)'
  BY DEF Books, Sound, OthersKept
<1> DEFINE before == [x \in Orders |-> Net(x)]
           after == [x \in Orders |-> Net(x)']
<1>2. before \in [Orders -> Int] /\ after \in [Orders -> Int]
  <2>1. \A x \in Orders : Net(x) \in Int
    BY NetTyped
  <2>2. \A x \in Orders : ledger'[x] \in Ledger
    BY DEF TypeOK
  <2>3. \A x \in Orders : Net(x)' \in Int
    BY <2>2 DEF Net, Ledger
  <2> QED
    BY <2>1, <2>3
<1>3. \A other \in Orders \ {o} : after[other] = before[other]
  BY DEF Net, OthersKept
<1>4. before[o] = Net(o) /\ after[o] = Net(o)'
  OBVIOUS
<1>5. balance = InitialBalance + SumFunction(before)
  BY DEF Books, BalanceIsSum
<1> HIDE DEF before, after
<1>6. SumFunction(after) = SumFunction(before) - before[o] + after[o]
  BY <1>2, <1>3, OrdersAssumption, SumFunctionUpdate
<1>7. SumFunction(before) \in Int /\ before[o] \in Int /\ after[o] \in Int
  BY <1>2, OrdersAssumption, SumFunctionInt
<1>8. balance' = InitialBalance + SumFunction(after)
  BY <1>4, <1>5, <1>6, <1>7, AmountsAssumption DEF TypeOK
<1>9. BalanceIsSum'
  BY <1>8 DEF BalanceIsSum, after
<1> QED
  BY <1>1, <1>9 DEF Books

(* What a write of one row does.                                           *)
LEMMA OneRow ==
  ASSUME NEW S, NEW T, NEW f \in [S -> T], NEW y \in S, NEW v \in T, NEW g, g = [f EXCEPT ![y] = v]
  PROVE  g \in [S -> T] /\ g[y] = v /\ \A x \in S \ {y} : g[x] = f[x]
OBVIOUS

LEMMA BuyEffect ==
  ASSUME TypeOK, SpentOnce, NEW r, r.key \in Keys \cup {None}, KeyUnused(r),
         NEW o \in Orders, Buy(r, o)
  PROVE  /\ checkout' \in [Keys -> Orders \cup {None}] /\ bought' \in [Keys -> Nat]
         /\ \A k \in Keys : bought'[k] = IF checkout'[k] = None THEN 0 ELSE 1
<1>1. CASE r.key = None
  BY <1>1 DEF TypeOK, SpentOnce, Buy
<1>2. CASE r.key # None
  <2> DEFINE key == r.key
  <2>1. /\ key \in Keys /\ checkout[key] = None
        /\ checkout' = [checkout EXCEPT ![key] = o]
        /\ bought' = [bought EXCEPT ![key] = @ + 1]
    BY <1>2 DEF Buy, KeyUnused
  <2> HIDE DEF key
  <2>2. bought[key] = 0
    BY <2>1 DEF SpentOnce
  <2>3. /\ checkout' \in [Keys -> Orders \cup {None}] /\ bought' \in [Keys -> Nat]
    BY <2>1 DEF TypeOK
  <2>4. \A k \in Keys : /\ checkout'[k] = IF k = key THEN o ELSE checkout[k]
                        /\ bought'[k] = IF k = key THEN 1 ELSE bought[k]
    BY <2>1, <2>2 DEF TypeOK
  <2> QED
    BY <2>3, <2>4, NoneAssumption DEF SpentOnce
<1> QED
  BY <1>1, <1>2

LEMMA CommitPlaceKeeps ==
  ASSUME IInv, NEW s \in Sessions, CommitPlace(s)
  PROVE  IInv' /\ \E o \in Orders : Opens(o)
<1> DEFINE r == req[s]
           off == CouponDiscount(r)
<1>1. r \in Request /\ r.op = "place" /\ WellFormed(r)
  BY Current DEF CommitPlace, Committing
<1>2. PICK o \in Orders :
        /\ row[o] = Absent
        /\ row' = [row EXCEPT ![o] = [status |-> "NEW", subtotal |-> r.price,
                                      total |-> r.price - r.points - off,
                                      linked |-> r.link]]
        /\ items' = [items EXCEPT ![o] = r.price]
        /\ ledger' = [ledger EXCEPT ![o].uses = IF r.points > 0 THEN 1 ELSE 0,
                                    ![o].redeemed = r.points,
                                    ![o].couponOff = off]
        /\ coupon' = IF r.coupon = None THEN coupon ELSE [coupon EXCEPT ![r.coupon] = o]
        /\ Buy(r, o)
  BY DEF CommitPlace
<1>3. /\ KeyUnused(r) /\ IssuanceOpen(r.coupon) /\ Affordable(r.points)
      /\ balance' = balance - r.points
      /\ Finish(s) /\ UNCHANGED <<payments, invoice>>
  BY DEF CommitPlace
<1>4. /\ r.price \in Nat /\ r.points \in Nat /\ r.link \in BOOLEAN
      /\ r.key \in Keys \cup {None} /\ r.coupon \in Coupons \cup {None}
      /\ r.points <= r.price
  BY <1>1, RedemptionBounded DEF Request, WellFormed
<1>5. off \in Nat /\ off <= r.price - r.points /\ (off > 0 => r.coupon # None)
  BY <1>4, AmountsAssumption DEF CouponDiscount
<1> HIDE DEF r, off
<1> DEFINE new == [status |-> "NEW", subtotal |-> r.price,
                   total |-> r.price - r.points - off, linked |-> r.link]
           uses == IF r.points > 0 THEN 1 ELSE 0
<1>6. new \in Row /\ new.status = "NEW" /\ new.total = r.price - r.points - off
  BY <1>4, <1>5 DEF Row, Statuses
<1> DEFINE entry == [ledger[o] EXCEPT !.uses = uses, !.redeemed = r.points, !.couponOff = off]
<1>7. /\ entry \in Ledger /\ entry.redeemed = r.points /\ entry.couponOff = off
      /\ entry.earned = ledger[o].earned /\ entry.refunded = ledger[o].refunded
  BY <1>4, <1>5 DEF IInv, TypeOK, Ledger
<1>8. ledger' = [ledger EXCEPT ![o] = entry] /\ row' = [row EXCEPT ![o] = new]
  BY <1>2 DEF IInv, TypeOK
<1> HIDE DEF new, entry, uses
<1>9. /\ row' \in [Orders -> Row] /\ items' \in [Orders -> Nat] /\ ledger' \in [Orders -> Ledger]
      /\ row'[o] = new /\ items'[o] = r.price /\ ledger'[o] = entry
      /\ OthersKept(o)
  <2>1. /\ row' \in [Orders -> Row] /\ row'[o] = new
        /\ \A other \in Orders \ {o} : row'[other] = row[other]
    BY <1>6, <1>8, OneRow DEF IInv, TypeOK
  <2>2. /\ items' \in [Orders -> Nat] /\ items'[o] = r.price
        /\ \A other \in Orders \ {o} : items'[other] = items[other]
    BY <1>2, <1>4, OneRow DEF IInv, TypeOK
  <2>3. /\ ledger' \in [Orders -> Ledger] /\ ledger'[o] = entry
        /\ \A other \in Orders \ {o} : ledger'[other] = ledger[other]
    BY <1>7, <1>8, OneRow DEF IInv, TypeOK
  <2> QED
    BY <1>3, <2>1, <2>2, <2>3 DEF OthersKept
<1>10. /\ coupon' \in [Coupons -> Orders \cup {None}]
       /\ checkout' \in [Keys -> Orders \cup {None}] /\ bought' \in [Keys -> Nat]
       /\ \A k \in Keys : bought'[k] = IF checkout'[k] = None THEN 0 ELSE 1
  <2>1. coupon' \in [Coupons -> Orders \cup {None}]
    BY <1>2, <1>4 DEF IInv, TypeOK
  <2> QED
    BY <1>2, <1>3, <1>4, <2>1, BuyEffect DEF IInv
<1>11. TypeOK'
  BY <1>3, <1>4, <1>9, <1>10, FinishEffect DEF IInv, TypeOK
<1>12. ledger[o].earned = 0 /\ ledger[o].refunded = 0 /\ ledger[o].redeemed = 0
       /\ payments[o] = <<>> /\ invoice[o] = None
  BY <1>2 DEF IInv, Books, Sound, Absent
<1>13. Sound(o)'
  BY <1>3, <1>4, <1>5, <1>6, <1>7, <1>9, <1>12 DEF Sound
<1>14. balance' = balance + Net(o)' - Net(o) /\ balance' >= 0
  BY <1>3, <1>4, <1>7, <1>9, <1>12 DEF Net, IInv, TypeOK, Books, Affordable
<1>15. Books'
  BY <1>9, <1>11, <1>13, <1>14, OneOrder DEF IInv
<1>16. SpentOnce'
  <2>1. ASSUME NEW x \in Orders, ledger'[x].couponOff > 0
        PROVE  \E c \in Coupons : coupon'[c] = x
    <3>1. CASE x = o
      BY <2>1, <3>1, <1>2, <1>4, <1>5, <1>7, <1>9 DEF IInv, TypeOK
    <3>2. CASE x # o
      <4>1. PICK c \in Coupons : coupon[c] = x
        BY <2>1, <3>2, <1>9 DEF IInv, SpentOnce, OthersKept
      <4>2. c # r.coupon
        BY <4>1, <1>3, NoneAssumption DEF IssuanceOpen
      <4>3. coupon'[c] = coupon[c]
        BY <4>2, <1>2 DEF IInv, TypeOK
      <4> QED
        BY <4>1, <4>3
    <3> QED
      BY <3>1, <3>2
  <2> QED
    BY <1>10, <2>1 DEF SpentOnce
<1>17. Opens(o)
  <2>1. row[o].status = "absent" /\ payments' = payments
    BY <1>2, <1>3 DEF Absent
  <2>2. row'[o].status = "NEW"
    BY <1>6, <1>9
  <2> QED
    BY <1>9, <2>1, <2>2 DEF Opens, IsOpen, Closed
<1> QED
  BY <1>3, <1>11, <1>15, <1>16, <1>17, FinishEffect DEF IInv

LEMMA CommitAppendKeeps ==
  ASSUME IInv, NEW s \in Sessions, CommitAppend(s)
  PROVE  IInv' /\ \E o \in Orders : Rebills(o)
<1> DEFINE r == req[s]
<1>1. r \in Request /\ r.op = "append" /\ WellFormed(r)
  BY Current DEF CommitAppend, Committing
<1>2. PICK o \in Orders : o = r.order
  BY <1>1 DEF WellFormed
<1> DEFINE status == IF r.seen.status = "NEW" THEN "NEW" ELSE "PREPARING"
           linked == row[o].linked \/ (~r.seen.linked /\ r.link)
           new == [row[o] EXCEPT !.status = status, !.subtotal = r.seen.subtotal + r.price,
                                 !.total = r.seen.total + r.price, !.linked = linked]
<1>3. /\ KeyUnused(r) /\ row[o].status = r.seen.status /\ row[o].total = r.seen.total
      /\ row' = [row EXCEPT ![o] = new]
      /\ items' = [items EXCEPT ![o] = @ + r.price]
      /\ Buy(r, o)
      /\ Finish(s) /\ UNCHANGED <<ledger, balance, coupon, payments, invoice>>
  BY <1>2 DEF CommitAppend, Claimed, IInv, TypeOK
<1>4. /\ IsOpen(r.seen) /\ r.seen \in Row
      /\ r.price \in Nat /\ r.link \in BOOLEAN /\ r.key \in Keys \cup {None}
  BY <1>1 DEF Request, WellFormed
<1> HIDE DEF r
<1>5. new \in Row /\ new.status \in {"NEW", "PREPARING"} /\ new.total = row[o].total + r.price
  <2>1. row[o] \in Row
    BY DEF IInv, TypeOK
  <2>2. status \in {"NEW", "PREPARING"} /\ linked \in BOOLEAN
    OBVIOUS
  <2> HIDE DEF status, linked
  <2>3. r.seen.subtotal + r.price \in Nat /\ r.seen.total + r.price \in Nat
    BY <1>4 DEF Row
  <2>4. new \in Row /\ new.status = status /\ new.total = r.seen.total + r.price
    BY <2>1, <2>2, <2>3 DEF Row, Statuses
  <2> QED
    BY <1>3, <2>2, <2>4
<1> HIDE DEF new
<1>6. /\ row' \in [Orders -> Row] /\ items' \in [Orders -> Nat]
      /\ row'[o] = new /\ items'[o] = items[o] + r.price
      /\ OthersKept(o)
  <2>1. /\ row' \in [Orders -> Row] /\ row'[o] = new
        /\ \A other \in Orders \ {o} : row'[other] = row[other]
    BY <1>3, <1>5, OneRow DEF IInv, TypeOK
  <2>2. items[o] + r.price \in Nat /\ items' = [items EXCEPT ![o] = items[o] + r.price]
    BY <1>3, <1>4 DEF IInv, TypeOK
  <2>3. /\ items' \in [Orders -> Nat] /\ items'[o] = items[o] + r.price
        /\ \A other \in Orders \ {o} : items'[other] = items[other]
    BY <2>2, OneRow DEF IInv, TypeOK
  <2> QED
    BY <1>3, <2>1, <2>3 DEF OthersKept
<1>7. /\ checkout' \in [Keys -> Orders \cup {None}] /\ bought' \in [Keys -> Nat]
      /\ \A k \in Keys : bought'[k] = IF checkout'[k] = None THEN 0 ELSE 1
  BY <1>3, <1>4, BuyEffect DEF IInv
<1>8. TypeOK'
  BY <1>3, <1>6, <1>7, FinishEffect DEF IInv, TypeOK
<1>9. row[o].status \notin Closed \cup {"absent"}
  BY <1>3, <1>4 DEF IsOpen
<1>10. /\ row[o].total \in Nat /\ items[o] \in Nat
       /\ ledger[o].redeemed \in Nat /\ ledger[o].couponOff \in Nat /\ Net(o) \in Int
  <2>1. row[o] \in Row /\ items[o] \in Nat /\ ledger[o] \in Ledger
    BY DEF IInv, TypeOK
  <2> QED
    BY <2>1, NetTyped DEF Row, Ledger, IInv
<1>11. Sound(o)'
  <2>1. Sound(o)
    BY DEF IInv, Books
  <2>2. row'[o].status \notin Closed \cup {"absent"}
    BY <1>5, <1>6 DEF Closed
  <2>3. row'[o].total = items'[o] - ledger'[o].redeemed - ledger'[o].couponOff
    <3>1. row[o].total = items[o] - ledger[o].redeemed - ledger[o].couponOff /\ ledger' = ledger
      BY <1>3, <2>1 DEF Sound
    <3> QED
      BY <1>4, <1>5, <1>6, <1>10, <3>1
  <2> QED
    BY <1>3, <1>9, <2>1, <2>2, <2>3 DEF Sound, Closed
<1>12. balance' >= 0 /\ balance' = balance + Net(o)' - Net(o)
  <2>1. Net(o)' = Net(o) /\ balance' = balance
    BY <1>3 DEF Net
  <2> QED
    BY <1>10, <2>1 DEF IInv, TypeOK, Books
<1>13. Books'
  BY <1>6, <1>8, <1>11, <1>12, OneOrder DEF IInv
<1>14. SpentOnce'
  BY <1>3, <1>7 DEF IInv, SpentOnce
<1>15. Rebills(o)
  BY <1>3, <1>5, <1>6, <1>9 DEF Rebills, IsOpen, Closed
<1> QED
  BY <1>3, <1>8, <1>13, <1>14, <1>15, FinishEffect DEF IInv

LEMMA CommitDiscountKeeps ==
  ASSUME IInv, NEW s \in Sessions, CommitDiscount(s)
  PROVE  IInv' /\ \E o \in Orders : Rebills(o)
<1> DEFINE r == req[s]
<1>1. r \in Request /\ r.op = "discount" /\ WellFormed(r)
  BY Current DEF CommitDiscount, Committing
<1>2. PICK o \in Orders : o = r.order
  BY <1>1 DEF WellFormed
<1> DEFINE new == [row[o] EXCEPT !.total = r.seen.total - r.points]
           entry == [ledger[o] EXCEPT !.uses = @ + 1, !.redeemed = @ + r.points]
<1>3. /\ row[o].status = r.seen.status /\ row[o].total = r.seen.total
      /\ Affordable(r.points)
      /\ row' = [row EXCEPT ![o] = new] /\ ledger' = [ledger EXCEPT ![o] = entry]
      /\ balance' = balance - r.points
      /\ Finish(s) /\ UNCHANGED <<items, coupon, payments, invoice, checkout, bought>>
  BY <1>2 DEF CommitDiscount, Claimed, IInv, TypeOK
<1>4. /\ IsOpen(r.seen) /\ r.seen.total \in Nat /\ r.points \in Nat
      /\ r.points <= r.seen.total
  <2>1. r.seen.total \in Nat /\ r.points \in Nat /\ IsOpen(r.seen)
        /\ r.points <= MaxRedemption(r.seen.total)
    BY <1>1 DEF Request, Row, WellFormed
  <2>2. MaxRedemption(r.seen.total) \in Nat /\ MaxRedemption(r.seen.total) <= r.seen.total
    BY <2>1, RedemptionBounded
  <2> QED
    BY <2>1, <2>2
<1> HIDE DEF r
<1>5. new \in Row /\ new.status = row[o].status /\ new.total = row[o].total - r.points
  <2>1. row[o] \in Row /\ r.seen.total - r.points \in Nat
    BY <1>4 DEF IInv, TypeOK
  <2> QED
    BY <1>3, <2>1 DEF Row
<1>6. /\ row[o].total \in Nat /\ items[o] \in Nat /\ ledger[o] \in Ledger
      /\ ledger[o].redeemed \in Nat /\ ledger[o].couponOff \in Nat
      /\ ledger[o].earned \in Nat /\ ledger[o].refunded \in Int /\ ledger[o].uses \in Nat
  BY DEF IInv, TypeOK, Row, Ledger
<1>7. /\ entry \in Ledger /\ entry.redeemed = ledger[o].redeemed + r.points
      /\ entry.couponOff = ledger[o].couponOff
      /\ entry.earned = ledger[o].earned /\ entry.refunded = ledger[o].refunded
  <2>1. ledger[o].uses + 1 \in Nat /\ ledger[o].redeemed + r.points \in Nat
    BY <1>4, <1>6
  <2> QED
    BY <1>6, <2>1 DEF Ledger
<1> HIDE DEF new, entry
<1>8. /\ row' \in [Orders -> Row] /\ row'[o] = new
      /\ \A other \in Orders \ {o} : row'[other] = row[other]
  BY <1>3, <1>5, OneRow DEF IInv, TypeOK
<1>9. /\ ledger' \in [Orders -> Ledger] /\ ledger'[o] = entry
      /\ \A other \in Orders \ {o} : ledger'[other] = ledger[other]
  BY <1>3, <1>7, OneRow DEF IInv, TypeOK
<1>10. TypeOK'
  <2>1. balance' \in Int
    BY <1>3, <1>4 DEF IInv, TypeOK
  <2> QED
    BY <1>3, <1>8, <1>9, <2>1, FinishEffect DEF IInv, TypeOK
<1>11. row[o].status \notin Closed \cup {"absent"}
  BY <1>3, <1>4 DEF IsOpen
<1>12. Sound(o)'
  <2>1. Sound(o)
    BY DEF IInv, Books
  <2>2. items' = items /\ payments' = payments /\ invoice' = invoice
    BY <1>3
  <2>3. row'[o].total = items'[o] - ledger'[o].redeemed - ledger'[o].couponOff
    BY <1>4, <1>5, <1>6, <1>7, <1>8, <1>9, <2>1, <2>2 DEF Sound
  <2> QED
    BY <1>5, <1>7, <1>8, <1>9, <1>11, <2>1, <2>2, <2>3 DEF Sound, Closed
<1>13. balance' >= 0 /\ balance' = balance + Net(o)' - Net(o)
  BY <1>3, <1>4, <1>6, <1>7, <1>9 DEF Net, IInv, TypeOK, Books, Affordable
<1>14. Books' /\ Rebills(o)
  <2>1. OthersKept(o)
    BY <1>3, <1>8, <1>9 DEF OthersKept
  <2>2. Rebills(o)
    BY <1>3, <1>5, <1>8, <1>11, <2>1 DEF Rebills, IsOpen
  <2> QED
    BY <1>10, <1>12, <1>13, <2>1, <2>2, OneOrder DEF IInv
<1>15. SpentOnce'
  BY <1>3, <1>7, <1>9 DEF IInv, SpentOnce
<1> QED
  BY <1>3, <1>10, <1>14, <1>15, FinishEffect DEF IInv

LEMMA CommitStatusKeeps ==
  ASSUME IInv, NEW s \in Sessions, CommitStatus(s)
  PROVE  IInv' /\ \E o \in Orders : Rebills(o) \/ Cancels(o)
<1> DEFINE r == req[s]
<1>1. r \in Request /\ r.op = "status" /\ WellFormed(r)
  BY Current DEF CommitStatus, Committing
<1>2. PICK o \in Orders : o = r.order
  BY <1>1 DEF WellFormed
<1> DEFINE new == [row[o] EXCEPT !.status = r.to]
           back == ledger[o].redeemed - ledger[o].earned
           entry == IF r.to = "CANCELLED" THEN [ledger[o] EXCEPT !.refunded = @ + back]
                    ELSE ledger[o]
<1>3. /\ row[o].status = r.seen.status
      /\ row' = [row EXCEPT ![o] = new]
      /\ IF r.to = "CANCELLED" THEN Refund(o) ELSE UNCHANGED <<ledger, balance>>
      /\ Finish(s) /\ UNCHANGED <<items, coupon, payments, invoice, checkout, bought>>
  BY <1>2 DEF CommitStatus, StatusClaimed, IInv, TypeOK
<1>4. IsOpen(r.seen) /\ r.to \in Statuses \ {"absent", "PAID"}
  BY <1>1, TargetsAssumption DEF WellFormed, Statuses
<1> HIDE DEF r
<1>5. /\ row[o] \in Row /\ ledger[o] \in Ledger
      /\ ledger[o].redeemed \in Nat /\ ledger[o].couponOff \in Nat
      /\ ledger[o].earned \in Nat /\ ledger[o].refunded \in Int
  BY DEF IInv, TypeOK, Ledger
<1>6. new \in Row /\ new.status = r.to /\ new.total = row[o].total
  BY <1>4, <1>5 DEF Row
<1>7. /\ entry \in Ledger /\ entry.redeemed = ledger[o].redeemed
      /\ entry.couponOff = ledger[o].couponOff /\ entry.earned = ledger[o].earned
      /\ entry.refunded = IF r.to = "CANCELLED" THEN ledger[o].refunded + back
                          ELSE ledger[o].refunded
  BY <1>5 DEF Ledger
<1>8. /\ ledger' = [ledger EXCEPT ![o] = entry]
      /\ balance' = IF r.to = "CANCELLED" THEN balance + back ELSE balance
  BY <1>3, <1>5 DEF Refund, IInv, TypeOK
<1> HIDE DEF new, entry
<1>9. /\ row' \in [Orders -> Row] /\ row'[o] = new
      /\ \A other \in Orders \ {o} : row'[other] = row[other]
  BY <1>3, <1>6, OneRow DEF IInv, TypeOK
<1>10. /\ ledger' \in [Orders -> Ledger] /\ ledger'[o] = entry
       /\ \A other \in Orders \ {o} : ledger'[other] = ledger[other]
  BY <1>7, <1>8, OneRow DEF IInv, TypeOK
<1>11. TypeOK'
  <2>1. balance' \in Int
    BY <1>5, <1>8 DEF IInv, TypeOK
  <2> QED
    BY <1>3, <1>9, <1>10, <2>1, FinishEffect DEF IInv, TypeOK
<1>12. row[o].status \notin Closed \cup {"absent"}
  BY <1>3, <1>4 DEF IsOpen
<1>13. /\ Sound(o) /\ ledger[o].earned = 0 /\ ledger[o].refunded = 0
       /\ payments[o] = <<>> /\ invoice[o] = None
  BY <1>12 DEF IInv, Books, Sound, Closed
<1>14. Sound(o)'
  <2>1. items' = items /\ payments' = payments /\ invoice' = invoice
    BY <1>3
  <2>2. row'[o].status = r.to /\ row'[o].total = row[o].total
    BY <1>6, <1>9
  <2>3. row'[o].total = items'[o] - ledger'[o].redeemed - ledger'[o].couponOff
    BY <1>7, <1>10, <1>13, <2>1, <2>2 DEF Sound
  <2> QED
    BY <1>4, <1>5, <1>7, <1>10, <1>13, <2>1, <2>2, <2>3 DEF Sound
<1>15. balance' >= 0 /\ balance' = balance + Net(o)' - Net(o)
  BY <1>5, <1>7, <1>8, <1>10, <1>13 DEF Net, IInv, TypeOK, Books
<1>16. Books' /\ (Rebills(o) \/ Cancels(o))
  <2>1. OthersKept(o)
    BY <1>3, <1>9, <1>10 DEF OthersKept
  <2>2. Rebills(o) \/ Cancels(o)
    BY <1>3, <1>4, <1>6, <1>9, <1>12, <2>1 DEF Rebills, Cancels, IsOpen, Closed
  <2> QED
    BY <1>11, <1>14, <1>15, <2>1, <2>2, OneOrder DEF IInv
<1>17. SpentOnce'
  BY <1>3, <1>7, <1>10 DEF IInv, SpentOnce
<1> QED
  BY <1>3, <1>11, <1>16, <1>17, FinishEffect DEF IInv

LEMMA CommitSettleKeeps ==
  ASSUME IInv, NEW s \in Sessions, CommitSettle(s)
  PROVE  IInv' /\ \E o \in Orders : Pays(o)
<1> DEFINE r == req[s]
<1>1. r \in Request /\ r.op = "settle" /\ WellFormed(r)
  BY Current DEF CommitSettle, Committing
<1>2. PICK o \in Orders : o = r.order
  BY <1>1 DEF WellFormed
<1> DEFINE bill == row[o].total
           new == [row[o] EXCEPT !.status = "PAID"]
           receipts == Append(payments[o], bill)
<1>3. /\ row[o] = r.seen
      /\ row' = [row EXCEPT ![o] = new]
      /\ payments' = [payments EXCEPT ![o] = receipts]
      /\ invoice' = [invoice EXCEPT ![o] = bill]
      /\ Finish(s) /\ UNCHANGED <<items, coupon, checkout, bought>>
  BY <1>2 DEF CommitSettle, SnapshotHolds, IInv, TypeOK
<1>4. PICK points \in Nat :
        /\ ledger' = [ledger EXCEPT ![o].earned = @ + points]
        /\ balance' = balance + points
  <2>1. PICK rate \in Rates :
          LET points == IF r.seen.linked THEN (r.seen.total * rate) \div 100 ELSE 0
          IN  /\ ledger' = [ledger EXCEPT ![o].earned = @ + points]
              /\ balance' = balance + points
    BY <1>2 DEF CommitSettle
  <2>2. r.seen.total \in Nat
    BY <1>1 DEF Request, Row
  <2>3. (r.seen.total * rate) \div 100 \in Nat
    BY <2>2, RateTyped
  <2> QED
    BY <2>1, <2>3
<1>5. IsOpen(r.seen)
  BY <1>1 DEF WellFormed
<1> HIDE DEF r
<1>6. /\ row[o] \in Row /\ bill \in Nat /\ payments[o] \in Seq(Nat) /\ ledger[o] \in Ledger
      /\ ledger[o].redeemed \in Nat /\ ledger[o].couponOff \in Nat
      /\ ledger[o].earned \in Nat /\ ledger[o].refunded \in Int
  BY DEF IInv, TypeOK, Row, Ledger
<1>7. row[o].status \notin Closed \cup {"absent"}
  BY <1>3, <1>5 DEF IsOpen
<1>8. /\ Sound(o) /\ ledger[o].earned = 0 /\ ledger[o].refunded = 0 /\ payments[o] = <<>>
  BY <1>7 DEF IInv, Books, Sound, Closed
<1> DEFINE entry == [ledger[o] EXCEPT !.earned = @ + points]
<1>9. /\ entry \in Ledger /\ entry.redeemed = ledger[o].redeemed
      /\ entry.couponOff = ledger[o].couponOff /\ entry.earned = points
      /\ entry.refunded = 0
  BY <1>6, <1>8 DEF Ledger
<1>10. ledger' = [ledger EXCEPT ![o] = entry]
  BY <1>4 DEF IInv, TypeOK
<1>11. new \in Row /\ new.status = "PAID" /\ new.total = bill
  BY <1>6 DEF Row, Statuses
<1>12. receipts \in Seq(Nat) /\ receipts = <<bill>>
  BY <1>6, <1>8
<1> HIDE DEF new, entry, receipts, bill
<1>13. /\ row' \in [Orders -> Row] /\ row'[o] = new
       /\ \A other \in Orders \ {o} : row'[other] = row[other]
  BY <1>3, <1>11, OneRow DEF IInv, TypeOK
<1>14. /\ ledger' \in [Orders -> Ledger] /\ ledger'[o] = entry
       /\ \A other \in Orders \ {o} : ledger'[other] = ledger[other]
  BY <1>9, <1>10, OneRow DEF IInv, TypeOK
<1>15. /\ payments' \in [Orders -> Seq(Nat)] /\ payments'[o] = receipts
       /\ \A other \in Orders \ {o} : payments'[other] = payments[other]
  BY <1>3, <1>12, OneRow DEF IInv, TypeOK
<1>16. /\ invoice' \in [Orders -> Nat \cup {None}] /\ invoice'[o] = bill
       /\ \A other \in Orders \ {o} : invoice'[other] = invoice[other]
  BY <1>3, <1>6, OneRow DEF IInv, TypeOK
<1>17. TypeOK'
  <2>1. balance' \in Int
    BY <1>4 DEF IInv, TypeOK
  <2> QED
    BY <1>3, <1>13, <1>14, <1>15, <1>16, <2>1, FinishEffect DEF IInv, TypeOK
<1>18. Sound(o)'
  <2>1. items' = items
    BY <1>3
  <2>2. row'[o].status = "PAID" /\ row'[o].total = bill
    BY <1>11, <1>13
  <2>3. row'[o].total = items'[o] - ledger'[o].redeemed - ledger'[o].couponOff
    BY <1>8, <1>9, <1>14, <2>1, <2>2 DEF Sound, bill
  <2> QED
    BY <1>9, <1>12, <1>14, <1>15, <1>16, <2>2, <2>3 DEF Sound
<1>19. balance' >= 0 /\ balance' = balance + Net(o)' - Net(o)
  BY <1>4, <1>6, <1>8, <1>9, <1>14 DEF Net, IInv, TypeOK, Books
<1>20. Books' /\ Pays(o)
  <2>1. OthersKept(o)
    BY <1>3, <1>13, <1>14, <1>15, <1>16 DEF OthersKept
  <2>2. Pays(o)
    BY <1>7, <1>11, <1>12, <1>13, <1>15, <2>1 DEF Pays, IsOpen, bill
  <2> QED
    BY <1>17, <1>18, <1>19, <2>1, <2>2, OneOrder DEF IInv
<1>21. SpentOnce'
  BY <1>3, <1>9, <1>14 DEF IInv, SpentOnce
<1> QED
  BY <1>3, <1>17, <1>20, <1>21, FinishEffect DEF IInv

-----------------------------------------------------------------------------

LEMMA InvInit == Init => IInv
<1> SUFFICES ASSUME Init PROVE IInv
  OBVIOUS
<1>1. TypeOK
  BY AmountsAssumption DEF Init, TypeOK, Row, Absent, Statuses, Ledger, NoEntry
<1>2. RequestsWellFormed
  BY DEF Init, RequestsWellFormed
<1>3. \A o \in Orders : Sound(o) /\ Net(o) = 0
  BY DEF Init, Sound, Net, Absent, NoEntry
<1> DEFINE nets == [o \in Orders |-> Net(o)]
<1>4. nets \in [Orders -> Int] /\ \A o \in Orders : nets[o] = 0
  BY <1>3
<1> HIDE DEF nets
<1>5. SumFunction(nets) = 0
  BY <1>4, OrdersAssumption, SumFunctionZero
<1>6. BalanceIsSum /\ balance >= 0
  BY <1>5, AmountsAssumption DEF Init, BalanceIsSum, nets
<1>7. SpentOnce
  BY DEF Init, SpentOnce, NoEntry
<1> QED
  BY <1>1, <1>2, <1>3, <1>6, <1>7 DEF IInv, Books

LEMMA InvNext == IInv /\ [Next]_vars => IInv'
<1> SUFFICES ASSUME IInv, [Next]_vars PROVE IInv'
  OBVIOUS
<1>1. CASE UNCHANGED vars
  <2>1. TypeOK' /\ RequestsWellFormed'
    BY <1>1 DEF IInv, TypeOK, RequestsWellFormed, WellFormed, vars, db
  <2>2. Books' /\ SpentOnce'
    BY <1>1, SameTables DEF IInv, vars
  <2> QED
    BY <2>1, <2>2 DEF IInv
<1>2. ASSUME NEW s \in Sessions,
             \/ AskPlace(s) \/ AskAppend(s) \/ AskDiscount(s) \/ AskStatus(s) \/ AskSettle(s)
             \/ CheckRewards(s) \/ Abandon(s)
             \/ CommitPlace(s) \/ CommitAppend(s) \/ CommitDiscount(s)
             \/ CommitStatus(s) \/ CommitSettle(s)
      PROVE  IInv'
  BY <1>2, AskPlaceKeeps, AskAppendKeeps, AskDiscountKeeps, AskStatusKeeps, AskSettleKeeps,
     CheckRewardsKeeps, AbandonKeeps, CommitPlaceKeeps, CommitAppendKeeps,
     CommitDiscountKeeps, CommitStatusKeeps, CommitSettleKeeps
<1> QED
  BY <1>1, <1>2 DEF Next

(* Requests leave the tables alone until they commit, and then change one  *)
(* order in one of four ways.                                              *)
LEMMA StepEffect ==
  ASSUME IInv, [Next]_vars
  PROVE  \/ UNCHANGED db
         \/ \E o \in Orders : Opens(o) \/ Rebills(o) \/ Cancels(o) \/ Pays(o)
<1>1. CASE UNCHANGED vars
  BY <1>1 DEF vars
<1>2. ASSUME NEW s \in Sessions,
             \/ AskPlace(s) \/ AskAppend(s) \/ AskDiscount(s) \/ AskStatus(s) \/ AskSettle(s)
             \/ CheckRewards(s) \/ Abandon(s)
      PROVE  UNCHANGED db
  BY <1>2 DEF AskPlace, AskAppend, AskDiscount, AskStatus, AskSettle, Ask, CheckRewards, Abandon
<1>3. ASSUME NEW s \in Sessions,
             \/ CommitPlace(s) \/ CommitAppend(s) \/ CommitDiscount(s)
             \/ CommitStatus(s) \/ CommitSettle(s)
      PROVE  \E o \in Orders : Opens(o) \/ Rebills(o) \/ Cancels(o) \/ Pays(o)
  BY <1>3, CommitPlaceKeeps, CommitAppendKeeps, CommitDiscountKeeps, CommitStatusKeeps,
     CommitSettleKeeps
<1> QED
  BY <1>1, <1>2, <1>3 DEF Next

THEOREM Invariance == Spec => []IInv
BY InvInit, InvNext, PTL DEF Spec

(* Rows, requests and balances have their types; no bill is negative.      *)
THEOREM TypeCorrect == Spec => []TypeOK
BY Invariance, PTL DEF IInv

(* payOrder: an order is PAID with one receipt over its bill and an        *)
(* invoice of that amount; no other order has either.                      *)
THEOREM PaidOnce == Spec => []PaidOnceInFull
<1>1. IInv => PaidOnceInFull
  BY DEF IInv, Books, Sound, PaidOnceInFull
<1> QED
  BY <1>1, Invariance, PTL

(* No append and no discount overwrites another: the bill is what items,   *)
(* points and coupon say.                                                  *)
THEOREM BillExplained == Spec => []BillIsExplained
<1>1. IInv => BillIsExplained
  BY DEF IInv, Books, Sound, BillIsExplained
<1> QED
  BY <1>1, Invariance, PTL

(* The balance is the sum of the ledger over all orders and not negative;  *)
(* a cancelled order has given back what it took, once.                    *)
THEOREM PointsAreKept == Spec => []PointsKept
<1>1. IInv => PointsKept
  BY DEF IInv, Books, BalanceIsSum, Sound, PointsKept
<1> QED
  BY <1>1, Invariance, PTL

(* One order per issuance, one purchase per checkout key.                  *)
THEOREM SpentOnceOnly == Spec => []SpentOnce
BY Invariance, PTL DEF IInv

(* Nothing changes an order once it is PAID or CANCELLED: what is still in *)
(* flight for it finds another status or total than it read.               *)
THEOREM ClosedStays == Spec => ClosedIsFinal
<1>1. ASSUME IInv, [Next]_vars
      PROVE  \A o \in Orders : row[o].status \in Closed =>
               UNCHANGED <<row[o], items[o], payments[o], ledger[o]>>
  <2>1. CASE UNCHANGED db
    BY <2>1 DEF db
  <2>2. ASSUME NEW o \in Orders, Opens(o) \/ Rebills(o) \/ Cancels(o) \/ Pays(o)
        PROVE  row[o].status \notin Closed /\ OthersKept(o)
    BY <2>2 DEF Opens, Rebills, Cancels, Pays, IsOpen, Closed
  <2> QED
    BY <1>1, <2>1, <2>2, StepEffect DEF OthersKept
<1> QED
  BY <1>1, Invariance, PTL DEF Spec, ClosedIsFinal

-----------------------------------------------------------------------------
(* Refinement of OrderBook                                                 *)

States   == [o \in Orders |-> StateOf(o)]
Dues     == [o \in Orders |-> row[o].total]
Receipts == [o \in Orders |-> IF payments[o] = <<>> THEN 0 ELSE payments[o][Len(payments[o])]]

LEMMA BookInit == Init => Book!Init
BY DEF Init, Absent, StateOf, Book!Init

(* Of the other orders, the books see no change.                           *)
LEMMA OthersSame ==
  ASSUME NEW o \in Orders, OthersKept(o)
  PROVE  \A other \in Orders \ {o} :
           States'[other] = States[other] /\ Dues'[other] = Dues[other]
             /\ Receipts'[other] = Receipts[other]
BY DEF OthersKept, States, Dues, Receipts, StateOf

LEMMA StateMeans ==
  ASSUME NEW o \in Orders
  PROVE  /\ row[o].status = "absent" => States[o] = "absent"
         /\ IsOpen(row[o]) => States[o] = "open"
         /\ IsOpen(row'[o]) => States'[o] = "open"
         /\ row'[o].status = "PAID" => States'[o] = "paid"
         /\ row'[o].status = "CANCELLED" => States'[o] = "cancelled"
BY DEF States, StateOf, IsOpen, Closed

LEMMA OneValue ==
  ASSUME NEW S, NEW f, NEW g, f = [x \in S |-> f[x]], g = [x \in S |-> g[x]],
         NEW y \in S, \A x \in S \ {y} : g[x] = f[x]
  PROVE  g = [f EXCEPT ![y] = g[y]]
OBVIOUS

LEMMA Tabulated ==
  /\ States = [o \in Orders |-> States[o]] /\ States' = [o \in Orders |-> States'[o]]
  /\ Receipts = [o \in Orders |-> Receipts[o]] /\ Receipts' = [o \in Orders |-> Receipts'[o]]
BY DEF States, Receipts

LEMMA BookStep ==
  ASSUME IInv, IInv', [Next]_vars
  PROVE  [Book!Next]_(Book!vars)
<1>1. Dues' \in [Orders -> Nat] /\ Dues \in [Orders -> Nat]
  <2>1. \A o \in Orders : row[o] \in Row /\ row'[o] \in Row
    BY DEF IInv, TypeOK
  <2> QED
    BY <2>1 DEF Row, Dues
<1>2. ASSUME UNCHANGED db PROVE UNCHANGED Book!vars
  BY <1>2 DEF db, StateOf, Book!vars
<1>3. ASSUME NEW o \in Orders, OthersKept(o)
      PROVE  /\ States' = [States EXCEPT ![o] = States'[o]]
             /\ Receipts' = [Receipts EXCEPT ![o] = Receipts'[o]]
             /\ \A other \in Orders \ {o} : Dues'[other] = Dues[other]
  BY <1>3, OthersSame, OneValue, Tabulated
<1>4. payments' = payments => Receipts' = Receipts
  BY DEF Receipts
<1>5. ASSUME NEW o \in Orders, Opens(o) PROVE Book!Open(o)
  <2>1. /\ States[o] = "absent" /\ States' = [States EXCEPT ![o] = "open"]
        /\ \A other \in Orders \ {o} : Dues'[other] = Dues[other]
        /\ Receipts' = Receipts
    BY <1>3, <1>4, <1>5, StateMeans DEF Opens
  <2> QED
    BY <1>1, <2>1 DEF Book!Open, Book!Bill, States, Dues, Receipts
<1>6. ASSUME NEW o \in Orders, Rebills(o) PROVE Book!Rebill(o)
  <2>1. /\ States[o] = "open" /\ States' = [States EXCEPT ![o] = "open"]
        /\ \A other \in Orders \ {o} : Dues'[other] = Dues[other]
        /\ Receipts' = Receipts
    BY <1>3, <1>4, <1>6, StateMeans DEF Rebills
  <2>2. States' = States
    BY <2>1 DEF States
  <2> QED
    BY <1>1, <2>1, <2>2 DEF Book!Rebill, Book!Bill, States, Dues, Receipts
<1>7. ASSUME NEW o \in Orders, Cancels(o) PROVE Book!Cancel(o)
  <2>1. /\ States[o] = "open" /\ States' = [States EXCEPT ![o] = "cancelled"]
        /\ Receipts' = Receipts
    BY <1>3, <1>4, <1>7, StateMeans DEF Cancels
  <2>2. Dues' = Dues
    BY <1>7 DEF Cancels, OthersKept, Dues
  <2> QED
    BY <2>1, <2>2 DEF Book!Cancel, States, Dues, Receipts
<1>8. ASSUME NEW o \in Orders, Pays(o) PROVE Book!Pay(o)
  <2>1. States[o] = "open" /\ States' = [States EXCEPT ![o] = "paid"]
    BY <1>3, <1>8, StateMeans DEF Pays
  <2>2. Dues' = Dues
    BY <1>8 DEF Pays, OthersKept, Dues
  <2>3. Receipts'[o] = Dues[o]
    <3> DEFINE bill == row[o].total
    <3>1. <<bill>> # <<>> /\ <<bill>>[Len(<<bill>>)] = bill
      OBVIOUS
    <3> QED
      BY <1>8, <3>1 DEF Pays, Receipts, Dues
  <2>4. Receipts' = [Receipts EXCEPT ![o] = Dues[o]]
    BY <1>3, <1>8, <2>3 DEF Pays
  <2> QED
    BY <2>1, <2>2, <2>4 DEF Book!Pay, States, Dues, Receipts
<1> QED
  BY <1>2, <1>5, <1>6, <1>7, <1>8, StepEffect DEF Book!Next

(* Orders keep the promise of the books, OrderBook: a bill moves only      *)
(* while the order is open, and one receipt over it closes it.             *)
THEOREM BookIsKept == Spec => BookKept
<1>1. Spec => Book!Init /\ [][Book!Next]_(Book!vars)
  BY BookInit, BookStep, Invariance, PTL DEF Spec
<1> QED
  BY <1>1 DEF BookKept, Book!Spec
=============================================================================
