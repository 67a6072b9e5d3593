--------------------------- MODULE StockLedgerProofs ---------------------------
(***************************************************************************)
(* Proofs about StockLedger for every value of its constants.              *)
(*                                                                         *)
(* A movement appends one entry to one ledger.  What each property says    *)
(* of the ledgers is kept by such a step if the entry fits: its previous   *)
(* stock is the last one, it brings a transfer's sum to what the paper     *)
(* says, it is the first of its sale or receipt.  That it fits follows     *)
(* from what a request has read, because the row (its version is the       *)
(* number of entries) and the paper are still as they were.                *)
(***************************************************************************)
EXTENDS StockLedger, FiniteSetTheorems, SumTheorems, TLAPS

(* What a request of each kind has read.                                   *)
WellFormed(r) ==
  /\ r.op # "approve" => r.row.known
  /\ r.op \in {"adjust", "waste", "audit"} => r.ref = None
  /\ r.op = "sell" => r.ref \in Sales /\ r.at = Seller
  /\ r.op = "waste" => r.quantity \in Nat
  /\ r.op = "send" =>
       /\ r.ref \in Transfers /\ r.paper = NoTransfer
       /\ r.next \in Transfer /\ r.next.status = "PENDING" /\ r.next.source = r.at
       /\ r.next.dest \in Branches /\ r.next.quantity > 0
       /\ r.row.stock >= r.next.quantity
  /\ r.op \in {"approve", "reject"} =>
       /\ r.ref \in Transfers /\ r.paper \in Transfer
       /\ r.paper.status = "PENDING" /\ r.paper.quantity > 0
       /\ r.next \in Transfer /\ r.next.status \in {"COMPLETED", "REJECTED"}
       /\ r.next.source = r.paper.source /\ r.next.dest = r.paper.dest
       /\ r.next.quantity = r.paper.quantity
  /\ r.op \in {"edit", "receive"} =>
       /\ r.ref \in POs /\ r.paper \in PO /\ r.paper.status \in OpenPO
       /\ r.next \in PO /\ r.next.at = r.paper.at
       /\ r.next.quantity > 0 /\ r.next.price \in Prices
  /\ r.op = "edit" => r.next.status \in OpenPO
  /\ r.op = "receive" =>
       /\ r.next.status = "RECEIVED" /\ r.at = r.paper.at
       /\ r.next.quantity = r.paper.quantity /\ r.next.price = r.paper.price

(* Up to the version that r has read, its sale is not in the ledger.       *)
Unsold(r) ==
  \A k \in 1 .. r.version :
    ~(ledger[Seller][k].action = "SALE_DEDUCTION" /\ ledger[Seller][k].ref = r.ref)

RequestsWellFormed ==
  \A s \in Sessions : req[s] # None =>
    /\ WellFormed(req[s])
    /\ req[s].version <= Len(ledger[req[s].at])
    /\ req[s].row.known => material[req[s].at].known
    /\ req[s].op = "sell" => Unsold(req[s])

PapersWellFormed ==
  /\ \A t \in Transfers : transfer[t].status # "absent" =>
       /\ transfer[t].source \in Branches /\ transfer[t].dest \in Branches
       /\ transfer[t].quantity > 0 /\ material[transfer[t].source].known
  /\ \A p \in POs : po[p].status # "absent" =>
       po[p].at \in Branches /\ po[p].quantity > 0 /\ po[p].price \in Prices

(* The stock is what the last entry says.                                  *)
StockIsLast ==
  \A b \in Branches :
    /\ material[b].stock = StockBefore(b, Len(ledger[b]) + 1)
    /\ ~material[b].known => ledger[b] = <<>>

Chained == StockIsLast /\ LedgerChains

OutsCovered ==
  \A b \in Branches : \A k \in 1 .. Len(ledger[b]) :
    ledger[b][k].action = "TRANSFER_OUT" /\ ledger[b][k].ref # None => ledger[b][k].new >= 0

Due(t) == IF transfer[t].status = "PENDING" THEN -transfer[t].quantity ELSE 0
TransfersBooked == \A t \in Transfers : Booked(t) = Due(t)

SoldOnce ==
  \A i \in Sales : \A k, m \in EntriesOf(Seller, "SALE_DEDUCTION", i) : k = m

ReceivedOnce ==
  \A p \in POs :
    IF po[p].status = "RECEIVED"
      THEN /\ \E k \in Receipts(po[p].at, p) :
                /\ Receipts(po[p].at, p) = {k}
                /\ ledger[po[p].at][k].quantity = po[p].quantity
           /\ \A b \in Branches \ {po[p].at} : Receipts(b, p) = {}
      ELSE \A b \in Branches : Receipts(b, p) = {}

PayableIsSum == payable = SumFunction([p \in POs |-> Owed(p)])

CostsWithin ==
  NeverShort =>
    /\ \A b \in Branches : material[b].known => WithinPrices(material[b].cost)
    /\ \A s \in Sessions : req[s] # None /\ req[s].op = "approve" => WithinPrices(req[s].cost)

Books == Chained /\ OutsCovered /\ TransfersBooked /\ SoldOnce /\ ReceivedOnce /\ PayableIsSum

IInv == TypeOK /\ RequestsWellFormed /\ PapersWellFormed /\ Books /\ CostsWithin

-----------------------------------------------------------------------------
(* Average costs                                                           *)

LEMMA Division ==
  ASSUME NEW n \in Nat, NEW d \in Nat \ {0}
  PROVE  n \div d \in Nat /\ (n \div d) * d <= n /\ n < (n \div d) * d + d
OBVIOUS

LEMMA TimesMonotone ==
  ASSUME NEW a \in Nat, NEW b \in Nat, a <= b, NEW n \in Nat
  PROVE  a * n <= b * n
OBVIOUS

(* Rounding to whole numbers stays between whole bounds.                   *)
LEMMA RoundedBetween ==
  ASSUME NEW num \in Nat, NEW den \in Nat \ {0}, NEW low \in Nat, NEW high \in Nat,
         low * den <= num, num <= high * den
  PROVE  Rounded(num, den) \in Nat /\ low <= Rounded(num, den) /\ Rounded(num, den) <= high
<1> DEFINE q == (2 * num + den) \div (2 * den)
<1>1. 2 * num + den \in Nat /\ 2 * den \in Nat \ {0}
  OBVIOUS
<1>2. q \in Nat /\ q * (2 * den) <= 2 * num + den /\ 2 * num + den < q * (2 * den) + 2 * den
  BY <1>1, Division
<1>3. Rounded(num, den) = q
  BY DEF Rounded
<1> HIDE DEF q
<1>4. low <= q
  <2> SUFFICES ASSUME q + 1 <= low PROVE FALSE
    BY <1>2
  <2>1. (q + 1) * den <= low * den
    BY <1>2, TimesMonotone
  <2> QED
    BY <1>2, <2>1
<1>5. q <= high
  <2> SUFFICES ASSUME high + 1 <= q PROVE FALSE
    BY <1>2
  <2>1. (high + 1) * den <= q * den
    BY <1>2, TimesMonotone
  <2> QED
    BY <1>2, <2>1
<1> QED
  BY <1>2, <1>3, <1>4, <1>5

LEMMA AverageWithin ==
  ASSUME NEW row \in Material, row.stock >= 0, NEW quantity \in Nat \ {0}, NEW price \in Nat,
         WithinPrices(row.cost), WithinPrices(price), NEW otherwise
  PROVE  WithinPrices(AverageCost(row, quantity, price, otherwise))
<1>1. PICK low1, high1 \in Prices : low1 <= row.cost /\ row.cost <= high1
  BY DEF WithinPrices
<1>2. PICK low2, high2 \in Prices : low2 <= price /\ price <= high2
  BY DEF WithinPrices
<1> DEFINE s == row.stock
           c == row.cost
<1>3. s \in Nat /\ c \in Int
  BY DEF Material
<1>4. low1 \in Nat /\ high1 \in Nat /\ low2 \in Nat /\ high2 \in Nat /\ c \in Nat
  BY <1>1, <1>3, PricesAssumption
<1>5. PICK low \in Prices : low <= c /\ low <= price
  BY <1>1, <1>2, <1>4
<1>6. PICK high \in Prices : c <= high /\ price <= high
  BY <1>1, <1>2, <1>4
<1>7. low \in Nat /\ high \in Nat
  BY PricesAssumption
<1> DEFINE num == s * c + quantity * price
           den == s + quantity
<1>8. num \in Nat /\ den \in Nat \ {0}
  BY <1>3, <1>4
<1>9. low * den <= num
  <2>1. low * s <= c * s /\ low * quantity <= price * quantity
    BY <1>3, <1>4, <1>5, <1>7, TimesMonotone
  <2>2. /\ num = c * s + price * quantity /\ low * den = low * s + low * quantity
        /\ c * s \in Nat /\ price * quantity \in Nat /\ low * s \in Nat /\ low * quantity \in Nat
    BY <1>3, <1>4, <1>7
  <2> QED
    BY <2>1, <2>2
<1>10. num <= high * den
  <2>1. c * s <= high * s /\ price * quantity <= high * quantity
    BY <1>3, <1>4, <1>6, <1>7, TimesMonotone
  <2>2. /\ num = c * s + price * quantity /\ high * den = high * s + high * quantity
        /\ c * s \in Nat /\ price * quantity \in Nat /\ high * s \in Nat /\ high * quantity \in Nat
    BY <1>3, <1>4, <1>7
  <2> QED
    BY <2>1, <2>2
<1>11. AverageCost(row, quantity, price, otherwise) = Rounded(num, den)
  BY <1>8 DEF AverageCost
<1> HIDE DEF num, den
<1>12. Rounded(num, den) \in Nat /\ low <= Rounded(num, den) /\ Rounded(num, den) <= high
  BY <1>7, <1>8, <1>9, <1>10, RoundedBetween
<1> QED
  BY <1>11, <1>12 DEF WithinPrices

LEMMA RoundedTyped ==
  ASSUME NEW num \in Int, NEW den \in Nat \ {0}
  PROVE  Rounded(num, den) \in Int
<1>1. CASE num >= 0
  <2>1. 2 * num + den \in Nat /\ 2 * den \in Nat \ {0}
    BY <1>1
  <2>2. (2 * num + den) \div (2 * den) \in Nat
    BY <2>1, Division
  <2> QED
    BY <1>1, <2>2 DEF Rounded
<1>2. CASE num < 0
  <2>1. den - 2 * num \in Nat /\ 2 * den \in Nat \ {0}
    BY <1>2
  <2>2. (den - 2 * num) \div (2 * den) \in Nat
    BY <2>1, Division
  <2> QED
    BY <1>2, <2>2 DEF Rounded
<1> QED
  BY <1>1, <1>2

LEMMA AverageTyped ==
  ASSUME NEW row \in Material, NEW quantity \in Nat, NEW price \in Int, NEW otherwise \in Int
  PROVE  AverageCost(row, quantity, price, otherwise) \in Int
<1> DEFINE s == row.stock
           c == row.cost
           num == s * c + quantity * price
           den == s + quantity
<1>1. s \in Int /\ c \in Int
  BY DEF Material
<1>2. num \in Int /\ den \in Int
  BY <1>1
<1>3. CASE den > 0
  <2>1. AverageCost(row, quantity, price, otherwise) = Rounded(num, den)
    BY <1>3 DEF AverageCost
  <2> HIDE DEF num, den
  <2> QED
    BY <1>2, <1>3, <2>1, RoundedTyped
<1>4. CASE ~(den > 0)
  BY <1>4 DEF AverageCost
<1> QED
  BY <1>3, <1>4

-----------------------------------------------------------------------------
(* One more entry in one ledger                                            *)

Grows(b, e) == ledger' = [ledger EXCEPT ![b] = Append(@, e)]

LEMMA Growth ==
  ASSUME TypeOK, NEW b \in Branches, NEW e \in Entry, Grows(b, e)
  PROVE  /\ ledger' \in [Branches -> Seq(Entry)]
         /\ Len(ledger[b]) \in Nat /\ Len(ledger'[b]) = Len(ledger[b]) + 1
         /\ ledger'[b][Len(ledger[b]) + 1] = e
         /\ \A k \in 1 .. Len(ledger[b]) : ledger'[b][k] = ledger[b][k]
         /\ \A c \in Branches \ {b} : ledger'[c] = ledger[c]
<1>1. ledger[b] \in Seq(Entry)
  BY DEF TypeOK
<1>2. /\ Append(ledger[b], e) \in Seq(Entry) /\ Len(ledger[b]) \in Nat
      /\ Len(Append(ledger[b], e)) = Len(ledger[b]) + 1
      /\ Append(ledger[b], e)[Len(ledger[b]) + 1] = e
      /\ \A k \in 1 .. Len(ledger[b]) : Append(ledger[b], e)[k] = ledger[b][k]
  BY <1>1
<1> DEFINE longer == Append(ledger[b], e)
<1>3. ledger' = [ledger EXCEPT ![b] = longer]
  BY DEF Grows
<1>4. ledger'[b] = longer /\ \A c \in Branches \ {b} : ledger'[c] = ledger[c]
  BY <1>3 DEF TypeOK
<1>5. ledger' \in [Branches -> Seq(Entry)]
  BY <1>2, <1>3 DEF TypeOK
<1> QED
  BY <1>2, <1>4, <1>5

LEMMA ChainGrows ==
  ASSUME TypeOK, Chained, NEW b \in Branches, NEW e \in Entry, Grows(b, e),
         NEW m \in Material, material' = [material EXCEPT ![b] = m],
         m.stock = e.new, m.known,
         e.action # "PHYSICAL_AUDIT" => e.previous = material[b].stock
  PROVE  Chained'
<1>1. \A c \in Branches : Len(ledger[c]) \in Nat
  BY DEF TypeOK
<1> PICK n \in Nat : n = Len(ledger[b])
  BY <1>1
<1>2. /\ Len(ledger'[b]) = n + 1 /\ ledger'[b][n + 1] = e
      /\ \A k \in 1 .. n : ledger'[b][k] = ledger[b][k]
      /\ \A c \in Branches \ {b} : ledger'[c] = ledger[c]
  BY Growth
<1>3. \A c \in Branches : material'[c] = IF c = b THEN m ELSE material[c]
  BY DEF TypeOK
<1>4. \A c \in Branches : StockBefore(c, Len(ledger[c]) + 1) = material[c].stock
  BY DEF Chained, StockIsLast
<1>5. ASSUME NEW c \in Branches
      PROVE  /\ material'[c].stock = StockBefore(c, Len(ledger[c]) + 1)'
             /\ ~material'[c].known => ledger'[c] = <<>>
  <2>1. CASE c = b
    BY <1>1, <1>2, <1>3, <2>1 DEF StockBefore
  <2>2. CASE c # b
    BY <1>1, <1>2, <1>3, <1>4, <2>2 DEF StockBefore, Chained, StockIsLast
  <2> QED
    BY <2>1, <2>2
<1>6. ASSUME NEW c \in Branches, NEW k \in 1 .. Len(ledger'[c]),
             ledger'[c][k].action # "PHYSICAL_AUDIT"
      PROVE  ledger'[c][k].previous = StockBefore(c, k)'
  <2>1. CASE c # b
    BY <1>2, <1>6, <2>1 DEF StockBefore, Chained, LedgerChains
  <2>2. CASE c = b /\ k = n + 1
    <3>1. StockBefore(b, n + 1)' = StockBefore(b, n + 1)
      BY <1>1, <1>2 DEF StockBefore
    <3> QED
      BY <1>2, <1>4, <1>6, <2>2, <3>1
  <2>3. CASE c = b /\ k # n + 1
    <3>1. k \in 1 .. n
      BY <1>1, <1>2, <2>3
    <3>2. StockBefore(b, k)' = StockBefore(b, k)
      BY <1>1, <1>2, <3>1 DEF StockBefore
    <3>3. ledger[b][k].action # "PHYSICAL_AUDIT" => ledger[b][k].previous = StockBefore(b, k)
      BY <3>1 DEF Chained, LedgerChains
    <3> QED
      BY <1>2, <1>6, <2>3, <3>1, <3>2, <3>3
  <2> QED
    BY <2>1, <2>2, <2>3
<1> QED
  BY <1>5, <1>6 DEF Chained, StockIsLast, LedgerChains

LEMMA OutsGrow ==
  ASSUME TypeOK, OutsCovered, NEW b \in Branches, NEW e \in Entry, Grows(b, e),
         e.action = "TRANSFER_OUT" /\ e.ref # None => e.new >= 0
  PROVE  OutsCovered'
<1> SUFFICES ASSUME NEW c \in Branches, NEW k \in 1 .. Len(ledger'[c]),
                    ledger'[c][k].action = "TRANSFER_OUT", ledger'[c][k].ref # None
             PROVE  ledger'[c][k].new >= 0
  BY DEF OutsCovered
<1>1. CASE c # b
  BY <1>1, Growth DEF OutsCovered
<1>2. CASE c = b /\ k = Len(ledger[b]) + 1
  BY <1>2, Growth
<1>3. CASE c = b /\ k # Len(ledger[b]) + 1
  <2>1. k \in 1 .. Len(ledger[b])
    BY <1>3, Growth
  <2> QED
    BY <1>3, <2>1, Growth DEF OutsCovered
<1> QED
  BY <1>1, <1>2, <1>3

(* What an entry adds to the sum of a transfer.                            *)
Adds(e, t) == IF e.ref = t THEN e.quantity ELSE 0

LEMMA MovedTyped ==
  ASSUME NEW entries \in Seq(Entry), NEW t
  PROVE  SumFunction([k \in DOMAIN entries |-> Adds(entries[k], t)]) \in Int
<1>1. DOMAIN entries = 1 .. Len(entries) /\ Len(entries) \in Nat
  OBVIOUS
<1>2. IsFiniteSet(DOMAIN entries)
  BY <1>1, FS_Interval
<1>3. \A k \in DOMAIN entries : Adds(entries[k], t) \in Int
  <2>1. \A k \in DOMAIN entries : entries[k] \in Entry
    BY <1>1
  <2>2. \A x \in Entry : Adds(x, t) \in Int
    BY DEF Entry, Adds
  <2> QED
    BY <2>1, <2>2
<1> DEFINE f == [k \in DOMAIN entries |-> Adds(entries[k], t)]
<1>4. f \in [DOMAIN entries -> Int]
  BY <1>3
<1> HIDE DEF f
<1>5. SumFunction(f) \in Int
  BY <1>2, <1>4, SumFunctionInt
<1> QED
  BY <1>5 DEF f

LEMMA MovedMore ==
  ASSUME NEW entries \in Seq(Entry), NEW e \in Entry, NEW t,
         NEW longer \in Seq(Entry), Len(longer) = Len(entries) + 1,
         longer[Len(entries) + 1] = e, \A k \in 1 .. Len(entries) : longer[k] = entries[k]
  PROVE  SumFunction([k \in DOMAIN longer |-> Adds(longer[k], t)])
           = SumFunction([k \in DOMAIN entries |-> Adds(entries[k], t)]) + Adds(e, t)
<1> DEFINE y == Len(entries) + 1
           S == 1 .. y
           T == 1 .. Len(entries)
           f == [k \in T |-> Adds(entries[k], t)]
           g == [k \in S |-> Adds(longer[k], t)]
<1>1. DOMAIN entries = T /\ DOMAIN longer = S /\ y \in S /\ T = S \ {y} /\ IsFiniteSet(S)
  <2>1. Len(entries) \in Nat /\ DOMAIN entries = T /\ DOMAIN longer = 1 .. Len(longer)
    OBVIOUS
  <2>2. IsFiniteSet(S)
    BY <2>1, FS_Interval
  <2>3. T = S \ {y} /\ y \in S
    BY <2>1
  <2> QED
    BY <2>1, <2>2, <2>3
<1>2. /\ \A k \in T : entries[k] \in Entry /\ longer[k] = entries[k]
      /\ \A k \in S : longer[k] \in Entry
      /\ longer[y] = e
  BY <1>1
<1>3. \A x \in Entry : Adds(x, t) \in Int
  BY DEF Entry, Adds
<1> HIDE DEF S, T, y
<1>4. /\ f \in [T -> Int] /\ g \in [S -> Int] /\ g[y] = Adds(e, t)
      /\ \A k \in T : g[k] = f[k]
  BY <1>1, <1>2, <1>3
<1> HIDE DEF f, g
<1>5. SumFunction(g) = SumFunction(f) + g[y]
  <2>1. IsFiniteSet(S) /\ y \in S /\ T \in SUBSET S /\ y \notin T
    BY <1>1
  <2>2. \A x \in S : x = y \/ x \in T
    BY <1>1
  <2>3. f \in [T -> Int]
    BY <1>4
  <2>4. g \in [S -> Int]
    BY <1>4
  <2>5. \A x \in T : g[x] = f[x]
    BY <1>4
  <2> QED
    BY <2>1, <2>2, <2>3, <2>4, <2>5, SumFunctionExtend
<1> QED
  BY <1>1, <1>4, <1>5 DEF f, g

LEMMA BookedGrows ==
  ASSUME TypeOK, NEW b \in Branches, NEW e \in Entry, Grows(b, e), NEW t
  PROVE  Booked(t) \in Int /\ Booked(t)' = Booked(t) + Adds(e, t)
<1> DEFINE before == [c \in Branches |-> MovedAt(c, t)]
           after == [c \in Branches |-> MovedAt(c, t)']
<1>1. /\ \A c \in Branches : ledger[c] \in Seq(Entry) /\ ledger'[c] \in Seq(Entry)
      /\ \A c \in Branches \ {b} : ledger'[c] = ledger[c]
  BY Growth DEF TypeOK
<1>2. \A c \in Branches : MovedAt(c, t) \in Int /\ MovedAt(c, t)' \in Int
  BY <1>1, MovedTyped DEF MovedAt, Adds
<1>3. MovedAt(b, t)' = MovedAt(b, t) + Adds(e, t)
  <2>1. SumFunction([k \in DOMAIN ledger'[b] |-> Adds(ledger'[b][k], t)])
          = SumFunction([k \in DOMAIN ledger[b] |-> Adds(ledger[b][k], t)]) + Adds(e, t)
    BY <1>1, Growth, MovedMore
  <2> QED
    BY <2>1 DEF MovedAt, Adds
<1>4. \A c \in Branches \ {b} : MovedAt(c, t)' = MovedAt(c, t)
  BY <1>1 DEF MovedAt
<1>5. before \in [Branches -> Int] /\ after \in [Branches -> Int]
      /\ before[b] = MovedAt(b, t) /\ after[b] = MovedAt(b, t)'
      /\ \A c \in Branches \ {b} : after[c] = before[c]
  BY <1>2, <1>4
<1>6. Booked(t) = SumFunction(before) /\ Booked(t)' = SumFunction(after)
  BY DEF Booked
<1> HIDE DEF before, after
<1>7. SumFunction(before) \in Int
      /\ SumFunction(after) = SumFunction(before) - before[b] + after[b]
  BY <1>5, FiniteAssumption, SumFunctionInt, SumFunctionUpdate
<1>8. Adds(e, t) \in Int
  BY DEF Entry, Adds
<1> QED
  BY <1>2, <1>3, <1>5, <1>6, <1>7, <1>8

LEMMA EntriesGrow ==
  ASSUME TypeOK, NEW b \in Branches, NEW e \in Entry, Grows(b, e),
         NEW c \in Branches, NEW action, NEW ref
  PROVE  EntriesOf(c, action, ref)' =
           EntriesOf(c, action, ref) \cup
             (IF c = b /\ e.action = action /\ e.ref = ref THEN {Len(ledger[b]) + 1} ELSE {})
<1>1. Len(ledger[c]) \in Nat
  BY DEF TypeOK
<1>2. CASE c # b
  BY <1>2, Growth DEF EntriesOf
<1>3. CASE c = b
  <2> PICK n \in Nat : n = Len(ledger[b])
    BY <1>1, <1>3
  <2>1. /\ Len(ledger'[b]) = n + 1 /\ ledger'[b][n + 1] = e
        /\ \A k \in 1 .. n : ledger'[b][k] = ledger[b][k]
    BY Growth
  <2>2. 1 .. (n + 1) = (1 .. n) \cup {n + 1}
    OBVIOUS
  <2> QED
    BY <1>3, <2>1, <2>2 DEF EntriesOf
<1> QED
  BY <1>2, <1>3

LEMMA SoldGrows ==
  ASSUME TypeOK, SoldOnce, NEW b \in Branches, NEW e \in Entry, Grows(b, e),
         e.action = "SALE_DEDUCTION" /\ e.ref \in Sales
           => EntriesOf(Seller, "SALE_DEDUCTION", e.ref) = {}
  PROVE  SoldOnce'
BY EntriesGrow, SellerAssumption DEF SoldOnce

LEMMA ReceivedGrows ==
  ASSUME TypeOK, PapersWellFormed, ReceivedOnce, NEW b \in Branches, NEW e \in Entry,
         Grows(b, e), e.action = "PURCHASE_RECEIPT" => e.ref \notin POs, po' = po
  PROVE  ReceivedOnce'
<1>1. \A c \in Branches, p \in POs : Receipts(c, p)' = Receipts(c, p)
  <2> SUFFICES ASSUME NEW c \in Branches, NEW p \in POs
               PROVE  EntriesOf(c, "PURCHASE_RECEIPT", p)' = EntriesOf(c, "PURCHASE_RECEIPT", p)
    BY DEF Receipts
  <2>1. EntriesOf(c, "PURCHASE_RECEIPT", p)' =
          EntriesOf(c, "PURCHASE_RECEIPT", p) \cup
            (IF c = b /\ e.action = "PURCHASE_RECEIPT" /\ e.ref = p THEN {Len(ledger[b]) + 1} ELSE {})
    BY EntriesGrow
  <2> QED
    BY <2>1
<1>2. \A c \in Branches : \A k \in 1 .. Len(ledger[c]) : ledger'[c][k] = ledger[c][k]
  BY Growth
<1> SUFFICES ASSUME NEW p \in POs, po[p].status = "RECEIVED"
             PROVE  \A k \in Receipts(po[p].at, p) : ledger'[po[p].at][k] = ledger[po[p].at][k]
  BY <1>1 DEF ReceivedOnce, PapersWellFormed
<1>3. po[p].at \in Branches
  BY DEF PapersWellFormed
<1> QED
  BY <1>2, <1>3 DEF Receipts, EntriesOf

(* A ledger that is never short now has never been.                        *)
LEMMA ShortStays ==
  ASSUME TypeOK, NEW b \in Branches, NEW e \in Entry, Grows(b, e), NeverShort'
  PROVE  NeverShort /\ e.new >= 0
<1>1. \A c \in Branches : \A k \in 1 .. Len(ledger'[c]) : ledger'[c][k].new >= 0
  BY DEF NeverShort
<1>2. Len(ledger[b]) \in Nat /\ \A c \in Branches : Len(ledger[c]) \in Nat
  BY DEF TypeOK
<1>3. ASSUME NEW c \in Branches, NEW k \in 1 .. Len(ledger[c]) PROVE ledger[c][k].new >= 0
  <2>1. k \in 1 .. Len(ledger'[c]) /\ ledger'[c][k] = ledger[c][k]
    BY <1>2, Growth
  <2> QED
    BY <1>1, <2>1
<1>4. Len(ledger[b]) + 1 \in 1 .. Len(ledger'[b]) /\ ledger'[b][Len(ledger[b]) + 1] = e
  BY <1>2, Growth
<1> QED
  BY <1>1, <1>3, <1>4 DEF NeverShort

LEMMA StockCovered ==
  ASSUME TypeOK, StockIsLast, NeverShort, NEW b \in Branches
  PROVE  material[b].stock >= 0
<1> PICK n \in Nat : n = Len(ledger[b])
  BY DEF TypeOK
<1>0. material[b].stock = StockBefore(b, n + 1)
  BY DEF StockIsLast
<1>1. CASE n = 0
  BY <1>0, <1>1 DEF StockBefore
<1>2. CASE n # 0
  <2>1. n \in 1 .. Len(ledger[b]) /\ n + 1 # 1 /\ (n + 1) - 1 = n
    BY <1>2
  <2>2. ledger[b][n].new >= 0
    BY <2>1 DEF NeverShort
  <2> QED
    BY <1>0, <2>1, <2>2 DEF StockBefore
<1> QED
  BY <1>1, <1>2

-----------------------------------------------------------------------------
(* Movements                                                               *)

LEMMA Current ==
  ASSUME IInv, NEW s \in Sessions, req[s] # None
  PROVE  /\ req[s] \in Request /\ WellFormed(req[s]) /\ req[s].at \in Branches
         /\ req[s].row \in Material /\ req[s].quantity \in Int /\ req[s].cost \in Int
         /\ req[s].ref \in Papers \cup {None}
         /\ req[s].op = "sell" => Unsold(req[s])
BY DEF IInv, TypeOK, RequestsWellFormed, Request

(* What Book writes.                                                       *)
LEMMA BookEffect ==
  ASSUME TypeOK, NEW r \in Request, NEW action \in Actions, NEW quantity \in Int, NEW cost \in Int,
         Book(r, action, quantity, cost)
  PROVE  \E e \in Entry, m \in Material :
           /\ Grows(r.at, e) /\ material' = [material EXCEPT ![r.at] = m]
           /\ e.action = action /\ e.quantity = quantity /\ e.ref = r.ref
           /\ e.previous = r.row.stock /\ e.new = r.row.stock + quantity
           /\ m.stock = e.new /\ m.known /\ m.cost = cost
<1> DEFINE e == [action |-> action, quantity |-> quantity, previous |-> r.row.stock,
                 new |-> r.row.stock + quantity, ref |-> r.ref]
           m == [known |-> TRUE, stock |-> r.row.stock + quantity, cost |-> cost]
<1>1. r.row.stock \in Int /\ r.ref \in Papers \cup {None}
  BY DEF Request, Material
<1>2. e \in Entry /\ m \in Material
  BY <1>1 DEF Entry, Material
<1>3. Grows(r.at, e) /\ material' = [material EXCEPT ![r.at] = m]
  BY DEF Book, Grows
<1> QED
  BY <1>2, <1>3

Known(b) == material[b].known

(* Requests end, or go on as they are.                                     *)
FewerRequests ==
  /\ req' \in [Sessions -> Request \cup {None}]
  /\ \A q \in Sessions : req'[q] # None => req'[q] = req[q]

LEMMA FinishEffect ==
  ASSUME TypeOK, NEW s \in Sessions, Finish(s) \/ req' = req
  PROVE  FewerRequests
<1>1. CASE Finish(s)
  <2>1. req' \in [Sessions -> Request \cup {None}]
    BY <1>1 DEF TypeOK, Finish
  <2>2. \A q \in Sessions : req'[q] = IF q = s THEN None ELSE req[q]
    BY <1>1 DEF TypeOK, Finish
  <2> QED
    BY <2>1, <2>2 DEF FewerRequests
<1>2. CASE req' = req
  BY <1>2 DEF TypeOK, FewerRequests
<1> QED
  BY <1>1, <1>2

(* One more entry leaves them well formed.                                 *)
LEMMA RequestsStay ==
  ASSUME TypeOK, RequestsWellFormed, FewerRequests,
         \A c \in Branches : Known(c) => Known(c)',
         \/ ledger' = ledger
         \/ \E b \in Branches, e \in Entry : Grows(b, e)
  PROVE  RequestsWellFormed'
<1>1. ASSUME NEW c \in Branches
      PROVE  /\ Len(ledger[c]) \in Nat /\ Len(ledger'[c]) \in Nat
             /\ Len(ledger[c]) <= Len(ledger'[c])
             /\ \A k \in 1 .. Len(ledger[c]) : ledger'[c][k] = ledger[c][k]
  <2>1. Len(ledger[c]) \in Nat
    BY DEF TypeOK
  <2>2. CASE ledger' = ledger
    BY <2>1, <2>2
  <2>3. ASSUME NEW b \in Branches, NEW e \in Entry, Grows(b, e)
        PROVE  /\ Len(ledger'[c]) \in Nat /\ Len(ledger[c]) <= Len(ledger'[c])
               /\ \A k \in 1 .. Len(ledger[c]) : ledger'[c][k] = ledger[c][k]
    BY <2>1, <2>3, Growth
  <2> QED
    BY <2>1, <2>2, <2>3
<1>2. ASSUME NEW q \in Sessions, req'[q] # None
      PROVE  /\ WellFormed(req'[q]) /\ req'[q].version <= Len(ledger'[req'[q].at])
             /\ req'[q].row.known => material'[req'[q].at].known
             /\ req'[q].op = "sell" => \A k \in 1 .. req'[q].version :
                  ~(ledger'[Seller][k].action = "SALE_DEDUCTION" /\ ledger'[Seller][k].ref = req'[q].ref)
  <2>1. /\ req'[q] = req[q] /\ req[q] \in Request /\ WellFormed(req[q])
        /\ req[q].version <= Len(ledger[req[q].at])
        /\ req[q].op = "sell" => Unsold(req[q])
    BY <1>2 DEF TypeOK, RequestsWellFormed, FewerRequests
  <2>2. req[q].at \in Branches /\ req[q].version \in Nat
    BY <2>1 DEF Request
  <2>3. req[q].op = "sell" => req[q].at = Seller
    BY <2>1 DEF WellFormed
  <2>4. req'[q].version <= Len(ledger'[req'[q].at])
    BY <1>1, <2>1, <2>2
  <2>7. req'[q].row.known => material'[req'[q].at].known
    <3>1. req[q].row.known => material[req[q].at].known
      BY <1>2, <2>1 DEF RequestsWellFormed
    <3> QED
      BY <2>1, <2>2, <3>1 DEF Known
  <2>5. ASSUME req[q].op = "sell", NEW k \in 1 .. req[q].version
        PROVE  /\ k \in 1 .. Len(ledger[Seller])
               /\ ~(ledger[Seller][k].action = "SALE_DEDUCTION" /\ ledger[Seller][k].ref = req[q].ref)
    BY <1>1, <2>1, <2>2, <2>3, <2>5, SellerAssumption DEF Unsold
  <2>6. ASSUME req[q].op = "sell", NEW k \in 1 .. req[q].version
        PROVE  ~(ledger'[Seller][k].action = "SALE_DEDUCTION" /\ ledger'[Seller][k].ref = req[q].ref)
    BY <1>1, <2>5, <2>6, SellerAssumption
  <2> QED
    BY <2>1, <2>4, <2>6, <2>7
<1> QED
  BY <1>2 DEF RequestsWellFormed, Unsold, WellFormed

LEMMA AskKeeps ==
  ASSUME IInv, NEW s \in Sessions, NEW r \in Request, WellFormed(r),
         r.row = material[r.at], r.version = Len(ledger[r.at]),
         r.op = "sell" => Unsold(r),
         NeverShort /\ r.op = "approve" => WithinPrices(r.cost), Ask(s, r)
  PROVE  IInv'
<1>1. UNCHANGED db /\ \A q \in Sessions : req'[q] = IF q = s THEN r ELSE req[q]
  BY DEF IInv, TypeOK, Ask
<1>2. UNCHANGED <<work, material, ledger, transfer, po, payable>>
  BY <1>1 DEF db
<1>3. TypeOK'
  BY <1>2 DEF IInv, TypeOK, Ask
<1>4. r.version <= Len(ledger[r.at])
  BY DEF IInv, TypeOK, Request
<1>5. RequestsWellFormed'
  BY <1>1, <1>2, <1>4 DEF IInv, RequestsWellFormed, WellFormed, Unsold
<1>6. PapersWellFormed' /\ CostsWithin'
  BY <1>1, <1>2 DEF IInv, PapersWellFormed, CostsWithin, NeverShort
<1>7. Books'
  <2>1. (Chained /\ OutsCovered)'
    BY <1>2 DEF IInv, Books, Chained, StockIsLast, LedgerChains, StockBefore, OutsCovered
  <2>2. TransfersBooked'
    BY <1>2 DEF IInv, Books, TransfersBooked, Booked, MovedAt, Due
  <2>3. (SoldOnce /\ ReceivedOnce /\ PayableIsSum)'
    BY <1>2 DEF IInv, Books, SoldOnce, ReceivedOnce, Receipts, EntriesOf, PayableIsSum, Owed
  <2> QED
    BY <2>1, <2>2, <2>3 DEF Books
<1> QED
  BY <1>3, <1>5, <1>6, <1>7 DEF IInv

(* What holds after a movement whatever its paper.                         *)
LEMMA Movement ==
  ASSUME IInv, FewerRequests,
         NEW b \in Branches, NEW e \in Entry, Grows(b, e),
         NEW m \in Material, material' = [material EXCEPT ![b] = m], m.stock = e.new, m.known,
         e.action # "PHYSICAL_AUDIT" => e.previous = material[b].stock,
         e.action = "TRANSFER_OUT" /\ e.ref # None => e.new >= 0,
         e.action = "SALE_DEDUCTION" /\ e.ref \in Sales
           => EntriesOf(Seller, "SALE_DEDUCTION", e.ref) = {},
         NeverShort => WithinPrices(m.cost)
  PROVE  /\ material' \in [Branches -> Material] /\ ledger' \in [Branches -> Seq(Entry)]
         /\ RequestsWellFormed' /\ Chained' /\ OutsCovered' /\ SoldOnce' /\ CostsWithin'
         /\ \A c \in Branches : Known(c) => Known(c)'
<1>1. /\ material' \in [Branches -> Material]
      /\ \A c \in Branches : material'[c] = IF c = b THEN m ELSE material[c]
  BY DEF IInv, TypeOK
<1>2. ledger' \in [Branches -> Seq(Entry)]
  BY Growth DEF IInv
<1>3. RequestsWellFormed'
  <2>1. \A c \in Branches : Known(c) => Known(c)'
    BY <1>1 DEF Known
  <2> QED
    BY <2>1, RequestsStay DEF IInv
<1>4. Chained'
  BY ChainGrows DEF IInv, Books
<1>5. OutsCovered'
  BY OutsGrow DEF IInv, Books
<1>6. SoldOnce'
  BY SoldGrows DEF IInv, Books
<1>7. CostsWithin'
  <2> SUFFICES ASSUME NeverShort'
               PROVE  /\ \A c \in Branches : material'[c].known => WithinPrices(material'[c].cost)
                      /\ \A q \in Sessions : req'[q] # None /\ req'[q].op = "approve" =>
                           WithinPrices(req'[q].cost)
    BY DEF CostsWithin, WithinPrices
  <2>1. NeverShort
    BY ShortStays DEF IInv
  <2> QED
    BY <1>1, <2>1 DEF IInv, CostsWithin, FewerRequests
<1>8. \A c \in Branches : Known(c) => Known(c)'
  BY <1>1 DEF Known
<1> QED
  BY <1>1, <1>2, <1>3, <1>4, <1>5, <1>6, <1>7, <1>8

(* A movement without a paper.                                             *)
LEMMA PapersStay ==
  ASSUME IInv, NEW b \in Branches, NEW e \in Entry, Grows(b, e),
         \A c \in Branches : Known(c) => Known(c)',
         e.ref \notin Transfers, e.action = "PURCHASE_RECEIPT" => e.ref \notin POs,
         transfer' = transfer, po' = po, payable' = payable
  PROVE  PapersWellFormed' /\ TransfersBooked' /\ ReceivedOnce' /\ PayableIsSum'
<1>1. PapersWellFormed'
  BY DEF IInv, PapersWellFormed, Known
<1>2. ReceivedOnce'
  BY ReceivedGrows DEF IInv, Books
<1>3. PayableIsSum'
  BY DEF IInv, Books, PayableIsSum, Owed
<1>4. ASSUME NEW t \in Transfers PROVE Booked(t)' = Due(t)'
  <2>1. Booked(t) \in Int /\ Booked(t)' = Booked(t) + Adds(e, t)
    BY BookedGrows DEF IInv
  <2>2. Adds(e, t) = 0 /\ Due(t)' = Due(t) /\ Booked(t) = Due(t)
    BY DEF Adds, Due, IInv, Books, TransfersBooked
  <2> QED
    BY <2>1, <2>2
<1> QED
  BY <1>1, <1>2, <1>3, <1>4 DEF TransfersBooked

(* A movement on behalf of transfer t, whose paper becomes n.              *)
LEMMA TransferMoves ==
  ASSUME IInv, NEW b \in Branches, NEW e \in Entry, Grows(b, e),
         \A c \in Branches : Known(c) => Known(c)',
         NEW t \in Transfers, e.ref = t, e.action # "PURCHASE_RECEIPT",
         NEW n \in Transfer, transfer' = [transfer EXCEPT ![t] = n],
         n.source \in Branches, n.dest \in Branches, n.quantity > 0, Known(n.source)',
         Due(t) + e.quantity = IF n.status = "PENDING" THEN -n.quantity ELSE 0,
         po' = po, payable' = payable
  PROVE  /\ transfer' \in [Transfers -> Transfer]
         /\ PapersWellFormed' /\ TransfersBooked' /\ ReceivedOnce' /\ PayableIsSum'
<1>1. /\ transfer' \in [Transfers -> Transfer]
      /\ \A u \in Transfers : transfer'[u] = IF u = t THEN n ELSE transfer[u]
  BY DEF IInv, TypeOK
<1>2. PapersWellFormed'
  BY <1>1 DEF IInv, PapersWellFormed, Known
<1>3. ReceivedOnce'
  BY ReceivedGrows DEF IInv, Books
<1>4. PayableIsSum'
  BY DEF IInv, Books, PayableIsSum, Owed
<1>5. ASSUME NEW u \in Transfers PROVE Booked(u)' = Due(u)'
  <2>1. Booked(u) \in Int /\ Booked(u)' = Booked(u) + Adds(e, u)
    BY BookedGrows DEF IInv
  <2>2. Booked(u) = Due(u)
    BY DEF IInv, Books, TransfersBooked
  <2>3. Adds(e, u) = IF u = t THEN e.quantity ELSE 0
    BY DEF Adds
  <2>4. Due(u)' = IF u = t THEN Due(t) + e.quantity ELSE Due(u)
    BY <1>1 DEF Due
  <2> QED
    BY <2>1, <2>2, <2>3, <2>4
<1> QED
  BY <1>1, <1>2, <1>3, <1>4, <1>5 DEF TransfersBooked

-----------------------------------------------------------------------------
(* Steps without an entry                                                  *)

LEMMA SameLedgers ==
  ASSUME Books, UNCHANGED <<ledger, transfer, po, payable>>
  PROVE  /\ LedgerChains' /\ OutsCovered' /\ TransfersBooked'
         /\ SoldOnce' /\ ReceivedOnce' /\ PayableIsSum'
<1>1. (LedgerChains /\ OutsCovered)'
  BY DEF Books, Chained, LedgerChains, StockBefore, OutsCovered
<1>2. TransfersBooked'
  BY DEF Books, TransfersBooked, Booked, MovedAt, Due
<1>3. (SoldOnce /\ ReceivedOnce /\ PayableIsSum)'
  BY DEF Books, SoldOnce, ReceivedOnce, Receipts, EntriesOf, PayableIsSum, Owed
<1> QED
  BY <1>1, <1>2, <1>3

LEMMA QuietKeeps ==
  ASSUME IInv, FewerRequests, UNCHANGED db
  PROVE  IInv'
<1>1. UNCHANGED <<work, material, ledger, transfer, po, payable>>
  BY DEF db
<1>2. TypeOK' /\ PapersWellFormed'
  BY <1>1 DEF IInv, TypeOK, PapersWellFormed, FewerRequests
<1>5. RequestsWellFormed'
  <2>1. \A c \in Branches : Known(c) => Known(c)'
    BY <1>1 DEF Known
  <2> QED
    BY <1>1, <2>1, RequestsStay DEF IInv
<1>3. StockIsLast'
  BY <1>1 DEF IInv, Books, Chained, StockIsLast, StockBefore
<1>4. CostsWithin'
  BY <1>1 DEF IInv, CostsWithin, NeverShort, FewerRequests
<1> QED
  BY <1>1, <1>2, <1>3, <1>4, <1>5, SameLedgers DEF IInv, Books, Chained

(* A material gets another cost, or is new and empty.                      *)
LEMMA CostKeeps ==
  ASSUME IInv, NEW b \in Branches, NEW m \in Material, material' = [material EXCEPT ![b] = m],
         m.stock = material[b].stock, m.known, m.cost \in Prices,
         UNCHANGED <<work, ledger, transfer, po, payable, req>>
  PROVE  IInv'
<1>1. /\ material' \in [Branches -> Material]
      /\ \A c \in Branches : material'[c] = IF c = b THEN m ELSE material[c]
  BY DEF IInv, TypeOK
<1>2. TypeOK'
  BY <1>1 DEF IInv, TypeOK
<1>3. FewerRequests
  BY DEF IInv, TypeOK, FewerRequests
<1>4. RequestsWellFormed'
  <2>1. \A c \in Branches : Known(c) => Known(c)'
    BY <1>1 DEF Known
  <2> QED
    BY <1>3, <2>1, RequestsStay DEF IInv
<1>5. PapersWellFormed'
  BY <1>1 DEF IInv, PapersWellFormed
<1>6. StockIsLast'
  BY <1>1 DEF IInv, Books, Chained, StockIsLast, StockBefore
<1>7. CostsWithin'
  <2> SUFFICES ASSUME NeverShort
               PROVE  /\ \A c \in Branches : material'[c].known => WithinPrices(material'[c].cost)
                      /\ \A q \in Sessions : req[q] # None /\ req[q].op = "approve" =>
                           WithinPrices(req[q].cost)
    BY DEF CostsWithin, WithinPrices, NeverShort
  <2>1. WithinPrices(m.cost)
    <3> PICK c \in Prices : c = m.cost
      OBVIOUS
    <3>1. c \in Nat
      BY PricesAssumption
    <3>2. c <= m.cost /\ m.cost <= c
      BY <3>1
    <3> QED
      BY <3>2 DEF WithinPrices
  <2> QED
    BY <1>1, <2>1 DEF IInv, CostsWithin
<1> QED
  BY <1>2, <1>4, <1>5, <1>6, <1>7, SameLedgers DEF IInv, Books, Chained

(* A purchase order that has not been received is written or edited.       *)
LEMMA OrderKeeps ==
  ASSUME IInv, FewerRequests, NEW p \in POs, po[p].status # "RECEIVED",
         NEW n \in PO, n.status \in OpenPO, n.at \in Branches, n.quantity > 0, n.price \in Prices,
         po' = [po EXCEPT ![p] = n], UNCHANGED <<work, material, ledger, transfer, payable>>
  PROVE  IInv'
<1>1. po' \in [POs -> PO] /\ \A x \in POs : po'[x] = IF x = p THEN n ELSE po[x]
  BY DEF IInv, TypeOK
<1>2. n.status # "RECEIVED"
  BY DEF OpenPO
<1>3. TypeOK'
  BY <1>1 DEF IInv, TypeOK, FewerRequests
<1>10. RequestsWellFormed'
  <2>1. \A c \in Branches : Known(c) => Known(c)'
    BY DEF Known
  <2> QED
    BY <2>1, RequestsStay DEF IInv
<1>4. PapersWellFormed'
  BY <1>1 DEF IInv, PapersWellFormed
<1>5. (Chained /\ OutsCovered)'
  BY DEF IInv, Books, Chained, StockIsLast, LedgerChains, StockBefore, OutsCovered
<1>6. TransfersBooked'
  BY DEF IInv, Books, TransfersBooked, Booked, MovedAt, Due
<1>11. SoldOnce'
  BY DEF IInv, Books, SoldOnce, EntriesOf
<1>7. ReceivedOnce'
  BY <1>1, <1>2 DEF IInv, Books, ReceivedOnce, Receipts, EntriesOf
<1>8. PayableIsSum'
  <2>1. \A x \in POs : Owed(x)' = Owed(x)
    BY <1>1, <1>2 DEF Owed
  <2> QED
    BY <2>1 DEF IInv, Books, PayableIsSum
<1>9. CostsWithin'
  BY DEF IInv, CostsWithin, NeverShort, FewerRequests
<1> QED
  BY <1>3, <1>4, <1>5, <1>6, <1>7, <1>8, <1>9, <1>10, <1>11 DEF IInv, Books

-----------------------------------------------------------------------------
(* Asking                                                                  *)

(* What an operation reads.                                                *)
LEMMA ReadingTyped ==
  ASSUME TypeOK, NEW op \in Ops, NEW b \in Branches, NEW x, x = Reading(op, b)
  PROVE  /\ x \in Request
         /\ x.op = op /\ x.at = b /\ x.row = material[b] /\ x.version = Len(ledger[b])
         /\ x.ref = None /\ x.quantity = 0 /\ x.cost = material[b].cost
<1>1. material[b] \in Material /\ material[b].cost \in Int /\ Len(ledger[b]) \in Nat
  BY DEF TypeOK, Material
<1> QED
  BY <1>1 DEF Reading, Request

(* A request that names no paper.                                          *)
LEMMA PlainAskKeeps ==
  ASSUME IInv, NEW s \in Sessions, NEW op \in {"adjust", "waste", "audit"}, NEW b \in Branches,
         NEW quantity \in Int, op = "waste" => quantity \in Nat,
         Ask(s, [Reading(op, b) EXCEPT !.quantity = quantity])
  PROVE  IInv'
<1> DEFINE x == Reading(op, b)
           r == [x EXCEPT !.quantity = quantity]
<1>1. op \in Ops /\ TypeOK
  BY DEF Ops, IInv
<1>2. /\ x \in Request
      /\ x.op = op /\ x.at = b /\ x.row = material[b] /\ x.version = Len(ledger[b])
      /\ x.ref = None
  BY <1>1, ReadingTyped
<1>3. Ask(s, r)
  OBVIOUS
<1> HIDE DEF x
<1>4. /\ r \in Request
      /\ r.op = op /\ r.at = b /\ r.row = material[b] /\ r.version = Len(ledger[b])
      /\ r.ref = None /\ r.quantity = quantity
  BY <1>2 DEF Request
<1> HIDE DEF r
<1>5. WellFormed(r)
  BY <1>3, <1>4 DEF WellFormed, Ask
<1> QED
  BY <1>3, <1>4, <1>5, AskKeeps

LEMMA AskAdjustKeeps ==
  ASSUME IInv, NEW s \in Sessions, AskAdjust(s)
  PROVE  IInv'
<1>1. PICK b \in Branches, q \in Quantities :
        \E change \in {q, -q} : Ask(s, [Reading("adjust", b) EXCEPT !.quantity = change])
  BY DEF AskAdjust
<1>2. PICK change \in {q, -q} : Ask(s, [Reading("adjust", b) EXCEPT !.quantity = change])
  BY <1>1
<1>3. change \in Int
  BY QuantitiesAssumption
<1> QED
  BY <1>2, <1>3, PlainAskKeeps

LEMMA AskWasteKeeps ==
  ASSUME IInv, NEW s \in Sessions, AskWaste(s)
  PROVE  IInv'
<1>1. PICK b \in Branches, q \in Quantities : Ask(s, [Reading("waste", b) EXCEPT !.quantity = q])
  BY DEF AskWaste
<1>2. q \in Nat /\ q \in Int
  BY QuantitiesAssumption
<1> QED
  BY <1>1, <1>2, PlainAskKeeps

LEMMA AskAuditKeeps ==
  ASSUME IInv, NEW s \in Sessions, AskAudit(s)
  PROVE  IInv'
<1>1. PICK b \in Branches, q \in Quantities \cup {0} :
        Ask(s, [Reading("audit", b) EXCEPT !.quantity = q])
  BY DEF AskAudit
<1>2. q \in Int
  BY QuantitiesAssumption
<1> QED
  BY <1>1, <1>2, PlainAskKeeps

LEMMA AskSellKeeps ==
  ASSUME IInv, NEW s \in Sessions, AskSell(s)
  PROVE  IInv'
<1>1. PICK i \in Sales, q \in Quantities :
        /\ ~Deducted(i)
        /\ Ask(s, [Reading("sell", Seller) EXCEPT !.ref = i, !.quantity = q])
  BY DEF AskSell
<1> DEFINE x == Reading("sell", Seller)
           r == [x EXCEPT !.ref = i, !.quantity = q]
<1>2. "sell" \in Ops /\ TypeOK /\ Seller \in Branches /\ q \in Int /\ i \in Papers
  BY SellerAssumption, QuantitiesAssumption DEF Ops, IInv, Papers
<1>3. /\ x \in Request /\ x.op = "sell" /\ x.at = Seller /\ x.row = material[Seller]
      /\ x.version = Len(ledger[Seller])
  BY <1>2, ReadingTyped
<1>4. Ask(s, r)
  BY <1>1
<1> HIDE DEF x
<1>5. /\ r \in Request /\ r.op = "sell" /\ r.at = Seller /\ r.row = material[Seller]
      /\ r.version = Len(ledger[Seller]) /\ r.ref = i
  BY <1>2, <1>3 DEF Request
<1> HIDE DEF r
<1>6. WellFormed(r)
  BY <1>4, <1>5 DEF WellFormed, Ask
<1>7. Unsold(r)
  BY <1>1, <1>5 DEF Unsold, Deducted, EntriesOf
<1> QED
  BY <1>4, <1>5, <1>6, <1>7, AskKeeps

LEMMA AskSendKeeps ==
  ASSUME IInv, NEW s \in Sessions, AskSend(s)
  PROVE  IInv'
<1>1. PICK t \in Transfers, source \in Branches, dest \in Branches, q \in Quantities :
        /\ Sufficient(source, q)
        /\ Ask(s, [Reading("send", source) EXCEPT !.ref = t, !.paper = NoTransfer,
             !.next = [status |-> "PENDING", source |-> source, dest |-> dest, quantity |-> q]])
  BY DEF AskSend
<1> DEFINE x == Reading("send", source)
           n == [status |-> "PENDING", source |-> source, dest |-> dest, quantity |-> q]
           r == [x EXCEPT !.ref = t, !.paper = NoTransfer, !.next = n]
<1>2. "send" \in Ops /\ TypeOK /\ t \in Papers /\ NoTransfer \in Transfer /\ q \in Nat /\ q > 0
  BY QuantitiesAssumption DEF Ops, IInv, Papers, NoTransfer, Transfer
<1>3. /\ x \in Request /\ x.op = "send" /\ x.at = source /\ x.row = material[source]
      /\ x.version = Len(ledger[source])
  BY <1>2, ReadingTyped
<1>4. /\ n \in Transfer /\ n.status = "PENDING" /\ n.source = source
      /\ n.dest = dest /\ n.quantity = q
  BY <1>2 DEF Transfer
<1>5. Ask(s, r)
  BY <1>1
<1> HIDE DEF x, n
<1>6. /\ r \in Request /\ r.op = "send" /\ r.at = source /\ r.row = material[source]
      /\ r.version = Len(ledger[source]) /\ r.ref = t /\ r.paper = NoTransfer /\ r.next = n
  BY <1>2, <1>3, <1>4 DEF Request
<1> HIDE DEF r
<1>7. material[source].stock >= q /\ material[source].known
  BY <1>1, <1>5, <1>6 DEF Sufficient, Ask
<1>8. WellFormed(r)
  BY <1>2, <1>4, <1>6, <1>7 DEF WellFormed
<1> QED
  BY <1>5, <1>6, <1>8, AskKeeps

(* A transfer that can be approved or rejected.                            *)
LEMMA Pending ==
  ASSUME IInv, NEW t \in Transfers, transfer[t].status = "PENDING"
  PROVE  /\ transfer[t] \in Transfer /\ transfer[t].quantity > 0
         /\ transfer[t].source \in Branches /\ transfer[t].dest \in Branches
         /\ material[transfer[t].source].known
BY DEF IInv, TypeOK, PapersWellFormed

LEMMA Decided ==
  ASSUME NEW paper \in Transfer, NEW status \in {"COMPLETED", "REJECTED"},
         NEW n, n = [paper EXCEPT !.status = status]
  PROVE  /\ n \in Transfer /\ n.status = status /\ n.source = paper.source
         /\ n.dest = paper.dest /\ n.quantity = paper.quantity
BY DEF Transfer

LEMMA AskApproveKeeps ==
  ASSUME IInv, NEW s \in Sessions, AskApprove(s)
  PROVE  IInv'
<1>1. PICK t \in Transfers :
        /\ transfer[t].status = "PENDING"
        /\ Ask(s, [Reading("approve", transfer[t].dest) EXCEPT !.ref = t, !.paper = transfer[t],
             !.next = [transfer[t] EXCEPT !.status = "COMPLETED"],
             !.cost = material[transfer[t].source].cost])
  BY DEF AskApprove
<1> DEFINE p == transfer[t]
           b == p.dest
           x == Reading("approve", b)
           n == [p EXCEPT !.status = "COMPLETED"]
           cost == material[p.source].cost
           r == [x EXCEPT !.ref = t, !.paper = p, !.next = n, !.cost = cost]
<1>2. /\ p \in Transfer /\ p.status = "PENDING" /\ p.quantity > 0
      /\ p.source \in Branches /\ b \in Branches /\ material[p.source].known
  BY <1>1, Pending
<1>3. "approve" \in Ops /\ TypeOK /\ t \in Papers /\ cost \in Int
  BY <1>2 DEF Ops, IInv, Papers, TypeOK, Material
<1>4. /\ n \in Transfer /\ n.status = "COMPLETED" /\ n.source = p.source
      /\ n.dest = p.dest /\ n.quantity = p.quantity
  BY <1>2, Decided
<1>5. NeverShort => WithinPrices(cost)
  BY <1>2 DEF IInv, CostsWithin
<1>6. Ask(s, r)
  BY <1>1
<1> HIDE DEF b, n, cost
<1>7. /\ x \in Request /\ x.op = "approve" /\ x.at = b /\ x.row = material[b]
      /\ x.version = Len(ledger[b])
  BY <1>2, <1>3, ReadingTyped
<1> HIDE DEF p, x
<1>8. /\ r \in Request /\ r.op = "approve" /\ r.at = b /\ r.row = material[b]
      /\ r.version = Len(ledger[b]) /\ r.ref = t /\ r.paper = p /\ r.next = n /\ r.cost = cost
  BY <1>2, <1>3, <1>4, <1>7 DEF Request
<1> HIDE DEF r
<1>9. WellFormed(r)
  BY <1>2, <1>4, <1>8 DEF WellFormed
<1> QED
  BY <1>5, <1>6, <1>8, <1>9, AskKeeps

LEMMA AskRejectKeeps ==
  ASSUME IInv, NEW s \in Sessions, AskReject(s)
  PROVE  IInv'
<1>1. PICK t \in Transfers :
        /\ transfer[t].status = "PENDING"
        /\ Ask(s, [Reading("reject", transfer[t].source) EXCEPT !.ref = t, !.paper = transfer[t],
             !.next = [transfer[t] EXCEPT !.status = "REJECTED"]])
  BY DEF AskReject
<1> DEFINE p == transfer[t]
           b == p.source
           x == Reading("reject", b)
           n == [p EXCEPT !.status = "REJECTED"]
           r == [x EXCEPT !.ref = t, !.paper = p, !.next = n]
<1>2. /\ p \in Transfer /\ p.status = "PENDING" /\ p.quantity > 0 /\ b \in Branches
  BY <1>1, Pending
<1>3. "reject" \in Ops /\ TypeOK /\ t \in Papers
  BY DEF Ops, IInv, Papers
<1>4. /\ n \in Transfer /\ n.status = "REJECTED" /\ n.source = p.source
      /\ n.dest = p.dest /\ n.quantity = p.quantity
  BY <1>2, Decided
<1>5. Ask(s, r)
  BY <1>1
<1> HIDE DEF b, n
<1>6. /\ x \in Request /\ x.op = "reject" /\ x.at = b /\ x.row = material[b]
      /\ x.version = Len(ledger[b])
  BY <1>2, <1>3, ReadingTyped
<1> HIDE DEF p, x
<1>7. /\ r \in Request /\ r.op = "reject" /\ r.at = b /\ r.row = material[b]
      /\ r.version = Len(ledger[b]) /\ r.ref = t /\ r.paper = p /\ r.next = n
  BY <1>2, <1>3, <1>4, <1>6 DEF Request
<1> HIDE DEF r
<1>8. WellFormed(r)
  BY <1>2, <1>4, <1>5, <1>7 DEF WellFormed, Ask
<1> QED
  BY <1>5, <1>7, <1>8, AskKeeps

(* A purchase order that can be edited or received.                        *)
LEMMA Open ==
  ASSUME IInv, NEW p \in POs, po[p].status \in OpenPO
  PROVE  /\ po[p] \in PO /\ po[p].at \in Branches /\ po[p].quantity > 0
         /\ po[p].price \in Prices
BY DEF IInv, TypeOK, PapersWellFormed, OpenPO

LEMMA AskEditKeeps ==
  ASSUME IInv, NEW s \in Sessions, AskEdit(s)
  PROVE  IInv'
<1>1. PICK o \in POs, status \in OpenPO, q \in Quantities, price \in work.prices :
        /\ po[o].status \in OpenPO
        /\ Ask(s, [Reading("edit", po[o].at) EXCEPT !.ref = o, !.paper = po[o],
             !.next = [po[o] EXCEPT !.status = status, !.quantity = q, !.price = price]])
  BY DEF AskEdit
<1> DEFINE p == po[o]
           b == p.at
           x == Reading("edit", b)
           n == [p EXCEPT !.status = status, !.quantity = q, !.price = price]
           r == [x EXCEPT !.ref = o, !.paper = p, !.next = n]
<1>2. p \in PO /\ p.status \in OpenPO /\ b \in Branches
  BY <1>1, Open
<1>3. "edit" \in Ops /\ TypeOK /\ o \in Papers
  BY DEF Ops, IInv, Papers
<1>4. q \in Nat /\ q > 0 /\ price \in Prices /\ price \in Nat
  <2>1. work \in Workloads
    BY DEF IInv, TypeOK
  <2>2. price \in Prices
    BY <2>1, WorkloadsAssumption
  <2> QED
    BY <2>2, QuantitiesAssumption, PricesAssumption
<1>5. /\ n \in PO /\ n.status = status /\ n.at = p.at /\ n.quantity = q /\ n.price = price
  BY <1>2, <1>4 DEF PO
<1>6. Ask(s, r)
  BY <1>1
<1> HIDE DEF b, n
<1>7. /\ x \in Request /\ x.op = "edit" /\ x.at = b /\ x.row = material[b]
      /\ x.version = Len(ledger[b])
  BY <1>2, <1>3, ReadingTyped
<1> HIDE DEF p, x
<1>8. /\ r \in Request /\ r.op = "edit" /\ r.at = b /\ r.row = material[b]
      /\ r.version = Len(ledger[b]) /\ r.ref = o /\ r.paper = p /\ r.next = n
  BY <1>2, <1>3, <1>5, <1>7 DEF Request
<1> HIDE DEF r
<1>9. WellFormed(r)
  BY <1>2, <1>4, <1>5, <1>6, <1>8 DEF WellFormed, Ask
<1> QED
  BY <1>6, <1>8, <1>9, AskKeeps

LEMMA AskReceiveKeeps ==
  ASSUME IInv, NEW s \in Sessions, AskReceive(s)
  PROVE  IInv'
<1>1. PICK o \in POs :
        /\ po[o].status \in OpenPO
        /\ Ask(s, [Reading("receive", po[o].at) EXCEPT !.ref = o, !.paper = po[o],
             !.next = [po[o] EXCEPT !.status = "RECEIVED"]])
  BY DEF AskReceive
<1> DEFINE p == po[o]
           b == p.at
           x == Reading("receive", b)
           n == [p EXCEPT !.status = "RECEIVED"]
           r == [x EXCEPT !.ref = o, !.paper = p, !.next = n]
<1>2. /\ p \in PO /\ p.status \in OpenPO /\ b \in Branches /\ b = p.at
      /\ p.quantity > 0 /\ p.price \in Prices
  BY <1>1, Open
<1>3. "receive" \in Ops /\ TypeOK /\ o \in Papers
  BY DEF Ops, IInv, Papers
<1>4. /\ n \in PO /\ n.status = "RECEIVED" /\ n.at = p.at
      /\ n.quantity = p.quantity /\ n.price = p.price
  BY <1>2 DEF PO
<1>5. Ask(s, r)
  BY <1>1
<1> HIDE DEF b, n
<1>6. /\ x \in Request /\ x.op = "receive" /\ x.at = b /\ x.row = material[b]
      /\ x.version = Len(ledger[b])
  BY <1>2, <1>3, ReadingTyped
<1> HIDE DEF p, x
<1>7. /\ r \in Request /\ r.op = "receive" /\ r.at = b /\ r.row = material[b]
      /\ r.version = Len(ledger[b]) /\ r.ref = o /\ r.paper = p /\ r.next = n
  BY <1>2, <1>3, <1>4, <1>6 DEF Request
<1> HIDE DEF r
<1>8. WellFormed(r)
  BY <1>2, <1>4, <1>5, <1>7 DEF WellFormed, Ask
<1> QED
  BY <1>5, <1>7, <1>8, AskKeeps

-----------------------------------------------------------------------------
(* The raw material, and movements without a paper of their own            *)

LEMMA PriceWithin ==
  ASSUME TypeOK, NEW price \in work.prices \cup Prices
  PROVE  price \in Prices /\ price \in Nat /\ WithinPrices(price)
<1>1. work \in Workloads
  BY DEF TypeOK
<1>2. price \in Prices
  BY <1>1, WorkloadsAssumption
<1>3. price \in Nat
  BY <1>2, PricesAssumption
<1>4. price <= price
  BY <1>3
<1> QED
  BY <1>2, <1>3, <1>4 DEF WithinPrices

LEMMA CreateMaterialKeeps ==
  ASSUME IInv, NEW b \in Branches, NEW stock \in Quantities \cup {0}, NEW cost \in Prices,
         CreateMaterial(b, stock, cost)
  PROVE  IInv'
<1> DEFINE m == [known |-> TRUE, stock |-> stock, cost |-> cost]
           e == [action |-> "OPENING_STOCK", quantity |-> stock, previous |-> 0,
                 new |-> stock, ref |-> None]
<1>1. stock \in Int /\ cost \in Nat /\ WithinPrices(cost) /\ TypeOK
  BY PriceWithin, QuantitiesAssumption DEF IInv
<1>2. m \in Material /\ m.known /\ m.stock = stock /\ m.cost = cost
  BY <1>1 DEF Material
<1>3. /\ e \in Entry /\ e.action = "OPENING_STOCK" /\ e.previous = 0 /\ e.new = stock
      /\ e.ref = None
  BY <1>1 DEF Entry, Actions
<1>4. material[b].stock = 0 /\ ~material[b].known
  <2>1. ~material[b].known /\ ledger[b] = <<>>
    BY DEF CreateMaterial, IInv, Books, Chained, StockIsLast
  <2>2. material[b].stock = StockBefore(b, Len(ledger[b]) + 1)
    BY DEF IInv, Books, Chained, StockIsLast
  <2>3. Len(ledger[b]) + 1 = 1
    BY <2>1
  <2> QED
    BY <2>1, <2>2, <2>3 DEF StockBefore
<1>5. material' = [material EXCEPT ![b] = m] /\ UNCHANGED <<work, transfer, po, payable, req>>
  BY DEF CreateMaterial
<1>6. stock # 0 => Grows(b, e)
  BY DEF CreateMaterial, Grows
<1>7. stock = 0 => ledger' = ledger
  BY DEF CreateMaterial
<1> HIDE DEF m, e
<1>8. CASE stock = 0
  BY <1>1, <1>2, <1>4, <1>5, <1>7, <1>8, CostKeeps
<1>9. CASE stock # 0
  <2>1. FewerRequests
    BY <1>1, <1>5 DEF TypeOK, FewerRequests
  <2>2. /\ material' \in [Branches -> Material] /\ ledger' \in [Branches -> Seq(Entry)]
        /\ RequestsWellFormed' /\ Chained' /\ OutsCovered' /\ SoldOnce' /\ CostsWithin'
        /\ \A c \in Branches : Known(c) => Known(c)'
    BY <1>1, <1>2, <1>3, <1>4, <1>5, <1>6, <1>9, <2>1, Movement
  <2>3. e.ref \notin Transfers
    BY <1>3, NoneAssumption
  <2>4. PapersWellFormed' /\ TransfersBooked' /\ ReceivedOnce' /\ PayableIsSum'
    BY <1>3, <1>5, <1>6, <1>9, <2>2, <2>3, PapersStay
  <2>5. TypeOK'
    BY <1>1, <1>5, <2>2 DEF TypeOK
  <2> QED
    BY <2>2, <2>4, <2>5 DEF IInv, Books
<1> QED
  BY <1>8, <1>9

LEMMA SetCostKeeps ==
  ASSUME IInv, NEW b \in Branches, NEW cost \in Prices, SetCost(b, cost)
  PROVE  IInv'
<1> DEFINE m == [material[b] EXCEPT !.cost = cost]
<1>1. TypeOK /\ cost \in Nat /\ material[b] \in Material /\ material[b].known
  BY PriceWithin DEF IInv, TypeOK, SetCost
<1>2. m \in Material /\ m.known /\ m.stock = material[b].stock /\ m.cost = cost
  BY <1>1 DEF Material
<1>3. material' = [material EXCEPT ![b] = m] /\ UNCHANGED <<work, ledger, transfer, po, payable, req>>
  BY DEF SetCost
<1> HIDE DEF m
<1> QED
  BY <1>2, <1>3, CostKeeps

(* A request that has not been served, with its row as it was read.        *)
LEMMA PlainMovementKeeps ==
  ASSUME IInv, FewerRequests, NEW r \in Request, material[r.at].known,
         NEW action \in Actions,
         NEW quantity \in Int, NEW cost, cost = material[r.at].cost,
         Book(r, action, quantity, cost),
         action # "PHYSICAL_AUDIT" => r.row = material[r.at],
         \/ r.ref = None
         \/ /\ action = "SALE_DEDUCTION" /\ r.ref \in Sales
            /\ EntriesOf(Seller, "SALE_DEDUCTION", r.ref) = {},
         UNCHANGED <<work, transfer, po, payable>>
  PROVE  IInv'
<1>1. TypeOK /\ r.at \in Branches /\ cost \in Int /\ action \in Actions
  BY DEF IInv, TypeOK, Request, Material
<1>2. PICK e \in Entry, m \in Material :
        /\ Grows(r.at, e) /\ material' = [material EXCEPT ![r.at] = m]
        /\ e.action = action /\ e.quantity = quantity /\ e.ref = r.ref
        /\ e.previous = r.row.stock /\ e.new = r.row.stock + quantity
        /\ m.stock = e.new /\ m.known /\ m.cost = cost
  BY <1>1, BookEffect
<1>3. /\ e.action # "PHYSICAL_AUDIT" => e.previous = material[r.at].stock
      /\ e.action = "TRANSFER_OUT" => e.ref = None
      /\ e.action = "PURCHASE_RECEIPT" => e.ref \notin POs
      /\ e.action = "SALE_DEDUCTION" /\ e.ref \in Sales
           => EntriesOf(Seller, "SALE_DEDUCTION", e.ref) = {}
      /\ e.ref \notin Transfers
  BY <1>2, NoneAssumption, PapersAreDistinct
<1>4. NeverShort => WithinPrices(m.cost)
  BY <1>1, <1>2 DEF IInv, CostsWithin
<1>5. /\ material' \in [Branches -> Material] /\ ledger' \in [Branches -> Seq(Entry)]
      /\ RequestsWellFormed' /\ Chained' /\ OutsCovered' /\ SoldOnce' /\ CostsWithin'
      /\ \A c \in Branches : Known(c) => Known(c)'
  BY <1>1, <1>2, <1>3, <1>4, Movement
<1>6. PapersWellFormed' /\ TransfersBooked' /\ ReceivedOnce' /\ PayableIsSum'
  BY <1>1, <1>2, <1>3, <1>5, PapersStay
<1>7. TypeOK'
  BY <1>1, <1>5 DEF TypeOK, FewerRequests
<1> QED
  BY <1>5, <1>6, <1>7 DEF IInv, Books

(* The request of a session that commits.                                  *)
LEMMA Serving ==
  ASSUME IInv, NEW s \in Sessions, req[s] # None, Finish(s)
  PROVE  /\ FewerRequests /\ req[s] \in Request /\ WellFormed(req[s])
         /\ req[s].row.known => material[req[s].at].known
         /\ req[s].op = "sell" => Unsold(req[s])
<1>1. FewerRequests
  BY FinishEffect DEF IInv
<1> QED
  BY <1>1 DEF IInv, TypeOK, RequestsWellFormed

LEMMA CommitAdjustKeeps ==
  ASSUME IInv, NEW s \in Sessions, CommitAdjust(s)
  PROVE  IInv'
<1> PICK r : r = req[s]
  OBVIOUS
<1>1. /\ req[s] # None /\ r.op = "adjust" /\ r.row = material[r.at] /\ Finish(s)
      /\ \E action \in work.types : Book(r, action, r.quantity, r.row.cost)
      /\ UNCHANGED <<work, transfer, po, payable>>
  BY DEF CommitAdjust, Runs, RowKept
<1>2. FewerRequests /\ r \in Request /\ WellFormed(r)
  BY <1>1, Serving
<1>3. r.ref = None /\ material[r.at].known /\ r.quantity \in Int
  BY <1>1, <1>2 DEF WellFormed, Request
<1>4. PICK action \in work.types : Book(r, action, r.quantity, r.row.cost)
  BY <1>1
<1>5. action \in Actions
  BY <1>4, WorkloadsAssumption DEF IInv, TypeOK
<1> QED
  BY <1>1, <1>2, <1>3, <1>4, <1>5, PlainMovementKeeps

LEMMA CommitWasteKeeps ==
  ASSUME IInv, NEW s \in Sessions, CommitWaste(s)
  PROVE  IInv'
<1> PICK r : r = req[s]
  OBVIOUS
<1>1. /\ req[s] # None /\ r.op = "waste" /\ r.row = material[r.at] /\ Finish(s)
      /\ Book(r, "WASTAGE_RECORD", -r.quantity, r.row.cost)
      /\ UNCHANGED <<work, transfer, po, payable>>
  BY DEF CommitWaste, Runs, RowKept
<1>2. FewerRequests /\ r \in Request /\ WellFormed(r)
  BY <1>1, Serving
<1>3. r.ref = None /\ material[r.at].known /\ r.quantity \in Int
  BY <1>1, <1>2 DEF WellFormed, Request
<1>4. -r.quantity \in Int
  BY <1>3
<1>5. "WASTAGE_RECORD" \in Actions
  BY DEF Actions
<1> QED
  BY <1>1, <1>2, <1>3, <1>4, <1>5, PlainMovementKeeps

LEMMA CommitAuditKeeps ==
  ASSUME IInv, NEW s \in Sessions, CommitAudit(s)
  PROVE  IInv'
<1> PICK r : r = req[s]
  OBVIOUS
<1> PICK variance : variance = r.quantity - r.row.stock
  OBVIOUS
<1>1. /\ req[s] # None /\ r.op = "audit" /\ Finish(s)
      /\ IF variance = 0 THEN UNCHANGED <<material, ledger>>
         ELSE Book(r, "PHYSICAL_AUDIT", variance, material[r.at].cost)
      /\ UNCHANGED <<work, transfer, po, payable>>
  BY DEF CommitAudit, Runs
<1>2. FewerRequests /\ r \in Request /\ WellFormed(r) /\ (r.row.known => material[r.at].known)
  BY <1>1, Serving
<1>3. r.ref = None /\ material[r.at].known /\ variance \in Int
  BY <1>1, <1>2 DEF WellFormed, Request, Material
<1>4. CASE variance = 0
  BY <1>1, <1>2, <1>4, QuietKeeps DEF db
<1>5. CASE variance # 0
  <2>1. "PHYSICAL_AUDIT" \in Actions
    BY DEF Actions
  <2> QED
    BY <1>1, <1>2, <1>3, <1>5, <2>1, PlainMovementKeeps
<1> QED
  BY <1>4, <1>5

LEMMA CommitSellKeeps ==
  ASSUME IInv, NEW s \in Sessions, CommitSell(s)
  PROVE  IInv'
<1> PICK r : r = req[s]
  OBVIOUS
<1>1. /\ req[s] # None /\ r.op = "sell" /\ r.row = material[r.at] /\ r.version = Len(ledger[r.at])
      /\ Finish(s) /\ Book(r, "SALE_DEDUCTION", -r.quantity, r.row.cost)
      /\ UNCHANGED <<work, transfer, po, payable>>
  BY DEF CommitSell, Runs, RowKept
<1>2. FewerRequests /\ r \in Request /\ WellFormed(r) /\ Unsold(r)
  BY <1>1, Serving
<1>3. r.ref \in Sales /\ r.at = Seller /\ material[r.at].known /\ r.quantity \in Int
  BY <1>1, <1>2 DEF WellFormed, Request
<1>4. "SALE_DEDUCTION" \in Actions /\ -r.quantity \in Int
  BY <1>3 DEF Actions
<1>5. EntriesOf(Seller, "SALE_DEDUCTION", r.ref) = {}
  BY <1>1, <1>2, <1>3 DEF Unsold, EntriesOf
<1> QED
  BY <1>1, <1>2, <1>3, <1>4, <1>5, PlainMovementKeeps

-----------------------------------------------------------------------------
(* Transfers                                                               *)

(* An entry on behalf of a transfer: n is its paper afterwards.            *)
LEMMA TransferMovementKeeps ==
  ASSUME IInv, FewerRequests, NEW r \in Request, RowKept(r),
         NEW action \in {"TRANSFER_OUT", "TRANSFER_IN", "MANUAL_ADJUSTMENT"},
         NEW quantity \in Int, NEW cost \in Int, Book(r, action, quantity, cost),
         NeverShort => WithinPrices(cost),
         action = "TRANSFER_OUT" => r.row.stock + quantity >= 0,
         r.ref \in Transfers, NEW n \in Transfer, transfer' = [transfer EXCEPT ![r.ref] = n],
         n.source \in Branches, n.dest \in Branches, n.quantity > 0,
         Known(n.source) \/ n.source = r.at,
         Due(r.ref) + quantity = IF n.status = "PENDING" THEN -n.quantity ELSE 0,
         UNCHANGED <<work, po, payable>>
  PROVE  IInv'
<1>1. TypeOK /\ r.at \in Branches /\ action \in Actions
  BY DEF IInv, Request, Actions
<1>2. PICK e \in Entry, m \in Material :
        /\ Grows(r.at, e) /\ material' = [material EXCEPT ![r.at] = m]
        /\ e.action = action /\ e.quantity = quantity /\ e.ref = r.ref
        /\ e.previous = r.row.stock /\ e.new = r.row.stock + quantity
        /\ m.stock = e.new /\ m.known /\ m.cost = cost
  BY <1>1, BookEffect
<1>3. /\ e.action # "PHYSICAL_AUDIT" => e.previous = material[r.at].stock
      /\ e.action = "TRANSFER_OUT" => e.new >= 0
      /\ e.action # "PURCHASE_RECEIPT" /\ e.action # "SALE_DEDUCTION"
      /\ NeverShort => WithinPrices(m.cost)
  BY <1>2 DEF RowKept
<1>4. /\ material' \in [Branches -> Material] /\ ledger' \in [Branches -> Seq(Entry)]
      /\ RequestsWellFormed' /\ Chained' /\ OutsCovered' /\ SoldOnce' /\ CostsWithin'
      /\ \A c \in Branches : Known(c) => Known(c)'
  BY <1>1, <1>2, <1>3, Movement
<1>5. Known(n.source)'
  <2>1. Known(r.at)'
    BY <1>1, <1>2 DEF Known, TypeOK
  <2> QED
    BY <1>4, <2>1
<1> PICK t \in Transfers : t = r.ref
  OBVIOUS
<1>6. /\ e.ref = t /\ transfer' = [transfer EXCEPT ![t] = n]
      /\ Due(t) + e.quantity = IF n.status = "PENDING" THEN -n.quantity ELSE 0
      /\ po' = po /\ payable' = payable
  BY <1>2
<1>7. /\ transfer' \in [Transfers -> Transfer]
      /\ PapersWellFormed' /\ TransfersBooked' /\ ReceivedOnce' /\ PayableIsSum'
  BY <1>1, <1>2, <1>3, <1>4, <1>5, <1>6, TransferMoves
<1>8. TypeOK'
  BY <1>1, <1>4, <1>7 DEF TypeOK, FewerRequests
<1> QED
  BY <1>4, <1>7, <1>8 DEF IInv, Books

LEMMA CommitSendKeeps ==
  ASSUME IInv, NEW s \in Sessions, CommitSend(s)
  PROVE  IInv'
<1> PICK r : r = req[s]
  OBVIOUS
<1> PICK n : n = r.next
  OBVIOUS
<1>1. /\ req[s] # None /\ r.op = "send" /\ RowKept(r) /\ PaperKept(r) /\ Finish(s)
      /\ Book(r, "TRANSFER_OUT", -n.quantity, r.row.cost)
      /\ transfer' = [transfer EXCEPT ![r.ref] = n]
      /\ UNCHANGED <<work, po, payable>>
  BY DEF CommitSend, Runs
<1>2. FewerRequests /\ r \in Request /\ WellFormed(r) /\ r.at \in Branches /\ r.row \in Material
  BY <1>1, Serving DEF Request
<1>3. /\ r.ref \in Transfers /\ r.paper = NoTransfer /\ r.row.known
      /\ n \in Transfer /\ n.status = "PENDING" /\ n.source = r.at
      /\ n.dest \in Branches /\ n.quantity > 0 /\ r.row.stock >= n.quantity
  BY <1>1, <1>2 DEF WellFormed
<1>4. n.quantity \in Nat /\ r.row.stock \in Int /\ r.row.cost \in Int
  BY <1>2, <1>3 DEF Transfer, Material
<1>5. -n.quantity \in Int /\ r.row.stock + (-n.quantity) >= 0
  BY <1>3, <1>4
<1>6. Due(r.ref) = 0
  BY <1>1, <1>3 DEF PaperKept, NoTransfer, Due
<1>7. Due(r.ref) + (-n.quantity) = IF n.status = "PENDING" THEN -n.quantity ELSE 0
  BY <1>3, <1>4, <1>6
<1>8. NeverShort => WithinPrices(r.row.cost)
  BY <1>1, <1>2, <1>3 DEF RowKept, IInv, CostsWithin
<1> QED
  BY <1>1, <1>2, <1>3, <1>4, <1>5, <1>7, <1>8, TransferMovementKeeps

(* An approval or a rejection: the paper is still pending.                 *)
LEMMA Deciding ==
  ASSUME IInv, NEW r \in Request, WellFormed(r), r.op \in {"approve", "reject"}, PaperKept(r),
         NEW p, p = r.paper, NEW n, n = r.next
  PROVE  /\ r.ref \in Transfers /\ p \in Transfer /\ p.quantity \in Nat \ {0}
         /\ n \in Transfer /\ n.source \in Branches /\ n.dest \in Branches /\ n.quantity > 0
         /\ Known(n.source)
         /\ Due(r.ref) + p.quantity = IF n.status = "PENDING" THEN -n.quantity ELSE 0
<1>1. /\ r.ref \in Transfers /\ p \in Transfer /\ p.status = "PENDING" /\ p.quantity > 0
      /\ n \in Transfer /\ n.status \in {"COMPLETED", "REJECTED"}
      /\ n.source = p.source /\ n.dest = p.dest /\ n.quantity = p.quantity
  BY DEF WellFormed
<1>2. transfer[r.ref] = p
  BY <1>1 DEF PaperKept
<1>3. p.source \in Branches /\ p.dest \in Branches /\ material[p.source].known
  BY <1>1, <1>2, Pending
<1>4. p.quantity \in Nat
  BY <1>1 DEF Transfer
<1>5. Due(r.ref) = -p.quantity
  BY <1>1, <1>2 DEF Due
<1>6. Due(r.ref) + p.quantity = 0
  BY <1>4, <1>5
<1> QED
  BY <1>1, <1>3, <1>4, <1>6 DEF Known

LEMMA CommitRejectKeeps ==
  ASSUME IInv, NEW s \in Sessions, CommitReject(s)
  PROVE  IInv'
<1> PICK r : r = req[s]
  OBVIOUS
<1> PICK p : p = r.paper
  OBVIOUS
<1> PICK n : n = r.next
  OBVIOUS
<1>1. /\ req[s] # None /\ r.op = "reject" /\ RowKept(r) /\ PaperKept(r) /\ Finish(s)
      /\ Book(r, "MANUAL_ADJUSTMENT", p.quantity, r.row.cost)
      /\ transfer' = [transfer EXCEPT ![r.ref] = n]
      /\ UNCHANGED <<work, po, payable>>
  BY DEF CommitReject, Runs
<1>2. FewerRequests /\ r \in Request /\ WellFormed(r) /\ r.at \in Branches /\ r.row \in Material
  BY <1>1, Serving DEF Request
<1>3. /\ r.ref \in Transfers /\ p.quantity \in Nat \ {0}
      /\ n \in Transfer /\ n.source \in Branches /\ n.dest \in Branches /\ n.quantity > 0
      /\ Known(n.source)
      /\ Due(r.ref) + p.quantity = IF n.status = "PENDING" THEN -n.quantity ELSE 0
  BY <1>1, <1>2, Deciding
<1>4. r.row.known /\ r.row.cost \in Int /\ p.quantity \in Int
  BY <1>1, <1>2, <1>3 DEF WellFormed, Material
<1>5. NeverShort => WithinPrices(r.row.cost)
  BY <1>1, <1>2, <1>4 DEF RowKept, IInv, CostsWithin
<1> QED
  BY <1>1, <1>2, <1>3, <1>4, <1>5, TransferMovementKeeps

LEMMA CommitApproveKeeps ==
  ASSUME IInv, NEW s \in Sessions, CommitApprove(s)
  PROVE  IInv'
<1> PICK r : r = req[s]
  OBVIOUS
<1> PICK p : p = r.paper
  OBVIOUS
<1> PICK n : n = r.next
  OBVIOUS
<1> PICK there : there = IF r.row.known THEN r.row
                         ELSE [known |-> FALSE, stock |-> 0, cost |-> r.cost]
  OBVIOUS
<1> PICK cost : cost = AverageCost(there, p.quantity, r.cost, there.cost)
  OBVIOUS
<1>1. /\ req[s] # None /\ r.op = "approve" /\ RowKept(r) /\ PaperKept(r) /\ Finish(s)
      /\ Book(r, "TRANSFER_IN", p.quantity, cost)
      /\ transfer' = [transfer EXCEPT ![r.ref] = n]
      /\ UNCHANGED <<work, po, payable>>
  BY DEF CommitApprove, Runs
<1>2. /\ FewerRequests /\ r \in Request /\ WellFormed(r) /\ r.at \in Branches
      /\ r.row \in Material /\ r.cost \in Int
  BY <1>1, Serving DEF Request
<1>3. /\ r.ref \in Transfers /\ p.quantity \in Nat \ {0}
      /\ n \in Transfer /\ n.source \in Branches /\ n.dest \in Branches /\ n.quantity > 0
      /\ Known(n.source)
      /\ Due(r.ref) + p.quantity = IF n.status = "PENDING" THEN -n.quantity ELSE 0
  BY <1>1, <1>2, Deciding
<1>4. /\ there \in Material /\ there.cost \in Int
      /\ there.stock = IF r.row.known THEN r.row.stock ELSE 0
      /\ there.cost = IF r.row.known THEN r.row.cost ELSE r.cost
  BY <1>2 DEF Material
<1>5. cost \in Int /\ p.quantity \in Int
  BY <1>2, <1>3, <1>4, AverageTyped
<1>6. ASSUME NeverShort PROVE WithinPrices(cost)
  <2>1. WithinPrices(r.cost)
    BY <1>1, <1>6 DEF IInv, CostsWithin
  <2>2. WithinPrices(there.cost)
    BY <1>1, <1>2, <1>4, <1>6, <2>1 DEF IInv, CostsWithin, RowKept
  <2>3. there.stock >= 0
    <3>1. material[r.at].stock >= 0
      BY <1>2, <1>6, StockCovered DEF IInv, Books, Chained
    <3> QED
      BY <1>1, <1>4, <3>1 DEF RowKept
  <2>4. r.cost \in Nat
    BY <1>2, <2>1, PricesAssumption DEF WithinPrices
  <2> QED
    BY <1>3, <1>4, <2>1, <2>2, <2>3, <2>4, AverageWithin
<1> QED
  BY <1>1, <1>2, <1>3, <1>5, <1>6, TransferMovementKeeps

-----------------------------------------------------------------------------
(* Purchase orders                                                         *)

LEMMA CreatePOKeeps ==
  ASSUME IInv, NEW p \in POs, CreatePO(p)
  PROVE  IInv'
<1>1. /\ po[p] = NoPO /\ UNCHANGED <<work, material, ledger, transfer, payable, req>>
  BY DEF CreatePO
<1>2. PICK b \in work.branches, status \in OpenPO, q \in Quantities, price \in work.prices :
        /\ material[b].known
        /\ po' = [po EXCEPT ![p] = [status |-> status, at |-> b, quantity |-> q, price |-> price]]
  BY DEF CreatePO
<1> PICK n : n = [status |-> status, at |-> b, quantity |-> q, price |-> price]
  OBVIOUS
<1>3. TypeOK /\ work \in Workloads
  BY DEF IInv, TypeOK
<1>4. b \in Branches /\ price \in Prices /\ price \in Nat /\ q \in Nat /\ q > 0
  <2>1. b \in Branches /\ price \in Prices
    BY <1>3, WorkloadsAssumption
  <2> QED
    BY <2>1, PricesAssumption, QuantitiesAssumption
<1>5. n \in PO /\ n.status \in OpenPO /\ n.at \in Branches /\ n.quantity > 0 /\ n.price \in Prices
  BY <1>4 DEF PO
<1>6. FewerRequests
  BY <1>1, <1>3 DEF TypeOK, FewerRequests
<1>7. po[p].status # "RECEIVED"
  BY <1>1 DEF NoPO
<1> QED
  BY <1>1, <1>2, <1>5, <1>6, <1>7, OrderKeeps

LEMMA CommitEditKeeps ==
  ASSUME IInv, NEW s \in Sessions, CommitEdit(s)
  PROVE  IInv'
<1> PICK r : r = req[s]
  OBVIOUS
<1> PICK n : n = r.next
  OBVIOUS
<1> PICK p : p = r.ref
  OBVIOUS
<1>1. /\ req[s] # None /\ r.op = "edit" /\ PaperKept(r) /\ Finish(s)
      /\ po' = [po EXCEPT ![p] = n]
      /\ UNCHANGED <<work, material, ledger, transfer, payable>>
  BY DEF CommitEdit, Runs
<1>2. FewerRequests /\ WellFormed(r)
  BY <1>1, Serving
<1>3. /\ p \in POs /\ r.paper.status \in OpenPO
      /\ n \in PO /\ n.status \in OpenPO /\ n.at = r.paper.at
      /\ n.quantity > 0 /\ n.price \in Prices
  BY <1>1, <1>2 DEF WellFormed
<1>4. po[p] = r.paper
  BY <1>1, <1>3 DEF PaperKept
<1>5. n.at \in Branches
  BY <1>3, <1>4, Open
<1>6. po[p].status # "RECEIVED"
  BY <1>3, <1>4 DEF OpenPO
<1> QED
  BY <1>1, <1>2, <1>3, <1>5, <1>6, OrderKeeps

LEMMA CommitReceiveKeeps ==
  ASSUME IInv, NEW s \in Sessions, CommitReceive(s)
  PROVE  IInv'
<1> PICK r : r = req[s]
  OBVIOUS
<1> PICK p : p = r.ref
  OBVIOUS
<1> PICK paper : paper = r.paper
  OBVIOUS
<1> PICK n : n = r.next
  OBVIOUS
<1> PICK cost : cost = AverageCost(r.row, paper.quantity, paper.price, paper.price)
  OBVIOUS
<1>1. /\ req[s] # None /\ r.op = "receive" /\ RowKept(r) /\ PaperKept(r) /\ Finish(s)
      /\ Book(r, "PURCHASE_RECEIPT", paper.quantity, cost)
      /\ payable' = payable + paper.quantity * paper.price
      /\ po' = [po EXCEPT ![p] = n]
      /\ UNCHANGED <<work, transfer>>
  BY DEF CommitReceive, Runs
<1>2. /\ FewerRequests /\ r \in Request /\ WellFormed(r) /\ r.at \in Branches
      /\ r.row \in Material
  BY <1>1, Serving DEF Request
<1>3. /\ p \in POs /\ paper \in PO /\ paper.status \in OpenPO
      /\ n \in PO /\ n.at = paper.at /\ n.status = "RECEIVED" /\ r.at = paper.at
      /\ n.quantity = paper.quantity /\ n.price = paper.price /\ r.row.known
  BY <1>1, <1>2 DEF WellFormed
<1>4. po[p] = paper
  BY <1>1, <1>3 DEF PaperKept
<1>5. paper.quantity > 0 /\ paper.price \in Prices
  BY <1>3, <1>4, Open
<1>6. TypeOK /\ paper.quantity \in Nat \ {0} /\ paper.price \in Nat /\ WithinPrices(paper.price)
  BY <1>3, <1>5, PriceWithin DEF PO, IInv
<1>7. cost \in Int /\ paper.quantity \in Int
  BY <1>2, <1>6, AverageTyped
<1>8. ASSUME NeverShort PROVE WithinPrices(cost)
  <2>1. material[r.at].stock >= 0
    BY <1>2, <1>8, StockCovered DEF IInv, Books, Chained
  <2>2. r.row.stock >= 0 /\ WithinPrices(r.row.cost)
    BY <1>1, <1>2, <1>3, <1>8, <2>1 DEF RowKept, IInv, CostsWithin
  <2> QED
    BY <1>2, <1>6, <2>2, AverageWithin
<1>9. PICK e \in Entry, m \in Material :
        /\ Grows(r.at, e) /\ material' = [material EXCEPT ![r.at] = m]
        /\ e.action = "PURCHASE_RECEIPT" /\ e.quantity = paper.quantity /\ e.ref = r.ref
        /\ e.previous = r.row.stock /\ e.new = r.row.stock + paper.quantity
        /\ m.stock = e.new /\ m.known /\ m.cost = cost
  <2>1. "PURCHASE_RECEIPT" \in Actions
    BY DEF Actions
  <2> QED
    BY <1>1, <1>2, <1>6, <1>7, <2>1, BookEffect
<1>10. /\ e.action # "PHYSICAL_AUDIT" => e.previous = material[r.at].stock
       /\ e.action # "TRANSFER_OUT" /\ e.action # "SALE_DEDUCTION"
       /\ NeverShort => WithinPrices(m.cost)
  BY <1>1, <1>8, <1>9 DEF RowKept
<1>11. /\ material' \in [Branches -> Material] /\ ledger' \in [Branches -> Seq(Entry)]
       /\ RequestsWellFormed' /\ Chained' /\ OutsCovered' /\ SoldOnce' /\ CostsWithin'
       /\ \A c \in Branches : Known(c) => Known(c)'
  BY <1>2, <1>9, <1>10, Movement
<1>12. po' \in [POs -> PO] /\ \A x \in POs : po'[x] = IF x = p THEN n ELSE po[x]
  BY <1>1, <1>3, <1>6 DEF TypeOK
<1>13. PapersWellFormed'
  <2>1. \A t \in Transfers : transfer[t].status # "absent" =>
          /\ transfer[t].source \in Branches /\ transfer[t].dest \in Branches
          /\ transfer[t].quantity > 0 /\ Known(transfer[t].source)'
    BY <1>1, <1>11 DEF IInv, PapersWellFormed, Known
  <2>2. \A x \in POs : po'[x].status # "absent" =>
          po'[x].at \in Branches /\ po'[x].quantity > 0 /\ po'[x].price \in Prices
    BY <1>2, <1>3, <1>5, <1>12 DEF IInv, PapersWellFormed
  <2> QED
    BY <1>1, <2>1, <2>2 DEF PapersWellFormed, Known
<1>14. TransfersBooked'
  <2> SUFFICES ASSUME NEW t \in Transfers PROVE Booked(t)' = Due(t)'
    BY DEF TransfersBooked
  <2>1. Booked(t) \in Int /\ Booked(t)' = Booked(t) + Adds(e, t)
    BY <1>2, <1>6, <1>9, BookedGrows
  <2>2. Adds(e, t) = 0
    BY <1>3, <1>9, PapersAreDistinct DEF Adds
  <2>3. Booked(t) = Due(t) /\ Due(t)' = Due(t)
    BY <1>1 DEF IInv, Books, TransfersBooked, Due
  <2> QED
    BY <2>1, <2>2, <2>3
<1>15. ReceivedOnce'
  <2> PICK k \in Nat : k = Len(ledger[r.at]) + 1
    BY <1>2, <1>6 DEF TypeOK
  <2>1. \A c \in Branches, x \in POs :
          Receipts(c, x)' = IF c = r.at /\ x = p THEN Receipts(c, x) \cup {k} ELSE Receipts(c, x)
    <3> SUFFICES ASSUME NEW c \in Branches, NEW x \in POs
                 PROVE  EntriesOf(c, "PURCHASE_RECEIPT", x)' =
                          IF c = r.at /\ x = p
                            THEN EntriesOf(c, "PURCHASE_RECEIPT", x) \cup {k}
                            ELSE EntriesOf(c, "PURCHASE_RECEIPT", x)
      BY DEF Receipts
    <3>1. EntriesOf(c, "PURCHASE_RECEIPT", x)' =
            EntriesOf(c, "PURCHASE_RECEIPT", x) \cup
              (IF c = r.at /\ e.action = "PURCHASE_RECEIPT" /\ e.ref = x THEN {k} ELSE {})
      BY <1>2, <1>6, <1>9, EntriesGrow
    <3> QED
      BY <1>9, <3>1
  <2>2. \A c \in Branches : \A j \in 1 .. Len(ledger[c]) : ledger'[c][j] = ledger[c][j]
    BY <1>2, <1>6, <1>9, Growth
  <2>3. ledger'[r.at][k] = e
    BY <1>2, <1>6, <1>9, Growth
  <2>4. \A c \in Branches : Receipts(c, p) = {}
    BY <1>3, <1>4 DEF IInv, Books, ReceivedOnce, OpenPO
  <2> SUFFICES ASSUME NEW x \in POs, NEW at, at = po'[x].at
               PROVE  IF po'[x].status = "RECEIVED"
                        THEN /\ \E j \in Receipts(at, x)' :
                                  /\ Receipts(at, x)' = {j}
                                  /\ ledger'[at][j].quantity = po'[x].quantity
                             /\ \A c \in Branches \ {at} : Receipts(c, x)' = {}
                        ELSE \A c \in Branches : Receipts(c, x)' = {}
    BY DEF ReceivedOnce, Receipts, EntriesOf
  <2>5. CASE x = p
    <3>1. at = r.at /\ po'[x].status = "RECEIVED" /\ po'[x].quantity = paper.quantity
      BY <1>3, <1>12, <2>5
    <3>2. Receipts(at, x)' = {k} /\ \A c \in Branches \ {at} : Receipts(c, x)' = {}
      BY <1>2, <2>1, <2>4, <2>5, <3>1
    <3>3. ledger'[at][k].quantity = paper.quantity
      BY <1>9, <2>3, <3>1
    <3> QED
      BY <3>1, <3>2, <3>3
  <2>6. CASE x # p /\ po[x].status = "RECEIVED"
    <3>1. at = po[x].at /\ at \in Branches /\ po'[x] = po[x]
      BY <1>12, <2>6 DEF IInv, PapersWellFormed
    <3>2. PICK j \in Receipts(at, x) :
            Receipts(at, x) = {j} /\ ledger[at][j].quantity = po[x].quantity
      BY <2>6, <3>1 DEF IInv, Books, ReceivedOnce
    <3>3. ledger'[at][j] = ledger[at][j]
      BY <2>2, <3>1 DEF Receipts, EntriesOf
    <3>4. \A c \in Branches \ {at} : Receipts(c, x) = {}
      BY <2>6, <3>1 DEF IInv, Books, ReceivedOnce
    <3>5. Receipts(at, x)' = {j} /\ \A c \in Branches \ {at} : Receipts(c, x)' = {}
      BY <2>1, <2>6, <3>1, <3>2, <3>4
    <3> QED
      BY <2>6, <3>1, <3>2, <3>3, <3>5
  <2>7. CASE x # p /\ po[x].status # "RECEIVED"
    <3>1. \A c \in Branches : Receipts(c, x) = {}
      BY <2>7 DEF IInv, Books, ReceivedOnce
    <3> QED
      BY <1>12, <2>1, <2>7, <3>1
  <2> QED
    BY <2>5, <2>6, <2>7
<1>16. payable' \in Nat /\ PayableIsSum'
  <2> DEFINE before == [x \in POs |-> Owed(x)]
             after == [x \in POs |-> Owed(x)']
  <2>1. \A x \in POs : Owed(x) \in Int /\ Owed(x)' \in Int
    <3>1. \A x \in PO : x.quantity * x.price \in Int
      BY DEF PO
    <3> QED
      BY <1>6, <1>12, <3>1 DEF Owed, TypeOK
  <2>2. \A x \in POs \ {p} : Owed(x)' = Owed(x)
    BY <1>12 DEF Owed
  <2>3. Owed(p) = 0
    BY <1>3, <1>4 DEF Owed, OpenPO
  <2>4. Owed(p)' = paper.quantity * paper.price
    BY <1>3, <1>12 DEF Owed
  <2>5. /\ before \in [POs -> Int] /\ after \in [POs -> Int]
        /\ before[p] = 0 /\ after[p] = paper.quantity * paper.price
        /\ \A x \in POs \ {p} : after[x] = before[x]
    BY <1>3, <2>1, <2>2, <2>3, <2>4
  <2>6. payable = SumFunction(before)
    BY DEF IInv, Books, PayableIsSum
  <2>7. paper.quantity * paper.price \in Nat
    BY <1>6
  <2> HIDE DEF before
  <2>8. SumFunction(after) = SumFunction(before) - before[p] + after[p]
    <3> HIDE DEF after
    <3> QED
      BY <1>3, <2>5, FiniteAssumption, SumFunctionUpdate
  <2>9. payable \in Nat
    BY <1>6 DEF TypeOK
  <2>10. payable' = SumFunction(after)
    <3> HIDE DEF after
    <3> QED
      BY <1>1, <2>5, <2>6, <2>7, <2>8, <2>9
  <2> QED
    BY <1>1, <2>7, <2>9, <2>10 DEF PayableIsSum
<1>17. TypeOK'
  BY <1>1, <1>2, <1>6, <1>11, <1>12, <1>16 DEF TypeOK, FewerRequests
<1> QED
  BY <1>11, <1>13, <1>14, <1>15, <1>16, <1>17 DEF IInv, Books

-----------------------------------------------------------------------------
(* The invariant                                                           *)

LEMMA InvInit ==
  ASSUME Init
  PROVE  IInv
<1>1. TypeOK
  BY DEF Init, TypeOK, Unknown, Material, NoTransfer, Transfer, NoPO, PO
<1>2. RequestsWellFormed /\ PapersWellFormed
  BY DEF Init, RequestsWellFormed, PapersWellFormed, NoTransfer, NoPO
<1>3. Chained /\ OutsCovered
  BY DEF Init, Chained, StockIsLast, LedgerChains, StockBefore, OutsCovered, Unknown
<1>4. TransfersBooked
  <2> SUFFICES ASSUME NEW t \in Transfers PROVE Booked(t) = 0
    BY DEF Init, TransfersBooked, Due, NoTransfer
  <2> DEFINE at == [b \in Branches |-> MovedAt(b, t)]
  <2>1. \A b \in Branches : MovedAt(b, t) = 0
    <3> SUFFICES ASSUME NEW b \in Branches PROVE MovedAt(b, t) = 0
      OBVIOUS
    <3> DEFINE f == [k \in DOMAIN ledger[b] |->
                       IF ledger[b][k].ref = t THEN ledger[b][k].quantity ELSE 0]
    <3>1. DOMAIN ledger[b] = {}
      BY DEF Init
    <3>2. f = [k \in {} |-> 0] /\ IsFiniteSet({})
      BY <3>1, FS_EmptySet
    <3>3. SumFunction(f) = 0
      BY <3>2, SumFunctionZero
    <3> QED
      BY <3>3 DEF MovedAt
  <2>2. at \in [Branches -> Int] /\ \A b \in Branches : at[b] = 0
    BY <2>1
  <2> HIDE DEF at
  <2>3. SumFunction(at) = 0
    BY <2>2, FiniteAssumption, SumFunctionZero
  <2> QED
    BY <2>3 DEF Booked, at
<1>5. SoldOnce /\ ReceivedOnce
  BY SellerAssumption DEF Init, SoldOnce, ReceivedOnce, Receipts, EntriesOf, NoPO
<1>6. PayableIsSum
  <2> DEFINE f == [p \in POs |-> Owed(p)]
  <2>1. f \in [POs -> Int] /\ \A p \in POs : f[p] = 0
    BY DEF Init, Owed, NoPO
  <2> HIDE DEF f
  <2>2. SumFunction(f) = 0
    BY <2>1, FiniteAssumption, SumFunctionZero
  <2> QED
    BY <2>2 DEF PayableIsSum, Init, f
<1>7. CostsWithin
  BY DEF Init, CostsWithin, Unknown
<1> QED
  BY <1>1, <1>2, <1>3, <1>4, <1>5, <1>6, <1>7 DEF IInv, Books

LEMMA InvNext ==
  ASSUME IInv, [Next]_vars
  PROVE  IInv'
<1>1. CASE UNCHANGED vars
  <2>1. FewerRequests /\ UNCHANGED db
    BY <1>1 DEF vars, IInv, TypeOK, FewerRequests
  <2> QED
    BY <2>1, QuietKeeps
<1>2. ASSUME NEW b \in Branches, NEW cost \in Prices, SetCost(b, cost) PROVE IInv'
  BY <1>2, SetCostKeeps
<1>3. ASSUME NEW b \in Branches, NEW cost \in Prices, NEW stock \in Quantities \cup {0},
             CreateMaterial(b, stock, cost)
      PROVE  IInv'
  BY <1>3, CreateMaterialKeeps
<1>4. ASSUME NEW p \in POs, CreatePO(p) PROVE IInv'
  BY <1>4, CreatePOKeeps
<1>5. ASSUME NEW s \in Sessions,
             \/ AskAdjust(s) \/ AskWaste(s) \/ AskAudit(s) \/ AskSell(s)
             \/ AskSend(s) \/ AskApprove(s) \/ AskReject(s) \/ AskEdit(s) \/ AskReceive(s)
      PROVE  IInv'
  BY <1>5, AskAdjustKeeps, AskWasteKeeps, AskAuditKeeps, AskSellKeeps, AskSendKeeps,
     AskApproveKeeps, AskRejectKeeps, AskEditKeeps, AskReceiveKeeps
<1>6. ASSUME NEW s \in Sessions,
             \/ CommitAdjust(s) \/ CommitWaste(s) \/ CommitAudit(s) \/ CommitSell(s)
             \/ CommitSend(s) \/ CommitApprove(s) \/ CommitReject(s)
             \/ CommitEdit(s) \/ CommitReceive(s)
      PROVE  IInv'
  BY <1>6, CommitAdjustKeeps, CommitWasteKeeps, CommitAuditKeeps, CommitSellKeeps,
     CommitSendKeeps, CommitApproveKeeps, CommitRejectKeeps, CommitEditKeeps, CommitReceiveKeeps
<1>7. ASSUME NEW s \in Sessions, Abandon(s) PROVE IInv'
  <2>1. FewerRequests
    BY <1>7, FinishEffect DEF Abandon, IInv
  <2> QED
    BY <1>7, <2>1, QuietKeeps DEF Abandon
<1>8. CASE Next
  BY <1>2, <1>3, <1>4, <1>5, <1>6, <1>7, <1>8 DEF Next
<1> QED
  BY <1>1, <1>8

(* What the requests have read stays true of the rows they still match.    *)
THEOREM Invariance == Spec => []IInv
<1>1. Init => IInv
  BY InvInit
<1>2. IInv /\ [Next]_vars => IInv'
  BY InvNext
<1> QED
  BY <1>1, <1>2, PTL DEF Spec

-----------------------------------------------------------------------------
(* What follows                                                            *)

(* Every row and every request has the shape of its table: stocks and      *)
(* costs stay whole numbers, what is owed to the supplier never falls      *)
(* below nothing.                                                          *)
THEOREM TypeCorrect == Spec => []TypeOK
<1>1. IInv => TypeOK
  BY DEF IInv
<1> QED
  BY <1>1, Invariance, PTL

(* The stock_ledger_entries of a raw material follow one another: only an  *)
(* audit, which does not run serializably, may start from a stock that was *)
(* already replaced (audit.service.ts).                                    *)
THEOREM EntriesChain == Spec => []LedgerChains
<1>1. IInv => LedgerChains
  BY DEF IInv, Books, Chained
<1> QED
  BY <1>1, Invariance, PTL

(* However many approvals and rejections of a transfer race, its stock     *)
(* arrives once or comes back once (transfer.service.ts), and no transfer  *)
(* takes the source below zero.                                            *)
THEOREM NothingIsLostOnTheWay == Spec => []TransferConserves
<1>1. IInv => TransferConserves
  BY DEF IInv, Books, TransfersBooked, OutsCovered, TransferConserves, Due
<1> QED
  BY <1>1, Invariance, PTL

(* A sold item is deducted at most once (deductStockForOrder), and a       *)
(* purchase order is stocked and owed once, as it stands, when it is       *)
(* received (purchase.repository.ts).                                      *)
THEOREM NothingIsBookedTwice == Spec => []BookedOnce
<1>1. ASSUME IInv, NEW i \in Sales PROVE Cardinality(EntriesOf(Seller, "SALE_DEDUCTION", i)) <= 1
  <2> DEFINE E == EntriesOf(Seller, "SALE_DEDUCTION", i)
  <2>1. \A k, m \in E : k = m
    BY <1>1 DEF IInv, Books, SoldOnce
  <2> SUFFICES Cardinality(E) <= 1
    OBVIOUS
  <2> HIDE DEF E
  <2>2. CASE E = {}
    <3>1. Cardinality({}) = 0
      BY FS_EmptySet
    <3> QED
      BY <2>2, <3>1
  <2>3. CASE E # {}
    <3> PICK k : k \in E
      BY <2>3
    <3>1. E = {k}
      BY <2>1
    <3>2. Cardinality({k}) = 1
      BY FS_Singleton
    <3> QED
      BY <3>1, <3>2
  <2> QED
    BY <2>2, <2>3
<1>2. IInv => ReceivedOnce /\ PayableIsSum
  BY DEF IInv, Books
<1>3. IInv => BookedOnce
  BY <1>1, <1>2 DEF BookedOnce, ReceivedOnce, PayableIsSum
<1> QED
  BY <1>3, Invariance, PTL

(* While no stock has been below zero, the weighted average cost of a      *)
(* material stays between the lowest and the highest price ever paid, all  *)
(* roundings included (receive and approveTransfer).                      *)
THEOREM CostStaysWithinPrices == Spec => []CostWithinPrices
<1>1. IInv => CostWithinPrices
  BY DEF IInv, CostsWithin, CostWithinPrices
<1> QED
  BY <1>1, Invariance, PTL
===============================================================================
