------------------------------ MODULE StockLedger ------------------------------
(***************************************************************************)
(* The stock of one ingredient in the branches of a brand: purchases,      *)
(* sales, waste, adjustments, physical audits and transfers between        *)
(* branches, each leaving an entry in the stock ledger.                    *)
(*                                                                         *)
(* Sources: services/inventory/transfer.service.ts, audit.service.ts,      *)
(* wastage.service.ts, deduction-queue.service.ts (deductStockForOrder),   *)
(* repositories/inventory/purchase.repository.ts and raw-material          *)
(* .repository.ts, lib/serializable-transaction.ts.                        *)
(*                                                                         *)
(* An operation reads rows (Ask...) and later writes what it computed from *)
(* them (Commit...); others commit in between.  A serializable transaction *)
(* commits only if the rows it writes are as it read them; otherwise it is *)
(* aborted and serializableTransaction reads again, three times at most:   *)
(* Abandon, and a new Ask.  The audit alone runs at READ COMMITTED.        *)
(*                                                                         *)
(* Abstractions.  One SKU, so a branch has one raw material, and a paper   *)
(* (transfer, purchase order, sold item) one line.  Units are the stock's  *)
(* own.  Costs are whole, in units of the sixth decimal the code rounds to.*)
(***************************************************************************)
EXTENDS Integers, Sequences, FiniteSets, Functions

CONSTANTS Branches, Sessions,
          Transfers, POs, Sales, \* papers: transfers, purchase orders, sold items
          Seller,                \* the branch that sells Sales
          None,
          Quantities, Prices,
          Workloads              \* bound: per behaviour, which operations are asked for in
                                 \* which branches, at which prices, with how many entries,
                                 \* and of which types an adjustment may be

ASSUME SellerAssumption == Seller \in Branches
ASSUME QuantitiesAssumption == Quantities \subseteq Nat \ {0}
ASSUME PricesAssumption == Prices \subseteq Nat
ASSUME NoneAssumption == None \notin Branches \cup Transfers \cup POs \cup Sales
ASSUME FiniteAssumption == IsFiniteSet(Branches) /\ IsFiniteSet(POs)
ASSUME PapersAreDistinct == Transfers \cap POs = {} /\ (Transfers \cup POs) \cap Sales = {}

VARIABLES
  work,     \* the workload of this behaviour
  material, \* branch -> its raw material row
  ledger,   \* branch -> its stock ledger, oldest entry first
  transfer, \* stock transfers
  po,       \* purchase orders
  payable,  \* supplier.outstandingBalance
  req       \* session -> the operation it has read the rows for, or None

db   == <<work, material, ledger, transfer, po, payable>>
vars == <<db, req>>

Material == [known : BOOLEAN, stock : Int, cost : Int]
Unknown  == [known |-> FALSE, stock |-> 0, cost |-> 0]

Actions == {"OPENING_STOCK", "PURCHASE_RECEIPT", "SALE_DEDUCTION", "WASTAGE_RECORD",
            "TRANSFER_OUT", "TRANSFER_IN", "PHYSICAL_AUDIT", "MANUAL_ADJUSTMENT"}
ASSUME WorkloadsAssumption ==
  \A w \in Workloads : /\ w.branches \subseteq Branches /\ w.prices \subseteq Prices
                       /\ w.entries \in Nat /\ w.types \subseteq Actions

Papers  == Transfers \cup POs \cup Sales
Entry   == [action : Actions, quantity : Int, previous : Int, new : Int,
            ref : Papers \cup {None}]

Transfer   == [status : {"absent", "PENDING", "COMPLETED", "REJECTED"},
               source : Branches \cup {None}, dest : Branches \cup {None}, quantity : Nat]
NoTransfer == [status |-> "absent", source |-> None, dest |-> None, quantity |-> 0]

OpenPO == {"DRAFT", "PENDING", "CANCELLED"}
PO     == [status : {"absent", "RECEIVED"} \cup OpenPO, at : Branches \cup {None},
           quantity : Nat, price : Nat]
NoPO   == [status |-> "absent", at |-> None, quantity |-> 0, price |-> 0]

Ops     == {"adjust", "waste", "audit", "sell", "send", "approve", "reject", "edit", "receive"}
(* row, paper: the material and the paper as read; at: whose material;     *)
(* version: every change of stock has made an entry.                       *)
Request == [op : Ops, at : Branches, row : Material, version : Nat, ref : Papers \cup {None},
            paper : Transfer \cup PO \cup {None}, next : Transfer \cup PO \cup {None},
            quantity : Int, cost : Int]

ASSUME NoneIsNoRequest == None \notin Request

TypeOK ==
  /\ work \in Workloads
  /\ material \in [Branches -> Material]
  /\ ledger \in [Branches -> Seq(Entry)]
  /\ transfer \in [Transfers -> Transfer]
  /\ po \in [POs -> PO]
  /\ payable \in Nat
  /\ req \in [Sessions -> Request \cup {None}]

Init ==
  /\ work \in Workloads
  /\ material = [b \in Branches |-> Unknown]
  /\ ledger = [b \in Branches |-> <<>>]
  /\ transfer = [t \in Transfers |-> NoTransfer]
  /\ po = [p \in POs |-> NoPO]
  /\ payable = 0
  /\ req = [s \in Sessions |-> None]

-----------------------------------------------------------------------------
(* Transactions                                                            *)

(* Operation op has read the material of branch b.                         *)
Reading(op, b) ==
  [op |-> op, at |-> b, row |-> material[b], version |-> Len(ledger[b]),
   ref |-> None, paper |-> None, next |-> None, quantity |-> 0, cost |-> material[b].cost]

Ask(s, r) ==
  /\ r.op \in work.asked
  /\ req[s] = None
  /\ material[r.at].known \/ r.op = "approve"
  /\ req' = [req EXCEPT ![s] = r]
  /\ UNCHANGED db

Runs(s, op) == req[s] # None /\ req[s].op = op
Finish(s)   == req' = [req EXCEPT ![s] = None]

(* Refused, failed, dead, or aborted and about to read again.              *)
Abandon(s) ==
  /\ req[s] # None
  /\ Finish(s)
  /\ UNCHANGED db

(* Seeded faults: the default isolation level does not notice.             *)
RowUnguarded(r) == TRUE

PaperUnguarded(r) == TRUE

(* The material's row, and the paper, are as the transaction read them.    *)
RowKept(r) == material[r.at] = r.row /\ Len(ledger[r.at]) = r.version
PaperKept(r) ==
  /\ r.ref \in Transfers => transfer[r.ref] = r.paper
  /\ r.ref \in POs => po[r.ref] = r.paper

(* The new stock is computed from the row read; the entry says the same.   *)
Book(r, action, quantity, cost) ==
  /\ Len(ledger[r.at]) < work.entries
  /\ material' = [material EXCEPT ![r.at] =
       [known |-> TRUE, stock |-> r.row.stock + quantity, cost |-> cost]]
  /\ ledger' = [ledger EXCEPT ![r.at] = Append(@,
       [action |-> action, quantity |-> quantity, previous |-> r.row.stock,
        new |-> r.row.stock + quantity, ref |-> r.ref])]

(* toDecimalPlaces rounds half away from zero.                             *)
Rounded(num, den) ==
  IF num >= 0 THEN (2 * num + den) \div (2 * den) ELSE -((den - 2 * num) \div (2 * den))

(* Seeded fault: the old stock is weighed as if it were the new one.       *)
HeavyCost(row, quantity, price, otherwise) ==
  IF row.stock + quantity > 0
    THEN Rounded((row.stock + quantity) * row.cost + quantity * price, row.stock + quantity)
    ELSE otherwise

(* The weighted average of what was there and what has come.               *)
AverageCost(row, quantity, price, otherwise) ==
  IF row.stock + quantity > 0
    THEN Rounded(row.stock * row.cost + quantity * price, row.stock + quantity)
    ELSE otherwise

-----------------------------------------------------------------------------
(* The raw material                                                        *)

CreateMaterial(b, stock, cost) ==
  /\ b \in work.branches /\ cost \in work.prices
  /\ ~material[b].known
  /\ material' = [material EXCEPT ![b] = [known |-> TRUE, stock |-> stock, cost |-> cost]]
  /\ ledger' = IF stock = 0 THEN ledger
               ELSE [ledger EXCEPT ![b] = Append(@,
                      [action |-> "OPENING_STOCK", quantity |-> stock, previous |-> 0,
                       new |-> stock, ref |-> None])]
  /\ UNCHANGED <<work, transfer, po, payable, req>>

(* update(): one statement; the service refuses a currentStock in it.      *)
SetCost(b, cost) ==
  /\ cost \in work.prices
  /\ material[b].known
  /\ material' = [material EXCEPT ![b].cost = cost]
  /\ UNCHANGED <<work, ledger, transfer, po, payable, req>>

(* adjustStock: any quantity, up or down, no floor, and an entry of any    *)
(* type, as the client wants it.                                           *)
AskAdjust(s) ==
  \E b \in Branches, q \in Quantities :
    \E change \in {q, -q} : Ask(s, [Reading("adjust", b) EXCEPT !.quantity = change])

CommitAdjust(s) ==
  /\ Runs(s, "adjust")
  /\ RowKept(req[s])
  /\ \E action \in work.types : Book(req[s], action, req[s].quantity, req[s].row.cost)
  /\ Finish(s)
  /\ UNCHANGED <<work, transfer, po, payable>>

(* createWastageRecord                                                     *)
AskWaste(s) ==
  \E b \in Branches, q \in Quantities : Ask(s, [Reading("waste", b) EXCEPT !.quantity = q])

CommitWaste(s) ==
  /\ Runs(s, "waste")
  /\ RowKept(req[s])
  /\ Book(req[s], "WASTAGE_RECORD", -req[s].quantity, req[s].row.cost)
  /\ Finish(s)
  /\ UNCHANGED <<work, transfer, po, payable>>

(* createAudit: quantity is what was counted.                              *)
AskAudit(s) ==
  \E b \in Branches, actual \in Quantities \cup {0} :
    Ask(s, [Reading("audit", b) EXCEPT !.quantity = actual])

(* The count is written over whatever the stock has become.                *)
CommitAudit(s) ==
  /\ Runs(s, "audit")
  /\ LET r == req[s]
         variance == r.quantity - r.row.stock
     IN  IF variance = 0 THEN UNCHANGED <<material, ledger>>
         ELSE Book(r, "PHYSICAL_AUDIT", variance, material[r.at].cost)
  /\ Finish(s)
  /\ UNCHANGED <<work, transfer, po, payable>>

-----------------------------------------------------------------------------
(* deductStockForOrder, for one sold item                                  *)

EntriesOf(b, action, ref) ==
  {k \in 1 .. Len(ledger[b]) : ledger[b][k].action = action /\ ledger[b][k].ref = ref}

Deducted(i) == EntriesOf(Seller, "SALE_DEDUCTION", i) # {}

AskSell(s) ==
  \E i \in Sales, q \in Quantities :
    /\ ~Deducted(i)
    /\ Ask(s, [Reading("sell", Seller) EXCEPT !.ref = i, !.quantity = q])

CommitSell(s) ==
  /\ Runs(s, "sell")
  /\ RowKept(req[s])
  /\ Book(req[s], "SALE_DEDUCTION", -req[s].quantity, req[s].row.cost)
  /\ Finish(s)
  /\ UNCHANGED <<work, transfer, po, payable>>

-----------------------------------------------------------------------------
(* Transfers                                                               *)

Sufficient(b, q) == material[b].stock >= q

(* createTransfer: the stock leaves the source at once.                    *)
AskSend(s) ==
  \E t \in Transfers, source \in Branches, dest \in Branches, q \in Quantities :
    /\ transfer[t] = NoTransfer
    /\ Sufficient(source, q)
    /\ Ask(s, [Reading("send", source) EXCEPT !.ref = t, !.paper = NoTransfer,
         !.next = [status |-> "PENDING", source |-> source, dest |-> dest, quantity |-> q]])

CommitSend(s) ==
  /\ Runs(s, "send")
  /\ RowKept(req[s]) /\ PaperKept(req[s])
  /\ Book(req[s], "TRANSFER_OUT", -req[s].next.quantity, req[s].row.cost)
  /\ transfer' = [transfer EXCEPT ![req[s].ref] = req[s].next]
  /\ Finish(s)
  /\ UNCHANGED <<work, po, payable>>

(* approveTransfer reads the cost of the source's material, and the        *)
(* destination's material if there is one.                                 *)
AskApprove(s) ==
  \E t \in Transfers :
    /\ transfer[t].status = "PENDING"
    /\ Ask(s, [Reading("approve", transfer[t].dest) EXCEPT !.ref = t, !.paper = transfer[t],
         !.next = [transfer[t] EXCEPT !.status = "COMPLETED"],
         !.cost = material[transfer[t].source].cost])

(* A material the destination does not have is created with the source's   *)
(* cost; two at once collide on the SKU's unique index (RowKept).          *)
CommitApprove(s) ==
  /\ Runs(s, "approve")
  /\ RowKept(req[s]) /\ PaperKept(req[s])
  /\ LET r == req[s]
         there == IF r.row.known THEN r.row ELSE [known |-> FALSE, stock |-> 0, cost |-> r.cost]
     IN  Book(r, "TRANSFER_IN", r.paper.quantity,
              AverageCost(there, r.paper.quantity, r.cost, there.cost))
  /\ transfer' = [transfer EXCEPT ![req[s].ref] = req[s].next]
  /\ Finish(s)
  /\ UNCHANGED <<work, po, payable>>

(* Seeded fault: a rejected transfer is called cancelled.                  *)
AskRejectAsCancelled(s) ==
  \E t \in Transfers :
    /\ transfer[t].status = "PENDING"
    /\ Ask(s, [Reading("reject", transfer[t].source) EXCEPT !.ref = t, !.paper = transfer[t],
         !.next = [transfer[t] EXCEPT !.status = "CANCELLED"]])

(* rejectTransfer                                                          *)
AskReject(s) ==
  \E t \in Transfers :
    /\ transfer[t].status = "PENDING"
    /\ Ask(s, [Reading("reject", transfer[t].source) EXCEPT !.ref = t, !.paper = transfer[t],
         !.next = [transfer[t] EXCEPT !.status = "REJECTED"]])

CommitReject(s) ==
  /\ Runs(s, "reject")
  /\ RowKept(req[s]) /\ PaperKept(req[s])
  /\ Book(req[s], "MANUAL_ADJUSTMENT", req[s].paper.quantity, req[s].row.cost)
  /\ transfer' = [transfer EXCEPT ![req[s].ref] = req[s].next]
  /\ Finish(s)
  /\ UNCHANGED <<work, po, payable>>

-----------------------------------------------------------------------------
(* Purchase orders; the total is quantity times price here                 *)

CreatePO(p) ==
  /\ "receive" \in work.asked
  /\ po[p] = NoPO
  /\ \E b \in work.branches, status \in OpenPO, q \in Quantities, price \in work.prices :
       /\ material[b].known
       /\ po' = [po EXCEPT ![p] = [status |-> status, at |-> b, quantity |-> q, price |-> price]]
  /\ UNCHANGED <<work, material, ledger, transfer, payable, req>>

(* update(): whatever the status but RECEIVED; it may change the items.    *)
AskEdit(s) ==
  \E p \in POs, status \in OpenPO, q \in Quantities, price \in work.prices :
    /\ po[p].status \in OpenPO
    /\ Ask(s, [Reading("edit", po[p].at) EXCEPT !.ref = p, !.paper = po[p],
         !.next = [po[p] EXCEPT !.status = status, !.quantity = q, !.price = price]])

CommitEdit(s) ==
  /\ Runs(s, "edit")
  /\ PaperKept(req[s])
  /\ po' = [po EXCEPT ![req[s].ref] = req[s].next]
  /\ Finish(s)
  /\ UNCHANGED <<work, material, ledger, transfer, payable>>

(* receive(): whatever the status but RECEIVED, CANCELLED included.        *)
AskReceive(s) ==
  \E p \in POs :
    /\ po[p].status \in OpenPO
    /\ Ask(s, [Reading("receive", po[p].at) EXCEPT !.ref = p, !.paper = po[p],
         !.next = [po[p] EXCEPT !.status = "RECEIVED"]])

CommitReceive(s) ==
  /\ Runs(s, "receive")
  /\ RowKept(req[s]) /\ PaperKept(req[s])
  /\ LET r == req[s]
     IN  /\ Book(r, "PURCHASE_RECEIPT", r.paper.quantity,
                 AverageCost(r.row, r.paper.quantity, r.paper.price, r.paper.price))
         /\ payable' = payable + r.paper.quantity * r.paper.price
         /\ po' = [po EXCEPT ![r.ref] = r.next]
  /\ Finish(s)
  /\ UNCHANGED <<work, transfer>>

-----------------------------------------------------------------------------

Next ==
  \/ \E b \in Branches, cost \in Prices :
       SetCost(b, cost) \/ \E stock \in Quantities \cup {0} : CreateMaterial(b, stock, cost)
  \/ \E p \in POs : CreatePO(p)
  \/ \E s \in Sessions :
       \/ AskAdjust(s) \/ AskWaste(s) \/ AskAudit(s) \/ AskSell(s)
       \/ AskSend(s) \/ AskApprove(s) \/ AskReject(s) \/ AskEdit(s) \/ AskReceive(s)
       \/ CommitAdjust(s) \/ CommitWaste(s) \/ CommitAudit(s) \/ CommitSell(s)
       \/ CommitSend(s) \/ CommitApprove(s) \/ CommitReject(s)
       \/ CommitEdit(s) \/ CommitReceive(s)
       \/ Abandon(s)

Spec == Init /\ [][Next]_vars

-----------------------------------------------------------------------------
(* Properties                                                              *)

StockBefore(b, k) == IF k = 1 THEN 0 ELSE ledger[b][k - 1].new

(* No serializable movement starts from a stock that another one has       *)
(* replaced in the meantime: entries other than the audits' take up where  *)
(* the entry before them has left off.                                     *)
LedgerChains ==
  \A b \in Branches : \A k \in 1 .. Len(ledger[b]) :
    ledger[b][k].action # "PHYSICAL_AUDIT" => ledger[b][k].previous = StockBefore(b, k)

(* What the entries of a transfer add up to, over all branches.            *)
MovedAt(b, t) ==
  SumFunction([k \in DOMAIN ledger[b] |->
                 IF ledger[b][k].ref = t THEN ledger[b][k].quantity ELSE 0])

Booked(t) == SumFunction([b \in Branches |-> MovedAt(b, t)])

(* What has left the source arrives once or comes back once, or is still   *)
(* under way, even when an approval races a rejection or another approval; *)
(* and no transfer sends more than the source has, whatever was sold or    *)
(* sent since the check.                                                   *)
TransferConserves ==
  /\ \A t \in Transfers :
       Booked(t) = IF transfer[t].status = "PENDING" THEN -transfer[t].quantity ELSE 0
  /\ \A b \in Branches : \A k \in 1 .. Len(ledger[b]) :
       ledger[b][k].action = "TRANSFER_OUT" /\ ledger[b][k].ref # None => ledger[b][k].new >= 0

(* A sold item is deducted once, even when two workers hold its job (what  *)
(* DeductionQueue!Deduct takes for one step).  A purchase order that is    *)
(* RECEIVED was stocked once, with the quantity it still shows, and is     *)
(* owed once to the supplier; no other one is.                             *)
Receipts(b, p) == EntriesOf(b, "PURCHASE_RECEIPT", p)

Owed(p) == IF po[p].status = "RECEIVED" THEN po[p].quantity * po[p].price ELSE 0

BookedOnce ==
  /\ \A i \in Sales : Cardinality(EntriesOf(Seller, "SALE_DEDUCTION", i)) <= 1
  /\ \A p \in POs :
       IF po[p].status = "RECEIVED"
         THEN /\ \E k \in Receipts(po[p].at, p) :
                   /\ Receipts(po[p].at, p) = {k}
                   /\ ledger[po[p].at][k].quantity = po[p].quantity
              /\ \A b \in Branches \ {po[p].at} : Receipts(b, p) = {}
         ELSE \A b \in Branches : Receipts(b, p) = {}
  /\ payable = SumFunction([p \in POs |-> Owed(p)])

(* As long as no stock has gone below zero, an average cost lies between   *)
(* the lowest and the highest price.                                       *)
NeverShort == \A b \in Branches : \A k \in 1 .. Len(ledger[b]) : ledger[b][k].new >= 0

WithinPrices(cost) == \E low, high \in Prices : low <= cost /\ cost <= high

CostWithinPrices ==
  NeverShort => \A b \in Branches : material[b].known => WithinPrices(material[b].cost)
===============================================================================
