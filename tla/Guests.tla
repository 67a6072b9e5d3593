-------------------------------- MODULE Guests --------------------------------
(***************************************************************************)
(* The guests of a brand and what is kept about them: how a checkout finds *)
(* or creates the guest, and the brand of a restaurant that has none; the  *)
(* purchase totals a payment refreshes; the segments evaluated from them;  *)
(* referral claims with their points and coupons; coupons handed out by    *)
(* staff; feedback and the complaint tickets it files; RFM tags and staff  *)
(* edits, which rewrite a guest's metadata.                                *)
(*                                                                         *)
(* Sources: services/crm/profiler.service.ts, segment.service.ts,          *)
(* referral.service.ts, loyalty.service.ts, coupon.service.ts,             *)
(* feedback.service.ts, rfm.service.ts, their controllers, and             *)
(* repositories/crm/customer.repository.ts.                                *)
(*                                                                         *)
(* A request is read in its Ask step and takes one step per statement or   *)
(* transaction; Abandon is its death between two of them.                  *)
(*                                                                         *)
(* Abstractions.  Spend and dates follow the count of paid orders and are  *)
(* left out, and so are names and codes: metadata records only whether it  *)
(* holds a referral code and the mark of a claim, not the RFM tags, which  *)
(* nothing here reads.  A bonus is one point.  A request of staff is of the*)
(* brand its owner's restaurant has when it is read.  The evaluation of a  *)
(* segment has one criterion, the number of orders.                        *)
(***************************************************************************)
EXTENDS Integers, FiniteSets, Functions

CONSTANTS Restaurants, Brands, Customers, Phones, Orders, Coupons, Segments, Null,
          Deleted,        \* the place of a coupon or segment that was there
          Requests,       \* bound: requests in flight
          MaxPoints,      \* bound: points ever booked for one customer
          MinOrders,      \* the criterion of the segments
          Ratings,        \* 1 .. 5
          Workloads       \* bound: what is asked for, for which phones, what metadata staff
                          \* send, and who is there at first

VARIABLES
  work,      \* the operations of this behaviour
  brand,     \* restaurant.brandId
  made,      \* the brands that exist
  customer,  \* customer, with brandVisitCount and metadataJson
  profile,   \* customerRestaurantProfile.totalOrders
  order,     \* order.customerId, and whether it is PAID
  balance,   \* loyaltyAccount.pointsBalance
  ledger,    \* sum of a customer's loyaltyLedger
  coupon,    \* coupon
  issued,    \* customerCoupon: unredeemed issuances
  segment,   \* segment
  members,   \* customerSegment
  feedback,  \* feedback.rating
  ticket,    \* complaintTicket
  req        \* request -> what it is about to do, or Null

people == <<brand, made, customer, profile, order>>
points == <<balance, ledger>>
offers == <<coupon, issued>>
groups == <<segment, members>>
voices == <<feedback, ticket>>
guestsVars   == <<work, people, points, offers, groups, voices, req>>

Metadata == [code : BOOLEAN, claimed : BOOLEAN]
NoMetadata == [code |-> FALSE, claimed |-> FALSE]

Customer == [brand : Brands, phone : Phones, generation : {1, 2}, total : Nat, meta : Metadata]

There(row) == row \notin {Null, Deleted}

(* generation 1: the default, of coupons that a claim creates.             *)
Coupon == [brand : Brands, welcome : BOOLEAN, generation : {1, 2}]

Status == {"OPEN", "IN_PROGRESS", "RESOLVED"}
Ticket == [brand : Brands, status : Status]

Order == [restaurant : Restaurants, customer : Customers \cup {Null}, paid : BOOLEAN]

(* What a request carries, by what it does next.                           *)
LinkRequest    == [op : {"brand", "adopt", "find", "create"}, order : Orders, restaurant : Restaurants,
                   phone : Phones, brand : Brands \cup {Null}]
RecodeRequest  == [op : {"recode"}, order : Orders, restaurant : Restaurants,
                   customer : Customers, meta : Metadata]
PlaceRequest   == [op : {"profile", "place"}, order : Orders, restaurant : Restaurants,
                   customer : Customers \cup {Null}]
SettleRequest  == [op : {"settle"}, order : Orders,
                   seen : [row : Customer, visits : [Restaurants -> Nat \cup {Null}],
                           points : Nat \cup {Null}, outlets : SUBSET Restaurants]]
ClaimRequest   == [op : {"referee", "invite"}, brand : Brands, phone : Phones, referrer : Customers]
RewardRequest  == [op : {"account", "open", "enter", "credit", "pick", "mint", "grant", "mark"},
                   brand : Brands, referrer : Customers, customer : Customers, meta : Metadata,
                   coupon : Coupons \cup {Null}]
ScoreRequest   == [op : {"score"}, left : SUBSET Customers,
                   meta : UNION {[known -> Metadata] : known \in SUBSET Customers}]
EditRequest    == [op : {"edit"}, customer : Customers, phone : Phones, meta : Metadata]
OfferRequest   == [op : {"template"}, brand : Brands, welcome : BOOLEAN]
                    \cup [op : {"remove"}, coupon : Coupons]
                    \cup [op : {"issue", "hand"}, customer : Customers, coupon : Coupons]
SegmentRequest == [op : {"found", "match"}, brand : Brands, left : SUBSET Segments]
                    \cup [op : {"dissolve"}, segment : Segments]
FillRequest    == [op : {"clear", "fill"}, brand : Brands, left : SUBSET Segments, segment : Segments,
                   found : SUBSET Customers, overtaken : BOOLEAN]
RateRequest    == [op : {"rate", "file"}, order : Orders, rating : Ratings, brand : Brands]
TicketRequest  == [op : {"ticket"}, order : Orders, status : Status]

Request == LinkRequest \cup RecodeRequest \cup PlaceRequest \cup SettleRequest
             \cup ClaimRequest \cup RewardRequest \cup ScoreRequest \cup EditRequest
             \cup OfferRequest \cup SegmentRequest \cup FillRequest
             \cup RateRequest \cup TicketRequest

ASSUME NullAssumption ==
  /\ Null \notin Brands \cup Customers \cup Coupons \cup Nat
  /\ Null \notin Customer \cup Order \cup Coupon \cup Ticket \cup Request
  /\ Deleted \notin Brands \cup Coupon \cup {Null}
ASSUME LimitsAssumption == MaxPoints \in Nat /\ MinOrders \in Nat \ {0} /\ Ratings \subseteq 1 .. 5
ASSUME IdsAssumption ==
  /\ Customers \cap Orders = {}
  /\ IsFiniteSet(Requests) /\ IsFiniteSet(Restaurants) /\ IsFiniteSet(Orders)
ASSUME WorkloadsAssumption ==
  \A w \in Workloads :
    /\ w.brands \in [Restaurants -> Brands \cup {Null}] /\ w.phones \subseteq Phones /\ w.sent \subseteq Metadata
    /\ w.regular # Null =>
         w.regular \in Phones /\ w.outlet \in Restaurants /\ w.brands[w.outlet] \in Brands

(* Seeded fault: any number of customers with one phone.                   *)
Anybody(b, p, g, k) == TRUE

(* @@unique([brandId, phone, crmGeneration]), but for customer k.          *)
PhoneFree(b, p, g, k) ==
  \A j \in Customers \ {k} : customer[j] # Null =>
    <<customer[j].brand, customer[j].phone, customer[j].generation>> # <<b, p, g>>

GuestsTypeOK ==
  /\ work \in Workloads
  /\ brand \in [Restaurants -> made \cup {Null}] /\ made \subseteq Brands
  /\ customer \in [Customers -> Customer \cup {Null}]
  /\ \A j, k \in Customers : j # k /\ customer[j] # Null /\ customer[k] # Null =>
       <<customer[j].brand, customer[j].phone, customer[j].generation>>
         # <<customer[k].brand, customer[k].phone, customer[k].generation>>
  /\ profile \in [Customers -> [Restaurants -> Nat \cup {Null}]]
  /\ order \in [Orders -> Order \cup {Null}]
  /\ balance \in [Customers -> Nat \cup {Null}]
  /\ ledger \in [Customers -> Nat]
  /\ coupon \in [Coupons -> Coupon \cup {Null, Deleted}]
  /\ issued \in [Customers -> [Coupons -> Nat]]
  /\ segment \in [Segments -> Brands \cup {Null, Deleted}]
  /\ members \in [Segments -> SUBSET Customers]
  /\ feedback \in [Orders -> Ratings \cup {Null}]
  /\ ticket \in [Orders -> Ticket \cup {Null}]
  /\ req \in [Requests -> Request \cup {Null}]

Guest(b, p, g) ==
  [brand |-> b, phone |-> p, generation |-> g, total |-> 0, meta |-> [NoMetadata EXCEPT !.code = TRUE]]

Nobody == [k \in Customers |-> Null]
Unseen == [k \in Customers |-> [r \in Restaurants |-> Null]]

(* There may be a regular of an outlet, whose orders are of another time.  *)
GuestsInit ==
  /\ work \in Workloads
  /\ brand = work.brands
  /\ made = {brand[r] : r \in Restaurants} \ {Null}
  /\ IF work.regular = Null THEN customer = Nobody /\ profile = Unseen
     ELSE \E k \in Customers :
            /\ customer = [Nobody EXCEPT ![k] = Guest(brand[work.outlet], work.regular, 2)]
            /\ profile = [Unseen EXCEPT ![k][work.outlet] = 0]
  /\ order = [o \in Orders |-> Null]
  /\ balance = [k \in Customers |-> Null]
  /\ ledger = [k \in Customers |-> 0]
  /\ coupon = [c \in Coupons |-> Null]
  /\ issued = [k \in Customers |-> [c \in Coupons |-> 0]]
  /\ segment = [g \in Segments |-> Null]
  /\ members = [g \in Segments |-> {}]
  /\ feedback = [o \in Orders |-> Null]
  /\ ticket = [o \in Orders |-> Null]
  /\ req = [s \in Requests |-> Null]

-----------------------------------------------------------------------------
(* Requests                                                                *)

Ask(s, operation, request) ==
  /\ operation \in work.asked
  /\ req[s] = Null
  /\ req' = [req EXCEPT ![s] = request]

Runs(s, op) == req[s] # Null /\ req[s].op = op
Then(s, op) == req' = [req EXCEPT ![s].op = op]
Finish(s)   == req' = [req EXCEPT ![s] = Null]

Abandon(s) ==
  /\ req[s] # Null
  /\ Finish(s)
  /\ UNCHANGED <<work, people, points, offers, groups, voices>>

-----------------------------------------------------------------------------
(* Checkout finds or creates the guest (linkOrCreateCustomer)              *)

Named(b, p, g) ==
  {k \in Customers : customer[k] # Null /\ customer[k].brand = b
                       /\ customer[k].phone = p /\ customer[k].generation = g}

AskLink(s) ==
  \E o \in Orders, r \in Restaurants, p \in work.phones :
    /\ order[o] = Null
    /\ \A t \in Requests : req[t] # Null /\ "order" \in DOMAIN req[t] => req[t].order # o
    /\ Ask(s, "link", [op |-> IF brand[r] = Null THEN "brand" ELSE "find", order |-> o,
                       restaurant |-> r, phone |-> p, brand |-> brand[r]])
    /\ UNCHANGED <<work, people, points, offers, groups, voices>>

CreateBrand(s) ==
  /\ Runs(s, "brand")
  /\ \E b \in Brands \ made :
       /\ made' = made \cup {b}
       /\ req' = [req EXCEPT ![s].op = "adopt", ![s].brand = b]
  /\ UNCHANGED <<work, brand, customer, profile, order, points, offers, groups, voices>>

AdoptBrand(s) ==
  /\ Runs(s, "adopt")
  /\ brand' = [brand EXCEPT ![req[s].restaurant] = req[s].brand]
  /\ Then(s, "find")
  /\ UNCHANGED <<work, made, customer, profile, order, points, offers, groups, voices>>

Linked(s, k) ==
  req' = [req EXCEPT ![s] = [op |-> "profile", order |-> req[s].order,
                             restaurant |-> req[s].restaurant, customer |-> k]]

Unlinked(s) ==
  req' = [req EXCEPT ![s] = [op |-> "place", order |-> req[s].order,
                             restaurant |-> req[s].restaurant, customer |-> Null]]

(* A guest without a referral code is given one, by writing back the       *)
(* metadata that was read.                                                 *)
FindCustomer(s) ==
  /\ Runs(s, "find")
  /\ LET found == Named(req[s].brand, req[s].phone, 2)
     IN  IF found = {} THEN Then(s, "create")
         ELSE \E k \in found :
                IF customer[k].meta.code THEN Linked(s, k)
                ELSE req' = [req EXCEPT ![s] = [op |-> "recode", order |-> req[s].order,
                               restaurant |-> req[s].restaurant, customer |-> k, meta |-> customer[k].meta]]
  /\ UNCHANGED <<work, people, points, offers, groups, voices>>

(* A guest created meanwhile makes the order one without a guest: the      *)
(* failure is logged, and the checkout goes on.                            *)
CreateCustomer(s) ==
  /\ Runs(s, "create")
  /\ \E k \in Customers :
       /\ customer[k] = Null
       /\ IF PhoneFree(req[s].brand, req[s].phone, 2, k)
            THEN /\ customer' = [customer EXCEPT ![k] = Guest(req[s].brand, req[s].phone, 2)]
                 /\ Linked(s, k)
            ELSE Unlinked(s) /\ UNCHANGED customer
  /\ UNCHANGED <<work, brand, made, profile, order, points, offers, groups, voices>>

Recode(s) ==
  /\ Runs(s, "recode")
  /\ customer' = [customer EXCEPT ![req[s].customer].meta = [req[s].meta EXCEPT !.code = TRUE]]
  /\ Linked(s, req[s].customer)
  /\ UNCHANGED <<work, brand, made, profile, order, points, offers, groups, voices>>

EnsureProfile(s) ==
  /\ Runs(s, "profile")
  /\ profile' = [profile EXCEPT ![req[s].customer][req[s].restaurant] = IF @ = Null THEN 0 ELSE @]
  /\ Then(s, "place")
  /\ UNCHANGED <<work, brand, made, customer, order, points, offers, groups, voices>>

PlaceOrder(s) ==
  /\ Runs(s, "place")
  /\ order' = [order EXCEPT ![req[s].order] =
       [restaurant |-> req[s].restaurant, customer |-> req[s].customer, paid |-> FALSE]]
  /\ Finish(s)
  /\ UNCHANGED <<work, brand, made, customer, profile, points, offers, groups, voices>>

-----------------------------------------------------------------------------
(* Payment refreshes the totals (payOrder, refreshPurchaseMetrics)         *)

Paid(k, r) == {o \in Orders : order[o] # Null /\ order[o].paid
                                /\ order[o].customer = k /\ order[o].restaurant = r}

Outlets(b) == {r \in Restaurants : brand[r] = b}

(* What the transaction reads and the rows that it writes.                 *)
Seen(o) ==
  LET k == order[o].customer
  IN  [row |-> customer[k], visits |-> profile[k], points |-> balance[k], outlets |-> Outlets(customer[k].brand)]

AskPay(s) ==
  \E o \in Orders :
    /\ order[o] # Null /\ order[o].customer # Null /\ ~order[o].paid
    /\ Ask(s, "pay", [op |-> "settle", order |-> o, seen |-> Seen(o)])
    /\ UNCHANGED <<work, people, points, offers, groups, voices>>

(* Seeded fault: the transaction is not serializable.                      *)
LastWriteWins(s) == TRUE

(* serializableTransaction: what was read is unchanged when it commits, or *)
(* the payment is tried again from the beginning.                          *)
Serialises(s) == req[s].seen = Seen(req[s].order)

(* The profile first, then the brand's totals from all its profiles, and   *)
(* the points of the amount, which may be none.                            *)
Settle(s) ==
  /\ Runs(s, "settle")
  /\ LET o == req[s].order  k == order[o].customer  r == order[o].restaurant  old == req[s].seen
         count == Cardinality(Paid(k, r)) + 1
         visits == [old.visits EXCEPT ![r] = count]
         inBrand == {x \in old.outlets : visits[x] # Null}
     IN  IF ~order[o].paid /\ Serialises(s)
           THEN \E earned \in {0, 1} :
                  /\ ledger[k] + earned <= MaxPoints
                  /\ order' = [order EXCEPT ![o].paid = TRUE]
                  /\ profile' = [profile EXCEPT ![k][r] = count]
                  /\ customer' = [customer EXCEPT ![k].total = SumFunction([x \in inBrand |-> visits[x]])]
                  /\ ledger' = [ledger EXCEPT ![k] = @ + earned]
                  /\ balance' = [balance EXCEPT ![k] = IF @ = Null THEN earned ELSE @ + earned]
           ELSE UNCHANGED <<order, profile, customer, points>>
  /\ Finish(s)
  /\ UNCHANGED <<work, brand, made, offers, groups, voices>>

-----------------------------------------------------------------------------
(* Referral claims (claimReferral)                                         *)

(* The customer whose code it is, of any generation.                       *)
AskClaim(s) ==
  \E r \in Restaurants, p \in work.phones, k \in Customers :
    /\ brand[r] # Null
    /\ customer[k] # Null /\ customer[k].brand = brand[r] /\ customer[k].meta.code
    /\ Ask(s, "claim", [op |-> "referee", brand |-> brand[r], phone |-> p, referrer |-> k])
    /\ UNCHANGED <<work, people, points, offers, groups, voices>>

Claiming(s, op, k, meta) ==
  req' = [req EXCEPT ![s] = [op |-> op, brand |-> req[s].brand, referrer |-> req[s].referrer,
                             customer |-> k, meta |-> meta, coupon |-> Null]]

(* Any customer with the phone; one that has claimed, or is the referrer,  *)
(* ends the claim.                                                         *)
FindReferee(s) ==
  /\ Runs(s, "referee")
  /\ LET found == Named(req[s].brand, req[s].phone, 1) \cup Named(req[s].brand, req[s].phone, 2)
     IN  IF found = {} THEN Then(s, "invite")
         ELSE \E k \in found :
                IF customer[k].meta.claimed \/ k = req[s].referrer
                  THEN Finish(s) ELSE Claiming(s, "account", k, customer[k].meta)
  /\ UNCHANGED <<work, people, points, offers, groups, voices>>

Invite(s) ==
  /\ Runs(s, "invite")
  /\ \E k \in Customers :
       /\ customer[k] = Null
       /\ IF PhoneFree(req[s].brand, req[s].phone, 1, k)
            THEN /\ customer' = [customer EXCEPT ![k] = Guest(req[s].brand, req[s].phone, 1)]
                 /\ Claiming(s, "account", k, customer'[k].meta)
            ELSE Finish(s) /\ UNCHANGED customer
  /\ UNCHANGED <<work, brand, made, profile, order, points, offers, groups, voices>>

FindAccount(s) ==
  /\ Runs(s, "account")
  /\ Then(s, IF balance[req[s].referrer] = Null THEN "open" ELSE "enter")
  /\ UNCHANGED <<work, people, points, offers, groups, voices>>

(* customerId is unique among the accounts.                                *)
OpenAccount(s) ==
  /\ Runs(s, "open")
  /\ IF balance[req[s].referrer] = Null
       THEN balance' = [balance EXCEPT ![req[s].referrer] = 0] /\ Then(s, "enter")
       ELSE Finish(s) /\ UNCHANGED balance
  /\ UNCHANGED <<work, people, ledger, offers, groups, voices>>

(* adjustPointsBalance: the entry, then the balance.                       *)
EnterPoints(s) ==
  /\ Runs(s, "enter")
  /\ ledger[req[s].referrer] < MaxPoints
  /\ ledger' = [ledger EXCEPT ![req[s].referrer] = @ + 1]
  /\ Then(s, "credit")
  /\ UNCHANGED <<work, people, balance, offers, groups, voices>>

CreditPoints(s) ==
  /\ Runs(s, "credit")
  /\ balance' = [balance EXCEPT ![req[s].referrer] = @ + 1]
  /\ Then(s, "pick")
  /\ UNCHANGED <<work, people, ledger, offers, groups, voices>>

CouponsOf(b, welcome, generations) ==
  {c \in Coupons : There(coupon[c]) /\ coupon[c].brand = b /\ coupon[c].welcome = welcome
                     /\ coupon[c].generation \in generations}

FindWelcome(s) ==
  /\ Runs(s, "pick")
  /\ LET found == CouponsOf(req[s].brand, TRUE, {1, 2})
     IN  IF found = {} THEN Then(s, "mint")
         ELSE \E c \in found : req' = [req EXCEPT ![s].op = "grant", ![s].coupon = c]
  /\ UNCHANGED <<work, people, points, offers, groups, voices>>

(* A code is unique in a brand and generation.                             *)
MintWelcome(s) ==
  /\ Runs(s, "mint")
  /\ IF CouponsOf(req[s].brand, TRUE, {1}) = {}
       THEN \E c \in Coupons :
              /\ coupon[c] = Null
              /\ coupon' = [coupon EXCEPT ![c] = [brand |-> req[s].brand, welcome |-> TRUE, generation |-> 1]]
              /\ req' = [req EXCEPT ![s].op = "grant", ![s].coupon = c]
       ELSE Finish(s) /\ UNCHANGED coupon
  /\ UNCHANGED <<work, people, points, issued, groups, voices>>

GrantCoupon(s) ==
  /\ Runs(s, "grant")
  /\ LET c == req[s].coupon  k == req[s].customer
     IN  IF There(coupon[c])
           THEN /\ issued' = [issued EXCEPT ![k][c] = @ + 1]
                /\ Then(s, "mark")
           ELSE Finish(s) /\ UNCHANGED issued
  /\ UNCHANGED <<work, people, points, coupon, groups, voices>>

(* The metadata that was read is written back with the mark.  The          *)
(* notification that follows names the brand where a restaurant belongs and*)
(* is refused: the guest is told of a failure.                             *)
MarkClaimed(s) ==
  /\ Runs(s, "mark")
  /\ customer' = [customer EXCEPT ![req[s].customer].meta = [req[s].meta EXCEPT !.claimed = TRUE]]
  /\ Finish(s)
  /\ UNCHANGED <<work, brand, made, profile, order, points, offers, groups, voices>>

-----------------------------------------------------------------------------
(* Metadata rewritten by RFM scoring and by staff                          *)

Scored(b) == {k \in Customers : customer[k] # Null /\ customer[k].brand = b}

(* Scores are computed when staff look at them.                            *)
AskScores(s) ==
  \E r \in Restaurants :
    /\ brand[r] # Null /\ Scored(brand[r]) # {}
    /\ Ask(s, "score", [op |-> "score", left |-> Scored(brand[r]),
                        meta |-> [k \in Scored(brand[r]) |-> customer[k].meta]])
    /\ UNCHANGED <<work, people, points, offers, groups, voices>>

WriteScore(s) ==
  /\ Runs(s, "score")
  /\ \E k \in req[s].left :
       /\ customer' = [customer EXCEPT ![k].meta = req[s].meta[k]]
       /\ IF req[s].left = {k} THEN Finish(s)
          ELSE req' = [req EXCEPT ![s].left = @ \ {k}]
  /\ UNCHANGED <<work, brand, made, profile, order, points, offers, groups, voices>>

(* updateCustomer: staff may correct the phone, and may send any JSON for  *)
(* metadata, a mark without a claim too.  What is not sent stays as it is  *)
(* when the row is written, which is one of the values that might be sent. *)
AskEdit(s) ==
  \E k \in Customers, p \in work.phones :
    /\ customer[k] # Null /\ customer[k].generation = 2
    /\ Outlets(customer[k].brand) # {}
    /\ \E meta \in work.sent :
         Ask(s, "edit", [op |-> "edit", customer |-> k, phone |-> p, meta |-> meta])
    /\ UNCHANGED <<work, people, points, offers, groups, voices>>

EditCustomer(s) ==
  /\ Runs(s, "edit")
  /\ LET k == req[s].customer
     IN  customer' = IF PhoneFree(customer[k].brand, req[s].phone, 2, k)
                       THEN [customer EXCEPT ![k] = [@ EXCEPT !.phone = req[s].phone, !.meta = req[s].meta]]
                       ELSE customer
  /\ Finish(s)
  /\ UNCHANGED <<work, brand, made, profile, order, points, offers, groups, voices>>

-----------------------------------------------------------------------------
(* Coupons of staff                                                        *)

(* createCoupon: any code, WELCOME50 too.                                  *)
AskCoupon(s) ==
  \E r \in Restaurants, welcome \in BOOLEAN :
    /\ brand[r] # Null
    /\ CouponsOf(brand[r], welcome, {2}) = {}
    /\ Ask(s, "coupon", [op |-> "template", brand |-> brand[r], welcome |-> welcome])
    /\ UNCHANGED <<work, people, points, offers, groups, voices>>

CreateCoupon(s) ==
  /\ Runs(s, "template")
  /\ \E c \in Coupons :
       /\ coupon[c] = Null
       /\ coupon' = IF CouponsOf(req[s].brand, req[s].welcome, {2}) = {}
                      THEN [coupon EXCEPT ![c] = [brand |-> req[s].brand, welcome |-> req[s].welcome,
                                                  generation |-> 2]]
                      ELSE coupon
  /\ Finish(s)
  /\ UNCHANGED <<work, people, points, issued, groups, voices>>

AskRemoval(s) ==
  \E c \in Coupons :
    /\ There(coupon[c]) /\ coupon[c].generation = 2
    /\ Outlets(coupon[c].brand) # {}
    /\ Ask(s, "coupon", [op |-> "remove", coupon |-> c])
    /\ UNCHANGED <<work, people, points, offers, groups, voices>>

(* The issuances go with it.                                               *)
DeleteCoupon(s) ==
  /\ Runs(s, "remove")
  /\ coupon' = [coupon EXCEPT ![req[s].coupon] = Deleted]
  /\ issued' = [k \in Customers |-> [issued[k] EXCEPT ![req[s].coupon] = 0]]
  /\ Finish(s)
  /\ UNCHANGED <<work, people, points, groups, voices>>

(* Seeded fault: any customer.                                             *)
AnyBusiness(k, c) == TRUE

(* "Customer and coupon do not belong to the same business"                *)
SameBusiness(k, c) == customer[k].brand = coupon[c].brand

(* The coupon is looked up in the brand of the staff.                      *)
AskIssue(s) ==
  \E k \in Customers, c \in Coupons :
    /\ There(coupon[c]) /\ coupon[c].generation = 2
    /\ Outlets(coupon[c].brand) # {}
    /\ Ask(s, "issue", [op |-> "issue", customer |-> k, coupon |-> c])
    /\ UNCHANGED <<work, people, points, offers, groups, voices>>

(* A customer who holds the coupon keeps that one.                         *)
CheckIssue(s) ==
  /\ Runs(s, "issue")
  /\ LET k == req[s].customer  c == req[s].coupon
     IN  IF /\ There(coupon[c])
            /\ customer[k] # Null /\ customer[k].generation = 2 /\ SameBusiness(k, c)
            /\ issued[k][c] = 0
           THEN Then(s, "hand") ELSE Finish(s)
  /\ UNCHANGED <<work, people, points, offers, groups, voices>>

IssueCoupon(s) ==
  /\ Runs(s, "hand")
  /\ issued' = IF ~There(coupon[req[s].coupon]) THEN issued
               ELSE [issued EXCEPT ![req[s].customer][req[s].coupon] = @ + 1]
  /\ Finish(s)
  /\ UNCHANGED <<work, people, points, coupon, groups, voices>>

-----------------------------------------------------------------------------
(* Segments                                                                *)

SegmentsOf(b) == {g \in Segments : segment[g] = b}

(* One per name, which is not used again.                                  *)
AskSegment(s) ==
  \E r \in Restaurants, g \in Segments :
    /\ brand[r] # Null
    /\ segment[g] = Null
    /\ Ask(s, "segment", [op |-> "found", brand |-> brand[r], left |-> {g}])
    /\ UNCHANGED <<work, people, points, offers, groups, voices>>

CreateSegment(s) ==
  /\ Runs(s, "found")
  /\ IF \A g \in req[s].left : segment[g] = Null
       THEN /\ segment' = [g \in Segments |-> IF g \in req[s].left THEN req[s].brand ELSE segment[g]]
            /\ Then(s, "match")
       ELSE Finish(s) /\ UNCHANGED segment
  /\ UNCHANGED <<work, people, points, offers, members, voices>>

AskDissolve(s) ==
  \E g \in Segments :
    /\ There(segment[g]) /\ Outlets(segment[g]) # {}
    /\ Ask(s, "segment", [op |-> "dissolve", segment |-> g])
    /\ UNCHANGED <<work, people, points, offers, groups, voices>>

DeleteSegment(s) ==
  /\ Runs(s, "dissolve")
  /\ segment' = [segment EXCEPT ![req[s].segment] = Deleted]
  /\ members' = [members EXCEPT ![req[s].segment] = {}]
  /\ Finish(s)
  /\ UNCHANGED <<work, people, points, offers, voices>>

(* Staff ask for one segment.                                              *)
AskRetrace(s) ==
  \E g \in Segments :
    /\ There(segment[g]) /\ Outlets(segment[g]) # {}
    /\ Ask(s, "segment", [op |-> "match", brand |-> segment[g], left |-> {g}])
    /\ UNCHANGED <<work, people, points, offers, groups, voices>>

(* The scheduler evaluates all of a brand, whatever becomes of one of them.*)
AskEvaluateAll(s) ==
  \E b \in made :
    /\ SegmentsOf(b) # {}
    /\ Ask(s, "segment", [op |-> "match", brand |-> b, left |-> SegmentsOf(b)])
    /\ UNCHANGED <<work, people, points, offers, groups, voices>>

Matching(b) ==
  {k \in Customers : customer[k] # Null /\ customer[k].brand = b /\ customer[k].generation = 2
                       /\ customer[k].total >= MinOrders}

NextSegment(s, left) ==
  IF left = {} THEN Null ELSE [op |-> "match", brand |-> req[s].brand, left |-> left]

(* evaluateSegment: the members are read before the transaction that       *)
(* replaces them begins.                                                   *)
MatchSegment(s) ==
  /\ Runs(s, "match")
  /\ \E g \in req[s].left :
       req' = [req EXCEPT ![s] =
         IF segment[g] = req[s].brand
           THEN [op |-> "clear", brand |-> req[s].brand, left |-> req[s].left, segment |-> g,
                 found |-> Matching(segment[g]), overtaken |-> FALSE]
           ELSE NextSegment(s, req[s].left \ {g})]
  /\ UNCHANGED <<work, people, points, offers, groups, voices>>

ClearMembers(s) ==
  /\ Runs(s, "clear")
  /\ Then(s, "fill")
  /\ UNCHANGED <<work, people, points, offers, groups, voices>>

(* The commit.  What another evaluation has inserted since the delete stays*)
(* (waiting for its row locks does not change that): a member it has too is*)
(* a duplicate, which undoes this one; so does a segment deleted meanwhile.*)
FillMembers(s) ==
  /\ Runs(s, "fill")
  /\ LET g == req[s].segment
         stays == IF req[s].overtaken THEN members[g] ELSE {}
         works == stays \cap req[s].found = {} /\ (req[s].found = {} \/ There(segment[g]))
     IN  /\ members' = IF works THEN [members EXCEPT ![g] = stays \cup req[s].found] ELSE members
         /\ req' = [t \in Requests |->
              IF t = s THEN NextSegment(s, req[s].left \ {g})
              ELSE IF works /\ Runs(t, "fill") /\ req[t].segment = g
                THEN [req[t] EXCEPT !.overtaken = TRUE] ELSE req[t]]
  /\ UNCHANGED <<work, people, points, offers, segment, voices>>

-----------------------------------------------------------------------------
(* Feedback                                                                *)

(* The order, its guest and its restaurant are of one business.            *)
Rateable(o) ==
  /\ order[o] # Null /\ order[o].customer # Null
  /\ brand[order[o].restaurant] # Null
  /\ customer[order[o].customer].brand = brand[order[o].restaurant]

AskFeedback(s) ==
  \E o \in Orders, rating \in Ratings :
    /\ Rateable(o)
    /\ Ask(s, "feedback", [op |-> "rate", order |-> o, rating |-> rating,
                           brand |-> brand[order[o].restaurant]])
    /\ UNCHANGED <<work, people, points, offers, groups, voices>>

(* "Auto-create ticket if rating is poor (1 or 2 stars)"                   *)
Poor(rating) == rating <= 2

(* orderId is unique among the feedback.                                   *)
RateOrder(s) ==
  /\ Runs(s, "rate")
  /\ IF feedback[req[s].order] = Null
       THEN /\ feedback' = [feedback EXCEPT ![req[s].order] = req[s].rating]
            /\ IF Poor(req[s].rating) THEN Then(s, "file") ELSE Finish(s)
       ELSE Finish(s) /\ UNCHANGED feedback
  /\ UNCHANGED <<work, people, points, offers, groups, ticket>>

(* The notification that follows changes nothing here.                     *)
FileTicket(s) ==
  /\ Runs(s, "file")
  /\ ticket' = [ticket EXCEPT ![req[s].order] = [brand |-> req[s].brand, status |-> "OPEN"]]
  /\ Finish(s)
  /\ UNCHANGED <<work, people, points, offers, groups, feedback>>

AskTicket(s) ==
  \E o \in Orders, status \in Status :
    /\ ticket[o] # Null /\ Outlets(ticket[o].brand) # {}
    /\ Ask(s, "feedback", [op |-> "ticket", order |-> o, status |-> status])
    /\ UNCHANGED <<work, people, points, offers, groups, voices>>

(* Any status follows any other.  The assignee is left out.                *)
UpdateTicket(s) ==
  /\ Runs(s, "ticket")
  /\ ticket' = [ticket EXCEPT ![req[s].order].status = req[s].status]
  /\ Finish(s)
  /\ UNCHANGED <<work, people, points, offers, groups, feedback>>

-----------------------------------------------------------------------------

GuestsNext == \E s \in Requests :
  \/ AskLink(s) \/ CreateBrand(s) \/ AdoptBrand(s) \/ FindCustomer(s) \/ CreateCustomer(s)
  \/ Recode(s) \/ EnsureProfile(s) \/ PlaceOrder(s)
  \/ AskPay(s) \/ Settle(s)
  \/ AskClaim(s) \/ FindReferee(s) \/ Invite(s) \/ FindAccount(s) \/ OpenAccount(s) \/ EnterPoints(s)
  \/ CreditPoints(s) \/ FindWelcome(s) \/ MintWelcome(s) \/ GrantCoupon(s) \/ MarkClaimed(s)
  \/ AskScores(s) \/ WriteScore(s) \/ AskEdit(s) \/ EditCustomer(s)
  \/ AskCoupon(s) \/ CreateCoupon(s) \/ AskRemoval(s) \/ DeleteCoupon(s)
  \/ AskIssue(s) \/ CheckIssue(s) \/ IssueCoupon(s)
  \/ AskSegment(s) \/ CreateSegment(s) \/ AskDissolve(s) \/ DeleteSegment(s)
  \/ AskRetrace(s) \/ AskEvaluateAll(s) \/ MatchSegment(s) \/ ClearMembers(s) \/ FillMembers(s)
  \/ AskFeedback(s) \/ RateOrder(s) \/ FileTicket(s)
  \/ AskTicket(s) \/ UpdateTicket(s)
  \/ Abandon(s)

GuestsSpec == GuestsInit /\ [][GuestsNext]_guestsVars

-----------------------------------------------------------------------------
(* Correctness                                                             *)

AllVisits(k) == {visit \in Restaurants \X Orders : visit[2] \in Paid(k, visit[1])}

(* A profile counts the paid orders of its guest; a brand's total is that  *)
(* of the guest's profiles, unless a restaurant he paid at has another     *)
(* brand by now, and never more; and whom a segment lists has ordered that *)
(* often (profiler.service.ts:8: simultaneous paid orders).                *)
TotalsAgree ==
  /\ \A k \in Customers, r \in Restaurants :
       profile[k][r] # Null => profile[k][r] = Cardinality(Paid(k, r))
  /\ \A k \in Customers : customer[k] # Null =>
       /\ customer[k].total <= Cardinality(AllVisits(k))
       /\ (\A r \in Restaurants : Paid(k, r) # {} => brand[r] = customer[k].brand)
            => customer[k].total = Cardinality(AllVisits(k))
  /\ \A g \in Segments : \A k \in members[g] : Cardinality(AllVisits(k)) >= MinOrders

(* Claims that have entered a referrer's points and not yet credited them, *)
(* feedback whose ticket is still to be filed.                             *)
Crediting(k) == {s \in Requests : Runs(s, "credit") /\ req[s].referrer = k}
Filing(o)    == {s \in Requests : Runs(s, "file") /\ req[s].order = o}

(* Wherever claims and feedback die: nobody has points that the ledger does*)
(* not show, beside those on their way; a rating has at most one ticket,   *)
(* filed or under way, and only a poor one has any; and what a guest holds *)
(* or belongs to is there and of his own business                          *)
(* (loyalty.service.ts adjustPointsBalance, feedback.service.ts:48,        *)
(* coupon.service.ts issueCoupon, segment.service.ts evaluateSegment).     *)
(* Not that they come to what they should: a claim that dies keeps points  *)
(* from a referrer, feedback that dies has no ticket, and of two claims at *)
(* once, which both read that there was none (referral.service.ts:55), both*)
(* are rewarded.                                                           *)
RewardsAreBacked ==
  /\ \A k \in Customers :
       ledger[k] >= (IF balance[k] = Null THEN 0 ELSE balance[k]) + Cardinality(Crediting(k))
  /\ \A o \in Orders :
       (IF ticket[o] = Null THEN 0 ELSE 1) + Cardinality(Filing(o))
         <= IF feedback[o] # Null /\ feedback[o] <= 2 THEN 1 ELSE 0
  /\ \A k \in Customers, c \in Coupons : issued[k][c] > 0 =>
       There(coupon[c]) /\ customer[k].brand = coupon[c].brand
  /\ \A g \in Segments : \A k \in members[g] : customer[k].brand = segment[g]
===============================================================================
