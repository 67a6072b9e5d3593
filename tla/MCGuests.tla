-------------------------------- MODULE MCGuests --------------------------------
(* Small instances of Guests for TLC.                                      *)
EXTENDS Guests, TLC

CONSTANTS r1, r2, b1, b2, p1, p2

At(b, c) == [r \in {r1, r2} |-> IF r = r1 THEN b ELSE c]

Work(asked, brands, phones, sent, regular) ==
  [asked |-> asked, brands |-> brands, phones |-> phones, sent |-> sent, regular |-> regular, outlet |-> r1]

(* With checkouts, which read only the code; the mark matters to claims:    *)
(* set by hand without one, or dropped with all there is.                   *)
Codes == {meta \in Metadata : ~meta.claimed}
Marks == {[code |-> TRUE, claimed |-> TRUE], NoMetadata}

Checkout == Work({"link", "pay"}, At(Null, b1), {p1, p2}, {}, Null)
Chain    == Work({"link", "pay", "segment"}, At(b1, b1), {p1}, {}, Null)
Referral == Work({"claim", "score"}, At(b1, b1), {p1, p2}, {}, p1)
Edits    == Work({"link", "edit"}, At(b1, b1), {p1, p2}, Codes, p1)
Claims   == Work({"claim", "edit"}, At(b1, b1), {p1, p2}, Marks, p1)
Offers   == Work({"link", "coupon", "issue"}, At(b1, b2), {p1}, {}, p1)
Welcome  == Work({"claim", "coupon"}, At(b1, b1), {p1, p2}, {}, p1)
Voices   == Work({"link", "feedback"}, At(Null, b1), {p1}, {}, Null)
AllWorkloads == {Checkout, Chain, Referral, Edits, Claims, Offers, Welcome, Voices}

Symmetry == Permutations(Customers) \cup Permutations(Requests) \cup Permutations(Orders)
              \cup Permutations(Coupons) \cup Permutations(Segments)
================================================================================
