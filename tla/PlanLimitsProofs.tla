--------------------------- MODULE PlanLimitsProofs ---------------------------
(***************************************************************************)
(* Proofs about Licences and PlanLimits for every value of their constants.*)
(*                                                                         *)
(* A limit is read before what it limits is written, so each bound is one  *)
(* on what is there and what is on the way together: UsesCounted adds to a *)
(* code's uses the redemptions in flight, TablesCounted and ItemsCounted to*)
(* the tables and items of a restaurant the requests to create one.        *)
(***************************************************************************)
EXTENDS PlanLimits, FiniteSetTheorems, TLAPS

(* What a request has read, as far as its commit relies on it.             *)
Fits(r) ==
  /\ r.op = "generate" => r.plan \in Plans /\ r.days \in Days
  /\ r.op = "deletePlan" => r.plan \in Plans
  /\ r.op = "deleteCode" => r.code \in Codes
  /\ r.op \in {"ask", "update", "redeem"} => r.of \in Restaurants /\ r.plan \in Plans
  /\ r.op = "redeem" => r.code \in Codes /\ (r.sub # None => r.row \in Sub)

Redeeming(c) == {s \in Sessions : Runs(s, "redeem") /\ req[s].code = c}

UsesCounted ==
  \A c \in Codes :
    /\ code[c] = None => log[c] = <<>>
    /\ code[c] # None =>
         /\ code[c].count = Len(log[c])
         /\ code[c].count + Cardinality(Redeeming(c)) < code[c].limit + Cardinality(Sessions)

LicenceInv ==
  /\ TypeOK
  /\ \A s \in Sessions : req[s] # None => Fits(req[s])
  /\ UsesCounted

-----------------------------------------------------------------------------
(* Types                                                                   *)

LEMMA TypeInit == Init => TypeOK
<1>1. <<>> \in Seq([of : Restaurants, until : Nat])
  OBVIOUS
<1> QED
  BY <1>1, NumbersAssumption DEF Init, TypeOK

(* One request has read, or is done; nothing else has changed.             *)
LEMMA AskTypes ==
  ASSUME TypeOK, NEW s \in Sessions, NEW r \in Request, Ask(s, r)
  PROVE  TypeOK'
BY DEF TypeOK, Ask

LEMMA SubKept ==
  ASSUME NEW x \in Sub
  PROVE  x.plan \in Plans /\ x.of \in Restaurants /\ x.status \in SubStatuses /\ x.end \in Nat
BY DEF Sub

LEMMA CreateEffect ==
  ASSUME TypeOK, NEW of \in Restaurants, NEW p \in Plans, NEW status \in SubStatuses,
         NEW end \in Nat, Create(of, p, status, end)
  PROVE  /\ sub' \in [Subs -> Sub \cup {None}]
         /\ \A x \in Subs : sub'[x] # None => plan[sub'[x].plan] # "absent"
<1> DEFINE row == [of |-> of, plan |-> p, status |-> status, end |-> end]
<1>1. PICK x \in Subs : Planned(p) /\ sub' = [sub EXCEPT ![x] = row]
  BY DEF Create
<1>2. row \in Sub /\ row.plan = p
  BY DEF Sub
<1> HIDE DEF row
<1>3. sub'[x] = row /\ \A y \in Subs \ {x} : sub'[y] = sub[y]
  BY <1>1 DEF TypeOK
<1>4. sub' \in [Subs -> Sub \cup {None}]
  BY <1>1, <1>2 DEF TypeOK
<1> QED
  BY <1>1, <1>2, <1>3, <1>4 DEF TypeOK, Planned

LEMMA DropCodesEffect ==
  ASSUME TypeOK, NEW gone, DropCodes(gone)
  PROVE  /\ code' \in [Codes -> Code \cup {None}]
         /\ log' \in [Codes -> Seq([of : Restaurants, until : Nat])]
         /\ \A c \in Codes : IF c \in gone THEN code'[c] = None /\ log'[c] = <<>>
                             ELSE code'[c] = code[c] /\ log'[c] = log[c]
<1>1. <<>> \in Seq([of : Restaurants, until : Nat])
  OBVIOUS
<1> QED
  BY <1>1 DEF DropCodes, TypeOK

LEMMA DropPlanEffect ==
  ASSUME TypeOK, NEW p \in Plans, DropPlan(p)
  PROVE  /\ plan' \in [Plans -> {"absent", "active", "inactive"}]
         /\ sub' \in [Subs -> Sub \cup {None}]
         /\ \A x \in Subs : sub'[x] # None => plan'[sub'[x].plan] # "absent"
         /\ \A c \in Codes : code'[c] # None => plan'[code'[c].plan] # "absent"
<1>1. plan' \in [Plans -> {"absent", "active", "inactive"}] /\ sub' \in [Subs -> Sub \cup {None}]
  BY DEF DropPlan, TypeOK
<1>2. \A q \in Plans \ {p} : plan'[q] = plan[q]
  BY DEF DropPlan, TypeOK
<1>3. \A x \in Subs : sub'[x] # None => sub'[x] = sub[x] /\ sub[x] \in Sub /\ sub[x].plan # p
  BY DEF DropPlan, TypeOK
<1>4. \A c \in Codes : code'[c] # None => code'[c] = code[c] /\ code[c] \in Code /\ code[c].plan # p
  <2> SUFFICES ASSUME NEW c \in Codes, code'[c] # None
               PROVE  code'[c] = code[c] /\ code[c] \in Code /\ code[c].plan # p
    OBVIOUS
  <2> PICK gone : gone = CodesOf(p)
    OBVIOUS
  <2>1. c \notin gone /\ code'[c] = code[c]
    BY DropCodesEffect DEF DropPlan
  <2>2. code[c] \in Code
    BY <2>1 DEF TypeOK
  <2> QED
    BY <2>1, <2>2 DEF CodesOf
<1>5. \A x \in Subs : sub'[x] # None => plan'[sub'[x].plan] # "absent"
  BY <1>2, <1>3, SubKept DEF TypeOK
<1>6. \A c \in Codes : code'[c] # None => plan'[code'[c].plan] # "absent"
  BY <1>2, <1>4 DEF TypeOK, Code
<1> QED
  BY <1>1, <1>5, <1>6

(* The end a redemption grants, and the subscriptions it leaves.           *)
LEMMA UntilIsTime ==
  ASSUME NEW r \in Request, r.op = "redeem", Fits(r)
  PROVE  Until(r) \in Nat
<1>1. r.days \in Nat /\ r.at \in Nat
  <2>1. r.days \in Days \cup {0} /\ r.at \in Nat
    BY DEF Request
  <2>2. \A d \in Days : d \in Nat
    BY NumbersAssumption
  <2> QED
    BY <2>1, <2>2
<1>2. Extends(r) => r.row \in Sub
  BY DEF Fits, Extends
<1> QED
  BY <1>1, <1>2, SubKept DEF Until

LEMMA GrantEffect ==
  ASSUME TypeOK, NEW r \in Request, r.op = "redeem", Fits(r), Grant(r)
  PROVE  /\ sub' \in [Subs -> Sub \cup {None}]
         /\ \A x \in Subs : sub'[x] # None => plan[sub'[x].plan] # "absent"
<1>0. Until(r) \in Nat /\ r.of \in Restaurants /\ r.plan \in Plans
  BY UntilIsTime DEF Fits
<1>1. CASE Extends(r)
  <2>1. r.sub \in Subs /\ sub[r.sub] \in Sub
    <3>1. r.sub # None /\ sub[r.sub] # None
      BY <1>1 DEF Grant, Extends
    <3>2. r.sub \in Subs \cup {None}
      BY DEF Request
    <3> QED
      BY <3>1, <3>2 DEF TypeOK
  <2>2. PICK row : row = [sub[r.sub] EXCEPT !.end = Until(r)]
    OBVIOUS
  <2>3. row \in Sub /\ row.plan = sub[r.sub].plan
    BY <1>0, <2>1, <2>2 DEF Sub
  <2>4. sub' = [sub EXCEPT ![r.sub] = row]
    BY <1>1, <2>2 DEF Grant
  <2>5. sub' \in [Subs -> Sub \cup {None}] /\ sub'[r.sub] = row
        /\ \A x \in Subs \ {r.sub} : sub'[x] = sub[x]
    BY <2>1, <2>3, <2>4 DEF TypeOK
  <2>6. \A x \in Subs : sub'[x] # None => plan[sub'[x].plan] # "absent"
    BY <2>1, <2>3, <2>5, NoneIsNoRow DEF TypeOK
  <2> QED
    BY <2>5, <2>6
<1>2. CASE ~Extends(r)
  <2> DEFINE row == [of |-> r.of, plan |-> r.plan, status |-> "ACTIVE", end |-> Until(r)]
             over(y) == IF r.sub # None /\ sub[y] # None /\ sub[y].of = r.of /\ sub[y].status = "ACTIVE"
                          THEN [sub[y] EXCEPT !.status = "CANCELLED"] ELSE sub[y]
  <2>1. PICK x \in Subs : /\ sub[x] = None /\ Planned(r.plan)
                          /\ sub' = [y \in Subs |-> IF y = x THEN row ELSE over(y)]
    BY <1>2 DEF Grant
  <2>2. row \in Sub /\ row.plan = r.plan
    BY <1>0 DEF Sub, SubStatuses
  <2>3. ASSUME NEW y \in Subs
        PROVE  over(y) \in Sub \cup {None}
               /\ (over(y) # None => sub[y] # None /\ over(y).plan = sub[y].plan)
    <3>1. CASE sub[y] = None
      BY <3>1
    <3>2. CASE sub[y] # None
      <4>1. sub[y] \in Sub
        BY <3>2 DEF TypeOK
      <4>2. [sub[y] EXCEPT !.status = "CANCELLED"] \in Sub
            /\ [sub[y] EXCEPT !.status = "CANCELLED"].plan = sub[y].plan
        BY <4>1 DEF Sub, SubStatuses
      <4> QED
        BY <3>2, <4>1, <4>2
    <3> QED
      BY <3>1, <3>2
  <2> HIDE DEF row, over
  <2>4. sub' \in [Subs -> Sub \cup {None}]
    BY <2>1, <2>2, <2>3
  <2>5. \A y \in Subs : sub'[y] # None => plan[sub'[y].plan] # "absent"
    BY <2>1, <2>2, <2>3 DEF TypeOK, Planned
  <2> QED
    BY <2>4, <2>5
<1> QED
  BY <1>1, <1>2

LEMMA AppendEffect ==
  ASSUME NEW S, NEW q \in Seq(S), NEW e \in S
  PROVE  Append(q, e) \in Seq(S) /\ Len(Append(q, e)) = Len(q) + 1 /\ Len(q) \in Nat
OBVIOUS

(* What CommitRedeem changes, for the request r of s.                      *)
LEMMA RedeemEffect ==
  ASSUME LicenceInv, NEW s \in Sessions, CommitRedeem(s), NEW r, r = req[s]
  PROVE  /\ r \in Request /\ Fits(r) /\ r.op = "redeem" /\ r.code \in Codes
         /\ code[r.code] \in Code /\ Grant(r)
         /\ code' = [code EXCEPT ![r.code] = [code[r.code] EXCEPT !.count = @ + 1]]
         /\ log' = [log EXCEPT ![r.code] = Append(log[r.code], [of |-> r.of, until |-> Until(r)])]
<1>1. r # None /\ r.op = "redeem"
  BY DEF CommitRedeem, Runs
<1>2. r \in Request /\ Fits(r)
  BY <1>1 DEF LicenceInv, TypeOK
<1>3. r.code \in Codes
  BY <1>1, <1>2 DEF Fits
<1>4. code[r.code] # None /\ Grant(r)
  BY DEF CommitRedeem
<1>5. code[r.code] \in Code
  BY <1>3, <1>4 DEF LicenceInv, TypeOK
<1>6. code' = [code EXCEPT ![r.code] = [code[r.code] EXCEPT !.count = @ + 1]]
  <2>1. code' = [code EXCEPT ![r.code].count = code[r.code].count + 1]
    BY DEF CommitRedeem, Counted
  <2> QED
    BY <2>1
<1>7. log' = [log EXCEPT ![r.code] = Append(log[r.code], [of |-> r.of, until |-> Until(r)])]
  BY DEF CommitRedeem
<1> QED
  BY <1>1, <1>2, <1>3, <1>4, <1>5, <1>6, <1>7

LEMMA CountedUse ==
  ASSUME NEW k \in Code
  PROVE  /\ [k EXCEPT !.count = @ + 1] \in Code
         /\ [k EXCEPT !.count = @ + 1].plan = k.plan
         /\ [k EXCEPT !.count = @ + 1].limit = k.limit
         /\ [k EXCEPT !.count = @ + 1].count = k.count + 1
BY DEF Code

LEMMA TypeNext == ASSUME LicenceInv, [Next]_vars PROVE TypeOK'
<1> USE DEF LicenceInv
<1>0. \A s \in Sessions : req[s] # None => req[s] \in Request /\ Fits(req[s])
  BY DEF TypeOK
<1>1. ASSUME NEW p \in Plans, CreatePlan(p) \/ UpdatePlan(p) PROVE TypeOK'
  <2>1. plan' \in [Plans -> {"absent", "active", "inactive"}]
        /\ \A q \in Plans : plan[q] # "absent" => plan'[q] # "absent"
    BY <1>1 DEF CreatePlan, UpdatePlan, TypeOK
  <2>2. UNCHANGED <<sub, code, log, now, req>>
    BY <1>1 DEF CreatePlan, UpdatePlan
  <2> QED
    BY <2>1, <2>2 DEF TypeOK, Sub, Code
<1>2. ASSUME NEW s \in Sessions, NEW r \in Request, Ask(s, r) PROVE TypeOK'
  BY <1>2, AskTypes
<1>3. ASSUME NEW s \in Sessions,
             \/ AskGenerate(s) \/ AskDeletePlan(s) \/ AskDeleteCode(s)
             \/ AskPending(s) \/ AskUpdate(s) \/ AskRedeem(s)
      PROVE  \E r \in Request : Ask(s, r)
  <2>0. now \in Nat
    BY NumbersAssumption DEF TypeOK
  <2>1. CASE AskGenerate(s)
    BY <2>1 DEF AskGenerate, Blank, Request, Ops
  <2>2. CASE AskDeletePlan(s)
    BY <2>2 DEF AskDeletePlan, Blank, Request, Ops
  <2>3. CASE AskDeleteCode(s)
    BY <2>3 DEF AskDeleteCode, Blank, Request, Ops
  <2>4. CASE AskPending(s)
    <3>1. PICK r \in Restaurants, p \in Plans, days \in Days :
             Ask(s, [Blank EXCEPT !.op = "ask", !.of = r, !.plan = p, !.days = days, !.at = now])
      BY <2>4 DEF AskPending
    <3>2. [Blank EXCEPT !.op = "ask", !.of = r, !.plan = p, !.days = days, !.at = now] \in Request
      BY <2>0 DEF Blank, Request, Ops
    <3> QED
      BY <3>1, <3>2
  <2>5. CASE AskUpdate(s)
    <3>1. PICK r \in Restaurants, p \in Plans, days \in Days : \E x \in SubsOf(r) \cup {None} :
             Ask(s, [Blank EXCEPT !.op = "update", !.of = r, !.plan = p, !.days = days,
                                  !.sub = x, !.at = now])
      BY <2>5 DEF AskUpdate
    <3>2. PICK x \in Subs \cup {None} :
             Ask(s, [Blank EXCEPT !.op = "update", !.of = r, !.plan = p, !.days = days,
                                  !.sub = x, !.at = now])
      BY <3>1 DEF SubsOf
    <3>3. [Blank EXCEPT !.op = "update", !.of = r, !.plan = p, !.days = days,
                        !.sub = x, !.at = now] \in Request
      BY <2>0 DEF Blank, Request, Ops
    <3> QED
      BY <3>2, <3>3
  <2>6. CASE AskRedeem(s)
    <3>1. PICK r \in Restaurants, c \in Codes : \E x \in Running(r) \cup {None} :
             /\ code[c] # None
             /\ Ask(s, [Blank EXCEPT !.of = r, !.code = c, !.count = code[c].count,
                                     !.plan = code[c].plan, !.days = code[c].days, !.sub = x,
                                     !.row = IF x = None THEN None ELSE sub[x], !.at = now])
      BY <2>6 DEF AskRedeem
    <3> PICK x \in Running(r) \cup {None} :
             Ask(s, [Blank EXCEPT !.of = r, !.code = c, !.count = code[c].count,
                                  !.plan = code[c].plan, !.days = code[c].days, !.sub = x,
                                  !.row = IF x = None THEN None ELSE sub[x], !.at = now])
      BY <3>1
    <3>2. PICK row : row = IF x = None THEN None ELSE sub[x]
      OBVIOUS
    <3>3. /\ code[c].count \in Nat /\ code[c].plan \in Plans /\ code[c].days \in Days
          /\ x \in Subs \cup {None} /\ row \in Sub \cup {None} /\ now \in Nat
      BY <2>0, <3>1, <3>2 DEF TypeOK, Code, Running, SubsOf
    <3>4. [Blank EXCEPT !.of = r, !.code = c, !.count = code[c].count,
                        !.plan = code[c].plan, !.days = code[c].days, !.sub = x,
                        !.row = row, !.at = now] \in Request
      BY <3>3 DEF Blank, Request, Ops
    <3> QED
      BY <3>1, <3>2, <3>4
  <2> QED
    BY <1>3, <2>1, <2>2, <2>3, <2>4, <2>5, <2>6
<1>4. ASSUME NEW s \in Sessions, Finish(s) PROVE req' \in [Sessions -> Request \cup {None}]
  BY <1>4 DEF Finish, TypeOK
<1>5. ASSUME NEW s \in Sessions, CommitGenerate(s) PROVE TypeOK'
  <2>1. req[s].plan \in Plans /\ req[s].days \in Days /\ Planned(req[s].plan)
    BY <1>0, <1>5 DEF CommitGenerate, Runs, Fits
  <2>2. PICK c \in Codes, limit \in Limits :
          code' = [code EXCEPT ![c] = [plan |-> req[s].plan, days |-> req[s].days,
                                       limit |-> limit, count |-> 0]]
    BY <1>5 DEF CommitGenerate
  <2>3. PICK k : k = [plan |-> req[s].plan, days |-> req[s].days, limit |-> limit, count |-> 0]
    OBVIOUS
  <2>4. k \in Code /\ k.plan = req[s].plan
    BY <2>1, <2>3 DEF Code
  <2>5. code' \in [Codes -> Code \cup {None}] /\ code'[c] = k
        /\ \A d \in Codes \ {c} : code'[d] = code[d]
    BY <2>2, <2>3, <2>4 DEF TypeOK
  <2>6. \A d \in Codes : code'[d] # None => plan[code'[d].plan] # "absent"
    BY <2>1, <2>4, <2>5 DEF TypeOK, Planned
  <2>7. UNCHANGED <<plan, sub, log, now>>
    BY <1>5 DEF CommitGenerate
  <2> QED
    BY <1>4, <1>5, <2>5, <2>6, <2>7 DEF TypeOK, CommitGenerate
<1>6. ASSUME NEW s \in Sessions, CommitDeletePlan(s) PROVE TypeOK'
  <2> PICK p : p = req[s].plan
    OBVIOUS
  <2>1. p \in Plans /\ DropPlan(p)
    BY <1>0, <1>6 DEF CommitDeletePlan, Runs, Fits
  <2>2. /\ code' \in [Codes -> Code \cup {None}]
        /\ log' \in [Codes -> Seq([of : Restaurants, until : Nat])]
    BY <2>1, DropCodesEffect DEF DropPlan
  <2> QED
    BY <1>4, <1>6, <2>1, <2>2, DropPlanEffect DEF TypeOK, CommitDeletePlan
<1>7. ASSUME NEW s \in Sessions, CommitDeleteCode(s) PROVE TypeOK'
  <2>1. PICK gone : DropCodes(gone)
    BY <1>7 DEF CommitDeleteCode
  <2>2. /\ code' \in [Codes -> Code \cup {None}]
        /\ log' \in [Codes -> Seq([of : Restaurants, until : Nat])]
        /\ \A c \in Codes : code'[c] # None => code'[c] = code[c]
    BY <2>1, DropCodesEffect
  <2> QED
    BY <1>4, <1>7, <2>2 DEF TypeOK, CommitDeleteCode
<1>8. ASSUME NEW s \in Sessions, CommitPending(s) PROVE TypeOK'
  <2>1. req[s].of \in Restaurants /\ req[s].plan \in Plans /\ req[s] \in Request
    BY <1>0, <1>8 DEF CommitPending, Runs, Fits
  <2>2. req[s].at + req[s].days \in Nat
    <3>1. req[s].days \in Days \cup {0} /\ req[s].at \in Nat
      BY <2>1 DEF Request
    <3>2. \A d \in Days : d \in Nat
      BY NumbersAssumption
    <3> QED
      BY <3>1, <3>2
  <2>3. "PENDING" \in SubStatuses
    BY DEF SubStatuses
  <2>4. Create(req[s].of, req[s].plan, "PENDING", req[s].at + req[s].days)
    BY <1>8 DEF CommitPending
  <2>5. /\ sub' \in [Subs -> Sub \cup {None}]
        /\ \A x \in Subs : sub'[x] # None => plan[sub'[x].plan] # "absent"
    BY <2>1, <2>2, <2>3, <2>4, CreateEffect
  <2> QED
    BY <1>4, <1>8, <2>5 DEF TypeOK, CommitPending
<1>9. ASSUME NEW s \in Sessions, CommitUpdate(s) PROVE TypeOK'
  <2> PICK r : r = req[s]
    OBVIOUS
  <2>1. r.of \in Restaurants /\ r.plan \in Plans /\ r \in Request
    BY <1>0, <1>9 DEF CommitUpdate, Runs, Fits
  <2>2. r.at + r.days \in Nat
    <3>1. r.days \in Days \cup {0} /\ r.at \in Nat
      BY <2>1 DEF Request
    <3>2. \A d \in Days : d \in Nat
      BY NumbersAssumption
    <3> QED
      BY <3>1, <3>2
  <2>3. PICK end : end = r.at + r.days
    OBVIOUS
  <2>4. PICK status \in SubStatuses :
          IF r.sub = None THEN Create(r.of, r.plan, status, end)
          ELSE /\ sub[r.sub] # None /\ Planned(r.plan)
               /\ sub' = [sub EXCEPT ![r.sub] =
                    [@ EXCEPT !.plan = r.plan, !.status = status, !.end = end]]
    BY <1>9, <2>3 DEF CommitUpdate
  <2>5. /\ sub' \in [Subs -> Sub \cup {None}]
        /\ \A x \in Subs : sub'[x] # None => plan[sub'[x].plan] # "absent"
    <3>1. CASE r.sub = None
      BY <2>1, <2>2, <2>3, <2>4, <3>1, CreateEffect
    <3>2. CASE r.sub # None
      <4>1. r.sub \in Subs
        BY <2>1, <3>2 DEF Request
      <4>2. sub[r.sub] \in Sub /\ Planned(r.plan)
        BY <2>4, <3>2, <4>1 DEF TypeOK
      <4>3. PICK row : row = [sub[r.sub] EXCEPT !.plan = r.plan, !.status = status, !.end = end]
        OBVIOUS
      <4>4. row \in Sub /\ row.plan = r.plan
        BY <2>1, <2>2, <2>3, <4>2, <4>3 DEF Sub
      <4>5. sub' = [sub EXCEPT ![r.sub] = row]
        BY <2>4, <3>2, <4>3
      <4>6. sub' \in [Subs -> Sub \cup {None}] /\ sub'[r.sub] = row
            /\ \A x \in Subs \ {r.sub} : sub'[x] = sub[x]
        BY <4>1, <4>4, <4>5 DEF TypeOK
      <4> QED
        BY <4>1, <4>2, <4>4, <4>6 DEF TypeOK, Planned
    <3> QED
      BY <3>1, <3>2
  <2> QED
    BY <1>4, <1>9, <2>5 DEF TypeOK, CommitUpdate
<1>10. ASSUME NEW s \in Sessions, CommitRedeem(s) PROVE TypeOK'
  <2> PICK r : r = req[s]
    OBVIOUS
  <2>1. /\ r \in Request /\ Fits(r) /\ r.op = "redeem" /\ r.code \in Codes
        /\ code[r.code] \in Code /\ Grant(r)
        /\ code' = [code EXCEPT ![r.code] = [code[r.code] EXCEPT !.count = @ + 1]]
        /\ log' = [log EXCEPT ![r.code] = Append(log[r.code], [of |-> r.of, until |-> Until(r)])]
    BY <1>10, RedeemEffect
  <2>2. PICK k : k = [code[r.code] EXCEPT !.count = @ + 1]
    OBVIOUS
  <2>3. k \in Code /\ k.plan = code[r.code].plan
    BY <2>1, <2>2, CountedUse
  <2>4. code' \in [Codes -> Code \cup {None}] /\ code'[r.code] = k
        /\ \A c \in Codes \ {r.code} : code'[c] = code[c]
    BY <2>1, <2>2, <2>3 DEF TypeOK
  <2>5. \A c \in Codes : code'[c] # None => plan[code'[c].plan] # "absent"
    BY <2>1, <2>3, <2>4, NoneIsNoRow DEF TypeOK
  <2>6. log' \in [Codes -> Seq([of : Restaurants, until : Nat])]
    <3>1. PICK e : e = [of |-> r.of, until |-> Until(r)]
      OBVIOUS
    <3>2. e \in [of : Restaurants, until : Nat]
      BY <2>1, <3>1, UntilIsTime DEF Fits
    <3>3. log[r.code] \in Seq([of : Restaurants, until : Nat])
      BY <2>1 DEF TypeOK
    <3>4. Append(log[r.code], e) \in Seq([of : Restaurants, until : Nat])
      BY <3>2, <3>3, AppendEffect
    <3> QED
      BY <2>1, <3>1, <3>4 DEF TypeOK
  <2>7. /\ sub' \in [Subs -> Sub \cup {None}]
        /\ \A x \in Subs : sub'[x] # None => plan[sub'[x].plan] # "absent"
    BY <2>1, GrantEffect
  <2> QED
    BY <1>4, <1>10, <2>4, <2>5, <2>6, <2>7 DEF TypeOK, CommitRedeem
<1>11. ASSUME NEW s \in Sessions, Abandon(s) PROVE TypeOK'
  BY <1>4, <1>11 DEF Abandon, TypeOK
<1>12. CASE Tick
  <2>1. MaxTime \in Nat
    BY NumbersAssumption
  <2>2. now' \in 0 .. MaxTime
    BY <1>12, <2>1 DEF Tick, TypeOK
  <2> QED
    BY <1>12, <2>2 DEF Tick, TypeOK
<1>13. CASE UNCHANGED vars
  BY <1>13 DEF vars, TypeOK
<1> QED
  BY <1>1, <1>2, <1>3, <1>5, <1>6, <1>7, <1>8, <1>9, <1>10, <1>11, <1>12, <1>13 DEF Next

-----------------------------------------------------------------------------
(* Uses of a code                                                          *)

LEMMA CountInFlight ==
  ASSUME NEW c
  PROVE  /\ IsFiniteSet(Redeeming(c)) /\ Cardinality(Redeeming(c)) \in Nat
         /\ Cardinality(Redeeming(c)) <= Cardinality(Sessions)
         /\ Cardinality(Sessions) \in Nat /\ Cardinality(Sessions) # 0
<1>1. Redeeming(c) \in SUBSET Sessions
  BY DEF Redeeming
<1>2. IsFiniteSet(Sessions) /\ Sessions # {}
  BY SessionsAssumption
<1>3. Cardinality(Sessions) \in Nat /\ Cardinality(Sessions) # 0
  BY <1>2, FS_CardinalityType, FS_EmptySet
<1>4. IsFiniteSet(Redeeming(c)) /\ Cardinality(Redeeming(c)) <= Cardinality(Sessions)
  BY <1>1, <1>2, FS_Subset
<1>5. Cardinality(Redeeming(c)) \in Nat
  BY <1>4, FS_CardinalityType
<1> QED
  BY <1>3, <1>4, <1>5

(* The same for the state after a step.                                    *)
LEMMA CountThen ==
  ASSUME NEW c
  PROVE  /\ IsFiniteSet(Redeeming(c)') /\ Cardinality(Redeeming(c)') \in Nat
         /\ Cardinality(Redeeming(c)') <= Cardinality(Sessions)
<1>1. Redeeming(c)' \in SUBSET Sessions
  BY DEF Redeeming
<1>2. IsFiniteSet(Sessions)
  BY SessionsAssumption
<1>3. IsFiniteSet(Redeeming(c)') /\ Cardinality(Redeeming(c)') <= Cardinality(Sessions)
  BY <1>1, <1>2, FS_Subset
<1>4. Cardinality(Redeeming(c)') \in Nat
  BY <1>3, FS_CardinalityType
<1> QED
  BY <1>3, <1>4

(* A code's uses, while nobody begins to redeem it.                        *)
UseKept(c) == code'[c] = code[c] /\ log'[c] = log[c] /\ Redeeming(c)' \subseteq Redeeming(c)
UseGone(c) == code'[c] = None /\ log'[c] = <<>>

Used(c) ==
  /\ code[c] = None => log[c] = <<>>
  /\ code[c] # None =>
       /\ code[c].count = Len(log[c])
       /\ code[c].count + Cardinality(Redeeming(c)) < code[c].limit + Cardinality(Sessions)

LEMMA UseKeptKeeps == ASSUME TypeOK, NEW c \in Codes, Used(c), UseKept(c) PROVE Used(c)'
<1>1. CASE code[c] = None
  BY <1>1 DEF Used, UseKept
<1>2. CASE code[c] # None
  <2> PICK m : m = Cardinality(Redeeming(c))
    OBVIOUS
  <2> PICK n : n = Cardinality(Redeeming(c)')
    OBVIOUS
  <2> PICK t : t = Cardinality(Sessions)
    OBVIOUS
  <2>1. n <= m /\ n \in Nat /\ m \in Nat /\ t \in Nat
    BY CountInFlight, CountThen, FS_Subset DEF UseKept
  <2>2. code[c].count \in Nat /\ code[c].limit \in Nat
    <3>1. code[c] \in Code
      BY <1>2 DEF TypeOK
    <3>2. \A l \in Limits : l \in Nat
      BY NumbersAssumption
    <3> QED
      BY <3>1, <3>2 DEF Code
  <2>3. code[c].count = Len(log[c]) /\ code[c].count + m < code[c].limit + t
    BY <1>2 DEF Used
  <2>4. code[c].count + n < code[c].limit + t
    BY <2>1, <2>2, <2>3
  <2> QED
    BY <1>2, <2>3, <2>4 DEF Used, UseKept
<1> QED
  BY <1>1, <1>2

(* A code just made, or just found usable, has room for all requests.      *)
LEMMA RoomForAll ==
  ASSUME NEW c \in Codes, code'[c] \in Code, code'[c] # None, code'[c].count = Len(log'[c]),
         code'[c].count < code'[c].limit
  PROVE  Used(c)'
<1> PICK n : n = Cardinality(Redeeming(c)')
  OBVIOUS
<1> PICK t : t = Cardinality(Sessions)
  OBVIOUS
<1>1. n <= t /\ n \in Nat /\ t \in Nat
  BY CountInFlight, CountThen
<1>2. code'[c].count \in Nat /\ code'[c].limit \in Nat
  <2>1. \A l \in Limits : l \in Nat
    BY NumbersAssumption
  <2> QED
    BY <2>1 DEF Code
<1>3. code'[c].count + n < code'[c].limit + t
  BY <1>1, <1>2
<1> QED
  BY <1>3 DEF Used

LEMMA UsesNext == ASSUME LicenceInv, [Next]_vars PROVE UsesCounted'
<1> USE DEF LicenceInv
<1>0. /\ \A c \in Codes : Used(c)
      /\ \A s \in Sessions : req[s] # None => req[s] \in Request /\ Fits(req[s])
  BY DEF UsesCounted, Used, TypeOK
<1> SUFFICES ASSUME NEW c \in Codes PROVE Used(c)'
  BY DEF UsesCounted, Used
<1>2. UseGone(c) => Used(c)'
  BY DEF UseGone, Used
<1>3. ASSUME NEW s \in Sessions, Finish(s) PROVE Redeeming(c)' \subseteq Redeeming(c)
  BY <1>3 DEF Finish, Redeeming, Runs, TypeOK
<1>4. ASSUME NEW s \in Sessions,
             AskGenerate(s) \/ AskDeletePlan(s) \/ AskDeleteCode(s) \/ AskPending(s) \/ AskUpdate(s)
      PROVE  /\ UNCHANGED <<code, log>> /\ req'[s].op # "redeem"
             /\ \A v \in Sessions \ {s} : req'[v] = req[v]
  <2> USE DEF Ask, Blank, TypeOK
  <2>1. CASE AskGenerate(s)
    BY <2>1 DEF AskGenerate
  <2>2. CASE AskDeletePlan(s)
    BY <2>2 DEF AskDeletePlan
  <2>3. CASE AskDeleteCode(s)
    BY <2>3 DEF AskDeleteCode
  <2>4. CASE AskPending(s)
    BY <2>4 DEF AskPending
  <2>5. CASE AskUpdate(s)
    BY <2>5 DEF AskUpdate
  <2> QED
    BY <1>4, <2>1, <2>2, <2>3, <2>4, <2>5
<1>5. ASSUME NEW s \in Sessions,
             AskGenerate(s) \/ AskDeletePlan(s) \/ AskDeleteCode(s) \/ AskPending(s) \/ AskUpdate(s)
      PROVE  Used(c)'
  <2>1. Redeeming(c)' \subseteq Redeeming(c)
    BY <1>4, <1>5 DEF Redeeming, Runs
  <2> QED
    BY <1>0, <1>4, <1>5, <2>1, UseKeptKeeps DEF UseKept
<1>6. ASSUME NEW s \in Sessions, AskRedeem(s) PROVE Used(c)'
  <2>1. PICK d \in Codes :
          /\ code[d] # None /\ code[d].count < code[d].limit
          /\ UNCHANGED <<code, log>> /\ req'[s].code = d
          /\ \A v \in Sessions \ {s} : req'[v] = req[v]
    BY <1>6 DEF AskRedeem, Usable, Ask, Blank, TypeOK
  <2>2. CASE c = d
    <3>1. code[c] \in Code /\ code[c].count = Len(log[c])
      BY <1>0, <2>1, <2>2 DEF Used, TypeOK
    <3> QED
      BY <2>1, <2>2, <3>1, RoomForAll
  <2>3. CASE c # d
    <3>1. Redeeming(c)' \subseteq Redeeming(c)
      BY <2>1, <2>3 DEF Redeeming, Runs
    <3> QED
      BY <1>0, <2>1, <3>1, UseKeptKeeps DEF UseKept
  <2> QED
    BY <2>2, <2>3
<1>7. ASSUME NEW s \in Sessions, CommitGenerate(s) PROVE Used(c)'
  <2>1. req[s].plan \in Plans /\ req[s].days \in Days
    BY <1>0, <1>7 DEF CommitGenerate, Runs, Fits
  <2>2. PICK d \in Codes, limit \in Limits :
          /\ code[d] = None
          /\ code' = [code EXCEPT ![d] = [plan |-> req[s].plan, days |-> req[s].days,
                                          limit |-> limit, count |-> 0]]
    BY <1>7 DEF CommitGenerate
  <2>3. PICK k : k = [plan |-> req[s].plan, days |-> req[s].days, limit |-> limit, count |-> 0]
    OBVIOUS
  <2>4. k \in Code /\ k.count = 0 /\ k.limit = limit /\ k # None
    BY <2>1, <2>3, NoneIsNoRow DEF Code
  <2>5. code'[d] = k /\ \A e \in Codes \ {d} : code'[e] = code[e]
    BY <2>2, <2>3 DEF TypeOK
  <2>6. UNCHANGED log
    BY <1>7 DEF CommitGenerate
  <2>7. CASE c = d
    <3>1. log'[c] = <<>>
      BY <1>0, <2>2, <2>6, <2>7 DEF Used
    <3>2. 0 < limit
      <4>1. \A l \in Limits : l \in Nat /\ l # 0
        BY NumbersAssumption
      <4> QED
        BY <4>1
    <3> QED
      BY <2>4, <2>5, <2>7, <3>1, <3>2, RoomForAll
  <2>8. CASE c # d
    BY <1>0, <1>3, <1>7, <2>5, <2>6, <2>8, UseKeptKeeps DEF CommitGenerate, UseKept
  <2> QED
    BY <2>7, <2>8
<1>8. ASSUME NEW s \in Sessions, NEW gone, DropCodes(gone), Finish(s) PROVE Used(c)'
  <2>1. IF c \in gone THEN UseGone(c) ELSE code'[c] = code[c] /\ log'[c] = log[c]
    BY <1>8, DropCodesEffect DEF UseGone
  <2> QED
    BY <1>0, <1>2, <1>3, <1>8, <2>1, UseKeptKeeps DEF UseKept
<1>9. ASSUME NEW s \in Sessions, CommitRedeem(s) PROVE Used(c)'
  <2> PICK r : r = req[s]
    OBVIOUS
  <2>1. /\ r.op = "redeem" /\ r.code \in Codes /\ code[r.code] \in Code
        /\ code' = [code EXCEPT ![r.code] = [code[r.code] EXCEPT !.count = @ + 1]]
        /\ log' = [log EXCEPT ![r.code] = Append(log[r.code], [of |-> r.of, until |-> Until(r)])]
    BY <1>9, RedeemEffect
  <2>2. PICK k : k = [code[r.code] EXCEPT !.count = @ + 1]
    OBVIOUS
  <2>3. k \in Code /\ k.limit = code[r.code].limit /\ k.count = code[r.code].count + 1 /\ k # None
    BY <2>1, <2>2, CountedUse, NoneIsNoRow
  <2>4. /\ code'[r.code] = k /\ \A d \in Codes \ {r.code} : code'[d] = code[d] /\ log'[d] = log[d]
        /\ log'[r.code] = Append(log[r.code], [of |-> r.of, until |-> Until(r)])
    BY <2>1, <2>2 DEF TypeOK
  <2>5. Finish(s)
    BY <1>9 DEF CommitRedeem
  <2>6. CASE c # r.code
    BY <1>0, <1>3, <2>4, <2>5, <2>6, UseKeptKeeps DEF UseKept
  <2>7. CASE c = r.code
    <3>0. Redeeming(c)' \subseteq Redeeming(c)
      BY <1>3, <2>5
    <3>1. s \in Redeeming(c) /\ s \notin Redeeming(c)'
      BY <1>9, <2>5, <2>7 DEF CommitRedeem, Redeeming, Runs, Finish, TypeOK
    <3>2. code[c] # None /\ code[c].count \in Nat /\ code[c].limit \in Nat
      <4>1. \A l \in Limits : l \in Nat
        BY NumbersAssumption
      <4> QED
        BY <2>1, <2>7, <4>1, NoneIsNoRow DEF Code
    <3> PICK m : m = Cardinality(Redeeming(c))
      OBVIOUS
    <3> PICK n : n = Cardinality(Redeeming(c)')
      OBVIOUS
    <3> PICK t : t = Cardinality(Sessions)
      OBVIOUS
    <3>3. n <= m /\ n # m /\ n \in Nat /\ m \in Nat /\ t \in Nat
      BY <3>0, <3>1, CountInFlight, CountThen, FS_Subset
    <3>4. code[c].count + m < code[c].limit + t /\ code[c].count = Len(log[c])
      BY <1>0, <3>2 DEF Used
    <3>5. code[c].count + 1 + n < code[c].limit + t
      BY <3>2, <3>3, <3>4
    <3>6. Len(log'[c]) = Len(log[c]) + 1
      <4>1. log[c] \in Seq([of : Restaurants, until : Nat])
        BY DEF TypeOK
      <4>2. PICK e : e = [of |-> r.of, until |-> Until(r)]
        OBVIOUS
      <4>3. r \in Request /\ Fits(r)
        BY <1>9, RedeemEffect
      <4>4. e \in [of : Restaurants, until : Nat]
        BY <2>1, <4>2, <4>3, UntilIsTime DEF Fits
      <4> QED
        BY <2>4, <2>7, <4>1, <4>2, <4>4, AppendEffect
    <3>7. code'[c] # None /\ code'[c].count = Len(log'[c])
      BY <2>3, <2>4, <2>7, <3>4, <3>6
    <3>8. code'[c].count + n < code'[c].limit + t
      BY <2>3, <2>4, <2>7, <3>5
    <3> QED
      BY <3>7, <3>8 DEF Used
  <2> QED
    BY <2>6, <2>7
<1>10. ASSUME UNCHANGED <<code, log>>, Redeeming(c)' \subseteq Redeeming(c) PROVE Used(c)'
  BY <1>0, <1>10, UseKeptKeeps DEF UseKept
<1>11. ASSUME NEW s \in Sessions, CommitPending(s) \/ CommitUpdate(s) \/ Abandon(s)
       PROVE  Finish(s) /\ UNCHANGED <<code, log>>
  BY <1>11 DEF CommitPending, CommitUpdate, Abandon
<1>12. ASSUME \/ \E p \in Plans : CreatePlan(p) \/ UpdatePlan(p)
              \/ Tick \/ UNCHANGED vars
       PROVE  UNCHANGED <<code, log>> /\ Redeeming(c)' \subseteq Redeeming(c)
  BY <1>12 DEF CreatePlan, UpdatePlan, Tick, vars, Redeeming, Runs
<1>13. ASSUME NEW s \in Sessions, CommitDeletePlan(s) \/ CommitDeleteCode(s)
       PROVE  Finish(s) /\ \E gone : DropCodes(gone)
  BY <1>13 DEF CommitDeletePlan, CommitDeleteCode, DropPlan
<1> QED
  BY <1>3, <1>5, <1>6, <1>7, <1>8, <1>9, <1>10, <1>11, <1>12, <1>13 DEF Next

LEMMA FitsNext ==
  ASSUME LicenceInv, [Next]_vars
  PROVE  \A s \in Sessions : req'[s] # None => Fits(req'[s])
<1> USE DEF LicenceInv
<1>0. \A s \in Sessions : req[s] # None => req[s] \in Request /\ Fits(req[s])
  BY DEF TypeOK
<1>1. ASSUME NEW s \in Sessions, \A v \in Sessions \ {s} : req'[v] = req[v],
             req'[s] = None \/ Fits(req'[s])
      PROVE  \A v \in Sessions : req'[v] # None => Fits(req'[v])
  BY <1>0, <1>1
<1>2. ASSUME NEW s \in Sessions, Finish(s)
      PROVE  (\A v \in Sessions \ {s} : req'[v] = req[v]) /\ req'[s] = None
  BY <1>2 DEF Finish, TypeOK
<1>3. ASSUME NEW s \in Sessions,
             \/ AskGenerate(s) \/ AskDeletePlan(s) \/ AskDeleteCode(s)
             \/ AskPending(s) \/ AskUpdate(s) \/ AskRedeem(s)
      PROVE  (\A v \in Sessions \ {s} : req'[v] = req[v]) /\ Fits(req'[s])
  <2> USE DEF Ask, Blank, TypeOK, Fits
  <2>1. CASE AskGenerate(s)
    BY <2>1 DEF AskGenerate
  <2>2. CASE AskDeletePlan(s)
    BY <2>2 DEF AskDeletePlan
  <2>3. CASE AskDeleteCode(s)
    BY <2>3 DEF AskDeleteCode
  <2>4. CASE AskPending(s)
    BY <2>4 DEF AskPending
  <2>5. CASE AskUpdate(s)
    BY <2>5 DEF AskUpdate
  <2>6. CASE AskRedeem(s)
    <3>1. PICK r \in Restaurants, c \in Codes : \E x \in Running(r) \cup {None} :
             /\ code[c] # None
             /\ Ask(s, [Blank EXCEPT !.of = r, !.code = c, !.count = code[c].count,
                                     !.plan = code[c].plan, !.days = code[c].days, !.sub = x,
                                     !.row = IF x = None THEN None ELSE sub[x], !.at = now])
      BY <2>6 DEF AskRedeem
    <3>2. PICK x \in Running(r) \cup {None} :
             Ask(s, [Blank EXCEPT !.of = r, !.code = c, !.count = code[c].count,
                                  !.plan = code[c].plan, !.days = code[c].days, !.sub = x,
                                  !.row = IF x = None THEN None ELSE sub[x], !.at = now])
      BY <3>1
    <3>3. /\ req'[s].op = "redeem" /\ req'[s].of = r /\ req'[s].plan = code[c].plan
          /\ req'[s].code = c /\ req'[s].sub = x
          /\ req'[s].row = IF x = None THEN None ELSE sub[x]
      BY <3>2
    <3>4. code[c].plan \in Plans /\ (x # None => sub[x] \in Sub)
      BY <3>1 DEF Code, Running, SubsOf
    <3>5. \A v \in Sessions \ {s} : req'[v] = req[v]
      BY <3>2
    <3> QED
      BY <3>3, <3>4, <3>5
  <2> QED
    BY <1>3, <2>1, <2>2, <2>3, <2>4, <2>5, <2>6
<1>4. ASSUME NEW s \in Sessions,
             \/ CommitGenerate(s) \/ CommitDeletePlan(s) \/ CommitDeleteCode(s)
             \/ CommitPending(s) \/ CommitUpdate(s) \/ CommitRedeem(s) \/ Abandon(s)
      PROVE  Finish(s)
  BY <1>4 DEF CommitGenerate, CommitDeletePlan, CommitDeleteCode, CommitPending, CommitUpdate,
              CommitRedeem, Abandon
<1>5. CASE (\E p \in Plans : CreatePlan(p) \/ UpdatePlan(p)) \/ Tick \/ UNCHANGED vars
  BY <1>0, <1>5 DEF CreatePlan, UpdatePlan, Tick, vars
<1> QED
  BY <1>1, <1>2, <1>3, <1>4, <1>5 DEF Next

LEMMA InitLicence == Init => LicenceInv
<1> SUFFICES ASSUME Init PROVE LicenceInv
  OBVIOUS
<1>1. \A s \in Sessions : req[s] = None
  BY DEF Init
<1>2. \A c \in Codes : code[c] = None /\ log[c] = <<>>
  BY DEF Init
<1> QED
  BY <1>1, <1>2, TypeInit DEF LicenceInv, UsesCounted

LEMMA NextLicence == ASSUME LicenceInv, [Next]_vars PROVE LicenceInv'
BY TypeNext, FitsNext, UsesNext DEF LicenceInv

LEMMA UsesAreCounted == ASSUME LicenceInv PROVE UsageIsCounted
<1> SUFFICES ASSUME NEW c \in Codes, code[c] # None
             PROVE  /\ code[c].count = Len(log[c])
                    /\ code[c].count < code[c].limit + Cardinality(Sessions)
  BY DEF UsageIsCounted
<1> PICK m : m = Cardinality(Redeeming(c))
  OBVIOUS
<1> PICK t : t = Cardinality(Sessions)
  OBVIOUS
<1>1. code[c].count = Len(log[c]) /\ code[c].count + m < code[c].limit + t
  BY DEF LicenceInv, UsesCounted
<1>2. m \in Nat /\ t \in Nat
  BY CountInFlight
<1>3. code[c].count \in Nat /\ code[c].limit \in Nat
  <2>1. code[c] \in Code
    BY DEF LicenceInv, TypeOK
  <2>2. \A l \in Limits : l \in Nat
    BY NumbersAssumption
  <2> QED
    BY <2>1, <2>2 DEF Code
<1>4. code[c].count < code[c].limit + t
  BY <1>1, <1>2, <1>3
<1> QED
  BY <1>1, <1>4

-----------------------------------------------------------------------------
(* Tables and menu items                                                   *)

Tabled(r) == {t \in Tables : table[t] # None /\ table[t].of = r}
Listed(r) == {i \in Items : item[i] = r}

(* Requests that will add one for r.                                       *)
Adding(r, op) == {s \in Sessions : Does(s, op) /\ task[s].of = r}

(* What is there, and what is on the way.                                  *)
Bounded(there, coming, limit) ==
  IsFiniteSet(there) /\ Cardinality(there) + Cardinality(coming) < limit + Cardinality(Sessions)

TablesCounted ==
  \A r \in Restaurants : Bounded(Tabled(r), Adding(r, "table"), shown[r].tables)
ItemsCounted ==
  \A r \in Restaurants : Bounded(Listed(r), Adding(r, "item"), shown[r].items)

LimitsInv ==
  /\ LicenceInv /\ LimitTypes
  /\ \A s \in Sessions : Does(s, "change") => table[task[s].table] # None
  /\ TablesCounted /\ ItemsCounted

LEMMA SessionsCount == Cardinality(Sessions) \in Nat /\ Cardinality(Sessions) # 0
BY SessionsAssumption, FS_CardinalityType, FS_EmptySet

LEMMA SomeSessions ==
  ASSUME NEW A \in SUBSET Sessions
  PROVE  IsFiniteSet(A) /\ Cardinality(A) \in Nat /\ Cardinality(A) <= Cardinality(Sessions)
<1>1. IsFiniteSet(A) /\ Cardinality(A) <= Cardinality(Sessions)
  BY SessionsAssumption, FS_Subset
<1> QED
  BY <1>1, FS_CardinalityType

LEMMA BoundedLess ==
  ASSUME NEW S, NEW A \in SUBSET Sessions, NEW l \in Nat, Bounded(S, A, l),
         NEW T \in SUBSET S, NEW B \in SUBSET A, NEW k \in Nat, l <= k
  PROVE  Bounded(T, B, k)
<1> PICK s, t, a, b, n : /\ s = Cardinality(S) /\ t = Cardinality(T) /\ a = Cardinality(A)
                         /\ b = Cardinality(B) /\ n = Cardinality(Sessions)
  OBVIOUS
<1>1. IsFiniteSet(S) /\ s + a < l + n
  BY DEF Bounded
<1>2. IsFiniteSet(T) /\ t <= s
  BY <1>1, FS_Subset
<1>3. s \in Nat /\ t \in Nat /\ a \in Nat /\ b \in Nat /\ n \in Nat
  BY <1>1, <1>2, SomeSessions, SessionsCount, FS_CardinalityType
<1>4. b <= a
  BY SomeSessions, FS_Subset
<1>5. t + b < k + n
  BY <1>1, <1>2, <1>3, <1>4
<1> QED
  BY <1>2, <1>5 DEF Bounded

LEMMA BoundedAsk ==
  ASSUME NEW S, IsFiniteSet(S), NEW A \in SUBSET Sessions, NEW l \in Nat, Cardinality(S) < l
  PROVE  Bounded(S, A, l)
<1> PICK s, a, n : s = Cardinality(S) /\ a = Cardinality(A) /\ n = Cardinality(Sessions)
  OBVIOUS
<1>1. s \in Nat /\ a \in Nat /\ n \in Nat /\ a <= n /\ s < l
  BY SomeSessions, SessionsCount, FS_CardinalityType
<1>2. s + a < l + n
  BY <1>1
<1> QED
  BY <1>2 DEF Bounded

LEMMA BoundedAdd ==
  ASSUME NEW S, NEW A \in SUBSET Sessions, NEW l \in Nat, Bounded(S, A, l),
         NEW x, NEW v \in A, NEW T \in SUBSET (S \cup {x}), NEW B \in SUBSET (A \ {v})
  PROVE  Bounded(T, B, l)
<1> PICK s, u, t, a, b, n : /\ s = Cardinality(S) /\ u = Cardinality(S \cup {x})
                            /\ t = Cardinality(T) /\ a = Cardinality(A)
                            /\ b = Cardinality(B) /\ n = Cardinality(Sessions)
  OBVIOUS
<1>1. IsFiniteSet(S) /\ s + a < l + n
  BY DEF Bounded
<1>2. IsFiniteSet(S \cup {x}) /\ s \in Nat /\ u \in {s, s + 1}
  BY <1>1, FS_AddElement, FS_CardinalityType
<1>3. IsFiniteSet(T) /\ t <= u /\ t \in Nat
  BY <1>2, FS_Subset, FS_CardinalityType
<1>4. a \in Nat /\ b \in Nat /\ n \in Nat /\ b <= a /\ b # a
  <2>1. B \in SUBSET A /\ v \notin B /\ IsFiniteSet(A)
    BY SomeSessions
  <2> QED
    BY <2>1, SomeSessions, SessionsCount, FS_Subset
<1>5. t + b < l + n
  BY <1>1, <1>2, <1>3, <1>4
<1> QED
  BY <1>3, <1>5 DEF Bounded

-----------------------------------------------------------------------------
(* What a step does to the rooms                                           *)

(* Every step of PlanLimits is one of Licences, or none.                   *)
LEMMA LicenceStep == ASSUME [LimitsNext]_all PROVE [Next]_vars
<1>1. ASSUME NEW p \in Plans, CreateLimits(p) \/ UpdateLimits(p) PROVE Next
  BY <1>1 DEF CreateLimits, UpdateLimits, Next
<1>2. ASSUME NEW s \in Sessions, Licensed(s) PROVE Next
  BY <1>2 DEF Licensed, Next
<1>3. ASSUME NEW s \in Sessions,
             \/ AskTable(s) \/ CommitTable(s) \/ AskChange(s) \/ AskSwitchOff(s) \/ CommitChange(s)
             \/ AskItem(s) \/ CommitItem(s) \/ AskRemove(s) \/ CommitRemove(s) \/ GiveUp(s)
      PROVE  UNCHANGED vars
  BY <1>3 DEF AskTable, CommitTable, AskChange, AskSwitchOff, CommitChange, AskItem, CommitItem,
              AskRemove, CommitRemove, GiveUp, Take, Close
<1>4. CASE Tick
  BY <1>4 DEF Next
<1>5. CASE UNCHANGED all
  BY <1>5 DEF all
<1> QED
  BY <1>1, <1>2, <1>3, <1>4, <1>5 DEF LimitsNext

(* A step about plans and subscriptions leaves rooms alone; its session is *)
(* not one that is at work on them.                                        *)
Aside == /\ UNCHANGED <<work, rooms>>
         /\ allowance' \in [Plans -> Allowance]
         /\ \A s \in Sessions : task[s] = None \/ req'[s] = None

LEMMA LicensedAside ==
  ASSUME LimitsInv, NEW s \in Sessions, Licensed(s)
  PROVE  Aside
<1>1. Requested(s)
  BY DEF Licensed
<1>2. \A v \in Sessions \ {s} : req'[v] = req[v]
  <2> USE DEF LimitsInv, LicenceInv, TypeOK, Ask, Finish
  <2>1. CASE AskGenerate(s) \/ AskDeletePlan(s) \/ AskDeleteCode(s)
    BY <2>1 DEF AskGenerate, AskDeletePlan, AskDeleteCode
  <2>2. CASE AskPending(s)
    BY <2>2 DEF AskPending
  <2>3. CASE AskUpdate(s)
    BY <2>3 DEF AskUpdate
  <2>4. CASE AskRedeem(s)
    BY <2>4 DEF AskRedeem
  <2>5. CASE \/ CommitGenerate(s) \/ CommitDeletePlan(s) \/ CommitDeleteCode(s)
             \/ CommitPending(s) \/ CommitUpdate(s) \/ CommitRedeem(s) \/ Abandon(s)
    BY <2>5 DEF CommitGenerate, CommitDeletePlan, CommitDeleteCode, CommitPending, CommitUpdate,
                CommitRedeem, Abandon
  <2> QED
    BY <2>1, <2>2, <2>3, <2>4, <2>5 DEF Licensed
<1> QED
  BY <1>1, <1>2 DEF Requested, Aside, LimitsInv, LimitTypes

LEMMA PlanAside ==
  ASSUME LimitsInv, NEW p \in Plans, CreateLimits(p) \/ UpdateLimits(p)
  PROVE  Aside
<1>1. UNCHANGED <<work, rooms, req>>
  BY DEF CreateLimits, UpdateLimits, CreatePlan, UpdatePlan
<1>2. PICK a \in work.allowances : allowance' = [allowance EXCEPT ![p] = a]
  BY DEF CreateLimits, UpdateLimits
<1>3. a \in Allowance
  BY WorkloadsAssumption DEF LimitsInv, LimitTypes, Allowance
<1> QED
  BY <1>1, <1>2, <1>3 DEF Aside, LimitsInv, LimitTypes

(* A bound goes on to hold where nothing is added or announced.            *)
LEMMA TablesFrame ==
  ASSUME LimitsInv, NEW r \in Restaurants, Tabled(r)' \subseteq Tabled(r),
         Adding(r, "table")' \subseteq Adding(r, "table"),
         shown'[r].tables \in Nat, shown[r].tables <= shown'[r].tables
  PROVE  Bounded(Tabled(r), Adding(r, "table"), shown[r].tables)'
<1>1. Bounded(Tabled(r), Adding(r, "table"), shown[r].tables) /\ shown[r].tables \in Nat
  BY DEF LimitsInv, LimitTypes, TablesCounted, Allowance
<1>2. Adding(r, "table") \in SUBSET Sessions
  BY DEF Adding
<1>3. Bounded(Tabled(r)', Adding(r, "table")', shown'[r].tables)
  BY <1>1, <1>2, BoundedLess
<1> QED
  BY <1>3 DEF Bounded

LEMMA ItemsFrame ==
  ASSUME LimitsInv, NEW r \in Restaurants, Listed(r)' \subseteq Listed(r),
         Adding(r, "item")' \subseteq Adding(r, "item"),
         shown'[r].items \in Nat, shown[r].items <= shown'[r].items
  PROVE  Bounded(Listed(r), Adding(r, "item"), shown[r].items)'
<1>1. Bounded(Listed(r), Adding(r, "item"), shown[r].items) /\ shown[r].items \in Nat
  BY DEF LimitsInv, LimitTypes, ItemsCounted, Allowance
<1>2. Adding(r, "item") \in SUBSET Sessions
  BY DEF Adding
<1>3. Bounded(Listed(r)', Adding(r, "item")', shown'[r].items)
  BY <1>1, <1>2, BoundedLess
<1> QED
  BY <1>3 DEF Bounded

LEMMA TabledFinite ==
  ASSUME LimitsInv, NEW r \in Restaurants
  PROVE  IsFiniteSet(Tabled(r)) /\ IsFiniteSet(Listed(r))
BY DEF LimitsInv, TablesCounted, ItemsCounted, Bounded

LEMMA AsideKeeps ==
  ASSUME LimitsInv, LicenceInv', Aside
  PROVE  LimitsInv'
<1>1. UNCHANGED <<work, table, item, task, shown>>
  BY DEF Aside, rooms
<1>2. LimitTypes'
  BY <1>1 DEF Aside, LimitsInv, LimitTypes
<1>3. (\A s \in Sessions : Does(s, "change") => table[task[s].table] # None)'
  BY <1>1 DEF LimitsInv, Does
<1>4. TablesCounted' /\ ItemsCounted'
  BY <1>1 DEF LimitsInv, TablesCounted, ItemsCounted, Tabled, Listed, Adding, Does
<1> QED
  BY <1>2, <1>3, <1>4 DEF LimitsInv

-----------------------------------------------------------------------------
(* Requests                                                                *)

(* What is shown only grows, to the limit that was read at least.          *)
Grows == /\ shown' \in [Restaurants -> Allowance]
         /\ \A r \in Restaurants : /\ shown[r].tables <= shown'[r].tables
                                   /\ shown[r].items <= shown'[r].items

LEMMA ReadsGrows ==
  ASSUME LimitsInv, NEW r \in Restaurants, NEW x \in Current(r), Reads(r, x)
  PROVE  /\ Grows
         /\ allowance[sub[x].plan] \in Allowance
         /\ allowance[sub[x].plan].tables <= shown'[r].tables
         /\ allowance[sub[x].plan].items <= shown'[r].items
<1>1. sub[x] \in Sub
  BY DEF LimitsInv, LicenceInv, TypeOK, Current, SubsOf
<1>2. PICK a : a = allowance[sub[x].plan]
  OBVIOUS
<1>3. a \in Allowance
  BY <1>1, <1>2, SubKept DEF LimitsInv, LimitTypes
<1>4. a.tables \in Nat /\ a.items \in Nat
  BY <1>3 DEF Allowance
<1>5. \A q \in Restaurants : shown[q] \in [tables : Nat, items : Nat]
  BY DEF LimitsInv, LimitTypes, Allowance
<1>7. PICK b : b = [tables |-> Larger(shown[r].tables, a.tables),
                    items |-> Larger(shown[r].items, a.items)]
  OBVIOUS
<1>8. shown' = [shown EXCEPT ![r] = b]
  BY <1>2, <1>7 DEF Reads, LimitsInv, LimitTypes
<1>9. b \in Allowance
  BY <1>4, <1>5, <1>7 DEF Allowance, Larger
<1>10. /\ shown[r].tables <= b.tables /\ a.tables <= b.tables
       /\ shown[r].items <= b.items /\ a.items <= b.items
  BY <1>4, <1>5, <1>7 DEF Larger
<1>11. shown' \in [Restaurants -> Allowance] /\ shown'[r] = b
       /\ \A q \in Restaurants \ {r} : shown'[q] = shown[q]
  BY <1>8, <1>9 DEF LimitsInv, LimitTypes
<1>12. Grows
  BY <1>5, <1>10, <1>11 DEF Grows
<1> QED
  BY <1>2, <1>3, <1>10, <1>11, <1>12

LEMMA TakeKeeps ==
  ASSUME LimitsInv, LicenceInv', NEW s \in Sessions, NEW o, NEW r \in Task, Take(s, o, r), Grows,
         r.op = "change" => table[r.table] # None,
         r.op = "table" => Cardinality(Tabled(r.of)) < shown'[r.of].tables,
         r.op = "item" => Cardinality(Listed(r.of)) < shown'[r.of].items
  PROVE  LimitsInv'
<1>1. /\ UNCHANGED <<req, work, allowance, table, item>> /\ task[s] = None /\ req[s] = None
      /\ task' \in [Sessions -> Task \cup {None}]
      /\ task'[s] = r /\ \A v \in Sessions \ {s} : task'[v] = task[v]
  BY DEF Take, vars, LimitsInv, LimitTypes
<1>2. LimitTypes'
  BY <1>1 DEF Grows, LimitsInv, LimitTypes
<1>3. (\A v \in Sessions : Does(v, "change") => table[task[v].table] # None)'
  BY <1>1 DEF LimitsInv, Does
<1>4. \A q \in Restaurants : Tabled(q)' = Tabled(q) /\ Listed(q)' = Listed(q)
  BY <1>1 DEF Tabled, Listed
<1>5. \A q \in Restaurants : shown'[q].tables \in Nat /\ shown'[q].items \in Nat
  BY DEF Grows, Allowance
<1>6. TablesCounted'
  <2> SUFFICES ASSUME NEW q \in Restaurants
               PROVE  Bounded(Tabled(q), Adding(q, "table"), shown[q].tables)'
    BY DEF TablesCounted
  <2>1. CASE r.op = "table" /\ r.of = q
    <3>1. Adding(q, "table")' \in SUBSET Sessions
      BY DEF Adding
    <3>2. Bounded(Tabled(q), Adding(q, "table")', shown'[q].tables)
      BY <1>5, <2>1, <3>1, TabledFinite, BoundedAsk
    <3> QED
      BY <1>4, <3>2 DEF Bounded
  <2>2. CASE ~(r.op = "table" /\ r.of = q)
    <3>1. Adding(q, "table")' \subseteq Adding(q, "table")
      BY <1>1, <2>2 DEF Adding, Does
    <3> QED
      BY <1>4, <1>5, <3>1, TablesFrame DEF Grows
  <2> QED
    BY <2>1, <2>2
<1>7. ItemsCounted'
  <2> SUFFICES ASSUME NEW q \in Restaurants
               PROVE  Bounded(Listed(q), Adding(q, "item"), shown[q].items)'
    BY DEF ItemsCounted
  <2>1. CASE r.op = "item" /\ r.of = q
    <3>1. Adding(q, "item")' \in SUBSET Sessions
      BY DEF Adding
    <3>2. Bounded(Listed(q), Adding(q, "item")', shown'[q].items)
      BY <1>5, <2>1, <3>1, TabledFinite, BoundedAsk
    <3> QED
      BY <1>4, <3>2 DEF Bounded
  <2>2. CASE ~(r.op = "item" /\ r.of = q)
    <3>1. Adding(q, "item")' \subseteq Adding(q, "item")
      BY <1>1, <2>2 DEF Adding, Does
    <3> QED
      BY <1>4, <1>5, <3>1, ItemsFrame DEF Grows
  <2> QED
    BY <2>1, <2>2
<1> QED
  BY <1>2, <1>3, <1>6, <1>7 DEF LimitsInv

-----------------------------------------------------------------------------
(* Writes                                                                  *)

LEMMA CloseEffect ==
  ASSUME LimitsInv, NEW s \in Sessions, Close(s)
  PROVE  /\ UNCHANGED <<req, work, allowance, shown>>
         /\ task' \in [Sessions -> Task \cup {None}]
         /\ task'[s] = None /\ \A v \in Sessions \ {s} : task'[v] = task[v]
         /\ \A r \in Restaurants : Adding(r, "table")' \subseteq Adding(r, "table") \ {s}
         /\ \A r \in Restaurants : Adding(r, "item")' \subseteq Adding(r, "item") \ {s}
<1>1. /\ UNCHANGED <<req, work, allowance, shown>>
      /\ task' \in [Sessions -> Task \cup {None}]
      /\ task'[s] = None /\ \A v \in Sessions \ {s} : task'[v] = task[v]
  BY DEF Close, vars, LimitsInv, LimitTypes
<1> QED
  BY <1>1 DEF Adding, Does

Unique == \A t, u \in Tables : t # u /\ table[t] # None /\ table[u] # None =>
            <<table[t].of, table[t].number>> # <<table[u].of, table[u].number>>

LEMMA CloseKeeps ==
  ASSUME LimitsInv, LicenceInv', NEW s \in Sessions, Close(s),
         table' \in [Tables -> Table \cup {None}], Unique',
         \A t \in Tables : table[t] # None => table'[t] # None,
         item' \in [Items -> Restaurants \cup {None, Gone}],
         TablesCounted', ItemsCounted'
  PROVE  LimitsInv'
<1>1. /\ UNCHANGED <<req, work, allowance, shown>>
      /\ task' \in [Sessions -> Task \cup {None}]
      /\ task'[s] = None /\ \A v \in Sessions \ {s} : task'[v] = task[v]
  BY CloseEffect
<1>2. LimitTypes'
  BY <1>1 DEF LimitsInv, LimitTypes, Unique
<1>3. (\A v \in Sessions : Does(v, "change") => table[task[v].table] # None)'
  <2> SUFFICES ASSUME NEW v \in Sessions, Does(v, "change")' PROVE table'[task'[v].table] # None
    OBVIOUS
  <2>1. v # s /\ task'[v] = task[v] /\ Does(v, "change")
    BY <1>1 DEF Does
  <2>2. task[v].table \in Tables
    BY <2>1 DEF Does, LimitsInv, LimitTypes, Task, Change
  <2> QED
    BY <2>1, <2>2 DEF LimitsInv
<1> QED
  BY <1>2, <1>3 DEF LimitsInv

(* The tables, and the items, that no write touches.                       *)
LEMMA TablesStay ==
  ASSUME LimitsInv, NEW s \in Sessions, Close(s),
         \A r \in Restaurants : Tabled(r)' \subseteq Tabled(r)
  PROVE  TablesCounted'
<1>1. \A r \in Restaurants : shown'[r].tables \in Nat /\ shown[r].tables <= shown'[r].tables
  BY CloseEffect DEF LimitsInv, LimitTypes, Allowance
<1>2. \A r \in Restaurants : Adding(r, "table")' \subseteq Adding(r, "table")
  BY CloseEffect
<1>3. \A r \in Restaurants : Bounded(Tabled(r), Adding(r, "table"), shown[r].tables)'
  BY <1>1, <1>2, TablesFrame
<1> QED
  BY <1>3 DEF TablesCounted

LEMMA ItemsStay ==
  ASSUME LimitsInv, NEW s \in Sessions, Close(s),
         \A r \in Restaurants : Listed(r)' \subseteq Listed(r)
  PROVE  ItemsCounted'
<1>1. \A r \in Restaurants : shown'[r].items \in Nat /\ shown[r].items <= shown'[r].items
  BY CloseEffect DEF LimitsInv, LimitTypes, Allowance
<1>2. \A r \in Restaurants : Adding(r, "item")' \subseteq Adding(r, "item")
  BY CloseEffect
<1>3. \A r \in Restaurants : Bounded(Listed(r), Adding(r, "item"), shown[r].items)'
  BY <1>1, <1>2, ItemsFrame
<1> QED
  BY <1>3 DEF ItemsCounted

LEMMA TableUntouched ==
  ASSUME LimitsInv, UNCHANGED table
  PROVE  /\ table' \in [Tables -> Table \cup {None}] /\ Unique'
         /\ \A t \in Tables : table[t] # None => table'[t] # None
         /\ \A r \in Restaurants : Tabled(r)' \subseteq Tabled(r)
BY DEF LimitsInv, LimitTypes, Unique, Tabled

LEMMA GiveUpKeeps ==
  ASSUME LimitsInv, LicenceInv', NEW s \in Sessions, GiveUp(s)
  PROVE  LimitsInv'
<1>1. Close(s) /\ UNCHANGED <<table, item>>
  BY DEF GiveUp
<1>2. \A r \in Restaurants : Listed(r)' \subseteq Listed(r)
  BY <1>1 DEF Listed
<1>3. item' \in [Items -> Restaurants \cup {None, Gone}]
  BY <1>1 DEF LimitsInv, LimitTypes
<1> QED
  BY <1>1, <1>2, <1>3, TableUntouched, TablesStay, ItemsStay, CloseKeeps

LEMMA RemoveKeeps ==
  ASSUME LimitsInv, LicenceInv', NEW s \in Sessions, CommitRemove(s)
  PROVE  LimitsInv'
<1>1. PICK i : i = task[s].item
  OBVIOUS
<1>2. Close(s) /\ UNCHANGED table /\ item' = [item EXCEPT ![i] = Gone]
  BY <1>1 DEF CommitRemove
<1>3. item' \in [Items -> Restaurants \cup {None, Gone}]
  BY <1>2 DEF LimitsInv, LimitTypes
<1>4. \A r \in Restaurants : Listed(r)' \subseteq Listed(r)
  BY <1>2, GoneAssumption DEF Listed, LimitsInv, LimitTypes
<1> QED
  BY <1>2, <1>3, <1>4, TableUntouched, TablesStay, ItemsStay, CloseKeeps

LEMMA ItemKeeps ==
  ASSUME LimitsInv, LicenceInv', NEW s \in Sessions, CommitItem(s)
  PROVE  LimitsInv'
<1>1. PICK o : o = task[s].of
  OBVIOUS
<1>2. PICK i \in Items : item[i] = None /\ item' = [item EXCEPT ![i] = o]
  BY <1>1 DEF CommitItem
<1>3. Does(s, "item") /\ Close(s) /\ UNCHANGED table
  BY DEF CommitItem
<1>4. o \in Restaurants
  BY <1>1, <1>3 DEF Does, LimitsInv, LimitTypes, Task, Change
<1>5. item' \in [Items -> Restaurants \cup {None, Gone}]
  BY <1>2, <1>4 DEF LimitsInv, LimitTypes
<1>6. \A r \in Restaurants : Listed(r)' \subseteq IF r = o THEN Listed(r) \cup {i} ELSE Listed(r)
  BY <1>2 DEF Listed, LimitsInv, LimitTypes
<1>7. ItemsCounted'
  <2> SUFFICES ASSUME NEW r \in Restaurants
               PROVE  Bounded(Listed(r), Adding(r, "item"), shown[r].items)'
    BY DEF ItemsCounted
  <2>0. shown[r].items \in Nat /\ shown' = shown
    BY CloseEffect, <1>3 DEF LimitsInv, LimitTypes, Allowance
  <2>1. Adding(r, "item")' \subseteq Adding(r, "item") \ {s}
    BY CloseEffect, <1>3
  <2>2. CASE r = o
    <3>1. s \in Adding(r, "item") /\ Adding(r, "item") \in SUBSET Sessions
      BY <1>1, <1>3, <2>2 DEF Adding
    <3>2. Bounded(Listed(r), Adding(r, "item"), shown[r].items)
      BY DEF LimitsInv, ItemsCounted
    <3>3. Bounded(Listed(r)', Adding(r, "item")', shown[r].items)
      <4> PICK S, T, A, B, l : /\ S = Listed(r) /\ T = Listed(r)' /\ A = Adding(r, "item")
                               /\ B = Adding(r, "item")' /\ l = shown[r].items
        OBVIOUS
      <4>1. T \in SUBSET (S \cup {i}) /\ B \in SUBSET (A \ {s})
        BY <1>6, <2>1, <2>2
      <4>2. A \in SUBSET Sessions /\ s \in A /\ l \in Nat /\ Bounded(S, A, l)
        BY <2>0, <3>1, <3>2
      <4>3. Bounded(T, B, l)
        BY <4>1, <4>2, BoundedAdd
      <4> QED
        BY <4>3
    <3> QED
      BY <2>0, <3>3 DEF Bounded
  <2>3. CASE r # o
    BY <1>6, <2>0, <2>1, <2>3, ItemsFrame
  <2> QED
    BY <2>2, <2>3
<1> QED
  BY <1>3, <1>5, <1>7, TableUntouched, TablesStay, CloseKeeps

LEMMA TableKeeps ==
  ASSUME LimitsInv, LicenceInv', NEW s \in Sessions, CommitTable(s)
  PROVE  LimitsInv'
<1>1. PICK k : k = [of |-> task[s].of, number |-> task[s].number, active |-> TRUE]
  OBVIOUS
<1>2. PICK u \in Tables : table[u] = None /\ table' = [table EXCEPT ![u] = k]
  BY <1>1 DEF CommitTable
<1>3. Does(s, "table") /\ Close(s) /\ UNCHANGED item /\ NumberFree(k.of, k.number)
  BY <1>1 DEF CommitTable
<1>4. k \in Table /\ k.of = task[s].of
  BY <1>1, <1>3 DEF Does, LimitsInv, LimitTypes, Task, Change, Table
<1>5. table'[u] = k /\ \A t \in Tables \ {u} : table'[t] = table[t]
  BY <1>2 DEF LimitsInv, LimitTypes
<1>6. table' \in [Tables -> Table \cup {None}]
  BY <1>2, <1>4 DEF LimitsInv, LimitTypes
<1>7. Unique'
  <2>1. \A t \in Tables \ {u} : table'[t] # None => table'[t].of # k.of \/ table'[t].number # k.number
    BY <1>3, <1>5 DEF NumberFree
  <2> QED
    BY <1>5, <2>1 DEF LimitsInv, LimitTypes, Unique
<1>8. \A t \in Tables : table[t] # None => table'[t] # None
  BY <1>2, <1>5
<1>9. \A r \in Restaurants : Tabled(r)' \subseteq IF r = k.of THEN Tabled(r) \cup {u} ELSE Tabled(r)
  BY <1>5 DEF Tabled
<1>10. TablesCounted'
  <2> SUFFICES ASSUME NEW r \in Restaurants
               PROVE  Bounded(Tabled(r), Adding(r, "table"), shown[r].tables)'
    BY DEF TablesCounted
  <2>0. shown[r].tables \in Nat /\ shown' = shown
    BY CloseEffect, <1>3 DEF LimitsInv, LimitTypes, Allowance
  <2>1. Adding(r, "table")' \subseteq Adding(r, "table") \ {s}
    BY CloseEffect, <1>3
  <2>2. CASE r = k.of
    <3>1. s \in Adding(r, "table") /\ Adding(r, "table") \in SUBSET Sessions
      BY <1>3, <1>4, <2>2 DEF Adding
    <3>2. Bounded(Tabled(r), Adding(r, "table"), shown[r].tables)
      BY DEF LimitsInv, TablesCounted
    <3>3. Bounded(Tabled(r)', Adding(r, "table")', shown[r].tables)
      <4> PICK S, T, A, B, l : /\ S = Tabled(r) /\ T = Tabled(r)' /\ A = Adding(r, "table")
                               /\ B = Adding(r, "table")' /\ l = shown[r].tables
        OBVIOUS
      <4>1. T \in SUBSET (S \cup {u}) /\ B \in SUBSET (A \ {s})
        BY <1>9, <2>1, <2>2
      <4>2. A \in SUBSET Sessions /\ s \in A /\ l \in Nat /\ Bounded(S, A, l)
        BY <2>0, <3>1, <3>2
      <4>3. Bounded(T, B, l)
        BY <4>1, <4>2, BoundedAdd
      <4> QED
        BY <4>3
    <3> QED
      BY <2>0, <3>3 DEF Bounded
  <2>3. CASE r # k.of
    BY <1>9, <2>0, <2>1, <2>3, TablesFrame
  <2> QED
    BY <2>2, <2>3
<1>11. item' \in [Items -> Restaurants \cup {None, Gone}]
       /\ \A r \in Restaurants : Listed(r)' \subseteq Listed(r)
  BY <1>3 DEF LimitsInv, LimitTypes, Listed
<1> QED
  BY <1>3, <1>6, <1>7, <1>8, <1>10, <1>11, ItemsStay, CloseKeeps

(* A changed table stays that of its restaurant.                           *)
LEMMA Changed ==
  ASSUME NEW row \in Table, NEW c \in Change
  PROVE  /\ Applied(row, c) \in Table /\ Applied(row, c).of = row.of
         /\ Applied(row, c).number = IF c.number = None THEN row.number ELSE c.number
BY DEF Table, Change, Applied

LEMMA ChangeKeeps ==
  ASSUME LimitsInv, LicenceInv', NEW s \in Sessions, CommitChange(s)
  PROVE  LimitsInv'
<1>1. PICK c, t, n : c = task[s] /\ t = c.table /\ n = c.number
  OBVIOUS
<1>2. Does(s, "change") /\ Close(s) /\ UNCHANGED item
  BY DEF CommitChange
<1>3. c \in Change /\ t \in Tables /\ table[t] # None /\ table[t] \in Table
  BY <1>1, <1>2 DEF Does, LimitsInv, LimitTypes, Task, Change
<1>4. PICK k : k = Applied(table[t], c)
  OBVIOUS
<1>5. /\ n # None => NumberFree(table[t].of, n) \/ table[t].number = n
      /\ table' = [table EXCEPT ![t] = k]
  BY <1>1, <1>4 DEF CommitChange
<1>6. k \in Table /\ k.of = table[t].of /\ k.number = IF n = None THEN table[t].number ELSE n
  BY <1>1, <1>3, <1>4, Changed
<1>7. table'[t] = k /\ k # None /\ \A u \in Tables \ {t} : table'[u] = table[u]
  BY <1>3, <1>5, <1>6, NoneIsNoTable DEF LimitsInv, LimitTypes
<1>8. table' \in [Tables -> Table \cup {None}]
  BY <1>5, <1>6 DEF LimitsInv, LimitTypes
<1>9. Unique'
  <2>1. \A u \in Tables \ {t} : table'[u] # None => table'[u].of # k.of \/ table'[u].number # k.number
    BY <1>3, <1>5, <1>6, <1>7 DEF NumberFree, LimitsInv, LimitTypes
  <2> QED
    BY <1>7, <2>1 DEF LimitsInv, LimitTypes, Unique
<1>10. \A u \in Tables : table[u] # None => table'[u] # None
  BY <1>7
<1>11. \A r \in Restaurants : Tabled(r)' \subseteq Tabled(r)
  BY <1>3, <1>6, <1>7 DEF Tabled
<1>12. item' \in [Items -> Restaurants \cup {None, Gone}]
       /\ \A r \in Restaurants : Listed(r)' \subseteq Listed(r)
  BY <1>2 DEF LimitsInv, LimitTypes, Listed
<1> QED
  BY <1>2, <1>8, <1>9, <1>10, <1>11, <1>12, TablesStay, ItemsStay, CloseKeeps

-----------------------------------------------------------------------------
(* Every step                                                              *)

LEMMA AskTableKeeps ==
  ASSUME LimitsInv, LicenceInv', NEW s \in Sessions, AskTable(s)
  PROVE  LimitsInv'
<1>1. PICK r \in Restaurants, n \in Numbers : \E x \in Current(r) :
        /\ TableCount(r) < allowance[sub[x].plan].tables
        /\ Take(s, "table", [op |-> "table", of |-> r, number |-> n]) /\ Reads(r, x)
  BY DEF AskTable
<1>2. PICK x \in Current(r) :
        /\ TableCount(r) < allowance[sub[x].plan].tables
        /\ Take(s, "table", [op |-> "table", of |-> r, number |-> n]) /\ Reads(r, x)
  BY <1>1
<1>3. PICK q : q = [op |-> "table", of |-> r, number |-> n]
  OBVIOUS
<1>4. q \in Task /\ q.op = "table" /\ q.of = r
  BY <1>3 DEF Task
<1>5. Cardinality(Tabled(r)) < shown'[r].tables
  <2> PICK a, b, m : /\ a = allowance[sub[x].plan].tables /\ b = shown'[r].tables
                     /\ m = Cardinality(Tabled(r))
    OBVIOUS
  <2>1. m < a /\ a <= b /\ a \in Nat /\ b \in Nat
    BY <1>2, ReadsGrows DEF TableCount, Tabled, Grows, Allowance
  <2>2. m \in Nat
    BY TabledFinite, FS_CardinalityType
  <2> QED
    BY <2>1, <2>2
<1> QED
  BY <1>2, <1>3, <1>4, <1>5, ReadsGrows, TakeKeeps

LEMMA AskItemKeeps ==
  ASSUME LimitsInv, LicenceInv', NEW s \in Sessions, AskItem(s)
  PROVE  LimitsInv'
<1>1. PICK r \in Restaurants : \E x \in Current(r) :
        /\ ItemCount(r) < allowance[sub[x].plan].items
        /\ Take(s, "item", [op |-> "item", of |-> r]) /\ Reads(r, x)
  BY DEF AskItem
<1>2. PICK x \in Current(r) :
        /\ ItemCount(r) < allowance[sub[x].plan].items
        /\ Take(s, "item", [op |-> "item", of |-> r]) /\ Reads(r, x)
  BY <1>1
<1>3. PICK q : q = [op |-> "item", of |-> r]
  OBVIOUS
<1>4. q \in Task /\ q.op = "item" /\ q.of = r
  BY <1>3 DEF Task
<1>5. Cardinality(Listed(r)) < shown'[r].items
  <2> PICK a, b, m : /\ a = allowance[sub[x].plan].items /\ b = shown'[r].items
                     /\ m = Cardinality(Listed(r))
    OBVIOUS
  <2>1. m < a /\ a <= b /\ a \in Nat /\ b \in Nat
    BY <1>2, ReadsGrows DEF ItemCount, Listed, Grows, Allowance
  <2>2. m \in Nat
    BY TabledFinite, FS_CardinalityType
  <2> QED
    BY <2>1, <2>2
<1> QED
  BY <1>2, <1>3, <1>4, <1>5, ReadsGrows, TakeKeeps

LEMMA NothingShown == ASSUME LimitsInv, UNCHANGED shown PROVE Grows
BY DEF LimitsInv, LimitTypes, Grows, Allowance

LEMMA AskOtherKeeps ==
  ASSUME LimitsInv, LicenceInv', NEW s \in Sessions,
         AskChange(s) \/ AskSwitchOff(s) \/ AskRemove(s)
  PROVE  LimitsInv'
<1>1. CASE AskChange(s)
  <2>1. PICK t \in Tables, n \in Numbers \cup {None}, active \in BOOLEAN \cup {None} :
          /\ table[t] # None
          /\ Take(s, "change", [op |-> "change", table |-> t, number |-> n, active |-> active])
    BY <1>1 DEF AskChange
  <2>2. PICK q : q = [op |-> "change", table |-> t, number |-> n, active |-> active]
    OBVIOUS
  <2>3. q \in Task /\ q.op = "change" /\ q.table = t
    BY <2>2 DEF Task, Change
  <2>4. UNCHANGED shown
    BY <1>1 DEF AskChange
  <2> QED
    BY <2>1, <2>2, <2>3, <2>4, NothingShown, TakeKeeps
<1>2. CASE AskSwitchOff(s)
  <2>1. PICK t \in Tables :
          /\ table[t] # None /\ UNCHANGED shown
          /\ Take(s, "switchOff", [op |-> "change", table |-> t, number |-> None, active |-> FALSE])
    BY <1>2 DEF AskSwitchOff
  <2>2. PICK q : q = [op |-> "change", table |-> t, number |-> None, active |-> FALSE]
    OBVIOUS
  <2>3. q \in Task /\ q.op = "change" /\ q.table = t
    BY <2>2 DEF Task, Change
  <2> QED
    BY <2>1, <2>2, <2>3, NothingShown, TakeKeeps
<1>3. CASE AskRemove(s)
  <2>1. PICK i \in Items : UNCHANGED shown /\ Take(s, "remove", [op |-> "remove", item |-> i])
    BY <1>3 DEF AskRemove
  <2>2. PICK q : q = [op |-> "remove", item |-> i]
    OBVIOUS
  <2>3. q \in Task /\ q.op = "remove"
    BY <2>2 DEF Task
  <2> QED
    BY <2>1, <2>2, <2>3, NothingShown, TakeKeeps
<1> QED
  BY <1>1, <1>2, <1>3

LEMMA InitLimits == LimitsInit => LimitsInv
<1> SUFFICES ASSUME LimitsInit PROVE LimitsInv
  OBVIOUS
<1>1. LicenceInv
  BY InitLicence DEF LimitsInit
<1>2. LimitTypes
  BY DEF LimitsInit, LimitTypes, Allowance, Nothing
<1>3. \A r \in Restaurants : /\ Tabled(r) = {} /\ Listed(r) = {}
                             /\ Adding(r, "table") = {} /\ Adding(r, "item") = {}
                             /\ shown[r].tables = 0 /\ shown[r].items = 0
  BY GoneAssumption, NoneAssumption DEF LimitsInit, Tabled, Listed, Adding, Does, Nothing
<1>4. Bounded({}, {}, 0)
  <2> PICK n, z : n = Cardinality(Sessions) /\ z = Cardinality({})
    OBVIOUS
  <2>1. n \in Nat /\ n # 0 /\ z = 0 /\ IsFiniteSet({})
    BY SessionsCount, FS_EmptySet
  <2>2. z + z < 0 + n
    BY <2>1
  <2> QED
    BY <2>1, <2>2 DEF Bounded
<1>5. TablesCounted /\ ItemsCounted
  BY <1>3, <1>4 DEF TablesCounted, ItemsCounted
<1> QED
  BY <1>1, <1>2, <1>5 DEF LimitsInv, LimitsInit, Does

LEMMA NextLimits == LimitsInv /\ [LimitsNext]_all => LimitsInv'
<1> SUFFICES ASSUME LimitsInv, [LimitsNext]_all PROVE LimitsInv'
  OBVIOUS
<1>0. LicenceInv'
  BY LicenceStep, NextLicence DEF LimitsInv
<1>1. ASSUME NEW p \in Plans, CreateLimits(p) \/ UpdateLimits(p) PROVE LimitsInv'
  BY <1>0, <1>1, PlanAside, AsideKeeps
<1>2. ASSUME NEW s \in Sessions, Licensed(s) PROVE LimitsInv'
  BY <1>0, <1>2, LicensedAside, AsideKeeps
<1>3. ASSUME NEW s \in Sessions,
             \/ AskTable(s) \/ AskChange(s) \/ AskSwitchOff(s) \/ AskItem(s) \/ AskRemove(s)
      PROVE  LimitsInv'
  BY <1>0, <1>3, AskTableKeeps, AskItemKeeps, AskOtherKeeps
<1>4. ASSUME NEW s \in Sessions,
             \/ CommitTable(s) \/ CommitChange(s) \/ CommitItem(s) \/ CommitRemove(s) \/ GiveUp(s)
      PROVE  LimitsInv'
  BY <1>0, <1>4, TableKeeps, ChangeKeeps, ItemKeeps, RemoveKeeps, GiveUpKeeps
<1>5. CASE (Tick /\ UNCHANGED <<work, allowance, rooms>>) \/ UNCHANGED all
  <2>1. UNCHANGED <<work, allowance, rooms, req>>
    BY <1>5 DEF Tick, all, vars
  <2>2. Aside
    BY <2>1 DEF Aside, LimitsInv, LimitTypes
  <2> QED
    BY <1>0, <2>2, AsideKeeps
<1> QED
  BY <1>1, <1>2, <1>3, <1>4, <1>5 DEF LimitsNext

-----------------------------------------------------------------------------
(* Theorems                                                                *)

(* Without tables and menu items: a code's uses are as many as its         *)
(* redemptions, and above its limit only by requests in flight together    *)
(* (subscription.service.ts, redeemLicenseCode).                           *)
THEOREM CodesAreCounted == Spec => []UsageIsCounted
<1>1. Init => LicenceInv
  BY InitLicence
<1>2. LicenceInv /\ [Next]_vars => LicenceInv'
  BY NextLicence
<1>3. LicenceInv => UsageIsCounted
  BY UsesAreCounted
<1> QED
  BY <1>1, <1>2, <1>3, PTL DEF Spec

(* The inductive invariant.                                                *)
THEOREM Invariance == LimitsSpec => []LimitsInv
BY InitLimits, NextLimits, PTL DEF LimitsSpec

(* Rows refer to rows that exist, and no two tables of a restaurant have   *)
(* the same number, though several requests check it at once and plans are *)
(* deleted under them (deletePlan; table.service.ts, updateTable).         *)
THEOREM RowsStaySound == LimitsSpec => []RowsAreSound
<1>1. LimitsInv => RowsAreSound
  BY DEF LimitsInv, LicenceInv, RowsAreSound
<1> QED
  BY <1>1, Invariance, PTL

(* A restaurant has more tables, or menu items, than the largest limit its *)
(* requests were shown only by requests in flight together, and the uses   *)
(* of a code stay counted (table.service.ts:39, menuItem.service.ts).      *)
THEOREM LimitsHold == LimitsSpec => []LimitsAreKept
<1>1. ASSUME LimitsInv PROVE LimitsAreKept
  <2>1. UsageIsCounted
    BY <1>1, UsesAreCounted DEF LimitsInv
  <2>2. ASSUME NEW S, NEW A \in SUBSET Sessions, NEW l \in Nat, Bounded(S, A, l)
        PROVE  Cardinality(S) < l + Cardinality(Sessions)
    <3> PICK s, a, n : s = Cardinality(S) /\ a = Cardinality(A) /\ n = Cardinality(Sessions)
      OBVIOUS
    <3>1. s \in Nat /\ a \in Nat /\ n \in Nat /\ s + a < l + n
      BY <2>2, SomeSessions, SessionsCount, FS_CardinalityType DEF Bounded
    <3>2. s < l + n
      BY <3>1
    <3> QED
      BY <3>2
  <2>3. ASSUME NEW r \in Restaurants
        PROVE  /\ Cardinality(Tabled(r)) < shown[r].tables + Cardinality(Sessions)
               /\ Cardinality(Listed(r)) < shown[r].items + Cardinality(Sessions)
    <3>1. shown[r].tables \in Nat /\ shown[r].items \in Nat
      BY <1>1 DEF LimitsInv, LimitTypes, Allowance
    <3>2. Adding(r, "table") \in SUBSET Sessions /\ Adding(r, "item") \in SUBSET Sessions
      BY DEF Adding
    <3>3. /\ Bounded(Tabled(r), Adding(r, "table"), shown[r].tables)
          /\ Bounded(Listed(r), Adding(r, "item"), shown[r].items)
      BY <1>1 DEF LimitsInv, TablesCounted, ItemsCounted
    <3> QED
      BY <2>2, <3>1, <3>2, <3>3
  <2> QED
    BY <2>1, <2>3 DEF LimitsAreKept, Tabled, Listed
<1> QED
  BY <1>1, Invariance, PTL
=================================================================================
