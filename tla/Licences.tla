------------------------------- MODULE Licences -------------------------------
(***************************************************************************)
(* Plans, licence codes and subscriptions: the administrator creates and   *)
(* deletes plans and codes, restaurants redeem a code or ask for a plan.   *)
(*                                                                         *)
(* Sources: controllers/subscription.controller.ts, services/              *)
(* subscription.service.ts, controllers/superadmin.controller.ts (plans,   *)
(* licence codes, a restaurant's subscription), prisma/schema.prisma.      *)
(*                                                                         *)
(* A request reads (Ask...) and later writes in one statement or           *)
(* transaction (Commit...), which the foreign keys may refuse.  What was   *)
(* read is written as it was, except the usage count, which the database   *)
(* increments.                                                             *)
(*                                                                         *)
(* Abstractions.  Time passes in days of the model.  A code that is        *)
(* inactive or expired is refused like one that does not exist.  Prices,   *)
(* and the billing notification are left out; what a plan allows is in     *)
(* PlanLimits.                                                             *)
(***************************************************************************)
EXTENDS Naturals, Sequences, FiniteSets

CONSTANTS Restaurants, Plans, Codes,
          Subs,       \* bound: subscriptions ever created
          Sessions,   \* concurrent requests
          None,
          Days,       \* durationDays of plans and codes
          Limits,     \* usageLimit of codes
          MaxTime,    \* bound: days
          Horizon     \* bound: the end of subscriptions

ASSUME NoneAssumption == None \notin Restaurants \cup Plans \cup Codes \cup Subs
ASSUME NumbersAssumption ==
  Days \subseteq Nat \ {0} /\ Limits \subseteq Nat \ {0} /\ MaxTime \in Nat /\ Horizon \in Nat

VARIABLES
  plan, \* plan -> absent, active or inactive
  sub,  \* subscriptions
  code, \* promo codes
  log,  \* code -> its redemptions: who, until when
  now,
  req   \* session -> what it has read, or None

vars == <<plan, sub, code, log, now, req>>

(* CANCELLED stands for EXPIRED too: nothing tells them apart.             *)
SubStatuses == {"PENDING", "ACTIVE", "CANCELLED"}
Sub  == [of : Restaurants, plan : Plans, status : SubStatuses, end : Nat]
Code == [plan : Plans, days : Days, limit : Limits, count : Nat]
Ops  == {"generate", "redeem", "ask", "deletePlan", "deleteCode", "update"}
Request == [op : Ops, of : Restaurants \cup {None}, code : Codes \cup {None}, count : Nat,
            plan : Plans \cup {None}, days : Days \cup {0}, sub : Subs \cup {None},
            row : Sub \cup {None}, at : Nat]

ASSUME NoneIsNoRow == None \notin Sub \cup Code
ASSUME SessionsAssumption == IsFiniteSet(Sessions) /\ Sessions # {}

TypeOK ==
  /\ plan \in [Plans -> {"absent", "active", "inactive"}]
  /\ sub \in [Subs -> Sub \cup {None}]
  /\ code \in [Codes -> Code \cup {None}]
  /\ log \in [Codes -> Seq([of : Restaurants, until : Nat])]
  /\ now \in 0 .. MaxTime
  /\ req \in [Sessions -> Request \cup {None}]
  /\ \A x \in Subs : sub[x] # None => plan[sub[x].plan] # "absent"
  /\ \A c \in Codes : code[c] # None => plan[code[c].plan] # "absent"

Init ==
  /\ plan = [p \in Plans |-> "absent"]
  /\ sub = [x \in Subs |-> None]
  /\ code = [c \in Codes |-> None]
  /\ log = [c \in Codes |-> <<>>]
  /\ now = 0
  /\ req = [s \in Sessions |-> None]

-----------------------------------------------------------------------------
Blank == [op |-> "redeem", of |-> None, code |-> None, count |-> 0, plan |-> None,
          days |-> 0, sub |-> None, row |-> None, at |-> 0]

Ask(s, request) ==
  /\ req[s] = None
  /\ req' = [req EXCEPT ![s] = request]
  /\ UNCHANGED <<plan, sub, code, log, now>>

Runs(s, op) == req[s] # None /\ req[s].op = op

Finish(s) == req' = [req EXCEPT ![s] = None]

(* A refusal, a rollback, a failure.                                       *)
Abandon(s) ==
  /\ req[s] # None
  /\ Finish(s)
  /\ UNCHANGED <<plan, sub, code, log, now>>

Planned(p) == plan[p] # "absent"

(* The foreign key of the plan is checked when the row is written.         *)
Create(of, p, status, end) ==
  \E x \in Subs :
    /\ sub[x] = None /\ Planned(p)
    /\ sub' = [sub EXCEPT ![x] = [of |-> of, plan |-> p, status |-> status, end |-> end]]

-----------------------------------------------------------------------------
(* The administrator's plans and codes                                     *)

CreatePlan(p) ==
  /\ ~Planned(p)
  /\ plan' = [plan EXCEPT ![p] = "active"]
  /\ UNCHANGED <<sub, code, log, now, req>>

UpdatePlan(p) ==
  /\ Planned(p)
  /\ \E status \in {"active", "inactive"} : plan' = [plan EXCEPT ![p] = status]
  /\ UNCHANGED <<sub, code, log, now, req>>

AskGenerate(s) ==
  \E p \in Plans, days \in Days :
    /\ Planned(p)
    /\ Ask(s, [Blank EXCEPT !.op = "generate", !.plan = p, !.days = days])

CommitGenerate(s) ==
  /\ Runs(s, "generate")
  /\ Planned(req[s].plan)
  /\ \E c \in Codes, limit \in Limits :
       /\ code[c] = None
       /\ code' = [code EXCEPT ![c] = [plan |-> req[s].plan, days |-> req[s].days,
                                       limit |-> limit, count |-> 0]]
  /\ Finish(s)
  /\ UNCHANGED <<plan, sub, log, now>>

(* Codes go with their plan, and redemptions with their code.              *)
DropCodes(gone) ==
  /\ code' = [c \in Codes |-> IF c \in gone THEN None ELSE code[c]]
  /\ log' = [c \in Codes |-> IF c \in gone THEN <<>> ELSE log[c]]

CodesOf(p) == {c \in Codes : code[c] # None /\ code[c].plan = p}

AskDeletePlan(s) ==
  \E p \in Plans : Planned(p) /\ Ask(s, [Blank EXCEPT !.op = "deletePlan", !.plan = p])

(* Seeded fault: the subscriptions of the plan are left alone.             *)
DropPlanOnly(p) ==
  /\ plan' = [plan EXCEPT ![p] = "absent"]
  /\ DropCodes(CodesOf(p))
  /\ UNCHANGED sub

(* Subscriptions, codes and plan in one transaction.                       *)
DropPlan(p) ==
  /\ plan' = [plan EXCEPT ![p] = "absent"]
  /\ sub' = [x \in Subs |-> IF sub[x] # None /\ sub[x].plan = p THEN None ELSE sub[x]]
  /\ DropCodes(CodesOf(p))

CommitDeletePlan(s) ==
  /\ Runs(s, "deletePlan")
  /\ Planned(req[s].plan)
  /\ DropPlan(req[s].plan)
  /\ Finish(s)
  /\ UNCHANGED now

AskDeleteCode(s) ==
  \E c \in Codes : code[c] # None /\ Ask(s, [Blank EXCEPT !.op = "deleteCode", !.code = c])

CommitDeleteCode(s) ==
  /\ Runs(s, "deleteCode")
  /\ code[req[s].code] # None
  /\ DropCodes({req[s].code})
  /\ Finish(s)
  /\ UNCHANGED <<plan, sub, now>>

-----------------------------------------------------------------------------
(* A restaurant's subscription                                             *)

SubsOf(r) == {x \in Subs : sub[x] # None /\ sub[x].of = r}
Running(r) == {x \in SubsOf(r) : sub[x].status = "ACTIVE" /\ sub[x].end >= now}

(* createPendingSubscription: the plan is active.                          *)
AskPending(s) ==
  \E r \in Restaurants, p \in Plans, days \in Days :
    /\ plan[p] = "active"
    /\ Ask(s, [Blank EXCEPT !.op = "ask", !.of = r, !.plan = p, !.days = days, !.at = now])

CommitPending(s) ==
  /\ Runs(s, "ask")
  /\ Create(req[s].of, req[s].plan, "PENDING", req[s].at + req[s].days)
  /\ Finish(s)
  /\ UNCHANGED <<plan, code, log, now>>

(* The latest subscription of the restaurant is updated, or a first one    *)
(* created; the administrator may choose plan, status and end.             *)
AskUpdate(s) ==
  \E r \in Restaurants, p \in Plans, days \in Days :
    /\ Planned(p)
    /\ \E x \in SubsOf(r) \cup {None} :
         /\ IF x = None THEN SubsOf(r) = {}
            ELSE \A y \in SubsOf(r) : sub[y].end <= sub[x].end
         /\ Ask(s, [Blank EXCEPT !.op = "update", !.of = r, !.plan = p, !.days = days,
                                 !.sub = x, !.at = now])

CommitUpdate(s) ==
  /\ Runs(s, "update")
  /\ LET r == req[s]
     IN  \E status \in SubStatuses :
           IF r.sub = None THEN Create(r.of, r.plan, status, r.at + r.days)
           ELSE /\ sub[r.sub] # None /\ Planned(r.plan)
                /\ sub' = [sub EXCEPT ![r.sub] =
                     [@ EXCEPT !.plan = r.plan, !.status = status, !.end = r.at + r.days]]
  /\ Finish(s)
  /\ UNCHANGED <<plan, code, log, now>>

Usable(c) == code[c].count < code[c].limit

(* redeemLicenseCode reads the code, and one running subscription if any.  *)
AskRedeem(s) ==
  \E r \in Restaurants, c \in Codes :
    /\ code[c] # None /\ Usable(c)
    /\ \E x \in Running(r) \cup {None} :
         /\ x = None => Running(r) = {}
         /\ Ask(s, [Blank EXCEPT !.of = r, !.code = c, !.count = code[c].count,
                                 !.plan = code[c].plan, !.days = code[c].days, !.sub = x,
                                 !.row = IF x = None THEN None ELSE sub[x], !.at = now])

Extends(r) == r.sub # None /\ r.row.plan = r.plan

(* The end that was read is extended, or one that starts now.              *)
Until(r) == IF Extends(r) THEN r.row.end + r.days ELSE r.at + r.days

(* A running subscription of the plan is extended; one of another plan is  *)
(* cancelled with all that are active, for a new one.                      *)
Grant(r) ==
  IF Extends(r)
    THEN /\ sub[r.sub] # None
         /\ sub' = [sub EXCEPT ![r.sub].end = Until(r)]
    ELSE \E x \in Subs :
           /\ sub[x] = None /\ Planned(r.plan)
           /\ sub' = [y \in Subs |->
                IF y = x THEN [of |-> r.of, plan |-> r.plan, status |-> "ACTIVE", end |-> Until(r)]
                ELSE IF r.sub # None /\ sub[y] # None /\ sub[y].of = r.of /\ sub[y].status = "ACTIVE"
                  THEN [sub[y] EXCEPT !.status = "CANCELLED"]
                ELSE sub[y]]

(* Seeded fault: the count that was read is written back, plus one.        *)
CountSeen(r) == r.count + 1

(* usageCount: { increment: 1 }.                                           *)
Counted(r) == code[r.code].count + 1

CommitRedeem(s) ==
  /\ Runs(s, "redeem")
  /\ LET r == req[s]
     IN  /\ code[r.code] # None /\ Until(r) <= Horizon
         /\ Grant(r)
         /\ code' = [code EXCEPT ![r.code].count = Counted(r)]
         /\ log' = [log EXCEPT ![r.code] = Append(@, [of |-> r.of, until |-> Until(r)])]
  /\ Finish(s)
  /\ UNCHANGED <<plan, now>>

Tick ==
  /\ now < MaxTime
  /\ now' = now + 1
  /\ UNCHANGED <<plan, sub, code, log, req>>

-----------------------------------------------------------------------------

Next ==
  \/ \E p \in Plans : CreatePlan(p) \/ UpdatePlan(p)
  \/ \E s \in Sessions :
       \/ AskGenerate(s) \/ CommitGenerate(s)
       \/ AskDeletePlan(s) \/ CommitDeletePlan(s) \/ AskDeleteCode(s) \/ CommitDeleteCode(s)
       \/ AskPending(s) \/ CommitPending(s) \/ AskUpdate(s) \/ CommitUpdate(s)
       \/ AskRedeem(s) \/ CommitRedeem(s) \/ Abandon(s)
  \/ Tick

Spec == Init /\ [][Next]_vars

-----------------------------------------------------------------------------
(* Correctness                                                             *)

(* The administrator's list shows, for each code, as many uses as there    *)
(* are redemptions, though restaurants redeem it at once; and a code is    *)
(* used more often than its limit only by requests that were in flight     *)
(* together, since the limit is read before the transaction.               *)
UsageIsCounted ==
  \A c \in Codes : code[c] # None =>
    /\ code[c].count = Len(log[c])
    /\ code[c].count < code[c].limit + Cardinality(Sessions)
===============================================================================
