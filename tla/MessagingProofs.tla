---------------------------- MODULE MessagingProofs ----------------------------
(***************************************************************************)
(* Proofs about Campaign, and about the WhatsApp channel that campaigns go *)
(* through (WhatsApp), for every value of their constants.                 *)
(*                                                                         *)
(* Campaign.  That no recipient is sent the campaign twice rests on the    *)
(* dispatch gate: OneRequest says what the marker it sets stands for.  What*)
(* the rows say of a request rests on OutcomeInv: while no message id is   *)
(* known a recipient is one worker's (Claimed), and a worker that will call*)
(* it a failure knows of no acceptance.  The books rest on BooksInv: a     *)
(* claim of the campaign is one attempt of each recipient at most, and a   *)
(* worker that has missed nobody has reached all but those still on its    *)
(* list.  Most steps leave all of this alone, and are told apart once      *)
(* (Tame, BooksKept); each of the others has its own lemma.                *)
(*                                                                         *)
(* WhatsApp.  That work begun under an old connection is harmless rests on *)
(* what its requests carry (ChannelVouches): a connection version is drawn *)
(* once, so that one the brand still has names the sender it was read with,*)
(* and a selection that has passed the check stays what it was.  That only *)
(* the guest decides rests on GuestVouches and GuestRows: a code has given *)
(* a token once it is verified, and a decision to opt in was asked for     *)
(* under such a token.                                                     *)
(***************************************************************************)
EXTENDS Campaign, WhatsApp, FiniteSetTheorems, SequenceTheorems, TLAPS

(***************************************************************************)
(* Campaign                                                                *)
(***************************************************************************)

OnTheWay == {"recheck", "send"}
Active   == {"gate", "recheck", "send", "store", "sent", "failed", "unsure"}

ActiveHasRecipient == \A w \in Workers : pc[w] \in Active => job[w].who \in Customers

(* A request has left its marker; a worker between the gate and the        *)
(* request has the marker too, no request yet, and the recipient to itself.*)
OneRequest ==
  /\ \A c \in Customers : requests[c] = 0 \/ (requests[c] = 1 /\ log[c].started)
  /\ \A w \in Workers : pc[w] \in OnTheWay => log[job[w].who].started /\ requests[job[w].who] = 0
  /\ \A v, w \in Workers : pc[v] \in OnTheWay /\ pc[w] \in OnTheWay /\ job[v].who = job[w].who => v = w

IInv == TypeOK /\ ActiveHasRecipient /\ OneRequest

-----------------------------------------------------------------------------
(* Statements: what an UPDATE leaves alone.                                *)

Touched(c, status) ==
  log'[c] = [status |-> status, attempts |-> log[c].attempts,
             started |-> log[c].started, msg |-> log[c].msg]

MarkersKept == \A c \in Customers : log'[c].started = log[c].started

LEMMA TouchedKeeps ==
  ASSUME NEW c, NEW status, Touched(c, status) \/ log'[c] = log[c]
  PROVE  log'[c].started = log[c].started
BY DEF Touched

LEMMA SetLogsEffect ==
  ASSUME TypeOK, NEW those, NEW status \in LogStatus, SetLogs(those, status)
  PROVE  /\ log' \in [Customers -> Log]
         /\ \A c \in Customers : IF c \in those THEN Touched(c, status) ELSE log'[c] = log[c]
         /\ MarkersKept
<1>1. /\ log' \in [Customers -> Log]
      /\ \A c \in Customers : IF c \in those THEN Touched(c, status) ELSE log'[c] = log[c]
  BY DEF TypeOK, SetLogs, Touched, Log
<1> QED
  BY <1>1, TouchedKeeps DEF MarkersKept

LEMMA SetLogEffect ==
  ASSUME TypeOK, NEW c \in Customers, NEW from, NEW status \in LogStatus, SetLog(c, from, status)
  PROVE  /\ log' \in [Customers -> Log]
         /\ IF log[c].status \in from THEN Touched(c, status) ELSE log'[c] = log[c]
         /\ \A d \in Customers \ {c} : log'[d] = log[d]
         /\ MarkersKept
<1>1. /\ log' \in [Customers -> Log]
      /\ IF log[c].status \in from THEN Touched(c, status) ELSE log'[c] = log[c]
      /\ \A d \in Customers \ {c} : log'[d] = log[d]
  BY DEF TypeOK, SetLog, Touched, Log
<1> QED
  BY <1>1, TouchedKeeps DEF MarkersKept

LEMMA SetClaimedEffect ==
  ASSUME TypeOK, NEW w \in Workers, job[w].who \in Customers,
         NEW status \in LogStatus, SetClaimed(w, status)
  PROVE  /\ log' \in [Customers -> Log]
         /\ \/ UNCHANGED log
            \/ /\ log[job[w].who].status = "DISPATCHING"
               /\ log[job[w].who].attempts = job[w].seen[job[w].who] + 1
               /\ Touched(job[w].who, status)
               /\ \A d \in Customers \ {job[w].who} : log'[d] = log[d]
         /\ MarkersKept
<1> PICK c : c = job[w].who
  OBVIOUS
<1>1. CASE /\ log[c].status = "DISPATCHING" /\ log[c].attempts = job[w].seen[c] + 1
           /\ log' = [log EXCEPT ![c].status = status]
  <2>1. log \in [Customers -> Log] /\ c \in Customers /\ log[c] \in Log
    BY DEF TypeOK
  <2>2. log' = [log EXCEPT ![c] = [log[c] EXCEPT !.status = status]]
    BY <1>1
  <2>3. [log[c] EXCEPT !.status = status] \in Log
    BY <2>1 DEF Log
  <2>4. log' \in [Customers -> Log] /\ \A d \in Customers \ {c} : log'[d] = log[d]
    BY <2>1, <2>2, <2>3
  <2>5. log'[c] = [log[c] EXCEPT !.status = status]
    BY <2>1, <2>2
  <2>6. Touched(c, status)
    BY <2>1, <2>5 DEF Touched, Log
  <2>7. MarkersKept
    BY <2>4, <2>6, TouchedKeeps DEF MarkersKept
  <2> QED
    BY <1>1, <2>4, <2>6, <2>7
<1>2. CASE UNCHANGED log
  BY <1>2 DEF TypeOK, MarkersKept
<1> QED
  BY <1>1, <1>2 DEF SetClaimed

LEMMA JobEffect ==
  ASSUME TypeOK, NEW w \in Workers, NEW j \in Job, job' = [job EXCEPT ![w] = j]
  PROVE  job' \in [Workers -> Job] /\ job'[w] = j /\ \A v \in Workers \ {w} : job'[v] = job[v]
BY DEF TypeOK

LEMMA JobFields ==
  ASSUME NEW j \in Job
  PROVE  /\ j = [who |-> j.who, todo |-> j.todo, seen |-> j.seen, missed |-> j.missed,
                 round |-> j.round]
         /\ j.who \in Customers \cup {None} /\ j.todo \in SUBSET Customers
         /\ j.seen \in [Customers -> Nat] /\ j.missed \in BOOLEAN /\ j.round \in Nat
BY DEF Job

LEMMA MissEffect ==
  ASSUME TypeOK, NEW w \in Workers, NEW c, Miss(w, c)
  PROVE  /\ job' \in [Workers -> Job] /\ job'[w].who = None
         /\ job'[w].todo = job[w].todo \ {c} /\ job'[w].seen = job[w].seen /\ job'[w].missed
         /\ \A v \in Workers \ {w} : job'[v] = job[v]
<1> DEFINE j == [who |-> None, todo |-> job[w].todo \ {c}, seen |-> job[w].seen,
                 missed |-> TRUE, round |-> job[w].round]
<1>1. job[w] \in Job
  BY DEF TypeOK
<1>2. j \in Job
  BY <1>1, JobFields DEF Job
<1>3. job' = [job EXCEPT ![w] = j]
  BY DEF Miss
<1>4. j.who = None /\ j.todo = job[w].todo \ {c} /\ j.seen = job[w].seen /\ j.missed = TRUE
  BY DEF j
<1> HIDE DEF j
<1>5. job' \in [Workers -> Job] /\ job'[w] = j /\ \A v \in Workers \ {w} : job'[v] = job[v]
  BY <1>2, <1>3, JobEffect
<1>6. job'[w].missed = TRUE
  BY <1>4, <1>5
<1> QED
  BY <1>4, <1>5, <1>6

LEMMA SentEffect ==
  ASSUME TypeOK, NEW w \in Workers, RecordSent(w)
  PROVE  /\ job' \in [Workers -> Job]
         /\ job'[w].who = None /\ job'[w].todo = job[w].todo /\ job'[w].seen = job[w].seen
         /\ job'[w].missed = job[w].missed
         /\ \A v \in Workers \ {w} : job'[v] = job[v]
<1> DEFINE j == [who |-> None, todo |-> job[w].todo, seen |-> job[w].seen,
                 missed |-> job[w].missed, round |-> job[w].round]
<1>1. job[w] \in Job
  BY DEF TypeOK
<1>2. j \in Job
  BY <1>1, JobFields DEF Job
<1>3. job' = [job EXCEPT ![w] = j]
  <2>1. [job[w] EXCEPT !.who = None] = j
    BY <1>1 DEF Job
  <2> QED
    BY <2>1 DEF RecordSent
<1>4. j.who = None /\ j.todo = job[w].todo /\ j.seen = job[w].seen
  BY DEF j
<1>5. j.missed = job[w].missed
  BY DEF j
<1> HIDE DEF j
<1>6. job' \in [Workers -> Job] /\ job'[w] = j /\ \A v \in Workers \ {w} : job'[v] = job[v]
  BY <1>2, <1>3, JobEffect
<1>7. job'[w].missed = job[w].missed
  BY <1>5, <1>6
<1> QED
  BY <1>4, <1>6, <1>7

LEMMA LeaveEffect ==
  ASSUME TypeOK, NEW w \in Workers, Leave(w)
  PROVE  /\ job' \in [Workers -> Job]
         /\ job'[w].todo = {}
         /\ \A v \in Workers \ {w} : job'[v] = job[v]
<1>1. NoJob \in Job /\ NoJob.todo = {}
  BY DEF NoJob, Job
<1> QED
  BY <1>1, JobEffect DEF Leave

LEMMA ClaimEffect ==
  ASSUME TypeOK, NEW w \in Workers, NEW c \in Customers, ClaimRecipient(w, c)
  PROVE  /\ job' \in [Workers -> Job]
         /\ job'[w].who = c /\ job'[w].seen = job[w].seen /\ job'[w].todo = job[w].todo \ {c}
         /\ job'[w].missed = job[w].missed
         /\ \A v \in Workers \ {w} : job'[v] = job[v]
         /\ log' \in [Customers -> Log]
         /\ log'[c] = [status |-> "DISPATCHING", attempts |-> log[c].attempts + 1,
                       started |-> log[c].started, msg |-> log[c].msg]
         /\ \A d \in Customers \ {c} : log'[d] = log[d]
         /\ MarkersKept
<1> DEFINE j == [who |-> c, todo |-> job[w].todo \ {c}, seen |-> job[w].seen,
                 missed |-> job[w].missed, round |-> job[w].round]
           l == [status |-> "DISPATCHING", attempts |-> log[c].attempts + 1,
                 started |-> log[c].started, msg |-> log[c].msg]
<1>1. job[w] \in Job /\ log[c] \in Log
  BY DEF TypeOK
<1>2. j \in Job /\ l \in Log
  BY <1>1, JobFields DEF Job, Log, LogStatus
<1>3. job' = [job EXCEPT ![w] = j]
  BY DEF ClaimRecipient
<1>4. log' = [log EXCEPT ![c] = l]
  BY DEF ClaimRecipient
<1>5. j.who = c /\ j.seen = job[w].seen /\ j.todo = job[w].todo \ {c}
  OBVIOUS
<1>10. j.missed = job[w].missed
  OBVIOUS
<1> HIDE DEF j, l
<1>6. job' \in [Workers -> Job] /\ job'[w] = j /\ \A v \in Workers \ {w} : job'[v] = job[v]
  BY <1>2, <1>3, JobEffect
<1>7. log' \in [Customers -> Log] /\ log'[c] = l /\ \A d \in Customers \ {c} : log'[d] = log[d]
  BY <1>2, <1>4 DEF TypeOK
<1>8. l.started = log[c].started
  BY DEF l
<1>9. MarkersKept
  BY <1>7, <1>8 DEF MarkersKept
<1>11. job'[w].missed = job[w].missed
  BY <1>6, <1>10
<1> QED
  BY <1>5, <1>6, <1>7, <1>9, <1>11 DEF l

LEMMA StoreEffect ==
  ASSUME TypeOK, NEW w \in Workers, StoreMessageId(w), NEW c \in Customers
  PROVE  log'[c] = log[c] \/ log'[c] = [log[c] EXCEPT !.msg = TRUE]
<1>1. log' = [log EXCEPT ![job[w].who].msg = TRUE] \/ log' = log
  BY DEF StoreMessageId
<1>2. CASE c = job[w].who
  BY <1>1, <1>2 DEF TypeOK
<1>3. CASE c # job[w].who
  BY <1>1, <1>3 DEF TypeOK
<1> QED
  BY <1>2, <1>3

LEMMA CatchTarget ==
  ASSUME NEW step \in DOMAIN Catch
  PROVE  /\ Catch[step] \in {"idle", "abort", "failed", "unsure"}
         /\ Catch[step] \in {"failed", "unsure"} => step \in Active
BY DEF Catch, Active

-----------------------------------------------------------------------------
(* Types                                                                   *)

LEMMA InitIInv == Init => IInv
<1> SUFFICES ASSUME Init PROVE IInv
  OBVIOUS
<1>1. NoJob \in Job
  BY DEF NoJob, Job
<1>2. TypeOK
  BY <1>1, BoundsAssumption DEF Init, TypeOK, Log, LogStatus, CampaignStatus, Steps
<1>3. ActiveHasRecipient
  BY DEF Init, ActiveHasRecipient, Active
<1>4. OneRequest
  <2>1. \A w \in Workers : pc[w] \notin OnTheWay
    BY DEF Init, OnTheWay
  <2>2. \A c \in Customers : requests[c] = 0
    BY DEF Init
  <2> QED
    BY <2>1, <2>2 DEF OneRequest
<1> QED
  BY <1>2, <1>3, <1>4 DEF IInv

LEMMA TypeNext == ASSUME IInv, [Next]_vars PROVE TypeOK'
<1> USE DEF IInv, TypeOK, rows, outside, actors, faults, vars
<1>1. ASSUME NEW p \in Operators, AskQueue(p) PROVE TypeOK'
  BY <1>1 DEF AskQueue
<1>2. ASSUME NEW p \in Operators, NEW targets \in SUBSET Customers, CommitQueue(p, targets)
      PROVE  TypeOK'
  <2>1. log' \in [Customers -> Log]
    BY <1>2 DEF CommitQueue, Log, LogStatus
  <2> QED
    BY <1>2, <2>1 DEF CommitQueue, SetCampaign, CampaignStatus
<1>3. CASE CancelCampaign
  BY <1>3 DEF CancelCampaign, SetCampaign, CampaignStatus
<1>4. CASE CancelLogs
  BY <1>4, SetLogsEffect DEF CancelLogs, LogStatus, DeadEnds
<1>5. CASE CancelDies
  BY <1>5, BoundsAssumption DEF CancelDies
<1>6. ASSUME NEW w \in Workers, StartCycle(w) PROVE TypeOK'
  BY <1>6 DEF StartCycle, At, Steps
<1>7. ASSUME NEW w \in Workers, Work(w) PROVE TypeOK'
  <2>1. CASE MarkAbandoned(w)
    BY <2>1, SetLogsEffect DEF MarkAbandoned, At, Steps, LogStatus, DeadEnds
  <2>2. CASE ReleaseStale(w)
    BY <2>2 DEF ReleaseStale, At, Steps, SetCampaign, CampaignStatus
  <2>3. CASE ExhaustCampaign(w)
    BY <2>3 DEF ExhaustCampaign, At, Steps, SetCampaign, CampaignStatus
  <2>4. CASE SweepSpent(w)
    BY <2>4, SetLogsEffect DEF SweepSpent, At, Steps, LogStatus, DeadEnds
  <2>5. CASE Claim(w)
    BY <2>5 DEF Claim, At, Steps, CampaignStatus
  <2>6. CASE NothingDue(w)
    BY <2>6 DEF NothingDue, At, Steps
  <2>7. CASE Load(w)
    <3>1. job' \in [Workers -> Job]
      <4>1. job[w] \in Job /\ campaign.attempts \in Nat
        OBVIOUS
      <4>2. [who |-> job[w].who, todo |-> job[w].todo, seen |-> job[w].seen,
             missed |-> job[w].missed, round |-> campaign.attempts] \in Job
        BY <4>1, JobFields DEF Job
      <4>3. [job[w] EXCEPT !.round = campaign.attempts] \in Job
        BY <4>1, <4>2 DEF Job
      <4> QED
        BY <2>7, <4>3 DEF Load
    <3> QED
      BY <2>7, <3>1 DEF Load, At, Steps
  <2>8. CASE Scan(w)
    <3> DEFINE todo == {c \in Customers : log[c].status \notin {"absent"} \cup SentFamily \cup DeadEnds}
               missed == \E c \in Customers : log[c].status \in DeadEnds
               seen == [c \in Customers |-> log[c].attempts]
    <3>1. job[w] \in Job /\ seen \in [Customers -> Nat] /\ todo \in SUBSET Customers
          /\ missed \in BOOLEAN
      BY DEF Log
    <3>2. job' = [job EXCEPT ![w] = [who |-> None, round |-> job[w].round, todo |-> todo,
                                     missed |-> missed, seen |-> seen]]
      BY <2>8 DEF Scan
    <3> HIDE DEF todo, missed, seen
    <3>3. job' \in [Workers -> Job]
      <4>1. [who |-> None, round |-> job[w].round, todo |-> todo, missed |-> missed,
             seen |-> seen] \in Job
        BY <3>1, JobFields DEF Job
      <4> QED
        BY <3>2, <4>1
    <3> QED
      BY <2>8, <3>3 DEF Scan, At, Steps
  <2>9. ASSUME NEW c \in Customers, RuleOut(w, c) PROVE TypeOK'
    BY <2>9, SetLogEffect, MissEffect DEF RuleOut, At, Steps, LogStatus, DeadEnds
  <2>10. ASSUME NEW c \in Customers, ClaimRecipient(w, c) PROVE TypeOK'
    BY <2>10, ClaimEffect DEF ClaimRecipient, At, Steps
  <2>11. ASSUME NEW c \in Customers, LoseRecipient(w, c) PROVE TypeOK'
    BY <2>11, MissEffect DEF LoseRecipient, At, Steps
  <2>12. CASE Finalize(w)
    BY <2>12, LeaveEffect DEF Finalize, At, Steps, SetCampaign, CampaignStatus
  <2>13. CASE Abort(w)
    BY <2>13, LeaveEffect DEF Abort, At, Steps, SetCampaign, CampaignStatus
  <2>14. CASE CheckFails(w) \/ GateClosed(w) \/ Recheck(w)
    BY <2>14 DEF CheckFails, GateClosed, Recheck, At, Steps
  <2>15. CASE PassGate(w)
    <3>1. job[w].who \in Customers
      BY <2>15 DEF PassGate, At, ActiveHasRecipient, Active
    <3> QED
      BY <2>15, <3>1 DEF PassGate, At, Steps, Log
  <2>16. ASSUME NEW reply \in Replies, Send(w, reply) PROVE TypeOK'
    <3>1. pc' \in [Workers -> Steps]
      BY <2>16, RepliesAssumption DEF Send, At, Steps
    <3>2. requests' \in [Customers -> Nat]
      <4>1. job[w].who \in Customers
        BY <2>16 DEF Send, ActiveHasRecipient, Active
      <4> QED
        BY <2>16, <4>1 DEF Send
    <3>3. provider' \in [Customers -> {"none", "accepted", "refused", "undeliverable"}]
      BY <2>16 DEF Send
    <3> QED
      BY <2>16, <3>1, <3>2, <3>3 DEF Send
  <2>17. CASE StoreMessageId(w)
    <3>1. job[w].who \in Customers
      BY <2>17 DEF StoreMessageId, ActiveHasRecipient, Active
    <3>2. log' \in [Customers -> Log]
      <4>1. log[job[w].who] \in Log
        BY <3>1
      <4>2. [log[job[w].who] EXCEPT !.msg = TRUE] \in Log
        BY <4>1 DEF Log
      <4> QED
        BY <2>17, <4>2 DEF StoreMessageId
    <3>3. pc' \in [Workers -> Steps]
      BY <2>17 DEF StoreMessageId, At, Steps
    <3> QED
      BY <2>17, <3>2, <3>3 DEF StoreMessageId
  <2>18. CASE RecordSent(w)
    <3>1. job[w].who \in Customers /\ "SENT" \in LogStatus
      BY <2>18 DEF RecordSent, At, ActiveHasRecipient, Active, LogStatus, SentFamily
    <3>2. log' \in [Customers -> Log]
      BY <2>18, <3>1, SetClaimedEffect DEF RecordSent
    <3>3. job' \in [Workers -> Job]
      BY <2>18, SentEffect
    <3> QED
      BY <2>18, <3>2, <3>3 DEF RecordSent, At, Steps
  <2>19. CASE RecordFailure(w)
    <3> DEFINE status == IF job[w].seen[job[w].who] + 1 >= MaxAttempts THEN "EXHAUSTED" ELSE "FAILED"
    <3>1. job[w].who \in Customers /\ status \in LogStatus
      BY <2>19 DEF RecordFailure, At, ActiveHasRecipient, Active, LogStatus, DeadEnds
    <3>2. SetClaimed(w, status)
      BY <2>19 DEF RecordFailure
    <3> HIDE DEF status
    <3>3. log' \in [Customers -> Log]
      BY <3>1, <3>2, SetClaimedEffect
    <3>4. job' \in [Workers -> Job]
      BY <2>19, MissEffect DEF RecordFailure
    <3> QED
      BY <2>19, <3>3, <3>4 DEF RecordFailure, At, Steps
  <2>20. CASE RecordUnsure(w)
    <3> DEFINE status == "PENDING_RECONCILIATION"
    <3>1. job[w].who \in Customers /\ status \in LogStatus
      BY <2>20 DEF RecordUnsure, At, ActiveHasRecipient, Active, LogStatus, DeadEnds
    <3>2. SetClaimed(w, status)
      BY <2>20 DEF RecordUnsure
    <3> HIDE DEF status
    <3>3. log' \in [Customers -> Log]
      BY <3>1, <3>2, SetClaimedEffect
    <3>4. job' \in [Workers -> Job]
      BY <2>20, MissEffect DEF RecordUnsure
    <3> QED
      BY <2>20, <3>3, <3>4 DEF RecordUnsure, At, Steps
  <2> QED
    BY <1>7, <2>1, <2>2, <2>3, <2>4, <2>5, <2>6, <2>7, <2>8, <2>9, <2>10, <2>11, <2>12, <2>13,
       <2>14, <2>15, <2>16, <2>17, <2>18, <2>19, <2>20 DEF Work
<1>8. ASSUME NEW w \in Workers, StatementFails(w) PROVE TypeOK'
  <2>1. pc' \in [Workers -> Steps]
    BY <1>8, CatchTarget DEF StatementFails, Steps
  <2>2. job' \in [Workers -> Job]
    BY <1>8, LeaveEffect DEF StatementFails
  <2> QED
    BY <1>8, <2>1, <2>2, BoundsAssumption DEF StatementFails
<1>9. ASSUME NEW w \in Workers, Crash(w) PROVE TypeOK'
  BY <1>9, LeaveEffect, BoundsAssumption DEF Crash, Steps
<1>10. CASE GoStale
  BY <1>10 DEF GoStale
<1>11. ASSUME NEW h \in Hooks, ApplyWebhook(h) PROVE TypeOK'
  BY <1>11, SetLogEffect DEF ApplyWebhook
<1>12. ASSUME NEW h \in Hooks, NEW c \in Customers, NEW incoming \in SentFamily \cup {"FAILED"},
              ReadWebhook(h, c, incoming)
       PROVE  TypeOK'
  BY <1>12 DEF ReadWebhook, WebhookTransition, Log, LogStatus
<1>13. ASSUME NEW c \in Customers, Bounce(c) PROVE TypeOK'
  BY <1>13 DEF Bounce
<1>14. CASE UNCHANGED vars
  BY <1>14
<1> QED
  BY <1>1, <1>2, <1>3, <1>4, <1>5, <1>6, <1>7, <1>8, <1>9, <1>10, <1>11, <1>12, <1>13, <1>14
     DEF Next

-----------------------------------------------------------------------------
(* The dispatch gate                                                       *)

(* Markers stay, requests are as before, and who is on the way was so.     *)
Quiet ==
  /\ \A c \in Customers : log[c].started => log'[c].started
  /\ UNCHANGED requests
  /\ \A w \in Workers : pc'[w] \in Active => pc[w] \in Active /\ job'[w].who = job[w].who
  /\ \A w \in Workers : pc'[w] \in OnTheWay => pc[w] \in OnTheWay

LEMMA QuietKeeps == ASSUME IInv, Quiet PROVE (ActiveHasRecipient /\ OneRequest)'
<1> USE DEF IInv, Quiet
<1>1. ActiveHasRecipient'
  BY DEF ActiveHasRecipient
<1>2. \A w \in Workers : pc'[w] \in OnTheWay =>
        /\ pc[w] \in OnTheWay /\ job'[w].who = job[w].who /\ job[w].who \in Customers
  BY DEF ActiveHasRecipient, OnTheWay, Active
<1>3. OneRequest'
  BY <1>2 DEF OneRequest
<1> QED
  BY <1>1, <1>3

LEMMA QuietWork ==
  ASSUME IInv, NEW w \in Workers, Work(w),
         \A c \in Customers : ~ClaimRecipient(w, c),
         ~PassGate(w), \A reply \in Replies : ~Send(w, reply), ~Recheck(w)
  PROVE  Quiet
<1> USE DEF IInv, TypeOK, Quiet, At, Active, OnTheWay, rows, outside
<1>1. CASE MarkAbandoned(w)
  BY <1>1, SetLogsEffect DEF MarkAbandoned, MarkersKept, LogStatus, DeadEnds
<1>2. CASE ReleaseStale(w)
  BY <1>2 DEF ReleaseStale
<1>3. CASE ExhaustCampaign(w)
  BY <1>3 DEF ExhaustCampaign
<1>4. CASE SweepSpent(w)
  BY <1>4, SetLogsEffect DEF SweepSpent, MarkersKept, LogStatus, DeadEnds
<1>5. CASE Claim(w) \/ NothingDue(w)
  BY <1>5 DEF Claim, NothingDue
<1>6. CASE Load(w)
  BY <1>6 DEF Load
<1>7. CASE Scan(w)
  BY <1>7 DEF Scan
<1>8. ASSUME NEW c \in Customers, RuleOut(w, c) PROVE Quiet
  BY <1>8, SetLogEffect, MissEffect DEF RuleOut, MarkersKept, LogStatus, DeadEnds
<1>9. ASSUME NEW c \in Customers, LoseRecipient(w, c) PROVE Quiet
  BY <1>9, MissEffect DEF LoseRecipient
<1>10. CASE Finalize(w)
  BY <1>10, LeaveEffect DEF Finalize
<1>11. CASE Abort(w)
  BY <1>11, LeaveEffect DEF Abort
<1>12. CASE CheckFails(w) \/ GateClosed(w)
  BY <1>12 DEF CheckFails, GateClosed
<1>13. CASE StoreMessageId(w)
  <2>1. job[w].who \in Customers
    BY <1>13 DEF StoreMessageId, ActiveHasRecipient
  <2>2. \A c \in Customers : log'[c].started = log[c].started
    BY <1>13, <2>1 DEF StoreMessageId, Log
  <2> QED
    BY <1>13, <2>2 DEF StoreMessageId
<1>14. CASE RecordSent(w)
  <2>1. job[w].who \in Customers
    BY <1>14 DEF RecordSent, ActiveHasRecipient
  <2> QED
    BY <1>14, <2>1, SetClaimedEffect, SentEffect DEF RecordSent, MarkersKept, LogStatus, SentFamily
<1>15. CASE RecordFailure(w)
  <2> DEFINE status == IF job[w].seen[job[w].who] + 1 >= MaxAttempts THEN "EXHAUSTED" ELSE "FAILED"
  <2>1. job[w].who \in Customers /\ status \in LogStatus
    BY <1>15 DEF RecordFailure, ActiveHasRecipient, LogStatus, DeadEnds
  <2>2. SetClaimed(w, status)
    BY <1>15 DEF RecordFailure
  <2> HIDE DEF status
  <2>3. \A c \in Customers : log'[c].started = log[c].started
    BY <2>1, <2>2, SetClaimedEffect DEF MarkersKept
  <2> QED
    BY <1>15, <2>3, MissEffect DEF RecordFailure
<1>16. CASE RecordUnsure(w)
  <2>1. job[w].who \in Customers
    BY <1>16 DEF RecordUnsure, ActiveHasRecipient
  <2> QED
    BY <1>16, <2>1, SetClaimedEffect, MissEffect DEF RecordUnsure, MarkersKept, LogStatus, DeadEnds
<1> QED
  BY <1>1, <1>2, <1>3, <1>4, <1>5, <1>6, <1>7, <1>8, <1>9, <1>10, <1>11, <1>12, <1>13, <1>14,
     <1>15, <1>16 DEF Work

LEMMA QuietOthers ==
  ASSUME IInv, [Next]_vars, \A w \in Workers : ~Work(w)
  PROVE  Quiet
<1> USE DEF IInv, TypeOK, Quiet, rows, outside, actors, faults
<1>1. ASSUME NEW p \in Operators, AskQueue(p) PROVE Quiet
  BY <1>1 DEF AskQueue
<1>2. ASSUME NEW p \in Operators, NEW targets \in SUBSET Customers, CommitQueue(p, targets)
      PROVE  Quiet
  <2>1. \A c \in Customers : log'[c].started = log[c].started
    BY <1>2 DEF CommitQueue, Log
  <2> QED
    BY <1>2, <2>1 DEF CommitQueue
<1>3. CASE CancelCampaign \/ CancelDies
  BY <1>3 DEF CancelCampaign, CancelDies
<1>4. CASE CancelLogs
  BY <1>4, SetLogsEffect DEF CancelLogs, MarkersKept, LogStatus, DeadEnds
<1>5. ASSUME NEW w \in Workers, StartCycle(w) PROVE Quiet
  BY <1>5 DEF StartCycle, At, Active, OnTheWay
<1>6. ASSUME NEW w \in Workers, StatementFails(w) PROVE Quiet
  <2>1. pc'[w] \notin OnTheWay /\ \A v \in Workers \ {w} : pc'[v] = pc[v]
    BY <1>6, CatchTarget DEF StatementFails, OnTheWay
  <2>2. pc'[w] \in Active => pc[w] \in Active /\ UNCHANGED job
    BY <1>6, CatchTarget DEF StatementFails, Active
  <2>3. \A v \in Workers \ {w} : job'[v] = job[v]
    BY <1>6, LeaveEffect DEF StatementFails
  <2> QED
    BY <1>6, <2>1, <2>2, <2>3 DEF StatementFails
<1>7. ASSUME NEW w \in Workers, Crash(w) PROVE Quiet
  BY <1>7, LeaveEffect DEF Crash, Active, OnTheWay
<1>8. CASE GoStale
  BY <1>8 DEF GoStale
<1>9. ASSUME NEW h \in Hooks, ApplyWebhook(h) PROVE Quiet
  <2>1. hook[h].who \in Customers /\ hook[h].next \in LogStatus
    BY <1>9 DEF ApplyWebhook
  <2>2. \A c \in Customers : log'[c].started = log[c].started
    BY <1>9, <2>1, SetLogEffect DEF ApplyWebhook, MarkersKept
  <2> QED
    BY <1>9, <2>2 DEF ApplyWebhook
<1>10. ASSUME NEW h \in Hooks, NEW c \in Customers, NEW incoming \in SentFamily \cup {"FAILED"},
              ReadWebhook(h, c, incoming)
       PROVE  Quiet
  BY <1>10 DEF ReadWebhook
<1>11. ASSUME NEW c \in Customers, Bounce(c) PROVE Quiet
  BY <1>11 DEF Bounce
<1>12. CASE UNCHANGED vars
  BY <1>12 DEF vars
<1> QED
  BY <1>1, <1>2, <1>3, <1>4, <1>5, <1>6, <1>7, <1>8, <1>9, <1>10, <1>11, <1>12 DEF Next

LEMMA NextIInv == ASSUME IInv, [Next]_vars PROVE IInv'
<1> USE DEF IInv
<1>0. TypeOK'
  BY TypeNext
<1>1. CASE Quiet
  BY <1>0, <1>1, QuietKeeps
<1>2. ASSUME NEW w \in Workers, NEW c \in Customers, ClaimRecipient(w, c)
      PROVE  (ActiveHasRecipient /\ OneRequest)'
  <2>1. pc'[w] = "gate" /\ job'[w].who = c
    BY <1>2, ClaimEffect DEF ClaimRecipient, At, TypeOK
  <2>2. \A v \in Workers \ {w} : pc'[v] = pc[v] /\ job'[v] = job[v]
    BY <1>2, ClaimEffect DEF ClaimRecipient, At, TypeOK
  <2>3. \A d \in Customers : log'[d].started = log[d].started
    BY <1>2, ClaimEffect DEF MarkersKept
  <2>4. UNCHANGED requests
    BY <1>2 DEF ClaimRecipient, outside
  <2>5. ActiveHasRecipient'
    BY <2>1, <2>2 DEF ActiveHasRecipient
  <2>6. \A v \in Workers : pc'[v] \in OnTheWay =>
          v # w /\ pc[v] \in OnTheWay /\ job'[v].who = job[v].who /\ job[v].who \in Customers
    BY <2>1, <2>2 DEF ActiveHasRecipient, OnTheWay, Active
  <2>7. OneRequest'
    BY <2>3, <2>4, <2>6 DEF OneRequest
  <2> QED
    BY <2>5, <2>7
<1>3. ASSUME NEW w \in Workers, PassGate(w) PROVE (ActiveHasRecipient /\ OneRequest)'
  <2> DEFINE c == job[w].who
  <2>1. c \in Customers /\ ~log[c].started
    BY <1>3 DEF PassGate, At, ActiveHasRecipient, Active
  <2>2. pc'[w] = "recheck" /\ \A v \in Workers \ {w} : pc'[v] = pc[v]
    BY <1>3 DEF PassGate, At, TypeOK
  <2>3. UNCHANGED <<job, requests>>
    BY <1>3 DEF PassGate, outside
  <2>4. log'[c].started /\ \A d \in Customers \ {c} : log'[d] = log[d]
    BY <1>3, <2>1 DEF PassGate, TypeOK, Log
  <2>5. \A v \in Workers \ {w} : pc[v] \in OnTheWay => job[v].who # c
    BY <2>1 DEF OneRequest
  <2>6. requests[c] = 0
    BY <2>1 DEF OneRequest
  <2> HIDE DEF c
  <2>7. ActiveHasRecipient'
    BY <2>1, <2>2, <2>3 DEF ActiveHasRecipient, c
  <2>8. \A v \in Workers : pc[v] \in OnTheWay => job[v].who \in Customers
    BY DEF ActiveHasRecipient, OnTheWay, Active
  <2>9. OneRequest'
    BY <2>1, <2>2, <2>3, <2>4, <2>5, <2>6, <2>8 DEF OneRequest, c
  <2> QED
    BY <2>7, <2>9
<1>4. ASSUME NEW w \in Workers, Recheck(w) PROVE (ActiveHasRecipient /\ OneRequest)'
  <2>1. pc[w] = "recheck" /\ \A v \in Workers \ {w} : pc'[v] = pc[v]
    BY <1>4 DEF Recheck, At, TypeOK
  <2>2. UNCHANGED <<log, job, requests>>
    BY <1>4 DEF Recheck, rows, outside
  <2> QED
    BY <2>1, <2>2 DEF ActiveHasRecipient, OneRequest, Active, OnTheWay
<1>5. ASSUME NEW w \in Workers, NEW reply \in Replies, Send(w, reply)
      PROVE  (ActiveHasRecipient /\ OneRequest)'
  <2> DEFINE c == job[w].who
  <2>1. pc[w] = "send" /\ c \in Customers /\ requests[c] = 0 /\ log[c].started
    BY <1>5 DEF Send, ActiveHasRecipient, Active, OneRequest, OnTheWay
  <2>2. pc'[w] \in {"failed", "store", "unsure"} /\ \A v \in Workers \ {w} : pc'[v] = pc[v]
    BY <1>5, RepliesAssumption DEF Send, At, TypeOK
  <2>3. UNCHANGED <<log, job>> /\ requests' = [requests EXCEPT ![c] = @ + 1]
    BY <1>5 DEF Send, rows
  <2>4. \A v \in Workers \ {w} : pc[v] \in OnTheWay => job[v].who # c
    BY <2>1 DEF OneRequest, OnTheWay
  <2>5. requests'[c] = 1 /\ \A d \in Customers \ {c} : requests'[d] = requests[d]
    BY <2>1, <2>3 DEF TypeOK
  <2> HIDE DEF c
  <2>6. ActiveHasRecipient'
    BY <2>1, <2>2, <2>3 DEF ActiveHasRecipient, Active, c
  <2>7. \A v \in Workers : pc'[v] \in OnTheWay =>
          v # w /\ pc[v] \in OnTheWay /\ job[v].who \in Customers \ {c}
    BY <2>2, <2>4 DEF ActiveHasRecipient, OnTheWay, Active
  <2>8. OneRequest'
    BY <2>1, <2>3, <2>5, <2>7 DEF OneRequest
  <2> QED
    BY <2>6, <2>8
<1> QED
  BY <1>0, <1>1, <1>2, <1>3, <1>4, <1>5, QuietWork, QuietOthers

-----------------------------------------------------------------------------
(* What becomes of a request                                               *)

Reached    == {"accepted", "undeliverable"}
Unsettled  == {"DISPATCHING", "PENDING_RECONCILIATION"}

(* Who knows what of a request.                                            *)
Answered ==
  /\ \A c \in Customers :
       /\ provider[c] # "none" => requests[c] = 1
       /\ log[c].msg => provider[c] \in Reached
       /\ log[c].status \in SentFamily => log[c].msg
       /\ log[c].status = "absent" => ~log[c].started
  /\ \A w \in Workers : /\ pc[w] = "store" => provider[job[w].who] \in Reached
                        /\ pc[w] = "sent" => log[job[w].who].msg

(* What a webhook has decided, from a row it may find changed.             *)
Reported ==
  \A h \in Hooks : hook[h] # None =>
    /\ log[hook[h].who].msg
    /\ hook[h].next \in SentFamily \cup {"FAILED"}
    /\ Rank(hook[h].next) >= Rank(hook[h].seen)
    /\ hook[h].next = "FAILED" => provider[hook[h].who] = "undeliverable"

(* While no message id is known, a recipient is one worker's, and its row  *)
(* cannot be taken for another attempt.                                    *)
Claimed ==
  /\ \A w \in Workers :
       /\ pc[w] \in OnTheWay => log[job[w].who].status \in Unsettled
       /\ pc[w] \in Active /\ ~log[job[w].who].msg =>
            log[job[w].who].status \in Unsettled \cup {"CANCELLED"}
  /\ \A v, w \in Workers :
       pc[v] \in Active /\ pc[w] \in Active /\ job[v].who = job[w].who /\ ~log[job[w].who].msg
       => v = w

(* A worker that will call it a failure knows of no acceptance, unless the *)
(* request ran into its time limit.                                        *)
FailedUnsent ==
  \A w \in Workers :
    pc[w] \in {"gate", "failed"} /\ job[w].who \notin timedOut /\ ~log[job[w].who].msg =>
      provider[job[w].who] # "accepted"

Uncancelled ==
  errors = 0 =>
    /\ \A c \in Customers \ timedOut :
         log[c].status \in Retryable \cup {"CANCELLED"} => provider[c] # "accepted"
    /\ \A w \in Workers : pc[w] \in {"gate", "failed"} /\ job[w].who \notin timedOut =>
         provider[job[w].who] # "accepted"

Known == Answered /\ Reported /\ Claimed
Told  == LostIsReconciled /\ FailedUnsent /\ Uncancelled

OutcomeInv == Known /\ Told

LEMMA InitOutcome == Init => OutcomeInv
<1> SUFFICES ASSUME Init PROVE OutcomeInv
  OBVIOUS
<1>1. \A c \in Customers : /\ provider[c] = "none" /\ ~log[c].msg /\ ~log[c].started
                           /\ log[c].status = "absent"
  BY DEF Init
<1>2. \A w \in Workers : pc[w] = "idle"
  BY DEF Init
<1>3. \A h \in Hooks : hook[h] = None
  BY DEF Init
<1>4. Answered
  BY <1>1, <1>2 DEF Answered, SentFamily
<1>5. Reported
  BY <1>3 DEF Reported
<1>6. Claimed
  BY <1>2 DEF Claimed, OnTheWay, Active
<1>7. Told
  BY <1>1, <1>2 DEF Told, LostIsReconciled, FailedUnsent, Uncancelled
<1> QED
  BY <1>4, <1>5, <1>6, <1>7 DEF OutcomeInv, Known

(* Rows that are swept, cancelled or ruled out: every other statement on   *)
(* a row belongs to its worker or to a report.                             *)
RowTame(c) ==
  \/ log'[c] = log[c]
  \/ (campaign.status = "DRAFT" \/ c \in late') /\ log[c].status = "absent" /\ Touched(c, "PENDING")
  \/ /\ log[c].status \in Retryable
     /\ \/ Touched(c, "CANCELLED") \/ Touched(c, "EXHAUSTED")
        \/ Touched(c, "PERMANENTLY_INELIGIBLE")
  \/ log[c].status = "DISPATCHING" /\ Touched(c, "PENDING_RECONCILIATION")
  \/ log[c].status = "DISPATCHING" /\ ~log[c].started /\ Touched(c, "CANCELLED")

(* A worker that keeps its recipient, or none.                             *)
WorkerTame(w) ==
  pc'[w] \in Active =>
    /\ pc[w] \in Active /\ job'[w].who = job[w].who
    /\ \/ pc'[w] = pc[w]
       \/ pc[w] = "recheck" /\ pc'[w] = "send"
       \/ pc[w] = "store" /\ pc'[w] = "unsure"
       \/ pc[w] \in {"gate", "recheck"} /\ pc'[w] = "failed"
       \/ pc[w] = "sent" /\ pc'[w] = "failed" /\ errors' # 0

Tame ==
  /\ \A c \in Customers : RowTame(c)
  /\ \A w \in Workers : WorkerTame(w)
  /\ UNCHANGED <<requests, provider, timedOut, hook>>
  /\ late \subseteq late'
  /\ errors' = 0 => errors = 0

LEMMA RowTameMeans ==
  ASSUME NEW c, RowTame(c)
  PROVE  /\ log'[c].msg = log[c].msg /\ log'[c].started = log[c].started
         /\ log'[c].attempts = log[c].attempts
         /\ \/ log'[c].status = log[c].status
            \/ (campaign.status = "DRAFT" \/ c \in late') /\ log[c].status = "absent" /\ log'[c].status = "PENDING"
            \/ /\ log[c].status \in Retryable
               /\ log'[c].status \in {"CANCELLED", "EXHAUSTED", "PERMANENTLY_INELIGIBLE"}
            \/ log[c].status = "DISPATCHING" /\ log'[c].status = "PENDING_RECONCILIATION"
            \/ /\ log[c].status = "DISPATCHING" /\ ~log[c].started
               /\ log'[c].status = "CANCELLED"
BY DEF RowTame, Touched

LEMMA TameKeeps == ASSUME IInv, OutcomeInv, Tame PROVE OutcomeInv'
<1> USE DEF IInv
<1>0. \A w \in Workers : pc[w] \in Active => job[w].who \in Customers
  BY DEF ActiveHasRecipient
<1>1. \A c \in Customers :
         /\ log'[c].msg = log[c].msg /\ log'[c].started = log[c].started
         /\ \/ log'[c].status = log[c].status
            \/ (campaign.status = "DRAFT" \/ c \in late') /\ log[c].status = "absent" /\ log'[c].status = "PENDING"
            \/ /\ log[c].status \in Retryable
               /\ log'[c].status \in {"CANCELLED", "EXHAUSTED", "PERMANENTLY_INELIGIBLE"}
            \/ log[c].status = "DISPATCHING" /\ log'[c].status = "PENDING_RECONCILIATION"
            \/ /\ log[c].status = "DISPATCHING" /\ ~log[c].started
               /\ log'[c].status = "CANCELLED"
  BY RowTameMeans DEF Tame
<1>2. \A w \in Workers : WorkerTame(w)
  BY DEF Tame
<1>3. UNCHANGED <<requests, provider, timedOut, hook>>
  BY DEF Tame
<1>4. Answered'
  <2>1. \A w \in Workers : pc'[w] \in {"store", "sent"} => pc[w] = pc'[w] /\ job'[w].who = job[w].who
    BY <1>2 DEF WorkerTame, Active
  <2>2. \A w \in Workers : pc'[w] \in {"store", "sent"} => job[w].who \in Customers
    BY <1>0, <2>1 DEF Active
  <2>3. \A c \in Customers :
       /\ provider'[c] # "none" => requests'[c] = 1
       /\ log'[c].msg => provider'[c] \in Reached
       /\ log'[c].status = "absent" => ~log'[c].started
    BY <1>1, <1>3 DEF OutcomeInv, Known, Answered
  <2>4. \A c \in Customers : log'[c].status \in SentFamily => log'[c].msg
    BY <1>1 DEF OutcomeInv, Known, Answered, SentFamily
  <2>5. ASSUME NEW w \in Workers
        PROVE  /\ pc'[w] = "store" => provider'[job'[w].who] \in Reached
               /\ pc'[w] = "sent" => log'[job'[w].who].msg
    BY <1>1, <1>3, <2>1, <2>2 DEF OutcomeInv, Known, Answered
  <2> QED
    BY <2>3, <2>4, <2>5 DEF Answered
<1>5. Reported'
  <2>1. \A h \in Hooks : hook[h] # None => hook[h].who \in Customers
    BY DEF TypeOK
  <2> QED
    BY <1>1, <1>3, <2>1 DEF Reported, OutcomeInv, Known
<1>6. Claimed'
  <2>1. ASSUME NEW w \in Workers, pc'[w] \in Active
        PROVE  /\ pc[w] \in Active /\ job'[w].who = job[w].who /\ job[w].who \in Customers
               /\ pc'[w] \in OnTheWay => pc[w] \in OnTheWay
    BY <1>0, <1>2, <2>1 DEF WorkerTame, Active, OnTheWay
  <2>2. ASSUME NEW w \in Workers, pc'[w] \in OnTheWay
        PROVE  log'[job'[w].who].status \in Unsettled
    <3>1. pc'[w] \in Active
      BY <2>2 DEF Active, OnTheWay
    <3>2. /\ job'[w].who = job[w].who /\ job[w].who \in Customers /\ log[job[w].who].started
          /\ log[job[w].who].status \in Unsettled
      BY <2>1, <2>2, <3>1 DEF OneRequest, OutcomeInv, Known, Claimed
    <3> QED
      BY <1>1, <3>2 DEF Unsettled, Retryable
  <2>3. ASSUME NEW w \in Workers, pc'[w] \in Active, ~log'[job'[w].who].msg
        PROVE  log'[job'[w].who].status \in Unsettled \cup {"CANCELLED"}
    <3>1. /\ job'[w].who = job[w].who /\ job[w].who \in Customers
          /\ log[job[w].who].status \in Unsettled \cup {"CANCELLED"}
      BY <1>1, <2>1, <2>3 DEF OutcomeInv, Known, Claimed
    <3> QED
      BY <1>1, <3>1 DEF Unsettled, Retryable
  <2>4. ASSUME NEW v \in Workers, NEW w \in Workers, pc'[v] \in Active, pc'[w] \in Active,
               job'[v].who = job'[w].who, ~log'[job'[w].who].msg
        PROVE  v = w
    BY <1>1, <2>1, <2>4 DEF OutcomeInv, Known, Claimed
  <2> QED
    BY <2>2, <2>3, <2>4 DEF Claimed
<1>7. (LostIsReconciled /\ FailedUnsent /\ Uncancelled)'
  <2>0. LostIsReconciled /\ FailedUnsent /\ Uncancelled /\ Answered
    BY DEF OutcomeInv, Known, Told
  <2>1. \A c \in Customers : requests[c] = 1 => log[c].started
    BY DEF OneRequest, TypeOK
  <2>2. LostIsReconciled'
    <3> SUFFICES ASSUME NEW c \in Customers \ timedOut', provider'[c] = "accepted", ~log'[c].msg
                 PROVE  log'[c].status \in {"DISPATCHING", "PENDING_RECONCILIATION"}
      BY DEF LostIsReconciled
    <3>1. log[c].started /\ log[c].status \in {"DISPATCHING", "PENDING_RECONCILIATION"}
      BY <1>1, <1>3, <2>0, <2>1 DEF LostIsReconciled, Answered
    <3> QED
      BY <1>1, <3>1 DEF Retryable
  <2>3. ASSUME NEW w \in Workers, pc'[w] \in {"gate", "failed"}
        PROVE  /\ pc[w] \in {"gate", "failed", "recheck", "sent"} /\ job'[w].who = job[w].who
               /\ job[w].who \in Customers
               /\ pc[w] = "sent" => errors' # 0 /\ log[job[w].who].msg
               /\ pc[w] = "recheck" => provider[job[w].who] = "none"
    <3>1. pc'[w] \in Active
      BY <2>3 DEF Active
    <3>2. pc[w] \in {"gate", "failed", "recheck", "sent"} /\ job'[w].who = job[w].who
          /\ pc[w] \in Active /\ (pc[w] = "sent" => errors' # 0)
      BY <1>2, <2>3, <3>1 DEF WorkerTame
    <3>3. job[w].who \in Customers
      BY <1>0, <3>2
    <3>4. pc[w] = "recheck" => requests[job[w].who] = 0
      BY DEF OneRequest, OnTheWay
    <3>5. requests[job[w].who] = 0 => provider[job[w].who] = "none"
      BY <2>0, <3>3 DEF Answered
    <3>6. pc[w] = "sent" => log[job[w].who].msg
      BY <2>0 DEF Answered
    <3> QED
      BY <3>2, <3>3, <3>4, <3>5, <3>6
  <2>4. FailedUnsent'
    <3> SUFFICES ASSUME NEW w \in Workers, pc'[w] \in {"gate", "failed"}, ~log'[job'[w].who].msg,
                        job'[w].who \notin timedOut'
                 PROVE  provider'[job'[w].who] # "accepted"
      BY DEF FailedUnsent
    <3>1. job'[w].who = job[w].who /\ ~log[job[w].who].msg
      BY <1>1, <2>3
    <3> QED
      BY <1>3, <2>0, <2>3, <3>1 DEF FailedUnsent
  <2>5. Uncancelled'
    <3> SUFFICES ASSUME errors' = 0 PROVE
          /\ \A c \in Customers \ timedOut' :
               log'[c].status \in Retryable \cup {"CANCELLED"} => provider'[c] # "accepted"
          /\ \A w \in Workers : pc'[w] \in {"gate", "failed"} /\ job'[w].who \notin timedOut' =>
               provider'[job'[w].who] # "accepted"
      BY DEF Uncancelled
    <3>1. errors = 0
      BY DEF Tame
    <3>2. ASSUME NEW c \in Customers \ timedOut', log'[c].status \in Retryable \cup {"CANCELLED"}
          PROVE  provider'[c] # "accepted"
      <4>1. \/ log[c].status \in Retryable \cup {"CANCELLED"}
            \/ log[c].status = "absent" \/ ~log[c].started
        BY <1>1, <3>2 DEF Retryable
      <4>2. log[c].status = "absent" \/ ~log[c].started => provider[c] # "accepted"
        BY <2>0, <2>1 DEF Answered
      <4> QED
        BY <1>3, <2>0, <3>1, <4>1, <4>2 DEF Uncancelled
    <3>3. ASSUME NEW w \in Workers, pc'[w] \in {"gate", "failed"}, job'[w].who \notin timedOut'
          PROVE  provider'[job'[w].who] # "accepted"
      BY <1>3, <2>0, <2>3, <3>1, <3>3 DEF Uncancelled
    <3> QED
      BY <3>2, <3>3
  <2> QED
    BY <2>2, <2>4, <2>5
<1> QED
  BY <1>4, <1>5, <1>6, <1>7 DEF OutcomeInv, Known, Told

LEMMA TameWork ==
  ASSUME IInv, NEW w \in Workers, Work(w),
         \A c \in Customers : ~ClaimRecipient(w, c), ~PassGate(w),
         \A reply \in Replies : ~Send(w, reply),
         ~StoreMessageId(w), ~RecordSent(w), ~RecordFailure(w), ~RecordUnsure(w)
  PROVE  Tame
<1> USE DEF IInv, TypeOK, Tame, WorkerTame, At, Active, rows, outside, actors, faults
<1>1. CASE MarkAbandoned(w)
  <2>1. \A c \in Customers : RowTame(c)
    BY <1>1, SetLogsEffect DEF MarkAbandoned, LogStatus, DeadEnds, RowTame, Dispatching
  <2> QED
    BY <1>1, <2>1 DEF MarkAbandoned
<1>2. CASE ReleaseStale(w) \/ ExhaustCampaign(w)
  BY <1>2 DEF ReleaseStale, ExhaustCampaign, RowTame
<1>3. CASE SweepSpent(w)
  <2>1. \A c \in Customers : RowTame(c)
    BY <1>3, SetLogsEffect DEF SweepSpent, LogStatus, DeadEnds, RowTame, Spent, Retryable
  <2> QED
    BY <1>3, <2>1 DEF SweepSpent
<1>4. CASE Claim(w) \/ NothingDue(w)
  BY <1>4 DEF Claim, NothingDue, RowTame
<1>5. CASE Load(w)
  BY <1>5 DEF Load, RowTame
<1>6. CASE Scan(w)
  BY <1>6 DEF Scan, RowTame
<1>7. ASSUME NEW c \in Customers, RuleOut(w, c) PROVE Tame
  <2>1. \A d \in Customers : RowTame(d)
    BY <1>7, SetLogEffect DEF RuleOut, LogStatus, DeadEnds, RowTame
  <2> QED
    BY <1>7, <2>1, MissEffect DEF RuleOut
<1>8. ASSUME NEW c \in Customers, LoseRecipient(w, c) PROVE Tame
  BY <1>8, MissEffect DEF LoseRecipient, RowTame
<1>9. CASE Finalize(w)
  BY <1>9, LeaveEffect DEF Finalize, RowTame
<1>10. CASE Abort(w)
  BY <1>10, LeaveEffect DEF Abort, RowTame
<1>11. CASE CheckFails(w) \/ GateClosed(w) \/ Recheck(w)
  BY <1>11 DEF CheckFails, GateClosed, Recheck, RowTame
<1> QED
  BY <1>1, <1>2, <1>3, <1>4, <1>5, <1>6, <1>7, <1>8, <1>9, <1>10, <1>11 DEF Work

LEMMA TameOthers ==
  ASSUME IInv, [Next]_vars, \A w \in Workers : ~Work(w),
         \A h \in Hooks : ~ApplyWebhook(h),
         \A h \in Hooks, c \in Customers, incoming \in SentFamily \cup {"FAILED"} :
           ~ReadWebhook(h, c, incoming),
         \A c \in Customers : ~Bounce(c)
  PROVE  Tame
<1> USE DEF IInv, TypeOK, Tame, WorkerTame, rows, outside, actors, faults
<1>1. ASSUME NEW p \in Operators, AskQueue(p) PROVE Tame
  BY <1>1 DEF AskQueue, RowTame
<1>2. ASSUME NEW p \in Operators, NEW targets \in SUBSET Customers, CommitQueue(p, targets)
      PROVE  Tame
  <2>1. \A c \in Customers : RowTame(c)
    BY <1>2 DEF CommitQueue, RowTame, Touched, Log
  <2> QED
    BY <1>2, <2>1 DEF CommitQueue
<1>3. CASE CancelCampaign \/ CancelDies
  BY <1>3 DEF CancelCampaign, CancelDies, RowTame
<1>4. CASE CancelLogs
  <2>1. \A c \in Customers : RowTame(c)
    BY <1>4, SetLogsEffect DEF CancelLogs, LogStatus, DeadEnds, RowTame, Waiting, Dispatching, Marked
  <2> QED
    BY <1>4, <2>1 DEF CancelLogs
<1>5. ASSUME NEW w \in Workers, StartCycle(w) PROVE Tame
  BY <1>5 DEF StartCycle, At, Active, RowTame
<1>6. ASSUME NEW w \in Workers, StatementFails(w) PROVE Tame
  <2>1. pc'[w] = Catch[pc[w]] /\ pc[w] \in DOMAIN Catch /\ errors' # 0
        /\ \A v \in Workers \ {w} : pc'[v] = pc[v] /\ job'[v] = job[v]
    BY <1>6, LeaveEffect DEF StatementFails
  <2>2. pc'[w] \in {"failed", "unsure"} => UNCHANGED job
    BY <1>6, <2>1 DEF StatementFails
  <2>3. \/ pc'[w] \in {"idle", "abort"}
        \/ pc[w] = "store" /\ pc'[w] = "unsure"
        \/ pc[w] \in {"gate", "recheck", "sent"} /\ pc'[w] = "failed"
    BY <2>1 DEF Catch
  <2> QED
    BY <1>6, <2>1, <2>2, <2>3 DEF StatementFails, RowTame, Active
<1>7. ASSUME NEW w \in Workers, Crash(w) PROVE Tame
  BY <1>7, LeaveEffect DEF Crash, Active, RowTame
<1>8. CASE GoStale
  BY <1>8 DEF GoStale, RowTame
<1>9. CASE UNCHANGED vars
  BY <1>9 DEF vars, RowTame
<1> QED
  BY <1>1, <1>2, <1>3, <1>4, <1>5, <1>6, <1>7, <1>8, <1>9 DEF Next

LEMMA BeforeRequest ==
  ASSUME IInv, Answered, NEW w \in Workers, pc[w] \in OnTheWay
  PROVE  /\ job[w].who \in Customers /\ requests[job[w].who] = 0
         /\ provider[job[w].who] = "none" /\ ~log[job[w].who].msg /\ log[job[w].who].started
<1>1. job[w].who \in Customers
  BY DEF IInv, ActiveHasRecipient, Active, OnTheWay
<1>2. requests[job[w].who] = 0 /\ log[job[w].who].started
  BY DEF IInv, OneRequest
<1>3. provider[job[w].who] = "none"
  BY <1>1, <1>2 DEF Answered
<1> QED
  BY <1>1, <1>2, <1>3 DEF Answered, Reached

LEMMA ClaimRecipientKeeps ==
  ASSUME IInv, OutcomeInv, NEW w \in Workers, NEW c \in Customers, ClaimRecipient(w, c)
  PROVE  OutcomeInv'
<1> USE DEF IInv
<1>0. Answered /\ Reported /\ Claimed
  BY DEF OutcomeInv, Known
<1>1. /\ pc'[w] = "gate" /\ job'[w].who = c
      /\ \A v \in Workers \ {w} : pc'[v] = pc[v] /\ job'[v] = job[v]
  BY ClaimEffect DEF ClaimRecipient, At, TypeOK
<1>2. /\ log[c].status \in Retryable
      /\ log'[c].status = "DISPATCHING" /\ log'[c].started = log[c].started /\ log'[c].msg = log[c].msg
      /\ \A d \in Customers \ {c} : log'[d] = log[d]
  BY ClaimEffect DEF ClaimRecipient, ClaimHolds
<1>3. UNCHANGED <<requests, provider, timedOut, hook, errors>>
  BY DEF ClaimRecipient, outside, actors, faults
<1>4. \A v \in Workers : pc[v] \in Active => job[v].who \in Customers
  BY DEF ActiveHasRecipient
<1>5. Answered'
  <2>1. \A d \in Customers : log'[d].msg = log[d].msg /\ log'[d].started = log[d].started
    BY <1>2
  <2>2. \A v \in Workers : pc'[v] \in {"store", "sent"} =>
          pc[v] = pc'[v] /\ job'[v] = job[v] /\ job[v].who \in Customers
    BY <1>1, <1>4 DEF Active
  <2>3. \A d \in Customers : /\ log'[d].status \in SentFamily => log[d].status \in SentFamily
                             /\ log'[d].status = "absent" => log[d].status = "absent"
    BY <1>2 DEF SentFamily
  <2> QED
    BY <1>0, <1>3, <2>1, <2>2, <2>3 DEF Answered
<1>6. Reported'
  BY <1>0, <1>2, <1>3 DEF Reported, TypeOK
<1>7. Claimed'
  <2>1. ASSUME NEW v \in Workers, v # w, pc'[v] \in Active
        PROVE  /\ pc[v] = pc'[v] /\ job'[v] = job[v] /\ job[v].who \in Customers
               /\ ~log[job[v].who].msg => job[v].who # c
    <3>1. pc[v] = pc'[v] /\ job'[v] = job[v] /\ job[v].who \in Customers
      BY <1>1, <1>4, <2>1
    <3>2. ~log[job[v].who].msg => log[job[v].who].status \notin Retryable
      BY <1>0, <2>1, <3>1 DEF Claimed, Unsettled, Retryable
    <3> QED
      BY <1>2, <3>1, <3>2
  <2>2. \A v \in Workers : pc'[v] \in OnTheWay =>
          v # w /\ pc'[v] \in Active /\ ~log[job[v].who].msg
    BY <1>0, <1>1, BeforeRequest DEF OnTheWay, Active
  <2>3. \A v \in Workers : pc'[v] \in OnTheWay => log'[job'[v].who].status \in Unsettled
    BY <1>0, <1>2, <2>1, <2>2 DEF Claimed
  <2>4. \A v \in Workers : pc'[v] \in Active /\ ~log'[job'[v].who].msg =>
          log'[job'[v].who].status \in Unsettled \cup {"CANCELLED"}
    <3> TAKE v \in Workers
    <3>1. CASE v = w
      BY <1>1, <1>2, <3>1 DEF Unsettled
    <3>2. CASE v # w
      BY <1>0, <1>2, <2>1, <3>2 DEF Claimed
    <3> QED
      BY <3>1, <3>2
  <2>5. ASSUME NEW u \in Workers, NEW v \in Workers, pc'[u] \in Active, pc'[v] \in Active,
               job'[u].who = job'[v].who, ~log'[job'[v].who].msg
        PROVE  u = v
    <3>1. job'[v].who \in Customers /\ ~log[job'[v].who].msg
      BY <1>1, <1>2, <2>1, <2>5
    <3>2. CASE u = w
      BY <1>1, <2>1, <2>5, <3>1, <3>2
    <3>3. CASE v = w
      BY <1>1, <2>1, <2>5, <3>1, <3>3
    <3>4. CASE u # w /\ v # w
      BY <1>0, <2>1, <2>5, <3>1, <3>4 DEF Claimed
    <3> QED
      BY <3>2, <3>3, <3>4
  <2> QED
    BY <2>3, <2>4, <2>5 DEF Claimed
<1>8. (LostIsReconciled /\ FailedUnsent /\ Uncancelled)'
  <2>0. LostIsReconciled /\ FailedUnsent /\ Uncancelled
    BY DEF OutcomeInv, Told
  <2>1. LostIsReconciled'
    BY <1>2, <1>3, <2>0 DEF LostIsReconciled
  <2>2. c \notin timedOut /\ ~log[c].msg => provider[c] # "accepted"
    BY <1>2, <2>0 DEF LostIsReconciled, Retryable
  <2>3. c \notin timedOut /\ errors = 0 => provider[c] # "accepted"
    BY <1>2, <2>0 DEF Uncancelled
  <2>4. \A v \in Workers \ {w} : pc'[v] \in {"gate", "failed"} =>
          pc[v] \in {"gate", "failed"} /\ job'[v] = job[v] /\ job[v].who \in Customers
    BY <1>1, <1>4 DEF Active
  <2>5. FailedUnsent'
    BY <1>1, <1>2, <1>3, <2>0, <2>2, <2>4 DEF FailedUnsent
  <2>6. Uncancelled'
    BY <1>1, <1>2, <1>3, <2>0, <2>3, <2>4 DEF Uncancelled, Retryable
  <2> QED
    BY <2>1, <2>5, <2>6
<1> QED
  BY <1>5, <1>6, <1>7, <1>8 DEF OutcomeInv, Known, Told

LEMMA PassGateKeeps ==
  ASSUME IInv, OutcomeInv, NEW w \in Workers, PassGate(w)
  PROVE  OutcomeInv'
<1> USE DEF IInv
<1> PICK c : c = job[w].who
  OBVIOUS
<1>0. Answered /\ Reported /\ Claimed
  BY DEF OutcomeInv, Known
<1>1. /\ pc[w] = "gate" /\ pc'[w] = "recheck" /\ \A v \in Workers \ {w} : pc'[v] = pc[v]
      /\ UNCHANGED <<job, requests, provider, timedOut, hook, errors>>
  BY DEF PassGate, At, TypeOK, outside, actors, faults
<1>2. c \in Customers
  BY <1>1 DEF ActiveHasRecipient, Active
<1>3. /\ log[c].status = "DISPATCHING"
      /\ \A d \in Customers : log'[d].status = log[d].status /\ log'[d].msg = log[d].msg
      /\ \A d \in Customers \ {c} : log'[d].started = log[d].started
  BY <1>2 DEF PassGate, Dispatchable, TypeOK, Log
<1>4. \A v \in Workers : pc[v] \in Active => job[v].who \in Customers
  BY DEF ActiveHasRecipient
<1>5. \A v \in Workers : pc'[v] \in Active => pc[v] \in Active
  BY <1>1 DEF Active
<1>6. Answered'
  <2>1. \A v \in Workers : pc'[v] \in {"store", "sent"} => pc[v] = pc'[v] /\ job[v].who \in Customers
    BY <1>1, <1>4 DEF Active
  <2>2. \A d \in Customers : log'[d].status = "absent" => ~log'[d].started
    BY <1>0, <1>3 DEF Answered
  <2> QED
    BY <1>0, <1>1, <1>3, <2>1, <2>2 DEF Answered
<1>7. Reported'
  BY <1>0, <1>1, <1>3 DEF Reported, TypeOK
<1>8. Claimed'
  <2>1. \A v \in Workers : pc'[v] \in OnTheWay => log'[job[v].who].status \in Unsettled
    <3> SUFFICES ASSUME NEW v \in Workers, pc'[v] \in OnTheWay
                 PROVE  log'[job[v].who].status \in Unsettled
      OBVIOUS
    <3>1. CASE v = w
      BY <1>2, <1>3, <3>1 DEF Unsettled
    <3>2. CASE v # w
      BY <1>0, <1>1, <1>3, <3>2, BeforeRequest DEF Claimed
    <3> QED
      BY <3>1, <3>2
  <2> QED
    BY <1>0, <1>1, <1>3, <1>4, <1>5, <2>1 DEF Claimed
<1>9. (LostIsReconciled /\ FailedUnsent /\ Uncancelled)'
  <2>0. LostIsReconciled /\ FailedUnsent /\ Uncancelled
    BY DEF OutcomeInv, Told
  <2>1. \A v \in Workers : pc'[v] \in {"gate", "failed"} =>
          pc[v] \in {"gate", "failed"} /\ job[v].who \in Customers
    BY <1>1, <1>4 DEF Active
  <2> QED
    BY <1>1, <1>3, <2>0, <2>1 DEF LostIsReconciled, FailedUnsent, Uncancelled
<1> QED
  BY <1>6, <1>7, <1>8, <1>9 DEF OutcomeInv, Known, Told

LEMMA SendKeeps ==
  ASSUME IInv, OutcomeInv, NEW w \in Workers, NEW reply \in Replies, Send(w, reply)
  PROVE  OutcomeInv'
<1> USE DEF IInv
<1> PICK c : c = job[w].who
  OBVIOUS
<1>0. Answered /\ Reported /\ Claimed
  BY DEF OutcomeInv, Known
<1>1. /\ pc[w] = "send" /\ \A v \in Workers \ {w} : pc'[v] = pc[v]
      /\ UNCHANGED <<log, job, hook, errors>>
  BY RepliesAssumption DEF Send, At, TypeOK, rows, actors, faults
<1>2. /\ c \in Customers /\ requests[c] = 0 /\ provider[c] = "none" /\ ~log[c].msg
      /\ log[c].started /\ log[c].status \in Unsettled
  BY <1>0, <1>1, BeforeRequest DEF OnTheWay, Claimed
<1>3. requests'[c] = 1 /\ \A d \in Customers \ {c} : requests'[d] = requests[d]
  BY <1>2 DEF Send, TypeOK
<1>4. /\ provider'[c] \in {"none", "accepted", "refused"}
      /\ \A d \in Customers \ {c} : provider'[d] = provider[d]
  BY <1>2 DEF Send, TypeOK
<1>5. /\ pc'[w] \in {"failed", "store", "unsure"}
      /\ pc'[w] = "store" => provider'[c] = "accepted"
      /\ pc'[w] = "failed" => provider'[c] = "refused" \/ c \in timedOut'
      /\ timedOut \subseteq timedOut'
  BY <1>2, RepliesAssumption DEF Send, At, TypeOK
<1>6. \A v \in Workers : pc[v] \in Active => job[v].who \in Customers
  BY DEF ActiveHasRecipient
<1>7. \A v \in Workers \ {w} : pc[v] \in Active => job[v].who # c
  BY <1>0, <1>1, <1>2 DEF Claimed, Active
<1>8. Answered'
  <2>1. \A d \in Customers : provider'[d] # "none" => requests'[d] = 1
    BY <1>0, <1>3, <1>4 DEF Answered
  <2>2. \A d \in Customers : log'[d].msg => provider'[d] \in Reached
    BY <1>0, <1>1, <1>2, <1>4 DEF Answered
  <2>3. ASSUME NEW v \in Workers
        PROVE  /\ pc'[v] = "store" => provider'[job[v].who] \in Reached
               /\ pc'[v] = "sent" => log[job[v].who].msg
    <3>1. CASE v = w
      BY <1>5, <3>1 DEF Reached
    <3>2. CASE v # w
      <4>1. pc'[v] \in {"store", "sent"} => job[v].who \in Customers \ {c}
        BY <1>1, <1>6, <1>7, <3>2 DEF Active
      <4> QED
        BY <1>0, <1>1, <1>4, <3>2, <4>1 DEF Answered
    <3> QED
      BY <3>1, <3>2
  <2> QED
    BY <1>0, <1>1, <2>1, <2>2, <2>3 DEF Answered
<1>9. Reported'
  <2>1. \A h \in Hooks : hook[h] # None => hook[h].who \in Customers \ {c}
    BY <1>0, <1>2 DEF Reported, TypeOK
  <2> QED
    BY <1>0, <1>1, <1>4, <2>1 DEF Reported
<1>10. Claimed'
  <2>1. \A v \in Workers : /\ pc'[v] \in OnTheWay => pc[v] \in OnTheWay
                           /\ pc'[v] \in Active => pc[v] \in Active
    BY <1>1, <1>5 DEF Active, OnTheWay
  <2> QED
    BY <1>0, <1>1, <2>1 DEF Claimed
<1>11. (LostIsReconciled /\ FailedUnsent /\ Uncancelled)'
  <2>0. LostIsReconciled /\ FailedUnsent /\ Uncancelled
    BY DEF OutcomeInv, Told
  <2>1. LostIsReconciled'
    BY <1>1, <1>2, <1>4, <1>5, <2>0 DEF LostIsReconciled, Unsettled
  <2>2. ASSUME NEW v \in Workers, pc'[v] \in {"gate", "failed"}, job[v].who \notin timedOut'
        PROVE  \/ v = w /\ provider'[job[v].who] # "accepted"
               \/ pc[v] \in {"gate", "failed"} /\ job[v].who \in Customers \ {c}
    <3>1. CASE v = w
      BY <1>5, <2>2, <3>1
    <3>2. CASE v # w
      BY <1>1, <1>6, <1>7, <2>2, <3>2 DEF Active
    <3> QED
      BY <3>1, <3>2
  <2>3. FailedUnsent'
    BY <1>1, <1>4, <1>5, <2>0, <2>2 DEF FailedUnsent
  <2>4. Uncancelled'
    <3>1. log[c].status \notin Retryable \cup {"CANCELLED"}
      BY <1>2 DEF Unsettled, Retryable
    <3> QED
      BY <1>1, <1>4, <1>5, <2>0, <2>2, <3>1 DEF Uncancelled
  <2> QED
    BY <2>1, <2>3, <2>4
<1> QED
  BY <1>8, <1>9, <1>10, <1>11 DEF OutcomeInv, Known, Told

LEMMA StoreMessageIdKeeps ==
  ASSUME IInv, OutcomeInv, NEW w \in Workers, StoreMessageId(w)
  PROVE  OutcomeInv'
<1> USE DEF IInv
<1> PICK c : c = job[w].who
  OBVIOUS
<1>0. Answered /\ Reported /\ Claimed
  BY DEF OutcomeInv, Known
<1>1. pc[w] = "store" /\ UNCHANGED <<job, requests, provider, timedOut, late, hook, errors>>
  BY DEF StoreMessageId, outside, actors, faults
<1>2. c \in Customers
  BY <1>1 DEF ActiveHasRecipient, Active
<1>3. CASE log[c].status # "DISPATCHING"
  <2>1. pc' = [pc EXCEPT ![w] = "unsure"] /\ UNCHANGED log
    BY <1>3 DEF StoreMessageId, At
  <2>2. Tame
    BY <1>1, <2>1 DEF Tame, RowTame, WorkerTame, TypeOK, Active
  <2> QED
    BY <2>2, TameKeeps
<1>4. CASE log[c].status = "DISPATCHING"
  <2>1. pc'[w] = "sent" /\ \A v \in Workers \ {w} : pc'[v] = pc[v]
    BY <1>4 DEF StoreMessageId, At, TypeOK
  <2>2. /\ \A d \in Customers : log'[d].status = log[d].status /\ log'[d].started = log[d].started
        /\ log'[c].msg /\ \A d \in Customers \ {c} : log'[d].msg = log[d].msg
    <3>1. log' = [log EXCEPT ![c] = [log[c] EXCEPT !.msg = TRUE]]
      BY <1>4 DEF StoreMessageId
    <3>2. log[c] \in Log
      BY <1>2 DEF TypeOK
    <3>3. log'[c] = [log[c] EXCEPT !.msg = TRUE] /\ \A d \in Customers \ {c} : log'[d] = log[d]
      BY <1>2, <3>1 DEF TypeOK
    <3> QED
      BY <3>2, <3>3 DEF Log
  <2>3. \A v \in Workers : pc[v] \in Active => job[v].who \in Customers
    BY DEF ActiveHasRecipient
  <2>4. provider[c] \in Reached
    BY <1>0, <1>1 DEF Answered
  <2>5. \A v \in Workers : /\ pc'[v] \in Active => pc[v] \in Active
                           /\ pc'[v] \in {"gate", "failed"} => pc[v] = pc'[v] /\ pc[v] \in Active
                           /\ pc'[v] \in OnTheWay => pc[v] \in OnTheWay /\ pc[v] \in Active
                           /\ pc'[v] \in {"store", "sent"} /\ v # w => pc[v] = pc'[v] /\ pc[v] \in Active
    BY <1>1, <2>1 DEF Active, OnTheWay
  <2>6. Answered'
    <3>1. \A d \in Customers :
            /\ provider'[d] # "none" => requests'[d] = 1
            /\ log'[d].msg => provider'[d] \in Reached
            /\ log'[d].status \in SentFamily => log'[d].msg
            /\ log'[d].status = "absent" => ~log'[d].started
      BY <1>0, <1>1, <2>2, <2>4 DEF Answered
    <3>2. ASSUME NEW v \in Workers
          PROVE  /\ pc'[v] = "store" => provider'[job'[v].who] \in Reached
                 /\ pc'[v] = "sent" => log'[job'[v].who].msg
      <4>1. CASE v = w
        BY <1>1, <2>1, <2>2, <4>1
      <4>2. CASE v # w
        BY <1>0, <1>1, <2>2, <2>3, <2>5, <4>2 DEF Answered
      <4> QED
        BY <4>1, <4>2
    <3> QED
      BY <3>1, <3>2 DEF Answered
  <2>7. Reported'
    <3>1. \A h \in Hooks : hook[h] # None => hook[h].who \in Customers
      BY DEF TypeOK
    <3> QED
      BY <1>0, <1>1, <2>2, <3>1 DEF Reported
  <2>8. Claimed'
    BY <1>0, <1>1, <2>2, <2>3, <2>5 DEF Claimed
  <2>9. (LostIsReconciled /\ FailedUnsent /\ Uncancelled)'
    <3>0. LostIsReconciled /\ FailedUnsent /\ Uncancelled
      BY DEF OutcomeInv, Told
    <3> QED
      BY <1>1, <2>2, <2>3, <2>5, <3>0 DEF LostIsReconciled, FailedUnsent, Uncancelled
  <2> QED
    BY <2>6, <2>7, <2>8, <2>9 DEF OutcomeInv, Known, Told
<1> QED
  BY <1>3, <1>4

LEMMA RecordUnsureKeeps ==
  ASSUME IInv, OutcomeInv, NEW w \in Workers, RecordUnsure(w)
  PROVE  OutcomeInv'
<1> USE DEF IInv
<1>1. /\ pc[w] = "unsure" /\ pc'[w] = "next" /\ \A v \in Workers \ {w} : pc'[v] = pc[v]
      /\ UNCHANGED <<requests, provider, timedOut, late, hook, errors>>
  BY DEF RecordUnsure, At, TypeOK, outside, actors, faults
<1>2. \A v \in Workers \ {w} : job'[v] = job[v]
  BY MissEffect DEF RecordUnsure
<1>3. \A c \in Customers : RowTame(c)
  <2>1. job[w].who \in Customers /\ "PENDING_RECONCILIATION" \in LogStatus
    BY <1>1 DEF ActiveHasRecipient, Active, LogStatus, DeadEnds
  <2> QED
    BY <2>1, SetClaimedEffect DEF RecordUnsure, RowTame
<1>4. \A v \in Workers : WorkerTame(v)
  BY <1>1, <1>2 DEF WorkerTame, Active
<1> QED
  BY <1>1, <1>3, <1>4, TameKeeps DEF Tame

(* A worker records how its attempt ended, and has no recipient any more.  *)
LEMMA RecordedMeans ==
  ASSUME IInv, NEW w \in Workers, NEW status \in LogStatus,
         \/ RecordSent(w) /\ status = "SENT"
         \/ RecordFailure(w) /\ status = (IF job[w].seen[job[w].who] + 1 >= MaxAttempts
                                             THEN "EXHAUSTED" ELSE "FAILED")
  PROVE  /\ job[w].who \in Customers
         /\ pc'[w] = "next" /\ \A v \in Workers \ {w} : pc'[v] = pc[v] /\ job'[v] = job[v]
         /\ UNCHANGED <<requests, provider, timedOut, hook, errors>>
         /\ \A d \in Customers : log'[d].msg = log[d].msg /\ log'[d].started = log[d].started
         /\ \A d \in Customers : \/ log'[d].status = log[d].status
                                 \/ (d = job[w].who /\ log'[d].status = status)
<1> USE DEF IInv
<1>1. /\ pc[w] \in Active /\ pc'[w] = "next" /\ \A v \in Workers \ {w} : pc'[v] = pc[v]
      /\ UNCHANGED <<requests, provider, timedOut, hook, errors>>
  BY DEF RecordSent, RecordFailure, At, TypeOK, Active, outside, actors, faults
<1>2. job[w].who \in Customers
  BY <1>1 DEF ActiveHasRecipient
<1>3. SetClaimed(w, status)
  BY DEF RecordSent, RecordFailure
<1>4. \A v \in Workers \ {w} : job'[v] = job[v]
  BY SentEffect, MissEffect DEF RecordFailure
<1>5. \A d \in Customers : log'[d].msg = log[d].msg /\ log'[d].started = log[d].started
                           /\ (log'[d].status = log[d].status \/ (d = job[w].who /\ log'[d].status = status))
  <2> PICK c : c = job[w].who
    OBVIOUS
  <2>1. \/ \A d \in Customers : log'[d] = log[d]
        \/ Touched(c, status) /\ \A d \in Customers \ {c} : log'[d] = log[d]
    BY <1>2, <1>3, SetClaimedEffect
  <2> QED
    BY <1>2, <2>1 DEF Touched
<1> QED
  BY <1>1, <1>2, <1>4, <1>5

(* One row is given its outcome, and no other worker is in doubt about it. *)
LEMMA OutcomeKeeps ==
  ASSUME IInv, OutcomeInv, NEW c \in Customers, NEW status, status # "absent",
         \A d \in Customers : log'[d].msg = log[d].msg /\ log'[d].started = log[d].started,
         \A d \in Customers : log'[d].status = log[d].status \/ (d = c /\ log'[d].status = status),
         \A v \in Workers : pc'[v] \in Active =>
           pc[v] = pc'[v] /\ job'[v] = job[v] /\ (job[v].who = c => log[c].msg),
         \A h \in Hooks : hook'[h] = hook[h] \/ hook'[h] = None,
         UNCHANGED <<requests, provider, timedOut, errors>>,
         status \in SentFamily => log[c].msg,
         c \in timedOut \/ provider[c] # "accepted" \/ log[c].msg,
         errors = 0 /\ status \in Retryable \cup {"CANCELLED"} =>
           c \in timedOut \/ provider[c] # "accepted"
  PROVE  OutcomeInv'
<1> USE DEF IInv
<1>0. Answered /\ Reported /\ Claimed
  BY DEF OutcomeInv, Known
<1>1. \A v \in Workers : pc'[v] \in Active => job[v].who \in Customers
  BY DEF ActiveHasRecipient
<1>2. \A v \in Workers : pc'[v] \in OnTheWay =>
        pc[v] = pc'[v] /\ job'[v] = job[v] /\ job[v].who \in Customers \ {c}
  <2> SUFFICES ASSUME NEW v \in Workers, pc'[v] \in OnTheWay
               PROVE  pc[v] = pc'[v] /\ job'[v] = job[v] /\ job[v].who \in Customers \ {c}
    OBVIOUS
  <2>1. pc'[v] \in Active /\ pc[v] = pc'[v] /\ job'[v] = job[v] /\ job[v].who \in Customers
    BY <1>1 DEF Active, OnTheWay
  <2>2. ~log[job[v].who].msg
    BY <1>0, <2>1, BeforeRequest
  <2> QED
    BY <2>1, <2>2
<1>3. Answered'
  <2>1. \A d \in Customers :
          /\ provider'[d] # "none" => requests'[d] = 1
          /\ log'[d].msg => provider'[d] \in Reached
          /\ log'[d].status \in SentFamily => log'[d].msg
          /\ log'[d].status = "absent" => ~log'[d].started
    BY <1>0 DEF Answered
  <2>2. \A v \in Workers : pc'[v] \in {"store", "sent"} =>
          pc[v] = pc'[v] /\ job'[v] = job[v] /\ job[v].who \in Customers
    BY <1>1 DEF Active
  <2> QED
    BY <1>0, <2>1, <2>2 DEF Answered
<1>4. Reported'
  <2>1. \A h \in Hooks : hook'[h] # None => hook'[h] = hook[h] /\ hook[h].who \in Customers
    BY DEF TypeOK
  <2> QED
    BY <1>0, <2>1 DEF Reported
<1>5. Claimed'
  <2>1. \A v \in Workers : pc'[v] \in OnTheWay => log'[job'[v].who].status \in Unsettled
    BY <1>0, <1>2 DEF Claimed
  <2>2. ASSUME NEW v \in Workers, pc'[v] \in Active, ~log'[job'[v].who].msg
        PROVE  log'[job'[v].who].status \in Unsettled \cup {"CANCELLED"}
    <3>1. pc[v] = pc'[v] /\ job'[v] = job[v] /\ job[v].who \in Customers \ {c} /\ ~log[job[v].who].msg
      BY <1>1, <2>2
    <3> QED
      BY <1>0, <2>2, <3>1 DEF Claimed
  <2>3. ASSUME NEW u \in Workers, NEW v \in Workers, pc'[u] \in Active, pc'[v] \in Active,
               job'[u].who = job'[v].who, ~log'[job'[v].who].msg
        PROVE  u = v
    BY <1>0, <1>1, <2>3 DEF Claimed
  <2> QED
    BY <2>1, <2>2, <2>3 DEF Claimed
<1>6. (LostIsReconciled /\ FailedUnsent /\ Uncancelled)'
  <2>0. LostIsReconciled /\ FailedUnsent /\ Uncancelled
    BY DEF OutcomeInv, Told
  <2>1. \A v \in Workers : pc'[v] \in {"gate", "failed"} =>
          pc[v] = pc'[v] /\ job'[v] = job[v] /\ job[v].who \in Customers
    BY <1>1 DEF Active
  <2>2. LostIsReconciled'
    BY <2>0 DEF LostIsReconciled
  <2>3. FailedUnsent'
    BY <2>0, <2>1 DEF FailedUnsent
  <2>4. Uncancelled'
    BY <2>0, <2>1 DEF Uncancelled
  <2> QED
    BY <2>2, <2>3, <2>4
<1> QED
  BY <1>3, <1>4, <1>5, <1>6 DEF OutcomeInv, Known, Told

LEMMA RecordSentKeeps ==
  ASSUME IInv, OutcomeInv, NEW w \in Workers, RecordSent(w)
  PROVE  OutcomeInv'
<1> PICK c : c = job[w].who
  OBVIOUS
<1>1. /\ c \in Customers
      /\ pc'[w] = "next" /\ \A v \in Workers \ {w} : pc'[v] = pc[v] /\ job'[v] = job[v]
      /\ UNCHANGED <<requests, provider, timedOut, hook, errors>>
      /\ \A d \in Customers : log'[d].msg = log[d].msg /\ log'[d].started = log[d].started
      /\ \A d \in Customers : log'[d].status = log[d].status \/ (d = c /\ log'[d].status = "SENT")
  <2>1. "SENT" \in LogStatus
    BY DEF LogStatus, SentFamily
  <2> QED
    BY <2>1, RecordedMeans
<1>2. log[c].msg
  BY DEF RecordSent, At, OutcomeInv, Known, Answered
<1>3. \A v \in Workers : pc'[v] \in Active => pc[v] = pc'[v] /\ job'[v] = job[v]
  BY <1>1 DEF Active
<1>4. "SENT" \notin Retryable \cup {"CANCELLED"}
  BY DEF Retryable
<1> QED
  BY <1>1, <1>2, <1>3, <1>4, OutcomeKeeps

LEMMA RecordFailureKeeps ==
  ASSUME IInv, OutcomeInv, NEW w \in Workers, RecordFailure(w)
  PROVE  OutcomeInv'
<1> DEFINE status == IF job[w].seen[job[w].who] + 1 >= MaxAttempts THEN "EXHAUSTED" ELSE "FAILED"
<1> PICK c : c = job[w].who
  OBVIOUS
<1>1. status \in LogStatus /\ status # "absent" /\ status \notin SentFamily
  BY DEF LogStatus, DeadEnds, SentFamily
<1>2. /\ c \in Customers
      /\ pc'[w] = "next" /\ \A v \in Workers \ {w} : pc'[v] = pc[v] /\ job'[v] = job[v]
      /\ UNCHANGED <<requests, provider, timedOut, hook, errors>>
      /\ \A d \in Customers : log'[d].msg = log[d].msg /\ log'[d].started = log[d].started
      /\ \A d \in Customers : log'[d].status = log[d].status \/ (d = c /\ log'[d].status = status)
  BY <1>1, RecordedMeans
<1> HIDE DEF status
<1>3. pc[w] = "failed"
  BY DEF RecordFailure, At
<1>4. \A v \in Workers : pc'[v] \in Active =>
        pc[v] = pc'[v] /\ job'[v] = job[v] /\ (job[v].who = c => log[c].msg)
  BY <1>2, <1>3 DEF Active, OutcomeInv, Known, Claimed
<1>5. c \in timedOut \/ provider[c] # "accepted" \/ log[c].msg
  BY <1>3 DEF OutcomeInv, Told, FailedUnsent
<1>6. errors = 0 => c \in timedOut \/ provider[c] # "accepted"
  BY <1>3 DEF OutcomeInv, Told, Uncancelled
<1> QED
  BY <1>1, <1>2, <1>4, <1>5, <1>6, OutcomeKeeps

LEMMA ApplyWebhookKeeps ==
  ASSUME IInv, OutcomeInv, NEW h \in Hooks, ApplyWebhook(h)
  PROVE  OutcomeInv'
<1> PICK c : c = hook[h].who
  OBVIOUS
<1> PICK status : status = hook[h].next
  OBVIOUS
<1>1. c \in Customers /\ status \in LogStatus /\ hook[h] # None
  BY DEF ApplyWebhook, IInv, TypeOK
<1>2. /\ log[c].msg /\ status \in SentFamily \cup {"FAILED"}
      /\ status = "FAILED" => provider[c] = "undeliverable"
  BY <1>1 DEF OutcomeInv, Known, Reported
<1>3. \A d \in Customers : log'[d].msg = log[d].msg /\ log'[d].started = log[d].started
        /\ (log'[d].status = log[d].status \/ (d = c /\ log'[d].status = status))
  <2> PICK from : from = {hook[h].seen}
    OBVIOUS
  <2>1. SetLog(c, from, status)
    BY DEF ApplyWebhook
  <2>2. /\ Touched(c, status) \/ log'[c] = log[c]
        /\ \A d \in Customers \ {c} : log'[d] = log[d]
    BY <1>1, <2>1, SetLogEffect DEF IInv
  <2> QED
    BY <1>1, <2>2 DEF Touched
<1>4. /\ UNCHANGED <<pc, job, requests, provider, timedOut, errors>>
      /\ \A g \in Hooks : hook'[g] = hook[g] \/ hook'[g] = None
  BY DEF ApplyWebhook, outside, faults, IInv, TypeOK
<1>5. status # "absent"
  BY <1>2 DEF SentFamily
<1>6. status \in Retryable \cup {"CANCELLED"} => provider[c] # "accepted"
  BY <1>2 DEF Retryable, SentFamily
<1> QED
  BY <1>1, <1>2, <1>3, <1>4, <1>5, <1>6, OutcomeKeeps

(* A transition is never back from what Meta has reported.                 *)
LEMMA TransitionIsForward ==
  ASSUME NEW current \in LogStatus, NEW incoming \in SentFamily \cup {"FAILED"}, NEW gone,
         WebhookTransition(current, incoming, gone) # None
  PROVE  /\ WebhookTransition(current, incoming, gone) = incoming
         /\ Rank(incoming) >= Rank(current)
<1>1. WebhookTransition(current, incoming, gone) = incoming
      /\ (incoming = "FAILED" => current \notin SentFamily)
      /\ (incoming # "FAILED" => ~(Rank(incoming) <= Rank(current)))
  BY DEF WebhookTransition
<1>2. Rank(incoming) \in Nat /\ Rank(current) \in Nat
  BY DEF Rank
<1>3. current \notin SentFamily => Rank(current) = 0
  BY DEF Rank, SentFamily
<1> QED
  BY <1>1, <1>2, <1>3

LEMMA ReadWebhookKeeps ==
  ASSUME IInv, OutcomeInv, NEW h \in Hooks, NEW c \in Customers,
         NEW incoming \in SentFamily \cup {"FAILED"}, ReadWebhook(h, c, incoming)
  PROVE  OutcomeInv'
<1> USE DEF IInv
<1>1. /\ UNCHANGED <<log, requests, provider, timedOut, pc, job, errors>>
      /\ \A g \in Hooks \ {h} : hook'[g] = hook[g]
  BY DEF ReadWebhook, rows, outside, faults, TypeOK
<1>2. /\ hook'[h] = [who |-> c, seen |-> log[c].status, next |-> incoming]
      /\ Rank(incoming) >= Rank(log[c].status)
  <2> DEFINE gone == campaign.status = "CANCELLED"
             next == WebhookTransition(log[c].status, incoming, gone)
  <2>1. log[c].status \in LogStatus
    BY DEF TypeOK, Log
  <2>2. /\ next # None
        /\ hook' = [hook EXCEPT ![h] = [who |-> c, seen |-> log[c].status, next |-> next]]
    BY DEF ReadWebhook
  <2>3. next = incoming /\ Rank(incoming) >= Rank(log[c].status)
    <3> HIDE DEF gone
    <3> QED
      BY <2>1, <2>2, TransitionIsForward
  <2>4. hook'[h] = [who |-> c, seen |-> log[c].status, next |-> next]
    <3> HIDE DEF next
    <3> QED
      BY <2>2 DEF TypeOK
  <2> HIDE DEF next
  <2> QED
    BY <2>3, <2>4
<1>3. log[c].msg /\ (incoming = "FAILED" => provider[c] = "undeliverable")
  BY DEF ReadWebhook, Reports, SentFamily
<1>4. Reported'
  <2> SUFFICES ASSUME NEW g \in Hooks, hook'[g] # None
               PROVE  /\ log[hook'[g].who].msg
                      /\ hook'[g].next \in SentFamily \cup {"FAILED"}
                      /\ Rank(hook'[g].next) >= Rank(hook'[g].seen)
                      /\ hook'[g].next = "FAILED" => provider[hook'[g].who] = "undeliverable"
    BY <1>1 DEF Reported
  <2>1. CASE g = h
    BY <1>2, <1>3, <2>1
  <2>2. CASE g # h
    BY <1>1, <2>2 DEF OutcomeInv, Known, Reported
  <2> QED
    BY <2>1, <2>2
<1>5. Answered'
  BY <1>1 DEF OutcomeInv, Known, Answered
<1>6. Claimed'
  BY <1>1 DEF OutcomeInv, Known, Claimed
<1>7. Told'
  BY <1>1 DEF OutcomeInv, Told, LostIsReconciled, FailedUnsent, Uncancelled
<1> QED
  BY <1>4, <1>5, <1>6, <1>7 DEF OutcomeInv, Known

LEMMA BounceKeeps ==
  ASSUME IInv, OutcomeInv, NEW c \in Customers, Bounce(c)
  PROVE  OutcomeInv'
<1> USE DEF IInv
<1>1. UNCHANGED <<log, requests, timedOut, pc, job, hook, errors>>
  BY DEF Bounce, rows, actors, faults
<1>2. /\ provider[c] = "accepted" /\ provider'[c] = "undeliverable"
      /\ \A d \in Customers \ {c} : provider'[d] = provider[d]
  BY DEF Bounce, TypeOK
<1>3. \A w \in Workers : pc[w] \in Active => job[w].who \in Customers
  BY DEF ActiveHasRecipient
<1>4. Answered'
  <2>1. \A d \in Customers :
          /\ provider'[d] # "none" => requests'[d] = 1
          /\ log'[d].msg => provider'[d] \in Reached
          /\ log'[d].status \in SentFamily => log'[d].msg
          /\ log'[d].status = "absent" => ~log'[d].started
    BY <1>1, <1>2 DEF OutcomeInv, Known, Answered, Reached
  <2>2. \A w \in Workers : /\ pc'[w] = "store" => provider'[job[w].who] \in Reached
                           /\ pc'[w] = "sent" => log'[job[w].who].msg
    BY <1>1, <1>2, <1>3 DEF OutcomeInv, Known, Answered, Reached, Active
  <2> QED
    BY <1>1, <2>1, <2>2 DEF Answered
<1>5. Reported'
  <2>1. \A h \in Hooks : hook[h] # None => hook[h].who \in Customers
    BY DEF TypeOK
  <2> QED
    BY <1>1, <1>2, <2>1 DEF OutcomeInv, Known, Reported
<1>6. Claimed'
  BY <1>1 DEF OutcomeInv, Known, Claimed
<1>7. (LostIsReconciled /\ FailedUnsent /\ Uncancelled)'
  <2>0. LostIsReconciled /\ FailedUnsent /\ Uncancelled
    BY DEF OutcomeInv, Told
  <2>1. \A d \in Customers : provider'[d] = "accepted" => provider[d] = "accepted"
    BY <1>2
  <2>2. \A w \in Workers : pc[w] \in {"gate", "failed"} => job[w].who \in Customers
    BY <1>3 DEF Active
  <2> QED
    BY <1>1, <2>0, <2>1, <2>2 DEF LostIsReconciled, FailedUnsent, Uncancelled
<1> QED
  BY <1>4, <1>5, <1>6, <1>7 DEF OutcomeInv, Known, Told

LEMMA NextOutcome == ASSUME IInv, OutcomeInv, [Next]_vars PROVE OutcomeInv'
<1>1. ASSUME NEW w \in Workers, Work(w) PROVE OutcomeInv'
  <2>1. ASSUME NEW c \in Customers, ClaimRecipient(w, c) PROVE OutcomeInv'
    BY <2>1, ClaimRecipientKeeps
  <2>2. CASE PassGate(w)
    BY <2>2, PassGateKeeps
  <2>3. ASSUME NEW reply \in Replies, Send(w, reply) PROVE OutcomeInv'
    BY <2>3, SendKeeps
  <2>4. CASE StoreMessageId(w)
    BY <2>4, StoreMessageIdKeeps
  <2>5. CASE RecordSent(w)
    BY <2>5, RecordSentKeeps
  <2>6. CASE RecordFailure(w)
    BY <2>6, RecordFailureKeeps
  <2>7. CASE RecordUnsure(w)
    BY <2>7, RecordUnsureKeeps
  <2> QED
    BY <1>1, <2>1, <2>2, <2>3, <2>4, <2>5, <2>6, <2>7, TameWork, TameKeeps
<1>2. ASSUME NEW h \in Hooks, ApplyWebhook(h) PROVE OutcomeInv'
  BY <1>2, ApplyWebhookKeeps
<1>3. ASSUME NEW h \in Hooks, NEW c \in Customers, NEW incoming \in SentFamily \cup {"FAILED"},
             ReadWebhook(h, c, incoming)
      PROVE  OutcomeInv'
  BY <1>3, ReadWebhookKeeps
<1>4. ASSUME NEW c \in Customers, Bounce(c) PROVE OutcomeInv'
  BY <1>4, BounceKeeps
<1> QED
  BY <1>1, <1>2, <1>3, <1>4, TameOthers, TameKeeps

-----------------------------------------------------------------------------
(* What a step may never do                                                *)

Forward(c) ==
  /\ Rank(log'[c].status) >= Rank(log[c].status)
  /\ campaign.status \in Closed => log'[c].started = log[c].started

LEMMA RankIsNat == ASSUME NEW status PROVE Rank(status) \in Nat
BY DEF Rank

LEMMA UnrankedForward ==
  ASSUME NEW c, log'[c].status = log[c].status \/ log[c].status \notin SentFamily,
         log'[c].started = log[c].started
  PROVE  Forward(c)
<1>1. log[c].status \notin SentFamily => Rank(log[c].status) = 0
  BY DEF Rank, SentFamily
<1> QED
  BY <1>1, RankIsNat DEF Forward

LEMMA TameForward == ASSUME Tame, NEW c \in Customers PROVE Forward(c)
<1>1. /\ log'[c].started = log[c].started
      /\ log'[c].status = log[c].status \/ log[c].status \in {"absent", "DISPATCHING"} \cup Retryable
  BY RowTameMeans DEF Tame
<1>2. log[c].status \in {"absent", "DISPATCHING"} \cup Retryable => log[c].status \notin SentFamily
  BY DEF Retryable, SentFamily
<1> QED
  BY <1>1, <1>2, UnrankedForward

LEMMA RecordedForward ==
  ASSUME IInv, NEW w \in Workers, RecordSent(w) \/ RecordFailure(w) \/ RecordUnsure(w),
         NEW c \in Customers
  PROVE  Forward(c)
<1> USE DEF IInv
<1>1. job[w].who \in Customers
  BY DEF RecordSent, RecordFailure, RecordUnsure, At, ActiveHasRecipient, Active
<1>2. PICK status \in LogStatus : SetClaimed(w, status)
  BY DEF RecordSent, RecordFailure, RecordUnsure, LogStatus, SentFamily, DeadEnds
<1>3. PICK d : d = job[w].who
  OBVIOUS
<1>4. \/ log'[c] = log[c]
      \/ c = d /\ log[c].status = "DISPATCHING" /\ Touched(c, status)
  BY <1>1, <1>2, <1>3, SetClaimedEffect
<1>5. /\ log'[c].status = log[c].status \/ log[c].status \notin SentFamily
      /\ log'[c].started = log[c].started
  BY <1>4 DEF Touched, SentFamily
<1> QED
  BY <1>5, UnrankedForward

LEMMA ApplyWebhookForward ==
  ASSUME IInv, OutcomeInv, NEW h \in Hooks, ApplyWebhook(h), NEW c \in Customers
  PROVE  Forward(c)
<1> PICK who : who = hook[h].who
  OBVIOUS
<1> PICK seen : seen = hook[h].seen
  OBVIOUS
<1> PICK status : status = hook[h].next
  OBVIOUS
<1>1. who \in Customers /\ status \in LogStatus /\ Rank(status) >= Rank(seen)
  BY DEF ApplyWebhook, IInv, TypeOK, OutcomeInv, Known, Reported
<1>2. SetLog(who, {seen}, status)
  BY DEF ApplyWebhook
<1>3. \/ log'[c] = log[c]
      \/ log[c].status = seen /\ Touched(c, status)
  BY <1>1, <1>2, SetLogEffect DEF IInv
<1>4. /\ log'[c].started = log[c].started
      /\ log'[c].status = log[c].status \/ (log[c].status = seen /\ log'[c].status = status)
  BY <1>3 DEF Touched
<1> QED
  BY <1>1, <1>4, RankIsNat DEF Forward

LEMMA NextForward ==
  ASSUME IInv, OutcomeInv, [Next]_vars, NEW c \in Customers
  PROVE  Forward(c)
<1> USE DEF IInv
<1>1. ASSUME NEW w \in Workers, Work(w) PROVE Forward(c)
  <2>1. ASSUME NEW d \in Customers, ClaimRecipient(w, d) PROVE Forward(c)
    <3>1. log'[c].started = log[c].started
      BY <2>1, ClaimEffect DEF MarkersKept
    <3>2. log'[c].status = log[c].status \/ log[c].status \in Retryable
      BY <2>1, ClaimEffect DEF ClaimRecipient, ClaimHolds
    <3> QED
      BY <3>1, <3>2, UnrankedForward DEF Retryable, SentFamily
  <2>2. CASE PassGate(w)
    <3>1. campaign.status \notin Closed
      BY <2>2 DEF PassGate, Dispatchable, Closed
    <3>2. log'[c].status = log[c].status
      BY <2>2 DEF PassGate, TypeOK, Log
    <3> QED
      BY <3>1, <3>2, RankIsNat DEF Forward
  <2>3. ASSUME NEW reply \in Replies, Send(w, reply) PROVE Forward(c)
    <3>1. UNCHANGED log
      BY <2>3 DEF Send, rows
    <3> QED
      BY <3>1, UnrankedForward
  <2>4. CASE StoreMessageId(w)
    <3>1. log[c] \in Log
      BY DEF TypeOK
    <3>2. \/ log'[c] = log[c]
          \/ log'[c] = [log[c] EXCEPT !.msg = TRUE]
      BY <2>4, StoreEffect
    <3>3. log'[c].status = log[c].status /\ log'[c].started = log[c].started
      BY <3>1, <3>2 DEF Log
    <3> QED
      BY <3>3, UnrankedForward
  <2>5. CASE RecordSent(w) \/ RecordFailure(w) \/ RecordUnsure(w)
    BY <2>5, RecordedForward
  <2> QED
    BY <1>1, <2>1, <2>2, <2>3, <2>4, <2>5, TameWork, TameForward
<1>2. ASSUME NEW h \in Hooks, ApplyWebhook(h) PROVE Forward(c)
  BY <1>2, ApplyWebhookForward
<1>3. ASSUME NEW h \in Hooks, NEW d \in Customers, NEW incoming \in SentFamily \cup {"FAILED"},
             ReadWebhook(h, d, incoming)
      PROVE  Forward(c)
  <2>1. UNCHANGED log
    BY <1>3 DEF ReadWebhook, rows
  <2> QED
    BY <2>1, UnrankedForward
<1>4. ASSUME NEW d \in Customers, Bounce(d) PROVE Forward(c)
  <2>1. UNCHANGED log
    BY <1>4 DEF Bounce, rows
  <2> QED
    BY <2>1, UnrankedForward
<1> QED
  BY <1>1, <1>2, <1>3, <1>4, TameOthers, TameForward

(* Only these statements move a campaign, each from an open status.        *)
LEMMA ClosedCampaignStays ==
  ASSUME [Next]_vars, TypeOK, campaign.status \in Closed
  PROVE  campaign'.status = campaign.status
<1> USE DEF Closed
<1>1. ASSUME NEW w \in Workers, Work(w) PROVE UNCHANGED campaign
  <2>1. CASE MarkAbandoned(w) \/ SweepSpent(w) \/ NothingDue(w) \/ Load(w) \/ Scan(w)
    BY <2>1 DEF MarkAbandoned, SweepSpent, NothingDue, Load, Scan, rows
  <2>2. CASE ReleaseStale(w) \/ ExhaustCampaign(w)
    BY <2>2 DEF ReleaseStale, ExhaustCampaign, GoneStale
  <2>3. CASE Finalize(w) \/ Abort(w) \/ Claim(w)
    BY <2>3 DEF Finalize, Abort, Claim, Claimable
  <2>4. ASSUME NEW c \in Customers, RuleOut(w, c) \/ ClaimRecipient(w, c) \/ LoseRecipient(w, c)
        PROVE  UNCHANGED campaign
    BY <2>4 DEF RuleOut, ClaimRecipient, LoseRecipient, rows
  <2>5. CASE CheckFails(w) \/ PassGate(w) \/ GateClosed(w) \/ Recheck(w)
    BY <2>5 DEF CheckFails, PassGate, GateClosed, Recheck, rows
  <2>6. ASSUME NEW reply \in Replies, Send(w, reply) PROVE UNCHANGED campaign
    BY <2>6 DEF Send, rows
  <2>7. CASE StoreMessageId(w) \/ RecordSent(w) \/ RecordFailure(w) \/ RecordUnsure(w)
    BY <2>7 DEF StoreMessageId, RecordSent, RecordFailure, RecordUnsure
  <2> QED
    BY <1>1, <2>1, <2>2, <2>3, <2>4, <2>5, <2>6, <2>7 DEF Work
<1>2. ASSUME NEW p \in Operators,
             AskQueue(p) \/ \E targets \in SUBSET Customers : CommitQueue(p, targets)
      PROVE  UNCHANGED campaign
  BY <1>2 DEF AskQueue, CommitQueue, rows
<1>3. CASE CancelCampaign \/ CancelLogs \/ CancelDies
  BY <1>3 DEF CancelCampaign, CancelLogs, CancelDies, rows
<1>4. ASSUME NEW w \in Workers, StartCycle(w) \/ StatementFails(w) \/ Crash(w)
      PROVE  UNCHANGED campaign
  BY <1>4 DEF StartCycle, StatementFails, Crash, rows
<1>5. CASE GoStale
  BY <1>5 DEF GoStale
<1>6. ASSUME NEW h \in Hooks,
             \/ ApplyWebhook(h)
             \/ \E c \in Customers, incoming \in SentFamily \cup {"FAILED"} : ReadWebhook(h, c, incoming)
      PROVE  UNCHANGED campaign
  BY <1>6 DEF ApplyWebhook, ReadWebhook, rows
<1>7. ASSUME NEW c \in Customers, Bounce(c) PROVE UNCHANGED campaign
  BY <1>7 DEF Bounce, rows
<1>8. CASE UNCHANGED vars
  BY <1>8 DEF vars, rows
<1> QED
  BY <1>1, <1>2, <1>3, <1>4, <1>5, <1>6, <1>7, <1>8 DEF Next

-----------------------------------------------------------------------------
(* The campaign's books                                                    *)

Loading == {"load", "scan"}
Looping == {"next"} \cup Active

(* A worker that has claimed the campaign and may still try c.             *)
Trying(c) == {w \in Workers : pc[w] \in Loading \/ c \in job[w].todo}

(* Each claim of the campaign is one attempt of a recipient at most: it has *)
(* been made, or a worker may still make it.                               *)
OncePerClaim ==
  /\ campaign.attempts <= MaxAttempts
  /\ \A w \in Workers : /\ pc[w] \notin Looping => job[w].todo = {}
                        /\ \A c \in job[w].todo : job[w].seen[c] < MaxAttempts
  /\ \A c \in Customers : IsFiniteSet(Trying(c))
  /\ \A c \in Customers : log[c].attempts + Cardinality(Trying(c)) <= campaign.attempts

Reaches(c) == c \in late \/ log[c].status = "absent" \/ provider[c] \in Reached

(* A worker that has missed nobody has reached all but those it has left   *)
(* and those that were added when the draft had already been moved.        *)
Covered ==
  /\ (\E w \in Workers : pc[w] \in Loading \cup Looping) => campaign.status # "DRAFT"
  /\ campaign.status = "COMPLETED" => \A c \in Customers : Reaches(c)
  /\ \A w \in Workers : pc[w] \in Looping /\ ~job[w].missed =>
       \A c \in Customers : Reaches(c) \/ c \in job[w].todo \/ (pc[w] \in Active /\ job[w].who = c)

BooksInv == OncePerClaim /\ Covered

LEMMA InitBooks == Init => BooksInv
<1> SUFFICES ASSUME Init PROVE BooksInv
  OBVIOUS
<1>1. \A w \in Workers : pc[w] = "idle" /\ job[w].todo = {}
  BY DEF Init, NoJob
<1>2. campaign.status = "DRAFT" /\ campaign.attempts = 0 /\ \A c \in Customers : log[c].attempts = 0
  BY DEF Init
<1>3. \A c \in Customers : Trying(c) = {}
  BY <1>1 DEF Trying, Loading
<1>4. OncePerClaim
  <2>1. IsFiniteSet({}) /\ Cardinality({}) = 0
    BY FS_EmptySet
  <2>2. \A c \in Customers : IsFiniteSet(Trying(c)) /\ Cardinality(Trying(c)) = 0
    BY <1>3, <2>1
  <2> QED
    BY <1>1, <1>2, <2>2, MaxAttemptsAssumption DEF OncePerClaim
<1>5. Covered
  BY <1>1, <1>2 DEF Covered, Loading, Looping, Active
<1> QED
  BY <1>4, <1>5 DEF BooksInv

(* What most steps leave alone: a worker's list gets no longer, and the    *)
(* campaign is neither claimed nor completed.                              *)
ListKept(w) ==
  /\ job'[w].todo \subseteq job[w].todo
  /\ job'[w].todo # {} => job'[w].seen = job[w].seen
  /\ pc'[w] \in Loading => pc[w] \in Loading
  /\ job'[w].todo = {} \/ (pc[w] \in Looping => pc'[w] \in Looping)

CoverKept(w) ==
  /\ pc'[w] \in Looping => pc[w] \in Looping
  /\ pc'[w] \in Looping /\ ~job'[w].missed =>
       /\ ~job[w].missed /\ job'[w].todo = job[w].todo
       /\ pc[w] \in Active => pc'[w] \in Active /\ job'[w].who = job[w].who

JobKept(w) == ListKept(w) /\ CoverKept(w)

CampaignKept ==
  /\ campaign'.attempts = campaign.attempts
  /\ campaign'.status = "COMPLETED" => campaign.status = "COMPLETED"
  /\ campaign'.status = "DRAFT" => campaign.status = "DRAFT"

BooksKept ==
  /\ \A w \in Workers : JobKept(w)
  /\ \A c \in Customers : log'[c].attempts = log[c].attempts
  /\ CampaignKept
  /\ late \subseteq late'

LEMMA TouchedAttempts ==
  ASSUME NEW c, NEW status, Touched(c, status) \/ log'[c] = log[c]
  PROVE  log'[c].attempts = log[c].attempts
BY DEF Touched

LEMMA SetCampaignEffect ==
  ASSUME TypeOK, NEW status, SetCampaign(status)
  PROVE  campaign'.status = status /\ campaign'.attempts = campaign.attempts
BY DEF SetCampaign, TypeOK

LEMMA SameJobs ==
  ASSUME NEW w \in Workers, pc'[w] = pc[w], job'[w] = job[w]
  PROVE  JobKept(w)
BY DEF JobKept, ListKept, CoverKept

LEMMA MovedJob ==
  ASSUME NEW w \in Workers, job'[w] = job[w],
         pc'[w] \in Loading => pc[w] \in Loading, pc'[w] \in Looping => pc[w] \in Looping,
         pc[w] \in Looping => pc'[w] \in Active
  PROVE  JobKept(w)
BY DEF JobKept, ListKept, CoverKept, Looping

LEMMA BooksKeptByOthers ==
  ASSUME IInv, [Next]_vars, \A w \in Workers : ~Work(w)
  PROVE  BooksKept
<1> USE DEF IInv, TypeOK, BooksKept, rows, outside, actors, faults
<1>1. ASSUME NEW p \in Operators, AskQueue(p) PROVE BooksKept
  BY <1>1, SameJobs DEF AskQueue, CampaignKept
<1>2. ASSUME NEW p \in Operators, NEW targets \in SUBSET Customers, CommitQueue(p, targets)
      PROVE  BooksKept
  <2>1. \A c \in Customers : log'[c].attempts = log[c].attempts
    <3>1. \A c \in Customers : log[c] \in Log
      OBVIOUS
    <3> QED
      BY <1>2, <3>1 DEF CommitQueue, Log
  <2>2. CampaignKept
    BY <1>2, SetCampaignEffect DEF CommitQueue, CampaignKept
  <2> QED
    BY <1>2, <2>1, <2>2, SameJobs DEF CommitQueue
<1>3. CASE CancelCampaign \/ CancelDies
  BY <1>3, SetCampaignEffect, SameJobs DEF CancelCampaign, CancelDies, CampaignKept
<1>4. CASE CancelLogs
  <2>1. \A c \in Customers : log'[c].attempts = log[c].attempts
    BY <1>4, SetLogsEffect, TouchedAttempts DEF CancelLogs, LogStatus, DeadEnds
  <2> QED
    BY <1>4, <2>1, SameJobs DEF CancelLogs, CampaignKept
<1>5. ASSUME NEW w \in Workers, StartCycle(w) PROVE BooksKept
  <2>1. \A v \in Workers : JobKept(v)
    BY <1>5, SameJobs, MovedJob DEF StartCycle, At, Loading, Looping, Active
  <2> QED
    BY <1>5, <2>1 DEF StartCycle, CampaignKept
<1>6. ASSUME NEW w \in Workers, StatementFails(w) PROVE BooksKept
  <2>1. /\ pc'[w] = Catch[pc[w]] /\ pc[w] \in DOMAIN Catch
        /\ \A v \in Workers \ {w} : pc'[v] = pc[v] /\ job'[v] = job[v]
    BY <1>6, LeaveEffect DEF StatementFails
  <2>2. \/ pc'[w] \in {"idle", "abort"} /\ job'[w].todo = {}
        \/ pc[w] \in Active /\ pc'[w] \in Active /\ job'[w] = job[w]
    BY <1>6, <2>1, CatchTarget, LeaveEffect DEF StatementFails, Active
  <2>3. JobKept(w)
    BY <2>2 DEF JobKept, ListKept, CoverKept, Loading, Looping, Active
  <2>4. \A v \in Workers : JobKept(v)
    BY <2>1, <2>3, SameJobs
  <2> QED
    BY <1>6, <2>4 DEF StatementFails, CampaignKept
<1>7. ASSUME NEW w \in Workers, Crash(w) PROVE BooksKept
  <2>1. JobKept(w)
    BY <1>7, LeaveEffect DEF Crash, JobKept, ListKept, CoverKept, Loading, Looping, Active
  <2>2. \A v \in Workers : JobKept(v)
    BY <1>7, <2>1, LeaveEffect, SameJobs DEF Crash
  <2> QED
    BY <1>7, <2>2 DEF Crash, CampaignKept
<1>8. CASE GoStale
  BY <1>8, SameJobs DEF GoStale, CampaignKept
<1>9. ASSUME NEW h \in Hooks, ApplyWebhook(h) PROVE BooksKept
  <2> PICK c : c = hook[h].who
    OBVIOUS
  <2> PICK from : from = {hook[h].seen}
    OBVIOUS
  <2> PICK status : status = hook[h].next
    OBVIOUS
  <2>1. SetLog(c, from, status) /\ c \in Customers /\ status \in LogStatus
    BY <1>9 DEF ApplyWebhook
  <2>2. \A d \in Customers : log'[d].attempts = log[d].attempts
    BY <2>1, SetLogEffect, TouchedAttempts
  <2> QED
    BY <1>9, <2>2, SameJobs DEF ApplyWebhook, CampaignKept
<1>10. ASSUME NEW h \in Hooks, NEW c \in Customers, NEW incoming \in SentFamily \cup {"FAILED"},
              ReadWebhook(h, c, incoming)
       PROVE  BooksKept
  BY <1>10, SameJobs DEF ReadWebhook, CampaignKept
<1>11. ASSUME NEW c \in Customers, Bounce(c) PROVE BooksKept
  BY <1>11, SameJobs DEF Bounce, CampaignKept
<1>12. CASE UNCHANGED vars
  BY <1>12, SameJobs DEF vars, CampaignKept
<1> QED
  BY <1>1, <1>2, <1>3, <1>4, <1>5, <1>6, <1>7, <1>8, <1>9, <1>10, <1>11, <1>12 DEF Next

WorkKept(w) ==
  /\ UNCHANGED late
  /\ \A v \in Workers \ {w} : pc'[v] = pc[v] /\ job'[v] = job[v]
  /\ \A c \in Customers : log'[c].attempts = log[c].attempts
  /\ campaign'.attempts = campaign.attempts
  /\ campaign'.status = campaign.status \/ campaign'.status \in {"FAILED", "EXHAUSTED"}
  /\ campaign'.status # campaign.status => campaign.status \in {"SENDING", "FAILED"}
  /\ JobKept(w)

LEMMA BooksKeptByWork ==
  ASSUME IInv, NEW w \in Workers, Work(w),
         ~Claim(w), ~Scan(w), ~RecordSent(w), ~Finalize(w),
         \A c \in Customers : ~ClaimRecipient(w, c)
  PROVE  BooksKept
<1> USE DEF IInv, TypeOK, BooksKept, WorkKept, rows, outside, actors, faults
<1>0. WorkKept(w)
  <2>1. CASE MarkAbandoned(w)
    <3>1. \A c \in Customers : log'[c].attempts = log[c].attempts
      BY <2>1, SetLogsEffect, TouchedAttempts DEF MarkAbandoned, LogStatus, DeadEnds
    <3> QED
      BY <2>1, <3>1, MovedJob DEF MarkAbandoned, At, Loading, Looping, Active
  <2>2. CASE ReleaseStale(w)
    BY <2>2, SetCampaignEffect, MovedJob DEF ReleaseStale, GoneStale, At, Loading, Looping, Active
  <2>3. CASE ExhaustCampaign(w)
    BY <2>3, SetCampaignEffect, MovedJob DEF ExhaustCampaign, GoneStale, At, Loading, Looping, Active
  <2>4. CASE SweepSpent(w)
    <3>1. \A c \in Customers : log'[c].attempts = log[c].attempts
      BY <2>4, SetLogsEffect, TouchedAttempts DEF SweepSpent, LogStatus, DeadEnds
    <3> QED
      BY <2>4, <3>1, MovedJob DEF SweepSpent, At, Loading, Looping, Active
  <2>5. CASE NothingDue(w)
    BY <2>5, MovedJob DEF NothingDue, At, Loading, Looping, Active
  <2>6. CASE Load(w)
    <3>1. job'[w].todo = job[w].todo /\ job'[w].seen = job[w].seen
          /\ \A v \in Workers \ {w} : job'[v] = job[v]
      <4>1. job[w] \in Job
        OBVIOUS
      <4>2. [job[w] EXCEPT !.round = campaign.attempts].todo = job[w].todo
            /\ [job[w] EXCEPT !.round = campaign.attempts].seen = job[w].seen
        BY <4>1 DEF Job
      <4> QED
        BY <2>6, <4>2 DEF Load
    <3>2. pc[w] = "load" /\ pc'[w] \in {"scan", "abort", "idle"} /\ \A v \in Workers \ {w} : pc'[v] = pc[v]
      BY <2>6 DEF Load, At
    <3>3. JobKept(w)
      BY <3>1, <3>2 DEF JobKept, ListKept, CoverKept, Loading, Looping, Active
    <3> QED
      BY <2>6, <3>1, <3>2, <3>3 DEF Load
  <2>7. ASSUME NEW c \in Customers, RuleOut(w, c) \/ LoseRecipient(w, c) PROVE WorkKept(w)
    <3>1. job'[w].todo = job[w].todo \ {c} /\ job'[w].seen = job[w].seen /\ job'[w].missed
          /\ \A v \in Workers \ {w} : job'[v] = job[v]
      BY <2>7, MissEffect DEF RuleOut, LoseRecipient
    <3>2. \A d \in Customers : log'[d].attempts = log[d].attempts
      BY <2>7, SetLogEffect, TouchedAttempts DEF RuleOut, LoseRecipient, LogStatus, DeadEnds
    <3>3. pc[w] = "next" /\ pc'[w] = "next" /\ \A v \in Workers \ {w} : pc'[v] = pc[v]
      BY <2>7 DEF RuleOut, LoseRecipient, At
    <3>4. JobKept(w)
      BY <3>1, <3>3 DEF JobKept, ListKept, CoverKept, Loading
    <3> QED
      BY <2>7, <3>1, <3>2, <3>3, <3>4 DEF RuleOut, LoseRecipient
  <2>8. CASE Abort(w)
    <3>1. JobKept(w)
      BY <2>8, LeaveEffect DEF Abort, At, JobKept, ListKept, CoverKept, Loading, Looping, Active
    <3>2. /\ campaign'.attempts = campaign.attempts
          /\ campaign'.status = campaign.status \/ campaign'.status = "FAILED"
          /\ campaign'.status # campaign.status => campaign.status = "SENDING"
      BY <2>8, SetCampaignEffect DEF Abort
    <3> QED
      BY <2>8, <3>1, <3>2, LeaveEffect DEF Abort, At
  <2>9. CASE CheckFails(w) \/ GateClosed(w) \/ Recheck(w)
    BY <2>9, MovedJob DEF CheckFails, GateClosed, Recheck, At, Loading, Looping, Active
  <2>10. CASE PassGate(w)
    <3>1. \A c \in Customers : log'[c].attempts = log[c].attempts
      BY <2>10 DEF PassGate, Log
    <3> QED
      BY <2>10, <3>1, MovedJob DEF PassGate, At, Loading, Looping, Active
  <2>11. ASSUME NEW reply \in Replies, Send(w, reply) PROVE WorkKept(w)
    <3>1. /\ pc[w] = "send" /\ pc'[w] \in Active \ {"gate"}
          /\ \A v \in Workers \ {w} : pc'[v] = pc[v]
      BY <2>11, RepliesAssumption DEF Send, At, Active
    <3>2. UNCHANGED <<rows, late, job, actors, faults>>
      BY <2>11 DEF Send
    <3> QED
      BY <3>1, <3>2, MovedJob DEF Loading, Looping, Active
  <2>12. CASE StoreMessageId(w)
    <3>1. /\ pc[w] = "store" /\ pc'[w] \in {"sent", "unsure"}
          /\ \A v \in Workers \ {w} : pc'[v] = pc[v]
      BY <2>12 DEF StoreMessageId, At
    <3>2. \A c \in Customers : log'[c].attempts = log[c].attempts
      <4>1. ASSUME NEW c \in Customers PROVE log'[c] = log[c] \/ log'[c] = [log[c] EXCEPT !.msg = TRUE]
        BY <2>12, StoreEffect
      <4>2. \A c \in Customers : log[c] \in Log
        OBVIOUS
      <4> QED
        BY <4>1, <4>2 DEF Log
    <3> QED
      BY <2>12, <3>1, <3>2, MovedJob DEF StoreMessageId, Loading, Looping, Active
  <2>13. CASE RecordFailure(w) \/ RecordUnsure(w)
    <3>1. job[w].who \in Customers
      BY <2>13 DEF RecordFailure, RecordUnsure, At, ActiveHasRecipient, Active
    <3>2. PICK status \in LogStatus : SetClaimed(w, status)
      BY <2>13 DEF RecordFailure, RecordUnsure, LogStatus, DeadEnds
    <3>3. \A d \in Customers : log'[d].attempts = log[d].attempts
      <4> PICK c : c = job[w].who
        OBVIOUS
      <4>1. \A d \in Customers : log'[d] = log[d] \/ Touched(d, status)
        BY <3>1, <3>2, SetClaimedEffect
      <4> QED
        BY <4>1, TouchedAttempts
    <3>4. job'[w].todo \subseteq job[w].todo /\ job'[w].seen = job[w].seen /\ job'[w].missed
          /\ \A v \in Workers \ {w} : job'[v] = job[v]
      BY <2>13, MissEffect DEF RecordFailure, RecordUnsure
    <3>5. pc[w] \in Active /\ pc'[w] = "next" /\ \A v \in Workers \ {w} : pc'[v] = pc[v]
      BY <2>13 DEF RecordFailure, RecordUnsure, At, Active
    <3>6. JobKept(w)
      BY <3>4, <3>5 DEF JobKept, ListKept, CoverKept, Loading, Looping
    <3> QED
      BY <2>13, <3>3, <3>4, <3>5, <3>6 DEF RecordFailure, RecordUnsure
  <2> QED
    BY <2>1, <2>2, <2>3, <2>4, <2>5, <2>6, <2>7, <2>8, <2>9, <2>10, <2>11, <2>12, <2>13 DEF Work
<1> QED
  BY <1>0, SameJobs DEF CampaignKept

LEMMA FewerTrying ==
  ASSUME NEW c, IsFiniteSet(Trying(c)), Trying(c)' \subseteq Trying(c)
  PROVE  /\ IsFiniteSet(Trying(c)') /\ Cardinality(Trying(c)') <= Cardinality(Trying(c))
         /\ Cardinality(Trying(c)') \in Nat /\ Cardinality(Trying(c)) \in Nat
BY FS_Subset, FS_CardinalityType

LEMMA OnceKept ==
  ASSUME IInv, OncePerClaim, \A w \in Workers : ListKept(w),
         \A c \in Customers : log'[c].attempts = log[c].attempts,
         campaign'.attempts = campaign.attempts
  PROVE  OncePerClaim'
<1>1. ASSUME NEW w \in Workers
      PROVE  /\ pc'[w] \notin Looping => job'[w].todo = {}
             /\ \A c \in job'[w].todo : job'[w].seen[c] < MaxAttempts
  BY DEF OncePerClaim, ListKept
<1>2. ASSUME NEW c \in Customers
      PROVE  /\ IsFiniteSet(Trying(c)')
             /\ log'[c].attempts + Cardinality(Trying(c)') <= campaign'.attempts
  <2>1. Trying(c)' \subseteq Trying(c)
    BY DEF Trying, ListKept
  <2>2. IsFiniteSet(Trying(c)) /\ log[c].attempts + Cardinality(Trying(c)) <= campaign.attempts
    BY DEF OncePerClaim
  <2>3. log[c].attempts \in Nat /\ campaign.attempts \in Nat
    BY DEF IInv, TypeOK, Log
  <2>4. PICK m : m = Cardinality(Trying(c))
    OBVIOUS
  <2>5. PICK n : n = Cardinality(Trying(c)')
    OBVIOUS
  <2>6. IsFiniteSet(Trying(c)') /\ n <= m /\ n \in Nat /\ m \in Nat
    BY <2>1, <2>2, <2>4, <2>5, FewerTrying
  <2>7. log[c].attempts + n <= campaign.attempts
    BY <2>2, <2>3, <2>4, <2>6
  <2> QED
    BY <2>5, <2>6, <2>7
<1>3. campaign'.attempts <= MaxAttempts
  BY DEF OncePerClaim
<1> QED
  BY <1>1, <1>2, <1>3 DEF OncePerClaim

LEMMA OnceByClaim ==
  ASSUME IInv, OncePerClaim, NEW w \in Workers, Claim(w)
  PROVE  OncePerClaim'
<1>1. /\ pc[w] = "claim" /\ pc'[w] = "load" /\ \A v \in Workers \ {w} : pc'[v] = pc[v]
      /\ UNCHANGED <<log, job>>
  BY DEF Claim, At, IInv, TypeOK
<1>2. /\ campaign'.attempts = campaign.attempts + 1 /\ campaign.attempts < MaxAttempts
      /\ campaign.attempts \in Nat /\ MaxAttempts \in Nat
  BY MaxAttemptsAssumption DEF Claim, Claimable, IInv, TypeOK
<1>3. ASSUME NEW v \in Workers
      PROVE  /\ pc'[v] \notin Looping => job'[v].todo = {}
             /\ \A c \in job'[v].todo : job'[v].seen[c] < MaxAttempts
  BY <1>1 DEF OncePerClaim, Looping, Active
<1>4. ASSUME NEW c \in Customers
      PROVE  /\ IsFiniteSet(Trying(c)')
             /\ log'[c].attempts + Cardinality(Trying(c)') <= campaign'.attempts
  <2>1. Trying(c)' \subseteq Trying(c) \cup {w}
    BY <1>1 DEF Trying
  <2>2. IsFiniteSet(Trying(c)) /\ log[c].attempts + Cardinality(Trying(c)) <= campaign.attempts
    BY DEF OncePerClaim
  <2>3. log[c].attempts \in Nat /\ log'[c] = log[c]
    BY <1>1 DEF IInv, TypeOK, Log
  <2>4. PICK m : m = Cardinality(Trying(c))
    OBVIOUS
  <2>5. PICK n : n = Cardinality(Trying(c)')
    OBVIOUS
  <2>6. /\ IsFiniteSet(Trying(c) \cup {w}) /\ m \in Nat
        /\ Cardinality(Trying(c) \cup {w}) \in {m, m + 1}
    BY <2>2, <2>4, FS_AddElement, FS_CardinalityType
  <2>7. IsFiniteSet(Trying(c)') /\ n <= Cardinality(Trying(c) \cup {w}) /\ n \in Nat
    BY <2>1, <2>5, <2>6, FS_Subset, FS_CardinalityType
  <2>8. n <= m + 1
    BY <2>6, <2>7
  <2>9. log[c].attempts + n <= campaign.attempts + 1
    BY <1>2, <2>2, <2>3, <2>4, <2>6, <2>7, <2>8
  <2> QED
    BY <1>2, <2>3, <2>5, <2>7, <2>9
<1>5. campaign'.attempts <= MaxAttempts
  BY <1>2
<1> QED
  BY <1>3, <1>4, <1>5 DEF OncePerClaim

(* The rows a worker reads leave room for the attempt it has claimed.      *)
LEMMA ScanEffect ==
  ASSUME TypeOK, NEW w \in Workers, Scan(w)
  PROVE  /\ pc[w] = "scan" /\ pc'[w] = "next"
         /\ \A v \in Workers \ {w} : pc'[v] = pc[v] /\ job'[v] = job[v]
         /\ job'[w].todo = {c \in Customers : log[c].status \notin {"absent"} \cup SentFamily \cup DeadEnds}
         /\ \A c \in Customers : job'[w].seen[c] = log[c].attempts
         /\ job'[w].missed = (\E c \in Customers : log[c].status \in DeadEnds)
         /\ UNCHANGED <<campaign, log, provider>>
<1>1. /\ pc[w] = "scan" /\ pc'[w] = "next"
      /\ \A v \in Workers \ {w} : pc'[v] = pc[v] /\ job'[v] = job[v]
      /\ UNCHANGED <<campaign, log, provider>>
  BY DEF Scan, At, TypeOK, rows, outside, actors
<1> DEFINE todo == {c \in Customers : log[c].status \notin {"absent"} \cup SentFamily \cup DeadEnds}
           missed == \E c \in Customers : log[c].status \in DeadEnds
           seen == [c \in Customers |-> log[c].attempts]
<1>2. job' = [job EXCEPT ![w] = [who |-> None, round |-> job[w].round, todo |-> todo,
                                 missed |-> missed, seen |-> seen]]
  BY DEF Scan
<1>3. \A c \in Customers : seen[c] = log[c].attempts
  OBVIOUS
<1> HIDE DEF todo, missed, seen
<1>4. job'[w].todo = todo /\ job'[w].seen = seen
  BY <1>2 DEF TypeOK
<1>5. job'[w].missed = missed
  BY <1>2 DEF TypeOK
<1> QED
  BY <1>1, <1>3, <1>4, <1>5 DEF todo, missed

LEMMA OnceByScan ==
  ASSUME IInv, OncePerClaim, NEW w \in Workers, Scan(w)
  PROVE  OncePerClaim'
<1>1. /\ pc[w] = "scan" /\ pc'[w] = "next"
      /\ \A v \in Workers \ {w} : pc'[v] = pc[v] /\ job'[v] = job[v]
      /\ job'[w].todo \subseteq Customers
      /\ \A c \in Customers : job'[w].seen[c] = log[c].attempts
      /\ UNCHANGED <<campaign, log>>
  BY ScanEffect DEF IInv
<1>2. \A c \in Customers : w \in Trying(c) /\ Trying(c)' \subseteq Trying(c)
  BY <1>1 DEF Trying, Loading
<1>3. campaign.attempts \in Nat /\ MaxAttempts \in Nat
      /\ \A c \in Customers : log[c].attempts \in Nat
  BY MaxAttemptsAssumption DEF IInv, TypeOK, Log
<1>4. campaign.attempts <= MaxAttempts
  BY DEF OncePerClaim
<1>5. ASSUME NEW c \in Customers
      PROVE  /\ IsFiniteSet(Trying(c)')
             /\ log'[c].attempts + Cardinality(Trying(c)') <= campaign'.attempts
             /\ log[c].attempts < MaxAttempts
  <2>2. IsFiniteSet(Trying(c)) /\ log[c].attempts + Cardinality(Trying(c)) <= campaign.attempts
    BY DEF OncePerClaim
  <2>4. PICK m : m = Cardinality(Trying(c))
    OBVIOUS
  <2>5. PICK n : n = Cardinality(Trying(c)')
    OBVIOUS
  <2>6. IsFiniteSet(Trying(c)') /\ n <= m /\ n \in Nat /\ m \in Nat
    BY <1>2, <2>2, <2>4, <2>5, FewerTrying
  <2>7. m # 0
    BY <1>2, <2>2, <2>4, FS_EmptySet
  <2>8. log[c].attempts + n <= campaign.attempts /\ log[c].attempts < MaxAttempts
    BY <1>3, <1>4, <2>2, <2>4, <2>6, <2>7
  <2> QED
    BY <1>1, <2>5, <2>6, <2>8
<1>6. ASSUME NEW v \in Workers
      PROVE  /\ pc'[v] \notin Looping => job'[v].todo = {}
             /\ \A c \in job'[v].todo : job'[v].seen[c] < MaxAttempts
  <2>1. CASE v = w
    BY <1>1, <1>5, <2>1 DEF Looping
  <2>2. CASE v # w
    BY <1>1, <2>2 DEF OncePerClaim
  <2> QED
    BY <2>1, <2>2
<1> QED
  BY <1>1, <1>4, <1>5, <1>6 DEF OncePerClaim

LEMMA OnceByRecipient ==
  ASSUME IInv, OncePerClaim, NEW w \in Workers, NEW c \in Customers, ClaimRecipient(w, c)
  PROVE  OncePerClaim'
<1>1. /\ pc'[w] = "gate" /\ c \in job[w].todo
      /\ job'[w].seen = job[w].seen /\ job'[w].todo = job[w].todo \ {c}
      /\ \A v \in Workers \ {w} : pc'[v] = pc[v] /\ job'[v] = job[v]
      /\ UNCHANGED campaign
  BY ClaimEffect DEF ClaimRecipient, At, IInv, TypeOK
<1>2. /\ log'[c].attempts = log[c].attempts + 1
      /\ \A d \in Customers \ {c} : log'[d] = log[d]
      /\ \A d \in Customers : log[d].attempts \in Nat
      /\ campaign.attempts \in Nat
  <2>1. log'[c] = [status |-> "DISPATCHING", attempts |-> log[c].attempts + 1,
                   started |-> log[c].started, msg |-> log[c].msg]
    BY ClaimEffect DEF IInv
  <2>2. \A d \in Customers \ {c} : log'[d] = log[d]
    BY ClaimEffect DEF IInv
  <2>3. log'[c].attempts = log[c].attempts + 1
    BY <2>1
  <2> QED
    BY <2>2, <2>3 DEF IInv, TypeOK, Log
<1>3. ASSUME NEW v \in Workers
      PROVE  /\ pc'[v] \notin Looping => job'[v].todo = {}
             /\ \A d \in job'[v].todo : job'[v].seen[d] < MaxAttempts
  BY <1>1 DEF OncePerClaim, Looping, Active
<1>4. ASSUME NEW d \in Customers
      PROVE  /\ IsFiniteSet(Trying(d)')
             /\ log'[d].attempts + Cardinality(Trying(d)') <= campaign'.attempts
  <2>1. Trying(d)' \subseteq Trying(d)
    BY <1>1 DEF Trying, Loading
  <2>2. IsFiniteSet(Trying(d)) /\ log[d].attempts + Cardinality(Trying(d)) <= campaign.attempts
    BY DEF OncePerClaim
  <2>4. PICK m : m = Cardinality(Trying(d))
    OBVIOUS
  <2>5. PICK n : n = Cardinality(Trying(d)')
    OBVIOUS
  <2>6. IsFiniteSet(Trying(d)') /\ n <= m /\ n \in Nat /\ m \in Nat
    BY <2>1, <2>2, <2>4, <2>5, FewerTrying
  <2>7. CASE d # c
    <3>1. log[d].attempts + n <= campaign.attempts
      BY <1>2, <2>2, <2>4, <2>6
    <3> QED
      BY <1>1, <1>2, <2>5, <2>6, <2>7, <3>1
  <2>8. CASE d = c
    <3>1. w \in Trying(d) /\ w \notin Trying(d)'
      BY <1>1, <2>8 DEF Trying, Loading
    <3>2. m # n
      BY <2>1, <2>2, <2>4, <2>5, <3>1, FS_Subset
    <3>3. log[d].attempts + 1 + n <= campaign.attempts
      BY <1>2, <2>2, <2>4, <2>6, <3>2
    <3> QED
      BY <1>1, <1>2, <2>5, <2>6, <2>8, <3>3
  <2> QED
    BY <2>7, <2>8
<1>5. campaign'.attempts <= MaxAttempts
  BY <1>1 DEF OncePerClaim
<1> QED
  BY <1>3, <1>4, <1>5 DEF OncePerClaim

(* Once the draft has been moved, whoever has been reached stays reached.  *)
LEMMA ReachesStays ==
  ASSUME IInv, OutcomeInv, [Next]_vars, campaign.status # "DRAFT", NEW c \in Customers, Reaches(c)
  PROVE  Reaches(c)'
<1> USE DEF IInv, Reaches
<1>1. CASE Tame
  <2>1. UNCHANGED provider /\ late \subseteq late' /\ RowTame(c)
    BY <1>1 DEF Tame
  <2>2. log[c].status = "absent" => log'[c].status = "absent" \/ c \in late'
    BY <2>1, RowTameMeans DEF Retryable
  <2> QED
    BY <2>1, <2>2
<1>2. ASSUME NEW w \in Workers, Work(w) PROVE Reaches(c)'
  <2>1. ASSUME NEW d \in Customers, ClaimRecipient(w, d) PROVE Reaches(c)'
    <3>1. UNCHANGED <<provider, late>>
      BY <2>1 DEF ClaimRecipient, outside
    <3>2. log[c].status = "absent" => log'[c] = log[c]
      BY <2>1, ClaimEffect DEF ClaimRecipient, ClaimHolds, Retryable
    <3> QED
      BY <3>1, <3>2
  <2>2. CASE PassGate(w)
    BY <2>2 DEF PassGate, outside, TypeOK, Log
  <2>3. ASSUME NEW reply \in Replies, Send(w, reply) PROVE Reaches(c)'
    <3> PICK d : d = job[w].who
      OBVIOUS
    <3>1. provider[d] = "none" /\ d \in Customers
      BY <2>3, BeforeRequest DEF Send, OnTheWay, OutcomeInv, Known
    <3>2. UNCHANGED <<log, late>>
      BY <2>3 DEF Send, rows
    <3>3. \A e \in Customers \ {d} : provider'[e] = provider[e]
      BY <2>3, <3>1 DEF Send, TypeOK
    <3> QED
      BY <3>1, <3>2, <3>3 DEF Reached
  <2>4. CASE StoreMessageId(w)
    <3>1. log[c] \in Log
      BY DEF TypeOK
    <3>2. log'[c] = log[c] \/ log'[c] = [log[c] EXCEPT !.msg = TRUE]
      BY <2>4, StoreEffect
    <3>3. log'[c].status = log[c].status
      BY <3>1, <3>2 DEF Log
    <3> QED
      BY <2>4, <3>3 DEF StoreMessageId, outside
  <2>5. CASE RecordSent(w) \/ RecordFailure(w) \/ RecordUnsure(w)
    <3>1. job[w].who \in Customers
      BY <2>5 DEF RecordSent, RecordFailure, RecordUnsure, At, ActiveHasRecipient, Active
    <3>2. PICK status \in LogStatus : SetClaimed(w, status)
      BY <2>5 DEF RecordSent, RecordFailure, RecordUnsure, LogStatus, SentFamily, DeadEnds
    <3>3. PICK d : d = job[w].who
      OBVIOUS
    <3>4. log'[c] = log[c] \/ log[c].status = "DISPATCHING"
      BY <3>1, <3>2, <3>3, SetClaimedEffect
    <3> QED
      BY <2>5, <3>4 DEF RecordSent, RecordFailure, RecordUnsure, outside
  <2> QED
    BY <1>1, <1>2, <2>1, <2>2, <2>3, <2>4, <2>5, TameWork
<1>3. ASSUME NEW h \in Hooks, ApplyWebhook(h) PROVE Reaches(c)'
  <2> PICK d : d = hook[h].who
    OBVIOUS
  <2> PICK from : from = {hook[h].seen}
    OBVIOUS
  <2> PICK status : status = hook[h].next
    OBVIOUS
  <2>1. SetLog(d, from, status) /\ d \in Customers /\ status \in LogStatus /\ log[d].msg
    BY <1>3 DEF ApplyWebhook, TypeOK, OutcomeInv, Known, Reported
  <2>2. provider[d] \in Reached /\ UNCHANGED <<provider, late>>
    BY <1>3, <2>1 DEF ApplyWebhook, outside, OutcomeInv, Known, Answered
  <2>3. c = d \/ log'[c] = log[c]
    BY <2>1, SetLogEffect
  <2> QED
    BY <2>2, <2>3
<1>4. ASSUME NEW h \in Hooks, NEW d \in Customers, NEW incoming \in SentFamily \cup {"FAILED"},
             ReadWebhook(h, d, incoming)
      PROVE  Reaches(c)'
  BY <1>4 DEF ReadWebhook, rows, outside
<1>5. ASSUME NEW d \in Customers, Bounce(d) PROVE Reaches(c)'
  BY <1>5 DEF Bounce, rows, TypeOK, Reached
<1> QED
  BY <1>1, <1>2, <1>3, <1>4, <1>5, TameOthers

LEMMA CoveredKept ==
  ASSUME IInv, OutcomeInv, Covered, [Next]_vars, BooksKept
  PROVE  Covered'
<1>1. ASSUME campaign.status # "DRAFT", NEW c \in Customers, Reaches(c) PROVE Reaches(c)'
  BY <1>1, ReachesStays
<1>3. (\E w \in Workers : pc'[w] \in Loading \cup Looping) => campaign'.status # "DRAFT"
  BY DEF Covered, BooksKept, CampaignKept, JobKept, ListKept, CoverKept
<1>4. campaign'.status = "COMPLETED" => \A c \in Customers : Reaches(c)'
  BY <1>1 DEF Covered, BooksKept, CampaignKept
<1>5. ASSUME NEW w \in Workers, pc'[w] \in Looping, ~job'[w].missed, NEW c \in Customers
      PROVE  Reaches(c)' \/ c \in job'[w].todo \/ (pc'[w] \in Active /\ job'[w].who = c)
  <2>1. /\ pc[w] \in Looping /\ ~job[w].missed /\ job'[w].todo = job[w].todo
        /\ pc[w] \in Active => pc'[w] \in Active /\ job'[w].who = job[w].who
    BY <1>5 DEF BooksKept, JobKept, CoverKept
  <2>2. campaign.status # "DRAFT"
    BY <2>1 DEF Covered
  <2>3. Reaches(c) \/ c \in job[w].todo \/ (pc[w] \in Active /\ job[w].who = c)
    BY <2>1 DEF Covered
  <2> QED
    BY <1>1, <2>1, <2>2, <2>3
<1> QED
  BY <1>3, <1>4, <1>5 DEF Covered

LEMMA CoveredByWorker ==
  ASSUME IInv, OutcomeInv, Covered, [Next]_vars, NEW w \in Workers,
         campaign.status # "DRAFT", campaign'.status # "DRAFT",
         \A v \in Workers \ {w} : pc'[v] = pc[v] /\ job'[v] = job[v],
         campaign'.status = "COMPLETED" => \A c \in Customers : Reaches(c),
         pc'[w] \in Looping /\ ~job'[w].missed =>
           \A c \in Customers :
             Reaches(c) \/ c \in job'[w].todo \/ (pc'[w] \in Active /\ job'[w].who = c)
  PROVE  Covered'
<1>1. ASSUME NEW c \in Customers, Reaches(c) PROVE Reaches(c)'
  BY <1>1, ReachesStays
<1>3. campaign'.status = "COMPLETED" => \A c \in Customers : Reaches(c)'
  BY <1>1
<1>4. ASSUME NEW v \in Workers, pc'[v] \in Looping, ~job'[v].missed, NEW c \in Customers
      PROVE  Reaches(c)' \/ c \in job'[v].todo \/ (pc'[v] \in Active /\ job'[v].who = c)
  <2>1. CASE v = w
    BY <1>1, <1>4, <2>1
  <2>2. CASE v # w
    <3>1. pc'[v] = pc[v] /\ job'[v] = job[v]
      BY <2>2
    <3>2. Reaches(c) \/ c \in job[v].todo \/ (pc[v] \in Active /\ job[v].who = c)
      BY <1>4, <3>1 DEF Covered
    <3> QED
      BY <1>1, <3>1, <3>2
  <2> QED
    BY <2>1, <2>2
<1> QED
  BY <1>3, <1>4 DEF Covered

LEMMA CoveredByScan ==
  ASSUME IInv, OutcomeInv, Covered, [Next]_vars, NEW w \in Workers, Scan(w)
  PROVE  Covered'
<1>1. /\ pc[w] = "scan" /\ pc'[w] = "next"
      /\ \A v \in Workers \ {w} : pc'[v] = pc[v] /\ job'[v] = job[v]
      /\ job'[w].todo = {c \in Customers : log[c].status \notin {"absent"} \cup SentFamily \cup DeadEnds}
      /\ job'[w].missed = (\E c \in Customers : log[c].status \in DeadEnds)
      /\ UNCHANGED campaign
  BY ScanEffect DEF IInv
<1>2. campaign.status # "DRAFT"
  BY <1>1 DEF Covered, Loading
<1>3. ASSUME ~job'[w].missed, NEW c \in Customers PROVE Reaches(c) \/ c \in job'[w].todo
  <2>1. log[c].status \in SentFamily => Reaches(c)
    BY DEF Reaches, OutcomeInv, Known, Answered
  <2>2. log[c].status \notin DeadEnds
    BY <1>1, <1>3
  <2> QED
    BY <1>1, <2>1, <2>2 DEF Reaches
<1>4. campaign'.status = "COMPLETED" => \A c \in Customers : Reaches(c)
  BY <1>1 DEF Covered
<1> QED
  BY <1>1, <1>2, <1>3, <1>4, CoveredByWorker

LEMMA CoveredByRecipient ==
  ASSUME IInv, OutcomeInv, Covered, [Next]_vars, NEW w \in Workers, NEW c \in Customers,
         ClaimRecipient(w, c)
  PROVE  Covered'
<1>1. /\ pc[w] = "next" /\ pc'[w] = "gate"
      /\ job'[w].who = c /\ job'[w].todo = job[w].todo \ {c} /\ job'[w].missed = job[w].missed
      /\ \A v \in Workers \ {w} : pc'[v] = pc[v] /\ job'[v] = job[v]
      /\ UNCHANGED campaign
  BY ClaimEffect DEF ClaimRecipient, At, IInv, TypeOK, actors
<1>2. campaign.status # "DRAFT" /\ pc[w] \in Looping /\ pc[w] \notin Active /\ pc'[w] \in Active
  BY <1>1 DEF Covered, Looping, Active
<1>3. ASSUME ~job'[w].missed, NEW d \in Customers
      PROVE  Reaches(d) \/ d \in job'[w].todo \/ (pc'[w] \in Active /\ job'[w].who = d)
  BY <1>1, <1>2, <1>3 DEF Covered
<1>4. campaign'.status = "COMPLETED" => \A d \in Customers : Reaches(d)
  BY <1>1 DEF Covered
<1> QED
  BY <1>1, <1>2, <1>3, <1>4, CoveredByWorker

LEMMA CoveredBySent ==
  ASSUME IInv, OutcomeInv, Covered, [Next]_vars, NEW w \in Workers, RecordSent(w)
  PROVE  Covered'
<1>1. /\ pc[w] = "sent" /\ pc'[w] = "next"
      /\ job'[w].todo = job[w].todo /\ job'[w].missed = job[w].missed
      /\ \A v \in Workers \ {w} : pc'[v] = pc[v] /\ job'[v] = job[v]
      /\ UNCHANGED campaign
  BY SentEffect DEF RecordSent, At, IInv, TypeOK, actors
<1>2. campaign.status # "DRAFT" /\ pc[w] \in Looping /\ pc[w] \in Active
  BY <1>1 DEF Covered, Looping, Active
<1>3. ASSUME ~job'[w].missed, NEW c \in Customers PROVE Reaches(c) \/ c \in job'[w].todo
  <2>1. job[w].who = c => Reaches(c)
    BY <1>1 DEF Reaches, OutcomeInv, Known, Answered
  <2> QED
    BY <1>1, <1>2, <1>3, <2>1 DEF Covered
<1>4. campaign'.status = "COMPLETED" => \A c \in Customers : Reaches(c)
  BY <1>1 DEF Covered
<1> QED
  BY <1>1, <1>2, <1>3, <1>4, CoveredByWorker

LEMMA CoveredByFinalize ==
  ASSUME IInv, OutcomeInv, Covered, [Next]_vars, NEW w \in Workers, Finalize(w)
  PROVE  Covered'
<1>1. /\ pc[w] = "next" /\ pc'[w] = "idle" /\ job[w].todo = {}
      /\ \A v \in Workers \ {w} : pc'[v] = pc[v] /\ job'[v] = job[v]
  BY LeaveEffect DEF Finalize, At, IInv, TypeOK
<1>2. campaign.status # "DRAFT" /\ pc[w] \in Looping /\ pc[w] \notin Active /\ pc'[w] \notin Looping
  BY <1>1 DEF Covered, Looping, Active
<1>3. /\ campaign'.status = "COMPLETED" => campaign.status = "COMPLETED" \/ ~job[w].missed
      /\ campaign'.status = "DRAFT" => campaign.status = "DRAFT"
  BY SetCampaignEffect DEF Finalize, IInv
<1>4. campaign'.status = "COMPLETED" => \A c \in Customers : Reaches(c)
  BY <1>1, <1>2, <1>3 DEF Covered
<1> QED
  BY <1>1, <1>2, <1>3, <1>4, CoveredByWorker

LEMMA CoveredByClaim ==
  ASSUME IInv, OutcomeInv, Covered, [Next]_vars, NEW w \in Workers, Claim(w)
  PROVE  Covered'
<1>1. /\ pc'[w] = "load" /\ campaign'.status = "SENDING"
      /\ \A v \in Workers \ {w} : pc'[v] = pc[v] /\ job'[v] = job[v]
  BY DEF Claim, At, IInv, TypeOK
<1>2. campaign.status # "DRAFT"
  BY DEF Claim, Claimable
<1>3. pc'[w] \notin Looping
  BY <1>1 DEF Looping, Active
<1> QED
  BY <1>1, <1>2, <1>3, CoveredByWorker

LEMMA NextBooks == ASSUME IInv, OutcomeInv, BooksInv, [Next]_vars PROVE BooksInv'
<1>0. OncePerClaim /\ Covered
  BY DEF BooksInv
<1>1. CASE BooksKept
  <2>1. OncePerClaim'
    BY <1>0, <1>1, OnceKept DEF BooksKept, JobKept, CampaignKept
  <2>2. Covered'
    BY <1>0, <1>1, CoveredKept
  <2> QED
    BY <2>1, <2>2 DEF BooksInv
<1>2. ASSUME NEW w \in Workers, Work(w) PROVE BooksInv'
  <2>1. CASE Claim(w)
    BY <1>0, <2>1, OnceByClaim, CoveredByClaim DEF BooksInv
  <2>2. CASE Scan(w)
    BY <1>0, <2>2, OnceByScan, CoveredByScan DEF BooksInv
  <2>3. ASSUME NEW c \in Customers, ClaimRecipient(w, c) PROVE BooksInv'
    BY <1>0, <2>3, OnceByRecipient, CoveredByRecipient DEF BooksInv
  <2>4. CASE RecordSent(w)
    <3>1. \A d \in Customers : log'[d].attempts = log[d].attempts
      <4>1. job[w].who \in Customers /\ SetClaimed(w, "SENT") /\ "SENT" \in LogStatus
        BY <2>4 DEF RecordSent, At, IInv, ActiveHasRecipient, Active, LogStatus, SentFamily
      <4> PICK c : c = job[w].who
        OBVIOUS
      <4>2. \A d \in Customers : log'[d] = log[d] \/ Touched(d, "SENT")
        BY <4>1, SetClaimedEffect DEF IInv
      <4> QED
        BY <4>2, TouchedAttempts
    <3>2. /\ pc[w] = "sent" /\ pc'[w] = "next" /\ UNCHANGED campaign
          /\ job'[w].todo = job[w].todo /\ job'[w].seen = job[w].seen
          /\ \A v \in Workers \ {w} : pc'[v] = pc[v] /\ job'[v] = job[v]
      BY <2>4, SentEffect DEF RecordSent, At, IInv, TypeOK
    <3>3. \A v \in Workers : ListKept(v)
      BY <3>2 DEF ListKept, Loading, Looping
    <3>4. OncePerClaim'
      BY <1>0, <3>1, <3>2, <3>3, OnceKept
    <3> QED
      BY <1>0, <2>4, <3>4, CoveredBySent DEF BooksInv
  <2>5. CASE Finalize(w)
    <3>1. /\ pc'[w] = "idle" /\ job'[w].todo = {} /\ UNCHANGED log
          /\ \A v \in Workers \ {w} : pc'[v] = pc[v] /\ job'[v] = job[v]
      BY <2>5, LeaveEffect DEF Finalize, At, IInv, TypeOK
    <3>2. campaign'.attempts = campaign.attempts
      BY <2>5, SetCampaignEffect DEF Finalize, IInv
    <3>3. \A v \in Workers : ListKept(v)
      BY <3>1 DEF ListKept, Loading
    <3>4. OncePerClaim'
      BY <1>0, <3>1, <3>2, <3>3, OnceKept
    <3> QED
      BY <1>0, <2>5, <3>4, CoveredByFinalize DEF BooksInv
  <2> QED
    BY <1>1, <1>2, <2>1, <2>2, <2>3, <2>4, <2>5, BooksKeptByWork
<1> QED
  BY <1>1, <1>2, BooksKeptByOthers

-----------------------------------------------------------------------------
(* Theorems                                                                *)

THEOREM Invariance == Spec => []IInv
<1>1. Init => IInv
  BY InitIInv
<1>2. IInv /\ [Next]_vars => IInv'
  BY NextIInv
<1> QED
  BY <1>1, <1>2, PTL DEF Spec

(* The rows keep their form.                                               *)
THEOREM TypeCorrect == Spec => []TypeOK
<1>1. IInv => TypeOK
  BY DEF IInv
<1> QED
  BY <1>1, Invariance, PTL

(* A recipient is never sent the campaign twice, for any number of workers, *)
(* crashes, failed statements and attempts.                                *)
THEOREM RequestedOnce == Spec => []AtMostOneRequest
<1>1. IInv => AtMostOneRequest
  BY DEF IInv, OneRequest, AtMostOneRequest
<1> QED
  BY <1>1, Invariance, PTL

(* What becomes of a request, for any number of actors and faults.         *)
LEMMA Outcomes == Spec => [](IInv /\ OutcomeInv)
<1>1. Init => IInv /\ OutcomeInv
  BY InitIInv, InitOutcome
<1>2. IInv /\ OutcomeInv /\ [Next]_vars => (IInv /\ OutcomeInv)'
  BY NextIInv, NextOutcome
<1> QED
  BY <1>1, <1>2, PTL DEF Spec

(* A message Meta accepted while its reply was lost or its worker died is   *)
(* left to be reconciled, for any number of workers, crashes, failed        *)
(* statements and requests that time out.                                   *)
THEOREM DoubtIsReconciled == Spec => []LostIsReconciled
<1>1. OutcomeInv => LostIsReconciled
  BY DEF OutcomeInv, Told
<1> QED
  BY <1>1, Outcomes, PTL

(* A completed, exhausted or cancelled campaign stays so and no recipient  *)
(* passes its gate any more; no report takes a recipient back.             *)
THEOREM ClosedIsFinal == Spec => ClosedStays
<1>1. ASSUME IInv, OutcomeInv, [Next]_vars
      PROVE  /\ campaign.status \in Closed =>
                  /\ campaign'.status = campaign.status
                  /\ \A c \in Customers : log'[c].started = log[c].started
             /\ \A c \in Customers : Rank(log'[c].status) >= Rank(log[c].status)
  BY <1>1, NextForward, ClosedCampaignStays DEF IInv, Forward
<1>2. IInv /\ OutcomeInv /\ [Next]_vars =>
        [/\ campaign.status \in Closed =>
              /\ campaign'.status = campaign.status
              /\ \A c \in Customers : log'[c].started = log[c].started
         /\ \A c \in Customers : Rank(log'[c].status) >= Rank(log[c].status)]_vars
  BY <1>1
<1> QED
  BY <1>2, Outcomes, PTL DEF Spec, ClosedStays

LEMMA Books == Spec => [](IInv /\ OutcomeInv /\ BooksInv)
<1>1. Init => IInv /\ OutcomeInv /\ BooksInv
  BY InitIInv, InitOutcome, InitBooks
<1>2. IInv /\ OutcomeInv /\ BooksInv /\ [Next]_vars => (IInv /\ OutcomeInv /\ BooksInv)'
  BY NextIInv, NextOutcome, NextBooks
<1> QED
  BY <1>1, <1>2, PTL DEF Spec

LEMMA OnceIsTried == ASSUME IInv, OncePerClaim PROVE TriedOncePerClaim
<1>1. ASSUME NEW c \in Customers PROVE log[c].attempts <= campaign.attempts
  <2> PICK n : n = Cardinality(Trying(c))
    OBVIOUS
  <2>1. n \in Nat
    BY FS_CardinalityType DEF OncePerClaim
  <2>2. log[c].attempts + n <= campaign.attempts
    BY DEF OncePerClaim
  <2>3. log[c].attempts \in Nat /\ campaign.attempts \in Nat
    BY DEF IInv, TypeOK, Log
  <2> QED
    BY <2>1, <2>2, <2>3
<1> QED
  BY <1>1 DEF OncePerClaim, TriedOncePerClaim

(* A recipient is tried at most once per claim of the campaign, however    *)
(* many requests queue it and whatever times out.                          *)
THEOREM AttemptsAreBounded == Spec => []TriedOncePerClaim
<1>1. IInv /\ BooksInv => TriedOncePerClaim
  BY OnceIsTried DEF BooksInv
<1> QED
  BY <1>1, Books, PTL

(* The books agree, for any number of recipients, workers, requests to     *)
(* queue the campaign, crashes, failed statements and timeouts.            *)
THEOREM BooksAreKept == Spec => []BooksAgree
<1>1. ASSUME IInv, OutcomeInv, BooksInv PROVE BooksAgree
  <2>1. CompletedIsReached
    BY <1>1 DEF BooksInv, Covered, CompletedIsReached, Reaches, Reached
  <2>2. CancelledIsUnsent
    BY <1>1 DEF OutcomeInv, Told, Uncancelled, CancelledIsUnsent
  <2>3. TriedOncePerClaim
    BY <1>1, OnceIsTried DEF BooksInv
  <2> QED
    BY <2>1, <2>2, <2>3 DEF BooksAgree
<1>2. IInv /\ OutcomeInv /\ BooksInv => BooksAgree
  BY <1>1
<1> QED
  BY <1>2, Books, PTL

(***************************************************************************)
(* WhatsApp                                                                *)
(***************************************************************************)

Versioned == {"replace", "synced", "reauth", "check", "assert", "call"}
CodeOps   == {"send", "wrong", "claim", "stamp"}

(* The guest has proved his number.                                        *)
Proved == \E k \in Codes : tokens[k] > 0

(* What is known of a request at the connection and the campaigns.  A      *)
(* version names one sender of the brand, since it is drawn once.          *)
ChannelVouches(r) ==
  /\ r.op \in Versioned =>
       /\ r.version <= drawn
       /\ IdentityWhere(Home, r.version) => conn[Home].sender = r.sender
  /\ r.op = "reauth" => r.version \in refused
  /\ r.op = "synced" /\ IdentityWhere(Home, r.version) => applied[r.sender] = r.version
  /\ r.op \in {"pick", "put"} => r.selection.sent = {}
  /\ r.op \in {"check", "assert", "call"} => choice[r.campaign] # Null
  /\ r.op \in {"assert", "call"} =>
       choice[r.campaign].account = r.sender /\ choice[r.campaign].version = r.version

(* What is known of it about the guest.                                    *)
GuestVouches(r) ==
  /\ r.op \in CodeOps => code[r.code] # Null
  /\ r.op = "decide" /\ r.granted => Proved

RequestsVouched ==
  \A s \in Requests : \A r \in Request \ {Null} :
    req[s] = r => ChannelVouches(r) /\ GuestVouches(r)

(* What the rows of the channel say of one another.                        *)
ChannelRows ==
  /\ conn[Home] # Null =>
       /\ conn[Home].version <= drawn
       /\ conn[Home].status = "NEEDS_REAUTH" => conn[Home].version \in refused
       /\ conn[Home].synced => applied[conn[Home].sender] = conn[Home].version
  /\ SentAsQueued

(* A code has given a token once it is verified.                           *)
GuestRows ==
  /\ \A k \in Codes : tokens[k] = IF code[k] # Null /\ code[k].verified THEN 1 ELSE 0
  /\ \A i, j \in 1 .. Len(consent) :
       consent[i].source = consent[j].source /\ consent[i].source # Random => i = j
  /\ (\E i \in 1 .. Len(consent) : consent[i].granted) => Proved

WhatsAppInv == WhatsAppTypeOK /\ RequestsVouched /\ ChannelRows /\ GuestRows

ChannelTyped ==
  /\ work \in Workloads
  /\ conn \in [Brands -> Connection \cup {Null}]
  /\ \A b, c \in Brands : b # c /\ conn[b] # Null /\ conn[c] # Null
                            => conn[b].sender # conn[c].sender
  /\ drawn \in 0 .. MaxVersions
  /\ attempt \in [Attempts -> {"none", "open", "claimed", "completed", "failed"}]
  /\ cache \in [Senders -> [Templates -> Template \cup {Null}]]
  /\ choice \in [Campaigns -> Selection \cup {Null}]
  /\ applied \in [Senders -> 0 .. MaxVersions]
  /\ refused \subseteq Versions
  /\ overtaken \subseteq Requests

GuestTyped ==
  /\ code \in [Codes -> Code \cup {Null}]
  /\ verified \in BOOLEAN
  /\ consent \in Seq(Decision) /\ Len(consent) <= MaxLog
  /\ tokens \in [Codes -> Nat]

LEMMA TypedParts ==
  WhatsAppTypeOK <=> ChannelTyped /\ GuestTyped /\ req \in [Requests -> Request \cup {Null}]
BY DEF WhatsAppTypeOK, ChannelTyped, GuestTyped

-----------------------------------------------------------------------------
(* Requests                                                                *)

(* The operation of a request tells what it carries.                       *)
LEMMA RequestKinds ==
  ASSUME NEW r \in Request
  PROVE  /\ r.op \in {"create", "update"} => r \in SaveRequest
         /\ r.op \in {"exchange", "verifyMeta", "identity", "upsert", "complete"} => r \in SignupRequest
         /\ r.op \in {"replace", "synced"} => r \in SyncRequest
         /\ r.op = "reauth" => r \in SyncRequest \cup DispatchRequest
         /\ r.op \in {"pick", "put"} => r \in QueueRequest
         /\ r.op \in {"check", "assert", "call"} => r \in DispatchRequest
         /\ r.op \in {"challenge"} \cup CodeOps => r \in CodeRequest
         /\ r.op = "decide" => r \in DecideRequest
<1> USE DEF CodeOps
<1>1. CASE r \in SaveRequest
  BY <1>1 DEF SaveRequest
<1>2. CASE r \in SignupRequest
  BY <1>2 DEF SignupRequest
<1>3. CASE r \in SyncRequest
  BY <1>3 DEF SyncRequest
<1>4. CASE r \in QueueRequest
  BY <1>4 DEF QueueRequest
<1>5. CASE r \in DispatchRequest
  BY <1>5 DEF DispatchRequest
<1>6. CASE r \in CodeRequest
  BY <1>6 DEF CodeRequest
<1>7. CASE r \in DecideRequest
  BY <1>7 DEF DecideRequest
<1> QED
  BY <1>1, <1>2, <1>3, <1>4, <1>5, <1>6, <1>7 DEF Request

LEMMA RequestTypes ==
  /\ SaveRequest \subseteq Request /\ SignupRequest \subseteq Request /\ SyncRequest \subseteq Request
  /\ QueueRequest \subseteq Request /\ DispatchRequest \subseteq Request
  /\ CodeRequest \subseteq Request /\ DecideRequest \subseteq Request
BY DEF Request

(* One request becomes r, or ends.                                         *)
Becomes(s, r) == req' = [req EXCEPT ![s] = r]

LEMMA StepKeeps ==
  ASSUME WhatsAppInv, NEW s \in Requests, NEW r \in Request \cup {Null}, Becomes(s, r),
         ChannelTyped', GuestTyped', ChannelRows', GuestRows',
         \A q \in Request : ChannelVouches(q) => ChannelVouches(q)',
         \A q \in Request : GuestVouches(q) => GuestVouches(q)',
         r # Null => ChannelVouches(r)' /\ GuestVouches(r)'
  PROVE  WhatsAppInv'
<1>1. req \in [Requests -> Request \cup {Null}]
  BY DEF WhatsAppInv, WhatsAppTypeOK
<1>2. req' \in [Requests -> Request \cup {Null}]
  BY <1>1 DEF Becomes
<1>3. \A q \in Requests : req'[q] = IF q = s THEN r ELSE req[q]
  BY <1>1 DEF Becomes
<1>4. WhatsAppTypeOK'
  BY <1>2 DEF WhatsAppTypeOK, ChannelTyped, GuestTyped
<1>5. RequestsVouched'
  <2> SUFFICES ASSUME NEW q \in Requests, NEW p \in Request \ {Null}, req'[q] = p
      PROVE  ChannelVouches(p)' /\ GuestVouches(p)'
    BY DEF RequestsVouched
  <2>1. CASE q = s
    BY <1>3, <2>1
  <2>2. CASE q # s
    <3>1. req[q] = p
      BY <1>3, <2>2
    <3>2. ChannelVouches(p) /\ GuestVouches(p)
      BY <3>1 DEF WhatsAppInv, RequestsVouched
    <3> QED
      BY <3>2
  <2> QED
    BY <2>1, <2>2
<1> QED
  BY <1>4, <1>5 DEF WhatsAppInv

-----------------------------------------------------------------------------
(* Steps that leave one side alone                                         *)

LEMMA ChannelRests ==
  ASSUME WhatsAppInv, UNCHANGED <<work, channel>>
  PROVE  /\ ChannelTyped' /\ ChannelRows'
         /\ \A q \in Request : ChannelVouches(q) <=> ChannelVouches(q)'
<1>1. ChannelTyped'
  BY TypedParts DEF WhatsAppInv, ChannelTyped, channel
<1>2. ChannelRows'
  BY DEF WhatsAppInv, ChannelRows, SentAsQueued, channel
<1>3. \A q \in Request : ChannelVouches(q) <=> ChannelVouches(q)'
  BY DEF ChannelVouches, IdentityWhere, channel
<1> QED
  BY <1>1, <1>2, <1>3

LEMMA GuestRests ==
  ASSUME WhatsAppInv, UNCHANGED guest
  PROVE  /\ GuestTyped' /\ GuestRows'
         /\ \A q \in Request : GuestVouches(q) <=> GuestVouches(q)'
<1>1. GuestTyped'
  BY TypedParts DEF WhatsAppInv, GuestTyped, guest
<1>2. GuestRows'
  BY DEF WhatsAppInv, GuestRows, Proved, guest
<1>3. \A q \in Request : GuestVouches(q) <=> GuestVouches(q)'
  BY DEF GuestVouches, Proved, guest
<1> QED
  BY <1>1, <1>2, <1>3

(* A request is read, goes on or ends, and no row changes.                 *)
LEMMA RequestKeeps ==
  ASSUME WhatsAppInv, NEW s \in Requests, NEW r \in Request \cup {Null}, Becomes(s, r),
         UNCHANGED <<work, channel, guest>>,
         r # Null => ChannelVouches(r) /\ GuestVouches(r)
  PROVE  WhatsAppInv'
<1>1. /\ ChannelTyped' /\ ChannelRows'
      /\ \A q \in Request : ChannelVouches(q) <=> ChannelVouches(q)'
  BY ChannelRests
<1>2. /\ GuestTyped' /\ GuestRows'
      /\ \A q \in Request : GuestVouches(q) <=> GuestVouches(q)'
  BY GuestRests
<1>3. r # Null => ChannelVouches(r)' /\ GuestVouches(r)'
  BY <1>1, <1>2
<1> QED
  BY <1>1, <1>2, <1>3, StepKeeps

LEMMA FinishKeeps ==
  ASSUME WhatsAppInv, NEW s \in Requests, Finish(s), UNCHANGED <<work, channel, guest>>
  PROVE  WhatsAppInv'
<1>1. Becomes(s, Null)
  BY DEF Finish, Becomes
<1> QED
  BY <1>1, RequestKeeps

(* A step at the connection or a campaign, and one at the guest.           *)
LEMMA ChannelStep ==
  ASSUME WhatsAppInv, NEW s \in Requests, NEW r \in Request \cup {Null}, Becomes(s, r),
         UNCHANGED guest, ChannelTyped', ChannelRows',
         \A q \in Request : ChannelVouches(q) => ChannelVouches(q)',
         r # Null => ChannelVouches(r)' /\ GuestVouches(r)
  PROVE  WhatsAppInv'
<1>1. /\ GuestTyped' /\ GuestRows'
      /\ \A q \in Request : GuestVouches(q) <=> GuestVouches(q)'
  BY GuestRests
<1>2. r # Null => ChannelVouches(r)' /\ GuestVouches(r)'
  BY <1>1
<1> QED
  BY <1>1, <1>2, StepKeeps

LEMMA GuestStep ==
  ASSUME WhatsAppInv, NEW s \in Requests, NEW r \in Request \cup {Null}, Becomes(s, r),
         UNCHANGED <<work, channel>>, GuestTyped', GuestRows',
         \A q \in Request : GuestVouches(q) => GuestVouches(q)',
         r # Null => ChannelVouches(r) /\ GuestVouches(r)'
  PROVE  WhatsAppInv'
<1>1. /\ ChannelTyped' /\ ChannelRows'
      /\ \A q \in Request : ChannelVouches(q) <=> ChannelVouches(q)'
  BY ChannelRests
<1>2. r # Null => ChannelVouches(r)' /\ GuestVouches(r)'
  BY <1>1
<1> QED
  BY <1>1, <1>2, StepKeeps

(* What a running request carries and is vouched for.                      *)
LEMMA Running ==
  ASSUME WhatsAppInv, NEW s \in Requests, req[s] # Null
  PROVE  req[s] \in Request /\ ChannelVouches(req[s]) /\ GuestVouches(req[s])
<1>1. req[s] \in Request \ {Null}
  BY DEF WhatsAppInv, WhatsAppTypeOK
<1> QED
  BY <1>1 DEF WhatsAppInv, RequestsVouched

-----------------------------------------------------------------------------
(* The connection and the signup                                           *)

(* A new version is later than any that a request carries.                 *)
LEMMA WriteEffect ==
  ASSUME WhatsAppInv, NEW b \in Brands, NEW n \in Senders, NumberFree(b, n),
         NEW source \in {"MANUAL", "EMBEDDED_SIGNUP"},
         NEW status \in {"LEGACY_CONNECTED", "CONNECTED"},
         Write(b, n, source, status),
         attempt' \in [Attempts -> {"none", "open", "claimed", "completed", "failed"}],
         UNCHANGED <<work, cache, choice, applied, refused>>
  PROVE  /\ ChannelTyped' /\ ChannelRows'
         /\ \A q \in Request : ChannelVouches(q) => ChannelVouches(q)'
<1> DEFINE row == Rewritten(n, source, status)
<1>1. ChannelTyped
  BY TypedParts DEF WhatsAppInv
<1>2. drawn \in 0 .. MaxVersions /\ drawn < MaxVersions /\ drawn' = drawn + 1 /\ MaxVersions \in Nat
  BY <1>1, LimitsAssumption DEF ChannelTyped, Write
<1>3. drawn + 1 \in Versions /\ drawn' \in 0 .. MaxVersions
  BY <1>2 DEF Versions
<1>4. /\ row \in Connection /\ row.sender = n /\ row.version = drawn + 1 /\ row.status = status
      /\ ~row.synced
  BY <1>3 DEF Rewritten, Connection
<1>5. conn' = [conn EXCEPT ![b] = row]
  BY DEF Write
<1> HIDE DEF row
<1>6. \A c \in Brands : conn'[c] = IF c = b THEN row ELSE conn[c]
  BY <1>1, <1>5 DEF ChannelTyped
<1>7. ChannelTyped'
  <2>1. conn' \in [Brands -> Connection \cup {Null}]
    BY <1>1, <1>4, <1>5 DEF ChannelTyped
  <2>2. \A c, d \in Brands : c # d /\ conn'[c] # Null /\ conn'[d] # Null
                               => conn'[c].sender # conn'[d].sender
    BY <1>1, <1>4, <1>6 DEF ChannelTyped, NumberFree
  <2>3. overtaken' \subseteq Requests
    BY <1>1 DEF ChannelTyped, Write
  <2> QED
    BY <1>1, <1>3, <2>1, <2>2, <2>3 DEF ChannelTyped
<1>8. conn[Home] # Null => conn[Home].version \in Nat
  BY <1>1, HomeAssumption DEF ChannelTyped, Connection, Versions
<1>9. ChannelRows'
  <2>1. CASE Home = b
    BY <1>2, <1>4, <1>6, <2>1, HomeAssumption DEF WhatsAppInv, ChannelRows, SentAsQueued
  <2>2. CASE Home # b
    BY <1>2, <1>6, <1>8, <2>2, HomeAssumption DEF WhatsAppInv, ChannelRows, SentAsQueued
  <2> QED
    BY <2>1, <2>2
<1>10. ASSUME NEW q \in Request, ChannelVouches(q)
       PROVE  ChannelVouches(q)'
  <2>1. q.op \in Versioned => q.version \in Nat
    BY RequestKinds DEF Versioned, SyncRequest, DispatchRequest, Versions
  <2>2. CASE Home = b
    <3>1. q.op \in Versioned => ~IdentityWhere(Home, q.version)'
      BY <1>2, <1>4, <1>6, <1>10, <2>1, <2>2, HomeAssumption DEF ChannelVouches, IdentityWhere
    <3> QED
      BY <1>2, <1>10, <2>1, <3>1 DEF ChannelVouches, Versioned
  <2>3. CASE Home # b
    <3>1. conn'[Home] = conn[Home]
      BY <1>6, <2>3, HomeAssumption
    <3> QED
      BY <1>2, <1>10, <2>1, <3>1 DEF ChannelVouches, IdentityWhere
  <2> QED
    BY <2>2, <2>3
<1> QED
  BY <1>7, <1>9, <1>10

LEMMA SaveKeeps ==
  ASSUME WhatsAppInv, NEW s \in Requests, AskSave(s) \/ CommitSave(s)
  PROVE  WhatsAppInv'
<1>1. CASE AskSave(s)
  <2>1. PICK b \in work.brands, n \in Senders :
          /\ Becomes(s, [op |-> IF conn[b] = Null THEN "create" ELSE "update",
                         brand |-> b, sender |-> n])
          /\ UNCHANGED <<work, channel, guest>>
    BY <1>1 DEF AskSave, Ask, Becomes
  <2>2. b \in Brands
    BY WorkloadsAssumption DEF WhatsAppInv, WhatsAppTypeOK
  <2>3. PICK r : r = [op |-> IF conn[b] = Null THEN "create" ELSE "update", brand |-> b, sender |-> n]
    OBVIOUS
  <2>4. r \in SaveRequest
    BY <2>2, <2>3 DEF SaveRequest
  <2>5. ChannelVouches(r) /\ GuestVouches(r)
    BY <2>4 DEF SaveRequest, ChannelVouches, GuestVouches, Versioned, CodeOps
  <2> QED
    BY <2>1, <2>3, <2>4, <2>5, RequestTypes, RequestKeeps
<1>2. CASE CommitSave(s)
  <2>1. req[s] \in SaveRequest
    BY <1>2, Running, RequestKinds DEF CommitSave, Runs
  <2>2. PICK b \in Brands, n \in Senders : b = req[s].brand /\ n = req[s].sender
    BY <2>1 DEF SaveRequest
  <2>3. /\ NumberFree(b, n) /\ Write(b, n, "MANUAL", "LEGACY_CONNECTED") /\ Finish(s)
        /\ UNCHANGED <<work, attempt, cache, choice, applied, refused, guest>>
    BY <1>2, <2>2 DEF CommitSave
  <2>4. attempt' \in [Attempts -> {"none", "open", "claimed", "completed", "failed"}]
    BY <2>3 DEF WhatsAppInv, WhatsAppTypeOK
  <2>5. /\ ChannelTyped' /\ ChannelRows'
        /\ \A q \in Request : ChannelVouches(q) => ChannelVouches(q)'
    BY <2>3, <2>4, WriteEffect
  <2> QED
    BY <2>3, <2>5, ChannelStep DEF Finish, Becomes
<1> QED
  BY <1>1, <1>2

LEMMA AttemptStates ==
  ASSUME WhatsAppInv, NEW a \in Attempts,
         NEW state \in {"none", "open", "claimed", "completed", "failed"},
         attempt' = [attempt EXCEPT ![a] = state],
         UNCHANGED <<work, conn, drawn, cache, choice, applied, refused, overtaken>>
  PROVE  /\ ChannelTyped' /\ ChannelRows'
         /\ \A q \in Request : ChannelVouches(q) => ChannelVouches(q)'
<1>1. ChannelTyped'
  <2>1. attempt' \in [Attempts -> {"none", "open", "claimed", "completed", "failed"}]
    BY DEF WhatsAppInv, WhatsAppTypeOK
  <2> QED
    BY <2>1, TypedParts DEF WhatsAppInv, ChannelTyped
<1>2. ChannelRows'
  BY DEF WhatsAppInv, ChannelRows, SentAsQueued
<1>3. \A q \in Request : ChannelVouches(q) => ChannelVouches(q)'
  BY DEF ChannelVouches, IdentityWhere
<1> QED
  BY <1>1, <1>2, <1>3

(* A signup carries nothing that is to be vouched for.                     *)
LEMMA SignupVouched ==
  ASSUME NEW r \in SignupRequest
  PROVE  r \in Request /\ ChannelVouches(r) /\ GuestVouches(r)
BY RequestTypes DEF SignupRequest, ChannelVouches, GuestVouches, Versioned, CodeOps

LEMMA FailAttemptKeeps ==
  ASSUME WhatsAppInv, NEW s \in Requests, req[s] \in SignupRequest, FailAttempt(s),
         UNCHANGED <<work, conn, drawn, cache, choice, applied, refused, overtaken, guest>>
  PROVE  WhatsAppInv'
<1>1. req[s].attempt \in Attempts
  BY DEF SignupRequest
<1>2. /\ ChannelTyped' /\ ChannelRows'
      /\ \A q \in Request : ChannelVouches(q) => ChannelVouches(q)'
  BY <1>1, AttemptStates DEF FailAttempt
<1> QED
  BY <1>2, ChannelStep DEF FailAttempt, Finish, Becomes

LEMMA StartKeeps ==
  ASSUME WhatsAppInv, NEW a \in Attempts, Start(a)
  PROVE  WhatsAppInv'
<1>1. ChannelTyped' /\ ChannelRows'
  BY AttemptStates DEF Start
<1>2. GuestTyped' /\ GuestRows'
  BY GuestRests DEF Start
<1>3. WhatsAppTypeOK'
  BY <1>1, <1>2 DEF Start, WhatsAppInv, WhatsAppTypeOK, ChannelTyped, GuestTyped
<1>4. RequestsVouched'
  BY DEF Start, WhatsAppInv, RequestsVouched, ChannelVouches, GuestVouches, IdentityWhere, Proved, guest
<1> QED
  BY <1>1, <1>2, <1>3, <1>4 DEF WhatsAppInv

LEMMA ClaimKeeps ==
  ASSUME WhatsAppInv, NEW s \in Requests, ClaimState(s)
  PROVE  WhatsAppInv'
<1>1. PICK a \in Attempts, b \in work.brands :
        /\ attempt' = [attempt EXCEPT ![a] = "claimed"]
        /\ Becomes(s, [op |-> "exchange", brand |-> b, attempt |-> a, sender |-> Null])
        /\ UNCHANGED <<work, conn, drawn, cache, choice, applied, refused, overtaken, guest>>
  BY DEF ClaimState, Ask, Becomes
<1>2. b \in Brands
  BY WorkloadsAssumption DEF WhatsAppInv, WhatsAppTypeOK
<1>3. PICK r : r = [op |-> "exchange", brand |-> b, attempt |-> a, sender |-> Null]
  OBVIOUS
<1>4. r \in SignupRequest
  BY <1>2, <1>3 DEF SignupRequest
<1>5. /\ ChannelTyped' /\ ChannelRows'
      /\ \A q \in Request : ChannelVouches(q) => ChannelVouches(q)'
  BY <1>1, AttemptStates
<1>6. r \in Request /\ ChannelVouches(r)' /\ GuestVouches(r)
  BY <1>4, <1>5, SignupVouched
<1> QED
  BY <1>1, <1>3, <1>5, <1>6, ChannelStep

LEMMA SignupKeeps ==
  ASSUME WhatsAppInv, NEW s \in Requests,
         ExchangeCode(s) \/ VerifyMeta(s) \/ CheckIdentity(s)
  PROVE  WhatsAppInv'
<1>1. req[s] \in SignupRequest
  BY Running, RequestKinds DEF ExchangeCode, VerifyMeta, CheckIdentity, Runs
<1>2. CASE FailAttempt(s)
  BY <1>1, <1>2, FailAttemptKeeps DEF ExchangeCode, VerifyMeta, CheckIdentity
<1>3. CASE ~FailAttempt(s)
  <2>1. UNCHANGED <<work, channel, guest>>
    BY <1>3 DEF ExchangeCode, VerifyMeta, CheckIdentity, channel
  <2>2. ASSUME NEW r \in SignupRequest, Becomes(s, r) PROVE WhatsAppInv'
    BY <2>1, <2>2, SignupVouched, RequestKeeps
  <2>3. CASE ExchangeCode(s)
    <3>1. [req[s] EXCEPT !.op = "verifyMeta"] \in SignupRequest
      BY <1>1, <2>3 DEF SignupRequest, ExchangeCode, Runs
    <3> QED
      BY <1>3, <2>2, <2>3, <3>1 DEF ExchangeCode, Then, Becomes, WhatsAppInv, WhatsAppTypeOK
  <2>4. CASE VerifyMeta(s)
    <3>1. PICK n \in Senders : req' = [req EXCEPT ![s].op = "identity", ![s].sender = n]
      BY <1>3, <2>4 DEF VerifyMeta
    <3>2. [req[s] EXCEPT !.op = "identity", !.sender = n] \in SignupRequest
      BY <1>1 DEF SignupRequest
    <3> QED
      BY <2>2, <3>1, <3>2 DEF Becomes, WhatsAppInv, WhatsAppTypeOK
  <2>5. CASE CheckIdentity(s)
    <3>1. [req[s] EXCEPT !.op = "upsert"] \in SignupRequest
      BY <1>1, <2>5 DEF SignupRequest, CheckIdentity, Runs
    <3> QED
      BY <1>3, <2>2, <2>5, <3>1 DEF CheckIdentity, Then, Becomes, WhatsAppInv, WhatsAppTypeOK
  <2> QED
    BY <2>3, <2>4, <2>5
<1> QED
  BY <1>2, <1>3

LEMMA UpsertKeeps ==
  ASSUME WhatsAppInv, NEW s \in Requests, Upsert(s)
  PROVE  WhatsAppInv'
<1>1. req[s] \in SignupRequest /\ req[s].op = "upsert"
  BY Running, RequestKinds DEF Upsert, Runs
<1>2. PICK b \in Brands, n \in Senders : b = req[s].brand /\ n = req[s].sender
  BY <1>1 DEF SignupRequest
<1>3. CASE NumberFree(b, n)
  <2>1. /\ Write(b, n, "EMBEDDED_SIGNUP", "CONNECTED") /\ Then(s, "complete")
        /\ UNCHANGED <<work, attempt, cache, choice, applied, refused, guest>>
    BY <1>2, <1>3 DEF Upsert
  <2>2. attempt' \in [Attempts -> {"none", "open", "claimed", "completed", "failed"}]
    BY <2>1 DEF WhatsAppInv, WhatsAppTypeOK
  <2>3. /\ ChannelTyped' /\ ChannelRows'
        /\ \A q \in Request : ChannelVouches(q) => ChannelVouches(q)'
    BY <1>3, <2>1, <2>2, WriteEffect
  <2>4. PICK r : r = [req[s] EXCEPT !.op = "complete"]
    OBVIOUS
  <2>5. r \in SignupRequest
    BY <1>1, <2>4 DEF SignupRequest
  <2>6. r \in Request /\ ChannelVouches(r)' /\ GuestVouches(r)
    BY <2>3, <2>5, SignupVouched
  <2>7. Becomes(s, r)
    BY <2>1, <2>4 DEF Then, Becomes, WhatsAppInv, WhatsAppTypeOK
  <2> QED
    BY <2>1, <2>3, <2>6, <2>7, ChannelStep
<1>4. CASE ~NumberFree(b, n)
  BY <1>1, <1>2, <1>4, FailAttemptKeeps DEF Upsert
<1> QED
  BY <1>3, <1>4

LEMMA CompleteKeeps ==
  ASSUME WhatsAppInv, NEW s \in Requests, Complete(s)
  PROVE  WhatsAppInv'
<1>1. req[s] \in SignupRequest
  BY Running, RequestKinds DEF Complete, Runs
<1>2. CASE FailAttempt(s)
  BY <1>1, <1>2, FailAttemptKeeps DEF Complete
<1>3. CASE attempt' = [attempt EXCEPT ![req[s].attempt] = "completed"] /\ Finish(s)
  <2>1. req[s].attempt \in Attempts
    BY <1>1 DEF SignupRequest
  <2>2. /\ ChannelTyped' /\ ChannelRows'
        /\ \A q \in Request : ChannelVouches(q) => ChannelVouches(q)'
    BY <1>3, <2>1, AttemptStates DEF Complete
  <2> QED
    BY <1>3, <2>2, ChannelStep DEF Complete, Finish, Becomes
<1> QED
  BY <1>2, <1>3 DEF Complete

(* A mark on the brand's row leaves its sender and its version.            *)
LEMMA MarkEffect ==
  ASSUME WhatsAppInv, NEW b \in Brands, conn[b] # Null, NEW row \in Connection,
         row.sender = conn[b].sender, row.version = conn[b].version,
         b = Home /\ row.status = "NEEDS_REAUTH" => row.version \in refused,
         b = Home /\ row.synced => applied[row.sender] = row.version,
         conn' = [conn EXCEPT ![b] = row],
         UNCHANGED <<work, drawn, attempt, cache, choice, applied, refused, overtaken>>
  PROVE  /\ ChannelTyped' /\ ChannelRows'
         /\ \A q \in Request : ChannelVouches(q) => ChannelVouches(q)'
<1>1. ChannelTyped
  BY TypedParts DEF WhatsAppInv
<1>2. \A c \in Brands : conn'[c] = IF c = b THEN row ELSE conn[c]
  BY <1>1 DEF ChannelTyped
<1>3. ChannelTyped'
  <2>1. conn' \in [Brands -> Connection \cup {Null}]
    BY <1>1 DEF ChannelTyped
  <2>2. \A c, d \in Brands : c # d /\ conn'[c] # Null /\ conn'[d] # Null
                               => conn'[c].sender # conn'[d].sender
    BY <1>1, <1>2 DEF ChannelTyped
  <2> QED
    BY <1>1, <2>1, <2>2 DEF ChannelTyped
<1>4. ChannelRows'
  BY <1>2, HomeAssumption DEF WhatsAppInv, ChannelRows, SentAsQueued
<1>5. ASSUME NEW q \in Request, ChannelVouches(q)
      PROVE  ChannelVouches(q)'
  <2>1. IdentityWhere(Home, q.version)' =>
          IdentityWhere(Home, q.version) /\ conn'[Home].sender = conn[Home].sender
    BY <1>2, HomeAssumption DEF IdentityWhere
  <2> QED
    BY <1>5, <2>1 DEF ChannelVouches
<1> QED
  BY <1>3, <1>4, <1>5

LEMMA TokenExpiresKeeps ==
  ASSUME WhatsAppInv, NEW b \in Brands, TokenExpires(b)
  PROVE  WhatsAppInv'
<1>1. conn[b] # Null /\ conn[b] \in Connection
  BY DEF TokenExpires, Verified, WhatsAppInv, WhatsAppTypeOK
<1>2. PICK row : row = [conn[b] EXCEPT !.expired = TRUE]
  OBVIOUS
<1>3. /\ row \in Connection /\ row.sender = conn[b].sender /\ row.version = conn[b].version
      /\ row.status = conn[b].status /\ row.synced = conn[b].synced
  BY <1>1, <1>2 DEF Connection
<1>4. conn' = [conn EXCEPT ![b] = row]
  BY <1>2 DEF TokenExpires, WhatsAppInv, WhatsAppTypeOK
<1>5. b = Home => /\ row.status = "NEEDS_REAUTH" => row.version \in refused
                  /\ row.synced => applied[row.sender] = row.version
  BY <1>1, <1>3 DEF WhatsAppInv, ChannelRows
<1>6. /\ ChannelTyped' /\ ChannelRows'
      /\ \A q \in Request : ChannelVouches(q) => ChannelVouches(q)'
  BY <1>1, <1>3, <1>4, <1>5, MarkEffect DEF TokenExpires
<1>7. /\ GuestTyped' /\ GuestRows'
      /\ \A q \in Request : GuestVouches(q) <=> GuestVouches(q)'
  BY GuestRests DEF TokenExpires
<1>8. WhatsAppTypeOK'
  BY <1>6, <1>7 DEF TokenExpires, WhatsAppInv, WhatsAppTypeOK, ChannelTyped, GuestTyped
<1>9. RequestsVouched'
  BY <1>6, <1>7 DEF TokenExpires, WhatsAppInv, RequestsVouched
<1> QED
  BY <1>6, <1>7, <1>8, <1>9 DEF WhatsAppInv
-----------------------------------------------------------------------------
(* The cached templates                                                    *)

(* Selections keep their account and version, and refused versions stay    *)
(* refused: what was so before still is.                                   *)
LEMMA CampaignStep ==
  ASSUME WhatsAppInv, choice' \in [Campaigns -> Selection \cup {Null}],
         \A c \in Campaigns : choice[c] # Null =>
           /\ choice'[c] # Null
           /\ choice'[c].account = choice[c].account
           /\ choice'[c].version = choice[c].version,
         SentAsQueued',
         refused' \subseteq Versions, refused \subseteq refused', overtaken' \subseteq Requests,
         UNCHANGED <<work, conn, drawn, attempt, cache, applied>>
  PROVE  /\ ChannelTyped' /\ ChannelRows'
         /\ \A q \in Request : ChannelVouches(q) => ChannelVouches(q)'
<1>1. ChannelTyped'
  BY TypedParts DEF WhatsAppInv, ChannelTyped
<1>2. ChannelRows'
  BY DEF WhatsAppInv, ChannelRows
<1>3. ASSUME NEW q \in Request, ChannelVouches(q) PROVE ChannelVouches(q)'
  <2>1. q.op \in {"check", "assert", "call"} => q.campaign \in Campaigns
    BY RequestKinds DEF DispatchRequest
  <2> QED
    BY <1>3, <2>1 DEF ChannelVouches, IdentityWhere
<1> QED
  BY <1>1, <1>2, <1>3

LEMMA AskSyncKeeps ==
  ASSUME WhatsAppInv, NEW s \in Requests, AskSync(s)
  PROVE  WhatsAppInv'
<1>1. PICK answer \in DOMAIN AfterFetch :
        /\ Verified(Home)
        /\ Becomes(s, [op |-> AfterFetch[answer], sender |-> conn[Home].sender,
                       version |-> conn[Home].version])
        /\ refused' = IF answer = "unauthorized" THEN refused \cup {conn[Home].version} ELSE refused
        /\ UNCHANGED <<work, conn, drawn, attempt, cache, choice, applied, overtaken, guest>>
  BY DEF AskSync, Ask, Becomes
<1>2. conn[Home] # Null /\ conn[Home] \in Connection
  BY <1>1, HomeAssumption DEF Verified, WhatsAppInv, WhatsAppTypeOK
<1>3. PICK r : r = [op |-> AfterFetch[answer], sender |-> conn[Home].sender,
                    version |-> conn[Home].version]
  OBVIOUS
<1>4. /\ answer \in {"pages", "unauthorized"}
      /\ AfterFetch[answer] = IF answer = "pages" THEN "replace" ELSE "reauth"
  BY DEF AfterFetch
<1>5. r \in SyncRequest
  BY <1>2, <1>3, <1>4 DEF SyncRequest, Connection
<1>6. r.version \in Versions /\ r.version <= drawn
  BY <1>2, <1>3 DEF Connection, WhatsAppInv, ChannelRows
<1>7. /\ ChannelTyped' /\ ChannelRows'
      /\ \A q \in Request : ChannelVouches(q) => ChannelVouches(q)'
  <2>1. CASE answer = "unauthorized"
    <3>1. SentAsQueued' /\ choice' \in [Campaigns -> Selection \cup {Null}]
      BY <1>1 DEF WhatsAppInv, ChannelRows, SentAsQueued, WhatsAppTypeOK
    <3>2. refused' \subseteq Versions /\ refused \subseteq refused' /\ overtaken' \subseteq Requests
      BY <1>1, <1>3, <1>6, <2>1 DEF WhatsAppInv, WhatsAppTypeOK
    <3> QED
      BY <1>1, <3>1, <3>2, CampaignStep
  <2>2. CASE answer # "unauthorized"
    BY <1>1, <2>2, ChannelRests DEF channel
  <2> QED
    BY <2>1, <2>2
<1>8. ChannelVouches(r)' /\ GuestVouches(r)
  BY <1>1, <1>3, <1>4, <1>6 DEF ChannelVouches, GuestVouches, IdentityWhere, CodeOps
<1> QED
  BY <1>1, <1>3, <1>5, <1>7, <1>8, RequestTypes, ChannelStep

LEMMA ReplacedTyped ==
  ASSUME NEW old \in [Templates -> Template \cup {Null}],
         NEW answer \in [Templates -> Template \cup {Null}]
  PROVE  Replaced(old, answer) \in [Templates -> Template \cup {Null}]
<1>1. \A row \in Template : [row EXCEPT !.approved = FALSE] \in Template
  BY DEF Template
<1> QED
  BY <1>1 DEF Replaced

LEMMA ReplaceKeeps ==
  ASSUME WhatsAppInv, NEW s \in Requests, ReplaceSnapshot(s)
  PROVE  WhatsAppInv'
<1>1. req[s] \in SyncRequest /\ req[s].op = "replace" /\ ChannelVouches(req[s])
  BY Running, RequestKinds DEF ReplaceSnapshot, Runs
<1>2. PICK n \in Senders, v \in Versions : n = req[s].sender /\ v = req[s].version
  BY <1>1 DEF SyncRequest
<1> DEFINE current == /\ IdentityWhere(Home, v)
                      /\ conn[Home].status = "CONNECTED" /\ conn[Home].source = "EMBEDDED_SIGNUP"
                      /\ conn[Home].sender = n
<1>3. CASE ~current
  <2>1. Finish(s) /\ UNCHANGED <<work, channel, guest>>
    BY <1>2, <1>3 DEF ReplaceSnapshot, channel
  <2> QED
    BY <2>1, FinishKeeps
<1>4. CASE current
  <2>1. PICK answer \in Listings : cache' = [cache EXCEPT ![n] = Replaced(@, answer)]
    BY <1>2, <1>4 DEF ReplaceSnapshot
  <2>2. /\ applied' = [applied EXCEPT ![n] = v] /\ Then(s, "synced")
        /\ UNCHANGED <<work, conn, drawn, attempt, choice, refused, overtaken, guest>>
    BY <1>2, <1>4 DEF ReplaceSnapshot
  <2>3. cache' \in [Senders -> [Templates -> Template \cup {Null}]]
    <3>1. cache \in [Senders -> [Templates -> Template \cup {Null}]]
      BY DEF WhatsAppInv, WhatsAppTypeOK
    <3>2. Replaced(cache[n], answer) \in [Templates -> Template \cup {Null}]
      BY <3>1, ReplacedTyped DEF Listings
    <3> QED
      BY <2>1, <3>1, <3>2
  <2>4. applied \in [Senders -> 0 .. MaxVersions] /\ v \in 0 .. MaxVersions
    BY DEF WhatsAppInv, WhatsAppTypeOK, Versions
  <2>5. \A m \in Senders : applied'[m] = IF m = n THEN v ELSE applied[m]
    BY <2>2, <2>4
  <2>6. ChannelTyped'
    BY <2>2, <2>3, <2>4, TypedParts DEF WhatsAppInv, ChannelTyped
  <2>7. conn[Home] # Null /\ conn[Home].version = v /\ conn[Home].sender = n
    BY <1>4 DEF IdentityWhere
  <2>8. ChannelRows'
    BY <2>2, <2>5, <2>7 DEF WhatsAppInv, ChannelRows, SentAsQueued
  <2>9. ASSUME NEW q \in Request, ChannelVouches(q) PROVE ChannelVouches(q)'
    <3>1. q.op \in {"synced"} => q.sender \in Senders
      BY RequestKinds DEF SyncRequest
    <3> QED
      BY <2>2, <2>5, <2>7, <2>9, <3>1 DEF ChannelVouches, IdentityWhere
  <2>10. PICK r : r = [req[s] EXCEPT !.op = "synced"]
    OBVIOUS
  <2>11. r \in SyncRequest /\ r.op = "synced" /\ r.sender = n /\ r.version = v
    BY <1>1, <1>2, <2>10 DEF SyncRequest
  <2>12. v <= drawn
    BY <1>1, <1>2 DEF ChannelVouches, Versioned
  <2>13. ChannelVouches(r)' /\ GuestVouches(r)
    BY <2>2, <2>5, <2>7, <2>11, <2>12 DEF ChannelVouches, GuestVouches, IdentityWhere, CodeOps
  <2>14. Becomes(s, r)
    BY <2>2, <2>10 DEF Then, Becomes, WhatsAppInv, WhatsAppTypeOK
  <2> QED
    BY <2>2, <2>6, <2>8, <2>9, <2>11, <2>13, <2>14, RequestTypes, ChannelStep
<1> QED
  BY <1>3, <1>4

LEMMA MarksKeep ==
  ASSUME WhatsAppInv, NEW s \in Requests, MarkTemplatesSynced(s) \/ MarkNeedsReauth(s)
  PROVE  WhatsAppInv'
<1>1. /\ req[s] \in SyncRequest \cup DispatchRequest /\ ChannelVouches(req[s])
      /\ req[s].op \in {"synced", "reauth"}
  BY Running, RequestKinds DEF MarkTemplatesSynced, MarkNeedsReauth, Runs
<1>2. Finish(s) /\ UNCHANGED <<work, drawn, attempt, cache, choice, applied, refused, overtaken, guest>>
  BY DEF MarkTemplatesSynced, MarkNeedsReauth
<1>3. CASE conn' = conn
  <2>1. UNCHANGED <<work, channel, guest>>
    BY <1>2, <1>3 DEF channel
  <2> QED
    BY <1>2, <2>1, FinishKeeps
<1>4. CASE conn' # conn
  <2>1. conn[Home] # Null /\ conn[Home].version = req[s].version
    BY <1>4 DEF MarkTemplatesSynced, MarkNeedsReauth, IdentityWhere
  <2>2. conn[Home] \in Connection
    BY <2>1, HomeAssumption DEF WhatsAppInv, WhatsAppTypeOK
  <2>3. conn[Home].sender = req[s].sender
    BY <1>1, <2>1 DEF ChannelVouches, Versioned, IdentityWhere
  <2>4. PICK row : row = IF MarkTemplatesSynced(s) THEN [conn[Home] EXCEPT !.synced = TRUE]
                         ELSE [conn[Home] EXCEPT !.status = "NEEDS_REAUTH"]
    OBVIOUS
  <2>5. /\ row \in Connection /\ row.sender = conn[Home].sender /\ row.version = conn[Home].version
        /\ MarkTemplatesSynced(s) => row.status = conn[Home].status
        /\ ~MarkTemplatesSynced(s) => row.synced = conn[Home].synced
    BY <2>2, <2>4 DEF Connection
  <2>6. conn' = [conn EXCEPT ![Home] = row]
    BY <1>4, <2>4 DEF MarkTemplatesSynced, MarkNeedsReauth, WhatsAppInv, WhatsAppTypeOK
  <2>7. /\ row.status = "NEEDS_REAUTH" => row.version \in refused
        /\ row.synced => applied[row.sender] = row.version
    <3>1. CASE MarkTemplatesSynced(s)
      <4>1. applied[req[s].sender] = req[s].version
        BY <1>1, <2>1, <3>1 DEF ChannelVouches, MarkTemplatesSynced, Runs, IdentityWhere
      <4> QED
        BY <2>1, <2>3, <2>5, <3>1, <4>1 DEF WhatsAppInv, ChannelRows
    <3>2. CASE ~MarkTemplatesSynced(s)
      <4>1. req[s].version \in refused
        BY <1>1, <3>2 DEF ChannelVouches, MarkNeedsReauth, Runs
      <4> QED
        BY <2>1, <2>5, <3>2, <4>1 DEF WhatsAppInv, ChannelRows
    <3> QED
      BY <3>1, <3>2
  <2>8. /\ ChannelTyped' /\ ChannelRows'
        /\ \A q \in Request : ChannelVouches(q) => ChannelVouches(q)'
    BY <1>2, <2>1, <2>5, <2>6, <2>7, HomeAssumption, MarkEffect
  <2> QED
    BY <1>2, <2>8, ChannelStep DEF Finish, Becomes
<1> QED
  BY <1>3, <1>4

-----------------------------------------------------------------------------
(* Campaigns                                                               *)

LEMMA AskCampaignKeeps ==
  ASSUME WhatsAppInv, NEW s \in Requests, AskPrepare(s) \/ AskDispatch(s)
  PROVE  WhatsAppInv'
<1>1. conn[Home] # Null /\ conn[Home] \in Connection
  BY HomeAssumption DEF AskPrepare, AskDispatch, Verified, WhatsAppInv, WhatsAppTypeOK
<1>2. UNCHANGED <<work, channel, guest>>
  BY DEF AskPrepare, AskDispatch
<1>3. CASE AskPrepare(s)
  <2>1. PICK c \in Campaigns, n \in Senders, t \in Templates, p \in SUBSET Params :
          Ask(s, "queue", [op |-> "pick", campaign |-> c, sender |-> conn[Home].sender,
            selection |-> [account |-> n, template |-> t, params |-> p,
                           version |-> conn[Home].version, sent |-> {}]])
    BY <1>3, Zenon DEF AskPrepare
  <2>2. PICK selection : selection = [account |-> n, template |-> t, params |-> p,
                                      version |-> conn[Home].version, sent |-> {}]
    OBVIOUS
  <2>3. selection \in Selection /\ selection.sent = {}
    BY <1>1, <2>2 DEF Selection, Connection
  <2>4. PICK r : r = [op |-> "pick", campaign |-> c, sender |-> conn[Home].sender,
                      selection |-> selection]
    OBVIOUS
  <2>5. r \in QueueRequest
    BY <1>1, <2>3, <2>4 DEF QueueRequest, Connection
  <2>6. ChannelVouches(r) /\ GuestVouches(r)
    BY <2>3, <2>4 DEF ChannelVouches, GuestVouches, Versioned, CodeOps
  <2>7. Becomes(s, r)
    BY <2>1, <2>2, <2>4 DEF Ask, Becomes
  <2> QED
    BY <1>2, <2>5, <2>6, <2>7, RequestTypes, RequestKeeps
<1>4. CASE AskDispatch(s)
  <2>1. PICK c \in Campaigns :
          /\ choice[c] # Null
          /\ Becomes(s, [op |-> "check", campaign |-> c, sender |-> conn[Home].sender,
                         version |-> conn[Home].version])
    BY <1>4 DEF AskDispatch, Ask, Becomes
  <2>2. PICK r : r = [op |-> "check", campaign |-> c, sender |-> conn[Home].sender,
                      version |-> conn[Home].version]
    OBVIOUS
  <2>3. r \in DispatchRequest
    BY <1>1, <2>2 DEF DispatchRequest, Connection
  <2>4. ChannelVouches(r) /\ GuestVouches(r)
    BY <1>1, <2>1, <2>2 DEF ChannelVouches, GuestVouches, IdentityWhere, CodeOps, WhatsAppInv,
       ChannelRows
  <2> QED
    BY <1>2, <2>1, <2>2, <2>3, <2>4, RequestTypes, RequestKeeps
<1> QED
  BY <1>3, <1>4

(* A campaign takes a selection that no message has gone out for, or sends *)
(* one as its selection says.                                              *)
LEMMA CampaignEffect ==
  ASSUME WhatsAppInv, NEW c \in Campaigns, NEW selection \in Selection,
         selection.sent \subseteq {<<selection.version, selection.account>>},
         choice[c] # Null => /\ selection.account = choice[c].account
                               /\ selection.version = choice[c].version,
         choice' = [choice EXCEPT ![c] = selection]
  PROVE  /\ choice' \in [Campaigns -> Selection \cup {Null}]
         /\ \A d \in Campaigns : choice[d] # Null =>
              /\ choice'[d] # Null
              /\ choice'[d].account = choice[d].account
              /\ choice'[d].version = choice[d].version
         /\ SentAsQueued'
<1>1. choice \in [Campaigns -> Selection \cup {Null}]
  BY DEF WhatsAppInv, WhatsAppTypeOK
<1>2. \A d \in Campaigns : choice'[d] = IF d = c THEN selection ELSE choice[d]
  BY <1>1
<1>3. selection # Null
  BY NullAssumption
<1>4. SentAsQueued'
  BY <1>2 DEF WhatsAppInv, ChannelRows, SentAsQueued
<1> QED
  BY <1>1, <1>2, <1>3, <1>4

LEMMA QueueKeeps ==
  ASSUME WhatsAppInv, NEW s \in Requests, Queue(s)
  PROVE  WhatsAppInv'
<1>1. req[s] \in QueueRequest /\ req[s].op = "put" /\ ChannelVouches(req[s])
  BY Running, RequestKinds DEF Queue, Runs
<1>2. PICK c \in Campaigns, selection \in Selection :
        c = req[s].campaign /\ selection = req[s].selection
  BY <1>1 DEF QueueRequest
<1>3. Finish(s) /\ UNCHANGED <<work, conn, drawn, attempt, cache, applied, refused, overtaken, guest>>
  BY DEF Queue
<1>4. CASE choice' = choice
  <2>1. UNCHANGED <<work, channel, guest>>
    BY <1>3, <1>4 DEF channel
  <2> QED
    BY <1>3, <2>1, FinishKeeps
<1>5. CASE choice' # choice
  <2>1. choice[c] = Null /\ choice' = [choice EXCEPT ![c] = selection]
    BY <1>2, <1>5 DEF Queue
  <2>2. selection.sent = {}
    BY <1>1, <1>2 DEF ChannelVouches
  <2>3. /\ choice' \in [Campaigns -> Selection \cup {Null}]
        /\ \A d \in Campaigns : choice[d] # Null =>
             /\ choice'[d] # Null
             /\ choice'[d].account = choice[d].account
             /\ choice'[d].version = choice[d].version
        /\ SentAsQueued'
    BY <2>1, <2>2, CampaignEffect
  <2>4. refused \subseteq Versions /\ overtaken \subseteq Requests
    BY DEF WhatsAppInv, WhatsAppTypeOK
  <2>5. /\ ChannelTyped' /\ ChannelRows'
        /\ \A q \in Request : ChannelVouches(q) => ChannelVouches(q)'
    BY <1>3, <2>3, <2>4, CampaignStep
  <2> QED
    BY <1>3, <2>5, ChannelStep DEF Finish, Becomes
<1> QED
  BY <1>4, <1>5

LEMMA CheckKeeps ==
  ASSUME WhatsAppInv, NEW s \in Requests, CheckChoice(s) \/ CheckTemplate(s)
  PROVE  WhatsAppInv'
<1>1. UNCHANGED <<work, channel, guest>>
  BY DEF CheckChoice, CheckTemplate
<1>2. CASE Finish(s)
  BY <1>1, <1>2, FinishKeeps
<1>3. CASE CheckChoice(s) /\ Then(s, "put")
  <2>1. req[s] \in QueueRequest /\ req[s].op = "pick" /\ ChannelVouches(req[s])
    BY <1>3, Running, RequestKinds DEF CheckChoice, Runs
  <2>2. PICK r : r = [req[s] EXCEPT !.op = "put"]
    OBVIOUS
  <2>3. r \in QueueRequest /\ r.op = "put" /\ r.selection = req[s].selection
    BY <2>1, <2>2 DEF QueueRequest
  <2>4. ChannelVouches(r) /\ GuestVouches(r)
    BY <2>1, <2>3 DEF ChannelVouches, GuestVouches, Versioned, CodeOps
  <2>5. Becomes(s, r)
    BY <1>3, <2>2 DEF Then, Becomes, WhatsAppInv, WhatsAppTypeOK
  <2> QED
    BY <1>1, <2>3, <2>4, <2>5, RequestTypes, RequestKeeps
<1>4. CASE /\ CheckTemplate(s)
           /\ ValidSelection(choice[req[s].campaign], req[s].sender, req[s].version)
           /\ Then(s, "assert")
  <2>1. req[s] \in DispatchRequest /\ req[s].op = "check" /\ ChannelVouches(req[s])
    BY <1>4, Running, RequestKinds DEF CheckTemplate, Runs
  <2>2. PICK r : r = [req[s] EXCEPT !.op = "assert"]
    OBVIOUS
  <2>3. /\ r \in DispatchRequest /\ r.op = "assert" /\ r.campaign = req[s].campaign
        /\ r.sender = req[s].sender /\ r.version = req[s].version
    BY <2>1, <2>2 DEF DispatchRequest
  <2>4. ChannelVouches(r)
    BY <1>4, <2>1, <2>3 DEF ChannelVouches, ValidSelection, Versioned
  <2>5. GuestVouches(r)
    BY <2>3 DEF GuestVouches, CodeOps
  <2>6. Becomes(s, r)
    BY <1>4, <2>2 DEF Then, Becomes, WhatsAppInv, WhatsAppTypeOK
  <2> QED
    BY <1>1, <2>3, <2>4, <2>5, <2>6, RequestTypes, RequestKeeps
<1> QED
  BY <1>2, <1>3, <1>4 DEF CheckChoice, CheckTemplate

LEMMA AssertKeeps ==
  ASSUME WhatsAppInv, NEW s \in Requests, AssertCurrentVerified(s)
  PROVE  WhatsAppInv'
<1>1. req[s] \in DispatchRequest /\ req[s].op = "assert" /\ ChannelVouches(req[s])
  BY Running, RequestKinds DEF AssertCurrentVerified, Runs
<1>2. UNCHANGED <<work, conn, drawn, attempt, cache, choice, applied, refused, guest>>
  BY DEF AssertCurrentVerified
<1>3. CASE Finish(s) /\ UNCHANGED overtaken
  BY <1>2, <1>3, FinishKeeps DEF channel
<1>4. CASE Then(s, "call") /\ overtaken' = overtaken \ {s}
  <2>1. /\ choice \in [Campaigns -> Selection \cup {Null}] /\ SentAsQueued
        /\ refused \subseteq Versions /\ overtaken \subseteq Requests
    BY DEF WhatsAppInv, WhatsAppTypeOK, ChannelRows
  <2>2. SentAsQueued' /\ overtaken' \subseteq Requests
    BY <1>2, <1>4, <2>1 DEF SentAsQueued
  <2>3. /\ ChannelTyped' /\ ChannelRows'
        /\ \A q \in Request : ChannelVouches(q) => ChannelVouches(q)'
    BY <1>2, <2>1, <2>2, CampaignStep
  <2>4. PICK r : r = [req[s] EXCEPT !.op = "call"]
    OBVIOUS
  <2>5. /\ r \in DispatchRequest /\ r.op = "call" /\ r.campaign = req[s].campaign
        /\ r.sender = req[s].sender /\ r.version = req[s].version
    BY <1>1, <2>4 DEF DispatchRequest
  <2>6. ChannelVouches(r) /\ GuestVouches(r)
    BY <1>1, <2>5 DEF ChannelVouches, GuestVouches, Versioned, CodeOps
  <2>7. Becomes(s, r)
    BY <1>4, <2>4 DEF Then, Becomes, WhatsAppInv, WhatsAppTypeOK
  <2> QED
    BY <1>2, <2>3, <2>5, <2>6, <2>7, RequestTypes, ChannelStep
<1> QED
  BY <1>3, <1>4 DEF AssertCurrentVerified

LEMMA DispatchKeeps ==
  ASSUME WhatsAppInv, NEW s \in Requests, Dispatch(s)
  PROVE  WhatsAppInv'
<1>1. req[s] \in DispatchRequest /\ req[s].op = "call" /\ ChannelVouches(req[s])
  BY Running, RequestKinds DEF Dispatch, Runs
<1>2. PICK c \in Campaigns, n \in Senders, v \in Versions :
        c = req[s].campaign /\ n = req[s].sender /\ v = req[s].version
  BY <1>1 DEF DispatchRequest
<1>3. /\ choice' = [choice EXCEPT ![c].sent = @ \cup {<<v, n>>}]
      /\ UNCHANGED <<work, conn, drawn, attempt, cache, applied, overtaken, guest>>
      /\ \/ Finish(s) /\ UNCHANGED refused
         \/ Then(s, "reauth") /\ refused' = refused \cup {v}
  BY <1>2 DEF Dispatch
<1>4. choice[c] # Null /\ choice[c].account = n /\ choice[c].version = v
  BY <1>1, <1>2 DEF ChannelVouches
<1>5. choice[c] \in Selection
  BY <1>4 DEF WhatsAppInv, WhatsAppTypeOK
<1>6. PICK selection : selection = [choice[c] EXCEPT !.sent = @ \cup {<<v, n>>}]
  OBVIOUS
<1>7. selection \in Selection /\ selection.account = n /\ selection.version = v
  <2>1. choice[c].sent \cup {<<v, n>>} \in SUBSET (Versions \X Senders)
    BY <1>5 DEF Selection
  <2> QED
    BY <1>4, <1>5, <1>6, <2>1 DEF Selection
<1>8. selection.sent = choice[c].sent \cup {<<v, n>>}
  BY <1>5, <1>6 DEF Selection
<1>9. choice[c].sent \subseteq {<<v, n>>}
  BY <1>4 DEF WhatsAppInv, ChannelRows, SentAsQueued
<1>10. choice' = [choice EXCEPT ![c] = selection]
  BY <1>3, <1>6 DEF WhatsAppInv, WhatsAppTypeOK
<1>11. /\ choice' \in [Campaigns -> Selection \cup {Null}]
       /\ \A d \in Campaigns : choice[d] # Null =>
            /\ choice'[d] # Null
            /\ choice'[d].account = choice[d].account
            /\ choice'[d].version = choice[d].version
       /\ SentAsQueued'
  BY <1>4, <1>7, <1>8, <1>9, <1>10, CampaignEffect
<1>12. refused \subseteq Versions /\ overtaken \subseteq Requests
  BY DEF WhatsAppInv, WhatsAppTypeOK
<1>13. CASE Finish(s) /\ UNCHANGED refused
  <2>1. /\ ChannelTyped' /\ ChannelRows'
        /\ \A q \in Request : ChannelVouches(q) => ChannelVouches(q)'
    BY <1>3, <1>11, <1>12, <1>13, CampaignStep
  <2> QED
    BY <1>3, <1>13, <2>1, ChannelStep DEF Finish, Becomes
<1>14. CASE Then(s, "reauth") /\ refused' = refused \cup {v}
  <2>1. /\ ChannelTyped' /\ ChannelRows'
        /\ \A q \in Request : ChannelVouches(q) => ChannelVouches(q)'
    BY <1>3, <1>11, <1>12, <1>14, CampaignStep
  <2>2. PICK r : r = [req[s] EXCEPT !.op = "reauth"]
    OBVIOUS
  <2>3. /\ r \in DispatchRequest /\ r.op = "reauth" /\ r.sender = n /\ r.version = v
    BY <1>1, <1>2, <2>2 DEF DispatchRequest
  <2>4. v <= drawn /\ (IdentityWhere(Home, v) => conn[Home].sender = n)
    BY <1>1, <1>2 DEF ChannelVouches, Versioned
  <2>5. ChannelVouches(r)' /\ GuestVouches(r)
    BY <1>3, <1>14, <2>3, <2>4 DEF ChannelVouches, GuestVouches, IdentityWhere, CodeOps
  <2>6. Becomes(s, r)
    BY <1>14, <2>2 DEF Then, Becomes, WhatsAppInv, WhatsAppTypeOK
  <2> QED
    BY <1>3, <2>1, <2>3, <2>5, <2>6, RequestTypes, ChannelStep
<1> QED
  BY <1>3, <1>13, <1>14
-----------------------------------------------------------------------------
(* The guest                                                               *)

LEMMA AskGuestKeeps ==
  ASSUME WhatsAppInv, NEW s \in Requests,
         AskCode(s) \/ AskVerify(s) \/ OptIn(s) \/ OptOut(s) \/ StaffOptOut(s) \/ Stop(s)
  PROVE  WhatsAppInv'
<1>1. ASSUME NEW operation, NEW r \in CodeRequest \cup DecideRequest, Ask(s, operation, r),
             UNCHANGED <<work, channel, guest>>,
             r.op \in CodeOps => code[r.code] # Null,
             r.op = "decide" /\ r.granted => Proved
      PROVE  WhatsAppInv'
  <2>1. Becomes(s, r)
    BY <1>1 DEF Ask, Becomes
  <2>2. r \in Request /\ ChannelVouches(r) /\ GuestVouches(r)
    BY <1>1, RequestTypes DEF CodeRequest, DecideRequest, ChannelVouches, GuestVouches, Versioned
  <2> QED
    BY <1>1, <2>1, <2>2, RequestKeeps
<1>2. CASE AskCode(s)
  <2>1. PICK r : r = [op |-> "challenge", code |-> Null]
    OBVIOUS
  <2>2. r \in CodeRequest /\ r.op = "challenge"
    BY <2>1 DEF CodeRequest
  <2>3. Ask(s, "verify", r) /\ UNCHANGED <<work, channel, guest>>
    BY <1>2, <2>1 DEF AskCode
  <2> QED
    BY <1>1, <2>2, <2>3 DEF CodeOps
<1>3. CASE AskVerify(s)
  <2>1. PICK k \in Codes, op \in {"wrong", "claim"} :
          /\ Open(k) /\ Ask(s, "verify", [op |-> op, code |-> k])
          /\ UNCHANGED <<work, channel, guest>>
    BY <1>3, Zenon DEF AskVerify
  <2>2. PICK r : r = [op |-> op, code |-> k]
    OBVIOUS
  <2>3. r \in CodeRequest /\ r.op # "decide" /\ r.code = k
    BY <2>2 DEF CodeRequest
  <2>4. code[k] # Null
    BY <2>1 DEF Open, Live
  <2> QED
    BY <1>1, <2>1, <2>2, <2>3, <2>4
<1>4. ASSUME NEW source \in Orders \cup Messages \cup {Random}, NEW granted \in BOOLEAN,
             AskDecision(s, source, granted), granted => Proved
      PROVE  WhatsAppInv'
  <2>1. PICK r : r = [op |-> "decide", source |-> source, granted |-> granted]
    OBVIOUS
  <2>2. r \in DecideRequest /\ r.op = "decide" /\ (r.granted => Proved)
    BY <1>4, <2>1 DEF DecideRequest
  <2>3. Ask(s, "consent", r) /\ UNCHANGED <<work, channel, guest>>
    BY <1>4, <2>1 DEF AskDecision
  <2> QED
    BY <1>1, <2>2, <2>3 DEF CodeOps
<1>5. HasSession => Proved
  BY DEF HasSession, Live, Proved, WhatsAppInv, GuestRows
<1>6. CASE OptIn(s)
  <2>1. PICK o \in Orders : AskDecision(s, o, TRUE)
    BY <1>6 DEF OptIn
  <2> QED
    BY <1>4, <1>5, <1>6, <2>1 DEF OptIn
<1>7. CASE OptOut(s) \/ StaffOptOut(s)
  BY <1>4, <1>7 DEF OptOut, StaffOptOut
<1>8. CASE Stop(s)
  <2>1. PICK m \in Messages : AskDecision(s, m, FALSE)
    BY <1>8 DEF Stop
  <2> QED
    BY <1>4, <2>1
<1> QED
  BY <1>2, <1>3, <1>6, <1>7, <1>8

(* A code's row changes, but not whether it is verified.                   *)
LEMMA CodeEffect ==
  ASSUME WhatsAppInv, NEW k \in Codes, NEW row \in Code,
         row.verified <=> (code[k] # Null /\ code[k].verified),
         code' = [code EXCEPT ![k] = row], UNCHANGED <<verified, consent, tokens>>
  PROVE  /\ GuestTyped' /\ GuestRows'
         /\ \A q \in Request : GuestVouches(q) => GuestVouches(q)'
         /\ code'[k] # Null
<1>1. code \in [Codes -> Code \cup {Null}]
  BY DEF WhatsAppInv, WhatsAppTypeOK
<1>2. row # Null
  BY NullAssumption
<1>3. \A j \in Codes : code'[j] = IF j = k THEN row ELSE code[j]
  BY <1>1
<1>4. GuestTyped'
  BY <1>1, TypedParts DEF WhatsAppInv, GuestTyped
<1>5. GuestRows'
  <2>1. \A j \in Codes : tokens'[j] = IF code'[j] # Null /\ code'[j].verified THEN 1 ELSE 0
    BY <1>2, <1>3 DEF WhatsAppInv, GuestRows
  <2> QED
    BY <2>1 DEF WhatsAppInv, GuestRows, Proved
<1>6. ASSUME NEW q \in Request, GuestVouches(q) PROVE GuestVouches(q)'
  <2>1. q.op \in CodeOps => q.code \in Codes
    BY RequestKinds DEF CodeRequest, CodeOps
  <2> QED
    BY <1>2, <1>3, <1>6, <2>1 DEF GuestVouches, Proved
<1> QED
  BY <1>2, <1>3, <1>4, <1>5, <1>6

LEMMA CreateCodeKeeps ==
  ASSUME WhatsAppInv, NEW s \in Requests, CreateCode(s)
  PROVE  WhatsAppInv'
<1>1. PICK k \in Codes :
        /\ code[k] = Null
        /\ code' = [code EXCEPT ![k] = [age |-> "recent", verified |-> FALSE, tries |-> 0]]
        /\ Becomes(s, [op |-> "send", code |-> k])
  BY DEF CreateCode, Becomes
<1>2. UNCHANGED <<work, channel, verified, consent, tokens>>
  BY DEF CreateCode
<1>3. PICK row : row = [age |-> "recent", verified |-> FALSE, tries |-> 0]
  OBVIOUS
<1>4. row \in Code /\ ~row.verified
  BY <1>3 DEF Code
<1>5. /\ GuestTyped' /\ GuestRows'
      /\ \A q \in Request : GuestVouches(q) => GuestVouches(q)'
      /\ code'[k] # Null
  BY <1>1, <1>2, <1>3, <1>4, CodeEffect
<1>6. PICK r : r = [op |-> "send", code |-> k]
  OBVIOUS
<1>7. r \in CodeRequest /\ r.op = "send" /\ r.code = k
  BY <1>6 DEF CodeRequest
<1>8. ChannelVouches(r) /\ GuestVouches(r)'
  BY <1>5, <1>7 DEF ChannelVouches, GuestVouches, Versioned
<1> QED
  BY <1>1, <1>2, <1>5, <1>6, <1>7, <1>8, RequestTypes, GuestStep

(* What follows concerns the code of a request.                            *)
LEMMA RunningCode ==
  ASSUME WhatsAppInv, NEW s \in Requests, req[s] # Null, req[s].op \in CodeOps
  PROVE  /\ req[s] \in CodeRequest /\ req[s].code \in Codes
         /\ code[req[s].code] # Null /\ code[req[s].code] \in Code
<1>1. req[s] \in CodeRequest /\ GuestVouches(req[s])
  BY Running, RequestKinds
<1>2. req[s].code \in Codes
  BY <1>1 DEF CodeRequest, CodeOps
<1> QED
  BY <1>1, <1>2 DEF GuestVouches, WhatsAppInv, WhatsAppTypeOK

LEMMA CodeStepsKeep ==
  ASSUME WhatsAppInv, NEW s \in Requests, SendCode(s) \/ CountTry(s)
  PROVE  WhatsAppInv'
<1>1. /\ req[s] \in CodeRequest /\ req[s].code \in Codes
      /\ code[req[s].code] # Null /\ code[req[s].code] \in Code
  BY RunningCode DEF SendCode, CountTry, Runs, CodeOps
<1>2. Finish(s) /\ UNCHANGED <<work, channel, verified, consent, tokens>>
  BY DEF SendCode, CountTry
<1>3. CASE UNCHANGED code
  <2>1. UNCHANGED <<work, channel, guest>>
    BY <1>2, <1>3 DEF guest
  <2> QED
    BY <1>2, <2>1, FinishKeeps
<1>4. ASSUME NEW k \in Codes, code[k] # Null, NEW row \in Code, row.verified <=> code[k].verified,
             code' = [code EXCEPT ![k] = row]
      PROVE  WhatsAppInv'
  <2>1. /\ GuestTyped' /\ GuestRows'
        /\ \A q \in Request : GuestVouches(q) => GuestVouches(q)'
    BY <1>2, <1>4, CodeEffect
  <2> QED
    BY <1>2, <2>1, GuestStep DEF Finish, Becomes
<1> DEFINE k == req[s].code
<1>5. CASE SendCode(s) /\ code' # code
  <2>1. [code[k] EXCEPT !.age = "dead"] \in Code
    BY <1>1 DEF Code
  <2>2. [code[k] EXCEPT !.age = "dead"].verified = code[k].verified
    BY <1>1 DEF Code
  <2>3. code' = [code EXCEPT ![k] = [code[k] EXCEPT !.age = "dead"]]
    BY <1>1, <1>5 DEF SendCode, WhatsAppInv, WhatsAppTypeOK
  <2> QED
    BY <1>1, <1>4, <2>1, <2>2, <2>3
<1>6. CASE CountTry(s)
  <2>1. [code[k] EXCEPT !.tries = @ + 1] \in Code
    BY <1>1 DEF Code
  <2>2. [code[k] EXCEPT !.tries = @ + 1].verified = code[k].verified
    BY <1>1 DEF Code
  <2>3. code' = [code EXCEPT ![k] = [code[k] EXCEPT !.tries = @ + 1]]
    BY <1>1, <1>6 DEF CountTry, WhatsAppInv, WhatsAppTypeOK
  <2> QED
    BY <1>1, <1>4, <2>1, <2>2, <2>3
<1> QED
  BY <1>3, <1>5, <1>6 DEF SendCode

(* The one claim that finds the code open verifies it.                     *)
LEMMA ClaimCodeKeeps ==
  ASSUME WhatsAppInv, NEW s \in Requests, ClaimCode(s)
  PROVE  WhatsAppInv'
<1>1. /\ req[s] \in CodeRequest /\ req[s].code \in Codes /\ req[s].op = "claim"
      /\ code[req[s].code] # Null /\ code[req[s].code] \in Code
  BY RunningCode DEF ClaimCode, Runs, CodeOps
<1>2. PICK k \in Codes : k = req[s].code
  BY <1>1
<1>3. CASE ~Open(k)
  <2>1. Finish(s) /\ UNCHANGED <<work, channel, guest>>
    BY <1>2, <1>3 DEF ClaimCode, guest
  <2> QED
    BY <2>1, FinishKeeps
<1>4. CASE Open(k)
  <2>1. /\ code' = [code EXCEPT ![k].verified = TRUE] /\ tokens' = [tokens EXCEPT ![k] = @ + 1]
        /\ Then(s, "stamp") /\ UNCHANGED <<work, channel, verified, consent>>
    BY <1>2, <1>4 DEF ClaimCode
  <2>2. PICK row : row = [code[k] EXCEPT !.verified = TRUE]
    OBVIOUS
  <2>3. row \in Code /\ row.verified /\ row # Null
    BY <1>1, <1>2, <2>2, NullAssumption DEF Code
  <2>4. code \in [Codes -> Code \cup {Null}] /\ tokens \in [Codes -> Nat]
    BY DEF WhatsAppInv, WhatsAppTypeOK
  <2>5. tokens[k] = 0
    BY <1>4 DEF Open, WhatsAppInv, GuestRows
  <2>6. \A j \in Codes : /\ code'[j] = IF j = k THEN row ELSE code[j]
                         /\ tokens'[j] = IF j = k THEN 1 ELSE tokens[j]
    BY <2>1, <2>2, <2>4, <2>5
  <2>7. GuestTyped'
    <3>1. code' \in [Codes -> Code \cup {Null}]
      BY <2>1, <2>2, <2>3, <2>4
    <3>2. tokens' \in [Codes -> Nat]
      BY <2>1, <2>4
    <3> QED
      BY <2>1, <3>1, <3>2, TypedParts DEF WhatsAppInv, GuestTyped
  <2>8. Proved'
    BY <2>6 DEF Proved
  <2>9. GuestRows'
    <3>1. \A j \in Codes : tokens'[j] = IF code'[j] # Null /\ code'[j].verified THEN 1 ELSE 0
      BY <2>3, <2>6 DEF WhatsAppInv, GuestRows
    <3> QED
      BY <2>1, <2>8, <3>1 DEF WhatsAppInv, GuestRows
  <2>10. ASSUME NEW q \in Request, GuestVouches(q) PROVE GuestVouches(q)'
    <3>1. q.op \in CodeOps => q.code \in Codes
      BY RequestKinds DEF CodeRequest, CodeOps
    <3> QED
      BY <2>3, <2>6, <2>8, <2>10, <3>1 DEF GuestVouches
  <2>11. PICK r : r = [req[s] EXCEPT !.op = "stamp"]
    OBVIOUS
  <2>12. r \in CodeRequest /\ r.op = "stamp" /\ r.code = k
    BY <1>1, <1>2, <2>11 DEF CodeRequest
  <2>13. ChannelVouches(r) /\ GuestVouches(r)'
    BY <2>3, <2>6, <2>12 DEF ChannelVouches, GuestVouches, Versioned
  <2>14. Becomes(s, r)
    BY <2>1, <2>11 DEF Then, Becomes, WhatsAppInv, WhatsAppTypeOK
  <2> QED
    BY <2>1, <2>7, <2>9, <2>10, <2>12, <2>13, <2>14, RequestTypes, GuestStep
<1> QED
  BY <1>3, <1>4

LEMMA StampKeeps ==
  ASSUME WhatsAppInv, NEW s \in Requests, StampCustomer(s)
  PROVE  WhatsAppInv'
<1>1. verified' = TRUE /\ Finish(s) /\ UNCHANGED <<work, channel, code, consent, tokens>>
  BY DEF StampCustomer
<1>2. GuestTyped'
  BY <1>1, TypedParts DEF WhatsAppInv, GuestTyped
<1>3. GuestRows'
  BY <1>1 DEF WhatsAppInv, GuestRows, Proved
<1>4. \A q \in Request : GuestVouches(q) => GuestVouches(q)'
  BY <1>1 DEF GuestVouches, Proved
<1> QED
  BY <1>1, <1>2, <1>3, <1>4, GuestStep DEF Finish, Becomes

LEMMA CodeAgesKeeps ==
  ASSUME WhatsAppInv, NEW k \in Codes, CodeAges(k)
  PROVE  WhatsAppInv'
<1>1. code[k] # Null /\ code[k] \in Code
  BY DEF CodeAges, WhatsAppInv, WhatsAppTypeOK
<1>2. PICK row : row = [code[k] EXCEPT !.age = IF @ = "recent" THEN "live" ELSE "dead"]
  OBVIOUS
<1>3. row \in Code /\ row.verified = code[k].verified
  BY <1>1, <1>2 DEF Code
<1>4. code' = [code EXCEPT ![k] = row]
  BY <1>2 DEF CodeAges, WhatsAppInv, WhatsAppTypeOK
<1>5. UNCHANGED <<work, channel, verified, consent, tokens, req>>
  BY DEF CodeAges
<1>6. /\ GuestTyped' /\ GuestRows'
      /\ \A q \in Request : GuestVouches(q) => GuestVouches(q)'
  BY <1>1, <1>3, <1>4, <1>5, CodeEffect
<1>7. /\ ChannelTyped' /\ ChannelRows'
      /\ \A q \in Request : ChannelVouches(q) <=> ChannelVouches(q)'
  BY <1>5, ChannelRests
<1>8. WhatsAppTypeOK'
  BY <1>5, <1>6, <1>7 DEF WhatsAppInv, WhatsAppTypeOK, ChannelTyped, GuestTyped
<1>9. RequestsVouched'
  BY <1>5, <1>6, <1>7 DEF WhatsAppInv, RequestsVouched
<1> QED
  BY <1>6, <1>7, <1>8, <1>9 DEF WhatsAppInv

(* A decision is recorded unless its source has been.                      *)
LEMMA RecordKeeps ==
  ASSUME WhatsAppInv, NEW s \in Requests, RecordDecision(s)
  PROVE  WhatsAppInv'
<1>1. req[s] \in DecideRequest /\ req[s].op = "decide" /\ GuestVouches(req[s])
  BY Running, RequestKinds DEF RecordDecision, Runs
<1>2. PICK decision : decision = [source |-> req[s].source, granted |-> req[s].granted]
  OBVIOUS
<1>3. decision \in Decision /\ (decision.granted => Proved)
  BY <1>1, <1>2 DEF DecideRequest, Decision, GuestVouches
<1>4. /\ Len(consent) < MaxLog /\ consent' = Recorded(decision) /\ Finish(s)
      /\ UNCHANGED <<work, channel, code, verified, tokens>>
  BY <1>2 DEF RecordDecision
<1>5. CASE consent' = consent
  <2>1. UNCHANGED <<work, channel, guest>>
    BY <1>4, <1>5 DEF guest
  <2> QED
    BY <1>4, <2>1, FinishKeeps
<1>6. CASE consent' # consent
  <2>1. consent' = Append(consent, decision) /\ decision.source \notin Sources
    BY <1>4, <1>6 DEF Recorded
  <2>2. consent \in Seq(Decision) /\ MaxLog \in Nat
    BY LimitsAssumption DEF WhatsAppInv, WhatsAppTypeOK
  <2>3. /\ consent' \in Seq(Decision) /\ Len(consent') = Len(consent) + 1 /\ Len(consent) \in Nat
        /\ \A i \in 1 .. Len(consent) : consent'[i] = consent[i]
        /\ consent'[Len(consent) + 1] = decision
    BY <1>3, <2>1, <2>2
  <2>4. GuestTyped'
    BY <1>4, <2>2, <2>3, TypedParts DEF WhatsAppInv, GuestTyped
  <2>5. \A i \in 1 .. Len(consent') : i \in 1 .. Len(consent) \/ i = Len(consent) + 1
    BY <2>3
  <2>6. \A i \in 1 .. Len(consent) : consent[i].source = decision.source => consent[i].source = Random
    BY <2>1 DEF Sources
  <2>7. Proved' <=> Proved
    BY <1>4 DEF Proved
  <2>8. GuestRows'
    <3>1. \A i, j \in 1 .. Len(consent') :
            consent'[i].source = consent'[j].source /\ consent'[i].source # Random => i = j
      BY <2>3, <2>5, <2>6 DEF WhatsAppInv, GuestRows
    <3>2. (\E i \in 1 .. Len(consent') : consent'[i].granted) => Proved'
      BY <1>3, <2>3, <2>5, <2>7 DEF WhatsAppInv, GuestRows
    <3> QED
      BY <1>4, <3>1, <3>2 DEF WhatsAppInv, GuestRows
  <2>9. \A q \in Request : GuestVouches(q) => GuestVouches(q)'
    BY <1>4, <2>7 DEF GuestVouches
  <2> QED
    BY <1>4, <2>4, <2>8, <2>9, GuestStep DEF Finish, Becomes
<1> QED
  BY <1>5, <1>6

-----------------------------------------------------------------------------
(* Calls                                                                   *)

(* The brand's row, once there, keeps its version.                         *)
SameVersion == conn[Home] # Null => conn'[Home] # Null /\ conn'[Home].version = conn[Home].version

(* No request comes to its call, and who is overtaken stays so.            *)
LEMMA NoNewCall ==
  ASSUME CallsAreCleared, UNCHANGED overtaken, SameVersion,
         \A q \in Requests : Runs(q, "call")' => Runs(q, "call") /\ req'[q] = req[q]
  PROVE  CallsAreCleared'
BY DEF CallsAreCleared, SameVersion, IdentityWhere

LEMMA NotCalling ==
  ASSUME WhatsAppInv, CallsAreCleared, UNCHANGED overtaken, SameVersion,
         NEW s \in Requests, NEW r, Becomes(s, r), r # Null => r.op # "call"
  PROVE  CallsAreCleared'
<1>1. \A q \in Requests : req'[q] = IF q = s THEN r ELSE req[q]
  BY DEF Becomes, WhatsAppInv, WhatsAppTypeOK
<1>2. \A q \in Requests : Runs(q, "call")' => Runs(q, "call") /\ req'[q] = req[q]
  BY <1>1 DEF Runs
<1> QED
  BY <1>2, NoNewCall

(* Whoever was cleared when Home's sender is written anew is overtaken.    *)
LEMMA WriteClears ==
  ASSUME WhatsAppInv, CallsAreCleared, NEW b \in Brands, NEW n, NEW source, NEW status,
         Write(b, n, source, status),
         NEW s \in Requests, NEW r, Becomes(s, r), r # Null => r.op # "call"
  PROVE  CallsAreCleared'
<1>1. CASE b = Home
  <2>1. \A q \in Requests : req'[q] = IF q = s THEN r ELSE req[q]
    BY DEF Becomes, WhatsAppInv, WhatsAppTypeOK
  <2>2. overtaken' = {q \in Requests : Runs(q, "call")}
    BY <1>1 DEF Write
  <2>3. \A q \in Requests : Runs(q, "call")' => Runs(q, "call")
    BY <2>1 DEF Runs
  <2> QED
    BY <2>2, <2>3 DEF CallsAreCleared
<1>2. CASE b # Home
  <2>1. conn'[Home] = conn[Home] /\ UNCHANGED overtaken
    BY <1>2, HomeAssumption DEF Write, WhatsAppInv, WhatsAppTypeOK
  <2> QED
    BY <2>1, NotCalling DEF SameVersion
<1> QED
  BY <1>1, <1>2

LEMMA FinishClears ==
  ASSUME WhatsAppInv, CallsAreCleared, UNCHANGED overtaken, SameVersion, NEW s \in Requests, Finish(s)
  PROVE  CallsAreCleared'
<1>1. Becomes(s, Null)
  BY DEF Finish, Becomes
<1> QED
  BY <1>1, NotCalling

LEMMA ThenClears ==
  ASSUME WhatsAppInv, CallsAreCleared, UNCHANGED overtaken, SameVersion, NEW s \in Requests,
         req[s] # Null, NEW op, op # "call", Then(s, op)
  PROVE  CallsAreCleared'
<1>1. req[s] \in Request
  BY DEF WhatsAppInv, WhatsAppTypeOK
<1>2. [req[s] EXCEPT !.op = op].op = op
  BY <1>1 DEF Request, SaveRequest, SignupRequest, SyncRequest, QueueRequest, DispatchRequest,
     CodeRequest, DecideRequest
<1>3. Becomes(s, [req[s] EXCEPT !.op = op])
  BY DEF Then, Becomes, WhatsAppInv, WhatsAppTypeOK
<1> QED
  BY <1>2, <1>3, NotCalling

LEMMA AskClears ==
  ASSUME WhatsAppInv, CallsAreCleared, UNCHANGED <<conn, overtaken>>, NEW s \in Requests,
         NEW operation, NEW r, Ask(s, operation, r), r.op # "call"
  PROVE  CallsAreCleared'
BY NotCalling DEF Ask, Becomes, SameVersion

LEMMA ConnectionClears ==
  ASSUME WhatsAppInv, CallsAreCleared, NEW s \in Requests,
         \/ AskSave(s) \/ CommitSave(s)
         \/ ClaimState(s) \/ ExchangeCode(s) \/ VerifyMeta(s) \/ CheckIdentity(s)
         \/ Upsert(s) \/ Complete(s)
  PROVE  CallsAreCleared'
<1> USE DEF SameVersion
<1>1. CASE AskSave(s)
  BY <1>1, AskClears DEF AskSave, channel
<1>2. CASE CommitSave(s)
  <2>1. req[s] \in SaveRequest
    BY <1>2, Running, RequestKinds DEF CommitSave, Runs
  <2>2. req[s].brand \in Brands
    BY <2>1 DEF SaveRequest
  <2>3. Becomes(s, Null) /\ Write(req[s].brand, req[s].sender, "MANUAL", "LEGACY_CONNECTED")
    BY <1>2 DEF CommitSave, Finish, Becomes
  <2> QED
    BY <2>2, <2>3, WriteClears
<1>3. CASE ClaimState(s)
  BY <1>3, AskClears DEF ClaimState
<1>4. CASE ExchangeCode(s)
  BY <1>4, FinishClears, ThenClears DEF ExchangeCode, FailAttempt, Runs
<1>5. CASE VerifyMeta(s)
  <2>1. CASE FailAttempt(s)
    BY <1>5, <2>1, FinishClears DEF VerifyMeta, FailAttempt
  <2>2. CASE ~FailAttempt(s)
    <3>1. PICK n \in Senders : req' = [req EXCEPT ![s].op = "identity", ![s].sender = n]
      BY <1>5, <2>2 DEF VerifyMeta
    <3>2. req[s] \in SignupRequest
      BY <1>5, Running, RequestKinds DEF VerifyMeta, Runs
    <3>3. [req[s] EXCEPT !.op = "identity", !.sender = n].op = "identity"
      BY <3>2 DEF SignupRequest
    <3>4. Becomes(s, [req[s] EXCEPT !.op = "identity", !.sender = n])
      BY <3>1 DEF Becomes, WhatsAppInv, WhatsAppTypeOK
    <3> QED
      BY <1>5, <3>3, <3>4, NotCalling DEF VerifyMeta
  <2> QED
    BY <2>1, <2>2
<1>6. CASE CheckIdentity(s)
  BY <1>6, FinishClears, ThenClears DEF CheckIdentity, FailAttempt, Runs
<1>7. CASE Upsert(s)
  <2>1. req[s] \in SignupRequest
    BY <1>7, Running, RequestKinds DEF Upsert, Runs
  <2>2. CASE NumberFree(req[s].brand, req[s].sender)
    <3>1. req[s].brand \in Brands /\ [req[s] EXCEPT !.op = "complete"].op = "complete"
      BY <2>1 DEF SignupRequest
    <3>2. /\ Becomes(s, [req[s] EXCEPT !.op = "complete"])
          /\ Write(req[s].brand, req[s].sender, "EMBEDDED_SIGNUP", "CONNECTED")
      BY <1>7, <2>2 DEF Upsert, Then, Becomes, WhatsAppInv, WhatsAppTypeOK
    <3> QED
      BY <3>1, <3>2, WriteClears
  <2>3. CASE ~NumberFree(req[s].brand, req[s].sender)
    BY <1>7, <2>3, FinishClears DEF Upsert, FailAttempt
  <2> QED
    BY <2>2, <2>3
<1>8. CASE Complete(s)
  BY <1>8, FinishClears DEF Complete, FailAttempt
<1> QED
  BY <1>1, <1>2, <1>3, <1>4, <1>5, <1>6, <1>7, <1>8

LEMMA TemplatesClear ==
  ASSUME WhatsAppInv, CallsAreCleared, NEW s \in Requests,
         \/ AskSync(s) \/ ReplaceSnapshot(s) \/ MarkTemplatesSynced(s) \/ MarkNeedsReauth(s)
         \/ AskPrepare(s) \/ CheckChoice(s) \/ Queue(s)
         \/ AskDispatch(s) \/ CheckTemplate(s) \/ AssertCurrentVerified(s) \/ Dispatch(s)
  PROVE  CallsAreCleared'
<1> USE DEF SameVersion
<1>1. CASE AskSync(s)
  BY <1>1, AskClears DEF AskSync, AfterFetch
<1>2. CASE ReplaceSnapshot(s)
  BY <1>2, FinishClears, ThenClears DEF ReplaceSnapshot, Runs
<1>3. CASE MarkTemplatesSynced(s) \/ MarkNeedsReauth(s)
  <2>1. conn \in [Brands -> Connection \cup {Null}]
    BY DEF WhatsAppInv, WhatsAppTypeOK
  <2>2. PICK row \in {[conn[Home] EXCEPT !.synced = TRUE], [conn[Home] EXCEPT !.status = "NEEDS_REAUTH"]} :
          conn' = conn \/ conn' = [conn EXCEPT ![Home] = row]
    BY <1>3, <2>1, HomeAssumption DEF MarkTemplatesSynced, MarkNeedsReauth
  <2>3. conn[Home] # Null => row.version = conn[Home].version /\ row \in Connection
    BY <2>1, HomeAssumption DEF Connection
  <2>4. SameVersion
    BY <2>1, <2>2, <2>3, HomeAssumption, NullAssumption
  <2> QED
    BY <1>3, <2>4, FinishClears DEF MarkTemplatesSynced, MarkNeedsReauth
<1>4. CASE AskPrepare(s) \/ AskDispatch(s)
  BY <1>4, AskClears DEF AskPrepare, AskDispatch, channel
<1>5. CASE CheckChoice(s) \/ CheckTemplate(s)
  BY <1>5, FinishClears, ThenClears DEF CheckChoice, CheckTemplate, Runs, channel
<1>6. CASE Queue(s)
  BY <1>6, FinishClears DEF Queue
<1>7. CASE AssertCurrentVerified(s)
  <2>1. CASE Finish(s) /\ UNCHANGED overtaken
    BY <1>7, <2>1, FinishClears DEF AssertCurrentVerified
  <2>2. CASE /\ IdentityWhere(Home, req[s].version)
             /\ Then(s, "call") /\ overtaken' = overtaken \ {s}
    <3>1. req[s] \in DispatchRequest /\ conn' = conn
      BY <1>7, Running, RequestKinds DEF AssertCurrentVerified, Runs
    <3>2. [req[s] EXCEPT !.op = "call"].version = req[s].version
      BY <3>1 DEF DispatchRequest
    <3>3. \A q \in Requests : req'[q] = IF q = s THEN [req[s] EXCEPT !.op = "call"] ELSE req[q]
      BY <2>2 DEF Then, WhatsAppInv, WhatsAppTypeOK
    <3> QED
      BY <2>2, <3>1, <3>2, <3>3 DEF CallsAreCleared, IdentityWhere, Runs
  <2> QED
    BY <1>7, <2>1, <2>2 DEF AssertCurrentVerified
<1>8. CASE Dispatch(s)
  BY <1>8, FinishClears, ThenClears DEF Dispatch, Runs
<1> QED
  BY <1>1, <1>2, <1>3, <1>4, <1>5, <1>6, <1>7, <1>8

LEMMA GuestClears ==
  ASSUME WhatsAppInv, CallsAreCleared, NEW s \in Requests,
         \/ AskCode(s) \/ CreateCode(s) \/ SendCode(s)
         \/ AskVerify(s) \/ CountTry(s) \/ ClaimCode(s) \/ StampCustomer(s)
         \/ OptIn(s) \/ OptOut(s) \/ StaffOptOut(s) \/ Stop(s) \/ RecordDecision(s)
  PROVE  CallsAreCleared'
<1>1. UNCHANGED <<conn, overtaken>>
  BY DEF AskCode, CreateCode, SendCode, AskVerify, CountTry, ClaimCode, StampCustomer, OptIn, OptOut,
     StaffOptOut, Stop, RecordDecision, AskDecision, channel
<1>2. SameVersion
  BY <1>1 DEF SameVersion
<1>3. CASE AskCode(s) \/ AskVerify(s)
  BY <1>1, <1>3, AskClears DEF AskCode, AskVerify
<1>4. CASE OptIn(s) \/ OptOut(s) \/ StaffOptOut(s) \/ Stop(s)
  BY <1>1, <1>4, AskClears DEF OptIn, OptOut, StaffOptOut, Stop, AskDecision
<1>5. CASE CreateCode(s)
  <2>1. PICK k \in Codes : req' = [req EXCEPT ![s] = [op |-> "send", code |-> k]]
    BY <1>5 DEF CreateCode
  <2>2. Becomes(s, [op |-> "send", code |-> k])
    BY <2>1 DEF Becomes
  <2> QED
    BY <1>1, <1>2, <2>2, NotCalling
<1>6. CASE SendCode(s) \/ CountTry(s) \/ StampCustomer(s) \/ RecordDecision(s)
  BY <1>1, <1>2, <1>6, FinishClears DEF SendCode, CountTry, StampCustomer, RecordDecision
<1>7. CASE ClaimCode(s)
  BY <1>1, <1>2, <1>7, FinishClears, ThenClears DEF ClaimCode, Runs
<1> QED
  BY <1>3, <1>4, <1>5, <1>6, <1>7

LEMMA CallsNext ==
  ASSUME WhatsAppInv, CallsAreCleared, [WhatsAppNext]_channelVars
  PROVE  CallsAreCleared'
<1>1. ASSUME NEW s \in Requests, Abandon(s) PROVE CallsAreCleared'
  BY <1>1, FinishClears DEF Abandon, channel, SameVersion
<1>2. ASSUME NEW b \in Brands, TokenExpires(b) PROVE CallsAreCleared'
  <2>1. conn \in [Brands -> Connection \cup {Null}]
    BY DEF WhatsAppInv, WhatsAppTypeOK
  <2>2. SameVersion
    BY <1>2, <2>1, HomeAssumption, NullAssumption DEF SameVersion, TokenExpires, Verified, Connection
  <2> QED
    BY <1>2, <2>2, NoNewCall DEF TokenExpires, Runs
<1>3. ASSUME NEW a \in Attempts, Start(a) PROVE CallsAreCleared'
  BY <1>3, NoNewCall DEF Start, Runs, SameVersion
<1>4. ASSUME NEW k \in Codes, CodeAges(k) PROVE CallsAreCleared'
  BY <1>4, NoNewCall DEF CodeAges, channel, Runs, SameVersion
<1>5. CASE UNCHANGED channelVars
  BY <1>5, NoNewCall DEF channelVars, channel, Runs, SameVersion
<1> QED
  BY <1>1, <1>2, <1>3, <1>4, <1>5, ConnectionClears, TemplatesClear, GuestClears DEF WhatsAppNext

-----------------------------------------------------------------------------
(* Theorems                                                                *)

LEMMA WhatsAppInvInit == ASSUME WhatsAppInit PROVE WhatsAppInv
<1>1. WhatsAppTypeOK
  <2>1. consent \in Seq(Decision) /\ Len(consent) = 0
    BY DEF WhatsAppInit
  <2>2. GuestTyped
    <3>1. code \in [Codes -> Code \cup {Null}] /\ tokens \in [Codes -> Nat] /\ verified \in BOOLEAN
      BY DEF WhatsAppInit
    <3>2. Len(consent) <= MaxLog
      BY <2>1, LimitsAssumption
    <3> QED
      BY <2>1, <3>1, <3>2 DEF GuestTyped
  <2>3. ChannelTyped
    BY LimitsAssumption DEF WhatsAppInit, ChannelTyped
  <2>4. req \in [Requests -> Request \cup {Null}]
    BY DEF WhatsAppInit
  <2> QED
    BY <2>2, <2>3, <2>4, TypedParts
<1>2. RequestsVouched
  BY DEF WhatsAppInit, RequestsVouched
<1>3. ChannelRows
  BY HomeAssumption DEF WhatsAppInit, ChannelRows, SentAsQueued
<1>4. GuestRows
  BY DEF WhatsAppInit, GuestRows
<1> QED
  BY <1>1, <1>2, <1>3, <1>4 DEF WhatsAppInv

LEMMA WhatsAppInvNext == ASSUME WhatsAppInv, [WhatsAppNext]_channelVars PROVE WhatsAppInv'
<1>1. ASSUME NEW s \in Requests,
             \/ AskSave(s) \/ CommitSave(s)
             \/ ClaimState(s) \/ ExchangeCode(s) \/ VerifyMeta(s) \/ CheckIdentity(s)
             \/ Upsert(s) \/ Complete(s)
      PROVE  WhatsAppInv'
  BY <1>1, SaveKeeps, ClaimKeeps, SignupKeeps, UpsertKeeps, CompleteKeeps
<1>2. ASSUME NEW s \in Requests,
             \/ AskSync(s) \/ ReplaceSnapshot(s) \/ MarkTemplatesSynced(s) \/ MarkNeedsReauth(s)
             \/ AskPrepare(s) \/ CheckChoice(s) \/ Queue(s)
             \/ AskDispatch(s) \/ CheckTemplate(s) \/ AssertCurrentVerified(s) \/ Dispatch(s)
      PROVE  WhatsAppInv'
  BY <1>2, AskSyncKeeps, ReplaceKeeps, MarksKeep, AskCampaignKeeps, QueueKeeps, CheckKeeps,
     AssertKeeps, DispatchKeeps
<1>3. ASSUME NEW s \in Requests,
             \/ AskCode(s) \/ CreateCode(s) \/ SendCode(s)
             \/ AskVerify(s) \/ CountTry(s) \/ ClaimCode(s) \/ StampCustomer(s)
             \/ OptIn(s) \/ OptOut(s) \/ StaffOptOut(s) \/ Stop(s) \/ RecordDecision(s)
      PROVE  WhatsAppInv'
  BY <1>3, AskGuestKeeps, CreateCodeKeeps, CodeStepsKeep, ClaimCodeKeeps, StampKeeps, RecordKeeps
<1>4. ASSUME NEW s \in Requests, Abandon(s) PROVE WhatsAppInv'
  BY <1>4, FinishKeeps DEF Abandon
<1>5. CASE UNCHANGED channelVars
  <2>1. /\ ChannelTyped' /\ ChannelRows'
        /\ \A q \in Request : ChannelVouches(q) <=> ChannelVouches(q)'
    BY <1>5, ChannelRests DEF channelVars
  <2>2. /\ GuestTyped' /\ GuestRows'
        /\ \A q \in Request : GuestVouches(q) <=> GuestVouches(q)'
    BY <1>5, GuestRests DEF channelVars
  <2>3. WhatsAppTypeOK'
    BY <1>5, <2>1, <2>2 DEF channelVars, WhatsAppInv, WhatsAppTypeOK, ChannelTyped, GuestTyped
  <2>4. RequestsVouched'
    BY <1>5, <2>1, <2>2 DEF channelVars, WhatsAppInv, RequestsVouched
  <2> QED
    BY <2>1, <2>2, <2>3, <2>4 DEF WhatsAppInv
<1> QED
  BY <1>1, <1>2, <1>3, <1>4, <1>5, TokenExpiresKeeps, StartKeeps, CodeAgesKeeps DEF WhatsAppNext

(* The rows of the channel and of the guest, and what the requests between *)
(* two of their steps rely on, are as WhatsAppInv says.                    *)
THEOREM WhatsAppInvariance == WhatsAppSpec => []WhatsAppInv
<1>1. WhatsAppInit => WhatsAppInv
  BY WhatsAppInvInit
<1>2. WhatsAppInv /\ [WhatsAppNext]_channelVars => WhatsAppInv'
  BY WhatsAppInvNext
<1> QED
  BY <1>1, <1>2, PTL DEF WhatsAppSpec

(* Every reachable state of WhatsApp is well typed, and no two connections *)
(* have one number.                                                        *)
THEOREM WhatsAppTypeCorrect == WhatsAppSpec => []WhatsAppTypeOK
<1>1. WhatsAppInv => WhatsAppTypeOK
  BY DEF WhatsAppInv
<1> QED
  BY <1>1, WhatsAppInvariance, PTL

(* A sync or a campaign begun under a connection that was replaced leaves  *)
(* no trace on the new one, and only a dispatch that had passed its check  *)
(* may still send under the old one (whatsapp-template-sync, whatsapp-     *)
(* connection and whatsapp-template-validation services).                  *)
THEOREM StaleWorkStaysHarmless == WhatsAppSpec => []StaleWorkIsHarmless
<1>1. WhatsAppInit => CallsAreCleared
  BY DEF WhatsAppInit, CallsAreCleared, Runs
<1>2. WhatsAppInv /\ CallsAreCleared /\ [WhatsAppNext]_channelVars => CallsAreCleared'
  BY CallsNext
<1>3. WhatsAppInv /\ CallsAreCleared => StaleWorkIsHarmless
  BY DEF WhatsAppInv, ChannelRows, StaleWorkIsHarmless
<1> QED
  BY <1>1, <1>2, <1>3, WhatsAppInvariance, PTL DEF WhatsAppSpec

(* Decisions count once, only a proved number opts in, and a code proves   *)
(* it once, however often the requests are repeated (consent and           *)
(* phone-verification services).                                           *)
THEOREM OnlyGuestDecides == WhatsAppSpec => []GuestDecides
<1>1. WhatsAppInv => GuestDecides
  BY DEF WhatsAppInv, GuestRows, GuestDecides, Proved
<1> QED
  BY <1>1, WhatsAppInvariance, PTL
=================================================================================
