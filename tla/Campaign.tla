------------------------------- MODULE Campaign -------------------------------
(***************************************************************************)
(* One WhatsApp campaign: queued with a snapshot of its recipients, sent   *)
(* by workers that may overlap, recovered when a worker is gone, cancelled *)
(* by the staff and told of deliveries by Meta's webhook.                  *)
(*                                                                         *)
(* Source: services/crm/campaign.service.ts.  Nothing spans two statements *)
(* here except queueDraft's transaction: every step below is one UPDATE    *)
(* with its WHERE, and what a worker has read may be old when it is used.  *)
(*                                                                         *)
(* Abstractions.  The campaign is due and of one brand; which recipients   *)
(* have consented, and whether the template is still valid, is a choice    *)
(* made at each check.  deliverRecipient's first read of the campaign is   *)
(* left to the gate, which repeats it.  A failed statement has no effect.  *)
(***************************************************************************)
EXTENDS Naturals, FiniteSets

CONSTANTS Customers,   \* who may be a recipient
          Workers,     \* concurrent invocations of processQueuedCampaigns
          Operators,   \* concurrent requests to queue the draft
          Hooks,       \* concurrent webhook deliveries
          None,
          Replies,     \* how a call of the provider may end
          MaxAttempts, \* MAX_DELIVERY_ATTEMPTS
          MaxCrashes,  \* bound: invocations that die
          MaxErrors    \* bound: statements that fail

ASSUME NoneAssumption == None \notin Customers
ASSUME RepliesAssumption == Replies \subseteq {"accepted", "refused", "lost", "timeout"}
ASSUME MaxAttemptsAssumption == MaxAttempts \in Nat \ {0}
ASSUME BoundsAssumption == MaxCrashes \in Nat /\ MaxErrors \in Nat

VARIABLES
  campaign,  \* the campaign's row; stale: updatedAt is 10 minutes old
  log,       \* customer -> its campaignLog row
  requests,  \* customer -> provider requests started (history)
  provider,  \* customer -> what has become of them at Meta
  timedOut,  \* the customers whose request ran into its time limit (history)
  late,      \* those whose row came after the draft had been moved (history)
  pc, job,   \* worker -> where it is, and what it has read
  queue,     \* operator -> its queueDraft
  cancel,    \* cancelCampaign, which succeeds once
  hook,      \* webhook -> the transition it has decided, or None
  crashes, errors

rows    == <<campaign, log>>
outside == <<requests, provider, timedOut, late>>
actors  == <<queue, cancel, hook>>
faults  == <<crashes, errors>>
vars    == <<rows, outside, pc, job, actors, faults>>

CampaignStatus == {"DRAFT", "QUEUED", "SENDING", "FAILED", "COMPLETED", "EXHAUSTED", "CANCELLED"}
SentFamily     == {"SENT", "DELIVERED", "READ"}
DeadEnds       == {"PENDING_RECONCILIATION", "PERMANENTLY_INELIGIBLE", "CANCELLED", "EXHAUSTED"}
LogStatus      == {"absent", "PENDING", "DISPATCHING", "FAILED"} \cup SentFamily \cup DeadEnds
Steps          == {"idle", "mark", "release", "exhaust", "sweep", "claim", "load", "scan",
                   "next", "gate", "recheck", "send", "store", "sent", "failed", "unsure", "abort"}

(* started: providerDispatchStartedAt is set; msg: providerMessageId is.    *)
Log   == [status : LogStatus, attempts : Nat, started : BOOLEAN, msg : BOOLEAN]
(* seen: the attemptCount of the rows read; missed: failedCount > 0;        *)
(* round: the campaign's attemptCount read.                                 *)
Job   == [who : Customers \cup {None}, todo : SUBSET Customers,
          seen : [Customers -> Nat], missed : BOOLEAN, round : Nat]
NoJob == [who |-> None, todo |-> {}, seen |-> [c \in Customers |-> 0],
          missed |-> FALSE, round |-> 0]

TypeOK ==
  /\ campaign \in [status : CampaignStatus, attempts : Nat, stale : BOOLEAN]
  /\ log \in [Customers -> Log]
  /\ requests \in [Customers -> Nat]
  /\ provider \in [Customers -> {"none", "accepted", "refused", "undeliverable"}]
  /\ timedOut \in SUBSET Customers
  /\ late \in SUBSET Customers
  /\ pc \in [Workers -> Steps]
  /\ job \in [Workers -> Job]
  /\ queue \in [Operators -> {"idle", "asked", "done"}]
  /\ cancel \in {"idle", "waiting", "unmarked", "marked", "done", "dead"}
  /\ hook \in [Hooks -> [who : Customers, seen : LogStatus, next : LogStatus] \cup {None}]
  /\ crashes \in 0 .. MaxCrashes
  /\ errors \in 0 .. MaxErrors

Init ==
  /\ campaign = [status |-> "DRAFT", attempts |-> 0, stale |-> FALSE]
  /\ log = [c \in Customers |->
             [status |-> "absent", attempts |-> 0, started |-> FALSE, msg |-> FALSE]]
  /\ requests = [c \in Customers |-> 0]
  /\ provider = [c \in Customers |-> "none"]
  /\ timedOut = {}
  /\ late = {}
  /\ pc = [w \in Workers |-> "idle"]
  /\ job = [w \in Workers |-> NoJob]
  /\ queue = [p \in Operators |-> "idle"]
  /\ cancel = "idle"
  /\ hook = [h \in Hooks |-> None]
  /\ crashes = 0
  /\ errors = 0

-----------------------------------------------------------------------------
(* Statements                                                              *)

(* UPDATE campaign SET status: updatedAt is touched.                        *)
SetCampaign(status) ==
  campaign' = [campaign EXCEPT !.status = status, !.stale = FALSE]

(* UPDATE campaignLog SET status, for some recipients.                      *)
SetLogs(those, status) ==
  log' = [c \in Customers |->
           IF c \in those THEN [log[c] EXCEPT !.status = status] ELSE log[c]]

(* The same for the recipient c, WHERE its status is in `from`.             *)
SetLog(c, from, status) ==
  log' = [log EXCEPT ![c].status = IF @ \in from THEN status ELSE @]

Retryable == {"PENDING", "FAILED"}

Waiting     == {c \in Customers : log[c].status \in Retryable}
Dispatching == {c \in Customers : log[c].status = "DISPATCHING"}
Marked      == {c \in Dispatching : log[c].started}
Spent       == {c \in Customers : log[c].status = "FAILED" /\ log[c].attempts >= MaxAttempts}

-----------------------------------------------------------------------------
(* queueDraft: the draft is read, then one transaction writes the rows of  *)
(* the recipients found and moves the draft.  Losing that move does not    *)
(* roll the transaction back.                                              *)

AskQueue(p) ==
  /\ queue[p] = "idle"
  /\ campaign.status = "DRAFT"
  /\ queue' = [queue EXCEPT ![p] = "asked"]
  /\ UNCHANGED <<rows, outside, pc, job, cancel, hook, faults>>

CommitQueue(p, targets) ==
  /\ queue[p] = "asked"
  /\ queue' = [queue EXCEPT ![p] = "done"]
  /\ log' = [c \in Customers |->
              IF c \in targets /\ log[c].status = "absent"
                THEN [log[c] EXCEPT !.status = "PENDING"] ELSE log[c]]
  /\ \/ campaign.status = "DRAFT" /\ SetCampaign("QUEUED") /\ UNCHANGED late
     \/ /\ campaign.status # "DRAFT"
        /\ late' = late \cup {c \in targets : log[c].status = "absent"}
        /\ UNCHANGED campaign
  /\ UNCHANGED <<requests, provider, timedOut, pc, job, cancel, hook, faults>>

-----------------------------------------------------------------------------
(* cancelCampaign: four statements                                         *)

CancelCampaign ==
  /\ cancel = "idle"
  /\ campaign.status \in {"DRAFT", "QUEUED", "FAILED", "SENDING"}
  /\ SetCampaign("CANCELLED")
  /\ cancel' = "waiting"
  /\ UNCHANGED <<log, outside, pc, job, queue, hook, faults>>

CancelLogs ==
  /\ \/ cancel = "waiting"  /\ cancel' = "unmarked" /\ SetLogs(Waiting, "CANCELLED")
     \/ cancel = "unmarked" /\ cancel' = "marked"   /\ SetLogs(Dispatching \ Marked, "CANCELLED")
     \/ cancel = "marked"   /\ cancel' = "done"     /\ SetLogs(Marked, "PENDING_RECONCILIATION")
  /\ UNCHANGED <<campaign, outside, pc, job, queue, hook, faults>>

CancelDies ==
  /\ cancel \in {"waiting", "unmarked", "marked"}
  /\ crashes < MaxCrashes
  /\ cancel' = "dead"
  /\ crashes' = crashes + 1
  /\ UNCHANGED <<rows, outside, pc, job, queue, hook, errors>>

-----------------------------------------------------------------------------
(* recoverStaleCampaignWork: four statements at the start of a cycle       *)

At(w, here, there) ==
  /\ pc[w] = here
  /\ pc' = [pc EXCEPT ![w] = there]

(* w's cycle is over: it knows nothing any more.                            *)
Leave(w) == job' = [job EXCEPT ![w] = NoJob]

StartCycle(w) ==
  /\ campaign.status # "DRAFT"
  /\ At(w, "idle", "mark")
  /\ UNCHANGED <<rows, outside, job, actors, faults>>

GoneStale == campaign.status = "SENDING" /\ campaign.stale

MarkAbandoned(w) ==
  /\ At(w, "mark", "release")
  /\ IF GoneStale THEN SetLogs(Dispatching, "PENDING_RECONCILIATION") ELSE UNCHANGED log
  /\ UNCHANGED <<campaign, outside, job, actors, faults>>

ReleaseStale(w) ==
  /\ At(w, "release", "exhaust")
  /\ IF GoneStale /\ campaign.attempts < MaxAttempts
       THEN SetCampaign("FAILED") ELSE UNCHANGED campaign
  /\ UNCHANGED <<log, outside, job, actors, faults>>

(* Seeded fault: a stale last attempt is not given up.                     *)
ExhaustFailedOnly(w) ==
  /\ At(w, "exhaust", "sweep")
  /\ IF campaign.attempts >= MaxAttempts /\ campaign.status = "FAILED"
       THEN SetCampaign("EXHAUSTED") ELSE UNCHANGED campaign
  /\ UNCHANGED <<log, outside, job, actors, faults>>

ExhaustCampaign(w) ==
  /\ At(w, "exhaust", "sweep")
  /\ IF campaign.attempts >= MaxAttempts /\ (campaign.status = "FAILED" \/ GoneStale)
       THEN SetCampaign("EXHAUSTED") ELSE UNCHANGED campaign
  /\ UNCHANGED <<log, outside, job, actors, faults>>

SweepSpent(w) ==
  /\ At(w, "sweep", "claim")
  /\ IF campaign.status = "EXHAUSTED" THEN SetLogs(Spent, "EXHAUSTED") ELSE UNCHANGED log
  /\ UNCHANGED <<campaign, outside, job, actors, faults>>

-----------------------------------------------------------------------------
(* sendCampaign                                                            *)

Claimable == campaign.status \in {"QUEUED", "FAILED"} /\ campaign.attempts < MaxAttempts

Claim(w) ==
  /\ Claimable
  /\ At(w, "claim", "load")
  /\ campaign' = [status |-> "SENDING", attempts |-> campaign.attempts + 1, stale |-> FALSE]
  /\ UNCHANGED <<log, outside, job, actors, faults>>

NothingDue(w) ==
  /\ ~Claimable
  /\ At(w, "claim", "idle")
  /\ UNCHANGED <<rows, outside, job, actors, faults>>

Load(w) ==
  /\ \/ /\ campaign.status = "SENDING"
        /\ At(w, "load", "scan") \/ At(w, "load", "abort")  \* template valid, or not
        /\ job' = [job EXCEPT ![w].round = campaign.attempts]
     \/ /\ campaign.status # "SENDING"
        /\ At(w, "load", "idle")
        /\ UNCHANGED job
  /\ UNCHANGED <<rows, outside, actors, faults>>

(* The rows are read once.  The loop passes over those already sent and    *)
(* those at a dead end without another statement.                          *)
Scan(w) ==
  /\ At(w, "scan", "next")
  /\ job' = [job EXCEPT ![w] =
       [who |-> None, round |-> @.round,
        todo |-> {c \in Customers : log[c].status \notin {"absent"} \cup SentFamily \cup DeadEnds},
        missed |-> \E c \in Customers : log[c].status \in DeadEnds,
        seen |-> [c \in Customers |-> log[c].attempts]]]
  /\ UNCHANGED <<rows, outside, actors, faults>>

Miss(w, c) ==
  job' = [job EXCEPT ![w] = [who |-> None, todo |-> @.todo \ {c}, seen |-> @.seen,
                             missed |-> TRUE, round |-> @.round]]

(* Consent or the verified phone is gone.                                   *)
RuleOut(w, c) ==
  /\ c \in job[w].todo
  /\ At(w, "next", "next")
  /\ SetLog(c, Retryable, "PERMANENTLY_INELIGIBLE")
  /\ Miss(w, c)
  /\ UNCHANGED <<campaign, outside, actors, faults>>

ClaimHolds(w, c) == log[c].status \in Retryable /\ log[c].attempts = job[w].seen[c]

ClaimRecipient(w, c) ==
  /\ c \in job[w].todo
  /\ job[w].seen[c] < MaxAttempts
  /\ ClaimHolds(w, c)
  /\ At(w, "next", "gate")
  /\ log' = [log EXCEPT ![c] = [status |-> "DISPATCHING", attempts |-> @.attempts + 1,
                                 started |-> @.started, msg |-> @.msg]]
  /\ job' = [job EXCEPT ![w] = [who |-> c, todo |-> @.todo \ {c}, seen |-> @.seen,
                                 missed |-> @.missed, round |-> @.round]]
  /\ UNCHANGED <<campaign, outside, actors, faults>>

(* Seeded fault: a recipient lost to another worker is not a failure.      *)
LoseRecipientUncounted(w, c) ==
  /\ c \in job[w].todo
  /\ job[w].seen[c] < MaxAttempts
  /\ ~ClaimHolds(w, c)
  /\ At(w, "next", "next")
  /\ job' = [job EXCEPT ![w].todo = @ \ {c}]
  /\ UNCHANGED <<rows, outside, actors, faults>>

LoseRecipient(w, c) ==
  /\ c \in job[w].todo
  /\ job[w].seen[c] < MaxAttempts
  /\ ~ClaimHolds(w, c)
  /\ At(w, "next", "next")
  /\ Miss(w, c)
  /\ UNCHANGED <<rows, outside, actors, faults>>

(* Seeded fault: the end of the loop does not ask whether it is SENDING.   *)
FinalizeBlind(w) ==
  /\ job[w].todo = {}
  /\ At(w, "next", "idle")
  /\ SetCampaign(IF ~job[w].missed THEN "COMPLETED"
                 ELSE IF job[w].round >= MaxAttempts THEN "EXHAUSTED" ELSE "FAILED")
  /\ Leave(w)
  /\ UNCHANGED <<log, outside, actors, faults>>

Finalize(w) ==
  /\ job[w].todo = {}
  /\ At(w, "next", "idle")
  /\ IF campaign.status = "SENDING"
       THEN SetCampaign(IF ~job[w].missed THEN "COMPLETED"
                        ELSE IF job[w].round >= MaxAttempts THEN "EXHAUSTED" ELSE "FAILED")
       ELSE UNCHANGED campaign
  /\ Leave(w)
  /\ UNCHANGED <<log, outside, actors, faults>>

(* The template is invalid, or the loop has thrown.                         *)
Abort(w) ==
  /\ At(w, "abort", "idle")
  /\ IF campaign.status = "SENDING" THEN SetCampaign("FAILED") ELSE UNCHANGED campaign
  /\ Leave(w)
  /\ UNCHANGED <<log, outside, actors, faults>>

-----------------------------------------------------------------------------
(* deliverRecipient, and what sendCampaign records of it                   *)

Dispatchable(c) == log[c].status = "DISPATCHING" /\ campaign.status = "SENDING"

(* A check before the gate throws: consent, phone, template, connection.    *)
CheckFails(w) ==
  /\ At(w, "gate", "failed")
  /\ UNCHANGED <<rows, outside, job, actors, faults>>

(* Seeded fault: the gate does not look for an earlier request.            *)
PassGateAgain(w) ==
  LET c == job[w].who IN
  /\ At(w, "gate", "recheck")
  /\ Dispatchable(c)
  /\ log' = [log EXCEPT ![c].started = TRUE]
  /\ UNCHANGED <<campaign, outside, job, actors, faults>>

PassGate(w) ==
  LET c == job[w].who IN
  /\ At(w, "gate", "recheck")
  /\ Dispatchable(c)
  /\ ~log[c].started
  /\ log' = [log EXCEPT ![c].started = TRUE]
  /\ UNCHANGED <<campaign, outside, job, actors, faults>>

GateClosed(w) ==
  /\ At(w, "gate", "failed")
  /\ ~(Dispatchable(job[w].who) /\ ~log[job[w].who].started)
  /\ UNCHANGED <<rows, outside, job, actors, faults>>

Recheck(w) ==
  LET c == job[w].who IN
  /\ pc[w] = "recheck"
  /\ At(w, "recheck", IF Dispatchable(c) /\ log[c].started THEN "send" ELSE "failed")
  /\ UNCHANGED <<rows, outside, job, actors, faults>>

(* The request, and how it ends for w.  When the reply is lost or comes    *)
(* too late Meta may have accepted it or not.  A timeout's DOMException    *)
(* carries a code and is thrown on like a refusal.                         *)
Send(w, reply) ==
  LET c == job[w].who IN
  /\ pc[w] = "send"
  /\ requests' = [requests EXCEPT ![c] = @ + 1]
  /\ \/ /\ reply = "refused"
        /\ At(w, "send", "failed")
        /\ provider' = [provider EXCEPT ![c] = "refused"]
     \/ /\ reply # "refused"
        /\ At(w, "send", CASE reply = "accepted" -> "store"
                           [] reply = "lost"     -> "unsure"
                           [] reply = "timeout"  -> "failed")
        /\ \/ provider' = [provider EXCEPT ![c] = "accepted"]
           \/ reply # "accepted" /\ UNCHANGED provider
  /\ timedOut' = IF reply = "timeout" THEN timedOut \cup {c} ELSE timedOut
  /\ UNCHANGED <<rows, late, job, actors, faults>>

StoreMessageId(w) ==
  LET c == job[w].who IN
  /\ pc[w] = "store"
  /\ IF log[c].status = "DISPATCHING"
       THEN At(w, "store", "sent") /\ log' = [log EXCEPT ![c].msg = TRUE]
       ELSE At(w, "store", "unsure") /\ UNCHANGED log
  /\ UNCHANGED <<campaign, outside, job, actors, faults>>

(* UPDATE campaignLog WHERE the claim is still w's.                         *)
SetClaimed(w, status) ==
  LET c == job[w].who IN
  IF log[c].status = "DISPATCHING" /\ log[c].attempts = job[w].seen[c] + 1
    THEN log' = [log EXCEPT ![c].status = status] ELSE UNCHANGED log

RecordSent(w) ==
  /\ At(w, "sent", "next")
  /\ SetClaimed(w, "SENT")
  /\ job' = [job EXCEPT ![w].who = None]
  /\ UNCHANGED <<campaign, outside, actors, faults>>

RecordFailure(w) ==
  LET status == IF job[w].seen[job[w].who] + 1 >= MaxAttempts THEN "EXHAUSTED" ELSE "FAILED" IN
  /\ At(w, "failed", "next")
  /\ SetClaimed(w, status)
  /\ Miss(w, job[w].who)
  /\ UNCHANGED <<campaign, outside, actors, faults>>

(* Seeded fault: an uncertain outcome is a failure.                        *)
RecordUnsureAsFailed(w) ==
  /\ At(w, "unsure", "next")
  /\ SetClaimed(w, "FAILED")
  /\ Miss(w, job[w].who)
  /\ UNCHANGED <<campaign, outside, actors, faults>>

RecordUnsure(w) ==
  /\ At(w, "unsure", "next")
  /\ SetClaimed(w, "PENDING_RECONCILIATION")
  /\ Miss(w, job[w].who)
  /\ UNCHANGED <<campaign, outside, actors, faults>>

-----------------------------------------------------------------------------
(* Faults: a statement throws and the nearest catch takes over; an         *)
(* invocation dies and another is started for it.                          *)

Catch ==
  [mark |-> "idle", release |-> "idle", exhaust |-> "idle", sweep |-> "idle",
   claim |-> "idle", load |-> "idle", scan |-> "abort", next |-> "abort",
   gate |-> "failed", recheck |-> "failed", store |-> "unsure", sent |-> "failed",
   failed |-> "abort", unsure |-> "abort", abort |-> "idle"]

StatementFails(w) ==
  /\ errors < MaxErrors
  /\ pc[w] \in DOMAIN Catch
  /\ pc' = [pc EXCEPT ![w] = Catch[pc[w]]]
  /\ IF Catch[pc[w]] \in {"idle", "abort"} THEN Leave(w) ELSE UNCHANGED job
  /\ errors' = errors + 1
  /\ UNCHANGED <<rows, outside, actors, crashes>>

Crash(w) ==
  /\ pc[w] # "idle"
  /\ crashes < MaxCrashes
  /\ pc' = [pc EXCEPT ![w] = "idle"]
  /\ Leave(w)
  /\ crashes' = crashes + 1
  /\ UNCHANGED <<rows, outside, actors, errors>>

(* STALE_SENDING_MS pass after the campaign's last update, whether a worker *)
(* is still at it or not.                                                   *)
GoStale ==
  /\ campaign.status = "SENDING"
  /\ ~campaign.stale
  /\ campaign' = [campaign EXCEPT !.stale = TRUE]
  /\ UNCHANGED <<log, outside, pc, job, actors, faults>>

-----------------------------------------------------------------------------
(* applyWebhookStatus: the row is read, the transition decided, then made  *)
(* if the status is still the one read.                                    *)

Rank(status) == CASE status = "SENT" -> 1 [] status = "DELIVERED" -> 2 [] status = "READ" -> 3
                  [] OTHER -> 0

WebhookTransition(current, incoming, campaignCancelled) ==
  IF \/ current \in {"CANCELLED", "PERMANENTLY_INELIGIBLE", "EXHAUSTED"}
     \/ campaignCancelled /\ current # "PENDING_RECONCILIATION"
     \/ incoming = "FAILED" /\ current \in SentFamily
     \/ incoming # "FAILED" /\ Rank(incoming) <= Rank(current)
    THEN None
    ELSE incoming

(* Meta reports on a message it has accepted, in any order and repeatedly. *)
Reports(c) == IF provider[c] = "undeliverable" THEN {"SENT", "FAILED"} ELSE SentFamily

(* Seeded fault: a refused transition goes on.                             *)
ReadWebhookUnfiltered(h, c, incoming) ==
  /\ hook[h] = None
  /\ log[c].msg
  /\ incoming \in Reports(c)
  /\ hook' = [hook EXCEPT ![h] =
       [who |-> c, seen |-> log[c].status,
        next |-> WebhookTransition(log[c].status, incoming, campaign.status = "CANCELLED")]]
  /\ UNCHANGED <<rows, outside, pc, job, queue, cancel, faults>>

ReadWebhook(h, c, incoming) ==
  LET next == WebhookTransition(log[c].status, incoming, campaign.status = "CANCELLED") IN
  /\ hook[h] = None
  /\ log[c].msg
  /\ incoming \in Reports(c)
  /\ next # None
  /\ hook' = [hook EXCEPT ![h] = [who |-> c, seen |-> log[c].status, next |-> next]]
  /\ UNCHANGED <<rows, outside, pc, job, queue, cancel, faults>>

ApplyWebhook(h) ==
  /\ hook[h] # None
  /\ SetLog(hook[h].who, {hook[h].seen}, hook[h].next)
  /\ hook' = [hook EXCEPT ![h] = None]
  /\ UNCHANGED <<campaign, outside, pc, job, queue, cancel, faults>>

(* An accepted message turns out to be undeliverable.                       *)
Bounce(c) ==
  /\ provider[c] = "accepted"
  /\ provider' = [provider EXCEPT ![c] = "undeliverable"]
  /\ UNCHANGED <<rows, requests, timedOut, late, pc, job, actors, faults>>

-----------------------------------------------------------------------------
(* One statement of w.                                                      *)
Work(w) ==
  \/ MarkAbandoned(w) \/ ReleaseStale(w) \/ ExhaustCampaign(w) \/ SweepSpent(w)
  \/ Claim(w) \/ NothingDue(w) \/ Load(w) \/ Scan(w)
  \/ \E c \in Customers :
       RuleOut(w, c) \/ ClaimRecipient(w, c) \/ LoseRecipient(w, c)
  \/ Finalize(w) \/ Abort(w)
  \/ CheckFails(w) \/ PassGate(w) \/ GateClosed(w) \/ Recheck(w)
  \/ \E reply \in Replies : Send(w, reply)
  \/ StoreMessageId(w) \/ RecordSent(w) \/ RecordFailure(w) \/ RecordUnsure(w)

Next ==
  \/ \E p \in Operators : AskQueue(p) \/ \E targets \in SUBSET Customers : CommitQueue(p, targets)
  \/ CancelCampaign \/ CancelLogs \/ CancelDies
  \/ \E w \in Workers : StartCycle(w) \/ Work(w) \/ StatementFails(w) \/ Crash(w)
  \/ GoStale
  \/ \E h \in Hooks : ApplyWebhook(h) \/ \E c \in Customers, incoming \in SentFamily \cup {"FAILED"} :
       ReadWebhook(h, c, incoming)
  \/ \E c \in Customers : Bounce(c)

Spec == Init /\ [][Next]_vars

(* The cron calls again and again, a request that has begun goes on, time  *)
(* passes.  Nobody has to cancel, and Meta owes no report.                 *)
Fairness ==
  /\ \A w \in Workers : WF_vars(StartCycle(w)) /\ WF_vars(Work(w))
  /\ WF_vars(CancelLogs)
  /\ WF_vars(GoStale)

FairSpec == Spec /\ Fairness

-----------------------------------------------------------------------------
(* Properties                                                              *)

(* A recipient is never sent the campaign twice, whatever workers overlap, *)
(* die or are retried.                                                     *)
AtMostOneRequest == \A c \in Customers : requests[c] <= 1

(* A message Meta accepted while its reply was lost, its worker died or its *)
(* row was cancelled under way is left to be reconciled: as long as no     *)
(* message id is stored it is never called failed, exhausted or cancelled. *)
(* Of requests that ran into their time limit see UnknownIsReconciled.     *)
LostIsReconciled ==
  \A c \in Customers \ timedOut :
    provider[c] = "accepted" /\ ~log[c].msg =>
      log[c].status \in {"DISPATCHING", "PENDING_RECONCILIATION"}

(* The same of every request, as the comment on the uncertain outcome has  *)
(* it: "A timeout/transport failure after dispatch began is not proof Meta *)
(* rejected it" (whatsapp.service.ts:4-5).  Fails: a timeout's error bears *)
(* a code, is thrown on as it is (:138), and the row is called FAILED.     *)
UnknownIsReconciled ==
  \A c \in Customers :
    provider[c] = "accepted" /\ ~log[c].msg =>
      log[c].status \in {"DISPATCHING", "PENDING_RECONCILIATION"}

(* The campaign's books agree with what Meta accepted.  A COMPLETED        *)
(* campaign has reached Meta for every recipient, even when several        *)
(* workers have shared them: only those that a second request to queue it  *)
(* added late can be missed, by a worker that had read the rows before.    *)
(* "A confirmed provider acceptance remains SENT": cancelling does not     *)
(* call a message undone that Meta has accepted (comment at :278), unless  *)
(* its request had timed out, as long as no statement fails.  When the     *)
(* UPDATE to SENT fails, the recipient becomes FAILED (:469-483), and a    *)
(* cancellation may follow.  And a                                         *)
(* recipient is tried at most once per claim of the campaign, which is     *)
(* claimed MaxAttempts times at most: so no worker comes to a recipient    *)
(* whose attempts are used up, and the branch for that                     *)
(* (campaign.service.ts:438-445), which has no action here, is not taken.  *)
CompletedIsReached ==
  campaign.status = "COMPLETED" =>
    \A c \in Customers \ late :
      log[c].status = "absent" \/ provider[c] \in {"accepted", "undeliverable"}
CancelledIsUnsent ==
  errors = 0 =>
    \A c \in Customers \ timedOut :
      log[c].status = "CANCELLED" => provider[c] # "accepted"
TriedOncePerClaim ==
  /\ campaign.attempts <= MaxAttempts
  /\ \A c \in Customers : log[c].attempts <= campaign.attempts
  /\ \A w \in Workers : \A c \in job[w].todo : job[w].seen[c] < MaxAttempts
BooksAgree == CompletedIsReached /\ CancelledIsUnsent /\ TriedOncePerClaim

(* A completed, exhausted or cancelled campaign stays so, and no recipient *)
(* passes the gate in it any more, whichever workers are still at it.  Nor *)
(* do reports that are late, repeated or race the worker take a recipient  *)
(* back from SENT, DELIVERED or READ.                                      *)
Closed == {"COMPLETED", "EXHAUSTED", "CANCELLED"}
ClosedStays ==
  [][/\ campaign.status \in Closed =>
          /\ campaign'.status = campaign.status
          /\ \A c \in Customers : log'[c].started = log[c].started
     /\ \A c \in Customers : Rank(log'[c].status) >= Rank(log[c].status)]_vars

(* A queued campaign is closed in the end.                                 *)
CampaignSettles ==
  campaign.status \in {"QUEUED", "SENDING", "FAILED"} ~> campaign.status \in Closed

(* The gate refuses a worker when the campaign was cancelled or the claim  *)
(* changed, as its error says (campaign.service.ts:328).  Fails: the       *)
(* marker of an earlier, refused attempt is never taken off.               *)
GateOpenForClaim ==
  \A w \in Workers :
    LET c == job[w].who IN
    pc[w] = "gate" /\ Dispatchable(c) /\ log[c].attempts = job[w].seen[c] + 1 => ~log[c].started
===============================================================================
