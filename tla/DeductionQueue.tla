---------------------------- MODULE DeductionQueue ----------------------------
(***************************************************************************)
(* The durable inventory-deduction queue: a settled order must have its    *)
(* ingredients taken from stock once, through a Redis queue that several   *)
(* backend processes drain concurrently.                                   *)
(*                                                                         *)
(* Sources: services/inventory/durable-deduction-queue.ts (the queue),     *)
(* services/inventory/deduction-queue.service.ts (its handler and the      *)
(* recovery scan), services/order.service.ts (the PENDING row a settlement *)
(* commits).                                                               *)
(*                                                                         *)
(* Every command sent to Redis is one action, and so is the handler's      *)
(* serializable transaction: those are the only points at which two        *)
(* processes can interleave.  A Redis command can fail before it executes  *)
(* or after it (its reply is lost); a process can die at any point; the    *)
(* TTL of a lock can run out under a live but stalled owner.  `faults`     *)
(* counts these events, at most MaxFaults of them; it models no code.      *)
(*                                                                         *)
(* Abstractions.  An order's items and ingredients are one unit of stock   *)
(* consumption, since one transaction handles them all.  A job's notBefore *)
(* is a member of Times and whether it has passed is the set `waiting`.    *)
(* A lock token is the name of the process: a process has one attempt in   *)
(* flight, because drain() returns when `running` is set, so the name is   *)
(* as unique as the random token.                                          *)
(***************************************************************************)
EXTENDS Integers, Sequences, FiniteSets, SequencesExt

CONSTANTS Orders,      \* settled orders that need a deduction
          Procs,       \* backend processes (server or serverless instances)
          NoProc,      \* "no lock holder"
          NoJob,       \* "no job claimed"
          MaxAttempts, \* options.maxAttempts (5 in production)
          BatchSize,   \* options.batchSize (25 in production)
          Times,       \* the values a retried job's notBefore may take
          MaxRequests, \* bound: accepted enqueues of one order
          MaxFaults    \* bound: crashes, lost commands, stalls, TTL expiries

ASSUME NoProcAssumption == NoProc \notin Procs
ASSUME MaxAttemptsAssumption == MaxAttempts \in Nat \ {0}
ASSUME BatchSizeAssumption == BatchSize \in Nat \ {0}
ASSUME TimesAssumption == Times \subseteq Nat \ {0} /\ Times # {}
ASSUME MaxRequestsAssumption == MaxRequests \in Nat
ASSUME MaxFaultsAssumption == MaxFaults \in Nat

(* A queue entry: the serialized DeductionJob.  Two entries are the same   *)
(* string exactly when these fields agree; req is the requestId of the     *)
(* enqueue that created the job.                                           *)
Job == [order : Orders, req : Nat, attempts : Nat, notBefore : Nat]

ASSUME NoJobAssumption == NoJob \notin Job

VARIABLES
  paid,      \* orders whose settlement has committed
  pending,   \* INVENTORY_DEDUCTION_PENDING rows
  consumed,  \* order -> times its ingredients were taken from stock
  todo,      \* enqueue() calls decided on and not yet executed
  key,       \* Redis: the job key of each order
  req,       \* order -> number of accepted enqueues (source of requestIds)
  ready,     \* Redis list READY
  processing,\* Redis list PROCESSING
  dead,      \* Redis list DEAD
  lock,      \* Redis: holder of the order's lock key
  waiting,   \* jobs whose notBefore is still in the future
  pc,        \* where each process is in drain()
  job,       \* the entry each process has claimed
  count,     \* iterations the current loop of drain() has done
  recovered, \* the `recovered` flag of each process
  lease,     \* the TTL of the lock this process took has not run out
  faults

redisVars == <<key, req, ready, processing, dead, lock>>
dbVars    == <<paid, pending, consumed>>
procVars  == <<pc, job, count, recovered, lease>>
vars == <<dbVars, redisVars, procVars, todo, waiting, faults>>

KeyValues == {"none", "queued", "done", "failed"}

(* Steps of drain(): inside the try of processJob, in its catch, in its    *)
(* finally, and outside of it.                                             *)
TrySteps     == {"markDone", "ack"}
CatchSteps   == {"caught", "retryAck"}
FinallySteps == {"release", "releaseStop", "releaseThrow"}
OuterSteps   == {"recover", "claim", "status", "skip", "lock", "requeue", "requeueAck"}
RedisSteps   == TrySteps \cup CatchSteps \cup FinallySteps \cup OuterSteps
Steps        == RedisSteps \cup {"idle", "handler", "audit"}

(* Between a successful SET NX and the release script.                     *)
LockedSteps == {"handler", "audit"} \cup TrySteps \cup CatchSteps \cup FinallySteps

TypeOK ==
  /\ paid \subseteq Orders
  /\ pending \subseteq Orders
  /\ consumed \in [Orders -> Nat]
  /\ todo \subseteq Orders
  /\ key \in [Orders -> KeyValues]
  /\ req \in [Orders -> Nat]
  /\ ready \in Seq(Job)
  /\ processing \in Seq(Job)
  /\ dead \in Seq(Job)
  /\ lock \in [Orders -> Procs \cup {NoProc}]
  /\ waiting \subseteq Job
  /\ pc \in [Procs -> Steps]
  /\ job \in [Procs -> Job \cup {NoJob}]
  /\ count \in [Procs -> 0 .. BatchSize - 1]
  /\ recovered \in [Procs -> BOOLEAN]
  /\ lease \in [Procs -> BOOLEAN]
  /\ faults \in 0 .. MaxFaults

Init ==
  /\ paid = {} /\ pending = {} /\ todo = {} /\ waiting = {}
  /\ consumed = [o \in Orders |-> 0]
  /\ key = [o \in Orders |-> "none"]
  /\ req = [o \in Orders |-> 0]
  /\ ready = <<>> /\ processing = <<>> /\ dead = <<>>
  /\ lock = [o \in Orders |-> NoProc]
  /\ pc = [p \in Procs |-> "idle"]
  /\ job = [p \in Procs |-> NoJob]
  /\ count = [p \in Procs |-> 0]
  /\ recovered = [p \in Procs |-> FALSE]
  /\ lease = [p \in Procs |-> FALSE]
  /\ faults = 0

-----------------------------------------------------------------------------
(* Redis commands                                                          *)

(* Seeded fault: lRem with count 0 removes every equal string.             *)
LRemAll(list, entry) == Remove(list, entry)

(* LREM list 1 entry: the first string equal to the entry, if any.         *)
LRem(list, entry) == RemoveFirst(list, entry)

Entries(list) == {list[k] : k \in 1 .. Len(list)}

-----------------------------------------------------------------------------
(* Settlement, the enqueue calls and the recovery scan                     *)

(* payOrder commits the settlement and the PENDING row in one transaction, *)
(* then calls enqueueDeduction.                                            *)
Settle(o) ==
  /\ o \notin paid
  /\ paid' = paid \cup {o}
  /\ pending' = pending \cup {o}
  /\ todo' = todo \cup {o}
  /\ UNCHANGED <<consumed, redisVars, procVars, waiting, faults>>

(* payOrder on an order that is already PAID enqueues again.               *)
SettleReplay(o) ==
  /\ o \in paid
  /\ todo' = todo \cup {o}
  /\ UNCHANGED <<dbVars, redisVars, procVars, waiting, faults>>

(* processPending reads the PENDING rows; each becomes an enqueue call.    *)
(* (A row whose order already has a SUCCESS row is dropped, but the        *)
(* transaction that writes SUCCESS deletes PENDING.)                       *)
ScanPending ==
  /\ todo' = todo \cup pending
  /\ UNCHANGED <<dbVars, redisVars, procVars, waiting, faults>>

(* The process dies, or Redis is unreachable, before the call.             *)
LoseCall(o) ==
  /\ o \in todo
  /\ faults < MaxFaults
  /\ faults' = faults + 1
  /\ todo' = todo \ {o}
  /\ UNCHANGED <<dbVars, redisVars, procVars, waiting>>

(* ENQUEUE_SCRIPT: refused when the job key exists.                        *)
Enqueue(o) ==
  /\ o \in todo
  /\ todo' = todo \ {o}
  /\ \/ /\ key[o] # "none"
        /\ UNCHANGED <<key, req, ready>>
     \/ /\ key[o] = "none" /\ req[o] < MaxRequests
        /\ key' = [key EXCEPT ![o] = "queued"]
        /\ req' = [req EXCEPT ![o] = @ + 1]
        /\ ready' = Append(ready, [order |-> o, req |-> req[o] + 1,
                                   attempts |-> 0, notBefore |-> 0])
  /\ UNCHANGED <<dbVars, processing, dead, lock, procVars, waiting, faults>>

-----------------------------------------------------------------------------
(* Control flow of one drain()                                             *)

(* Where a failed Redis command takes the process: the catch of            *)
(* processJob, its finally, or the catch of drainWithContext.              *)
OnError(step) ==
  IF step \in TrySteps THEN "caught"
  ELSE IF step \in CatchSteps THEN "releaseThrow" ELSE "idle"

Begin(p, step) == pc[p] = step

(* Seeded fault: drain() does not clear `recovered` when a command failed. *)
ProceedWarm(p, next) ==
  \/ /\ pc' = [pc EXCEPT ![p] = next]
     /\ UNCHANGED <<recovered, faults>>
  \/ /\ faults < MaxFaults
     /\ faults' = faults + 1
     /\ pc' = [pc EXCEPT ![p] = OnError(pc[p])]
     /\ UNCHANGED recovered

(* The command of p has executed.  Either its reply arrives and p goes on  *)
(* to `next`, or the reply is lost and p takes the error path.             *)
Proceed(p, next) ==
  \/ /\ pc' = [pc EXCEPT ![p] = next]
     /\ UNCHANGED <<recovered, faults>>
  \/ /\ faults < MaxFaults
     /\ faults' = faults + 1
     /\ pc' = [pc EXCEPT ![p] = OnError(pc[p])]
     /\ recovered' = [recovered EXCEPT ![p] = @ /\ pc'[p] # "idle"]

(* Seeded fault: one turn too many.                                        *)
NextTurnInclusive(p) == IF count[p] < BatchSize THEN "claim" ELSE "idle"

(* The next turn of the batch loop, or the end of the drain.               *)
NextTurn(p) == IF count[p] + 1 < BatchSize THEN "claim" ELSE "idle"

(* The locals of an iteration once p is at step pc'.                       *)
EndTurn(p) ==
  /\ job' = [job EXCEPT ![p] = NoJob]
  /\ count' = [count EXCEPT ![p] = IF pc'[p] = "claim" THEN @ + 1 ELSE 0]

(* A cron call, a timer or the enqueue that follows a settlement starts    *)
(* drain(); `running` is pc # "idle".                                      *)
StartDrain(p) ==
  /\ Begin(p, "idle")
  /\ pc' = [pc EXCEPT ![p] = IF recovered[p] THEN "claim" ELSE "recover"]
  /\ UNCHANGED <<dbVars, redisVars, job, count, recovered, lease, todo, waiting, faults>>

(* recover(): one lMove from the left of PROCESSING to the right of READY, *)
(* whoever is working on that entry.                                       *)
Recover(p) ==
  /\ Begin(p, "recover")
  /\ IF processing = <<>>
       THEN UNCHANGED <<ready, processing>>
       ELSE /\ ready' = Append(ready, Head(processing))
            /\ processing' = Tail(processing)
  /\ LET over == processing = <<>> \/ count[p] + 1 = BatchSize
     IN  \/ /\ pc' = [pc EXCEPT ![p] = IF over THEN "claim" ELSE "recover"]
            /\ count' = [count EXCEPT ![p] = IF over THEN 0 ELSE @ + 1]
            /\ recovered' = [recovered EXCEPT ![p] = over]
            /\ UNCHANGED faults
         \/ /\ faults < MaxFaults
            /\ faults' = faults + 1
            /\ pc' = [pc EXCEPT ![p] = "idle"]
            /\ count' = [count EXCEPT ![p] = 0]
            /\ UNCHANGED recovered
  /\ UNCHANGED <<dbVars, key, req, dead, lock, job, lease, todo, waiting>>

(* lMove READY -> PROCESSING; an empty list ends the drain.  When the      *)
(* reply is lost the entry stays in PROCESSING and p does not know it.     *)
Claim(p) ==
  /\ Begin(p, "claim")
  /\ IF ready = <<>>
       THEN /\ Proceed(p, "idle")
            /\ UNCHANGED <<ready, processing>>
       ELSE /\ Proceed(p, "status")
            /\ ready' = Tail(ready)
            /\ processing' = Append(processing, Head(ready))
  /\ job' = [job EXCEPT ![p] = IF pc'[p] = "status" THEN Head(ready) ELSE NoJob]
  /\ count' = [count EXCEPT ![p] = IF pc'[p] = "status" THEN @ ELSE 0]
  /\ UNCHANGED <<dbVars, key, req, dead, lock, lease, todo, waiting>>

(* processJob reads the job key, then compares notBefore with the clock.   *)
ReadStatus(p) ==
  /\ Begin(p, "status")
  /\ pc' = [pc EXCEPT ![p] =
              IF key[job[p].order] \in {"done", "failed"} THEN "skip"
              ELSE IF job[p] \in waiting THEN "requeue" ELSE "lock"]
  /\ UNCHANGED <<dbVars, redisVars, job, count, recovered, lease, todo, waiting, faults>>

(* A finished job's entry is dropped and the loop goes on.                 *)
Skip(p) ==
  /\ Begin(p, "skip")
  /\ processing' = LRem(processing, job[p])
  /\ Proceed(p, NextTurn(p))
  /\ EndTurn(p)
  /\ UNCHANGED <<dbVars, key, req, ready, dead, lock, lease, todo, waiting>>

(* SET lock NX EX lockSeconds.                                             *)
TakeLock(p) ==
  /\ Begin(p, "lock")
  /\ IF lock[job[p].order] = NoProc
       THEN /\ lock' = [lock EXCEPT ![job[p].order] = p]
            /\ Proceed(p, "handler")
       ELSE /\ Proceed(p, "requeue")
            /\ UNCHANGED lock
  /\ lease' = [lease EXCEPT ![p] = pc'[p] = "handler"]
  /\ job' = [job EXCEPT ![p] = IF pc'[p] = "idle" THEN NoJob ELSE @]
  /\ count' = [count EXCEPT ![p] = IF pc'[p] = "idle" THEN 0 ELSE @]
  /\ UNCHANGED <<dbVars, key, req, ready, processing, dead, todo, waiting>>

(* requeue() of a job that is not due or whose order is locked: rPush the  *)
(* same string ...                                                         *)
RequeuePush(p) ==
  /\ Begin(p, "requeue")
  /\ ready' = Append(ready, job[p])
  /\ Proceed(p, "requeueAck")
  /\ job' = [job EXCEPT ![p] = IF pc'[p] = "idle" THEN NoJob ELSE @]
  /\ count' = [count EXCEPT ![p] = IF pc'[p] = "idle" THEN 0 ELSE @]
  /\ UNCHANGED <<dbVars, key, req, processing, dead, lock, lease, todo, waiting>>

(* ... then lRem the claimed one; process() answers false: drain() ends.   *)
RequeueAck(p) ==
  /\ Begin(p, "requeueAck")
  /\ processing' = LRem(processing, job[p])
  /\ Proceed(p, "idle")
  /\ EndTurn(p)
  /\ UNCHANGED <<dbVars, key, req, ready, dead, lock, lease, todo, waiting>>

-----------------------------------------------------------------------------
(* Under the lock                                                          *)

(* Seeded fault: no check for an existing SALE_DEDUCTION row.              *)
DeductAgain(p) ==
  /\ Begin(p, "handler")
  /\ LET o == job[p].order
     IN  /\ consumed' = [consumed EXCEPT ![o] = @ + 1]
         /\ pending' = pending \ {o}
  /\ \/ pc' = [pc EXCEPT ![p] = "markDone"]
     \/ pc' = [pc EXCEPT ![p] = "caught"]
  /\ UNCHANGED <<paid, redisVars, job, count, recovered, lease, todo, waiting, faults>>

(* deductStockForOrder: one serializable transaction.  Items that already  *)
(* have a SALE_DEDUCTION ledger row are skipped; PENDING is deleted in any *)
(* case.  The commit can be reported as an error when its reply is lost.   *)
Deduct(p) ==
  /\ Begin(p, "handler")
  /\ LET o == job[p].order
     IN  /\ consumed' = [consumed EXCEPT ![o] = IF @ = 0 THEN 1 ELSE @]
         /\ pending' = pending \ {o}
  /\ \/ pc' = [pc EXCEPT ![p] = "markDone"]
     \/ pc' = [pc EXCEPT ![p] = "caught"]
  /\ UNCHANGED <<paid, redisVars, job, count, recovered, lease, todo, waiting, faults>>

(* Seeded fault: the error of the transaction is swallowed.                *)
HandlerErrorSwallowed(p) ==
  /\ Begin(p, "handler")
  /\ pc' = [pc EXCEPT ![p] = "markDone"]
  /\ UNCHANGED <<dbVars, redisVars, job, count, recovered, lease, todo, waiting, faults>>

(* The transaction rolls back: order or raw material missing, or the       *)
(* serialization retries are used up.                                      *)
HandlerFails(p) ==
  /\ Begin(p, "handler")
  /\ pc' = [pc EXCEPT ![p] = "caught"]
  /\ UNCHANGED <<dbVars, redisVars, job, count, recovered, lease, todo, waiting, faults>>

MarkDone(p) ==
  /\ Begin(p, "markDone")
  /\ key' = [key EXCEPT ![job[p].order] = "done"]
  /\ Proceed(p, "ack")
  /\ UNCHANGED <<dbVars, req, ready, processing, dead, lock, job, count, lease, todo, waiting>>

Ack(p) ==
  /\ Begin(p, "ack")
  /\ processing' = LRem(processing, job[p])
  /\ Proceed(p, "release")
  /\ UNCHANGED <<dbVars, key, req, ready, dead, lock, job, count, lease, todo, waiting>>

Exhausted(p) == job[p].attempts + 1 >= MaxAttempts

(* The catch block, last attempt: DEAD_SCRIPT, atomic.                     *)
DeadLetter(p) ==
  /\ Begin(p, "caught") /\ Exhausted(p)
  /\ key' = [key EXCEPT ![job[p].order] = "failed"]
  /\ dead' = Append(dead, [job[p] EXCEPT !.attempts = @ + 1])
  /\ processing' = LRem(processing, job[p])
  /\ Proceed(p, "audit")
  /\ UNCHANGED <<dbVars, req, ready, lock, job, count, lease, todo, waiting>>

(* auditTerminalFailure never throws.                                      *)
AuditFailure(p) ==
  /\ Begin(p, "audit")
  /\ pc' = [pc EXCEPT ![p] = "release"]
  /\ UNCHANGED <<dbVars, redisVars, job, count, recovered, lease, todo, waiting, faults>>

(* The catch block, attempts left: rPush the job with one attempt more and *)
(* a later notBefore ...                                                   *)
RetryPush(p) ==
  /\ Begin(p, "caught") /\ ~Exhausted(p)
  /\ \E t \in Times :
       LET retry == [job[p] EXCEPT !.attempts = @ + 1, !.notBefore = t]
       IN  /\ ready' = Append(ready, retry)
           /\ waiting' = waiting \cup {retry}
  /\ Proceed(p, "retryAck")
  /\ UNCHANGED <<dbVars, key, req, processing, dead, lock, job, count, lease, todo>>

(* ... then lRem the claimed entry and end the drain after the finally.    *)
RetryAck(p) ==
  /\ Begin(p, "retryAck")
  /\ processing' = LRem(processing, job[p])
  /\ Proceed(p, "releaseStop")
  /\ UNCHANGED <<dbVars, key, req, ready, dead, lock, job, count, lease, todo, waiting>>

(* Seeded fault: the lock key is deleted whatever token it holds.          *)
ReleaseAnyLock(p) == lock' = [lock EXCEPT ![job[p].order] = NoProc]

(* RELEASE_SCRIPT: delete the lock key only if it still holds our token.   *)
ReleaseLock(p) ==
  lock' = [lock EXCEPT ![job[p].order] = IF @ = p THEN NoProc ELSE @]

Release(p) ==
  /\ pc[p] \in FinallySteps
  /\ ReleaseLock(p)
  /\ \/ /\ pc[p] = "release"      /\ Proceed(p, NextTurn(p))
     \/ /\ pc[p] = "releaseStop"  /\ Proceed(p, "idle")
     \/ /\ pc[p] = "releaseThrow" /\ pc' = [pc EXCEPT ![p] = "idle"]
        /\ recovered' = [recovered EXCEPT ![p] = FALSE]
        /\ UNCHANGED faults
  /\ lease' = [lease EXCEPT ![p] = FALSE]
  /\ EndTurn(p)
  /\ UNCHANGED <<dbVars, key, req, ready, processing, dead, todo, waiting>>

-----------------------------------------------------------------------------
(* Faults and the passage of time                                          *)

(* A Redis command of p fails without having executed.                     *)
CommandFails(p) ==
  /\ pc[p] \in RedisSteps
  /\ faults < MaxFaults
  /\ faults' = faults + 1
  /\ pc' = [pc EXCEPT ![p] = OnError(pc[p])]
  /\ IF pc'[p] = "idle"
       THEN /\ recovered' = [recovered EXCEPT ![p] = FALSE]
            /\ job' = [job EXCEPT ![p] = NoJob]
            /\ count' = [count EXCEPT ![p] = 0]
            /\ lease' = [lease EXCEPT ![p] = FALSE]
       ELSE UNCHANGED <<recovered, job, count, lease>>
  /\ UNCHANGED <<dbVars, redisVars, todo, waiting>>

(* The process dies, or is retired while idle; a fresh one takes its       *)
(* place, which will call recover() before it claims anything.             *)
Crash(p) ==
  /\ pc[p] # "idle" \/ recovered[p]
  /\ faults < MaxFaults
  /\ faults' = faults + 1
  /\ pc' = [pc EXCEPT ![p] = "idle"]
  /\ job' = [job EXCEPT ![p] = NoJob]
  /\ count' = [count EXCEPT ![p] = 0]
  /\ recovered' = [recovered EXCEPT ![p] = FALSE]
  /\ lease' = [lease EXCEPT ![p] = FALSE]
  /\ UNCHANGED <<dbVars, redisVars, todo, waiting>>

(* The process that took the lock of o is no longer at work on o.          *)
Abandoned(o) ==
  /\ lock[o] # NoProc
  /\ ~ (lease[lock[o]] /\ job[lock[o]] # NoJob /\ job[lock[o]].order = o)

ExpireAbandonedLock(o) ==
  /\ Abandoned(o)
  /\ lock' = [lock EXCEPT ![o] = NoProc]
  /\ UNCHANGED <<dbVars, key, req, ready, processing, dead, procVars, todo, waiting, faults>>

(* The owner stalls for longer than lockSeconds.                           *)
ExpireHeldLock(o) ==
  /\ lock[o] # NoProc /\ ~Abandoned(o)
  /\ faults < MaxFaults
  /\ faults' = faults + 1
  /\ lease' = [lease EXCEPT ![lock[o]] = FALSE]
  /\ lock' = [lock EXCEPT ![o] = NoProc]
  /\ UNCHANGED <<dbVars, key, req, ready, processing, dead, pc, job, count, recovered, todo, waiting>>

(* 'done' lives for thirty days, 'failed' for seven; 'queued' forever.     *)
ExpireKey(o) ==
  /\ key[o] \in {"done", "failed"}
  /\ faults < MaxFaults
  /\ faults' = faults + 1
  /\ key' = [key EXCEPT ![o] = "none"]
  /\ UNCHANGED <<dbVars, req, ready, processing, dead, lock, procVars, todo, waiting>>

(* The clock passes the job's notBefore.                                   *)
BackoffElapses(j) ==
  /\ j \in waiting
  /\ waiting' = waiting \ {j}
  /\ UNCHANGED <<dbVars, redisVars, procVars, todo, faults>>

-----------------------------------------------------------------------------

(* The steps a live process takes by itself.                               *)
Run(p) ==
  \/ StartDrain(p) \/ Recover(p) \/ Claim(p) \/ ReadStatus(p) \/ Skip(p)
  \/ TakeLock(p) \/ RequeuePush(p) \/ RequeueAck(p)
  \/ Deduct(p) \/ HandlerFails(p) \/ MarkDone(p) \/ Ack(p)
  \/ DeadLetter(p) \/ AuditFailure(p) \/ RetryPush(p) \/ RetryAck(p)
  \/ Release(p)

Next ==
  \/ \E o \in Orders : Settle(o) \/ SettleReplay(o) \/ LoseCall(o) \/ Enqueue(o)
  \/ ScanPending
  \/ \E p \in Procs : Run(p) \/ CommandFails(p) \/ Crash(p)
  \/ \E o \in Orders : ExpireAbandonedLock(o) \/ ExpireHeldLock(o) \/ ExpireKey(o)
  \/ \E j \in waiting : BackoffElapses(j)

Spec == Init /\ [][Next]_vars

(* A drain that has started runs on unless its process dies; the cron and  *)
(* the timers start drains for ever; the clock advances; the cron repeats  *)
(* the recovery scan and its enqueue calls.  No fairness is assumed of     *)
(* settlements and of faults.                                              *)
Fairness ==
  /\ \A p \in Procs : WF_vars(Run(p))
  /\ WF_vars(ScanPending)
  /\ \A o \in Orders : WF_vars(Enqueue(o)) /\ WF_vars(ExpireAbandonedLock(o))
  /\ \A j \in [order : Orders, req : 1 .. MaxRequests,
                attempts : 1 .. MaxAttempts, notBefore : Times] :
       WF_vars(BackoffElapses(j))

LiveSpec == Spec /\ Fairness

-----------------------------------------------------------------------------
(* Correctness                                                             *)

(* Stock is consumed at most once for an order, however many workers run   *)
(* its handler, and never for an order that was not settled; while it has  *)
(* not been consumed the PENDING row is there for the recovery scan        *)
(* (the idempotency check of deductStockForOrder, deduction-queue.service  *)
(* .ts:141-154, and its commit together with the ledger).                  *)
ConsumedOnce ==
  \A o \in Orders : /\ consumed[o] <= 1
                    /\ consumed[o] = 1 => o \in paid
                    /\ o \in paid => (o \in pending <=> consumed[o] = 0)

(* An order whose job key says 'queued' has an entry in READY or           *)
(* PROCESSING: the key refuses further enqueues and never expires, so an   *)
(* entry lost by the push/lRem pairs of requeue(), by recover() moving     *)
(* entries of live workers or by lRem hitting an equal string of another   *)
(* worker could never be enqueued again.                                   *)
NoLostJob ==
  \A o \in Orders : key[o] = "queued" =>
    \E entry \in Entries(ready) \cup Entries(processing) : entry.order = o

(* What a job key says can be relied on, whatever commands failed on the   *)
(* way.  'done' stands for a committed deduction: enqueue() refuses such   *)
(* an order for thirty days.  'failed' is never set without the entry the  *)
(* operators replay from (DEAD_SCRIPT), and such an entry used up all its  *)
(* attempts.                                                               *)
DoneMeansDeducted ==
  \A o \in Orders : key[o] = "done" => consumed[o] = 1
FailedIsDeadLettered ==
  \A o \in Orders : key[o] = "failed" =>
    \E entry \in Entries(dead) : entry.order = o /\ entry.attempts >= MaxAttempts
StatusIsHonest == DoneMeansDeducted /\ FailedIsDeadLettered

(* Two processes never hold an unexpired lock of the same order: a stalled *)
(* owner whose lock expired does not delete the lock of its successor.     *)
LeaseExclusion ==
  \A p, q \in Procs :
    /\ p # q /\ lease[p] /\ lease[q]
    /\ job[p] # NoJob /\ job[q] # NoJob
    => job[p].order # job[q].order

(* A settled order is deducted or reaches the dead-letter list, where an   *)
(* alert asks an operator to look (monitoring: DLQ depth > 0), although    *)
(* enqueue calls are lost, processes die and locks expire; and when faults *)
(* stop, PROCESSING runs empty: no entry is stranded there by a dead       *)
(* process or a lost reply.                                                *)
DeductionResolves ==
  /\ \A o \in Orders :
       (o \in paid) ~> (consumed[o] = 1 \/ \E entry \in Entries(dead) : entry.order = o)
  /\ <>[](processing = <<>>)

(* What settlement and queue promise together is kept: the abstract        *)
(* specification, refined.                                                 *)
Promise == INSTANCE StockOutbox
             WITH givenUp <- {entry.order : entry \in Entries(dead)}
PromiseKept == Promise!Spec
===============================================================================
