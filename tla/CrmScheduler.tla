----------------------------- MODULE CrmScheduler -----------------------------
(***************************************************************************)
(* The cycles of the CRM scheduler: each call of the cron runs the jobs    *)
(* that are due, one after the other, under a lock in Redis.  A job runs   *)
(* once per bucket of time, is retried when it fails, and is reported as   *)
(* dead when it has failed MaxAttempts times.                              *)
(*                                                                         *)
(* Source: services/crm/scheduler.service.ts; routes/crm/cron.routes.ts    *)
(* calls it.                                                               *)
(*                                                                         *)
(* Every command to Redis is one action, and so is a run of a job.  The    *)
(* bucket is that of the moment at which the cycle has begun, however late *)
(* its jobs run; the counter and the retry time of a job belong to no      *)
(* bucket.  `faults` counts what can go wrong around the code: a command   *)
(* or its reply is lost, an invocation dies, a lock expires under a cycle  *)
(* that is still running (its TTL exceeds the limit of an invocation on    *)
(* Vercel, but a server of one's own has no such limit).                   *)
(*                                                                         *)
(* Abstractions.  What the jobs do is another module's subject (Campaign): *)
(* here they succeed or fail.  The marks of a bucket outlive the bucket.   *)
(* Connecting to Redis takes no time.  The metrics are left out: their     *)
(* failure is swallowed.                                                   *)
(***************************************************************************)
EXTENDS Naturals, Sequences, Functions

CONSTANTS Cycles,          \* invocations that may run at the same time
          None, Orphan,    \* no lock; a lock whose owner is gone
          JobOrder,        \* the jobs, in the order in which a cycle looks at them
          Period,          \* job -> length of its buckets
          MaxAttempts,     \* MAX_ATTEMPTS
          MaxTime,         \* bound: units of time
          MaxFaults        \* bound: lost commands, deaths, expired locks

Jobs == Range(JobOrder)

ASSUME LockAssumption == None \notin Cycles /\ Orphan \notin Cycles /\ None # Orphan
ASSUME JobsAssumption ==
  /\ JobOrder \in Seq(Jobs) /\ Len(JobOrder) > 0 /\ IsInjective(JobOrder)
  /\ Period \in [Jobs -> Nat \ {0}]
ASSUME BoundsAssumption == MaxAttempts \in Nat \ {0} /\ MaxTime \in Nat /\ MaxFaults \in Nat

VARIABLES
  now,
  lock,       \* crm:scheduler:lock: the cycle whose token it holds
  checkpoint, \* job -> buckets marked done
  failed,     \* job -> buckets marked failed
  dead,       \* the dead-letter list: entries per job and bucket
  attempts,   \* job -> failures counted
  waiting,    \* jobs whose retry-at lies in the future
  pc,         \* cycle -> where it is
  at,         \* cycle -> when it has begun
  turn,       \* cycle -> the position of its job
  overrun,    \* cycles whose lock has expired under them
  ran, failures, \* runs that succeeded, and failed, per job and bucket (history)
  putOff,     \* cycle -> jobs whose retry was not due in it (history)
  missed,     \* cycles that left a job unresolved although it was not put off (history)
  faults

marks   == <<checkpoint, failed, dead>>
retries == <<attempts, waiting>>
local   == <<at, turn>>
history == <<ran, failures>>
misses  == <<putOff, missed>>
vars    == <<now, lock, marks, retries, pc, local, overrun, history, misses, faults>>

Buckets  == 0 .. MaxTime
Bucket(j, t) == t \div Period[j]

Steps  == {"idle", "read", "due", "run", "mark", "clear", "count", "bury", "defer", "release"}
Inside == Steps \ {"idle"}

TypeOK ==
  /\ now \in 0 .. MaxTime
  /\ lock \in Cycles \cup {None, Orphan}
  /\ checkpoint \in [Jobs -> SUBSET Buckets]
  /\ failed \in [Jobs -> SUBSET Buckets]
  /\ dead \in [Jobs -> [Buckets -> Nat]]
  /\ attempts \in [Jobs -> Nat]
  /\ waiting \in SUBSET Jobs
  /\ pc \in [Cycles -> Steps]
  /\ at \in [Cycles -> 0 .. MaxTime]
  /\ turn \in [Cycles -> DOMAIN JobOrder]
  /\ overrun \in SUBSET Cycles
  /\ ran \in [Jobs -> [Buckets -> Nat]]
  /\ failures \in [Jobs -> [Buckets -> Nat]]
  /\ putOff \in [Cycles -> SUBSET Jobs]
  /\ missed \in [Jobs -> [Buckets -> Nat]]
  /\ faults \in 0 .. MaxFaults

Init ==
  /\ now = 0
  /\ lock = None
  /\ checkpoint = [j \in Jobs |-> {}]
  /\ failed = [j \in Jobs |-> {}]
  /\ dead = [j \in Jobs |-> [b \in Buckets |-> 0]]
  /\ attempts = [j \in Jobs |-> 0]
  /\ waiting = {}
  /\ pc = [c \in Cycles |-> "idle"]
  /\ at = [c \in Cycles |-> 0]
  /\ turn = [c \in Cycles |-> 1]
  /\ overrun = {}
  /\ ran = [j \in Jobs |-> [b \in Buckets |-> 0]]
  /\ failures = [j \in Jobs |-> [b \in Buckets |-> 0]]
  /\ putOff = [c \in Cycles |-> {}]
  /\ missed = [j \in Jobs |-> [b \in Buckets |-> 0]]
  /\ faults = 0

JobOf(c)    == JobOrder[turn[c]]
BucketOf(c) == Bucket(JobOf(c), at[c])
Once(count, c) == [count EXCEPT ![JobOf(c)][BucketOf(c)] = @ + 1]

Goto(c, step) == pc' = [pc EXCEPT ![c] = step]

-----------------------------------------------------------------------------
(* A cycle                                                                 *)

(* runCycle: SET NX.  A cycle that finds the lock taken is skipped.         *)
Begin(c) ==
  /\ pc[c] = "idle"
  /\ lock = None
  /\ lock' = c
  /\ at' = [at EXCEPT ![c] = now]
  /\ turn' = [turn EXCEPT ![c] = 1]
  /\ Goto(c, "read")
  /\ UNCHANGED <<now, marks, retries, overrun, history, misses, faults>>

(* Seeded fault: one job too far.                                           *)
AdvancePast(c) ==
  IF turn[c] <= Len(JobOrder)
    THEN /\ turn' = [turn EXCEPT ![c] = @ + 1]
         /\ Goto(c, "read")
    ELSE /\ UNCHANGED turn
         /\ Goto(c, "release")

(* The next job of the cycle, or the end of it.                             *)
Advance(c) ==
  IF turn[c] < Len(JobOrder)
    THEN /\ turn' = [turn EXCEPT ![c] = @ + 1]
         /\ Goto(c, "read")
    ELSE /\ UNCHANGED turn
         /\ Goto(c, "release")

Marks(j, b) == b \in checkpoint[j] \cup failed[j]

Marked(c) == Marks(JobOf(c), BucketOf(c))

(* Two GETs: whatever is written between them, their outcome is that of     *)
(* both at the one moment or both at the other.                             *)
ReadMarks(c) ==
  /\ pc[c] = "read"
  /\ \/ Marked(c) /\ Advance(c)
     \/ ~Marked(c) /\ Goto(c, "due") /\ UNCHANGED turn
  /\ UNCHANGED <<now, lock, marks, retries, at, overrun, history, misses, faults>>

(* Seeded fault: a job whose retry is not due ends the cycle.               *)
ReadRetryEnds(c) ==
  /\ pc[c] = "due"
  /\ \/ JobOf(c) \in waiting /\ Goto(c, "release") /\ UNCHANGED turn
        /\ putOff' = [putOff EXCEPT ![c] = @ \cup {JobOf(c)}]
     \/ JobOf(c) \notin waiting /\ Goto(c, "run") /\ UNCHANGED <<turn, putOff>>
  /\ UNCHANGED <<now, lock, marks, retries, at, overrun, history, missed, faults>>

ReadRetry(c) ==
  /\ pc[c] = "due"
  /\ \/ JobOf(c) \in waiting /\ Advance(c) /\ putOff' = [putOff EXCEPT ![c] = @ \cup {JobOf(c)}]
     \/ JobOf(c) \notin waiting /\ Goto(c, "run") /\ UNCHANGED <<turn, putOff>>
  /\ UNCHANGED <<now, lock, marks, retries, at, overrun, history, missed, faults>>

Succeed(c) ==
  /\ pc[c] = "run"
  /\ ran' = Once(ran, c)
  /\ Goto(c, "mark")
  /\ UNCHANGED <<now, lock, marks, retries, local, overrun, failures, misses, faults>>

(* recordFailure: a permanent error is not counted but given up at once.    *)
Fail(c, permanent) ==
  /\ pc[c] = "run"
  /\ failures' = Once(failures, c)
  /\ Goto(c, IF permanent THEN "bury" ELSE "count")
  /\ UNCHANGED <<now, lock, marks, retries, local, overrun, ran, misses, faults>>

WriteCheckpoint(c) ==
  /\ pc[c] = "mark"
  /\ checkpoint' = [checkpoint EXCEPT ![JobOf(c)] = @ \cup {BucketOf(c)}]
  /\ Goto(c, "clear")
  /\ UNCHANGED <<now, lock, failed, dead, retries, local, overrun, history, misses, faults>>

ClearRetries(c) ==
  /\ pc[c] = "clear"
  /\ attempts' = [attempts EXCEPT ![JobOf(c)] = 0]
  /\ waiting' = waiting \ {JobOf(c)}
  /\ Advance(c)
  /\ UNCHANGED <<now, lock, marks, at, overrun, history, misses, faults>>

Spent(n) == n >= MaxAttempts

(* INCR, whose answer decides.                                              *)
CountFailure(c) ==
  LET n == attempts[JobOf(c)] + 1 IN
  /\ pc[c] = "count"
  /\ attempts' = [attempts EXCEPT ![JobOf(c)] = n]
  /\ Goto(c, IF Spent(n) THEN "bury" ELSE "defer")
  /\ UNCHANGED <<now, lock, marks, waiting, local, overrun, history, misses, faults>>

(* DEAD_SCRIPT.  The error ends the cycle: later jobs are not looked at.    *)
Bury(c) ==
  /\ pc[c] = "bury"
  /\ failed' = [failed EXCEPT ![JobOf(c)] = @ \cup {BucketOf(c)}]
  /\ dead' = Once(dead, c)
  /\ attempts' = [attempts EXCEPT ![JobOf(c)] = 0]
  /\ waiting' = waiting \ {JobOf(c)}
  /\ Goto(c, "release")
  /\ UNCHANGED <<now, lock, checkpoint, local, overrun, history, misses, faults>>

(* The retry time is set, and the error ends the cycle.                     *)
Defer(c) ==
  /\ pc[c] = "defer"
  /\ waiting' = waiting \cup {JobOf(c)}
  /\ Goto(c, "release")
  /\ UNCHANGED <<now, lock, marks, attempts, local, overrun, history, misses, faults>>

(* Seeded fault: the lock is deleted whoever holds it.                      *)
ReleasedAny(c) == None

(* The release script deletes the lock only if the token is still ours.     *)
Released(c) == IF lock = c THEN None ELSE lock

Leave(c) ==
  /\ Goto(c, "idle")
  /\ at' = [at EXCEPT ![c] = 0]
  /\ turn' = [turn EXCEPT ![c] = 1]
  /\ overrun' = overrun \ {c}
  /\ putOff' = [putOff EXCEPT ![c] = {}]

(* The cycle ends, and the job's bucket is neither done nor given up.       *)
PassedOver(c, j) == ~Marks(j, Bucket(j, at[c])) /\ j \notin putOff[c]

Release(c) ==
  /\ pc[c] = "release"
  /\ lock' = Released(c)
  /\ missed' = [j \in Jobs |-> [b \in Buckets |->
       IF b = Bucket(j, at[c]) /\ PassedOver(c, j) THEN missed[j][b] + 1 ELSE missed[j][b]]]
  /\ Leave(c)
  /\ UNCHANGED <<now, marks, retries, history, faults>>

-----------------------------------------------------------------------------
(* Faults and time                                                          *)

Fault == faults < MaxFaults /\ faults' = faults + 1

(* A command fails; when its reply was lost it has been executed, which is  *)
(* this step after the command's own.  The finally block releases the lock. *)
CommandFails(c) ==
  /\ Fault
  /\ pc[c] \in {"read", "due", "mark", "clear", "count", "bury", "defer"}
  /\ Goto(c, "release")
  /\ UNCHANGED <<now, lock, marks, retries, local, overrun, history, misses>>

(* The reply of SET NX is lost: nobody knows that the lock was taken.       *)
AcquiredUnknown ==
  /\ Fault
  /\ lock = None
  /\ lock' = Orphan
  /\ UNCHANGED <<now, marks, retries, pc, local, overrun, history, misses>>

(* The invocation dies, or its release fails: the lock is left to its TTL.  *)
Die(c) ==
  /\ Fault
  /\ pc[c] \in Inside
  /\ lock' = IF lock = c THEN Orphan ELSE lock
  /\ Leave(c)
  /\ UNCHANGED <<now, marks, retries, history, missed>>

(* The TTL of SET NX.  Not a fault: the invocation is gone.                 *)
ExpireOrphan ==
  /\ lock = Orphan
  /\ lock' = None
  /\ UNCHANGED <<now, marks, retries, pc, local, overrun, history, misses, faults>>

ExpireHeld(c) ==
  /\ Fault
  /\ lock = c
  /\ lock' = None
  /\ overrun' = overrun \cup {c}
  /\ UNCHANGED <<now, marks, retries, pc, local, history, misses>>

Tick ==
  /\ now < MaxTime
  /\ now' = now + 1
  /\ UNCHANGED <<lock, marks, retries, pc, local, overrun, history, misses, faults>>

RetryDue(j) ==
  /\ j \in waiting
  /\ waiting' = waiting \ {j}
  /\ UNCHANGED <<now, lock, marks, attempts, pc, local, overrun, history, misses, faults>>

-----------------------------------------------------------------------------
Step(c) ==
  \/ Begin(c) \/ ReadMarks(c) \/ ReadRetry(c)
  \/ Succeed(c) \/ Fail(c, TRUE) \/ Fail(c, FALSE)
  \/ WriteCheckpoint(c) \/ ClearRetries(c)
  \/ CountFailure(c) \/ Bury(c) \/ Defer(c) \/ Release(c)

Next ==
  \/ \E c \in Cycles : Step(c) \/ CommandFails(c) \/ Die(c) \/ ExpireHeld(c)
  \/ AcquiredUnknown \/ ExpireOrphan \/ Tick
  \/ \E j \in Jobs : RetryDue(j)

Spec == Init /\ [][Next]_vars

-----------------------------------------------------------------------------
(* Properties                                                               *)

(* Cycles exclude one another, except those that outlived their lock; in    *)
(* particular such a cycle does not take the lock of its successor away.    *)
(* So a bucket of a job is done once, or given up once, and never both, but *)
(* for one more time per fault (an answer lost after the job has run, a     *)
(* cycle that dies or that outlives its lock); and "bounded retry"          *)
(* (docs/launch-checklist.md:24): it sees at most MaxAttempts failures, and *)
(* as many more for each fault.                                             *)
OneCycle ==
  /\ \A c, d \in Cycles :
       pc[c] \in Inside /\ pc[d] \in Inside /\ c \notin overrun /\ d \notin overrun => c = d
  /\ \A j \in Jobs, b \in Buckets : 
       ran[j][b] + dead[j][b] <= 1 + faults /\ failures[j][b] <= MaxAttempts * (1 + faults)

Positions == DOMAIN JobOrder

(* The buckets, of the jobs up to position k, that a cycle may be in while  *)
(* it is in bucket b of the job at k.                                       *)
Alongside ==
  [k \in Positions |-> [b \in Buckets |->
     {p \in Positions \X Buckets :
        p[1] <= k /\ \E t \in 0 .. MaxTime :
                       Bucket(JobOrder[p[1]], t) = p[2] /\ Bucket(JobOrder[k], t) = b}]]

FailuresAlongside(k, b) ==
  SumFunction([p \in Alongside[k][b] |-> failures[JobOrder[p[1]]][p[2]]])

(* The error of a job ends its cycle, so later jobs are not looked at       *)
(* (scheduler.service.ts:80,133).  That is all that holds a job up: the     *)
(* cycles that ended in a bucket of it without having resolved it, although *)
(* no retry delay was on, are no more than the failures of it and of the    *)
(* jobs before it in that time, and the faults.                             *)
OnlyFailuresHoldUp ==
  \A k \in Positions, b \in Buckets :
    missed[JobOrder[k]][b] <= FailuresAlongside(k, b) + faults
===============================================================================
