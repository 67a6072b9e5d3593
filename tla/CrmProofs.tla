--------------------------------- MODULE CrmProofs -----------------------------
(***************************************************************************)
(* Proofs about the CRM's scheduler (CrmScheduler) and about what the CRM  *)
(* keeps of the guests (Guests), for every value of their constants.       *)
(*                                                                         *)
(* CrmScheduler.  Without faults, one cycle at a time holds the lock, and  *)
(* a bucket of a job is done or given up once.  A fault costs at most one  *)
(* more of each.  The invariant keeps the account: for a bucket, what has  *)
(* happened, what may still happen without another fault, and what the     *)
(* cycles that have outlived their lock may still do (their fault is       *)
(* already counted) stay within what the faults so far allow.  A second    *)
(* account (LooksInv) is of the cycles that end without having resolved a  *)
(* job: each has met a failure, of that job or of one before it, or a      *)
(* fault.                                                                  *)
(*                                                                         *)
(* Guests.  A request carries from one step to the next what it has read.  *)
(* Rows come and keep what they are (Grows), so that what was read stays   *)
(* true (Vouches), but for two things that another request could spoil: an *)
(* order not placed yet and a brand not adopted yet (Fresh), which is why  *)
(* no two requests have the same (Apart).  A payment reads and writes in   *)
(* one transaction, so that its sum is over the profiles as they are.      *)
(* What a claim gives is not undone when it dies, so that the rows are     *)
(* held to bounds and not to equations: the balance of an account to its   *)
(* ledger (PointsRows), the tickets to the poor ratings (VoicesRows).      *)
(***************************************************************************)
EXTENDS CrmScheduler, Guests, Integers, FiniteSetTheorems, SumTheorems, TLAPS

(***************************************************************************)
(* CrmScheduler                                                            *)
(***************************************************************************)

Working == Inside \ {"release"}

Here(c, k, b) == turn[c] = k /\ Bucket(JobOrder[k], at[c]) = b

(* Where the cycle that holds the lock is, when it is at bucket b of job k. *)
Stage(k, b) == IF lock \in Cycles /\ Here(lock, k, b) THEN pc[lock] ELSE "idle"

MarkedAt(k, b) == Marks(JobOrder[k], b)

(* A cycle that begins now, or the one that holds the lock, may come to b. *)
Open(k, b) ==
  \/ Bucket(JobOrder[k], now) <= b
  \/ lock \in Cycles /\ Bucket(JobOrder[k], at[lock]) = b

(* The bucket may still be done or given up without another fault.         *)
Chance(stage, marked) ==
  IF stage # "mark" /\ (~marked \/ stage \in {"due", "run", "count", "bury"}) THEN 1 ELSE 0

(* Cycles without a lock that may still do it or give it up.               *)
Owing(k) ==
  {c \in overrun : pc[c] \in Working /\ turn[c] <= k
                   /\ (turn[c] = k => pc[c] \in {"read", "due", "run", "count", "bury"})}

Outcomes(k, b) == ran[JobOrder[k]][b] + dead[JobOrder[k]][b]

Settled(k, b) ==
  Outcomes(k, b) + Chance(Stage(k, b), MarkedAt(k, b)) + Cardinality(Owing(k)) <= 1 + faults

(* How often the job may still fail in the bucket without another fault,   *)
(* after n failures that were counted.                                     *)
Tries(n) == IF n < MaxAttempts THEN MaxAttempts - n ELSE 1

Ahead(stage, marked, open, n) ==
  IF stage \in {"mark", "bury"} THEN 0
  ELSE IF stage = "count" THEN IF marked \/ n + 1 >= MaxAttempts THEN 0 ELSE Tries(n + 1)
  ELSE IF marked THEN IF stage \in {"due", "run"} THEN 1 ELSE 0
  ELSE IF open THEN Tries(n) ELSE 0

(* Cycles without a lock that may still fail in the bucket, or, from       *)
(* another bucket, forget the failures that were counted.                  *)
Unsettling(k, b) ==
  {c \in overrun : pc[c] \in Working /\ turn[c] <= k
                   /\ (Here(c, k, b) => pc[c] \in {"read", "due", "run"})}

Failures(k, b) ==
  failures[JobOrder[k]][b]
    + Ahead(Stage(k, b), MarkedAt(k, b), Open(k, b), attempts[JobOrder[k]])

Rounds(k, b) == 1 + faults - Cardinality(Unsettling(k, b))

Retried(k, b) == Failures(k, b) <= MaxAttempts * Rounds(k, b)

Accounts == \A k \in Positions, b \in Buckets : Settled(k, b) /\ Retried(k, b)

(* A cycle inside that has not outlived its lock holds it.                 *)
Exclusive ==
  /\ \A c \in Cycles : pc[c] \in Inside /\ c \notin overrun => lock = c
  /\ lock \in Cycles => pc[lock] \in Inside /\ lock \notin overrun
  /\ \A c \in overrun : pc[c] \in Inside

(* Cycles without a lock have begun before the one that has it; no bucket  *)
(* has seen failures before a cycle was in it.                             *)
Clocks ==
  /\ \A c \in Cycles : at[c] <= now
  /\ lock \in Cycles => \A c \in overrun : at[c] <= at[lock]
  /\ \A k \in Positions, b \in Buckets : failures[JobOrder[k]][b] > 0 =>
       /\ b <= Bucket(JobOrder[k], now)
       /\ lock \in Cycles => b <= Bucket(JobOrder[k], at[lock])

Cleared == \A c \in Cycles : pc[c] = "clear" => Marked(c)

FewOverrun == IsFiniteSet(overrun) /\ Cardinality(overrun) <= faults

Shape == TypeOK /\ Exclusive /\ Clocks /\ Cleared /\ FewOverrun

IInv == Shape /\ Accounts

-----------------------------------------------------------------------------
(* Buckets and positions                                                   *)

LEMMA Position ==
  ASSUME NEW k \in Positions
  PROVE  /\ JobOrder[k] \in Jobs /\ k \in Nat /\ k >= 1 /\ k <= Len(JobOrder)
         /\ \A m \in Positions : JobOrder[m] = JobOrder[k] => m = k
BY JobsAssumption DEF Positions, Jobs, Range, IsInjective

LEMMA Division ==
  ASSUME NEW n \in Nat, NEW d \in Nat \ {0}
  PROVE  n \div d \in Nat /\ (n \div d) * d <= n /\ n < (n \div d) * d + d
OBVIOUS

LEMMA TimesMonotone ==
  ASSUME NEW a \in Nat, NEW b \in Nat, a <= b, NEW n \in Nat
  PROVE  a * n <= b * n
OBVIOUS

LEMMA BucketMonotone ==
  ASSUME NEW j \in Jobs, NEW s \in Nat, NEW t \in Nat, s <= t
  PROVE  /\ Bucket(j, s) \in Nat /\ Bucket(j, t) \in Nat
         /\ Bucket(j, s) <= Bucket(j, t) /\ Bucket(j, t) <= t
<1> PICK d \in Nat \ {0} : d = Period[j]
  BY JobsAssumption
<1> PICK x \in Nat : x = s \div d
  BY Division
<1> PICK y \in Nat : y = t \div d
  BY Division
<1>1. x * d <= s /\ s < x * d + d /\ y * d <= t /\ t < y * d + d
  BY Division
<1>2. x <= y
  <2> SUFFICES ASSUME y + 1 <= x PROVE FALSE
    OBVIOUS
  <2>1. (y + 1) * d <= x * d
    BY TimesMonotone
  <2>2. (y + 1) * d = y * d + d
    OBVIOUS
  <2> QED
    BY <1>1, <2>1, <2>2
<1>3. y <= t
  <2>1. y * 1 <= y * d
    OBVIOUS
  <2> QED
    BY <1>1, <2>1
<1> QED
  BY <1>2, <1>3 DEF Bucket

LEMMA InBuckets ==
  ASSUME TypeOK, NEW c \in Cycles
  PROVE  /\ turn[c] \in Positions /\ JobOf(c) \in Jobs /\ BucketOf(c) \in Buckets
         /\ BucketOf(c) = Bucket(JobOrder[turn[c]], at[c])
<1>1. turn[c] \in Positions /\ at[c] \in 0 .. MaxTime
  BY DEF TypeOK, Positions
<1>2. JobOf(c) \in Jobs /\ at[c] \in Nat /\ at[c] <= MaxTime
  BY <1>1, Position, BoundsAssumption DEF JobOf
<1>3. BucketOf(c) \in Nat /\ BucketOf(c) <= at[c]
  BY <1>2, BucketMonotone DEF BucketOf
<1> QED
  BY <1>1, <1>2, <1>3, BoundsAssumption DEF Buckets, BucketOf, JobOf

(* A job is at its position only.                                          *)
LEMMA AtPosition ==
  ASSUME TypeOK, NEW c \in Cycles, NEW k \in Positions, NEW b
  PROVE  Here(c, k, b) <=> JobOrder[k] = JobOf(c) /\ b = BucketOf(c)
<1>1. turn[c] \in Positions
  BY InBuckets
<1> QED
  BY <1>1, Position DEF Here, JobOf, BucketOf

LEMMA OnceMore ==
  ASSUME TypeOK, NEW c \in Cycles, NEW count \in [Jobs -> [Buckets -> Nat]],
         NEW new, new = Once(count, c)
  PROVE  /\ new \in [Jobs -> [Buckets -> Nat]]
         /\ \A k \in Positions, b \in Buckets :
              new[JobOrder[k]][b] =
                IF Here(c, k, b) THEN count[JobOrder[k]][b] + 1 ELSE count[JobOrder[k]][b]
<1> PICK j \in Jobs : j = JobOf(c)
  BY InBuckets
<1> PICK i \in Buckets : i = BucketOf(c)
  BY InBuckets
<1> PICK row \in [Buckets -> Nat] : row = count[j]
  OBVIOUS
<1> PICK more : more = [row EXCEPT ![i] = @ + 1]
  OBVIOUS
<1>1. more \in [Buckets -> Nat] /\ \A b \in Buckets : more[b] = IF b = i THEN row[b] + 1 ELSE row[b]
  OBVIOUS
<1>2. new = [count EXCEPT ![j] = more]
  BY DEF Once
<1>3. /\ new \in [Jobs -> [Buckets -> Nat]]
      /\ \A x \in Jobs : new[x] = IF x = j THEN more ELSE count[x]
  BY <1>1, <1>2
<1> QED
  BY <1>1, <1>3, AtPosition, Position

-----------------------------------------------------------------------------
(* Counting                                                                *)

LEMMA Fewer ==
  ASSUME NEW S, IsFiniteSet(S), NEW T, T \subseteq S
  PROVE  /\ IsFiniteSet(T) /\ Cardinality(T) \in Nat /\ Cardinality(S) \in Nat
         /\ Cardinality(T) <= Cardinality(S)
BY FS_Subset, FS_CardinalityType

LEMMA OneFewer ==
  ASSUME NEW S, IsFiniteSet(S), NEW c \in S, NEW T, T \subseteq S \ {c}
  PROVE  Cardinality(T) \in Nat /\ Cardinality(S) \in Nat /\ Cardinality(T) + 1 <= Cardinality(S)
<1> PICK R : R = S \ {c}
  OBVIOUS
<1>1. IsFiniteSet(R) /\ Cardinality(R) = Cardinality(S) - 1
  BY FS_RemoveElement
<1>2. Cardinality(T) \in Nat /\ Cardinality(T) <= Cardinality(R)
  BY <1>1, Fewer
<1>3. Cardinality(S) \in Nat
  BY FS_CardinalityType
<1> QED
  BY <1>1, <1>2, <1>3

LEMMA OneMore ==
  ASSUME NEW S, IsFiniteSet(S), NEW c, NEW T, T \subseteq S \cup {c}
  PROVE  /\ IsFiniteSet(T) /\ Cardinality(T) \in Nat /\ Cardinality(S) \in Nat
         /\ Cardinality(T) <= Cardinality(S) + 1
<1> PICK R : R = S \cup {c}
  OBVIOUS
<1>1. IsFiniteSet(R) /\ Cardinality(S) \in Nat
      /\ (Cardinality(R) = Cardinality(S) \/ Cardinality(R) = Cardinality(S) + 1)
  BY FS_AddElement, FS_CardinalityType
<1>2. IsFiniteSet(T) /\ Cardinality(T) \in Nat /\ Cardinality(T) <= Cardinality(R)
  BY <1>1, Fewer
<1> QED
  BY <1>1, <1>2

LEMMA Counted ==
  ASSUME Shape, NEW k, NEW b
  PROVE  /\ IsFiniteSet(Owing(k)) /\ IsFiniteSet(Unsettling(k, b))
         /\ Cardinality(Owing(k)) \in Nat /\ Cardinality(Unsettling(k, b)) \in Nat
         /\ faults \in Nat /\ Cardinality(Unsettling(k, b)) <= faults
<1>1. Owing(k) \subseteq overrun /\ Unsettling(k, b) \subseteq overrun
  BY DEF Owing, Unsettling
<1>2. IsFiniteSet(overrun) /\ Cardinality(overrun) <= faults /\ faults \in Nat
  BY BoundsAssumption DEF Shape, FewOverrun, TypeOK
<1>3. IsFiniteSet(Owing(k)) /\ Cardinality(Owing(k)) \in Nat
  BY <1>1, <1>2, Fewer
<1>4. /\ IsFiniteSet(Unsettling(k, b)) /\ Cardinality(Unsettling(k, b)) \in Nat
      /\ Cardinality(overrun) \in Nat /\ Cardinality(Unsettling(k, b)) <= Cardinality(overrun)
  BY <1>1, <1>2, Fewer
<1> QED
  BY <1>2, <1>3, <1>4

LEMMA Budget ==
  ASSUME NEW x \in Int, NEW m \in Int, x <= MaxAttempts * m, NEW y \in Int, NEW n \in Int,
         \/ m <= n /\ y <= x
         \/ m + 1 <= n /\ y <= x + MaxAttempts
         \/ 1 <= n /\ y <= MaxAttempts
  PROVE  y <= MaxAttempts * n
<1> PICK a \in Nat : a = MaxAttempts
  BY BoundsAssumption
<1>1. ASSUME NEW p \in Int, NEW q \in Int, p <= q PROVE a * p <= a * q
  <2> PICK d \in Nat : q = p + d
    BY <1>1
  <2>1. a * q = a * p + a * d /\ a * d \in Nat /\ a * p \in Int
    OBVIOUS
  <2> QED
    BY <2>1
<1>2. a * m \in Int /\ a * n \in Int /\ a * (m + 1) = a * m + a /\ a * 1 = a
  OBVIOUS
<1>3. CASE m <= n /\ y <= x
  <2>1. a * m <= a * n
    BY <1>1, <1>3
  <2> QED
    BY <1>2, <1>3, <2>1
<1>4. CASE m + 1 <= n /\ y <= x + MaxAttempts
  <2>1. a * (m + 1) <= a * n
    BY <1>1, <1>4
  <2> QED
    BY <1>2, <1>4, <2>1
<1>5. CASE 1 <= n /\ y <= MaxAttempts
  <2>1. a * 1 <= a * n
    BY <1>1, <1>5
  <2> QED
    BY <1>2, <1>5, <2>1
<1> QED
  BY <1>3, <1>4, <1>5

LEMMA AheadTyped ==
  ASSUME NEW stage, NEW marked, NEW open, NEW n \in Nat
  PROVE  /\ Ahead(stage, marked, open, n) \in Nat /\ Ahead(stage, marked, open, n) <= MaxAttempts
         /\ Tries(n) \in Nat /\ Tries(n) >= 1 /\ Tries(n) <= MaxAttempts
BY BoundsAssumption DEF Ahead, Tries

-----------------------------------------------------------------------------
(* What a step does to the account of one bucket                           *)

Claims(k, b) == Outcomes(k, b) + Chance(Stage(k, b), MarkedAt(k, b))

SettledStep(k, b) ==
  Claims(k, b)' + Cardinality(Owing(k))' + faults
    <= Claims(k, b) + Cardinality(Owing(k)) + faults'

RetriedStep(k, b) ==
  \/ Rounds(k, b) <= Rounds(k, b)' /\ Failures(k, b)' <= Failures(k, b)
  \/ Rounds(k, b) + 1 <= Rounds(k, b)' /\ Failures(k, b)' <= Failures(k, b) + MaxAttempts
  \/ Failures(k, b)' <= MaxAttempts

LEMMA ClaimsTyped ==
  ASSUME TypeOK, NEW k \in Positions, NEW b \in Buckets
  PROVE  /\ Outcomes(k, b) \in Nat /\ Claims(k, b) \in Nat
         /\ failures[JobOrder[k]][b] \in Nat /\ Failures(k, b) \in Nat
         /\ attempts[JobOrder[k]] \in Nat
<1> PICK j \in Jobs : j = JobOrder[k]
  BY Position
<1>1. ran[j][b] \in Nat /\ dead[j][b] \in Nat /\ failures[j][b] \in Nat /\ attempts[j] \in Nat
  BY DEF TypeOK
<1>2. Ahead(Stage(k, b), MarkedAt(k, b), Open(k, b), attempts[j]) \in Nat
  BY <1>1, AheadTyped
<1> QED
  BY <1>1, <1>2 DEF Outcomes, Claims, Failures, Chance

LEMMA ClaimsTypedNext ==
  ASSUME TypeOK', NEW k \in Positions, NEW b \in Buckets
  PROVE  /\ Outcomes(k, b)' \in Nat /\ Claims(k, b)' \in Nat
         /\ failures'[JobOrder[k]][b] \in Nat /\ Failures(k, b)' \in Nat
         /\ attempts'[JobOrder[k]] \in Nat
<1> PICK j \in Jobs : j = JobOrder[k]
  BY Position
<1>1. ran'[j][b] \in Nat /\ dead'[j][b] \in Nat /\ failures'[j][b] \in Nat /\ attempts'[j] \in Nat
  BY DEF TypeOK
<1>2. Ahead(Stage(k, b), MarkedAt(k, b), Open(k, b), attempts[j])' \in Nat
  BY <1>1, AheadTyped
<1> QED
  BY <1>1, <1>2 DEF Outcomes, Claims, Failures, Chance

LEMMA CountedNext ==
  ASSUME Shape', NEW k, NEW b
  PROVE  /\ IsFiniteSet(Owing(k)') /\ IsFiniteSet(Unsettling(k, b)')
         /\ Cardinality(Owing(k))' \in Nat /\ Cardinality(Unsettling(k, b))' \in Nat
         /\ faults' \in Nat /\ Cardinality(Unsettling(k, b))' <= faults'
<1>1. Owing(k)' \subseteq overrun' /\ Unsettling(k, b)' \subseteq overrun'
  BY DEF Owing, Unsettling
<1>2. IsFiniteSet(overrun') /\ Cardinality(overrun') <= faults' /\ faults' \in Nat
  BY BoundsAssumption DEF Shape, FewOverrun, TypeOK
<1>3. IsFiniteSet(Owing(k)') /\ Cardinality(Owing(k)') \in Nat
  BY <1>1, <1>2, Fewer
<1>4. /\ IsFiniteSet(Unsettling(k, b)') /\ Cardinality(Unsettling(k, b)') \in Nat
      /\ Cardinality(overrun') \in Nat /\ Cardinality(Unsettling(k, b)') <= Cardinality(overrun')
  BY <1>1, <1>2, Fewer
<1> QED
  BY <1>2, <1>3, <1>4

LEMMA AccountsKept ==
  ASSUME IInv, Shape',
         \A k \in Positions, b \in Buckets : SettledStep(k, b) /\ RetriedStep(k, b)
  PROVE  IInv'
<1> SUFFICES ASSUME NEW k \in Positions, NEW b \in Buckets PROVE Settled(k, b)' /\ Retried(k, b)'
  BY DEF IInv, Accounts
<1>1. Shape /\ TypeOK /\ TypeOK' /\ Settled(k, b) /\ Retried(k, b)
  BY DEF IInv, Accounts, Shape
<1>2. /\ Claims(k, b) \in Nat /\ Failures(k, b) \in Nat
      /\ Cardinality(Owing(k)) \in Nat /\ Cardinality(Unsettling(k, b)) \in Nat /\ faults \in Nat
  BY <1>1, ClaimsTyped, Counted
<1>3. /\ Claims(k, b)' \in Nat /\ Failures(k, b)' \in Nat
      /\ Cardinality(Owing(k))' \in Nat /\ Cardinality(Unsettling(k, b))' \in Nat
      /\ faults' \in Nat /\ Cardinality(Unsettling(k, b))' <= faults'
  BY <1>1, ClaimsTypedNext, CountedNext
<1>4. Settled(k, b)'
  <2>1. Claims(k, b) + Cardinality(Owing(k)) <= 1 + faults
    BY <1>1 DEF Settled, Claims
  <2>2. SettledStep(k, b)
    OBVIOUS
  <2>3. Claims(k, b)' + Cardinality(Owing(k))' <= 1 + faults'
    BY <1>2, <1>3, <2>1, <2>2 DEF SettledStep
  <2> QED
    BY <2>3 DEF Settled, Claims
<1>5. Retried(k, b)'
  <2>1. Rounds(k, b) \in Int /\ Rounds(k, b)' \in Int /\ 1 <= Rounds(k, b)'
    BY <1>2, <1>3 DEF Rounds
  <2>2. Failures(k, b) <= MaxAttempts * Rounds(k, b)
    BY <1>1 DEF Retried
  <2>3. RetriedStep(k, b)
    OBVIOUS
  <2>4. Failures(k, b)' <= MaxAttempts * Rounds(k, b)'
    BY <1>2, <1>3, <2>1, <2>2, <2>3, Budget DEF RetriedStep
  <2> QED
    BY <2>4 DEF Retried
<1> QED
  BY <1>4, <1>5

-----------------------------------------------------------------------------
(* A cycle goes on                                                         *)

Turning == {"read", "due", "run", "count", "bury"}
Trying  == {"read", "due", "run"}

Moves(c, step) ==
  /\ pc[c] \in Working /\ step \in Inside
  /\ pc' = [pc EXCEPT ![c] = step]
  /\ \/ /\ turn' = turn
        /\ step \in Turning => pc[c] \in Turning
        /\ step \in Trying => pc[c] \in Trying
     \/ /\ turn[c] < Len(JobOrder)
        /\ turn' = [turn EXCEPT ![c] = @ + 1]
        /\ step = "read"
  /\ UNCHANGED <<now, lock, at, overrun>>

LEMMA MovesEffect ==
  ASSUME TypeOK, NEW c \in Cycles, NEW step, Moves(c, step)
  PROVE  /\ pc' \in [Cycles -> Steps] /\ turn' \in [Cycles -> DOMAIN JobOrder]
         /\ \A d \in Cycles : pc'[d] = IF d = c THEN step ELSE pc[d]
         /\ \A d \in Cycles \ {c} : turn'[d] = turn[d]
         /\ turn'[c] = turn[c] \/ (turn'[c] = turn[c] + 1 /\ step = "read")
         /\ turn[c] \in Nat
<1>1. /\ pc' \in [Cycles -> Steps]
      /\ \A d \in Cycles : pc'[d] = IF d = c THEN step ELSE pc[d]
  BY DEF TypeOK, Moves, Inside
<1>2. DOMAIN JobOrder = 1 .. Len(JobOrder) /\ Len(JobOrder) \in Nat
  BY JobsAssumption
<1>3. turn[c] \in 1 .. Len(JobOrder)
  BY <1>2 DEF TypeOK
<1>6. turn[c] \in Nat
  BY <1>2, <1>3
<1>4. /\ turn' \in [Cycles -> DOMAIN JobOrder]
      /\ \A d \in Cycles \ {c} : turn'[d] = turn[d]
      /\ turn'[c] = turn[c] \/ (turn'[c] = turn[c] + 1 /\ step = "read")
  <2>1. CASE turn' = turn
    <3>1. turn' \in [Cycles -> DOMAIN JobOrder]
      BY <2>1 DEF TypeOK
    <3>2. \A d \in Cycles : turn'[d] = turn[d]
      BY <2>1
    <3> QED
      BY <3>1, <3>2
  <2>2. CASE turn[c] < Len(JobOrder) /\ turn' = [turn EXCEPT ![c] = @ + 1] /\ step = "read"
    <3>1. turn[c] + 1 \in DOMAIN JobOrder
      BY <1>2, <1>3, <2>2
    <3>2. turn' \in [Cycles -> DOMAIN JobOrder]
      BY <2>2, <3>1 DEF TypeOK
    <3>3. \A d \in Cycles : turn'[d] = IF d = c THEN turn[c] + 1 ELSE turn[d]
      BY <2>2 DEF TypeOK
    <3> QED
      BY <2>2, <3>2, <3>3
  <2> QED
    BY <2>1, <2>2 DEF Moves
<1> QED
  BY <1>1, <1>4, <1>6

LEMMA MovesExclusive ==
  ASSUME Shape, NEW c \in Cycles, NEW step, Moves(c, step)
  PROVE  Exclusive' /\ (c \notin overrun => lock = c)
<1>1. pc[c] \in Inside /\ step \in Inside /\ overrun' = overrun /\ lock' = lock
  BY DEF Moves, Working
<1>2. \A d \in Cycles : pc'[d] = IF d = c THEN step ELSE pc[d]
  BY MovesEffect DEF Shape
<1>3. overrun \subseteq Cycles
  BY DEF Shape, TypeOK
<1> QED
  BY <1>1, <1>2, <1>3 DEF Shape, Exclusive

(* Cycles without a lock only have less and less ahead of them.            *)
LEMMA MovesFewer ==
  ASSUME Shape, NEW c \in Cycles, NEW step, Moves(c, step), NEW k \in Positions, NEW b
  PROVE  /\ Owing(k)' \subseteq Owing(k) /\ Unsettling(k, b)' \subseteq Unsettling(k, b)
         /\ c \in overrun /\ turn[c] = k /\ pc[c] \in Turning /\ turn' = turn /\ step \notin Turning
              => c \in Owing(k) /\ c \notin Owing(k)'
         /\ c \in overrun /\ Here(c, k, b) /\ pc[c] \in Trying /\ turn' = turn /\ step \notin Trying
              => c \in Unsettling(k, b) /\ c \notin Unsettling(k, b)'
         /\ c \in overrun /\ turn[c] = k /\ ~Here(c, k, b) /\ (turn' # turn \/ step = "release")
              => c \in Unsettling(k, b) /\ c \notin Unsettling(k, b)'
<1>1. /\ \A d \in Cycles : pc'[d] = IF d = c THEN step ELSE pc[d]
      /\ \A d \in Cycles \ {c} : turn'[d] = turn[d]
      /\ turn'[c] = turn[c] \/ (turn'[c] = turn[c] + 1 /\ step = "read")
      /\ turn[c] \in Nat
  BY MovesEffect DEF Shape
<1>2. overrun \subseteq Cycles /\ overrun' = overrun /\ at' = at /\ pc[c] \in Working
  BY DEF Shape, TypeOK, Moves
<1>3. k \in Nat
  BY Position
<1>4. ASSUME turn'[c] = turn[c]
      PROVE  /\ turn' = turn
             /\ step \in Turning => pc[c] \in Turning
             /\ step \in Trying => pc[c] \in Trying
  <2>1. CASE turn' = turn
    BY <2>1, <1>1 DEF Moves, Shape, TypeOK
  <2>2. CASE turn' = [turn EXCEPT ![c] = @ + 1]
    <3>1. turn'[c] = turn[c] + 1
      BY <2>2 DEF Shape, TypeOK
    <3> QED
      BY <1>1, <1>4, <3>1
  <2> QED
    BY <2>1, <2>2 DEF Moves
<1>5. turn' # turn => turn'[c] = turn[c] + 1 /\ step = "read"
  BY <1>1, <1>4
<1>6. ASSUME NEW d \in Owing(k)' PROVE d \in Owing(k)
  BY <1>1, <1>2, <1>3, <1>4 DEF Owing, Working, Turning, Trying
<1>7. ASSUME NEW d \in Unsettling(k, b)' PROVE d \in Unsettling(k, b)
  BY <1>1, <1>2, <1>3, <1>4 DEF Unsettling, Working, Turning, Trying, Here
<1>8. c \in overrun /\ turn[c] = k /\ pc[c] \in Turning /\ turn' = turn /\ step \notin Turning
        => c \in Owing(k) /\ c \notin Owing(k)'
  BY <1>1, <1>2, <1>3 DEF Owing, Turning
<1>9. c \in overrun /\ Here(c, k, b) /\ pc[c] \in Trying /\ turn' = turn /\ step \notin Trying
        => c \in Unsettling(k, b) /\ c \notin Unsettling(k, b)'
  BY <1>1, <1>2, <1>3 DEF Unsettling, Trying, Here
<1>10. ASSUME c \in overrun, turn[c] = k, ~Here(c, k, b), turn' # turn \/ step = "release"
       PROVE  c \in Unsettling(k, b) /\ c \notin Unsettling(k, b)'
  BY <1>1, <1>2, <1>3, <1>5, <1>10 DEF Unsettling, Working
<1>11. Owing(k)' \subseteq Owing(k) /\ Unsettling(k, b)' \subseteq Unsettling(k, b)
  BY <1>6, <1>7
<1> QED
  BY <1>8, <1>9, <1>10, <1>11

(* Where the holder of the lock is seen to be.                             *)
LEMMA MovesStage ==
  ASSUME Shape, NEW c \in Cycles, NEW step, Moves(c, step), NEW k \in Positions, NEW b
  PROVE  /\ Open(k, b)' = Open(k, b)
         /\ c \in overrun => Stage(k, b)' = Stage(k, b)
         /\ c \notin overrun =>
              /\ Stage(k, b) = IF Here(c, k, b) THEN pc[c] ELSE "idle"
              /\ Here(c, k, b) /\ turn' = turn => Stage(k, b)' = step
              /\ ~(Here(c, k, b) /\ turn' = turn) => Stage(k, b)' \in {"idle", "read"}
              /\ Here(c, k, b) => Open(k, b)
<1>1. /\ \A d \in Cycles : pc'[d] = IF d = c THEN step ELSE pc[d]
      /\ \A d \in Cycles \ {c} : turn'[d] = turn[d]
      /\ turn'[c] = turn[c] \/ (turn'[c] = turn[c] + 1 /\ step = "read")
      /\ turn[c] \in Nat
  BY MovesEffect DEF Shape
<1>2. lock' = lock /\ at' = at /\ now' = now
  BY DEF Moves
<1>3. c \notin overrun => lock = c
  BY MovesExclusive
<1>4. c \in overrun => lock # c
  BY DEF Shape, Exclusive
<1>5. Open(k, b)' = Open(k, b)
  BY <1>2 DEF Open
<1>6. c \in overrun => Stage(k, b)' = Stage(k, b)
  BY <1>1, <1>2, <1>4 DEF Stage, Here
<1>7. c \notin overrun =>
        /\ Stage(k, b) = IF Here(c, k, b) THEN pc[c] ELSE "idle"
        /\ Here(c, k, b) => Open(k, b)
  BY <1>3 DEF Stage, Here, Open
<1>8. c \notin overrun /\ Here(c, k, b) /\ turn' = turn => Stage(k, b)' = step
  BY <1>1, <1>2, <1>3 DEF Stage, Here
<1>9. ASSUME c \notin overrun, ~(Here(c, k, b) /\ turn' = turn) PROVE Stage(k, b)' \in {"idle", "read"}
  <2>1. lock' = c /\ Stage(k, b)' = IF turn'[c] = k /\ Bucket(JobOrder[k], at[c]) = b THEN step ELSE "idle"
    BY <1>1, <1>2, <1>3, <1>9 DEF Stage, Here
  <2>2. CASE turn' = turn
    BY <1>9, <2>1, <2>2 DEF Here
  <2>3. CASE turn' # turn
    BY <2>1, <2>3 DEF Moves
  <2> QED
    BY <2>2, <2>3
<1> QED
  BY <1>5, <1>6, <1>7, <1>8, <1>9

(* What is counted then goes into the account.                             *)
LEMMA MovesAccount ==
  ASSUME Shape, Shape', NEW c \in Cycles, NEW step, Moves(c, step), faults' = faults,
         NEW k \in Positions, NEW b \in Buckets,
         \/ Claims(k, b)' <= Claims(k, b)
         \/ /\ Claims(k, b)' <= Claims(k, b) + 1
            /\ c \in overrun /\ turn[c] = k /\ pc[c] \in Turning
            /\ turn' = turn /\ step \notin Turning,
         \/ Failures(k, b)' <= Failures(k, b)
         \/ /\ Failures(k, b)' <= Failures(k, b) + 1
            /\ c \in overrun /\ Here(c, k, b) /\ pc[c] \in Trying
            /\ turn' = turn /\ step \notin Trying
         \/ Failures(k, b)' <= MaxAttempts
         \/ /\ Failures(k, b)' <= Failures(k, b) + MaxAttempts
            /\ c \in overrun /\ turn[c] = k /\ ~Here(c, k, b)
            /\ turn' # turn \/ step = "release"
  PROVE  SettledStep(k, b) /\ RetriedStep(k, b)
<1>1. /\ Claims(k, b) \in Nat /\ Claims(k, b)' \in Nat
      /\ Failures(k, b) \in Nat /\ Failures(k, b)' \in Nat
  BY ClaimsTyped, ClaimsTypedNext DEF Shape
<1>2. IsFiniteSet(Owing(k)) /\ IsFiniteSet(Unsettling(k, b)) /\ faults \in Nat
  BY Counted
<1>3. Owing(k)' \subseteq Owing(k) /\ Unsettling(k, b)' \subseteq Unsettling(k, b)
  BY MovesFewer
<1>4. /\ Cardinality(Owing(k)') \in Nat /\ Cardinality(Owing(k)) \in Nat
      /\ Cardinality(Owing(k)') <= Cardinality(Owing(k))
  BY <1>2, <1>3, Fewer
<1>5. /\ Cardinality(Unsettling(k, b)') \in Nat /\ Cardinality(Unsettling(k, b)) \in Nat
      /\ Cardinality(Unsettling(k, b)') <= Cardinality(Unsettling(k, b))
  BY <1>2, <1>3, Fewer
<1>6. SettledStep(k, b)
  <2>1. CASE Claims(k, b)' <= Claims(k, b)
    BY <1>1, <1>2, <1>4, <2>1 DEF SettledStep
  <2>2. CASE /\ Claims(k, b)' <= Claims(k, b) + 1
             /\ c \in overrun /\ turn[c] = k /\ pc[c] \in Turning
             /\ turn' = turn /\ step \notin Turning
    <3>1. c \in Owing(k) /\ c \notin Owing(k)'
      BY <2>2, MovesFewer
    <3>2. Owing(k)' \subseteq Owing(k) \ {c}
      BY <1>3, <3>1
    <3>3. Cardinality(Owing(k)') + 1 <= Cardinality(Owing(k))
      BY <1>2, <3>1, <3>2, OneFewer
    <3> QED
      BY <1>1, <1>2, <1>4, <2>2, <3>3 DEF SettledStep
  <2> QED
    BY <2>1, <2>2
<1>7. Rounds(k, b) \in Int /\ Rounds(k, b)' \in Int /\ Rounds(k, b) <= Rounds(k, b)'
  BY <1>2, <1>5 DEF Rounds
<1>8. ASSUME c \in Unsettling(k, b), c \notin Unsettling(k, b)'
      PROVE  Rounds(k, b) + 1 <= Rounds(k, b)'
  <2>1. Unsettling(k, b)' \subseteq Unsettling(k, b) \ {c}
    BY <1>3, <1>8
  <2>2. Cardinality(Unsettling(k, b)') + 1 <= Cardinality(Unsettling(k, b))
    BY <1>2, <1>8, <2>1, OneFewer
  <2> QED
    BY <1>2, <1>5, <2>2 DEF Rounds
<1>9. MaxAttempts \in Nat /\ MaxAttempts >= 1
  BY BoundsAssumption
<1>10. RetriedStep(k, b)
  <2>1. CASE Failures(k, b)' <= Failures(k, b)
    BY <1>7, <2>1 DEF RetriedStep
  <2>2. CASE Failures(k, b)' <= MaxAttempts
    BY <2>2 DEF RetriedStep
  <2>3. CASE /\ Failures(k, b)' <= Failures(k, b) + 1
             /\ c \in overrun /\ Here(c, k, b) /\ pc[c] \in Trying
             /\ turn' = turn /\ step \notin Trying
    <3>1. c \in Unsettling(k, b) /\ c \notin Unsettling(k, b)'
      BY <2>3, MovesFewer
    <3> QED
      BY <1>1, <1>8, <1>9, <2>3, <3>1 DEF RetriedStep
  <2>4. CASE /\ Failures(k, b)' <= Failures(k, b) + MaxAttempts
             /\ c \in overrun /\ turn[c] = k /\ ~Here(c, k, b)
             /\ turn' # turn \/ step = "release"
    <3>1. c \in Unsettling(k, b) /\ c \notin Unsettling(k, b)'
      BY <2>4, MovesFewer
    <3> QED
      BY <1>1, <1>8, <2>4, <3>1 DEF RetriedStep
  <2> QED
    BY <2>1, <2>2, <2>3, <2>4
<1> QED
  BY <1>6, <1>10

LEMMA MovesShape ==
  ASSUME Shape, TypeOK', NEW c \in Cycles, NEW step, Moves(c, step), step = "clear" => Marked(c)',
         faults' \in {faults, faults + 1}, failures' = failures,
         \A j \in Jobs : checkpoint[j] \subseteq checkpoint'[j] /\ failed[j] \subseteq failed'[j]
  PROVE  Shape'
<1>1. /\ \A d \in Cycles : pc'[d] = IF d = c THEN step ELSE pc[d]
      /\ \A d \in Cycles \ {c} : turn'[d] = turn[d]
  BY MovesEffect DEF Shape
<1>2. lock' = lock /\ at' = at /\ now' = now /\ overrun' = overrun
  BY DEF Moves
<1>3. Exclusive'
  BY MovesExclusive
<1>4. Clocks'
  BY <1>2 DEF Shape, Clocks
<1>5. Cleared'
  <2> SUFFICES ASSUME NEW d \in Cycles, pc'[d] = "clear" PROVE Marked(d)'
    BY DEF Cleared
  <2> SUFFICES ASSUME d # c PROVE Marked(d)'
    BY <1>1
  <2>1. pc[d] = "clear" /\ turn'[d] = turn[d]
    BY <1>1
  <2>2. Marks(JobOf(d), BucketOf(d)) /\ JobOf(d) \in Jobs
    BY <2>1, InBuckets DEF Shape, Cleared, Marked
  <2>3. JobOf(d)' = JobOf(d) /\ BucketOf(d)' = BucketOf(d)
    BY <1>2, <2>1 DEF JobOf, BucketOf
  <2> QED
    BY <2>2, <2>3 DEF Marks, Marked
<1>6. FewOverrun'
  <2>1. faults \in Nat /\ Cardinality(overrun) \in Nat
    BY BoundsAssumption, FS_CardinalityType DEF Shape, TypeOK, FewOverrun
  <2> QED
    BY <1>2, <2>1 DEF Shape, FewOverrun
<1> QED
  BY <1>3, <1>4, <1>5, <1>6 DEF Shape

(* Steps on which no cycle gains anything but by a fault.                  *)
LEMMA AccountByBounds ==
  ASSUME Shape, Shape', NEW k \in Positions, NEW b \in Buckets,
         Owing(k)' \subseteq Owing(k), Unsettling(k, b)' \subseteq Unsettling(k, b),
         \/ faults' \in {faults, faults + 1} /\ Claims(k, b)' <= Claims(k, b)
                                             /\ Failures(k, b)' <= Failures(k, b)
         \/ faults' = faults + 1 /\ Claims(k, b)' <= Claims(k, b) + 1
                                 /\ Failures(k, b)' <= Failures(k, b) + MaxAttempts
  PROVE  SettledStep(k, b) /\ RetriedStep(k, b)
<1>1. /\ Claims(k, b) \in Nat /\ Claims(k, b)' \in Nat
      /\ Failures(k, b) \in Nat /\ Failures(k, b)' \in Nat
  BY ClaimsTyped, ClaimsTypedNext DEF Shape
<1>2. IsFiniteSet(Owing(k)) /\ IsFiniteSet(Unsettling(k, b)) /\ faults \in Nat
  BY Counted
<1>3. /\ Cardinality(Owing(k)') \in Nat /\ Cardinality(Owing(k)) \in Nat
      /\ Cardinality(Owing(k)') <= Cardinality(Owing(k))
  BY <1>2, Fewer
<1>4. /\ Cardinality(Unsettling(k, b)') \in Nat /\ Cardinality(Unsettling(k, b)) \in Nat
      /\ Cardinality(Unsettling(k, b)') <= Cardinality(Unsettling(k, b))
  BY <1>2, Fewer
<1>5. CASE faults' \in {faults, faults + 1} /\ Claims(k, b)' <= Claims(k, b)
                                           /\ Failures(k, b)' <= Failures(k, b)
  <2>1. SettledStep(k, b)
    BY <1>1, <1>2, <1>3, <1>5 DEF SettledStep
  <2>2. Rounds(k, b) <= Rounds(k, b)'
    BY <1>2, <1>4, <1>5 DEF Rounds
  <2> QED
    BY <1>5, <2>1, <2>2 DEF RetriedStep
<1>6. CASE faults' = faults + 1 /\ Claims(k, b)' <= Claims(k, b) + 1
                               /\ Failures(k, b)' <= Failures(k, b) + MaxAttempts
  <2>1. SettledStep(k, b)
    BY <1>1, <1>2, <1>3, <1>6 DEF SettledStep
  <2>2. Rounds(k, b) + 1 <= Rounds(k, b)'
    BY <1>2, <1>4, <1>6 DEF Rounds
  <2> QED
    BY <1>6, <2>1, <2>2 DEF RetriedStep
<1> QED
  BY <1>5, <1>6

(* Whatever happens, there is one chance and MaxAttempts failures ahead.   *)
LEMMA FaultBounds ==
  ASSUME Shape, Shape', NEW k \in Positions, NEW b \in Buckets,
         UNCHANGED <<ran, dead, failures>>
  PROVE  /\ Claims(k, b)' <= Claims(k, b) + 1
         /\ Failures(k, b)' <= Failures(k, b) + MaxAttempts
<1>1. /\ Outcomes(k, b) \in Nat /\ failures[JobOrder[k]][b] \in Nat
      /\ attempts[JobOrder[k]] \in Nat /\ attempts'[JobOrder[k]] \in Nat
  BY ClaimsTyped, ClaimsTypedNext DEF Shape
<1>2. Outcomes(k, b)' = Outcomes(k, b) /\ failures'[JobOrder[k]][b] = failures[JobOrder[k]][b]
  BY DEF Outcomes
<1>3. /\ Ahead(Stage(k, b), MarkedAt(k, b), Open(k, b), attempts[JobOrder[k]]) \in Nat
      /\ Ahead(Stage(k, b), MarkedAt(k, b), Open(k, b), attempts[JobOrder[k]])' \in Nat
      /\ Ahead(Stage(k, b), MarkedAt(k, b), Open(k, b), attempts[JobOrder[k]])' <= MaxAttempts
  BY <1>1, AheadTyped
<1>4. /\ Chance(Stage(k, b), MarkedAt(k, b)) \in {0, 1}
      /\ Chance(Stage(k, b), MarkedAt(k, b))' \in {0, 1}
  BY DEF Chance
<1>5. MaxAttempts \in Nat
  BY BoundsAssumption
<1> QED
  BY <1>1, <1>2, <1>3, <1>4, <1>5 DEF Claims, Failures

(* A bucket in which the holder is, is open.                               *)
LEMMA StageOpen ==
  ASSUME NEW k, NEW b, Stage(k, b) # "idle"
  PROVE  Open(k, b)
BY DEF Stage, Open, Here

(* A mark leaves less to do, and so does a counted failure.                *)
LEMMA LessAhead ==
  ASSUME NEW stage, NEW marked \in BOOLEAN, NEW more \in BOOLEAN, marked => more,
         NEW open, stage # "idle" => open, NEW n \in Nat
  PROVE  /\ Chance(stage, more) <= Chance(stage, marked)
         /\ Ahead(stage, more, open, n) <= Ahead(stage, marked, open, n)
         /\ Ahead(stage, more, open, n + 1) <= Ahead(stage, more, open, n)
         /\ more => Ahead(stage, more, open, 0) <= Ahead(stage, marked, open, n)
BY BoundsAssumption DEF Chance, Ahead, Tries

(* ReadMarks, ReadRetry, Defer                                             *)
LEMMA PlainMoveKeeps ==
  ASSUME IInv, TypeOK', NEW c \in Cycles, NEW step, Moves(c, step),
         UNCHANGED <<checkpoint, failed, dead, attempts, ran, failures, faults>>,
         \/ pc[c] = "read" /\ step = "due" /\ turn' = turn /\ ~Marked(c)
         \/ pc[c] = "due" /\ step = "run" /\ turn' = turn
         \/ pc[c] \in {"read", "due"} /\ step = "read" /\ turn' # turn
         \/ pc[c] \in {"read", "due", "defer"} /\ step = "release" /\ turn' = turn
  PROVE  IInv'
<1>1. Shape
  BY DEF IInv
<1>2. Shape'
  BY <1>1, MovesShape
<1>3. ASSUME NEW k \in Positions, NEW b \in Buckets
      PROVE  Claims(k, b)' <= Claims(k, b) /\ Failures(k, b)' <= Failures(k, b)
  <2> PICK n \in Nat : n = attempts[JobOrder[k]]
    BY <1>1, ClaimsTyped DEF Shape
  <2> PICK m \in BOOLEAN : m = MarkedAt(k, b)
    <3>1. MarkedAt(k, b) \in BOOLEAN
      BY DEF MarkedAt, Marks
    <3> QED
      BY <3>1
  <2> PICK open \in BOOLEAN : open = Open(k, b)
    BY DEF Open
  <2> PICK old : old = Stage(k, b)
    OBVIOUS
  <2> PICK new : new = Stage(k, b)'
    OBVIOUS
  <2>1. /\ Outcomes(k, b)' = Outcomes(k, b) /\ failures'[JobOrder[k]][b] = failures[JobOrder[k]][b]
        /\ attempts'[JobOrder[k]] = n /\ MarkedAt(k, b)' = m
    BY DEF Outcomes, MarkedAt, Marks
  <2>2. /\ Open(k, b)' = open
        /\ c \in overrun => new = old
        /\ c \notin overrun =>
             /\ old = IF Here(c, k, b) THEN pc[c] ELSE "idle"
             /\ Here(c, k, b) /\ turn' = turn => new = step
             /\ ~(Here(c, k, b) /\ turn' = turn) => new \in {"idle", "read"}
             /\ Here(c, k, b) => open
    BY <1>1, MovesStage
  <2>3. Here(c, k, b) => (Marked(c) <=> m)
    BY <1>1, AtPosition DEF Shape, MarkedAt, Marked
  <2>4. Chance(new, m) <= Chance(old, m)
    BY <2>2, <2>3 DEF Chance
  <2>5. Ahead(new, m, open, n) <= Ahead(old, m, open, n)
    BY <2>2, <2>3, BoundsAssumption DEF Ahead, Tries
  <2>6. Outcomes(k, b) \in Nat /\ failures[JobOrder[k]][b] \in Nat
    BY <1>1, ClaimsTyped DEF Shape
  <2>7. Ahead(new, m, open, n) \in Nat /\ Ahead(old, m, open, n) \in Nat
    BY AheadTyped
  <2>8. Claims(k, b) = Outcomes(k, b) + Chance(old, m)
        /\ Claims(k, b)' = Outcomes(k, b) + Chance(new, m)
    BY <2>1 DEF Claims
  <2>9. Failures(k, b) = failures[JobOrder[k]][b] + Ahead(old, m, open, n)
        /\ Failures(k, b)' = failures[JobOrder[k]][b] + Ahead(new, m, open, n)
    BY <2>1, <2>2 DEF Failures
  <2>10. Chance(new, m) \in Nat /\ Chance(old, m) \in Nat
    BY DEF Chance
  <2> QED
    BY <2>4, <2>5, <2>6, <2>7, <2>8, <2>9, <2>10
<1>4. \A k \in Positions, b \in Buckets : SettledStep(k, b) /\ RetriedStep(k, b)
  BY <1>1, <1>2, <1>3, MovesAccount
<1> QED
  BY <1>2, <1>4, AccountsKept

LEMMA MarkTyped ==
  ASSUME NEW k, NEW b
  PROVE  /\ MarkedAt(k, b) \in BOOLEAN /\ MarkedAt(k, b)' \in BOOLEAN
         /\ Open(k, b) \in BOOLEAN /\ Open(k, b)' \in BOOLEAN
BY DEF MarkedAt, Marks, Open

(* The next job, or the end of the cycle.                                  *)
LEMMA Advances ==
  ASSUME TypeOK, NEW c \in Cycles, pc[c] \in Working, Advance(c), UNCHANGED <<now, lock, at, overrun>>
  PROVE  \/ Moves(c, "read") /\ turn' # turn
         \/ Moves(c, "release") /\ turn' = turn
<1>1. /\ "read" \in Inside /\ "release" \in Inside
      /\ "release" \notin Turning /\ "release" \notin Trying
  BY DEF Inside, Steps, Turning, Trying
<1>2. CASE turn[c] < Len(JobOrder)
  <2>1. turn' = [turn EXCEPT ![c] = @ + 1] /\ pc' = [pc EXCEPT ![c] = "read"]
    BY <1>2 DEF Advance, Goto
  <2>2. turn'[c] = turn[c] + 1 /\ turn[c] \in Nat
    BY <2>1, MovesEffect, InBuckets, Position DEF TypeOK
  <2> QED
    BY <1>1, <1>2, <2>1, <2>2 DEF Moves
<1>3. CASE ~(turn[c] < Len(JobOrder))
  <2>1. turn' = turn /\ pc' = [pc EXCEPT ![c] = "release"]
    BY <1>3 DEF Advance, Goto
  <2> QED
    BY <1>1, <2>1 DEF Moves
<1> QED
  BY <1>2, <1>3

LEMMA ReadMarksKeeps ==
  ASSUME IInv, TypeOK', NEW c \in Cycles, ReadMarks(c)
  PROVE  IInv'
<1>1. /\ pc[c] = "read" /\ "read" \in Working /\ "due" \in Inside
      /\ UNCHANGED <<now, lock, at, overrun>>
      /\ UNCHANGED <<checkpoint, failed, dead, attempts, ran, failures, faults>>
  BY DEF ReadMarks, marks, retries, history, Working, Inside, Steps
<1>2. CASE Marked(c) /\ Advance(c)
  <2>1. \/ Moves(c, "read") /\ turn' # turn
        \/ Moves(c, "release") /\ turn' = turn
    BY <1>1, <1>2, Advances DEF IInv, Shape
  <2> QED
    BY <1>1, <2>1, PlainMoveKeeps
<1>3. CASE ~Marked(c) /\ Goto(c, "due") /\ UNCHANGED turn
  <2>1. Moves(c, "due")
    BY <1>1, <1>3 DEF Moves, Goto, Turning, Trying
  <2> QED
    BY <1>1, <1>3, <2>1, PlainMoveKeeps
<1> QED
  BY <1>2, <1>3 DEF ReadMarks

LEMMA ReadRetryKeeps ==
  ASSUME IInv, TypeOK', NEW c \in Cycles, ReadRetry(c)
  PROVE  IInv'
<1>1. /\ pc[c] = "due" /\ "due" \in Working /\ "run" \in Inside
      /\ UNCHANGED <<now, lock, at, overrun>>
      /\ UNCHANGED <<checkpoint, failed, dead, attempts, ran, failures, faults>>
  BY DEF ReadRetry, marks, retries, history, Working, Inside, Steps
<1>2. CASE JobOf(c) \in waiting /\ Advance(c)
  <2>1. \/ Moves(c, "read") /\ turn' # turn
        \/ Moves(c, "release") /\ turn' = turn
    BY <1>1, <1>2, Advances DEF IInv, Shape
  <2> QED
    BY <1>1, <2>1, PlainMoveKeeps
<1>3. CASE JobOf(c) \notin waiting /\ Goto(c, "run") /\ UNCHANGED turn
  <2>1. Moves(c, "run")
    BY <1>1, <1>3 DEF Moves, Goto, Turning, Trying
  <2> QED
    BY <1>1, <1>3, <2>1, PlainMoveKeeps
<1> QED
  BY <1>2, <1>3 DEF ReadRetry

LEMMA DeferKeeps ==
  ASSUME IInv, TypeOK', NEW c \in Cycles, Defer(c)
  PROVE  IInv'
<1>1. /\ pc[c] = "defer" /\ "defer" \in Working /\ "release" \in Inside
      /\ UNCHANGED <<now, lock, at, turn, overrun>>
      /\ UNCHANGED <<checkpoint, failed, dead, attempts, ran, failures, faults>>
  BY DEF Defer, marks, retries, local, history, Working, Inside, Steps
<1>2. Moves(c, "release")
  BY <1>1 DEF Moves, Defer, Goto, Turning, Trying
<1> QED
  BY <1>1, <1>2, PlainMoveKeeps

(* The counter that is forgotten had counted no failure of a bucket that   *)
(* may still be worked on.                                                 *)
LEMMA Forgotten ==
  ASSUME Shape, NEW c \in Cycles, lock = c, NEW k \in Positions, turn[c] = k,
         NEW b \in Buckets, ~Here(c, k, b)
  PROVE  ~Open(k, b) \/ failures[JobOrder[k]][b] = 0
<1> PICK j \in Jobs : j = JobOrder[k]
  BY Position
<1>1. at[c] \in Nat /\ now \in Nat /\ at[c] <= now
  BY BoundsAssumption DEF Shape, TypeOK, Clocks
<1>2. /\ Bucket(j, at[c]) \in Nat /\ Bucket(j, now) \in Nat
      /\ Bucket(j, at[c]) <= Bucket(j, now)
  BY <1>1, BucketMonotone
<1>3. Bucket(j, at[c]) # b /\ b \in Nat
  BY BoundsAssumption DEF Here, Buckets
<1>4. failures[j][b] \in Nat
  BY DEF Shape, TypeOK
<1>5. failures[j][b] > 0 => b <= Bucket(j, at[c])
  BY DEF Shape, Clocks
<1> QED
  BY <1>2, <1>3, <1>4, <1>5 DEF Open

LEMMA SucceedKeeps ==
  ASSUME IInv, TypeOK', NEW c \in Cycles, Succeed(c)
  PROVE  IInv'
<1>1. /\ pc[c] = "run" /\ "run" \in Working /\ "mark" \in Inside
      /\ "run" \in Turning /\ "mark" \notin Turning /\ "mark" \notin Trying
      /\ UNCHANGED <<now, lock, at, turn, overrun>>
      /\ UNCHANGED <<checkpoint, failed, dead, attempts, failures, faults>>
  BY DEF Succeed, marks, retries, local, Working, Inside, Steps, Turning, Trying
<1>2. Moves(c, "mark")
  BY <1>1 DEF Moves, Succeed, Goto
<1>3. Shape
  BY DEF IInv
<1>4. Shape'
  BY <1>1, <1>2, <1>3, MovesShape
<1>5. \A k \in Positions, b \in Buckets :
        ran'[JobOrder[k]][b] =
          IF Here(c, k, b) THEN ran[JobOrder[k]][b] + 1 ELSE ran[JobOrder[k]][b]
  <2>1. ran \in [Jobs -> [Buckets -> Nat]] /\ ran' = Once(ran, c)
    BY <1>3 DEF Shape, TypeOK, Succeed
  <2> QED
    BY <1>3, <2>1, OnceMore DEF Shape
<1>6. ASSUME NEW k \in Positions, NEW b \in Buckets
      PROVE  SettledStep(k, b) /\ RetriedStep(k, b)
  <2> PICK n \in Nat : n = attempts[JobOrder[k]]
    BY <1>3, ClaimsTyped DEF Shape
  <2> PICK m \in BOOLEAN : m = MarkedAt(k, b)
    BY MarkTyped
  <2> PICK open \in BOOLEAN : open = Open(k, b)
    BY MarkTyped
  <2> PICK old : old = Stage(k, b)
    OBVIOUS
  <2> PICK new : new = Stage(k, b)'
    OBVIOUS
  <2> PICK o \in Nat : o = Outcomes(k, b)
    BY <1>3, ClaimsTyped DEF Shape
  <2> PICK f \in Nat : f = failures[JobOrder[k]][b]
    BY <1>3, ClaimsTyped DEF Shape
  <2>1. /\ failures'[JobOrder[k]][b] = f /\ attempts'[JobOrder[k]] = n /\ MarkedAt(k, b)' = m
        /\ dead'[JobOrder[k]][b] = dead[JobOrder[k]][b]
    BY <1>1 DEF MarkedAt, Marks
  <2>2. Outcomes(k, b)' = IF Here(c, k, b) THEN o + 1 ELSE o
    <3>1. JobOrder[k] \in Jobs
      BY Position
    <3>2. ran[JobOrder[k]][b] \in Nat /\ dead[JobOrder[k]][b] \in Nat
      BY <1>3, <3>1 DEF Shape, TypeOK
    <3> QED
      BY <1>5, <2>1, <3>2 DEF Outcomes
  <2>3. /\ Open(k, b)' = open
        /\ c \in overrun => new = old
        /\ c \notin overrun =>
             /\ old = IF Here(c, k, b) THEN "run" ELSE "idle"
             /\ Here(c, k, b) => new = "mark"
             /\ ~Here(c, k, b) => new \in {"idle", "read"}
    BY <1>1, <1>2, <1>3, MovesStage
  <2>4. /\ Claims(k, b) = o + Chance(old, m) /\ Claims(k, b)' = Outcomes(k, b)' + Chance(new, m)
        /\ Chance(old, m) \in Nat /\ Chance(new, m) \in Nat
    BY <2>1 DEF Claims, Chance
  <2>5. /\ Failures(k, b) = f + Ahead(old, m, open, n) /\ Failures(k, b)' = f + Ahead(new, m, open, n)
    BY <2>1, <2>3 DEF Failures
  <2>6. Ahead(old, m, open, n) \in Nat /\ Ahead(new, m, open, n) \in Nat
    BY AheadTyped
  <2>7. Failures(k, b)' <= Failures(k, b)
    <3>1. Ahead(new, m, open, n) <= Ahead(old, m, open, n)
      BY <2>3, <2>6, BoundsAssumption DEF Ahead
    <3> QED
      BY <2>5, <2>6, <3>1
  <2>8. CASE c \in overrun /\ Here(c, k, b)
    <3>1. Claims(k, b)' <= Claims(k, b) + 1
      BY <2>2, <2>3, <2>4, <2>8
    <3>2. turn[c] = k
      BY <2>8 DEF Here
    <3> QED
      BY <1>1, <1>2, <1>3, <1>4, <2>7, <2>8, <3>1, <3>2, MovesAccount
  <2>9. CASE ~(c \in overrun /\ Here(c, k, b))
    <3>1. Claims(k, b)' <= Claims(k, b)
      BY <2>2, <2>3, <2>4, <2>9 DEF Chance
    <3> QED
      BY <1>1, <1>2, <1>3, <1>4, <2>7, <3>1, MovesAccount
  <2> QED
    BY <2>8, <2>9
<1> QED
  BY <1>4, <1>6, AccountsKept

LEMMA FailShape ==
  ASSUME IInv, TypeOK', NEW c \in Cycles, pc[c] = "run", NEW step, Moves(c, step), step # "clear",
         UNCHANGED <<checkpoint, failed, faults>>,
         \A k \in Positions, b \in Buckets :
           ~Here(c, k, b) => failures'[JobOrder[k]][b] = failures[JobOrder[k]][b]
  PROVE  Shape'
<1>1. Shape
  BY DEF IInv
<1>2. lock' = lock /\ at' = at /\ now' = now /\ overrun' = overrun
  BY DEF Moves
<1>3. /\ \A d \in Cycles : pc'[d] = IF d = c THEN step ELSE pc[d]
      /\ \A d \in Cycles \ {c} : turn'[d] = turn[d]
  BY <1>1, MovesEffect DEF Shape
<1>4. Exclusive' /\ (c \notin overrun => lock = c)
  BY <1>1, MovesExclusive
<1>5. Cleared'
  <2> SUFFICES ASSUME NEW d \in Cycles, pc'[d] = "clear" PROVE Marked(d)'
    BY DEF Cleared
  <2>1. d # c /\ pc[d] = "clear" /\ turn'[d] = turn[d]
    BY <1>3
  <2>2. Marks(JobOf(d), BucketOf(d))
    BY <1>1, <2>1 DEF Shape, Cleared, Marked
  <2>3. JobOf(d)' = JobOf(d) /\ BucketOf(d)' = BucketOf(d)
    BY <1>2, <2>1 DEF JobOf, BucketOf
  <2> QED
    BY <2>2, <2>3 DEF Marks, Marked
<1>6. Clocks'
  <2>1. /\ \A d \in Cycles : at'[d] <= now'
        /\ lock' \in Cycles => \A d \in overrun' : at'[d] <= at'[lock']
    BY <1>1, <1>2 DEF Shape, Clocks
  <2>2. ASSUME NEW k \in Positions, NEW b \in Buckets, failures'[JobOrder[k]][b] > 0
        PROVE  /\ b <= Bucket(JobOrder[k], now)
               /\ lock \in Cycles => b <= Bucket(JobOrder[k], at[lock])
    <3>1. CASE Here(c, k, b)
      <4> PICK j \in Jobs : j = JobOrder[k]
        BY Position
      <4>1. b = Bucket(j, at[c])
        BY <3>1 DEF Here
      <4>2. now \in Nat /\ at[c] \in Nat /\ at[c] <= now
        BY <1>1, BoundsAssumption DEF Shape, TypeOK, Clocks
      <4>3. b <= Bucket(j, now)
        BY <4>1, <4>2, BucketMonotone
      <4>4. ASSUME lock \in Cycles PROVE b <= Bucket(j, at[lock])
        <5>1. at[lock] \in Nat /\ at[c] <= at[lock]
          BY <1>1, <1>4, <4>2, <4>4, BoundsAssumption DEF Shape, TypeOK, Clocks
        <5> QED
          BY <4>1, <4>2, <5>1, BucketMonotone
      <4> QED
        BY <4>3, <4>4
    <3>2. CASE ~Here(c, k, b)
      BY <1>1, <2>2, <3>2 DEF Shape, Clocks
    <3> QED
      BY <3>1, <3>2
  <2>3. \A k \in Positions, b \in Buckets : failures'[JobOrder[k]][b] > 0 =>
          /\ b <= Bucket(JobOrder[k], now')
          /\ lock' \in Cycles => b <= Bucket(JobOrder[k], at'[lock'])
    BY <1>2, <2>2
  <2> QED
    BY <2>1, <2>3 DEF Clocks
<1>7. FewOverrun'
  BY <1>1, <1>2 DEF Shape, FewOverrun
<1> QED
  BY <1>4, <1>5, <1>6, <1>7 DEF Shape

LEMMA FailKeeps ==
  ASSUME IInv, TypeOK', NEW c \in Cycles, NEW permanent, Fail(c, permanent)
  PROVE  IInv'
<1> PICK step : step = IF permanent THEN "bury" ELSE "count"
  OBVIOUS
<1>1. /\ pc[c] = "run" /\ "run" \in Working /\ step \in {"bury", "count"} /\ step \in Inside
      /\ "run" \in Turning /\ "run" \in Trying /\ step \notin Trying
      /\ UNCHANGED <<now, lock, at, turn, overrun>>
      /\ UNCHANGED <<checkpoint, failed, dead, attempts, ran, faults>>
  BY DEF Fail, marks, retries, local, Working, Inside, Steps, Turning, Trying
<1>2. Moves(c, step)
  BY <1>1 DEF Moves, Fail, Goto
<1>3. Shape
  BY DEF IInv
<1>4. \A k \in Positions, b \in Buckets :
        failures'[JobOrder[k]][b] =
          IF Here(c, k, b) THEN failures[JobOrder[k]][b] + 1 ELSE failures[JobOrder[k]][b]
  <2>1. failures \in [Jobs -> [Buckets -> Nat]] /\ failures' = Once(failures, c)
    BY <1>3 DEF Shape, TypeOK, Fail
  <2> QED
    BY <1>3, <2>1, OnceMore DEF Shape
<1>5. Shape'
  BY <1>1, <1>2, <1>4, FailShape
<1>6. ASSUME NEW k \in Positions, NEW b \in Buckets
      PROVE  SettledStep(k, b) /\ RetriedStep(k, b)
  <2> PICK n \in Nat : n = attempts[JobOrder[k]]
    BY <1>3, ClaimsTyped DEF Shape
  <2> PICK m \in BOOLEAN : m = MarkedAt(k, b)
    BY MarkTyped
  <2> PICK open \in BOOLEAN : open = Open(k, b)
    BY MarkTyped
  <2> PICK old : old = Stage(k, b)
    OBVIOUS
  <2> PICK new : new = Stage(k, b)'
    OBVIOUS
  <2> PICK o \in Nat : o = Outcomes(k, b)
    BY <1>3, ClaimsTyped DEF Shape
  <2> PICK f \in Nat : f = failures[JobOrder[k]][b]
    BY <1>3, ClaimsTyped DEF Shape
  <2>1. /\ Outcomes(k, b)' = o /\ attempts'[JobOrder[k]] = n /\ MarkedAt(k, b)' = m
    BY <1>1 DEF MarkedAt, Marks, Outcomes
  <2>2. failures'[JobOrder[k]][b] = IF Here(c, k, b) THEN f + 1 ELSE f
    BY <1>4
  <2>3. /\ Open(k, b)' = open
        /\ c \in overrun => new = old
        /\ c \notin overrun =>
             /\ old = IF Here(c, k, b) THEN "run" ELSE "idle"
             /\ Here(c, k, b) => new = step
             /\ ~Here(c, k, b) => new \in {"idle", "read"}
             /\ Here(c, k, b) => open
    BY <1>1, <1>2, <1>3, MovesStage
  <2>4. /\ Claims(k, b) = o + Chance(old, m) /\ Claims(k, b)' = o + Chance(new, m)
        /\ Chance(old, m) \in Nat /\ Chance(new, m) \in Nat
    BY <2>1 DEF Claims, Chance
  <2>5. /\ Failures(k, b) = f + Ahead(old, m, open, n)
        /\ Failures(k, b)' = failures'[JobOrder[k]][b] + Ahead(new, m, open, n)
    BY <2>1, <2>3 DEF Failures
  <2>6. Ahead(old, m, open, n) \in Nat /\ Ahead(new, m, open, n) \in Nat
    BY AheadTyped
  <2>7. Claims(k, b)' <= Claims(k, b)
    <3>1. Chance(new, m) <= Chance(old, m)
      BY <1>1, <2>3 DEF Chance
    <3> QED
      BY <2>4, <3>1
  <2>8. CASE c \in overrun /\ Here(c, k, b)
    <3>1. Failures(k, b)' <= Failures(k, b) + 1
      BY <2>2, <2>3, <2>5, <2>6, <2>8
    <3> QED
      BY <1>1, <1>2, <1>3, <1>5, <2>7, <2>8, <3>1, MovesAccount
  <2>9. CASE ~(c \in overrun /\ Here(c, k, b))
    <3>3. Failures(k, b)' <= Failures(k, b)
      <4>1. CASE Here(c, k, b)
        <5>1. old = "run" /\ new \in {"bury", "count"} /\ open
          BY <1>1, <2>3, <2>9, <4>1
        <5>2. Ahead(new, m, open, n) + 1 <= Ahead(old, m, open, n)
          BY <5>1, BoundsAssumption DEF Ahead, Tries
        <5> QED
          BY <2>2, <2>5, <2>6, <4>1, <5>2
      <4>2. CASE ~Here(c, k, b)
        <5>1. Ahead(new, m, open, n) <= Ahead(old, m, open, n)
          BY <2>3, <2>6, <4>2, BoundsAssumption DEF Ahead
        <5> QED
          BY <2>2, <2>5, <2>6, <4>2, <5>1
      <4> QED
        BY <4>1, <4>2
    <3> QED
      BY <1>1, <1>2, <1>3, <1>5, <2>7, <3>3, MovesAccount
  <2> QED
    BY <2>8, <2>9
<1> QED
  BY <1>5, <1>6, AccountsKept

(* What a step does to the counter of a job.                               *)
Counter(c, n) == [attempts EXCEPT ![JobOf(c)] = n]

LEMMA CounterSet ==
  ASSUME TypeOK, NEW c \in Cycles, NEW n, attempts' = Counter(c, n)
  PROVE  \A k \in Positions :
           attempts'[JobOrder[k]] = IF turn[c] = k THEN n ELSE attempts[JobOrder[k]]
<1> SUFFICES ASSUME NEW k \in Positions
             PROVE  attempts'[JobOrder[k]] = IF turn[c] = k THEN n ELSE attempts[JobOrder[k]]
  OBVIOUS
<1>1. turn[c] \in Positions /\ JobOf(c) = JobOrder[turn[c]]
  BY InBuckets DEF JobOf
<1>2. JobOrder[k] \in Jobs /\ (JobOrder[k] = JobOf(c) <=> turn[c] = k)
  BY <1>1, Position
<1> QED
  BY <1>2 DEF TypeOK, Counter

LEMMA CountFailureKeeps ==
  ASSUME IInv, TypeOK', NEW c \in Cycles, CountFailure(c)
  PROVE  IInv'
<1> PICK step : step = IF Spent(attempts[JobOf(c)] + 1) THEN "bury" ELSE "defer"
  OBVIOUS
<1>1. /\ pc[c] = "count" /\ "count" \in Working /\ step \in {"bury", "defer"} /\ step \in Inside
      /\ "count" \in Turning /\ step \notin Trying
      /\ UNCHANGED <<now, lock, at, turn, overrun>>
      /\ UNCHANGED <<checkpoint, failed, dead, ran, failures, faults>>
  BY DEF CountFailure, marks, local, history, Working, Inside, Steps, Turning, Trying
<1>2. Moves(c, step)
  BY <1>1 DEF Moves, CountFailure, Goto
<1>3. Shape
  BY DEF IInv
<1>4. Shape'
  BY <1>1, <1>2, <1>3, MovesShape
<1>7. \A k \in Positions :
        attempts'[JobOrder[k]] =
          IF turn[c] = k THEN attempts[JobOf(c)] + 1 ELSE attempts[JobOrder[k]]
  <2>1. attempts' = Counter(c, attempts[JobOf(c)] + 1)
    BY DEF CountFailure, Counter
  <2> QED
    BY <1>3, <2>1, CounterSet DEF Shape
<1>5. ASSUME NEW k \in Positions, NEW b \in Buckets
      PROVE  Claims(k, b)' <= Claims(k, b) /\ Failures(k, b)' <= Failures(k, b)
  <2> PICK n \in Nat : n = attempts[JobOrder[k]]
    BY <1>3, ClaimsTyped DEF Shape
  <2> PICK more : more = attempts'[JobOrder[k]]
    OBVIOUS
  <2> PICK m \in BOOLEAN : m = MarkedAt(k, b)
    BY MarkTyped
  <2> PICK open \in BOOLEAN : open = Open(k, b)
    BY MarkTyped
  <2> PICK old : old = Stage(k, b)
    OBVIOUS
  <2> PICK new : new = Stage(k, b)'
    OBVIOUS
  <2> PICK o \in Nat : o = Outcomes(k, b)
    BY <1>3, ClaimsTyped DEF Shape
  <2> PICK f \in Nat : f = failures[JobOrder[k]][b]
    BY <1>3, ClaimsTyped DEF Shape
  <2>1. Outcomes(k, b)' = o /\ failures'[JobOrder[k]][b] = f /\ MarkedAt(k, b)' = m
    BY <1>1 DEF MarkedAt, Marks, Outcomes
  <2>2. /\ more = IF turn[c] = k THEN n + 1 ELSE n
        /\ turn[c] = k => (step = "bury" <=> n + 1 >= MaxAttempts)
    <3>1. turn[c] = k => JobOf(c) = JobOrder[k]
      BY DEF JobOf
    <3> QED
      BY <1>7, <3>1 DEF Spent
  <2>3. /\ Open(k, b)' = open
        /\ c \in overrun => new = old
        /\ c \notin overrun =>
             /\ old = IF Here(c, k, b) THEN "count" ELSE "idle"
             /\ Here(c, k, b) => new = step
             /\ ~Here(c, k, b) => new \in {"idle", "read"}
             /\ Here(c, k, b) => open
    BY <1>1, <1>2, <1>3, MovesStage
  <2>4. /\ Claims(k, b) = o + Chance(old, m) /\ Claims(k, b)' = o + Chance(new, m)
        /\ Chance(old, m) \in Nat /\ Chance(new, m) \in Nat
    BY <2>1 DEF Claims, Chance
  <2>5. /\ Failures(k, b) = f + Ahead(old, m, open, n)
        /\ Failures(k, b)' = f + Ahead(new, m, open, more)
    BY <2>1, <2>3 DEF Failures
  <2>6. /\ more \in Nat
        /\ Ahead(old, m, open, n) \in Nat /\ Ahead(new, m, open, more) \in Nat
    BY <2>2, AheadTyped
  <2>7. Chance(new, m) <= Chance(old, m)
    BY <1>1, <2>3 DEF Chance
  <2>8. Ahead(new, m, open, more) <= Ahead(old, m, open, n)
    <3>1. CASE c \in overrun
      <4>1. new = old /\ (old # "idle" => open)
        BY <2>3, <3>1, StageOpen
      <4>2. Ahead(old, m, open, n + 1) <= Ahead(old, m, open, n)
        BY <4>1, LessAhead
      <4> QED
        BY <2>2, <2>6, <4>1, <4>2
    <3>2. CASE c \notin overrun /\ Here(c, k, b)
      <4>1. turn[c] = k
        BY <3>2 DEF Here
      <4>2. /\ old = "count" /\ new = step /\ open /\ more = n + 1
            /\ step = "bury" <=> n + 1 >= MaxAttempts
        BY <2>2, <2>3, <3>2, <4>1
      <4> QED
        BY <1>1, <4>2, BoundsAssumption DEF Ahead, Tries
    <3>3. CASE c \notin overrun /\ ~Here(c, k, b)
      <4>1. old = "idle" /\ new \in {"idle", "read"}
        BY <2>3, <3>3
      <4> QED
        BY <2>2, <4>1, BoundsAssumption DEF Ahead, Tries
    <3> QED
      BY <3>1, <3>2, <3>3
  <2> QED
    BY <2>4, <2>5, <2>6, <2>7, <2>8
<1>6. \A k \in Positions, b \in Buckets : SettledStep(k, b) /\ RetriedStep(k, b)
  BY <1>1, <1>2, <1>3, <1>4, <1>5, MovesAccount
<1> QED
  BY <1>4, <1>6, AccountsKept

LEMMA WriteCheckpointKeeps ==
  ASSUME IInv, TypeOK', NEW c \in Cycles, WriteCheckpoint(c)
  PROVE  IInv'
<1>1. /\ pc[c] = "mark" /\ "mark" \in Working /\ "clear" \in Inside
      /\ "clear" \notin Turning /\ "clear" \notin Trying
      /\ UNCHANGED <<now, lock, at, turn, overrun>>
      /\ UNCHANGED <<failed, dead, attempts, ran, failures, faults>>
  BY DEF WriteCheckpoint, retries, local, history, Working, Inside, Steps, Turning, Trying
<1>2. Moves(c, "clear")
  BY <1>1 DEF Moves, WriteCheckpoint, Goto
<1>3. Shape /\ TypeOK
  BY DEF IInv, Shape
<1>4. JobOf(c) \in Jobs /\ JobOf(c)' = JobOf(c) /\ BucketOf(c)' = BucketOf(c)
  BY <1>1, <1>3, InBuckets DEF JobOf, BucketOf
<1>5. \A j \in Jobs : checkpoint'[j] =
        IF j = JobOf(c) THEN checkpoint[j] \cup {BucketOf(c)} ELSE checkpoint[j]
  BY <1>3 DEF WriteCheckpoint, TypeOK
<1>6. Marked(c)'
  BY <1>4, <1>5 DEF Marked, Marks
<1>7. Shape'
  BY <1>1, <1>2, <1>3, <1>5, <1>6, MovesShape
<1>8. ASSUME NEW k \in Positions, NEW b \in Buckets
      PROVE  Claims(k, b)' <= Claims(k, b) /\ Failures(k, b)' <= Failures(k, b)
  <2> PICK n \in Nat : n = attempts[JobOrder[k]]
    BY <1>3, ClaimsTyped DEF Shape
  <2> PICK m \in BOOLEAN : m = MarkedAt(k, b)
    BY MarkTyped
  <2> PICK more \in BOOLEAN : more = MarkedAt(k, b)'
    BY MarkTyped
  <2> PICK open \in BOOLEAN : open = Open(k, b)
    BY MarkTyped
  <2> PICK old : old = Stage(k, b)
    OBVIOUS
  <2> PICK new : new = Stage(k, b)'
    OBVIOUS
  <2> PICK o \in Nat : o = Outcomes(k, b)
    BY <1>3, ClaimsTyped DEF Shape
  <2> PICK f \in Nat : f = failures[JobOrder[k]][b]
    BY <1>3, ClaimsTyped DEF Shape
  <2>1. Outcomes(k, b)' = o /\ failures'[JobOrder[k]][b] = f /\ attempts'[JobOrder[k]] = n
    BY <1>1 DEF Outcomes
  <2>2. more <=> m \/ Here(c, k, b)
    <3>1. JobOrder[k] \in Jobs /\ (Here(c, k, b) <=> JobOrder[k] = JobOf(c) /\ b = BucketOf(c))
      BY <1>3, AtPosition, Position
    <3>2. MarkedAt(k, b)' <=> b \in checkpoint'[JobOrder[k]] \/ b \in failed[JobOrder[k]]
      BY <1>1 DEF MarkedAt, Marks
    <3>3. m <=> b \in checkpoint[JobOrder[k]] \/ b \in failed[JobOrder[k]]
      BY DEF MarkedAt, Marks
    <3> QED
      BY <1>5, <3>1, <3>2, <3>3
  <2>3. /\ Open(k, b)' = open
        /\ c \in overrun => new = old
        /\ c \notin overrun =>
             /\ old = IF Here(c, k, b) THEN "mark" ELSE "idle"
             /\ Here(c, k, b) => new = "clear"
             /\ ~Here(c, k, b) => new \in {"idle", "read"}
    BY <1>1, <1>2, <1>3, MovesStage
  <2>4. /\ Claims(k, b) = o + Chance(old, m) /\ Claims(k, b)' = o + Chance(new, more)
        /\ Chance(old, m) \in Nat /\ Chance(new, more) \in Nat
    BY <2>1 DEF Claims, Chance
  <2>5. /\ Failures(k, b) = f + Ahead(old, m, open, n)
        /\ Failures(k, b)' = f + Ahead(new, more, open, n)
    BY <2>1, <2>3 DEF Failures
  <2>6. Ahead(old, m, open, n) \in Nat /\ Ahead(new, more, open, n) \in Nat
    BY AheadTyped
  <2>7. Chance(new, more) <= Chance(old, m) /\ Ahead(new, more, open, n) <= Ahead(old, m, open, n)
    <3>1. CASE c \in overrun
      <4>1. new = old /\ (old # "idle" => open)
        BY <2>3, <3>1, StageOpen
      <4> QED
        BY <2>2, <4>1, LessAhead
    <3>2. CASE c \notin overrun /\ Here(c, k, b)
      <4>1. new = "clear" /\ more
        BY <2>2, <2>3, <3>2
      <4> QED
        BY <2>4, <2>6, <4>1 DEF Chance, Ahead
    <3>3. CASE c \notin overrun /\ ~Here(c, k, b)
      <4>1. old = "idle" /\ new \in {"idle", "read"} /\ more = m
        BY <2>2, <2>3, <3>3
      <4> QED
        BY <2>4, <2>6, <4>1 DEF Chance, Ahead
    <3> QED
      BY <3>1, <3>2, <3>3
  <2> QED
    BY <2>4, <2>5, <2>6, <2>7
<1>9. \A k \in Positions, b \in Buckets : SettledStep(k, b) /\ RetriedStep(k, b)
  BY <1>1, <1>2, <1>3, <1>7, <1>8, MovesAccount
<1> QED
  BY <1>7, <1>9, AccountsKept

LEMMA ClearRetriesKeeps ==
  ASSUME IInv, TypeOK', NEW c \in Cycles, ClearRetries(c)
  PROVE  IInv'
<1>1. /\ pc[c] = "clear" /\ "clear" \in Working
      /\ UNCHANGED <<now, lock, at, overrun>>
      /\ UNCHANGED <<checkpoint, failed, dead, ran, failures, faults>>
  BY DEF ClearRetries, marks, history, Working, Inside, Steps
<1>2. Shape /\ TypeOK
  BY DEF IInv, Shape
<1> PICK step : /\ step \in {"read", "release"} /\ Moves(c, step)
                /\ turn' # turn \/ (step = "release" /\ turn' = turn)
  <2>1. \/ Moves(c, "read") /\ turn' # turn
        \/ Moves(c, "release") /\ turn' = turn
    BY <1>1, <1>2, Advances DEF ClearRetries
  <2> QED
    BY <2>1
<1>3. Shape'
  BY <1>1, <1>2, MovesShape
<1>4. \A k \in Positions :
        attempts'[JobOrder[k]] = IF turn[c] = k THEN 0 ELSE attempts[JobOrder[k]]
  <2>1. attempts' = Counter(c, 0)
    BY DEF ClearRetries, Counter
  <2> QED
    BY <1>2, <2>1, CounterSet
<1>5. Marked(c)
  BY <1>1, <1>2 DEF Shape, Cleared
<1>6. ASSUME NEW k \in Positions, NEW b \in Buckets
      PROVE  SettledStep(k, b) /\ RetriedStep(k, b)
  <2> PICK n \in Nat : n = attempts[JobOrder[k]]
    BY <1>2, ClaimsTyped
  <2> PICK less : less = attempts'[JobOrder[k]]
    OBVIOUS
  <2> PICK m \in BOOLEAN : m = MarkedAt(k, b)
    BY MarkTyped
  <2> PICK open \in BOOLEAN : open = Open(k, b)
    BY MarkTyped
  <2> PICK old : old = Stage(k, b)
    OBVIOUS
  <2> PICK new : new = Stage(k, b)'
    OBVIOUS
  <2> PICK o \in Nat : o = Outcomes(k, b)
    BY <1>2, ClaimsTyped
  <2> PICK f \in Nat : f = failures[JobOrder[k]][b]
    BY <1>2, ClaimsTyped
  <2>1. Outcomes(k, b)' = o /\ failures'[JobOrder[k]][b] = f /\ MarkedAt(k, b)' = m
    BY <1>1 DEF Outcomes, MarkedAt, Marks
  <2>2. less = IF turn[c] = k THEN 0 ELSE n
    BY <1>4
  <2>3. /\ Open(k, b)' = open
        /\ c \in overrun => new = old
        /\ c \notin overrun =>
             /\ old = IF Here(c, k, b) THEN "clear" ELSE "idle"
             /\ Here(c, k, b) /\ turn' = turn => new = step
             /\ ~(Here(c, k, b) /\ turn' = turn) => new \in {"idle", "read"}
    BY <1>1, <1>2, MovesStage
  <2>4. new = old \/ {new, old} \subseteq {"idle", "read", "clear", "release"}
    BY <2>3
  <2>5. Here(c, k, b) => m /\ turn[c] = k
    BY <1>2, <1>5, AtPosition DEF MarkedAt, Marked, Here
  <2>6. /\ Claims(k, b) = o + Chance(old, m) /\ Claims(k, b)' = o + Chance(new, m)
        /\ Chance(old, m) \in Nat /\ Chance(new, m) \in Nat
    BY <2>1 DEF Claims, Chance
  <2>7. /\ Failures(k, b) = f + Ahead(old, m, open, n)
        /\ Failures(k, b)' = f + Ahead(new, m, open, less)
    BY <2>1, <2>3 DEF Failures
  <2>8. /\ Ahead(old, m, open, n) \in Nat
        /\ Ahead(new, m, open, less) \in Nat /\ Ahead(new, m, open, less) <= MaxAttempts
    <3>1. less \in Nat
      BY <2>2
    <3> QED
      BY <3>1, AheadTyped
  <2>9. Claims(k, b)' <= Claims(k, b)
    <3>1. Chance(new, m) = Chance(old, m)
      BY <2>4 DEF Chance
    <3> QED
      BY <2>6, <3>1
  <2>10. CASE turn[c] # k \/ Here(c, k, b)
    <3>1. Ahead(new, m, open, less) <= Ahead(old, m, open, n)
      <4>1. CASE turn[c] # k
        <5>1. less = n
          BY <2>2, <4>1
        <5>2. Ahead(new, m, open, n) = Ahead(old, m, open, n)
          BY <2>4 DEF Ahead
        <5> QED
          BY <2>8, <5>1, <5>2
      <4>2. CASE Here(c, k, b)
        <5>1. less = 0 /\ m
          BY <2>2, <2>5, <4>2
        <5>2. old # "idle" => open
          BY StageOpen
        <5>3. Ahead(old, m, open, 0) <= Ahead(old, m, open, n)
          BY <5>1, <5>2, LessAhead
        <5>4. Ahead(new, m, open, 0) = Ahead(old, m, open, 0)
          BY <2>4 DEF Ahead
        <5> QED
          BY <5>1, <5>3, <5>4
      <4> QED
        BY <2>10, <4>1, <4>2
    <3>2. Failures(k, b)' <= Failures(k, b)
      BY <2>7, <2>8, <3>1
    <3> QED
      BY <1>1, <1>2, <1>3, <2>9, <3>2, MovesAccount
  <2>11. CASE turn[c] = k /\ ~Here(c, k, b) /\ c \in overrun
    <3>1. Failures(k, b)' <= Failures(k, b) + MaxAttempts
      BY <2>7, <2>8, BoundsAssumption
    <3> QED
      BY <1>1, <1>2, <1>3, <2>9, <2>11, <3>1, MovesAccount
  <2>12. CASE turn[c] = k /\ ~Here(c, k, b) /\ c \notin overrun
    <3>1. lock = c
      BY <1>2, MovesExclusive, <2>12
    <3>2. ~open \/ f = 0
      BY <1>2, <2>12, <3>1, Forgotten
    <3>3. new \in {"idle", "read"} /\ old = "idle"
      BY <2>3, <2>12
    <3>4. ~open => Ahead(new, m, open, less) = 0
      BY <3>3 DEF Ahead
    <3>5. Failures(k, b)' <= Failures(k, b) \/ Failures(k, b)' <= MaxAttempts
      BY <2>7, <2>8, <3>2, <3>4
    <3> QED
      BY <1>1, <1>2, <1>3, <2>9, <3>5, MovesAccount
  <2> QED
    BY <2>10, <2>11, <2>12
<1> QED
  BY <1>3, <1>6, AccountsKept

LEMMA BuryKeeps ==
  ASSUME IInv, TypeOK', NEW c \in Cycles, Bury(c)
  PROVE  IInv'
<1>1. /\ pc[c] = "bury" /\ "bury" \in Working /\ "release" \in Inside
      /\ "bury" \in Turning /\ "release" \notin Turning /\ "release" \notin Trying
      /\ UNCHANGED <<now, lock, at, turn, overrun>>
      /\ UNCHANGED <<checkpoint, ran, failures, faults>>
  BY DEF Bury, local, history, Working, Inside, Steps, Turning, Trying
<1>2. Moves(c, "release")
  BY <1>1 DEF Moves, Bury, Goto
<1>3. Shape /\ TypeOK
  BY DEF IInv, Shape
<1>4. \A j \in Jobs : failed'[j] =
        IF j = JobOf(c) THEN failed[j] \cup {BucketOf(c)} ELSE failed[j]
  BY <1>3 DEF Bury, TypeOK
<1>5. Shape'
  BY <1>1, <1>2, <1>3, <1>4, MovesShape
<1>6. \A k \in Positions, b \in Buckets :
        dead'[JobOrder[k]][b] =
          IF Here(c, k, b) THEN dead[JobOrder[k]][b] + 1 ELSE dead[JobOrder[k]][b]
  <2>1. dead \in [Jobs -> [Buckets -> Nat]] /\ dead' = Once(dead, c)
    BY <1>3 DEF TypeOK, Bury
  <2> QED
    BY <1>3, <2>1, OnceMore
<1>7. \A k \in Positions :
        attempts'[JobOrder[k]] = IF turn[c] = k THEN 0 ELSE attempts[JobOrder[k]]
  <2>1. attempts' = Counter(c, 0)
    BY DEF Bury, Counter
  <2> QED
    BY <1>3, <2>1, CounterSet
<1>8. ASSUME NEW k \in Positions, NEW b \in Buckets
      PROVE  SettledStep(k, b) /\ RetriedStep(k, b)
  <2> PICK n \in Nat : n = attempts[JobOrder[k]]
    BY <1>3, ClaimsTyped
  <2> PICK less : less = attempts'[JobOrder[k]]
    OBVIOUS
  <2> PICK m \in BOOLEAN : m = MarkedAt(k, b)
    BY MarkTyped
  <2> PICK more \in BOOLEAN : more = MarkedAt(k, b)'
    BY MarkTyped
  <2> PICK open \in BOOLEAN : open = Open(k, b)
    BY MarkTyped
  <2> PICK old : old = Stage(k, b)
    OBVIOUS
  <2> PICK new : new = Stage(k, b)'
    OBVIOUS
  <2> PICK o \in Nat : o = Outcomes(k, b)
    BY <1>3, ClaimsTyped
  <2> PICK f \in Nat : f = failures[JobOrder[k]][b]
    BY <1>3, ClaimsTyped
  <2>1. failures'[JobOrder[k]][b] = f
    BY <1>1
  <2>2. Outcomes(k, b)' = IF Here(c, k, b) THEN o + 1 ELSE o
    <3>1. JobOrder[k] \in Jobs
      BY Position
    <3>2. ran[JobOrder[k]][b] \in Nat /\ dead[JobOrder[k]][b] \in Nat
      BY <1>3, <3>1 DEF TypeOK
    <3> QED
      BY <1>1, <1>6, <3>2 DEF Outcomes
  <2>3. more <=> m \/ Here(c, k, b)
    <3>1. JobOrder[k] \in Jobs /\ (Here(c, k, b) <=> JobOrder[k] = JobOf(c) /\ b = BucketOf(c))
      BY <1>3, AtPosition, Position
    <3>2. MarkedAt(k, b)' <=> b \in checkpoint[JobOrder[k]] \/ b \in failed'[JobOrder[k]]
      BY <1>1 DEF MarkedAt, Marks
    <3>3. m <=> b \in checkpoint[JobOrder[k]] \/ b \in failed[JobOrder[k]]
      BY DEF MarkedAt, Marks
    <3> QED
      BY <1>4, <3>1, <3>2, <3>3
  <2>4. less = IF turn[c] = k THEN 0 ELSE n
    BY <1>7
  <2>5. /\ Open(k, b)' = open
        /\ c \in overrun => new = old
        /\ c \notin overrun =>
             /\ old = IF Here(c, k, b) THEN "bury" ELSE "idle"
             /\ Here(c, k, b) => new = "release"
             /\ ~Here(c, k, b) => new \in {"idle", "read"}
    BY <1>1, <1>2, <1>3, MovesStage
  <2>6. old # "idle" => open
    BY StageOpen
  <2> PICK x \in Nat : x = Chance(old, m)
    BY DEF Chance
  <2> PICK y \in Nat : y = Chance(new, more)
    BY DEF Chance
  <2>7. Claims(k, b) = o + x /\ Claims(k, b)' = Outcomes(k, b)' + y
    BY DEF Claims
  <2>8. /\ Failures(k, b) = f + Ahead(old, m, open, n)
        /\ Failures(k, b)' = f + Ahead(new, more, open, less)
    BY <2>1, <2>5 DEF Failures
  <2>9. /\ Ahead(old, m, open, n) \in Nat
        /\ Ahead(new, more, open, less) \in Nat /\ Ahead(new, more, open, less) <= MaxAttempts
    <3>1. less \in Nat
      BY <2>4
    <3> QED
      BY <3>1, AheadTyped
  <2>10. CASE Here(c, k, b)
    <3>1. more /\ less = 0 /\ turn[c] = k
      BY <2>3, <2>4, <2>10 DEF Here
    <3>4. Claims(k, b)' = o + 1 + y
      BY <2>2, <2>7, <2>10
    <3>2. CASE c \in overrun
      <4>1. Chance(new, more) <= Chance(old, m) /\ Ahead(new, more, open, 0) <= Ahead(old, m, open, n)
        BY <2>5, <2>6, <3>1, <3>2, LessAhead
      <4>5. y <= x /\ Ahead(new, more, open, less) <= Ahead(old, m, open, n)
        BY <3>1, <4>1
      <4>2. Claims(k, b)' <= Claims(k, b) + 1
        BY <2>7, <3>4, <4>5
      <4>3. Failures(k, b)' <= Failures(k, b)
        BY <2>8, <2>9, <4>5
      <4> QED
        BY <1>1, <1>2, <1>3, <1>5, <3>1, <3>2, <4>2, <4>3, MovesAccount
    <3>3. CASE c \notin overrun
      <4>1. old = "bury" /\ new = "release"
        BY <2>5, <2>10, <3>3
      <4>2. y + 1 <= x /\ Ahead(new, more, open, less) = 0
        BY <3>1, <4>1 DEF Chance, Ahead
      <4>3. Claims(k, b)' <= Claims(k, b)
        BY <2>7, <3>4, <4>2
      <4>4. Failures(k, b)' <= Failures(k, b)
        BY <2>8, <2>9, <4>2
      <4> QED
        BY <1>1, <1>2, <1>3, <1>5, <4>3, <4>4, MovesAccount
    <3> QED
      BY <3>2, <3>3
  <2>11. CASE ~Here(c, k, b)
    <3>1. more = m /\ Outcomes(k, b)' = o /\ (new = old \/ {new, old} \subseteq {"idle", "read"})
      BY <2>2, <2>3, <2>5, <2>11
    <3>2. Claims(k, b)' <= Claims(k, b)
      <4>1. y = x
        BY <3>1 DEF Chance
      <4> QED
        BY <2>7, <3>1, <4>1
    <3>3. CASE turn[c] # k
      <4>1. less = n
        BY <2>4, <3>3
      <4>2. Ahead(new, m, open, n) = Ahead(old, m, open, n)
        BY <3>1 DEF Ahead
      <4>3. Failures(k, b)' <= Failures(k, b)
        BY <2>8, <2>9, <3>1, <4>1, <4>2
      <4> QED
        BY <1>1, <1>2, <1>3, <1>5, <3>2, <4>3, MovesAccount
    <3>4. CASE turn[c] = k /\ c \in overrun
      <4>1. Failures(k, b)' <= Failures(k, b) + MaxAttempts
        BY <2>8, <2>9, BoundsAssumption
      <4> QED
        BY <1>1, <1>2, <1>3, <1>5, <2>11, <3>2, <3>4, <4>1, MovesAccount
    <3>5. CASE turn[c] = k /\ c \notin overrun
      <4>1. lock = c
        BY <1>2, <1>3, MovesExclusive, <3>5
      <4>2. ~open \/ f = 0
        BY <1>3, <2>11, <3>5, <4>1, Forgotten
      <4>3. new \in {"idle", "read"}
        BY <2>5, <2>11, <3>5
      <4>4. ~open => Ahead(new, more, open, less) = 0
        BY <4>3 DEF Ahead
      <4>5. Failures(k, b)' <= Failures(k, b) \/ Failures(k, b)' <= MaxAttempts
        BY <2>8, <2>9, <4>2, <4>4
      <4> QED
        BY <1>1, <1>2, <1>3, <1>5, <3>2, <4>5, MovesAccount
    <3> QED
      BY <3>3, <3>4, <3>5
  <2> QED
    BY <2>10, <2>11
<1> QED
  BY <1>5, <1>8, AccountsKept

LEMMA CommandFailsKeeps ==
  ASSUME IInv, TypeOK', NEW c \in Cycles, CommandFails(c)
  PROVE  IInv'
<1>1. /\ pc[c] \in Working /\ "release" \in Inside
      /\ "release" \notin Turning /\ "release" \notin Trying
      /\ UNCHANGED <<now, lock, at, turn, overrun>>
      /\ UNCHANGED <<checkpoint, failed, dead, attempts, ran, failures>>
      /\ faults' = faults + 1
  BY DEF CommandFails, Fault, marks, retries, local, history, Working, Inside, Steps, Turning, Trying
<1>2. Moves(c, "release")
  BY <1>1 DEF Moves, CommandFails, Goto
<1>3. Shape
  BY DEF IInv
<1>4. Shape'
  BY <1>1, <1>2, <1>3, MovesShape
<1>5. ASSUME NEW k \in Positions, NEW b \in Buckets
      PROVE  SettledStep(k, b) /\ RetriedStep(k, b)
  <2>1. /\ Claims(k, b)' <= Claims(k, b) + 1
        /\ Failures(k, b)' <= Failures(k, b) + MaxAttempts
    BY <1>1, <1>3, <1>4, FaultBounds
  <2>2. Owing(k)' \subseteq Owing(k) /\ Unsettling(k, b)' \subseteq Unsettling(k, b)
    BY <1>2, <1>3, MovesFewer
  <2> QED
    BY <1>1, <1>3, <1>4, <2>1, <2>2, AccountByBounds
<1> QED
  BY <1>4, <1>5, AccountsKept

-----------------------------------------------------------------------------
(* Cycles come and go                                                      *)

(* A bucket may be closed, or its holder leave it with nothing in hand.    *)
LEMMA AheadOfLess ==
  ASSUME NEW old, NEW new, NEW m \in BOOLEAN, NEW open \in BOOLEAN, NEW opens \in BOOLEAN,
         NEW n \in Nat, opens => open,
         new = old \/ {old, new} \subseteq {"idle", "read", "release"}
  PROVE  Chance(new, m) <= Chance(old, m) /\ Ahead(new, m, opens, n) <= Ahead(old, m, open, n)
<1>1. Tries(n) \in Nat /\ Ahead(old, m, open, n) \in Nat
  BY AheadTyped
<1> QED
  BY <1>1, BoundsAssumption DEF Chance, Ahead, Tries

LEMMA AccountsOfLess ==
  ASSUME TypeOK, TypeOK', NEW k \in Positions, NEW b \in Buckets,
         UNCHANGED <<checkpoint, failed, dead, attempts, ran, failures>>,
         Open(k, b)' => Open(k, b),
         Stage(k, b)' = Stage(k, b) \/ {Stage(k, b), Stage(k, b)'} \subseteq {"idle", "read", "release"}
  PROVE  Claims(k, b)' <= Claims(k, b) /\ Failures(k, b)' <= Failures(k, b)
<1> PICK n \in Nat : n = attempts[JobOrder[k]]
  BY ClaimsTyped
<1> PICK m \in BOOLEAN : m = MarkedAt(k, b)
  BY MarkTyped
<1> PICK open \in BOOLEAN : open = Open(k, b)
  BY MarkTyped
<1> PICK opens \in BOOLEAN : opens = Open(k, b)'
  BY MarkTyped
<1> PICK old : old = Stage(k, b)
  OBVIOUS
<1> PICK new : new = Stage(k, b)'
  OBVIOUS
<1> PICK o \in Nat : o = Outcomes(k, b)
  BY ClaimsTyped
<1> PICK f \in Nat : f = failures[JobOrder[k]][b]
  BY ClaimsTyped
<1>1. /\ Outcomes(k, b)' = o /\ failures'[JobOrder[k]][b] = f /\ MarkedAt(k, b)' = m
      /\ attempts'[JobOrder[k]] = n
  BY DEF Outcomes, MarkedAt, Marks
<1>2. Chance(new, m) <= Chance(old, m) /\ Ahead(new, m, opens, n) <= Ahead(old, m, open, n)
  <2>1. opens => open
    OBVIOUS
  <2>2. new = old \/ {old, new} \subseteq {"idle", "read", "release"}
    OBVIOUS
  <2> QED
    BY <2>1, <2>2, AheadOfLess
<1>3. /\ Claims(k, b) = o + Chance(old, m) /\ Claims(k, b)' = o + Chance(new, m)
      /\ Chance(old, m) \in Nat /\ Chance(new, m) \in Nat
  BY <1>1 DEF Claims, Chance
<1>4. /\ Failures(k, b) = f + Ahead(old, m, open, n)
      /\ Failures(k, b)' = f + Ahead(new, m, opens, n)
  BY <1>1 DEF Failures
<1>5. Ahead(old, m, open, n) \in Nat /\ Ahead(new, m, opens, n) \in Nat
  BY AheadTyped
<1> QED
  BY <1>2, <1>3, <1>4, <1>5

LEMMA BeginKeeps ==
  ASSUME IInv, TypeOK', NEW c \in Cycles, Begin(c)
  PROVE  IInv'
<1>1. Shape /\ TypeOK /\ lock \notin Cycles /\ lock' = c /\ now \in Nat
  BY LockAssumption, BoundsAssumption DEF IInv, Shape, TypeOK, Begin
<1>2. /\ UNCHANGED <<now, overrun, checkpoint, failed, dead, attempts, ran, failures, faults>>
      /\ pc[c] = "idle" /\ "read" \in Inside /\ "idle" \notin Inside
  BY DEF Begin, marks, retries, history, Inside, Steps
<1>3. /\ \A d \in Cycles : pc'[d] = IF d = c THEN "read" ELSE pc[d]
      /\ \A d \in Cycles : at'[d] = IF d = c THEN now ELSE at[d]
      /\ \A d \in Cycles : turn'[d] = IF d = c THEN 1 ELSE turn[d]
  BY <1>1 DEF Begin, Goto, TypeOK
<1>4. overrun \subseteq Cycles /\ c \notin overrun
  BY <1>1, <1>2 DEF Shape, TypeOK, Exclusive
<1>5. Exclusive'
  <2>1. \A d \in Cycles : pc[d] \in Inside => d \in overrun
    BY <1>1 DEF Shape, Exclusive
  <2>2. \A d \in overrun : pc[d] \in Inside
    BY <1>1 DEF Shape, Exclusive
  <2> QED
    BY <1>1, <1>2, <1>3, <1>4, <2>1, <2>2 DEF Exclusive
<1>6. Clocks'
  <2>1. \A d \in Cycles : at'[d] <= now
    BY <1>1, <1>3 DEF Shape, Clocks
  <2>2. at'[c] = now
    BY <1>3
  <2>3. \A k \in Positions, b \in Buckets : failures[JobOrder[k]][b] > 0 => b <= Bucket(JobOrder[k], now)
    BY <1>1 DEF Shape, Clocks
  <2> QED
    BY <1>1, <1>2, <1>4, <2>1, <2>2, <2>3 DEF Clocks
<1>7. Cleared'
  <2> SUFFICES ASSUME NEW d \in Cycles, pc'[d] = "clear" PROVE Marked(d)'
    BY DEF Cleared
  <2>1. pc[d] = "clear" /\ turn'[d] = turn[d] /\ at'[d] = at[d]
    BY <1>3
  <2>2. Marks(JobOf(d), BucketOf(d))
    BY <1>1, <2>1 DEF Shape, Cleared, Marked
  <2>3. JobOf(d)' = JobOf(d) /\ BucketOf(d)' = BucketOf(d)
    BY <2>1 DEF JobOf, BucketOf
  <2> QED
    BY <1>2, <2>2, <2>3 DEF Marks, Marked
<1>8. Shape'
  BY <1>1, <1>2, <1>5, <1>6, <1>7 DEF Shape, FewOverrun
<1>9. ASSUME NEW k \in Positions, NEW b \in Buckets
      PROVE  SettledStep(k, b) /\ RetriedStep(k, b)
  <2>1. Owing(k)' \subseteq Owing(k)
    BY <1>2, <1>3, <1>4 DEF Owing
  <2>2. Unsettling(k, b)' \subseteq Unsettling(k, b)
    BY <1>2, <1>3, <1>4 DEF Unsettling, Here
  <2>3. Stage(k, b) = "idle" /\ Stage(k, b)' \in {"idle", "read"}
    <3>1. pc'[c] = "read" /\ c \in Cycles
      BY <1>3
    <3> QED
      BY <1>1, <3>1 DEF Stage
  <2>4. Open(k, b)' => Open(k, b)
    <3>1. JobOrder[k] \in Jobs
      BY Position
    <3>2. Bucket(JobOrder[k], now) \in Nat
      BY <1>1, <3>1, BucketMonotone
    <3>3. at'[c] = now
      BY <1>3
    <3> QED
      BY <1>1, <1>2, <3>2, <3>3 DEF Open
  <2>5. Claims(k, b)' <= Claims(k, b) /\ Failures(k, b)' <= Failures(k, b)
    BY <1>1, <1>2, <2>3, <2>4, AccountsOfLess
  <2> QED
    BY <1>1, <1>2, <1>8, <2>1, <2>2, <2>5, AccountByBounds
<1> QED
  BY <1>8, <1>9, AccountsKept

LEMMA LeaveShape ==
  ASSUME Shape, TypeOK', NEW c \in Cycles, Leave(c),
         IF lock = c THEN lock' \notin Cycles ELSE lock' = lock,
         UNCHANGED <<now, checkpoint, failed, failures>>, faults' \in {faults, faults + 1}
  PROVE  /\ Shape'
         /\ \A k, b : Owing(k)' \subseteq Owing(k) /\ Unsettling(k, b)' \subseteq Unsettling(k, b)
<1>1. /\ \A d \in Cycles : pc'[d] = IF d = c THEN "idle" ELSE pc[d]
      /\ \A d \in Cycles : at'[d] = IF d = c THEN 0 ELSE at[d]
      /\ \A d \in Cycles : turn'[d] = IF d = c THEN 1 ELSE turn[d]
      /\ overrun' = overrun \ {c} /\ overrun \subseteq Cycles /\ "idle" \notin Inside
  BY DEF Shape, TypeOK, Leave, Goto, Inside
<1>2. Exclusive'
  <2>1. \A d \in Cycles : pc'[d] \in Inside /\ d \notin overrun' => lock' = d
    BY <1>1 DEF Shape, Exclusive
  <2>2. lock' \in Cycles => pc'[lock'] \in Inside /\ lock' \notin overrun'
    BY <1>1 DEF Shape, Exclusive
  <2>3. \A d \in overrun' : pc'[d] \in Inside
    BY <1>1 DEF Shape, Exclusive
  <2> QED
    BY <2>1, <2>2, <2>3 DEF Exclusive
<1>3. Clocks'
  <2>1. \A d \in Cycles : at'[d] <= now'
    <3>1. now' = now /\ now \in Nat /\ 0 <= now
      BY BoundsAssumption DEF Shape, TypeOK
    <3>2. \A d \in Cycles : at[d] <= now
      BY DEF Shape, Clocks
    <3> QED
      BY <1>1, <3>1, <3>2
  <2>2. lock' \in Cycles => lock' = lock /\ lock # c
    OBVIOUS
  <2>3. lock' \in Cycles => \A d \in overrun' : at'[d] <= at'[lock']
    BY <1>1, <2>2 DEF Shape, Clocks
  <2>4. \A k \in Positions, b \in Buckets : failures'[JobOrder[k]][b] > 0 =>
          /\ b <= Bucket(JobOrder[k], now')
          /\ lock' \in Cycles => b <= Bucket(JobOrder[k], at'[lock'])
    BY <1>1, <2>2 DEF Shape, Clocks
  <2> QED
    BY <2>1, <2>3, <2>4 DEF Clocks
<1>4. Cleared'
  <2> SUFFICES ASSUME NEW d \in Cycles, pc'[d] = "clear" PROVE Marked(d)'
    BY DEF Cleared
  <2>1. pc[d] = "clear" /\ turn'[d] = turn[d] /\ at'[d] = at[d]
    BY <1>1
  <2>2. Marks(JobOf(d), BucketOf(d))
    BY <2>1 DEF Shape, Cleared, Marked
  <2>3. JobOf(d)' = JobOf(d) /\ BucketOf(d)' = BucketOf(d)
    BY <2>1 DEF JobOf, BucketOf
  <2> QED
    BY <2>2, <2>3 DEF Marks, Marked
<1>5. FewOverrun'
  <2>1. IsFiniteSet(overrun) /\ Cardinality(overrun) <= faults /\ faults \in Nat
    BY BoundsAssumption DEF Shape, FewOverrun, TypeOK
  <2>2. overrun' \subseteq overrun
    BY <1>1
  <2>3. /\ IsFiniteSet(overrun') /\ Cardinality(overrun') \in Nat /\ Cardinality(overrun) \in Nat
        /\ Cardinality(overrun') <= Cardinality(overrun)
    BY <2>1, <2>2, Fewer
  <2> QED
    BY <2>1, <2>3 DEF FewOverrun
<1>6. ASSUME NEW k, NEW b
      PROVE  Owing(k)' \subseteq Owing(k) /\ Unsettling(k, b)' \subseteq Unsettling(k, b)
  <2>1. Owing(k)' \subseteq Owing(k)
    BY <1>1 DEF Owing
  <2>2. Unsettling(k, b)' \subseteq Unsettling(k, b)
    BY <1>1 DEF Unsettling, Here
  <2> QED
    BY <2>1, <2>2
<1> QED
  BY <1>2, <1>3, <1>4, <1>5, <1>6 DEF Shape

LEMMA ReleaseKeeps ==
  ASSUME IInv, TypeOK', NEW c \in Cycles, Release(c)
  PROVE  IInv'
<1>1. /\ pc[c] = "release" /\ Leave(c)
      /\ UNCHANGED <<now, checkpoint, failed, dead, attempts, ran, failures, faults>>
      /\ lock' = IF lock = c THEN None ELSE lock
  BY DEF Release, Released, marks, retries, history
<1>2. Shape /\ TypeOK /\ None \notin Cycles
  BY LockAssumption DEF IInv, Shape
<1>3. IF lock = c THEN lock' \notin Cycles ELSE lock' = lock
  BY <1>1, <1>2
<1>4. /\ Shape'
      /\ \A k, b : Owing(k)' \subseteq Owing(k) /\ Unsettling(k, b)' \subseteq Unsettling(k, b)
  BY <1>1, <1>2, <1>3, LeaveShape
<1>5. \A d \in Cycles \ {c} : pc'[d] = pc[d] /\ at'[d] = at[d] /\ turn'[d] = turn[d]
  BY <1>1, <1>2 DEF Leave, Goto, TypeOK
<1>6. ASSUME NEW k \in Positions, NEW b \in Buckets
      PROVE  SettledStep(k, b) /\ RetriedStep(k, b)
  <2>1. Open(k, b)' => Open(k, b)
    BY <1>1, <1>2, <1>5 DEF Open
  <2>2. CASE lock = c
    <3>1. Stage(k, b)' = "idle" /\ Stage(k, b) \in {"idle", "release"}
      BY <1>1, <1>2, <2>2 DEF Stage
    <3>2. Claims(k, b)' <= Claims(k, b) /\ Failures(k, b)' <= Failures(k, b)
      BY <1>1, <1>2, <2>1, <3>1, AccountsOfLess
    <3> QED
      BY <1>1, <1>2, <1>4, <3>2, AccountByBounds
  <2>3. CASE lock # c
    <3>1. Stage(k, b)' = Stage(k, b)
      BY <1>1, <1>5, <2>3 DEF Stage, Here
    <3>2. Claims(k, b)' <= Claims(k, b) /\ Failures(k, b)' <= Failures(k, b)
      BY <1>1, <1>2, <2>1, <3>1, AccountsOfLess
    <3> QED
      BY <1>1, <1>2, <1>4, <3>2, AccountByBounds
  <2> QED
    BY <2>2, <2>3
<1> QED
  BY <1>4, <1>6, AccountsKept

LEMMA DieKeeps ==
  ASSUME IInv, TypeOK', NEW c \in Cycles, Die(c)
  PROVE  IInv'
<1>1. /\ Leave(c) /\ faults' = faults + 1
      /\ UNCHANGED <<now, checkpoint, failed, dead, attempts, ran, failures>>
      /\ lock' = IF lock = c THEN Orphan ELSE lock
  BY DEF Die, Fault, marks, retries, history
<1>2. Shape /\ Orphan \notin Cycles
  BY LockAssumption DEF IInv
<1>3. IF lock = c THEN lock' \notin Cycles ELSE lock' = lock
  BY <1>1, <1>2
<1>4. /\ Shape'
      /\ \A k, b : Owing(k)' \subseteq Owing(k) /\ Unsettling(k, b)' \subseteq Unsettling(k, b)
  BY <1>1, <1>2, <1>3, LeaveShape
<1>5. ASSUME NEW k \in Positions, NEW b \in Buckets
      PROVE  SettledStep(k, b) /\ RetriedStep(k, b)
  <2>1. /\ Claims(k, b)' <= Claims(k, b) + 1
        /\ Failures(k, b)' <= Failures(k, b) + MaxAttempts
    BY <1>1, <1>2, <1>4, FaultBounds
  <2> QED
    BY <1>1, <1>2, <1>4, <2>1, AccountByBounds
<1> QED
  BY <1>4, <1>5, AccountsKept

(* Steps that move no cycle: time, retries that fall due, orphans.         *)
LEMMA QuietKeeps ==
  ASSUME IInv, TypeOK',
         UNCHANGED <<checkpoint, failed, dead, attempts, pc, at, turn, overrun, ran, failures>>,
         now' \in {now, now + 1}, faults' \in {faults, faults + 1},
         lock' = lock \/ (lock \notin Cycles /\ lock' \notin Cycles)
  PROVE  IInv'
<1>1. Shape /\ TypeOK /\ now \in Nat /\ now' \in Nat /\ now <= now' /\ faults \in Nat
  BY BoundsAssumption DEF IInv, Shape, TypeOK
<1>2. Exclusive'
  BY <1>1 DEF Shape, Exclusive
<1>3. ASSUME NEW k \in Positions
      PROVE  /\ Bucket(JobOrder[k], now) \in Nat /\ Bucket(JobOrder[k], now)' \in Nat
             /\ Bucket(JobOrder[k], now) <= Bucket(JobOrder[k], now)'
  <2>1. JobOrder[k] \in Jobs
    BY Position
  <2> QED
    BY <1>1, <2>1, BucketMonotone
<1>4. Clocks'
  <2>1. \A d \in Cycles : at'[d] <= now'
    <3>1. \A d \in Cycles : at[d] <= now /\ at[d] \in Nat
      BY <1>1, BoundsAssumption DEF Shape, Clocks, TypeOK
    <3> QED
      BY <1>1, <3>1
  <2>2. lock' \in Cycles => \A d \in overrun' : at'[d] <= at'[lock']
    BY <1>1 DEF Shape, Clocks
  <2>3. ASSUME NEW k \in Positions, NEW b \in Buckets, failures'[JobOrder[k]][b] > 0
        PROVE  /\ b <= Bucket(JobOrder[k], now)'
               /\ lock' \in Cycles => b <= Bucket(JobOrder[k], at'[lock'])
    <3>1. /\ b <= Bucket(JobOrder[k], now)
          /\ lock \in Cycles => b <= Bucket(JobOrder[k], at[lock])
      BY <1>1, <2>3 DEF Shape, Clocks
    <3>2. b \in Nat
      BY BoundsAssumption DEF Buckets
    <3> QED
      BY <1>3, <3>1, <3>2
  <2>4. \A k \in Positions, b \in Buckets : failures'[JobOrder[k]][b] > 0 =>
          /\ b <= Bucket(JobOrder[k], now')
          /\ lock' \in Cycles => b <= Bucket(JobOrder[k], at'[lock'])
    BY <2>3
  <2> QED
    BY <2>1, <2>2, <2>4 DEF Clocks
<1>5. Cleared'
  BY <1>1 DEF Shape, Cleared, Marked, Marks, JobOf, BucketOf
<1>6. FewOverrun'
  <2>1. Cardinality(overrun) \in Nat
    BY <1>1, FS_CardinalityType DEF Shape, FewOverrun
  <2> QED
    BY <1>1, <2>1 DEF Shape, FewOverrun
<1>7. Shape'
  BY <1>2, <1>4, <1>5, <1>6 DEF Shape
<1>8. ASSUME NEW k \in Positions, NEW b \in Buckets
      PROVE  SettledStep(k, b) /\ RetriedStep(k, b)
  <2>1. Stage(k, b)' = Stage(k, b)
    BY DEF Stage, Here
  <2>2. Open(k, b)' => Open(k, b)
    <3>1. b \in Nat
      BY BoundsAssumption DEF Buckets
    <3> QED
      BY <1>3, <3>1 DEF Open
  <2>3. Claims(k, b)' <= Claims(k, b) /\ Failures(k, b)' <= Failures(k, b)
    BY <1>1, <2>1, <2>2, AccountsOfLess
  <2>4. Owing(k)' \subseteq Owing(k) /\ Unsettling(k, b)' \subseteq Unsettling(k, b)
    BY DEF Owing, Unsettling, Here
  <2> QED
    BY <1>1, <1>7, <2>3, <2>4, AccountByBounds
<1> QED
  BY <1>7, <1>8, AccountsKept

LEMMA ExpireHeldKeeps ==
  ASSUME IInv, TypeOK', NEW c \in Cycles, ExpireHeld(c)
  PROVE  IInv'
<1>1. /\ lock = c /\ lock' = None /\ overrun' = overrun \cup {c} /\ faults' = faults + 1
      /\ UNCHANGED <<now, checkpoint, failed, dead, attempts, pc, at, turn, ran, failures>>
  BY DEF ExpireHeld, Fault, marks, retries, local, history
<1>2. Shape /\ TypeOK /\ None \notin Cycles /\ lock' \notin Cycles
  BY <1>1, LockAssumption DEF IInv, Shape
<1>3. pc[c] \in Inside /\ c \notin overrun /\ overrun \subseteq Cycles
  BY <1>1, <1>2 DEF Shape, Exclusive, TypeOK
<1>4. IsFiniteSet(overrun) /\ Cardinality(overrun) <= faults /\ faults \in Nat
  BY <1>2, BoundsAssumption DEF Shape, FewOverrun, TypeOK
<1>5. Exclusive'
  BY <1>1, <1>2, <1>3 DEF Shape, Exclusive
<1>6. Clocks'
  BY <1>1, <1>2 DEF Shape, Clocks
<1>7. Cleared'
  BY <1>1, <1>2 DEF Shape, Cleared, Marked, Marks, JobOf, BucketOf
<1>8. FewOverrun'
  <2>1. /\ IsFiniteSet(overrun') /\ Cardinality(overrun') \in Nat /\ Cardinality(overrun) \in Nat
        /\ Cardinality(overrun') <= Cardinality(overrun) + 1
    BY <1>1, <1>4, OneMore
  <2> QED
    BY <1>1, <1>4, <2>1 DEF FewOverrun
<1>9. Shape'
  BY <1>5, <1>6, <1>7, <1>8 DEF Shape
<1>10. ASSUME NEW k \in Positions, NEW b \in Buckets
       PROVE  SettledStep(k, b) /\ RetriedStep(k, b)
  <2> PICK n \in Nat : n = attempts[JobOrder[k]]
    BY <1>2, ClaimsTyped
  <2> PICK m \in BOOLEAN : m = MarkedAt(k, b)
    BY MarkTyped
  <2> PICK open \in BOOLEAN : open = Open(k, b)
    BY MarkTyped
  <2> PICK opens \in BOOLEAN : opens = Open(k, b)'
    BY MarkTyped
  <2> PICK old : old = Stage(k, b)
    OBVIOUS
  <2> PICK o \in Nat : o = Outcomes(k, b)
    BY <1>2, ClaimsTyped
  <2> PICK f \in Nat : f = failures[JobOrder[k]][b]
    BY <1>2, ClaimsTyped
  <2>1. /\ Outcomes(k, b)' = o /\ failures'[JobOrder[k]][b] = f /\ MarkedAt(k, b)' = m
        /\ attempts'[JobOrder[k]] = n
    BY <1>1 DEF Outcomes, MarkedAt, Marks
  <2>2. Stage(k, b)' = "idle" /\ old = IF Here(c, k, b) THEN pc[c] ELSE "idle"
    BY <1>1, <1>2 DEF Stage, Here
  <2>3. /\ opens => open
        /\ Here(c, k, b) => open
    BY <1>1, <1>2 DEF Open, Here
  <2>4. /\ Claims(k, b) = o + Chance(old, m) /\ Claims(k, b)' = o + Chance("idle", m)
        /\ Chance(old, m) \in Nat /\ Chance("idle", m) \in Nat
    BY <2>1, <2>2 DEF Claims, Chance
  <2>5. /\ Failures(k, b) = f + Ahead(old, m, open, n)
        /\ Failures(k, b)' = f + Ahead("idle", m, opens, n)
    BY <2>1, <2>2 DEF Failures
  <2>6. Ahead(old, m, open, n) \in Nat /\ Ahead("idle", m, opens, n) \in Nat
    BY AheadTyped
  <2>7. /\ Claims(k, b)' <= Claims(k, b) + 1
        /\ Failures(k, b)' <= Failures(k, b) + MaxAttempts
    BY <1>1, <1>2, <1>9, FaultBounds
  <2>8. /\ Claims(k, b) \in Nat /\ Claims(k, b)' \in Nat
        /\ Failures(k, b) \in Nat /\ Failures(k, b)' \in Nat
    BY <1>2, <1>9, ClaimsTyped, ClaimsTypedNext DEF Shape
  <2>9. IsFiniteSet(Owing(k)) /\ IsFiniteSet(Unsettling(k, b))
    BY <1>2, Counted
  <2>10. SettledStep(k, b)
    <3>1. Owing(k)' \subseteq Owing(k) \cup {c}
      BY <1>1 DEF Owing
    <3>2. CASE c \in Owing(k)'
      <4>1. turn[c] = k => pc[c] \in {"read", "due", "run", "count", "bury"}
        BY <1>1, <3>2 DEF Owing
      <4>2. Chance("idle", m) <= Chance(old, m)
        BY <2>2, <4>1 DEF Chance, Here
      <4>3. /\ Cardinality(Owing(k)') \in Nat /\ Cardinality(Owing(k)) \in Nat
            /\ Cardinality(Owing(k)') <= Cardinality(Owing(k)) + 1
        BY <2>9, <3>1, OneMore
      <4>4. Claims(k, b)' <= Claims(k, b)
        BY <2>4, <4>2
      <4> QED
        BY <1>1, <1>4, <2>8, <4>3, <4>4 DEF SettledStep
    <3>3. CASE c \notin Owing(k)'
      <4>1. Owing(k)' \subseteq Owing(k)
        BY <3>1, <3>3
      <4>2. /\ Cardinality(Owing(k)') \in Nat /\ Cardinality(Owing(k)) \in Nat
            /\ Cardinality(Owing(k)') <= Cardinality(Owing(k))
        BY <2>9, <4>1, Fewer
      <4> QED
        BY <1>1, <1>4, <2>7, <2>8, <4>2 DEF SettledStep
    <3> QED
      BY <3>2, <3>3
  <2>11. RetriedStep(k, b)
    <3>1. Unsettling(k, b)' \subseteq Unsettling(k, b) \cup {c}
      BY <1>1 DEF Unsettling, Here
    <3>2. CASE c \in Unsettling(k, b)'
      <4>1. Here(c, k, b) => pc[c] \in {"read", "due", "run"}
        BY <1>1, <3>2 DEF Unsettling, Here
      <4>2. Ahead("idle", m, opens, n) <= Ahead(old, m, open, n)
        <5>1. Tries(n) \in Nat
          BY AheadTyped
        <5> QED
          BY <2>2, <2>3, <2>6, <4>1, <5>1 DEF Ahead
      <4>3. /\ Cardinality(Unsettling(k, b)') \in Nat /\ Cardinality(Unsettling(k, b)) \in Nat
            /\ Cardinality(Unsettling(k, b)') <= Cardinality(Unsettling(k, b)) + 1
        BY <2>9, <3>1, OneMore
      <4>4. Failures(k, b)' <= Failures(k, b)
        BY <2>5, <2>6, <4>2
      <4>5. Rounds(k, b) <= Rounds(k, b)'
        BY <1>1, <1>4, <4>3 DEF Rounds
      <4> QED
        BY <4>4, <4>5 DEF RetriedStep
    <3>3. CASE c \notin Unsettling(k, b)'
      <4>1. Unsettling(k, b)' \subseteq Unsettling(k, b)
        BY <3>1, <3>3
      <4>2. /\ Cardinality(Unsettling(k, b)') \in Nat /\ Cardinality(Unsettling(k, b)) \in Nat
            /\ Cardinality(Unsettling(k, b)') <= Cardinality(Unsettling(k, b))
        BY <2>9, <4>1, Fewer
      <4>3. Rounds(k, b) + 1 <= Rounds(k, b)'
        BY <1>1, <1>4, <4>2 DEF Rounds
      <4> QED
        BY <2>7, <4>3 DEF RetriedStep
    <3> QED
      BY <3>2, <3>3
  <2> QED
    BY <2>10, <2>11
<1> QED
  BY <1>9, <1>10, AccountsKept

-----------------------------------------------------------------------------
(* The theorems                                                            *)

LEMMA TypeNext ==
  ASSUME TypeOK, Next
  PROVE  TypeOK'
<1>0. MaxTime \in Nat /\ MaxFaults \in Nat
  BY BoundsAssumption
<1>1. ASSUME NEW c \in Cycles, Begin(c) PROVE TypeOK'
  <2>1. 1 \in DOMAIN JobOrder
    BY JobsAssumption
  <2> QED
    BY <1>1, <2>1 DEF TypeOK, Begin, Goto, Steps, marks, retries, history, misses
<1>2. ASSUME NEW c \in Cycles, pc[c] \in Working, Advance(c)
      PROVE  pc' \in [Cycles -> Steps] /\ turn' \in [Cycles -> DOMAIN JobOrder]
  <2>1. DOMAIN JobOrder = 1 .. Len(JobOrder) /\ Len(JobOrder) \in Nat
    BY JobsAssumption
  <2>2. turn[c] \in 1 .. Len(JobOrder)
    BY <2>1 DEF TypeOK
  <2>3. pc' \in [Cycles -> Steps]
    BY <1>2 DEF Advance, Goto, TypeOK, Steps
  <2>4. turn' \in [Cycles -> DOMAIN JobOrder]
    <3>1. CASE turn[c] < Len(JobOrder)
      <4>1. turn' = [turn EXCEPT ![c] = turn[c] + 1]
        BY <1>2, <3>1 DEF Advance
      <4>2. turn[c] + 1 \in DOMAIN JobOrder
        BY <2>1, <2>2, <3>1
      <4> QED
        BY <4>1, <4>2 DEF TypeOK
    <3>2. CASE ~(turn[c] < Len(JobOrder))
      BY <1>2, <3>2 DEF Advance, TypeOK
    <3> QED
      BY <3>1, <3>2
  <2> QED
    BY <2>3, <2>4
<1>3. ASSUME NEW c \in Cycles, ReadMarks(c) PROVE TypeOK'
  <2>1. pc' \in [Cycles -> Steps] /\ turn' \in [Cycles -> DOMAIN JobOrder]
    <3>1. CASE Advance(c)
      BY <1>2, <1>3, <3>1 DEF ReadMarks, Working, Inside, Steps
    <3>2. CASE Goto(c, "due") /\ UNCHANGED turn
      BY <3>2 DEF Goto, TypeOK, Steps
    <3> QED
      BY <1>3, <3>1, <3>2 DEF ReadMarks
  <2> QED
    BY <1>3, <2>1 DEF TypeOK, ReadMarks, marks, retries, history, misses
<1>4. ASSUME NEW c \in Cycles, ReadRetry(c) PROVE TypeOK'
  <2>1. pc' \in [Cycles -> Steps] /\ turn' \in [Cycles -> DOMAIN JobOrder]
    <3>1. CASE Advance(c)
      BY <1>2, <1>4, <3>1 DEF ReadRetry, Working, Inside, Steps
    <3>2. CASE Goto(c, "run") /\ UNCHANGED turn
      BY <3>2 DEF Goto, TypeOK, Steps
    <3> QED
      BY <1>4, <3>1, <3>2 DEF ReadRetry
  <2>2. putOff' \in [Cycles -> SUBSET Jobs]
    <3>1. JobOf(c) \in Jobs /\ putOff \in [Cycles -> SUBSET Jobs]
      BY Position DEF TypeOK, JobOf, Positions
    <3>2. UNCHANGED putOff \/ putOff' = [putOff EXCEPT ![c] = @ \cup {JobOf(c)}]
      BY <1>4 DEF ReadRetry
    <3> QED
      BY <3>1, <3>2
  <2> QED
    BY <1>4, <2>1, <2>2 DEF TypeOK, ReadRetry, marks, retries, history
<1>5. ASSUME NEW c \in Cycles, Succeed(c) PROVE TypeOK'
  <2>1. ran \in [Jobs -> [Buckets -> Nat]] /\ ran' = Once(ran, c)
    BY <1>5 DEF TypeOK, Succeed
  <2>2. ran' \in [Jobs -> [Buckets -> Nat]]
    BY <2>1, OnceMore
  <2> QED
    BY <1>5, <2>2 DEF TypeOK, Succeed, Goto, Steps, marks, retries, local, misses
<1>6. ASSUME NEW c \in Cycles, NEW permanent, Fail(c, permanent) PROVE TypeOK'
  <2>1. failures \in [Jobs -> [Buckets -> Nat]] /\ failures' = Once(failures, c)
    BY <1>6 DEF TypeOK, Fail
  <2>2. failures' \in [Jobs -> [Buckets -> Nat]]
    BY <2>1, OnceMore
  <2>3. pc' \in [Cycles -> Steps]
    BY <1>6 DEF TypeOK, Fail, Goto, Steps
  <2> QED
    BY <1>6, <2>2, <2>3 DEF TypeOK, Fail, marks, retries, local, misses
<1>7. ASSUME NEW c \in Cycles, WriteCheckpoint(c) PROVE TypeOK'
  <2>1. JobOf(c) \in Jobs /\ BucketOf(c) \in Buckets
    BY InBuckets
  <2>2. checkpoint' \in [Jobs -> SUBSET Buckets]
    BY <1>7, <2>1 DEF TypeOK, WriteCheckpoint
  <2> QED
    BY <1>7, <2>2 DEF TypeOK, WriteCheckpoint, Goto, Steps, retries, local, history, misses
<1>8. ASSUME NEW c \in Cycles, ClearRetries(c) PROVE TypeOK'
  <2>1. pc' \in [Cycles -> Steps] /\ turn' \in [Cycles -> DOMAIN JobOrder]
    BY <1>2, <1>8 DEF ClearRetries, Working, Inside, Steps
  <2>2. attempts' \in [Jobs -> Nat] /\ waiting' \in SUBSET Jobs
    BY <1>8 DEF TypeOK, ClearRetries
  <2> QED
    BY <1>8, <2>1, <2>2 DEF TypeOK, ClearRetries, marks, history, misses
<1>9. ASSUME NEW c \in Cycles, CountFailure(c) PROVE TypeOK'
  <2>1. JobOf(c) \in Jobs
    BY InBuckets
  <2>2. attempts' \in [Jobs -> Nat] /\ pc' \in [Cycles -> Steps]
    BY <1>9, <2>1 DEF TypeOK, CountFailure, Goto, Steps
  <2> QED
    BY <1>9, <2>2 DEF TypeOK, CountFailure, marks, local, history, misses
<1>10. ASSUME NEW c \in Cycles, Bury(c) PROVE TypeOK'
  <2>1. JobOf(c) \in Jobs /\ BucketOf(c) \in Buckets
    BY InBuckets
  <2>2. dead \in [Jobs -> [Buckets -> Nat]] /\ dead' = Once(dead, c)
    BY <1>10 DEF TypeOK, Bury
  <2>3. dead' \in [Jobs -> [Buckets -> Nat]]
    BY <2>2, OnceMore
  <2>4. failed' \in [Jobs -> SUBSET Buckets]
    BY <1>10, <2>1 DEF TypeOK, Bury
  <2>5. attempts' \in [Jobs -> Nat] /\ waiting' \in SUBSET Jobs /\ pc' \in [Cycles -> Steps]
    BY <1>10 DEF TypeOK, Bury, Goto, Steps
  <2> QED
    BY <1>10, <2>3, <2>4, <2>5 DEF TypeOK, Bury, local, history, misses
<1>11. ASSUME NEW c \in Cycles, Defer(c) PROVE TypeOK'
  <2>1. JobOf(c) \in Jobs
    BY InBuckets
  <2> QED
    BY <1>11, <2>1 DEF TypeOK, Defer, Goto, Steps, marks, local, history, misses
<1>12. ASSUME NEW c \in Cycles, Leave(c)
       PROVE  /\ pc' \in [Cycles -> Steps] /\ at' \in [Cycles -> 0 .. MaxTime]
              /\ turn' \in [Cycles -> DOMAIN JobOrder] /\ overrun' \in SUBSET Cycles
              /\ putOff' \in [Cycles -> SUBSET Jobs]
  <2>1. 1 \in DOMAIN JobOrder /\ 0 \in 0 .. MaxTime
    BY <1>0, JobsAssumption
  <2> QED
    BY <1>12, <2>1 DEF TypeOK, Leave, Goto, Steps
<1>13. ASSUME NEW c \in Cycles, Release(c) PROVE TypeOK'
  <2>1. missed' \in [Jobs -> [Buckets -> Nat]]
    BY <1>13 DEF TypeOK, Release
  <2> QED
    BY <1>12, <1>13, <2>1 DEF TypeOK, Release, Released, marks, retries, history
<1>14. Fault => faults' \in 0 .. MaxFaults
  BY <1>0 DEF Fault, TypeOK
<1>15. ASSUME NEW c \in Cycles, CommandFails(c) PROVE TypeOK'
  BY <1>14, <1>15 DEF TypeOK, CommandFails, Goto, Steps, marks, retries, local, history, misses
<1>16. ASSUME NEW c \in Cycles, Die(c) PROVE TypeOK'
  BY <1>12, <1>14, <1>16 DEF TypeOK, Die, marks, retries, history
<1>17. ASSUME NEW c \in Cycles, ExpireHeld(c) PROVE TypeOK'
  BY <1>14, <1>17 DEF TypeOK, ExpireHeld, marks, retries, local, history, misses
<1>18. ASSUME AcquiredUnknown PROVE TypeOK'
  BY <1>14, <1>18 DEF TypeOK, AcquiredUnknown, marks, retries, local, history, misses
<1>19. ASSUME ExpireOrphan PROVE TypeOK'
  BY <1>19 DEF TypeOK, ExpireOrphan, marks, retries, local, history, misses
<1>20. ASSUME Tick PROVE TypeOK'
  <2>1. now' \in 0 .. MaxTime
    BY <1>0, <1>20 DEF TypeOK, Tick
  <2> QED
    BY <1>20, <2>1 DEF TypeOK, Tick, marks, retries, local, history, misses
<1>21. ASSUME NEW j \in Jobs, RetryDue(j) PROVE TypeOK'
  BY <1>21 DEF TypeOK, RetryDue, marks, local, history, misses
<1> QED
  BY <1>1, <1>3, <1>4, <1>5, <1>6, <1>7, <1>8, <1>9, <1>10, <1>11, <1>13, <1>15, <1>16,
     <1>17, <1>18, <1>19, <1>20, <1>21 DEF Next, Step

LEMMA InvInit == Init => IInv
<1> SUFFICES ASSUME Init PROVE IInv
  OBVIOUS
<1>1. MaxTime \in Nat /\ MaxFaults \in Nat /\ MaxAttempts \in Nat /\ 1 \in DOMAIN JobOrder
      /\ None \notin Cycles
  BY BoundsAssumption, JobsAssumption, LockAssumption
<1>2. TypeOK
  BY <1>1 DEF Init, TypeOK, Steps, Buckets
<1>3. Exclusive
  BY <1>1 DEF Init, Exclusive, Inside
<1>4. \A k \in Positions : JobOrder[k] \in Jobs
  BY Position
<1>5. Clocks
  BY <1>1, <1>4 DEF Init, Clocks
<1>6. Cleared
  BY DEF Init, Cleared
<1>7. FewOverrun
  BY FS_EmptySet DEF Init, FewOverrun
<1>8. ASSUME NEW k \in Positions, NEW b \in Buckets PROVE Settled(k, b) /\ Retried(k, b)
  <2>1. Owing(k) = {} /\ Unsettling(k, b) = {}
    BY DEF Init, Owing, Unsettling
  <2>2. Cardinality(Owing(k)) = 0 /\ Cardinality(Unsettling(k, b)) = 0
    BY <2>1, FS_EmptySet
  <2>3. Outcomes(k, b) = 0 /\ failures[JobOrder[k]][b] = 0 /\ faults = 0 /\ attempts[JobOrder[k]] = 0
    BY <1>4 DEF Init, Outcomes
  <2>4. Chance(Stage(k, b), MarkedAt(k, b)) \in {0, 1}
    BY DEF Chance
  <2>5. /\ Ahead(Stage(k, b), MarkedAt(k, b), Open(k, b), attempts[JobOrder[k]]) \in Nat
        /\ Ahead(Stage(k, b), MarkedAt(k, b), Open(k, b), attempts[JobOrder[k]]) <= MaxAttempts
    BY <2>3, AheadTyped
  <2>6. Settled(k, b)
    BY <2>2, <2>3, <2>4 DEF Settled
  <2>7. Failures(k, b) <= MaxAttempts /\ Rounds(k, b) = 1
    BY <1>1, <2>2, <2>3, <2>5 DEF Failures, Rounds
  <2> QED
    BY <1>1, <2>6, <2>7 DEF Retried
<1> QED
  BY <1>2, <1>3, <1>5, <1>6, <1>7, <1>8 DEF IInv, Shape, Accounts

LEMMA InvNext == IInv /\ [Next]_vars => IInv'
<1> SUFFICES ASSUME IInv, [Next]_vars PROVE IInv'
  OBVIOUS
<1>1. TypeOK /\ Shape
  BY DEF IInv, Shape
<1>2. None \notin Cycles /\ Orphan \notin Cycles
  BY LockAssumption
<1>3. CASE UNCHANGED vars
  <2>1. UNCHANGED <<now, lock, checkpoint, failed, dead, attempts, waiting, pc, at, turn, overrun, ran, failures, putOff, missed, faults>>
    BY <1>3 DEF vars, marks, retries, local, history, misses
  <2>2. TypeOK'
    BY <1>1, <2>1 DEF TypeOK
  <2> QED
    BY <2>1, <2>2, QuietKeeps
<1>4. CASE Next
  <2>1. TypeOK'
    BY <1>1, <1>4, TypeNext
  <2>2. ASSUME NEW c \in Cycles, Step(c) PROVE IInv'
    BY <2>1, <2>2, BeginKeeps, ReadMarksKeeps, ReadRetryKeeps, SucceedKeeps, FailKeeps,
       WriteCheckpointKeeps, ClearRetriesKeeps, CountFailureKeeps, BuryKeeps, DeferKeeps,
       ReleaseKeeps DEF Step
  <2>3. ASSUME NEW c \in Cycles, CommandFails(c) PROVE IInv'
    BY <2>1, <2>3, CommandFailsKeeps
  <2>4. ASSUME NEW c \in Cycles, Die(c) PROVE IInv'
    BY <2>1, <2>4, DieKeeps
  <2>5. ASSUME NEW c \in Cycles, ExpireHeld(c) PROVE IInv'
    BY <2>1, <2>5, ExpireHeldKeeps
  <2>6. ASSUME \/ AcquiredUnknown \/ ExpireOrphan \/ Tick \/ \E j \in Jobs : RetryDue(j)
        PROVE  IInv'
    <3>1. /\ UNCHANGED <<checkpoint, failed, dead, attempts, pc, at, turn, overrun, ran, failures>>
          /\ now' \in {now, now + 1} /\ faults' \in {faults, faults + 1}
          /\ lock' = lock \/ (lock \notin Cycles /\ lock' \notin Cycles)
      BY <1>2, <2>6 DEF AcquiredUnknown, ExpireOrphan, Tick, RetryDue, Fault,
                        marks, retries, local, history
    <3> QED
      BY <2>1, <3>1, QuietKeeps
  <2> QED
    BY <1>4, <2>2, <2>3, <2>4, <2>5, <2>6 DEF Next
<1> QED
  BY <1>3, <1>4

(* The account of every bucket balances in every reachable state.          *)
THEOREM Invariance == Spec => []IInv
BY InvInit, InvNext, PTL DEF Spec

(* Every variable of the scheduler keeps its type.                         *)
THEOREM TypeCorrect == Spec => []TypeOK
<1>1. IInv => TypeOK
  BY DEF IInv, Shape
<1> QED
  BY <1>1, Invariance, PTL

(* One cycle at a time works under the lock; a bucket of a job is done or  *)
(* given up once, but for one more time per fault, and sees no more than   *)
(* MaxAttempts failures and as many more per fault.                        *)
THEOREM WorkIsDoneOnce == Spec => []OneCycle
<1>1. IInv => OneCycle
  <2> SUFFICES ASSUME IInv PROVE OneCycle
    OBVIOUS
  <2>1. Shape /\ TypeOK
    BY DEF IInv, Shape
  <2>2. \A c, d \in Cycles :
          pc[c] \in Inside /\ pc[d] \in Inside /\ c \notin overrun /\ d \notin overrun => c = d
    BY <2>1 DEF Shape, Exclusive
  <2>3. ASSUME NEW j \in Jobs, NEW b \in Buckets
        PROVE  ran[j][b] + dead[j][b] <= 1 + faults /\ failures[j][b] <= MaxAttempts * (1 + faults)
    <3> PICK k \in Positions : j = JobOrder[k]
      BY DEF Jobs, Range, Positions
    <3>1. Settled(k, b) /\ Retried(k, b)
      BY DEF IInv, Accounts
    <3>2. /\ Cardinality(Owing(k)) \in Nat /\ Cardinality(Unsettling(k, b)) \in Nat
          /\ faults \in Nat
      BY <2>1, Counted
    <3>3. /\ Outcomes(k, b) \in Nat /\ Failures(k, b) \in Nat
          /\ failures[j][b] \in Nat /\ attempts[j] \in Nat
      BY <2>1, ClaimsTyped
    <3>4. Chance(Stage(k, b), MarkedAt(k, b)) \in Nat
      BY DEF Chance
    <3>5. Outcomes(k, b) <= 1 + faults
      BY <3>1, <3>2, <3>3, <3>4 DEF Settled
    <3>6. failures[j][b] <= Failures(k, b)
      <4>1. Ahead(Stage(k, b), MarkedAt(k, b), Open(k, b), attempts[j]) \in Nat
        BY <3>3, AheadTyped
      <4> QED
        BY <3>3, <4>1 DEF Failures
    <3>7. Failures(k, b) <= MaxAttempts * (1 + faults)
      <4>1. Failures(k, b) <= MaxAttempts * Rounds(k, b)
        BY <3>1 DEF Retried
      <4>2. Rounds(k, b) \in Int /\ Rounds(k, b) <= 1 + faults
        BY <3>2 DEF Rounds
      <4> QED
        BY <3>2, <3>3, <4>1, <4>2, Budget
    <3>8. MaxAttempts * (1 + faults) \in Int
      BY <3>2, BoundsAssumption
    <3> QED
      BY <3>3, <3>5, <3>6, <3>7, <3>8 DEF Outcomes
  <2> QED
    BY <2>2, <2>3 DEF OneCycle
<1> QED
  BY <1>1, Invariance, PTL

-----------------------------------------------------------------------------
(* What holds a job up                                                     *)

Done == {"count", "bury", "defer", "release"}

(* Cycles that will end without having looked at the job at k, or that have *)
(* seen it fail.                                                           *)
Overlooking(k, b) ==
  {c \in Cycles : /\ pc[c] \in Done /\ turn[c] <= k
                  /\ Bucket(JobOrder[k], at[c]) = b /\ PassedOver(c, JobOrder[k])}

Balance(k, b) ==
  missed[JobOrder[k]][b] + Cardinality(Overlooking(k, b)) <= FailuresAlongside(k, b) + faults

(* A cycle has not passed over a job that it has looked at.                *)
LookedAt(c) == \A i \in Positions : i < turn[c] => ~PassedOver(c, JobOrder[i])

LooksInv ==
  /\ \A c \in Cycles : LookedAt(c)
  /\ \A k \in Positions, b \in Buckets : Balance(k, b)

SameCycle(d) == UNCHANGED <<pc[d], turn[d], at[d], putOff[d]>>

MarksStay == \A j \in Jobs : checkpoint[j] \subseteq checkpoint'[j] /\ failed[j] \subseteq failed'[j]

LEMMA OverlookingFew ==
  ASSUME Shape, NEW k \in Positions, NEW b \in Buckets
  PROVE  IsFiniteSet(Overlooking(k, b)) /\ Cardinality(Overlooking(k, b)) \in Nat
<1>1. Overlooking(k, b) \subseteq overrun \cup {lock}
  BY DEF Shape, Exclusive, Overlooking, Done, Inside, Steps
<1>2. IsFiniteSet(overrun)
  BY DEF Shape, FewOverrun
<1> QED
  BY <1>1, <1>2, OneMore

LEMMA BlameTyped ==
  ASSUME TypeOK, NEW k \in Positions, NEW b \in Buckets
  PROVE  /\ IsFiniteSet(Alongside[k][b]) /\ Alongside[k][b] \subseteq Positions \X Buckets
         /\ [p \in Alongside[k][b] |-> failures[JobOrder[p[1]]][p[2]]] \in [Alongside[k][b] -> Int]
         /\ FailuresAlongside(k, b) \in Int
         /\ missed[JobOrder[k]][b] \in Nat /\ faults \in Nat
<1>1. Alongside[k][b] \subseteq Positions \X Buckets
  BY DEF Alongside
<1>2. IsFiniteSet(Positions \X Buckets)
  <2>1. Positions = 1 .. Len(JobOrder) /\ Len(JobOrder) \in Nat
    BY JobsAssumption DEF Positions
  <2>2. IsFiniteSet(Positions) /\ IsFiniteSet(Buckets)
    BY <2>1, BoundsAssumption, FS_Interval DEF Buckets
  <2> QED
    BY <2>2, FS_Product
<1>3. IsFiniteSet(Alongside[k][b])
  BY <1>1, <1>2, FS_Subset
<1>4. \A i \in Positions : JobOrder[i] \in Jobs
  BY Position
<1>5. \A p \in Alongside[k][b] : failures[JobOrder[p[1]]][p[2]] \in Int
  BY <1>1, <1>4 DEF TypeOK
<1>6. FailuresAlongside(k, b) \in Int
  BY <1>3, <1>5, SumFunctionInt DEF FailuresAlongside
<1>7. missed[JobOrder[k]][b] \in Nat /\ faults \in Nat
  BY <1>4, BoundsAssumption DEF TypeOK
<1> QED
  BY <1>1, <1>3, <1>5, <1>6, <1>7

LEMMA LooksInit == Init => LooksInv
<1> SUFFICES ASSUME Init PROVE LooksInv
  OBVIOUS
<1>1. TypeOK
  BY InvInit DEF IInv, Shape
<1>2. \A c \in Cycles : LookedAt(c)
  BY Position DEF Init, LookedAt
<1>3. ASSUME NEW k \in Positions, NEW b \in Buckets PROVE Balance(k, b)
  <2>1. \A i \in Positions : JobOrder[i] \in Jobs
    BY Position
  <2>2. Overlooking(k, b) = {}
    BY DEF Init, Overlooking, Done
  <2>3. Cardinality(Overlooking(k, b)) = 0
    BY <2>2, FS_EmptySet
  <2>4. missed[JobOrder[k]][b] = 0 /\ faults = 0
    BY <2>1 DEF Init
  <2> DEFINE f == [p \in Alongside[k][b] |-> failures[JobOrder[p[1]]][p[2]]]
  <2>5. \A p \in Alongside[k][b] : f[p] = 0
    <3>1. Alongside[k][b] \subseteq Positions \X Buckets
      BY DEF Alongside
    <3> QED
      BY <2>1, <3>1 DEF Init
  <2>6. IsFiniteSet(Alongside[k][b]) /\ f \in [Alongside[k][b] -> Int]
    BY <1>1, BlameTyped
  <2>7. SumFunction(f) = 0
    <3> HIDE DEF f
    <3> QED
      BY <2>5, <2>6, SumFunctionZero
  <2> QED
    BY <2>3, <2>4, <2>7 DEF Balance, FailuresAlongside
<1> QED
  BY <1>2, <1>3 DEF LooksInv

(* A mark or a delay that is seen does not go away in the cycle.           *)
LEMMA PassedOverLess ==
  ASSUME TypeOK, MarksStay, NEW c \in Cycles, UNCHANGED at[c], putOff[c] \subseteq putOff'[c],
         NEW i \in Positions, PassedOver(c, JobOrder[i])'
  PROVE  PassedOver(c, JobOrder[i])
BY Position DEF PassedOver, Marks, MarksStay

(* Nothing but c moves, and c does not come to overlook anything new.      *)
LEMMA BalanceKept ==
  ASSUME IInv, IInv', LooksInv, MarksStay, NEW c, \A d \in Cycles \ {c} : SameCycle(d),
         UNCHANGED <<missed, failures>>, faults <= faults',
         NEW k \in Positions, NEW b \in Buckets,
         c \in Overlooking(k, b)' => c \in Overlooking(k, b) \/ faults + 1 <= faults'
  PROVE  Balance(k, b)'
<1>1. TypeOK /\ TypeOK' /\ Shape /\ Shape'
  BY DEF IInv, Shape
<1>2. \A d \in Cycles \ {c} : d \in Overlooking(k, b)' => d \in Overlooking(k, b)
  <2> SUFFICES ASSUME NEW d \in Cycles \ {c}, d \in Overlooking(k, b)' PROVE d \in Overlooking(k, b)
    OBVIOUS
  <2>1. SameCycle(d)
    OBVIOUS
  <2>2. PassedOver(d, JobOrder[k])'
    BY DEF Overlooking
  <2>3. PassedOver(d, JobOrder[k])
    BY <1>1, <2>1, <2>2, PassedOverLess DEF SameCycle
  <2> QED
    BY <2>1, <2>3 DEF Overlooking, SameCycle
<1>3. Overlooking(k, b)' \subseteq Overlooking(k, b) \cup {c}
  BY <1>2 DEF Overlooking
<1>4. IsFiniteSet(Overlooking(k, b)) /\ Cardinality(Overlooking(k, b)) \in Nat
  BY <1>1, OverlookingFew
<1>5. IsFiniteSet(Overlooking(k, b)') /\ Cardinality(Overlooking(k, b)') \in Nat
      /\ Cardinality(Overlooking(k, b)') <= Cardinality(Overlooking(k, b)) + 1
  BY <1>3, <1>4, OneMore
<1>6. c \notin Overlooking(k, b)' \/ c \in Overlooking(k, b) =>
        Cardinality(Overlooking(k, b)') <= Cardinality(Overlooking(k, b))
  BY <1>3, <1>4, Fewer
<1>7. FailuresAlongside(k, b)' = FailuresAlongside(k, b)
  BY DEF FailuresAlongside
<1>8. /\ FailuresAlongside(k, b) \in Int /\ missed[JobOrder[k]][b] \in Nat
      /\ faults \in Nat /\ faults' \in Nat
  BY <1>1, BlameTyped, BoundsAssumption DEF TypeOK
<1>9. Balance(k, b)
  BY DEF LooksInv
<1> QED
  BY <1>4, <1>5, <1>6, <1>7, <1>8, <1>9 DEF Balance

(* The other cycles have looked where they had.                            *)
LEMMA OthersLooked ==
  ASSUME TypeOK, LooksInv, MarksStay, NEW d \in Cycles, SameCycle(d)
  PROVE  LookedAt(d)'
<1> SUFFICES ASSUME NEW i \in Positions, i < turn'[d], PassedOver(d, JobOrder[i])' PROVE FALSE
  BY DEF LookedAt
<1>1. PassedOver(d, JobOrder[i])
  BY PassedOverLess DEF SameCycle
<1> QED
  BY <1>1 DEF LooksInv, LookedAt, SameCycle

(* A cycle that goes on, or has come to its end.                           *)
LEMMA MoveLooks ==
  ASSUME IInv, IInv', LooksInv, MarksStay, NEW c \in Cycles, \A d \in Cycles \ {c} : SameCycle(d),
         UNCHANGED <<missed, failures, faults, at>>, putOff[c] \subseteq putOff'[c],
         NEW n \in Positions, n = turn[c],
         \/ UNCHANGED turn /\ pc'[c] \notin Done
         \/ UNCHANGED turn /\ pc[c] \in Done
         \/ ~PassedOver(c, JobOrder[n])' /\ Advance(c)
  PROVE  LooksInv'
<1>1. TypeOK /\ TypeOK'
  BY DEF IInv, Shape
<1>2. Positions = 1 .. Len(JobOrder) /\ Len(JobOrder) \in Nat
  BY JobsAssumption DEF Positions
<1>3. \A i \in Positions : PassedOver(c, JobOrder[i])' => PassedOver(c, JobOrder[i])
  BY <1>1, PassedOverLess
<1>4. \A i \in Positions : i < n => ~PassedOver(c, JobOrder[i])'
  BY <1>3 DEF LooksInv, LookedAt
<1>5. Advance(c) => \/ turn'[c] = n + 1 /\ pc'[c] = "read"
                    \/ turn'[c] = n /\ n = Len(JobOrder)
  BY <1>1, <1>2 DEF Advance, Goto, TypeOK
<1>6. \A i \in Positions : i < turn'[c] => ~PassedOver(c, JobOrder[i])'
  BY <1>2, <1>4, <1>5
<1>7. \A d \in Cycles : LookedAt(d)'
  BY <1>1, <1>6, OthersLooked DEF LookedAt
<1>8. ASSUME NEW k \in Positions, NEW b \in Buckets PROVE Balance(k, b)'
  <2>1. ASSUME c \in Overlooking(k, b)' PROVE c \in Overlooking(k, b)
    <3>1. /\ pc'[c] \in Done /\ turn'[c] <= k /\ Bucket(JobOrder[k], at[c]) = b
          /\ PassedOver(c, JobOrder[k])'
      BY <2>1 DEF Overlooking
    <3>2. CASE Advance(c) /\ ~PassedOver(c, JobOrder[n])'
      <4>1. turn'[c] = n /\ n = Len(JobOrder)
        BY <1>5, <3>1, <3>2 DEF Done
      <4>2. k = n
        BY <1>2, <3>1, <4>1
      <4> QED
        BY <3>1, <3>2, <4>2
    <3>3. CASE UNCHANGED turn /\ pc[c] \in Done
      BY <1>3, <3>1, <3>3 DEF Overlooking
    <3> QED
      BY <3>1, <3>2, <3>3
  <2>2. faults <= faults'
    BY <1>1, BoundsAssumption DEF TypeOK
  <2> QED
    BY <2>1, <2>2, BalanceKept
<1> QED
  BY <1>7, <1>8 DEF LooksInv

LEMMA StepLooks ==
  ASSUME IInv, IInv', LooksInv, NEW c \in Cycles,
         \/ ReadMarks(c) \/ ReadRetry(c) \/ Succeed(c) \/ WriteCheckpoint(c)
         \/ ClearRetries(c) \/ CountFailure(c) \/ Bury(c) \/ Defer(c)
  PROVE  LooksInv'
<1>1. TypeOK /\ Shape
  BY DEF IInv, Shape
<1>2. PICK n \in Positions : n = turn[c]
  BY <1>1, InBuckets
<1>3. JobOf(c) = JobOrder[n] /\ JobOf(c) \in Jobs /\ BucketOf(c) = Bucket(JobOrder[n], at[c])
  BY <1>1, <1>2, InBuckets DEF JobOf
<1>4. UNCHANGED <<missed, failures, faults, at>>
  BY DEF ReadMarks, ReadRetry, Succeed, WriteCheckpoint, ClearRetries, CountFailure, Bury, Defer,
         history, misses, local
<1>5. MarksStay
  <2>1. CASE WriteCheckpoint(c)
    BY <1>1, <2>1 DEF MarksStay, WriteCheckpoint, TypeOK
  <2>2. CASE Bury(c)
    BY <1>1, <2>2 DEF MarksStay, Bury, TypeOK
  <2>3. CASE UNCHANGED marks
    BY <2>3 DEF MarksStay, marks
  <2> QED
    BY <2>1, <2>2, <2>3 DEF ReadMarks, ReadRetry, Succeed, ClearRetries, CountFailure, Defer
<1>6. UNCHANGED putOff \/ putOff' = [putOff EXCEPT ![c] = @ \cup {JobOf(c)}]
  BY DEF ReadMarks, ReadRetry, Succeed, WriteCheckpoint, ClearRetries, CountFailure, Bury, Defer, misses
<1>7. putOff[c] \subseteq putOff'[c] /\ \A d \in Cycles \ {c} : putOff'[d] = putOff[d]
  BY <1>1, <1>6 DEF TypeOK
<1>8. Advance(c) => \A d \in Cycles \ {c} : UNCHANGED <<pc[d], turn[d]>>
  BY <1>1 DEF Advance, Goto, TypeOK
<1>9. ASSUME NEW step, Goto(c, step) PROVE pc'[c] = step /\ \A d \in Cycles \ {c} : pc'[d] = pc[d]
  BY <1>1, <1>9 DEF Goto, TypeOK
<1>10. \/ Advance(c)
       \/ UNCHANGED turn /\ \E step \in Steps : Goto(c, step)
  <2>1. CASE ReadMarks(c)
    BY <2>1 DEF ReadMarks, Steps
  <2>2. CASE ReadRetry(c)
    BY <2>2 DEF ReadRetry, Steps
  <2>3. CASE Succeed(c) \/ WriteCheckpoint(c)
    BY <2>3 DEF Succeed, WriteCheckpoint, Steps, local
  <2>4. CASE ClearRetries(c)
    BY <2>4 DEF ClearRetries
  <2>5. CASE CountFailure(c)
    <3>1. PICK step \in Steps : Goto(c, step) /\ UNCHANGED turn
      BY <2>5 DEF CountFailure, Steps, local
    <3> QED
      BY <3>1
  <2>6. CASE Bury(c) \/ Defer(c)
    BY <2>6 DEF Bury, Defer, Steps, local
  <2> QED
    BY <2>1, <2>2, <2>3, <2>4, <2>5, <2>6
<1>11. \A d \in Cycles \ {c} : SameCycle(d)
  BY <1>4, <1>7, <1>8, <1>9, <1>10 DEF SameCycle
<1>12. ASSUME ~PassedOver(c, JobOrder[n]) PROVE ~PassedOver(c, JobOrder[n])'
  BY <1>1, <1>4, <1>5, <1>7, <1>12, PassedOverLess
<1>13. Marked(c) => ~PassedOver(c, JobOrder[n])
  BY <1>3 DEF Marked, PassedOver
<1>14. CASE ReadMarks(c)
  <2>1. CASE Marked(c) /\ Advance(c)
    BY <1>2, <1>4, <1>5, <1>7, <1>11, <1>12, <1>13, <2>1, MoveLooks
  <2>2. CASE Goto(c, "due") /\ UNCHANGED turn
    BY <1>2, <1>4, <1>5, <1>7, <1>9, <1>11, <2>2, MoveLooks DEF Done
  <2> QED
    BY <1>14, <2>1, <2>2 DEF ReadMarks
<1>15. CASE ReadRetry(c)
  <2>1. CASE Advance(c) /\ putOff' = [putOff EXCEPT ![c] = @ \cup {JobOf(c)}]
    <3>1. JobOrder[n] \in putOff'[c]
      BY <1>1, <1>3, <2>1 DEF TypeOK
    <3>2. ~PassedOver(c, JobOrder[n])'
      BY <3>1 DEF PassedOver
    <3> QED
      BY <1>2, <1>4, <1>5, <1>7, <1>11, <2>1, <3>2, MoveLooks
  <2>2. CASE Goto(c, "run") /\ UNCHANGED turn
    BY <1>2, <1>4, <1>5, <1>7, <1>9, <1>11, <2>2, MoveLooks DEF Done
  <2> QED
    BY <1>15, <2>1, <2>2 DEF ReadRetry
<1>16. CASE Succeed(c) \/ WriteCheckpoint(c)
  <2>1. UNCHANGED turn /\ pc'[c] \notin Done
    BY <1>9, <1>16 DEF Succeed, WriteCheckpoint, local, Done
  <2> QED
    BY <1>2, <1>4, <1>5, <1>7, <1>11, <2>1, MoveLooks
<1>17. CASE ClearRetries(c)
  <2>1. Marked(c) /\ Advance(c)
    BY <1>1, <1>17 DEF ClearRetries, Shape, Cleared
  <2> QED
    BY <1>2, <1>4, <1>5, <1>7, <1>11, <1>12, <1>13, <2>1, MoveLooks
<1>18. CASE CountFailure(c) \/ Bury(c) \/ Defer(c)
  <2>1. UNCHANGED turn /\ pc[c] \in Done
    BY <1>18 DEF CountFailure, Bury, Defer, local, Done
  <2> QED
    BY <1>2, <1>4, <1>5, <1>7, <1>11, <2>1, MoveLooks
<1> QED
  BY <1>14, <1>15, <1>16, <1>17, <1>18

(* A failure is one more that may have held up this job and later ones.    *)
LEMMA FailLooks ==
  ASSUME IInv, IInv', LooksInv, NEW c \in Cycles, NEW permanent, Fail(c, permanent)
  PROVE  LooksInv'
<1>1. TypeOK /\ TypeOK' /\ Shape /\ Shape'
  BY DEF IInv, Shape
<1>2. PICK n \in Positions, i \in Buckets : n = turn[c] /\ i = Bucket(JobOrder[n], at[c])
  BY <1>1, InBuckets
<1>3. /\ failures' = Once(failures, c) /\ pc[c] = "run"
      /\ UNCHANGED <<checkpoint, failed, turn, at, putOff, missed, faults>>
  BY DEF Fail, marks, local, misses
<1>4. \A d \in Cycles \ {c} : SameCycle(d)
  BY <1>1, <1>3 DEF Fail, Goto, SameCycle, TypeOK
<1>5. MarksStay
  BY <1>3 DEF MarksStay
<1>6. \A d \in Cycles : LookedAt(d)'
  BY <1>3 DEF LooksInv, LookedAt, PassedOver, Marks
<1>7. ASSUME NEW k \in Positions, NEW b \in Buckets PROVE Balance(k, b)'
  <2> DEFINE f == [p \in Alongside[k][b] |-> failures[JobOrder[p[1]]][p[2]]]
             g == [p \in Alongside[k][b] |-> failures'[JobOrder[p[1]]][p[2]]]
  <2>1. /\ IsFiniteSet(Alongside[k][b]) /\ Alongside[k][b] \subseteq Positions \X Buckets
        /\ f \in [Alongside[k][b] -> Int] /\ g \in [Alongside[k][b] -> Int]
        /\ SumFunction(f) \in Int /\ missed[JobOrder[k]][b] \in Nat /\ faults \in Nat
    <3>1. /\ IsFiniteSet(Alongside[k][b]) /\ Alongside[k][b] \subseteq Positions \X Buckets
          /\ f \in [Alongside[k][b] -> Int]
          /\ missed[JobOrder[k]][b] \in Nat /\ faults \in Nat
      BY <1>1, BlameTyped
    <3>2. \A x \in Positions : JobOrder[x] \in Jobs
      BY Position
    <3>3. g \in [Alongside[k][b] -> Int]
      BY <1>1, <3>1, <3>2 DEF TypeOK
    <3> HIDE DEF f, g
    <3> QED
      BY <3>1, <3>3, SumFunctionInt
  <2>2. \A p \in Alongside[k][b] : g[p] = IF p = <<n, i>> THEN f[p] + 1 ELSE f[p]
    <3>1. failures \in [Jobs -> [Buckets -> Nat]]
      BY <1>1 DEF TypeOK
    <3>2. \A x \in Positions, y \in Buckets :
            failures'[JobOrder[x]][y] =
              IF Here(c, x, y) THEN failures[JobOrder[x]][y] + 1 ELSE failures[JobOrder[x]][y]
      BY <1>1, <1>3, <3>1, OnceMore
    <3>3. \A x \in Positions, y \in Buckets : Here(c, x, y) <=> x = n /\ y = i
      BY <1>2 DEF Here
    <3> QED
      BY <2>1, <3>2, <3>3
  <2>3. FailuresAlongside(k, b) = SumFunction(f) /\ FailuresAlongside(k, b)' = SumFunction(g)
    BY DEF FailuresAlongside
  <2>4. Overlooking(k, b)' \subseteq Overlooking(k, b) \cup {c}
    BY <1>3, <1>4 DEF Overlooking, SameCycle, PassedOver, Marks
  <2>5. /\ IsFiniteSet(Overlooking(k, b)) /\ Cardinality(Overlooking(k, b)) \in Nat
        /\ Cardinality(Overlooking(k, b)') \in Nat
    BY <1>1, <2>4, OverlookingFew, OneMore
  <2>6. Balance(k, b)
    BY DEF LooksInv
  <2> HIDE DEF f, g
  <2>7. CASE <<n, i>> \in Alongside[k][b]
    <3>1. SumFunction(g) = SumFunction(f) - f[<<n, i>>] + g[<<n, i>>]
      BY <2>1, <2>2, <2>7, SumFunctionUpdate
    <3>2. SumFunction(g) = SumFunction(f) + 1
      <4>1. f[<<n, i>>] \in Int /\ g[<<n, i>>] = f[<<n, i>>] + 1
        BY <2>1, <2>2, <2>7
      <4> QED
        BY <2>1, <3>1, <4>1
    <3>3. Cardinality(Overlooking(k, b)') <= Cardinality(Overlooking(k, b)) + 1
      BY <2>4, <2>5, OneMore
    <3> QED
      BY <1>3, <2>1, <2>3, <2>5, <2>6, <3>2, <3>3 DEF Balance
  <2>8. CASE <<n, i>> \notin Alongside[k][b]
    <3>1. f = g
      BY <2>1, <2>2, <2>8
    <3>2. c \notin Overlooking(k, b)'
      <4> SUFFICES ASSUME c \in Overlooking(k, b)' PROVE FALSE
        OBVIOUS
      <4>1. n <= k /\ Bucket(JobOrder[k], at[c]) = b /\ at[c] \in 0 .. MaxTime
        BY <1>1, <1>2, <1>3 DEF Overlooking, TypeOK
      <4> QED
        BY <1>2, <2>8, <4>1 DEF Alongside
    <3>3. Cardinality(Overlooking(k, b)') <= Cardinality(Overlooking(k, b))
      BY <2>4, <2>5, <3>2, Fewer
    <3> QED
      BY <1>3, <2>1, <2>3, <2>5, <2>6, <3>1, <3>3 DEF Balance
  <2> QED
    BY <2>7, <2>8
<1> QED
  BY <1>6, <1>7 DEF LooksInv

(* A cycle ends: what it has overlooked is counted.                        *)
LEMMA ReleaseLooks ==
  ASSUME IInv, IInv', LooksInv, NEW c \in Cycles, Release(c)
  PROVE  LooksInv'
<1>1. TypeOK /\ TypeOK' /\ Shape /\ Shape'
  BY DEF IInv, Shape
<1>2. /\ pc[c] = "release" /\ UNCHANGED <<checkpoint, failed, failures, faults>>
      /\ pc'[c] = "idle" /\ turn'[c] = 1
  BY <1>1 DEF Release, Leave, Goto, marks, history, TypeOK
<1>3. \A d \in Cycles \ {c} : SameCycle(d)
  BY <1>1 DEF Release, Leave, Goto, SameCycle, TypeOK
<1>4. MarksStay
  BY <1>2 DEF MarksStay
<1>5. \A d \in Cycles : LookedAt(d)'
  <2>1. LookedAt(c)'
    BY <1>2, Position DEF LookedAt
  <2> QED
    BY <1>1, <1>3, <1>4, <2>1, OthersLooked
<1>6. ASSUME NEW k \in Positions, NEW b \in Buckets PROVE Balance(k, b)'
  <2>1. JobOrder[k] \in Jobs /\ k \in Nat
    BY Position
  <2>2. missed'[JobOrder[k]][b] = IF b = Bucket(JobOrder[k], at[c]) /\ PassedOver(c, JobOrder[k])
                                    THEN missed[JobOrder[k]][b] + 1 ELSE missed[JobOrder[k]][b]
    BY <2>1 DEF Release
  <2>3. Overlooking(k, b)' \subseteq Overlooking(k, b) \ {c}
    BY <1>2, <1>3 DEF Overlooking, Done, SameCycle, PassedOver, Marks
  <2>4. /\ IsFiniteSet(Overlooking(k, b)) /\ Cardinality(Overlooking(k, b)) \in Nat
        /\ Cardinality(Overlooking(k, b)') \in Nat
    BY <1>1, <2>3, OverlookingFew, Fewer
  <2>5. /\ FailuresAlongside(k, b) \in Int /\ missed[JobOrder[k]][b] \in Nat /\ faults \in Nat
        /\ FailuresAlongside(k, b)' = FailuresAlongside(k, b)
    BY <1>1, <1>2, BlameTyped DEF FailuresAlongside
  <2>6. Balance(k, b)
    BY DEF LooksInv
  <2>7. CASE b = Bucket(JobOrder[k], at[c]) /\ PassedOver(c, JobOrder[k])
    <3>1. turn[c] <= k
      <4>1. ~(k < turn[c])
        BY <2>7 DEF LooksInv, LookedAt
      <4>2. turn[c] \in Nat
        BY <1>1, InBuckets, Position
      <4> QED
        BY <2>1, <4>1, <4>2
    <3>2. c \in Overlooking(k, b)
      BY <1>2, <2>7, <3>1 DEF Overlooking, Done
    <3>3. Cardinality(Overlooking(k, b)') + 1 <= Cardinality(Overlooking(k, b))
      BY <2>3, <2>4, <3>2, OneFewer
    <3> QED
      BY <1>2, <2>2, <2>4, <2>5, <2>6, <2>7, <3>3 DEF Balance
  <2>8. CASE ~(b = Bucket(JobOrder[k], at[c]) /\ PassedOver(c, JobOrder[k]))
    <3>1. Cardinality(Overlooking(k, b)') <= Cardinality(Overlooking(k, b))
      BY <2>3, <2>4, Fewer
    <3> QED
      BY <1>2, <2>2, <2>4, <2>5, <2>6, <2>8, <3>1 DEF Balance
  <2> QED
    BY <2>7, <2>8
<1> QED
  BY <1>5, <1>6 DEF LooksInv

(* A cycle begins, dies, or is stopped by a command that fails.            *)
LEMMA FaultLooks ==
  ASSUME IInv, IInv', LooksInv, NEW c \in Cycles, Begin(c) \/ CommandFails(c) \/ Die(c)
  PROVE  LooksInv'
<1>1. TypeOK /\ TypeOK' /\ Shape
  BY DEF IInv, Shape
<1>2. UNCHANGED <<checkpoint, failed, failures, missed>> /\ faults <= faults'
  BY <1>1, BoundsAssumption DEF Begin, CommandFails, Die, Fault, marks, history, misses, TypeOK
<1>3. \A d \in Cycles \ {c} : SameCycle(d)
  <2>1. CASE Begin(c)
    BY <1>1, <2>1 DEF Begin, Goto, SameCycle, misses, TypeOK
  <2>2. CASE CommandFails(c)
    BY <1>1, <2>2 DEF CommandFails, Goto, SameCycle, misses, local, TypeOK
  <2>3. CASE Die(c)
    BY <1>1, <2>3 DEF Die, Leave, Goto, SameCycle, TypeOK
  <2> QED
    BY <2>1, <2>2, <2>3
<1>4. MarksStay
  BY <1>2 DEF MarksStay
<1>5. \/ turn'[c] = 1 /\ pc'[c] \notin Done
      \/ UNCHANGED <<turn, at, putOff>> /\ faults + 1 <= faults'
  <2>1. CASE Begin(c) \/ Die(c)
    BY <1>1, <2>1 DEF Begin, Die, Leave, Goto, TypeOK, Done
  <2>2. CASE CommandFails(c)
    BY <1>1, <2>2, BoundsAssumption DEF CommandFails, Fault, local, misses, TypeOK
  <2> QED
    BY <2>1, <2>2
<1>6. LookedAt(c)'
  <2>1. CASE turn'[c] = 1
    BY <2>1, Position DEF LookedAt
  <2>2. CASE UNCHANGED <<turn, at, putOff>>
    BY <1>2, <2>2 DEF LooksInv, LookedAt, PassedOver, Marks
  <2> QED
    BY <1>5, <2>1, <2>2
<1>7. \A d \in Cycles : LookedAt(d)'
  BY <1>1, <1>3, <1>4, <1>6, OthersLooked
<1>8. ASSUME NEW k \in Positions, NEW b \in Buckets PROVE Balance(k, b)'
  <2>1. c \in Overlooking(k, b)' => faults + 1 <= faults'
    BY <1>5 DEF Overlooking
  <2> QED
    BY <1>2, <1>3, <1>4, <2>1, BalanceKept
<1> QED
  BY <1>7, <1>8 DEF LooksInv

LEMMA LooksNext ==
  ASSUME IInv, LooksInv, [Next]_vars
  PROVE  LooksInv'
<1>1. IInv' /\ TypeOK
  BY InvNext DEF IInv, Shape
<1>2. ASSUME NEW c \in Cycles, Step(c) PROVE LooksInv'
  BY <1>1, <1>2, StepLooks, FailLooks, ReleaseLooks, FaultLooks DEF Step
<1>3. ASSUME NEW c \in Cycles, CommandFails(c) \/ Die(c) PROVE LooksInv'
  BY <1>1, <1>3, FaultLooks
<1>4. ASSUME UNCHANGED <<checkpoint, failed, failures, missed, pc, turn, at, putOff>>, faults <= faults'
      PROVE  LooksInv'
  <2>1. MarksStay /\ \A d \in Cycles : SameCycle(d)
    BY <1>4 DEF MarksStay, SameCycle
  <2>2. \A d \in Cycles : LookedAt(d)'
    BY <1>1, <2>1, OthersLooked
  <2>3. ASSUME NEW k \in Positions, NEW b \in Buckets PROVE Balance(k, b)'
    <3>1. \A c \in Cycles : c \in Overlooking(k, b)' => c \in Overlooking(k, b)
      BY <1>4 DEF Overlooking, PassedOver, Marks
    <3>2. None \in Overlooking(k, b)' => None \in Overlooking(k, b)
      BY <3>1 DEF Overlooking
    <3> QED
      BY <1>1, <1>4, <2>1, <3>2, BalanceKept
  <2> QED
    BY <2>2, <2>3 DEF LooksInv
<1>5. CASE UNCHANGED vars
  BY <1>1, <1>4, <1>5, BoundsAssumption DEF vars, marks, local, history, misses, TypeOK
<1>6. ASSUME \/ \E c \in Cycles : ExpireHeld(c)
             \/ AcquiredUnknown \/ ExpireOrphan \/ Tick \/ \E j \in Jobs : RetryDue(j)
      PROVE  LooksInv'
  <2>1. /\ UNCHANGED <<checkpoint, failed, failures, missed, pc, turn, at, putOff>>
        /\ faults' \in {faults, faults + 1}
    BY <1>6 DEF ExpireHeld, AcquiredUnknown, ExpireOrphan, Tick, RetryDue, Fault,
                marks, local, history, misses
  <2>2. faults <= faults'
    BY <1>1, <2>1, BoundsAssumption DEF TypeOK
  <2> QED
    BY <1>4, <2>1, <2>2
<1> QED
  BY <1>2, <1>3, <1>5, <1>6 DEF Next

(* For any number of jobs and cycles, whatever the periods: a cycle leaves *)
(* a due job of its bucket unresolved at most once for each failure of it  *)
(* or of a job before it in that time, and for each fault.                 *)
THEOREM DelaysAreFailures == Spec => []OnlyFailuresHoldUp
<1>1. Init => LooksInv
  BY LooksInit
<1>2. IInv /\ LooksInv /\ [Next]_vars => LooksInv'
  BY LooksNext
<1>3. ASSUME IInv, LooksInv PROVE OnlyFailuresHoldUp
  <2>1. TypeOK /\ Shape
    BY <1>3 DEF IInv, Shape
  <2>2. ASSUME NEW k \in Positions, NEW b \in Buckets
        PROVE  missed[JobOrder[k]][b] <= FailuresAlongside(k, b) + faults
    <3>1. /\ FailuresAlongside(k, b) \in Int /\ missed[JobOrder[k]][b] \in Nat /\ faults \in Nat
          /\ Cardinality(Overlooking(k, b)) \in Nat
      BY <2>1, BlameTyped, OverlookingFew
    <3> QED
      BY <1>3, <3>1 DEF LooksInv, Balance
  <2> QED
    BY <2>2 DEF OnlyFailuresHoldUp
<1>4. IInv /\ LooksInv => OnlyFailuresHoldUp
  BY <1>3
<1> QED
  BY <1>1, <1>2, <1>4, Invariance, PTL DEF Spec

(***************************************************************************)
(* Guests                                                                  *)
(***************************************************************************)

LinkOps   == {"brand", "adopt", "find", "create", "recode", "profile", "place"}
RewardOps == {"account", "open", "enter", "credit", "pick", "mint", "grant", "mark"}
Carriers  == {"adopt", "find", "create", "referee", "invite"}

InBrand(k, b)     == customer[k] # Null /\ customer[k].brand = b
Qualifies(k)      == Cardinality(AllVisits(k)) >= MinOrders

(* What is known of a request, and stays so.                               *)
Vouches(r) ==
  /\ r.op \in Carriers => r.brand \in made
  /\ r.op = "recode" => customer[r.customer] # Null
  /\ r.op = "profile" => r.customer # Null
  /\ r.op \in {"profile", "place"} /\ r.customer # Null => customer[r.customer] # Null
  /\ r.op = "settle" => order[r.order] # Null /\ order[r.order].customer # Null
  /\ r.op \in RewardOps => InBrand(r.customer, r.brand)
  /\ r.op \in {"enter", "credit"} => balance[r.referrer] # Null
  /\ r.op = "grant" =>
       /\ r.coupon # Null /\ coupon[r.coupon] # Null
       /\ There(coupon[r.coupon]) => coupon[r.coupon].brand = r.brand
  /\ r.op = "score" => \A k \in r.left : k \in DOMAIN r.meta /\ customer[k] # Null
  /\ r.op = "edit" =>
       customer[r.customer] # Null /\ customer[r.customer].generation = 2
  /\ r.op = "hand" =>
       /\ customer[r.customer] # Null /\ coupon[r.coupon] # Null
       /\ There(coupon[r.coupon]) => SameBusiness(r.customer, r.coupon)
  /\ r.op \in {"clear", "fill"} =>
       /\ segment[r.segment] \in {r.brand, Deleted}
       /\ \A k \in r.found : InBrand(k, r.brand) /\ Qualifies(k)
  /\ r.op = "ticket" => ticket[r.order] # Null

(* What another request could spoil: the order of a checkout is not there  *)
(* yet, and nobody has the brand that one has created and not yet adopted. *)
BrandFree(b) ==
  /\ \A r \in Restaurants : brand[r] # b
  /\ \A k \in Customers : customer[k] # Null => customer[k].brand # b

Fresh(r) ==
  /\ r.op \in LinkOps => order[r.order] = Null
  /\ r.op = "adopt" => BrandFree(r.brand)

RequestsVouched ==
  \A s \in Requests : \A r \in Request \ {Null} : req[s] = r => Vouches(r) /\ Fresh(r)

(* No two checkouts place one order, and a created brand is one request's. *)
Clash(r, q) ==
  \/ r.op \in LinkOps /\ q.op \in LinkOps /\ r.order = q.order
  \/ r.op = "adopt" /\ q.op \in Carriers /\ r.brand = q.brand

Apart ==
  \A s, t \in Requests : s # t /\ req[s] # Null /\ req[t] # Null => ~Clash(req[s], req[t])

PeopleRows ==
  /\ \A k \in Customers : customer[k] # Null => customer[k].brand \in made
  /\ \A o \in Orders : order[o] # Null /\ order[o].customer # Null => customer[order[o].customer] # Null
  /\ \A k \in Customers, r \in Restaurants :
       /\ profile[k][r] # Null => profile[k][r] = Cardinality(Paid(k, r))
       /\ Paid(k, r) # {} => profile[k][r] # Null
  /\ \A k \in Customers : customer[k] # Null =>
       /\ customer[k].total <= Cardinality(AllVisits(k))
       /\ (\A r \in Restaurants : Paid(k, r) # {} => brand[r] = customer[k].brand)
            => customer[k].total = Cardinality(AllVisits(k))

IssuedRows ==
  \A k \in Customers, c \in Coupons : issued[k][c] > 0 =>
    There(coupon[c]) /\ customer[k] # Null /\ SameBusiness(k, c)

MemberRows ==
  \A g \in Segments : \A k \in members[g] : InBrand(k, segment[g]) /\ Qualifies(k)

PointsRows ==
  \A k \in Customers :
    ledger[k] >= (IF balance[k] = Null THEN 0 ELSE balance[k]) + Cardinality(Crediting(k))

VoicesRows ==
  \A o \in Orders :
    (IF ticket[o] = Null THEN 0 ELSE 1) + Cardinality(Filing(o))
      <= IF feedback[o] # Null /\ feedback[o] <= 2 THEN 1 ELSE 0

GuestsRows == PeopleRows /\ IssuedRows /\ MemberRows /\ PointsRows /\ VoicesRows

GuestsInv == GuestsTypeOK /\ RequestsVouched /\ Apart /\ GuestsRows

PeopleTyped ==
  /\ work \in Workloads
  /\ brand \in [Restaurants -> made \cup {Null}] /\ made \subseteq Brands
  /\ customer \in [Customers -> Customer \cup {Null}]
  /\ \A j, k \in Customers : j # k /\ customer[j] # Null /\ customer[k] # Null =>
       <<customer[j].brand, customer[j].phone, customer[j].generation>>
         # <<customer[k].brand, customer[k].phone, customer[k].generation>>
  /\ profile \in [Customers -> [Restaurants -> Nat \cup {Null}]]
  /\ order \in [Orders -> Order \cup {Null}]

PointsTyped == balance \in [Customers -> Nat \cup {Null}] /\ ledger \in [Customers -> Nat]

OffersTyped ==
  /\ coupon \in [Coupons -> Coupon \cup {Null, Deleted}]
  /\ issued \in [Customers -> [Coupons -> Nat]]

GroupsTyped ==
  /\ segment \in [Segments -> Brands \cup {Null, Deleted}]
  /\ members \in [Segments -> SUBSET Customers]

VoicesTyped ==
  /\ feedback \in [Orders -> Ratings \cup {Null}]
  /\ ticket \in [Orders -> Ticket \cup {Null}]

RowsTyped == PeopleTyped /\ PointsTyped /\ OffersTyped /\ GroupsTyped /\ VoicesTyped

LEMMA GuestsTypedParts ==
  GuestsTypeOK <=> RowsTyped /\ req \in [Requests -> Request \cup {Null}]
BY DEF GuestsTypeOK, RowsTyped, PeopleTyped, PointsTyped, OffersTyped, GroupsTyped, VoicesTyped

-----------------------------------------------------------------------------
(* Requests                                                                *)

(* The operation of a request tells what it carries.                       *)
LEMMA RequestKinds ==
  ASSUME NEW r \in Request
  PROVE  /\ r.op \in {"brand", "adopt", "find", "create"} => r \in LinkRequest
         /\ r.op = "recode" => r \in RecodeRequest
         /\ r.op \in {"profile", "place"} => r \in PlaceRequest
         /\ r.op = "settle" => r \in SettleRequest
         /\ r.op \in {"referee", "invite"} => r \in ClaimRequest
         /\ r.op \in RewardOps => r \in RewardRequest
         /\ r.op = "score" => r \in ScoreRequest
         /\ r.op = "edit" => r \in EditRequest
         /\ r.op = "template" => r \in [op : {"template"}, brand : Brands, welcome : BOOLEAN]
         /\ r.op = "remove" => r \in [op : {"remove"}, coupon : Coupons]
         /\ r.op \in {"issue", "hand"} =>
              r \in [op : {"issue", "hand"}, customer : Customers, coupon : Coupons]
         /\ r.op \in {"found", "match"} =>
              r \in [op : {"found", "match"}, brand : Brands, left : SUBSET Segments]
         /\ r.op = "dissolve" => r \in [op : {"dissolve"}, segment : Segments]
         /\ r.op \in {"clear", "fill"} => r \in FillRequest
         /\ r.op \in {"rate", "file"} => r \in RateRequest
         /\ r.op = "ticket" => r \in TicketRequest
<1> USE DEF RewardOps
<1>1. CASE r \in LinkRequest
  BY <1>1 DEF LinkRequest
<1>2. CASE r \in RecodeRequest
  BY <1>2 DEF RecodeRequest
<1>3. CASE r \in PlaceRequest
  BY <1>3 DEF PlaceRequest
<1>4. CASE r \in SettleRequest
  BY <1>4 DEF SettleRequest
<1>5. CASE r \in ClaimRequest
  BY <1>5 DEF ClaimRequest
<1>6. CASE r \in RewardRequest
  BY <1>6 DEF RewardRequest
<1>7. CASE r \in ScoreRequest
  BY <1>7 DEF ScoreRequest
<1>8. CASE r \in EditRequest
  BY <1>8 DEF EditRequest
<1>9. CASE r \in OfferRequest
  BY <1>9 DEF OfferRequest
<1>10. CASE r \in SegmentRequest
  BY <1>10 DEF SegmentRequest
<1>11. CASE r \in FillRequest
  BY <1>11 DEF FillRequest
<1>12. CASE r \in RateRequest
  BY <1>12 DEF RateRequest
<1>13. CASE r \in TicketRequest
  BY <1>13 DEF TicketRequest
<1> QED
  BY <1>1, <1>2, <1>3, <1>4, <1>5, <1>6, <1>7, <1>8, <1>9, <1>10, <1>11, <1>12, <1>13 DEF Request

LEMMA RequestTypes ==
  /\ LinkRequest \subseteq Request /\ RecodeRequest \subseteq Request /\ PlaceRequest \subseteq Request
  /\ SettleRequest \subseteq Request /\ ClaimRequest \subseteq Request /\ RewardRequest \subseteq Request
  /\ ScoreRequest \subseteq Request /\ EditRequest \subseteq Request /\ OfferRequest \subseteq Request
  /\ SegmentRequest \subseteq Request /\ FillRequest \subseteq Request
  /\ RateRequest \subseteq Request /\ TicketRequest \subseteq Request
BY DEF Request

(* What a running request carries and is vouched for.                      *)
LEMMA RunningGuests ==
  ASSUME GuestsInv, NEW s \in Requests, req[s] # Null
  PROVE  req[s] \in Request /\ Vouches(req[s]) /\ Fresh(req[s])
<1>1. req[s] \in Request \ {Null}
  BY DEF GuestsInv, GuestsTypeOK
<1> QED
  BY <1>1 DEF GuestsInv, RequestsVouched

(* One request becomes r, or ends.                                         *)
Becomes(s, r) == req' = [req EXCEPT ![s] = r]

LEMMA BecomesEffect ==
  ASSUME GuestsInv, NEW s \in Requests, NEW r, Becomes(s, r)
  PROVE  \A q \in Requests : req'[q] = IF q = s THEN r ELSE req[q]
<1>1. req \in [Requests -> Request \cup {Null}]
  BY DEF GuestsInv, GuestsTypeOK
<1> QED
  BY <1>1 DEF Becomes

LEMMA NullIsNoRequest == Null \notin Request
BY NullAssumption

-----------------------------------------------------------------------------
(* What steps keep                                                         *)

(* Rows come and stay, and keep what they are.                             *)
Grows ==
  /\ made \subseteq made'
  /\ \A k \in Customers : customer[k] # Null =>
       /\ customer'[k] # Null /\ customer'[k].brand = customer[k].brand
       /\ customer'[k].generation = customer[k].generation
  /\ \A o \in Orders : order[o] # Null =>
       /\ order'[o] # Null /\ order'[o].customer = order[o].customer
       /\ order'[o].restaurant = order[o].restaurant /\ (order[o].paid => order'[o].paid)
  /\ \A k \in Customers : balance[k] # Null => balance'[k] # Null
  /\ \A c \in Coupons : coupon[c] # Null =>
       /\ coupon'[c] # Null
       /\ There(coupon'[c]) => There(coupon[c]) /\ coupon'[c].brand = coupon[c].brand
  /\ \A g \in Segments : segment[g] # Null => segment'[g] \in {segment[g], Deleted}
  /\ \A o \in Orders : ticket[o] # Null => ticket'[o] # Null

LEMMA NothingGrows ==
  ASSUME UNCHANGED <<people, points, offers, groups, voices>>
  PROVE  Grows
BY DEF Grows, people, points, offers, groups, voices

LEMMA VisitsFinite ==
  ASSUME NEW k
  PROVE  /\ IsFiniteSet(AllVisits(k)) /\ Cardinality(AllVisits(k)) \in Nat
         /\ IsFiniteSet(AllVisits(k)') /\ Cardinality(AllVisits(k)') \in Nat
         /\ \A r : /\ IsFiniteSet(Paid(k, r)) /\ Cardinality(Paid(k, r)) \in Nat
                   /\ IsFiniteSet(Paid(k, r)') /\ Cardinality(Paid(k, r)') \in Nat
<1>1. IsFiniteSet(Restaurants \X Orders)
  BY IdsAssumption, FS_Product
<1>2. IsFiniteSet(AllVisits(k)) /\ IsFiniteSet(AllVisits(k)')
  <2>1. AllVisits(k) \in SUBSET (Restaurants \X Orders) /\ AllVisits(k)' \in SUBSET (Restaurants \X Orders)
    BY DEF AllVisits
  <2> QED
    BY <1>1, <2>1, FS_Subset
<1>3. \A r : IsFiniteSet(Paid(k, r)) /\ IsFiniteSet(Paid(k, r)')
  <2> TAKE r
  <2>1. Paid(k, r) \in SUBSET Orders /\ Paid(k, r)' \in SUBSET Orders
    BY DEF Paid
  <2> QED
    BY <2>1, IdsAssumption, FS_Subset
<1> QED
  BY <1>2, <1>3, FS_CardinalityType

LEMMA VisitsGrow ==
  ASSUME Grows, NEW k
  PROVE  /\ AllVisits(k) \subseteq AllVisits(k)'
         /\ Qualifies(k) => Qualifies(k)'
<1>1. AllVisits(k) \subseteq AllVisits(k)'
  BY DEF Grows, AllVisits, Paid
<1>2. Cardinality(AllVisits(k)) <= Cardinality(AllVisits(k)')
  BY <1>1, VisitsFinite, FS_Subset
<1>3. Qualifies(k) => Qualifies(k)'
  BY <1>2, VisitsFinite, LimitsAssumption DEF Qualifies
<1> QED
  BY <1>1, <1>3

LEMMA VouchedStays ==
  ASSUME Grows, NEW q \in Request, Vouches(q)
  PROVE  Vouches(q)'
<1> DEFINE Known(k)  == k \in Customers /\ customer[k] # Null
           Place(c)  == c \in Coupons /\ coupon[c] # Null
<1>1. \A k : Known(k) => /\ customer'[k] # Null /\ customer'[k].brand = customer[k].brand
                         /\ customer'[k].generation = customer[k].generation
  BY DEF Grows
<1>3. \A k, b : k \in Customers /\ InBrand(k, b) => InBrand(k, b)'
  BY <1>1 DEF InBrand
<1>4. \A c : Place(c) =>
        /\ coupon'[c] # Null
        /\ There(coupon[c])' => There(coupon[c]) /\ coupon'[c].brand = coupon[c].brand
  BY DEF Grows, There
<1>5. q.op \in Carriers => q.brand \in made'
  BY DEF Vouches, Grows
<1>6. q.op = "recode" => customer'[q.customer] # Null
  BY <1>1, RequestKinds DEF Vouches, RecodeRequest
<1>7. q.op \in {"profile", "place"} /\ q.customer # Null => customer'[q.customer] # Null
  BY <1>1, RequestKinds DEF Vouches, PlaceRequest
<1>8. q.op = "settle" => order'[q.order] # Null /\ order'[q.order].customer # Null
  BY RequestKinds DEF Vouches, SettleRequest, Grows
<1>9. q.op \in RewardOps => InBrand(q.customer, q.brand)'
  BY <1>3, RequestKinds DEF Vouches, RewardRequest
<1>10. q.op \in {"enter", "credit"} => balance'[q.referrer] # Null
  BY RequestKinds DEF Vouches, RewardOps, RewardRequest, Grows
<1>11. q.op = "grant" =>
         /\ q.coupon # Null /\ coupon'[q.coupon] # Null
         /\ There(coupon[q.coupon])' => coupon'[q.coupon].brand = q.brand
  BY <1>4, RequestKinds DEF Vouches, RewardOps, RewardRequest
<1>13. q.op = "score" => \A k \in q.left : k \in DOMAIN q.meta /\ customer'[k] # Null
  BY <1>1, RequestKinds DEF Vouches, ScoreRequest
<1>14. q.op = "edit" => customer'[q.customer] # Null /\ customer'[q.customer].generation = 2
  BY <1>1, RequestKinds DEF Vouches, EditRequest
<1>15. q.op = "hand" =>
         /\ customer'[q.customer] # Null /\ coupon'[q.coupon] # Null
         /\ There(coupon[q.coupon])' => SameBusiness(q.customer, q.coupon)'
  BY <1>1, <1>4, RequestKinds DEF Vouches, SameBusiness
<1>16. q.op \in {"clear", "fill"} =>
         /\ segment'[q.segment] \in {q.brand, Deleted}
         /\ \A k \in q.found : InBrand(k, q.brand)' /\ Qualifies(k)'
  <2> SUFFICES ASSUME q.op \in {"clear", "fill"}
      PROVE  /\ segment'[q.segment] \in {q.brand, Deleted}
             /\ \A k \in q.found : InBrand(k, q.brand)' /\ Qualifies(k)'
    OBVIOUS
  <2>1. q \in FillRequest
    BY RequestKinds
  <2>2. segment[q.segment] # Null /\ segment[q.segment] \in {q.brand, Deleted}
    BY <2>1, NullAssumption DEF Vouches, FillRequest
  <2>3. segment'[q.segment] \in {q.brand, Deleted}
    BY <2>1, <2>2 DEF Grows, FillRequest
  <2>4. \A k \in q.found : InBrand(k, q.brand)' /\ Qualifies(k)'
    BY <1>3, <2>1, VisitsGrow DEF Vouches, FillRequest
  <2> QED
    BY <2>3, <2>4
<1>17. q.op = "ticket" => ticket'[q.order] # Null
  BY RequestKinds DEF Vouches, TicketRequest, Grows
<1>18. q.op = "profile" => q.customer # Null
  BY DEF Vouches
<1> QED
  BY <1>5, <1>6, <1>7, <1>8, <1>9, <1>10, <1>11, <1>13, <1>14, <1>15, <1>16, <1>17, <1>18
  DEF Vouches, There, SameBusiness

(* A request that goes on keeps its order and its brand.                   *)
Inherits(s, r) ==
  /\ r.op \in LinkOps  => req[s] # Null /\ req[s].op \in LinkOps /\ r.order = req[s].order
  /\ r.op \in Carriers => req[s] # Null /\ req[s].op \in Carriers /\ r.brand = req[s].brand
  /\ r.op = "adopt"    => req[s] # Null /\ req[s].op = "adopt"

LEMMA StaysApart ==
  ASSUME GuestsInv, NEW s \in Requests, NEW r, Becomes(s, r), r # Null => Inherits(s, r)
  PROVE  Apart'
<1>1. \A q \in Requests : req'[q] = IF q = s THEN r ELSE req[q]
  BY BecomesEffect
<1> SUFFICES ASSUME NEW p \in Requests, NEW q \in Requests, p # q, req'[p] # Null, req'[q] # Null
    PROVE  ~Clash(req'[p], req'[q])
  BY DEF Apart, Clash
<1>2. \A t \in Requests : t # s /\ req[s] # Null /\ req[t] # Null =>
        ~Clash(req[s], req[t]) /\ ~Clash(req[t], req[s])
  BY DEF GuestsInv, Apart
<1>3. CASE p # s /\ q # s
  BY <1>1, <1>3 DEF GuestsInv, Apart
<1>4. CASE p = s
  BY <1>1, <1>2, <1>4 DEF Clash, Inherits, LinkOps, Carriers
<1>5. CASE q = s
  BY <1>1, <1>2, <1>5 DEF Clash, Inherits, LinkOps, Carriers
<1> QED
  BY <1>3, <1>4, <1>5

(* Nobody places an order, adopts a brand or becomes a guest.              *)
LEMMA StaysFresh ==
  ASSUME \A o \in Orders : order[o] = Null => order'[o] = Null,
         UNCHANGED brand,
         \A k \in Customers : customer'[k] # Null =>
           customer[k] # Null /\ customer'[k].brand = customer[k].brand
  PROVE  \A q \in Request : Fresh(q) => Fresh(q)'
<1>1. \A b : BrandFree(b) => BrandFree(b)'
  BY DEF BrandFree
<1>2. ASSUME NEW q \in Request, q.op \in LinkOps PROVE q.order \in Orders
  BY <1>2, RequestKinds DEF LinkOps, LinkRequest, RecodeRequest, PlaceRequest
<1> QED
  BY <1>1, <1>2 DEF Fresh

LEMMA GuestsStepKeeps ==
  ASSUME GuestsInv, NEW s \in Requests, NEW r \in Request \cup {Null}, Becomes(s, r),
         Grows, RowsTyped', GuestsRows', Apart',
         \A t \in Requests \ {s} : \A q \in Request : req[t] = q /\ Fresh(q) => Fresh(q)',
         r # Null => Vouches(r)' /\ Fresh(r)'
  PROVE  GuestsInv'
<1>1. \A q \in Requests : req'[q] = IF q = s THEN r ELSE req[q]
  BY BecomesEffect
<1>2. req' \in [Requests -> Request \cup {Null}]
  BY DEF GuestsInv, GuestsTypeOK, Becomes
<1>3. GuestsTypeOK'
  BY <1>2, GuestsTypedParts
    DEF GuestsTypeOK, RowsTyped, PeopleTyped, PointsTyped, OffersTyped, GroupsTyped, VoicesTyped
<1>4. RequestsVouched'
  <2> SUFFICES ASSUME NEW q \in Requests, NEW p \in Request \ {Null}, req'[q] = p
      PROVE  Vouches(p)' /\ Fresh(p)'
    BY DEF RequestsVouched
  <2>1. CASE q = s
    BY <1>1, <2>1
  <2>2. CASE q # s
    <3>1. req[q] = p
      BY <1>1, <2>2
    <3>2. Vouches(p) /\ Fresh(p)
      BY <3>1 DEF GuestsInv, RequestsVouched
    <3> QED
      BY <2>2, <3>1, <3>2, VouchedStays
  <2> QED
    BY <2>1, <2>2
<1> QED
  BY <1>3, <1>4 DEF GuestsInv

-----------------------------------------------------------------------------
(* Steps that leave a part alone                                           *)

LEMMA PeopleRest ==
  ASSUME GuestsInv, UNCHANGED <<work, people>>
  PROVE  PeopleTyped' /\ PeopleRows'
<1>1. PeopleTyped'
  BY GuestsTypedParts DEF GuestsInv, RowsTyped, PeopleTyped, people
<1>2. PeopleRows'
  BY DEF GuestsInv, GuestsRows, PeopleRows, Paid, AllVisits, people
<1> QED
  BY <1>1, <1>2

LEMMA OffersRest ==
  ASSUME GuestsInv, UNCHANGED offers, Grows
  PROVE  OffersTyped' /\ IssuedRows'
<1>1. OffersTyped'
  BY GuestsTypedParts DEF GuestsInv, RowsTyped, OffersTyped, offers
<1>2. IssuedRows'
  BY DEF GuestsInv, GuestsRows, IssuedRows, SameBusiness, There, Grows, offers
<1> QED
  BY <1>1, <1>2

LEMMA GroupsRest ==
  ASSUME GuestsInv, UNCHANGED groups, Grows
  PROVE  GroupsTyped' /\ MemberRows'
<1>1. GroupsTyped /\ GroupsTyped'
  BY GuestsTypedParts DEF GuestsInv, RowsTyped, GroupsTyped, groups
<1>2. MemberRows'
  BY <1>1, VisitsGrow DEF GuestsInv, GuestsRows, MemberRows, InBrand, GroupsTyped, Grows, groups
<1> QED
  BY <1>1, <1>2

(* Neither before nor after the step does the request owe anything.        *)
Quiet(s, r) ==
  /\ req[s] # Null => req[s].op \notin {"credit", "file"}
  /\ r # Null => r.op \notin {"credit", "file"}

LEMMA QuietOwes ==
  ASSUME GuestsInv, NEW s \in Requests, NEW r, Becomes(s, r), Quiet(s, r)
  PROVE  \A x : Crediting(x)' = Crediting(x) /\ Filing(x)' = Filing(x)
<1>1. \A q \in Requests : req'[q] = IF q = s THEN r ELSE req[q]
  BY BecomesEffect
<1> QED
  BY <1>1 DEF Crediting, Filing, Runs, Quiet

LEMMA PointsRest ==
  ASSUME GuestsInv, UNCHANGED points, \A k : Crediting(k)' = Crediting(k)
  PROVE  PointsTyped' /\ PointsRows'
<1>1. PointsTyped'
  BY GuestsTypedParts DEF GuestsInv, RowsTyped, PointsTyped, points
<1>2. PointsRows'
  BY DEF GuestsInv, GuestsRows, PointsRows, points
<1> QED
  BY <1>1, <1>2

LEMMA VoicesRest ==
  ASSUME GuestsInv, UNCHANGED voices, \A o : Filing(o)' = Filing(o)
  PROVE  VoicesTyped' /\ VoicesRows'
<1>1. VoicesTyped'
  BY GuestsTypedParts DEF GuestsInv, RowsTyped, VoicesTyped, voices
<1>2. VoicesRows'
  BY DEF GuestsInv, GuestsRows, VoicesRows, voices
<1> QED
  BY <1>1, <1>2

LEMMA InheritsFresh ==
  ASSUME GuestsInv, NEW s \in Requests, NEW r \in Request, Inherits(s, r)
  PROVE  Fresh(r)
<1>1. CASE r.op \in LinkOps
  <2>1. req[s] # Null /\ req[s].op \in LinkOps /\ r.order = req[s].order
    BY <1>1 DEF Inherits
  <2>2. Fresh(req[s])
    BY <2>1, RunningGuests
  <2> QED
    BY <1>1, <2>1, <2>2 DEF Fresh, Inherits, Carriers
<1>2. CASE r.op \notin LinkOps
  BY <1>2 DEF Fresh, LinkOps
<1> QED
  BY <1>1, <1>2

(* A step beside the guests themselves.                                    *)
LEMMA SideStep ==
  ASSUME GuestsInv, NEW s \in Requests, NEW r \in Request \cup {Null}, Becomes(s, r),
         UNCHANGED <<work, people>>, Grows,
         PointsTyped', OffersTyped', GroupsTyped', VoicesTyped',
         IssuedRows', MemberRows', PointsRows', VoicesRows',
         r # Null => Inherits(s, r) /\ Vouches(r)'
  PROVE  GuestsInv'
<1>1. PeopleTyped' /\ PeopleRows'
  BY PeopleRest
<1>3. Apart'
  BY StaysApart
<1>4. \A q \in Request : Fresh(q) => Fresh(q)'
  BY StaysFresh DEF people
<1>5. r # Null => Fresh(r)'
  BY <1>4, InheritsFresh
<1> QED
  BY <1>1, <1>3, <1>4, <1>5, GuestsStepKeeps DEF RowsTyped, GuestsRows

(* A step of the guests, their brand or their orders.                      *)
LEMMA PeopleStep ==
  ASSUME GuestsInv, NEW s \in Requests, NEW r \in Request \cup {Null}, Becomes(s, r), Quiet(s, r),
         UNCHANGED <<points, offers, groups, voices>>, Grows,
         PeopleTyped', PeopleRows',
         \A t \in Requests \ {s} : \A q \in Request : req[t] = q /\ Fresh(q) => Fresh(q)',
         r # Null => Vouches(r)' /\ Fresh(r)', Apart'
  PROVE  GuestsInv'
<1>1. \A x : Crediting(x)' = Crediting(x) /\ Filing(x)' = Filing(x)
  BY QuietOwes
<1>2. PointsTyped' /\ PointsRows' /\ VoicesTyped' /\ VoicesRows'
  BY <1>1, PointsRest, VoicesRest
<1>3. OffersTyped' /\ IssuedRows' /\ GroupsTyped' /\ MemberRows'
  BY OffersRest, GroupsRest
<1> QED
  BY <1>2, <1>3, GuestsStepKeeps DEF RowsTyped, GuestsRows

(* A request is read, or goes on, and no row changes.                      *)
LEMMA AskedKeeps ==
  ASSUME GuestsInv, NEW s \in Requests, NEW r \in Request \cup {Null}, Becomes(s, r), Quiet(s, r),
         UNCHANGED <<work, people, points, offers, groups, voices>>,
         r # Null => Vouches(r) /\ Fresh(r), Apart'
  PROVE  GuestsInv'
<1>1. Grows
  BY NothingGrows
<1>2. \A x : Crediting(x)' = Crediting(x) /\ Filing(x)' = Filing(x)
  BY QuietOwes
<1>3. PointsTyped' /\ PointsRows' /\ VoicesTyped' /\ VoicesRows'
  BY <1>2, PointsRest, VoicesRest
<1>4. OffersTyped' /\ IssuedRows' /\ GroupsTyped' /\ MemberRows'
  BY <1>1, OffersRest, GroupsRest
<1>5. PeopleTyped' /\ PeopleRows'
  BY PeopleRest DEF people, offers
<1>6. \A q \in Request : Fresh(q) => Fresh(q)'
  BY StaysFresh DEF people
<1>7. r # Null => Vouches(r)' /\ Fresh(r)'
  BY <1>1, <1>6, VouchedStays
<1> QED
  BY <1>1, <1>3, <1>4, <1>5, <1>6, <1>7, GuestsStepKeeps DEF RowsTyped, GuestsRows

LEMMA GoesOn ==
  ASSUME GuestsInv, NEW s \in Requests, NEW r \in Request \cup {Null}, Becomes(s, r), Quiet(s, r),
         UNCHANGED <<work, people, points, offers, groups, voices>>,
         r # Null => Inherits(s, r) /\ Vouches(r)
  PROVE  GuestsInv'
<1>1. Apart'
  BY StaysApart
<1>2. r # Null => Fresh(r)
  BY InheritsFresh
<1> QED
  BY <1>1, <1>2, AskedKeeps

LEMMA EndsQuietly ==
  ASSUME GuestsInv, NEW s \in Requests, Finish(s), Quiet(s, Null),
         UNCHANGED <<work, people, points, offers, groups, voices>>
  PROVE  GuestsInv'
<1>1. Becomes(s, Null)
  BY DEF Finish, Becomes
<1> QED
  BY <1>1, GoesOn

LEMMA AllTyped ==
  ASSUME GuestsInv
  PROVE  /\ PeopleTyped /\ PointsTyped /\ OffersTyped /\ GroupsTyped /\ VoicesTyped
         /\ PeopleRows /\ IssuedRows /\ MemberRows /\ PointsRows /\ VoicesRows
BY GuestsTypedParts DEF GuestsInv, RowsTyped, GuestsRows

LEMMA CustomerTyped ==
  ASSUME GuestsInv, NEW k \in Customers, customer[k] # Null
  PROVE  /\ customer[k] \in Customer /\ customer[k].brand \in Brands /\ customer[k].brand \in made
         /\ customer[k].phone \in Phones /\ customer[k].meta \in Metadata
         /\ customer[k].generation \in {1, 2} /\ customer[k].total \in Nat
        
BY AllTyped DEF PeopleTyped, PeopleRows, Customer

-----------------------------------------------------------------------------
(* Requests that are read                                                  *)

LEMMA ReadKeeps ==
  ASSUME GuestsInv, NEW s \in Requests, NEW r \in Request, NEW operation, Ask(s, operation, r),
         UNCHANGED <<work, people, points, offers, groups, voices>>,
         r.op \notin LinkOps \cup Carriers \cup {"credit", "file"}, Vouches(r)
  PROVE  GuestsInv'
<1>1. Becomes(s, r) /\ req[s] = Null
  BY DEF Ask, Becomes
<1>2. Quiet(s, r) /\ Inherits(s, r)
  BY <1>1 DEF Quiet, Inherits, Carriers
<1> QED
  BY <1>1, <1>2, GoesOn

LEMMA AskPayKeeps == ASSUME GuestsInv, NEW s \in Requests, AskPay(s) PROVE GuestsInv'
<1>1. PICK o \in Orders :
        /\ order[o] # Null /\ order[o].customer # Null /\ ~order[o].paid
        /\ Ask(s, "pay", [op |-> "settle", order |-> o, seen |-> Seen(o)])
        /\ UNCHANGED <<work, people, points, offers, groups, voices>>
  BY DEF AskPay
<1>2. PICK k : k = order[o].customer
  OBVIOUS
<1>3. k \in Customers /\ customer[k] # Null
  BY <1>1, <1>2, AllTyped DEF PeopleTyped, PeopleRows, Order
<1>4. /\ customer[k] \in Customer /\ profile[k] \in [Restaurants -> Nat \cup {Null}]
      /\ balance[k] \in Nat \cup {Null} /\ Outlets(customer[k].brand) \in SUBSET Restaurants
  BY <1>3, AllTyped, CustomerTyped DEF PeopleTyped, PointsTyped, Outlets
<1>5. PICK r : r = [op |-> "settle", order |-> o, seen |-> Seen(o)]
  OBVIOUS
<1>6. r \in SettleRequest
  BY <1>2, <1>4, <1>5 DEF SettleRequest, Seen
<1>7. Vouches(r)
  BY <1>1, <1>5 DEF Vouches, Carriers, RewardOps
<1>8. r \in Request /\ r.op \notin LinkOps \cup Carriers \cup {"credit", "file"}
  BY <1>5, <1>6, RequestTypes DEF LinkOps, Carriers
<1> QED
  BY <1>1, <1>5, <1>7, <1>8, ReadKeeps

LEMMA AskScoresKeeps == ASSUME GuestsInv, NEW s \in Requests, AskScores(s) PROVE GuestsInv'
<1>1. PICK r \in Restaurants :
        /\ Ask(s, "score", [op |-> "score", left |-> Scored(brand[r]),
                            meta |-> [k \in Scored(brand[r]) |-> customer[k].meta]])
        /\ UNCHANGED <<work, people, points, offers, groups, voices>>
  BY DEF AskScores
<1>2. PICK known : known = Scored(brand[r])
  OBVIOUS
<1>3. PICK meta : meta = [k \in known |-> customer[k].meta]
  OBVIOUS
<1>4. known \in SUBSET Customers /\ \A k \in known : customer[k] # Null
  BY <1>2 DEF Scored
<1>5. meta \in [known -> Metadata]
  BY <1>3, <1>4, CustomerTyped
<1>6. PICK q : q = [op |-> "score", left |-> known, meta |-> meta]
  OBVIOUS
<1>7. q \in ScoreRequest
  BY <1>4, <1>5, <1>6 DEF ScoreRequest
<1>8. \A k \in known : k \in DOMAIN meta /\ customer[k] # Null
  BY <1>3, <1>4, CustomerTyped
<1>9. Vouches(q)
  BY <1>6, <1>8 DEF Vouches, Carriers, RewardOps
<1>10. q \in Request /\ q.op \notin LinkOps \cup Carriers \cup {"credit", "file"}
  BY <1>6, <1>7, RequestTypes DEF LinkOps, Carriers
<1> QED
  BY <1>1, <1>2, <1>3, <1>6, <1>9, <1>10, ReadKeeps

LEMMA PhonesKnown == ASSUME GuestsInv PROVE work.phones \subseteq Phones
BY AllTyped, WorkloadsAssumption DEF PeopleTyped

LEMMA AskEditKeeps == ASSUME GuestsInv, NEW s \in Requests, AskEdit(s) PROVE GuestsInv'
<1>1. PICK k \in Customers, p \in work.phones :
        /\ customer[k] # Null /\ customer[k].generation = 2
        /\ \E meta \in work.sent :
             Ask(s, "edit", [op |-> "edit", customer |-> k, phone |-> p, meta |-> meta])
        /\ UNCHANGED <<work, people, points, offers, groups, voices>>
  BY DEF AskEdit
<1>2. PICK meta \in work.sent :
        Ask(s, "edit", [op |-> "edit", customer |-> k, phone |-> p, meta |-> meta])
  BY <1>1
<1>3. PICK r : r = [op |-> "edit", customer |-> k, phone |-> p, meta |-> meta]
  OBVIOUS
<1>5. meta \in Metadata
  BY AllTyped, WorkloadsAssumption DEF PeopleTyped
<1>6. r \in EditRequest
  BY <1>1, <1>3, <1>5, PhonesKnown DEF EditRequest
<1>7. Vouches(r)
  BY <1>1, <1>3, <1>5 DEF Vouches, Carriers, RewardOps
<1>8. r \in Request /\ r.op \notin LinkOps \cup Carriers \cup {"credit", "file"}
  BY <1>3, <1>6, RequestTypes DEF LinkOps, Carriers
<1> QED
  BY <1>1, <1>2, <1>3, <1>7, <1>8, ReadKeeps

(* Operations of which nothing need be known.                              *)
Unbound == {"template", "remove", "issue", "found", "match", "dissolve", "rate"}

LEMMA UnboundKeeps ==
  ASSUME GuestsInv, NEW s \in Requests, NEW r \in Request, NEW operation, Ask(s, operation, r),
         UNCHANGED <<work, people, points, offers, groups, voices>>, r.op \in Unbound
  PROVE  GuestsInv'
<1>1. Vouches(r)
  BY DEF Vouches, Unbound, Carriers, RewardOps
<1>2. r.op \notin LinkOps \cup Carriers \cup {"credit", "file"}
  BY DEF Unbound, LinkOps, Carriers
<1> QED
  BY <1>1, <1>2, ReadKeeps

LEMMA BrandTyped ==
  ASSUME GuestsInv, NEW r \in Restaurants, brand[r] # Null
  PROVE  brand[r] \in made /\ brand[r] \in Brands
BY AllTyped DEF PeopleTyped

LEMMA AskCouponKeeps == ASSUME GuestsInv, NEW s \in Requests, AskCoupon(s) PROVE GuestsInv'
<1>1. PICK r \in Restaurants, welcome \in BOOLEAN :
        /\ brand[r] # Null
        /\ Ask(s, "coupon", [op |-> "template", brand |-> brand[r], welcome |-> welcome])
        /\ UNCHANGED <<work, people, points, offers, groups, voices>>
  BY DEF AskCoupon
<1>2. PICK q : q = [op |-> "template", brand |-> brand[r], welcome |-> welcome]
  OBVIOUS
<1>3. q \in Request /\ q.op \in Unbound
  BY <1>1, <1>2, BrandTyped, RequestTypes DEF OfferRequest, Unbound
<1> QED
  BY <1>1, <1>2, <1>3, UnboundKeeps

LEMMA AskRemovalKeeps == ASSUME GuestsInv, NEW s \in Requests, AskRemoval(s) PROVE GuestsInv'
<1>1. PICK c \in Coupons :
        /\ Ask(s, "coupon", [op |-> "remove", coupon |-> c])
        /\ UNCHANGED <<work, people, points, offers, groups, voices>>
  BY DEF AskRemoval
<1>2. PICK q : q = [op |-> "remove", coupon |-> c]
  OBVIOUS
<1>3. q \in Request /\ q.op \in Unbound
  BY <1>2, RequestTypes DEF OfferRequest, Unbound
<1> QED
  BY <1>1, <1>2, <1>3, UnboundKeeps

LEMMA AskIssueKeeps == ASSUME GuestsInv, NEW s \in Requests, AskIssue(s) PROVE GuestsInv'
<1>1. PICK k \in Customers, c \in Coupons :
        /\ Ask(s, "issue", [op |-> "issue", customer |-> k, coupon |-> c])
        /\ UNCHANGED <<work, people, points, offers, groups, voices>>
  BY DEF AskIssue
<1>2. PICK q : q = [op |-> "issue", customer |-> k, coupon |-> c]
  OBVIOUS
<1>3. q \in Request /\ q.op \in Unbound
  BY <1>2, RequestTypes DEF OfferRequest, Unbound
<1> QED
  BY <1>1, <1>2, <1>3, UnboundKeeps

LEMMA AskSegmentKeeps == ASSUME GuestsInv, NEW s \in Requests, AskSegment(s) PROVE GuestsInv'
<1>1. PICK r \in Restaurants, g \in Segments :
        /\ brand[r] # Null
        /\ Ask(s, "segment", [op |-> "found", brand |-> brand[r], left |-> {g}])
        /\ UNCHANGED <<work, people, points, offers, groups, voices>>
  BY DEF AskSegment
<1>2. PICK q : q = [op |-> "found", brand |-> brand[r], left |-> {g}]
  OBVIOUS
<1>3. q \in Request /\ q.op \in Unbound
  BY <1>1, <1>2, BrandTyped, RequestTypes DEF SegmentRequest, Unbound
<1> QED
  BY <1>1, <1>2, <1>3, UnboundKeeps

LEMMA AskDissolveKeeps == ASSUME GuestsInv, NEW s \in Requests, AskDissolve(s) PROVE GuestsInv'
<1>1. PICK g \in Segments :
        /\ Ask(s, "segment", [op |-> "dissolve", segment |-> g])
        /\ UNCHANGED <<work, people, points, offers, groups, voices>>
  BY DEF AskDissolve
<1>2. PICK q : q = [op |-> "dissolve", segment |-> g]
  OBVIOUS
<1>3. q \in Request /\ q.op \in Unbound
  BY <1>2, RequestTypes DEF SegmentRequest, Unbound
<1> QED
  BY <1>1, <1>2, <1>3, UnboundKeeps

LEMMA AskRetraceKeeps == ASSUME GuestsInv, NEW s \in Requests, AskRetrace(s) PROVE GuestsInv'
<1>1. PICK g \in Segments :
        /\ There(segment[g])
        /\ Ask(s, "segment", [op |-> "match", brand |-> segment[g], left |-> {g}])
        /\ UNCHANGED <<work, people, points, offers, groups, voices>>
  BY DEF AskRetrace
<1>2. PICK q : q = [op |-> "match", brand |-> segment[g], left |-> {g}]
  OBVIOUS
<1>3. segment[g] \in Brands
  BY <1>1, AllTyped DEF GroupsTyped, There
<1>4. q \in Request /\ q.op \in Unbound
  BY <1>2, <1>3, RequestTypes DEF SegmentRequest, Unbound
<1> QED
  BY <1>1, <1>2, <1>4, UnboundKeeps

LEMMA AskEvaluateAllKeeps == ASSUME GuestsInv, NEW s \in Requests, AskEvaluateAll(s) PROVE GuestsInv'
<1>1. PICK b \in made :
        /\ Ask(s, "segment", [op |-> "match", brand |-> b, left |-> SegmentsOf(b)])
        /\ UNCHANGED <<work, people, points, offers, groups, voices>>
  BY DEF AskEvaluateAll
<1>2. PICK q : q = [op |-> "match", brand |-> b, left |-> SegmentsOf(b)]
  OBVIOUS
<1>3. b \in Brands /\ SegmentsOf(b) \in SUBSET Segments
  BY <1>1, AllTyped DEF PeopleTyped, SegmentsOf
<1>4. q \in Request /\ q.op \in Unbound
  BY <1>2, <1>3, RequestTypes DEF SegmentRequest, Unbound
<1> QED
  BY <1>1, <1>2, <1>4, UnboundKeeps

LEMMA AskFeedbackKeeps == ASSUME GuestsInv, NEW s \in Requests, AskFeedback(s) PROVE GuestsInv'
<1>1. PICK o \in Orders, rating \in Ratings :
        /\ Rateable(o)
        /\ Ask(s, "feedback", [op |-> "rate", order |-> o, rating |-> rating,
                               brand |-> brand[order[o].restaurant]])
        /\ UNCHANGED <<work, people, points, offers, groups, voices>>
  BY DEF AskFeedback
<1>2. PICK r : r = order[o].restaurant
  OBVIOUS
<1>3. r \in Restaurants /\ brand[r] # Null
  BY <1>1, <1>2, AllTyped DEF PeopleTyped, Order, Rateable
<1>4. brand[r] \in Brands
  BY <1>3, BrandTyped
<1>5. PICK q : q = [op |-> "rate", order |-> o, rating |-> rating, brand |-> brand[r]]
  OBVIOUS
<1>6. q \in Request /\ q.op \in Unbound
  BY <1>4, <1>5, RequestTypes DEF RateRequest, Unbound
<1> QED
  BY <1>1, <1>2, <1>5, <1>6, UnboundKeeps

LEMMA AskTicketKeeps == ASSUME GuestsInv, NEW s \in Requests, AskTicket(s) PROVE GuestsInv'
<1>1. PICK o \in Orders, status \in Status :
        /\ ticket[o] # Null
        /\ Ask(s, "feedback", [op |-> "ticket", order |-> o, status |-> status])
        /\ UNCHANGED <<work, people, points, offers, groups, voices>>
  BY DEF AskTicket
<1>2. PICK q : q = [op |-> "ticket", order |-> o, status |-> status]
  OBVIOUS
<1>3. q \in Request
  BY <1>2, RequestTypes DEF TicketRequest
<1>4. Vouches(q) /\ q.op \notin LinkOps \cup Carriers \cup {"credit", "file"}
  BY <1>1, <1>2 DEF Vouches, Carriers, RewardOps, LinkOps
<1> QED
  BY <1>1, <1>2, <1>3, <1>4, ReadKeeps

LEMMA NewcomerApart ==
  ASSUME GuestsInv, NEW s \in Requests, NEW r, Becomes(s, r),
         \A t \in Requests \ {s} : req[t] # Null => ~Clash(r, req[t]) /\ ~Clash(req[t], r)
  PROVE  Apart'
<1>1. \A q \in Requests : req'[q] = IF q = s THEN r ELSE req[q]
  BY BecomesEffect
<1> SUFFICES ASSUME NEW p \in Requests, NEW q \in Requests, p # q, req'[p] # Null, req'[q] # Null
    PROVE  ~Clash(req'[p], req'[q])
  BY DEF Apart, Clash
<1>2. CASE p # s /\ q # s
  BY <1>1, <1>2 DEF GuestsInv, Apart
<1>3. CASE p = s
  BY <1>1, <1>3
<1>4. CASE q = s
  BY <1>1, <1>4
<1> QED
  BY <1>2, <1>3, <1>4

(* The brand of a restaurant is nobody's to adopt.                         *)
LEMMA BrandTaken ==
  ASSUME GuestsInv, NEW r \in Restaurants, NEW t \in Requests, req[t] # Null, req[t].op = "adopt"
  PROVE  req[t].brand # brand[r]
BY RunningGuests DEF Fresh, BrandFree

LEMMA AskLinkKeeps == ASSUME GuestsInv, NEW s \in Requests, AskLink(s) PROVE GuestsInv'
<1>1. PICK o \in Orders, r \in Restaurants, p \in work.phones :
        /\ order[o] = Null
        /\ \A t \in Requests : req[t] # Null /\ "order" \in DOMAIN req[t] => req[t].order # o
        /\ Ask(s, "link", [op |-> IF brand[r] = Null THEN "brand" ELSE "find", order |-> o,
                           restaurant |-> r, phone |-> p, brand |-> brand[r]])
        /\ UNCHANGED <<work, people, points, offers, groups, voices>>
  BY DEF AskLink
<1>2. PICK q : q = [op |-> IF brand[r] = Null THEN "brand" ELSE "find", order |-> o,
                    restaurant |-> r, phone |-> p, brand |-> brand[r]]
  OBVIOUS
<1>3. q.op \in {"brand", "find"} /\ (q.op = "find" => brand[r] # Null)
  BY <1>2
<1>4. q \in LinkRequest
  BY <1>2, <1>3, BrandTyped, PhonesKnown DEF LinkRequest
<1>5. Becomes(s, q) /\ req[s] = Null
  BY <1>1, <1>2 DEF Ask, Becomes
<1>6. Quiet(s, q)
  BY <1>3, <1>5 DEF Quiet
<1>7. Vouches(q) /\ Fresh(q)
  BY <1>1, <1>2, <1>3, BrandTyped DEF Vouches, Fresh, Carriers, RewardOps
<1>8. ASSUME NEW t \in Requests \ {s}, req[t] # Null
      PROVE  ~Clash(q, req[t]) /\ ~Clash(req[t], q)
  <2>1. req[t].op \in LinkOps => "order" \in DOMAIN req[t]
    BY <1>8, RunningGuests, RequestKinds DEF LinkOps, LinkRequest, RecodeRequest, PlaceRequest
  <2>2. req[t].op \in LinkOps => req[t].order # q.order
    BY <1>1, <1>2, <1>8, <2>1
  <2>3. req[t].op = "adopt" => req[t].brand # q.brand
    BY <1>2, <1>8, BrandTaken
  <2> QED
    BY <1>3, <2>2, <2>3 DEF Clash
<1>9. Apart'
  BY <1>5, <1>8, NewcomerApart
<1> QED
  BY <1>1, <1>4, <1>5, <1>6, <1>7, <1>9, RequestTypes, AskedKeeps

LEMMA AskClaimKeeps == ASSUME GuestsInv, NEW s \in Requests, AskClaim(s) PROVE GuestsInv'
<1>1. PICK r \in Restaurants, p \in work.phones, k \in Customers :
        /\ brand[r] # Null
        /\ Ask(s, "claim", [op |-> "referee", brand |-> brand[r], phone |-> p, referrer |-> k])
        /\ UNCHANGED <<work, people, points, offers, groups, voices>>
  BY DEF AskClaim
<1>2. PICK q : q = [op |-> "referee", brand |-> brand[r], phone |-> p, referrer |-> k]
  OBVIOUS
<1>3. q \in ClaimRequest
  BY <1>1, <1>2, BrandTyped, PhonesKnown DEF ClaimRequest
<1>4. Becomes(s, q) /\ req[s] = Null
  BY <1>1, <1>2 DEF Ask, Becomes
<1>5. Quiet(s, q)
  BY <1>2, <1>4 DEF Quiet
<1>6. Vouches(q) /\ Fresh(q)
  BY <1>1, <1>2, BrandTyped DEF Vouches, Fresh, LinkOps, RewardOps
<1>7. ASSUME NEW t \in Requests \ {s}, req[t] # Null
      PROVE  ~Clash(q, req[t]) /\ ~Clash(req[t], q)
  BY <1>2, <1>7, BrandTaken DEF Clash, LinkOps
<1>8. Apart'
  BY <1>4, <1>7, NewcomerApart
<1> QED
  BY <1>1, <1>3, <1>4, <1>5, <1>6, <1>8, RequestTypes, AskedKeeps

-----------------------------------------------------------------------------
(* A checkout                                                              *)

LEMMA CreateBrandKeeps == ASSUME GuestsInv, NEW s \in Requests, CreateBrand(s) PROVE GuestsInv'
<1>1. req[s] # Null /\ req[s].op = "brand"
  BY DEF CreateBrand, Runs
<1>2. PICK b \in Brands \ made :
        made' = made \cup {b} /\ req' = [req EXCEPT ![s].op = "adopt", ![s].brand = b]
  BY DEF CreateBrand
<1>3. UNCHANGED <<work, brand, customer, profile, order, points, offers, groups, voices>>
  BY DEF CreateBrand
<1>4. req[s] \in LinkRequest /\ Fresh(req[s])
  BY <1>1, RunningGuests, RequestKinds
<1>5. PICK r : r = [req[s] EXCEPT !.op = "adopt", !.brand = b]
  OBVIOUS
<1>6. r \in LinkRequest /\ r.op = "adopt" /\ r.brand = b /\ r.order = req[s].order
  BY <1>4, <1>5 DEF LinkRequest
<1>7. Becomes(s, r) /\ Quiet(s, r)
  BY <1>1, <1>2, <1>5, <1>6 DEF Becomes, Quiet
<1>8. Grows
  BY <1>2, <1>3 DEF Grows, points, offers, groups, voices
<1>9. PeopleTyped' /\ PeopleRows'
  <2>1. PeopleTyped'
    BY <1>2, <1>3, AllTyped DEF PeopleTyped
  <2>2. PeopleRows'
    <3>1. /\ \A k, y : Paid(k, y)' = Paid(k, y)
          /\ \A k : AllVisits(k)' = AllVisits(k)
      BY <1>3 DEF Paid, AllVisits
    <3>2. \A k \in Customers : customer[k] # Null => customer[k].brand \in made'
      BY <1>2, AllTyped DEF PeopleRows
    <3> QED
      BY <1>3, <3>1, <3>2, AllTyped DEF PeopleRows
  <2> QED
    BY <2>1, <2>2
<1>10. \A q \in Request : Fresh(q) => Fresh(q)'
  BY <1>3, StaysFresh
<1>11. BrandFree(b)'
  BY <1>2, <1>3, AllTyped, NullAssumption DEF BrandFree, PeopleTyped, PeopleRows
<1>12. Vouches(r)' /\ Fresh(r)'
  <2>1. Vouches(r)'
    BY <1>2, <1>6 DEF Vouches, RewardOps
  <2>2. Fresh(r)'
    BY <1>1, <1>3, <1>4, <1>6, <1>11 DEF Fresh, LinkOps
  <2> QED
    BY <2>1, <2>2
<1>13. ASSUME NEW t \in Requests \ {s}, req[t] # Null
       PROVE  ~Clash(r, req[t]) /\ ~Clash(req[t], r)
  <2>1. ~Clash(req[s], req[t]) /\ ~Clash(req[t], req[s])
    BY <1>1, <1>13 DEF GuestsInv, Apart
  <2>2. req[t].op \in Carriers => req[t].brand # b
    BY <1>2, <1>13, RunningGuests DEF Vouches
  <2> QED
    BY <1>1, <1>6, <2>1, <2>2 DEF Clash, LinkOps, Carriers
<1>14. Apart'
  BY <1>7, <1>13, NewcomerApart
<1> QED
  BY <1>3, <1>6, <1>7, <1>8, <1>9, <1>10, <1>12, <1>14, RequestTypes, PeopleStep

LEMMA AdoptBrandKeeps == ASSUME GuestsInv, NEW s \in Requests, AdoptBrand(s) PROVE GuestsInv'
<1>1. /\ req[s] # Null /\ req[s].op = "adopt"
      /\ brand' = [brand EXCEPT ![req[s].restaurant] = req[s].brand]
      /\ req' = [req EXCEPT ![s].op = "find"]
      /\ UNCHANGED <<work, made, customer, profile, order, points, offers, groups, voices>>
  BY DEF AdoptBrand, Runs, Then
<1>2. req[s] \in LinkRequest /\ Vouches(req[s]) /\ Fresh(req[s])
  BY <1>1, RunningGuests, RequestKinds
<1>3. PICK b : b = req[s].brand
  OBVIOUS
<1>4. b \in made /\ BrandFree(b) /\ order[req[s].order] = Null
  BY <1>1, <1>2, <1>3 DEF Vouches, Fresh, Carriers, LinkOps
<1>5. PICK r : r = [req[s] EXCEPT !.op = "find"]
  OBVIOUS
<1>6. r \in LinkRequest /\ r.op = "find" /\ r.brand = b /\ r.order = req[s].order
  BY <1>2, <1>3, <1>5 DEF LinkRequest
<1>7. Becomes(s, r) /\ Quiet(s, r) /\ Inherits(s, r)
  BY <1>1, <1>3, <1>5, <1>6 DEF Becomes, Quiet, Inherits, LinkOps, Carriers
<1>8. PICK x : x = req[s].restaurant
  OBVIOUS
<1>9. x \in Restaurants /\ brand' = [brand EXCEPT ![x] = b]
  BY <1>1, <1>2, <1>3, <1>8 DEF LinkRequest
<1>10. \A y \in Restaurants : brand'[y] = IF y = x THEN b ELSE brand[y]
  BY <1>9, AllTyped DEF PeopleTyped
<1>11. Grows
  BY <1>1 DEF Grows, points, offers, groups, voices
<1>12. PeopleTyped'
  BY <1>1, <1>4, <1>9, AllTyped DEF PeopleTyped
<1>13. PeopleRows'
  <2>1. /\ \A k, y : Paid(k, y)' = Paid(k, y)
        /\ \A k : AllVisits(k)' = AllVisits(k)
    BY <1>1 DEF Paid, AllVisits
  <2>2. ASSUME NEW k \in Customers, customer[k] # Null,
               \A y \in Restaurants : Paid(k, y) # {} => brand'[y] = customer[k].brand
        PROVE  \A y \in Restaurants : Paid(k, y) # {} => brand[y] = customer[k].brand
    BY <1>4, <1>9, <1>10, <2>2 DEF BrandFree
  <2>3. \A k \in Customers :
          /\ customer[k] # Null
          /\ \A y \in Restaurants : Paid(k, y) # {} => brand'[y] = customer[k].brand
          => customer[k].total = Cardinality(AllVisits(k))
    BY <2>2, AllTyped DEF PeopleRows
  <2> QED
    BY <1>1, <2>1, <2>3, AllTyped DEF PeopleRows
<1>15. ASSUME NEW t \in Requests \ {s}, NEW q \in Request, req[t] = q, Fresh(q)
       PROVE  Fresh(q)'
  <2>1. q.op = "adopt" => q.brand # b
    BY <1>1, <1>3, <1>15, NullIsNoRequest DEF GuestsInv, Apart, Clash, Carriers
  <2>2. q.op = "adopt" => BrandFree(q.brand)'
    BY <1>1, <1>10, <1>15, <2>1 DEF Fresh, BrandFree
  <2> QED
    BY <1>1, <1>15, <2>2 DEF Fresh
<1>16. Vouches(r)' /\ Fresh(r)'
  BY <1>1, <1>4, <1>6 DEF Vouches, Fresh, RewardOps
<1>17. Apart'
  BY <1>7, StaysApart
<1> QED
  BY <1>1, <1>6, <1>7, <1>11, <1>12, <1>13, <1>15, <1>16, <1>17, RequestTypes, PeopleStep

(* The operations on one customer's row: his business stays.               *)
LEMMA RowRewritten ==
  ASSUME GuestsInv, NEW k \in Customers, customer[k] # Null, NEW row \in Customer,
         row.brand = customer[k].brand, row.generation = customer[k].generation,
         row.total = customer[k].total,
         PhoneFree(row.brand, row.phone, row.generation, k),
         customer' = [customer EXCEPT ![k] = row],
         UNCHANGED <<work, brand, made, profile, order, points, offers, groups, voices>>
  PROVE  /\ Grows /\ PeopleTyped' /\ PeopleRows'
         /\ \A q \in Request : Fresh(q) => Fresh(q)'
<1>1. \A j \in Customers : customer'[j] = IF j = k THEN row ELSE customer[j]
  BY AllTyped DEF PeopleTyped
<1>2. row # Null
  BY NullAssumption
<1>3. Grows
  BY <1>1, <1>2 DEF Grows, points, offers, groups, voices
<1>4. PeopleTyped'
  <2>1. customer' \in [Customers -> Customer \cup {Null}]
    BY AllTyped DEF PeopleTyped
  <2>2. \A i, j \in Customers : i # j /\ customer'[i] # Null /\ customer'[j] # Null =>
          <<customer'[i].brand, customer'[i].phone, customer'[i].generation>>
            # <<customer'[j].brand, customer'[j].phone, customer'[j].generation>>
    BY <1>1, AllTyped DEF PeopleTyped, PhoneFree
  <2> QED
    BY <2>1, <2>2, AllTyped DEF PeopleTyped
<1>5. PeopleRows'
  <2>1. /\ \A j, y : Paid(j, y)' = Paid(j, y)
        /\ \A j : AllVisits(j)' = AllVisits(j)
    BY DEF Paid, AllVisits
  <2>2. \A j \in Customers : customer'[j] # Null =>
          customer[j] # Null /\ customer'[j].brand = customer[j].brand /\ customer'[j].total = customer[j].total
    BY <1>1
  <2>3. \A j \in Customers : customer'[j] # Null => customer'[j].brand \in made
    BY <2>2, AllTyped DEF PeopleRows
  <2>4. \A o \in Orders : order[o] # Null /\ order[o].customer # Null => customer'[order[o].customer] # Null
    BY <1>1, <1>2, AllTyped DEF PeopleRows, PeopleTyped, Order
  <2>5. \A j \in Customers : customer'[j] # Null =>
          /\ customer'[j].total <= Cardinality(AllVisits(j))
          /\ (\A r \in Restaurants : Paid(j, r) # {} => brand[r] = customer'[j].brand)
               => customer'[j].total = Cardinality(AllVisits(j))
    BY <2>2, AllTyped DEF PeopleRows
  <2> QED
    BY <2>1, <2>3, <2>4, <2>5, AllTyped DEF PeopleRows
<1>7. \A q \in Request : Fresh(q) => Fresh(q)'
  BY <1>1, StaysFresh
<1> QED
  BY <1>3, <1>4, <1>5, <1>7

LEMMA RewriteKeeps ==
  ASSUME GuestsInv, NEW s \in Requests, NEW r \in Request \cup {Null}, Becomes(s, r), Quiet(s, r),
         r # Null => Inherits(s, r) /\ Vouches(r),
         NEW k \in Customers, customer[k] # Null, NEW row \in Customer,
         row.brand = customer[k].brand, row.generation = customer[k].generation,
         row.total = customer[k].total,
         PhoneFree(row.brand, row.phone, row.generation, k),
         customer' = [customer EXCEPT ![k] = row],
         UNCHANGED <<work, brand, made, profile, order, points, offers, groups, voices>>
  PROVE  GuestsInv'
<1>1. /\ Grows /\ PeopleTyped' /\ PeopleRows'
      /\ \A q \in Request : Fresh(q) => Fresh(q)'
  BY RowRewritten
<1>2. r # Null => Vouches(r)' /\ Fresh(r)'
  BY <1>1, VouchedStays, InheritsFresh
<1>3. Apart'
  BY StaysApart
<1> QED
  BY <1>1, <1>2, <1>3, PeopleStep

(* Its metadata alone.                                                     *)
LEMMA MetaKeeps ==
  ASSUME GuestsInv, NEW s \in Requests, NEW r \in Request \cup {Null}, Becomes(s, r), Quiet(s, r),
         r # Null => Inherits(s, r) /\ Vouches(r),
         NEW k \in Customers, customer[k] # Null, NEW meta \in Metadata,
         customer' = [customer EXCEPT ![k].meta = meta],
         UNCHANGED <<work, brand, made, profile, order, points, offers, groups, voices>>
  PROVE  GuestsInv'
<1>1. PICK row : row = [customer[k] EXCEPT !.meta = meta]
  OBVIOUS
<1>2. customer' = [customer EXCEPT ![k] = row]
  BY <1>1
<1>3. customer[k] \in Customer
  BY CustomerTyped
<1>4. /\ row \in Customer /\ row.brand = customer[k].brand /\ row.generation = customer[k].generation
      /\ row.total = customer[k].total /\ row.phone = customer[k].phone /\ row.meta = meta
  BY <1>1, <1>3 DEF Customer
<1>5. PhoneFree(row.brand, row.phone, row.generation, k)
  BY <1>4, AllTyped DEF PhoneFree, PeopleTyped
<1> QED
  BY <1>2, <1>4, <1>5, RewriteKeeps

LEMMA FindCustomerKeeps == ASSUME GuestsInv, NEW s \in Requests, FindCustomer(s) PROVE GuestsInv'
<1>1. req[s] # Null /\ req[s].op = "find"
  BY DEF FindCustomer, Runs
<1>2. UNCHANGED <<work, people, points, offers, groups, voices>>
  BY DEF FindCustomer
<1>3. req[s] \in LinkRequest /\ Vouches(req[s])
  BY <1>1, RunningGuests, RequestKinds
<1>4. CASE Then(s, "create")
  <2>1. PICK r : r = [req[s] EXCEPT !.op = "create"]
    OBVIOUS
  <2>2. r \in LinkRequest /\ r.op = "create" /\ r.brand = req[s].brand /\ r.order = req[s].order
    BY <1>3, <2>1 DEF LinkRequest
  <2>3. Becomes(s, r) /\ Quiet(s, r) /\ Inherits(s, r)
    BY <1>1, <1>4, <2>1, <2>2 DEF Becomes, Then, Quiet, Inherits, LinkOps, Carriers
  <2>4. Vouches(r)
    BY <1>1, <1>3, <2>2 DEF Vouches, RewardOps, Carriers
  <2> QED
    BY <1>2, <2>2, <2>3, <2>4, RequestTypes, GoesOn
<1>5. ASSUME NEW k \in Named(req[s].brand, req[s].phone, 2), Linked(s, k)
      PROVE  GuestsInv'
  <2>1. k \in Customers /\ customer[k] # Null
    BY <1>5 DEF Named
  <2>2. PICK r : r = [op |-> "profile", order |-> req[s].order,
                      restaurant |-> req[s].restaurant, customer |-> k]
    OBVIOUS
  <2>3. r \in PlaceRequest
    BY <1>3, <2>1, <2>2 DEF PlaceRequest, LinkRequest
  <2>4. Becomes(s, r) /\ Quiet(s, r) /\ Inherits(s, r)
    BY <1>1, <1>5, <2>2 DEF Becomes, Linked, Quiet, Inherits, LinkOps, Carriers
  <2>5. Vouches(r)
    BY <2>1, <2>2, NullAssumption DEF Vouches, RewardOps, Carriers
  <2> QED
    BY <1>2, <2>3, <2>4, <2>5, RequestTypes, GoesOn
<1>6. ASSUME NEW k \in Named(req[s].brand, req[s].phone, 2),
             req' = [req EXCEPT ![s] = [op |-> "recode", order |-> req[s].order,
                       restaurant |-> req[s].restaurant, customer |-> k, meta |-> customer[k].meta]]
      PROVE  GuestsInv'
  <2>1. k \in Customers /\ customer[k] # Null
    BY <1>6 DEF Named
  <2>2. PICK r : r = [op |-> "recode", order |-> req[s].order,
                      restaurant |-> req[s].restaurant, customer |-> k, meta |-> customer[k].meta]
    OBVIOUS
  <2>3. r \in RecodeRequest
    BY <1>3, <2>1, <2>2, CustomerTyped DEF RecodeRequest, LinkRequest
  <2>4. Becomes(s, r) /\ Quiet(s, r) /\ Inherits(s, r)
    BY <1>1, <1>6, <2>2 DEF Becomes, Quiet, Inherits, LinkOps, Carriers
  <2>5. Vouches(r)
    BY <2>1, <2>2, CustomerTyped DEF Vouches, RewardOps, Carriers
  <2> QED
    BY <1>2, <2>3, <2>4, <2>5, RequestTypes, GoesOn
<1> QED
  BY <1>4, <1>5, <1>6 DEF FindCustomer

(* A new customer has paid nothing.                                        *)
LEMMA GuestAdded ==
  ASSUME GuestsInv, NEW s \in Requests, NEW k \in Customers, customer[k] = Null,
         NEW b \in made, NEW p \in Phones, NEW g \in {1, 2}, PhoneFree(b, p, g, k),
         req[s] # Null, req[s].op \in Carriers, req[s].brand = b,
         customer' = [customer EXCEPT ![k] = Guest(b, p, g)],
         UNCHANGED <<work, brand, made, profile, order, points, offers, groups, voices>>
  PROVE  /\ Grows /\ PeopleTyped' /\ PeopleRows'
         /\ \A t \in Requests \ {s} : \A q \in Request : req[t] = q /\ Fresh(q) => Fresh(q)'
         /\ customer'[k] # Null /\ customer'[k].brand = b /\ customer'[k].meta \in Metadata
<1>1. PICK row : row = Guest(b, p, g)
  OBVIOUS
<1>2. b \in Brands
  BY AllTyped DEF PeopleTyped
<1>3. /\ row \in Customer /\ row.brand = b /\ row.phone = p /\ row.generation = g /\ row.total = 0
      /\ row.meta \in Metadata
  BY <1>1, <1>2 DEF Guest, Customer, Metadata, NoMetadata
<1>4. row # Null
  BY <1>3, NullAssumption
<1>5. \A j \in Customers : customer'[j] = IF j = k THEN row ELSE customer[j]
  BY <1>1, AllTyped DEF PeopleTyped
<1>6. Grows
  BY <1>5 DEF Grows, points, offers, groups, voices
<1>7. PeopleTyped'
  <2>1. customer' \in [Customers -> Customer \cup {Null}]
    BY <1>1, <1>3, AllTyped DEF PeopleTyped
  <2>2. \A i, j \in Customers : i # j /\ customer'[i] # Null /\ customer'[j] # Null =>
          <<customer'[i].brand, customer'[i].phone, customer'[i].generation>>
            # <<customer'[j].brand, customer'[j].phone, customer'[j].generation>>
    BY <1>3, <1>5, AllTyped DEF PeopleTyped, PhoneFree
  <2> QED
    BY <2>1, <2>2, AllTyped DEF PeopleTyped
<1>8. PeopleRows'
  <2>1. /\ \A j, y : Paid(j, y)' = Paid(j, y)
        /\ \A j : AllVisits(j)' = AllVisits(j)
    BY DEF Paid, AllVisits
  <2>2. \A y : Paid(k, y) = {}
    BY AllTyped, NullAssumption DEF Paid, PeopleRows
  <2>3. AllVisits(k) = {} /\ Cardinality(AllVisits(k)) = 0
    BY <2>2, FS_EmptySet DEF AllVisits
  <2>4. \A j \in Customers : customer'[j] # Null => customer'[j].brand \in made
    BY <1>3, <1>5, AllTyped DEF PeopleRows
  <2>5. \A o \in Orders : order[o] # Null /\ order[o].customer # Null => customer'[order[o].customer] # Null
    BY <1>4, <1>5, AllTyped DEF PeopleRows, PeopleTyped, Order
  <2>6. ASSUME NEW j \in Customers, customer'[j] # Null
        PROVE  /\ customer'[j].total <= Cardinality(AllVisits(j))
               /\ (\A r \in Restaurants : Paid(j, r) # {} => brand[r] = customer'[j].brand)
                    => customer'[j].total = Cardinality(AllVisits(j))
    <3>1. CASE j = k
      BY <1>3, <1>5, <2>3, <3>1
    <3>2. CASE j # k
      BY <1>5, <2>6, <3>2, AllTyped DEF PeopleRows
    <3> QED
      BY <3>1, <3>2
  <2> QED
    BY <2>1, <2>4, <2>5, <2>6, AllTyped DEF PeopleRows
<1>10. ASSUME NEW t \in Requests \ {s}, NEW q \in Request, req[t] = q, Fresh(q)
       PROVE  Fresh(q)'
  <2>1. q.op = "adopt" => q.brand # b
    BY <1>10, NullIsNoRequest DEF GuestsInv, Apart, Clash
  <2>2. q.op = "adopt" => BrandFree(q.brand)'
    BY <1>3, <1>5, <1>10, <2>1 DEF Fresh, BrandFree
  <2> QED
    BY <1>10, <2>2 DEF Fresh
<1> QED
  BY <1>3, <1>4, <1>5, <1>6, <1>7, <1>8, <1>10

LEMMA CreateCustomerKeeps == ASSUME GuestsInv, NEW s \in Requests, CreateCustomer(s) PROVE GuestsInv'
<1>1. req[s] # Null /\ req[s].op = "create"
  BY DEF CreateCustomer, Runs
<1>2. UNCHANGED <<work, brand, made, profile, order, points, offers, groups, voices>>
  BY DEF CreateCustomer
<1>3. req[s] \in LinkRequest /\ Vouches(req[s]) /\ Fresh(req[s])
  BY <1>1, RunningGuests, RequestKinds
<1>4. PICK b : b = req[s].brand
  OBVIOUS
<1>5. PICK p : p = req[s].phone
  OBVIOUS
<1>6. b \in made /\ p \in Phones /\ order[req[s].order] = Null
  BY <1>1, <1>3, <1>4, <1>5 DEF Vouches, Fresh, LinkOps, Carriers, LinkRequest
<1>7. PICK k \in Customers :
        /\ customer[k] = Null
        /\ IF PhoneFree(b, p, 2, k)
             THEN customer' = [customer EXCEPT ![k] = Guest(b, p, 2)] /\ Linked(s, k)
             ELSE Unlinked(s) /\ UNCHANGED customer
  BY <1>4, <1>5 DEF CreateCustomer
<1>8. CASE PhoneFree(b, p, 2, k)
  <2>1. /\ Grows /\ PeopleTyped' /\ PeopleRows'
        /\ \A t \in Requests \ {s} : \A q \in Request : req[t] = q /\ Fresh(q) => Fresh(q)'
        /\ customer'[k] # Null
    BY <1>1, <1>2, <1>4, <1>6, <1>7, <1>8, GuestAdded DEF Carriers
  <2>2. PICK r : r = [op |-> "profile", order |-> req[s].order,
                      restaurant |-> req[s].restaurant, customer |-> k]
    OBVIOUS
  <2>3. r \in PlaceRequest
    BY <1>3, <2>2 DEF PlaceRequest, LinkRequest
  <2>4. Becomes(s, r) /\ Quiet(s, r) /\ Inherits(s, r)
    BY <1>1, <1>7, <1>8, <2>2 DEF Becomes, Linked, Quiet, Inherits, LinkOps, Carriers
  <2>5. Vouches(r)'
    BY <2>1, <2>2, NullAssumption DEF Vouches, RewardOps, Carriers
  <2>6. Fresh(r)'
    BY <1>2, <1>6, <2>2 DEF Fresh
  <2>7. Apart'
    BY <2>4, StaysApart
  <2> QED
    BY <1>2, <2>1, <2>3, <2>4, <2>5, <2>6, <2>7, RequestTypes, PeopleStep
<1>9. CASE ~PhoneFree(b, p, 2, k)
  <2>1. PICK r : r = [op |-> "place", order |-> req[s].order,
                      restaurant |-> req[s].restaurant, customer |-> Null]
    OBVIOUS
  <2>2. r \in PlaceRequest
    BY <1>3, <2>1 DEF PlaceRequest, LinkRequest
  <2>3. Becomes(s, r) /\ Quiet(s, r) /\ Inherits(s, r)
    BY <1>1, <1>7, <1>9, <2>1 DEF Becomes, Unlinked, Quiet, Inherits, LinkOps, Carriers
  <2>4. Vouches(r)
    BY <2>1 DEF Vouches, RewardOps, Carriers
  <2>5. UNCHANGED <<work, people, points, offers, groups, voices>>
    BY <1>2, <1>7, <1>9 DEF people
  <2> QED
    BY <2>2, <2>3, <2>4, <2>5, RequestTypes, GoesOn
<1> QED
  BY <1>8, <1>9

LEMMA RecodeKeeps == ASSUME GuestsInv, NEW s \in Requests, Recode(s) PROVE GuestsInv'
<1>1. req[s] # Null /\ req[s].op = "recode"
  BY DEF Recode, Runs
<1>2. UNCHANGED <<work, brand, made, profile, order, points, offers, groups, voices>>
  BY DEF Recode
<1>3. req[s] \in RecodeRequest /\ Vouches(req[s])
  BY <1>1, RunningGuests, RequestKinds
<1>4. PICK k : k = req[s].customer
  OBVIOUS
<1>5. PICK meta : meta = [req[s].meta EXCEPT !.code = TRUE]
  OBVIOUS
<1>6. k \in Customers /\ customer[k] # Null /\ meta \in Metadata
  BY <1>1, <1>3, <1>4, <1>5 DEF Vouches, RecodeRequest, Metadata
<1>7. PICK r : r = [op |-> "profile", order |-> req[s].order,
                    restaurant |-> req[s].restaurant, customer |-> k]
  OBVIOUS
<1>8. r \in PlaceRequest
  BY <1>3, <1>6, <1>7 DEF PlaceRequest, RecodeRequest
<1>9. Becomes(s, r) /\ Quiet(s, r) /\ Inherits(s, r)
  BY <1>1, <1>4, <1>7 DEF Recode, Becomes, Linked, Quiet, Inherits, LinkOps, Carriers
<1>10. Vouches(r)
  BY <1>6, <1>7, NullAssumption DEF Vouches, RewardOps, Carriers
<1>11. customer' = [customer EXCEPT ![k].meta = meta]
  BY <1>4, <1>5 DEF Recode
<1> QED
  BY <1>2, <1>6, <1>8, <1>9, <1>10, <1>11, RequestTypes, MetaKeeps

LEMMA EnsureProfileKeeps == ASSUME GuestsInv, NEW s \in Requests, EnsureProfile(s) PROVE GuestsInv'
<1>1. req[s] # Null /\ req[s].op = "profile"
  BY DEF EnsureProfile, Runs
<1>2. UNCHANGED <<work, brand, made, customer, order, points, offers, groups, voices>>
  BY DEF EnsureProfile
<1>3. req[s] \in PlaceRequest /\ Vouches(req[s]) /\ Fresh(req[s])
  BY <1>1, RunningGuests, RequestKinds
<1>4. PICK k : k = req[s].customer
  OBVIOUS
<1>5. PICK x : x = req[s].restaurant
  OBVIOUS
<1>6. k \in Customers /\ customer[k] # Null /\ x \in Restaurants /\ order[req[s].order] = Null
  BY <1>1, <1>3, <1>4, <1>5 DEF Vouches, Fresh, LinkOps, PlaceRequest
<1>7. profile' = [profile EXCEPT ![k][x] = IF @ = Null THEN 0 ELSE @]
  BY <1>4, <1>5 DEF EnsureProfile
<1>8. \A j \in Customers, y \in Restaurants :
        profile'[j][y] = IF j = k /\ y = x /\ profile[k][x] = Null THEN 0 ELSE profile[j][y]
  BY <1>6, <1>7, AllTyped DEF PeopleTyped
<1>9. PICK r : r = [req[s] EXCEPT !.op = "place"]
  OBVIOUS
<1>10. r \in PlaceRequest /\ r.op = "place" /\ r.customer = k /\ r.order = req[s].order
  BY <1>3, <1>4, <1>9 DEF PlaceRequest
<1>11. Becomes(s, r) /\ Quiet(s, r) /\ Inherits(s, r)
  BY <1>1, <1>9, <1>10 DEF EnsureProfile, Then, Becomes, Quiet, Inherits, LinkOps, Carriers
<1>12. Grows
  BY <1>2 DEF Grows, points, offers, groups, voices
<1>13. PeopleTyped'
  <2>1. profile' \in [Customers -> [Restaurants -> Nat \cup {Null}]]
    BY <1>6, <1>7, AllTyped DEF PeopleTyped
  <2> QED
    BY <1>2, <2>1, AllTyped DEF PeopleTyped
<1>14. PeopleRows'
  <2>1. /\ \A j, y : Paid(j, y)' = Paid(j, y)
        /\ \A j : AllVisits(j)' = AllVisits(j)
    BY <1>2 DEF Paid, AllVisits
  <2>2. ASSUME NEW j \in Customers, NEW y \in Restaurants
        PROVE  /\ profile'[j][y] # Null => profile'[j][y] = Cardinality(Paid(j, y))
               /\ Paid(j, y) # {} => profile'[j][y] # Null
    <3>1. CASE j = k /\ y = x /\ profile[k][x] = Null
      BY <1>6, <1>8, <3>1, AllTyped, FS_EmptySet, NullAssumption DEF PeopleRows
    <3>2. CASE ~(j = k /\ y = x /\ profile[k][x] = Null)
      BY <1>8, <3>2, AllTyped DEF PeopleRows
    <3> QED
      BY <3>1, <3>2
  <2> QED
    BY <1>2, <2>1, <2>2, AllTyped DEF PeopleRows
<1>16. \A q \in Request : Fresh(q) => Fresh(q)'
  BY <1>2, StaysFresh
<1>17. Vouches(r)' /\ Fresh(r)'
  BY <1>2, <1>6, <1>10 DEF Vouches, Fresh, RewardOps, Carriers
<1>18. Apart'
  BY <1>11, StaysApart
<1> QED
  BY <1>2, <1>10, <1>11, <1>12, <1>13, <1>14, <1>16, <1>17, <1>18, RequestTypes, PeopleStep

LEMMA PlaceOrderKeeps == ASSUME GuestsInv, NEW s \in Requests, PlaceOrder(s) PROVE GuestsInv'
<1>1. req[s] # Null /\ req[s].op = "place"
  BY DEF PlaceOrder, Runs
<1>2. UNCHANGED <<work, brand, made, customer, profile, points, offers, groups, voices>>
  BY DEF PlaceOrder
<1>3. req[s] \in PlaceRequest /\ Vouches(req[s]) /\ Fresh(req[s])
  BY <1>1, RunningGuests, RequestKinds
<1>4. PICK o : o = req[s].order
  OBVIOUS
<1>5. PICK row : row = [restaurant |-> req[s].restaurant, customer |-> req[s].customer, paid |-> FALSE]
  OBVIOUS
<1>6. /\ o \in Orders /\ order[o] = Null /\ row \in Order /\ ~row.paid
      /\ row.customer # Null => customer[row.customer] # Null
  BY <1>1, <1>3, <1>4, <1>5 DEF Vouches, Fresh, LinkOps, PlaceRequest, Order
<1>7. row # Null
  BY <1>6, NullAssumption
<1>8. order' = [order EXCEPT ![o] = row]
  BY <1>4, <1>5 DEF PlaceOrder
<1>9. \A x \in Orders : order'[x] = IF x = o THEN row ELSE order[x]
  BY <1>8, AllTyped DEF PeopleTyped
<1>10. Becomes(s, Null) /\ Quiet(s, Null)
  BY <1>1 DEF PlaceOrder, Finish, Becomes, Quiet
<1>11. Grows
  BY <1>2, <1>6, <1>9 DEF Grows, points, offers, groups, voices
<1>12. PeopleTyped'
  BY <1>2, <1>6, <1>8, AllTyped DEF PeopleTyped
<1>13. PeopleRows'
  <2>1. /\ \A j, y : Paid(j, y)' = Paid(j, y)
        /\ \A j : AllVisits(j)' = AllVisits(j)
    BY <1>6, <1>9 DEF Paid, AllVisits
  <2>2. \A x \in Orders : order'[x] # Null /\ order'[x].customer # Null => customer[order'[x].customer] # Null
    BY <1>6, <1>9, AllTyped DEF PeopleRows
  <2> QED
    BY <1>2, <2>1, <2>2, AllTyped DEF PeopleRows
<1>15. ASSUME NEW t \in Requests \ {s}, NEW q \in Request, req[t] = q, Fresh(q)
       PROVE  Fresh(q)'
  <2>1. q.op \in LinkOps => q.order # o
    BY <1>1, <1>4, <1>15, NullIsNoRequest DEF GuestsInv, Apart, Clash, LinkOps
  <2>2. q.op \in LinkOps => q.order \in Orders
    BY RequestKinds DEF LinkOps, LinkRequest, RecodeRequest, PlaceRequest
  <2>3. q.op = "adopt" => BrandFree(q.brand)'
    BY <1>2, <1>15 DEF Fresh, BrandFree
  <2> QED
    BY <1>9, <1>15, <2>1, <2>2, <2>3 DEF Fresh
<1>16. Apart'
  BY <1>10, StaysApart
<1> QED
  BY <1>2, <1>10, <1>11, <1>12, <1>13, <1>15, <1>16, PeopleStep

-----------------------------------------------------------------------------
(* What is owed                                                            *)

LEMMA AroundOne ==
  ASSUME NEW S, IsFiniteSet(S), NEW T, IsFiniteSet(T), NEW x, S \ {x} = T \ {x}
  PROVE  /\ Cardinality(S) \in Nat /\ Cardinality(T) \in Nat
         /\ Cardinality(T) + (IF x \in S THEN 1 ELSE 0) = Cardinality(S) + (IF x \in T THEN 1 ELSE 0)
<1>1. Cardinality(S) \in Nat /\ Cardinality(T) \in Nat
  BY FS_CardinalityType
<1>2. Cardinality(S \ {x}) = IF x \in S THEN Cardinality(S) - 1 ELSE Cardinality(S)
  BY FS_RemoveElement
<1>3. Cardinality(T \ {x}) = IF x \in T THEN Cardinality(T) - 1 ELSE Cardinality(T)
  BY FS_RemoveElement
<1> QED
  BY <1>1, <1>2, <1>3

LEMMA CreditingMoves ==
  ASSUME GuestsInv, NEW s \in Requests, NEW r, Becomes(s, r), NEW k
  PROVE  /\ Cardinality(Crediting(k)) \in Nat /\ Cardinality(Crediting(k)') \in Nat
         /\ Cardinality(Crediting(k)')
              + (IF req[s] # Null /\ req[s].op = "credit" /\ req[s].referrer = k THEN 1 ELSE 0)
            = Cardinality(Crediting(k))
              + (IF r # Null /\ r.op = "credit" /\ r.referrer = k THEN 1 ELSE 0)
<1>1. \A q \in Requests : req'[q] = IF q = s THEN r ELSE req[q]
  BY BecomesEffect
<1>2. Crediting(k) \in SUBSET Requests /\ Crediting(k)' \in SUBSET Requests
  BY DEF Crediting
<1>3. IsFiniteSet(Crediting(k)) /\ IsFiniteSet(Crediting(k)')
  BY <1>2, IdsAssumption, FS_Subset
<1>4. Crediting(k) \ {s} = Crediting(k)' \ {s}
  BY <1>1 DEF Crediting, Runs
<1>5. /\ s \in Crediting(k) <=> req[s] # Null /\ req[s].op = "credit" /\ req[s].referrer = k
      /\ s \in Crediting(k)' <=> r # Null /\ r.op = "credit" /\ r.referrer = k
  BY <1>1 DEF Crediting, Runs
<1>6. PICK S : S = Crediting(k)
  OBVIOUS
<1>7. PICK T : T = Crediting(k)'
  OBVIOUS
<1>8. /\ Cardinality(S) \in Nat /\ Cardinality(T) \in Nat
      /\ Cardinality(T) + (IF s \in S THEN 1 ELSE 0) = Cardinality(S) + (IF s \in T THEN 1 ELSE 0)
  BY <1>3, <1>4, <1>6, <1>7, AroundOne
<1> QED
  BY <1>5, <1>6, <1>7, <1>8

LEMMA FilingMoves ==
  ASSUME GuestsInv, NEW s \in Requests, NEW r, Becomes(s, r), NEW o
  PROVE  /\ Cardinality(Filing(o)) \in Nat /\ Cardinality(Filing(o)') \in Nat
         /\ Cardinality(Filing(o)')
              + (IF req[s] # Null /\ req[s].op = "file" /\ req[s].order = o THEN 1 ELSE 0)
            = Cardinality(Filing(o))
              + (IF r # Null /\ r.op = "file" /\ r.order = o THEN 1 ELSE 0)
<1>1. \A q \in Requests : req'[q] = IF q = s THEN r ELSE req[q]
  BY BecomesEffect
<1>2. Filing(o) \in SUBSET Requests /\ Filing(o)' \in SUBSET Requests
  BY DEF Filing
<1>3. IsFiniteSet(Filing(o)) /\ IsFiniteSet(Filing(o)')
  BY <1>2, IdsAssumption, FS_Subset
<1>4. Filing(o) \ {s} = Filing(o)' \ {s}
  BY <1>1 DEF Filing, Runs
<1>5. /\ s \in Filing(o) <=> req[s] # Null /\ req[s].op = "file" /\ req[s].order = o
      /\ s \in Filing(o)' <=> r # Null /\ r.op = "file" /\ r.order = o
  BY <1>1 DEF Filing, Runs
<1>6. PICK S : S = Filing(o)
  OBVIOUS
<1>7. PICK T : T = Filing(o)'
  OBVIOUS
<1>8. /\ Cardinality(S) \in Nat /\ Cardinality(T) \in Nat
      /\ Cardinality(T) + (IF s \in S THEN 1 ELSE 0) = Cardinality(S) + (IF s \in T THEN 1 ELSE 0)
  BY <1>3, <1>4, <1>6, <1>7, AroundOne
<1> QED
  BY <1>5, <1>6, <1>7, <1>8

(* Steps of the accounts, of the coupons, of the segments and of feedback. *)
LEMMA PointsStep ==
  ASSUME GuestsInv, NEW s \in Requests, NEW r \in Request \cup {Null}, Becomes(s, r),
         req[s] # Null, req[s].op # "file", r # Null => r.op # "file",
         UNCHANGED <<work, people, offers, groups, voices>>, Grows, PointsTyped', PointsRows',
         r # Null => Inherits(s, r) /\ Vouches(r)'
  PROVE  GuestsInv'
<1>1. \A q \in Requests : req'[q] = IF q = s THEN r ELSE req[q]
  BY BecomesEffect
<1>2. \A o : Filing(o)' = Filing(o)
  BY <1>1 DEF Filing, Runs
<1>3. VoicesTyped' /\ VoicesRows'
  BY <1>2, VoicesRest
<1>4. OffersTyped' /\ IssuedRows' /\ GroupsTyped' /\ MemberRows'
  BY OffersRest, GroupsRest
<1> QED
  BY <1>3, <1>4, SideStep

LEMMA OffersStep ==
  ASSUME GuestsInv, NEW s \in Requests, NEW r \in Request \cup {Null}, Becomes(s, r), Quiet(s, r),
         UNCHANGED <<work, people, points, groups, voices>>, Grows, OffersTyped', IssuedRows',
         r # Null => Inherits(s, r) /\ Vouches(r)'
  PROVE  GuestsInv'
<1>1. \A x : Crediting(x)' = Crediting(x) /\ Filing(x)' = Filing(x)
  BY QuietOwes
<1>2. PointsTyped' /\ PointsRows' /\ VoicesTyped' /\ VoicesRows'
  BY <1>1, PointsRest, VoicesRest
<1>3. GroupsTyped' /\ MemberRows'
  BY GroupsRest
<1> QED
  BY <1>2, <1>3, SideStep

LEMMA GroupsStep ==
  ASSUME GuestsInv, NEW s \in Requests, NEW r \in Request \cup {Null}, Becomes(s, r), Quiet(s, r),
         UNCHANGED <<work, people, points, offers, voices>>, Grows, GroupsTyped', MemberRows',
         r # Null => Inherits(s, r) /\ Vouches(r)'
  PROVE  GuestsInv'
<1>1. \A x : Crediting(x)' = Crediting(x) /\ Filing(x)' = Filing(x)
  BY QuietOwes
<1>2. PointsTyped' /\ PointsRows' /\ VoicesTyped' /\ VoicesRows'
  BY <1>1, PointsRest, VoicesRest
<1>3. OffersTyped' /\ IssuedRows'
  BY OffersRest
<1> QED
  BY <1>2, <1>3, SideStep

LEMMA VoicesStep ==
  ASSUME GuestsInv, NEW s \in Requests, NEW r \in Request \cup {Null}, Becomes(s, r),
         req[s] # Null, req[s].op # "credit", r # Null => r.op # "credit",
         UNCHANGED <<work, people, points, offers, groups>>, Grows, VoicesTyped', VoicesRows',
         r # Null => Inherits(s, r) /\ Vouches(r)'
  PROVE  GuestsInv'
<1>1. \A q \in Requests : req'[q] = IF q = s THEN r ELSE req[q]
  BY BecomesEffect
<1>2. \A k : Crediting(k)' = Crediting(k)
  BY <1>1 DEF Crediting, Runs
<1>3. PointsTyped' /\ PointsRows'
  BY <1>2, PointsRest
<1>4. OffersTyped' /\ IssuedRows' /\ GroupsTyped' /\ MemberRows'
  BY OffersRest, GroupsRest
<1> QED
  BY <1>3, <1>4, SideStep

-----------------------------------------------------------------------------
(* Referral claims                                                         *)

LEMMA ClaimingEffect ==
  ASSUME GuestsInv, NEW s \in Requests, req[s] # Null, req[s].op \in {"referee", "invite"},
         NEW k \in Customers, NEW meta \in Metadata, Claiming(s, "account", k, meta)
  PROVE  \E r \in RewardRequest :
           /\ Becomes(s, r) /\ Quiet(s, r) /\ Inherits(s, r)
           /\ r.op = "account" /\ r.brand = req[s].brand /\ r.customer = k /\ r.meta = meta
<1>1. req[s] \in ClaimRequest
  BY RunningGuests, RequestKinds
<1>2. PICK r : r = [op |-> "account", brand |-> req[s].brand, referrer |-> req[s].referrer,
                    customer |-> k, meta |-> meta, coupon |-> Null]
  OBVIOUS
<1>3. r \in RewardRequest
  BY <1>1, <1>2 DEF RewardRequest, ClaimRequest
<1>4. Becomes(s, r) /\ Quiet(s, r) /\ Inherits(s, r)
  BY <1>2 DEF Becomes, Claiming, Quiet, Inherits, LinkOps, Carriers
<1> QED
  BY <1>2, <1>3, <1>4

LEMMA FindRefereeKeeps == ASSUME GuestsInv, NEW s \in Requests, FindReferee(s) PROVE GuestsInv'
<1>1. req[s] # Null /\ req[s].op = "referee"
  BY DEF FindReferee, Runs
<1>2. UNCHANGED <<work, people, points, offers, groups, voices>>
  BY DEF FindReferee
<1>3. req[s] \in ClaimRequest /\ Vouches(req[s])
  BY <1>1, RunningGuests, RequestKinds
<1>4. CASE Then(s, "invite")
  <2>1. PICK r : r = [req[s] EXCEPT !.op = "invite"]
    OBVIOUS
  <2>2. r \in ClaimRequest /\ r.op = "invite" /\ r.brand = req[s].brand
    BY <1>3, <2>1 DEF ClaimRequest
  <2>3. Becomes(s, r) /\ Quiet(s, r) /\ Inherits(s, r)
    BY <1>1, <1>4, <2>1, <2>2 DEF Becomes, Then, Quiet, Inherits, LinkOps, Carriers
  <2>4. Vouches(r)
    BY <1>1, <1>3, <2>2 DEF Vouches, RewardOps, Carriers
  <2> QED
    BY <1>2, <2>2, <2>3, <2>4, RequestTypes, GoesOn
<1>5. CASE Finish(s)
  BY <1>1, <1>2, <1>5, EndsQuietly DEF Quiet
<1>6. ASSUME NEW k \in Customers, InBrand(k, req[s].brand), Claiming(s, "account", k, customer[k].meta)
      PROVE  GuestsInv'
  <2>1. customer[k] # Null /\ customer[k].meta \in Metadata
    BY <1>6, CustomerTyped DEF InBrand
  <2>2. PICK r \in RewardRequest :
          /\ Becomes(s, r) /\ Quiet(s, r) /\ Inherits(s, r)
          /\ r.op = "account" /\ r.brand = req[s].brand /\ r.customer = k /\ r.meta = customer[k].meta
    BY <1>1, <1>6, <2>1, ClaimingEffect
  <2>3. Vouches(r)
    BY <1>6, <2>1, <2>2 DEF Vouches, RewardOps, Carriers
  <2> QED
    BY <1>2, <2>2, <2>3, RequestTypes, GoesOn
<1>7. \A k \in Named(req[s].brand, req[s].phone, 1) \cup Named(req[s].brand, req[s].phone, 2) :
        k \in Customers /\ InBrand(k, req[s].brand)
  BY DEF Named, InBrand
<1> QED
  BY <1>4, <1>5, <1>6, <1>7 DEF FindReferee

LEMMA InviteKeeps == ASSUME GuestsInv, NEW s \in Requests, Invite(s) PROVE GuestsInv'
<1>1. req[s] # Null /\ req[s].op = "invite"
  BY DEF Invite, Runs
<1>2. UNCHANGED <<work, brand, made, profile, order, points, offers, groups, voices>>
  BY DEF Invite
<1>3. req[s] \in ClaimRequest /\ Vouches(req[s])
  BY <1>1, RunningGuests, RequestKinds
<1>4. PICK b : b = req[s].brand
  OBVIOUS
<1>5. PICK p : p = req[s].phone
  OBVIOUS
<1>6. b \in made /\ p \in Phones
  BY <1>1, <1>3, <1>4, <1>5 DEF Vouches, Carriers, ClaimRequest
<1>7. PICK k \in Customers :
        /\ customer[k] = Null
        /\ IF PhoneFree(b, p, 1, k)
             THEN customer' = [customer EXCEPT ![k] = Guest(b, p, 1)] /\ Claiming(s, "account", k, customer'[k].meta)
             ELSE Finish(s) /\ UNCHANGED customer
  BY <1>4, <1>5 DEF Invite
<1>8. CASE PhoneFree(b, p, 1, k)
  <2>1. /\ Grows /\ PeopleTyped' /\ PeopleRows'
        /\ \A t \in Requests \ {s} : \A q \in Request : req[t] = q /\ Fresh(q) => Fresh(q)'
        /\ customer'[k] # Null /\ customer'[k].brand = b /\ customer'[k].meta \in Metadata
    BY <1>1, <1>2, <1>4, <1>6, <1>7, <1>8, GuestAdded DEF Carriers
  <2>2. PICK meta \in Metadata : meta = customer'[k].meta
    BY <2>1
  <2>3. PICK r \in RewardRequest :
          /\ Becomes(s, r) /\ Quiet(s, r) /\ Inherits(s, r)
          /\ r.op = "account" /\ r.brand = req[s].brand /\ r.customer = k /\ r.meta = meta
    BY <1>1, <1>7, <1>8, <2>2, ClaimingEffect
  <2>4. Vouches(r)'
    BY <1>4, <2>1, <2>2, <2>3 DEF Vouches, RewardOps, Carriers, InBrand
  <2>5. Fresh(r)'
    BY <2>3 DEF Fresh, LinkOps
  <2>6. Apart'
    BY <2>3, StaysApart
  <2> QED
    BY <1>2, <2>1, <2>3, <2>4, <2>5, <2>6, RequestTypes, PeopleStep
<1>9. CASE ~PhoneFree(b, p, 1, k)
  <2>1. UNCHANGED <<work, people, points, offers, groups, voices>> /\ Finish(s)
    BY <1>2, <1>7, <1>9 DEF people
  <2> QED
    BY <1>1, <2>1, EndsQuietly DEF Quiet
<1> QED
  BY <1>8, <1>9

(* A claim goes on to its next operation.                                  *)
LEMMA RewardThen ==
  ASSUME GuestsInv, NEW s \in Requests, req[s] # Null, req[s].op \in RewardOps,
         NEW op \in RewardOps, Then(s, op)
  PROVE  /\ req[s] \in RewardRequest
         /\ \E r \in RewardRequest :
              /\ r \in Request /\ Becomes(s, r) /\ Inherits(s, r) /\ r.op = op /\ r.brand = req[s].brand
              /\ r.referrer = req[s].referrer /\ r.customer = req[s].customer
              /\ r.meta = req[s].meta /\ r.coupon = req[s].coupon
<1>1. req[s] \in RewardRequest
  BY RunningGuests, RequestKinds
<1>2. PICK r : r = [req[s] EXCEPT !.op = op]
  OBVIOUS
<1>3. /\ r \in RewardRequest /\ r.op = op /\ r.brand = req[s].brand
      /\ r.referrer = req[s].referrer /\ r.customer = req[s].customer
      /\ r.meta = req[s].meta /\ r.coupon = req[s].coupon
  BY <1>1, <1>2 DEF RewardRequest, RewardOps
<1>4. Becomes(s, r)
  BY <1>2 DEF Becomes, Then
<1>5. Inherits(s, r)
  BY <1>3 DEF Inherits, LinkOps, Carriers, RewardOps
<1> QED
  BY <1>1, <1>3, <1>4, <1>5, RequestTypes

LEMMA FindAccountKeeps == ASSUME GuestsInv, NEW s \in Requests, FindAccount(s) PROVE GuestsInv'
<1>1. req[s] # Null /\ req[s].op = "account"
  BY DEF FindAccount, Runs
<1>2. UNCHANGED <<work, people, points, offers, groups, voices>>
  BY DEF FindAccount
<1>3. PICK op \in {"open", "enter"} : Then(s, op) /\ (op = "enter" => balance[req[s].referrer] # Null)
  BY DEF FindAccount
<1>4. PICK r \in RewardRequest :
        /\ r \in Request /\ Becomes(s, r) /\ Inherits(s, r) /\ r.op = op /\ r.brand = req[s].brand
        /\ r.referrer = req[s].referrer /\ r.customer = req[s].customer
        /\ r.meta = req[s].meta /\ r.coupon = req[s].coupon
  BY <1>1, <1>3, RewardThen DEF RewardOps
<1>5. Vouches(req[s])
  BY <1>1, RunningGuests
<1>6. Vouches(r)
  BY <1>1, <1>3, <1>4, <1>5 DEF Vouches, RewardOps, Carriers
<1>7. Quiet(s, r)
  BY <1>1, <1>3, <1>4 DEF Quiet
<1> QED
  BY <1>2, <1>4, <1>6, <1>7, GoesOn

LEMMA OpenAccountKeeps == ASSUME GuestsInv, NEW s \in Requests, OpenAccount(s) PROVE GuestsInv'
<1>1. req[s] # Null /\ req[s].op = "open"
  BY DEF OpenAccount, Runs
<1>2. UNCHANGED <<work, people, ledger, offers, groups, voices>>
  BY DEF OpenAccount
<1>3. req[s] \in RewardRequest /\ Vouches(req[s])
  BY <1>1, RunningGuests, RequestKinds DEF RewardOps
<1>4. PICK k : k = req[s].referrer
  OBVIOUS
<1>5. k \in Customers
  BY <1>3, <1>4 DEF RewardRequest
<1>6. CASE balance[k] = Null
  <2>1. balance' = [balance EXCEPT ![k] = 0] /\ Then(s, "enter")
    BY <1>4, <1>6 DEF OpenAccount
  <2>2. PICK r \in RewardRequest :
          /\ r \in Request /\ Becomes(s, r) /\ Inherits(s, r) /\ r.op = "enter" /\ r.brand = req[s].brand
          /\ r.referrer = req[s].referrer /\ r.customer = req[s].customer
          /\ r.meta = req[s].meta /\ r.coupon = req[s].coupon
    BY <1>1, <2>1, RewardThen DEF RewardOps
  <2>3. \A j \in Customers : balance'[j] = IF j = k THEN 0 ELSE balance[j]
    BY <2>1, AllTyped DEF PointsTyped
  <2>4. Grows
    BY <1>2, <2>3, NullAssumption DEF Grows, people, offers, groups, voices
  <2>5. PointsTyped'
    BY <1>2, <2>1, AllTyped DEF PointsTyped
  <2>6. PointsRows'
    <3>1. \A q \in Requests : req'[q] = IF q = s THEN r ELSE req[q]
      BY <2>2, BecomesEffect
    <3>2. \A j : Crediting(j)' = Crediting(j)
      BY <1>1, <2>2, <3>1 DEF Crediting, Runs
    <3> QED
      BY <1>2, <1>5, <1>6, <2>3, <3>2, AllTyped, NullAssumption DEF PointsRows
  <2>7. balance'[k] # Null
    BY <1>5, <2>3, NullAssumption
  <2>8. Vouches(r)'
    BY <1>1, <1>2, <1>3, <1>4, <2>2, <2>7 DEF Vouches, RewardOps, Carriers, InBrand, people, offers
  <2> QED
    BY <1>1, <1>2, <2>2, <2>4, <2>5, <2>6, <2>8, PointsStep
<1>7. CASE balance[k] # Null
  <2>1. Finish(s) /\ UNCHANGED balance
    BY <1>4, <1>7 DEF OpenAccount
  <2> QED
    BY <1>1, <1>2, <2>1, EndsQuietly DEF Quiet, points
<1> QED
  BY <1>6, <1>7

LEMMA EnterPointsKeeps == ASSUME GuestsInv, NEW s \in Requests, EnterPoints(s) PROVE GuestsInv'
<1>1. req[s] # Null /\ req[s].op = "enter"
  BY DEF EnterPoints, Runs
<1>2. UNCHANGED <<work, people, balance, offers, groups, voices>> /\ Then(s, "credit")
  BY DEF EnterPoints
<1>3. req[s] \in RewardRequest /\ Vouches(req[s])
  BY <1>1, RunningGuests, RequestKinds DEF RewardOps
<1>4. PICK k : k = req[s].referrer
  OBVIOUS
<1>5. k \in Customers
  BY <1>3, <1>4 DEF RewardRequest
<1>6. ledger' = [ledger EXCEPT ![k] = @ + 1]
  BY <1>4 DEF EnterPoints
<1>7. PICK r \in RewardRequest :
        /\ r \in Request /\ Becomes(s, r) /\ Inherits(s, r) /\ r.op = "credit" /\ r.brand = req[s].brand
        /\ r.referrer = req[s].referrer /\ r.customer = req[s].customer
        /\ r.meta = req[s].meta /\ r.coupon = req[s].coupon
  BY <1>1, <1>2, RewardThen DEF RewardOps
<1>8. \A j \in Customers : ledger'[j] = IF j = k THEN ledger[j] + 1 ELSE ledger[j]
  BY <1>6, AllTyped DEF PointsTyped
<1>9. Grows
  BY <1>2 DEF Grows, people, offers, groups, voices
<1>10. PointsTyped'
  BY <1>2, <1>5, <1>6, AllTyped DEF PointsTyped
<1>11. ASSUME NEW j \in Customers
       PROVE  ledger'[j] >= (IF balance'[j] = Null THEN 0 ELSE balance'[j]) + Cardinality(Crediting(j)')
  <2>1. /\ Cardinality(Crediting(j)) \in Nat /\ Cardinality(Crediting(j)') \in Nat
        /\ Cardinality(Crediting(j)') + 0 = Cardinality(Crediting(j)) + (IF k = j THEN 1 ELSE 0)
    BY <1>1, <1>4, <1>7, CreditingMoves, NullIsNoRequest
  <2>2. ledger[j] >= (IF balance[j] = Null THEN 0 ELSE balance[j]) + Cardinality(Crediting(j))
    BY AllTyped DEF PointsRows
  <2>3. ledger[j] \in Nat /\ balance[j] \in Nat \cup {Null}
    BY AllTyped DEF PointsTyped
  <2> QED
    BY <1>2, <1>8, <2>1, <2>2, <2>3
<1>12. PointsRows'
  BY <1>11 DEF PointsRows
<1>13. Vouches(r)'
  BY <1>1, <1>2, <1>3, <1>7 DEF Vouches, RewardOps, Carriers, InBrand, people, offers
<1> QED
  BY <1>1, <1>2, <1>7, <1>9, <1>10, <1>12, <1>13, PointsStep

LEMMA CreditPointsKeeps == ASSUME GuestsInv, NEW s \in Requests, CreditPoints(s) PROVE GuestsInv'
<1>1. req[s] # Null /\ req[s].op = "credit"
  BY DEF CreditPoints, Runs
<1>2. UNCHANGED <<work, people, ledger, offers, groups, voices>> /\ Then(s, "pick")
  BY DEF CreditPoints
<1>3. req[s] \in RewardRequest /\ Vouches(req[s])
  BY <1>1, RunningGuests, RequestKinds DEF RewardOps
<1>4. PICK k : k = req[s].referrer
  OBVIOUS
<1>5. k \in Customers /\ balance[k] # Null /\ balance[k] \in Nat
  BY <1>1, <1>3, <1>4, AllTyped DEF RewardRequest, Vouches, PointsTyped
<1>6. balance' = [balance EXCEPT ![k] = @ + 1]
  BY <1>4 DEF CreditPoints
<1>7. PICK r \in RewardRequest :
        /\ r \in Request /\ Becomes(s, r) /\ Inherits(s, r) /\ r.op = "pick" /\ r.brand = req[s].brand
        /\ r.referrer = req[s].referrer /\ r.customer = req[s].customer
        /\ r.meta = req[s].meta /\ r.coupon = req[s].coupon
  BY <1>1, <1>2, RewardThen DEF RewardOps
<1>8. \A j \in Customers : balance'[j] = IF j = k THEN balance[j] + 1 ELSE balance[j]
  BY <1>6, AllTyped DEF PointsTyped
<1>9. balance'[k] \in Nat /\ balance'[k] # Null
  BY <1>5, <1>8, NullAssumption
<1>10. Grows
  BY <1>2, <1>8, <1>9 DEF Grows, people, offers, groups, voices
<1>11. PointsTyped'
  BY <1>2, <1>5, <1>6, AllTyped DEF PointsTyped
<1>12. ASSUME NEW j \in Customers
       PROVE  ledger'[j] >= (IF balance'[j] = Null THEN 0 ELSE balance'[j]) + Cardinality(Crediting(j)')
  <2>1. /\ Cardinality(Crediting(j)) \in Nat /\ Cardinality(Crediting(j)') \in Nat
        /\ Cardinality(Crediting(j)') + (IF k = j THEN 1 ELSE 0) = Cardinality(Crediting(j)) + 0
    BY <1>1, <1>4, <1>7, CreditingMoves
  <2>2. ledger[j] >= (IF balance[j] = Null THEN 0 ELSE balance[j]) + Cardinality(Crediting(j))
    BY AllTyped DEF PointsRows
  <2>3. ledger[j] \in Nat /\ balance[j] \in Nat \cup {Null}
    BY AllTyped DEF PointsTyped
  <2>4. CASE j = k
    BY <1>2, <1>5, <1>8, <1>9, <2>1, <2>2, <2>3, <2>4
  <2>5. CASE j # k
    BY <1>2, <1>8, <2>1, <2>2, <2>3, <2>5
  <2> QED
    BY <2>4, <2>5
<1>13. PointsRows'
  BY <1>12 DEF PointsRows
<1>14. Vouches(r)'
  BY <1>1, <1>2, <1>3, <1>7 DEF Vouches, RewardOps, Carriers, InBrand, people, offers
<1> QED
  BY <1>1, <1>2, <1>7, <1>10, <1>11, <1>13, <1>14, PointsStep

(* The claim has a coupon of its brand to give.                            *)
LEMMA GrantEffect ==
  ASSUME GuestsInv, NEW s \in Requests, req[s] # Null, req[s].op \in {"pick", "mint"}, NEW c \in Coupons,
         req' = [req EXCEPT ![s].op = "grant", ![s].coupon = c]
  PROVE  \E r \in RewardRequest :
           /\ r \in Request /\ Becomes(s, r) /\ Quiet(s, r) /\ Inherits(s, r)
           /\ r.op = "grant" /\ r.coupon = c /\ r.brand = req[s].brand
           /\ r.customer = req[s].customer /\ r.meta = req[s].meta
<1>1. req[s] \in RewardRequest
  BY RunningGuests, RequestKinds DEF RewardOps
<1>2. PICK r : r = [req[s] EXCEPT !.op = "grant", !.coupon = c]
  OBVIOUS
<1>3. /\ r \in RewardRequest /\ r.op = "grant" /\ r.coupon = c /\ r.brand = req[s].brand
      /\ r.customer = req[s].customer /\ r.meta = req[s].meta
  BY <1>1, <1>2 DEF RewardRequest
<1>4. Becomes(s, r)
  BY <1>2 DEF Becomes
<1>5. Quiet(s, r) /\ Inherits(s, r)
  BY <1>3 DEF Quiet, Inherits, LinkOps, Carriers
<1> QED
  BY <1>3, <1>4, <1>5, RequestTypes

LEMMA FindWelcomeKeeps == ASSUME GuestsInv, NEW s \in Requests, FindWelcome(s) PROVE GuestsInv'
<1>1. req[s] # Null /\ req[s].op = "pick"
  BY DEF FindWelcome, Runs
<1>2. UNCHANGED <<work, people, points, offers, groups, voices>>
  BY DEF FindWelcome
<1>3. req[s] \in RewardRequest /\ Vouches(req[s])
  BY <1>1, RunningGuests, RequestKinds DEF RewardOps
<1>4. CASE Then(s, "mint")
  <2>1. PICK r \in RewardRequest :
          /\ r \in Request /\ Becomes(s, r) /\ Inherits(s, r) /\ r.op = "mint" /\ r.brand = req[s].brand
          /\ r.referrer = req[s].referrer /\ r.customer = req[s].customer
          /\ r.meta = req[s].meta /\ r.coupon = req[s].coupon
    BY <1>1, <1>4, RewardThen DEF RewardOps
  <2>2. Vouches(r) /\ Quiet(s, r)
    BY <1>1, <1>3, <2>1 DEF Vouches, RewardOps, Carriers, Quiet
  <2> QED
    BY <1>2, <2>1, <2>2, GoesOn
<1>5. ASSUME NEW c \in CouponsOf(req[s].brand, TRUE, {1, 2}),
             req' = [req EXCEPT ![s].op = "grant", ![s].coupon = c]
      PROVE  GuestsInv'
  <2>1. c \in Coupons /\ There(coupon[c]) /\ coupon[c].brand = req[s].brand
    BY <1>5 DEF CouponsOf
  <2>2. PICK r \in RewardRequest :
          /\ r \in Request /\ Becomes(s, r) /\ Quiet(s, r) /\ Inherits(s, r)
          /\ r.op = "grant" /\ r.coupon = c /\ r.brand = req[s].brand
          /\ r.customer = req[s].customer /\ r.meta = req[s].meta
    BY <1>1, <1>5, <2>1, GrantEffect
  <2>3. coupon[c] # Null /\ c # Null
    BY <2>1, NullAssumption DEF There
  <2>4. Vouches(r)
    BY <1>1, <1>3, <2>1, <2>2, <2>3 DEF Vouches, RewardOps, Carriers
  <2> QED
    BY <1>2, <2>2, <2>4, GoesOn
<1> QED
  BY <1>4, <1>5 DEF FindWelcome

(* A coupon that was not there before was issued to nobody.                *)
LEMMA CouponAdded ==
  ASSUME GuestsInv, NEW c \in Coupons, coupon[c] = Null, NEW row \in Coupon,
         coupon' = [coupon EXCEPT ![c] = row],
         UNCHANGED <<work, people, points, issued, groups, voices>>
  PROVE  Grows /\ OffersTyped' /\ IssuedRows' /\ coupon'[c] = row /\ coupon'[c] # Null
<1>1. \A d \in Coupons : coupon'[d] = IF d = c THEN row ELSE coupon[d]
  BY AllTyped DEF OffersTyped
<1>2. row # Null
  BY NullAssumption
<1>3. Grows
  BY <1>1, <1>2 DEF Grows, people, points, groups, voices, There
<1>4. OffersTyped'
  BY AllTyped DEF OffersTyped
<1>5. IssuedRows'
  <2>1. \A k \in Customers, d \in Coupons : issued[k][d] > 0 => d # c
    BY AllTyped DEF IssuedRows, There
  <2> QED
    BY <1>1, <2>1, AllTyped DEF IssuedRows, SameBusiness, There, people
<1> QED
  BY <1>1, <1>2, <1>3, <1>4, <1>5

LEMMA MintWelcomeKeeps == ASSUME GuestsInv, NEW s \in Requests, MintWelcome(s) PROVE GuestsInv'
<1>1. req[s] # Null /\ req[s].op = "mint"
  BY DEF MintWelcome, Runs
<1>2. UNCHANGED <<work, people, points, issued, groups, voices>>
  BY DEF MintWelcome
<1>3. req[s] \in RewardRequest /\ Vouches(req[s])
  BY <1>1, RunningGuests, RequestKinds DEF RewardOps
<1>4. ASSUME NEW c \in Coupons, coupon[c] = Null,
             coupon' = [coupon EXCEPT ![c] = [brand |-> req[s].brand, welcome |-> TRUE, generation |-> 1]],
             req' = [req EXCEPT ![s].op = "grant", ![s].coupon = c]
      PROVE  GuestsInv'
  <2>1. PICK row : row = [brand |-> req[s].brand, welcome |-> TRUE, generation |-> 1]
    OBVIOUS
  <2>2. row \in Coupon /\ row.brand = req[s].brand
    BY <1>3, <2>1 DEF Coupon, RewardRequest
  <2>3. Grows /\ OffersTyped' /\ IssuedRows' /\ coupon'[c] = row /\ coupon'[c] # Null
    BY <1>2, <1>4, <2>1, <2>2, CouponAdded
  <2>4. PICK r \in RewardRequest :
          /\ r \in Request /\ Becomes(s, r) /\ Quiet(s, r) /\ Inherits(s, r)
          /\ r.op = "grant" /\ r.coupon = c /\ r.brand = req[s].brand
          /\ r.customer = req[s].customer /\ r.meta = req[s].meta
    BY <1>1, <1>4, GrantEffect
  <2>5. c # Null
    BY NullAssumption
  <2>6. Vouches(r)'
    BY <1>1, <1>2, <1>3, <2>2, <2>3, <2>4, <2>5 DEF Vouches, RewardOps, Carriers, InBrand, people
  <2> QED
    BY <1>2, <2>3, <2>4, <2>6, OffersStep
<1>5. CASE Finish(s) /\ UNCHANGED coupon
  BY <1>1, <1>2, <1>5, EndsQuietly DEF Quiet, offers
<1> QED
  BY <1>4, <1>5 DEF MintWelcome

(* Who is given a coupon is a customer of its brand.                       *)
LEMMA IssuedOnce ==
  ASSUME GuestsInv, NEW k \in Customers, NEW c \in Coupons, There(coupon[c]),
         customer[k] # Null, SameBusiness(k, c),
         issued' = [issued EXCEPT ![k][c] = @ + 1],
         UNCHANGED <<work, people, points, coupon, groups, voices>>
  PROVE  Grows /\ OffersTyped' /\ IssuedRows'
<1>1. \A j \in Customers, d \in Coupons :
        issued'[j][d] = IF j = k /\ d = c THEN issued[k][c] + 1 ELSE issued[j][d]
  BY AllTyped DEF OffersTyped
<1>2. Grows
  BY DEF Grows, people, points, groups, voices
<1>3. OffersTyped'
  <2>1. issued' \in [Customers -> [Coupons -> Nat]]
    BY AllTyped DEF OffersTyped
  <2> QED
    BY <2>1, AllTyped DEF OffersTyped
<1>4. IssuedRows'
  <2> SUFFICES ASSUME NEW j \in Customers, NEW d \in Coupons, issued'[j][d] > 0
      PROVE  There(coupon[d]) /\ customer[j] # Null /\ SameBusiness(j, d)
    BY DEF IssuedRows, SameBusiness, There, people
  <2>1. CASE j = k /\ d = c
    BY <2>1
  <2>2. CASE ~(j = k /\ d = c)
    BY <1>1, <2>2, AllTyped DEF IssuedRows
  <2> QED
    BY <2>1, <2>2
<1> QED
  BY <1>2, <1>3, <1>4

LEMMA GrantCouponKeeps == ASSUME GuestsInv, NEW s \in Requests, GrantCoupon(s) PROVE GuestsInv'
<1>1. req[s] # Null /\ req[s].op = "grant"
  BY DEF GrantCoupon, Runs
<1>2. UNCHANGED <<work, people, points, coupon, groups, voices>>
  BY DEF GrantCoupon
<1>3. req[s] \in RewardRequest /\ Vouches(req[s])
  BY <1>1, RunningGuests, RequestKinds DEF RewardOps
<1>4. PICK c : c = req[s].coupon
  OBVIOUS
<1>5. PICK k : k = req[s].customer
  OBVIOUS
<1>6. /\ c \in Coupons /\ k \in Customers /\ InBrand(k, req[s].brand)
      /\ There(coupon[c]) => coupon[c].brand = req[s].brand
  BY <1>1, <1>3, <1>4, <1>5 DEF Vouches, RewardRequest, RewardOps
<1>7. CASE There(coupon[c])
  <2>1. /\ issued' = [issued EXCEPT ![k][c] = @ + 1] /\ Then(s, "mark")
    BY <1>4, <1>5, <1>7 DEF GrantCoupon
  <2>2. customer[k] # Null /\ SameBusiness(k, c)
    BY <1>6, <1>7 DEF InBrand, SameBusiness
  <2>3. Grows /\ OffersTyped' /\ IssuedRows'
    BY <1>2, <1>6, <1>7, <2>1, <2>2, IssuedOnce
  <2>4. PICK r \in RewardRequest :
          /\ r \in Request /\ Becomes(s, r) /\ Inherits(s, r) /\ r.op = "mark" /\ r.brand = req[s].brand
          /\ r.referrer = req[s].referrer /\ r.customer = req[s].customer
          /\ r.meta = req[s].meta /\ r.coupon = req[s].coupon
    BY <1>1, <2>1, RewardThen DEF RewardOps
  <2>5. Vouches(r)' /\ Quiet(s, r)
    BY <1>1, <1>2, <1>5, <1>6, <2>4
    DEF Vouches, RewardOps, Carriers, InBrand, people, Quiet
  <2> QED
    BY <1>2, <2>3, <2>4, <2>5, OffersStep
<1>8. CASE ~There(coupon[c])
  <2>1. Finish(s) /\ UNCHANGED issued
    BY <1>4, <1>8 DEF GrantCoupon
  <2> QED
    BY <1>1, <1>2, <2>1, EndsQuietly DEF Quiet, offers
<1> QED
  BY <1>7, <1>8

LEMMA MarkClaimedKeeps == ASSUME GuestsInv, NEW s \in Requests, MarkClaimed(s) PROVE GuestsInv'
<1>1. req[s] # Null /\ req[s].op = "mark"
  BY DEF MarkClaimed, Runs
<1>2. UNCHANGED <<work, brand, made, profile, order, points, offers, groups, voices>>
  BY DEF MarkClaimed
<1>3. req[s] \in RewardRequest /\ Vouches(req[s])
  BY <1>1, RunningGuests, RequestKinds DEF RewardOps
<1>4. PICK k : k = req[s].customer
  OBVIOUS
<1>5. PICK meta : meta = [req[s].meta EXCEPT !.claimed = TRUE]
  OBVIOUS
<1>6. k \in Customers /\ customer[k] # Null /\ meta \in Metadata
  BY <1>1, <1>3, <1>4, <1>5 DEF Vouches, RewardOps, RewardRequest, InBrand, Metadata
<1>7. customer' = [customer EXCEPT ![k].meta = meta]
  BY <1>4, <1>5 DEF MarkClaimed
<1>8. Becomes(s, Null) /\ Quiet(s, Null)
  BY <1>1 DEF MarkClaimed, Finish, Becomes, Quiet
<1> QED
  BY <1>2, <1>6, <1>7, <1>8, MetaKeeps

-----------------------------------------------------------------------------
(* Metadata rewritten                                                      *)

LEMMA WriteScoreKeeps == ASSUME GuestsInv, NEW s \in Requests, WriteScore(s) PROVE GuestsInv'
<1>1. req[s] # Null /\ req[s].op = "score"
  BY DEF WriteScore, Runs
<1>2. UNCHANGED <<work, brand, made, profile, order, points, offers, groups, voices>>
  BY DEF WriteScore
<1>3. req[s] \in ScoreRequest /\ Vouches(req[s])
  BY <1>1, RunningGuests, RequestKinds
<1>4. PICK k \in req[s].left :
        /\ customer' = [customer EXCEPT ![k].meta = req[s].meta[k]]
        /\ IF req[s].left = {k} THEN Finish(s)
           ELSE req' = [req EXCEPT ![s].left = @ \ {k}]
  BY DEF WriteScore
<1>5. PICK meta : meta = req[s].meta[k]
  OBVIOUS
<1>6. PICK known \in SUBSET Customers : req[s].meta \in [known -> Metadata]
  BY <1>3 DEF ScoreRequest
<1>7. k \in Customers /\ customer[k] # Null /\ req[s].meta[k] \in Metadata
  BY <1>1, <1>3, <1>4, <1>6 DEF ScoreRequest, Vouches
<1>8. meta \in Metadata
  BY <1>5, <1>7 DEF Metadata
<1>9. customer' = [customer EXCEPT ![k].meta = meta]
  BY <1>4, <1>5
<1>10. CASE req[s].left = {k}
  <2>1. Becomes(s, Null) /\ Quiet(s, Null)
    BY <1>1, <1>4, <1>10 DEF Finish, Becomes, Quiet
  <2> QED
    BY <1>2, <1>7, <1>8, <1>9, <2>1, MetaKeeps
<1>11. CASE req[s].left # {k}
  <2>1. PICK r : r = [req[s] EXCEPT !.left = @ \ {k}]
    OBVIOUS
  <2>2. r \in ScoreRequest /\ r.op = "score" /\ r.left \subseteq req[s].left /\ r.meta = req[s].meta
    BY <1>3, <2>1 DEF ScoreRequest
  <2>3. Becomes(s, r) /\ Quiet(s, r) /\ Inherits(s, r)
    BY <1>1, <1>4, <1>11, <2>1, <2>2 DEF Becomes, Quiet, Inherits, LinkOps, Carriers
  <2>4. Vouches(r)
    BY <1>1, <1>3, <2>2 DEF Vouches, RewardOps, Carriers
  <2> QED
    BY <1>2, <1>7, <1>8, <1>9, <2>2, <2>3, <2>4, RequestTypes, MetaKeeps
<1> QED
  BY <1>10, <1>11

LEMMA EditCustomerKeeps == ASSUME GuestsInv, NEW s \in Requests, EditCustomer(s) PROVE GuestsInv'
<1>1. req[s] # Null /\ req[s].op = "edit"
  BY DEF EditCustomer, Runs
<1>2. UNCHANGED <<work, brand, made, profile, order, points, offers, groups, voices>> /\ Finish(s)
  BY DEF EditCustomer
<1>3. req[s] \in EditRequest /\ Vouches(req[s])
  BY <1>1, RunningGuests, RequestKinds
<1>4. PICK k : k = req[s].customer
  OBVIOUS
<1>5. PICK q : q = req[s]
  OBVIOUS
<1>6. /\ k \in Customers /\ customer[k] # Null /\ customer[k].generation = 2
      /\ q.phone \in Phones /\ q.meta \in Metadata
  BY <1>1, <1>3, <1>4, <1>5 DEF Vouches, EditRequest
<1>7. Becomes(s, Null) /\ Quiet(s, Null)
  BY <1>1, <1>2 DEF Finish, Becomes, Quiet
<1>8. CASE PhoneFree(customer[k].brand, q.phone, 2, k)
  <2>1. PICK row : row = [customer[k] EXCEPT !.phone = q.phone, !.meta = q.meta]
    OBVIOUS
  <2>2. customer' = [customer EXCEPT ![k] = row]
    BY <1>4, <1>5, <1>8, <2>1 DEF EditCustomer
  <2>3. customer[k] \in Customer
    BY <1>6, CustomerTyped
  <2>4. /\ row \in Customer /\ row.brand = customer[k].brand /\ row.generation = customer[k].generation
        /\ row.total = customer[k].total /\ row.phone = q.phone /\ row.meta = q.meta
    BY <1>6, <2>1, <2>3 DEF Customer
  <2>5. PhoneFree(row.brand, row.phone, row.generation, k)
    BY <1>6, <1>8, <2>4
  <2> QED
    BY <1>2, <1>6, <1>7, <2>2, <2>4, <2>5, RewriteKeeps
<1>9. CASE ~PhoneFree(customer[k].brand, q.phone, 2, k)
  <2>1. UNCHANGED <<work, people, points, offers, groups, voices>>
    BY <1>2, <1>4, <1>5, <1>9 DEF EditCustomer, people
  <2> QED
    BY <1>1, <1>2, <2>1, EndsQuietly DEF Quiet
<1> QED
  BY <1>8, <1>9

-----------------------------------------------------------------------------
(* Coupons of staff                                                        *)

LEMMA CreateCouponKeeps == ASSUME GuestsInv, NEW s \in Requests, CreateCoupon(s) PROVE GuestsInv'
<1>1. req[s] # Null /\ req[s].op = "template"
  BY DEF CreateCoupon, Runs
<1>2. UNCHANGED <<work, people, points, issued, groups, voices>> /\ Finish(s)
  BY DEF CreateCoupon
<1>3. req[s] \in [op : {"template"}, brand : Brands, welcome : BOOLEAN]
  BY <1>1, RunningGuests, RequestKinds
<1>4. PICK row : row = [brand |-> req[s].brand, welcome |-> req[s].welcome, generation |-> 2]
  OBVIOUS
<1>5. row \in Coupon
  BY <1>3, <1>4 DEF Coupon
<1>6. PICK c \in Coupons : coupon[c] = Null /\ (coupon' = [coupon EXCEPT ![c] = row] \/ coupon' = coupon)
  BY <1>4 DEF CreateCoupon
<1>7. CASE coupon' = [coupon EXCEPT ![c] = row]
  <2>1. Grows /\ OffersTyped' /\ IssuedRows'
    BY <1>2, <1>5, <1>6, <1>7, CouponAdded
  <2>2. Becomes(s, Null) /\ Quiet(s, Null)
    BY <1>1, <1>2 DEF Finish, Becomes, Quiet
  <2> QED
    BY <1>2, <2>1, <2>2, OffersStep
<1>8. CASE coupon' = coupon
  BY <1>1, <1>2, <1>8, EndsQuietly DEF Quiet, offers
<1> QED
  BY <1>6, <1>7, <1>8

LEMMA DeleteCouponKeeps == ASSUME GuestsInv, NEW s \in Requests, DeleteCoupon(s) PROVE GuestsInv'
<1>1. req[s] # Null /\ req[s].op = "remove"
  BY DEF DeleteCoupon, Runs
<1>2. UNCHANGED <<work, people, points, groups, voices>> /\ Finish(s)
  BY DEF DeleteCoupon
<1>3. PICK c : c = req[s].coupon
  OBVIOUS
<1>4. c \in Coupons
  BY <1>1, <1>3, RunningGuests, RequestKinds
<1>5. /\ coupon' = [coupon EXCEPT ![c] = Deleted]
      /\ issued' = [k \in Customers |-> [issued[k] EXCEPT ![c] = 0]]
  BY <1>3 DEF DeleteCoupon
<1>6. \A d \in Coupons : coupon'[d] = IF d = c THEN Deleted ELSE coupon[d]
  BY <1>5, AllTyped DEF OffersTyped
<1>7. \A k \in Customers, d \in Coupons : issued'[k][d] = IF d = c THEN 0 ELSE issued[k][d]
  BY <1>5, AllTyped DEF OffersTyped
<1>8. Grows
  BY <1>2, <1>6, NullAssumption DEF Grows, people, points, groups, voices, There
<1>9. OffersTyped'
  BY <1>2, <1>5, AllTyped DEF OffersTyped
<1>10. IssuedRows'
  BY <1>2, <1>6, <1>7, AllTyped DEF IssuedRows, SameBusiness, There, people
<1>11. Becomes(s, Null) /\ Quiet(s, Null)
  BY <1>1, <1>2 DEF Finish, Becomes, Quiet
<1> QED
  BY <1>2, <1>8, <1>9, <1>10, <1>11, OffersStep

LEMMA CheckIssueKeeps == ASSUME GuestsInv, NEW s \in Requests, CheckIssue(s) PROVE GuestsInv'
<1>1. req[s] # Null /\ req[s].op = "issue"
  BY DEF CheckIssue, Runs
<1>2. UNCHANGED <<work, people, points, offers, groups, voices>>
  BY DEF CheckIssue
<1>3. req[s] \in [op : {"issue", "hand"}, customer : Customers, coupon : Coupons]
  BY <1>1, RunningGuests, RequestKinds
<1>4. CASE Finish(s)
  BY <1>1, <1>2, <1>4, EndsQuietly DEF Quiet
<1>5. CASE /\ Then(s, "hand") /\ There(coupon[req[s].coupon])
           /\ customer[req[s].customer] # Null /\ SameBusiness(req[s].customer, req[s].coupon)
  <2>1. PICK r : r = [req[s] EXCEPT !.op = "hand"]
    OBVIOUS
  <2>2. /\ r \in [op : {"issue", "hand"}, customer : Customers, coupon : Coupons]
        /\ r.op = "hand" /\ r.customer = req[s].customer /\ r.coupon = req[s].coupon
    BY <1>3, <2>1
  <2>3. r \in Request
    BY <2>2, RequestTypes DEF OfferRequest
  <2>4. Becomes(s, r) /\ Quiet(s, r) /\ Inherits(s, r)
    BY <1>1, <1>5, <2>1, <2>2 DEF Then, Becomes, Quiet, Inherits, LinkOps, Carriers
  <2>5. Vouches(r)
    BY <1>5, <2>2 DEF Vouches, RewardOps, Carriers, There
  <2> QED
    BY <1>2, <2>3, <2>4, <2>5, GoesOn
<1> QED
  BY <1>4, <1>5 DEF CheckIssue

LEMMA IssueCouponKeeps == ASSUME GuestsInv, NEW s \in Requests, IssueCoupon(s) PROVE GuestsInv'
<1>1. req[s] # Null /\ req[s].op = "hand"
  BY DEF IssueCoupon, Runs
<1>2. UNCHANGED <<work, people, points, coupon, groups, voices>> /\ Finish(s)
  BY DEF IssueCoupon
<1>3. /\ req[s] \in [op : {"issue", "hand"}, customer : Customers, coupon : Coupons]
      /\ Vouches(req[s])
  BY <1>1, RunningGuests, RequestKinds
<1>4. PICK k \in Customers : k = req[s].customer
  BY <1>3
<1>5. PICK c \in Coupons : c = req[s].coupon
  BY <1>3
<1>6. customer[k] # Null /\ (There(coupon[c]) => SameBusiness(k, c))
  BY <1>1, <1>3, <1>4, <1>5 DEF Vouches
<1>7. Becomes(s, Null) /\ Quiet(s, Null)
  BY <1>1, <1>2 DEF Finish, Becomes, Quiet
<1>8. CASE There(coupon[c])
  <2>1. issued' = [issued EXCEPT ![k][c] = @ + 1]
    BY <1>4, <1>5, <1>8 DEF IssueCoupon
  <2>2. Grows /\ OffersTyped' /\ IssuedRows'
    BY <1>2, <1>6, <1>8, <2>1, IssuedOnce
  <2> QED
    BY <1>2, <1>7, <2>2, OffersStep
<1>9. CASE ~There(coupon[c])
  <2>1. issued' = issued
    BY <1>5, <1>9 DEF IssueCoupon
  <2> QED
    BY <1>1, <1>2, <2>1, EndsQuietly DEF Quiet, offers
<1> QED
  BY <1>8, <1>9

-----------------------------------------------------------------------------
(* Segments                                                                *)

LEMMA CreateSegmentKeeps == ASSUME GuestsInv, NEW s \in Requests, CreateSegment(s) PROVE GuestsInv'
<1>1. req[s] # Null /\ req[s].op = "found"
  BY DEF CreateSegment, Runs
<1>2. UNCHANGED <<work, people, points, offers, members, voices>>
  BY DEF CreateSegment
<1>3. req[s] \in [op : {"found", "match"}, brand : Brands, left : SUBSET Segments]
  BY <1>1, RunningGuests, RequestKinds
<1>4. CASE \A g \in req[s].left : segment[g] = Null
  <2>1. /\ segment' = [g \in Segments |-> IF g \in req[s].left THEN req[s].brand ELSE segment[g]]
        /\ Then(s, "match")
    BY <1>4 DEF CreateSegment
  <2>2. PICK r : r = [req[s] EXCEPT !.op = "match"]
    OBVIOUS
  <2>3. r \in [op : {"found", "match"}, brand : Brands, left : SUBSET Segments] /\ r.op = "match"
    BY <1>3, <2>2
  <2>4. r \in Request
    BY <2>3, RequestTypes DEF SegmentRequest
  <2>5. Becomes(s, r) /\ Quiet(s, r) /\ Inherits(s, r)
    BY <1>1, <2>1, <2>2, <2>3 DEF Then, Becomes, Quiet, Inherits, LinkOps, Carriers
  <2>6. Vouches(r)'
    BY <2>3 DEF Vouches, RewardOps, Carriers
  <2>7. \A g \in Segments : segment[g] # Null => segment'[g] = segment[g]
    BY <1>4, <2>1
  <2>8. Grows
    BY <1>2, <2>7 DEF Grows, people, points, offers, voices
  <2>9. GroupsTyped'
    BY <1>2, <1>3, <2>1, AllTyped DEF GroupsTyped
  <2>10. MemberRows'
    <3>1. \A g \in Segments : \A k \in members[g] : segment[g] # Null
      BY AllTyped, CustomerTyped, NullAssumption DEF MemberRows, InBrand, GroupsTyped
    <3>2. \A k : AllVisits(k)' = AllVisits(k)
      BY <1>2 DEF AllVisits, Paid, people
    <3> QED
      BY <1>2, <2>7, <3>1, <3>2, AllTyped DEF MemberRows, InBrand, Qualifies, people
  <2> QED
    BY <1>2, <2>4, <2>5, <2>6, <2>8, <2>9, <2>10, GroupsStep
<1>5. CASE ~ \A g \in req[s].left : segment[g] = Null
  <2>1. Finish(s) /\ UNCHANGED segment
    BY <1>5 DEF CreateSegment
  <2> QED
    BY <1>1, <1>2, <2>1, EndsQuietly DEF Quiet, groups
<1> QED
  BY <1>4, <1>5

LEMMA DeleteSegmentKeeps == ASSUME GuestsInv, NEW s \in Requests, DeleteSegment(s) PROVE GuestsInv'
<1>1. req[s] # Null /\ req[s].op = "dissolve"
  BY DEF DeleteSegment, Runs
<1>2. UNCHANGED <<work, people, points, offers, voices>> /\ Finish(s)
  BY DEF DeleteSegment
<1>3. PICK g : g = req[s].segment
  OBVIOUS
<1>4. g \in Segments
  BY <1>1, <1>3, RunningGuests, RequestKinds
<1>5. /\ segment' = [segment EXCEPT ![g] = Deleted] /\ members' = [members EXCEPT ![g] = {}]
  BY <1>3 DEF DeleteSegment
<1>6. \A h \in Segments : /\ segment'[h] = IF h = g THEN Deleted ELSE segment[h]
                          /\ members'[h] = IF h = g THEN {} ELSE members[h]
  BY <1>5, AllTyped DEF GroupsTyped
<1>7. Grows
  BY <1>2, <1>6 DEF Grows, people, points, offers, voices
<1>8. GroupsTyped'
  BY <1>5, AllTyped DEF GroupsTyped
<1>9. MemberRows'
  <2>1. \A k : AllVisits(k)' = AllVisits(k)
    BY <1>2 DEF AllVisits, Paid, people
  <2> QED
    BY <1>2, <1>6, <2>1, AllTyped DEF MemberRows, InBrand, Qualifies, people
<1>10. Becomes(s, Null) /\ Quiet(s, Null)
  BY <1>1, <1>2 DEF Finish, Becomes, Quiet
<1> QED
  BY <1>2, <1>7, <1>8, <1>9, <1>10, GroupsStep

(* An evaluation goes on to the segments that are left.                    *)
LEMMA NextSegmentEffect ==
  ASSUME GuestsInv, NEW s \in Requests, req[s] # Null, req[s].op \in {"match", "clear", "fill"}, NEW g
  PROVE  \E r \in Request \cup {Null} :
           /\ r = NextSegment(s, req[s].left \ {g})
           /\ r # Null => r.op = "match" /\ Vouches(r) /\ Fresh(r)
<1>1. req[s].brand \in Brands /\ req[s].left \in SUBSET Segments
  BY RunningGuests, RequestKinds DEF FillRequest
<1>2. PICK r : r = NextSegment(s, req[s].left \ {g})
  OBVIOUS
<1>3. CASE req[s].left \ {g} = {}
  BY <1>2, <1>3 DEF NextSegment
<1>4. CASE req[s].left \ {g} # {}
  <2>1. r = [op |-> "match", brand |-> req[s].brand, left |-> req[s].left \ {g}]
    BY <1>2, <1>4 DEF NextSegment
  <2>2. r \in [op : {"found", "match"}, brand : Brands, left : SUBSET Segments] /\ r.op = "match"
    BY <1>1, <2>1
  <2>3. r \in Request
    BY <2>2, RequestTypes DEF SegmentRequest
  <2>4. Vouches(r) /\ Fresh(r)
    BY <2>2 DEF Vouches, Fresh, RewardOps, Carriers, LinkOps
  <2> QED
    BY <1>2, <2>2, <2>3, <2>4
<1> QED
  BY <1>3, <1>4

LEMMA MatchSegmentKeeps == ASSUME GuestsInv, NEW s \in Requests, MatchSegment(s) PROVE GuestsInv'
<1>1. req[s] # Null /\ req[s].op = "match"
  BY DEF MatchSegment, Runs
<1>2. UNCHANGED <<work, people, points, offers, groups, voices>>
  BY DEF MatchSegment
<1>3. req[s] \in [op : {"found", "match"}, brand : Brands, left : SUBSET Segments]
  BY <1>1, RunningGuests, RequestKinds
<1>4. PICK g \in req[s].left :
        req' = [req EXCEPT ![s] =
          IF segment[g] = req[s].brand
            THEN [op |-> "clear", brand |-> req[s].brand, left |-> req[s].left, segment |-> g,
                  found |-> Matching(segment[g]), overtaken |-> FALSE]
            ELSE NextSegment(s, req[s].left \ {g})]
  BY DEF MatchSegment
<1>5. CASE segment[g] = req[s].brand
  <2>1. PICK found : found = Matching(segment[g])
    OBVIOUS
  <2>2. PICK r : r = [op |-> "clear", brand |-> req[s].brand, left |-> req[s].left, segment |-> g,
                      found |-> found, overtaken |-> FALSE]
    OBVIOUS
  <2>3. found \in SUBSET Customers
    BY <2>1 DEF Matching
  <2>4. r \in FillRequest
    BY <1>3, <1>4, <2>2, <2>3 DEF FillRequest
  <2>5. Becomes(s, r) /\ Quiet(s, r) /\ Inherits(s, r)
    BY <1>1, <1>4, <1>5, <2>1, <2>2 DEF Becomes, Quiet, Inherits, LinkOps, Carriers
  <2>6. ASSUME NEW k \in found PROVE InBrand(k, req[s].brand) /\ Qualifies(k)
    <3>1. k \in Customers /\ customer[k] # Null /\ customer[k].brand = segment[g] /\ customer[k].total >= MinOrders
      BY <2>1, <2>6 DEF Matching
    <3>2. customer[k].total <= Cardinality(AllVisits(k)) /\ customer[k].total \in Nat
      BY <3>1, AllTyped, CustomerTyped DEF PeopleRows
    <3>3. Qualifies(k)
      BY <3>1, <3>2, VisitsFinite, LimitsAssumption DEF Qualifies
    <3> QED
      BY <1>5, <3>1, <3>3 DEF InBrand
  <2>7. Vouches(r)
    BY <1>5, <2>2, <2>6 DEF Vouches, RewardOps, Carriers
  <2> QED
    BY <1>2, <2>4, <2>5, <2>7, RequestTypes, GoesOn
<1>6. CASE segment[g] # req[s].brand
  <2>1. PICK r \in Request \cup {Null} :
          /\ r = NextSegment(s, req[s].left \ {g})
          /\ r # Null => r.op = "match" /\ Vouches(r) /\ Fresh(r)
    BY <1>1, NextSegmentEffect
  <2>2. Becomes(s, r) /\ Quiet(s, r)
    BY <1>1, <1>4, <1>6, <2>1 DEF Becomes, Quiet
  <2>3. r # Null => Inherits(s, r)
    BY <2>1 DEF Inherits, LinkOps, Carriers
  <2> QED
    BY <1>2, <2>1, <2>2, <2>3, GoesOn
<1> QED
  BY <1>5, <1>6

LEMMA ClearMembersKeeps == ASSUME GuestsInv, NEW s \in Requests, ClearMembers(s) PROVE GuestsInv'
<1>1. req[s] # Null /\ req[s].op = "clear" /\ Then(s, "fill")
  BY DEF ClearMembers, Runs
<1>2. UNCHANGED <<work, people, points, offers, groups, voices>>
  BY DEF ClearMembers
<1>3. req[s] \in FillRequest /\ Vouches(req[s])
  BY <1>1, RunningGuests, RequestKinds
<1>4. PICK r : r = [req[s] EXCEPT !.op = "fill"]
  OBVIOUS
<1>5. /\ r \in FillRequest /\ r.op = "fill" /\ r.brand = req[s].brand /\ r.segment = req[s].segment
      /\ r.found = req[s].found
  BY <1>3, <1>4 DEF FillRequest
<1>6. Becomes(s, r) /\ Quiet(s, r) /\ Inherits(s, r)
  BY <1>1, <1>4, <1>5 DEF Then, Becomes, Quiet, Inherits, LinkOps, Carriers
<1>7. Vouches(r)
  BY <1>1, <1>3, <1>5 DEF Vouches, RewardOps, Carriers
<1> QED
  BY <1>2, <1>5, <1>6, <1>7, RequestTypes, GoesOn

(* The one evaluation ends; another one of the segment learns of it.       *)
LEMMA FillMembersKeeps == ASSUME GuestsInv, NEW s \in Requests, FillMembers(s) PROVE GuestsInv'
<1>1. req[s] # Null /\ req[s].op = "fill"
  BY DEF FillMembers, Runs
<1>2. UNCHANGED <<work, people, points, offers, segment, voices>>
  BY DEF FillMembers
<1>3. req[s] \in FillRequest /\ Vouches(req[s])
  BY <1>1, RunningGuests, RequestKinds
<1>4. PICK g : g = req[s].segment
  OBVIOUS
<1>5. PICK found : found = req[s].found
  OBVIOUS
<1>6. PICK stays : stays = IF req[s].overtaken THEN members[g] ELSE {}
  OBVIOUS
<1>7. PICK works : works = (stays \cap found = {} /\ (found = {} \/ There(segment[g])))
  OBVIOUS
<1>8. /\ g \in Segments /\ found \in SUBSET Customers /\ segment[g] \in {req[s].brand, Deleted}
      /\ \A k \in found : InBrand(k, req[s].brand) /\ Qualifies(k)
  BY <1>1, <1>3, <1>4, <1>5 DEF FillRequest, Vouches
<1>9. /\ members' = IF works THEN [members EXCEPT ![g] = stays \cup found] ELSE members
      /\ req' = [t \in Requests |->
           IF t = s THEN NextSegment(s, req[s].left \ {g})
           ELSE IF works /\ Runs(t, "fill") /\ req[t].segment = g
             THEN [req[t] EXCEPT !.overtaken = TRUE] ELSE req[t]]
  BY <1>4, <1>5, <1>6, <1>7 DEF FillMembers
<1>10. PICK r \in Request \cup {Null} :
         /\ r = NextSegment(s, req[s].left \ {g})
         /\ r # Null => r.op = "match" /\ Vouches(r) /\ Fresh(r)
  BY <1>1, NextSegmentEffect
<1>11. req'[s] = r
  BY <1>9, <1>10
<1>12. ASSUME NEW t \in Requests, t # s
       PROVE  \/ req'[t] = req[t]
              \/ /\ req[t] # Null /\ req[t] \in FillRequest /\ req[t].op = "fill" /\ Vouches(req[t])
                 /\ req'[t] \in FillRequest /\ req'[t].op = "fill" /\ Vouches(req'[t])
  <2>1. CASE works /\ Runs(t, "fill") /\ req[t].segment = g
    <3>1. req[t] # Null /\ req[t].op = "fill" /\ req[t] \in FillRequest /\ Vouches(req[t])
      BY <2>1, RunningGuests, RequestKinds DEF Runs
    <3>2. PICK p : p = [req[t] EXCEPT !.overtaken = TRUE]
      OBVIOUS
    <3>3. req'[t] = p
      BY <1>9, <1>12, <2>1, <3>2
    <3>4. /\ p \in FillRequest /\ p.op = "fill" /\ p.brand = req[t].brand /\ p.segment = req[t].segment
          /\ p.found = req[t].found
      BY <3>1, <3>2 DEF FillRequest
    <3>5. Vouches(p)
      BY <3>1, <3>4 DEF Vouches, RewardOps, Carriers
    <3> QED
      BY <3>1, <3>3, <3>4, <3>5
  <2>2. CASE ~(works /\ Runs(t, "fill") /\ req[t].segment = g)
    BY <1>9, <1>12, <2>2
  <2> QED
    BY <2>1, <2>2
<1>13. Grows
  BY <1>2 DEF Grows, people, points, offers, voices
<1>14. \A q \in Request : Fresh(q) => Fresh(q)'
  BY <1>2, StaysFresh DEF people
<1>15. req' \in [Requests -> Request \cup {Null}]
  <2>1. req \in [Requests -> Request \cup {Null}]
    BY DEF GuestsInv, GuestsTypeOK
  <2>2. \A t \in Requests : req'[t] \in Request \cup {Null}
    BY <1>11, <1>12, <2>1, RequestTypes
  <2> QED
    BY <1>9, <2>2
<1>16. RequestsVouched'
  <2> SUFFICES ASSUME NEW t \in Requests, NEW p \in Request \ {Null}, req'[t] = p
      PROVE  Vouches(p)' /\ Fresh(p)'
    BY DEF RequestsVouched
  <2>1. Vouches(p) /\ Fresh(p)
    <3>1. CASE t = s
      BY <1>10, <1>11, <3>1
    <3>2. CASE t # s /\ req[t] = p
      BY <3>2 DEF GuestsInv, RequestsVouched
    <3>3. CASE t # s /\ p.op = "fill" /\ Vouches(p)
      BY <3>3 DEF Fresh, LinkOps
    <3> QED
      BY <1>12, <3>1, <3>2, <3>3
  <2> QED
    BY <1>13, <1>14, <2>1, VouchedStays
<1>17. Apart'
  <2>1. \A t \in Requests : req'[t] # Null =>
          \/ req'[t] = req[t]
          \/ req'[t].op \in {"fill", "match"}
    BY <1>10, <1>11, <1>12
  <2> SUFFICES ASSUME NEW p \in Requests, NEW q \in Requests, p # q, req'[p] # Null, req'[q] # Null
      PROVE  ~Clash(req'[p], req'[q])
    BY DEF Apart, Clash
  <2>2. CASE req'[p] = req[p] /\ req'[q] = req[q]
    BY <2>2 DEF GuestsInv, Apart
  <2>3. CASE req'[p].op \in {"fill", "match"} \/ req'[q].op \in {"fill", "match"}
    BY <2>3 DEF Clash, LinkOps, Carriers
  <2> QED
    BY <2>1, <2>2, <2>3
<1>18. \A x : Crediting(x)' = Crediting(x) /\ Filing(x)' = Filing(x)
  <2>1. \A t \in Requests : \/ req'[t] = req[t]
                            \/ /\ req[t].op \in {"fill"}
                               /\ req'[t] = Null \/ req'[t].op \in {"fill", "match"}
    BY <1>1, <1>10, <1>11, <1>12
  <2> QED
    BY <2>1 DEF Crediting, Filing, Runs
<1>19. PeopleTyped' /\ PeopleRows'
  BY <1>2, PeopleRest DEF people, offers
<1>20. PointsTyped' /\ PointsRows' /\ VoicesTyped' /\ VoicesRows'
  BY <1>2, <1>18, PointsRest, VoicesRest
<1>21. OffersTyped' /\ IssuedRows'
  BY <1>2, <1>13, OffersRest
<1>22. stays \subseteq members[g]
  BY <1>6
<1>23. GroupsTyped'
  <2>1. members[g] \in SUBSET Customers
    BY <1>8, AllTyped DEF GroupsTyped
  <2>2. members' \in [Segments -> SUBSET Customers]
    BY <1>8, <1>9, <1>22, <2>1, AllTyped DEF GroupsTyped
  <2> QED
    BY <1>2, <2>2, AllTyped DEF GroupsTyped
<1>24. MemberRows'
  <2>1. \A k : AllVisits(k)' = AllVisits(k)
    BY <1>2 DEF AllVisits, Paid, people
  <2>2. \A k \in members[g] : InBrand(k, segment[g]) /\ Qualifies(k)
    BY <1>8, AllTyped DEF MemberRows
  <2>3. works /\ found # {} => segment[g] = req[s].brand
    BY <1>7, <1>8 DEF There
  <2>4. works => \A k \in stays \cup found : InBrand(k, segment[g]) /\ Qualifies(k)
    BY <1>8, <1>22, <2>2, <2>3
  <2>5. \A h \in Segments : members'[h] = IF works /\ h = g THEN stays \cup found ELSE members[h]
    BY <1>8, <1>9, AllTyped DEF GroupsTyped
  <2>6. \A h \in Segments : \A k \in members'[h] : InBrand(k, segment[h]) /\ Qualifies(k)
    BY <2>4, <2>5, AllTyped DEF MemberRows
  <2> QED
    BY <1>2, <2>1, <2>6 DEF MemberRows, InBrand, Qualifies, people
<1> QED
  BY <1>15, <1>16, <1>17, <1>19, <1>20, <1>21, <1>23, <1>24, GuestsTypedParts
  DEF GuestsInv, GuestsRows, GuestsTypeOK, RowsTyped, PeopleTyped, PointsTyped, OffersTyped, GroupsTyped,
      VoicesTyped

-----------------------------------------------------------------------------
(* Feedback                                                                *)

LEMMA RateOrderKeeps == ASSUME GuestsInv, NEW s \in Requests, RateOrder(s) PROVE GuestsInv'
<1>1. req[s] # Null /\ req[s].op = "rate"
  BY DEF RateOrder, Runs
<1>2. UNCHANGED <<work, people, points, offers, groups, ticket>>
  BY DEF RateOrder
<1>3. req[s] \in RateRequest
  BY <1>1, RunningGuests, RequestKinds
<1>4. PICK o : o = req[s].order
  OBVIOUS
<1>5. PICK rating : rating = req[s].rating
  OBVIOUS
<1>6. o \in Orders /\ rating \in Ratings /\ rating \in Nat /\ rating # Null
  <2>1. o \in Orders /\ rating \in Ratings
    BY <1>3, <1>4, <1>5 DEF RateRequest
  <2>2. \A n \in Ratings : n \in Nat
    BY LimitsAssumption
  <2>3. Null \notin Nat
    BY NullAssumption
  <2> QED
    BY <2>1, <2>2, <2>3
<1>7. CASE feedback[o] = Null
  <2>1. /\ feedback' = [feedback EXCEPT ![o] = rating]
        /\ IF rating <= 2 THEN Then(s, "file") ELSE Finish(s)
    <3>1. feedback' = [feedback EXCEPT ![o] = rating] /\ IF Poor(rating) THEN Then(s, "file") ELSE Finish(s)
      BY <1>4, <1>5, <1>7, Zenon DEF RateOrder
    <3> QED
      BY <3>1 DEF Poor
  <2>2. PICK q : q = [req[s] EXCEPT !.op = "file"]
    OBVIOUS
  <2>3. q \in RateRequest /\ q.op = "file" /\ q.order = o
    BY <1>3, <1>4, <2>2 DEF RateRequest
  <2>4. PICK r : r = IF rating <= 2 THEN q ELSE Null
    OBVIOUS
  <2>5. r \in Request \cup {Null} /\ Becomes(s, r)
    BY <2>1, <2>2, <2>3, <2>4, RequestTypes DEF Then, Finish, Becomes
  <2>6. r # Null => Inherits(s, r) /\ Vouches(r)'
    BY <2>3, <2>4 DEF Inherits, LinkOps, Carriers, Vouches, RewardOps
  <2>7. Grows
    BY <1>2 DEF Grows, people, points, offers, groups
  <2>8. VoicesTyped'
    BY <1>2, <1>6, <2>1, AllTyped DEF VoicesTyped
  <2>9. \A x \in Orders : feedback'[x] = IF x = o THEN rating ELSE feedback[x]
    BY <2>1, AllTyped DEF VoicesTyped
  <2>10. ASSUME NEW x \in Orders
         PROVE  (IF ticket'[x] = Null THEN 0 ELSE 1) + Cardinality(Filing(x)')
                  <= IF feedback'[x] # Null /\ feedback'[x] <= 2 THEN 1 ELSE 0
    <3>1. /\ Cardinality(Filing(x)) \in Nat /\ Cardinality(Filing(x)') \in Nat
          /\ Cardinality(Filing(x)') + 0 = Cardinality(Filing(x)) + (IF rating <= 2 /\ o = x THEN 1 ELSE 0)
      BY <1>1, <2>3, <2>4, <2>5, FilingMoves, NullIsNoRequest, RequestTypes
    <3>2. (IF ticket[x] = Null THEN 0 ELSE 1) + Cardinality(Filing(x))
            <= IF feedback[x] # Null /\ feedback[x] <= 2 THEN 1 ELSE 0
      BY AllTyped DEF VoicesRows
    <3>4. PICK n : n = IF ticket[x] = Null THEN 0 ELSE 1
      OBVIOUS
    <3>5. n \in Nat /\ ticket' = ticket
      BY <1>2, <3>4
    <3>6. CASE x = o
      <4>1. n + Cardinality(Filing(x)) <= 0
        BY <1>7, <3>2, <3>4, <3>6
      <4>2. n = 0 /\ Cardinality(Filing(x)) = 0
        BY <3>1, <3>5, <4>1
      <4>3. n + Cardinality(Filing(x)') <= IF rating <= 2 THEN 1 ELSE 0
        BY <3>1, <3>6, <4>2
      <4>4. feedback'[x] = rating /\ rating # Null
        BY <1>6, <2>9, <3>6
      <4> QED
        BY <3>4, <3>5, <4>3, <4>4
    <3>7. CASE x # o
      <4>1. Cardinality(Filing(x)') = Cardinality(Filing(x)) /\ feedback'[x] = feedback[x]
        BY <2>9, <3>1, <3>7
      <4> QED
        BY <3>2, <3>4, <3>5, <4>1
    <3> QED
      BY <3>6, <3>7
  <2>11. VoicesRows'
    BY <2>10 DEF VoicesRows
  <2>12. r # Null => r.op # "credit"
    BY <2>3, <2>4
  <2> QED
    BY <1>1, <1>2, <2>5, <2>6, <2>7, <2>8, <2>11, <2>12, VoicesStep
<1>8. CASE feedback[o] # Null
  <2>1. Finish(s) /\ UNCHANGED feedback
    BY <1>4, <1>8 DEF RateOrder
  <2> QED
    BY <1>1, <1>2, <2>1, EndsQuietly DEF Quiet, voices
<1> QED
  BY <1>7, <1>8

LEMMA FileTicketKeeps == ASSUME GuestsInv, NEW s \in Requests, FileTicket(s) PROVE GuestsInv'
<1>1. req[s] # Null /\ req[s].op = "file"
  BY DEF FileTicket, Runs
<1>2. UNCHANGED <<work, people, points, offers, groups, feedback>> /\ Finish(s)
  BY DEF FileTicket
<1>3. req[s] \in RateRequest
  BY <1>1, RunningGuests, RequestKinds
<1>4. PICK o : o = req[s].order
  OBVIOUS
<1>5. PICK row : row = [brand |-> req[s].brand, status |-> "OPEN"]
  OBVIOUS
<1>6. o \in Orders /\ row \in Ticket /\ row # Null
  BY <1>3, <1>4, <1>5, NullAssumption DEF RateRequest, Ticket, Status
<1>7. ticket' = [ticket EXCEPT ![o] = row]
  BY <1>4, <1>5 DEF FileTicket
<1>8. \A x \in Orders : ticket'[x] = IF x = o THEN row ELSE ticket[x]
  BY <1>7, AllTyped DEF VoicesTyped
<1>9. Becomes(s, Null)
  BY <1>2 DEF Finish, Becomes
<1>10. Grows
  BY <1>2, <1>6, <1>8 DEF Grows, people, points, offers, groups
<1>11. VoicesTyped'
  BY <1>2, <1>6, <1>7, AllTyped DEF VoicesTyped
<1>12. ASSUME NEW x \in Orders
       PROVE  (IF ticket'[x] = Null THEN 0 ELSE 1) + Cardinality(Filing(x)')
                <= IF feedback'[x] # Null /\ feedback'[x] <= 2 THEN 1 ELSE 0
  <2>1. /\ Cardinality(Filing(x)) \in Nat /\ Cardinality(Filing(x)') \in Nat
        /\ Cardinality(Filing(x)') + (IF o = x THEN 1 ELSE 0) = Cardinality(Filing(x)) + 0
    BY <1>1, <1>4, <1>9, FilingMoves
  <2>2. (IF ticket[x] = Null THEN 0 ELSE 1) + Cardinality(Filing(x))
          <= IF feedback[x] # Null /\ feedback[x] <= 2 THEN 1 ELSE 0
    BY AllTyped DEF VoicesRows
  <2>4. CASE x = o
    BY <1>2, <1>6, <1>8, <2>1, <2>2, <2>4
  <2>5. CASE x # o
    BY <1>2, <1>8, <2>1, <2>2, <2>5
  <2> QED
    BY <2>4, <2>5
<1>13. VoicesRows'
  BY <1>12 DEF VoicesRows
<1> QED
  BY <1>1, <1>2, <1>9, <1>10, <1>11, <1>13, VoicesStep

LEMMA UpdateTicketKeeps == ASSUME GuestsInv, NEW s \in Requests, UpdateTicket(s) PROVE GuestsInv'
<1>1. req[s] # Null /\ req[s].op = "ticket"
  BY DEF UpdateTicket, Runs
<1>2. UNCHANGED <<work, people, points, offers, groups, feedback>> /\ Finish(s)
  BY DEF UpdateTicket
<1>3. req[s] \in TicketRequest /\ Vouches(req[s])
  BY <1>1, RunningGuests, RequestKinds
<1>4. PICK o : o = req[s].order
  OBVIOUS
<1>5. PICK status : status = req[s].status
  OBVIOUS
<1>6. o \in Orders /\ status \in Status /\ ticket[o] # Null
  BY <1>1, <1>3, <1>4, <1>5 DEF TicketRequest, Vouches
<1>7. PICK row : row = [ticket[o] EXCEPT !.status = status]
  OBVIOUS
<1>8. row \in Ticket /\ row # Null
  BY <1>6, <1>7, AllTyped, NullAssumption DEF VoicesTyped, Ticket
<1>9. ticket' = [ticket EXCEPT ![o] = row]
  BY <1>4, <1>5, <1>7 DEF UpdateTicket
<1>10. \A x \in Orders : ticket'[x] = IF x = o THEN row ELSE ticket[x]
  BY <1>9, AllTyped DEF VoicesTyped
<1>11. Becomes(s, Null) /\ Quiet(s, Null)
  BY <1>1, <1>2 DEF Finish, Becomes, Quiet
<1>12. Grows
  BY <1>2, <1>8, <1>10 DEF Grows, people, points, offers, groups
<1>13. VoicesTyped'
  BY <1>2, <1>6, <1>8, <1>9, AllTyped DEF VoicesTyped
<1>14. \A x : Filing(x)' = Filing(x)
  BY <1>11, QuietOwes
<1>15. \A x \in Orders : ticket'[x] = Null <=> ticket[x] = Null
  BY <1>6, <1>8, <1>10
<1>16. VoicesRows'
  BY <1>2, <1>14, <1>15, AllTyped DEF VoicesRows
<1> QED
  BY <1>1, <1>2, <1>11, <1>12, <1>13, <1>16, VoicesStep

-----------------------------------------------------------------------------
(* The death of a request                                                  *)

LEMMA AbandonKeeps == ASSUME GuestsInv, NEW s \in Requests, Abandon(s) PROVE GuestsInv'
<1>1. req[s] # Null /\ Becomes(s, Null) /\ UNCHANGED <<work, people, points, offers, groups, voices>>
  BY DEF Abandon, Finish, Becomes
<1>5. Grows
  BY <1>1, NothingGrows
<1>6. OffersTyped' /\ IssuedRows' /\ GroupsTyped' /\ MemberRows'
  BY <1>1, <1>5, OffersRest, GroupsRest
<1>7. PointsTyped' /\ VoicesTyped'
  BY <1>1, AllTyped DEF PointsTyped, VoicesTyped, points, voices
<1>8. PointsRows'
  <2>1. ASSUME NEW k \in Customers
        PROVE  ledger'[k] >= (IF balance'[k] = Null THEN 0 ELSE balance'[k]) + Cardinality(Crediting(k)')
    <3>1. PICK n : n = IF req[s].op = "credit" /\ req[s].referrer = k THEN 1 ELSE 0
      OBVIOUS
    <3>2. n \in {0, 1}
      BY <3>1
    <3>3. /\ Cardinality(Crediting(k)) \in Nat /\ Cardinality(Crediting(k)') \in Nat
          /\ Cardinality(Crediting(k)') + n = Cardinality(Crediting(k)) + 0
      BY <1>1, <3>1, CreditingMoves
    <3>4. PICK m : m = IF balance[k] = Null THEN 0 ELSE balance[k]
      OBVIOUS
    <3>5. m \in Nat /\ ledger[k] \in Nat /\ ledger[k] >= m + Cardinality(Crediting(k))
      BY <3>4, AllTyped DEF PointsRows, PointsTyped
    <3>6. ledger' = ledger /\ balance' = balance
      BY <1>1 DEF points
    <3>7. ledger[k] >= m + Cardinality(Crediting(k)')
      BY <3>2, <3>3, <3>5
    <3> QED
      BY <3>4, <3>6, <3>7
  <2> QED
    BY <2>1 DEF PointsRows
<1>9. VoicesRows'
  <2>1. ASSUME NEW o \in Orders
        PROVE  (IF ticket'[o] = Null THEN 0 ELSE 1) + Cardinality(Filing(o)')
                 <= IF feedback'[o] # Null /\ feedback'[o] <= 2 THEN 1 ELSE 0
    <3>1. PICK n : n = IF req[s].op = "file" /\ req[s].order = o THEN 1 ELSE 0
      OBVIOUS
    <3>2. n \in {0, 1}
      BY <3>1
    <3>3. /\ Cardinality(Filing(o)) \in Nat /\ Cardinality(Filing(o)') \in Nat
          /\ Cardinality(Filing(o)') + n = Cardinality(Filing(o)) + 0
      BY <1>1, <3>1, FilingMoves
    <3>4. PICK m : m = IF ticket[o] = Null THEN 0 ELSE 1
      OBVIOUS
    <3>5. PICK d : d = IF feedback[o] # Null /\ feedback[o] <= 2 THEN 1 ELSE 0
      OBVIOUS
    <3>6. m \in Nat /\ d \in {0, 1} /\ m + Cardinality(Filing(o)) <= d
      BY <3>4, <3>5, AllTyped DEF VoicesRows
    <3>7. ticket' = ticket /\ feedback' = feedback
      BY <1>1 DEF voices
    <3>8. m + Cardinality(Filing(o)') <= d
      BY <3>2, <3>3, <3>6
    <3> QED
      BY <3>4, <3>5, <3>7, <3>8
  <2> QED
    BY <2>1 DEF VoicesRows
<1> QED
  BY <1>1, <1>5, <1>6, <1>7, <1>8, <1>9, SideStep

-----------------------------------------------------------------------------
(* Payment                                                                 *)

(* The profiles of the brand, one per restaurant visited, sum to the visits*)
(* of its restaurants.                                                     *)
LEMMA VisitsSummed ==
  ASSUME NEW k, NEW shops \in SUBSET Restaurants, NEW visits, NEW sum,
         \A y \in shops : visits[y] = Cardinality(Paid(k, y)'),
         sum = SumFunction([y \in shops |-> visits[y]])
  PROVE  /\ sum \in Nat /\ sum <= Cardinality(AllVisits(k)')
         /\ (\A y \in Restaurants : Paid(k, y)' # {} => y \in shops) => sum = Cardinality(AllVisits(k)')
<1>1. PICK P : P = [y \in shops |-> Paid(k, y)']
  OBVIOUS
<1>2. P \in [shops -> SUBSET Orders]
  BY <1>1 DEF Paid
<1>3. PICK f : f = [y \in shops |-> visits[y]]
  OBVIOUS
<1>4. f = [y \in shops |-> Cardinality(P[y])]
  BY <1>1, <1>3
<1>5. IsFiniteSet(shops) /\ IsFiniteSet(Orders)
  BY IdsAssumption, FS_Subset
<1>6. PICK V : V = {v \in shops \X Orders : v[2] \in P[v[1]]}
  OBVIOUS
<1>7. sum = Cardinality(V)
  BY <1>2, <1>3, <1>4, <1>5, <1>6, SumOfCardinalities
<1>8. V \in SUBSET AllVisits(k)'
  BY <1>1, <1>6 DEF AllVisits
<1>9. (\A y \in Restaurants : Paid(k, y)' # {} => y \in shops) => V = AllVisits(k)'
  BY <1>1, <1>6 DEF AllVisits
<1>10. Cardinality(V) \in Nat /\ Cardinality(V) <= Cardinality(AllVisits(k)')
  BY <1>8, VisitsFinite, FS_Subset, FS_CardinalityType
<1> QED
  BY <1>7, <1>9, <1>10

LEMMA SettleKeeps == ASSUME GuestsInv, NEW s \in Requests, Settle(s) PROVE GuestsInv'
<1>1. req[s] # Null /\ req[s].op = "settle"
  BY DEF Settle, Runs
<1>2. UNCHANGED <<work, brand, made, offers, groups, voices>> /\ Finish(s)
  BY DEF Settle
<1>3. req[s] \in SettleRequest /\ Vouches(req[s])
  BY <1>1, RunningGuests, RequestKinds
<1>4. PICK o : o = req[s].order
  OBVIOUS
<1>5. o \in Orders /\ order[o] # Null /\ order[o] \in Order /\ order[o].customer # Null
  BY <1>1, <1>3, <1>4, AllTyped DEF SettleRequest, Vouches, PeopleTyped
<1>6. PICK k : k = order[o].customer
  OBVIOUS
<1>7. PICK r : r = order[o].restaurant
  OBVIOUS
<1>8. k \in Customers /\ r \in Restaurants /\ customer[k] # Null
  BY <1>5, <1>6, <1>7, AllTyped DEF Order, PeopleRows
<1>9. Becomes(s, Null) /\ Quiet(s, Null)
  BY <1>1, <1>2 DEF Finish, Becomes, Quiet
<1>10. CASE ~(~order[o].paid /\ Serialises(s))
  <2>1. UNCHANGED <<order, profile, customer, points>>
    BY <1>4, <1>10 DEF Settle
  <2> QED
    BY <1>2, <1>9, <2>1, EndsQuietly DEF people
<1>11. CASE ~order[o].paid /\ Serialises(s)
  <2> DEFINE O      == req[s].order
             K      == order[O].customer
             R      == order[O].restaurant
             Old    == req[s].seen
             Count  == Cardinality(Paid(K, R)) + 1
             Visits == [Old.visits EXCEPT ![R] = Count]
             Shops  == {x \in Old.outlets : Visits[x] # Null}
             Sum    == SumFunction([x \in Shops |-> Visits[x]])
  <2>1. PICK earned \in {0, 1} :
          /\ order' = [order EXCEPT ![O].paid = TRUE]
          /\ profile' = [profile EXCEPT ![K][R] = Count]
          /\ customer' = [customer EXCEPT ![K].total = Sum]
          /\ ledger' = [ledger EXCEPT ![K] = @ + earned]
          /\ balance' = [balance EXCEPT ![K] = IF @ = Null THEN earned ELSE @ + earned]
    <3>1. ~order[O].paid /\ Serialises(s)
      BY <1>4, <1>11
    <3> QED
      BY <3>1, Zenon DEF Settle
  <2>2. O = o /\ K = k /\ R = r
    BY <1>4, <1>6, <1>7
  <2> HIDE DEF O, K, R
  <2>3. Old.visits = profile[k] /\ Old.outlets = Outlets(customer[k].brand)
    BY <1>4, <1>6, <1>11 DEF Serialises, Seen
  <2> HIDE DEF Old
  <2>4. PICK count : count = Count
    OBVIOUS
  <2>5. count = Cardinality(Paid(k, r)) + 1
    BY <2>2, <2>4
  <2> HIDE DEF Count
  <2>6. PICK visits : visits = Visits
    OBVIOUS
  <2>7. visits = [profile[k] EXCEPT ![r] = count]
    BY <2>2, <2>3, <2>4, <2>6
  <2> HIDE DEF Visits
  <2>8. PICK shops : shops = Shops
    OBVIOUS
  <2>9. shops = {x \in Outlets(customer[k].brand) : visits[x] # Null}
    BY <2>3, <2>6, <2>8
  <2> HIDE DEF Shops
  <2>10. PICK sum : sum = Sum
    OBVIOUS
  <2>11. sum = SumFunction([x \in shops |-> visits[x]])
    BY <2>6, <2>8, <2>10
  <2> HIDE DEF Sum
  <2>12. /\ order' = [order EXCEPT ![o].paid = TRUE]
         /\ profile' = [profile EXCEPT ![k][r] = count]
         /\ customer' = [customer EXCEPT ![k].total = sum]
         /\ ledger' = [ledger EXCEPT ![k] = @ + earned]
         /\ balance' = [balance EXCEPT ![k] = IF @ = Null THEN earned ELSE @ + earned]
    BY <2>1, <2>2, <2>4, <2>10
  <2>13. PICK done : done = [order[o] EXCEPT !.paid = TRUE]
    OBVIOUS
  <2>14. order' = [order EXCEPT ![o] = done]
    BY <2>12, <2>13
  <2>15. /\ done \in Order /\ done.customer = k /\ done.restaurant = r /\ done.paid = TRUE /\ done # Null
         /\ \A x \in Orders : order'[x] = IF x = o THEN done ELSE order[x]
         /\ order' \in [Orders -> Order \cup {Null}]
         /\ Paid(k, r)' = Paid(k, r) \cup {o}
         /\ \A j, y : ~(j = k /\ y = r) => Paid(j, y)' = Paid(j, y)
         /\ \A j : j # k => AllVisits(j)' = AllVisits(j)
         /\ Cardinality(Paid(k, r)') = count
    <3>1. order[o] # Null /\ ~order[o].paid /\ order[o].customer = k /\ order[o].restaurant = r
      BY <1>5, <1>6, <1>7, <1>11
    <3>2. done \in Order /\ done.customer = k /\ done.restaurant = r /\ done.paid = TRUE /\ done # Null
      BY <1>5, <2>13, <3>1, NullAssumption DEF Order
    <3>3. \A x \in Orders : order'[x] = IF x = o THEN done ELSE order[x]
      BY <2>14, AllTyped DEF PeopleTyped
    <3>4. order' \in [Orders -> Order \cup {Null}]
      BY <2>14, <3>2, AllTyped DEF PeopleTyped
    <3>5. \A j, y : ~(j = k /\ y = r) => Paid(j, y)' = Paid(j, y)
      <4> TAKE j, y
      <4> SUFFICES ASSUME ~(j = k /\ y = r) PROVE Paid(j, y)' = Paid(j, y)
        OBVIOUS
      <4>1. \A x \in Orders \ {o} : x \in Paid(j, y)' <=> x \in Paid(j, y)
        BY <3>3 DEF Paid
      <4>2. o \notin Paid(j, y)' /\ o \notin Paid(j, y)
        BY <1>5, <3>1, <3>2, <3>3 DEF Paid
      <4>3. Paid(j, y) \subseteq Orders /\ Paid(j, y)' \subseteq Orders
        BY DEF Paid
      <4> QED
        BY <4>1, <4>2, <4>3
    <3>6. Paid(k, r)' = Paid(k, r) \cup {o}
      <4>1. \A x \in Orders \ {o} : x \in Paid(k, r)' <=> x \in Paid(k, r)
        BY <3>3 DEF Paid
      <4>2. o \in Paid(k, r)'
        BY <1>5, <3>2, <3>3 DEF Paid
      <4>3. Paid(k, r) \subseteq Orders /\ Paid(k, r)' \subseteq Orders
        BY DEF Paid
      <4> QED
        BY <1>5, <4>1, <4>2, <4>3
    <3>7. \A j : j # k => AllVisits(j)' = AllVisits(j)
      BY <3>5 DEF AllVisits
    <3>8. o \notin Paid(k, r) /\ IsFiniteSet(Paid(k, r))
      <4>1. o \notin Paid(k, r)
        BY <3>1 DEF Paid
      <4> QED
        BY <4>1, VisitsFinite
    <3>9. Cardinality(Paid(k, r) \cup {o}) = Cardinality(Paid(k, r)) + 1
      BY <3>8, FS_AddElement
    <3> QED
      BY <2>5, <3>2, <3>3, <3>4, <3>5, <3>6, <3>7, <3>9
  <2>16. count \in Nat /\ count # Null
    BY <2>5, VisitsFinite, NullAssumption
  <2>17. \A j \in Customers, y \in Restaurants :
           profile'[j][y] = IF j = k /\ y = r THEN count ELSE profile[j][y]
    BY <1>8, <2>12, AllTyped DEF PeopleTyped
  <2>18. profile' \in [Customers -> [Restaurants -> Nat \cup {Null}]]
    BY <1>8, <2>12, <2>16, AllTyped DEF PeopleTyped
  <2>19. \A j \in Customers, y \in Restaurants :
           /\ profile'[j][y] # Null => profile'[j][y] = Cardinality(Paid(j, y)')
           /\ Paid(j, y)' # {} => profile'[j][y] # Null
    <3> TAKE j \in Customers, y \in Restaurants
    <3>1. CASE j = k /\ y = r
      BY <2>15, <2>16, <2>17, <3>1
    <3>2. CASE ~(j = k /\ y = r)
      <4>1. profile'[j][y] = profile[j][y] /\ Paid(j, y)' = Paid(j, y)
        BY <2>15, <2>17, <3>2
      <4> QED
        BY <4>1, AllTyped DEF PeopleRows
    <3> QED
      BY <3>1, <3>2
  <2>20. \A y \in Restaurants : visits[y] = profile'[k][y]
    BY <1>8, <2>3, <2>7, <2>17, AllTyped DEF PeopleTyped
  <2>21. shops = {x \in Restaurants : brand[x] = customer[k].brand /\ profile'[k][x] # Null}
    BY <2>3, <2>9, <2>20 DEF Outlets
  <2>22. /\ sum \in Nat /\ sum <= Cardinality(AllVisits(k)')
         /\ (\A y \in Restaurants : Paid(k, y)' # {} => y \in shops) => sum = Cardinality(AllVisits(k)')
    <3>1. shops \in SUBSET Restaurants
      BY <2>21
    <3>2. \A y \in shops : visits[y] = Cardinality(Paid(k, y)')
      BY <1>8, <2>19, <2>20, <2>21
    <3> QED
      BY <2>11, <3>1, <3>2, VisitsSummed
  <2>23. PICK row : row = [customer[k] EXCEPT !.total = sum]
    OBVIOUS
  <2>24. /\ row \in Customer /\ row # Null /\ row.brand = customer[k].brand /\ row.phone = customer[k].phone
         /\ row.generation = customer[k].generation /\ row.meta = customer[k].meta /\ row.total = sum
    BY <1>8, <2>22, <2>23, CustomerTyped, NullAssumption DEF Customer
  <2>25. customer' = [customer EXCEPT ![k] = row]
    BY <2>12, <2>23
  <2>26. \A j \in Customers : customer'[j] = IF j = k THEN row ELSE customer[j]
    BY <2>25, AllTyped DEF PeopleTyped
  <2>27. \A j \in Customers :
           /\ customer'[j] # Null <=> customer[j] # Null
           /\ customer[j] # Null =>
                /\ customer'[j].brand = customer[j].brand /\ customer'[j].phone = customer[j].phone
                /\ customer'[j].generation = customer[j].generation /\ customer'[j].meta = customer[j].meta
    BY <1>8, <2>24, <2>26
  <2>28. \A j \in Customers :
           balance'[j] = IF j # k THEN balance[j] ELSE IF balance[k] = Null THEN earned ELSE balance[k] + earned
    BY <2>12, AllTyped DEF PointsTyped
  <2>29. \A j \in Customers : ledger'[j] = IF j = k THEN ledger[k] + earned ELSE ledger[j]
    BY <2>12, AllTyped DEF PointsTyped
  <2>30. balance'[k] \in Nat /\ balance'[k] # Null /\ ledger'[k] \in Nat
    BY <1>8, <2>12, <2>28, <2>29, AllTyped, NullAssumption DEF PointsTyped
  <2>31. PointsTyped'
    <3>1. /\ balance' \in [Customers -> Nat \cup {Null}]
          /\ ledger' \in [Customers -> Nat]
      BY <1>8, <2>12, <2>28, <2>29, <2>30, AllTyped DEF PointsTyped
    <3> QED
      BY <3>1 DEF PointsTyped
  <2>32. Grows
    <3>1. ASSUME NEW x \in Orders, order[x] # Null
          PROVE  /\ order'[x] # Null /\ order'[x].customer = order[x].customer
                 /\ order'[x].restaurant = order[x].restaurant /\ (order[x].paid => order'[x].paid)
      <4>1. CASE x = o
        BY <1>6, <1>7, <2>15, <4>1
      <4>2. CASE x # o
        BY <2>15, <3>1, <4>2
      <4> QED
        BY <4>1, <4>2
    <3>2. \A j \in Customers : balance[j] # Null => balance'[j] # Null
      BY <2>28, <2>30
    <3> QED
      BY <1>2, <2>27, <3>1, <3>2 DEF Grows, offers, groups, voices
  <2>33. PeopleTyped'
    <3>1. customer' \in [Customers -> Customer \cup {Null}]
      BY <2>24, <2>25, AllTyped DEF PeopleTyped
    <3>2. \A i, j \in Customers : i # j /\ customer'[i] # Null /\ customer'[j] # Null =>
            <<customer'[i].brand, customer'[i].phone, customer'[i].generation>>
              # <<customer'[j].brand, customer'[j].phone, customer'[j].generation>>
      BY <2>27, AllTyped DEF PeopleTyped
    <3> QED
      BY <1>2, <2>15, <2>18, <3>1, <3>2, AllTyped DEF PeopleTyped
  <2>34. PeopleRows'
    <3>1. \A j \in Customers : customer'[j] # Null => customer'[j].brand \in made
      BY <2>27, AllTyped DEF PeopleRows
    <3>2. \A x \in Orders : order'[x] # Null /\ order'[x].customer # Null => customer'[order'[x].customer] # Null
      <4>1. \A x \in Orders : order'[x] # Null => order[x] # Null /\ order'[x].customer = order[x].customer
        BY <1>5, <1>6, <2>15
      <4>2. \A x \in Orders : order[x] # Null /\ order[x].customer # Null =>
              order[x].customer \in Customers /\ customer[order[x].customer] # Null
        BY AllTyped DEF PeopleRows, PeopleTyped, Order
      <4> QED
        BY <2>27, <4>1, <4>2
    <3>3. ASSUME NEW j \in Customers, customer'[j] # Null
          PROVE  /\ customer'[j].total <= Cardinality(AllVisits(j)')
                 /\ (\A y \in Restaurants : Paid(j, y)' # {} => brand[y] = customer'[j].brand)
                      => customer'[j].total = Cardinality(AllVisits(j)')
      <4>1. CASE j = k
        <5>1. customer'[j].total = sum /\ customer'[j].brand = customer[k].brand
          BY <1>8, <2>24, <2>26, <4>1
        <5>2. (\A y \in Restaurants : Paid(k, y)' # {} => brand[y] = customer[k].brand)
                => \A y \in Restaurants : Paid(k, y)' # {} => y \in shops
          BY <1>8, <2>19, <2>21
        <5> QED
          BY <2>22, <4>1, <5>1, <5>2
      <4>2. CASE j # k
        <5>1. customer'[j] = customer[j] /\ AllVisits(j)' = AllVisits(j) /\ \A y : Paid(j, y)' = Paid(j, y)
          BY <2>15, <2>26, <4>2
        <5> QED
          BY <3>3, <5>1, AllTyped DEF PeopleRows
      <4> QED
        BY <4>1, <4>2
    <3> QED
      BY <1>2, <2>19, <3>1, <3>2, <3>3 DEF PeopleRows
  <2>36. PointsRows'
    <3>1. ASSUME NEW j \in Customers
          PROVE  ledger'[j] >= (IF balance'[j] = Null THEN 0 ELSE balance'[j]) + Cardinality(Crediting(j)')
      <4>1. Crediting(j)' = Crediting(j)
        BY <1>9, QuietOwes
      <4>2. /\ ledger[j] >= (IF balance[j] = Null THEN 0 ELSE balance[j]) + Cardinality(Crediting(j))
            /\ ledger[j] \in Nat /\ balance[j] \in Nat \cup {Null}
        BY AllTyped DEF PointsRows, PointsTyped
      <4>3. Cardinality(Crediting(j)) \in Nat
        BY <1>9, CreditingMoves
      <4>4. CASE j = k
        <5>1. PICK n : n = IF balance[k] = Null THEN 0 ELSE balance[k]
          OBVIOUS
        <5>2. n \in Nat /\ ledger[k] >= n + Cardinality(Crediting(k))
          BY <4>2, <4>4, <5>1
        <5>3. balance'[k] = n + earned /\ ledger'[k] = ledger[k] + earned
          BY <1>8, <2>28, <2>29, <5>1, <5>2
        <5>4. ledger'[k] >= balance'[k] + Cardinality(Crediting(k))
          BY <4>2, <4>3, <4>4, <5>2, <5>3
        <5> QED
          BY <2>30, <4>1, <4>4, <5>4
      <4>5. CASE j # k
        BY <2>28, <2>29, <4>1, <4>2, <4>5
      <4> QED
        BY <4>4, <4>5
    <3> QED
      BY <3>1 DEF PointsRows
  <2>37. VoicesTyped' /\ VoicesRows'
    BY <1>2, <1>9, QuietOwes, VoicesRest
  <2>38. OffersTyped' /\ IssuedRows' /\ GroupsTyped' /\ MemberRows'
    BY <1>2, <2>32, OffersRest, GroupsRest
  <2>39. Apart'
    BY <1>9, StaysApart
  <2>40. \A q \in Request : Fresh(q) => Fresh(q)'
    <3>1. \A x \in Orders : order[x] = Null => order'[x] = Null
      BY <1>5, <2>15
    <3> QED
      BY <1>2, <2>27, <3>1, StaysFresh
  <2> QED
    BY <1>9, <2>31, <2>32, <2>33, <2>34, <2>36, <2>37, <2>38, <2>39, <2>40, GuestsStepKeeps
    DEF RowsTyped, GuestsRows
<1> QED
  BY <1>10, <1>11

-----------------------------------------------------------------------------
(* The invariant                                                           *)

LEMMA InitialPeople ==
  ASSUME GuestsInit
  PROVE  /\ customer \in [Customers -> Customer \cup {Null}]
         /\ profile \in [Customers -> [Restaurants -> Nat \cup {Null}]]
         /\ \A k \in Customers : customer[k] # Null =>
              customer[k].brand \in made /\ customer[k].total = 0
         /\ \A j, k \in Customers : customer[j] # Null /\ customer[k] # Null => j = k
         /\ \A k \in Customers, r \in Restaurants : profile[k][r] # Null => profile[k][r] = 0
<1>1. /\ Nobody \in [Customers -> Customer \cup {Null}] /\ \A k \in Customers : Nobody[k] = Null
      /\ Unseen \in [Customers -> [Restaurants -> Nat \cup {Null}]]
      /\ \A k \in Customers, r \in Restaurants : Unseen[k][r] = Null
  BY DEF Nobody, Unseen
<1>2. CASE work.regular = Null
  <2>1. customer = Nobody /\ profile = Unseen
    BY <1>2 DEF GuestsInit
  <2> QED
    BY <1>1, <2>1
<1>3. CASE work.regular # Null
  <2>1. PICK k \in Customers :
          /\ customer = [Nobody EXCEPT ![k] = Guest(brand[work.outlet], work.regular, 2)]
          /\ profile = [Unseen EXCEPT ![k][work.outlet] = 0]
    BY <1>3, Zenon DEF GuestsInit
  <2>2. PICK shop : shop = work.outlet
    OBVIOUS
  <2>3. PICK row : row = Guest(brand[work.outlet], work.regular, 2)
    OBVIOUS
  <2>4. /\ shop \in Restaurants /\ brand[shop] \in Brands /\ work.regular \in Phones
        /\ made = {brand[r] : r \in Restaurants} \ {Null}
    BY <1>3, <2>2, WorkloadsAssumption DEF GuestsInit
  <2>5. brand[shop] \in made
    BY <2>4, NullAssumption
  <2>6. row \in Customer /\ row.brand \in made /\ row.total = 0
    BY <2>2, <2>3, <2>4, <2>5 DEF Guest, Customer, Metadata, NoMetadata
  <2>7. customer \in [Customers -> Customer \cup {Null}]
    BY <1>1, <2>1, <2>3, <2>6
  <2>8. \A j \in Customers : customer[j] = IF j = k THEN row ELSE Null
    BY <1>1, <2>1, <2>3
  <2>9. profile = [Unseen EXCEPT ![k][shop] = 0]
    BY <2>1, <2>2
  <2>10. profile \in [Customers -> [Restaurants -> Nat \cup {Null}]]
    BY <1>1, <2>4, <2>9
  <2>11. \A j \in Customers, r \in Restaurants :
           profile[j][r] = IF j = k /\ r = shop THEN 0 ELSE Null
    BY <1>1, <2>4, <2>9
  <2> QED
    BY <2>6, <2>7, <2>8, <2>10, <2>11
<1> QED
  BY <1>2, <1>3

LEMMA GuestsInitInv == ASSUME GuestsInit PROVE GuestsInv
<1>1. /\ order = [o \in Orders |-> Null] /\ balance = [k \in Customers |-> Null]
      /\ ledger = [k \in Customers |-> 0] /\ coupon = [c \in Coupons |-> Null]
      /\ issued = [k \in Customers |-> [c \in Coupons |-> 0]]
      /\ segment = [g \in Segments |-> Null] /\ members = [g \in Segments |-> {}]
      /\ feedback = [o \in Orders |-> Null] /\ ticket = [o \in Orders |-> Null]
      /\ req = [s \in Requests |-> Null]
  BY DEF GuestsInit
<1>2. /\ customer \in [Customers -> Customer \cup {Null}]
      /\ profile \in [Customers -> [Restaurants -> Nat \cup {Null}]]
      /\ \A k \in Customers : customer[k] # Null =>
           customer[k].brand \in made /\ customer[k].total = 0
      /\ \A j, k \in Customers : customer[j] # Null /\ customer[k] # Null => j = k
      /\ \A k \in Customers, r \in Restaurants : profile[k][r] # Null => profile[k][r] = 0
  BY InitialPeople
<1>3. work \in Workloads /\ made \subseteq Brands /\ brand \in [Restaurants -> made \cup {Null}]
  <2>1. /\ work \in Workloads /\ brand \in [Restaurants -> Brands \cup {Null}]
        /\ made = {brand[r] : r \in Restaurants} \ {Null}
    BY WorkloadsAssumption DEF GuestsInit
  <2> QED
    BY <2>1
<1>4. PeopleTyped
  BY <1>1, <1>2, <1>3 DEF PeopleTyped
<1>5. PointsTyped /\ OffersTyped /\ GroupsTyped /\ VoicesTyped
  BY <1>1 DEF PointsTyped, OffersTyped, GroupsTyped, VoicesTyped
<1>6. req \in [Requests -> Request \cup {Null}]
  BY <1>1
<1>7. GuestsTypeOK
  BY <1>4, <1>5, <1>6, GuestsTypedParts DEF RowsTyped
<1>8. RequestsVouched /\ Apart
  BY <1>1 DEF RequestsVouched, Apart
<1>9. PeopleRows
  <2>1. \A k, r : Paid(k, r) = {}
    BY <1>1 DEF Paid
  <2>2. \A k : AllVisits(k) = {}
    BY <2>1 DEF AllVisits
  <2>3. /\ \A k : Cardinality(AllVisits(k)) = 0
        /\ \A k, r : Cardinality(Paid(k, r)) = 0
    BY <2>1, <2>2, FS_EmptySet
  <2> QED
    BY <1>1, <1>2, <2>1, <2>3 DEF PeopleRows
<1>11. IssuedRows /\ MemberRows
  BY <1>1 DEF IssuedRows, MemberRows
<1>12. \A x : Cardinality(Crediting(x)) = 0 /\ Cardinality(Filing(x)) = 0
  <2>1. \A x : Crediting(x) = {} /\ Filing(x) = {}
    BY <1>1 DEF Crediting, Filing, Runs
  <2> QED
    BY <2>1, FS_EmptySet
<1>13. PointsRows /\ VoicesRows
  BY <1>1, <1>12 DEF PointsRows, VoicesRows
<1> QED
  BY <1>7, <1>8, <1>9, <1>11, <1>13 DEF GuestsInv, GuestsRows

LEMMA GuestsStutter == ASSUME GuestsInv, UNCHANGED guestsVars PROVE GuestsInv'
<1>1. UNCHANGED <<work, people, points, offers, groups, voices, req>>
  BY DEF guestsVars
<1>2. Grows
  BY <1>1, NothingGrows
<1>3. \A x : Crediting(x)' = Crediting(x) /\ Filing(x)' = Filing(x)
  BY <1>1 DEF Crediting, Filing, Runs
<1>4. PeopleTyped' /\ PeopleRows'
  BY <1>1, PeopleRest DEF people, offers
<1>5. OffersTyped' /\ IssuedRows' /\ GroupsTyped' /\ MemberRows'
  BY <1>1, <1>2, OffersRest, GroupsRest
<1>6. PointsTyped' /\ PointsRows' /\ VoicesTyped' /\ VoicesRows'
  BY <1>1, <1>3, PointsRest, VoicesRest
<1>7. req' \in [Requests -> Request \cup {Null}]
  BY <1>1 DEF GuestsInv, GuestsTypeOK
<1>8. GuestsTypeOK'
  BY <1>4, <1>5, <1>6, <1>7
  DEF GuestsTypeOK, PeopleTyped, PointsTyped, OffersTyped, GroupsTyped, VoicesTyped
<1>9. \A q \in Request : Fresh(q) => Fresh(q)'
  BY <1>1, StaysFresh DEF people
<1>10. RequestsVouched'
  BY <1>1, <1>2, <1>9, VouchedStays DEF GuestsInv, RequestsVouched
<1>11. Apart'
  BY <1>1 DEF GuestsInv, Apart, Clash
<1> QED
  BY <1>4, <1>5, <1>6, <1>8, <1>10, <1>11 DEF GuestsInv, GuestsRows

LEMMA GuestsNextInv == ASSUME GuestsInv, [GuestsNext]_guestsVars PROVE GuestsInv'
<1>1. CASE UNCHANGED guestsVars
  BY <1>1, GuestsStutter
<1>2. ASSUME NEW s \in Requests,
             \/ AskLink(s) \/ CreateBrand(s) \/ AdoptBrand(s) \/ FindCustomer(s) \/ CreateCustomer(s)
             \/ Recode(s) \/ EnsureProfile(s) \/ PlaceOrder(s) \/ AskPay(s) \/ Settle(s)
      PROVE  GuestsInv'
  BY <1>2, AskLinkKeeps, CreateBrandKeeps, AdoptBrandKeeps, FindCustomerKeeps, CreateCustomerKeeps,
     RecodeKeeps, EnsureProfileKeeps, PlaceOrderKeeps, AskPayKeeps, SettleKeeps
<1>3. ASSUME NEW s \in Requests,
             \/ AskClaim(s) \/ FindReferee(s) \/ Invite(s) \/ FindAccount(s) \/ OpenAccount(s)
             \/ EnterPoints(s) \/ CreditPoints(s) \/ FindWelcome(s) \/ MintWelcome(s)
             \/ GrantCoupon(s) \/ MarkClaimed(s)
      PROVE  GuestsInv'
  BY <1>3, AskClaimKeeps, FindRefereeKeeps, InviteKeeps, FindAccountKeeps, OpenAccountKeeps,
     EnterPointsKeeps, CreditPointsKeeps, FindWelcomeKeeps, MintWelcomeKeeps,
     GrantCouponKeeps, MarkClaimedKeeps
<1>4. ASSUME NEW s \in Requests,
             \/ AskScores(s) \/ WriteScore(s) \/ AskEdit(s) \/ EditCustomer(s) \/ AskCoupon(s)
             \/ CreateCoupon(s) \/ AskRemoval(s) \/ DeleteCoupon(s)
             \/ AskIssue(s) \/ CheckIssue(s) \/ IssueCoupon(s)
      PROVE  GuestsInv'
  BY <1>4, AskScoresKeeps, WriteScoreKeeps, AskEditKeeps, EditCustomerKeeps, AskCouponKeeps,
     CreateCouponKeeps, AskRemovalKeeps, DeleteCouponKeeps,
     AskIssueKeeps, CheckIssueKeeps, IssueCouponKeeps
<1>5. ASSUME NEW s \in Requests,
             \/ AskSegment(s) \/ CreateSegment(s) \/ AskDissolve(s) \/ DeleteSegment(s)
             \/ AskRetrace(s) \/ AskEvaluateAll(s) \/ MatchSegment(s) \/ ClearMembers(s) \/ FillMembers(s)
      PROVE  GuestsInv'
  BY <1>5, AskSegmentKeeps, CreateSegmentKeeps, AskDissolveKeeps, DeleteSegmentKeeps,
     AskRetraceKeeps, AskEvaluateAllKeeps, MatchSegmentKeeps, ClearMembersKeeps, FillMembersKeeps
<1>6. ASSUME NEW s \in Requests,
             \/ AskFeedback(s) \/ RateOrder(s) \/ FileTicket(s) \/ AskTicket(s) \/ UpdateTicket(s)
             \/ Abandon(s)
      PROVE  GuestsInv'
  BY <1>6, AskFeedbackKeeps, RateOrderKeeps, FileTicketKeeps, AskTicketKeeps, UpdateTicketKeeps,
     AbandonKeeps
<1> QED
  BY <1>1, <1>2, <1>3, <1>4, <1>5, <1>6 DEF GuestsNext

(* The inductive invariant: what every request was told when it was read   *)
(* still holds when it writes, no two requests place one order or adopt one*)
(* brand, a profile counts its guest's visits, and points, coupons and     *)
(* tickets are backed by rows or by the requests that will write them      *)
(* (profiler.service.ts:8, referral.service.ts:74, feedback.service.ts:48).*)
THEOREM GuestsInvariance == GuestsSpec => []GuestsInv
<1>1. GuestsInit => GuestsInv
  BY GuestsInitInv
<1>2. GuestsInv /\ [GuestsNext]_guestsVars => GuestsInv'
  BY GuestsNextInv
<1> QED
  BY <1>1, <1>2, PTL DEF GuestsSpec

(* Every row and every request of the guests' services is what it should   *)
(* be, and no two guests of a brand share phone and generation.            *)
THEOREM GuestsTypeCorrect == GuestsSpec => []GuestsTypeOK
<1>1. GuestsInv => GuestsTypeOK
  BY DEF GuestsInv
<1> QED
  BY <1>1, GuestsInvariance, PTL

(* However payments, checkouts, changes of brand and evaluations           *)
(* interleave: a profile counts the paid orders, a total never exceeds them*)
(* and is exact while the restaurants keep their brand, and a segment lists*)
(* only whom its criterion admits (refreshPurchaseMetrics, evaluate).      *)
THEOREM TotalsStayTrue == GuestsSpec => []TotalsAgree
<1>1. GuestsInv => TotalsAgree
  BY AllTyped DEF TotalsAgree, PeopleRows, MemberRows, GroupsTyped, Qualifies
<1> QED
  BY <1>1, GuestsInvariance, PTL

(* However claims, feedback, edits of staff and issuances interleave and   *)
(* wherever they die: no balance exceeds what the ledger shows less what is*)
(* on its way, no rating has two tickets or, when it is good, one, and     *)
(* coupons held and segments stay in one business (adjustPointsBalance,    *)
(* submitFeedback, issueCoupon, evaluateSegment).                          *)
THEOREM RewardsStayBacked == GuestsSpec => []RewardsAreBacked
<1>1. ASSUME GuestsInv PROVE RewardsAreBacked
  <2>1. PointsRows /\ VoicesRows
    BY <1>1, AllTyped
  <2>2. \A k \in Customers, c \in Coupons : issued[k][c] > 0 =>
          There(coupon[c]) /\ customer[k].brand = coupon[c].brand
    BY <1>1, AllTyped DEF IssuedRows, SameBusiness
  <2>3. \A g \in Segments : \A k \in members[g] : customer[k].brand = segment[g]
    BY <1>1, AllTyped DEF MemberRows, InBrand
  <2> QED
    BY <2>1, <2>2, <2>3 DEF RewardsAreBacked, PointsRows, VoicesRows
<1>2. GuestsInv => RewardsAreBacked
  BY <1>1
<1> QED
  BY <1>2, GuestsInvariance, PTL
================================================================================
