------------------------- MODULE DeductionQueueProofs -------------------------
(***************************************************************************)
(* Proofs about DeductionQueue for every value of its constants.           *)
(*                                                                         *)
(* TypeOK is not inductive: that a requeued entry is a Job follows from    *)
(* where in drain() a process is.  IInv adds that (JobHeld), that every    *)
(* entry and every call is about a settled order (AboutPaid), what a       *)
(* process may assume between two commands (Deducted) and who owns a lock  *)
(* (LeaseLocked).                                                          *)
(*                                                                         *)
(* That no job is lost is not inductive either, and has an invariant of    *)
(* its own (QueueInv): lRem removes one string of several equal ones, so   *)
(* copies are counted.  The two lists hold more copies of an order's       *)
(* current request than there are processes about to remove one            *)
(* (QueueKept), and no process drops an entry of the current request       *)
(* unless the key has stopped saying 'queued' (Requested).                 *)
(***************************************************************************)
EXTENDS DeductionQueue, SequenceTheorems, FiniteSetTheorems, WellFoundedInduction, TLAPS

JoblessSteps == {"idle", "recover", "claim"}

JobHeld == \A p \in Procs : job[p] = NoJob <=> pc[p] \in JoblessSteps

AboutPaid ==
  /\ todo \subseteq paid /\ pending \subseteq paid
  /\ \A entry \in Entries(ready) \cup Entries(processing) \cup Entries(dead) :
       entry.order \in paid
  /\ \A p \in Procs : job[p] # NoJob => job[p].order \in paid

Deducted == \A p \in Procs : pc[p] = "markDone" => consumed[job[p].order] = 1

LeaseLocked ==
  \A p \in Procs : lease[p] => pc[p] \in LockedSteps /\ lock[job[p].order] = p

IInv ==
  /\ TypeOK /\ JobHeld /\ AboutPaid /\ Deducted /\ LeaseLocked
  /\ ConsumedOnce /\ DoneMeansDeducted /\ FailedIsDeadLettered

-----------------------------------------------------------------------------
(* Lists                                                                   *)

LEMMA MinOfNats ==
  ASSUME NEW I \in SUBSET Nat, I # {}
  PROVE  Min(I) \in I
<1> DEFINE R == OpToRel(<, Nat)
<1>1. R = {ss \in Nat \X Nat : ss[1] < ss[2]}
  BY Zenon DEF OpToRel
<1>2. IsWellFoundedOn(R, Nat)
  BY NatLessThanWellFounded
<1> HIDE DEF R
<1>3. PICK x \in I : \A y \in I : ~ (<<y, x>> \in R)
  BY <1>2, WFMin
<1>4. \A y \in I : x =< y
  <2> TAKE y \in I
  <2>1. <<y, x>> \in Nat \X Nat /\ ~ (<<y, x>>[1] < <<y, x>>[2])
    BY <1>1, <1>3
  <2> QED
    BY <2>1
<1> QED
  BY <1>4 DEF Min

LEMMA EntryIndex ==
  ASSUME NEW s, NEW x
  PROVE  x \in Entries(s) <=> \E i \in 1 .. Len(s) : s[i] = x
BY DEF Entries

(* lRem leaves the list as it is or takes one position out of it.          *)
LEMMA LRemShape ==
  ASSUME NEW S, NEW s \in Seq(S), NEW e
  PROVE  \/ LRem(s, e) = s
         \/ /\ LRem(s, e) \in Seq(S) /\ Len(LRem(s, e)) = Len(s) - 1
            /\ \E k \in 1 .. Len(s) :
                 /\ s[k] = e
                 /\ \A i \in 1 .. Len(s) - 1 :
                      LRem(s, e)[i] = IF i < k THEN s[i] ELSE s[i + 1]
<1>1. CASE \E i \in 1..Len(s) : s[i] = e
  <2> DEFINE I == {i \in 1..Len(s) : s[i] = e}
             k == Min(I)
             a == SubSeq(s, 1, k - 1)
             b == SubSeq(s, k + 1, Len(s))
  <2>1. k \in I
    <3>1. I \in SUBSET Nat /\ I # {}
      BY <1>1
    <3> HIDE DEF I
    <3> QED
      BY <3>1, MinOfNats
  <2>2. LRem(s, e) = a \o b
    <3>1. LRem(s, e) = RemoveAt(s, SelectInSeq(s, LAMBDA v : v = e))
      BY <1>1 DEF LRem, RemoveFirst
    <3>2. SelectInSeq(s, LAMBDA v : v = e) = k
      BY <2>1 DEF SelectInSeq
    <3> QED
      BY <3>1, <3>2 DEF RemoveAt
  <2> HIDE DEF k
  <2>3. k \in 1..Len(s) /\ s[k] = e
    BY <2>1
  <2>4. /\ a \in Seq(S) /\ Len(a) = k - 1
        /\ \A i \in 1 .. k - 1 : a[i] = s[i]
    BY <2>3, SubSeqProperties, 1 \in Int
  <2>5. /\ b \in Seq(S) /\ Len(b) = Len(s) - k
        /\ \A i \in 1 .. Len(s) - k : b[i] = s[k + i]
    BY <2>3, SubSeqProperties
  <2> HIDE DEF a, b
  <2>6. /\ a \o b \in Seq(S)
        /\ Len(a \o b) = Len(s) - 1
        /\ \A i \in 1 .. Len(s) - 1 :
             (a \o b)[i] = IF i < k THEN s[i] ELSE s[i + 1]
    <3>1. /\ a \o b \in Seq(S)
          /\ Len(a \o b) = Len(a) + Len(b)
          /\ \A i \in 1 .. Len(a) + Len(b) :
               (a \o b)[i] = IF i <= Len(a) THEN a[i] ELSE b[i - Len(a)]
      BY <2>4, <2>5, ConcatProperties
    <3>2. Len(s) \in Nat
      OBVIOUS
    <3>3. ASSUME NEW i \in 1 .. Len(s) - 1
          PROVE  (a \o b)[i] = IF i < k THEN s[i] ELSE s[i + 1]
      <4>1. CASE i < k
        BY <2>3, <2>4, <2>5, <3>1, <3>2, <4>1
      <4>2. CASE i >= k
        <5>1. i - (k - 1) \in 1 .. Len(s) - k /\ k + (i - (k - 1)) = i + 1
          BY <2>3, <3>2, <4>2
        <5>2. b[i - (k - 1)] = s[i + 1]
          BY <2>5, <5>1
        <5> QED
          BY <2>3, <2>4, <2>5, <3>1, <3>2, <4>2, <5>2
      <4>3. i < k \/ i >= k
        BY <2>3, <3>2
      <4> QED
        BY <4>1, <4>2, <4>3
    <3> QED
      BY <2>3, <2>4, <2>5, <3>1, <3>2, <3>3
  <2> QED
    BY <2>2, <2>3, <2>6
<1>2. CASE ~ \E i \in 1..Len(s) : s[i] = e
  BY <1>2 DEF LRem, RemoveFirst
<1> QED
  BY <1>1, <1>2

(* lRem yields a list, of the same entries except perhaps the removed one. *)
LEMMA LRemProperties ==
  ASSUME NEW S, NEW s \in Seq(S), NEW e
  PROVE  /\ LRem(s, e) \in Seq(S)
         /\ Entries(LRem(s, e)) \subseteq Entries(s)
         /\ Entries(s) \ {e} \subseteq Entries(LRem(s, e))
<1> PICK t : t = LRem(s, e)
  OBVIOUS
<1>1. CASE t # s
  <2>1. PICK k \in 1 .. Len(s) :
          /\ s[k] = e
          /\ \A i \in 1 .. Len(s) - 1 : t[i] = IF i < k THEN s[i] ELSE s[i + 1]
    BY <1>1, LRemShape
  <2>2. t \in Seq(S) /\ Len(t) = Len(s) - 1
    BY <1>1, LRemShape
  <2>3. ASSUME NEW x \in Entries(s), x # e
        PROVE  x \in Entries(t)
    <3>1. PICK i \in 1..Len(s) : s[i] = x
      BY EntryIndex, <2>3
    <3>2. CASE i < k
      <4>1. i \in 1 .. Len(s) - 1 /\ t[i] = x
        BY <2>1, <3>1, <3>2
      <4> QED
        BY <2>2, <4>1, EntryIndex
    <3>3. CASE i > k
      <4>1. i - 1 \in 1 .. Len(s) - 1 /\ t[i - 1] = x
        BY <2>1, <3>1, <3>3
      <4> QED
        BY <2>2, <4>1, EntryIndex
    <3> QED
      BY <2>1, <2>3, <3>1, <3>2, <3>3
  <2>4. ASSUME NEW x \in Entries(t)
        PROVE  x \in Entries(s)
    <3>1. PICK i \in 1 .. Len(s) - 1 : t[i] = x
      BY <2>2, <2>4, EntryIndex
    <3>2. \E j \in 1 .. Len(s) : s[j] = x
      <4>1. CASE i < k
        BY <2>1, <3>1, <4>1
      <4>2. CASE i >= k
        <5>1. i + 1 \in 1 .. Len(s) /\ s[i + 1] = x
          BY <2>1, <3>1, <4>2
        <5> QED
          BY <5>1
      <4> QED
        BY <2>1, <3>1, <4>1, <4>2
    <3> QED
      BY <3>2, EntryIndex
  <2> QED
    BY <2>2, <2>3, <2>4
<1>2. CASE t = s
  BY <1>2
<1> QED
  BY <1>1, <1>2

LEMMA AppendEntries ==
  ASSUME NEW S, NEW s \in Seq(S), NEW e \in S
  PROVE  Append(s, e) \in Seq(S) /\ Entries(Append(s, e)) = Entries(s) \cup {e}
BY AppendProperties DEF Entries

LEMMA HeadTailEntries ==
  ASSUME NEW S, NEW s \in Seq(S), s # <<>>
  PROVE  /\ Head(s) \in S /\ Tail(s) \in Seq(S)
         /\ Entries(s) = {Head(s)} \cup Entries(Tail(s))
<1>1. /\ Head(s) \in S /\ Tail(s) \in Seq(S) /\ Len(Tail(s)) = Len(s) - 1
      /\ \A i \in 1 .. Len(Tail(s)) : Tail(s)[i] = s[i + 1]
  BY HeadTailProperties
<1>2. Len(s) \in Nat \ {0} /\ Head(s) = s[1]
  OBVIOUS
<1>3. ASSUME NEW x \in Entries(s)
      PROVE  x \in {Head(s)} \cup Entries(Tail(s))
  <2>1. PICK i \in 1 .. Len(s) : s[i] = x
    BY <1>3, EntryIndex
  <2>2. CASE i = 1
    BY <1>2, <2>1, <2>2
  <2>3. CASE i > 1
    <3>1. i - 1 \in 1 .. Len(Tail(s)) /\ Tail(s)[i - 1] = x
      BY <1>1, <1>2, <2>1, <2>3
    <3> QED
      BY <3>1, EntryIndex
  <2> QED
    BY <2>1, <2>2, <2>3
<1>4. Entries(Tail(s)) \subseteq Entries(s) /\ Head(s) \in Entries(s)
  BY <1>1, <1>2 DEF Entries
<1> QED
  BY <1>1, <1>3, <1>4

(* Positions at which a list has an entry of M.                            *)
Places(s, M) == {i \in 1 .. Len(s) : s[i] \in M}

LEMMA PlacesFinite ==
  ASSUME NEW S, NEW s \in Seq(S), NEW M
  PROVE  IsFiniteSet(Places(s, M)) /\ Cardinality(Places(s, M)) \in Nat
<1>1. Len(s) \in Nat /\ Places(s, M) \subseteq 1 .. Len(s)
  BY DEF Places
<1>2. IsFiniteSet(1 .. Len(s))
  BY <1>1, FS_Interval
<1> QED
  BY <1>1, <1>2, FS_Subset, FS_CardinalityType

(* There are at least as many places in T as there are in S.               *)
LEMMA Injected ==
  ASSUME NEW S, NEW T, IsFiniteSet(T), NEW f \in [S -> T],
         \A x, y \in S : f[x] = f[y] => x = y
  PROVE  /\ IsFiniteSet(S) /\ Cardinality(S) \in Nat /\ Cardinality(T) \in Nat
         /\ Cardinality(S) <= Cardinality(T)
<1>1. f \in Injection(S, T)
  BY DEF Injection, IsInjective
<1>2. IsFiniteSet(S) /\ Cardinality(S) <= Cardinality(T)
  BY <1>1, FS_Injection
<1> QED
  BY <1>2, FS_CardinalityType

LEMMA AppendPlaces ==
  ASSUME NEW S, NEW s \in Seq(S), NEW e \in S, NEW M
  PROVE  /\ Cardinality(Places(s, M)) <= Cardinality(Places(Append(s, e), M))
         /\ e \in M => Cardinality(Places(s, M)) + 1 <= Cardinality(Places(Append(s, e), M))
<1> PICK t : t = Append(s, e)
  OBVIOUS
<1>1. /\ t \in Seq(S) /\ Len(s) \in Nat /\ Len(t) = Len(s) + 1
      /\ \A i \in 1 .. Len(s) : t[i] = s[i]
      /\ t[Len(s) + 1] = e
  BY AppendProperties
<1>2. Places(s, M) \subseteq Places(t, M) /\ Len(s) + 1 \notin Places(s, M)
  BY <1>1 DEF Places
<1>3. /\ IsFiniteSet(Places(s, M)) /\ Cardinality(Places(s, M)) \in Nat
      /\ IsFiniteSet(Places(t, M)) /\ Cardinality(Places(t, M)) \in Nat
  BY <1>1, PlacesFinite
<1>4. Cardinality(Places(s, M)) <= Cardinality(Places(t, M))
  BY <1>2, <1>3, FS_Subset
<1>5. ASSUME e \in M
      PROVE  Cardinality(Places(s, M)) + 1 <= Cardinality(Places(t, M))
  <2>1. Places(s, M) \cup {Len(s) + 1} \subseteq Places(t, M)
    BY <1>1, <1>2, <1>5 DEF Places
  <2>2. /\ IsFiniteSet(Places(s, M) \cup {Len(s) + 1})
        /\ Cardinality(Places(s, M) \cup {Len(s) + 1}) = Cardinality(Places(s, M)) + 1
    BY <1>2, <1>3, FS_AddElement
  <2> QED
    BY <1>3, <2>1, <2>2, FS_Subset
<1> QED
  BY <1>4, <1>5

(* A list from which position k has been taken out.                        *)
LEMMA TakenOut ==
  ASSUME NEW S, NEW s \in Seq(S), NEW t \in Seq(S), NEW k \in 1 .. Len(s),
         Len(t) = Len(s) - 1,
         \A i \in 1 .. Len(s) - 1 : t[i] = IF i < k THEN s[i] ELSE s[i + 1],
         NEW M
  PROVE  /\ Cardinality(Places(s, M)) <= Cardinality(Places(t, M)) + 1
         /\ s[k] \notin M => Cardinality(Places(s, M)) <= Cardinality(Places(t, M))
<1>1. Len(s) \in Nat /\ k \in Nat
  OBVIOUS
<1>2. /\ IsFiniteSet(Places(s, M)) /\ Cardinality(Places(s, M)) \in Nat
      /\ IsFiniteSet(Places(t, M)) /\ Cardinality(Places(t, M)) \in Nat
  BY PlacesFinite
<1> PICK R : R = Places(s, M) \ {k}
  OBVIOUS
<1> PICK T : T = Places(t, M)
  OBVIOUS
<1>6. Cardinality(R) \in Nat /\ Cardinality(R) <= Cardinality(T)
  <2> DEFINE f == [i \in R |-> IF i < k THEN i ELSE i - 1]
  <2>1. ASSUME NEW i \in R
        PROVE  (IF i < k THEN i ELSE i - 1) \in T
    <3>1. i \in 1 .. Len(s) /\ s[i] \in M /\ i # k
      BY DEF Places
    <3>2. CASE i < k
      <4>1. i \in 1 .. Len(s) - 1 /\ t[i] = s[i]
        BY <1>1, <3>1, <3>2
      <4> QED
        BY <3>1, <3>2, <4>1 DEF Places
    <3>3. CASE i > k
      <4>1. i - 1 \in 1 .. Len(s) - 1 /\ t[i - 1] = s[i]
        BY <1>1, <3>1, <3>3
      <4> QED
        BY <1>1, <3>1, <3>3, <4>1 DEF Places
    <3> QED
      BY <1>1, <3>1, <3>2, <3>3
  <2>2. f \in [R -> T]
    BY <2>1
  <2>3. \A x, y \in R : f[x] = f[y] => x = y
    <3>1. \A x \in R : x \in Nat /\ x # k
      BY DEF Places
    <3> QED
      BY <1>1, <3>1
  <2>4. IsFiniteSet(T)
    BY <1>2
  <2> HIDE DEF f
  <2> QED
    BY <2>2, <2>3, <2>4, Injected
<1>7. CASE s[k] \in M
  <2>1. k \in Places(s, M)
    BY <1>7 DEF Places
  <2>2. Cardinality(R) = Cardinality(Places(s, M)) - 1
    BY <1>2, <2>1, FS_RemoveElement
  <2> QED
    BY <1>2, <1>6, <1>7, <2>2
<1>8. CASE s[k] \notin M
  <2>1. Places(s, M) = R
    BY <1>8 DEF Places
  <2>2. Cardinality(Places(s, M)) = Cardinality(R)
    BY <2>1
  <2>3. Cardinality(T) \in Nat /\ T = Places(t, M)
    BY <1>2
  <2>4. Cardinality(Places(s, M)) <= Cardinality(Places(t, M))
    BY <1>6, <2>2, <2>3
  <2> QED
    BY <1>2, <2>4
<1> QED
  BY <1>7, <1>8

LEMMA TailPlaces ==
  ASSUME NEW S, NEW s \in Seq(S), s # <<>>, NEW M
  PROVE  /\ Cardinality(Places(s, M)) <= Cardinality(Places(Tail(s), M)) + 1
         /\ Head(s) \notin M => Cardinality(Places(s, M)) <= Cardinality(Places(Tail(s), M))
<1> PICK t : t = Tail(s)
  OBVIOUS
<1>1. /\ t \in Seq(S) /\ Len(t) = Len(s) - 1
      /\ \A i \in 1 .. Len(t) : t[i] = s[i + 1]
  BY HeadTailProperties
<1>2. Head(s) = s[1] /\ 1 \in 1 .. Len(s)
  OBVIOUS
<1>3. \A i \in 1 .. Len(s) - 1 : t[i] = IF i < 1 THEN s[i] ELSE s[i + 1]
  BY <1>1
<1> QED
  BY <1>1, <1>2, <1>3, TakenOut

LEMMA LRemPlaces ==
  ASSUME NEW S, NEW s \in Seq(S), NEW e, NEW M
  PROVE  /\ Cardinality(Places(s, M)) <= Cardinality(Places(LRem(s, e), M)) + 1
         /\ e \notin M => Cardinality(Places(s, M)) <= Cardinality(Places(LRem(s, e), M))
<1> PICK t : t = LRem(s, e)
  OBVIOUS
<1>1. CASE t = s
  <2>1. Cardinality(Places(s, M)) \in Nat
    BY PlacesFinite
  <2> QED
    BY <1>1, <2>1
<1>2. CASE t # s
  <2>1. t \in Seq(S) /\ Len(t) = Len(s) - 1
    BY <1>2, LRemShape
  <2>2. PICK k \in 1 .. Len(s) :
          /\ s[k] = e
          /\ \A i \in 1 .. Len(s) - 1 : t[i] = IF i < k THEN s[i] ELSE s[i + 1]
    BY <1>2, LRemShape
  <2> QED
    BY <2>1, <2>2, TakenOut
<1> QED
  BY <1>1, <1>2

-----------------------------------------------------------------------------
(* Control flow                                                            *)

LEMMA ProceedEffect ==
  ASSUME TypeOK, NEW p \in Procs, NEW next \in Steps, Proceed(p, next)
  PROVE  /\ pc' \in [Procs -> Steps]
         /\ pc' = [pc EXCEPT ![p] = pc'[p]]
         /\ pc'[p] \in {next, OnError(pc[p])}
         /\ recovered' \in [Procs -> BOOLEAN]
         /\ faults' \in 0 .. MaxFaults
<1>1. pc[p] \in Steps /\ OnError(pc[p]) \in Steps
  BY DEF TypeOK, OnError, Steps, RedisSteps, TrySteps, CatchSteps, FinallySteps, OuterSteps
<1>2. faults \in 0 .. MaxFaults /\ MaxFaults \in Nat
  BY MaxFaultsAssumption DEF TypeOK
<1>3. CASE pc' = [pc EXCEPT ![p] = next] /\ UNCHANGED <<recovered, faults>>
  BY <1>1, <1>3 DEF TypeOK
<1>4. CASE /\ faults < MaxFaults
           /\ faults' = faults + 1
           /\ pc' = [pc EXCEPT ![p] = OnError(pc[p])]
           /\ recovered' = [recovered EXCEPT ![p] = @ /\ pc'[p] # "idle"]
  <2>1. pc' \in [Procs -> Steps] /\ pc'[p] = OnError(pc[p])
    BY <1>1, <1>4 DEF TypeOK
  <2>2. recovered' \in [Procs -> BOOLEAN]
    <3>1. (recovered[p] /\ pc'[p] # "idle") \in BOOLEAN
      OBVIOUS
    <3> QED
      BY <1>4, <3>1 DEF TypeOK
  <2> QED
    BY <1>2, <1>4, <2>1, <2>2
<1> QED
  BY <1>3, <1>4 DEF Proceed

LEMMA InitTypes == Init => TypeOK /\ JobHeld
BY MaxFaultsAssumption, BatchSizeAssumption, NoProcAssumption
   DEF Init, TypeOK, JobHeld, JoblessSteps, KeyValues, Steps, RedisSteps,
       TrySteps, CatchSteps, FinallySteps, OuterSteps

(* TypeOK and JobHeld are preserved by every step.                         *)
LEMMA TypeStep ==
  TypeOK /\ JobHeld /\ [Next]_vars => TypeOK' /\ JobHeld'
<1> SUFFICES ASSUME TypeOK, JobHeld, [Next]_vars
             PROVE  TypeOK' /\ JobHeld'
  OBVIOUS
<1> USE BatchSizeAssumption, MaxFaultsAssumption, NoJobAssumption
<1> USE DEF vars, dbVars, redisVars, procVars, Begin, JoblessSteps, KeyValues,
            Steps, RedisSteps, TrySteps, CatchSteps, FinallySteps, OuterSteps
<1>1. CASE UNCHANGED vars
  BY <1>1 DEF TypeOK, JobHeld
<1>2. ASSUME NEW o \in Orders, Settle(o)
      PROVE  TypeOK' /\ JobHeld'
  BY <1>2 DEF Settle, TypeOK, JobHeld
<1>3. ASSUME NEW o \in Orders, SettleReplay(o)
      PROVE  TypeOK' /\ JobHeld'
  BY <1>3 DEF SettleReplay, TypeOK, JobHeld
<1>4. ASSUME NEW o \in Orders, LoseCall(o)
      PROVE  TypeOK' /\ JobHeld'
  BY <1>4 DEF LoseCall, TypeOK, JobHeld
<1>5. ASSUME NEW o \in Orders, Enqueue(o)
      PROVE  TypeOK' /\ JobHeld'
  <2> DEFINE new == [order |-> o, req |-> req[o] + 1, attempts |-> 0, notBefore |-> 0]
  <2>1. new \in Job /\ req[o] + 1 \in Nat
    BY DEF TypeOK, Job
  <2> HIDE DEF new
  <2>2. ready' \in {ready, Append(ready, new)}
    BY <1>5 DEF Enqueue, new
  <2>3. ready' \in Seq(Job)
    <3>1. ready \in Seq(Job)
      BY DEF TypeOK
    <3>2. Append(ready, new) \in Seq(Job)
      BY <2>1, <3>1, AppendEntries
    <3> QED
      BY <2>2, <3>1, <3>2
  <2>4. key' \in [Orders -> KeyValues] /\ req' \in [Orders -> Nat]
    BY <1>5, <2>1 DEF Enqueue, TypeOK
  <2> QED
    BY <1>5, <2>3, <2>4 DEF Enqueue, TypeOK, JobHeld
<1>6. CASE ScanPending
  BY <1>6 DEF ScanPending, TypeOK, JobHeld
<1>7. ASSUME NEW p \in Procs, StartDrain(p)
      PROVE  TypeOK' /\ JobHeld'
  BY <1>7 DEF StartDrain, TypeOK, JobHeld
<1>8. ASSUME NEW p \in Procs, ReadStatus(p)
      PROVE  TypeOK' /\ JobHeld'
  BY <1>8 DEF ReadStatus, TypeOK, JobHeld
<1>9. ASSUME NEW p \in Procs, Deduct(p)
      PROVE  TypeOK' /\ JobHeld'
  BY <1>9 DEF Deduct, TypeOK, JobHeld
<1>10. ASSUME NEW p \in Procs, HandlerFails(p)
      PROVE  TypeOK' /\ JobHeld'
  BY <1>10 DEF HandlerFails, TypeOK, JobHeld
<1>11. ASSUME NEW p \in Procs, AuditFailure(p)
      PROVE  TypeOK' /\ JobHeld'
  BY <1>11 DEF AuditFailure, TypeOK, JobHeld
<1>12. ASSUME NEW p \in Procs, CommandFails(p)
      PROVE  TypeOK' /\ JobHeld'
  <2>1. faults' \in 0 .. MaxFaults
    BY <1>12 DEF CommandFails, TypeOK
  <2>2. /\ pc' = [pc EXCEPT ![p] = pc'[p]]
        /\ pc'[p] \in {"caught", "releaseThrow", "idle"}
        /\ pc'[p] # "idle" => pc[p] \notin JoblessSteps
    BY <1>12 DEF CommandFails, OnError, TypeOK
  <2>3. CASE pc'[p] = "idle"
    <3>1. /\ job' = [job EXCEPT ![p] = NoJob]
          /\ count' = [count EXCEPT ![p] = 0]
          /\ recovered' = [recovered EXCEPT ![p] = FALSE]
          /\ lease' = [lease EXCEPT ![p] = FALSE]
      BY <1>12, <2>3 DEF CommandFails
    <3>2. TypeOK'
      BY <1>12, <2>1, <2>2, <3>1 DEF CommandFails, TypeOK
    <3> QED
      BY <2>2, <2>3, <3>1, <3>2 DEF JobHeld, TypeOK
  <2>4. CASE pc'[p] # "idle"
    BY <1>12, <2>1, <2>2, <2>4 DEF CommandFails, TypeOK, JobHeld
  <2> QED
    BY <2>3, <2>4
<1>13. ASSUME NEW p \in Procs, Crash(p)
      PROVE  TypeOK' /\ JobHeld'
  BY <1>13 DEF Crash, TypeOK, JobHeld
<1>14. ASSUME NEW p \in Procs, Recover(p)
      PROVE  TypeOK' /\ JobHeld'
  <2>1. ready' \in Seq(Job) /\ processing' \in Seq(Job)
    <3>1. CASE processing = <<>>
      BY <1>14, <3>1 DEF Recover, TypeOK
    <3>2. CASE processing # <<>>
      <4>1. ready \in Seq(Job) /\ processing \in Seq(Job)
        BY DEF TypeOK
      <4>2. Head(processing) \in Job /\ Tail(processing) \in Seq(Job)
        BY <3>2, <4>1, HeadTailEntries
      <4>3. Append(ready, Head(processing)) \in Seq(Job)
        BY <4>1, <4>2, AppendEntries
      <4> QED
        BY <1>14, <3>2, <4>2, <4>3 DEF Recover
    <3> QED
      BY <3>1, <3>2
  <2> DEFINE over == processing = <<>> \/ count[p] + 1 = BatchSize
  <2>2. \/ /\ pc' = [pc EXCEPT ![p] = IF over THEN "claim" ELSE "recover"]
           /\ count' = [count EXCEPT ![p] = IF over THEN 0 ELSE @ + 1]
           /\ recovered' = [recovered EXCEPT ![p] = over]
           /\ faults' = faults
        \/ /\ faults < MaxFaults
           /\ faults' = faults + 1
           /\ pc' = [pc EXCEPT ![p] = "idle"]
           /\ count' = [count EXCEPT ![p] = 0]
           /\ recovered' = recovered
    BY <1>14 DEF Recover
  <2>3. over \in BOOLEAN /\ count[p] \in 0 .. BatchSize - 1 /\ (~over => count[p] + 1 \in 0 .. BatchSize - 1)
    BY DEF TypeOK
  <2> HIDE DEF over
  <2>4. /\ pc' \in [Procs -> Steps] /\ count' \in [Procs -> 0 .. BatchSize - 1]
        /\ recovered' \in [Procs -> BOOLEAN] /\ faults' \in 0 .. MaxFaults
    <3>1. pc' \in [Procs -> Steps] /\ count' \in [Procs -> 0 .. BatchSize - 1]
      <4>1. (IF over THEN "claim" ELSE "recover") \in Steps
        OBVIOUS
      <4>2. (IF over THEN 0 ELSE count[p] + 1) \in 0 .. BatchSize - 1
        BY <2>3
      <4>3. 0 \in 0 .. BatchSize - 1
        OBVIOUS
      <4>4. pc' = [pc EXCEPT ![p] = IF over THEN "claim" ELSE "recover"] \/ pc' = [pc EXCEPT ![p] = "idle"]
        BY <2>2
      <4>5. \/ count' = [count EXCEPT ![p] = IF over THEN 0 ELSE count[p] + 1]
            \/ count' = [count EXCEPT ![p] = 0]
        BY <2>2
      <4>6. pc' \in [Procs -> Steps]
        BY <4>1, <4>4 DEF TypeOK, Steps
      <4>7. count' \in [Procs -> 0 .. BatchSize - 1]
        BY <4>2, <4>3, <4>5 DEF TypeOK
      <4> QED
        BY <4>6, <4>7
    <3>2. recovered' \in [Procs -> BOOLEAN]
      <4>1. CASE recovered' = recovered
        BY <4>1 DEF TypeOK
      <4>2. CASE recovered' = [recovered EXCEPT ![p] = over]
        BY <2>3, <4>2 DEF TypeOK
      <4> QED
        BY <2>2, <4>1, <4>2
    <3>3. faults' \in 0 .. MaxFaults
      BY <2>2 DEF TypeOK
    <3> QED
      BY <3>1, <3>2, <3>3
  <2>5. JobHeld'
    BY <1>14, <2>2 DEF Recover, JobHeld, TypeOK
  <2> QED
    BY <1>14, <2>1, <2>4, <2>5 DEF Recover, TypeOK
<1>15. ASSUME NEW p \in Procs, Claim(p)
      PROVE  TypeOK' /\ JobHeld'
  <2>1. /\ pc' \in [Procs -> Steps]
        /\ pc' = [pc EXCEPT ![p] = pc'[p]]
        /\ recovered' \in [Procs -> BOOLEAN]
        /\ faults' \in 0 .. MaxFaults
        /\ pc[p] = "claim" /\ pc'[p] \in {"idle", "status"}
    BY <1>15, ProceedEffect DEF Claim, OnError
  <2>2. /\ ready' \in Seq(Job) /\ processing' \in Seq(Job)
        /\ pc'[p] = "status" => Head(ready) \in Job
    <3>1. CASE ready = <<>>
      <4>1. pc'[p] = "idle"
        BY <1>15, <3>1, ProceedEffect DEF Claim, OnError
      <4> QED
        BY <1>15, <3>1, <4>1 DEF Claim, TypeOK
    <3>2. CASE ready # <<>>
      <4>1. ready \in Seq(Job) /\ processing \in Seq(Job)
        BY DEF TypeOK
      <4>2. Head(ready) \in Job /\ Tail(ready) \in Seq(Job)
        BY <3>2, <4>1, HeadTailEntries
      <4>3. Append(processing, Head(ready)) \in Seq(Job)
        BY <4>1, <4>2, AppendEntries
      <4> QED
        BY <1>15, <3>2, <4>2, <4>3 DEF Claim
    <3> QED
      BY <3>1, <3>2
  <2>3. JobHeld' /\ job' \in [Procs -> Job \cup {NoJob}] /\ count' \in [Procs -> 0 .. BatchSize - 1]
    <3>1. job' \in [Procs -> Job \cup {NoJob}] /\ count' \in [Procs -> 0 .. BatchSize - 1]
      BY <1>15, <2>1, <2>2 DEF Claim, TypeOK
    <3>2. job'[p] = NoJob <=> pc'[p] \in JoblessSteps
      BY <1>15, <2>1, <2>2 DEF Claim, TypeOK
    <3>3. \A q \in Procs \ {p} : job'[q] = job[q] /\ pc'[q] = pc[q]
      BY <1>15, <2>1 DEF Claim, TypeOK
    <3> QED
      BY <3>1, <3>2, <3>3 DEF JobHeld
  <2> QED
    BY <1>15, <2>1, <2>2, <2>3 DEF Claim, TypeOK
<1>16. ASSUME NEW p \in Procs, Skip(p)
      PROVE  TypeOK' /\ JobHeld'
  <2>1. /\ pc' \in [Procs -> Steps]
        /\ pc' = [pc EXCEPT ![p] = pc'[p]]
        /\ recovered' \in [Procs -> BOOLEAN]
        /\ faults' \in 0 .. MaxFaults
        /\ pc[p] = "skip" /\ pc'[p] \in {"claim", "idle"}
    BY <1>16, ProceedEffect DEF Skip, NextTurn, OnError
  <2>2. processing' \in Seq(Job)
    BY <1>16, LRemProperties DEF Skip, TypeOK
  <2>3. JobHeld' /\ job' \in [Procs -> Job \cup {NoJob}] /\ count' \in [Procs -> 0 .. BatchSize - 1]
    <3>1. pc'[p] = "claim" => count[p] + 1 \in 0 .. BatchSize - 1
      BY <1>16, <2>1 DEF Skip, Proceed, NextTurn, OnError, TypeOK
    <3>2. job' \in [Procs -> Job \cup {NoJob}] /\ count' \in [Procs -> 0 .. BatchSize - 1]
      BY <1>16, <2>1, <3>1 DEF Skip, EndTurn, TypeOK
    <3> QED
      BY <1>16, <2>1, <3>2 DEF Skip, EndTurn, JobHeld, TypeOK
  <2> QED
    BY <1>16, <2>1, <2>2, <2>3 DEF Skip, EndTurn, TypeOK
<1>17. ASSUME NEW p \in Procs, TakeLock(p)
      PROVE  TypeOK' /\ JobHeld'
  <2>1. /\ pc' \in [Procs -> Steps]
        /\ pc' = [pc EXCEPT ![p] = pc'[p]]
        /\ recovered' \in [Procs -> BOOLEAN]
        /\ faults' \in 0 .. MaxFaults
        /\ pc[p] = "lock" /\ pc'[p] \in {"handler", "requeue", "idle"}
    BY <1>17, ProceedEffect DEF TakeLock, OnError
  <2>2. lock' \in [Orders -> Procs \cup {NoProc}] /\ lease' \in [Procs -> BOOLEAN]
    BY <1>17, <2>1 DEF TakeLock, TypeOK
  <2>3. JobHeld' /\ job' \in [Procs -> Job \cup {NoJob}] /\ count' \in [Procs -> 0 .. BatchSize - 1]
    BY <1>17, <2>1 DEF TakeLock, JobHeld, TypeOK
  <2> QED
    BY <1>17, <2>1, <2>2, <2>3 DEF TakeLock, TypeOK
<1>18. ASSUME NEW p \in Procs, RequeuePush(p)
      PROVE  TypeOK' /\ JobHeld'
  <2>1. /\ pc' \in [Procs -> Steps]
        /\ pc' = [pc EXCEPT ![p] = pc'[p]]
        /\ recovered' \in [Procs -> BOOLEAN]
        /\ faults' \in 0 .. MaxFaults
        /\ pc[p] = "requeue" /\ pc'[p] \in {"requeueAck", "idle"}
    BY <1>18, ProceedEffect DEF RequeuePush, OnError
  <2>2. ready' \in Seq(Job)
    <3>1. job[p] \in Job
      BY <2>1 DEF JobHeld, TypeOK
    <3> QED
      BY <1>18, <3>1, AppendEntries DEF RequeuePush, TypeOK
  <2>3. JobHeld' /\ job' \in [Procs -> Job \cup {NoJob}] /\ count' \in [Procs -> 0 .. BatchSize - 1]
    BY <1>18, <2>1 DEF RequeuePush, JobHeld, TypeOK
  <2> QED
    BY <1>18, <2>1, <2>2, <2>3 DEF RequeuePush, TypeOK
<1>19. ASSUME NEW p \in Procs, RequeueAck(p)
      PROVE  TypeOK' /\ JobHeld'
  <2>1. /\ pc' \in [Procs -> Steps]
        /\ pc' = [pc EXCEPT ![p] = pc'[p]]
        /\ recovered' \in [Procs -> BOOLEAN]
        /\ faults' \in 0 .. MaxFaults
        /\ pc[p] = "requeueAck" /\ pc'[p] \in {"idle"}
    BY <1>19, ProceedEffect DEF RequeueAck, OnError
  <2>2. processing' \in Seq(Job)
    BY <1>19, LRemProperties DEF RequeueAck, TypeOK
  <2>3. JobHeld' /\ job' \in [Procs -> Job \cup {NoJob}] /\ count' \in [Procs -> 0 .. BatchSize - 1]
    <3>1. pc'[p] = "claim" => count[p] + 1 \in 0 .. BatchSize - 1
      BY <1>19, <2>1 DEF RequeueAck, Proceed, NextTurn, OnError, TypeOK
    <3>2. job' \in [Procs -> Job \cup {NoJob}] /\ count' \in [Procs -> 0 .. BatchSize - 1]
      BY <1>19, <2>1, <3>1 DEF RequeueAck, EndTurn, TypeOK
    <3> QED
      BY <1>19, <2>1, <3>2 DEF RequeueAck, EndTurn, JobHeld, TypeOK
  <2> QED
    BY <1>19, <2>1, <2>2, <2>3 DEF RequeueAck, EndTurn, TypeOK
<1>20. ASSUME NEW p \in Procs, MarkDone(p)
      PROVE  TypeOK' /\ JobHeld'
  <2>1. /\ pc' \in [Procs -> Steps]
        /\ pc' = [pc EXCEPT ![p] = pc'[p]]
        /\ recovered' \in [Procs -> BOOLEAN]
        /\ faults' \in 0 .. MaxFaults
        /\ pc[p] = "markDone" /\ pc'[p] \in {"ack", "caught"}
    BY <1>20, ProceedEffect DEF MarkDone, OnError
  <2>2. key' \in [Orders -> KeyValues]
    BY <1>20 DEF MarkDone, TypeOK
  <2>3. JobHeld' /\ job' \in [Procs -> Job \cup {NoJob}] /\ count' \in [Procs -> 0 .. BatchSize - 1]
    BY <1>20, <2>1 DEF MarkDone, JobHeld, TypeOK
  <2> QED
    BY <1>20, <2>1, <2>2, <2>3 DEF MarkDone, TypeOK
<1>21. ASSUME NEW p \in Procs, Ack(p)
      PROVE  TypeOK' /\ JobHeld'
  <2>1. /\ pc' \in [Procs -> Steps]
        /\ pc' = [pc EXCEPT ![p] = pc'[p]]
        /\ recovered' \in [Procs -> BOOLEAN]
        /\ faults' \in 0 .. MaxFaults
        /\ pc[p] = "ack" /\ pc'[p] \in {"release", "caught"}
    BY <1>21, ProceedEffect DEF Ack, OnError
  <2>2. processing' \in Seq(Job)
    BY <1>21, LRemProperties DEF Ack, TypeOK
  <2>3. JobHeld' /\ job' \in [Procs -> Job \cup {NoJob}] /\ count' \in [Procs -> 0 .. BatchSize - 1]
    BY <1>21, <2>1 DEF Ack, JobHeld, TypeOK
  <2> QED
    BY <1>21, <2>1, <2>2, <2>3 DEF Ack, TypeOK
<1>22. ASSUME NEW p \in Procs, DeadLetter(p)
      PROVE  TypeOK' /\ JobHeld'
  <2>1. /\ pc' \in [Procs -> Steps]
        /\ pc' = [pc EXCEPT ![p] = pc'[p]]
        /\ recovered' \in [Procs -> BOOLEAN]
        /\ faults' \in 0 .. MaxFaults
        /\ pc[p] = "caught" /\ pc'[p] \in {"audit", "releaseThrow"}
    BY <1>22, ProceedEffect DEF DeadLetter, OnError
  <2>2. processing' \in Seq(Job) /\ dead' \in Seq(Job)
    <3>1. job[p] \in Job
      BY <2>1 DEF JobHeld, TypeOK
    <3>2. [job[p] EXCEPT !.attempts = @ + 1] \in Job
      BY <3>1 DEF Job
    <3> QED
      BY <1>22, <3>2, AppendEntries, LRemProperties DEF DeadLetter, TypeOK
  <2>3. JobHeld' /\ job' \in [Procs -> Job \cup {NoJob}] /\ count' \in [Procs -> 0 .. BatchSize - 1]
    BY <1>22, <2>1 DEF DeadLetter, JobHeld, TypeOK
  <2> QED
    BY <1>22, <2>1, <2>2, <2>3 DEF DeadLetter, TypeOK
<1>23. ASSUME NEW p \in Procs, RetryPush(p)
      PROVE  TypeOK' /\ JobHeld'
  <2>1. /\ pc' \in [Procs -> Steps]
        /\ pc' = [pc EXCEPT ![p] = pc'[p]]
        /\ recovered' \in [Procs -> BOOLEAN]
        /\ faults' \in 0 .. MaxFaults
        /\ pc[p] = "caught" /\ pc'[p] \in {"retryAck", "releaseThrow"}
    BY <1>23, ProceedEffect DEF RetryPush, OnError
  <2>2. ready' \in Seq(Job) /\ waiting' \subseteq Job
    <3>1. job[p] \in Job
      BY <2>1 DEF JobHeld, TypeOK
    <3>2. PICK t \in Times :
            LET retry == [job[p] EXCEPT !.attempts = @ + 1, !.notBefore = t]
            IN  /\ ready' = Append(ready, retry)
                /\ waiting' = waiting \cup {retry}
      BY <1>23 DEF RetryPush
    <3>3. [job[p] EXCEPT !.attempts = @ + 1, !.notBefore = t] \in Job
      <4>1. t \in Nat
        BY TimesAssumption
      <4>2. [job[p] EXCEPT !.attempts = @ + 1] \in Job
        BY <3>1 DEF Job
      <4>3. [[job[p] EXCEPT !.attempts = @ + 1] EXCEPT !.notBefore = t] \in Job
        BY <4>1, <4>2 DEF Job
      <4> QED
        BY <4>3
    <3> QED
      BY <3>2, <3>3, AppendEntries DEF TypeOK
  <2>3. JobHeld' /\ job' \in [Procs -> Job \cup {NoJob}] /\ count' \in [Procs -> 0 .. BatchSize - 1]
    BY <1>23, <2>1 DEF RetryPush, JobHeld, TypeOK
  <2> QED
    BY <1>23, <2>1, <2>2, <2>3 DEF RetryPush, TypeOK
<1>24. ASSUME NEW p \in Procs, RetryAck(p)
      PROVE  TypeOK' /\ JobHeld'
  <2>1. /\ pc' \in [Procs -> Steps]
        /\ pc' = [pc EXCEPT ![p] = pc'[p]]
        /\ recovered' \in [Procs -> BOOLEAN]
        /\ faults' \in 0 .. MaxFaults
        /\ pc[p] = "retryAck" /\ pc'[p] \in {"releaseStop", "releaseThrow"}
    BY <1>24, ProceedEffect DEF RetryAck, OnError
  <2>2. processing' \in Seq(Job)
    BY <1>24, LRemProperties DEF RetryAck, TypeOK
  <2>3. JobHeld' /\ job' \in [Procs -> Job \cup {NoJob}] /\ count' \in [Procs -> 0 .. BatchSize - 1]
    BY <1>24, <2>1 DEF RetryAck, JobHeld, TypeOK
  <2> QED
    BY <1>24, <2>1, <2>2, <2>3 DEF RetryAck, TypeOK
<1>25. ASSUME NEW p \in Procs, Release(p)
      PROVE  TypeOK' /\ JobHeld'
  <2>1. /\ pc' \in [Procs -> Steps]
        /\ pc' = [pc EXCEPT ![p] = pc'[p]]
        /\ recovered' \in [Procs -> BOOLEAN]
        /\ faults' \in 0 .. MaxFaults
        /\ pc[p] \in FinallySteps /\ pc'[p] \in {"claim", "idle"}
    <3>1. CASE pc[p] = "release"
      BY <1>25, <3>1, ProceedEffect DEF Release, NextTurn, OnError
    <3>2. CASE pc[p] = "releaseStop"
      BY <1>25, <3>2, ProceedEffect DEF Release, OnError
    <3>3. CASE pc[p] = "releaseThrow"
      BY <1>25, <3>3 DEF Release, TypeOK
    <3> QED
      BY <1>25, <3>1, <3>2, <3>3 DEF Release
  <2>2. lock' \in [Orders -> Procs \cup {NoProc}]
    BY <1>25 DEF Release, ReleaseLock, TypeOK
  <2>3. JobHeld' /\ job' \in [Procs -> Job \cup {NoJob}] /\ count' \in [Procs -> 0 .. BatchSize - 1]
    <3>1. pc'[p] = "claim" => count[p] + 1 \in 0 .. BatchSize - 1
      BY <1>25, <2>1 DEF Release, Proceed, NextTurn, OnError, TypeOK
    <3>2. job' \in [Procs -> Job \cup {NoJob}] /\ count' \in [Procs -> 0 .. BatchSize - 1]
      BY <1>25, <2>1, <3>1 DEF Release, EndTurn, TypeOK
    <3> QED
      BY <1>25, <2>1, <3>2 DEF Release, EndTurn, JobHeld, TypeOK
  <2> QED
    BY <1>25, <2>1, <2>2, <2>3 DEF Release, EndTurn, TypeOK
<1>26. ASSUME NEW o \in Orders, ExpireAbandonedLock(o)
      PROVE  TypeOK' /\ JobHeld'
  BY <1>26 DEF ExpireAbandonedLock, Abandoned, TypeOK, JobHeld
<1>27. ASSUME NEW o \in Orders, ExpireHeldLock(o)
      PROVE  TypeOK' /\ JobHeld'
  BY <1>27 DEF ExpireHeldLock, Abandoned, TypeOK, JobHeld
<1>28. ASSUME NEW o \in Orders, ExpireKey(o)
      PROVE  TypeOK' /\ JobHeld'
  BY <1>28 DEF ExpireKey, Abandoned, TypeOK, JobHeld
<1>29. ASSUME NEW j \in waiting, BackoffElapses(j)
      PROVE  TypeOK' /\ JobHeld'
  BY <1>29 DEF BackoffElapses, TypeOK, JobHeld
<1> QED
  BY <1>1, <1>2, <1>3, <1>4, <1>5, <1>6, <1>7, <1>8, <1>9, <1>10, <1>11, <1>12, <1>13, <1>14, <1>15, <1>16, <1>17, <1>18, <1>19, <1>20, <1>21, <1>22, <1>23, <1>24, <1>25, <1>26, <1>27, <1>28, <1>29 DEF Next, Run

-----------------------------------------------------------------------------
(* The inductive invariant is preserved by every step                     *)

(* Entries, calls and claimed jobs are about settled orders.                *)
LEMMA PaidStep ==
  TypeOK /\ JobHeld /\ AboutPaid /\ [Next]_vars => AboutPaid'
<1> SUFFICES ASSUME TypeOK, JobHeld, AboutPaid, [Next]_vars
             PROVE  AboutPaid'
  OBVIOUS
<1> USE NoJobAssumption, NoProcAssumption
<1> USE DEF vars, dbVars, redisVars, procVars, Begin, JoblessSteps
<1>1. CASE UNCHANGED vars
  BY <1>1 DEF AboutPaid
<1>2. ASSUME NEW o \in Orders, Settle(o)
      PROVE  AboutPaid'
  BY <1>2 DEF Settle, AboutPaid, TypeOK
<1>3. ASSUME NEW o \in Orders, SettleReplay(o)
      PROVE  AboutPaid'
  BY <1>3 DEF SettleReplay, AboutPaid, TypeOK
<1>4. ASSUME NEW o \in Orders, LoseCall(o)
      PROVE  AboutPaid'
  BY <1>4 DEF LoseCall, AboutPaid, TypeOK
<1>5. ASSUME NEW o \in Orders, Enqueue(o)
      PROVE  AboutPaid'
  <2> DEFINE new == [order |-> o, req |-> req[o] + 1, attempts |-> 0, notBefore |-> 0]
  <2>1. new \in Job /\ new.order = o /\ o \in paid
    BY <1>5 DEF Enqueue, AboutPaid, TypeOK, Job
  <2> HIDE DEF new
  <2>2. ready' = ready \/ ready' = Append(ready, new)
    BY <1>5 DEF Enqueue, new
  <2>3. Entries(ready') \subseteq Entries(ready) \cup {new}
    <3>1. ready \in Seq(Job)
      BY DEF TypeOK
    <3>2. Entries(Append(ready, new)) = Entries(ready) \cup {new}
      BY <2>1, <3>1, AppendEntries
    <3> QED
      BY <2>2, <3>2
  <2> QED
    BY <1>5, <2>1, <2>3 DEF Enqueue, AboutPaid
<1>6. ASSUME NEW o \in Orders, ExpireAbandonedLock(o)
      PROVE  AboutPaid'
  BY <1>6 DEF ExpireAbandonedLock, AboutPaid, TypeOK
<1>7. ASSUME NEW o \in Orders, ExpireHeldLock(o)
      PROVE  AboutPaid'
  BY <1>7 DEF ExpireHeldLock, AboutPaid, TypeOK
<1>8. ASSUME NEW o \in Orders, ExpireKey(o)
      PROVE  AboutPaid'
  BY <1>8 DEF ExpireKey, AboutPaid, TypeOK
<1>9. CASE ScanPending
  BY <1>9 DEF ScanPending, AboutPaid, TypeOK
<1>10. ASSUME NEW p \in Procs, StartDrain(p)
      PROVE  AboutPaid'
  BY <1>10 DEF StartDrain, AboutPaid, TypeOK
<1>11. ASSUME NEW p \in Procs, Recover(p)
      PROVE  AboutPaid'
  <2>1. Entries(ready') \cup Entries(processing') \subseteq Entries(ready) \cup Entries(processing)
    <3>1. CASE processing = <<>>
      BY <1>11, <3>1 DEF Recover
    <3>2. CASE processing # <<>>
      <4>1. ready \in Seq(Job) /\ processing \in Seq(Job)
        BY DEF TypeOK
      <4>2. Head(processing) \in Job /\ Entries(processing) = {Head(processing)} \cup Entries(Tail(processing))
        BY <3>2, <4>1, HeadTailEntries
      <4>3. Entries(Append(ready, Head(processing))) = Entries(ready) \cup {Head(processing)}
        BY <4>1, <4>2, AppendEntries
      <4> QED
        BY <1>11, <3>2, <4>2, <4>3 DEF Recover
    <3> QED
      BY <3>1, <3>2
  <2> QED
    BY <1>11, <2>1 DEF Recover, AboutPaid
<1>12. ASSUME NEW p \in Procs, Claim(p)
      PROVE  AboutPaid'
  <2>1. /\ Entries(ready') \cup Entries(processing') \subseteq Entries(ready) \cup Entries(processing)
        /\ job' = job \/ job' = [job EXCEPT ![p] = NoJob] \/ (job' = [job EXCEPT ![p] = Head(ready)] /\ Head(ready) \in Entries(ready))
    <3>1. CASE ready = <<>>
      <4>1. "idle" \in Steps /\ OnError("claim") = "idle"
        BY DEF OnError, Steps, TrySteps, CatchSteps
      <4>2. pc'[p] = "idle"
        BY <1>12, <3>1, <4>1, ProceedEffect DEF Claim
      <4> QED
        BY <1>12, <3>1, <4>2 DEF Claim
    <3>2. CASE ready # <<>>
      <4>1. ready \in Seq(Job) /\ processing \in Seq(Job)
        BY DEF TypeOK
      <4>2. Head(ready) \in Job /\ Entries(ready) = {Head(ready)} \cup Entries(Tail(ready))
        BY <3>2, <4>1, HeadTailEntries
      <4>3. Entries(Append(processing, Head(ready))) = Entries(processing) \cup {Head(ready)}
        BY <4>1, <4>2, AppendEntries
      <4> QED
        BY <1>12, <3>2, <4>2, <4>3 DEF Claim
    <3> QED
      BY <3>1, <3>2
  <2> QED
    BY <1>12, <2>1 DEF Claim, AboutPaid, TypeOK
<1>13. ASSUME NEW p \in Procs, ReadStatus(p)
      PROVE  AboutPaid'
  BY <1>13 DEF ReadStatus, AboutPaid, TypeOK
<1>14. ASSUME NEW p \in Procs, Skip(p)
      PROVE  AboutPaid'
  <2>1. Entries(processing') \subseteq Entries(processing)
    BY <1>14, LRemProperties DEF Skip, TypeOK
  <2> QED
    BY <1>14, <2>1 DEF Skip, EndTurn, AboutPaid, TypeOK
<1>15. ASSUME NEW p \in Procs, TakeLock(p)
      PROVE  AboutPaid'
  BY <1>15 DEF TakeLock, AboutPaid, TypeOK
<1>16. ASSUME NEW p \in Procs, RequeuePush(p)
      PROVE  AboutPaid'
  <2>1. job[p] \in Job /\ job[p].order \in paid
    BY <1>16 DEF RequeuePush, JobHeld, AboutPaid, TypeOK
  <2>2. Entries(ready') = Entries(ready) \cup {job[p]}
    BY <1>16, <2>1, AppendEntries DEF RequeuePush, TypeOK
  <2> QED
    BY <1>16, <2>1, <2>2 DEF RequeuePush, AboutPaid, TypeOK
<1>17. ASSUME NEW p \in Procs, RequeueAck(p)
      PROVE  AboutPaid'
  <2>1. Entries(processing') \subseteq Entries(processing)
    BY <1>17, LRemProperties DEF RequeueAck, TypeOK
  <2> QED
    BY <1>17, <2>1 DEF RequeueAck, EndTurn, AboutPaid, TypeOK
<1>18. ASSUME NEW p \in Procs, Deduct(p)
      PROVE  AboutPaid'
  BY <1>18 DEF Deduct, AboutPaid, TypeOK
<1>19. ASSUME NEW p \in Procs, HandlerFails(p)
      PROVE  AboutPaid'
  BY <1>19 DEF HandlerFails, AboutPaid, TypeOK
<1>20. ASSUME NEW p \in Procs, MarkDone(p)
      PROVE  AboutPaid'
  BY <1>20 DEF MarkDone, AboutPaid, TypeOK
<1>21. ASSUME NEW p \in Procs, Ack(p)
      PROVE  AboutPaid'
  <2>1. Entries(processing') \subseteq Entries(processing)
    BY <1>21, LRemProperties DEF Ack, TypeOK
  <2> QED
    BY <1>21, <2>1 DEF Ack, EndTurn, AboutPaid, TypeOK
<1>22. ASSUME NEW p \in Procs, DeadLetter(p)
      PROVE  AboutPaid'
  <2> DEFINE final == [job[p] EXCEPT !.attempts = @ + 1]
  <2>1. job[p] \in Job /\ job[p].order \in paid
    BY <1>22 DEF DeadLetter, JobHeld, AboutPaid, TypeOK
  <2>2. final \in Job /\ final.order = job[p].order
    BY <2>1 DEF Job
  <2>3. Entries(dead') = Entries(dead) \cup {final}
    BY <1>22, <2>2, AppendEntries DEF DeadLetter, TypeOK
  <2>4. Entries(processing') \subseteq Entries(processing)
    BY <1>22, LRemProperties DEF DeadLetter, TypeOK
  <2> HIDE DEF final
  <2> QED
    BY <1>22, <2>1, <2>2, <2>3, <2>4 DEF DeadLetter, AboutPaid, TypeOK
<1>23. ASSUME NEW p \in Procs, AuditFailure(p)
      PROVE  AboutPaid'
  BY <1>23 DEF AuditFailure, AboutPaid, TypeOK
<1>24. ASSUME NEW p \in Procs, RetryPush(p)
      PROVE  AboutPaid'
  <2>1. job[p] \in Job /\ job[p].order \in paid
    BY <1>24 DEF RetryPush, JobHeld, AboutPaid, TypeOK
  <2>2. PICK t \in Times : ready' = Append(ready, [job[p] EXCEPT !.attempts = @ + 1, !.notBefore = t])
    BY <1>24 DEF RetryPush
  <2> DEFINE retry == [[job[p] EXCEPT !.attempts = @ + 1] EXCEPT !.notBefore = t]
  <2>3. retry \in Job /\ retry.order = job[p].order
    <3>1. t \in Nat
      BY TimesAssumption
    <3>2. [job[p] EXCEPT !.attempts = @ + 1] \in Job
      BY <2>1 DEF Job
    <3> QED
      BY <2>1, <3>1, <3>2 DEF Job
  <2>4. ready' = Append(ready, retry)
    BY <2>2
  <2> HIDE DEF retry
  <2>5. Entries(ready') = Entries(ready) \cup {retry}
    BY <2>3, <2>4, AppendEntries DEF TypeOK
  <2> QED
    BY <1>24, <2>1, <2>3, <2>5 DEF RetryPush, AboutPaid, TypeOK
<1>25. ASSUME NEW p \in Procs, RetryAck(p)
      PROVE  AboutPaid'
  <2>1. Entries(processing') \subseteq Entries(processing)
    BY <1>25, LRemProperties DEF RetryAck, TypeOK
  <2> QED
    BY <1>25, <2>1 DEF RetryAck, EndTurn, AboutPaid, TypeOK
<1>26. ASSUME NEW p \in Procs, Release(p)
      PROVE  AboutPaid'
  BY <1>26 DEF Release, EndTurn, AboutPaid, TypeOK
<1>27. ASSUME NEW p \in Procs, CommandFails(p)
      PROVE  AboutPaid'
  BY <1>27 DEF CommandFails, AboutPaid, TypeOK
<1>28. ASSUME NEW p \in Procs, Crash(p)
      PROVE  AboutPaid'
  BY <1>28 DEF Crash, AboutPaid, TypeOK
<1>29. ASSUME NEW j \in waiting, BackoffElapses(j)
      PROVE  AboutPaid'
  BY <1>29 DEF BackoffElapses, AboutPaid, TypeOK
<1> QED
  BY <1>1, <1>2, <1>3, <1>4, <1>5, <1>6, <1>7, <1>8, <1>9, <1>10, <1>11, <1>12, <1>13, <1>14, <1>15, <1>16, <1>17, <1>18, <1>19, <1>20, <1>21, <1>22, <1>23, <1>24, <1>25, <1>26, <1>27, <1>28, <1>29 DEF Next, Run

(* A step of p that leaves locks and leases alone, and neither leaves the   *)
(* locked part of processJob nor changes jobs there.                        *)
LEMMA LeaseFrame ==
  ASSUME TypeOK, LeaseLocked, NEW p \in Procs,
         lock' = lock, lease' = lease,
         pc' = [pc EXCEPT ![p] = pc'[p]],
         job' = [job EXCEPT ![p] = job'[p]],
         pc[p] \in LockedSteps => pc'[p] \in LockedSteps /\ job'[p] = job[p]
  PROVE  LeaseLocked'
BY DEF LeaseLocked, TypeOK

(* An unexpired lease is the lease of the lock's holder.                     *)
LEMMA LeaseStep ==
  TypeOK /\ JobHeld /\ LeaseLocked /\ [Next]_vars => LeaseLocked'
<1> SUFFICES ASSUME TypeOK, JobHeld, LeaseLocked, [Next]_vars
             PROVE  LeaseLocked'
  OBVIOUS
<1> USE NoJobAssumption, NoProcAssumption
<1> USE DEF vars, dbVars, redisVars, procVars, Begin, LockedSteps, TrySteps, CatchSteps, FinallySteps, JoblessSteps
<1>1. CASE UNCHANGED vars
  BY <1>1 DEF LeaseLocked
<1>2. ASSUME NEW o \in Orders, Settle(o)
      PROVE  LeaseLocked'
  BY <1>2 DEF Settle, LeaseLocked, JobHeld, TypeOK
<1>3. ASSUME NEW o \in Orders, SettleReplay(o)
      PROVE  LeaseLocked'
  BY <1>3 DEF SettleReplay, LeaseLocked, JobHeld, TypeOK
<1>4. ASSUME NEW o \in Orders, LoseCall(o)
      PROVE  LeaseLocked'
  BY <1>4 DEF LoseCall, LeaseLocked, JobHeld, TypeOK
<1>5. ASSUME NEW o \in Orders, Enqueue(o)
      PROVE  LeaseLocked'
  BY <1>5 DEF Enqueue, LeaseLocked, JobHeld, TypeOK
<1>6. ASSUME NEW o \in Orders, ExpireAbandonedLock(o)
      PROVE  LeaseLocked'
  BY <1>6 DEF ExpireAbandonedLock, Abandoned, LeaseLocked, JobHeld, TypeOK
<1>7. ASSUME NEW o \in Orders, ExpireHeldLock(o)
      PROVE  LeaseLocked'
  BY <1>7 DEF ExpireHeldLock, Abandoned, LeaseLocked, JobHeld, TypeOK
<1>8. ASSUME NEW o \in Orders, ExpireKey(o)
      PROVE  LeaseLocked'
  BY <1>8 DEF ExpireKey, Abandoned, LeaseLocked, JobHeld, TypeOK
<1>9. CASE ScanPending
  BY <1>9 DEF ScanPending, LeaseLocked, JobHeld, TypeOK
<1>10. ASSUME NEW p \in Procs, StartDrain(p)
      PROVE  LeaseLocked'
  <2>1. /\ pc' = [pc EXCEPT ![p] = pc'[p]]
        /\ pc[p] \in LockedSteps => pc'[p] \in LockedSteps
    BY <1>10 DEF StartDrain, TypeOK
  <2>2. /\ job' = [job EXCEPT ![p] = job'[p]]
        /\ pc[p] \in LockedSteps => job'[p] = job[p]
    BY <1>10 DEF StartDrain, TypeOK
  <2>3. lock' = lock /\ lease' = lease
    BY <1>10 DEF StartDrain
  <2> QED
    BY <2>1, <2>2, <2>3, LeaseFrame
<1>11. ASSUME NEW p \in Procs, Recover(p)
      PROVE  LeaseLocked'
  <2>1. /\ pc' = [pc EXCEPT ![p] = pc'[p]]
        /\ pc[p] \in LockedSteps => pc'[p] \in LockedSteps
    BY <1>11 DEF Recover, TypeOK
  <2>2. /\ job' = [job EXCEPT ![p] = job'[p]]
        /\ pc[p] \in LockedSteps => job'[p] = job[p]
    BY <1>11 DEF Recover, TypeOK
  <2>3. lock' = lock /\ lease' = lease
    BY <1>11 DEF Recover
  <2> QED
    BY <2>1, <2>2, <2>3, LeaseFrame
<1>12. ASSUME NEW p \in Procs, Claim(p)
      PROVE  LeaseLocked'
  <2>1. /\ pc' = [pc EXCEPT ![p] = pc'[p]]
        /\ pc[p] \in LockedSteps => pc'[p] \in LockedSteps
    BY <1>12, ProceedEffect DEF Claim, NextTurn, OnError, Steps, RedisSteps, OuterSteps, TypeOK
  <2>2. /\ job' = [job EXCEPT ![p] = job'[p]]
        /\ pc[p] \in LockedSteps => job'[p] = job[p]
    BY <1>12 DEF Claim, TypeOK
  <2>3. lock' = lock /\ lease' = lease
    BY <1>12 DEF Claim
  <2> QED
    BY <2>1, <2>2, <2>3, LeaseFrame
<1>13. ASSUME NEW p \in Procs, ReadStatus(p)
      PROVE  LeaseLocked'
  <2>1. /\ pc' = [pc EXCEPT ![p] = pc'[p]]
        /\ pc[p] \in LockedSteps => pc'[p] \in LockedSteps
    BY <1>13 DEF ReadStatus, TypeOK
  <2>2. /\ job' = [job EXCEPT ![p] = job'[p]]
        /\ pc[p] \in LockedSteps => job'[p] = job[p]
    BY <1>13 DEF ReadStatus, TypeOK
  <2>3. lock' = lock /\ lease' = lease
    BY <1>13 DEF ReadStatus
  <2> QED
    BY <2>1, <2>2, <2>3, LeaseFrame
<1>14. ASSUME NEW p \in Procs, Skip(p)
      PROVE  LeaseLocked'
  <2>1. /\ pc' = [pc EXCEPT ![p] = pc'[p]]
        /\ pc[p] \in LockedSteps => pc'[p] \in LockedSteps
    BY <1>14, ProceedEffect DEF Skip, NextTurn, OnError, Steps, RedisSteps, OuterSteps, TypeOK
  <2>2. /\ job' = [job EXCEPT ![p] = job'[p]]
        /\ pc[p] \in LockedSteps => job'[p] = job[p]
    BY <1>14 DEF Skip, EndTurn, TypeOK
  <2>3. lock' = lock /\ lease' = lease
    BY <1>14 DEF Skip
  <2> QED
    BY <2>1, <2>2, <2>3, LeaseFrame
<1>15. ASSUME NEW p \in Procs, TakeLock(p)
      PROVE  LeaseLocked'
  <2>1. /\ pc' = [pc EXCEPT ![p] = pc'[p]]
        /\ pc[p] = "lock"
    BY <1>15, ProceedEffect DEF TakeLock, Steps, RedisSteps, OuterSteps
  <2>2. lock[job[p].order] = NoProc \/ (lock' = lock /\ pc'[p] # "handler")
    BY <1>15 DEF TakeLock, Proceed, OnError, TypeOK
  <2>3. ASSUME NEW q \in Procs, lease'[q]
        PROVE  pc'[q] \in LockedSteps /\ lock'[job'[q].order] = q
    <3>1. CASE q = p
      <4>1. pc'[p] = "handler" /\ lock[job[p].order] = NoProc /\ job' = job
        BY <1>15, <2>2, <2>3, <3>1 DEF TakeLock, JobHeld, TypeOK
      <4>2. lock' = [lock EXCEPT ![job[p].order] = p] /\ job[p] \in Job
        BY <1>15, <2>1, <4>1 DEF TakeLock, JobHeld, TypeOK
      <4> QED
        BY <3>1, <4>1, <4>2 DEF TypeOK, Job
    <3>2. CASE q # p
      <4>1. lease[q] /\ job'[q] = job[q] /\ pc'[q] = pc[q]
        BY <1>15, <2>1, <2>3, <3>2 DEF TakeLock, TypeOK
      <4>2. lock[job[q].order] = q /\ pc[q] \in LockedSteps
        BY <4>1 DEF LeaseLocked
      <4>3. job[q].order \in Orders
        BY <4>2 DEF JobHeld, TypeOK, Job
      <4>4. lock' = lock \/ (lock[job[p].order] = NoProc /\ lock' = [lock EXCEPT ![job[p].order] = p])
        BY <1>15 DEF TakeLock
      <4>5. lock'[job[q].order] = q
        BY <4>2, <4>3, <4>4 DEF TypeOK
      <4> QED
        BY <4>1, <4>2, <4>5
    <3> QED
      BY <3>1, <3>2
  <2> QED
    BY <2>3 DEF LeaseLocked
<1>16. ASSUME NEW p \in Procs, RequeuePush(p)
      PROVE  LeaseLocked'
  <2>1. /\ pc' = [pc EXCEPT ![p] = pc'[p]]
        /\ pc[p] \in LockedSteps => pc'[p] \in LockedSteps
    BY <1>16, ProceedEffect DEF RequeuePush, NextTurn, OnError, Steps, RedisSteps, OuterSteps, TypeOK
  <2>2. /\ job' = [job EXCEPT ![p] = job'[p]]
        /\ pc[p] \in LockedSteps => job'[p] = job[p]
    BY <1>16 DEF RequeuePush, TypeOK
  <2>3. lock' = lock /\ lease' = lease
    BY <1>16 DEF RequeuePush
  <2> QED
    BY <2>1, <2>2, <2>3, LeaseFrame
<1>17. ASSUME NEW p \in Procs, RequeueAck(p)
      PROVE  LeaseLocked'
  <2>1. /\ pc' = [pc EXCEPT ![p] = pc'[p]]
        /\ pc[p] \in LockedSteps => pc'[p] \in LockedSteps
    BY <1>17, ProceedEffect DEF RequeueAck, NextTurn, OnError, Steps, RedisSteps, OuterSteps, TypeOK
  <2>2. /\ job' = [job EXCEPT ![p] = job'[p]]
        /\ pc[p] \in LockedSteps => job'[p] = job[p]
    BY <1>17 DEF RequeueAck, EndTurn, TypeOK
  <2>3. lock' = lock /\ lease' = lease
    BY <1>17 DEF RequeueAck
  <2> QED
    BY <2>1, <2>2, <2>3, LeaseFrame
<1>18. ASSUME NEW p \in Procs, Deduct(p)
      PROVE  LeaseLocked'
  <2>1. /\ pc' = [pc EXCEPT ![p] = pc'[p]]
        /\ pc[p] \in LockedSteps => pc'[p] \in LockedSteps
    BY <1>18 DEF Deduct, TypeOK
  <2>2. /\ job' = [job EXCEPT ![p] = job'[p]]
        /\ pc[p] \in LockedSteps => job'[p] = job[p]
    BY <1>18 DEF Deduct, TypeOK
  <2>3. lock' = lock /\ lease' = lease
    BY <1>18 DEF Deduct
  <2> QED
    BY <2>1, <2>2, <2>3, LeaseFrame
<1>19. ASSUME NEW p \in Procs, HandlerFails(p)
      PROVE  LeaseLocked'
  <2>1. /\ pc' = [pc EXCEPT ![p] = pc'[p]]
        /\ pc[p] \in LockedSteps => pc'[p] \in LockedSteps
    BY <1>19 DEF HandlerFails, TypeOK
  <2>2. /\ job' = [job EXCEPT ![p] = job'[p]]
        /\ pc[p] \in LockedSteps => job'[p] = job[p]
    BY <1>19 DEF HandlerFails, TypeOK
  <2>3. lock' = lock /\ lease' = lease
    BY <1>19 DEF HandlerFails
  <2> QED
    BY <2>1, <2>2, <2>3, LeaseFrame
<1>20. ASSUME NEW p \in Procs, MarkDone(p)
      PROVE  LeaseLocked'
  <2>1. /\ pc' = [pc EXCEPT ![p] = pc'[p]]
        /\ pc[p] \in LockedSteps => pc'[p] \in LockedSteps
    BY <1>20, ProceedEffect DEF MarkDone, NextTurn, OnError, Steps, RedisSteps, OuterSteps, TypeOK
  <2>2. /\ job' = [job EXCEPT ![p] = job'[p]]
        /\ pc[p] \in LockedSteps => job'[p] = job[p]
    BY <1>20 DEF MarkDone, TypeOK
  <2>3. lock' = lock /\ lease' = lease
    BY <1>20 DEF MarkDone
  <2> QED
    BY <2>1, <2>2, <2>3, LeaseFrame
<1>21. ASSUME NEW p \in Procs, Ack(p)
      PROVE  LeaseLocked'
  <2>1. /\ pc' = [pc EXCEPT ![p] = pc'[p]]
        /\ pc[p] \in LockedSteps => pc'[p] \in LockedSteps
    BY <1>21, ProceedEffect DEF Ack, NextTurn, OnError, Steps, RedisSteps, OuterSteps, TypeOK
  <2>2. /\ job' = [job EXCEPT ![p] = job'[p]]
        /\ pc[p] \in LockedSteps => job'[p] = job[p]
    BY <1>21 DEF Ack, TypeOK
  <2>3. lock' = lock /\ lease' = lease
    BY <1>21 DEF Ack
  <2> QED
    BY <2>1, <2>2, <2>3, LeaseFrame
<1>22. ASSUME NEW p \in Procs, DeadLetter(p)
      PROVE  LeaseLocked'
  <2>1. /\ pc' = [pc EXCEPT ![p] = pc'[p]]
        /\ pc[p] \in LockedSteps => pc'[p] \in LockedSteps
    BY <1>22, ProceedEffect DEF DeadLetter, NextTurn, OnError, Steps, RedisSteps, OuterSteps, TypeOK
  <2>2. /\ job' = [job EXCEPT ![p] = job'[p]]
        /\ pc[p] \in LockedSteps => job'[p] = job[p]
    BY <1>22 DEF DeadLetter, TypeOK
  <2>3. lock' = lock /\ lease' = lease
    BY <1>22 DEF DeadLetter
  <2> QED
    BY <2>1, <2>2, <2>3, LeaseFrame
<1>23. ASSUME NEW p \in Procs, AuditFailure(p)
      PROVE  LeaseLocked'
  <2>1. /\ pc' = [pc EXCEPT ![p] = pc'[p]]
        /\ pc[p] \in LockedSteps => pc'[p] \in LockedSteps
    BY <1>23 DEF AuditFailure, TypeOK
  <2>2. /\ job' = [job EXCEPT ![p] = job'[p]]
        /\ pc[p] \in LockedSteps => job'[p] = job[p]
    BY <1>23 DEF AuditFailure, TypeOK
  <2>3. lock' = lock /\ lease' = lease
    BY <1>23 DEF AuditFailure
  <2> QED
    BY <2>1, <2>2, <2>3, LeaseFrame
<1>24. ASSUME NEW p \in Procs, RetryPush(p)
      PROVE  LeaseLocked'
  <2>1. /\ pc' = [pc EXCEPT ![p] = pc'[p]]
        /\ pc[p] \in LockedSteps => pc'[p] \in LockedSteps
    BY <1>24, ProceedEffect DEF RetryPush, NextTurn, OnError, Steps, RedisSteps, OuterSteps, TypeOK
  <2>2. /\ job' = [job EXCEPT ![p] = job'[p]]
        /\ pc[p] \in LockedSteps => job'[p] = job[p]
    BY <1>24 DEF RetryPush, TypeOK
  <2>3. lock' = lock /\ lease' = lease
    BY <1>24 DEF RetryPush
  <2> QED
    BY <2>1, <2>2, <2>3, LeaseFrame
<1>25. ASSUME NEW p \in Procs, RetryAck(p)
      PROVE  LeaseLocked'
  <2>1. /\ pc' = [pc EXCEPT ![p] = pc'[p]]
        /\ pc[p] \in LockedSteps => pc'[p] \in LockedSteps
    BY <1>25, ProceedEffect DEF RetryAck, NextTurn, OnError, Steps, RedisSteps, OuterSteps, TypeOK
  <2>2. /\ job' = [job EXCEPT ![p] = job'[p]]
        /\ pc[p] \in LockedSteps => job'[p] = job[p]
    BY <1>25 DEF RetryAck, TypeOK
  <2>3. lock' = lock /\ lease' = lease
    BY <1>25 DEF RetryAck
  <2> QED
    BY <2>1, <2>2, <2>3, LeaseFrame
<1>26. ASSUME NEW p \in Procs, Release(p)
      PROVE  LeaseLocked'
  <2> SUFFICES ASSUME NEW q \in Procs, lease'[q]
               PROVE  pc'[q] \in LockedSteps /\ lock'[job'[q].order] = q
    BY DEF LeaseLocked
  <2>1. q # p /\ lease[q] /\ job'[q] = job[q]
    BY <1>26 DEF Release, EndTurn, TypeOK
  <2>2. pc'[q] = pc[q]
    BY <1>26, <2>1 DEF Release, Proceed, TypeOK
  <2>3. lock[job[q].order] = q /\ pc[q] \in LockedSteps
    BY <2>1 DEF LeaseLocked
  <2>4. lock'[job[q].order] = q
    BY <1>26, <2>1, <2>3 DEF Release, ReleaseLock, TypeOK
  <2> QED
    BY <2>1, <2>2, <2>3, <2>4
<1>27. ASSUME NEW p \in Procs, CommandFails(p)
      PROVE  LeaseLocked'
  BY <1>27 DEF CommandFails, OnError, RedisSteps, OuterSteps, LeaseLocked, JobHeld, TypeOK
<1>28. ASSUME NEW p \in Procs, Crash(p)
      PROVE  LeaseLocked'
  BY <1>28 DEF Crash, LeaseLocked, JobHeld, TypeOK
<1>29. ASSUME NEW j \in waiting, BackoffElapses(j)
      PROVE  LeaseLocked'
  BY <1>29 DEF BackoffElapses, LeaseLocked, JobHeld, TypeOK
<1> QED
  BY <1>1, <1>2, <1>3, <1>4, <1>5, <1>6, <1>7, <1>8, <1>9, <1>10, <1>11, <1>12, <1>13, <1>14, <1>15, <1>16, <1>17, <1>18, <1>19, <1>20, <1>21, <1>22, <1>23, <1>24, <1>25, <1>26, <1>27, <1>28, <1>29 DEF Next, Run

(* A step of p that leaves the database alone, sets no key to 'done' and    *)
(* does not lead p to the command that would.                               *)
LEMMA StockFrame ==
  ASSUME TypeOK, Deducted, ConsumedOnce, DoneMeansDeducted, NEW p \in Procs,
         UNCHANGED dbVars,
         \A o \in Orders : key'[o] = "done" => key[o] = "done",
         pc' = [pc EXCEPT ![p] = pc'[p]], pc'[p] # "markDone",
         job' = [job EXCEPT ![p] = job'[p]]
  PROVE  Deducted' /\ ConsumedOnce' /\ DoneMeansDeducted'
BY DEF Deducted, ConsumedOnce, DoneMeansDeducted, TypeOK, dbVars

(* Stock, ledger and job keys agree.                                        *)
LEMMA StockStep ==
  TypeOK /\ JobHeld /\ AboutPaid /\ Deducted /\ ConsumedOnce /\ DoneMeansDeducted /\ [Next]_vars => Deducted' /\ ConsumedOnce' /\ DoneMeansDeducted'
<1> SUFFICES ASSUME TypeOK, JobHeld, AboutPaid, Deducted, ConsumedOnce, DoneMeansDeducted, [Next]_vars
             PROVE  Deducted' /\ ConsumedOnce' /\ DoneMeansDeducted'
  OBVIOUS
<1> USE NoJobAssumption, NoProcAssumption
<1> USE DEF vars, dbVars, redisVars, procVars, Begin, JoblessSteps
<1>1. CASE UNCHANGED vars
  BY <1>1 DEF Deducted, ConsumedOnce, DoneMeansDeducted
<1>2. ASSUME NEW o \in Orders, Settle(o)
      PROVE  Deducted' /\ ConsumedOnce' /\ DoneMeansDeducted'
  BY <1>2 DEF Settle, Deducted, ConsumedOnce, DoneMeansDeducted, AboutPaid, TypeOK
<1>3. ASSUME NEW o \in Orders, SettleReplay(o)
      PROVE  Deducted' /\ ConsumedOnce' /\ DoneMeansDeducted'
  BY <1>3 DEF SettleReplay, Deducted, ConsumedOnce, DoneMeansDeducted, AboutPaid, TypeOK
<1>4. ASSUME NEW o \in Orders, LoseCall(o)
      PROVE  Deducted' /\ ConsumedOnce' /\ DoneMeansDeducted'
  BY <1>4 DEF LoseCall, Deducted, ConsumedOnce, DoneMeansDeducted, AboutPaid, TypeOK
<1>5. ASSUME NEW o \in Orders, Enqueue(o)
      PROVE  Deducted' /\ ConsumedOnce' /\ DoneMeansDeducted'
  BY <1>5 DEF Enqueue, Deducted, ConsumedOnce, DoneMeansDeducted, AboutPaid, TypeOK
<1>6. ASSUME NEW o \in Orders, ExpireAbandonedLock(o)
      PROVE  Deducted' /\ ConsumedOnce' /\ DoneMeansDeducted'
  BY <1>6 DEF ExpireAbandonedLock, Deducted, ConsumedOnce, DoneMeansDeducted, AboutPaid, TypeOK
<1>7. ASSUME NEW o \in Orders, ExpireHeldLock(o)
      PROVE  Deducted' /\ ConsumedOnce' /\ DoneMeansDeducted'
  BY <1>7 DEF ExpireHeldLock, Deducted, ConsumedOnce, DoneMeansDeducted, AboutPaid, TypeOK
<1>8. ASSUME NEW o \in Orders, ExpireKey(o)
      PROVE  Deducted' /\ ConsumedOnce' /\ DoneMeansDeducted'
  BY <1>8 DEF ExpireKey, Deducted, ConsumedOnce, DoneMeansDeducted, AboutPaid, TypeOK
<1>9. CASE ScanPending
  BY <1>9 DEF ScanPending, Deducted, ConsumedOnce, DoneMeansDeducted, AboutPaid, TypeOK
<1>10. ASSUME NEW p \in Procs, StartDrain(p)
      PROVE  Deducted' /\ ConsumedOnce' /\ DoneMeansDeducted'
  BY <1>10 DEF StartDrain, Deducted, ConsumedOnce, DoneMeansDeducted, AboutPaid, TypeOK
<1>11. ASSUME NEW p \in Procs, Recover(p)
      PROVE  Deducted' /\ ConsumedOnce' /\ DoneMeansDeducted'
  BY <1>11 DEF Recover, Deducted, ConsumedOnce, DoneMeansDeducted, AboutPaid, TypeOK
<1>12. ASSUME NEW p \in Procs, Claim(p)
      PROVE  Deducted' /\ ConsumedOnce' /\ DoneMeansDeducted'
  <2>1. pc' = [pc EXCEPT ![p] = pc'[p]] /\ pc'[p] # "markDone"
    BY <1>12 DEF Claim, Proceed, NextTurn, OnError, TrySteps, CatchSteps, TypeOK
  <2>2. job' = [job EXCEPT ![p] = job'[p]]
    BY <1>12 DEF Claim, TypeOK
  <2>3. UNCHANGED dbVars /\ \A o \in Orders : key'[o] = "done" => key[o] = "done"
    BY <1>12 DEF Claim, TypeOK
  <2> QED
    BY <2>1, <2>2, <2>3, StockFrame
<1>13. ASSUME NEW p \in Procs, ReadStatus(p)
      PROVE  Deducted' /\ ConsumedOnce' /\ DoneMeansDeducted'
  BY <1>13 DEF ReadStatus, Deducted, ConsumedOnce, DoneMeansDeducted, AboutPaid, TypeOK
<1>14. ASSUME NEW p \in Procs, Skip(p)
      PROVE  Deducted' /\ ConsumedOnce' /\ DoneMeansDeducted'
  <2>1. pc' = [pc EXCEPT ![p] = pc'[p]] /\ pc'[p] # "markDone"
    BY <1>14 DEF Skip, Proceed, NextTurn, OnError, TrySteps, CatchSteps, TypeOK
  <2>2. job' = [job EXCEPT ![p] = job'[p]]
    BY <1>14 DEF Skip, EndTurn, TypeOK
  <2>3. UNCHANGED dbVars /\ \A o \in Orders : key'[o] = "done" => key[o] = "done"
    BY <1>14 DEF Skip, TypeOK
  <2> QED
    BY <2>1, <2>2, <2>3, StockFrame
<1>15. ASSUME NEW p \in Procs, TakeLock(p)
      PROVE  Deducted' /\ ConsumedOnce' /\ DoneMeansDeducted'
  <2>1. pc' = [pc EXCEPT ![p] = pc'[p]] /\ pc'[p] # "markDone"
    BY <1>15 DEF TakeLock, Proceed, NextTurn, OnError, TrySteps, CatchSteps, TypeOK
  <2>2. job' = [job EXCEPT ![p] = job'[p]]
    BY <1>15 DEF TakeLock, TypeOK
  <2>3. UNCHANGED dbVars /\ \A o \in Orders : key'[o] = "done" => key[o] = "done"
    BY <1>15 DEF TakeLock, TypeOK
  <2> QED
    BY <2>1, <2>2, <2>3, StockFrame
<1>16. ASSUME NEW p \in Procs, RequeuePush(p)
      PROVE  Deducted' /\ ConsumedOnce' /\ DoneMeansDeducted'
  <2>1. pc' = [pc EXCEPT ![p] = pc'[p]] /\ pc'[p] # "markDone"
    BY <1>16 DEF RequeuePush, Proceed, NextTurn, OnError, TrySteps, CatchSteps, TypeOK
  <2>2. job' = [job EXCEPT ![p] = job'[p]]
    BY <1>16 DEF RequeuePush, TypeOK
  <2>3. UNCHANGED dbVars /\ \A o \in Orders : key'[o] = "done" => key[o] = "done"
    BY <1>16 DEF RequeuePush, TypeOK
  <2> QED
    BY <2>1, <2>2, <2>3, StockFrame
<1>17. ASSUME NEW p \in Procs, RequeueAck(p)
      PROVE  Deducted' /\ ConsumedOnce' /\ DoneMeansDeducted'
  <2>1. pc' = [pc EXCEPT ![p] = pc'[p]] /\ pc'[p] # "markDone"
    BY <1>17 DEF RequeueAck, Proceed, NextTurn, OnError, TrySteps, CatchSteps, TypeOK
  <2>2. job' = [job EXCEPT ![p] = job'[p]]
    BY <1>17 DEF RequeueAck, EndTurn, TypeOK
  <2>3. UNCHANGED dbVars /\ \A o \in Orders : key'[o] = "done" => key[o] = "done"
    BY <1>17 DEF RequeueAck, TypeOK
  <2> QED
    BY <2>1, <2>2, <2>3, StockFrame
<1>18. ASSUME NEW p \in Procs, Deduct(p)
      PROVE  Deducted' /\ ConsumedOnce' /\ DoneMeansDeducted'
  <2> DEFINE o == job[p].order
  <2>1. o \in Orders /\ o \in paid
    BY <1>18 DEF Deduct, JobHeld, AboutPaid, TypeOK, Job
  <2>2. /\ consumed' = [consumed EXCEPT ![o] = IF @ = 0 THEN 1 ELSE @]
        /\ pending' = pending \ {o} /\ paid' = paid /\ key' = key /\ job' = job
    BY <1>18 DEF Deduct
  <2> HIDE DEF o
  <2>3. /\ consumed'[o] = 1
        /\ \A x \in Orders \ {o} : consumed'[x] = consumed[x]
        /\ \A x \in Orders : consumed[x] = 1 => consumed'[x] = 1
    BY <2>1, <2>2 DEF ConsumedOnce, TypeOK
  <2>4. ConsumedOnce' /\ DoneMeansDeducted'
    BY <2>1, <2>2, <2>3 DEF ConsumedOnce, DoneMeansDeducted, TypeOK
  <2>5. Deducted'
    <3> SUFFICES ASSUME NEW q \in Procs, pc'[q] = "markDone"
                 PROVE  consumed'[job[q].order] = 1
      BY <2>2 DEF Deducted
    <3>1. CASE q = p
      BY <2>3, <3>1 DEF o
    <3>2. CASE q # p
      <4>1. pc[q] = "markDone"
        BY <1>18, <3>2 DEF Deduct, TypeOK
      <4>2. consumed[job[q].order] = 1 /\ job[q].order \in Orders
        BY <4>1 DEF Deducted, JobHeld, TypeOK, Job
      <4> QED
        BY <2>3, <4>2
    <3> QED
      BY <3>1, <3>2
  <2> QED
    BY <2>4, <2>5
<1>19. ASSUME NEW p \in Procs, HandlerFails(p)
      PROVE  Deducted' /\ ConsumedOnce' /\ DoneMeansDeducted'
  BY <1>19 DEF HandlerFails, Deducted, ConsumedOnce, DoneMeansDeducted, AboutPaid, TypeOK
<1>20. ASSUME NEW p \in Procs, MarkDone(p)
      PROVE  Deducted' /\ ConsumedOnce' /\ DoneMeansDeducted'
  <2>1. consumed[job[p].order] = 1 /\ job[p].order \in Orders
    BY <1>20 DEF MarkDone, Deducted, JobHeld, TypeOK, Job
  <2>2. pc' = [pc EXCEPT ![p] = pc'[p]] /\ pc'[p] # "markDone"
    BY <1>20, ProceedEffect DEF MarkDone, OnError, Steps, RedisSteps, TrySteps, CatchSteps, FinallySteps, OuterSteps
  <2>3. Deducted' /\ ConsumedOnce'
    BY <1>20, <2>2 DEF MarkDone, Deducted, ConsumedOnce, TypeOK
  <2>4. DoneMeansDeducted'
    BY <1>20, <2>1 DEF MarkDone, DoneMeansDeducted, TypeOK
  <2> QED
    BY <2>3, <2>4
<1>21. ASSUME NEW p \in Procs, Ack(p)
      PROVE  Deducted' /\ ConsumedOnce' /\ DoneMeansDeducted'
  <2>1. pc' = [pc EXCEPT ![p] = pc'[p]] /\ pc'[p] # "markDone"
    BY <1>21 DEF Ack, Proceed, NextTurn, OnError, TrySteps, CatchSteps, TypeOK
  <2>2. job' = [job EXCEPT ![p] = job'[p]]
    BY <1>21 DEF Ack, TypeOK
  <2>3. UNCHANGED dbVars /\ \A o \in Orders : key'[o] = "done" => key[o] = "done"
    BY <1>21 DEF Ack, TypeOK
  <2> QED
    BY <2>1, <2>2, <2>3, StockFrame
<1>22. ASSUME NEW p \in Procs, DeadLetter(p)
      PROVE  Deducted' /\ ConsumedOnce' /\ DoneMeansDeducted'
  <2>1. pc' = [pc EXCEPT ![p] = pc'[p]] /\ pc'[p] # "markDone"
    BY <1>22 DEF DeadLetter, Proceed, NextTurn, OnError, TrySteps, CatchSteps, TypeOK
  <2>2. job' = [job EXCEPT ![p] = job'[p]]
    BY <1>22 DEF DeadLetter, TypeOK
  <2>3. UNCHANGED dbVars /\ \A o \in Orders : key'[o] = "done" => key[o] = "done"
    BY <1>22 DEF DeadLetter, TypeOK
  <2> QED
    BY <2>1, <2>2, <2>3, StockFrame
<1>23. ASSUME NEW p \in Procs, AuditFailure(p)
      PROVE  Deducted' /\ ConsumedOnce' /\ DoneMeansDeducted'
  BY <1>23 DEF AuditFailure, Deducted, ConsumedOnce, DoneMeansDeducted, AboutPaid, TypeOK
<1>24. ASSUME NEW p \in Procs, RetryPush(p)
      PROVE  Deducted' /\ ConsumedOnce' /\ DoneMeansDeducted'
  <2>1. pc' = [pc EXCEPT ![p] = pc'[p]] /\ pc'[p] # "markDone"
    BY <1>24 DEF RetryPush, Proceed, NextTurn, OnError, TrySteps, CatchSteps, TypeOK
  <2>2. job' = [job EXCEPT ![p] = job'[p]]
    BY <1>24 DEF RetryPush, TypeOK
  <2>3. UNCHANGED dbVars /\ \A o \in Orders : key'[o] = "done" => key[o] = "done"
    BY <1>24 DEF RetryPush, TypeOK
  <2> QED
    BY <2>1, <2>2, <2>3, StockFrame
<1>25. ASSUME NEW p \in Procs, RetryAck(p)
      PROVE  Deducted' /\ ConsumedOnce' /\ DoneMeansDeducted'
  <2>1. pc' = [pc EXCEPT ![p] = pc'[p]] /\ pc'[p] # "markDone"
    BY <1>25 DEF RetryAck, Proceed, NextTurn, OnError, TrySteps, CatchSteps, TypeOK
  <2>2. job' = [job EXCEPT ![p] = job'[p]]
    BY <1>25 DEF RetryAck, TypeOK
  <2>3. UNCHANGED dbVars /\ \A o \in Orders : key'[o] = "done" => key[o] = "done"
    BY <1>25 DEF RetryAck, TypeOK
  <2> QED
    BY <2>1, <2>2, <2>3, StockFrame
<1>26. ASSUME NEW p \in Procs, Release(p)
      PROVE  Deducted' /\ ConsumedOnce' /\ DoneMeansDeducted'
  <2>1. pc' = [pc EXCEPT ![p] = pc'[p]] /\ pc'[p] # "markDone"
    <3>1. pc[p] \in {"release", "releaseStop", "releaseThrow"}
      BY <1>26 DEF Release
    <3>2. CASE pc[p] = "releaseThrow"
      BY <1>26, <3>2 DEF Release, TypeOK
    <3>3. CASE pc[p] # "releaseThrow"
      BY <1>26, <3>1, <3>3 DEF Release, Proceed, NextTurn, OnError, TrySteps, CatchSteps, TypeOK
    <3> QED
      BY <3>2, <3>3
  <2>2. job' = [job EXCEPT ![p] = job'[p]] /\ UNCHANGED dbVars /\ key' = key
    BY <1>26 DEF Release, EndTurn, TypeOK
  <2> QED
    BY <2>1, <2>2, StockFrame
<1>27. ASSUME NEW p \in Procs, CommandFails(p)
      PROVE  Deducted' /\ ConsumedOnce' /\ DoneMeansDeducted'
  <2>1. pc' = [pc EXCEPT ![p] = pc'[p]] /\ pc'[p] # "markDone"
    BY <1>27 DEF CommandFails, OnError, TypeOK
  <2>2. job' = [job EXCEPT ![p] = job'[p]] /\ UNCHANGED dbVars /\ key' = key
    BY <1>27 DEF CommandFails, TypeOK
  <2> QED
    BY <2>1, <2>2, StockFrame
<1>28. ASSUME NEW p \in Procs, Crash(p)
      PROVE  Deducted' /\ ConsumedOnce' /\ DoneMeansDeducted'
  BY <1>28 DEF Crash, Deducted, ConsumedOnce, DoneMeansDeducted, AboutPaid, TypeOK
<1>29. ASSUME NEW j \in waiting, BackoffElapses(j)
      PROVE  Deducted' /\ ConsumedOnce' /\ DoneMeansDeducted'
  BY <1>29 DEF BackoffElapses, Deducted, ConsumedOnce, DoneMeansDeducted, AboutPaid, TypeOK
<1> QED
  BY <1>1, <1>2, <1>3, <1>4, <1>5, <1>6, <1>7, <1>8, <1>9, <1>10, <1>11, <1>12, <1>13, <1>14, <1>15, <1>16, <1>17, <1>18, <1>19, <1>20, <1>21, <1>22, <1>23, <1>24, <1>25, <1>26, <1>27, <1>28, <1>29 DEF Next, Run

(* Every failed order is on the dead-letter list.                           *)
LEMMA DeadStep ==
  TypeOK /\ JobHeld /\ FailedIsDeadLettered /\ [Next]_vars => FailedIsDeadLettered'
<1> SUFFICES ASSUME TypeOK, JobHeld, FailedIsDeadLettered, [Next]_vars
             PROVE  FailedIsDeadLettered'
  OBVIOUS
<1> USE NoJobAssumption, NoProcAssumption
<1> USE DEF vars, dbVars, redisVars, procVars, Begin
<1>1. CASE UNCHANGED vars
  BY <1>1 DEF FailedIsDeadLettered
<1>2. ASSUME NEW o \in Orders, Settle(o)
      PROVE  FailedIsDeadLettered'
  BY <1>2 DEF Settle, FailedIsDeadLettered, TypeOK
<1>3. ASSUME NEW o \in Orders, SettleReplay(o)
      PROVE  FailedIsDeadLettered'
  BY <1>3 DEF SettleReplay, FailedIsDeadLettered, TypeOK
<1>4. ASSUME NEW o \in Orders, LoseCall(o)
      PROVE  FailedIsDeadLettered'
  BY <1>4 DEF LoseCall, FailedIsDeadLettered, TypeOK
<1>5. ASSUME NEW o \in Orders, Enqueue(o)
      PROVE  FailedIsDeadLettered'
  BY <1>5 DEF Enqueue, FailedIsDeadLettered, TypeOK
<1>6. ASSUME NEW o \in Orders, ExpireAbandonedLock(o)
      PROVE  FailedIsDeadLettered'
  BY <1>6 DEF ExpireAbandonedLock, FailedIsDeadLettered, TypeOK
<1>7. ASSUME NEW o \in Orders, ExpireHeldLock(o)
      PROVE  FailedIsDeadLettered'
  BY <1>7 DEF ExpireHeldLock, FailedIsDeadLettered, TypeOK
<1>8. ASSUME NEW o \in Orders, ExpireKey(o)
      PROVE  FailedIsDeadLettered'
  BY <1>8 DEF ExpireKey, FailedIsDeadLettered, TypeOK
<1>9. CASE ScanPending
  BY <1>9 DEF ScanPending, FailedIsDeadLettered, TypeOK
<1>10. ASSUME NEW p \in Procs, StartDrain(p)
      PROVE  FailedIsDeadLettered'
  BY <1>10 DEF StartDrain, FailedIsDeadLettered, TypeOK
<1>11. ASSUME NEW p \in Procs, Recover(p)
      PROVE  FailedIsDeadLettered'
  BY <1>11 DEF Recover, FailedIsDeadLettered, TypeOK
<1>12. ASSUME NEW p \in Procs, Claim(p)
      PROVE  FailedIsDeadLettered'
  BY <1>12 DEF Claim, FailedIsDeadLettered, TypeOK
<1>13. ASSUME NEW p \in Procs, ReadStatus(p)
      PROVE  FailedIsDeadLettered'
  BY <1>13 DEF ReadStatus, FailedIsDeadLettered, TypeOK
<1>14. ASSUME NEW p \in Procs, Skip(p)
      PROVE  FailedIsDeadLettered'
  BY <1>14 DEF Skip, FailedIsDeadLettered, TypeOK
<1>15. ASSUME NEW p \in Procs, TakeLock(p)
      PROVE  FailedIsDeadLettered'
  BY <1>15 DEF TakeLock, FailedIsDeadLettered, TypeOK
<1>16. ASSUME NEW p \in Procs, RequeuePush(p)
      PROVE  FailedIsDeadLettered'
  BY <1>16 DEF RequeuePush, FailedIsDeadLettered, TypeOK
<1>17. ASSUME NEW p \in Procs, RequeueAck(p)
      PROVE  FailedIsDeadLettered'
  BY <1>17 DEF RequeueAck, FailedIsDeadLettered, TypeOK
<1>18. ASSUME NEW p \in Procs, Deduct(p)
      PROVE  FailedIsDeadLettered'
  BY <1>18 DEF Deduct, FailedIsDeadLettered, TypeOK
<1>19. ASSUME NEW p \in Procs, HandlerFails(p)
      PROVE  FailedIsDeadLettered'
  BY <1>19 DEF HandlerFails, FailedIsDeadLettered, TypeOK
<1>20. ASSUME NEW p \in Procs, MarkDone(p)
      PROVE  FailedIsDeadLettered'
  BY <1>20 DEF MarkDone, FailedIsDeadLettered, TypeOK
<1>21. ASSUME NEW p \in Procs, Ack(p)
      PROVE  FailedIsDeadLettered'
  BY <1>21 DEF Ack, FailedIsDeadLettered, TypeOK
<1>22. ASSUME NEW p \in Procs, DeadLetter(p)
      PROVE  FailedIsDeadLettered'
  <2> DEFINE final == [job[p] EXCEPT !.attempts = @ + 1]
  <2>1. job[p] \in Job
    BY <1>22 DEF DeadLetter, JobHeld, JoblessSteps, TypeOK
  <2>2. final \in Job /\ final.order = job[p].order /\ final.attempts >= MaxAttempts
    BY <1>22, <2>1 DEF DeadLetter, Exhausted, Job
  <2> HIDE DEF final
  <2>3. Entries(dead') = Entries(dead) \cup {final}
    <3>1. dead \in Seq(Job) /\ dead' = Append(dead, final)
      BY <1>22 DEF DeadLetter, TypeOK, final
    <3> QED
      BY <2>2, <3>1, AppendEntries
  <2>4. key' = [key EXCEPT ![final.order] = "failed"]
    BY <1>22, <2>2 DEF DeadLetter
  <2> QED
    BY <2>2, <2>3, <2>4 DEF FailedIsDeadLettered, TypeOK
<1>23. ASSUME NEW p \in Procs, AuditFailure(p)
      PROVE  FailedIsDeadLettered'
  BY <1>23 DEF AuditFailure, FailedIsDeadLettered, TypeOK
<1>24. ASSUME NEW p \in Procs, RetryPush(p)
      PROVE  FailedIsDeadLettered'
  BY <1>24 DEF RetryPush, FailedIsDeadLettered, TypeOK
<1>25. ASSUME NEW p \in Procs, RetryAck(p)
      PROVE  FailedIsDeadLettered'
  BY <1>25 DEF RetryAck, FailedIsDeadLettered, TypeOK
<1>26. ASSUME NEW p \in Procs, Release(p)
      PROVE  FailedIsDeadLettered'
  BY <1>26 DEF Release, FailedIsDeadLettered, TypeOK
<1>27. ASSUME NEW p \in Procs, CommandFails(p)
      PROVE  FailedIsDeadLettered'
  BY <1>27 DEF CommandFails, FailedIsDeadLettered, TypeOK
<1>28. ASSUME NEW p \in Procs, Crash(p)
      PROVE  FailedIsDeadLettered'
  BY <1>28 DEF Crash, FailedIsDeadLettered, TypeOK
<1>29. ASSUME NEW j \in waiting, BackoffElapses(j)
      PROVE  FailedIsDeadLettered'
  BY <1>29 DEF BackoffElapses, FailedIsDeadLettered, TypeOK
<1> QED
  BY <1>1, <1>2, <1>3, <1>4, <1>5, <1>6, <1>7, <1>8, <1>9, <1>10, <1>11, <1>12, <1>13, <1>14, <1>15, <1>16, <1>17, <1>18, <1>19, <1>20, <1>21, <1>22, <1>23, <1>24, <1>25, <1>26, <1>27, <1>28, <1>29 DEF Next, Run

-----------------------------------------------------------------------------
(* A queued order stays in the queue                                       *)

(* Entries of the request that an order's key stands for.                  *)
Current(o) == {entry \in Job : entry.order = o /\ entry.req = req[o]}

Copies(o) ==
  Cardinality(Places(ready, Current(o))) + Cardinality(Places(processing, Current(o)))

(* Processes that have put an entry back and will remove a copy of it.     *)
Removing(o) == {p \in Procs : pc[p] \in {"requeueAck", "retryAck"} /\ job[p] \in Current(o)}

Kept(o) ==
  /\ IsFiniteSet(Removing(o))
  /\ key[o] = "queued" => Copies(o) >= 1 + Cardinality(Removing(o))

QueueKept == \A o \in Orders : Kept(o)

(* Who drops an entry has seen that its request is finished.               *)
Dropped(p) ==
  pc[p] \in {"skip", "ack"} /\ key[job[p].order] = "queued" => job[p].req < req[job[p].order]

Requested ==
  /\ \A entry \in Entries(ready) \cup Entries(processing) : entry.req <= req[entry.order]
  /\ \A p \in Procs : job[p] # NoJob => job[p].req <= req[job[p].order] /\ Dropped(p)

LEMMA CopiesTyped ==
  ASSUME TypeOK, NEW o
  PROVE  /\ Cardinality(Places(ready, Current(o))) \in Nat
         /\ Cardinality(Places(processing, Current(o))) \in Nat /\ Copies(o) \in Nat
<1>1. ready \in Seq(Job) /\ processing \in Seq(Job)
  BY DEF TypeOK
<1>2. /\ Cardinality(Places(ready, Current(o))) \in Nat
      /\ Cardinality(Places(processing, Current(o))) \in Nat
  BY <1>1, PlacesFinite
<1> QED
  BY <1>2 DEF Copies

LEMMA CopiesTypedNext ==
  ASSUME TypeOK', NEW o
  PROVE  Copies(o)' \in Nat
<1>1. ready' \in Seq(Job) /\ processing' \in Seq(Job)
  BY DEF TypeOK
<1>2. /\ Cardinality(Places(ready', Current(o)')) \in Nat
      /\ Cardinality(Places(processing', Current(o)')) \in Nat
  BY <1>1, PlacesFinite
<1> QED
  BY <1>2 DEF Copies

(* What a step of p does to the copies pays for what p removes later.      *)
LEMMA KeptBy ==
  ASSUME TypeOK, TypeOK', NEW o \in Orders, Kept(o), NEW p \in Procs, req' = req,
         \A q \in Procs \ {p} : pc'[q] = pc[q] /\ job'[q] = job[q],
         key'[o] = "queued" =>
           /\ key[o] = "queued"
           /\ \/ Copies(o)' >= Copies(o) /\ (p \in Removing(o)' => p \in Removing(o))
              \/ Copies(o)' >= Copies(o) + 1
              \/ Copies(o)' + 1 >= Copies(o) /\ p \in Removing(o) /\ p \notin Removing(o)'
  PROVE  Kept(o)'
<1> PICK R : R = Removing(o)
  OBVIOUS
<1> PICK R2 : R2 = Removing(o)'
  OBVIOUS
<1> PICK n : n = Copies(o)
  OBVIOUS
<1> PICK n2 : n2 = Copies(o)'
  OBVIOUS
<1>1. n \in Nat /\ n2 \in Nat
  BY CopiesTyped, CopiesTypedNext
<1>2. IsFiniteSet(R) /\ Cardinality(R) \in Nat
  BY FS_CardinalityType DEF Kept
<1>3. R2 \subseteq R \cup {p}
  BY DEF Removing, Current
<1>4. /\ IsFiniteSet(R \cup {p})
      /\ Cardinality(R \cup {p}) = Cardinality(R) \/ Cardinality(R \cup {p}) = Cardinality(R) + 1
  BY <1>2, FS_AddElement
<1>5. /\ IsFiniteSet(R2) /\ Cardinality(R2) \in Nat
      /\ Cardinality(R2) <= Cardinality(R) + 1
  <2>1. IsFiniteSet(R2) /\ Cardinality(R2) <= Cardinality(R \cup {p})
    BY <1>3, <1>4, FS_Subset
  <2>2. Cardinality(R2) \in Nat
    BY <2>1, FS_CardinalityType
  <2> QED
    BY <1>2, <1>4, <2>1, <2>2
<1>6. ASSUME key'[o] = "queued"
      PROVE  n2 >= 1 + Cardinality(R2)
  <2>1. n >= 1 + Cardinality(R)
    BY <1>6 DEF Kept
  <2>2. CASE n2 >= n /\ (p \in R2 => p \in R)
    <3>1. R2 \subseteq R
      BY <1>3, <2>2
    <3>2. Cardinality(R2) <= Cardinality(R)
      BY <1>2, <3>1, FS_Subset
    <3> QED
      BY <1>1, <1>2, <1>5, <2>1, <2>2, <3>2
  <2>3. CASE n2 >= n + 1
    BY <1>1, <1>2, <1>5, <2>1, <2>3
  <2>4. CASE n2 + 1 >= n /\ p \in R /\ p \notin R2
    <3>1. R2 \subseteq R \ {p}
      BY <1>3, <2>4
    <3>2. IsFiniteSet(R \ {p}) /\ Cardinality(R \ {p}) = Cardinality(R) - 1
      BY <1>2, <2>4, FS_RemoveElement
    <3>3. Cardinality(R2) <= Cardinality(R \ {p})
      BY <3>1, <3>2, FS_Subset
    <3> QED
      BY <1>1, <1>2, <1>5, <2>1, <2>4, <3>2, <3>3
  <2> QED
    BY <1>6, <2>2, <2>3, <2>4
<1> QED
  BY <1>5, <1>6 DEF Kept

(* Steps that touch neither list nor the positions of the processes.       *)
LEMMA KeptStill ==
  ASSUME NEW o \in Orders, Kept(o), UNCHANGED <<ready, processing, req, pc, job>>,
         key'[o] = "queued" => key[o] = "queued"
  PROVE  Kept(o)'
BY DEF Kept, Copies, Removing, Current

(* Steps of a process that touch no list and put nothing back.             *)
LEMMA KeptQuiet ==
  ASSUME TypeOK, TypeOK', NEW o \in Orders, Kept(o), NEW p \in Procs,
         UNCHANGED <<ready, processing, req>>,
         \A q \in Procs \ {p} : pc'[q] = pc[q] /\ job'[q] = job[q],
         pc'[p] \notin {"requeueAck", "retryAck"},
         key'[o] = "queued" => key[o] = "queued"
  PROVE  Kept(o)'
<1>1. Copies(o)' = Copies(o) /\ p \notin Removing(o)'
  BY DEF Copies, Current, Removing
<1>2. Copies(o) \in Nat
  BY CopiesTyped
<1>3. Copies(o)' >= Copies(o)
  BY <1>1, <1>2
<1> QED
  BY <1>1, <1>3, KeptBy

(* Recover and Claim move an entry from one list to the other.             *)
LEMMA MoveCopies ==
  ASSUME NEW s \in Seq(Job), s # <<>>, NEW t \in Seq(Job), NEW M
  PROVE  Cardinality(Places(s, M)) + Cardinality(Places(t, M))
           <= Cardinality(Places(Tail(s), M)) + Cardinality(Places(Append(t, Head(s)), M))
<1> PICK e : e = Head(s)
  OBVIOUS
<1> PICK r : r = Tail(s)
  OBVIOUS
<1> PICK u : u = Append(t, e)
  OBVIOUS
<1>1. e \in Job /\ r \in Seq(Job) /\ u \in Seq(Job)
  BY HeadTailEntries, AppendEntries
<1>2. /\ Cardinality(Places(s, M)) \in Nat /\ Cardinality(Places(t, M)) \in Nat
      /\ Cardinality(Places(r, M)) \in Nat /\ Cardinality(Places(u, M)) \in Nat
  BY <1>1, PlacesFinite
<1>3. /\ Cardinality(Places(s, M)) <= Cardinality(Places(r, M)) + 1
      /\ e \notin M => Cardinality(Places(s, M)) <= Cardinality(Places(r, M))
  BY TailPlaces
<1>4. /\ Cardinality(Places(t, M)) <= Cardinality(Places(u, M))
      /\ e \in M => Cardinality(Places(t, M)) + 1 <= Cardinality(Places(u, M))
  BY <1>1, AppendPlaces
<1>5. CASE e \in M
  BY <1>2, <1>3, <1>4, <1>5
<1>6. CASE e \notin M
  BY <1>2, <1>3, <1>4, <1>6
<1> QED
  BY <1>5, <1>6

(* Putting an entry of the request back makes one copy more; taking one    *)
(* entry out makes at most one less, and only if it is of the request.     *)
LEMMA PushCopies ==
  ASSUME TypeOK, NEW o, NEW e \in Job, ready' = Append(ready, e), UNCHANGED <<processing, req>>
  PROVE  Copies(o)' >= Copies(o) /\ (e \in Current(o) => Copies(o)' >= Copies(o) + 1)
<1> PICK M : M = Current(o)
  OBVIOUS
<1>1. Current(o)' = M /\ ready \in Seq(Job)
  BY DEF Current, TypeOK
<1>2. /\ Cardinality(Places(ready, M)) <= Cardinality(Places(ready', M))
      /\ e \in M => Cardinality(Places(ready, M)) + 1 <= Cardinality(Places(ready', M))
  BY <1>1, AppendPlaces
<1>3. Cardinality(Places(ready', M)) \in Nat
  BY <1>1, AppendEntries, PlacesFinite
<1>4. Cardinality(Places(ready, M)) \in Nat /\ Cardinality(Places(processing, M)) \in Nat
  BY CopiesTyped
<1>5. /\ Copies(o) = Cardinality(Places(ready, M)) + Cardinality(Places(processing, M))
      /\ Copies(o)' = Cardinality(Places(ready', M)) + Cardinality(Places(processing, M))
  BY <1>1 DEF Copies
<1> QED
  BY <1>2, <1>3, <1>4, <1>5

LEMMA DropCopies ==
  ASSUME TypeOK, NEW o, NEW e, processing' = LRem(processing, e), UNCHANGED <<ready, req>>
  PROVE  Copies(o)' + 1 >= Copies(o) /\ (e \notin Current(o) => Copies(o)' >= Copies(o))
<1> PICK M : M = Current(o)
  OBVIOUS
<1>1. Current(o)' = M /\ processing \in Seq(Job)
  BY DEF Current, TypeOK
<1>2. /\ Cardinality(Places(processing, M)) <= Cardinality(Places(processing', M)) + 1
      /\ e \notin M => Cardinality(Places(processing, M)) <= Cardinality(Places(processing', M))
  BY <1>1, LRemPlaces
<1>3. Cardinality(Places(processing', M)) \in Nat
  BY <1>1, LRemProperties, PlacesFinite
<1>4. Cardinality(Places(ready, M)) \in Nat /\ Cardinality(Places(processing, M)) \in Nat
  BY CopiesTyped
<1>5. /\ Copies(o) = Cardinality(Places(ready, M)) + Cardinality(Places(processing, M))
      /\ Copies(o)' = Cardinality(Places(ready, M)) + Cardinality(Places(processing', M))
  BY <1>1 DEF Copies
<1> QED
  BY <1>2, <1>3, <1>4, <1>5

LEMMA QueueStep ==
  TypeOK /\ TypeOK' /\ JobHeld /\ Requested /\ QueueKept /\ [Next]_vars => QueueKept'
<1> SUFFICES ASSUME TypeOK, TypeOK', JobHeld, Requested, QueueKept, [Next]_vars, NEW x \in Orders
             PROVE  Kept(x)'
  BY DEF QueueKept
<1> USE NoJobAssumption
<1> USE DEF vars, dbVars, redisVars, procVars, Begin
<1>0. Kept(x)
  BY DEF QueueKept
<1>1. CASE UNCHANGED vars
  BY <1>0, <1>1, KeptStill
<1>2. ASSUME NEW o \in Orders, Settle(o) \/ SettleReplay(o) \/ LoseCall(o)
      PROVE  Kept(x)'
  <2>1. UNCHANGED <<ready, processing, req, pc, job, key>>
    BY <1>2 DEF Settle, SettleReplay, LoseCall
  <2> QED
    BY <1>0, <2>1, KeptStill
<1>3. ASSUME NEW o \in Orders, Enqueue(o)
      PROVE  Kept(x)'
  <2> PICK new : new = [order |-> o, req |-> req[o] + 1, attempts |-> 0, notBefore |-> 0]
    OBVIOUS
  <2>1. CASE UNCHANGED <<key, req, ready>>
    <3>1. UNCHANGED <<ready, processing, req, pc, job, key>>
      BY <1>3, <2>1 DEF Enqueue
    <3> QED
      BY <1>0, <3>1, KeptStill
  <2>2. CASE /\ key[o] = "none"
             /\ key' = [key EXCEPT ![o] = "queued"]
             /\ req' = [req EXCEPT ![o] = @ + 1]
             /\ ready' = Append(ready, new)
    <3>1. /\ new \in Job /\ new.order = o /\ new.req = req[o] + 1 /\ req[o] \in Nat
          /\ ready \in Seq(Job) /\ processing \in Seq(Job)
          /\ UNCHANGED <<processing, pc, job>>
      BY <1>3 DEF TypeOK, Job, Enqueue
    <3>2. CASE x = o
      <4> PICK M : M = Current(o)'
        OBVIOUS
      <4>1. req'[o] = req[o] + 1
        BY <2>2 DEF TypeOK
      <4>2. new \in M
        BY <3>1, <4>1 DEF Current
      <4>3. Cardinality(Places(ready', M)) >= 1
        <5>1. Cardinality(Places(ready, M)) \in Nat
          BY <3>1, PlacesFinite
        <5>2. Cardinality(Places(ready, M)) + 1 <= Cardinality(Places(ready', M))
          BY <2>2, <3>1, <4>2, AppendPlaces
        <5>3. ready' \in Seq(Job)
          BY DEF TypeOK
        <5>4. Cardinality(Places(ready', M)) \in Nat
          BY <5>3, PlacesFinite
        <5> QED
          BY <5>1, <5>2, <5>4
      <4>4. Cardinality(Places(processing', M)) \in Nat
        BY <3>1, PlacesFinite
      <4>5. Copies(o)' = Cardinality(Places(ready', M)) + Cardinality(Places(processing', M))
        BY DEF Copies
      <4>6. ASSUME NEW p \in Removing(o)' PROVE FALSE
        <5>1. p \in Procs /\ job[p] \in Job /\ job[p].order = o /\ job[p].req = req[o] + 1
          BY <3>1, <4>1, <4>6 DEF Removing, Current
        <5>2. job[p].req <= req[o]
          BY <5>1 DEF Requested
        <5> QED
          BY <3>1, <5>1, <5>2
      <4>7. IsFiniteSet(Removing(o)') /\ Cardinality(Removing(o)') = 0
        BY <4>6, FS_EmptySet
      <4>8. Copies(o)' \in Nat /\ Copies(o)' >= 1
        <5>1. Copies(o)' \in Nat /\ Cardinality(Places(ready', M)) \in Nat
          BY CopiesTypedNext, PlacesFinite DEF TypeOK
        <5> QED
          BY <4>3, <4>4, <4>5, <5>1
      <4> QED
        BY <3>2, <4>7, <4>8 DEF Kept
    <3>3. CASE x # o
      <4>1. Current(x)' = Current(x) /\ new \notin Current(x) /\ key'[x] = key[x]
        BY <2>2, <3>1, <3>3 DEF Current, TypeOK
      <4> PICK M : M = Current(x)
        OBVIOUS
      <4>2. /\ Cardinality(Places(ready, M)) \in Nat /\ Cardinality(Places(processing, M)) \in Nat
            /\ Cardinality(Places(ready, M)) <= Cardinality(Places(ready', M))
        BY <2>2, <3>1, CopiesTyped, AppendPlaces
      <4>3. ready' \in Seq(Job)
        BY DEF TypeOK
      <4>4. Cardinality(Places(ready', M)) \in Nat
        BY <4>3, PlacesFinite
      <4>5. Copies(x) = Cardinality(Places(ready, M)) + Cardinality(Places(processing, M))
            /\ Copies(x)' = Cardinality(Places(ready', M)) + Cardinality(Places(processing, M))
        BY <3>1, <4>1 DEF Copies
      <4>6. Removing(x)' = Removing(x)
        BY <3>1, <4>1 DEF Removing
      <4>7. IsFiniteSet(Removing(x)) /\ Cardinality(Removing(x)) \in Nat
        BY <1>0, FS_CardinalityType DEF Kept
      <4>8. Copies(x) \in Nat /\ Copies(x)' \in Nat /\ Copies(x)' >= Copies(x)
        BY <4>2, <4>4, <4>5
      <4> QED
        BY <1>0, <4>1, <4>6, <4>7, <4>8 DEF Kept
    <3> QED
      BY <3>2, <3>3
  <2> QED
    BY <1>3, <2>1, <2>2 DEF Enqueue
<1>4. ASSUME NEW o \in Orders, ExpireAbandonedLock(o) \/ ExpireHeldLock(o) \/ ExpireKey(o)
      PROVE  Kept(x)'
  <2>1. UNCHANGED <<ready, processing, req, pc, job>> /\ (key'[x] = "queued" => key[x] = "queued")
    BY <1>4 DEF ExpireAbandonedLock, ExpireHeldLock, ExpireKey, TypeOK
  <2> QED
    BY <1>0, <2>1, KeptStill
<1>5. CASE ScanPending
  BY <1>0, <1>5, KeptStill DEF ScanPending
<1>6. ASSUME NEW j \in waiting, BackoffElapses(j)
      PROVE  Kept(x)'
  BY <1>0, <1>6, KeptStill DEF BackoffElapses
<1>7. ASSUME NEW p \in Procs, Recover(p) \/ Claim(p)
      PROVE  Kept(x)'
  <2>1. /\ \A q \in Procs \ {p} : pc'[q] = pc[q] /\ job'[q] = job[q]
        /\ pc'[p] \in {"idle", "claim", "recover", "status"}
        /\ UNCHANGED <<key, req>>
    BY <1>7 DEF Recover, Claim, Proceed, OnError, TrySteps, CatchSteps, TypeOK
  <2>2. Copies(x)' >= Copies(x)
    <3> PICK M : M = Current(x)
      OBVIOUS
    <3>1. Current(x)' = M /\ ready \in Seq(Job) /\ processing \in Seq(Job)
      BY <2>1 DEF Current, TypeOK
    <3>2. /\ Copies(x) = Cardinality(Places(ready, M)) + Cardinality(Places(processing, M))
          /\ Copies(x)' = Cardinality(Places(ready', M)) + Cardinality(Places(processing', M))
          /\ Copies(x) \in Nat /\ Copies(x)' \in Nat
      BY <3>1, CopiesTyped, CopiesTypedNext DEF Copies
    <3>3. /\ Cardinality(Places(ready, M)) \in Nat /\ Cardinality(Places(processing, M)) \in Nat
      BY CopiesTyped
    <3>4. CASE UNCHANGED <<ready, processing>>
      BY <3>2, <3>4
    <3>5. CASE processing # <<>> /\ ready' = Append(ready, Head(processing)) /\ processing' = Tail(processing)
      <4>1. Cardinality(Places(processing, M)) + Cardinality(Places(ready, M))
              <= Cardinality(Places(Tail(processing), M)) + Cardinality(Places(Append(ready, Head(processing)), M))
        BY <3>1, <3>5, MoveCopies
      <4>2. Cardinality(Places(ready', M)) \in Nat /\ Cardinality(Places(processing', M)) \in Nat
        BY PlacesFinite DEF TypeOK
      <4> QED
        BY <3>2, <3>3, <3>5, <4>1, <4>2
    <3>6. CASE ready # <<>> /\ processing' = Append(processing, Head(ready)) /\ ready' = Tail(ready)
      <4>1. Cardinality(Places(ready, M)) + Cardinality(Places(processing, M))
              <= Cardinality(Places(Tail(ready), M)) + Cardinality(Places(Append(processing, Head(ready)), M))
        BY <3>1, <3>6, MoveCopies
      <4>2. Cardinality(Places(ready', M)) \in Nat /\ Cardinality(Places(processing', M)) \in Nat
        BY PlacesFinite DEF TypeOK
      <4> QED
        BY <3>2, <3>3, <3>6, <4>1, <4>2
    <3> QED
      BY <1>7, <3>4, <3>5, <3>6 DEF Recover, Claim
  <2>3. p \notin Removing(x)'
    BY <2>1 DEF Removing
  <2> QED
    BY <1>0, <2>1, <2>2, <2>3, KeptBy
<1>8. ASSUME NEW p \in Procs,
             \/ StartDrain(p) \/ ReadStatus(p) \/ TakeLock(p) \/ Deduct(p) \/ HandlerFails(p)
             \/ MarkDone(p) \/ AuditFailure(p) \/ Release(p) \/ CommandFails(p) \/ Crash(p)
      PROVE  Kept(x)'
  <2>1. UNCHANGED <<ready, processing, req>> /\ (key'[x] = "queued" => key[x] = "queued")
    BY <1>8 DEF StartDrain, ReadStatus, TakeLock, Deduct, HandlerFails, MarkDone, AuditFailure,
                Release, CommandFails, Crash, TypeOK
  <2>2. \A q \in Procs \ {p} : pc'[q] = pc[q] /\ job'[q] = job[q]
    BY <1>8 DEF StartDrain, ReadStatus, TakeLock, Deduct, HandlerFails, MarkDone, AuditFailure,
                Release, CommandFails, Crash, Proceed, EndTurn, TypeOK
  <2>3. pc'[p] \notin {"requeueAck", "retryAck"}
    BY <1>8 DEF StartDrain, ReadStatus, TakeLock, Deduct, HandlerFails, MarkDone, AuditFailure,
                Release, CommandFails, Crash, Proceed, OnError, NextTurn, TrySteps, CatchSteps, TypeOK
  <2> QED
    BY <1>0, <2>1, <2>2, <2>3, KeptQuiet
<1>9. ASSUME NEW p \in Procs, Skip(p) \/ Ack(p)
      PROVE  Kept(x)'
  <2>1. /\ \A q \in Procs \ {p} : pc'[q] = pc[q] /\ job'[q] = job[q]
        /\ pc[p] \in {"skip", "ack"} /\ pc'[p] \notin {"requeueAck", "retryAck"}
        /\ UNCHANGED <<key, req, ready>> /\ processing' = LRem(processing, job[p])
    BY <1>9 DEF Skip, Ack, EndTurn, Proceed, OnError, NextTurn, TrySteps, CatchSteps, TypeOK
  <2>2. job[p] \in Job
    BY <2>1 DEF JobHeld, JoblessSteps, TypeOK
  <2>3. key[x] = "queued" => job[p] \notin Current(x)
    <3> SUFFICES ASSUME key[x] = "queued", job[p] \in Current(x) PROVE FALSE
      OBVIOUS
    <3>1. job[p].order = x /\ job[p].req = req[x] /\ req[x] \in Nat
      BY DEF Current, TypeOK
    <3>2. job[p].req < req[x]
      BY <2>1, <2>2, <3>1 DEF Requested, Dropped
    <3> QED
      BY <3>1, <3>2
  <2>4. key[x] = "queued" => Copies(x)' >= Copies(x)
    BY <2>1, <2>3, DropCopies
  <2>5. p \notin Removing(x)'
    BY <2>1 DEF Removing
  <2> QED
    BY <1>0, <2>1, <2>4, <2>5, KeptBy
<1>10. ASSUME NEW p \in Procs, RequeuePush(p)
       PROVE  Kept(x)'
  <2>1. /\ \A q \in Procs \ {p} : pc'[q] = pc[q] /\ job'[q] = job[q]
        /\ pc[p] = "requeue" /\ (pc'[p] = "requeueAck" => job'[p] = job[p])
        /\ pc'[p] \in {"idle", "requeueAck"}
        /\ UNCHANGED <<key, req, processing>> /\ ready' = Append(ready, job[p])
    BY <1>10 DEF RequeuePush, Proceed, OnError, TrySteps, CatchSteps, TypeOK
  <2>2. job[p] \in Job
    BY <2>1 DEF JobHeld, JoblessSteps, TypeOK
  <2>3. Copies(x)' >= Copies(x) /\ (job[p] \in Current(x) => Copies(x)' >= Copies(x) + 1)
    BY <2>1, <2>2, PushCopies
  <2>4. p \in Removing(x)' => job[p] \in Current(x)
    BY <2>1 DEF Removing, Current
  <2> QED
    BY <1>0, <2>1, <2>3, <2>4, KeptBy
<1>11. ASSUME NEW p \in Procs, RetryPush(p)
       PROVE  Kept(x)'
  <2>1. /\ \A q \in Procs \ {p} : pc'[q] = pc[q]
        /\ pc[p] = "caught" /\ UNCHANGED <<key, req, processing, job>>
    BY <1>11 DEF RetryPush, Proceed, TypeOK
  <2>2. job[p] \in Job
    BY <2>1 DEF JobHeld, JoblessSteps, TypeOK
  <2>3. PICK t \in Times : ready' = Append(ready, [job[p] EXCEPT !.attempts = @ + 1, !.notBefore = t])
    BY <1>11 DEF RetryPush
  <2> DEFINE retry == [[job[p] EXCEPT !.attempts = @ + 1] EXCEPT !.notBefore = t]
  <2>4. retry \in Job /\ retry.order = job[p].order /\ retry.req = job[p].req
    <3>1. t \in Nat
      BY TimesAssumption
    <3>2. [job[p] EXCEPT !.attempts = @ + 1] \in Job
      BY <2>2 DEF Job
    <3> QED
      BY <2>2, <3>1, <3>2 DEF Job
  <2>5. ready' = Append(ready, retry)
    BY <2>3
  <2> HIDE DEF retry
  <2>6. Copies(x)' >= Copies(x) /\ (retry \in Current(x) => Copies(x)' >= Copies(x) + 1)
    BY <2>1, <2>4, <2>5, PushCopies
  <2>7. p \in Removing(x)' => retry \in Current(x)
    BY <2>1, <2>4 DEF Removing, Current
  <2> QED
    BY <1>0, <2>1, <2>6, <2>7, KeptBy
<1>12. ASSUME NEW p \in Procs, RequeueAck(p) \/ RetryAck(p)
       PROVE  Kept(x)'
  <2>1. /\ \A q \in Procs \ {p} : pc'[q] = pc[q] /\ job'[q] = job[q]
        /\ pc[p] \in {"requeueAck", "retryAck"} /\ pc'[p] \notin {"requeueAck", "retryAck"}
        /\ UNCHANGED <<key, req, ready>> /\ processing' = LRem(processing, job[p])
    BY <1>12 DEF RequeueAck, RetryAck, EndTurn, Proceed, OnError, TrySteps, CatchSteps, TypeOK
  <2>2. Copies(x)' + 1 >= Copies(x) /\ (job[p] \notin Current(x) => Copies(x)' >= Copies(x))
    BY <2>1, DropCopies
  <2>3. p \notin Removing(x)' /\ (job[p] \in Current(x) => p \in Removing(x))
    BY <2>1 DEF Removing
  <2> QED
    BY <1>0, <2>1, <2>2, <2>3, KeptBy
<1>13. ASSUME NEW p \in Procs, DeadLetter(p)
       PROVE  Kept(x)'
  <2>1. /\ \A q \in Procs \ {p} : pc'[q] = pc[q] /\ job'[q] = job[q]
        /\ pc[p] = "caught" /\ pc'[p] \notin {"requeueAck", "retryAck"}
        /\ UNCHANGED <<req, ready>> /\ processing' = LRem(processing, job[p])
        /\ key' = [key EXCEPT ![job[p].order] = "failed"]
    BY <1>13 DEF DeadLetter, Proceed, OnError, TrySteps, CatchSteps, TypeOK
  <2>2. key'[x] = "queued" => key[x] = "queued" /\ job[p] \notin Current(x)
    BY <2>1 DEF Current, TypeOK
  <2>3. job[p] \notin Current(x) => Copies(x)' >= Copies(x)
    BY <2>1, DropCopies
  <2>4. p \notin Removing(x)'
    BY <2>1 DEF Removing
  <2> QED
    BY <1>0, <2>1, <2>2, <2>3, <2>4, KeptBy
<1> QED
  BY <1>1, <1>2, <1>3, <1>4, <1>5, <1>6, <1>7, <1>8, <1>9, <1>10, <1>11, <1>12, <1>13 DEF Next, Run

(* A step of p that brings in no request: what p holds after it is an old  *)
(* request, and p is not about to drop the one that is current.            *)
LEMMA RequestedBy ==
  ASSUME TypeOK, Requested, NEW p \in Procs, req' = req,
         \A q \in Procs \ {p} : pc'[q] = pc[q] /\ job'[q] = job[q],
         \A o \in Orders : key'[o] = "queued" => key[o] = "queued",
         \A entry \in Entries(ready') \cup Entries(processing') : entry.req <= req[entry.order],
         job'[p] # NoJob => job'[p].req <= req[job'[p].order] /\ Dropped(p)'
  PROVE  Requested'
<1>1. ASSUME NEW q \in Procs, q # p, job'[q] # NoJob
      PROVE  job'[q].req <= req[job'[q].order] /\ Dropped(q)'
  <2>1. pc'[q] = pc[q] /\ job'[q] = job[q]
    BY <1>1
  <2>2. job[q].req <= req[job[q].order] /\ Dropped(q) /\ job[q].order \in Orders
    BY <1>1, <2>1 DEF Requested, TypeOK, Job
  <2> QED
    BY <2>1, <2>2 DEF Dropped
<1> QED
  BY <1>1 DEF Requested

LEMMA RequestedStep ==
  TypeOK /\ JobHeld /\ Requested /\ [Next]_vars => Requested'
<1> SUFFICES ASSUME TypeOK, JobHeld, Requested, [Next]_vars
             PROVE  Requested'
  OBVIOUS
<1> USE NoJobAssumption
<1> USE DEF vars, dbVars, redisVars, procVars, Begin
<1>0. /\ ready \in Seq(Job) /\ processing \in Seq(Job) /\ dead \in Seq(Job)
      /\ \A entry \in Entries(ready) \cup Entries(processing) : entry.req <= req[entry.order]
  BY DEF Requested, TypeOK
<1>1. CASE UNCHANGED vars
  BY <1>1 DEF Requested, Dropped
<1>2. ASSUME NEW o \in Orders, Settle(o) \/ SettleReplay(o) \/ LoseCall(o)
      PROVE  Requested'
  BY <1>2 DEF Settle, SettleReplay, LoseCall, Requested, Dropped
<1>3. ASSUME NEW o \in Orders, Enqueue(o)
      PROVE  Requested'
  <2> PICK new : new = [order |-> o, req |-> req[o] + 1, attempts |-> 0, notBefore |-> 0]
    OBVIOUS
  <2>1. CASE UNCHANGED <<key, req, ready>>
    BY <1>3, <2>1 DEF Enqueue, Requested, Dropped
  <2>2. CASE /\ key[o] = "none"
             /\ key' = [key EXCEPT ![o] = "queued"]
             /\ req' = [req EXCEPT ![o] = @ + 1]
             /\ ready' = Append(ready, new)
    <3>1. /\ new \in Job /\ new.order = o /\ new.req = req[o] + 1 /\ req[o] \in Nat
          /\ UNCHANGED <<processing, pc, job>>
      BY <1>3 DEF TypeOK, Job, Enqueue
    <3>2. /\ req'[o] = req[o] + 1
          /\ \A x \in Orders : x # o => req'[x] = req[x] /\ key'[x] = key[x]
      BY <2>2 DEF TypeOK
    <3>3. \A entry \in Job : entry.req <= req[entry.order] => entry.req <= req'[entry.order]
      <4> TAKE entry \in Job
      <4>1. entry.order \in Orders /\ entry.req \in Nat
        BY DEF Job
      <4>2. CASE entry.order = o
        BY <3>1, <3>2, <4>1, <4>2
      <4>3. CASE entry.order # o
        BY <3>2, <4>1, <4>3
      <4> QED
        BY <4>2, <4>3
    <3>4. Entries(ready') = Entries(ready) \cup {new}
      BY <1>0, <2>2, <3>1, AppendEntries
    <3>5. Entries(ready) \subseteq Job /\ Entries(processing) \subseteq Job
      BY <1>0 DEF Entries
    <3>6. ASSUME NEW entry \in Entries(ready') \cup Entries(processing')
          PROVE  entry.req <= req'[entry.order]
      <4>1. CASE entry = new
        BY <3>1, <3>2, <4>1
      <4>2. CASE entry \in Entries(ready) \cup Entries(processing)
        BY <1>0, <3>3, <3>5, <4>2
      <4> QED
        BY <3>1, <3>4, <3>6, <4>1, <4>2
    <3>7. ASSUME NEW p \in Procs, job'[p] # NoJob
          PROVE  job'[p].req <= req'[job'[p].order] /\ Dropped(p)'
      <4>1. job'[p] = job[p] /\ pc'[p] = pc[p] /\ job[p] \in Job /\ job[p].req <= req[job[p].order] /\ Dropped(p)
        BY <3>1, <3>7 DEF Requested, TypeOK
      <4>2. job[p].order \in Orders /\ job[p].req \in Nat
        BY <4>1 DEF Job
      <4>3. job[p].req <= req'[job[p].order]
        BY <3>3, <4>1
      <4>4. CASE job[p].order = o
        <5>1. job[p].req < req'[o]
          BY <3>1, <3>2, <4>1, <4>2, <4>4
        <5> QED
          BY <4>1, <4>3, <4>4, <5>1 DEF Dropped
      <4>5. CASE job[p].order # o
        BY <3>2, <4>1, <4>2, <4>3, <4>5 DEF Dropped
      <4> QED
        BY <4>4, <4>5
    <3> QED
      BY <3>6, <3>7 DEF Requested
  <2> QED
    BY <1>3, <2>1, <2>2 DEF Enqueue
<1>4. ASSUME NEW o \in Orders, ExpireAbandonedLock(o) \/ ExpireHeldLock(o)
      PROVE  Requested'
  BY <1>4 DEF ExpireAbandonedLock, ExpireHeldLock, Requested, Dropped
<1>5. ASSUME NEW o \in Orders, ExpireKey(o)
      PROVE  Requested'
  <2>1. UNCHANGED <<ready, processing, req, pc, job>>
    BY <1>5 DEF ExpireKey
  <2>2. \A x \in Orders : key'[x] = "queued" => key[x] = "queued"
    BY <1>5 DEF ExpireKey, TypeOK
  <2>3. ASSUME NEW p \in Procs, job[p] # NoJob
        PROVE  Dropped(p)'
    <3>1. Dropped(p) /\ job[p].order \in Orders
      BY <2>3 DEF Requested, TypeOK, Job
    <3> QED
      BY <2>1, <2>2, <3>1 DEF Dropped
  <2> QED
    BY <2>1, <2>3 DEF Requested
<1>6. CASE ScanPending
  BY <1>6 DEF ScanPending, Requested, Dropped
<1>7. ASSUME NEW j \in waiting, BackoffElapses(j)
      PROVE  Requested'
  BY <1>7 DEF BackoffElapses, Requested, Dropped
<1>8. ASSUME NEW p \in Procs, Recover(p) \/ Claim(p)
      PROVE  Requested'
  <2>1. /\ \A q \in Procs \ {p} : pc'[q] = pc[q] /\ job'[q] = job[q]
        /\ pc'[p] \in {"idle", "claim", "recover", "status"}
        /\ UNCHANGED <<key, req>>
    BY <1>8 DEF Recover, Claim, Proceed, OnError, TrySteps, CatchSteps, TypeOK
  <2>2. /\ Entries(ready') \cup Entries(processing') \subseteq Entries(ready) \cup Entries(processing)
        /\ job'[p] = NoJob \/ job'[p] \in Entries(ready) \/ job'[p] = job[p]
    <3>1. CASE UNCHANGED <<ready, processing>> /\ (Recover(p) \/ ready = <<>>)
      BY <1>8, <2>1, <3>1 DEF Recover, Claim, Proceed, OnError, TrySteps, CatchSteps, TypeOK
    <3>2. CASE Recover(p) /\ processing # <<>>
      <4>1. Head(processing) \in Job /\ Entries(processing) = {Head(processing)} \cup Entries(Tail(processing))
        BY <1>0, <3>2, HeadTailEntries
      <4>2. Entries(Append(ready, Head(processing))) = Entries(ready) \cup {Head(processing)}
        BY <1>0, <4>1, AppendEntries
      <4> QED
        BY <3>2, <4>1, <4>2 DEF Recover
    <3>3. CASE Claim(p) /\ ready # <<>>
      <4>1. Head(ready) \in Job /\ Entries(ready) = {Head(ready)} \cup Entries(Tail(ready))
        BY <1>0, <3>3, HeadTailEntries
      <4>2. Entries(Append(processing, Head(ready))) = Entries(processing) \cup {Head(ready)}
        BY <1>0, <4>1, AppendEntries
      <4>3. job'[p] \in {Head(ready), NoJob}
        BY <3>3 DEF Claim, TypeOK
      <4> QED
        BY <3>3, <4>1, <4>2, <4>3 DEF Claim
    <3> QED
      BY <1>8, <3>1, <3>2, <3>3 DEF Recover, Claim
  <2>3. job'[p] # NoJob => job'[p].req <= req[job'[p].order] /\ Dropped(p)'
    BY <1>0, <2>1, <2>2 DEF Dropped, Requested
  <2> QED
    BY <1>0, <2>1, <2>2, <2>3, RequestedBy
<1>9. ASSUME NEW p \in Procs,
             \/ StartDrain(p) \/ TakeLock(p) \/ Deduct(p) \/ HandlerFails(p)
             \/ AuditFailure(p) \/ Release(p) \/ CommandFails(p) \/ Crash(p)
      PROVE  Requested'
  <2>1. UNCHANGED <<ready, processing, req, key>>
    BY <1>9 DEF StartDrain, TakeLock, Deduct, HandlerFails, AuditFailure, Release, CommandFails, Crash
  <2>2. \A q \in Procs \ {p} : pc'[q] = pc[q] /\ job'[q] = job[q]
    BY <1>9 DEF StartDrain, TakeLock, Deduct, HandlerFails, AuditFailure, Release, CommandFails,
                Crash, Proceed, EndTurn, TypeOK
  <2>3. pc'[p] \notin {"skip", "ack"}
    BY <1>9 DEF StartDrain, TakeLock, Deduct, HandlerFails, AuditFailure, Release, CommandFails,
                Crash, Proceed, OnError, NextTurn, TrySteps, CatchSteps, TypeOK
  <2>4. job'[p] \in {NoJob, job[p]}
    BY <1>9 DEF StartDrain, TakeLock, Deduct, HandlerFails, AuditFailure, Release, CommandFails,
                Crash, EndTurn, TypeOK
  <2>5. job'[p] # NoJob => job'[p].req <= req[job'[p].order] /\ Dropped(p)'
    BY <2>3, <2>4 DEF Dropped, Requested
  <2> QED
    BY <1>0, <2>1, <2>2, <2>5, RequestedBy
<1>10. ASSUME NEW p \in Procs, ReadStatus(p)
       PROVE  Requested'
  <2>1. /\ UNCHANGED <<ready, processing, req, key, job>>
        /\ \A q \in Procs \ {p} : pc'[q] = pc[q]
        /\ \/ pc'[p] = "skip" /\ key[job[p].order] # "queued"
           \/ pc'[p] \in {"requeue", "lock"}
    BY <1>10 DEF ReadStatus, TypeOK
  <2>2. Dropped(p)'
    BY <2>1 DEF Dropped
  <2> QED
    BY <1>0, <2>1, <2>2, RequestedBy DEF Requested
<1>11. ASSUME NEW p \in Procs, MarkDone(p)
       PROVE  Requested'
  <2>1. /\ UNCHANGED <<ready, processing, req, job>>
        /\ \A q \in Procs \ {p} : pc'[q] = pc[q]
        /\ pc[p] = "markDone" /\ key' = [key EXCEPT ![job[p].order] = "done"]
    BY <1>11 DEF MarkDone, Proceed, TypeOK
  <2>2. job[p] \in Job /\ job[p].order \in Orders
    BY <2>1 DEF JobHeld, JoblessSteps, TypeOK, Job
  <2>3. key'[job[p].order] = "done" /\ \A o \in Orders : key'[o] = "queued" => key[o] = "queued"
    BY <2>1, <2>2 DEF TypeOK
  <2>4. Dropped(p)'
    BY <2>1, <2>3 DEF Dropped
  <2> QED
    BY <1>0, <2>1, <2>3, <2>4, RequestedBy DEF Requested
<1>12. ASSUME NEW p \in Procs, Skip(p) \/ Ack(p) \/ RequeueAck(p) \/ RetryAck(p)
       PROVE  Requested'
  <2>1. /\ \A q \in Procs \ {p} : pc'[q] = pc[q] /\ job'[q] = job[q]
        /\ pc'[p] \notin {"skip", "ack"} /\ job'[p] \in {NoJob, job[p]}
        /\ UNCHANGED <<key, req, ready>> /\ processing' = LRem(processing, job[p])
    BY <1>12 DEF Skip, Ack, RequeueAck, RetryAck, EndTurn, Proceed, OnError, NextTurn,
                 TrySteps, CatchSteps, TypeOK
  <2>2. Entries(processing') \subseteq Entries(processing)
    BY <1>0, <2>1, LRemProperties
  <2>3. job'[p] # NoJob => job'[p].req <= req[job'[p].order] /\ Dropped(p)'
    BY <2>1 DEF Dropped, Requested
  <2> QED
    BY <1>0, <2>1, <2>2, <2>3, RequestedBy
<1>13. ASSUME NEW p \in Procs, RequeuePush(p)
       PROVE  Requested'
  <2>1. /\ \A q \in Procs \ {p} : pc'[q] = pc[q] /\ job'[q] = job[q]
        /\ pc[p] = "requeue" /\ job'[p] \in {NoJob, job[p]} /\ pc'[p] \notin {"skip", "ack"}
        /\ UNCHANGED <<key, req, processing>> /\ ready' = Append(ready, job[p])
    BY <1>13 DEF RequeuePush, Proceed, OnError, TrySteps, CatchSteps, TypeOK
  <2>2. job[p] \in Job /\ job[p].req <= req[job[p].order]
    BY <2>1 DEF JobHeld, JoblessSteps, Requested, TypeOK
  <2>3. Entries(ready') = Entries(ready) \cup {job[p]}
    BY <1>0, <2>1, <2>2, AppendEntries
  <2>4. job'[p] # NoJob => job'[p].req <= req[job'[p].order] /\ Dropped(p)'
    BY <2>1 DEF Dropped, Requested
  <2> QED
    BY <1>0, <2>1, <2>2, <2>3, <2>4, RequestedBy
<1>14. ASSUME NEW p \in Procs, RetryPush(p)
       PROVE  Requested'
  <2>1. /\ \A q \in Procs \ {p} : pc'[q] = pc[q]
        /\ pc[p] = "caught" /\ UNCHANGED <<key, req, processing, job>>
        /\ pc'[p] \notin {"skip", "ack"}
    BY <1>14 DEF RetryPush, Proceed, OnError, TrySteps, CatchSteps, TypeOK
  <2>2. job[p] \in Job /\ job[p].req <= req[job[p].order]
    BY <2>1 DEF JobHeld, JoblessSteps, Requested, TypeOK
  <2>3. PICK t \in Times : ready' = Append(ready, [job[p] EXCEPT !.attempts = @ + 1, !.notBefore = t])
    BY <1>14 DEF RetryPush
  <2> DEFINE retry == [[job[p] EXCEPT !.attempts = @ + 1] EXCEPT !.notBefore = t]
  <2>4. retry \in Job /\ retry.order = job[p].order /\ retry.req = job[p].req
    <3>1. t \in Nat
      BY TimesAssumption
    <3>2. [job[p] EXCEPT !.attempts = @ + 1] \in Job
      BY <2>2 DEF Job
    <3> QED
      BY <2>2, <3>1, <3>2 DEF Job
  <2>5. ready' = Append(ready, retry)
    BY <2>3
  <2> HIDE DEF retry
  <2>6. Entries(ready') = Entries(ready) \cup {retry}
    BY <1>0, <2>4, <2>5, AppendEntries
  <2>7. Dropped(p)'
    BY <2>1 DEF Dropped
  <2> QED
    BY <1>0, <2>1, <2>2, <2>4, <2>6, <2>7, RequestedBy
<1>15. ASSUME NEW p \in Procs, DeadLetter(p)
       PROVE  Requested'
  <2>1. /\ \A q \in Procs \ {p} : pc'[q] = pc[q]
        /\ pc'[p] \notin {"skip", "ack"} /\ UNCHANGED <<req, ready, job>>
        /\ processing' = LRem(processing, job[p])
        /\ key' = [key EXCEPT ![job[p].order] = "failed"]
    BY <1>15 DEF DeadLetter, Proceed, OnError, TrySteps, CatchSteps, TypeOK
  <2>2. Entries(processing') \subseteq Entries(processing)
    BY <1>0, <2>1, LRemProperties
  <2>3. \A o \in Orders : key'[o] = "queued" => key[o] = "queued"
    BY <2>1 DEF TypeOK
  <2>4. Dropped(p)'
    BY <2>1 DEF Dropped
  <2> QED
    BY <1>0, <2>1, <2>2, <2>3, <2>4, RequestedBy DEF Requested
<1> QED
  BY <1>1, <1>2, <1>3, <1>4, <1>5, <1>6, <1>7, <1>8, <1>9, <1>10, <1>11, <1>12, <1>13, <1>14, <1>15 DEF Next, Run

LEMMA InitIInv == Init => IInv
<1> SUFFICES ASSUME Init PROVE IInv
  OBVIOUS
<1>1. TypeOK /\ JobHeld
  BY InitTypes
<1>2. Entries(ready) = {} /\ Entries(processing) = {} /\ Entries(dead) = {}
  BY DEF Init, Entries
<1>3. AboutPaid /\ Deducted /\ LeaseLocked
  BY <1>2 DEF Init, AboutPaid, Deducted, LeaseLocked
<1>4. ConsumedOnce /\ DoneMeansDeducted /\ FailedIsDeadLettered
  BY DEF Init, ConsumedOnce, DoneMeansDeducted, FailedIsDeadLettered
<1> QED
  BY <1>1, <1>3, <1>4 DEF IInv

LEMMA NextIInv == IInv /\ [Next]_vars => IInv'
BY TypeStep, PaidStep, LeaseStep, StockStep, DeadStep DEF IInv

QueueInv == Requested /\ QueueKept

LEMMA InitQueueInv == Init => QueueInv
<1> SUFFICES ASSUME Init PROVE QueueInv
  OBVIOUS
<1>1. Entries(ready) = {} /\ Entries(processing) = {}
  BY DEF Init, Entries
<1>2. Requested
  BY <1>1 DEF Init, Requested
<1>3. ASSUME NEW o \in Orders PROVE Kept(o)
  <2>1. Removing(o) = {} /\ key[o] = "none"
    BY <1>3 DEF Init, Removing
  <2> QED
    BY <2>1, FS_EmptySet DEF Kept
<1> QED
  BY <1>2, <1>3 DEF QueueInv, QueueKept

LEMMA NextQueueInv == IInv /\ QueueInv /\ [Next]_vars => QueueInv'
BY TypeStep, RequestedStep, QueueStep DEF IInv, QueueInv

(* Copies counted are entries found.                                        *)
LEMMA KeptIsFound ==
  ASSUME TypeOK, NEW o \in Orders, Kept(o), key[o] = "queued"
  PROVE  \E entry \in Entries(ready) \cup Entries(processing) : entry.order = o
<1> PICK M : M = Current(o)
  OBVIOUS
<1>1. \A entry \in M : entry.order = o
  BY DEF Current
<1>2. ~ (Places(ready, M) = {} /\ Places(processing, M) = {})
  <2> SUFFICES ASSUME Places(ready, M) = {}, Places(processing, M) = {} PROVE FALSE
    OBVIOUS
  <2> PICK n : n = Cardinality(Removing(o))
    OBVIOUS
  <2>1. n \in Nat /\ Copies(o) >= 1 + n
    BY FS_CardinalityType DEF Kept
  <2>2. Cardinality(Places(ready, M)) = 0 /\ Cardinality(Places(processing, M)) = 0
    BY FS_EmptySet
  <2>3. Copies(o) = 0
    BY <2>2 DEF Copies
  <2> QED
    BY <2>1, <2>3
<1>3. ASSUME NEW s, Places(s, M) # {}
      PROVE  \E entry \in Entries(s) : entry.order = o
  <2>1. PICK i \in 1 .. Len(s) : s[i] \in M
    BY <1>3 DEF Places
  <2>2. s[i] \in Entries(s)
    BY DEF Entries
  <2> QED
    BY <1>1, <2>1, <2>2
<1> QED
  BY <1>2, <1>3

(* The inductive invariant holds in every reachable state.                  *)
THEOREM Invariance == Spec => []IInv
<1>1. Init => IInv
  BY InitIInv
<1>2. IInv /\ [Next]_vars => IInv'
  BY NextIInv
<1> QED
  BY <1>1, <1>2, PTL DEF Spec

-----------------------------------------------------------------------------
(* What it gives                                                            *)

(* Every variable keeps its type, for any number of processes and orders.   *)
THEOREM TypeCorrect == Spec => []TypeOK
<1>1. IInv => TypeOK
  BY DEF IInv
<1> QED
  BY <1>1, Invariance, PTL

(* Stock is taken at most once for an order, whatever crashes, lost replies *)
(* and expired locks happen (deductStockForOrder is idempotent).            *)
THEOREM StockConsumedOnce == Spec => []ConsumedOnce
<1>1. IInv => ConsumedOnce
  BY DEF IInv
<1> QED
  BY <1>1, Invariance, PTL

(* A job key says 'done' only for an order whose stock was deducted, and    *)
(* 'failed' only for an order on the dead-letter list.                      *)
THEOREM KeysAreHonest == Spec => []StatusIsHonest
<1>1. IInv => StatusIsHonest
  BY DEF IInv, StatusIsHonest
<1> QED
  BY <1>1, Invariance, PTL

(* No two processes hold unexpired locks of one order.                      *)
THEOREM LeasesExclude == Spec => []LeaseExclusion
<1>1. IInv => LeaseExclusion
  BY DEF IInv, LeaseLocked, LeaseExclusion
<1> QED
  BY <1>1, Invariance, PTL

-----------------------------------------------------------------------------
(* The queue loses nothing                                                  *)

(* The count of copies holds in every reachable state.                      *)
THEOREM CopiesSuffice == Spec => []QueueInv
<1>1. Init => QueueInv
  BY InitQueueInv
<1>2. IInv /\ QueueInv /\ [Next]_vars => QueueInv'
  BY NextQueueInv
<1> QED
  BY <1>1, <1>2, Invariance, PTL DEF Spec

(* An order whose key says 'queued', and so refuses every further enqueue,  *)
(* has an entry in READY or PROCESSING (requeue(), retry, recover() and the *)
(* removals of several workers never take the last one).                    *)
THEOREM NoJobIsLost == Spec => []NoLostJob
<1>1. IInv /\ QueueInv => NoLostJob
  BY KeptIsFound DEF IInv, QueueInv, QueueKept, NoLostJob
<1> QED
  BY <1>1, Invariance, CopiesSuffice, PTL

-----------------------------------------------------------------------------
(* The queue implements the outbox                                          *)

LEMMA PromiseInit == Init => Promise!Init
<1> SUFFICES ASSUME Init PROVE Promise!Init
  OBVIOUS
<1>1. Entries(dead) = {}
  BY DEF Init, Entries
<1> QED
  BY <1>1 DEF Init, Promise!Init

LEMMA PromiseStep == IInv /\ [Next]_vars => [Promise!Next]_Promise!vars
<1> SUFFICES ASSUME IInv, [Next]_vars PROVE [Promise!Next]_Promise!vars
  OBVIOUS
<1> USE NoJobAssumption
<1> USE DEF vars, dbVars, redisVars, procVars, Begin
<1>1. TypeOK /\ JobHeld /\ AboutPaid /\ ConsumedOnce
  BY DEF IInv
<1>2. ASSUME UNCHANGED <<paid, consumed, dead>>
      PROVE  [Promise!Next]_Promise!vars
  BY <1>2 DEF Promise!vars
<1>3. ASSUME NEW o \in Orders, Settle(o)
      PROVE  [Promise!Next]_Promise!vars
  <2>1. Promise!Settle(o)
    BY <1>3 DEF Settle, Promise!Settle
  <2> QED
    BY <2>1 DEF Promise!Next
<1>4. ASSUME NEW o \in Orders,
             \/ SettleReplay(o) \/ LoseCall(o) \/ Enqueue(o)
             \/ ExpireAbandonedLock(o) \/ ExpireHeldLock(o) \/ ExpireKey(o)
      PROVE  [Promise!Next]_Promise!vars
  BY <1>2, <1>4 DEF SettleReplay, LoseCall, Enqueue, ExpireAbandonedLock, ExpireHeldLock, ExpireKey
<1>5. ASSUME NEW p \in Procs,
             \/ StartDrain(p) \/ Recover(p) \/ Claim(p) \/ ReadStatus(p) \/ Skip(p)
             \/ TakeLock(p) \/ RequeuePush(p) \/ RequeueAck(p) \/ HandlerFails(p)
             \/ MarkDone(p) \/ Ack(p) \/ AuditFailure(p) \/ RetryPush(p) \/ RetryAck(p)
             \/ Release(p) \/ CommandFails(p) \/ Crash(p)
      PROVE  [Promise!Next]_Promise!vars
  BY <1>2, <1>5 DEF StartDrain, Recover, Claim, ReadStatus, Skip, TakeLock, RequeuePush, RequeueAck,
              HandlerFails, MarkDone, Ack, AuditFailure, RetryPush, RetryAck, Release,
              CommandFails, Crash
<1>6. ASSUME NEW p \in Procs, Deduct(p)
      PROVE  [Promise!Next]_Promise!vars
  <2> PICK o : o = job[p].order
    OBVIOUS
  <2>1. /\ o \in Orders /\ o \in paid
        /\ consumed' = [consumed EXCEPT ![o] = IF @ = 0 THEN 1 ELSE @]
        /\ UNCHANGED <<paid, dead>>
    BY <1>1, <1>6 DEF Deduct, JobHeld, JoblessSteps, AboutPaid, TypeOK, Job
  <2>2. CASE consumed[o] = 0
    <3>1. Promise!Deduct(o)
      BY <1>1, <2>1, <2>2 DEF Promise!Deduct, TypeOK
    <3> QED
      BY <2>1, <3>1 DEF Promise!Next
  <2>3. CASE consumed[o] # 0
    BY <1>1, <1>2, <2>1, <2>3 DEF TypeOK
  <2> QED
    BY <2>2, <2>3
<1>7. ASSUME NEW p \in Procs, DeadLetter(p)
      PROVE  [Promise!Next]_Promise!vars
  <2> DEFINE final == [job[p] EXCEPT !.attempts = @ + 1]
  <2>1. job[p] \in Job /\ job[p].order \in paid /\ UNCHANGED <<paid, consumed>>
    BY <1>1, <1>7 DEF DeadLetter, JobHeld, JoblessSteps, AboutPaid, TypeOK
  <2>2. final \in Job /\ final.order = job[p].order /\ job[p].order \in Orders
    BY <2>1 DEF Job
  <2>3. Entries(dead') = Entries(dead) \cup {final}
    <3>1. dead \in Seq(Job) /\ dead' = Append(dead, final)
      BY <1>1, <1>7 DEF DeadLetter, TypeOK, final
    <3> QED
      BY <2>2, <3>1, AppendEntries
  <2> HIDE DEF final
  <2> PICK o : o = job[p].order
    OBVIOUS
  <2>4. {entry.order : entry \in Entries(dead')}
          = {entry.order : entry \in Entries(dead)} \cup {o}
    BY <2>2, <2>3
  <2>5. Promise!GiveUp(o)
    BY <2>1, <2>4 DEF Promise!GiveUp, Entries
  <2> QED
    BY <2>2, <2>5 DEF Promise!Next
<1>8. CASE ScanPending
  BY <1>2, <1>8 DEF ScanPending
<1>9. ASSUME NEW j \in waiting, BackoffElapses(j)
      PROVE  [Promise!Next]_Promise!vars
  BY <1>2, <1>9 DEF BackoffElapses
<1>10. CASE UNCHANGED vars
  BY <1>2, <1>10
<1> QED
  BY <1>2, <1>3, <1>4, <1>5, <1>6, <1>7, <1>8, <1>9, <1>10 DEF Next, Run

(* Settlement and queue implement StockOutbox: each step settles an order,  *)
(* takes the stock of a settled order that was not taken yet, reports a     *)
(* settled order to the operators, or changes none of the three.            *)
THEOREM PromiseIsKept == Spec => PromiseKept
<1>1. Spec => Promise!Spec
  BY PromiseInit, PromiseStep, Invariance, PTL DEF Spec, Promise!Spec
<1> QED
  BY <1>1 DEF PromiseKept
===============================================================================
