---------------------------- MODULE ReaderProofs ----------------------------
(***************************************************************************)
(* Proofs about ReaderRequests, for any number of requests, permits and    *)
(* waiters.                                                                *)
(*                                                                         *)
(* The counters of the code are compared with what they count, so most of  *)
(* the work is about how a step of one thread changes a cardinality.       *)
(***************************************************************************)
EXTENDS ReaderRequests, FiniteSetTheorems, TLAPS

USE ReaderAssumption

-----------------------------------------------------------------------------
(* Counting threads.                                                       *)

Positions == Threads \cup {"none", "gone"}

LEMMA CountIsNatural ==
    ASSUME NEW places
    PROVE  Among(places) \in Nat
<1>1. IsFiniteSet({r \in Requests : work[r] \in places})
  BY FS_Subset
<1> QED
  BY <1>1, FS_CardinalityType DEF Among

\* How the count of some places changes when one thread goes to a place.
LEMMA CountChanges ==
    ASSUME work \in [Requests -> Positions], NEW r \in Requests, NEW place,
           Worker(r, place), NEW places
    PROVE  Among(places)' = Among(places) + (IF place \in places THEN 1 ELSE 0)
                                          - (IF work[r] \in places THEN 1 ELSE 0)
<1> DEFINE Before == {x \in Requests : work[x] \in places}
           After == {x \in Requests : work'[x] \in places}
           Others == Before \ {r}
<1>1. IsFiniteSet(Before)
  BY FS_Subset
<1>2. /\ IsFiniteSet(Others)
      /\ Cardinality(Others) = Cardinality(Before) - (IF work[r] \in places THEN 1 ELSE 0)
  <2>1. Cardinality(Before) \in Nat
    BY <1>1, FS_CardinalityType
  <2>2. /\ IsFiniteSet(Others)
        /\ Cardinality(Others) = IF r \in Before THEN Cardinality(Before) - 1 ELSE Cardinality(Before)
    <3> HIDE DEF Before
    <3> QED
      BY <1>1, FS_RemoveElement
  <2>3. r \in Before <=> work[r] \in places
    OBVIOUS
  <2> HIDE DEF Before
  <2> QED
    BY <2>1, <2>2, <2>3
<1>3. After = IF place \in places THEN Others \cup {r} ELSE Others
  BY DEF Worker
<1>4. Cardinality(Others) \in Nat
  BY <1>2, FS_CardinalityType
<1>5. Cardinality(After) = Cardinality(Others) + (IF place \in places THEN 1 ELSE 0)
  <2>1. CASE place \in places
    <3>1. r \notin Others
      OBVIOUS
    <3>2. Cardinality(Others \cup {r}) = Cardinality(Others) + 1
      BY <1>2, <3>1, FS_AddElement
    <3> HIDE DEF Others, After
    <3> QED
      BY <1>3, <2>1, <3>2
  <2>2. CASE place \notin places
    <3> HIDE DEF Others, After
    <3> QED
      BY <1>3, <1>4, <2>2
  <2> QED
    BY <2>1, <2>2
<1>6. Cardinality(Before) \in Nat
  BY <1>1, FS_CardinalityType
<1>7. Among(places) = Cardinality(Before) /\ Among(places)' = Cardinality(After)
  BY DEF Among
<1> HIDE DEF Before, After, Others
<1> QED
  BY <1>2, <1>5, <1>6, <1>7

LEMMA CountStays ==
    ASSUME work' = work, NEW places
    PROVE  Among(places)' = Among(places)
BY DEF Among

-----------------------------------------------------------------------------
(* The inductive invariant.                                                *)

\* Until its answer is assembled a thread has no result; a request without a
\* thread was not cancelled before it arrived, and only reads skip the
\* admission to the permits.
Progress ==
    \A r \in Requests :
        /\ at[r] \in {"none", "verifying", "admitting"} => work[r] = "none"
        /\ at[r] = "none" => r \notin cancelled
        /\ work[r] \in Unanswered => shown[r] = NoResult
        /\ work[r] \in {"reading", "read"} => op[r] = "read"

Inv == TypeOK /\ CapacityIsConserved /\ Progress

One(condition) == IF condition THEN 1 ELSE 0

\* A thread moves, and the counters move with what it holds.
Balanced(r, place) ==
    /\ Worker(r, place)
    /\ slots' = slots + One(work[r] \in Threads) - One(place \in Threads)
    /\ permits' = permits + One(work[r] \in Holding) - One(place \in Holding)
    /\ waiters' = waiters + One(place \in Waiting) - One(work[r] \in Waiting)
    /\ slots' >= 0
    /\ permits' >= 0
    /\ waiters' <= MaxQueued

CountersTyped ==
    /\ slots \in 0 .. MaxConcurrent + MaxQueued
    /\ permits \in 0 .. MaxConcurrent
    /\ waiters \in 0 .. MaxQueued

LEMMA BalancedConserves ==
    ASSUME TypeOK, CapacityIsConserved, NEW r \in Requests, NEW place \in Positions,
           Balanced(r, place)
    PROVE  CapacityIsConserved' /\ CountersTyped' /\ work' \in [Requests -> Positions]
<1>1. work \in [Requests -> Positions]
  BY DEF TypeOK, Positions
<1>2. work' \in [Requests -> Positions]
  BY <1>1 DEF Balanced, Worker
<1>3. Worker(r, place)
  BY DEF Balanced
<1>4. \A places \in {Threads, Holding, Waiting} :
         /\ Among(places) \in Nat
         /\ Among(places)' = Among(places) + One(place \in places) - One(work[r] \in places)
  BY <1>1, <1>3, CountIsNatural, CountChanges DEF One
<1>5. \A places \in {Threads, Holding, Waiting} : Among(places)' \in Nat
  <2>1. \A places : Among(places)' \in Nat
    <3> SUFFICES ASSUME NEW places PROVE Among(places)' \in Nat
      OBVIOUS
    <3>1. IsFiniteSet({x \in Requests : work'[x] \in places})
      BY FS_Subset
    <3> QED
      BY <3>1, FS_CardinalityType DEF Among
  <2> QED
    BY <2>1
<1>6. slots \in Nat /\ permits \in Nat /\ waiters \in Nat
  BY DEF TypeOK
<1>7. /\ slots' + Among(Threads)' = MaxConcurrent + MaxQueued
      /\ permits' + Among(Holding)' = MaxConcurrent
      /\ waiters' = Among(Waiting)'
      /\ slots' \in Int /\ permits' \in Int
  <2> HIDE DEF Threads, Holding, Waiting, Among
  <2> QED
    BY <1>4, <1>6 DEF Balanced, One, CapacityIsConserved
<1>8. CountersTyped'
  BY <1>5, <1>7 DEF Balanced, CountersTyped
<1> QED
  BY <1>2, <1>7, <1>8 DEF CapacityIsConserved

LEMMA QuietConserves ==
    ASSUME TypeOK, CapacityIsConserved, UNCHANGED <<work, capacity>>
    PROVE  CapacityIsConserved' /\ CountersTyped' /\ work' \in [Requests -> Positions]
<1>1. \A places : Among(places)' = Among(places)
  BY CountStays DEF capacity
<1> QED
  BY <1>1 DEF CapacityIsConserved, CountersTyped, TypeOK, Positions, capacity

-----------------------------------------------------------------------------
(* The steps of a thread.                                                  *)

\* Every step of a thread is balanced; Admit, the adapter's, makes the thread.
LEMMA ThreadsAreBalanced ==
    ASSUME TypeOK, NEW r \in Requests, Run(r)
    PROVE  \E place \in Positions : Balanced(r, place)
<1> USE DEF TypeOK, Positions, Threads, Holding, Waiting, One
<1>1. CASE Start(r)
  <2>1. CASE op[r] = "read"
    BY <1>1, <2>1 DEF Start, Balanced, capacity, Worker
  <2>2. CASE op[r] # "read" /\ r \in cancelled
    BY <1>1, <2>2 DEF Start, Balanced, capacity, Worker
  <2>3. CASE op[r] # "read" /\ r \notin cancelled
    BY <1>1, <2>3 DEF Start, Balanced, capacity, Worker
  <2> QED
    BY <2>1, <2>2, <2>3
<1>2. CASE TryPermit(r)
  BY <1>2 DEF TryPermit, Balanced, Worker
<1>3. CASE JoinWaiters(r)
  <2>1. CASE waiters < MaxQueued
    BY <1>3, <2>1 DEF JoinWaiters, Balanced, Worker
  <2>2. CASE ~(waiters < MaxQueued)
    BY <1>3, <2>2 DEF JoinWaiters, Balanced, Worker
  <2> QED
    BY <2>1, <2>2
<1>4. CASE AwaitPermit(r)
  <2>1. CASE Worker(r, "acquired")
    BY <1>4, <2>1 DEF AwaitPermit, Balanced, Worker
  <2>2. CASE Worker(r, "timedOut")
    BY <1>4, <2>2 DEF AwaitPermit, Balanced, Worker
  <2> QED
    BY <1>4, <2>1, <2>2 DEF AwaitPermit
<1>5. CASE QuitWaiters(r)
  <2>1. CASE work[r] = "acquired"
    BY <1>5, <2>1 DEF QuitWaiters, Balanced, Worker
  <2>2. CASE work[r] = "timedOut"
    BY <1>5, <2>2 DEF QuitWaiters, Balanced, Worker
  <2> QED
    BY <1>5, <2>1, <2>2 DEF QuitWaiters
<1>6. CASE Retrieve(r)
  <2>1. Worker(r, "releasing") \/ Worker(r, "retrieving")
    BY <1>6 DEF Retrieve
  <2>2. work[r] = "holding" /\ UNCHANGED capacity
    BY <1>6 DEF Retrieve
  <2> QED
    BY <2>1, <2>2 DEF Balanced, capacity, Worker
<1>7. CASE ValidateEvidence(r)
  <2>1. Worker(r, "releasing") \/ Worker(r, "retrieved")
    BY <1>7 DEF ValidateEvidence
  <2>2. work[r] = "retrieving" /\ UNCHANGED capacity
    BY <1>7 DEF ValidateEvidence
  <2> QED
    BY <2>1, <2>2 DEF Balanced, capacity, Worker
<1>8. CASE Assess(r)
  <2>1. Worker(r, "releasing") \/ Worker(r, "answering")
    BY <1>8 DEF Assess
  <2>2. work[r] = "retrieved" /\ UNCHANGED capacity
    BY <1>8 DEF Assess
  <2> QED
    BY <2>1, <2>2 DEF Balanced, capacity, Worker
<1>9. CASE Answer(r)
  BY <1>9 DEF Answer, Balanced, capacity, Worker
<1>10. CASE Cite(r)
  BY <1>10 DEF Cite, Balanced, capacity, Worker
<1>11. CASE Release(r)
  BY <1>11 DEF Release, Balanced, Worker
<1>12. CASE ReadSources(r)
  BY <1>12 DEF ReadSources, Balanced, capacity, Worker
<1>13. CASE CheckSources(r)
  BY <1>13 DEF CheckSources, Balanced, capacity, Worker
<1>14. CASE Leave(r)
  BY <1>14 DEF Leave, Balanced, Worker
<1> QED
  BY <1>1, <1>2, <1>3, <1>4, <1>5, <1>6, <1>7, <1>8, <1>9, <1>10, <1>11, <1>12, <1>13, <1>14 DEF Run

LEMMA AdmissionIsBalanced ==
    ASSUME TypeOK, NEW r \in Requests, Admit(r), work[r] = "none"
    PROVE  (\E place \in Positions : Balanced(r, place)) \/ UNCHANGED <<work, capacity>>
BY DEF TypeOK, Positions, Threads, Holding, Waiting, One, Admit, Balanced, capacity, Worker

\* The conjuncts of TypeOK that are not about counters or positions.
RestTyped ==
    /\ active \in SUBSET Versions
    /\ changes \in 0 .. MaxChanges
    /\ revoked \in SUBSET Requests
    /\ expired \in SUBSET Requests
    /\ op \in [Requests -> {"ask", "search", "read"}]
    /\ browser \in SUBSET Requests
    /\ at \in [Requests -> Adapting \cup Ended \cup {"none"}]
    /\ cancelled \in SUBSET Requests
    /\ evidence \in [Requests -> SUBSET Versions]
    /\ shown \in [Requests -> (SUBSET Versions) \cup {NoResult}]

LEMMA RunTyped ==
    ASSUME TypeOK, NEW r \in Requests, Run(r)
    PROVE  RestTyped'
<1> USE DEF TypeOK, RestTyped, catalogue, accounts, client, result
<1>1. CASE Start(r) \/ TryPermit(r) \/ JoinWaiters(r) \/ AwaitPermit(r) \/ QuitWaiters(r)
  BY <1>1 DEF Start, TryPermit, JoinWaiters, AwaitPermit, QuitWaiters
<1>2. CASE Retrieve(r)
  BY <1>2 DEF Retrieve
<1>3. CASE Assess(r)
  BY <1>3 DEF Assess
<1>4. CASE Cite(r)
  BY <1>4 DEF Cite
<1>5. CASE ReadSources(r)
  BY <1>5 DEF ReadSources
<1>6. CASE CheckSources(r)
  BY <1>6 DEF CheckSources
<1>7. CASE ValidateEvidence(r) \/ Answer(r) \/ Release(r) \/ Leave(r)
  BY <1>7 DEF ValidateEvidence, Answer, Release, Leave
<1> QED
  BY <1>1, <1>2, <1>3, <1>4, <1>5, <1>6, <1>7 DEF Run

\* A thread that leaves Unanswered does not come back, and only reads read.
LEMMA RunProgress ==
    ASSUME Inv, NEW r \in Requests, Run(r)
    PROVE  Progress'
<1> USE DEF TypeOK, Progress, Unanswered, Threads, Holding, Waiting, Worker, client, result
<1>0. /\ at' = at /\ op' = op /\ cancelled' = cancelled
      /\ \A x \in Requests \ {r} : work'[x] = work[x] /\ shown'[x] = shown[x]
      /\ work \in [Requests -> Positions]
  <2>1. work \in [Requests -> Positions] /\ shown \in [Requests -> (SUBSET Versions) \cup {NoResult}]
    BY DEF Inv, Positions
  <2>2. CASE Start(r) \/ TryPermit(r) \/ JoinWaiters(r) \/ AwaitPermit(r) \/ QuitWaiters(r)
    BY <2>1, <2>2 DEF Start, TryPermit, JoinWaiters, AwaitPermit, QuitWaiters
  <2>3. CASE Retrieve(r) \/ ValidateEvidence(r) \/ Assess(r)
    BY <2>1, <2>3 DEF Retrieve, ValidateEvidence, Assess
  <2>4. CASE Answer(r) \/ Cite(r) \/ Release(r) \/ Leave(r)
    BY <2>1, <2>4 DEF Answer, Cite, Release, Leave
  <2>5. CASE ReadSources(r) \/ CheckSources(r)
    BY <2>1, <2>5 DEF ReadSources, CheckSources
  <2> QED
    BY <2>1, <2>2, <2>3, <2>4, <2>5 DEF Run
<1>1. /\ work[r] # "none"
      /\ work'[r] \in Unanswered => shown'[r] = NoResult
      /\ work'[r] \in {"reading", "read"} => op[r] = "read"
  <2>0. work \in [Requests -> Positions] /\ Progress
    BY <1>0 DEF Inv
  <2>1. CASE Start(r) \/ TryPermit(r) \/ JoinWaiters(r) \/ AwaitPermit(r) \/ QuitWaiters(r)
    BY <2>0, <2>1 DEF Start, TryPermit, JoinWaiters, AwaitPermit, QuitWaiters
  <2>2. CASE Retrieve(r) \/ ValidateEvidence(r) \/ Assess(r)
    BY <2>0, <2>2 DEF Retrieve, ValidateEvidence, Assess
  <2>3. CASE Answer(r) \/ Cite(r) \/ Release(r) \/ Leave(r)
    BY <2>0, <2>3 DEF Answer, Cite, Release, Leave
  <2>4. CASE ReadSources(r) \/ CheckSources(r)
    BY <2>0, <2>4 DEF ReadSources, CheckSources
  <2> QED
    BY <2>1, <2>2, <2>3, <2>4 DEF Run
<1> HIDE DEF Unanswered, Threads, Holding, Waiting, Worker
<1> QED
  BY <1>0, <1>1 DEF Inv

-----------------------------------------------------------------------------
(* The steps of the adapter and of the surroundings.                       *)

\* What the adapter, clients and accounts may do: everything but Admit leaves
\* the threads and the counters alone.
Quiet(r) ==
    \/ Arrive(r) \/ Authenticate(r) \/ TakeResult(r) \/ Recheck(r) \/ Renew(r) \/ Confirm(r)
    \/ Deliver(r) \/ Disconnect(r) \/ Abandon(r) \/ Revoke(r) \/ Expire(r)

LEMMA QuietIsQuiet ==
    ASSUME NEW r \in Requests, Quiet(r)
    PROVE  UNCHANGED <<work, capacity, result>>
BY DEF Quiet, Arrive, Authenticate, TakeResult, Recheck, Renew, Confirm, Deliver, Disconnect,
   Abandon, Revoke, Expire

LEMMA QuietTyped ==
    ASSUME TypeOK, NEW r \in Requests, Quiet(r)
    PROVE  RestTyped'
<1> USE DEF TypeOK, RestTyped, catalogue, accounts, client, result, Adapter, Adapting, Ended
<1>1. CASE Arrive(r)
  BY <1>1 DEF Arrive
<1>2. CASE Authenticate(r) \/ TakeResult(r) \/ Recheck(r) \/ Renew(r) \/ Confirm(r) \/ Deliver(r)
  BY <1>2 DEF Authenticate, TakeResult, Recheck, Renew, Confirm, Deliver
<1>3. CASE Disconnect(r) \/ Abandon(r)
  BY <1>3 DEF Disconnect, Abandon
<1>4. CASE Revoke(r) \/ Expire(r)
  BY <1>4 DEF Revoke, Expire
<1> QED
  BY <1>1, <1>2, <1>3, <1>4 DEF Quiet

LEMMA QuietProgress ==
    ASSUME Inv, NEW r \in Requests, Quiet(r)
    PROVE  Progress'
<1>0. work' = work /\ shown' = shown /\ TypeOK /\ Progress
  BY QuietIsQuiet DEF Inv, result
<1> USE DEF TypeOK, Progress, Adapter, Adapting, Ended
<1>1. CASE Arrive(r)
  BY <1>0, <1>1 DEF Arrive
<1>2. CASE Authenticate(r)
  BY <1>0, <1>2 DEF Authenticate, client
<1>3. CASE TakeResult(r) \/ Recheck(r) \/ Renew(r) \/ Confirm(r) \/ Deliver(r)
  BY <1>0, <1>3 DEF TakeResult, Recheck, Renew, Confirm, Deliver, client
<1>4. CASE Disconnect(r) \/ Abandon(r)
  BY <1>0, <1>4 DEF Disconnect, Abandon, client
<1>5. CASE Revoke(r) \/ Expire(r)
  BY <1>0, <1>5 DEF Revoke, Expire, client
<1> QED
  BY <1>1, <1>2, <1>3, <1>4, <1>5 DEF Quiet

LEMMA AdmitKeeps ==
    ASSUME Inv, NEW r \in Requests, Admit(r)
    PROVE  RestTyped' /\ Progress'
<1>1. TypeOK /\ Progress /\ work[r] = "none"
  BY DEF Inv, Progress, Admit
<1>2. RestTyped'
  BY <1>1 DEF Admit, TypeOK, RestTyped, catalogue, accounts, client, result, Adapter, Adapting, Ended
<1>3. Progress'
  BY <1>1 DEF Admit, TypeOK, Progress, client, result, Adapter, Worker, Unanswered, Threads,
     Holding, Waiting
<1> QED
  BY <1>2, <1>3

-----------------------------------------------------------------------------

LEMMA InitInv == Init => Inv
<1> SUFFICES ASSUME Init PROVE Inv
  OBVIOUS
<1>1. TypeOK
  <2>1. RestTyped
    <3>1. shown \in [Requests -> (SUBSET Versions) \cup {NoResult}]
      BY DEF Init
    <3>2. evidence \in [Requests -> SUBSET Versions] /\ active \in SUBSET Versions
      BY DEF Init
    <3>3. /\ op \in [Requests -> {"ask", "search", "read"}]
          /\ at \in [Requests -> Adapting \cup Ended \cup {"none"}]
      BY DEF Init
    <3>4. changes \in 0 .. MaxChanges
      BY DEF Init
    <3> QED
      BY <3>1, <3>2, <3>3, <3>4 DEF Init, RestTyped
  <2>2. CountersTyped
    BY DEF Init, CountersTyped
  <2>3. work \in [Requests -> Positions]
    BY DEF Init, Positions
  <2> QED
    BY <2>1, <2>2, <2>3 DEF TypeOK, RestTyped, CountersTyped, Positions
<1>2. \A places \in {Threads, Holding, Waiting} : Among(places) = 0
  <2>1. \A places \in {Threads, Holding, Waiting} : "none" \notin places
    BY DEF Threads, Holding, Waiting
  <2>2. \A places \in {Threads, Holding, Waiting} : {r \in Requests : work[r] \in places} = {}
    BY <2>1 DEF Init
  <2> HIDE DEF Threads, Holding, Waiting
  <2> QED
    BY <2>2, FS_EmptySet DEF Among
<1>3. CapacityIsConserved
  BY <1>2 DEF CapacityIsConserved, Init
<1>4. Progress
  BY DEF Init, Progress
<1> QED
  BY <1>1, <1>3, <1>4 DEF Inv

LEMMA NextInv == Inv /\ [Next]_vars => Inv'
<1> SUFFICES ASSUME Inv, [Next]_vars PROVE Inv'
  OBVIOUS
<1>0. TypeOK /\ CapacityIsConserved /\ Progress
  BY DEF Inv
<1>1. ASSUME NEW r \in Requests, Run(r) PROVE Inv'
  <2>1. CapacityIsConserved' /\ CountersTyped' /\ work' \in [Requests -> Positions]
    BY <1>0, <1>1, ThreadsAreBalanced, BalancedConserves
  <2>2. RestTyped' /\ Progress'
    BY <1>0, <1>1, RunTyped, RunProgress
  <2> QED
    BY <2>1, <2>2 DEF Inv, TypeOK, RestTyped, CountersTyped, Positions
<1>2. ASSUME NEW r \in Requests, Admit(r) PROVE Inv'
  <2>1. work[r] = "none"
    BY <1>0, <1>2 DEF Progress, Admit
  <2>2. CapacityIsConserved' /\ CountersTyped' /\ work' \in [Requests -> Positions]
    BY <1>0, <1>2, <2>1, AdmissionIsBalanced, BalancedConserves, QuietConserves
  <2>3. RestTyped' /\ Progress'
    BY <1>2, AdmitKeeps
  <2> QED
    BY <2>2, <2>3 DEF Inv, TypeOK, RestTyped, CountersTyped, Positions
<1>3. ASSUME NEW r \in Requests, Quiet(r) PROVE Inv'
  <2>1. CapacityIsConserved' /\ CountersTyped' /\ work' \in [Requests -> Positions]
    BY <1>0, <1>3, QuietIsQuiet, QuietConserves
  <2>2. RestTyped' /\ Progress'
    BY <1>0, <1>3, QuietTyped, QuietProgress
  <2> QED
    BY <2>1, <2>2 DEF Inv, TypeOK, RestTyped, CountersTyped, Positions
<1>4. CASE Change
  <2>1. CapacityIsConserved' /\ CountersTyped' /\ work' \in [Requests -> Positions]
    BY <1>0, <1>4, QuietConserves DEF Change
  <2>2. RestTyped' /\ Progress'
    BY <1>0, <1>4 DEF Change, TypeOK, RestTyped, Progress, accounts, client, result
  <2> QED
    BY <2>1, <2>2 DEF Inv, TypeOK, RestTyped, CountersTyped, Positions
<1>5. CASE UNCHANGED vars
  <2>1. CapacityIsConserved' /\ CountersTyped' /\ work' \in [Requests -> Positions]
    BY <1>0, <1>5, QuietConserves DEF vars
  <2>2. RestTyped' /\ Progress'
    BY <1>0, <1>5 DEF vars, TypeOK, RestTyped, Progress, catalogue, accounts, client, result
  <2> QED
    BY <2>1, <2>2 DEF Inv, TypeOK, RestTyped, CountersTyped, Positions
<1> QED
  BY <1>1, <1>2, <1>3, <1>4, <1>5 DEF Next, Serve, Quiet

LEMMA InvHolds == Spec => []Inv
BY InitInv, NextInv, PTL DEF Spec

-----------------------------------------------------------------------------
(* Theorems.                                                               *)

\* The counters stay in their ranges: no semaphore is released more often than
\* it was acquired (a BoundedSemaphore would raise), and no more requests wait
\* than max_queued_queries.
THEOREM TypeCorrect == Spec => []TypeOK
<1>1. Inv => TypeOK
  BY DEF Inv
<1> QED
  BY <1>1, InvHolds, PTL

\* No order of arrivals, timeouts, cancellations and exits leaks a slot, a
\* permit or a place among the waiters (reader_work, _acquire_capacity).
THEOREM CapacityConserved == Spec => []CapacityIsConserved
<1>1. Inv => CapacityIsConserved
  BY DEF Inv
<1> QED
  BY <1>1, InvHolds, PTL

\* A request whose account was lost stays out of reach of a delivery.
Lost(r) == r \in revoked /\ at[r] \notin {"validating", "delivered"}

LEMMA LostStays ==
    ASSUME TypeOK, NEW r \in Requests, Lost(r), [Next]_vars
    PROVE  Lost(r)'
<1> USE DEF Lost, TypeOK, Adapter, accounts
<1>1. ASSUME NEW s \in Requests, Serve(s) PROVE Lost(r)'
  <2>1. CASE Authenticate(s) \/ Admit(s) \/ TakeResult(s)
    BY <2>1 DEF Authenticate, Admit, TakeResult
  <2>2. CASE Recheck(s)
    BY <2>2 DEF Recheck, Admissible
  <2>3. CASE Renew(s) \/ Confirm(s)
    BY <2>3 DEF Renew, Confirm
  <2>4. CASE Deliver(s)
    BY <2>4 DEF Deliver
  <2> QED
    BY <1>1, <2>1, <2>2, <2>3, <2>4 DEF Serve
<1>2. ASSUME NEW s \in Requests, Run(s) PROVE at' = at /\ revoked' = revoked
  BY <1>2 DEF Run, Start, TryPermit, JoinWaiters, AwaitPermit, QuitWaiters, Retrieve,
     ValidateEvidence, Assess, Answer, Cite, Release, ReadSources, CheckSources, Leave
<1>3. ASSUME NEW s \in Requests, Arrive(s) \/ Disconnect(s) \/ Abandon(s) \/ Revoke(s) \/ Expire(s)
      PROVE  Lost(r)'
  BY <1>3 DEF Arrive, Disconnect, Abandon, Revoke, Expire
<1>4. CASE Change
  BY <1>4 DEF Change
<1>5. CASE UNCHANGED vars
  BY <1>5 DEF vars
<1> QED
  BY <1>1, <1>2, <1>3, <1>4, <1>5 DEF Next

\* _post_work_identity and _authorize_browser_result: the check after the
\* work, and for a browser the renewed token, keep out whoever was revoked.
THEOREM RevokedNeverServed == Spec => RevokedIsNotServed
<1>1. ASSUME NEW r \in Requests
      PROVE  Spec => [](r \in revoked /\ at[r] \in Adapting \ {"validating"} => [](at[r] # "delivered"))
  <2>1. r \in revoked /\ at[r] \in Adapting \ {"validating"} => Lost(r)
    BY DEF Lost, Adapting
  <2>2. Lost(r) => at[r] # "delivered"
    BY DEF Lost
  <2>3. TypeOK /\ Lost(r) /\ [Next]_vars => Lost(r)'
    BY LostStays
  <2> QED
    BY <2>1, <2>2, <2>3, TypeCorrect, PTL DEF Spec
<1> QED
  BY <1>1 DEF RevokedIsNotServed

\* A query cancelled before its answer stays without a result.
Discarded(r) ==
    /\ r \in cancelled
    /\ at[r] # "none"
    /\ op[r] # "read"
    /\ shown[r] = NoResult
    /\ work[r] \notin {"answered", "reading", "read"}

LEMMA DiscardedStays ==
    ASSUME Inv, NEW r \in Requests, Discarded(r), [Next]_vars
    PROVE  Discarded(r)'
<1>0. TypeOK
  BY DEF Inv
<1> USE DEF Discarded, TypeOK, Worker, client, result
<1>1. ASSUME NEW s \in Requests, Run(s) PROVE Discarded(r)'
  <2>1. CASE Start(s) \/ TryPermit(s) \/ JoinWaiters(s) \/ AwaitPermit(s) \/ QuitWaiters(s)
    BY <1>0, <2>1 DEF Start, TryPermit, JoinWaiters, AwaitPermit, QuitWaiters
  <2>2. CASE Retrieve(s) \/ ValidateEvidence(s)
    BY <1>0, <2>2 DEF Retrieve, ValidateEvidence
  <2>3. CASE Assess(s)
    BY <1>0, <2>3 DEF Assess
  <2>4. CASE Answer(s) \/ Release(s) \/ Leave(s)
    BY <1>0, <2>4 DEF Answer, Release, Leave
  <2>5. CASE Cite(s)
    BY <1>0, <2>5 DEF Cite
  <2>6. CASE ReadSources(s) \/ CheckSources(s)
    BY <1>0, <2>6 DEF ReadSources, CheckSources
  <2> QED
    BY <1>1, <2>1, <2>2, <2>3, <2>4, <2>5, <2>6 DEF Run
<1>2. ASSUME NEW s \in Requests, Serve(s) PROVE Discarded(r)'
  <2> USE DEF Adapter
  <2>1. CASE Authenticate(s) \/ Admit(s) \/ TakeResult(s)
    BY <1>0, <2>1 DEF Authenticate, Admit, TakeResult
  <2>2. CASE Recheck(s) \/ Renew(s) \/ Confirm(s) \/ Deliver(s)
    BY <1>0, <2>2 DEF Recheck, Renew, Confirm, Deliver
  <2> QED
    BY <1>2, <2>1, <2>2 DEF Serve
<1>3. ASSUME NEW s \in Requests, Arrive(s) PROVE Discarded(r)'
  BY <1>0, <1>3 DEF Arrive, Adapter
<1>4. ASSUME NEW s \in Requests, Disconnect(s) \/ Abandon(s) \/ Revoke(s) \/ Expire(s)
      PROVE  Discarded(r)'
  BY <1>0, <1>4 DEF Disconnect, Abandon, Revoke, Expire, Adapter
<1>5. CASE Change
  BY <1>5 DEF Change
<1>6. CASE UNCHANGED vars
  BY <1>6 DEF vars
<1> QED
  BY <1>1, <1>2, <1>3, <1>4, <1>5, <1>6 DEF Next

\* query_with_evidence and search: the check after each wait, the last one
\* after the provider's call, keeps a cancelled query from having a result.
THEOREM CancelledAreDiscarded == Spec => CancelledIsDiscarded
<1>1. ASSUME NEW r \in Requests
      PROVE  Spec => [](r \in cancelled /\ op[r] # "read" /\ work[r] \in Unanswered
                          => [](shown[r] = NoResult))
  <2>1. Inv => (r \in cancelled /\ op[r] # "read" /\ work[r] \in Unanswered => Discarded(r))
    BY DEF Inv, Progress, Discarded, Unanswered
  <2>2. Discarded(r) => shown[r] = NoResult
    BY DEF Discarded
  <2>3. Inv /\ Discarded(r) /\ [Next]_vars => Discarded(r)'
    BY DiscardedStays
  <2> QED
    BY <2>1, <2>2, <2>3, InvHolds, PTL DEF Spec
<1> QED
  BY <1>1 DEF CancelledIsDiscarded

\* What is read is kept from then on, a result comes from the end of the work,
\* and the adapter checks only requests that have one.
Supplied == {"retrieving", "retrieved", "answering", "answered", "read",
             "releasing", "leaving", "gone"}
Concluded == {"releasing", "leaving", "gone"}
Checking == {"rechecking", "renewing", "confirming", "validating"}

Placed(r) ==
    /\ evidence[r] # {} => work[r] \in Supplied
    /\ shown[r] # NoResult => work[r] \in Concluded
    /\ at[r] \in Checking => work[r] = "gone" /\ shown[r] # NoResult
    /\ at[r] \in {"none", "verifying", "admitting"} => work[r] = "none"

LEMMA RunPlaced ==
    ASSUME TypeOK, NEW r \in Requests, Placed(r), NEW s \in Requests, Run(s)
    PROVE  Placed(r)'
<1> USE DEF TypeOK, Placed, Worker, result, Supplied, Concluded, Checking
<1>1. CASE Start(s) \/ TryPermit(s) \/ JoinWaiters(s) \/ AwaitPermit(s) \/ QuitWaiters(s)
  BY <1>1 DEF Start, TryPermit, JoinWaiters, AwaitPermit, QuitWaiters
<1>2. CASE Retrieve(s) \/ ReadSources(s)
  BY <1>2 DEF Retrieve, ReadSources
<1>3. CASE ValidateEvidence(s) \/ Answer(s) \/ Release(s) \/ Leave(s)
  BY <1>3 DEF ValidateEvidence, Answer, Release, Leave
<1>4. CASE Assess(s)
  BY <1>4 DEF Assess
<1>5. CASE Cite(s) \/ CheckSources(s)
  BY <1>5 DEF Cite, CheckSources
<1> QED
  BY <1>1, <1>2, <1>3, <1>4, <1>5 DEF Run

LEMMA ServePlaced ==
    ASSUME TypeOK, NEW r \in Requests, Placed(r), NEW s \in Requests, Serve(s)
    PROVE  Placed(r)'
<1> USE DEF TypeOK, Placed, Adapter, Worker, result, Supplied, Concluded, Checking
<1>1. CASE Authenticate(s)
  BY <1>1 DEF Authenticate
<1>2. CASE Admit(s)
  BY <1>2 DEF Admit
<1>3. CASE TakeResult(s)
  BY <1>3 DEF TakeResult
<1>4. CASE Recheck(s) \/ Renew(s) \/ Confirm(s) \/ Deliver(s)
  BY <1>4 DEF Recheck, Renew, Confirm, Deliver
<1> QED
  BY <1>1, <1>2, <1>3, <1>4 DEF Serve

LEMMA PlacedHolds == ASSUME NEW r \in Requests PROVE Spec => []Placed(r)
<1>1. Init => Placed(r)
  BY DEF Init, Placed, Checking
<1>2. TypeOK /\ Placed(r) /\ [Next]_vars => Placed(r)'
  <2> SUFFICES ASSUME TypeOK, Placed(r), [Next]_vars PROVE Placed(r)'
    OBVIOUS
  <2>1. ASSUME NEW s \in Requests, Arrive(s) \/ Disconnect(s) \/ Abandon(s) \/ Revoke(s) \/ Expire(s)
        PROVE  Placed(r)'
    BY <2>1 DEF Arrive, Disconnect, Abandon, Revoke, Expire, Adapter, Placed, TypeOK, result, Checking
  <2>2. CASE Change \/ UNCHANGED vars
    BY <2>2 DEF Change, vars, Placed, result
  <2> QED
    BY <2>1, <2>2, RunPlaced, ServePlaced DEF Next
<1> QED
  BY <1>1, <1>2, TypeCorrect, PTL DEF Spec

\* A request that rests on a version that was withdrawn: what it still has to
\* pass reads the version's absence.
Stale(r, v) ==
    /\ RestsOn(r, v)
    /\ Withdrawn(v)
    /\ at[r] \notin {"none", "verifying", "admitting", "delivered"}
    /\ work[r] \in Supplied

LEMMA StaleStays ==
    ASSUME TypeOK, NEW r \in Requests, NEW v \in Versions, Placed(r), Stale(r, v),
           Withdrawn(v)', [Next]_vars
    PROVE  Stale(r, v)'
<1>0. v # None
  BY ReaderAssumption
<1> USE DEF Stale, RestsOn, Withdrawn, TypeOK, Supplied, Placed
<1>1. ASSUME NEW s \in Requests, Run(s) PROVE Stale(r, v)'
  <2> USE DEF Worker, result, client
  <2>1. CASE Start(s) \/ TryPermit(s) \/ JoinWaiters(s) \/ AwaitPermit(s) \/ QuitWaiters(s)
    BY <2>1 DEF Start, TryPermit, JoinWaiters, AwaitPermit, QuitWaiters
  <2>2. CASE Retrieve(s) \/ ReadSources(s)
    BY <2>2 DEF Retrieve, ReadSources
  <2>3. CASE ValidateEvidence(s) \/ Answer(s) \/ Release(s) \/ Leave(s)
    BY <2>3 DEF ValidateEvidence, Answer, Release, Leave
  <2>4. CASE Assess(s)
    BY <2>4, <1>0 DEF Assess, Current, Concluded, NoResult
  <2>5. CASE Cite(s) \/ CheckSources(s)
    BY <2>5, <1>0 DEF Cite, CheckSources, Current, Concluded, NoResult
  <2> QED
    BY <1>1, <2>1, <2>2, <2>3, <2>4, <2>5 DEF Run
<1>2. ASSUME NEW s \in Requests, Serve(s) PROVE Stale(r, v)'
  <2> USE DEF Adapter, result, client
  <2>1. CASE Authenticate(s) \/ Admit(s)
    BY <2>1 DEF Authenticate, Admit, Worker
  <2>2. CASE TakeResult(s) \/ Recheck(s) \/ Renew(s) \/ Confirm(s)
    BY <2>2 DEF TakeResult, Recheck, Renew, Confirm
  <2>3. CASE Deliver(s)
    BY <2>3, <1>0 DEF Deliver, Checking
  <2> QED
    BY <1>2, <2>1, <2>2, <2>3 DEF Serve
<1>3. ASSUME NEW s \in Requests, Arrive(s) \/ Disconnect(s) \/ Abandon(s) \/ Revoke(s) \/ Expire(s)
      PROVE  Stale(r, v)'
  BY <1>3 DEF Arrive, Disconnect, Abandon, Revoke, Expire, Adapter, result
<1>4. CASE Change \/ UNCHANGED vars
  BY <1>4 DEF Change, vars, result
<1> QED
  BY <1>1, <1>2, <1>3, <1>4 DEF Next

\* _answer_with_evidence checks all it read after the provider's answer, and
\* checked_result and browser_operation check what the result names after the
\* authorization: between them no withdrawn version is forgotten.
THEOREM WithdrawnNeverServed == Spec => WithdrawnIsNotServed
<1>1. ASSUME NEW r \in Requests, NEW v \in Versions
      PROVE  Spec => [](at[r] \in Adapting /\ RestsOn(r, v) /\ [](Withdrawn(v))
                          => [](at[r] # "delivered"))
  <2>1. TypeOK /\ Placed(r) /\ at[r] \in Adapting /\ RestsOn(r, v) /\ Withdrawn(v) => Stale(r, v)
    <3> SUFFICES ASSUME TypeOK, Placed(r), at[r] \in Adapting, RestsOn(r, v), Withdrawn(v)
                 PROVE  Stale(r, v)
      OBVIOUS
    <3>1. shown[r] # NoResult \/ evidence[r] # {}
      BY DEF RestsOn
    <3>2. work[r] \in Supplied
      BY <3>1 DEF Placed, Supplied, Concluded
    <3>3. at[r] \notin {"none", "verifying", "admitting", "delivered"}
      BY <3>2 DEF Placed, Supplied, Adapting
    <3> QED
      BY <3>2, <3>3 DEF Stale
  <2>2. Stale(r, v) => at[r] # "delivered"
    BY DEF Stale
  <2>3. TypeOK /\ Placed(r) /\ Stale(r, v) /\ Withdrawn(v)' /\ [Next]_vars => Stale(r, v)'
    BY StaleStays
  <2>4. Spec => []Placed(r)
    BY PlacedHolds
  <2> QED
    BY <2>1, <2>2, <2>3, <2>4, TypeCorrect, PTL DEF Spec
<1> QED
  BY <1>1 DEF WithdrawnIsNotServed

=============================================================================
