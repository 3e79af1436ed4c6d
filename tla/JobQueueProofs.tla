--------------------------- MODULE JobQueueProofs ---------------------------
(***************************************************************************)
(* Theorems about JobQueue, for every number of executors, hosts, jobs,    *)
(* attempts and documents.                                                 *)
(***************************************************************************)
EXTENDS JobQueue, TLAPS

USE ConstantsAssumption

JobRow == [status : Statuses, operation : Operations, document : Documents \cup {Nobody},
           attempt : 0 .. MaxAttempts, owner : Executors \cup {Nobody}, lease : Leases]

LEMMA LeaseBounds == -1 \in Leases /\ LeaseSeconds \in Leases
BY DEF Leases

\* Every UPDATE of a row of the jobs table leaves a row.
LEMMA RowUpdate ==
    ASSUME NEW row \in JobRow
    PROVE  /\ \A s \in Statuses : Settled(row, s) \in JobRow
           /\ Requeued(row) \in JobRow
           /\ \A e \in Executors : row.attempt < MaxAttempts => Claimed(row, e) \in JobRow
<1>1. row.attempt \in 0 .. MaxAttempts
  BY DEF JobRow
<1>2. ASSUME NEW s \in Statuses PROVE Settled(row, s) \in JobRow
  BY LeaseBounds DEF JobRow, Settled
<1>3. "queued" \in Statuses /\ "running" \in Statuses
  BY DEF Statuses
<1>4. ASSUME NEW e \in Executors, row.attempt < MaxAttempts PROVE Claimed(row, e) \in JobRow
  <2>1. row.attempt + 1 \in 0 .. MaxAttempts
    BY <1>1, <1>4
  <2> QED
    BY <1>3, <2>1, LeaseBounds DEF JobRow, Claimed
<1> QED
  BY <1>2, <1>3, <1>4 DEF Requeued

\* The steps of an executor keep the tables well formed.
LEMMA ReconcileType ==
    ASSUME TypeOK, Reconcile
    PROVE  /\ jobs' \in [Jobs -> JobRow]
           /\ writer' \in [owner : Executors \cup {Nobody}, lease : Leases]
<1>1. jobs \in [Jobs -> JobRow]
  BY DEF TypeOK, JobRow
<1>2. ReconciledJobs \in [Jobs -> JobRow]
  BY <1>1, RowUpdate DEF ReconciledJobs
<1>3. ReconciledWriter \in [owner : Executors \cup {Nobody}, lease : Leases]
  BY LeaseBounds DEF TypeOK, ReconciledWriter, Unowned
<1> QED
  BY <1>2, <1>3 DEF Reconcile

LEMMA ExtendType ==
    ASSUME TypeOK, NEW c \in Claims, c.job \in Jobs, Extend(c)
    PROVE  /\ jobs' \in [Jobs -> JobRow]
           /\ writer' \in [owner : Executors \cup {Nobody}, lease : Leases]
BY DEF TypeOK, Extend, JobRow, Leases

\* Where an executor goes when it leaves a call.
LEMMA ReturnType ==
    ASSUME TypeOK, NEW e \in Executors, Return(e)
    PROVE  /\ kernel' \in [Hosts -> Executors \cup {Nobody}]
           /\ pc' \in [Executors -> Stages]
           /\ target' \in [Executors -> Jobs \cup {NoJob}]
           /\ claim' \in [Executors -> Claims]
           /\ beating' \in [Executors -> BOOLEAN]
           /\ lost' \in [Executors -> BOOLEAN]
           /\ stray' \in [Executors -> Claims]
BY DEF TypeOK, Return, Go, DropKernel, Stages, Claims, NoClaim, NoJob

LEMMA ProceedType ==
    ASSUME TypeOK, NEW e \in Executors, NEW stage \in Stages, Proceed(e, stage)
    PROVE  /\ kernel' \in [Hosts -> Executors \cup {Nobody}]
           /\ pc' \in [Executors -> Stages]
           /\ target' \in [Executors -> Jobs \cup {NoJob}]
           /\ claim' \in [Executors -> Claims]
           /\ beating' \in [Executors -> BOOLEAN]
           /\ lost' \in [Executors -> BOOLEAN]
           /\ stray' \in [Executors -> Claims]
BY DEF TypeOK, Proceed, Go, thread

\* The steps of Step(e), one by one.
LEMMA StepType ==
    ASSUME TypeOK, NEW e \in Executors, Step(e)
    PROVE  TypeOK'
<1> USE DEF tables, thread
<1>1. CASE WorkerReconcile(e)
  BY <1>1, ReconcileType DEF TypeOK, WorkerReconcile, Go, Stages, JobRow
<1>2. CASE RunOnce(e)
  BY <1>2 DEF TypeOK, RunOnce, Go, TakeKernel, Stages, Locked
<1>3. CASE RunOnceRefused(e)
  BY <1>3 DEF TypeOK, RunOnceRefused, Go, Stages
<1>4. CASE RunJobReconcile(e)
  BY <1>4, ReconcileType DEF TypeOK, RunJobReconcile, Go, Stages, Locked, JobRow
<1>5. CASE RunJobRead(e)
  <2>1. "requeueing" \in Stages /\ "acquiring" \in Stages
    BY DEF Stages, Locked
  <2>2. Return(e) \/ Proceed(e, "requeueing") \/ Proceed(e, "acquiring")
    BY <1>5 DEF RunJobRead
  <2> QED
    BY <1>5, <2>1, <2>2, ReturnType, ProceedType DEF TypeOK, RunJobRead
<1>6. CASE RunJobRetry(e)
  <2>1. jobs \in [Jobs -> JobRow]
    BY DEF TypeOK, JobRow
  <2>2. jobs' \in [Jobs -> JobRow]
    BY <1>6, <2>1, RowUpdate DEF RunJobRetry
  <2> QED
    BY <1>6, <2>2 DEF TypeOK, RunJobRetry, Go, Stages, Locked, JobRow
<1>7. CASE AcquireWriter(e)
  BY <1>7 DEF TypeOK, AcquireWriter, Go, Stages, Locked, Leases
<1>8. CASE WriterRefused(e)
  BY <1>8, ReturnType DEF TypeOK, WriterRefused
<1>9. CASE ClaimJob(e)
  <2>1. PICK j \in Claimable(e) :
            /\ jobs' = [jobs EXCEPT ![j] = Claimed(@, e)]
            /\ claim' = [claim EXCEPT ![e] = [job |-> j, attempt |-> jobs[j].attempt + 1]]
    BY <1>9 DEF ClaimJob
  <2>2. /\ jobs \in [Jobs -> JobRow] /\ j \in Jobs /\ jobs[j] \in JobRow
        /\ jobs[j].attempt < MaxAttempts
    BY DEF Claimable, TypeOK, JobRow
  <2>3. jobs[j].attempt + 1 \in 0 .. MaxAttempts
    BY <2>2 DEF JobRow
  <2>4. jobs' \in [Jobs -> JobRow]
    BY <2>1, <2>2, RowUpdate
  <2>5. claim' \in [Executors -> Claims]
    BY <2>1, <2>2, <2>3 DEF TypeOK, Claims, Jobs
  <2> QED
    BY <1>9, <2>4, <2>5 DEF TypeOK, ClaimJob, Go, Stages, Locked, JobRow
<1>10. CASE ClaimNothing(e)
  BY <1>10 DEF TypeOK, ClaimNothing, Go, Stages, Locked
<1>11. CASE HandlerReturns(e)
  BY <1>11 DEF TypeOK, HandlerReturns, Go, Stages, Locked
<1>12. CASE HandlerRaises(e)
  BY <1>12 DEF TypeOK, HandlerRaises, Go, Stages, Locked
<1>13. CASE JoinHeartbeat(e)
  BY <1>13 DEF TypeOK, JoinHeartbeat, Go, Stages, Locked
<1>14. CASE Finish(e)
  <2>1. jobs \in [Jobs -> JobRow] /\ {"succeeded", "failed"} \subseteq Statuses
    BY DEF TypeOK, JobRow, Statuses
  <2>3. jobs' \in [Jobs -> JobRow]
    BY <1>14, <2>1, RowUpdate DEF Finish, LeaseHeld
  <2> QED
    BY <1>14, <2>3 DEF TypeOK, Finish, Go, Stages, Locked, JobRow
<1>15. CASE ReleaseWriter(e)
  BY <1>15, ReturnType DEF TypeOK, ReleaseWriter, Unowned, Leases
<1> QED
  BY <1>1, <1>2, <1>3, <1>4, <1>5, <1>6, <1>7, <1>8, <1>9, <1>10, <1>11, <1>12,
     <1>13, <1>14, <1>15 DEF Step

\* The submissions: new rows, superseded rows, rows put back.
LEMMA SubmissionType ==
    ASSUME TypeOK, Submission
    PROVE  TypeOK'
<1> USE DEF tables, thread
<1>1. CASE \E d \in Documents : PutJob(d)
  BY <1>1 DEF TypeOK, PutJob, Row, Statuses, Operations, Leases
<1>2. CASE \E d \in Documents : TombstoneAndPutJob(d)
  <2>1. PICK d \in Documents : TombstoneAndPutJob(d)
    BY <1>2
  <2>2. Superseded(d) \in [Jobs -> JobRow]
    <3>1. jobs \in [Jobs -> JobRow] /\ "failed" \in Statuses
      BY DEF TypeOK, JobRow, Statuses
    <3>2. \A j \in Jobs : jobs[j].attempt \in 0 .. MaxAttempts
      BY <3>1 DEF JobRow
    <3> QED
      BY <3>1, <3>2, LeaseBounds, RowUpdate DEF Superseded
  <2>3. Row("delete_document", d) \in JobRow
    BY DEF Row, JobRow, Statuses, Operations, Leases
  <2>4. jobs' \in [Jobs -> JobRow]
    BY <2>1, <2>2, <2>3 DEF TombstoneAndPutJob
  <2> QED
    BY <2>1, <2>4 DEF TypeOK, TombstoneAndPutJob, JobRow
<1>3. ASSUME NEW j \in Jobs, RetryJob(j, {"failed"}) \/ RetryJob(j, {"failed", "succeeded"})
      PROVE  TypeOK'
  <2>1. jobs \in [Jobs -> JobRow]
    BY DEF TypeOK, JobRow
  <2>2. jobs' \in [Jobs -> JobRow]
    BY <1>3, <2>1, RowUpdate DEF RetryJob
  <2> QED
    BY <1>3, <2>2 DEF TypeOK, RetryJob, JobRow
<1> QED
  BY <1>1, <1>2, <1>3 DEF Submission

LEMMA EnvironmentType ==
    ASSUME TypeOK, NEW e \in Executors,
           \/ \E j \in Jobs : RunJob(e, j)
           \/ Heartbeat(e) \/ HeartbeatGivesUp(e) \/ StrayHeartbeat(e)
           \/ StoreError(e) \/ Crash(e)
    PROVE  TypeOK'
<1> USE DEF tables, thread
<1>1. CASE \E j \in Jobs : RunJob(e, j)
  BY <1>1 DEF TypeOK, RunJob, Go, TakeKernel, Stages, Locked
<1>2. CASE Heartbeat(e)
  BY <1>2, ExtendType DEF TypeOK, Heartbeat, LeaseHeld, JobRow
<1>3. CASE HeartbeatGivesUp(e)
  BY <1>3 DEF TypeOK, HeartbeatGivesUp
<1>4. CASE StrayHeartbeat(e)
  BY <1>4, ExtendType DEF TypeOK, StrayHeartbeat, LeaseHeld, JobRow, Claims, NoClaim, NoJob
<1>5. CASE StoreError(e)
  <2>1. "releasing" \in Stages /\ "unwinding" \in Stages
    BY DEF Stages, Locked
  <2>2. Return(e) \/ Proceed(e, "releasing") \/ Proceed(e, "unwinding")
    BY <1>5 DEF StoreError
  <2> QED
    BY <1>5, <2>1, <2>2, ReturnType, ProceedType DEF TypeOK, StoreError
<1>6. CASE Crash(e)
  BY <1>6 DEF TypeOK, Crash, Stages, Claims, NoClaim, NoJob
<1> QED
  BY <1>1, <1>2, <1>3, <1>4, <1>5, <1>6

LEMMA TickType ==
    ASSUME TypeOK, Tick
    PROVE  TypeOK'
BY SMTT(30) DEF TypeOK, Tick, Elapse, Leases, tables, thread

\* Every reachable state is well typed: the rows of the jobs table and of
\* writer_lock, the file locks and the executors' locals.
THEOREM TypeCorrect == Spec => []TypeOK
<1>1. Init => TypeOK
  BY DEF Init, TypeOK, Unowned, Statuses, Operations, Leases, Stages, Claims, NoClaim, NoJob
<1>2. TypeOK /\ [Next]_vars => TypeOK'
  <2> SUFFICES ASSUME TypeOK, [Next]_vars PROVE TypeOK'
    OBVIOUS
  <2>1. CASE UNCHANGED vars
    BY <2>1 DEF TypeOK, vars, thread
  <2>2. CASE Next
    BY <2>2, StepType, SubmissionType, EnvironmentType, TickType DEF Next
  <2> QED
    BY <2>1, <2>2
<1> QED
  BY <1>1, <1>2, PTL DEF Spec

-----------------------------------------------------------------------------
(* The file lock.                                                          *)

LEMMA ReturnKernel ==
    ASSUME TypeOK, KernelHeld, NEW e \in Executors, pc[e] \in Locked, Return(e)
    PROVE  KernelHeld'
<1> SUFFICES ASSUME NEW f \in Executors, pc'[f] \in Locked
             PROVE  kernel'[HostOf[f]] = f
  BY DEF KernelHeld
<1>1. f # e /\ pc[f] \in Locked
  BY DEF TypeOK, Return, Go, Locked
<1>2. HostOf[f] # HostOf[e]
  BY <1>1 DEF KernelHeld
<1> QED
  BY <1>1, <1>2 DEF Return, DropKernel, KernelHeld, TypeOK

\* A step that keeps the file locks and enters no locked section by itself.
LEMMA SameKernel ==
    ASSUME TypeOK, KernelHeld, UNCHANGED kernel,
           \A f \in Executors : pc'[f] \in Locked => pc[f] \in Locked
    PROVE  KernelHeld'
BY DEF KernelHeld

LEMMA TakenKernel ==
    ASSUME TypeOK, KernelHeld, NEW e \in Executors, KernelFree(e), TakeKernel(e),
           NEW stage \in Stages, Go(e, stage)
    PROVE  KernelHeld'
<1> SUFFICES ASSUME NEW f \in Executors, pc'[f] \in Locked
             PROVE  kernel'[HostOf[f]] = f
  BY DEF KernelHeld
<1>1. CASE f = e
  BY <1>1 DEF TypeOK, TakeKernel
<1>2. CASE f # e
  <2>1. kernel[HostOf[f]] = f
    BY <1>2 DEF TypeOK, Go, KernelHeld
  <2>2. HostOf[f] # HostOf[e]
    BY <2>1 DEF KernelFree
  <2> QED
    BY <2>1, <2>2 DEF TypeOK, TakeKernel
<1> QED
  BY <1>1, <1>2

LEMMA KernelStep ==
    ASSUME TypeOK, KernelHeld, [Next]_vars
    PROVE  KernelHeld'
<1> USE DEF tables, thread
<1>1. CASE UNCHANGED vars \/ Submission \/ Tick
  <2>1. UNCHANGED <<kernel, pc>>
    BY <1>1 DEF vars, Submission, PutJob, TombstoneAndPutJob, RetryJob, Tick
  <2> QED
    BY <2>1 DEF KernelHeld
<1>2. ASSUME NEW e \in Executors, Step(e)
      PROVE  KernelHeld'
  <2>1. CASE RunOnce(e)
    BY <2>1, TakenKernel DEF RunOnce, Stages, Locked
  <2>2. CASE (RunJobRead(e) /\ Return(e)) \/ WriterRefused(e) \/ ReleaseWriter(e)
    <3>1. pc[e] \in Locked /\ Return(e)
      BY <2>2 DEF RunJobRead, WriterRefused, ReleaseWriter, Locked
    <3> QED
      BY <3>1, ReturnKernel
  <2>3. CASE WorkerReconcile(e) \/ RunOnceRefused(e)
    BY <2>3, SameKernel DEF WorkerReconcile, RunOnceRefused, Go, Locked, TypeOK
  <2>4. CASE \/ RunJobRead(e) /\ ~Return(e)
             \/ RunJobReconcile(e) \/ RunJobRetry(e)
    BY <2>4, SameKernel DEF RunJobRead, RunJobReconcile, RunJobRetry, Proceed, Go, Locked, TypeOK
  <2>5. CASE AcquireWriter(e) \/ ClaimJob(e) \/ ClaimNothing(e)
    BY <2>5, SameKernel DEF AcquireWriter, ClaimJob, ClaimNothing, Go, Locked, TypeOK
  <2>6. CASE HandlerReturns(e) \/ HandlerRaises(e) \/ JoinHeartbeat(e) \/ Finish(e)
    BY <2>6, SameKernel DEF HandlerReturns, HandlerRaises, JoinHeartbeat, Stopping, Finish,
                            Go, Locked, TypeOK
  <2> QED
    BY <1>2, <2>1, <2>2, <2>3, <2>4, <2>5, <2>6 DEF Step
<1>3. ASSUME NEW e \in Executors, \E j \in Jobs : RunJob(e, j)
      PROVE  KernelHeld'
  BY <1>3, TakenKernel DEF RunJob, Stages, Locked
<1>4. ASSUME NEW e \in Executors, Heartbeat(e) \/ HeartbeatGivesUp(e) \/ StrayHeartbeat(e)
      PROVE  KernelHeld'
  BY <1>4, SameKernel DEF Heartbeat, HeartbeatGivesUp, StrayHeartbeat
<1>5. ASSUME NEW e \in Executors, StoreError(e)
      PROVE  KernelHeld'
  <2>1. CASE Return(e)
    BY <1>5, <2>1, ReturnKernel DEF StoreError, Locked
  <2>2. CASE ~Return(e)
    BY <1>5, <2>2, SameKernel DEF StoreError, Proceed, Go, Locked, TypeOK
  <2> QED
    BY <2>1, <2>2
<1>6. ASSUME NEW e \in Executors, Crash(e)
      PROVE  KernelHeld'
  BY <1>6 DEF Crash, KernelHeld, TypeOK, Locked
<1> QED
  BY <1>1, <1>2, <1>3, <1>4, <1>5, <1>6 DEF Next

-----------------------------------------------------------------------------
(* One host: a handler keeps its job.                                      *)

\* At most one executor is inside the locked section.
LEMMA OneLocked ==
    ASSUME SingleHost, KernelHeld, NEW e \in Executors, NEW f \in Executors,
           pc[f] \in Locked, pc[e] \in Locked \/ KernelFree(e)
    PROVE  f = e
BY DEF SingleHost, KernelHeld, KernelFree

\* Steps after which whoever is in flight was already, on an untouched row.
LEMMA UndisturbedRows ==
    ASSUME HandlerOwnsItsAttempt,
           \A f \in Executors : pc'[f] \in InFlight =>
               /\ pc[f] \in InFlight
               /\ claim'[f] = claim[f]
               /\ /\ jobs'[claim[f].job].status = jobs[claim[f].job].status
                  /\ jobs'[claim[f].job].owner = jobs[claim[f].job].owner
                  /\ jobs'[claim[f].job].attempt = jobs[claim[f].job].attempt
    PROVE  HandlerOwnsItsAttempt'
BY DEF HandlerOwnsItsAttempt

LEMMA OwnStep ==
    ASSUME SingleHost, TypeOK, KernelHeld, HandlerOwnsItsAttempt, [Next]_vars
    PROVE  HandlerOwnsItsAttempt'
<1> USE DEF tables, thread
<1>0. InFlight \subseteq Locked
  BY DEF InFlight, Locked
<1>1. CASE UNCHANGED vars
  BY <1>1 DEF vars, HandlerOwnsItsAttempt
<1>2. CASE Submission
  <2>1. UNCHANGED <<pc, claim>>
    BY <1>2 DEF Submission, PutJob, TombstoneAndPutJob, RetryJob
  <2>2. \A j \in Jobs : jobs[j].status = "running" => jobs'[j] = jobs[j]
    <3>1. ASSUME NEW d \in Documents, PutJob(d)
          PROVE  \A j \in Jobs : jobs[j].status = "running" => jobs'[j] = jobs[j]
      BY <3>1 DEF PutJob, NextJob, TypeOK
    <3>2. ASSUME NEW d \in Documents, TombstoneAndPutJob(d)
          PROVE  \A j \in Jobs : jobs[j].status = "running" => jobs'[j] = jobs[j]
      BY <3>2 DEF TombstoneAndPutJob, NextJob, Superseded, TypeOK
    <3>3. ASSUME NEW i \in Jobs, RetryJob(i, {"failed"}) \/ RetryJob(i, {"failed", "succeeded"})
          PROVE  \A j \in Jobs : jobs[j].status = "running" => jobs'[j] = jobs[j]
      BY <3>3 DEF RetryJob, TypeOK
    <3> QED
      BY <1>2, <3>1, <3>2, <3>3 DEF Submission
  <2> QED
    BY <2>1, <2>2 DEF HandlerOwnsItsAttempt
<1>3. CASE Tick
  <2>1. UNCHANGED <<pc, claim>>
    BY <1>3 DEF Tick
  <2>2. \A j \in Jobs : /\ jobs'[j].status = jobs[j].status
                       /\ jobs'[j].owner = jobs[j].owner
                       /\ jobs'[j].attempt = jobs[j].attempt
    BY <1>3 DEF Tick, TypeOK
  <2> QED
    BY <2>1, <2>2 DEF HandlerOwnsItsAttempt
<1>4. ASSUME NEW e \in Executors, Step(e)
      PROVE  HandlerOwnsItsAttempt'
  <2>1. CASE WorkerReconcile(e) \/ RunJobReconcile(e) \/ RunJobRetry(e)
    \* The lock is free or the executor's own: nobody is in flight.
    <3>1. \A f \in Executors : pc'[f] \notin InFlight
      BY <2>1, <1>0, OneLocked
         DEF WorkerReconcile, RunJobReconcile, RunJobRetry, Go, TypeOK, InFlight, Locked
    <3> QED
      BY <3>1 DEF HandlerOwnsItsAttempt
  <2>2. CASE \/ RunOnce(e) \/ RunOnceRefused(e) \/ AcquireWriter(e) \/ ClaimNothing(e)
             \/ HandlerReturns(e) \/ HandlerRaises(e) \/ JoinHeartbeat(e)
    BY <2>2, UndisturbedRows
       DEF RunOnce, RunOnceRefused, AcquireWriter, ClaimNothing, HandlerReturns, HandlerRaises,
           JoinHeartbeat, Stopping, Go, TypeOK, InFlight
  <2>3. CASE RunJobRead(e) \/ WriterRefused(e) \/ ReleaseWriter(e)
    BY <2>3, UndisturbedRows
       DEF RunJobRead, WriterRefused, ReleaseWriter, Return, Proceed, Go, TypeOK, InFlight
  <2>4. CASE ClaimJob(e)
    <3>1. PICK j \in Claimable(e) :
              /\ jobs' = [jobs EXCEPT ![j] = Claimed(@, e)]
              /\ claim' = [claim EXCEPT ![e] = [job |-> j, attempt |-> jobs[j].attempt + 1]]
      BY <2>4 DEF ClaimJob
    <3>2. j \in Jobs /\ jobs[j] \in JobRow
      BY DEF Claimable, TypeOK, JobRow
    <3>3. \A f \in Executors : pc'[f] \in InFlight => f = e
      BY <2>4, <1>0, OneLocked DEF ClaimJob, Go, TypeOK, Locked
    <3>4. claim'[e] = [job |-> j, attempt |-> jobs[j].attempt + 1]
      BY <3>1 DEF TypeOK
    <3>5. jobs'[j] = Claimed(jobs[j], e)
      BY <3>1, <3>2 DEF TypeOK
    <3>6. /\ jobs'[j].status = "running"
          /\ jobs'[j].owner = e
          /\ jobs'[j].attempt = jobs[j].attempt + 1
      BY <3>2, <3>5 DEF Claimed, JobRow
    <3> QED
      BY <3>2, <3>3, <3>4, <3>6 DEF HandlerOwnsItsAttempt
  <2>5. CASE Finish(e)
    \* The executor leaves the flight with its own row, and was alone in it.
    <3>1. \A f \in Executors : pc'[f] \notin InFlight
      BY <2>5, <1>0, OneLocked DEF Finish, Go, TypeOK, InFlight
    <3> QED
      BY <3>1 DEF HandlerOwnsItsAttempt
  <2> QED
    BY <1>4, <2>1, <2>2, <2>3, <2>4, <2>5 DEF Step
<1>5. ASSUME NEW e \in Executors, \E j \in Jobs : RunJob(e, j)
      PROVE  HandlerOwnsItsAttempt'
  BY <1>5, UndisturbedRows DEF RunJob, Go, TypeOK, InFlight
<1>6. ASSUME NEW e \in Executors, Heartbeat(e) \/ HeartbeatGivesUp(e) \/ StrayHeartbeat(e)
      PROVE  HandlerOwnsItsAttempt'
  <2>1. UNCHANGED <<pc, claim>>
    BY <1>6 DEF Heartbeat, HeartbeatGivesUp, StrayHeartbeat
  <2>2. \A j \in Jobs : /\ jobs'[j].status = jobs[j].status
                       /\ jobs'[j].owner = jobs[j].owner
                       /\ jobs'[j].attempt = jobs[j].attempt
    BY <1>6 DEF Heartbeat, HeartbeatGivesUp, StrayHeartbeat, Extend, TypeOK
  <2> QED
    BY <2>1, <2>2 DEF HandlerOwnsItsAttempt
<1>7. ASSUME NEW e \in Executors, StoreError(e) \/ Crash(e)
      PROVE  HandlerOwnsItsAttempt'
  BY <1>7, UndisturbedRows DEF StoreError, Crash, Return, Proceed, Go, TypeOK, InFlight
<1> QED
  BY <1>1, <1>2, <1>3, <1>4, <1>5, <1>6, <1>7 DEF Next

\* On one host, where the file lock excludes, a job stays with the attempt
\* that runs its handler until that attempt recorded its outcome, whatever
\* happens to the leases meanwhile.
THEOREM HandlersKeepTheirJobs ==
    ASSUME SingleHost
    PROVE  Spec => []HandlerOwnsItsAttempt
<1>1. Init => KernelHeld /\ HandlerOwnsItsAttempt
  BY DEF Init, KernelHeld, HandlerOwnsItsAttempt, Locked, InFlight
<1>2. /\ TypeOK /\ KernelHeld /\ HandlerOwnsItsAttempt /\ [Next]_vars
      => KernelHeld' /\ HandlerOwnsItsAttempt'
  BY KernelStep, OwnStep
<1>3. Spec => []TypeOK
  BY TypeCorrect
<1> QED
  BY <1>1, <1>2, <1>3, PTL DEF Spec

-----------------------------------------------------------------------------
(* JobQueue implements AttemptLedger, on any number of hosts.              *)
(*                                                                         *)
(* The ledger's holder is the executor in flight whose fence would pass.   *)
(* There is at most one, because the fence asks for the writer lease; the  *)
(* steps of the queue either leave it, end it, or start one where there    *)
(* was none.                                                               *)

LEMMA OneHolds ==
    ASSUME NEW e \in Executors, NEW f \in Executors, Holds(e), Holds(f)
    PROVE  e = f
BY DEF Holds, LeaseHeld

\* No step below lets an attempt begin to hold.
Shrinks == \A f \in Executors : Holds(f)' => Holds(f) /\ claim'[f] = claim[f]

LEMMA HolderShrinks ==
    ASSUME Shrinks
    PROVE  Holder' = Holder \/ Holder' = {}
<1>1. CASE \E f \in Executors : Holds(f)'
  <2>1. PICK f \in Executors : Holds(f)'
    BY <1>1
  <2>2. \A g \in Executors : (Holds(g) => g = f) /\ (Holds(g)' => g = f)
    BY <2>1, OneHolds DEF Shrinks
  <2>3. Holds(f) /\ claim'[f] = claim[f]
    BY <2>1 DEF Shrinks
  <2>4. Holder = {claim[f]}
    BY <2>2, <2>3 DEF Holder
  <2>5. Holder' = {claim'[f]}
    BY <2>1, <2>2 DEF Holder
  <2> QED
    BY <2>3, <2>4, <2>5
<1>2. CASE \A f \in Executors : ~Holds(f)'
  BY <1>2 DEF Holder
<1> QED
  BY <1>1, <1>2

\* A step that touches no status and no attempt, and lets nobody begin.
LEMMA QuietStep ==
    ASSUME TypeOK, Shrinks,
           \A j \in Jobs : jobs'[j].status = jobs[j].status /\ jobs'[j].attempt = jobs[j].attempt
    PROVE  [Ledger!Next]_(Ledger!vars)
<1>1. /\ [j \in Jobs |-> jobs'[j].status] = [j \in Jobs |-> jobs[j].status]
      /\ [j \in Jobs |-> jobs'[j].attempt] = [j \in Jobs |-> jobs[j].attempt]
  OBVIOUS
<1>2. CASE Holder' = Holder
  BY <1>1, <1>2 DEF Ledger!vars
<1>3. CASE Holder # {} /\ Holder' = {}
  BY <1>1, <1>3 DEF Ledger!Next, Ledger!Lapse
<1> QED
  BY <1>2, <1>3, HolderShrinks

\* Holder is the same set when everybody holds as before.
LEMMA SameHolder ==
    ASSUME \A f \in Executors : Holds(f)' <=> Holds(f),
           \A f \in Executors : Holds(f) => claim'[f] = claim[f]
    PROVE  Holder' = Holder
BY DEF Holder

LEMMA RetryStep ==
    ASSUME TypeOK, NEW i \in Jobs, jobs[i].status \in {"failed", "succeeded"},
           jobs' = [jobs EXCEPT ![i] = Requeued(@)], Holder' = Holder
    PROVE  Ledger!Next
<1>1. jobs \in [Jobs -> JobRow]
  BY DEF TypeOK, JobRow
<1>2. \A j \in Jobs : /\ jobs'[j].status = IF j = i THEN "queued" ELSE jobs[j].status
                      /\ jobs'[j].attempt = jobs[j].attempt
  BY <1>1 DEF Requeued, Settled, JobRow
<1>3. Ledger!Retry(i)
  BY <1>2 DEF Ledger!Retry
<1> QED
  BY <1>3 DEF Ledger!Next, Ledger!Jobs, Jobs

\* Rows that are not running back no holder.
LEMMA RunningRows ==
    ASSUME \A j \in Jobs : jobs[j].status = "running" \/ jobs'[j].status = "running"
                           => jobs'[j] = jobs[j],
           UNCHANGED <<writer, pc, claim>>
    PROVE  Holder' = Holder
<1>1. \A f \in Executors : Holds(f)' <=> Holds(f)
  BY DEF Holds, LeaseHeld
<1> QED
  BY <1>1, SameHolder

LEMMA SubmissionStep ==
    ASSUME TypeOK, Submission
    PROVE  Ledger!Next
<1> USE DEF Ledger!Jobs, Jobs
<1>1. jobs \in [Jobs -> JobRow]
  BY DEF TypeOK, JobRow
<1>2. ASSUME NEW d \in Documents, PutJob(d)
      PROVE  Ledger!Next
  <2>1. PICK j \in Jobs : NextJob(j) /\ jobs' = [jobs EXCEPT ![j] = Row("import_document", d)]
    BY <1>2 DEF PutJob
  <2>2. /\ \A i \in Jobs : jobs'[i].status = IF i = j THEN "queued" ELSE jobs[i].status
        /\ \A i \in Jobs : jobs'[i].attempt = IF i = j THEN 0 ELSE jobs[i].attempt
    BY <1>1, <2>1 DEF Row
  <2>3. Holder' = Holder
    BY <1>1, <1>2, <2>1, RunningRows DEF PutJob, NextJob, Row
  <2>4. Ledger!Submit(j, {})
    BY <2>1, <2>2, <2>3 DEF Ledger!Submit, NextJob
  <2> QED
    BY <2>4 DEF Ledger!Next
<1>3. ASSUME NEW d \in Documents, TombstoneAndPutJob(d)
      PROVE  Ledger!Next
  <2>1. PICK j \in Jobs : /\ NextJob(j)
                          /\ jobs' = [Superseded(d) EXCEPT ![j] = Row("delete_document", d)]
    BY <1>3 DEF TombstoneAndPutJob
  <2> DEFINE failed == {i \in Jobs : /\ jobs[i].document = d
                                     /\ jobs[i].operation = "import_document"
                                     /\ jobs[i].status = "queued"}
  <2>2. \A i \in Jobs : Superseded(d)[i] = IF i \in failed THEN Settled(jobs[i], "failed") ELSE jobs[i]
    BY DEF Superseded
  <2>3. \A i \in Jobs : /\ Settled(jobs[i], "failed").status = "failed"
                        /\ Settled(jobs[i], "failed").attempt = jobs[i].attempt
    BY <1>1 DEF Settled, JobRow
  <2>4. \A i \in Jobs : jobs'[i] = IF i = j THEN Row("delete_document", d)
                                   ELSE IF i \in failed THEN Settled(jobs[i], "failed")
                                   ELSE jobs[i]
    BY <2>1, <2>2 DEF Superseded
  <2>5. /\ \A i \in Jobs : jobs'[i].status = IF i = j THEN "queued"
                                             ELSE IF i \in failed THEN "failed"
                                             ELSE jobs[i].status
        /\ \A i \in Jobs : jobs'[i].attempt = IF i = j THEN 0 ELSE jobs[i].attempt
    BY <2>3, <2>4 DEF Row
  <2>6. jobs[j].status = "absent" /\ j \notin failed
    BY <2>1 DEF NextJob
  <2>7. Holder' = Holder
    BY <1>3, <2>4, <2>5, <2>6, RunningRows DEF TombstoneAndPutJob
  <2>8. PICK S \in SUBSET (Jobs \ {j}) : S = failed
    BY <2>6
  <2>9. Ledger!Submit(j, S)
    BY <2>5, <2>6, <2>7, <2>8 DEF Ledger!Submit
  <2> QED
    BY <2>9 DEF Ledger!Next
<1>4. ASSUME NEW j \in Jobs, RetryJob(j, {"failed"}) \/ RetryJob(j, {"failed", "succeeded"})
      PROVE  Ledger!Next
  <2>1. jobs[j].status \in {"failed", "succeeded"} /\ jobs' = [jobs EXCEPT ![j] = Requeued(@)]
    BY <1>4 DEF RetryJob
  <2>2. Requeued(jobs[j]).status = "queued"
    BY <1>1 DEF Requeued, Settled, JobRow
  <2>3. Holder' = Holder
    BY <1>1, <1>4, <2>1, <2>2, RunningRows DEF RetryJob
  <2> QED
    BY <2>1, <2>3, RetryStep
<1> QED
  BY <1>2, <1>3, <1>4 DEF Submission

\* reconcile() under a file lock, by an executor that is not in flight.
LEMMA ReconcileStep ==
    ASSUME TypeOK, Reconcile, UNCHANGED claim,
           \A f \in Executors : pc'[f] \in InFlight <=> pc[f] \in InFlight
    PROVE  Ledger!Next
<1> USE DEF Ledger!Jobs, Jobs
<1> DEFINE interrupted == {i \in Jobs : Expired(jobs[i])}
<1>1. jobs \in [Jobs -> JobRow]
  BY DEF TypeOK, JobRow
<1>2. \A i \in Jobs : jobs'[i] = IF i \in interrupted THEN Requeued(jobs[i]) ELSE jobs[i]
  BY DEF Reconcile, ReconciledJobs
<1>3. \A i \in Jobs : Requeued(jobs[i]).status = "queued" /\ Requeued(jobs[i]).attempt = jobs[i].attempt
  BY <1>1 DEF Requeued, Settled, JobRow
<1>4. \A i \in Jobs : /\ jobs'[i].status = IF i \in interrupted THEN "queued" ELSE jobs[i].status
                      /\ jobs'[i].attempt = jobs[i].attempt
  BY <1>2, <1>3
<1>5. \A i \in interrupted : jobs[i].status = "running" /\ jobs[i].lease < 0
  BY DEF Expired
<1>6. \A f \in Executors : Holds(f)' <=> Holds(f)
  <2> SUFFICES ASSUME NEW f \in Executors
               PROVE  LeaseHeld(f, claim[f])' <=> LeaseHeld(f, claim[f])
    BY DEF Holds
  <2>1. CASE writer.lease < 0
    <3>1. writer.lease \in Leases /\ writer'.owner = Nobody
      BY <2>1 DEF TypeOK, Reconcile, ReconciledWriter, Unowned
    <3>2. ~(writer.lease > 0)
      BY <2>1, <3>1 DEF Leases
    <3>3. ~LeaseHeld(f, claim[f])
      BY <3>2 DEF LeaseHeld
    <3>4. ~LeaseHeld(f, claim[f])'
      BY <3>1 DEF LeaseHeld
    <3> QED
      BY <3>3, <3>4
  <2>2. CASE ~(writer.lease < 0) /\ claim[f].job \in interrupted
    <3>1. jobs[claim[f].job].lease < 0 /\ jobs'[claim[f].job].status = "queued"
      BY <2>2, <1>4, <1>5
    <3>2. jobs[claim[f].job].lease \in Leases
      BY <2>2, <1>1 DEF JobRow
    <3> QED
      BY <3>1, <3>2 DEF LeaseHeld, Leases
  <2>3. CASE ~(writer.lease < 0) /\ claim[f].job \notin interrupted
    BY <2>3, <1>2 DEF LeaseHeld, Reconcile, ReconciledWriter
  <2> QED
    BY <2>1, <2>2, <2>3
<1>7. \A c \in Holder : c.job \notin interrupted
  <2> SUFFICES ASSUME NEW f \in Executors, LeaseHeld(f, claim[f]), claim[f].job \in interrupted
               PROVE  FALSE
    BY DEF Holder, Holds
  <2>1. jobs[claim[f].job].lease \in Leases
    BY <1>1 DEF JobRow
  <2> QED
    BY <1>5, <2>1 DEF LeaseHeld, Leases
<1>8. Holder' = Holder
  BY <1>6, SameHolder
<1>9. PICK S \in SUBSET Jobs : S = interrupted
  OBVIOUS
<1>10. Ledger!Requeue(S)
  BY <1>4, <1>5, <1>7, <1>8, <1>9 DEF Ledger!Requeue
<1> QED
  BY <1>10 DEF Ledger!Next

\* An attempt starts: the new holder if its executor still has the writer
\* lease (then nobody else holds), and nothing changes for the others.
LEMMA ClaimStep ==
    ASSUME TypeOK, NEW e \in Executors, ClaimJob(e)
    PROVE  Ledger!Next
<1> USE DEF Ledger!Jobs, Jobs
<1>1. jobs \in [Jobs -> JobRow]
  BY DEF TypeOK, JobRow
<1>2. PICK j \in Claimable(e) :
          /\ jobs' = [jobs EXCEPT ![j] = Claimed(@, e)]
          /\ claim' = [claim EXCEPT ![e] = [job |-> j, attempt |-> jobs[j].attempt + 1]]
  BY DEF ClaimJob
<1>3. j \in Jobs /\ jobs[j].status = "queued"
  BY DEF Claimable
<1>4. /\ Claimed(jobs[j], e).status = "running"
      /\ Claimed(jobs[j], e).attempt = jobs[j].attempt + 1
      /\ Claimed(jobs[j], e).owner = e
      /\ Claimed(jobs[j], e).lease = LeaseSeconds
  BY <1>1, <1>3 DEF Claimed, JobRow
<1>5. /\ jobs'[j] = Claimed(jobs[j], e)
      /\ \A i \in Jobs \ {j} : jobs'[i] = jobs[i]
  BY <1>1, <1>2, <1>3
<1>6. /\ [i \in Jobs |-> jobs'[i].status]
         = [[i \in Jobs |-> jobs[i].status] EXCEPT ![j] = "running"]
      /\ [i \in Jobs |-> jobs'[i].attempt]
         = [[i \in Jobs |-> jobs[i].attempt] EXCEPT ![j] = @ + 1]
  BY <1>3, <1>4, <1>5
<1>7. ~Holds(e)
  BY DEF ClaimJob, Holds, InFlight
<1>8. \A f \in Executors \ {e} : (Holds(f)' <=> Holds(f)) /\ claim'[f] = claim[f]
  <2> SUFFICES ASSUME NEW f \in Executors \ {e}
               PROVE  (Holds(f)' <=> Holds(f)) /\ claim'[f] = claim[f]
    OBVIOUS
  <2>1. claim'[f] = claim[f] /\ pc'[f] = pc[f] /\ writer' = writer
    BY <1>2 DEF ClaimJob, Go, TypeOK
  <2>2. CASE claim[f].job = j
    <3>1. jobs[claim[f].job].status # "running" /\ jobs'[claim[f].job].owner # f
      BY <2>2, <1>3, <1>4, <1>5
    <3> QED
      BY <2>1, <3>1 DEF Holds, LeaseHeld
  <2>3. CASE claim[f].job # j
    BY <2>1, <2>3, <1>5 DEF Holds, LeaseHeld
  <2> QED
    BY <2>1, <2>2, <2>3
<1>9. claim'[e] = [job |-> j, attempt |-> jobs[j].attempt + 1]
  BY <1>2 DEF TypeOK
<1>10. CASE Holds(e)'
  <2>1. \A f \in Executors : Holds(f)' => f = e
    BY <1>10 DEF Holds, LeaseHeld
  <2>2. Holder = {}
    BY <1>7, <1>8, <2>1 DEF Holder
  <2>3. Holder' = {[job |-> j, attempt |-> jobs[j].attempt + 1]}
    BY <1>9, <1>10, <2>1 DEF Holder
  <2>4. Ledger!Begin(j)
    BY <1>3, <1>6, <2>2, <2>3 DEF Ledger!Begin
  <2> QED
    BY <1>3, <2>4 DEF Ledger!Next
<1>11. CASE ~Holds(e)'
  <2>1. Holder' = Holder
    <3>1. \A f \in Executors : Holds(f)' <=> Holds(f)
      BY <1>7, <1>8, <1>11
    <3>2. \A f \in Executors : Holds(f) => claim'[f] = claim[f]
      BY <1>7, <1>8
    <3> QED
      BY <3>1, <3>2, SameHolder
  <2>2. Ledger!Begin(j)
    BY <1>3, <1>6, <2>1 DEF Ledger!Begin
  <2> QED
    BY <1>3, <2>2 DEF Ledger!Next
<1> QED
  BY <1>10, <1>11

\* Only the holder settles; a settlement refused by the fence is silent.
LEMMA FinishStep ==
    ASSUME TypeOK, NEW e \in Executors, Finish(e)
    PROVE  [Ledger!Next]_(Ledger!vars)
<1> USE DEF Ledger!Jobs, Jobs
<1>1. jobs \in [Jobs -> JobRow]
  BY DEF TypeOK, JobRow
<1>2. pc[e] \in InFlight /\ pc'[e] \notin InFlight /\ UNCHANGED <<claim, writer>>
  BY DEF Finish, Go, InFlight, TypeOK, thread
<1>3. \A f \in Executors \ {e} : pc'[f] = pc[f]
  BY DEF Finish, Go, TypeOK
<1>4. CASE LeaseHeld(e, claim[e])
  <2>1. PICK outcome \in {"succeeded", "failed"} :
            jobs' = [jobs EXCEPT ![claim[e].job] = Settled(@, outcome)]
    BY <1>4 DEF Finish
  <2>2. PICK c \in Claims : c = claim[e]
    BY DEF TypeOK
  <2>3. c.job \in Jobs /\ jobs[c.job].status = "running" /\ jobs[c.job].attempt = c.attempt
    BY <1>4, <2>2 DEF LeaseHeld
  <2>4. /\ Settled(jobs[c.job], outcome).status = outcome
        /\ Settled(jobs[c.job], outcome).attempt = jobs[c.job].attempt
    BY <1>1, <2>3 DEF Settled, JobRow
  <2>5. jobs'[c.job] = Settled(jobs[c.job], outcome)
    BY <1>1, <2>1, <2>2, <2>3
  <2>6. /\ [i \in Jobs |-> jobs'[i].status]
           = [[i \in Jobs |-> jobs[i].status] EXCEPT ![c.job] = outcome]
        /\ [i \in Jobs |-> jobs'[i].attempt] = [i \in Jobs |-> jobs[i].attempt]
    BY <1>1, <2>1, <2>2, <2>3, <2>4, <2>5
  <2>7. Holds(e)
    BY <1>2, <1>4 DEF Holds
  <2>8. Holder = {c}
    BY <2>2, <2>7, OneHolds DEF Holder
  <2>9. \A f \in Executors : ~Holds(f)'
    <3> SUFFICES ASSUME NEW f \in Executors, Holds(f)' PROVE FALSE
      OBVIOUS
    <3>1. f # e
      BY <1>2 DEF Holds
    <3>2. writer.owner = f
      BY <1>2 DEF Holds, LeaseHeld
    <3> QED
      BY <1>4, <3>1, <3>2 DEF LeaseHeld
  <2>10. Holder' = {}
    BY <2>9 DEF Holder
  <2>11. Ledger!Settle(c, outcome)
    BY <2>3, <2>6, <2>8, <2>10 DEF Ledger!Settle
  <2> QED
    BY <2>11 DEF Ledger!Next, Ledger!Attempts, Claims
<1>5. CASE ~LeaseHeld(e, claim[e])
  <2>1. jobs' = jobs
    BY <1>5 DEF Finish
  <2>2. Shrinks
    BY <1>2, <1>3, <2>1 DEF Shrinks, Holds, LeaseHeld
  <2> QED
    BY <2>1, <2>2, QuietStep
<1> QED
  BY <1>4, <1>5

\* Steps on an executor's own locals, and the reads.
LEMMA LocalStep ==
    ASSUME TypeOK, NEW e \in Executors, UNCHANGED jobs,
           writer' = writer \/ writer' = Unowned,
           \A f \in Executors : pc'[f] \in InFlight => pc[f] \in InFlight /\ claim'[f] = claim[f]
    PROVE  [Ledger!Next]_(Ledger!vars)
<1>1. Shrinks
  BY DEF Shrinks, Holds, LeaseHeld, Unowned
<1> QED
  BY <1>1, QuietStep

LEMMA LeaseStep ==
    ASSUME TypeOK, NEW e \in Executors, Heartbeat(e) \/ StrayHeartbeat(e)
    PROVE  [Ledger!Next]_(Ledger!vars)
<1>1. jobs \in [Jobs -> JobRow] /\ UNCHANGED <<pc, claim>>
  BY DEF TypeOK, JobRow, Heartbeat, StrayHeartbeat
<1>2. CASE UNCHANGED tables
  BY <1>1, <1>2, LocalStep DEF tables
<1>3. ASSUME NEW c \in Claims, LeaseHeld(e, c), Extend(c)
      PROVE  [Ledger!Next]_(Ledger!vars)
  <2>1. c.job \in Jobs /\ jobs[c.job].lease > 0 /\ writer.lease > 0 /\ writer' = [writer EXCEPT !.lease = LeaseSeconds]
    BY <1>3 DEF LeaseHeld, Extend
  <2>2. \A j \in Jobs : /\ jobs'[j].status = jobs[j].status
                        /\ jobs'[j].attempt = jobs[j].attempt
                        /\ jobs'[j].owner = jobs[j].owner
                        /\ jobs'[j].lease > 0 => jobs[j].lease > 0
    BY <1>1, <1>3, <2>1 DEF Extend, JobRow
  <2>3. writer'.owner = writer.owner
    BY <2>1 DEF TypeOK
  <2>4. Shrinks
    BY <1>1, <2>1, <2>2, <2>3 DEF Shrinks, Holds, LeaseHeld
  <2> QED
    BY <2>2, <2>4, QuietStep
<1> QED
  BY <1>2, <1>3 DEF Heartbeat, StrayHeartbeat, TypeOK

LEMMA TickStep ==
    ASSUME TypeOK, Tick
    PROVE  [Ledger!Next]_(Ledger!vars)
<1>1. jobs \in [Jobs -> JobRow] /\ UNCHANGED <<pc, claim>>
  BY DEF TypeOK, JobRow, Tick
<1>2. \A l \in Leases : Elapse(l) > 0 => l > 0
  BY DEF Leases, Elapse
<1>3. \A j \in Jobs : /\ jobs'[j].status = jobs[j].status
                      /\ jobs'[j].attempt = jobs[j].attempt
                      /\ jobs'[j].owner = jobs[j].owner
                      /\ jobs'[j].lease = Elapse(jobs[j].lease)
                      /\ jobs[j].lease \in Leases
  BY <1>1 DEF Tick, JobRow
<1>4. writer'.owner = writer.owner /\ writer'.lease = Elapse(writer.lease) /\ writer.lease \in Leases
  BY DEF TypeOK, Tick
<1>5. Shrinks
  BY <1>1, <1>2, <1>3, <1>4 DEF Shrinks, Holds, LeaseHeld
<1> QED
  BY <1>3, <1>5, QuietStep

\* The writer lease is free or expired, or the executor's own: nobody holds.
LEMMA AcquireStep ==
    ASSUME TypeOK, NEW e \in Executors, AcquireWriter(e)
    PROVE  [Ledger!Next]_(Ledger!vars)
<1>1. UNCHANGED <<jobs, claim>> /\ writer' = [owner |-> e, lease |-> LeaseSeconds]
  BY DEF AcquireWriter
<1>2. pc'[e] \notin InFlight
  BY DEF AcquireWriter, Go, TypeOK, InFlight
<1>3. Shrinks
  BY <1>1, <1>2 DEF Shrinks, Holds, LeaseHeld
<1> QED
  BY <1>1, <1>3, QuietStep

LEMMA ExecutorStep ==
    ASSUME TypeOK, NEW e \in Executors, Step(e)
    PROVE  [Ledger!Next]_(Ledger!vars)
<1> USE DEF tables, thread
<1>1. CASE WorkerReconcile(e)
  BY <1>1, ReconcileStep DEF WorkerReconcile, Go, TypeOK, InFlight
<1>2. CASE RunJobReconcile(e)
  BY <1>2, ReconcileStep DEF RunJobReconcile, Go, TypeOK, InFlight
<1>3. CASE RunOnce(e) \/ RunOnceRefused(e) \/ ClaimNothing(e)
  BY <1>3, LocalStep DEF RunOnce, RunOnceRefused, ClaimNothing, Go, TypeOK, InFlight
<1>4. CASE RunJobRead(e) \/ WriterRefused(e)
  BY <1>4, LocalStep DEF RunJobRead, WriterRefused, Return, Proceed, Go, TypeOK, InFlight
<1>5. CASE RunJobRetry(e)
  <2>2. CASE jobs' = jobs
    BY <1>5, <2>2, LocalStep DEF RunJobRetry, Go, TypeOK, InFlight
  <2>3. CASE jobs' # jobs
    <3>1. /\ target[e] \in Jobs \cup {NoJob}
          /\ jobs[target[e]].status = "failed"
          /\ jobs' = [jobs EXCEPT ![target[e]] = Requeued(@)]
      BY <1>5, <2>3 DEF RunJobRetry, TypeOK
    <3>2. target[e] \in Jobs
      BY <2>3, <3>1 DEF TypeOK, Jobs, NoJob
    <3>3. Requeued(jobs[target[e]]).status = "queued"
      BY <3>2 DEF TypeOK, Requeued, Settled
    <3>4. \A f \in Executors : (Holds(f)' <=> Holds(f))
      BY <1>5, <3>1, <3>2, <3>3 DEF RunJobRetry, Holds, LeaseHeld, Go, TypeOK, InFlight
    <3>5. Holder' = Holder
      BY <1>5, <3>4, SameHolder DEF RunJobRetry
    <3> QED
      BY <3>1, <3>2, <3>5, RetryStep
  <2> QED
    BY <2>2, <2>3
<1>6. CASE AcquireWriter(e)
  BY <1>6, AcquireStep
<1>7. CASE ClaimJob(e)
  BY <1>7, ClaimStep
<1>8. CASE HandlerReturns(e) \/ HandlerRaises(e) \/ JoinHeartbeat(e)
  BY <1>8, LocalStep
     DEF HandlerReturns, HandlerRaises, JoinHeartbeat, Stopping, Go, TypeOK, InFlight
<1>9. CASE Finish(e)
  BY <1>9, FinishStep
<1>10. CASE ReleaseWriter(e)
  BY <1>10, LocalStep DEF ReleaseWriter, Return, Go, TypeOK, InFlight
<1> QED
  BY <1>1, <1>2, <1>3, <1>4, <1>5, <1>6, <1>7, <1>8, <1>9, <1>10 DEF Step

LEMMA NextStep ==
    ASSUME TypeOK, [Next]_vars
    PROVE  [Ledger!Next]_(Ledger!vars)
<1> USE DEF tables, thread
<1>1. CASE UNCHANGED vars
  <2>1. Holder' = Holder
    BY <1>1, SameHolder DEF vars, Holds, LeaseHeld
  <2> QED
    BY <1>1, <2>1 DEF vars, Ledger!vars
<1>2. CASE Submission
  BY <1>2, SubmissionStep
<1>3. CASE Tick
  BY <1>3, TickStep
<1>4. ASSUME NEW e \in Executors, Step(e)
      PROVE  [Ledger!Next]_(Ledger!vars)
  BY <1>4, ExecutorStep
<1>5. ASSUME NEW e \in Executors, NEW j \in Jobs, RunJob(e, j)
      PROVE  [Ledger!Next]_(Ledger!vars)
  BY <1>5, LocalStep DEF RunJob, Go, TypeOK, InFlight
<1>6. ASSUME NEW e \in Executors, Heartbeat(e) \/ StrayHeartbeat(e)
      PROVE  [Ledger!Next]_(Ledger!vars)
  BY <1>6, LeaseStep
<1>7. ASSUME NEW e \in Executors, HeartbeatGivesUp(e)
      PROVE  [Ledger!Next]_(Ledger!vars)
  BY <1>7, LocalStep DEF HeartbeatGivesUp
<1>8. ASSUME NEW e \in Executors, StoreError(e) \/ Crash(e)
      PROVE  [Ledger!Next]_(Ledger!vars)
  BY <1>8, LocalStep DEF StoreError, Crash, Return, Proceed, Go, TypeOK, InFlight
<1> QED
  BY <1>1, <1>2, <1>3, <1>4, <1>5, <1>6, <1>7, <1>8 DEF Next

\* The durable queue implements the ledger of attempts for every number of
\* executors, hosts, jobs and attempts and every lease length: at most one
\* attempt may publish, none after it lost a lease, none whose job was put
\* back or started again, and only that one settles its job.
THEOREM QueueImplementsLedger == Spec => LedgerSpec
<1>1. Init => Ledger!Init
  BY DEF Init, Ledger!Init, Ledger!Jobs, Jobs, Holder, Holds, InFlight
<1>2. TypeOK /\ [Next]_vars => [Ledger!Next]_(Ledger!vars)
  BY NextStep
<1> QED
  BY <1>1, <1>2, TypeCorrect, PTL DEF Spec, LedgerSpec, Ledger!Spec

=============================================================================
