------------------------------ MODULE JobQueue ------------------------------
(***************************************************************************)
(* The durable job queue of GraphMind: the `jobs` and `writer_lock` tables *)
(* of metadata.py and the DurableJobExecutor of jobs.py that drains them.  *)
(*                                                                         *)
(* Every method of MetadataStore is one IMMEDIATE SQLite transaction, so   *)
(* it is one step here.  What is not one step is an executor: it locks a   *)
(* file, reconciles, takes the writer lease, claims a job, runs a handler  *)
(* beside a heartbeat thread, settles the job and gives the lease back,    *)
(* and it may die or meet a busy database between any two of these.        *)
(*                                                                         *)
(* A lease is kept as the time it has left (lease_expires_at - now): it is *)
(* live while positive, reclaimable once negative, and at 0 neither (both  *)
(* comparisons of the code are strict).  -1 also stands for SQL NULL.      *)
(***************************************************************************)
EXTENDS Integers, FiniteSets

CONSTANTS
    Workers,        \* executors driven by run_forever / worker-once
    Commands,       \* one-shot host commands, each calling run_job once
    Hosts,          \* machines: the file lock is host-local (locking.py)
    HostOf,         \* the machine each executor runs on
    Documents,
    Nobody,         \* a NULL owner
    LeaseSeconds,   \* job_lease_seconds, in ticks
    MaxQueued,      \* max_queued_jobs
    MaxJobs,        \* bound: jobs ever submitted
    MaxAttempts,    \* bound: claims of one job
    MaxStoreErrors  \* bound: transactions refused by a busy database

Executors == Workers \cup Commands

ASSUME ConstantsAssumption ==
    /\ LeaseSeconds \in Nat \ {0}
    /\ MaxQueued \in Nat \ {0}
    /\ MaxJobs \in Nat
    /\ MaxAttempts \in Nat
    /\ MaxStoreErrors \in Nat
    /\ HostOf \in [Executors -> Hosts]
    /\ Workers \cap Commands = {}
    /\ Nobody \notin Executors

Jobs == 1 .. MaxJobs        \* in the order of (created_at, job_id)
NoJob == 0
Leases == -1 .. LeaseSeconds
Statuses == {"absent", "queued", "running", "succeeded", "failed"}
\* "import_document" stands for import_txt and build_index as well: the queue
\* treats the three alike.
Operations == {"import_document", "delete_document"}

VARIABLES
    jobs,    \* the jobs table: one row per submission, in created_at order
    writer,  \* the writer_lock row: its owner and lease
    kernel,  \* per host, who holds <metadata>.writer.lock
    pc,      \* where each executor is
    target,  \* the job run_job was asked for; NoJob for a worker
    claim,   \* the attempt an executor claimed: the Job value it holds
    beating, \* the executor's heartbeat thread is alive
    lost,    \* lease_lost is set
    stray,   \* the claim of a heartbeat thread whose join timed out
    errors   \* transactions refused so far

vars == <<jobs, writer, kernel, pc, target, claim, beating, lost, stray, errors>>
tables == <<jobs, writer>>
thread == <<beating, lost, stray>>

Claims == [job : 0 .. MaxJobs, attempt : 0 .. MaxAttempts]
NoClaim == [job |-> NoJob, attempt |-> 0]

Locked == {"selecting", "reading", "requeueing", "acquiring", "claiming",
           "handling", "joining", "failing", "unwinding", "succeeding",
           "disowning", "releasing"}
InFlight == {"handling", "joining", "failing", "succeeding", "disowning"}
Stages == Locked \cup {"idle", "reconciled", "exited"}

TypeOK ==
    /\ jobs \in [Jobs -> [status : Statuses,
                          operation : Operations,
                          document : Documents \cup {Nobody},
                          attempt : 0 .. MaxAttempts,
                          owner : Executors \cup {Nobody},
                          lease : Leases]]
    /\ writer \in [owner : Executors \cup {Nobody}, lease : Leases]
    /\ kernel \in [Hosts -> Executors \cup {Nobody}]
    /\ pc \in [Executors -> Stages]
    /\ target \in [Executors -> Jobs \cup {NoJob}]
    /\ claim \in [Executors -> Claims]
    /\ beating \in [Executors -> BOOLEAN]
    /\ lost \in [Executors -> BOOLEAN]
    /\ stray \in [Executors -> Claims]
    /\ errors \in 0 .. MaxStoreErrors

Unowned == [owner |-> Nobody, lease |-> -1]

Init ==
    /\ jobs = [j \in Jobs |-> [status |-> "absent", operation |-> "import_document",
                               document |-> Nobody, attempt |-> 0,
                               owner |-> Nobody, lease |-> -1]]
    /\ writer = Unowned
    /\ kernel = [h \in Hosts |-> Nobody]
    /\ pc = [e \in Executors |-> "idle"]
    /\ target = [e \in Executors |-> NoJob]
    /\ claim = [e \in Executors |-> NoClaim]
    /\ beating = [e \in Executors |-> FALSE]
    /\ lost = [e \in Executors |-> FALSE]
    /\ stray = [e \in Executors |-> NoClaim]
    /\ errors = 0

-----------------------------------------------------------------------------
(* Submissions: the host commands that write the jobs table.               *)

Pending(row) == row.status \in {"queued", "running"}
PendingJobs(table) == {j \in Jobs : Pending(table[j])}

\* The next row to be inserted: created_at grows with every submission.
NextJob(j) == /\ jobs[j].status = "absent"
              /\ \A i \in Jobs : i < j => jobs[i].status # "absent"

Row(op, d) == [status |-> "queued", operation |-> op, document |-> d,
               attempt |-> 0, owner |-> Nobody, lease |-> -1]

\* put_job of a new idempotency key; a known key returns its row unchanged.
PutJob(d) ==
    /\ Cardinality(PendingJobs(jobs)) < MaxQueued
    /\ \E j \in Jobs :
          /\ NextJob(j)
          /\ jobs' = [jobs EXCEPT ![j] = Row("import_document", d)]
    /\ UNCHANGED <<writer, kernel, pc, target, claim, thread, errors>>

\* A row that left the hands of its executor.
Settled(row, outcome) == [row EXCEPT !.status = outcome, !.owner = Nobody, !.lease = -1]

\* The queued imports and builds of a document, failed as superseded_by_delete.
Superseded(d) ==
    [j \in Jobs |->
        IF /\ jobs[j].document = d
           /\ jobs[j].operation = "import_document"
           /\ jobs[j].status = "queued"
        THEN Settled(jobs[j], "failed")
        ELSE jobs[j]]

\* tombstone_and_put_job: supersede, then check the capacity, then insert,
\* all in one transaction (a full queue rolls the superseding back).
TombstoneAndPutJob(d) ==
    /\ Cardinality(PendingJobs(Superseded(d))) < MaxQueued
    /\ \E j \in Jobs :
          /\ NextJob(j)
          /\ jobs' = [Superseded(d) EXCEPT ![j] = Row("delete_document", d)]
    /\ UNCHANGED <<writer, kernel, pc, target, claim, thread, errors>>

Requeued(row) == Settled(row, "queued")

\* Mutant of RetryJob: the status guard lets a running job through.
RetryJobAlsoRunning(j, eligible) ==
    /\ jobs[j].status \in eligible \cup {"running"}
    /\ jobs' = [jobs EXCEPT ![j] = Requeued(@)]
    /\ UNCHANGED <<writer, kernel, pc, target, claim, thread, errors>>

\* retry_job, from the retry command (failed jobs only) or from a re-import
\* of a version that is no longer active (succeeded ones too).  No capacity
\* is checked and created_at stays.
RetryJob(j, eligible) ==
    /\ jobs[j].status \in eligible
    /\ jobs' = [jobs EXCEPT ![j] = Requeued(@)]
    /\ UNCHANGED <<writer, kernel, pc, target, claim, thread, errors>>

-----------------------------------------------------------------------------
(* Recovery.                                                               *)

Expired(row) == row.status = "running" /\ row.lease < 0
ReconciledJobs == [j \in Jobs |-> IF Expired(jobs[j]) THEN Requeued(jobs[j]) ELSE jobs[j]]
ReconciledWriter == IF writer.lease < 0 THEN Unowned ELSE writer

\* MetadataStore.reconcile
Reconcile ==
    /\ jobs' = ReconciledJobs
    /\ writer' = ReconciledWriter

KernelFree(e) == kernel[HostOf[e]] = Nobody
Go(e, stage) == pc' = [pc EXCEPT ![e] = stage]
TakeKernel(e) == kernel' = [kernel EXCEPT ![HostOf[e]] = e]
DropKernel(e) == kernel' = [kernel EXCEPT ![HostOf[e]] = Nobody]
\* The call is left: its locals are gone and the file lock is dropped.  A
\* worker polls again; a command's process ends, and its threads with it.
Return(e) ==
    /\ Go(e, IF e \in Workers THEN "idle" ELSE "exited")
    /\ DropKernel(e)
    /\ target' = [target EXCEPT ![e] = NoJob]
    /\ claim' = [claim EXCEPT ![e] = NoClaim]
    /\ lost' = [lost EXCEPT ![e] = FALSE]
    /\ stray' = IF e \in Workers THEN stray ELSE [stray EXCEPT ![e] = NoClaim]
    /\ UNCHANGED beating
Proceed(e, stage) == Go(e, stage) /\ UNCHANGED <<kernel, target, claim, thread>>

\* Mutant of WorkerReconcile: the loop goes straight to run_once.
WorkerSkipsReconcile(e) ==
    /\ e \in Workers
    /\ pc[e] = "idle"
    /\ KernelFree(e)
    /\ Go(e, "reconciled")
    /\ UNCHANGED <<tables, kernel, target, claim, thread, errors>>

\* DurableJobExecutor.reconcile: the file lock is tried, held over one
\* transaction and dropped.
WorkerReconcile(e) ==
    /\ e \in Workers
    /\ pc[e] = "idle"
    /\ KernelFree(e)
    /\ Reconcile
    /\ Go(e, "reconciled")
    /\ UNCHANGED <<kernel, target, claim, thread, errors>>

RunOnce(e) ==
    /\ pc[e] = "reconciled"
    /\ KernelFree(e)
    /\ TakeKernel(e)
    /\ Go(e, "acquiring")
    /\ UNCHANGED <<tables, target, claim, thread, errors>>

\* run_once found the file lock taken: JobLeaseError, and the loop polls again.
RunOnceRefused(e) ==
    /\ pc[e] = "reconciled"
    /\ ~KernelFree(e)
    /\ Go(e, "idle")
    /\ UNCHANGED <<tables, kernel, target, claim, thread, errors>>

-----------------------------------------------------------------------------
(* run_job: one explicit submission.                                       *)

\* Mutant of RunJob: a refused file lock is ignored.
RunJobIgnoringLock(e, j) ==
    /\ e \in Commands
    /\ pc[e] = "idle"
    /\ jobs[j].status \notin {"absent", "succeeded"}
    /\ TakeKernel(e)
    /\ target' = [target EXCEPT ![e] = j]
    /\ Go(e, "selecting")
    /\ UNCHANGED <<tables, claim, thread, errors>>

\* The unlocked first read turned away a missing or succeeded job.
RunJob(e, j) ==
    /\ e \in Commands
    /\ pc[e] = "idle"
    /\ jobs[j].status \notin {"absent", "succeeded"}
    /\ KernelFree(e)
    /\ TakeKernel(e)
    /\ target' = [target EXCEPT ![e] = j]
    /\ Go(e, "selecting")
    /\ UNCHANGED <<tables, claim, thread, errors>>

RunJobReconcile(e) ==
    /\ pc[e] = "selecting"
    /\ Reconcile
    /\ Go(e, "reading")
    /\ UNCHANGED <<kernel, target, claim, thread, errors>>

\* The re-read under the lock: done, still leased, to be retried, or queued.
RunJobRead(e) ==
    /\ pc[e] = "reading"
    /\ CASE jobs[target[e]].status \in {"succeeded", "running"} -> Return(e)
         [] jobs[target[e]].status = "failed" -> Proceed(e, "requeueing")
         [] OTHER -> Proceed(e, "acquiring")
    /\ UNCHANGED <<tables, errors>>

RunJobRetry(e) ==
    /\ pc[e] = "requeueing"
    /\ jobs' = IF jobs[target[e]].status = "failed"
               THEN [jobs EXCEPT ![target[e]] = Requeued(@)]
               ELSE jobs
    /\ Go(e, "acquiring")
    /\ UNCHANGED <<writer, kernel, target, claim, thread, errors>>

-----------------------------------------------------------------------------
(* _run_once_locked.                                                       *)

WriterAvailable(e) == writer.owner \in {Nobody, e} \/ writer.lease < 0

AcquireWriter(e) ==
    /\ pc[e] = "acquiring"
    /\ WriterAvailable(e)
    /\ writer' = [owner |-> e, lease |-> LeaseSeconds]
    /\ Go(e, "claiming")
    /\ UNCHANGED <<jobs, kernel, target, claim, thread, errors>>

WriterRefused(e) ==
    /\ pc[e] = "acquiring"
    /\ ~WriterAvailable(e)
    /\ Return(e)
    /\ UNCHANGED <<tables, errors>>

Earlier(j) == {i \in Jobs : i < j}
\* Mutant of OldestQueued: a job is its own predecessor.
OldestQueuedInclusive(j) == \A i \in 1 .. j : jobs[i].status # "queued"
OldestQueued(j) == \A i \in Earlier(j) : jobs[i].status # "queued"
NoPredecessor(j) ==
    \A i \in Earlier(j) : ~(jobs[i].document = jobs[j].document /\ Pending(jobs[i]))

\* The candidate row of claim_next_job; a worker's query has no predecessor
\* test.  A job at the bound MaxAttempts is not offered.
Claimable(e) ==
    {j \in Jobs : /\ jobs[j].status = "queued"
                  /\ IF target[e] = NoJob THEN OldestQueued(j)
                                          ELSE j = target[e] /\ NoPredecessor(j)
                  /\ jobs[j].attempt < MaxAttempts}

Claimed(row, e) == [row EXCEPT !.status = "running", !.attempt = row.attempt + 1,
                               !.owner = e, !.lease = LeaseSeconds]

ClaimJob(e) ==
    /\ pc[e] = "claiming"
    /\ \E j \in Claimable(e) :
          /\ jobs' = [jobs EXCEPT ![j] = Claimed(@, e)]
          /\ claim' = [claim EXCEPT ![e] = [job |-> j, attempt |-> jobs[j].attempt + 1]]
    /\ beating' = [beating EXCEPT ![e] = TRUE]
    /\ lost' = [lost EXCEPT ![e] = FALSE]
    /\ Go(e, "handling")
    /\ UNCHANGED <<writer, kernel, target, stray, errors>>

ClaimNothing(e) ==
    /\ pc[e] = "claiming"
    /\ Claimable(e) = {}
    /\ Go(e, "releasing")
    /\ UNCHANGED <<tables, kernel, target, claim, thread, errors>>

-----------------------------------------------------------------------------
(* The fence and the heartbeat.                                            *)

\* _assert_job_lease.  Document, operation and payload of a row never change,
\* so comparing them adds nothing to comparing the job and the attempt.
LeaseHeld(e, c) ==
    /\ c.job \in Jobs
    /\ jobs[c.job].status = "running"
    /\ jobs[c.job].owner = e
    /\ jobs[c.job].attempt = c.attempt
    /\ jobs[c.job].lease > 0
    /\ writer.owner = e
    /\ writer.lease > 0

\* Mutant of Extend: the lease is prolonged, not renewed.
ExtendByLease(c) ==
    /\ jobs' = [jobs EXCEPT ![c.job].lease = @ + LeaseSeconds]
    /\ writer' = [writer EXCEPT !.lease = @ + LeaseSeconds]

Extend(c) ==
    /\ jobs' = [jobs EXCEPT ![c.job].lease = LeaseSeconds]
    /\ writer' = [writer EXCEPT !.lease = LeaseSeconds]

\* The handler has returned or raised: stop_heartbeat is set, and the thread
\* ends after the call it may be in.
Stopping(e) == pc[e] \in {"joining", "unwinding"}

\* Mutant of Heartbeat: ownership is checked, expiry is not.
HeartbeatWithoutFence(e) ==
    /\ beating[e]
    /\ jobs[claim[e].job].status = "running"
    /\ jobs[claim[e].job].owner = e
    /\ writer.owner = e
    /\ Extend(claim[e])
    /\ beating' = [beating EXCEPT ![e] = ~Stopping(e)]
    /\ UNCHANGED <<kernel, pc, target, claim, lost, stray, errors>>

Heartbeat(e) ==
    /\ beating[e]
    /\ LeaseHeld(e, claim[e])
    /\ Extend(claim[e])
    /\ beating' = [beating EXCEPT ![e] = ~Stopping(e)]
    /\ UNCHANGED <<kernel, pc, target, claim, lost, stray, errors>>

\* heartbeat() returned False, or raised: lease_lost is set in both cases.
HeartbeatGivesUp(e) ==
    /\ beating[e]
    /\ \/ ~LeaseHeld(e, claim[e]) /\ UNCHANGED errors
       \/ errors < MaxStoreErrors /\ errors' = errors + 1
    /\ beating' = [beating EXCEPT ![e] = FALSE]
    /\ lost' = [lost EXCEPT ![e] = TRUE]
    /\ UNCHANGED <<tables, kernel, pc, target, claim, stray>>

\* The last call of a thread that outlived its join.
StrayHeartbeat(e) ==
    /\ stray[e] # NoClaim
    /\ IF LeaseHeld(e, stray[e]) THEN Extend(stray[e]) ELSE UNCHANGED tables
    /\ stray' = [stray EXCEPT ![e] = NoClaim]
    /\ UNCHANGED <<kernel, pc, target, claim, beating, lost, errors>>

-----------------------------------------------------------------------------
(* The handler's outcome and the settlement.                               *)

HandlerReturns(e) ==
    /\ pc[e] = "handling"
    /\ Go(e, "joining")
    /\ UNCHANGED <<tables, kernel, target, claim, thread, errors>>

HandlerRaises(e) ==
    /\ pc[e] = "handling"
    /\ Go(e, "failing")
    /\ UNCHANGED <<tables, kernel, target, claim, thread, errors>>

\* heartbeat.join: the thread ended, or the timeout left it behind.
JoinHeartbeat(e) ==
    /\ Stopping(e)
    /\ beating' = [beating EXCEPT ![e] = FALSE]
    /\ \/ UNCHANGED stray
       \/ /\ beating[e]
          /\ stray' = [stray EXCEPT ![e] = claim[e]]
    /\ Go(e, CASE pc[e] = "unwinding" -> "releasing"
               [] pc[e] = "joining" /\ lost[e] -> "disowning"
               [] OTHER -> "succeeding")
    /\ UNCHANGED <<tables, kernel, target, claim, lost, errors>>

\* _finish: finish_job behind the fence.  A lost lease leaves the row to
\* reconcile(), whether the error is swallowed or raised.
Finish(e) ==
    /\ pc[e] \in {"succeeding", "disowning", "failing"}
    /\ jobs' = IF LeaseHeld(e, claim[e])
               THEN [jobs EXCEPT ![claim[e].job] =
                        Settled(@, IF pc[e] = "succeeding" THEN "succeeded" ELSE "failed")]
               ELSE jobs
    /\ Go(e, IF pc[e] = "failing" THEN "unwinding" ELSE "releasing")
    /\ UNCHANGED <<writer, kernel, target, claim, thread, errors>>

\* The finally of _run_once_locked, then the file lock is dropped.
ReleaseWriter(e) ==
    /\ pc[e] = "releasing"
    /\ writer' = IF writer.owner = e THEN Unowned ELSE writer
    /\ Return(e)
    /\ UNCHANGED <<jobs, errors>>

-----------------------------------------------------------------------------
(* The environment.                                                        *)

\* A transaction of the executor raises (database is locked): the call that
\* made it is left through its finally blocks.
StoreError(e) ==
    /\ errors < MaxStoreErrors
    /\ errors' = errors + 1
    /\ CASE pc[e] \in {"selecting", "reading", "requeueing", "acquiring", "releasing"} ->
                Return(e)
         [] pc[e] \in {"claiming", "succeeding", "disowning"} -> Proceed(e, "releasing")
         [] pc[e] = "failing" -> Proceed(e, "unwinding")
         [] OTHER -> FALSE
    /\ UNCHANGED tables

\* The process dies; the operating system drops its file lock.  A service
\* manager starts another worker, under a fresh owner name: some worker is
\* always left.
Crash(e) ==
    /\ pc[e] # "exited"
    /\ e \in Workers => \E w \in Workers \ {e} : pc[w] # "exited"
    /\ pc' = [pc EXCEPT ![e] = "exited"]
    /\ kernel' = [h \in Hosts |-> IF kernel[h] = e THEN Nobody ELSE kernel[h]]
    /\ target' = [target EXCEPT ![e] = NoJob]
    /\ claim' = [claim EXCEPT ![e] = NoClaim]
    /\ beating' = [beating EXCEPT ![e] = FALSE]
    /\ lost' = [lost EXCEPT ![e] = FALSE]
    /\ stray' = [stray EXCEPT ![e] = NoClaim]
    /\ UNCHANGED <<tables, errors>>

Elapse(lease) == IF lease > -1 THEN lease - 1 ELSE lease

Tick ==
    /\ jobs' = [j \in Jobs |-> [jobs[j] EXCEPT !.lease = Elapse(@)]]
    /\ writer' = [writer EXCEPT !.lease = Elapse(@)]
    /\ UNCHANGED <<kernel, pc, target, claim, thread, errors>>

-----------------------------------------------------------------------------

\* What an executor does of its own accord once it was started.
Step(e) ==
    \/ WorkerReconcile(e) \/ RunOnce(e) \/ RunOnceRefused(e)
    \/ RunJobReconcile(e) \/ RunJobRead(e) \/ RunJobRetry(e)
    \/ AcquireWriter(e) \/ WriterRefused(e)
    \/ ClaimJob(e) \/ ClaimNothing(e)
    \/ HandlerReturns(e) \/ HandlerRaises(e)
    \/ JoinHeartbeat(e) \/ Finish(e) \/ ReleaseWriter(e)

Submission ==
    \/ \E d \in Documents : PutJob(d) \/ TombstoneAndPutJob(d)
    \/ \E j \in Jobs : RetryJob(j, {"failed"}) \/ RetryJob(j, {"failed", "succeeded"})

Next ==
    \/ Submission
    \/ \E e \in Executors :
          \/ Step(e)
          \/ \E j \in Jobs : RunJob(e, j)
          \/ Heartbeat(e) \/ HeartbeatGivesUp(e) \/ StrayHeartbeat(e)
          \/ StoreError(e) \/ Crash(e)
    \/ Tick

Spec == Init /\ [][Next]_vars

-----------------------------------------------------------------------------
(* Properties.                                                             *)

SingleHost == \A e, f \in Executors : HostOf[e] = HostOf[f]

\* While a handler runs, or its outcome is still to be recorded, the job it
\* works on is its own: no reconciliation, retry, deletion or claim has taken
\* the row away, however late its heartbeats are.  The file lock of run_once
\* and run_job exists for this (jobs.py:44): a lease that expired does not
\* hand the job to a second process while the first still writes its stores.
HandlerOwnsItsAttempt ==
    \A e \in Executors : pc[e] \in InFlight =>
        /\ claim[e].job \in Jobs
        /\ jobs[claim[e].job].status = "running"
        /\ jobs[claim[e].job].owner = e
        /\ jobs[claim[e].job].attempt = claim[e].attempt

\* Whoever is between taking and dropping the file lock of its host holds it.
KernelHeld ==
    \A e \in Executors : pc[e] \in Locked => kernel[HostOf[e]] = e

\* The attempts the fence lets publish.
Holds(e) == pc[e] \in InFlight /\ LeaseHeld(e, claim[e])
Holder == {claim[e] : e \in {x \in Executors : Holds(x)}}

\* The queue implements the ledger, whatever the number of hosts: with the
\* file locks of two hosts blind to each other, the leases alone still let
\* one attempt publish at a time, and none after it lost its lease.
Ledger == INSTANCE AttemptLedger WITH
              status <- [j \in Jobs |-> jobs[j].status],
              attempt <- [j \in Jobs |-> jobs[j].attempt],
              holder <- Holder
LedgerSpec == Ledger!Spec

\* "Normal workers retain FIFO" (jobs.py:75): no job starts while an earlier
\* job of its document is still pending.
Starts(j) == jobs[j].status = "queued" /\ jobs'[j].status = "running"
WorkersRetainFIFO ==
    [][\A j \in Jobs : Starts(j) =>
          \A i \in Earlier(j) : ~(jobs[i].document = jobs[j].document /\ Pending(jobs[i]))]_vars

-----------------------------------------------------------------------------
(* Liveness.  run_forever keeps polling, handlers terminate (every external *)
(* call has a timeout), time passes.  Commands, crashes, heartbeats and     *)
(* busy databases are under no obligation to happen.                        *)

Fairness ==
    /\ \A e \in Executors : WF_vars(Step(e))
    /\ WF_vars(Tick)

LiveSpec == Spec /\ Fairness

\* A job left running by a dead, stalled or refused process is recovered.
NoJobStranded ==
    \A j \in Jobs : jobs[j].status = "running" ~> jobs[j].status # "running"

\* A queued job is claimed or superseded, unless it or an earlier
\* job met the bound MaxAttempts.
QueuedJobsAreServed ==
    \A j \in Jobs : jobs[j].status = "queued" ~>
        \/ jobs[j].status # "queued"
        \/ \E i \in 1 .. j : jobs[i].attempt = MaxAttempts

=============================================================================
