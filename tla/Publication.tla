---------------------------- MODULE Publication ----------------------------
(***************************************************************************)
(* The life of one source document under the default (legacy) profile: its *)
(* rows in the manifest (documents, versions, chunks, engine_indexes and   *)
(* engine_index_heads), its vectors, its graph and its private originals,  *)
(* as ingestion.py, metadata.py, indexes.py and files.py change them.      *)
(*                                                                         *)
(* Three parties meet here.  Importers are host commands inside            *)
(* prepare_import: a read, then one file write and up to six transactions. *)
(* A deletion is one transaction.  The handler is what the durable queue   *)
(* runs: one at a time on a host (JobQueueProofs, HandlersKeepTheirJobs),  *)
(* each of its manifest writes fenced by its lease, its writes to the      *)
(* vector store, the graph and the files fenced only by a check made       *)
(* before them.                                                            *)
(*                                                                         *)
(* Jobs of other documents share only the queue, which is in JobQueue.     *)
(***************************************************************************)
EXTENDS Integers, Sequences, FiniteSets

CONSTANTS
    Importers,     \* concurrent prepare_import calls for this source
    Versions,      \* its successive contents; equal bytes are the same version
    None,
    MaxDeletions,  \* bound: deletions ever submitted
    MaxRetries,    \* bound: retries of failed imports by the operator
    MaxFaults      \* bound: failed calls, lost leases and crashes of the handler

ASSUME PublicationAssumption ==
    /\ None \notin Versions
    /\ IsFiniteSet(Versions)
    /\ MaxDeletions \in Nat
    /\ MaxRetries \in Nat
    /\ MaxFaults \in Nat

VARIABLES
    document,  \* the documents row: absent, live, or deleted_at set
    active,    \* active_version_id
    version,   \* versions.status
    chunks,    \* versions whose chunk rows are written
    index,     \* status of the GraphMind index of each version
    head,      \* the version whose index engine_index_heads names
    files,     \* versions whose private original is on disk
    vectors,   \* how much of each version the vector store holds
    graph,     \* versions the graph holds (its writes are transactions)
    jobs,      \* this document's jobs, in created_at order
    stage,     \* where the handler is
    current,   \* the job it works on
    noted,     \* what it read first: the source is active; an index exists
    held,      \* its job and writer leases still stand
    import,    \* per importer: where it is and what it read
    retries,
    faults

manifest == <<document, active, version, chunks, index, head>>
stores == <<files, vectors, graph>>
handler == <<stage, current, noted, held>>
bounds == <<retries, faults>>
vars == <<manifest, stores, jobs, handler, import, bounds>>

ImportStages == {"begin", "preparing", "starting", "auditing", "indexing", "indexed",
                 "vector", "vectored", "graph", "graphed", "completing",
                 "publishing", "published", "failing", "condemning"}
DeleteStages == {"invalidating", "dropVectors", "droppedVectors", "dropGraph",
                 "droppedGraph", "dropFiles", "droppedFiles"}
Running == ImportStages \cup DeleteStages \cup {"returned", "raised"}
\* Inside the try of _process_import: an error fails the index and the version.
Tried == {"starting", "auditing", "indexing", "indexed", "vector", "vectored",
          "graph", "graphed", "completing", "publishing", "published"}

Submissions == {"idle", "staging", "writing", "purging", "versioning",
                "chunking", "indexing", "queueing", "retrying"}

Row == [op : {"import_document", "delete_document"},
        version : Versions \cup {None},
        status : {"queued", "running", "succeeded", "failed"}]

TypeOK ==
    /\ document \in {"absent", "live", "deleted"}
    /\ active \in Versions \cup {None}
    /\ version \in [Versions -> {"absent", "staged", "indexing", "ready", "failed"}]
    /\ chunks \in SUBSET Versions
    /\ index \in [Versions -> {"absent", "staged", "building", "ready", "failed", "invalidated"}]
    /\ head \in Versions \cup {None}
    /\ files \in SUBSET Versions
    /\ vectors \in [Versions -> {"none", "some", "all"}]
    /\ graph \in SUBSET Versions
    /\ jobs \in Seq(Row)
    /\ stage \in Running \cup {"idle"}
    /\ current \in Nat
    /\ noted \in BOOLEAN
    /\ held \in BOOLEAN
    /\ import \in [Importers -> [at : Submissions, version : Versions \cup {None},
                                 restore : BOOLEAN, stale : BOOLEAN]]
    /\ retries \in 0 .. MaxRetries
    /\ faults \in 0 .. MaxFaults

Resting == [at |-> "idle", version |-> None, restore |-> FALSE, stale |-> FALSE]

Init ==
    /\ document = "absent"
    /\ active = None
    /\ version = [v \in Versions |-> "absent"]
    /\ chunks = {}
    /\ index = [v \in Versions |-> "absent"]
    /\ head = None
    /\ files = {}
    /\ vectors = [v \in Versions |-> "none"]
    /\ graph = {}
    /\ jobs = <<>>
    /\ stage = "idle"
    /\ current = 0
    /\ noted = FALSE
    /\ held = FALSE
    /\ import = [i \in Importers |-> Resting]
    /\ retries = 0
    /\ faults = 0

Deletions == {j \in DOMAIN jobs : jobs[j].op = "delete_document"}
ImportsOf(v) == {j \in DOMAIN jobs : jobs[j].op = "import_document" /\ jobs[j].version = v}
\* The latest cleanup job decides whether a tombstone may be lifted.
CleanedUp == \E j \in Deletions : /\ \A k \in Deletions : k <= j
                                  /\ jobs[j].status = "succeeded"

\* IndexRepository.ready: the head counts only while its source is active.
Ready(v) == /\ head = v
            /\ active = v
            /\ document = "live"
            /\ version[v] = "ready"
            /\ index[v] = "ready"

-----------------------------------------------------------------------------
(* prepare_import.                                                         *)

Advance(i, at) == import' = [import EXCEPT ![i].at = at]
Leave(i) == import' = [import EXCEPT ![i] = Resting]

\* The reads before the first write.  A deleted source needs its cleanup; an
\* unchanged and served one is returned as it stands.
Survey(i, v) ==
    /\ import[i].at = "idle"
    /\ document = "deleted" => CleanedUp
    /\ ~(Ready(v) /\ \E j \in ImportsOf(v) : jobs[j].status = "succeeded")
    /\ import' = [import EXCEPT ![i] = [at |-> "staging", version |-> v,
                                        restore |-> document = "deleted",
                                        stale |-> ~Ready(v)]]
    /\ UNCHANGED <<manifest, stores, jobs, handler, bounds>>

PutBytes(i) ==
    /\ import[i].at = "staging"
    /\ files' = files \cup {import[i].version}
    /\ Advance(i, "writing")
    /\ UNCHANGED <<manifest, vectors, graph, jobs, handler, bounds>>

\* put_document: a restoring import checks the cleanup again, in its own
\* transaction; any other leaves a tombstone alone and finds it set.
PutDocument(i) ==
    /\ import[i].at = "writing"
    /\ IF document = "deleted" /\ import[i].restore /\ ~CleanedUp
       THEN Leave(i) /\ UNCHANGED document
       ELSE IF document = "deleted" /\ ~import[i].restore
       THEN Advance(i, "purging") /\ UNCHANGED document
       ELSE Advance(i, "versioning") /\ document' = "live"
    /\ UNCHANGED <<active, version, chunks, index, head, stores, jobs, handler, bounds>>

\* The document was deleted meanwhile: its files go, then the import is refused.
Purge(i) ==
    /\ import[i].at = "purging"
    /\ files' = {}
    /\ Leave(i)
    /\ UNCHANGED <<manifest, vectors, graph, jobs, handler, bounds>>

PutVersion(i) ==
    /\ import[i].at = "versioning"
    /\ version' = [version EXCEPT ![import[i].version] = IF @ = "absent" THEN "staged" ELSE @]
    /\ Advance(i, "chunking")
    /\ UNCHANGED <<document, active, chunks, index, head, stores, jobs, handler, bounds>>

ReplaceChunks(i) ==
    /\ import[i].at = "chunking"
    /\ chunks' = chunks \cup {import[i].version}
    /\ Advance(i, "indexing")
    /\ UNCHANGED <<document, active, version, index, head, stores, jobs, handler, bounds>>

\* IndexRepository.prepare: a tombstone refuses it, a known index is kept.
Prepared(v) == [index EXCEPT ![v] = IF @ = "absent" THEN "staged" ELSE @]
PrepareIndex(i) ==
    /\ import[i].at = "indexing"
    /\ IF document = "deleted"
       THEN Leave(i) /\ UNCHANGED index
       ELSE Advance(i, "queueing") /\ index' = Prepared(import[i].version)
    /\ UNCHANGED <<document, active, version, chunks, head, stores, jobs, handler, bounds>>

\* put_job: the version is the idempotency key.  A job that had succeeded is
\* put back when the source it published is served no more.
PutImportJob(i) ==
    /\ import[i].at = "queueing"
    /\ LET v == import[i].version
           known == ImportsOf(v)
       IN  /\ jobs' = IF known # {} THEN jobs
                      ELSE Append(jobs, [op |-> "import_document", version |-> v,
                                         status |-> "queued"])
           /\ IF import[i].stale /\ \E j \in known : jobs[j].status = "succeeded"
              THEN Advance(i, "retrying") ELSE Leave(i)
    /\ UNCHANGED <<manifest, stores, handler, bounds>>

RetryImport(i) ==
    /\ import[i].at = "retrying"
    /\ jobs' = [j \in DOMAIN jobs |->
                   IF j \in ImportsOf(import[i].version) /\ jobs[j].status \in {"failed", "succeeded"}
                   THEN [jobs[j] EXCEPT !.status = "queued"] ELSE jobs[j]]
    /\ Leave(i)
    /\ UNCHANGED <<manifest, stores, handler, bounds>>

\* The command fails or is killed between two steps: a full disk, a busy
\* database, a full queue.
Abandon(i) ==
    /\ import[i].at # "idle"
    /\ Leave(i)
    /\ UNCHANGED <<manifest, stores, jobs, handler, bounds>>

-----------------------------------------------------------------------------
(* The other submissions.                                                  *)

\* prepare_delete.  A deleted document returns its cleanup job unchanged, and
\* an active version that changed since it was read refuses the deletion.
Tombstone ==
    /\ document = "live"
    /\ Cardinality(Deletions) < MaxDeletions
    /\ document' = "deleted"
    /\ active' = None
    /\ jobs' = Append([j \in DOMAIN jobs |->
                          IF jobs[j].op = "import_document" /\ jobs[j].status = "queued"
                          THEN [jobs[j] EXCEPT !.status = "failed"] ELSE jobs[j]],
                      [op |-> "delete_document", version |-> active, status |-> "queued"])
    /\ UNCHANGED <<version, chunks, index, head, stores, handler, import, bounds>>

\* graphmind retry, and run_job of a failed submission.
Retry(j) ==
    /\ jobs[j].status = "failed"
    /\ jobs' = [jobs EXCEPT ![j].status = "queued"]
    /\ IF j \in Deletions THEN UNCHANGED retries
                         ELSE retries < MaxRetries /\ retries' = retries + 1
    /\ UNCHANGED <<manifest, stores, handler, import, faults>>

-----------------------------------------------------------------------------
(* The handler: what the executor runs once it claimed a job.              *)

Job == jobs[current]
Target == Job.version
Goto(next) == stage' = next /\ UNCHANGED <<current, noted, held>>
\* A step behind _assert_job_lease: a lost lease raises past every handler.
Fenced(next) == Goto(IF held THEN next ELSE "raised")
Exit == stage' = "idle" /\ current' = 0 /\ noted' = FALSE /\ held' = FALSE

\* claim_next_job.  For one document the oldest queued job is also the one a
\* command may select; a job left running by a dead process is not in the way.
Claim(j) ==
    /\ stage = "idle"
    /\ jobs[j].status = "queued"
    /\ \A i \in 1 .. j - 1 : jobs[i].status # "queued"
    /\ jobs' = [jobs EXCEPT ![j].status = "running"]
    /\ stage' = "begin"
    /\ current' = j
    /\ held' = TRUE
    /\ UNCHANGED <<manifest, stores, noted, import, bounds>>

\* Mutant of Recover: only imports are put back.
RecoverImports ==
    /\ stage = "idle"
    /\ \E j \in DOMAIN jobs : jobs[j].status = "running" /\ jobs[j].op = "import_document"
    /\ jobs' = [j \in DOMAIN jobs |->
                   IF jobs[j].status = "running" /\ jobs[j].op = "import_document"
                   THEN [jobs[j] EXCEPT !.status = "queued"] ELSE jobs[j]]
    /\ UNCHANGED <<manifest, stores, handler, import, bounds>>

\* reconcile(): only with the file lock, so never while the handler runs.
Recover ==
    /\ stage = "idle"
    /\ \E j \in DOMAIN jobs : jobs[j].status = "running"
    /\ jobs' = [j \in DOMAIN jobs |-> IF jobs[j].status = "running"
                                     THEN [jobs[j] EXCEPT !.status = "queued"] ELSE jobs[j]]
    /\ UNCHANGED <<manifest, stores, handler, import, bounds>>

\* process_job and the reads that open the two handlers.
Begin ==
    /\ stage = "begin"
    /\ noted' = IF Job.op = "delete_document"
                THEN \E v \in Versions : index[v] # "absent"
                ELSE active = Target /\ version[Target] = "ready"
    /\ stage' = IF ~held THEN "raised"
                ELSE IF Job.op = "delete_document" THEN "invalidating" ELSE "preparing"
    /\ UNCHANGED <<manifest, stores, jobs, current, held, import, bounds>>

\* The checks between two writes: progress, or a bare assert_job_lease.
Fence ==
    /\ \/ stage = "indexed" /\ Fenced("vector")
       \/ stage = "vectored" /\ Fenced("graph")
       \/ stage = "graphed" /\ Fenced("completing")
       \/ stage = "published" /\ Fenced("returned")
       \/ stage = "droppedVectors" /\ Fenced("dropGraph")
       \/ stage = "droppedGraph" /\ Fenced("dropFiles")
       \/ stage = "droppedFiles" /\ Fenced("returned")
    /\ UNCHANGED <<manifest, stores, jobs, import, bounds>>

-----------------------------------------------------------------------------
(* _process_import.                                                        *)

\* Not fenced, and outside the try.
Prepare ==
    /\ stage = "preparing"
    /\ IF document = "deleted" THEN Goto("raised") /\ UNCHANGED index
                               ELSE Goto("starting") /\ index' = Prepared(Target)
    /\ UNCHANGED <<document, active, version, chunks, head, stores, jobs, import, bounds>>

\* _owned: the fence, then a source that is not deleted.
Owned == held /\ document # "deleted"
Disowned == IF held THEN "failing" ELSE "raised"

StartIndex ==
    /\ stage = "starting"
    /\ IF ~Owned
       THEN Goto(Disowned) /\ UNCHANGED index
       ELSE /\ index' = [index EXCEPT ![Target] = IF @ = "ready" THEN @ ELSE "building"]
            /\ Goto(IF Target \notin chunks THEN "failing"
                    ELSE IF noted THEN "auditing" ELSE "indexing")
    /\ UNCHANGED <<document, active, version, chunks, head, stores, jobs, import, bounds>>

Stored(v) == vectors[v] = "all" /\ v \in graph
Completable(v) == index[v] \in {"building", "ready"}
Current(v) == active = v /\ document = "live" /\ version[v] = "ready"

\* The source was active already: compare the stores, point the head at it.
Audit ==
    /\ stage = "auditing"
    /\ IF ~(Owned /\ Stored(Target) /\ Completable(Target) /\ Current(Target))
       THEN Goto(Disowned) /\ UNCHANGED <<index, head>>
       ELSE /\ index' = [index EXCEPT ![Target] = "ready"]
            /\ head' = Target
            /\ Goto("published")
    /\ UNCHANGED <<document, active, version, chunks, stores, jobs, import, bounds>>

MarkIndexing ==
    /\ stage = "indexing"
    /\ version' = IF held THEN [version EXCEPT ![Target] = "indexing"] ELSE version
    /\ Fenced("indexed")
    /\ UNCHANGED <<document, active, chunks, index, head, stores, jobs, import, bounds>>

UpsertVectors ==
    /\ stage = "vector"
    /\ vectors' = [vectors EXCEPT ![Target] = "all"]
    /\ Goto("vectored")
    /\ UNCHANGED <<manifest, files, graph, jobs, import, bounds>>

UpsertGraph ==
    /\ stage = "graph"
    /\ graph' = graph \cup {Target}
    /\ Goto("graphed")
    /\ UNCHANGED <<manifest, files, vectors, jobs, import, bounds>>

\* Both stores verified, the index becomes ready; nobody is pointed at it yet.
CompleteIndex ==
    /\ stage = "completing"
    /\ IF ~(Stored(Target) /\ Owned /\ Completable(Target))
       THEN Goto(Disowned) /\ UNCHANGED index
       ELSE Goto("publishing") /\ index' = [index EXCEPT ![Target] = "ready"]
    /\ UNCHANGED <<document, active, version, chunks, head, stores, jobs, import, bounds>>

\* Mutant of Publish: the tombstone is not looked at.
PublishTombstoned ==
    /\ stage = "publishing"
    /\ IF ~(held /\ Target \in chunks /\ index[Target] = "ready")
       THEN Goto(Disowned) /\ UNCHANGED <<document, active, version, head>>
       ELSE /\ version' = [version EXCEPT ![Target] = "ready"]
            /\ document' = "live"
            /\ active' = Target
            /\ head' = Target
            /\ Goto("published")
    /\ UNCHANGED <<chunks, index, stores, jobs, import, bounds>>

\* publish_version and publish_source_heads: one transaction.
Publish ==
    /\ stage = "publishing"
    /\ IF ~(Owned /\ Target \in chunks /\ index[Target] = "ready")
       THEN Goto(Disowned) /\ UNCHANGED <<document, active, version, head>>
       ELSE /\ version' = [version EXCEPT ![Target] = "ready"]
            /\ document' = "live"
            /\ active' = Target
            /\ head' = Target
            /\ Goto("published")
    /\ UNCHANGED <<chunks, index, stores, jobs, import, bounds>>

\* Mutant of FailIndex: a ready index is failed too.
FailAnyIndex ==
    /\ stage = "failing"
    /\ index' = IF Owned THEN [index EXCEPT ![Target] = "failed"] ELSE index
    /\ Goto(IF Owned THEN "condemning" ELSE "raised")
    /\ UNCHANGED <<document, active, version, chunks, head, stores, jobs, import, bounds>>

\* The except clause: indexes.fail (which itself raises on a tombstone), then
\* the version is failed unless it is the one being served.
FailIndex ==
    /\ stage = "failing"
    /\ index' = IF Owned /\ index[Target] # "ready"
                THEN [index EXCEPT ![Target] = "failed"] ELSE index
    /\ Goto(IF Owned THEN "condemning" ELSE "raised")
    /\ UNCHANGED <<document, active, version, chunks, head, stores, jobs, import, bounds>>

\* Mutant of FailVersion: the version is failed whether it is served or not.
FailServedVersion ==
    /\ stage = "condemning"
    /\ version' = IF held THEN [version EXCEPT ![Target] = "failed"] ELSE version
    /\ Goto("raised")
    /\ UNCHANGED <<document, active, chunks, index, head, stores, jobs, import, bounds>>

\* Mutant of FailVersion: it writes a status of the index vocabulary.
InvalidateVersion ==
    /\ stage = "condemning"
    /\ version' = IF held /\ active # Target
                  THEN [version EXCEPT ![Target] = "invalidated"] ELSE version
    /\ Goto("raised")
    /\ UNCHANGED <<document, active, chunks, index, head, stores, jobs, import, bounds>>

FailVersion ==
    /\ stage = "condemning"
    /\ version' = IF held /\ active # Target
                  THEN [version EXCEPT ![Target] = "failed"] ELSE version
    /\ Goto("raised")
    /\ UNCHANGED <<document, active, chunks, index, head, stores, jobs, import, bounds>>

-----------------------------------------------------------------------------
(* _process_delete.                                                        *)

\* invalidate_document; the lexical and derived-artifact cleanups that follow
\* find nothing to remove under this profile.
Invalidate ==
    /\ stage = "invalidating"
    /\ IF ~held \/ document # "deleted"
       THEN Goto("raised") /\ UNCHANGED <<index, head>>
       ELSE /\ index' = [v \in Versions |-> IF index[v] = "absent" THEN "absent"
                                                                  ELSE "invalidated"]
            /\ head' = None
            /\ Goto("dropVectors")
    /\ UNCHANGED <<document, active, version, chunks, stores, jobs, import, bounds>>

\* Mutant of DropVectors: only the version that was active is removed.
DropVectorsOfActive ==
    /\ stage = "dropVectors"
    /\ vectors' = [v \in Versions |-> IF v = Target THEN "none" ELSE vectors[v]]
    /\ Goto("droppedVectors")
    /\ UNCHANGED <<manifest, files, graph, jobs, import, bounds>>

DropVectors ==
    /\ stage = "dropVectors"
    /\ vectors' = IF noted THEN [v \in Versions |-> "none"] ELSE vectors
    /\ Goto("droppedVectors")
    /\ UNCHANGED <<manifest, files, graph, jobs, import, bounds>>

DropGraph ==
    /\ stage = "dropGraph"
    /\ graph' = IF noted THEN {} ELSE graph
    /\ Goto("droppedGraph")
    /\ UNCHANGED <<manifest, files, vectors, jobs, import, bounds>>

DropFiles ==
    /\ stage = "dropFiles"
    /\ files' = {}
    /\ Goto("droppedFiles")
    /\ UNCHANGED <<manifest, vectors, graph, jobs, import, bounds>>

-----------------------------------------------------------------------------
(* The end of an attempt, and its failures.                                *)

\* finish_job, behind the fence: a lost attempt stays running for Recover.
Settle ==
    /\ stage \in {"returned", "raised"}
    /\ jobs' = IF held
               THEN [jobs EXCEPT ![current].status =
                        IF stage = "returned" THEN "succeeded" ELSE "failed"]
               ELSE jobs
    /\ Exit
    /\ UNCHANGED <<manifest, stores, import, bounds>>

\* What an interrupted call leaves in the store it was writing.
Interrupted ==
    /\ vectors' \in CASE stage = "vector" ->
                         {[vectors EXCEPT ![Target] = x] :
                              x \in IF vectors[Target] = "all" THEN {"all"}
                                    ELSE {vectors[Target], "some", "all"}}
                    [] stage = "dropVectors" /\ noted ->
                         {[v \in Versions |-> IF vectors[v] = "none" THEN "none" ELSE x[v]] :
                              x \in [Versions -> {"none", "some"}]} \cup {vectors}
                    [] OTHER -> {vectors}
    /\ graph' \in CASE stage = "graph" -> {graph, graph \cup {Target}}
                  [] stage = "dropGraph" /\ noted -> {graph, {}}
                  [] OTHER -> {graph}
    /\ files' \in IF stage = "dropFiles" THEN SUBSET files ELSE {files}
    /\ faults < MaxFaults
    /\ faults' = faults + 1

\* A store, the embedding model or SQLite refuses a call of the handler.
Fault ==
    /\ stage \in Running \ {"returned", "raised"}
    /\ Interrupted
    /\ Goto(IF stage \in Tried THEN "failing" ELSE "raised")
    /\ UNCHANGED <<manifest, jobs, import, retries>>

\* Heartbeats failed: from now on every fenced step raises.
LoseLease ==
    /\ stage # "idle"
    /\ held
    /\ faults < MaxFaults
    /\ faults' = faults + 1
    /\ held' = FALSE
    /\ UNCHANGED <<manifest, stores, jobs, stage, current, noted, import, retries>>

Crash ==
    /\ stage # "idle"
    /\ Interrupted
    /\ Exit
    /\ UNCHANGED <<manifest, jobs, import, retries>>

-----------------------------------------------------------------------------

Submit(i) ==
    \/ \E v \in Versions : Survey(i, v)
    \/ PutBytes(i) \/ PutDocument(i) \/ Purge(i) \/ PutVersion(i) \/ ReplaceChunks(i)
    \/ PrepareIndex(i) \/ PutImportJob(i) \/ RetryImport(i) \/ Abandon(i)

\* What the worker does of its own accord.
Work ==
    \/ \E j \in DOMAIN jobs : Claim(j)
    \/ Recover \/ Begin \/ Fence
    \/ Prepare \/ StartIndex \/ Audit \/ MarkIndexing \/ UpsertVectors \/ UpsertGraph
    \/ CompleteIndex \/ Publish \/ FailIndex \/ FailVersion
    \/ Invalidate \/ DropVectors \/ DropGraph \/ DropFiles
    \/ Settle

Next ==
    \/ \E i \in Importers : Submit(i)
    \/ Tombstone
    \/ \E j \in DOMAIN jobs : Retry(j)
    \/ Work
    \/ Fault \/ LoseLease \/ Crash

Spec == Init /\ [][Next]_vars

-----------------------------------------------------------------------------
(* Properties.                                                             *)

\* A source that readers are pointed at is whole: its version is ready, its
\* chunks are written, its head is its own ready index, and both stores hold
\* all of it.  This is what audit_manifest (service.py) compares; here it
\* holds in every state, through deletions, retries, re-imports and crashes.
ServedSourceIsComplete ==
    active # None => /\ Ready(active)
                     /\ active \in chunks
                     /\ Stored(active)

\* Once its cleanup succeeded, nothing can be retrieved from a deleted source:
\* no import that was under way, retried or requeued has put a vector, a
\* graph node or a usable index back.
CleanupLeavesNothing ==
    document = "deleted" /\ CleanedUp =>
        /\ \A v \in Versions : vectors[v] = "none" /\ index[v] \in {"absent", "invalidated"}
        /\ graph = {}
        /\ active = None /\ head = None

\* A tombstone is lifted only when no deletion of the source is outstanding:
\* a late cleanup cannot fall on a source that was imported again.
RestoredAfterCleanup ==
    [][document = "deleted" /\ document' = "live" =>
          \A j \in Deletions : jobs[j].status = "succeeded"]_vars

\* The steps that readers can see are those of Catalogue: a publication puts
\* one version in place of another and nothing but a deletion takes the
\* source out of service ("a failed replacement preserves the previous source
\* and usable head", ARCHITECTURE.md:98).
served == [e \in {"graphmind"} |-> IF active # None /\ Ready(active) THEN active ELSE None]
Promise == INSTANCE Catalogue WITH Engines <- {"graphmind"}, deleted <- document = "deleted"
KeepsCatalogue == Promise!Spec

\* "The previous original and active version remain available until the
\* replacement passes publication checks" (ARCHITECTURE.md:75-77).
ServedOriginalIsKept ==
    [][\A v \in Versions : active = v /\ active' = v /\ v \in files => v \in files']_vars

-----------------------------------------------------------------------------
(* Liveness.  The worker polls and its external calls time out; an operator *)
(* who sees a failed cleanup retries it (README.md:77).                     *)

Fairness ==
    /\ WF_vars(Work)
    /\ \A j \in 1 .. Cardinality(Versions) + MaxDeletions :
          WF_vars(j \in Deletions /\ Retry(j))

LiveSpec == Spec /\ Fairness

\* A deletion gets through: whatever failed, the source ends up cleaned.
DeletionCompletes ==
    document = "deleted" ~> document # "deleted" \/ CleanedUp

=============================================================================
