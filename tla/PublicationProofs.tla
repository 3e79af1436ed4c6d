------------------------- MODULE PublicationProofs -------------------------
(***************************************************************************)
(* For any number of importers, versions, deletions and failures: a source *)
(* that is served is complete, a cleaned one leaves nothing behind, and no *)
(* tombstone is lifted under an outstanding deletion.                      *)
(***************************************************************************)
EXTENDS Publication, SequenceTheorems, TLAPS

-----------------------------------------------------------------------------
(* The inductive invariant, in the parts each step can disturb.            *)

\* The handler past Begin, by the kind of its job.
Importing == ImportStages \ {"begin"}
Started == Importing \ {"preparing"}
Indexing == {"indexing", "indexed", "vector", "vectored", "graph", "graphed",
             "completing", "publishing"}
Vectored == {"vectored", "graph", "graphed", "completing", "publishing"}
Graphed == {"graphed", "completing", "publishing"}
Invalidated == DeleteStages \ {"invalidating"}
Unvectored == Invalidated \ {"dropVectors"}
Ungraphed == {"droppedGraph", "dropFiles", "droppedFiles"}

Deleting(stages) == \/ stage \in stages
                    \/ stage = "returned" /\ Job.op = "delete_document"

ImportersHaveVersions ==
    \A i \in Importers : import[i].at # "idle" => import[i].version \in Versions

ImportJobsHaveVersions ==
    \A j \in DOMAIN jobs : jobs[j].op = "import_document" => jobs[j].version \in Versions

\* The handler works on a running job of the kind its stage belongs to.
HandlerHasJob ==
    stage # "idle" => /\ current \in DOMAIN jobs
                      /\ Job.status = "running"
                      /\ stage \in Importing => Job.op = "import_document"
                      /\ stage \in DeleteStages => Job.op = "delete_document"

\* Only the latest deletion may be outstanding, and only under a tombstone.
OneDeletionOutstanding ==
    \A j \in Deletions : jobs[j].status # "succeeded" =>
        /\ document = "deleted"
        /\ \A k \in Deletions : k <= j

\* What the handler read first about its source stays true, as far as a
\* tombstone lets it.
NotedHolds ==
    /\ stage \in Importing /\ ~noted => active # Target \/ stage \in {"published", "failing", "condemning"}
    /\ stage \in Indexing => ~noted
    /\ Deleting(DeleteStages) /\ ~noted => \A v \in Versions : index[v] = "absent"

\* Stores are written only for a prepared index.
StoresAreIndexed ==
    /\ \A v \in Versions : index[v] = "absent" => vectors[v] = "none" /\ v \notin graph
    /\ stage \in Started => index[Target] # "absent"

BuildProgress ==
    /\ stage \in Vectored => vectors[Target] = "all"
    /\ stage \in Graphed => Target \in graph

CleanupProgress ==
    /\ Deleting(Invalidated) =>
          head = None /\ \A v \in Versions : index[v] \in {"absent", "invalidated"}
    /\ Deleting(Unvectored) => \A v \in Versions : vectors[v] = "none"
    /\ Deleting(Ungraphed) => graph = {}

\* No import is past its first tombstone check once a cleanup is done.
NoImportAfterCleanup == stage \in Started /\ document = "deleted" => ~CleanedUp

Inv == /\ TypeOK
       /\ ImportersHaveVersions /\ ImportJobsHaveVersions
       /\ HandlerHasJob /\ OneDeletionOutstanding
       /\ NotedHolds /\ StoresAreIndexed /\ BuildProgress /\ CleanupProgress
       /\ NoImportAfterCleanup
       /\ ServedSourceIsComplete /\ CleanupLeavesNothing

-----------------------------------------------------------------------------
(* Lemmas about the job table.                                             *)

\* A row-by-row update of the table is a table of the same length.
LEMMA TableUpdate ==
    ASSUME NEW S, NEW s \in Seq(S), NEW t \in [DOMAIN s -> S]
    PROVE  t \in Seq(S) /\ Len(t) = Len(s) /\ DOMAIN t = DOMAIN s
BY DOMAIN t = 1 .. Len(s), Len(s) \in Nat

LEMMA StatusUpdate ==
    ASSUME NEW r \in Row, NEW s \in {"queued", "running", "succeeded", "failed"}
    PROVE  /\ [r EXCEPT !.status = s] \in Row
           /\ [r EXCEPT !.status = s].op = r.op
           /\ [r EXCEPT !.status = s].version = r.version
           /\ [r EXCEPT !.status = s].status = s
BY DEF Row

\* What a step leaves of the table when it settles no deletion and submits
\* none: each row keeps its kind, the same deletions are done, and a new row
\* is the import of a version.
Reshuffled ==
    /\ jobs' \in Seq(Row)
    /\ DOMAIN jobs \subseteq DOMAIN jobs'
    /\ \A j \in DOMAIN jobs : /\ jobs'[j].op = jobs[j].op
                              /\ jobs'[j].version = jobs[j].version
                              /\ jobs[j].op = "delete_document" =>
                                   (jobs'[j].status = "succeeded" <=> jobs[j].status = "succeeded")
    /\ \A j \in DOMAIN jobs' \ DOMAIN jobs : /\ jobs'[j].op = "import_document"
                                             /\ jobs'[j].version \in Versions

LEMMA ReshuffledTable ==
    ASSUME Inv, Reshuffled, UNCHANGED document
    PROVE  /\ Deletions' = Deletions
           /\ CleanedUp' <=> CleanedUp
           /\ ImportJobsHaveVersions'
           /\ OneDeletionOutstanding'
<1>1. Deletions' = Deletions
  BY DEF Reshuffled, Deletions
<1>2. CleanedUp' <=> CleanedUp
  BY <1>1 DEF Reshuffled, CleanedUp, Deletions
<1>3. ImportJobsHaveVersions'
  BY DEF Inv, Reshuffled, ImportJobsHaveVersions
<1>4. OneDeletionOutstanding'
  BY <1>1 DEF Inv, Reshuffled, OneDeletionOutstanding, Deletions
<1>. QED  BY <1>1, <1>2, <1>3, <1>4

\* Such a step keeps the invariant when it touches nothing else the handler
\* or the stores depend on, and not the job the handler works on.
LEMMA ReshuffledStep ==
    ASSUME Inv, Reshuffled, UNCHANGED <<manifest, stores, handler>>, TypeOK', ImportersHaveVersions',
           stage # "idle" => jobs'[current] = jobs[current]
    PROVE  Inv'
<1>. USE DEF manifest, stores, handler
<1>1. /\ Deletions' = Deletions
      /\ CleanedUp' <=> CleanedUp
      /\ ImportJobsHaveVersions'
      /\ OneDeletionOutstanding'
  BY ReshuffledTable
<1>2. stage # "idle" => current \in DOMAIN jobs' /\ Job' = Job /\ Target' = Target
  BY DEF Reshuffled, Inv, HandlerHasJob, Job, Target
<1>3. HandlerHasJob'
  BY <1>2 DEF Inv, HandlerHasJob
<1>5. NotedHolds' /\ StoresAreIndexed' /\ BuildProgress' /\ CleanupProgress'
  BY <1>2 DEF Inv, NotedHolds, StoresAreIndexed, BuildProgress, CleanupProgress, Deleting,
       Importing, Started, Indexing, Vectored, Graphed, Invalidated, Unvectored, Ungraphed,
       ImportStages, DeleteStages
<1>6. NoImportAfterCleanup' /\ ServedSourceIsComplete' /\ CleanupLeavesNothing'
  BY <1>1 DEF Inv, NoImportAfterCleanup, ServedSourceIsComplete, CleanupLeavesNothing, Ready, Stored
<1>. QED  BY <1>1, <1>3, <1>5, <1>6 DEF Inv

\* While a cleanup runs, its source is deleted, serves nothing, and the
\* cleanup is the latest one.
LEMMA CleanupUnderTombstone ==
    ASSUME Inv, Deleting(DeleteStages)
    PROVE  /\ document = "deleted"
           /\ active = None
           /\ ~CleanedUp
           /\ current \in Deletions
           /\ \A k \in Deletions : k <= current
<1>1. current \in Deletions /\ jobs[current].status # "succeeded"
  BY DEF Inv, TypeOK, HandlerHasJob, Deleting, DeleteStages, Deletions, Job
<1>2. document = "deleted" /\ \A k \in Deletions : k <= current
  BY <1>1 DEF Inv, OneDeletionOutstanding
<1>3. active = None
  BY <1>2 DEF Inv, ServedSourceIsComplete, Ready
<1>4. ~CleanedUp
  <2>. SUFFICES ASSUME NEW j \in Deletions, \A k \in Deletions : k <= j,
                       jobs[j].status = "succeeded"
                PROVE  FALSE
    BY DEF CleanedUp
  <2>1. j <= current /\ current <= j /\ j \in Nat /\ current \in Nat
    BY <1>1, <1>2 DEF Inv, TypeOK, Deletions
  <2>. QED  BY <1>1, <2>1
<1>. QED  BY <1>1, <1>2, <1>3, <1>4

\* A completed cleanup means that every deletion is done.
LEMMA CleanedUpCompletely ==
    ASSUME Inv, CleanedUp
    PROVE  \A j \in Deletions : jobs[j].status = "succeeded"
<1>. SUFFICES ASSUME NEW j \in Deletions, jobs[j].status # "succeeded"
              PROVE  FALSE
  OBVIOUS
<1>1. PICK k \in Deletions : (\A m \in Deletions : m <= k) /\ jobs[k].status = "succeeded"
  BY DEF CleanedUp
<1>2. j <= k /\ k <= j /\ j \in Nat /\ k \in Nat
  BY <1>1 DEF Inv, TypeOK, OneDeletionOutstanding, Deletions
<1>. QED  BY <1>1, <1>2

-----------------------------------------------------------------------------
(* The importers.                                                          *)

\* An importer that goes on keeps its version; one that leaves has none.
LEMMA ImporterMoves ==
    ASSUME Inv, NEW i \in Importers, import[i].at # "idle",
           Leave(i) \/ \E at \in Submissions \ {"idle"} : Advance(i, at)
    PROVE  /\ import' \in [Importers -> [at : Submissions, version : Versions \cup {None},
                                         restore : BOOLEAN, stale : BOOLEAN]]
           /\ ImportersHaveVersions'
<1>. DEFINE Record == [at : Submissions, version : Versions \cup {None},
                       restore : BOOLEAN, stale : BOOLEAN]
<1>1. import \in [Importers -> Record] /\ ImportersHaveVersions
  BY DEF Inv, TypeOK
<1>2. CASE Leave(i)
  <2>1. Resting \in Record
    BY DEF Resting, Submissions
  <2>2. import' = [import EXCEPT ![i] = Resting]
    BY <1>2 DEF Leave
  <2>. QED  BY <1>1, <2>1, <2>2 DEF ImportersHaveVersions, Resting
<1>3. ASSUME NEW at \in Submissions \ {"idle"}, Advance(i, at)
      PROVE  import' \in [Importers -> Record] /\ ImportersHaveVersions'
  <2>. DEFINE moved == [import[i] EXCEPT !.at = at]
  <2>1. import[i] \in Record
    BY <1>1
  <2>2. moved \in Record /\ moved.version = import[i].version
    BY <2>1
  <2>3. import' = [import EXCEPT ![i] = moved]
    BY <1>1, <1>3 DEF Advance
  <2>. QED  BY <1>1, <2>2, <2>3 DEF ImportersHaveVersions
<1>. QED  BY <1>2, <1>3

LEMMA WriteStep ==
    ASSUME Inv, NEW i \in Importers,
           PutBytes(i) \/ Purge(i) \/ PutVersion(i) \/ ReplaceChunks(i)
    PROVE  Inv'
<1>1. import[i].at # "idle" /\ import[i].version \in Versions
  BY DEF Inv, ImportersHaveVersions, PutBytes, Purge, PutVersion, ReplaceChunks
<1>2. Leave(i) \/ \E at \in Submissions \ {"idle"} : Advance(i, at)
  BY DEF PutBytes, Purge, PutVersion, ReplaceChunks, Submissions
<1>3. UNCHANGED <<document, active, index, head, vectors, graph, jobs, handler, bounds>>
  BY DEF PutBytes, Purge, PutVersion, ReplaceChunks, stores, manifest
<1>4. /\ version' \in [Versions -> {"absent", "staged", "indexing", "ready", "failed"}]
      /\ chunks' \in SUBSET Versions
      /\ files' \in SUBSET Versions
      /\ chunks \subseteq chunks'
      /\ \A v \in Versions : version[v] # "absent" => version'[v] = version[v]
  BY <1>1 DEF Inv, TypeOK, PutBytes, Purge, PutVersion, ReplaceChunks, stores, manifest
<1>5. TypeOK' /\ ImportersHaveVersions'
  BY <1>1, <1>2, <1>3, <1>4, ImporterMoves DEF Inv, TypeOK, handler, bounds
<1>6. Job' = Job /\ Target' = Target /\ Deletions' = Deletions /\ (CleanedUp' <=> CleanedUp)
  BY <1>3 DEF Job, Target, Deletions, CleanedUp, handler
<1>7. ImportJobsHaveVersions' /\ HandlerHasJob' /\ OneDeletionOutstanding' /\ NotedHolds'
  BY <1>3, <1>6 DEF Inv, ImportJobsHaveVersions, HandlerHasJob, OneDeletionOutstanding,
     NotedHolds, Deleting, handler
<1>8. StoresAreIndexed' /\ BuildProgress' /\ CleanupProgress' /\ NoImportAfterCleanup'
      /\ CleanupLeavesNothing'
  BY <1>3, <1>6 DEF Inv, StoresAreIndexed, BuildProgress, CleanupProgress, NoImportAfterCleanup,
     CleanupLeavesNothing, Deleting, handler
<1>9. ServedSourceIsComplete'
  BY <1>3, <1>4 DEF Inv, TypeOK, ServedSourceIsComplete, Ready, Stored
<1>. QED  BY <1>5, <1>7, <1>8, <1>9 DEF Inv

LEMMA PutDocumentStep ==
    ASSUME Inv, NEW i \in Importers, PutDocument(i)
    PROVE  Inv'
<1>. USE DEF PutDocument, Inv, manifest, stores, handler, bounds
<1>1. TypeOK' /\ ImportersHaveVersions'
  BY ImporterMoves, "purging" \in Submissions \ {"idle"},
     "versioning" \in Submissions \ {"idle"} DEF TypeOK, Submissions
<1>2. Deletions' = Deletions /\ (CleanedUp' <=> CleanedUp) /\ Job' = Job /\ Target' = Target
  BY DEF Deletions, CleanedUp, Job, Target
<1>3. ImportJobsHaveVersions' /\ HandlerHasJob' /\ NotedHolds' /\ StoresAreIndexed'
      /\ BuildProgress' /\ CleanupProgress'
  BY <1>2 DEF ImportJobsHaveVersions, HandlerHasJob, NotedHolds, StoresAreIndexed,
              BuildProgress, CleanupProgress, Deleting
<1>4. OneDeletionOutstanding'
  BY <1>2, CleanedUpCompletely DEF OneDeletionOutstanding
<1>5. NoImportAfterCleanup'
  BY <1>2 DEF NoImportAfterCleanup
<1>6. ServedSourceIsComplete'
  BY DEF ServedSourceIsComplete, Ready, Stored
<1>7. CleanupLeavesNothing'
  BY <1>2 DEF CleanupLeavesNothing
<1>. QED  BY <1>1, <1>2, <1>3, <1>4, <1>5, <1>6, <1>7

LEMMA PrepareIndexStep ==
    ASSUME Inv, NEW i \in Importers, PrepareIndex(i)
    PROVE  Inv'
<1>. USE DEF PrepareIndex, Inv, manifest, stores, handler, bounds
<1>0. import[i].version \in Versions
  BY DEF ImportersHaveVersions
<1>1. TypeOK' /\ ImportersHaveVersions'
  BY <1>0, ImporterMoves, "queueing" \in Submissions \ {"idle"} DEF TypeOK, Submissions, Prepared
<1>2. Deletions' = Deletions /\ (CleanedUp' <=> CleanedUp) /\ Job' = Job /\ Target' = Target
  BY DEF Deletions, CleanedUp, Job, Target
<1>3. ImportJobsHaveVersions' /\ HandlerHasJob' /\ OneDeletionOutstanding' /\ BuildProgress'
      /\ NoImportAfterCleanup'
  BY <1>2 DEF ImportJobsHaveVersions, HandlerHasJob, OneDeletionOutstanding, BuildProgress,
              NoImportAfterCleanup
<1>4. \A v \in Versions : /\ index[v] # "absent" => index'[v] = index[v]
                          /\ document = "deleted" => index'[v] = index[v]
  BY DEF TypeOK, Prepared
<1>5. Deleting(DeleteStages) => document = "deleted"
  BY CleanupUnderTombstone
<1>6. Deleting(Invalidated) => Deleting(DeleteStages)
  BY DEF Deleting, Invalidated, DeleteStages
<1>7. NotedHolds' /\ CleanupProgress'
  BY <1>2, <1>4, <1>5, <1>6 DEF NotedHolds, CleanupProgress, Deleting
<1>8. StoresAreIndexed'
  <2>1. \A v \in Versions : index'[v] = "absent" => index[v] = "absent"
    BY <1>4
  <2>2. stage \in Started => Target \in Versions
    BY DEF Started, Importing, ImportStages, HandlerHasJob, ImportJobsHaveVersions, Job, Target
  <2>. QED  BY <1>2, <1>4, <2>1, <2>2 DEF StoresAreIndexed
<1>9. ServedSourceIsComplete'
  BY <1>4 DEF ServedSourceIsComplete, Ready, Stored, TypeOK
<1>10. CleanupLeavesNothing'
  BY <1>2, <1>4 DEF CleanupLeavesNothing
<1>. QED  BY <1>1, <1>3, <1>7, <1>8, <1>9, <1>10

LEMMA PutImportJobStep ==
    ASSUME Inv, NEW i \in Importers, PutImportJob(i)
    PROVE  Inv'
<1>. DEFINE row == [op |-> "import_document", version |-> import[i].version, status |-> "queued"]
<1>1. import[i].version \in Versions
  BY DEF PutImportJob, Inv, ImportersHaveVersions
<1>2. row \in Row /\ jobs \in Seq(Row)
  BY <1>1 DEF Row, Inv, TypeOK
<1>3. jobs' = jobs \/ jobs' = Append(jobs, row)
  BY DEF PutImportJob
<1>4. Reshuffled
  BY <1>1, <1>2, <1>3 DEF Reshuffled
<1>5. stage # "idle" => jobs'[current] = jobs[current]
  BY <1>2, <1>3 DEF Inv, HandlerHasJob
<1>6. UNCHANGED <<manifest, stores, handler, bounds>>
  BY DEF PutImportJob
<1>7. TypeOK' /\ ImportersHaveVersions'
  BY <1>4, <1>6, ImporterMoves, "retrying" \in Submissions \ {"idle"}
     DEF Reshuffled, PutImportJob, Inv, TypeOK, manifest, stores, handler, bounds, Submissions
<1>. QED  BY <1>4, <1>5, <1>6, <1>7, ReshuffledStep

LEMMA RetryImportStep ==
    ASSUME Inv, NEW i \in Importers, RetryImport(i)
    PROVE  Inv'
<1>1. jobs \in Seq(Row)
  BY DEF Inv, TypeOK
<1>2. jobs' \in [DOMAIN jobs -> Row]
  <2>1. \A j \in DOMAIN jobs : jobs[j] \in Row
    BY <1>1
  <2>2. \A j \in DOMAIN jobs : [jobs[j] EXCEPT !.status = "queued"] \in Row
    BY <2>1, StatusUpdate
  <2>. QED  BY <2>1, <2>2 DEF RetryImport
<1>3. jobs' \in Seq(Row) /\ DOMAIN jobs' = DOMAIN jobs
  BY <1>1, <1>2, TableUpdate
<1>4. \A j \in DOMAIN jobs : \/ jobs'[j] = jobs[j]
                             \/ /\ jobs[j].op = "import_document"
                                /\ jobs[j].status \in {"failed", "succeeded"}
                                /\ jobs'[j] = [jobs[j] EXCEPT !.status = "queued"]
  BY DEF RetryImport, ImportsOf
<1>5. Reshuffled
  <2>1. ASSUME NEW j \in DOMAIN jobs
        PROVE  /\ jobs'[j].op = jobs[j].op
               /\ jobs'[j].version = jobs[j].version
               /\ jobs[j].op = "delete_document" => jobs'[j] = jobs[j]
    <3>. DEFINE queued == [jobs[j] EXCEPT !.status = "queued"]
    <3>1. jobs[j] \in Row
      BY <1>1
    <3>2. queued.op = jobs[j].op /\ queued.version = jobs[j].version
      BY <3>1, StatusUpdate
    <3>. HIDE DEF queued
    <3>3. jobs'[j] = jobs[j] \/ (jobs[j].op = "import_document" /\ jobs'[j] = queued)
      BY <1>4 DEF queued
    <3>. QED  BY <3>2, <3>3
  <2>. QED  BY <1>3, <2>1 DEF Reshuffled
<1>6. stage # "idle" => jobs'[current] = jobs[current]
  BY <1>4 DEF Inv, HandlerHasJob, Job
<1>7. UNCHANGED <<manifest, stores, handler, bounds>>
  BY DEF RetryImport
<1>8. TypeOK' /\ ImportersHaveVersions'
  BY <1>3, <1>7, ImporterMoves DEF RetryImport, Inv, TypeOK, manifest, stores, handler, bounds
<1>. QED  BY <1>5, <1>6, <1>7, <1>8, ReshuffledStep

-----------------------------------------------------------------------------
(* The deletion, the retries and the queue's own steps.                    *)

LEMMA TombstoneStep ==
    ASSUME Inv, Tombstone
    PROVE  Inv'
<1>. DEFINE row == [op |-> "delete_document", version |-> active, status |-> "queued"]
            kept == [j \in DOMAIN jobs |->
                        IF jobs[j].op = "import_document" /\ jobs[j].status = "queued"
                        THEN [jobs[j] EXCEPT !.status = "failed"] ELSE jobs[j]]
<1>1. jobs \in Seq(Row) /\ row \in Row
  BY DEF Inv, TypeOK, Row
<1>2. \A j \in DOMAIN jobs : jobs[j] \in Row /\ [jobs[j] EXCEPT !.status = "failed"] \in Row
  <2>1. \A j \in DOMAIN jobs : jobs[j] \in Row
    BY <1>1
  <2>. QED  BY <2>1, StatusUpdate
<1>3. kept \in Seq(Row) /\ Len(kept) = Len(jobs) /\ DOMAIN kept = DOMAIN jobs
  <2>1. kept \in [DOMAIN jobs -> Row]
    BY <1>2
  <2>. HIDE DEF kept
  <2>. QED  BY <1>1, <2>1, TableUpdate
<1>4. \A j \in DOMAIN jobs : /\ kept[j].op = jobs[j].op
                             /\ kept[j].version = jobs[j].version
                             /\ jobs[j].status # "queued" \/ jobs[j].op # "import_document"
                                  => kept[j] = jobs[j]
  <2>. SUFFICES ASSUME NEW j \in DOMAIN jobs
                PROVE  /\ kept[j].op = jobs[j].op
                       /\ kept[j].version = jobs[j].version
                       /\ jobs[j].status # "queued" \/ jobs[j].op # "import_document"
                            => kept[j] = jobs[j]
    OBVIOUS
  <2>1. /\ [jobs[j] EXCEPT !.status = "failed"].op = jobs[j].op
        /\ [jobs[j] EXCEPT !.status = "failed"].version = jobs[j].version
    BY <1>2, StatusUpdate
  <2>. QED  BY <2>1
<1>5. jobs' = Append(kept, row) /\ Len(jobs) \in Nat /\ DOMAIN jobs = 1 .. Len(jobs)
  BY <1>1 DEF Tombstone
<1>. HIDE DEF kept
<1>6. /\ jobs' \in Seq(Row)
      /\ DOMAIN jobs' = 1 .. Len(jobs) + 1
      /\ jobs'[Len(jobs) + 1] = row
      /\ \A j \in DOMAIN jobs : jobs'[j] = kept[j]
  BY <1>1, <1>3, <1>5
<1>7. Deletions' = Deletions \cup {Len(jobs) + 1} /\ \A j \in Deletions : jobs'[j] = jobs[j]
  BY <1>4, <1>5, <1>6 DEF Deletions
<1>8. ~CleanedUp'
  <2>. SUFFICES ASSUME NEW j \in Deletions', \A k \in Deletions' : k <= j,
                       jobs'[j].status = "succeeded"
                PROVE  FALSE
    BY DEF CleanedUp
  <2>1. j \in DOMAIN jobs' /\ Len(jobs) + 1 <= j
    BY <1>7 DEF Deletions
  <2>2. j = Len(jobs) + 1
    BY <1>5, <1>6, <2>1
  <2>. QED  BY <1>6, <2>2
<1>9. \A j \in Deletions : jobs[j].status = "succeeded"
  BY DEF Inv, OneDeletionOutstanding, Tombstone
<1>10. OneDeletionOutstanding'
  <2>1. \A k \in Deletions' : k <= Len(jobs) + 1
    BY <1>5, <1>7 DEF Deletions
  <2>. QED  BY <1>7, <1>9, <2>1 DEF OneDeletionOutstanding, Tombstone
<1>11. ImportJobsHaveVersions'
  BY <1>4, <1>5, <1>6 DEF Inv, ImportJobsHaveVersions
<1>12. stage # "idle" => current \in DOMAIN jobs' /\ Job' = Job /\ Target' = Target
  BY <1>4, <1>5, <1>6 DEF Inv, HandlerHasJob, Job, Target, Tombstone, handler
<1>13. ~Deleting(DeleteStages)
  BY CleanupUnderTombstone DEF Tombstone
<1>14. stage \notin DeleteStages /\ (stage = "returned" => Job.op # "delete_document")
  BY <1>13 DEF Deleting
<1>15. UNCHANGED <<version, chunks, index, head, stores, handler, import, bounds>>
  BY DEF Tombstone
<1>16. document' = "deleted" /\ active' = None
  BY DEF Tombstone
<1>17. TypeOK' /\ ImportersHaveVersions'
  BY <1>6, <1>15, <1>16 DEF Inv, TypeOK, ImportersHaveVersions, stores, handler, bounds
<1>18. HandlerHasJob'
  BY <1>12, <1>15 DEF Inv, HandlerHasJob, handler
<1>19. stage \in Importing => Target \in Versions
  BY DEF Inv, HandlerHasJob, ImportJobsHaveVersions, Job, Target, Importing, ImportStages
<1>20. NotedHolds'
  BY <1>12, <1>14, <1>15, <1>16, <1>19, PublicationAssumption
     DEF Inv, NotedHolds, handler, Deleting, DeleteStages, Importing, ImportStages, Indexing
<1>21. StoresAreIndexed' /\ BuildProgress'
  BY <1>12, <1>15 DEF Inv, StoresAreIndexed, BuildProgress, stores, handler,
     Started, Importing, ImportStages, Vectored, Graphed
<1>22. CleanupProgress'
  BY <1>12, <1>14, <1>15 DEF CleanupProgress, handler, Deleting, Invalidated, Unvectored,
     Ungraphed, DeleteStages
<1>23. NoImportAfterCleanup' /\ CleanupLeavesNothing' /\ ServedSourceIsComplete'
  BY <1>8, <1>16 DEF NoImportAfterCleanup, CleanupLeavesNothing, ServedSourceIsComplete
<1>. QED  BY <1>10, <1>11, <1>17, <1>18, <1>20, <1>21, <1>22, <1>23 DEF Inv

\* A new status for one row that leaves a deletion's success as it is.
LEMMA OneRow ==
    ASSUME Inv, NEW j \in DOMAIN jobs, NEW s \in {"queued", "running", "succeeded", "failed"},
           jobs' = [jobs EXCEPT ![j].status = s],
           j \in Deletions => (s = "succeeded" <=> jobs[j].status = "succeeded")
    PROVE  /\ Reshuffled
           /\ DOMAIN jobs' = DOMAIN jobs
           /\ \A k \in DOMAIN jobs \ {j} : jobs'[k] = jobs[k]
           /\ jobs'[j].op = jobs[j].op
           /\ jobs'[j].version = jobs[j].version
           /\ jobs'[j].status = s
<1>. DEFINE row == [jobs[j] EXCEPT !.status = s]
<1>1. jobs \in Seq(Row) /\ jobs[j] \in Row
  BY DEF Inv, TypeOK
<1>2. row \in Row /\ row.op = jobs[j].op /\ row.version = jobs[j].version /\ row.status = s
  BY <1>1, StatusUpdate
<1>3. jobs' = [jobs EXCEPT ![j] = row]
  BY <1>1
<1>. HIDE DEF row
<1>4. jobs' \in Seq(Row) /\ DOMAIN jobs' = DOMAIN jobs
  BY <1>1, <1>2, <1>3
<1>5. jobs'[j] = row /\ \A k \in DOMAIN jobs \ {j} : jobs'[k] = jobs[k]
  BY <1>1, <1>3
<1>6. Reshuffled
  BY <1>2, <1>4, <1>5 DEF Reshuffled, Deletions
<1>. QED  BY <1>2, <1>4, <1>5, <1>6

LEMMA RetryStep ==
    ASSUME Inv, NEW j \in DOMAIN jobs, Retry(j)
    PROVE  Inv'
<1>1. /\ Reshuffled
      /\ \A k \in DOMAIN jobs \ {j} : jobs'[k] = jobs[k]
  BY OneRow DEF Retry
<1>2. stage # "idle" => jobs'[current] = jobs[current]
  BY <1>1 DEF Retry, Inv, HandlerHasJob, Job
<1>3. UNCHANGED <<manifest, stores, handler, import>>
  BY DEF Retry
<1>4. retries' \in 0 .. MaxRetries /\ faults' = faults
  BY PublicationAssumption DEF Retry, Inv, TypeOK
<1>5. TypeOK' /\ ImportersHaveVersions'
  BY <1>1, <1>3, <1>4 DEF Inv, TypeOK, ImportersHaveVersions, Reshuffled, manifest, stores, handler
<1>. QED  BY <1>1, <1>2, <1>3, <1>5, ReshuffledStep

LEMMA RecoverStep ==
    ASSUME Inv, Recover
    PROVE  Inv'
<1>1. jobs \in Seq(Row) /\ \A j \in DOMAIN jobs : jobs[j] \in Row
  BY DEF Inv, TypeOK
<1>2. jobs' \in [DOMAIN jobs -> Row]
  <2>1. \A j \in DOMAIN jobs : [jobs[j] EXCEPT !.status = "queued"] \in Row
    BY <1>1, StatusUpdate
  <2>. QED  BY <1>1, <2>1 DEF Recover
<1>3. jobs' \in Seq(Row) /\ DOMAIN jobs' = DOMAIN jobs
  BY <1>1, <1>2, TableUpdate
<1>4. ASSUME NEW j \in DOMAIN jobs
      PROVE  /\ jobs'[j].op = jobs[j].op
             /\ jobs'[j].version = jobs[j].version
             /\ jobs'[j].status = "succeeded" <=> jobs[j].status = "succeeded"
  <2>. DEFINE queued == [jobs[j] EXCEPT !.status = "queued"]
  <2>1. queued.op = jobs[j].op /\ queued.version = jobs[j].version /\ queued.status = "queued"
    BY <1>1, StatusUpdate
  <2>. HIDE DEF queued
  <2>2. jobs'[j] = jobs[j] \/ (jobs[j].status = "running" /\ jobs'[j] = queued)
    BY DEF Recover, queued
  <2>. QED  BY <2>1, <2>2
<1>5. Reshuffled
  BY <1>3, <1>4 DEF Reshuffled
<1>6. stage = "idle" /\ UNCHANGED <<manifest, stores, handler, import, bounds>>
  BY DEF Recover
<1>7. TypeOK' /\ ImportersHaveVersions'
  BY <1>3, <1>6 DEF Inv, TypeOK, ImportersHaveVersions, manifest, stores, handler, bounds
<1>. QED  BY <1>5, <1>6, <1>7, ReshuffledStep

LEMMA ClaimStep ==
    ASSUME Inv, NEW j \in DOMAIN jobs, Claim(j)
    PROVE  Inv'
<1>1. /\ Reshuffled
      /\ DOMAIN jobs' = DOMAIN jobs
      /\ jobs'[j].op = jobs[j].op
      /\ jobs'[j].status = "running"
  BY OneRow DEF Claim
<1>2. UNCHANGED <<manifest, stores, noted, import, bounds>> /\ stage' = "begin" /\ current' = j
      /\ held' = TRUE
  BY DEF Claim
<1>3. TypeOK' /\ ImportersHaveVersions'
  BY <1>1, <1>2 DEF Inv, TypeOK, ImportersHaveVersions, Reshuffled, manifest, stores, bounds,
     Running, ImportStages
<1>4. /\ CleanedUp' <=> CleanedUp
      /\ ImportJobsHaveVersions'
      /\ OneDeletionOutstanding'
  BY <1>1, <1>2, ReshuffledTable DEF manifest
<1>5. HandlerHasJob'
  BY <1>1, <1>2 DEF HandlerHasJob, Job, Importing, DeleteStages
<1>6. NotedHolds' /\ StoresAreIndexed' /\ BuildProgress' /\ CleanupProgress'
      /\ NoImportAfterCleanup'
  BY <1>2 DEF Inv, NotedHolds, StoresAreIndexed, BuildProgress, CleanupProgress,
     NoImportAfterCleanup, Deleting, Importing, Started, Indexing, Vectored, Graphed,
     Invalidated, Unvectored, Ungraphed, DeleteStages, manifest, stores
<1>7. ServedSourceIsComplete' /\ CleanupLeavesNothing'
  BY <1>2, <1>4 DEF Inv, ServedSourceIsComplete, CleanupLeavesNothing, Ready, Stored,
     manifest, stores
<1>. QED  BY <1>3, <1>4, <1>5, <1>6, <1>7 DEF Inv

-----------------------------------------------------------------------------
(* The handler's attempt: its first reads, its end and its failures.       *)

LEMMA BeginStep ==
    ASSUME Inv, Begin
    PROVE  Inv'
<1>1. UNCHANGED <<manifest, stores, jobs, current, held, import, bounds>>
  BY DEF Begin
<1>2. Job' = Job /\ Target' = Target /\ Deletions' = Deletions /\ (CleanedUp' <=> CleanedUp)
  BY <1>1 DEF Job, Target, Deletions, CleanedUp
<1>3. current \in DOMAIN jobs /\ Job \in Row /\ Job.status = "running"
  BY DEF Begin, Inv, TypeOK, HandlerHasJob, Job
<1>4. \/ stage' = "raised"
      \/ stage' = "invalidating" /\ Job.op = "delete_document"
      \/ stage' = "preparing" /\ Job.op = "import_document"
  BY <1>3 DEF Begin, Row
<1>5. TypeOK' /\ ImportersHaveVersions' /\ ImportJobsHaveVersions' /\ OneDeletionOutstanding'
  BY <1>1, <1>2, <1>4 DEF Inv, TypeOK, ImportersHaveVersions, ImportJobsHaveVersions,
     OneDeletionOutstanding, Begin, manifest, stores, bounds, Running, ImportStages, DeleteStages
<1>6. HandlerHasJob'
  BY <1>1, <1>2, <1>3, <1>4 DEF HandlerHasJob, Importing, ImportStages, DeleteStages
<1>7. NotedHolds'
  <2>1. Job.op = "import_document" => Target \in Versions
    BY <1>3 DEF Inv, ImportJobsHaveVersions, Job, Target
  <2>2. Job.op = "import_document" /\ active = Target => noted'
    BY <2>1, PublicationAssumption DEF Begin, Inv, ServedSourceIsComplete, Ready
  <2>3. Job.op = "delete_document" /\ ~noted' => \A v \in Versions : index[v] = "absent"
    BY DEF Begin
  <2>. QED  BY <1>1, <1>2, <1>4, <2>2, <2>3 DEF NotedHolds, manifest, Deleting, Importing,
     ImportStages, Indexing, DeleteStages
<1>8. StoresAreIndexed' /\ BuildProgress' /\ CleanupProgress' /\ NoImportAfterCleanup'
  BY <1>1, <1>4 DEF Inv, StoresAreIndexed, BuildProgress, CleanupProgress,
     NoImportAfterCleanup, Deleting, Importing, Started, Vectored, Graphed, Invalidated,
     Unvectored, Ungraphed, ImportStages, DeleteStages, manifest, stores
<1>9. ServedSourceIsComplete' /\ CleanupLeavesNothing'
  BY <1>1, <1>2 DEF Inv, ServedSourceIsComplete, CleanupLeavesNothing, Ready, Stored,
     manifest, stores
<1>. QED  BY <1>5, <1>6, <1>7, <1>8, <1>9 DEF Inv

\* Without a handler, its parts of the invariant hold of anything.
LEMMA HandlerGone ==
    ASSUME TypeOK', ImportersHaveVersions', ImportJobsHaveVersions', OneDeletionOutstanding',
           \A v \in Versions : index'[v] = "absent" => vectors'[v] = "none" /\ v \notin graph',
           ServedSourceIsComplete', CleanupLeavesNothing', stage' = "idle"
    PROVE  Inv'
BY DEF Inv, HandlerHasJob, NotedHolds, StoresAreIndexed, BuildProgress, CleanupProgress,
   NoImportAfterCleanup, Deleting, Importing, Started, Indexing, Vectored, Graphed, Invalidated,
   Unvectored, Ungraphed, ImportStages, DeleteStages

LEMMA SettleStep ==
    ASSUME Inv, Settle
    PROVE  Inv'
<1>1. UNCHANGED <<manifest, stores, import, bounds>> /\ stage' = "idle" /\ current' = 0
      /\ noted' = FALSE /\ held' = FALSE
  BY DEF Settle, Exit
<1>2. current \in DOMAIN jobs /\ Job.status = "running"
  BY DEF Settle, Inv, HandlerHasJob
<1>3. \A v \in Versions : index'[v] = "absent" => vectors'[v] = "none" /\ v \notin graph'
  BY <1>1 DEF Inv, StoresAreIndexed, manifest, stores
<1>4. ServedSourceIsComplete'
  BY <1>1 DEF Inv, ServedSourceIsComplete, Ready, Stored, manifest, stores
<1>5. CASE Reshuffled
  <2>1. TypeOK' /\ ImportersHaveVersions'
    BY <1>1, <1>5 DEF Reshuffled, Inv, TypeOK, ImportersHaveVersions, manifest, stores, bounds,
       Running
  <2>2. ImportJobsHaveVersions' /\ OneDeletionOutstanding' /\ (CleanedUp' <=> CleanedUp)
    BY <1>1, <1>5, ReshuffledTable DEF manifest
  <2>3. CleanupLeavesNothing'
    BY <1>1, <2>2 DEF Inv, CleanupLeavesNothing, manifest, stores
  <2>. QED  BY <1>1, <1>3, <1>4, <2>1, <2>2, <2>3, HandlerGone
<1>6. CASE held /\ stage = "returned" /\ Job.op = "delete_document"
  <2>. DEFINE row == [jobs[current] EXCEPT !.status = "succeeded"]
  <2>1. jobs \in Seq(Row) /\ jobs[current] \in Row
    BY <1>2 DEF Inv, TypeOK
  <2>2. row \in Row /\ row.op = jobs[current].op /\ row.version = jobs[current].version
        /\ row.status = "succeeded"
    BY <2>1, StatusUpdate
  <2>3. jobs' = [jobs EXCEPT ![current] = row]
    BY <1>6, <2>1 DEF Settle
  <2>. HIDE DEF row
  <2>4. /\ jobs' \in Seq(Row)
        /\ DOMAIN jobs' = DOMAIN jobs
        /\ jobs'[current] = row
        /\ \A k \in DOMAIN jobs \ {current} : jobs'[k] = jobs[k]
    BY <1>2, <2>1, <2>2, <2>3
  <2>5. TypeOK' /\ ImportersHaveVersions'
    BY <1>1, <2>4 DEF Inv, TypeOK, ImportersHaveVersions, manifest, stores, bounds, Running
  <2>6. ImportJobsHaveVersions'
    BY <2>2, <2>4 DEF Inv, ImportJobsHaveVersions
  <2>7. Deletions' = Deletions
    BY <2>2, <2>4 DEF Deletions
  <2>8. OneDeletionOutstanding'
    BY <1>1, <2>2, <2>4, <2>7 DEF Inv, OneDeletionOutstanding, Deletions, manifest
  <2>9. CleanupLeavesNothing'
    <3>1. Deleting(Invalidated) /\ Deleting(Unvectored) /\ Deleting(Ungraphed)
          /\ Deleting(DeleteStages)
      BY <1>6 DEF Deleting
    <3>2. active = None
      BY <3>1, CleanupUnderTombstone
    <3>. QED  BY <1>1, <3>1, <3>2 DEF Inv, CleanupProgress, CleanupLeavesNothing, manifest, stores
  <2>. QED  BY <1>1, <1>3, <1>4, <2>5, <2>6, <2>8, <2>9, HandlerGone
<1>7. CASE ~held
  <2>1. jobs' = jobs
    BY <1>7 DEF Settle
  <2>2. Reshuffled
    BY <2>1 DEF Reshuffled, Inv, TypeOK
  <2>. QED  BY <1>5, <2>2
<1>8. CASE held /\ (stage = "raised" \/ Job.op # "delete_document")
  <2>1. PICK s \in {"succeeded", "failed"} : /\ jobs' = [jobs EXCEPT ![current].status = s]
                                             /\ stage = "raised" => s = "failed"
    BY <1>8 DEF Settle
  <2>2. Reshuffled
    BY <1>2, <1>8, <2>1, OneRow DEF Job, Deletions
  <2>. QED  BY <1>5, <2>2
<1>. QED  BY <1>6, <1>7, <1>8 DEF Settle

LEMMA LoseLeaseStep ==
    ASSUME Inv, LoseLease
    PROVE  Inv'
<1>1. UNCHANGED <<manifest, stores, jobs, stage, current, noted, import, retries>>
      /\ held' = FALSE /\ faults' \in 0 .. MaxFaults
  BY PublicationAssumption DEF LoseLease, Inv, TypeOK
<1>2. Job' = Job /\ Target' = Target /\ Deletions' = Deletions /\ (CleanedUp' <=> CleanedUp)
  BY <1>1 DEF Job, Target, Deletions, CleanedUp
<1>3. TypeOK' /\ ImportersHaveVersions' /\ ImportJobsHaveVersions' /\ OneDeletionOutstanding'
      /\ HandlerHasJob'
  BY <1>1, <1>2 DEF Inv, TypeOK, ImportersHaveVersions, ImportJobsHaveVersions,
     OneDeletionOutstanding, HandlerHasJob, manifest, stores
<1>4. NotedHolds' /\ StoresAreIndexed' /\ BuildProgress' /\ CleanupProgress'
  BY <1>1, <1>2 DEF Inv, NotedHolds, StoresAreIndexed, BuildProgress, CleanupProgress, Deleting,
     manifest, stores
<1>5. NoImportAfterCleanup' /\ ServedSourceIsComplete' /\ CleanupLeavesNothing'
  BY <1>1, <1>2 DEF Inv, NoImportAfterCleanup, ServedSourceIsComplete, CleanupLeavesNothing,
     Ready, Stored, manifest, stores
<1>. QED  BY <1>3, <1>4, <1>5 DEF Inv

\* What an interrupted call may leave: a store keeps its shape, gets nothing
\* of a version that is not being written and loses nothing of one that is
\* not being removed.
LEMMA InterruptedStores ==
    ASSUME Inv, Interrupted
    PROVE  /\ vectors' \in [Versions -> {"none", "some", "all"}]
           /\ graph' \in SUBSET Versions
           /\ files' \in SUBSET Versions
           /\ faults' \in 0 .. MaxFaults
           /\ \A v \in Versions : \/ vectors'[v] = vectors[v] \/ stage = "dropVectors"
                                  \/ vectors[v] # "all" /\ stage = "vector" /\ v = Target
           /\ \A v \in Versions : stage = "dropVectors" /\ vectors[v] = "none" => vectors'[v] = "none"
           /\ graph' = graph \/ (stage = "graph" /\ graph' = graph \cup {Target})
                             \/ (stage = "dropGraph" /\ graph' = {})
<1>1. stage \in {"vector", "graph"} => Target \in Versions
  BY DEF Inv, HandlerHasJob, ImportJobsHaveVersions, Job, Target, Importing, ImportStages
<1>2. faults' \in 0 .. MaxFaults
  BY PublicationAssumption DEF Interrupted, Inv, TypeOK
<1>3. files' \in SUBSET Versions
  BY DEF Interrupted, Inv, TypeOK
<1>4. \/ graph' = graph
      \/ stage = "graph" /\ graph' = graph \cup {Target}
      \/ stage = "dropGraph" /\ graph' = {}
  BY DEF Interrupted
<1>5. CASE stage = "vector"
  <2>1. PICK x \in {"none", "some", "all"} : /\ vectors' = [vectors EXCEPT ![Target] = x]
                                             /\ vectors[Target] = "all" => x = "all"
    BY <1>1, <1>5 DEF Interrupted, Inv, TypeOK
  <2>. QED  BY <1>1, <1>2, <1>3, <1>4, <1>5, <2>1 DEF Inv, TypeOK
<1>6. CASE stage = "dropVectors"
  <2>1. \/ vectors' = vectors
        \/ \E x \in [Versions -> {"none", "some"}] :
              vectors' = [v \in Versions |-> IF vectors[v] = "none" THEN "none" ELSE x[v]]
    BY <1>6 DEF Interrupted
  <2>. QED  BY <1>1, <1>2, <1>3, <1>4, <1>6, <2>1 DEF Inv, TypeOK
<1>7. CASE stage \notin {"vector", "dropVectors"}
  <2>1. vectors' = vectors
    BY <1>7 DEF Interrupted
  <2>. QED  BY <1>1, <1>2, <1>3, <1>4, <2>1 DEF Inv, TypeOK
<1>. QED  BY <1>5, <1>6, <1>7

LEMMA CrashStep ==
    ASSUME Inv, Crash
    PROVE  Inv'
<1>1. UNCHANGED <<manifest, jobs, import, retries>> /\ Interrupted /\ stage' = "idle"
      /\ current' = 0 /\ noted' = FALSE /\ held' = FALSE
  BY DEF Crash, Exit
<1>2. Deletions' = Deletions /\ (CleanedUp' <=> CleanedUp)
  BY <1>1 DEF Deletions, CleanedUp
<1>3. TypeOK' /\ ImportersHaveVersions' /\ ImportJobsHaveVersions' /\ OneDeletionOutstanding'
  BY <1>1, <1>2, InterruptedStores DEF Inv, TypeOK, ImportersHaveVersions,
     ImportJobsHaveVersions, OneDeletionOutstanding, manifest, Running
<1>4. /\ stage \in {"vector", "graph"} => stage \in Started
      /\ stage \in {"dropVectors", "dropGraph"} => Deleting(DeleteStages)
  BY DEF Started, Importing, ImportStages, Deleting, DeleteStages
<1>5. \A v \in Versions : index'[v] = "absent" => vectors'[v] = "none" /\ v \notin graph'
  BY <1>1, <1>4, InterruptedStores DEF Inv, StoresAreIndexed, manifest
<1>6. ServedSourceIsComplete'
  BY <1>1, <1>4, InterruptedStores, CleanupUnderTombstone DEF Inv, TypeOK, ServedSourceIsComplete,
     Ready, Stored, manifest
<1>7. CleanupLeavesNothing'
  BY <1>1, <1>2, <1>4, InterruptedStores DEF Inv, CleanupLeavesNothing, NoImportAfterCleanup, manifest
<1>. QED  BY <1>1, <1>3, <1>5, <1>6, <1>7, HandlerGone

-----------------------------------------------------------------------------
(* The handler's steps inside an attempt.  None touches the job table, so  *)
(* each leaf compares the stage, the manifest rows and the stores.         *)

LEMMA BuildStep ==
    ASSUME Inv, \/ Prepare \/ StartIndex \/ Audit \/ MarkIndexing \/ UpsertVectors
                \/ UpsertGraph \/ CompleteIndex \/ Publish \/ FailIndex \/ FailVersion
    PROVE  Inv'
<1>. USE DEF Inv, TypeOK, ImportersHaveVersions, ImportJobsHaveVersions, HandlerHasJob,
             OneDeletionOutstanding, NotedHolds, StoresAreIndexed, BuildProgress,
             CleanupProgress, NoImportAfterCleanup, ServedSourceIsComplete,
             CleanupLeavesNothing, Importing, Started, Indexing, Vectored, Graphed,
             Invalidated, Unvectored, Ungraphed, Deleting, ImportStages, DeleteStages,
             Running, Row, manifest, stores, handler, bounds, Deletions, CleanedUp, Ready,
             Stored, Job, Target
<1>1. CASE Prepare
  BY <1>1, PublicationAssumption DEF Prepare, Prepared, Goto
<1>2. CASE StartIndex
  BY <1>2, PublicationAssumption DEF StartIndex, Owned, Disowned, Goto
<1>3. CASE Audit
  BY <1>3, PublicationAssumption DEF Audit, Owned, Disowned, Completable, Current, Goto
<1>4. CASE MarkIndexing
  BY <1>4, PublicationAssumption DEF MarkIndexing, Fenced, Goto
<1>5. CASE UpsertVectors
  BY <1>5, PublicationAssumption DEF UpsertVectors, Goto
<1>6. CASE UpsertGraph
  BY <1>6, PublicationAssumption DEF UpsertGraph, Goto
<1>7. CASE CompleteIndex
  BY <1>7, PublicationAssumption DEF CompleteIndex, Owned, Disowned, Completable, Goto
<1>8. CASE Publish
  BY <1>8, PublicationAssumption DEF Publish, Owned, Disowned, Goto
<1>9. CASE FailIndex
  BY <1>9, PublicationAssumption DEF FailIndex, Owned, Goto
<1>10. CASE FailVersion
  BY <1>10, PublicationAssumption DEF FailVersion, Goto
<1>. QED  BY <1>1, <1>2, <1>3, <1>4, <1>5, <1>6, <1>7, <1>8, <1>9, <1>10

LEMMA CleanupStep ==
    ASSUME Inv, Fence \/ Invalidate \/ DropVectors \/ DropGraph \/ DropFiles
    PROVE  Inv'
<1>. USE DEF Inv, TypeOK, ImportersHaveVersions, ImportJobsHaveVersions, HandlerHasJob,
             OneDeletionOutstanding, NotedHolds, StoresAreIndexed, BuildProgress,
             CleanupProgress, NoImportAfterCleanup, ServedSourceIsComplete,
             CleanupLeavesNothing, Importing, Started, Indexing, Vectored, Graphed,
             Invalidated, Unvectored, Ungraphed, Deleting, ImportStages, DeleteStages,
             Running, Row, manifest, stores, handler, bounds, Deletions, CleanedUp, Ready,
             Stored, Job, Target
<1>1. CASE Fence
  BY <1>1, PublicationAssumption DEF Fence, Fenced, Goto
<1>2. CASE Invalidate
  BY <1>2, PublicationAssumption DEF Invalidate, Goto
<1>3. CASE DropVectors
  BY <1>3, PublicationAssumption DEF DropVectors, Goto
<1>4. CASE DropGraph
  BY <1>4, PublicationAssumption DEF DropGraph, Goto
<1>5. CASE DropFiles
  BY <1>5, PublicationAssumption DEF DropFiles, Goto
<1>. QED  BY <1>1, <1>2, <1>3, <1>4, <1>5

LEMMA FaultStep ==
    ASSUME Inv, Fault
    PROVE  Inv'
<1>1. UNCHANGED <<manifest, jobs, current, noted, held, import, retries>> /\ Interrupted
  BY DEF Fault, Goto
<1>2. stage \in Running \ {"returned", "raised"} /\ stage' \in {"failing", "raised"}
  BY DEF Fault, Goto
<1>3. stage' = "failing" => stage \in Tried
  BY DEF Fault, Goto
<1>4. Job' = Job /\ Target' = Target /\ Deletions' = Deletions /\ (CleanedUp' <=> CleanedUp)
  BY <1>1 DEF Job, Target, Deletions, CleanedUp
<1>5. TypeOK' /\ ImportersHaveVersions' /\ ImportJobsHaveVersions' /\ OneDeletionOutstanding'
  BY <1>1, <1>2, <1>4, InterruptedStores DEF Inv, TypeOK, ImportersHaveVersions,
     ImportJobsHaveVersions, OneDeletionOutstanding, manifest, Running, ImportStages
<1>6. HandlerHasJob'
  BY <1>1, <1>2, <1>3, <1>4 DEF Inv, HandlerHasJob, Running, Tried, Importing, ImportStages,
     DeleteStages
<1>7. /\ stage \in {"vector", "graph"} => stage \in Started
      /\ stage \in {"dropVectors", "dropGraph"} => Deleting(DeleteStages)
      /\ stage \in Tried => stage \in Started
  BY DEF Started, Importing, ImportStages, Deleting, DeleteStages, Tried
<1>8. \A v \in Versions : index'[v] = "absent" => vectors'[v] = "none" /\ v \notin graph'
  BY <1>1, <1>7, InterruptedStores DEF Inv, StoresAreIndexed, manifest
<1>9. StoresAreIndexed'
  BY <1>1, <1>2, <1>3, <1>4, <1>7, <1>8 DEF Inv, StoresAreIndexed, manifest, Started, Importing,
     ImportStages
<1>10. NotedHolds' /\ BuildProgress' /\ CleanupProgress'
  BY <1>2 DEF NotedHolds, BuildProgress, CleanupProgress, Importing, ImportStages, Indexing,
     Vectored, Graphed, Invalidated, Unvectored, Ungraphed, Deleting, DeleteStages
<1>11. NoImportAfterCleanup'
  BY <1>1, <1>2, <1>3, <1>4, <1>7 DEF Inv, NoImportAfterCleanup, manifest, Started, Importing,
     ImportStages
<1>12. ServedSourceIsComplete'
  BY <1>1, <1>7, InterruptedStores, CleanupUnderTombstone DEF Inv, TypeOK, ServedSourceIsComplete,
     Ready, Stored, manifest
<1>13. CleanupLeavesNothing'
  BY <1>1, <1>4, <1>7, InterruptedStores DEF Inv, CleanupLeavesNothing, NoImportAfterCleanup, manifest
<1>. QED  BY <1>5, <1>6, <1>9, <1>10, <1>11, <1>12, <1>13 DEF Inv

LEMMA SubmitStep ==
    ASSUME Inv, NEW i \in Importers, Submit(i)
    PROVE  Inv'
<1>1. CASE \E v \in Versions : Survey(i, v)
  <2>1. UNCHANGED <<manifest, stores, jobs, handler, bounds>>
    BY <1>1 DEF Survey
  <2>2. TypeOK' /\ ImportersHaveVersions'
    BY <1>1, <2>1 DEF Survey, Inv, TypeOK, ImportersHaveVersions, Submissions, manifest, stores,
       handler, bounds
  <2>3. Reshuffled
    BY <2>1 DEF Reshuffled, Inv, TypeOK
  <2>. QED  BY <2>1, <2>2, <2>3, ReshuffledStep
<1>2. CASE PutDocument(i)
  BY <1>2, PutDocumentStep
<1>3. CASE PrepareIndex(i)
  BY <1>3, PrepareIndexStep
<1>4. CASE PutImportJob(i)
  BY <1>4, PutImportJobStep
<1>5. CASE RetryImport(i)
  BY <1>5, RetryImportStep
<1>6. CASE Abandon(i)
  <2>1. UNCHANGED <<manifest, stores, jobs, handler, bounds>>
    BY <1>6 DEF Abandon
  <2>2. TypeOK' /\ ImportersHaveVersions'
    BY <1>6, <2>1, ImporterMoves DEF Abandon, Inv, TypeOK, manifest, stores, handler, bounds
  <2>3. Reshuffled
    BY <2>1 DEF Reshuffled, Inv, TypeOK
  <2>. QED  BY <2>1, <2>2, <2>3, ReshuffledStep
<1>7. CASE PutBytes(i) \/ Purge(i) \/ PutVersion(i) \/ ReplaceChunks(i)
  BY <1>7, WriteStep
<1>. QED  BY <1>1, <1>2, <1>3, <1>4, <1>5, <1>6, <1>7 DEF Submit

-----------------------------------------------------------------------------
(* The theorems.                                                           *)

LEMMA InvHolds == Spec => []Inv
<1>1. ASSUME Init
      PROVE  Inv
  <2>1. Resting \in [at : Submissions, version : Versions \cup {None},
                     restore : BOOLEAN, stale : BOOLEAN]
    BY DEF Resting, Submissions
  <2>2. TypeOK
    <3>1. import \in [Importers -> [at : Submissions, version : Versions \cup {None},
                                    restore : BOOLEAN, stale : BOOLEAN]]
      BY <1>1, <2>1 DEF Init
    <3>2. jobs \in Seq(Row) /\ retries \in 0 .. MaxRetries /\ faults \in 0 .. MaxFaults
      BY <1>1, PublicationAssumption DEF Init
    <3>. QED  BY <1>1, <3>1, <3>2 DEF Init, TypeOK
  <2>3. ImportersHaveVersions /\ ServedSourceIsComplete /\ CleanupLeavesNothing
    BY <1>1 DEF Init, ImportersHaveVersions, Resting, ServedSourceIsComplete, CleanupLeavesNothing
  <2>4. ImportJobsHaveVersions /\ OneDeletionOutstanding
    BY <1>1 DEF Init, ImportJobsHaveVersions, OneDeletionOutstanding, Deletions
  <2>5. HandlerHasJob /\ NotedHolds /\ StoresAreIndexed /\ BuildProgress /\ CleanupProgress
        /\ NoImportAfterCleanup
    BY <1>1 DEF Init, HandlerHasJob, NotedHolds, StoresAreIndexed, BuildProgress,
       CleanupProgress, NoImportAfterCleanup, Importing, Started, Indexing, Vectored, Graphed,
       Invalidated, Unvectored, Ungraphed, Deleting, ImportStages, DeleteStages
  <2>. QED  BY <2>2, <2>3, <2>4, <2>5 DEF Inv
<1>2. Inv /\ [Next]_vars => Inv'
  <2>. SUFFICES ASSUME Inv, [Next]_vars
                PROVE  Inv'
    OBVIOUS
  <2>1. ASSUME NEW i \in Importers, Submit(i)
        PROVE  Inv'
    BY <2>1, SubmitStep
  <2>2. CASE Tombstone
    BY <2>2, TombstoneStep
  <2>3. ASSUME NEW j \in DOMAIN jobs, Retry(j)
        PROVE  Inv'
    BY <2>3, RetryStep
  <2>4. ASSUME NEW j \in DOMAIN jobs, Claim(j)
        PROVE  Inv'
    BY <2>4, ClaimStep
  <2>5. CASE Work /\ ~\E j \in DOMAIN jobs : Claim(j)
    BY <2>5, RecoverStep, BeginStep, BuildStep, CleanupStep, SettleStep DEF Work
  <2>6. CASE Fault \/ LoseLease \/ Crash
    BY <2>6, FaultStep, LoseLeaseStep, CrashStep
  <2>7. CASE UNCHANGED vars
    BY <2>7 DEF vars, Inv, TypeOK, ImportersHaveVersions, ImportJobsHaveVersions,
     HandlerHasJob, OneDeletionOutstanding, NotedHolds, StoresAreIndexed, BuildProgress,
     CleanupProgress, NoImportAfterCleanup, ServedSourceIsComplete, CleanupLeavesNothing,
     Deleting, Deletions, CleanedUp, Ready, Stored, Job, Target, manifest, stores, handler, bounds
  <2>. QED  BY <2>1, <2>2, <2>3, <2>4, <2>5, <2>6, <2>7 DEF Next, Work
<1>. QED  BY <1>1, <1>2, PTL DEF Spec

\* The rows, the stores and the handler stay within their vocabularies.
THEOREM TypeCorrect == Spec => []TypeOK
<1>1. Inv => TypeOK
  BY DEF Inv
<1>. QED  BY <1>1, InvHolds, PTL

\* What readers are pointed at is whole, whatever importers, deletions,
\* retries, failed stores, lost leases and crashes did (service.py's
\* audit_manifest).
THEOREM ServedSourcesAreComplete == Spec => []ServedSourceIsComplete
<1>1. Inv => ServedSourceIsComplete
  BY DEF Inv
<1>. QED  BY <1>1, InvHolds, PTL

\* A source whose cleanup succeeded has nothing retrievable left, and no
\* import under way brings any of it back.
THEOREM CleanupsAreComplete == Spec => []CleanupLeavesNothing
<1>1. Inv => CleanupLeavesNothing
  BY DEF Inv
<1>. QED  BY <1>1, InvHolds, PTL

\* put_document is the only way out of a tombstone, and takes it only when
\* every deletion is done.
THEOREM RestorationFollowsCleanup == Spec => RestoredAfterCleanup
<1>1. ASSUME Inv, [Next]_vars, document = "deleted", document' = "live"
      PROVE  \A j \in Deletions : jobs[j].status = "succeeded"
  <2>1. CASE \E i \in Importers : PutDocument(i)
    BY <1>1, <2>1, CleanedUpCompletely DEF PutDocument
  <2>2. ~Publish
    BY <1>1 DEF Publish, Owned
  <2>3. (\E i \in Importers : PutDocument(i)) \/ Publish
    BY <1>1 DEF Next, Submit, Work, vars, manifest, Survey, PutBytes, Purge, PutVersion, ReplaceChunks,
       PrepareIndex, PutImportJob, RetryImport, Abandon, Tombstone, Retry, Claim, Recover, Begin,
       Fence, Prepare, StartIndex, Audit, MarkIndexing, UpsertVectors, UpsertGraph, CompleteIndex,
       FailIndex, FailVersion, Invalidate, DropVectors, DropGraph, DropFiles, Settle, Fault,
       LoseLease, Crash
  <2>. QED  BY <2>1, <2>2, <2>3
<1>2. Inv /\ [Next]_vars =>
        [document = "deleted" /\ document' = "live" =>
            \A j \in Deletions : jobs[j].status = "succeeded"]_vars
  BY <1>1
<1>. QED  BY <1>2, InvHolds, PTL DEF Spec, RestoredAfterCleanup

\* Every behaviour of the ingestion is one of Catalogue: a publication, a
\* deletion and the lifting of a tombstone are its steps, all else is hidden.
THEOREM PublicationKeepsCatalogue == Spec => KeepsCatalogue
<1>1. ASSUME Inv
      PROVE  /\ served = [e \in {"graphmind"} |-> active]
             /\ document = "deleted" => active = None
             /\ active \in Versions \cup {None}
  BY <1>1 DEF Inv, ServedSourceIsComplete, served, Ready, TypeOK
<1>2. Init => Promise!Init
  BY PublicationAssumption DEF Init, Promise!Init, Promise!Nothing, served
<1>3. ASSUME Inv, Inv', [Next]_vars
      PROVE  [Promise!Next]_<<served, document = "deleted">>
  <2>1. /\ served = [e \in {"graphmind"} |-> active]
        /\ served' = [e \in {"graphmind"} |-> active']
        /\ document = "deleted" => active = None
        /\ document' = "deleted" => active' = None
    BY <1>3, <1>1 DEF served, Ready, Inv, ServedSourceIsComplete
  <2>2. CASE Publish /\ stage' = "published"
    <3>1. /\ document # "deleted" /\ document' = "live"
          /\ active' = Target
          /\ Target \in Versions
      BY <1>3, <2>2 DEF Publish, Owned, Disowned, Inv, HandlerHasJob, ImportJobsHaveVersions,
         Importing, ImportStages, Target, Job, Goto
    <3>2. served' = [e \in {"graphmind"} |-> IF e \in {"graphmind"} THEN Target ELSE None]
      BY <3>1, <2>1
    <3>3. Promise!Publish(Target, {"graphmind"})
      BY <3>1, <3>2 DEF Promise!Publish
    <3>. QED  BY <3>1, <3>3 DEF Promise!Next
  <2>3. CASE Tombstone
    BY <2>1, <2>3 DEF Tombstone, Promise!Next, Promise!Delete, Promise!Nothing
  <2>4. CASE \E i \in Importers : PutDocument(i)
    <3>1. active' = active /\ served' = served
      BY <2>1, <2>4 DEF PutDocument
    <3>2. document' = document \/ document' = "live"
      BY <2>4 DEF PutDocument
    <3>. QED  BY <3>1, <3>2 DEF Promise!Next, Promise!Restore
  <2>5. CASE UNCHANGED <<document, active>>
    BY <2>1, <2>5
  <2>6. \/ UNCHANGED <<document, active>>
        \/ Tombstone
        \/ \E i \in Importers : PutDocument(i)
        \/ Publish /\ stage' = "published"
    BY <1>3 DEF Next, Submit, Work, vars, manifest, Survey, PutBytes, Purge, PutVersion, ReplaceChunks,
       PrepareIndex, PutImportJob, RetryImport, Abandon, Retry, Claim, Recover, Begin,
       Fence, Prepare, StartIndex, Audit, MarkIndexing, UpsertVectors, UpsertGraph, CompleteIndex,
       Publish, Goto, FailIndex, FailVersion, Invalidate, DropVectors, DropGraph, DropFiles, Settle,
       Fault, LoseLease, Crash
  <2>. QED  BY <2>2, <2>3, <2>4, <2>5, <2>6
<1>. QED  BY <1>2, <1>3, InvHolds, PTL DEF Spec, KeepsCatalogue, Promise!Spec

=============================================================================
