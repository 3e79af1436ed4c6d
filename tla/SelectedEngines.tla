--------------------------- MODULE SelectedEngines ---------------------------
(***************************************************************************)
(* One source whose jobs name several engines: the selected imports and    *)
(* the reindexing jobs of ingestion.py (_process_selected), the records of *)
(* engine_indexes and engine_index_heads (indexes.py), the immutable       *)
(* derived directories (artifacts.py), and the builds of the hybrid, the   *)
(* tree and the visual engine.                                             *)
(*                                                                         *)
(* The hybrid engine keeps its passages in four places: vectors, graph,    *)
(* the lexical table and a derived directory; the others keep a directory. *)
(* A directory's bytes are a build number: two builds of the visual engine *)
(* may differ.  The races of a submission with a deletion, one transaction *)
(* at a time, are in Publication; here a submission is one step.  One      *)
(* handler runs at a time (JobQueue).                                      *)
(***************************************************************************)
EXTENDS Naturals, Sequences, FiniteSets, SequencesExt

CONSTANTS
    EngineOrder,   \* the configured engines, in the order a job lists them
    Hybrid,        \* the engine "graphmind" under the hybrid profile
    Varying,       \* engines whose builds need not repeat byte for byte
    Selections,    \* the sets of engines an import names
    Versions,
    None,
    MaxJobs,       \* bound: jobs ever submitted
    MaxDeletions,  \* bound: deletions ever submitted
    MaxRetries,    \* bound: retries of failed jobs
    MaxFaults      \* bound: failed calls, lost leases and crashes

Engines == Range(EngineOrder)

ASSUME EnginesAssumption ==
    /\ Hybrid \in Engines /\ Varying \subseteq Engines
    /\ \A es \in Selections : es # {} /\ es \subseteq Engines
    /\ None \notin Versions \cup Nat
    /\ MaxJobs \in Nat /\ MaxDeletions \in Nat /\ MaxRetries \in Nat /\ MaxFaults \in Nat

VARIABLES
    document,  \* the documents row: absent, live, or deleted_at set
    active,    \* active_version_id
    version,   \* versions.status
    index,     \* engine_indexes.status, per engine and version
    digest,    \* engine_indexes.artifact_digest
    head,      \* engine_index_heads: the version of each engine's head
    files,     \* versions whose private original is on disk
    artifact,  \* derived/<index_id>: its bytes, None without the directory
    leftover,  \* indexes with a derived/.build-<index_id> directory on disk
    vectors,   \* how much of each version the hybrid vector store holds
    graph,     \* versions the graph holds
    lexical,   \* versions the lexical table holds
    jobs,      \* the jobs of this source, in created_at order
    handler,   \* where the handler is, and what it read
    retries, faults

manifest == <<document, active, version, index, digest, head>>
disk == <<files, artifact, leftover>>
stores == <<vectors, graph, lexical>>
bounds == <<retries, faults>>
vars == <<manifest, disk, stores, jobs, handler, bounds>>

Broken == 0            \* a directory that was half removed
Builds(e) == IF e \in Varying THEN {1, 2} ELSE {1}
AllIndexes == Engines \X Versions

At(stage) == handler.at = stage
Idle == [at |-> "idle", job |-> 0, engine |-> None, todo |-> {}, noted |-> FALSE,
         held |-> FALSE, bytes |-> None]

Init ==
    /\ document = "absent"
    /\ active = None
    /\ version = [v \in Versions |-> "absent"]
    /\ index = [i \in AllIndexes |-> "absent"]
    /\ digest = [i \in AllIndexes |-> None]
    /\ head = [e \in Engines |-> None]
    /\ files = {}
    /\ artifact = [i \in AllIndexes |-> None]
    /\ leftover = {}
    /\ vectors = [v \in Versions |-> "none"]
    /\ graph = {}
    /\ lexical = {}
    /\ jobs = <<>>
    /\ handler = Idle
    /\ retries = 0 /\ faults = 0

Deletions == {j \in DOMAIN jobs : jobs[j].op = "delete_document"}
CleanedUp == \E j \in Deletions : /\ \A k \in Deletions : k <= j
                                  /\ jobs[j].status = "succeeded"

\* SourceService.active.
ActiveSource(v) == document = "live" /\ active = v /\ version[v] = "ready"
\* IndexRepository.ready and current: what a reader's engine is given.
Ready(e) == /\ active # None /\ head[e] = active
            /\ ActiveSource(active)
            /\ index[<<e, active>>] = "ready"

-----------------------------------------------------------------------------
(* Submissions.                                                            *)

AllReady(v, es) == active = v /\ \A e \in es : Ready(e)

\* IndexRepository.prepare, for each recipe.
Prepare(v, es) ==
    index' = [i \in AllIndexes |-> IF i \in es \X {v} /\ index[i] = "absent"
                                   THEN "staged" ELSE index[i]]

\* put_job under its idempotency key; a job that succeeded once and is not
\* served now is put back if its submission asks for that.
PutJob(op, v, es, again) ==
    LET known == {j \in DOMAIN jobs : /\ jobs[j].op = op
                                      /\ jobs[j].version = v
                                      /\ jobs[j].engines = es}
    IN  IF known = {}
        THEN /\ Len(jobs) < MaxJobs
             /\ jobs' = Append(jobs, [op |-> op, version |-> v, engines |-> es,
                                      status |-> "queued"])
        ELSE jobs' = [j \in DOMAIN jobs |->
                IF j \in known /\ again /\ jobs[j].status = "succeeded"
                THEN [jobs[j] EXCEPT !.status = "queued"] ELSE jobs[j]]

\* prepare_import: a deleted source needs its cleanup, an unchanged and
\* served one is returned as it stands.
Import(v, es) ==
    /\ document = "deleted" => CleanedUp
    /\ ~(AllReady(v, es) /\ \E j \in DOMAIN jobs :
            jobs[j] = [op |-> "import_document", version |-> v, engines |-> es,
                       status |-> "succeeded"])
    /\ files' = files \cup {v}
    /\ document' = "live"
    /\ version' = [version EXCEPT ![v] = IF @ = "absent" THEN "staged" ELSE @]
    /\ Prepare(v, es)
    /\ PutJob("import_document", v, es, ~AllReady(v, es))
    /\ UNCHANGED <<active, digest, head, artifact, leftover, stores, handler, bounds>>

\* IndexRepository.submit: one engine, of the version being served.
SubmitReindex(v, e) ==
    /\ ActiveSource(v)
    /\ Prepare(v, {e})
    /\ PutJob("build_index", v, {e}, FALSE)
    /\ UNCHANGED <<document, active, version, digest, head, disk, stores, handler, bounds>>

\* prepare_delete and tombstone_and_put_job.
Tombstone ==
    /\ document = "live"
    /\ Cardinality(Deletions) < MaxDeletions
    /\ Len(jobs) < MaxJobs
    /\ document' = "deleted"
    /\ active' = None
    /\ jobs' = Append([j \in DOMAIN jobs |->
                          IF j \notin Deletions /\ jobs[j].status = "queued"
                          THEN [jobs[j] EXCEPT !.status = "failed"] ELSE jobs[j]],
                      [op |-> "delete_document", version |-> active, engines |-> {},
                       status |-> "queued"])
    /\ UNCHANGED <<version, index, digest, head, disk, stores, handler, bounds>>

Retry(j) ==
    /\ jobs[j].status = "failed"
    /\ retries < MaxRetries
    /\ retries' = retries + 1
    /\ jobs' = [jobs EXCEPT ![j].status = "queued"]
    /\ UNCHANGED <<manifest, disk, stores, handler, faults>>

-----------------------------------------------------------------------------
(* The handler.                                                            *)

Job == jobs[handler.job]
Target == Job.version
Current == <<handler.engine, Target>>
Goto(stage) == handler' = [handler EXCEPT !.at = stage]
\* An error inside a build: the lease fence raises past the build's handler
\* and past _process_selected's.
Refused == IF handler.held THEN "failing" ELSE "raised"
\* _owned: the fence and a source that is not deleted.
Owned == handler.held /\ document # "deleted"

Claim(j) ==
    /\ At("idle")
    /\ jobs[j].status = "queued"
    /\ \A k \in 1 .. j - 1 : jobs[k].status # "queued"
    /\ jobs' = [jobs EXCEPT ![j].status = "running"]
    /\ handler' = [Idle EXCEPT !.at = "begin", !.job = j, !.held = TRUE]
    /\ UNCHANGED <<manifest, disk, stores, bounds>>

Recover ==
    /\ At("idle")
    /\ \E j \in DOMAIN jobs : jobs[j].status = "running"
    /\ jobs' = [j \in DOMAIN jobs |-> IF jobs[j].status = "running"
                                     THEN [jobs[j] EXCEPT !.status = "queued"] ELSE jobs[j]]
    /\ UNCHANGED <<manifest, disk, stores, handler, bounds>>

\* process_job and the reads of _process_selected and _process_delete.
Begin ==
    /\ At("begin")
    /\ handler' = IF ~handler.held THEN [handler EXCEPT !.at = "raised"]
                  ELSE IF handler.job \in Deletions
                  THEN [handler EXCEPT !.at = "invalidating",
                                       !.noted = \E v \in Versions : index[<<Hybrid, v>>] # "absent"]
                  ELSE [handler EXCEPT
                          !.at = IF \/ document = "deleted"
                                    \/ Job.op = "build_index" /\ ~ActiveSource(Target)
                                 THEN "raised" ELSE "marking",
                          !.noted = ActiveSource(Target),
                          !.todo = Job.engines]
    /\ UNCHANGED <<manifest, disk, stores, jobs, bounds>>

\* A version that is not served yet is being indexed.
Mark ==
    /\ At("marking")
    /\ version' = IF ~handler.noted /\ handler.held
                  THEN [version EXCEPT ![Target] = "indexing"] ELSE version
    /\ Goto(IF handler.noted \/ handler.held THEN "selecting" ELSE "raised")
    /\ UNCHANGED <<document, active, index, digest, head, disk, stores, jobs, bounds>>

\* The next target in the order of the job, or the publication.
Select ==
    /\ At("selecting")
    /\ \/ /\ handler.todo = {}
          /\ Goto(IF handler.noted THEN "activating" ELSE "publishing")
       \/ \E k \in DOMAIN EngineOrder :
             LET e == EngineOrder[k] IN
             /\ e \in handler.todo
             /\ \A l \in DOMAIN EngineOrder : EngineOrder[l] \in handler.todo => k <= l
             /\ handler' = [handler EXCEPT !.at = "opening", !.engine = e, !.todo = @ \ {e}]
    /\ UNCHANGED <<manifest, disk, stores, jobs, bounds>>

\* snapshot_for_job: the fence, the row and the verified original.
Snapshot == Owned /\ Target \in files

Verified(i) == /\ artifact[i] = digest[i] /\ digest[i] # None
               /\ i[1] = Hybrid => vectors[i[2]] = "all"

\* The opening of build: an index that is ready is verified and kept, any
\* other is started.  Only the hybrid engine reads its source before that.
Open ==
    /\ At("opening")
    /\ IF handler.engine = Hybrid /\ ~Snapshot
       THEN /\ Goto(IF handler.held THEN "condemning" ELSE "raised")
            /\ UNCHANGED <<index, digest>>
       ELSE IF index[Current] = "ready"
       THEN /\ Goto(IF Verified(Current) THEN "selecting" ELSE "condemning")
            /\ UNCHANGED <<index, digest>>
       ELSE IF ~Owned
       THEN /\ Goto(IF handler.held THEN "condemning" ELSE "raised")
            /\ UNCHANGED <<index, digest>>
       ELSE /\ index' = [index EXCEPT ![Current] = "building"]
            /\ Goto(IF handler.engine = Hybrid THEN "vectors" ELSE "extracting")
            /\ UNCHANGED digest
    /\ UNCHANGED <<document, active, version, head, disk, stores, jobs, bounds>>

\* Mutant of Extract: a missing original fails the index in the words of a version.
ExtractUnindexed ==
    /\ At("extracting")
    /\ index' = IF Snapshot THEN index ELSE [index EXCEPT ![Current] = "indexing"]
    /\ Goto(IF Snapshot THEN "packing" ELSE Refused)
    /\ UNCHANGED <<document, active, version, digest, head, disk, stores, jobs, bounds>>

\* The tree and the visual engine read the original once started.
Extract ==
    /\ At("extracting")
    /\ Goto(IF Snapshot THEN "packing" ELSE Refused)
    /\ UNCHANGED <<manifest, disk, stores, jobs, bounds>>

\* The fence, upsert_version of the vectors, and the comparison.
BuildVectors ==
    /\ At("vectors")
    /\ vectors' = IF handler.held THEN [vectors EXCEPT ![Target] = "all"] ELSE vectors
    /\ Goto(IF handler.held THEN "graph" ELSE "raised")
    /\ UNCHANGED <<manifest, disk, graph, lexical, jobs, bounds>>

BuildGraph ==
    /\ At("graph")
    /\ graph' = IF handler.held THEN graph \cup {Target} ELSE graph
    /\ Goto(IF handler.held THEN "lexical" ELSE "raised")
    /\ UNCHANGED <<manifest, disk, vectors, lexical, jobs, bounds>>

\* LexicalIndex.replace: one transaction, behind _owned.
ReplaceLexical ==
    /\ At("lexical")
    /\ lexical' = IF Owned /\ index[Current] = "building" THEN lexical \cup {Target} ELSE lexical
    /\ Goto(IF Owned /\ index[Current] = "building" THEN "packing" ELSE Refused)
    /\ UNCHANGED <<manifest, disk, vectors, graph, jobs, bounds>>

\* DerivedArtifactStore.publish: everything is written aside ...
Pack ==
    /\ At("packing")
    /\ IF Owned /\ index[Current] \in {"building", "ready"}
       THEN /\ leftover' = leftover \cup {Current}
            /\ \E bytes \in Builds(handler.engine) :
                  handler' = [handler EXCEPT !.at = "sealing", !.bytes = bytes]
       ELSE Goto(Refused) /\ UNCHANGED leftover
    /\ UNCHANGED <<manifest, files, artifact, stores, jobs, bounds>>

\* Mutant of Seal: whatever stands at the destination is taken for this build.
SealOver ==
    /\ At("sealing")
    /\ artifact' = IF Owned /\ artifact[Current] = None
                   THEN [artifact EXCEPT ![Current] = handler.bytes] ELSE artifact
    /\ leftover' = leftover \ {Current}
    /\ Goto(IF Owned THEN "completing" ELSE Refused)
    /\ UNCHANGED <<manifest, files, stores, jobs, bounds>>

\* ... and renamed behind the fence, unless other bytes are there; the
\* directory aside goes in any case.  The result is read back.
Seal ==
    /\ At("sealing")
    /\ artifact' = IF Owned /\ artifact[Current] = None
                   THEN [artifact EXCEPT ![Current] = handler.bytes] ELSE artifact
    /\ leftover' = leftover \ {Current}
    /\ Goto(IF Owned /\ artifact[Current] \in {None, handler.bytes} THEN "completing" ELSE Refused)
    /\ UNCHANGED <<manifest, files, stores, jobs, bounds>>

Complete ==
    /\ At("completing")
    /\ IF Owned /\ index[Current] \in {"building", "ready"}
       THEN /\ index' = [index EXCEPT ![Current] = "ready"]
            /\ digest' = [digest EXCEPT ![Current] = handler.bytes]
            /\ handler' = [handler EXCEPT !.at = "selecting", !.engine = None, !.bytes = None]
       ELSE Goto(Refused) /\ UNCHANGED <<index, digest>>
    /\ UNCHANGED <<document, active, version, head, disk, stores, jobs, bounds>>

\* indexes.fail, which a tombstone or a lost lease refuses.
FailIndex ==
    /\ At("failing")
    /\ index' = IF Owned /\ index[Current] # "ready"
                THEN [index EXCEPT ![Current] = "failed"] ELSE index
    /\ Goto(IF handler.held THEN "condemning" ELSE "raised")
    /\ UNCHANGED <<document, active, version, digest, head, disk, stores, jobs, bounds>>

\* Mutant of FailVersion: the version is failed whether it is served or not.
FailServedVersion ==
    /\ At("condemning")
    /\ version' = IF handler.held THEN [version EXCEPT ![Target] = "failed"] ELSE version
    /\ Goto("raised")
    /\ UNCHANGED <<document, active, index, digest, head, disk, stores, jobs, bounds>>

\* _process_selected fails its version, unless that was served when it began
\* or is served now.
FailVersion ==
    /\ At("condemning")
    /\ version' = IF handler.held /\ ~handler.noted /\ active # Target
                  THEN [version EXCEPT ![Target] = "failed"] ELSE version
    /\ Goto("raised")
    /\ UNCHANGED <<document, active, index, digest, head, disk, stores, jobs, bounds>>

AllBuilt == \A e \in Job.engines : index[<<e, Target>>] = "ready"
PointHeads == head' = [e \in Engines |-> IF e \in Job.engines THEN Target ELSE head[e]]

\* IndexRepository.activate: the source must still be the one being served.
Activate ==
    /\ At("activating")
    /\ IF Owned /\ ActiveSource(Target) /\ AllBuilt
       THEN PointHeads /\ Goto("finishing")
       ELSE Goto("condemning") /\ UNCHANGED head
    /\ UNCHANGED <<document, active, version, index, digest, disk, stores, jobs, bounds>>

\* publish_version with publish_source_heads: one transaction for the source
\* and every selected engine.
Publish ==
    /\ At("publishing")
    /\ IF Owned /\ AllBuilt
       THEN /\ version' = [version EXCEPT ![Target] = "ready"]
            /\ document' = "live" /\ active' = Target
            /\ PointHeads /\ Goto("finishing")
       ELSE Goto("condemning") /\ UNCHANGED <<document, active, version, head>>
    /\ UNCHANGED <<index, digest, disk, stores, jobs, bounds>>

-----------------------------------------------------------------------------
(* _process_delete.                                                        *)

Invalidate ==
    /\ At("invalidating")
    /\ IF ~handler.held \/ document # "deleted"
       THEN Goto("raised") /\ UNCHANGED <<index, head>>
       ELSE /\ index' = [i \in AllIndexes |-> IF index[i] = "absent" THEN "absent" ELSE "invalidated"]
            /\ head' = [e \in Engines |-> None]
            /\ Goto("dropVectors")
    /\ UNCHANGED <<document, active, version, digest, disk, stores, jobs, bounds>>

DropVectors ==
    /\ At("dropVectors")
    /\ vectors' = IF handler.noted THEN [v \in Versions |-> "none"] ELSE vectors
    /\ Goto("dropLexical")
    /\ UNCHANGED <<manifest, disk, graph, lexical, jobs, bounds>>

DropLexical ==
    /\ At("dropLexical")
    /\ lexical' = IF handler.held /\ document = "deleted" THEN {} ELSE lexical
    /\ Goto(IF handler.held /\ document = "deleted" THEN "dropArtifacts" ELSE "raised")
    /\ UNCHANGED <<manifest, disk, vectors, graph, jobs, bounds>>

\* Mutant of DropArtifacts: only the indexes of the active version are removed.
DropArtifactsOfTarget ==
    /\ At("dropArtifacts")
    /\ artifact' = IF handler.held
                   THEN [i \in AllIndexes |-> IF i[2] = Target THEN None ELSE artifact[i]]
                   ELSE artifact
    /\ Goto(IF handler.held THEN "dropGraph" ELSE "raised")
    /\ UNCHANGED <<manifest, files, leftover, stores, jobs, bounds>>

\* DerivedArtifactStore.delete_document: the directory of each index row.
DropArtifacts ==
    /\ At("dropArtifacts")
    /\ artifact' = IF handler.held
                   THEN [i \in AllIndexes |-> IF index[i] = "absent" THEN artifact[i] ELSE None]
                   ELSE artifact
    /\ Goto(IF handler.held THEN "dropGraph" ELSE "raised")
    /\ UNCHANGED <<manifest, files, leftover, stores, jobs, bounds>>

DropGraph ==
    /\ At("dropGraph")
    /\ graph' = IF handler.held /\ handler.noted THEN {} ELSE graph
    /\ Goto(IF handler.held THEN "dropFiles" ELSE "raised")
    /\ UNCHANGED <<manifest, disk, vectors, lexical, jobs, bounds>>

DropFiles ==
    /\ At("dropFiles")
    /\ files' = IF handler.held THEN {} ELSE files
    /\ Goto(IF handler.held THEN "finishing" ELSE "raised")
    /\ UNCHANGED <<manifest, artifact, leftover, stores, jobs, bounds>>

-----------------------------------------------------------------------------
(* The end of an attempt, and its failures.                                *)

\* The last progress report, then finish_job; without the lease the row stays
\* running for Recover.
Settle ==
    /\ handler.at \in {"finishing", "raised"}
    /\ jobs' = IF handler.held
               THEN [jobs EXCEPT ![handler.job].status =
                        IF At("finishing") THEN "succeeded" ELSE "failed"]
               ELSE jobs
    /\ handler' = Idle
    /\ UNCHANGED <<manifest, disk, stores, bounds>>

\* What an interrupted call leaves behind.
Interrupted ==
    /\ faults < MaxFaults
    /\ faults' = faults + 1
    /\ vectors' \in CASE At("vectors") /\ handler.held /\ vectors[Target] # "all" ->
                         {vectors, [vectors EXCEPT ![Target] = "some"]}
                    [] At("dropVectors") /\ handler.noted ->
                         {vectors, [v \in Versions |-> IF vectors[v] = "none" THEN "none" ELSE "some"]}
                    [] OTHER -> {vectors}
    /\ artifact' \in IF At("dropArtifacts") /\ handler.held
                     THEN {artifact} \cup
                          {[artifact EXCEPT ![i] = Broken] : i \in {k \in AllIndexes : artifact[k] # None}}
                     ELSE {artifact}

BuildStages == {"vectors", "graph", "lexical", "extracting", "packing", "sealing", "completing"}
TriedStages == {"marking", "selecting", "opening", "activating", "publishing"}

\* A store, a model or the database refuses a call.
Fault ==
    /\ handler.at \notin {"idle", "raised"}
    /\ Interrupted
    /\ leftover' = IF At("sealing") THEN leftover \ {Current} ELSE leftover
    /\ Goto(IF handler.at \in BuildStages THEN "failing"
            ELSE IF handler.at \in TriedStages THEN "condemning" ELSE "raised")
    /\ UNCHANGED <<manifest, files, graph, lexical, jobs, retries>>

LoseLease ==
    /\ handler.held
    /\ faults < MaxFaults
    /\ faults' = faults + 1
    /\ handler' = [handler EXCEPT !.held = FALSE]
    /\ UNCHANGED <<manifest, disk, stores, jobs, retries>>

Crash ==
    /\ ~At("idle")
    /\ Interrupted
    /\ handler' = Idle
    /\ UNCHANGED <<manifest, files, leftover, graph, lexical, jobs, retries>>

-----------------------------------------------------------------------------

Submit ==
    \/ \E v \in Versions, es \in Selections : Import(v, es)
    \/ \E v \in Versions, e \in Engines : SubmitReindex(v, e)
    \/ Tombstone
    \/ \E j \in DOMAIN jobs : Retry(j)

Work ==
    \/ \E j \in DOMAIN jobs : Claim(j)
    \/ Recover \/ Begin \/ Mark \/ Select \/ Open \/ Extract
    \/ BuildVectors \/ BuildGraph \/ ReplaceLexical \/ Pack \/ Seal \/ Complete
    \/ FailIndex \/ FailVersion \/ Activate \/ Publish
    \/ Invalidate \/ DropVectors \/ DropLexical \/ DropArtifacts \/ DropGraph \/ DropFiles
    \/ Settle

Next == Submit \/ Work \/ Fault \/ LoseLease \/ Crash

Spec == Init /\ [][Next]_vars

-----------------------------------------------------------------------------
(* Properties.                                                             *)

TypeOK ==
    /\ document \in {"absent", "live", "deleted"}
    /\ active \in Versions \cup {None}
    /\ version \in [Versions -> {"absent", "staged", "indexing", "ready", "failed"}]
    /\ index \in [AllIndexes -> {"absent", "staged", "building", "ready", "failed", "invalidated"}]
    /\ digest \in [AllIndexes -> {None, 1, 2}]
    /\ head \in [Engines -> Versions \cup {None}]
    /\ files \subseteq Versions
    /\ artifact \in [AllIndexes -> {None, Broken, 1, 2}]
    /\ leftover \subseteq AllIndexes
    /\ vectors \in [Versions -> {"none", "some", "all"}]
    /\ graph \subseteq Versions /\ lexical \subseteq Versions
    /\ handler.engine \in Engines \cup {None} /\ handler.todo \subseteq Engines
    /\ retries \in 0 .. MaxRetries /\ faults \in 0 .. MaxFaults

\* An engine that readers are given has all it needs: the bytes its row
\* names, and for the hybrid engine every vector, the lexical rows and the
\* graph.  This is what audit (hybrid.py) compares, in every state.
ServedIndexIsComplete ==
    \A e \in Engines : Ready(e) =>
        /\ Verified(<<e, active>>)
        /\ e = Hybrid => active \in graph \cap lexical

\* "a failed replacement preserves the previous source and usable head",
\* "Source publication and selected ready heads commit in one transaction"
\* (ARCHITECTURE.md:97-101): the steps readers can see are those of Catalogue.
served == [e \in Engines |-> IF Ready(e) THEN active ELSE None]
Promise == INSTANCE Catalogue WITH deleted <- document = "deleted"
KeepsCatalogue == Promise!Spec

\* A successful cleanup leaves no passage that a retrieval could find and no
\* derived directory, though jobs ran, failed and were retried around it.
CleanupLeavesNothing ==
    document = "deleted" /\ CleanedUp =>
        /\ \A v \in Versions : vectors[v] = "none"
        /\ graph = {} /\ lexical = {}
        /\ \A i \in AllIndexes : artifact[i] = None /\ index[i] \in {"absent", "invalidated"}

\* "derived stores are cleaned" (UBUNTU_INSTALLATION.md:216): no bytes of a
\* deleted source stay in the derived store.
NoBuildOutlivesItsSource ==
    document = "deleted" /\ CleanedUp => leftover = {}
=============================================================================
