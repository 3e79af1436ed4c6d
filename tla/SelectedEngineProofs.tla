------------------------ MODULE SelectedEngineProofs ------------------------
(***************************************************************************)
(* For any engines, selections, versions, jobs and failures: an index that *)
(* readers are given is whole, a cleanup leaves nothing to retrieve, and   *)
(* what readers are given changes by the steps of Catalogue only.          *)
(***************************************************************************)
EXTENDS SelectedEngines, SequenceTheorems, TLAPS

-----------------------------------------------------------------------------
(* The inductive invariant, in the parts each step can disturb.            *)

\* The handler past Begin, by the kind of its job.
Building == {"vectors", "graph", "lexical", "extracting", "packing", "sealing", "completing"}
Importing == {"marking", "selecting", "opening", "failing", "condemning", "activating",
              "publishing"} \cup Building
Invalidated == {"dropVectors", "dropLexical", "dropArtifacts", "dropGraph", "dropFiles"}
Cleaning == {"invalidating"} \cup Invalidated
Stages == {"idle", "begin", "finishing", "raised"} \cup Importing \cup Cleaning

Deleting(stages) == \/ handler.at \in stages
                    \/ At("finishing") /\ Job.op = "delete_document"

Row == [op : {"import_document", "build_index", "delete_document"},
        version : Versions \cup {None}, engines : SUBSET Engines,
        status : {"queued", "running", "succeeded", "failed"}]

Place == [at : Stages, job : Nat, engine : Engines \cup {None}, todo : SUBSET Engines,
          noted : BOOLEAN, held : BOOLEAN, bytes : {None, 1, 2}]

JobsAreTyped == jobs \in Seq(Row)

\* A job that builds has a version and engines to build.
BuildJobsHaveTargets ==
    \A j \in DOMAIN jobs : jobs[j].op # "delete_document" =>
        jobs[j].version \in Versions /\ jobs[j].engines # {}

\* The handler works on a running job of the kind its stage belongs to.
HandlerHasJob ==
    /\ handler \in Place
    /\ ~At("idle") => handler.job \in DOMAIN jobs /\ Job.status = "running"
    /\ handler.at \in Importing => Job.op # "delete_document"
    /\ handler.at \in Cleaning => Job.op = "delete_document"

\* Only the latest deletion may be outstanding, and only under a tombstone.
OneDeletionOutstanding ==
    \A j \in Deletions : jobs[j].status # "succeeded" =>
        /\ document = "deleted"
        /\ \A k \in Deletions : k <= j

\* No build is past its first tombstone check once a cleanup is done.
NoBuildAfterCleanup == handler.at \in Importing /\ document = "deleted" => ~CleanedUp

\* The version that is served is ready, and its source is not deleted.
ActiveIsReady == active # None => document = "live" /\ version[active] = "ready"

\* A head names an index that is ready.
HeadsAreReady == \A e \in Engines : head[e] # None => index[<<e, head[e]>>] = "ready"

\* What the handler read first about its source stays true.
NotedHolds ==
    /\ handler.at \in Importing /\ ~handler.noted => active # Target
    /\ Deleting(Cleaning) /\ ~handler.noted => \A v \in Versions : index[<<Hybrid, v>>] = "absent"

\* Stores are written only for a prepared index.
StoresAreIndexed ==
    /\ \A i \in AllIndexes : index[i] = "absent" => artifact[i] = None
    /\ \A v \in Versions : index[<<Hybrid, v>>] = "absent" => vectors[v] = "none" /\ v \notin graph

\* An index that is ready is whole, whether a head names it or not.
ReadyIndexIsWhole ==
    \A i \in AllIndexes : index[i] = "ready" =>
        /\ Verified(i)
        /\ i[1] = Hybrid => i[2] \in graph \cap lexical

\* How far the build of one index has come.
BuildProgress ==
    /\ handler.at \in Building \cup {"opening", "failing"} => handler.engine \in Engines
    /\ handler.at \in Building => index[Current] = "building"
    /\ handler.at = "failing" => index[Current] # "absent"
    /\ handler.at \in {"vectors", "graph", "lexical"} => handler.engine = Hybrid
    /\ handler.engine = Hybrid =>
          /\ handler.at \in {"graph", "lexical", "packing", "sealing", "completing"} =>
                vectors[Target] = "all"
          /\ handler.at \in {"lexical", "packing", "sealing", "completing"} => Target \in graph
          /\ handler.at \in {"packing", "sealing", "completing"} => Target \in lexical
          /\ handler.at # "extracting"
    /\ handler.at \in {"sealing", "completing"} => handler.bytes \in {1, 2}
    /\ handler.at = "completing" => artifact[Current] = handler.bytes

\* How far a cleanup has come.
CleanupProgress ==
    /\ Deleting(Invalidated) =>
          /\ \A e \in Engines : head[e] = None
          /\ \A i \in AllIndexes : index[i] \in {"absent", "invalidated"}
    /\ Deleting({"dropLexical", "dropArtifacts", "dropGraph", "dropFiles"}) =>
          \A v \in Versions : vectors[v] = "none"
    /\ Deleting({"dropArtifacts", "dropGraph", "dropFiles"}) => lexical = {}
    /\ Deleting({"dropGraph", "dropFiles"}) => \A i \in AllIndexes : artifact[i] = None
    /\ Deleting({"dropFiles"}) => graph = {}

Table == JobsAreTyped /\ BuildJobsHaveTargets /\ OneDeletionOutstanding
Reading == ActiveIsReady /\ HeadsAreReady
Attempt == HandlerHasJob /\ NoBuildAfterCleanup /\ NotedHolds /\ BuildProgress /\ CleanupProgress
Storing == StoresAreIndexed /\ ReadyIndexIsWhole /\ CleanupLeavesNothing

Inv == TypeOK /\ Table /\ Reading /\ Attempt /\ Storing

-----------------------------------------------------------------------------
(* Lemmas about the job table.                                             *)

LEMMA TableUpdate ==
    ASSUME NEW S, NEW s \in Seq(S), NEW t \in [DOMAIN s -> S]
    PROVE  t \in Seq(S) /\ Len(t) = Len(s) /\ DOMAIN t = DOMAIN s
BY DOMAIN t = 1 .. Len(s), Len(s) \in Nat

LEMMA NewRow ==
    ASSUME NEW op \in {"import_document", "build_index", "delete_document"},
           NEW v \in Versions \cup {None}, NEW es \in SUBSET Engines
    PROVE  [op |-> op, version |-> v, engines |-> es, status |-> "queued"] \in Row
BY DEF Row

LEMMA StatusUpdate ==
    ASSUME NEW r \in Row, NEW s \in {"queued", "running", "succeeded", "failed"}
    PROVE  /\ [r EXCEPT !.status = s] \in Row
           /\ [r EXCEPT !.status = s].op = r.op
           /\ [r EXCEPT !.status = s].version = r.version
           /\ [r EXCEPT !.status = s].engines = r.engines
           /\ [r EXCEPT !.status = s].status = s
BY DEF Row

\* What a step leaves of the table when it settles no deletion and submits
\* none.
Reshuffled ==
    /\ jobs' \in Seq(Row)
    /\ DOMAIN jobs \subseteq DOMAIN jobs'
    /\ \A j \in DOMAIN jobs : /\ jobs'[j].op = jobs[j].op
                              /\ jobs'[j].version = jobs[j].version
                              /\ jobs'[j].engines = jobs[j].engines
                              /\ jobs[j].op = "delete_document" =>
                                   (jobs'[j].status = "succeeded" <=> jobs[j].status = "succeeded")
    /\ \A j \in DOMAIN jobs' \ DOMAIN jobs : /\ jobs'[j].op # "delete_document"
                                             /\ jobs'[j].version \in Versions
                                             /\ jobs'[j].engines # {}

LEMMA ReshuffledTable ==
    ASSUME Table, Reshuffled, document' = document \/ \A j \in Deletions : jobs[j].status = "succeeded"
    PROVE  /\ Deletions' = Deletions
           /\ CleanedUp' <=> CleanedUp
           /\ Table'
<1>1. Deletions' = Deletions
  BY DEF Reshuffled, Deletions
<1>2. CleanedUp' <=> CleanedUp
  BY <1>1 DEF Reshuffled, CleanedUp, Deletions
<1>3. BuildJobsHaveTargets'
  BY DEF Table, Reshuffled, BuildJobsHaveTargets
<1>4. OneDeletionOutstanding'
  BY <1>1 DEF Table, Reshuffled, OneDeletionOutstanding, Deletions
<1>. QED  BY <1>1, <1>2, <1>3, <1>4 DEF Table, JobsAreTyped, Reshuffled

\* A new status for one row that leaves a deletion's success as it is.
LEMMA OneRow ==
    ASSUME Table, NEW j \in DOMAIN jobs, NEW s \in {"queued", "running", "succeeded", "failed"},
           jobs' = [jobs EXCEPT ![j].status = s],
           j \in Deletions => (s = "succeeded" <=> jobs[j].status = "succeeded")
    PROVE  /\ Reshuffled
           /\ DOMAIN jobs' = DOMAIN jobs
           /\ \A k \in DOMAIN jobs \ {j} : jobs'[k] = jobs[k]
           /\ jobs'[j].op = jobs[j].op
           /\ jobs'[j].version = jobs[j].version
           /\ jobs'[j].status = s
<1>. DEFINE row == [jobs[j] EXCEPT !.status = s]
<1>1. jobs \in Seq(Row) /\ jobs[j] \in Row
  BY DEF Table, JobsAreTyped
<1>2. /\ row \in Row /\ row.op = jobs[j].op /\ row.version = jobs[j].version
      /\ row.engines = jobs[j].engines /\ row.status = s
  BY <1>1, StatusUpdate
<1>3. jobs' = [jobs EXCEPT ![j] = row]
  BY <1>1
<1>. HIDE DEF row
<1>4. jobs' \in Seq(Row) /\ DOMAIN jobs' = DOMAIN jobs
  BY <1>1, <1>2, <1>3
<1>5. jobs'[j] = row /\ \A k \in DOMAIN jobs \ {j} : jobs'[k] = jobs[k]
  BY <1>1, <1>3
<1>6. Reshuffled
  BY <1>2, <1>4, <1>5 DEF Reshuffled, Deletions
<1>. QED  BY <1>2, <1>4, <1>5, <1>6

\* A completed cleanup means that every deletion is done.
LEMMA CleanedUpCompletely ==
    ASSUME Table, CleanedUp
    PROVE  \A j \in Deletions : jobs[j].status = "succeeded"
<1>. SUFFICES ASSUME NEW j \in Deletions, jobs[j].status # "succeeded"
              PROVE  FALSE
  OBVIOUS
<1>1. PICK k \in Deletions : (\A m \in Deletions : m <= k) /\ jobs[k].status = "succeeded"
  BY DEF CleanedUp
<1>2. j <= k /\ k <= j /\ j \in Nat /\ k \in Nat
  BY <1>1 DEF Table, JobsAreTyped, OneDeletionOutstanding, Deletions
<1>. QED  BY <1>1, <1>2

\* While a cleanup runs, its source is deleted and serves nothing, and the
\* cleanup is the latest one.
LEMMA CleanupUnderTombstone ==
    ASSUME Table, HandlerHasJob, ActiveIsReady, Deleting(Cleaning) \/ (At("begin") /\ Job.op = "delete_document")
    PROVE  /\ document = "deleted" /\ active = None
           /\ ~CleanedUp
           /\ handler.job \in Deletions
           /\ \A k \in Deletions : k <= handler.job
<1>1. handler.job \in Deletions /\ jobs[handler.job].status # "succeeded"
  BY DEF HandlerHasJob, Deleting, Deletions, Job, At, Cleaning, Invalidated
<1>2. document = "deleted" /\ \A k \in Deletions : k <= handler.job
  BY <1>1 DEF Table, OneDeletionOutstanding
<1>3. active = None
  BY <1>2 DEF ActiveIsReady
<1>4. ~CleanedUp
  BY <1>1, CleanedUpCompletely
<1>. QED  BY <1>1, <1>2, <1>3, <1>4

-----------------------------------------------------------------------------
(* Lemmas about the handler.                                               *)

LEMMA GotoEffect ==
    ASSUME handler \in Place, NEW stage \in Stages, Goto(stage)
    PROVE  /\ handler' \in Place
           /\ handler'.at = stage
           /\ handler'.job = handler.job /\ handler'.engine = handler.engine
           /\ handler'.todo = handler.todo /\ handler'.noted = handler.noted
           /\ handler'.held = handler.held /\ handler'.bytes = handler.bytes
BY DEF Goto, Place

\* The handler keeps its job.
LEMMA JobKept ==
    ASSUME UNCHANGED jobs, handler'.job = handler.job
    PROVE  /\ Job' = Job /\ Target' = Target
           /\ Deletions' = Deletions /\ (CleanedUp' <=> CleanedUp)
BY DEF Job, Target, Deletions, CleanedUp

LEMMA BuildTarget ==
    ASSUME Table, HandlerHasJob, handler.at \in Importing
    PROVE  Target \in Versions /\ Job.engines # {} /\ Job.engines \subseteq Engines
           /\ Job.op # "delete_document"
<1>1. handler.job \in DOMAIN jobs /\ Job.op # "delete_document"
  BY DEF HandlerHasJob, Importing, Building, At
<1>2. jobs[handler.job] \in Row
  BY <1>1 DEF Table, JobsAreTyped
<1>. QED  BY <1>1, <1>2 DEF Table, BuildJobsHaveTargets, Job, Target, Row

\* A build goes on, is given up or ends.
LEMMA BuildMoves ==
    ASSUME Inv, handler.at \in Importing, handler' \in Place,
           handler'.at \in Importing \cup {"raised", "finishing"},
           handler'.job = handler.job, handler'.noted = handler.noted, UNCHANGED jobs,
           document' = document \/ (document # "deleted" /\ document' = "live"),
           handler'.at \in Importing => active' = active,
           BuildProgress'
    PROVE  Table' /\ Attempt' /\ CleanupLeavesNothing'
<1>0. Job.op # "delete_document"
  BY BuildTarget DEF Inv, Attempt
<1>1. Job' = Job /\ Target' = Target /\ Deletions' = Deletions /\ (CleanedUp' <=> CleanedUp)
  BY JobKept
<1>2. Table'
  BY <1>1 DEF Inv, Table, JobsAreTyped, BuildJobsHaveTargets, OneDeletionOutstanding
<1>3. HandlerHasJob'
  BY <1>1 DEF Inv, Attempt, HandlerHasJob, At, Importing, Building, Cleaning, Invalidated
<1>4. NoBuildAfterCleanup' /\ CleanupLeavesNothing'
  BY <1>1 DEF Inv, Attempt, NoBuildAfterCleanup, CleanupLeavesNothing
<1>5. NotedHolds' /\ CleanupProgress'
  BY <1>0, <1>1 DEF Inv, Attempt, NotedHolds, CleanupProgress, Deleting, At, Importing, Building,
     Cleaning, Invalidated
<1>. QED  BY <1>2, <1>3, <1>4, <1>5 DEF Attempt

\* A cleanup goes on, ends or is given up.
LEMMA CleanupMoves ==
    ASSUME Inv, handler.at \in Cleaning, handler' \in Place,
           handler'.at \in Cleaning \cup {"raised", "finishing"},
           handler'.job = handler.job, handler'.noted = handler.noted,
           UNCHANGED <<jobs, document, active>>,
           \A v \in Versions : index[<<Hybrid, v>>] = "absent" => index'[<<Hybrid, v>>] = "absent",
           CleanupProgress'
    PROVE  Table' /\ Attempt' /\ CleanupLeavesNothing'
<1>1. Job' = Job /\ Target' = Target /\ Deletions' = Deletions /\ (CleanedUp' <=> CleanedUp)
  BY JobKept
<1>2. Table'
  BY <1>1 DEF Inv, Table, JobsAreTyped, BuildJobsHaveTargets, OneDeletionOutstanding
<1>3. HandlerHasJob'
  BY <1>1 DEF Inv, Attempt, HandlerHasJob, At, Importing, Building, Cleaning, Invalidated
<1>4. ~CleanedUp
  <2>1. Deleting(Cleaning)
    BY DEF Deleting
  <2>2. Table /\ HandlerHasJob /\ ActiveIsReady
    BY DEF Inv, Attempt, Reading
  <2>. QED  BY <2>1, <2>2, CleanupUnderTombstone
<1>5. NoBuildAfterCleanup' /\ CleanupLeavesNothing'
  BY <1>1, <1>4 DEF NoBuildAfterCleanup, CleanupLeavesNothing
<1>6. NotedHolds'
  BY <1>1 DEF Inv, Attempt, NotedHolds, Deleting, At, Importing, Building, Cleaning, Invalidated
<1>7. BuildProgress'
  BY DEF BuildProgress, Building, Cleaning, Invalidated
<1>. QED  BY <1>2, <1>3, <1>5, <1>6, <1>7 DEF Attempt

-----------------------------------------------------------------------------
(* Initially.                                                              *)

LEMMA InvInit == Init => Inv
<1>. SUFFICES ASSUME Init PROVE Inv
  OBVIOUS
<1>. USE DEF Init
<1>1. Idle \in Place /\ handler.at = "idle" /\ handler.engine = None
  BY EnginesAssumption DEF Idle, Place, Stages
<1>2. Deletions = {} /\ jobs \in Seq(Row) /\ DOMAIN jobs = {}
  BY DEF Deletions
<1>. HIDE DEF Idle
<1>3. TypeOK
  BY <1>1, EnginesAssumption DEF TypeOK, Place
<1>4. Table /\ Reading
  BY <1>2 DEF Table, JobsAreTyped, BuildJobsHaveTargets, OneDeletionOutstanding, Reading,
     ActiveIsReady, HeadsAreReady
<1>5. HandlerHasJob /\ NoBuildAfterCleanup /\ NotedHolds /\ CleanupProgress
  BY <1>1 DEF HandlerHasJob, NoBuildAfterCleanup, NotedHolds, CleanupProgress, Deleting, At,
     Importing, Building, Cleaning, Invalidated
<1>6. BuildProgress
  BY <1>1, EnginesAssumption DEF BuildProgress, Building
<1>7. Storing
  BY <1>2 DEF Storing, StoresAreIndexed, ReadyIndexIsWhole, CleanupLeavesNothing, CleanedUp, AllIndexes
<1>. QED  BY <1>3, <1>4, <1>5, <1>6, <1>7 DEF Inv, Attempt

-----------------------------------------------------------------------------
(* Submissions and retries.                                                *)

\* A step of a submission: the table may be reshuffled, the stores and the
\* handler and its job are left alone, and an index is only prepared.
LEMMA SubmissionStep ==
    ASSUME Inv, Reshuffled, TypeOK',
           UNCHANGED <<active, digest, head, artifact, leftover, vectors, graph, lexical, handler>>,
           ~At("idle") => jobs'[handler.job] = jobs[handler.job],
           \/ document' = document
           \/ document' = "live" /\ document # "live" /\ \A j \in Deletions : jobs[j].status = "succeeded",
           \A v \in Versions : version[v] = "ready" => version'[v] = "ready",
           \A i \in AllIndexes : \/ index'[i] = index[i]
                                 \/ index[i] = "absent" /\ index'[i] = "staged" /\ document' = "live"
    PROVE  Inv'
<1>1. Deletions' = Deletions /\ (CleanedUp' <=> CleanedUp) /\ Table'
  BY ReshuffledTable DEF Inv
<1>2. Job' = Job \/ At("idle")
  BY DEF Job
<1>3. Reading'
  <2>1. ActiveIsReady'
    BY DEF Inv, Reading, ActiveIsReady, TypeOK
  <2>2. ASSUME NEW e \in Engines, head[e] # None PROVE index'[<<e, head[e]>>] = "ready"
    <3>1. <<e, head[e]>> \in AllIndexes
      BY <2>2 DEF Inv, TypeOK, AllIndexes
    <3>2. index[<<e, head[e]>>] = "ready"
      BY <2>2 DEF Inv, Reading, HeadsAreReady
    <3>. QED  BY <3>1, <3>2
  <2>. QED  BY <2>1, <2>2 DEF Reading, HeadsAreReady
<1>4. HandlerHasJob'
  <2>1. ~At("idle") => handler.job \in DOMAIN jobs'
    BY DEF Inv, Attempt, HandlerHasJob, Reshuffled
  <2>. QED  BY <1>2, <2>1 DEF Inv, Attempt, HandlerHasJob, At, Importing, Building, Cleaning, Invalidated
<1>5. NoBuildAfterCleanup' /\ CleanupLeavesNothing'
  <2>1. document' = "deleted" => document = "deleted"
    OBVIOUS
  <2>2. document' = "deleted" => \A i \in AllIndexes : index'[i] = index[i]
    OBVIOUS
  <2>. QED  BY <1>1, <2>1, <2>2 DEF Inv, Attempt, Storing, NoBuildAfterCleanup, CleanupLeavesNothing
<1>6. ~At("idle") => Target' = Target
  BY DEF Target, Job
<1>7. ASSUME Deleting(Cleaning) PROVE \A i \in AllIndexes : index'[i] = index[i]
  <2>1. document = "deleted" /\ handler.job \in Deletions /\ jobs[handler.job].status # "succeeded"
    BY <1>7, CleanupUnderTombstone
       DEF Inv, Attempt, Reading, HandlerHasJob, Deleting, At, Job, Cleaning, Invalidated
  <2>. QED  BY <2>1
<1>8. NotedHolds'
  <2>1. handler.at \in Importing \cup Cleaning \/ At("finishing") => ~At("idle")
    BY DEF At, Importing, Building, Cleaning, Invalidated
  <2>2. Deleting(Cleaning)' = Deleting(Cleaning)
    BY <1>2, <2>1 DEF Deleting, At, Cleaning, Invalidated
  <2>3. \A v \in Versions : <<Hybrid, v>> \in AllIndexes
    BY EnginesAssumption DEF AllIndexes
  <2>. QED  BY <1>6, <1>7, <2>1, <2>2, <2>3 DEF Inv, Attempt, NotedHolds
<1>9. CleanupProgress'
  <2>1. \A stages \in SUBSET Cleaning : Deleting(stages)' = Deleting(stages)
    BY <1>2 DEF Deleting, At
  <2>2. Deleting(Invalidated) => Deleting(Cleaning)
    BY DEF Deleting, Cleaning
  <2>. QED  BY <1>7, <2>1, <2>2 DEF Inv, Attempt, CleanupProgress, Cleaning, Invalidated
<1>10. BuildProgress'
  <2>1. handler.at \in Building \cup {"failing"} => Current \in AllIndexes
    BY BuildTarget DEF Inv, Attempt, BuildProgress, AllIndexes, Current, Importing
  <2>2. handler.at \in Building \cup {"failing"} => Current' = Current /\ Target' = Target
    BY <1>6 DEF Current, At, Building
  <2>3. handler.at \in Building => index'[Current] = index[Current]
    BY <2>1 DEF Inv, Attempt, BuildProgress
  <2>4. handler.at = "failing" => index'[Current] # "absent"
    BY <2>1 DEF Inv, Attempt, BuildProgress
  <2>. QED  BY <2>2, <2>3, <2>4 DEF Inv, Attempt, BuildProgress, Building
<1>11. StoresAreIndexed' /\ ReadyIndexIsWhole'
  <2>1. \A i \in AllIndexes : /\ index'[i] = "absent" => index[i] = "absent"
                              /\ index'[i] = "ready" => index[i] = "ready"
    OBVIOUS
  <2>2. \A v \in Versions : <<Hybrid, v>> \in AllIndexes
    BY EnginesAssumption DEF AllIndexes
  <2>. QED  BY <2>1, <2>2 DEF Inv, Storing, StoresAreIndexed, ReadyIndexIsWhole, Verified
<1>. QED  BY <1>1, <1>3, <1>4, <1>5, <1>8, <1>9, <1>10, <1>11 DEF Inv, Attempt, Storing

\* A job that is put, or put back, by a submission.
LEMMA PutJobEffect ==
    ASSUME Inv, NEW op \in {"import_document", "build_index"}, NEW v \in Versions,
           NEW es \in SUBSET Engines, es # {}, NEW again \in BOOLEAN, PutJob(op, v, es, again)
    PROVE  /\ Reshuffled
           /\ ~At("idle") => jobs'[handler.job] = jobs[handler.job]
<1>. DEFINE known == {j \in DOMAIN jobs : /\ jobs[j].op = op
                                          /\ jobs[j].version = v
                                          /\ jobs[j].engines = es}
            row == [op |-> op, version |-> v, engines |-> es, status |-> "queued"]
<1>1. jobs \in Seq(Row) /\ row \in Row /\ \A j \in DOMAIN jobs : jobs[j] \in Row
  BY NewRow DEF Inv, Table, JobsAreTyped
<1>2. ~At("idle") => handler.job \in DOMAIN jobs /\ jobs[handler.job].status = "running"
  BY DEF Inv, Attempt, HandlerHasJob, Job
<1>3. CASE jobs' = Append(jobs, row)
  BY <1>1, <1>2, <1>3 DEF Reshuffled
<1>4. CASE jobs' = [j \in DOMAIN jobs |->
                      IF j \in known /\ again /\ jobs[j].status = "succeeded"
                      THEN [jobs[j] EXCEPT !.status = "queued"] ELSE jobs[j]]
  <2>1. \A j \in DOMAIN jobs :
           LET queued == [jobs[j] EXCEPT !.status = "queued"] IN
           queued \in Row /\ queued.op = jobs[j].op /\ queued.version = jobs[j].version
           /\ queued.engines = jobs[j].engines
    BY <1>1, StatusUpdate
  <2>2. jobs' \in [DOMAIN jobs -> Row]
    BY <1>1, <1>4, <2>1
  <2>3. jobs' \in Seq(Row) /\ DOMAIN jobs' = DOMAIN jobs
    BY <1>1, <2>2, TableUpdate
  <2>4. \A j \in DOMAIN jobs : /\ jobs[j].op = "delete_document" => jobs'[j] = jobs[j]
                               /\ jobs[j].status = "running" => jobs'[j] = jobs[j]
                               /\ \/ jobs'[j] = jobs[j]
                                  \/ jobs'[j] = [jobs[j] EXCEPT !.status = "queued"]
    BY <1>4
  <2>5. \A j \in DOMAIN jobs : /\ jobs'[j].op = jobs[j].op
                               /\ jobs'[j].version = jobs[j].version
                               /\ jobs'[j].engines = jobs[j].engines
    BY <2>1, <2>4
  <2>. QED  BY <1>2, <2>3, <2>4, <2>5 DEF Reshuffled
<1>. QED  BY <1>3, <1>4 DEF PutJob

LEMMA ImportStep ==
    ASSUME Inv, NEW v \in Versions, NEW es \in Selections, Import(v, es)
    PROVE  Inv'
<1>1. es \in SUBSET Engines /\ es # {}
  BY EnginesAssumption
<1>2. Reshuffled /\ (~At("idle") => jobs'[handler.job] = jobs[handler.job])
  BY <1>1, PutJobEffect, AllReady(v, es) \in BOOLEAN DEF Import, AllReady
<1>3. UNCHANGED <<active, digest, head, artifact, leftover, vectors, graph, lexical, handler,
                  retries, faults>>
      /\ document' = "live" /\ files' = files \cup {v}
  BY DEF Import, stores, bounds
<1>4. /\ version' \in [Versions -> {"absent", "staged", "indexing", "ready", "failed"}]
      /\ \A w \in Versions : version[w] = "ready" => version'[w] = "ready"
  BY DEF Import, Inv, TypeOK
<1>5. \A i \in AllIndexes : index'[i] = index[i] \/ (index[i] = "absent" /\ index'[i] = "staged")
  BY DEF Import, Prepare
<1>6. index' \in [AllIndexes -> {"absent", "staged", "building", "ready", "failed", "invalidated"}]
  BY DEF Import, Prepare, Inv, TypeOK
<1>7. TypeOK'
  BY <1>3, <1>4, <1>6 DEF Inv, TypeOK
<1>8. document # "live" => \A j \in Deletions : jobs[j].status = "succeeded"
  BY CleanedUpCompletely DEF Import, Inv, Table, OneDeletionOutstanding
<1>. QED  BY <1>2, <1>3, <1>4, <1>5, <1>7, <1>8, SubmissionStep DEF TypeOK

LEMMA SubmitReindexStep ==
    ASSUME Inv, NEW v \in Versions, NEW e \in Engines, SubmitReindex(v, e)
    PROVE  Inv'
<1>1. Reshuffled /\ (~At("idle") => jobs'[handler.job] = jobs[handler.job])
  BY PutJobEffect, {e} \in SUBSET Engines, {e} # {} DEF SubmitReindex
<1>2. UNCHANGED <<document, active, version, digest, head, files, artifact, leftover, vectors,
                  graph, lexical, handler, retries, faults>>
      /\ document = "live"
  BY DEF SubmitReindex, ActiveSource, disk, stores, bounds
<1>3. \A i \in AllIndexes : index'[i] = index[i] \/ (index[i] = "absent" /\ index'[i] = "staged")
  BY DEF SubmitReindex, Prepare
<1>4. index' \in [AllIndexes -> {"absent", "staged", "building", "ready", "failed", "invalidated"}]
  BY DEF SubmitReindex, Prepare, Inv, TypeOK
<1>5. TypeOK'
  BY <1>2, <1>4 DEF Inv, TypeOK
<1>. QED  BY <1>1, <1>2, <1>3, <1>5, SubmissionStep

LEMMA RetryStep ==
    ASSUME Inv, NEW j \in DOMAIN jobs, Retry(j)
    PROVE  Inv'
<1>1. /\ Reshuffled
      /\ \A k \in DOMAIN jobs \ {j} : jobs'[k] = jobs[k]
  BY OneRow DEF Retry, Inv
<1>2. ~At("idle") => jobs'[handler.job] = jobs[handler.job]
  BY <1>1 DEF Retry, Inv, Attempt, HandlerHasJob, Job
<1>3. UNCHANGED <<document, active, version, index, digest, head, files, artifact, leftover,
                  vectors, graph, lexical, handler, faults>>
      /\ retries < MaxRetries /\ retries' = retries + 1
  BY DEF Retry, manifest, disk, stores
<1>4. TypeOK'
  BY <1>3, EnginesAssumption DEF Inv, TypeOK
<1>. QED  BY <1>1, <1>2, <1>3, <1>4, SubmissionStep

LEMMA RecoverStep ==
    ASSUME Inv, Recover
    PROVE  Inv'
<1>1. jobs \in Seq(Row) /\ \A j \in DOMAIN jobs : jobs[j] \in Row
  BY DEF Inv, Table, JobsAreTyped
<1>2. \A j \in DOMAIN jobs :
         LET queued == [jobs[j] EXCEPT !.status = "queued"] IN
         queued \in Row /\ queued.op = jobs[j].op /\ queued.version = jobs[j].version
         /\ queued.engines = jobs[j].engines /\ queued.status = "queued"
  BY <1>1, StatusUpdate
<1>3. jobs' \in [DOMAIN jobs -> Row]
  BY <1>1, <1>2 DEF Recover
<1>4. jobs' \in Seq(Row) /\ DOMAIN jobs' = DOMAIN jobs
  BY <1>1, <1>3, TableUpdate
<1>5. \A j \in DOMAIN jobs : \/ jobs'[j] = jobs[j]
                             \/ /\ jobs[j].status = "running"
                                /\ jobs'[j] = [jobs[j] EXCEPT !.status = "queued"]
  BY DEF Recover
<1>6. \A j \in DOMAIN jobs : /\ jobs'[j].op = jobs[j].op
                             /\ jobs'[j].version = jobs[j].version
                             /\ jobs'[j].engines = jobs[j].engines
                             /\ jobs'[j].status = "succeeded" <=> jobs[j].status = "succeeded"
  BY <1>2, <1>5
<1>7. Reshuffled
  BY <1>4, <1>6 DEF Reshuffled
<1>8. At("idle")
      /\ UNCHANGED <<document, active, version, index, digest, head, files, artifact, leftover,
                     vectors, graph, lexical, handler, retries, faults>>
  BY DEF Recover, manifest, disk, stores, bounds
<1>9. TypeOK'
  BY <1>8 DEF Inv, TypeOK
<1>. QED  BY <1>7, <1>8, <1>9, SubmissionStep

LEMMA TombstoneStep ==
    ASSUME Inv, Tombstone
    PROVE  Inv'
<1>. DEFINE row == [op |-> "delete_document", version |-> active, engines |-> {},
                    status |-> "queued"]
            kept == [j \in DOMAIN jobs |->
                        IF j \notin Deletions /\ jobs[j].status = "queued"
                        THEN [jobs[j] EXCEPT !.status = "failed"] ELSE jobs[j]]
<1>1. jobs \in Seq(Row) /\ row \in Row /\ \A j \in DOMAIN jobs : jobs[j] \in Row
  <2>1. row \in Row
    BY NewRow DEF Inv, TypeOK
  <2>. QED  BY <2>1 DEF Inv, Table, JobsAreTyped
<1>2. \A j \in DOMAIN jobs :
         LET failed == [jobs[j] EXCEPT !.status = "failed"] IN
         failed \in Row /\ failed.op = jobs[j].op /\ failed.version = jobs[j].version
         /\ failed.engines = jobs[j].engines
  BY <1>1, StatusUpdate
<1>3. kept \in [DOMAIN jobs -> Row]
  BY <1>1, <1>2
<1>4. \A j \in DOMAIN jobs : /\ kept[j].op = jobs[j].op
                             /\ kept[j].version = jobs[j].version
                             /\ kept[j].engines = jobs[j].engines
                             /\ j \in Deletions \/ jobs[j].status # "queued" => kept[j] = jobs[j]
  <2>1. \A j \in DOMAIN jobs :
           \/ kept[j] = jobs[j]
           \/ /\ j \notin Deletions /\ jobs[j].status = "queued"
              /\ kept[j] = [jobs[j] EXCEPT !.status = "failed"]
    OBVIOUS
  <2>. HIDE DEF kept
  <2>. QED  BY <1>2, <2>1
<1>5. jobs' = Append(kept, row) /\ Len(jobs) \in Nat /\ DOMAIN jobs = 1 .. Len(jobs)
  BY <1>1 DEF Tombstone
<1>. HIDE DEF kept
<1>6. kept \in Seq(Row) /\ Len(kept) = Len(jobs) /\ DOMAIN kept = DOMAIN jobs
  BY <1>1, <1>3, TableUpdate
<1>7. /\ jobs' \in Seq(Row)
      /\ DOMAIN jobs' = 1 .. Len(jobs) + 1
      /\ jobs'[Len(jobs) + 1] = row
      /\ \A j \in DOMAIN jobs : jobs'[j] = kept[j]
  BY <1>1, <1>5, <1>6
<1>8. Deletions' = Deletions \cup {Len(jobs) + 1} /\ \A j \in Deletions : jobs'[j] = jobs[j]
  BY <1>4, <1>5, <1>7 DEF Deletions
<1>9. ~CleanedUp'
  <2>. SUFFICES ASSUME NEW j \in Deletions', \A k \in Deletions' : k <= j,
                       jobs'[j].status = "succeeded"
                PROVE  FALSE
    BY DEF CleanedUp
  <2>1. j \in DOMAIN jobs' /\ Len(jobs) + 1 <= j
    BY <1>8 DEF Deletions
  <2>2. j = Len(jobs) + 1
    BY <1>5, <1>7, <2>1
  <2>. QED  BY <1>7, <2>2
<1>10. document = "live" /\ document' = "deleted" /\ active' = None
       /\ UNCHANGED <<version, index, digest, head, files, artifact, leftover,
                      vectors, graph, lexical, handler, retries, faults>>
  BY DEF Tombstone, disk, stores, bounds
<1>11. Table'
  <2>1. \A j \in Deletions : jobs[j].status = "succeeded"
    BY <1>10 DEF Inv, Table, OneDeletionOutstanding
  <2>2. \A k \in Deletions' : k <= Len(jobs) + 1
    BY <1>5, <1>8 DEF Deletions
  <2>3. OneDeletionOutstanding'
    BY <1>8, <1>10, <2>1, <2>2 DEF OneDeletionOutstanding
  <2>4. BuildJobsHaveTargets'
    BY <1>4, <1>5, <1>7 DEF Inv, Table, BuildJobsHaveTargets
  <2>. QED  BY <1>7, <2>3, <2>4 DEF Table, JobsAreTyped
<1>12. TypeOK'
  BY <1>10 DEF Inv, TypeOK
<1>13. Reading'
  BY <1>10 DEF Inv, Reading, ActiveIsReady, HeadsAreReady
<1>14. ~At("idle") => handler.job \in DOMAIN jobs' /\ Job' = Job /\ Target' = Target
  BY <1>4, <1>5, <1>7, <1>10 DEF Inv, Attempt, HandlerHasJob, Job, Target
<1>15. ~Deleting(Cleaning)
  BY CleanupUnderTombstone, <1>10 DEF Inv, Attempt, Reading
<1>16. HandlerHasJob'
  BY <1>10, <1>14 DEF Inv, Attempt, HandlerHasJob, At, Importing, Building, Cleaning, Invalidated
<1>17. ~Deleting(Cleaning)'
  BY <1>10, <1>14, <1>15 DEF Deleting, At
<1>18. NotedHolds'
  BY <1>10, <1>14, <1>17, BuildTarget, EnginesAssumption
     DEF NotedHolds, Inv, Attempt, At, Importing, Building
<1>19. CleanupProgress'
  BY <1>17 DEF CleanupProgress, Deleting, Cleaning, Invalidated
<1>20. BuildProgress'
  BY <1>10, <1>14 DEF Inv, Attempt, BuildProgress, Building, Current, At
<1>21. NoBuildAfterCleanup' /\ CleanupLeavesNothing'
  BY <1>9 DEF NoBuildAfterCleanup, CleanupLeavesNothing
<1>22. StoresAreIndexed' /\ ReadyIndexIsWhole'
  BY <1>10 DEF Inv, Storing, StoresAreIndexed, ReadyIndexIsWhole, Verified
<1>. QED  BY <1>11, <1>12, <1>13, <1>16, <1>18, <1>19, <1>20, <1>21, <1>22 DEF Inv, Attempt, Storing

-----------------------------------------------------------------------------
(* The handler's attempt begins.                                           *)

LEMMA ClaimStep ==
    ASSUME Inv, NEW j \in DOMAIN jobs, Claim(j)
    PROVE  Inv'
<1>1. /\ Reshuffled
      /\ DOMAIN jobs' = DOMAIN jobs
      /\ jobs'[j].op = jobs[j].op
      /\ jobs'[j].status = "running"
  BY OneRow DEF Claim, Inv
<1>2. UNCHANGED <<document, active, version, index, digest, head, files, artifact, leftover,
                  vectors, graph, lexical, retries, faults>>
  BY DEF Claim, manifest, disk, stores, bounds
<1>3. j \in Nat
  BY DEF Inv, Table, JobsAreTyped
<1>4. handler' \in Place /\ handler'.at = "begin" /\ handler'.job = j
  <2>1. Idle \in Place
    BY EnginesAssumption DEF Idle, Place, Stages
  <2>2. handler' = [Idle EXCEPT !.at = "begin", !.job = j, !.held = TRUE]
    BY DEF Claim
  <2>. HIDE DEF Idle
  <2>. QED  BY <1>3, <2>1, <2>2 DEF Place, Stages
<1>5. TypeOK'
  BY <1>2, <1>4 DEF Inv, TypeOK, Place
<1>6. (CleanedUp' <=> CleanedUp) /\ Table'
  BY <1>1, <1>2, ReshuffledTable DEF Inv
<1>7. HandlerHasJob'
  BY <1>1, <1>4 DEF HandlerHasJob, Job, Importing, Building, Cleaning, Invalidated
<1>8. NoBuildAfterCleanup' /\ NotedHolds' /\ BuildProgress' /\ CleanupProgress'
  BY <1>4 DEF NoBuildAfterCleanup, NotedHolds, BuildProgress, CleanupProgress, Deleting, At,
     Importing, Building, Cleaning, Invalidated
<1>9. Reading' /\ Storing'
  BY <1>2, <1>6 DEF Inv, Reading, ActiveIsReady, HeadsAreReady, Storing, StoresAreIndexed,
     ReadyIndexIsWhole, Verified, CleanupLeavesNothing
<1>. QED  BY <1>5, <1>6, <1>7, <1>8, <1>9 DEF Inv, Attempt

\* A step of the handler that writes nothing keeps what is stored and read.
LEMMA NothingWritten ==
    ASSUME Inv, handler' \in Place, (CleanedUp' <=> CleanedUp),
           UNCHANGED <<document, active, version, index, digest, head, files, artifact, leftover,
                       vectors, graph, lexical, retries, faults>>
    PROVE  TypeOK' /\ Reading' /\ Storing'
<1>1. TypeOK'
  BY DEF Inv, TypeOK, Place
<1>2. Reading'
  BY DEF Inv, Reading, ActiveIsReady, HeadsAreReady
<1>3. Storing'
  BY DEF Inv, Storing, StoresAreIndexed, ReadyIndexIsWhole, Verified, CleanupLeavesNothing
<1>. QED  BY <1>1, <1>2, <1>3

LEMMA BeginStep ==
    ASSUME Inv, Begin
    PROVE  Inv'
<1>0. /\ handler \in Place /\ At("begin") /\ Table /\ HandlerHasJob /\ ActiveIsReady
      /\ UNCHANGED <<document, active, version, index, digest, head, files, artifact, leftover,
                     vectors, graph, lexical, jobs, retries, faults>>
  BY DEF Begin, Inv, Attempt, Reading, HandlerHasJob, manifest, disk, stores, bounds
<1>1. /\ handler.job \in DOMAIN jobs /\ Job \in Row /\ Job.status = "running"
      /\ handler.job \in Deletions <=> Job.op = "delete_document"
  BY <1>0 DEF HandlerHasJob, At, Job, Table, JobsAreTyped, Deletions
<1>2. CASE handler'.at = "raised" /\ handler' = [handler EXCEPT !.at = "raised"]
  <2>1. handler' \in Place /\ handler'.job = handler.job
    BY <1>0, <1>2 DEF Place, Stages
  <2>2. Attempt' /\ Table' /\ (CleanedUp' <=> CleanedUp)
    <3>1. Job' = Job /\ Deletions' = Deletions /\ (CleanedUp' <=> CleanedUp)
      BY <1>0, <2>1, JobKept
    <3>2. Table'
      BY <1>0, <3>1 DEF Table, JobsAreTyped, BuildJobsHaveTargets, OneDeletionOutstanding
    <3>3. Attempt'
      BY <1>0, <1>1, <1>2, <2>1, <3>1 DEF Attempt, HandlerHasJob, NoBuildAfterCleanup, NotedHolds,
         BuildProgress, CleanupProgress, Deleting, At, Importing, Building, Cleaning, Invalidated
    <3>. QED  BY <3>1, <3>2, <3>3
  <2>. QED  BY <1>0, <2>1, <2>2, NothingWritten DEF Inv
<1>3. CASE /\ Job.op = "delete_document"
           /\ handler' = [handler EXCEPT !.at = "invalidating",
                             !.noted = \E v \in Versions : index[<<Hybrid, v>>] # "absent"]
  <2>. DEFINE noted == \E v \in Versions : index[<<Hybrid, v>>] # "absent"
  <2>0. noted \in BOOLEAN
    OBVIOUS
  <2>1. handler' \in Place /\ handler'.job = handler.job /\ handler'.at = "invalidating"
        /\ handler'.noted = noted
    <3>1. handler' = [handler EXCEPT !.at = "invalidating", !.noted = noted]
      BY <1>3
    <3>. HIDE DEF noted
    <3>. QED  BY <1>0, <2>0, <3>1 DEF Place, Stages, Cleaning
  <2>2. Job' = Job /\ Deletions' = Deletions /\ (CleanedUp' <=> CleanedUp)
    BY <1>0, <2>1, JobKept
  <2>3. Table'
    BY <1>0, <2>2 DEF Table, JobsAreTyped, BuildJobsHaveTargets, OneDeletionOutstanding
  <2>4. HandlerHasJob'
    BY <1>0, <1>1, <1>3, <2>1, <2>2 DEF HandlerHasJob, At, Importing, Building
  <2>5. NotedHolds'
    BY <1>0, <2>1 DEF NotedHolds, Importing, Building
  <2>6. NoBuildAfterCleanup' /\ BuildProgress' /\ CleanupProgress'
    BY <2>1 DEF NoBuildAfterCleanup, BuildProgress, CleanupProgress, Deleting, At, Importing,
       Building, Cleaning, Invalidated
  <2>. QED  BY <1>0, <2>1, <2>2, <2>3, <2>4, <2>5, <2>6, NothingWritten DEF Inv, Attempt
<1>4. CASE /\ Job.op # "delete_document" /\ document # "deleted"
           /\ handler' = [handler EXCEPT !.at = "marking", !.noted = ActiveSource(Target),
                                         !.todo = Job.engines]
  <2>0. ActiveSource(Target) \in BOOLEAN /\ Job.engines \in SUBSET Engines /\ Target \in Versions
    BY <1>0, <1>1, <1>4 DEF ActiveSource, Row, Table, BuildJobsHaveTargets, Job, Target
  <2>1. handler' \in Place /\ handler'.job = handler.job /\ handler'.at = "marking"
        /\ handler'.noted = ActiveSource(Target)
    <3>. DEFINE noted == ActiveSource(Target)
                todo == Job.engines
    <3>1. handler' = [handler EXCEPT !.at = "marking", !.noted = noted, !.todo = todo]
          /\ noted \in BOOLEAN /\ todo \in SUBSET Engines
      BY <1>4, <2>0
    <3>. HIDE DEF noted, todo
    <3>2. handler' \in Place /\ handler'.job = handler.job /\ handler'.at = "marking"
          /\ handler'.noted = noted
      BY <1>0, <3>1 DEF Place, Stages, Importing
    <3>. QED  BY <3>2 DEF noted
  <2>2. Job' = Job /\ Target' = Target /\ Deletions' = Deletions /\ (CleanedUp' <=> CleanedUp)
    BY <1>0, <2>1, JobKept
  <2>3. Table'
    BY <1>0, <2>2 DEF Table, JobsAreTyped, BuildJobsHaveTargets, OneDeletionOutstanding
  <2>4. HandlerHasJob'
    BY <1>0, <1>1, <1>4, <2>1, <2>2 DEF HandlerHasJob, At, Cleaning, Invalidated
  <2>5. NotedHolds'
    BY <1>0, <2>0, <2>1, <2>2, EnginesAssumption
       DEF NotedHolds, ActiveSource, ActiveIsReady, Deleting, At, Cleaning, Invalidated
  <2>6. NoBuildAfterCleanup' /\ BuildProgress' /\ CleanupProgress'
    BY <1>0, <1>4, <2>1 DEF NoBuildAfterCleanup, BuildProgress, CleanupProgress, Deleting, At,
       Building, Invalidated
  <2>. QED  BY <1>0, <2>1, <2>2, <2>3, <2>4, <2>5, <2>6, NothingWritten DEF Inv, Attempt
<1>5. CASE handler' = [handler EXCEPT !.at = "raised", !.noted = ActiveSource(Target),
                                      !.todo = Job.engines]
  <2>0. ActiveSource(Target) \in BOOLEAN /\ Job.engines \in SUBSET Engines
    BY <1>1 DEF ActiveSource, Row
  <2>1. handler' \in Place /\ handler'.job = handler.job /\ handler'.at = "raised"
    <3>. DEFINE noted == ActiveSource(Target)
                todo == Job.engines
    <3>1. handler' = [handler EXCEPT !.at = "raised", !.noted = noted, !.todo = todo]
          /\ noted \in BOOLEAN /\ todo \in SUBSET Engines
      BY <1>5, <2>0
    <3>. HIDE DEF noted, todo
    <3>. QED  BY <1>0, <3>1 DEF Place, Stages
  <2>2. Job' = Job /\ Deletions' = Deletions /\ (CleanedUp' <=> CleanedUp)
    BY <1>0, <2>1, JobKept
  <2>3. Table'
    BY <1>0, <2>2 DEF Table, JobsAreTyped, BuildJobsHaveTargets, OneDeletionOutstanding
  <2>4. Attempt'
    BY <1>0, <1>1, <2>1, <2>2 DEF Attempt, HandlerHasJob, NoBuildAfterCleanup, NotedHolds,
       BuildProgress, CleanupProgress, Deleting, At, Importing, Building, Cleaning, Invalidated
  <2>. QED  BY <1>0, <2>1, <2>2, <2>3, <2>4, NothingWritten DEF Inv
<1>6. CASE ~handler.held
  <2>1. handler' = [handler EXCEPT !.at = "raised"]
    BY <1>6 DEF Begin
  <2>. QED  BY <1>0, <1>2, <2>1 DEF Place, Stages
<1>7. CASE handler.held /\ handler.job \in Deletions
  BY <1>1, <1>3, <1>7 DEF Begin
<1>8. CASE handler.held /\ handler.job \notin Deletions
  BY <1>1, <1>4, <1>5, <1>8 DEF Begin
<1>. QED  BY <1>6, <1>7, <1>8

-----------------------------------------------------------------------------
(* A build, step by step.                                                  *)

\* What the handler's own target gives a build step.
LEMMA AtBuild ==
    ASSUME Inv, handler.at \in Importing
    PROVE  /\ handler \in Place /\ Table /\ HandlerHasJob /\ ActiveIsReady
           /\ Target \in Versions /\ Job.engines # {} /\ Job.engines \subseteq Engines
           /\ handler.engine \in Engines => Current \in AllIndexes
           /\ ~handler.noted => active # Target
BY BuildTarget DEF Inv, Attempt, Reading, HandlerHasJob, AllIndexes, Current, NotedHolds

\* A build is given up: nothing is known of its index any more.
LEMMA GivenUp ==
    ASSUME Inv, handler.at \in Importing, NEW stage \in {"condemning", "raised", "selecting", "activating", "publishing", "finishing"},
           Goto(stage), UNCHANGED <<jobs, document, active>>
    PROVE  /\ handler' \in Place
           /\ Table' /\ Attempt' /\ CleanupLeavesNothing'
           /\ (CleanedUp' <=> CleanedUp)
<1>1. handler \in Place /\ stage \in Stages
  BY AtBuild DEF Stages, Importing
<1>2. /\ handler' \in Place /\ handler'.at = stage /\ handler'.job = handler.job
      /\ handler'.noted = handler.noted
  BY <1>1, GotoEffect
<1>3. BuildProgress'
  BY <1>2 DEF BuildProgress, Building
<1>4. stage \in Importing \cup {"raised", "finishing"}
  BY DEF Importing
<1>. QED  BY <1>2, <1>3, <1>4, BuildMoves, JobKept

LEMMA MarkStep ==
    ASSUME Inv, Mark
    PROVE  Inv'
<1>0. /\ handler.at \in Importing
      /\ UNCHANGED <<document, active, index, digest, head, files, artifact, leftover,
                     vectors, graph, lexical, jobs, retries, faults>>
  BY DEF Mark, At, Importing, disk, stores, bounds
<1>1. \E stage \in {"raised", "selecting"} : Goto(stage)
  BY DEF Mark
<1>2. /\ handler' \in Place /\ Table' /\ Attempt' /\ CleanupLeavesNothing'
  BY <1>0, <1>1, GivenUp
<1>3. /\ Target \in Versions
      /\ version' = version \/ (active # Target /\ version' = [version EXCEPT ![Target] = "indexing"])
  BY <1>0, AtBuild DEF Mark
<1>4. TypeOK'
  BY <1>0, <1>2, <1>3 DEF Inv, TypeOK, Place
<1>5. Reading'
  BY <1>0, <1>3 DEF Inv, Reading, ActiveIsReady, HeadsAreReady, TypeOK
<1>6. Storing'
  BY <1>0, <1>2 DEF Inv, Storing, StoresAreIndexed, ReadyIndexIsWhole, Verified
<1>. QED  BY <1>2, <1>4, <1>5, <1>6 DEF Inv

\* A step that goes on to another stage and writes nothing.
LEMMA MovesOn ==
    ASSUME Inv, handler.at \in Importing, handler' \in Place,
           handler'.at \in Importing \cup {"raised"},
           handler'.job = handler.job, handler'.noted = handler.noted, BuildProgress',
           UNCHANGED <<document, active, version, index, digest, head, files, artifact, leftover,
                       vectors, graph, lexical, jobs, retries, faults>>
    PROVE  Inv'
<1>1. Table' /\ Attempt'
  BY BuildMoves
<1>2. CleanedUp' <=> CleanedUp
  BY JobKept
<1>. QED  BY <1>1, <1>2, NothingWritten DEF Inv

LEMMA SelectStep ==
    ASSUME Inv, Select
    PROVE  Inv'
<1>0. /\ handler.at \in Importing /\ handler.at = "selecting"
      /\ UNCHANGED <<document, active, version, index, digest, head, files, artifact, leftover,
                     vectors, graph, lexical, jobs, retries, faults>>
  BY DEF Select, At, Importing, manifest, disk, stores, bounds
<1>1. handler \in Place
  BY <1>0, AtBuild
<1>2. CASE \E stage \in {"activating", "publishing"} : Goto(stage)
  <2>1. handler' \in Place /\ Table' /\ Attempt' /\ (CleanedUp' <=> CleanedUp)
    BY <1>0, <1>2, GivenUp
  <2>. QED  BY <1>0, <2>1, NothingWritten DEF Inv
<1>3. ASSUME NEW e \in handler.todo,
             handler' = [handler EXCEPT !.at = "opening", !.engine = e, !.todo = @ \ {e}]
      PROVE  Inv'
  <2>1. e \in Engines /\ handler.todo \ {e} \in SUBSET Engines
    BY <1>1 DEF Place
  <2>2. /\ handler' \in Place /\ handler'.at = "opening" /\ handler'.engine = e
        /\ handler'.job = handler.job /\ handler'.noted = handler.noted
    BY <1>1, <1>3, <2>1 DEF Place, Stages, Importing
  <2>3. BuildProgress'
    BY <2>1, <2>2 DEF BuildProgress, Building
  <2>. QED  BY <1>0, <2>2, <2>3, MovesOn DEF Importing
<1>. QED  BY <1>2, <1>3 DEF Select

\* A new status of the index being built, which is not ready yet.
LEMMA StatusOfIndex ==
    ASSUME Inv, Current \in AllIndexes, index[Current] # "ready",
           NEW status \in {"building", "failed"}, index' = [index EXCEPT ![Current] = status],
           handler' \in Place,
           UNCHANGED <<document, active, version, digest, head, files, artifact, leftover,
                       vectors, graph, lexical, retries, faults>>
    PROVE  TypeOK' /\ Reading' /\ StoresAreIndexed' /\ ReadyIndexIsWhole'
<1>0. index \in [AllIndexes -> {"absent", "staged", "building", "ready", "failed", "invalidated"}]
  BY DEF Inv, TypeOK
<1>1. TypeOK'
  BY <1>0 DEF Inv, TypeOK, Place
<1>2. \A i \in AllIndexes : i # Current => index'[i] = index[i]
  BY <1>0
<1>3. index'[Current] = status
  BY <1>0
<1>4. Reading'
  <2>1. ASSUME NEW e \in Engines, head[e] # None PROVE index'[<<e, head[e]>>] = "ready"
    <3>1. <<e, head[e]>> \in AllIndexes /\ index[<<e, head[e]>>] = "ready"
      BY <2>1 DEF Inv, TypeOK, AllIndexes, Reading, HeadsAreReady
    <3>. QED  BY <1>2, <3>1
  <2>. QED  BY <2>1 DEF Inv, Reading, ActiveIsReady, HeadsAreReady
<1>5. \A v \in Versions : <<Hybrid, v>> \in AllIndexes
  BY EnginesAssumption DEF AllIndexes
<1>6. \A i \in AllIndexes : /\ index'[i] = "absent" => index[i] = "absent"
                            /\ index'[i] = "ready" => index[i] = "ready"
  BY <1>2, <1>3
<1>7. StoresAreIndexed' /\ ReadyIndexIsWhole'
  BY <1>5, <1>6 DEF Inv, Storing, StoresAreIndexed, ReadyIndexIsWhole, Verified
<1>. QED  BY <1>1, <1>4, <1>7

LEMMA OpenStep ==
    ASSUME Inv, Open
    PROVE  Inv'
<1>0. /\ handler.at \in Importing /\ handler.at = "opening"
      /\ UNCHANGED <<document, active, version, digest, head, files, artifact, leftover,
                     vectors, graph, lexical, jobs, retries, faults>>
  BY DEF Open, At, Importing, disk, stores, bounds
<1>1. /\ handler \in Place /\ handler.engine \in Engines
      /\ Target \in Versions /\ Current \in AllIndexes
  BY <1>0, AtBuild DEF Inv, Attempt, BuildProgress
<1>2. CASE UNCHANGED index /\ \E stage \in {"condemning", "raised", "selecting"} : Goto(stage)
  <2>1. handler' \in Place /\ Table' /\ Attempt' /\ (CleanedUp' <=> CleanedUp)
    BY <1>0, <1>2, GivenUp
  <2>. QED  BY <1>0, <1>2, <2>1, NothingWritten DEF Inv
<1>3. CASE /\ index[Current] # "ready" /\ index' = [index EXCEPT ![Current] = "building"]
           /\ Goto(IF handler.engine = Hybrid THEN "vectors" ELSE "extracting")
  <2>. DEFINE stage == IF handler.engine = Hybrid THEN "vectors" ELSE "extracting"
  <2>1. /\ handler' \in Place /\ handler'.at = stage /\ handler'.job = handler.job
        /\ handler'.engine = handler.engine /\ handler'.noted = handler.noted
    BY <1>1, <1>3, GotoEffect, stage \in Stages DEF Stages, Importing, Building
  <2>2. Current' = Current /\ Target' = Target
    BY <1>0, <2>1, JobKept DEF Current
  <2>3. index'[Current] = "building"
    BY <1>1, <1>3 DEF Inv, TypeOK
  <2>4. BuildProgress'
    BY <1>1, <2>1, <2>2, <2>3 DEF BuildProgress, Building
  <2>5. handler'.at \in Importing
    BY <2>1 DEF Importing, Building
  <2>6. Table' /\ Attempt' /\ CleanupLeavesNothing'
    BY <1>0, <2>1, <2>4, <2>5, BuildMoves
  <2>7. TypeOK' /\ Reading' /\ StoresAreIndexed' /\ ReadyIndexIsWhole'
    BY <1>0, <1>1, <1>3, <2>1, StatusOfIndex
  <2>. QED  BY <2>6, <2>7 DEF Inv, Storing
<1>. QED  BY <1>2, <1>3 DEF Open

LEMMA ExtractStep ==
    ASSUME Inv, Extract
    PROVE  Inv'
<1>0. /\ handler.at \in Importing /\ handler.at = "extracting"
      /\ UNCHANGED <<document, active, version, index, digest, head, files, artifact, leftover,
                     vectors, graph, lexical, jobs, retries, faults>>
  BY DEF Extract, At, Importing, Building, manifest, disk, stores, bounds
<1>1. PICK stage \in {"packing", "failing", "raised"} : Goto(stage)
  BY DEF Extract, Refused
<1>2. /\ handler' \in Place /\ handler'.at = stage /\ handler'.job = handler.job
      /\ handler'.engine = handler.engine /\ handler'.noted = handler.noted
  BY <1>0, <1>1, AtBuild, GotoEffect, stage \in Stages DEF Stages, Importing, Building
<1>3. Current' = Current /\ Target' = Target
  BY <1>0, <1>2, JobKept DEF Current
<1>4. BuildProgress'
  BY <1>0, <1>2, <1>3 DEF Inv, Attempt, BuildProgress, Building
<1>5. stage \in Importing \cup {"raised"}
  BY DEF Importing, Building
<1>. QED  BY <1>0, <1>2, <1>4, <1>5, MovesOn

LEMMA BuildVectorsStep ==
    ASSUME Inv, BuildVectors
    PROVE  Inv'
<1>0. /\ handler.at \in Importing /\ handler.at = "vectors"
      /\ UNCHANGED <<document, active, version, index, digest, head, files, artifact, leftover,
                     graph, lexical, jobs, retries, faults>>
  BY DEF BuildVectors, At, Importing, Building, manifest, disk, bounds
<1>1. PICK stage \in {"graph", "raised"} :
         /\ Goto(stage)
         /\ stage = "graph" => vectors' = [vectors EXCEPT ![Target] = "all"]
         /\ stage = "raised" => vectors' = vectors
  BY DEF BuildVectors
<1>2. /\ handler' \in Place /\ handler'.at = stage /\ handler'.job = handler.job
      /\ handler'.engine = handler.engine /\ handler'.noted = handler.noted
      /\ stage \in Importing \cup {"raised"}
  BY <1>0, <1>1, AtBuild, GotoEffect, stage \in Stages DEF Stages, Importing, Building
<1>3. Current' = Current /\ Target' = Target
  BY <1>0, <1>2, JobKept DEF Current
<1>4. /\ handler.engine = Hybrid /\ Target \in Versions /\ vectors \in [Versions -> {"none", "some", "all"}]
      /\ index[<<Hybrid, Target>>] = "building"
  BY <1>0, AtBuild DEF Inv, Attempt, BuildProgress, Building, Current, TypeOK
<1>5. BuildProgress'
  BY <1>0, <1>1, <1>2, <1>3, <1>4 DEF Inv, Attempt, BuildProgress, Building
<1>6. Table' /\ Attempt' /\ CleanupLeavesNothing'
  BY <1>0, <1>2, <1>5, BuildMoves
<1>7. TypeOK'
  BY <1>0, <1>1, <1>2, <1>4 DEF Inv, TypeOK, Place
<1>8. Reading'
  BY <1>0 DEF Inv, Reading, ActiveIsReady, HeadsAreReady
<1>9. StoresAreIndexed' /\ ReadyIndexIsWhole'
  <2>1. \A v \in Versions : vectors'[v] = vectors[v] \/ (v = Target /\ vectors'[v] = "all")
    BY <1>1, <1>4
  <2>2. \A i \in AllIndexes : i[2] \in Versions
    BY DEF AllIndexes
  <2>. QED  BY <1>0, <1>4, <2>1, <2>2 DEF Inv, Storing, StoresAreIndexed, ReadyIndexIsWhole, Verified
<1>. QED  BY <1>6, <1>7, <1>8, <1>9 DEF Inv, Storing

LEMMA BuildGraphStep ==
    ASSUME Inv, BuildGraph
    PROVE  Inv'
<1>0. /\ handler.at \in Importing /\ handler.at = "graph"
      /\ UNCHANGED <<document, active, version, index, digest, head, files, artifact, leftover,
                     vectors, lexical, jobs, retries, faults>>
  BY DEF BuildGraph, At, Importing, Building, manifest, disk, bounds
<1>1. PICK stage \in {"lexical", "raised"} :
         /\ Goto(stage)
         /\ stage = "lexical" => graph' = graph \cup {Target}
         /\ stage = "raised" => graph' = graph
  BY DEF BuildGraph
<1>2. /\ handler' \in Place /\ handler'.at = stage /\ handler'.job = handler.job
      /\ handler'.engine = handler.engine /\ handler'.noted = handler.noted
      /\ stage \in Importing \cup {"raised"}
  BY <1>0, <1>1, AtBuild, GotoEffect, stage \in Stages DEF Stages, Importing, Building
<1>3. Current' = Current /\ Target' = Target
  BY <1>0, <1>2, JobKept DEF Current
<1>4. /\ handler.engine = Hybrid /\ Target \in Versions
      /\ index[<<Hybrid, Target>>] = "building"
  BY <1>0, AtBuild DEF Inv, Attempt, BuildProgress, Building, Current
<1>5. BuildProgress'
  BY <1>0, <1>1, <1>2, <1>3 DEF Inv, Attempt, BuildProgress, Building
<1>6. Table' /\ Attempt' /\ CleanupLeavesNothing'
  BY <1>0, <1>2, <1>5, BuildMoves
<1>7. TypeOK'
  BY <1>0, <1>1, <1>2, <1>4 DEF Inv, TypeOK, Place
<1>8. Reading'
  BY <1>0 DEF Inv, Reading, ActiveIsReady, HeadsAreReady
<1>9. StoresAreIndexed' /\ ReadyIndexIsWhole'
  <2>1. graph \subseteq graph' /\ \A v \in graph' : v \in graph \/ v = Target
    BY <1>1
  <2>. QED  BY <1>0, <1>4, <2>1 DEF Inv, Storing, StoresAreIndexed, ReadyIndexIsWhole, Verified
<1>. QED  BY <1>6, <1>7, <1>8, <1>9 DEF Inv, Storing

LEMMA ReplaceLexicalStep ==
    ASSUME Inv, ReplaceLexical
    PROVE  Inv'
<1>0. /\ handler.at \in Importing /\ handler.at = "lexical"
      /\ UNCHANGED <<document, active, version, index, digest, head, files, artifact, leftover,
                     vectors, graph, jobs, retries, faults>>
  BY DEF ReplaceLexical, At, Importing, Building, manifest, disk, bounds
<1>1. PICK stage \in {"packing", "failing", "raised"} :
         /\ Goto(stage)
         /\ stage = "packing" => lexical' = lexical \cup {Target}
         /\ stage # "packing" => lexical' = lexical
  BY DEF ReplaceLexical, Refused
<1>2. /\ handler' \in Place /\ handler'.at = stage /\ handler'.job = handler.job
      /\ handler'.engine = handler.engine /\ handler'.noted = handler.noted
      /\ stage \in Importing \cup {"raised"}
  BY <1>0, <1>1, AtBuild, GotoEffect, stage \in Stages DEF Stages, Importing, Building
<1>3. Current' = Current /\ Target' = Target /\ Target \in Versions
  BY <1>0, <1>2, JobKept, AtBuild DEF Current
<1>5. BuildProgress'
  BY <1>0, <1>1, <1>2, <1>3 DEF Inv, Attempt, BuildProgress, Building
<1>6. Table' /\ Attempt' /\ CleanupLeavesNothing'
  BY <1>0, <1>2, <1>5, BuildMoves
<1>7. TypeOK'
  BY <1>0, <1>1, <1>2, <1>3 DEF Inv, TypeOK, Place
<1>8. Reading'
  BY <1>0 DEF Inv, Reading, ActiveIsReady, HeadsAreReady
<1>9. StoresAreIndexed' /\ ReadyIndexIsWhole'
  <2>1. lexical \subseteq lexical'
    BY <1>1
  <2>. QED  BY <1>0, <2>1 DEF Inv, Storing, StoresAreIndexed, ReadyIndexIsWhole, Verified
<1>. QED  BY <1>6, <1>7, <1>8, <1>9 DEF Inv, Storing

LEMMA PackStep ==
    ASSUME Inv, Pack
    PROVE  Inv'
<1>0. /\ handler.at \in Importing /\ handler.at = "packing"
      /\ UNCHANGED <<document, active, version, index, digest, head, files, artifact,
                     vectors, graph, lexical, jobs, retries, faults>>
  BY DEF Pack, At, Importing, Building, manifest, stores, bounds
<1>1. /\ handler \in Place /\ handler.engine \in Engines
      /\ Target \in Versions /\ Current \in AllIndexes
  BY <1>0, AtBuild DEF Inv, Attempt, BuildProgress, Building
<1>2. /\ handler' \in Place /\ handler'.at \in {"sealing", "failing", "raised"}
      /\ handler'.job = handler.job /\ handler'.engine = handler.engine
      /\ handler'.noted = handler.noted
      /\ handler'.at = "sealing" => handler'.bytes \in {1, 2}
  <2>1. CASE \E bytes \in Builds(handler.engine) :
                 handler' = [handler EXCEPT !.at = "sealing", !.bytes = bytes]
    <3>1. PICK bytes \in {1, 2} : handler' = [handler EXCEPT !.at = "sealing", !.bytes = bytes]
      BY <2>1 DEF Builds
    <3>. QED  BY <1>1, <3>1 DEF Place, Stages, Importing, Building
  <2>2. CASE Goto(Refused)
    BY <1>1, <2>2, GotoEffect, Refused \in {"failing", "raised"} DEF Refused, Stages, Importing
  <2>. QED  BY <2>1, <2>2 DEF Pack
<1>3. Current' = Current /\ Target' = Target
  BY <1>0, <1>2, JobKept DEF Current
<1>4. BuildProgress'
  BY <1>0, <1>2, <1>3 DEF Inv, Attempt, BuildProgress, Building
<1>5. Table' /\ Attempt' /\ CleanupLeavesNothing'
  BY <1>0, <1>2, <1>4, BuildMoves DEF Importing, Building
<1>6. leftover' \subseteq AllIndexes
  <2>1. leftover' = leftover \cup {Current} \/ leftover' = leftover
    BY DEF Pack
  <2>2. leftover \subseteq AllIndexes
    BY DEF Inv, TypeOK
  <2>. QED  BY <1>1, <2>1, <2>2
<1>7. TypeOK'
  BY <1>0, <1>2, <1>6 DEF Inv, TypeOK, Place
<1>8. Reading'
  BY <1>0 DEF Inv, Reading, ActiveIsReady, HeadsAreReady
<1>9. StoresAreIndexed' /\ ReadyIndexIsWhole'
  BY <1>0 DEF Inv, Storing, StoresAreIndexed, ReadyIndexIsWhole, Verified
<1>. QED  BY <1>5, <1>7, <1>8, <1>9 DEF Inv, Storing

LEMMA SealStep ==
    ASSUME Inv, Seal
    PROVE  Inv'
<1>0. /\ handler.at \in Importing /\ handler.at = "sealing"
      /\ UNCHANGED <<document, active, version, index, digest, head, files,
                     vectors, graph, lexical, jobs, retries, faults>>
  BY DEF Seal, At, Importing, Building, manifest, stores, bounds
<1>1. /\ handler \in Place /\ handler.engine \in Engines /\ handler.bytes \in {1, 2}
      /\ Target \in Versions /\ Current \in AllIndexes /\ index[Current] = "building"
      /\ artifact \in [AllIndexes -> {None, Broken, 1, 2}]
  BY <1>0, AtBuild DEF Inv, Attempt, BuildProgress, Building, TypeOK
<1>2. PICK stage \in {"completing", "failing", "raised"} :
         /\ Goto(stage)
         /\ stage = "completing" => Owned /\ artifact[Current] \in {None, handler.bytes}
  BY DEF Seal, Refused
<1>3. /\ handler' \in Place /\ handler'.at = stage /\ handler'.job = handler.job
      /\ handler'.engine = handler.engine /\ handler'.noted = handler.noted
      /\ handler'.bytes = handler.bytes
  BY <1>1, <1>2, GotoEffect, stage \in Stages DEF Stages, Importing, Building
<1>4. Current' = Current /\ Target' = Target
  BY <1>0, <1>3, JobKept DEF Current
<1>5. /\ artifact' \in [AllIndexes -> {None, Broken, 1, 2}]
      /\ \A i \in AllIndexes : i # Current => artifact'[i] = artifact[i]
  BY <1>1 DEF Seal
<1>6. stage = "completing" => artifact'[Current] = handler.bytes
  BY <1>1, <1>2 DEF Seal
<1>7. BuildProgress'
  BY <1>0, <1>1, <1>3, <1>4, <1>6 DEF Inv, Attempt, BuildProgress, Building
<1>8. Table' /\ Attempt' /\ CleanupLeavesNothing'
  BY <1>0, <1>3, <1>7, BuildMoves DEF Importing, Building
<1>9. leftover' \subseteq AllIndexes
  BY DEF Seal, Inv, TypeOK
<1>10. TypeOK'
  BY <1>0, <1>3, <1>5, <1>9 DEF Inv, TypeOK, Place
<1>11. Reading'
  BY <1>0 DEF Inv, Reading, ActiveIsReady, HeadsAreReady
<1>12. StoresAreIndexed' /\ ReadyIndexIsWhole'
  <2>1. \A i \in AllIndexes : index[i] \in {"absent", "ready"} => artifact'[i] = artifact[i]
    BY <1>1, <1>5
  <2>. QED  BY <1>0, <2>1 DEF Inv, Storing, StoresAreIndexed, ReadyIndexIsWhole, Verified
<1>. QED  BY <1>8, <1>10, <1>11, <1>12 DEF Inv, Storing

LEMMA CompleteStep ==
    ASSUME Inv, Complete
    PROVE  Inv'
<1>0. /\ handler.at \in Importing /\ handler.at = "completing"
      /\ UNCHANGED <<document, active, version, head, files, artifact, leftover,
                     vectors, graph, lexical, jobs, retries, faults>>
  BY DEF Complete, At, Importing, Building, disk, stores, bounds
<1>1. /\ handler \in Place /\ handler.engine \in Engines /\ handler.bytes \in {1, 2}
      /\ Target \in Versions /\ Current \in AllIndexes /\ index[Current] = "building"
      /\ artifact[Current] = handler.bytes
      /\ handler.engine = Hybrid => vectors[Target] = "all" /\ Target \in graph \cap lexical
  BY <1>0, AtBuild DEF Inv, Attempt, BuildProgress, Building
<1>2. CASE Goto(Refused) /\ UNCHANGED <<index, digest>>
  <2>1. PICK stage \in {"failing", "raised"} : Goto(stage)
    BY <1>2 DEF Refused
  <2>2. /\ handler' \in Place /\ handler'.at = stage /\ handler'.job = handler.job
        /\ handler'.engine = handler.engine /\ handler'.noted = handler.noted
    BY <1>1, <2>1, GotoEffect, stage \in Stages DEF Stages, Importing
  <2>3. Current' = Current
    BY <1>0, <2>2, JobKept DEF Current
  <2>4. BuildProgress'
    BY <1>0, <1>1, <1>2, <2>2, <2>3 DEF Inv, Attempt, BuildProgress, Building
  <2>. QED  BY <1>0, <1>2, <2>2, <2>4, MovesOn DEF Importing
<1>3. CASE /\ index' = [index EXCEPT ![Current] = "ready"]
           /\ digest' = [digest EXCEPT ![Current] = handler.bytes]
           /\ handler' = [handler EXCEPT !.at = "selecting", !.engine = None, !.bytes = None]
  <2>1. /\ handler' \in Place /\ handler'.at = "selecting" /\ handler'.job = handler.job
        /\ handler'.noted = handler.noted /\ handler'.engine = None
    BY <1>1, <1>3 DEF Place, Stages, Importing
  <2>2. BuildProgress'
    BY <2>1 DEF BuildProgress, Building
  <2>3. Table' /\ Attempt' /\ CleanupLeavesNothing'
    BY <1>0, <2>1, <2>2, BuildMoves DEF Importing
  <2>4. /\ index \in [AllIndexes -> {"absent", "staged", "building", "ready", "failed", "invalidated"}]
        /\ digest \in [AllIndexes -> {None, 1, 2}]
    BY DEF Inv, TypeOK
  <2>5. /\ \A i \in AllIndexes : i # Current => index'[i] = index[i] /\ digest'[i] = digest[i]
        /\ index'[Current] = "ready" /\ digest'[Current] = handler.bytes
        /\ index' \in [AllIndexes -> {"absent", "staged", "building", "ready", "failed", "invalidated"}]
        /\ digest' \in [AllIndexes -> {None, 1, 2}]
    BY <1>1, <1>3, <2>4
  <2>6. TypeOK'
    BY <1>0, <2>1, <2>5 DEF Inv, TypeOK, Place
  <2>7. Reading'
    <3>1. ASSUME NEW e \in Engines, head[e] # None PROVE index'[<<e, head[e]>>] = "ready"
      <4>1. <<e, head[e]>> \in AllIndexes /\ index[<<e, head[e]>>] = "ready"
        BY <3>1 DEF Inv, TypeOK, AllIndexes, Reading, HeadsAreReady
      <4>. QED  BY <2>5, <4>1
    <3>. QED  BY <1>0, <3>1 DEF Inv, Reading, ActiveIsReady, HeadsAreReady
  <2>8. StoresAreIndexed'
    <3>1. \A v \in Versions : <<Hybrid, v>> \in AllIndexes
      BY EnginesAssumption DEF AllIndexes
    <3>2. \A i \in AllIndexes : index'[i] = "absent" => index[i] = "absent"
      BY <2>5
    <3>. QED  BY <1>0, <3>1, <3>2 DEF Inv, Storing, StoresAreIndexed
  <2>9. ReadyIndexIsWhole'
    <3>. SUFFICES ASSUME NEW i \in AllIndexes, index'[i] = "ready"
                  PROVE  Verified(i)' /\ (i[1] = Hybrid => i[2] \in graph \cap lexical)
      BY <1>0 DEF ReadyIndexIsWhole
    <3>1. CASE i = Current
      <4>1. i[1] = handler.engine /\ i[2] = Target
        BY <3>1 DEF Current
      <4>2. artifact'[i] = digest'[i] /\ digest'[i] # None
        BY <1>0, <1>1, <2>5, <3>1, EnginesAssumption
      <4>. QED  BY <1>0, <1>1, <4>1, <4>2 DEF Verified
    <3>2. CASE i # Current
      BY <1>0, <2>5, <3>2 DEF Inv, Storing, ReadyIndexIsWhole, Verified
    <3>. QED  BY <3>1, <3>2
  <2>. QED  BY <2>3, <2>6, <2>7, <2>8, <2>9 DEF Inv, Storing
<1>. QED  BY <1>2, <1>3 DEF Complete

LEMMA FailIndexStep ==
    ASSUME Inv, FailIndex
    PROVE  Inv'
<1>0. /\ handler.at \in Importing /\ handler.at = "failing"
      /\ UNCHANGED <<document, active, version, digest, head, files, artifact, leftover,
                     vectors, graph, lexical, jobs, retries, faults>>
  BY DEF FailIndex, At, Importing, disk, stores, bounds
<1>1. Current \in AllIndexes
  BY <1>0, AtBuild DEF Inv, Attempt, BuildProgress
<1>2. \E stage \in {"condemning", "raised"} : Goto(stage)
  BY DEF FailIndex
<1>3. handler' \in Place /\ Table' /\ Attempt' /\ CleanupLeavesNothing' /\ (CleanedUp' <=> CleanedUp)
  BY <1>0, <1>2, GivenUp
<1>4. CASE index' = index
  BY <1>0, <1>3, <1>4, NothingWritten DEF Inv
<1>5. CASE index[Current] # "ready" /\ index' = [index EXCEPT ![Current] = "failed"]
  <2>1. TypeOK' /\ Reading' /\ StoresAreIndexed' /\ ReadyIndexIsWhole'
    BY <1>0, <1>1, <1>3, <1>5, StatusOfIndex
  <2>. QED  BY <1>3, <2>1 DEF Inv, Storing
<1>. QED  BY <1>4, <1>5 DEF FailIndex

LEMMA FailVersionStep ==
    ASSUME Inv, FailVersion
    PROVE  Inv'
<1>0. /\ handler.at \in Importing
      /\ UNCHANGED <<document, active, index, digest, head, files, artifact, leftover,
                     vectors, graph, lexical, jobs, retries, faults>>
  BY DEF FailVersion, At, Importing, disk, stores, bounds
<1>1. handler' \in Place /\ Table' /\ Attempt' /\ CleanupLeavesNothing'
  BY <1>0, GivenUp DEF FailVersion
<1>2. /\ Target \in Versions
      /\ version' = version \/ (active # Target /\ version' = [version EXCEPT ![Target] = "failed"])
  BY <1>0, AtBuild DEF FailVersion
<1>3. TypeOK'
  BY <1>0, <1>1, <1>2 DEF Inv, TypeOK, Place
<1>4. Reading'
  BY <1>0, <1>2 DEF Inv, Reading, ActiveIsReady, HeadsAreReady, TypeOK
<1>5. Storing'
  BY <1>0, <1>1 DEF Inv, Storing, StoresAreIndexed, ReadyIndexIsWhole, Verified
<1>. QED  BY <1>1, <1>3, <1>4, <1>5 DEF Inv

\* The heads move to a version whose indexes are all ready.
LEMMA HeadsMove ==
    ASSUME Inv, handler.at \in Importing, PointHeads, AllBuilt, UNCHANGED index
    PROVE  HeadsAreReady' /\ head' \in [Engines -> Versions \cup {None}]
<1>1. Target \in Versions /\ Job.engines \subseteq Engines
  BY AtBuild
<1>2. head \in [Engines -> Versions \cup {None}] /\ HeadsAreReady
  BY DEF Inv, TypeOK, Reading
<1>3. head' \in [Engines -> Versions \cup {None}]
  BY <1>1, <1>2 DEF PointHeads
<1>4. \A e \in Engines : \/ head'[e] = head[e]
                          \/ (head'[e] = Target /\ index[<<e, Target>>] = "ready")
  BY DEF PointHeads, AllBuilt
<1>. QED  BY <1>2, <1>3, <1>4 DEF HeadsAreReady

LEMMA ActivateStep ==
    ASSUME Inv, Activate
    PROVE  Inv'
<1>0. /\ handler.at \in Importing
      /\ UNCHANGED <<document, active, version, index, digest, files, artifact, leftover,
                     vectors, graph, lexical, jobs, retries, faults>>
  BY DEF Activate, At, Importing, disk, stores, bounds
<1>1. \E stage \in {"condemning", "finishing"} : Goto(stage)
  BY DEF Activate
<1>2. handler' \in Place /\ Table' /\ Attempt' /\ CleanupLeavesNothing'
  BY <1>0, <1>1, GivenUp
<1>3. HeadsAreReady' /\ head' \in [Engines -> Versions \cup {None}]
  <2>1. CASE head' = head
    BY <1>0, <2>1 DEF Inv, Reading, HeadsAreReady, TypeOK
  <2>2. CASE AllBuilt /\ PointHeads
    BY <1>0, <2>2, HeadsMove
  <2>. QED  BY <2>1, <2>2 DEF Activate
<1>4. TypeOK'
  BY <1>0, <1>2, <1>3 DEF Inv, TypeOK, Place
<1>5. Reading'
  BY <1>0, <1>3 DEF Inv, Reading, ActiveIsReady
<1>6. Storing'
  BY <1>0, <1>2 DEF Inv, Storing, StoresAreIndexed, ReadyIndexIsWhole, Verified
<1>. QED  BY <1>2, <1>4, <1>5, <1>6 DEF Inv

LEMMA PublishStep ==
    ASSUME Inv, Publish
    PROVE  Inv'
<1>0. /\ handler.at \in Importing /\ handler \in Place /\ Target \in Versions
      /\ UNCHANGED <<index, digest, files, artifact, leftover,
                     vectors, graph, lexical, jobs, retries, faults>>
  BY AtBuild DEF Publish, At, Importing, disk, stores, bounds
<1>1. CASE Goto("condemning") /\ UNCHANGED <<document, active, version, head>>
  <2>1. handler' \in Place /\ Table' /\ Attempt' /\ (CleanedUp' <=> CleanedUp)
    BY <1>0, <1>1, GivenUp
  <2>. QED  BY <1>0, <1>1, <2>1, NothingWritten DEF Inv
<1>2. CASE /\ Owned /\ AllBuilt /\ PointHeads /\ Goto("finishing")
           /\ version' = [version EXCEPT ![Target] = "ready"]
           /\ document' = "live" /\ active' = Target
  <2>1. /\ handler' \in Place /\ handler'.at = "finishing" /\ handler'.job = handler.job
        /\ handler'.noted = handler.noted
    BY <1>0, <1>2, GotoEffect DEF Stages
  <2>2. BuildProgress'
    BY <2>1 DEF BuildProgress, Building
  <2>3. Table' /\ Attempt' /\ CleanupLeavesNothing'
    BY <1>0, <1>2, <2>1, <2>2, BuildMoves DEF Owned, Importing, Building
  <2>4. HeadsAreReady' /\ head' \in [Engines -> Versions \cup {None}]
    BY <1>0, <1>2, HeadsMove
  <2>5. TypeOK'
    BY <1>0, <1>2, <2>1, <2>4 DEF Inv, TypeOK, Place
  <2>6. Reading'
    BY <1>0, <1>2, <2>4 DEF Inv, TypeOK, Reading, ActiveIsReady
  <2>7. Storing'
    BY <1>0, <2>3 DEF Inv, Storing, StoresAreIndexed, ReadyIndexIsWhole, Verified
  <2>. QED  BY <2>3, <2>5, <2>6, <2>7 DEF Inv
<1>. QED  BY <1>1, <1>2 DEF Publish

-----------------------------------------------------------------------------
(* A cleanup, step by step.                                                *)

\* What a cleanup's stage gives its step.
LEMMA AtCleanup ==
    ASSUME Inv, handler.at \in Cleaning
    PROVE  /\ handler \in Place /\ document = "deleted" /\ active = None /\ ~CleanedUp
           /\ ~handler.noted => \A v \in Versions : index[<<Hybrid, v>>] = "absent"
           /\ \A v \in Versions : <<Hybrid, v>> \in AllIndexes
<1>1. Deleting(Cleaning)
  BY DEF Deleting
<1>2. \A v \in Versions : <<Hybrid, v>> \in AllIndexes
  BY EnginesAssumption DEF AllIndexes
<1>. QED  BY <1>1, <1>2, CleanupUnderTombstone DEF Inv, Attempt, Reading, HandlerHasJob, NotedHolds

\* Past the invalidation no index is ready and no head is set: what is dropped
\* then is read by nobody.
LEMMA NobodyReads ==
    ASSUME Inv, handler.at \in Invalidated, UNCHANGED <<document, active, version, index, head>>
    PROVE  Reading' /\ ReadyIndexIsWhole'
<1>1. /\ \A e \in Engines : head[e] = None
      /\ \A i \in AllIndexes : index[i] \in {"absent", "invalidated"}
  BY DEF Inv, Attempt, CleanupProgress, Deleting
<1>. QED  BY <1>1 DEF Inv, Reading, ActiveIsReady, HeadsAreReady, ReadyIndexIsWhole

LEMMA InvalidateStep ==
    ASSUME Inv, Invalidate
    PROVE  Inv'
<1>0. /\ handler.at \in Cleaning /\ handler.at = "invalidating"
      /\ UNCHANGED <<document, active, version, digest, files, artifact, leftover,
                     vectors, graph, lexical, jobs, retries, faults>>
  BY DEF Invalidate, At, Cleaning, disk, stores, bounds
<1>1. /\ handler \in Place /\ active = None
      /\ \A v \in Versions : <<Hybrid, v>> \in AllIndexes
  BY <1>0, AtCleanup
<1>2. CASE Goto("raised") /\ UNCHANGED <<index, head>>
  <2>1. /\ handler' \in Place /\ handler'.at = "raised" /\ handler'.job = handler.job
        /\ handler'.noted = handler.noted
    BY <1>1, <1>2, GotoEffect DEF Stages
  <2>2. CleanupProgress'
    BY <2>1 DEF CleanupProgress, Deleting, At, Invalidated
  <2>3. Table' /\ Attempt' /\ CleanupLeavesNothing'
    BY <1>0, <1>2, <2>1, <2>2, CleanupMoves
  <2>4. CleanedUp' <=> CleanedUp
    BY <1>0, <2>1, JobKept
  <2>. QED  BY <1>0, <1>2, <2>1, <2>3, <2>4, NothingWritten DEF Inv
<1>3. CASE /\ index' = [i \in AllIndexes |-> IF index[i] = "absent" THEN "absent" ELSE "invalidated"]
           /\ head' = [e \in Engines |-> None] /\ Goto("dropVectors")
  <2>1. /\ handler' \in Place /\ handler'.at = "dropVectors" /\ handler'.job = handler.job
        /\ handler'.noted = handler.noted
    BY <1>1, <1>3, GotoEffect DEF Stages, Cleaning, Invalidated
  <2>2. /\ \A i \in AllIndexes : index'[i] \in {"absent", "invalidated"}
        /\ \A i \in AllIndexes : index'[i] = "absent" <=> index[i] = "absent"
        /\ \A e \in Engines : head'[e] = None
    BY <1>3
  <2>3. CleanupProgress'
    BY <2>1, <2>2 DEF CleanupProgress, Deleting, At, Invalidated
  <2>4. Table' /\ Attempt' /\ CleanupLeavesNothing'
    BY <1>0, <1>1, <2>1, <2>2, <2>3, CleanupMoves DEF Cleaning, Invalidated
  <2>5. /\ index' \in [AllIndexes -> {"absent", "staged", "building", "ready", "failed", "invalidated"}]
        /\ head' \in [Engines -> Versions \cup {None}]
    BY <1>3
  <2>6. TypeOK'
    BY <1>0, <2>1, <2>5 DEF Inv, TypeOK, Place
  <2>7. Reading' /\ ReadyIndexIsWhole'
    BY <1>0, <1>1, <2>2 DEF Reading, ActiveIsReady, HeadsAreReady, ReadyIndexIsWhole
  <2>8. StoresAreIndexed'
    BY <1>0, <1>1, <2>2 DEF Inv, Storing, StoresAreIndexed
  <2>. QED  BY <2>4, <2>6, <2>7, <2>8 DEF Inv, Storing
<1>. QED  BY <1>2, <1>3 DEF Invalidate

\* A step that drops: its stage, and the store it empties.
LEMMA Drops ==
    ASSUME Inv, handler.at \in Invalidated, NEW stage \in Invalidated \cup {"raised", "finishing"},
           Goto(stage), UNCHANGED <<manifest, jobs>>,
           TypeOK', StoresAreIndexed', CleanupProgress'
    PROVE  Inv'
<1>0. handler.at \in Cleaning /\ UNCHANGED <<document, active, version, index, digest, head>>
  BY DEF Cleaning, manifest
<1>1. stage \in Stages /\ stage \in Cleaning \cup {"raised", "finishing"}
  BY DEF Stages, Cleaning
<1>2. /\ handler' \in Place /\ handler'.at = stage /\ handler'.job = handler.job
      /\ handler'.noted = handler.noted
  BY <1>0, <1>1, AtCleanup, GotoEffect
<1>3. Table' /\ Attempt' /\ CleanupLeavesNothing'
  BY <1>0, <1>1, <1>2, CleanupMoves
<1>4. Reading' /\ ReadyIndexIsWhole'
  BY <1>0, NobodyReads
<1>. QED  BY <1>3, <1>4 DEF Inv, Storing

\* How far a cleanup is, seen from its own stage.
LEMMA DroppedSoFar ==
    ASSUME Inv, handler.at \in Invalidated, NEW stage \in Invalidated \cup {"raised", "finishing"},
           Goto(stage), UNCHANGED <<manifest, jobs>>
    PROVE  /\ handler'.at = stage /\ handler'.engine = handler.engine /\ handler'.todo = handler.todo
           /\ (CleanupProgress' <=>
                 /\ stage \in (Invalidated \ {"dropVectors"}) \cup {"finishing"} =>
                       \A v \in Versions : vectors'[v] = "none"
                 /\ stage \in {"dropArtifacts", "dropGraph", "dropFiles", "finishing"} => lexical' = {}
                 /\ stage \in {"dropGraph", "dropFiles", "finishing"} =>
                       \A i \in AllIndexes : artifact'[i] = None
                 /\ stage \in {"dropFiles", "finishing"} => graph' = {})
<1>0. handler.at \in Cleaning /\ UNCHANGED <<index, head>>
  BY DEF Cleaning, manifest
<1>1. stage \in Stages
  BY DEF Stages, Cleaning
<1>2. /\ handler' \in Place /\ handler'.at = stage /\ handler'.job = handler.job
      /\ handler'.engine = handler.engine /\ handler'.todo = handler.todo
  BY <1>0, <1>1, AtCleanup, GotoEffect
<1>3. Job' = Job /\ Job.op = "delete_document"
  BY <1>0, <1>2, JobKept DEF Inv, Attempt, HandlerHasJob
<1>4. /\ \A e \in Engines : head[e] = None
      /\ \A i \in AllIndexes : index[i] \in {"absent", "invalidated"}
  BY DEF Inv, Attempt, CleanupProgress, Deleting
<1>5. ASSUME NEW stages \in SUBSET Cleaning
      PROVE  Deleting(stages)' <=> stage \in stages \cup {"finishing"}
  BY <1>2, <1>3 DEF Deleting, At
<1>6. /\ Deleting(Invalidated)' <=> stage \in Invalidated \cup {"finishing"}
      /\ Deleting({"dropLexical", "dropArtifacts", "dropGraph", "dropFiles"})' <=>
            stage \in (Invalidated \ {"dropVectors"}) \cup {"finishing"}
      /\ Deleting({"dropArtifacts", "dropGraph", "dropFiles"})' <=>
            stage \in {"dropArtifacts", "dropGraph", "dropFiles", "finishing"}
      /\ Deleting({"dropGraph", "dropFiles"})' <=> stage \in {"dropGraph", "dropFiles", "finishing"}
      /\ Deleting({"dropFiles"})' <=> stage \in {"dropFiles", "finishing"}
  BY <1>5 DEF Cleaning, Invalidated
<1>. QED  BY <1>0, <1>2, <1>4, <1>6 DEF CleanupProgress

LEMMA DropVectorsStep ==
    ASSUME Inv, DropVectors
    PROVE  Inv'
<1>0. /\ handler.at \in Invalidated /\ handler.at = "dropVectors" /\ Goto("dropLexical")
      /\ handler.at \in Cleaning /\ UNCHANGED <<manifest, disk, graph, lexical, jobs, bounds>>
  BY DEF DropVectors, At, Invalidated, Cleaning
<1>1. \A v \in Versions : vectors'[v] = "none"
  <2>1. CASE handler.noted
    BY <2>1 DEF DropVectors
  <2>2. CASE ~handler.noted
    BY <1>0, <2>2, AtCleanup DEF DropVectors, Inv, Storing, StoresAreIndexed
  <2>. QED  BY <2>1, <2>2
<1>2. "dropLexical" \in Invalidated
  BY DEF Invalidated
<1>3. CleanupProgress' /\ handler'.engine = handler.engine /\ handler'.todo = handler.todo
  BY <1>0, <1>1, <1>2, DroppedSoFar
<1>4. vectors' \in [Versions -> {"none", "some", "all"}]
  BY DEF DropVectors, Inv, TypeOK
<1>5. TypeOK'
  BY <1>0, <1>3, <1>4 DEF Inv, TypeOK, manifest, disk, bounds
<1>6. StoresAreIndexed'
  BY <1>0, <1>1 DEF Inv, Storing, StoresAreIndexed, manifest, disk
<1>. QED  BY <1>0, <1>2, <1>3, <1>5, <1>6, Drops

LEMMA DropLexicalStep ==
    ASSUME Inv, DropLexical
    PROVE  Inv'
<1>0. /\ handler.at \in Invalidated /\ handler.at = "dropLexical"
      /\ UNCHANGED <<manifest, disk, vectors, graph, jobs, bounds>>
  BY DEF DropLexical, At, Invalidated
<1>1. PICK stage \in {"dropArtifacts", "raised"} :
         Goto(stage) /\ (stage = "dropArtifacts" => lexical' = {})
  BY DEF DropLexical
<1>2. stage \in Invalidated \cup {"raised", "finishing"}
  BY DEF Invalidated
<1>3. \A v \in Versions : vectors'[v] = "none"
  BY <1>0 DEF Inv, Attempt, CleanupProgress, Deleting
<1>4. CleanupProgress' /\ handler'.engine = handler.engine /\ handler'.todo = handler.todo
  BY <1>0, <1>1, <1>2, <1>3, DroppedSoFar
<1>5. lexical' \subseteq Versions
  BY DEF DropLexical, Inv, TypeOK
<1>6. TypeOK'
  BY <1>0, <1>4, <1>5 DEF Inv, TypeOK, manifest, disk, bounds
<1>7. StoresAreIndexed'
  BY <1>0 DEF Inv, Storing, StoresAreIndexed, manifest, disk
<1>. QED  BY <1>0, <1>1, <1>2, <1>4, <1>6, <1>7, Drops

LEMMA DropArtifactsStep ==
    ASSUME Inv, DropArtifacts
    PROVE  Inv'
<1>0. /\ handler.at \in Invalidated /\ handler.at = "dropArtifacts"
      /\ UNCHANGED <<manifest, files, leftover, stores, jobs, bounds>>
  BY DEF DropArtifacts, At, Invalidated
<1>1. PICK stage \in {"dropGraph", "raised"} : Goto(stage) /\ (stage = "dropGraph" => handler.held)
  BY DEF DropArtifacts
<1>2. stage \in Invalidated \cup {"raised", "finishing"}
  BY DEF Invalidated
<1>3. (\A v \in Versions : vectors'[v] = "none") /\ lexical' = {}
  BY <1>0 DEF Inv, Attempt, CleanupProgress, Deleting, stores
<1>4. stage = "dropGraph" => \A i \in AllIndexes : artifact'[i] = None
  BY <1>1 DEF DropArtifacts, Inv, Storing, StoresAreIndexed
<1>5. CleanupProgress' /\ handler'.engine = handler.engine /\ handler'.todo = handler.todo
  BY <1>0, <1>1, <1>2, <1>3, <1>4, DroppedSoFar
<1>6. artifact' \in [AllIndexes -> {None, Broken, 1, 2}]
  BY DEF DropArtifacts, Inv, TypeOK
<1>7. TypeOK'
  BY <1>0, <1>5, <1>6 DEF Inv, TypeOK, manifest, stores, bounds
<1>8. \A i \in AllIndexes : artifact'[i] = artifact[i] \/ artifact'[i] = None
  BY DEF DropArtifacts
<1>9. StoresAreIndexed'
  BY <1>0, <1>8 DEF Inv, Storing, StoresAreIndexed, manifest, stores
<1>. QED  BY <1>0, <1>1, <1>2, <1>5, <1>7, <1>9, Drops

LEMMA DropGraphStep ==
    ASSUME Inv, DropGraph
    PROVE  Inv'
<1>0. /\ handler.at \in Invalidated /\ handler.at = "dropGraph" /\ handler.at \in Cleaning
      /\ UNCHANGED <<manifest, disk, vectors, lexical, jobs, bounds>>
  BY DEF DropGraph, At, Invalidated, Cleaning
<1>1. PICK stage \in {"dropFiles", "raised"} : Goto(stage) /\ (stage = "dropFiles" => handler.held)
  BY DEF DropGraph
<1>2. stage \in Invalidated \cup {"raised", "finishing"}
  BY DEF Invalidated
<1>3. /\ \A v \in Versions : vectors'[v] = "none"
      /\ lexical' = {}
      /\ \A i \in AllIndexes : artifact'[i] = None
  BY <1>0 DEF Inv, Attempt, CleanupProgress, Deleting, disk
<1>4. stage = "dropFiles" => graph' = {}
  <2>1. CASE handler.noted
    BY <1>1, <2>1 DEF DropGraph
  <2>2. CASE ~handler.noted
    <3>1. \A v \in Versions : v \notin graph
      BY <1>0, <2>2, AtCleanup DEF Inv, Storing, StoresAreIndexed
    <3>2. graph \subseteq Versions
      BY DEF Inv, TypeOK
    <3>. QED  BY <2>2, <3>1, <3>2 DEF DropGraph
  <2>. QED  BY <2>1, <2>2
<1>5. CleanupProgress' /\ handler'.engine = handler.engine /\ handler'.todo = handler.todo
  BY <1>0, <1>1, <1>2, <1>3, <1>4, DroppedSoFar
<1>6. graph' = graph \/ graph' = {}
  BY DEF DropGraph
<1>7. TypeOK'
  BY <1>0, <1>5, <1>6 DEF Inv, TypeOK, manifest, disk, bounds
<1>8. StoresAreIndexed'
  BY <1>0, <1>6 DEF Inv, Storing, StoresAreIndexed, manifest, disk
<1>. QED  BY <1>0, <1>1, <1>2, <1>5, <1>7, <1>8, Drops

LEMMA DropFilesStep ==
    ASSUME Inv, DropFiles
    PROVE  Inv'
<1>0. /\ handler.at \in Invalidated /\ handler.at = "dropFiles"
      /\ UNCHANGED <<manifest, artifact, leftover, stores, jobs, bounds>>
  BY DEF DropFiles, At, Invalidated
<1>1. PICK stage \in {"finishing", "raised"} : Goto(stage)
  BY DEF DropFiles
<1>2. stage \in Invalidated \cup {"raised", "finishing"}
  OBVIOUS
<1>3. /\ \A v \in Versions : vectors'[v] = "none"
      /\ lexical' = {} /\ graph' = {}
      /\ \A i \in AllIndexes : artifact'[i] = None
  BY <1>0 DEF Inv, Attempt, CleanupProgress, Deleting, stores
<1>4. CleanupProgress' /\ handler'.engine = handler.engine /\ handler'.todo = handler.todo
  BY <1>0, <1>1, <1>2, <1>3, DroppedSoFar
<1>5. files' \subseteq Versions
  BY DEF DropFiles, Inv, TypeOK
<1>6. TypeOK'
  BY <1>0, <1>4, <1>5 DEF Inv, TypeOK, manifest, stores, bounds
<1>7. StoresAreIndexed'
  BY <1>0 DEF Inv, Storing, StoresAreIndexed, manifest, stores
<1>. QED  BY <1>0, <1>1, <1>2, <1>4, <1>6, <1>7, Drops

-----------------------------------------------------------------------------
(* The end of an attempt, and its failures.                                *)

\* Between two attempts nothing is known of a build or of a cleanup.
LEMMA IdleAgain ==
    ASSUME handler' = Idle
    PROVE  Attempt' /\ handler' \in Place
<1>1. Idle \in Place /\ Idle.at = "idle" /\ Idle.engine = None
  BY EnginesAssumption DEF Idle, Place, Stages
<1>. HIDE DEF Idle
<1>2. handler' \in Place /\ handler'.at = "idle"
  BY <1>1
<1>. QED  BY <1>2 DEF Attempt, HandlerHasJob, NoBuildAfterCleanup, NotedHolds, BuildProgress,
     CleanupProgress, Deleting, At, Importing, Building, Cleaning, Invalidated

LEMMA SettleStep ==
    ASSUME Inv, Settle
    PROVE  Inv'
<1>0. /\ handler' = Idle
      /\ UNCHANGED <<document, active, version, index, digest, head, files, artifact, leftover,
                     vectors, graph, lexical, retries, faults>>
  BY DEF Settle, manifest, disk, stores, bounds
<1>1. Attempt' /\ handler' \in Place
  BY <1>0, IdleAgain
<1>. DEFINE settled == IF At("finishing") THEN "succeeded" ELSE "failed"
<1>2. /\ handler.job \in DOMAIN jobs /\ Job.status = "running" /\ Table
      /\ handler.job \in Deletions <=> Job.op = "delete_document"
  BY DEF Settle, At, Inv, Attempt, HandlerHasJob, Deletions, Job
<1>3. CASE UNCHANGED jobs
  <2>1. Table' /\ (CleanedUp' <=> CleanedUp)
    BY <1>0, <1>2, <1>3 DEF Table, JobsAreTyped, BuildJobsHaveTargets, OneDeletionOutstanding,
       Deletions, CleanedUp
  <2>. QED  BY <1>0, <1>1, <2>1, NothingWritten DEF Inv
<1>4. CASE jobs' = [jobs EXCEPT ![handler.job].status = settled]
           /\ ~(At("finishing") /\ Job.op = "delete_document")
  <2>1. handler.job \in Deletions =>
           (settled = "succeeded" <=> jobs[handler.job].status = "succeeded")
    BY <1>2, <1>4 DEF Job
  <2>2. Reshuffled
    BY <1>2, <1>4, <2>1, OneRow
  <2>3. Table' /\ (CleanedUp' <=> CleanedUp)
    BY <1>0, <1>2, <2>2, ReshuffledTable
  <2>. QED  BY <1>0, <1>1, <2>3, NothingWritten DEF Inv
<1>5. CASE jobs' = [jobs EXCEPT ![handler.job].status = "succeeded"]
           /\ At("finishing") /\ Job.op = "delete_document"
  <2>. DEFINE row == [Job EXCEPT !.status = "succeeded"]
  <2>1. jobs \in Seq(Row) /\ Job \in Row
    BY <1>2 DEF Table, JobsAreTyped, Job
  <2>2. /\ row \in Row /\ row.op = Job.op /\ row.status = "succeeded"
    BY <2>1, StatusUpdate
  <2>3. jobs' = [jobs EXCEPT ![handler.job] = row]
    BY <1>5, <2>1 DEF Job
  <2>. HIDE DEF row
  <2>4. /\ jobs' \in Seq(Row) /\ DOMAIN jobs' = DOMAIN jobs /\ jobs'[handler.job] = row
        /\ \A j \in DOMAIN jobs : j # handler.job => jobs'[j] = jobs[j]
    BY <1>2, <2>1, <2>2, <2>3
  <2>5. Deletions' = Deletions
    BY <1>2, <1>5, <2>2, <2>4 DEF Deletions, Job
  <2>6. Deleting(Cleaning) /\ Deleting(Invalidated)
        /\ Deleting({"dropLexical", "dropArtifacts", "dropGraph", "dropFiles"})
        /\ Deleting({"dropArtifacts", "dropGraph", "dropFiles"})
        /\ Deleting({"dropGraph", "dropFiles"}) /\ Deleting({"dropFiles"})
    BY <1>5 DEF Deleting
  <2>7. \A j \in Deletions' : jobs'[j].status = "succeeded"
    <3>. SUFFICES ASSUME NEW j \in Deletions, j # handler.job, jobs[j].status # "succeeded"
                  PROVE  FALSE
      BY <2>2, <2>4, <2>5 DEF Deletions
    <3>1. handler.job <= j /\ j <= handler.job
      BY <1>2, <1>5 DEF Table, OneDeletionOutstanding, Job
    <3>2. handler.job \in Nat /\ j \in Nat
      BY <1>2, <2>1 DEF Deletions
    <3>. QED  BY <3>1, <3>2
  <2>8. Table'
    <3>1. BuildJobsHaveTargets'
      BY <1>2, <1>5, <2>2, <2>4 DEF Table, BuildJobsHaveTargets, Job
    <3>. QED  BY <2>4, <2>7, <3>1 DEF Table, JobsAreTyped, OneDeletionOutstanding
  <2>9. CleanupLeavesNothing'
    BY <1>0, <2>6 DEF Inv, Attempt, CleanupProgress, CleanupLeavesNothing
  <2>10. TypeOK'
    BY <1>0, <1>1 DEF Inv, TypeOK, Place
  <2>11. Reading' /\ StoresAreIndexed' /\ ReadyIndexIsWhole'
    BY <1>0 DEF Inv, Reading, ActiveIsReady, HeadsAreReady, Storing, StoresAreIndexed,
       ReadyIndexIsWhole, Verified
  <2>. QED  BY <1>1, <2>8, <2>9, <2>10, <2>11 DEF Inv, Storing
<1>. QED  BY <1>3, <1>4, <1>5 DEF Settle

\* What an interrupted call leaves is read by nobody.
LEMMA InterruptedEffect ==
    ASSUME Inv, Interrupted, leftover' \subseteq leftover, handler' \in Place,
           UNCHANGED <<manifest, files, graph, lexical, jobs, retries>>
    PROVE  TypeOK' /\ Table' /\ Reading' /\ Storing'
<1>0. /\ UNCHANGED <<document, active, version, index, digest, head, files, graph, lexical, jobs, retries>>
      /\ faults' \in 0 .. MaxFaults
  BY EnginesAssumption DEF manifest, Interrupted, Inv, TypeOK
<1>1. \/ vectors' = vectors
      \/ /\ At("vectors") /\ vectors[Target] # "all"
         /\ vectors' = [vectors EXCEPT ![Target] = "some"]
      \/ /\ At("dropVectors")
         /\ vectors' = [v \in Versions |-> IF vectors[v] = "none" THEN "none" ELSE "some"]
  BY DEF Interrupted
<1>2. \/ artifact' = artifact
      \/ /\ At("dropArtifacts")
         /\ \E i \in AllIndexes : artifact[i] # None /\ artifact' = [artifact EXCEPT ![i] = Broken]
  BY DEF Interrupted
<1>3. vectors \in [Versions -> {"none", "some", "all"}] /\ artifact \in [AllIndexes -> {None, Broken, 1, 2}]
  BY DEF Inv, TypeOK
<1>4. /\ artifact' \in [AllIndexes -> {None, Broken, 1, 2}]
      /\ \A i \in AllIndexes : artifact[i] = None => artifact'[i] = None
  BY <1>2, <1>3
<1>5. /\ \A v \in Versions : <<Hybrid, v>> \in AllIndexes
      /\ \A i \in AllIndexes : i[2] \in Versions
  BY EnginesAssumption DEF AllIndexes
<1>6. At("vectors") => /\ handler.at \in Importing /\ Target \in Versions
                       /\ index[<<Hybrid, Target>>] = "building"
  BY AtBuild DEF Inv, Attempt, BuildProgress, At, Importing, Building, Current
<1>7. At("dropVectors") \/ At("dropArtifacts") => handler.at \in Invalidated /\ handler.at \in Cleaning
  BY DEF At, Cleaning, Invalidated
<1>8. vectors' \in [Versions -> {"none", "some", "all"}]
  BY <1>1, <1>3
<1>9. Deletions' = Deletions /\ (CleanedUp' <=> CleanedUp)
  BY <1>0 DEF Deletions, CleanedUp
<1>10. TypeOK'
  BY <1>0, <1>4, <1>8 DEF Inv, TypeOK, Place
<1>11. Table' /\ Reading'
  BY <1>0, <1>9 DEF Inv, Table, JobsAreTyped, BuildJobsHaveTargets, OneDeletionOutstanding,
     Reading, ActiveIsReady, HeadsAreReady
<1>12. StoresAreIndexed'
  <2>1. \A v \in Versions : index[<<Hybrid, v>>] = "absent" /\ vectors[v] = "none" => vectors'[v] = "none"
    BY <1>1, <1>3, <1>6
  <2>. QED  BY <1>0, <1>4, <2>1 DEF Inv, Storing, StoresAreIndexed
<1>13. ReadyIndexIsWhole'
  <2>1. CASE At("dropVectors") \/ At("dropArtifacts")
    BY <1>0, <1>7, <2>1, NobodyReads
  <2>2. CASE ~(At("dropVectors") \/ At("dropArtifacts"))
    <3>1. artifact' = artifact /\ \A v \in Versions : vectors[v] = "all" => vectors'[v] = "all"
      BY <1>1, <1>2, <1>3, <1>6, <2>2
    <3>. QED  BY <1>0, <1>5, <3>1 DEF Inv, Storing, ReadyIndexIsWhole, Verified
  <2>. QED  BY <2>1, <2>2
<1>14. CleanupLeavesNothing'
  <2>1. CASE document = "deleted" /\ CleanedUp
    <3>1. handler.at \notin Importing /\ handler.at \notin Cleaning
      BY <2>1, AtCleanup DEF Inv, Attempt, NoBuildAfterCleanup
    <3>2. vectors' = vectors /\ artifact' = artifact
      BY <1>1, <1>2, <1>6, <1>7, <3>1
    <3>. QED  BY <1>0, <1>9, <3>2 DEF Inv, Storing, CleanupLeavesNothing
  <2>2. CASE ~(document = "deleted" /\ CleanedUp)
    BY <1>0, <1>9, <2>2 DEF CleanupLeavesNothing
  <2>. QED  BY <2>1, <2>2
<1>. QED  BY <1>10, <1>11, <1>12, <1>13, <1>14 DEF Storing

LEMMA FaultStep ==
    ASSUME Inv, Fault
    PROVE  Inv'
<1>. DEFINE stage == IF handler.at \in BuildStages THEN "failing"
                     ELSE IF handler.at \in TriedStages THEN "condemning" ELSE "raised"
<1>1. /\ handler \in Place /\ stage \in Stages /\ Goto(stage)
      /\ handler.at # "idle" /\ handler.at # "raised"
      /\ leftover' \subseteq leftover /\ Interrupted
      /\ UNCHANGED <<manifest, files, graph, lexical, jobs, retries>>
  BY DEF Fault, Inv, Attempt, HandlerHasJob, Stages, Importing
<1>2. /\ handler' \in Place /\ handler'.at = stage /\ handler'.job = handler.job
      /\ handler'.engine = handler.engine /\ handler'.noted = handler.noted
  BY <1>1, GotoEffect
<1>3. TypeOK' /\ Table' /\ Reading' /\ Storing'
  BY <1>1, <1>2, InterruptedEffect
<1>4. Job' = Job /\ Target' = Target /\ Current' = Current
  BY <1>1, <1>2, JobKept DEF Current
<1>5. UNCHANGED <<document, active, index, jobs>>
  BY <1>1 DEF manifest
<1>6. CASE stage # "raised"
  <2>1. /\ handler.at \in Importing /\ stage \in {"failing", "condemning"}
        /\ stage = "failing" <=> handler.at \in Building
    BY <1>6 DEF BuildStages, TriedStages, Importing, Building
  <2>2. BuildProgress'
    BY <1>2, <1>4, <1>5, <2>1 DEF Inv, Attempt, BuildProgress, Building
  <2>3. Attempt'
    BY <1>2, <1>5, <2>1, <2>2, BuildMoves DEF Importing
  <2>. QED  BY <1>3, <2>3 DEF Inv
<1>7. CASE stage = "raised"
  <2>1. Attempt'
    BY <1>1, <1>2, <1>4, <1>5, <1>7 DEF Inv, Attempt, HandlerHasJob, NoBuildAfterCleanup, NotedHolds,
       BuildProgress, CleanupProgress, Deleting, At, Importing, Building, Cleaning, Invalidated
  <2>. QED  BY <1>3, <2>1 DEF Inv
<1>. QED  BY <1>6, <1>7

LEMMA LoseLeaseStep ==
    ASSUME Inv, LoseLease
    PROVE  Inv'
<1>1. /\ UNCHANGED <<document, active, version, index, digest, head, files, artifact, leftover,
                     vectors, graph, lexical, jobs, retries>>
      /\ faults' \in 0 .. MaxFaults
  BY EnginesAssumption DEF LoseLease, manifest, disk, stores, Inv, TypeOK
<1>2. /\ handler' \in Place /\ handler'.at = handler.at /\ handler'.job = handler.job
      /\ handler'.engine = handler.engine /\ handler'.todo = handler.todo
      /\ handler'.noted = handler.noted /\ handler'.bytes = handler.bytes
  BY DEF LoseLease, Inv, Attempt, HandlerHasJob, Place
<1>3. Job' = Job /\ Target' = Target /\ Current' = Current
      /\ Deletions' = Deletions /\ (CleanedUp' <=> CleanedUp)
  BY <1>1, <1>2, JobKept DEF Current
<1>4. TypeOK'
  BY <1>1, <1>2 DEF Inv, TypeOK
<1>5. Table'
  BY <1>1, <1>3 DEF Inv, Table, JobsAreTyped, BuildJobsHaveTargets, OneDeletionOutstanding
<1>6. \A stages : Deleting(stages)' <=> Deleting(stages)
  BY <1>2, <1>3 DEF Deleting, At
<1>7. Attempt'
  <2>1. HandlerHasJob' /\ NoBuildAfterCleanup'
    BY <1>1, <1>2, <1>3 DEF Inv, Attempt, HandlerHasJob, NoBuildAfterCleanup, At
  <2>2. NotedHolds' /\ CleanupProgress'
    BY <1>1, <1>2, <1>3, <1>6 DEF Inv, Attempt, NotedHolds, CleanupProgress
  <2>3. BuildProgress'
    BY <1>1, <1>2, <1>3 DEF Inv, Attempt, BuildProgress
  <2>. QED  BY <2>1, <2>2, <2>3 DEF Attempt
<1>8. Reading' /\ Storing'
  BY <1>1, <1>3 DEF Inv, Reading, ActiveIsReady, HeadsAreReady, Storing, StoresAreIndexed,
     ReadyIndexIsWhole, Verified, CleanupLeavesNothing
<1>. QED  BY <1>4, <1>5, <1>7, <1>8 DEF Inv

LEMMA CrashStep ==
    ASSUME Inv, Crash
    PROVE  Inv'
<1>1. /\ handler' = Idle /\ Interrupted /\ leftover' \subseteq leftover
      /\ UNCHANGED <<manifest, files, graph, lexical, jobs, retries>>
  BY DEF Crash
<1>2. Attempt' /\ handler' \in Place
  BY <1>1, IdleAgain
<1>. QED  BY <1>1, <1>2, InterruptedEffect DEF Inv

-----------------------------------------------------------------------------
(* The theorems.                                                           *)

LEMMA InvStutter ==
    ASSUME Inv, UNCHANGED vars
    PROVE  Inv'
<1>1. UNCHANGED <<document, active, version, index, digest, head, files, artifact, leftover,
                  vectors, graph, lexical, handler, jobs, retries, faults>>
  BY DEF vars, manifest, disk, stores, bounds
<1>2. TypeOK' /\ Reading'
  BY <1>1 DEF Inv, TypeOK, Reading, ActiveIsReady, HeadsAreReady
<1>3. Job' = Job /\ Target' = Target /\ Deletions' = Deletions /\ (CleanedUp' <=> CleanedUp)
      /\ Current' = Current
  BY <1>1, JobKept DEF Current
<1>4. Table'
  BY <1>1, <1>3 DEF Inv, Table, JobsAreTyped, BuildJobsHaveTargets, OneDeletionOutstanding
<1>5. \A stages : Deleting(stages)' <=> Deleting(stages)
  BY <1>1, <1>3 DEF Deleting, At
<1>6. Attempt'
  BY <1>1, <1>3, <1>5 DEF Inv, Attempt, HandlerHasJob, NoBuildAfterCleanup, At, NotedHolds,
     BuildProgress, CleanupProgress
<1>7. Storing'
  BY <1>1, <1>3 DEF Inv, Storing, StoresAreIndexed, ReadyIndexIsWhole, Verified, CleanupLeavesNothing
<1>. QED  BY <1>2, <1>4, <1>6, <1>7 DEF Inv

LEMMA InvStep == Inv /\ [Next]_vars => Inv'
<1>. SUFFICES ASSUME Inv, [Next]_vars PROVE Inv'
  OBVIOUS
<1>1. ASSUME NEW v \in Versions, NEW es \in Selections, Import(v, es) PROVE Inv'
  BY <1>1, ImportStep
<1>2. ASSUME NEW v \in Versions, NEW e \in Engines, SubmitReindex(v, e) PROVE Inv'
  BY <1>2, SubmitReindexStep
<1>3. CASE Tombstone
  BY <1>3, TombstoneStep
<1>4. ASSUME NEW j \in DOMAIN jobs, Retry(j) PROVE Inv'
  BY <1>4, RetryStep
<1>5. ASSUME NEW j \in DOMAIN jobs, Claim(j) PROVE Inv'
  BY <1>5, ClaimStep
<1>6. CASE Recover \/ Begin \/ Mark \/ Select
  BY <1>6, RecoverStep, BeginStep, MarkStep, SelectStep
<1>7. CASE Open \/ Extract \/ BuildVectors \/ BuildGraph \/ ReplaceLexical
  BY <1>7, OpenStep, ExtractStep, BuildVectorsStep, BuildGraphStep, ReplaceLexicalStep
<1>8. CASE Pack \/ Seal \/ Complete \/ FailIndex \/ FailVersion \/ Activate \/ Publish
  BY <1>8, PackStep, SealStep, CompleteStep, FailIndexStep, FailVersionStep, ActivateStep, PublishStep
<1>9. CASE Invalidate \/ DropVectors \/ DropLexical \/ DropArtifacts \/ DropGraph \/ DropFiles
  BY <1>9, InvalidateStep, DropVectorsStep, DropLexicalStep, DropArtifactsStep, DropGraphStep,
     DropFilesStep
<1>10. CASE Settle \/ Fault \/ LoseLease \/ Crash
  BY <1>10, SettleStep, FaultStep, LoseLeaseStep, CrashStep
<1>11. CASE UNCHANGED vars
  BY <1>11, InvStutter
<1>. QED  BY <1>1, <1>2, <1>3, <1>4, <1>5, <1>6, <1>7, <1>8, <1>9, <1>10, <1>11 DEF Next, Submit, Work

\* The invariant holds in every state of every behaviour.
THEOREM Invariance == Spec => []Inv
BY InvInit, InvStep, PTL DEF Spec

\* Every table, store and directory of the source keeps its type, and so does
\* the handler of ingestion.py.
THEOREM TypeCorrect == Spec => []TypeOK
<1>1. Inv => TypeOK
  BY DEF Inv
<1>. QED  BY <1>1, Invariance, PTL

\* An engine that readers are given (IndexRepository.ready, current) has the
\* bytes its row names, and the hybrid engine every vector, the graph and the
\* lexical rows, whatever builds, failures, crashes and deletions came before.
THEOREM ServedIsComplete == Spec => []ServedIndexIsComplete
<1>1. ASSUME Inv PROVE ServedIndexIsComplete
  <2>. SUFFICES ASSUME NEW e \in Engines, Ready(e)
                PROVE  Verified(<<e, active>>) /\ (e = Hybrid => active \in graph \cap lexical)
    BY DEF ServedIndexIsComplete
  <2>1. <<e, active>> \in AllIndexes /\ index[<<e, active>>] = "ready"
    BY <1>1 DEF Ready, Inv, TypeOK, AllIndexes
  <2>. QED  BY <1>1, <2>1 DEF Inv, Storing, ReadyIndexIsWhole
<1>. QED  BY <1>1, Invariance, PTL

\* When the last deletion of a source has succeeded and nothing has restored
\* it, no store of _process_delete holds a passage and no derived directory
\* is left, though builds ran and failed around the cleanup.
THEOREM CleanupIsComplete == Spec => []CleanupLeavesNothing
<1>1. Inv => CleanupLeavesNothing
  BY DEF Inv, Storing
<1>. QED  BY <1>1, Invariance, PTL

\* What readers are given is the active version, by the engines whose head
\* names it.
LEMMA ServedByHeads ==
    ASSUME Inv, Inv'
    PROVE  /\ served = [e \in Engines |-> IF head[e] = active THEN active ELSE None]
           /\ served' = [e \in Engines |-> IF head'[e] = active' THEN active' ELSE None]
           /\ document = "deleted" => active = None
           /\ document' = "deleted" => active' = None
<1>1. ASSUME NEW e \in Engines
      PROVE  /\ Ready(e) <=> active # None /\ head[e] = active
             /\ Ready(e)' <=> active' # None /\ head'[e] = active'
  BY <1>1 DEF Inv, Reading, ActiveIsReady, HeadsAreReady, Ready, ActiveSource
<1>. QED  BY <1>1 DEF served, Inv, Reading, ActiveIsReady

\* publish_source_heads and IndexRepository.activate bring their engines in at
\* once, for one version.
LEMMA Publishes ==
    ASSUME Inv, Inv', handler.at \in Importing, PointHeads, document # "deleted",
           document' # "deleted", active' = Target
    PROVE  \E v \in Versions, brought \in (SUBSET Engines) \ {{}} : Promise!Publish(v, brought)
<1>. DEFINE brought == {e \in Engines : head'[e] = Target}
<1>1. Target \in Versions /\ Job.engines # {} /\ Job.engines \subseteq Engines
  BY AtBuild
<1>2. \A e \in Engines : head'[e] = IF e \in Job.engines THEN Target ELSE head[e]
  BY DEF PointHeads
<1>3. brought \in (SUBSET Engines) \ {{}}
  BY <1>1, <1>2
<1>4. \A e \in Engines : served[e] = Target => e \in brought
  BY <1>1, <1>2, ServedByHeads, EnginesAssumption
<1>5. served' = [e \in Engines |-> IF head'[e] = active' THEN active' ELSE None]
  BY ServedByHeads
<1>6. served' = [e \in Engines |-> IF e \in brought THEN Target ELSE None]
  BY <1>5
<1>7. Promise!Publish(Target, brought)
  BY <1>4, <1>6 DEF Promise!Publish
<1>. QED  BY <1>1, <1>3, <1>7

\* A step that changes what readers are given is a publication, a deletion or
\* a restoration: "a failed replacement preserves the previous source and
\* usable head" (ARCHITECTURE.md:97-101).
THEOREM ImplementsCatalogue == Spec => KeepsCatalogue
<1>1. Init => Promise!Init
  BY DEF Init, Promise!Init, Promise!Nothing, served, Ready
<1>2. ASSUME Inv, Inv', [Next]_vars
      PROVE  [Promise!Next]_<<served, document = "deleted">>
  <2>1. /\ served = [e \in Engines |-> IF head[e] = active THEN active ELSE None]
        /\ served' = [e \in Engines |-> IF head'[e] = active' THEN active' ELSE None]
        /\ document = "deleted" => active = None
        /\ document' = "deleted" => active' = None
    BY <1>2, ServedByHeads
  <2>2. CASE UNCHANGED <<document, active, head>>
    BY <2>1, <2>2
  <2>3. ASSUME NEW v \in Versions, NEW es \in Selections, Import(v, es)
        PROVE  [Promise!Next]_<<served, document = "deleted">>
    <3>1. document' = "live" /\ active' = active /\ head' = head
      BY <2>3 DEF Import
    <3>2. served' = served
      BY <2>1, <3>1
    <3>. QED  BY <3>1, <3>2 DEF Promise!Next, Promise!Restore
  <2>4. CASE Tombstone
    <3>1. document' = "deleted" /\ active' = None
      BY <2>4 DEF Tombstone
    <3>2. served' = [e \in Engines |-> None]
      BY <2>1, <3>1
    <3>. QED  BY <3>1, <3>2 DEF Promise!Next, Promise!Delete, Promise!Nothing
  <2>5. CASE Activate
    <3>1. CASE UNCHANGED <<document, active, head>>
      BY <2>2, <3>1
    <3>2. CASE Owned /\ ActiveSource(Target) /\ PointHeads
      <4>1. document # "deleted" /\ document' # "deleted" /\ active' = Target
        BY <2>5, <3>2 DEF Activate, Owned, ActiveSource
      <4>2. handler.at \in Importing
        BY <2>5 DEF Activate, At, Importing
      <4>. QED  BY <1>2, <3>2, <4>1, <4>2, Publishes DEF Promise!Next
    <3>. QED  BY <2>5, <3>1, <3>2 DEF Activate
  <2>6. CASE Publish
    <3>1. CASE UNCHANGED <<document, active, head>>
      BY <2>2, <3>1
    <3>2. CASE Owned /\ PointHeads /\ document' = "live" /\ active' = Target
      <4>1. handler.at \in Importing
        BY <2>6 DEF Publish, At, Importing
      <4>. QED  BY <1>2, <3>2, <4>1, Publishes DEF Promise!Next, Owned
    <3>. QED  BY <2>6, <3>1, <3>2 DEF Publish
  <2>7. CASE Invalidate
    <3>1. UNCHANGED <<document, active>>
      BY <2>7 DEF Invalidate
    <3>2. CASE head' = head
      BY <2>2, <3>1, <3>2
    <3>3. CASE document = "deleted"
      <4>1. served' = served
        BY <2>1, <3>1, <3>3
      <4>. QED  BY <3>1, <4>1
    <3>. QED  BY <2>7, <3>2, <3>3 DEF Invalidate
  <2>8. \/ UNCHANGED <<document, active, head>>
        \/ \E v \in Versions, es \in Selections : Import(v, es)
        \/ Tombstone \/ Activate \/ Publish \/ Invalidate
    BY <1>2 DEF Next, Submit, Work, vars, manifest, SubmitReindex, Retry, Claim, Recover, Begin, Mark,
       Select, Open, Extract, BuildVectors, BuildGraph, ReplaceLexical, Pack, Seal, Complete,
       FailIndex, FailVersion, DropVectors, DropLexical, DropArtifacts, DropGraph, DropFiles, Settle,
       Fault, LoseLease, Crash
  <2>. QED  BY <2>2, <2>3, <2>4, <2>5, <2>6, <2>7, <2>8
<1>. QED  BY <1>1, <1>2, Invariance, PTL DEF Spec, KeepsCatalogue, Promise!Spec

=============================================================================
