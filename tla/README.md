# A TLA+ verification of GraphMind

GraphMind (`src/src/graphmind`) keeps a corpus of private documents, indexes it
in a vector store (Chroma) and a graph (Neo4j), and answers questions about it
for authenticated readers, in a browser or over MCP.  Host commands change the
corpus through a durable job queue in SQLite; readers only read.

This directory holds TLA+ models of the parts of it where several actors meet,
the TLC configurations that check them, and TLAPS proofs of the properties that
matter most.  `PROJECT.json` maps every definition to the lines it models and
lists runs, mutants, hazards, findings and theorems.

Paths below are relative to `src/src/graphmind/` unless they begin with `src/`.

## 1. Inventory

### 1.1 The parts, their state, and how they meet

| Part | Keeps | Operations | Meets |
| --- | --- | --- | --- |
| Durable queue: `metadata.py` 566-960, `jobs.py`, `locking.py` | tables `jobs`, `writer_lock`; a lock file per host; a heartbeat thread per attempt | submit, tombstone and submit, retry, reconcile, acquire/release writer, claim, heartbeat, finish | host commands and workers, through SQLite transactions and the file lock |
| Publication: `ingestion.py`, `metadata.py` 150-560, `rag/components/indexes.py`, `files.py` | tables `documents`, `versions`, `chunks`, `engine_indexes`, `engine_index_heads`; private originals | `prepare_import`, `prepare_delete`, the import and delete handlers | the queue (which runs the handlers, fenced by leases), Chroma, Neo4j, the file system |
| Query admission and answers: `rag/components/pipeline.py`, `rag/graphmind/engine.py`, `sources.py` | a semaphore of permits, a count of waiters, a cancel event per query | search, ask: permit, retrieve, validate, assess, generate, cite, release | the stores, the provider, the manifest (read only) |
| Reader and product server: `reader.py`, `product_server.py` | a semaphore of slots; a task and a thread per request | authenticate, admit, work, authorise again, validate, deliver; abandon, disconnect | the pipeline, the identity service, the event loop |
| Account administration: `identity.py` 494-671 | an account in Keycloak (enabled, status, deletion mark, epoch), its sessions; a lock file | disable, enable, delete, restore | Keycloak, whose password listener (`src/deploy/keycloak`) changes the same account |
| Identity and browser sessions: `identity.py` 200-490, `product_server.py` | cookies, a discovery cache | sign in, callback, refresh, sign out, verify | Keycloak, the product server |
| Selected engines and hybrid profile: `rag/components/indexes.py`, `artifacts.py`, `rag/graphmind/hybrid.py`, `lexical.py` | one index per engine and version, heads, derived directories, a lexical table | multi-target jobs, activation, artifact publication and deletion | publication, the pipeline |
| Retrieval: `rag/graphmind/hybrid.py`, `reference_graph.py`, `rag/components/vector_store.py`, `ranking.py` | graph, vectors | fuse, rescore, follow references; upsert, delete, search | the stores, the manifest |
| Page engines: `rag/tree_navigation`, `rag/multimodal`, `rag/components/pdf_pages.py` | a tree per outline, page images and vectors | build, navigate, rank, show | the provider, the visual encoder |
| Parsing and chunking: `parsing.py`, `parser_worker.py`, `ingestion.py` 60-163 | a staged file and a subprocess with a time limit | stage, parse, sweep; cut into segments and windows | ingestion |
| Providers and local inference: `providers.py`, `rag/components/embeddings.py`, `local_inference.py` | a lock per host, a worker process, the embedding's identity | answer, embed, score | the pipeline, ingestion, the model runtime |
| Readiness: `product_server.py` 246-260, 786-802 | one shared task | probe, join, give up | all services |
| Schema migration: `metadata.py` 40-266 | the schema, its version, the installation's identity | migrate, record old indexes, identify | every process that starts |
| Native operation: `src/tools/windows_*`, `ubuntu_installation.py`, `bundle_installer.py` | services, state roots, seals, receipts | install; stop, snapshot, restore, update, roll back | operators, the service manager, all state |
| Configuration, assembly, host commands, evaluation, web front end, packaging, legacy prototype | files | start-up and offline work | - |

### 1.2 What is hard, and what makes each part correct

*The queue.*  Leases expire under a handler that is alive but slow; the heartbeat
is a second thread that may outlive its attempt; a process may die, or meet a
busy database, between any two transactions; `reconcile()` and `run_once()` take
the file lock separately.  Correct means: at most one attempt may publish and it
settles its own job only; a running handler never has its job taken away on one
host; no job is stranded; queued jobs are served, in order within a document.

*Publication.*  A source is in five tables, two stores and a directory, and no
transaction spans them.  Imports, deletions and retries of the same source
interleave with a handler that may fail or die half way.  Correct means: what
readers are pointed at is whole; a cleanup that succeeded leaves nothing, even
with an import still under way; a deleted source is restored only after its
cleanup; deletions get through.

*Queries and requests.*  Threads, tasks, permits, waiters and slots; a client
that goes away at any moment; an account that loses access while its answer is
being composed; sources that are replaced meanwhile.  Correct means: capacity is
neither lost nor counted twice; a result is delivered only to an account that is
still entitled, and names only sources that are still active; a cancelled query
yields nothing; admitted work ends.

*Accounts.*  A command is four requests to another service, each of which may
fail, die or be carried out late, while passwords change and readers sign in.
Correct means: a deletion is undone by nothing but a restore; a reported command
has ended the sessions before it.

*Sessions.*  A page renews for all its requests; the server renews inside a
request; another page signs out; a response is lost.  Correct means: a renewed
pair reaches the browser or nobody has it; a sign-out that was reported holds; a
request's work is not run twice; an outage does not sign anyone out.

*Engines.*  One job builds several engines, any of which fails or is killed, and
may build other bytes when retried.  Correct means: readers get engines of a
version together, each whole, or keep what they had.

*Native operation.*  Nothing but exclusive file creation keeps operators apart, and
any command may be the last thing a host does.  Correct means: a snapshot is of one
moment, half-restored or half-updated state is never served, a half-done
installation is never reported or built upon.

*Start-up.*  Processes of two releases migrate one database.  Correct means: no
crash leaves a schema that its version number does not describe, and what was
served before is served after.

*Retrieval, pages, text and models* have few actors but many cases: offsets and
overlaps, pages that are exactly full, orders that are those of names and not of
numbers, references resolved from either side, a model exchanged between two
batches.  Correct means: nothing of a document is lost on the way to the engines;
what an answer shows is what the model saw; a search misses nothing it has.

`PROJECT.json` lists these hazards line by line, with the properties that cover
them, or the reason why none does.

## 2. The models

### 2.1 `JobQueue` and `AttemptLedger`

One step per transaction: every method of `MetadataStore` runs inside one
`BEGIN IMMEDIATE`, so no two overlap.  An executor is a program counter:
`idle`/`reconciled`, then, with the file lock (`kernel`), `reading`,
`requeueing`, `acquiring`, `claiming`, `handling`, `joining`, `succeeding` or
`failing`, `disowning`, `releasing`.  Workers follow `run_forever`, commands
follow `run_job`.  The heartbeat thread is `beating`/`lost`; one whose join timed
out becomes `stray` and may make a last call.  `StoreError` is a transaction
refused by a busy database at any of these points, with the effect that the code's
`try` blocks give it; `Crash` drops the file lock and the process's memory, never
its rows.

Time: a lease is kept as the ticks it has left.  The code tests `lease_expires_at
< now` to reclaim and `> now` to be live, so at 0 a lease is neither; `-1` is
expired or NULL.  Submissions are numbered in the order of `created_at`;
`available_at` is never in the future in this code.  A repeated submission with a
known key returns the row and changes nothing, a stuttering step.  Owner names
are fresh per process: a restarted worker is another executor, and some worker is
always left (the service manager restarts it).

`AttemptLedger` is what the queue promises without executors, leases, locks and
time: jobs, attempts, and the one `holder` whose fenced writes go through.
`LedgerSpec` in `JobQueue` is the refinement: `holder` is the claim whose
executor is in flight and whose job and writer leases are both live.

### 2.2 `Publication`

One source under the default (legacy) profile.  `import` is a program counter per
concurrent `prepare_import`: what it read at first (`Survey`), then one step per
file write or transaction (`PutBytes`, `PutDocument`, `Purge`, `PutVersion`,
`ReplaceChunks`, `PrepareIndex`, `PutImportJob`, `RetryImport`); `Abandon` is a
full queue, a busy database, a full disk or a kill.  `Tombstone` is
`prepare_delete`, one transaction.  The handler (`stage`) does the import
(`Prepare` to `Publish`, with `FailIndex`, `FailVersion` on the failure path) or
the deletion (`Invalidate`, `DropVectors`, `DropGraph`, `DropFiles`).  Every call
of `lease_assertion` is a step of its own (`Fence`); manifest writes test the
fence themselves (`held`); writes to the stores do not.

There is one handler at a time: the theorem `HandlersKeepTheirJobs` of the queue
is what justifies it.  The vector store may be left with part of a version
(`"some"`); a graph write is one transaction, done or not.  `Fault`, `LoseLease`
and `Crash` may come at any stage.  Each deletion has a nonce in its key, so it is
a new job; a second `prepare_delete` of a tombstone returns the job there is.
Equal bytes are equal versions.  Lexical and artifact cleanup find nothing under
this profile.

### 2.3 `ReaderRequests`

A request is an adapter (`at`: a task of the event loop) and a worker (`work`: a
thread).  The adapter authenticates, takes a slot, awaits the thread, checks the
identity again (`Recheck`; for a browser with an expired token `Renew` and
`Confirm`), validates and delivers.  The thread takes a permit at once or among
the waiters, retrieves, validates its evidence, asks the provider (three checks of
the cancel event), cites, releases, and gives the slot back.  The adapter may be
cancelled (`Abandon`) or its client leave (`Disconnect`) while the thread runs on.

Evidence is the set of versions read, `shown` the versions a result names: the
citations for an answer, everything for a search or a read.  `Change` replaces the
active versions, `Revoke` stops an account, `Expire` ends a token.  Nothing is
persistent, so a crash only forgets requests.  Refreshing and the verification
inside it are one step; each request is used once.

### 2.4 `AccountControl`

One account, one host.  A command takes `account-admin.lock` without waiting
(one that finds it taken ends there: no step), reads (`Resolve` computes the whole
replacement, `RefuseEnable` is the refusal of a deleted account), `Replace`,
`Revoke`, `Verify`.  `Fail` covers an error, a timeout and a killed process: the
request was carried out, or not, or, for the replacement, will be later
(`ReplaceLate`).  `ChangePassword` is the listener in
`PasswordRevocationFactory.java`, `SignIn` a reader at Keycloak.  A session is the
epoch under which it began.  Left out: the time in `graphmind_deleted_at` (two
deletions with different times compare equal here, which makes the check of the
code weaker, so what holds here holds there), and an epoch that is not a number.

### 2.5 `BrowserSessions`

One browser: its cookie jar, the requests its pages have under way (`call`, a
program counter each) and one renewal per page (`api.ts` shares it among the
requests of a page).  Tokens are numbers in the order of their issue; `spent`,
`revoked`, `lapsed` and `ended` are what the identity service knows of them.
`BeginLogin`/`Callback` carry the number of the flow, so a callback may meet
another flow's cookie.  A response may be lost after the server acted.  What work
returns and who may see it is in `ReaderRequests`.

### 2.6 `SelectedEngines` and `Catalogue`

The selected-engine side of ingestion: submissions name sets of engines, the handler
builds them in the order of the job, per engine and per store, seals a derived
directory by renaming it into place, completes its record, and publishes the source
with all heads in one transaction.  A derived directory is a build number, since the
visual engine need not repeat itself byte for byte.  `leftover` is the
`.build-*` directory that a killed worker leaves.  Submissions are one step here;
their races with deletions are in `Publication`.

`Catalogue` is what both promise their readers: the engines in service serve one
version, come into service together, and leave it by a publication or a deletion
only.  `KeepsCatalogue` is the refinement of each (`Publication`'s map has the
one legacy engine).

### 2.7 `NativeRecovery`

`windows_operations.py` and the service host.  A command is a program counter over
every file it creates, hashes, copies, renames or removes; failing and dying are the
same step (`Interrupt`), since no command cleans up after itself.  Services start,
write, crash and stop meanwhile.  The content of a root is the count of its writes.

### 2.8 Parts that work by themselves

| Module | State | What a step is |
| --- | --- | --- |
| `NativeInstallation` | prepared directories and their lock, what pip read of it, the live place, what is registered, receipts | one created part, or one check; files, the lock among them, may be edited at any moment; the three installers differ by `kind` |
| `ReadinessProbe` | the shared task, its threads, what is up and was since it began (`seen`) | a look at one part; a caller's call, answer or departure |
| `ParserStaging` | each process's staged file and its age | one file or process operation, one tick |
| `DocumentText` | one file, its segments and chunks | one segment or one window; `Joined` is the reader of `pdf_pages.py` |
| `Inference` | the settings that decide whether there is a lock, the lock, the tag of the embedding model, the collection, one call per process, workers that outlived theirs (`orphans`) | one request to a model, one lock operation, one look at the tag |
| `TreeNavigation` | outline, tree, frontier, pages | one turn of the provider; building is one step. The tree is flat: a node is an owner (an item, or the outline), a row of groups above what the owner lists, and a number in that row |
| `VisualRetrieval` | page images and their vectors | drawing, scoring, showing |
| `RetrievalStores` | the graph in memory and in Neo4j, the vectors in the order they were written (`older`), an index that lags | one write, or one page of a search |
| `HybridRetrieval` | heads, chosen and linked passages | one stage of a retrieval, between which sources change; a list is sorted and cut by ranks: the n-th is the one that n - 1 are better than |
| `SchemaMigration` | the database, the open transaction, the lock | one statement, a commit, the end of a process |
| `ReaderViews` | a document's version, indexes and heads, one reader's call; what was served during it | one read of the catalogue, of a page or of a text, between which jobs build, publish and delete |

They share no state (what they have in common, such as when a version is written, is
in the modules above).  `HostServices` puts seven of them next to each other (models, readiness,
installation, migration, stores, retrieval and the tree) and `HostParts` the other four; they
state what the parts owe each other.  `MCParts` lets `side` choose one of the eleven and
explores each from all its inputs; the others stand still in some initial state.
`Inference` has two sides: answers and scores under one tag, and embedding calls while the
tag moves, of a worker that indexes and searches and a server that searches.

In `Inference` the operator may move the tag to any digest and back.  `moved` counts, between
two looks of one call, whether it moved once or more often, and marks what was made in the
second case as `returned`: no look can tell these from the others, and the property leaves
them out by name instead of the model leaving out the move.  A model worker whose process was
killed runs on beside whoever gets the lock next, so exclusion is stated of calls.

## 3. What the runs check

| Run | Instance | Shows |
| --- | --- | --- |
| `queue_command` | a worker and a command, one host, 2 documents, 2 jobs, 2 attempts, 1 refused transaction | `TypeOK`; `HandlerOwnsItsAttempt`: no handler in flight loses its row; `LedgerSpec`: the queue implements the ledger |
| `queue_service` | one host, two scenes: a worker and a command, 2 jobs of one document; 2 workers and a command, 1 job, 2 refused transactions; 2 attempts | `QueuedJobsAreServed`; `NoJobStranded`: a running job leaves that state, whoever died, stalled or was refused |
| `publication` | 1 importer, 2 versions, 1 deletion, 1 retry, 1 fault | `TypeOK`, `ServedSourceIsComplete`, `CleanupLeavesNothing`, `RestoredAfterCleanup`, `KeepsCatalogue` |
| `publication_cleanup` | 1 version, 1 deletion, 1 retry, 2 faults | `DeletionCompletes` |
| `publication_original` | 2 importers, 1 version, 1 deletion | violated: see 5 |
| `reader_capacity` | 3 requests, 1 permit, 1 waiter | `CapacityIsConserved` |
| `reader_delivery` | 1 request of any kind, 2 versions, 2 changes, 2 losses of access | `TypeOK`, `WithdrawnIsNotServed`, `RevokedIsNotServed`, `CancelledIsDiscarded`, `WorkEnds` |
| `selected_engines` | 2 engines, 2 versions, 3 jobs, 1 deletion, 1 retry, 1 fault | `TypeOK`, `ServedIndexIsComplete`, `CleanupLeavesNothing`, `KeepsCatalogue` |
| `selected_leftover` | 1 version, 2 jobs, 1 deletion, 1 crash | violated: see 5 |
| `native_recovery` | 2 operators, 2 services, 2 roots, 3 commands, 1 fault | `TypeOK`, `CleanStopKillsNothing`, `SnapshotIsOneMoment`, `MixedStateIsNotServed`, `HalfUpdateIsFrozen` |
| `identity` | side by side: 2 operators, 2 changes of the account, 2 late replacements; and a browser with 2 pages, 2 requests, 3 pairs of tokens, 1 outage | `IdentityTypeOK`, `DeletionStands`, `ReportedIsRevoked`; `SignOutIsFinal`, `RenewedTokensReachTheBrowser`, `WorkRunsOnce`, `ClearedOnlyWhenOver` |
| `parts` | the eleven parts of 2.8, one at a time | `PartsAreWellFormed` (types and bounds, which pages the tree has and how they are reached); `InstallationIsWhole` (installers and migration), `ReadinessIsBounded`, `ParsingIsSound`, `ModelsAreShared` (exactly the holder of the lock is at the host's models, what is kept and compared is of one model), `ShownAsItIs` (answers, pages, catalogue and text), `RetrievalIsComplete` |

Every checked property has a mutant: a definition changed as a plausible mistake
would change it (a heartbeat that does not test the fence, a cleanup of the active
version only, a permit kept by a cancelled thread, commands not serialised), under
which TLC finds the property violated in the same run.

### 3.1 Bounds, and why they are enough

- `LeaseSeconds = 1`: three lease states (live, at its instant, reclaimable) are
  all the code distinguishes; a longer lease adds only waiting.
- `MaxJobs = 2`, `MaxAttempts = 2`: one job in the way of another, and an attempt
  that comes after a lost one.  `MaxStoreErrors = 1`: each transaction refused in
  turn.  `queue_service` begins with two scenes (`MCQueueService`), since all of it at once
  is beyond the run.  In one, two jobs are in each other's way, one worker is left and
  nothing more is refused, a state that `StoreError` and `Crash` reach from `Init`.  In
  the other, there is one job, which two workers and a command lose by dying, by stalling
  past the lease, or by two refused transactions: of a claim, of its settlement, or of the
  reconciliation that should bring it back.  More hosts, jobs and attempts are covered by
  the theorems, for the safety properties.
- `Versions = 2`, `MaxDeletions = 1`, `MaxFaults` 1 or 2: a version being
  replaced, a deletion in the middle, one failure at every stage.  Importers that
  race with each other and with several deletions are covered by the theorems.
- `reader_capacity` has no versions, so no thread produces a result: the counters
  depend on the order of steps and not on what is read.  `reader_delivery` has one
  request: requests meet only in the counters, a waiting thread always times out,
  and with one request the space can be explored with two changes of everything.
- `MaxEpoch = 2`, `MaxLate = 2`: a deletion and its restore or a change of password, and
  two requests of dead commands that may both come between a command's write and check.
- `identity`: two requests of a page share its renewal, the other page competes with
  it; three pairs of tokens are a sign-in and two renewals.
- `selected_engines`: two engines are what "together" needs; `MaxJobs = 3` an import,
  its replacement or reindexing, and a deletion.
- `native_recovery`: one command in the way of another and a third that follows.
- `parts`: each input set holds the cases that the code tells apart.  Files are all
  Markdown files of up to four kinds of line, all texts of up to five characters
  over letters, blanks and newlines, PDFs of up to four pages; outlines are flat,
  nested, with gaps, out of order and beyond each limit; page numbers include 2 and
  11, which differ in the order of names; a page of a search holds two vectors, so
  that full, short and empty pages occur; scores include ties; three changes let a
  version leave and come back while a page is read; two edits let a file and the lock
  that names it change one after the other.
  Three digests (none, one, another) and two batches let the tag move before, between and
  within the batches of a call, and come back; an embedding call under admission for a
  runtime on the host contends for the lock, any other takes none.  `Embeds` in `MCParts`
  leaves out orders that differ in nothing a property sees, and says why.  That answers and
  embedding calls meet is covered by the theorem.  One tick of a parser's time is enough
  for a file that is as old as a running parser's can be, and for one that is older.

The remaining counters (`MaxRetries`, `MaxChanges`, `MaxLosses`, `MaxEdits`, `MaxTag`,
`MaxOrphans`, `MaxVersion`) bound how often the surroundings act.  Deadlock is not checked where a
run has to end: in `Publication` and `SelectedEngines` when the bounds are used up and
the handler is idle, in `ReaderRequests` when every request has ended, and likewise
for a browser, for operators' commands and for the eleven parts.

### 3.2 Fairness

- `JobQueue`: weak fairness of each executor's own steps (`run_forever` polls;
  every external call of a handler has a timeout) and of `Tick`.  None for
  commands, heartbeats, crashes, retries, refusals.
- `Publication`: weak fairness of `Work`, for the same reason, and of the retry of
  a failed cleanup: the code never retries one by itself, the operator does
  (`src/README.md:77`, "A failed cleanup remains retryable").  `DeletionCompletes`
  depends on that operator, and says so.
- `SelectedEngines`, `BrowserSessions`, `NativeRecovery` and the parts of 2.8: none is
  used; what is checked of them is safety.
- `ReaderRequests`: weak fairness of each adapter and each thread: the event loop
  and the scheduler run them, waiting is bounded by `queue_timeout`, stores, models
  and the identity service by HTTP timeouts.  Nothing for clients or accounts.

## 4. What is proved

All theorems hold for every value of the constants, under the named assumptions of
each module.  `ConstantsAssumption`, `PublicationAssumption`, `ReaderAssumption`,
`AccountAssumption`, `RecoveryAssumption`, `EnginesAssumption` and
`SessionsAssumption` say no more than that bounds are natural numbers, limits positive
where `config.py` demands it, sets of names related as their definitions are, and null
values distinct.  `HostServicesAssumption` and `HostPartsAssumption` say the same of
the parts of 2.8 and, besides, what the code makes sure of elsewhere: every version has chunks (`ingestion.py:343`), a
window is not empty (`config.py:380`), the text of a PDF page has no blanks around it
(`parser_worker.py:338`), there is room for some evidence (`config.py:469-474`), a page
of vectors is not empty (`vector_store.py:234`), the tree's groups are of two at least (of 8
in `tree_navigation/engine.py:38`), an item of an outline comes after the one it is in, a
call for embeddings has a batch, a reranker gives every passage some score, engines and
indexes are those of the catalogue, and chunks and passages are finitely many, numbered in
the order of their identifiers.

| Module | Theorem | Argument |
| --- | --- | --- |
| `JobQueueProofs` | `TypeCorrect` | each step keeps the type |
| | `HandlersKeepTheirJobs` | `HandlerOwnsItsAttempt` on one host. It is not inductive: one needs that whoever is past the file lock holds it (`KernelHeld`), so that reconciliation, claims and targeted retries, which all happen under the lock, never meet another's attempt in flight; and that submissions, deletions and the retry command never touch a running row |
| | `QueueImplementsLedger` | on any number of hosts, each step maps to a ledger step or a stutter. The strengthening relates leases instead of locks: an attempt in flight with live leases is the current attempt of its row, and a live writer lease belongs to one executor |
| `PublicationProofs` | `TypeCorrect`, `ServedSourcesAreComplete`, `CleanupsAreComplete`, `RestorationFollowsCleanup`, `PublicationKeepsCatalogue` | one invariant, from which the refinement of the catalogue follows step by step: importers past a stage have written what it needs; an index `building` or `ready` was checked against the stores; the handler's job is running; there is one outstanding deletion at most; after an invalidation no stage can write again while the tombstone stands; what the cleanup noted at its start still holds |
| `SelectedEngineProofs` | `TypeCorrect`, `ServedIsComplete`, `CleanupIsComplete`, `ImplementsCatalogue` | what readers see is too weak by itself: an index a head may name later must be whole already, so `ReadyIndexIsWhole` is about every index that is ready. `BuildProgress` says what the store of a half-built index holds at each stage, `CleanupProgress` what a deletion has removed; `NoBuildAfterCleanup` and `OneDeletionOutstanding` keep a build from running into a finished cleanup. A step of several engines maps to one step of the catalogue because heads move in `Publish` only |
| `ReaderProofs` | `TypeCorrect`, `CapacityConserved` | the counters equal the cardinalities of the sets of threads in the right stages; each step moves one thread |
| | `RevokedNeverServed`, `CancelledAreDiscarded` | from a progress invariant: which places of adapter and thread go together, and that a result exists only behind the last check |
| | `WithdrawnNeverServed` | a temporal statement. While a version that a request rests on stays withdrawn, "not delivered, and it still rests on it" is kept by every step: the worker's last check looks at all it read before there is a result, the adapter's at all that the result names |
| `IdentityProofs` | `TypeCorrect`, `DeletionsStand` | the lock makes what a command read still true when it writes, but for the epoch |
| | `ReportedAreRevoked` | for any number of late replacements in all, of which at most one lands between a command's own write and its check (`hits`): that one either shows in the check or has changed the epoch only. With two there, the second can hide the first, which the property says and the run explores |
| | `SignOutStays`, `RenewedTokensReach`, `WorkIsNotRepeated`, `ClearedWhenOver` | the two cookies are of one pair in the jar and on the way (`JarHoldsOnePair`), and a pair just issued has one holder and was used nowhere (`NewPairIsUnused`): so a response cannot bring back a pair that another page's sign-out ended, and a refusal that clears the cookies is about the pair that the request sent. A request that did not reach its work has run none, which is what allows the page to send it again |
| | `IdentityTypes` | accounts and browser next to each other |
| `NativeRecoveryProofs` | `TypeCorrect`, `StopKillsNothing` | success is reported by the two steps that found nobody left in the job, so closing it killed nobody (`killed` is the history of that), and nobody starts before the next host does |
| | `SnapshotIsConsistent` | the content of a root only grows until something was restored; so what was noted (`Inventoried`) is at most what there was when the copies were complete (`moment`), and that at most what the comparison finds, and the first and the last are equal. One backup at most is past the creation of the snapshot |
| | `MixedIsNeverServed` | while roots are exchanged, and after a restore that died among them, sealed services and the proxy are down (`MixedIsSealed`), and nothing starts them while the seal is there; one restore at most is past the seal |
| | `HalfUpdatesStay` | a `.pending` file has one owner at most, which names its release (`PendingIsOwned`), one command at most is renaming, and a half update is marked by a file that no command in hand has made (`HalfUpdateIsMarked`), which stops every later one |
| `HostPartProofs` | `ReadinessStaysBounded` | whether the shared task runs is whether one thread is in a probe; a caller was told by a probe that ended while it waited; what a running probe found up was up since it began (`FoundWasSeen`) |
| | `InstallationsAreWhole` | every place has at most one owner, who got it by exclusive creation, and whoever left it half done still owns it; the open transaction is ahead of the database by whole scripts and the statements of one more (`WorkIsBegun`), so that a crash at any statement leaves what the version number describes. What the lock named when pip read it is what is compared, so a wheel has the approved bytes as far as it still named them |
| | `ModelsStayShared` | who holds the lock is at a model; between its looks a caller whose tag has not moved holds vectors of the tag, and one whose tag moved once will find another one (`LooksTell`): so what it keeps is of the model that the collection will name when it writes or compares, or `returned` (`MadeIsOfOne`; `embeddings.py:234-257`) |
| | `CitationsStayShown` | a citation was made from the prompt's passages (`AnswersInv`); the prompt is a fold over the evidence that takes a passage while there is room (`PromisedGoesOn`) |
| | `EveryPageStaysWithinReach` | what the tree is made of, row by row: see below |
| | `GraphAnswersAsMemory` | the edges in Neo4j are a function of the chunks and documents stored (`EdgesFollowNames`), and a version that is stored is stored with all of its chunks: so either store's answer can be computed from the other's |
| | `StoresStayComplete` | the same for the vectors; and while a search reads pages, what it keeps is the nearest of the vectors before its offset (`NearestAreKept`) |
| | `RetrievalStaysComplete` | with it, the evidence: see below |
| `DocumentProofs` | `ParsingStaysSound` | see below |
| | `ViewsAreOfTheCall` | whatever was read is related to what was served since the call began (`ever`, `always`): a head that was read served then, a page of bytes is of the version whose head was read |
| | `ViewsStayTrue` | with `ViewsAreOfTheCall`, the cut of a text: along the fold over its sections, what is kept is whole until one does not fit, and nothing is kept after it (`SoFarGoesOn`) |
| | `WhatIsShownStaysTrue` | both, and that images and vectors stay under the number of their page (`VisualInv`) |
| | `PartsStayWellFormed` | with `EveryPageStaysWithinReach`, each part's types from its invariant |

`ParsingStaysSound` is about texts of any length.  The invariant (`TextInv`) says while
a file is read that segments follow each other, lie before the next unit and take up
every unit with text before it; while it is cut, that what the chunks put together is,
of every page before the current one, the page, and of the current one a beginning that
reaches to the next window or stops where only blanks are left (`PageBegun`).  A window that
is dropped is blank, hence neither the first nor the last of a page; the next window
begins within the current one.  Pages are put together by a fold over the chunks; how a
fold goes on when one more is appended (`IterateMore`) is proved by induction on
sets of positions, from the well-foundedness of the natural numbers, for the recursive
function by which the community modules define their folds (`HostPartProofs`).  The half on files in the
staging directory is that a running parser is younger than the cutoff of any sweep.

`RetrievalStaysComplete` rests on lemmas about ranks in an ordered set: those with fewer
than n before them are n, or all there are if these are fewer (`LeadIsCounted`); and the
first n of a union need only the first n of each part (`OnlyFirstMatter`).  By the first,
pages are full but for the last, and the next begins where one ended, whatever is
written between two of them, as new vectors come last; by the second, keeping the
nearest of what was kept and a new page is as good as keeping all.  A vector that
is removed meanwhile breaks the first (`disturbed`), and then only the versions of what
was found are promised.  Evidence is a fold over the two lists in turn; along it, what
was taken stays, and every prefix keeps the bounds (`TakeGoesOn`, `FirstAreTaken`), by
the same induction as above.

`EveryPageStaysWithinReach` says what one wants of the tree whatever the outline, the texts
and the fanout F: its leaves are exactly the pages with text that the outline's leaves
cover, every node is offered at first or below one that comes before it, and no more than F
are offered together.  The model does not build the tree by recursion over the outline,
about which nothing could be proved here, but describes it row by row: w nodes make
(w + F - 1) \div F groups, and the j-th of them is in group (j - 1) \div F + 1; places are
counted among the items or pages of a list, which are in their order.  From a few facts
about division (`GroupsAre`) follow that the row above one that is wider than F is narrower
(`RowsNarrow`), so that rows end, and the last has F nodes at most (`RowsGoOn`, `TopFits`);
that a group takes F places at most, and different nodes have different places (`PlaceIs`,
`SlicesFit`); and that every node of a row is in the slice of one group of the row above
(`ReachedFromBefore`).  Once built, the tree does not change (`NodesStay`), and a provider
that chooses from what it is offered stays in it (`FollowStep`).  What `PartsStayWellFormed`
adds are types: most are conjuncts of the invariants above, others bound times
(`StagingFits`), windows (`TextFits`), calls to models (`ModelsFit`) and what a reader's view
names (`ViewFits`).

Every safety property of a passing run is the statement of a theorem.
Only model-checked are the liveness properties (`NoJobStranded`, `QueuedJobsAreServed`,
`DeletionCompletes`, `WorkEnds`): TLAPS as used here proves neither liveness under fairness
nor anything about ENABLED.

## 5. Findings

1. `publication_original`: an import that met a tombstone removes the document's
   originals in a later step, when another import may have restored and published
   it (`ingestion.py:389`).
2. `selected_leftover`: a worker killed while it writes a derived directory leaves
   `.build-<index>-<uuid>`, which the cleanup of a deleted source does not look for
   (`rag/components/artifacts.py:165`), against `src/tools/UBUNTU_INSTALLATION.md:216`.

Seen while modelling, and left without a run of their own:

*Queue and publication.*  A worker's claim does not look for an older job of the same
document that is still `running`, so after a crash it may start the next job first,
against "Normal workers retain FIFO" (`jobs.py:75`).  `retry_job` does not count the
queue, so retries can take it over `max_queued_jobs` (`metadata.py:726`); an older
import may run after a newer one (816); a failed import that is retried after its
source was deleted and restored publishes a version whose original was cleaned
(`ingestion.py:456`); an import killed between `put_bytes` and `put_document` leaves an
original that no row refers to (`files.py:42`).

*Requests and accounts.*  All of the context is checked before there is a result,
as `pipeline.py:86` says, but after authorisation only what is cited
(`product_server.py:653`): a passage that nobody cites and that is withdrawn in between
does not stop the answer, and `WithdrawnIsNotServed` says no more than that.  The lock of account
commands does not order the requests that a timed-out or killed command left behind;
one of these can undo a deletion (`identity.py:612`).  `DeletionStands` and its theorem
show that this is the only way.  Two changes of password between a command's read and
its write let the credential epoch go back, which nothing but the command's own check
reads.  A GET renews a session whose token lapsed during its work
(`product_server.py:717-721`; `GetNeverRefreshes` in `BrowserSessions` states the
contrary, as does `src/documentation/AUTH_AND_MCP.md:33`).  Of two requests
that renew with the same refresh token at once, the second clears the cookies.  The
catalogue reads heads before documents (`reader.py:71`), so a version published in
between may be listed `not_indexed` though it is served; and if a version is replaced
and comes back while a page is read, the page may be of the version in between
(`view.returned` in `ReaderViews`).

*Engines and stores.*  The stores in memory and in Neo4j and Chroma break ties
differently.  A scan that pages by offset can miss or repeat a vector when a document
is deleted meanwhile (`disturbed` sets these searches apart).  Pages of an intro that an
outline's children do not cover are out of the provider's reach; two leaves with the
same large range give their groups the same names, so a provider that chooses one is
led down both.  With `max_evidence`
equal to `seed_limit` equal to 1 a referenced document has no room.  The temporary
directories `.raster-`, `.tree-` and `.visual-` of a killed worker are never swept; its
orphaned model worker runs on without the lock (`local_inference.py:69`; `orphans` in
`Inference`), beside the next one.  In the legacy profile without other engines there is
no lock at all (`service.py:87-91`).  A tag that moves and is back between the two looks at
it (`embeddings.py:234`, `257`) lets vectors of the other model into the collection.
`/health/ready` tells a caller that joins a running probe of looks made before it asked
(`product_server.py:255`).

*Operation.*  Ubuntu units are not hashed again between review and copy.  pip reads
`requirements.lock` again after it was verified (`bundle_installer.py:126`, `149`): a lock
edited in between decides what is installed, and the receipt is written all the same.
`ReportedIsWhole` promises the approved bytes only of what that lock still named so.  A process of
an older release that is already running keeps writing after a newer one migrated the
database: the version is looked at on start only (native updates stop the services
first).  A source of an older release whose chunks do not match its manifest loses its
head by the migration, and so is not served.

## 6. Plan

Done so far, in order: queue, publication, requests, accounts; then selected engines
and the catalogue, native recovery, sessions, and the parts of 2.8; then proofs of all of
these.  Left:

1. *Composition*: `Publication` with its handler driven by `JobQueue` instead of by
   the theorem that there is one handler.
2. *Liveness* of the selected cleanup, in the manner of `DeletionCompletes`.

## 7. Not modelled

Configuration (values read and validated once; they are the constants here) and the
free-space reserve, which refuses a command before it changes anything; assembly and
re-exports; the arguments and the output of host commands, whose effects are actions
of the modules above; evaluation, an offline batch; the page's presentation; building
and verifying bundles and model directories, scripts that run alone; the HTTP and JSON
layers; what external services hold beyond which versions and tokens they know; the
legacy prototype.  Of the tree, the limit on an outline's depth (`tree_navigation/engine.py:52`), which
refuses a build as the limit on its nodes does; of the lock of a bundle, lines or wheels that an edit adds; of an
embedding runtime, what it goes on to do for a client that has gone.  `PROJECT.json` gives the reason with each component.
