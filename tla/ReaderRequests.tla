--------------------------- MODULE ReaderRequests ---------------------------
(***************************************************************************)
(* What becomes of a reader's request: the adapter, a task of the event    *)
(* loop (product_server.py), the worker thread that does its work          *)
(* (pipeline.py, reader.py), and what they share: the slots for threads,   *)
(* the permits for queries and the count of those waiting for one.         *)
(*                                                                         *)
(* Meanwhile the catalogue changes as ingestion publishes and deletes,     *)
(* clients leave, tokens expire and accounts are revoked.  Nothing here is *)
(* persistent, so a crash of the server only forgets requests.             *)
(***************************************************************************)
EXTENDS Integers, FiniteSets

CONSTANTS
    Requests,
    Versions,       \* source versions the catalogue may have active
    None,           \* no version
    MaxConcurrent,  \* max_concurrent_queries
    MaxQueued,      \* max_queued_queries
    MaxChanges,     \* bound: changes of the catalogue
    MaxLosses       \* bound: revocations and expiries

ASSUME ReaderAssumption ==
    /\ IsFiniteSet(Requests)
    /\ None \notin Versions
    /\ MaxConcurrent \in Nat \ {0}
    /\ MaxQueued \in Nat
    /\ MaxChanges \in Nat
    /\ MaxLosses \in Nat

VARIABLES
    active,     \* active_version_ids()
    changes,
    revoked,    \* requests whose account has lost access since
    expired,    \* requests whose access token has run out since
    op,         \* ask, search, or read (a document, an asset, the catalogue)
    browser,    \* requests by browser; the others are MCP calls
    at,         \* where the adapter is
    work,       \* where the worker thread is
    cancelled,  \* cancel events set
    evidence,   \* versions the worker has read
    shown,      \* versions its result names, or NoResult
    slots,      \* offload_slots
    permits,    \* AnswerService._capacity
    waiters     \* AnswerService._waiters

catalogue == <<active, changes>>
accounts == <<revoked, expired>>
client == <<op, browser>>
capacity == <<slots, permits, waiters>>
result == <<evidence, shown>>
vars == <<catalogue, accounts, client, at, work, cancelled, result, capacity>>

NoResult == {None}

Ended == {"delivered", "refused", "abandoned"}
Adapting == {"verifying", "admitting", "awaiting", "rechecking", "renewing",
             "confirming", "validating"}
\* A thread that holds a permit, and one counted among the waiters.
Holding == {"acquired", "holding", "retrieving", "retrieved", "answering", "answered",
            "releasing"}
Waiting == {"waiting", "acquired", "timedOut"}
Threads == Holding \cup Waiting \cup
           {"queued", "entering", "full", "reading", "read", "leaving"}

TypeOK ==
    /\ active \in SUBSET Versions
    /\ changes \in 0 .. MaxChanges
    /\ revoked \in SUBSET Requests
    /\ expired \in SUBSET Requests
    /\ op \in [Requests -> {"ask", "search", "read"}]
    /\ browser \in SUBSET Requests
    /\ at \in [Requests -> Adapting \cup Ended \cup {"none"}]
    /\ work \in [Requests -> Threads \cup {"none", "gone"}]
    /\ cancelled \in SUBSET Requests
    /\ evidence \in [Requests -> SUBSET Versions]
    /\ shown \in [Requests -> (SUBSET Versions) \cup {NoResult}]
    /\ slots \in 0 .. MaxConcurrent + MaxQueued
    /\ permits \in 0 .. MaxConcurrent
    /\ waiters \in 0 .. MaxQueued

Init ==
    /\ active \in SUBSET Versions
    /\ changes = 0
    /\ revoked = {}
    /\ expired = {}
    /\ op = [r \in Requests |-> "read"]
    /\ browser = {}
    /\ at = [r \in Requests |-> "none"]
    /\ work = [r \in Requests |-> "none"]
    /\ cancelled = {}
    /\ evidence = [r \in Requests |-> {}]
    /\ shown = [r \in Requests |-> NoResult]
    /\ slots = MaxConcurrent + MaxQueued
    /\ permits = MaxConcurrent
    /\ waiters = 0

Adapter(r, place) == at' = [at EXCEPT ![r] = place]
Worker(r, place) == work' = [work EXCEPT ![r] = place]
Admissible(r) == r \notin revoked \cup expired

-----------------------------------------------------------------------------
(* The adapter, up to the submission of its work.                          *)

Arrive(r) ==
    /\ at[r] = "none"
    /\ Adapter(r, "verifying")
    /\ \E o \in {"ask", "search", "read"} : op' = [op EXCEPT ![r] = o]
    /\ browser' \in {browser, browser \cup {r}}
    /\ UNCHANGED <<catalogue, accounts, work, cancelled, result, capacity>>

\* _browser_principal or mcp_token; the identity service may be out.
Authenticate(r) ==
    /\ at[r] = "verifying"
    /\ \/ Adapter(r, "refused")
       \/ Admissible(r) /\ Adapter(r, "admitting")
    /\ UNCHANGED <<catalogue, accounts, client, work, cancelled, result, capacity>>

\* reader_work: a slot first, then a thread.
Admit(r) ==
    /\ at[r] = "admitting"
    /\ IF slots > 0
       THEN slots' = slots - 1 /\ Worker(r, "queued") /\ Adapter(r, "awaiting")
       ELSE Adapter(r, "refused") /\ UNCHANGED <<work, slots>>
    /\ UNCHANGED <<catalogue, accounts, client, cancelled, result, permits, waiters>>

\* watch_disconnect: only a browser's request is watched, and only while it
\* awaits its worker.
Disconnect(r) ==
    /\ at[r] = "awaiting"
    /\ r \in browser
    /\ cancelled' = cancelled \cup {r}
    /\ UNCHANGED <<catalogue, accounts, client, at, work, result, capacity>>

\* Mutant of Abandon: the slot is given back although the thread runs on.
AbandonReleasing(r) ==
    /\ at[r] \in Adapting
    /\ Adapter(r, "abandoned")
    /\ IF at[r] = "awaiting" THEN cancelled' = cancelled \cup {r} /\ slots' = slots + 1
                             ELSE UNCHANGED <<cancelled, slots>>
    /\ UNCHANGED <<catalogue, accounts, client, work, result, permits, waiters>>

\* The adapter's task is cancelled; a thread it started runs on.
Abandon(r) ==
    /\ at[r] \in Adapting
    /\ Adapter(r, "abandoned")
    /\ cancelled' = IF at[r] = "awaiting" THEN cancelled \cup {r} ELSE cancelled
    /\ UNCHANGED <<catalogue, accounts, client, work, result, capacity>>

-----------------------------------------------------------------------------
(* The worker thread: admission to the query permits.                      *)

Start(r) ==
    /\ work[r] = "queued"
    /\ Worker(r, IF op[r] = "read" THEN "reading"
                 ELSE IF r \in cancelled THEN "leaving" ELSE "entering")
    /\ UNCHANGED <<catalogue, accounts, client, at, cancelled, result, capacity>>

\* _acquire_capacity, its parts between which other threads run.
TryPermit(r) ==
    /\ work[r] = "entering"
    /\ IF permits > 0 THEN permits' = permits - 1 /\ Worker(r, "holding")
                      ELSE UNCHANGED permits /\ Worker(r, "full")
    /\ UNCHANGED <<catalogue, accounts, client, at, cancelled, result, slots, waiters>>

JoinWaiters(r) ==
    /\ work[r] = "full"
    /\ IF waiters < MaxQueued THEN waiters' = waiters + 1 /\ Worker(r, "waiting")
                              ELSE UNCHANGED waiters /\ Worker(r, "leaving")
    /\ UNCHANGED <<catalogue, accounts, client, at, cancelled, result, slots, permits>>

AwaitPermit(r) ==
    /\ work[r] = "waiting"
    /\ \/ permits > 0 /\ permits' = permits - 1 /\ Worker(r, "acquired")
       \/ UNCHANGED permits /\ Worker(r, "timedOut")
    /\ UNCHANGED <<catalogue, accounts, client, at, cancelled, result, slots, waiters>>

QuitWaiters(r) ==
    /\ work[r] \in {"acquired", "timedOut"}
    /\ waiters' = waiters - 1
    /\ Worker(r, IF work[r] = "acquired" THEN "holding" ELSE "leaving")
    /\ UNCHANGED <<catalogue, accounts, client, at, cancelled, result, slots, permits>>

-----------------------------------------------------------------------------
(* The worker thread: the work.                                            *)

Current(r) == evidence[r] \subseteq active

\* The cancel check, then retrieval; embedding, Chroma or Neo4j may fail.
Retrieve(r) ==
    /\ work[r] = "holding"
    /\ \/ Worker(r, "releasing") /\ UNCHANGED evidence
       \/ /\ r \notin cancelled
          /\ \E found \in SUBSET active : evidence' = [evidence EXCEPT ![r] = found]
          /\ Worker(r, "retrieving")
    /\ UNCHANGED <<catalogue, accounts, client, at, cancelled, shown, capacity>>

\* _validate_evidence.
ValidateEvidence(r) ==
    /\ work[r] = "retrieving"
    /\ Worker(r, IF Current(r) THEN "retrieved" ELSE "releasing")
    /\ UNCHANGED <<catalogue, accounts, client, at, cancelled, result, capacity>>

\* Back in the answer service: cancelled, without evidence, stale, or on.
Assess(r) ==
    /\ work[r] = "retrieved"
    /\ \/ /\ r \in cancelled \/ ~Current(r)
          /\ Worker(r, "releasing")
          /\ UNCHANGED shown
       \/ /\ r \notin cancelled
          /\ Current(r)
          /\ op[r] = "search" \/ evidence[r] = {}
          /\ \E s \in SUBSET evidence[r] : shown' = [shown EXCEPT ![r] = s]
          /\ Worker(r, "releasing")
       \/ /\ r \notin cancelled
          /\ Current(r)
          /\ op[r] = "ask" /\ evidence[r] # {}
          /\ Worker(r, "answering")
          /\ UNCHANGED shown
    /\ UNCHANGED <<catalogue, accounts, client, at, cancelled, evidence, capacity>>

\* Mutant of Answer: a cancellation during the provider's call goes unnoticed.
AnswerRegardless(r) ==
    /\ work[r] = "answering"
    /\ Worker(r, "releasing") \/ Worker(r, "answered")
    /\ UNCHANGED <<catalogue, accounts, client, at, cancelled, result, capacity>>

\* The provider's call ends, well or badly, and is discarded if cancelled.
Answer(r) ==
    /\ work[r] = "answering"
    /\ \/ Worker(r, "releasing")
       \/ r \notin cancelled /\ Worker(r, "answered")
    /\ UNCHANGED <<catalogue, accounts, client, at, cancelled, result, capacity>>

\* Mutant of Cite: only the sources that are cited are checked.
CiteCheckingCited(r) ==
    /\ work[r] = "answered"
    /\ \E s \in SUBSET evidence[r] :
          shown' = IF s \subseteq active THEN [shown EXCEPT ![r] = s] ELSE shown
    /\ Worker(r, "releasing")
    /\ UNCHANGED <<catalogue, accounts, client, at, cancelled, evidence, capacity>>

\* The whole evidence is checked again; the result names what is cited.
Cite(r) ==
    /\ work[r] = "answered"
    /\ IF Current(r)
       THEN \E s \in SUBSET evidence[r] : shown' = [shown EXCEPT ![r] = s]
       ELSE UNCHANGED shown
    /\ Worker(r, "releasing")
    /\ UNCHANGED <<catalogue, accounts, client, at, cancelled, evidence, capacity>>

\* Mutant of Release: the permit of a cancelled query is forgotten.
ReleaseUnlessCancelled(r) ==
    /\ work[r] = "releasing"
    /\ permits' = IF r \in cancelled THEN permits ELSE permits + 1
    /\ Worker(r, "leaving")
    /\ UNCHANGED <<catalogue, accounts, client, at, cancelled, result, slots, waiters>>

Release(r) ==
    /\ work[r] = "releasing"
    /\ permits' = permits + 1
    /\ Worker(r, "leaving")
    /\ UNCHANGED <<catalogue, accounts, client, at, cancelled, result, slots, waiters>>

\* fetch_document, fetch_asset and catalog: no permit, no cancellation.
ReadSources(r) ==
    /\ work[r] = "reading"
    /\ \/ Worker(r, "leaving") /\ UNCHANGED evidence
       \/ /\ \E found \in SUBSET active : evidence' = [evidence EXCEPT ![r] = found]
          /\ Worker(r, "read")
    /\ UNCHANGED <<catalogue, accounts, client, at, cancelled, shown, capacity>>

CheckSources(r) ==
    /\ work[r] = "read"
    /\ shown' = IF Current(r) THEN [shown EXCEPT ![r] = evidence[r]] ELSE shown
    /\ Worker(r, "leaving")
    /\ UNCHANGED <<catalogue, accounts, client, at, cancelled, evidence, capacity>>

\* The finally clause of run.
Leave(r) ==
    /\ work[r] = "leaving"
    /\ slots' = slots + 1
    /\ Worker(r, "gone")
    /\ UNCHANGED <<catalogue, accounts, client, at, cancelled, result, permits, waiters>>

-----------------------------------------------------------------------------
(* The adapter, from the result to its delivery.                           *)

\* Mutant of TakeResult: a request known to be cancelled is left alone.
TakeResultUnlessCancelled(r) ==
    /\ at[r] = "awaiting"
    /\ work[r] = "gone"
    /\ r \notin cancelled
    /\ Adapter(r, IF shown[r] = NoResult THEN "refused" ELSE "rechecking")
    /\ UNCHANGED <<catalogue, accounts, client, work, cancelled, result, capacity>>

TakeResult(r) ==
    /\ at[r] = "awaiting"
    /\ work[r] = "gone"
    /\ Adapter(r, IF shown[r] = NoResult THEN "refused" ELSE "rechecking")
    /\ UNCHANGED <<catalogue, accounts, client, work, cancelled, result, capacity>>

\* Mutant of Recheck: the sources were checked before, so it delivers.
RecheckAndDeliver(r) ==
    /\ at[r] = "rechecking"
    /\ \/ Adapter(r, "refused")
       \/ Admissible(r) /\ Adapter(r, "delivered")
       \/ r \in expired \cap browser /\ Adapter(r, "renewing")
    /\ UNCHANGED <<catalogue, accounts, client, work, cancelled, result, capacity>>

\* _post_work_identity.  A token that is refused after its time is taken for
\* expired, even if the account was revoked too; a browser may renew it.
Recheck(r) ==
    /\ at[r] = "rechecking"
    /\ \/ Adapter(r, "refused")
       \/ Admissible(r) /\ Adapter(r, "validating")
       \/ r \in expired \cap browser /\ Adapter(r, "renewing")
    /\ UNCHANGED <<catalogue, accounts, client, work, cancelled, result, capacity>>

\* Mutant of Renew: the refreshed token is not introspected.
RenewBlindly(r) ==
    /\ at[r] = "renewing"
    /\ Adapter(r, "refused") \/ Adapter(r, "validating")
    /\ UNCHANGED <<catalogue, accounts, client, work, cancelled, result, capacity>>

\* authority.refresh, which verifies the token it got.
Renew(r) ==
    /\ at[r] = "renewing"
    /\ \/ Adapter(r, "refused")
       \/ r \notin revoked /\ Adapter(r, "confirming")
    /\ UNCHANGED <<catalogue, accounts, client, work, cancelled, result, capacity>>

\* The renewed identity must be the one that asked.
Confirm(r) ==
    /\ at[r] = "confirming"
    /\ \/ Adapter(r, "refused")
       \/ r \notin revoked /\ Adapter(r, "validating")
    /\ UNCHANGED <<catalogue, accounts, client, work, cancelled, result, capacity>>

\* validate_result and the response, with no await between them.
Deliver(r) ==
    /\ at[r] = "validating"
    /\ Adapter(r, IF shown[r] \subseteq active THEN "delivered" ELSE "refused")
    /\ UNCHANGED <<catalogue, accounts, client, work, cancelled, result, capacity>>

-----------------------------------------------------------------------------
(* The surroundings.                                                       *)

\* Ingestion publishes, replaces or deletes.
Change ==
    /\ changes < MaxChanges
    /\ changes' = changes + 1
    /\ active' \in SUBSET Versions
    /\ UNCHANGED <<accounts, client, at, work, cancelled, result, capacity>>

Loses(r) == at[r] \in Adapting /\ Cardinality(revoked) + Cardinality(expired) < MaxLosses

Revoke(r) ==
    /\ Loses(r)
    /\ revoked' = revoked \cup {r}
    /\ UNCHANGED <<catalogue, expired, client, at, work, cancelled, result, capacity>>

Expire(r) ==
    /\ Loses(r)
    /\ expired' = expired \cup {r}
    /\ UNCHANGED <<catalogue, revoked, client, at, work, cancelled, result, capacity>>

-----------------------------------------------------------------------------

Serve(r) ==
    \/ Authenticate(r) \/ Admit(r) \/ TakeResult(r) \/ Recheck(r) \/ Renew(r)
    \/ Confirm(r) \/ Deliver(r)

Run(r) ==
    \/ Start(r) \/ TryPermit(r) \/ JoinWaiters(r) \/ AwaitPermit(r) \/ QuitWaiters(r)
    \/ Retrieve(r) \/ ValidateEvidence(r) \/ Assess(r) \/ Answer(r) \/ Cite(r)
    \/ Release(r) \/ ReadSources(r) \/ CheckSources(r) \/ Leave(r)

Next ==
    \/ \E r \in Requests : Arrive(r) \/ Serve(r) \/ Run(r) \/ Disconnect(r) \/ Abandon(r)
                           \/ Revoke(r) \/ Expire(r)
    \/ Change

Spec == Init /\ [][Next]_vars

-----------------------------------------------------------------------------
(* Properties.                                                             *)

Among(places) == Cardinality({r \in Requests : work[r] \in places})

\* The shared counters are exact whatever order threads enter, wait, time
\* out, are cancelled and leave in: every slot is free or with a live thread,
\* every permit free or with a thread in retrieval or at the provider, and
\* the waiters counted are the threads that joined and have not yet quit.
CapacityIsConserved ==
    /\ slots + Among(Threads) = MaxConcurrent + MaxQueued
    /\ permits + Among(Holding) = MaxConcurrent
    /\ waiters = Among(Waiting)

\* What a request rests on: the sources its result names or, while it has no
\* result, everything its worker has read.
RestsOn(r, v) == v \in (IF shown[r] = NoResult THEN evidence[r] ELSE shown[r])

\* A version that is withdrawn while a request rests on it, and stays
\* withdrawn, is never shown to the reader: not when it is one of the passages
\* nobody cites and goes while the provider composes ("All context can
\* influence the answer", pipeline.py:84-87), and not when it goes between the
\* end of the work and the end of the authorization (AUTH_AND_MCP.md:167-168).
Withdrawn(v) == v \notin active

WithdrawnIsNotServed ==
    \A r \in Requests, v \in Versions :
        [](at[r] \in Adapting /\ RestsOn(r, v) /\ [](Withdrawn(v))
           => [](at[r] # "delivered"))

\* An account that lost access before it was checked again is never served the
\* result, not even by way of an expired token that is renewed.
RevokedIsNotServed ==
    \A r \in Requests : [](r \in revoked /\ at[r] \in Adapting \ {"validating"}
                           => [](at[r] # "delivered"))

\* A query cancelled before its provider answered yields no result, whatever
\* it was waiting for at the time.
Unanswered == (Threads \cup {"none"}) \ {"answered", "releasing", "leaving"}

CancelledIsDiscarded ==
    \A r \in Requests : [](r \in cancelled /\ op[r] # "read" /\ work[r] \in Unanswered
                           => [](shown[r] = NoResult))

-----------------------------------------------------------------------------
(* Liveness.  Threads are scheduled, waiting has a timeout and so has every *)
(* call to a store, a model or the identity service; the event loop runs    *)
(* each adapter that is ready.                                              *)

LiveSpec == Spec /\ \A r \in Requests : WF_vars(Serve(r)) /\ WF_vars(Run(r))

\* Work that was admitted ends, its slot comes back and its request is
\* answered or was abandoned by its client.
WorkEnds ==
    \A r \in Requests : work[r] = "queued" ~> work[r] = "gone" /\ at[r] \in Ended

=============================================================================
