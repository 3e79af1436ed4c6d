------------------------------ MODULE Inference ------------------------------
(* Work that the processes of one host hand to models: answers from the      *)
(* provider (providers.py), vectors from the embedding runtime               *)
(* (rag/components/embeddings.py, vector_store.py) and scores from a worker   *)
(* of this package (rag/components/local_inference.py, model_worker.py).     *)
(* Where model admission is on, what runs on the host itself is admitted by  *)
(* one file lock, which is not waited for.                                   *)
(*                                                                           *)
(* A digest of the embedding model is a number, 0 if it is not installed.    *)
(* The operator may move the runtime's tag at any time, also back to a       *)
(* digest that it had before.                                                *)
EXTENDS Naturals, Sequences, FiniteSets, FiniteSetsExt, SequencesExt

CONSTANTS
    Callers,       \* processes, each with one call at a time
    Nobody,
    Evidence,      \* sequences of passages [id, size, image] that are retrieved
    ContextChars,  \* max_context_chars
    MaxImages,     \* images an answer may show
    HasKey,        \* a credential for a hosted provider is configured
    MaxRetries,    \* max_retries of the provider
    Batches,       \* batches of one embedding call
    MaxPairs,      \* pairs a reranker takes at once
    Directories,   \* what a local model's directory may hold: [listed, present]
    MaxTag,        \* bound: the last digest
    MaxOrphans     \* bound on model workers whose process was killed

VARIABLES
    admission,   \* use_model_admission: a hybrid profile or another engine is on
    loopback,    \* the embedding runtime is on this host
    tag,         \* the digest the runtime's tag names
    holder,      \* the process that has the lock
    collection,  \* the digest the vector collection was made for, 0 if it is not there
    vectors,     \* the vectors in it: [of, returned]
    identity,    \* identity[c]: the digest c resolved first, 0 before
    opened,      \* processes that have opened the collection
    call,        \* call[c]
    got,         \* got[c]: the digest that made the batch c has, and has not kept yet
    moved,       \* moved[c]: how often the tag moved since c looked at it, two for more
    orphans      \* model workers that outlived their process

inferenceVars == <<admission, loopback, tag, holder, collection, vectors, identity, opened, call, got, moved, orphans>>

Idle == [op |-> "none", pc |-> "idle", local |-> TRUE, attempt |-> 0, batch |-> 0,
         made |-> <<>>, given |-> <<>>, cited |-> <<>>]
Embedding == {"index", "search"}
Waits == {"resolve", "open", "lock", "request", "pause", "recheck", "store"}

(* A vector is of the model that made it; returned, if the tag moved and was *)
(* back between the two looks at it before and after.                        *)
Vector == [of : 0 .. MaxTag, returned : BOOLEAN]

TypeOK ==
    /\ admission \in BOOLEAN /\ loopback \in BOOLEAN /\ orphans \in 0 .. MaxOrphans
    /\ tag \in 0 .. MaxTag /\ collection \in 0 .. MaxTag /\ vectors \subseteq Vector
    /\ got \in [Callers -> 0 .. MaxTag] /\ moved \in [Callers -> 0 .. 2]
    /\ holder \in Callers \cup {Nobody} /\ opened \subseteq Callers
    /\ identity \in [Callers -> 0 .. MaxTag]
    /\ \A c \in Callers :
          /\ call[c].op \in {"none", "answer", "index", "search", "rerank"}
          /\ call[c].pc \in {"idle", "done", "failed"} \cup Waits
          /\ call[c].attempt \in 0 .. MaxRetries
          /\ call[c].batch \in 0 .. Batches
          /\ Len(call[c].made) <= call[c].batch

Init ==
    /\ admission \in BOOLEAN /\ loopback \in BOOLEAN
    /\ tag \in {0, 1} /\ holder = Nobody /\ collection = 0 /\ vectors = {}
    /\ identity = [c \in Callers |-> 0] /\ opened = {}
    /\ call = [c \in Callers |-> Idle]
    /\ got = [c \in Callers |-> 0] /\ moved = [c \in Callers |-> 0] /\ orphans = 0

At(c, pc) == call[c].pc = pc
Goto(c, pc) == call' = [call EXCEPT ![c].pc = pc]
Fail(c) == Goto(c, "failed")
Release(c) == holder' = IF holder = c THEN Nobody ELSE holder
settings == <<admission, loopback>>
stored == <<collection, vectors, opened>>
looks == <<got, moved>>
BetweenLooks(c) == call[c].op \in Embedding /\ call[c].pc \in {"lock", "request", "recheck"}
Forget(c) == got' = [got EXCEPT ![c] = 0] /\ moved' = [moved EXCEPT ![c] = 0]

Retag ==
    /\ tag' \in 0 .. MaxTag \ {tag}
    /\ moved' = [c \in Callers |-> IF ~BetweenLooks(c) THEN 0 ELSE IF moved[c] = 0 THEN 1 ELSE 2]
    /\ UNCHANGED <<settings, holder, stored, identity, call, got, orphans>>

(* A process dies and starts again: the lock is the operating system's to    *)
(* release.  A model worker of its own dies with it, or runs on.             *)
Restart(c) ==
    /\ \/ UNCHANGED orphans
       \/ call[c].op = "rerank" /\ At(c, "request") /\ orphans < MaxOrphans /\ orphans' = orphans + 1
    /\ call' = [call EXCEPT ![c] = Idle] /\ identity' = [identity EXCEPT ![c] = 0]
    /\ opened' = opened \ {c} /\ Release(c) /\ Forget(c)
    /\ UNCHANGED <<settings, tag, collection, vectors>>

OrphanEnds ==
    /\ orphans > 0 /\ orphans' = orphans - 1
    /\ UNCHANGED <<settings, tag, holder, stored, identity, call, looks>>

Return(c) ==
    /\ call[c].pc \in {"done", "failed"}
    /\ call' = [call EXCEPT ![c] = Idle] /\ Forget(c)
    /\ UNCHANGED <<settings, tag, holder, stored, identity, orphans>>

(* Only with admission does a call of this host have the lock to take.       *)
Entrance(local) == IF admission /\ local THEN "lock" ELSE "request"

-----------------------------------------------------------------------------
(* The passages of a prompt: as many as fit, the last one cut, none empty.   *)
Fill(state, item) ==
    LET part == Min({item.size, state.left})
    IN IF part = 0 THEN state
       ELSE [left |-> state.left - part, shown |-> Append(state.shown, item)]

Payload(evidence) == FoldLeft(Fill, [left |-> ContextChars, shown |-> <<>>], evidence).shown

Images(shown) == {n \in DOMAIN shown : shown[n].image}

(* Images are for a model on this host that says it can see.                 *)
ImagesAllowed(shown, local) ==
    Images(shown) # {} => local /\ Cardinality(Images(shown)) <= MaxImages

Ask(c) ==
    /\ At(c, "idle")
    /\ \E e \in Evidence, local \in BOOLEAN, sees \in BOOLEAN :
          LET shown == Payload(e)
              admitted == /\ local \/ HasKey
                          /\ shown # <<>>
                          /\ ImagesAllowed(shown, local)
                          /\ Images(shown) # {} => sees
          IN call' = [call EXCEPT ![c] = [Idle EXCEPT !.op = "answer", !.local = local, !.given = e,
                         !.pc = IF admitted THEN Entrance(local) ELSE "failed"]]
    /\ UNCHANGED <<settings, tag, holder, stored, identity, looks, orphans>>

Transient == {"429", "5xx", "timeout", "unavailable", "not JSON"}
Final == {"401", "404", "other 4xx"}

(* The model names passages by the aliases of its prompt, or others.         *)
Replies(shown) ==
    [outcome : {"answer", "insufficient_evidence", "error"},
     aliases : {<<>>} \cup {<<m>> : m \in 1 .. Len(shown) + 1} \cup {<<1, n>> : n \in 1 .. Len(shown)}]

WellFormed(reply) ==
    /\ reply.outcome # "error"
    /\ reply.outcome = "insufficient_evidence" => reply.aliases = <<>>

Acceptable(reply, shown) ==
    /\ WellFormed(reply)
    /\ reply.outcome = "answer" =>
          reply.aliases # <<>> /\ ToSet(reply.aliases) \subseteq DOMAIN shown /\ IsInjective(reply.aliases)

(* A slip a maintainer could make: the aliases counted over all that was     *)
(* retrieved, not over what is in the prompt.                                *)
PassageRetrieved(c, alias) == call[c].given[alias].id

(* The passage that an alias stands for.                                     *)
Passage(c, alias) == Payload(call[c].given)[alias].id

Receive(c, reply) ==
    call' = [call EXCEPT ![c] =
        IF Acceptable(reply, Payload(@.given))
        THEN [@ EXCEPT !.pc = "done", !.cited = [n \in DOMAIN reply.aliases |-> Passage(c, reply.aliases[n])]]
        ELSE [@ EXCEPT !.pc = "failed"]]

(* A slip: the lock is given back while a retry is waited for.               *)
RetryReleased(c) ==
    /\ call' = [call EXCEPT ![c].pc = "pause", ![c].attempt = @ + 1] /\ Release(c)

(* Only what may pass is tried again, and the lock is kept meanwhile.        *)
Retry(c) ==
    /\ call' = [call EXCEPT ![c].pc = "pause", ![c].attempt = @ + 1] /\ UNCHANGED holder

Respond(c) ==
    /\ call[c].op = "answer" /\ At(c, "request")
    /\ \E status \in {"ok"} \cup Transient \cup Final :
          \/ status = "ok" /\ (\E reply \in Replies(Payload(call[c].given)) : Receive(c, reply)) /\ Release(c)
          \/ status \in Transient /\ call[c].attempt < MaxRetries /\ Retry(c)
          \/ status \in Transient /\ call[c].attempt = MaxRetries /\ Fail(c) /\ Release(c)
          \/ status \in Final /\ Fail(c) /\ Release(c)
    /\ UNCHANGED <<settings, tag, stored, identity, looks, orphans>>

Again(c) ==
    /\ At(c, "pause") /\ Goto(c, "request")
    /\ UNCHANGED <<settings, tag, holder, stored, identity, looks, orphans>>

-----------------------------------------------------------------------------
(* The lock of the host; who does not get it at once is told to retry.       *)
TakeLock(c) ==
    /\ At(c, "lock")
    /\ IF holder = Nobody THEN holder' = c /\ Goto(c, "request") ELSE Fail(c) /\ UNCHANGED holder
    /\ UNCHANGED <<settings, tag, stored, identity, looks, orphans>>

(* Every artifact listed and nothing else, with the listed bytes, weights    *)
(* among them and no code.                                                   *)
ModelVerified(model) ==
    /\ model.present = model.listed
    /\ "weights" \in DOMAIN model.listed
    /\ "code" \notin DOMAIN model.listed

(* Nothing to rank needs no model; too much is refused.  Profiles without    *)
(* admission rank nothing.                                                   *)
Rank(c) ==
    /\ At(c, "idle") /\ admission
    /\ \E pairs \in 0 .. MaxPairs + 1 :
          call' = [call EXCEPT ![c] = [Idle EXCEPT !.op = "rerank",
                      !.pc = IF pairs = 0 THEN "done" ELSE IF pairs > MaxPairs THEN "failed" ELSE "lock"]]
    /\ UNCHANGED <<settings, tag, holder, stored, identity, looks, orphans>>

(* The worker loads the model anew, and its scores are one for each pair.    *)
Work(c) ==
    /\ call[c].op = "rerank" /\ At(c, "request")
    /\ \E model \in Directories, result \in {"scores", "other scores", "error", "timeout"} :
          Goto(c, IF ModelVerified(model) /\ result = "scores" THEN "done" ELSE "failed")
    /\ Release(c)
    /\ UNCHANGED <<settings, tag, stored, identity, looks, orphans>>

-----------------------------------------------------------------------------
(* Passages are embedded in batches and stored, or a question to be compared.*)
Embed(c) ==
    /\ At(c, "idle")
    /\ \E op \in Embedding :
          call' = [call EXCEPT ![c] = [Idle EXCEPT !.op = op, !.local = loopback,
                      !.batch = IF c \in opened THEN 1 ELSE 0, !.pc = "resolve"]]
    /\ UNCHANGED <<settings, tag, holder, stored, identity, looks, orphans>>

(* The tag's digest is looked up, if the runtime answers; it must be the one *)
(* this process knows.                                                       *)
Known(c) == tag # 0 /\ identity[c] \in {0, tag}

Validate(c, next) ==
    \/ /\ Known(c) /\ identity' = [identity EXCEPT ![c] = tag] /\ moved' = [moved EXCEPT ![c] = 0]
       /\ call' = [call EXCEPT ![c] = next]
    \/ Fail(c) /\ UNCHANGED <<identity, moved>>

Resolve(c) ==
    /\ At(c, "resolve")
    /\ Validate(c, [call[c] EXCEPT !.pc = IF call[c].batch = 0 THEN "open" ELSE Entrance(call[c].local)])
    /\ UNCHANGED <<settings, tag, holder, stored, got, orphans>>

(* The collection names the model of its vectors; who creates it first.      *)
Open(c) ==
    /\ At(c, "open")
    /\ \/ /\ collection \in {0, identity[c]}
          /\ collection' = identity[c] /\ opened' = opened \cup {c}
          /\ call' = [call EXCEPT ![c].pc = "resolve", ![c].batch = 1]
       \/ Fail(c) /\ UNCHANGED <<collection, opened>>
    /\ UNCHANGED <<settings, tag, holder, vectors, identity, looks, orphans>>

(* The vectors are whatever model's the tag named then; a wrong number of    *)
(* them, or of their dimensions, is refused.                                 *)
Vectors(c) ==
    /\ call[c].op \in Embedding /\ At(c, "request")
    /\ \E result \in {"vectors", "other vectors", "error", "timeout"} :
          IF result = "vectors" /\ tag # 0
          THEN Goto(c, "recheck") /\ got' = [got EXCEPT ![c] = tag]
          ELSE Fail(c) /\ UNCHANGED got
    /\ Release(c)
    /\ UNCHANGED <<settings, tag, stored, identity, moved, orphans>>

LastBatch(c) == call[c].op = "search" \/ call[c].batch = Batches
Batch(c) == [of |-> got[c], returned |-> moved[c] = 2]
Kept(c) == [call[c] EXCEPT !.pc = IF LastBatch(c) THEN "store" ELSE "resolve",
                           !.batch = IF LastBatch(c) THEN @ ELSE @ + 1,
                           !.made = Append(@, Batch(c))]

(* A slip: the vectors are kept without another look at the tag.             *)
RecheckNot(c) ==
    /\ At(c, "recheck") /\ call' = [call EXCEPT ![c] = Kept(c)]
    /\ UNCHANGED <<settings, tag, holder, stored, identity, looks, orphans>>

(* Another look at the tag, before the batch is kept.                        *)
Recheck(c) ==
    /\ At(c, "recheck")
    /\ Validate(c, Kept(c))
    /\ UNCHANGED <<settings, tag, holder, stored, got, orphans>>

Store(c) ==
    /\ At(c, "store")
    /\ \/ /\ Goto(c, "done")
          /\ vectors' = IF call[c].op = "index" THEN vectors \cup ToSet(call[c].made) ELSE vectors
       \/ Fail(c) /\ UNCHANGED vectors
    /\ UNCHANGED <<settings, tag, holder, collection, opened, identity, looks, orphans>>

Next ==
    \/ Retag \/ OrphanEnds
    \/ \E c \in Callers :
          \/ Restart(c) \/ Return(c)
          \/ Ask(c) \/ Respond(c) \/ Again(c)
          \/ TakeLock(c) \/ Rank(c) \/ Work(c)
          \/ Embed(c) \/ Resolve(c) \/ Open(c) \/ Vectors(c) \/ Recheck(c) \/ Store(c)

Spec == Init /\ [][Next]_inferenceVars

-----------------------------------------------------------------------------
(* With admission, at most one call of the host is at a model, waits for a   *)
(* retry included, and the lock is never left behind; a worker whose process *)
(* was killed may still run beside it (local_inference.py:61,                *)
(* providers.py:183-184, embeddings.py:236).                                 *)
OnHost(c) == call[c].pc \in {"request", "pause"} /\ call[c].local
InferenceIsExclusive == \A c \in Callers : admission /\ OnHost(c) <=> holder = c

(* Every vector of the collection, and every question compared with them, is *)
(* of the model the collection names, though the tag moves and processes     *)
(* restart between any two steps; except where the tag left and was back     *)
(* between the two looks at it around one request, which no look can tell    *)
(* (embeddings.py:133-184, 234, 256; vector_store.py:97-135).                *)
IsOf(v, digest) == v.returned \/ v.of = digest
CollectionHoldsOneModel ==
    /\ \A v \in vectors : IsOf(v, collection)
    /\ \A c \in Callers : call[c].op = "search" /\ At(c, "done") =>
           call[c].made # <<>> /\ \A v \in ToSet(call[c].made) : IsOf(v, collection)

(* With admission one call at a time is at the host's models, and all       *)
(* vectors of the collection are of one model (local_inference.py:61,       *)
(* embeddings.py:256).                                                      *)
ModelsAreShared == InferenceIsExclusive /\ CollectionHoldsOneModel

(* What an answer cites had text in the prompt: it came before the budget    *)
(* was used up and was not empty (providers.py:278-283).                     *)
Before(evidence, n) == FoldLeft(LAMBDA sum, item : sum + item.size, 0, SubSeq(evidence, 1, n - 1))
AnswersCiteWhatWasShown ==
    \A c \in Callers : \A id \in ToSet(call[c].cited) :
        \E n \in DOMAIN call[c].given :
            /\ call[c].given[n].id = id
            /\ call[c].given[n].size > 0 /\ Before(call[c].given, n) < ContextChars
=============================================================================
