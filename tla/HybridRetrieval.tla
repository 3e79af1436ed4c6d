-------------------------- MODULE HybridRetrieval --------------------------
(* Retrieval of the hybrid profile (rag/graphmind/hybrid.py): passages that *)
(* the words and the meaning of a question find are put in one order,       *)
(* scored, and joined by passages of the documents that the best of them    *)
(* refer to.  Sources are replaced and deleted while it runs.               *)
(*                                                                          *)
(* Rankings and scores are whatever SQLite, Chroma and the reranker return. *)
(* The passages of a version are what its index has; that the stores agree  *)
(* about them is in SelectedEngines, what each store answers in             *)
(* RetrievalStores.                                                         *)
EXTENDS Naturals, Sequences, FiniteSets, FiniteSetsExt, SequencesExt

CONSTANTS
    Units,         \* Units[u]: [doc, version, body] of passage u
    References,    \* References[d]: the documents a document refers to
    Rankings,      \* what a search may find: sequences of passages
    Scores,        \* what the reranker may say: [passages -> Nat]
    Indexings,     \* what is indexed: pairs [ready, outdated] of sets of versions
    MinRelevance,  \* the score a passage needs
    SeedLimit,     \* passages of the question itself
    MaxEvidence,   \* passages in all, at least SeedLimit
    GraphLimit,    \* documents that references may add
    PoolLimit,     \* candidates, 50 in the code
    RrfK,          \* the constant of the fusion, 60 in the code
    MaxVersion     \* bound: versions of a document

VARIABLES
    indexing,  \* the versions with an index, and those of another recipe
    active,    \* active[d]: the active version, 0 if d is deleted
    at,        \* how far the retrieval is
    heads,     \* the versions it reads: the active ones when it began
    chosen,    \* passages of the question, best first
    linked,    \* passages of the documents referred to, best first
    scores,    \* the scores that linked passages got
    evidence

hybridVars == <<indexing, active, at, heads, chosen, linked, scores, evidence>>

Docs == DOMAIN References
Doc(u) == Units[u].doc
Version(u) == <<Units[u].doc, Units[u].version>>
Key(u) == <<Version(u), Units[u].body>>
Current == {<<d, active[d]>> : d \in {e \in Docs : active[e] # 0}}

TypeOK ==
    /\ indexing \in Indexings
    /\ active \in [Docs -> 0 .. MaxVersion]
    /\ at \in {"idle", "heads", "chosen", "linked", "done", "empty", "failed"}
    /\ heads \subseteq Docs \X (1 .. MaxVersion)
    /\ \A found \in {chosen, linked, evidence} : ToSet(found) \subseteq DOMAIN Units
    /\ scores \in Scores

Init ==
    /\ indexing \in Indexings /\ active = [d \in Docs |-> 1] /\ at = "idle" /\ heads = {}
    /\ chosen = <<>> /\ linked = <<>> /\ evidence = <<>> /\ scores = CHOOSE s \in Scores : TRUE

found == <<chosen, linked, scores, evidence>>

(* A newer version is published with its index, or the document is deleted. *)
Replace(d) ==
    /\ active[d] \notin {0, MaxVersion}
    /\ \E next \in {0, active[d] + 1} : active' = [active EXCEPT ![d] = next]
    /\ UNCHANGED <<indexing, at, heads, found>>

(* The documents asked about must be there, indexed, and by this recipe.    *)
Heads(scope) ==
    {v \in Current \cap indexing.ready : scope = {} \/ v[1] \in scope}

Retrieve(scope) ==
    /\ at = "idle"
    /\ heads' = Heads(scope)
    /\ at' = IF \/ \E d \in scope : active[d] = 0
                \/ \E d \in scope : ~\E v \in Heads(scope) : v[1] = d
                \/ Heads(scope) \cap indexing.outdated # {}
                \/ Heads(scope) = {} /\ Current # {}
             THEN "failed" ELSE IF Heads(scope) = {} THEN "empty" ELSE "heads"
    /\ UNCHANGED <<indexing, active, found>>

-----------------------------------------------------------------------------
(* A passage has 1 / (RrfK + rank) of each ranking it is in, here over a    *)
(* common denominator.                                                      *)
Denominator == FoldSet(LAMBDA rank, product : (RrfK + rank) * product, 1, 1 .. PoolLimit)
Share(ranking, u) ==
    IF Contains(ranking, u) THEN Denominator \div (RrfK + SelectInSeq(ranking, LAMBDA x : x = u)) ELSE 0

(* The first of both together, of equal ones the lesser identifier.         *)
Fused(lexical, dense) ==
    LET all == {u \in DOMAIN Units : Contains(lexical, u) \/ Contains(dense, u)}
        Weight(u) == Share(lexical, u) + Share(dense, u)
        Heavier(a, b) == Weight(a) > Weight(b) \/ (Weight(a) = Weight(b) /\ a < b)
    IN {u \in all : Cardinality({k \in all : Heavier(k, u)}) < PoolLimit}

Within(ranking, versions) ==
    LET own == SelectSeq(ranking, LAMBDA u : Version(u) \in versions)
    IN SubSeq(own, 1, Min({PoolLimit, Len(own)}))

(* The words are looked up in active versions only.                         *)
Found(versions, lexical, dense) == Fused(Within(lexical, versions \cap Current), Within(dense, versions))

Better(score, a, b) == score[a] > score[b] \/ (score[a] = score[b] /\ a < b)

(* Best first: the n-th is the one that n - 1 are better than.              *)
ByScore(pool, score) ==
    [n \in 1 .. Cardinality(pool) |->
        CHOOSE u \in pool : Cardinality({k \in pool : Better(score, k, u)}) = n - 1]

Fail == at' = "failed" /\ UNCHANGED <<indexing, active, heads, found>>

(* Every candidate must be of a version that is still active.               *)
AreCurrent(passages) == \A u \in passages : Version(u) \in Current

(* The passages taken so far from a document; at most so many, each once.   *)
Of(taken, d) == Cardinality({n \in DOMAIN taken : Doc(taken[n]) = d})
Keys(taken) == {Key(taken[n]) : n \in DOMAIN taken}

(* A list with the word whether each of it scored enough.                   *)
Judged(list, score) == [n \in DOMAIN list |-> <<list[n], score[list[n]] >= MinRelevance>>]

Another(taken, item, perDocument, limit) ==
    IF /\ Len(taken) < limit /\ Key(item[1]) \notin Keys(taken)
       /\ item[2] /\ Of(taken, Doc(item[1])) < perDocument
    THEN Append(taken, item[1]) ELSE taken

Take(items, perDocument, limit) ==
    FoldLeft(LAMBDA taken, item : Another(taken, item, perDocument, limit), <<>>, items)

(* Two candidates at most of a document answer the question itself.         *)
Seed ==
    /\ at = "heads"
    /\ \E lexical, dense \in Rankings, score \in Scores :
          LET pool == Found(heads, lexical, dense) IN
          IF ~AreCurrent(pool) THEN Fail
          ELSE /\ chosen' = Take(Judged(ByScore(pool, score), score), 2, SeedLimit)
               /\ at' = IF chosen' = <<>> THEN "empty" ELSE "chosen"
               /\ UNCHANGED <<indexing, active, heads, linked, scores, evidence>>

(* The documents that chosen passages' documents refer to, as far as they   *)
(* are read.                                                                *)
Targets ==
    LET all == {d \in UNION {References[Doc(u)] : u \in ToSet(chosen)} : \E v \in heads : v[1] = d}
    IN {d \in all : Cardinality({e \in all : e < d}) < GraphLimit}
TargetHeads == {v \in heads : v[1] \in Targets}

Link ==
    /\ at = "chosen"
    /\ \E lexical, dense \in Rankings, score \in Scores :
          LET pool == Found(TargetHeads, lexical, dense) IN
          IF ~(TargetHeads \subseteq Current) THEN Fail
          ELSE /\ linked' = ByScore(pool, score) /\ scores' = score
               /\ at' = "linked"
               /\ UNCHANGED <<indexing, active, heads, chosen, evidence>>

(* A slip a maintainer could make: first all of one list, then the other.   *)
MergedInTurn(own, more) == own \o more

(* The two lists in turn, as their scores do not compare, and the rest of   *)
(* the longer one.                                                          *)
Merged(own, more) ==
    LET both == Min({Len(own), Len(more)})
    IN [n \in 1 .. Len(own) + Len(more) |->
           IF n > 2 * both THEN IF Len(own) > both THEN own[n - both] ELSE more[n - both]
           ELSE IF n % 2 = 1 THEN own[(n + 1) \div 2] ELSE more[n \div 2]]

(* All that was chosen scored enough; of the other list that is asked here. *)
(* No more than three passages of a document.                               *)
Collect ==
    LET own == [n \in DOMAIN chosen |-> <<chosen[n], TRUE>>]
    IN Take(Merged(own, Judged(linked, scores)), 3, MaxEvidence)

Assemble ==
    /\ at = "linked"
    /\ IF AreCurrent(ToSet(Collect))
       THEN evidence' = Collect /\ at' = "done" /\ UNCHANGED <<indexing, active, heads, chosen, linked, scores>>
       ELSE Fail

Next ==
    \/ \E d \in Docs : Replace(d)
    \/ \E scope \in SUBSET Docs : Retrieve(scope)
    \/ Seed \/ Link \/ Assemble

Spec == Init /\ [][Next]_hybridVars

-----------------------------------------------------------------------------
(* If there is room for two passages, the best of the question's own and    *)
(* the best that the references led to are both among the evidence, or the  *)
(* same text is (hybrid.py:251-253).                                        *)
OriginAndTargetKeepRoom ==
    at = "done" /\ MaxEvidence > 1 =>
        /\ Contains(evidence, chosen[1])
        /\ linked # <<>> /\ scores[linked[1]] >= MinRelevance => Key(linked[1]) \in Keys(evidence)

(* A document gives at most three passages, all of one version and no text  *)
(* twice, though it is replaced between the reads (hybrid.py:209-268).      *)
EvidenceIsOneReading ==
    at = "done" =>
        /\ Len(evidence) <= MaxEvidence
        /\ \A d \in Docs : Of(evidence, d) <= 3
        /\ \A m, n \in DOMAIN evidence :
              m # n => /\ Key(evidence[m]) # Key(evidence[n])
                       /\ Doc(evidence[m]) = Doc(evidence[n]) => Version(evidence[m]) = Version(evidence[n])

EvidenceKeepsRoom == OriginAndTargetKeepRoom /\ EvidenceIsOneReading
=============================================================================
