-------------------------- MODULE RetrievalStores --------------------------
(* The two stores that retrieval asks: the graph of references between      *)
(* documents (rag/graphmind/reference_graph.py) and the vectors of their    *)
(* chunks (rag/components/vector_store.py).                                 *)
(*                                                                          *)
(* The graph exists twice in the code.  The store in memory keeps documents *)
(* and chunks and resolves a reference, which is the name of a document,    *)
(* when it is asked.  The store in Neo4j keeps an edge for each reference,  *)
(* resolved when a version is written, from either side.  The services use  *)
(* the second and most tests the first.                                     *)
(*                                                                          *)
(* Chunks and documents are numbers, which gives them the order of their    *)
(* identifiers.  When versions are written and removed is in Publication.   *)
EXTENDS Naturals, FiniteSets, FiniteSetsExt

CONSTANTS
    Held,        \* Held[v]: the document of version v
    Title,       \* Title[d]: the normalized name of document d
    Home,        \* Home[c]: the version of chunk c
    Refs,        \* Refs[c]: the names that chunk c refers to
    Closeness,   \* Closeness[c]: how near chunk c is to the question
    PageSize,    \* vectors read at once, 256 in the code
    MaxLimit     \* bound: most results asked for

VARIABLES
    memory,     \* the store in memory: [documents, chunks]
    nodes,      \* the nodes in Neo4j: [documents, versions, chunks]
    edges,      \* the REFERENCES in Neo4j: pairs <<chunk, document>>
    rows,       \* the chunks whose vectors are in Chroma
    older,      \* pairs of them, the one that was written earlier first
    hidden,     \* vectors that its index does not find yet
    live,       \* active versions
    search,     \* the search under way
    disturbed   \* vectors it may have found were removed meanwhile

storesVars == <<memory, nodes, edges, rows, older, hidden, live, search, disturbed>>

Versions == DOMAIN Held
Documents == DOMAIN Title
Chunks == DOMAIN Refs
Ids == [v \in Versions |-> {c \in Chunks : Home[c] = v}]
DocumentOf(c) == Held[Home[c]]
Quiet == [pc |-> "none", wanted |-> {}, limit |-> 0, offset |-> 0, hits |-> {}, paged |-> FALSE]

TypeOK ==
    /\ memory.documents \subseteq Documents /\ memory.chunks \subseteq Chunks
    /\ nodes.documents \subseteq Documents /\ nodes.versions \subseteq Versions
    /\ nodes.chunks \subseteq Chunks
    /\ edges \subseteq nodes.chunks \X nodes.documents
    /\ rows \subseteq Chunks /\ older \subseteq rows \X rows /\ hidden \subseteq Chunks
    /\ live \subseteq Versions
    /\ search.pc \in {"none", "scanning", "found"} /\ search.limit \in 0 .. MaxLimit
    /\ search.hits \subseteq Chunks /\ disturbed \in BOOLEAN

Init ==
    /\ memory = [documents |-> {}, chunks |-> {}]
    /\ nodes = [documents |-> {}, versions |-> {}, chunks |-> {}] /\ edges = {}
    /\ rows = {} /\ older = {} /\ hidden = {} /\ live = {} /\ search = Quiet /\ disturbed = FALSE

-----------------------------------------------------------------------------
MemoryUpsert(v) ==
    memory' = [documents |-> memory.documents \cup {Held[v]}, chunks |-> memory.chunks \cup Ids[v]]

MemoryDelete(d) ==
    memory' = [documents |-> memory.documents \ {d}, chunks |-> {c \in memory.chunks : DocumentOf(c) # d}]

(* The edges a version's write looks at: from its chunks, to its document.  *)
Touches(v, edge) == edge[1] \in Ids[v] \/ edge[2] = Held[v]

(* A slip a maintainer could make: only the references of the version that  *)
(* is written are resolved.                                                 *)
ResolvedFrom(v, chunks, documents) ==
    {edge \in chunks \X documents : Title[edge[2]] \in Refs[edge[1]] /\ edge[1] \in Ids[v]}

(* References of the version's chunks, and those that name its document.    *)
Resolved(v, chunks, documents) ==
    {edge \in chunks \X documents : Title[edge[2]] \in Refs[edge[1]] /\ Touches(v, edge)}

(* Nodes and edges of a version are written in one transaction.             *)
GraphUpsert(v) ==
    LET documents == nodes.documents \cup {Held[v]}
        chunks == nodes.chunks \cup Ids[v]
    IN /\ nodes' = [documents |-> documents, versions |-> nodes.versions \cup {v}, chunks |-> chunks]
       /\ edges' = {edge \in edges : ~Touches(v, edge)} \cup Resolved(v, chunks, documents)

(* The nodes of a document go with all edges at them.                       *)
GraphDelete(d) ==
    /\ nodes' = [documents |-> nodes.documents \ {d}, versions |-> {v \in nodes.versions : Held[v] # d},
                 chunks |-> {c \in nodes.chunks : DocumentOf(c) # d}]
    /\ edges' = {edge \in edges : DocumentOf(edge[1]) # d /\ edge[2] # d}

(* A vector keeps its place when it is written again; of the new ones the   *)
(* index may not find some for a while.                                     *)
VectorUpsert(v) ==
    LET new == Ids[v] \ rows
    IN /\ rows' = rows \cup new
       /\ older' = older \cup (rows \X new) \cup {pair \in new \X new : pair[1] < pair[2]}
       /\ \E late \in SUBSET new : hidden' = hidden \cup late

VectorDelete(d) ==
    /\ rows' = {c \in rows : DocumentOf(c) # d}
    /\ older' = older \cap (rows' \X rows')
    /\ hidden' = {c \in hidden : DocumentOf(c) # d}
    /\ disturbed' = (disturbed \/ \E c \in rows : DocumentOf(c) = d /\ Home[c] \in search.wanted)

Upsert(v) ==
    /\ v \notin live
    /\ MemoryUpsert(v) /\ GraphUpsert(v) /\ VectorUpsert(v)
    /\ UNCHANGED <<live, search, disturbed>>

Activate(v) ==
    /\ v \in nodes.versions /\ live' = {u \in live : Held[u] # Held[v]} \cup {v}
    /\ UNCHANGED <<memory, nodes, edges, rows, older, hidden, search, disturbed>>

Tombstone(d) ==
    /\ live' = {v \in live : Held[v] # d}
    /\ UNCHANGED <<memory, nodes, edges, rows, older, hidden, search, disturbed>>

Delete(d) ==
    /\ \A v \in live : Held[v] # d
    /\ MemoryDelete(d) /\ GraphDelete(d) /\ VectorDelete(d)
    /\ UNCHANGED <<live, search>>

Flush == hidden' = {} /\ UNCHANGED <<memory, nodes, edges, rows, older, live, search, disturbed>>

-----------------------------------------------------------------------------
(* What a sorted result keeps under a limit; its order is that of numbers.  *)
First(limit, set) == {c \in set : Cardinality({k \in set : k < c}) < limit}

(* The chunks that the names in a document, or in a chunk, lead to.         *)
MemoryExpand(seeds, limit, scope, versions) ==
    LET own == {c \in seeds \cap memory.chunks : Home[c] \in versions}
        sources == IF scope = "chunk" THEN own
                   ELSE {c \in memory.chunks : \E s \in own : Home[c] = Home[s]}
        names == UNION {Refs[c] : c \in sources}
        targets == {d \in memory.documents : Title[d] \in names}
    IN First(limit, {c \in memory.chunks : DocumentOf(c) \in targets /\ Home[c] \in versions})

GraphExpand(seeds, limit, scope, versions) ==
    LET sources == IF scope = "chunk" THEN seeds \cap nodes.chunks
                   ELSE {c \in nodes.chunks : \E s \in seeds \cap nodes.chunks : Home[c] = Home[s]}
    IN First(limit, {c \in nodes.chunks : \E edge \in edges :
           /\ edge[1] \in sources /\ Home[edge[1]] \in versions
           /\ edge[2] = DocumentOf(c) /\ Home[c] \in versions})

MemoryTargets(seeds, limit, versions) ==
    LET read == {Home[c] : c \in {s \in seeds \cap memory.chunks : Home[s] \in versions}}
        names == UNION {Refs[c] : c \in {k \in memory.chunks : Home[k] \in read}}
        present == {DocumentOf(c) : c \in {k \in memory.chunks : Home[k] \in versions}}
    IN First(limit, {d \in memory.documents \cap present : Title[d] \in names})

GraphTargets(seeds, limit, versions) ==
    LET read == {Home[c] : c \in {s \in seeds \cap nodes.chunks : Home[s] \in versions}}
    IN First(limit, {d \in nodes.documents : \E edge \in edges, v \in nodes.versions :
           /\ Home[edge[1]] \in read /\ edge[2] = d
           /\ Held[v] = d /\ v \in versions})

MemoryIds(v) == {c \in memory.chunks : Home[c] = v}

GraphIds(v) == {c \in nodes.chunks : Home[c] = v}

VectorIds(v) == {c \in rows : Home[c] = v}

-----------------------------------------------------------------------------
Eligible == {c \in rows : Home[c] \in search.wanted}

(* The nearest first, of equally near ones the greater identifier.          *)
Nearer(a, b) == Closeness[a] > Closeness[b] \/ (Closeness[a] = Closeness[b] /\ a > b)

Nearest(limit, found) == {c \in found : Cardinality({k \in found : Nearer(k, c)}) < limit}

(* The index is asked for the nearest of the active versions' vectors.  If  *)
(* it gives too few, all of them are read.                                  *)
Query(limit) ==
    /\ search.pc # "scanning"
    /\ LET hits == Nearest(limit, {c \in rows : Home[c] \in live /\ c \notin hidden})
           short == Cardinality(hits) < limit
       IN search' = [Quiet EXCEPT !.wanted = live, !.limit = limit,
                        !.pc = IF live # {} /\ short THEN "scanning" ELSE "found",
                        !.hits = IF short THEN {} ELSE hits]
    /\ disturbed' = FALSE
    /\ UNCHANGED <<memory, nodes, edges, rows, older, hidden, live>>

(* The vectors are read in the order they were written.                     *)
Place(c) == Cardinality({k \in Eligible : <<k, c>> \in older})

Page == {c \in Eligible : search.offset <= Place(c) /\ Place(c) < search.offset + PageSize}

(* A slip: a page is taken for the last when it is full.                    *)
LastPageFull(page) == Cardinality(page) <= PageSize

(* A page that is not full is the last.                                     *)
LastPage(page) == Cardinality(page) < PageSize

ScanPage ==
    /\ search.pc = "scanning"
    /\ search' = [search EXCEPT !.hits = Nearest(search.limit, @ \cup Page),
                      !.offset = @ + Cardinality(Page), !.paged = TRUE,
                      !.pc = IF LastPage(Page) THEN "found" ELSE "scanning"]
    /\ UNCHANGED <<memory, nodes, edges, rows, older, hidden, live, disturbed>>

Next ==
    \/ \E v \in Versions : Upsert(v) \/ Activate(v)
    \/ \E d \in Documents : Tombstone(d) \/ Delete(d)
    \/ Flush \/ (\E limit \in 1 .. MaxLimit : Query(limit)) \/ ScanPage

Spec == Init /\ [][Next]_storesVars

-----------------------------------------------------------------------------
(* An edge is there exactly where a stored chunk names a stored document,   *)
(* in whatever order the two were written, replaced and removed             *)
(* (reference_graph.py:195-213).                                            *)
EdgesFollowNames ==
    edges = {edge \in nodes.chunks \X nodes.documents : Title[edge[2]] \in Refs[edge[1]]}

(* The services get from Neo4j what the tests get from memory, and the      *)
(* inventories that decide on publication agree in all stores               *)
(* (reference_graph.py:69-130, 282-369; vector_store.py:185-200).           *)
StoresAnswerAlike ==
    \A seeds \in {{c} : c \in Chunks} \cup {Chunks}, limit \in {1, Cardinality(Chunks)}, versions \in {live, Versions} :
        /\ \A scope \in {"chunk", "document"} :
              GraphExpand(seeds, limit, scope, versions) = MemoryExpand(seeds, limit, scope, versions)
        /\ GraphTargets(seeds, limit, versions) = MemoryTargets(seeds, limit, versions)

InventoriesAgree == \A v \in Versions : GraphIds(v) = MemoryIds(v) /\ VectorIds(v) = MemoryIds(v)

(* A search gives as many results as were asked for or are there, and where *)
(* it read all of them the nearest; never a version it was not to see       *)
(* (vector_store.py:225-249).                                               *)
ShortSearchIsCompleted ==
    search.pc = "found" =>
        /\ \A c \in search.hits : Home[c] \in search.wanted
        /\ ~disturbed => Cardinality(search.hits) = Min({search.limit, Cardinality(Eligible)})
        /\ ~disturbed /\ search.paged => search.hits = Nearest(search.limit, Eligible)

StoresAgree == EdgesFollowNames /\ StoresAnswerAlike /\ InventoriesAgree /\ ShortSearchIsCompleted
=============================================================================
