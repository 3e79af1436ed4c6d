------------------------------ MODULE MCParts ------------------------------
(* The parts of HostParts, each explored by itself.                         *)
EXTENDS HostParts

VARIABLE side  \* which of them moves

native == <<kind, prepared, locked, approved, extra, ready, claimed, installed, registered, run, pinned, receipts,
            halfDone, edits>>
probe == <<up, task, green, threads, answers, asked, caller, seen>>
text == <<file, size, at, segments, start, chunks, outcome>>
staging == <<process, elapsed, staged, age, result>>
navigation == <<outline, tree, frontier, selected, steps, turn, current, cancelled>>
sight == <<sheets, best, files, nearest, drawing, valid, withdrawn>>
stores == <<memory, nodes, edges, rows, older, hidden, live, search, disturbed>>
hybrid == <<indexing, active, step, heads, chosen, linked, scores, evidence>>
migration == <<database, rowsBefore, working, lock, starting>>
views == <<media, configured, foreign, document, index, headed, view, ever, always, gone, changes>>
models == inferenceVars

A(set) == CHOOSE x \in set : TRUE

(* The processes either answer and rank; or a worker indexes and searches,  *)
(* and a server searches, while the tag moves.  To an embedding call, no    *)
(* admission and a runtime elsewhere are the same, and so are a model that  *)
(* is removed later and a runtime that fails, which it may at each request. *)
(* Calls that ended return at once: this changes nothing for anyone else.   *)
(* The digests being alike, the collection is made for the first.           *)
Only(ops) == \A c \in Callers : call[c].op \in ops \cup {"none"}
Embeds ==
    /\ Next /\ Only(Embedding)' /\ call'[2].op # "index"
    /\ tag # 0 => tag' # 0
    /\ collection' \in {0, 1}
    /\ \A c \in Callers : call[c].pc \in {"done", "failed"} => call'[c].pc = "idle"

MCInit ==
    /\ side \in {"native", "probe", "text", "staging", "tree", "sight", "stores", "hybrid", "migration", "views", "answers", "embeddings"}
    /\ (IF side = "native" THEN TRUE ELSE kind = A(Native!Kinds) /\ ready = TRUE) /\ Native!Init
    /\ (IF side = "probe" THEN TRUE ELSE up = {}) /\ Probe!Init
    /\ (IF side = "text" THEN TRUE ELSE file = A(Files) /\ size = A(Sizes)) /\ Text!Init
    /\ Staging!Init
    /\ (IF side = "tree" THEN TRUE ELSE outline = A(Outlines)) /\ Tree!Init
    /\ (IF side = "sight" THEN TRUE ELSE sheets = A(DrawnPages) /\ best = {1}) /\ Sight!Init
    /\ Stores!Init
    /\ (IF side = "hybrid" THEN TRUE ELSE indexing = A(Indexings)) /\ Hybrid!Init
    /\ (IF side = "migration" THEN TRUE ELSE rowsBefore = {} /\ database = Migration!Empty) /\ Migration!Init
    /\ (IF side = "views" THEN TRUE
        ELSE media = "pdf" /\ document = 0 /\ configured = Views!Catalogued /\ foreign = {}) /\ Views!Init
    /\ admission \in (IF side \in {"answers", "embeddings"} THEN BOOLEAN ELSE {FALSE})
    /\ loopback = (admission /\ side = "embeddings")
    /\ (IF side = "embeddings" THEN TRUE ELSE tag = 0) /\ Init

MCNext ==
    \/ side = "native" /\ Native!Next /\ UNCHANGED <<side, probe, text, staging, navigation, sight, stores, hybrid, migration, views, models>>
    \/ side = "probe" /\ Probe!Next /\ UNCHANGED <<side, native, text, staging, navigation, sight, stores, hybrid, migration, views, models>>
    \/ side = "text" /\ Text!Next /\ UNCHANGED <<side, native, probe, staging, navigation, sight, stores, hybrid, migration, views, models>>
    \/ side = "staging" /\ Staging!Next /\ UNCHANGED <<side, native, probe, text, navigation, sight, stores, hybrid, migration, views, models>>
    \/ side = "tree" /\ Tree!Next /\ UNCHANGED <<side, native, probe, text, staging, sight, stores, hybrid, migration, views, models>>
    \/ side = "sight" /\ Sight!Next /\ UNCHANGED <<side, native, probe, text, staging, navigation, stores, hybrid, migration, views, models>>
    \/ side = "stores" /\ Stores!Next /\ UNCHANGED <<side, native, probe, text, staging, navigation, sight, hybrid, migration, views, models>>
    \/ side = "hybrid" /\ Hybrid!Next /\ UNCHANGED <<side, native, probe, text, staging, navigation, sight, stores, migration, views, models>>
    \/ side = "migration" /\ Migration!Next /\ UNCHANGED <<side, native, probe, text, staging, navigation, sight, stores, hybrid, views, models>>
    \/ side = "views" /\ Views!Next /\ UNCHANGED <<side, native, probe, text, staging, navigation, sight, stores, hybrid, migration, models>>
    \/ side = "answers" /\ Next /\ tag' = tag /\ Only({"answer", "rerank"})' /\ UNCHANGED <<side, native, probe, text, staging, navigation, sight, stores, hybrid, migration, views>>
    \/ side = "embeddings" /\ Embeds /\ UNCHANGED <<side, native, probe, text, staging, navigation, sight, stores, hybrid, migration, views>>

MCSpec == MCInit /\ [][MCNext]_<<side, native, probe, text, staging, navigation, sight, stores, hybrid, migration, views, models>>
-----------------------------------------------------------------------------
(* The instances' values.  Of the files: all Markdown files of up to four   *)
(* kinds of line, tables and paragraphs with gaps, all texts of up to five  *)
(* characters, PDFs of two pages.                                           *)
PartNames == <<"first", "second">>
EngineNames == <<"first", "second">>
ModelNames == <<"model">>

Strings(characters, n) == UNION {[1 .. k -> characters] : k \in 0 .. n}
Characters == {"a", "b", "space", "newline"}
Filed(suffix, flaws, contents) == {[suffix |-> suffix, flaw |-> f, units |-> u] : f \in flaws, u \in contents}
Trimmed == {t \in Strings(Characters, 5) : t # <<>> => {t[1], t[Len(t)]} \subseteq {"a", "b"}}
LineKinds == {"text", "heading", "barred heading", "bar", "blank", "backticks", "tildes"}
SomeFiles ==
    Filed("md", {"none"}, Strings(LineKinds, 4)) \cup Filed("md", {"encoding"}, {<<"text">>})
    \cup Filed("csv", {"none", "encoding", "header"}, Strings({"row", "blank", "ragged"}, 3))
    \cup Filed("docx", {"none", "entries", "path", "xml", "encrypted"}, Strings({"row", "blank"}, 3))
    \cup Filed("txt", {"none"}, {<<t>> : t \in Strings(Characters, 5)}) \cup Filed("txt", {"encoding"}, {<<<<"a">>>>})
    \cup Filed("pdf", {"encrypted", "structure"}, {<<<<"a">>>>}) \cup Filed("pdf", {"none"}, {<<>>})
    \cup Filed("pdf", {"none"}, {<<p, q>> : p \in Trimmed, q \in {<<>>, <<"a">>, <<"b", "newline", "a">>}})
    \cup Filed("pdf", {"none"}, {[n \in 1 .. 4 |-> <<"a">>]})
SomeSizes == {<<2, 0>>, <<3, 1>>, <<4, 3>>}

Shown(id, n, image) == [id |-> id, size |-> n, image |-> image]
SomeEvidence ==
    {<<>>, <<Shown("x", 0, FALSE), Shown("y", 2, FALSE), Shown("z", 2, TRUE)>>,
     <<Shown("x", 3, FALSE), Shown("y", 1, TRUE)>>}
Listing == [weights |-> 1, settings |-> 1]
SomeDirectories == {[listed |-> Listing, present |-> Listing],
                    [listed |-> Listing, present |-> [Listing EXCEPT !.weights = 2]]}

Entry(id, from, to, parent) == [id |-> id, from |-> from, to |-> to, parent |-> parent]
PageTexts == <<1, 0, 2, 1, 1, 1, 1>>
SomeOutlines ==
    {<<>>, <<Entry("a", 1, 7, 0)>>, <<Entry("a", 3, 8, 0)>>, <<Entry("a", 3, 9, 0)>>,
     <<Entry("a", 1, 1, 0), Entry("b", 2, 2, 0)>>, <<Entry("a", 1, 7, 0), Entry("b", 1, 7, 0)>>,
     <<Entry("a", 1, 7, 0), Entry("a", 1, 1, 0)>>,
     <<Entry("a", 1, 2, 0), Entry("b", 3, 3, 0), Entry("c", 4, 6, 0), Entry("d", 4, 5, 3), Entry("e", 6, 6, 3)>>,
     <<Entry("a", 2, 2, 0), Entry("b", 1, 3, 0), Entry("c", 4, 4, 0), Entry("d", 5, 5, 0), Entry("e", 6, 6, 0)>>,
     [n \in 1 .. 6 |-> Entry(<<"a", "b", "c", "d", "e", "f">>[n], n, n, 0)]}

(* Two versions of the first document and one of the second; they refer to  *)
(* each other, and the second version of the first to itself.               *)
DocumentOfVersion == <<1, 1, 2>>
Titles == <<"a", "b">>
VersionOfChunk == <<1, 1, 2, 3>>
NamesInChunk == <<{"b"}, {}, {"a"}, {"a", "b"}>>
ScoreOfChunk == <<3, 1, 2, 2>>

Unit(d, v, body) == [doc |-> d, version |-> v, body |-> body]
SomeUnits == <<Unit(1, 1, "a"), Unit(1, 1, "b"), Unit(1, 1, "a"), Unit(2, 1, "a"), Unit(2, 1, "c"),
               Unit(1, 2, "b"), Unit(2, 1, "d"), Unit(2, 1, "e")>>
DocumentsReferredTo == <<{1, 2}, {}>>
SomeRankings == {<<>>, <<1, 2, 4, 5>>, <<7, 8, 5>>, <<6, 2, 3, 1>>}
SomeScores == {[u \in 1 .. 8 |-> 1], [u \in 1 .. 8 |-> u % 3], [u \in 1 .. 8 |-> 8 - u]}
All == {<<1, 1>>, <<1, 2>>, <<2, 1>>}
SomeIndexings == {[ready |-> All, outdated |-> {}], [ready |-> {<<2, 1>>}, outdated |-> {}],
                  [ready |-> All, outdated |-> {<<2, 1>>}]}

(* An active version, one before it, one of a deleted source and one whose  *)
(* chunks do not match; the second release knows one migration more.        *)
Row(source, isActive, deleted, whole) ==
    [source |-> source, active |-> isActive, deleted |-> deleted, whole |-> whole]
RowsBefore == {{}, {Row("a", FALSE, FALSE, TRUE), Row("a", TRUE, FALSE, TRUE), Row("b", FALSE, TRUE, TRUE),
                    Row("c", TRUE, FALSE, FALSE)}}
SchemaOfRelease == <<3, 4>>

(* A document is absent, published while its second index is built, or has  *)
(* two versions that are ready for both engines.                            *)
EnginePair == <<"graphmind", "multimodal">>
Setting(kindOfFile, enabled, otherRecipe) ==
    [media |-> kindOfFile, configured |-> enabled, foreign |-> otherRecipe]
SomeSettings ==
    {Setting("pdf", {"graphmind", "multimodal"}, {}), Setting("pdf", {"graphmind"}, {"graphmind"}),
     Setting("text", {"graphmind", "multimodal"}, {"multimodal"})}
Stand(version, general, visual) ==
    [document |-> version, index |-> [graphmind |-> general, multimodal |-> visual]]
SomeBeginnings ==
    {Stand(0, <<"none", "none">>, <<"none", "none">>),
     Stand(1, <<"ready", "building">>, <<"building", "none">>),
     Stand(1, <<"ready", "ready">>, <<"ready", "ready">>)}
SomeSections == {<<>>, <<2>>, <<1, 2>>, <<3, 1, 1>>}
=============================================================================
