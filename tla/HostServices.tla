---------------------------- MODULE HostServices ----------------------------
(* What a host runs and finds things with, part next to part: models and    *)
(* their lock, stores and retrieval, the way to a page by an outline,       *)
(* readiness probes, native installation and schema migration; and what     *)
(* each of them owes the others.                                            *)
EXTENDS Inference

CONSTANTS
    Installers, Parts, MaxEdits, Engines, Needed, Identity,
    Held, Title, Home, Refs, Closeness, PageSize, MaxLimit,
    Units, References, Rankings, Scores, Indexings, MinRelevance, SeedLimit, MaxEvidence, GraphLimit,
    PoolLimit, RrfK, MaxVersion, Starters, Supported, Legacy,
    Outlines, Texts, Fanout, MaxNodes, MaxPdfPages, MaxSteps, MaxChoices, MaxPages

VARIABLES
    kind, prepared, locked, approved, extra, ready, claimed, installed, registered, run, pinned, receipts,
    halfDone, edits,
    up, task, green, threads, answers, asked, caller, seen,
    memory, nodes, edges, rows, older, hidden, live, search, disturbed,
    indexing, active, step, heads, chosen, linked, scores, evidence,
    database, rowsBefore, working, lock, starting,
    outline, tree, frontier, selected, steps, turn, current, cancelled

Native == INSTANCE NativeInstallation WITH live <- installed
Probe == INSTANCE ReadinessProbe WITH identity <- asked, found <- answers
Stores == INSTANCE RetrievalStores
Hybrid == INSTANCE HybridRetrieval WITH at <- step
Migration == INSTANCE SchemaMigration WITH rows <- rowsBefore
Tree == INSTANCE TreeNavigation WITH at <- turn

(* Lists are lists; nobody is no process and no operator; a release knows   *)
(* migrations that there are; every version has chunks (ingestion.py:343);  *)
(* chunks, passages and documents are finitely many, in an order, and what  *)
(* is nearer or better is so by a number, which a reranker always gives; a  *)
(* page of vectors is not empty (vector_store.py:234); bounds are numbers,  *)
(* and a call for embeddings has a batch; an outline's items come after     *)
(* those they are in, and groups are of several                             *)
(* (tree_navigation/engine.py:38).                                          *)
ASSUME HostServicesAssumption ==
    /\ Nobody \notin Callers \cup Installers
    /\ Parts \in Seq(ToSet(Parts)) /\ Engines \in Seq(ToSet(Engines)) /\ Needed \in Seq(ToSet(Needed))
    /\ Starters \subseteq Nat \ {0}
    /\ Supported \in [Starters -> 0 .. Len(Migration!Scripts)]
    /\ MaxEdits \in Nat /\ MaxTag \in Nat \ {0} /\ MaxOrphans \in Nat /\ MaxRetries \in Nat /\ Batches \in Nat \ {0}
    /\ Held \in [Stores!Versions -> Stores!Documents] /\ Home \in [Stores!Chunks -> Stores!Versions]
    /\ \A v \in Stores!Versions : Stores!Ids[v] # {}
    /\ IsFiniteSet(Stores!Chunks) /\ Stores!Chunks \subseteq Nat /\ Closeness \in [Stores!Chunks -> Nat]
    /\ PageSize \in Nat \ {0} /\ MaxLimit \in Nat
    /\ IsFiniteSet(DOMAIN Units) /\ DOMAIN Units \subseteq Nat /\ Scores # {} /\ Scores \subseteq [DOMAIN Units -> Nat]
    /\ MinRelevance \in Nat /\ SeedLimit \in Nat \ {0} /\ MaxEvidence \in Nat \ {0} /\ MaxVersion \in Nat \ {0}
    /\ ContextChars \in Nat /\ \A e \in Evidence : e \in Seq([id : {x.id : x \in ToSet(e)}, size : Nat, image : BOOLEAN])
    /\ Fanout \in Nat \ {0, 1} /\ MaxSteps \in Nat /\ Texts \in Seq(Nat)
    /\ \A o \in Outlines : /\ o \in Seq([id : {o[n].id : n \in DOMAIN o}, from : Nat, to : Nat, parent : Nat])
                          /\ \A n \in DOMAIN o : o[n].parent < n

(* What a native installer reported holds nothing but reviewed parts, all   *)
(* of them, and what it left half done nothing later passes off as whole    *)
(* (windows_installation.py:100-182, ubuntu_installation.py, and            *)
(* bundle_installer.py).  Its database has a whole schema, whichever        *)
(* release's process died while it migrated, and serves what it served      *)
(* (metadata.py:211-266).                                                   *)
InstallationIsWhole ==
    Native!ReportedIsWhole /\ Native!PartialIsPreserved /\ Migration!MigrationIsWhole

(* However many callers wait, give up or come again, one probe looks at the *)
(* services; who is told that the server is ready is told by a probe that   *)
(* had not ended when it asked, within which all that is needed was up      *)
(* (product_server.py:246-260, 786-802).                                    *)
ReadinessIsBounded == Probe!OneProbeAtATime /\ Probe!GreenIsNotCached /\ Probe!GreenWasSeen

(* Retrieval misses nothing it has: the stores answer alike, a short search *)
(* is completed, and neither the origin nor the target of a reference is    *)
(* crowded out (reference_graph.py:168-213, vector_store.py:225-249,        *)
(* hybrid.py:251-253).                                                      *)
RetrievalIsComplete == Stores!StoresAgree /\ Hybrid!EvidenceKeepsRoom
=============================================================================
