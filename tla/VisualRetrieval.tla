-------------------------- MODULE VisualRetrieval --------------------------
(* The engine that answers with the original page that looks most like the   *)
(* question (rag/multimodal/engine.py, adapter.py, and                       *)
(* rag/components/pdf_pages.py): it draws the pages of a PDF, makes a vector *)
(* of each and shows the page whose vector is nearest.  The index is made    *)
(* once; a query reads it while the source may be replaced and the user may  *)
(* cancel.  Publication of indexes is in SelectedEngines, the model behind   *)
(* the engine is in Inference.                                               *)
EXTENDS Naturals, Sequences, FiniteSets, FiniteSetsExt

CONSTANTS
    DrawnPages,  \* numbers of pages of the PDFs that are drawn
    MaxDrawn     \* pages a drawn PDF may have

VARIABLES
    count,      \* pages of the PDF
    best,       \* the pages whose vectors are nearest to the question
    files,      \* the index: page images by name
    selected,   \* the page that is shown
    at,         \* where the engine is
    current,    \* the source version is still the one the index is for
    cancelled   \* the query was cancelled

visualVars == <<count, best, files, selected, at, current, cancelled>>

TypeOK ==
    /\ count \in DrawnPages /\ best \subseteq 1 .. count /\ selected \subseteq 1 .. count
    /\ at \in {"given", "indexed", "scored", "answered", "refused"}
    /\ current \in BOOLEAN /\ cancelled \in BOOLEAN

Init ==
    /\ count \in DrawnPages /\ best \in {{n} : n \in 1 .. count} \cup {1 .. count}
    /\ files = <<>> /\ selected = {} /\ at = "given" /\ current = TRUE /\ cancelled = FALSE

index == <<count, best, files>>
Refuse == at' = "refused" /\ UNCHANGED <<index, selected, current, cancelled>>

(* The source is replaced or deleted; the user cancels.                      *)
Replace == current' = FALSE /\ UNCHANGED <<index, selected, at, cancelled>>
Cancel == cancelled' = TRUE /\ UNCHANGED <<index, selected, at, current>>

-----------------------------------------------------------------------------
(* A page's name carries its number in decimal digits.                       *)
Name(n) == IF n < 10 THEN <<n>> ELSE <<n \div 10, n % 10>>
Earlier(a, b) == IF a[1] # b[1] THEN a[1] < b[1] ELSE Len(a) < Len(b) \/ (Len(a) = 2 /\ Len(b) = 2 /\ a[2] < b[2])

(* The worker draws each page under its name; none if there are too many.    *)
Render == IF count <= MaxDrawn THEN [name \in {Name(n) : n \in 1 .. count} |->
                                        CHOOSE n \in 1 .. count : Name(n) = name] ELSE <<>>

(* The images, in the order of their numbers, with what is drawn on each.    *)
Rasterize == [n \in 1 .. count |-> [name |-> Name(n), page |-> Render[Name(n)]]]

Draw ==
    /\ at = "given"
    /\ IF Render = <<>> THEN Refuse
       ELSE /\ files' = Rasterize /\ at' = "indexed"
            /\ UNCHANGED <<count, best, selected, current, cancelled>>

(* Vectors are kept under the numbers of their pages, in digits.             *)
Vectors == [name \in {Name(n) : n \in DOMAIN files} |-> CHOOSE p \in {files[n].page : n \in DOMAIN files} :
                \E n \in DOMAIN files : Name(n) = name /\ files[n].page = p]

(* A slip: the vectors in the order of their names.                          *)
InOrderByName ==
    [n \in 1 .. Cardinality(DOMAIN Vectors) |->
        Vectors[CHOOSE name \in DOMAIN Vectors : Cardinality({m \in DOMAIN Vectors : Earlier(m, name)}) = n - 1]]

(* The worker takes them in the order of the numbers.                        *)
InOrder == [n \in 1 .. Cardinality(DOMAIN Vectors) |-> Vectors[Name(n)]]

(* Scores come in the order of the vectors; of equal scores the lower number.*)
Ranked == {n \in DOMAIN InOrder : InOrder[n] \in best}

Rank ==
    /\ at = "indexed" /\ files # <<>>
    /\ IF current /\ ~cancelled
       THEN /\ selected' = {Min(Ranked)} /\ at' = "scored"
            /\ UNCHANGED <<index, current, cancelled>>
       ELSE Refuse

(* The query ends when its source is still current and it was not cancelled. *)
Show ==
    /\ at = "scored"
    /\ IF current /\ ~cancelled
       THEN at' = "answered" /\ UNCHANGED <<index, selected, current, cancelled>>
       ELSE Refuse

Next == Replace \/ Cancel \/ Draw \/ Rank \/ Show

Spec == Init /\ [][Next]_visualVars

-----------------------------------------------------------------------------
(* The page that is shown is one whose vector is nearest, and its image is   *)
(* that page's, also beyond the ninth page (adapter.py:115-121,              *)
(* multimodal/engine.py:80-84).                                              *)
NearestPageIsShown ==
    at = "answered" => \A n \in selected : files[n].page = n /\ n = Min(best)
=============================================================================
