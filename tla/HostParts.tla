----------------------------- MODULE HostParts -----------------------------
(* The parts of a host that work each by itself: its services, and what is  *)
(* done with a document: its text, parser processes, what readers are shown *)
(* of it, and the page that looks most like a question.                     *)
EXTENDS HostServices

CONSTANTS
    Files, MaxUnits, Sizes, Processes, Timeout, Grace,
    Catalogue, Visual, Anything, Settings, Beginnings, Limits, SectionTexts, MaxChanges,
    DrawnPages, MaxDrawn

VARIABLES
    file, size, at, segments, start, chunks, outcome,
    process, elapsed, staged, age, result,
    media, configured, foreign, document, index, headed, view, ever, always, gone, changes,
    sheets, best, files, nearest, drawing, valid, withdrawn

Text == INSTANCE DocumentText
Staging == INSTANCE ParserStaging WITH file <- staged
Views == INSTANCE ReaderViews WITH Texts <- SectionTexts
Sight == INSTANCE VisualRetrieval WITH count <- sheets, selected <- nearest, at <- drawing, current <- valid, cancelled <- withdrawn

(* Times and bounds are numbers; the catalogue is a list, and engines and   *)
(* indexes are of it; a section has its locator, and a reader asks for a    *)
(* character at least (reader.py:147-153); a PDF that is drawn has pages;   *)
(* files are well formed, and a window is not empty (config.py:380).        *)
ASSUME HostPartsAssumption ==
    /\ Timeout \in Nat /\ Grace \in Nat /\ MaxChanges \in Nat
    /\ Catalogue \in Seq(ToSet(Catalogue)) \ {<<>>}
    /\ \A s \in Settings : s.media \in {"pdf", "text"} /\ s.configured \cup s.foreign \subseteq Views!Catalogued
    /\ \A b \in Beginnings : /\ b.document \in 0 .. MaxVersion
                             /\ b.index \in [Views!Catalogued -> [Views!Versions -> Views!Statuses]]
    /\ Limits \subseteq Nat \ {0} /\ SectionTexts \subseteq Seq(Nat \ {0})
    /\ DrawnPages \subseteq Nat \ {0}
    /\ Sizes \subseteq (Nat \ {0}) \X Nat /\ \A f \in Files : Text!WellFormed(f)

(* A document's text reaches the engines whole, and a parser keeps its file *)
(* while other processes start and sweep (parser_worker.py, ingestion.py,   *)
(* pdf_pages.py:12-33, parsing.py:70-83).                                   *)
ParsingIsSound == Text!TextSurvives /\ Staging!RunningParseKeepsItsFile

(* What is shown is what it is shown as: an alias leads to a passage of the *)
(* prompt, a page number to the page whose vector is nearest                *)
(* (providers.py:278-283, multimodal/adapter.py:110-121); and besides       *)
(* answers, what a reader is shown of a document is what it was during the  *)
(* call, whole or marked (reader.py:53-175).                                *)
ShownAsItIs == AnswersCiteWhatWasShown /\ Sight!NearestPageIsShown /\ Views!ViewsAreTrue

(* Every part keeps its types and bounds; and the tree that the provider is *)
(* led through holds every page with text that a leaf of its outline covers *)
(* (not an introduction before an item's children), with no more children   *)
(* to a node than are shown (tree_navigation/engine.py:34-80).              *)
PartsAreWellFormed ==
    /\ TypeOK /\ Native!TypeOK /\ Probe!TypeOK /\ Text!TypeOK /\ Staging!TypeOK /\ Stores!TypeOK
    /\ Hybrid!TypeOK /\ Migration!TypeOK /\ Views!TypeOK /\ Sight!TypeOK /\ Tree!TypeOK
    /\ Tree!EveryPageIsWithinReach
=============================================================================
