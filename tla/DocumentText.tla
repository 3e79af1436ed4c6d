---------------------------- MODULE DocumentText ----------------------------
(* The way of a document's text: the parser (parser_worker.py) cuts a file  *)
(* into segments that carry a locator, the chunker (ingestion.py:60-163)    *)
(* cuts segments into overlapping windows, and the engines that work on     *)
(* pages put a page together again from its chunks (pdf_pages.py:12-33).    *)
(*                                                                          *)
(* A file is a sequence of units: the lines of Markdown, the rows of a CSV  *)
(* file, the paragraphs and table rows of a DOCX file, the pages of a PDF,  *)
(* the whole of a text file.  Of a unit only its kind matters, and of a     *)
(* page or a text file its characters, of which two are blank.              *)
EXTENDS Naturals, Sequences, FiniteSets, FiniteSetsExt, SequencesExt

CONSTANTS
    Files,      \* the files considered: [suffix, flaw, units, text]
    MaxUnits,   \* max_extracted_chars, in units
    Sizes       \* pairs <<chunk_size, chunk_overlap>> that the configuration accepts

VARIABLES
    file,      \* the file that is imported
    size,      \* chunk_size and chunk_overlap
    at,        \* the unit, later the segment, that is next
    segments,  \* segments found: [from, to] units
    start,     \* where the next window of the current segment starts
    chunks,    \* chunks cut: [unit, part, start, end, text]
    outcome    \* "reading", "cutting", "done", or the code of a failure

textVars == <<file, size, at, segments, start, chunks, outcome>>

Blank == {"space", "newline"}
IsBlank(text) == \A n \in DOMAIN text : text[n] \in Blank

(* What a file may be: Markdown of these kinds of line, one text, or pages  *)
(* whose text has no blanks around it.                                      *)
Lines == {"text", "heading", "barred heading", "bar", "blank", "backticks", "tildes"}
Stripped(text) == text # <<>> => {text[1], text[Len(text)]} \cap Blank = {}
WellFormed(f) ==
    /\ f.suffix \in {"txt", "md", "csv", "docx", "pdf"} /\ f.units \in Seq(ToSet(f.units))
    /\ f.suffix = "md" => ToSet(f.units) \subseteq Lines
    /\ f.suffix \in {"txt", "pdf"} => \A n \in DOMAIN f.units : f.units[n] \in Seq(ToSet(f.units[n]))
    /\ f.suffix = "txt" => Len(f.units) = 1
    /\ f.suffix = "pdf" => \A n \in DOMAIN f.units : Stripped(f.units[n])

Codes == {"document_encoding_error", "document_parse_error", "encrypted_document", "parser_limit",
          "empty_document", "ocr_required"}

TypeOK ==
    /\ file.suffix \in {"txt", "md", "csv", "docx", "pdf"} /\ size \in Sizes
    /\ at \in 1 .. Len(file.units) + 1 /\ start \in Nat
    /\ \A n \in DOMAIN segments : segments[n] \in [from : 1 .. Len(file.units), to : 1 .. Len(file.units)]
    /\ \A n \in DOMAIN chunks : chunks[n].start < chunks[n].end /\ Len(chunks[n].text) <= size[1]
    /\ outcome \in {"reading", "cutting", "done"} \cup Codes

Init ==
    /\ file \in Files /\ size \in Sizes
    /\ at = 1 /\ segments = <<>> /\ start = 0 /\ chunks = <<>> /\ outcome = "reading"

Unit(n) == file.units[n]
Here == Unit(at)
More == at <= Len(file.units)

-----------------------------------------------------------------------------
(* What the parser refuses before it looks at the units.                    *)
TextFlaw == IF file.flaw = "encoding" THEN "document_encoding_error" ELSE "none"

TableFlaw ==
    CASE file.flaw = "encoding" -> "document_encoding_error"
      [] file.flaw = "header" -> "document_parse_error"
      [] OTHER -> "none"

ArchiveFlaw ==
    CASE file.flaw = "entries" -> "parser_limit"
      [] file.flaw \in {"path", "xml"} -> "document_parse_error"
      [] file.flaw = "encrypted" -> "encrypted_document"
      [] OTHER -> "none"

PdfFlaw ==
    CASE file.flaw = "encrypted" -> "encrypted_document"
      [] file.flaw = "structure" -> "document_parse_error"
      [] Len(file.units) = 0 -> "empty_document"
      [] Len(file.units) > MaxUnits -> "parser_limit"
      [] OTHER -> "none"

Flaw == CASE file.suffix \in {"txt", "md"} -> TextFlaw
          [] file.suffix = "csv" -> TableFlaw
          [] file.suffix = "docx" -> ArchiveFlaw
          [] file.suffix = "pdf" -> PdfFlaw

-----------------------------------------------------------------------------
(* The last unit of the segment that begins here, and 0 if none begins.     *)
RunFrom(kinds) ==
    LET ends == {n \in at .. Len(file.units) : \A k \in at + 1 .. n : Unit(k) \in kinds}
    IN Max(ends)

Heading == {"heading", "barred heading"}
Fence == {"backticks", "tildes"}
Barred == {"bar", "barred heading"}

(* A code block ends with its own marker, or with the file.                 *)
BlockEnd ==
    LET closing == {n \in at + 1 .. Len(file.units) : Unit(n) = Here}
    IN IF closing = {} THEN Len(file.units) ELSE Min(closing)

(* A line of a table may look like a heading; a paragraph ends before a     *)
(* blank line, a heading, a fence or a table.                               *)
MarkdownEnd ==
    CASE Here = "blank" -> 0
      [] Here \in Heading -> at
      [] Here \in Fence -> BlockEnd
      [] Here = "bar" -> RunFrom(Barred)
      [] Here = "text" -> RunFrom({"text"})

(* A row, a paragraph, a table's row: each its own segment, unless empty.   *)
RowEnd == IF Here = "blank" THEN 0 ELSE at

(* A page or a file whose text is blank is no segment.                      *)
PageEnd == IF IsBlank(Here) THEN 0 ELSE at

SegmentEnd == CASE file.suffix = "md" -> MarkdownEnd
                [] file.suffix \in {"csv", "docx"} -> RowEnd
                [] file.suffix \in {"txt", "pdf"} -> PageEnd

Covered(n) == segments[n].to - segments[n].from + 1
Extracted == FoldLeft(+, 0, [n \in DOMAIN segments |-> Covered(n)])

Refuse(code) == outcome' = code /\ UNCHANGED <<at, segments>>

Reject ==
    /\ outcome = "reading" /\ at = 1 /\ Flaw # "none"
    /\ Refuse(Flaw) /\ UNCHANGED <<file, size, start, chunks>>

(* One turn of the parser's loop.                                           *)
Read ==
    /\ outcome = "reading" /\ Flaw = "none" /\ More
    /\ IF file.suffix = "csv" /\ Here = "ragged" THEN Refuse("document_parse_error")
       ELSE IF SegmentEnd = 0 THEN at' = at + 1 /\ UNCHANGED <<segments, outcome>>
       ELSE /\ segments' = Append(segments, [from |-> at, to |-> SegmentEnd])
            /\ at' = SegmentEnd + 1 /\ UNCHANGED outcome
    /\ UNCHANGED <<file, size, start, chunks>>

(* The parent checks the whole again: some text, and not too much.          *)
Extract ==
    /\ outcome = "reading" /\ Flaw = "none" /\ ~More
    /\ outcome' = IF segments = <<>> THEN IF file.suffix = "pdf" THEN "ocr_required" ELSE "empty_document"
                  ELSE IF Extracted > MaxUnits THEN "parser_limit"
                  ELSE IF file.suffix \in {"txt", "pdf"} THEN "cutting" ELSE "done"
    /\ at' = 1 /\ UNCHANGED <<file, size, segments, start, chunks>>

-----------------------------------------------------------------------------
Cut(text, from, to) == SubSeq(text, from + 1, to)
Page == Unit(segments[at].from)

(* A window that is not the last ends after the last newline of its second  *)
(* half, if there is one.                                                   *)
WindowEnd ==
    LET full == Min({Len(Page), start + size[1]})
        newlines == {n \in start + Max({1, size[1] \div 2}) .. full - 1 : Page[n + 1] = "newline"}
    IN IF full < Len(Page) /\ newlines # {} THEN Max(newlines) + 1 ELSE full

(* The offset of a segment: all before it, with a separator each.           *)
Offset == FoldLeft(+, 0, [n \in 1 .. at - 1 |-> Len(Unit(segments[n].from)) + 1])

(* A window of blanks gives no chunk.                                       *)
Chunk ==
    LET text == Cut(Page, start, WindowEnd)
    IN IF IsBlank(text) THEN chunks
       ELSE Append(chunks, [unit |-> segments[at].from, text |-> text,
                            start |-> Offset + start, end |-> Offset + WindowEnd])

(* The next window overlaps this one, and starts later than it did.         *)
Advance ==
    IF WindowEnd >= Len(Page)
    THEN at' = at + 1 /\ start' = 0
    ELSE start' = Max({start + 1, WindowEnd - size[2]}) /\ UNCHANGED at

TextWindow ==
    /\ outcome = "cutting" /\ file.suffix = "txt" /\ at <= Len(segments)
    /\ chunks' = Chunk /\ Advance
    /\ UNCHANGED <<file, size, segments, outcome>>

SegmentWindow ==
    /\ outcome = "cutting" /\ file.suffix # "txt" /\ at <= Len(segments)
    /\ chunks' = Chunk /\ Advance
    /\ UNCHANGED <<file, size, segments, outcome>>

Finish ==
    /\ outcome = "cutting" /\ at > Len(segments)
    /\ outcome' = "done"
    /\ UNCHANGED <<file, size, at, segments, start, chunks>>

Next == Reject \/ Read \/ Extract \/ TextWindow \/ SegmentWindow \/ Finish
Spec == Init /\ [][Next]_textVars

-----------------------------------------------------------------------------
(* A slip a maintainer could make: a chunk is appended whole, its overlap a *)
(* second time.                                                             *)
JoinedWhole(text, offset, more) == text \o more

(* A page's text as an engine puts it together: chunk after chunk, blanks   *)
(* where a window was dropped, without what two windows share.              *)
Joined(text, offset, more) ==
    LET padded == text \o [n \in 1 .. IF offset > Len(text) THEN offset - Len(text) ELSE 0 |-> "space"]
    IN padded \o SubSeq(more, Len(padded) - offset + 1, Len(more))

(* A page begins with its first chunk.                                      *)
Added(pages, c) ==
    LET page == IF c.unit \in DOMAIN pages THEN pages[c.unit] ELSE [start |-> c.start, text |-> <<>>]
    IN [u \in DOMAIN pages \cup {c.unit} |->
           IF u = c.unit THEN [start |-> page.start, text |-> Joined(page.text, c.start - page.start, c.text)]
           ELSE pages[u]]

NoPages == [u \in {} |-> <<>>]
SourcePages == FoldLeft(Added, NoPages, chunks)

(* Two texts that differ at most in the kind of their blanks.               *)
SameText(s, t) ==
    Len(s) = Len(t) /\ \A n \in DOMAIN s : s[n] = t[n] \/ {s[n], t[n]} \subseteq Blank

(* Each page that has text is restored from its chunks, whatever windows    *)
(* were shared, cut at a newline or dropped (pdf_pages.py:12-33 over        *)
(* ingestion.py:109-163).                                                   *)
PagesAreRestored ==
    outcome = "done" /\ file.suffix = "pdf" =>
        \A n \in DOMAIN file.units :
            ~IsBlank(Unit(n)) => n \in DOMAIN SourcePages /\ SameText(SourcePages[n].text, Unit(n))

(* Every character of a text file that is not blank is in a chunk at the    *)
(* offset the chunk gives for it (ingestion.py:60-106).                     *)
EveryWordIsStored ==
    outcome = "done" /\ file.suffix = "txt" =>
        \A n \in {m \in DOMAIN Unit(1) : Unit(1)[m] \notin Blank} :
            \E k \in DOMAIN chunks : chunks[k].start < n /\ n <= chunks[k].end
                                    /\ chunks[k].text[n - chunks[k].start] = Unit(1)[n]

(* Each line, row and paragraph that has text lies in one segment, and the  *)
(* segments follow each other: what a citation's locator names is there     *)
(* once (parser_worker.py:65-148, 186-207, 285-313).                        *)
EveryUnitIsCited ==
    outcome = "done" =>
        /\ \A n \in DOMAIN file.units :
              file.suffix \notin {"txt", "pdf"} /\ Unit(n) # "blank" =>
                  Cardinality({k \in DOMAIN segments : n \in segments[k].from .. segments[k].to}) = 1
        /\ \A k \in 2 .. Len(segments) : segments[k - 1].to < segments[k].from

(* Nothing of the text is lost or told twice on its way.                    *)
TextSurvives == PagesAreRestored /\ EveryWordIsStored /\ EveryUnitIsCited
=============================================================================
