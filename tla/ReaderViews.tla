---------------------------- MODULE ReaderViews ----------------------------
(* What a reader is shown of one document besides answers (reader.py:53-175):*)
(* its line in the catalogue, a page or the original bytes, and its text.    *)
(* Each is put together from several reads, between which jobs build indexes,*)
(* publish versions and delete the document.                                 *)
(*                                                                           *)
(* How jobs do that is in SelectedEngines, who may read is in ReaderRequests.*)
(* A version may come back: equal bytes are the same version.                *)
EXTENDS Integers, Sequences, FiniteSets, FiniteSetsExt, SequencesExt

CONSTANTS
    Catalogue,   \* the sequence of engines, ENGINE_CATALOG
    Visual,      \* the engine that keeps page images
    Anything,    \* the engine that takes documents of any kind
    MaxVersion,  \* versions of the document
    Settings,    \* how it may be configured: [media, configured, foreign] below
    Beginnings,  \* how the document may stand: [document, index] below
    Limits,      \* max_chars a reader may ask for
    Texts,       \* texts of a version: lengths of its sections
    MaxChanges   \* bound: what jobs do during one call

VARIABLES
    media,     \* "pdf" or another kind of document
    configured,\* enabled engines
    foreign,   \* engines whose indexes have another recipe than this process's
    document,  \* the active version, 0 if the document is deleted
    index,     \* index[e][v]: status of the index of version v for e
    headed,    \* headed[e]: the version that e's head names, 0 if it has none
    view,      \* the reader's call
    ever,      \* pairs <<e, v>> served at some moment of the call
    always,    \* pairs served at every moment of it
    gone,      \* versions that were not active at some moment of it
    changes

setting == <<media, configured, foreign>>
stand == <<document, index, headed>>
history == <<ever, always, gone, changes>>
viewsVars == <<setting, stand, view, history>>

Catalogued == ToSet(Catalogue)
Versions == 1 .. MaxVersion
Statuses == {"none", "staged", "building", "ready", "failed", "invalidated"}
States == {"unconfigured", "unsupported", "unavailable", "ready", "needs_reindex", "not_indexed",
           "queued", "building", "failed"}
Idle == [op |-> "none", pc |-> "idle", at |-> 1, available |-> {}, heads |-> <<>>, version |-> 0,
         states |-> <<>>, found |-> 0, content |-> 0, limit |-> 0, sections |-> <<>>, kept |-> <<>>,
         truncated |-> FALSE, returned |-> FALSE]
Ended == {"shown", "retry", "not_found", "invalid", "failed"}

TypeOK ==
    /\ media \in {"pdf", "text"} /\ configured \subseteq Catalogued /\ foreign \subseteq Catalogued
    /\ document \in 0 .. MaxVersion /\ index \in [Catalogued -> [Versions -> Statuses]]
    /\ headed \in [Catalogued -> 0 .. MaxVersion]
    /\ view.op \in {"none", "catalog", "asset", "text"} /\ view.version \in 0 .. MaxVersion
    /\ view.pc \in {"idle", "heads", "documents", "pending", "index", "files", "bytes", "text", "check"} \cup Ended
    /\ \A n \in DOMAIN view.states : view.states[n] \in States
    /\ changes \in 0 .. MaxChanges

(* The index that readers of an engine are given: that of its head, if it   *)
(* is ready and of the active version.                                      *)
Current(e) ==
    IF document # 0 /\ headed[e] = document /\ index[e][document] = "ready" THEN document ELSE 0

Served == {<<e, Current(e)>> : e \in {f \in Catalogued : Current(f) # 0}}

Init ==
    /\ \E s \in Settings : media = s.media /\ configured = s.configured /\ foreign = s.foreign
    /\ \E b \in Beginnings :
          /\ document = b.document /\ index = b.index
          /\ headed = [e \in Catalogued |-> IF b.document # 0 /\ b.index[e][b.document] = "ready"
                                         THEN b.document ELSE 0]
    /\ view = Idle /\ ever = {} /\ always = {} /\ gone = {} /\ changes = 0

-----------------------------------------------------------------------------
(* What jobs do, as far as a reader can tell.                               *)
Change ==
    /\ view.pc \notin Ended \cup {"idle"} /\ changes < MaxChanges /\ changes' = changes + 1
    /\ ever' = ever \cup Served' /\ always' = always \cap Served'
    /\ gone' = gone \cup {v \in Versions : document' # v}
    /\ UNCHANGED <<setting, view>>

Build(e, v) ==
    /\ \E status \in CASE index[e][v] = "none" -> {"staged"}
                        [] index[e][v] = "building" -> {"ready", "failed"}
                        [] index[e][v] = "ready" -> {}
                        [] OTHER -> {"building", "failed"} \ {index[e][v]} :
          index' = [index EXCEPT ![e][v] = status]
    /\ UNCHANGED <<document, headed>> /\ Change

Publish(v, es) ==
    /\ es # {} /\ \A e \in es : index[e][v] = "ready"
    /\ document' = v /\ headed' = [e \in Catalogued |-> IF e \in es THEN v ELSE headed[e]]
    /\ UNCHANGED index /\ Change

Tombstone == document # 0 /\ document' = 0 /\ UNCHANGED <<index, headed>> /\ Change

Invalidate ==
    /\ document = 0 /\ headed' = [e \in Catalogued |-> 0] /\ UNCHANGED document
    /\ index' = [e \in Catalogued |-> [v \in Versions |-> IF index[e][v] = "none" THEN "none" ELSE "invalidated"]]
    /\ index' # index /\ Change

-----------------------------------------------------------------------------
Begin(call) ==
    /\ view.pc = "idle" /\ view' = call
    /\ ever' = Served /\ always' = Served /\ gone' = {v \in Versions : document # v}
    /\ UNCHANGED <<setting, stand, changes>>

Go(call) == view' = call /\ UNCHANGED <<setting, stand, history>>
To(pc) == [view EXCEPT !.pc = pc]

(* The catalogue.  Services may be down, and then so is the engine.         *)
BeginCatalog ==
    \E up \in SUBSET configured : Begin([Idle EXCEPT !.op = "catalog", !.pc = "heads", !.available = up])

ReadHeads ==
    /\ view.pc = "heads"
    /\ Go([view EXCEPT !.heads = Append(@, Current(Catalogue[view.at])), !.at = @ + 1,
                       !.pc = IF view.at = Len(Catalogue) THEN "documents" ELSE "heads"])

ReadDocuments == view.pc = "documents" /\ Go([To("pending") EXCEPT !.version = document])

(* A slip a maintainer could make: an index of the document, of any version.*)
HasIndexOfAny(n) == view.heads[n] # 0

HasIndex(n) == view.heads[n] = view.version

Pending(e) ==
    LET status == index[e][view.version]
    IN CASE e \in foreign \/ status \notin {"staged", "building", "failed"} -> "not_indexed"
         [] status = "staged" -> "queued"
         [] OTHER -> status

State(n) ==
    LET e == Catalogue[n]
    IN CASE e \notin configured -> "unconfigured"
         [] e \in configured /\ e # Anything /\ media # "pdf" -> "unsupported"
         [] OTHER -> IF e \notin view.available THEN "unavailable"
                     ELSE IF ~HasIndex(n) THEN Pending(e)
                     ELSE IF e \in foreign THEN "needs_reindex" ELSE "ready"

ReadPending ==
    /\ view.pc = "pending"
    /\ Go(IF view.version = 0 THEN To("shown")
          ELSE [To("check") EXCEPT !.states = [n \in DOMAIN Catalogue |-> State(n)]])

(* The version asked for, or the active one; no other is shown.             *)
Wanted == {0, document}
Opened(wanted, call) ==
    Begin(IF document = 0 \/ wanted \notin Wanted THEN [call EXCEPT !.pc = "not_found"]
          ELSE [call EXCEPT !.version = document])

(* A page, from the visual index or drawn anew, or the original file.       *)
BeginAsset(wanted, page) ==
    Opened(wanted, [Idle EXCEPT !.op = "asset",
                    !.pc = IF ~page THEN "bytes" ELSE IF media # "pdf" THEN "invalid" ELSE "index"])

FindIndex ==
    /\ view.pc = "index"
    /\ Go(IF Current(Visual) = 0 THEN To("bytes") ELSE [To("files") EXCEPT !.found = Current(Visual)])

ReadFiles ==
    /\ view.pc = "files"
    /\ \/ Go([To("check") EXCEPT !.content = view.found])
       \/ index[Visual][view.found] # "ready" /\ Go(To("failed"))

ReadBytes ==
    /\ view.pc = "bytes"
    /\ Go(IF document # view.version THEN To("not_found") ELSE [To("check") EXCEPT !.content = document])

(* The text, section by section, with a blank line between two.             *)
BeginText(wanted, limit, sections) ==
    Opened(wanted, [Idle EXCEPT !.op = "text", !.pc = "text", !.limit = limit, !.sections = sections])

(* A slip: the blank lines are not counted.                                 *)
SeparatorUncounted(taken) == 0

Separator(taken) == IF taken.kept = <<>> THEN 0 ELSE 2

Section(taken, length, limit) ==
    LET remaining == limit - taken.used - Separator(taken)
        size == Min({length, remaining})
    IN IF taken.truncated \/ remaining <= 0 THEN [taken EXCEPT !.truncated = TRUE]
       ELSE [kept |-> Append(taken.kept, size), used |-> taken.used + Separator(taken) + size,
             truncated |-> length > remaining]

Nothing == [kept |-> <<>>, used |-> 0, truncated |-> FALSE]
Kept(sections, limit) == FoldLeft(LAMBDA taken, length : Section(taken, length, limit), Nothing, sections)

ReadText ==
    /\ view.pc = "text"
    /\ LET taken == Kept(view.sections, view.limit)
       IN Go([To("check") EXCEPT !.kept = taken.kept, !.truncated = taken.truncated, !.content = view.version])

(* A slip: what was read is believed.                                       *)
StillCurrentUnasked == TRUE

StillCurrent == document = view.version

Show ==
    /\ view.pc = "check"
    /\ Go([To(IF StillCurrent THEN "shown" ELSE "retry")
              EXCEPT !.returned = StillCurrent /\ document \in gone])

Next ==
    \/ \E e \in Catalogued, v \in Versions : Build(e, v)
    \/ \E v \in Versions, es \in SUBSET Catalogued : Publish(v, es)
    \/ Tombstone \/ Invalidate
    \/ BeginCatalog \/ ReadHeads \/ ReadDocuments \/ ReadPending
    \/ \E wanted \in 0 .. MaxVersion, page \in BOOLEAN : BeginAsset(wanted, page)
    \/ FindIndex \/ ReadFiles \/ ReadBytes
    \/ \E wanted \in 0 .. MaxVersion, limit \in Limits, text \in Texts : BeginText(wanted, limit, text)
    \/ ReadText \/ Show

Spec == Init /\ [][Next]_viewsVars

-----------------------------------------------------------------------------
(* An engine that the catalogue calls ready for a version served it at some *)
(* moment of the call, and one that served it all through the call, with a  *)
(* recipe of this process, is called ready (reader.py:53-101).              *)
CatalogIsOfTheCall ==
    view.op = "catalog" /\ view.pc = "shown" =>
        \A n \in DOMAIN view.states :
            LET pair == <<Catalogue[n], view.version>>
                usable == /\ Catalogue[n] \in view.available \ foreign
                          /\ Catalogue[n] = Anything \/ media = "pdf"
            IN /\ view.states[n] = "ready" => pair \in ever
               /\ usable /\ pair \in always => view.states[n] = "ready"

(* Bytes go out under the version they are of, whatever is published while  *)
(* they are read (reader.py:103-132); but a version that was replaced and   *)
(* has come back by the end passes for one that never left.                 *)
BytesAreOfTheirVersion ==
    view.op = "asset" /\ view.pc = "shown" => view.content = view.version \/ view.returned

(* A text is as long as was asked for at most, it is a beginning of the     *)
(* whole, and it is marked exactly when something is missing                *)
(* (reader.py:134-175).                                                     *)
Length(s) == FoldLeft(+, 0, s) + (IF s = <<>> THEN 0 ELSE 2 * (Len(s) - 1))
TextIsMarked ==
    view.op = "text" /\ view.pc = "shown" =>
        /\ Length(view.kept) <= view.limit
        /\ view.truncated <=> Length(view.sections) > view.limit
        /\ \A n \in DOMAIN view.kept :
              \/ view.kept[n] = view.sections[n]
              \/ n = Len(view.kept) /\ view.truncated /\ view.kept[n] < view.sections[n]
        /\ ~view.truncated => view.kept = view.sections

ViewsAreTrue == CatalogIsOfTheCall /\ BytesAreOfTheirVersion /\ TextIsMarked
=============================================================================
