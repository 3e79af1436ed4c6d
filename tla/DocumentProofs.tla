--------------------------- MODULE DocumentProofs ---------------------------
(***************************************************************************)
(* Theorems about what is read and shown of documents: parser processes,   *)
(* readers' views, the way of a text, how much of it is shown, and pages   *)
(* shown as they look; for any number of processes, documents, versions,   *)
(* engines and pages.  And the types of all parts.                         *)
(***************************************************************************)
EXTENDS HostParts, HostPartProofs

-----------------------------------------------------------------------------
(* Parser processes: a file that is read is younger than any that is swept. *)

Running == {"staged", "parsing"}

StagingTyped ==
    /\ process \in [Processes -> {"down", "idle", "staged", "parsing", "returned"}]
    /\ elapsed \in [Processes -> Nat] /\ age \in [Processes -> Nat]
    /\ staged \in [Processes -> {"none", "here", "abandoned", "swept"}]

\* A parser starts within Timeout of its file and runs no longer than that.
FilesAreYoung ==
    \A p \in Processes :
        /\ process[p] = "staged" => age[p] <= Timeout
        /\ process[p] = "parsing" => elapsed[p] <= Timeout /\ age[p] <= elapsed[p] + Timeout

StagingInv == StagingTyped /\ FilesAreYoung /\ Staging!RunningParseKeepsItsFile

LEMMA SweptFilesAreOld ==
    ASSUME StagingInv, NEW p \in Processes, process[p] \in Running
    PROVE  age[p] <= Staging!Cutoff
<1>1. /\ Timeout \in Nat /\ Grace \in Nat /\ age[p] \in Nat /\ elapsed[p] \in Nat
      /\ process[p] = "staged" => age[p] <= Timeout
      /\ process[p] = "parsing" => elapsed[p] <= Timeout /\ age[p] <= elapsed[p] + Timeout
  BY HostPartsAssumption DEF StagingInv, StagingTyped, FilesAreYoung
<1>2. age[p] <= 2 * Timeout
  BY <1>1 DEF Running
<1>3. 2 * Timeout <= Staging!Cutoff /\ Staging!Cutoff \in Nat
  BY <1>1 DEF Staging!Cutoff, Staging!Max2
<1>. QED  BY <1>1, <1>2, <1>3

LEMMA StagingInit == Staging!Init => StagingInv
BY DEF Staging!Init, StagingInv, StagingTyped, FilesAreYoung, Staging!RunningParseKeepsItsFile

\* One process takes a step; the files of the others stay or are swept.
LEMMA ProcessMoves ==
    ASSUME StagingInv, NEW p \in Processes, NEW to \in {"down", "idle", "returned"}, NEW from,
           Staging!Move(p, from, to), UNCHANGED <<elapsed, age>>,
           staged' \in [Processes -> {"none", "here", "abandoned", "swept"}],
           \A q \in Processes : q # p /\ process[q] \in Running => staged'[q] = staged[q]
    PROVE  StagingInv'
<1>1. /\ process' \in [Processes -> {"down", "idle", "staged", "parsing", "returned"}]
      /\ process'[p] = to /\ \A q \in Processes : q # p => process'[q] = process[q]
  BY DEF Staging!Move, StagingInv, StagingTyped
<1>. QED  BY <1>1 DEF StagingInv, StagingTyped, FilesAreYoung, Staging!RunningParseKeepsItsFile, Running

LEMMA CleanupStep ==
    ASSUME StagingInv, NEW p \in Processes, Staging!CleanupAbandoned(p)
    PROVE  StagingInv'
<1>1. Staging!Move(p, "down", "idle") /\ UNCHANGED <<elapsed, age>>
  BY DEF Staging!CleanupAbandoned
<1>2. PICK kept \in SUBSET {q \in Processes : staged[q] \in {"here", "abandoned"} /\ age[q] > Staging!Cutoff} :
         staged' = [q \in Processes |->
             IF age[q] <= Staging!Cutoff \/ q \in kept THEN staged[q]
             ELSE IF staged[q] = "here" THEN "swept"
             ELSE IF staged[q] = "abandoned" THEN "none" ELSE staged[q]]
  BY DEF Staging!CleanupAbandoned
<1>3. staged' \in [Processes -> {"none", "here", "abandoned", "swept"}]
  BY <1>2 DEF StagingInv, StagingTyped
<1>4. ASSUME NEW q \in Processes, process[q] \in Running
      PROVE  staged'[q] = staged[q]
  <2>1. age[q] <= Staging!Cutoff
    BY <1>4, SweptFilesAreOld
  <2>. QED  BY <1>2, <2>1
<1>. QED  BY <1>1, <1>3, <1>4, ProcessMoves

LEMMA StageStep ==
    ASSUME StagingInv, NEW p \in Processes, Staging!Stage(p)
    PROVE  StagingInv'
<1>1. /\ process' = [process EXCEPT ![p] = "staged"] /\ staged' = [staged EXCEPT ![p] = "here"]
      /\ age' = [age EXCEPT ![p] = 0] /\ UNCHANGED elapsed
  BY DEF Staging!Stage, Staging!Move
<1>. QED  BY <1>1, HostPartsAssumption
     DEF StagingInv, StagingTyped, FilesAreYoung, Staging!RunningParseKeepsItsFile

LEMMA SpawnStep ==
    ASSUME StagingInv, NEW p \in Processes, Staging!Spawn(p)
    PROVE  StagingInv'
<1>1. /\ process[p] = "staged" /\ process' = [process EXCEPT ![p] = "parsing"]
      /\ elapsed' = [elapsed EXCEPT ![p] = 0] /\ UNCHANGED <<staged, age>>
  BY DEF Staging!Spawn, Staging!Move
<1>. QED  BY <1>1, HostPartsAssumption
     DEF StagingInv, StagingTyped, FilesAreYoung, Staging!RunningParseKeepsItsFile

LEMMA TickStep ==
    ASSUME StagingInv, Staging!Tick
    PROVE  StagingInv'
<1>1. /\ \A p \in Processes : process[p] = "parsing" => elapsed[p] < Timeout
      /\ \A p \in Processes : process[p] = "staged" => age[p] < Timeout
      /\ elapsed' = [p \in Processes |-> IF process[p] = "parsing" THEN elapsed[p] + 1 ELSE elapsed[p]]
      /\ age' = [p \in Processes |-> IF staged[p] # "none" /\ age[p] <= Staging!Cutoff THEN age[p] + 1 ELSE age[p]]
      /\ UNCHANGED <<process, staged>>
  BY DEF Staging!Tick
<1>2. StagingTyped'
  BY <1>1 DEF StagingInv, StagingTyped
<1>3. ASSUME NEW p \in Processes
      PROVE  /\ process[p] = "staged" => age'[p] <= Timeout
             /\ process[p] = "parsing" => elapsed'[p] <= Timeout /\ age'[p] <= elapsed'[p] + Timeout
  <2>1. Timeout \in Nat /\ age[p] \in Nat /\ elapsed[p] \in Nat /\ age'[p] \in {age[p], age[p] + 1}
    BY <1>1, HostPartsAssumption DEF StagingInv, StagingTyped
  <2>2. process[p] = "parsing" => elapsed'[p] = elapsed[p] + 1
    BY <1>1
  <2>. QED  BY <1>1, <2>1, <2>2 DEF StagingInv, FilesAreYoung
<1>. QED  BY <1>1, <1>2, <1>3 DEF StagingInv, FilesAreYoung, Staging!RunningParseKeepsItsFile

LEMMA StagingStep == StagingInv /\ [Staging!Next]_Staging!stagingVars => StagingInv'
<1>. SUFFICES ASSUME StagingInv, [Staging!Next]_Staging!stagingVars PROVE StagingInv'
  OBVIOUS
<1>1. CASE Staging!Tick
  BY <1>1, TickStep
<1>2. ASSUME NEW p \in Processes, Staging!CleanupAbandoned(p) \/ Staging!Stage(p) \/ Staging!Spawn(p)
      PROVE  StagingInv'
  BY <1>2, CleanupStep, StageStep, SpawnStep
<1>3. ASSUME NEW p \in Processes, Staging!Parsed(p) \/ Staging!TimeOut(p)
      PROVE  StagingInv'
  <2>1. Staging!Move(p, "parsing", "returned") /\ UNCHANGED <<elapsed, age, staged>>
    BY <1>3 DEF Staging!Parsed, Staging!TimeOut, Staging!End
  <2>. QED  BY <2>1, ProcessMoves DEF StagingInv, StagingTyped
<1>4. ASSUME NEW p \in Processes, Staging!Unlink(p)
      PROVE  StagingInv'
  <2>1. Staging!Move(p, "returned", "idle") /\ UNCHANGED <<elapsed, age>>
    BY <1>4 DEF Staging!Unlink
  <2>2. PICK s \in {"none", "abandoned"} : staged' = [staged EXCEPT ![p] = s]
    BY <1>4 DEF Staging!Unlink, StagingInv, StagingTyped
  <2>. QED  BY <2>1, <2>2, ProcessMoves DEF StagingInv, StagingTyped
<1>5. ASSUME NEW p \in Processes, Staging!Crash(p)
      PROVE  StagingInv'
  <2>1. Staging!Move(p, process[p], "down") /\ UNCHANGED <<elapsed, age>>
    BY <1>5 DEF Staging!Crash, Staging!Move
  <2>2. PICK s \in {"none", "abandoned"} : staged' = [staged EXCEPT ![p] = s]
    BY <1>5 DEF Staging!Crash, StagingInv, StagingTyped
  <2>. QED  BY <2>1, <2>2, ProcessMoves DEF StagingInv, StagingTyped
<1>6. CASE UNCHANGED Staging!stagingVars
  BY <1>6 DEF Staging!stagingVars, StagingInv, StagingTyped, FilesAreYoung, Staging!RunningParseKeepsItsFile
<1>. QED  BY <1>1, <1>2, <1>3, <1>4, <1>5, <1>6 DEF Staging!Next

(* However many processes start and sweep the staging directory, and        *)
(* whoever of them dies, none takes the file that a running parser reads    *)
(* (parsing.py:70-83 beside 107-152).                                       *)
THEOREM SweepsSpareRunningParsers == Staging!Spec => []Staging!RunningParseKeepsItsFile
<1>1. StagingInv => Staging!RunningParseKeepsItsFile
  BY DEF StagingInv
<1>. QED  BY <1>1, StagingInit, StagingStep, PTL DEF Staging!Spec

-----------------------------------------------------------------------------
(* Views: what a call has read of the engines' heads, against what was      *)
(* served at some moment, and at every moment, of it.                       *)

CallRuns == view.pc \notin Views!Ended \cup {"idle"}
Listed(pcs) == view.op = "catalog" /\ view.pc \in pcs

ViewTyped ==
    /\ document \in 0 .. MaxVersion /\ DOMAIN view = DOMAIN Views!Idle
    /\ view.op \in {"none", "catalog", "asset", "text"}
    /\ view.op = "none" => view.pc = "idle"
    /\ view.op = "catalog" => view.pc \in {"heads", "documents", "pending", "check", "shown", "retry"}
    /\ view.op = "asset" =>
          view.pc \in {"index", "files", "bytes", "check", "shown", "retry", "not_found", "invalid", "failed"}
    /\ view.op = "text" => view.pc \in {"text", "check", "shown", "retry", "not_found"}

\* While a call runs, its history is about the moments up to now.
HistoryIsOfTheCall ==
    /\ always \subseteq ever
    /\ CallRuns => /\ Views!Served \subseteq ever /\ always \subseteq Views!Served
                  /\ \A v \in Views!Versions : v # document => v \in gone

HeadsWereServed ==
    view.op = "catalog" =>
        /\ view.heads \in Seq(0 .. MaxVersion) /\ Len(view.heads) <= Len(Catalogue)
        /\ view.available \subseteq configured
        /\ view.pc = "heads" => view.at = Len(view.heads) + 1 /\ view.at <= Len(Catalogue)
        /\ view.pc # "heads" => Len(view.heads) = Len(Catalogue)
        /\ \A n \in DOMAIN view.heads :
              /\ view.heads[n] # 0 => <<Catalogue[n], view.heads[n]>> \in ever
              /\ \A v : <<Catalogue[n], v>> \in always => view.heads[n] = v

Usable(n) == Catalogue[n] \in view.available \ foreign /\ (Catalogue[n] = Anything \/ media = "pdf")

StatesAreOfHeads ==
    view.op = "catalog" =>
        /\ view.pc \in {"heads", "documents", "pending"} => view.states = <<>>
        /\ view.pc = "check" => view.version # 0
        /\ \A n \in DOMAIN view.states :
              /\ n \in DOMAIN Catalogue /\ view.version # 0
              /\ view.states[n] = "ready" => view.heads[n] = view.version
              /\ Usable(n) /\ view.heads[n] = view.version => view.states[n] = "ready"

AssetIsOfItsVersion ==
    view.op = "asset" =>
        /\ view.pc \in {"index", "files", "bytes", "check", "shown"} => view.version \in Views!Versions
        /\ view.pc = "files" => view.found = view.version \/ view.version \in gone
        /\ view.pc = "check" => view.content = view.version \/ view.version \in gone
        /\ view.pc = "shown" => view.content = view.version \/ view.returned

ViewInv ==
    /\ ViewTyped /\ HistoryIsOfTheCall /\ HeadsWereServed /\ StatesAreOfHeads /\ AssetIsOfItsVersion

LEMMA ViewInit == Views!Init => ViewInv
BY HostServicesAssumption, HostPartsAssumption
   DEF Views!Init, Views!Idle, Views!Ended, ViewInv, ViewTyped, HistoryIsOfTheCall, HeadsWereServed, StatesAreOfHeads,
       AssetIsOfItsVersion, CallRuns

\* Whatever jobs do, a call's history grows with it and its view stays.
LEMMA ViewsChange ==
    ASSUME ViewInv, Views!Change, document' \in 0 .. MaxVersion
    PROVE  ViewInv'
<1>1. /\ CallRuns /\ ever' = ever \cup Views!Served' /\ always' = always \cap Views!Served'
      /\ gone' = gone \cup {v \in Views!Versions : document' # v}
      /\ UNCHANGED <<media, configured, foreign, view>>
  BY DEF Views!Change, Views!setting, CallRuns
<1>2. always' \subseteq always /\ ever \subseteq ever' /\ gone \subseteq gone'
  BY <1>1
<1>3. ViewTyped'
  BY <1>1 DEF ViewInv, ViewTyped
<1>4. HistoryIsOfTheCall'
  BY <1>1 DEF ViewInv, HistoryIsOfTheCall
<1>5. HeadsWereServed'
  BY <1>1, <1>2 DEF ViewInv, HeadsWereServed
<1>6. StatesAreOfHeads' /\ AssetIsOfItsVersion'
  BY <1>1, <1>2 DEF ViewInv, StatesAreOfHeads, AssetIsOfItsVersion, Usable
<1>. QED  BY <1>3, <1>4, <1>5, <1>6 DEF ViewInv

LEMMA JobsStep ==
    ASSUME ViewInv,
           \/ \E e \in Views!Catalogued, v \in Views!Versions : Views!Build(e, v)
           \/ \E v \in Views!Versions, es \in SUBSET Views!Catalogued : Views!Publish(v, es)
           \/ Views!Tombstone \/ Views!Invalidate
    PROVE  ViewInv'
<1>1. Views!Change /\ (document' = document \/ document' = 0 \/ document' \in Views!Versions)
  BY DEF Views!Build, Views!Publish, Views!Tombstone, Views!Invalidate
<1>2. document' \in 0 .. MaxVersion
  BY <1>1, HostServicesAssumption DEF ViewInv, ViewTyped, Views!Versions
<1>. QED  BY <1>1, <1>2, ViewsChange

\* A call that begins remembers what is served and what is active.
LEMMA Beginning ==
    ASSUME ViewInv, NEW opening, Views!Begin(opening),
           DOMAIN opening = DOMAIN Views!Idle,
           \/ opening.op = "catalog" /\ opening.pc = "heads" /\ opening.at = 1 /\ opening.heads = <<>> /\ opening.states = <<>>
              /\ opening.available \subseteq configured
           \/ opening.op = "asset" /\ opening.pc \in {"bytes", "invalid", "index", "not_found"}
              /\ (opening.pc \in {"bytes", "index"} => opening.version = document /\ document # 0)
           \/ opening.op = "text" /\ opening.pc \in {"text", "not_found"}
    PROVE  ViewInv'
<1>1. /\ view' = opening /\ ever' = Views!Served /\ always' = Views!Served
      /\ gone' = {v \in Views!Versions : document # v}
      /\ UNCHANGED <<media, configured, foreign, document, index, headed>>
  BY DEF Views!Begin, Views!setting, Views!stand
<1>2. Views!Served' = Views!Served
  BY <1>1 DEF Views!Served, Views!Current
<1>3. ViewTyped' /\ HistoryIsOfTheCall'
  BY <1>1, <1>2 DEF ViewInv, ViewTyped, HistoryIsOfTheCall
<1>4. HeadsWereServed'
  <2>1. Len(Catalogue) \in Nat /\ Len(Catalogue) >= 1
    BY HostPartsAssumption
  <2>2. \A s : s = <<>> => s \in Seq(0 .. MaxVersion) /\ Len(s) = 0 /\ DOMAIN s = {}
    OBVIOUS
  <2>3. CASE opening.op = "catalog"
    <3>1. /\ view'.heads = <<>> /\ view'.pc = "heads" /\ view'.at = 1 /\ view'.available \subseteq configured'
      BY <1>1, <2>3
    <3>. QED  BY <3>1, <2>1, <2>2 DEF HeadsWereServed
  <2>. QED  BY <1>1, <2>3 DEF HeadsWereServed
<1>5. StatesAreOfHeads'
  BY <1>1 DEF StatesAreOfHeads
<1>6. AssetIsOfItsVersion'
  BY <1>1, HostServicesAssumption DEF AssetIsOfItsVersion, ViewInv, ViewTyped, Views!Versions
<1>. QED  BY <1>3, <1>4, <1>5, <1>6 DEF ViewInv

LEMMA BeginStep ==
    ASSUME ViewInv,
           \/ Views!BeginCatalog
           \/ \E wanted \in 0 .. MaxVersion, page \in BOOLEAN : Views!BeginAsset(wanted, page)
           \/ \E wanted \in 0 .. MaxVersion, limit \in Limits, text \in SectionTexts :
                 Views!BeginText(wanted, limit, text)
    PROVE  ViewInv'
<1>1. CASE Views!BeginCatalog
  <2>1. PICK ups \in SUBSET configured :
           Views!Begin([Views!Idle EXCEPT !.op = "catalog", !.pc = "heads", !.available = ups])
    BY <1>1 DEF Views!BeginCatalog
  <2>. DEFINE opening == [Views!Idle EXCEPT !.op = "catalog", !.pc = "heads", !.available = ups]
  <2>2. /\ DOMAIN opening = DOMAIN Views!Idle /\ opening.op = "catalog" /\ opening.pc = "heads" /\ opening.at = 1
        /\ opening.heads = <<>> /\ opening.states = <<>> /\ opening.available = ups
    BY DEF Views!Idle
  <2>. HIDE DEF opening
  <2>. QED  BY <2>1, <2>2, Beginning DEF opening
<1>2. ASSUME NEW wanted \in 0 .. MaxVersion, NEW page \in BOOLEAN, Views!BeginAsset(wanted, page)
      PROVE  ViewInv'
  <2>. DEFINE first == IF ~page THEN "bytes" ELSE IF media # "pdf" THEN "invalid" ELSE "index"
              asset == [Views!Idle EXCEPT !.op = "asset", !.pc = first]
              absent == [asset EXCEPT !.pc = "not_found"]
              present == [asset EXCEPT !.version = document]
  <2>1. \/ Views!Begin(absent)
        \/ document # 0 /\ Views!Begin(present)
    BY <1>2 DEF Views!BeginAsset, Views!Opened
  <2>2. /\ DOMAIN absent = DOMAIN Views!Idle /\ absent.op = "asset" /\ absent.pc = "not_found"
        /\ DOMAIN present = DOMAIN Views!Idle /\ present.op = "asset" /\ present.pc = first
        /\ present.version = document /\ first \in {"bytes", "invalid", "index"}
    BY DEF Views!Idle
  <2>. HIDE DEF absent, present, first
  <2>. QED  BY <2>1, <2>2, Beginning
<1>3. ASSUME NEW wanted \in 0 .. MaxVersion, NEW limit \in Limits, NEW text \in SectionTexts,
             Views!BeginText(wanted, limit, text)
      PROVE  ViewInv'
  <2>. DEFINE whole == [Views!Idle EXCEPT !.op = "text", !.pc = "text", !.limit = limit, !.sections = text]
              absent == [whole EXCEPT !.pc = "not_found"]
              present == [whole EXCEPT !.version = document]
  <2>1. Views!Begin(absent) \/ Views!Begin(present)
    BY <1>3 DEF Views!BeginText, Views!Opened
  <2>2. /\ DOMAIN absent = DOMAIN Views!Idle /\ absent.op = "text" /\ absent.pc = "not_found"
        /\ DOMAIN present = DOMAIN Views!Idle /\ present.op = "text" /\ present.pc = "text"
    BY DEF Views!Idle
  <2>. HIDE DEF absent, present
  <2>. QED  BY <2>1, <2>2, Beginning
<1>. QED  BY <1>1, <1>2, <1>3

\* A step of a call changes nothing but its view.
LEMMA CallSteps ==
    ASSUME ViewInv, CallRuns, NEW opening, Views!Go(opening)
    PROVE  /\ view' = opening /\ HistoryIsOfTheCall'
           /\ UNCHANGED <<media, configured, foreign, document, index, headed, ever, always, gone>>
<1>1. /\ view' = opening
      /\ UNCHANGED <<media, configured, foreign, document, index, headed, ever, always, gone>>
  BY DEF Views!Go, Views!setting, Views!stand, Views!history
<1>2. Views!Served' = Views!Served
  BY <1>1 DEF Views!Served, Views!Current
<1>3. HistoryIsOfTheCall'
  BY <1>1, <1>2 DEF ViewInv, HistoryIsOfTheCall
<1>. QED  BY <1>1, <1>3

LEMMA ViewDomain ==
    ASSUME ViewInv
    PROVE  DOMAIN view = {"op", "pc", "at", "available", "heads", "version", "states", "found", "content", "limit",
                          "sections", "kept", "truncated", "returned"}
BY DEF ViewInv, ViewTyped, Views!Idle

LEMMA ReadHeadsStep ==
    ASSUME ViewInv, Views!ReadHeads
    PROVE  ViewInv'
<1>. DEFINE head == Views!Current(Catalogue[view.at])
            opening == [view EXCEPT !.heads = Append(@, head), !.at = @ + 1,
                                    !.pc = IF view.at = Len(Catalogue) THEN "documents" ELSE "heads"]
<1>1. CallRuns /\ Views!Go(opening) /\ view.op = "catalog" /\ view.pc = "heads"
  BY DEF Views!ReadHeads, CallRuns, Views!Ended, ViewInv, ViewTyped
<1>2. /\ view' = opening /\ HistoryIsOfTheCall'
      /\ UNCHANGED <<media, configured, foreign, document, index, headed, ever, always, gone>>
  BY <1>1, CallSteps
<1>3. /\ DOMAIN opening = DOMAIN Views!Idle /\ opening.op = "catalog"
      /\ opening.pc = IF view.at = Len(Catalogue) THEN "documents" ELSE "heads"
      /\ opening.heads = Append(view.heads, head) /\ opening.at = view.at + 1
      /\ opening.available = view.available /\ opening.states = view.states /\ opening.version = view.version
  BY <1>1, ViewDomain DEF ViewInv, ViewTyped
<1>. HIDE DEF opening, head
<1>4. /\ view.heads \in Seq(0 .. MaxVersion) /\ view.at = Len(view.heads) + 1 /\ view.at <= Len(Catalogue)
      /\ Len(Catalogue) \in Nat /\ Len(view.heads) \in Nat
      /\ view.available \subseteq configured /\ view.states = <<>>
  BY <1>1, HostPartsAssumption DEF ViewInv, HeadsWereServed, StatesAreOfHeads
<1>5. /\ head \in 0 .. MaxVersion
      /\ head # 0 => <<Catalogue[view.at], head>> \in Views!Served
      /\ \A v : <<Catalogue[view.at], v>> \in Views!Served => head = v
  <2>1. Catalogue[view.at] \in Views!Catalogued
    BY <1>4, HostPartsAssumption DEF Views!Catalogued, Views!ToSet
  <2>2. document \in 0 .. MaxVersion /\ 0 \in 0 .. MaxVersion
    BY HostServicesAssumption, HostPartsAssumption DEF ViewInv, ViewTyped
  <2>. QED  BY <2>1, <2>2 DEF head, Views!Served, Views!Current
<1>6. Views!Served \subseteq ever /\ always \subseteq Views!Served
  BY <1>1 DEF ViewInv, HistoryIsOfTheCall
<1>7. HeadsWereServed'
  <2>. DEFINE listed == Append(view.heads, head)
  <2>1. /\ listed \in Seq(0 .. MaxVersion) /\ Len(listed) = view.at
        /\ listed[view.at] = head
        /\ \A n \in DOMAIN listed : n = view.at \/ (n \in DOMAIN view.heads /\ listed[n] = view.heads[n])
    <3>. DEFINE before == view.heads
    <3>1. before \in Seq(0 .. MaxVersion) /\ head \in 0 .. MaxVersion /\ view.at = Len(before) + 1
      BY <1>4, <1>5
    <3>. HIDE DEF before
    <3>2. /\ Append(before, head) \in Seq(0 .. MaxVersion) /\ Len(Append(before, head)) = Len(before) + 1
          /\ Append(before, head)[Len(before) + 1] = head
          /\ \A n \in 1 .. Len(before) : Append(before, head)[n] = before[n]
      BY <3>1
    <3>3. DOMAIN Append(before, head) = 1 .. Len(before) + 1 /\ DOMAIN before = 1 .. Len(before) /\ Len(before) \in Nat
      BY <3>1, <3>2
    <3>4. \A n \in 1 .. Len(before) + 1 : n = Len(before) + 1 \/ n \in 1 .. Len(before)
      BY <3>3
    <3>. QED  BY <3>1, <3>2, <3>3, <3>4 DEF before
  <2>2. \A n \in DOMAIN listed :
           /\ listed[n] # 0 => <<Catalogue[n], listed[n]>> \in ever
           /\ \A v : <<Catalogue[n], v>> \in always => listed[n] = v
    BY <1>1, <1>5, <1>6, <2>1 DEF ViewInv, HeadsWereServed
  <2>. HIDE DEF listed
  <2>. QED  BY <1>2, <1>3, <1>4, <2>1, <2>2 DEF HeadsWereServed, listed
<1>8. ViewTyped'
  BY <1>2, <1>3 DEF ViewInv, ViewTyped
<1>9. StatesAreOfHeads' /\ AssetIsOfItsVersion'
  BY <1>2, <1>3, <1>4 DEF StatesAreOfHeads, AssetIsOfItsVersion
<1>. QED  BY <1>2, <1>7, <1>8, <1>9 DEF ViewInv

LEMMA ReadDocumentsStep ==
    ASSUME ViewInv, Views!ReadDocuments
    PROVE  ViewInv'
<1>. DEFINE opening == [Views!To("pending") EXCEPT !.version = document]
<1>1. CallRuns /\ Views!Go(opening) /\ view.op = "catalog" /\ view.pc = "documents"
  BY DEF Views!ReadDocuments, CallRuns, Views!Ended, ViewInv, ViewTyped
<1>2. /\ view' = opening /\ HistoryIsOfTheCall'
      /\ UNCHANGED <<media, configured, foreign, document, index, headed, ever, always, gone>>
  BY <1>1, CallSteps
<1>3. /\ DOMAIN opening = DOMAIN Views!Idle /\ opening.op = "catalog" /\ opening.pc = "pending"
      /\ opening.heads = view.heads /\ opening.available = view.available /\ opening.states = view.states
  BY <1>1, ViewDomain DEF ViewInv, ViewTyped, Views!To
<1>. HIDE DEF opening
<1>4. view.states = <<>>
  BY <1>1 DEF ViewInv, StatesAreOfHeads
<1>5. HeadsWereServed'
  BY <1>1, <1>2, <1>3 DEF ViewInv, HeadsWereServed
<1>6. ViewTyped' /\ StatesAreOfHeads' /\ AssetIsOfItsVersion'
  BY <1>2, <1>3, <1>4 DEF ViewInv, ViewTyped, StatesAreOfHeads, AssetIsOfItsVersion
<1>. QED  BY <1>2, <1>5, <1>6 DEF ViewInv

LEMMA ReadPendingStep ==
    ASSUME ViewInv, Views!ReadPending
    PROVE  ViewInv'
<1>. DEFINE states == [n \in DOMAIN Catalogue |-> Views!State(n)]
            listed == [Views!To("check") EXCEPT !.states = states]
            opening == IF view.version = 0 THEN Views!To("shown") ELSE listed
<1>1. CallRuns /\ Views!Go(opening) /\ view.op = "catalog" /\ view.pc = "pending"
  BY DEF Views!ReadPending, CallRuns, Views!Ended, ViewInv, ViewTyped
<1>2. /\ view' = opening /\ HistoryIsOfTheCall'
      /\ UNCHANGED <<media, configured, foreign, document, index, headed, ever, always, gone>>
  BY <1>1, CallSteps
<1>3. /\ DOMAIN opening = DOMAIN Views!Idle /\ opening.op = "catalog" /\ opening.pc \in {"check", "shown"}
      /\ opening.heads = view.heads /\ opening.available = view.available /\ opening.version = view.version
      /\ view.version = 0 => opening.pc = "shown" /\ opening.states = view.states
      /\ view.version # 0 => opening.states = states
  BY <1>1, ViewDomain DEF ViewInv, ViewTyped, Views!To
<1>. HIDE DEF opening, listed
<1>4. view.states = <<>> /\ view.available \subseteq configured
  BY <1>1 DEF ViewInv, StatesAreOfHeads, HeadsWereServed
<1>5. \A n \in DOMAIN Catalogue :
         /\ Views!State(n) = "ready" => view.heads[n] = view.version
         /\ Usable(n) /\ view.heads[n] = view.version => Views!State(n) = "ready"
  BY <1>4 DEF Views!State, Views!Pending, Views!HasIndex, Usable
<1>6. DOMAIN states = DOMAIN Catalogue /\ \A n \in DOMAIN Catalogue : states[n] = Views!State(n)
  OBVIOUS
<1>. HIDE DEF states
<1>7. HeadsWereServed'
  BY <1>1, <1>2, <1>3 DEF ViewInv, HeadsWereServed
<1>8. ViewTyped' /\ AssetIsOfItsVersion'
  BY <1>2, <1>3 DEF ViewInv, ViewTyped, AssetIsOfItsVersion
<1>9. StatesAreOfHeads'
  <2>1. CASE view.version = 0
    BY <2>1, <1>2, <1>3, <1>4 DEF StatesAreOfHeads
  <2>2. CASE view.version # 0
    BY <2>2, <1>2, <1>3, <1>5, <1>6 DEF StatesAreOfHeads, Usable
  <2>. QED  BY <2>1, <2>2
<1>. QED  BY <1>2, <1>7, <1>8, <1>9 DEF ViewInv

LEMMA AssetStep ==
    ASSUME ViewInv, Views!FindIndex \/ Views!ReadFiles \/ Views!ReadBytes
    PROVE  ViewInv'
<1>1. CallRuns /\ view.op = "asset" /\ view.pc \in {"index", "files", "bytes"} /\ view.version \in Views!Versions
  BY DEF Views!FindIndex, Views!ReadFiles, Views!ReadBytes, CallRuns, Views!Ended, ViewInv, ViewTyped,
         AssetIsOfItsVersion
<1>2. ASSUME NEW opening, Views!Go(opening), DOMAIN opening = DOMAIN Views!Idle, opening.op = "asset",
             opening.pc \in {"files", "bytes", "check", "not_found", "failed"}, opening.version = view.version,
             opening.pc = "files" => opening.found = view.version \/ view.version \in gone,
             opening.pc = "check" => opening.content = view.version \/ view.version \in gone
      PROVE  ViewInv'
  <2>1. /\ view' = opening /\ HistoryIsOfTheCall'
        /\ UNCHANGED <<media, configured, foreign, document, index, headed, ever, always, gone>>
    BY <1>1, <1>2, CallSteps
  <2>2. ViewTyped' /\ AssetIsOfItsVersion'
    BY <1>1, <1>2, <2>1 DEF ViewInv, ViewTyped, AssetIsOfItsVersion
  <2>3. HeadsWereServed' /\ StatesAreOfHeads'
    BY <1>2, <2>1 DEF HeadsWereServed, StatesAreOfHeads
  <2>. QED  BY <2>1, <2>2, <2>3 DEF ViewInv
<1>3. document # view.version => view.version \in gone
  BY <1>1 DEF ViewInv, HistoryIsOfTheCall
<1>4. ASSUME NEW pc, NEW x
      PROVE  LET found == [Views!To(pc) EXCEPT !.found = x]
                 shown == [Views!To(pc) EXCEPT !.content = x]
             IN /\ \A opening \in {Views!To(pc), found, shown} :
                      /\ DOMAIN opening = DOMAIN Views!Idle /\ opening.op = "asset" /\ opening.pc = pc
                      /\ opening.version = view.version
                /\ found.found = x /\ shown.content = x
  BY <1>1, ViewDomain DEF ViewInv, ViewTyped, Views!To
<1>5. CASE Views!FindIndex
  <2>1. CASE Views!Current(Visual) = 0
    BY <2>1, <1>2, <1>4, <1>5 DEF Views!FindIndex
  <2>2. CASE Views!Current(Visual) # 0
    <3>. DEFINE opening == [Views!To("files") EXCEPT !.found = Views!Current(Visual)]
    <3>1. Views!Go(opening) /\ Views!Current(Visual) = document
      BY <2>2, <1>5 DEF Views!FindIndex, Views!Current
    <3>2. /\ DOMAIN opening = DOMAIN Views!Idle /\ opening.op = "asset" /\ opening.pc = "files"
          /\ opening.version = view.version /\ opening.found = Views!Current(Visual)
      BY <1>4
    <3>. HIDE DEF opening
    <3>. QED  BY <3>1, <3>2, <1>2, <1>3
  <2>. QED  BY <2>1, <2>2
<1>6. CASE Views!ReadFiles
  <2>. DEFINE opening == [Views!To("check") EXCEPT !.content = view.found]
  <2>1. Views!Go(opening) \/ Views!Go(Views!To("failed"))
    BY <1>6 DEF Views!ReadFiles
  <2>2. view.found = view.version \/ view.version \in gone
    BY <1>1, <1>6 DEF Views!ReadFiles, ViewInv, AssetIsOfItsVersion
  <2>3. /\ DOMAIN opening = DOMAIN Views!Idle /\ opening.op = "asset" /\ opening.pc = "check"
        /\ opening.version = view.version /\ opening.content = view.found
    BY <1>4
  <2>4. CASE Views!Go(Views!To("failed"))
    BY <2>4, <1>2, <1>4
  <2>. HIDE DEF opening
  <2>5. CASE Views!Go(opening)
    BY <2>2, <2>3, <2>5, <1>2
  <2>. QED  BY <2>1, <2>4, <2>5
<1>7. CASE Views!ReadBytes
  <2>. DEFINE opening == [Views!To("check") EXCEPT !.content = document]
  <2>1. IF document # view.version THEN Views!Go(Views!To("not_found")) ELSE Views!Go(opening)
    BY <1>7 DEF Views!ReadBytes
  <2>2. /\ DOMAIN opening = DOMAIN Views!Idle /\ opening.op = "asset" /\ opening.pc = "check"
        /\ opening.version = view.version /\ opening.content = document
    BY <1>4
  <2>3. CASE Views!Go(Views!To("not_found"))
    BY <2>3, <1>2, <1>4
  <2>. HIDE DEF opening
  <2>4. CASE document = view.version /\ Views!Go(opening)
    BY <2>2, <2>4, <1>2
  <2>. QED  BY <2>1, <2>3, <2>4
<1>. QED  BY <1>5, <1>6, <1>7

LEMMA TextStep ==
    ASSUME ViewInv, Views!ReadText
    PROVE  ViewInv'
<1>. DEFINE taken == Views!Kept(view.sections, view.limit)
            opening == [Views!To("check") EXCEPT !.kept = taken.kept, !.truncated = taken.truncated,
                                                 !.content = view.version]
<1>1. CallRuns /\ Views!Go(opening) /\ view.op = "text"
  BY DEF Views!ReadText, CallRuns, Views!Ended, ViewInv, ViewTyped
<1>2. /\ view' = opening /\ HistoryIsOfTheCall'
      /\ UNCHANGED <<media, configured, foreign, document, index, headed, ever, always, gone>>
  BY <1>1, CallSteps
<1>. HIDE DEF taken
<1>3. DOMAIN opening = DOMAIN Views!Idle /\ opening.op = "text" /\ opening.pc = "check"
  BY <1>1, ViewDomain DEF ViewInv, ViewTyped, Views!To
<1>. HIDE DEF opening
<1>. QED  BY <1>2, <1>3 DEF ViewInv, ViewTyped, HeadsWereServed, StatesAreOfHeads, AssetIsOfItsVersion

LEMMA ShowStep ==
    ASSUME ViewInv, Views!Show
    PROVE  ViewInv'
<1>. DEFINE again == Views!StillCurrent /\ document \in gone
            opening == [Views!To(IF Views!StillCurrent THEN "shown" ELSE "retry") EXCEPT !.returned = again]
<1>1. CallRuns /\ Views!Go(opening) /\ view.op \in {"catalog", "asset", "text"} /\ view.pc = "check"
  BY DEF Views!Show, CallRuns, Views!Ended, ViewInv, ViewTyped
<1>2. /\ view' = opening /\ HistoryIsOfTheCall'
      /\ UNCHANGED <<media, configured, foreign, document, index, headed, ever, always, gone>>
  BY <1>1, CallSteps
<1>3. /\ DOMAIN opening = DOMAIN Views!Idle /\ opening.op = view.op
      /\ opening.pc = (IF Views!StillCurrent THEN "shown" ELSE "retry")
      /\ opening.heads = view.heads /\ opening.available = view.available /\ opening.states = view.states
      /\ opening.version = view.version /\ opening.content = view.content /\ opening.returned = again
  BY <1>1, ViewDomain DEF ViewInv, ViewTyped, Views!To
<1>. HIDE DEF opening
<1>4. ViewTyped' /\ HeadsWereServed'
  BY <1>1, <1>2, <1>3 DEF ViewInv, ViewTyped, HeadsWereServed
<1>5. StatesAreOfHeads'
  BY <1>1, <1>2, <1>3 DEF ViewInv, StatesAreOfHeads, Usable
<1>6. AssetIsOfItsVersion'
  <2>1. CASE opening.pc = "shown"
    BY <1>1, <1>2, <1>3, <2>1 DEF ViewInv, AssetIsOfItsVersion, Views!StillCurrent
  <2>2. CASE opening.pc = "retry"
    BY <1>2, <2>2 DEF AssetIsOfItsVersion
  <2>. QED  BY <1>3, <2>1, <2>2
<1>. QED  BY <1>2, <1>4, <1>5, <1>6 DEF ViewInv

LEMMA ViewStep == ViewInv /\ [Views!Next]_Views!viewsVars => ViewInv'
<1>. SUFFICES ASSUME ViewInv, [Views!Next]_Views!viewsVars PROVE ViewInv'
  OBVIOUS
<1>1. CASE UNCHANGED Views!viewsVars
  <2>1. UNCHANGED <<media, configured, foreign, document, index, headed, view, ever, always, gone, changes>>
    BY <1>1 DEF Views!viewsVars, Views!setting, Views!stand, Views!history
  <2>2. Views!Served' = Views!Served
    BY <2>1 DEF Views!Served, Views!Current
  <2>. QED  BY <2>1, <2>2
            DEF ViewInv, ViewTyped, HistoryIsOfTheCall, HeadsWereServed, StatesAreOfHeads, AssetIsOfItsVersion, Usable,
                CallRuns
<1>. QED  BY <1>1, JobsStep, BeginStep, ReadHeadsStep, ReadDocumentsStep, ReadPendingStep, AssetStep, TextStep, ShowStep
          DEF Views!Next

(* The catalogue that a reader is shown is of the call: an engine called    *)
(* ready for a version served it at some moment of the call, one that served*)
(* it throughout is called ready; and bytes go out under the version they   *)
(* are of, unless that one was replaced and has come back (reader.py:53-132).*)
(* Any number of engines, versions and publications meanwhile.              *)
THEOREM ViewsAreOfTheCall == Views!Spec => [](Views!CatalogIsOfTheCall /\ Views!BytesAreOfTheirVersion)
<1>1. ViewInv => Views!CatalogIsOfTheCall
  <2>. SUFFICES ASSUME ViewInv, view.op = "catalog", view.pc = "shown", NEW n \in DOMAIN view.states
                PROVE  /\ view.states[n] = "ready" => <<Catalogue[n], view.version>> \in ever
                       /\ Usable(n) /\ <<Catalogue[n], view.version>> \in always => view.states[n] = "ready"
    BY DEF Views!CatalogIsOfTheCall, Usable
  <2>1. n \in DOMAIN view.heads
    BY HostPartsAssumption DEF ViewInv, StatesAreOfHeads, HeadsWereServed
  <2>. QED  BY <2>1 DEF ViewInv, StatesAreOfHeads, HeadsWereServed
<1>2. ViewInv => Views!BytesAreOfTheirVersion
  BY DEF ViewInv, AssetIsOfItsVersion, Views!BytesAreOfTheirVersion
<1>. QED  BY <1>1, <1>2, ViewInit, ViewStep, PTL DEF Views!Spec

-----------------------------------------------------------------------------
(* A document's text.                                                       *)

(* What is put together: pages by their number, from pieces of characters.  *)
Pieces(C) == [unit : Nat, text : Seq(C), start : Nat, end : Nat]
PageRecords(C) == [start : Nat, text : Seq(C)]
PageSets(C) == UNION {[D -> PageRecords(C)] : D \in SUBSET Nat}
Adding(C) == [p \in PageSets(C) \X Pieces(C) |-> Text!Added(p[1], p[2])]

(* A text put together holds the first one, then blanks up to the offset,   *)
(* then what the second one adds (pdf_pages.py:27-30).                      *)
LEMMA JoinedIs ==
    ASSUME NEW C, "space" \in C, NEW text \in Seq(C), NEW offset \in Int, NEW more \in Seq(C)
    PROVE  LET joined == Text!Joined(text, offset, more)
           IN /\ joined \in Seq(C)
              /\ Len(joined) >= Len(text) /\ Len(joined) >= offset + Len(more)
              /\ Len(joined) <= Len(text) \/ Len(joined) <= offset + Len(more)
              /\ \A n \in 1 .. Len(joined) :
                    joined[n] = IF n <= Len(text) THEN text[n]
                                ELSE IF n <= offset THEN "space" ELSE more[n - offset]
<1>. DEFINE gap == IF offset > Len(text) THEN offset - Len(text) ELSE 0
            blanks == [n \in 1 .. gap |-> "space"]
            padded == text \o blanks
            from == Len(padded) - offset + 1
            rest == SubSeq(more, from, Len(more))
            joined == padded \o rest
<1>1. gap \in Nat /\ blanks \in Seq(C) /\ Len(blanks) = gap /\ \A n \in 1 .. gap : blanks[n] = "space"
  OBVIOUS
<1>. HIDE DEF blanks
<1>2. /\ padded \in Seq(C) /\ Len(padded) = Len(text) + gap
      /\ \A n \in 1 .. Len(padded) : padded[n] = IF n <= Len(text) THEN text[n] ELSE "space"
  BY <1>1
<1>3. Len(padded) >= offset /\ Len(padded) >= Len(text) /\ (Len(padded) = Len(text) \/ Len(padded) = offset)
      /\ (offset > Len(text) => Len(padded) = offset) /\ (offset <= Len(text) => Len(padded) = Len(text))
  BY <1>2
<1>. HIDE DEF padded, gap
<1>4. from \in Nat \ {0} /\ Len(more) \in Nat
  BY <1>2, <1>3
<1>5. /\ rest \in Seq(C) /\ Len(rest) = IF from <= Len(more) THEN Len(more) - from + 1 ELSE 0
      /\ \A n \in 1 .. Len(rest) : rest[n] = more[from + n - 1]
  <2>. HIDE DEF from
  <2>1. \A n \in from .. Len(more) : more[n] \in C
    BY <1>4
  <2>. QED  BY <1>4, <2>1
<1>6. from = Len(padded) - offset + 1
  OBVIOUS
<1>. HIDE DEF from, rest
<1>7. /\ joined \in Seq(C) /\ Len(joined) = Len(padded) + Len(rest)
      /\ \A n \in 1 .. Len(padded) : joined[n] = padded[n]
      /\ \A n \in Len(padded) + 1 .. Len(joined) : joined[n] = rest[n - Len(padded)]
  <2>1. joined \in Seq(C) /\ Len(joined) = Len(padded) + Len(rest)
    BY <1>2, <1>5, ConcatProperties
  <2>2. \A n \in 1 .. Len(padded) + Len(rest) :
          joined[n] = IF n <= Len(padded) THEN padded[n] ELSE rest[n - Len(padded)]
    BY <1>2, <1>5, ConcatProperties
  <2>. HIDE DEF joined
  <2>3. Len(padded) \in Nat /\ Len(rest) \in Nat
    BY <1>2, <1>5
  <2>. QED  BY <2>1, <2>2, <2>3
<1>. HIDE DEF joined
<1>8. Len(joined) >= Len(text) /\ Len(joined) >= offset + Len(more)
      /\ (Len(joined) <= Len(text) \/ Len(joined) <= offset + Len(more))
  <2>1. /\ Len(text) \in Nat /\ Len(padded) \in Nat /\ Len(rest) \in Nat
        /\ Len(joined) = Len(padded) + Len(rest) /\ Len(more) \in Nat
    BY <1>2, <1>4, <1>5, <1>7
  <2>2. CASE from <= Len(more)
    <3>1. Len(joined) = offset + Len(more)
      <4>1. Len(rest) = Len(more) - from + 1
        BY <1>5, <2>2
      <4>. QED  BY <1>4, <1>6, <2>1, <4>1
    <3>. QED  BY <1>3, <2>1, <3>1
  <2>3. CASE from > Len(more)
    <3>1. Len(joined) = Len(padded) /\ Len(padded) >= offset + Len(more)
      <4>1. Len(rest) = 0
        BY <1>4, <1>5, <2>3
      <4>. QED  BY <1>4, <1>6, <2>1, <2>3, <4>1
    <3>. QED  BY <1>3, <2>1, <3>1
  <2>. QED  BY <1>4, <2>1, <2>2, <2>3
<1>9. ASSUME NEW n \in 1 .. Len(joined)
      PROVE  joined[n] = IF n <= Len(text) THEN text[n] ELSE IF n <= offset THEN "space" ELSE more[n - offset]
  <2>1. CASE n \in 1 .. Len(padded)
    BY <2>1, <1>2, <1>3, <1>7
  <2>2. CASE n \in Len(padded) + 1 .. Len(joined)
    <3>. Len(padded) \in Nat /\ Len(rest) \in Nat
      BY <1>2, <1>5
    <3>1. n - Len(padded) \in 1 .. Len(rest) /\ from + (n - Len(padded)) - 1 = n - offset
      BY <2>2, <1>6, <1>7
    <3>2. joined[n] = more[n - offset]
      BY <2>2, <3>1, <1>5, <1>7
    <3>. QED  BY <2>2, <3>2, <1>2, <1>3
  <2>3. n \in 1 .. Len(padded) \/ n \in Len(padded) + 1 .. Len(joined)
    BY <1>2, <1>5, <1>7
  <2>. QED  BY <2>1, <2>2, <2>3
<1>10. Text!Joined(text, offset, more) = joined
  BY DEF Text!Joined, joined, padded, rest, from, blanks, gap
<1>. QED  BY <1>7, <1>8, <1>9, <1>10

(* A chunk changes its own page only, which begins with it if it is new     *)
(* (pdf_pages.py:25-30).                                                    *)
IsAdded(C, more, pages, c) ==
    LET begun == c.unit \in DOMAIN pages
        from == IF begun THEN pages[c.unit].start ELSE c.start
        text == IF begun THEN pages[c.unit].text ELSE <<>>
    IN /\ more \in PageSets(C) /\ DOMAIN more = DOMAIN pages \cup {c.unit}
       /\ \A u \in DOMAIN pages : u # c.unit => more[u] = pages[u]
       /\ from \in Nat /\ text \in Seq(C) /\ c.start - from \in Int
       /\ more[c.unit] = [start |-> from, text |-> Text!Joined(text, c.start - from, c.text)]

LEMMA AddedIs ==
    ASSUME NEW C, "space" \in C, NEW pages \in PageSets(C), NEW c \in Pieces(C)
    PROVE  IsAdded(C, Text!Added(pages, c), pages, c)
<1>. DEFINE begun == c.unit \in DOMAIN pages
            page == IF begun THEN pages[c.unit] ELSE [start |-> c.start, text |-> <<>>]
            joined == Text!Joined(page.text, c.start - page.start, c.text)
            more == [u \in DOMAIN pages \cup {c.unit} |->
                        IF u = c.unit THEN [start |-> page.start, text |-> joined] ELSE pages[u]]
<1>1. PICK D \in SUBSET Nat : pages \in [D -> PageRecords(C)]
  BY DEF PageSets
<1>2. c.unit \in Nat /\ c.start \in Nat /\ c.text \in Seq(C)
  BY DEF Pieces
<1>3. page.start \in Nat /\ page.text \in Seq(C)
  BY <1>1, <1>2 DEF PageRecords
<1>4. /\ page.start = IF begun THEN pages[c.unit].start ELSE c.start
      /\ page.text = IF begun THEN pages[c.unit].text ELSE <<>>
  OBVIOUS
<1>. HIDE DEF page
<1>5. c.start - page.start \in Int
  BY <1>2, <1>3
<1>6. joined \in Seq(C)
  BY <1>2, <1>3, <1>5, JoinedIs
<1>. HIDE DEF joined
<1>7. [start |-> page.start, text |-> joined] \in PageRecords(C)
  BY <1>3, <1>6 DEF PageRecords
<1>8. more \in [D \cup {c.unit} -> PageRecords(C)] /\ D \cup {c.unit} \in SUBSET Nat
  BY <1>1, <1>2, <1>7
<1>9. more \in PageSets(C)
  BY <1>8 DEF PageSets
<1>10. more = Text!Added(pages, c)
  BY DEF Text!Added, more, page, joined
<1>11. /\ DOMAIN more = DOMAIN pages \cup {c.unit}
       /\ \A u \in DOMAIN pages : u # c.unit => more[u] = pages[u]
       /\ more[c.unit] = [start |-> page.start, text |-> joined]
  OBVIOUS
<1>. HIDE DEF more
<1>12. joined = Text!Joined(page.text, c.start - page.start, c.text)
  BY DEF joined
<1>. QED  BY <1>3, <1>4, <1>5, <1>9, <1>10, <1>11, <1>12 DEF IsAdded

LEMMA AddingTyped ==
    ASSUME NEW C, "space" \in C
    PROVE  Text!NoPages \in PageSets(C) /\ Adding(C) \in [PageSets(C) \X Pieces(C) -> PageSets(C)]
<1>1. Text!NoPages \in [{} -> PageRecords(C)]
  BY DEF Text!NoPages
<1>2. Text!NoPages \in PageSets(C)
  BY <1>1 DEF PageSets
<1>3. \A p \in PageSets(C) \X Pieces(C) : Text!Added(p[1], p[2]) \in PageSets(C)
  BY AddedIs DEF IsAdded
<1>. QED  BY <1>2, <1>3 DEF Adding

LEMMA PagesAreIterated ==
    ASSUME NEW C, "space" \in C, NEW s \in Seq(Pieces(C))
    PROVE  Text!FoldLeft(Text!Added, Text!NoPages, s) = Iterate(Adding(C), Text!NoPages, s)
<1>. DEFINE b == Text!NoPages
            A == PageSets(C)
            E == Pieces(C)
            g == Adding(C)
            Is(it) == it = [t \in SUBSET DOMAIN s |-> IF t = {} THEN b ELSE Text!Added(it[t \ {Max(t)}], s[Max(t)])]
            pick == CHOOSE it : Is(it)
<1>1. Text!FoldLeft(Text!Added, Text!NoPages, s) = pick[DOMAIN s]
  BY DEF Text!FoldLeft, Text!MapThenFoldSet, Text!Max, Max
<1>2. b \in A /\ g \in Folds(A, E) /\ s \in Seq(E) /\ \A p \in A, c \in E : g[<<p, c>>] = Text!Added(p, c)
  BY AddingTyped DEF Adding, Folds
<1>. HIDE DEF b, A, E, g
<1>3. PICK it \in [SUBSET DOMAIN s -> A] : Inside(it, s, b, g, A, E)
  BY <1>2, UnrollingInside
<1>4. Is(it)
  <2>1. \A t \in SUBSET DOMAIN s : it[t] = IF t = {} THEN b ELSE Text!Added(it[t \ {Max(t)}], s[Max(t)])
    BY <1>2, <1>3 DEF Inside
  <2>. QED  BY <2>1
<1>5. Is(pick)
  BY <1>4
<1>. HIDE DEF pick
<1>6. \A t \in SUBSET DOMAIN s : pick[t] = IF t = {} THEN b ELSE Text!Added(pick[t \ {Max(t)}], s[Max(t)])
  BY <1>5
<1>7. ASSUME NEW t \in SUBSET DOMAIN s, t # {}, pick[t \ {Max(t)}] \in A
      PROVE  pick[t] = g[<<pick[t \ {Max(t)}], s[Max(t)]>>]
  <2>1. s[Max(t)] \in E
    BY <1>3, <1>7 DEF Inside
  <2>. QED  BY <1>2, <1>6, <1>7, <2>1
<1>8. pick = [t \in SUBSET DOMAIN s |-> pick[t]] /\ pick[{}] = b
  BY <1>5, <1>6
<1>9. pick[DOMAIN s] = Iterate(g, b, s)
  <2>1. Goes(pick, s, b, g, A)
    BY <1>7, <1>8 DEF Goes
  <2>. QED  BY <1>2, <2>1, UnrollingFollowed
<1>. QED  BY <1>1, <1>9 DEF b, g

LEMMA PagesOfNothing == Text!FoldLeft(Text!Added, Text!NoPages, <<>>) = Text!NoPages
<1>. DEFINE C == {"space"}
            none == <<>>
<1>1. "space" \in C /\ none \in Seq(Pieces(C))
  OBVIOUS
<1>2. Text!NoPages \in PageSets(C) /\ Adding(C) \in [PageSets(C) \X Pieces(C) -> PageSets(C)]
  BY <1>1, AddingTyped
<1>. HIDE DEF C
<1>3. Iterate(Adding(C), Text!NoPages, <<>>) = Text!NoPages
  BY <1>2, IterateNothing
<1>4. Text!FoldLeft(Text!Added, Text!NoPages, none) = Iterate(Adding(C), Text!NoPages, none)
  <2>. HIDE DEF none
  <2>. QED  BY <1>1, PagesAreIterated
<1>. QED  BY <1>3, <1>4

LEMMA PagesOfMore ==
    ASSUME NEW C, "space" \in C, NEW s \in Seq(Pieces(C)), NEW c \in Pieces(C)
    PROVE  LET pages == Text!FoldLeft(Text!Added, Text!NoPages, s)
           IN /\ pages \in PageSets(C)
              /\ Text!FoldLeft(Text!Added, Text!NoPages, Append(s, c)) = Text!Added(pages, c)
<1>. DEFINE b == Text!NoPages
            g == Adding(C)
            more == Append(s, c)
<1>1. b \in PageSets(C) /\ g \in [PageSets(C) \X Pieces(C) -> PageSets(C)]
  BY AddingTyped
<1>6. more \in Seq(Pieces(C))
  OBVIOUS
<1>2. \A p \in PageSets(C) : g[<<p, c>>] = Text!Added(p, c)
  BY DEF Adding
<1>3. /\ Text!FoldLeft(Text!Added, Text!NoPages, s) = Iterate(g, b, s)
      /\ Text!FoldLeft(Text!Added, Text!NoPages, more) = Iterate(g, b, more)
  <2>. HIDE DEF more
  <2>. QED  BY <1>1, <1>6, PagesAreIterated
<1>. HIDE DEF b, g
<1>4. Iterate(g, b, s) \in PageSets(C)
  BY <1>1, IterateTyped
<1>5. Iterate(g, b, more) = g[<<Iterate(g, b, s), c>>]
  <2>1. Extended(more, s, c)
    BY DEF Extended
  <2>. HIDE DEF more
  <2>. DEFINE A == PageSets(C)
              E == Pieces(C)
  <2>2. b \in A /\ g \in Folds(A, E) /\ s \in Seq(E) /\ c \in E /\ more \in Seq(E)
    BY <1>1, <1>6 DEF Folds
  <2>. HIDE DEF A, E
  <2>. QED  BY <2>1, <2>2, IterateMore
<1>. QED  BY <1>2, <1>3, <1>4, <1>5

(* Sums of lengths are lengths (ingestion.py:162).                          *)
Summing == [p \in Nat \X Nat |-> p[1] + p[2]]

LEMMA SumIs ==
    ASSUME NEW s \in Seq(Nat)
    PROVE  /\ Text!FoldLeft(+, 0, s) \in Nat /\ (Len(s) = 0 => Text!FoldLeft(+, 0, s) = 0)
           /\ Text!FoldLeft(+, 0, s) = Iterate(Summing, 0, s)
<1>. DEFINE A == Nat
            E == Nat
            g == Summing
            Is(it) == it = [t \in SUBSET DOMAIN s |-> IF t = {} THEN 0 ELSE it[t \ {Max(t)}] + s[Max(t)]]
            pick == CHOOSE it : Is(it)
<1>1. Text!FoldLeft(+, 0, s) = pick[DOMAIN s]
  BY DEF Text!FoldLeft, Text!MapThenFoldSet, Text!Max, Max
<1>2. 0 \in A /\ g \in Folds(A, E) /\ s \in Seq(E) /\ \A p \in A, c \in E : g[<<p, c>>] = p + c
  BY DEF Summing, Folds
<1>. HIDE DEF A, E, g
<1>3. PICK it \in [SUBSET DOMAIN s -> A] : Inside(it, s, 0, g, A, E)
  BY <1>2, UnrollingInside
<1>4. Is(it)
  <2>1. \A t \in SUBSET DOMAIN s : it[t] = IF t = {} THEN 0 ELSE it[t \ {Max(t)}] + s[Max(t)]
    BY <1>2, <1>3 DEF Inside
  <2>. QED  BY <2>1
<1>5. Is(pick)
  BY <1>4
<1>. HIDE DEF pick
<1>6. \A t \in SUBSET DOMAIN s : pick[t] = IF t = {} THEN 0 ELSE pick[t \ {Max(t)}] + s[Max(t)]
  BY <1>5
<1>7. pick[{}] = 0
  <2>1. {} \in SUBSET DOMAIN s
    OBVIOUS
  <2>2. pick[{}] = IF {} = {} THEN 0 ELSE pick[{} \ {Max({})}] + s[Max({})]
    BY <1>6, <2>1, Zenon
  <2>. QED  BY <2>2, Zenon
<1>8. ASSUME NEW t \in SUBSET DOMAIN s, t # {}, pick[t \ {Max(t)}] \in A
      PROVE  pick[t] = g[<<pick[t \ {Max(t)}], s[Max(t)]>>]
  <2>1. s[Max(t)] \in E
    BY <1>3, <1>8 DEF Inside
  <2>. QED  BY <1>2, <1>6, <1>8, <2>1
<1>9. pick = [t \in SUBSET DOMAIN s |-> pick[t]]
  BY <1>5
<1>10. pick[DOMAIN s] = Iterate(g, 0, s)
  <2>1. Goes(pick, s, 0, g, A)
    BY <1>7, <1>8, <1>9 DEF Goes
  <2>. QED  BY <1>2, <2>1, UnrollingFollowed
<1>11. Iterate(g, 0, s) \in A
  <2>1. g \in [A \X E -> A]
    BY <1>2 DEF Folds
  <2>. QED  BY <1>2, <2>1, IterateTyped
<1>12. Len(s) = 0 => DOMAIN s = {}
  OBVIOUS
<1>. QED  BY <1>1, <1>7, <1>10, <1>11, <1>12 DEF A, g

LEMMA GreatestInText ==
    ASSUME NEW b \in Nat, NEW T \in SUBSET (0 .. b), T # {}
    PROVE  Text!Max(T) \in T /\ \A x \in T : x <= Text!Max(T)
<1>1. Text!Max(T) = Max(T)
  BY DEF Text!Max, Max
<1>. QED  BY <1>1, Greatest

LEMMA LeastInText ==
    ASSUME NEW T \in SUBSET Nat, T # {}
    PROVE  Text!Min(T) \in T /\ \A x \in T : Text!Min(T) <= x
<1>1. PICK m \in T : \A k \in T : m <= k
  BY LeastNumber
<1>. QED  BY <1>1 DEF Text!Min

(* The invariant: segments follow each other and take up every unit with    *)
(* text before the one that is read (parser_worker.py:65-148).              *)
Paged == file.suffix \in {"txt", "pdf"}
Chars == {"space"} \cup UNION {Text!ToSet(file.units[n]) : n \in DOMAIN file.units}
HasText(n) == IF Paged THEN ~Text!IsBlank(file.units[n]) ELSE file.units[n] # "blank"
Spans == [from : Nat, to : Nat]
Going == {"reading", "cutting", "done"}

TextTyped ==
    /\ file \in Files /\ size \in (Nat \ {0}) \X Nat /\ at \in Nat \ {0} /\ start \in Nat
    /\ segments \in Seq(Spans) /\ outcome \in Going \cup Text!Codes
    /\ Paged => chunks \in Seq(Pieces(Chars))

SegmentsFollow ==
    /\ \A k \in DOMAIN segments :
          /\ 1 <= segments[k].from /\ segments[k].from <= segments[k].to /\ segments[k].to <= Len(file.units)
          /\ Paged => segments[k].to = segments[k].from /\ HasText(segments[k].from)
    /\ \A j, k \in DOMAIN segments : j < k => segments[j].to < segments[k].from

ReadSoFar ==
    outcome = "reading" =>
        /\ at <= Len(file.units) + 1 /\ start = 0 /\ chunks = <<>>
        /\ \A k \in DOMAIN segments : segments[k].to < at

UnitsAreCovered ==
    outcome \in Going =>
        \A n \in DOMAIN file.units :
            HasText(n) /\ (outcome = "reading" => n < at) =>
                \E k \in DOMAIN segments : n \in segments[k].from .. segments[k].to

LEMMA FileIs ==
    ASSUME file \in Files
    PROVE  /\ Len(file.units) \in Nat /\ DOMAIN file.units = 1 .. Len(file.units)
           /\ file.suffix \in {"txt", "md", "csv", "docx", "pdf"}
           /\ file.suffix = "md" => \A n \in DOMAIN file.units : file.units[n] \in Text!Lines
           /\ Paged => \A n \in DOMAIN file.units : file.units[n] \in Seq(Chars)
           /\ file.suffix = "txt" => Len(file.units) = 1
           /\ file.suffix = "pdf" => \A n \in DOMAIN file.units : Text!Stripped(file.units[n])
<1>1. Text!WellFormed(file)
  BY HostPartsAssumption
<1>2. file.units \in Seq(Text!ToSet(file.units))
  BY <1>1 DEF Text!WellFormed
<1>3. ASSUME Paged, NEW n \in DOMAIN file.units
      PROVE  file.units[n] \in Seq(Chars)
  <2>1. file.units[n] \in Seq(Text!ToSet(file.units[n]))
    BY <1>1, <1>3 DEF Text!WellFormed, Paged
  <2>2. Text!ToSet(file.units[n]) \subseteq Chars
    BY DEF Chars
  <2>. QED  BY <2>1, <2>2
<1>. QED  BY <1>1, <1>2, <1>3 DEF Text!WellFormed

LEMMA SegmentEndIs ==
    ASSUME file \in Files, at \in 1 .. Len(file.units)
    PROVE  /\ ~HasText(at) => Text!SegmentEnd = 0
           /\ HasText(at) => Text!SegmentEnd \in at .. Len(file.units)
           /\ HasText(at) /\ Paged => Text!SegmentEnd = at
<1>. DEFINE last == Len(file.units)
<1>1. last \in Nat /\ at \in 1 .. last /\ DOMAIN file.units = 1 .. last
  BY FileIs
<1>2. CASE Paged
  BY <1>1, <1>2 DEF Paged, HasText, Text!SegmentEnd, Text!PageEnd, Text!Here, Text!Unit
<1>3. CASE file.suffix \in {"csv", "docx"}
  BY <1>1, <1>3 DEF Paged, HasText, Text!SegmentEnd, Text!RowEnd, Text!Here, Text!Unit
<1>4. CASE file.suffix = "md"
  <2>1. Text!SegmentEnd = Text!MarkdownEnd /\ ~Paged /\ file.units[at] \in Text!Lines
    BY <1>1, <1>4, FileIs DEF Text!SegmentEnd, Paged
  <2>2. ASSUME NEW kinds
        PROVE  Text!RunFrom(kinds) \in at .. last
    <3>. DEFINE ends == {n \in at .. Len(file.units) : \A k \in at + 1 .. n : file.units[k] \in kinds}
    <3>1. at \in ends /\ ends \in SUBSET (0 .. last) /\ ends \subseteq at .. last
      BY <1>1
    <3>2. Text!RunFrom(kinds) = Text!Max(ends)
      BY DEF Text!RunFrom, Text!Unit
    <3>. HIDE DEF ends, last
    <3>3. Text!Max(ends) \in ends
      BY <1>1, <3>1, GreatestInText
    <3>. QED  BY <3>1, <3>2, <3>3
  <2>3. Text!BlockEnd \in at .. last
    <3>. DEFINE closing == {n \in at + 1 .. Len(file.units) : file.units[n] = file.units[at]}
    <3>1. closing \in SUBSET Nat /\ closing \subseteq at .. last
      BY <1>1
    <3>2. Text!BlockEnd = IF closing = {} THEN Len(file.units) ELSE Text!Min(closing)
      BY DEF Text!BlockEnd, Text!Unit, Text!Here
    <3>. HIDE DEF closing
    <3>3. CASE closing = {}
      BY <1>1, <3>2, <3>3
    <3>4. CASE closing # {}
      <4>1. Text!Min(closing) \in closing
        BY <3>1, <3>4, LeastInText
      <4>. QED  BY <3>1, <3>2, <3>4, <4>1
    <3>. QED  BY <3>3, <3>4
  <2>4. Text!Here = file.units[at]
    BY DEF Text!Here, Text!Unit
  <2>5. HasText(at) <=> Text!Here # "blank"
    BY <2>1, <2>4 DEF HasText
  <2>6. CASE Text!Here = "blank"
    BY <2>1, <2>5, <2>6 DEF Text!MarkdownEnd, Text!Heading, Text!Fence
  <2>7. CASE Text!Here \in Text!Heading
    <3>1. Text!MarkdownEnd = at
      BY <2>7 DEF Text!MarkdownEnd, Text!Heading, Text!Fence
    <3>2. Text!Here # "blank"
      BY <2>7 DEF Text!Heading
    <3>. QED  BY <1>1, <2>1, <2>5, <3>1, <3>2
  <2>8. CASE Text!Here \in Text!Fence
    <3>1. Text!MarkdownEnd = Text!BlockEnd
      BY <2>8 DEF Text!MarkdownEnd, Text!Heading, Text!Fence
    <3>. QED  BY <2>1, <2>3, <2>5, <2>8, <3>1 DEF Text!Fence
  <2>9. CASE Text!Here = "bar"
    <3>1. Text!MarkdownEnd = Text!RunFrom(Text!Barred)
      BY <2>9 DEF Text!MarkdownEnd, Text!Heading, Text!Fence
    <3>. QED  BY <2>1, <2>2, <2>5, <2>9, <3>1
  <2>10. CASE Text!Here = "text"
    <3>1. Text!MarkdownEnd = Text!RunFrom({"text"})
      BY <2>10 DEF Text!MarkdownEnd, Text!Heading, Text!Fence
    <3>. QED  BY <2>1, <2>2, <2>5, <2>10, <3>1
  <2>. QED  BY <2>1, <2>4, <2>6, <2>7, <2>8, <2>9, <2>10 DEF Text!Lines, Text!Heading, Text!Fence
<1>. QED  BY <1>2, <1>3, <1>4, FileIs DEF Paged

(* Cutting: every page before the one that is cut is put together again,    *)
(* and of that one all that is before the next window (ingestion.py:60-163).*)
Cutting == Paged /\ outcome \in {"cutting", "done"}

CutSoFar ==
    /\ outcome = "cutting" => Paged
    /\ Cutting =>
          /\ segments # <<>> /\ at <= Len(segments) + 1
          /\ at <= Len(segments) => start < Len(file.units[segments[at].from])
          /\ outcome = "done" => at > Len(segments)

Stored(n) ==
    \E k \in DOMAIN chunks : chunks[k].start < n /\ n <= chunks[k].end
                            /\ chunks[k].text[n - chunks[k].start] = file.units[1][n]

WordsAreStored ==
    Cutting /\ file.suffix = "txt" =>
        \A n \in DOMAIN file.units[1] :
            file.units[1][n] \notin Text!Blank /\ (at <= Len(segments) => n <= start) => Stored(n)

\* What is put together of a page whose text is cut up to a place, and of one
\* that is cut to its end.
PageBegun(page, offset, text, upto) ==
    /\ page.start = offset /\ Len(page.text) <= Len(text)
    /\ \A n \in 1 .. Len(page.text) : page.text[n] = text[n] \/ {page.text[n], text[n]} \subseteq Text!Blank
    /\ \A n \in Len(page.text) + 1 .. upto : text[n] \in Text!Blank

Restored(pages, u, text) == u \in DOMAIN pages /\ Text!SameText(pages[u].text, text)

PagesFollow(pages) ==
    /\ \A u \in DOMAIN pages : \E k \in DOMAIN segments : k <= at /\ u = segments[k].from
    /\ \A k \in DOMAIN segments : k < at => Restored(pages, segments[k].from, file.units[segments[k].from])
    /\ at <= Len(segments) =>
          LET u == segments[at].from
          IN IF start = 0 THEN u \notin DOMAIN pages
             ELSE u \in DOMAIN pages /\ PageBegun(pages[u], Text!Offset, file.units[u], start)

PagesAreFollowed == Cutting /\ file.suffix = "pdf" => PagesFollow(Text!SourcePages)

TextInv ==
    /\ TextTyped /\ SegmentsFollow /\ ReadSoFar /\ UnitsAreCovered
    /\ CutSoFar /\ WordsAreStored /\ PagesAreFollowed

LEMMA TextInit == Text!Init => TextInv
<1>. SUFFICES ASSUME Text!Init PROVE TextInv
  OBVIOUS
<1>1. /\ file \in Files /\ size \in Sizes /\ at = 1 /\ segments = <<>> /\ start = 0 /\ chunks = <<>>
      /\ outcome = "reading"
  BY DEF Text!Init
<1>2. DOMAIN segments = {} /\ segments \in Seq(Spans) /\ chunks \in Seq(Pieces(Chars))
  BY <1>1
<1>3. size \in (Nat \ {0}) \X Nat
  BY <1>1, HostPartsAssumption
<1>4. TextTyped
  BY <1>1, <1>2, <1>3 DEF TextTyped, Going
<1>5. SegmentsFollow
  BY <1>2 DEF SegmentsFollow
<1>6. ReadSoFar /\ UnitsAreCovered
  BY <1>1, <1>2, FileIs DEF ReadSoFar, UnitsAreCovered
<1>7. CutSoFar /\ WordsAreStored /\ PagesAreFollowed
  BY <1>1 DEF CutSoFar, WordsAreStored, PagesAreFollowed, Cutting
<1>. QED  BY <1>4, <1>5, <1>6, <1>7 DEF TextInv

LEMMA RejectStep ==
    ASSUME TextInv, Text!Reject
    PROVE  TextInv'
<1>1. /\ outcome' \in Text!Codes \cup {"none"} /\ outcome = "reading" /\ outcome' # "none"
      /\ UNCHANGED <<file, size, at, start, segments, chunks>>
  BY FileIs DEF Text!Reject, Text!Refuse, Text!Codes, Text!Flaw, Text!TextFlaw, Text!TableFlaw,
                Text!ArchiveFlaw, Text!PdfFlaw, TextInv, TextTyped
<1>2. outcome' \in Text!Codes /\ outcome' \notin Going
  BY <1>1 DEF Text!Codes, Going
<1>3. TextTyped' /\ SegmentsFollow'
  BY <1>1, <1>2 DEF TextInv, TextTyped, SegmentsFollow, Paged, HasText, Chars
<1>4. ReadSoFar' /\ UnitsAreCovered' /\ CutSoFar' /\ WordsAreStored' /\ PagesAreFollowed'
  BY <1>2 DEF Going, ReadSoFar, UnitsAreCovered, CutSoFar, WordsAreStored, PagesAreFollowed, Cutting
<1>. QED  BY <1>3, <1>4 DEF TextInv

LEMMA SpansTyped ==
    ASSUME NEW s \in Seq(Spans)
    PROVE  /\ Len(s) \in Nat /\ DOMAIN s = 1 .. Len(s)
           /\ \A k \in DOMAIN s : s[k].from \in Nat /\ s[k].to \in Nat
<1>1. \A k \in DOMAIN s : s[k] \in Spans
  OBVIOUS
<1>2. \A e \in Spans : e.from \in Nat /\ e.to \in Nat
  BY DEF Spans
<1>. QED  BY <1>1, <1>2

LEMMA ReadStep ==
    ASSUME TextInv, Text!Read
    PROVE  TextInv'
<1>1. /\ outcome = "reading" /\ at <= Len(file.units) /\ UNCHANGED <<file, size, start, chunks>>
      /\ TextTyped /\ SegmentsFollow /\ start = 0 /\ chunks = <<>> /\ \A k \in DOMAIN segments : segments[k].to < at
  BY DEF Text!Read, Text!More, TextInv, ReadSoFar
<1>2. /\ Len(file.units) \in Nat /\ DOMAIN file.units = 1 .. Len(file.units) /\ at \in 1 .. Len(file.units)
      /\ segments \in Seq(Spans)
  BY <1>1, FileIs DEF TextTyped
<1>3. Paged' = Paged /\ Chars' = Chars /\ \A n : HasText(n)' = HasText(n)
  BY <1>1 DEF Paged, Chars, HasText
<1>4. CASE outcome' = "document_parse_error" /\ UNCHANGED <<at, segments>>
  <2>1. outcome' \in Text!Codes /\ outcome' \notin Going
    BY <1>4 DEF Text!Codes, Going
  <2>2. TextTyped' /\ SegmentsFollow'
    BY <1>1, <1>3, <1>4, <2>1 DEF TextTyped, SegmentsFollow
  <2>3. ReadSoFar' /\ UnitsAreCovered' /\ CutSoFar' /\ WordsAreStored' /\ PagesAreFollowed'
    BY <2>1 DEF Going, ReadSoFar, UnitsAreCovered, CutSoFar, WordsAreStored, PagesAreFollowed, Cutting
  <2>. QED  BY <2>2, <2>3 DEF TextInv
<1>5. ASSUME outcome' = outcome
      PROVE  CutSoFar' /\ WordsAreStored' /\ PagesAreFollowed'
  BY <1>1, <1>5 DEF CutSoFar, WordsAreStored, PagesAreFollowed, Cutting
<1>6. CASE ~HasText(at) /\ at' = at + 1 /\ UNCHANGED <<segments, outcome>>
  <2>1. TextTyped' /\ SegmentsFollow'
    BY <1>1, <1>2, <1>3, <1>6 DEF TextTyped, SegmentsFollow
  <2>2. ReadSoFar'
    BY <1>1, <1>2, <1>6, SpansTyped DEF ReadSoFar
  <2>3. UnitsAreCovered'
    <3>. SUFFICES ASSUME NEW n \in DOMAIN file.units, HasText(n), n < at + 1
                  PROVE  \E k \in DOMAIN segments : n \in segments[k].from .. segments[k].to
      BY <1>1, <1>3, <1>6 DEF UnitsAreCovered
    <3>1. n < at
      BY <1>2, <1>6
    <3>. QED  BY <1>1, <3>1 DEF TextInv, UnitsAreCovered, Going
  <2>. QED  BY <1>5, <1>6, <2>1, <2>2, <2>3 DEF TextInv
<1>7. ASSUME NEW end \in at .. Len(file.units), HasText(at), Paged => end = at,
             segments' = Append(segments, [from |-> at, to |-> end]), at' = end + 1, outcome' = outcome
      PROVE  TextInv'
  <2>. DEFINE n == Len(segments)
  <2>1. [from |-> at, to |-> end] \in Spans
    BY <1>2 DEF Spans
  <2>2. /\ segments' \in Seq(Spans) /\ n \in Nat /\ DOMAIN segments = 1 .. n /\ DOMAIN segments' = 1 .. n + 1
        /\ segments'[n + 1] = [from |-> at, to |-> end] /\ \A k \in 1 .. n : segments'[k] = segments[k]
    BY <1>2, <1>7, <2>1
  <2>. HIDE DEF n
  <2>3. /\ segments'[n + 1].from = at /\ segments'[n + 1].to = end
        /\ \A k \in 1 .. n : segments'[k].from = segments[k].from /\ segments'[k].to = segments[k].to
    BY <2>2
  <2>4. \A k \in 1 .. n : segments[k].from \in Nat /\ segments[k].to \in Nat
    BY <1>2, <2>2, SpansTyped
  <2>5. TextTyped'
    BY <1>1, <1>2, <1>3, <1>7, <2>2 DEF TextTyped
  <2>6. ASSUME NEW k \in DOMAIN segments'
        PROVE  /\ 1 <= segments'[k].from /\ segments'[k].from <= segments'[k].to
               /\ segments'[k].to <= Len(file.units) /\ segments'[k].to < end + 1
               /\ Paged => segments'[k].to = segments'[k].from /\ HasText(segments'[k].from)
    <3>1. CASE k \in 1 .. n
      <4>1. segments[k].to < at
        BY <1>1, <2>2, <3>1
      <4>. QED  BY <1>1, <1>2, <1>7, <2>2, <2>3, <2>4, <3>1, <4>1 DEF SegmentsFollow
    <3>2. CASE k = n + 1
      BY <1>2, <1>7, <2>3, <3>2
    <3>. QED  BY <2>2, <3>1, <3>2
  <2>7. ASSUME NEW j \in DOMAIN segments', NEW k \in DOMAIN segments', j < k
        PROVE  segments'[j].to < segments'[k].from
    <3>1. j \in 1 .. n /\ segments'[j].to = segments[j].to
      BY <2>2, <2>3, <2>7
    <3>2. CASE k \in 1 .. n
      <4>1. segments'[k].from = segments[k].from
        BY <2>3, <3>2
      <4>. QED  BY <1>1, <2>2, <2>7, <3>1, <3>2, <4>1 DEF SegmentsFollow
    <3>3. CASE k = n + 1
      BY <1>1, <2>2, <2>3, <3>1, <3>3
    <3>. QED  BY <2>2, <3>2, <3>3
  <2>8. SegmentsFollow'
    BY <1>1, <1>3, <2>6, <2>7 DEF SegmentsFollow
  <2>9. ReadSoFar'
    BY <1>1, <1>2, <1>7, <2>6 DEF ReadSoFar
  <2>10. UnitsAreCovered'
    <3>. SUFFICES ASSUME NEW u \in DOMAIN file.units, HasText(u), u < end + 1
                  PROVE  \E k \in DOMAIN segments' : u \in segments'[k].from .. segments'[k].to
      BY <1>1, <1>3, <1>7 DEF UnitsAreCovered
    <3>1. CASE u < at
      <4>1. PICK k \in DOMAIN segments : u \in segments[k].from .. segments[k].to
        BY <1>1, <3>1 DEF TextInv, UnitsAreCovered, Going
      <4>2. k \in DOMAIN segments' /\ u \in segments'[k].from .. segments'[k].to
        BY <2>2, <2>3, <4>1
      <4>. QED  BY <4>2
    <3>2. CASE u >= at
      <4>1. n + 1 \in DOMAIN segments' /\ u \in segments'[n + 1].from .. segments'[n + 1].to
        BY <1>2, <2>2, <2>3, <3>2
      <4>. QED  BY <4>1
    <3>. QED  BY <1>2, <3>1, <3>2
  <2>. QED  BY <1>5, <1>7, <2>5, <2>8, <2>9, <2>10 DEF TextInv
<1>8. CASE ~HasText(at)
  <2>1. Text!SegmentEnd = 0
    BY <1>1, <1>2, <1>8, SegmentEndIs DEF TextTyped
  <2>. QED  BY <1>4, <1>6, <1>8, <2>1 DEF Text!Read, Text!Refuse
<1>9. CASE HasText(at)
  <2>1. Text!SegmentEnd \in at .. Len(file.units) /\ (Paged => Text!SegmentEnd = at) /\ Text!SegmentEnd # 0
    BY <1>1, <1>2, <1>9, SegmentEndIs DEF TextTyped
  <2>2. CASE segments' = Append(segments, [from |-> at, to |-> Text!SegmentEnd]) /\ at' = Text!SegmentEnd + 1
             /\ outcome' = outcome
    BY <1>7, <1>9, <2>1, <2>2
  <2>. QED  BY <1>4, <2>1, <2>2 DEF Text!Read, Text!Refuse
<1>. QED  BY <1>8, <1>9

(* The parent's checks: cutting begins at the first segment with nothing    *)
(* stored (parsing.py:168-193).                                             *)
LEMMA ExtractStep ==
    ASSUME TextInv, Text!Extract
    PROVE  TextInv'
<1>1. /\ outcome = "reading" /\ ~(at <= Len(file.units)) /\ UNCHANGED <<file, size, start, segments, chunks>>
      /\ TextTyped /\ SegmentsFollow /\ start = 0 /\ chunks = <<>> /\ at' = 1
  BY DEF Text!Extract, Text!More, TextInv, ReadSoFar
<1>2. /\ Len(file.units) \in Nat /\ DOMAIN file.units = 1 .. Len(file.units) /\ at \in Nat
      /\ segments \in Seq(Spans)
  BY <1>1, FileIs DEF TextTyped
<1>3. Paged' = Paged /\ Chars' = Chars /\ \A n : HasText(n)' = HasText(n)
  BY <1>1 DEF Paged, Chars, HasText
<1>4. /\ outcome' \in Text!Codes \cup {"cutting", "done"}
      /\ outcome' \in {"cutting", "done"} => segments # <<>>
      /\ outcome' = "cutting" <=> outcome' \in {"cutting", "done"} /\ Paged
  BY DEF Text!Extract, Text!Codes, Paged
<1>5. TextTyped' /\ SegmentsFollow'
  BY <1>1, <1>2, <1>3, <1>4 DEF TextTyped, SegmentsFollow, Going
<1>6. ReadSoFar'
  BY <1>4 DEF ReadSoFar, Text!Codes
<1>7. UnitsAreCovered'
  <2>. SUFFICES ASSUME NEW n \in DOMAIN file.units, HasText(n)
                PROVE  \E k \in DOMAIN segments : n \in segments[k].from .. segments[k].to
    BY <1>1, <1>3 DEF UnitsAreCovered
  <2>1. n < at
    BY <1>1, <1>2
  <2>. QED  BY <1>1, <2>1 DEF TextInv, UnitsAreCovered, Going
<1>8. ASSUME Cutting'
      PROVE  /\ outcome' = "cutting" /\ Len(segments) \in Nat \ {0} /\ Len(file.units[segments[1].from]) \in Nat \ {0}
  <2>1. outcome' = "cutting" /\ Paged /\ segments # <<>>
    BY <1>3, <1>4, <1>8 DEF Cutting
  <2>2. Len(segments) \in Nat \ {0} /\ 1 \in DOMAIN segments
    BY <1>2, <2>1
  <2>3. HasText(segments[1].from) /\ segments[1].from \in DOMAIN file.units
    BY <1>1, <1>2, <2>1, <2>2, SpansTyped DEF SegmentsFollow
  <2>4. file.units[segments[1].from] \in Seq(Chars)
    BY <1>1, <2>1, <2>3, FileIs DEF TextTyped
  <2>5. file.units[segments[1].from] # <<>>
    BY <2>1, <2>3 DEF HasText, Text!IsBlank
  <2>. QED  BY <2>1, <2>2, <2>4, <2>5
<1>9. CutSoFar'
  BY <1>1, <1>3, <1>4, <1>8 DEF CutSoFar, Cutting
<1>10. WordsAreStored'
  <2>. SUFFICES ASSUME Cutting', file.suffix = "txt", NEW n \in DOMAIN file.units[1], n <= 0
                PROVE  FALSE
    BY <1>1, <1>8 DEF WordsAreStored
  <2>1. 1 \in DOMAIN file.units /\ Paged
    BY <1>1, <1>2, FileIs DEF TextTyped, Paged
  <2>2. file.units[1] \in Seq(Chars)
    BY <1>1, <2>1, FileIs DEF TextTyped
  <2>. QED  BY <2>2
<1>11. PagesAreFollowed'
  <2>1. Text!SourcePages' = Text!NoPages /\ DOMAIN Text!NoPages = {}
    BY <1>1, PagesOfNothing DEF Text!SourcePages, Text!NoPages
  <2>2. DOMAIN segments = 1 .. Len(segments) /\ Len(segments) \in Nat
    BY <1>2
  <2>. QED  BY <1>1, <2>1, <2>2 DEF PagesAreFollowed, PagesFollow
<1>. QED  BY <1>5, <1>6, <1>7, <1>9, <1>10, <1>11 DEF TextInv

LEMMA GreaterOf ==
    ASSUME NEW a \in Int, NEW b \in Int
    PROVE  Text!Max({a, b}) = (IF a >= b THEN a ELSE b) /\ Text!Min({a, b}) = (IF a <= b THEN a ELSE b)
<1>1. PICK m \in {a, b} : \A k \in {a, b} : m >= k
  OBVIOUS
<1>2. Text!Max({a, b}) \in {a, b} /\ \A k \in {a, b} : Text!Max({a, b}) >= k
  BY <1>1 DEF Text!Max
<1>3. PICK l \in {a, b} : \A k \in {a, b} : l <= k
  OBVIOUS
<1>4. Text!Min({a, b}) \in {a, b} /\ \A k \in {a, b} : Text!Min({a, b}) <= k
  BY <1>3 DEF Text!Min
<1>. QED  BY <1>2, <1>4

(* A window is not empty and ends within its page; the next one begins      *)
(* after its beginning and not after its end (ingestion.py:126-131, 159).   *)
LEMMA WindowIs ==
    ASSUME TextInv, outcome = "cutting", at <= Len(segments)
    PROVE  /\ at \in DOMAIN segments /\ segments[at].from \in DOMAIN file.units
           /\ Text!Page = file.units[segments[at].from] /\ Text!Page \in Seq(Chars) /\ Len(Text!Page) \in Nat
           /\ start \in Nat /\ start < Len(Text!Page) /\ Text!Offset \in Nat
           /\ Text!WindowEnd \in Nat /\ start < Text!WindowEnd /\ Text!WindowEnd <= Len(Text!Page)
<1>1. /\ TextTyped /\ SegmentsFollow /\ Paged /\ start < Len(file.units[segments[at].from]) /\ start \in Nat
      /\ size \in (Nat \ {0}) \X Nat
  BY DEF TextInv, CutSoFar, Cutting, TextTyped
<1>2. /\ at \in DOMAIN segments /\ segments[at].from \in DOMAIN file.units
      /\ \A k \in DOMAIN segments : segments[k].from \in DOMAIN file.units
  BY <1>1, FileIs, SpansTyped, SMTT(30) DEF TextTyped, SegmentsFollow
<1>3. Text!Page = file.units[segments[at].from]
  BY DEF Text!Page, Text!Unit
<1>4. Text!Page \in Seq(Chars) /\ Len(Text!Page) \in Nat
  BY <1>1, <1>2, <1>3, FileIs DEF TextTyped
<1>5. Text!Offset \in Nat
  <2>. DEFINE lengths == [n \in 1 .. at - 1 |-> Len(file.units[segments[n].from]) + 1]
  <2>1. at - 1 \in Nat /\ \A n \in 1 .. at - 1 : n \in DOMAIN segments
    BY <1>1, <1>2, SpansTyped DEF TextTyped
  <2>2. ASSUME NEW n \in 1 .. at - 1
        PROVE  Len(file.units[segments[n].from]) + 1 \in Nat
    <3>1. file.units[segments[n].from] \in Seq(Chars)
      BY <1>1, <1>2, <2>1, FileIs DEF TextTyped
    <3>. QED  BY <3>1
  <2>3. lengths \in Seq(Nat)
    BY <2>1, <2>2
  <2>4. Text!Offset = Text!FoldLeft(+, 0, lengths)
    BY DEF Text!Offset, Text!Unit
  <2>. HIDE DEF lengths
  <2>. QED  BY <2>3, <2>4, SumIs
<1>6. /\ Text!WindowEnd \in Nat /\ start < Text!WindowEnd /\ Text!WindowEnd <= Len(Text!Page)
  <2>. DEFINE full == Text!Min({Len(Text!Page), start + size[1]})
              from == start + Text!Max({1, size[1] \div 2})
              newlines == {n \in from .. full - 1 : Text!Page[n + 1] = "newline"}
  <2>1. size[1] \in Nat \ {0} /\ size[1] \div 2 \in Int
    BY <1>1
  <2>2. full \in Nat /\ start < full /\ full <= Len(Text!Page)
    <3>1. Len(Text!Page) \in Int /\ start + size[1] \in Int
      BY <1>1, <1>4, <2>1
    <3>2. full = IF Len(Text!Page) <= start + size[1] THEN Len(Text!Page) ELSE start + size[1]
      BY <3>1, GreaterOf
    <3>. HIDE DEF full
    <3>. QED  BY <1>1, <1>3, <1>4, <2>1, <3>2, SMTT(30)
  <2>3. from \in Nat /\ start < from
    BY <1>1, <2>1, GreaterOf
  <2>4. Text!WindowEnd = IF full < Len(Text!Page) /\ newlines # {} THEN Text!Max(newlines) + 1 ELSE full
    BY DEF Text!WindowEnd
  <2>. HIDE DEF full, from
  <2>5. newlines \in SUBSET (0 .. full)
    BY <2>2, <2>3
  <2>6. ASSUME newlines # {}
        PROVE  Text!Max(newlines) \in from .. full - 1
    <3>1. newlines \subseteq from .. full - 1
      OBVIOUS
    <3>. HIDE DEF newlines
    <3>. QED  BY <2>2, <2>5, <2>6, <3>1, GreatestInText
  <2>. HIDE DEF newlines
  <2>. QED  BY <1>1, <1>4, <2>2, <2>3, <2>4, <2>6
<1>. QED  BY <1>1, <1>2, <1>3, <1>4, <1>5, <1>6

LEMMA AdvanceIs ==
    ASSUME TextInv, outcome = "cutting", at <= Len(segments), Text!Advance
    PROVE  \/ Text!WindowEnd = Len(Text!Page) /\ at' = at + 1 /\ start' = 0
           \/ /\ Text!WindowEnd < Len(Text!Page) /\ at' = at
              /\ start' \in Nat /\ start < start' /\ start' <= Text!WindowEnd
<1>1. /\ start \in Nat /\ Text!WindowEnd \in Nat /\ start < Text!WindowEnd /\ Text!WindowEnd <= Len(Text!Page)
      /\ Len(Text!Page) \in Nat
  BY WindowIs
<1>2. size[2] \in Nat
  BY DEF TextInv, TextTyped
<1>3. CASE Text!WindowEnd >= Len(Text!Page)
  BY <1>1, <1>3 DEF Text!Advance
<1>4. CASE Text!WindowEnd < Len(Text!Page)
  <2>1. at' = at /\ start' = Text!Max({start + 1, Text!WindowEnd - size[2]})
    BY <1>1, <1>4 DEF Text!Advance
  <2>2. start + 1 \in Int /\ Text!WindowEnd - size[2] \in Int
    BY <1>1, <1>2
  <2>3. start' = IF start + 1 >= Text!WindowEnd - size[2] THEN start + 1 ELSE Text!WindowEnd - size[2]
    BY <2>1, <2>2, GreaterOf
  <2>4. start' \in Nat /\ start < start' /\ start' <= Text!WindowEnd
    BY <1>1, <1>2, <2>3
  <2>. QED  BY <1>4, <2>1, <2>4
<1>. QED  BY <1>1, <1>3, <1>4

Piece == [unit |-> segments[at].from, text |-> SubSeq(Text!Page, start + 1, Text!WindowEnd),
          start |-> Text!Offset + start, end |-> Text!Offset + Text!WindowEnd]

LEMMA ChunkIs ==
    ASSUME TextInv, outcome = "cutting", at <= Len(segments)
    PROVE  /\ Piece \in Pieces(Chars) /\ Len(Piece.text) = Text!WindowEnd - start
           /\ \A n \in 1 .. Len(Piece.text) : Piece.text[n] = Text!Page[start + n]
           /\ \/ Text!Chunk = Append(chunks, Piece)
              \/ Text!Chunk = chunks /\ \A n \in start + 1 .. Text!WindowEnd : Text!Page[n] \in Text!Blank
<1>. DEFINE end == Text!WindowEnd
            page == Text!Page
            text == SubSeq(page, start + 1, end)
<1>1. /\ start \in Nat /\ end \in Nat /\ start < end /\ end <= Len(page) /\ Len(page) \in Nat
      /\ page \in Seq(Chars) /\ Text!Offset \in Nat
  BY WindowIs
<1>2. segments[at].from \in Nat
  BY WindowIs, SpansTyped DEF TextInv, TextTyped
<1>. HIDE DEF end, page
<1>3. text \in Seq(Chars) /\ Len(text) = end - start /\ \A n \in 1 .. Len(text) : text[n] = page[start + n]
  <2>1. \A n \in start + 1 .. end : page[n] \in Chars
    BY <1>1
  <2>. QED  BY <1>1, <2>1
<1>4. Text!Cut(page, start, end) = text
  BY DEF Text!Cut
<1>. HIDE DEF text
<1>5. Piece = [unit |-> segments[at].from, text |-> text, start |-> Text!Offset + start, end |-> Text!Offset + end]
  BY DEF Piece, text, page, end
<1>6. Piece \in Pieces(Chars) /\ Piece.text = text
  BY <1>1, <1>2, <1>3, <1>5 DEF Pieces
<1>7. Text!Chunk = IF Text!IsBlank(text) THEN chunks ELSE Append(chunks, Piece)
  BY <1>4, <1>5 DEF Text!Chunk, page, end
<1>8. ASSUME Text!IsBlank(text), NEW n \in start + 1 .. end
      PROVE  page[n] \in Text!Blank
  <2>1. n - start \in 1 .. Len(text) /\ start + (n - start) = n
    BY <1>1, <1>3
  <2>2. text[n - start] \in Text!Blank
    BY <1>3, <1>8, <2>1 DEF Text!IsBlank
  <2>. QED  BY <1>3, <2>1, <2>2
<1>. QED  BY <1>3, <1>6, <1>7, <1>8 DEF page, end

LEMMA WordsStep ==
    ASSUME TextInv, outcome = "cutting", at <= Len(segments), file.suffix = "txt",
           chunks' = Text!Chunk, Text!Advance, UNCHANGED <<file, size, segments, outcome>>
    PROVE  WordsAreStored'
<1>. DEFINE end == Text!WindowEnd
            page == Text!Page
            n == Len(chunks)
<1>1. TextTyped /\ SegmentsFollow /\ WordsAreStored /\ Cutting /\ Paged
  BY DEF TextInv, Cutting, Paged
<1>2. /\ start \in Nat /\ end \in Nat /\ start < end /\ end <= Len(page) /\ Len(page) \in Nat
      /\ at \in DOMAIN segments /\ page = file.units[segments[at].from] /\ page \in Seq(Chars)
  BY WindowIs
<1>3. Len(file.units) = 1
  BY <1>1, FileIs DEF TextTyped
<1>4. at = 1 /\ segments[1].from = 1
  <2>1. \A k \in DOMAIN segments : segments[k].from = 1 /\ segments[k].to = 1
    BY <1>1, <1>3, SpansTyped DEF TextTyped, SegmentsFollow
  <2>2. \A j, k \in DOMAIN segments : ~(j < k)
    BY <1>1, <2>1 DEF SegmentsFollow
  <2>3. 1 \in DOMAIN segments /\ at \in Nat /\ at >= 1
    BY <1>1, <1>2, SpansTyped DEF TextTyped
  <2>. QED  BY <1>2, <2>1, <2>2, <2>3
<1>5. Text!Offset = 0
  <2>. DEFINE lengths == [m \in 1 .. at - 1 |-> Len(file.units[segments[m].from]) + 1]
  <2>1. lengths \in Seq(Nat) /\ Len(lengths) = 0
    BY <1>4
  <2>2. Text!Offset = Text!FoldLeft(+, 0, lengths)
    BY DEF Text!Offset, Text!Unit
  <2>. HIDE DEF lengths
  <2>. QED  BY <2>1, <2>2, SumIs
<1>6. chunks \in Seq(Pieces(Chars)) /\ n \in Nat /\ DOMAIN chunks = 1 .. n
  BY <1>1 DEF TextTyped
<1>7. page = file.units[1]
  BY <1>2, <1>4
<1>8. \/ end = Len(page) /\ at' = at + 1
      \/ at' = at /\ start' <= end /\ start' \in Nat
  BY AdvanceIs
<1>9. /\ Piece.start = start /\ Piece.end = end /\ Len(Piece.text) = end - start
      /\ \A k \in 1 .. Len(Piece.text) : Piece.text[k] = page[start + k]
      /\ \/ chunks' = Append(chunks, Piece)
         \/ chunks' = chunks /\ \A k \in start + 1 .. end : page[k] \in Text!Blank
  BY <1>2, <1>5, ChunkIs DEF Piece
<1>. HIDE DEF end, page, n
<1>10. /\ \A k \in DOMAIN chunks : k \in DOMAIN chunks' /\ chunks'[k] = chunks[k]
       /\ chunks' = Append(chunks, Piece) => n + 1 \in DOMAIN chunks' /\ chunks'[n + 1] = Piece
  <2>1. ASSUME chunks' = Append(chunks, Piece)
        PROVE  /\ \A k \in DOMAIN chunks : k \in DOMAIN chunks' /\ chunks'[k] = chunks[k]
               /\ n + 1 \in DOMAIN chunks' /\ chunks'[n + 1] = Piece
    BY <1>6, <2>1 DEF n
  <2>. QED  BY <1>9, <2>1
<1>11. SUFFICES ASSUME NEW m \in DOMAIN file.units[1], file.units[1][m] \notin Text!Blank,
                       at' <= Len(segments) => m <= start'
                PROVE  Stored(m)'
  BY DEF WordsAreStored
<1>12. m \in 1 .. Len(page) /\ m <= end
  <2>1. m \in 1 .. Len(page)
    BY <1>2, <1>7, <1>11
  <2>. QED  BY <1>2, <1>8, <1>11, <2>1
<1>13. CASE m <= start
  <2>1. Stored(m)
    BY <1>1, <1>11, <1>13 DEF WordsAreStored
  <2>2. PICK k \in DOMAIN chunks : chunks[k].start < m /\ m <= chunks[k].end
                                  /\ chunks[k].text[m - chunks[k].start] = file.units[1][m]
    BY <2>1 DEF Stored
  <2>3. k \in DOMAIN chunks' /\ chunks'[k] = chunks[k]
    BY <1>10, <2>2
  <2>. QED  BY <2>2, <2>3 DEF Stored
<1>14. CASE m > start
  <2>1. m \in start + 1 .. end /\ m - start \in 1 .. end - start /\ start + (m - start) = m
    BY <1>2, <1>12, <1>14
  <2>2. chunks' = Append(chunks, Piece)
    BY <1>7, <1>9, <1>11, <2>1
  <2>3. Piece.text[m - start] = file.units[1][m]
    BY <1>7, <1>9, <2>1
  <2>4. n + 1 \in DOMAIN chunks' /\ chunks'[n + 1] = Piece
    BY <1>10, <2>2
  <2>. QED  BY <1>9, <1>12, <1>14, <2>3, <2>4 DEF Stored
<1>. QED  BY <1>2, <1>12, <1>13, <1>14

LEMMA PagesStep ==
    ASSUME TextInv, outcome = "cutting", at <= Len(segments), file.suffix = "pdf",
           chunks' = Text!Chunk, Text!Advance, UNCHANGED <<file, size, segments, outcome>>
    PROVE  PagesAreFollowed'
<1>. DEFINE end == Text!WindowEnd
            page == Text!Page
            pages == Text!SourcePages
            u == segments[at].from
            base == Text!Offset
<1>1. TextTyped /\ SegmentsFollow /\ Cutting /\ Paged /\ chunks \in Seq(Pieces(Chars)) /\ PagesFollow(pages)
  BY DEF TextInv, Cutting, Paged, TextTyped, PagesAreFollowed
<1>2. /\ start \in Nat /\ end \in Nat /\ start < end /\ end <= Len(page) /\ Len(page) \in Nat
      /\ at \in DOMAIN segments /\ page = file.units[u] /\ page \in Seq(Chars) /\ base \in Nat
      /\ u \in DOMAIN file.units
  BY WindowIs
<1>3. /\ DOMAIN segments = 1 .. Len(segments) /\ Len(segments) \in Nat /\ at \in Nat
      /\ \A k \in DOMAIN segments : segments[k].from \in Nat /\ segments[k].to \in Nat
      /\ \A j, k \in DOMAIN segments : j < k => segments[j].from # segments[k].from
  BY <1>1, SpansTyped DEF TextTyped, SegmentsFollow
<1>4. \/ end = Len(page) /\ at' = at + 1 /\ start' = 0
      \/ end < Len(page) /\ at' = at /\ start' \in Nat /\ start < start' /\ start' <= end
  BY AdvanceIs
<1>5. /\ Piece \in Pieces(Chars) /\ Len(Piece.text) = end - start
      /\ \A n \in 1 .. Len(Piece.text) : Piece.text[n] = page[start + n]
      /\ Piece.unit = u /\ Piece.start = base + start
      /\ \/ chunks' = Append(chunks, Piece)
         \/ chunks' = chunks /\ \A n \in start + 1 .. end : page[n] \in Text!Blank
  BY ChunkIs DEF Piece
<1>6. page[1] \notin Text!Blank /\ page[Len(page)] \notin Text!Blank
  <2>1. Text!Stripped(page) /\ page # <<>>
    BY <1>1, <1>2, FileIs DEF TextTyped
  <2>. QED  BY <2>1 DEF Text!Stripped
<1>7. /\ pages \in PageSets(Chars)
      /\ chunks' = Append(chunks, Piece) => Text!SourcePages' = Text!Added(pages, Piece)
      /\ chunks' = chunks => Text!SourcePages' = pages
  <2>1. "space" \in Chars
    BY DEF Chars
  <2>. QED  BY <1>1, <1>5, <2>1, PagesOfMore DEF Text!SourcePages
<1>8. at' = at => Text!Offset' = base
  BY DEF Text!Offset, Text!Unit, Text!FoldLeft, Text!MapThenFoldSet, Text!Max
<1>9. /\ IF start = 0 THEN u \notin DOMAIN pages ELSE u \in DOMAIN pages /\ PageBegun(pages[u], base, page, start)
      /\ \A v \in DOMAIN pages : \E k \in DOMAIN segments : k <= at /\ v = segments[k].from
      /\ \A k \in DOMAIN segments : k < at => Restored(pages, segments[k].from, file.units[segments[k].from])
  BY <1>1, <1>2 DEF PagesFollow
<1>. DEFINE more == Text!SourcePages'
<1>10. SUFFICES /\ \A v \in DOMAIN more : \E k \in DOMAIN segments : k <= at' /\ v = segments[k].from
                /\ \A k \in DOMAIN segments : k < at' => Restored(more, segments[k].from, file.units[segments[k].from])
                /\ at' <= Len(segments) =>
                      LET v == segments[at'].from
                      IN IF start' = 0 THEN v \notin DOMAIN more
                         ELSE v \in DOMAIN more /\ PageBegun(more[v], Text!Offset', file.units[v], start')
  BY DEF PagesAreFollowed, PagesFollow
<1>11. u = segments[at].from
  OBVIOUS
<1>. HIDE DEF end, page, pages, u, base, more
<1>12. CASE chunks' = chunks /\ \A n \in start + 1 .. end : page[n] \in Text!Blank
  <2>1. start # 0 /\ end < Len(page)
    BY <1>2, <1>6, <1>12
  <2>2. at' = at /\ start' \in Nat /\ start < start' /\ start' <= end /\ start' # 0
    BY <1>2, <1>4, <2>1
  <2>3. PageBegun(pages[u], base, page, start')
    BY <1>2, <1>9, <1>12, <2>1, <2>2 DEF PageBegun
  <2>4. more = pages
    BY <1>7, <1>12 DEF more
  <2>. QED  BY <1>2, <1>8, <1>9, <1>11, <2>1, <2>2, <2>3, <2>4
<1>13. CASE chunks' = Append(chunks, Piece)
  <2>. DEFINE before == IF start = 0 THEN <<>> ELSE pages[u].text
              text == Text!Joined(before, start, Piece.text)
  <2>1. more = Text!Added(pages, Piece)
    BY <1>7, <1>13 DEF more
  <2>2. start # 0 => u \in DOMAIN pages /\ pages[u].start = base
    BY <1>9 DEF PageBegun
  <2>3. "space" \in Chars /\ Piece.text \in Seq(Chars)
    BY <1>5 DEF Chars, Pieces
  <2>4. /\ DOMAIN more = DOMAIN pages \cup {u} /\ \A v \in DOMAIN pages : v # u => more[v] = pages[v]
        /\ more[u] = [start |-> base, text |-> text] /\ before \in Seq(Chars)
    <3>. DEFINE begun == Piece.unit \in DOMAIN pages
                from == IF begun THEN pages[Piece.unit].start ELSE Piece.start
                first == IF begun THEN pages[Piece.unit].text ELSE <<>>
    <3>1. LET added == Text!Added(pages, Piece)
          IN /\ DOMAIN added = DOMAIN pages \cup {Piece.unit}
             /\ \A v \in DOMAIN pages : v # Piece.unit => added[v] = pages[v]
             /\ added[Piece.unit] = [start |-> from, text |-> Text!Joined(first, Piece.start - from, Piece.text)]
             /\ first \in Seq(Chars)
      <4>1. pages \in PageSets(Chars) /\ Piece \in Pieces(Chars) /\ "space" \in Chars
        BY <1>5, <1>7, <2>3
      <4>2. IsAdded(Chars, Text!Added(pages, Piece), pages, Piece)
        BY <4>1, AddedIs
      <4>. QED  BY <4>2 DEF IsAdded
    <3>2. first = before /\ from = base /\ Piece.start - from = start
      BY <1>2, <1>5, <1>9, <2>2
    <3>. HIDE DEF first, from, before
    <3>. QED  BY <1>5, <2>1, <3>1, <3>2
  <2>5. /\ Len(before) \in Nat /\ Len(before) <= Len(page)
        /\ \A n \in 1 .. Len(before) : before[n] = page[n] \/ {before[n], page[n]} \subseteq Text!Blank
        /\ \A n \in Len(before) + 1 .. start : page[n] \in Text!Blank
    <3>1. CASE start = 0
      BY <1>2, <3>1
    <3>2. CASE start # 0
      BY <1>9, <2>4, <3>2 DEF PageBegun
    <3>. QED  BY <3>1, <3>2
  <2>. HIDE DEF before
  <2>6. /\ text \in Seq(Chars) /\ Len(text) >= Len(before) /\ Len(text) >= start + Len(Piece.text)
        /\ Len(text) <= Len(before) \/ Len(text) <= start + Len(Piece.text)
        /\ \A n \in 1 .. Len(text) :
              text[n] = IF n <= Len(before) THEN before[n]
                        ELSE IF n <= start THEN "space" ELSE Piece.text[n - start]
    BY <1>2, <2>3, <2>4, JoinedIs, SMTT(30)
  <2>. HIDE DEF text
  <2>7. Len(text) \in Nat /\ end <= Len(text) /\ Len(text) <= Len(page)
    BY <1>2, <1>5, <2>5, <2>6
  <2>8. ASSUME NEW n \in 1 .. Len(text)
        PROVE  text[n] = page[n] \/ {text[n], page[n]} \subseteq Text!Blank
    <3>1. CASE n <= Len(before)
      BY <2>5, <2>6, <2>7, <3>1
    <3>2. CASE n > Len(before) /\ n <= start
      <4>1. text[n] = "space" /\ page[n] \in Text!Blank
        BY <1>2, <2>5, <2>6, <2>7, <3>2
      <4>. QED  BY <4>1 DEF Text!Blank
    <3>3. CASE n > Len(before) /\ n > start
      <4>1. n - start \in 1 .. Len(Piece.text) /\ start + (n - start) = n
        BY <1>2, <1>5, <2>5, <2>6, <2>7, <3>3
      <4>2. text[n] = Piece.text[n - start]
        BY <1>2, <2>5, <2>6, <2>7, <3>3
      <4>. QED  BY <1>5, <4>1, <4>2
    <3>. QED  BY <1>2, <2>5, <2>7, <3>1, <3>2, <3>3
  <2>9. u \in DOMAIN more /\ more[u].start = base /\ more[u].text = text
    BY <2>4
  <2>10. ASSUME NEW v \in DOMAIN more
         PROVE  \E k \in DOMAIN segments : k <= at /\ v = segments[k].from
    <3>1. CASE v = u
      BY <1>2, <1>3, <1>11, <3>1
    <3>. QED  BY <1>9, <2>4, <3>1
  <2>11. ASSUME NEW k \in DOMAIN segments, k < at
         PROVE  Restored(more, segments[k].from, file.units[segments[k].from])
    <3>1. segments[k].from # u
      BY <1>2, <1>3, <1>11, <2>11
    <3>2. Restored(pages, segments[k].from, file.units[segments[k].from])
      BY <1>9, <2>11
    <3>. QED  BY <2>4, <3>1, <3>2 DEF Restored
  <2>12. CASE end = Len(page) /\ at' = at + 1 /\ start' = 0
    <3>1. Restored(more, u, page)
      <4>1. Len(text) = Len(page) /\ DOMAIN text = 1 .. Len(text)
        BY <1>2, <2>6, <2>7, <2>12
      <4>. QED  BY <2>8, <2>9, <4>1 DEF Restored, Text!SameText
    <3>2. \A k \in DOMAIN segments : k < at' => Restored(more, segments[k].from, file.units[segments[k].from])
      BY <1>2, <1>3, <1>11, <2>11, <2>12, <3>1
    <3>3. \A v \in DOMAIN more : \E k \in DOMAIN segments : k <= at' /\ v = segments[k].from
      BY <1>3, <2>10, <2>12
    <3>4. ASSUME at' <= Len(segments)
          PROVE  segments[at'].from \notin DOMAIN more
      <4>1. at' \in DOMAIN segments /\ \A k \in DOMAIN segments : k <= at => segments[k].from # segments[at'].from
        BY <1>3, <2>12, <3>4
      <4>. QED  BY <2>10, <4>1
    <3>. QED  BY <2>12, <3>2, <3>3, <3>4
  <2>13. CASE end < Len(page) /\ at' = at /\ start' \in Nat /\ start < start' /\ start' <= end
    <3>1. Text!Offset' = base /\ start' # 0
      BY <1>2, <1>8, <2>13
    <3>2. PageBegun(more[u], base, page, start')
      BY <1>2, <2>7, <2>8, <2>9, <2>13 DEF PageBegun
    <3>. QED  BY <1>2, <1>11, <2>9, <2>10, <2>11, <2>13, <3>1, <3>2
  <2>. QED  BY <1>4, <2>12, <2>13
<1>. QED  BY <1>5, <1>12, <1>13

LEMMA WindowStep ==
    ASSUME TextInv, outcome = "cutting", at <= Len(segments),
           chunks' = Text!Chunk, Text!Advance, UNCHANGED <<file, size, segments, outcome>>
    PROVE  TextInv'
<1>1. /\ TextTyped /\ SegmentsFollow /\ UnitsAreCovered /\ CutSoFar /\ Cutting /\ Paged
      /\ chunks \in Seq(Pieces(Chars)) /\ at \in Nat \ {0} /\ Len(segments) \in Nat /\ DOMAIN segments = 1 .. Len(segments)
  BY SpansTyped DEF TextInv, CutSoFar, Cutting, TextTyped
<1>2. Paged' = Paged /\ Chars' = Chars /\ (\A n : HasText(n)' = HasText(n)) /\ Cutting' = Cutting
  BY DEF Paged, Chars, HasText, Cutting
<1>3. /\ start \in Nat /\ Text!Page = file.units[segments[at].from] /\ Len(Text!Page) \in Nat /\ at \in DOMAIN segments
      /\ Text!WindowEnd \in Nat
  BY WindowIs
<1>4. \/ Text!WindowEnd = Len(Text!Page) /\ at' = at + 1 /\ start' = 0
      \/ Text!WindowEnd < Len(Text!Page) /\ at' = at /\ start' \in Nat /\ start' <= Text!WindowEnd
  BY AdvanceIs
<1>5. chunks' \in Seq(Pieces(Chars))
  BY <1>1, ChunkIs
<1>6. TextTyped' /\ SegmentsFollow'
  BY <1>1, <1>2, <1>4, <1>5 DEF TextTyped, SegmentsFollow
<1>7. ReadSoFar' /\ UnitsAreCovered'
  BY <1>1, <1>2 DEF ReadSoFar, UnitsAreCovered
<1>8. ASSUME NEW k \in DOMAIN segments
      PROVE  0 < Len(file.units[segments[k].from])
  <2>1. HasText(segments[k].from) /\ segments[k].from \in DOMAIN file.units
    BY <1>1, FileIs, SpansTyped, SMTT(30) DEF TextTyped, SegmentsFollow
  <2>2. file.units[segments[k].from] \in Seq(Chars)
    BY <1>1, <2>1, FileIs DEF TextTyped
  <2>3. file.units[segments[k].from] # <<>>
    BY <1>1, <2>1 DEF HasText, Text!IsBlank
  <2>. QED  BY <2>2, <2>3
<1>9. CutSoFar'
  <2>1. ASSUME at' <= Len(segments)
        PROVE  start' < Len(file.units[segments[at'].from])
    <3>1. CASE at' = at + 1 /\ start' = 0
      BY <1>1, <1>8, <2>1, <3>1
    <3>2. CASE Text!WindowEnd < Len(Text!Page) /\ at' = at /\ start' \in Nat /\ start' <= Text!WindowEnd
      BY <1>3, <3>2
    <3>. QED  BY <1>4, <3>1, <3>2
  <2>2. at' <= Len(segments) + 1 /\ segments # <<>>
    BY <1>1, <1>4 DEF CutSoFar
  <2>. QED  BY <1>1, <1>2, <2>1, <2>2 DEF CutSoFar
<1>10. WordsAreStored'
  <2>1. CASE file.suffix = "txt"
    BY <2>1, WordsStep
  <2>. QED  BY <2>1 DEF WordsAreStored
<1>11. PagesAreFollowed'
  <2>1. CASE file.suffix = "pdf"
    BY <2>1, PagesStep
  <2>. QED  BY <2>1 DEF PagesAreFollowed
<1>. QED  BY <1>6, <1>7, <1>9, <1>10, <1>11 DEF TextInv

LEMMA FinishStep ==
    ASSUME TextInv, Text!Finish
    PROVE  TextInv'
<1>1. /\ outcome = "cutting" /\ outcome' = "done" /\ at > Len(segments)
      /\ UNCHANGED <<file, size, at, segments, start, chunks>>
  BY DEF Text!Finish
<1>2. TextTyped /\ SegmentsFollow /\ UnitsAreCovered /\ CutSoFar /\ WordsAreStored /\ PagesAreFollowed /\ Paged
  BY <1>1 DEF TextInv, CutSoFar
<1>3. Paged' = Paged /\ Chars' = Chars /\ (\A n : HasText(n)' = HasText(n)) /\ Cutting /\ Cutting'
  BY <1>1, <1>2 DEF Paged, Chars, HasText, Cutting
<1>4. Text!SourcePages' = Text!SourcePages /\ Text!Offset' = Text!Offset /\ \A n : Stored(n)' = Stored(n)
  BY <1>1 DEF Text!SourcePages, Text!Offset, Text!Unit, Text!FoldLeft, Text!MapThenFoldSet, Text!Max,
              Text!Added, Text!Joined, Text!NoPages, Stored
<1>5. TextTyped' /\ SegmentsFollow'
  BY <1>1, <1>2, <1>3 DEF TextTyped, SegmentsFollow, Going
<1>6. ReadSoFar' /\ UnitsAreCovered' /\ CutSoFar'
  BY <1>1, <1>2, <1>3 DEF ReadSoFar, UnitsAreCovered, CutSoFar, Going
<1>7. WordsAreStored'
  BY <1>1, <1>2, <1>3, <1>4 DEF WordsAreStored
<1>8. PagesAreFollowed'
  BY <1>1, <1>2, <1>3, <1>4 DEF PagesAreFollowed, PagesFollow, Restored
<1>. QED  BY <1>5, <1>6, <1>7, <1>8 DEF TextInv

LEMMA TextMoves == TextInv /\ [Text!Next]_Text!textVars => TextInv'
<1>. SUFFICES ASSUME TextInv, [Text!Next]_Text!textVars
              PROVE  TextInv'
  OBVIOUS
<1>1. CASE Text!Reject
  BY <1>1, RejectStep
<1>2. CASE Text!Read
  BY <1>2, ReadStep
<1>3. CASE Text!Extract
  BY <1>3, ExtractStep
<1>4. CASE Text!TextWindow
  BY <1>4, WindowStep DEF Text!TextWindow
<1>5. CASE Text!SegmentWindow
  BY <1>5, WindowStep DEF Text!SegmentWindow
<1>6. CASE Text!Finish
  BY <1>6, FinishStep
<1>7. CASE UNCHANGED Text!textVars
  <2>1. UNCHANGED <<file, size, at, segments, start, chunks, outcome>>
    BY <1>7 DEF Text!textVars
  <2>2. Paged' = Paged /\ Chars' = Chars /\ (\A n : HasText(n)' = HasText(n)) /\ Cutting' = Cutting
    BY <2>1 DEF Paged, Chars, HasText, Cutting
  <2>3. Text!SourcePages' = Text!SourcePages /\ Text!Offset' = Text!Offset /\ \A n : Stored(n)' = Stored(n)
    BY <2>1 DEF Text!SourcePages, Text!Offset, Text!Unit, Text!FoldLeft, Text!MapThenFoldSet, Text!Max,
                Text!Added, Text!Joined, Text!NoPages, Stored
  <2>4. TextTyped' /\ SegmentsFollow' /\ ReadSoFar' /\ UnitsAreCovered' /\ CutSoFar'
    BY <2>1, <2>2 DEF TextInv, TextTyped, SegmentsFollow, ReadSoFar, UnitsAreCovered, CutSoFar
  <2>5. WordsAreStored' /\ PagesAreFollowed'
    BY <2>1, <2>2, <2>3 DEF TextInv, WordsAreStored, PagesAreFollowed, PagesFollow, Restored
  <2>. QED  BY <2>4, <2>5 DEF TextInv
<1>. QED  BY <1>1, <1>2, <1>3, <1>4, <1>5, <1>6, <1>7 DEF Text!Next

(* What the invariant says of a text that is done.                          *)
LEMMA SegmentsAreDisjoint ==
    ASSUME TextTyped, SegmentsFollow, NEW n \in Nat,
           NEW k \in DOMAIN segments, n \in segments[k].from .. segments[k].to
    PROVE  Cardinality({j \in DOMAIN segments : n \in segments[j].from .. segments[j].to}) = 1
<1>1. /\ DOMAIN segments = 1 .. Len(segments) /\ Len(segments) \in Nat
      /\ \A j \in DOMAIN segments : segments[j].from \in Nat /\ segments[j].to \in Nat
  BY SpansTyped DEF TextTyped
<1>2. ASSUME NEW j \in DOMAIN segments, n \in segments[j].from .. segments[j].to
      PROVE  j = k
  <2>1. ~(j < k) /\ ~(k < j)
    BY <1>1, <1>2 DEF SegmentsFollow
  <2>. QED  BY <1>1, <2>1
<1>3. {j \in DOMAIN segments : n \in segments[j].from .. segments[j].to} = {k}
  BY <1>2
<1>. QED  BY <1>3, FS_Singleton

LEMMA TextIsSafe == TextInv => Text!TextSurvives
<1>. SUFFICES ASSUME TextInv PROVE Text!TextSurvives
  OBVIOUS
<1>1. /\ TextTyped /\ SegmentsFollow /\ UnitsAreCovered /\ CutSoFar /\ WordsAreStored /\ PagesAreFollowed
      /\ DOMAIN segments = 1 .. Len(segments) /\ Len(segments) \in Nat /\ at \in Nat
      /\ \A k \in DOMAIN segments : segments[k].from \in Nat /\ segments[k].to \in Nat
      /\ Len(file.units) \in Nat /\ DOMAIN file.units = 1 .. Len(file.units)
  BY SpansTyped, FileIs DEF TextInv, TextTyped
<1>2. ASSUME outcome = "done", NEW n \in DOMAIN file.units, HasText(n)
      PROVE  \E k \in DOMAIN segments : n \in segments[k].from .. segments[k].to
  BY <1>1, <1>2 DEF UnitsAreCovered, Going
<1>3. Text!PagesAreRestored
  <2>. SUFFICES ASSUME outcome = "done", file.suffix = "pdf", NEW n \in DOMAIN file.units,
                       ~Text!IsBlank(file.units[n])
                PROVE  n \in DOMAIN Text!SourcePages /\ Text!SameText(Text!SourcePages[n].text, file.units[n])
    BY DEF Text!PagesAreRestored, Text!Unit
  <2>1. Paged /\ Cutting /\ HasText(n)
    BY DEF Paged, Cutting, HasText
  <2>2. PICK k \in DOMAIN segments : n \in segments[k].from .. segments[k].to
    BY <1>2, <2>1
  <2>3. segments[k].from = n /\ k < at
    BY <1>1, <2>1, <2>2 DEF SegmentsFollow, CutSoFar
  <2>4. Restored(Text!SourcePages, n, file.units[n])
    BY <1>1, <2>1, <2>3 DEF PagesAreFollowed, PagesFollow
  <2>. QED  BY <2>4 DEF Restored
<1>4. Text!EveryWordIsStored
  <2>. SUFFICES ASSUME outcome = "done", file.suffix = "txt", NEW n \in DOMAIN file.units[1],
                       file.units[1][n] \notin Text!Blank
                PROVE  Stored(n)
    BY DEF Text!EveryWordIsStored, Text!Unit, Stored
  <2>1. Cutting /\ ~(at <= Len(segments))
    BY <1>1 DEF Paged, Cutting, CutSoFar
  <2>. QED  BY <1>1, <2>1 DEF WordsAreStored
<1>5. Text!EveryUnitIsCited
  <2>1. ASSUME outcome = "done", NEW n \in DOMAIN file.units, file.suffix \notin {"txt", "pdf"},
               file.units[n] # "blank"
        PROVE  Cardinality({k \in DOMAIN segments : n \in segments[k].from .. segments[k].to}) = 1
    <3>1. HasText(n) /\ n \in Nat
      BY <1>1, <2>1 DEF HasText, Paged
    <3>2. PICK k \in DOMAIN segments : n \in segments[k].from .. segments[k].to
      BY <1>2, <2>1, <3>1
    <3>. QED  BY <1>1, <3>1, <3>2, SegmentsAreDisjoint
  <2>2. ASSUME NEW k \in 2 .. Len(segments)
        PROVE  segments[k - 1].to < segments[k].from
    BY <1>1 DEF SegmentsFollow
  <2>3. \A S : Text!Cardinality(S) = Cardinality(S)
    BY DEF Text!Cardinality, Cardinality
  <2>. QED  BY <2>1, <2>2, <2>3 DEF Text!EveryUnitIsCited, Text!Unit
<1>. QED  BY <1>3, <1>4, <1>5 DEF Text!TextSurvives

(* Whatever the file, the sizes and the limit, no text is lost or told      *)
(* twice on its way from the parser through the chunker to a page that is   *)
(* put together again (parser_worker.py:65-354, ingestion.py:60-163,        *)
(* pdf_pages.py:12-33), and no sweep takes the file that a running parser   *)
(* reads (parsing.py:70-83).                                                *)
THEOREM ParsingStaysSound == Text!Spec /\ Staging!Spec => []ParsingIsSound
<1>1. Text!Spec => []Text!TextSurvives
  BY TextInit, TextMoves, TextIsSafe, PTL DEF Text!Spec
<1>. QED  BY <1>1, SweepsSpareRunningParsers, PTL DEF ParsingIsSound

-----------------------------------------------------------------------------
(* A text: how much of it is kept, and whether that is all.                 *)

Total(s) == Views!FoldLeft(+, 0, s)

LEMMA TotalIs ==
    ASSUME NEW s \in Seq(Nat)
    PROVE  Total(s) = Iterate(Summing, 0, s) /\ Total(s) \in Nat
<1>1. Views!FoldLeft(+, 0, s) = Text!FoldLeft(+, 0, s)
  BY DEF Views!FoldLeft, Views!MapThenFoldSet, Views!Max, Text!FoldLeft, Text!MapThenFoldSet, Text!Max
<1>. QED  BY <1>1, SumIs DEF Total

LEMMA SummingFolds == Summing \in Folds(Nat, Nat) /\ \A p, c \in Nat : Summing[<<p, c>>] = p + c
BY DEF Summing, Folds

LEMMA TotalOfMore ==
    ASSUME NEW s \in Seq(Nat), NEW x \in Nat
    PROVE  Append(s, x) \in Seq(Nat) /\ Total(Append(s, x)) = Total(s) + x
<1>. DEFINE more == Append(s, x)
<1>1. more \in Seq(Nat) /\ Extended(more, s, x)
  BY DEF Extended
<1>. HIDE DEF more
<1>2. Iterate(Summing, 0, more) = Summing[<<Iterate(Summing, 0, s), x>>]
  <2>. DEFINE A == Nat
              E == Nat
  <2>1. 0 \in A /\ Summing \in Folds(A, E) /\ s \in Seq(E) /\ x \in E /\ more \in Seq(E)
    BY <1>1, SummingFolds
  <2>. HIDE DEF A, E
  <2>. QED  BY <1>1, <2>1, IterateMore
<1>3. /\ Total(s) = Iterate(Summing, 0, s) /\ Total(s) \in Nat /\ Total(more) = Iterate(Summing, 0, more)
  BY <1>1, TotalIs
<1>. QED  BY <1>1, <1>2, <1>3, SummingFolds DEF more

LEMMA TotalOfNothing == Total(<<>>) = 0
<1>. DEFINE none == <<>>
<1>1. none \in Seq(Nat)
  OBVIOUS
<1>2. Iterate(Summing, 0, <<>>) = 0
  <2>1. 0 \in Nat /\ Summing \in [Nat \X Nat -> Nat]
    BY SummingFolds DEF Folds
  <2>. QED  BY <2>1, IterateNothing
<1>3. Total(none) = Iterate(Summing, 0, none)
  <2>. HIDE DEF none
  <2>. QED  BY <1>1, TotalIs
<1>. QED  BY <1>2, <1>3

LEMMA LengthIs ==
    ASSUME NEW s \in Seq(Nat)
    PROVE  /\ Views!Length(s) \in Nat
           /\ s = <<>> => Views!Length(s) = 0
           /\ \A x \in Nat : Views!Length(Append(s, x)) = Views!Length(s) + (IF s = <<>> THEN 0 ELSE 2) + x
<1>1. Total(s) \in Nat /\ Len(s) \in Nat /\ (s # <<>> => Len(s) - 1 \in Nat)
  BY TotalIs
<1>2. Views!Length(s) = Total(s) + (IF s = <<>> THEN 0 ELSE 2 * (Len(s) - 1))
  BY DEF Views!Length, Total
<1>3. ASSUME NEW x \in Nat
      PROVE  Views!Length(Append(s, x)) = Views!Length(s) + (IF s = <<>> THEN 0 ELSE 2) + x
  <2>. DEFINE more == Append(s, x)
  <2>1. Total(more) = Total(s) + x
    BY TotalOfMore
  <2>2. more # <<>> /\ Len(more) = Len(s) + 1 /\ (s = <<>> => Len(s) = 0)
    OBVIOUS
  <2>3. Views!Length(more) = Total(more) + (IF more = <<>> THEN 0 ELSE 2 * (Len(more) - 1))
    BY DEF Views!Length, Total
  <2>. HIDE DEF more
  <2>4. Views!Length(more) = Total(s) + x + 2 * Len(s)
    BY <1>1, <2>1, <2>2, <2>3
  <2>5. CASE s = <<>>
    BY <1>1, <1>2, <2>2, <2>4, <2>5 DEF more
  <2>6. CASE s # <<>>
    BY <1>1, <1>2, <2>4, <2>6 DEF more
  <2>. QED  BY <2>5, <2>6
<1>4. s = <<>> => Views!Length(s) = 0
  BY <1>1, <1>2, TotalOfNothing
<1>5. Views!Length(s) \in Nat
  <2>1. CASE s = <<>>
    BY <1>1, <1>2, <2>1
  <2>2. CASE s # <<>>
    <3>1. Views!Length(s) = Total(s) + 2 * (Len(s) - 1)
      BY <1>2, <2>2
    <3>. QED  BY <1>1, <2>2, <3>1
  <2>. QED  BY <2>1, <2>2
<1>. QED  BY <1>3, <1>4, <1>5

(* What was kept of the first sections, by the rule that adds one of them   *)
(* (reader.py:150-168).                                                     *)
Accounts == [kept : Seq(Nat), used : Nat, truncated : BOOLEAN]
Sectioning(limit) == [p \in Accounts \X Nat |-> Views!Section(p[1], p[2], limit)]

LEMMA LeastInViews ==
    ASSUME NEW T \in SUBSET Nat, T # {}
    PROVE  Views!Min(T) \in T /\ \A x \in T : Views!Min(T) <= x
<1>1. PICK m \in T : \A k \in T : m <= k
  BY LeastNumber
<1>. QED  BY <1>1 DEF Views!Min

IsKept(more, taken, length, limit) ==
    LET separator == Views!Separator(taken)
        remaining == limit - taken.used - separator
    IN /\ more \in Accounts /\ remaining \in Int /\ separator \in {0, 2} /\ (separator = 0 <=> taken.kept = <<>>)
       /\ taken.truncated => more = taken
       /\ ~taken.truncated /\ remaining <= 0 =>
             more.kept = taken.kept /\ more.used = taken.used /\ more.truncated
       /\ ~taken.truncated /\ remaining > 0 /\ length <= remaining =>
             more = [kept |-> Append(taken.kept, length), used |-> taken.used + separator + length, truncated |-> FALSE]
       /\ ~taken.truncated /\ remaining > 0 /\ length > remaining =>
             more = [kept |-> Append(taken.kept, remaining), used |-> limit, truncated |-> TRUE]

LEMMA SectionIs ==
    ASSUME NEW limit \in Nat, NEW taken \in Accounts, NEW length \in Nat
    PROVE  IsKept(Views!Section(taken, length, limit), taken, length, limit)
<1>. DEFINE separator == Views!Separator(taken)
            remaining == limit - taken.used - separator
            least == Views!Min({length, remaining})
            more == Views!Section(taken, length, limit)
<1>1. /\ taken.kept \in Seq(Nat) /\ taken.used \in Nat /\ taken.truncated \in BOOLEAN
      /\ taken = [kept |-> taken.kept, used |-> taken.used, truncated |-> taken.truncated]
  BY DEF Accounts
<1>2. separator \in {0, 2} /\ (separator = 0 <=> taken.kept = <<>>)
  BY DEF Views!Separator
<1>3. more = IF taken.truncated \/ remaining <= 0 THEN [taken EXCEPT !.truncated = TRUE]
             ELSE [kept |-> Append(taken.kept, least), used |-> taken.used + separator + least,
                   truncated |-> length > remaining]
  BY DEF Views!Section
<1>4. [taken EXCEPT !.truncated = TRUE] = [kept |-> taken.kept, used |-> taken.used, truncated |-> TRUE]
  <2>1. \A x : [taken EXCEPT !.truncated = x] = [kept |-> taken.kept, used |-> taken.used, truncated |-> x]
    BY DEF Accounts
  <2>. QED  BY <2>1, Zenon
<1>. HIDE DEF separator, more
<1>5. remaining \in Int /\ (remaining > 0 => remaining \in Nat)
  BY <1>1, <1>2
<1>6. remaining > 0 => least = (IF length <= remaining THEN length ELSE remaining)
  <2>1. ASSUME remaining > 0
        PROVE  least = (IF length <= remaining THEN length ELSE remaining)
    <3>1. {length, remaining} \in SUBSET Nat /\ {length, remaining} # {}
      BY <1>5, <2>1
    <3>2. least \in {length, remaining} /\ \A x \in {length, remaining} : least <= x
      BY <3>1, LeastInViews
    <3>. HIDE DEF least, remaining
    <3>. QED  BY <3>2, <1>5, <2>1
  <2>. QED  BY <2>1
<1>7. remaining = limit - taken.used - separator
  OBVIOUS
<1>. HIDE DEF least, remaining
<1>8. CASE taken.truncated
  <2>1. more = [kept |-> taken.kept, used |-> taken.used, truncated |-> TRUE]
    BY <1>3, <1>4, <1>8
  <2>2. more = taken
    BY <1>1, <1>8, <2>1
  <2>. QED  BY <1>2, <1>5, <1>8, <2>2 DEF IsKept, separator, remaining, more
<1>9. CASE ~taken.truncated /\ remaining <= 0
  <2>1. more = [kept |-> taken.kept, used |-> taken.used, truncated |-> TRUE]
    BY <1>3, <1>4, <1>9
  <2>2. more \in Accounts /\ more.kept = taken.kept /\ more.used = taken.used /\ more.truncated
    BY <1>1, <2>1 DEF Accounts
  <2>3. ~(remaining > 0)
    BY <1>5, <1>9
  <2>. QED  BY <1>2, <1>5, <1>9, <2>2, <2>3 DEF IsKept, separator, remaining, more
<1>10. CASE ~taken.truncated /\ remaining > 0 /\ length <= remaining
  <2>1. more = [kept |-> Append(taken.kept, length), used |-> taken.used + separator + length, truncated |-> length > remaining]
    BY <1>3, <1>5, <1>6, <1>10
  <2>2. (length > remaining) = FALSE /\ ~(length > remaining) /\ ~(remaining <= 0)
    BY <1>5, <1>10
  <2>3. more = [kept |-> Append(taken.kept, length), used |-> taken.used + separator + length, truncated |-> FALSE]
    BY <2>1, <2>2, Zenon
  <2>4. more \in Accounts
    BY <1>1, <1>2, <2>3 DEF Accounts
  <2>. QED  BY <1>2, <1>5, <1>10, <2>2, <2>3, <2>4 DEF IsKept, separator, remaining, more
<1>11. CASE ~taken.truncated /\ remaining > 0 /\ length > remaining
  <2>1. more = [kept |-> Append(taken.kept, remaining), used |-> taken.used + separator + remaining, truncated |-> length > remaining]
    <3>1. ~(length <= remaining) /\ ~(remaining <= 0)
      BY <1>5, <1>11
    <3>. QED  BY <1>3, <1>6, <1>11, <3>1, Zenon
  <2>2. (length > remaining) = TRUE /\ ~(length <= remaining) /\ ~(remaining <= 0) /\ taken.used + separator + remaining = limit
    <3>1. taken.used + separator + remaining = limit
      <4>. DEFINE used == taken.used
      <4>1. used \in Nat /\ remaining = limit - used - separator /\ separator \in Int
        BY <1>1, <1>2, <1>7
      <4>. HIDE DEF used
      <4>2. used + separator + remaining = limit
        BY <4>1, <1>5
      <4>. QED  BY <4>2 DEF used
    <3>. QED  BY <3>1, <1>5, <1>11
  <2>3. more = [kept |-> Append(taken.kept, remaining), used |-> limit, truncated |-> TRUE]
    BY <2>1, <2>2, Zenon
  <2>4. more \in Accounts
    BY <1>1, <1>5, <1>11, <2>3 DEF Accounts
  <2>. QED  BY <1>2, <1>5, <1>11, <2>2, <2>3, <2>4 DEF IsKept, separator, remaining, more
<1>. QED  BY <1>5, <1>8, <1>9, <1>10, <1>11

LEMMA SectioningTyped ==
    ASSUME NEW limit \in Nat
    PROVE  /\ Views!Nothing \in Accounts /\ Sectioning(limit) \in [Accounts \X Nat -> Accounts]
           /\ \A p \in Accounts, c \in Nat :
                 Sectioning(limit)[<<p, c>>] = Views!Section(p, c, limit) /\ Views!Section(p, c, limit) \in Accounts
<1>1. Views!Nothing \in Accounts
  BY DEF Views!Nothing, Accounts
<1>2. \A p \in Accounts, c \in Nat : Views!Section(p, c, limit) \in Accounts
  BY SectionIs DEF IsKept
<1>. QED  BY <1>1, <1>2 DEF Sectioning

LEMMA KeptIsIterated ==
    ASSUME NEW limit \in Nat, NEW s \in Seq(Nat)
    PROVE  Views!Kept(s, limit) = Iterate(Sectioning(limit), Views!Nothing, s)
<1>. DEFINE b == Views!Nothing
            A == Accounts
            E == Nat
            g == Sectioning(limit)
            Is(it) == it = [t \in SUBSET DOMAIN s |-> IF t = {} THEN b ELSE Views!Section(it[t \ {Max(t)}], s[Max(t)], limit)]
            pick == CHOOSE it : Is(it)
<1>1. Views!Kept(s, limit) = pick[DOMAIN s]
  BY DEF Views!Kept, Views!FoldLeft, Views!MapThenFoldSet, Views!Max, Max
<1>2. b \in A /\ g \in Folds(A, E) /\ s \in Seq(E) /\ \A p \in A, c \in E : g[<<p, c>>] = Views!Section(p, c, limit)
  BY SectioningTyped DEF Folds
<1>. HIDE DEF b, A, E, g
<1>3. PICK it \in [SUBSET DOMAIN s -> A] : Inside(it, s, b, g, A, E)
  BY <1>2, UnrollingInside
<1>4. Is(it)
  <2>1. \A t \in SUBSET DOMAIN s : it[t] = IF t = {} THEN b ELSE Views!Section(it[t \ {Max(t)}], s[Max(t)], limit)
    BY <1>2, <1>3 DEF Inside
  <2>. QED  BY <2>1
<1>5. Is(pick)
  BY <1>4
<1>. HIDE DEF pick
<1>6. \A t \in SUBSET DOMAIN s : pick[t] = IF t = {} THEN b ELSE Views!Section(pick[t \ {Max(t)}], s[Max(t)], limit)
  BY <1>5
<1>7. ASSUME NEW t \in SUBSET DOMAIN s, t # {}, pick[t \ {Max(t)}] \in A
      PROVE  pick[t] = g[<<pick[t \ {Max(t)}], s[Max(t)]>>]
  <2>1. s[Max(t)] \in E
    BY <1>3, <1>7 DEF Inside
  <2>. QED  BY <1>2, <1>6, <1>7, <2>1
<1>8. pick = [t \in SUBSET DOMAIN s |-> pick[t]] /\ pick[{}] = b
  BY <1>5, <1>6
<1>9. pick[DOMAIN s] = Iterate(g, b, s)
  <2>1. Goes(pick, s, b, g, A)
    BY <1>7, <1>8 DEF Goes
  <2>. QED  BY <1>2, <2>1, UnrollingFollowed
<1>. QED  BY <1>1, <1>9 DEF b, g

LEMMA SameNumbers ==
    ASSUME NEW s \in Seq(Nat), NEW t \in Seq(Nat), Len(s) = Len(t), \A k \in 1 .. Len(s) : s[k] = t[k]
    PROVE  s = t
OBVIOUS

LEMMA OneMoreNumber ==
    ASSUME NEW s \in Seq(Nat), NEW x \in Nat
    PROVE  /\ Append(s, x) \in Seq(Nat) /\ Append(s, x) # <<>>
           /\ Len(Append(s, x)) = Len(s) + 1 /\ DOMAIN Append(s, x) = 1 .. Len(s) + 1
           /\ \A k \in 1 .. Len(s) : Append(s, x)[k] = s[k]
           /\ Append(s, x)[Len(s) + 1] = x
<1>1. Append(s, x) \in Seq(Nat) /\ Len(Append(s, x)) = Len(s) + 1 /\ Len(s) \in Nat
  OBVIOUS
<1>2. DOMAIN Append(s, x) = 1 .. Len(s) + 1 /\ Append(s, x) # <<>>
  BY <1>1
<1>3. (\A k \in 1 .. Len(s) : Append(s, x)[k] = s[k]) /\ Append(s, x)[Len(s) + 1] = x
  OBVIOUS
<1>. QED  BY <1>1, <1>2, <1>3

Whole(h, n) == h[n] + (IF n = 0 THEN 0 ELSE 2 * (n - 1))

SoFar(taken, s, limit, h, n) ==
    /\ taken \in Accounts /\ taken.used = Views!Length(taken.kept) /\ taken.used <= limit
    /\ Len(taken.kept) <= n /\ (n # 0 => taken.kept # <<>>)
    /\ ~taken.truncated => Len(taken.kept) = n /\ taken.used = Whole(h, n)
    /\ taken.truncated => Whole(h, n) > limit
    /\ \A k \in DOMAIN taken.kept :
          taken.kept[k] = s[k] \/ (k = Len(taken.kept) /\ taken.truncated /\ taken.kept[k] < s[k])

LEMMA SoFarGoesOn ==
    ASSUME NEW limit \in Nat \ {0}, NEW s \in Seq(Nat \ {0}), NEW h \in [0 .. Len(s) -> Nat], NEW n \in 1 .. Len(s),
           h[0] = 0, h[n] = h[n - 1] + s[n],
           NEW taken, NEW more, SoFar(taken, s, limit, h, n - 1), IsKept(more, taken, s[n], limit)
    PROVE  SoFar(more, s, limit, h, n)
<1>. DEFINE separator == Views!Separator(taken)
            remaining == limit - taken.used - separator
            before == Whole(h, n - 1)
            whole == Whole(h, n)
            kept == taken.kept
<1>1. /\ taken \in Accounts /\ kept \in Seq(Nat) /\ Len(kept) \in Nat /\ taken.used \in Nat /\ taken.truncated \in BOOLEAN
      /\ n \in Nat /\ n - 1 \in Nat /\ n # 0 /\ s[n] \in Nat /\ s[n] > 0 /\ n - 1 \in 0 .. Len(s) /\ limit \in Nat
  BY DEF SoFar, Accounts
<1>2. /\ taken.used = Views!Length(kept) /\ taken.used <= limit /\ Len(kept) <= n - 1 /\ (n - 1 # 0 => kept # <<>>)
      /\ ~taken.truncated => Len(kept) = n - 1 /\ taken.used = before
      /\ taken.truncated => before > limit
  BY DEF SoFar
<1>3. \A k \in DOMAIN kept : kept[k] = s[k] \/ (k = Len(kept) /\ taken.truncated /\ kept[k] < s[k])
  BY DEF SoFar
<1>4. /\ more \in Accounts /\ remaining \in Int /\ separator \in {0, 2} /\ (separator = 0 <=> kept = <<>>)
      /\ taken.truncated => more = taken
      /\ ~taken.truncated /\ remaining <= 0 => more.kept = kept /\ more.used = taken.used /\ more.truncated
      /\ ~taken.truncated /\ remaining > 0 /\ s[n] <= remaining =>
            more = [kept |-> Append(kept, s[n]), used |-> taken.used + separator + s[n], truncated |-> FALSE]
      /\ ~taken.truncated /\ remaining > 0 /\ s[n] > remaining =>
            more = [kept |-> Append(kept, remaining), used |-> limit, truncated |-> TRUE]
  BY DEF IsKept
<1>5. before \in Nat /\ whole = before + (IF n = 1 THEN 0 ELSE 2) + s[n] /\ (n = 1 => before = 0)
  <2>1. h[n - 1] \in Nat
    BY <1>1
  <2>2. CASE n = 1
    <3>1. before = 0 /\ whole = s[n]
      BY <2>2, <1>1 DEF Whole
    <3>. QED  BY <3>1, <2>2, <1>1
  <2>3. CASE n # 1
    <3>1. before = h[n - 1] + 2 * (n - 2) /\ whole = h[n] + 2 * (n - 1) /\ n - 2 \in Nat
      BY <2>3, <1>1 DEF Whole
    <3>2. 2 * (n - 1) = 2 * (n - 2) + 2 /\ 2 * (n - 2) \in Nat
      BY <3>1, <1>1
    <3>3. h[n] = h[n - 1] + s[n]
      OBVIOUS
    <3>. DEFINE twice == 2 * (n - 2)
    <3>. HIDE DEF before, whole, twice
    <3>4. whole = h[n - 1] + s[n] + (twice + 2) /\ before = h[n - 1] + twice /\ twice \in Nat
      BY <3>1, <3>2, <3>3 DEF twice
    <3>5. before \in Nat /\ whole = before + 2 + s[n]
      <4>1. s[n] \in Nat
        BY <1>1
      <4>2. \A a, b, c \in Nat : a + b \in Nat /\ a + c + (b + 2) = (a + b) + 2 + c
        OBVIOUS
      <4>. QED  BY <3>4, <2>1, <4>1, <4>2
    <3>. QED  BY <3>5, <2>3
  <2>. QED  BY <2>2, <2>3
<1>6. kept = <<>> <=> Len(kept) = 0
  BY <1>1
<1>7. \A x \in Nat : /\ Append(kept, x) \in Seq(Nat) /\ Append(kept, x) # <<>>
                     /\ Len(Append(kept, x)) = Len(kept) + 1 /\ DOMAIN Append(kept, x) = 1 .. Len(kept) + 1
                     /\ \A k \in 1 .. Len(kept) : Append(kept, x)[k] = kept[k]
                     /\ Append(kept, x)[Len(kept) + 1] = x
                     /\ Views!Length(Append(kept, x)) = taken.used + separator + x
  <2>1. \A x \in Nat : Views!Length(Append(kept, x)) = Views!Length(kept) + (IF kept = <<>> THEN 0 ELSE 2) + x
    BY <1>1, LengthIs
  <2>2. separator = IF kept = <<>> THEN 0 ELSE 2
    BY DEF Views!Separator
  <2>. HIDE DEF kept, separator
  <2>3. ASSUME NEW x \in Nat
        PROVE  /\ Append(kept, x) \in Seq(Nat) /\ Append(kept, x) # <<>>
               /\ Len(Append(kept, x)) = Len(kept) + 1 /\ DOMAIN Append(kept, x) = 1 .. Len(kept) + 1
               /\ \A k \in 1 .. Len(kept) : Append(kept, x)[k] = kept[k]
               /\ Append(kept, x)[Len(kept) + 1] = x
    BY <1>1, OneMoreNumber
  <2>4. \A x \in Nat : Views!Length(Append(kept, x)) = taken.used + separator + x
    BY <2>1, <2>2, <1>2
  <2>. QED  BY <2>3, <2>4
<1>8. remaining = limit - taken.used - separator /\ DOMAIN kept = 1 .. Len(kept)
  BY <1>1
<1>15. separator \in Nat
  BY DEF Views!Separator
<1>16. taken.used \in Nat /\ limit \in Nat /\ s[n] \in Nat /\ remaining \in Int
  BY <1>1, <1>4
<1>. HIDE DEF separator, remaining, before, whole, kept
<1>9. CASE taken.truncated
  <2>1. more = taken /\ whole > limit /\ Len(kept) <= n /\ kept # <<>>
    BY <1>1, <1>2, <1>4, <1>5, <1>9
  <2>. QED  BY <2>1, <1>1, <1>2, <1>3, <1>9 DEF SoFar, kept, whole
<1>10. CASE ~taken.truncated /\ remaining <= 0
  <2>1. more.kept = kept /\ more.used = taken.used /\ more.truncated
    BY <1>4, <1>10
  <2>2. taken.used = before /\ Len(kept) = n - 1
    BY <1>2, <1>10
  <2>3. kept # <<>> /\ separator = 2
    <3>1. ASSUME kept = <<>>
          PROVE  FALSE
      <4>1. n = 1 /\ before = 0 /\ separator = 0
        BY <3>1, <1>1, <1>4, <1>5, <1>6, <2>2
      <4>. QED  BY <4>1, <2>2, <1>1, <1>8, <1>10
    <3>. QED  BY <3>1, <1>4
  <2>4. n # 1
    BY <2>2, <2>3, <1>1, <1>6
  <2>5. whole > limit
    BY <2>2, <2>3, <2>4, <1>1, <1>5, <1>8, <1>10
  <2>6. Len(kept) <= n
    BY <2>2, <1>1
  <2>. QED  BY <2>1, <2>3, <2>5, <2>6, <1>2, <1>3, <1>4, <1>10 DEF SoFar, kept, whole
<1>11. ASSUME ~taken.truncated, remaining > 0, NEW x \in Nat, more.kept = Append(kept, x),
              more.used = taken.used + separator + x, more.used <= limit,
              more.truncated => (whole > limit /\ x < s[n]), ~more.truncated => x = s[n] /\ more.used = whole
       PROVE  SoFar(more, s, limit, h, n)
  <2>1. Len(kept) = n - 1 /\ DOMAIN more.kept = 1 .. n /\ Len(more.kept) = n /\ more.kept # <<>>
    BY <1>1, <1>2, <1>7, <1>11
  <2>2. more.used = Views!Length(more.kept)
    BY <1>7, <1>11
  <2>3. ASSUME NEW k \in DOMAIN more.kept
        PROVE  more.kept[k] = s[k] \/ (k = Len(more.kept) /\ more.truncated /\ more.kept[k] < s[k])
    <3>1. CASE k \in 1 .. Len(kept)
      BY <3>1, <1>3, <1>7, <1>8, <1>11
    <3>2. CASE k = n
      BY <3>2, <2>1, <1>1, <1>7, <1>11
    <3>. QED  BY <3>1, <3>2, <2>1, <1>1
  <2>4. Len(more.kept) <= n
    BY <2>1, <1>1
  <2>. QED  BY <2>1, <2>2, <2>3, <2>4, <1>4, <1>11 DEF SoFar, whole
<1>12. ~taken.truncated => taken.used + separator + s[n] = whole
  <2>1. ASSUME ~taken.truncated
        PROVE  taken.used + separator + s[n] = whole
    <3>1. taken.used = before /\ Len(kept) = n - 1
      BY <1>2, <2>1
    <3>2. separator = IF n = 1 THEN 0 ELSE 2
      BY <3>1, <1>1, <1>4, <1>6
    <3>. QED  BY <3>1, <3>2, <1>1, <1>5
  <2>. QED  BY <2>1
<1>13. CASE ~taken.truncated /\ remaining > 0 /\ s[n] <= remaining
  <2>1. more.kept = Append(kept, s[n]) /\ more.used = taken.used + separator + s[n] /\ ~more.truncated
    BY <1>4, <1>13
  <2>2. taken.used + separator + s[n] <= limit
    <3>. DEFINE used == taken.used
                length == s[n]
    <3>1. used \in Nat /\ length \in Nat /\ length <= remaining /\ remaining = limit - used - separator
      BY <1>8, <1>13, <1>16
    <3>. HIDE DEF used, length
    <3>2. used + separator + length <= limit
      BY <3>1, <1>15, <1>16
    <3>. QED  BY <3>2 DEF used, length
  <2>. QED  BY <2>1, <2>2, <1>1, <1>11, <1>12, <1>13
<1>14. CASE ~taken.truncated /\ remaining > 0 /\ s[n] > remaining
  <2>1. more.kept = Append(kept, remaining) /\ more.used = limit /\ more.truncated
    BY <1>4, <1>14
  <2>2. /\ taken.used + separator + remaining = limit /\ remaining \in Nat /\ limit <= limit
        /\ taken.used + separator + s[n] > limit /\ remaining < s[n]
    <3>. DEFINE room == limit - taken.used - separator
                length == s[n]
    <3>1. room > 0 /\ length > room /\ length \in Nat /\ remaining = room
      BY <1>8, <1>14, <1>16
    <3>2. taken.used + separator + room = limit /\ room \in Nat /\ taken.used + separator + length > limit
      <4>. DEFINE used == taken.used
      <4>. HIDE DEF length
      <4>1. used \in Nat /\ room = limit - used - separator
        BY <1>16
      <4>. HIDE DEF room, used
      <4>2. used + separator + room = limit /\ room \in Nat /\ used + separator + length > limit
        BY <3>1, <4>1, <1>15, <1>16
      <4>. QED  BY <4>2 DEF used
    <3>. HIDE DEF room
    <3>. QED  BY <3>1, <3>2, <1>16 DEF length
  <2>3. more.used = taken.used + separator + remaining /\ more.used <= limit /\ whole > limit
    BY <2>1, <2>2, <1>12, <1>14
  <2>. QED  BY <2>1, <2>2, <2>3, <1>11, <1>14
<1>. QED  BY <1>1, <1>4, <1>9, <1>10, <1>13, <1>14

LEMMA SoFarFollows ==
    ASSUME NEW limit \in Nat \ {0}, NEW s \in Seq(Nat \ {0}), NEW h \in [0 .. Len(s) -> Nat],
           NEW f \in [0 .. Len(s) -> Accounts],
           h[0] = 0, f[0] = Views!Nothing,
           \A n \in 1 .. Len(s) : h[n] = h[n - 1] + s[n] /\ IsKept(f[n], f[n - 1], s[n], limit)
    PROVE  SoFar(f[Len(s)], s, limit, h, Len(s))
<1>. DEFINE Bad == {n \in 0 .. Len(s) : ~SoFar(f[n], s, limit, h, n)}
<1>1. Len(s) \in Nat /\ Bad \subseteq Nat
  OBVIOUS
<1>2. SoFar(f[0], s, limit, h, 0)
  <2>. DEFINE none == <<>>
  <2>1. none \in Seq(Nat) /\ Len(none) = 0 /\ DOMAIN none = {}
    OBVIOUS
  <2>2. Views!Length(none) = 0
    BY <2>1, LengthIs
  <2>3. Whole(h, 0) = 0
    BY DEF Whole
  <2>4. f[0] = [kept |-> none, used |-> 0, truncated |-> FALSE]
    BY DEF Views!Nothing
  <2>6. f[0] \in Accounts
    BY <1>1
  <2>. HIDE DEF none
  <2>5. f[0].kept = none /\ f[0].used = 0 /\ ~f[0].truncated
    BY <2>4
  <2>. QED  BY <2>1, <2>2, <2>3, <2>5, <2>6 DEF SoFar
<1>3. ASSUME Bad # {}
      PROVE  FALSE
  <2>1. PICK m \in Bad : \A k \in Bad : m <= k
    BY <1>1, <1>3, LeastNumber
  <2>2. m # 0 /\ m \in 0 .. Len(s) /\ ~SoFar(f[m], s, limit, h, m)
    BY <1>2
  <2>3. m \in 1 .. Len(s) /\ m - 1 \in 0 .. Len(s) /\ m - 1 \notin Bad
    BY <1>1, <2>1, <2>2
  <2>4. SoFar(f[m - 1], s, limit, h, m - 1)
    BY <2>3
  <2>5. h[m] = h[m - 1] + s[m] /\ IsKept(f[m], f[m - 1], s[m], limit)
    BY <2>3
  <2>. QED  BY <2>2, <2>3, <2>4, <2>5, SoFarGoesOn
<1>4. Len(s) \notin Bad
  BY <1>3
<1>. QED  BY <1>1, <1>4

LEMMA KeptIs ==
    ASSUME NEW limit \in Nat \ {0}, NEW s \in Seq(Nat \ {0})
    PROVE  LET taken == Views!Kept(s, limit)
           IN /\ taken \in Accounts /\ Views!Length(taken.kept) <= limit
              /\ taken.truncated <=> Views!Length(s) > limit
              /\ \A k \in DOMAIN taken.kept :
                    taken.kept[k] = s[k] \/ (k = Len(taken.kept) /\ taken.truncated /\ taken.kept[k] < s[k])
              /\ ~taken.truncated => taken.kept = s
<1>. DEFINE A == Accounts
            E == Nat
            g == Sectioning(limit)
            taken == Views!Kept(s, limit)
<1>1. s \in Seq(E) /\ Len(s) \in Nat /\ DOMAIN s = 1 .. Len(s) /\ \A n \in 1 .. Len(s) : s[n] \in Nat
  OBVIOUS
<1>2. g \in Folds(A, E) /\ Views!Nothing \in A
  BY SectioningTyped DEF Folds
<1>. HIDE DEF A, E, g
<1>3. PICK f \in [0 .. Len(s) -> A] :
         /\ f[0] = Views!Nothing /\ f[Len(s)] = Iterate(g, Views!Nothing, s)
         /\ \A n \in 1 .. Len(s) : f[n] = g[<<f[n - 1], s[n]>>]
  BY <1>1, <1>2, IterateGoesOn
<1>4. PICK h \in [0 .. Len(s) -> Nat] :
         /\ h[0] = 0 /\ h[Len(s)] = Iterate(Summing, 0, s)
         /\ \A n \in 1 .. Len(s) : h[n] = Summing[<<h[n - 1], s[n]>>]
  <2>1. E = Nat /\ 0 \in E /\ Summing \in Folds(E, E)
    BY SummingFolds DEF E
  <2>2. \E h \in [0 .. Len(s) -> E] :
         /\ h[0] = 0 /\ h[Len(s)] = Iterate(Summing, 0, s)
         /\ \A n \in 1 .. Len(s) : h[n] = Summing[<<h[n - 1], s[n]>>]
    BY <1>1, <2>1, IterateGoesOn
  <2>. QED  BY <2>1, <2>2
<1>5. ASSUME NEW n \in 1 .. Len(s)
      PROVE  h[n] = h[n - 1] + s[n] /\ IsKept(f[n], f[n - 1], s[n], limit)
  <2>1. n - 1 \in 0 .. Len(s)
    BY <1>1
  <2>2. h[n - 1] \in Nat /\ f[n - 1] \in Accounts /\ s[n] \in Nat
    BY <1>1, <1>3, <1>4, <2>1 DEF A
  <2>3. f[n] = Views!Section(f[n - 1], s[n], limit)
    BY <1>3, <2>2, SectioningTyped DEF g
  <2>. QED  BY <1>4, <2>2, <2>3, SummingFolds, SectionIs
<1>6. f \in [0 .. Len(s) -> Accounts]
  BY <1>3 DEF A
<1>7. SoFar(f[Len(s)], s, limit, h, Len(s))
  BY <1>3, <1>4, <1>5, <1>6, SoFarFollows
<1>8. f[Len(s)] = taken /\ h[Len(s)] = Total(s)
  <2>1. s \in Seq(Nat)
    OBVIOUS
  <2>. QED  BY <2>1, <1>3, <1>4, KeptIsIterated, TotalIs DEF g
<1>9. Views!Length(s) = Whole(h, Len(s))
  <2>1. s = <<>> <=> Len(s) = 0
    OBVIOUS
  <2>2. Views!Length(s) = Total(s) + (IF s = <<>> THEN 0 ELSE 2 * (Len(s) - 1))
    BY DEF Views!Length, Total
  <2>. QED  BY <2>1, <2>2, <1>8 DEF Whole
<1>. HIDE DEF taken
<1>10. /\ taken \in Accounts /\ taken.used = Views!Length(taken.kept) /\ taken.used <= limit
       /\ ~taken.truncated => Len(taken.kept) = Len(s) /\ taken.used = Views!Length(s)
       /\ taken.truncated => Views!Length(s) > limit
       /\ \A k \in DOMAIN taken.kept :
             taken.kept[k] = s[k] \/ (k = Len(taken.kept) /\ taken.truncated /\ taken.kept[k] < s[k])
  BY <1>7, <1>8, <1>9 DEF SoFar
<1>11. taken.used \in Nat /\ taken.kept \in Seq(Nat)
  BY <1>10 DEF Accounts
<1>12. ~taken.truncated => taken.kept = s
  <2>1. ASSUME ~taken.truncated
        PROVE  taken.kept = s
    <3>1. s \in Seq(Nat) /\ Len(taken.kept) = Len(s) /\ DOMAIN taken.kept = 1 .. Len(s)
      BY <1>10, <1>11, <2>1
    <3>2. \A k \in 1 .. Len(s) : taken.kept[k] = s[k]
      BY <1>10, <2>1, <3>1
    <3>. QED  BY <1>11, <3>1, <3>2, SameNumbers
  <2>. QED  BY <2>1
<1>13. ~taken.truncated => ~(Views!Length(s) > limit)
  BY <1>10, <1>11
<1>. QED  BY <1>10, <1>12, <1>13 DEF taken

MarksAreOfTexts ==
    view.op = "text" =>
        /\ view.limit \in Nat \ {0} /\ view.sections \in Seq(Nat \ {0})
        /\ view.pc \in {"check", "shown"} =>
              /\ view.kept = Views!Kept(view.sections, view.limit).kept
              /\ view.truncated = Views!Kept(view.sections, view.limit).truncated

LEMMA MarksInit == Views!Init => MarksAreOfTexts
BY DEF Views!Init, Views!Idle, MarksAreOfTexts

LEMMA MarksBegin ==
    ASSUME MarksAreOfTexts,
           \/ Views!BeginCatalog
           \/ \E wanted \in 0 .. MaxVersion, page \in BOOLEAN : Views!BeginAsset(wanted, page)
           \/ \E wanted \in 0 .. MaxVersion, limit \in Limits, text \in SectionTexts :
                 Views!BeginText(wanted, limit, text)
    PROVE  MarksAreOfTexts'
<1>1. CASE Views!BeginCatalog
  <2>1. PICK ups \in SUBSET configured :
           Views!Begin([Views!Idle EXCEPT !.op = "catalog", !.pc = "heads", !.available = ups])
    BY <1>1 DEF Views!BeginCatalog
  <2>2. view'.op = "catalog"
    BY <2>1 DEF Views!Begin, Views!Idle
  <2>. QED  BY <2>2 DEF MarksAreOfTexts
<1>2. ASSUME NEW wanted \in 0 .. MaxVersion, NEW page \in BOOLEAN, Views!BeginAsset(wanted, page)
      PROVE  MarksAreOfTexts'
  <2>1. view'.op = "asset"
    BY <1>2 DEF Views!BeginAsset, Views!Opened, Views!Begin, Views!Idle
  <2>. QED  BY <2>1 DEF MarksAreOfTexts
<1>3. ASSUME NEW wanted \in 0 .. MaxVersion, NEW limit \in Limits, NEW text \in SectionTexts,
             Views!BeginText(wanted, limit, text)
      PROVE  MarksAreOfTexts'
  <2>. DEFINE whole == [Views!Idle EXCEPT !.op = "text", !.pc = "text", !.limit = limit, !.sections = text]
              absent == [whole EXCEPT !.pc = "not_found"]
              present == [whole EXCEPT !.version = document]
  <2>1. view' = absent \/ view' = present
    BY <1>3 DEF Views!BeginText, Views!Opened, Views!Begin
  <2>2. /\ absent.limit = limit /\ absent.sections = text /\ absent.pc = "not_found"
        /\ present.limit = limit /\ present.sections = text /\ present.pc = "text"
    BY DEF Views!Idle
  <2>3. limit \in Nat \ {0} /\ text \in Seq(Nat \ {0})
    BY HostPartsAssumption
  <2>. HIDE DEF absent, present
  <2>. QED  BY <2>1, <2>2, <2>3 DEF MarksAreOfTexts
<1>. QED  BY <1>1, <1>2, <1>3

LEMMA MarksStep == MarksAreOfTexts /\ ViewInv /\ [Views!Next]_Views!viewsVars => MarksAreOfTexts'
<1>. SUFFICES ASSUME MarksAreOfTexts, ViewInv, [Views!Next]_Views!viewsVars PROVE MarksAreOfTexts'
  OBVIOUS
<1>1. CASE UNCHANGED view
  BY <1>1 DEF MarksAreOfTexts
<1>2. CASE UNCHANGED Views!viewsVars
  BY <1>1, <1>2 DEF Views!viewsVars
<1>3. ASSUME \/ \E e \in Views!Catalogued, v \in Views!Versions : Views!Build(e, v)
             \/ \E v \in Views!Versions, es \in SUBSET Views!Catalogued : Views!Publish(v, es)
             \/ Views!Tombstone \/ Views!Invalidate
      PROVE  MarksAreOfTexts'
  BY <1>1, <1>3 DEF Views!Build, Views!Publish, Views!Tombstone, Views!Invalidate, Views!Change
<1>4. ASSUME NEW opening, view' = opening, opening.op # "text"
      PROVE  MarksAreOfTexts'
  BY <1>4 DEF MarksAreOfTexts
<1>5. CASE Views!ReadHeads \/ Views!ReadDocuments \/ Views!ReadPending
  <2>1. view.op = "catalog"
    BY <1>5 DEF Views!ReadHeads, Views!ReadDocuments, Views!ReadPending, ViewInv, ViewTyped
  <2>2. view'.op = "catalog"
    BY <1>5, <2>1, ViewDomain DEF Views!ReadHeads, Views!ReadDocuments, Views!ReadPending, Views!Go, Views!To
  <2>. QED  BY <1>4, <2>2
<1>6. CASE Views!FindIndex \/ Views!ReadFiles \/ Views!ReadBytes
  <2>1. view.op = "asset"
    BY <1>6 DEF Views!FindIndex, Views!ReadFiles, Views!ReadBytes, ViewInv, ViewTyped
  <2>2. view'.op = "asset"
    BY <1>6, <2>1, ViewDomain DEF Views!FindIndex, Views!ReadFiles, Views!ReadBytes, Views!Go, Views!To
  <2>. QED  BY <1>4, <2>2
<1>7. CASE Views!ReadText
  <2>. DEFINE taken == Views!Kept(view.sections, view.limit)
              kept == taken.kept
              truncated == taken.truncated
              opening == [Views!To("check") EXCEPT !.kept = kept, !.truncated = truncated, !.content = view.version]
  <2>1. view' = opening /\ view.op = "text"
    BY <1>7 DEF Views!ReadText, Views!Go, ViewInv, ViewTyped
  <2>. HIDE DEF kept, truncated
  <2>2. /\ opening.limit = view.limit /\ opening.sections = view.sections
        /\ opening.kept = kept /\ opening.truncated = truncated
    BY ViewDomain DEF Views!To
  <2>. HIDE DEF opening
  <2>. QED  BY <2>1, <2>2 DEF MarksAreOfTexts, kept, truncated
<1>8. CASE Views!Show
  <2>. DEFINE again == Views!StillCurrent /\ document \in gone
              opening == [Views!To(IF Views!StillCurrent THEN "shown" ELSE "retry") EXCEPT !.returned = again]
  <2>1. view' = opening /\ view.pc = "check"
    BY <1>8 DEF Views!Show, Views!Go
  <2>. HIDE DEF again
  <2>2. /\ opening.op = view.op /\ opening.limit = view.limit /\ opening.sections = view.sections
        /\ opening.kept = view.kept /\ opening.truncated = view.truncated
    BY ViewDomain DEF Views!To
  <2>. HIDE DEF opening
  <2>. QED  BY <2>1, <2>2 DEF MarksAreOfTexts
<1>. QED  BY <1>2, <1>3, <1>5, <1>6, <1>7, <1>8, MarksBegin DEF Views!Next

LEMMA TextsAreMarked == MarksAreOfTexts => Views!TextIsMarked
<1>. SUFFICES ASSUME MarksAreOfTexts, view.op = "text", view.pc = "shown"
              PROVE  /\ Views!Length(view.kept) <= view.limit
                     /\ view.truncated <=> Views!Length(view.sections) > view.limit
                     /\ \A n \in DOMAIN view.kept :
                           \/ view.kept[n] = view.sections[n]
                           \/ n = Len(view.kept) /\ view.truncated /\ view.kept[n] < view.sections[n]
                     /\ ~view.truncated => view.kept = view.sections
  BY DEF Views!TextIsMarked
<1>. DEFINE taken == Views!Kept(view.sections, view.limit)
<1>1. /\ view.limit \in Nat \ {0} /\ view.sections \in Seq(Nat \ {0})
      /\ view.kept = taken.kept /\ view.truncated = taken.truncated
  BY DEF MarksAreOfTexts
<1>2. /\ taken \in Accounts /\ Views!Length(taken.kept) <= view.limit
      /\ taken.truncated <=> Views!Length(view.sections) > view.limit
      /\ \A k \in DOMAIN taken.kept :
            taken.kept[k] = view.sections[k]
            \/ (k = Len(taken.kept) /\ taken.truncated /\ taken.kept[k] < view.sections[k])
      /\ ~taken.truncated => taken.kept = view.sections
  BY <1>1, KeptIs
<1>. HIDE DEF taken
<1>3. taken.truncated \in BOOLEAN
  BY <1>2 DEF Accounts
<1>. QED  BY <1>1, <1>2, <1>3

\* The reader's view of a version (reader.py:53-175) keeps the catalogue and the
\* bytes of its call, and marks a text as truncated exactly when the limit left
\* something out: what is kept is a beginning of the text, cut in one place.
THEOREM ViewsStayTrue == Views!Spec => []Views!ViewsAreTrue
<1>. DEFINE Views2 == Views!CatalogIsOfTheCall /\ Views!BytesAreOfTheirVersion
<1>1. ViewInv /\ MarksAreOfTexts /\ [Views!Next]_Views!viewsVars => (ViewInv /\ MarksAreOfTexts)'
  BY ViewStep, MarksStep
<1>2. Views!Init => ViewInv /\ MarksAreOfTexts
  BY ViewInit, MarksInit
<1>3. Views!Spec => []Views2
  BY ViewsAreOfTheCall
<1>4. Views2 /\ Views!TextIsMarked => Views!ViewsAreTrue
  BY DEF Views!ViewsAreTrue
<1>. QED  BY <1>1, <1>2, <1>3, <1>4, TextsAreMarked, PTL DEF Views!Spec

-----------------------------------------------------------------------------
(* Pages that look like a question: images and vectors are under the number *)
(* of their page.                                                           *)
Pictures == [n \in 1 .. sheets |-> [name |-> Sight!Name(n), page |-> n]]

VisualInv ==
    /\ sheets \in Nat \ {0} /\ best \subseteq 1 .. sheets /\ best # {}
    /\ files = <<>> \/ files = Pictures
    /\ drawing \in {"given", "indexed", "scored", "answered", "refused"}
    /\ drawing \in {"scored", "answered"} => files = Pictures /\ nearest = {Sight!Min(best)}

LEMMA NamesDiffer ==
    ASSUME NEW m \in Nat, NEW n \in Nat, Sight!Name(m) = Sight!Name(n)
    PROVE  m = n
<1>1. CASE m < 10 /\ n < 10
  BY <1>1 DEF Sight!Name
<1>2. CASE ~(m < 10) /\ ~(n < 10)
  <2>1. m \div 10 = n \div 10 /\ m % 10 = n % 10
    BY <1>2 DEF Sight!Name
  <2>. QED  BY <2>1
<1>3. CASE (m < 10) # (n < 10)
  <2>1. \A k \in Nat : Len(Sight!Name(k)) = IF k < 10 THEN 1 ELSE 2
    BY DEF Sight!Name
  <2>. QED  BY <1>3, <2>1
<1>. QED  BY <1>1, <1>2, <1>3

LEMMA NameChosen ==
    ASSUME sheets \in Nat, NEW n \in 1 .. sheets
    PROVE  (CHOOSE k \in 1 .. sheets : Sight!Name(k) = Sight!Name(n)) = n
<1>. DEFINE k == CHOOSE k \in 1 .. sheets : Sight!Name(k) = Sight!Name(n)
<1>1. k \in 1 .. sheets /\ Sight!Name(k) = Sight!Name(n)
  OBVIOUS
<1>. HIDE DEF k
<1>2. k = n
  BY <1>1, NamesDiffer
<1>. QED  BY <1>2 DEF k

LEMMA RasterizeIs ==
    ASSUME sheets \in Nat \ {0}, Sight!Render # <<>>
    PROVE  Sight!Rasterize = Pictures
<1>. DEFINE names == {Sight!Name(n) : n \in 1 .. sheets}
            Number(name) == CHOOSE n \in 1 .. sheets : Sight!Name(n) = name
<1>1. Sight!Render = [name \in names |-> Number(name)]
  BY DEF Sight!Render
<1>2. ASSUME NEW n \in 1 .. sheets
      PROVE  Sight!Render[Sight!Name(n)] = n
  <2>1. Sight!Name(n) \in names
    OBVIOUS
  <2>2. Number(Sight!Name(n)) = n
    BY NameChosen
  <2>. HIDE DEF names, Number
  <2>. QED  BY <1>1, <2>1, <2>2
<1>. QED  BY <1>2 DEF Sight!Rasterize, Pictures

LEMMA NamesCounted ==
    ASSUME sheets \in Nat
    PROVE  Cardinality({Sight!Name(n) : n \in 1 .. sheets}) = sheets
<1>. DEFINE names == {Sight!Name(n) : n \in 1 .. sheets}
            f == [n \in 1 .. sheets |-> Sight!Name(n)]
<1>1. f \in [1 .. sheets -> names] /\ (\A m, n \in 1 .. sheets : f[m] = f[n] => m = n)
  BY NamesDiffer
<1>2. \A t \in names : \E n \in 1 .. sheets : f[n] = t
  OBVIOUS
<1>. HIDE DEF f
<1>3. f \in Bijection(1 .. sheets, names)
  BY <1>1, <1>2 DEF Bijection, Injection, Surjection, IsInjective
<1>. HIDE DEF names
<1>4. IsFiniteSet(1 .. sheets) /\ Cardinality(1 .. sheets) = sheets
  BY FS_Interval
<1>5. Cardinality(names) = Cardinality(1 .. sheets)
  BY <1>3, <1>4, FS_Bijection DEF ExistsBijection
<1>. QED  BY <1>4, <1>5 DEF names

LEMMA OrderIs ==
    ASSUME sheets \in Nat, files = Pictures
    PROVE  Sight!InOrder = [n \in 1 .. sheets |-> n]
<1>. DEFINE names == {Sight!Name(n) : n \in 1 .. sheets}
            pages == 1 .. sheets
<1>1. DOMAIN files = 1 .. sheets /\ \A n \in 1 .. sheets : files[n].page = n
  BY DEF Pictures
<1>2. {files[n].page : n \in DOMAIN files} = pages
  BY <1>1
<1>3. {Sight!Name(n) : n \in DOMAIN files} = names
  BY <1>1
<1>4. ASSUME NEW k \in 1 .. sheets
      PROVE  Sight!Name(k) \in DOMAIN Sight!Vectors /\ Sight!Vectors[Sight!Name(k)] = k
  <2>. DEFINE p == CHOOSE p \in {files[n].page : n \in DOMAIN files} :
                      \E n \in DOMAIN files : Sight!Name(n) = Sight!Name(k) /\ files[n].page = p
  <2>1. Sight!Name(k) \in {Sight!Name(n) : n \in DOMAIN files}
    BY <1>1
  <2>2. Sight!Vectors[Sight!Name(k)] = p /\ Sight!Name(k) \in DOMAIN Sight!Vectors
    BY <2>1 DEF Sight!Vectors
  <2>3. \E q \in {files[n].page : n \in DOMAIN files} :
           \E n \in DOMAIN files : Sight!Name(n) = Sight!Name(k) /\ files[n].page = q
    BY <1>1
  <2>4. \E n \in DOMAIN files : Sight!Name(n) = Sight!Name(k) /\ files[n].page = p
    BY <2>3
  <2>. HIDE DEF p
  <2>5. PICK n \in 1 .. sheets : Sight!Name(n) = Sight!Name(k) /\ n = p
    BY <1>1, <2>4
  <2>6. n = k
    BY <2>5, NamesDiffer
  <2>. QED  BY <2>2, <2>5, <2>6
<1>5. DOMAIN Sight!Vectors = names
  BY <1>3 DEF Sight!Vectors
<1>6. Sight!Cardinality(DOMAIN Sight!Vectors) = sheets
  <2>1. Sight!Cardinality(names) = Cardinality(names)
    BY DEF Sight!Cardinality, Cardinality
  <2>. QED  BY <1>5, <2>1, NamesCounted
<1>. QED  BY <1>4, <1>6 DEF Sight!InOrder

LEMMA VisualInit == Sight!Init => VisualInv
<1>. SUFFICES ASSUME Sight!Init PROVE VisualInv
  OBVIOUS
<1>1. sheets \in Nat \ {0}
  BY HostPartsAssumption DEF Sight!Init
<1>2. 1 \in 1 .. sheets
  BY <1>1
<1>. QED  BY <1>1, <1>2 DEF Sight!Init, VisualInv

LEMMA VisualStep == VisualInv /\ [Sight!Next]_Sight!visualVars => VisualInv'
<1>. SUFFICES ASSUME VisualInv, [Sight!Next]_Sight!visualVars PROVE VisualInv'
  OBVIOUS
<1>. USE DEF VisualInv
<1>1. sheets' = sheets => Pictures' = Pictures
  BY DEF Pictures
<1>2. CASE UNCHANGED Sight!visualVars
  BY <1>1, <1>2 DEF Sight!visualVars
<1>3. CASE Sight!Replace \/ Sight!Cancel
  BY <1>1, <1>3 DEF Sight!Replace, Sight!Cancel, Sight!index
<1>4. CASE Sight!Refuse
  BY <1>1, <1>4 DEF Sight!Refuse, Sight!index
<1>5. CASE Sight!Draw
  <2>1. CASE Sight!Render = <<>>
    BY <1>4, <1>5, <2>1 DEF Sight!Draw
  <2>2. CASE Sight!Render # <<>>
    <3>1. files' = Pictures /\ UNCHANGED <<sheets, best, nearest>> /\ drawing' = "indexed"
      BY <1>5, <2>2, RasterizeIs DEF Sight!Draw
    <3>. QED  BY <1>1, <3>1
  <2>. QED  BY <2>1, <2>2
<1>6. CASE Sight!Rank
  <2>1. CASE ~(valid /\ ~withdrawn)
    BY <1>4, <1>6, <2>1 DEF Sight!Rank
  <2>2. CASE valid /\ ~withdrawn
    <3>1. files = Pictures /\ nearest' = {Sight!Min(Sight!Ranked)} /\ drawing' = "scored"
          /\ UNCHANGED <<sheets, best, files>>
      BY <1>6, <2>2 DEF Sight!Rank, Sight!index
    <3>2. Sight!Ranked = best
      BY <3>1, OrderIs DEF Sight!Ranked
    <3>. QED  BY <1>1, <3>1, <3>2
  <2>. QED  BY <2>1, <2>2
<1>7. CASE Sight!Show
  BY <1>1, <1>4, <1>7 DEF Sight!Show, Sight!index
<1>. QED  BY <1>2, <1>3, <1>5, <1>6, <1>7 DEF Sight!Next

LEMMA NearestIsShown == VisualInv => Sight!NearestPageIsShown
<1>. SUFFICES ASSUME VisualInv, drawing = "answered", NEW n \in nearest
              PROVE  files[n].page = n /\ n = Sight!Min(best)
  BY DEF Sight!NearestPageIsShown
<1>1. n = Sight!Min(best) /\ files = Pictures
  BY DEF VisualInv
<1>2. n \in 1 .. sheets
  <2>1. best \in SUBSET Nat /\ best # {} /\ best \subseteq 1 .. sheets
    BY DEF VisualInv
  <2>2. PICK m \in best : \A k \in best : m <= k
    BY <2>1, LeastNumber
  <2>3. Sight!Min(best) \in best
    BY <2>2 DEF Sight!Min
  <2>. QED  BY <1>1, <2>1, <2>3
<1>. QED  BY <1>1, <1>2 DEF Pictures

\* Citations, the page shown as the nearest one (multimodal/adapter.py:110-121)
\* and the reader's views together, in a host that runs the three: an image and
\* its vector stay under the number of their page, however many pages there are.
THEOREM WhatIsShownStaysTrue == Spec /\ Sight!Spec /\ Views!Spec => []ShownAsItIs
<1>1. Sight!Spec => []Sight!NearestPageIsShown
  BY VisualInit, VisualStep, NearestIsShown, PTL DEF Sight!Spec
<1>2. AnswersCiteWhatWasShown /\ Sight!NearestPageIsShown /\ Views!ViewsAreTrue => ShownAsItIs
  BY DEF ShownAsItIs
<1>. QED  BY <1>1, <1>2, CitationsStayShown, ViewsStayTrue, PTL


-----------------------------------------------------------------------------
(* Types.  Times end with a parser's and with a sweep's.                    *)

StagingFits ==
    /\ \A p \in Processes : elapsed[p] <= Timeout /\ age[p] <= Staging!Cutoff + 1
    /\ result \in [Processes -> Staging!Results]

LEMMA CutoffIs == Staging!Cutoff \in Nat
BY HostPartsAssumption DEF Staging!Cutoff, Staging!Max2

LEMMA StagingFitsOn == StagingInv /\ StagingFits /\ [Staging!Next]_Staging!stagingVars => StagingFits'
<1>. SUFFICES ASSUME StagingInv, StagingFits, [Staging!Next]_Staging!stagingVars PROVE StagingFits'
  OBVIOUS
<1>1. /\ \A p \in Processes : elapsed[p] \in Nat /\ age[p] \in Nat
      /\ elapsed \in [Processes -> Nat] /\ age \in [Processes -> Nat] /\ Timeout \in Nat
      /\ Staging!Cutoff \in Nat /\ result \in [Processes -> Staging!Results]
  BY CutoffIs, HostPartsAssumption DEF StagingInv, StagingTyped, StagingFits
<1>2. CASE Staging!Tick
  <2>1. ASSUME NEW p \in Processes
        PROVE  elapsed'[p] <= Timeout /\ age'[p] <= Staging!Cutoff + 1
    <3>1. elapsed'[p] = (IF process[p] = "parsing" THEN elapsed[p] + 1 ELSE elapsed[p])
      BY <1>2 DEF Staging!Tick
    <3>2. age'[p] = (IF staged[p] # "none" /\ age[p] <= Staging!Cutoff THEN age[p] + 1 ELSE age[p])
      BY <1>2 DEF Staging!Tick
    <3>3. process[p] = "parsing" => elapsed[p] < Timeout
      BY <1>2 DEF Staging!Tick
    <3>. QED  BY <1>1, <3>1, <3>2, <3>3 DEF StagingFits
  <2>2. result' = result
    BY <1>2 DEF Staging!Tick
  <2>3. Staging!Cutoff' = Staging!Cutoff
    BY DEF Staging!Cutoff, Staging!Max2
  <2>. QED  BY <1>1, <2>1, <2>2, <2>3 DEF StagingFits
<1>3. ASSUME NEW p \in Processes,
             \/ Staging!CleanupAbandoned(p) \/ Staging!Stage(p) \/ Staging!Spawn(p) \/ Staging!Parsed(p)
             \/ Staging!TimeOut(p) \/ Staging!Unlink(p) \/ Staging!Crash(p)
      PROVE  StagingFits'
  <2>1. /\ elapsed' = elapsed \/ elapsed' = [elapsed EXCEPT ![p] = 0]
        /\ age' = age \/ age' = [age EXCEPT ![p] = 0]
    BY <1>3 DEF Staging!CleanupAbandoned, Staging!Stage, Staging!Spawn, Staging!Parsed, Staging!TimeOut,
                Staging!Unlink, Staging!Crash
  <2>2. \A q \in Processes : elapsed'[q] <= Timeout /\ age'[q] <= Staging!Cutoff + 1
    BY <1>1, <2>1 DEF StagingFits
  <2>3. result' = result \/ \E r \in Staging!Results : result' = [result EXCEPT ![p] = r]
    BY <1>3 DEF Staging!CleanupAbandoned, Staging!Stage, Staging!Spawn, Staging!Parsed, Staging!TimeOut,
                Staging!Unlink, Staging!Crash, Staging!End, Staging!Results
  <2>4. result' \in [Processes -> Staging!Results]
    BY <1>1, <2>3
  <2>5. Staging!Cutoff' = Staging!Cutoff
    BY DEF Staging!Cutoff, Staging!Max2
  <2>. QED  BY <2>2, <2>4, <2>5 DEF StagingFits
<1>4. CASE UNCHANGED Staging!stagingVars
  BY <1>4 DEF Staging!stagingVars, StagingFits, Staging!Cutoff, Staging!Max2
<1>. QED  BY <1>2, <1>3, <1>4 DEF Staging!Next

LEMMA StagingTypedWell == Staging!Spec => []Staging!TypeOK
<1>1. Staging!Init => StagingFits
  <2>. SUFFICES ASSUME Staging!Init PROVE StagingFits
    OBVIOUS
  <2>1. result \in [Processes -> Staging!Results]
    BY DEF Staging!Init, Staging!Results
  <2>2. \A p \in Processes : elapsed[p] = 0 /\ age[p] = 0
    BY DEF Staging!Init
  <2>. QED  BY <2>1, <2>2, CutoffIs, HostPartsAssumption DEF StagingFits
<1>2. StagingInv /\ StagingFits /\ [Staging!Next]_Staging!stagingVars => (StagingInv /\ StagingFits)'
  BY StagingStep, StagingFitsOn
<1>3. StagingInv /\ StagingFits => Staging!TypeOK
  <2>. SUFFICES ASSUME StagingInv, StagingFits PROVE Staging!TypeOK
    OBVIOUS
  <2>1. \A p \in Processes : elapsed[p] \in 0 .. Timeout /\ age[p] \in 0 .. Staging!Cutoff + 1
    BY CutoffIs, HostPartsAssumption DEF StagingInv, StagingTyped, StagingFits
  <2>2. elapsed \in [Processes -> 0 .. Timeout] /\ age \in [Processes -> 0 .. Staging!Cutoff + 1]
    BY <2>1 DEF StagingInv, StagingTyped
  <2>. QED  BY <2>2 DEF Staging!TypeOK, StagingInv, StagingTyped, StagingFits
<1>. QED  BY <1>1, <1>2, <1>3, StagingInit, PTL DEF Staging!Spec

(* A segment takes up a unit at least, so there are no more segments than   *)
(* units; and no window is longer than a chunk may be (ingestion.py:126).   *)
TextFits ==
    /\ size \in Sizes /\ at <= Len(file.units) + 1 /\ Len(segments) <= Len(file.units)
    /\ outcome = "reading" => Len(segments) < at
    /\ \A n \in DOMAIN chunks : chunks[n].start < chunks[n].end /\ Len(chunks[n].text) <= size[1]

LEMMA WindowIsShort ==
    ASSUME TextInv, outcome = "cutting", at <= Len(segments)
    PROVE  Text!WindowEnd - start <= size[1]
<1>. DEFINE full == Text!Min({Len(Text!Page), start + size[1]})
            from == start + Text!Max({1, size[1] \div 2})
            newlines == {n \in from .. full - 1 : Text!Page[n + 1] = "newline"}
<1>1. /\ start \in Nat /\ Len(Text!Page) \in Nat /\ size[1] \in Nat \ {0} /\ size[1] \div 2 \in Int
  BY WindowIs DEF TextInv, TextTyped
<1>2. full \in Int /\ full <= start + size[1]
  <2>1. Len(Text!Page) \in Int /\ start + size[1] \in Int
    BY <1>1
  <2>2. full = IF Len(Text!Page) <= start + size[1] THEN Len(Text!Page) ELSE start + size[1]
    BY <2>1, GreaterOf
  <2>. HIDE DEF full
  <2>. QED  BY <1>1, <2>2
<1>3. from \in Nat
  BY <1>1, GreaterOf
<1>4. Text!WindowEnd = IF full < Len(Text!Page) /\ newlines # {} THEN Text!Max(newlines) + 1 ELSE full
  BY DEF Text!WindowEnd
<1>. HIDE DEF full, from
<1>5. ASSUME newlines # {}
      PROVE  Text!Max(newlines) \in Int /\ Text!Max(newlines) <= full - 1
  <2>1. newlines \subseteq from .. full - 1
    OBVIOUS
  <2>. HIDE DEF newlines
  <2>2. PICK n \in newlines : TRUE
    BY <1>5
  <2>3. n \in Int /\ from <= n /\ n <= full - 1
    BY <2>1, <2>2, <1>2, <1>3
  <2>4. full \in Nat
    BY <2>3, <1>2, <1>3
  <2>5. newlines \in SUBSET (0 .. full)
    BY <2>1, <2>4, <1>3
  <2>. HIDE DEF newlines
  <2>6. Text!Max(newlines) \in newlines
    BY <1>5, <2>4, <2>5, GreatestInText
  <2>7. Text!Max(newlines) \in from .. full - 1
    BY <2>1, <2>6
  <2>. QED  BY <1>2, <1>3, <2>7
<1>. HIDE DEF newlines
<1>6. Text!WindowEnd \in Int /\ Text!WindowEnd <= full
  <2>1. CASE full < Len(Text!Page) /\ newlines # {}
    BY <2>1, <1>2, <1>4, <1>5
  <2>2. CASE ~(full < Len(Text!Page) /\ newlines # {})
    BY <2>2, <1>2, <1>4
  <2>. QED  BY <2>1, <2>2
<1>. QED  BY <1>1, <1>2, <1>6

LEMMA WindowFits ==
    ASSUME TextInv, TextFits, outcome = "cutting", at <= Len(segments),
           chunks' = Text!Chunk, Text!Advance, UNCHANGED <<file, size, segments, outcome>>
    PROVE  TextFits'
<1>1. /\ chunks \in Seq(Pieces(Chars)) /\ at \in Nat /\ segments \in Seq(Spans) /\ Len(file.units) \in Nat
  BY FileIs DEF TextInv, TextTyped, CutSoFar
<1>2. at' <= Len(file.units) + 1
  BY <1>1, AdvanceIs DEF TextFits
<1>3. Piece.start < Piece.end /\ Len(Piece.text) <= size[1] /\ Piece \in Pieces(Chars)
  <2>1. Piece.start = Text!Offset + start /\ Piece.end = Text!Offset + Text!WindowEnd
    BY DEF Piece
  <2>. QED  BY <2>1, WindowIs, WindowIsShort, ChunkIs
<1>4. ASSUME NEW n \in DOMAIN chunks'
      PROVE  chunks'[n].start < chunks'[n].end /\ Len(chunks'[n].text) <= size[1]
  <2>1. CASE chunks' = chunks
    BY <1>4, <2>1 DEF TextFits
  <2>2. CASE chunks' = Append(chunks, Piece)
    <3>1. chunks'[n] = Piece \/ (n \in DOMAIN chunks /\ chunks'[n] = chunks[n])
      BY <1>1, <1>3, <1>4, <2>2
    <3>. QED  BY <1>3, <3>1 DEF TextFits
  <2>. QED  BY <2>1, <2>2, ChunkIs
<1>. QED  BY <1>2, <1>4 DEF TextFits

LEMMA TextFitsOn == TextInv /\ TextFits /\ [Text!Next]_Text!textVars => TextFits'
<1>. SUFFICES ASSUME TextInv, TextFits, [Text!Next]_Text!textVars PROVE TextFits'
  OBVIOUS
<1>1. /\ at \in Nat \ {0} /\ segments \in Seq(Spans) /\ Len(segments) \in Nat /\ Len(file.units) \in Nat
      /\ outcome \in Going \cup Text!Codes
  BY FileIs, SpansTyped DEF TextInv, TextTyped
<1>2. CASE Text!Reject
  <2>1. outcome' # "reading" \/ outcome' = outcome
    BY <1>2 DEF Text!Reject
  <2>. QED  BY <1>2, <2>1 DEF Text!Reject, Text!Refuse, TextFits
<1>3. CASE Text!Read
  <2>1. /\ outcome = "reading" /\ at <= Len(file.units) /\ UNCHANGED <<file, size, start, chunks>>
    BY <1>3 DEF Text!Read, Text!More
  <2>2. Len(segments) < at
    BY <2>1 DEF TextFits
  <2>3. \/ at' = at /\ segments' = segments
        \/ at' = at + 1 /\ segments' = segments
        \/ \E e, x : e \in at .. Len(file.units) /\ at' = e + 1 /\ segments' = Append(segments, x)
    <3>1. CASE HasText(at)
      <4>1. Text!SegmentEnd \in at .. Len(file.units)
        BY <1>1, <2>1, <3>1, SegmentEndIs DEF TextInv, TextTyped
      <4>. QED  BY <1>3, <4>1 DEF Text!Read, Text!Refuse
    <3>2. CASE ~HasText(at)
      <4>1. Text!SegmentEnd = 0
        BY <1>1, <2>1, <3>2, SegmentEndIs DEF TextInv, TextTyped
      <4>. QED  BY <1>3, <4>1 DEF Text!Read, Text!Refuse
    <3>. QED  BY <3>1, <3>2
  <2>4. /\ at' <= Len(file.units) + 1 /\ Len(segments') <= Len(file.units) /\ Len(segments') < at'
    <3>1. CASE at' = at /\ segments' = segments
      BY <1>1, <2>1, <2>2, <3>1
    <3>2. CASE at' = at + 1 /\ segments' = segments
      BY <1>1, <2>1, <2>2, <3>2
    <3>3. ASSUME NEW e \in at .. Len(file.units), NEW x, at' = e + 1, segments' = Append(segments, x)
          PROVE  /\ at' <= Len(file.units) + 1 /\ Len(segments') <= Len(file.units) /\ Len(segments') < at'
      <4>1. Len(segments') = Len(segments) + 1
        BY <1>1, <3>3
      <4>. QED  BY <1>1, <2>1, <2>2, <3>3, <4>1
    <3>. QED  BY <2>3, <3>1, <3>2, <3>3
  <2>. QED  BY <2>1, <2>4 DEF TextFits
<1>4. CASE Text!Extract
  <2>1. at' = 1 /\ outcome' # "reading" /\ UNCHANGED <<file, size, segments, chunks>>
    BY <1>4 DEF Text!Extract
  <2>. QED  BY <1>1, <2>1 DEF TextFits
<1>5. CASE Text!TextWindow
  BY <1>5, WindowFits DEF Text!TextWindow
<1>6. CASE Text!SegmentWindow
  BY <1>6, WindowFits DEF Text!SegmentWindow
<1>7. CASE Text!Finish \/ UNCHANGED Text!textVars
  <2>1. UNCHANGED <<file, size, at, segments, chunks>> /\ (outcome' = "reading" => outcome = "reading")
    BY <1>7 DEF Text!Finish, Text!textVars
  <2>. QED  BY <2>1 DEF TextFits
<1>. QED  BY <1>2, <1>3, <1>4, <1>5, <1>6, <1>7 DEF Text!Next

LEMMA TextTypedWell == Text!Spec => []Text!TypeOK
<1>1. Text!Init => TextFits
  <2>. SUFFICES ASSUME Text!Init PROVE TextFits
    OBVIOUS
  <2>1. /\ at = 1 /\ segments = <<>> /\ chunks = <<>> /\ size \in Sizes /\ Len(file.units) \in Nat
    BY FileIs DEF Text!Init
  <2>. QED  BY <2>1 DEF TextFits
<1>2. TextInv /\ TextFits /\ [Text!Next]_Text!textVars => (TextInv /\ TextFits)'
  BY TextMoves, TextFitsOn
<1>3. TextInv /\ TextFits => Text!TypeOK
  <2>. SUFFICES ASSUME TextInv, TextFits PROVE Text!TypeOK
    OBVIOUS
  <2>1. /\ file.suffix \in {"txt", "md", "csv", "docx", "pdf"} /\ size \in Sizes /\ start \in Nat
    BY FileIs DEF TextInv, TextTyped, TextFits
  <2>2. at \in 1 .. Len(file.units) + 1
    BY FileIs DEF TextInv, TextTyped, TextFits
  <2>3. ASSUME NEW n \in DOMAIN segments
        PROVE  segments[n] \in [from : 1 .. Len(file.units), to : 1 .. Len(file.units)]
    <3>1. segments[n] \in Spans
      BY DEF TextInv, TextTyped
    <3>2. 1 <= segments[n].from /\ segments[n].from <= segments[n].to /\ segments[n].to <= Len(file.units)
      BY DEF TextInv, SegmentsFollow
    <3>3. Len(file.units) \in Nat
      BY FileIs DEF TextInv, TextTyped
    <3>. QED  BY <3>1, <3>2, <3>3 DEF Spans
  <2>4. outcome \in {"reading", "cutting", "done"} \cup Text!Codes
    BY DEF TextInv, TextTyped, Going
  <2>. QED  BY <2>1, <2>2, <2>3, <2>4 DEF Text!TypeOK, TextFits
<1>. QED  BY <1>1, <1>2, <1>3, TextInit, PTL DEF Text!Spec

(* The page that is shown is one of the PDF's.                              *)
SightFits ==
    /\ sheets \in DrawnPages /\ nearest \subseteq {Sight!Min(best)}
    /\ valid \in BOOLEAN /\ withdrawn \in BOOLEAN

LEMMA SightFitsOn == VisualInv /\ SightFits /\ [Sight!Next]_Sight!visualVars => SightFits'
<1>. SUFFICES ASSUME VisualInv, SightFits, [Sight!Next]_Sight!visualVars PROVE SightFits'
  OBVIOUS
<1>. USE DEF SightFits, Sight!index
<1>1. CASE UNCHANGED Sight!visualVars
  BY <1>1 DEF Sight!visualVars
<1>2. CASE Sight!Replace \/ Sight!Cancel
  BY <1>2 DEF Sight!Replace, Sight!Cancel
<1>3. CASE Sight!Draw \/ Sight!Show
  BY <1>3 DEF Sight!Draw, Sight!Show, Sight!Refuse
<1>4. CASE Sight!Rank
  <2>1. CASE Sight!Refuse
    BY <2>1 DEF Sight!Refuse
  <2>2. CASE ~Sight!Refuse
    <3>1. nearest' = {Sight!Min(Sight!Ranked)} /\ UNCHANGED <<sheets, best, valid, withdrawn>> /\ files # <<>>
      BY <1>4, <2>2 DEF Sight!Rank
    <3>2. files = Pictures /\ best \subseteq 1 .. sheets /\ sheets \in Nat
      BY <3>1 DEF VisualInv
    <3>3. Sight!Ranked = best
      BY <3>2, OrderIs DEF Sight!Ranked
    <3>. QED  BY <3>1, <3>3
  <2>. QED  BY <2>1, <2>2
<1>. QED  BY <1>1, <1>2, <1>3, <1>4 DEF Sight!Next

LEMMA SightTypedWell == Sight!Spec => []Sight!TypeOK
<1>1. Sight!Init => SightFits
  BY DEF Sight!Init, SightFits
<1>2. VisualInv /\ SightFits /\ [Sight!Next]_Sight!visualVars => (VisualInv /\ SightFits)'
  BY VisualStep, SightFitsOn
<1>3. VisualInv /\ SightFits => Sight!TypeOK
  <2>. SUFFICES ASSUME VisualInv, SightFits PROVE Sight!TypeOK
    OBVIOUS
  <2>1. best \in SUBSET Nat /\ best # {} /\ best \subseteq 1 .. sheets
    BY DEF VisualInv
  <2>2. PICK m \in best : \A k \in best : m <= k
    BY <2>1, LeastNumber
  <2>3. Sight!Min(best) \in best
    BY <2>2 DEF Sight!Min
  <2>. QED  BY <2>1, <2>3 DEF Sight!TypeOK, VisualInv, SightFits
<1>. QED  BY <1>1, <1>2, <1>3, VisualInit, PTL DEF Sight!Spec

(* A reader's view names versions and states that there are, and jobs leave *)
(* documents, heads and indexes that they may have.                         *)
ViewFits ==
    /\ media \in {"pdf", "text"} /\ configured \subseteq Views!Catalogued /\ foreign \subseteq Views!Catalogued
    /\ index \in [Views!Catalogued -> [Views!Versions -> Views!Statuses]]
    /\ headed \in [Views!Catalogued -> 0 .. MaxVersion] /\ view.version \in 0 .. MaxVersion
    /\ \A n \in DOMAIN view.states : view.states[n] \in Views!States
    /\ changes \in 0 .. MaxChanges

LEMMA BoundsOfViews ==
    MaxVersion \in Nat \ {0} /\ MaxChanges \in Nat /\ 0 \in 0 .. MaxVersion /\ 0 \in 0 .. MaxChanges
<1>1. MaxVersion \in Nat \ {0} /\ MaxChanges \in Nat
  BY HostServicesAssumption, HostPartsAssumption
<1>. QED  BY <1>1

LEMMA ViewFitsAtFirst == Views!Init => ViewFits
<1>. SUFFICES ASSUME Views!Init PROVE ViewFits
  OBVIOUS
<1>1. PICK s \in Settings : media = s.media /\ configured = s.configured /\ foreign = s.foreign
  BY DEF Views!Init
<1>2. s.media \in {"pdf", "text"} /\ s.configured \cup s.foreign \subseteq Views!Catalogued
  BY HostPartsAssumption
<1>3. PICK b \in Beginnings :
         /\ document = b.document /\ index = b.index
         /\ headed = [e \in Views!Catalogued |-> IF b.document # 0 /\ b.index[e][b.document] = "ready"
                                                 THEN b.document ELSE 0]
  BY DEF Views!Init
<1>4. b.document \in 0 .. MaxVersion /\ b.index \in [Views!Catalogued -> [Views!Versions -> Views!Statuses]]
  BY HostPartsAssumption
<1>5. headed \in [Views!Catalogued -> 0 .. MaxVersion]
  BY <1>3, <1>4, BoundsOfViews
<1>6. view.version = 0 /\ view.states = <<>> /\ changes = 0
  BY DEF Views!Init, Views!Idle
<1>7. /\ media \in {"pdf", "text"} /\ configured \subseteq Views!Catalogued /\ foreign \subseteq Views!Catalogued
      /\ index \in [Views!Catalogued -> [Views!Versions -> Views!Statuses]]
  BY <1>1, <1>2, <1>3, <1>4
<1>8. view.version \in 0 .. MaxVersion /\ changes \in 0 .. MaxChanges
  BY <1>6, BoundsOfViews
<1>9. \A n \in DOMAIN view.states : view.states[n] \in Views!States
  BY <1>6
<1>. QED  BY <1>5, <1>7, <1>8, <1>9 DEF ViewFits

\* Jobs: they build, publish, delete and invalidate.
LEMMA ViewFitsAfterJobs ==
    ASSUME ViewInv, ViewFits,
           \/ \E e \in Views!Catalogued, v \in Views!Versions : Views!Build(e, v)
           \/ \E v \in Views!Versions, es \in SUBSET Views!Catalogued : Views!Publish(v, es)
           \/ Views!Tombstone \/ Views!Invalidate
    PROVE  ViewFits'
<1>1. Views!Change
  BY DEF Views!Build, Views!Publish, Views!Tombstone, Views!Invalidate
<1>2. UNCHANGED <<media, configured, foreign, view>>
  BY <1>1 DEF Views!Change, Views!setting
<1>3. changes' \in 0 .. MaxChanges
  <2>1. changes < MaxChanges /\ changes' = changes + 1
    BY <1>1 DEF Views!Change
  <2>2. changes \in 0 .. MaxChanges /\ MaxChanges \in Nat
    BY BoundsOfViews DEF ViewFits
  <2>. QED  BY <2>1, <2>2
<1>4. /\ index' \in [Views!Catalogued -> [Views!Versions -> Views!Statuses]]
      /\ headed' \in [Views!Catalogued -> 0 .. MaxVersion]
  <2>1. ASSUME NEW e \in Views!Catalogued, NEW v \in Views!Versions, Views!Build(e, v)
        PROVE  /\ index' \in [Views!Catalogued -> [Views!Versions -> Views!Statuses]]
               /\ headed' \in [Views!Catalogued -> 0 .. MaxVersion]
    <3>1. PICK status \in CASE index[e][v] = "none" -> {"staged"}
                            [] index[e][v] = "building" -> {"ready", "failed"}
                            [] index[e][v] = "ready" -> {}
                            [] OTHER -> {"building", "failed"} \ {index[e][v]} :
             index' = [index EXCEPT ![e][v] = status]
      BY <2>1 DEF Views!Build
    <3>2. status \in Views!Statuses
      BY <3>1 DEF Views!Statuses
    <3>3. headed' = headed
      BY <2>1 DEF Views!Build
    <3>. QED  BY <3>1, <3>2, <3>3 DEF ViewFits
  <2>2. ASSUME NEW v \in Views!Versions, NEW es \in SUBSET Views!Catalogued, Views!Publish(v, es)
        PROVE  /\ index' \in [Views!Catalogued -> [Views!Versions -> Views!Statuses]]
               /\ headed' \in [Views!Catalogued -> 0 .. MaxVersion]
    <3>1. v \in 0 .. MaxVersion
      BY BoundsOfViews DEF Views!Versions
    <3>2. headed' = [e \in Views!Catalogued |-> IF e \in es THEN v ELSE headed[e]] /\ index' = index
      BY <2>2 DEF Views!Publish
    <3>. QED  BY <3>1, <3>2 DEF ViewFits
  <2>3. CASE Views!Tombstone
    BY <2>3 DEF Views!Tombstone, ViewFits
  <2>4. CASE Views!Invalidate
    <3>1. /\ headed' = [e \in Views!Catalogued |-> 0]
          /\ index' = [e \in Views!Catalogued |->
                          [v \in Views!Versions |-> IF index[e][v] = "none" THEN "none" ELSE "invalidated"]]
      BY <2>4 DEF Views!Invalidate
    <3>2. "none" \in Views!Statuses /\ "invalidated" \in Views!Statuses
      BY DEF Views!Statuses
    <3>. QED  BY <3>1, <3>2, BoundsOfViews
  <2>. QED  BY <2>1, <2>2, <2>3, <2>4
<1>. QED  BY <1>2, <1>3, <1>4 DEF ViewFits

\* A call that begins is for the active version, or none, and says nothing yet.
LEMMA ViewFitsAtBegin ==
    ASSUME ViewInv, ViewFits,
           \/ Views!BeginCatalog
           \/ \E wanted \in 0 .. MaxVersion, page \in BOOLEAN : Views!BeginAsset(wanted, page)
           \/ \E wanted \in 0 .. MaxVersion, limit \in Limits, text \in SectionTexts :
                 Views!BeginText(wanted, limit, text)
    PROVE  ViewFits'
<1>1. ASSUME NEW opening, Views!Begin(opening), opening.version \in {0, document}, opening.states = <<>>
      PROVE  ViewFits'
  <2>1. view' = opening /\ UNCHANGED <<media, configured, foreign, index, headed, changes>>
    BY <1>1 DEF Views!Begin, Views!setting, Views!stand
  <2>2. opening.version \in 0 .. MaxVersion
    BY <1>1, BoundsOfViews DEF ViewInv, ViewTyped
  <2>3. \A n \in DOMAIN opening.states : opening.states[n] \in Views!States
    BY <1>1
  <2>. QED  BY <2>1, <2>2, <2>3 DEF ViewFits
<1>2. ASSUME NEW wanted, NEW opening, Views!Opened(wanted, opening), opening.version = 0, opening.states = <<>>,
             DOMAIN opening = DOMAIN Views!Idle
      PROVE  ViewFits'
  <2>. DEFINE absent == [opening EXCEPT !.pc = "not_found"]
              present == [opening EXCEPT !.version = document]
  <2>1. Views!Begin(absent) \/ Views!Begin(present)
    BY <1>2 DEF Views!Opened
  <2>2. absent.version = 0 /\ absent.states = <<>>
    BY <1>2 DEF Views!Idle
  <2>3. present.version = document /\ present.states = <<>>
    BY <1>2 DEF Views!Idle
  <2>. HIDE DEF absent, present
  <2>. QED  BY <2>1, <2>2, <2>3, <1>1
<1>3. CASE Views!BeginCatalog
  <2>1. PICK ups \in SUBSET configured :
           Views!Begin([Views!Idle EXCEPT !.op = "catalog", !.pc = "heads", !.available = ups])
    BY <1>3 DEF Views!BeginCatalog
  <2>. DEFINE opening == [Views!Idle EXCEPT !.op = "catalog", !.pc = "heads", !.available = ups]
  <2>2. opening.version = 0 /\ opening.states = <<>>
    BY DEF Views!Idle
  <2>. HIDE DEF opening
  <2>. QED  BY <2>1, <2>2, <1>1 DEF opening
<1>4. ASSUME NEW wanted \in 0 .. MaxVersion, NEW page \in BOOLEAN, Views!BeginAsset(wanted, page)
      PROVE  ViewFits'
  <2>. DEFINE first == IF ~page THEN "bytes" ELSE IF media # "pdf" THEN "invalid" ELSE "index"
              asset == [Views!Idle EXCEPT !.op = "asset", !.pc = first]
  <2>1. Views!Opened(wanted, asset)
    BY <1>4 DEF Views!BeginAsset
  <2>2. asset.version = 0 /\ asset.states = <<>> /\ DOMAIN asset = DOMAIN Views!Idle
    BY DEF Views!Idle
  <2>. HIDE DEF asset
  <2>. QED  BY <2>1, <2>2, <1>2
<1>5. ASSUME NEW wanted \in 0 .. MaxVersion, NEW limit \in Limits, NEW text \in SectionTexts,
             Views!BeginText(wanted, limit, text)
      PROVE  ViewFits'
  <2>. DEFINE whole == [Views!Idle EXCEPT !.op = "text", !.pc = "text", !.limit = limit, !.sections = text]
  <2>1. Views!Opened(wanted, whole)
    BY <1>5 DEF Views!BeginText
  <2>2. whole.version = 0 /\ whole.states = <<>> /\ DOMAIN whole = DOMAIN Views!Idle
    BY DEF Views!Idle
  <2>. HIDE DEF whole
  <2>. QED  BY <2>1, <2>2, <1>2
<1>. QED  BY <1>3, <1>4, <1>5

\* What is pending has a state that a catalogue may show.
LEMMA StatesAreStates == ASSUME NEW n PROVE Views!State(n) \in Views!States
<1>1. Views!Pending(Catalogue[n]) \in Views!States
  BY DEF Views!Pending, Views!States
<1>. QED  BY <1>1 DEF Views!State, Views!States

LEMMA ViewFitsOnTheWay ==
    ASSUME ViewInv, ViewFits,
           \/ Views!ReadHeads \/ Views!ReadDocuments \/ Views!ReadPending
           \/ Views!FindIndex \/ Views!ReadFiles \/ Views!ReadBytes \/ Views!ReadText \/ Views!Show
    PROVE  ViewFits'
<1>1. ASSUME NEW opening, Views!Go(opening), opening.version \in {view.version, document},
             \A n \in DOMAIN opening.states : opening.states[n] \in Views!States
      PROVE  ViewFits'
  <2>1. view' = opening /\ UNCHANGED <<media, configured, foreign, index, headed, changes>>
    BY <1>1 DEF Views!Go, Views!setting, Views!stand, Views!history
  <2>2. opening.version \in 0 .. MaxVersion
    BY <1>1 DEF ViewInv, ViewTyped, ViewFits
  <2>. QED  BY <1>1, <2>1, <2>2 DEF ViewFits
<1>2. ASSUME NEW opening, Views!Go(opening), opening.version \in {view.version, document},
             opening.states = view.states
      PROVE  ViewFits'
  BY <1>1, <1>2 DEF ViewFits
<1>3. ASSUME NEW pc, Views!Go(Views!To(pc)) PROVE ViewFits'
  <2>. DEFINE opening == Views!To(pc)
  <2>1. opening.version = view.version /\ opening.states = view.states
    BY ViewDomain DEF Views!To
  <2>. HIDE DEF opening
  <2>. QED  BY <1>2, <1>3, <2>1 DEF opening
<1>4. CASE Views!ReadHeads
  <2>. DEFINE opening == [view EXCEPT !.heads = Append(@, Views!Current(Catalogue[view.at])), !.at = @ + 1,
                                      !.pc = IF view.at = Len(Catalogue) THEN "documents" ELSE "heads"]
  <2>1. Views!Go(opening)
    BY <1>4 DEF Views!ReadHeads
  <2>2. opening.version = view.version /\ opening.states = view.states
    BY ViewDomain
  <2>. HIDE DEF opening
  <2>. QED  BY <1>2, <2>1, <2>2
<1>5. CASE Views!ReadDocuments
  <2>. DEFINE opening == [Views!To("pending") EXCEPT !.version = document]
  <2>1. Views!Go(opening)
    BY <1>5 DEF Views!ReadDocuments
  <2>2. opening.version = document /\ opening.states = view.states
    BY ViewDomain DEF Views!To
  <2>. HIDE DEF opening
  <2>. QED  BY <1>2, <2>1, <2>2
<1>6. CASE Views!ReadPending
  <2>. DEFINE opening == [Views!To("check") EXCEPT !.states = [n \in DOMAIN Catalogue |-> Views!State(n)]]
  <2>1. Views!Go(Views!To("shown")) \/ Views!Go(opening)
    BY <1>6 DEF Views!ReadPending
  <2>2. opening.version = view.version /\ opening.states = [n \in DOMAIN Catalogue |-> Views!State(n)]
    BY ViewDomain DEF Views!To
  <2>3. \A n \in DOMAIN opening.states : opening.states[n] \in Views!States
    BY <2>2, StatesAreStates
  <2>. HIDE DEF opening
  <2>. QED  BY <1>1, <1>3, <2>1, <2>2, <2>3
<1>7. CASE Views!FindIndex
  <2>. DEFINE opening == [Views!To("files") EXCEPT !.found = Views!Current(Visual)]
  <2>1. Views!Go(Views!To("bytes")) \/ Views!Go(opening)
    BY <1>7 DEF Views!FindIndex
  <2>2. opening.version = view.version /\ opening.states = view.states
    BY ViewDomain DEF Views!To
  <2>. HIDE DEF opening
  <2>. QED  BY <1>2, <1>3, <2>1, <2>2
<1>8. CASE Views!ReadFiles
  <2>. DEFINE opening == [Views!To("check") EXCEPT !.content = view.found]
  <2>1. Views!Go(Views!To("failed")) \/ Views!Go(opening)
    BY <1>8 DEF Views!ReadFiles
  <2>2. opening.version = view.version /\ opening.states = view.states
    BY ViewDomain DEF Views!To
  <2>. HIDE DEF opening
  <2>. QED  BY <1>2, <1>3, <2>1, <2>2
<1>9. CASE Views!ReadBytes
  <2>. DEFINE opening == [Views!To("check") EXCEPT !.content = document]
  <2>1. Views!Go(Views!To("not_found")) \/ Views!Go(opening)
    BY <1>9 DEF Views!ReadBytes
  <2>2. opening.version = view.version /\ opening.states = view.states
    BY ViewDomain DEF Views!To
  <2>. HIDE DEF opening
  <2>. QED  BY <1>2, <1>3, <2>1, <2>2
<1>10. CASE Views!ReadText
  <2>. DEFINE taken == Views!Kept(view.sections, view.limit)
              opening == [Views!To("check") EXCEPT !.kept = taken.kept, !.truncated = taken.truncated,
                                                   !.content = view.version]
  <2>1. Views!Go(opening)
    BY <1>10 DEF Views!ReadText
  <2>. HIDE DEF taken
  <2>2. opening.version = view.version /\ opening.states = view.states
    BY ViewDomain DEF Views!To
  <2>. HIDE DEF opening
  <2>. QED  BY <1>2, <2>1, <2>2
<1>11. CASE Views!Show
  <2>. DEFINE opening == [Views!To(IF Views!StillCurrent THEN "shown" ELSE "retry")
                            EXCEPT !.returned = Views!StillCurrent /\ document \in gone]
  <2>1. Views!Go(opening)
    BY <1>11 DEF Views!Show
  <2>2. opening.version = view.version /\ opening.states = view.states
    BY ViewDomain DEF Views!To
  <2>. HIDE DEF opening
  <2>. QED  BY <1>2, <2>1, <2>2
<1>. QED  BY <1>4, <1>5, <1>6, <1>7, <1>8, <1>9, <1>10, <1>11

LEMMA ViewFitsOn == ViewInv /\ ViewFits /\ [Views!Next]_Views!viewsVars => ViewFits'
<1>. SUFFICES ASSUME ViewInv, ViewFits, [Views!Next]_Views!viewsVars PROVE ViewFits'
  OBVIOUS
<1>1. CASE UNCHANGED Views!viewsVars
  BY <1>1 DEF Views!viewsVars, Views!setting, Views!stand, Views!history, ViewFits
<1>. QED  BY <1>1, ViewFitsAfterJobs, ViewFitsAtBegin, ViewFitsOnTheWay DEF Views!Next

LEMMA ViewsTypedWell == Views!Spec => []Views!TypeOK
<1>1. ViewInv /\ ViewFits /\ [Views!Next]_Views!viewsVars => (ViewInv /\ ViewFits)'
  BY ViewStep, ViewFitsOn
<1>2. ViewInv /\ ViewFits => Views!TypeOK
  <2>. SUFFICES ASSUME ViewInv, ViewFits PROVE Views!TypeOK
    OBVIOUS
  <2>1. view.pc \in {"idle", "heads", "documents", "pending", "index", "files", "bytes", "text", "check"} \cup Views!Ended
    BY DEF ViewInv, ViewTyped, Views!Ended
  <2>. QED  BY <2>1 DEF Views!TypeOK, ViewInv, ViewTyped, ViewFits
<1>. QED  BY <1>1, <1>2, ViewInit, ViewFitsAtFirst, PTL DEF Views!Spec

-----------------------------------------------------------------------------
(* Every part keeps its types and its bounds, and a page that the outline's *)
(* items cover and that has text is a leaf of the tree, below its root, with *)
(* no more children to a node than the provider is shown: for any number of *)
(* callers, processes, documents, versions, chunks, items and pages, for any *)
(* fanout of two and more, and however the parts' steps come.               *)
THEOREM PartsStayWellFormed ==
    Spec /\ Native!Spec /\ Probe!Spec /\ Text!Spec /\ Staging!Spec /\ Stores!Spec /\ Hybrid!Spec /\ Migration!Spec
        /\ Views!Spec /\ Sight!Spec /\ Tree!Spec => []PartsAreWellFormed
<1>1. /\ TypeOK /\ Native!TypeOK /\ Probe!TypeOK /\ Text!TypeOK /\ Staging!TypeOK /\ Stores!TypeOK
      /\ Hybrid!TypeOK /\ Migration!TypeOK /\ Views!TypeOK /\ Sight!TypeOK
      /\ Tree!TypeOK /\ Tree!EveryPageIsWithinReach
      => PartsAreWellFormed
  BY DEF PartsAreWellFormed
<1>. QED  BY <1>1, ModelsTypedWell, InstallersTyped, ProbeTyped, TextTypedWell, StagingTypedWell, StoresTypedWell,
             HybridTypedWell, SchemaHolds, ViewsTypedWell, SightTypedWell, EveryPageStaysWithinReach, PTL
=============================================================================
