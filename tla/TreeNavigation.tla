--------------------------- MODULE TreeNavigation ---------------------------
(* The engine that finds pages of one PDF by its outline                     *)
(* (rag/tree_navigation/engine.py): it turns the outline into a tree of      *)
(* bounded fan-out and lets the provider choose its way down to pages.  The  *)
(* index is made once; a query reads it while the source may be replaced and *)
(* the user may cancel.  Publication of indexes is in SelectedEngines, the   *)
(* provider is in Inference.                                                 *)
EXTENDS Naturals, Sequences, FiniteSets, FiniteSetsExt, SequencesExt

CONSTANTS
    Outlines,       \* outlines a PDF may have, item by item: [id, from, to, parent]
    Texts,          \* Texts[p]: size of the text of page p, 0 if it has none
    Fanout,         \* children of a node
    MaxNodes,       \* nodes of an outline
    MaxPdfPages,    \* max_pdf_pages: pages an outline may name
    MaxSteps,       \* max_navigation_steps
    MaxChoices,     \* nodes the provider may choose at once
    MaxPages,       \* pages of evidence
    ContextChars    \* max_context_chars

VARIABLES
    outline,    \* the outline; an item's parent is the item it is in, or 0
    tree,       \* the navigation index: its nodes
    frontier,   \* nodes the provider is to choose from
    selected,   \* pages chosen so far
    steps,      \* turns taken
    at,         \* where the engine is
    current,    \* the source version is still the one the index is for
    cancelled   \* the query was cancelled

treeVars == <<outline, tree, frontier, selected, steps, at, current, cancelled>>

Pages == DOMAIN Texts
WithText == {p \in Pages : Texts[p] > 0}

Init ==
    /\ outline \in Outlines /\ tree = {} /\ frontier = {} /\ selected = {} /\ steps = 0
    /\ at = "outlined" /\ current = TRUE /\ cancelled = FALSE

index == <<outline, tree>>
Refuse == at' = "refused" /\ UNCHANGED <<index, frontier, selected, steps, current, cancelled>>

-----------------------------------------------------------------------------
Items == DOMAIN outline
Below(n) == {m \in Items : outline[m].parent = n}
Matching(n) == {p \in WithText : outline[n].from <= p /\ p <= outline[n].to}

(* What is listed under the outline itself (0) or an item: its items; or if  *)
(* it has none its pages, unless there is one at most.                       *)
HasPages(n) == n # 0 /\ Below(n) = {}
Listed(n) == IF ~HasPages(n) THEN Below(n)
             ELSE IF Cardinality(Matching(n)) > 1 THEN Matching(n) ELSE {}

(* A slip a maintainer could make: a last group that is not full is lost.    *)
GroupsFull(n) == n \div Fanout

(* How many groups n nodes make.                                             *)
Groups(n) == (n + Fanout - 1) \div Fanout

(* While a list is longer than the fan-out it is put into groups, row upon   *)
(* row: the numbers in a row, the rows that are made, and the last of them.  *)
Width(owner, row) == FoldLeft(LAMBDA width, n : Groups(width), Cardinality(Listed(owner)), [n \in 1 .. row |-> n])
Row(owner, row) == IF row = 0 THEN Listed(owner) ELSE 1 .. Width(owner, row)
Rows(owner) == {row \in 0 .. Width(owner, 0) : \A r \in 0 .. row - 1 : Width(owner, r) > Fanout}

Node(owner, row, n) == [owner |-> owner, row |-> row, number |-> n]
Made(owner, rows) == UNION {{Node(owner, row, n) : n \in Row(owner, row)} : row \in rows}
Top(owner) == Made(owner, {row \in Rows(owner) : Width(owner, row) <= Fanout})
Nodes == UNION {Made(owner, Rows(owner)) : owner \in Items \cup {0}}

(* A group has its slice of the row below, an item what is listed under it.  *)
Place(numbers, n) == Cardinality({m \in numbers : m <= n})
Slice(node) == LET below == Row(node.owner, node.row - 1)
               IN {n \in below : node.number = (Place(below, n) - 1) \div Fanout + 1}
Children(node) ==
    IF node.row # 0 THEN {Node(node.owner, node.row - 1, n) : n \in Slice(node)}
    ELSE IF HasPages(node.owner) THEN {} ELSE Top(node.number)

(* A page's node has the page, an item's the only one it covers, if any.     *)
Page(node) ==
    IF node.row # 0 THEN 0
    ELSE IF HasPages(node.owner) THEN node.number
    ELSE IF Listed(node.number) = {} /\ Matching(node.number) # {} THEN Min(Matching(node.number)) ELSE 0

(* A group's name is a digest of its children's names, so of what is below.  *)
Id(node) ==
    LET listed == Listed(node.owner)
        place == Place(Row(node.owner, node.row), node.number)
    IN [row |-> node.row, pages |-> HasPages(node.owner),
        under |-> {n \in listed : place = (Place(listed, n) - 1) \div Fanout ^ node.row + 1}]

(* Page ranges within the limit, names that are used once, not too many nodes. *)
OutlineAccepted ==
    /\ Len(outline) <= MaxNodes
    /\ \A n \in Items : 1 <= outline[n].from /\ outline[n].from <= outline[n].to /\ outline[n].to <= MaxPdfPages
    /\ \A m, n \in Items : m # n => outline[m].id # outline[n].id

Build ==
    /\ at = "outlined"
    /\ IF ~OutlineAccepted \/ WithText = {} \/ Top(0) = {}
       THEN Refuse
       ELSE /\ tree' = Nodes /\ at' = "indexed"
            /\ UNCHANGED <<outline, frontier, selected, steps, current, cancelled>>

-----------------------------------------------------------------------------
(* The source is replaced or deleted; the user cancels.                      *)
Replace == current' = FALSE /\ UNCHANGED <<index, frontier, selected, steps, at, cancelled>>
Cancel == cancelled' = TRUE /\ UNCHANGED <<index, frontier, selected, steps, at, current>>

Begin ==
    /\ at = "indexed"
    /\ IF current THEN /\ frontier' = Top(0) /\ at' = "asking"
                       /\ UNCHANGED <<index, selected, steps, current, cancelled>>
       ELSE Refuse

(* A slip a maintainer could make: the turns are not counted.                *)
EnoughUncounted == frontier = {} \/ Cardinality(selected) >= MaxPages

(* No node is left, or no turn, or enough pages are there.                   *)
Enough == frontier = {} \/ steps = MaxSteps \/ Cardinality(selected) >= MaxPages

(* Before the provider is asked: not cancelled, not too much, still current. *)
MayAsk == ~cancelled /\ Cardinality(frontier) <= 2 * Fanout /\ current

(* The names a provider may answer with: some of those offered, each once.   *)
Offered == {Id(node) : node \in frontier}
Answers == {chosen \in SUBSET Offered : Cardinality(chosen) <= MaxChoices}

(* Another check of the source when the answer is there, then one level down.*)
Follow(chosen) ==
    LET taken == {node \in frontier : Id(node) \in chosen}
    IN /\ frontier' = UNION {Children(node) : node \in taken}
       /\ selected' = selected \cup
              {Page(node) : node \in {n \in taken : Children(n) = {} /\ Page(n) \in WithText}}
       /\ steps' = steps + 1

Ask ==
    /\ at = "asking" /\ ~Enough
    /\ IF MayAsk THEN at' = "chosen" /\ UNCHANGED <<index, frontier, selected, steps, current, cancelled>>
       ELSE Refuse

Choose ==
    /\ at = "chosen"
    /\ \/ /\ current /\ (\E chosen \in Answers : Follow(chosen)) /\ at' = "asking"
          /\ UNCHANGED <<index, current, cancelled>>
       \/ Refuse

Size(pages) == FoldSet(LAMBDA p, sum : Texts[p] + sum, 0, pages)

(* Nothing is answered from a way that was not followed to its end, and if   *)
(* there were turns left, not for who cancelled.                             *)
Navigated ==
    /\ at = "asking" /\ Enough
    /\ IF /\ frontier = {} /\ Cardinality(selected) <= MaxPages /\ Size(selected) <= ContextChars
          /\ cancelled => steps = MaxSteps \/ Cardinality(selected) = MaxPages
          /\ current
       THEN at' = "navigated" /\ UNCHANGED <<index, frontier, selected, steps, current, cancelled>>
       ELSE Refuse

Next ==
    \/ Replace \/ Cancel
    \/ Build \/ Begin \/ Ask \/ Choose \/ Navigated

Spec == Init /\ [][Next]_treeVars

-----------------------------------------------------------------------------
TypeOK ==
    /\ outline \in Outlines /\ tree \in {{}, Nodes} /\ frontier \subseteq tree
    /\ selected \subseteq WithText /\ steps \in 0 .. MaxSteps
    /\ at \in {"outlined", "indexed", "asking", "chosen", "navigated", "refused"}
    /\ current \in BOOLEAN /\ cancelled \in BOOLEAN

(* A node's parent comes before it: an item before those in it, a row of     *)
(* groups before what was grouped.                                           *)
Before(m, n) == m.owner < n.owner \/ (m.owner = n.owner /\ m.row > n.row)

(* The pages at the leaves are those with text that a leaf of the outline    *)
(* covers; every node is offered at the beginning or below one before it;    *)
(* and no more are offered together than the fan-out (engine.py:34-80).      *)
EveryPageIsWithinReach ==
    tree # {} =>
        /\ {Page(node) : node \in {n \in tree : Children(n) = {}}} \ {0}
               = UNION {Matching(n) : n \in {m \in Items : Below(m) = {}}}
        /\ \A node \in tree : node \in Top(0) \/ \E m \in tree : Before(m, node) /\ node \in Children(m)
        /\ \A offered \in {Top(0)} \cup {Children(node) : node \in tree} :
              offered \subseteq tree /\ Cardinality(offered) <= Fanout
=============================================================================
