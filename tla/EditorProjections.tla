-------------------------- MODULE EditorProjections --------------------------
\* The editor at work: transactions of the user and of the host's answers, the
\* projections carried through them, the trailing rebuild of the index, and the
\* microtask that rewrites the labels of internal links.
EXTENDS EditorDecorations, FiniteSets

LOCAL INSTANCE SequencesExt
LOCAL INSTANCE FiniteSetsExt

CONSTANTS
    Starts,           \* documents the editor opens with
    Inserted,         \* blocks that are pasted, inserted, or brought back by undo
    Replacements,     \* documents that the host sends instead
    Words,            \* tokens the user types
    Policies,         \* numbering settings
    Opening,          \* the settings at first
    FormatsLinks,     \* whether part of a link is formatted
    LinksInHeadings,  \* whether a heading can contain a link
    MaxBlocks,        \* bound: blocks of a document
    MaxLength,        \* bound: tokens of a block, after typing
    MaxEdits          \* bound: acts of the user and the host

\* An identity is free whenever one is needed.
ASSUME IdsAssumption == Cardinality(Ids) >= MaxBlocks

VARIABLES
    doc, index, folds, numbers, highlights, blank,
    settings,   \* what the plugins read (settingsRef)
    refresh,    \* the effect that tells the plugins of new settings is to run
    timer,      \* the rebuild of the index is scheduled
    pending,    \* the index the label synchronization was given, or None
    dispatched, \* the transaction that was dispatched just now, or None
    folded,     \* history: headings the user folded and that are still there
    edits

projections == <<doc, index, folds, numbers, highlights, blank>>
editor == <<projections, timer, pending, folded>>
vars == <<editor, settings, refresh, dispatched, edits>>

Linked(block) == \E k \in DOMAIN block.runs : block.runs[k].link # None
HeadingIds(d) == {d[i].id : i \in Headings(d)}

-----------------------------------------------------------------------------
\* Each plugin applies the transaction and those appended to it; then the views
\* are updated, and the listeners see the root transaction.

Carry(now, each, outcome) ==
    [index |-> outcome.index,
     semantic |-> now.semantic \/ outcome.semantic,
     invalidated |-> now.invalidated \/ outcome.invalidated,
     folds |-> NextFolds(now.folds, each),
     numbers |-> NextNumbers(now.numbers, each, outcome, settings),
     highlights |-> NextHighlights(now.highlights, each),
     doc |-> each.doc]

Applied(tr) ==
    LET Apply(now, each) == Carry(now, each, NextIndex(now.index, each, settings))
        begin == [index |-> index, semantic |-> FALSE, invalidated |-> FALSE, folds |-> folds,
                  numbers |-> numbers, highlights |-> highlights, doc |-> doc]
        trs == WithIdentities(tr)
        after[n \in 0 .. Len(trs)] == IF n = 0 THEN begin ELSE Apply(after[n - 1], trs[n])
    IN  after[Len(trs)]

\* The index plugin's view asks for a rebuild and tells the listeners.
Dispatch ==
    /\ dispatched # None
    /\ dispatched' = None
    /\ \E applied \in {Applied(dispatched)} :
        /\ doc' = applied.doc
        /\ index' = applied.index
        /\ folds' = applied.folds
        /\ numbers' = applied.numbers
        /\ highlights' = applied.highlights
        /\ blank' = NextBlank(blank, dispatched)
        /\ timer' = (timer \/ (applied.invalidated /\ applied.index.dirty))
        /\ pending' = IF applied.semantic THEN Listed(applied.index) ELSE None
        /\ folded' = folded \cap HeadingIds(applied.doc)
    /\ UNCHANGED <<settings, refresh, edits>>

Idle == dispatched = None /\ pending = None
MayAct == Idle /\ edits < MaxEdits

-----------------------------------------------------------------------------
\* Acts of the user and the host.

Act(tr) ==
    /\ edits' = edits + 1
    /\ dispatched' = tr
    /\ UNCHANGED <<editor, settings, refresh>>

\* Text typed between two tokens takes the marks of the text around it; at the end
\* of a run it may take none.
Type ==
    /\ MayAct
    /\ \E i \in DOMAIN doc, word \in Words :
           /\ doc[i].type # "table" /\ Len(TextOf(doc[i])) < MaxLength
           /\ \/ \E k \in DOMAIN doc[i].runs, at \in 1 .. Len(TextOf(doc[i])) :
                   /\ at > Offset(doc[i], k) /\ at <= Offset(doc[i], k) + Len(doc[i].runs[k].text)
                   /\ Act(TextTransaction(doc, i, at, at, <<[doc[i].runs[k] EXCEPT !.text = <<word>>]>>))
              \/ \E at \in {0} \cup {Offset(doc[i], k) : k \in DOMAIN doc[i].runs} \cup {Len(TextOf(doc[i]))} :
                   Act(TextTransaction(doc, i, at, at, <<[text |-> <<word>>, link |-> None, bold |-> FALSE]>>))

Delete ==
    /\ MayAct
    /\ \E i \in DOMAIN doc : \E from, to \in 0 .. Len(TextOf(doc[i])) :
           /\ from < to
           /\ to - from = 1 \/ (from = 0 /\ to = Len(TextOf(doc[i])))
           /\ Act(TextTransaction(doc, i, from, to, <<>>))

InsertBlock ==
    /\ MayAct
    /\ \E i \in 1 .. Len(doc) + 1, block \in Inserted :
           Len(doc) < MaxBlocks /\ Act(BlocksTransaction(doc, i, i, <<block>>))

DeleteBlock ==
    /\ MayAct
    /\ \E i \in DOMAIN doc : Len(doc) > 1 /\ Act(BlocksTransaction(doc, i, i + 1, <<>>))

\* Enter copies the block with its identity; after the end of a heading goes a
\* paragraph, and so does before its start.
Split ==
    /\ MayAct
    /\ \E i \in DOMAIN doc : \E at \in 0 .. Len(TextOf(doc[i])) :
           LET block == doc[i]
               atEnd == at = Len(TextOf(block))
               rest == [block EXCEPT !.runs = Joined(Clip(block, at, Len(TextOf(block))))]
               tr == SplitTransaction(doc, i, at,
                       IF ~atEnd THEN rest
                       ELSE [rest EXCEPT !.type = "paragraph", !.level = 1,
                                         !.id = IF block.type = "heading" THEN @ ELSE None])
               above == [tr.doc[i] EXCEPT !.type = "paragraph", !.level = 1, !.id = None]
           IN  /\ block.type \in {"heading", "paragraph"} /\ Len(doc) < MaxBlocks
               /\ Act(IF block.type = "heading" /\ at = 0 /\ ~atEnd
                      THEN Followed(tr, MarkupTransaction(tr.doc, [tr.doc EXCEPT ![i] = above], {i}))
                      ELSE tr)

\* Backspace at the start of a block; the one before it gives way if it is empty.
Join ==
    /\ MayAct
    /\ \E i \in 1 .. Len(doc) - 1 :
           /\ {doc[i].type, doc[i + 1].type} \subseteq {"heading", "paragraph"}
           /\ TextOf(doc[i]) # <<>>
           /\ doc[i].type = "heading" => LinksInHeadings \/ ~Linked(doc[i + 1])
           /\ Act(JoinTransaction(doc, i))

\* Tab and Shift-Tab: the level of a heading, or a paragraph for a heading.
ToggleHeading ==
    /\ MayAct
    /\ \E i \in DOMAIN doc, type \in {"heading", "paragraph"}, level \in Levels :
           LET next == [doc[i] EXCEPT !.type = type, !.level = level]
           IN  /\ doc[i].type \in {"heading", "paragraph"} /\ next # doc[i]
               /\ type = "paragraph" => level = 1
               /\ type = "heading" => LinksInHeadings \/ ~Linked(doc[i])
               /\ Act(MarkupTransaction(doc, [doc EXCEPT ![i] = next], {i}))

\* A link is put on a run, moved to another target, or taken away.
SetLink ==
    /\ MayAct
    /\ \E i \in DOMAIN doc : \E k \in DOMAIN doc[i].runs, target \in IdsOf(doc) \cup {None} :
           /\ doc[i].type = "paragraph" \/ (doc[i].type = "heading" /\ LinksInHeadings)
           /\ doc[i].runs[k].link # target /\ (FormatsLinks \/ ~doc[i].runs[k].bold)
           /\ Act(MarksTransaction(doc,
                   [doc EXCEPT ![i].runs = Joined([@ EXCEPT ![k].link = target])], i))

\* Part of a text becomes bold; of a link, that makes two text nodes with the link.
Format ==
    /\ MayAct
    /\ \E i \in DOMAIN doc : \E k \in DOMAIN doc[i].runs :
           LET run == doc[i].runs[k]
           IN  /\ doc[i].type # "code" /\ Len(run.text) > 1 /\ (FormatsLinks \/ run.link = None)
               /\ Act(MarksTransaction(doc,
                       [doc EXCEPT ![i].runs =
                           SubSeq(@, 1, k - 1)
                               \o <<[run EXCEPT !.text = SubSeq(@, 1, 1), !.bold = TRUE],
                                    [run EXCEPT !.text = SubSeq(@, 2, Len(@))]>>
                               \o SubSeq(@, k + 1, Len(@))], i))

\* setContent: the host's document replaces this one.
ReplaceDocument ==
    /\ MayAct
    /\ \E replacement \in Replacements : Act(BlocksTransaction(doc, 1, Len(doc) + 1, replacement))

ToggleFold ==
    /\ MayAct
    /\ \E i \in Headings(doc) :
           /\ edits' = edits + 1
           /\ dispatched' = Signal(doc, "fold", i)
           /\ folded' = Toggled(folded, doc[i].id)
           /\ UNCHANGED <<projections, timer, pending, settings, refresh>>

\* The render hands the plugins new settings; an effect tells them later.
ChangeSettings ==
    /\ MayAct /\ ~refresh
    /\ edits' = edits + 1
    /\ settings' \in Policies \ {settings}
    /\ refresh' = TRUE
    /\ UNCHANGED <<editor, dispatched>>

-----------------------------------------------------------------------------
\* What the editor does by itself.

Refresh ==
    /\ Idle /\ refresh
    /\ refresh' = FALSE
    /\ dispatched' = Signal(doc, "refresh", 0)
    /\ UNCHANGED <<editor, settings, edits>>

\* ensureStructureIndexFresh
Ensure ==
    dispatched' = IF index.dirty \/ index.policy # index.pending
                  THEN Signal(doc, "rebuild", 0) ELSE None

TimerFires ==
    /\ Idle /\ timer
    /\ timer' = FALSE
    /\ Ensure
    /\ UNCHANGED <<projections, pending, folded, settings, refresh, edits>>

\* The list of targets after "@", and the commands of endnotes, do not wait.
EnsureFresh ==
    /\ Idle
    /\ Ensure
    /\ UNCHANGED <<editor, settings, refresh, edits>>

RunsAt(d, pos) ==
    {place \in UNION {{i} \X DOMAIN d[i].runs : i \in DOMAIN d} :
        LET from == Before(d, place[1]) + 1 + Offset(d[place[1]], place[2])
        IN  from <= pos /\ pos < from + Len(d[place[1]].runs[place[2]].text)}

\* What a link is to show, or nothing where it already does or has no target.
LabelFor(link) ==
    LET named == {n \in DOMAIN pending.entries : pending.entries[n].id = link.target}
        shown == {place \in RunsAt(doc, link.from) : doc[place[1]].runs[place[2]].link # None}
    IN  IF named = {} \/ shown = {} THEN <<>>
        ELSE LET place == CHOOSE p \in shown : TRUE
                 label == pending.entries[Max(named)].label
             IN  IF doc[place[1]].runs[place[2]].text = label THEN <<>> ELSE label

\* CrossReference's synchronize: all labels in one transaction, the last one first.
Relabelled ==
    LET outdated == SelectSeq(pending.links, LAMBDA link : LabelFor(link) # <<>>)
        Relabel(tr, link) ==
            LET place == CHOOSE p \in RunsAt(doc, link.from) : TRUE
                from == link.from - Before(doc, place[1]) - 1
                step == TextTransaction(tr.doc, place[1], from, from + (link.to - link.from),
                            <<[text |-> LabelFor(link), bold |-> FALSE,
                               link |-> doc[place[1]].runs[place[2]].link]>>)
            IN  [tr EXCEPT !.doc = step.doc, !.maps = @ \o step.maps, !.kind = "links"]
    IN  FoldRight(LAMBDA link, tr : Relabel(tr, link), outdated, Signal(doc, "sync", 0))

Synchronize ==
    /\ dispatched = None /\ pending # None
    /\ pending' = None
    /\ dispatched' \in {IF DocChanged(tr) THEN tr ELSE None : tr \in {Relabelled}}
    /\ UNCHANGED <<projections, timer, folded, settings, refresh, edits>>

\* Another plugin is registered: the views of all plugins are made anew.
Remount ==
    /\ Idle
    /\ timer' = index.dirty
    /\ pending' = Materialized(index, doc)
    /\ UNCHANGED <<projections, dispatched, settings, refresh, folded, edits>>

-----------------------------------------------------------------------------
Init ==
    /\ doc \in Starts
    /\ settings = Opening
    /\ index = FirstIndex(doc, settings)
    /\ folds = FoldsOf(doc, {})
    /\ numbers = FirstNumbers(doc, Listed(index))
    /\ highlights = HighlightsOf(doc)
    /\ blank = BlankOf(doc)
    /\ refresh = FALSE /\ timer = FALSE
    /\ pending = Listed(index)
    /\ dispatched = None /\ folded = {} /\ edits = 0

Next ==
    \/ Type \/ Delete \/ InsertBlock \/ DeleteBlock \/ Split \/ Join
    \/ ToggleHeading \/ SetLink \/ Format \/ ReplaceDocument \/ ToggleFold \/ ChangeSettings
    \/ Dispatch \/ Synchronize \/ Refresh \/ TimerFires \/ EnsureFresh \/ Remount

Spec == Init /\ [][Next]_vars

-----------------------------------------------------------------------------
\* A projection that no rebuild is due for equals the one a full pass over the
\* document computes, although most transactions only move what was there.

Current == ~index.dirty /\ index.policy = settings

\* Even a dirty index has every position right: navigation relies on it.
PositionsTruthful ==
    LET listed == Materialized(index, doc)
    IN  /\ \A n \in DOMAIN listed.entries : BlockAt(doc, listed.entries[n].pos) # {}
        /\ \A i \in DOMAIN doc :
             LET found == PositionsOf(index, doc, doc[i].id)
             IN  doc[i].id # None /\ found # {} => found = {Before(doc, i)}

IndexTruthful ==
    /\ Current => Materialized(index, doc) = Build(doc, settings)
    /\ index.dirty => timer
    /\ index.policy # settings => timer \/ refresh

\* NumbersCurrent: the numbers beside the headings are those of the document, also
\* while the index still waits for its rebuild (SemanticNumbering); if the index
\* came first, they would be as soon as it is clean.
NumbersCurrent ==
    dispatched = None /\ (IF IndexFirst THEN Current ELSE ~refresh) =>
        numbers.spans = NumbersOver(doc, Build(doc, settings))

FoldsTruthful == folds.hidden = Hidden(doc, folded)

\* ProjectionsTruthful: the index, the numbers, the folded sections, the
\* highlighting and the blank state always belong to the document as it is,
\* however many transactions moved them since they were computed
\* (structureIndex.ts, tiptapExtensions.ts, optimizedLowlightPlugin.ts).
ProjectionsTruthful ==
    dispatched = None =>
        /\ PositionsTruthful
        /\ IndexTruthful
        /\ NumbersCurrent
        /\ FoldsTruthful
        /\ highlights = HighlightsOf(doc)
        /\ blank = BlankOf(doc)

\* QuietLinksCurrent: when no rebuild, refresh or synchronization is to come,
\* every internal link shows the label its target has now (CrossReference.ts:44).
QuietLinksCurrent ==
    Idle /\ ~timer /\ ~refresh =>
        \A i, j \in DOMAIN doc : \A k \in DOMAIN doc[i].runs :
            /\ doc[i].runs[k].link # None /\ doc[i].runs[k].link = doc[j].id
            /\ Referenceable(doc[j])
            => LET label == ReferenceLabel(doc[j], Numbers(doc, settings)[j])
               IN  label = <<>> \/ doc[i].runs[k].text = label
=============================================================================
