-------------------------- MODULE EditorDecorations -------------------------
\* What the editor draws over its document and keeps beside it: folded sections,
\* heading numbers, highlighted code, and whether the document is blank. Each is
\* carried through the maps of a transaction where that is enough, and computed
\* anew where it is not.
EXTENDS StructureIndex

LOCAL INSTANCE SequencesExt

CONSTANTS
    Blanks,      \* tokens that are white space
    IndexFirst   \* whether the index applies a transaction before the numbers do

-----------------------------------------------------------------------------
\* DecorationSet.map for a decoration of a whole block: it stays only if it still
\* spans exactly one.

SpansABlock(span, doc) == \E i \in BlockAt(doc, span.from) : span.to = After(doc, i)

MovedSpans(spans, tr) ==
    LET Moved(span) == [span EXCEPT !.from = MapResult(tr.maps, @, TRUE).pos,
                                    !.to = MapResult(tr.maps, @, FALSE).pos]
        Survives(span) ==
            /\ ~MapResult(tr.maps, span.from, TRUE).deleted
            /\ ~MapResult(tr.maps, span.to, FALSE).deleted
            /\ SpansABlock(Moved(span), tr.doc)
    IN  {Moved(span) : span \in {s \in spans : Survives(s)}}

-----------------------------------------------------------------------------
\* Folded sections (createSectionFoldPlugin). A heading is known by its identity,
\* or by its position until it has one.

FoldTarget(doc, i) == IF doc[i].id # None THEN doc[i].id ELSE <<"pos", Before(doc, i)>>
Headings(doc) == {i \in DOMAIN doc : doc[i].type = "heading"}

\* mapCollapsedFoldTargets
MovedTargets(targets, tr) ==
    LET anonymous == {t \in targets : t \notin Ids}
        Moved(t) == MapResult(tr.maps, t[2], TRUE)
    IN  (targets \cap Ids)
            \cup {<<"pos", Moved(t).pos>> : t \in {u \in anonymous :
                    ~Moved(u).deleted /\ BlockAt(tr.doc, Moved(u).pos) \cap Headings(tr.doc) # {}}}

\* Blocks after a folded heading, up to the next one of its rank.
Under(doc, i) ==
    {j \in i + 1 .. Len(doc) :
        \A k \in i + 1 .. j : k \in Headings(doc) => doc[k].level > doc[i].level}

Hidden(doc, targets) ==
    UNION {{[from |-> Before(doc, j), to |-> After(doc, j)] : j \in Under(doc, i)} :
              i \in {h \in Headings(doc) : FoldTarget(doc, h) \in targets}}

\* rebuildSectionFoldState, normalizeCollapsedFoldTargets
FoldsOf(doc, candidates) ==
    LET folded == {i \in Headings(doc) : {FoldTarget(doc, i), <<"pos", Before(doc, i)>>} \cap candidates # {}}
        targets == {FoldTarget(doc, i) : i \in folded}
    IN  [targets |-> targets, hidden |-> Hidden(doc, targets),
         anonymous |-> {Before(doc, i) : i \in {h \in Headings(doc) : doc[h].id = None}}]

\* anonymousHeadingPositionChanged
AnonymousMoved(positions, tr) ==
    \E pos \in positions :
        \/ MapResult(tr.maps, pos, TRUE) # [pos |-> pos, deleted |-> FALSE]
        \/ BlockAt(tr.doc, pos) \cap Headings(tr.doc) = {}

Toggled(targets, target) ==
    IF target \in targets THEN targets \ {target} ELSE targets \cup {target}

NextFolds(previous, tr) ==
    LET Follow(targets) ==
            CASE tr.meta = "fold" -> FoldsOf(tr.doc, Toggled(targets, FoldTarget(tr.doc, tr.at)))
              [] IsPlainText(tr) /\ ~AnonymousMoved(previous.anonymous, tr) ->
                   [previous EXCEPT !.targets = targets, !.hidden = MovedSpans(@, tr)]
              [] OTHER -> FoldsOf(tr.doc, targets)
    IN  IF tr.meta # "fold" /\ ~DocChanged(tr) THEN previous
        ELSE Follow(MovedTargets(previous.targets, tr))

-----------------------------------------------------------------------------
\* Numbers beside headings (SemanticNumbering). Tiptap applies the extension listed
\* last first, so the index has not seen the transaction yet: the numbers are made
\* anew from the document at every transaction but plain text. Registered after the
\* index, they are rebuilt when its semantic revision has advanced, except under
\* plain text, which leaves them behind until later.

NumbersOver(doc, listed) ==
    LET Shown == {entry \in ToSet(listed.entries) : entry.type = "heading" /\ entry.number # <<>>}
        Beside(entry) ==
            {[from |-> entry.pos, to |-> entry.pos + Size(doc[i]), number |-> entry.number] :
                i \in BlockAt(doc, entry.pos)}
    IN  UNION {Beside(entry) : entry \in Shown}

FirstNumbers(doc, listed) == [spans |-> NumbersOver(doc, listed), behind |-> FALSE]

NextNumbers(previous, tr, outcome, settings) ==
    LET plain == DocChanged(tr) /\ IsPlainText(tr)
        behind == IndexFirst /\ (previous.behind \/ outcome.semantic)
    IN  CASE plain -> [spans |-> MovedSpans(previous.spans, tr), behind |-> behind]
          [] ~plain /\ ~IndexFirst -> FirstNumbers(tr.doc, Build(tr.doc, settings))
          [] ~plain /\ behind -> FirstNumbers(tr.doc, Listed(outcome.index))
          [] OTHER -> [previous EXCEPT !.spans = IF DocChanged(tr) THEN MovedSpans(@, tr) ELSE @]

-----------------------------------------------------------------------------
\* Highlighted code (createOptimizedLowlightPlugin): what is highlighted as what.

CodeAt(doc) == {i \in DOMAIN doc : doc[i].type = "code"}

Highlight(doc, i) == [pos |-> Before(doc, i), text |-> TextOf(doc[i])]

HighlightsOf(doc) == {Highlight(doc, i) : i \in CodeAt(doc)}

\* updateIncrementally: where a block that no step touched has come to lie, or
\* None. A step touches a block if it changes or borders on its content.
Untouched(block, tr) ==
    LET Follow(span, step) ==
            LET end == step.start + step.old
                touched == IF step.old = 0 THEN step.start >= span.from /\ step.start <= span.to
                           ELSE step.start < span.to /\ end > span.from
            IN  IF span = None \/ touched THEN None
                ELSE [from |-> MapStep(step, span.from, TRUE).pos, to |-> MapStep(step, span.to, FALSE).pos]
        start == [from |-> block.pos + 1, to |-> block.pos + 1 + Len(block.text)]
    IN  FoldLeft(Follow, start, tr.maps)

\* What becomes of the highlighting of a block: it is reused where the code block
\* found at its place holds the same text, and else removed.
Reused(previous, tr) ==
    {block \in previous : LET span == Untouched(block, tr) IN
        span # None /\ \E i \in CodeAt(tr.doc) :
            Before(tr.doc, i) = span.from - 1 /\ TextOf(tr.doc[i]) = block.text}

NextHighlights(previous, tr) ==
    LET Moved(blocks) == {[block EXCEPT !.pos = MapResult(tr.maps, @, TRUE).pos] : block \in blocks}
        Completed(kept) ==
            kept \cup {h \in HighlightsOf(tr.doc) : \A block \in kept : block.pos # h.pos}
    IN  IF ~DocChanged(tr) THEN previous
        ELSE IF IsPlainText(tr) THEN Moved(previous)
        ELSE Completed(Moved(Reused(previous, tr)))

-----------------------------------------------------------------------------
\* Whether the start card is shown (blankDocument.ts): only empty paragraphs.

Visible(text) == Len(SelectSeq(text, LAMBDA token : token \notin Blanks))

BlankOf(doc) ==
    [paragraphs |-> \A i \in DOMAIN doc : doc[i].type = "paragraph",
     visible |-> SumOf([i \in DOMAIN doc |->
                    IF doc[i].type = "paragraph" THEN Visible(TextOf(doc[i])) ELSE 0])]

\* updatePlainParagraphProjection counts what the step took out and put in.
TextBetween(doc, i, from, size) == SubSeq(TextOf(doc[i]), from - Before(doc, i), (from - Before(doc, i)) + size - 1)

NextBlank(previous, tr) ==
    LET step == tr.maps[1]
        removed == Visible(TextBetween(tr.before, tr.at, step.start, step.old))
        added == Visible(TextBetween(tr.doc, tr.at, step.start, step.new))
    IN  CASE ~DocChanged(tr) -> previous
          [] DocChanged(tr) /\ IsPlainText(tr) -> [previous EXCEPT !.visible = (@ + added) - removed]
          [] OTHER -> BlankOf(tr.doc)
=============================================================================
