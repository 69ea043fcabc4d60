------------------------- MODULE DocumentOperations -------------------------
\* Semantic operations on a document, as `sdoc apply` runs them: a request names
\* the revision it was written for and a batch of operations; it is applied as a
\* whole or not at all, and what it leaves is normalised: missing identities are
\* assigned, and the text of every internal link is its target's number.
\*
\* A document is the sequence of its blocks in document order, each with its
\* depth: a block's children are the deeper ones that follow it. While a batch
\* runs, blocks carry a key, which stands for the object itself.
EXTENDS Numbering, FiniteSets

LOCAL INSTANCE SequencesExt
LOCAL INSTANCE FiniteSetsExt

CONSTANTS
    Titles, Names,  \* what headings say (None is nothing), and names for identities
    Slug(_),        \* what an identity made from a heading's text is called
    Start,          \* the document at first
    Foreign,        \* documents other programs write
    Blocks,         \* what an operation can insert: blocks with their children
    MaxDepth,       \* nesting (128)
    MaxNodes,       \* blocks in a document (100,000)
    MaxOperations,  \* operations, over all requests
    MaxForeign      \* writes of other programs

MaxLevel == Max(Levels)

ASSUME OperationsAssumption ==
    /\ Levels = 1 .. MaxLevel /\ {MaxDepth, MaxNodes, MaxOperations, MaxForeign} \subseteq Nat

VARIABLES
    file,       \* the document: [blocks, title, settings]
    seen,       \* the document the author of a request inspected, or None
    batch,      \* the request that runs, or None: what it has made of the document
    operations, \* operations so far
    foreign     \* writes of other programs so far

vars == <<file, seen, batch, operations, foreign>>

-----------------------------------------------------------------------------
\* Blocks.

\* An identity: authored, or generated with a suffix that makes it new.
Id(base, suffix) == [base |-> base, suffix |-> suffix]
TableName(n) == <<"table", n>>

Referenceable(block) == block.type \in {"heading", "table"}

Index(blocks, key) ==
    LET at == {i \in DOMAIN blocks : blocks[i].key = key}
    IN  IF at = {} THEN 0 ELSE Min(at)

\* Where the blocks that start at `i` and satisfy nothing of `Stops` end.
EndOf(blocks, i, Stops(_)) ==
    LET after == {j \in i + 1 .. Len(blocks) : Stops(blocks[j])}
    IN  IF after = {} THEN Len(blocks) + 1 ELSE Min(after)

SubtreeEnd(blocks, i) ==
    LET Outside(block) == block.depth <= blocks[i].depth IN EndOf(blocks, i, Outside)

\* The whole text of a block: its own, and that of the link in it. None is no text.
TextOf(block) == <<block.title, block.label>>

\* sectionRange: up to the next heading of the same or a higher rank in the same
\* parent, or to the end of the parent.
SectionEnd(blocks, i) ==
    LET Outside(block) ==
            \/ block.depth < blocks[i].depth
            \/ /\ block.depth = blocks[i].depth /\ block.type = "heading"
               /\ block.level <= blocks[i].level
    IN  EndOf(blocks, i, Outside)

Slice(blocks, from, to) == SubSeq(blocks, from, to - 1)
Without(blocks, from, to) == Slice(blocks, 1, from) \o Slice(blocks, to, Len(blocks) + 1)

\* content.splice(index, 0, ...moved)
Spliced(blocks, place, moved) ==
    LET Nested(block) == [block EXCEPT !.depth = @ + place.depth - moved[1].depth]
    IN  Slice(blocks, 1, place.at) \o [i \in DOMAIN moved |-> Nested(moved[i])]
            \o Slice(blocks, place.at, Len(blocks) + 1)

-----------------------------------------------------------------------------
\* resolveSettings over the defaults.
Policy(settings) ==
    [headings |-> settings.headings # FALSE, hierarchical |-> settings.captions = "hierarchical"]

-----------------------------------------------------------------------------
\* Normalisation and analysis.

IdsOf(blocks) == {blocks[i].id : i \in DOMAIN blocks} \ {None}

\* Nodes of one identity, a horizontal rule's historical one included.
Duplicates_Referenceable(blocks) ==   \* Seeded fault: only link targets collide.
    \E i, j \in DOMAIN blocks :
        /\ i # j /\ blocks[i].id # None /\ blocks[i].id = blocks[j].id
        /\ Referenceable(blocks[i]) /\ Referenceable(blocks[j])

Duplicates(blocks) ==
    \E i, j \in DOMAIN blocks : i # j /\ blocks[i].id # None /\ blocks[i].id = blocks[j].id

\* assignAutoIds
Identified(blocks) ==
    LET reserved == IdsOf(blocks)
        Fresh(base, assigned) ==
            Id(base, CHOOSE n \in 1 .. Len(blocks) + 1 :
                        /\ Id(base, n) \notin reserved \cup assigned
                        /\ \A m \in 1 .. n - 1 : Id(base, m) \in reserved \cup assigned)
        Step(state, block) ==
            LET tables == IF block.type = "table" THEN state.tables + 1 ELSE state.tables
                id == IF ~Referenceable(block) \/ block.id # None THEN block.id
                      ELSE Fresh(IF block.type = "heading" THEN Slug(TextOf(block))
                                 ELSE TableName(tables), state.assigned)
            IN  [blocks |-> Append(state.blocks, [block EXCEPT !.id = id]),
                 assigned |-> state.assigned \cup {id}, tables |-> tables]
    IN  FoldLeft(Step, [blocks |-> <<>>, assigned |-> {}, tables |-> 0], blocks).blocks

Target(blocks, link) ==
    LET at == {i \in DOMAIN blocks : Referenceable(blocks[i]) /\ blocks[i].id = link}
    IN  IF link = None \/ at = {} THEN 0 ELSE Min(at)

\* A heading's label is made of its text as the operations left it, the label of a
\* link in it included.
ReferenceLabel(blocks, numbers, i) == <<numbers[i], TextOf(blocks[i])>>
NoLabel == <<<<>>, <<None, None>>>>

\* syncCrossReferences: all labels are made before the first is put in its place;
\* an empty one is not.
Labelled(blocks, policy) ==
    LET numbers == Numbers(blocks, policy)
        Label(block) ==
            LET i == Target(blocks, block.link)
            IN  IF i = 0 THEN block.label
                ELSE IF ReferenceLabel(blocks, numbers, i) = NoLabel THEN block.label
                ELSE ReferenceLabel(blocks, numbers, i)
    IN  [i \in DOMAIN blocks |-> [blocks[i] EXCEPT !.label = Label(blocks[i])]]

Normalized(after) == Labelled(Identified(after.blocks), Policy(after.settings))

\* Links that lead nowhere, and how often.
Violation(blocks, link) == link # None /\ Target(blocks, link) = 0

Violations(blocks, link) ==
    IF Violation(blocks, link)
    THEN Cardinality({i \in DOMAIN blocks : blocks[i].link = link})
    ELSE 0

LinksOf(blocks) == {blocks[i].link : i \in DOMAIN blocks} \ {None}

Introduces(before, after) ==
    \E link \in LinksOf(after) : Violations(after, link) > Violations(before, link)

-----------------------------------------------------------------------------
\* Requests. An operation names its targets in the document its author inspected;
\* the batch resolves them all before its first operation.

Keyed(blocks) == [i \in DOMAIN blocks |-> [blocks[i] EXCEPT !.key = i]]

Opened == [blocks |-> file.blocks, title |-> file.title, settings |-> file.settings,
           fresh |-> Len(file.blocks), moved |-> None, replaced |-> {}]

Targets == IF batch = None THEN {} ELSE DOMAIN file.blocks

Handle_Path(target) ==   \* Seeded fault: the place the target had, not the target.
    IF target \in DOMAIN batch.blocks THEN target ELSE 0

\* Where a resolved target is now, or 0 when an earlier operation removed it.
Handle(target) == Index(batch.blocks, target)

IsHeading(i) == i # 0 /\ batch.blocks[i].type = "heading"
IsBlock(i) == i # 0 /\ batch.blocks[i].type # "heading"

\* One operation leaves `result`, or fails and takes the whole batch with it.
Operate(possible, result) ==
    /\ operations < MaxOperations
    /\ operations' = operations + 1
    /\ batch' = IF possible THEN [result EXCEPT !.moved = None] ELSE None
    /\ UNCHANGED <<file, seen, foreign>>

With(blocks) == [batch EXCEPT !.blocks = blocks]
Changed(i, block) == With([batch.blocks EXCEPT ![i] = block])

\* Freshly inserted blocks are objects nobody named.
Inserting(place, blocks) ==
    LET own == [i \in DOMAIN blocks |-> [blocks[i] EXCEPT !.key = batch.fresh + i]]
    IN  [batch EXCEPT !.blocks = Spliced(@, place, own), !.fresh = @ + Len(blocks)]

Destinations == [target : Targets, position : {"before", "after", "section-end"}]
Roots == {"document-start", "document-end"}

Nowhere == [at |-> 0, depth |-> 0]

\* destinationIndex
Place(blocks, destination) ==
    LET i == Index(blocks, destination.target)
    IN  IF i = 0 THEN Nowhere
        ELSE IF destination.position = "before" THEN [at |-> i, depth |-> blocks[i].depth]
        ELSE IF destination.position = "after"
             THEN [at |-> SubtreeEnd(blocks, i), depth |-> blocks[i].depth]
        ELSE IF blocks[i].type = "heading"
             THEN [at |-> SectionEnd(blocks, i), depth |-> blocks[i].depth]
        ELSE Nowhere

Root(position) ==
    [at |-> IF position = "document-start" THEN 1 ELSE Len(batch.blocks) + 1, depth |-> 1]

\* Formatting of a heading is dropped only when the author says so.
Retitled(block, title) == [block EXCEPT !.title = title, !.link = None, !.label = None]
Plain(block) == block.link = None

RenameHeading ==
    \E target \in Targets, title \in Titles \cup {None}, discardFormatting \in BOOLEAN :
        LET i == Handle(target)
        IN  Operate(IsHeading(i) /\ (discardFormatting \/ Plain(batch.blocks[i])),
                    Changed(i, Retitled(batch.blocks[i], title)))

SetDocumentTitle ==
    \E title \in Titles \ {None} :
        \/ /\ batch # None
           /\ Operate(TRUE, [batch EXCEPT !.title = title])
        \/ \E target \in Targets, discardFormatting \in BOOLEAN :
               LET i == Handle(target)
               IN  Operate(/\ IsHeading(i) /\ batch.blocks[i].level = 1
                           /\ discardFormatting \/ Plain(batch.blocks[i]),
                           [Changed(i, Retitled(batch.blocks[i], title)) EXCEPT !.title = title])

UpdateDocumentSettings ==
    /\ batch # None
    /\ \/ \E value \in {None, FALSE} : Operate(TRUE, [batch EXCEPT !.settings.headings = value])
       \/ \E value \in {None, "hierarchical"} :
              Operate(TRUE, [batch EXCEPT !.settings.captions = value])

InsertBlock ==
    /\ batch # None
    /\ \E blocks \in Blocks, place \in {Place(batch.blocks, d) : d \in Destinations}
                                           \cup {Root(position) : position \in Roots} :
           Operate(place # Nowhere /\ blocks[1].type # "heading", Inserting(place, blocks))

Heading(level, title, id) ==
    [key |-> 0, depth |-> 1, type |-> "heading", level |-> level, numbered |-> TRUE,
     id |-> id, title |-> title, link |-> None, label |-> None]

NewIds == {Id(name, 1) : name \in Names}

\* A section before or after another, as its last child, or at an end of the document.
InsertSection ==
    /\ batch # None
    /\ \E title \in Titles, id \in NewIds \cup {None}, blocks \in Blocks \cup {<<>>} :
        \/ \E target \in Targets, position \in {"before", "after", "child"} :
               LET i == Handle(target)
                   level == IF position = "child" THEN batch.blocks[i].level + 1
                            ELSE batch.blocks[i].level
                   at == IF position = "before" THEN i ELSE SectionEnd(batch.blocks, i)
               IN  Operate(IsHeading(i) /\ level \in Levels /\ (blocks = <<>> \/ blocks[1].type # "heading"),
                           Inserting([at |-> at, depth |-> batch.blocks[i].depth],
                                     <<Heading(level, title, id)>> \o blocks))
        \/ \E position \in Roots :
               Operate(blocks = <<>> \/ blocks[1].type # "heading",
                       Inserting(Root(position), <<Heading(1, title, id)>> \o blocks))

\* The new block answers to the old one's targets, and keeps its identity.
Replacing(i, blocks) ==
    LET old == batch.blocks[i]
        id == IF old.id = None THEN blocks[1].id ELSE old.id
        own == [j \in DOMAIN blocks |->
                   [blocks[j] EXCEPT !.key = IF j = 1 THEN old.key ELSE batch.fresh + j,
                                     !.id = IF j = 1 THEN id ELSE @]]
        place == [at |-> i, depth |-> old.depth]
    IN  [batch EXCEPT !.blocks = Spliced(Without(@, i, SubtreeEnd(@, i)), place, own),
                      !.fresh = @ + Len(blocks), !.replaced = @ \cup {old.key}]

ReplaceBlock ==
    \E target \in Targets, blocks \in Blocks :
        LET i == Handle(target)
            old == batch.blocks[i]
        IN  Operate(/\ IsBlock(i) /\ blocks[1].type = old.type
                    /\ old.id = None \/ blocks[1].id \in {None, old.id},
                    Replacing(i, blocks))

\* Of the attributes that may be changed only a heading's `numbered` matters here.
UpdateBlockAttrs ==
    \E target \in Targets, numbered \in BOOLEAN :
        LET i == Handle(target)
        IN  Operate(IsHeading(i), Changed(i, [batch.blocks[i] EXCEPT !.numbered = numbered]))

DeleteBlock ==
    \E target \in Targets :
        LET i == Handle(target)
        IN  Operate(IsBlock(i), With(Without(batch.blocks, i, SubtreeEnd(batch.blocks, i))))

DeleteSection ==
    \E target \in Targets :
        LET i == Handle(target)
        IN  Operate(IsHeading(i), With(Without(batch.blocks, i, SectionEnd(batch.blocks, i))))

\* The blocks [from, to) leave the document first; the destination is looked up
\* among those that remain.
Landing(from, to, destination) == Place(Without(batch.blocks, from, to), destination)

Relocate(possible, target, from, to, destination) ==
    LET rest == Without(batch.blocks, from, to)
        place == Landing(from, to, destination)
        moved == [first |-> target, count |-> to - from, destination |-> destination]
    IN  /\ operations < MaxOperations
        /\ operations' = operations + 1
        /\ batch' = IF possible /\ place # Nowhere
                    THEN [With(Spliced(rest, place, Slice(batch.blocks, from, to))) EXCEPT !.moved = moved]
                    ELSE None
        /\ UNCHANGED <<file, seen, foreign>>

MoveBlock ==
    \E target \in Targets, destination \in Destinations :
        LET i == Handle(target)
        IN  Relocate(IsBlock(i), target, i, SubtreeEnd(batch.blocks, i), destination)

MoveSection ==
    \E target \in Targets, destination \in Destinations :
        LET i == Handle(target)
        IN  Relocate(IsHeading(i), target, i, SectionEnd(batch.blocks, i), destination)

\* Every heading of the section that is a child of the same parent moves along.
SetHeadingLevel ==
    \E target \in Targets, level \in Levels :
        LET i == Handle(target)
            Shifts(j) == /\ j \in i .. SectionEnd(batch.blocks, i) - 1
                         /\ batch.blocks[j].type = "heading"
                         /\ batch.blocks[j].depth = batch.blocks[i].depth
            Shifted(j) == batch.blocks[j].level + level - batch.blocks[i].level
        IN  Operate(IsHeading(i) /\ \A j \in DOMAIN batch.blocks : Shifts(j) => Shifted(j) \in Levels,
                    With([j \in DOMAIN batch.blocks |->
                             IF Shifts(j) THEN [batch.blocks[j] EXCEPT !.level = Shifted(j)]
                             ELSE batch.blocks[j]]))

Relinked_Never(block, old, new) == block   \* Seeded fault: links keep the old name.

Relinked(block, old, new) == IF block.link = old THEN [block EXCEPT !.link = new] ELSE block

RenameBlockId ==
    \E target \in Targets, newId \in NewIds :
        LET i == Handle(target)
            oldId == batch.blocks[i].id
            relinked == [j \in DOMAIN batch.blocks |-> Relinked(batch.blocks[j], oldId, newId)]
        IN  Operate(/\ i # 0 /\ Referenceable(batch.blocks[i]) /\ oldId # None
                    /\ \A j \in DOMAIN batch.blocks \ {i} : batch.blocks[j].id # newId,
                    With([relinked EXCEPT ![i].id = newId]))

-----------------------------------------------------------------------------
\* The life of a request.

\* What is written when every operation succeeded, or the document as it was.
Refused(after) ==
    \/ Len(after.blocks) > MaxNodes
    \/ \E i \in DOMAIN after.blocks : after.blocks[i].depth > MaxDepth
    \/ Duplicates(after.blocks)
    \/ Introduces(file.blocks, Normalized(after))

Written(after) ==
    [blocks |-> Keyed(Normalized(after)), title |-> after.title, settings |-> after.settings]

Init ==
    /\ file = Start
    /\ seen = None /\ batch = None
    /\ operations = 0 /\ foreign = 0

\* inspectDocumentBytes; a document with a duplicate identity cannot be inspected.
Inspect ==
    /\ batch = None /\ seen # file
    /\ ~Duplicates(file.blocks)
    /\ seen' = file
    /\ UNCHANGED <<file, batch, operations, foreign>>

ForeignWrite ==
    /\ batch = None /\ foreign < MaxForeign
    /\ file' \in Foreign \ {file}
    /\ foreign' = foreign + 1
    /\ UNCHANGED <<seen, batch, operations>>

\* A request written for an older revision is refused.
Begin ==
    /\ batch = None /\ operations < MaxOperations
    /\ seen = file
    /\ batch' = Opened
    /\ UNCHANGED <<file, seen, operations, foreign>>

Finish ==
    /\ batch # None
    /\ file' = IF Refused(batch) THEN file ELSE Written(batch)
    /\ batch' = None
    /\ UNCHANGED <<seen, operations, foreign>>

Operation ==
    \/ RenameHeading \/ SetDocumentTitle \/ UpdateDocumentSettings
    \/ InsertBlock \/ InsertSection \/ ReplaceBlock \/ UpdateBlockAttrs
    \/ DeleteBlock \/ MoveBlock \/ DeleteSection \/ MoveSection
    \/ SetHeadingLevel \/ RenameBlockId

Next == Inspect \/ ForeignWrite \/ Begin \/ Operation \/ Finish
Spec == Init /\ [][Next]_vars

-----------------------------------------------------------------------------
\* Properties.

\* Only a request that changed the document completes with these.
Commits == batch # None /\ batch' = None /\ file' # file

\* What became of a block of the inspected document: `Was(i)` is the block that
\* stands at `i` in the result, by its key.
Was(i) == batch.blocks[i].key
Survives(key) == \E i \in DOMAIN batch.blocks : Was(i) = key

\* A link that resolved before a request resolves after it, and to the same block
\* as long as that block is still there, whatever was moved, renamed, deleted or
\* inserted in the batch; a link whose block was deleted can only have been given
\* to a block that the request itself created or named.
FollowsItsBlock(i) ==
    LET block == file'.blocks[i]
        before == Target(file.blocks, file.blocks[Was(i)].link)
        now == Target(file'.blocks, block.link)
    IN  block.link # None /\ before # 0 =>
            /\ now # 0
            /\ IF Survives(before) THEN Was(now) = before
               ELSE \/ Was(now) \notin DOMAIN file.blocks
                    \/ file.blocks[Was(now)].id # file'.blocks[now].id

ReferencesFollow ==
    [][Commits => \A i \in DOMAIN file'.blocks :
           Was(i) \in DOMAIN file.blocks \ batch.replaced => FollowsItsBlock(i)]_vars

\* Every link target has an identity after a request, and no two nodes share one.
IdsUnique ==
    [][Commits => \A i, j \in DOMAIN file'.blocks :
           /\ Referenceable(file'.blocks[i]) => file'.blocks[i].id # None
           /\ i # j /\ file'.blocks[i].id # None => file'.blocks[i].id # file'.blocks[j].id]_vars

\* The number of a heading counts, level by level, the numbered headings since
\* the last one of a higher rank; a table's counts the tables, or those of its
\* chapter.
DeclaredNumber(blocks, i, policy) ==
    LET Headings == {j \in 1 .. i : blocks[j].type = "heading"}
        Since(level, j) == \A h \in Headings : h > j => blocks[h].level >= level
        Count(level) == Cardinality({j \in Headings : /\ blocks[j].level = level /\ blocks[j].numbered
                                                      /\ Since(level, j)})
        chapter == {j \in Headings : blocks[j].level = 1}
        Tables(from) == Cardinality({j \in from .. i : blocks[j].type = "table"})
    IN  IF blocks[i].type = "heading"
        THEN IF blocks[i].numbered /\ policy.headings
             THEN [level \in 1 .. blocks[i].level |-> Count(level)] ELSE <<>>
        ELSE IF ~policy.hierarchical THEN <<Tables(1)>>
        ELSE IF chapter = {} THEN <<Tables(1)>>
        ELSE IF ~blocks[Max(chapter)].numbered THEN <<Tables(Max(chapter))>>
        ELSE <<Cardinality({j \in chapter : blocks[j].numbered}), Tables(Max(chapter))>>

\* What the link of block `i`, with that target, is to say; nothing else, if that is empty.
Says(i, number, text) ==
    file'.blocks[i].label = IF <<number, text>> = NoLabel THEN batch.blocks[i].label
                            ELSE <<number, text>>

\* After a request every internal link says the number that its target has in the
\* document as written, under the settings as written, and the text of its target
\* as the last operation left it (numbering.ts:119, sdocUtils.ts:202). That is the
\* text as written, unless the target is a heading with a link that this request
\* itself relabels.
LabelsCurrent ==
    [][Commits => \A i \in DOMAIN file'.blocks :
           LET target == Target(file'.blocks, file'.blocks[i].link)
           IN  target # 0 =>
                   Says(i, DeclaredNumber(file'.blocks, target, Policy(file'.settings)),
                        TextOf(batch.blocks[target]))]_vars

\* The same with the text as written in every case: false, since a reference to a
\* heading that holds a reference is one request behind.
LabelsExact ==
    [][Commits => \A i \in DOMAIN file'.blocks :
           LET target == Target(file'.blocks, file'.blocks[i].link)
           IN  target # 0 =>
                   Says(i, DeclaredNumber(file'.blocks, target, Policy(file'.settings)),
                        TextOf(file'.blocks[target]))]_vars

\* A move puts the blocks, whole and in order, next to the block the author of
\* the request saw there, and leaves every other block where it was.
LandsAt(old, new, moved) ==
    LET from == Index(old, moved.first)
        to == from + moved.count
        rest == Without(old, from, to)
        p == Index(new, moved.first)
        d == Index(new, moved.destination.target)
        Whole == \A n \in 0 .. moved.count - 1 :
                     /\ new[p + n].key = old[from + n].key
                     /\ new[p + n].depth + old[from].depth = old[from + n].depth + new[p].depth
        Inside(j) == /\ new[j].depth >= new[d].depth
                     /\ new[j].depth = new[d].depth /\ new[j].type = "heading"
                            => new[j].level > new[d].level
    IN  /\ Without(new, p, p + moved.count) = rest
        /\ Whole /\ d # 0 /\ new[p].depth = new[d].depth
        /\ CASE moved.destination.position = "before" -> d = p + moved.count
             [] moved.destination.position = "after" ->
                    /\ d < p /\ \A j \in d + 1 .. p - 1 : new[j].depth > new[d].depth
                    /\ p + moved.count \in DOMAIN new => new[p + moved.count].depth <= new[d].depth
             [] OTHER ->
                    /\ d < p /\ \A j \in d + 1 .. p - 1 : Inside(j)
                    /\ p + moved.count \in DOMAIN new => ~Inside(p + moved.count)

MovesLandWhereAsked ==
    [][batch # None /\ batch' # None /\ operations' # operations /\ batch'.moved # None
           => LandsAt(batch.blocks, batch'.blocks, batch'.moved)]_vars
=============================================================================
