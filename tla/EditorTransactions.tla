------------------------- MODULE EditorTransactions -------------------------
\* The editor's document and the transactions that change it, as ProseMirror
\* counts positions: a block takes one position before and one after its text,
\* and a position inside the document lies between two of these tokens.
\*
\* A document is the sequence of its top-level blocks; the text of a block is a
\* sequence of runs, each with its link (the identity after "#") and its format.
EXTENDS Numbering

LOCAL INSTANCE SequencesExt
LOCAL INSTANCE FiniteSetsExt

CONSTANTS
    Ids,        \* identities that blocks can have
    TableSize   \* positions a table takes

-----------------------------------------------------------------------------
\* Blocks, and where they are.

SumOf(numbers) ==
    LET sum[n \in 0 .. Len(numbers)] == IF n = 0 THEN 0 ELSE sum[n - 1] + numbers[n]
    IN  sum[Len(numbers)]

TextOf(block) == FlattenSeq([k \in DOMAIN block.runs |-> block.runs[k].text])
Length(runs) == SumOf([k \in DOMAIN runs |-> Len(runs[k].text)])
Size(block) == IF block.type = "table" THEN TableSize ELSE 2 + Length(block.runs)

Before(doc, i) == SumOf([j \in 1 .. i - 1 |-> Size(doc[j])])
After(doc, i) == Before(doc, i) + Size(doc[i])

BlockAt(doc, pos) == {i \in DOMAIN doc : Before(doc, i) = pos}
Referenceable(block) == block.type \in {"heading", "table"}

\* Where run `k` of a block begins, counted from the block's first character.
Offset(block, k) == SumOf([j \in 1 .. k - 1 |-> Len(block.runs[j].text)])

\* Neighbours with the same marks are one text node, and no text node is empty.
Joined(runs) ==
    LET Add(before, run) ==
            CASE run.text = <<>> -> before
              [] /\ before # <<>> /\ run.text # <<>>
                 /\ Last(before).link = run.link /\ Last(before).bold = run.bold ->
                    [before EXCEPT ![Len(before)].text = @ \o run.text]
              [] OTHER -> Append(before, run)
        joined[n \in 0 .. Len(runs)] == IF n = 0 THEN <<>> ELSE Add(joined[n - 1], runs[n])
    IN  joined[Len(runs)]

\* The part of a block's runs between two offsets.
Clip(block, from, to) ==
    LET Within(n, k) == Max({0, Min({n - Offset(block, k), Len(block.runs[k].text)})})
    IN  [k \in DOMAIN block.runs |->
            [block.runs[k] EXCEPT !.text = SubSeq(@, Within(from, k) + 1, Within(to, k))]]

Retyped(block, from, to, runs) ==
    [block EXCEPT !.runs =
        Joined(Clip(block, 0, from) \o runs \o Clip(block, to, Len(TextOf(block))))]

-----------------------------------------------------------------------------
\* StepMap and Mapping of prosemirror-transform: a step replaces `old` positions
\* from `start` by `new` ones. A position is mapped with a side to stay on, and
\* counts as deleted if the token on that side was.

Replaced(start, old, new) == [start |-> start, old |-> old, new |-> new]

MapStep(step, pos, right) ==
    LET end == step.start + step.old
        rightOf == IF step.old = 0 THEN right
                   ELSE pos # step.start /\ (pos = end \/ right)
    IN  CASE pos < step.start -> [pos |-> pos, deleted |-> FALSE]
          [] pos > end -> [pos |-> (pos + step.new) - step.old, deleted |-> FALSE]
          [] OTHER -> [pos |-> step.start + (IF rightOf THEN step.new ELSE 0),
                       deleted |-> IF right THEN pos # end ELSE pos # step.start]

MapResult(maps, pos, right) ==
    LET Through(result, step) ==
            LET next == MapStep(step, result.pos, right)
            IN  [pos |-> next.pos, deleted |-> result.deleted \/ next.deleted]
        mapped[n \in 0 .. Len(maps)] ==
            IF n = 0 THEN [pos |-> pos, deleted |-> FALSE] ELSE Through(mapped[n - 1], maps[n])
    IN  mapped[Len(maps)]

-----------------------------------------------------------------------------
\* Transactions: the document before and after, the maps of the steps, the kind
\* of step, the block it is in, and what the transaction is marked with.

Transaction(before, doc, maps, kind, at) ==
    [before |-> before, doc |-> doc, maps |-> maps, kind |-> kind, at |-> at, meta |-> None]

\* Transactions that only carry a mark for the plugins.
Signal(doc, meta, at) == [Transaction(doc, doc, <<>>, "none", at) EXCEPT !.meta = meta]

DocChanged(tr) == tr.kind # "none"

\* Text in one block is replaced by text, or by nothing.
TextTransaction(doc, i, from, to, runs) ==
    Transaction(doc, [doc EXCEPT ![i] = Retyped(@, from, to, runs)],
        <<Replaced(Before(doc, i) + 1 + from, to - from,
                   Length(runs))>>, "text", i)

\* The blocks from `from` up to `to` are replaced by others.
BlocksTransaction(doc, from, to, blocks) ==
    Transaction(doc, SubSeq(doc, 1, from - 1) \o blocks \o SubSeq(doc, to, Len(doc)),
        <<Replaced(Before(doc, from), SumOf([j \in 1 .. to - from |-> Size(doc[from + j - 1])]),
                   SumOf([j \in DOMAIN blocks |-> Size(blocks[j])]))>>, "blocks", from)

\* A block is split in two at an offset, or joined with the next one.
SplitTransaction(doc, i, offset, second) ==
    LET first == [doc[i] EXCEPT !.runs = Joined(Clip(doc[i], 0, offset))]
    IN  Transaction(doc, SubSeq(doc, 1, i - 1) \o <<first, second>> \o SubSeq(doc, i + 1, Len(doc)),
            <<Replaced(Before(doc, i) + 1 + offset, 0, 2)>>, "blocks", i)

JoinTransaction(doc, i) ==
    LET both == [doc[i] EXCEPT !.runs = Joined(@ \o doc[i + 1].runs)]
    IN  Transaction(doc, SubSeq(doc, 1, i - 1) \o <<both>> \o SubSeq(doc, i + 2, Len(doc)),
            <<Replaced(After(doc, i) - 1, 2, 0)>>, "blocks", i)

\* setNodeMarkup replaces the two ends of each of the blocks around their content.
MarkupTransaction(doc, next, changed) ==
    LET Ends(maps, i) ==
            IF i \notin changed THEN maps
            ELSE maps \o <<Replaced(Before(doc, i), 1, 1), Replaced(After(doc, i) - 1, 1, 1)>>
    IN  Transaction(doc, next, FoldLeft(Ends, <<>>, [i \in DOMAIN doc |-> i]), "around", 0)

\* One transaction with the steps of both.
Followed(tr, second) == [tr EXCEPT !.doc = second.doc, !.maps = @ \o second.maps]

\* Marks change without moving anything.
MarksTransaction(doc, next, i) == Transaction(doc, next, <<>>, "marks", i)

\* isPlainParagraphTextTransaction: one replacement of unmarked text by unmarked
\* text in a top-level paragraph. Every projection trusts this verdict.
PlainParagraph(block) ==
    /\ block.type = "paragraph"
    /\ \A k \in DOMAIN block.runs : block.runs[k].link = None /\ ~block.runs[k].bold

IsPlainText(tr) ==
    tr.kind = "text" /\ PlainParagraph(tr.before[tr.at]) /\ PlainParagraph(tr.doc[tr.at])

-----------------------------------------------------------------------------
\* Identities, completed in transactions appended to the user's own.

IdsOf(doc) == {doc[i].id : i \in DOMAIN doc} \ {None}

Copies(doc) == {i \in DOMAIN doc : doc[i].id # None /\ \E j \in 1 .. i - 1 : doc[j].id = doc[i].id}

\* Those at `places` are given, one after another, an identity of `offered` that
\* no block has (None stands for no identity, which any number of blocks can have).
Renamed(doc, places, offered) ==
    LET Rename(next, i) ==
            IF i \in places
            THEN [next EXCEPT ![i].id = CHOOSE id \in offered : id \notin IdsOf(next)]
            ELSE next
    IN  IF places = {} THEN <<>>
        ELSE <<MarkupTransaction(doc, FoldLeft(Rename, doc, [i \in DOMAIN doc |-> i]), places)>>

\* BlockIdentity: the first occurrence keeps an identity.
BlockIdentity(doc) == Renamed(doc, Copies(doc), {None})

\* PersistentNodeIds: what can be referred to is given a new identity if it has none,
\* or one that something before it has that can be referred to as well.
PersistentNodeIds(doc) ==
    LET Taken(i) == \E j \in 1 .. i - 1 : Referenceable(doc[j]) /\ doc[j].id = doc[i].id
    IN  Renamed(doc, {i \in DOMAIN doc : Referenceable(doc[i]) /\ (doc[i].id = None \/ Taken(i))}, Ids)

\* applyTransaction: the user's transaction and those appended to it. The plugin of
\* the extension listed last comes first, and what one appends the others see.
WithIdentities(tr) ==
    LET Named(trs) == trs \o PersistentNodeIds(Last(trs).doc)
        Unique(trs) == trs \o BlockIdentity(Last(trs).doc)
    IN  IF IsPlainText(tr) \/ ~DocChanged(tr) THEN <<tr>> ELSE Named(Unique(Named(<<tr>>)))
=============================================================================
