---------------------------- MODULE DocumentReads ----------------------------
\* Bounded reading of a document, as `sdoc read` does it: a page holds as many
\* items as fit its budget, and a cursor, which names the revision and the query
\* it belongs to, continues after it. Between two pages requests and other
\* programs may change the document.
EXTENDS DocumentOperations

CONSTANTS
    Projections,      \* what is read: [kind, target], target in the first document
    Budgets,          \* nodes of a page
    MaxWhileReading   \* operations before and between the pages of a read

LOCAL INSTANCE SequencesExt

VARIABLES
    query,     \* the projection that is read, or None
    cursor,    \* what the last page said, or None: [revision, query, next]
    got        \* the items of the pages so far

readVars == <<query, cursor, got>>

-----------------------------------------------------------------------------
\* Items. A block counts with everything in it.

Subtrees(blocks, from, to) ==
    LET IsRoot(i) == blocks[i].depth = blocks[from].depth
        roots == SelectSeq([n \in 1 .. to - from |-> from + n - 1], IsRoot)
    IN  [n \in DOMAIN roots |-> Slice(blocks, roots[n], SubtreeEnd(blocks, roots[n]))]

Each(blocks, Satisfies(_)) ==
    LET chosen == SelectSeq(blocks, Satisfies) IN [n \in DOMAIN chosen |-> <<chosen[n]>>]

IsOutline(block) == block.type = "heading"
IsReference(block) == block.link # None

\* The items of a projection, or None when its target is no section.
Items(document, projection) ==
    LET blocks == document.blocks
    IN  CASE projection.kind = "document" -> Subtrees(blocks, 1, Len(blocks) + 1)
          [] projection.kind = "outline" -> Each(blocks, IsOutline)
          [] projection.kind = "references" -> Each(blocks, IsReference)
          [] OTHER -> IF projection.target \in DOMAIN blocks
                         /\ blocks[projection.target].type = "heading"
                      THEN Subtrees(blocks, projection.target, SectionEnd(blocks, projection.target))
                      ELSE None

\* paginateProjection: where the page that starts after `start` items ends.
Weight(items, from, to) == FoldLeft(LAMBDA sum, item : sum + Len(item), 0, SubSeq(items, from, to))

PageEnd(items, start, budget) ==
    CHOOSE end \in start .. Len(items) :
        /\ Weight(items, start + 1, end) <= budget
        /\ end < Len(items) => Weight(items, start + 1, end + 1) > budget

\* readCursorStart: a cursor of another revision or of another query is refused.
Accepts_AnyRevision(projection) ==   \* Seeded fault: the revision is not compared.
    cursor # None => cursor.query = projection

Accepts(projection) ==
    cursor # None => cursor.revision = file /\ cursor.query = projection

FirstOf(projection) == IF cursor = None THEN 0 ELSE cursor.next

\* A page of at least one item, unless the projection has none: an item that
\* exceeds the budget alone is an error, which leaves the reader where it was.
Page(projection, budget) ==
    LET items == Items(file, projection)
        start == FirstOf(projection)
        end == PageEnd(items, start, budget)
    IN  /\ Accepts(projection)
        /\ items # None /\ start <= Len(items)
        /\ end > start \/ items = <<>>
        /\ query' = projection
        /\ got' = (IF cursor = None THEN <<>> ELSE got) \o SubSeq(items, start + 1, end)
        /\ cursor' = IF end = Len(items) THEN None
                     ELSE [revision |-> file, query |-> projection, next |-> end]

\* A cursor that is refused makes the reader begin again.
Again(projection) ==
    /\ ~Accepts(projection)
    /\ query' = None /\ cursor' = None /\ got' = <<>>

ReadPage ==
    /\ batch = None /\ operations <= MaxWhileReading
    /\ ~Duplicates(file.blocks)
    /\ \E projection \in Projections :
        \/ \E budget \in Budgets : Page(projection, budget)
        \/ Again(projection)
    /\ UNCHANGED vars

-----------------------------------------------------------------------------
ReadsInit == Init /\ query = None /\ cursor = None /\ got = <<>>

Requests ==
    /\ Next
    /\ query # None => operations' <= MaxWhileReading
    /\ UNCHANGED readVars

ReadsNext == Requests \/ ReadPage
ReadsSpec == ReadsInit /\ [][ReadsNext]_<<vars, readVars>>

-----------------------------------------------------------------------------
\* Properties.

\* The pages of a read that came to its end are, together, every item of the
\* projection once and in order, all of the document as it is at the last page,
\* whatever was written between the pages, and whatever budgets they were read with.
ReadsOneDocument ==
    [][got' # got /\ cursor' = None /\ query' # None => got' = Items(file, query')]_readVars
=============================================================================
