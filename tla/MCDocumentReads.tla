-------------------------- MODULE MCDocumentReads --------------------------
\* A document with two chapters: a link into the second one, a nested table, and a
\* broken link in a formatted heading without an identity. Another has a reference
\* to a heading that itself holds one.
EXTENDS DocumentReads

CONSTANTS a, b, c, n, t, gone

MCTitles == {"one"}
MCNames == {c, n}
MCSlug(text) == <<"slug", text>>
MCLevels == 1 .. 3

\* What a link says before anyone has given it its label.
Stale == <<<<>>, <<"two", None>>>>

Block(depth, type, id, link) ==
    [key |-> 0, depth |-> depth, type |-> type, level |-> 0, numbered |-> FALSE, id |-> id,
     title |-> None, link |-> link, label |-> IF link = None THEN None ELSE Stale]
Section(level, title, id, link) ==
    [Block(1, "heading", id, link) EXCEPT !.level = level, !.numbered = TRUE, !.title = title]

Contents(settings, blocks) == [blocks |-> Keyed(blocks), title |-> None, settings |-> settings]
Defaults == [headings |-> None, captions |-> None]

MCStart ==
    Contents(Defaults,
        <<Section(1, "one", Id(a, 1), None),
          Block(1, "paragraph", None, Id(c, 1)),
          Block(1, "callout", None, None),
          Block(2, "table", Id(t, 1), None),
          Section(1, "two", None, Id(gone, 1)),
          Section(2, "one", Id(c, 1), None)>>)

MCForeign ==
    {Contents(Defaults,
        <<Section(1, "one", Id(a, 1), Id(c, 1)), Block(1, "paragraph", None, Id(a, 1)),
          Section(2, "two", Id(c, 1), None)>>)}

\* A rule with an identity that is taken, and a callout with a link and a table.
MCBlocks ==
    {<<Block(1, "rule", Id(a, 1), None)>>,
     <<Block(1, "callout", None, None), Block(2, "paragraph", None, Id(c, 1)),
       Block(2, "table", None, None)>>}

MCProjections ==
    {[kind |-> "document", target |-> 0], [kind |-> "outline", target |-> 0],
     [kind |-> "references", target |-> 0],
     [kind |-> "section", target |-> 1]}
=============================================================================
