------------------------ MODULE MCEditorProjections ------------------------
\* Small documents for EditorProjections: a heading, a reference to it, code and a table.
EXTENDS EditorProjections

CONSTANTS a, b, c, word, space

Plain(text) == [text |-> text, link |-> None, bold |-> FALSE]
Link(text, id) == [text |-> text, link |-> id, bold |-> FALSE]

MCHeading(id, level, text) ==
    [type |-> "heading", id |-> id, level |-> level, numbered |-> TRUE, runs |-> <<Plain(text)>>]
MCBlock(type, id, runs) ==
    [type |-> type, id |-> id, level |-> 1, numbered |-> TRUE, runs |-> runs]

Title == MCHeading(a, 1, <<word>>)
MCStarts ==
    {<<Title, MCBlock("paragraph", None, <<Link(<<<<"section", <<1>>>>, word>>, a)>>),
              MCBlock("paragraph", None, <<Plain(<<word, space>>)>>)>>,
     <<Title, MCBlock("code", None, <<Plain(<<word>>)>>),
              MCBlock("paragraph", None, <<Plain(<<space>>)>>)>>}

MCInserted == {MCHeading(a, 2, <<space>>), MCBlock("table", None, <<>>)}

MCReplacements ==
    {<<MCBlock("paragraph", None, <<Plain(<<space>>)>>)>>,
     <<MCBlock("paragraph", None, <<Link(<<word>>, a)>>), MCHeading(a, 2, <<word, space>>)>>}

Hierarchical == [headings |-> TRUE, hierarchical |-> TRUE]
Unnumbered == [headings |-> FALSE, hierarchical |-> FALSE]
MCPolicies == {Hierarchical, Unnumbered}
=============================================================================
