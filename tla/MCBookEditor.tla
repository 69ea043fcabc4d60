--------------------------- MODULE MCBookEditor ---------------------------
\* BookEditor with three chapters, the first of them under two spellings.
EXTENDS BookEditor

CONSTANTS one, oneAgain, two, three

MCPaths == {one, oneAgain, two, three}
MCKey == [path \in MCPaths |-> IF path = oneAgain THEN one ELSE path]
MCStart == <<one>>
MCForeignOrders == {<<two, one>>}
===========================================================================
