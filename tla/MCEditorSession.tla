-------------------------- MODULE MCEditorSession --------------------------
\* EditorSession with the texts the model checker explores: documents that
\* differ in their content or in content and metadata, and the broken source.
EXTENDS EditorSession

CONSTANTS a, b, c, m, n, s, broken

Text(content) == [content |-> content, metadata |-> m, settings |-> s]

MCStart == Text(a)
ValidTexts == {Text(a), Text(b)}
AnyTexts == ValidTexts \cup {broken}
OtherTexts == {Text(b), Text(c)}
NewTexts == {Text(b), [Text(c) EXCEPT !.metadata = n]}
RepairTexts == {[Text(b) EXCEPT !.metadata = n], broken}
============================================================================
