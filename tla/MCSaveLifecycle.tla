-------------------------- MODULE MCSaveLifecycle --------------------------
\* SaveLifecycle with one text: drafts differ by their number alone.
EXTENDS SaveLifecycle

CONSTANTS a, m, s

MCStart == [content |-> a, metadata |-> m, settings |-> s]
============================================================================
