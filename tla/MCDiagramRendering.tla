----------------------- MODULE MCDiagramRendering -----------------------
\* DiagramRendering with the diagrams an export renders.
EXTENDS DiagramRendering, TLC

CONSTANTS a, b

MCSources == {a, b}
MCScript == <<a>>
Symmetry == Permutations(Previews) \cup Permutations(Endpoints)
=============================================================================
