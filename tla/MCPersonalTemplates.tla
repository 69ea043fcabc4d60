------------------------ MODULE MCPersonalTemplates ------------------------
\* PersonalTemplates with one template at first and room for one more.
EXTENDS PersonalTemplates

CONSTANTS t1, t2, t3

MCStart == {t1}
============================================================================
