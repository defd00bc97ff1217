-------------------------- MODULE MCExtractionQueue --------------------------
\* Small instances of ExtractionQueue for TLC.
EXTENDS ExtractionQueue, TLC

CONSTANTS h1, h2, q1, q2, s1, s2

Hooks1 == {h1}
Hooks2 == {h1, h2}
Replayers1 == {q1}
Replayers2 == {q1, q2}
Sessions1 == {s1}
Sessions2 == {s1, s2}
=============================================================================
