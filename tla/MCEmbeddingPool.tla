--------------------------- MODULE MCEmbeddingPool ---------------------------
\* Small instances of EmbeddingPool for TLC.
EXTENDS EmbeddingPool, TLC

CONSTANTS w1, w2, w3, w4, r1, r2, r3, r4

Workers2 == {w1, w2}
Workers3 == {w1, w2, w3}
Workers4 == {w1, w2, w3, w4}
Requests2 == {r1, r2}
Requests3 == {r1, r2, r3}
Requests4 == {r1, r2, r3, r4}

\* Workers and requests are interchangeable; used for safety runs only.
Interchangeable == Permutations(Workers4) \cup Permutations(Requests3)
=============================================================================
