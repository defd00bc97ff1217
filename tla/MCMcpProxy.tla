----------------------------- MODULE MCMcpProxy -----------------------------
\* Small instances of McpProxy for TLC.
EXTENDS McpProxy, TLC

CONSTANTS c1, c2, c3, r1, r2

Children1 == {c1}
Children2 == {c1, c2}
Children3 == {c1, c2, c3}
Requests1 == {r1}
Requests2 == {r1, r2}

\* Children and calls are interchangeable; used for safety runs only.
Interchangeable == Permutations(Children3) \cup Permutations(Requests2)
=============================================================================
