---------------------------- MODULE MCMemoryTools ----------------------------
\* Small instances of MemoryTools, and of the SearchWorker in it, for TLC.
EXTENDS MemoryTools

CONSTANTS c1, c2, c3, r1, r2, r3

Children3 == {c1, c2, c3}
Children2 == {c1, c2}
Requests2 == {r1, r2}
Requests3 == {r1, r2, r3}

Shown == {"search", "records", "refine", "rebuild"}
Ids == <<"a", "b", "c">>
SomeReplies == {<<>>, <<"x">>, <<"x", "b">>, <<"a", "a">>}
=============================================================================
