--------------------------- MODULE MCCascadeQueue ---------------------------
\* Small instances of CascadeQueue for TLC.
EXTENDS CascadeQueue, TLC

CONSTANTS w1, w2, p1, p2, k1, k2, x, y

Workers2 == {w1, w2}
\* One worker takes rows one by one, the other in batches of two.
Limits == [w \in Workers2 |-> IF w = w1 THEN 1 ELSE 2]
Producers1 == {p1}
Producers2 == {p1, p2}
Keys1 == {k1}
Changes2 == {x, y}
=============================================================================
