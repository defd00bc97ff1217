----------------------------- MODULE MCDailyLog -----------------------------
(* Two builds with overlapping batches. *)
EXTENDS DailyLog
CONSTANTS b1, b2, i1, i2, f1, f2
Builds == {b1, b2}
LoggedIds == {i1, i2}
FactSet == {f1, f2}
Batches == [p \in Builds |-> IF p = b1 THEN {i1, i2} ELSE {i2}]
Extracted == [p \in Builds |-> IF p = b1 THEN {f1} ELSE {f2}]
=============================================================================
