------------------------- MODULE MCGeneratedLayers -------------------------
(* Rebuilds with the reports, and dreams with the rebuilds they wait for. *)
EXTENDS GeneratedLayers
CONSTANTS g1, g2, n1, i1, q1, k1, k2
Two == {g1, g2}
OnlyFirst == {g1}
NoteIds == {n1}
ImportIds == {i1}
ProjectIds == {q1}
TaskIds == {k1, k2}
All == {n1, i1, q1, k1, k2}
Scopes == [x \in All |-> CASE x \in {n1, i1} -> "feedback" [] x = q1 -> "project" [] OTHER -> "task"]
Targets == [x \in All |-> CASE x \in {n1, i1} -> "feedback" [] x \in {k1, k2} -> "project" [] OTHER -> ""]
\* The import is a newer version of the note, and two tasks read differently but
\* go to the same place.
PromotionKeys == [x \in All |-> CASE x \in {n1, i1} -> "a" [] x = q1 -> "c" [] OTHER -> "d"]
Texts == [x \in All |-> CASE x = n1 -> "a0" [] x = i1 -> "a1" [] x = q1 -> "c" [] x = k1 -> "d1" [] x = k2 -> "d2"]
Births == [x \in All |-> CASE x = n1 -> 1 [] x = i1 -> 2 [] x = k2 -> 3 [] x = q1 -> 4 [] x = k1 -> 5]
Jobs(first, second) == [p \in Two |-> IF p = g1 THEN first ELSE second]
Settings ==
    {[jobs |-> Jobs({"build"}, {"build"}), ids |-> {n1, q1}],
     [jobs |-> Jobs({"build"}, {"handoff"}), ids |-> {n1, k1}],
     [jobs |-> Jobs({"build"}, {"hygiene"}), ids |-> {i1, q1}],
     [jobs |-> Jobs({"dream"}, {"build"}), ids |-> {n1, i1}],
     [jobs |-> Jobs({"dream"}, {"dream"}), ids |-> {k1, k2}],
     [jobs |-> Jobs({"dream"}, {"build", "dream"}), ids |-> {k1}],
     [jobs |-> Jobs({"refresh", "refresh --force"}, {"dream"}), ids |-> {n1}]}
=============================================================================
