--------------------------- MODULE MCMemoryBridge ---------------------------
(* Two tasks of which the block has room for one; OpenClaw only moves on. *)
EXTENDS MemoryBridge
CONSTANTS c1, c2
TaskIds == {1, 2}
Forward == {<<"none", "open">>, <<"open", "failed">>, <<"open", "submitted">>, <<"open", "aborted">>}
Callers == {c1, c2}
Texts == {[content |-> "a", title |-> title, project |-> project] : title \in {Unset, "t"}, project \in {Unset, "p"}}
\* The daemon with OpenClaw and one caller; two callers of claude-mem alone.
Halves == {[daemon |-> TRUE, tools |-> (c1 :> {"write_blackboard_task"} @@ c2 :> {})],
           [daemon |-> FALSE, tools |-> [c \in Callers |-> {"insert_claude_mem"}]]}
=============================================================================
