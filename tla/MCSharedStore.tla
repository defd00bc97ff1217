--------------------------- MODULE MCSharedStore ---------------------------
(* Two scripts at a time over a note, a dream and a fact. *)
EXTENDS SharedStore
CONSTANTS s1, s2, n1, d1, c1, m1, m2, h1, h2
Scripts == {s1, s2}
NoteIds == {n1}
DreamIds == {d1}
FactIds == {c1}
CommandIds == {m1, m2}
BadIds == {m2}
SessionIds == {h1, h2}
FailedIds == {h2}
\* What the two processes run: two archivers with the writer and the build, any
\* of them killed; the build and the promotion; the writers of projects.
ArchiveAndWrite ==
    [jobs |-> [p \in Scripts |-> IF p = s1 THEN {"archive", "write"} ELSE {"archive", "build"}],
     mortal |-> Scripts, arrives |-> {c1}]
BuildAndPromote ==
    [jobs |-> [p \in Scripts |-> IF p = s1 THEN {"build"} ELSE {"promote"}],
     mortal |-> {s2}, arrives |-> {d1}]
WriteAndServe ==
    [jobs |-> [p \in Scripts |-> IF p = s1 THEN {"command"} ELSE {"write"}],
     mortal |-> {s1}, arrives |-> {c1, m1, m2, h1, h2}]
AllSettings == {ArchiveAndWrite, BuildAndPromote, WriteAndServe}
Profiles == [id \in {n1, d1} \cup FactIds \cup CommandIds \cup SessionIds |->
    CASE id = n1 -> InboxProfile({"work"}, "codex", "app")
      [] id = d1 -> CanonicalProfile("user", "preference", "app")
      [] OTHER -> CanonicalProfile("project", "note", "app")]
Budgets == [t \in 1..5 |-> 1]
\* The start, and when the lock and what has no lifecycle have expired.
Moments == {0, 2 * Day}
Overlapping == {{n1, d1}}
=============================================================================
