---------------------------- MODULE MemoryRecord ----------------------------
(***************************************************************************)
(* What the memory scripts compute from a record: the scope a text is      *)
(* classified into, the tier and the time to live it gets, whether the     *)
(* archiver or the tier budgets select it, how the promotion scorer rates  *)
(* it and how the promotion resolver settles conflicts.  Everything here   *)
(* is a pure function; module SharedStore calls them from its actions.     *)
(*                                                                         *)
(* A record is reduced to what these functions read:                       *)
(*   id, t              its id and its creation time in seconds            *)
(*   tier               lifecycle.tier, 0 when the line has no lifecycle   *)
(*   expires            lifecycle.expires_at, 0 for null                   *)
(*   promos             lifecycle.promotion_count, 2 for two or more       *)
(* and what never changes is a profile of its id: scope, type, kind        *)
(* (source_kind), level (memory_level), project and conf (confidence, in   *)
(* hundredths).  access_count is written by no script and stays 0, archived*)
(* stays false and last_access_at absent.                                  *)
(***************************************************************************)
EXTENDS Subsequence, SequencesExt

Day == 24 * 60 * 60

IdsOf(lines) == {lines[i].id : i \in DOMAIN lines}

\* A map filled line by line holds the last of those with an id.
LastOf(lines, id) ==
    lines[CHOOSE i \in DOMAIN lines :
            lines[i].id = id /\ \A j \in DOMAIN lines : lines[j].id = id => j <= i]

----------------------------------------------------------------------------
\* Classification and tiers (record-coercion.js).

\* cues are the groups of patterns the text matches, tried in this order.
ClassifyScope(cues, tool) ==
    CASE "preference" \in cues -> [scope |-> "user", type |-> "preference", conf |-> 70]
      [] "rule" \in cues /\ "preference" \notin cues ->
            [scope |-> "feedback", type |-> "workflow-rule", conf |-> 72]
      [] "work" \in cues /\ cues \cap {"preference", "rule"} = {} ->
            [scope |-> "project", type |-> "project-context", conf |-> 68]
      [] "place" \in cues /\ cues \cap {"preference", "rule", "work"} = {} ->
            [scope |-> "reference", type |-> "reference", conf |-> 66]
      [] tool = "openclaw" /\ cues = {"job"} ->
            [scope |-> "task", type |-> "task-note", conf |-> 60]
      [] OTHER -> [scope |-> "summary", type |-> "summary", conf |-> 45]

DurableScopes == {"user", "feedback", "project", "reference"}
NonPromotableTypes == {"summary", "session-summary", "daily-summary", "session-response",
                       "task-note", "task-run", "task-job", "task-journal"}

\* The profiles entry-parsers.js gives: a note in the inbox, an event of a hook,
\* a session summary, and a line of one of openclaw's task files.
InboxProfile(cues, tool, project) ==
    LET c == ClassifyScope(cues, tool)
    IN  [scope |-> c.scope, type |-> c.type, conf |-> c.conf, project |-> project,
         kind |-> "writeback", level |-> "durable"]
EventProfile(cues, tool, project) ==
    LET c == ClassifyScope(cues, tool)
    IN  [scope |-> c.scope, type |-> c.type, conf |-> c.conf, project |-> project,
         kind |-> "hook", level |-> "session"]
SessionProfile(daily, conf) ==
    [scope |-> "summary", type |-> IF daily THEN "daily-summary" ELSE "session-summary",
     conf |-> conf, project |-> IF daily THEN "workspace" ELSE "shared-session",
     kind |-> "session", level |-> "session"]
TaskProfile(source) ==
    [scope |-> IF source \in {"run", "journal"} THEN "run" ELSE "task", type |-> "summary",
     conf |-> 65, project |-> "", level |-> "task",
     kind |-> CASE source = "run" -> "run" [] source = "job" -> "cron" [] OTHER -> "blackboard"]

\* What canonical-memory-write.js makes of a fact; it takes an unknown scope for
\* an error, so that the level defaults to durable.
CanonicalProfile(scope, type, project) ==
    [scope |-> scope, type |-> type, conf |-> 90, project |-> project,
     kind |-> "writeback", level |-> "durable"]

\* getTargetJsonl: the file that enrichments of a record are patched into.
TargetFile(p) ==
    CASE p.scope = "session" \/ p.level = "session" -> "session"
      [] ~(p.scope = "session" \/ p.level = "session") /\
         (p.scope = "task" \/ p.level = "task" \/ p.type \in {"task-note", "task-job"}) -> "task"
      [] OTHER -> IF p.type = "event" \/ p.scope = "event" THEN "events" ELSE "shared"

\* buildPromotionMetadata's durable type, "" for none (the key is a hash).
DurableType(p) ==
    IF /\ p.scope \in DurableScopes
       /\ \/ p.kind = "writeback" \/ p.level = "durable"
          \/ p.type # "" /\ p.type \notin NonPromotableTypes /\ ~(p.conf > 0 /\ p.conf < 60)
    THEN p.scope ELSE ""

ComputeTier(p) ==
    CASE p.level = "event" \/ p.scope = "event" -> 1
      [] ~(p.level = "event" \/ p.scope = "event") /\ (p.kind = "writeback" \/ p.level = "durable") ->
            IF p.scope = "project" THEN 3 ELSE 4
      [] OTHER -> 2

\* buildRecord's days to live.  user has null in the table, and null ?? 7 is 7.
DaysToLive(scope) ==
    CASE scope = "feedback" -> 90 [] scope = "reference" -> 180 [] scope = "project" -> 30
      [] OTHER -> 7

BuildRecord(id, t, p) ==
    [id |-> id, t |-> t, tier |-> ComputeTier(p), expires |-> t + DaysToLive(p.scope) * Day,
     promos |-> 0]

\* What an append writes that knows nothing of lifecycles.
BareRecord(id, t) == [id |-> id, t |-> t, tier |-> 0, expires |-> 0, promos |-> 0]

\* A lifecycle is kept; a record without one gets a tier that never expires.
CoerceStructuredRecord(rec, p) ==
    IF rec.tier # 0 THEN rec ELSE [rec EXCEPT !.tier = ComputeTier(p)]

\* The 30 second window.  Ids stand for contents: equal hash, equal id.
RecentDuplicate(id, existing, now) ==
    \E i \in DOMAIN existing :
        /\ existing[i].id = id
        /\ \A j \in DOMAIN existing : existing[j].id = id => existing[j].t <= existing[i].t
        /\ now - existing[i].t < 30

----------------------------------------------------------------------------
\* Archival (memory-archival.js).

\* The archiver's test of one line.  Its table of times to live says null for
\* user, but null ?? 90 is 90, so that an expiry date counts for every scope.
ArchiveEligible(rec, now) ==
    LET age == now - rec.t
        passed == rec.expires > 0 /\ now > rec.expires
    IN  \/ rec.tier \in {0, 1} /\ age > Day
        \/ rec.tier = 2 /\ age > 30 * Day /\ rec.promos < 2
        \/ rec.tier = 3 /\ passed
        \/ rec.tier = 4 /\ (passed \/ age > 60 * Day)

EligibleIds(lines, now) == {lines[i].id : i \in {j \in DOMAIN lines : ArchiveEligible(lines[j], now)}}

\* records[id]: the last line with that id, at the place of the first.
LastWins(lines) ==
    LET firsts == Subsequence(lines, {i \in DOMAIN lines : \A j \in 1..(i - 1) : lines[j].id # lines[i].id})
    IN  [k \in DOMAIN firsts |-> LastOf(lines, firsts[k].id)]

BudgetTier(rec) == IF rec.tier = 0 THEN 1 ELSE rec.tier

\* The group a budget counts a line in: tier 3 by project, tier 4 by type.
BudgetGroup(rec, Profile) ==
    <<BudgetTier(rec), IF rec.tier = 3 THEN Profile[rec.id].project
                       ELSE IF rec.tier = 4 THEN Profile[rec.id].type ELSE "">>

\* The ids the budgets evict: of each group as many as it is over, in file
\* order (freshness_score is never set).  The counts include lines without a
\* lifecycle and second copies, the candidates do not.  Groups of tiers 3 and 4
\* are looked at only when the tier as a whole is over.
OverBudget(lines, Profile, Limit) ==
    LET recs == LastWins(lines)
        counted(g) == Cardinality({i \in DOMAIN lines : BudgetGroup(lines[i], Profile) = g})
        inTier(n) == Cardinality({i \in DOMAIN lines : BudgetTier(lines[i]) = n})
        evicted(g) ==
            LET cand == Filter(recs, LAMBDA r : r.tier # 0 /\ BudgetGroup(r, Profile) = g)
                excess == counted(g) - Limit[g[1]]
            IN  IF excess > 0 /\ inTier(g[1]) > Limit[g[1]]
                THEN {cand[i].id : i \in {j \in DOMAIN cand : j <= excess}} ELSE {}
    IN  UNION {evicted(g) : g \in {BudgetGroup(lines[i], Profile) : i \in DOMAIN lines}}

\* archiveRecordsFromFile: each selected id is taken out once, so that a second
\* copy of it stays.
Kept(lines, ids) ==
    Subsequence(lines, {i \in DOMAIN lines :
                          lines[i].id \notin ids \/ \E j \in 1..(i - 1) : lines[j].id = lines[i].id})

----------------------------------------------------------------------------
\* Promotion (memory-promotion-scorer-core.mjs and -resolver-core.mjs), scores
\* in units of 1/10000.

\* 2^(-age / 30 days), in steps of a half-life; an age below zero counts as none.
HalfLives == <<10000, 5000, 2500, 1250, 625, 312, 156, 78, 39, 19, 9, 4, 2, 1>>
ScoreRecency(age) ==
    LET past == IF age < 0 THEN 0 ELSE age \div (30 * Day)
    IN  IF past < 14 THEN HalfLives[past + 1] ELSE 0

ScoreSourceQuality(p) ==
    CASE p.kind = "writeback" -> 10000 [] p.kind = "session" -> 9000
      [] p.kind \in {"hook", "task"} -> 7000 [] p.kind = "blackboard" -> 6000
      [] p.kind = "heuristic" -> 4000 [] OTHER -> 5000

PromotionTier(rec) == IF rec.tier = 0 THEN 2 ELSE rec.tier

\* scorePromotionCandidate: cross-session hits are 0, as nothing counts them.
ScoreCandidate(rec, p, now) ==
    LET score == (30 * ScoreRecency(now - rec.t) + 35 * 100 * p.conf + 10 * ScoreSourceQuality(p)) \div 100
        from == PromotionTier(rec)
    IN  [id |-> rec.id, score |-> score, from |-> from,
         to |-> IF from + 1 > 4 THEN 4 ELSE from + 1, scored |-> now,
         review |-> score >= 4000 /\ score < 6500]

\* scoreAllCandidates and detectConflicts: tiers 2 and 3, best first; alike
\* has the pairs of ids whose fingerprints overlap by 70 percent.
PromotionQueue(lines, Profile, now, alike) ==
    LET cands == Filter(lines, LAMBDA r : PromotionTier(r) \in 2..3)
        scored == [i \in DOMAIN cands |-> ScoreCandidate(cands[i], Profile[cands[i].id], now)]
        ids == IdsOf(cands)
        better == {ij \in (DOMAIN scored) \X (DOMAIN scored) :
                     \/ scored[ij[1]].score > scored[ij[2]].score
                     \/ scored[ij[1]].score = scored[ij[2]].score /\ ij[1] < ij[2]}
        with(e) == [id |-> e.id, score |-> e.score, from |-> e.from, to |-> e.to, scored |-> e.scored,
                    review |-> e.review, conflicts |-> {o \in ids \ {e.id} : {e.id, o} \in alike}]
        sorted == Sorted(scored, better)
    IN  [i \in DOMAIN sorted |-> with(sorted[i])]

\* The component of id in the conflict graph: what every closed set that holds
\* id has in common.
Component(queue, id) ==
    LET nodes == IdsOf(queue) \cup UNION {queue[i].conflicts : i \in DOMAIN queue}
        edge(x, y) == \E i \in DOMAIN queue : \/ queue[i].id = x /\ y \in queue[i].conflicts
                                              \/ queue[i].id = y /\ x \in queue[i].conflicts
        closed(S) == \A x \in S, y \in nodes : edge(x, y) => y \in S
    IN  {y \in nodes : \A S \in SUBSET nodes : id \in S /\ closed(S) => y \in S}

\* getLastAccess: the time of the id's last line in the store, else of scoring.
LastAccess(entry, lines) ==
    IF entry.id \in IdsOf(lines) THEN LastOf(lines, entry.id).t ELSE entry.scored

\* compareEntries: higher score, then later access, then queue order.
Before(queue, lines, i, j) ==
    LET a == queue[i] b == queue[j]
    IN  \/ a.score > b.score
        \/ a.score = b.score /\ LastAccess(a, lines) > LastAccess(b, lines)
        \/ a.score = b.score /\ LastAccess(a, lines) = LastAccess(b, lines) /\ i <= j

TieThreshold == 1000

\* Fault: rivals close behind the winner are promoted as well.
ResolveTies(queue, lines) ==
    LET rivals(i) == {j \in DOMAIN queue : queue[j].id \in Component(queue, queue[i].id)}
        best(i) == CHOOSE j \in rivals(i) : \A k \in rivals(i) : Before(queue, lines, j, k)
        close(i) == queue[best(i)].score - queue[i].score <= TieThreshold
    IN  [resolved |-> {i \in DOMAIN queue : close(i)}, review |-> {},
         dropped |-> {i \in DOMAIN queue : ~close(i)}]

\* resolveConflicts: positions of the queue.  An entry alone in its component
\* is promoted whatever its score; of the others the first wins, those close
\* behind it go to a human and the rest are dropped.
ResolveConflicts(queue, lines) ==
    LET alone(i) == Component(queue, queue[i].id) = {queue[i].id}
        rivals(i) == {j \in DOMAIN queue : queue[j].id \in Component(queue, queue[i].id)}
        winner(i) == CHOOSE j \in rivals(i) : \A k \in rivals(i) : Before(queue, lines, j, k)
        lost(i) == ~alone(i) /\ winner(i) # i
        close(i) == queue[winner(i)].score - queue[i].score <= TieThreshold
    IN  [resolved |-> {i \in DOMAIN queue : ~lost(i)},
         review |-> {i \in DOMAIN queue : lost(i) /\ close(i)},
         dropped |-> {i \in DOMAIN queue : lost(i) /\ ~close(i)}]

\* The tier applyResolvedPromotions writes for an id: that of the first of its
\* resolved entries in compareEntries' order, 0 when it has none.
ResolvedTier(queue, lines, id) ==
    LET mine == {i \in ResolveConflicts(queue, lines).resolved : queue[i].id = id}
    IN  IF mine = {} THEN 0
        ELSE queue[CHOOSE i \in mine : \A j \in mine : Before(queue, lines, i, j)].to

\* The record it writes.
Promote(rec, tier) ==
    [rec EXCEPT !.tier = tier, !.promos = IF rec.promos >= 1 THEN 2 ELSE 1]
=============================================================================
