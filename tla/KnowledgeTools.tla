--------------------------- MODULE KnowledgeTools ---------------------------
(***************************************************************************)
(* The memory server's tools that read the knowledge graph while builds,   *)
(* backfills and the command line write it.  A call opens a connection of  *)
(* its own and puts its answer together from several SELECTs outside a     *)
(* transaction: each of them sees whatever has been committed by then.     *)
(*                                                                         *)
(* Of an answer the model keeps the numbers of get_kg_stats and which rows *)
(* it has called expired.  queryCurrentTriples has no caller that works.   *)
(***************************************************************************)
EXTENDS KnowledgeGraph, SequencesExt

CONSTANTS Reader,     \* calls of the server's tools
          Setting,    \* [writers, tools]: who is active in a behaviour
          Query,      \* texts to search for
          Relevance,  \* per query and name, 0 if it does not match
          Alphabet,   \* the names in order
          ScanLimit,  \* how many entities a search looks at
          TopLimit    \* how many matches are followed up

Tool == {"get_kg_stats", "get_entity_info", "search_by_entity", "query_kg",
         "get_entities", "get_relationships"}

ASSUME ToolsAssumption ==
    /\ Relevance \in [Query -> [Names -> 0..3]]
    /\ Alphabet \in Seq(Names) /\ ToSet(Alphabet) = Names /\ IsInjective(Alphabet)
    /\ ScanLimit \in Nat /\ TopLimit \in Nat
    /\ Setting \subseteq [writers : SUBSET Process, tools : SUBSET Tool]

VARIABLES
    setting,    \* who is active
    ask         \* the call of each reader

toolVars == <<setting, ask>>
allVars == <<vars, toolVars>>

\* todo: the SELECTs to come; ended: the rows called expired; the rest: what
\* get_kg_stats has counted, Unread before.
Unread == -1
NoCall == [todo |-> <<>>, ended |-> {}, entities |-> Unread, triples |-> Unread,
           current |-> Unread, byType |-> 0]

ToolInit ==
    /\ Init /\ setting \in Setting /\ ask = [r \in Reader |-> NoCall]

Mentions(n, direction) ==
    {row \in db.rows : \/ row.t[1] = n /\ direction # "incoming"
                       \/ row.t[3] = n /\ direction # "outgoing"}

----------------------------------------------------------------------------
\* The SELECTs of a call.

Read(op, on, way, asOf) == [op |-> op, on |-> on, way |-> way, asOf |-> asOf]

\* queryEntity: one SELECT for each direction.
Relations(n, direction, asOf) ==
    (IF direction # "incoming" THEN <<Read("relations", n, "outgoing", asOf)>> ELSE <<>>)
    \o (IF direction # "outgoing" THEN <<Read("relations", n, "incoming", asOf)>> ELSE <<>>)

KnownTypes == <<"person", "project", "concept", "tool", "org", "location", "unknown">>

\* Fault: the current facts are counted before all of them.
StatsCurrentFirst ==
    <<Read("entities", "", "", Null), Read("current", "", "", Null), Read("triples", "", "", Null)>>

\* stats.
Stats == <<Read("entities", "", "", Null), Read("triples", "", "", Null), Read("current", "", "", Null)>>

\* get_kg_stats asks for the entities of each known type after that.
GetKgStats == Stats \o [i \in DOMAIN KnownTypes |-> Read("type", KnownTypes[i], "", Null)]

\* get_entity_info, search_by_entity and query_kg begin with a look-up and go
\* on with what it finds; get_relationships does not ask whether the entity
\* exists; get_entities is a single SELECT.
GetEntityInfo(n, direction, asOf) == <<Read("entity", n, direction, asOf)>>
SearchByEntity(q, timeline) == <<Read("search", q, IF timeline THEN "timeline" ELSE "", Null)>>
QueryKg(q, type) == <<Read("search", q, type, Null)>>
GetEntities(type) == <<Read("type", type, "", Null)>>
GetRelationships(n, direction) == Relations(n, direction, Null)

Directions == {"outgoing", "incoming", "both"}
Calls ==
    [tool \in Tool |->
        CASE tool = "get_kg_stats" -> {GetKgStats}
          [] tool = "get_entity_info" ->
                {GetEntityInfo(n, d, c) : n \in Names, d \in Directions, c \in Clock \cup {Null}}
          [] tool = "search_by_entity" -> {SearchByEntity(q, timeline) : q \in Query, timeline \in BOOLEAN}
          [] tool = "query_kg" -> {QueryKg(q, type) : q \in Query, type \in ToSet(KnownTypes)}
          [] tool = "get_entities" -> {GetEntities(type) : type \in ToSet(KnownTypes)}
          [] OTHER -> {GetRelationships(n, d) : n \in Names, d \in Directions}]

\* searchEntities looks at the first entities by name and ranks those that
\* match, by relevance and then by name.
Matches(q) ==
    LET scanned == {i \in DOMAIN Alphabet :
                      /\ Alphabet[i] \in Present
                      /\ Cardinality({j \in 1..(i - 1) : Alphabet[j] \in Present}) < ScanLimit}
        found == {i \in scanned : Relevance[q][Alphabet[i]] > 0}
        Before(i, j) == \/ Relevance[q][Alphabet[i]] > Relevance[q][Alphabet[j]]
                        \/ Relevance[q][Alphabet[i]] = Relevance[q][Alphabet[j]] /\ i < j
    IN  [k \in 1..Cardinality(found) |->
            Alphabet[CHOOSE i \in found : Cardinality({j \in found : Before(j, i)}) = k - 1]]

\* What a search goes on with: the relations of the first matches (query_kg
\* keeps those of the type it is asked for, of the ones within its limit), and
\* the timeline of the very first.
FollowUp(q, way) ==
    LET all == Matches(q)
        first == [i \in 1..(IF TopLimit < Len(all) THEN TopLimit ELSE Len(all)) |-> all[i]]
        matched == IF way \in ToSet(KnownTypes) THEN Filter(first, LAMBDA n : db.types[n] = way) ELSE first
    IN  [i \in 1..(2 * Len(matched)) |-> Relations(matched[(i + 1) \div 2], "both", Null)[2 - (i % 2)]]
        \o (IF way = "timeline" /\ matched # <<>> THEN <<Read("timeline", matched[1], "both", Null)>> ELSE <<>>)

\* The rows a SELECT on facts returns: it joins the entity at the other end,
\* timeline (whose order and limit of 200 are left out) those at both.
Joined(s, row) ==
    /\ s.op = "timeline" \/ s.way = "outgoing" => row.t[3] \in Present
    /\ s.op = "timeline" \/ s.way = "incoming" => row.t[1] \in Present
Facts(s) ==
    {row \in Mentions(s.on, s.way) : Joined(s, row) /\ (s.asOf = Null \/ ValidAt(row, s.asOf))}
Ended(rows) == {<<row.t, row.id>> : row \in {x \in rows : x.to # Null}}

----------------------------------------------------------------------------
\* Steps.

Ask(r) ==
    /\ ask[r] = NoCall
    /\ \E tool \in setting.tools : \E todo \in Calls[tool] : ask' = [ask EXCEPT ![r].todo = todo]
    /\ UNCHANGED <<vars, setting>>

\* A look-up replaces itself by what it leads to, if anything.
LookUp(r) ==
    /\ ask[r].todo # <<>> /\ Head(ask[r].todo).op \in {"entity", "search"}
    /\ LET s == Head(ask[r].todo)
           next == IF s.op = "search" THEN FollowUp(s.on, s.way)
                   ELSE IF s.on \in Present THEN Relations(s.on, s.way, s.asOf) ELSE <<>>
       IN  ask' = [ask EXCEPT ![r].todo = next]
    /\ UNCHANGED <<vars, setting>>

ReadFacts(r) ==
    /\ ask[r].todo # <<>> /\ Head(ask[r].todo).op \in {"relations", "timeline"}
    /\ ask' = [ask EXCEPT ![r].todo = Tail(@),
                          ![r].ended = @ \cup Ended(Facts(Head(ask[r].todo)))]
    /\ UNCHANGED <<vars, setting>>

Count(r) ==
    /\ ask[r].todo # <<>> /\ Head(ask[r].todo).op \in {"entities", "triples", "current", "type"}
    /\ LET s == Head(ask[r].todo)
           a == [ask[r] EXCEPT !.todo = Tail(@)]
       IN  ask' = [ask EXCEPT ![r] =
             CASE s.op = "entities" -> [a EXCEPT !.entities = Cardinality(Present)]
               [] s.op = "triples" -> [a EXCEPT !.triples = Cardinality(db.rows)]
               [] s.op = "current" -> [a EXCEPT !.current = Cardinality({row \in db.rows : row.to = Null})]
               [] OTHER -> [a EXCEPT !.byType = @ + Cardinality({n \in Names : db.types[n] = s.on})]]
    /\ UNCHANGED <<vars, setting>>

\* The answer is given, or the connection cannot be opened or read.
Answer(r) ==
    /\ ask[r] # NoCall /\ ask' = [ask EXCEPT ![r] = NoCall]
    /\ UNCHANGED <<vars, setting>>

ToolNext ==
    \/ Next /\ UNCHANGED toolVars /\ \A p \in Process : proc'[p] # proc[p] => p \in setting.writers
    \/ \E r \in Reader : Ask(r) \/ LookUp(r) \/ ReadFacts(r) \/ Count(r) \/ Answer(r)

ToolSpec == ToolInit /\ [][ToolNext]_allVars

----------------------------------------------------------------------------
\* Properties.

\* However writers interleave with the counts of get_kg_stats, it shows no more
\* entities by type than there are, "other" included, and no more expired facts
\* than there are: the types are counted from the most specific to the vaguest
\* and only ever become more specific, all facts before the current ones.
StatsNeverOverstate ==
    \A r \in Reader :
        LET shown == Max({ask[r].byType, ask[r].entities})
            expired == ask[r].triples - ask[r].current
        IN  /\ shown <= Cardinality(Present)
            /\ ask[r].current # Unread /\ ask[r].triples # Unread =>
                  expired <= Cardinality({row \in db.rows : row.to # Null})

\* What an answer has called expired does not become current again while the
\* rest of the answer is read, so that no later part of it contradicts that.
AnswersMoveForward ==
    \A r \in Reader : \A row \in db.rows : <<row.t, row.id>> \in ask[r].ended => row.to # Null

\* upsertTriple inserts its row without the entities, unlike addTriple: nobody
\* finds what it has written about names that nothing else has mentioned.
UpsertedIsFound ==
    \A row \in db.rows : row.by = "upsert" => row.t[1] \in Present /\ row.t[3] \in Present

\* The number of expired facts is never negative, as a reader would take for
\* granted; it is when a fact is added between the two counts.
ExpiredIsANumber ==
    \A r \in Reader : ask[r].current # Unread => ask[r].triples >= ask[r].current
=============================================================================
