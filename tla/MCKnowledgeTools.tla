-------------------------- MODULE MCKnowledgeTools --------------------------
(* Two ingesting processes, the command line and a reader over one triple. *)
EXTENDS KnowledgeTools
CONSTANTS b1, b2, c1, c2, r1
Ingesters == {b1, b2}
Clients == {c1, c2}
Readers == {r1}
\* Three writers, or two and a reader.
Settings == {[writers |-> {b1, b2, c1}, tools |-> {}], [writers |-> {b2, c1, c2}, tools |-> {}],
             [writers |-> {c1, c2}, tools |-> {"search_by_entity", "get_relationships"}],
             [writers |-> {b2, c2}, tools |-> {"get_kg_stats", "get_entity_info", "query_kg"}],
             [writers |-> {b1, b2}, tools |-> {"get_kg_stats", "get_entities"}]}
Entities == {"ann", "app"}
Order == <<"ann", "app">>
Texts == {"a"}
Relevances == [q \in Texts |-> [n \in Entities |-> IF n = "ann" THEN 1 ELSE 2]]
Uses == {<<"ann", "uses", "app">>}
Person(name, sure, type) == [name |-> name, sure |-> sure, type |-> type]
Ingested == [p \in Ingesters |->
    IF p = b1 THEN << [entities |-> <<Person("ann", TRUE, "person"), Person("app", FALSE, "uncertain")>>,
                       facts |-> <<[kind |-> "class", t |-> <<>>], [kind |-> "triple", t |-> <<"ann", "uses", "app">>]>>] >>
    ELSE << [entities |-> <<Person("ann", TRUE, "project")>>, facts |-> <<>>],
            [entities |-> <<>>, facts |-> <<[kind |-> "triple", t |-> <<"ann", "uses", "app">>]>>] >>]
JobLimits == (b1 :> 1) @@ (b2 :> 1) @@ (c1 :> 2) @@ (c2 :> 1)
Instants == {11, 12}
Days == {Null, 10}
\* An end ahead of the first instant, which the second has come to.
GivenEnds == {Null, 12}
=============================================================================
