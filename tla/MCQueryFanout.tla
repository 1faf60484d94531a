--------------------------- MODULE MCQueryFanout ---------------------------
EXTENDS QueryFanout

A == [std |-> "9001", sep |-> " ", tail |-> ""]
B == [std |-> "14001", sep |-> " ", tail |-> ""]
NoFilters == [list |-> <<>>, single |-> NoLabel, clause |-> FALSE, bad |-> FALSE]
Plain == [text |-> "plain", standards |-> <<>>, clauses |-> FALSE, near |-> FALSE]
Clauses == [Plain EXCEPT !.text = "clauses", !.clauses = TRUE]
OfA == [Plain EXCEPT !.text = "of A", !.standards = <<A>>]

Row(id, scope, score, text) ==
    [id |-> id, scope |-> scope, score |-> score, boost |-> 1, weight |-> 1,
     text |-> text, penalized |-> FALSE, space |-> "similarity", owned |-> TRUE, via |-> {}]
R1 == Row("r1", A, 8, "x")
R2 == Row("r2", B, 6, "y")
R3 == Row("r3", A, 2, "x")
R4 == Row("r4", NoLabel, 4, "w")
Ownerless == [R2 EXCEPT !.id = "r5", !.owned = FALSE]

\* Sub-queries q1 and q3 have the same key.
Sub(name, q) == [name |-> name, query |-> q, filters |-> NoFilters]
Subs == <<Sub("q1", OfA), Sub("q2", Plain), Sub("q3", OfA)>>
Request(kind, subs, query, k) ==
    [kind |-> kind, subs |-> subs, query |-> query, k |-> k, strict |-> FALSE,
     filters |-> [NoFilters EXCEPT !.single = IF kind = "sequential" THEN A ELSE NoLabel]]
MCRequests == {
    Request("multi", Subs, Plain, 3),
    Request("multi", SubSeq(Subs, 1, 2), Plain, 2),
    Request("parallel", SubSeq(Subs, 1, 2), Plain, 2),
    Request("sequential", SubSeq(Subs, 1, 2), Plain, 2),
    Request("comprehensive", <<>>, Plain, 3),
    Request("router", <<>>, OfA, 2), Request("router", <<>>, Clauses, 2),
    Request("router", <<>>, Plain, 2),
    [Request("router", <<>>, OfA, 2) EXCEPT !.strict = TRUE],
    Request("vector", <<>>, OfA, 2), Request("vector", <<>>, Clauses, 2),
    Request("paged", <<>>, Plain, 2)}

Some == {<<>>, <<R1, R2>>, <<R2, R1, R3>>, <<R2, R2>>, <<R2>>}
MCAnswers == [
    q1 |-> Some, q2 |-> Some \union {<<Ownerless, R1>>}, main |-> {<<>>, <<R1, R2>>, <<R3>>},
    chunks |-> {<<>>, <<R1, R2, R3>>, <<R1, R1>>}, graph |-> {<<>>, <<R4, R1>>},
    raptor |-> {<<>>, <<Row("s1", NoLabel, 0, "s")>>},
    vector |-> {<<>>, <<R1, R3, R2>>, <<R2>>, <<R1, Ownerless>>}, again |-> {<<>>, <<R1>>},
    summaries |-> {<<>>, <<R3>>},
    page |-> {<<>>, <<R1, R2>>, <<R1, R1>>, <<R1, R3>>}]

\* Two related entities, of which the query names the second, and a far community.
E1 == [id |-> "e1", name |-> "n1", sim |-> 8, embedded |-> TRUE]
E2 == [id |-> "e2", name |-> "n2", sim |-> 2, embedded |-> FALSE]
Far == [id |-> "c1", members |-> {"e1"}, sim |-> 1, embedded |-> TRUE]
Near == [Far EXCEPT !.id = "c2", !.sim = 4]
World(entities, communities, down) ==
    [entities |-> entities, communities |-> communities, down |-> down,
     relations |-> IF Len(entities) = 2 THEN {<<"e1", "e2">>} ELSE {},
     names |-> <<"n2">>, phrases |-> <<"n1">>, mute |-> {}]
MCWorlds ==
    {World(e, <<>>, d) : e \in {<<>>, <<E2>>, <<E1, E2>>},
        d \in {{}, {"nav", "legacy"}, {"vector", "exact"},
               {"vector", "exact", "near"}, {"vector", "exact", "near", "vectors again"},
               {"model", "vector", "relations"}}}
    \union {World(<<>>, c, d) : c \in {<<Far>>, <<Far, Near>>}, d \in {{}, {"matched"}, {"level"}}}
    \union {[World(<<E1, E2>>, <<Far>>, {"exact"}) EXCEPT !.mute = m, !.names = <<>>] :
                m \in {{"vector"}, {"vector", "vectors"}}}

MCSummaries == {"s1", "s2"}
MCChildren == [s1 |-> {"s2", "r3"}, s2 |-> {"r1", "s1"}]
MCLeafRow == [r1 |-> R1, r3 |-> R3]
MCQuotas == [chunks |-> 1, graph |-> 1, raptor |-> 1]
=============================================================================
