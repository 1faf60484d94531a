--------------------------- MODULE MCHybridSearch ---------------------------
EXTENDS HybridSearch

\* Two chunks of one standard, one in an edition of it, one of another standard.
A == [std |-> "9001", sep |-> " ", tail |-> ""]
AEdition == [A EXCEPT !.tail = ":2015"]
B == [std |-> "14001", sep |-> " ", tail |-> ""]

MCChunks == {"a1", "a2", "b1"}
MCEntities == {"e1", "e2"}
MCScopeOf == [a1 |-> A, a2 |-> AEdition, b1 |-> B]
MCScoreOf == [a1 |-> 8, a2 |-> 6, b1 |-> 3]
MCBoostOf == [a1 |-> 1, a2 |-> 1, b1 |-> 1]
MCWeightOf == [a1 |-> 1, a2 |-> 2, b1 |-> 1]
MCTextOf == [a1 |-> "x", a2 |-> "y", b1 |-> "z"]
MCSimilarity == [e1 |-> 5, e2 |-> 4]
MCProvenance == [e1 |-> {"a1", "b1"}, e2 |-> {}]
MCQueries == {
    [text |-> "both", standards |-> <<A, B>>, clauses |-> FALSE, near |-> FALSE],
    [text |-> "clause", standards |-> <<A>>, clauses |-> TRUE, near |-> TRUE]}
MCFilterSets == {
    [list |-> <<>>, single |-> NoLabel, clause |-> FALSE, bad |-> FALSE],
    [list |-> <<>>, single |-> NoLabel, clause |-> FALSE, bad |-> TRUE]}
=============================================================================
