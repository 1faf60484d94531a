-------------------------- MODULE MCKnowledgeGraph --------------------------
EXTENDS KnowledgeGraph

Entry(ref, level) == [ref |-> ref, level |-> level]
Doc(chunks, vectors, outline) == [chunks |-> chunks, vectors |-> vectors, outline |-> outline]
Deep == <<Entry("a", 0), Entry("b", 1), Entry("c", 1), Entry("d", 2)>>
Shared == <<Entry("b", 1), Entry("a", 0), Entry("e", 2)>>
\* Two trees; two contents lists with entries of one name; both for one document. A tree is
\* not begun for a short document or without vectors.
MCContents == {
    [d1 |-> Doc(4, 4, <<>>), d2 |-> Doc(4, 4, <<>>)],
    [d1 |-> Doc(2, 2, Deep), d2 |-> Doc(4, 0, Shared)],
    [d1 |-> Doc(4, 4, Shared), d2 |-> Doc(3, 1, Deep)]}

\* A mixture of n - 1 components at most, but two at least if n > 2; a node may belong to two
\* of them, and of four nodes one may be left out.
MCClusters(n) ==
    CASE n = 2 -> {<<{1, 2}>>}
      [] n = 3 -> {<<{1, 2}, {2, 3}>>}
      [] n = 4 -> {<<{1, 2}, {3}, {4}>>, <<{1, 2}, {2, 3}>>}
MCAnswers(n) ==
    CASE n = 2 -> {<<"t", "u">>, <<"t", "t">>, <<"failed", "v">>}
      [] n = 3 -> {<<"t", "u", "v">>, <<"x", "y", "z">>, <<"t", "t", "u">>,
                   <<"failed", "t", "u">>, <<"failed", "failed", "failed">>}
=============================================================================
