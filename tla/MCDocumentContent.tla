------------------------- MODULE MCDocumentContent -------------------------
EXTENDS DocumentContent

Wide(id, len) ==
    [id |-> id, norm |-> "", len |-> len, level |-> 0, kind |-> "wide", hint |-> "none"]
Heading(id, len, level) == [Wide(id, len) EXCEPT !.level = level, !.kind = "narrow"]
Clause(id, level) == [Wide(id, 2) EXCEPT !.level = level, !.kind = "clause"]
Kind(b, kind) == [b EXCEPT !.kind = kind]
Hint(b, hint) == [b EXCEPT !.hint = hint]
Norm(b, norm) == [b EXCEPT !.norm = norm]

Page(n, blocks) == [n |-> n, blocks |-> blocks, score |-> 0, region |-> FALSE]
Image(n, blocks, score, region) == [Page(n, blocks) EXCEPT !.score = score, !.region = region]
Outline == <<[title |-> "o1", level |-> 1, page |-> 1, hint |-> "none"],
             [title |-> "o2", level |-> 2, page |-> 2, hint |-> "none"],
             [title |-> "o3", level |-> 1, page |-> 2, hint |-> "toc"]>>
Document(strategy, pages, outline) ==
    [strategy |-> strategy, pages |-> pages, outline |-> outline]

Foot(n) == Norm(Wide(n, 3), "foot")
\* Headings of three levels on three pages, a short section before a long one and before
\* the end, a long section; nothing to clean.
Plain == <<Page(1, <<Wide("a", 3), Heading("b", 1, 2), Heading("c", 1, 3), Wide("d", 5)>>),
           Page(2, <<Wide("e", 8), Wide("f", 4)>>),
           Page(3, <<Heading("g", 1, 1), Wide("h", 7), Heading("i", 1, 2)>>)>>
\* Front matter, a contents list, boilerplate, running feet, a translation mark, and pages
\* read as images: one of three fits the budget, one is an image in any case.
Standard ==
    <<Page(1, <<Hint(Wide("a", 6), "front"), Kind(Wide("b", 3), "noise"), Foot("f1")>>),
      Page(2, <<Hint(Clause("c", 0), "toc"), Clause("d", 2), Wide("e", 6), Foot("f2")>>),
      Image(3, <<Wide("v", 4)>>, 3, TRUE), Image(4, <<Wide("w", 4)>>, 8, FALSE),
      Image(5, <<Kind(Wide("s", 3), "stamp"), Clause("g", 2), Wide("h", 6), Foot("f3")>>, 3, TRUE)>>
\* The first line is a contents keyword.
Keyword == <<Page(1, <<Hint(Wide("a", 3), "toc"), Heading("b", 1, 2), Wide("c", 5)>>),
             Page(2, <<Heading("d", 2, 2), Wide("e", 5)>>)>>
\* No heading, a paragraph over the limit.
Flat == <<Page(1, <<Wide("a", 5), Wide("b", 15)>>), Page(2, <<Wide("c", 3), Wide("d", 4)>>)>>
\* Short lines only: all of it looks like a contents list.
Narrow == <<Page(1, <<Clause("a", 2), Clause("b", 2), Kind(Wide("c", 4), "narrow"), Clause("d", 3)>>)>>

MCDocuments ==
    {Document("CONTENT", p, o) : p \in {Plain, Standard, Keyword, Flat, Narrow}, o \in {<<>>, Outline}}
    \union {Document("FAST_CONTENT", p, Outline) : p \in {Plain, Standard, Flat}}
    \union {Document("PRE_PROCESSED", Flat, <<>>)}
MCSetups == [skip : BOOLEAN, parser : {"local", "cloud"}, provider : {"cohere", "jina"}]
=============================================================================
