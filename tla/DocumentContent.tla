--------------------------- MODULE DocumentContent ---------------------------
(***************************************************************************)
(* What one document's ingestion writes: the strategy reads the file,      *)
(* splits it and asks for vectors, the processor stores the rows in        *)
(* batches, and a failure or a crash anywhere sends the whole document     *)
(* back to the queue. The pure steps are those of Chunking; the steps here *)
(* are the awaits of DocumentProcessor.process and of the strategies.      *)
(***************************************************************************)
EXTENDS Chunking

CONSTANTS
    Documents,   \* what may be uploaded: strategy, pages and outline
    Setups,      \* how the service is configured: skip, parser, provider
    MaxAttempts, \* bound: attempts at one document
    EmbedBatch,  \* texts in one request to a provider
    SaveBatch,   \* CONTENT_CHUNKS_INSERT_BATCH_SIZE
    LabelChars   \* the length of the [UBICACIÓN: ...] label

\* A block is what stands between two blank lines of a page: it is not empty, and it is
\* known by where it stands.
Identified(pages) ==
    \A i, j \in DOMAIN pages :
        \A k \in DOMAIN pages[i].blocks, l \in DOMAIN pages[j].blocks :
            pages[i].blocks[k].id = pages[j].blocks[l].id => i = j /\ k = l
Numbered(pages) == \A i, j \in DOMAIN pages : i < j => pages[i].n < pages[j].n

ASSUME ContentAssumption ==
    /\ {MaxChars, SliceChars, MinClauses, EmbedBatch, SaveBatch} \subseteq Nat \ {0}
    /\ ScanBlocks \in Nat
    /\ \A d \in Documents :
         /\ d.pages \in Seq([n : Int, score : Int, region : BOOLEAN, blocks :
               Seq([id : STRING, norm : STRING, len : Nat \ {0}, level : Int, kind : STRING,
                    hint : STRING])])
         /\ Identified(d.pages) /\ Numbered(d.pages)

VARIABLES
    doc, setup,  \* the document and the configuration of this behaviour
    attempt,     \* attempts made so far
    phase,       \* queued, reading, encoding, embedding, saving, processed, failed
    text,        \* text and map: full_text and page_map
    chunks,      \* the chunks of this attempt
    vectors,     \* the vectors asked for, one for each text embedded
    todo,        \* rows not stored yet
    rows         \* content_chunks of the document, in the order of insertion
contentVars == <<doc, setup, attempt, phase, text, chunks, vectors, todo, rows>>

NoText == [text |-> <<>>, map |-> <<>>]
NoVector == [of |-> 0, by |-> "none"]

ContentInit ==
    /\ doc \in Documents /\ setup \in Setups
    /\ attempt = 1 /\ phase = "queued"
    /\ text = NoText /\ chunks = <<>> /\ vectors = <<>> /\ todo = <<>> /\ rows = <<>>

Fail == phase' = "failed" /\ UNCHANGED <<doc, setup, attempt, text, chunks, vectors, todo>>

-----------------------------------------------------------------------------
\* DocumentProcessor.process deletes what an earlier attempt stored before it reads the
\* file; the delete goes by batches, each of which may fail.
\* Mutant: the rows of an earlier attempt stay.
RowsKept == rows
RowsLeft == <<>>

Cleanup ==
    /\ phase = "queued"
    /\ \/ phase' = "reading" /\ rows' = RowsLeft
          /\ UNCHANGED <<doc, setup, attempt, text, chunks, vectors, todo>>
       \/ Fail /\ \E n \in 0 .. Len(rows) : rows' = SubSeq(rows, n + 1, Len(rows))

\* What the parser makes of the file: the cloud reader's single page when it is configured
\* and answers, else the markdown of the pages, their plain text when that fails, and
\* nothing when the file cannot be opened.
Extractions ==
    LET all == FlattenSeq([i \in DOMAIN doc.pages |-> doc.pages[i].blocks])
    IN {MarkdownText(doc.pages), PlainText(doc.pages), NoText}
       \union (IF setup.parser = "cloud" THEN {OnePage(all)} ELSE {})

\* CONTENT routes the pages, unless the parser is a cloud one and finds text.
ContentReadings ==
    IF setup.parser = "local" THEN {RoutedText(doc.pages)}
    ELSE {IF e.text = <<>> THEN RoutedText(doc.pages) ELSE e : e \in Extractions}

\* A text that leaves nothing to embed ends the run: the document is empty.
Opened(t, cs, next) ==
    IF t.text = <<>> \/ cs = <<>> THEN Fail /\ UNCHANGED rows
    ELSE /\ text' = t /\ chunks' = cs /\ phase' = next
         /\ UNCHANGED <<doc, setup, attempt, vectors, todo, rows>>

\* Late chunking, which only a CONTENT document gets and only if structural chunks are
\* embedded too, sends the cleaned text instead of the sections.
ReadContent ==
    /\ phase = "reading" /\ doc.strategy = "CONTENT"
    /\ \E t \in ContentReadings :
          Opened(t, SemanticSplit(Clean(t.text)), IF setup.skip THEN "embedding" ELSE "encoding")

\* FAST_CONTENT takes what the parser finds, uncleaned.
ReadFast ==
    /\ phase = "reading" /\ doc.strategy = "FAST_CONTENT"
    /\ \E t \in Extractions : Opened(t, Slices(t.text), "embedding")

\* PRE_PROCESSED uses the embedding engine before it creates it, so it raises on every file
\* it can read.
ReadPreProcessed ==
    /\ phase = "reading" /\ doc.strategy = "PRE_PROCESSED"
    /\ Fail /\ UNCHANGED rows

-----------------------------------------------------------------------------
\* A provider may answer without one of the vectors (bound: of one text, at cut; of none
\* when cut is 0). The answer is a list, so the vectors after it move up. Cohere pads each
\* request with zero vectors; Jina puts all the answers one after the other and pads the end.
Cuts(texts) == {0} \union DOMAIN texts
RequestEnd(texts, i) == Min({Len(texts), ((i + EmbedBatch - 1) \div EmbedBatch) * EmbedBatch})
MovedUp(texts, cut, last) ==
    [i \in DOMAIN texts |-> IF cut = 0 \/ i < cut \/ last < i THEN texts[i]
                            ELSE IF i < last THEN texts[i + 1] ELSE 0]

JinaVectors(texts, cut) == MovedUp(texts, cut, Len(texts))
\* Mutant: Cohere pads the end of the answers, as Jina does.
CohereVectorsAtEnd(texts, cut) == JinaVectors(texts, cut)
CohereVectors(texts, cut) == MovedUp(texts, cut, RequestEnd(texts, cut))

By(of, provider) == [i \in DOMAIN of |-> [of |-> of[i], by |-> provider]]
Encoded(texts, provider, cut) ==
    By(IF provider = "cohere" THEN CohereVectors(texts, cut) ELSE JinaVectors(texts, cut), provider)

\* embed_texts and chunk_and_encode: a technical error of Cohere is retried once with Jina,
\* for all the texts.
Providers == IF setup.provider = "cohere" THEN {"cohere", "jina"} ELSE {"jina"}
Outcomes(texts) == {Encoded(texts, p, cut) : p \in Providers, cut \in Cuts(texts)}

\* chunk_and_encode for windows of the text. Cohere embeds them like other texts. Jina is sent
\* them all at once and sorts the answer by index: what is missing is a zero vector in its
\* place. When that fails it is sent them by batches, where a batch that fails is zero vectors
\* in place too; but the vectors after a missing one move up, and the windows left over have
\* none: zip drops them. LateVectors has a vector for each window that is kept.
Zeroed(n, gone) == [i \in 1 .. n |-> IF i \in gone THEN 0 ELSE i]
LateVectors(n) ==
    LET texts == [i \in 1 .. n |-> i] IN
    {By(Zeroed(n, gone), "jina") : gone \in SUBSET (1 .. n)}
    \union {By(SubSeq(JinaVectors(texts, cut), 1, n - 1), "jina") : cut \in 1 .. n}
    \union (IF "cohere" \in Providers THEN {Encoded(texts, "cohere", cut) : cut \in Cuts(texts)} ELSE {})

-----------------------------------------------------------------------------
\* The texts that are embedded: all of them, or those whose own words are not structural.
Chars(c, content) == Min({Span(content), c.end - c.start})
OwnRole(c) == Role(Hints(c.blocks), Chars(c, c.blocks))
Embedded(cs) ==
    Picked([i \in DOMAIN cs |-> i],
           {i \in DOMAIN cs : setup.skip => Searchable(OwnRole(cs[i]))})

\* assemble_chunk. A contextual chunk starts with the first line of the document and its
\* heading path, any chunk with the breadcrumbs of its page, and the role is judged on
\* all that.
Assembled(cs, n, vec, late) ==
    LET c == cs[n]
        wrapped == doc.strategy = "CONTENT" /\ ~late
        page == PageNumber(c.start, text.map)
        crumbs == Breadcrumbs(TocEntries(doc.outline), page)
        content == StripBoilerplate(c.blocks)
        context == IF wrapped THEN {cs[1].blocks[1].hint} \union Hints(c.path) ELSE {}
        length == Chars(c, content) + (IF wrapped THEN ContextChars ELSE 0)
                      + (IF crumbs = <<>> THEN 0 ELSE LabelChars)
    IN [n |-> n, attempt |-> attempt, page |-> page, vec |-> vec,
        role |-> Role(Hints(content) \union context \union Hints(crumbs), length)]

\* Under skip the strategies unset the vector of a structural chunk: CONTENT by the role
\* of the assembled text, FAST_CONTENT by that of the slice, which has none anyway.
\* Mutant: the vector the section was given stays.
UnsetNever(r) == FALSE
Unset(r) == setup.skip /\ doc.strategy = "CONTENT" /\ ~Searchable(r.role)
Final(r) == IF Unset(r) THEN [r EXCEPT !.vec = NoVector] ELSE r

\* save_chunks keeps a row with a vector, and one that no search is meant to find.
Storable(r) == r.vec # NoVector \/ ~Searchable(r.role)

\* The strategy returns and persist_chunks begins; it raises when nothing is left to store.
Assemble(cs, vecs, late) ==
    LET of(n) == SelectInSeq(Embedded(cs), LAMBDA i : i = n)
        row(n) == Final(Assembled(cs, n, IF of(n) = 0 THEN NoVector ELSE vecs[of(n)], late))
        kept == Kept([n \in DOMAIN cs |-> row(n)], Storable)
    IN /\ chunks' = cs /\ vectors' = vecs /\ todo' = kept
       /\ phase' = IF kept = <<>> THEN "failed" ELSE "saving"
       /\ UNCHANGED <<doc, setup, attempt, text, rows>>

\* chunk_document_with_late_chunking: the provider cuts the text itself; an error, no window
\* at all or a window without text leaves the sections to the contextual way.
Headed(w) ==
    LET at == SelectInSeq(chunks, LAMBDA s : \/ s.start <= w.start /\ w.start < s.end
                                             \/ s.start < w.end /\ w.end <= s.end)
    IN [w EXCEPT !.path = IF at = 0 THEN <<>> ELSE chunks[at].path]
CleanSlices == Slices(Clean(text.text))

Encode ==
    /\ phase = "encoding"
    /\ \/ \E vecs \in LateVectors(Len(CleanSlices)) :
             LET late == [i \in DOMAIN vecs |-> Headed(CleanSlices[i])]
             IN /\ late # <<>> /\ \A i \in DOMAIN late : late[i].blocks # <<>>
                /\ Assemble(late, vecs, TRUE)
       \/ phase' = "embedding"
          /\ UNCHANGED <<doc, setup, attempt, text, chunks, vectors, todo, rows>>

Embed ==
    /\ phase = "embedding"
    /\ \/ \E vecs \in Outcomes(Embedded(chunks)) : Assemble(chunks, vecs, FALSE)
       \/ Embedded(chunks) # <<>> /\ Fail /\ UNCHANGED rows

SaveRows ==
    /\ phase = "saving"
    /\ LET n == Min({SaveBatch, Len(todo)})
       IN \/ /\ rows' = rows \o SubSeq(todo, 1, n)
             /\ todo' = SubSeq(todo, n + 1, Len(todo))
             /\ phase' = IF n = Len(todo) THEN "processed" ELSE "saving"
             /\ UNCHANGED <<doc, setup, attempt, text, chunks, vectors>>
          \/ Fail /\ UNCHANGED rows

\* A failed document is retried, and one whose worker dies is claimed again.
Again ==
    /\ phase \in {"failed", "reading", "encoding", "embedding", "saving"}
    /\ attempt < MaxAttempts
    /\ attempt' = attempt + 1 /\ phase' = "queued"
    /\ text' = NoText /\ chunks' = <<>> /\ vectors' = <<>> /\ todo' = <<>>
    /\ UNCHANGED <<doc, setup, rows>>

ContentNext == Cleanup \/ ReadContent \/ ReadFast \/ ReadPreProcessed \/ Encode \/ Embed \/ SaveRows \/ Again
ContentSpec == ContentInit /\ [][ContentNext]_contentVars

-----------------------------------------------------------------------------
\* A text cut into chunks is that text: blocks in order, each of them in one chunk, or in
\* consecutive ones if it was too long for one. No short section, no paragraph at a limit
\* and no text before the first heading is lost or repeated by the splitters. Only late
\* chunking by Jina may lose any of it: the end, by one window for the vector that is missing.
Collapsed(s) ==
    LET upto[i \in 0 .. Len(s)] ==
            IF i = 0 THEN <<>>
            ELSE IF i > 1 /\ s[i] = s[i - 1] THEN upto[i - 1] ELSE Append(upto[i - 1], s[i])
    IN upto[Len(s)]
EndLost ==
    /\ doc.strategy = "CONTENT" /\ ~setup.skip /\ vectors # <<>>
    /\ \A i \in DOMAIN vectors : vectors[i].by = "jina"
    /\ Len(chunks) + 1 = Len(CleanSlices)
TextConserved ==
    phase \in {"encoding", "embedding", "saving", "processed"} =>
        LET source == IF doc.strategy = "CONTENT" THEN Clean(text.text) ELSE text.text
            kept == Collapsed(FlattenSeq([i \in DOMAIN chunks |-> BlockIds(chunks[i].blocks)]))
        IN kept = BlockIds(source) \/ (EndLost /\ IsPrefix(kept, BlockIds(source)))

\* The page a chunk is filed under is the page its text starts on, although the offsets of
\* the chunks are those of the cleaned text and the windows of the pages those of the
\* text before: exact when nothing was cleaned away, never a later page otherwise, but
\* for the last page, which an offset between two windows is given. (A window may start
\* inside a block when the provider or the fast strategy cuts the text, and an oversize
\* paragraph shifts the ones after it: those are left out.)
Located(c) ==
    LET at == Offset(text.text, SelectInSeq(text.text, LAMBDA b : b.id = c.blocks[1].id))
    IN PageNumber(at, text.map)
PagesFaithful ==
    (/\ doc.strategy = "CONTENT" /\ setup.skip
     /\ \A i \in DOMAIN text.text : text.text[i].len <= MaxChars) =>
        \A i \in DOMAIN rows : rows[i].attempt = attempt /\ chunks # <<>> =>
            LET c == chunks[rows[i].n]
            IN IF Clean(text.text) = text.text THEN rows[i].page = Located(c)
               ELSE rows[i].page <= Located(c) \/ rows[i].page = Last(text.map).page

\* A processed document is stored once: whatever earlier attempts stored and however they
\* ended, its rows are the chunks of the last attempt, each of them once and in order, the
\* missing ones being those without a vector, and all its vectors are one provider's.
ProcessedComplete ==
    phase = "processed" =>
        /\ \A i \in DOMAIN rows : rows[i].attempt = attempt
        /\ \A i, j \in DOMAIN rows : i < j => rows[i].n < rows[j].n
        /\ \A n \in DOMAIN chunks : (\E i \in DOMAIN rows : rows[i].n = n) \/ n \notin
               {Embedded(chunks)[k] : k \in DOMAIN Embedded(chunks)}
        /\ Cardinality({rows[i].vec.by : i \in DOMAIN rows} \ {"none"}) <= 1

\* The two judgements of a chunk's role, of its own words before the vectors are asked for
\* and of the assembled text after, agree on what is stored: every row a search may return
\* has a vector, and with skip no other row of a CONTENT document has one.
RowsMatchRole ==
    \A i \in DOMAIN rows :
        /\ Searchable(rows[i].role) => rows[i].vec # NoVector
        /\ (setup.skip /\ doc.strategy = "CONTENT" /\ ~Searchable(rows[i].role))
               => rows[i].vec = NoVector

\* No row is stored with the vector of another text without a trace, wherever in the answers
\* of the provider a vector is missing: with Cohere the last text of the same request has a
\* zero vector, with Jina the last text of all, or late chunking lost the end of the text.
VectorsOwnText ==
    \A i \in DOMAIN rows : rows[i].attempt = attempt /\ vectors # <<>> =>
        \/ rows[i].vec.of \in {0, rows[i].n}
        \/ /\ rows[i].vec.by = "cohere"
           /\ \E k \in DOMAIN Embedded(chunks) :
                 /\ Embedded(chunks)[k] = rows[i].n
                 /\ vectors[RequestEnd(vectors, k)].of = 0
        \/ rows[i].vec.by = "jina" /\ Last(vectors).of = 0
        \/ EndLost
=============================================================================
