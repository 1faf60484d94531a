------------------------------ MODULE Chunking ------------------------------
(***************************************************************************)
(* From the pages of a document to its chunks: which pages are read as     *)
(* text, what is cleaned away, where the text is cut, and the page, the    *)
(* section and the role a chunk is given. A text is a sequence of blocks   *)
(* joined by "\n\n"; a block has an identity, a length in characters, the  *)
(* level of the heading it starts with (0: none), the text it shares with  *)
(* other pages once digits are masked (norm, "" when it is no candidate),  *)
(* a kind and the hint of a role:                                          *)
(*   kind  "wide" (a line of more than 90 characters), "narrow", "clause"  *)
(*         (a short numbered line or a contents keyword), "noise" (ISO     *)
(*         boilerplate, orphan page numbers), "stamp" (a translation mark) *)
(*   hint  "toc" (a contents keyword, dot leaders), "front" (a copyright   *)
(*         phrase), "none"                                                 *)
(***************************************************************************)
EXTENDS Picking

CONSTANTS
    MaxChars,       \* MAX_CHARACTERS_PER_CHUNKING_BLOCK
    ShortSection,   \* 150: a section shorter than this waits for the next one
    SliceChars,     \* 1000: the fixed chunk of the fast strategy
    FrontLimit,     \* 2200: a longer text is never front matter
    ContextChars,   \* the length of the [PARENT_CONTEXT] header put before a chunk
    MinClauses,     \* 8 clause-like lines make a table of contents
    ScanBlocks,     \* max(60, a quarter of the lines): where one is looked for
    MinBlocks,      \* 30: a shorter text has none
    EdgeBlocks,     \* 2: lines at either end of a page that may be a running header
    AlwaysVisual,   \* 8: a page of this score is visual whatever the budget
    FullPageScore,  \* 5: the score a visual page without a region must reach
    VisualScore     \* 3: the score that makes a page visual at all

Sep == 2
\* len("\n\n".join(bs)), and the offset at which the i-th block starts.
Span(bs) ==
    LET upto[i \in 0 .. Len(bs)] == IF i = 0 THEN -Sep ELSE upto[i - 1] + Sep + bs[i].len
    IN IF bs = <<>> THEN 0 ELSE upto[Len(bs)]
Offset(bs, i) == IF i = 1 THEN 0 ELSE Span(SubSeq(bs, 1, i - 1)) + Sep
BlockIds(bs) == [i \in DOMAIN bs |-> bs[i].id]
Hints(bs) == {bs[i].hint : i \in DOMAIN bs}

-----------------------------------------------------------------------------
\* DocumentStructureRouter.route_document: at most a third of the pages, and twelve, are
\* read as images; a page far above the threshold is one in any case, and a page with no
\* detected region needs a higher score.
VisualBudget(n) == Min({Max({1, (35 * n + 99) \div 100}), 12})

Visual(p, used, budget) ==
    /\ p.score >= VisualScore
    /\ used < budget \/ p.score >= AlwaysVisual
    /\ p.region \/ p.score >= FullPageScore

TextPages(pages) ==
    LET visual(i, used) == Visual(pages[i], used, VisualBudget(Len(pages)))
        used[i \in 0 .. Len(pages)] ==
            IF i = 0 THEN 0
            ELSE LET before == used[i - 1] IN IF visual(i, before) THEN before + 1 ELSE before
    IN Picked(pages, {i \in DOMAIN pages : ~visual(i, used[i - 1])})

\* _strip_repeated_page_boilerplate: a line at the edge of enough pages is removed
\* wherever it stands, digits apart.
EdgeNorms(p) ==
    LET near == {i \in DOMAIN p.blocks : i <= EdgeBlocks \/ i > Len(p.blocks) - EdgeBlocks}
    IN {p.blocks[i].norm : i \in near} \ {""}

StripRepeated(pages) ==
    LET times(norm) == Cardinality({i \in DOMAIN pages : norm \in EdgeNorms(pages[i])})
        repeated == {norm \in UNION {EdgeNorms(pages[i]) : i \in DOMAIN pages} :
                        times(norm) >= Max({2, (35 * Len(pages)) \div 100})}
    IN [i \in DOMAIN pages |->
           [pages[i] EXCEPT !.blocks = Kept(@, LAMBDA b : b.norm \notin repeated)]]

\* The text of the pages and the window each of them has in it. The markdown reader erases
\* translation marks after the window is fixed.
Payload(pages, erased) ==
    LET left == [i \in DOMAIN pages |-> Kept(pages[i].blocks, LAMBDA b : b.kind \notin erased)]
        before(i) == FlattenSeq(SubSeq(left, 1, i - 1))
        start(i) == IF before(i) = <<>> THEN 0 ELSE Span(before(i)) + Sep
        window(i) == [page |-> pages[i].n, start |-> start(i),
                      end |-> start(i) + Span(pages[i].blocks)]
    IN [text |-> FlattenSeq(left),
        map |-> Picked([i \in DOMAIN pages |-> window(i)],
                       {i \in DOMAIN pages : pages[i].blocks # <<>>})]

RoutedText(pages) == Payload(TextPages(pages), {})
MarkdownText(pages) == Payload(StripRepeated(pages), {"stamp"})
PlainText(pages) == Payload(StripRepeated(pages), {})
\* A document the cloud reader converts, and one that is text already, has a single page.
OnePage(blocks) ==
    [text |-> blocks, map |-> <<[page |-> 1, start |-> 0, end |-> Span(blocks)]>>]

\* PdfParserService.get_page_number: an offset outside every window, such as the
\* separator of two pages, is on the last page.
PageNumber(at, map) ==
    LET within == {i \in DOMAIN map : map[i].start <= at /\ at < map[i].end}
    IN IF map = <<>> THEN 1
       ELSE IF within = {} THEN map[Len(map)].page ELSE map[Min(within)].page

-----------------------------------------------------------------------------
\* clean_text_for_chunking
StripBoilerplate(bs) == Kept(bs, LAMBDA b : b.kind # "noise")

\* _strip_toc_block. The clause-like lines since the last wide one are a run; the first run
\* that is long enough and meets a wide line, or the end of the scan, is the contents. A
\* contents keyword a few lines above it goes with it.
StripToc(bs) ==
    LET last == Min({ScanBlocks, Len(bs)})
        run(e) == {i \in 1 .. e - 1 : /\ bs[i].kind = "clause"
                                      /\ \A j \in i .. e - 1 : bs[j].kind # "wide"}
        ends == {e \in 1 .. last + 1 : /\ e > last \/ bs[e].kind = "wide"
                                       /\ Cardinality(run(e)) >= MinClauses}
        end == Min(ends)
        first == Min(run(end))
        headers == {i \in Max({1, first - 5}) .. first - 1 :
                        bs[i].kind = "clause" /\ bs[i].hint = "toc"}
    IN IF Len(bs) < MinBlocks \/ ends = {} THEN bs
       ELSE SubSeq(bs, 1, Min(headers \union {first}) - 1) \o SubSeq(bs, end, Len(bs))

Clean(bs) == StripToc(StripBoilerplate(bs))

-----------------------------------------------------------------------------
\* A piece opens a new chunk when the current one would outgrow max_chars with it.
Pack(pieces) ==
    LET fits(chunk, p) == Span(chunk) + p.len + Sep <= MaxChars
        add(done, p) == IF done # <<>> /\ fits(Last(done), p)
                        THEN [done EXCEPT ![Len(done)] = Append(@, p)]
                        ELSE Append(done, <<p>>)
        packed[i \in 0 .. Len(pieces)] ==
            IF i = 0 THEN <<>> ELSE With(packed[i - 1], LAMBDA done : add(done, pieces[i]))
    IN packed[Len(pieces)]

\* Mutant: the next chunk starts where the last one ends, without the separator.
WindowsTouching(groups, base, path) ==
    LET start[i \in 1 .. Len(groups)] ==
            IF i = 1 THEN base ELSE start[i - 1] + Span(groups[i - 1])
    IN [i \in 1 .. Len(groups) |->
           [blocks |-> groups[i], path |-> path, start |-> start[i],
            end |-> start[i] + Span(groups[i])]]
\* The windows of consecutive chunks, the first of which starts at base.
Windows(groups, base, path) ==
    LET start[i \in 1 .. Len(groups)] ==
            IF i = 1 THEN base ELSE start[i - 1] + Span(groups[i - 1]) + Sep
    IN [i \in 1 .. Len(groups) |->
           [blocks |-> groups[i], path |-> path, start |-> start[i],
            end |-> start[i] + Span(groups[i])]]

\* RecursiveTextSplitter.split: a paragraph over the limit is cut into pieces.
Pieces(b) ==
    [k \in 1 .. (b.len + MaxChars - 1) \div MaxChars |->
        [b EXCEPT !.len = Min({MaxChars, b.len - (k - 1) * MaxChars})]]
RecursiveSplit(bs) == Windows(Pack(FlattenSeq([i \in DOMAIN bs |-> Pieces(bs[i])])), 0, <<>>)

\* The stack of headings at heading h: heading_stack[: level - 2], which for a heading of
\* level 1 is all but the last.
HeadingPath(bs, h) ==
    LET kept(stack, level) == IF level >= 2 THEN Min({level - 2, Len(stack)})
                              ELSE Max({Len(stack) - 1, 0})
        step(stack, b) == IF b.level = 0 THEN stack
                          ELSE Append(SubSeq(stack, 1, kept(stack, b.level)), b)
    IN FoldLeft(step, <<>>, SubSeq(bs, 1, h))

\* SemanticHeadingSplitter.split: a section runs to the next heading; a short one is put
\* before the next that is long enough, or is the last, and shares its path; a long one is
\* cut between paragraphs; what precedes the first heading is a chunk of its own.
Headings(bs) == {i \in DOMAIN bs : bs[i].level > 0}
SectionEnd(bs, h) == Min({i \in Headings(bs) : i > h} \union {Len(bs) + 1}) - 1
Closers(bs) == {h \in Headings(bs) : \/ Span(SubSeq(bs, h, SectionEnd(bs, h))) >= ShortSection
                                     \/ h = Max(Headings(bs))}
\* Mutant: the short sections before a long one are dropped instead of merged into it.
OpenerAlone(bs, c) == c
Opener(bs, c) == Min({h \in Headings(bs) : \A d \in Closers(bs) : d < c => d < h})

Section(bs, c) ==
    LET last == SectionEnd(bs, c)
        content == SubSeq(bs, Opener(bs, c), last)
        start == Offset(bs, Opener(bs, c))
        path == HeadingPath(bs, c)
    IN IF Span(content) > MaxChars THEN Windows(Pack(content), start, path)
       ELSE <<[blocks |-> content, path |-> path, start |-> start,
               end |-> IF last = Len(bs) THEN Span(bs) ELSE Offset(bs, last + 1)]>>

Preamble(bs) ==
    LET first == Min(Headings(bs))
    IN IF first = 1 THEN <<>>
       ELSE <<[blocks |-> SubSeq(bs, 1, first - 1), path |-> <<>>,
               start |-> 0, end |-> Offset(bs, first)]>>

SemanticSplit(bs) ==
    IF Headings(bs) = {} THEN RecursiveSplit(bs)
    ELSE Preamble(bs) \o FlattenSeq([i \in DOMAIN bs |->
             IF i \in Closers(bs) THEN Section(bs, i) ELSE <<>>])

\* split_text: windows of a fixed size over the uncleaned text; a block may be cut, and
\* belongs to every window it is in.
Slices(bs) ==
    LET in(k) == {i \in DOMAIN bs : /\ Offset(bs, i) < k * SliceChars
                                    /\ Offset(bs, i) + bs[i].len > (k - 1) * SliceChars}
    IN [k \in 1 .. (Span(bs) + SliceChars - 1) \div SliceChars |->
           [blocks |-> Picked(bs, in(k)), path |-> <<>>,
            start |-> (k - 1) * SliceChars, end |-> Min({k * SliceChars, Span(bs)})]]

-----------------------------------------------------------------------------
\* _classify_chunk_role: the words of front matter win over those of a contents list, and
\* only in a short text.
Role(hints, len) ==
    IF "front" \in hints /\ len <= FrontLimit THEN "frontmatter"
    ELSE IF "toc" \in hints THEN "toc" ELSE "normative_body"
Searchable(role) == role = "normative_body"

\* TocDiscoveryService.discover_toc: a section ends on the page the next one starts on.
TocEntries(outline) ==
    [i \in DOMAIN outline |->
        [title |-> outline[i].title, level |-> outline[i].level - 1, start |-> outline[i].page,
         hint |-> outline[i].hint,
         end |-> IF i = Len(outline) THEN 0 ELSE outline[i + 1].page]]

\* StructureMapper.map_page_to_context: the entries a page lies in; the breadcrumbs name
\* the last chapter and the deepest section of them.
Breadcrumbs(entries, page) ==
    LET covers(e) == e.start <= page /\ (e.end = 0 \/ page <= e.end)
        early(i, j) == \/ entries[i].start < entries[j].start
                       \/ entries[i].start = entries[j].start /\ i < j
        order == SortSeq([i \in DOMAIN entries |-> i], early)
        relevant == SelectSeq([i \in DOMAIN order |-> entries[order[i]]], covers)
        chapters == SelectSeq(relevant, LAMBDA e : e.level = 0)
        sections == SelectSeq(relevant, LAMBDA e : e.level > 0)
        deepest == SelectSeq(sections, LAMBDA e : \A i \in DOMAIN sections :
                                                      sections[i].level <= e.level)
    IN (IF chapters = <<>> THEN <<>> ELSE <<Last(chapters)>>)
       \o (IF deepest = <<>> THEN <<>> ELSE <<Last(deepest)>>)
=============================================================================
