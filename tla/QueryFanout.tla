---------------------------- MODULE QueryFanout ----------------------------
(***************************************************************************)
(* Requests that make several retrieval calls at once and merge what comes *)
(* back: multi-query, comprehensive (late fusion), query plans, the chat's *)
(* router and its paged search. A call is one use of the retrieval tools   *)
(* (module QueryCall): it starts, runs, and ends with rows or without.     *)
(***************************************************************************)
EXTENDS GraphSearch

CONSTANTS
    Requests,      \* [kind, subs, query, filters, k, strict], see FirstCalls
    Answers,       \* the row sequences a call may return, by the call's name
    Worlds,        \* the worlds of the searches of the graph, see GraphSearch
    Summaries,     \* the RAPTOR summary nodes
    Children,      \* of every summary, summaries and chunks
    LeafRow,       \* the row of a chunk
    MaxParallel,   \* permits of the semaphore of sub-queries
    MaxBranches,   \* sub-queries of a plan that are run
    MaxDepth,      \* levels of summaries resolved
    Quotas,        \* places of chunks, graph and raptor
    RrfK, Min0,    \* of rrf_merge, and the min_score of the policy
    Target,        \* rows the paged search is after
    MinGravity, HeadingFloor, GravityLimit

VARIABLES
    request, phase,  \* the request and where its handler is
    calls,           \* of every call: status and rows
    merged,          \* what the merge gave before the policies
    answer,          \* rows, one record per sub-query, partial flag
    seen             \* paged search: the rows collected

vars == <<request, phase, calls, merged, answer, seen>>

NoAnswer == [rows |-> <<>>, records |-> {}, partial |-> FALSE]
Over == {"answered", "error"}
Ended(c) == calls[c].status \in {"ok", "dropped", "failed", "timeout", "skipped"}
AllEnded == \A c \in DOMAIN calls : Ended(c)
RowsOf(c) == IF c \in DOMAIN calls /\ calls[c].status = "ok" THEN calls[c].rows ELSE <<>>
Idle(names) == [c \in names |-> [status |-> "idle", rows |-> <<>>]]

\* The sub-queries of a multi-query request without the ones whose key was seen before.
Key(s) == SubqueryKey(s.query, s.filters)
Distinct(subs) == FirstBy(subs, Key)
NamesOf(subs) == {subs[i].name : i \in DOMAIN subs}
Branches(r) == Take(r.subs, MaxBranches)

\* The calls a request begins with.
FirstCalls(r) ==
    CASE r.kind = "multi" -> NamesOf(Distinct(r.subs))
      [] r.kind \in {"parallel", "sequential"} -> NamesOf(Branches(r)) \union {"main"}
      [] r.kind = "comprehensive" -> {"chunks", "graph", "raptor"}
      [] r.kind = "vector" -> {"vector"}
      [] r.kind = "paged" -> {"page"}
      [] OTHER -> {}

\* A row of the vector search, of the summaries or of a chunk; via is used by graph rows only.
SourceRow ==
    [id : STRING, scope : Labels, score : Int, boost : Int, weight : Int,
     text : STRING, penalized : BOOLEAN, space : {"similarity", "rrf", "mixed"},
     owned : BOOLEAN, via : SUBSET STRING]

ASSUME FanoutAssumption ==
    /\ \A r \in Requests : r.k \in Nat /\ r.subs \in Seq(ToSet(r.subs))
    /\ \A r \in Requests : FirstCalls(r) \subseteq DOMAIN Answers
    /\ {"vector", "again", "summaries"} \subseteq DOMAIN Answers
    /\ \A c \in DOMAIN Answers : Answers[c] \subseteq Seq(SourceRow)
    /\ IsFiniteSet(DOMAIN LeafRow) /\ \A c \in DOMAIN LeafRow : LeafRow[c] \in SourceRow
    /\ MaxBranches \in Nat
    /\ Quotas.chunks \in Nat /\ Quotas.graph \in Nat /\ Quotas.raptor \in Nat
    /\ GraphScore \in Int /\ MinGravity \in Int /\ HeadingFloor \in Int /\ GravityLimit \in Nat

\* Sub-queries have names of their own; retrieve_summaries stamps its rows (_stamp_results).
ASSUME NamesAndOwners ==
    /\ \A r \in Requests : "again" \notin NamesOf(r.subs)
    /\ \A rows \in Answers["summaries"] : \A i \in DOMAIN rows : rows[i].owned

Init ==
    /\ request \in Requests
    /\ phase = IF request.kind \in {"router", "vector"} THEN "scope" ELSE "calling"
    /\ calls = Idle(FirstCalls(request))
    /\ merged = <<>> /\ answer = NoAnswer /\ seen = <<>>

-----------------------------------------------------------------------------
\* A chat whose query names clauses but no standard is asked to clarify.
Clarify ==
    /\ phase = "scope" /\ NeedsClarification(request.query)
    /\ phase' = "answered" /\ UNCHANGED <<request, calls, merged, answer, seen>>

\* _probe_specificity: the anchors of the query; a failure counts as none.
AnchorCounts == {Len(Anchors(g)) : g \in Worlds} \union {0}

\* _classify_query_mode: the anchors found and broad words decide, else the language
\* model's label; without its answer any anchor makes the query hybrid.
Modes(anchors, broad) ==
    IF anchors >= 2 /\ ~broad THEN {"specific"}
    ELSE IF anchors = 0 /\ broad THEN {"general"}
    ELSE {"specific", "general", "hybrid"}

SourcesOf(mode) ==
    (IF mode = "general" THEN {} ELSE {"vector", "local"})
    \union (IF mode = "specific" THEN {} ELSE {"global", "summaries"})

Classify ==
    /\ phase = "scope" /\ ~NeedsClarification(request.query)
    /\ \/ request.kind = "vector" /\ UNCHANGED calls
       \/ /\ request.kind = "router"
          /\ \E anchors \in AnchorCounts, broad \in BOOLEAN : \E mode \in Modes(anchors, broad) :
                calls' = Idle(SourcesOf(mode))
    /\ phase' = "calling" /\ UNCHANGED <<request, merged, answer, seen>>

\* Sub-queries share the semaphore; the main query of a plan does not take a permit.
Guarded(c) == c \in NamesOf(request.subs)
\* Mutant: a sub-query that was cancelled keeps its permit.
LeakedPermit(c) == Guarded(c) /\ calls[c].status \in {"running", "timeout"}
HoldsPermit(c) == Guarded(c) /\ calls[c].status = "running"

\* A sequential plan runs its calls in order, the main query last.
Turn(c) ==
    request.kind = "sequential" =>
        IF c = "main" THEN \A d \in DOMAIN calls \ {c} : Ended(d)
        ELSE LET at(d) == SelectInSeq(request.subs, LAMBDA s : s.name = d)
             IN \A d \in DOMAIN calls \ {"main"} : at(d) < at(c) => Ended(d)

Start(c) ==
    /\ phase = "calling" /\ calls[c].status = "idle" /\ Turn(c)
    /\ Guarded(c) => Cardinality({d \in DOMAIN calls : HoldsPermit(d)}) < MaxParallel
    /\ calls' = [calls EXCEPT ![c].status = "running"]
    /\ UNCHANGED <<request, phase, merged, answer, seen>>

\* A sequential plan gives up its other branches when the rows are mostly out of scope.
EarlyExit(c, rows) ==
    /\ request.kind = "sequential" /\ c # "main" /\ rows # <<>>
    /\ PenaltyReaches(rows, RequestedScopes(request.filters), 4, 5)

Returned(c, rows) ==
    [d \in DOMAIN calls |->
        IF d = c THEN [status |-> "ok", rows |-> rows]
        ELSE IF d # "main" /\ calls[d].status = "idle" /\ EarlyExit(c, rows)
             THEN [status |-> "skipped", rows |-> <<>>]
        ELSE calls[d]]

LocalOutcomes == {LocalSearch(g) : g \in Worlds}
GlobalOutcomes == {GlobalSearch(g) : g \in Worlds}

\* How a call may end: any call of the retrieval tools may raise.
Outcomes(c) ==
    CASE c = "local" -> LocalOutcomes
      [] c = "global" -> GlobalOutcomes
      [] OTHER -> {Fine(rows) : rows \in Answers[c]} \union {Raised}

Returns(c) ==
    /\ phase = "calling" /\ c # "page" /\ calls[c].status = "running"
    /\ \E end \in Outcomes(c) : end.ok /\ calls' = Returned(c, end.rows)
    /\ UNCHANGED <<request, phase, merged, answer, seen>>

\* A branch all of whose candidates were out of scope is dropped (reranked sub-queries only).
Drops(c) ==
    /\ phase = "calling" /\ request.kind = "multi" /\ calls[c].status = "running"
    /\ calls' = [calls EXCEPT ![c].status = "dropped"]
    /\ UNCHANGED <<request, phase, merged, answer, seen>>

\* Mutant: the sources of the late fusion are awaited without return_exceptions.
RaisesFirst(c) == request.kind # "multi"

\* Sequential plans, the paged search and the vector-only chat do not catch a failure; nor
\* does the router's second vector search, nor the late fusion a foreign row.
Uncaught(c) == request.kind \in {"sequential", "paged", "vector"} \/ c = "again"

Fails(c) ==
    /\ phase = "calling" /\ calls[c].status = "running" /\ Raised \in Outcomes(c)
    /\ calls' = [calls EXCEPT ![c].status = "failed"]
    /\ phase' = IF Uncaught(c) THEN "error" ELSE phase
    /\ UNCHANGED <<request, merged, answer, seen>>

Breach ==
    /\ phase = "calling" /\ "chunks" \in DOMAIN calls /\ calls["chunks"].status = "running"
    /\ calls' = [calls EXCEPT !["chunks"].status = "breach"] /\ phase' = "error"
    /\ UNCHANGED <<request, merged, answer, seen>>

\* wait_for cancels the sub-query: it does not answer any more.
TimesOut(c) ==
    /\ phase = "calling" /\ request.kind = "multi" /\ calls[c].status = "running"
    /\ calls' = [calls EXCEPT ![c].status = "timeout"]
    /\ UNCHANGED <<request, phase, merged, answer, seen>>

\* The paged search goes on while pages bring new rows, one in ten at least.
TurnPage ==
    /\ phase = "calling" /\ request.kind = "paged" /\ calls["page"].status = "running"
    /\ \E page \in Answers["page"] :
         LET fresh == Kept(FirstById(page), LAMBDA r : r.id \notin Ids(seen))
         IN /\ seen' = seen \o fresh
            /\ IF page # <<>> /\ 10 * Len(fresh) >= Len(page) /\ Len(seen') < Target
               THEN UNCHANGED <<phase, answer>>
               ELSE phase' = "answered" /\ answer' = [NoAnswer EXCEPT !.rows = seen']
    /\ UNCHANGED <<request, calls, merged>>

-----------------------------------------------------------------------------
Reply(rows, records, partial) ==
    phase' = "answered" /\ answer' = [rows |-> rows, records |-> records, partial |-> partial]

\* One record per sub-query, duplicates first; without any rows the request fails only if
\* every record is that of a failed sub-query, and a duplicate does not count as one.
Records ==
    {<<i, IF request.subs[i] \notin ToSet(Distinct(request.subs)) THEN "duplicate"
          ELSE calls[request.subs[i].name].status>> : i \in DOMAIN request.subs}
FailedCount == Cardinality({c \in DOMAIN calls : calls[c].status # "ok"})
Groups ==
    LET subs == Distinct(request.subs)
    IN Kept([i \in DOMAIN subs |-> RowsOf(subs[i].name)], LAMBDA g : g # <<>>)

\* The rows of each sub-query have passed LeakCanary, those marked is_global without naming
\* a tenant too; over the merged items, whose metadata has no such mark, it refuses these.
Foreign(rows) == \E row \in ToSet(rows) : ~row.owned

MergeMulti ==
    /\ phase = "calling" /\ request.kind = "multi" /\ AllEnded
    /\ merged' = RrfMerge(Groups, RrfK, request.k)
    /\ IF (Groups = <<>> /\ FailedCount >= Len(request.subs)) \/ Foreign(merged')
       THEN phase' = "error" /\ UNCHANGED answer
       ELSE Reply(merged', Records, FailedCount > 0)
    /\ UNCHANGED <<request, calls, seen>>

\* execute_plan: the branches' rows and those of the main query, the first of each id.
MergePlan ==
    /\ phase = "calling" /\ request.kind \in {"parallel", "sequential"} /\ AllEnded
    /\ merged' = FirstById(FlattenSeq([i \in DOMAIN Branches(request) |->
                               RowsOf(Branches(request)[i].name)]) \o RowsOf("main"))
    /\ Reply(Take(merged', request.k), {}, FALSE)
    /\ UNCHANGED <<request, calls, seen>>

\* resolve_summaries_to_chunk_ids: level by level, the children that are no summaries are
\* leaves; an error on the way keeps the leaves found so far. Those that are stored give rows.
Levels(roots) ==
    LET level[d \in 0 .. MaxDepth] ==
            IF d = 0 THEN roots
            ELSE UNION {Children[s] \intersect Summaries : s \in level[d - 1]}
    IN level

Leaves(roots, depth) ==
    UNION {UNION {Children[s] \ Summaries : s \in Levels(roots)[d]} : d \in 0 .. depth - 1}

RaptorRows ==
    LET found == Ids(RowsOf("raptor"))
    IN {Mapped(s, LAMBDA c : LeafRow[c]) :
            s \in UNION {SetToSeqs(Leaves(found, depth) \intersect DOMAIN LeafRow) :
                              depth \in 0 .. MaxDepth}}

\* The three sources fused by quota, then the policy: rows below min_score are dropped.
MergeLate ==
    /\ phase = "calling" /\ request.kind = "comprehensive" /\ AllEnded
    /\ \E raptor \in RaptorRows :
            merged' = FuseLate(RowsOf("chunks"), RowsOf("graph"), raptor, request.k, Quotas)
    /\ Reply(MinScore(merged', Min0), {}, FALSE)
    /\ UNCHANGED <<request, calls, seen>>

\* The router goes back to the vectors when the local graph found nothing (a failed local
\* search is not looked at) and they had no rows either.
NeedsVector ==
    /\ request.kind = "router" /\ "again" \notin DOMAIN calls /\ RowsOf("vector") = <<>>
    /\ "local" \in DOMAIN calls /\ calls["local"].status = "ok" /\ RowsOf("local") = <<>>

AskVectorsAgain ==
    /\ phase = "calling" /\ AllEnded /\ NeedsVector
    /\ calls' = [c \in DOMAIN calls \union {"again"} |->
                    IF c = "again" THEN [status |-> "idle", rows |-> <<>>] ELSE calls[c]]
    /\ UNCHANGED <<request, phase, merged, answer, seen>>

\* The router's penalty keeps a quarter of the score of rows whose text is out of scope;
\* strict filtering drops them unless nothing else is left.
RouterRanked(rows, scopes) ==
    LET weighed == Mapped(rows, LAMBDA r : IF OutsideText(r.scope, scopes)
                       THEN [r EXCEPT !.penalized = TRUE, !.score = @ \div 4] ELSE r)
        strict == IF request.strict THEN Strict(weighed) ELSE weighed
    IN Take(Gravity(strict, MinGravity, HeadingFloor, GravityLimit), request.k)

\* context_map, a dictionary by id: the place of the first row, the row of the last.
ContextMap(rows) ==
    Mapped(FirstById(rows), LAMBDA r : rows[SelectLastInSeq(rows, LAMBDA x : x.id = r.id)])

\* get_grounded_context: the rows in scope, or all of them where none is.
Scoped(rows) ==
    LET inScope == InScopeRows(rows, request.query.standards)
    IN IF inScope = <<>> THEN rows ELSE inScope

\* LeakCanary: a row whose metadata names no tenant fails the chat, rows of the graph too.
Isolated(rows) == \A row \in ToSet(Scoped(rows)) : row.owned

\* The rows of all sources; the router keeps the first of each id.
Gathered ==
    IF request.kind = "vector" THEN RowsOf("vector")
    ELSE FirstById(RowsOf("vector") \o RowsOf("again") \o RowsOf("local") \o RowsOf("global")
                       \o RowsOf("summaries"))

\* The rows that are left, one per id and per text, make the answer.
MergeChat ==
    /\ phase = "calling" /\ request.kind \in {"router", "vector"} /\ AllEnded
    /\ ~NeedsVector
    /\ \E found \in {Gathered} :
            merged' = IF request.kind = "vector" THEN Take(found, request.k)
                      ELSE RouterRanked(found, request.query.standards)
    /\ IF Isolated(merged')
       THEN Reply(FirstByText(ContextMap(Scoped(merged'))), {}, FALSE)
       ELSE phase' = "error" /\ UNCHANGED answer
    /\ UNCHANGED <<request, calls, seen>>

CallStep == \E c \in DOMAIN calls :
    Start(c) \/ Returns(c) \/ Drops(c) \/ Fails(c) \/ TimesOut(c)

Step ==
    \/ Clarify \/ Classify \/ CallStep \/ Breach \/ TurnPage
    \/ MergeMulti \/ MergePlan \/ MergeLate \/ AskVectorsAgain \/ MergeChat

Done == phase \in Over /\ UNCHANGED vars

Next == Step \/ Done

\* A call ends: sub-queries are timed out, the clients of all others have timeouts.
Spec == Init /\ [][Next]_vars /\ WF_vars(Step)

-----------------------------------------------------------------------------
\* fuse_late_results fills the answer: k rows, or all there are, each once; and a source that
\* failed leaves its places to the others.
LateFusionFills ==
    phase = "answered" /\ request.kind = "comprehensive" =>
        LET found == Ids(RowsOf("chunks")) \union Ids(RowsOf("graph"))
        IN /\ Len(merged) = Cardinality(Ids(merged))
           /\ Len(merged) <= request.k
           /\ Len(merged) < request.k => found \subseteq Ids(merged)

\* A failed call does not fail a request whose other calls found rows: multi-query, the
\* parallel plan and the late fusion (but for a security breach) answer with those; it takes a
\* row without a tenant among those merged to fail a multi-query. Nor does
\* the graph fail a chat of the router: that takes a failed second vector search, a row of the
\* vectors without an owner (the direct fallback stamps none), or a row of the graph that the
\* scope filter leaves to the tenant check, because the query names no standard or because no
\* row is in the scope of those it names.
PartialFailureAnswers ==
    phase = "error" =>
        /\ request.kind \in {"multi", "parallel", "comprehensive"} =>
             \/ \A c \in DOMAIN calls : RowsOf(c) = <<>>
             \/ \E c \in DOMAIN calls : calls[c].status = "breach"
             \/ request.kind = "multi" /\ Foreign(merged)
        /\ request.kind = "router" =>
             \/ "again" \in DOMAIN calls /\ calls["again"].status = "failed"
             \/ \E row \in ToSet(RowsOf("vector") \o RowsOf("again")) : ~row.owned
             \/ /\ Ids(RowsOf("local")) \union Ids(RowsOf("global")) # {}
                /\ \/ request.query.standards = <<>>
                   \/ \A i \in DOMAIN merged :
                        \/ merged[i].scope = NoLabel
                        \/ OutsideText(merged[i].scope, request.query.standards)

\* Every request ends: no sub-query waits for a permit for ever, none is left out.
RequestEnds == <>(phase \in Over)
=============================================================================
