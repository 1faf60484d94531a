---------------------------- MODULE HybridSearch ----------------------------
(***************************************************************************)
(* One query through run_hybrid: the broker, the atomic engine with its    *)
(* per-standard calls and its graph hop, the fallbacks and the reranking,  *)
(* while documents may be deleted between two calls.                       *)
(***************************************************************************)
EXTENDS Ranking, Functions

CONSTANTS
    Chunks, Entities,     \* stored chunks and graph entities, by id
    ScopeOf, ScoreOf, BoostOf, WeightOf, TextOf,  \* of every chunk, functions on Chunks
    Structural,           \* chunks marked as table of contents or front matter
    Unowned,              \* chunks whose own metadata names no tenant
    Similarity,           \* of every entity to the query
    Provenance,           \* the chunks every entity was extracted from
    Queries, FilterSets,  \* the requests considered
    K, FetchK, Quota,     \* rows asked for, fetched, and fetched per standard
    MinGravity, HeadingFloor, GravityLimit

Requested == [list : Seq(Labels), single : Labels, clause : BOOLEAN, bad : BOOLEAN]

ASSUME CutAssumption ==
    /\ K \in Nat \ {0} /\ FetchK \in Nat \ {0} /\ Quota \in Nat
    /\ MinGravity \in Int /\ HeadingFloor \in Int /\ GravityLimit \in Nat

ASSUME StoreAssumption ==
    /\ IsFiniteSet(Chunks) /\ IsFiniteSet(Entities)
    /\ ScopeOf \in [Chunks -> Labels] /\ ScoreOf \in [Chunks -> Int]
    /\ BoostOf \in [Chunks -> Int] /\ WeightOf \in [Chunks -> Int]
    /\ Similarity \in [Entities -> Int] /\ Provenance \in [Entities -> SUBSET Chunks]

ASSUME RequestAssumption ==
    FilterSets \subseteq Requested /\ \A q \in Queries : q.standards \in Seq(Labels)

VARIABLES
    request,    \* [query, filters, rerank, strict, mode], fixed
    stage,      \* the call the query waits for, or how it ended
    filters,    \* resolve_retrieval_filters
    literal,    \* the literal clause fallback is under way
    calls,      \* the hybrid RPCs: status "out", "ok" or "failed", and the rows returned
    entities,   \* what the graph navigation found
    links,      \* the chunks of those entities, by entity
    graph,      \* the rows of the graph hop
    rows,       \* what the strategy returned
    pool,       \* what the final cut was taken from
    answer,
    stored      \* the chunks that exist

state == <<request, stage, filters, literal, calls, entities, links, graph, rows, pool, answer>>
vars == <<state, stored>>

ChunkId(c) == <<"chunk", c>>
Row(c) == [id |-> ChunkId(c), scope |-> ScopeOf[c], score |-> ScoreOf[c], boost |-> BoostOf[c],
           weight |-> WeightOf[c], text |-> TextOf[c], penalized |-> FALSE, space |-> "similarity",
           owned |-> c \notin Unowned, via |-> {}]

\* The chunks the RPC may return: no scope asked, or one whose text the row's scope holds.
Matching(scope) ==
    {c \in stored : scope = NoLabel \/ (ScopeOf[c] # NoLabel /\ Within(scope, ScopeOf[c]))}
RpcRows(scope, count) ==
    {Mapped(s, Row) : s \in {t \in UNION {SetToSeqs(S) : S \in SUBSET Matching(scope)} :
                                Len(t) <= count}}

\* One call per standard when several are asked for.
Targets(f) == IF Len(f.list) > 1 THEN f.list ELSE <<f.single>>
Count(f) == IF Len(f.list) > 1 THEN Quota ELSE FetchK
Limit == IF literal THEN K ELSE FetchK

Init ==
    /\ request \in [query : Queries, filters : FilterSets, rerank : BOOLEAN,
                    strict : BOOLEAN, mode : {"atomic", "hybrid"}]
    /\ stage = "validate" /\ literal = FALSE
    /\ filters = request.filters
    /\ calls = <<>> /\ entities = <<>> /\ links = {} /\ graph = <<>>
    /\ rows = <<>> /\ pool = <<>> /\ answer = <<>>
    /\ stored = Chunks

-----------------------------------------------------------------------------
\* How the strategy goes on once it has rows: the direct search in hybrid mode, then the
\* literal clause fallback, once each; then the ranking or the answer.
Restart ==
    /\ stage' = "embed" /\ literal' = TRUE /\ filters' = [filters EXCEPT !.clause = FALSE]
    /\ entities' = <<>> /\ links' = {} /\ calls' = <<>>
    /\ UNCHANGED <<rows, pool, answer>>

\* LeakCanary.verify_isolation refuses the whole answer for one row without an owner.
Respond(result, from) ==
    /\ pool' = from
    /\ IF \A i \in DOMAIN result : result[i].owned
       THEN stage' = "answered" /\ answer' = result
       ELSE stage' = "failed" /\ UNCHANGED answer
    /\ UNCHANGED <<filters, literal, calls, entities, links>>

Continue(found, afterEngine) ==
    /\ rows' = found
    /\ CASE found = <<>> /\ afterEngine /\ ~literal /\ request.mode = "hybrid" ->
              stage' = "direct" /\ UNCHANGED <<filters, literal, calls, entities, links, pool, answer>>
         [] found = <<>> /\ filters.clause -> Restart
         [] found # <<>> /\ request.rerank ->
              stage' = "rank" /\ UNCHANGED <<filters, literal, calls, entities, links, pool, answer>>
         [] OTHER -> Respond(Take(found, K), found)

\* An exception of the engine ends an atomic query and the literal fallback; in hybrid
\* mode it counts as no rows.
EngineRaises ==
    IF request.mode = "hybrid" /\ ~literal THEN Continue(<<>>, TRUE)
    ELSE /\ stage' = "failed"
         /\ UNCHANGED <<filters, literal, calls, entities, links, rows, pool, answer>>

\* stamp_tenant_context: a row without an owner is given the tenant of the request.
Stamped(found) == Mapped(found, LAMBDA r : [r EXCEPT !.owned = TRUE])

\* filter_structural_rows
Eligible(found) == Kept(found, LAMBDA r : r.id \notin {ChunkId(c) : c \in Structural})

\* The rows of both sources are concatenated, stamped, freed of structural rows and cut.
EngineReturns(fromGraph) ==
    LET fused == FlattenSeq([i \in DOMAIN calls |-> calls[i].rows])
        merged == Eligible(Stamped(fused \o fromGraph))
    IN /\ graph' = fromGraph
       /\ Continue(Take(merged, Limit), TRUE)

-----------------------------------------------------------------------------
Validate ==
    /\ stage = "validate"
    /\ IF request.filters.bad
       THEN stage' = "failed" /\ UNCHANGED filters
       ELSE /\ stage' = "embed"
            /\ filters' = ResolveFilters(request.query, ValidateFilters(request.filters))
    /\ UNCHANGED <<request, literal, calls, entities, links, graph, rows, pool, answer, stored>>

Embed ==
    /\ stage = "embed"
    /\ \/ /\ stage' = "search"
          /\ calls' = [i \in 1 .. Len(Targets(filters)) |-> [status |-> "out", rows |-> <<>>]]
          /\ graph' = <<>>
          /\ UNCHANGED <<filters, literal, entities, links, rows, pool, answer>>
       \/ EngineRaises /\ UNCHANGED graph
    /\ UNCHANGED <<request, stored>>

RpcReturns(i) ==
    /\ stage = "search" /\ calls[i].status = "out"
    /\ \E r \in RpcRows(Targets(filters)[i], Count(filters)) :
            calls' = [calls EXCEPT ![i] = [status |-> "ok", rows |-> r]]
    /\ UNCHANGED <<request, stage, filters, literal, entities, links, graph, rows, pool,
                   answer, stored>>

RpcFails(i) ==
    /\ stage = "search" /\ calls[i].status = "out"
    /\ calls' = [calls EXCEPT ![i].status = "failed"]
    /\ UNCHANGED <<request, stage, filters, literal, entities, links, graph, rows, pool,
                   answer, stored>>

\* gather(return_exceptions=True) swallows failures; a single call's failure is raised.
Gather ==
    /\ stage = "search" /\ \A i \in DOMAIN calls : calls[i].status # "out"
    /\ IF Len(calls) = 1 /\ calls[1].status = "failed" THEN EngineRaises
       ELSE /\ stage' = "navigate"
            /\ UNCHANGED <<filters, literal, calls, entities, links, rows, pool, answer>>
    /\ UNCHANGED <<request, graph, stored>>

\* A failed navigation is no hop at all.
Navigate ==
    /\ stage = "navigate"
    /\ \/ \E found \in (UNION {SetToSeqs(S) : S \in SUBSET Entities}) \ {<<>>} :
            /\ entities' = found /\ stage' = "resolve"
            /\ UNCHANGED <<filters, literal, calls, links, graph, rows, pool, answer>>
       \/ EngineReturns(<<>>)
    /\ UNCHANGED <<request, stored>>

Ungrounded(grounded) ==
    Mapped(Kept(entities, LAMBDA e : e \notin grounded), LAMBDA e :
        [id |-> <<"graph", e>>, scope |-> NoLabel, score |-> Similarity[e], boost |-> 1,
         weight |-> 1, text |-> e, penalized |-> FALSE, space |-> "similarity",
         owned |-> TRUE, via |-> {e}])

\* resolve_node_to_chunk_ids answers no links when it fails.
Resolve ==
    /\ stage = "resolve"
    /\ \/ /\ links' = {l \in stored \X ToSet(entities) : l[1] \in Provenance[l[2]]}
          /\ links' # {} /\ stage' = "hydrate"
          /\ UNCHANGED <<filters, literal, calls, entities, graph, rows, pool, answer>>
       \/ EngineReturns(Ungrounded({}))
    /\ UNCHANGED <<request, stored>>

\* The linked chunks that still exist, each with the best similarity of its entities; an
\* entity with a link counts as grounded even when its chunk is not there any more.
Grounded(c) ==
    LET via == {l[2] : l \in {m \in links : m[1] = c}}
    IN [Row(c) EXCEPT !.score = Max({Similarity[e] : e \in via}), !.via = via]

\* Mutant: entities without a chunk are left out.
LinkedRows(present) == Mapped(present, Grounded)

GraphRows(present) ==
    Mapped(present, Grounded) \o Ungrounded({l[2] : l \in links})

Hydrate ==
    /\ stage = "hydrate"
    /\ \/ \E present \in SetToSeqs(stored \intersect {l[1] : l \in links}) :
            EngineReturns(GraphRows(present))
       \/ EngineRaises /\ UNCHANGED graph
    /\ UNCHANGED <<request, stored>>

\* The direct search returns rows as stored, with the owner their metadata names.
Direct ==
    /\ stage = "direct"
    /\ \/ \E found \in RpcRows(filters.single, FetchK) :
            Continue(found, FALSE)
       \/ /\ stage' = "failed"
          /\ UNCHANGED <<filters, literal, calls, entities, links, rows, pool, answer>>
    /\ UNCHANGED <<request, graph, stored>>

\* The order the broker gives the candidates before it asks the reranker.
Candidates ==
    LET scopes == RequestedScopes(filters)
        weighed == Penalize(Gravity(rows, MinGravity, HeadingFloor, GravityLimit), scopes)
        strict == IF request.strict /\ scopes # <<>> THEN Strict(weighed) ELSE weighed
    IN IF Len(scopes) > 1 THEN Stratify(strict, scopes, Len(strict)) ELSE strict

\* Mutants: the cut is taken from the ranked rows as they are, or not at all.
PlainCut(from) == Take(from, K)
NoCut(from) == from

FinalCut(from) ==
    LET scopes == RequestedScopes(filters)
    IN IF Len(scopes) > 1 THEN Stratify(from, scopes, K) ELSE Take(from, K)

\* The reranker's answer: some of the candidates' indices, best first, at most K.
Rankings(n) == {s \in UNION {SetToSeqs(S) : S \in SUBSET (1 .. n)} : Len(s) <= K}

\* _apply_reranking; whatever raises in it leaves the original rows, cut the same way.
Rank ==
    /\ stage = "rank"
    /\ \/ \E candidates \in {Candidates} : \E r \in Rankings(Len(candidates)) :
            LET ranked == ExternalRerank(candidates, r) IN Respond(FinalCut(ranked), ranked)
       \/ Respond(FinalCut(rows), rows)
    /\ UNCHANGED <<request, graph, rows, stored>>

\* A document is deleted meanwhile, with its chunks and their provenance.
Delete(c) ==
    /\ stage \notin {"answered", "failed"} /\ c \in stored
    /\ stored' = stored \ {c} /\ UNCHANGED state

Step ==
    \/ Validate \/ Embed \/ Gather \/ Navigate \/ Resolve \/ Hydrate \/ Direct \/ Rank
    \/ \E i \in DOMAIN calls : RpcReturns(i) \/ RpcFails(i)

Ended == stage \in {"answered", "failed"} /\ UNCHANGED vars

Next == Step \/ Ended \/ \E c \in Chunks : Delete(c)

Spec == Init /\ [][Next]_vars

-----------------------------------------------------------------------------
\* When several standards are asked for, a row of one takes a place more than a row of
\* another has only when the other has no row left: stratify_results keeps one standard
\* from crowding out the rest, whichever calls failed and whatever the reranker answers.
Targeted == TargetNames(RequestedScopes(filters))
InBucket(s, i) == Kept(s, LAMBDA r : Bucket(r, Targeted) = i)
ScopesBalanced ==
    stage = "answered" /\ request.rerank /\ Len(Targeted) > 1 /\ IsInjective(Targeted) =>
        \A i, j \in DOMAIN Targeted :
            Len(InBucket(answer, i)) > Len(InBucket(answer, j)) + 1
                => Len(InBucket(answer, j)) = Len(InBucket(pool, j))

\* Where everything fits, the ranking loses no candidate that the weighing kept: the
\* stratification by distinct standards, a reranker that answers some of the rows, all or
\* none, and the fallback for an exception all hand them on. Two labels of one standard
\* would give each of its rows two places.
RankingKeepsCandidates ==
    stage = "answered" /\ request.rerank /\ Len(rows) <= K /\ IsInjective(Targeted) =>
        Ids(Candidates) \subseteq Ids(answer)

\* Every entity the navigation found is in the rows of the graph hop, through a chunk it was
\* extracted from or on its own, unless one of its chunks was deleted during the query.
EntitiesRepresented ==
    graph # <<>> => \A i \in DOMAIN entities :
        \/ \E j \in DOMAIN graph : entities[i] \in graph[j].via
        \/ Provenance[entities[i]] \ stored # {}

\* The query ends once, with an error or with at most K rows of the catalogue.
Catalogue == {ChunkId(c) : c \in Chunks} \union {<<"graph", e>> : e \in Entities}
Call == INSTANCE QueryCall WITH
    Limit <- K,
    status <- IF stage \in {"answered", "failed"} THEN stage ELSE "running",
    answer <- Mapped(answer, LAMBDA r : r.id)
ImplementsCall == Call!Spec
=============================================================================
