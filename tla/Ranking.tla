------------------------------ MODULE Ranking ------------------------------
(***************************************************************************)
(* How rows are filtered, ordered and merged. A row has an id, a scope, a  *)
(* score, and flags; groups of rows are sequences, best first.             *)
(***************************************************************************)
EXTENDS Scoping

Ids(rows) == {rows[i].id : i \in 1 .. Len(rows)}

\* The rows with an id not met before; an id of "" is dropped (_dedupe, _dedupe_results).
FirstById(rows) == FirstBy(rows, LAMBDA r : r.id)

-----------------------------------------------------------------------------
\* GravityReranker.rerank. A row below the minimum is pruned unless its heading matches
\* the query; the rest is ordered by the weighted score, scaled to 0 .. 100 between the
\* lowest and the highest, and cut to the matrix's limit. _execute_gravity_rerank then
\* takes all other fields from the last row with the same id. boost is that of the heading,
\* weight the product of all other multipliers.
Weighted(r, floor) ==
    (IF r.boost > 1 /\ r.score < floor THEN floor ELSE r.score) * r.boost * r.weight

Normalized(w, all) ==
    LET lo == Min(all) hi == Max(all)
    IN IF hi = lo THEN 100 ELSE ((w - lo) * 100) \div (hi - lo)

Survivors(rows, minScore) == Kept(rows, LAMBDA r : r.score >= minScore \/ r.boost > 1)
ByWeight(rows, floor) == StableSort(rows, LAMBDA r : Weighted(r, floor))

Gravity(rows, minScore, floor, limit) ==
    LET survivors == Survivors(rows, minScore)
        weights == {Weighted(survivors[i], floor) : i \in DOMAIN survivors}
        original(id) == rows[SelectLastInSeq(rows, LAMBDA r : r.id = id)]
    IN Mapped(Take(ByWeight(survivors, floor), limit), LAMBDA r :
           [original(r.id) EXCEPT !.score = Normalized(Weighted(r, floor), weights)])

\* apply_scope_penalty keeps three quarters of the score, and the order.
Penalize(rows, scopes) ==
    Mapped(rows, LAMBDA r : IF OutOfScope(r.scope, scopes)
                            THEN [r EXCEPT !.penalized = TRUE, !.score = (@ * 3) \div 4]
                            ELSE r)

\* Strict filtering drops the penalised rows, unless that would leave none.
Strict(rows) ==
    LET clean == Kept(rows, LAMBDA r : ~r.penalized)
    IN IF clean = <<>> THEN rows ELSE clean

\* The bucket a row falls into: the first requested scope whose text holds or is held by
\* the row's; a row without a scope is held by every one. 0 is none.
Bucket(r, targets) ==
    SelectInSeq(targets, LAMBDA t : \/ Within(t, StandardName(r.scope))
                                    \/ Within(StandardName(r.scope), t))

\* stratify_results: the rows of every target, one of each target in turn, then the rows of
\* no bucket. A target that is listed twice has two turns.
Buckets(rows, targets) ==
    [n \in DOMAIN targets |->
        Kept(rows, LAMBDA r : Bucket(r, targets) # 0 /\ targets[Bucket(r, targets)] = targets[n])]

RoundRobin(buckets) ==
    LET turns == UNION {(1 .. Len(buckets[n])) \X {n} : n \in DOMAIN buckets}
        upTo(t, u) == t[1] < u[1] \/ (t[1] = u[1] /\ t[2] <= u[2])
    IN Mapped(InOrder(turns, upTo), LAMBDA t : buckets[t[2]][t[1]])

TargetNames(scopes) == [i \in 1 .. Len(scopes) |-> StandardName(scopes[i])]

Stratify(rows, scopes, max) ==
    IF scopes = <<>> \/ rows = <<>> THEN Take(rows, max)
    ELSE LET targets == TargetNames(scopes)
             others == Kept(rows, LAMBDA r : Bucket(r, targets) = 0)
         IN Take(With(Buckets(rows, targets), RoundRobin) \o others, max)

\* Mutant: the candidates the provider left out are lost.
RankedOnly(rows, answer) ==
    IF answer = <<>> THEN rows ELSE [i \in 1 .. Len(answer) |-> rows[answer[i]]]

\* _execute_external_rerank: the indices the provider answers, best first, then the
\* candidates it left out; an empty answer changes nothing.
ExternalRerank(rows, answer) ==
    IF answer = <<>> THEN rows
    ELSE Mapped(answer, LAMBDA i : rows[i]) \o Picked(rows, DOMAIN rows \ ToSet(answer))

-----------------------------------------------------------------------------
\* rrf_merge. Scores 1 / (k + rank) are scaled by the product of the denominators.
RrfScore(id, groups, k, deepest) ==
    LET scale == FoldSet(LAMBDA r, acc : (k + r) * acc, 1, 1 .. deepest)
        at(g) == {r \in 1 .. Len(groups[g]) : groups[g][r].id = id}
    IN MapThenSumSet(LAMBDA g : MapThenSumSet(LAMBDA r : scale \div (k + r), at(g)),
                     DOMAIN groups)

RrfMerge(groups, k, topK) ==
    LET all == FirstById(FlattenSeq(groups))
        deepest == Max({0} \union {Len(groups[g]) : g \in DOMAIN groups})
        merged == Take(StableSort(all, LAMBDA r : RrfScore(r.id, groups, k, deepest)), topK)
    IN Mapped(merged, LAMBDA r : [r EXCEPT !.space = "rrf"])

\* Mutant: what an earlier source contributed is not looked at.
AddedUnseen(merged, source, limit) == merged \o Take(FirstById(source), limit)

\* fuse_late_results: the quotas of the three sources, then what is left of each, up to k.
Added(merged, source, limit) ==
    With(merged, LAMBDA m : m \o Take(Kept(FirstById(source), LAMBDA r : r.id \notin Ids(m)), limit))

FuseLate(chunks, graph, raptor, k, quota) ==
    LET room(m) == IF k > Len(m) THEN k - Len(m) ELSE 0
        a == Added(<<>>, chunks, quota.chunks)
        b == Added(a, graph, quota.graph)
        c == Added(b, raptor, quota.raptor)
        d == Added(c, chunks, room(c))
        e == Added(d, graph, room(d))
    IN Take(Added(e, raptor, room(e)), k)

\* filter_rows_by_min_score: scores of the rrf space are not comparable and pass.
MinScore(rows, min) == Kept(rows, LAMBDA r : r.space \in {"rrf", "mixed"} \/ r.score >= min)

\* _dedupe_by_content: of rows with the same text the higher score stays, at the end.
FirstByText(rows) ==
    FoldLeft(LAMBDA acc, r :
        LET same == SelectInSeq(acc, LAMBDA a : a.text = r.text)
        IN IF same = 0 THEN Append(acc, r)
           ELSE IF r.score > acc[same].score THEN Append(RemoveAt(acc, same), r)
           ELSE acc, <<>>, rows)
=============================================================================
