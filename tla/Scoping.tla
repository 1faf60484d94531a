------------------------------ MODULE Scoping ------------------------------
(***************************************************************************)
(* Labels of standards ("ISO 9001:2015") and the filters of a query.       *)
(* A label is a record: std is the number of the standard, sep what the    *)
(* text has between "ISO" and the number, tail what follows the number.    *)
(* A query is what the regular expressions find in its text: the standards *)
(* it names, whether it names clauses, and whether exactly one clause      *)
(* stands near a standard.                                                 *)
(***************************************************************************)
EXTENDS Picking

NoLabel == [std |-> "", sep |-> "", tail |-> ""]
Labels == {NoLabel} \union [std : STRING, sep : STRING, tail : STRING]

\* normalize_scope_name: the text the pattern matches, so without the tail.
StandardName(l) == [l EXCEPT !.tail = ""]

\* scope_key: every separator character becomes a dash, no separator stays none.
ScopeKey(l) == <<l.std, l.sep = "">>

\* The text of label a occurs in the text of label b. No number is taken to be the start of
\* another's, as "ISO 45" would be of "ISO 45001".
Within(a, b) ==
    \/ a = NoLabel
    \/ a.std = b.std /\ a.sep = b.sep /\ a.tail \in {"", b.tail}

\* dict.fromkeys: the first occurrence of every element, in order.
FirstOccurrences(s) == FirstBy(s, LAMBDA x : x)

\* One standard is kept as a single value, several as a list, none as neither.
WithStandards(f, labels) ==
    [f EXCEPT !.list = IF Len(labels) > 1 THEN labels ELSE <<>>,
              !.single = IF Len(labels) = 1 THEN labels[1] ELSE NoLabel]

\* The list with the single value put first unless it is listed already.
AllStandards(f) ==
    LET listed == FirstOccurrences(f.list)
    IN IF f.single = NoLabel \/ Contains(listed, f.single) THEN listed
       ELSE <<f.single>> \o listed

\* validate_retrieval_filters: f.bad stands for a key, value or type it refuses;
\* what is left is normalised, an empty list of standards included.
ValidateFilters(f) == WithStandards(f, AllStandards(f))

\* requested_scopes_from_context, of filters at one level: the list, then the single.
RequestedScopes(f) ==
    FirstOccurrences(f.list \o (IF f.single = NoLabel THEN <<>> ELSE <<f.single>>))

NormalizeStandardFilters(f) == WithStandards(f, AllStandards(f))

\* clause_near_standard: the label is in the query's text and one clause is near.
ClauseNear(q, l) ==
    l # NoLabel /\ q.near /\ \E i \in 1 .. Len(q.standards) : Within(l, q.standards[i])

\* resolve_retrieval_filters: the filters' standards, else those the query names; the
\* clause of the query is a hint only where at most one standard is in play.
ResolveFilters(q, f) ==
    LET context == RequestedScopes(f)
        effective == IF context # <<>> THEN context ELSE q.standards
        scoped == IF effective = <<>> THEN f ELSE WithStandards(f, FirstOccurrences(effective))
        hint == Len(effective) <= 1 /\ ClauseNear(q, scoped.single)
    IN NormalizeStandardFilters([scoped EXCEPT !.clause = @ \/ hint])

\* scope_context_for_subquery: a sub-query that names standards replaces those of the
\* request; one that names clauses keeps a clause filter only for a clause near its standard.
SubqueryFilters(f, q) ==
    LET scoped == IF q.standards = <<>> THEN f ELSE WithStandards(f, q.standards)
    IN IF ~q.clauses THEN scoped
       ELSE [scoped EXCEPT !.clause = ClauseNear(q, scoped.single)]

\* apply_scope_penalty: a row with a scope that no requested scope matches, by key or text.
OutOfScope(l, scopes) ==
    /\ scopes # <<>> /\ l # NoLabel
    /\ \A i \in 1 .. Len(scopes) : ScopeKey(l) # ScopeKey(scopes[i]) /\ ~Within(scopes[i], l)

\* The router, the plan executor and the grounded workflow compare the text only.
OutsideText(l, scopes) ==
    scopes # <<>> /\ l # NoLabel /\ \A i \in 1 .. Len(scopes) : ~Within(scopes[i], l)

\* scope_penalty_ratio >= num / den, of the rows that have a scope.
PenaltyReaches(rows, scopes, num, den) ==
    LET scoped == Kept(rows, LAMBDA r : r.scope # NoLabel)
        outside == Kept(scoped, LAMBDA r : OutsideText(r.scope, scopes))
    IN scoped # <<>> /\ Len(outside) * den >= num * Len(scoped)

\* scope_clause_key: a sub-query is known by its standard and clause, else by its text.
SubqueryKey(q, f) ==
    IF f.single # NoLabel /\ f.clause THEN <<StandardName(f.single), "clause">>
    ELSE <<q.text, "query">>

\* _resolve_scope: clauses without a standard need clarification.
NeedsClarification(q) == q.clauses /\ q.standards = <<>>

\* _filter_results_by_scope; a row without a scope matches no requested one.
InScopeRows(rows, scopes) ==
    IF scopes = <<>> THEN rows
    ELSE Kept(rows, LAMBDA r : r.scope # NoLabel /\ ~OutsideText(r.scope, scopes))
=============================================================================
