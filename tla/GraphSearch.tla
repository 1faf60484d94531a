----------------------------- MODULE GraphSearch -----------------------------
(***************************************************************************)
(* The searches of the tenant's graph that the chat's router makes, with   *)
(* their chains of fallbacks (LocalGraphSearch, GlobalGraphSearch).        *)
(*                                                                         *)
(* A search is made in a world g: what the tables hold and the query asks  *)
(* for, and the calls that raise. g.entities and g.communities are rows    *)
(* with an id, a similarity to the query, and whether they have an         *)
(* embedding that can be compared; g.relations are pairs of entities;      *)
(* g.names are the entities the language model names, g.phrases what is    *)
(* taken from the text of the query without it; g.down are the calls that  *)
(* raise, and g.mute the embedding calls that answer no vector.            *)
(* A search ends with at most one row for the chat, or raises.             *)
(***************************************************************************)
EXTENDS Ranking

CONSTANTS
    GraphScore,    \* the score every graph row is given
    AnchorSim,     \* anchor_similarity_threshold
    HopSim,        \* match_threshold of the multi-hop function
    CommunitySim,  \* threshold of match_knowledge_communities
    TopK           \* communities asked for

Raised == [ok |-> FALSE, rows |-> <<>>]
Fine(rows) == [ok |-> TRUE, rows |-> rows]

\* _build_graph_result: the row names no standard and no tenant.
GraphRow(id, cited) ==
    [id |-> id, scope |-> NoLabel, score |-> GraphScore, boost |-> 1, weight |-> 1,
     text |-> id, penalized |-> FALSE, space |-> "similarity", owned |-> FALSE, via |-> cited]

Up(g, call) == call \notin g.down

\* _to_float_list and _cosine_similarity: rows without an embedding are not scored.
Scored(rows) == StableSort(Kept(rows, LAMBDA r : r.embedded), LAMBDA r : r.sim)

Similar(rows, min) == Kept(Scored(rows), LAMBDA r : r.sim >= min)

-----------------------------------------------------------------------------
\* fetch_one_hop_relations: the relations that touch one of the entities.
Touching(g, ids) == {r \in g.relations : r[1] \in ids \/ r[2] \in ids}

Linked(g, ids) == ids \union UNION {{r[1], r[2]} : r \in Touching(g, ids)}

\* hybrid_multi_hop_search, and search_graph_nav the same way: the similar entities and
\* what is two relations away.
Hops(g) == Linked(g, Linked(g, Ids(Take(Similar(g.entities, HopSim), 12))))

\* search_multi_hop_context: the second function is asked where the first raises or finds
\* nothing. What raises here is caught by the search.
MultiHop(g) ==
    IF Up(g, "vector") /\ "vector" \notin g.mute /\ (Up(g, "nav") \/ Up(g, "legacy"))
    THEN Hops(g) ELSE {}

\* extract_entities_from_query.
Candidates(g) ==
    Take(IF Up(g, "model") /\ g.names # <<>> THEN g.names ELSE g.phrases, 8)

\* _match_exact_anchors of every candidate, failures as nothing.
Exact(g) ==
    LET named(n) == Take(Kept(g.entities, LAMBDA r : r.name = n), 6)
    IN IF Up(g, "exact") THEN FlattenSeq(Mapped(Candidates(g), named)) ELSE <<>>

\* _match_vector_anchors: the function of the database, and where it raises or finds
\* nothing, all entities compared here. A model that embeds nothing ends it.
Nearest(g) ==
    LET near == IF Up(g, "vectors") /\ Up(g, "near") THEN Take(Similar(g.entities, AnchorSim), 8)
                ELSE <<>>
        compared == IF Up(g, "list") /\ Up(g, "vectors again") /\ "vectors again" \notin g.mute
                    THEN Take(Similar(g.entities, AnchorSim), 12) ELSE <<>>
    IN CASE Up(g, "vectors") /\ "vectors" \in g.mute -> <<>>
         [] near # <<>> -> near
         [] OTHER -> compared

\* find_anchor_nodes.
Anchors(g) ==
    LET exact == FirstById(Exact(g))
    IN Take(IF exact # <<>> THEN exact ELSE FirstById(Nearest(g)), 8)

\* LocalGraphSearch.search. Only what is read about the anchors found may raise.
LocalSearch(g) ==
    LET hops == MultiHop(g)
        anchors == Ids(Anchors(g))
    IN CASE hops # {} -> Fine(<<GraphRow("local", hops)>>)
         [] hops = {} /\ anchors = {} -> Fine(<<>>)
         [] OTHER -> IF Up(g, "relations") /\ Up(g, "neighbours")
                     THEN Fine(<<GraphRow("local", Linked(g, anchors))>>) ELSE Raised

-----------------------------------------------------------------------------
\* GlobalGraphSearch.search: the communities near the query, and where the function of the
\* database raises or finds none, the best of the lowest level, however far they are.
GlobalSearch(g) ==
    LET matched == IF Up(g, "matched") THEN Take(Similar(g.communities, CommunitySim), TopK)
                   ELSE <<>>
        winners == Take(Scored(g.communities), TopK)
        Cited(rows) == Ids(rows) \union UNION {rows[i].members : i \in DOMAIN rows}
        Context(rows) == Fine(IF rows = <<>> THEN <<>> ELSE <<GraphRow("global", Cited(rows))>>)
    IN CASE ~Up(g, "vector") -> Raised
         [] Up(g, "vector") /\ "vector" \in g.mute -> Fine(<<>>)
         [] OTHER -> IF matched # <<>> THEN Context(matched)
                     ELSE IF Up(g, "level") THEN Context(winners) ELSE Raised
=============================================================================
