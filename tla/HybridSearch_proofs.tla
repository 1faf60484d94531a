------------------------- MODULE HybridSearch_proofs -------------------------
(***************************************************************************)
(* What a query through run_hybrid guarantees, whichever calls fail, in    *)
(* whatever order they return and whatever is deleted meanwhile.           *)
(***************************************************************************)
EXTENDS HybridSearch, Ranking_proofs

-----------------------------------------------------------------------------
(* Filters.                                                                *)

LEMMA FirstOccurrencesAre ==
    ASSUME NEW L, NEW s \in Seq(L)
    PROVE  FirstOccurrences(s) \in Seq(L)
<1> DEFINE at == {i \in DOMAIN s : \A j \in 1 .. (i - 1) : s[j] # s[i]}
<1>1. FirstOccurrences(s) = Picked(s, at)
  BY DEF FirstOccurrences, FirstBy, With
<1>2. at \in SUBSET DOMAIN s
  OBVIOUS
<1> HIDE DEF at
<1> QED BY <1>1, <1>2, PickedSome, SomeOfIs

LEMMA NoLabelIs == NoLabel \in Labels
BY DEF Labels

LEMMA WithStandardsIs ==
    ASSUME NEW f \in Requested, NEW labels \in Seq(Labels)
    PROVE  WithStandards(f, labels) \in Requested
<1>1. <<>> \in Seq(Labels) /\ NoLabel \in Labels
  BY NoLabelIs
<1>2. Len(labels) = 1 => labels[1] \in Labels
  OBVIOUS
<1> DEFINE l == IF Len(labels) > 1 THEN labels ELSE <<>>
           x == IF Len(labels) = 1 THEN labels[1] ELSE NoLabel
<1>3. l \in Seq(Labels) /\ x \in Labels
  BY <1>1, <1>2
<1>4. WithStandards(f, labels) = [f EXCEPT !.list = l, !.single = x]
  BY DEF WithStandards
<1> HIDE DEF l, x
<1> QED BY <1>3, <1>4 DEF Requested

LEMMA AllStandardsAre ==
    ASSUME NEW f \in Requested
    PROVE  AllStandards(f) \in Seq(Labels)
<1>1. f.list \in Seq(Labels) /\ f.single \in Labels
  BY DEF Requested
<1>2. FirstOccurrences(f.list) \in Seq(Labels)
  BY <1>1, FirstOccurrencesAre
<1>3. <<f.single>> \in Seq(Labels)
  BY <1>1
<1>4. <<f.single>> \o FirstOccurrences(f.list) \in Seq(Labels)
  BY <1>2, <1>3, ConcatIs
<1> QED BY <1>2, <1>4 DEF AllStandards

LEMMA RequestedScopesAre ==
    ASSUME NEW f \in Requested
    PROVE  RequestedScopes(f) \in Seq(Labels)
<1> DEFINE one == IF f.single = NoLabel THEN <<>> ELSE <<f.single>>
<1>1. f.list \in Seq(Labels) /\ f.single \in Labels
  BY DEF Requested
<1>2. one \in Seq(Labels)
  BY <1>1
<1> HIDE DEF one
<1>3. f.list \o one \in Seq(Labels)
  BY <1>1, <1>2, ConcatIs
<1>4. RequestedScopes(f) = FirstOccurrences(f.list \o one)
  BY DEF RequestedScopes, one
<1> QED BY <1>3, <1>4, FirstOccurrencesAre

LEMMA ResolveFiltersIs ==
    ASSUME NEW f \in Requested, NEW q, q.standards \in Seq(Labels)
    PROVE  ResolveFilters(q, f) \in Requested
<1> DEFINE context == RequestedScopes(f)
           effective == IF context # <<>> THEN context ELSE q.standards
           scoped == IF effective = <<>> THEN f ELSE WithStandards(f, FirstOccurrences(effective))
           hint == Len(effective) <= 1 /\ ClauseNear(q, scoped.single)
           hinted == [scoped EXCEPT !.clause = @ \/ hint]
<1>1. effective \in Seq(Labels)
  BY RequestedScopesAre
<1> HIDE DEF effective
<1>2. scoped \in Requested
  BY <1>1, FirstOccurrencesAre, WithStandardsIs
<1> HIDE DEF scoped
<1>3. (scoped.clause \/ hint) \in BOOLEAN
  OBVIOUS
<1>4. hinted \in Requested
  <2> DEFINE c == scoped.clause \/ hint
  <2>1. c \in BOOLEAN
    OBVIOUS
  <2>2. hinted = [scoped EXCEPT !.clause = c]
    OBVIOUS
  <2> HIDE DEF c, hinted
  <2> QED BY <1>2, <2>1, <2>2 DEF Requested
<1>5. ResolveFilters(q, f) = WithStandards(hinted, AllStandards(hinted))
  BY DEF ResolveFilters, NormalizeStandardFilters, effective, scoped
<1> HIDE DEF hinted
<1> QED BY <1>4, <1>5, AllStandardsAre, WithStandardsIs

LEMMA ValidateFiltersIs ==
    ASSUME NEW f \in Requested
    PROVE  ValidateFilters(f) \in Requested
BY AllStandardsAre, WithStandardsIs DEF ValidateFilters

-----------------------------------------------------------------------------
(* The rows of every source.                                               *)

Texts == {TextOf[c] : c \in Chunks} \cup Entities
Rows == RowSet(Catalogue, Texts, SUBSET Entities)
RpcCalls == [status : {"out", "ok", "failed"}, rows : Seq(Rows)]

LEMMA RowIs ==
    ASSUME NEW c \in Chunks
    PROVE  Row(c) \in Rows /\ Row(c).id = ChunkId(c)
<1>1. /\ ChunkId(c) \in Catalogue /\ ScopeOf[c] \in Labels /\ ScoreOf[c] \in Int
      /\ BoostOf[c] \in Int /\ WeightOf[c] \in Int /\ TextOf[c] \in Texts /\ (c \notin Unowned) \in BOOLEAN
      /\ {} \in SUBSET Entities
  BY StoreAssumption DEF Catalogue, Texts
<1> DEFINE b == c \notin Unowned
<1>2. b \in BOOLEAN
  OBVIOUS
<1>3. Row(c) = [id |-> ChunkId(c), scope |-> ScopeOf[c], score |-> ScoreOf[c],
                boost |-> BoostOf[c], weight |-> WeightOf[c], text |-> TextOf[c], penalized |-> FALSE,
                space |-> "similarity", owned |-> b, via |-> {}]
  BY DEF Row
<1> HIDE DEF b
<1> QED BY <1>1, <1>2, <1>3 DEF Rows, RowSet

LEMMA RpcRowsAre ==
    ASSUME stored \in SUBSET Chunks, NEW scope, NEW count, NEW found \in RpcRows(scope, count)
    PROVE  found \in Seq(Rows)
<1>1. PICK S \in SUBSET Matching(scope) : \E t \in SetToSeqs(S) : found = Mapped(t, Row)
  BY DEF RpcRows
<1>2. PICK t \in SetToSeqs(S) : found = Mapped(t, Row)
  BY <1>1
<1>3. S \in SUBSET Chunks
  BY DEF Matching
<1>4. IsFiniteSet(S)
  BY <1>3, StoreAssumption, FS_Subset
<1>5. t \in Seq(S)
  BY <1>4, SeqsOf
<1> DEFINE list == [i \in 1 .. Len(t) |-> Row(t[i])]
<1>6. found = Listed(list)
  BY <1>2 DEF Mapped, With
<1>7. \A i \in 1 .. Len(t) : t[i] \in Chunks
  BY <1>3, <1>5
<1>8. \A i \in 1 .. Len(t) : list[i] \in Rows
  BY <1>7, RowIs
<1>9. list = [i \in 1 .. Len(t) |-> list[i]]
  OBVIOUS
<1> HIDE DEF list
<1> QED BY <1>5, <1>6, <1>8, <1>9, ListIs

LEMMA UngroundedIs ==
    ASSUME entities \in Seq(Entities), NEW grounded
    PROVE  /\ Ungrounded(grounded) \in Seq(Rows)
           /\ \A i \in 1 .. Len(entities) : entities[i] \notin grounded =>
                 \E j \in 1 .. Len(Ungrounded(grounded)) : entities[i] \in Ungrounded(grounded)[j].via
<1> DEFINE at == {i \in DOMAIN entities : entities[i] \notin grounded}
           left == Picked(entities, at)
           own(e) == [id |-> <<"graph", e>>, scope |-> NoLabel, score |-> Similarity[e], boost |-> 1,
                      weight |-> 1, text |-> e, penalized |-> FALSE, space |-> "similarity",
                      owned |-> TRUE, via |-> {e}]
           list == [i \in 1 .. Len(left) |-> own(left[i])]
           result == Ungrounded(grounded)
<1>1. result = Listed(list)
  <2>1. Kept(entities, LAMBDA e : e \notin grounded) = left
    BY DEF Kept, With
  <2> HIDE DEF left
  <2> QED BY <2>1 DEF Ungrounded, Mapped, With
<1>2. at \in SUBSET DOMAIN entities
  OBVIOUS
<1>3. SomeOf(left, entities, at)
  <2> HIDE DEF at
  <2> QED BY <1>2, PickedSome
<1> HIDE DEF left
<1>4. left \in Seq(Entities) /\ Len(left) = Cardinality(at)
  BY <1>2, <1>3, SomeOfIs
<1>5. ASSUME NEW e \in Entities PROVE own(e) \in Rows /\ own(e).via = {e}
  <2>1. <<"graph", e>> \in Catalogue
    BY DEF Catalogue
  <2>2. Similarity[e] \in Int /\ e \in Texts /\ NoLabel \in Labels /\ {e} \in SUBSET Entities
    BY StoreAssumption, NoLabelIs DEF Texts
  <2> QED BY <2>1, <2>2 DEF Rows, RowSet
<1>6. \A i \in 1 .. Len(left) : list[i] \in Rows /\ list[i].via = {left[i]}
  <2>1. \A i \in 1 .. Len(left) : left[i] \in Entities
    BY <1>4
  <2> HIDE DEF own
  <2> QED BY <1>5, <2>1
<1>7. list = [i \in 1 .. Len(left) |-> list[i]]
  OBVIOUS
<1> HIDE DEF list, result
<1>8. result = list /\ list \in Seq(Rows) /\ Len(list) = Len(left)
  BY <1>1, <1>4, <1>6, <1>7, ListIs
<1>9. ASSUME NEW i \in 1 .. Len(entities), entities[i] \notin grounded
      PROVE  \E j \in 1 .. Len(result) : entities[i] \in result[j].via
  <2>1. i \in at
    BY <1>9
  <2> HIDE DEF at
  <2>2. PICK order \in [1 .. Cardinality(at) -> at] :
          /\ \A x \in at : \E k \in 1 .. Cardinality(at) : order[k] = x
          /\ left = [k \in 1 .. Cardinality(at) |-> entities[order[k]]]
    BY <1>3 DEF SomeOf
  <2>3. PICK k \in 1 .. Cardinality(at) : order[k] = i
    BY <2>1, <2>2
  <2>4. k \in 1 .. Len(left) /\ left[k] = entities[i]
    BY <1>4, <2>2, <2>3
  <2> QED BY <1>6, <1>8, <2>4
<1> QED BY <1>8, <1>9 DEF result

(* The links of the graph are of the provenance of the entities found. *)
LinksOK == links \in SUBSET {l \in Chunks \X Entities : l[1] \in Provenance[l[2]]}

LEMMA LinksFinite ==
    ASSUME LinksOK, NEW c
    PROVE  LET via == {l[2] : l \in {m \in links : m[1] = c}}
           IN  /\ IsFiniteSet(via) /\ via \in SUBSET Entities
               /\ IsFiniteSet({Similarity[e] : e \in via}) /\ {Similarity[e] : e \in via} \in SUBSET Int
<1> DEFINE via == {l[2] : l \in {m \in links : m[1] = c}}
           sims == {Similarity[e] : e \in via}
           f == [e \in via |-> Similarity[e]]
<1>1. via \in SUBSET Entities
  BY DEF LinksOK
<1> HIDE DEF via
<1>2. IsFiniteSet(via)
  BY <1>1, StoreAssumption, FS_Subset
<1>3. sims \in SUBSET Int
  BY <1>1, StoreAssumption
<1>4. f \in Surjection(via, sims)
  BY DEF Surjection
<1> HIDE DEF f, sims
<1>5. IsFiniteSet(sims)
  BY <1>2, <1>4, FS_Surjection
<1> QED BY <1>1, <1>2, <1>3, <1>5 DEF via, sims

LEMMA GroundedIs ==
    ASSUME LinksOK, NEW l \in links
    PROVE  Grounded(l[1]) \in Rows /\ l[2] \in Grounded(l[1]).via
<1> DEFINE c == l[1]
           via == {k[2] : k \in {m \in links : m[1] = c}}
           sims == {Similarity[e] : e \in via}
<1>1. c \in Chunks /\ l[2] \in via
  BY DEF LinksOK
<1>2. via \in SUBSET Entities /\ IsFiniteSet(sims) /\ sims \in SUBSET Int
  BY LinksFinite
<1>3. Grounded(c) = [Row(c) EXCEPT !.score = Max(sims), !.via = via]
  BY DEF Grounded
<1>4. sims # {}
  BY <1>1
<1> HIDE DEF c, via, sims
<1>5. Max(sims) \in Int
  BY <1>2, <1>4, LeastAndGreatest
<1> DEFINE x == Max(sims)
           r == Row(c)
<1>6. x \in Int /\ r \in Rows
  BY <1>1, <1>5, RowIs
<1> HIDE DEF x, r
<1>7. [r EXCEPT !.score = x, !.via = via] \in Rows /\ [r EXCEPT !.score = x, !.via = via].via = via
  BY <1>2, <1>6 DEF Rows, RowSet
<1> QED BY <1>1, <1>3, <1>7 DEF x, r, c

LEMMA GraphRowsAre ==
    ASSUME LinksOK, stored \in SUBSET Chunks, entities \in Seq(Entities),
           NEW present \in SetToSeqs(stored \intersect {l[1] : l \in links})
    PROVE  /\ GraphRows(present) \in Seq(Rows)
           /\ \A i \in 1 .. Len(entities) :
                 \/ \E j \in 1 .. Len(GraphRows(present)) : entities[i] \in GraphRows(present)[j].via
                 \/ Provenance[entities[i]] \ stored # {}
<1> DEFINE S == stored \intersect {l[1] : l \in links}
           list == [i \in 1 .. Len(present) |-> Grounded(present[i])]
           linked == {l[2] : l \in links}
           rest == Ungrounded(linked)
           result == GraphRows(present)
<1>1. S \in SUBSET Chunks
  OBVIOUS
<1>2. IsFiniteSet(S)
  <2> HIDE DEF S
  <2> QED BY <1>1, StoreAssumption, FS_Subset
<1>3. present \in Seq(S) /\ \A x \in S : \E i \in 1 .. Len(present) : present[i] = x
  <2>1. present \in SetToSeqs(S)
    OBVIOUS
  <2> HIDE DEF S
  <2> QED BY <1>2, <2>1, SeqsOf
<1>4. result = Listed(list) \o rest
  BY DEF GraphRows, Mapped, With
<1>5. \A c \in S : \E l \in links : l[1] = c
  OBVIOUS
<1>6. \A i \in 1 .. Len(present) : list[i] \in Rows
  <2>1. ASSUME NEW i \in 1 .. Len(present) PROVE list[i] \in Rows
    <3>1. PICK l \in links : l[1] = present[i]
      BY <1>3, <1>5
    <3> QED BY <3>1, GroundedIs
  <2> QED BY <2>1
<1>7. list = [i \in 1 .. Len(present) |-> list[i]]
  OBVIOUS
<1> HIDE DEF S, rest, result
<1>8. Listed(list) = list /\ list \in Seq(Rows) /\ Len(list) = Len(present)
  <2> HIDE DEF list
  <2>1. Len(present) \in Nat
    BY <1>3
  <2>2. list \in [1 .. Len(present) -> Rows]
    BY <1>6, <1>7
  <2> QED BY <1>7, <2>1, <2>2, ListedIs
<1>9. rest \in Seq(Rows)
  BY UngroundedIs DEF rest
<1>10. /\ result \in Seq(Rows) /\ Len(result) = Len(list) + Len(rest)
       /\ \A k \in 1 .. Len(list) : result[k] = list[k]
  <2> HIDE DEF list
  <2>1. result \in Seq(Rows) /\ Len(result) = Len(list) + Len(rest)
    BY <1>4, <1>8, <1>9, ConcatIs
  <2>2. \A k \in 1 .. Len(list) : result[k] = list[k]
    BY <1>4, <1>8, <1>9, ConcatIs
  <2> QED BY <2>1, <2>2
<1>11. \A k \in 1 .. Len(rest) : result[Len(list) + k] = rest[k]
  <2> HIDE DEF list
  <2> QED BY <1>4, <1>8, <1>9, ConcatIs
<1>12. Len(list) \in Nat /\ Len(rest) \in Nat
  BY <1>8, <1>9
<1>13. ASSUME NEW i \in 1 .. Len(entities), ~(Provenance[entities[i]] \ stored # {})
       PROVE  \E j \in 1 .. Len(result) : entities[i] \in result[j].via
  <2> DEFINE e == entities[i]
  <2>1. CASE e \in linked
    <3>1. PICK l \in links : l[2] = e
      BY <2>1
    <3>2. l[1] \in Provenance[e]
      BY <3>1 DEF LinksOK
    <3>3. l[1] \in S
      BY <1>13, <3>1, <3>2 DEF S
    <3>4. PICK k \in 1 .. Len(present) : present[k] = l[1]
      BY <1>3, <3>3
    <3>5. e \in list[k].via
      BY <3>1, <3>4, GroundedIs
    <3>6. k \in 1 .. Len(result) /\ result[k] = list[k]
      <4> HIDE DEF list
      <4> QED BY <1>8, <1>10, <1>12, <3>4
    <3> QED BY <3>5, <3>6
  <2>2. CASE e \notin linked
    <3>1. PICK k \in 1 .. Len(rest) : e \in rest[k].via
      BY <2>2, UngroundedIs DEF rest
    <3>2. Len(list) + k \in 1 .. Len(result)
      <4> HIDE DEF list
      <4> QED BY <1>10, <1>12, <3>1
    <3> QED BY <1>11, <3>1, <3>2
  <2> QED BY <2>1, <2>2
<1> QED BY <1>10, <1>13 DEF result

-----------------------------------------------------------------------------
(* The types of the state.                                                 *)

Over == {"answered", "failed"}
Engine == {"search", "navigate", "resolve", "hydrate"}
Stages == {"validate", "embed", "direct", "rank"} \cup Engine \cup Over

QueryOK ==
    /\ stage \in Stages /\ filters \in Requested /\ literal \in BOOLEAN
    /\ calls \in Seq(RpcCalls) /\ entities \in Seq(Entities) /\ LinksOK
    /\ rows \in Seq(Rows) /\ pool \in Seq(Rows) /\ answer \in Seq(Rows)

RequestOK ==
    request \in [query : Queries, filters : FilterSets, rerank : BOOLEAN,
                 strict : BOOLEAN, mode : {"atomic", "hybrid"}]

TypeOK == RequestOK /\ QueryOK /\ graph \in Seq(Rows) /\ stored \in SUBSET Chunks

-----------------------------------------------------------------------------
(* How a step ends a query, or does not.                                   *)

Outcome ==
    \/ stage' \notin Over /\ answer' = answer
    \/ stage' = "failed" /\ answer' = answer
    \/ stage' = "answered" /\ answer' \in Seq(Rows) /\ Len(answer') <= K

LEMMA RespondIs ==
    ASSUME QueryOK, NEW result \in Seq(Rows), NEW from \in Seq(Rows), Len(result) <= K,
           Respond(result, from)
    PROVE  /\ Outcome /\ stage' \in Over
           /\ filters' = filters /\ literal' = literal /\ calls' = calls
           /\ entities' = entities /\ links' = links
           /\ pool' = from /\ answer' \in Seq(Rows)
           /\ stage' = "answered" => answer' = result
BY DEF Respond, Outcome, Over, QueryOK

LEMMA ContinueIs ==
    ASSUME QueryOK, NEW found \in Seq(Rows), NEW after \in BOOLEAN, Continue(found, after)
    PROVE  /\ QueryOK' /\ Outcome
           /\ entities' = entities \/ entities' = <<>>
           /\ stage' \notin Engine
           /\ stage' = "answered" /\ request.rerank => answer' = <<>> /\ rows' = <<>>
<1>1. rows' = found
  BY DEF Continue
<1>2. \/ /\ stage' \in {"direct", "rank"}
         /\ UNCHANGED <<filters, literal, calls, entities, links, pool, answer>>
      \/ Restart
      \/ Respond(Take(found, K), found) /\ ~(found # <<>> /\ request.rerank)
  BY DEF Continue
<1>3. CASE /\ stage' \in {"direct", "rank"}
           /\ UNCHANGED <<filters, literal, calls, entities, links, pool, answer>>
  <2>1. LinksOK'
    BY <1>3 DEF QueryOK, LinksOK
  <2>2. stage' \in Stages /\ stage' \notin Engine /\ stage' \notin Over
    BY <1>3 DEF Stages, Engine, Over
  <2>3. QueryOK'
    BY <1>1, <1>3, <2>1, <2>2 DEF QueryOK
  <2> QED BY <1>3, <2>2, <2>3 DEF Outcome, Over
<1>4. CASE Restart
  <2>1. LinksOK'
    BY <1>4 DEF Restart, LinksOK
  <2>2. [filters EXCEPT !.clause = FALSE] \in Requested
    BY DEF QueryOK, Requested
  <2>3. <<>> \in Seq(RpcCalls) /\ <<>> \in Seq(Entities)
    OBVIOUS
  <2>4. stage' \in Stages /\ stage' \notin Engine /\ stage' \notin Over
    BY <1>4 DEF Restart, Stages, Engine, Over
  <2>5. QueryOK'
    BY <1>1, <1>4, <2>1, <2>2, <2>3, <2>4 DEF QueryOK, Restart
  <2> QED BY <1>4, <2>4, <2>5 DEF Outcome, Over, Restart
<1>5. CASE Respond(Take(found, K), found) /\ ~(found # <<>> /\ request.rerank)
  <2> DEFINE result == Take(found, K)
  <2>1. K \in Nat
    BY CutAssumption
  <2>2. result \in Seq(Rows)
    BY <2>1, TakeIs
  <2>3. Len(result) = IF K < Len(found) THEN K ELSE Len(found)
    BY <2>1, TakeIs
  <2>4. Respond(result, found)
    BY <1>5
  <2> HIDE DEF result
  <2>5. Len(result) <= K
    <3> DEFINE n == Len(found)
    <3>1. n \in Nat
      OBVIOUS
    <3> HIDE DEF n
    <3> QED BY <2>1, <2>3, <3>1 DEF n
  <2>6. /\ Outcome /\ stage' \in Over
        /\ filters' = filters /\ literal' = literal /\ calls' = calls
        /\ entities' = entities /\ links' = links
        /\ pool' = found /\ answer' \in Seq(Rows)
        /\ stage' = "answered" => answer' = result
    BY <2>2, <2>4, <2>5, RespondIs
  <2>7. LinksOK'
    BY <2>6 DEF QueryOK, LinksOK
  <2>8. stage' \in Stages /\ stage' \notin Engine
    BY <2>6 DEF Stages, Engine, Over
  <2>9. QueryOK'
    BY <1>1, <2>6, <2>7, <2>8 DEF QueryOK
  <2>10. ASSUME found = <<>> PROVE result = <<>>
    <3>1. Len(found) = 0
      BY <2>10
    <3>2. Len(result) = 0
      BY <2>1, <2>3, <3>1, CutAssumption
    <3> QED BY <2>2, <3>2
  <2> QED BY <1>1, <1>5, <2>6, <2>8, <2>9, <2>10
<1> QED BY <1>2, <1>3, <1>4, <1>5

LEMMA EngineRaisesIs ==
    ASSUME QueryOK, EngineRaises
    PROVE  /\ QueryOK' /\ Outcome
           /\ entities' = entities \/ entities' = <<>>
           /\ stage' \notin Engine
           /\ stage' = "answered" /\ request.rerank => answer' = <<>> /\ rows' = <<>>
<1>1. CASE Continue(<<>>, TRUE)
  <2>1. <<>> \in Seq(Rows)
    OBVIOUS
  <2> QED BY <1>1, <2>1, ContinueIs
<1>2. CASE /\ stage' = "failed"
           /\ UNCHANGED <<filters, literal, calls, entities, links, rows, pool, answer>>
  BY <1>2 DEF QueryOK, LinksOK, Outcome, Stages, Engine, Over
<1> QED BY <1>1, <1>2 DEF EngineRaises

(* What the engine returns: rows of both sources, stamped, freed of structural ones, cut. *)
LEMMA EngineReturnsIs ==
    ASSUME QueryOK, NEW fromGraph \in Seq(Rows), EngineReturns(fromGraph)
    PROVE  /\ QueryOK' /\ Outcome /\ graph' = fromGraph
           /\ entities' = entities \/ entities' = <<>>
           /\ stage' \notin Engine
           /\ stage' = "answered" /\ request.rerank => answer' = <<>> /\ rows' = <<>>
<1> DEFINE fetched == [i \in DOMAIN calls |-> calls[i].rows]
           fused == FlattenSeq(fetched)
           both == fused \o fromGraph
           stamp(r) == [r EXCEPT !.owned = TRUE]
           list == [i \in 1 .. Len(both) |-> stamp(both[i])]
           structural == {ChunkId(c) : c \in Structural}
           at == {i \in DOMAIN list : list[i].id \notin structural}
           eligible == Picked(list, at)
           found == Take(eligible, Limit)
<1>1. fetched \in Seq(Seq(Rows))
  <2>1. calls \in [1 .. Len(calls) -> RpcCalls] /\ Len(calls) \in Nat
    BY DEF QueryOK
  <2>2. \A i \in 1 .. Len(calls) : calls[i].rows \in Seq(Rows)
    BY <2>1 DEF RpcCalls
  <2>3. fetched \in [1 .. Len(calls) -> Seq(Rows)]
    BY <2>1, <2>2
  <2> QED BY <2>1, <2>3
<1> HIDE DEF fetched
<1>2. fused \in Seq(Rows)
  BY <1>1, FlattenIs
<1> HIDE DEF fused
<1>3. both \in Seq(Rows)
  BY <1>2, ConcatIs
<1>4. \A i \in 1 .. Len(both) : list[i] \in Rows
  <2>1. \A i \in 1 .. Len(both) : both[i] \in Rows
    BY <1>3
  <2>2. \A r \in Rows : stamp(r) \in Rows
    BY DEF Rows, RowSet
  <2> HIDE DEF both, stamp
  <2> QED BY <2>1, <2>2
<1>5. Stamped(both) = Listed(list)
  BY DEF Stamped, Mapped, With
<1>6. list = [i \in 1 .. Len(both) |-> list[i]]
  OBVIOUS
<1> HIDE DEF both, list
<1>7. Stamped(both) = list /\ list \in Seq(Rows)
  BY <1>3, <1>4, <1>5, <1>6, ListIs
<1>8. Eligible(list) = eligible
  BY DEF Eligible, Kept, With
<1>9. at \in SUBSET DOMAIN list
  OBVIOUS
<1> HIDE DEF at
<1>10. eligible \in Seq(Rows)
  BY <1>7, <1>9, PickedSome, KeptNoMore
<1>11. Limit \in Nat
  BY CutAssumption DEF Limit
<1> HIDE DEF eligible
<1>12. found \in Seq(Rows)
  BY <1>10, <1>11, TakeIs
<1>13. graph' = fromGraph /\ Continue(found, TRUE)
  BY <1>7, <1>8 DEF EngineReturns, both, fused, fetched
<1> HIDE DEF found
<1> QED BY <1>12, <1>13, ContinueIs

-----------------------------------------------------------------------------
(* The candidates of the reranking, its answer, and the final cut.         *)

LEMMA NoMoreThrough ==
    ASSUME NEW s \in Seq(Rows), NEW t \in Seq(Rows), NEW u \in Seq(Rows), NoMore(u, t), NoMore(t, s)
    PROVE  NoMore(u, s)
<1>1. Len(s) \in Nat /\ Len(t) \in Nat /\ Len(u) \in Nat
  OBVIOUS
<1> QED BY <1>1 DEF NoMore

LEMMA CandidatesNoMore ==
    ASSUME QueryOK
    PROVE  Candidates \in Seq(Rows) /\ NoMore(Candidates, rows)
<1> DEFINE scopes == RequestedScopes(filters)
           grave == Gravity(rows, MinGravity, HeadingFloor, GravityLimit)
           weighed == Penalize(grave, scopes)
           strict == IF request.strict /\ scopes # <<>> THEN Strict(weighed) ELSE weighed
           spread == Stratify(strict, scopes, Len(strict))
<1>1. rows \in Seq(Rows) /\ scopes \in Seq(Labels)
  BY RequestedScopesAre DEF QueryOK
<1> HIDE DEF scopes
<1>2. grave \in Seq(Rows) /\ NoMore(grave, rows)
  BY <1>1, CutAssumption, GravityNoMore DEF Rows
<1> HIDE DEF grave
<1>3. weighed \in Seq(Rows) /\ NoMore(weighed, grave)
  BY <1>2, PenalizeNoMore DEF Rows
<1> HIDE DEF weighed
<1>4. strict \in Seq(Rows) /\ NoMore(strict, weighed)
  <2>1. NoMore(weighed, weighed)
    <3>1. Len(weighed) \in Nat
      BY <1>3
    <3> QED BY <3>1 DEF NoMore
  <2>2. Strict(weighed) \in Seq(Rows) /\ NoMore(Strict(weighed), weighed)
    BY <1>3, StrictNoMore
  <2> QED BY <1>3, <2>1, <2>2
<1> HIDE DEF strict
<1>5. Len(strict) \in Nat
  BY <1>4
<1>6. /\ spread \in Seq(Rows) /\ Len(spread) <= Len(strict)
      /\ \A k \in 1 .. Len(spread) : \E i \in 1 .. Len(strict) : spread[k] = strict[i]
  BY <1>1, <1>4, <1>5, StratifyIs
<1>7. NoMore(spread, strict)
  <2> HIDE DEF spread
  <2> QED BY <1>4, <1>6, NoMoreOf
<1>8. NoMore(strict, rows)
  BY <1>1, <1>2, <1>3, <1>4, NoMoreThrough
<1>9. NoMore(spread, rows)
  <2> HIDE DEF spread
  <2> QED BY <1>1, <1>4, <1>6, <1>7, <1>8, NoMoreThrough
<1>10. Candidates = IF Len(scopes) > 1 THEN spread ELSE strict
  BY DEF Candidates, scopes, grave, weighed, strict
<1> HIDE DEF spread
<1> QED BY <1>4, <1>6, <1>8, <1>9, <1>10

(* At most K rows; and all of them where they fit, unless a standard has two turns. *)
LEMMA FinalCutIs ==
    ASSUME QueryOK, NEW from \in Seq(Rows)
    PROVE  /\ FinalCut(from) \in Seq(Rows) /\ Len(FinalCut(from)) <= K
           /\ IsInjective(Targeted) /\ Len(from) <= K => Ids(from) \subseteq Ids(FinalCut(from))
<1> DEFINE scopes == RequestedScopes(filters)
           cut == FinalCut(from)
<1>1. scopes \in Seq(Labels) /\ K \in Nat /\ Len(from) \in Nat
  BY RequestedScopesAre, CutAssumption DEF QueryOK
<1>2. cut = IF Len(scopes) > 1 THEN Stratify(from, scopes, K) ELSE Take(from, K)
  BY DEF FinalCut
<1>3. IsInjective(Targeted) <=> IsInjective(TargetNames(scopes))
  BY DEF Targeted
<1> HIDE DEF scopes, cut
<1>4. CASE Len(scopes) > 1
  <2> DEFINE s == Stratify(from, scopes, K)
  <2>1. s \in Seq(Rows) /\ Len(s) <= K
    BY <1>1, StratifyIs
  <2>2. ASSUME IsInjective(TargetNames(scopes)), Len(from) <= K, NEW i \in 1 .. Len(from)
        PROVE  \E k \in 1 .. Len(s) : s[k] = from[i]
    BY <1>1, <2>2, StratifyIs
  <2>3. cut = s
    BY <1>2, <1>4
  <2> HIDE DEF s
  <2>4. ASSUME IsInjective(TargetNames(scopes)), Len(from) <= K PROVE Ids(from) \subseteq Ids(s)
    <3>1. \A i \in 1 .. Len(from) : \E k \in 1 .. Len(s) : s[k] = from[i]
      BY <2>2, <2>4
    <3> QED BY <3>1 DEF Ids
  <2> QED BY <1>3, <2>1, <2>3, <2>4 DEF cut
<1>5. CASE ~(Len(scopes) > 1)
  <2> DEFINE s == Take(from, K)
  <2>1. s \in Seq(Rows)
    BY <1>1, TakeIs
  <2>2. Len(s) = IF K < Len(from) THEN K ELSE Len(from)
    BY <1>1, TakeIs
  <2>3. Len(from) <= K => s = from
    BY <1>1, TakeIs
  <2>4. cut = s
    BY <1>2, <1>5
  <2> HIDE DEF s
  <2>5. Len(s) <= K
    BY <1>1, <2>2
  <2> QED BY <2>1, <2>3, <2>4, <2>5 DEF cut
<1> QED BY <1>4, <1>5

(* A ranking by the provider keeps every candidate, whatever it leaves out. *)
LEMMA RankedIs ==
    ASSUME NEW from \in Seq(Rows), NEW r \in Rankings(Len(from))
    PROVE  /\ ExternalRerank(from, r) \in Seq(Rows)
           /\ Len(ExternalRerank(from, r)) = Len(from)
           /\ Ids(from) \subseteq Ids(ExternalRerank(from, r))
<1> DEFINE m == Len(from)
           ranked == ExternalRerank(from, r)
<1> HIDE DEF ranked
<1>1. m \in Nat
  OBVIOUS
<1>2. PICK S \in SUBSET (1 .. m) : r \in SetToSeqs(S)
  BY DEF Rankings
<1>3. IsFiniteSet(S)
  <2>1. IsFiniteSet(1 .. m)
    BY <1>1, UpTo
  <2> QED BY <2>1, FS_Subset
<1>4. r \in Seq(S) /\ \A k, l \in 1 .. Len(r) : k # l => r[k] # r[l]
  BY <1>2, <1>3, SeqsOf
<1>5. r \in [1 .. Len(r) -> 1 .. m] /\ Len(r) \in Nat
  <2>1. r \in [1 .. Len(r) -> S] /\ Len(r) \in Nat
    BY <1>4
  <2> QED BY <2>1
<1>6. /\ ranked \in Seq(Rows) /\ Len(ranked) = Len(from)
      /\ \A i \in 1 .. Len(from) : \E k \in 1 .. Len(from) : ranked[k] = from[i]
  <2> DEFINE n == Len(r)
  <2>1. n \in Nat /\ r \in [1 .. n -> 1 .. Len(from)] /\ \A k, l \in 1 .. n : k # l => r[k] # r[l]
    BY <1>4, <1>5
  <2> HIDE DEF n
  <2> QED BY <2>1, ExternalRerankIs DEF ranked
<1>7. Ids(from) \subseteq Ids(ranked)
  BY <1>6 DEF Ids
<1> QED BY <1>6, <1>7 DEF ranked

-----------------------------------------------------------------------------
(* Every step keeps the types and ends the query, if it does, with rows of the catalogue. *)

(* An answer that no ranking made is the empty answer to a query without rows. *)
Unranked == stage' = "answered" /\ request.rerank => answer' = <<>> /\ rows' = <<>>

LEMMA ValidateKeeps ==
    ASSUME TypeOK, Validate
    PROVE  TypeOK' /\ Outcome /\ Unranked
<1>1. request.filters \in Requested /\ request.query.standards \in Seq(Labels)
  BY RequestAssumption DEF TypeOK, RequestOK
<1>2. ResolveFilters(request.query, ValidateFilters(request.filters)) \in Requested
  BY <1>1, ValidateFiltersIs, ResolveFiltersIs
<1>3. stage' \in {"embed", "failed"} /\ filters' \in Requested /\ answer' = answer
  BY <1>2 DEF Validate, TypeOK, QueryOK
<1>4. RequestOK' /\ LinksOK'
  BY DEF Validate, TypeOK, QueryOK, RequestOK, LinksOK
<1>5. QueryOK'
  BY <1>3, <1>4 DEF Validate, TypeOK, QueryOK, Stages, Over
<1> QED BY <1>3, <1>4, <1>5 DEF Validate, TypeOK, Outcome, Over, Unranked

LEMMA EmbedKeeps ==
    ASSUME TypeOK, Embed
    PROVE  TypeOK' /\ Outcome /\ Unranked
<1>1. RequestOK' /\ QueryOK /\ stored' \in SUBSET Chunks /\ graph' \in Seq(Rows)
  <2>1. graph' = <<>> \/ graph' = graph
    BY DEF Embed
  <2>2. <<>> \in Seq(Rows)
    OBVIOUS
  <2>3. graph' \in Seq(Rows)
    BY <2>1, <2>2 DEF TypeOK
  <2> QED BY <2>3 DEF Embed, TypeOK, RequestOK
<1>2. CASE EngineRaises
  BY <1>1, <1>2, EngineRaisesIs DEF TypeOK, Unranked
<1>3. CASE /\ stage' = "search"
           /\ calls' = [i \in 1 .. Len(Targets(filters)) |-> [status |-> "out", rows |-> <<>>]]
           /\ UNCHANGED <<filters, literal, entities, links, rows, pool, answer>>
  <2> DEFINE n == Len(Targets(filters))
             out == [status |-> "out", rows |-> <<>>]
  <2>1. Targets(filters) \in Seq(Labels)
    <3>1. filters.list \in Seq(Labels) /\ filters.single \in Labels
      BY <1>1 DEF QueryOK, Requested
    <3> QED BY <3>1 DEF Targets
  <2>2. n \in Nat
    BY <2>1
  <2>3. out \in RpcCalls
    BY DEF RpcCalls
  <2> HIDE DEF n, out
  <2>4. calls' \in Seq(RpcCalls)
    <3>1. calls' = [i \in 1 .. n |-> out]
      BY <1>3 DEF n, out
    <3> QED BY <2>2, <2>3, <3>1
  <2>5. LinksOK'
    BY <1>1, <1>3 DEF QueryOK, LinksOK
  <2>6. QueryOK'
    BY <1>1, <1>3, <2>4, <2>5 DEF QueryOK, Stages, Engine
  <2> QED BY <1>1, <1>3, <2>6 DEF TypeOK, Outcome, Over, Unranked
<1> QED BY <1>2, <1>3 DEF Embed

LEMMA RpcKeeps ==
    ASSUME TypeOK, NEW i \in DOMAIN calls, RpcReturns(i) \/ RpcFails(i)
    PROVE  TypeOK' /\ Outcome /\ Unranked
<1>1. calls \in Seq(RpcCalls) /\ i \in 1 .. Len(calls) /\ stored \in SUBSET Chunks
  BY DEF TypeOK, QueryOK
<1>2. calls[i] \in RpcCalls
  BY <1>1
<1>3. calls' \in Seq(RpcCalls)
  <2>1. CASE RpcReturns(i)
    <3>1. PICK r \in RpcRows(Targets(filters)[i], Count(filters)) :
            calls' = [calls EXCEPT ![i] = [status |-> "ok", rows |-> r]]
      BY <2>1 DEF RpcReturns
    <3>2. r \in Seq(Rows)
      BY <1>1, RpcRowsAre
    <3> DEFINE call == [status |-> "ok", rows |-> r]
    <3>3. call \in RpcCalls
      BY <3>2 DEF RpcCalls
    <3> HIDE DEF call
    <3>4. [calls EXCEPT ![i] = call] \in Seq(RpcCalls)
      BY <1>1, <3>3
    <3> QED BY <3>1, <3>4 DEF call
  <2>2. CASE RpcFails(i)
    <3> DEFINE call == [calls[i] EXCEPT !.status = "failed"]
    <3>1. call \in RpcCalls
      BY <1>2 DEF RpcCalls
    <3>2. calls' = [calls EXCEPT ![i] = call]
      BY <2>2 DEF RpcFails
    <3> HIDE DEF call
    <3>3. [calls EXCEPT ![i] = call] \in Seq(RpcCalls)
      BY <1>1, <3>1
    <3> QED BY <3>2, <3>3
  <2> QED BY <2>1, <2>2
<1>4. stage = "search" /\ UNCHANGED <<request, stage, filters, literal, entities, links, graph,
                                     rows, pool, answer, stored>>
  BY DEF RpcReturns, RpcFails
<1>5. RequestOK' /\ LinksOK'
  BY <1>4 DEF TypeOK, QueryOK, RequestOK, LinksOK
<1>6. QueryOK'
  BY <1>3, <1>4, <1>5 DEF TypeOK, QueryOK
<1> QED BY <1>4, <1>5, <1>6 DEF TypeOK, Outcome, Over, Unranked

LEMMA GatherKeeps ==
    ASSUME TypeOK, Gather
    PROVE  TypeOK' /\ Outcome /\ Unranked
<1>1. RequestOK' /\ QueryOK /\ stored' \in SUBSET Chunks /\ graph' \in Seq(Rows)
  BY DEF Gather, TypeOK, RequestOK
<1>2. CASE EngineRaises
  BY <1>1, <1>2, EngineRaisesIs DEF TypeOK, Unranked
<1>3. CASE /\ stage' = "navigate"
           /\ UNCHANGED <<filters, literal, calls, entities, links, rows, pool, answer>>
  <2>1. LinksOK'
    BY <1>1, <1>3 DEF QueryOK, LinksOK
  <2>2. QueryOK'
    BY <1>1, <1>3, <2>1 DEF QueryOK, Stages, Engine
  <2> QED BY <1>1, <1>3, <2>2 DEF TypeOK, Outcome, Over, Unranked
<1> QED BY <1>2, <1>3 DEF Gather

LEMMA NavigateKeeps ==
    ASSUME TypeOK, Navigate
    PROVE  TypeOK' /\ Outcome /\ Unranked
<1>1. RequestOK' /\ QueryOK /\ stored' \in SUBSET Chunks
  BY DEF Navigate, TypeOK, RequestOK
<1>2. CASE EngineReturns(<<>>)
  <2>1. <<>> \in Seq(Rows)
    OBVIOUS
  <2> QED BY <1>1, <1>2, <2>1, EngineReturnsIs DEF TypeOK, Unranked
<1>3. ASSUME NEW found \in (UNION {SetToSeqs(S) : S \in SUBSET Entities}) \ {<<>>},
             entities' = found, stage' = "resolve",
             UNCHANGED <<filters, literal, calls, links, graph, rows, pool, answer>>
      PROVE  TypeOK' /\ Outcome /\ Unranked
  <2>1. PICK S \in SUBSET Entities : found \in SetToSeqs(S)
    OBVIOUS
  <2>2. found \in Seq(Entities)
    <3>1. IsFiniteSet(S)
      BY StoreAssumption, FS_Subset
    <3>2. found \in Seq(S)
      BY <2>1, <3>1, SeqsOf
    <3>3. found \in [1 .. Len(found) -> Entities] /\ Len(found) \in Nat
      BY <3>2
    <3> QED BY <3>3
  <2>3. LinksOK'
    BY <1>1, <1>3 DEF QueryOK, LinksOK
  <2>4. QueryOK'
    BY <1>1, <1>3, <2>2, <2>3 DEF QueryOK, Stages, Engine
  <2>5. graph' \in Seq(Rows)
    BY <1>3 DEF TypeOK
  <2> QED BY <1>1, <1>3, <2>4, <2>5 DEF TypeOK, Outcome, Over, Unranked
<1> QED BY <1>2, <1>3 DEF Navigate

LEMMA ResolveKeeps ==
    ASSUME TypeOK, Resolve
    PROVE  TypeOK' /\ Outcome /\ Unranked
<1>1. RequestOK' /\ QueryOK /\ stored \in SUBSET Chunks /\ stored' = stored
  BY DEF Resolve, TypeOK, RequestOK
<1>2. CASE EngineReturns(Ungrounded({}))
  <2>1. Ungrounded({}) \in Seq(Rows)
    BY <1>1, UngroundedIs DEF QueryOK
  <2> QED BY <1>1, <1>2, <2>1, EngineReturnsIs DEF TypeOK, Unranked
<1>3. CASE /\ links' = {l \in stored \X ToSet(entities) : l[1] \in Provenance[l[2]]}
           /\ stage' = "hydrate"
           /\ UNCHANGED <<filters, literal, calls, entities, graph, rows, pool, answer>>
  <2>1. ToSet(entities) \subseteq Entities
    BY <1>1 DEF QueryOK, ToSet
  <2>2. LinksOK'
    BY <1>1, <1>3, <2>1 DEF LinksOK
  <2>3. QueryOK'
    BY <1>1, <1>3, <2>2 DEF QueryOK, Stages, Engine
  <2>4. graph' \in Seq(Rows)
    BY <1>3 DEF TypeOK
  <2> QED BY <1>1, <1>3, <2>3, <2>4 DEF TypeOK, Outcome, Over, Unranked
<1> QED BY <1>2, <1>3 DEF Resolve

LEMMA HydrateKeeps ==
    ASSUME TypeOK, Hydrate
    PROVE  TypeOK' /\ Outcome /\ Unranked
<1>1. RequestOK' /\ QueryOK /\ stored \in SUBSET Chunks /\ stored' = stored
  BY DEF Hydrate, TypeOK, RequestOK
<1>2. ASSUME NEW present \in SetToSeqs(stored \intersect {l[1] : l \in links}),
             EngineReturns(GraphRows(present))
      PROVE  TypeOK' /\ Outcome /\ Unranked
  <2>1. GraphRows(present) \in Seq(Rows)
    BY <1>1, GraphRowsAre DEF QueryOK
  <2> QED BY <1>1, <1>2, <2>1, EngineReturnsIs DEF TypeOK, Unranked
<1>3. CASE EngineRaises /\ UNCHANGED graph
  BY <1>1, <1>3, EngineRaisesIs DEF TypeOK, Unranked
<1> QED BY <1>2, <1>3 DEF Hydrate

LEMMA DirectKeeps ==
    ASSUME TypeOK, Direct
    PROVE  TypeOK' /\ Outcome /\ Unranked
<1>1. RequestOK' /\ QueryOK /\ stored \in SUBSET Chunks /\ stored' = stored /\ graph' \in Seq(Rows)
  BY DEF Direct, TypeOK, RequestOK
<1>2. ASSUME NEW found \in RpcRows(filters.single, FetchK), Continue(found, FALSE)
      PROVE  TypeOK' /\ Outcome /\ Unranked
  <2>1. found \in Seq(Rows)
    BY <1>1, RpcRowsAre
  <2> QED BY <1>1, <1>2, <2>1, ContinueIs DEF TypeOK, Unranked
<1>3. CASE /\ stage' = "failed"
           /\ UNCHANGED <<filters, literal, calls, entities, links, rows, pool, answer>>
  BY <1>1, <1>3 DEF TypeOK, QueryOK, LinksOK, Stages, Over, Outcome, Unranked
<1> QED BY <1>2, <1>3 DEF Direct

(* Which rows a ranked answer is cut from. *)
AnswerIsRanked ==
    stage = "answered" /\ request.rerank =>
        \/ answer = <<>> /\ rows = <<>>
        \/ /\ answer = FinalCut(pool)
           /\ \/ pool = rows
              \/ \E r \in Rankings(Len(Candidates)) : pool = ExternalRerank(Candidates, r)

LEMMA RankKeeps ==
    ASSUME TypeOK, Rank
    PROVE  TypeOK' /\ Outcome /\ AnswerIsRanked'
<1>1. /\ RequestOK' /\ QueryOK /\ stored' \in SUBSET Chunks /\ graph' \in Seq(Rows)
      /\ rows' = rows /\ request' = request
  BY DEF Rank, TypeOK, RequestOK
<1>2. ASSUME NEW from \in Seq(Rows), Respond(FinalCut(from), from),
             \/ from = rows
             \/ \E r \in Rankings(Len(Candidates)) : from = ExternalRerank(Candidates, r)
      PROVE  TypeOK' /\ Outcome /\ AnswerIsRanked'
  <2> DEFINE result == FinalCut(from)
  <2>1. result \in Seq(Rows) /\ Len(result) <= K
    BY <1>1, FinalCutIs
  <2>2. Respond(result, from)
    BY <1>2
  <2> HIDE DEF result
  <2>3. /\ Outcome /\ stage' \in Over
        /\ filters' = filters /\ literal' = literal /\ calls' = calls
        /\ entities' = entities /\ links' = links
        /\ pool' = from /\ answer' \in Seq(Rows)
        /\ stage' = "answered" => answer' = result
    BY <1>1, <2>1, <2>2, RespondIs
  <2>4. LinksOK'
    BY <1>1, <2>3 DEF QueryOK, LinksOK
  <2>5. QueryOK'
    BY <1>1, <2>3, <2>4 DEF QueryOK, Stages
  <2>6. FinalCut(pool)' = result
    BY <2>3 DEF FinalCut, result
  <2>7. Candidates' = Candidates
    BY <1>1, <2>3 DEF Candidates
  <2>8. pool' = rows' \/ \E r \in Rankings(Len(Candidates')) : pool' = ExternalRerank(Candidates', r)
    BY <1>1, <1>2, <2>3, <2>7
  <2> QED BY <1>1, <2>3, <2>5, <2>6, <2>8 DEF TypeOK, AnswerIsRanked
<1>3. CASE Respond(FinalCut(rows), rows)
  <2>1. rows \in Seq(Rows)
    BY <1>1 DEF QueryOK
  <2> QED BY <1>2, <1>3, <2>1
<1>4. ASSUME NEW r \in Rankings(Len(Candidates)),
             Respond(FinalCut(ExternalRerank(Candidates, r)), ExternalRerank(Candidates, r))
      PROVE  TypeOK' /\ Outcome /\ AnswerIsRanked'
  <2>1. Candidates \in Seq(Rows)
    BY <1>1, CandidatesNoMore
  <2>2. ExternalRerank(Candidates, r) \in Seq(Rows)
    BY <2>1, RankedIs
  <2> QED BY <1>2, <1>4, <2>2
<1> QED BY <1>3, <1>4 DEF Rank

LEMMA DeleteKeeps ==
    ASSUME TypeOK, NEW c \in Chunks, Delete(c)
    PROVE  TypeOK' /\ Outcome /\ Unranked
<1>1. stage \notin Over /\ stored' \in SUBSET Chunks /\ state' = state
  BY DEF Delete, TypeOK, Over
<1> QED BY <1>1 DEF state, TypeOK, QueryOK, RequestOK, LinksOK, Outcome, Over, Unranked

LEMMA StutterKeeps ==
    ASSUME TypeOK, UNCHANGED vars
    PROVE  TypeOK'
BY DEF vars, state, TypeOK, QueryOK, RequestOK, LinksOK

(* Every step but the idle ones of a query that is over. *)
LEMMA StepKeeps ==
    ASSUME TypeOK, Step \/ \E c \in Chunks : Delete(c)
    PROVE  TypeOK' /\ Outcome
BY ValidateKeeps, EmbedKeeps, RpcKeeps, GatherKeeps, NavigateKeeps, ResolveKeeps,
   HydrateKeeps, DirectKeeps, RankKeeps, DeleteKeeps DEF Step

LEMMA InitTyped ==
    ASSUME Init
    PROVE  TypeOK
<1>1. <<>> \in Seq(RpcCalls) /\ <<>> \in Seq(Entities) /\ <<>> \in Seq(Rows)
  OBVIOUS
<1>2. RequestOK /\ stage \in Stages /\ literal \in BOOLEAN /\ stored \in SUBSET Chunks
  BY DEF Init, RequestOK, Stages
<1>3. filters \in Requested
  BY RequestAssumption DEF Init
<1>4. LinksOK
  BY DEF Init, LinksOK
<1> QED BY <1>1, <1>2, <1>3, <1>4 DEF Init, TypeOK, QueryOK

(* Every row in flight, in the pool and in the answer is a row of a stored chunk or of an  *)
(* entity, with a whole score and a known score space, and the filters are well formed,    *)
(* through every fallback and every normalisation of the scores (hybrid search, broker).   *)
THEOREM QueriesAreTyped == Spec => []TypeOK
<1>1. Init => TypeOK
  BY InitTyped
<1>2. TypeOK /\ [Next]_vars => TypeOK'
  <2> SUFFICES ASSUME TypeOK, [Next]_vars PROVE TypeOK'
    OBVIOUS
  <2>1. CASE Step \/ \E c \in Chunks : Delete(c)
    BY <2>1, StepKeeps
  <2>2. CASE UNCHANGED vars
    BY <2>2, StutterKeeps
  <2> QED BY <2>1, <2>2 DEF Next, Ended
<1> QED BY <1>1, <1>2, PTL DEF Spec

-----------------------------------------------------------------------------
(* The graph hop.                                                          *)

(* The engine begins without rows of the graph. *)
NoHopYet == stage \in Engine => graph = <<>>

HopInv == TypeOK /\ NoHopYet /\ EntitiesRepresented

(* A step that leaves the rows of the hop and the entities, or drops the entities. *)
LEMMA HopStays ==
    ASSUME TypeOK, EntitiesRepresented, graph' = graph, entities' = entities \/ entities' = <<>>,
           stored' \subseteq stored
    PROVE  EntitiesRepresented'
<1>1. CASE entities' = <<>>
  BY <1>1 DEF EntitiesRepresented
<1>2. CASE entities' = entities
  BY <1>2 DEF EntitiesRepresented
<1> QED BY <1>1, <1>2

LEMMA NewHop ==
    ASSUME TypeOK, graph' \in Seq(Rows), entities' = entities \/ entities' = <<>>,
           \A i \in 1 .. Len(entities) :
               \/ \E j \in 1 .. Len(graph') : entities[i] \in graph'[j].via
               \/ Provenance[entities[i]] \ stored' # {}
    PROVE  EntitiesRepresented'
<1>1. DOMAIN entities = 1 .. Len(entities) /\ DOMAIN graph' = 1 .. Len(graph')
  BY DEF TypeOK, QueryOK
<1>2. CASE entities' = <<>>
  BY <1>2 DEF EntitiesRepresented
<1>3. CASE entities' = entities
  BY <1>1, <1>3 DEF EntitiesRepresented
<1> QED BY <1>2, <1>3

LEMMA EngineKeepsHop ==
    ASSUME HopInv, stage \in Engine, EngineRaises, graph' = graph, stored' = stored
    PROVE  NoHopYet' /\ EntitiesRepresented'
<1>1. stage' \notin Engine /\ (entities' = entities \/ entities' = <<>>)
  BY EngineRaisesIs DEF HopInv, TypeOK
<1> QED BY <1>1, HopStays DEF HopInv, NoHopYet

LEMMA HopStep ==
    ASSUME HopInv, Step
    PROVE  NoHopYet' /\ EntitiesRepresented'
<1>1. TypeOK /\ QueryOK /\ TypeOK' /\ EntitiesRepresented
  BY StepKeeps DEF HopInv, TypeOK
<1>2. CASE Validate
  <2>1. /\ graph' = graph /\ entities' = entities /\ stored' = stored
        /\ stage' \notin Engine
    BY <1>2 DEF Validate, Engine
  <2> QED BY <1>1, <2>1, HopStays DEF NoHopYet
<1>3. CASE Embed
  <2>1. stored' = stored
    BY <1>3 DEF Embed
  <2>2. CASE EngineRaises /\ UNCHANGED graph
    <3>1. stage' \notin Engine /\ (entities' = entities \/ entities' = <<>>)
      BY <1>1, <2>2, EngineRaisesIs
    <3> QED BY <1>1, <2>1, <2>2, <3>1, HopStays DEF NoHopYet
  <2>3. CASE graph' = <<>>
    BY <2>3 DEF NoHopYet, EntitiesRepresented
  <2> QED BY <1>3, <2>2, <2>3 DEF Embed
<1>4. ASSUME NEW i \in DOMAIN calls, RpcReturns(i) \/ RpcFails(i)
      PROVE  NoHopYet' /\ EntitiesRepresented'
  <2>1. stage' = stage /\ graph' = graph /\ entities' = entities /\ stored' = stored
    BY <1>4 DEF RpcReturns, RpcFails
  <2>2. NoHopYet'
    BY <2>1 DEF HopInv, NoHopYet
  <2> QED BY <1>1, <2>1, <2>2, HopStays
<1>5. CASE Gather
  <2>1. stage \in Engine /\ graph' = graph /\ stored' = stored
    BY <1>5 DEF Gather, Engine
  <2>2. graph = <<>>
    BY <2>1 DEF HopInv, NoHopYet
  <2> QED BY <2>1, <2>2 DEF NoHopYet, EntitiesRepresented
<1>6. CASE Navigate
  <2>1. graph = <<>>
    BY <1>6 DEF Navigate, Engine, HopInv, NoHopYet
  <2>2. graph' = <<>>
    <3>1. CASE EngineReturns(<<>>)
      BY <3>1 DEF EngineReturns
    <3>2. CASE graph' = graph
      BY <2>1, <3>2
    <3> QED BY <1>6, <3>1, <3>2 DEF Navigate
  <2> QED BY <2>2 DEF NoHopYet, EntitiesRepresented
<1>7. CASE Resolve
  <2>1. graph = <<>> /\ stored' = stored
    BY <1>7 DEF Resolve, Engine, HopInv, NoHopYet
  <2>2. CASE graph' = graph
    BY <2>1, <2>2 DEF NoHopYet, EntitiesRepresented
  <2>3. CASE EngineReturns(Ungrounded({}))
    <3> DEFINE hop == Ungrounded({})
    <3>1. /\ hop \in Seq(Rows)
          /\ \A i \in 1 .. Len(entities) : \E j \in 1 .. Len(hop) : entities[i] \in hop[j].via
      BY <1>1, UngroundedIs DEF QueryOK
    <3> HIDE DEF hop
    <3>2. graph' = hop /\ stage' \notin Engine /\ (entities' = entities \/ entities' = <<>>)
      BY <1>1, <2>3, <3>1, EngineReturnsIs DEF hop
    <3> QED BY <1>1, <3>1, <3>2, NewHop DEF NoHopYet
  <2> QED BY <1>7, <2>2, <2>3 DEF Resolve
<1>8. CASE Hydrate
  <2>1. graph = <<>> /\ stored' = stored /\ stage \in Engine
    BY <1>8 DEF Hydrate, Engine, HopInv, NoHopYet
  <2>2. CASE EngineRaises /\ UNCHANGED graph
    BY <2>1, <2>2, EngineKeepsHop
  <2>3. ASSUME NEW present \in SetToSeqs(stored \intersect {l[1] : l \in links}),
               EngineReturns(GraphRows(present))
        PROVE  NoHopYet' /\ EntitiesRepresented'
    <3> DEFINE hop == GraphRows(present)
    <3>1. /\ hop \in Seq(Rows)
          /\ \A i \in 1 .. Len(entities) :
                \/ \E j \in 1 .. Len(hop) : entities[i] \in hop[j].via
                \/ Provenance[entities[i]] \ stored # {}
      BY <1>1, GraphRowsAre DEF TypeOK, QueryOK
    <3> HIDE DEF hop
    <3>2. graph' = hop /\ stage' \notin Engine /\ (entities' = entities \/ entities' = <<>>)
      BY <1>1, <2>3, <3>1, EngineReturnsIs DEF hop
    <3> QED BY <1>1, <2>1, <3>1, <3>2, NewHop DEF NoHopYet
  <2> QED BY <1>8, <2>2, <2>3 DEF Hydrate
<1>9. CASE Direct
  <2>1. graph' = graph /\ stored' = stored
    BY <1>9 DEF Direct
  <2>2. stage' \notin Engine /\ (entities' = entities \/ entities' = <<>>)
    <3>1. ASSUME NEW found \in RpcRows(filters.single, FetchK), Continue(found, FALSE)
          PROVE  stage' \notin Engine /\ (entities' = entities \/ entities' = <<>>)
      <4>1. found \in Seq(Rows)
        BY <1>1, RpcRowsAre DEF TypeOK
      <4> QED BY <1>1, <3>1, <4>1, ContinueIs
    <3>2. CASE stage' = "failed" /\ entities' = entities
      BY <3>2 DEF Engine
    <3> QED BY <1>9, <3>1, <3>2 DEF Direct
  <2> QED BY <1>1, <2>1, <2>2, HopStays DEF NoHopYet
<1>10. CASE Rank
  <2>1. graph' = graph /\ stored' = stored
    BY <1>10 DEF Rank
  <2>2. stage' \in Over /\ entities' = entities
    BY <1>10 DEF Rank, Respond, Over
  <2>3. stage' \notin Engine
    BY <2>2 DEF Over, Engine
  <2> QED BY <1>1, <2>1, <2>2, <2>3, HopStays DEF NoHopYet
<1> QED BY <1>2, <1>3, <1>4, <1>5, <1>6, <1>7, <1>8, <1>9, <1>10 DEF Step

(* Whatever the navigation finds is in the rows of the graph hop: through a chunk the      *)
(* entity was extracted from, or on its own when resolve_node_to_chunk_ids gives no link.  *)
(* Only an entity that lost a chunk during the query may be missing.                       *)
THEOREM EntitiesAreRepresented == Spec => []EntitiesRepresented
<1>1. Init => HopInv
  BY InitTyped DEF Init, HopInv, NoHopYet, EntitiesRepresented, Engine
<1>2. HopInv /\ [Next]_vars => HopInv'
  <2> SUFFICES ASSUME HopInv, [Next]_vars PROVE HopInv'
    OBVIOUS
  <2>1. CASE Step
    BY <2>1, HopStep, StepKeeps DEF HopInv
  <2>2. ASSUME NEW c \in Chunks, Delete(c) PROVE HopInv'
    <3>1. /\ stage' = stage /\ graph' = graph /\ entities' = entities
          /\ stored' \subseteq stored
      BY <2>2 DEF Delete, state
    <3>2. TypeOK'
      BY <2>2, DeleteKeeps DEF HopInv
    <3>3. EntitiesRepresented'
      BY <3>1, HopStays DEF HopInv
    <3> QED BY <3>1, <3>2, <3>3 DEF HopInv, NoHopYet
  <2>3. CASE UNCHANGED vars
    BY <2>3, StutterKeeps DEF vars, state, HopInv, NoHopYet, EntitiesRepresented
  <2> QED BY <2>1, <2>2, <2>3 DEF Next, Ended
<1>3. HopInv => EntitiesRepresented
  BY DEF HopInv
<1> QED BY <1>1, <1>2, <1>3, PTL DEF Spec

-----------------------------------------------------------------------------
(* What the ranking keeps and balances.                                    *)

RankInv == TypeOK /\ AnswerIsRanked

LEMMA StepRanks ==
    ASSUME TypeOK, Step \/ \E c \in Chunks : Delete(c)
    PROVE  AnswerIsRanked'
<1>1. CASE Rank
  BY <1>1, RankKeeps
<1>2. CASE \/ Validate \/ Embed \/ Gather \/ Navigate \/ Resolve \/ Hydrate \/ Direct
           \/ \E i \in DOMAIN calls : RpcReturns(i) \/ RpcFails(i)
           \/ \E c \in Chunks : Delete(c)
  <2>1. Unranked
    BY <1>2, ValidateKeeps, EmbedKeeps, RpcKeeps, GatherKeeps, NavigateKeeps, ResolveKeeps,
       HydrateKeeps, DirectKeeps, DeleteKeeps
  <2>2. request' = request
    BY <1>2 DEF Validate, Embed, Gather, Navigate, Resolve, Hydrate, Direct, RpcReturns, RpcFails,
                Delete, state
  <2> QED BY <2>1, <2>2 DEF Unranked, AnswerIsRanked
<1> QED BY <1>1, <1>2 DEF Step

LEMMA StutterRanks ==
    ASSUME AnswerIsRanked, UNCHANGED vars
    PROVE  AnswerIsRanked'
<1>1. /\ stage' = stage /\ request' = request /\ answer' = answer /\ rows' = rows /\ pool' = pool
      /\ filters' = filters
  BY DEF vars, state
<1>2. Candidates' = Candidates /\ FinalCut(pool)' = FinalCut(pool)
  BY <1>1 DEF Candidates, FinalCut
<1> QED BY <1>1, <1>2 DEF AnswerIsRanked

LEMMA RankedAlways == Spec => []RankInv
<1>1. Init => RankInv
  BY InitTyped DEF Init, RankInv, AnswerIsRanked
<1>2. RankInv /\ [Next]_vars => RankInv'
  <2> SUFFICES ASSUME RankInv, [Next]_vars PROVE RankInv'
    OBVIOUS
  <2>1. CASE Step \/ \E c \in Chunks : Delete(c)
    BY <2>1, StepKeeps, StepRanks DEF RankInv
  <2>2. CASE UNCHANGED vars
    BY <2>2, StutterKeeps, StutterRanks DEF RankInv
  <2> QED BY <2>1, <2>2 DEF Next, Ended
<1> QED BY <1>1, <1>2, PTL DEF Spec

(* Where all the rows fit the answer, no candidate is lost between the weighing and the    *)
(* answer: not by the buckets of stratify_results, nor by a reranker that answers some of  *)
(* the rows only, nor by the fallback for its exceptions (broker._apply_reranking).        *)
THEOREM CandidatesAreKept == Spec => []RankingKeepsCandidates
<1>1. RankInv => RankingKeepsCandidates
  <2> SUFFICES ASSUME RankInv, stage = "answered", request.rerank, Len(rows) <= K, IsInjective(Targeted)
               PROVE  Ids(Candidates) \subseteq Ids(answer)
    BY DEF RankingKeepsCandidates
  <2>1. QueryOK /\ rows \in Seq(Rows)
    BY DEF RankInv, TypeOK, QueryOK
  <2>2. Candidates \in Seq(Rows) /\ NoMore(Candidates, rows)
    BY <2>1, CandidatesNoMore
  <2>3. /\ Len(Candidates) \in Nat /\ Len(rows) \in Nat /\ K \in Nat
        /\ Len(Candidates) <= K /\ Ids(Candidates) \subseteq Ids(rows)
    <3>1. Len(Candidates) \in Nat /\ Len(rows) \in Nat /\ K \in Nat
      BY <2>1, <2>2, CutAssumption
    <3> QED BY <2>2, <3>1 DEF NoMore
  <2>4. CASE answer = <<>> /\ rows = <<>>
    BY <2>3, <2>4
  <2>5. CASE answer = FinalCut(pool) /\ pool = rows
    BY <2>1, <2>3, <2>5, FinalCutIs
  <2>6. ASSUME NEW r \in Rankings(Len(Candidates)), answer = FinalCut(pool),
               pool = ExternalRerank(Candidates, r)
        PROVE  Ids(Candidates) \subseteq Ids(answer)
    <3>1. pool \in Seq(Rows) /\ Len(pool) = Len(Candidates) /\ Ids(Candidates) \subseteq Ids(pool)
      BY <2>2, <2>6, RankedIs
    <3>2. Ids(pool) \subseteq Ids(answer)
      BY <2>1, <2>3, <2>6, <3>1, FinalCutIs
    <3> QED BY <3>1, <3>2
  <2> QED BY <2>4, <2>5, <2>6 DEF RankInv, AnswerIsRanked
<1> QED BY <1>1, RankedAlways, PTL

LEMMA InBucketIs ==
    ASSUME NEW s \in Seq(Rows), NEW n
    PROVE  Len(InBucket(s, n)) = Cardinality(Falling(s, Targeted, n))
<1> DEFINE at == {i \in DOMAIN s : Bucket(s[i], Targeted) = n}
<1>1. InBucket(s, n) = Picked(s, at)
  BY DEF InBucket, Kept, With
<1>2. at \in SUBSET DOMAIN s /\ at = Falling(s, Targeted, n)
  BY DEF Falling
<1> HIDE DEF at
<1>3. SomeOf(Picked(s, at), s, at)
  BY <1>2, PickedSome
<1> QED BY <1>1, <1>2, <1>3, SomeOfIs

(* In a ranked answer to a query for several standards no standard has two rows more than  *)
(* another that had rows left to give, whichever calls failed and whatever the reranker    *)
(* answered (stratify_results, the last cut of broker._apply_reranking).                   *)
THEOREM AnswersAreBalanced == Spec => []ScopesBalanced
<1>1. RankInv => ScopesBalanced
  <2> SUFFICES ASSUME RankInv, stage = "answered", request.rerank, Len(Targeted) > 1,
                      IsInjective(Targeted), NEW i \in DOMAIN Targeted, NEW j \in DOMAIN Targeted,
                      Len(InBucket(answer, i)) > Len(InBucket(answer, j)) + 1
               PROVE  Len(InBucket(answer, j)) = Len(InBucket(pool, j))
    BY DEF ScopesBalanced
  <2> DEFINE scopes == RequestedScopes(filters)
  <2>1. scopes \in Seq(Labels) /\ pool \in Seq(Rows) /\ answer \in Seq(Rows) /\ K \in Nat
    BY RequestedScopesAre, CutAssumption DEF RankInv, TypeOK, QueryOK
  <2>2. Targeted = TargetNames(scopes)
    BY DEF Targeted
  <2> HIDE DEF scopes
  <2>3. Len(Targeted) = Len(scopes) /\ DOMAIN Targeted = 1 .. Len(scopes)
    BY <2>1, <2>2 DEF TargetNames
  <2>4. CASE answer = <<>>
    <3>1. Falling(answer, Targeted, i) = {} /\ Falling(answer, Targeted, j) = {}
      BY <2>4 DEF Falling
    <3>2. Len(InBucket(answer, i)) = 0 /\ Len(InBucket(answer, j)) = 0
      BY <2>1, <3>1, InBucketIs, FS_EmptySet
    <3> QED BY <3>2
  <2>5. CASE answer = FinalCut(pool)
    <3>1. answer = Stratify(pool, scopes, K)
      BY <2>3, <2>5 DEF FinalCut, scopes
    <3>2. Cardinality(Falling(answer, Targeted, i)) > Cardinality(Falling(answer, Targeted, j)) + 1
      BY <2>1, InBucketIs
    <3>3. Cardinality(Falling(answer, Targeted, j)) = Cardinality(Falling(pool, Targeted, j))
      BY <2>1, <2>2, <2>3, <3>1, <3>2, StratifyBalances
    <3> QED BY <2>1, <3>3, InBucketIs
  <2> QED BY <2>4, <2>5 DEF RankInv, AnswerIsRanked
<1> QED BY <1>1, RankedAlways, PTL

-----------------------------------------------------------------------------
(* The query implements the call its caller sees.                          *)

Reported == Mapped(answer, LAMBDA r : r.id)

LEMMA ReportedIs ==
    ASSUME NEW s \in Seq(Rows)
    PROVE  /\ Mapped(s, LAMBDA r : r.id) \in Seq(Catalogue)
           /\ Len(Mapped(s, LAMBDA r : r.id)) = Len(s)
<1> DEFINE list == [i \in 1 .. Len(s) |-> s[i].id]
           result == Mapped(s, LAMBDA r : r.id)
<1>1. result = Listed(list)
  BY DEF Mapped, With
<1>2. \A i \in 1 .. Len(s) : list[i] \in Catalogue
  <2>1. \A i \in 1 .. Len(s) : s[i] \in Rows
    OBVIOUS
  <2> QED BY <2>1 DEF Rows, RowSet
<1>3. list = [i \in 1 .. Len(s) |-> list[i]]
  OBVIOUS
<1> HIDE DEF list, result
<1>4. Listed(list) = list /\ list \in Seq(Catalogue) /\ Len(list) = Len(s)
  BY <1>2, <1>3, ListIs
<1> QED BY <1>1, <1>4 DEF result

(* Through all its stages a query ends at most once, with an error or with at most K rows  *)
(* of the catalogue, and never changes an answer it has given: run_hybrid, with its broker *)
(* and its engine, implements the call of QueryCall.                                       *)
THEOREM QueriesImplementTheCall == Spec => ImplementsCall
<1>1. Init => Call!Init
  <2> SUFFICES ASSUME Init PROVE Call!Init
    OBVIOUS
  <2>1. answer \in Seq(Rows) /\ Len(answer) = 0
    BY DEF Init
  <2>2. Reported \in Seq(Catalogue) /\ Len(Reported) = 0
    BY <2>1, ReportedIs DEF Reported
  <2>3. Reported = <<>>
    <3> HIDE DEF Reported
    <3> QED BY <2>2
  <2> QED BY <2>3 DEF Init, Call!Init, Reported
<1>2. TypeOK /\ [Next]_vars => [Call!Answer \/ Call!Fail]_(Call!cvars)
  <2> SUFFICES ASSUME TypeOK, [Next]_vars PROVE [Call!Answer \/ Call!Fail]_(Call!cvars)
    OBVIOUS
  <2>1. CASE Step \/ \E c \in Chunks : Delete(c)
    <3>1. stage \notin Over
      BY <2>1 DEF Step, Validate, Embed, Gather, Navigate, Resolve, Hydrate, Direct, Rank,
                  RpcReturns, RpcFails, Delete, Over
    <3>2. Outcome
      BY <2>1, StepKeeps
    <3>3. CASE stage' \notin Over /\ answer' = answer
      <4>1. Reported' = Reported
        BY <3>3 DEF Reported, Mapped, With
      <4> QED BY <3>1, <3>3, <4>1 DEF Call!cvars, Over, Reported
    <3>4. CASE stage' = "failed" /\ answer' = answer
      <4>1. Reported' = Reported
        BY <3>4 DEF Reported, Mapped, With
      <4>2. Call!Fail
        BY <3>1, <3>4, <4>1 DEF Call!Fail, Over, Reported
      <4> QED BY <4>2
    <3>5. CASE stage' = "answered" /\ answer' \in Seq(Rows) /\ Len(answer') <= K
      <4>1. Reported' \in Seq(Catalogue) /\ Len(Reported') = Len(answer')
        BY <3>5, ReportedIs DEF Reported, Mapped, With
      <4>2. Call!Answer
        BY <3>1, <3>5, <4>1 DEF Call!Answer, Over, Reported
      <4> QED BY <4>2
    <3> QED BY <3>2, <3>3, <3>4, <3>5 DEF Outcome
  <2>2. CASE UNCHANGED vars
    <3>1. stage' = stage /\ answer' = answer
      BY <2>2 DEF vars, state
    <3>2. Reported' = Reported
      BY <3>1 DEF Reported, Mapped, With
    <3> QED BY <3>1, <3>2 DEF Call!cvars, Reported
  <2> QED BY <2>1, <2>2 DEF Next, Ended
<1> QED BY <1>1, <1>2, QueriesAreTyped, PTL DEF Spec, ImplementsCall, Call!Spec
=============================================================================
