--------------------------- MODULE KnowledgeGraph ---------------------------
(***************************************************************************)
(* What deferred enrichment writes about the documents of a tenant. First  *)
(* RaptorProcessor.build_tree: it clusters the nodes of a level, has each  *)
(* cluster summarised and stores the level in three statements before it   *)
(* goes on to the next. Then GraphEnrichmentService.run_enrichment: the    *)
(* sections of the document's contents list, what the language model finds *)
(* in the chunks, the links from chunks to sections. Jobs of different     *)
(* documents run side by side and a job may run again; nothing of an       *)
(* earlier run is removed. Search follows summaries down to their leaves,  *)
(* which are not the stored chunks: a run gives the chunks new identities. *)
(***************************************************************************)
EXTENDS Integers, SequencesExt, FiniteSetsExt

CONSTANTS
    Docs,           \* the documents of the tenant
    Contents,       \* what the documents may hold: for each, how many chunks, how many of
                    \* them with a vector, and the contents list: refs and levels
    Clusters(_),    \* what clustering may make of n nodes: a sequence of sets of positions
    Answers(_),     \* what the language model may answer for n clusters: titles or "failed"
    MinChunks,      \* 5: run_raptor_if_needed wants more chunks than this
    MaxDepth,       \* 3: levels of summaries
    ResolveDepth,   \* 5: levels resolve_summaries_to_chunk_ids goes down
    MaxRuns         \* bound: runs of enrichment jobs

ASSUME GraphAssumption ==
    /\ MaxDepth \in Nat /\ ResolveDepth \in Nat /\ MaxDepth <= ResolveDepth
    /\ MaxRuns \in Nat
    /\ \A held \in Contents, d \in Docs : held[d].outline \in Seq([ref : STRING, level : Int])

VARIABLES
    content,    \* the documents as they are stored
    runs,       \* jobs started so far
    job,        \* the job of each document
    nodes,      \* regulatory_nodes
    entities,   \* knowledge_entities that mirror summaries
    relations,  \* knowledge_relations, SUMMARIZES
    sections,   \* knowledge_entities that are sections
    contains,   \* knowledge_relations, CONTAINS
    links       \* knowledge_node_provenance from sections to chunks
vars == <<content, runs, job, nodes, entities, relations, sections, contains, links>>
tree == <<nodes, entities, relations>>
structure == <<sections, contains, links>>

\* A job: where it is, its number, current_level, the nodes of the level below, the
\* clusters to summarise (positions in current), and the summaries being stored.
Idle == [pc |-> "idle", run |-> 0, level |-> 0, current |-> <<>>, items |-> <<>>, made |-> <<>>]

Init ==
    /\ content \in Contents /\ runs = 0 /\ job = [d \in Docs |-> Idle]
    /\ nodes = {} /\ entities = {} /\ relations = {}
    /\ sections = {} /\ contains = {} /\ links = {}

At(d, pc) == job[d].pc = pc
Goto(d, pc) == job' = [job EXCEPT ![d].pc = pc]

\* An exception of build_tree is logged and swallowed; the job goes on with the graph.
Swallow(d) == Goto(d, "sections") /\ UNCHANGED <<content, runs, tree, structure>>

-----------------------------------------------------------------------------
\* A leaf is a chunk under the fresh identity _map_to_raptor_chunks gives it. The leaves
\* below a node are kept with it for the properties only.
Leaf(r, i) == LET id == [run |-> r, level |-> 0, n |-> i]
              IN [id |-> id, title |-> "", children |-> {}, leaves |-> {id}]

StartRun(d) ==
    /\ At(d, "idle") /\ runs < MaxRuns
    /\ runs' = runs + 1
    /\ job' = [job EXCEPT ![d] = [Idle EXCEPT
                 !.pc = IF content[d].chunks > MinChunks /\ content[d].vectors > 0
                        THEN "cluster" ELSE "sections",
                 !.run = runs + 1,
                 !.current = [i \in 1 .. content[d].vectors |-> Leaf(runs + 1, i)]]]
    /\ UNCHANGED <<content, tree, structure>>

\* The top of build_tree's loop. Its structural mode groups the nodes of a section, but no
\* leaf is given a section_ref, so there never is a group. When the mixture cannot be fitted
\* the tree is given up.
SectionRef(node) == ""
Groups(current) == {SectionRef(current[i]) : i \in DOMAIN current} \ {""}

Cluster(d) ==
    LET j == job[d] IN
    /\ At(d, "cluster") /\ Groups(j.current) = {}
    /\ \/ /\ j.level + 1 > MaxDepth \/ Len(j.current) <= 1
          /\ Goto(d, "backfill")
       \/ /\ j.level + 1 <= MaxDepth /\ Len(j.current) > 1
          /\ \E c \in Clusters(Len(j.current)) :
                job' = [job EXCEPT ![d].pc = IF Len(c) <= 1 THEN "backfill" ELSE "summarize",
                                   ![d].level = @ + 1, ![d].items = c]
       \/ Goto(d, "sections")
    /\ UNCHANGED <<content, runs, tree, structure>>

\* _build_summary_nodes_for_level: a cluster whose summary fails is left out, and a level
\* without summaries is the last; when the vectors fail the tree is given up.
Summary(j, k, title) ==
    LET cluster == {j.current[i] : i \in j.items[k] \cap DOMAIN j.current}
    IN [id |-> [run |-> j.run, level |-> j.level, n |-> k], title |-> title,
        children |-> {c.id : c \in cluster}, leaves |-> UNION {c.leaves : c \in cluster}]

Summarized(j, title) ==
    LET done == SelectSeq([k \in DOMAIN j.items |-> k], LAMBDA k : title[k] # "failed")
    IN [k \in DOMAIN done |-> Summary(j, done[k], title[done[k]])]

Summarize(d) ==
    LET j == job[d] IN
    /\ At(d, "summarize")
    /\ \/ \E title \in Answers(Len(j.items)) :
             LET made == Summarized(j, title)
             IN /\ job' = [job EXCEPT ![d].made = made, ![d].current = made, ![d].items = <<>>,
                                      ![d].pc = IF made = <<>> THEN "cluster" ELSE "nodes"]
                /\ UNCHANGED <<content, runs, tree, structure>>
       \/ Swallow(d)

-----------------------------------------------------------------------------
\* save_summary_nodes: three statements, each whole or not at all.
\* Mutant: a level that could not be stored is logged and the next one is built on it.
SaveShrugs(d) == Goto(d, "cluster") /\ UNCHANGED <<content, runs, tree, structure>>
SaveFails(d) == Swallow(d)

SaveNodes(d) ==
    /\ At(d, "nodes")
    /\ \/ /\ nodes' = nodes \union Range(job[d].made)
          /\ Goto(d, "mirror")
          /\ UNCHANGED <<content, runs, entities, relations, structure>>
       \/ SaveFails(d)

\* A name is unique in a tenant's knowledge_entities. A summary's is its title with the
\* level: two of a level, of one run or of any, with one title refuse the statement.
Name(s) == <<s.title, s.id.level>>
NamesFree(made) ==
    /\ \A i, k \in DOMAIN made : i # k => Name(made[i]) # Name(made[k])
    /\ \A s \in Range(made), e \in entities : Name(s) # Name(e)

MirrorEntities(d) ==
    /\ At(d, "mirror")
    /\ \/ /\ NamesFree(job[d].made)
          /\ entities' = entities \union Range(job[d].made)
          /\ Goto(d, "edges")
          /\ UNCHANGED <<content, runs, nodes, relations, structure>>
       \/ SaveFails(d)

\* The ends of a relation must be entities.
Edges(s) == {<<s.id, c>> : c \in {x \in s.children : x.level > 0}}
MirrorRelations(d) ==
    LET edges == UNION {Edges(s) : s \in Range(job[d].made)} IN
    /\ At(d, "edges")
    /\ \/ /\ \A e \in edges : {e[1], e[2]} \subseteq {x.id : x \in entities}
          /\ relations' = relations \union edges
          /\ Goto(d, "cluster")
          /\ UNCHANGED <<content, runs, nodes, entities, structure>>
       \/ SaveFails(d)

\* backfill_collection_id sets the collection of the document's nodes.
Backfill(d) == At(d, "backfill") /\ Goto(d, "sections") /\ UNCHANGED <<content, runs, tree, structure>>

-----------------------------------------------------------------------------
\* upsert_document_structure. The name of a section is its title with its level and page,
\* which another document of the tenant may have too. A batch that is refused is tried row
\* by row, and a row that fails is logged and skipped.
Entries(d) == content[d].outline
Refs(d) == {Entries(d)[i].ref : i \in DOMAIN Entries(d)}
FreeRefs(d) == {r \in Refs(d) : \A s \in sections : s.ref = r => s.doc = d}

UpsertSections(d) ==
    /\ At(d, "sections")
    /\ Goto(d, IF Refs(d) = {} THEN "extract" ELSE "containment")
    /\ \E stored \in SUBSET FreeRefs(d) :
          sections' = sections \union {[doc |-> d, ref |-> r] : r \in stored}
    /\ UNCHANGED <<content, runs, tree, contains, links>>

\* The stack of the entries (by their places) that an entry may lie in: those as deep as it
\* or deeper are popped, the top is its parent, and it is pushed.
\* Mutant: an entry of the same level stays on the stack.
PoppedDeeper(E, stack, level) ==
    SubSeq(stack, 1, Max({0} \union {k \in DOMAIN stack : E[stack[k]].level <= level}))
Popped(E, stack, level) ==
    SubSeq(stack, 1, Max({0} \union {k \in DOMAIN stack : E[stack[k]].level < level}))

Stacks(E) ==
    LET stack[n \in 0 .. Len(E)] ==
            IF n = 0 THEN <<>> ELSE Append(Popped(E, stack[n - 1], E[n].level), n)
    IN stack

Containment(d) ==
    LET E == Entries(d)
        over(k) == Popped(E, Stacks(E)[k - 1], E[k].level)
    IN {[doc |-> d, parent |-> E[Last(over(k))].ref, child |-> E[k].ref] :
            k \in {n \in DOMAIN E : over(n) # <<>>}}

IsSection(d, ref) == [doc |-> d, ref |-> ref] \in sections
UpsertContainment(d) ==
    LET valid == {e \in Containment(d) : IsSection(d, e.parent) /\ IsSection(d, e.child)} IN
    /\ At(d, "containment")
    /\ \E stored \in SUBSET valid : contains' = contains \union stored
    /\ Goto(d, "extract")
    /\ UNCHANGED <<content, runs, tree, sections, links>>

\* The first chunk the language model finds an entity in ends the job's graph step:
\* upsert_knowledge_subgraph does not take the arguments it is called with.
Extract(d) ==
    /\ At(d, "extract")
    /\ Goto(d, "link") \/ Goto(d, "idle")
    /\ UNCHANGED <<content, runs, tree, structure>>

LinkChunks(d) ==
    /\ At(d, "link")
    /\ \E stored \in SUBSET {r \in Refs(d) : IsSection(d, r)} :
          links' = links \union {[doc |-> d, ref |-> r] : r \in stored}
    /\ Goto(d, "idle")
    /\ UNCHANGED <<content, runs, tree, sections, contains>>

\* The worker dies; the job may be run again.
Crash(d) == ~At(d, "idle") /\ job' = [job EXCEPT ![d] = Idle] /\ UNCHANGED <<content, runs, tree, structure>>

Work(d) ==
    \/ Cluster(d) \/ Summarize(d) \/ SaveNodes(d) \/ MirrorEntities(d) \/ MirrorRelations(d)
    \/ Backfill(d) \/ UpsertSections(d) \/ UpsertContainment(d) \/ Extract(d) \/ LinkChunks(d)
Next == \E d \in Docs : StartRun(d) \/ Work(d) \/ Crash(d)
Spec == Init /\ [][Next]_vars /\ \A d \in Docs : WF_vars(Work(d))

-----------------------------------------------------------------------------
\* resolve_summaries_to_chunk_ids, from summaries that search returned. A child that is a
\* stored summary is resolved in turn; any other child is taken for a chunk. A query that
\* fails is logged and ends the loop: what the depths before it have led to is the answer.
Stored(id) == \E n \in nodes : n.id = id
Descend(acc) ==
    LET children == UNION {n.children : n \in {x \in nodes : x.id \in acc.level}}
    IN [level |-> {c \in children : Stored(c)},
        leaves |-> acc.leaves \union {c \in children : ~Stored(c)}]
Resolve(ids, depths) ==
    LET down[depth \in 0 .. ResolveDepth] ==
            IF depth = 0 THEN [level |-> ids, leaves |-> {}] ELSE Descend(down[depth - 1])
    IN down[depths].leaves

-----------------------------------------------------------------------------
TypeOK ==
    /\ runs \in 0 .. MaxRuns /\ DOMAIN job = Docs
    /\ entities \subseteq nodes
    /\ sections \subseteq [doc : Docs, ref : UNION {Refs(d) : d \in Docs}]

\* A summary hangs together the moment its row is stored: whatever fails or dies at any level
\* of any job, going down from a stored summary ends at exactly the leaves it was made from,
\* and never at a summary whose row was not stored (which resolve_summaries would take for a
\* chunk); when a query of the descent fails, it ends at some of them and at nothing else.
\* (The leaves are no rows of content_chunks, whatever the method's docstring says.)
LeavesReached ==
    \A n \in nodes :
        /\ Resolve({n.id}, ResolveDepth) = n.leaves
        /\ \A depths \in 0 .. ResolveDepth : Resolve({n.id}, depths) \subseteq n.leaves

\* The three statements of a level can leave summaries without an entity or an entity
\* without its relations, but only in the last level a job stored: a summary that another
\* one was built on has both, so the graph search that follows SUMMARIZES down from a
\* mirrored summary never meets a hole.
GapsOnlyAtTop ==
    \A p, n \in nodes : n.id \in p.children => n \in entities /\ Edges(n) \subseteq relations

\* CONTAINS follows the contents list, whatever rows were refused on the way and whichever
\* job of the document wrote them: a section lies in the nearest preceding entry that is
\* less deep, both are stored, and both are of the same document.
SectionsNest ==
    \A edge \in contains :
        LET E == Entries(edge.doc) IN
        /\ IsSection(edge.doc, edge.parent) /\ IsSection(edge.doc, edge.child)
        /\ \E i, k \in DOMAIN E :
              /\ i < k /\ E[i].ref = edge.parent /\ E[k].ref = edge.child
              /\ E[i].level < E[k].level
              /\ \A m \in i + 1 .. k - 1 : E[m].level >= E[k].level
=============================================================================
