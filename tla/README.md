# CIRE-RAG in TLA+

CIRE-RAG is an engine for ingesting documents and retrieving from them: a FastAPI
service writes rows into Supabase (Postgres), database triggers turn some of those
rows into jobs, asyncio worker processes pull the jobs, run an ingestion pipeline, and
write chunks, visual nodes, summaries and graph facts; queries are answered from those
by several searches whose rows are merged and ranked.

This directory is a model of the parts of it where order, failure, concurrency or an
unobvious computation decide whether the result is right: the queue, the workers, the
pipeline, the uploads that feed them, what a document becomes, the enrichment that
follows, the knowledge graph and its communities, and retrieval. Paths below are relative
to the repository's root; `app/` is the Python package.

Contents:

1. [The system](#1-the-system): components, their state, how they interact, what is hard
2. [The modules](#2-the-modules): which module models what, and how
3. [The runs](#3-the-runs): what TLC checks, within which bounds, under which fairness
4. [The proofs](#4-the-proofs): what TLAPS proves, and along which argument
5. [Where code and claims part](#5-where-code-and-claims-part): divergences met while modelling
6. [What is not claimed](#6-what-is-not-claimed)
7. [What is not modelled](#7-what-is-not-modelled)
8. [Plan](#8-plan)

To check a run: `tlc -config <run>.cfg <module>` (the table in section 3 names the
module of each configuration). To check a proof: `tlapm <module>_proofs.tla`.

## 1. The system

### 1.1 Processes and stores

| actor | where | how many |
|---|---|---|
| API process | `app/api/v1` | any number; requests are concurrent coroutines |
| worker process | `app/worker.py` | services `worker` and (profile `local-heavy`) `worker-local` of `docker-compose.yml`, restarted unless stopped |
| ingest poller | `BaseWorkerProcessor.run_job_loop` | `WORKER_CONCURRENCY` = 4 per process |
| enrichment poller | the same loop with `handle_enrichment` | `ENRICHMENT_WORKER_CONCURRENCY` = 4 per process |
| heartbeat task | `SupabaseJobStore._job_heartbeat_loop` | one per job in hand, every 20 s |
| community scheduler | `CommunityScheduler.tick` | one per worker process |
| community worker | `community_worker.py` | started by `scripts/stack.sh`, one poller, not watched |

Everything that outlives a process is in Postgres or in storage. Inside a process the
coroutines share the document locks and the two kinds of semaphore of
`TenantConcurrencyManager`; a request shares the semaphore of its sub-queries. Coroutines
interleave only at an `await`; processes and requests interleave at every call to the
database. In all modules a step therefore ends at each database call.

### 1.2 Components

**Tenant concurrency manager** (`infrastructure/background_jobs/tenant_concurrency_manager.py`).
State: `_active_doc_ids`, `_active_jobs`, one semaphore per tenant, and the process's
global semaphore. Operations: `tenant_slot` (lock the document or refuse, take the
global permit, then the tenant's, count the job; undo all of it on the way out, in
whichever way the body ends). Hard: cancellation and exceptions at each `await`, two
semaphores taken in sequence, wakeups handed from one waiter to the next. Correct
when documents are exclusive, no permit leaks, nobody waits for ever.

**Job queue** (`job_queue`, the trigger and `fetch_next_job` in
`supabase/migrations`, `infrastructure/background_jobs/job_store.py`). State: one row
per job: type, status (pending, processing, completed, failed), payload, `updated_at`.
Operations: the trigger that enqueues a document when its row becomes queued, the
claim (`FOR UPDATE SKIP LOCKED`), the final mark, the requeue after a transient
lookup error, the heartbeat, and the requeue of rows whose `updated_at` is older than
the cutoff. Hard: a claim that is committed and whose answer is lost, a heartbeat that
fails for too long, marks that update by id alone. Correct when a document has at
most one active job, a claim is exclusive as long as heartbeats get through, and an
ended job never comes back.

**Polling worker** (`worker.py`, `infrastructure/queue/base_worker.py`,
`workflows/ingestion/job_processor.py`, `job_dispatcher.py`). State: where each poller
is, its job, its copy of the document row. Operations: requeue stale jobs, fetch, run
the handler, mark the job. Hard: what is read before the wait for a slot is used
after it; a `CancelledError` raised on purpose leaves the loop and the process;
the process dies between any two steps. Correct when every job that is enqueued ends.

**Ingestion pipeline** (`workflows/ingestion/processor.py`, `strategies.py`,
`infrastructure/state_management/state_manager.py`, `IngestionPolicy`). State:
`source_documents.status` and metadata, `content_chunks`. Operations: the policy,
start, wipe the chunks of the previous run, dispatch the strategy (read, split, embed),
persist in several inserts, enqueue the enrichment, success or error. Hard: every step is
a call that may fail or be the last one before a crash; the run is repeated after a
requeue. Correct when a processed document has its chunks exactly once, each with its
own page, role and vector.

**Chunking, parsers, embeddings** (`domain/ingestion/chunking`, `toc_discovery.py`,
`infrastructure/document_parsers/pdf_parser.py`, `ai/embeddings.py`, `ai/providers`).
Pure computation on a document, and calls that answer in part. Hard: offsets of one text
used in another, limits that carry text over, answers shorter than the question.

**Batch progress** (`update_batch_progress` in `20260213000001_batch_tracking.sql`).
State: `completed`, `failed`, `status` of `ingestion_batches`. Operation: count a
document; close the batch, and with `auto_seal` seal its collection, once all are counted.

**Batch upload API** (`workflows/ingestion/batch_orchestrator.py`,
`infrastructure/state_management/batch_manager.py`, `ingestion_query_service.py`,
`backpressure.py`). Operations: read the batch, enforce the pending limit, re-open the
batch, check the file name and the number of files, store the file, insert the row,
set the batch to processing; seal the batch by hand. Hard: each check is made in one
call and acted on in a later one, while other uploads and the workers go on.

**Document API and triggers** (`api/v1/routers/documents.py`, `trigger.py`,
`taxonomy_repository.py`, `ingestion_ops.py`). Operations: upload a document on its
own, with or without an `Idempotency-Key`, which also deletes previous versions of
the file; retry a document, whatever its status and however many are pending; delete a document,
its chunks and artefacts first and its row last, in calls of their own; ask for its enrichment
again. Answers to keyed calls are kept for 600 s (`api/v1/idempotency.py`), in Redis or, without
it, in the memory of each process. Hard: each of the calls may fail and leave what the ones
before it did.

**Deferred enrichment** (`post_processor.py`, `job_repository.py`,
`domain/ingestion/visual/context_service.py`, `workflows/ingestion/integrator.py`).
State: the `enrich_document` rows of the queue, `visual_nodes`, the anchor tokens in
the chunks' text, stored images. Operations: load the chunks, bind each visual task to
a parent chunk, upload the image, create node and token in one transaction or, if that
fails, by a sequence of calls with undo steps; RAPTOR; graph. Hard: the text of a chunk
is read once and written back whole several awaits later; the document may be
ingested again at any time; every call may fail, or succeed and say that it failed.

**RAPTOR and knowledge graph** (`domain/ingestion/raptor`, `domain/ingestion/graph`,
`supabase_raptor_repository.py`, `supabase_graph_repository.py`,
`supabase_retrieval_repository.py`). State: `regulatory_nodes`, `knowledge_entities`,
`knowledge_relations`, `knowledge_node_provenance`. Operations: build a tree of summaries
level by level, each stored in three statements; mirror it in the graph; the sections of
the contents list as nodes with CONTAINS edges and links to chunks; on the way back,
resolve summaries to chunks. Hard: any statement may fail with the levels below already
stored; jobs of several documents write to the same tables. Correct when a summary always
leads to the leaves it was made from and sections nest as the contents list says.

**Community scheduler and rebuild worker** (`community_scheduler.py`,
`community_worker.py`, `clustering_service.py`). State: `community_rebuild` jobs,
`knowledge_communities`. Operations: the scheduler's check and insert, the worker's reads,
its delete, its inserts in batches. Hard: nothing locks the tenant, and delete and
inserts are separate transactions. Correct when the stored communities are those of one
rebuild, and are brought up to date again after any failure.

**Retrieval workflow** (`workflows/retrieval`, `domain/retrieval`,
`atomic_engine.py`, `ai/rerankers`). No state between requests. A search is validated,
resolved to standards (scopes), sent to the hybrid RPC once per standard, joined with the
rows of a graph hop, filtered, ranked by up to two rerankers, stratified over the
standards, cut, and checked by `LeakCanary`. Requests that make several searches (multi-query,
plans, comprehensive with late fusion, chat router, paged chat) merge what comes back.
Hard: any of the calls fails, is late, or answers in part; documents are deleted in the
middle; each ranking step reorders or shortens the rows. Correct when partial answers are
used, no standard is crowded out, and every request ends.

**Others.** Collections API, middleware, observability: section 7.

### 1.3 How they interact

- An upload inserts a `source_documents` row with status queued; the **trigger**
  inserts an `ingest_document` job, unless the document has an active one.
- A **poller** claims the job, takes the document lock and a slot, and runs the
  **pipeline**, which moves the document through processing to processed or failed.
- The dispatcher reports the document to its **batch** after the pipeline and before
  the job is marked.
- The pipeline inserts an `enrich_document` job; so does the replay endpoint. An
  enrichment poller, of any process, runs it, possibly while the document is
  being ingested again. Its last parts write the **knowledge graph**.
- The **community scheduler** of a worker process inserts a `community_rebuild` job for
  each tenant that has none; the community worker reads the graph and replaces the communities.
- A dead process's jobs stay in processing until any poller finds them stale.
- `source_documents` rows are the only channel from the API to the workers, and
  `ingestion_events` inserts need the row to exist: deleting a document makes the
  pipeline's next log entry fail.
- **Retrieval** reads `content_chunks`, `regulatory_nodes` and the graph in separate
  calls; a deletion between two of them is visible to the later one only.

### 1.4 What is hard to test

`PROJECT.json` lists the hazards, each at its line. The ones that shaped the models:

- a crash or a lost answer between any two calls, and the repetition of a run;
- a retry that is written while the old job is still active (`20260614010000_enqueue_ingestion_jobs.sql:23`);
- heartbeats that fail while the holder still runs (`job_store.py:234`);
- two semaphores with cancellation at each wait (`tenant_concurrency_manager.py:74`);
- checks of the upload API whose premise is gone when they are acted on
  (`batch_manager.py:86`, `backpressure.py`, `documents.py:151`);
- the text of a chunk kept by a run while others may write it (`context_service.py:109`);
- a deletion in several calls that fails between the chunks and the row (`documents.py:315`);
- vectors that are missing inside an answer, so that those after them move up (`cohere.py:101`, `jina_cloud.py:304`);
- a fallback with undo steps, each of which may fail (`integrator.py:157`);
- offsets of the cleaned text looked up in windows of the text before (`pdf_parser.py:270`);
- a level of the tree that is stored and the next one, or its mirror, not
  (`supabase_raptor_repository.py:39`);
- communities that are deleted and inserted in separate transactions (`clustering_service.py:359`);
- a sub-query that is cancelled by its timeout while it holds a permit (`executors/multi_query.py:99`);
- four ranking steps in a row, each of which may lose a standard (`retrieval_broker.py:448`).

## 2. The modules

```
JobQueue ----+---------------> Enrichment <----------- MCEnrichment
             |                     ^------------------ Enrichment_proofs
             +--> IngestionWorker <------------------- MCIngestionWorker
             |        ^  ^---------------------------- IngestionWorker_proofs
BatchProgress+--------+
             +--> Uploads <--------------------------- MCUploads, Uploads_proofs
TenantSlots <----------------------------------------- MCTenantSlots, Exclusion_proofs
JobQueue  ..> CommunityRebuild <---------------------- MCCommunityRebuild, Exclusion_proofs
KnowledgeGraph <-------------------------------------- MCKnowledgeGraph, Content_proofs
Picking -> Chunking -> DocumentContent <-------------- MCDocumentContent, Content_proofs
   |
   +-----> Scoping --> Ranking <---------------------- Ranking_proofs
                         |
                         +--> HybridSearch <---------- MCHybridSearch, HybridSearch_proofs
QueryCall ..................> HybridSearch
                         +--> GraphSearch --> QueryFanout <- MCQueryFanout, QueryFanout_proofs
```

A solid arrow points to the module that EXTENDS, a dotted one to the one that has an
INSTANCE. `JobQueue`, `BatchProgress`, `Chunking`, `Picking`, `Scoping`, `Ranking` and `GraphSearch`
are libraries: a component's statements or pure functions; `QueryCall` is an abstract
specification; the others have a next-state relation of their own. `Ranking_proofs` has the facts
about sequences too, and `HybridSearch_proofs`, `QueryFanout_proofs` and `Content_proofs` extend it.
Two proof modules are about two components each, which is why the definitions of TenantSlots
and of DocumentContent carry their module's name (`SlotsInit`, `slot`, `ContentNext`).
`PROJECT.json` maps each definition to the lines it stands for.

### 2.1 TenantSlots

`tenant_slot` of one process. A poller (`slot`) is at one of the positions where the
coroutine can be suspended: `waitGlobal`, `waitTenant`, `inside`, or just woken
(`wokenGlobal`, `wokenTenant`: asyncio has set the waiter's future, but the coroutine
has not run yet). Between two awaits the code is atomic, so `Request` covers the
document lock, the increment and both non-blocking acquisitions. A semaphore is its
free permits and the order of its waiters (`ahead[p]`, the pollers served before `p`),
with the rule of Python 3.13's asyncio that a permit is handed to the first waiter
that was not woken yet and that a newcomer never overtakes. `Leave` is the end of the
body by return or exception, `Cancel` a `CancelledError` at whichever await the poller
is; both unwind exactly what was acquired.

### 2.2 JobQueue

The rows of one job type, numbered in the order of `created_at`. A row is its status,
its document, and `fresh`: whether `updated_at` is younger than the cutoff, the only
thing any query reads from it. `TriggerEnqueue`, `FetchNextJob`, `MarkJobFinal`,
`RequeueJobForRetry`, `RequeueStaleJobs`, `Beat`, `GrowStale` are the statements of
the SQL functions and of `SupabaseJobStore`, with their WHERE clauses as conjuncts or
as the set of rows they select. `MaxJobs` bounds the rows; a step that would insert
one more is not taken.

### 2.3 IngestionWorker

Several processes, each with pollers, and the documents they work on.

| code | model |
|---|---|
| `source_documents` (status, `metadata.retry_count`) | `docs` |
| `content_chunks`, counted in inserts of `save_chunks` | `chunks` |
| `ingestion_batches`, the collection sealed by `auto_seal` | `batch`, `sealed` |
| running processes, `_active_doc_ids` | `up`, `locks` |
| a poller's coroutine, its `job`, its copy of the row | `pc`, `job`, `rec`, `saved` |
| a `retry_ingestion` between its read and its write | `retryReads` |
| an upload between the insert of its document and the update of its batch | `marking` |
| a `delete_document` that has not come to the row; documents it took chunks of (history) | `deleting`, `purged` |

Each position of a poller is a database call of `_process_one_job`, `handle_ingestion`
or `process`, and each action performs that call with everything the code does until
the next one. The pipeline's positions are `start`, `wipe`, `persist`, `enqueue`,
`success`, and `error` for the exception path; an exception raised by any of them, or
the deletion of the document, leads there. The API's calls are as fine: an upload inserts its document
(`Register`) and later sets the batch to processing, whatever that has become (`MarkBatch`); a
deletion finds the row (`DeleteBegin`), takes some of the chunks at a time (`PurgeChunks`) and
the row last (`DeleteRow`), may stop after any of these, and goes on while the document
is ingested; so does the pipeline's own deletion, which goes by batches (`WipeChunks`). The wait for a slot is one position: that
it ends is shown by TenantSlots, whose `EveryRequestServed` is what the fairness of
`EnterSlot` stands on.

Faults are kinds chosen per run: `crash` (the process dies), `lookup` (the row cannot
be loaded: a transient error requeues the job and ends the process, any other fails
the job), `lapse` (the heartbeats of a held job do not get through), `mark` (the final
mark raises, applied or not), `progress` (the progress RPC fails), `write` (a call of
the pipeline fails), `fetch` (a claim's answer is lost). `MaxFaults` bounds their sum.

### 2.4 BatchProgress

`update_batch_progress` as a function on the batch row: which counter grows and which
status follows. Used by the worker and by the uploads.

### 2.5 Uploads

Concurrent calls of the upload endpoints. A call is at one of the positions of
`Places`, each a call to the database or to storage; paths are `batch`, `keyed` (own
document, `Idempotency-Key`) and `plain`. The worker appears as what the endpoints
can see of it: `run` is the active job of a document, which the trigger inserts (`Enqueue`) and
`StartRun`, `EndRun` and `Report` take through the pipeline and the report to the batch;
IngestionWorker models how. `Requeue` is the retry endpoint, which asks no limit; `retried`
remembers it. A keyed call is made to one of the `Stores` of answers: the only one with Redis, else
that of its process. An answer is there until it lapses (`Lapse`: 600 s, or the end of the process);
`made` counts what was registered under a key in the meantime. Sealing by hand is its three steps: seal
the collection, count the statuses, overwrite the counters.

### 2.6 Enrichment

One document, ingested up to `MaxGens` times, and its enrichment. The document's chunk
is the number of the ingestion that inserted it; its text is the set of nodes whose
anchor token it holds.

| code | model |
|---|---|
| the `enrich_document` rows | `jobs` of JobQueue |
| the pipeline between two of its steps that matter here | `ingest` |
| `content_chunks` row and its `content` | `chunk`, `text` |
| `visual_nodes`, the storage bucket | `rows`, `assets` |
| `routing.visual_tasks` in the row's metadata | `tasks` |
| tasks bound so far, entries still to integrate, `parent_content_state`, node id | `run[p]` |
| `asyncio.create_task(update_chunk_content(...))` | `late` |

`Bind` is one turn of `_identify_candidates`, `Upload` … `Remove` are the calls of
`integrate_visual_node` and `_fallback_stitch_without_rpc` in their order, `Degrade`
is the exception path of `_integrate_entry`. Deleting a chunk cascades to its nodes
(the foreign key goes to `content_chunks`, the only candidate table the migrations
create) and leaves their images. A fault is `refused` (no effect), `lost` (effect
without answer), `cleanup` (an undo step fails), `lookup`, or `crash`.

All visual tasks of the model share one page, hence one parent: the interesting case,
since entries with different parents touch different rows. RAPTOR and the graph swallow
their errors and write to tables of their own; they are the one step `Knowledge` here and
the subject of KnowledgeGraph.

### 2.7 Chunking and DocumentContent

A text is a sequence of blocks (what stands between blank lines), each with a length, the
level of the heading it starts with, and what the regular expressions find in it: whether
the line is wide, short and numbered, boilerplate, a translation mark; whether it speaks of
contents or of a copyright. That is all the code's decisions depend on. `Chunking` has the
functions, sequential code as recursive functions of a place in a list: which pages are read
as images (`Visual`, `TextPages`), running heads (`StripRepeated`), the text with its page
windows (`Payload`), cleaning (`StripToc`, `Clean`), splitting (headings, `RecursiveSplit`,
short sections carried over), pages, roles and breadcrumbs.

`DocumentContent` is the run around them: clean up, read by one of the three strategies, late
chunking, one request per batch of texts with the fallback provider, one insert per batch
of rows; any of them fails or the worker dies, and the document is taken up again. One of the
vectors asked for may be missing, at any place (`Cuts`): the answer is a list, so those after it
move up (`MovedUp`). Cohere pads each request with zeros, Jina the end of all the answers. Jina's late
chunking has vectors of its own (`LateVectors`): zeros in place of what is missing or of
a batch that failed, or, when its fallback comes up short, one vector less than windows, of which
`zip` then drops the last.
`chunks`, `vectors`, `todo` and `rows` are what the process holds and what is stored.
A vector is the number of the text it was computed from and its provider.

### 2.8 KnowledgeGraph

`build_tree` as the loop it is: cluster the level, have each cluster summarised (some fail),
store the nodes, mirror them as entities, then their edges, and go on with what was made.
Clustering is a numerical choice and appears as a constant operator: any sequence of sets
of nodes a mixture may give, overlapping and incomplete ones included. After it the section
nodes, CONTAINS edges (the stack of headings, `Popped`) and links of the same job. Jobs of
different documents run side by side; a failure ends the tree and not the job, a crash ends
the job, and nothing of an earlier run is removed. `Resolve` is the way back, from summaries to leaves:
level by level, as deep as its queries succeed, since one that fails ends the descent with what was
found. The leaves have identities of their own and are no rows of `content_chunks` (section 5).

### 2.9 CommunityRebuild

The schedulers of the worker processes and the community workers, for one tenant. The queue
is `JobQueue` by INSTANCE, with the tenant for its document. The graph is a version number,
read twice by a rebuild, so that a rebuild may have seen two versions. `stored` is the set of
rows with the rebuild they come from, `torn` whether the last rebuild to write was cut
short. The jobs of a tenant are all alike, and the place of an ended row that nobody holds
is used anew, which is why `MaxJobs` bounds active and held rows only.

### 2.10 Picking, Scoping, Ranking, QueryCall, HybridSearch

Ranking is choosing rows and putting them in an order. `Picking` says how a sequence is made
from a set of its positions: `Kept` (a comprehension with a condition), `FirstBy` (deduplication),
`Sorted` (Python's stable sort), `Take` (a slice). The element at place `k` of an order is
the one with `k` elements up to it: a definition without recursion, which the provers can use.

`Scoping` is about labels of standards ("ISO 9001:2015" as number, separator and tail, since
the code compares keys, texts and parts of texts in different places) and the filters of a
query: validation, resolution, sub-queries, the penalty's test. `Ranking` is the pure
functions on rows: the gravity reranker, the penalty, strict filtering, stratification over
standards, the external reranker's permutation, reciprocal rank fusion, late fusion by
quota, deduplication. Scores are integers; a score that only orders rows is ordered the same. Of the gravity reranker's
multipliers the boost of a heading is kept apart, since the cut by score spares a row that has one;
the others are one `weight`, their product. `Scoping.Within`, which compares texts, takes no
number of a standard for the beginning of another's ("ISO 45" of "ISO 45001"): the numbers of the
model are not of that kind, and nothing is claimed about standards whose numbers are.

`HybridSearch` is one query through `run_hybrid`. `stage` is the call the query waits for:
validate, embed, the RPC calls (one per standard, in any order), navigation, resolution of
entities to chunks, reading the chunks, the direct search, ranking. A request is a member of
`Requested` (the labels it lists, a single one, a clause). Failures go where
the code's `except` clauses send them: swallowed by `gather`, to the direct search,
to the literal clause fallback, or to the caller. A document may be deleted between any
two. The answer is checked by `LeakCanary` last.

`QueryCall` is the abstract specification: a query ends once, with an error or with at most
`Limit` rows of the catalogue. `HybridSearch` implements it (`ImplementsCall`, with the
mapping of `stage` to `status` and of rows to ids). `QueryFanout` builds on that promise
only: its calls start and end, once, with rows or without.

### 2.11 GraphSearch and QueryFanout

`GraphSearch` is the two searches of the graph that the chat's router makes. `LocalSearch` asks
the multi-hop function of the database; where that raises or finds nothing, it takes the
entities of the query (from the language model, or from the text) as anchors, by name, by
vector in the database, or by comparing all vectors in the process, and reads what is related to
them. `GlobalSearch` asks for the communities near the query, or compares those of the lowest
level. Both are functions of a *world*: what the tables hold, how similar it is to the query,
and which calls raise. So each link of the chains of fallbacks is in the model, and which failures
are swallowed and which reach the router is computed, not assumed.

A request of one of the kinds multi-query, parallel plan, sequential plan, comprehensive,
router chat, vector chat, paged chat. `calls` has the state of each of its calls; they start
under the code's conditions (the semaphore for sub-queries, the order of a sequential
plan, the sources the classified mode asks for), end in any order, and are merged when all
ended, or earlier where the code gives up early. The graph's calls end as
`LocalSearch` and `GlobalSearch` say in some world, the others with any of their answers or a
failure. A chat keeps the rows in scope, if there are any, and then checks each row's owner; a
multi-query checks the owners of the rows it has merged (`Foreign`), after each sub-query has checked its own.

## 3. The runs

All runs are made with two workers of TLC; none takes more than two and a half minutes.

| run | module | what it asks | states |
|---|---|---|---|
| `tenant_slots` (`TenantSlots.cfg`) | MCTenantSlots | are slots exclusive, leak-free, live? | 22,935 |
| `worker_recovery` | MCIngestionWorker | what holds through crashes, lost calls, retries, deletions? | 79,769 |
| `worker_lapses` | MCIngestionWorker | what still holds when heartbeats fail? | 1,208,767 |
| `worker_clean` | MCIngestionWorker | do batches settle when nothing fails? | 63,309 |
| `batch_uploads` | MCUploads | by how much can the limits of a batch be passed? | 672,911 |
| `single_uploads` | MCUploads | how many versions, keyed and pending documents can there be? | 983,400 |
| `enrichment` | MCEnrichment | does stitching keep nodes, tokens and images together? | 2,097,509 |
| `document_content` | MCDocumentContent | does a document's text arrive whole, with its own pages, roles and vectors? | 60,460 |
| `knowledge_graph` | MCKnowledgeGraph | do summaries lead back to their leaves, do sections nest? | 1,229,746 |
| `communities` | MCCommunityRebuild | are the stored communities those of one, recent rebuild? | 23,612 |
| `hybrid_search` | MCHybridSearch | does one search keep its promises under failures? | 190,406 |
| `query_fanout` | MCQueryFanout | do requests with several calls use partial answers and end? | 7,631 |

Deadlock checking is off where the system may stop: a queue without work stops, and so does
a model whose bounds are used up. It is on in `hybrid_search`, `query_fanout` and
`communities`: a request that is neither over nor able to go on would be reported.

### 3.1 tenant_slots

Four pollers, three global permits and one permit per tenant; three documents of one
tenant and one of another. Three global permits are fewer than pollers, so that pollers
queue on the global semaphore too (the default configuration has as many permits as
pollers; theorem `NeverQueues` says what that implies). One permit per tenant makes the
second and third poller of a tenant queue while they hold a global permit.
The process may stop at any time, which cancels every poller.

- `DocExclusive`: documents in hand are pairwise different and are exactly the locked ones.
- `PermitsConserved`: nothing leaks on any exit.
- `EveryRequestServed`: who asks is served, or the process stops.

*Fairness*: weak, for the resumption of a woken poller, for the end of a body and for the
unwinding of a cancelled one. The event loop runs every ready task, and the pipeline's
calls have timeouts. Nothing obliges a poller to ask or a process to stop.

### 3.2 worker_recovery

Two processes with one poller each, one document, which is in no batch (batches have the next two
runs), two faults of five kinds (all but lapsed heartbeats and failed reports),
two API calls among retry and deletion, up to three jobs. Two pollers in different
processes are the hard case, since `_active_doc_ids` cannot keep them apart; two faults
allow a crash in the repetition of a run that has already crashed.

- `SingleActiveJob`: one active job per document.
- `ExclusiveClaim`: a claimed job is in one live poller's hands.
- `OneProcessorPerDoc`: no two pollers of any processes work on one document.
- `ProcessedHasChunks`: a processed document has the chunks of one run, never more, and fewer only if
  a deletion took some. That deletion may have failed before it came to the row, or be under way:
  then a processed document without all its chunks is what there is (section 5).
- `OrphansExplained`: a document that waits, or is processed, without an active job was
  retried or met a fault. Nothing brings it back (section 5), so the property says in which
  cases alone this happens.
- `JobsFinish`: every pending job ends.

*Fairness* (also of worker_clean): weak, for each poller's handler, for its polling loop,
for the requeue of stale jobs, for the restart of each process, and for the expiry of a
job without holder. The handler is asyncio code whose every call returns or raises; the
loop polls for ever; `docker-compose.yml` restarts the workers; time passes.

### 3.3 worker_lapses

One process with two pollers and one document in a batch, up to two retries, two faults among
failed lookups, lost reports and heartbeats that do not get through: in the last case the job is requeued under its
holder and claimed again. Claims are not exclusive any more, and `ExclusiveClaim` and
`OneProcessorPerDoc` do not hold (TLC finds it when they are added). What holds all the
same: `LocksExact` (the document lock is then what keeps two pollers of the process apart,
and it is held exactly by those inside `tenant_slot`) and `TerminalJobsStayTerminal`.

### 3.4 worker_clean

Three pollers in two processes, two documents in one batch, no faults, no retries.
`ClosedBatchSettled` and `BatchCountsRuns` relate the batch row to documents, jobs and
pollers; `BatchCloses` is the progress that users wait for: the batch closes if all its uploads are through
(`UploadsThrough`: registered, and the batch set to processing) before its last run is counted. An
upload that comes later re-opens the batch for good, in this run too (section 5). Without faults,
because with them the code does not promise it (section 6).

### 3.5 batch_uploads and single_uploads

Two concurrent callers. The limits of the API are checked before they are used up, so the
question is not whether they are passed but by how much: at most one per further caller.
The properties state this in the form that is inductive: what is there plus what is on its way.
With one caller the limits are exact.

- `batch_uploads`: two files, a limit of two files in the batch and of one pending document, four
  document ids, the seal by hand: `BatchLimitOvershoot` and `SameFileOvershoot`.
  Nothing is retried or deleted by hand there.
- `single_uploads`: one file under a key, two stores of answers, answers that lapse, deletions, a retry
  by hand, one fault, three document ids. `VersionsOvershoot` and `KeyedOvershoot` count failed
  calls too: the clean-up of previous versions swallows its errors, and an answer that was never
  stored makes a repeated call register a second document. `KeyedOvershoot` is about one store,
  from one lapse of its answer to the next: a repeat after 600 s, or in another process without
  Redis, registers a document again and is not counted against the bound. `PendingOvershoot` leaves
  out the documents retried by hand: `ingestion_ops.py:203` does not look at the limit, and any
  number of settled documents may be queued again on top. (The check and the insert of uploads into a
  batch are as far apart, and `PendingBounded` covers them, section 4.6.) An upload without a key is one whose
  answer is never found: to the documents it does what a keyed one does whose answer
  lapsed at once, so the run has no path of its own for it.

Callers, document ids, file names and stores are interchangeable (no action or property tells
them apart), and no liveness is checked there, so the symmetry is sound. The limits are small enough
to be met, and the document ids enough for the two callers to pass them twice.

### 3.6 enrichment

Two pollers, one replay, two visual tasks, two ingestions, three jobs, two faults of any
kind. Two tasks of one chunk are what makes a token endangered by the next one; a second
run over the same chunk (by the replay) endangers the tokens of the first; the second
ingestion replaces the chunk under a run. `MaxIds` = 4 allows every task to be stitched
in two runs. Pollers are interchangeable (symmetry; no liveness).

- `SingleActiveEnrichment`: one active job, although both inserters check first and insert
  later, without the trigger that the ingestion jobs have.
- `NodesKeepTheirAnchors`: unless an integration on the chunk was given up, each visual
  node has its token in the chunk's text. This depends on the unique job, on the claim, and
  on the text that a run keeps between its entries.
- `StitchIsAtomic`: the nodes stitched in part (row without image, image without row, token
  without row) are at most as many as there were lost answers, failed undo steps and
  crashes. In particular, refused calls alone never leave anything behind.
- `OwnEnrichmentComes`: chunks whose enrichment was announced are loaded by a job, or have
  one that is still to load them, when the job is their ingestion's own and no call fails.
  It does not hold for an ingestion that met an active job (section 5).

### 3.7 document_content

Nine combinations of document and contents list for the full strategy, three for the fast
one, one text that is already processed; eight configurations (structural chunks skipped
or embedded, local or cloud parser, either provider). The documents are small but each
has what one kind of step needs: headings of three levels over three pages, a short
section before a long one and at the end, a paragraph over the limit, front matter, a
contents list, boilerplate, running feet, translation marks, pages read as images within
and beyond the budget, text that looks like a contents list from end to end. The limits are
scaled down with the documents: what matters is which side of a limit a length is on, and
both sides occur. Two attempts let rows of a failed one meet those of the next; requests
and inserts take two texts or rows, so that every document needs more than one.

- `TextConserved`: the chunks put together are the cleaned text, every block in one chunk or
  in consecutive ones. Only the end of it may be lost: one window, when Jina's late chunking falls back
  to batches and is answered without one of the vectors (section 5).
- `PagesFaithful`: a chunk is filed under the page its text starts on, exactly when nothing
  was cleaned away, and otherwise never a later one but the last.
- `ProcessedComplete`: a processed document has the rows of its last attempt, each chunk
  once and in order, all vectors of one provider.
- `RowsMatchRole`: whatever a search may return has a vector, and with skipping on
  nothing else has.
- `VectorsOwnText`: no row is stored with the vector of another text without a trace. Where one is, a
  vector was missing, and with Cohere the last text of the same request has a zero vector, with Jina
  the last text of all, or late chunking has lost the end of the text.

Of the vectors asked for at most one is missing, at any place (windows sent to Jina at once may each have
zeros in place); no answer is longer than the question.

### 3.8 knowledge_graph

Two documents of one tenant, three choices of what they hold: two trees at once, two
contents lists that share names, both for one document. Two levels over four chunks,
with clusters that overlap and ones that leave a node out; answers with equal titles, within
a level and against the other document, and with failures. Two runs: two jobs side by side,
or a job that runs again after a crash.

- `LeavesReached`: going down from any stored summary ends at exactly the leaves it was made
  from, whatever failed since; when a query of the descent fails, at some of them and at nothing else.
- `GapsOnlyAtTop`: a summary that another one was built on has its entity and its relations.
- `SectionsNest`: a CONTAINS edge joins a section to the nearest preceding entry less deep.

`LeavesReached` is about the tree, and not about what a search gets through it: the leaves of a
summary are no rows of `content_chunks` (section 5).

*Fairness*: weak, for the steps of a job. No property of this run needs it.

### 3.9 communities

One scheduler, two workers, two changes of the graph, two faults (a crash, a refused call, a
mark or a claim whose answer is lost, a failed enqueue). Communities of version 2 need two
batches, so that a crash can come between them. One scheduler, because with two the
property does not hold (section 5); the default deployment has one worker process, and
theorem `RebuildsKeepApart` names the assumption.

- `OneSnapshot`: the stored rows are of one rebuild, and are all of them unless one is being
  written or was cut short.
- `Refreshed`: once there is a graph, the communities are those of the current one again
  and again.

*Fairness*: schedulers tick, workers poll and their calls return, stale jobs expire and are
requeued, and a dead community worker is started again. `stack.sh` starts it in the
background and does not watch it: the last point is an obligation of the operator, and
without it `Refreshed` says nothing.

### 3.10 hybrid_search

Three chunks: two of one standard, one in an edition of it; one of another standard,
without an owner in its own metadata. Two entities, one of them without a chunk, the other
with chunks of both standards. One query names both standards, one names one and a clause.
Every combination of reranking, strictness and mode, valid and refused filters. `K` = 2 of
`FetchK` = 3 and a gravity reranker that keeps two (`GravityLimit`) make every cut cut something; one
chunk weighs twice the others, so that the weighing changes the order. The hybrid RPC may return any sequence of
matching chunks, and the reranker any selection, so scores and texts are not enumerated. No
chunk of the run is structural, since dropping one from an answer gives another answer the
RPC may give.

- `ScopesBalanced`: no standard takes two places more than another that has rows left, of those that
  gravity and reranking have left: it is about the final cut.
- `RankingKeepsCandidates`: where everything fits, no candidate that the weighing kept is lost. What
  gravity itself cuts away is not claimed (section 6).
  Both assume that no standard is requested under two labels (section 5); the run has queries
  for two different ones.
- `EntitiesRepresented`: every entity found is in the rows of the graph hop, unless one
  of its chunks was deleted during the query.
- `ImplementsCall`: the query is a `QueryCall`.

### 3.11 query_fanout

Twelve requests over all kinds, with two or three sub-queries of which two have the same
key, one permit for the sub-queries, answers that are empty, overlap, repeat a row, or name
rows of other standards. A call may fail, be late where there is a timeout, be dropped
for its scope, or return a foreign row where that is checked. The router's searches of the graph
are made in 26 worlds: nothing to find, an entity only its name leads to, two related entities,
near and far communities, each with nothing failing and with one or more links of the chain down.

- `LateFusionFills`: the fusion has `k` rows or all there are in the rows of the chunks and of the graph,
  each once. (The rows of summaries are left out of "all there are". The run gives some summaries
  leaves that are stored chunks, the case the fusion is written for; trees built at this
  commit have none, section 5.)
- `PartialFailureAnswers`: multi-query, the parallel plan and the late fusion do not fail
  while another call found rows, except for a security breach; and a multi-query fails if one of
  the rows it merged names no tenant (it may, if it is marked `is_global`: section 5). The router fails only when its
  second vector search does, on a row of the vector search that has no owner (one of
  `_execute_direct_fallback`), or on a row of the graph that the filter for scopes leaves there
  because the query names no standard or no row is in scope (section 5): no failure inside the
  searches of the graph fails the chat.
- `RequestEnds`: no sub-query waits for a permit for ever, and every request ends.

*Fairness*: weak, for the steps of the request: sub-queries are timed out (`wait_for`), and
the clients of all other calls have timeouts of their own.

### 3.12 Why these properties say something

`PROJECT.json` names, for each property of each run, a mutant: a plausible bug of the code
(a permit not released on cancellation, a requeue that ignores the cutoff, chunks not
wiped, a trigger that forgets processing jobs, an off-by-one in a limit, rows the
reranker left out being lost, a source of the fusion awaited without
`return_exceptions`, …) under which TLC finds the property violated in the same run. The
mutated operators are in the modules, each marked "Mutant", right before the definition
they distort.

## 4. The proofs

TLC checks instances; the theorems hold for every value of the constants, under the
`ASSUME`s of the modules (typing of the constants, finiteness of `Pollers`, `Callers` and the
stored chunks and entities, and what the code guarantees about them: at least one permit, the
capacity of the semaphores, `MAX_RETRIES` > 0; no more levels
of a tree than the resolution goes down, 3 and 5; sub-queries with names of their own, and
an owner in every row of `retrieve_summaries`, which stamps them; blocks that are not empty,
each known by where it stands, and pages numbered in the order they are read) and, where a theorem says so, under a
hypothesis of its own:

- `NoLapse` (IngestionWorker_proofs, part 2): the heartbeats of live processes get through. Run
  `worker_lapses` shows what is lost without it.
- `Undisturbed` (the two batch theorems of IngestionWorker_proofs, part 3): no faults, retries
  or deletions. Section 6 says what each of them does to the counters.
- `OneScheduler` (Exclusion_proofs, of the communities): one worker process schedules. Section 5
  describes what two may do.

### 4.1 Exclusion_proofs: TenantSlots

The inductive invariant `SlotsInv` joins the type invariant with five facts:
`DocExclusive`; `QueueOrder` (who is ahead of whom is a strict order on the waiters, which
"the first waiter" needs to be unique); `GlobalConserved` and `TenantConserved` (free
permits plus holders make the initial value, where a woken poller already holds its permit,
which is the detail that a lost-wakeup bug would break); `ActiveJobsExact`. `PermitsConserved`
follows from them, and `LimitsHold` (no more bodies than permits) from it by cardinality.

Theorems: `SlotsTypeCorrect`, `DocumentsExclusive`, `PermitsNeverLeak`, `MetricExact`,
`LimitsHold`, `NeverQueues`. Counting steps rest on the library's facts about the
cardinality of finite sets.

### 4.2 IngestionWorker_proofs

Part 1. `IInv` == `TypeOK` /\ `HeldRows` /\ `SavedInStep`. `HeldRows` says that a poller with work
in hand has a row of the table; it survives requeues because rows are never deleted.
With it, each statement of the queue is shown once to preserve the table's facts
(lemmas per operator of JobQueue), and each action of the worker is a few lines. Whatever
the faults: `TypeCorrect`; `EndedJobsStayEnded`, the action property that no requeue or late
heartbeat revives an ended job; `AtMostOneActiveJob`; `DocumentLocksExact`, which needs no
exclusive claims and therefore covers lapsed heartbeats.

Part 2 adds `NoLapse` and builds on part 1 in three layers. `Claimed`: a job in
hand is in one hand, its row is fresh, so that no requeue takes it, and processing until its
holder has marked it; hence `JobsHaveOneHolder`. With the one active job of a document,
two pollers at work on a document hold the same job (lemma `OneProcessor`); hence
`DocumentsHaveOneProcessor`. That makes a run the only one to insert chunks of its document; a
deletion, whose calls come between any two steps of the run, only takes some away and is remembered
in `purged`. `RunOK` says how many inserts there are at each position after the wipe, no more than
those made and fewer only if the document is in `purged`, and that the document is not yet
processed again; `Registered` (a job's document exists) rules out the one API call that
would break it. Hence `ProcessedDocumentsComplete`, for any number of inserts, processes, deletions
and faults.

Part 3 is about what holds until something fails. `Quiet` says, under the condition
that no fault has happened yet: claims are exclusive, a job in processing is in somebody's
hands, a document queued for its first run has a job that is pending or in the hands of a
poller that will take it up with the row as it is now (`QueuedTaken`), a document in processing is in a
pipeline (`RunGoesOn`). The point is the poller's copy of the row, read before the wait for
a slot: for a first run no step of another actor makes it stale, for a retry the API does,
which is what `OrphansExplained` excludes. `NoDocumentIsLost` follows without a hypothesis.
For the batch, `Clean` says that a document has one job ever (`FirstRuns`), that its row waits until
that job starts the pipeline and is settled when the pipeline is over (`Stages`), and that the
counters are the number of jobs past the RPC (`Tally`). The RPC is the only step that
changes the counters, and it moves exactly one job past it, because the job is in one hand:
`CountersFollowRuns`. A batch whose counters have reached its total has been told of every
document, and each of these is settled: `ClosedBatchesSettled`.

### 4.3 Enrichment_proofs

Two layers. First the queue: `IInv` == `JobsTypeOK` /\ `HeldRows` /\ `OneActive`, where the
second inserter is stopped by the unique index; hence `AtMostOneActiveEnrichment`.

Then the stitching. `Exclusive` says that a row in hand is in no other's hands, cannot
be requeued, and is processing until its holder has marked it; with `OneActive` it follows that
two pollers are never both at work on the document (lemma `OneAtWork`). So a step of a run
has to be considered against that run's own memory only, which is lemma `WorkStep`. The memory is right by
`Anchored`: on a chunk where no integration was given up, every text a run keeps for it
holds the tokens of all nodes but the one in work, whose token is in the chunk before its
row is. `RunOK` has the shapes of a run's variables. An id that was just drawn has no row, a chunk
that is about to be inserted is bound by no entry, a late write goes to a chunk where an
integration was given up: these three close the induction, and `AnchorsStay` proves
`NodesKeepTheirAnchors`.

Atomicity is a count. A `Mark` is a node that is stored in part, or is still in work and would
be if the run stopped now; `Charges` counts the lost answers, failed undo steps and crashes.
Each position of a run says which parts of its node exist (`Sound`), so that the undo steps
of `_fallback_stitch_without_rpc` are seen to remove exactly what was made; each step makes
no mark, or one mark and one charge. `TornNodesAreCharged` is that inequality, between
steps of a run as well as at its end. What takes work is the kept text: a write of it could
bring back the token of a node that was undone, and `Sound` says that the node in work is in
no text that is kept or still to be written.

`AnnouncedIsAwaited` follows one job: from the insert that announces the chunk it is active and, if
a poller holds it, not past the loading of the chunks (`Awaits`). Without faults only that
loading ends the wait, and it loads the chunk that is there, which no other ingestion may have
announced since.

### 4.4 Content_proofs: KnowledgeGraph

`LevelsAreWhole` proves `GapsOnlyAtTop`, for any clusters, depth, number of documents and
failures: a summary that is a child of a stored one has its entity and its relations. (It does not say
that every summary becomes a child of one: clusters may leave it out.) The property speaks of rows; what makes it true is in the jobs: `Below` says that
what a job clusters is stored and mirrored whole, `MadeOK` how far the level just made has
come, `NodesOK` that the children of stored rows are whole and no identity is used twice.
The last needs that jobs have different numbers (`RunsApart`) and that a job has stored
nothing above its level (`Ceiling`). One lemma per step of a job; that the tables only
grow carries everything over the other jobs' steps.

`SummariesReachLeaves` proves `LeavesReached`. `TreeInv` adds that what a job clusters spans exactly
the leaves below it and lies one level down. Going down from a row is a recursive function
of the number of levels; `DescendIs` says that after `k` of them it holds the summaries `k` levels below and the
leaves met so far, so that `ResolveDepth` levels, no fewer than a tree has, end at the leaves, and
fewer, when a query fails, at some of them. Which rows the leaves are is not the theorem's
subject: they are no stored chunks (section 5).

`ContainmentIsNesting` proves `SectionsNest`. The stack of headings is a recursive function of the place
in the contents list. `StacksCover`: what has been popped since an entry was pushed is no less deep
than anything between; so the top of the stack, after the pops of an entry, is the nearest
preceding one that is less deep.

### 4.5 Exclusion_proofs: CommunityRebuild

`Claims` is about the queue: one active job, held by one worker at most; a worker that still
works holds it; a scheduler about to insert has seen that there is none, which is where
`OneScheduler` enters. `Snapshot` is about the rows: while a worker inserts, they are exactly
what it has inserted. `RebuildsKeepApart` follows, for any number of workers, batches,
versions, partitions and faults, crashes included.

### 4.6 Uploads_proofs

Each limit is checked in one step and used up in a later one, so the invariant is a sum:
what is there plus the calls that are past the check. A step either lets both shrink,
or trades one call for one document, or makes the check, and then the sum is at most the
limit plus the other callers. `PendingBounded`, `BatchLimitBounded` and `SameFileBounded`
are this argument for three counts; that of pending documents leaves out the ones retried by hand, which
no check holds back, so that a retry does not add to it. `IInv` == `TypeOK` /\ `InPlace` says what a call holds at
each position.

`VersionsBounded` and `KeyedBounded` need to know which call a document belongs to.
`EachLeavesOne`: whatever set of the calls that are cleaning up finishes next, the live versions
these leave and the calls themselves are together no more than callers and faults; the set is
quantified because a call deletes what it saw, not what is there. `OncePerKey`: the documents made under a key
at one store since its answer last lapsed, together with the calls that found no answer there and have
not registered theirs, are no more than callers and faults, and as long as no answer is stored each
of these documents is that of a call about to store one, or of one that failed. A lapse takes the count back to
zero, which is where the claim ends and begins again.

### 4.7 Ranking_proofs and HybridSearch_proofs

Everything about sequences rests on one lemma about orders, `Places`: in a finite set with an
order there is exactly one element for each place from 1 to the size of the set. So a
sequence made by `InOrder` has every element once. `SomeOf` says this of the positions picked from
a sequence, and holds of everything `Picking` makes: what is kept, sorted or cut repeats no
position and adds none. `FlattenIs` says what the one recursive function used here does: that there
is such a function, and its values, is shown by the least index at which either would fail.

`stratify_results` takes turns over buckets. `StratifyIs` says that, over distinct standards, no row
is lost or doubled before the cut. `StratifyBalances`: a turn of a later round comes after all turns of
the earlier ones, so a standard with two rows more in the cut than another was given
a turn of a round in which the other had nothing left. `FusionFills` is the late fusion: any three
sources, with any overlap and any quotas, give `k` rows or all there are, each id once. It is
what `LateFusionFills` checks of the requests of `query_fanout`, proved of the operator (4.8
carries it to the requests).

The type invariant of HybridSearch is proved along with `Outcome`: each step leaves the query
open, fails it, or answers it with at most `K` rows of the catalogue. Hence `QueriesAreTyped`, and
`QueriesImplementTheCall`, step by step: a step maps to an answer, a failure or a stutter of `QueryCall`.
Two properties are about what happened before:

- `EntitiesAreRepresented`: `HopInv` adds `NoHopYet` (no rows of the graph while the engine still
  makes its calls). `GraphRowsAre` and `UngroundedIs` show that the rows made at the hop's end
  hold every entity, linked or not, unless a chunk it came from is gone; a later deletion only
  widens that exception.
- `CandidatesAreKept` and `AnswersAreBalanced`: `AnswerIsRanked` remembers that a ranked answer is the
  final cut of the pool, and the pool the rows or what the reranker made of the candidates.
  Weighing, penalty and strictness never make more rows than there were (`NoMore`), so if
  the rows fit, the final cut cuts nothing; the reranker's answer and what it left out are together
  each candidate once (`RankedIs`).

### 4.8 QueryFanout_proofs

`IInv` is about the calls: which ones a request of each kind makes and what the rows of each are like:
rows of the graph name no standard, those of the summaries have owners.

`LateFusionIsFull`: the answer of a comprehensive request is what the fusion made of what its calls
returned, whichever of them failed; with `FusionFills`, and `EachOnceCounts` for the rows the sources
have between them, it is full.

`FailuresArePartial`, the router's clause: everything that is done to the rows between the calls
and `LeakCanary` (deduplication, ranking, penalties, the filter for scopes) keeps them in a set
that is closed under another score (`Weighable`). So a row without an owner at the end is one that
a call returned, and if it is of the graph it names no standard: `ForeignRows` says when the
filter leaves such a row. The multi-query's clause is about the rows of its sub-queries, one call each: it
fails only if every sub-query has failed, and then no call found anything, or if a row among
those it merged names no tenant. A search of the graph that fails adds no rows, and nothing else of it
reaches the request.

### 4.9 Content_proofs: DocumentContent

The functions of Chunking are recursive, and the provers do not do induction over data;
`RecursionIs` says that such a function exists and has the values its definition states, by the
least argument at which it would not. From it follow what kinds of thing `Span`, `Pack`,
the page windows and the splitters compute, for any document.

The theorems rest on `ContentInv`: what is stored of this attempt and what is still to be stored are,
together, `Complete`: the rows of all chunks that have a vector or need none, in order, each with its own vector.
`AssembleStep` shows it where the rows are made, where the two judgements of a chunk's role meet (`RowIs`,
`EmbeddedIs`); `SaveStep` moves rows from one to the other; `CleanupStep` is why nothing of
an earlier attempt is left when rows are stored again. Hence `StoredRowsMatchRole`,
`VectorsStayWithTheirText` and `ProcessedIsStoredOnce`, for any limits, batch sizes, number of attempts
and texts a vector is missing for. Of the vectors `Told` says that one which is not its own text's has a zero
vector after it, at the end of its request or of all; late chunking in zeros in place leaves each
its own, and its fallback, one vector short, is `EndLost`.

`ChunksAreTheText` (`TextConserved`). That a list of names is a copy of a part of a text is said by
places (`Copies`): one for each name, from the first of the part to its last, each the one before or
the next after it. Copies of parts that touch are a copy of the whole (`CopiesJoin`), and what
`Collapsed` makes of a copy of a whole text is the text, since no two blocks have one name. So
every way of splitting has a lemma of its own (`SemanticSplitCopies`, `SlicesCopy` and what they
rest on): the sections between two closing headings touch, packing cuts between pieces, the pieces
of a paragraph stand in one place, and the windows of a fixed size overlap by a block at most.
Cleaning and reading keep the names apart (`Proper`). `CopyInv` says it of the chunks of an attempt. Where
late chunking drops a window, what is left is a copy of the beginning of the text: a copy cut short
is one of a beginning (`CopiesCut`), and the names of a beginning are one of the names
(`BeginningCopies`).

`ChunksAreOnTheirPage` (`PagesFaithful`). A chunk `Starts` where its first block does in the text that was
split; each way of splitting keeps it, if no paragraph is over the limit. What is cleaned away only makes
a block start earlier (`LeftStartsEarlier`), and windows that ascend with their pages give an
earlier place an earlier page, but for a place in no window, which gets the last one
(`PageGrows`); that the windows ascend is `MapsAreOrdered`, of every way of reading the file. `PageInv`
ties the rows to it: each is filed by the start of its chunk, and the chunks are the sections of
the text that was read.

### 4.10 What is only model-checked

Liveness (`EveryRequestServed`, `JobsFinish`, `BatchCloses`, `Refreshed`, `RequestEnds`) is
out of the prover's reach.

The invariants and the action properties that the runs check are all proved. Of the operators only
what the theorems need is shown: what `Visual` spends of its budget, the breadcrumb a stack
of headings gives (`HeadingPath`) and the weights of `Ranking` are used as they are defined. That the
system gets anywhere, by the fairness of section 3, is left to TLC.

`JobsHaveOneHolder`, `DocumentsHaveOneProcessor` and `ProcessedDocumentsComplete` are proved under
`NoLapse`, the batch's counters under `Undisturbed`, and the balance of an answer for distinct
standards: in each case what the run assumes too.

## 5. Where code and claims part

What the repository says of itself and what the code does differ in the places below. Each
was met while modelling; the models do what the code does, and the properties of section 3
are worded so that they hold of it. The first five need an interleaving of two actors, and
four of them need no fault at all.

| claim | what happens |
|---|---|
| jobs "are enqueued from source_documents transitions" (`20260614010000_enqueue_ingestion_jobs.sql:1`) | The pipeline has written failed, the job is not marked yet, and a retry sets the row to queued: the trigger sees an active job and inserts none (line 23); the job is marked; nobody ever takes the document up. |
| a stale job is requeued and its run cleans up "for idempotency" (`processor.py:154`) | The worker died after `start_processing`; the requeued job finds the document in processing, which is not a pending state (`policies.py:26`), and completes without doing anything. |
| a batch is completed if no file failed (`batch_manager.py:202`) | `process()` returns normally after `handle_error`, so the dispatcher counts a failed document as a success (`job_dispatcher.py:54`). |
| a batch closes when all its files are counted (`20260213000001_batch_tracking.sql:63`) | The last upload inserts the document and only then sets the batch to processing (`ingestion_query_service.py:313`); a fast worker has closed it in between. |
| "Enriquecimiento post-ingesta encolado" (`processor.py:248`) | An active job that has already read the previous chunks (or none) counts as the new ingestion's job (`job_repository.py:29`). |
| "Suffix ensures summary nodes never collide with standard entities" (`supabase_raptor_repository.py:82`) | Two summaries of a tenant with one title on one level have one name, the unique index refuses the second, and the level has no mirror: `MirrorEntities`. |
| "No collision possible, so simple concatenation is safe" (`atomic_engine.py:109`) | The graph hop returns rows of chunks under the chunks' own ids, and a chunk found both ways is in the answer twice: `GraphRows`, `EngineReturns`. |
| one rebuild per tenant at a time (the check of `community_scheduler.py`) | The check and the insert are two calls and no unique index covers `community_rebuild`: two worker processes insert two jobs, two community workers take them, and a delete of one falls between two batches of the other. |

| "resolves RAPTOR summary IDs to their underlying leaf content_chunks" (`supabase_retrieval_repository.py:123`) | The leaves of a summary are fresh ids (`post_processor.py:289`) and no rows of `content_chunks`; a search gets no chunk through summaries: `Leaf`, `Resolve`. |

Other behaviour that a reader of the code might not expect:

- *Deletion.* `delete_document` takes the chunks in several calls and the row in a last one. When one of
  them fails, a processed document stays without some or all of its chunks, and nothing ingests it
  again: `PurgeChunks`, `DeleteRow`.
- *Retries.* The retry endpoint queues a document whatever its status, and without the limit on pending
  documents: `Requeue`.
- *Idempotency keys.* An answer is kept for 600 s, and without Redis by the one process that gave it. A
  repeat later, or in another process, registers the file again: `Lapse`.
- *Text files.* `strategies.py:481` uses `embedding_engine` before it is assigned (494), so
  every `.md` and `.txt` upload of that strategy fails: `ReadPreProcessed`.
- *Contents removal.* In a document of short lines only, everything from the first numbered
  line to the end of the scan counts as the contents list and is removed: `StripToc`.
- *Pages.* An offset between two page windows is given the last page; the windows are those of the
  text before cleaning: `PageNumber`.
- *Roles.* The role is judged again on the text with its context and location put in front; front
  matter that grows over the limit stops being front matter: `RowsMatchRole` says what is left.
- *Vectors.* A vector that is missing inside an answer is dropped from the list (`cohere.py:101`), the ones after
  it move up, and zeros are put at the end: of the request with Cohere, of everything with Jina. The
  texts between are stored with their neighbours' vectors. A document whose fallback was Jina keeps
  Cohere in its metadata: `MovedUp`.
- *Late chunking.* Jina's fallback sends the windows by batches; when the vectors come up short, the `zip` of
  windows and vectors (`jina_cloud.py:304`) drops the last windows, and with them the end of
  the document's text: `LateVectors`.
- *Graph extraction.* `graph_enricher.py:112` passes keyword arguments that
  `upsert_knowledge_subgraph` (`supabase_graph_repository.py:329`) does not accept; the
  `TypeError` at the first extraction that finds something is swallowed in
  `post_processor.py`, and the links of the job are skipped: `Extract`.
- *Sections.* The name of a section entity does not contain the document; a second document
  with the same contents list gets no nodes, edges or links of its own: `FreeRefs`.
- *Leaves.* `_map_to_raptor_chunks` gives every chunk a fresh id and no `section_ref`, so the
  structural mode never applies and a second run stores a second tree: `Leaf`, `SectionRef`. A query
  that fails on the way down from summaries is logged, and what was found so far is the answer.
- *Multi-query.* Duplicates of a sub-query count as answered: if all others fail, the answer is an
  empty success and not an error: `FailedCount`. The merged rows are checked for owners again, on metadata
  that no longer has `is_global` (`multi_query.py:152`): a row that belongs to everybody passes the check of
  its sub-query and then fails the whole request, whatever the others found: `Foreign`. `contract_manager.py:311` makes a method with
  `self` static; a bound call of it would raise.
- *Fusion.* An id that one source returns twice collects both scores. RAPTOR rows enter the
  fusion with a similarity of zero. The row scored lowest is scaled to zero and may fall to
  `min_score`.
- *Two labels of one standard.* `stratify_results` takes a turn per requested label
  (`app/domain/retrieval/fusion.py:261`), and labels that normalise to the same name share a bucket: such a
  standard has two turns a round, each giving the same row, so its rows are in the answer twice and
  crowd out others. Hence `IsInjective(Targeted)` in the two properties of the ranking: `RoundRobin`.
- *Graph hop.* If reading the linked chunks fails, the chunks found by the vectors go with it:
  `Hydrate`. An entity whose only chunk was deleted meanwhile is in no row.
- *Router chat.* With strict scopes, rows without a scope are dropped as well. The rows
  made of the graph (`_build_graph_result`, `routing.py:304`) name no tenant, so
  `LeakCanary` fails the whole chat with `SECURITY_ISOLATION_BREACH` whenever one is left:
  `GraphRow`, `Isolated`. It is left when the query names no standard or no other row is in scope;
  otherwise the scope filter drops every graph row.
- *Global search.* The function of the database answers with communities of a similarity of at
  least 0.25; the comparison that replaces it, also when the function found none, has no
  minimum and takes the nearest communities however far they are: `GlobalSearch`.

## 6. What is not claimed

Reading the code for the models brought up behaviour that no property here claims, because the
code does not promise it. It is listed so that nobody reads a passing run as saying more
than it does.

**Batches.** `update_batch_progress` is called once per run of a document and its errors
are swallowed (`job_store.py:173`): a lost call leaves the batch open for ever, a repeated
run counts a document twice and closes the batch early. Hence `BatchCloses` and
`BatchCountsRuns` are checked without faults only. `seal_batch` overwrites the counters with a
count of statuses taken before, and a report between the two is lost or counted twice.
Uploading into a batch reads the collection's context and so opens a collection that was
sealed; `COLLECTION_SEALED`, which the routers translate, is raised nowhere.

**Documents.** What a deletion that failed midway has left is not repaired; only asking for it again
does. A plain upload whose later step fails removes the stored file although the
row may be registered. `_cleanup_previous_versions` selects rows by file name alone, across
tenants and batches. The pipeline writes back a copy of the metadata, so a
`retry_count` written in the meantime is lost; a document at `MAX_RETRIES` may be queued and
is then ignored by the policy. A `CancelledError` that the worker raises on purpose after a
transient lookup error ends the whole process, and so does an exception of the scheduler's
tick (`worker.py:155`).

**Enrichment.** A fire-and-forget write of a chunk's text (`context_service.py:285`) may come
after a later anchor and wipe it; `NodesKeepTheirAnchors` therefore speaks of chunks where no
integration was given up. The job is enqueued before the document's visual tasks are
written, so a fast poller skips them. When the transaction commits and its answer
is lost, the fallback reverts text and image while the node's row stays. Every replay stitches
the visuals again, with fresh ids. Wiping the chunks leaves the images in storage. Both inserters
check first and insert later; the unique index makes the second fail, which is logged in the
pipeline and an error 500 in the replay endpoint.

**Knowledge graph.** A mixture of two nodes always has one component, so a level of two
summaries ends the tree; a soft cluster may leave a node out of the next level, and with it
its leaves. `GapsOnlyAtTop` allows gaps in the last level a job stored, and nothing fills
them later. Old communities stay when the graph has no relations any more.

**Retrieval.** The gravity reranker keeps at most the `max_results` of its matrix entry (3
to 20 by role and task) whatever was asked for, so `RankingKeepsCandidates` is about what it
kept. `HybridSearch` and `QueryFanout` model what the code computes from scores; that the
scores are good is not their subject. `RetrievalPlanExecutor`, `run_multi_query`,
`retrieve_iterative`, `_search_vectors` and `_search_fts` have no caller in the API at this
commit; the first two are modelled because the contract manager builds on them and
`tests/unit/test_retrieval_contract_multi_query_controls.py` exercises them. The engine's
`last_trace` is shared by concurrent queries.

**Configuration.** The enrichment semaphore and, by default, the global semaphore have as many
permits as there are pollers and never make anyone wait; what bounds the work is the number of pollers.

## 7. What is not modelled

- *Collections API.* Its one operation that changes state is the deep delete: a fixed order of
  plain deletes in separate calls, each of which may fail and leave the rest. The foreign keys of
  `source_documents` and `ingestion_batches` to collections have no ON DELETE action, so a
  document registered meanwhile makes the last delete fail. Its orphan clean-up calls a database
  function, `exec_sql`, that no migration defines; the failure is swallowed. (As written, it
  would delete every tenant's entities without provenance, which sections and summaries are.)
  There is nothing to model beyond that list.
- *What models and libraries compute*: summaries, captions, extraction, embeddings, scores, layout
  analysis, the clustering. They appear as any answer of the right shape, or a failure.
- *Regular expressions and wording.* They appear as what they find.
- *`upsert_knowledge_subgraph`* and the entity resolution behind it: the only call that reaches
  it raises (section 5).
- *API middleware and authentication.* Request plumbing without state between requests, but for
  `LeakCanary`, which is in HybridSearch and QueryFanout, and the cache of visual extractions with its daily budget
  in development (checked before and counted after an extraction, so concurrent pages
  may exceed it).
- *Observability*: read-only views and logs. Inserts into `ingestion_events` appear in the pipeline
  as writes that need the document's row.
- *Graph searches*: what a row's similarity is, the texts put together from what was found, and the
  limits of 40 lines.
- In modelled components: the synchronous enrichment branch
  (`INGESTION_ENRICHMENT_ASYNC_ENABLED` off), deletion of a document during its enrichment,
  visual tasks on several parents, the institutional webhook, documents of a collection
  uploaded on their own, the page images' shared temporary directory, the status and event views,
  traces and timings, and the Postgres details below a statement (a statement is atomic;
  `SKIP LOCKED` is the exclusive choice of a row).

## 8. Plan

Modelled so far, in the order of importance: TenantSlots, JobQueue and IngestionWorker,
BatchProgress and Uploads, Enrichment, the retrieval modules with their abstract
`QueryCall`, Chunking and DocumentContent, KnowledgeGraph, CommunityRebuild; with theorems about
all of them. Next:

1. **Theorems** of what is added below; the invariants of the runs so far are proved.
2. **Abstract specifications**: a queue that hands each job to one holder at a time and ends it
   once, implemented by IngestionWorker without lapses; a counting lock, implemented by TenantSlots.
3. **Feeds**: `get_batch_events` and the stream built on it (events with equal timestamps, the
   terminal state reached before the last page is sent).
4. **Larger instances**: structural chunks and a third standard in `hybrid_search`, a contents
   list and a tree in one document of `knowledge_graph`, two documents in `worker_recovery`.
5. **Composition**: the deletion of a document against its enrichment and its graph.
