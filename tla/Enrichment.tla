------------------------------ MODULE Enrichment ------------------------------
(***************************************************************************)
(* Deferred enrichment of one document: the enrich_document rows of        *)
(* job_queue, who inserts them (DocumentProcessor, the replay endpoint),   *)
(* the run of PostIngestionPipelineService, and the stitching of visual    *)
(* nodes into a text chunk (VisualContextService, VisualGraphIntegrator),  *)
(* while the document is ingested again.                                   *)
(*                                                                         *)
(* The visual tasks of the model share one page, hence one parent chunk: a *)
(* chunk is identified by the ingestion that inserted it (1, 2, ...), 0 is *)
(* none.  A text is the set of nodes whose anchor token it contains.  Each *)
(* poller is the enrichment poller of a process of its own.                *)
(***************************************************************************)
EXTENDS JobQueue, FiniteSets, Sequences

CONSTANTS
    Pollers,      \* enrich_document pollers
    Replayers,    \* callers of the replay endpoint
    Tasks,        \* visual tasks of the document
    MaxGens,      \* bound: ingestions of the document
    MaxIds,       \* bound: visual node ids
    Faults,       \* the kinds of fault that may happen
    MaxFaults,    \* bound: faults in a behaviour
    MaxRequests   \* bound: replays in a behaviour

(* refused: a call fails with no effect.  lost: it takes effect and its    *)
(* answer is lost.  cleanup: an undo step of the integrator fails.         *)
FaultKinds == {"refused", "lost", "cleanup", "lookup", "crash"}

ASSUME EnrichmentAssumption ==
    /\ IsFiniteSet(Docs) /\ Cardinality(Docs) = 1
    /\ {Tasks, MaxGens, MaxIds, MaxFaults, MaxRequests} \subseteq Nat
    /\ Faults \subseteq FaultKinds

VARIABLES
    ingest,     \* where the ingestion of the document is
    gen,        \* ingestions that persisted their chunk so far
    chunk,      \* the chunk in content_chunks
    text,       \* its content
    tasks,      \* source_documents.metadata has routing.visual_tasks
    announced,  \* the last chunk whose enrichment was logged as queued
    covered,    \* observer: the chunks some enrichment run has loaded
    joined,     \* observer: the chunks announced because a job was active already
    rows,       \* visual_nodes, all children of chunk
    assets,     \* the storage bucket: <<parent chunk, node>>
    lastId,     \* node ids handed out
    degraded,   \* observer: chunks on which an integration was given up
    late,       \* update_chunk_content tasks nobody awaits
    replay,     \* where each replay request is
    pc,         \* where each poller is
    job,        \* the job it handles
    run,        \* its local variables
    faults,     \* faults so far, by kind
    requests    \* replays so far

worldVars  == <<chunk, text, rows, assets>>
docVars    == <<ingest, gen, tasks, announced>>
pollerVars == <<pc, job, run>>
obsVars    == <<covered, joined, degraded>>
apiVars    == <<replay, requests>>
vars == <<jobs, worldVars, docVars, pollerVars, obsVars, apiVars, late, lastId, faults>>

NoJob    == 0
Document == CHOOSE d \in Docs : TRUE
Gens     == 1 .. MaxGens
Ids      == 1 .. MaxIds

Stitching == {"rpc", "find", "update", "insert", "revert", "remove"}
Places    == {"idle", "load", "metadata", "enrich", "complete", "markFailed"} \cup Stitching

(* k: visual tasks bound to a parent; entries: the parents of those still  *)
(* to integrate; copy: parent_content_state; id: the node in work.         *)
Run == [k : 0 .. Tasks, entries : Seq(Gens), copy : [Gens -> SUBSET Ids], id : 0 .. MaxIds]

NoRun == [k |-> 0, entries |-> <<>>, copy |-> [c \in Gens |-> {}], id |-> 0]

(* The visual part of a run is over, or was skipped. *)
NoVisuals == [k |-> Tasks, entries |-> <<>>, copy |-> [c \in Gens |-> {}], id |-> 0]

(* The parent chunk of the entry in work, and the copy of its text.        *)
Parent(p) == Head(run[p].entries)
Copy(p)   == run[p].copy[Parent(p)]

TypeOK ==
    /\ JobsTypeOK
    /\ ingest \in {"idle", "persist", "check", "insert", "success"}
    /\ gen \in 0 .. MaxGens
    /\ chunk \in {0, gen}
    /\ text \in SUBSET (1 .. lastId)
    /\ rows \in SUBSET (1 .. lastId)
    /\ chunk = 0 => text = {} /\ rows = {}
    /\ tasks \in BOOLEAN
    /\ announced \in 0 .. gen
    /\ covered \in SUBSET Gens
    /\ joined \in SUBSET Gens
    /\ degraded \in SUBSET Gens
    /\ assets \in SUBSET (Gens \X Ids)
    /\ lastId \in 0 .. MaxIds
    /\ late \in SUBSET [by : Pollers, n : 1 .. Tasks, chunk : Gens, text : SUBSET Ids]
    /\ replay \in [Replayers -> {"idle", "insert"}]
    /\ pc \in [Pollers -> Places]
    /\ job \in [Pollers -> JobIds \cup {NoJob}]
    /\ run \in [Pollers -> Run]
    /\ \A p \in Pollers : pc[p] \in Stitching => run[p].entries # <<>>
    /\ faults \in [FaultKinds -> 0 .. MaxFaults]
    /\ requests \in 0 .. MaxRequests

Init ==
    /\ JobsInit
    /\ ingest = "idle" /\ gen = 0 /\ tasks = FALSE /\ announced = 0
    /\ chunk = 0 /\ text = {} /\ rows = {} /\ assets = {}
    /\ covered = {} /\ joined = {} /\ degraded = {} /\ late = {} /\ lastId = 0
    /\ replay = [r \in Replayers |-> "idle"] /\ requests = 0
    /\ pc = [p \in Pollers |-> "idle"]
    /\ job = [p \in Pollers |-> NoJob]
    /\ run = [p \in Pollers |-> NoRun]
    /\ faults = [k \in FaultKinds |-> 0]

TotalFaults ==
    faults["refused"] + faults["lost"] + faults["cleanup"] + faults["lookup"] + faults["crash"]

Fault(kind) ==
    /\ kind \in Faults
    /\ TotalFaults < MaxFaults
    /\ faults' = [faults EXCEPT ![kind] = @ + 1]

-----------------------------------------------------------------------------
(* Inserting enrich_document rows.                                         *)

(* Mutant: no unique index stops the second insert. *)
InsertUnguarded(inserted) ==
    /\ inserted
    /\ \E j \in Oldest(WithStatus({"absent"})) :
         jobs' = [jobs EXCEPT ![j] = [status |-> "pending", doc |-> Document, fresh |-> TRUE]]

(* The insert after the check, which may be stale by now: the unique index *)
(* on active enrichment jobs refuses a second one.                         *)
InsertJob(inserted) ==
    \/ /\ inserted
       /\ ActiveJobs(Document) = {}
       /\ \E j \in Oldest(WithStatus({"absent"})) :
            jobs' = [jobs EXCEPT ![j] = [status |-> "pending", doc |-> Document, fresh |-> TRUE]]
    \/ /\ ~inserted
       /\ ActiveJobs(Document) # {}
       /\ UNCHANGED jobs

(* The replay endpoint. *)
ReplayCheck(r) ==
    /\ replay[r] = "idle"
    /\ requests < MaxRequests
    /\ requests' = requests + 1
    /\ replay' = [replay EXCEPT ![r] = IF ActiveJobs(Document) = {} THEN "insert" ELSE "idle"]
    /\ UNCHANGED <<jobs, worldVars, docVars, pollerVars, obsVars, late, lastId, faults>>

ReplayInsert(r) ==
    /\ replay[r] = "insert"
    /\ \E inserted \in BOOLEAN : InsertJob(inserted)
    /\ replay' = [replay EXCEPT ![r] = "idle"]
    /\ UNCHANGED <<worldVars, docVars, pollerVars, obsVars, requests, late, lastId, faults>>

-----------------------------------------------------------------------------
(* The ingestion of the document, seen from its chunk and its enrichment.  *)

(* Deleting a chunk deletes its visual nodes, not their stored images. *)
WipeChunk ==
    /\ chunk' = 0
    /\ text' = {}
    /\ rows' = {}
    /\ UNCHANGED assets

Wipe ==
    /\ ingest = "idle"
    /\ gen < MaxGens
    /\ WipeChunk
    /\ ingest' = "persist"
    /\ UNCHANGED <<jobs, gen, tasks, announced, pollerVars, obsVars, apiVars, late, lastId, faults>>

Persist ==
    /\ ingest = "persist"
    /\ gen' = gen + 1
    /\ chunk' = gen'
    /\ ingest' = "check"
    /\ UNCHANGED <<jobs, text, rows, assets, tasks, announced, pollerVars, obsVars, apiVars,
                   late, lastId, faults>>

(* enqueue_enrichment_job finds an active job, and the pipeline logs the   *)
(* enrichment as queued; or it goes on to insert one.  An error here is    *)
(* not fatal: nothing is announced (IngestStops with the tasks written).   *)
CheckQueue ==
    /\ ingest = "check"
    /\ \/ /\ ActiveJobs(Document) # {}
          /\ announced' = gen
          /\ joined' = joined \cup {gen}
          /\ ingest' = "success"
       \/ /\ ActiveJobs(Document) = {}
          /\ ingest' = "insert"
          /\ UNCHANGED <<announced, joined>>
    /\ UNCHANGED <<jobs, worldVars, gen, tasks, pollerVars, covered, degraded, apiVars,
                   late, lastId, faults>>

Enqueue ==
    /\ ingest = "insert"
    /\ \/ InsertJob(TRUE) /\ announced' = gen /\ UNCHANGED faults
       \/ InsertJob(TRUE) /\ UNCHANGED announced /\ Fault("lost")
       \/ InsertJob(FALSE) /\ UNCHANGED <<announced, faults>>
    /\ ingest' = "success"
    /\ UNCHANGED <<worldVars, gen, tasks, pollerVars, obsVars, apiVars, late, lastId>>

(* Only now does the row's metadata hold the visual tasks. *)
Succeed ==
    /\ ingest = "success"
    /\ tasks' = TRUE
    /\ ingest' = "idle"
    /\ UNCHANGED <<jobs, worldVars, gen, announced, pollerVars, obsVars, apiVars,
                   late, lastId, faults>>

(* The process dies; or a call fails and handle_error writes the metadata, *)
(* which holds the tasks if the strategy had run.                          *)
IngestStops ==
    /\ ingest # "idle"
    /\ \/ Fault("crash") /\ UNCHANGED tasks
       \/ Fault("refused") /\ tasks' \in {tasks, TRUE}
    /\ ingest' = "idle"
    /\ UNCHANGED <<jobs, worldVars, gen, announced, pollerVars, obsVars, apiVars, late, lastId>>

Ingestion == Wipe \/ Persist \/ CheckQueue \/ Enqueue \/ Succeed \/ IngestStops

-----------------------------------------------------------------------------
(* The polling loop, and a run up to its visual tasks.                     *)

Goto(p, place) == pc' = [pc EXCEPT ![p] = place]

Rest(p) ==
    /\ Goto(p, "idle")
    /\ job' = [job EXCEPT ![p] = NoJob]
    /\ run' = [run EXCEPT ![p] = NoRun]

RequeueStale(p) ==
    /\ pc[p] = "idle"
    /\ RequeueStaleJobs
    /\ UNCHANGED <<worldVars, docVars, pollerVars, obsVars, apiVars, late, lastId, faults>>

Fetch(p) ==
    /\ pc[p] = "idle"
    /\ \E j \in JobIds :
         /\ FetchNextJob(j)
         /\ job' = [job EXCEPT ![p] = j]
    /\ Goto(p, "load")
    /\ UNCHANGED <<worldVars, docVars, run, obsVars, apiVars, late, lastId, faults>>

(* Mutant: a document still being ingested is left alone. *)
LoadSettled(p) ==
    /\ pc[p] = "load"
    /\ \/ /\ chunk = 0 \/ ingest # "idle"
          /\ Goto(p, "complete")
          /\ UNCHANGED <<covered, faults>>
       \/ /\ chunk # 0 /\ ingest = "idle"
          /\ Goto(p, "metadata")
          /\ covered' = covered \cup {chunk}
          /\ UNCHANGED faults
       \/ /\ Fault("lookup")
          /\ Goto(p, "markFailed")
          /\ UNCHANGED covered
    /\ UNCHANGED <<jobs, worldVars, docVars, job, run, joined, degraded, apiVars, late, lastId>>

(* A run without chunks ends at once; a failed read fails the job. *)
Load(p) ==
    /\ pc[p] = "load"
    /\ \/ /\ chunk = 0
          /\ Goto(p, "complete")
          /\ UNCHANGED <<covered, faults>>
       \/ /\ chunk # 0
          /\ Goto(p, "metadata")
          /\ covered' = covered \cup {chunk}
          /\ UNCHANGED faults
       \/ /\ Fault("lookup")
          /\ Goto(p, "markFailed")
          /\ UNCHANGED covered
    /\ UNCHANGED <<jobs, worldVars, docVars, job, run, joined, degraded, apiVars, late, lastId>>

(* Without visual tasks, or if the row cannot be read, the visual part of  *)
(* the run is skipped.                                                     *)
ReadMetadata(p) ==
    /\ pc[p] = "metadata"
    /\ Goto(p, "enrich")
    /\ \/ /\ tasks
          /\ UNCHANGED <<run, faults>>
       \/ /\ ~tasks
          /\ run' = [run EXCEPT ![p] = NoVisuals]
          /\ UNCHANGED faults
       \/ /\ Fault("lookup")
          /\ run' = [run EXCEPT ![p] = NoVisuals]
    /\ UNCHANGED <<jobs, worldVars, docVars, job, obsVars, apiVars, late, lastId>>

(* _identify_candidates, one task: its parent is the chunk read at first,  *)
(* or, if that is gone, the one now on the page; the text kept for a       *)
(* parent is the last one read.  An error ends the visual part.            *)
Bind(p) ==
    /\ pc[p] = "enrich"
    /\ run[p].k < Tasks
    /\ \/ /\ chunk # 0
          /\ run' = [run EXCEPT ![p] = [k |-> @.k + 1,
                                        entries |-> Append(@.entries, chunk),
                                        copy |-> [@.copy EXCEPT ![chunk] = text],
                                        id |-> 0]]
          /\ UNCHANGED faults
       \/ /\ chunk = 0
          /\ run' = [run EXCEPT ![p].k = @ + 1]
          /\ UNCHANGED faults
       \/ /\ Fault("lookup")
          /\ run' = [run EXCEPT ![p] = NoVisuals]
    /\ UNCHANGED <<jobs, worldVars, docVars, pc, job, obsVars, apiVars, late, lastId>>

-----------------------------------------------------------------------------
(* integrate_visual_node for the first entry, and its fallbacks.           *)

(* The next entry is up, with these texts kept. *)
NextEntry(p, copy) ==
    /\ run' = [run EXCEPT ![p] = [k |-> run[p].k, entries |-> Tail(run[p].entries),
                                  copy |-> copy, id |-> 0]]
    /\ Goto(p, "enrich")

(* Mutant: later tokens are not added to this one's text. *)
NodeForgotten(p) == NextEntry(p, run[p].copy)

(* The token joins the text kept for the parent. *)
Integrated(p) ==
    NextEntry(p, [run[p].copy EXCEPT ![Parent(p)] = @ \cup {run[p].id}])

(* _handle_integration_failure: the kept text plus an inline fallback is   *)
(* written by a task of its own, that nobody awaits.                       *)
Degrade(p) ==
    /\ late' = late \cup {[by |-> p, n |-> Len(run[p].entries),
                           chunk |-> Parent(p), text |-> Copy(p)]}
    /\ degraded' = degraded \cup {Parent(p)}
    /\ NextEntry(p, run[p].copy)

(* The image was parsed and its summary embedded; it is uploaded under the *)
(* new node's id.  Whatever fails so far, nothing is removed.              *)
Upload(p) ==
    LET Stored == /\ lastId < MaxIds
                  /\ lastId' = lastId + 1
                  /\ assets' = assets \cup {<<Parent(p), lastId'>>}
    IN  /\ pc[p] = "enrich"
        /\ run[p].k = Tasks
        /\ run[p].entries # <<>>
        /\ \/ /\ Stored
              /\ run' = [run EXCEPT ![p].id = lastId']
              /\ Goto(p, "rpc")
              /\ UNCHANGED <<late, degraded, faults>>
           \/ /\ Fault("refused")
              /\ Degrade(p)
              /\ UNCHANGED <<assets, lastId>>
           \/ /\ Fault("lost")
              /\ Stored
              /\ Degrade(p)
        /\ UNCHANGED <<jobs, chunk, text, rows, docVars, job, covered, joined, apiVars>>

(* create_visual_node_transaction: node and text in one transaction, for a *)
(* parent that exists. *)
Rpc(p) ==
    LET Committed == /\ chunk = Parent(p)
                     /\ rows' = rows \cup {run[p].id}
                     /\ text' = Copy(p) \cup {run[p].id}
    IN  /\ pc[p] = "rpc"
        /\ \/ /\ Committed
              /\ Integrated(p)
              /\ UNCHANGED faults
           \/ /\ Committed
              /\ Fault("lost")
              /\ Goto(p, "find")
              /\ UNCHANGED run
           \/ /\ \/ chunk # Parent(p) /\ UNCHANGED faults
                 \/ Fault("refused")
              /\ Goto(p, "find")
              /\ UNCHANGED <<run, rows, text>>
        /\ UNCHANGED <<jobs, chunk, assets, docVars, job, obsVars, apiVars, late, lastId>>

(* _find_parent_table; a failed lookup counts as not found. *)
Find(p) ==
    /\ pc[p] = "find"
    /\ \/ chunk = Parent(p) /\ Goto(p, "update") /\ UNCHANGED faults
       \/ chunk # Parent(p) /\ Goto(p, "remove") /\ UNCHANGED faults
       \/ Fault("refused") /\ Goto(p, "remove")
    /\ UNCHANGED <<jobs, worldVars, docVars, job, run, obsVars, apiVars, late, lastId>>

(* An update by id, of no row once the chunk is gone. *)
WriteText(c, content) == text' = IF chunk = c THEN content ELSE text

UpdateParent(p) ==
    /\ pc[p] = "update"
    /\ \/ /\ WriteText(Parent(p), Copy(p) \cup {run[p].id})
          /\ \/ Goto(p, "insert") /\ UNCHANGED faults
             \/ Goto(p, "remove") /\ Fault("lost")
       \/ /\ Fault("refused")
          /\ Goto(p, "remove")
          /\ UNCHANGED text
    /\ UNCHANGED <<jobs, chunk, rows, assets, docVars, job, run, obsVars, apiVars, late, lastId>>

(* Both inserts of the node: the second one meets the first one's row if   *)
(* only its answer was lost, as does the first one after a lost RPC.       *)
InsertNode(p) ==
    LET Possible == chunk = Parent(p) /\ run[p].id \notin rows
    IN  /\ pc[p] = "insert"
        /\ \/ /\ Possible
              /\ rows' = rows \cup {run[p].id}
              /\ Integrated(p)
              /\ UNCHANGED faults
           \/ /\ Possible
              /\ Fault("lost")
              /\ rows' = rows \cup {run[p].id}
              /\ Goto(p, "revert")
              /\ UNCHANGED run
           \/ /\ \/ ~Possible /\ UNCHANGED faults
                 \/ Fault("refused")
              /\ Goto(p, "revert")
              /\ UNCHANGED <<run, rows>>
        /\ UNCHANGED <<jobs, chunk, text, assets, docVars, job, obsVars, apiVars, late, lastId>>

RevertParent(p) ==
    /\ pc[p] = "revert"
    /\ \/ WriteText(Parent(p), Copy(p)) /\ UNCHANGED faults
       \/ Fault("cleanup") /\ UNCHANGED text
    /\ degraded' = degraded \cup {Parent(p)}
    /\ Goto(p, "remove")
    /\ UNCHANGED <<jobs, chunk, rows, assets, docVars, job, run, covered, joined, apiVars,
                   late, lastId>>

(* Mutant: the upload is not taken back. *)
KeepAsset(p) == UNCHANGED assets

RemoveAsset(p) == assets' = assets \ {<<Parent(p), run[p].id>>}

(* _safe_remove_uploaded_asset, and the error reaches the caller. *)
Remove(p) ==
    /\ pc[p] = "remove"
    /\ \/ RemoveAsset(p) /\ UNCHANGED faults
       \/ Fault("cleanup") /\ UNCHANGED assets
    /\ Degrade(p)
    /\ UNCHANGED <<jobs, chunk, text, rows, docVars, job, covered, joined, apiVars, lastId>>

(* A background write lands, or fails unnoticed. *)
LateWrite(w) ==
    /\ late' = late \ {w}
    /\ \/ WriteText(w.chunk, w.text) /\ UNCHANGED faults
       \/ Fault("refused") /\ UNCHANGED text
    /\ UNCHANGED <<jobs, chunk, rows, assets, docVars, pollerVars, obsVars, apiVars, lastId>>

-----------------------------------------------------------------------------
(* The end of a run.                                                       *)

(* RAPTOR and the graph swallow their errors, but for the log entry that   *)
(* announces RAPTOR.                                                       *)
Knowledge(p) ==
    /\ pc[p] = "enrich"
    /\ run[p].k = Tasks
    /\ run[p].entries = <<>>
    /\ \/ Goto(p, "complete") /\ UNCHANGED faults
       \/ Fault("refused") /\ Goto(p, "markFailed")
    /\ UNCHANGED <<jobs, worldVars, docVars, job, run, obsVars, apiVars, late, lastId>>

Complete(p) ==
    /\ pc[p] = "complete"
    /\ \/ MarkJobFinal(job[p], "completed") /\ Rest(p) /\ UNCHANGED faults
       \/ /\ \/ MarkJobFinal(job[p], "completed") /\ Fault("lost")
             \/ UNCHANGED jobs /\ Fault("refused")
          /\ Goto(p, "markFailed")
          /\ UNCHANGED <<job, run>>
    /\ UNCHANGED <<worldVars, docVars, obsVars, apiVars, late, lastId>>

MarkFailed(p) ==
    /\ pc[p] = "markFailed"
    /\ \/ MarkJobFinal(job[p], "failed") /\ UNCHANGED faults
       \/ UNCHANGED jobs /\ Fault("refused")
    /\ Rest(p)
    /\ UNCHANGED <<worldVars, docVars, obsVars, apiVars, late, lastId>>

(* A process dies, with its background writes, and is restarted. *)
Crash(p) ==
    /\ \/ pc[p] # "idle"
       \/ \E w \in late : w.by = p
    /\ Fault("crash")
    /\ Rest(p)
    /\ late' = {w \in late : w.by # p}
    /\ UNCHANGED <<jobs, worldVars, docVars, obsVars, apiVars, lastId>>

(* Heartbeats get through: a job goes stale only without a holder. *)
Expire(j) ==
    /\ GrowStale(j)
    /\ \A p \in Pollers : job[p] # j
    /\ UNCHANGED <<worldVars, docVars, pollerVars, obsVars, apiVars, late, lastId, faults>>

Poll(p) ==
    \/ RequeueStale(p) \/ Fetch(p) \/ Load(p) \/ ReadMetadata(p)
    \/ Knowledge(p) \/ Complete(p) \/ MarkFailed(p) \/ Crash(p)

Stitch(p) ==
    \/ Bind(p) \/ Upload(p) \/ Rpc(p) \/ Find(p) \/ UpdateParent(p)
    \/ InsertNode(p) \/ RevertParent(p) \/ Remove(p)

Next ==
    \/ Ingestion
    \/ \E r \in Replayers : ReplayCheck(r) \/ ReplayInsert(r)
    \/ \E p \in Pollers : Poll(p) \/ Stitch(p)
    \/ \E w \in late : LateWrite(w)
    \/ \E j \in JobIds : Expire(j)

Spec == Init /\ [][Next]_vars

-----------------------------------------------------------------------------
(* However the pipeline's and the replay endpoint's checks and inserts     *)
(* interleave, the document has at most one active enrichment job.         *)
SingleActiveEnrichment == Cardinality(ActiveJobs(Document)) <= 1

(* Unless an integration on the chunk was given up, every visual node of   *)
(* the chunk has its anchor token in the chunk's text: no run, repeated    *)
(* run or replay overwrites the token of another.  This rests on the       *)
(* single active job, on the claim of it, and on the text a run keeps.     *)
NodesKeepTheirAnchors == chunk \in degraded \/ rows \subseteq text

(* The nodes of the present chunk that are stitched in part: a row without *)
(* image, an image without row, or an anchor token without row.            *)
InWork == {run[p].id : p \in {q \in Pollers : pc[q] \in Stitching}}

Torn ==
    {i \in (1 .. lastId) \ InWork :
        \/ (i \in rows) # (<<chunk, i>> \in assets)
        \/ i \in text \ rows}

(* Stitching a node is all or nothing, even by the fallback that runs when *)
(* the RPC is refused: each node stitched in part takes a lost answer, a   *)
(* failed undo step or a crash of its own.                                 *)
StitchIsAtomic == Cardinality(Torn) <= faults["lost"] + faults["cleanup"] + faults["crash"]

(* "Enriquecimiento post-ingesta encolado": a chunk whose enrichment was   *)
(* logged as queued has a job that is still to load it, or was loaded,     *)
(* when the job is the ingestion's own and no call fails.  A job that was  *)
(* active already may be past loading the chunks of the ingestion before.  *)
OwnEnrichmentComes ==
    chunk # 0 /\ announced = chunk /\ chunk \notin covered \cup joined /\ TotalFaults = 0 =>
        \E j \in ActiveJobs(Document) :
            \A p \in Pollers : job[p] = j => pc[p] = "load"

=============================================================================
