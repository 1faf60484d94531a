--------------------------- MODULE IngestionWorker ---------------------------
(***************************************************************************)
(* Ingestion of documents by worker processes pulling from job_queue:      *)
(* the polling loop (BaseWorkerProcessor), the handler of ingest_document  *)
(* jobs (WorkerJobDispatcher, SourceDocumentJobProcessor), the pipeline    *)
(* (DocumentProcessor with IngestionStateManager and IngestionPolicy), the *)
(* heartbeat and stale-job recovery (SupabaseJobStore), and the API calls  *)
(* that register, retry and delete documents.                              *)
(*                                                                         *)
(* A step ends at each database call, where the event loop and the other   *)
(* processes may run.  The wait for a slot of tenant_slot is the position  *)
(* "waiting"; module TenantSlots shows that it ends.                       *)
(***************************************************************************)
EXTENDS JobQueue, BatchProgress, FiniteSets

CONSTANTS
    Workers,       \* worker processes
    Pollers,       \* their ingest_document pollers
    WorkerOf,      \* the process of a poller
    BatchDocs,     \* the documents of the one upload batch
    MAX_RETRIES,   \* IngestionPolicy.MAX_RETRIES
    ChunkInserts,  \* inserts save_chunks splits a document's chunks into
    Faults,        \* the kinds of fault that may happen
    MaxFaults,     \* bound: faults in a behaviour
    Requests,      \* the kinds of API call, besides registration
    MaxRequests    \* bound: such calls in a behaviour

FaultKinds   == {"crash", "lookup", "lapse", "mark", "progress", "write", "fetch"}
RequestKinds == {"retry", "delete"}

ASSUME WorkerAssumption ==
    /\ WorkerOf \in [Pollers -> Workers]
    /\ IsFiniteSet(Pollers)
    /\ BatchDocs \subseteq Docs
    /\ IsFiniteSet(BatchDocs)
    /\ MAX_RETRIES \in Nat \ {0}
    /\ ChunkInserts \in Nat \ {0}
    /\ Faults \subseteq FaultKinds
    /\ MaxFaults \in Nat
    /\ Requests \subseteq RequestKinds
    /\ MaxRequests \in Nat

VARIABLES
    docs,        \* source_documents: status and metadata.retry_count
    chunks,      \* inserts of content_chunks rows present per document
    enrichment,  \* documents an enrich_document job was inserted for
    batch,       \* the row of ingestion_batches
    sealed,      \* the batch's collection was sealed by auto_seal
    up,          \* the processes that run
    locks,       \* _active_doc_ids of each process
    pc,          \* where each poller is
    job,         \* the job it handles
    rec,         \* its copy of the document row, read once
    saved,       \* inserts save_chunks has done
    retryReads,  \* retries between their read and their write
    marking,     \* documents inserted whose batch row is to be set to processing
    deleting,    \* documents a deletion was asked for and has not finished
    purged,      \* history: deletions took chunks of them since their last wipe
    faults,      \* faults so far
    requests     \* API calls so far

worldVars  == <<docs, chunks, enrichment, batch, sealed>>
workerVars == <<up, locks, pc, job, rec, saved>>
deleteVars == <<deleting, purged>>
apiVars    == <<retryReads, marking, deleteVars, requests>>
vars       == <<jobs, worldVars, workerVars, apiVars, faults>>

NoJob == 0

DocStatus == {"unregistered", "queued", "processing", "processed", "failed", "deleted"}

DocRow == [status : DocStatus, retry : Nat]

Pipeline == {"start", "wipe", "persist", "enqueue", "success"}
InSlot   == Pipeline \cup {"error", "progressOk", "progressFail"}
Locking  == {"waiting"} \cup InSlot
Busy     == {"load", "slot", "complete", "markFailed"} \cup Locking

(* The document of the job p handles. *)
Doc(p) == jobs[job[p]].doc

Exists(d) == docs[d].status \notin {"unregistered", "deleted"}

(* IngestionPolicy.should_process of a row.  Every writer of the row sets  *)
(* metadata.status to a pending value only together with the status, so    *)
(* the policy's second look at metadata.status adds nothing.               *)
ShouldProcess(row) == row.status = "queued" /\ row.retry < MAX_RETRIES

TypeOK ==
    /\ JobsTypeOK
    /\ docs \in [Docs -> DocRow]
    /\ chunks \in [Docs -> Nat]
    /\ enrichment \in SUBSET Docs
    /\ batch \in BatchRow
    /\ sealed \in BOOLEAN
    /\ up \in SUBSET Workers
    /\ locks \in [Workers -> SUBSET Docs]
    /\ pc \in [Pollers -> {"idle"} \cup Busy]
    /\ job \in [Pollers -> JobIds \cup {NoJob}]
    /\ rec \in [Pollers -> DocRow]
    /\ saved \in [Pollers -> 0 .. ChunkInserts]
    /\ retryReads \in SUBSET (Docs \X Nat)
    /\ marking \in SUBSET BatchDocs
    /\ deleting \in SUBSET Docs
    /\ purged \in SUBSET Docs
    /\ faults \in 0 .. MaxFaults
    /\ requests \in 0 .. MaxRequests

Unread == [status |-> "unregistered", retry |-> 0]

Init ==
    /\ JobsInit
    /\ docs = [d \in Docs |-> [status |-> "unregistered", retry |-> 0]]
    /\ chunks = [d \in Docs |-> 0]
    /\ enrichment = {}
    /\ batch = NewBatch
    /\ sealed = FALSE
    /\ up = Workers
    /\ locks = [w \in Workers |-> {}]
    /\ pc = [p \in Pollers |-> "idle"]
    /\ job = [p \in Pollers |-> NoJob]
    /\ rec = [p \in Pollers |-> Unread]
    /\ saved = [p \in Pollers |-> 0]
    /\ retryReads = {}
    /\ marking = {}
    /\ deleting = {}
    /\ purged = {}
    /\ faults = 0
    /\ requests = 0

Fault(kind) ==
    /\ kind \in Faults
    /\ faults < MaxFaults
    /\ faults' = faults + 1

Request(kind) ==
    /\ kind \in Requests
    /\ requests < MaxRequests
    /\ requests' = requests + 1

Goto(p, place) == pc' = [pc EXCEPT ![p] = place]

(* The poller has nothing in hand any more. *)
Rest(p) ==
    /\ Goto(p, "idle")
    /\ job' = [job EXCEPT ![p] = NoJob]
    /\ rec' = [rec EXCEPT ![p] = Unread]
    /\ saved' = [saved EXCEPT ![p] = 0]

-----------------------------------------------------------------------------
(* API calls.                                                              *)

(* An upload registers the document as queued, in one insert ...           *)
Register(d) ==
    /\ docs[d].status = "unregistered"
    /\ docs' = [docs EXCEPT ![d].status = "queued"]
    /\ marking' = marking \cup ({d} \cap BatchDocs)
    /\ TriggerEnqueue(d)
    /\ UNCHANGED <<chunks, enrichment, batch, sealed, workerVars, retryReads, deleteVars,
                   requests, faults>>

(* ... and a second call, which may fail, sets its batch to processing,    *)
(* whatever the batch has become by then.                                  *)
MarkBatch(d) ==
    /\ d \in marking
    /\ marking' = marking \ {d}
    /\ \/ batch' = [batch EXCEPT !.status = "processing"]
       \/ UNCHANGED batch
    /\ UNCHANGED <<jobs, docs, chunks, enrichment, sealed, workerVars, retryReads, deleteVars,
                   requests, faults>>

(* retry_ingestion reads the row ...                                       *)
RetryRead(d) ==
    /\ Exists(d)
    /\ Request("retry")
    /\ retryReads' = retryReads \cup {<<d, docs[d].retry>>}
    /\ UNCHANGED <<jobs, worldVars, workerVars, marking, deleteVars, faults>>

(* ... and later writes it back as queued, one retry more than it read. *)
RetryWrite(d, n) ==
    /\ <<d, n>> \in retryReads
    /\ retryReads' = retryReads \ {<<d, n>>}
    /\ IF Exists(d)
       THEN /\ docs' = [docs EXCEPT ![d] = [status |-> "queued", retry |-> n + 1]]
            /\ TriggerEnqueue(d)
       ELSE UNCHANGED <<docs, jobs>>
    /\ UNCHANGED <<chunks, enrichment, batch, sealed, workerVars, marking, deleteVars,
                   requests, faults>>

(* delete_document finds the row.  Any of its later calls may fail, which  *)
(* ends the request: it may stop at every step, and has no fairness.       *)
DeleteBegin(d) ==
    /\ Exists(d)
    /\ Request("delete")
    /\ deleting' = deleting \cup {d}
    /\ UNCHANGED <<jobs, worldVars, workerVars, retryReads, marking, purged, faults>>

(* _deep_delete_document_artifacts: its deletes take some of the chunks at *)
(* a time, those it read the ids of.                                       *)
PurgeChunks(d) ==
    /\ d \in deleting
    /\ \E left \in 0 .. chunks[d] - 1 : chunks' = [chunks EXCEPT ![d] = left]
    /\ purged' = purged \cup {d}
    /\ UNCHANGED <<jobs, docs, enrichment, batch, sealed, workerVars, retryReads, marking,
                   deleting, requests, faults>>

(* The row goes last, and its deletion cascades to the chunks that are     *)
(* left: those inserted in between, or all of them without purge_chunks.   *)
DeleteRow(d) ==
    /\ d \in deleting
    /\ deleting' = deleting \ {d}
    /\ docs' = [docs EXCEPT ![d].status = "deleted"]
    /\ chunks' = [chunks EXCEPT ![d] = 0]
    /\ UNCHANGED <<jobs, enrichment, batch, sealed, workerVars, retryReads, marking, purged,
                   requests, faults>>

-----------------------------------------------------------------------------
(* The polling loop of BaseWorkerProcessor.                                *)

RequeueStale(p) ==
    /\ WorkerOf[p] \in up
    /\ pc[p] = "idle"
    /\ RequeueStaleJobs
    /\ UNCHANGED <<worldVars, workerVars, apiVars, faults>>

Fetch(p) ==
    /\ WorkerOf[p] \in up
    /\ pc[p] = "idle"
    /\ \E j \in JobIds :
         /\ FetchNextJob(j)
         /\ job' = [job EXCEPT ![p] = j]
    /\ Goto(p, "load")
    /\ UNCHANGED <<worldVars, up, locks, rec, saved, apiVars, faults>>

(* The claim is committed and its answer lost: fetch_next_job tries again, *)
(* and the row it claimed first has no holder.                             *)
FetchLost(p) ==
    /\ WorkerOf[p] \in up
    /\ pc[p] = "idle"
    /\ Fault("fetch")
    /\ \E j \in JobIds : FetchNextJob(j)
    /\ UNCHANGED <<worldVars, workerVars, apiVars>>

(* The job leaves the poller's hands as completed.  A transport error on   *)
(* the way raises, before or after the update was applied.                 *)
Complete(p) ==
    /\ pc[p] = "complete"
    /\ \/ /\ MarkJobFinal(job[p], "completed")
          /\ Rest(p)
          /\ UNCHANGED faults
       \/ /\ Fault("mark")
          /\ \/ MarkJobFinal(job[p], "completed")
             \/ UNCHANGED jobs
          /\ Goto(p, "markFailed")
          /\ UNCHANGED <<job, rec, saved>>
    /\ UNCHANGED <<worldVars, up, locks, apiVars>>

(* ... or as failed.  An error here is logged by run_job_loop, and the row *)
(* stays as it is.                                                         *)
MarkFailed(p) ==
    /\ pc[p] = "markFailed"
    /\ \/ /\ MarkJobFinal(job[p], "failed")
          /\ UNCHANGED faults
       \/ /\ Fault("mark")
          /\ UNCHANGED jobs
    /\ Rest(p)
    /\ UNCHANGED <<worldVars, up, locks, apiVars>>

-----------------------------------------------------------------------------
(* A worker process dies, by a crash or an escaped CancelledError: its     *)
(* memory is gone, what it wrote stays.                                    *)
Down(w) ==
    /\ up' = up \ {w}
    /\ locks' = [locks EXCEPT ![w] = {}]
    /\ pc' = [p \in Pollers |-> IF WorkerOf[p] = w THEN "idle" ELSE pc[p]]
    /\ job' = [p \in Pollers |-> IF WorkerOf[p] = w THEN NoJob ELSE job[p]]
    /\ rec' = [p \in Pollers |-> IF WorkerOf[p] = w THEN Unread ELSE rec[p]]
    /\ saved' = [p \in Pollers |-> IF WorkerOf[p] = w THEN 0 ELSE saved[p]]

Crash(w) ==
    /\ w \in up
    /\ Fault("crash")
    /\ Down(w)
    /\ UNCHANGED <<jobs, worldVars, apiVars>>

(* docker-compose restarts the worker (restart: unless-stopped). *)
Restart(w) ==
    /\ w \notin up
    /\ up' = up \cup {w}
    /\ UNCHANGED <<jobs, worldVars, locks, pc, job, rec, saved, apiVars, faults>>

Holders(j) == {p \in Pollers : job[p] = j}

(* 120 s (or 900 s) without a beat: the process is gone, or its beats did  *)
(* not get through.                                                        *)
Expire(j) ==
    /\ GrowStale(j)
    /\ \/ Holders(j) = {} /\ UNCHANGED faults
       \/ Holders(j) # {} /\ Fault("lapse")
    /\ UNCHANGED <<worldVars, workerVars, apiVars>>

Heartbeat(p) ==
    /\ pc[p] \in Busy
    /\ Beat(job[p])
    /\ UNCHANGED <<worldVars, workerVars, apiVars, faults>>

-----------------------------------------------------------------------------
(* handle_ingestion: the source record.                                    *)

Load(p) ==
    /\ pc[p] = "load"
    /\ \/ /\ Exists(Doc(p))
          /\ rec' = [rec EXCEPT ![p] = docs[Doc(p)]]
          /\ Goto(p, "slot")
       \/ /\ ~Exists(Doc(p))
          /\ Goto(p, "complete")
          /\ UNCHANGED rec
    /\ UNCHANGED <<jobs, worldVars, up, locks, job, saved, apiVars, faults>>

(* A transient lookup error: the job is requeued, then the CancelledError  *)
(* passes every `except Exception`, ends the poller's task, and with it    *)
(* asyncio.gather and the process.  The attempts counter dies with it, so  *)
(* max_source_lookup_requeues is never reached.                            *)
LoadTransient(p) ==
    /\ pc[p] = "load"
    /\ Fault("lookup")
    /\ RequeueJobForRetry(job[p])
    /\ Down(WorkerOf[p])
    /\ UNCHANGED <<worldVars, apiVars>>

(* Any other lookup error fails the job. *)
LoadFails(p) ==
    /\ pc[p] = "load"
    /\ Fault("lookup")
    /\ Goto(p, "markFailed")
    /\ UNCHANGED <<jobs, worldVars, up, locks, job, rec, saved, apiVars>>

(* try_acquire_doc_lock; AlreadyProcessingError becomes a result. *)
TryLock(p) ==
    LET w == WorkerOf[p]
    IN  /\ pc[p] = "slot"
        /\ \/ /\ Doc(p) \in locks[w]
              /\ Goto(p, "complete")
              /\ UNCHANGED locks
           \/ /\ Doc(p) \notin locks[w]
              /\ Goto(p, "waiting")
              /\ locks' = [locks EXCEPT ![w] = @ \cup {Doc(p)}]
        /\ UNCHANGED <<jobs, worldVars, up, job, rec, saved, apiVars, faults>>

(* Mutant: the document stays locked. *)
KeepLocked(p) == UNCHANGED locks

(* release_doc_lock. *)
Unlock(p) == locks' = [locks EXCEPT ![WorkerOf[p]] = @ \ {Doc(p)}]

(* The slot is granted and process() applies the policy to its copy. *)
EnterSlot(p) ==
    /\ pc[p] = "waiting"
    /\ Goto(p, IF ShouldProcess(rec[p]) THEN "start" ELSE "progressOk")
    /\ UNCHANGED <<jobs, worldVars, up, locks, job, rec, saved, apiVars, faults>>

-----------------------------------------------------------------------------
(* DocumentProcessor.process.  Each of its writes comes with an insert     *)
(* into ingestion_events, which fails once the document is deleted, so a   *)
(* step of the pipeline needs the row.                                     *)

(* start_processing: status and the copied metadata in one update. *)
Start(p) ==
    /\ pc[p] = "start"
    /\ Exists(Doc(p))
    /\ docs' = [docs EXCEPT ![Doc(p)] = [status |-> "processing", retry |-> rec[p].retry]]
    /\ Goto(p, "wipe")
    /\ UNCHANGED <<jobs, chunks, enrichment, batch, sealed, up, locks, job, rec, saved,
                   apiVars, faults>>

(* Mutant: the previous run's chunks stay. *)
WipeNothing(p) ==
    /\ pc[p] = "wipe"
    /\ Exists(Doc(p))
    /\ Goto(p, "persist")
    /\ UNCHANGED <<jobs, worldVars, up, locks, job, rec, saved, apiVars, faults>>

(* delete_chunks_by_source_id, before the strategy runs: the ids, then one *)
(* delete for each batch of them, until nothing is left.                   *)
WipeChunks(p) ==
    LET d == Doc(p)
    IN  /\ pc[p] = "wipe"
        /\ Exists(d)
        /\ \/ /\ chunks' = [chunks EXCEPT ![d] = 0]
              /\ purged' = purged \ {d}
              /\ Goto(p, "persist")
           \/ /\ \E left \in 1 .. chunks[d] - 1 : chunks' = [chunks EXCEPT ![d] = left]
              /\ UNCHANGED purged
              /\ Goto(p, "wipe")
        /\ UNCHANGED <<jobs, docs, enrichment, batch, sealed, up, locks, job, rec, saved,
                       retryReads, marking, deleting, requests, faults>>

LastInsert(p) == saved[p] + 1 = ChunkInserts

(* One of the inserts of save_chunks. *)
PersistChunks(p) ==
    /\ pc[p] = "persist"
    /\ Exists(Doc(p))
    /\ chunks' = [chunks EXCEPT ![Doc(p)] = @ + 1]
    /\ saved' = [saved EXCEPT ![p] = @ + 1]
    /\ Goto(p, IF LastInsert(p) THEN "enqueue" ELSE "persist")
    /\ UNCHANGED <<jobs, docs, enrichment, batch, sealed, up, locks, job, rec, apiVars, faults>>

(* enqueue_deferred_enrichment; its failure is not fatal. *)
EnqueueEnrichment(p) ==
    /\ pc[p] = "enqueue"
    /\ enrichment' \in {enrichment, enrichment \cup {Doc(p)}}
    /\ Goto(p, "success")
    /\ UNCHANGED <<jobs, docs, chunks, batch, sealed, up, locks, job, rec, saved,
                   apiVars, faults>>

(* handle_success: the update, then an event whose failure still raises. *)
HandleSuccess(p) ==
    /\ pc[p] = "success"
    /\ Exists(Doc(p))
    /\ docs' = [docs EXCEPT ![Doc(p)] = [status |-> "processed", retry |-> rec[p].retry]]
    /\ \/ Goto(p, "progressOk") /\ UNCHANGED faults
       \/ Goto(p, "error") /\ Fault("write")
    /\ UNCHANGED <<jobs, chunks, enrichment, batch, sealed, up, locks, job, rec, saved, apiVars>>

(* Any stage of the pipeline raises. *)
PipelineFails(p) ==
    /\ pc[p] \in Pipeline
    /\ Goto(p, "error")
    /\ UNCHANGED <<jobs, worldVars, up, locks, job, rec, saved, apiVars, faults>>

(* handle_error ends process() normally, unless it raises itself: in its   *)
(* update, or in the event inserted after it, which a deleted row refuses. *)
HandleError(p) ==
    LET written == [docs EXCEPT ![Doc(p)] = [status |-> "failed", retry |-> rec[p].retry]]
    IN  /\ pc[p] = "error"
        /\ \/ /\ Exists(Doc(p))
              /\ docs' = written
              /\ Goto(p, "progressOk")
              /\ UNCHANGED faults
           \/ /\ ~Exists(Doc(p))
              /\ Goto(p, "progressFail")
              /\ UNCHANGED <<docs, faults>>
           \/ /\ Exists(Doc(p))
              /\ Fault("write")
              /\ docs' \in {docs, written}
              /\ Goto(p, "progressFail")
        /\ UNCHANGED <<jobs, chunks, enrichment, batch, sealed, up, locks, job, rec, saved,
                       apiVars>>

-----------------------------------------------------------------------------
(* update_batch_progress, whose transport errors are swallowed, and the    *)
(* exit of tenant_slot that follows it without suspension.                 *)

Progress(p, success) ==
    \/ /\ Doc(p) \in BatchDocs
       /\ batch' = Progressed(batch, Cardinality(BatchDocs), success)
       /\ sealed' = (sealed \/ batch'.status = "completed")
       /\ UNCHANGED faults
    \/ /\ Doc(p) \in BatchDocs
       /\ Fault("progress")
       /\ UNCHANGED <<batch, sealed>>
    \/ /\ Doc(p) \notin BatchDocs
       /\ UNCHANGED <<batch, sealed, faults>>

ProgressOk(p) ==
    /\ pc[p] = "progressOk"
    /\ Progress(p, TRUE)
    /\ Unlock(p)
    /\ Goto(p, "complete")
    /\ UNCHANGED <<jobs, docs, chunks, enrichment, up, job, rec, saved, apiVars>>

ProgressFail(p) ==
    /\ pc[p] = "progressFail"
    /\ Progress(p, FALSE)
    /\ Unlock(p)
    /\ Goto(p, "markFailed")
    /\ UNCHANGED <<jobs, docs, chunks, enrichment, up, job, rec, saved, apiVars>>

-----------------------------------------------------------------------------
Handle(p) ==
    \/ Load(p) \/ LoadTransient(p) \/ LoadFails(p)
    \/ TryLock(p) \/ EnterSlot(p)
    \/ Start(p) \/ WipeChunks(p) \/ PersistChunks(p) \/ EnqueueEnrichment(p)
    \/ HandleSuccess(p) \/ PipelineFails(p) \/ HandleError(p)
    \/ ProgressOk(p) \/ ProgressFail(p)

Poll(p) ==
    \/ RequeueStale(p) \/ Fetch(p) \/ FetchLost(p)
    \/ Complete(p) \/ MarkFailed(p) \/ Heartbeat(p)

Api ==
    \E d \in Docs :
        \/ Register(d) \/ MarkBatch(d)
        \/ RetryRead(d)
        \/ \E n \in 0 .. MaxRequests : RetryWrite(d, n)
        \/ DeleteBegin(d) \/ PurgeChunks(d) \/ DeleteRow(d)

Next ==
    \/ Api
    \/ \E p \in Pollers : Poll(p) \/ Handle(p)
    \/ \E w \in Workers : Crash(w) \/ Restart(w)
    \/ \E j \in JobIds : Expire(j)

(* Pollers poll and their calls return; a dead process is restarted and    *)
(* time passes.  Nothing obliges a fault or an API call.                   *)
Fairness ==
    /\ \A p \in Pollers : /\ WF_vars(Handle(p))
                          /\ WF_vars(Fetch(p) \/ Complete(p) \/ MarkFailed(p))
                          /\ WF_vars(RequeueStale(p))
    /\ \A w \in Workers : WF_vars(Restart(w))
    /\ \A j \in JobIds : WF_vars(Expire(j) /\ Holders(j) = {})

Spec == Init /\ [][Next]_vars

FairSpec == Spec /\ Fairness

-----------------------------------------------------------------------------
(* A document has at most one active ingest job: the trigger's check and   *)
(* the status guards of both requeues keep it so, although mark_job_final  *)
(* has none.                                                               *)
SingleActiveJob == \A d \in Docs : Cardinality(ActiveJobs(d)) <= 1

(* A job once completed or failed never runs again: no requeue, retry or   *)
(* late heartbeat brings it back.                                          *)
TerminalJobsStayTerminal ==
    [][\A j \in JobIds :
         jobs[j].status \in Terminal => jobs'[j].status \in Terminal]_vars

(* While heartbeats get through, two live pollers never hold the same job  *)
(* (fetch_next_job skips locked and processing rows).                      *)
ExclusiveClaim ==
    \A j \in JobIds : Cardinality(Holders(j)) <= 1

(* While heartbeats get through, at most one poller of all processes works *)
(* on a document, although _active_doc_ids is local to a process.          *)
OneProcessorPerDoc ==
    \A p, q \in Pollers :
        (pc[p] \in Locking /\ pc[q] \in Locking /\ Doc(p) = Doc(q)) => p = q

(* Within one process the document lock does it whatever happens to the    *)
(* heartbeats, and the lock set is exactly what the pollers hold.          *)
LocksExact ==
    \A w \in Workers :
        LET inside == {p \in Pollers : WorkerOf[p] = w /\ pc[p] \in Locking}
        IN  /\ locks[w] = {Doc(p) : p \in inside}
            /\ \A p, q \in inside : Doc(p) = Doc(q) => p = q

(* A processed document has the chunks of one run: the deletion before the *)
(* strategy and the refusal of partial results hold across crashes,        *)
(* re-runs and retries, so it never has a set twice, and lacks a chunk     *)
(* only if a deletion of the document took it.  (That deletion may have    *)
(* failed before the row went: then the document stays so.)                *)
ProcessedHasChunks ==
    \A d \in Docs : docs[d].status = "processed" =>
        /\ chunks[d] <= ChunkInserts
        /\ chunks[d] < ChunkInserts => d \in purged

(* A document that waits, or is being worked on, without a job that would  *)
(* bring it further was retried or met a fault: no order of the steps of   *)
(* the API, the pollers and the trigger loses a document by itself.        *)
OrphansExplained ==
    \A d \in Docs : ActiveJobs(d) = {} =>
        /\ docs[d].status = "queued" => docs[d].retry > 0 \/ faults > 0
        /\ docs[d].status = "processing" => faults > 0

(* Every job that is enqueued ends, through crashes, lost marks and        *)
(* requeues.                                                               *)
JobsFinish ==
    \A j \in JobIds : jobs[j].status = "pending" ~> jobs[j].status \in Terminal

(* Without faults or retries a batch is closed only after each of its      *)
(* documents is processed, failed or deleted.                              *)
ClosedBatchSettled ==
    batch.status \in Closed =>
        \A d \in BatchDocs : docs[d].status \in {"processed", "failed", "deleted"}

(* Without faults or retries every finished handler run has been counted,  *)
(* once: the counters lag behind the runs by those between the pipeline    *)
(* and the RPC only.                                                       *)
BatchCountsRuns ==
    batch.completed + batch.failed
      = Cardinality({j \in WithStatus(Terminal) : jobs[j].doc \in BatchDocs})
          + Cardinality({p \in Pollers : pc[p] \in {"complete", "markFailed"}
                                          /\ Doc(p) \in BatchDocs})

(* Without faults a batch closes, if its uploads are through before its    *)
(* last run is counted.  (An upload that comes to set the batch to         *)
(* processing after that re-opens it, and nothing closes it again.)        *)
UploadsThrough ==
    /\ \A d \in BatchDocs : docs[d].status # "unregistered"
    /\ marking = {}

BatchCloses ==
    UploadsThrough /\ batch.completed + batch.failed < Cardinality(BatchDocs)
      ~> batch.status \in Closed

=============================================================================
