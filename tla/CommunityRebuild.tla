-------------------------- MODULE CommunityRebuild --------------------------
(***************************************************************************)
(* The communities of one tenant's knowledge graph: the scheduler that     *)
(* every ingestion worker process runs (CommunityScheduler), the community *)
(* workers that handle its community_rebuild jobs one at a time            *)
(* (CommunityWorker over BaseWorkerProcessor), and the rebuild itself      *)
(* (ClusteringService): two reads of the graph, a third one for the        *)
(* summaries, the deletion of the stored rows and inserts in batches.      *)
(*                                                                         *)
(* The jobs of one tenant are alike and an ended row that no worker holds  *)
(* is never read again, so its place in the table is used anew.            *)
(***************************************************************************)
EXTENDS Naturals, FiniteSets

CONSTANTS
    Schedulers,         \* worker.py processes, each with a scheduler
    Workers,            \* community worker processes, each with one poller
    Tenant, NoTenant,
    MaxJobs,            \* bound: jobs active or held at a time
    MaxVersions,        \* bound: changes of the graph
    Communities(_, _),  \* the Leiden partition of entities and relations read
    BatchSize,          \* rows of an insert, 100 in the code
    Faults,             \* the kinds of fault that may happen
    MaxFaults           \* bound: faults in a behaviour

FaultKinds == {"crash", "call", "mark", "fetch", "enqueue"}

ASSUME CommunityAssumption ==
    /\ MaxVersions \in Nat
    /\ BatchSize \in Nat \ {0}
    /\ Faults \subseteq FaultKinds
    /\ MaxFaults \in Nat

VARIABLES
    jobs,       \* the community_rebuild rows of job_queue
    version,    \* of the tenant's entities and relations; 0: there are none
    scheduler,  \* where each scheduler is
    up,         \* the workers that run
    pc,         \* where each worker is
    job,        \* the job it handles
    rebuild,    \* what it has read: versions of both reads, communities
    left,       \* its communities not inserted yet
    stored,     \* knowledge_communities: per community id, its rebuild
    torn,       \* the last rebuild to write was cut short
    faults      \* faults so far

Queue == INSTANCE JobQueue WITH Docs <- {Tenant}, NoDoc <- NoTenant

workerVars == <<up, pc, job, rebuild, left>>
vars       == <<jobs, version, scheduler, workerVars, stored, torn, faults>>

NoJob   == 0
Nothing == [entities |-> 0, relations |-> 0, ids |-> {}, by |-> "nobody"]

Init ==
    /\ Queue!JobsInit
    /\ version = 0
    /\ scheduler = [s \in Schedulers |-> "idle"]
    /\ up = Workers
    /\ pc = [w \in Workers |-> "idle"]
    /\ job = [w \in Workers |-> NoJob]
    /\ rebuild = [w \in Workers |-> Nothing]
    /\ left = [w \in Workers |-> {}]
    /\ stored = {}
    /\ torn = FALSE
    /\ faults = 0

Fault(kind) ==
    /\ kind \in Faults
    /\ faults < MaxFaults
    /\ faults' = faults + 1

(* An ingestion or a deletion changes the tenant's graph. *)
GraphChanges ==
    /\ version < MaxVersions
    /\ version' = version + 1
    /\ UNCHANGED <<jobs, scheduler, workerVars, stored, torn, faults>>

-----------------------------------------------------------------------------
(* CommunityScheduler.tick, when the interval has passed.                  *)

Active == Queue!ActiveJobs(Tenant)

Holders(j) == {w \in Workers : job[w] = j}

Unused == {j \in Queue!JobIds \ Active : Holders(j) = {}}

(* Mutant: the check sees pending jobs only. *)
PendingFound == Queue!WithStatus({"pending"}) # {}

(* What the query of _enqueue_job finds. *)
JobFound == Active # {}

(* _run_cycle: a tenant with entities (_resolve_tenant_ids, unless the     *)
(* settings list the tenants) and without an active job ...                *)
Tick(s) ==
    /\ scheduler[s] = "idle"
    /\ version > 0
    /\ ~JobFound
    /\ scheduler' = [scheduler EXCEPT ![s] = "insert"]
    /\ UNCHANGED <<jobs, version, workerVars, stored, torn, faults>>

(* ... gets one, which no unique index guards.  An error is logged: the    *)
(* next cycle tries again.                                                 *)
InsertJob(s) ==
    /\ scheduler[s] = "insert"
    /\ scheduler' = [scheduler EXCEPT ![s] = "idle"]
    /\ \/ /\ \E j \in Queue!Oldest(Unused) :
               jobs' = [jobs EXCEPT ![j] = [status |-> "pending", doc |-> Tenant, fresh |-> TRUE]]
          /\ UNCHANGED faults
       \/ /\ Fault("enqueue")
          /\ UNCHANGED jobs
    /\ UNCHANGED <<version, workerVars, stored, torn>>

-----------------------------------------------------------------------------
(* The polling loop of the community worker.                               *)

Goto(w, place) == pc' = [pc EXCEPT ![w] = place]

(* The worker has nothing in hand any more. *)
Rest(w) ==
    /\ Goto(w, "idle")
    /\ job' = [job EXCEPT ![w] = NoJob]
    /\ rebuild' = [rebuild EXCEPT ![w] = Nothing]
    /\ left' = [left EXCEPT ![w] = {}]

RequeueStale(w) ==
    /\ w \in up
    /\ pc[w] = "idle"
    /\ Queue!RequeueStaleJobs
    /\ UNCHANGED <<version, scheduler, workerVars, stored, torn, faults>>

Fetch(w) ==
    /\ w \in up
    /\ pc[w] = "idle"
    /\ \E j \in Queue!JobIds :
         /\ Queue!FetchNextJob(j)
         /\ job' = [job EXCEPT ![w] = j]
    /\ Goto(w, "entities")
    /\ UNCHANGED <<version, scheduler, up, rebuild, left, stored, torn, faults>>

(* The claim is committed and its answer lost: the row has no holder. *)
FetchLost(w) ==
    /\ w \in up
    /\ pc[w] = "idle"
    /\ Fault("fetch")
    /\ \E j \in Queue!JobIds : Queue!FetchNextJob(j)
    /\ UNCHANGED <<version, scheduler, workerVars, stored, torn>>

(* mark_job_final; a transport error raises, with or without the update. *)
Complete(w) ==
    /\ pc[w] = "complete"
    /\ \/ /\ Queue!MarkJobFinal(job[w], "completed")
          /\ Rest(w)
          /\ UNCHANGED faults
       \/ /\ Fault("mark")
          /\ \/ Queue!MarkJobFinal(job[w], "completed")
             \/ UNCHANGED jobs
          /\ Goto(w, "markFailed")
          /\ UNCHANGED <<job, rebuild, left>>
    /\ UNCHANGED <<version, scheduler, up, stored, torn>>

MarkFailed(w) ==
    /\ pc[w] = "markFailed"
    /\ \/ Queue!MarkJobFinal(job[w], "failed") /\ UNCHANGED faults
       \/ Fault("mark") /\ UNCHANGED jobs
    /\ Rest(w)
    /\ UNCHANGED <<version, scheduler, up, stored, torn>>

-----------------------------------------------------------------------------
(* ClusteringService.rebuild_communities.                                  *)

(* _fetch_tenant_graph_data reads the entities ... *)
ReadEntities(w) ==
    /\ pc[w] = "entities"
    /\ rebuild' = [rebuild EXCEPT ![w].entities = version, ![w].by = w]
    /\ Goto(w, "relations")
    /\ UNCHANGED <<jobs, version, scheduler, up, job, left, stored, torn, faults>>

(* ... then the relations, and compute_communities partitions them. *)
ReadRelations(w) ==
    /\ pc[w] = "relations"
    /\ rebuild' = [rebuild EXCEPT ![w].relations = version]
    /\ Goto(w, IF Communities(rebuild[w].entities, version) = {} THEN "complete" ELSE "summarize")
    /\ UNCHANGED <<jobs, version, scheduler, up, job, left, stored, torn, faults>>

(* summarize_communities reads the members again: after a change of the    *)
(* graph a community may have none left, and is skipped.                   *)
Summarize(w) ==
    LET r == rebuild[w]
        all == Communities(r.entities, r.relations)
    IN  /\ pc[w] = "summarize"
        /\ \E kept \in IF r.entities = version THEN {all} ELSE SUBSET all :
             /\ rebuild' = [rebuild EXCEPT ![w].ids = kept]
             /\ Goto(w, IF kept = {} THEN "complete" ELSE "delete")
        /\ UNCHANGED <<jobs, version, scheduler, up, job, left, stored, torn, faults>>

(* persist_communities deletes every row of the tenant ... *)
DeleteRows(w) == stored' = {}

Delete(w) ==
    /\ pc[w] = "delete"
    /\ DeleteRows(w)
    /\ left' = [left EXCEPT ![w] = rebuild[w].ids]
    /\ Goto(w, "insert")
    /\ UNCHANGED <<jobs, version, scheduler, up, job, rebuild, torn, faults>>

(* The next BatchSize of the payloads, which are in the order in which the *)
(* summaries came.                                                         *)
Batches(w) ==
    IF Cardinality(left[w]) <= BatchSize
    THEN {left[w]}
    ELSE {b \in SUBSET left[w] : Cardinality(b) = BatchSize}

Rows(w, ids) == {[id |-> c, of |-> rebuild[w]] : c \in ids}

(* UNIQUE (tenant_id, community_id, level). *)
Conflicts(ids) == \E row \in stored : row.id \in ids

(* ... and inserts the new ones batch by batch; a refused batch fails the  *)
(* job and leaves the batches before it.                                   *)
Insert(w) ==
    /\ pc[w] = "insert"
    /\ \E b \in Batches(w) :
         IF Conflicts(b)
         THEN /\ Goto(w, "markFailed")
              /\ torn' = TRUE
              /\ UNCHANGED <<left, stored>>
         ELSE /\ stored' = stored \cup Rows(w, b)
              /\ left' = [left EXCEPT ![w] = @ \ b]
              /\ Goto(w, IF b = left[w] THEN "complete" ELSE "insert")
              /\ torn' = (torn /\ b # left[w])
    /\ UNCHANGED <<jobs, version, scheduler, up, job, rebuild, faults>>

Rebuilding == {"entities", "relations", "summarize", "delete", "insert"}

(* A call of the rebuild raises, the statement applied or not; a model     *)
(* that refuses fails the whole job before anything is deleted.            *)
CallFails(w) ==
    /\ pc[w] \in Rebuilding
    /\ Fault("call")
    /\ \/ UNCHANGED stored
       \/ pc[w] = "delete" /\ DeleteRows(w)
       \/ /\ pc[w] = "insert"
          /\ \E b \in Batches(w) : ~Conflicts(b) /\ stored' = stored \cup Rows(w, b)
    /\ torn' = (torn \/ pc[w] = "insert")
    /\ Goto(w, "markFailed")
    /\ UNCHANGED <<jobs, version, scheduler, up, job, rebuild, left>>

-----------------------------------------------------------------------------
Crash(w) ==
    /\ w \in up
    /\ Fault("crash")
    /\ up' = up \ {w}
    /\ Rest(w)
    /\ torn' = (torn \/ pc[w] = "insert")
    /\ UNCHANGED <<jobs, version, scheduler, stored>>

Restart(w) ==
    /\ w \notin up
    /\ up' = up \cup {w}
    /\ UNCHANGED <<jobs, version, scheduler, pc, job, rebuild, left, stored, torn, faults>>

(* The beats of a holder get through: only a row nobody holds goes stale. *)
Expire(j) ==
    /\ Holders(j) = {}
    /\ Queue!GrowStale(j)
    /\ UNCHANGED <<version, scheduler, workerVars, stored, torn, faults>>

Step(w) ==
    \/ Fetch(w) \/ ReadEntities(w) \/ ReadRelations(w) \/ Summarize(w) \/ Delete(w)
    \/ Insert(w) \/ Complete(w) \/ MarkFailed(w)

Next ==
    \/ GraphChanges
    \/ \E s \in Schedulers : Tick(s) \/ InsertJob(s)
    \/ \E w \in Workers : \/ Step(w) \/ RequeueStale(w)
                          \/ FetchLost(w) \/ CallFails(w) \/ Crash(w) \/ Restart(w)
    \/ \E j \in Queue!JobIds : Expire(j)

(* Schedulers tick, workers poll and their calls return, a dead worker is  *)
(* started again (by its operator: stack.sh does not watch it) and time    *)
(* passes.  Nothing obliges a fault or a change.                           *)
Fairness ==
    /\ \A s \in Schedulers : WF_vars(Tick(s)) /\ WF_vars(InsertJob(s))
    /\ \A w \in Workers : WF_vars(Step(w)) /\ WF_vars(RequeueStale(w)) /\ WF_vars(Restart(w))
    /\ \A j \in Queue!JobIds : WF_vars(Expire(j))

Spec == Init /\ [][Next]_vars /\ Fairness

-----------------------------------------------------------------------------
Ids == UNION {Communities(e, r) : e \in 0 .. MaxVersions, r \in 0 .. MaxVersions}

TypeOK ==
    /\ Queue!JobsTypeOK
    /\ version \in 0 .. MaxVersions
    /\ scheduler \in [Schedulers -> {"idle", "insert"}]
    /\ up \subseteq Workers
    /\ pc \in [Workers -> Rebuilding \cup {"idle", "complete", "markFailed"}]
    /\ job \in [Workers -> {NoJob} \cup Queue!JobIds]
    /\ rebuild \in [Workers -> [entities : 0 .. MaxVersions, relations : 0 .. MaxVersions,
                                ids : SUBSET Ids, by : Workers \cup {"nobody"}]]
    /\ left \in [Workers -> SUBSET Ids]
    /\ torn \in BOOLEAN
    /\ faults \in 0 .. MaxFaults

(* The stored communities are those of one rebuild, and all of them unless *)
(* a rebuild is being written or was cut short: with one scheduler and     *)
(* heartbeats that get through, the check before the insert, the exclusive *)
(* claim and the deletion keep the rebuilds of a tenant apart, although    *)
(* nothing locks the tenant and the inserts are separate transactions.     *)
OneSnapshot ==
    LET of == {row.of : row \in stored}
    IN  /\ Cardinality(of) <= 1
        /\ \A r \in of : \/ {row.id : row \in stored} = r.ids
                         \/ torn
                         \/ \E w \in Workers : pc[w] = "insert"

(* The stored communities are those of the graph as it is now. *)
UpToDate ==
    \E r \in [entities : {version}, relations : {version},
              ids : {Communities(version, version)}, by : Workers] :
        stored = {[id |-> c, of |-> r] : c \in r.ids}

(* Whatever was cut short by a crash, a refused call or a lost answer, the *)
(* communities are again and again those of the current graph: no job or   *)
(* scheduler gets stuck on the way.                                        *)
Refreshed == (version > 0) ~> []<>UpToDate

=============================================================================
