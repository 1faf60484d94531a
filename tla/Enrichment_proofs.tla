--------------------------- MODULE Enrichment_proofs ---------------------------
(***************************************************************************)
(* Theorems about Enrichment, for every number of pollers, replays, tasks  *)
(* and ingestions and for every kind of fault.                             *)
(*                                                                         *)
(* The queue: the document has at most one active enrichment job.          *)
(* Stitching: no anchor token is lost, and what is left in part behind is  *)
(* paid for by a fault that prevented its undoing.                         *)
(* Announcements: a chunk whose enrichment was logged as queued is loaded  *)
(* by the job of its ingestion.                                            *)
(***************************************************************************)
EXTENDS Enrichment, FiniteSetTheorems, TLAPS

(* A poller that is not idle has a row in hand. *)
HeldRows ==
    /\ pc \in [Pollers -> Places]
    /\ job \in [Pollers -> JobIds \cup {NoJob}]
    /\ \A p \in Pollers :
         pc[p] # "idle" => job[p] \in JobIds /\ jobs[job[p]].status # "absent"

OneActive ==
    \A j, k \in JobIds :
        jobs[j].status \in Active /\ jobs[k].status \in Active => j = k

IInv == JobsTypeOK /\ HeldRows /\ OneActive

(* All rows in use are the one document's. *)
LEMMA DocumentOnly == Docs = {Document}
<1>1. PICK d : Docs = {d}
  BY FS_Singleton, EnrichmentAssumption
<1> QED BY <1>1 DEF Document

LEMMA InitHolds == Init => IInv
BY DEF Init, IInv, JobsInit, JobsTypeOK, NoRow, Row, HeldRows, Places, OneActive, Active

-----------------------------------------------------------------------------
(* What a step does to the table.                                          *)

(* Rows stay in use, and none becomes active that was not. *)
NoNewActive ==
    /\ JobsTypeOK'
    /\ \A j \in JobIds : jobs[j].status # "absent" => jobs'[j].status # "absent"
    /\ \A j \in JobIds : jobs'[j].status \in Active => jobs[j].status \in Active

LEMMA NoNewActiveSuffices ==
    ASSUME OneActive, NoNewActive
    PROVE  OneActive'
BY DEF OneActive, NoNewActive

(* Every insert goes through the unique index. *)
LEMMA InsertKeepsOneActive ==
    ASSUME JobsTypeOK, OneActive, NEW inserted \in BOOLEAN, InsertJob(inserted)
    PROVE  /\ JobsTypeOK' /\ OneActive'
           /\ \A j \in JobIds : jobs[j].status # "absent" => jobs'[j].status # "absent"
<1>1. CASE UNCHANGED jobs
  BY <1>1 DEF JobsTypeOK, OneActive
<1>2. CASE /\ ActiveJobs(Document) = {}
           /\ \E j \in Oldest(WithStatus({"absent"})) :
                jobs' = [jobs EXCEPT ![j] = [status |-> "pending", doc |-> Document,
                                             fresh |-> TRUE]]
  <2>1. PICK j \in JobIds :
          /\ jobs[j].status = "absent"
          /\ jobs' = [jobs EXCEPT ![j] = [status |-> "pending", doc |-> Document,
                                          fresh |-> TRUE]]
    BY <1>2 DEF Oldest, WithStatus
  <2>2. JobsTypeOK'
    BY <2>1, DocumentOnly DEF JobsTypeOK, Row, Active
  <2>3. \A k \in JobIds : jobs[k].status \notin Active
    <3> SUFFICES ASSUME NEW k \in JobIds, jobs[k].status \in Active
                 PROVE  FALSE
      OBVIOUS
    <3>1. jobs[k].doc = Document
      BY DocumentOnly DEF JobsTypeOK, Active
    <3> QED BY <1>2, <3>1 DEF ActiveJobs, WithStatus
  <2> QED BY <2>1, <2>2, <2>3 DEF JobsTypeOK, OneActive
<1> QED BY <1>1, <1>2 DEF InsertJob

LEMMA FinalKeeps ==
    ASSUME JobsTypeOK, NEW j \in JobIds, jobs[j].status # "absent",
           NEW status \in Terminal, MarkJobFinal(j, status)
    PROVE  NoNewActive
BY DEF JobsTypeOK, Row, NoNewActive, MarkJobFinal, Active, Terminal

LEMMA FetchKeeps ==
    ASSUME JobsTypeOK, NEW j \in JobIds, FetchNextJob(j)
    PROVE  NoNewActive /\ jobs'[j].status # "absent"
BY DEF JobsTypeOK, Row, NoNewActive, FetchNextJob, Oldest, WithStatus, Active

LEMMA StaleKeeps ==
    ASSUME JobsTypeOK, RequeueStaleJobs
    PROVE  NoNewActive
<1> DEFINE Requeued(j) == [jobs[j] EXCEPT !.status = "pending", !.fresh = TRUE]
<1>1. ASSUME NEW j \in JobIds
      PROVE  /\ Requeued(j) \in Row /\ Requeued(j).doc = jobs[j].doc
             /\ Requeued(j).status = "pending"
  BY DEF JobsTypeOK, Row, Active
<1>2. ASSUME NEW j \in StaleJobs
      PROVE  jobs[j].status \in Active /\ jobs[j].status # "absent"
  BY DEF StaleJobs, WithStatus, Active
<1>3. jobs' = [j \in JobIds |-> IF j \in StaleJobs THEN Requeued(j) ELSE jobs[j]]
  BY DEF RequeueStaleJobs
<1> HIDE DEF Requeued
<1> QED BY <1>1, <1>2, <1>3 DEF JobsTypeOK, NoNewActive

LEMMA ExpiryKeeps ==
    ASSUME JobsTypeOK, NEW j \in JobIds, GrowStale(j)
    PROVE  NoNewActive
BY DEF JobsTypeOK, Row, NoNewActive, GrowStale, WithStatus, Active

LEMMA SameTableKeeps ==
    ASSUME JobsTypeOK, UNCHANGED jobs
    PROVE  NoNewActive
BY DEF JobsTypeOK, NoNewActive

-----------------------------------------------------------------------------
(* The pollers.                                                            *)

LEMMA StayHeld ==
    ASSUME HeldRows, NoNewActive, UNCHANGED <<pc, job>>
    PROVE  HeldRows'
BY DEF HeldRows, NoNewActive

(* A poller goes on with its row ... *)
LEMMA GotoHeld ==
    ASSUME HeldRows, NoNewActive, NEW p \in Pollers, NEW place \in Places,
           pc[p] # "idle", Goto(p, place), UNCHANGED job
    PROVE  HeldRows'
BY DEF HeldRows, NoNewActive, Goto

(* ... or lets it go. *)
LEMMA RestHeld ==
    ASSUME HeldRows, NoNewActive, NEW p \in Pollers, Rest(p)
    PROVE  HeldRows'
BY DEF HeldRows, NoNewActive, Goto, Rest, Places

LEMMA StitchKeeps ==
    ASSUME IInv, NEW p \in Pollers, Stitch(p)
    PROVE  NoNewActive /\ HeldRows'
<1>1. UNCHANGED <<jobs, job>>
  BY DEF Stitch, Bind, Upload, Rpc, Find, UpdateParent, InsertNode, RevertParent, Remove
<1>2. NoNewActive
  BY <1>1, SameTableKeeps DEF IInv
<1>3. pc[p] # "idle"
  BY DEF Stitch, Bind, Upload, Rpc, Find, UpdateParent, InsertNode, RevertParent, Remove
<1>4. UNCHANGED pc \/ \E place \in Places : Goto(p, place)
  BY DEF Stitch, Bind, Upload, Rpc, Find, UpdateParent, InsertNode, RevertParent, Remove,
         Integrated, Degrade, NextEntry, Places, Stitching
<1> QED BY <1>1, <1>2, <1>3, <1>4, GotoHeld, StayHeld DEF IInv

LEMMA PollKeeps ==
    ASSUME IInv, NEW p \in Pollers, Poll(p)
    PROVE  NoNewActive /\ HeldRows'
<1> USE DEF IInv
<1>1. CASE RequeueStale(p)
  BY <1>1, StaleKeeps, StayHeld DEF RequeueStale, pollerVars
<1>2. CASE Fetch(p)
  <2>1. PICK j \in JobIds : FetchNextJob(j) /\ job' = [job EXCEPT ![p] = j]
    BY <1>2 DEF Fetch
  <2>2. NoNewActive /\ jobs'[j].status # "absent"
    BY <2>1, FetchKeeps
  <2>3. pc' = [pc EXCEPT ![p] = "load"]
    BY <1>2 DEF Fetch, Goto
  <2> QED BY <2>1, <2>2, <2>3 DEF HeldRows, NoNewActive, Places
<1>3. CASE Load(p) \/ ReadMetadata(p) \/ Knowledge(p)
  <2>1. UNCHANGED <<jobs, job>> /\ pc[p] # "idle"
    BY <1>3 DEF Load, ReadMetadata, Knowledge
  <2>2. \E place \in Places : Goto(p, place)
    BY <1>3 DEF Load, ReadMetadata, Knowledge, Places
  <2> QED BY <2>1, <2>2, SameTableKeeps, GotoHeld
<1>4. CASE Complete(p)
  <2>1. pc[p] # "idle" /\ job[p] \in JobIds /\ jobs[job[p]].status # "absent"
    BY <1>4 DEF Complete, HeldRows
  <2>2. NoNewActive
    BY <1>4, <2>1, FinalKeeps, SameTableKeeps DEF Complete, Terminal
  <2>3. Rest(p) \/ (Goto(p, "markFailed") /\ UNCHANGED job)
    BY <1>4 DEF Complete
  <2> QED BY <2>1, <2>2, <2>3, RestHeld, GotoHeld DEF Places
<1>5. CASE MarkFailed(p)
  <2>1. job[p] \in JobIds /\ jobs[job[p]].status # "absent" /\ Rest(p)
    BY <1>5 DEF MarkFailed, HeldRows
  <2>2. NoNewActive
    BY <1>5, <2>1, FinalKeeps, SameTableKeeps DEF MarkFailed, Terminal
  <2> QED BY <2>1, <2>2, RestHeld
<1>6. CASE Crash(p)
  BY <1>6, SameTableKeeps, RestHeld DEF Crash
<1> QED BY <1>1, <1>2, <1>3, <1>4, <1>5, <1>6 DEF Poll

-----------------------------------------------------------------------------
(* At most one active job.                                                 *)

LEMMA StepHolds == IInv /\ [Next]_vars => IInv'
<1> SUFFICES ASSUME IInv, [Next]_vars PROVE IInv'
  OBVIOUS
<1> USE DEF IInv
<1>1. ASSUME NEW inserted \in BOOLEAN, InsertJob(inserted), UNCHANGED <<pc, job>>
      PROVE  IInv'
  <2>1. /\ JobsTypeOK' /\ OneActive'
        /\ \A j \in JobIds : jobs[j].status # "absent" => jobs'[j].status # "absent"
    BY <1>1, InsertKeepsOneActive
  <2> QED BY <1>1, <2>1 DEF HeldRows
<1>2. CASE Ingestion
  <2>1. CASE Enqueue
    BY <2>1, <1>1 DEF Enqueue, pollerVars
  <2>2. CASE Wipe \/ Persist \/ CheckQueue \/ Succeed \/ IngestStops
    <3>1. UNCHANGED <<jobs, pc, job>>
      BY <2>2 DEF Wipe, Persist, CheckQueue, Succeed, IngestStops, pollerVars
    <3> QED BY <3>1, SameTableKeeps, StayHeld, NoNewActiveSuffices DEF NoNewActive
  <2> QED BY <1>2, <2>1, <2>2 DEF Ingestion
<1>3. CASE \E r \in Replayers : ReplayCheck(r) \/ ReplayInsert(r)
  <2>1. PICK r \in Replayers : ReplayCheck(r) \/ ReplayInsert(r)
    BY <1>3
  <2>2. CASE ReplayInsert(r)
    BY <2>2, <1>1 DEF ReplayInsert, pollerVars
  <2>3. CASE ReplayCheck(r)
    <3>1. UNCHANGED <<jobs, pc, job>>
      BY <2>3 DEF ReplayCheck, pollerVars
    <3> QED BY <3>1, SameTableKeeps, StayHeld, NoNewActiveSuffices DEF NoNewActive
  <2> QED BY <2>1, <2>2, <2>3
<1>4. CASE \E p \in Pollers : Poll(p) \/ Stitch(p)
  BY <1>4, PollKeeps, StitchKeeps, NoNewActiveSuffices DEF NoNewActive
<1>5. CASE \E w \in late : LateWrite(w)
  <2>1. UNCHANGED <<jobs, pc, job>>
    BY <1>5 DEF LateWrite, pollerVars
  <2> QED BY <2>1, SameTableKeeps, StayHeld, NoNewActiveSuffices DEF NoNewActive
<1>6. CASE \E j \in JobIds : Expire(j)
  <2>1. PICK j \in JobIds : GrowStale(j) /\ UNCHANGED <<pc, job>>
    BY <1>6 DEF Expire, pollerVars
  <2> QED BY <2>1, ExpiryKeeps, StayHeld, NoNewActiveSuffices DEF NoNewActive
<1>7. CASE UNCHANGED vars
  <2>1. UNCHANGED <<jobs, pc, job>>
    BY <1>7 DEF vars, pollerVars
  <2> QED BY <2>1, SameTableKeeps, StayHeld, NoNewActiveSuffices DEF NoNewActive
<1> QED BY <1>2, <1>3, <1>4, <1>5, <1>6, <1>7 DEF Next

(* The document never has two active enrichment jobs, however the checks   *)
(* and inserts of the pipeline and of the replay endpoint interleave, and  *)
(* whatever is requeued: the unique index of the migration suffices.       *)
THEOREM AtMostOneActiveEnrichment == Spec => []SingleActiveEnrichment
<1>1. IInv => SingleActiveEnrichment
  <2> SUFFICES ASSUME IInv PROVE SingleActiveEnrichment
    OBVIOUS
  <2>1. CASE ActiveJobs(Document) = {}
    BY <2>1, FS_EmptySet DEF SingleActiveEnrichment
  <2>2. CASE \E j \in JobIds : ActiveJobs(Document) = {j}
    <3>1. PICK j \in JobIds : ActiveJobs(Document) = {j}
      BY <2>2
    <3>2. Cardinality({j}) = 1
      BY FS_Singleton
    <3> QED BY <3>1, <3>2 DEF SingleActiveEnrichment
  <2>3. \A j, k \in ActiveJobs(Document) : j = k
    BY DEF IInv, OneActive, ActiveJobs, WithStatus
  <2>4. ActiveJobs(Document) \subseteq JobIds
    BY DEF ActiveJobs, WithStatus
  <2> QED BY <2>1, <2>2, <2>3, <2>4
<1> QED BY <1>1, InitHolds, StepHolds, PTL DEF Spec

-----------------------------------------------------------------------------
(* The claim of a job is exclusive.                                        *)

(* A row in hand is in no other's hands, cannot be claimed or requeued,    *)
(* and is processing until its holder has marked it.                       *)
Exclusive ==
    /\ \A p \in Pollers : pc[p] = "idle" <=> job[p] = NoJob
    /\ \A p \in Pollers :
         pc[p] # "idle" => jobs[job[p]].status # "pending" /\ jobs[job[p]].fresh
    /\ \A p \in Pollers :
         pc[p] \notin {"idle", "markFailed"} => jobs[job[p]].status = "processing"
    /\ \A p, q \in Pollers : pc[p] # "idle" /\ job[p] = job[q] => p = q

(* Two pollers are never both at work. *)
LEMMA OneAtWork ==
    ASSUME IInv, Exclusive, NEW p \in Pollers, NEW q \in Pollers,
           pc[p] \notin {"idle", "markFailed"}, pc[q] \notin {"idle", "markFailed"}
    PROVE  p = q
BY DEF IInv, HeldRows, OneActive, Exclusive, Active

(* What the others hold, a step leaves as it is. *)
Spares(p) ==
    \A q \in Pollers \ {p} :
        pc[q] # "idle" => /\ jobs'[job[q]].status = jobs[job[q]].status
                          /\ jobs'[job[q]].fresh

LEMMA NobodyMoves ==
    ASSUME IInv, Exclusive, UNCHANGED <<pc, job>>,
           \A q \in Pollers :
             pc[q] # "idle" => /\ jobs'[job[q]].status = jobs[job[q]].status
                               /\ jobs'[job[q]].fresh
    PROVE  Exclusive'
BY DEF Exclusive

LEMMA HolderMoves ==
    ASSUME IInv, Exclusive, NEW p \in Pollers, pc[p] # "idle", UNCHANGED job, Spares(p),
           NEW place \in Places \ {"idle"}, Goto(p, place),
           jobs'[job[p]].fresh,
           jobs'[job[p]].status # "pending",
           place # "markFailed" => jobs'[job[p]].status = "processing"
    PROVE  Exclusive'
BY DEF IInv, HeldRows, Exclusive, Spares, Goto

LEMMA HolderRests ==
    ASSUME IInv, Exclusive, NEW p \in Pollers, Spares(p), Rest(p)
    PROVE  Exclusive'
BY DEF IInv, HeldRows, Exclusive, Spares, Goto, Rest, NoJob, JobIds

LEMMA FinalSpares ==
    ASSUME IInv, Exclusive, NEW p \in Pollers, pc[p] # "idle", NEW status,
           MarkJobFinal(job[p], status)
    PROVE  Spares(p)
BY DEF IInv, JobsTypeOK, HeldRows, Exclusive, Spares, MarkJobFinal

LEMMA InsertSpares ==
    ASSUME IInv, Exclusive, NEW inserted \in BOOLEAN, InsertJob(inserted),
           UNCHANGED <<pc, job>>
    PROVE  Exclusive'
<1>1. CASE UNCHANGED jobs
  BY <1>1, NobodyMoves DEF Exclusive
<1>2. CASE \E j \in Oldest(WithStatus({"absent"})) :
             jobs' = [jobs EXCEPT ![j] = [status |-> "pending", doc |-> Document,
                                          fresh |-> TRUE]]
  <2>1. PICK j \in JobIds :
          /\ jobs[j].status = "absent"
          /\ jobs' = [jobs EXCEPT ![j] = [status |-> "pending", doc |-> Document,
                                          fresh |-> TRUE]]
    BY <1>2 DEF Oldest, WithStatus
  <2>2. \A q \in Pollers : pc[q] # "idle" => job[q] # j /\ job[q] \in JobIds
    BY <2>1 DEF IInv, HeldRows
  <2>3. \A q \in Pollers : pc[q] # "idle" => jobs'[job[q]] = jobs[job[q]]
    BY <2>1, <2>2 DEF IInv, JobsTypeOK
  <2> QED BY <2>3, NobodyMoves DEF Exclusive
<1> QED BY <1>1, <1>2 DEF InsertJob

LEMMA StitchExclusive ==
    ASSUME IInv, Exclusive, NEW p \in Pollers, Stitch(p)
    PROVE  Exclusive'
<1>1. UNCHANGED <<jobs, job>> /\ pc[p] \notin {"idle", "markFailed"}
  BY DEF Stitch, Bind, Upload, Rpc, Find, UpdateParent, InsertNode, RevertParent, Remove
<1>2. UNCHANGED pc \/ \E place \in Places \ {"idle", "markFailed"} : Goto(p, place)
  BY DEF Stitch, Bind, Upload, Rpc, Find, UpdateParent, InsertNode, RevertParent, Remove,
         Integrated, Degrade, NextEntry, Places, Stitching
<1>3. CASE UNCHANGED pc
  BY <1>1, <1>3, NobodyMoves DEF Exclusive
<1>4. CASE \E place \in Places \ {"idle", "markFailed"} : Goto(p, place)
  <2>1. PICK place \in Places \ {"idle", "markFailed"} : Goto(p, place)
    BY <1>4
  <2>2. Spares(p) /\ jobs'[job[p]].fresh /\ jobs'[job[p]].status = "processing"
    BY <1>1 DEF Spares, Exclusive
  <2> QED BY <1>1, <2>1, <2>2, HolderMoves
<1> QED BY <1>2, <1>3, <1>4

LEMMA PollExclusive ==
    ASSUME IInv, Exclusive, NEW p \in Pollers, Poll(p)
    PROVE  Exclusive'
<1>1. CASE RequeueStale(p)
  <2>1. \A q \in Pollers : pc[q] # "idle" => job[q] \in JobIds \ StaleJobs
    BY DEF IInv, HeldRows, Exclusive, StaleJobs
  <2>2. \A q \in Pollers : pc[q] # "idle" => jobs'[job[q]] = jobs[job[q]]
    BY <1>1, <2>1 DEF RequeueStale, RequeueStaleJobs
  <2> QED BY <1>1, <2>2, NobodyMoves DEF Exclusive, RequeueStale, pollerVars
<1>2. CASE Fetch(p)
  <2>1. PICK j \in JobIds : FetchNextJob(j) /\ job' = [job EXCEPT ![p] = j]
    BY <1>2 DEF Fetch
  <2>2. /\ jobs[j].status = "pending"
        /\ jobs' = [jobs EXCEPT ![j].status = "processing", ![j].fresh = TRUE]
    BY <2>1 DEF FetchNextJob, Oldest, WithStatus
  <2>3. \A q \in Pollers : pc[q] # "idle" => job[q] # j
    BY <2>2 DEF Exclusive
  <2>4. \A q \in Pollers : pc[q] # "idle" => jobs'[job[q]] = jobs[job[q]]
    BY <2>2, <2>3 DEF IInv, JobsTypeOK, HeldRows
  <2>5. jobs'[j].status = "processing" /\ jobs'[j].fresh
    BY <2>2 DEF IInv, JobsTypeOK, Row
  <2>6. pc' = [pc EXCEPT ![p] = "load"] /\ pc[p] = "idle"
    BY <1>2 DEF Fetch, Goto
  <2> QED BY <2>1, <2>3, <2>4, <2>5, <2>6 DEF IInv, HeldRows, Exclusive, NoJob, JobIds
<1>3. CASE Load(p) \/ ReadMetadata(p) \/ Knowledge(p)
  <2>1. UNCHANGED <<jobs, job>> /\ pc[p] \notin {"idle", "markFailed"}
    BY <1>3 DEF Load, ReadMetadata, Knowledge
  <2>2. \E place \in Places \ {"idle"} : Goto(p, place)
    BY <1>3 DEF Load, ReadMetadata, Knowledge, Places
  <2>3. Spares(p) /\ jobs'[job[p]].fresh /\ jobs'[job[p]].status = "processing"
    BY <2>1 DEF Spares, Exclusive
  <2> QED BY <2>1, <2>2, <2>3, HolderMoves
<1>4. CASE Complete(p)
  <2>1. pc[p] = "complete" /\ job[p] \in JobIds /\ jobs[job[p]].status = "processing"
        /\ jobs[job[p]].fresh
    BY <1>4 DEF Complete, IInv, HeldRows, Exclusive
  <2>2. CASE MarkJobFinal(job[p], "completed")
    <3>1. Spares(p)
      BY <2>1, <2>2, FinalSpares
    <3>2. jobs'[job[p]].fresh /\ jobs'[job[p]].status = "completed"
      BY <2>1, <2>2 DEF MarkJobFinal, IInv, JobsTypeOK, Row
    <3>3. Rest(p) \/ (Goto(p, "markFailed") /\ UNCHANGED job)
      BY <1>4 DEF Complete
    <3> QED BY <2>1, <3>1, <3>2, <3>3, HolderRests, HolderMoves DEF Places
  <2>3. CASE UNCHANGED jobs /\ Goto(p, "markFailed") /\ UNCHANGED job
    BY <2>1, <2>3, HolderMoves DEF Spares, Exclusive, Places
  <2> QED BY <1>4, <2>2, <2>3 DEF Complete
<1>5. CASE MarkFailed(p)
  <2>1. pc[p] = "markFailed" /\ Rest(p)
    BY <1>5 DEF MarkFailed
  <2>2. CASE MarkJobFinal(job[p], "failed")
    BY <2>1, <2>2, FinalSpares, HolderRests
  <2>3. CASE UNCHANGED jobs
    BY <2>1, <2>3, HolderRests DEF Spares, Exclusive
  <2> QED BY <1>5, <2>2, <2>3 DEF MarkFailed
<1>6. CASE Crash(p)
  BY <1>6, HolderRests DEF Crash, Spares, Exclusive
<1> QED BY <1>1, <1>2, <1>3, <1>4, <1>5, <1>6 DEF Poll

LEMMA ExclusiveHolds ==
    ASSUME IInv, Exclusive, [Next]_vars
    PROVE  Exclusive'
<1>1. CASE UNCHANGED <<jobs, pc, job>>
  BY <1>1, NobodyMoves DEF Exclusive
<1>2. CASE Ingestion
  <2>1. CASE Enqueue
    BY <2>1, InsertSpares DEF Enqueue, pollerVars
  <2>2. CASE Wipe \/ Persist \/ CheckQueue \/ Succeed \/ IngestStops
    BY <2>2, <1>1 DEF Wipe, Persist, CheckQueue, Succeed, IngestStops, pollerVars
  <2> QED BY <1>2, <2>1, <2>2 DEF Ingestion
<1>3. CASE \E r \in Replayers : ReplayCheck(r) \/ ReplayInsert(r)
  <2>1. PICK r \in Replayers : ReplayCheck(r) \/ ReplayInsert(r)
    BY <1>3
  <2>2. CASE ReplayInsert(r)
    BY <2>2, InsertSpares DEF ReplayInsert, pollerVars
  <2>3. CASE ReplayCheck(r)
    BY <2>3, <1>1 DEF ReplayCheck, pollerVars
  <2> QED BY <2>1, <2>2, <2>3
<1>4. CASE \E p \in Pollers : Poll(p) \/ Stitch(p)
  BY <1>4, PollExclusive, StitchExclusive
<1>5. CASE \E w \in late : LateWrite(w)
  BY <1>5, <1>1 DEF LateWrite, pollerVars
<1>6. CASE \E j \in JobIds : Expire(j)
  <2>1. PICK j \in JobIds : /\ GrowStale(j)
                            /\ \A p \in Pollers : job[p] # j
                            /\ UNCHANGED <<pc, job>>
    BY <1>6 DEF Expire, pollerVars
  <2>2. \A q \in Pollers : pc[q] # "idle" => jobs'[job[q]] = jobs[job[q]]
    BY <2>1 DEF GrowStale, IInv, JobsTypeOK, HeldRows
  <2> QED BY <2>1, <2>2, NobodyMoves DEF Exclusive
<1>7. CASE UNCHANGED vars
  BY <1>7, <1>1 DEF vars, pollerVars
<1> QED BY <1>2, <1>3, <1>4, <1>5, <1>6, <1>7 DEF Next

-----------------------------------------------------------------------------
(* The anchor tokens.                                                      *)

Working == {"enrich"} \cup Stitching

(* The shapes of a run's variables at each place, and of the late writes.  *)
RunOK ==
    /\ run \in [Pollers -> Run]
    /\ gen \in 0 .. MaxGens /\ chunk \in {0, gen} /\ lastId \in 0 .. MaxIds
    /\ text \subseteq Ids /\ rows \subseteq 1 .. lastId
    /\ chunk = 0 => rows = {}
    /\ ingest = "persist" => chunk = 0 /\ gen < MaxGens
    /\ \A p \in Pollers :
         /\ pc[p] \in Stitching =>
              /\ run[p].entries # <<>>
              /\ run[p].id \in 1 .. lastId
              /\ run[p].id \in rows => Parent(p) = chunk
         /\ pc[p] \in {"idle", "load", "metadata"} => run[p] = NoRun
         /\ pc[p] = "enrich" => run[p].id = 0
         /\ \A i \in 1 .. Len(run[p].entries) : run[p].entries[i] <= gen
    /\ \A w \in late : w.text \subseteq Ids /\ w.chunk \in degraded

(* On a chunk where no integration was given up, a run at work keeps a     *)
(* text with the tokens of all nodes but the one in work, whose own token  *)
(* is in the chunk before the fallback inserts its row.                    *)
Anchored ==
    chunk \notin degraded =>
      /\ rows \subseteq text
      /\ \A p \in Pollers :
           /\ pc[p] \in Working =>
                \A i \in 1 .. Len(run[p].entries) :
                  run[p].entries[i] = chunk => rows \ {run[p].id} \subseteq run[p].copy[chunk]
           /\ pc[p] = "insert" /\ Parent(p) = chunk => run[p].id \in text

(* Nothing that matters changes. *)
LEMMA QuietStep ==
    ASSUME RunOK, Anchored,
           UNCHANGED <<pc, run, gen, chunk, lastId, text, rows, late, degraded>>,
           ingest' = "persist" => ingest = "persist"
    PROVE  RunOK' /\ Anchored'
BY DEF RunOK, Anchored, Parent

(* A poller moves between two places where its run does not matter, or it  *)
(* leaves one where it does.                                               *)
LEMMA PcStep ==
    ASSUME IInv, RunOK, Anchored, NEW p \in Pollers, NEW place \in Places, Goto(p, place),
           UNCHANGED <<run, gen, chunk, lastId, text, rows, late, degraded, ingest>>,
           place \notin Working,
           place \in {"idle", "load", "metadata"} => run[p] = NoRun
    PROVE  RunOK' /\ Anchored'
<1>1. pc' \in [Pollers -> Places] /\ pc'[p] = place
      /\ \A q \in Pollers \ {p} : pc'[q] = pc[q]
  BY DEF IInv, HeldRows, Goto
<1>2. RunOK'
  BY <1>1 DEF RunOK, Parent, Working, Stitching
<1>3. Anchored'
  BY <1>1 DEF Anchored, Parent, Working, Stitching
<1> QED BY <1>2, <1>3

(* The runs that have nothing to integrate. *)
LEMMA NoRunIsRun ==
    /\ NoRun \in Run /\ Len(NoRun.entries) = 0 /\ NoRun.id = 0
    /\ NoVisuals \in Run /\ Len(NoVisuals.entries) = 0 /\ NoVisuals.id = 0
BY EnrichmentAssumption DEF NoRun, NoVisuals, Run

LEMMA RestStep ==
    ASSUME IInv, RunOK, Anchored, NEW p \in Pollers, Rest(p),
           UNCHANGED <<gen, chunk, lastId, text, rows, degraded, ingest>>,
           late' \subseteq late
    PROVE  RunOK' /\ Anchored'
<1>1. /\ pc'[p] = "idle" /\ run'[p] = NoRun
      /\ \A q \in Pollers \ {p} : pc'[q] = pc[q] /\ run'[q] = run[q]
      /\ run' \in [Pollers -> Run]
  BY NoRunIsRun DEF IInv, HeldRows, RunOK, Goto, Rest
<1>2. RunOK'
  BY <1>1, NoRunIsRun DEF RunOK, Parent, Stitching
<1>3. Anchored'
  BY <1>1 DEF Anchored, Parent, Working, Stitching
<1> QED BY <1>2, <1>3

(* A step of the one poller at work: what is to be shown of it alone.      *)
LEMMA WorkStep ==
    ASSUME IInv, Exclusive, RunOK, Anchored, NEW p \in Pollers,
           pc[p] \notin {"idle", "markFailed"},
           NEW place \in Working, NEW r \in Run,
           pc' = [pc EXCEPT ![p] = place], run' = [run EXCEPT ![p] = r],
           UNCHANGED <<gen, chunk, ingest>>,
           lastId' \in 0 .. MaxIds, text' \subseteq Ids, rows' \subseteq 1 .. lastId',
           chunk = 0 => rows' = {},
           place \in Stitching => r.entries # <<>> /\ r.id \in 1 .. lastId',
           place \in Stitching /\ r.id \in rows' => Head(r.entries) = chunk,
           place = "enrich" => r.id = 0,
           \A i \in 1 .. Len(r.entries) : r.entries[i] <= gen,
           \A w \in late' : w.text \subseteq Ids /\ w.chunk \in degraded',
           chunk \notin degraded' =>
             /\ rows' \subseteq text'
             /\ \A i \in 1 .. Len(r.entries) :
                  r.entries[i] = chunk => rows' \ {r.id} \subseteq r.copy[chunk]
             /\ place = "insert" /\ Head(r.entries) = chunk => r.id \in text'
    PROVE  RunOK' /\ Anchored'
<1>1. /\ pc'[p] = place /\ run'[p] = r
      /\ \A q \in Pollers \ {p} : pc'[q] = pc[q] /\ run'[q] = run[q]
      /\ run' \in [Pollers -> Run]
  BY DEF IInv, HeldRows, RunOK
<1>2. \A q \in Pollers \ {p} : pc[q] \notin Working
  BY OneAtWork DEF Working, Stitching
<1>3. RunOK'
  <2>1. ASSUME NEW q \in Pollers
        PROVE  /\ pc'[q] \in Stitching =>
                    /\ run'[q].entries # <<>> /\ run'[q].id \in 1 .. lastId'
                    /\ run'[q].id \in rows' => Head(run'[q].entries) = chunk
               /\ pc'[q] \in {"idle", "load", "metadata"} => run'[q] = NoRun
               /\ pc'[q] = "enrich" => run'[q].id = 0
               /\ \A i \in 1 .. Len(run'[q].entries) : run'[q].entries[i] <= gen'
    <3>1. CASE q = p
      BY <1>1, <3>1 DEF Working, Stitching
    <3>2. CASE q # p
      BY <1>1, <1>2, <3>2 DEF RunOK, Working
    <3> QED BY <3>1, <3>2
  <2> QED BY <1>1, <2>1 DEF RunOK, Parent
<1>4. Anchored'
  <2> SUFFICES ASSUME chunk \notin degraded', NEW q \in Pollers
               PROVE  /\ rows' \subseteq text'
                      /\ pc'[q] \in Working =>
                           \A i \in 1 .. Len(run'[q].entries) :
                             run'[q].entries[i] = chunk
                               => rows' \ {run'[q].id} \subseteq run'[q].copy[chunk]
                      /\ pc'[q] = "insert" /\ Head(run'[q].entries) = chunk
                           => run'[q].id \in text'
    BY DEF Anchored, Parent
  <2>1. CASE q = p
    BY <1>1, <2>1
  <2>2. CASE q # p
    BY <1>1, <1>2, <2>2 DEF Working, Stitching
  <2> QED BY <2>1, <2>2
<1> QED BY <1>3, <1>4

(* Head and tail of a sequence that is not empty. *)
LEMMA SeqFacts ==
    ASSUME NEW S, NEW s \in Seq(S), s # <<>>
    PROVE  /\ Head(s) = s[1] /\ Head(s) \in S /\ 1 \in 1 .. Len(s)
           /\ Tail(s) \in Seq(S)
           /\ \A i \in 1 .. Len(Tail(s)) : i + 1 \in 1 .. Len(s) /\ Tail(s)[i] = s[i + 1]
OBVIOUS

(* What holds of the entry in work. *)
LEMMA EntryFacts ==
    ASSUME RunOK, NEW p \in Pollers, run[p].entries # <<>>
    PROVE  /\ run[p] \in Run /\ Parent(p) \in Gens /\ Parent(p) <= gen
           /\ Parent(p) = run[p].entries[1] /\ 1 \in 1 .. Len(run[p].entries)
           /\ Copy(p) \in SUBSET Ids
           /\ Tail(run[p].entries) \in Seq(Gens)
           /\ \A i \in 1 .. Len(Tail(run[p].entries)) :
                /\ i + 1 \in 1 .. Len(run[p].entries)
                /\ Tail(run[p].entries)[i] = run[p].entries[i + 1]
                /\ Tail(run[p].entries)[i] <= gen
<1>1. run[p] \in Run /\ run[p].entries \in Seq(Gens) /\ run[p].copy \in [Gens -> SUBSET Ids]
  BY DEF RunOK, Run
<1>2. \A i \in 1 .. Len(run[p].entries) : run[p].entries[i] <= gen
  BY DEF RunOK
<1> QED BY <1>1, <1>2, SeqFacts DEF Parent, Copy

(* The text kept for the present chunk, seen from the entry in work. *)
LEMMA CopyFacts ==
    ASSUME RunOK, Anchored, NEW p \in Pollers, pc[p] \in Working, run[p].entries # <<>>,
           chunk \notin degraded
    PROVE  /\ Parent(p) = chunk => rows \ {run[p].id} \subseteq Copy(p)
           /\ \A i \in 1 .. Len(Tail(run[p].entries)) :
                Tail(run[p].entries)[i] = chunk
                  => rows \ {run[p].id} \subseteq run[p].copy[chunk]
BY EntryFacts DEF Anchored, Copy

(* The node's row and its token are in: both ways to stitch it. *)
LEMMA IntegratedStep ==
    ASSUME IInv, Exclusive, RunOK, Anchored, NEW p \in Pollers, pc[p] \in Stitching,
           Integrated(p), chunk = Parent(p),
           rows' = rows \cup {run[p].id}, text' \subseteq Ids,
           chunk \notin degraded => rows' \subseteq text',
           UNCHANGED <<gen, chunk, ingest, lastId, late, degraded>>
    PROVE  RunOK' /\ Anchored'
<1> DEFINE copy == [run[p].copy EXCEPT ![chunk] = @ \cup {run[p].id}]
           r    == [k |-> run[p].k, entries |-> Tail(run[p].entries), copy |-> copy, id |-> 0]
<1>1. run[p].entries # <<>>
  BY DEF RunOK
<1>2. /\ run[p] \in Run /\ run[p].copy \in [Gens -> SUBSET Ids] /\ run[p].k \in 0 .. Tasks
      /\ Tail(run[p].entries) \in Seq(Gens) /\ chunk \in Gens
  BY <1>1, EntryFacts DEF Run
<1>3. run[p].id \in Ids /\ 0 \in 0 .. MaxIds /\ chunk # 0
  BY <1>2, EnrichmentAssumption DEF RunOK, Ids, Gens
<1>4. copy \in [Gens -> SUBSET Ids] /\ copy[chunk] = run[p].copy[chunk] \cup {run[p].id}
  BY <1>2, <1>3
<1>5. r \in Run /\ r.entries = Tail(run[p].entries) /\ r.id = 0 /\ r.copy = copy
  BY <1>2, <1>3, <1>4 DEF Run
<1>6. pc' = [pc EXCEPT ![p] = "enrich"] /\ run' = [run EXCEPT ![p] = r]
  BY DEF Integrated, NextEntry, Goto
<1>7. ASSUME chunk \notin degraded
      PROVE  \A i \in 1 .. Len(r.entries) :
               r.entries[i] = chunk => rows' \ {r.id} \subseteq r.copy[chunk]
  BY <1>1, <1>4, <1>5, <1>7, CopyFacts DEF Working
<1>8. \A i \in 1 .. Len(r.entries) : r.entries[i] <= gen
  BY <1>1, <1>5, EntryFacts
<1>9. /\ lastId' \in 0 .. MaxIds /\ rows' \subseteq 1 .. lastId'
      /\ \A w \in late' : w.text \subseteq Ids /\ w.chunk \in degraded'
  BY DEF RunOK
<1>10. pc[p] \notin {"idle", "markFailed"} /\ "enrich" \in Working /\ "enrich" \notin Stitching
  BY DEF Stitching, Working
<1> HIDE DEF r
<1> QED BY <1>3, <1>5, <1>6, <1>7, <1>8, <1>9, <1>10, WorkStep

(* An integration is given up. *)
LEMMA DegradeStep ==
    ASSUME IInv, Exclusive, RunOK, Anchored, NEW p \in Pollers, pc[p] \in Working,
           run[p].entries # <<>>, Degrade(p),
           lastId' \in lastId .. MaxIds,
           UNCHANGED <<gen, chunk, ingest, rows, text>>
    PROVE  RunOK' /\ Anchored'
<1> DEFINE r == [k |-> run[p].k, entries |-> Tail(run[p].entries), copy |-> run[p].copy,
                 id |-> 0]
<1>1. r \in Run /\ r.entries = Tail(run[p].entries) /\ r.id = 0 /\ r.copy = run[p].copy
  BY EntryFacts, EnrichmentAssumption DEF Run
<1>2. pc' = [pc EXCEPT ![p] = "enrich"] /\ run' = [run EXCEPT ![p] = r]
  BY EntryFacts DEF Degrade, NextEntry, Goto
<1>3. degraded' = degraded \cup {Parent(p)}
      /\ \A w \in late' : w.text \subseteq Ids /\ w.chunk \in degraded'
  BY EntryFacts DEF Degrade, RunOK
<1>4. ASSUME chunk \notin degraded'
      PROVE  /\ rows \subseteq text
             /\ \A i \in 1 .. Len(r.entries) :
                  r.entries[i] = chunk => rows \ {r.id} \subseteq r.copy[chunk]
  <2>1. chunk \notin degraded /\ chunk # Parent(p) /\ rows \subseteq text
    BY <1>3, <1>4 DEF Anchored
  <2>2. CASE pc[p] = "enrich"
    <3>1. run[p].id = 0
      BY <2>2 DEF RunOK
    <3> QED BY <1>1, <2>1, <3>1, CopyFacts
  <2>3. CASE pc[p] # "enrich"
    <3>1. run[p].id \notin rows
      BY <2>1, <2>3 DEF RunOK, Working
    <3> QED BY <1>1, <2>1, <3>1, CopyFacts
  <2> QED BY <2>2, <2>3
<1>5. \A i \in 1 .. Len(r.entries) : r.entries[i] <= gen
  BY <1>1, EntryFacts
<1>6. /\ lastId' \in 0 .. MaxIds /\ rows' \subseteq 1 .. lastId'
      /\ text' \subseteq Ids /\ (chunk = 0 => rows' = {})
  BY EnrichmentAssumption DEF RunOK
<1>7. pc[p] \notin {"idle", "markFailed"} /\ "enrich" \in Working /\ "enrich" \notin Stitching
  BY DEF Stitching, Working
<1> HIDE DEF r
<1> QED BY <1>1, <1>2, <1>3, <1>4, <1>5, <1>6, <1>7, WorkStep

(* A step between two places of the stitching. *)
LEMMA StitchingStep ==
    ASSUME IInv, Exclusive, RunOK, Anchored, NEW p \in Pollers,
           pc[p] \in Stitching, NEW place \in Stitching, Goto(p, place),
           UNCHANGED <<run, gen, chunk, ingest, lastId, late>>,
           degraded \subseteq degraded',
           text' \subseteq Ids,
           rows' = rows \/ (rows' = rows \cup {run[p].id} /\ chunk = Parent(p)),
           chunk \notin degraded' =>
             /\ rows' \subseteq text'
             /\ place = "insert" /\ Parent(p) = chunk => run[p].id \in text'
    PROVE  RunOK' /\ Anchored'
<1> DEFINE r == run[p]
<1>1. r \in Run /\ run' = [run EXCEPT ![p] = r] /\ pc' = [pc EXCEPT ![p] = place]
  BY DEF RunOK, Goto
<1>2. /\ r.entries # <<>> /\ r.id \in 1 .. lastId'
      /\ \A i \in 1 .. Len(r.entries) : r.entries[i] <= gen
  BY DEF RunOK
<1>3. Parent(p) \in Gens /\ Parent(p) # 0
  BY <1>2, EntryFacts, EnrichmentAssumption DEF Gens
<1>4. /\ rows' \subseteq 1 .. lastId' /\ lastId' \in 0 .. MaxIds /\ (chunk = 0 => rows' = {})
      /\ r.id \in rows' => Head(r.entries) = chunk
  BY <1>2, <1>3 DEF RunOK, Parent
<1>5. \A w \in late' : w.text \subseteq Ids /\ w.chunk \in degraded'
  BY DEF RunOK
<1>6. pc[p] \notin {"idle", "markFailed"} /\ place \in Working /\ place # "enrich"
      /\ pc[p] \in Working
  BY DEF Stitching, Working
<1>7. ASSUME chunk \notin degraded'
      PROVE  \A i \in 1 .. Len(r.entries) :
               r.entries[i] = chunk => rows' \ {r.id} \subseteq r.copy[chunk]
  BY <1>6, <1>7 DEF Anchored
<1>8. place = "insert" /\ Head(r.entries) = chunk /\ chunk \notin degraded' => r.id \in text'
  BY DEF Parent
<1> HIDE DEF r
<1> QED BY <1>1, <1>2, <1>4, <1>5, <1>6, <1>7, <1>8, WorkStep

(* Binding the visual tasks to their parents. *)
LEMMA BindKeeps ==
    ASSUME IInv, Exclusive, RunOK, Anchored, NEW p \in Pollers, Bind(p)
    PROVE  RunOK' /\ Anchored'
<1>1. /\ pc[p] = "enrich" /\ run[p].k < Tasks /\ pc' = [pc EXCEPT ![p] = "enrich"]
      /\ UNCHANGED <<gen, chunk, ingest, lastId, late, degraded, text, rows>>
  BY DEF Bind, IInv, HeldRows, worldVars, docVars, obsVars
<1>2. /\ run[p] \in Run /\ run[p].entries \in Seq(Gens) /\ run[p].copy \in [Gens -> SUBSET Ids]
      /\ run[p].k \in 0 .. Tasks /\ run[p].id = 0
      /\ \A i \in 1 .. Len(run[p].entries) : run[p].entries[i] <= gen
  BY <1>1 DEF RunOK, Run
<1>3. 0 \in 0 .. MaxIds /\ run[p].k + 1 \in 0 .. Tasks /\ Tasks \in 0 .. Tasks
  BY <1>1, <1>2, EnrichmentAssumption
<1>4. ASSUME NEW r \in Run, run' = [run EXCEPT ![p] = r], r.id = 0,
             \A i \in 1 .. Len(r.entries) : r.entries[i] <= gen,
             chunk \notin degraded =>
               \A i \in 1 .. Len(r.entries) :
                 r.entries[i] = chunk => rows \ {r.id} \subseteq r.copy[chunk]
      PROVE  RunOK' /\ Anchored'
  <2>1. /\ pc[p] \notin {"idle", "markFailed"} /\ "enrich" \in Working
        /\ "enrich" \notin Stitching
    BY <1>1 DEF Working, Stitching
  <2>2. /\ lastId' \in 0 .. MaxIds /\ text' \subseteq Ids /\ rows' \subseteq 1 .. lastId'
        /\ (chunk = 0 => rows' = {})
        /\ \A w \in late' : w.text \subseteq Ids /\ w.chunk \in degraded'
    BY <1>1 DEF RunOK
  <2>3. chunk \notin degraded => rows' \subseteq text'
    BY <1>1 DEF Anchored
  <2> QED BY <1>1, <1>4, <2>1, <2>2, <2>3, WorkStep
<1>5. CASE /\ chunk # 0
           /\ run' = [run EXCEPT ![p] = [k |-> run[p].k + 1,
                                         entries |-> Append(run[p].entries, chunk),
                                         copy |-> [run[p].copy EXCEPT ![chunk] = text],
                                         id |-> 0]]
  <2> DEFINE entries == Append(run[p].entries, chunk)
             copy    == [run[p].copy EXCEPT ![chunk] = text]
             r       == [k |-> run[p].k + 1, entries |-> entries, copy |-> copy, id |-> 0]
  <2>1. chunk \in Gens /\ chunk <= gen /\ text \in SUBSET Ids
    BY <1>5, EnrichmentAssumption DEF RunOK, Gens
  <2>2. copy \in [Gens -> SUBSET Ids] /\ copy[chunk] = text
    BY <1>2, <2>1
  <2>3. entries \in Seq(Gens) /\ (\A i \in 1 .. Len(entries) : entries[i] <= gen)
    BY <1>2, <2>1
  <2>4. r \in Run /\ r.entries = entries /\ r.copy = copy /\ r.id = 0
    BY <1>3, <2>2, <2>3 DEF Run
  <2>5. chunk \notin degraded => rows \subseteq r.copy[chunk]
    BY <2>2, <2>4 DEF Anchored
  <2>6. run' = [run EXCEPT ![p] = r]
    BY <1>5
  <2> HIDE DEF r
  <2> QED BY <1>4, <2>3, <2>4, <2>5, <2>6
<1>6. CASE run' = [run EXCEPT ![p].k = @ + 1]
  <2> DEFINE r == run'[p]
  <2>1. r \in Run /\ r.entries = run[p].entries /\ r.copy = run[p].copy /\ r.id = 0
    BY <1>2, <1>3, <1>6 DEF Run, RunOK
  <2>2. run' = [run EXCEPT ![p] = r]
    BY <1>6 DEF RunOK
  <2>3. chunk \notin degraded =>
          \A i \in 1 .. Len(r.entries) :
            r.entries[i] = chunk => rows \ {r.id} \subseteq r.copy[chunk]
    BY <1>1, <1>2, <2>1 DEF Anchored, Working
  <2> HIDE DEF r
  <2> QED BY <1>2, <1>4, <2>1, <2>2, <2>3
<1>7. CASE run' = [run EXCEPT ![p] = NoVisuals]
  <2>1. NoVisuals \in Run /\ NoVisuals.id = 0 /\ (\A i \in 1 .. Len(NoVisuals.entries) : FALSE)
    BY NoRunIsRun
  <2> HIDE DEF NoVisuals
  <2> QED BY <1>4, <1>7, <2>1
<1> QED BY <1>5, <1>6, <1>7 DEF Bind

(* A node id is handed out once: it has no row when its upload is stored. *)
LEMMA UploadKeeps ==
    ASSUME IInv, Exclusive, RunOK, Anchored, NEW p \in Pollers, Upload(p)
    PROVE  RunOK' /\ Anchored'
<1>1. /\ pc[p] = "enrich" /\ run[p].entries # <<>> /\ run[p].id = 0
      /\ UNCHANGED <<gen, chunk, ingest, text, rows>>
  BY DEF Upload, docVars, RunOK
<1>2. lastId \in 0 .. MaxIds /\ MaxIds \in Nat
  BY EnrichmentAssumption DEF RunOK
<1>3. CASE Degrade(p) /\ (UNCHANGED lastId \/ (lastId < MaxIds /\ lastId' = lastId + 1))
  <2>1. lastId' \in lastId .. MaxIds
    BY <1>2, <1>3
  <2> QED BY <1>1, <1>3, <2>1, DegradeStep DEF Working
<1>4. CASE /\ lastId < MaxIds
           /\ lastId' = lastId + 1
           /\ run' = [run EXCEPT ![p].id = lastId']
           /\ Goto(p, "rpc")
           /\ UNCHANGED <<late, degraded>>
  <2> DEFINE r == run'[p]
  <2>1. lastId' \in 0 .. MaxIds /\ lastId' \in 1 .. lastId' /\ lastId' \notin rows
    BY <1>2, <1>4 DEF RunOK
  <2>2. r \in Run /\ r.entries = run[p].entries /\ r.copy = run[p].copy /\ r.id = lastId'
    BY <1>4, <2>1 DEF Run, RunOK
  <2>3. run' = [run EXCEPT ![p] = r] /\ pc' = [pc EXCEPT ![p] = "rpc"]
    BY <1>4 DEF RunOK, Goto
  <2>4. /\ text' \subseteq Ids /\ rows' \subseteq 1 .. lastId' /\ (chunk = 0 => rows' = {})
        /\ \A i \in 1 .. Len(r.entries) : r.entries[i] <= gen
        /\ \A w \in late' : w.text \subseteq Ids /\ w.chunk \in degraded'
    BY <1>1, <1>2, <1>4, <2>2 DEF RunOK
  <2>5. ASSUME chunk \notin degraded'
        PROVE  /\ rows \subseteq text
               /\ \A i \in 1 .. Len(r.entries) :
                    r.entries[i] = chunk => rows \ {r.id} \subseteq r.copy[chunk]
    <3>1. rows \ {0} = rows
      BY DEF RunOK
    <3> QED BY <1>1, <1>4, <2>2, <2>5, <3>1 DEF Anchored, Working
  <2>6. /\ pc[p] \notin {"idle", "markFailed"} /\ "rpc" \in Working
        /\ "rpc" # "enrich" /\ "rpc" # "insert"
    BY <1>1 DEF Stitching, Working
  <2> HIDE DEF r
  <2> QED BY <1>1, <2>1, <2>2, <2>3, <2>4, <2>5, <2>6, WorkStep
<1> QED BY <1>3, <1>4 DEF Upload

(* The other steps that touch the node in work. *)
LEMMA StitchingKeeps ==
    ASSUME IInv, Exclusive, RunOK, Anchored, NEW p \in Pollers,
           Rpc(p) \/ Find(p) \/ UpdateParent(p) \/ InsertNode(p) \/ RevertParent(p) \/ Remove(p)
    PROVE  RunOK' /\ Anchored'
<1>1. /\ pc[p] \in Stitching /\ pc[p] \in Working
      /\ UNCHANGED <<gen, chunk, ingest, lastId>>
  BY DEF Rpc, Find, UpdateParent, InsertNode, RevertParent, Remove, docVars, worldVars,
         Stitching, Working
<1>2. run[p].entries # <<>> /\ run[p].id \in 1 .. lastId /\ run[p].id \in Ids
  BY <1>1, EnrichmentAssumption DEF RunOK, Ids
<1>3. Copy(p) \subseteq Ids /\ text \subseteq Ids
  BY <1>2, EntryFacts DEF RunOK
<1>4. /\ chunk \notin degraded /\ chunk = Parent(p) => rows \ {run[p].id} \subseteq Copy(p)
      /\ chunk \notin degraded => rows \subseteq text
  BY <1>1, <1>2, CopyFacts DEF Anchored
<1>5. CASE Rpc(p)
  <2>1. UNCHANGED <<late, degraded>>
    BY <1>5 DEF Rpc, obsVars
  <2>2. CASE /\ chunk = Parent(p)
             /\ rows' = rows \cup {run[p].id}
             /\ text' = Copy(p) \cup {run[p].id}
    <3>1. text' \subseteq Ids /\ (chunk \notin degraded => rows' \subseteq text')
      BY <1>2, <1>3, <1>4, <2>2
    <3>2. CASE Integrated(p)
      BY <1>1, <2>1, <2>2, <3>1, <3>2, IntegratedStep
    <3>3. CASE Goto(p, "find") /\ UNCHANGED run
      BY <1>1, <2>1, <2>2, <3>1, <3>3, StitchingStep DEF Stitching
    <3>4. Integrated(p) \/ (Goto(p, "find") /\ UNCHANGED run)
      BY <1>5 DEF Rpc
    <3> QED BY <3>2, <3>3, <3>4
  <2>3. CASE Goto(p, "find") /\ UNCHANGED <<run, rows, text>>
    BY <1>1, <1>3, <1>4, <2>1, <2>3, StitchingStep DEF Stitching
  <2> QED BY <1>5, <2>2, <2>3 DEF Rpc
<1>6. CASE Find(p)
  <2>1. UNCHANGED <<late, degraded, rows, text, run>> /\ (Goto(p, "update") \/ Goto(p, "remove"))
    BY <1>6 DEF Find, obsVars, worldVars
  <2> QED BY <1>1, <1>3, <1>4, <2>1, StitchingStep DEF Stitching
<1>7. CASE UpdateParent(p)
  <2>1. UNCHANGED <<late, degraded, rows, run>>
    BY <1>7 DEF UpdateParent, obsVars
  <2>2. CASE /\ WriteText(Parent(p), Copy(p) \cup {run[p].id})
             /\ Goto(p, "insert") \/ Goto(p, "remove")
    <3>1. /\ text' \subseteq Ids
          /\ chunk \notin degraded => rows \subseteq text'
          /\ chunk = Parent(p) => run[p].id \in text'
      BY <1>2, <1>3, <1>4, <2>2 DEF WriteText
    <3> QED BY <1>1, <2>1, <2>2, <3>1, StitchingStep DEF Stitching
  <2>3. CASE Goto(p, "remove") /\ UNCHANGED text
    BY <1>1, <1>3, <1>4, <2>1, <2>3, StitchingStep DEF Stitching
  <2> QED BY <1>7, <2>2, <2>3 DEF UpdateParent
<1>8. CASE InsertNode(p)
  <2>1. UNCHANGED <<late, degraded, text>> /\ pc[p] = "insert"
    BY <1>8 DEF InsertNode, obsVars
  <2>2. chunk \notin degraded /\ chunk = Parent(p) => run[p].id \in text
    BY <2>1 DEF Anchored
  <2>3. CASE chunk = Parent(p) /\ rows' = rows \cup {run[p].id}
    <3>1. chunk \notin degraded => rows' \subseteq text'
      BY <1>4, <2>1, <2>2, <2>3
    <3>2. CASE Integrated(p)
      BY <1>1, <1>3, <2>1, <2>3, <3>1, <3>2, IntegratedStep
    <3>3. CASE Goto(p, "revert") /\ UNCHANGED run
      BY <1>1, <1>3, <2>1, <2>3, <3>1, <3>3, StitchingStep DEF Stitching
    <3>4. Integrated(p) \/ (Goto(p, "revert") /\ UNCHANGED run)
      BY <1>8 DEF InsertNode
    <3> QED BY <3>2, <3>3, <3>4
  <2>4. CASE Goto(p, "revert") /\ UNCHANGED <<run, rows>>
    BY <1>1, <1>3, <1>4, <2>1, <2>4, StitchingStep DEF Stitching
  <2> QED BY <1>8, <2>3, <2>4 DEF InsertNode
<1>9. CASE RevertParent(p)
  <2>1. UNCHANGED <<late, rows, run>> /\ Goto(p, "remove")
        /\ degraded' = degraded \cup {Parent(p)}
        /\ (WriteText(Parent(p), Copy(p)) \/ UNCHANGED text)
    BY <1>9 DEF RevertParent
  <2>2. text' \subseteq Ids /\ (chunk \notin degraded' => rows \subseteq text')
    BY <1>3, <1>4, <2>1 DEF WriteText
  <2> QED BY <1>1, <2>1, <2>2, StitchingStep DEF Stitching
<1>10. CASE Remove(p)
  <2>1. Degrade(p) /\ UNCHANGED <<rows, text>>
    BY <1>10 DEF Remove
  <2>2. lastId' \in lastId .. MaxIds
    BY <1>1, EnrichmentAssumption DEF RunOK
  <2> QED BY <1>1, <1>2, <2>1, <2>2, DegradeStep
<1> QED BY <1>5, <1>6, <1>7, <1>8, <1>9, <1>10

(* The polling loop, the queue, and the ingestion. *)
LEMMA PollingKeeps ==
    ASSUME IInv, Exclusive, RunOK, Anchored, NEW p \in Pollers, Poll(p)
    PROVE  RunOK' /\ Anchored'
<1>1. UNCHANGED <<gen, chunk, ingest, lastId, text, rows, degraded>>
  BY DEF Poll, RequeueStale, Fetch, Load, ReadMetadata, Knowledge, Complete, MarkFailed, Crash,
         worldVars, docVars, obsVars
<1>2. pc[p] \in {"idle", "load", "metadata"} => run[p] = NoRun
  BY DEF RunOK
<1>3. CASE RequeueStale(p)
  BY <1>1, <1>3, QuietStep DEF RequeueStale, pollerVars
<1>4. CASE Fetch(p) \/ Load(p) \/ Knowledge(p)
  <2>1. UNCHANGED <<run, late>>
    BY <1>4 DEF Fetch, Load, Knowledge
  <2>2. \E place \in {"load", "complete", "metadata", "markFailed"} :
          /\ Goto(p, place)
          /\ place \in {"load", "metadata"} => pc[p] \in {"idle", "load"}
    BY <1>4 DEF Fetch, Load, Knowledge
  <2>3. \A place \in {"load", "complete", "metadata", "markFailed"} :
          place \in Places /\ place \notin Working /\ place # "idle"
    BY DEF Places, Working, Stitching
  <2> QED BY <1>1, <1>2, <2>1, <2>2, <2>3, PcStep
<1>5. CASE ReadMetadata(p)
  <2>1. pc[p] = "metadata" /\ pc' = [pc EXCEPT ![p] = "enrich"] /\ UNCHANGED late
    BY <1>5 DEF ReadMetadata, Goto
  <2>2. run' = [run EXCEPT ![p] = NoRun] \/ run' = [run EXCEPT ![p] = NoVisuals]
    BY <1>2, <1>5, <2>1 DEF ReadMetadata, RunOK
  <2>3. PICK r \in Run :
          /\ run' = [run EXCEPT ![p] = r]
          /\ r.id = 0
          /\ \A i \in 1 .. Len(r.entries) : FALSE
    BY <2>2, NoRunIsRun
  <2>4. /\ lastId' \in 0 .. MaxIds /\ text' \subseteq Ids /\ rows' \subseteq 1 .. lastId'
        /\ (chunk = 0 => rows' = {}) /\ (chunk \notin degraded' => rows' \subseteq text')
        /\ \A w \in late' : w.text \subseteq Ids /\ w.chunk \in degraded'
    BY <1>1, <2>1 DEF RunOK, Anchored
  <2>5. /\ pc[p] \notin {"idle", "markFailed"} /\ "enrich" \in Working
        /\ "enrich" \notin Stitching
    BY <2>1 DEF Working, Stitching
  <2> QED BY <1>1, <2>1, <2>3, <2>4, <2>5, WorkStep
<1>6. CASE Complete(p) \/ MarkFailed(p) \/ Crash(p)
  <2>1. late' \subseteq late
    BY <1>6 DEF Complete, MarkFailed, Crash
  <2>2. CASE Rest(p)
    BY <1>1, <2>1, <2>2, RestStep
  <2>3. CASE Goto(p, "markFailed") /\ UNCHANGED <<run, late>>
    BY <1>1, <2>3, PcStep DEF Places, Working, Stitching
  <2> QED BY <1>6, <2>2, <2>3 DEF Complete, MarkFailed, Crash
<1> QED BY <1>3, <1>4, <1>5, <1>6 DEF Poll

(* A late write lands on a chunk where an integration was given up. *)
LEMMA LateWriteKeeps ==
    ASSUME RunOK, Anchored, NEW w \in late, LateWrite(w)
    PROVE  RunOK' /\ Anchored'
<1>1. /\ UNCHANGED <<pc, run, gen, chunk, ingest, lastId, rows, degraded>>
      /\ late' \subseteq late
  BY DEF LateWrite, docVars, pollerVars, obsVars
<1>2. text' \subseteq Ids /\ (chunk \notin degraded => text' = text)
  BY DEF LateWrite, WriteText, RunOK
<1>3. RunOK'
  BY <1>1, <1>2 DEF RunOK, Parent
<1>4. Anchored'
  BY <1>1, <1>2 DEF Anchored, Parent
<1> QED BY <1>3, <1>4

(* Nothing is bound to chunk 0, nor to the chunk that is coming. *)
LEMMA EntryBounds ==
    ASSUME RunOK, NEW p \in Pollers
    PROVE  /\ \A i \in 1 .. Len(run[p].entries) :
                run[p].entries[i] # 0 /\ run[p].entries[i] <= gen
           /\ run[p].entries # <<>> => Parent(p) # 0 /\ Parent(p) <= gen
<1>1. run[p].entries \in Seq(Gens)
  BY DEF RunOK, Run
<1>2. \A i \in 1 .. Len(run[p].entries) : run[p].entries[i] <= gen
  BY DEF RunOK
<1>3. \A i \in 1 .. Len(run[p].entries) : run[p].entries[i] \in Gens
  BY <1>1
<1>4. 0 \notin Gens
  BY EnrichmentAssumption DEF Gens
<1> QED BY <1>2, <1>3, <1>4, EntryFacts

LEMMA WipeKeeps ==
    ASSUME RunOK, Anchored, Wipe
    PROVE  RunOK' /\ Anchored'
<1>1. /\ chunk' = 0 /\ text' = {} /\ rows' = {} /\ gen < MaxGens
      /\ UNCHANGED <<gen, lastId, degraded, late, pc, run>>
  BY DEF Wipe, WipeChunk, pollerVars, obsVars
<1>2. RunOK'
  BY <1>1 DEF RunOK
<1>3. \A p \in Pollers : pc[p] = "insert" => Parent(p) # 0
  BY EntryBounds DEF RunOK, Stitching
<1>4. Anchored'
  BY <1>1, <1>3 DEF Anchored, Parent
<1> QED BY <1>2, <1>4

LEMMA PersistKeeps ==
    ASSUME RunOK, Anchored, Persist
    PROVE  RunOK' /\ Anchored'
<1>1. /\ chunk = 0 /\ rows = {} /\ gen < MaxGens /\ gen' = gen + 1 /\ chunk' = gen + 1
      /\ ingest' = "check" /\ gen \in 0 .. MaxGens /\ MaxGens \in Nat
      /\ UNCHANGED <<text, rows, lastId, degraded, late, pc, run>>
  BY EnrichmentAssumption DEF Persist, RunOK, pollerVars, obsVars
<1>2. \A p \in Pollers : \A i \in 1 .. Len(run[p].entries) :
        run[p].entries[i] \in Gens /\ run[p].entries[i] <= gen
  BY DEF RunOK, Run
<1>3. \A p \in Pollers : \A i \in 1 .. Len(run[p].entries) :
        run[p].entries[i] # chunk' /\ run[p].entries[i] <= gen'
  BY <1>1, <1>2 DEF Gens
<1>4. RunOK'
  BY <1>1, <1>3 DEF RunOK
<1>5. \A p \in Pollers : pc[p] = "insert" => Parent(p) # chunk'
  <2> SUFFICES ASSUME NEW p \in Pollers, pc[p] = "insert" PROVE Parent(p) # chunk'
    OBVIOUS
  <2>1. Parent(p) \in Gens /\ Parent(p) <= gen
    BY EntryFacts DEF RunOK, Stitching
  <2> QED BY <1>1, <2>1 DEF Gens
<1>6. Anchored'
  BY <1>1, <1>3, <1>5 DEF Anchored, Parent
<1> QED BY <1>4, <1>6

LEMMA AnchorsKept ==
    ASSUME IInv, Exclusive, RunOK, Anchored, [Next]_vars
    PROVE  RunOK' /\ Anchored'
<1>1. CASE Ingestion
  <2>1. CASE CheckQueue \/ Enqueue \/ Succeed \/ IngestStops
    <3>1. UNCHANGED <<pc, run, gen, chunk, lastId, text, rows, late, degraded>>
      BY <2>1 DEF CheckQueue, Enqueue, Succeed, IngestStops, worldVars, pollerVars, obsVars
    <3>2. ingest' # "persist"
      BY <2>1 DEF CheckQueue, Enqueue, Succeed, IngestStops
    <3> QED BY <3>1, <3>2, QuietStep
  <2> QED BY <1>1, <2>1, WipeKeeps, PersistKeeps DEF Ingestion
<1>2. CASE \/ \E r \in Replayers : ReplayCheck(r) \/ ReplayInsert(r)
           \/ \E j \in JobIds : Expire(j)
           \/ UNCHANGED vars
  <2>1. UNCHANGED <<pc, run, gen, chunk, lastId, text, rows, late, degraded, ingest>>
    BY <1>2 DEF ReplayCheck, ReplayInsert, Expire, worldVars, docVars, pollerVars, obsVars, vars
  <2> QED BY <2>1, QuietStep
<1>3. CASE \E p \in Pollers : Poll(p) \/ Stitch(p)
  BY <1>3, PollingKeeps, BindKeeps, UploadKeeps, StitchingKeeps DEF Stitch
<1>4. CASE \E w \in late : LateWrite(w)
  BY <1>4, LateWriteKeeps
<1> QED BY <1>1, <1>2, <1>3, <1>4 DEF Next

LEMMA AnchorsInit == Init => Exclusive /\ RunOK /\ Anchored
<1> SUFFICES ASSUME Init PROVE Exclusive /\ RunOK /\ Anchored
  OBVIOUS
<1>1. Exclusive
  BY DEF Init, Exclusive
<1>2. \A p \in Pollers : run[p] = NoRun /\ pc[p] = "idle"
  BY DEF Init
<1>3. \A p \in Pollers : \A i \in 1 .. Len(run[p].entries) : FALSE
  BY <1>2, NoRunIsRun
<1>4. RunOK
  BY <1>2, <1>3, NoRunIsRun, EnrichmentAssumption DEF Init, RunOK, Stitching
<1>5. Anchored
  BY <1>2 DEF Init, Anchored, Working, Stitching
<1> QED BY <1>1, <1>4, <1>5

(* However runs, replays, re-ingestions, faults and late writes follow one *)
(* another, a chunk on which no integration was given up holds the anchor  *)
(* token of every visual node: the kept texts are written by one run at a  *)
(* time, because the active job is unique and its claim exclusive.         *)
THEOREM AnchorsStay == Spec => []NodesKeepTheirAnchors
<1> DEFINE Inv == IInv /\ Exclusive /\ RunOK /\ Anchored
<1>1. Init => Inv
  BY InitHolds, AnchorsInit
<1>2. Inv /\ [Next]_vars => Inv'
  BY StepHolds, ExclusiveHolds, AnchorsKept
<1>3. Inv => NodesKeepTheirAnchors
  BY DEF Anchored, NodesKeepTheirAnchors
<1> QED BY <1>1, <1>2, <1>3, PTL DEF Spec

-----------------------------------------------------------------------------
(* Stitching in whole or not at all.                                       *)

(* Faults are counted, and never uncounted. *)
Counting == faults \in [FaultKinds -> Nat]

Charges == faults["lost"] + faults["cleanup"] + faults["crash"]

LEMMA FaultCharges ==
    ASSUME Counting, NEW kind, Fault(kind)
    PROVE  /\ Counting' /\ Charges' >= Charges /\ TotalFaults' = TotalFaults + 1
           /\ kind \in {"lost", "cleanup", "crash"} => Charges' = Charges + 1
<1>1. kind \in FaultKinds /\ faults' = [faults EXCEPT ![kind] = @ + 1]
  BY EnrichmentAssumption DEF Fault
<1>2. \A k \in FaultKinds : faults[k] \in Nat
  BY DEF Counting
<1>3. Counting'
  BY <1>1, <1>2 DEF Counting
<1>4. \A k \in FaultKinds : faults'[k] = IF k = kind THEN faults[k] + 1 ELSE faults[k]
  BY <1>1 DEF Counting
<1> QED BY <1>1, <1>2, <1>3, <1>4 DEF FaultKinds, Charges, TotalFaults

LEMMA StepCharges ==
    ASSUME Counting, [Next]_vars
    PROVE  /\ Counting' /\ Charges' >= Charges
           /\ UNCHANGED faults \/ TotalFaults' = TotalFaults + 1
<1>1. UNCHANGED faults \/ \E kind : Fault(kind)
  <2>1. CASE Ingestion
    BY <2>1 DEF Ingestion, Wipe, Persist, CheckQueue, Enqueue, Succeed, IngestStops
  <2>2. ASSUME NEW p \in Pollers, Poll(p) PROVE UNCHANGED faults \/ \E kind : Fault(kind)
    BY <2>2 DEF Poll, RequeueStale, Fetch, Load, ReadMetadata, Knowledge, Complete, MarkFailed,
                Crash
  <2>3. ASSUME NEW p \in Pollers, Stitch(p) PROVE UNCHANGED faults \/ \E kind : Fault(kind)
    BY <2>3 DEF Stitch, Bind, Upload, Rpc, Find, UpdateParent, InsertNode, RevertParent, Remove
  <2>4. CASE \E r \in Replayers : ReplayCheck(r) \/ ReplayInsert(r)
    BY <2>4 DEF ReplayCheck, ReplayInsert
  <2>5. CASE \E w \in late : LateWrite(w)
    BY <2>5 DEF LateWrite
  <2>6. CASE \E j \in JobIds : Expire(j)
    BY <2>6 DEF Expire
  <2> QED BY <2>1, <2>2, <2>3, <2>4, <2>5, <2>6 DEF Next, vars
<1>2. CASE UNCHANGED faults
  <2>1. Charges \in Int
    BY DEF Counting, Charges, FaultKinds
  <2> QED BY <1>2, <2>1 DEF Counting, Charges
<1>3. ASSUME NEW kind, Fault(kind)
      PROVE  Counting' /\ Charges' >= Charges /\ TotalFaults' = TotalFaults + 1
  BY <1>3, FaultCharges
<1> QED BY <1>1, <1>2, <1>3

(* The token is, or may come back, in the text of the present chunk. *)
Token(i) ==
    \/ i \in text
    \/ \E p \in Pollers : pc[p] \in Working /\ chunk \in Gens /\ i \in run[p].copy[chunk]
    \/ \E w \in late : w.chunk = chunk /\ i \in w.text

Half(i) == (i \in rows) # (<<chunk, i>> \in assets)

(* The node in work will be torn unless its run is undone further. *)
Spoiled(p) == run[p].id \in rows \/ (pc[p] = "remove" /\ run[p].id \in text)

(* The nodes torn, or that an ending of their run or a late write tears. *)
Damaged(i) ==
    \/ i \notin InWork /\ (Half(i) \/ (Token(i) /\ i \notin rows))
    \/ \E p \in Pollers : pc[p] \in Stitching /\ run[p].id = i /\ Spoiled(p)

Marks == {i \in Ids : Damaged(i)}

(* Ids are handed out upwards, for one chunk each. *)
World ==
    /\ text \subseteq 1 .. lastId
    /\ chunk = 0 => text = {}
    /\ \A w \in late : w.text \subseteq 1 .. lastId /\ w.chunk \in 1 .. gen
    /\ assets \subseteq (1 .. gen) \X (1 .. lastId)

(* What a run at work keeps, and the node in work. *)
HeldAt(place, r) ==
    /\ \A c \in Gens : r.copy[c] \subseteq 1 .. lastId /\ (c > gen => r.copy[c] = {})
    /\ place \in Stitching =>
         /\ \A c \in Gens : <<c, r.id>> \in assets <=> c = Head(r.entries)
         /\ \A c \in Gens : r.id \notin r.copy[c]
         /\ \A w \in late : r.id \notin w.text
         /\ chunk # Head(r.entries) => r.id \notin text
         /\ place = "rpc" => r.id \notin rows \cup text
         /\ place \in {"find", "update"} /\ r.id \in text => r.id \in rows

Sound == World /\ \A p \in Pollers : pc[p] \in Working => HeldAt(pc[p], run[p])

Kept == Marks' \subseteq Marks

Billed == Charges' = Charges + 1 /\ \E x : Marks' \subseteq Marks \cup {x}

LEMMA TornAreMarked ==
    ASSUME RunOK
    PROVE  Torn \subseteq Marks
<1> SUFFICES ASSUME NEW i \in Torn PROVE i \in Marks
  OBVIOUS
<1>1. i \in Ids
  BY EnrichmentAssumption DEF Torn, RunOK, Ids
<1> QED BY <1>1 DEF Torn, Marks, Damaged, Half, Token

LEMMA MarksFinite == IsFiniteSet(Marks) /\ Cardinality(Marks) \in Nat
<1>1. IsFiniteSet(Ids)
  BY EnrichmentAssumption, FS_Interval DEF Ids
<1> QED BY <1>1, FS_Subset, FS_CardinalityType DEF Marks

LEMMA MarksBounded ==
    ASSUME Counting, Cardinality(Marks) <= Charges, Charges' >= Charges, Counting', Kept \/ Billed
    PROVE  (Cardinality(Marks) <= Charges)'
<1>1. Charges \in Nat /\ Charges' \in Nat
  BY DEF Counting, Charges, FaultKinds
<1>2. Cardinality(Marks) \in Nat /\ Cardinality(Marks') \in Nat
      /\ IsFiniteSet(Marks) /\ IsFiniteSet(Marks')
  <2>1. IsFiniteSet(Ids)
    BY EnrichmentAssumption, FS_Interval DEF Ids
  <2>2. IsFiniteSet(Marks')
    BY <2>1, FS_Subset DEF Marks
  <2> QED BY <2>2, MarksFinite, FS_CardinalityType
<1>3. CASE Kept
  <2>1. Cardinality(Marks') <= Cardinality(Marks)
    BY <1>2, <1>3, FS_Subset DEF Kept
  <2> QED BY <1>1, <1>2, <2>1
<1>4. CASE Billed
  <2>1. PICK x : Marks' \subseteq Marks \cup {x}
    BY <1>4 DEF Billed
  <2>2. ASSUME NEW S, IsFiniteSet(S), Cardinality(S) \in Nat
        PROVE  /\ IsFiniteSet(S \cup {x}) /\ Cardinality(S \cup {x}) \in Nat
               /\ Cardinality(S \cup {x}) <= Cardinality(S) + 1
    <3>1. /\ IsFiniteSet(S \cup {x})
          /\ Cardinality(S \cup {x}) = Cardinality(S)
               \/ Cardinality(S \cup {x}) = Cardinality(S) + 1
      BY <2>2, FS_AddElement
    <3> QED BY <2>2, <3>1
  <2> HIDE DEF Marks
  <2>3. /\ IsFiniteSet(Marks \cup {x}) /\ Cardinality(Marks \cup {x}) \in Nat
        /\ Cardinality(Marks \cup {x}) <= Cardinality(Marks) + 1
    BY <1>2, <2>2
  <2>4. Cardinality(Marks') <= Cardinality(Marks \cup {x})
    BY <2>1, <2>3, FS_Subset
  <2> QED BY <1>1, <1>2, <1>4, <2>3, <2>4 DEF Billed
<1> QED BY <1>3, <1>4

-----------------------------------------------------------------------------
(* Steps in which no node is worked on.                                    *)

(* A poller that has no node in work gives its run up, or has none. *)
LEMMA OutStep ==
    ASSUME Sound, NEW p \in Pollers, pc[p] \notin Stitching, pc'[p] \notin Working,
           \A q \in Pollers \ {p} : pc'[q] = pc[q] /\ run'[q] = run[q],
           UNCHANGED <<text, rows, assets, chunk, gen, lastId>>, late' \subseteq late
    PROVE  Sound' /\ Kept
<1>1. \A q \in Pollers : pc'[q] \in Working => pc'[q] = pc[q] /\ run'[q] = run[q]
  OBVIOUS
<1>2. InWork' = InWork
  BY DEF InWork, Working
<1>3. Sound'
  BY <1>1 DEF Sound, World, HeldAt
<1>4. ASSUME NEW i, Damaged(i)' PROVE Damaged(i)
  BY <1>1, <1>2, <1>4 DEF Damaged, Half, Token, Spoiled, Working
<1> QED BY <1>3, <1>4 DEF Kept, Marks

LEMMA StillStep ==
    ASSUME Sound, UNCHANGED <<pc, run, text, rows, assets, chunk, gen, lastId, late>>
    PROVE  Sound' /\ Kept
<1>1. Sound'
  BY DEF Sound, World, HeldAt
<1>2. InWork' = InWork
  BY DEF InWork
<1> QED BY <1>1, <1>2 DEF Kept, Marks, Damaged, Half, Token, Spoiled

(* A process dies: the node in work, if any, may stay torn. *)
LEMMA CrashBilled ==
    ASSUME IInv, RunOK, Counting, Sound, NEW p \in Pollers, Crash(p)
    PROVE  Sound' /\ Billed
<1>1. /\ pc'[p] = "idle" /\ \A q \in Pollers \ {p} : pc'[q] = pc[q] /\ run'[q] = run[q]
      /\ UNCHANGED <<text, rows, assets, chunk, gen, lastId>> /\ late' \subseteq late
  BY DEF Crash, Rest, Goto, IInv, HeldRows, RunOK, worldVars, docVars
<1>2. Charges' = Charges + 1
  BY FaultCharges DEF Crash
<1>3. \A q \in Pollers : pc'[q] \in Working => q # p /\ pc'[q] = pc[q] /\ run'[q] = run[q]
  BY <1>1 DEF Working, Stitching
<1>4. Sound'
  BY <1>1, <1>3 DEF Sound, World, HeldAt
<1>5. ASSUME NEW i, Damaged(i)', i # run[p].id PROVE Damaged(i)
  <2>1. i \in InWork <=> i \in InWork'
    BY <1>1, <1>3, <1>5 DEF InWork, Working
  <2> QED BY <1>1, <1>3, <1>5, <2>1 DEF Damaged, Half, Token, Spoiled, Working
<1>6. Marks' \subseteq Marks \cup {run[p].id}
  BY <1>5 DEF Marks
<1> QED BY <1>2, <1>4, <1>6 DEF Billed

(* The visual part begins with no text kept. *)
LEMMA ReadMetadataKept ==
    ASSUME IInv, RunOK, Sound, NEW p \in Pollers, ReadMetadata(p)
    PROVE  Sound' /\ Kept
<1>1. /\ pc[p] = "metadata" /\ pc'[p] = "enrich"
      /\ \A q \in Pollers \ {p} : pc'[q] = pc[q] /\ run'[q] = run[q]
      /\ UNCHANGED <<text, rows, assets, chunk, gen, lastId, late>>
  BY DEF ReadMetadata, Goto, IInv, HeldRows, RunOK, worldVars, docVars
<1>2. \A c \in Gens : run'[p].copy[c] = {}
  <2>1. run'[p] \in {NoRun, NoVisuals}
    BY <1>1 DEF ReadMetadata, RunOK
  <2> QED BY <2>1 DEF NoRun, NoVisuals
<1>3. InWork' = InWork
  BY <1>1 DEF InWork, Stitching
<1>4. Sound'
  BY <1>1, <1>2 DEF Sound, World, HeldAt, Stitching
<1>5. ASSUME NEW i, Damaged(i)' PROVE Damaged(i)
  <2>1. Token(i)' => Token(i)
    BY <1>1, <1>2 DEF Token
  <2>2. \A q \in Pollers : pc'[q] \in Stitching => q # p
    BY <1>1 DEF Stitching
  <2> QED BY <1>1, <1>3, <1>5, <2>1, <2>2 DEF Damaged, Half, Spoiled
<1> QED BY <1>4, <1>5 DEF Kept, Marks

LEMMA LateWriteKept ==
    ASSUME Sound, NEW w \in late, LateWrite(w)
    PROVE  Sound' /\ Kept
<1>1. /\ UNCHANGED <<pc, run, rows, assets, chunk, gen, lastId>> /\ late' \subseteq late
      /\ text' = text \/ (w.chunk = chunk /\ text' = w.text)
  BY DEF LateWrite, WriteText, docVars, pollerVars
<1>2. InWork' = InWork
  BY <1>1 DEF InWork
<1>3. ASSUME NEW p \in Pollers, pc[p] \in Stitching, run[p].id \in text' PROVE run[p].id \in text
  BY <1>1, <1>3 DEF Sound, HeldAt, Working
<1>4. World'
  <2>1. w.chunk # 0 /\ w.text \subseteq 1 .. lastId
    BY DEF Sound, World
  <2> QED BY <1>1, <2>1 DEF Sound, World
<1>5. ASSUME NEW p \in Pollers, pc[p] \in Working PROVE HeldAt(pc[p], run[p])'
  BY <1>1, <1>3, <1>5 DEF Sound, HeldAt
<1>6. ASSUME NEW i, Damaged(i)' PROVE Damaged(i)
  <2>1. Token(i)' => Token(i)
    BY <1>1 DEF Token
  <2> QED BY <1>1, <1>2, <1>3, <1>6, <2>1 DEF Damaged, Half, Spoiled
<1> QED BY <1>1, <1>4, <1>5, <1>6 DEF Sound, Kept, Marks

(* A chunk that goes takes its rows and its text along. *)
LEMMA WipeKept ==
    ASSUME Sound, Wipe
    PROVE  Sound' /\ Kept
<1>1. /\ chunk' = 0 /\ text' = {} /\ rows' = {}
      /\ UNCHANGED <<pc, run, assets, gen, lastId, late>>
  BY DEF Wipe, WipeChunk, pollerVars
<1>2. Sound'
  BY <1>1 DEF Sound, World, HeldAt
<1>3. \A i : <<0, i>> \notin assets
  BY DEF Sound, World
<1>4. /\ \A w \in late : w.chunk # 0
      /\ 0 \notin Gens
  BY EnrichmentAssumption DEF Sound, World, Gens
<1>5. ASSUME NEW i PROVE ~Half(i)'
  <2>1. i \notin rows' /\ <<chunk', i>> \notin assets'
    BY <1>1, <1>3
  <2> QED BY <2>1 DEF Half
<1>6. \A i : ~Token(i)'
  BY <1>1, <1>4 DEF Token
<1>7. \A p : ~Spoiled(p)'
  BY <1>1 DEF Spoiled
<1>8. \A i : ~Damaged(i)'
  BY <1>5, <1>6, <1>7 DEF Damaged
<1> QED BY <1>2, <1>8 DEF Kept, Marks

(* Nothing is stored, kept or on its way for the chunk that comes. *)
LEMMA PersistKept ==
    ASSUME RunOK, Sound, Persist
    PROVE  Sound' /\ Kept
<1>1. /\ chunk = 0 /\ rows = {} /\ text = {} /\ gen \in Nat /\ gen' = gen + 1 /\ chunk' = gen + 1
      /\ UNCHANGED <<pc, run, text, rows, assets, lastId, late>>
  BY DEF Persist, RunOK, Sound, World, pollerVars
<1>2. World'
  BY <1>1 DEF Sound, World
<1>3. ASSUME NEW p \in Pollers, pc[p] \in Working PROVE HeldAt(pc[p], run[p])'
  <2>1. \A c \in Gens : c \in Nat /\ (c > gen + 1 => c > gen)
    BY <1>1 DEF Gens
  <2> QED BY <1>1, <1>3, <2>1 DEF Sound, HeldAt
<1>4. \A i : <<gen + 1, i>> \notin assets
  BY <1>1 DEF Sound, World
<1>5. \A w \in late : w.chunk # gen + 1
  BY <1>1 DEF Sound, World
<1>6. \A p \in Pollers : pc[p] \in Working /\ gen + 1 \in Gens => run[p].copy[gen + 1] = {}
  BY <1>1 DEF Sound, HeldAt
<1>7. \A i : ~Damaged(i)'
  BY <1>1, <1>4, <1>5, <1>6 DEF Damaged, Half, Token, Spoiled
<1> QED BY <1>1, <1>2, <1>3, <1>7 DEF Sound, Kept, Marks

-----------------------------------------------------------------------------
(* The steps of the one poller at work.                                    *)

(* Damaged, when only one poller is at work. *)
Alone(i, place, r) ==
    IF place \in Stitching /\ r.id = i
    THEN i \in rows \/ (place = "remove" /\ i \in text)
    ELSE \/ Half(i)
         \/ /\ i \notin rows
            /\ \/ i \in text
               \/ chunk \in Gens /\ i \in r.copy[chunk]
               \/ \E w \in late : w.chunk = chunk /\ i \in w.text

(* What is to be shown of a step of its: for all nodes but one, if charged. *)
LEMMA AtWork ==
    ASSUME IInv, Exclusive, NEW p \in Pollers, pc[p] \in Working, pc'[p] \in Working,
           \A q \in Pollers \ {p} : pc'[q] = pc[q] /\ run'[q] = run[q],
           World', HeldAt(pc[p], run[p])',
           NEW x,
           \A i : i # x /\ Alone(i, pc[p], run[p])' => Alone(i, pc[p], run[p]),
           \/ Alone(x, pc[p], run[p])' => Alone(x, pc[p], run[p])
           \/ Charges' = Charges + 1
    PROVE  Sound' /\ (Kept \/ Billed)
<1>1. pc[p] \notin {"idle", "markFailed"}
  BY DEF Working, Stitching
<1>2. \A q \in Pollers \ {p} : pc[q] \notin Working /\ pc'[q] \notin Working
  BY <1>1, OneAtWork DEF Working, Stitching
<1>3. Sound'
  BY <1>2 DEF Sound
<1>4. ASSUME NEW i PROVE Damaged(i)' => Alone(i, pc[p], run[p])'
  BY <1>2 DEF Damaged, InWork, Token, Spoiled, Alone, Working
<1>5. ASSUME NEW i PROVE Alone(i, pc[p], run[p]) => Damaged(i)
  BY <1>2 DEF Damaged, InWork, Token, Spoiled, Alone, Working
<1>6. CASE Alone(x, pc[p], run[p])' => Alone(x, pc[p], run[p])
  BY <1>3, <1>4, <1>5, <1>6 DEF Kept, Marks
<1>7. CASE Charges' = Charges + 1
  BY <1>3, <1>4, <1>5, <1>7 DEF Billed, Marks
<1> QED BY <1>6, <1>7

(* What holds of the node in work. *)
LEMMA NodeFacts ==
    ASSUME RunOK, Sound, NEW p \in Pollers, pc[p] \in Stitching
    PROVE  /\ run[p].entries # <<>> /\ run[p].id \in 1 .. lastId
           /\ Parent(p) \in Gens /\ Parent(p) \in 1 .. gen /\ Parent(p) # 0
           /\ HeldAt(pc[p], run[p]) /\ Copy(p) \subseteq 1 .. lastId /\ run[p].id \notin Copy(p)
           /\ run[p].copy \in [Gens -> SUBSET Ids]
           /\ gen \in Nat /\ lastId \in Nat
<1>1. run[p].entries # <<>> /\ run[p].id \in 1 .. lastId /\ gen \in Nat /\ lastId \in Nat
  BY DEF RunOK
<1>2. Parent(p) \in Gens /\ Parent(p) <= gen /\ run[p] \in Run
  BY <1>1, EntryFacts
<1>3. Parent(p) \in 1 .. gen /\ Parent(p) # 0
  BY <1>1, <1>2, EnrichmentAssumption DEF Gens
<1>4. HeldAt(pc[p], run[p])
  BY DEF Sound, Working
<1> QED BY <1>1, <1>2, <1>3, <1>4 DEF HeldAt, Copy, Run

(* A step between two places of the stitching. *)
LEMMA InsideKept ==
    ASSUME IInv, Exclusive, RunOK, Sound, NEW p \in Pollers, pc[p] \in Stitching,
           pc'[p] \in Stitching \ {"rpc"}, \A q \in Pollers \ {p} : pc'[q] = pc[q],
           UNCHANGED <<run, chunk, gen, assets, lastId, late>>,
           rows' = rows \/ (chunk = Parent(p) /\ rows' = rows \cup {run[p].id}),
           text' = text \/ (chunk = Parent(p) /\ text' \subseteq Copy(p) \cup {run[p].id}),
           pc'[p] \in {"find", "update"} /\ run[p].id \in text' => run[p].id \in rows',
           \/ Charges' = Charges + 1
           \/ run[p].id \in rows' \/ (pc'[p] = "remove" /\ run[p].id \in text')
                => run[p].id \in rows \/ (pc[p] = "remove" /\ run[p].id \in text)
    PROVE  Sound' /\ (Kept \/ Billed)
<1>0. PICK x : x = run[p].id
  OBVIOUS
<1>1. HeldAt(pc[p], run[p]) /\ Copy(p) \subseteq 1 .. lastId /\ x \in 1 .. lastId
      /\ Parent(p) \in Gens /\ Parent(p) # 0
  BY <1>0, NodeFacts
<1>2. World'
  BY <1>0, <1>1 DEF Sound, World
<1>3. HeldAt(pc[p], run[p])'
  BY <1>0, <1>1 DEF HeldAt, Parent
<1>4. ASSUME NEW i, i # x, Alone(i, pc[p], run[p])'
      PROVE  Alone(i, pc[p], run[p])
  <2>1. (i \in rows') = (i \in rows) /\ Half(i)' = Half(i)
    BY <1>0, <1>4 DEF Half
  <2>2. i \in text' => i \in text \/ (chunk \in Gens /\ i \in run[p].copy[chunk])
    BY <1>0, <1>1, <1>4 DEF Copy
  <2> QED BY <1>0, <1>4, <2>1, <2>2 DEF Alone
<1>5. (Alone(x, pc[p], run[p])' => Alone(x, pc[p], run[p])) \/ Charges' = Charges + 1
  BY <1>0 DEF Alone
<1>6. pc[p] \in Working /\ pc'[p] \in Working
  BY DEF Working
<1> QED BY <1>2, <1>3, <1>4, <1>5, <1>6, AtWork

(* The node's row and its token are in, and its image is stored. *)
LEMMA IntegratedKept ==
    ASSUME IInv, Exclusive, RunOK, Sound, NEW p \in Pollers, pc[p] \in Stitching,
           Integrated(p), chunk = Parent(p), rows' = rows \cup {run[p].id},
           text' = text \/ text' = Copy(p) \cup {run[p].id},
           UNCHANGED <<chunk, gen, assets, lastId, late>>
    PROVE  Sound' /\ (Kept \/ Billed)
<1>0. PICK x : x = run[p].id
  OBVIOUS
<1>1. /\ HeldAt(pc[p], run[p]) /\ Copy(p) \subseteq 1 .. lastId /\ x \in 1 .. lastId
      /\ chunk \in Gens /\ chunk \in 1 .. gen /\ chunk # 0 /\ gen \in Nat
      /\ run[p].copy \in [Gens -> SUBSET Ids]
  BY <1>0, NodeFacts
<1>2. /\ pc'[p] = "enrich" /\ \A q \in Pollers \ {p} : pc'[q] = pc[q] /\ run'[q] = run[q]
      /\ run'[p].copy = [run[p].copy EXCEPT ![chunk] = @ \cup {x}]
  BY <1>0 DEF Integrated, NextEntry, Goto, IInv, HeldRows, RunOK
<1>3. /\ run'[p].copy[chunk] = run[p].copy[chunk] \cup {x}
      /\ \A c \in Gens \ {chunk} : run'[p].copy[c] = run[p].copy[c]
  BY <1>1, <1>2
<1>4. pc'[p] \notin Stitching /\ pc'[p] \in Working /\ pc[p] \in Working
  BY <1>2 DEF Working, Stitching
<1>5. World'
  BY <1>0, <1>1 DEF Sound, World
<1>6. HeldAt(pc[p], run[p])'
  <2>1. \A c \in Gens : run'[p].copy[c] \subseteq 1 .. lastId /\ (c > gen => run'[p].copy[c] = {})
    BY <1>1, <1>3 DEF HeldAt
  <2> QED BY <1>4, <2>1 DEF HeldAt
<1>7. ASSUME NEW i, i # x, Alone(i, pc[p], run[p])'
      PROVE  Alone(i, pc[p], run[p])
  <2>1. (i \in rows') = (i \in rows) /\ Half(i)' = Half(i)
    BY <1>0, <1>7 DEF Half
  <2>2. /\ i \in text' => i \in text \/ i \in run[p].copy[chunk]
        /\ i \in run'[p].copy[chunk] => i \in run[p].copy[chunk]
    BY <1>0, <1>3, <1>7 DEF Copy
  <2> QED BY <1>0, <1>1, <1>4, <1>7, <2>1, <2>2 DEF Alone
<1>8. ~Alone(x, pc[p], run[p])'
  <2>1. <<chunk, x>> \in assets /\ x \in rows'
    BY <1>0, <1>1 DEF HeldAt, Parent
  <2>2. ~Half(x)'
    BY <2>1 DEF Half
  <2> QED BY <1>4, <2>1, <2>2 DEF Alone
<1> QED BY <1>2, <1>4, <1>5, <1>6, <1>7, <1>8, AtWork

(* An integration is given up: what was kept is on its way again. *)
LEMMA GivenUp ==
    ASSUME IInv, RunOK, Sound, NEW p \in Pollers, pc[p] \in Working, run[p].entries # <<>>,
           Degrade(p), UNCHANGED <<chunk, gen, text, rows>>,
           lastId \in Nat, lastId' \in Nat, lastId' >= lastId,
           assets' \subseteq (1 .. gen) \X (1 .. lastId')
    PROVE  /\ pc'[p] = "enrich" /\ \A q \in Pollers \ {p} : pc'[q] = pc[q] /\ run'[q] = run[q]
           /\ World' /\ HeldAt(pc[p], run[p])'
           /\ \A i : Alone(i, pc[p], run[p])' =>
                \/ Half(i)'
                \/ /\ i \notin rows
                   /\ \/ i \in text
                      \/ chunk \in Gens /\ i \in run[p].copy[chunk]
                      \/ \E w \in late : w.chunk = chunk /\ i \in w.text
<1>1. /\ pc'[p] = "enrich" /\ \A q \in Pollers \ {p} : pc'[q] = pc[q] /\ run'[q] = run[q]
      /\ run'[p].copy = run[p].copy
  BY DEF Degrade, NextEntry, Goto, IInv, HeldRows, RunOK
<1>2. Parent(p) \in Gens /\ Parent(p) \in 1 .. gen
  <2>1. Parent(p) \in Gens /\ Parent(p) <= gen /\ gen \in Nat
    BY EntryFacts DEF RunOK
  <2> QED BY <2>1, EnrichmentAssumption DEF Gens
<1>3. HeldAt(pc[p], run[p])
  BY DEF Sound
<1>4. 1 .. lastId \subseteq 1 .. lastId'
  OBVIOUS
<1>5. /\ Copy(p) = run[p].copy[Parent(p)] /\ Copy(p) \subseteq 1 .. lastId
  BY <1>2, <1>3 DEF Copy, HeldAt
<1>6. \A w \in late' : w \in late \/ (w.chunk = Parent(p) /\ w.text = Copy(p))
  BY DEF Degrade
<1>7. World'
  <2>1. \A w \in late' : w.text \subseteq 1 .. lastId' /\ w.chunk \in 1 .. gen
    BY <1>2, <1>4, <1>5, <1>6 DEF Sound, World
  <2>2. text \subseteq 1 .. lastId' /\ (chunk = 0 => text = {})
    BY <1>4 DEF Sound, World
  <2> QED BY <2>1, <2>2 DEF World
<1>8. HeldAt(pc[p], run[p])'
  <2>1. \A c \in Gens : run[p].copy[c] \subseteq 1 .. lastId' /\ (c > gen => run[p].copy[c] = {})
    BY <1>3, <1>4 DEF HeldAt
  <2> QED BY <1>1, <2>1 DEF HeldAt, Stitching
<1>9. ASSUME NEW i, Alone(i, pc[p], run[p])', ~Half(i)'
      PROVE  /\ i \notin rows
             /\ \/ i \in text
                \/ chunk \in Gens /\ i \in run[p].copy[chunk]
                \/ \E w \in late : w.chunk = chunk /\ i \in w.text
  <2>1. /\ i \notin rows
        /\ \/ i \in text
           \/ chunk \in Gens /\ i \in run[p].copy[chunk]
           \/ \E w \in late' : w.chunk = chunk /\ i \in w.text
    BY <1>1, <1>9 DEF Alone, Stitching
  <2> QED BY <1>2, <1>5, <1>6, <2>1
<1> QED BY <1>1, <1>7, <1>8, <1>9

(* Its image is taken back, or the failure to is charged. *)
LEMMA RemoveKept ==
    ASSUME IInv, Exclusive, RunOK, Counting, Sound, NEW p \in Pollers, Remove(p)
    PROVE  Sound' /\ (Kept \/ Billed)
<1>0. PICK x : x = run[p].id
  OBVIOUS
<1>1. /\ pc[p] = "remove" /\ pc[p] \in Stitching /\ pc[p] \in Working /\ Degrade(p)
      /\ UNCHANGED <<chunk, gen, text, rows, lastId>>
      /\ \/ assets' = assets \ {<<Parent(p), x>>}
         \/ assets' = assets /\ Charges' = Charges + 1
  BY <1>0, FaultCharges DEF Remove, RemoveAsset, docVars, Working, Stitching
<1>2. /\ run[p].entries # <<>> /\ HeldAt(pc[p], run[p]) /\ Parent(p) \in Gens
      /\ lastId \in Nat /\ lastId >= lastId
  BY <1>1, NodeFacts
<1>3. assets' \subseteq (1 .. gen) \X (1 .. lastId')
  BY <1>1 DEF Sound, World
<1>4. /\ pc'[p] = "enrich" /\ \A q \in Pollers \ {p} : pc'[q] = pc[q] /\ run'[q] = run[q]
      /\ World' /\ HeldAt(pc[p], run[p])'
      /\ \A i : Alone(i, pc[p], run[p])' =>
           \/ Half(i)'
           \/ /\ i \notin rows
              /\ \/ i \in text
                 \/ chunk \in Gens /\ i \in run[p].copy[chunk]
                 \/ \E w \in late : w.chunk = chunk /\ i \in w.text
  BY <1>1, <1>2, <1>3, GivenUp
<1>5. ASSUME NEW i, i # x, Alone(i, pc[p], run[p])'
      PROVE  Alone(i, pc[p], run[p])
  <2>1. (<<chunk, i>> \in assets') = (<<chunk, i>> \in assets)
    BY <1>1, <1>5
  <2>2. Half(i)' = Half(i)
    BY <1>1, <2>1 DEF Half
  <2> QED BY <1>0, <1>4, <1>5, <2>2 DEF Alone
<1>6. ASSUME assets' = assets \ {<<Parent(p), x>>}, Alone(x, pc[p], run[p])'
      PROVE  Alone(x, pc[p], run[p])
  <2>1. <<chunk, x>> \notin assets'
    <3>1. chunk \notin Gens => <<chunk, x>> \notin assets
      <4>1. 1 .. gen \subseteq Gens
        BY EnrichmentAssumption DEF RunOK, Gens
      <4> QED BY <4>1 DEF Sound, World
    <3> QED BY <1>0, <1>1, <1>2, <1>6, <3>1 DEF HeldAt, Parent
  <2>2. Half(x)' => x \in rows
    BY <1>1, <2>1 DEF Half
  <2>3. /\ ~(chunk \in Gens /\ x \in run[p].copy[chunk])
        /\ \A w \in late : x \notin w.text
    BY <1>0, <1>1, <1>2 DEF HeldAt
  <2>4. x \in rows \/ x \in text
    BY <1>4, <1>6, <2>2, <2>3
  <2> QED BY <1>0, <1>1, <2>4 DEF Alone
<1>7. pc'[p] \in Working
  BY <1>4 DEF Working
<1> QED BY <1>1, <1>4, <1>5, <1>6, <1>7, AtWork

(* An id is new when its image is stored. *)
LEMMA UploadKept ==
    ASSUME IInv, Exclusive, RunOK, Counting, Sound, NEW p \in Pollers, Upload(p)
    PROVE  Sound' /\ (Kept \/ Billed)
<1>0. PICK x : x = lastId + 1
  OBVIOUS
<1>1. /\ pc[p] = "enrich" /\ pc[p] \notin Stitching /\ pc[p] \in Working
      /\ run[p].entries # <<>> /\ UNCHANGED <<chunk, gen, text, rows>>
  BY DEF Upload, docVars, Stitching, Working
<1>2. /\ lastId \in Nat /\ x \in Nat /\ x > lastId /\ 1 .. lastId \subseteq 1 .. x
      /\ x \in 1 .. x /\ x \notin 1 .. lastId /\ gen \in Nat
  BY <1>0 DEF RunOK
<1>3. Parent(p) \in 1 .. gen /\ Parent(p) \in Gens
  <2>1. Parent(p) \in Gens /\ Parent(p) <= gen
    BY <1>1, EntryFacts
  <2> QED BY <1>2, <2>1, EnrichmentAssumption DEF Gens
<1>4. assets \subseteq (1 .. gen) \X (1 .. lastId) /\ rows \subseteq 1 .. lastId
      /\ HeldAt(pc[p], run[p])
  BY <1>1 DEF Sound, World, RunOK
<1>5. CASE Degrade(p) /\ UNCHANGED <<assets, lastId>>
  <2>1. assets' \subseteq (1 .. gen) \X (1 .. lastId') /\ lastId' \in Nat /\ lastId' >= lastId
    BY <1>2, <1>4, <1>5
  <2>2. /\ pc'[p] = "enrich" /\ \A q \in Pollers \ {p} : pc'[q] = pc[q] /\ run'[q] = run[q]
        /\ World' /\ HeldAt(pc[p], run[p])'
        /\ \A i : Alone(i, pc[p], run[p])' =>
             \/ Half(i)'
             \/ /\ i \notin rows
                /\ \/ i \in text
                   \/ chunk \in Gens /\ i \in run[p].copy[chunk]
                   \/ \E w \in late : w.chunk = chunk /\ i \in w.text
    BY <1>1, <1>2, <1>5, <2>1, GivenUp
  <2>3. \A i : Half(i)' = Half(i)
    BY <1>1, <1>5 DEF Half
  <2>4. ASSUME NEW i, Alone(i, pc[p], run[p])' PROVE Alone(i, pc[p], run[p])
    BY <1>1, <2>2, <2>3, <2>4 DEF Alone
  <2>5. pc'[p] \in Working
    BY <2>2 DEF Working
  <2> QED BY <1>1, <2>2, <2>4, <2>5, AtWork
<1>6. CASE Degrade(p) /\ lastId' = x /\ assets' = assets \cup {<<Parent(p), x>>} /\ Fault("lost")
  <2>1. assets' \subseteq (1 .. gen) \X (1 .. lastId') /\ lastId' \in Nat /\ lastId' >= lastId
    BY <1>2, <1>3, <1>4, <1>6
  <2>2. /\ pc'[p] = "enrich" /\ \A q \in Pollers \ {p} : pc'[q] = pc[q] /\ run'[q] = run[q]
        /\ World' /\ HeldAt(pc[p], run[p])'
        /\ \A i : Alone(i, pc[p], run[p])' =>
             \/ Half(i)'
             \/ /\ i \notin rows
                /\ \/ i \in text
                   \/ chunk \in Gens /\ i \in run[p].copy[chunk]
                   \/ \E w \in late : w.chunk = chunk /\ i \in w.text
    BY <1>1, <1>2, <1>6, <2>1, GivenUp
  <2>3. ASSUME NEW i, i # x PROVE Half(i)' = Half(i)
    BY <1>1, <1>6, <2>3 DEF Half
  <2>4. ASSUME NEW i, i # x, Alone(i, pc[p], run[p])' PROVE Alone(i, pc[p], run[p])
    BY <1>1, <2>2, <2>3, <2>4 DEF Alone
  <2>5. pc'[p] \in Working /\ Charges' = Charges + 1
    BY <1>6, <2>2, FaultCharges DEF Working
  <2> QED BY <1>1, <2>2, <2>4, <2>5, AtWork
<1>7. CASE /\ lastId' = x /\ assets' = assets \cup {<<Parent(p), x>>}
           /\ run' = [run EXCEPT ![p].id = x] /\ Goto(p, "rpc") /\ UNCHANGED late
  <2>1. /\ pc'[p] = "rpc" /\ pc'[p] \in Working /\ pc'[p] \in Stitching
        /\ \A q \in Pollers \ {p} : pc'[q] = pc[q] /\ run'[q] = run[q]
        /\ run'[p].id = x /\ run'[p].copy = run[p].copy /\ run'[p].entries = run[p].entries
    BY <1>7 DEF Goto, IInv, HeldRows, RunOK, Run, Working, Stitching
  <2>2. World'
    BY <1>1, <1>2, <1>3, <1>4, <1>7 DEF Sound, World
  <2>3. HeldAt(pc[p], run[p])'
    <3>1. \A c \in Gens : run[p].copy[c] \subseteq 1 .. lastId /\ (c > gen => run[p].copy[c] = {})
      BY <1>4 DEF HeldAt
    <3>2. \A c \in Gens : <<c, x>> \in assets' <=> c = Parent(p)
      BY <1>2, <1>4, <1>7
    <3>3. x \notin rows \cup text /\ \A w \in late : x \notin w.text
      BY <1>2, <1>4 DEF Sound, World
    <3> QED BY <1>1, <1>2, <1>7, <2>1, <3>1, <3>2, <3>3 DEF HeldAt, Parent
  <2>4. ASSUME NEW i, i # x, Alone(i, pc[p], run[p])' PROVE Alone(i, pc[p], run[p])
    <3>1. Half(i)' = Half(i)
      BY <1>1, <1>7, <2>4 DEF Half
    <3> QED BY <1>1, <1>7, <2>1, <2>4, <3>1 DEF Alone
  <2>5. ~Alone(x, pc[p], run[p])'
    BY <1>1, <1>2, <1>4, <2>1 DEF Alone
  <2> QED BY <1>1, <2>1, <2>2, <2>3, <2>4, <2>5, AtWork
<1> QED BY <1>0, <1>5, <1>6, <1>7 DEF Upload

(* The text kept for a parent is the parent's. *)
LEMMA BindKept ==
    ASSUME IInv, Exclusive, RunOK, Sound, NEW p \in Pollers, Bind(p)
    PROVE  Sound' /\ (Kept \/ Billed)
<1>1. /\ pc[p] = "enrich" /\ pc'[p] = "enrich" /\ pc[p] \notin Stitching /\ pc[p] \in Working
      /\ \A q \in Pollers \ {p} : pc'[q] = pc[q] /\ run'[q] = run[q]
      /\ UNCHANGED <<chunk, gen, text, rows, assets, lastId, late>>
  BY DEF Bind, RunOK, worldVars, docVars, Stitching, Working
<1>2. \A c \in Gens : run'[p].copy[c] = run[p].copy[c] \/ run'[p].copy[c] = {}
                      \/ (c = chunk /\ run'[p].copy[c] = text)
  <2>1. run[p].copy \in [Gens -> SUBSET Ids] /\ run[p] \in Run
    BY DEF RunOK, Run
  <2>2. CASE run' = [run EXCEPT ![p] = [k |-> @.k + 1,
                                         entries |-> Append(@.entries, chunk),
                                         copy |-> [@.copy EXCEPT ![chunk] = text],
                                         id |-> 0]]
    <3>1. run'[p].copy = [run[p].copy EXCEPT ![chunk] = text]
      BY <2>2 DEF RunOK
    <3> QED BY <2>1, <3>1
  <2>3. CASE run' = [run EXCEPT ![p].k = @ + 1]
    BY <2>1, <2>3 DEF RunOK, Run
  <2>4. CASE run' = [run EXCEPT ![p] = NoVisuals]
    BY <2>4 DEF RunOK, NoVisuals
  <2> QED BY <2>2, <2>3, <2>4 DEF Bind
<1>3. HeldAt(pc[p], run[p])
  BY <1>1 DEF Sound
<1>4. chunk \in {0, gen} /\ gen \in Nat /\ text \subseteq 1 .. lastId /\ (chunk = 0 => text = {})
  BY DEF RunOK, Sound, World
<1>5. HeldAt(pc[p], run[p])'
  <2>1. ASSUME NEW c \in Gens
        PROVE  run'[p].copy[c] \subseteq 1 .. lastId /\ (c > gen => run'[p].copy[c] = {})
    <3>1. run[p].copy[c] \subseteq 1 .. lastId /\ (c > gen => run[p].copy[c] = {})
      BY <1>3 DEF HeldAt
    <3>2. c # 0 /\ (c = chunk => ~(c > gen))
      BY <1>4, EnrichmentAssumption DEF Gens
    <3> QED BY <1>2, <1>4, <3>1, <3>2
  <2> QED BY <1>1, <2>1 DEF HeldAt
<1>6. World'
  BY <1>1 DEF Sound, World
<1>7. ASSUME NEW i, Alone(i, pc[p], run[p])' PROVE Alone(i, pc[p], run[p])
  <2>1. Half(i)' = Half(i)
    BY <1>1 DEF Half
  <2>2. chunk \in Gens /\ i \in run'[p].copy[chunk] => i \in run[p].copy[chunk] \/ i \in text
    BY <1>2
  <2> QED BY <1>1, <1>7, <2>1, <2>2 DEF Alone
<1> QED BY <1>1, <1>5, <1>6, <1>7, AtWork

(* The steps of the stitching that leave what is stored and handed out. *)
LEMMA StitchingKept ==
    ASSUME IInv, Exclusive, RunOK, Counting, Sound, NEW p \in Pollers,
           Rpc(p) \/ Find(p) \/ UpdateParent(p) \/ InsertNode(p) \/ RevertParent(p)
    PROVE  Sound' /\ (Kept \/ Billed)
<1>1. /\ pc[p] \in Stitching /\ UNCHANGED <<chunk, gen, assets, lastId, late>>
  BY DEF Rpc, Find, UpdateParent, InsertNode, RevertParent, docVars, worldVars, Stitching
<1>2. HeldAt(pc[p], run[p])
  BY <1>1, NodeFacts
<1>3. \A kind \in {"lost", "cleanup"} : Fault(kind) => Charges' = Charges + 1
  BY FaultCharges
<1>4. ASSUME NEW place, Goto(p, place)
      PROVE  pc'[p] = place /\ \A q \in Pollers \ {p} : pc'[q] = pc[q]
  BY <1>4 DEF Goto, IInv, HeldRows
<1>5. CASE Rpc(p)
  <2>1. run[p].id \notin rows \cup text
    BY <1>2, <1>5 DEF HeldAt, Rpc, Stitching
  <2>2. CASE /\ chunk = Parent(p) /\ rows' = rows \cup {run[p].id}
             /\ text' = Copy(p) \cup {run[p].id} /\ Integrated(p)
    BY <1>1, <2>2, IntegratedKept
  <2>3. CASE /\ chunk = Parent(p) /\ rows' = rows \cup {run[p].id}
             /\ text' = Copy(p) \cup {run[p].id} /\ Fault("lost")
             /\ Goto(p, "find") /\ UNCHANGED run
    <3>1. pc'[p] = "find" /\ \A q \in Pollers \ {p} : pc'[q] = pc[q]
      BY <1>4, <2>3
    <3> QED BY <1>1, <1>3, <2>3, <3>1, InsideKept DEF Stitching
  <2>4. CASE Goto(p, "find") /\ UNCHANGED <<run, rows, text>>
    <3>1. pc'[p] = "find" /\ \A q \in Pollers \ {p} : pc'[q] = pc[q]
      BY <1>4, <2>4
    <3> QED BY <1>1, <2>1, <2>4, <3>1, InsideKept DEF Stitching
  <2> QED BY <1>5, <2>2, <2>3, <2>4 DEF Rpc
<1>6. CASE Find(p)
  <2>1. /\ UNCHANGED <<run, rows, text>> /\ pc[p] = "find"
        /\ Goto(p, "update") \/ Goto(p, "remove")
    BY <1>6 DEF Find, worldVars
  <2>2. pc'[p] \in {"update", "remove"} /\ \A q \in Pollers \ {p} : pc'[q] = pc[q]
    BY <1>4, <2>1
  <2>3. run[p].id \in text => run[p].id \in rows
    BY <1>2, <2>1 DEF HeldAt, Stitching
  <2> QED BY <1>1, <2>1, <2>2, <2>3, InsideKept DEF Stitching
<1>7. CASE UpdateParent(p)
  <2>1. /\ UNCHANGED <<run, rows>> /\ pc[p] = "update"
        /\ Goto(p, "insert") \/ Goto(p, "remove")
        /\ text' = text \/ (chunk = Parent(p) /\ text' = Copy(p) \cup {run[p].id})
        /\ \/ Goto(p, "insert")
           \/ Charges' = Charges + 1
           \/ text' = text
    BY <1>3, <1>7 DEF UpdateParent, WriteText
  <2>2. /\ \A q \in Pollers \ {p} : pc'[q] = pc[q]
        /\ pc'[p] \in {"insert", "remove"}
        /\ pc'[p] = "insert" \/ Charges' = Charges + 1 \/ text' = text
    BY <1>4, <2>1
  <2>3. run[p].id \in text => run[p].id \in rows
    BY <1>2, <2>1 DEF HeldAt, Stitching
  <2> QED BY <1>1, <2>1, <2>2, <2>3, InsideKept DEF Stitching
<1>8. CASE InsertNode(p)
  <2>1. UNCHANGED text /\ pc[p] = "insert"
    BY <1>8 DEF InsertNode
  <2>2. CASE chunk = Parent(p) /\ rows' = rows \cup {run[p].id} /\ Integrated(p)
    BY <1>1, <2>1, <2>2, IntegratedKept
  <2>3. CASE /\ chunk = Parent(p) /\ rows' = rows \cup {run[p].id} /\ Fault("lost")
             /\ Goto(p, "revert") /\ UNCHANGED run
    <3>1. pc'[p] = "revert" /\ \A q \in Pollers \ {p} : pc'[q] = pc[q]
      BY <1>4, <2>3
    <3> QED BY <1>1, <1>3, <2>1, <2>3, <3>1, InsideKept DEF Stitching
  <2>4. CASE Goto(p, "revert") /\ UNCHANGED <<run, rows>>
    <3>1. pc'[p] = "revert" /\ \A q \in Pollers \ {p} : pc'[q] = pc[q]
      BY <1>4, <2>4
    <3> QED BY <1>1, <2>1, <2>4, <3>1, InsideKept DEF Stitching
  <2> QED BY <1>8, <2>2, <2>3, <2>4 DEF InsertNode
<1>9. CASE RevertParent(p)
  <2>1. /\ UNCHANGED <<run, rows>> /\ pc[p] = "revert" /\ Goto(p, "remove")
        /\ \/ chunk = Parent(p) /\ text' = Copy(p)
           \/ chunk # Parent(p) /\ text' = text
           \/ Charges' = Charges + 1 /\ text' = text
    BY <1>3, <1>9 DEF RevertParent, WriteText
  <2>2. pc'[p] = "remove" /\ \A q \in Pollers \ {p} : pc'[q] = pc[q]
    BY <1>4, <2>1
  <2>3. run[p].id \notin Copy(p) /\ (chunk # Parent(p) => run[p].id \notin text)
    BY <1>1, <1>2, NodeFacts DEF HeldAt, Parent
  <2> QED BY <1>1, <2>1, <2>2, <2>3, InsideKept DEF Stitching
<1> QED BY <1>5, <1>6, <1>7, <1>8, <1>9

(* What has no node in work: the ingestion, the queue, and the ends of runs. *)
LEMMA AsideKept ==
    ASSUME IInv, RunOK, Counting, Sound,
           \/ Ingestion
           \/ \E r \in Replayers : ReplayCheck(r) \/ ReplayInsert(r)
           \/ \E p \in Pollers : Poll(p)
           \/ \E w \in late : LateWrite(w)
           \/ \E j \in JobIds : Expire(j)
           \/ UNCHANGED vars
    PROVE  Sound' /\ (Kept \/ Billed)
<1>1. CASE Ingestion
  <2>1. CASE CheckQueue \/ Enqueue \/ Succeed \/ IngestStops
    <3>1. UNCHANGED <<pc, run, text, rows, assets, chunk, gen, lastId, late>>
      BY <2>1 DEF CheckQueue, Enqueue, Succeed, IngestStops, worldVars, pollerVars
    <3> QED BY <3>1, StillStep
  <2> QED BY <1>1, <2>1, WipeKept, PersistKept DEF Ingestion
<1>2. CASE \/ \E r \in Replayers : ReplayCheck(r) \/ ReplayInsert(r)
           \/ \E j \in JobIds : Expire(j)
           \/ UNCHANGED vars
  <2>1. UNCHANGED <<pc, run, text, rows, assets, chunk, gen, lastId, late>>
    BY <1>2 DEF ReplayCheck, ReplayInsert, Expire, worldVars, docVars, pollerVars, vars
  <2> QED BY <2>1, StillStep
<1>3. ASSUME NEW p \in Pollers, Poll(p)
      PROVE  Sound' /\ (Kept \/ Billed)
  <2>1. CASE RequeueStale(p)
    <3>1. UNCHANGED <<pc, run, text, rows, assets, chunk, gen, lastId, late>>
      BY <2>1 DEF RequeueStale, worldVars, docVars, pollerVars
    <3> QED BY <3>1, StillStep
  <2>2. CASE Fetch(p) \/ Load(p) \/ Knowledge(p) \/ Complete(p) \/ MarkFailed(p)
    <3>1. UNCHANGED <<text, rows, assets, chunk, gen, lastId, late>>
      BY <2>2 DEF Fetch, Load, Knowledge, Complete, MarkFailed, worldVars, docVars
    <3>2. /\ pc[p] \in {"idle", "load", "enrich", "complete", "markFailed"}
          /\ \A q \in Pollers \ {p} : run'[q] = run[q]
          /\ \E place \in {"idle", "load", "complete", "metadata", "markFailed"} :
               Goto(p, place)
      BY <2>2 DEF Fetch, Load, Knowledge, Complete, MarkFailed, Rest, RunOK
    <3>3. /\ pc[p] \notin Stitching /\ pc'[p] \notin Working
          /\ \A q \in Pollers \ {p} : pc'[q] = pc[q]
      BY <3>2 DEF Goto, IInv, HeldRows, Working, Stitching
    <3> QED BY <3>1, <3>2, <3>3, OutStep
  <2> QED BY <1>3, <2>1, <2>2, ReadMetadataKept, CrashBilled DEF Poll
<1> QED BY <1>1, <1>2, <1>3, LateWriteKept

LEMMA MarksKept ==
    ASSUME IInv, Exclusive, RunOK, Counting, Sound, [Next]_vars
    PROVE  Sound' /\ (Kept \/ Billed)
<1>1. ASSUME NEW p \in Pollers, Stitch(p) PROVE Sound' /\ (Kept \/ Billed)
  BY <1>1, BindKept, UploadKept, StitchingKept, RemoveKept DEF Stitch
<1> QED BY <1>1, AsideKept DEF Next

LEMMA SoundInit == Init => Counting /\ Sound /\ Cardinality(Marks) <= Charges
<1> SUFFICES ASSUME Init PROVE Counting /\ Sound /\ Cardinality(Marks) <= Charges
  OBVIOUS
<1>1. Counting /\ Charges = 0
  BY DEF Init, Counting, Charges, FaultKinds
<1>2. \A p \in Pollers : pc[p] \notin Working
  BY DEF Init, Working, Stitching
<1>3. Sound
  BY <1>2 DEF Init, Sound, World
<1>4. \A i : ~Half(i) /\ ~Token(i)
  BY <1>2 DEF Init, Half, Token
<1>5. Marks = {}
  BY <1>2, <1>4 DEF Marks, Damaged, Working
<1>6. Cardinality({}) = 0
  BY FS_EmptySet
<1> QED BY <1>1, <1>3, <1>5, <1>6

(* However runs, crashes, refused and lost calls, wipes and late writes    *)
(* follow one another, there are never more nodes stitched in part than    *)
(* there were lost answers, failed undo steps and crashes: the fallback    *)
(* that runs when the RPC is refused undoes all it did, and no later write *)
(* of a kept text brings back the token of a node that was undone.         *)
THEOREM TornNodesAreCharged == Spec => []StitchIsAtomic
<1> DEFINE Inv == /\ IInv /\ Exclusive /\ RunOK /\ Anchored
                  /\ Counting /\ Sound /\ Cardinality(Marks) <= Charges
<1>1. Init => Inv
  BY InitHolds, AnchorsInit, SoundInit
<1>2. Inv /\ [Next]_vars => Inv'
  <2> SUFFICES ASSUME Inv, [Next]_vars PROVE Inv'
    OBVIOUS
  <2>1. Counting' /\ Charges' >= Charges
    BY StepCharges
  <2>2. Sound' /\ (Kept \/ Billed)
    BY MarksKept
  <2>3. (Cardinality(Marks) <= Charges)'
    BY <2>1, <2>2, MarksBounded
  <2> QED BY <2>1, <2>2, <2>3, StepHolds, ExclusiveHolds, AnchorsKept
<1>3. Inv => StitchIsAtomic
  <2> SUFFICES ASSUME Inv PROVE StitchIsAtomic
    OBVIOUS
  <2>1. Cardinality(Torn) <= Cardinality(Marks) /\ Cardinality(Torn) \in Nat
    BY TornAreMarked, MarksFinite, FS_Subset, FS_CardinalityType
  <2>2. Charges \in Nat
    BY DEF Counting, Charges, FaultKinds
  <2> QED BY <2>1, <2>2, MarksFinite DEF StitchIsAtomic, Charges
<1> QED BY <1>1, <1>2, <1>3, PTL DEF Spec

-----------------------------------------------------------------------------
(* The enrichment that was announced.                                      *)

(* An active job that has not read the chunks of the document yet. *)
Awaits(j) == jobs[j].status \in Active /\ \A p \in Pollers : job[p] = j => pc[p] = "load"

Coming == TotalFaults = 0 => announced \in Nat /\ announced <= gen /\ OwnEnrichmentComes

(* Without faults, only loading the chunk takes such a job out of wait. *)
LEMMA PollAwaits ==
    ASSUME IInv, Exclusive, NEW j \in JobIds, Awaits(j), \A kind : ~Fault(kind),
           NEW p \in Pollers, Poll(p)
    PROVE  Awaits(j)' \/ (chunk # 0 => chunk \in covered')
<1>1. jobs \in [JobIds -> Row] /\ pc \in [Pollers -> Places] /\ DOMAIN job = Pollers
  BY DEF IInv, JobsTypeOK, HeldRows
<1>2. CASE RequeueStale(p)
  <2>1. jobs'[j].status \in Active /\ UNCHANGED <<pc, job>>
    <3>1. jobs'[j] = jobs[j] \/ jobs'[j] = [jobs[j] EXCEPT !.status = "pending", !.fresh = TRUE]
      BY <1>2 DEF RequeueStale, RequeueStaleJobs
    <3>2. jobs'[j].status = jobs[j].status \/ jobs'[j].status = "pending"
      BY <1>1, <3>1 DEF Row
    <3> QED BY <1>2, <3>2 DEF RequeueStale, pollerVars, Awaits, Active
  <2> QED BY <2>1 DEF Awaits
<1>3. CASE Fetch(p)
  <2>1. PICK k \in JobIds : FetchNextJob(k) /\ job' = [job EXCEPT ![p] = k]
    BY <1>3 DEF Fetch
  <2>2. jobs'[j].status \in Active
    <3>1. jobs' = [jobs EXCEPT ![k].status = "processing", ![k].fresh = TRUE]
      BY <2>1 DEF FetchNextJob
    <3>2. jobs'[j].status = jobs[j].status \/ jobs'[j].status = "processing"
      BY <1>1, <3>1 DEF Row
    <3> QED BY <3>2 DEF Awaits, Active
  <2>3. pc' = [pc EXCEPT ![p] = "load"]
    BY <1>3 DEF Fetch, Goto
  <2> QED BY <1>1, <2>1, <2>2, <2>3 DEF Awaits
<1>4. CASE Load(p)
  <2>1. UNCHANGED <<jobs, job>> /\ pc[p] = "load" /\ \E place : Goto(p, place)
        /\ (chunk # 0 => chunk \in covered')
    BY <1>4 DEF Load
  <2> QED BY <2>1
<1>5. CASE ReadMetadata(p) \/ Knowledge(p) \/ Complete(p) \/ MarkFailed(p)
  <2>1. pc[p] # "load" /\ pc[p] # "idle"
    BY <1>5 DEF ReadMetadata, Knowledge, Complete, MarkFailed
  <2>2. job[p] # j /\ job[p] \in JobIds
    BY <2>1 DEF Awaits, IInv, HeldRows
  <2>3. /\ UNCHANGED jobs \/ \E status : MarkJobFinal(job[p], status)
        /\ job' = job \/ job' = [job EXCEPT ![p] = NoJob]
        /\ \E place : Goto(p, place)
    BY <1>5 DEF ReadMetadata, Knowledge, Complete, MarkFailed, Rest
  <2>4. jobs'[j] = jobs[j]
    BY <1>1, <2>2, <2>3 DEF MarkJobFinal
  <2>5. \A q \in Pollers : job'[q] = j => q # p /\ job[q] = j /\ pc'[q] = pc[q]
    BY <1>1, <2>2, <2>3 DEF Goto, NoJob, JobIds
  <2> QED BY <2>4, <2>5 DEF Awaits
<1>6. ~Crash(p)
  BY DEF Crash
<1> QED BY <1>2, <1>3, <1>4, <1>5, <1>6 DEF Poll

LEMMA StillAwaited ==
    ASSUME IInv, Exclusive, NEW j \in JobIds, Awaits(j), \A kind : ~Fault(kind), [Next]_vars
    PROVE  Awaits(j)' \/ (chunk # 0 => chunk \in covered')
<1>1. jobs \in [JobIds -> Row] /\ pc \in [Pollers -> Places]
  BY DEF IInv, JobsTypeOK, HeldRows
<1>2. CASE UNCHANGED <<jobs, pc, job>>
  BY <1>2 DEF Awaits
<1>3. ASSUME NEW inserted \in BOOLEAN, InsertJob(inserted), UNCHANGED <<pc, job>>
      PROVE  Awaits(j)'
  <2>1. UNCHANGED jobs \/ \E k \in JobIds :
          /\ jobs[k].status = "absent"
          /\ jobs' = [jobs EXCEPT ![k] = [status |-> "pending", doc |-> Document,
                                          fresh |-> TRUE]]
    BY <1>3 DEF InsertJob, Oldest, WithStatus
  <2>2. jobs'[j] = jobs[j] \/ jobs'[j].status = "pending"
    BY <1>1, <2>1
  <2> QED BY <1>3, <2>2 DEF Awaits, Active
<1>4. CASE Ingestion
  <2>1. CASE Enqueue
    BY <1>3, <2>1 DEF Enqueue, pollerVars
  <2>2. CASE Wipe \/ Persist \/ CheckQueue \/ Succeed \/ IngestStops
    BY <1>2, <2>2 DEF Wipe, Persist, CheckQueue, Succeed, IngestStops, pollerVars
  <2> QED BY <1>4, <2>1, <2>2 DEF Ingestion
<1>5. ASSUME NEW r \in Replayers, ReplayCheck(r) \/ ReplayInsert(r) PROVE Awaits(j)'
  <2>1. CASE ReplayCheck(r)
    BY <1>2, <2>1 DEF ReplayCheck, pollerVars, Awaits
  <2>2. CASE ReplayInsert(r)
    BY <1>3, <2>2 DEF ReplayInsert, pollerVars
  <2> QED BY <1>5, <2>1, <2>2
<1>6. ASSUME NEW p \in Pollers, Stitch(p) PROVE Awaits(j)'
  <2>1. UNCHANGED <<jobs, job>> /\ pc[p] # "load" /\ \A q \in Pollers \ {p} : pc'[q] = pc[q]
    BY <1>1, <1>6 DEF Stitch, Bind, Upload, Rpc, Find, UpdateParent, InsertNode, RevertParent,
                Remove, Integrated, Degrade, NextEntry, Goto
  <2> QED BY <2>1 DEF Awaits
<1>7. CASE \E w \in late : LateWrite(w)
  BY <1>2, <1>7 DEF LateWrite, pollerVars
<1>8. CASE \E k \in JobIds : Expire(k)
  <2>1. PICK k \in JobIds : jobs' = [jobs EXCEPT ![k].fresh = FALSE] /\ UNCHANGED <<pc, job>>
    BY <1>8 DEF Expire, GrowStale, pollerVars
  <2>2. jobs'[j].status = jobs[j].status
    BY <1>1, <2>1 DEF Row
  <2> QED BY <2>1, <2>2 DEF Awaits
<1>9. CASE UNCHANGED vars
  BY <1>2, <1>9 DEF vars, pollerVars
<1> QED BY <1>4, <1>5, <1>6, <1>7, <1>8, <1>9, PollAwaits DEF Next

(* The property in terms of Awaits. *)
LEMMA ComingSays ==
    ASSUME IInv
    PROVE  (\E j \in ActiveJobs(Document) : \A p \in Pollers : job[p] = j => pc[p] = "load")
             <=> \E j \in JobIds : Awaits(j)
<1>1. ActiveJobs(Document) = {j \in JobIds : jobs[j].status \in Active}
  BY DocumentOnly DEF IInv, JobsTypeOK, ActiveJobs, WithStatus, Active
<1> QED BY <1>1 DEF Awaits

(* What the steps do to the chunk and to what was announced of it. *)
LEMMA Announcements ==
    ASSUME IInv, RunOK, announced \in Nat, announced <= gen, [Next]_vars, \A kind : ~Fault(kind)
    PROVE  /\ announced' \in Nat /\ announced' <= gen'
           /\ covered \subseteq covered' /\ joined \subseteq joined'
           /\ \/ UNCHANGED <<chunk, announced>>
              \/ chunk' = 0
              \/ announced' < chunk'
              \/ announced' \in joined'
              \/ InsertJob(TRUE) /\ UNCHANGED <<pc, job>>
<1>1. gen \in Nat
  BY DEF RunOK
<1>2. CASE UNCHANGED <<chunk, gen, announced, covered, joined>>
  BY <1>2
<1>3. CASE Ingestion
  <2>1. CASE Wipe
    BY <2>1 DEF Wipe, WipeChunk, obsVars
  <2>2. CASE Persist
    <3>1. announced' = announced /\ gen' = gen + 1 /\ chunk' = gen + 1
          /\ covered' = covered /\ joined' = joined
      BY <2>2 DEF Persist, obsVars
    <3>2. announced' <= gen' /\ announced' < chunk'
      BY <1>1, <3>1
    <3> QED BY <3>1, <3>2
  <2>3. CASE CheckQueue
    <3>1. /\ gen' = gen /\ chunk' = chunk /\ covered' = covered
          /\ \/ announced' = gen /\ joined' = joined \cup {gen}
             \/ announced' = announced /\ joined' = joined
      BY <2>3 DEF CheckQueue, worldVars
    <3>2. announced' \in Nat /\ announced' <= gen'
      BY <1>1, <3>1
    <3> QED BY <3>1, <3>2
  <2>4. CASE Enqueue
    <3>1. /\ gen' = gen /\ chunk' = chunk /\ covered' = covered /\ joined' = joined
          /\ UNCHANGED <<pc, job>>
          /\ (InsertJob(TRUE) /\ announced' = gen) \/ announced' = announced
      BY <2>4 DEF Enqueue, worldVars, obsVars, pollerVars
    <3>2. gen' = gen /\ (announced' = gen \/ announced' = announced)
      BY <3>1
    <3>3. announced' \in Nat /\ announced' <= gen'
      BY <1>1, <3>2
    <3> QED BY <3>1, <3>3
  <2>5. CASE Succeed \/ IngestStops
    BY <1>2, <2>5 DEF Succeed, IngestStops, worldVars, obsVars
  <2> QED BY <1>3, <2>1, <2>2, <2>3, <2>4, <2>5 DEF Ingestion
<1>4. ASSUME NEW p \in Pollers, Poll(p)
      PROVE  UNCHANGED <<chunk, gen, announced, joined>> /\ covered \subseteq covered'
  BY <1>4 DEF Poll, RequeueStale, Fetch, Load, ReadMetadata, Knowledge, Complete, MarkFailed,
              Crash, worldVars, docVars, obsVars
<1>5. ASSUME NEW p \in Pollers, Stitch(p)
      PROVE  UNCHANGED <<chunk, gen, announced, covered, joined>>
  BY <1>5 DEF Stitch, Bind, Upload, Rpc, Find, UpdateParent, InsertNode, RevertParent, Remove,
              worldVars, docVars, obsVars
<1>6. CASE \/ \E r \in Replayers : ReplayCheck(r) \/ ReplayInsert(r)
           \/ \E w \in late : LateWrite(w)
           \/ \E j \in JobIds : Expire(j)
           \/ UNCHANGED vars
  BY <1>2, <1>6 DEF ReplayCheck, ReplayInsert, LateWrite, Expire, worldVars, docVars, obsVars,
                    vars
<1> QED BY <1>2, <1>3, <1>4, <1>5, <1>6 DEF Next

LEMMA ComingKept ==
    ASSUME IInv, Exclusive, RunOK, Counting, Coming, [Next]_vars
    PROVE  Coming'
<1> SUFFICES ASSUME TotalFaults' = 0
             PROVE  announced' \in Nat /\ announced' <= gen' /\ OwnEnrichmentComes'
  BY DEF Coming
<1>1. UNCHANGED faults /\ TotalFaults = 0
  <2>1. TotalFaults \in Nat
    BY DEF Counting, TotalFaults, FaultKinds
  <2>2. UNCHANGED faults
    BY <2>1, StepCharges
  <2> QED BY <2>2 DEF TotalFaults
<1>2. \A kind : ~Fault(kind)
  BY <1>1, FaultCharges
<1>3. announced \in Nat /\ announced <= gen /\ OwnEnrichmentComes
  BY <1>1 DEF Coming
<1> SUFFICES OwnEnrichmentComes'
  BY <1>2, <1>3, Announcements
<1>4. IInv'
  BY StepHolds
<1>5. ASSUME NEW j \in JobIds, Awaits(j)' PROVE OwnEnrichmentComes'
  <2>1. (\E k \in ActiveJobs(Document) : \A p \in Pollers : job[p] = k => pc[p] = "load")'
    <3>1. ActiveJobs(Document)' = {k \in JobIds : jobs'[k].status \in Active}
      BY <1>4, DocumentOnly DEF IInv, JobsTypeOK, ActiveJobs, WithStatus, Active
    <3> QED BY <1>5, <3>1 DEF Awaits
  <2> QED BY <2>1 DEF OwnEnrichmentComes
<1>6. CASE UNCHANGED <<chunk, announced>>
  <2> SUFFICES ASSUME chunk' # 0, announced' = chunk', chunk' \notin covered' \cup joined'
               PROVE  OwnEnrichmentComes'
    BY DEF OwnEnrichmentComes
  <2>1. chunk \notin covered \cup joined /\ chunk \notin covered'
    BY <1>2, <1>3, <1>6, Announcements
  <2>2. PICK j \in JobIds : Awaits(j)
    BY <1>1, <1>3, <1>6, <2>1, ComingSays DEF OwnEnrichmentComes
  <2>3. Awaits(j)'
    BY <1>2, <1>6, <2>1, <2>2, StillAwaited
  <2> QED BY <1>5, <2>3
<1>7. CASE InsertJob(TRUE) /\ UNCHANGED <<pc, job>>
  <2>1. PICK j \in JobIds :
          /\ jobs[j].status = "absent"
          /\ jobs' = [jobs EXCEPT ![j] = [status |-> "pending", doc |-> Document,
                                          fresh |-> TRUE]]
    BY <1>7 DEF InsertJob, Oldest, WithStatus
  <2>2. \A p \in Pollers : job[p] # j
    BY <2>1 DEF IInv, HeldRows, Exclusive, NoJob, JobIds
  <2>3. Awaits(j)'
    BY <1>7, <2>1, <2>2 DEF Awaits, IInv, JobsTypeOK, Active
  <2> QED BY <1>2, <1>3, <1>5, <2>3, Announcements
<1>8. CASE chunk' = 0 \/ announced' < chunk' \/ announced' \in joined'
  <2>1. announced' \in Nat
    BY <1>2, <1>3, Announcements
  <2> QED BY <1>8, <2>1 DEF OwnEnrichmentComes
<1> QED BY <1>2, <1>3, <1>6, <1>7, <1>8, Announcements

(* A chunk whose enrichment was logged as queued, by a job the ingestion   *)
(* inserted, is loaded by a run or has an active job that is still to load *)
(* it, as long as no call failed and no process died.                      *)
THEOREM AnnouncedIsAwaited == Spec => []OwnEnrichmentComes
<1> DEFINE Inv == IInv /\ Exclusive /\ RunOK /\ Anchored /\ Counting /\ Coming
<1>1. Init => Inv
  <2> SUFFICES ASSUME Init PROVE Coming
    BY InitHolds, AnchorsInit, SoundInit
  <2>1. announced = 0 /\ gen = 0 /\ chunk = 0
    BY DEF Init
  <2> QED BY <2>1 DEF Coming, OwnEnrichmentComes
<1>2. Inv /\ [Next]_vars => Inv'
  BY StepHolds, ExclusiveHolds, AnchorsKept, StepCharges, ComingKept
<1>3. Inv => OwnEnrichmentComes
  BY DEF Coming, OwnEnrichmentComes
<1> QED BY <1>1, <1>2, <1>3, PTL DEF Spec

=============================================================================
