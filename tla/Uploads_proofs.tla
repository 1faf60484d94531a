----------------------------- MODULE Uploads_proofs -----------------------------
(***************************************************************************)
(* Theorems about Uploads, for every number of concurrent calls, documents *)
(* and files, for every limit and for every kind of fault: type            *)
(* correctness, and that each limit of the API is passed by at most one    *)
(* document per caller.                                                    *)
(*                                                                         *)
(* A limit is passed because it is checked in one step and used up in a    *)
(* later one.  Every proof counts what is there together with the calls    *)
(* that are past the check: a step either lets both counts shrink, or      *)
(* trades one call for one document, or makes the check.                   *)
(***************************************************************************)
EXTENDS Uploads, FiniteSetTheorems, TLAPS

USE UploadsAssumption DEF keyVars, workVars

-----------------------------------------------------------------------------
(* Counting.                                                               *)

LEMMA Counted ==
    ASSUME NEW S, IsFiniteSet(S), NEW T, T \subseteq S
    PROVE  IsFiniteSet(T) /\ Cardinality(T) \in Nat /\ Cardinality(S) \in Nat
           /\ Cardinality(T) <= Cardinality(S)
<1>1. T \in SUBSET S
  OBVIOUS
<1> QED BY <1>1, FS_Subset, FS_CardinalityType

LEMMA OneMore ==
    ASSUME NEW S, IsFiniteSet(S), NEW x, NEW T, T \subseteq S \cup {x}
    PROVE  /\ Cardinality(T) \in Nat /\ Cardinality(S) \in Nat
           /\ Cardinality(T) <= Cardinality(S) + 1
<1>1. /\ IsFiniteSet(S \cup {x}) /\ Cardinality(S) \in Nat
      /\ Cardinality(S \cup {x}) <= Cardinality(S) + 1
  <2>1. Cardinality(S) \in Nat
    BY FS_CardinalityType
  <2>2. /\ IsFiniteSet(S \cup {x})
        /\ Cardinality(S \cup {x}) = IF x \in S THEN Cardinality(S) ELSE Cardinality(S) + 1
    BY FS_AddElement, Zenon
  <2> QED BY <2>1, <2>2
<1>2. /\ Cardinality(T) \in Nat /\ Cardinality(S \cup {x}) \in Nat
      /\ Cardinality(T) <= Cardinality(S \cup {x})
  BY <1>1, Counted
<1> QED BY <1>1, <1>2

LEMMA OneLess ==
    ASSUME NEW S, IsFiniteSet(S), NEW x \in S, NEW T, T \subseteq S \ {x}
    PROVE  /\ Cardinality(T) \in Nat /\ Cardinality(S) \in Nat
           /\ Cardinality(T) + 1 <= Cardinality(S)
<1>1. /\ IsFiniteSet(S \ {x}) /\ Cardinality(S) \in Nat
      /\ Cardinality(S \ {x}) = Cardinality(S) - 1
  BY FS_RemoveElement, FS_CardinalityType
<1>2. /\ Cardinality(T) \in Nat
      /\ Cardinality(T) <= Cardinality(S \ {x})
  BY <1>1, Counted
<1> QED BY <1>1, <1>2

(* Disjoint sets of callers are no more than all callers together. *)
LEMMA Disjoint ==
    ASSUME NEW S, IsFiniteSet(S), NEW T, NEW U, T \subseteq S, U \subseteq S, T \cap U = {}
    PROVE  /\ Cardinality(T) \in Nat /\ Cardinality(U) \in Nat /\ Cardinality(S) \in Nat
           /\ Cardinality(T) + Cardinality(U) <= Cardinality(S)
<1>1. /\ IsFiniteSet(T) /\ IsFiniteSet(U)
      /\ Cardinality(T) \in Nat /\ Cardinality(U) \in Nat /\ Cardinality(S) \in Nat
  BY Counted
<1>2. Cardinality(T \cup U) = Cardinality(T) + Cardinality(U) - Cardinality(T \cap U)
  BY <1>1, FS_Union
<1>3. Cardinality(T \cap U) = 0
  BY FS_EmptySet
<1>4. Cardinality(T \cup U) <= Cardinality(S)
  <2>1. T \cup U \subseteq S
    OBVIOUS
  <2> QED BY <2>1, Counted
<1> QED BY <1>1, <1>2, <1>3, <1>4

-----------------------------------------------------------------------------
(* The inductive invariant on which the others rest.                       *)

(* Where a call is tells what it uploads, that its document is named, and  *)
(* that it has nothing left to delete.                                     *)
InPlace ==
    \A c \in Callers :
        /\ pc[c] # "idle" => req[c].path \in AllPaths /\ req[c].file \in Files
        /\ pc[c] \in {"context", "reopen", "check", "store", "insert", "mark"}
             => req[c].path = "batch"
        /\ pc[c] \in {"lookup", "previous", "purge", "answer"} => req[c].path # "batch"
        /\ pc[c] = "lookup" => req[c].path = "keyed"
        /\ pc[c] # "idle" /\ req[c].path = "keyed" => req[c].store \in Stores
        /\ pc[c] \in {"store", "insert"} => doc[c] \in DocIds
        /\ pc[c] # "purge" => previous[c] = {}

IInv == TypeOK /\ InPlace

LEMMA InitHolds == Init => IInv
<1> SUFFICES ASSUME Init PROVE IInv
  OBVIOUS
<1>1. batch \in BatchRow
  BY DEF Init, NewBatch, BatchRow
<1> QED BY <1>1 DEF Init, IInv, TypeOK, InPlace, DocRow, DocStatus, Places, Request,
                    NoRequest, NotSealing, AllPaths

(* Only call c moves. *)
OthersStay(c) ==
    \A e \in Callers \ {c} :
        pc'[e] = pc[e] /\ req'[e] = req[e] /\ doc'[e] = doc[e] /\ previous'[e] = previous[e]

LEMMA ReturnEffect ==
    ASSUME IInv, NEW c \in Callers, Return(c)
    PROVE  /\ OthersStay(c)
           /\ pc'[c] = "idle" /\ previous'[c] = {}
           /\ pc' \in [Callers -> Places]
           /\ req' \in [Callers -> Request]
           /\ doc' \in [Callers -> DocIds \cup {NoDoc}]
           /\ previous' \in [Callers -> SUBSET DocIds]
           /\ InPlace'
BY DEF IInv, TypeOK, InPlace, Return, OthersStay, Places, Request, NoRequest, AllPaths

LEMMA GotoEffect ==
    ASSUME IInv, NEW c \in Callers, NEW place \in Places, Goto(c, place)
    PROVE  /\ OthersStay(c)
           /\ pc'[c] = place
           /\ pc' \in [Callers -> Places]
           /\ req' = req /\ doc' = doc /\ previous' = previous
BY DEF IInv, TypeOK, Goto, OthersStay

LEMMA NewRow ==
    ASSUME IInv, NEW c \in Callers, pc[c] # "idle"
    PROVE  Registered(c) \in DocRow
BY DEF IInv, TypeOK, InPlace, Registered, DocRow, DocStatus, AllPaths

LEMMA StatusKeepsRow ==
    ASSUME docs \in [DocIds -> DocRow], NEW d \in DocIds, NEW status \in DocStatus
    PROVE  [docs EXCEPT ![d].status = status] \in [DocIds -> DocRow]
<1>1. [docs[d] EXCEPT !.status = status] \in DocRow
  BY DEF DocRow
<1> QED BY <1>1

-----------------------------------------------------------------------------
(* Every step keeps it.                                                    *)

LEMMA UploadKeepsIInv ==
    ASSUME IInv, NEW c \in Callers, Upload(c)
    PROVE  IInv'
<1> USE DEF At
<1>1. CASE Begin(c)
  BY <1>1 DEF Begin, IInv, TypeOK, InPlace, Places, Request, AllPaths
<1>2. CASE EnforceLimit(c)
  <2>1. CASE Return(c)
    BY <1>2, <2>1, ReturnEffect DEF EnforceLimit, IInv, TypeOK
  <2>2. CASE Goto(c, IF req[c].path = "batch" THEN "reopen" ELSE "previous")
    BY <1>2, <2>2 DEF EnforceLimit, Goto, IInv, TypeOK, InPlace, Places
  <2> QED BY <1>2, <2>1, <2>2 DEF EnforceLimit
<1>3. CASE Fail(c)
  BY <1>3, ReturnEffect DEF Fail, IInv, TypeOK
<1>4. CASE Context(c)
  BY <1>4 DEF Context, ReopenCollection, Goto, IInv, TypeOK, InPlace, Places, AllPaths
<1>5. CASE Reopen(c)
  BY <1>5 DEF Reopen, ReopenCollection, Goto, IInv, TypeOK, InPlace, Places
<1>6. CASE Check(c)
  <2>1. CASE Return(c)
    BY <1>6, <2>1, ReturnEffect DEF Check, IInv, TypeOK
  <2>2. CASE /\ \E d \in DocIds : Fresh(d) /\ doc' = [doc EXCEPT ![c] = d]
             /\ pc' = [pc EXCEPT ![c] = "store"]
             /\ UNCHANGED <<req, previous>>
    BY <1>6, <2>2 DEF Check, IInv, TypeOK, InPlace, Places
  <2> QED BY <1>6, <2>1, <2>2 DEF Check
<1>7. CASE Store(c)
  BY <1>7 DEF Store, Goto, IInv, TypeOK, InPlace, Places
<1>8. CASE Insert(c)
  <2>1. run' \in [DocIds -> {"none", "pending", "running", "success", "failure"}]
    BY <1>8 DEF Insert, Enqueue, IInv, TypeOK
  <2> QED BY <1>8, <2>1, NewRow DEF Insert, Goto, IInv, TypeOK, InPlace, Places
<1>9. CASE MarkProcessing(c)
  BY <1>9, ReturnEffect DEF MarkProcessing, IInv, TypeOK, BatchRow
<1>10. CASE Lookup(c)
  <2>1. CASE Return(c)
    BY <1>10, <2>1, ReturnEffect DEF Lookup, IInv, TypeOK
  <2>2. CASE Goto(c, "pressure")
    BY <1>10, <2>2 DEF Lookup, Goto, IInv, TypeOK, InPlace, Places
  <2> QED BY <1>10, <2>1, <2>2 DEF Lookup
<1>11. CASE FindPrevious(c)
  BY <1>11 DEF FindPrevious, Versions, IInv, TypeOK, InPlace, Places
<1>12. CASE DeletePrevious(c)
  <2>1. docs' \in [DocIds -> DocRow]
    <3>1. "deleted" \in DocStatus /\ docs \in [DocIds -> DocRow]
      BY DEF IInv, TypeOK, DocStatus
    <3>2. PICK d \in previous[c] :
            docs' = [docs EXCEPT ![d].status = "deleted"] \/ UNCHANGED docs
      BY <1>12 DEF DeletePrevious
    <3>3. d \in DocIds
      BY DEF IInv, TypeOK
    <3> QED BY <3>1, <3>2, <3>3, StatusKeepsRow
  <2> QED BY <1>12, <2>1 DEF DeletePrevious, IInv, TypeOK, InPlace
<1>13. CASE Register(c)
  <2>1. run' \in [DocIds -> {"none", "pending", "running", "success", "failure"}]
    BY <1>13 DEF Register, Enqueue, IInv, TypeOK
  <2>2. made' \in [Stores \X Files -> Nat]
    BY <1>13 DEF Register, KeyOf, IInv, TypeOK, InPlace
  <2>3. docs' \in [DocIds -> DocRow] /\ stored' \in SUBSET DocIds
    BY <1>13, NewRow DEF Register, IInv, TypeOK
  <2> QED BY <1>13, <2>1, <2>2, <2>3 DEF Register, IInv, TypeOK, InPlace, Places
<1>14. CASE Answer(c)
  <2>1. answers' \in SUBSET (Stores \X Files)
    BY <1>14 DEF Answer, KeyOf, IInv, TypeOK, InPlace
  <2> QED BY <1>14, <2>1, ReturnEffect DEF Answer, IInv, TypeOK
<1> QED BY <1>1, <1>2, <1>3, <1>4, <1>5, <1>6, <1>7, <1>8, <1>9, <1>10, <1>11, <1>12, <1>13,
           <1>14 DEF Upload

LEMMA ProgressedType ==
    ASSUME NEW row \in BatchRow, NEW success \in BOOLEAN
    PROVE  Progressed(row, TotalFiles, success) \in BatchRow
BY DEF BatchRow, Progressed, BatchStatus, Closed

LEMMA OtherStepsKeepIInv ==
    ASSUME IInv, \/ \E d \in DocIds : Work(d) \/ Requeue(d) \/ Delete(d)
                 \/ \E s \in Stores, f \in Files : Lapse(s, f)
                 \/ Seal \/ UNCHANGED vars
    PROVE  IInv'
<1>1. ASSUME NEW d \in DocIds, StartRun(d) PROVE IInv'
  <2>1. docs' \in [DocIds -> DocRow]
    <3>1. "processing" \in DocStatus /\ docs \in [DocIds -> DocRow]
      BY DEF IInv, TypeOK, DocStatus
    <3> QED BY <1>1, <3>1, StatusKeepsRow DEF StartRun
  <2>2. run' \in [DocIds -> {"none", "pending", "running", "success", "failure"}]
    BY <1>1 DEF StartRun, Ended, IInv, TypeOK
  <2> QED BY <1>1, <2>1, <2>2 DEF StartRun, callVars, IInv, TypeOK, InPlace
<1>2. ASSUME NEW d \in DocIds, EndRun(d) PROVE IInv'
  <2>1. docs' \in [DocIds -> DocRow]
    <3>1. CASE UNCHANGED docs
      BY <3>1 DEF IInv, TypeOK
    <3>2. CASE \E status \in {"processed", "failed"} :
                 docs' = [docs EXCEPT ![d].status = status]
      <4>1. PICK status \in {"processed", "failed"} : docs' = [docs EXCEPT ![d].status = status]
        BY <3>2
      <4>2. status \in DocStatus /\ docs \in [DocIds -> DocRow]
        BY DEF IInv, TypeOK, DocStatus
      <4> QED BY <4>1, <4>2, StatusKeepsRow
    <3> QED BY <1>2, <3>1, <3>2 DEF EndRun
  <2>2. run' \in [DocIds -> {"none", "pending", "running", "success", "failure"}]
    BY <1>2 DEF EndRun, Ended, IInv, TypeOK
  <2> QED BY <1>2, <2>1, <2>2 DEF EndRun, callVars, IInv, TypeOK, InPlace
<1>3. ASSUME NEW d \in DocIds, Report(d) PROVE IInv'
  <2>1. batch' \in BatchRow
    BY <1>3, ProgressedType DEF Report, IInv, TypeOK
  <2> QED BY <1>3, <2>1 DEF Report, callVars, IInv, TypeOK, InPlace
<1>4. ASSUME NEW d \in DocIds, Delete(d) PROVE IInv'
  <2>1. docs' \in [DocIds -> DocRow]
    BY <1>4, StatusKeepsRow DEF Delete, IInv, TypeOK, DocStatus
  <2> QED BY <1>4, <2>1 DEF Delete, callVars, IInv, TypeOK, InPlace
<1>5. CASE SealCollection
  BY <1>5 DEF SealCollection, callVars, IInv, TypeOK, InPlace
<1>6. CASE CountStatuses
  <2> DEFINE With(status) == {d \in BatchDocs : docs[d].status = status}
  <2>1. Cardinality(With("processed")) \in Nat /\ Cardinality(With("failed")) \in Nat
    BY Counted DEF BatchDocs
  <2>2. sealing' \in [at : {"idle", "count", "write"}, completed : Nat, failed : Nat]
    BY <1>6, <2>1 DEF CountStatuses
  <2> QED BY <1>6, <2>2 DEF CountStatuses, callVars, IInv, TypeOK, InPlace
<1>7. CASE OverwriteCounters
  BY <1>7 DEF OverwriteCounters, NotSealing, BatchRow, BatchStatus, Closed, callVars, IInv,
              TypeOK, InPlace
<1>8. CASE UNCHANGED vars
  BY <1>8 DEF vars, callVars, IInv, TypeOK, InPlace
<1>9. ASSUME NEW d \in DocIds, Requeue(d) PROVE IInv'
  <2>1. docs' \in [DocIds -> DocRow]
    BY <1>9, StatusKeepsRow DEF Requeue, IInv, TypeOK, DocStatus
  <2>2. run' \in [DocIds -> {"none", "pending", "running", "success", "failure"}]
    BY <1>9 DEF Requeue, Enqueue, IInv, TypeOK
  <2> QED BY <1>9, <2>1, <2>2 DEF Requeue, callVars, IInv, TypeOK, InPlace
<1>10. ASSUME NEW s \in Stores, NEW f \in Files, Lapse(s, f) PROVE IInv'
  BY <1>10 DEF Lapse, callVars, IInv, TypeOK, InPlace
<1> QED BY <1>1, <1>2, <1>3, <1>4, <1>5, <1>6, <1>7, <1>8, <1>9, <1>10 DEF Work, Seal

LEMMA StepKeepsIInv == IInv /\ [Next]_vars => IInv'
BY UploadKeepsIInv, OtherStepsKeepIInv DEF Next

(* The type invariant: every table, every call and the counters of the     *)
(* sealing have their types in every reachable state.                      *)
THEOREM TypeCorrect == Spec => []TypeOK
<1>1. IInv => TypeOK
  BY DEF IInv
<1> QED BY <1>1, InitHolds, StepKeepsIInv, PTL DEF Spec

-----------------------------------------------------------------------------
(* What a step does to the rows and to the calls.                          *)

(* Documents that are pending and were not retried by hand. *)
Waiting == Pending \ retried

(* No row comes to life, begins to wait, or changes what it is a row of. *)
RowsFade ==
    \A d \in DocIds :
        /\ docs'[d].file = docs[d].file /\ docs'[d].path = docs[d].path
        /\ docs'[d].status \notin {"absent", "deleted"} => Live(d)
        /\ d \in Waiting' => d \in Waiting

(* A call is where nothing has been checked for it. *)
Outside == {"idle", "context", "lookup", "pressure"}

(* The call passes enforce_limit. *)
Admitted(c) ==
    /\ pc[c] = "pressure" /\ pc'[c] \in {"reopen", "previous"} /\ req'[c] = req[c]
    /\ ~Saturated

(* It passes the checks of the batch. *)
Accepted(c) ==
    /\ pc[c] = "check" /\ pc'[c] = "store" /\ req'[c] = req[c]
    /\ Same(c) = {} /\ ~Full

(* It goes on towards its row, which it may yet have to add. *)
GoesOn(c) ==
    /\ <<pc[c], pc'[c]>> \in {<<"reopen", "check">>, <<"store", "insert">>,
                             <<"previous", "purge">>, <<"purge", "purge">>}
    /\ req'[c] = req[c]

(* It adds its row. *)
Adds(c) ==
    /\ <<pc[c], pc'[c]>> \in {<<"insert", "mark">>, <<"purge", "answer">>}
    /\ req'[c] = req[c]
    /\ \E d \in DocIds : docs' = [docs EXCEPT ![d] = Registered(c)]
    /\ retried' = retried

LEMMA UploadMoves ==
    ASSUME IInv, NEW c \in Callers, Upload(c)
    PROVE  /\ OthersStay(c)
           /\ \/ Adds(c)
              \/ RowsFade /\ (pc'[c] \in Outside \/ Admitted(c) \/ Accepted(c) \/ GoesOn(c))
<1> USE DEF At
<1>1. UNCHANGED <<docs, retried>> => RowsFade
  BY DEF RowsFade, Live, Waiting, Pending
<1>2. Return(c) => OthersStay(c) /\ pc'[c] \in Outside
  BY ReturnEffect DEF Outside
<1>3. ASSUME NEW place \in Places, Goto(c, place)
      PROVE  OthersStay(c) /\ pc'[c] = place /\ req'[c] = req[c]
  BY <1>3, GotoEffect
<1>4. CASE Begin(c)
  <2>1. OthersStay(c)
    BY <1>4 DEF Begin, OthersStay, IInv, TypeOK
  <2>2. pc'[c] \in Outside
    BY <1>4 DEF Begin, IInv, TypeOK, Outside, AllPaths
  <2> QED BY <1>1, <1>4, <2>1, <2>2 DEF Begin
<1>5. CASE EnforceLimit(c)
  BY <1>1, <1>2, <1>3, <1>5 DEF EnforceLimit, Admitted, Places
<1>6. CASE Fail(c)
  BY <1>1, <1>2, <1>6 DEF Fail
<1>7. CASE Context(c)
  BY <1>1, <1>3, <1>7 DEF Context, ReopenCollection, Outside, Places
<1>8. CASE Reopen(c)
  BY <1>1, <1>3, <1>8 DEF Reopen, ReopenCollection, GoesOn, Places
<1>9. CASE Check(c)
  <2>1. CASE Return(c)
    BY <1>1, <1>2, <1>9, <2>1 DEF Check
  <2>2. CASE ~Return(c)
    BY <1>1, <1>9, <2>2 DEF Check, OthersStay, Accepted, IInv, TypeOK
  <2> QED BY <2>1, <2>2
<1>10. CASE Store(c)
  BY <1>1, <1>3, <1>10 DEF Store, GoesOn, Places
<1>11. CASE Insert(c)
  BY <1>3, <1>11 DEF Insert, Adds, Places, IInv, InPlace
<1>12. CASE MarkProcessing(c)
  BY <1>1, <1>2, <1>12 DEF MarkProcessing
<1>13. CASE Lookup(c)
  BY <1>1, <1>2, <1>3, <1>13 DEF Lookup, Outside, Places
<1>14. CASE FindPrevious(c)
  BY <1>1, <1>14 DEF FindPrevious, OthersStay, GoesOn, IInv, TypeOK
<1>15. CASE DeletePrevious(c)
  <2>1. OthersStay(c) /\ GoesOn(c)
    BY <1>15 DEF DeletePrevious, OthersStay, GoesOn, IInv, TypeOK
  <2>2. RowsFade
    BY <1>15 DEF DeletePrevious, RowsFade, Live, Waiting, Pending, IInv, TypeOK, DocRow
  <2> QED BY <2>1, <2>2
<1>16. CASE Register(c)
  BY <1>16 DEF Register, OthersStay, Adds, IInv, TypeOK
<1>17. CASE Answer(c)
  BY <1>1, <1>2, <1>17 DEF Answer
<1> QED BY <1>4, <1>5, <1>6, <1>7, <1>8, <1>9, <1>10, <1>11, <1>12, <1>13, <1>14, <1>15,
           <1>16, <1>17 DEF Upload

(* The worker, the sealing, a retry, a deletion and a lapse move no call. *)
LEMMA OtherMoves ==
    ASSUME IInv, \/ \E d \in DocIds : Work(d) \/ Requeue(d) \/ Delete(d)
                 \/ \E s \in Stores, f \in Files : Lapse(s, f)
                 \/ Seal \/ UNCHANGED vars
    PROVE  /\ RowsFade /\ UNCHANGED <<callVars, faults>>
           /\ UNCHANGED keyVars \/ \E s \in Stores, f \in Files : Lapse(s, f)
<1> USE DEF Waiting, Pending
<1>1. UNCHANGED <<docs, retried>> => RowsFade
  BY DEF RowsFade, Live
<1>2. ASSUME NEW d \in DocIds, StartRun(d)
      PROVE  RowsFade /\ UNCHANGED <<callVars, keyVars, faults>>
  BY <1>2 DEF StartRun, RowsFade, Live, IInv, TypeOK, DocRow
<1>3. ASSUME NEW d \in DocIds, EndRun(d)
      PROVE  RowsFade /\ UNCHANGED <<callVars, keyVars, faults>>
  <2>1. RowsFade
    BY <1>1, <1>3 DEF EndRun, RowsFade, Live, IInv, TypeOK, DocRow
  <2> QED BY <1>3, <2>1 DEF EndRun
<1>4. ASSUME NEW d \in DocIds, Delete(d)
      PROVE  RowsFade /\ UNCHANGED <<callVars, keyVars, faults>>
  BY <1>4 DEF Delete, RowsFade, Live, IInv, TypeOK, DocRow
<1>5. ASSUME NEW d \in DocIds, Requeue(d)
      PROVE  RowsFade /\ UNCHANGED <<callVars, keyVars, faults>>
  BY <1>5 DEF Requeue, RowsFade, Live, IInv, TypeOK, DocRow
<1>6. ASSUME NEW s \in Stores, NEW f \in Files, Lapse(s, f)
      PROVE  RowsFade /\ UNCHANGED <<callVars, faults>>
  BY <1>1, <1>6 DEF Lapse
<1>7. CASE Seal \/ UNCHANGED vars \/ \E d \in DocIds : Report(d)
  BY <1>1, <1>7 DEF Report, Seal, SealCollection, CountStatuses, OverwriteCounters, vars
<1> QED BY <1>2, <1>3, <1>4, <1>5, <1>6, <1>7 DEF Work

-----------------------------------------------------------------------------
(* The limit of pending documents.                                         *)

Admissions ==
    {c \in Callers : pc[c] \in {"reopen", "check", "store", "insert", "previous", "purge"}}

(* The bound holds of any two sets that a step lets shrink, or trades one   *)
(* for one.                                                                 *)
Shrinks(S, T, S2, T2) == S2 \subseteq S /\ T2 \subseteq T

Trades(S, T, S2, T2) ==
    /\ \E x : S2 \subseteq S \cup {x}
    /\ \E c \in T : T2 \subseteq T \ {c}

LEMMA NoMoreInAll ==
    ASSUME NEW S, IsFiniteSet(S), NEW T, IsFiniteSet(T), NEW S2, NEW T2,
           Shrinks(S, T, S2, T2) \/ Trades(S, T, S2, T2)
    PROVE  /\ Cardinality(S) \in Nat /\ Cardinality(T) \in Nat
           /\ Cardinality(S2) \in Nat /\ Cardinality(T2) \in Nat
           /\ Cardinality(S2) + Cardinality(T2) <= Cardinality(S) + Cardinality(T)
<1>1. CASE Shrinks(S, T, S2, T2)
  <2>1. S2 \subseteq S /\ T2 \subseteq T
    BY <1>1 DEF Shrinks
  <2> QED BY <2>1, Counted
<1>2. CASE Trades(S, T, S2, T2)
  <2>1. PICK x : S2 \subseteq S \cup {x}
    BY <1>2 DEF Trades
  <2>2. PICK c \in T : T2 \subseteq T \ {c}
    BY <1>2 DEF Trades
  <2>3. /\ Cardinality(S2) \in Nat /\ Cardinality(S) \in Nat
        /\ Cardinality(S2) <= Cardinality(S) + 1
    BY <2>1, OneMore
  <2>4. /\ Cardinality(T2) \in Nat /\ Cardinality(T) \in Nat
        /\ Cardinality(T2) + 1 <= Cardinality(T)
    BY <2>2, OneLess
  <2> QED BY <2>3, <2>4
<1> QED BY <1>1, <1>2

LEMMA PendingStep ==
    ASSUME IInv, [Next]_vars, MAX_PENDING > 0
    PROVE  \/ Shrinks(Waiting, Admissions, Waiting', Admissions')
           \/ Trades(Waiting, Admissions, Waiting', Admissions')
           \/ Cardinality(Waiting) < MAX_PENDING /\ Waiting' \subseteq Waiting
<1>1. RowsFade => Waiting' \subseteq Waiting
  BY DEF RowsFade, Waiting, Pending
<1>2. ASSUME NEW c \in Callers, Upload(c)
      PROVE  \/ Shrinks(Waiting, Admissions, Waiting', Admissions')
             \/ Trades(Waiting, Admissions, Waiting', Admissions')
             \/ Cardinality(Waiting) < MAX_PENDING /\ Waiting' \subseteq Waiting
  <2>1. OthersStay(c)
    BY <1>2, UploadMoves
  <2>2. CASE RowsFade /\ (pc'[c] \in Outside \/ Accepted(c) \/ GoesOn(c))
    <3>1. Admissions' \subseteq Admissions
      BY <2>1, <2>2 DEF Admissions, OthersStay, Outside, Accepted, GoesOn
    <3> QED BY <1>1, <2>2, <3>1 DEF Shrinks
  <2>3. CASE RowsFade /\ Admitted(c)
    <3>1. /\ Cardinality(Waiting) \in Nat /\ Cardinality(Pending) \in Nat
          /\ Cardinality(Waiting) <= Cardinality(Pending)
      <4>1. Pending \subseteq DocIds /\ Waiting \subseteq Pending
        BY DEF Pending, Waiting
      <4> QED BY <4>1, Counted
    <3> QED BY <1>1, <2>3, <3>1 DEF Admitted, Saturated
  <2>4. CASE Adds(c)
    <3>1. c \in Admissions /\ Admissions' \subseteq Admissions \ {c}
      BY <2>1, <2>4 DEF Admissions, OthersStay, Adds
    <3>2. \E x : Waiting' \subseteq Waiting \cup {x}
      BY <2>4 DEF Adds, Waiting, Pending
    <3> QED BY <3>1, <3>2 DEF Trades
  <2> QED BY <1>2, <2>2, <2>3, <2>4, UploadMoves
<1>3. CASE ~\E c \in Callers : Upload(c)
  <2>1. RowsFade /\ UNCHANGED pc
    BY <1>3, OtherMoves DEF Next, callVars
  <2> QED BY <1>1, <2>1 DEF Shrinks, Admissions
<1> QED BY <1>2, <1>3

(* The documents waiting or in work pass INGESTION_MAX_PENDING_PER_TENANT   *)
(* by at most the callers that are past enforce_limit, less one, and those  *)
(* retried by hand: the limit is exact for a single caller and no retry.    *)
THEOREM PendingBounded == Spec => []PendingOvershoot
<1>1. Init => PendingOvershoot
  <2> SUFFICES ASSUME Init, MAX_PENDING > 0 PROVE PendingOvershoot
    BY DEF PendingOvershoot
  <2>1. Waiting = {} /\ Admissions = {}
    BY DEF Init, Waiting, Pending, Admissions
  <2>2. Cardinality(Callers) \in Nat
    BY FS_CardinalityType
  <2> QED BY <2>1, <2>2, FS_EmptySet DEF PendingOvershoot, Waiting, Admissions
<1>2. ASSUME IInv, [Next]_vars, PendingOvershoot
      PROVE  PendingOvershoot'
  <2> SUFFICES ASSUME MAX_PENDING > 0
               PROVE  Cardinality(Waiting') + Cardinality(Admissions')
                        < MAX_PENDING + Cardinality(Callers)
    BY DEF PendingOvershoot, Waiting, Admissions
  <2>1. Cardinality(Waiting) + Cardinality(Admissions) < MAX_PENDING + Cardinality(Callers)
    BY <1>2 DEF PendingOvershoot, Waiting, Admissions
  <2>2. Waiting \subseteq DocIds /\ Admissions \subseteq Callers /\ Admissions' \subseteq Callers
    BY DEF Waiting, Pending, Admissions
  <2>3. IsFiniteSet(Waiting) /\ IsFiniteSet(Admissions) /\ Cardinality(Callers) \in Nat
    BY <2>2, Counted, FS_CardinalityType
  <2>4. CASE Cardinality(Waiting) < MAX_PENDING /\ Waiting' \subseteq Waiting
    <3>1. /\ Cardinality(Waiting') \in Nat /\ Cardinality(Waiting) \in Nat
          /\ Cardinality(Waiting') <= Cardinality(Waiting)
      BY <2>3, <2>4, Counted
    <3>2. Cardinality(Admissions') \in Nat /\ Cardinality(Admissions') <= Cardinality(Callers)
      BY <2>2, Counted
    <3> QED BY <2>3, <2>4, <3>1, <3>2
  <2>5. CASE \/ Shrinks(Waiting, Admissions, Waiting', Admissions')
             \/ Trades(Waiting, Admissions, Waiting', Admissions')
    <3>1. /\ Cardinality(Waiting) \in Nat /\ Cardinality(Admissions) \in Nat
          /\ Cardinality(Waiting') \in Nat /\ Cardinality(Admissions') \in Nat
          /\ Cardinality(Waiting') + Cardinality(Admissions')
               <= Cardinality(Waiting) + Cardinality(Admissions)
      BY <2>3, <2>5, NoMoreInAll
    <3> QED BY <2>1, <2>3, <3>1
  <2> QED BY <1>2, <2>4, <2>5, PendingStep
<1> QED BY <1>1, <1>2, InitHolds, StepKeepsIInv, PTL DEF Spec

-----------------------------------------------------------------------------
(* The limits of the batch.                                                *)

Acceptances == CallsAt({"store", "insert"}, "batch")

LEMMA BatchStep ==
    ASSUME IInv, [Next]_vars
    PROVE  \/ Shrinks(BatchDocs, Acceptances, BatchDocs', Acceptances')
           \/ Trades(BatchDocs, Acceptances, BatchDocs', Acceptances')
           \/ Cardinality(BatchDocs) < TotalFiles /\ BatchDocs' \subseteq BatchDocs
<1>1. RowsFade => BatchDocs' \subseteq BatchDocs
  BY DEF RowsFade, BatchDocs, Live
<1>2. ASSUME NEW c \in Callers, Upload(c)
      PROVE  \/ Shrinks(BatchDocs, Acceptances, BatchDocs', Acceptances')
             \/ Trades(BatchDocs, Acceptances, BatchDocs', Acceptances')
             \/ Cardinality(BatchDocs) < TotalFiles /\ BatchDocs' \subseteq BatchDocs
  <2>1. OthersStay(c)
    BY <1>2, UploadMoves
  <2>2. CASE RowsFade /\ (pc'[c] \in Outside \/ Admitted(c) \/ GoesOn(c))
    <3>1. Acceptances' \subseteq Acceptances
      BY <2>1, <2>2 DEF Acceptances, CallsAt, OthersStay, Outside, Admitted, GoesOn
    <3> QED BY <1>1, <2>2, <3>1 DEF Shrinks
  <2>3. CASE RowsFade /\ Accepted(c)
    <3>1. Cardinality(BatchDocs) \in Nat
      BY Counted DEF BatchDocs
    <3> QED BY <1>1, <2>3, <3>1 DEF Accepted, Full
  <2>4. CASE Adds(c) /\ pc[c] = "insert"
    <3>1. c \in Acceptances /\ Acceptances' \subseteq Acceptances \ {c}
      BY <2>1, <2>4 DEF Acceptances, CallsAt, OthersStay, Adds, IInv, InPlace
    <3>2. \E x : BatchDocs' \subseteq BatchDocs \cup {x}
      BY <2>4 DEF Adds, BatchDocs, Live
    <3> QED BY <3>1, <3>2 DEF Trades
  <2>5. CASE Adds(c) /\ pc[c] = "purge"
    <3>1. Acceptances' \subseteq Acceptances
      BY <2>1, <2>5 DEF Acceptances, CallsAt, OthersStay, Adds
    <3>2. BatchDocs' \subseteq BatchDocs
      BY <2>5 DEF Adds, BatchDocs, Live, Registered, IInv, TypeOK, InPlace
    <3> QED BY <3>1, <3>2 DEF Shrinks
  <2> QED BY <1>2, <2>2, <2>3, <2>4, <2>5, UploadMoves DEF Adds
<1>3. CASE ~\E c \in Callers : Upload(c)
  <2>1. RowsFade /\ UNCHANGED <<pc, req>>
    BY <1>3, OtherMoves DEF Next, callVars
  <2> QED BY <1>1, <2>1 DEF Shrinks, Acceptances, CallsAt
<1> QED BY <1>2, <1>3

(* The files of a batch pass total_files by at most the callers that are    *)
(* past the check of add_file_to_batch, less one.                           *)
THEOREM BatchLimitBounded == Spec => []BatchLimitOvershoot
<1>1. Init => BatchLimitOvershoot
  <2> SUFFICES ASSUME Init PROVE BatchLimitOvershoot
    OBVIOUS
  <2>1. BatchDocs = {} /\ Acceptances = {}
    BY DEF Init, BatchDocs, Live, Acceptances, CallsAt
  <2>2. Cardinality(Callers) \in Nat
    BY FS_CardinalityType
  <2>3. Cardinality(BatchDocs) = 0 /\ Cardinality(Acceptances) = 0
    BY <2>1, FS_EmptySet
  <2> QED BY <2>2, <2>3 DEF BatchLimitOvershoot, Acceptances
<1>2. ASSUME IInv, [Next]_vars, BatchLimitOvershoot
      PROVE  BatchLimitOvershoot'
  <2> SUFFICES Cardinality(BatchDocs') + Cardinality(Acceptances')
                 < TotalFiles + Cardinality(Callers)
    BY DEF BatchLimitOvershoot, Acceptances
  <2>1. Cardinality(BatchDocs) + Cardinality(Acceptances) < TotalFiles + Cardinality(Callers)
    BY <1>2 DEF BatchLimitOvershoot, Acceptances
  <2>2. /\ BatchDocs \subseteq DocIds
        /\ Acceptances \subseteq Callers /\ Acceptances' \subseteq Callers
    BY DEF BatchDocs, Acceptances, CallsAt
  <2>3. IsFiniteSet(BatchDocs) /\ IsFiniteSet(Acceptances) /\ Cardinality(Callers) \in Nat
    BY <2>2, Counted, FS_CardinalityType
  <2>4. CASE Cardinality(BatchDocs) < TotalFiles /\ BatchDocs' \subseteq BatchDocs
    <3>1. /\ Cardinality(BatchDocs') \in Nat /\ Cardinality(BatchDocs) \in Nat
          /\ Cardinality(BatchDocs') <= Cardinality(BatchDocs)
      BY <2>3, <2>4, Counted
    <3>2. Cardinality(Acceptances') \in Nat /\ Cardinality(Acceptances') <= Cardinality(Callers)
      BY <2>2, Counted
    <3> QED BY <2>3, <2>4, <3>1, <3>2
  <2>5. CASE \/ Shrinks(BatchDocs, Acceptances, BatchDocs', Acceptances')
             \/ Trades(BatchDocs, Acceptances, BatchDocs', Acceptances')
    <3>1. /\ Cardinality(BatchDocs) \in Nat /\ Cardinality(Acceptances) \in Nat
          /\ Cardinality(BatchDocs') \in Nat /\ Cardinality(Acceptances') \in Nat
          /\ Cardinality(BatchDocs') + Cardinality(Acceptances')
               <= Cardinality(BatchDocs) + Cardinality(Acceptances)
      BY <2>3, <2>5, NoMoreInAll
    <3> QED BY <2>1, <2>3, <3>1
  <2> QED BY <1>2, <2>4, <2>5, BatchStep
<1> QED BY <1>1, <1>2, InitHolds, StepKeepsIInv, PTL DEF Spec

-----------------------------------------------------------------------------
(* Files of the same name.                                                 *)

Named(f) == {d \in BatchDocs : docs[d].file = f}

AcceptancesOf(f) == {c \in Acceptances : req[c].file = f}

LEMMA NamedStep ==
    ASSUME IInv, [Next]_vars, NEW f \in Files
    PROVE  \/ Shrinks(Named(f), AcceptancesOf(f), Named(f)', AcceptancesOf(f)')
           \/ Trades(Named(f), AcceptancesOf(f), Named(f)', AcceptancesOf(f)')
           \/ Named(f)' = {}
<1> USE DEF Named, AcceptancesOf, Acceptances, CallsAt
<1>1. RowsFade => Named(f)' \subseteq Named(f)
  BY DEF RowsFade, BatchDocs, Live
<1>2. ASSUME NEW c \in Callers, Upload(c)
      PROVE  \/ Shrinks(Named(f), AcceptancesOf(f), Named(f)', AcceptancesOf(f)')
             \/ Trades(Named(f), AcceptancesOf(f), Named(f)', AcceptancesOf(f)')
             \/ Named(f)' = {}
  <2>1. OthersStay(c)
    BY <1>2, UploadMoves
  <2>2. CASE RowsFade /\ (pc'[c] \in Outside \/ Admitted(c) \/ GoesOn(c))
    <3>1. AcceptancesOf(f)' \subseteq AcceptancesOf(f)
      BY <2>1, <2>2 DEF OthersStay, Outside, Admitted, GoesOn
    <3> QED BY <1>1, <2>2, <3>1 DEF Shrinks
  <2>3. CASE RowsFade /\ Accepted(c)
    <3>1. CASE req[c].file = f
      BY <1>1, <2>3, <3>1 DEF Accepted, Same
    <3>2. CASE req[c].file # f
      <4>1. AcceptancesOf(f)' \subseteq AcceptancesOf(f)
        BY <2>1, <2>3, <3>2 DEF OthersStay, Accepted
      <4> QED BY <1>1, <2>3, <4>1 DEF Shrinks
    <3> QED BY <3>1, <3>2
  <2>4. CASE Adds(c) /\ pc[c] = "insert" /\ req[c].file = f
    <3>1. c \in AcceptancesOf(f) /\ AcceptancesOf(f)' \subseteq AcceptancesOf(f) \ {c}
      BY <2>1, <2>4 DEF OthersStay, Adds, IInv, InPlace
    <3>2. \E x : Named(f)' \subseteq Named(f) \cup {x}
      BY <2>4 DEF Adds, BatchDocs, Live
    <3> QED BY <3>1, <3>2 DEF Trades
  <2>5. CASE Adds(c) /\ (pc[c] = "purge" \/ req[c].file # f)
    <3>1. AcceptancesOf(f)' \subseteq AcceptancesOf(f)
      BY <2>1, <2>5 DEF OthersStay, Adds
    <3>2. Named(f)' \subseteq Named(f)
      BY <2>5 DEF Adds, BatchDocs, Live, Registered, IInv, TypeOK, InPlace
    <3> QED BY <3>1, <3>2 DEF Shrinks
  <2> QED BY <1>2, <2>2, <2>3, <2>4, <2>5, UploadMoves DEF Adds
<1>3. CASE ~\E c \in Callers : Upload(c)
  <2>1. RowsFade /\ UNCHANGED <<pc, req>>
    BY <1>3, OtherMoves DEF Next, callVars
  <2> QED BY <1>1, <2>1 DEF Shrinks
<1> QED BY <1>2, <1>3

(* At most one document per caller bears the same name in a batch: the      *)
(* check for a file already there lets no second one in, but for calls that *)
(* run at the same time.                                                    *)
THEOREM SameFileBounded == Spec => []SameFileOvershoot
<1>1. Init => SameFileOvershoot
  <2> SUFFICES ASSUME Init, NEW f \in Files
               PROVE  Cardinality(Named(f)) + Cardinality(AcceptancesOf(f))
                        <= Cardinality(Callers)
    BY DEF SameFileOvershoot, Named, AcceptancesOf, Acceptances
  <2>1. Named(f) = {} /\ AcceptancesOf(f) = {}
    BY DEF Init, Named, BatchDocs, Live, AcceptancesOf, Acceptances, CallsAt
  <2>2. Cardinality(Callers) \in Nat
    BY FS_CardinalityType
  <2> QED BY <2>1, <2>2, FS_EmptySet
<1>2. ASSUME IInv, [Next]_vars, SameFileOvershoot
      PROVE  SameFileOvershoot'
  <2> SUFFICES ASSUME NEW f \in Files
               PROVE  Cardinality(Named(f)') + Cardinality(AcceptancesOf(f)')
                        <= Cardinality(Callers)
    BY DEF SameFileOvershoot, Named, AcceptancesOf, Acceptances
  <2>1. Cardinality(Named(f)) + Cardinality(AcceptancesOf(f)) <= Cardinality(Callers)
    BY <1>2 DEF SameFileOvershoot, Named, AcceptancesOf, Acceptances
  <2>2. /\ Named(f) \subseteq DocIds
        /\ AcceptancesOf(f) \subseteq Callers /\ AcceptancesOf(f)' \subseteq Callers
    BY DEF Named, BatchDocs, AcceptancesOf, Acceptances, CallsAt
  <2>3. IsFiniteSet(Named(f)) /\ IsFiniteSet(AcceptancesOf(f)) /\ Cardinality(Callers) \in Nat
    BY <2>2, Counted, FS_CardinalityType
  <2>4. CASE Named(f)' = {}
    <3>1. Cardinality(Named(f)') = 0
      BY <2>4, FS_EmptySet
    <3>2. Cardinality(AcceptancesOf(f)') \in Nat
          /\ Cardinality(AcceptancesOf(f)') <= Cardinality(Callers)
      BY <2>2, Counted
    <3> QED BY <2>3, <3>1, <3>2
  <2>5. CASE \/ Shrinks(Named(f), AcceptancesOf(f), Named(f)', AcceptancesOf(f)')
             \/ Trades(Named(f), AcceptancesOf(f), Named(f)', AcceptancesOf(f)')
    <3>1. /\ Cardinality(Named(f)) \in Nat /\ Cardinality(AcceptancesOf(f)) \in Nat
          /\ Cardinality(Named(f)') \in Nat /\ Cardinality(AcceptancesOf(f)') \in Nat
          /\ Cardinality(Named(f)') + Cardinality(AcceptancesOf(f)')
               <= Cardinality(Named(f)) + Cardinality(AcceptancesOf(f))
      BY <2>3, <2>5, NoMoreInAll
    <3> QED BY <2>1, <2>3, <3>1
  <2> QED BY <1>2, <2>4, <2>5, NamedStep
<1> QED BY <1>1, <1>2, InitHolds, StepKeepsIInv, PTL DEF Spec

-----------------------------------------------------------------------------
(* Versions of a document.                                                 *)

Alone(f) == {d \in DocIds : Live(d) /\ docs[d].file = f /\ docs[d].path # "batch"}

Cleaning(f) == {c \in Callers : pc[c] = "purge" /\ req[c].file = f}

(* What is left of f once the callers of S have deleted what they found. *)
Rest(f, S) == {d \in Alone(f) : \A c \in S : d \notin previous[c]}

(* Any callers that are about to register f can only add one version each   *)
(* to what the others leave, and a swallowed failure one more.              *)
EachLeavesOne ==
    \A f \in Files : \A S \in SUBSET Cleaning(f) :
        Cardinality(Rest(f, S)) + Cardinality(S) <= Cardinality(Callers) + faults

LEMMA RestFinite ==
    ASSUME NEW f, NEW S, S \subseteq Callers
    PROVE  /\ IsFiniteSet(Rest(f, S)) /\ IsFiniteSet(S)
           /\ Cardinality(Rest(f, S)) \in Nat /\ Cardinality(S) \in Nat
           /\ Cardinality(Callers) \in Nat /\ Cardinality(S) <= Cardinality(Callers)
<1>1. Rest(f, S) \subseteq DocIds
  BY DEF Rest, Alone
<1> QED BY <1>1, Counted

(* The ways a step may change what is left. *)
LeftAsIs(f, S) ==
    S \subseteq Cleaning(f) /\ Rest(f, S)' \subseteq Rest(f, S) /\ faults' >= faults

LeftForAFault(f, S) ==
    /\ faults' = faults + 1
    /\ \/ S \subseteq Cleaning(f) /\ \E d : Rest(f, S)' \subseteq Rest(f, S) \cup {d}
       \/ \E c \in S : /\ S \ {c} \subseteq Cleaning(f)
                      /\ Rest(f, S)' \subseteq Rest(f, S \ {c})

LeftByRegister(f, S) ==
    /\ faults' = faults
    /\ \E c \in Cleaning(f) \ S, d \in DocIds :
         S \subseteq Cleaning(f) /\ Rest(f, S)' \subseteq Rest(f, S \cup {c}) \cup {d}

LEMMA LeftBounds ==
    ASSUME IInv, IInv', NEW f \in Files, NEW S, S \subseteq Cleaning(f)', EachLeavesOne,
           \/ LeftAsIs(f, S) \/ LeftForAFault(f, S) \/ LeftByRegister(f, S)
           \/ Rest(f, S)' = {} /\ faults' >= faults
    PROVE  Cardinality(Rest(f, S)') + Cardinality(S) <= Cardinality(Callers) + faults'
<1>1. /\ S \subseteq Callers /\ faults \in Nat /\ faults' \in Nat
      /\ \A T : T \subseteq Cleaning(f) => T \subseteq Callers
  BY DEF Cleaning, IInv, TypeOK
<1>2. /\ Cardinality(S) \in Nat /\ Cardinality(Callers) \in Nat
      /\ Cardinality(S) <= Cardinality(Callers) /\ IsFiniteSet(S)
  BY <1>1, RestFinite
<1>3. ASSUME NEW T, T \subseteq Cleaning(f)
      PROVE  /\ Cardinality(Rest(f, T)) \in Nat /\ Cardinality(T) \in Nat
             /\ IsFiniteSet(Rest(f, T)) /\ IsFiniteSet(T)
             /\ Cardinality(Rest(f, T)) + Cardinality(T) <= Cardinality(Callers) + faults
  BY <1>1, <1>3, RestFinite DEF EachLeavesOne
<1>4. CASE LeftAsIs(f, S)
  <2>1. Cardinality(Rest(f, S)') \in Nat /\ Cardinality(Rest(f, S)') <= Cardinality(Rest(f, S))
    BY <1>3, <1>4, Counted DEF LeftAsIs
  <2> QED BY <1>1, <1>2, <1>3, <1>4, <2>1 DEF LeftAsIs
<1>5. CASE Rest(f, S)' = {} /\ faults' >= faults
  <2>1. Cardinality(Rest(f, S)') = 0
    BY <1>5, FS_EmptySet
  <2> QED BY <1>1, <1>2, <2>1
<1>6. CASE LeftForAFault(f, S)
  <2>1. CASE S \subseteq Cleaning(f) /\ \E d : Rest(f, S)' \subseteq Rest(f, S) \cup {d}
    <3>1. /\ Cardinality(Rest(f, S)') \in Nat
          /\ Cardinality(Rest(f, S)') <= Cardinality(Rest(f, S)) + 1
      BY <1>3, <2>1, OneMore
    <3> QED BY <1>1, <1>2, <1>3, <1>6, <2>1, <3>1 DEF LeftForAFault
  <2>2. CASE \E c \in S : /\ S \ {c} \subseteq Cleaning(f)
                         /\ Rest(f, S)' \subseteq Rest(f, S \ {c})
    <3>1. PICK c \in S : /\ S \ {c} \subseteq Cleaning(f)
                        /\ Rest(f, S)' \subseteq Rest(f, S \ {c})
      BY <2>2
    <3>2. /\ Cardinality(Rest(f, S)') \in Nat /\ Cardinality(Rest(f, S \ {c})) \in Nat
          /\ Cardinality(Rest(f, S)') <= Cardinality(Rest(f, S \ {c}))
      BY <1>3, <3>1, Counted
    <3>3. Cardinality(S) <= Cardinality(S \ {c}) + 1 /\ Cardinality(S \ {c}) \in Nat
      <4>1. IsFiniteSet(S \ {c}) /\ S \subseteq (S \ {c}) \cup {c}
        BY <1>3, <3>1
      <4> QED BY <4>1, OneMore
    <3>4. Cardinality(Rest(f, S \ {c})) + Cardinality(S \ {c}) <= Cardinality(Callers) + faults
      BY <1>3, <3>1
    <3>5. faults' = faults + 1
      BY <1>6 DEF LeftForAFault
    <3> QED BY <1>1, <1>2, <3>2, <3>3, <3>4, <3>5
  <2> QED BY <1>6, <2>1, <2>2 DEF LeftForAFault
<1>7. CASE LeftByRegister(f, S)
  <2>1. PICK c \in Cleaning(f) \ S, d \in DocIds :
          S \subseteq Cleaning(f) /\ Rest(f, S)' \subseteq Rest(f, S \cup {c}) \cup {d}
    BY <1>7 DEF LeftByRegister
  <2>2. S \cup {c} \subseteq Cleaning(f)
    BY <2>1
  <2>3. /\ Cardinality(Rest(f, S)') \in Nat /\ Cardinality(Rest(f, S \cup {c})) \in Nat
        /\ Cardinality(Rest(f, S)') <= Cardinality(Rest(f, S \cup {c})) + 1
    BY <1>3, <2>1, <2>2, OneMore
  <2>4. Cardinality(S) + 1 <= Cardinality(S \cup {c}) /\ Cardinality(S \cup {c}) \in Nat
    <3>1. IsFiniteSet(S \cup {c}) /\ S \subseteq (S \cup {c}) \ {c}
      BY <1>3, <2>1, <2>2
    <3> QED BY <3>1, OneLess
  <2>5. /\ Cardinality(Rest(f, S \cup {c})) + Cardinality(S \cup {c})
             <= Cardinality(Callers) + faults
        /\ faults' = faults
    BY <1>3, <1>7, <2>2 DEF LeftByRegister
  <2> QED BY <1>1, <1>2, <2>3, <2>4, <2>5
<1> QED BY <1>4, <1>5, <1>6, <1>7

LEMMA AloneFades ==
    ASSUME NEW f, RowsFade
    PROVE  Alone(f)' \subseteq Alone(f)
BY DEF RowsFade, Alone, Live

(* A step that moves no call, or that moves one away from its deletions. *)
LEMMA AwayLeaves ==
    ASSUME NEW f, NEW S, S \subseteq Cleaning(f)', NEW c \in Callers, OthersStay(c),
           pc'[c] # "purge", Alone(f)' \subseteq Alone(f), faults' >= faults
    PROVE  LeftAsIs(f, S)
BY DEF OthersStay, LeftAsIs, Rest, Cleaning

LEMMA UploadLeaves ==
    ASSUME IInv, NEW f \in Files, NEW S, S \subseteq Cleaning(f)', NEW c \in Callers, Upload(c)
    PROVE  \/ LeftAsIs(f, S) \/ LeftForAFault(f, S) \/ LeftByRegister(f, S)
           \/ Rest(f, S)' = {} /\ faults' >= faults
<1>1. OthersStay(c) /\ (RowsFade \/ Adds(c))
  BY UploadMoves
<1>2. CASE FindPrevious(c)
  <2>1. Alone(f)' = Alone(f)
    BY <1>2 DEF FindPrevious, Alone, Live
  <2>2. CASE c \notin S
    BY <1>1, <1>2, <2>1, <2>2 DEF FindPrevious, OthersStay, LeftAsIs, Rest, Cleaning, IInv, TypeOK
  <2>3. CASE c \in S /\ previous' = [previous EXCEPT ![c] = Versions(req[c].file)]
    <3>1. req[c].file = f
      BY <1>2, <2>3 DEF FindPrevious, Cleaning
    <3>2. Alone(f) \subseteq previous'[c]
      BY <2>3, <3>1 DEF Alone, Versions, IInv, TypeOK
    <3>3. faults' >= faults
      BY <1>2 DEF FindPrevious, IInv, TypeOK
    <3> QED BY <2>1, <2>3, <3>2, <3>3 DEF Rest
  <2>4. CASE c \in S /\ faults' = faults + 1 /\ UNCHANGED previous
    <3>1. S \ {c} \subseteq Cleaning(f)
      BY <1>1 DEF OthersStay, Cleaning
    <3>2. Rest(f, S)' \subseteq Rest(f, S \ {c})
      BY <2>1, <2>4 DEF Rest
    <3> QED BY <2>4, <3>1, <3>2 DEF LeftForAFault
  <2> QED BY <1>2, <2>2, <2>3, <2>4 DEF FindPrevious
<1>3. CASE DeletePrevious(c)
  <2>1. PICK d \in previous[c] :
          /\ previous' = [previous EXCEPT ![c] = @ \ {d}]
          /\ \/ docs' = [docs EXCEPT ![d].status = "deleted"] /\ UNCHANGED faults
             \/ faults < MaxFaults /\ faults' = faults + 1 /\ UNCHANGED docs
    BY <1>3 DEF DeletePrevious
  <2>2. S \subseteq Cleaning(f)
    BY <1>3 DEF DeletePrevious, Cleaning
  <2>3. \A e \in S : previous[e] \subseteq previous'[e] \cup {d}
    BY <2>1, <2>2 DEF Cleaning, IInv, TypeOK
  <2>4. CASE docs' = [docs EXCEPT ![d].status = "deleted"] /\ UNCHANGED faults
    <3>1. Alone(f)' \subseteq Alone(f) \ {d}
      BY <2>4 DEF Alone, Live, IInv, TypeOK, DocRow
    <3>2. Rest(f, S)' \subseteq Rest(f, S)
      BY <2>3, <3>1 DEF Rest
    <3>3. faults' >= faults
      BY <2>4 DEF IInv, TypeOK
    <3> QED BY <2>2, <3>2, <3>3 DEF LeftAsIs
  <2>5. CASE faults' = faults + 1 /\ UNCHANGED docs
    <3>1. Alone(f)' = Alone(f)
      BY <2>5 DEF Alone, Live
    <3>2. Rest(f, S)' \subseteq Rest(f, S) \cup {d}
      BY <2>3, <3>1 DEF Rest
    <3> QED BY <2>2, <2>5, <3>2 DEF LeftForAFault
  <2> QED BY <2>1, <2>4, <2>5
<1>4. CASE Register(c)
  <2>1. pc[c] = "purge" /\ pc'[c] = "answer" /\ previous[c] = {} /\ faults' = faults
    BY <1>4 DEF Register, At, IInv, TypeOK
  <2>2. PICK d \in DocIds : docs' = [docs EXCEPT ![d] = Registered(c)]
    BY <1>4 DEF Register
  <2>3. S \subseteq Cleaning(f) /\ c \notin S
    BY <1>1, <2>1 DEF Cleaning, OthersStay
  <2>4. previous' = previous
    BY <1>4 DEF Register
  <2>5. CASE req[c].file = f
    <3>1. c \in Cleaning(f) \ S
      BY <2>1, <2>3, <2>5 DEF Cleaning
    <3>2. Alone(f)' \subseteq Alone(f) \cup {d}
      BY <2>2 DEF Alone, Live, IInv, TypeOK
    <3>3. Rest(f, S)' \subseteq Rest(f, S \cup {c}) \cup {d}
      BY <2>1, <2>4, <3>2 DEF Rest
    <3> QED BY <2>1, <2>3, <3>1, <3>3 DEF LeftByRegister
  <2>6. CASE req[c].file # f
    <3>1. Alone(f)' \subseteq Alone(f)
      BY <2>2, <2>6 DEF Alone, Live, Registered, IInv, TypeOK
    <3> QED BY <2>1, <2>3, <2>4, <3>1 DEF LeftAsIs, Rest, IInv, TypeOK
  <2> QED BY <2>5, <2>6
<1>5. CASE Insert(c)
  <2>1. pc'[c] # "purge" /\ faults' = faults
    BY <1>5 DEF Insert, Goto, IInv, TypeOK
  <2>2. Alone(f)' \subseteq Alone(f)
    BY <1>5 DEF Insert, At, Alone, Live, Registered, IInv, TypeOK, InPlace
  <2> QED BY <1>1, <2>1, <2>2, AwayLeaves DEF IInv, TypeOK
<1>6. CASE ~FindPrevious(c) /\ ~DeletePrevious(c) /\ ~Register(c) /\ ~Insert(c)
  <2>1. pc'[c] # "purge" /\ RowsFade /\ faults' >= faults
    <3> USE DEF IInv, TypeOK, At
    <3>1. UNCHANGED <<docs, retried>> => RowsFade
      BY DEF RowsFade, Live, Waiting, Pending
    <3>2. Return(c) => pc'[c] # "purge"
      BY DEF Return
    <3>3. CASE Begin(c)
      BY <3>1, <3>3 DEF Begin, AllPaths
    <3>4. CASE EnforceLimit(c)
      BY <3>1, <3>2, <3>4 DEF EnforceLimit, Goto
    <3>5. CASE Fail(c)
      BY <3>1, <3>2, <3>5 DEF Fail
    <3>6. CASE Context(c) \/ Reopen(c) \/ Store(c)
      BY <3>1, <3>6 DEF Context, Reopen, Store, ReopenCollection, Goto
    <3>7. CASE Check(c)
      BY <3>1, <3>2, <3>7 DEF Check
    <3>8. CASE MarkProcessing(c) \/ Lookup(c) \/ Answer(c)
      BY <3>1, <3>2, <3>8 DEF MarkProcessing, Lookup, Answer, Goto
    <3> QED BY <1>6, <3>3, <3>4, <3>5, <3>6, <3>7, <3>8 DEF Upload
  <2> QED BY <1>1, <2>1, AwayLeaves, AloneFades
<1> QED BY <1>2, <1>3, <1>4, <1>5, <1>6

(* Each caller leaves at most one live version of a document uploaded on    *)
(* its own, but for the failures that _cleanup_previous_versions swallows.  *)
THEOREM VersionsBounded == Spec => []VersionsOvershoot
<1>1. Init => EachLeavesOne
  <2> SUFFICES ASSUME Init, NEW f \in Files, NEW S \in SUBSET Cleaning(f)
               PROVE  Cardinality(Rest(f, S)) + Cardinality(S) <= Cardinality(Callers) + faults
    BY DEF EachLeavesOne
  <2>1. Rest(f, S) = {} /\ S = {} /\ faults = 0
    BY DEF Init, Cleaning, Rest, Alone, Live
  <2>2. Cardinality(Callers) \in Nat
    BY FS_CardinalityType
  <2> QED BY <2>1, <2>2, FS_EmptySet
<1>2. IInv /\ EachLeavesOne /\ [Next]_vars => EachLeavesOne'
  <2> SUFFICES ASSUME IInv, EachLeavesOne, [Next]_vars, NEW f \in Files,
                      NEW S \in SUBSET Cleaning(f)'
               PROVE  Cardinality(Rest(f, S)') + Cardinality(S) <= Cardinality(Callers) + faults'
    BY DEF EachLeavesOne
  <2>1. S \subseteq Cleaning(f)' /\ IInv'
    BY StepKeepsIInv
  <2>2. CASE \E c \in Callers : Upload(c)
    BY <2>1, <2>2, UploadLeaves, LeftBounds
  <2>3. CASE ~\E c \in Callers : Upload(c)
    <3>1. RowsFade /\ UNCHANGED <<callVars, faults>>
      BY <2>3, OtherMoves DEF Next
    <3>2. Alone(f)' \subseteq Alone(f)
      BY <3>1, AloneFades
    <3>3. LeftAsIs(f, S)
      BY <2>1, <3>1, <3>2 DEF LeftAsIs, Rest, Cleaning, callVars, IInv, TypeOK
    <3> QED BY <2>1, <3>3, LeftBounds
  <2> QED BY <2>2, <2>3
<1>3. IInv /\ EachLeavesOne => VersionsOvershoot
  <2> SUFFICES ASSUME IInv, EachLeavesOne, NEW f \in Files
               PROVE  Cardinality(Alone(f)) <= Cardinality(Callers) + faults
    BY DEF VersionsOvershoot, Alone
  <2>1. Cardinality(Rest(f, {})) + Cardinality({}) <= Cardinality(Callers) + faults
    BY DEF EachLeavesOne
  <2>2. Rest(f, {}) = Alone(f)
    BY DEF Rest
  <2>3. Cardinality(Alone(f)) \in Nat /\ Cardinality({}) = 0
    BY Counted, FS_EmptySet DEF Alone
  <2> QED BY <2>1, <2>2, <2>3
<1> QED BY <1>1, <1>2, <1>3, InitHolds, StepKeepsIInv, PTL DEF Spec

-----------------------------------------------------------------------------
(* Documents of an Idempotency-Key.                                        *)

Keys == Stores \X Files

Keyed(k, places) ==
    {c \in Callers : pc[c] \in places /\ req[c].path = "keyed" /\ KeyOf(c) = k}

(* Calls that found no answer and have yet to register, and that registered *)
(* and have yet to answer.                                                  *)
Missed(k) == Keyed(k, {"pressure", "previous", "purge"})

Answering(k) == Keyed(k, {"answer"})

(* Until an answer is stored, each document is of a call that will store    *)
(* one or of a call that failed; a call that missed was a caller then.      *)
OncePerKey ==
    \A k \in Keys :
        /\ k \notin answers => made[k] <= Cardinality(Answering(k)) + faults
        /\ made[k] + Cardinality(Missed(k)) <= Cardinality(Callers) + faults

(* How a step may change the count and the two sets.                        *)
KeyKept(k) ==
    /\ made'[k] = made[k] /\ Missed(k)' \subseteq Missed(k)
    /\ faults' >= faults
    /\ \/ k \in answers'
       \/ k \notin answers /\ Answering(k) \subseteq Answering(k)'
       \/ /\ k \notin answers /\ faults' = faults + 1
          /\ \E c \in Callers : Answering(k) \subseteq Answering(k)' \cup {c}

KeyMissed(k) ==
    /\ made'[k] = made[k] /\ Answering(k) \subseteq Answering(k)'
    /\ k \notin answers /\ faults' = faults

KeyUsed(k) ==
    /\ made'[k] = made[k] + 1
    /\ \E c \in Missed(k) : /\ Missed(k)' \subseteq Missed(k) \ {c}
                          /\ Answering(k) \subseteq Answering(k)' \ {c} /\ c \in Answering(k)'
    /\ answers' = answers /\ faults' = faults

KeyLapsed(k) == made'[k] = 0

LEMMA KeyCounts ==
    ASSUME NEW k
    PROVE  /\ IsFiniteSet(Missed(k)) /\ IsFiniteSet(Answering(k))
           /\ Cardinality(Missed(k)) \in Nat
           /\ Cardinality(Answering(k)) \in Nat /\ Cardinality(Callers) \in Nat
           /\ Cardinality(Missed(k)) + Cardinality(Answering(k)) <= Cardinality(Callers)
<1>1. /\ Missed(k) \subseteq Callers /\ Answering(k) \subseteq Callers
      /\ Missed(k) \cap Answering(k) = {}
  BY DEF Missed, Answering, Keyed
<1>2. IsFiniteSet(Missed(k)) /\ IsFiniteSet(Answering(k))
  BY <1>1, Counted
<1> QED BY <1>1, <1>2, Disjoint

LEMMA KeyStep ==
    ASSUME IInv, IInv', OncePerKey, NEW k \in Keys,
           KeyKept(k) \/ KeyMissed(k) \/ KeyUsed(k) \/ KeyLapsed(k)
    PROVE  /\ k \notin answers' => made'[k] <= Cardinality(Answering(k)') + faults'
           /\ made'[k] + Cardinality(Missed(k)') <= Cardinality(Callers) + faults'
<1>1. /\ k \notin answers => made[k] <= Cardinality(Answering(k)) + faults
      /\ made[k] + Cardinality(Missed(k)) <= Cardinality(Callers) + faults
      /\ faults \in Nat /\ faults' \in Nat
      /\ made[k] \in Nat /\ made'[k] \in Nat
  BY DEF OncePerKey, Keys, IInv, TypeOK
<1>2. /\ IsFiniteSet(Missed(k)) /\ IsFiniteSet(Answering(k))
      /\ Cardinality(Missed(k)) \in Nat
      /\ Cardinality(Answering(k)) \in Nat /\ Cardinality(Callers) \in Nat
  BY KeyCounts
<1>3. /\ Missed(k)' \subseteq Callers /\ Answering(k)' \subseteq Callers
      /\ Missed(k)' \cap Answering(k)' = {}
  BY DEF Missed, Answering, Keyed
<1>4. /\ Cardinality(Missed(k)') \in Nat
      /\ Cardinality(Answering(k)') \in Nat
      /\ IsFiniteSet(Answering(k)')
      /\ Cardinality(Missed(k)') + Cardinality(Answering(k)') <= Cardinality(Callers)
  <2>1. IsFiniteSet(Answering(k)')
    BY <1>3, Counted
  <2> QED BY <1>3, <2>1, Disjoint
<1>5. CASE KeyKept(k)
  <2>1. Cardinality(Missed(k)') <= Cardinality(Missed(k))
    BY <1>2, <1>5, Counted DEF KeyKept
  <2>2. CASE k \in answers'
    BY <1>1, <1>2, <1>4, <1>5, <2>1, <2>2 DEF KeyKept
  <2>3. CASE k \notin answers /\ Answering(k) \subseteq Answering(k)'
    <3>1. Cardinality(Answering(k)) <= Cardinality(Answering(k)')
      BY <1>4, <2>3, Counted
    <3> QED BY <1>1, <1>2, <1>4, <1>5, <2>1, <2>3, <3>1 DEF KeyKept
  <2>4. CASE /\ k \notin answers /\ faults' = faults + 1
             /\ \E c \in Callers : Answering(k) \subseteq Answering(k)' \cup {c}
    <3>1. Cardinality(Answering(k)) <= Cardinality(Answering(k)') + 1
      BY <1>4, <2>4, OneMore
    <3> QED BY <1>1, <1>2, <1>4, <1>5, <2>1, <2>4, <3>1 DEF KeyKept
  <2> QED BY <1>5, <2>2, <2>3, <2>4 DEF KeyKept
<1>6. CASE KeyMissed(k)
  <2>1. Cardinality(Answering(k)) <= Cardinality(Answering(k)')
    BY <1>4, <1>6, Counted DEF KeyMissed
  <2> QED BY <1>1, <1>2, <1>4, <1>6, <2>1 DEF KeyMissed
<1>7. CASE KeyUsed(k)
  <2>1. PICK c \in Missed(k) :
          /\ Missed(k)' \subseteq Missed(k) \ {c}
          /\ Answering(k) \subseteq Answering(k)' \ {c} /\ c \in Answering(k)'
    BY <1>7 DEF KeyUsed
  <2>2. Cardinality(Missed(k)') + 1 <= Cardinality(Missed(k))
    BY <1>2, <2>1, OneLess
  <2>3. Cardinality(Answering(k)) + 1 <= Cardinality(Answering(k)')
    BY <1>4, <2>1, OneLess
  <2> QED BY <1>1, <1>2, <1>4, <1>7, <2>2, <2>3 DEF KeyUsed
<1>8. CASE KeyLapsed(k)
  BY <1>1, <1>2, <1>4, <1>8 DEF KeyLapsed
<1> QED BY <1>5, <1>6, <1>7, <1>8

(* A call that does not answer, nor comes to where it has missed. *)
LEMMA ElsewhereKeeps ==
    ASSUME IInv, NEW k, NEW c \in Callers, OthersStay(c),
           pc[c] # "answer",
           \/ pc'[c] \notin {"pressure", "previous", "purge"}
           \/ req[c].path # "keyed" /\ req'[c] = req[c]
           \/ pc[c] \in {"pressure", "previous", "purge"} /\ req'[c] = req[c],
           UNCHANGED keyVars, faults' >= faults
    PROVE  KeyKept(k)
<1>1. Missed(k)' \subseteq Missed(k)
  BY DEF OthersStay, Missed, Keyed, KeyOf
<1>2. Answering(k) \subseteq Answering(k)'
  BY DEF OthersStay, Answering, Keyed, KeyOf
<1> QED BY <1>1, <1>2 DEF KeyKept

LEMMA UploadKeys ==
    ASSUME IInv, NEW k \in Keys, NEW c \in Callers, Upload(c)
    PROVE  KeyKept(k) \/ KeyMissed(k) \/ KeyUsed(k)
<1> USE DEF At
<1>1. OthersStay(c) /\ faults \in Nat
  BY UploadMoves DEF IInv, TypeOK
<1>2. Return(c) => pc'[c] = "idle"
  BY ReturnEffect
<1>3. CASE Begin(c)
  <2>1. CASE pc'[c] \in {"context", "lookup"}
    <3>1. pc[c] = "idle" /\ UNCHANGED keyVars /\ faults' = faults
      BY <1>3 DEF Begin
    <3> QED BY <1>1, <2>1, <3>1, ElsewhereKeeps
  <2>2. CASE pc'[c] = "pressure"
    <3>1. req'[c].path # "keyed" /\ pc[c] = "idle"
      BY <1>3, <2>2 DEF Begin, AllPaths, IInv, TypeOK
    <3>2. Missed(k)' \subseteq Missed(k) /\ Answering(k) \subseteq Answering(k)'
      BY <1>1, <3>1 DEF OthersStay, Missed, Answering, Keyed, KeyOf
    <3> QED BY <1>1, <1>3, <3>2 DEF Begin, KeyKept
  <2> QED BY <1>3, <2>1, <2>2 DEF Begin, IInv, TypeOK, AllPaths
<1>4. CASE EnforceLimit(c)
  <2>1. CASE Return(c)
    BY <1>1, <1>2, <1>4, <2>1, ElsewhereKeeps DEF EnforceLimit
  <2>2. CASE Goto(c, IF req[c].path = "batch" THEN "reopen" ELSE "previous")
    BY <1>1, <1>4, <2>2, ElsewhereKeeps DEF EnforceLimit, Goto
  <2> QED BY <1>4, <2>1, <2>2 DEF EnforceLimit
<1>5. CASE Fail(c)
  <2>1. UNCHANGED keyVars /\ faults' = faults + 1 /\ pc'[c] = "idle"
    BY <1>2, <1>5 DEF Fail
  <2>2. Missed(k)' \subseteq Missed(k) /\ Answering(k) \subseteq Answering(k)' \cup {c}
    BY <1>1, <2>1 DEF OthersStay, Missed, Answering, Keyed, KeyOf
  <2> QED BY <1>1, <2>1, <2>2 DEF KeyKept
<1>6. CASE Context(c)
  <2>1. /\ UNCHANGED keyVars /\ faults' = faults /\ req' = req
        /\ pc[c] = "context" /\ req[c].path # "keyed"
    BY <1>6 DEF Context, ReopenCollection, Goto, IInv, InPlace
  <2> QED BY <1>1, <2>1, ElsewhereKeeps
<1>7. CASE Reopen(c) \/ Store(c)
  <2>1. /\ UNCHANGED keyVars /\ faults' = faults
        /\ pc[c] \in {"reopen", "store"} /\ pc'[c] \in {"check", "insert"}
    BY <1>7 DEF Reopen, Store, ReopenCollection, Goto, IInv, TypeOK
  <2> QED BY <1>1, <2>1, ElsewhereKeeps
<1>8. CASE Check(c)
  <2>1. pc'[c] \in {"idle", "store"}
    BY <1>2, <1>8 DEF Check, IInv, TypeOK
  <2> QED BY <1>1, <1>8, <2>1, ElsewhereKeeps DEF Check
<1>9. CASE Insert(c)
  <2>1. /\ UNCHANGED keyVars /\ faults' = faults
        /\ pc[c] = "insert" /\ pc'[c] = "mark"
    BY <1>9 DEF Insert, Goto, IInv, TypeOK
  <2> QED BY <1>1, <2>1, ElsewhereKeeps
<1>10. CASE MarkProcessing(c)
  BY <1>1, <1>2, <1>10, ElsewhereKeeps DEF MarkProcessing
<1>11. CASE Lookup(c)
  <2>1. UNCHANGED keyVars /\ faults' = faults /\ pc[c] = "lookup"
    BY <1>11 DEF Lookup
  <2>2. CASE Return(c)
    BY <1>1, <1>2, <2>1, <2>2, ElsewhereKeeps
  <2>3. CASE Goto(c, "pressure") /\ KeyOf(c) \notin answers
    <3>1. req' = req /\ pc'[c] = "pressure" /\ Answering(k) \subseteq Answering(k)'
      BY <1>1, <2>1, <2>3 DEF Goto, OthersStay, Answering, Keyed, KeyOf, IInv, TypeOK
    <3>2. CASE KeyOf(c) = k
      BY <2>1, <2>3, <3>1, <3>2 DEF KeyMissed
    <3>3. CASE KeyOf(c) # k
      <4>1. Missed(k)' \subseteq Missed(k)
        BY <1>1, <3>1, <3>3 DEF OthersStay, Missed, Keyed, KeyOf
      <4> QED BY <1>1, <2>1, <3>1, <4>1 DEF KeyKept
    <3> QED BY <3>2, <3>3
  <2> QED BY <1>11, <2>2, <2>3 DEF Lookup
<1>12. CASE FindPrevious(c)
  <2>1. UNCHANGED keyVars /\ faults' >= faults /\ req' = req /\ pc[c] = "previous"
    BY <1>1, <1>12 DEF FindPrevious
  <2> QED BY <1>1, <2>1, ElsewhereKeeps
<1>13. CASE DeletePrevious(c)
  <2>1. UNCHANGED keyVars /\ faults' >= faults /\ req' = req /\ pc[c] = "purge" /\ pc' = pc
    BY <1>1, <1>13 DEF DeletePrevious
  <2> QED BY <1>1, <2>1, ElsewhereKeeps
<1>14. CASE Register(c)
  <2>1. /\ answers' = answers /\ faults' = faults /\ req' = req
        /\ pc[c] = "purge" /\ pc'[c] = "answer"
        /\ made' = IF req[c].path = "keyed" THEN [made EXCEPT ![KeyOf(c)] = @ + 1] ELSE made
    BY <1>14 DEF Register, IInv, TypeOK
  <2>2. made \in [Keys -> Nat]
    BY DEF Keys, IInv, TypeOK
  <2>3. CASE req[c].path = "keyed" /\ KeyOf(c) = k
    <3>1. c \in Missed(k) /\ Missed(k)' \subseteq Missed(k) \ {c}
      BY <1>1, <2>1, <2>3 DEF OthersStay, Missed, Keyed, KeyOf
    <3>2. c \in Answering(k)' /\ Answering(k) \subseteq Answering(k)' \ {c}
      BY <1>1, <2>1, <2>3 DEF OthersStay, Answering, Keyed, KeyOf
    <3>3. made'[k] = made[k] + 1
      BY <2>1, <2>2, <2>3
    <3> QED BY <2>1, <3>1, <3>2, <3>3 DEF KeyUsed
  <2>4. CASE ~(req[c].path = "keyed" /\ KeyOf(c) = k)
    <3>1. Missed(k)' \subseteq Missed(k) /\ Answering(k) \subseteq Answering(k)'
      BY <1>1, <2>1 DEF OthersStay, Missed, Answering, Keyed, KeyOf
    <3>2. made'[k] = made[k]
      BY <2>1, <2>2, <2>4
    <3> QED BY <1>1, <2>1, <3>1, <3>2 DEF KeyKept
  <2> QED BY <2>3, <2>4
<1>15. CASE Answer(c)
  <2>1. /\ made' = made /\ faults' = faults /\ pc[c] = "answer" /\ pc'[c] = "idle"
        /\ req[c].path = "keyed" => answers' = answers \cup {KeyOf(c)}
        /\ req[c].path # "keyed" => answers' = answers
    BY <1>2, <1>15 DEF Answer
  <2>2. Missed(k)' \subseteq Missed(k)
    BY <1>1, <2>1 DEF OthersStay, Missed, Keyed, KeyOf
  <2>3. k \in answers' \/ (k \notin answers /\ Answering(k) \subseteq Answering(k)')
    <3>1. CASE req[c].path = "keyed" /\ KeyOf(c) = k
      BY <2>1, <3>1
    <3>2. CASE k \in answers
      BY <2>1, <3>2
    <3>3. CASE ~(req[c].path = "keyed" /\ KeyOf(c) = k) /\ k \notin answers
      BY <1>1, <3>3 DEF OthersStay, Answering, Keyed, KeyOf
    <3> QED BY <3>1, <3>2, <3>3
  <2> QED BY <1>1, <2>1, <2>2, <2>3 DEF KeyKept
<1> QED BY <1>3, <1>4, <1>5, <1>6, <1>7, <1>8, <1>9, <1>10, <1>11, <1>12, <1>13, <1>14,
           <1>15 DEF Upload

(* While the answer stored under an Idempotency-Key is kept, at most one    *)
(* document per caller is registered under it, and one more for each call   *)
(* that failed between its document and its stored answer.                  *)
THEOREM KeyedBounded == Spec => []KeyedOvershoot
<1>1. Init => OncePerKey
  <2> SUFFICES ASSUME Init, NEW k \in Keys
               PROVE  /\ made[k] <= Cardinality(Answering(k)) + faults
                      /\ made[k] + Cardinality(Missed(k)) <= Cardinality(Callers) + faults
    BY DEF OncePerKey
  <2>1. made[k] = 0 /\ Answering(k) = {} /\ Missed(k) = {} /\ faults = 0
    BY DEF Init, Keys, Answering, Missed, Keyed
  <2>2. Cardinality(Callers) \in Nat
    BY FS_CardinalityType
  <2> QED BY <2>1, <2>2, FS_EmptySet
<1>2. IInv /\ OncePerKey /\ [Next]_vars => OncePerKey'
  <2> SUFFICES ASSUME IInv, OncePerKey, [Next]_vars, NEW k \in Keys
               PROVE  /\ k \notin answers' => made'[k] <= Cardinality(Answering(k)') + faults'
                      /\ made'[k] + Cardinality(Missed(k)') <= Cardinality(Callers) + faults'
    BY DEF OncePerKey, Keys
  <2>1. KeyKept(k) \/ KeyMissed(k) \/ KeyUsed(k) \/ KeyLapsed(k)
    <3>1. CASE \E c \in Callers : Upload(c)
      BY <3>1, UploadKeys
    <3>2. CASE ~\E c \in Callers : Upload(c)
      <4>1. /\ UNCHANGED <<callVars, faults>>
            /\ UNCHANGED keyVars \/ \E s \in Stores, f \in Files : Lapse(s, f)
        BY <3>2, OtherMoves DEF Next
      <4>2. Missed(k)' = Missed(k) /\ Answering(k)' = Answering(k) /\ faults' >= faults
        BY <4>1 DEF Missed, Answering, Keyed, KeyOf, callVars, IInv, TypeOK
      <4>3. CASE UNCHANGED keyVars
        BY <4>2, <4>3 DEF KeyKept
      <4>4. ASSUME NEW s \in Stores, NEW f \in Files, Lapse(s, f)
            PROVE  KeyKept(k) \/ KeyLapsed(k)
        <5>1. /\ answers' = answers \ {<<s, f>>} /\ made' = [made EXCEPT ![<<s, f>>] = 0]
              /\ made \in [Keys -> Nat]
          BY <4>4 DEF Lapse, Keys, IInv, TypeOK
        <5>2. CASE k = <<s, f>>
          BY <5>1, <5>2 DEF KeyLapsed
        <5>3. CASE k # <<s, f>>
          BY <4>2, <5>1, <5>3 DEF KeyKept
        <5> QED BY <5>2, <5>3
      <4> QED BY <4>1, <4>3, <4>4
    <3> QED BY <3>1, <3>2
  <2> QED BY <2>1, StepKeepsIInv, KeyStep
<1>3. IInv /\ OncePerKey => KeyedOvershoot
  <2> SUFFICES ASSUME IInv, OncePerKey, NEW s \in Stores, NEW f \in Files
               PROVE  made[<<s, f>>] <= Cardinality(Callers) + faults
    BY DEF KeyedOvershoot
  <2>1. <<s, f>> \in Keys /\ made[<<s, f>>] \in Nat /\ faults \in Nat
    BY DEF Keys, IInv, TypeOK
  <2>2. made[<<s, f>>] + Cardinality(Missed(<<s, f>>)) <= Cardinality(Callers) + faults
    BY <2>1 DEF OncePerKey
  <2> QED BY <2>1, <2>2, KeyCounts
<1> QED BY <1>1, <1>2, <1>3, InitHolds, StepKeepsIInv, PTL DEF Spec

=============================================================================
