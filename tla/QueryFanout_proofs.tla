-------------------------- MODULE QueryFanout_proofs --------------------------
(***************************************************************************)
(* What a request that makes several calls answers, whichever of them      *)
(* fail, in whatever order they end, for any rows they return and any      *)
(* state of the tenant's graph.                                            *)
(*                                                                         *)
(* IInv is about the calls: which ones a request of each kind makes, and   *)
(* what the rows of each are like.  The rows of the graph name no standard *)
(* and the rows of the summaries have owners; both survive all that is     *)
(* done to the rows of a chat, because every step of it keeps the rows in  *)
(* a set that is closed under another score (Weighable).                   *)
(***************************************************************************)
EXTENDS QueryFanout, Ranking_proofs

(* The rows of all calls.  A graph row carries what it cites.              *)
Cites ==
    UNION {{end.rows[i].via : i \in DOMAIN end.rows} : end \in LocalOutcomes \union GlobalOutcomes}
Names == STRING \union {"local", "global"}
FoundRow == RowSet(Names, Names, (SUBSET STRING) \union Cites)

RowsFor(c) ==
    {r \in FoundRow : /\ c \in {"local", "global"} => r.scope = NoLabel
                      /\ c = "summaries" => r.owned}

Statuses == {"idle", "running", "ok", "dropped", "failed", "timeout", "skipped", "breach"}

RouterCalls == {"vector", "local", "global", "summaries", "again"}

IInv ==
    /\ request \in Requests
    /\ phase = "scope" => request.kind \in {"router", "vector"}
    /\ DOMAIN calls \subseteq DOMAIN Answers \union {"local", "global"}
    /\ request.kind = "router" => DOMAIN calls \subseteq RouterCalls
    /\ request.kind # "router" => DOMAIN calls = FirstCalls(request)
    /\ calls = [c \in DOMAIN calls |-> calls[c]]
    /\ \A c \in DOMAIN calls : calls[c] \in [status : Statuses, rows : Seq(RowsFor(c))]

-----------------------------------------------------------------------------
(* What a call may return.                                                 *)

LEMMA GraphRowIs ==
    ASSUME NEW end \in LocalOutcomes \union GlobalOutcomes, NEW x, NEW id \in {"local", "global"},
           end.rows = <<GraphRow(id, x)>>
    PROVE  end.rows \in Seq({r \in FoundRow : r.scope = NoLabel})
<1> DEFINE row == GraphRow(id, x)
<1>1. row.via = x /\ row.scope = NoLabel
  BY DEF GraphRow
<1>2. x \in Cites
  <2>1. 1 \in DOMAIN end.rows /\ end.rows[1] = row
    OBVIOUS
  <2>2. x \in {end.rows[i].via : i \in DOMAIN end.rows}
    <3> HIDE DEF row
    <3> QED BY <1>1, <2>1
  <2> QED BY <2>2 DEF Cites
<1>3. row \in FoundRow
  BY <1>2, FanoutAssumption DEF GraphRow, FoundRow, RowSet, Labels, Names
<1> HIDE DEF row
<1>4. row \in {r \in FoundRow : r.scope = NoLabel}
  BY <1>1, <1>3
<1> QED BY <1>4 DEF row

LEMMA LocalRowsAre ==
    ASSUME NEW end \in LocalOutcomes
    PROVE  end.rows \in Seq({r \in FoundRow : r.scope = NoLabel})
<1>1. PICK g \in Worlds : end = LocalSearch(g)
  BY DEF LocalOutcomes
<1>2. \/ end.rows = <<>>
      \/ end.rows = <<GraphRow("local", MultiHop(g))>>
      \/ end.rows = <<GraphRow("local", Linked(g, Ids(Anchors(g))))>>
  BY <1>1 DEF LocalSearch, Fine, Raised
<1>3. CASE end.rows = <<>>
  BY <1>3
<1>4. ASSUME NEW x, end.rows = <<GraphRow("local", x)>>
      PROVE  end.rows \in Seq({r \in FoundRow : r.scope = NoLabel})
  BY <1>4, GraphRowIs
<1> QED BY <1>2, <1>3, <1>4

LEMMA GlobalRowsAre ==
    ASSUME NEW end \in GlobalOutcomes
    PROVE  end.rows \in Seq({r \in FoundRow : r.scope = NoLabel})
<1>1. PICK g \in Worlds : end = GlobalSearch(g)
  BY DEF GlobalOutcomes
<1> DEFINE matched == IF Up(g, "matched") THEN Take(Similar(g.communities, CommunitySim), TopK)
                      ELSE <<>>
           winners == Take(Scored(g.communities), TopK)
           cited(rows) == Ids(rows) \union UNION {rows[i].members : i \in DOMAIN rows}
<1>2. \/ end.rows = <<>>
      \/ end.rows = <<GraphRow("global", cited(matched))>>
      \/ end.rows = <<GraphRow("global", cited(winners))>>
  BY <1>1 DEF GlobalSearch, Fine, Raised
<1> HIDE DEF matched, winners, cited
<1>3. CASE end.rows = <<>>
  BY <1>3
<1>4. ASSUME NEW x, end.rows = <<GraphRow("global", x)>>
      PROVE  end.rows \in Seq({r \in FoundRow : r.scope = NoLabel})
  BY <1>4, GraphRowIs
<1> QED BY <1>2, <1>3, <1>4

LEMMA OutcomesAre ==
    ASSUME NEW c \in DOMAIN Answers \union {"local", "global"}, NEW end \in Outcomes(c)
    PROVE  end.rows \in Seq(RowsFor(c))
<1>1. CASE c \in {"local", "global"}
  <2>1. end.rows \in Seq({r \in FoundRow : r.scope = NoLabel})
    BY <1>1, LocalRowsAre, GlobalRowsAre DEF Outcomes
  <2>2. {r \in FoundRow : r.scope = NoLabel} = RowsFor(c)
    BY <1>1 DEF RowsFor
  <2> QED BY <2>1, <2>2
<1>2. CASE c \notin {"local", "global"}
  <2>1. end \in {Fine(rows) : rows \in Answers[c]} \union {Raised}
    BY <1>2 DEF Outcomes
  <2>2. CASE end = Raised
    BY <2>2 DEF Raised
  <2>3. ASSUME NEW rows \in Answers[c], end = Fine(rows) PROVE end.rows \in Seq(RowsFor(c))
    <3>1. rows \in Seq(SourceRow) /\ end.rows = rows
      BY <1>2, <2>3, FanoutAssumption DEF Fine
    <3>2. \A i \in 1 .. Len(rows) : rows[i] \in SourceRow /\ (c = "summaries" => rows[i].owned)
      BY <3>1, NamesAndOwners
    <3>3. \A r \in SourceRow : r \in FoundRow
      BY DEF SourceRow, FoundRow, RowSet, Names
    <3>4. \A i \in 1 .. Len(rows) : rows[i] \in RowsFor(c)
      BY <1>2, <3>2, <3>3 DEF RowsFor
    <3>5. rows = [i \in 1 .. Len(rows) |-> rows[i]] /\ Len(rows) \in Nat
      BY <3>1
    <3>6. rows \in [1 .. Len(rows) -> RowsFor(c)]
      BY <3>4, <3>5
    <3> QED BY <3>1, <3>5, <3>6
  <2> QED BY <2>1, <2>2, <2>3
<1> QED BY <1>1, <1>2

-----------------------------------------------------------------------------
(* IInv is inductive.                                                      *)

(* The sub-queries that are run are sub-queries of the request. *)
LEMMA DistinctAre ==
    ASSUME NEW r \in Requests
    PROVE  /\ Distinct(r.subs) \in Seq(ToSet(r.subs))
           /\ \A k \in 1 .. Len(Distinct(r.subs)) :
                 \E i \in DOMAIN r.subs : Distinct(r.subs)[k] = r.subs[i]
<1> DEFINE s == r.subs
           T == ToSet(s)
           subs == Distinct(s)
           at == {i \in DOMAIN s : \A j \in 1 .. (i - 1) : Key(s[j]) # Key(s[i])}
<1>1. s \in Seq(T)
  BY FanoutAssumption
<1>2. subs = Picked(s, at)
  BY DEF Distinct, FirstBy, With
<1>3. at \in SUBSET DOMAIN s
  OBVIOUS
<1> HIDE DEF s, T, at, subs
<1>4. SomeOf(subs, s, at)
  BY <1>1, <1>2, <1>3, PickedSome
<1>5. subs \in Seq(T) /\ Len(subs) = Cardinality(at)
  BY <1>1, <1>3, <1>4, SomeOfIs
<1>6. ASSUME NEW k \in 1 .. Len(subs) PROVE \E i \in DOMAIN s : subs[k] = s[i]
  <2>1. \E i \in at : subs[k] = s[i]
    BY <1>4, <1>5, TakenFrom
  <2> QED BY <1>3, <2>1
<1> QED BY <1>5, <1>6 DEF s, T, subs

(* The names of the sub-queries that are run are names of sub-queries.     *)
LEMMA NamesRun ==
    ASSUME NEW r \in Requests
    PROVE  NamesOf(Distinct(r.subs)) \subseteq NamesOf(r.subs)
           /\ NamesOf(Branches(r)) \subseteq NamesOf(r.subs)
<1> DEFINE s == r.subs
           T == ToSet(s)
           subs == Distinct(s)
<1>1. s \in Seq(T)
  BY FanoutAssumption
<1>4. subs \in Seq(T) /\ \A k \in 1 .. Len(subs) : \E i \in DOMAIN s : subs[k] = s[i]
  BY DistinctAre
<1> HIDE DEF s, T, subs
<1>5. NamesOf(subs) \subseteq NamesOf(s)
  <2>1. DOMAIN subs = 1 .. Len(subs)
    BY <1>4
  <2>2. ASSUME NEW k \in DOMAIN subs PROVE subs[k].name \in NamesOf(s)
    <3>1. PICK i \in DOMAIN s : subs[k] = s[i]
      BY <1>4, <2>1
    <3> QED BY <3>1 DEF NamesOf
  <2> QED BY <2>2 DEF NamesOf
<1>6. NamesOf(Branches(r)) \subseteq NamesOf(s)
  <2> DEFINE b == Take(s, MaxBranches)
  <2>1. /\ b \in Seq(T) /\ \A i \in 1 .. Len(b) : b[i] = s[i]
        /\ Len(b) = IF MaxBranches < Len(s) THEN MaxBranches ELSE Len(s)
    BY <1>1, FanoutAssumption, TakeIs
  <2> HIDE DEF b
  <2>0. DOMAIN s = 1 .. Len(s) /\ Len(s) \in Nat
    BY <1>1
  <2>2. Len(b) \in Nat /\ Len(b) <= Len(s) /\ DOMAIN b = 1 .. Len(b)
    BY <2>0, <2>1, FanoutAssumption
  <2>3. \A i \in DOMAIN b : i \in DOMAIN s /\ b[i] = s[i]
    BY <2>0, <2>1, <2>2
  <2>4. NamesOf(b) \subseteq NamesOf(s)
    BY <2>3 DEF NamesOf
  <2> QED BY <2>4 DEF b, s, Branches
<1> QED BY <1>5, <1>6 DEF subs, s

(* A handler's step that leaves the calls alone. *)
LEMMA CallsStay ==
    ASSUME IInv, UNCHANGED <<request, calls>>, phase' = phase \/ phase' # "scope"
    PROVE  IInv'
BY DEF IInv

(* A call moves on, with the rows it has. *)
Moved(c, x) == calls' = [calls EXCEPT ![c].status = x]

LEMMA StatusSet ==
    ASSUME IInv, NEW c \in DOMAIN calls, NEW x \in Statuses,
           Moved(c, x),
           UNCHANGED request, phase' = phase \/ phase' # "scope"
    PROVE  IInv'
<1>1. calls = [d \in DOMAIN calls |-> calls[d]]
  BY DEF IInv
<1>2. DOMAIN calls' = DOMAIN calls /\ calls' = [d \in DOMAIN calls' |-> calls'[d]]
  BY <1>1 DEF Moved
<1>3. ASSUME NEW d \in DOMAIN calls PROVE calls'[d] \in [status : Statuses, rows : Seq(RowsFor(d))]
  <2>1. calls[d] \in [status : Statuses, rows : Seq(RowsFor(d))]
    BY DEF IInv
  <2>2. calls'[d] = IF d = c THEN [calls[d] EXCEPT !.status = x] ELSE calls[d]
    BY <1>1 DEF Moved
  <2> QED BY <2>1, <2>2
<1> QED BY <1>2, <1>3 DEF IInv

LEMMA EmptyRows == \A c : <<>> \in Seq(RowsFor(c))
OBVIOUS

LEMMA ReturnsIs ==
    ASSUME IInv, NEW c \in DOMAIN calls, Returns(c)
    PROVE  IInv'
<1>1. PICK end \in Outcomes(c) : calls' = Returned(c, end.rows)
  BY DEF Returns
<1>2. /\ UNCHANGED <<request, phase>>
      /\ DOMAIN calls \subseteq DOMAIN Answers \union {"local", "global"}
  BY DEF Returns, IInv
<1>3. end.rows \in Seq(RowsFor(c))
  BY <1>2, OutcomesAre
<1>4. DOMAIN calls' = DOMAIN calls /\ calls' = [d \in DOMAIN calls' |-> calls'[d]]
  BY <1>1 DEF Returned
<1>5. ASSUME NEW d \in DOMAIN calls PROVE calls'[d] \in [status : Statuses, rows : Seq(RowsFor(d))]
  <2>1. calls[d] \in [status : Statuses, rows : Seq(RowsFor(d))]
    BY DEF IInv
  <2>2. \/ d = c /\ calls'[d] = [status |-> "ok", rows |-> end.rows]
        \/ calls'[d] = [status |-> "skipped", rows |-> <<>>]
        \/ calls'[d] = calls[d]
    BY <1>1 DEF Returned
  <2>3. CASE d = c /\ calls'[d] = [status |-> "ok", rows |-> end.rows]
    BY <1>3, <2>3 DEF Statuses
  <2>4. CASE calls'[d] = [status |-> "skipped", rows |-> <<>>]
    BY <2>4, EmptyRows DEF Statuses
  <2> QED BY <2>1, <2>2, <2>3, <2>4
<1> QED BY <1>2, <1>4, <1>5 DEF IInv

LEMMA InitIInv == Init => IInv
<1> SUFFICES ASSUME Init PROVE IInv
  OBVIOUS
<1>1. request \in Requests /\ calls = Idle(FirstCalls(request))
  BY DEF Init
<1>2. phase = "scope" => request.kind \in {"router", "vector"}
  BY DEF Init
<1>3. DOMAIN calls = FirstCalls(request) /\ calls = [c \in DOMAIN calls |-> calls[c]]
  BY <1>1 DEF Idle
<1>4. FirstCalls(request) \subseteq DOMAIN Answers
  BY <1>1, FanoutAssumption
<1>5. request.kind = "router" => FirstCalls(request) = {}
  BY DEF FirstCalls
<1>6. ASSUME NEW c \in DOMAIN calls PROVE calls[c] \in [status : Statuses, rows : Seq(RowsFor(c))]
  <2>1. calls[c] = [status |-> "idle", rows |-> <<>>]
    BY <1>1 DEF Idle
  <2> QED BY <2>1, EmptyRows DEF Statuses
<1> QED BY <1>1, <1>2, <1>3, <1>4, <1>5, <1>6 DEF IInv

LEMMA ClassifyKeeps ==
    ASSUME IInv, Classify
    PROVE  IInv'
<1>1. UNCHANGED request /\ phase' = "calling"
  BY DEF Classify
<1>2. CASE UNCHANGED calls
  BY <1>1, <1>2, CallsStay
<1>3. CASE /\ request.kind = "router"
           /\ \E anchors \in AnchorCounts, broad \in BOOLEAN : \E mode \in Modes(anchors, broad) :
                calls' = Idle(SourcesOf(mode))
  <2>1. PICK mode : calls' = Idle(SourcesOf(mode))
    BY <1>3
  <2>2. SourcesOf(mode) \subseteq {"vector", "local", "global", "summaries"}
    BY DEF SourcesOf
  <2>3. DOMAIN calls' = SourcesOf(mode) /\ calls' = [c \in DOMAIN calls' |-> calls'[c]]
    BY <2>1 DEF Idle
  <2>4. ASSUME NEW c \in DOMAIN calls'
        PROVE  calls'[c] \in [status : Statuses, rows : Seq(RowsFor(c))]
    <3>1. calls'[c] = [status |-> "idle", rows |-> <<>>]
      BY <2>1, <2>3 DEF Idle
    <3> QED BY <3>1, EmptyRows DEF Statuses
  <2>5. /\ DOMAIN calls' \subseteq RouterCalls
        /\ DOMAIN calls' \subseteq DOMAIN Answers \union {"local", "global"}
    BY <2>2, <2>3, FanoutAssumption DEF RouterCalls
  <2> QED BY <1>1, <1>3, <2>3, <2>4, <2>5 DEF IInv
<1> QED BY <1>2, <1>3 DEF Classify

LEMMA AskAgainKeeps ==
    ASSUME IInv, AskVectorsAgain
    PROVE  IInv'
<1>1. UNCHANGED <<request, phase>> /\ request.kind = "router"
  BY DEF AskVectorsAgain, NeedsVector
<1>2. calls' = [c \in DOMAIN calls \union {"again"} |->
                  IF c = "again" THEN [status |-> "idle", rows |-> <<>>] ELSE calls[c]]
  BY DEF AskVectorsAgain
<1>3. DOMAIN calls' = DOMAIN calls \union {"again"} /\ calls' = [c \in DOMAIN calls' |-> calls'[c]]
  BY <1>2
<1>4. ASSUME NEW c \in DOMAIN calls' PROVE calls'[c] \in [status : Statuses, rows : Seq(RowsFor(c))]
  <2>1. calls'[c] = IF c = "again" THEN [status |-> "idle", rows |-> <<>>] ELSE calls[c]
    BY <1>2, <1>3
  <2>2. c # "again" => calls[c] \in [status : Statuses, rows : Seq(RowsFor(c))]
    BY <1>3 DEF IInv
  <2> QED BY <2>1, <2>2, EmptyRows DEF Statuses
<1>5. "again" \in DOMAIN Answers /\ "again" \in RouterCalls
  BY FanoutAssumption DEF RouterCalls
<1> QED BY <1>1, <1>3, <1>4, <1>5 DEF IInv

LEMMA StepIInv == IInv /\ [Next]_vars => IInv'
<1> SUFFICES ASSUME IInv, [Next]_vars PROVE IInv'
  OBVIOUS
<1>1. CASE Clarify
  BY <1>1, CallsStay DEF Clarify
<1>2. CASE Classify
  BY <1>2, ClassifyKeeps
<1>3. ASSUME NEW c \in DOMAIN calls, Start(c) PROVE IInv'
  <2>1. Moved(c, "running") /\ UNCHANGED <<request, phase>>
    BY <1>3 DEF Start, Moved
  <2> QED BY <1>3, <2>1, StatusSet DEF Statuses
<1>4. ASSUME NEW c \in DOMAIN calls, Returns(c) PROVE IInv'
  BY <1>4, ReturnsIs
<1>5. ASSUME NEW c \in DOMAIN calls, Drops(c) PROVE IInv'
  <2>1. Moved(c, "dropped") /\ UNCHANGED <<request, phase>>
    BY <1>5 DEF Drops, Moved
  <2> QED BY <1>5, <2>1, StatusSet DEF Statuses
<1>6. ASSUME NEW c \in DOMAIN calls, Fails(c) PROVE IInv'
  <2>1. Moved(c, "failed") /\ UNCHANGED request /\ (phase' = phase \/ phase' # "scope")
    BY <1>6 DEF Fails, Moved
  <2> QED BY <1>6, <2>1, StatusSet DEF Statuses
<1>7. ASSUME NEW c \in DOMAIN calls, TimesOut(c) PROVE IInv'
  <2>1. Moved(c, "timeout") /\ UNCHANGED <<request, phase>>
    BY <1>7 DEF TimesOut, Moved
  <2> QED BY <1>7, <2>1, StatusSet DEF Statuses
<1>8. CASE Breach
  <2>1. /\ "chunks" \in DOMAIN calls /\ Moved("chunks", "breach")
        /\ UNCHANGED request /\ phase' # "scope"
    BY <1>8 DEF Breach, Moved
  <2> QED BY <2>1, StatusSet DEF Statuses
<1>9. CASE TurnPage
  <2>1. UNCHANGED <<request, calls>> /\ (phase' = phase \/ phase' # "scope")
    BY <1>9 DEF TurnPage
  <2> QED BY <2>1, CallsStay
<1>10. CASE MergeMulti
  <2>1. UNCHANGED <<request, calls>> /\ phase' # "scope"
    BY <1>10 DEF MergeMulti, Reply
  <2> QED BY <2>1, CallsStay
<1>11. CASE MergePlan
  BY <1>11, CallsStay DEF MergePlan, Reply
<1>12. CASE MergeLate
  BY <1>12, CallsStay DEF MergeLate, Reply
<1>13. CASE AskVectorsAgain
  BY <1>13, AskAgainKeeps
<1>14. CASE MergeChat
  <2>1. UNCHANGED <<request, calls>> /\ phase' # "scope"
    BY <1>14 DEF MergeChat, Reply
  <2> QED BY <2>1, CallsStay
<1>15. CASE Done \/ UNCHANGED vars
  BY <1>15, CallsStay DEF Done, vars
<1> QED BY <1>1, <1>2, <1>3, <1>4, <1>5, <1>6, <1>7, <1>8, <1>9, <1>10, <1>11, <1>12, <1>13,
           <1>14, <1>15 DEF Next, Step, CallStep

LEMMA CallsAreTyped == Spec => []IInv
BY InitIInv, StepIInv, PTL DEF Spec

-----------------------------------------------------------------------------
(* LateFusionFills.                                                        *)

(* A request that is over does nothing more. *)
LEMMA OverStops ==
    ASSUME [Next]_vars, phase \in Over
    PROVE  UNCHANGED vars
BY DEF Next, Step, CallStep, Clarify, Classify, Start, Returns, Drops, Fails, TimesOut, Breach,
       TurnPage, MergeMulti, MergePlan, MergeLate, AskVectorsAgain, MergeChat, Done, Over

(* The rows of a call are rows, whether or not it has ended. *)
LEMMA RowsAre ==
    ASSUME IInv, NEW c
    PROVE  RowsOf(c) \in Seq(RowsFor(c)) /\ RowsOf(c) \in Seq(FoundRow)
<1>1. c \in DOMAIN calls => calls[c] \in [status : Statuses, rows : Seq(RowsFor(c))]
  BY DEF IInv
<1>2. RowsOf(c) \in Seq(RowsFor(c))
  BY <1>1, EmptyRows DEF RowsOf
<1>3. RowsFor(c) \subseteq FoundRow
  BY DEF RowsFor
<1> QED BY <1>2, <1>3, SeqMonotonic

LEMMA RaptorRowsAre ==
    ASSUME NEW raptor \in RaptorRows
    PROVE  raptor \in Seq(FoundRow)
<1> DEFINE found == Ids(RowsOf("raptor"))
           S(depth) == Leaves(found, depth) \intersect DOMAIN LeafRow
<1>1. PICK depth \in 0 .. MaxDepth : \E s \in SetToSeqs(S(depth)) :
              raptor = Mapped(s, LAMBDA c : LeafRow[c])
  BY DEF RaptorRows
<1>2. PICK s \in SetToSeqs(S(depth)) : raptor = Mapped(s, LAMBDA c : LeafRow[c])
  BY <1>1
<1>3. IsFiniteSet(S(depth)) /\ S(depth) \subseteq DOMAIN LeafRow
  BY FanoutAssumption, FS_Subset
<1> HIDE DEF S
<1>4. s \in Seq(S(depth))
  BY <1>3, SeqsOf
<1> DEFINE list == [i \in 1 .. Len(s) |-> LeafRow[s[i]]]
<1>5. raptor = Listed(list)
  BY <1>2 DEF Mapped, With
<1>6. \A i \in 1 .. Len(s) : list[i] \in FoundRow
  <2>1. \A i \in 1 .. Len(s) : s[i] \in DOMAIN LeafRow
    BY <1>3, <1>4
  <2>2. \A r \in SourceRow : r \in FoundRow
    BY DEF SourceRow, FoundRow, RowSet, Names
  <2> QED BY <2>1, <2>2, FanoutAssumption
<1>7. list = [i \in 1 .. Len(s) |-> list[i]]
  OBVIOUS
<1> HIDE DEF list
<1> QED BY <1>4, <1>5, <1>6, <1>7, ListIs

(* As many rows as ids. *)
LEMMA EachOnceCounts ==
    ASSUME NEW T, NEW rows \in Seq(T), EachOnce(rows)
    PROVE  Len(rows) = Cardinality(Ids(rows))
<1> DEFINE n == Len(rows)
           id == [i \in 1 .. n |-> rows[i].id]
<1>1. n \in Nat /\ DOMAIN rows = 1 .. n
  OBVIOUS
<1>2. IsFiniteSet(1 .. n) /\ Cardinality(1 .. n) = n
  BY <1>1, UpTo
<1>3. id \in Bijection(1 .. n, Ids(rows))
  <2>1. id \in [1 .. n -> Ids(rows)]
    BY DEF Ids
  <2>2. \A i, j \in 1 .. n : id[i] = id[j] => i = j
    BY <1>1 DEF EachOnce
  <2>3. \A x \in Ids(rows) : \E i \in 1 .. n : id[i] = x
    BY DEF Ids
  <2> QED BY <2>1, <2>2, <2>3 DEF Bijection, Injection, Surjection, IsInjective
<1>4. ExistsBijection(1 .. n, Ids(rows))
  BY <1>3 DEF ExistsBijection
<1> HIDE DEF n
<1> QED BY <1>2, <1>4, FS_Bijection DEF n

(* A comprehensive answer is the fusion of what the sources returned, and  *)
(* the fusion fills: k rows or all there are, each once.                   *)
THEOREM LateFusionIsFull == Spec => []LateFusionFills
<1>1. Init => LateFusionFills
  BY DEF Init, LateFusionFills
<1>2. IInv /\ LateFusionFills /\ [Next]_vars => LateFusionFills'
  <2> SUFFICES ASSUME IInv, LateFusionFills, [Next]_vars PROVE LateFusionFills'
    OBVIOUS
  <2>1. CASE phase \in Over
    <3>1. UNCHANGED <<request, phase, calls, merged>>
      BY <2>1, OverStops DEF vars
    <3> QED BY <3>1 DEF LateFusionFills, RowsOf
  <2>2. CASE phase \notin Over
    <3> SUFFICES ASSUME phase' = "answered", request'.kind = "comprehensive"
                 PROVE  LateFusionFills'
      BY DEF LateFusionFills
    <3>1. MergeLate
      <4>1. phase # "scope" \/ request.kind # "comprehensive"
        BY DEF IInv
      <4>2. phase # phase'
        BY <2>2 DEF Over
      <4> QED BY <4>1, <4>2
              DEF Next, Step, CallStep, Clarify, Classify, Start, Returns, Drops, Fails, TimesOut,
                  Breach, TurnPage, MergeMulti, MergePlan, AskVectorsAgain, MergeChat, Done, vars
    <3>2. UNCHANGED <<request, calls>> /\ request \in Requests
      BY <3>1 DEF MergeLate, IInv
    <3>3. PICK raptor \in RaptorRows :
            merged' = FuseLate(RowsOf("chunks"), RowsOf("graph"), raptor, request.k, Quotas)
      BY <3>1 DEF MergeLate
    <3> DEFINE chunks == RowsOf("chunks")
               graph == RowsOf("graph")
               k == request.k
               fused == FuseLate(chunks, graph, raptor, k, Quotas)
    <3>4. chunks \in Seq(FoundRow) /\ graph \in Seq(FoundRow) /\ raptor \in Seq(FoundRow)
      BY RowsAre, RaptorRowsAre
    <3>5. k \in Nat /\ Quotas.chunks \in Nat /\ Quotas.graph \in Nat /\ Quotas.raptor \in Nat
      BY <3>2, FanoutAssumption
    <3> HIDE DEF chunks, graph, k
    <3>6. /\ fused \in Seq(FoundRow) /\ EachOnce(fused) /\ Len(fused) <= k
          /\ Len(fused) < k => Ids(chunks) \union Ids(graph) \union Ids(raptor) \subseteq Ids(fused)
      BY <3>4, <3>5, FusionFills
    <3>7. merged' = fused
      BY <3>3 DEF chunks, graph, k
    <3> HIDE DEF fused
    <3>8. Len(fused) = Cardinality(Ids(fused))
      BY <3>6, EachOnceCounts
    <3>9. RowsOf("chunks")' = chunks /\ RowsOf("graph")' = graph /\ request'.k = k
      BY <3>2 DEF RowsOf, chunks, graph, k
    <3>10. Ids(merged)' = Ids(fused) /\ Ids(RowsOf("chunks"))' = Ids(chunks)
           /\ Ids(RowsOf("graph"))' = Ids(graph)
      BY <3>7, <3>9
    <3> QED BY <3>6, <3>7, <3>8, <3>9, <3>10 DEF LateFusionFills
  <2> QED BY <2>1, <2>2
<1> QED BY CallsAreTyped, <1>1, <1>2, PTL DEF Spec

-----------------------------------------------------------------------------
(* PartialFailureAnswers: the multi-query request.                         *)

LEMMA NoGroups ==
    ASSUME IInv, request.kind = "multi", Groups = <<>>
    PROVE  \A c \in DOMAIN calls : RowsOf(c) = <<>>
<1> DEFINE subs == Distinct(request.subs)
           list == [i \in DOMAIN subs |-> RowsOf(subs[i].name)]
           at == {i \in DOMAIN list : list[i] # <<>>}
<1>1. subs \in Seq(ToSet(request.subs))
  BY DistinctAre DEF IInv
<1>2. DOMAIN calls = NamesOf(subs)
  BY DEF IInv, FirstCalls
<1>3. Groups = Picked(list, at)
  BY DEF Groups, Kept, With
<1> HIDE DEF subs
<1>4. list \in Seq(Seq(FoundRow))
  <2>1. Len(subs) \in Nat /\ DOMAIN subs = 1 .. Len(subs)
    BY <1>1
  <2>2. list \in [1 .. Len(subs) -> Seq(FoundRow)]
    BY <2>1, RowsAre
  <2> QED BY <2>1, <2>2
<1>5. at \in SUBSET DOMAIN list
  OBVIOUS
<1>6. SUFFICES ASSUME NEW i \in DOMAIN subs PROVE RowsOf(subs[i].name) = <<>>
  BY <1>2 DEF NamesOf
<1>7. i \in DOMAIN list /\ list[i] = RowsOf(subs[i].name)
  OBVIOUS
<1> HIDE DEF list
<1>8. i \notin at
  <2> HIDE DEF at
  <2>1. SomeOf(Groups, list, at)
    BY <1>3, <1>4, <1>5, PickedSome
  <2>2. \A j \in at : \E k \in 1 .. Len(Groups) : Groups[k] = list[j]
    <3>1. Len(Groups) = Cardinality(at)
      BY <1>4, <1>5, <2>1, SomeOfIs
    <3> QED BY <2>1, <3>1 DEF SomeOf
  <2> QED BY <2>2
<1> QED BY <1>7, <1>8

-----------------------------------------------------------------------------
(* PartialFailureAnswers: the chat.  What the router does to the rows keeps *)
(* them in any set that is closed under a penalty and another score.       *)

Weighable(T) ==
    /\ Scorable(T)
    /\ \A r \in T : \A x \in Int : [r EXCEPT !.penalized = TRUE, !.score = x] \in T

LEMMA RouterRankedKeeps ==
    ASSUME NEW T, Weighable(T), NEW rows \in Seq(T), NEW scopes, request \in Requests
    PROVE  RouterRanked(rows, scopes) \in Seq(T)
<1> DEFINE cut(r) == IF OutsideText(r.scope, scopes)
                     THEN [r EXCEPT !.penalized = TRUE, !.score = @ \div 4] ELSE r
           list == [i \in 1 .. Len(rows) |-> cut(rows[i])]
           weighed == Mapped(rows, cut)
           strict == IF request.strict THEN Strict(weighed) ELSE weighed
           best == Gravity(strict, MinGravity, HeadingFloor, GravityLimit)
<1>1. Len(rows) \in Nat /\ \A i \in 1 .. Len(rows) : rows[i] \in T
  OBVIOUS
<1>2. ASSUME NEW r \in T PROVE cut(r) \in T
  <2>1. r.score \in Int
    BY DEF Weighable, Scorable
  <2> DEFINE x == r.score \div 4
             q == [r EXCEPT !.penalized = TRUE, !.score = x]
  <2>2. x \in Int
    BY <2>1
  <2>3. cut(r) = IF OutsideText(r.scope, scopes) THEN q ELSE r
    OBVIOUS
  <2> HIDE DEF x, cut
  <2>4. q \in T
    BY <2>2 DEF Weighable
  <2> QED BY <2>3, <2>4
<1>3. weighed \in Seq(T)
  <2>1. weighed = Listed(list)
    BY DEF Mapped, With
  <2>2. \A i \in 1 .. Len(rows) : list[i] \in T
    <3> HIDE DEF cut
    <3> QED BY <1>1, <1>2
  <2>3. list = [i \in 1 .. Len(rows) |-> list[i]]
    OBVIOUS
  <2> HIDE DEF list
  <2> QED BY <2>1, <2>2, <2>3, ListIs
<1>4. RouterRanked(rows, scopes) = Take(best, request.k)
  BY DEF RouterRanked
<1> HIDE DEF weighed
<1>5. strict \in Seq(T)
  BY <1>3, StrictNoMore
<1> HIDE DEF strict
<1>6. best \in Seq(T)
  BY <1>5, FanoutAssumption, GravityKeeps DEF Weighable
<1> HIDE DEF best
<1> QED BY <1>4, <1>6, FanoutAssumption, TakeIs

LEMMA GatheredIs ==
    ASSUME NEW T, request.kind = "router", \A c \in RouterCalls : RowsOf(c) \in Seq(T)
    PROVE  Gathered \in Seq(T)
<1> DEFINE a == RowsOf("vector") \o RowsOf("again")
           b == a \o RowsOf("local")
           c == b \o RowsOf("global")
           d == c \o RowsOf("summaries")
<1>1. Gathered = FirstById(d)
  BY DEF Gathered
<1>2. a \in Seq(T)
  BY ConcatIs DEF RouterCalls
<1> HIDE DEF a
<1>3. b \in Seq(T)
  BY <1>2, ConcatIs DEF RouterCalls
<1> HIDE DEF b
<1>4. c \in Seq(T)
  BY <1>3, ConcatIs DEF RouterCalls
<1> HIDE DEF c
<1>5. d \in Seq(T)
  BY <1>4, ConcatIs DEF RouterCalls
<1> HIDE DEF d
<1> QED BY <1>1, <1>5, FirstByIdIs

(* The rows the tenant check looks at; where some row is in the scope of   *)
(* the standards that are asked for, all of them have a scope.             *)
LEMMA ScopedIs ==
    ASSUME NEW T, NEW rows \in Seq(T), NEW row \in ToSet(Scoped(rows))
    PROVE  /\ row \in T
           /\ \/ request.query.standards = <<>>
              \/ \A i \in DOMAIN rows : \/ rows[i].scope = NoLabel
                                        \/ OutsideText(rows[i].scope, request.query.standards)
              \/ row.scope # NoLabel
<1> DEFINE scopes == request.query.standards
           at == {i \in DOMAIN rows :
                    rows[i].scope # NoLabel /\ ~OutsideText(rows[i].scope, scopes)}
           some == Picked(rows, at)
<1>1. rows \in Seq(T) /\ DOMAIN rows = 1 .. Len(rows)
  OBVIOUS
<1>2. InScopeRows(rows, scopes) = IF scopes = <<>> THEN rows ELSE some
  BY DEF InScopeRows, Kept, With
<1>3. /\ some \in Seq(T)
      /\ \A k \in 1 .. Len(some) : \E i \in at : some[k] = rows[i]
      /\ \A i \in at : \E k \in 1 .. Len(some) : some[k] = rows[i]
  <2>1. at \in SUBSET DOMAIN rows
    OBVIOUS
  <2> HIDE DEF at
  <2>2. SomeOf(some, rows, at)
    BY <1>1, <2>1, PickedSome
  <2> HIDE DEF some
  <2>3. some \in Seq(T) /\ Len(some) = Cardinality(at)
    BY <1>1, <2>1, <2>2, SomeOfIs
  <2>4. PICK order \in [1 .. Cardinality(at) -> at] :
          /\ \A i \in at : \E k \in 1 .. Cardinality(at) : order[k] = i
          /\ some = [k \in 1 .. Cardinality(at) |-> rows[order[k]]]
    BY <2>2 DEF SomeOf
  <2>5. /\ \A k \in 1 .. Len(some) : \E i \in at : some[k] = rows[i]
        /\ \A i \in at : \E k \in 1 .. Len(some) : some[k] = rows[i]
    BY <2>3, <2>4
  <2> QED BY <2>3, <2>5
<1> HIDE DEF some
<1>4. CASE scopes = <<>>
  <2>1. Scoped(rows) = rows
    BY <1>2, <1>4 DEF Scoped
  <2> QED BY <1>1, <1>4, <2>1 DEF ToSet
<1>5. CASE scopes # <<>> /\ some # <<>>
  <2>1. Scoped(rows) = some
    BY <1>2, <1>5 DEF Scoped
  <2>2. PICK k \in 1 .. Len(some) : row = some[k]
    BY <1>3, <2>1 DEF ToSet
  <2>3. PICK i \in at : row = rows[i]
    BY <1>3, <2>2
  <2> QED BY <1>1, <2>3
<1>6. CASE scopes # <<>> /\ some = <<>>
  <2>1. Scoped(rows) = rows
    BY <1>2, <1>6 DEF Scoped
  <2>2. at = {}
    <3> HIDE DEF at
    <3> QED BY <1>3, <1>6
  <2> QED BY <1>1, <2>1, <2>2 DEF ToSet
<1> QED BY <1>4, <1>5, <1>6

(* All rows of a chat have owners, but those of the graph and the vectors.  *)
LEMMA ForeignRows ==
    ASSUME IInv, request.kind = "router", ~Isolated(RouterRanked(Gathered, request.query.standards)),
           \A row \in ToSet(RowsOf("vector") \o RowsOf("again")) : row.owned
    PROVE  /\ Ids(RowsOf("local")) \union Ids(RowsOf("global")) # {}
           /\ \/ request.query.standards = <<>>
              \/ LET rows == RouterRanked(Gathered, request.query.standards)
                 IN \A i \in DOMAIN rows : \/ rows[i].scope = NoLabel
                                           \/ OutsideText(rows[i].scope, request.query.standards)
<1> DEFINE scopes == request.query.standards
           rows == RouterRanked(Gathered, scopes)
           Mine == {r \in FoundRow : r.owned}
           Either == {r \in FoundRow : r.owned \/ r.scope = NoLabel}
<1>1. request \in Requests
  BY DEF IInv
<1>2. Weighable(Mine) /\ Weighable(Either)
  BY DEF Weighable, Scorable, FoundRow, RowSet
<1>3. RowsOf("vector") \in Seq(Mine) /\ RowsOf("again") \in Seq(Mine)
  <2> DEFINE v == RowsOf("vector")
             a == RowsOf("again")
  <2>1. v \in Seq(FoundRow) /\ a \in Seq(FoundRow)
    BY RowsAre
  <2>2. \A row \in ToSet(v \o a) : row.owned
    OBVIOUS
  <2> HIDE DEF v, a
  <2>3. /\ Len(v \o a) = Len(v) + Len(a)
        /\ \A k \in 1 .. Len(v) : (v \o a)[k] = v[k]
        /\ \A k \in 1 .. Len(a) : (v \o a)[Len(v) + k] = a[k]
        /\ v \o a \in Seq(FoundRow)
    BY <2>1, ConcatIs
  <2>4. Len(v) \in Nat /\ Len(a) \in Nat /\ DOMAIN (v \o a) = 1 .. Len(v \o a)
    BY <2>1, <2>3
  <2>5. \A k \in 1 .. Len(v) : v[k] \in Mine
    <3> TAKE k \in 1 .. Len(v)
    <3>1. k \in DOMAIN (v \o a)
      BY <2>3, <2>4
    <3>2. v[k].owned /\ v[k] \in FoundRow
      <4>1. (v \o a)[k] \in ToSet(v \o a)
        BY <3>1 DEF ToSet
      <4> QED BY <2>1, <2>2, <2>3, <4>1
    <3> QED BY <3>2
  <2>6. \A k \in 1 .. Len(a) : a[k] \in Mine
    <3> TAKE k \in 1 .. Len(a)
    <3>1. Len(v) + k \in DOMAIN (v \o a)
      BY <2>3, <2>4
    <3>2. a[k].owned /\ a[k] \in FoundRow
      <4>1. (v \o a)[Len(v) + k] \in ToSet(v \o a)
        BY <3>1 DEF ToSet
      <4> QED BY <2>1, <2>2, <2>3, <4>1
    <3> QED BY <3>2
  <2> HIDE DEF Mine
  <2>7. v \in Seq(Mine)
    BY <2>1, <2>4, <2>5
  <2>8. a \in Seq(Mine)
    BY <2>1, <2>4, <2>6
  <2> QED BY <2>7, <2>8 DEF v, a
<1>4. RowsOf("summaries") \in Seq(Mine)
  <2>1. RowsFor("summaries") \subseteq Mine
    BY DEF RowsFor
  <2> QED BY <2>1, RowsAre, SeqMonotonic
<1>5. RowsOf("local") \in Seq(Either) /\ RowsOf("global") \in Seq(Either)
  <2>1. RowsFor("local") \subseteq Either /\ RowsFor("global") \subseteq Either
    BY DEF RowsFor
  <2> QED BY <2>1, RowsAre, SeqMonotonic
<1>6. PICK foreign \in ToSet(Scoped(rows)) : ~foreign.owned
  BY DEF Isolated
<1>7. Ids(RowsOf("local")) \union Ids(RowsOf("global")) # {}
  <2> SUFFICES ASSUME Ids(RowsOf("local")) = {}, Ids(RowsOf("global")) = {} PROVE FALSE
    OBVIOUS
  <2>1. \A c \in {"local", "global"} : RowsOf(c) = <<>>
    <3>1. ASSUME NEW s \in Seq(FoundRow), Ids(s) = {} PROVE s = <<>>
      <4>1. 1 \notin 1 .. Len(s)
        BY <3>1 DEF Ids
      <4> QED BY <4>1
    <3> QED BY <3>1, RowsAre
  <2>2. \A c \in RouterCalls : RowsOf(c) \in Seq(Mine)
    <3>1. <<>> \in Seq(Mine)
      OBVIOUS
    <3> HIDE DEF Mine
    <3> QED BY <1>3, <1>4, <2>1, <3>1 DEF RouterCalls
  <2> HIDE DEF Mine
  <2>3. rows \in Seq(Mine)
    BY <1>1, <1>2, <2>2, GatheredIs, RouterRankedKeeps
  <2> HIDE DEF rows
  <2>4. foreign \in Mine
    BY <1>6, <2>3, ScopedIs
  <2> QED BY <1>6, <2>4 DEF Mine
<1>8. \/ scopes = <<>>
      \/ \A i \in DOMAIN rows : rows[i].scope = NoLabel \/ OutsideText(rows[i].scope, scopes)
  <2>1. Mine \subseteq Either
    OBVIOUS
  <2>2. \A c \in RouterCalls : RowsOf(c) \in Seq(Either)
    <3> HIDE DEF Mine, Either
    <3> QED BY <1>3, <1>4, <1>5, <2>1, SeqMonotonic DEF RouterCalls
  <2> HIDE DEF Either
  <2>3. rows \in Seq(Either)
    BY <1>1, <1>2, <2>2, GatheredIs, RouterRankedKeeps
  <2> HIDE DEF rows
  <2>4. foreign \in Either
    BY <1>6, <2>3, ScopedIs
  <2>5. foreign.scope = NoLabel
    BY <1>6, <2>4 DEF Either
  <2> QED BY <1>6, <2>3, <2>5, ScopedIs
<1> QED BY <1>7, <1>8

-----------------------------------------------------------------------------
(* PartialFailureAnswers. Whatever calls fail, a request whose other calls *)
(* found rows answers, but for a multi-query that merged a row without a   *)
(* tenant; the router's chat fails on its second vector search or on a     *)
(* foreign row that only the vectors or the graph can bring.               *)
THEOREM FailuresArePartial == Spec => []PartialFailureAnswers
<1>1. Init => PartialFailureAnswers
  BY DEF Init, PartialFailureAnswers
<1>2. IInv /\ PartialFailureAnswers /\ [Next]_vars => PartialFailureAnswers'
  <2> SUFFICES ASSUME IInv, PartialFailureAnswers, [Next]_vars PROVE PartialFailureAnswers'
    OBVIOUS
  <2>1. CASE phase \in Over
    <3>1. UNCHANGED vars
      BY <2>1, OverStops
    <3> QED BY <3>1 DEF PartialFailureAnswers, RowsOf, vars
  <2>2. CASE phase \notin Over
    <3> SUFFICES ASSUME phase' = "error" PROVE PartialFailureAnswers'
      BY DEF PartialFailureAnswers
    <3>1. \/ \E c \in DOMAIN calls : Fails(c) /\ Uncaught(c)
          \/ Breach \/ MergeMulti \/ MergeChat
      <4>1. phase # phase'
        BY <2>2 DEF Over
      <4> QED BY <4>1
              DEF Next, Step, CallStep, Clarify, Classify, Start, Returns, Drops, Fails, TimesOut,
                  TurnPage, MergePlan, MergeLate, AskVectorsAgain, Done, vars, Reply
    <3>2. ASSUME NEW c \in DOMAIN calls, Fails(c), Uncaught(c) PROVE PartialFailureAnswers'
      <4>1. /\ UNCHANGED request /\ request \in Requests
            /\ calls = [d \in DOMAIN calls |-> calls[d]]
            /\ calls' = [calls EXCEPT ![c].status = "failed"]
        BY <3>2 DEF Fails, IInv
      <4>2. "again" \notin NamesOf(Distinct(request.subs)) \union NamesOf(Branches(request))
        BY <4>1, NamesRun, NamesAndOwners
      <4>3. request.kind \notin {"multi", "parallel", "comprehensive"}
        BY <3>2, <4>2 DEF Uncaught, IInv, FirstCalls
      <4>4. request.kind = "router" => "again" \in DOMAIN calls' /\ calls'["again"].status = "failed"
        <5> SUFFICES ASSUME request.kind = "router"
                     PROVE  "again" \in DOMAIN calls' /\ calls'["again"].status = "failed"
          OBVIOUS
        <5>1. c = "again"
          BY <3>2 DEF Uncaught
        <5>2. calls[c] \in [status : Statuses, rows : Seq(RowsFor(c))]
          BY DEF IInv
        <5> QED BY <4>1, <5>1, <5>2
      <4> QED BY <4>1, <4>3, <4>4 DEF PartialFailureAnswers
    <3>3. CASE Breach
      <4>1. /\ UNCHANGED request /\ "chunks" \in DOMAIN calls
            /\ calls = [d \in DOMAIN calls |-> calls[d]]
            /\ calls' = [calls EXCEPT !["chunks"].status = "breach"]
        BY <3>3 DEF Breach, IInv
      <4>2. request.kind # "router"
        BY <4>1 DEF IInv, RouterCalls
      <4>3. "chunks" \in DOMAIN calls' /\ calls'["chunks"].status = "breach"
        <5>1. calls["chunks"] \in [status : Statuses, rows : Seq(RowsFor("chunks"))]
          BY <4>1 DEF IInv
        <5> QED BY <4>1, <5>1
      <4> QED BY <4>1, <4>2, <4>3 DEF PartialFailureAnswers
    <3>4. CASE MergeMulti
      <4>1. /\ UNCHANGED <<request, calls>> /\ request.kind = "multi"
            /\ Groups = <<>> \/ Foreign(merged')
        BY <3>4 DEF MergeMulti, Reply
      <4>2. CASE Groups = <<>>
        <5>1. \A c \in DOMAIN calls : RowsOf(c) = <<>>
          BY <4>1, <4>2, NoGroups
        <5>2. \A c \in DOMAIN calls' : RowsOf(c)' = <<>>
          BY <4>1, <5>1 DEF RowsOf
        <5> QED BY <4>1, <5>2 DEF PartialFailureAnswers
      <4>3. CASE Foreign(merged')
        BY <4>1, <4>3 DEF PartialFailureAnswers, Foreign
      <4> QED BY <4>1, <4>2, <4>3
    <3>5. CASE MergeChat
      <4>1. /\ UNCHANGED <<request, calls>>
            /\ request.kind \in {"router", "vector"}
            /\ ~Isolated(merged')
        BY <3>5 DEF MergeChat, Reply
      <4> SUFFICES ASSUME request.kind = "router",
                          \A row \in ToSet(RowsOf("vector") \o RowsOf("again")) : row.owned
                   PROVE  PartialFailureAnswers'
        BY <4>1 DEF PartialFailureAnswers, RowsOf
      <4>2. merged' = RouterRanked(Gathered, request.query.standards)
        BY <3>5 DEF MergeChat
      <4>3. /\ Ids(RowsOf("local")) \union Ids(RowsOf("global")) # {}
            /\ \/ request.query.standards = <<>>
               \/ \A i \in DOMAIN merged' :
                    \/ merged'[i].scope = NoLabel
                    \/ OutsideText(merged'[i].scope, request.query.standards)
        BY <4>1, <4>2, ForeignRows
      <4>4. /\ Ids(RowsOf("local"))' = Ids(RowsOf("local"))
            /\ Ids(RowsOf("global"))' = Ids(RowsOf("global"))
        BY <4>1 DEF RowsOf, Ids
      <4> QED BY <4>1, <4>3, <4>4 DEF PartialFailureAnswers
    <3> QED BY <3>1, <3>2, <3>3, <3>4, <3>5
  <2> QED BY <2>1, <2>2
<1> QED BY CallsAreTyped, <1>1, <1>2, PTL DEF Spec

=============================================================================
