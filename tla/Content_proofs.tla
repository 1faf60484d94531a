--------------------------- MODULE Content_proofs ---------------------------
(***************************************************************************)
(* Theorems about KnowledgeGraph and DocumentContent, the two modules of   *)
(* what ingestion writes about the content of a document.                  *)
(*                                                                         *)
(* LevelsAreWhole: a job is said to build while it is in the loop of       *)
(* build_tree. Below says that what it clusters is stored and mirrored     *)
(* whole, and MadeOK how far the level it has just made is; NodesOK says   *)
(* the same of what the children of the stored rows are, and that no       *)
(* identity is used twice, which RunsApart and Ceiling carry from one      *)
(* level to the next.                                                      *)
(*                                                                         *)
(* SummariesReachLeaves: TreeInv adds that what a job clusters spans       *)
(* exactly the leaves below it and lies one level down, so that going down *)
(* from a row, as a recursive function of the depth, has reached the       *)
(* leaves in ResolveDepth levels.                                          *)
(*                                                                         *)
(* ContainmentIsNesting: the stack is a recursive function of the place in *)
(* the contents list, and what was popped since an entry was pushed is no  *)
(* less deep than anything between.                                        *)
(*                                                                         *)
(* The theorems about DocumentContent need ContentInv: what is stored of   *)
(* this attempt and what is still to be stored are, together, all the rows *)
(* of this attempt, each with its own vector. The lemmas before it are     *)
(* about the operators of Chunking, the recursive functions among them:    *)
(* they say what kind of thing is computed, and of Embedded and Assemble   *)
(* what.                                                                   *)
(*                                                                         *)
(* ChunksAreTheText: that a text is copied is said by places, one for each *)
(* block of the copy, that start at the first, end at the last and go on   *)
(* by at most one. Copies of what follow each other are a copy of the      *)
(* whole; so a text is conserved by each way of splitting it. CopyInv says *)
(* it of the chunks of this attempt.                                       *)
(*                                                                         *)
(* ChunksAreOnTheirPage: Starts says that a chunk starts where its first   *)
(* block does, in the text that was split, and every way of splitting      *)
(* keeps it. What is cleaned away only makes a block start earlier, and    *)
(* the windows of the pages ascend, so its page is the same or an earlier  *)
(* one, but for the last page. PageInv says that the rows are filed by the *)
(* starts of the chunks, and that the chunks are the sections of the text. *)
(***************************************************************************)
EXTENDS KnowledgeGraph, DocumentContent, Ranking_proofs, WellFoundedInduction

Building == {"cluster", "summarize", "nodes", "mirror", "edges"}

JobShape ==
    /\ job = [d \in Docs |-> job[d]]
    /\ \A d \in Docs :
         job[d] = [pc |-> job[d].pc, run |-> job[d].run, level |-> job[d].level,
                   current |-> job[d].current, items |-> job[d].items, made |-> job[d].made]

(* Jobs that build have numbers and levels, and the numbers differ. *)
RunsApart ==
    /\ runs \in Nat
    /\ \A d \in Docs : job[d].pc \in Building =>
         /\ job[d].run \in 1 .. runs
         /\ job[d].level \in Nat
         /\ job[d].pc # "cluster" => job[d].level > 0
    /\ \A d, e \in Docs :
         job[d].pc \in Building /\ job[e].pc \in Building /\ job[d].run = job[e].run => d = e

(* A child that is a summary has its entity and that its relations. *)
Whole(c) == c.level > 0 => \E n \in entities : n.id = c /\ Edges(n) \subseteq relations

NodesOK ==
    /\ \A n \in nodes :
         /\ n.id.level \in Nat \ {0}
         /\ n.id.run \in 1 .. runs
         /\ \A c \in n.children : Whole(c)
    /\ \A p, n \in nodes : p.id = n.id => p = n
    /\ entities \subseteq nodes

(* How high the stored levels of a job are. *)
Ceiling(d) ==
    \A n \in nodes : n.id.run = job[d].run =>
      /\ job[d].pc \in {"summarize", "nodes"} => n.id.level < job[d].level
      /\ job[d].pc \in {"cluster", "mirror", "edges"} => n.id.level <= job[d].level

Below(d) ==
    job[d].pc \in {"cluster", "summarize"} =>
      \A i \in DOMAIN job[d].current : Whole(job[d].current[i].id)

MadeOK(d) ==
    LET made == job[d].made IN
    job[d].pc \in {"nodes", "mirror", "edges"} =>
      /\ job[d].current = made
      /\ \A i \in DOMAIN made :
           /\ made[i].id.run = job[d].run
           /\ made[i].id.level = job[d].level
           /\ \A c \in made[i].children : Whole(c)
      /\ \A i, k \in DOMAIN made : made[i].id = made[k].id => made[i] = made[k]
      /\ job[d].pc \in {"mirror", "edges"} => \A i \in DOMAIN made : made[i] \in nodes
      /\ job[d].pc = "edges" => \A i \in DOMAIN made : made[i] \in entities

JobOK(d) == Ceiling(d) /\ Below(d) /\ MadeOK(d)

IInv == JobShape /\ RunsApart /\ NodesOK /\ \A d \in Docs : JobOK(d)

-----------------------------------------------------------------------------
LEMMA InitIInv == Init => IInv
BY DEF Init, IInv, JobShape, RunsApart, NodesOK, JobOK, Ceiling, Below, MadeOK, Idle, Building

LEMMA Implies == IInv => GapsOnlyAtTop
<1> SUFFICES ASSUME IInv, NEW p \in nodes, NEW n \in nodes, n.id \in p.children
             PROVE  n \in entities /\ Edges(n) \subseteq relations
  BY DEF GapsOnlyAtTop
<1>1. n.id.level > 0 /\ Whole(n.id)
  BY DEF IInv, NodesOK
<1>2. PICK m \in entities : m.id = n.id /\ Edges(m) \subseteq relations
  BY <1>1 DEF Whole
<1>3. m = n
  BY <1>2 DEF IInv, NodesOK
<1> QED BY <1>2, <1>3

-----------------------------------------------------------------------------
(* What a step that changes a job alone leaves of the others.              *)

LEMMA GotoFields ==
    ASSUME JobShape, NEW d \in Docs, NEW x, Goto(d, x)
    PROVE  /\ JobShape'
           /\ job'[d] = [pc |-> x, run |-> job[d].run, level |-> job[d].level,
                         current |-> job[d].current, items |-> job[d].items, made |-> job[d].made]
           /\ \A e \in Docs \ {d} : job'[e] = job[e]
<1>1. job' = [e \in Docs |-> IF e = d THEN [job[d] EXCEPT !.pc = x] ELSE job[e]]
  BY DEF Goto, JobShape
<1>2. [job[d] EXCEPT !.pc = x]
        = [pc |-> x, run |-> job[d].run, level |-> job[d].level,
           current |-> job[d].current, items |-> job[d].items, made |-> job[d].made]
  BY DEF JobShape
<1> QED BY <1>1, <1>2 DEF JobShape

LEMMA WholeGrows ==
    ASSUME entities \subseteq entities', relations \subseteq relations', NEW c, Whole(c)
    PROVE  Whole(c)'
BY DEF Whole, Edges

(* The rows that appear carry the number of the job that stores them.      *)
LEMMA OthersKeep ==
    ASSUME IInv, NEW d \in Docs, \A e \in Docs \ {d} : job'[e] = job[e],
           entities \subseteq entities', relations \subseteq relations', nodes \subseteq nodes',
           \A n \in nodes' \ nodes : job[d].pc \in Building /\ n.id.run = job[d].run
    PROVE  \A e \in Docs \ {d} : JobOK(e)'
<1> TAKE e \in Docs \ {d}
<1>1. job'[e] = job[e] /\ JobOK(e)
  BY DEF IInv
<1>2. Ceiling(e)'
  <2> SUFFICES ASSUME NEW n \in nodes', n.id.run = job[e].run,
                      job[e].pc \in {"summarize", "nodes", "cluster", "mirror", "edges"}
               PROVE  /\ job[e].pc \in {"summarize", "nodes"} => n.id.level < job[e].level
                      /\ job[e].pc \in {"cluster", "mirror", "edges"} => n.id.level <= job[e].level
    BY <1>1 DEF Ceiling
  <2>1. n \in nodes
    BY DEF IInv, RunsApart, Building
  <2> QED BY <1>1, <2>1 DEF JobOK, Ceiling
<1>3. Below(e)'
  BY <1>1, WholeGrows DEF JobOK, Below
<1>4. MadeOK(e)'
  <2> SUFFICES ASSUME job[e].pc \in {"nodes", "mirror", "edges"} PROVE MadeOK(e)'
    BY <1>1 DEF MadeOK
  <2>1. \A i \in DOMAIN job[e].made : \A c \in job[e].made[i].children : Whole(c)'
    BY <1>1, WholeGrows DEF JobOK, MadeOK
  <2> QED BY <1>1, <2>1 DEF JobOK, MadeOK
<1> QED BY <1>2, <1>3, <1>4 DEF JobOK

(* A step that leaves the tree alone and takes a job out of its building.  *)
LEMMA LeavesTree ==
    ASSUME IInv, NEW d \in Docs, JobShape', \A e \in Docs \ {d} : job'[e] = job[e],
           job'[d].pc \notin Building, UNCHANGED <<tree, runs>>
    PROVE  IInv'
<1>1. UNCHANGED <<nodes, entities, relations, runs>>
  BY DEF tree
<1>2. \A e \in Docs \ {d} : JobOK(e)'
  BY <1>1, OthersKeep
<1>3. JobOK(d)'
  BY DEF JobOK, Ceiling, Below, MadeOK, Building
<1>4. RunsApart'
  BY <1>1 DEF IInv, RunsApart
<1>5. NodesOK'
  BY <1>1 DEF IInv, NodesOK, Whole
<1> QED BY <1>2, <1>3, <1>4, <1>5 DEF IInv

LEMMA GivesUp ==
    ASSUME IInv, NEW d \in Docs, NEW x, x \notin Building, Goto(d, x), UNCHANGED <<tree, runs>>
    PROVE  IInv'
<1>1. /\ JobShape'
      /\ job'[d] = [pc |-> x, run |-> job[d].run, level |-> job[d].level,
                    current |-> job[d].current, items |-> job[d].items, made |-> job[d].made]
      /\ \A e \in Docs \ {d} : job'[e] = job[e]
  BY GotoFields DEF IInv
<1>2. job'[d].pc \notin Building
  BY <1>1
<1> QED BY <1>1, <1>2, LeavesTree

LEMMA CrashStep ==
    ASSUME IInv, NEW d \in Docs, Crash(d)
    PROVE  IInv'
<1>1. job' = [e \in Docs |-> IF e = d THEN Idle ELSE job[e]]
  BY DEF Crash, IInv, JobShape
<1>2. JobShape'
  BY <1>1 DEF IInv, JobShape, Idle
<1>3. job'[d].pc \notin Building
  BY <1>1 DEF Idle, Building
<1> QED BY <1>1, <1>2, <1>3, LeavesTree DEF Crash

-----------------------------------------------------------------------------
(* The steps of a job that builds.                                         *)

LEMMA StartStep ==
    ASSUME IInv, NEW d \in Docs, StartRun(d)
    PROVE  IInv'
<1> DEFINE pc1 == IF content[d].chunks > MinChunks /\ content[d].vectors > 0
                  THEN "cluster" ELSE "sections"
           leaves == [i \in 1 .. content[d].vectors |-> Leaf(runs + 1, i)]
<1>1. job' = [e \in Docs |->
                 IF e = d THEN [Idle EXCEPT !.pc = pc1, !.run = runs + 1, !.current = leaves]
                                      ELSE job[e]]
  BY DEF StartRun, IInv, JobShape
<1>2. job'[d] = [pc |-> pc1, run |-> runs + 1, level |-> 0, current |-> leaves,
                 items |-> <<>>, made |-> <<>>]
  BY <1>1 DEF Idle
<1>3. /\ \A e \in Docs \ {d} : job'[e] = job[e]
      /\ JobShape'
  BY <1>1, <1>2 DEF IInv, JobShape
<1>4. runs' = runs + 1 /\ UNCHANGED <<nodes, entities, relations>>
  BY DEF StartRun, tree
<1>5. \A e \in Docs \ {d} : JobOK(e)'
  BY <1>3, <1>4, OthersKeep
<1>6. RunsApart'
  <2>1. runs \in Nat /\ runs' \in Nat
    BY <1>4 DEF IInv, RunsApart
  <2>2. job'[d].run = runs + 1 /\ job'[d].level = 0
    BY <1>2
  <2>3. job'[d].pc \in Building => job'[d].pc = "cluster"
    BY <1>2 DEF Building
  <2>4. \A e \in Docs \ {d} : job'[e].pc \in Building => job'[e].run \in 1 .. runs
    BY <1>3 DEF IInv, RunsApart
  <2> QED BY <1>3, <1>4, <2>1, <2>2, <2>3, <2>4 DEF IInv, RunsApart
<1>7. NodesOK'
  BY <1>4 DEF IInv, NodesOK, RunsApart, Whole
<1>8. JobOK(d)'
  <2>1. Ceiling(d)'
    BY <1>2, <1>4 DEF IInv, RunsApart, NodesOK, Ceiling
  <2>2. \A i \in DOMAIN leaves : leaves[i].id.level = 0
    BY DEF Leaf
  <2> HIDE DEF leaves
  <2>3. Below(d)'
    <3>1. \A i \in DOMAIN job'[d].current : job'[d].current[i].id.level = 0
      BY <1>2, <2>2
    <3> QED BY <3>1 DEF Below, Whole
  <2>4. MadeOK(d)'
    <3>1. job'[d].pc \notin {"nodes", "mirror", "edges"}
      BY <1>2
    <3> QED BY <3>1 DEF MadeOK
  <2> QED BY <2>1, <2>3, <2>4 DEF JobOK
<1> QED BY <1>3, <1>5, <1>6, <1>7, <1>8 DEF IInv

LEMMA ClusterStep ==
    ASSUME IInv, NEW d \in Docs, Cluster(d)
    PROVE  IInv'
<1>1. job[d].pc = "cluster" /\ UNCHANGED <<nodes, entities, relations, runs>>
  BY DEF Cluster, At, tree
<1>2. CASE Goto(d, "backfill") \/ Goto(d, "sections")
  BY <1>1, <1>2, GivesUp DEF Building, tree
<1>3. CASE \E c \in Clusters(Len(job[d].current)) :
              job' = [job EXCEPT ![d].pc = IF Len(c) <= 1 THEN "backfill" ELSE "summarize",
                                 ![d].level = @ + 1, ![d].items = c]
  <2>1. PICK c : job' = [job EXCEPT ![d].pc = IF Len(c) <= 1 THEN "backfill" ELSE "summarize",
                                    ![d].level = @ + 1, ![d].items = c]
    BY <1>3
  <2> DEFINE pc1 == IF Len(c) <= 1 THEN "backfill" ELSE "summarize"
  <2>2. job'[d] = [pc |-> pc1, run |-> job[d].run, level |-> job[d].level + 1,
                   current |-> job[d].current, items |-> c, made |-> job[d].made]
    <3>1. job'[d] = [job[d] EXCEPT !.pc = pc1, !.level = @ + 1, !.items = c]
      BY <2>1 DEF IInv, JobShape
    <3> QED BY <3>1 DEF IInv, JobShape
  <2>3. \A e \in Docs \ {d} : job'[e] = job[e]
    BY <2>1 DEF IInv, JobShape
  <2>4. JobShape'
    BY <2>1, <2>2, <2>3 DEF IInv, JobShape
  <2>5. \A e \in Docs \ {d} : JobOK(e)'
    BY <1>1, <2>3, OthersKeep
  <2>6. job[d].level \in Nat /\ job[d].run \in 1 .. runs
    BY <1>1 DEF IInv, RunsApart, Building
  <2>7. RunsApart'
    <3>1. /\ job'[d].run = job[d].run /\ runs' = runs
          /\ job'[d].level \in Nat /\ job'[d].level > 0
      BY <1>1, <2>2, <2>6
    <3>2. job[d].pc \in Building
      BY <1>1 DEF Building
    <3> QED BY <3>1, <3>2, <2>3 DEF IInv, RunsApart
  <2>8. NodesOK'
    BY <1>1 DEF IInv, NodesOK, Whole
  <2>9. Ceiling(d)'
    <3>1. \A n \in nodes : n.id.run = job[d].run => n.id.level < job[d].level + 1
      BY <1>1, <2>6 DEF IInv, JobOK, Ceiling, NodesOK
    <3> QED BY <1>1, <2>2, <3>1 DEF Ceiling
  <2>10. Below(d)'
    BY <1>1, <2>2 DEF IInv, JobOK, Below, Whole
  <2>11. MadeOK(d)'
    <3>1. job'[d].pc \notin {"nodes", "mirror", "edges"}
      BY <2>2
    <3> QED BY <3>1 DEF MadeOK
  <2> QED BY <2>4, <2>5, <2>7, <2>8, <2>9, <2>10, <2>11 DEF IInv, JobOK
<1> QED BY <1>2, <1>3, ZenonT(30) DEF Cluster

LEMMA SummarizeStep ==
    ASSUME IInv, NEW d \in Docs, Summarize(d)
    PROVE  IInv'
<1> DEFINE j == job[d]
<1>1. j.pc = "summarize"
  BY Zenon DEF Summarize, At
<1>2. CASE Swallow(d)
  BY <1>2, GivesUp DEF Swallow, Building
<1>3. CASE \E title \in Answers(Len(j.items)) :
             LET made == Summarized(j, title)
             IN /\ job' = [job EXCEPT ![d].made = made, ![d].current = made, ![d].items = <<>>,
                                      ![d].pc = IF made = <<>> THEN "cluster" ELSE "nodes"]
                /\ UNCHANGED <<content, runs, tree, structure>>
  <2>1. PICK title :
          LET made == Summarized(j, title)
          IN /\ job' = [job EXCEPT ![d].made = made, ![d].current = made, ![d].items = <<>>,
                                   ![d].pc = IF made = <<>> THEN "cluster" ELSE "nodes"]
             /\ UNCHANGED <<content, runs, tree, structure>>
    BY <1>3
  <2> DEFINE made == Summarized(j, title)
             pc1  == IF made = <<>> THEN "cluster" ELSE "nodes"
  <2>a. job' = [job EXCEPT ![d].made = made, ![d].current = made, ![d].items = <<>>, ![d].pc = pc1]
    BY <2>1
  <2>b. PICK done : made = [k \in DOMAIN done |-> Summary(j, done[k], title[done[k]])]
    BY DEF Summarized
  <2> HIDE DEF made
  <2>2. \A k \in DOMAIN made :
          /\ made[k].id.run = j.run
          /\ made[k].id.level = j.level
          /\ made[k].id.n = done[k]
          /\ \A c \in made[k].children :
               \E i \in DOMAIN j.current : c = j.current[i].id
    BY <2>b DEF Summary
  <2>3. \A i, k \in DOMAIN made : made[i].id = made[k].id => made[i] = made[k]
    <3> SUFFICES ASSUME NEW i \in DOMAIN made, NEW k \in DOMAIN made, made[i].id = made[k].id
                 PROVE  made[i] = made[k]
      OBVIOUS
    <3>1. done[i] = done[k]
      BY <2>2
    <3> QED BY <2>b, <3>1
  <2>4. \A k \in DOMAIN made : \A c \in made[k].children : Whole(c)
    BY <1>1, <2>2 DEF IInv, JobOK, Below
  <2>5. job'[d] = [pc |-> pc1, run |-> j.run, level |-> j.level, current |-> made,
                   items |-> <<>>, made |-> made]
    <3>1. job'[d] = [job[d] EXCEPT !.made = made, !.current = made, !.items = <<>>, !.pc = pc1]
      BY <2>a DEF IInv, JobShape
    <3> QED BY <3>1 DEF IInv, JobShape
  <2>6. UNCHANGED <<nodes, entities, relations, runs>>
    BY <2>1 DEF tree
  <2>7. \A e \in Docs \ {d} : job'[e] = job[e]
    BY <2>a DEF IInv, JobShape
  <2>8. JobShape'
    BY <2>a, <2>5, <2>7 DEF IInv, JobShape
  <2>9. \A e \in Docs \ {d} : JobOK(e)'
    BY <2>6, <2>7, OthersKeep
  <2>10. j.level \in Nat /\ j.level > 0 /\ j.run \in 1 .. runs
    BY <1>1 DEF IInv, RunsApart, Building
  <2>11. RunsApart'
    BY <1>1, <2>5, <2>6, <2>7, <2>10 DEF IInv, RunsApart, Building
  <2>12. NodesOK'
    BY <2>6 DEF IInv, NodesOK, Whole
  <2>13. Ceiling(d)'
    <3>1. \A n \in nodes : n.id.run = j.run => n.id.level < j.level /\ n.id.level <= j.level
      BY <1>1, <2>10 DEF IInv, JobOK, Ceiling, NodesOK
    <3> QED BY <2>5, <2>6, <3>1 DEF Ceiling
  <2>14. Below(d)'
    BY <2>5 DEF Below
  <2>15. MadeOK(d)'
    <3>1. \A c : Whole(c) => Whole(c)'
      BY <2>6 DEF Whole
    <3>2. job'[d].pc \in {"cluster", "nodes"} /\ job'[d].made = made /\ job'[d].current = made
      BY <2>5
    <3>3. job'[d].run = j.run /\ job'[d].level = j.level
      BY <2>5
    <3> QED BY <2>2, <2>3, <2>4, <3>1, <3>2, <3>3 DEF MadeOK
  <2> QED BY <2>8, <2>9, <2>11, <2>12, <2>13, <2>14, <2>15 DEF IInv, JobOK
<1> QED BY <1>2, <1>3, Zenon DEF Summarize

(* The three statements of a level: the job goes to the next one.          *)
LEMMA LevelStored ==
    ASSUME IInv, NEW d \in Docs, NEW x \in {"mirror", "edges", "cluster"}, Goto(d, x),
           job[d].pc \in {"nodes", "mirror", "edges"},
           x = "mirror" <=> job[d].pc = "nodes",
           x = "edges" <=> job[d].pc = "mirror",
           x = "cluster" <=> job[d].pc = "edges",
           runs' = runs,
           nodes' = IF x = "mirror" THEN nodes \union Range(job[d].made) ELSE nodes,
           entities' = IF x = "edges" THEN entities \union Range(job[d].made) ELSE entities,
           relations' = IF x = "cluster"
                        THEN relations \union UNION {Edges(s) : s \in Range(job[d].made)}
                        ELSE relations
    PROVE  IInv'
<1> DEFINE made == job[d].made
<1>1. /\ JobShape'
      /\ job'[d] = [pc |-> x, run |-> job[d].run, level |-> job[d].level,
                    current |-> job[d].current, items |-> job[d].items, made |-> made]
      /\ \A e \in Docs \ {d} : job'[e] = job[e]
  BY GotoFields DEF IInv
<1>2. /\ job'[d].pc = x /\ job'[d].run = job[d].run /\ job'[d].level = job[d].level
      /\ job'[d].current = made /\ job'[d].made = made
  BY <1>1 DEF IInv, JobOK, MadeOK
<1>3. /\ \A i \in DOMAIN made :
           /\ made[i].id.run = job[d].run
           /\ made[i].id.level = job[d].level
           /\ \A c \in made[i].children : Whole(c)
      /\ \A i, k \in DOMAIN made : made[i].id = made[k].id => made[i] = made[k]
      /\ x \in {"edges", "cluster"} => \A i \in DOMAIN made : made[i] \in nodes
      /\ x = "cluster" => \A i \in DOMAIN made : made[i] \in entities
  BY DEF IInv, JobOK, MadeOK
<1>4. job[d].level \in Nat /\ job[d].level > 0 /\ job[d].run \in 1 .. runs /\ runs \in Nat
  BY DEF IInv, RunsApart, Building
<1>5. /\ entities \subseteq entities' /\ relations \subseteq relations' /\ nodes \subseteq nodes'
      /\ \A n \in nodes' \ nodes : \E i \in DOMAIN made : x = "mirror" /\ n = made[i]
      /\ \A n \in entities' \ entities : \E i \in DOMAIN made : x = "edges" /\ n = made[i]
  BY DEF Range
<1>6. \A n \in nodes' \ nodes : n.id.run = job[d].run /\ n.id.level = job[d].level
  BY <1>3, <1>5
<1>7. \A e \in Docs \ {d} : JobOK(e)'
  BY <1>1, <1>5, <1>6, OthersKeep DEF Building
<1>8. RunsApart'
  BY <1>1, <1>2, <1>4 DEF IInv, RunsApart, Building
<1>9. \A i \in DOMAIN made : \A c \in made[i].children : Whole(c)'
  BY <1>3, <1>5, WholeGrows
<1>10. NodesOK'
  <2>1. ASSUME NEW n \in nodes'
        PROVE  /\ n.id.level \in Nat \ {0}
               /\ n.id.run \in 1 .. runs
               /\ \A c \in n.children : Whole(c)'
    <3>1. CASE n \in nodes
      BY <1>5, <3>1, WholeGrows DEF IInv, NodesOK
    <3>2. CASE n \notin nodes
      BY <1>4, <1>5, <1>6, <1>9, <3>2
    <3> QED BY <3>1, <3>2
  <2>2. x = "mirror" => \A n \in nodes : n.id.run = job[d].run => n.id.level < job[d].level
    BY DEF IInv, JobOK, Ceiling
  <2>3. ASSUME NEW p \in nodes', NEW n \in nodes', p.id = n.id
        PROVE  p = n
    <3>1. CASE p \in nodes /\ n \in nodes
      BY <2>3, <3>1 DEF IInv, NodesOK
    <3>2. CASE p \notin nodes /\ n \notin nodes
      BY <1>3, <1>5, <2>3, <3>2
    <3>3. ASSUME NEW a \in nodes, NEW b \in nodes' \ nodes, a.id = b.id PROVE FALSE
      <4>1. a.id.run = job[d].run /\ a.id.level = job[d].level /\ x = "mirror"
        BY <1>5, <1>6, <3>3
      <4>2. a.id.level < job[d].level
        BY <2>2, <4>1
      <4> QED BY <1>4, <4>1, <4>2
    <3> QED BY <2>3, <3>1, <3>2, <3>3
  <2>4. entities' \subseteq nodes'
    BY <1>3, <1>5 DEF IInv, NodesOK
  <2> QED BY <2>1, <2>3, <2>4 DEF NodesOK
<1>11. Ceiling(d)'
  <2> SUFFICES ASSUME NEW n \in nodes', n.id.run = job[d].run PROVE n.id.level <= job[d].level
    BY <1>2 DEF Ceiling
  <2>1. CASE n \notin nodes
    BY <1>4, <1>6, <2>1
  <2>2. CASE n \in nodes
    <3>1. n.id.level \in Nat
      BY <2>2 DEF IInv, NodesOK
    <3> QED BY <1>4, <2>2, <3>1 DEF IInv, JobOK, Ceiling
  <2> QED BY <2>1, <2>2
<1>12. Below(d)'
  <2> SUFFICES ASSUME x = "cluster" PROVE \A i \in DOMAIN made : Whole(made[i].id)'
    BY <1>2 DEF Below
  <2>1. ASSUME NEW i \in DOMAIN made
        PROVE  made[i] \in entities' /\ Edges(made[i]) \subseteq relations'
    <3>1. made[i] \in Range(made)
      BY DEF Range
    <3> QED BY <1>3, <1>5, <3>1
  <2>2. ASSUME NEW i \in DOMAIN made, NEW c, c = made[i].id PROVE Whole(c)'
    BY <2>1, <2>2 DEF Whole, Edges
  <2> QED BY <1>2, <2>2
<1>13. MadeOK(d)'
  <2>1. x \in {"mirror", "edges"} => \A i \in DOMAIN made : made[i] \in nodes'
    BY <1>3, <1>5 DEF Range
  <2>2. x = "edges" => \A i \in DOMAIN made : made[i] \in entities'
    BY DEF Range
  <2> QED BY <1>2, <1>3, <1>9, <2>1, <2>2 DEF MadeOK
<1> QED BY <1>1, <1>7, <1>8, <1>10, <1>11, <1>12, <1>13 DEF IInv, JobOK

LEMMA LevelStep ==
    ASSUME IInv, NEW d \in Docs, SaveNodes(d) \/ MirrorEntities(d) \/ MirrorRelations(d)
    PROVE  IInv'
<1>1. CASE SaveFails(d)
  BY <1>1, GivesUp DEF SaveFails, Swallow, Building
<1>2. CASE /\ At(d, "nodes") /\ Goto(d, "mirror")
           /\ nodes' = nodes \union Range(job[d].made)
           /\ UNCHANGED <<content, runs, entities, relations, structure>>
  BY <1>2, LevelStored DEF At
<1>3. CASE /\ At(d, "mirror") /\ Goto(d, "edges")
           /\ entities' = entities \union Range(job[d].made)
           /\ UNCHANGED <<content, runs, nodes, relations, structure>>
  BY <1>3, LevelStored DEF At
<1>4. CASE /\ At(d, "edges") /\ Goto(d, "cluster")
           /\ relations' = relations \union UNION {Edges(s) : s \in Range(job[d].made)}
           /\ UNCHANGED <<content, runs, nodes, entities, structure>>
  BY <1>4, LevelStored DEF At
<1> QED BY <1>1, <1>2, <1>3, <1>4 DEF SaveNodes, MirrorEntities, MirrorRelations

LEMMA GraphStep ==
    ASSUME IInv, NEW d \in Docs,
           \/ Backfill(d) \/ UpsertSections(d) \/ UpsertContainment(d) \/ Extract(d) \/ LinkChunks(d)
    PROVE  IInv'
<1>1. /\ UNCHANGED <<tree, runs>>
      /\ \E x \in {"sections", "containment", "extract", "link", "idle"} : Goto(d, x)
  BY DEF Backfill, UpsertSections, UpsertContainment, Extract, LinkChunks
<1> QED BY <1>1, GivesUp DEF Building

LEMMA StepIInv == IInv /\ [Next]_vars => IInv'
<1> SUFFICES ASSUME IInv, [Next]_vars PROVE IInv'
  OBVIOUS
<1>1. CASE UNCHANGED vars
  BY <1>1 DEF vars, IInv, JobShape, RunsApart, NodesOK, JobOK, Ceiling, Below, MadeOK, Whole
<1>2. ASSUME NEW d \in Docs, StartRun(d) \/ Work(d) \/ Crash(d) PROVE IInv'
  BY <1>2, StartStep, ClusterStep, SummarizeStep, LevelStep, GraphStep, CrashStep DEF Work
<1> QED BY <1>1, <1>2 DEF Next

(* Summaries without an entity or without its relations are left in the    *)
(* last level a job stored only, whichever statement fails and whenever a  *)
(* worker dies: save_summary_nodes comes before the next level is begun.   *)
THEOREM LevelsAreWhole == Spec => []GapsOnlyAtTop
<1>1. Init => IInv
  BY InitIInv
<1>2. IInv /\ [Next]_vars => IInv'
  BY StepIInv
<1>3. IInv => GapsOnlyAtTop
  BY Implies
<1> QED BY <1>1, <1>2, <1>3, PTL DEF Spec

-----------------------------------------------------------------------------
(* Summaries span what is below them: how a row, stored or about to be,    *)
(* stands to its children, and to the leaves it was made from.             *)

Spans(n, stored) ==
    /\ n.id.level \in 1 .. MaxDepth
    /\ \A c \in n.children :
         /\ c.level \in Nat /\ c.level + 1 = n.id.level
         /\ c.level = 0 => c \in n.leaves
         /\ c.level > 0 => \E m \in stored : m.id = c /\ m.leaves \subseteq n.leaves
    /\ \A x \in n.leaves :
         /\ x.level = 0
         /\ x \in n.children \/ \E m \in stored : m.id \in n.children /\ x \in m.leaves

(* What a job clusters: its own leaves, or rows that are stored. *)
Base(c, stored) ==
    /\ c.id.level = 0 => c.leaves = {c.id}
    /\ c.id.level > 0 => c \in stored

Climbing(d) ==
    /\ job[d].pc \in Building => job[d].level <= MaxDepth
    /\ job[d].pc \in {"cluster", "summarize"} =>
         \A i \in DOMAIN job[d].current :
            /\ Base(job[d].current[i], nodes)
            /\ job[d].current[i].id.level \in Nat
            /\ job[d].pc = "cluster" => job[d].current[i].id.level = job[d].level
            /\ job[d].pc = "summarize" => job[d].current[i].id.level + 1 = job[d].level
    /\ job[d].pc \in {"nodes", "mirror", "edges"} =>
         \A i \in DOMAIN job[d].made : Spans(job[d].made[i], nodes)

TreeInv ==
    /\ IInv
    /\ \A n \in nodes : Spans(n, nodes)
    /\ \A d \in Docs : Climbing(d)

LEMMA InitTree == Init => TreeInv
<1> SUFFICES ASSUME Init PROVE TreeInv
  OBVIOUS
<1>1. nodes = {} /\ \A d \in Docs : job[d].pc = "idle"
  BY DEF Init, Idle
<1> QED BY <1>1, InitIInv DEF TreeInv, Climbing, Building

LEMMA SpansGrows ==
    ASSUME NEW stored, NEW more, stored \subseteq more, NEW n, Spans(n, stored)
    PROVE  Spans(n, more)
BY DEF Spans

LEMMA ClimbingGrows ==
    ASSUME nodes \subseteq nodes', NEW d \in Docs, Climbing(d), job'[d] = job[d]
    PROVE  Climbing(d)'
<1>1. \A c : Base(c, nodes) => Base(c, nodes')
  BY DEF Base
<1>2. \A n : Spans(n, nodes) => Spans(n, nodes')
  BY SpansGrows
<1> QED BY <1>1, <1>2 DEF Climbing

(* A step that stores no rows and takes a job of its building or leaves it. *)
LEMMA NoNewRows ==
    ASSUME TreeInv, NEW d \in Docs, IInv', \A e \in Docs \ {d} : job'[e] = job[e],
           nodes' = nodes, Climbing(d)'
    PROVE  TreeInv'
<1>1. \A n \in nodes' : Spans(n, nodes')
  BY DEF TreeInv
<1>2. \A e \in Docs \ {d} : Climbing(e)'
  BY ClimbingGrows DEF TreeInv
<1> QED BY <1>1, <1>2 DEF TreeInv

LEMMA StepsDown ==
    ASSUME TreeInv, NEW d \in Docs, IInv', \A e \in Docs \ {d} : job'[e] = job[e],
           nodes' = nodes, job'[d].pc \notin Building
    PROVE  TreeInv'
<1>1. Climbing(d)'
  BY DEF Climbing, Building
<1> QED BY <1>1, NoNewRows

LEMMA GivesUpTree ==
    ASSUME TreeInv, NEW d \in Docs, IInv', NEW x, x \notin Building, Goto(d, x), nodes' = nodes
    PROVE  TreeInv'
<1>1. JobShape
  BY DEF TreeInv, IInv
<1>2. /\ job'[d] = [pc |-> x, run |-> job[d].run, level |-> job[d].level,
                    current |-> job[d].current, items |-> job[d].items, made |-> job[d].made]
      /\ \A e \in Docs \ {d} : job'[e] = job[e]
  BY <1>1, GotoFields
<1>3. job'[d].pc = x
  BY <1>2
<1> QED BY <1>2, <1>3, StepsDown

LEMMA StartTree ==
    ASSUME TreeInv, NEW d \in Docs, IInv', StartRun(d)
    PROVE  TreeInv'
<1> DEFINE pc1 == IF content[d].chunks > MinChunks /\ content[d].vectors > 0
                  THEN "cluster" ELSE "sections"
           leaves == [i \in 1 .. content[d].vectors |-> Leaf(runs + 1, i)]
<1>1. job' = [e \in Docs |->
                 IF e = d THEN [Idle EXCEPT !.pc = pc1, !.run = runs + 1, !.current = leaves]
                                      ELSE job[e]]
  BY DEF StartRun, TreeInv, IInv, JobShape
<1>2. job'[d] = [pc |-> pc1, run |-> runs + 1, level |-> 0, current |-> leaves,
                 items |-> <<>>, made |-> <<>>]
  BY <1>1 DEF Idle
<1>3. \A e \in Docs \ {d} : job'[e] = job[e]
  BY <1>1
<1>4. nodes' = nodes
  BY DEF StartRun, tree
<1>5. \A i \in DOMAIN leaves : leaves[i].id.level = 0 /\ leaves[i].leaves = {leaves[i].id}
  BY DEF Leaf
<1> HIDE DEF leaves
<1>6. /\ job'[d].pc \in {"cluster", "sections"} /\ job'[d].level = 0
      /\ job'[d].current = leaves
  BY <1>2
<1>7. Climbing(d)'
  <2>1. job'[d].level <= MaxDepth /\ job'[d].level \in Nat
    BY <1>6, GraphAssumption
  <2>2. \A i \in DOMAIN job'[d].current : /\ Base(job'[d].current[i], nodes')
                                         /\ job'[d].current[i].id.level = 0
    <3>1. \A i \in DOMAIN leaves : Base(leaves[i], nodes')
      BY <1>5 DEF Base
    <3> QED BY <1>5, <1>6, <3>1
  <2> QED BY <1>6, <2>1, <2>2 DEF Climbing
<1> QED BY <1>3, <1>4, <1>7, NoNewRows

LEMMA ClusterTree ==
    ASSUME TreeInv, NEW d \in Docs, IInv', Cluster(d)
    PROVE  TreeInv'
<1>1. job[d].pc = "cluster" /\ nodes' = nodes
  BY DEF Cluster, At, tree
<1>2. CASE Goto(d, "backfill") \/ Goto(d, "sections")
  BY <1>1, <1>2, GivesUpTree DEF Building
<1>3. CASE /\ job[d].level + 1 <= MaxDepth
           /\ \E c \in Clusters(Len(job[d].current)) :
                 job' = [job EXCEPT ![d].pc = IF Len(c) <= 1 THEN "backfill" ELSE "summarize",
                                    ![d].level = @ + 1, ![d].items = c]
  <2>1. PICK c : job' = [job EXCEPT ![d].pc = IF Len(c) <= 1 THEN "backfill" ELSE "summarize",
                                    ![d].level = @ + 1, ![d].items = c]
    BY <1>3
  <2> DEFINE pc1 == IF Len(c) <= 1 THEN "backfill" ELSE "summarize"
  <2>2. job'[d] = [pc |-> pc1, run |-> job[d].run, level |-> job[d].level + 1,
                   current |-> job[d].current, items |-> c, made |-> job[d].made]
    <3>1. job'[d] = [job[d] EXCEPT !.pc = pc1, !.level = @ + 1, !.items = c]
      BY <2>1 DEF TreeInv, IInv, JobShape
    <3> QED BY <3>1 DEF TreeInv, IInv, JobShape
  <2>3. \A e \in Docs \ {d} : job'[e] = job[e]
    BY <2>1 DEF TreeInv, IInv, JobShape
  <2>4. /\ job'[d].pc \in {"backfill", "summarize"}
        /\ job'[d].level = job[d].level + 1 /\ job'[d].current = job[d].current
    BY <2>2
  <2>5. \A i \in DOMAIN job[d].current :
           /\ Base(job[d].current[i], nodes)
           /\ job[d].current[i].id.level \in Nat
           /\ job[d].current[i].id.level = job[d].level
    BY <1>1 DEF TreeInv, Climbing
  <2>6. Climbing(d)'
    BY <1>1, <1>3, <2>4, <2>5 DEF Climbing
  <2> QED BY <1>1, <2>3, <2>6, NoNewRows
<1> QED BY <1>2, <1>3, ZenonT(30) DEF Cluster

(* A summary spans what its cluster holds. *)
LEMMA SummarySpans ==
    ASSUME TreeInv, NEW d \in Docs, job[d].pc = "summarize", NEW k, NEW title
    PROVE  Spans(Summary(job[d], k, title), nodes)
<1> DEFINE j == job[d]
           cluster == {j.current[i] : i \in j.items[k] \cap DOMAIN j.current}
           n == Summary(j, k, title)
<1>1. /\ n.id.level = j.level
      /\ n.children = {c.id : c \in cluster}
      /\ n.leaves = UNION {c.leaves : c \in cluster}
  BY DEF Summary
<1>2. /\ j.level \in Nat /\ j.level > 0 /\ j.level <= MaxDepth
  BY DEF TreeInv, IInv, RunsApart, Climbing, Building
<1>3. \A c \in cluster :
         /\ c.id.level \in Nat /\ c.id.level + 1 = j.level
         /\ c.id.level = 0 => c.leaves = {c.id}
         /\ c.id.level > 0 => c \in nodes /\ Spans(c, nodes)
  BY DEF TreeInv, Climbing, Base
<1> HIDE DEF cluster, n, j
<1>4. \A c \in cluster : c.leaves \subseteq n.leaves /\ c.id \in n.children
  BY <1>1
<1>5. n.id.level \in 1 .. MaxDepth
  BY <1>1, <1>2, GraphAssumption
<1>6. ASSUME NEW c \in n.children
      PROVE  /\ c.level \in Nat /\ c.level + 1 = n.id.level
             /\ c.level = 0 => c \in n.leaves
             /\ c.level > 0 => \E m \in nodes : m.id = c /\ m.leaves \subseteq n.leaves
  BY <1>1, <1>3, <1>4
<1>7. ASSUME NEW x \in n.leaves
      PROVE  /\ x.level = 0
             /\ x \in n.children \/ \E m \in nodes : m.id \in n.children /\ x \in m.leaves
  <2>1. PICK c \in cluster : x \in c.leaves
    BY <1>1
  <2>2. CASE c.id.level = 0
    BY <1>3, <1>4, <2>1, <2>2
  <2>3. CASE c.id.level > 0
    BY <1>3, <1>4, <2>1, <2>3 DEF Spans
  <2> QED BY <1>3, <2>2, <2>3
<1>8. Spans(n, nodes)
  BY <1>5, <1>6, <1>7, Zenon DEF Spans
<1> QED BY <1>8 DEF n, j

LEMMA SummarizeTree ==
    ASSUME TreeInv, NEW d \in Docs, IInv', Summarize(d)
    PROVE  TreeInv'
<1> DEFINE j == job[d]
<1>1. j.pc = "summarize"
  BY Zenon DEF Summarize, At
<1>2. CASE Swallow(d)
  BY <1>2, GivesUpTree DEF Swallow, Building, tree
<1>3. CASE \E title \in Answers(Len(j.items)) :
             LET made == Summarized(j, title)
             IN /\ job' = [job EXCEPT ![d].made = made, ![d].current = made, ![d].items = <<>>,
                                      ![d].pc = IF made = <<>> THEN "cluster" ELSE "nodes"]
                /\ UNCHANGED <<content, runs, tree, structure>>
  <2>1. PICK title :
          LET made == Summarized(j, title)
          IN /\ job' = [job EXCEPT ![d].made = made, ![d].current = made, ![d].items = <<>>,
                                   ![d].pc = IF made = <<>> THEN "cluster" ELSE "nodes"]
             /\ UNCHANGED <<content, runs, tree, structure>>
    BY <1>3
  <2> DEFINE made == Summarized(j, title)
             pc1  == IF made = <<>> THEN "cluster" ELSE "nodes"
  <2>2. job' = [job EXCEPT ![d].made = made, ![d].current = made, ![d].items = <<>>, ![d].pc = pc1]
    BY <2>1
  <2>3. PICK done : made = [k \in DOMAIN done |-> Summary(j, done[k], title[done[k]])]
    BY DEF Summarized
  <2>4. nodes' = nodes
    BY <2>1 DEF tree
  <2> HIDE DEF made
  <2>5. \A k \in DOMAIN made : Spans(made[k], nodes)
    BY <1>1, <2>3, SummarySpans
  <2>6. job'[d] = [pc |-> pc1, run |-> j.run, level |-> j.level, current |-> made,
                   items |-> <<>>, made |-> made]
    <3>1. job'[d] = [job[d] EXCEPT !.made = made, !.current = made, !.items = <<>>, !.pc = pc1]
      BY <2>2 DEF TreeInv, IInv, JobShape
    <3> QED BY <3>1 DEF TreeInv, IInv, JobShape
  <2>7. \A e \in Docs \ {d} : job'[e] = job[e]
    BY <2>2 DEF TreeInv, IInv, JobShape
  <2>8. j.level <= MaxDepth
    BY <1>1 DEF TreeInv, Climbing, Building
  <2>9. Climbing(d)'
    <3>1. job'[d].level <= MaxDepth /\ job'[d].current = made /\ job'[d].made = made
      BY <2>6, <2>8
    <3>2. CASE made = <<>>
      <4>1. job'[d].pc = "cluster" /\ DOMAIN job'[d].current = {}
        BY <2>6, <3>2
      <4> QED BY <3>1, <4>1 DEF Climbing
    <3>3. CASE made # <<>>
      <4>1. job'[d].pc = "nodes"
        BY <2>6, <3>3
      <4>2. \A k \in DOMAIN job'[d].made : Spans(job'[d].made[k], nodes')
        BY <2>4, <2>5, <3>1
      <4> QED BY <3>1, <4>1, <4>2 DEF Climbing
    <3> QED BY <3>2, <3>3
  <2> QED BY <2>4, <2>7, <2>9, NoNewRows
<1> QED BY <1>2, <1>3, Zenon DEF Summarize

LEMMA SaveTree ==
    ASSUME TreeInv, NEW d \in Docs, IInv', NEW x \in {"mirror", "edges", "cluster"}, Goto(d, x),
           job[d].pc \in {"nodes", "mirror", "edges"},
           x = "mirror" <=> job[d].pc = "nodes",
           nodes' = IF x = "mirror" THEN nodes \union Range(job[d].made) ELSE nodes
    PROVE  TreeInv'
<1> DEFINE made == job[d].made
<1>1. JobShape
  BY DEF TreeInv, IInv
<1>2. /\ job'[d] = [pc |-> x, run |-> job[d].run, level |-> job[d].level,
                    current |-> job[d].current, items |-> job[d].items, made |-> made]
      /\ \A e \in Docs \ {d} : job'[e] = job[e]
  BY <1>1, GotoFields
<1>3. /\ job'[d].pc = x /\ job'[d].level = job[d].level
      /\ job'[d].current = made /\ job'[d].made = made
  BY <1>2 DEF TreeInv, IInv, JobOK, MadeOK
<1>4. \A i \in DOMAIN made :
         /\ Spans(made[i], nodes)
         /\ made[i].id.level = job[d].level
         /\ x # "mirror" => made[i] \in nodes
  BY DEF TreeInv, Climbing, IInv, JobOK, MadeOK
<1>5. job[d].level \in Nat /\ job[d].level > 0 /\ job[d].level <= MaxDepth
  BY DEF TreeInv, IInv, RunsApart, Climbing, Building
<1>6. /\ nodes \subseteq nodes'
      /\ \A n \in nodes' \ nodes : \E i \in DOMAIN made : n = made[i]
  BY DEF Range
<1>7. \A n \in nodes' : Spans(n, nodes')
  <2> TAKE n \in nodes'
  <2>1. Spans(n, nodes)
    BY <1>4, <1>6 DEF TreeInv
  <2> QED BY <1>6, <2>1, SpansGrows
<1>8. \A e \in Docs \ {d} : Climbing(e)'
  BY <1>2, <1>6, ClimbingGrows DEF TreeInv
<1>9. Climbing(d)'
  <2>1. \A i \in DOMAIN made : Spans(made[i], nodes')
    BY <1>4, <1>6, SpansGrows
  <2>2. ASSUME x = "cluster", NEW i \in DOMAIN made
        PROVE  /\ Base(made[i], nodes')
               /\ made[i].id.level \in Nat /\ made[i].id.level = job[d].level
    BY <1>4, <1>5, <1>6, <2>2 DEF Base
  <2> HIDE DEF made
  <2> QED BY <1>3, <1>5, <2>1, <2>2 DEF Climbing
<1> QED BY <1>7, <1>8, <1>9 DEF TreeInv

LEMMA StepTree == TreeInv /\ [Next]_vars => TreeInv'
<1> SUFFICES ASSUME TreeInv, [Next]_vars PROVE TreeInv'
  OBVIOUS
<1>1. IInv'
  BY StepIInv DEF TreeInv
<1>2. CASE UNCHANGED vars
  BY <1>1, <1>2 DEF vars, TreeInv, Climbing
<1>3. ASSUME NEW d \in Docs, StartRun(d) \/ Work(d) \/ Crash(d) PROVE TreeInv'
  <2>1. CASE StartRun(d)
    BY <1>1, <2>1, StartTree
  <2>2. CASE Cluster(d)
    BY <1>1, <2>2, ClusterTree
  <2>3. CASE Summarize(d)
    BY <1>1, <2>3, SummarizeTree
  <2>4. CASE SaveNodes(d) \/ MirrorEntities(d) \/ MirrorRelations(d)
    <3>1. CASE SaveFails(d)
      BY <1>1, <3>1, GivesUpTree DEF SaveFails, Swallow, Building, tree
    <3>2. CASE /\ At(d, "nodes") /\ Goto(d, "mirror")
               /\ nodes' = nodes \union Range(job[d].made)
      BY <1>1, <3>2, SaveTree DEF At
    <3>3. CASE At(d, "mirror") /\ Goto(d, "edges") /\ nodes' = nodes
      BY <1>1, <3>3, SaveTree DEF At
    <3>4. CASE At(d, "edges") /\ Goto(d, "cluster") /\ nodes' = nodes
      BY <1>1, <3>4, SaveTree DEF At
    <3> QED BY <2>4, <3>1, <3>2, <3>3, <3>4 DEF SaveNodes, MirrorEntities, MirrorRelations
  <2>5. CASE Backfill(d) \/ UpsertSections(d) \/ UpsertContainment(d) \/ Extract(d) \/ LinkChunks(d)
    <3>1. /\ nodes' = nodes
          /\ \E x \in {"sections", "containment", "extract", "link", "idle"} : Goto(d, x)
      BY <2>5 DEF Backfill, UpsertSections, UpsertContainment, Extract, LinkChunks, tree
    <3> QED BY <1>1, <3>1, GivesUpTree DEF Building
  <2>6. CASE Crash(d)
    <3>1. /\ nodes' = nodes
          /\ job' = [e \in Docs |-> IF e = d THEN Idle ELSE job[e]]
      BY <2>6 DEF Crash, tree, TreeInv, IInv, JobShape
    <3>2. job'[d].pc \notin Building /\ \A e \in Docs \ {d} : job'[e] = job[e]
      BY <3>1 DEF Idle, Building
    <3> QED BY <1>1, <3>1, <3>2, StepsDown
  <2> QED BY <1>3, <2>1, <2>2, <2>3, <2>4, <2>5, <2>6 DEF Work
<1> QED BY <1>2, <1>3 DEF Next

-----------------------------------------------------------------------------
(* Going down.  The recursive functions of the model are shown to exist,   *)
(* and to have the values they are given, by the least argument at which   *)
(* either would fail.                                                      *)

LEMMA LeastNat ==
    ASSUME NEW S \in SUBSET Nat, S # {}
    PROVE  \E k \in S : \A l \in S : k <= l
<1> DEFINE less == {p \in Nat \X Nat : p[1] < p[2]}
<1>1. IsWellFoundedOn(less, Nat)
  BY NatLessThanWellFounded DEF OpToRel
<1>2. \A k, l \in Nat : <<k, l>> \in less <=> k < l
  OBVIOUS
<1> HIDE DEF less
<1>3. \E k \in S : \A l \in S : ~(<<l, k>> \in less)
  BY <1>1, WFMin
<1>4. PICK k \in S : \A l \in S : ~(<<l, k>> \in less)
  BY <1>3
<1>5. \A l \in S : k <= l
  <2> TAKE l \in S
  <2>1. ~(l < k) /\ k \in Nat /\ l \in Nat
    BY <1>2, <1>4
  <2> QED BY <2>1
<1> QED BY <1>5

(* What resolve_summaries_to_chunk_ids has reached at each depth. *)
LEMMA ResolveIs ==
    ASSUME NEW ids
    PROVE  \E down :
             /\ down[0] = [level |-> ids, leaves |-> {}]
             /\ \A depth \in 1 .. ResolveDepth : down[depth] = Descend(down[depth - 1])
             /\ \A depths \in 0 .. ResolveDepth : Resolve(ids, depths) = down[depths].leaves
<1> DEFINE next(g, n) == IF n = 0 THEN [level |-> ids, leaves |-> {}] ELSE Descend(g[n - 1])
           Upto(g, k) == g = [n \in 0 .. k |-> next(g, n)]
           Bad == {k \in 0 .. ResolveDepth : ~\E g : Upto(g, k)}
<1>1. ResolveDepth \in Nat
  BY GraphAssumption
<1>2. Bad = {}
  <2> SUFFICES ASSUME Bad # {} PROVE FALSE
    OBVIOUS
  <2>a. Bad \in SUBSET Nat
    BY <1>1
  <2>b. \A k \in 0 .. ResolveDepth : k \in Bad <=> ~\E g : Upto(g, k)
    OBVIOUS
  <2> HIDE DEF Bad
  <2>1. PICK k \in Bad : \A l \in Bad : k <= l
    BY <2>a, LeastNat
  <2>2. k \in 0 .. ResolveDepth /\ ~\E g : Upto(g, k)
    BY DEF Bad
  <2>3. CASE k = 0
    <3> DEFINE g == [n \in 0 .. 0 |-> [level |-> ids, leaves |-> {}]]
    <3>1. Upto(g, 0)
      OBVIOUS
    <3> QED BY <2>2, <2>3, <3>1
  <2>4. CASE k # 0
    <3>1. k - 1 \in 0 .. ResolveDepth /\ ~(k <= k - 1)
      BY <1>1, <2>2, <2>4
    <3>2. PICK g : Upto(g, k - 1)
      BY <2>1, <2>b, <3>1
    <3> DEFINE h == [n \in 0 .. k |-> IF n = k THEN Descend(g[k - 1]) ELSE g[n]]
    <3>3. \A n \in 0 .. k - 1 : h[n] = g[n] /\ g[n] = next(g, n)
      <4>1. \A n \in 0 .. k - 1 : h[n] = g[n]
        BY <2>2
      <4> HIDE DEF next, h
      <4>2. \A n \in 0 .. k - 1 : g[n] = next(g, n)
        BY <3>2
      <4> QED BY <4>1, <4>2
    <3>4. ASSUME NEW n \in 0 .. k PROVE h[n] = next(h, n)
      <4>1. CASE n = k
        <5>1. k - 1 \in 0 .. k - 1 /\ h[k] = Descend(g[k - 1])
          BY <2>2, <2>4
        <5>2. h[k - 1] = g[k - 1]
          BY <3>3, <5>1
        <5> QED BY <2>4, <4>1, <5>1, <5>2
      <4>2. CASE n # k /\ n # 0
        <5>1. n \in 0 .. k - 1 /\ n - 1 \in 0 .. k - 1
          BY <2>2, <4>2
        <5>2. h[n] = g[n] /\ g[n] = Descend(g[n - 1]) /\ h[n - 1] = g[n - 1]
          BY <3>3, <4>2, <5>1
        <5> QED BY <4>2, <5>2
      <4>3. CASE n # k /\ n = 0
        <5>1. n \in 0 .. k - 1
          BY <2>2, <4>3
        <5> QED BY <3>3, <4>3, <5>1
      <4> QED BY <4>1, <4>2, <4>3
    <3>5. Upto(h, k)
      <4> HIDE DEF next
      <4>1. h = [n \in 0 .. k |-> h[n]]
        OBVIOUS
      <4> QED BY <3>4, <4>1
    <3> QED BY <2>2, <3>5
  <2> QED BY <2>3, <2>4
<1> DEFINE down == CHOOSE g : Upto(g, ResolveDepth)
<1>3. Upto(down, ResolveDepth)
  <2>a. ResolveDepth \in 0 .. ResolveDepth
    BY <1>1
  <2>1. \E g : Upto(g, ResolveDepth)
    <3> HIDE DEF Upto
    <3> QED BY <1>2, <2>a
  <2> HIDE DEF Upto
  <2> QED BY <2>1
<1>4. \A depths \in 0 .. ResolveDepth : Resolve(ids, depths) = down[depths].leaves
  BY DEF Resolve
<1> HIDE DEF down
<1>5. \A n \in 0 .. ResolveDepth : down[n] = next(down, n)
  BY <1>3
<1>6. down[0] = [level |-> ids, leaves |-> {}]
  <2>1. 0 \in 0 .. ResolveDepth
    BY <1>1
  <2>2. down[0] = next(down, 0)
    BY <1>5, <2>1
  <2> QED BY <2>2
<1>7. \A depth \in 1 .. ResolveDepth : down[depth] = Descend(down[depth - 1])
  <2> TAKE depth \in 1 .. ResolveDepth
  <2>1. depth \in 0 .. ResolveDepth /\ depth # 0
    BY <1>1
  <2> QED BY <1>5, <2>1
<1> QED BY <1>4, <1>6, <1>7

(* Between a summary and its leaves: the rows at one depth are below it, and what they and  *)
(* the depths above have led to is all it was made from.                                    *)
LiesBelow(n, acc, depth) ==
    /\ \A c \in acc.level :
         /\ c.level \in Int /\ c.level + depth = n.id.level
         /\ \E m \in nodes : m.id = c /\ m.leaves \subseteq n.leaves
    /\ acc.leaves \subseteq n.leaves
    /\ \A x \in n.leaves : x \in acc.leaves \/ \E m \in nodes : m.id \in acc.level /\ x \in m.leaves

LEMMA DescendIs ==
    ASSUME TreeInv, NEW n \in nodes, NEW acc, NEW depth \in Nat, LiesBelow(n, acc, depth)
    PROVE  LiesBelow(n, Descend(acc), depth + 1)
<1> DEFINE below == Descend(acc)
           children == UNION {m.children : m \in {x \in nodes : x.id \in acc.level}}
<1>1. below.level = {c \in children : Stored(c)}
      /\ below.leaves = acc.leaves \union {c \in children : ~Stored(c)}
  BY DEF Descend
<1>2. \A m \in nodes : Spans(m, nodes)
  BY DEF TreeInv
<1>3. \A m, k \in nodes : m.id = k.id => m = k
  BY DEF TreeInv, IInv, NodesOK
<1>4. \A c : c \in children <=> \E m \in nodes : m.id \in acc.level /\ c \in m.children
  OBVIOUS
<1> HIDE DEF below, children
<1>5. ASSUME NEW m \in nodes, m.id \in acc.level
      PROVE  m.leaves \subseteq n.leaves /\ m.id.level + depth = n.id.level
  BY <1>3, <1>5 DEF LiesBelow
<1>6. ASSUME NEW c \in below.level
      PROVE  /\ c.level \in Int /\ c.level + (depth + 1) = n.id.level
             /\ \E m \in nodes : m.id = c /\ m.leaves \subseteq n.leaves
  <2>1. c \in children /\ \E k \in nodes : k.id = c
    BY <1>1 DEF Stored
  <2>2. PICK m \in nodes : m.id \in acc.level /\ c \in m.children
    BY <1>4, <2>1
  <2>3. c.level > 0
    BY <1>2, <2>1 DEF Spans
  <2>4. /\ c.level \in Nat /\ c.level + 1 = m.id.level
        /\ \E k \in nodes : k.id = c /\ k.leaves \subseteq m.leaves
    BY <1>2, <2>2, <2>3 DEF Spans
  <2>5. m.leaves \subseteq n.leaves /\ m.id.level + depth = n.id.level
    BY <1>5, <2>2
  <2>6. c.level + (depth + 1) = n.id.level
    BY <2>4, <2>5
  <2> QED BY <2>4, <2>5, <2>6
<1>7. ASSUME NEW x \in below.leaves PROVE x \in n.leaves
  <2>1. CASE x \in acc.leaves
    BY <2>1 DEF LiesBelow
  <2>2. CASE x \in children /\ ~Stored(x)
    <3>1. PICK m \in nodes : m.id \in acc.level /\ x \in m.children
      BY <1>4, <2>2
    <3>2. x.level = 0
      BY <1>2, <2>2, <3>1 DEF Spans, Stored
    <3>3. x \in m.leaves
      BY <1>2, <3>1, <3>2 DEF Spans
    <3> QED BY <1>5, <3>1, <3>3
  <2> QED BY <1>1, <2>1, <2>2
<1>8. ASSUME NEW x \in n.leaves
      PROVE  x \in below.leaves \/ \E m \in nodes : m.id \in below.level /\ x \in m.leaves
  <2>1. CASE x \in acc.leaves
    BY <1>1, <2>1
  <2>2. CASE \E m \in nodes : m.id \in acc.level /\ x \in m.leaves
    <3>1. PICK m \in nodes : m.id \in acc.level /\ x \in m.leaves
      BY <2>2
    <3>2. /\ x.level = 0
          /\ x \in m.children \/ \E k \in nodes : k.id \in m.children /\ x \in k.leaves
      BY <1>2, <3>1 DEF Spans
    <3>3. CASE x \in m.children
      <4>1. ~Stored(x)
        BY <1>2, <3>2 DEF Spans, Stored
      <4> QED BY <1>1, <1>4, <3>1, <3>3, <4>1
    <3>4. CASE \E k \in nodes : k.id \in m.children /\ x \in k.leaves
      <4>1. PICK k \in nodes : k.id \in m.children /\ x \in k.leaves
        BY <3>4
      <4>2. k.id \in children /\ Stored(k.id)
        BY <1>4, <3>1, <4>1 DEF Stored
      <4> QED BY <1>1, <4>1, <4>2
    <3> QED BY <3>2, <3>3, <3>4
  <2> QED BY <2>1, <2>2 DEF LiesBelow
<1>9. LiesBelow(n, below, depth + 1)
  BY <1>6, <1>7, <1>8 DEF LiesBelow
<1> QED BY <1>9 DEF below

LEMMA ReachesLeaves ==
    ASSUME TreeInv, NEW n \in nodes
    PROVE  /\ Resolve({n.id}, ResolveDepth) = n.leaves
           /\ \A depths \in 0 .. ResolveDepth : Resolve({n.id}, depths) \subseteq n.leaves
<1>1. PICK down :
        /\ down[0] = [level |-> {n.id}, leaves |-> {}]
        /\ \A depth \in 1 .. ResolveDepth : down[depth] = Descend(down[depth - 1])
        /\ \A depths \in 0 .. ResolveDepth : Resolve({n.id}, depths) = down[depths].leaves
  BY ResolveIs
<1>2. ResolveDepth \in Nat /\ MaxDepth \in Nat /\ MaxDepth <= ResolveDepth
  BY GraphAssumption
<1>3. n.id.level \in 1 .. MaxDepth
  BY DEF TreeInv, Spans
<1>4. LiesBelow(n, down[0], 0)
  BY <1>1, <1>3 DEF LiesBelow
<1> DEFINE Bad == {depth \in 0 .. ResolveDepth : ~LiesBelow(n, down[depth], depth)}
<1>5. Bad = {}
  <2> SUFFICES ASSUME Bad # {} PROVE FALSE
    OBVIOUS
  <2>1. Bad \in SUBSET Nat
    BY <1>2
  <2>2. \A depth \in 0 .. ResolveDepth : depth \in Bad <=> ~LiesBelow(n, down[depth], depth)
    OBVIOUS
  <2> HIDE DEF Bad
  <2>3. PICK k \in Bad : \A l \in Bad : k <= l
    BY <2>1, LeastNat
  <2>4. k \in 0 .. ResolveDepth /\ ~LiesBelow(n, down[k], k)
    BY DEF Bad
  <2>5. k # 0
    BY <1>4, <2>4
  <2>6. k - 1 \in 0 .. ResolveDepth /\ ~(k <= k - 1) /\ k - 1 \in Nat /\ k \in 1 .. ResolveDepth
    BY <1>2, <2>4, <2>5
  <2>7. LiesBelow(n, down[k - 1], k - 1)
    BY <2>2, <2>3, <2>6
  <2>8. LiesBelow(n, Descend(down[k - 1]), (k - 1) + 1)
    BY <2>6, <2>7, DescendIs
  <2>9. (k - 1) + 1 = k /\ Descend(down[k - 1]) = down[k]
    BY <1>1, <2>4, <2>6
  <2> QED BY <2>4, <2>8, <2>9
<1>5a. \A depth \in 0 .. ResolveDepth : LiesBelow(n, down[depth], depth)
  BY <1>5
<1>6. ResolveDepth \in 0 .. ResolveDepth /\ LiesBelow(n, down[ResolveDepth], ResolveDepth)
  BY <1>2, <1>5a
<1>7. \A m \in nodes : m.id.level \in Nat /\ m.id.level > 0
  BY DEF TreeInv, IInv, NodesOK
<1>8. \A m \in nodes : m.id \notin down[ResolveDepth].level
  <2> SUFFICES ASSUME NEW m \in nodes, m.id \in down[ResolveDepth].level PROVE FALSE
    OBVIOUS
  <2>1. m.id.level + ResolveDepth = n.id.level
    BY <1>6 DEF LiesBelow
  <2> QED BY <1>2, <1>3, <1>7, <2>1
<1>9. down[ResolveDepth].leaves \subseteq n.leaves
  BY <1>6 DEF LiesBelow
<1>10. n.leaves \subseteq down[ResolveDepth].leaves
  BY <1>6, <1>8 DEF LiesBelow
<1>11. \A depth \in 0 .. ResolveDepth : down[depth].leaves \subseteq n.leaves
  BY <1>5a DEF LiesBelow
<1> QED BY <1>1, <1>6, <1>9, <1>10, <1>11

(* Whatever fails or dies at any level of any job, going down from a       *)
(* stored summary ends at exactly the leaves it was made from, and at none *)
(* but these when a query of the descent fails: a level is clustered only  *)
(* when its rows are stored, so every child above the leaves is a row of   *)
(* its own, one level down, and ResolveDepth levels are enough. The leaves *)
(* are not rows of content_chunks: see the module KnowledgeGraph.          *)
THEOREM SummariesReachLeaves == Spec => []LeavesReached
<1>1. TreeInv => LeavesReached
  BY ReachesLeaves DEF LeavesReached
<1> QED BY <1>1, InitTree, StepTree, PTL DEF Spec

-----------------------------------------------------------------------------
(* The stack of upsert_document_structure.                                 *)

Outline == Seq([ref : STRING, level : Int])

LEMMA GreatestOf ==
    ASSUME NEW n \in Nat, NEW S \in SUBSET (0 .. n), S # {}
    PROVE  Max(S) \in S /\ \A y \in S : y <= Max(S)
<1> DEFINE T == {t \in 0 .. n : n - t \in S}
<1>1. PICK y \in S : TRUE
  OBVIOUS
<1>2. n - y \in T
  BY <1>1
<1>3. T \in SUBSET Nat /\ T # {}
  <2>1. \A t \in T : t \in Nat
    OBVIOUS
  <2> HIDE DEF T
  <2> QED BY <1>2, <2>1
<1>4. \A t \in T : n - t \in S /\ t \in 0 .. n
  OBVIOUS
<1>5. \A x \in S : n - x \in T
  OBVIOUS
<1> HIDE DEF T
<1>6. PICK t \in T : \A u \in T : t <= u
  BY <1>3, LeastNat
<1>7. n - t \in S
  BY <1>4, <1>6
<1>8. \A x \in S : n - t >= x
  <2> TAKE x \in S
  <2>1. t <= n - x /\ t \in 0 .. n /\ x \in 0 .. n
    BY <1>4, <1>5, <1>6
  <2> QED BY <2>1
<1>9. Max(S) \in S /\ \A x \in S : Max(S) >= x
  BY <1>7, <1>8 DEF Max
<1>10. \A x \in S : x \in Int
  OBVIOUS
<1>11. ASSUME NEW m \in S, NEW x \in S, m >= x PROVE x <= m
  BY <1>10, <1>11
<1> QED BY <1>9, <1>11

LEMMA EntriesAre ==
    ASSUME NEW E \in Outline
    PROVE  /\ Len(E) \in Nat /\ DOMAIN E = 1 .. Len(E)
           /\ \A m \in 1 .. Len(E) : E[m].level \in Int
<1> DEFINE Entry == [ref : STRING, level : Int]
<1>1. E \in Seq(Entry)
  BY DEF Outline
<1>2. \A e \in Entry : e.level \in Int
  OBVIOUS
<1> HIDE DEF Entry
<1> QED BY <1>1, <1>2

LEMMA PoppedIs ==
    ASSUME NEW E \in Outline, NEW n \in 0 .. Len(E), NEW stack \in Seq(1 .. n), NEW level \in Int
    PROVE  LET left == Popped(E, stack, level) IN
           /\ left \in Seq(1 .. n) /\ Len(left) <= Len(stack)
           /\ \A k \in 1 .. Len(left) : left[k] = stack[k]
           /\ left # <<>> => E[Last(left)].level < level
           /\ \A k \in Len(left) + 1 .. Len(stack) : E[stack[k]].level >= level
<1> DEFINE len == Len(stack)
           shallow == {k \in DOMAIN stack : E[stack[k]].level < level}
           top == Max({0} \union shallow)
           left == SubSeq(stack, 1, top)
<1>1. len \in Nat /\ DOMAIN stack = 1 .. len
  OBVIOUS
<1>2. {0} \union shallow \in SUBSET (0 .. len) /\ {0} \union shallow # {}
  BY <1>1
<1>3. top \in {0} \union shallow /\ \A y \in {0} \union shallow : y <= top
  <2> HIDE DEF shallow, len
  <2> QED BY <1>1, <1>2, GreatestOf
<1>4. left = Popped(E, stack, level)
  BY DEF Popped
<1>5. top \in 0 .. len
  BY <1>2, <1>3
<1>6. \A k \in 1 .. len : E[stack[k]].level \in Int
  <2>1. Len(E) \in Nat /\ \A m \in 1 .. Len(E) : E[m].level \in Int
    BY EntriesAre
  <2>2. \A k \in 1 .. len : stack[k] \in 1 .. n
    OBVIOUS
  <2> HIDE DEF len
  <2>3. \A m \in 1 .. n : m \in 1 .. Len(E)
    BY <2>1
  <2> QED BY <2>1, <2>2, <2>3
<1>7. /\ left \in Seq(1 .. n) /\ Len(left) = top
      /\ \A k \in 1 .. top : left[k] = stack[k]
  <2> HIDE DEF top
  <2> QED BY <1>1, <1>5
<1>8. left # <<>> => E[Last(left)].level < level
  <2> SUFFICES ASSUME left # <<>> PROVE E[Last(left)].level < level
    OBVIOUS
  <2>1. top # 0
    <3> HIDE DEF top
    <3> QED BY <1>7
  <2>2. top \in shallow /\ Last(left) = stack[top]
    <3> HIDE DEF top, shallow
    <3> QED BY <1>3, <1>5, <1>7, <2>1 DEF Last
  <2> QED BY <2>2
<1>9. \A k \in top + 1 .. len : E[stack[k]].level >= level
  <2> TAKE k \in top + 1 .. len
  <2>1. k \in 1 .. len /\ ~(k <= top)
    <3> HIDE DEF top
    <3> QED BY <1>1, <1>5
  <2>2. k \notin shallow
    BY <1>3, <2>1
  <2> QED BY <1>1, <1>6, <2>1, <2>2
<1> HIDE DEF left, top, len
<1>10. Len(left) <= Len(stack)
  BY <1>1, <1>5, <1>7 DEF len
<1> QED BY <1>4, <1>7, <1>8, <1>9, <1>10 DEF len

LEMMA StacksAre ==
    ASSUME NEW E \in Outline
    PROVE  /\ Stacks(E)[0] = <<>>
           /\ \A k \in 1 .. Len(E) :
                Stacks(E)[k] = Append(Popped(E, Stacks(E)[k - 1], E[k].level), k)
<1> DEFINE next(g, n) == IF n = 0 THEN <<>> ELSE Append(Popped(E, g[n - 1], E[n].level), n)
           Upto(g, k) == g = [n \in 0 .. k |-> next(g, n)]
           len == Len(E)
           Bad == {k \in 0 .. len : ~\E g : Upto(g, k)}
<1>1. len \in Nat
  BY DEF Outline
<1> HIDE DEF len
<1>2. Bad = {}
  <2> SUFFICES ASSUME Bad # {} PROVE FALSE
    OBVIOUS
  <2>a. Bad \in SUBSET Nat
    BY <1>1
  <2>b. \A k \in 0 .. len : k \in Bad <=> ~\E g : Upto(g, k)
    OBVIOUS
  <2> HIDE DEF Bad
  <2>1. PICK k \in Bad : \A l \in Bad : k <= l
    BY <2>a, LeastNat
  <2>2. k \in 0 .. len /\ ~\E g : Upto(g, k)
    BY DEF Bad
  <2>3. CASE k = 0
    <3> DEFINE g == [n \in 0 .. 0 |-> <<>>]
    <3>1. Upto(g, 0)
      OBVIOUS
    <3> QED BY <2>2, <2>3, <3>1
  <2>4. CASE k # 0
    <3>1. k - 1 \in 0 .. len /\ ~(k <= k - 1)
      BY <1>1, <2>2, <2>4
    <3>2. PICK g : Upto(g, k - 1)
      BY <2>1, <2>b, <3>1
    <3> DEFINE h == [n \in 0 .. k |-> IF n = k THEN next(g, k) ELSE g[n]]
    <3>3. \A n \in 0 .. k - 1 : h[n] = g[n] /\ g[n] = next(g, n)
      <4>1. \A n \in 0 .. k - 1 : h[n] = g[n]
        BY <2>2
      <4> HIDE DEF next, h
      <4>2. \A n \in 0 .. k - 1 : g[n] = next(g, n)
        BY <3>2
      <4> QED BY <4>1, <4>2
    <3>4. ASSUME NEW n \in 0 .. k PROVE h[n] = next(h, n)
      <4>1. CASE n = k
        <5>1. k - 1 \in 0 .. k - 1 /\ h[k] = next(g, k)
          BY <2>2, <2>4
        <5>2. h[k - 1] = g[k - 1]
          BY <3>3, <5>1
        <5> HIDE DEF h
        <5> QED BY <2>4, <4>1, <5>1, <5>2
      <4>2. CASE n # k /\ n # 0
        <5>1. n \in 0 .. k - 1 /\ n - 1 \in 0 .. k - 1
          BY <2>2, <4>2
        <5>2. h[n] = g[n] /\ g[n] = next(g, n) /\ h[n - 1] = g[n - 1]
          BY <3>3, <5>1
        <5> HIDE DEF h
        <5> QED BY <4>2, <5>2
      <4>3. CASE n # k /\ n = 0
        <5>1. n \in 0 .. k - 1
          BY <2>2, <4>3
        <5>2. h[n] = g[n] /\ g[n] = next(g, n)
          BY <3>3, <5>1
        <5> HIDE DEF h
        <5> QED BY <4>3, <5>2
      <4> QED BY <4>1, <4>2, <4>3
    <3>5. Upto(h, k)
      <4> HIDE DEF next
      <4>1. h = [n \in 0 .. k |-> h[n]]
        OBVIOUS
      <4> QED BY <3>4, <4>1
    <3> QED BY <2>2, <3>5
  <2> QED BY <2>3, <2>4
<1> DEFINE stack == CHOOSE g : Upto(g, len)
<1>3. Upto(stack, len)
  <2>a. len \in 0 .. len
    BY <1>1
  <2>1. \E g : Upto(g, len)
    <3> HIDE DEF Upto
    <3> QED BY <1>2, <2>a
  <2> HIDE DEF Upto
  <2> QED BY <2>1
<1>4. Stacks(E) = stack
  BY DEF Stacks, len
<1> HIDE DEF stack
<1>5. \A n \in 0 .. len : stack[n] = next(stack, n)
  <2> HIDE DEF next
  <2> QED BY <1>3
<1>6. stack[0] = <<>>
  <2>1. 0 \in 0 .. len
    BY <1>1
  <2>2. stack[0] = next(stack, 0)
    BY <1>5, <2>1
  <2> QED BY <2>2
<1>7. \A k \in 1 .. len : stack[k] = Append(Popped(E, stack[k - 1], E[k].level), k)
  <2> TAKE k \in 1 .. len
  <2>1. k \in 0 .. len /\ k # 0
    BY <1>1
  <2> QED BY <1>5, <2>1
<1> QED BY <1>4, <1>6, <1>7 DEF len

(* What lies under an entry of the stack, up to the n-th of the list, is no less deep than  *)
(* something that was pushed later.                                                         *)
Covers(E, stack, n) ==
    /\ stack \in Seq(1 .. n)
    /\ \A k \in 1 .. Len(stack) : \A m \in stack[k] + 1 .. n :
         \E l \in k + 1 .. Len(stack) : E[stack[l]].level <= E[m].level

LEMMA PushedCovers ==
    ASSUME NEW E \in Outline, NEW n \in 1 .. Len(E), NEW stack, Covers(E, stack, n - 1)
    PROVE  Covers(E, Append(Popped(E, stack, E[n].level), n), n)
<1> DEFINE left == Popped(E, stack, E[n].level)
           pushed == Append(left, n)
<1>1. /\ Len(E) \in Nat /\ n \in Nat /\ n - 1 \in 0 .. Len(E)
      /\ \A m \in 1 .. n : E[m].level \in Int
  BY EntriesAre
<1>2. stack \in Seq(1 .. n - 1)
  BY DEF Covers
<1>3. E[n].level \in Int
  BY <1>1
<1>4. /\ left \in Seq(1 .. n - 1) /\ Len(left) <= Len(stack)
      /\ \A k \in 1 .. Len(left) : left[k] = stack[k]
      /\ \A k \in Len(left) + 1 .. Len(stack) : E[stack[k]].level >= E[n].level
  BY <1>1, <1>2, <1>3, PoppedIs
<1>5. Len(left) \in Nat /\ Len(stack) \in Nat /\ \A k \in 1 .. Len(left) : left[k] \in 1 .. n - 1
  BY <1>2, <1>4
<1> HIDE DEF left
<1>6. /\ pushed \in Seq(1 .. n) /\ Len(pushed) = Len(left) + 1
      /\ pushed[Len(left) + 1] = n
      /\ \A k \in 1 .. Len(left) : pushed[k] = left[k]
  <2>1. \A x \in 1 .. n - 1 : x \in 1 .. n
    BY <1>1
  <2>2. left \in Seq(1 .. n) /\ n \in 1 .. n
    BY <1>1, <1>4, <2>1
  <2> QED BY <2>2
<1> HIDE DEF pushed
<1>7. ASSUME NEW k \in 1 .. Len(pushed), NEW m \in pushed[k] + 1 .. n
      PROVE  \E l \in k + 1 .. Len(pushed) : E[pushed[l]].level <= E[m].level
  <2>1. k \in 1 .. Len(left)
    <3>1. CASE k = Len(left) + 1
      BY <1>1, <1>6, <1>7, <3>1
    <3> QED BY <1>5, <1>6, <3>1
  <2>2. pushed[k] = stack[k] /\ stack[k] \in 1 .. n - 1 /\ k \in 1 .. Len(stack)
    <3>1. pushed[k] = left[k] /\ left[k] = stack[k] /\ left[k] \in 1 .. n - 1
      BY <1>4, <1>5, <1>6, <2>1
    <3>2. k \in 1 .. Len(stack)
      BY <1>4, <1>5, <2>1
    <3> QED BY <3>1, <3>2
  <2>3. Len(left) + 1 \in k + 1 .. Len(pushed)
    BY <1>5, <1>6, <2>1
  <2>4. m \in 1 .. n
    BY <1>1, <2>2
  <2>5. CASE m = n
    <3>1. E[pushed[Len(left) + 1]] = E[m] /\ E[m].level <= E[m].level
      BY <1>3, <1>6, <2>5
    <3> QED BY <2>3, <3>1
  <2>6. CASE m # n
    <3>1. m \in stack[k] + 1 .. n - 1
      BY <1>1, <2>2, <2>4, <2>6
    <3>2. PICK l \in k + 1 .. Len(stack) : E[stack[l]].level <= E[m].level
      BY <2>2, <3>1 DEF Covers
    <3>3. CASE l <= Len(left)
      <4>1. l \in 1 .. Len(left) /\ l \in k + 1 .. Len(pushed)
        BY <1>5, <1>6, <2>1, <3>3
      <4>2. pushed[l] = stack[l]
        BY <1>4, <1>6, <4>1
      <4> QED BY <3>2, <4>1, <4>2
    <3>4. CASE ~(l <= Len(left))
      <4>1. l \in Len(left) + 1 .. Len(stack) /\ l \in 1 .. Len(stack)
        BY <1>5, <2>1, <3>4
      <4>2. E[stack[l]].level >= E[n].level
        BY <1>4, <4>1
      <4>3. stack[l] \in 1 .. n
        <5>1. stack[l] \in 1 .. n - 1
          BY <1>2, <4>1
        <5> QED BY <1>1, <5>1
      <4>4. E[stack[l]].level \in Int /\ E[m].level \in Int
        BY <1>1, <2>4, <4>3
      <4>5. E[n].level <= E[m].level
        BY <1>3, <3>2, <4>2, <4>4
      <4> QED BY <1>6, <2>3, <4>5
    <3> QED BY <3>3, <3>4
  <2> QED BY <2>5, <2>6
<1>8. Covers(E, pushed, n)
  BY <1>6, <1>7 DEF Covers
<1> QED BY <1>8 DEF pushed, left

LEMMA StacksCover ==
    ASSUME NEW E \in Outline, NEW n \in 0 .. Len(E)
    PROVE  Covers(E, Stacks(E)[n], n)
<1> DEFINE len == Len(E)
           Bad == {k \in 0 .. len : ~Covers(E, Stacks(E)[k], k)}
<1>1. len \in Nat
  BY EntriesAre
<1>2. Covers(E, Stacks(E)[0], 0)
  <2>1. Stacks(E)[0] = <<>>
    BY StacksAre
  <2>2. <<>> \in Seq(1 .. 0) /\ Len(<<>>) = 0
    OBVIOUS
  <2> QED BY <2>1, <2>2 DEF Covers
<1>3. Bad = {}
  <2> SUFFICES ASSUME Bad # {} PROVE FALSE
    OBVIOUS
  <2> HIDE DEF len
  <2>1. Bad \in SUBSET Nat
    BY <1>1
  <2>2. \A k \in 0 .. len : k \in Bad <=> ~Covers(E, Stacks(E)[k], k)
    OBVIOUS
  <2> HIDE DEF Bad
  <2>3. PICK k \in Bad : \A l \in Bad : k <= l
    BY <2>1, LeastNat
  <2>4. k \in 0 .. len /\ ~Covers(E, Stacks(E)[k], k)
    BY DEF Bad
  <2>5. k # 0
    BY <1>2, <2>4
  <2>6. k - 1 \in 0 .. len /\ ~(k <= k - 1) /\ k \in 1 .. len
    BY <1>1, <2>4, <2>5
  <2>7. Covers(E, Stacks(E)[k - 1], k - 1)
    BY <2>2, <2>3, <2>6
  <2>8. Covers(E, Append(Popped(E, Stacks(E)[k - 1], E[k].level), k), k)
    BY <2>6, <2>7, PushedCovers DEF len
  <2>9. Stacks(E)[k] = Append(Popped(E, Stacks(E)[k - 1], E[k].level), k)
    BY <2>6, StacksAre DEF len
  <2> QED BY <2>4, <2>8, <2>9
<1> QED BY <1>3

(* An entry lies in the nearest one before it that is less deep. *)
LEMMA LiesIn ==
    ASSUME NEW E \in Outline, NEW k \in 1 .. Len(E), NEW over,
           over = Popped(E, Stacks(E)[k - 1], E[k].level), over # <<>>
    PROVE  /\ Last(over) \in 1 .. k - 1
           /\ E[Last(over)].level < E[k].level
           /\ \A m \in Last(over) + 1 .. k - 1 : E[m].level >= E[k].level
<1> DEFINE stack == Stacks(E)[k - 1]
<1>1. /\ Len(E) \in Nat /\ k \in Nat /\ k - 1 \in 0 .. Len(E)
      /\ \A m \in 1 .. Len(E) : E[m].level \in Int
  BY EntriesAre
<1>2. Covers(E, stack, k - 1)
  BY <1>1, StacksCover
<1>3. stack \in Seq(1 .. k - 1) /\ E[k].level \in Int
  BY <1>1, <1>2 DEF Covers
<1> HIDE DEF stack
<1>4. over = Popped(E, stack, E[k].level)
  BY DEF stack
<1>5. /\ over \in Seq(1 .. k - 1) /\ Len(over) <= Len(stack)
      /\ \A l \in 1 .. Len(over) : over[l] = stack[l]
      /\ E[Last(over)].level < E[k].level
      /\ \A l \in Len(over) + 1 .. Len(stack) : E[stack[l]].level >= E[k].level
  <2> DEFINE left == Popped(E, stack, E[k].level)
  <2>1. /\ left \in Seq(1 .. k - 1) /\ Len(left) <= Len(stack)
        /\ \A l \in 1 .. Len(left) : left[l] = stack[l]
        /\ left # <<>> => E[Last(left)].level < E[k].level
        /\ \A l \in Len(left) + 1 .. Len(stack) : E[stack[l]].level >= E[k].level
    BY <1>1, <1>3, PoppedIs
  <2>2. left = over
    BY <1>4
  <2> HIDE DEF left
  <2> QED BY <2>1, <2>2
<1>6. Len(over) \in Nat /\ Len(stack) \in Nat /\ Len(over) # 0
  BY <1>3, <1>5
<1>7. Len(over) \in 1 .. Len(over) /\ Len(over) \in 1 .. Len(stack)
  BY <1>5, <1>6
<1>8. Last(over) \in 1 .. k - 1 /\ Last(over) = stack[Len(over)]
  BY <1>5, <1>7 DEF Last
<1>9. ASSUME NEW m \in Last(over) + 1 .. k - 1 PROVE E[m].level >= E[k].level
  <2>1. PICK l \in Len(over) + 1 .. Len(stack) : E[stack[l]].level <= E[m].level
    BY <1>2, <1>7, <1>8 DEF Covers
  <2>2. E[stack[l]].level >= E[k].level
    BY <1>5, <2>1
  <2>3. m \in 1 .. Len(E)
    BY <1>1, <1>8
  <2>4. stack[l] \in 1 .. k - 1
    <3>1. l \in 1 .. Len(stack)
      BY <1>6
    <3> QED BY <1>3, <3>1
  <2>5. stack[l] \in 1 .. Len(E)
    BY <1>1, <2>4
  <2>6. E[stack[l]].level \in Int /\ E[m].level \in Int
    BY <1>1, <2>3, <2>5
  <2>7. \A x, y, z \in Int : y <= x /\ y >= z => x >= z
    OBVIOUS
  <2>8. E[k].level \in Int
    BY <1>1
  <2> QED BY <2>1, <2>2, <2>6, <2>7, <2>8
<1> QED BY <1>5, <1>8, <1>9

LEMMA ContainmentNests ==
    ASSUME content \in Contents, NEW d \in Docs, NEW edge \in Containment(d)
    PROVE  LET E == Entries(d) IN
           /\ edge.doc = d
           /\ \E i, k \in DOMAIN E :
                 /\ i < k /\ E[i].ref = edge.parent /\ E[k].ref = edge.child
                 /\ E[i].level < E[k].level
                 /\ \A m \in i + 1 .. k - 1 : E[m].level >= E[k].level
<1> DEFINE E == Entries(d)
           over(k) == Popped(E, Stacks(E)[k - 1], E[k].level)
<1>1. E \in Outline
  BY GraphAssumption DEF Entries, Outline
<1>2. PICK k \in {n \in DOMAIN E : over(n) # <<>>} :
         edge = [doc |-> d, parent |-> E[Last(over(k))].ref, child |-> E[k].ref]
  BY DEF Containment
<1> HIDE DEF E
<1>3. Len(E) \in Nat /\ DOMAIN E = 1 .. Len(E) /\ k \in 1 .. Len(E) /\ over(k) # <<>>
  BY <1>1, <1>2, EntriesAre
<1> DEFINE above == over(k)
           i == Last(above)
<1>4. /\ i \in 1 .. k - 1
      /\ E[i].level < E[k].level
      /\ \A m \in i + 1 .. k - 1 : E[m].level >= E[k].level
  BY <1>1, <1>3, LiesIn
<1>5. edge.doc = d /\ edge.parent = E[i].ref /\ edge.child = E[k].ref
  BY <1>2
<1> HIDE DEF above, i
<1>6. i \in DOMAIN E /\ k \in DOMAIN E /\ i < k
  BY <1>3, <1>4
<1> QED BY <1>4, <1>5, <1>6 DEF E

(* The rows of one contents list: content does not change, sections stay. *)
NestInv == content \in Contents /\ SectionsNest

LEMMA InitNest == Init => NestInv
BY DEF Init, NestInv, SectionsNest

LEMMA StepNest == NestInv /\ [Next]_vars => NestInv'
<1> SUFFICES ASSUME NestInv, [Next]_vars PROVE NestInv'
  OBVIOUS
<1>1. /\ content' = content
      /\ sections \subseteq sections'
      /\ \/ contains' = contains
         \/ \E d \in Docs : UpsertContainment(d)
  <2>1. CASE UNCHANGED vars
    BY <2>1, Zenon DEF vars
  <2>2. ASSUME NEW d \in Docs, StartRun(d) \/ Work(d) \/ Crash(d) PROVE <1>1!:
    BY <2>2, Zenon DEF StartRun, Crash, Work, Cluster, Summarize, Swallow, SaveNodes, MirrorEntities,
                MirrorRelations, SaveFails, Backfill, UpsertSections, UpsertContainment, Extract,
                LinkChunks, tree, structure
  <2> QED BY <2>1, <2>2 DEF Next
<1>2. \A d : Entries(d)' = Entries(d)
  BY <1>1 DEF Entries
<1>3. \A d, r : IsSection(d, r) => IsSection(d, r)'
  BY <1>1 DEF IsSection
<1> DEFINE Nests(edge) ==
             LET E == Entries(edge.doc) IN
             \E i, k \in DOMAIN E :
                /\ i < k /\ E[i].ref = edge.parent /\ E[k].ref = edge.child
                /\ E[i].level < E[k].level
                /\ \A m \in i + 1 .. k - 1 : E[m].level >= E[k].level
<1>4. \A edge \in contains :
         IsSection(edge.doc, edge.parent) /\ IsSection(edge.doc, edge.child) /\ Nests(edge)
  BY DEF NestInv, SectionsNest
<1>5. ASSUME NEW edge \in contains', edge \notin contains
      PROVE  IsSection(edge.doc, edge.parent) /\ IsSection(edge.doc, edge.child) /\ Nests(edge)
  <2>1. PICK d \in Docs : UpsertContainment(d)
    BY <1>1, <1>5
  <2>2. /\ edge \in Containment(d)
        /\ IsSection(d, edge.parent) /\ IsSection(d, edge.child)
    BY <1>5, <2>1 DEF UpsertContainment
  <2> QED BY <2>2, ContainmentNests DEF NestInv
<1>6. SectionsNest'
  <2> SUFFICES ASSUME NEW edge \in contains'
               PROVE  /\ IsSection(edge.doc, edge.parent)' /\ IsSection(edge.doc, edge.child)'
                      /\ LET E == Entries(edge.doc)' IN
                         \E i, k \in DOMAIN E :
                            /\ i < k /\ E[i].ref = edge.parent /\ E[k].ref = edge.child
                            /\ E[i].level < E[k].level
                            /\ \A m \in i + 1 .. k - 1 : E[m].level >= E[k].level
    BY DEF SectionsNest
  <2>1. IsSection(edge.doc, edge.parent) /\ IsSection(edge.doc, edge.child) /\ Nests(edge)
    BY <1>4, <1>5
  <2> QED BY <1>2, <1>3, <2>1
<1> QED BY <1>1, <1>6 DEF NestInv

(* CONTAINS follows the contents list, whatever rows were refused on the   *)
(* way and whichever job wrote them: the entry left at the top of the      *)
(* stack is the nearest one less deep, because what was popped since it    *)
(* was pushed is no deeper than anything between.                          *)
THEOREM ContainmentIsNesting == Spec => []SectionsNest
<1>1. NestInv => SectionsNest
  BY DEF NestInv
<1> QED BY <1>1, InitNest, StepNest, PTL DEF Spec

-----------------------------------------------------------------------------
LEMMA StepType == IInv /\ TypeOK /\ [Next]_vars => TypeOK'
<1> SUFFICES ASSUME IInv, TypeOK, [Next]_vars PROVE TypeOK'
  OBVIOUS
<1>1. IInv'
  BY StepIInv
<1>2. DOMAIN job' = Docs /\ entities' \subseteq nodes'
  BY <1>1 DEF IInv, JobShape, NodesOK
<1>3. CASE UNCHANGED vars
  BY <1>3 DEF vars, TypeOK, Refs, Entries
<1>4. ASSUME NEW d \in Docs, StartRun(d) \/ Work(d) \/ Crash(d) PROVE TypeOK'
  <2>1. content' = content
    BY <1>4, Zenon DEF StartRun, Crash, Work, Cluster, Summarize, Swallow, SaveNodes, MirrorEntities,
                MirrorRelations, SaveFails, Backfill, UpsertSections, UpsertContainment, Extract,
                LinkChunks
  <2>2. runs' \in 0 .. MaxRuns
    <3>1. CASE StartRun(d)
      BY <3>1, GraphAssumption DEF StartRun, TypeOK
    <3>2. CASE ~StartRun(d)
      <4>1. runs' = runs
        BY <1>4, <3>2, Zenon DEF Crash, Work, Cluster, Summarize, Swallow, SaveNodes, MirrorEntities,
                  MirrorRelations, SaveFails, Backfill, UpsertSections, UpsertContainment, Extract,
                  LinkChunks
      <4> QED BY <4>1, Zenon DEF TypeOK
    <3> QED BY <3>1, <3>2
  <2>3. sections' \subseteq [doc : Docs, ref : UNION {Refs(e) : e \in Docs}]
    <3>1. CASE UpsertSections(d)
      <4>1. PICK stored \in SUBSET FreeRefs(d) :
              sections' = sections \union {[doc |-> d, ref |-> r] : r \in stored}
        BY <3>1 DEF UpsertSections
      <4>2. \A r \in stored : r \in UNION {Refs(e) : e \in Docs}
        BY DEF FreeRefs
      <4> QED BY <4>1, <4>2 DEF TypeOK
    <3>2. CASE ~UpsertSections(d)
      <4>1. sections' = sections
        BY <1>4, <3>2, Zenon DEF StartRun, Crash, Work, Cluster, Summarize, Swallow, SaveNodes,
                  MirrorEntities, MirrorRelations, SaveFails, Backfill, UpsertContainment, Extract,
                  LinkChunks, structure
      <4> QED BY <4>1, Zenon DEF TypeOK
    <3> QED BY <3>1, <3>2
  <2>4. {Refs(e) : e \in Docs}' = {Refs(e) : e \in Docs}
    BY <2>1 DEF Refs, Entries
  <2> QED BY <1>2, <2>2, <2>3, <2>4, Zenon DEF TypeOK
<1> QED BY <1>3, <1>4 DEF Next

(* There is a job for each document, every mirrored summary is a row, and  *)
(* every section stands in the contents list of a document.                *)
THEOREM TypeCorrect == Spec => []TypeOK
<1>1. Init => TypeOK
  BY GraphAssumption DEF Init, TypeOK
<1> QED BY <1>1, InitIInv, StepIInv, StepType, PTL DEF Spec

-----------------------------------------------------------------------------
(* Induction and recursion over the places of a sequence: what holds at 0  *)
(* and is kept by each step holds at every place, and a recursive function *)
(* that is given a value at 0 and a step exists and has those values.      *)
LEMMA ByPlace ==
    ASSUME NEW n \in Nat, NEW X, NEW g, g[0] \in X,
           \A i \in 1 .. n : g[i - 1] \in X => g[i] \in X
    PROVE  \A i \in 0 .. n : g[i] \in X
<1> DEFINE Bad == {i \in 1 .. n : g[i] \notin X}
<1>1. CASE Bad = {}
  BY <1>1
<1>2. CASE Bad # {}
  <2>1. PICK i \in Bad : \A l \in Bad : i <= l
    BY <1>2, LeastOf
  <2>2. i \in 1 .. n /\ g[i] \notin X
    OBVIOUS
  <2>3. CASE i = 1
    BY <2>2, <2>3
  <2>4. CASE i # 1
    <3>1. i - 1 \in 1 .. n /\ ~(i <= i - 1)
      BY <2>2, <2>4
    <3> QED BY <2>1, <2>2, <3>1
  <2> QED BY <2>3, <2>4
<1> QED BY <1>1, <1>2

Closed(X, n, step) == \A i \in 1 .. n : \A u \in X : step[i][u] \in X
Recursive(g, X, n, x, step) ==
    g \in [0 .. n -> X] /\ g[0] = x /\ \A i \in 1 .. n : g[i] = step[i][g[i - 1]]

LEMMA RecursionIs ==
    ASSUME NEW X, NEW n \in Nat, NEW x \in X, NEW step, Closed(X, n, step)
    PROVE  \E g : Recursive(g, X, n, x, step)
<1> DEFINE next(g, i) == IF i = 0 THEN x ELSE step[i][g[i - 1]]
           Upto(g, k) == g \in [0 .. k -> X] /\ \A i \in 0 .. k : g[i] = next(g, i)
           Bad == {k \in 1 .. n : ~\E g : Upto(g, k)}
<1>1. \E g : Upto(g, 0)
  <2> DEFINE g == [i \in 0 .. 0 |-> x]
  <2>1. Upto(g, 0)
    OBVIOUS
  <2> QED BY <2>1
<1>2. Bad = {}
  <2> SUFFICES ASSUME Bad # {} PROVE FALSE
    OBVIOUS
  <2>1. PICK k \in Bad : \A l \in Bad : k <= l
    BY LeastOf
  <2>2. k \in 1 .. n /\ ~\E g : Upto(g, k)
    OBVIOUS
  <2>3. PICK g : Upto(g, k - 1)
    <3>1. CASE k = 1
      BY <1>1, <3>1
    <3>2. CASE k # 1
      <4>1. k - 1 \in 1 .. n /\ ~(k <= k - 1)
        BY <2>2, <3>2
      <4> HIDE DEF Upto
      <4> QED BY <2>1, <4>1
    <3> QED BY <3>1, <3>2
  <2> DEFINE h == [i \in 0 .. k |-> IF i = k THEN step[k][g[k - 1]] ELSE g[i]]
  <2>4. k - 1 \in 0 .. k - 1 /\ g[k - 1] \in X
    BY <2>2, <2>3
  <2>5. h \in [0 .. k -> X]
    <3>1. step[k][g[k - 1]] \in X
      BY <2>2, <2>4 DEF Closed
    <3>2. \A i \in 0 .. k : i # k => g[i] \in X
      BY <2>2, <2>3
    <3> QED BY <3>1, <3>2
  <2>6. ASSUME NEW i \in 0 .. k PROVE h[i] = next(h, i)
    <3>1. CASE i = k
      <4>1. k - 1 \in 0 .. k /\ k \in 0 .. k /\ k - 1 # k /\ k # 0
        BY <2>2
      <4>2. h[k - 1] = g[k - 1] /\ h[k] = step[k][g[k - 1]]
        BY <4>1
      <4> HIDE DEF h
      <4> QED BY <3>1, <4>1, <4>2
    <3>2. CASE i # k /\ i # 0
      <4>1. i \in 0 .. k - 1 /\ i - 1 \in 0 .. k - 1 /\ i - 1 # k /\ i - 1 \in 0 .. k
        BY <2>2, <3>2
      <4>2. h[i] = g[i] /\ h[i - 1] = g[i - 1]
        BY <3>2, <4>1
      <4>3. g[i] = next(g, i)
        BY <2>3, <4>1
      <4> HIDE DEF h
      <4> QED BY <3>2, <4>2, <4>3
    <3>3. CASE i # k /\ i = 0
      <4>1. 0 \in 0 .. k - 1 /\ 0 \in 0 .. k
        BY <2>2
      <4>2. h[0] = g[0] /\ g[0] = x
        BY <2>3, <3>3, <4>1
      <4> HIDE DEF h
      <4> QED BY <3>3, <4>2
    <3> QED BY <3>1, <3>2, <3>3
  <2>7. Upto(h, k)
    <3> HIDE DEF h, next
    <3> QED BY <2>5, <2>6
  <2> QED BY <2>2, <2>7
<1>3. \E g : Upto(g, n)
  <2>1. CASE n = 0
    BY <1>1, <2>1
  <2>2. CASE n # 0
    <3>1. n \in 1 .. n
      BY <2>2
    <3> HIDE DEF Upto
    <3> QED BY <1>2, <3>1
  <2> QED BY <2>1, <2>2
<1>4. PICK g : Upto(g, n)
  BY <1>3
<1>5. g[0] = x /\ \A i \in 1 .. n : g[i] = step[i][g[i - 1]]
  <2>1. 0 \in 0 .. n /\ \A i \in 1 .. n : i \in 0 .. n /\ i # 0
    OBVIOUS
  <2> QED BY <1>4, <2>1
<1> QED BY <1>4, <1>5 DEF Recursive

-----------------------------------------------------------------------------
(* Texts. *)
Block == [id : STRING, norm : STRING, len : Int, level : Int, kind : STRING, hint : STRING]
PageOf == [n : Int, score : Int, region : BOOLEAN, blocks : Seq(Block)]

LEMMA SpanIs ==
    ASSUME NEW bs \in Seq(Block)
    PROVE  Span(bs) \in Int
<1> DEFINE n == Len(bs)
           upto == CHOOSE g : g = [i \in 0 .. n |->
                                      IF i = 0 THEN -Sep ELSE g[i - 1] + Sep + bs[i].len]
           step == [i \in 1 .. n |-> [u \in Int |-> u + Sep + bs[i].len]]
<1>1. n \in Nat /\ \A i \in 1 .. n : bs[i].len \in Int
  <2>1. \A b \in Block : b.len \in Int
    BY DEF Block
  <2> QED BY <2>1
<1>2. Sep \in Int /\ -Sep \in Int
  BY DEF Sep
<1>3. Closed(Int, n, step)
  <2> HIDE DEF n
  <2> QED BY <1>1, <1>2 DEF Closed
<1>4. \E g : g = [i \in 0 .. n |-> IF i = 0 THEN -Sep ELSE g[i - 1] + Sep + bs[i].len]
  <2>1. PICK g : Recursive(g, Int, n, -Sep, step)
    <3> HIDE DEF step, n
    <3> QED BY <1>1, <1>2, <1>3, RecursionIs
  <2>2. ASSUME NEW i \in 0 .. n, i # 0 PROVE g[i] = g[i - 1] + Sep + bs[i].len
    <3>1. i - 1 \in 0 .. n /\ i \in 1 .. n
      BY <1>1, <2>2
    <3>2. g[i - 1] \in Int
      BY <2>1, <3>1 DEF Recursive
    <3> QED BY <2>1, <3>1, <3>2 DEF Recursive
  <2> HIDE DEF step, n
  <2>3. g = [i \in 0 .. n |-> IF i = 0 THEN -Sep ELSE g[i - 1] + Sep + bs[i].len]
    <3>1. g = [i \in 0 .. n |-> g[i]] /\ g[0] = -Sep
      BY <2>1 DEF Recursive
    <3> QED BY <2>2, <3>1
  <2> QED BY <2>3
<1>5. upto = [i \in 0 .. n |-> IF i = 0 THEN -Sep ELSE upto[i - 1] + Sep + bs[i].len]
  BY <1>4
<1>6. Span(bs) = IF bs = <<>> THEN 0 ELSE upto[n]
  BY DEF Span
<1> HIDE DEF upto
<1>7. upto[0] \in Int /\ \A i \in 1 .. n : upto[i - 1] \in Int => upto[i] \in Int
  <2>1. 0 \in 0 .. n /\ \A i \in 1 .. n : i \in 0 .. n /\ i # 0
    BY <1>1
  <2> HIDE DEF n
  <2>2. upto[0] = -Sep
    BY <1>5, <2>1
  <2>3. \A i \in 1 .. n : upto[i] = upto[i - 1] + Sep + bs[i].len
    BY <1>5, <2>1
  <2>4. ASSUME NEW i \in 1 .. n, upto[i - 1] \in Int PROVE upto[i] \in Int
    <3>1. upto[i] = upto[i - 1] + Sep + bs[i].len /\ bs[i].len \in Int
      BY <1>1, <1>2, <2>3
    <3> QED BY <2>4, <3>1 DEF Sep
  <2> QED BY <2>2, <2>4 DEF Sep
<1>8. \A i \in 0 .. n : upto[i] \in Int
  <2> HIDE DEF n
  <2> QED BY <1>1, <1>7, ByPlace, Zenon
<1>9. n \in 0 .. n
  BY <1>1
<1> QED BY <1>6, <1>8, <1>9

LEMMA PackIs ==
    ASSUME NEW T, NEW pieces \in Seq(T)
    PROVE  Pack(pieces) \in Seq(Seq(T))
<1> DEFINE n == Len(pieces)
           X == Seq(Seq(T))
           fits(chunk, p) == Span(chunk) + p.len + Sep <= MaxChars
           add(done, p) == IF done # <<>> /\ fits(Last(done), p)
                           THEN [done EXCEPT ![Len(done)] = Append(@, p)]
                           ELSE Append(done, <<p>>)
           next(g, i) == IF i = 0 THEN <<>> ELSE With(g[i - 1], LAMBDA done : add(done, pieces[i]))
           packed == CHOOSE g : g = [i \in 0 .. n |-> next(g, i)]
           step == [i \in 1 .. n |-> [u \in X |-> add(u, pieces[i])]]
<1>1. n \in Nat /\ \A i \in 1 .. n : pieces[i] \in T
  OBVIOUS
<1>2. ASSUME NEW done \in X, NEW p \in T PROVE add(done, p) \in X
  <2>1. Append(done, <<p>>) \in X
    <3>1. <<p>> \in Seq(T)
      OBVIOUS
    <3> QED BY <3>1
  <2>2. CASE done # <<>>
    <3>1. Len(done) \in 1 .. Len(done) /\ done[Len(done)] \in Seq(T)
      BY <2>2
    <3>2. Append(done[Len(done)], p) \in Seq(T)
      BY <3>1
    <3>3. [done EXCEPT ![Len(done)] = Append(@, p)] \in X
      BY <3>1, <3>2
    <3> HIDE DEF fits, X
    <3> QED BY <2>1, <3>3
  <2>3. CASE done = <<>>
    <3> HIDE DEF fits, X
    <3> QED BY <2>1, <2>3
  <2> QED BY <2>2, <2>3
<1>3. \A g, i : next(g, i) = IF i = 0 THEN <<>> ELSE add(g[i - 1], pieces[i])
  <2> HIDE DEF add
  <2> QED BY DEF With
<1>4. <<>> \in X
  OBVIOUS
<1>5. Pack(pieces) = packed[n]
  BY DEF Pack
<1> HIDE DEF n, X, add, next
<1>6. Closed(X, n, step)
  BY <1>1, <1>2 DEF Closed
<1>7. \E g : g = [i \in 0 .. n |-> next(g, i)]
  <2>1. PICK g : Recursive(g, X, n, <<>>, step)
    <3> HIDE DEF step
    <3> QED BY <1>1, <1>4, <1>6, RecursionIs
  <2>2. ASSUME NEW i \in 0 .. n PROVE next(g, i) = g[i]
    <3>1. CASE i = 0
      BY <1>3, <2>1, <3>1 DEF Recursive
    <3>2. CASE i # 0
      <4>1. i - 1 \in 0 .. n /\ i \in 1 .. n
        BY <1>1, <3>2
      <4>2. g[i - 1] \in X
        BY <2>1, <4>1 DEF Recursive
      <4>3. step[i][g[i - 1]] = add(g[i - 1], pieces[i])
        BY <4>1, <4>2
      <4> QED BY <1>3, <2>1, <3>2, <4>1, <4>3 DEF Recursive
    <3> QED BY <3>1, <3>2
  <2> HIDE DEF step
  <2>3. g = [i \in 0 .. n |-> next(g, i)]
    <3>1. g = [i \in 0 .. n |-> g[i]]
      BY <2>1 DEF Recursive
    <3> QED BY <2>2, <3>1
  <2> QED BY <2>3
<1>8. packed = [i \in 0 .. n |-> next(packed, i)]
  BY <1>7
<1> HIDE DEF packed
<1>9. packed[0] \in X /\ \A i \in 1 .. n : packed[i - 1] \in X => packed[i] \in X
  <2>1. 0 \in 0 .. n /\ \A i \in 1 .. n : i \in 0 .. n /\ i # 0
    BY <1>1
  <2>2. packed[0] = <<>>
    BY <1>3, <1>8, <2>1
  <2>3. \A i \in 1 .. n : packed[i] = add(packed[i - 1], pieces[i])
    BY <1>3, <1>8, <2>1
  <2> QED BY <1>1, <1>2, <1>4, <2>2, <2>3
<1>10. \A i \in 0 .. n : packed[i] \in X
  BY <1>1, <1>9, ByPlace, Zenon
<1>11. n \in 0 .. n
  BY <1>1
<1> QED BY <1>5, <1>10, <1>11 DEF X

Associates(T) == \A x, y, z \in Seq(T) : (x \o y) \o z = x \o (y \o z)

LEMMA Regroup == ASSUME NEW T PROVE Associates(T)
<1>1. ASSUME NEW x \in Seq(T), NEW y \in Seq(T), NEW z \in Seq(T)
      PROVE  (x \o y) \o z = x \o (y \o z)
  BY ConcatAssociative
<1> QED BY <1>1 DEF Associates

(* A sequence of whatever kind. *)
IsSeq(s) == \E T : s \in Seq(T)

LEMMA ByItem ==
    ASSUME NEW n \in Int, NEW s, s = [i \in 1 .. n |-> s[i]]
    PROVE  IsSeq(s)
<1> DEFINE T == {s[i] : i \in 1 .. n}
           m == IF n < 0 THEN 0 ELSE n
<1>1. m \in Nat /\ 1 .. n = 1 .. m
  OBVIOUS
<1>2. s \in [1 .. m -> T]
  <2>1. \A i \in 1 .. m : s[i] \in T
    BY <1>1
  <2>2. s = [i \in 1 .. m |-> s[i]]
    BY <1>1
  <2> HIDE DEF T, m
  <2> QED BY <2>1, <2>2
<1>3. s \in Seq(T)
  <2> HIDE DEF T, m
  <2> QED BY <1>1, <1>2
<1> QED BY <1>3 DEF IsSeq

LEMMA PickedType ==
    ASSUME NEW T, NEW s \in Seq(T), NEW at \in SUBSET DOMAIN s
    PROVE  Picked(s, at) \in Seq(T)
BY PickedSome, SomeOfIs

LEMMA OfTwo ==
    ASSUME NEW a \in Int, NEW b \in Int
    PROVE  /\ Min({a, b}) \in {a, b} /\ Min({a, b}) <= a /\ Min({a, b}) <= b
           /\ Max({a, b}) \in {a, b} /\ Max({a, b}) >= a /\ Max({a, b}) >= b
<1>1. \E x \in {a, b} : \A y \in {a, b} : x <= y
  <2>1. a <= b \/ b <= a
    OBVIOUS
  <2> QED BY <2>1
<1>2. \E x \in {a, b} : \A y \in {a, b} : x >= y
  <2>1. a >= b \/ b >= a
    OBVIOUS
  <2> QED BY <2>1
<1> QED BY <1>1, <1>2 DEF Min, Max

LEMMA StripBoilerplateIs ==
    ASSUME NEW bs \in Seq(Block)
    PROVE  StripBoilerplate(bs) \in Seq(Block)
<1> DEFINE at == {i \in DOMAIN bs : bs[i].kind # "noise"}
<1>1. StripBoilerplate(bs) = Picked(bs, at)
  BY DEF StripBoilerplate, Kept, With
<1>2. at \in SUBSET DOMAIN bs
  OBVIOUS
<1> HIDE DEF at
<1> QED BY <1>1, <1>2, PickedType

LEMMA StripTocCuts ==
    ASSUME NEW bs \in Seq(Block)
    PROVE  \/ StripToc(bs) = bs
           \/ \E a \in 0 .. Len(bs) : \E b \in a + 1 .. Len(bs) + 1 :
                 StripToc(bs) = SubSeq(bs, 1, a) \o SubSeq(bs, b, Len(bs))
<1> DEFINE last == Min({ScanBlocks, Len(bs)})
           run(e) == {i \in 1 .. e - 1 : /\ bs[i].kind = "clause"
                                         /\ \A j \in i .. e - 1 : bs[j].kind # "wide"}
           ends == {e \in 1 .. last + 1 : /\ e > last \/ bs[e].kind = "wide"
                                          /\ Cardinality(run(e)) >= MinClauses}
           end == Min(ends)
           first == Min(run(end))
           headers == {i \in Max({1, first - 5}) .. first - 1 :
                           bs[i].kind = "clause" /\ bs[i].hint = "toc"}
           from == Min(headers \union {first})
<1>1. Len(bs) \in Nat /\ ScanBlocks \in Nat /\ MinClauses \in Nat \ {0}
  BY ContentAssumption
<1>2. last \in Nat /\ last <= Len(bs)
  <2>1. last \in {ScanBlocks, Len(bs)} /\ last <= Len(bs)
    <3>1. ScanBlocks \in Int /\ Len(bs) \in Int
      BY <1>1
    <3> QED BY <3>1, OfTwo, Zenon
  <2> QED BY <1>1, <2>1
<1>3. SUFFICES ASSUME ends # {}
               PROVE  from - 1 \in 0 .. Len(bs) /\ end \in from - 1 + 1 .. Len(bs) + 1
  BY Zenon DEF StripToc
<1> HIDE DEF last
<1>4. end \in ends
  <2>1. ends \in SUBSET (1 .. last + 1)
    OBVIOUS
  <2>2. IsFiniteSet(1 .. last + 1)
    BY <1>2, FS_Interval
  <2> HIDE DEF ends
  <2>3. ends \in SUBSET Int
    BY <1>2, <2>1
  <2>4. IsFiniteSet(ends)
    BY <2>1, <2>2, FS_Subset
  <2> QED BY <1>3, <2>3, <2>4, LeastAndGreatest
<1>5. end \in 1 .. last + 1 /\ Cardinality(run(end)) >= MinClauses
  BY <1>4
<1> HIDE DEF end
<1> DEFINE lines == run(end)
<1>6. lines \in SUBSET (1 .. end - 1)
  OBVIOUS
<1>7. first = Min(lines) /\ Cardinality(lines) >= MinClauses
  BY <1>5
<1> HIDE DEF lines, first
<1>8. first \in 1 .. end - 1
  <2>1. IsFiniteSet(1 .. end - 1)
    <3>1. 1 \in Int /\ end - 1 \in Int
      BY <1>2, <1>5
    <3> QED BY ONLY <3>1, FS_Interval
  <2>2. IsFiniteSet(lines)
    BY <1>6, <2>1, FS_Subset
  <2>3. lines \in SUBSET Int
    BY <1>6
  <2>4. lines # {}
    <3>1. Cardinality({}) = 0
      BY FS_EmptySet
    <3>2. lines = {} => Cardinality(lines) = 0
      BY <3>1, Zenon
    <3> QED BY <1>1, <1>7, <3>2
  <2>5. first \in lines
    BY <1>7, <2>2, <2>3, <2>4, LeastAndGreatest
  <2> QED BY <1>6, <2>5
<1>9. from \in 1 .. first
  <2>1. Max({1, first - 5}) \in Nat \ {0}
    <3>1. first - 5 \in Int
      BY <1>2, <1>5, <1>8
    <3>2. Max({1, first - 5}) \in {1, first - 5} /\ Max({1, first - 5}) >= 1
      <4>1. 1 \in Int
        OBVIOUS
      <4> QED BY <3>1, <4>1, OfTwo, Zenon
    <3> QED BY <3>1, <3>2
  <2>2. headers \union {first} \in SUBSET (1 .. first)
    <3> HIDE DEF from
    <3>1. headers \in SUBSET (Max({1, first - 5}) .. first - 1) /\ first \in Int
      BY <1>2, <1>5, <1>8
    <3> HIDE DEF headers
    <3>2. Max({1, first - 5}) .. first - 1 \in SUBSET (1 .. first) /\ first \in 1 .. first
      BY <1>8, <2>1, <3>1
    <3> QED BY <3>1, <3>2
  <2> HIDE DEF headers
  <2>3. IsFiniteSet(1 .. first)
    BY <1>2, <1>5, <1>8, FS_Interval
  <2>4. IsFiniteSet(headers \union {first}) /\ headers \union {first} \in SUBSET Int
    BY <2>2, <2>3, FS_Subset
  <2>5. from \in headers \union {first}
    BY <2>4, LeastAndGreatest
  <2> QED BY <2>2, <2>5
<1> HIDE DEF from
<1> QED BY <1>1, <1>2, <1>5, <1>8, <1>9

LEMMA StripTocIs ==
    ASSUME NEW bs \in Seq(Block)
    PROVE  StripToc(bs) \in Seq(Block)
<1>1. SUFFICES ASSUME NEW a \in 0 .. Len(bs), NEW b \in a + 1 .. Len(bs) + 1
               PROVE  SubSeq(bs, 1, a) \o SubSeq(bs, b, Len(bs)) \in Seq(Block)
  BY StripTocCuts
<1>2. SubSeq(bs, 1, a) \in Seq(Block) /\ SubSeq(bs, b, Len(bs)) \in Seq(Block)
  OBVIOUS
<1> QED BY <1>2, ConcatIs

LEMMA CleanIs ==
    ASSUME NEW bs \in Seq(Block)
    PROVE  Clean(bs) \in Seq(Block)
BY StripBoilerplateIs, StripTocIs DEF Clean

LEMMA TextPagesIs ==
    ASSUME NEW pages \in Seq(PageOf)
    PROVE  TextPages(pages) \in Seq(PageOf)
<1>1. PICK at : at \in SUBSET DOMAIN pages /\ TextPages(pages) = Picked(pages, at)
  <2> DEFINE visual(i, used) == Visual(pages[i], used, VisualBudget(Len(pages)))
             used[i \in 0 .. Len(pages)] ==
               IF i = 0 THEN 0
               ELSE LET before == used[i - 1] IN IF visual(i, before) THEN before + 1 ELSE before
             at == {i \in DOMAIN pages : ~visual(i, used[i - 1])}
  <2>1. at \in SUBSET DOMAIN pages
    OBVIOUS
  <2>2. TextPages(pages) = Picked(pages, at)
    BY DEF TextPages
  <2> HIDE DEF at
  <2> QED BY <2>1, <2>2
<1> QED BY <1>1, PickedType

LEMMA StripRepeatedIs ==
    ASSUME NEW pages \in Seq(PageOf)
    PROVE  StripRepeated(pages) \in Seq(PageOf)
<1> DEFINE times(norm) == Cardinality({i \in DOMAIN pages : norm \in EdgeNorms(pages[i])})
           repeated == {norm \in UNION {EdgeNorms(pages[i]) : i \in DOMAIN pages} :
                           times(norm) >= Max({2, (35 * Len(pages)) \div 100})}
           at(i) == {k \in DOMAIN pages[i].blocks : pages[i].blocks[k].norm \notin repeated}
           left(i) == [pages[i] EXCEPT !.blocks = Picked(pages[i].blocks, at(i))]
<1>2. StripRepeated(pages) = [i \in DOMAIN pages |-> left(i)]
  BY DEF StripRepeated, Kept, With
<1> HIDE DEF repeated
<1>3. DOMAIN pages = 1 .. Len(pages) /\ Len(pages) \in Nat
  OBVIOUS
<1>4. ASSUME NEW i \in DOMAIN pages PROVE left(i) \in PageOf
  <2>1. pages[i] \in PageOf
    OBVIOUS
  <2>2. pages[i].blocks \in Seq(Block)
    BY <2>1 DEF PageOf
  <2>3. Picked(pages[i].blocks, at(i)) \in Seq(Block)
    <3>1. at(i) \in SUBSET DOMAIN pages[i].blocks
      OBVIOUS
    <3> HIDE DEF at
    <3> QED BY <2>2, <3>1, PickedType
  <2> HIDE DEF at
  <2> QED BY <2>1, <2>3 DEF PageOf
<1> HIDE DEF left
<1> QED BY <1>2, <1>3, <1>4

LEMMA PayloadIs ==
    ASSUME NEW pages \in Seq(PageOf), NEW erased
    PROVE  Payload(pages, erased).text \in Seq(Block)
<1> DEFINE at(i) == {k \in DOMAIN pages[i].blocks : pages[i].blocks[k].kind \notin erased}
           left == [i \in DOMAIN pages |-> Picked(pages[i].blocks, at(i))]
<1>1. Payload(pages, erased).text = FlattenSeq(left)
  BY DEF Payload, Kept, With
<1>2. DOMAIN pages = 1 .. Len(pages) /\ Len(pages) \in Nat
  OBVIOUS
<1>3. ASSUME NEW i \in DOMAIN pages PROVE Picked(pages[i].blocks, at(i)) \in Seq(Block)
  <2>1. pages[i] \in PageOf
    OBVIOUS
  <2>2. pages[i].blocks \in Seq(Block)
    BY <2>1 DEF PageOf
  <2>3. at(i) \in SUBSET DOMAIN pages[i].blocks
    OBVIOUS
  <2> HIDE DEF at
  <2> QED BY <2>2, <2>3, PickedType
<1> HIDE DEF at
<1>4. left \in Seq(Seq(Block))
  BY <1>2, <1>3
<1> QED BY <1>1, <1>4, FlattenIs

LEMMA PagesAre ==
    ASSUME NEW d \in Documents
    PROVE  d.pages \in Seq(PageOf)
<1> DEFINE Full == [id : STRING, norm : STRING, len : Nat \ {0}, level : Int, kind : STRING,
                    hint : STRING]
           Paper == [n : Int, score : Int, region : BOOLEAN, blocks : Seq(Full)]
<1>1. d.pages \in Seq(Paper)
  BY ContentAssumption
<1>2. Full \subseteq Block
  BY DEF Block
<1>3. Seq(Full) \subseteq Seq(Block)
  <2> HIDE DEF Full
  <2> QED BY <1>2, SeqMonotonic
<1>4. Paper \subseteq PageOf
  <2> HIDE DEF Full
  <2> QED BY <1>3 DEF PageOf
<1> HIDE DEF Paper
<1> QED BY <1>1, <1>4

LEMMA TextsAre ==
    ASSUME doc \in Documents
    PROVE  /\ \A t \in Extractions : t.text \in Seq(Block)
           /\ \A t \in ContentReadings : t.text \in Seq(Block)
<1>1. doc.pages \in Seq(PageOf)
  BY PagesAre
<1>2. RoutedText(doc.pages).text \in Seq(Block)
  BY <1>1, TextPagesIs, PayloadIs DEF RoutedText
<1>3. MarkdownText(doc.pages).text \in Seq(Block) /\ PlainText(doc.pages).text \in Seq(Block)
  BY <1>1, StripRepeatedIs, PayloadIs DEF MarkdownText, PlainText
<1>4. NoText.text \in Seq(Block)
  BY DEF NoText
<1> DEFINE each == [i \in DOMAIN doc.pages |-> doc.pages[i].blocks]
<1>5. OnePage(FlattenSeq(each)).text \in Seq(Block)
  <2>1. DOMAIN doc.pages = 1 .. Len(doc.pages) /\ Len(doc.pages) \in Nat
    BY <1>1
  <2>2. \A i \in DOMAIN doc.pages : doc.pages[i].blocks \in Seq(Block)
    <3>1. \A p \in PageOf : p.blocks \in Seq(Block)
      BY DEF PageOf
    <3> QED BY <1>1, <3>1
  <2>3. each \in Seq(Seq(Block))
    BY <2>1, <2>2
  <2> HIDE DEF each
  <2>4. FlattenSeq(each) \in Seq(Block)
    BY <2>3, FlattenIs
  <2> QED BY <2>4 DEF OnePage
<1>6. \A t \in Extractions : t.text \in Seq(Block)
  BY <1>3, <1>4, <1>5 DEF Extractions
<1> QED BY <1>2, <1>6 DEF ContentReadings

-----------------------------------------------------------------------------
(* Chunks. *)
LEMMA SlicesAre ==
    ASSUME NEW bs \in Seq(Block)
    PROVE  IsSeq(Slices(bs))
<1> DEFINE n == (Span(bs) + SliceChars - 1) \div SliceChars
<1>1. n \in Int
  <2>1. SliceChars \in Nat \ {0}
    BY ContentAssumption
  <2>2. Span(bs) \in Int
    BY SpanIs
  <2> QED BY <2>1, <2>2
<1>2. \E f : Slices(bs) = [k \in 1 .. n |-> f[k]]
  <2>1. Slices(bs) = [k \in 1 .. n |-> Slices(bs)[k]]
    BY DEF Slices
  <2> QED BY <2>1
<1> HIDE DEF n
<1>3. Slices(bs) = [k \in 1 .. n |-> Slices(bs)[k]]
  BY <1>2
<1> QED BY <1>1, <1>3, ByItem

LEMMA WindowsAre ==
    ASSUME NEW groups, IsSeq(groups), NEW base, NEW path
    PROVE  IsSeq(Windows(groups, base, path))
<1> DEFINE w == Windows(groups, base, path)
<1>1. Len(groups) \in Int
  BY DEF IsSeq
<1>2. w = [i \in 1 .. Len(groups) |-> w[i]]
  BY DEF Windows
<1> HIDE DEF w
<1>3. IsSeq(w)
  BY <1>1, <1>2, ByItem
<1> QED BY <1>3 DEF w

(* Sequences put one after the other are a sequence. *)
LEMMA FlattenedIs ==
    ASSUME NEW n \in Nat, NEW s, s = [i \in 1 .. n |-> s[i]], \A i \in 1 .. n : IsSeq(s[i])
    PROVE  IsSeq(FlattenSeq(s))
<1> DEFINE T == UNION {{s[i][k] : k \in DOMAIN s[i]} : i \in 1 .. n}
<1>1. ASSUME NEW i \in 1 .. n PROVE s[i] \in Seq(T)
  <2>1. PICK X : s[i] \in Seq(X)
    BY DEF IsSeq
  <2>2. s[i] = [k \in 1 .. Len(s[i]) |-> s[i][k]] /\ Len(s[i]) \in Nat
        /\ DOMAIN s[i] = 1 .. Len(s[i])
    BY <2>1
  <2>3. \A k \in 1 .. Len(s[i]) : s[i][k] \in T
    BY <2>2
  <2> HIDE DEF T
  <2> QED BY <2>2, <2>3
<1> HIDE DEF T
<1>2. s \in Seq(Seq(T))
  BY <1>1
<1> QED BY <1>2, FlattenIs DEF IsSeq

LEMMA PackedIs ==
    ASSUME NEW s, IsSeq(s)
    PROVE  IsSeq(Pack(s))
BY PackIs DEF IsSeq

LEMMA PiecesAre ==
    ASSUME NEW b \in Block
    PROVE  IsSeq(Pieces(b))
<1> DEFINE n == (b.len + MaxChars - 1) \div MaxChars
           p == Pieces(b)
<1>1. MaxChars \in Nat \ {0} /\ b.len \in Int
  BY ContentAssumption DEF Block
<1>2. n \in Int
  BY <1>1
<1>3. p = [k \in 1 .. n |-> p[k]]
  BY DEF Pieces
<1> HIDE DEF n, p
<1>4. IsSeq(p)
  BY <1>2, <1>3, ByItem
<1> QED BY <1>4 DEF p

LEMMA RecursiveSplitIs ==
    ASSUME NEW bs \in Seq(Block)
    PROVE  IsSeq(RecursiveSplit(bs))
<1> DEFINE s == [i \in DOMAIN bs |-> Pieces(bs[i])]
<1>1. Len(bs) \in Nat /\ DOMAIN bs = 1 .. Len(bs) /\ \A i \in 1 .. Len(bs) : bs[i] \in Block
  OBVIOUS
<1>2. s = [i \in 1 .. Len(bs) |-> s[i]] /\ \A i \in 1 .. Len(bs) : IsSeq(s[i])
  BY <1>1, PiecesAre
<1> HIDE DEF s
<1>3. IsSeq(FlattenSeq(s))
  BY <1>1, <1>2, FlattenedIs
<1>4. IsSeq(Windows(Pack(FlattenSeq(s)), 0, <<>>))
  BY <1>3, PackedIs, WindowsAre
<1> QED BY <1>4 DEF RecursiveSplit, s

LEMMA OneIsSeq ==
    ASSUME NEW x
    PROVE  IsSeq(<<x>>) /\ IsSeq(<<>>)
<1>1. <<x>> \in Seq({x}) /\ <<>> \in Seq({x})
  OBVIOUS
<1> QED BY <1>1 DEF IsSeq

LEMMA SectionEndIs ==
    ASSUME NEW bs \in Seq(Block), NEW h
    PROVE  SectionEnd(bs, h) \in Int
<1> DEFINE later == {i \in Headings(bs) : i > h}
           ends == later \union {Len(bs) + 1}
<1>1. Len(bs) \in Nat /\ later \in SUBSET (1 .. Len(bs))
  BY DEF Headings
<1> HIDE DEF later
<1>2. ends \in SUBSET (1 .. Len(bs) + 1) /\ ends # {}
  <2>1. Len(bs) + 1 \in 1 .. Len(bs) + 1 /\ 1 .. Len(bs) \in SUBSET (1 .. Len(bs) + 1)
    BY <1>1
  <2> QED BY <1>1, <2>1
<1>3. IsFiniteSet(1 .. Len(bs) + 1)
  BY <1>1, FS_Interval
<1> HIDE DEF ends
<1>4. IsFiniteSet(ends)
  BY <1>2, <1>3, FS_Subset
<1>5. ends \in SUBSET Int
  BY <1>1, <1>2
<1>6. Min(ends) \in Int
  BY <1>2, <1>4, <1>5, LeastAndGreatest
<1> QED BY <1>6 DEF SectionEnd, ends, later

LEMMA OpenerIs ==
    ASSUME NEW bs \in Seq(Block), NEW c \in Closers(bs)
    PROVE  Opener(bs, c) \in Int
<1> DEFINE since == {h \in Headings(bs) : \A d \in Closers(bs) : d < c => d < h}
<1>1. Len(bs) \in Nat /\ since \in SUBSET (1 .. Len(bs))
  BY DEF Headings
<1>2. c \in since
  BY DEF Closers
<1>3. IsFiniteSet(1 .. Len(bs))
  BY <1>1, FS_Interval
<1> HIDE DEF since
<1>4. IsFiniteSet(since)
  BY <1>1, <1>3, FS_Subset
<1>5. since \in SUBSET Int /\ since # {}
  BY <1>1, <1>2
<1>6. Min(since) \in Int
  BY <1>4, <1>5, LeastAndGreatest
<1> QED BY <1>6 DEF Opener, since

LEMMA SectionIs ==
    ASSUME NEW bs \in Seq(Block), NEW c \in Closers(bs)
    PROVE  IsSeq(Section(bs, c))
<1> DEFINE inside == SubSeq(bs, Opener(bs, c), SectionEnd(bs, c))
           m == SectionEnd(bs, c) - Opener(bs, c) + 1
<1>1. Opener(bs, c) \in Int /\ SectionEnd(bs, c) \in Int
  BY OpenerIs, SectionEndIs
<1>2. m \in Int /\ inside = [i \in 1 .. m |-> inside[i]]
  BY <1>1
<1> HIDE DEF inside, m
<1>3. IsSeq(inside)
  BY <1>2, ByItem
<1>4. \A start, path : IsSeq(Windows(Pack(inside), start, path))
  BY <1>3, PackedIs, WindowsAre
<1>5. \A x : IsSeq(<<x>>)
  BY OneIsSeq
<1> QED BY <1>4, <1>5 DEF Section, inside

LEMMA JoinedIs ==
    ASSUME NEW s, IsSeq(s), NEW t, IsSeq(t)
    PROVE  /\ IsSeq(s \o t) /\ Len(s) \in Nat /\ Len(t) \in Nat
           /\ DOMAIN s = 1 .. Len(s) /\ DOMAIN t = 1 .. Len(t)
           /\ Len(s \o t) = Len(s) + Len(t) /\ DOMAIN (s \o t) = 1 .. Len(s) + Len(t)
           /\ \A k \in 1 .. Len(s) : (s \o t)[k] = s[k]
           /\ \A k \in 1 .. Len(t) : (s \o t)[Len(s) + k] = t[k]
<1>1. PICK X : s \in Seq(X)
  BY DEF IsSeq
<1>2. PICK Y : t \in Seq(Y)
  BY DEF IsSeq
<1>3. s \in Seq(X \union Y) /\ t \in Seq(X \union Y)
  BY <1>1, <1>2
<1>4. s \o t \in Seq(X \union Y) /\ Len(s \o t) = Len(s) + Len(t)
  BY <1>3, ConcatIs
<1>5. /\ \A k \in 1 .. Len(s) : (s \o t)[k] = s[k]
      /\ \A k \in 1 .. Len(t) : (s \o t)[Len(s) + k] = t[k]
  BY <1>3, ConcatIs
<1>6. IsSeq(s \o t) /\ DOMAIN (s \o t) = 1 .. Len(s \o t)
  BY <1>4 DEF IsSeq
<1> QED BY <1>1, <1>2, <1>4, <1>5, <1>6

LEMMA SemanticSplitIs ==
    ASSUME NEW bs \in Seq(Block)
    PROVE  IsSeq(SemanticSplit(bs))
<1> DEFINE s == [i \in DOMAIN bs |-> IF i \in Closers(bs) THEN Section(bs, i) ELSE <<>>]
<1>1. Len(bs) \in Nat /\ DOMAIN bs = 1 .. Len(bs)
  OBVIOUS
<1>2. s = [i \in 1 .. Len(bs) |-> s[i]] /\ \A i \in 1 .. Len(bs) : IsSeq(s[i])
  BY <1>1, SectionIs, OneIsSeq
<1> HIDE DEF s
<1>3. IsSeq(FlattenSeq(s))
  BY <1>1, <1>2, FlattenedIs
<1>4. IsSeq(Preamble(bs))
  BY OneIsSeq DEF Preamble
<1>5. IsSeq(Preamble(bs) \o FlattenSeq(s))
  BY <1>3, <1>4, JoinedIs
<1> QED BY <1>5, RecursiveSplitIs DEF SemanticSplit, s

-----------------------------------------------------------------------------
(* The rows of one attempt. *)
(* The chunks that are embedded; a row that its role and its vector agree  *)
(* on; a row with its own vector; and all the rows of one attempt.         *)
Texts(cs, st) == {i \in DOMAIN cs : st.skip => Searchable(OwnRole(cs[i]))}
Matches(r, st, d) ==
    /\ Searchable(r.role) => r.vec # NoVector
    /\ (st.skip /\ d.strategy = "CONTENT" /\ ~Searchable(r.role)) => r.vec = NoVector
Own(r, texts, vecs) ==
    \/ r.vec.of \in {0, r.n}
    \/ r.vec.by = "cohere" /\ \E k \in DOMAIN texts : texts[k] = r.n /\ vecs[RequestEnd(vecs, k)].of = 0
    \/ r.vec.by = "jina" /\ Last(vecs).of = 0
AllOwn(s, texts, vecs) == \A i \in DOMAIN s : Own(s[i], texts, vecs)
Ascending(s) == \A i, j \in DOMAIN s : i < j => s[i].n < s[j].n
OneProvider(s) == \E p : \A i \in DOMAIN s : s[i].vec.by \in {p, "none"}

Complete(s, cs, a, st, d) ==
    /\ IsSeq(s)
    /\ \A i \in DOMAIN s : s[i].attempt = a /\ Matches(s[i], st, d)
    /\ Ascending(s)
    /\ \A n \in Texts(cs, st) : \E i \in DOMAIN s : s[i].n = n
    /\ OneProvider(s)

LEMMA EmbeddedIs ==
    ASSUME NEW cs, IsSeq(cs)
    PROVE  /\ Embedded(cs) \in Seq(Int)
           /\ \A k \in DOMAIN Embedded(cs) : Embedded(cs)[k] \in Texts(cs, setup)
           /\ \A n \in Texts(cs, setup) : \E k \in DOMAIN Embedded(cs) : Embedded(cs)[k] = n
<1> DEFINE s == [i \in DOMAIN cs |-> i]
           at == Texts(cs, setup)
<1>1. Len(cs) \in Nat /\ DOMAIN cs = 1 .. Len(cs)
  BY DEF IsSeq
<1>2. s \in Seq(Int) /\ DOMAIN s = DOMAIN cs /\ \A i \in DOMAIN cs : s[i] = i
  BY <1>1
<1>3. Embedded(cs) = Picked(s, at) /\ at \in SUBSET DOMAIN s
  BY DEF Embedded, Texts
<1> HIDE DEF s, at
<1>4. SomeOf(Picked(s, at), s, at)
  BY <1>2, <1>3, PickedSome
<1> DEFINE t == Picked(s, at)
<1> HIDE DEF t
<1>5. /\ t \in Seq(Int)
      /\ \A k \in 1 .. Len(t) : \E i \in at : t[k] = s[i]
      /\ \A i \in at : \E k \in 1 .. Len(t) : t[k] = s[i]
  <2>1. SomeOf(t, s, at)
    BY <1>4 DEF t
  <2> DEFINE T == Int
  <2>2. s \in Seq(T) /\ at \in SUBSET DOMAIN s
    BY <1>2, <1>3
  <2> HIDE DEF T
  <2>3. t \in Seq(T) /\ Len(t) = Cardinality(at)
    BY <2>1, <2>2, SomeOfIs
  <2>4. PICK order \in [1 .. Cardinality(at) -> at] :
          /\ \A i \in at : \E k \in 1 .. Cardinality(at) : order[k] = i
          /\ t = [k \in 1 .. Cardinality(at) |-> s[order[k]]]
    BY <2>1 DEF SomeOf
  <2>5. /\ \A k \in 1 .. Len(t) : \E i \in at : t[k] = s[i]
        /\ \A i \in at : \E k \in 1 .. Len(t) : t[k] = s[i]
    BY <2>3, <2>4
  <2> QED BY <2>3, <2>5 DEF T
<1>6. DOMAIN t = 1 .. Len(t)
  BY <1>5
<1>7. /\ \A k \in DOMAIN t : t[k] \in at
      /\ \A n \in at : \E k \in DOMAIN t : t[k] = n
  <2>1. \A i \in at : s[i] = i
    BY <1>2, <1>3
  <2>2. ASSUME NEW k \in DOMAIN t PROVE t[k] \in at
    <3>1. PICK i \in at : t[k] = s[i]
      BY <1>5, <1>6
    <3> QED BY <2>1, <3>1
  <2>3. ASSUME NEW n \in at PROVE \E k \in DOMAIN t : t[k] = n
    <3>1. PICK k \in 1 .. Len(t) : t[k] = s[n]
      BY <1>5
    <3> QED BY <1>6, <2>1, <3>1
  <2> QED BY <2>2, <2>3
<1> QED BY <1>3, <1>5, <1>7 DEF t, at

(* Picking every place of a sequence leaves it as it is. *)
LEMMA PickedAll ==
    ASSUME NEW n \in Nat
    PROVE  Picked([i \in 1 .. n |-> i], 1 .. n) = [i \in 1 .. n |-> i]
<1> DEFINE s == [i \in 1 .. n |-> i]
<1>1. s \in Seq(Int) /\ DOMAIN s = 1 .. n /\ \A i \in 1 .. n : s[i] = i
  OBVIOUS
<1>2. IsFiniteSet(1 .. n) /\ Cardinality(1 .. n) = n
  BY UpTo
<1> HIDE DEF s
<1>3. PICK order \in [1 .. n -> 1 .. n] :
        /\ Ascends(order, 1 .. n)
        /\ Picked(s, 1 .. n) = [k \in 1 .. n |-> s[order[k]]]
  <2> DEFINE at == 1 .. n
  <2>1. at \in SUBSET DOMAIN s /\ Cardinality(at) = n
    BY <1>1, <1>2
  <2> HIDE DEF at
  <2>2. PICK order \in [1 .. Cardinality(at) -> at] :
          /\ Ascends(order, at)
          /\ Picked(s, at) = [k \in 1 .. Cardinality(at) |-> s[order[k]]]
    <3> DEFINE T == Int
    <3>1. s \in Seq(T) /\ at \in SUBSET DOMAIN s
      BY <1>1, <2>1
    <3> HIDE DEF T
    <3> QED BY ONLY <3>1, PickedIs
  <2> QED BY <2>1, <2>2 DEF at
<1>4. ASSUME NEW k \in 1 .. n PROVE order[k] = k
  <2>1. Place(1 .. n, AtMost(1 .. n), order[k]) = k /\ order[k] \in 1 .. n
    BY <1>2, <1>3 DEF Ascends, InPlace
  <2>2. UpToIn(1 .. n, AtMost(1 .. n), order[k]) = 1 .. order[k]
    BY <2>1 DEF UpToIn, AtMost
  <2>3. Cardinality(1 .. order[k]) = order[k]
    BY <2>1, UpTo
  <2> QED BY <2>1, <2>2, <2>3 DEF Place
<1>5. \A k \in 1 .. n : s[order[k]] = s[k]
  BY <1>4
<1>6. Picked(s, 1 .. n) = [k \in 1 .. n |-> s[k]]
  BY <1>3, <1>5
<1>7. Picked(s, 1 .. n) = s
  BY <1>1, <1>6 DEF s
<1> QED BY <1>7 DEF s

LEMMA AllEmbedded ==
    ASSUME NEW cs, IsSeq(cs), ~setup.skip
    PROVE  Embedded(cs) = [i \in DOMAIN cs |-> i]
<1>1. Len(cs) \in Nat /\ DOMAIN cs = 1 .. Len(cs)
  BY DEF IsSeq
<1> DEFINE n == Len(cs)
           at == {i \in DOMAIN cs : setup.skip => Searchable(OwnRole(cs[i]))}
<1>2. at = 1 .. n
  BY <1>1
<1>3. Embedded(cs) = Picked([i \in 1 .. n |-> i], at)
  BY <1>1 DEF Embedded
<1> HIDE DEF n, at
<1>4. Embedded(cs) = [i \in 1 .. n |-> i]
  BY <1>1, <1>2, <1>3, PickedAll DEF n
<1> QED BY <1>1, <1>4 DEF n

(* The vectors of some texts: their provider, whose text each of them is,  *)
(* and that the texts were all of them or the end is lost.                 *)
VectorsFor(vecs, texts, p) == p # "none" /\ \A k \in DOMAIN texts : vecs[k].by = p
Told(vecs, texts) ==
    \A k \in DOMAIN texts :
        \/ vecs[k].of \in {0, texts[k]}
        \/ vecs[k].by = "cohere" /\ vecs[RequestEnd(vecs, k)].of = 0
        \/ vecs[k].by = "jina" /\ Last(vecs).of = 0

LEMMA WindowCount ==
    ASSUME NEW x \in Nat, NEW c \in Nat \ {0}
    PROVE  /\ (x + c - 1) \div c \in Nat
           /\ x <= ((x + c - 1) \div c) * c
           /\ (((x + c - 1) \div c) - 1) * c < x
<1> DEFINE y == x + c - 1
           k == y \div c
<1>1. y \in Nat
  OBVIOUS
<1>2. k \in Nat /\ y = k * c + (y % c) /\ (y % c) \in 0 .. c - 1
  <2> HIDE DEF y
  <2> QED BY <1>1
<1>3. (k - 1) * c = k * c - c /\ k * c \in Int
  <2>1. k \in Int
    BY <1>2
  <2> HIDE DEF k
  <2> QED BY <2>1
<1> HIDE DEF k
<1>4. x <= k * c /\ (k - 1) * c < x
  <2> DEFINE z == k * c
             r == y % c
  <2>1. z \in Int /\ r \in 0 .. c - 1 /\ y = z + r /\ (k - 1) * c = z - c
    BY <1>2, <1>3
  <2> HIDE DEF z, r
  <2>2. x <= z /\ z - c < x
    BY <2>1
  <2> QED BY <2>1, <2>2 DEF z
<1> QED BY <1>2, <1>4 DEF k, y

LEMMA Multiples ==
    ASSUME NEW c \in Nat \ {0}, NEW k \in Int
    PROVE  k * c \in Int /\ (k - 1) * c \in Int /\ k * c = (k - 1) * c + c /\ 0 * c = 0
OBVIOUS

LEMMA TimesLess ==
    ASSUME NEW a \in Int, NEW b \in Int, NEW c \in Nat \ {0}, a * c < b * c
    PROVE  a < b
<1> SUFFICES ASSUME b <= a PROVE FALSE
  OBVIOUS
<1>1. PICK d \in Nat : a = b + d
  <2>1. a - b \in Nat /\ a = b + (a - b)
    OBVIOUS
  <2> QED BY <2>1
<1>2. a * c = b * c + d * c /\ d * c \in Nat /\ b * c \in Int
  BY <1>1
<1> QED BY <1>2

(* A request ends at the same text for each text of it.                    *)
LEMMA RequestEndIs ==
    ASSUME NEW n \in Nat, NEW s, Len(s) = n, NEW t, Len(t) = n, NEW i \in 1 .. n
    PROVE  /\ RequestEnd(s, i) \in i .. n
           /\ \A k \in i .. RequestEnd(s, i) : RequestEnd(t, k) = RequestEnd(s, i)
<1> DEFINE e == EmbedBatch
           q(k) == (k + e - 1) \div e
<1>1. e \in Nat \ {0}
  BY ContentAssumption
<1>2. /\ \A k : RequestEnd(s, k) = Min({n, q(k) * e})
      /\ \A k : RequestEnd(t, k) = Min({n, q(k) * e})
  BY DEF RequestEnd
<1>3. ASSUME NEW k \in 1 .. n
      PROVE  q(k) \in Nat /\ q(k) * e \in Int /\ k <= q(k) * e /\ (q(k) - 1) * e < k
  <2>1. k \in Nat
    OBVIOUS
  <2>2. q(k) \in Nat /\ k <= q(k) * e /\ (q(k) - 1) * e < k
    <3> HIDE DEF e
    <3> QED BY <1>1, <2>1, WindowCount
  <2>3. q(k) * e \in Int
    BY <1>1, <2>2, Multiples
  <2> QED BY <2>2, <2>3
<1> HIDE DEF e, q
<1>4. ASSUME NEW k \in 1 .. n
      PROVE  RequestEnd(s, k) \in {n, q(k) * e} /\ RequestEnd(s, k) <= n /\ RequestEnd(s, k) <= q(k) * e
  <2>1. n \in Int /\ q(k) * e \in Int
    BY <1>3
  <2> DEFINE z == q(k) * e
  <2> HIDE DEF z
  <2>2. LET y == Min({n, z}) IN y \in {n, z} /\ y <= n /\ y <= z
    BY <2>1, OfTwo, Zenon DEF z
  <2> QED BY <1>2, <2>2 DEF z
<1>5. RequestEnd(s, i) \in i .. n
  BY <1>3, <1>4
<1>6. ASSUME NEW k \in i .. RequestEnd(s, i) PROVE q(k) = q(i)
  <2>1. k \in 1 .. n /\ i <= k /\ k <= q(i) * e
    BY <1>3, <1>4, <1>5
  <2>2. (q(i) - 1) * e < q(k) * e
    <3>1. (q(i) - 1) * e \in Int
      <4>1. q(i) \in Int
        BY <1>3
      <4> QED BY <1>1, <4>1, Multiples
    <3> QED BY <1>3, <2>1, <3>1
  <2>3. (q(k) - 1) * e < q(i) * e
    <3>1. (q(k) - 1) * e \in Int
      <4>1. q(k) \in Int
        BY <1>3, <2>1
      <4> QED BY <1>1, <4>1, Multiples
    <3> QED BY <1>3, <2>1, <3>1
  <2>4. q(i) \in Int /\ q(k) \in Int /\ q(i) - 1 \in Int /\ q(k) - 1 \in Int
    BY <1>3, <2>1
  <2>5. q(i) - 1 < q(k) /\ q(k) - 1 < q(i)
    BY <1>1, <2>2, <2>3, <2>4, TimesLess
  <2> QED BY <2>4, <2>5
<1>7. \A k \in i .. RequestEnd(s, i) : RequestEnd(t, k) = RequestEnd(s, i)
  BY <1>2, <1>6
<1> QED BY <1>5, <1>7

LEMMA OutcomeIs ==
    ASSUME NEW texts, NEW n \in Nat, Len(texts) = n, DOMAIN texts = 1 .. n,
           NEW p \in {"cohere", "jina"}, NEW cut \in Cuts(texts)
    PROVE  LET vecs == Encoded(texts, p, cut) IN
           /\ DOMAIN vecs = 1 .. n /\ Len(vecs) = n /\ VectorsFor(vecs, texts, p) /\ Told(vecs, texts)
<1> DEFINE last == IF p = "cohere" THEN RequestEnd(texts, cut) ELSE n
           of == MovedUp(texts, cut, last)
           vecs == Encoded(texts, p, cut)
<1>1. cut \in 0 .. n
  BY DEF Cuts
<1>2. cut # 0 => last \in cut .. n
  BY <1>1, RequestEndIs
<1>3. vecs = [i \in DOMAIN of |-> [of |-> of[i], by |-> p]] /\ DOMAIN of = 1 .. n
  BY DEF Encoded, By, CohereVectors, JinaVectors, MovedUp
<1>4. \A k \in 1 .. n : (cut = 0 \/ k < cut \/ last < k) => of[k] = texts[k]
  BY DEF MovedUp
<1>5. cut # 0 => of[last] = 0
  BY <1>1, <1>2 DEF MovedUp
<1> HIDE DEF of, vecs
<1>6. DOMAIN vecs = 1 .. n /\ Len(vecs) = n /\ \A k \in 1 .. n : vecs[k].of = of[k] /\ vecs[k].by = p
  BY <1>3
<1>7. VectorsFor(vecs, texts, p)
  BY <1>6 DEF VectorsFor
<1>8. ASSUME NEW k \in 1 .. n, ~(cut = 0 \/ k < cut \/ last < k)
      PROVE  \/ p = "cohere" /\ vecs[RequestEnd(vecs, k)].of = 0
             \/ p = "jina" /\ Last(vecs).of = 0
  <2>1. last \in 1 .. n /\ k \in cut .. last /\ cut \in 1 .. n
    BY <1>1, <1>2, <1>8
  <2>2. vecs[last].of = 0
    BY <1>5, <1>6, <2>1
  <2>3. CASE p = "cohere"
    <3>1. k \in cut .. RequestEnd(texts, cut) /\ last = RequestEnd(texts, cut)
      BY <2>1, <2>3
    <3>2. RequestEnd(vecs, k) = last
      BY <1>6, <2>1, <3>1, RequestEndIs
    <3> QED BY <2>2, <2>3, <3>2
  <2>4. CASE p = "jina"
    BY <1>6, <2>2, <2>4 DEF Last
  <2> QED BY <2>3, <2>4
<1>9. Told(vecs, texts)
  BY <1>4, <1>6, <1>8 DEF Told
<1> QED BY <1>6, <1>7, <1>9 DEF vecs

LEMMA OutcomesAre ==
    ASSUME NEW texts \in Seq(Int), NEW vecs \in Outcomes(texts)
    PROVE  Told(vecs, texts) /\ \E p : VectorsFor(vecs, texts, p)
<1>1. PICK p \in Providers, cut \in Cuts(texts) : vecs = Encoded(texts, p, cut)
  BY DEF Outcomes
<1>2. p \in {"cohere", "jina"}
  BY DEF Providers
<1> DEFINE n == Len(texts)
<1>3. n \in Nat /\ DOMAIN texts = 1 .. n
  OBVIOUS
<1> HIDE DEF n
<1> QED BY <1>1, <1>2, <1>3, OutcomeIs DEF n

(* The answers of late chunking: a vector for every window, or Jina has    *)
(* none for the last.                                                      *)
LateFor(vecs, n) ==
    /\ Len(vecs) \in Nat /\ DOMAIN vecs = 1 .. Len(vecs) /\ Len(vecs) \in {n, n - 1}
    /\ \E p : VectorsFor(vecs, [i \in 1 .. Len(vecs) |-> i], p)
    /\ \/ Len(vecs) = n /\ Told(vecs, [i \in 1 .. n |-> i])
       \/ Len(vecs) + 1 = n /\ \A i \in DOMAIN vecs : vecs[i].by = "jina"

LEMMA LateVectorsAre ==
    ASSUME NEW n \in Nat, NEW vecs \in LateVectors(n)
    PROVE  LateFor(vecs, n)
<1> DEFINE texts == [i \in 1 .. n |-> i]
<1>1. texts = [i \in 1 .. n |-> i] /\ Len(texts) = n /\ DOMAIN texts = 1 .. n /\ \A i \in 1 .. n : texts[i] = i
  OBVIOUS
<1>2. \/ \E gone \in SUBSET (1 .. n) : vecs = By(Zeroed(n, gone), "jina")
      \/ \E cut \in 1 .. n : vecs = By(SubSeq(JinaVectors(texts, cut), 1, n - 1), "jina")
      \/ \E cut \in Cuts(texts) : vecs = Encoded(texts, "cohere", cut)
  <2> HIDE DEF texts
  <2> QED BY Zenon DEF LateVectors, texts
<1> HIDE DEF texts
<1>3. ASSUME NEW gone \in SUBSET (1 .. n), vecs = By(Zeroed(n, gone), "jina") PROVE LateFor(vecs, n)
  <2>1. /\ DOMAIN vecs = 1 .. n /\ Len(vecs) = n
        /\ \A k \in 1 .. n : vecs[k].by = "jina" /\ vecs[k].of \in {0, k}
    BY <1>3 DEF By, Zeroed
  <2>2. VectorsFor(vecs, texts, "jina") /\ Told(vecs, texts)
    BY <1>1, <2>1 DEF VectorsFor, Told
  <2> QED BY <1>1, <2>1, <2>2 DEF LateFor
<1>4. ASSUME NEW cut \in 1 .. n, vecs = By(SubSeq(JinaVectors(texts, cut), 1, n - 1), "jina")
      PROVE  LateFor(vecs, n)
  <2> DEFINE of == SubSeq(JinaVectors(texts, cut), 1, n - 1)
  <2>1. DOMAIN of = 1 .. n - 1
    <3>1. JinaVectors(texts, cut) \in Seq(Int)
      BY <1>1 DEF JinaVectors, MovedUp
    <3>2. Len(JinaVectors(texts, cut)) = n
      BY <1>1 DEF JinaVectors, MovedUp
    <3> DEFINE j == JinaVectors(texts, cut)
    <3> HIDE DEF j
    <3>3. j \in Seq(Int) /\ Len(j) = n /\ n \in Nat /\ n - 1 \in Nat
      BY <3>1, <3>2 DEF j
    <3>4. SubSeq(j, 1, n - 1) \in Seq(Int) /\ Len(SubSeq(j, 1, n - 1)) = n - 1
      BY <3>3
    <3> QED BY <3>4 DEF j
  <2> HIDE DEF of
  <2>2. vecs = [i \in 1 .. n - 1 |-> [of |-> of[i], by |-> "jina"]] /\ n - 1 \in Nat
    BY <1>4, <2>1 DEF By, of
  <2>3. DOMAIN vecs = 1 .. n - 1 /\ Len(vecs) = n - 1 /\ \A k \in 1 .. n - 1 : vecs[k].by = "jina"
    BY <2>2
  <2>4. VectorsFor(vecs, [i \in 1 .. n - 1 |-> i], "jina")
    BY <2>3 DEF VectorsFor
  <2>5. VectorsFor(vecs, [i \in 1 .. Len(vecs) |-> i], "jina")
    BY <2>3, <2>4
  <2>6. Len(vecs) \in Nat /\ Len(vecs) + 1 = n /\ Len(vecs) \in {n, n - 1}
    BY <2>2, <2>3
  <2>7. DOMAIN vecs = 1 .. Len(vecs) /\ \A i \in DOMAIN vecs : vecs[i].by = "jina"
    BY <2>3
  <2> QED BY <2>5, <2>6, <2>7 DEF LateFor
<1>5. ASSUME NEW cut \in Cuts(texts), vecs = Encoded(texts, "cohere", cut) PROVE LateFor(vecs, n)
  <2>1. /\ DOMAIN vecs = 1 .. n /\ Len(vecs) = n
        /\ VectorsFor(vecs, texts, "cohere") /\ Told(vecs, texts)
    BY <1>1, <1>5, OutcomeIs
  <2> QED BY <1>1, <2>1 DEF LateFor
<1> QED BY <1>2, <1>3, <1>4, <1>5

PlaceOf(cs, n) == SelectInSeq(Embedded(cs), LAMBDA i : i = n)
VectorOf(cs, vecs, n) == IF PlaceOf(cs, n) = 0 THEN NoVector ELSE vecs[PlaceOf(cs, n)]
RowOf(cs, vecs, late, n) == Final(Assembled(cs, n, VectorOf(cs, vecs, n), late))
KeptOf(cs, vecs, late) ==
    Picked([n \in DOMAIN cs |-> RowOf(cs, vecs, late, n)],
           {n \in DOMAIN cs : Storable(RowOf(cs, vecs, late, n))})

LEMMA PlaceOfIs ==
    ASSUME NEW cs, IsSeq(cs), NEW n
    PROVE  /\ PlaceOf(cs, n) = 0 => n \notin Texts(cs, setup)
           /\ PlaceOf(cs, n) # 0 => /\ PlaceOf(cs, n) \in DOMAIN Embedded(cs)
                                    /\ Embedded(cs)[PlaceOf(cs, n)] = n
<1> DEFINE s == Embedded(cs)
           I == {i \in 1 .. Len(s) : s[i] = n}
<1>1. s \in Seq(Int)
  BY EmbeddedIs
<1>2. \A m \in Texts(cs, setup) : \E k \in DOMAIN s : s[k] = m
  BY EmbeddedIs
<1>3. PlaceOf(cs, n) = IF I # {} THEN Min(I) ELSE 0
  BY DEF PlaceOf, SelectInSeq
<1> HIDE DEF s
<1>4. Len(s) \in Nat /\ DOMAIN s = 1 .. Len(s)
  BY <1>1
<1>5. CASE I = {}
  <2>1. PlaceOf(cs, n) = 0
    BY <1>3, <1>5
  <2>2. n \notin Texts(cs, setup)
    BY <1>2, <1>4, <1>5
  <2> QED BY <2>1, <2>2
<1>6. CASE I # {}
  <2>1. I \in SUBSET (1 .. Len(s)) /\ \A i \in I : s[i] = n
    OBVIOUS
  <2> HIDE DEF I
  <2>2. PICK i \in I : \A l \in I : i <= l
    BY <1>4, <1>6, <2>1, LeastOf
  <2>3. Min(I) \in I
    BY <2>2 DEF Min
  <2>4. PlaceOf(cs, n) \in I
    BY <1>3, <1>6, <2>3
  <2> DEFINE k == PlaceOf(cs, n)
  <2>5. k # 0 /\ k \in DOMAIN s /\ s[k] = n
    <3>1. k \in I
      BY <2>4
    <3> HIDE DEF k
    <3>2. k \in 1 .. Len(s) /\ s[k] = n
      BY <2>1, <3>1
    <3> QED BY <1>4, <3>2
  <2> QED BY <2>5 DEF s
<1> QED BY <1>5, <1>6

LEMMA RowIs ==
    ASSUME NEW cs, IsSeq(cs), NEW vecs, NEW p, VectorsFor(vecs, Embedded(cs), p), NEW late,
           NEW n
    PROVE  LET r == RowOf(cs, vecs, late, n) IN
           /\ r.n = n /\ r.attempt = attempt /\ r.vec.by \in {p, "none"}
           /\ Told(vecs, Embedded(cs)) => Own(r, Embedded(cs), vecs)
           /\ n \in Texts(cs, setup) => Storable(r)
           /\ Storable(r) => Matches(r, setup, doc)
<1> DEFINE v == VectorOf(cs, vecs, n)
           a == Assembled(cs, n, v, late)
           r == RowOf(cs, vecs, late, n)
<1>1. /\ v = NoVector \/ v.by = p
      /\ n \in Texts(cs, setup) => v.by = p
      /\ \/ v = NoVector
         \/ \E k \in DOMAIN Embedded(cs) : Embedded(cs)[k] = n /\ v = vecs[k]
  <2>1. CASE PlaceOf(cs, n) = 0
    <3>1. v = NoVector /\ n \notin Texts(cs, setup)
      BY <2>1, PlaceOfIs DEF VectorOf
    <3> QED BY <3>1
  <2>2. CASE PlaceOf(cs, n) # 0
    <3> DEFINE k == PlaceOf(cs, n)
    <3>1. k \in DOMAIN Embedded(cs) /\ Embedded(cs)[k] = n
      BY <2>2, PlaceOfIs
    <3>2. v = vecs[k]
      BY <2>2 DEF VectorOf
    <3> HIDE DEF k, v
    <3>3. v.by = p
      BY <3>1, <3>2 DEF VectorsFor
    <3> QED BY <3>1, <3>2, <3>3
  <2> QED BY <2>1, <2>2
<1>2. PICK page, role : a = [n |-> n, attempt |-> attempt, page |-> page, vec |-> v, role |-> role]
  BY DEF Assembled
<1>3. r = IF Unset(a) THEN [a EXCEPT !.vec = NoVector] ELSE a
  BY DEF RowOf, Final
<1> HIDE DEF a, r, v
<1>4. NoVector.of = 0 /\ NoVector.by = "none" /\ p # "none"
  BY DEF NoVector, VectorsFor
<1> DEFINE texts == Embedded(cs)
<1> HIDE DEF texts
<1>5. CASE Unset(a)
  <2>1. r = [n |-> n, attempt |-> attempt, page |-> page, vec |-> NoVector, role |-> role]
    BY <1>2, <1>3, <1>5
  <2>2. ~Searchable(role)
    BY <1>2, <1>5 DEF Unset
  <2>3. Storable(r) /\ Own(r, texts, vecs) /\ Matches(r, setup, doc)
    BY <1>4, <2>1, <2>2 DEF Storable, Own, Matches
  <2> QED BY <1>4, <2>1, <2>3 DEF r, texts
<1>6. CASE ~Unset(a)
  <2>1. r = [n |-> n, attempt |-> attempt, page |-> page, vec |-> v, role |-> role]
    BY <1>2, <1>3, <1>6
  <2>2. r.vec.by \in {p, "none"}
    BY <1>1, <1>4, <2>1
  <2>2a. Told(vecs, texts) => Own(r, texts, vecs)
    <3>1. CASE v = NoVector
      BY <1>4, <2>1, <3>1 DEF Own
    <3>2. ASSUME Told(vecs, texts), NEW k \in DOMAIN texts, texts[k] = n, v = vecs[k]
          PROVE  Own(r, texts, vecs)
      BY <2>1, <3>2 DEF Told, Own
    <3> QED BY <1>1, <3>1, <3>2 DEF texts
  <2>3. n \in Texts(cs, setup) => Storable(r)
    BY <1>1, <1>4, <2>1 DEF Storable
  <2>4. Storable(r) => Matches(r, setup, doc)
    BY <1>2, <1>6, <2>1 DEF Storable, Matches, Unset
  <2> QED BY <2>1, <2>2, <2>2a, <2>3, <2>4 DEF r, texts
<1> QED BY <1>5, <1>6

LEMMA KeptComplete ==
    ASSUME NEW cs, IsSeq(cs), NEW vecs, NEW p, VectorsFor(vecs, Embedded(cs), p), NEW late
    PROVE  /\ Complete(KeptOf(cs, vecs, late), cs, attempt, setup, doc)
           /\ Told(vecs, Embedded(cs)) => AllOwn(KeptOf(cs, vecs, late), Embedded(cs), vecs)
<1> DEFINE row(n) == RowOf(cs, vecs, late, n)
           all == [n \in DOMAIN cs |-> row(n)]
           at == {n \in DOMAIN cs : Storable(row(n))}
           kept == KeptOf(cs, vecs, late)
           m == Cardinality(at)
<1>1. Len(cs) \in Nat /\ DOMAIN cs = 1 .. Len(cs)
  BY DEF IsSeq
<1>2. kept = Picked(all, at)
  BY DEF KeptOf
<1>3. \A n \in DOMAIN cs : all[n] = row(n) /\ (n \in at <=> Storable(row(n)))
  OBVIOUS
<1>4. at \in SUBSET DOMAIN cs /\ DOMAIN all = DOMAIN cs /\ all = [n \in DOMAIN cs |-> all[n]]
  OBVIOUS
<1>5. \A n : /\ row(n).n = n /\ row(n).attempt = attempt /\ row(n).vec.by \in {p, "none"}
             /\ Told(vecs, Embedded(cs)) => Own(row(n), Embedded(cs), vecs)
             /\ n \in Texts(cs, setup) => Storable(row(n))
             /\ Storable(row(n)) => Matches(row(n), setup, doc)
  BY RowIs
<1> HIDE DEF all, at, kept, row
<1>6. PICK T : all \in Seq(T)
  <2>1. all = [n \in 1 .. Len(cs) |-> all[n]] /\ Len(cs) \in Int
    BY <1>1, <1>4
  <2>2. IsSeq(all)
    BY <2>1, ByItem
  <2> QED BY <2>2 DEF IsSeq
<1>7. at \in SUBSET DOMAIN all /\ at \in SUBSET Int
  BY <1>1, <1>4
<1>8. m \in Nat /\ IsFiniteSet(at)
  BY <1>6, <1>7, PickedIs
<1>9. PICK order \in [1 .. m -> at] : Ascends(order, at) /\ kept = [k \in 1 .. m |-> all[order[k]]]
  <2>1. PICK order \in [1 .. Cardinality(at) -> at] :
          /\ Ascends(order, at)
          /\ Picked(all, at) = [k \in 1 .. Cardinality(at) |-> all[order[k]]]
    BY <1>6, <1>7, PickedIs
  <2> QED BY <1>2, <2>1
<1>10. /\ \A i \in at : \E k \in 1 .. m : order[k] = i
       /\ \A k, l \in 1 .. m : k <= l <=> order[k] <= order[l]
       /\ \A k, l \in 1 .. m : order[k] = order[l] => k = l
  BY <1>7, <1>8, <1>9, AscendsIs
<1> HIDE DEF m
<1>11. DOMAIN kept = 1 .. m /\ \A k \in 1 .. m : order[k] \in at /\ kept[k] = row(order[k])
  BY <1>3, <1>4, <1>9
<1>12. IsSeq(kept)
  BY <1>8, <1>9, ByItem
<1>13. \A k \in DOMAIN kept :
         /\ kept[k].n = order[k] /\ kept[k].attempt = attempt /\ kept[k].vec.by \in {p, "none"}
         /\ Matches(kept[k], setup, doc)
         /\ Told(vecs, Embedded(cs)) => Own(kept[k], Embedded(cs), vecs)
  <2>1. ASSUME NEW k \in 1 .. m PROVE Storable(row(order[k]))
    BY <1>3, <1>4, <1>11
  <2> QED BY <1>5, <1>11, <2>1
<1>14. Ascending(kept)
  <2>1. ASSUME NEW i \in 1 .. m, NEW j \in 1 .. m, i < j PROVE order[i] < order[j]
    <3>1. order[i] \in Int /\ order[j] \in Int /\ i <= j /\ i # j
      BY <1>7, <1>8, <2>1
    <3> QED BY <1>10, <3>1
  <2> QED BY <1>11, <1>13, <2>1 DEF Ascending
<1>15. ASSUME NEW n \in Texts(cs, setup) PROVE \E i \in DOMAIN kept : kept[i].n = n
  <2>1. n \in DOMAIN cs
    BY DEF Texts
  <2>2. n \in at
    BY <1>3, <1>5, <2>1
  <2>3. PICK k \in 1 .. m : order[k] = n
    BY <1>10, <2>2
  <2> QED BY <1>11, <1>13, <2>3
<1>16. OneProvider(kept)
  BY <1>13 DEF OneProvider
<1>17. Complete(kept, cs, attempt, setup, doc)
  BY <1>12, <1>13, <1>14, <1>15, <1>16 DEF Complete
<1>18. Told(vecs, Embedded(cs)) => AllOwn(kept, Embedded(cs), vecs)
  BY <1>13 DEF AllOwn
<1> QED BY <1>17, <1>18 DEF kept

-----------------------------------------------------------------------------
(* The inductive invariant. A row of an earlier attempt is left only in    *)
(* the phases that precede the deletion or follow its failure, and a later *)
(* phase holds only rows of this attempt.                                  *)
ContentInv ==
    /\ doc \in Documents /\ text.text \in Seq(Block)
    /\ IsSeq(chunks) /\ IsSeq(rows)
    /\ phase \in {"queued", "reading", "encoding", "embedding"} => vectors = <<>>
    /\ phase \in {"reading", "encoding", "embedding"} => rows = <<>>
    /\ phase = "encoding" => ~setup.skip /\ doc.strategy = "CONTENT"
    /\ phase \in {"saving", "processed"} =>
          /\ IsSeq(todo) /\ Complete(rows \o todo, chunks, attempt, setup, doc)
          /\ EndLost \/ AllOwn(rows \o todo, Embedded(chunks), vectors)
    /\ phase = "processed" => todo = <<>>
    /\ \A i \in DOMAIN rows : Matches(rows[i], setup, doc)
    /\ vectors # <<>> =>
          \/ EndLost
          \/ \A i \in DOMAIN rows :
                rows[i].attempt = attempt => Own(rows[i], Embedded(chunks), vectors)

(* Nothing at all is a sequence, of blocks too. *)
LEMMA EmptyIsSeq ==
    /\ IsSeq(<<>>) /\ DOMAIN <<>> = {}
    /\ NoText.text \in Seq(Block)
<1>1. <<>> \in Seq({0}) /\ <<>> \in Seq(Block) /\ DOMAIN <<>> = {}
  OBVIOUS
<1>2. IsSeq(<<>>)
  BY <1>1 DEF IsSeq
<1>3. NoText.text \in Seq(Block)
  BY <1>1 DEF NoText
<1> QED BY <1>1, <1>2, <1>3

LEMMA ContentInvInit == ContentInit => ContentInv
<1> SUFFICES ASSUME ContentInit PROVE ContentInv
  OBVIOUS
<1>1. NoText.text \in Seq(Block) /\ IsSeq(<<>>) /\ DOMAIN <<>> = {}
  BY EmptyIsSeq
<1> QED BY <1>1 DEF ContentInit, ContentInv

LEMMA SuffixIs ==
    ASSUME NEW s, IsSeq(s), NEW n \in 0 .. Len(s)
    PROVE  /\ IsSeq(SubSeq(s, n + 1, Len(s)))
           /\ \A i \in DOMAIN SubSeq(s, n + 1, Len(s)) :
                 \E j \in DOMAIN s : SubSeq(s, n + 1, Len(s))[i] = s[j]
<1>1. PICK T : s \in Seq(T)
  BY DEF IsSeq
<1>2. Len(s) \in Nat /\ DOMAIN s = 1 .. Len(s)
  BY <1>1
<1> DEFINE t == SubSeq(s, n + 1, Len(s))
<1>3. t \in Seq(T) /\ \A i \in 1 .. Len(t) : n + i \in 1 .. Len(s) /\ t[i] = s[n + i]
  BY <1>1, <1>2
<1> HIDE DEF t
<1>4. IsSeq(t) /\ DOMAIN t = 1 .. Len(t)
  BY <1>3 DEF IsSeq
<1>5. \A i \in DOMAIN t : \E j \in DOMAIN s : t[i] = s[j]
  BY <1>2, <1>3, <1>4
<1> QED BY <1>4, <1>5 DEF t

LEMMA SameVectors ==
    ASSUME UNCHANGED <<doc, setup, text, chunks, vectors>>
    PROVE  (EndLost' <=> EndLost) /\ Embedded(chunks)' = Embedded(chunks)
BY DEF EndLost, CleanSlices, Embedded

(* A document that fails, or is queued again, keeps its rows. *)
LEMMA FailStep ==
    ASSUME ContentInv, Fail, UNCHANGED rows
    PROVE  ContentInv'
<1>1. phase' = "failed" /\ UNCHANGED <<doc, setup, attempt, text, chunks, vectors, todo, rows>>
  BY DEF Fail
<1>2. (EndLost' <=> EndLost) /\ Embedded(chunks)' = Embedded(chunks)
  BY <1>1, SameVectors
<1> QED BY <1>1, <1>2 DEF ContentInv

LEMMA CleanupStep ==
    ASSUME ContentInv, Cleanup
    PROVE  ContentInv'
<1>1. phase = "queued" /\ vectors = <<>>
  BY DEF Cleanup, ContentInv
<1>2. CASE /\ phase' = "reading" /\ rows' = RowsLeft
           /\ UNCHANGED <<doc, setup, attempt, text, chunks, vectors, todo>>
  <2>1. rows' = <<>> /\ IsSeq(rows') /\ DOMAIN rows' = {}
    BY <1>2, EmptyIsSeq DEF RowsLeft
  <2> QED BY <1>1, <1>2, <2>1 DEF ContentInv
<1>3. CASE Fail /\ \E n \in 0 .. Len(rows) : rows' = SubSeq(rows, n + 1, Len(rows))
  <2>1. IsSeq(rows)
    BY DEF ContentInv
  <2>2. IsSeq(rows') /\ \A i \in DOMAIN rows' : \E j \in DOMAIN rows : rows'[i] = rows[j]
    BY <1>3, <2>1, SuffixIs
  <2>3. \A i \in DOMAIN rows' : Matches(rows'[i], setup, doc)
    BY <2>2 DEF ContentInv
  <2> QED BY <1>1, <1>3, <2>2, <2>3 DEF ContentInv, Fail
<1> QED BY <1>2, <1>3 DEF Cleanup

LEMMA OpenedStep ==
    ASSUME ContentInv, phase = "reading", NEW t, t.text \in Seq(Block), NEW cs, IsSeq(cs),
           NEW next \in {"encoding", "embedding"},
           next = "encoding" => ~setup.skip /\ doc.strategy = "CONTENT", Opened(t, cs, next)
    PROVE  ContentInv'
<1>1. CASE Fail /\ UNCHANGED rows
  BY <1>1, FailStep
<1>2. CASE /\ text' = t /\ chunks' = cs /\ phase' = next
           /\ UNCHANGED <<doc, setup, attempt, vectors, todo, rows>>
  BY <1>2 DEF ContentInv
<1> QED BY <1>1, <1>2 DEF Opened

LEMMA ReadStep ==
    ASSUME ContentInv, ReadContent \/ ReadFast \/ ReadPreProcessed
    PROVE  ContentInv'
<1>1. doc \in Documents
  BY DEF ContentInv
<1>2. CASE ReadContent
  <2>1. PICK t \in ContentReadings :
          Opened(t, SemanticSplit(Clean(t.text)), IF setup.skip THEN "embedding" ELSE "encoding")
    BY <1>2 DEF ReadContent
  <2>2. t.text \in Seq(Block)
    BY <1>1, TextsAre
  <2>3. IsSeq(SemanticSplit(Clean(t.text)))
    BY <2>2, CleanIs, SemanticSplitIs
  <2>4. phase = "reading" /\ doc.strategy = "CONTENT"
    BY <1>2 DEF ReadContent
  <2>5. CASE setup.skip
    BY <2>1, <2>2, <2>3, <2>4, <2>5, OpenedStep
  <2>6. CASE ~setup.skip
    BY <2>1, <2>2, <2>3, <2>4, <2>6, OpenedStep
  <2> QED BY <2>5, <2>6
<1>3. CASE ReadFast
  <2>1. PICK t \in Extractions : Opened(t, Slices(t.text), "embedding")
    BY <1>3 DEF ReadFast
  <2>2. t.text \in Seq(Block)
    BY <1>1, TextsAre
  <2>3. IsSeq(Slices(t.text)) /\ phase = "reading"
    BY <1>3, <2>2, SlicesAre DEF ReadFast
  <2> QED BY <2>1, <2>2, <2>3, OpenedStep
<1>4. CASE ReadPreProcessed
  BY <1>4, FailStep DEF ReadPreProcessed
<1> QED BY <1>2, <1>3, <1>4

(* What becomes of the rows, when the vectors are told or the end is lost. *)
LEMMA AssembleStep ==
    ASSUME ContentInv, phase \in {"encoding", "embedding"}, NEW cs, IsSeq(cs), NEW vecs,
           NEW p, VectorsFor(vecs, Embedded(cs), p),
           NEW late, Assemble(cs, vecs, late), Told(vecs, Embedded(cs)) \/ EndLost'
    PROVE  ContentInv'
<1> DEFINE kept == KeptOf(cs, vecs, late)
           texts == Embedded(cs)
<1>1. Told(vecs, texts) => AllOwn(kept, texts, vecs)
  BY KeptComplete
<1>2. Complete(kept, cs, attempt, setup, doc)
  BY KeptComplete
<1>3. /\ chunks' = cs /\ vectors' = vecs /\ todo' = kept
      /\ phase' = IF kept = <<>> THEN "failed" ELSE "saving"
      /\ UNCHANGED <<doc, setup, attempt, text, rows>>
  BY DEF Assemble, KeptOf, RowOf, VectorOf, PlaceOf, Kept, With
<1>3a. Embedded(chunks)' = texts
  BY <1>3 DEF Embedded
<1> HIDE DEF kept, texts
<1>4. rows = <<>> /\ DOMAIN rows = {}
  BY DEF ContentInv
<1>5. IsSeq(kept)
  BY <1>2 DEF Complete
<1>6. <<>> \o kept = kept
  BY <1>5, ConcatEmptySeq DEF IsSeq
<1>7. Complete(rows' \o todo', chunks', attempt', setup', doc')
  BY <1>2, <1>3, <1>4, <1>6
<1>8. EndLost' \/ AllOwn(rows' \o todo', Embedded(chunks)', vectors')
  BY <1>1, <1>3, <1>3a, <1>4, <1>6 DEF texts
<1> QED BY <1>3, <1>4, <1>5, <1>7, <1>8 DEF ContentInv

(* The windows that late chunking keeps, with their headings.              *)
LateChunks(vecs) == [i \in DOMAIN vecs |-> Headed(CleanSlices[i])]
LEMMA LateChunksAre ==
    ASSUME text.text \in Seq(Block), NEW vecs \in LateVectors(Len(CleanSlices))
    PROVE  LET late == LateChunks(vecs)
               n == Len(CleanSlices)
           IN /\ IsSeq(CleanSlices) /\ IsSeq(late) /\ n \in Nat /\ LateFor(vecs, n)
              /\ Len(late) = Len(vecs) /\ DOMAIN late = DOMAIN vecs /\ DOMAIN vecs = 1 .. Len(vecs)
              /\ \A i \in DOMAIN late : i \in DOMAIN CleanSlices /\ late[i] = Headed(CleanSlices[i])
<1> DEFINE late == LateChunks(vecs)
           n == Len(CleanSlices)
<1>1. IsSeq(CleanSlices)
  BY CleanIs, SlicesAre DEF CleanSlices
<1>2. n \in Nat /\ DOMAIN CleanSlices = 1 .. n
  BY <1>1 DEF IsSeq
<1> HIDE DEF n
<1>3. LateFor(vecs, n)
  BY <1>2, LateVectorsAre DEF n
<1> DEFINE m == Len(vecs)
<1>4. m \in Nat /\ DOMAIN vecs = 1 .. m /\ m <= n
  <2>1. Len(vecs) \in Nat /\ DOMAIN vecs = 1 .. Len(vecs) /\ Len(vecs) \in {n, n - 1}
    BY <1>3, Zenon DEF LateFor
  <2> HIDE DEF m
  <2>2. n \in Nat /\ m \in Nat /\ (m = n \/ m = n - 1)
    BY <1>2, <2>1, Zenon DEF m
  <2>3. m <= n
    BY <2>2
  <2> QED BY <2>1, <2>2, <2>3, Zenon DEF m
<1> HIDE DEF m
<1>5. late = [i \in 1 .. m |-> Headed(CleanSlices[i])]
  BY <1>4 DEF LateChunks
<1>6. DOMAIN late = 1 .. m /\ \A i \in 1 .. m : late[i] = Headed(CleanSlices[i])
  BY <1>5
<1>7. late = [i \in 1 .. m |-> late[i]]
  BY <1>5, <1>6
<1> HIDE DEF late
<1>8. IsSeq(late)
  <2>1. m \in Int
    BY <1>4
  <2> QED BY <1>7, <2>1, ByItem
<1>9. Len(late) = m
  <2>1. Len(late) \in Nat /\ DOMAIN late = 1 .. Len(late)
    BY <1>8 DEF IsSeq
  <2> QED BY <1>4, <1>6, <2>1
<1>10. \A i \in DOMAIN late : i \in DOMAIN CleanSlices
  BY <1>2, <1>4, <1>6
<1> QED BY <1>1, <1>2, <1>3, <1>4, <1>6, <1>8, <1>9, <1>10 DEF late, n, m

LEMMA EncodeBy ==
    ASSUME Encode, ~(phase' = "embedding" /\ UNCHANGED <<doc, setup, attempt, text, chunks, vectors, todo, rows>>)
    PROVE  \E vecs \in LateVectors(Len(CleanSlices)) :
              LateChunks(vecs) # <<>> /\ Assemble(LateChunks(vecs), vecs, TRUE)
BY ZenonT(60) DEF Encode, LateChunks

(* When Jina has no vector for the last window, the end of the text is     *)
(* lost.                                                                   *)
LEMMA LateEndIsLost ==
    ASSUME doc.strategy = "CONTENT", ~setup.skip, text.text \in Seq(Block),
           NEW vecs \in LateVectors(Len(CleanSlices)), LateChunks(vecs) # <<>>,
           Assemble(LateChunks(vecs), vecs, TRUE), Len(vecs) # Len(CleanSlices)
    PROVE  EndLost'
<1> DEFINE late == LateChunks(vecs)
           n == Len(CleanSlices)
<1>1. /\ n \in Nat /\ LateFor(vecs, n) /\ IsSeq(late) /\ DOMAIN late = DOMAIN vecs
      /\ Len(late) = Len(vecs) /\ DOMAIN vecs = 1 .. Len(vecs)
  BY LateChunksAre
<1>2. chunks' = late /\ vectors' = vecs /\ UNCHANGED <<doc, setup, text>>
  BY Zenon DEF Assemble
<1>3. CleanSlices' = CleanSlices
  BY <1>2 DEF CleanSlices
<1>4. Len(vecs) + 1 = n /\ \A i \in DOMAIN vecs : vecs[i].by = "jina"
  BY <1>1 DEF LateFor
<1>5. vecs # <<>>
  <2> HIDE DEF late
  <2> SUFFICES ASSUME vecs = <<>> PROVE FALSE
    OBVIOUS
  <2>1. DOMAIN late = {}
    BY <1>1, EmptyIsSeq
  <2>2. Len(late) = 0 /\ \E T : late \in Seq(T)
    <3>1. Len(<<>>) = 0
      OBVIOUS
    <3> QED BY <1>1, <3>1 DEF IsSeq
  <2>3. late = <<>>
    BY <2>2
  <2> QED BY <2>3 DEF late
<1> HIDE DEF late, n
<1> QED BY <1>1, <1>2, <1>3, <1>4, <1>5 DEF EndLost, n

LEMMA EncodeStep ==
    ASSUME ContentInv, Encode
    PROVE  ContentInv'
<1>1. /\ phase = "encoding" /\ ~setup.skip /\ doc.strategy = "CONTENT"
      /\ text.text \in Seq(Block)
  BY Zenon DEF Encode, ContentInv
<1>2. CASE /\ phase' = "embedding"
           /\ UNCHANGED <<doc, setup, attempt, text, chunks, vectors, todo, rows>>
  BY <1>1, <1>2 DEF ContentInv
<1>3. ASSUME NEW vecs \in LateVectors(Len(CleanSlices)), LateChunks(vecs) # <<>>,
             Assemble(LateChunks(vecs), vecs, TRUE)
      PROVE  ContentInv'
  <2> DEFINE late == LateChunks(vecs)
             n == Len(CleanSlices)
             m == Len(vecs)
             texts == [i \in 1 .. m |-> i]
  <2>1. /\ n \in Nat /\ LateFor(vecs, n) /\ IsSeq(late) /\ DOMAIN late = 1 .. m
    BY <1>1, <1>3, LateChunksAre
  <2>2. Embedded(late) = texts
    BY <1>1, <2>1, AllEmbedded
  <2> HIDE DEF n, late
  <2>3. PICK p : VectorsFor(vecs, texts, p)
    BY <2>1 DEF LateFor
  <2>4. CASE m = n
    <3>1. Told(vecs, texts)
      BY <2>1, <2>4 DEF LateFor
    <3> QED BY <1>1, <1>3, <2>1, <2>2, <2>3, <3>1, AssembleStep DEF late
  <2>5. CASE m # n
    <3>1. EndLost'
      BY <1>1, <1>3, <2>5, LateEndIsLost DEF n
    <3> QED BY <1>1, <1>3, <2>1, <2>2, <2>3, <3>1, AssembleStep DEF late
  <2> QED BY <2>4, <2>5
<1> QED BY <1>2, <1>3, EncodeBy

LEMMA EmbedStep ==
    ASSUME ContentInv, Embed
    PROVE  ContentInv'
<1>1. phase = "embedding" /\ IsSeq(chunks)
  BY DEF Embed, ContentInv
<1>2. CASE \E vecs \in Outcomes(Embedded(chunks)) : Assemble(chunks, vecs, FALSE)
  <2>1. PICK vecs \in Outcomes(Embedded(chunks)) : Assemble(chunks, vecs, FALSE)
    BY <1>2
  <2>2. Told(vecs, Embedded(chunks)) /\ \E p : VectorsFor(vecs, Embedded(chunks), p)
    BY <1>1, EmbeddedIs, OutcomesAre
  <2> QED BY <1>1, <2>1, <2>2, AssembleStep
<1>3. CASE Fail /\ UNCHANGED rows
  BY <1>3, FailStep
<1> QED BY <1>2, <1>3 DEF Embed

LEMMA SaveStep ==
    ASSUME ContentInv, SaveRows
    PROVE  ContentInv'
<1> DEFINE n == Min({SaveBatch, Len(todo)})
           some == SubSeq(todo, 1, n)
           rest == SubSeq(todo, n + 1, Len(todo))
           all == rows \o todo
<1>1. phase = "saving" /\ IsSeq(rows) /\ IsSeq(todo)
      /\ Complete(all, chunks, attempt, setup, doc)
      /\ (EndLost \/ AllOwn(all, Embedded(chunks), vectors))
  BY DEF SaveRows, ContentInv
<1>2. Len(todo) \in Nat /\ SaveBatch \in Nat
  BY <1>1, ContentAssumption DEF IsSeq
<1>3. n \in 0 .. Len(todo)
  <2>1. n \in {SaveBatch, Len(todo)} /\ n <= Len(todo)
    <3>1. SaveBatch \in Int /\ Len(todo) \in Int
      BY <1>2
    <3> QED BY <3>1, OfTwo, Zenon
  <2> QED BY <1>2, <2>1
<1>4. CASE Fail /\ UNCHANGED rows
  BY <1>4, FailStep
<1>5. CASE /\ rows' = rows \o some /\ todo' = rest
           /\ phase' = IF n = Len(todo) THEN "processed" ELSE "saving"
           /\ UNCHANGED <<doc, setup, attempt, text, chunks, vectors>>
  <2>1. PICK T : rows \in Seq(T) /\ todo \in Seq(T)
    <3>1. PICK X : rows \in Seq(X)
      BY <1>1 DEF IsSeq
    <3>2. PICK Y : todo \in Seq(Y)
      BY <1>1 DEF IsSeq
    <3>3. rows \in Seq(X \union Y) /\ todo \in Seq(X \union Y)
      BY <3>1, <3>2
    <3> QED BY <3>3
  <2> HIDE DEF n
  <2>2. some \in Seq(T) /\ rest \in Seq(T)
    BY <1>2, <1>3, <2>1
  <2>3. some \o rest = todo
    <3>1. 1 \in 1 .. Len(todo) + 1 /\ n \in 1 - 1 .. Len(todo) /\ Len(todo) \in n .. Len(todo)
      BY <1>2, <1>3
    <3>2. some \o rest = SubSeq(todo, 1, Len(todo))
      BY <2>1, <3>1, ConcatAdjacentSubSeq
    <3> QED BY <2>1, <3>2, SubSeqFull
  <2>4. (rows \o some) \o rest = all
    <3>1. (rows \o some) \o rest = rows \o (some \o rest)
      <4>1. Associates(T) /\ rows \in Seq(T)
        BY <2>1, Regroup
      <4> HIDE DEF some, rest
      <4> QED BY <2>2, <4>1, Zenon DEF Associates
    <3> QED BY <2>3, <3>1
  <2>5. n = Len(todo) => rest = <<>>
    BY <1>2, <2>1
  <2> HIDE DEF some, rest
  <2>6. IsSeq(rows \o some) /\ IsSeq(rest) /\ IsSeq(some)
    BY <2>1, <2>2, ConcatIs DEF IsSeq
  <2>7. ASSUME NEW i \in DOMAIN (rows \o some)
        PROVE  i \in DOMAIN all /\ (rows \o some)[i] = all[i]
    <3>1. /\ DOMAIN (rows \o some) = 1 .. Len(rows \o some) /\ Len(rows \o some) \in Nat
          /\ Len(rest) \in Nat
          /\ DOMAIN ((rows \o some) \o rest) = 1 .. Len(rows \o some) + Len(rest)
          /\ \A k \in 1 .. Len(rows \o some) : ((rows \o some) \o rest)[k] = (rows \o some)[k]
      BY <2>6, JoinedIs
    <3>2. i \in 1 .. Len(rows \o some) /\ i \in 1 .. Len(rows \o some) + Len(rest)
      BY <3>1
    <3> QED BY <2>4, <3>1, <3>2
  <2> DEFINE now == rows \o some
  <2>8. \A i \in DOMAIN now : Matches(now[i], setup, doc)
    BY <1>1, <2>7 DEF Complete
  <2>8a. EndLost \/ \A i \in DOMAIN now : Own(now[i], Embedded(chunks), vectors)
    BY <1>1, <2>7 DEF AllOwn
  <2> HIDE DEF now, all
  <2>9. rows' = now /\ rows' \o todo' = all /\ IsSeq(now)
    BY <1>5, <2>4, <2>6 DEF now
  <2>10. Complete(rows' \o todo', chunks', attempt', setup', doc')
    BY <1>1, <1>5, <2>9
  <2>11. /\ (EndLost' <=> EndLost) /\ Embedded(chunks)' = Embedded(chunks)
    BY <1>5, SameVectors
  <2>12. EndLost' \/ AllOwn(rows' \o todo', Embedded(chunks)', vectors')
    BY <1>1, <1>5, <2>9, <2>11
  <2>13. \/ EndLost'
         \/ \A i \in DOMAIN rows' : Own(rows'[i], Embedded(chunks)', vectors')
    BY <1>5, <2>8a, <2>9, <2>11
  <2> QED BY <1>1, <1>5, <2>5, <2>6, <2>8, <2>9, <2>10, <2>12, <2>13 DEF ContentInv
<1> QED BY <1>4, <1>5 DEF SaveRows

LEMMA AgainStep ==
    ASSUME ContentInv, Again
    PROVE  ContentInv'
<1>1. NoText.text \in Seq(Block) /\ IsSeq(<<>>)
  BY EmptyIsSeq
<1> QED BY <1>1 DEF Again, ContentInv

LEMMA ContentInvStep == ContentInv /\ [ContentNext]_contentVars => ContentInv'
<1> SUFFICES ASSUME ContentInv, [ContentNext]_contentVars PROVE ContentInv'
  OBVIOUS
<1>1. CASE UNCHANGED contentVars
  <2>1. UNCHANGED <<doc, setup, attempt, phase, text, chunks, vectors, todo, rows>>
    BY <1>1 DEF contentVars
  <2>2. (EndLost' <=> EndLost) /\ Embedded(chunks)' = Embedded(chunks)
    BY <2>1, SameVectors
  <2> QED BY <2>1, <2>2 DEF ContentInv
<1>2. CASE Cleanup
  BY <1>2, CleanupStep
<1>3. CASE ReadContent \/ ReadFast \/ ReadPreProcessed
  BY <1>3, ReadStep
<1>4. CASE Encode
  BY <1>4, EncodeStep
<1>5. CASE Embed
  BY <1>5, EmbedStep
<1>6. CASE SaveRows
  BY <1>6, SaveStep
<1>7. CASE Again
  BY <1>7, AgainStep
<1> QED BY <1>1, <1>2, <1>3, <1>4, <1>5, <1>6, <1>7 DEF ContentNext

LEMMA ContentInvariance == ContentSpec => []ContentInv
BY ContentInvInit, ContentInvStep, PTL DEF ContentSpec

(* The role is judged twice, on a chunk's own words before vectors are     *)
(* asked for and on the assembled text after; the judgements agree on what *)
(* is stored: every row a search may return has a vector, and with skip no *)
(* other row of a CONTENT document has one, although save_chunks looks at  *)
(* the vector and the role only.                                           *)
THEOREM StoredRowsMatchRole == ContentSpec => []RowsMatchRole
<1>1. ContentInv => RowsMatchRole
  BY DEF ContentInv, RowsMatchRole, Matches
<1> QED BY <1>1, ContentInvariance, PTL

(* A vector missing anywhere in the answers of a provider puts no vector   *)
(* of another text into a row without a trace: Cohere's answer moves up    *)
(* within a request, which a zero vector then ends; Jina's moves up to the *)
(* end of all, where the last vector is zero or late chunking lost the end *)
(* of the text.                                                            *)
THEOREM VectorsStayWithTheirText == ContentSpec => []VectorsOwnText
<1>1. ContentInv => VectorsOwnText
  BY DEF ContentInv, VectorsOwnText, Own
<1> QED BY <1>1, ContentInvariance, PTL

LEMMA ProcessedIsComplete == ContentInv => ProcessedComplete
<1> SUFFICES ASSUME ContentInv, phase = "processed" PROVE ProcessedComplete
  BY DEF ProcessedComplete
<1>1. IsSeq(rows) /\ IsSeq(chunks) /\ todo = <<>>
      /\ Complete(rows \o todo, chunks, attempt, setup, doc)
  BY DEF ContentInv
<1>2. rows \o <<>> = rows
  BY <1>1, ConcatEmptySeq DEF IsSeq
<1>3. Complete(rows, chunks, attempt, setup, doc)
  BY <1>1, <1>2
<1>4. \A i \in DOMAIN rows : rows[i].attempt = attempt
  BY <1>3 DEF Complete
<1>5. \A i, j \in DOMAIN rows : i < j => rows[i].n < rows[j].n
  BY <1>3 DEF Complete, Ascending
<1>6. ASSUME NEW n \in DOMAIN chunks, n \in {Embedded(chunks)[k] : k \in DOMAIN Embedded(chunks)}
      PROVE  \E i \in DOMAIN rows : rows[i].n = n
  <2>1. n \in Texts(chunks, setup)
    BY <1>1, <1>6, EmbeddedIs
  <2> QED BY <1>3, <2>1 DEF Complete
<1>7. Cardinality({rows[i].vec.by : i \in DOMAIN rows} \ {"none"}) <= 1
  <2>1. PICK p : \A i \in DOMAIN rows : rows[i].vec.by \in {p, "none"}
    BY <1>3 DEF Complete, OneProvider
  <2>2. {rows[i].vec.by : i \in DOMAIN rows} \ {"none"} \in SUBSET {p}
    BY <2>1
  <2>3. IsFiniteSet({p}) /\ Cardinality({p}) = 1
    BY FS_Singleton
  <2> QED BY <2>2, <2>3, FS_Subset
<1> QED BY <1>4, <1>5, <1>6, <1>7 DEF ProcessedComplete

(* A processed document is stored once: whatever earlier attempts stored   *)
(* and however they ended, DocumentProcessor.process deletes their rows    *)
(* before it reads the file again, so what is left is every chunk of the   *)
(* last attempt that was embedded, once, in order, by one provider.        *)
THEOREM ProcessedIsStoredOnce == ContentSpec => []ProcessedComplete
BY ContentInvariance, ProcessedIsComplete, PTL

(* What holds at 0 and is kept by each step holds at every place. *)
LEMMA Inductive ==
    ASSUME NEW n \in Nat, NEW S, 0 \in S, \A i \in 1 .. n : i - 1 \in S => i \in S
    PROVE  \A i \in 0 .. n : i \in S
<1> DEFINE g == [i \in 0 .. n |-> i]
<1>1. \A i \in 0 .. n : g[i] = i
  OBVIOUS
<1>2. 0 \in 0 .. n /\ \A i \in 1 .. n : i \in 0 .. n /\ i - 1 \in 0 .. n
  OBVIOUS
<1> HIDE DEF g
<1>3. g[0] \in S /\ \A i \in 1 .. n : g[i - 1] \in S => g[i] \in S
  BY <1>1, <1>2
<1>4. \A i \in 0 .. n : g[i] \in S
  BY <1>3, ByPlace, Zenon
<1> QED BY <1>1, <1>4

(* The sequences put one after the other, up to each of them. *)
PutTogether(g, s, T) ==
    /\ g \in [0 .. Len(s) -> Seq(T)] /\ g[0] = <<>>
    /\ \A i \in 1 .. Len(s) : g[i] = g[i - 1] \o s[i]

LEMMA FlattenBy ==
    ASSUME NEW T, NEW s \in Seq(Seq(T))
    PROVE  \E g : PutTogether(g, s, T) /\ FlattenSeq(s) = g[Len(s)]
<1> DEFINE n == Len(s)
           X == Seq(T)
           step == [i \in 1 .. n |-> [u \in X |-> u \o s[i]]]
           next(g, i) == IF i = 1 THEN s[i] ELSE g[i - 1] \o s[i]
           Upto(g) == g = [i \in 1 .. n |-> next(g, i)]
           f == CHOOSE g : Upto(g)
<1>1. n \in Nat /\ \A i \in 1 .. n : s[i] \in Seq(T)
  OBVIOUS
<1>2. <<>> \in X
  OBVIOUS
<1>3. Closed(X, n, step)
  <2>1. ASSUME NEW i \in 1 .. n, NEW u \in X PROVE step[i][u] \in X
    BY <1>1, <2>1, ConcatIs
  <2> HIDE DEF step, n, X
  <2> QED BY <2>1 DEF Closed
<1>4. PICK g : Recursive(g, X, n, <<>>, step)
  <2> HIDE DEF step, n, X
  <2> QED BY <1>1, <1>2, <1>3, RecursionIs
<1>5. PutTogether(g, s, T)
  <2>1. g \in [0 .. n -> X] /\ g[0] = <<>> /\ \A i \in 1 .. n : g[i] = step[i][g[i - 1]]
    BY <1>4 DEF Recursive
  <2>2. ASSUME NEW i \in 1 .. n PROVE g[i] = g[i - 1] \o s[i]
    <3>1. i - 1 \in 0 .. n
      BY <1>1
    <3>2. g[i - 1] \in X
      BY <2>1, <3>1
    <3> QED BY <2>1, <3>2
  <2> HIDE DEF step
  <2> QED BY <2>1, <2>2 DEF PutTogether
<1> HIDE DEF step
<1>6. CASE n = 0
  <2>1. s = <<>> /\ FlattenSeq(s) = s
    BY <1>6 DEF FlattenSeq
  <2> QED BY <1>5, <1>6, <2>1 DEF PutTogether
<1>7. CASE n # 0
  <2>1. g[1] = s[1] /\ \A i \in 1 .. n : g[i] = next(g, i)
    <3>1. 1 \in 1 .. n /\ g[0] = <<>> /\ s[1] \in Seq(T)
      BY <1>1, <1>5, <1>7 DEF PutTogether
    <3>2. <<>> \o s[1] = s[1]
      BY <3>1, ConcatEmptySeq
    <3>3. g[1] = s[1]
      BY <3>1, <3>2, <1>5 DEF PutTogether
    <3> QED BY <1>5, <3>3 DEF PutTogether
  <2> DEFINE h == [i \in 1 .. n |-> g[i]]
  <2>2. Upto(h)
    <3>1. ASSUME NEW i \in 1 .. n PROVE next(h, i) = g[i]
      <4>1. CASE i = 1
        BY <2>1, <4>1
      <4>2. CASE i # 1
        <5>1. i - 1 \in 1 .. n
          BY <1>1, <4>2
        <5>2. h[i - 1] = g[i - 1]
          BY <5>1
        <5> HIDE DEF h
        <5> QED BY <2>1, <4>2, <5>2
      <4> QED BY <4>1, <4>2
    <3> HIDE DEF next, n
    <3> QED BY <3>1
  <2>3. Upto(f)
    <3> HIDE DEF Upto
    <3> QED BY <2>2
  <2>4. FlattenSeq(s) = f[n]
    BY <1>7 DEF FlattenSeq
  <2> HIDE DEF f, h
  <2>5. \A i \in 1 .. n : f[i] = next(f, i)
    <3> HIDE DEF next, n
    <3> QED BY <2>3
  <2> DEFINE S == {i \in 0 .. n : i = 0 \/ f[i] = g[i]}
  <2>6. ASSUME NEW i \in 1 .. n, i - 1 \in S PROVE i \in S
    <3>1. CASE i = 1
      BY <2>1, <2>5, <3>1
    <3>2. CASE i # 1
      <4>1. f[i - 1] = g[i - 1]
        BY <1>1, <2>6, <3>2
      <4> QED BY <1>1, <2>1, <2>5, <3>2, <4>1
    <3> QED BY <3>1, <3>2
  <2>7. 0 \in S
    BY <1>1
  <2> HIDE DEF S, n
  <2>8. \A i \in 0 .. n : i \in S
    BY <1>1, <2>6, <2>7, Inductive
  <2>9. f[n] = g[n]
    BY <1>1, <1>7, <2>8 DEF S
  <2> QED BY <1>5, <2>4, <2>9 DEF n
<1> QED BY <1>6, <1>7

LEMMA FlattenJoin ==
    ASSUME NEW T, NEW s \in Seq(Seq(T)), NEW t \in Seq(Seq(T))
    PROVE  FlattenSeq(s \o t) = FlattenSeq(s) \o FlattenSeq(t)
<1> DEFINE m == Len(s)
           n == Len(t)
           st == s \o t
<1>1. /\ m \in Nat /\ n \in Nat /\ st \in Seq(Seq(T)) /\ Len(st) = m + n
      /\ \A k \in 1 .. m : st[k] = s[k]
      /\ \A k \in 1 .. n : st[m + k] = t[k] /\ t[k] \in Seq(T)
  <2>1. m \in Nat /\ n \in Nat /\ \A k \in 1 .. n : t[k] \in Seq(T)
    OBVIOUS
  <2> DEFINE X == Seq(T)
  <2>2. s \in Seq(X) /\ t \in Seq(X)
    OBVIOUS
  <2> HIDE DEF X
  <2>3. /\ st \in Seq(X) /\ Len(st) = m + n
        /\ \A k \in 1 .. m : st[k] = s[k]
        /\ \A k \in 1 .. n : st[m + k] = t[k]
    BY <2>2, ConcatIs
  <2> QED BY <2>1, <2>3 DEF X
<1> HIDE DEF st
<1>2. PICK a : PutTogether(a, s, T) /\ FlattenSeq(s) = a[m]
  BY FlattenBy
<1>3. PICK b : PutTogether(b, t, T) /\ FlattenSeq(t) = b[n]
  BY FlattenBy
<1>4. PICK g : PutTogether(g, st, T) /\ FlattenSeq(st) = g[m + n]
  BY <1>1, FlattenBy
<1>5. a \in [0 .. m -> Seq(T)] /\ a[0] = <<>> /\ \A i \in 1 .. m : a[i] = a[i - 1] \o s[i]
  BY <1>2 DEF PutTogether
<1>6. b \in [0 .. n -> Seq(T)] /\ b[0] = <<>> /\ \A i \in 1 .. n : b[i] = b[i - 1] \o t[i]
  BY <1>3 DEF PutTogether
<1>7. g[0] = <<>> /\ \A i \in 1 .. m + n : g[i] = g[i - 1] \o st[i]
  BY <1>1, <1>4 DEF PutTogether
<1> HIDE DEF m, n
<1>8. g[m] = a[m]
  <2> DEFINE S == {i \in 0 .. m : g[i] = a[i]}
  <2>1. ASSUME NEW i \in 1 .. m, i - 1 \in S PROVE i \in S
    <3>1. i \in 1 .. m + n /\ i \in 0 .. m
      BY <1>1
    <3>2. g[i - 1] = a[i - 1]
      BY <2>1
    <3>3. g[i] = g[i - 1] \o st[i] /\ a[i] = a[i - 1] \o s[i] /\ st[i] = s[i]
      BY <1>1, <1>5, <1>7, <3>1
    <3> QED BY <3>1, <3>2, <3>3
  <2>2. 0 \in S /\ m \in 0 .. m
    BY <1>1, <1>5, <1>7
  <2> HIDE DEF S
  <2>3. m \in S
    BY <1>1, <2>1, <2>2, Inductive
  <2> QED BY <2>3 DEF S
<1>9. a[m] \in Seq(T)
  BY <1>1, <1>5
<1>10. g[m + n] = a[m] \o b[n]
  <2> DEFINE S == {i \in 0 .. n : g[m + i] = a[m] \o b[i]}
  <2>1. ASSUME NEW i \in 1 .. n, i - 1 \in S PROVE i \in S
    <3>1. m + i \in 1 .. m + n /\ m + i - 1 = m + (i - 1) /\ i \in 0 .. n /\ i - 1 \in 0 .. n
      BY <1>1
    <3> DEFINE k == m + i
    <3>2. g[k] = g[k - 1] \o st[k] /\ k - 1 = m + (i - 1) /\ st[k] = t[i]
      <4>1. k \in 1 .. m + n /\ k - 1 = m + (i - 1) /\ st[m + i] = t[i]
        BY <1>1, <3>1
      <4> HIDE DEF k
      <4>2. g[k] = g[k - 1] \o st[k]
        BY <1>7, <4>1
      <4> QED BY <4>1, <4>2 DEF k
    <3>3. g[m + (i - 1)] = a[m] \o b[i - 1]
      BY <2>1
    <3>4. b[i - 1] \in Seq(T) /\ t[i] \in Seq(T)
      BY <1>1, <1>6, <3>1
    <3>5. (a[m] \o b[i - 1]) \o t[i] = a[m] \o (b[i - 1] \o t[i])
      <4> DEFINE x == a[m]
                 y == b[i - 1]
                 z == t[i]
      <4>1. x \in Seq(T) /\ y \in Seq(T) /\ z \in Seq(T)
        BY <1>9, <3>4
      <4> HIDE DEF x, y, z
      <4>2. Associates(T)
        BY Regroup
      <4>3. (x \o y) \o z = x \o (y \o z)
        BY <4>1, <4>2, Zenon DEF Associates
      <4> QED BY <4>3 DEF x, y, z
    <3> QED BY <1>6, <3>1, <3>2, <3>3, <3>5
  <2>2. 0 \in S /\ n \in 0 .. n
    <3>1. a[m] \o <<>> = a[m] /\ m + 0 = m /\ 0 \in 0 .. n /\ n \in 0 .. n
      BY <1>1, <1>9, ConcatEmptySeq
    <3> QED BY <1>6, <1>8, <3>1
  <2> HIDE DEF S
  <2>3. n \in S
    BY <1>1, <2>1, <2>2, Inductive
  <2> QED BY <2>3 DEF S
<1> QED BY <1>2, <1>3, <1>4, <1>10 DEF st

LEMMA FlattenOne ==
    ASSUME NEW T, NEW x \in Seq(T)
    PROVE  FlattenSeq(<<x>>) = x /\ FlattenSeq(<<>>) = <<>>
<1> DEFINE s == <<x>>
<1>1. s \in Seq(Seq(T)) /\ Len(s) = 1 /\ s[1] = x
  OBVIOUS
<1> HIDE DEF s
<1>2. PICK g : PutTogether(g, s, T) /\ FlattenSeq(s) = g[Len(s)]
  BY <1>1, FlattenBy
<1>3. g[0] = <<>> /\ g[1] = g[0] \o x
  BY <1>1, <1>2 DEF PutTogether
<1>4. <<>> \o x = x
  BY ConcatEmptySeq
<1>5. FlattenSeq(s) = x
  BY <1>1, <1>2, <1>3, <1>4
<1>6. FlattenSeq(<<>>) = <<>>
  BY DEF FlattenSeq
<1> QED BY <1>5, <1>6 DEF s

-----------------------------------------------------------------------------
(* The blocks of a text, and of texts put one after the other. *)
LEMMA IdsAreNames ==
    ASSUME NEW x \in Seq(Block)
    PROVE  /\ BlockIds(x) \in Seq(STRING) /\ Len(BlockIds(x)) = Len(x)
           /\ \A k \in 1 .. Len(x) : BlockIds(x)[k] = x[k].id
<1>1. Len(x) \in Nat /\ DOMAIN x = 1 .. Len(x) /\ \A k \in 1 .. Len(x) : x[k] \in Block
  OBVIOUS
<1>2. BlockIds(x) = [k \in 1 .. Len(x) |-> x[k].id]
  BY <1>1 DEF BlockIds
<1>3. \A k \in 1 .. Len(x) : x[k].id \in STRING
  BY <1>1 DEF Block
<1>4. BlockIds(x) \in [1 .. Len(x) -> STRING]
  BY <1>2, <1>3
<1> QED BY <1>1, <1>2, <1>4

LEMMA IdsJoin ==
    ASSUME NEW x \in Seq(Block), NEW y \in Seq(Block)
    PROVE  BlockIds(x \o y) = BlockIds(x) \o BlockIds(y)
<1> DEFINE a == BlockIds(x \o y)
           b == BlockIds(x) \o BlockIds(y)
           m == Len(x)
           n == Len(y)
<1>1. /\ m \in Nat /\ n \in Nat /\ x \o y \in Seq(Block) /\ Len(x \o y) = m + n
      /\ \A k \in 1 .. m : (x \o y)[k] = x[k]
      /\ \A k \in m + 1 .. m + n : (x \o y)[k] = y[k - m] /\ k - m \in 1 .. n
  BY ConcatIs
<1>2. /\ a \in Seq(STRING) /\ Len(a) = m + n
      /\ \A k \in 1 .. m + n : a[k] = (x \o y)[k].id
  BY <1>1, IdsAreNames
<1> DEFINE c == BlockIds(x)
           d == BlockIds(y)
<1>3. c \in Seq(STRING) /\ Len(c) = m /\ \A k \in 1 .. m : c[k] = x[k].id
  BY IdsAreNames
<1>4. d \in Seq(STRING) /\ Len(d) = n /\ \A k \in 1 .. n : d[k] = y[k].id
  BY IdsAreNames
<1>0. b = c \o d
  OBVIOUS
<1> HIDE DEF a, b, c, d, m, n
<1>5. /\ b \in Seq(STRING) /\ Len(b) = m + n
      /\ \A k \in 1 .. m : b[k] = c[k]
      /\ \A k \in m + 1 .. m + n : b[k] = d[k - m] /\ k - m \in 1 .. n
  <2>1. /\ c \o d \in Seq(STRING) /\ Len(c \o d) = Len(c) + Len(d)
        /\ \A k \in 1 .. Len(c) : (c \o d)[k] = c[k]
        /\ \A k \in Len(c) + 1 .. Len(c \o d) :
              (c \o d)[k] = d[k - Len(c)] /\ k - Len(c) \in 1 .. Len(d)
    <3> DEFINE X == STRING
    <3>1. c \in Seq(X) /\ d \in Seq(X)
      BY <1>3, <1>4
    <3> HIDE DEF X
    <3>2. /\ c \o d \in Seq(X) /\ Len(c \o d) = Len(c) + Len(d)
          /\ \A k \in 1 .. Len(c) : (c \o d)[k] = c[k]
          /\ \A k \in Len(c) + 1 .. Len(c \o d) :
                (c \o d)[k] = d[k - Len(c)] /\ k - Len(c) \in 1 .. Len(d)
      BY ONLY <3>1, ConcatIs
    <3> QED BY <3>2 DEF X
  <2> QED BY <1>0, <1>3, <1>4, <2>1
<1>6. ASSUME NEW k \in 1 .. m + n PROVE a[k] = b[k]
  <2>1. CASE k \in 1 .. m
    <3>1. a[k] = (x \o y)[k].id /\ (x \o y)[k] = x[k]
      BY <1>1, <1>2, <2>1
    <3>2. b[k] = c[k] /\ c[k] = x[k].id
      BY <1>3, <1>5, <2>1
    <3> QED BY <3>1, <3>2
  <2>2. CASE k \in m + 1 .. m + n
    BY <1>1, <1>2, <1>4, <1>5, <2>2
  <2> QED BY <1>1, <2>1, <2>2
<1>7. a = b
  BY <1>2, <1>5, <1>6, SeqEqual
<1> QED BY <1>7 DEF a, b, c, d

Wordings(groups) == [i \in DOMAIN groups |-> BlockIds(groups[i])]
Wording(groups) == FlattenSeq(Wordings(groups))

LEMMA WordingsAre ==
    ASSUME NEW g \in Seq(Seq(Block))
    PROVE  /\ Wordings(g) \in Seq(Seq(STRING)) /\ Len(Wordings(g)) = Len(g)
           /\ \A i \in 1 .. Len(g) : Wordings(g)[i] = BlockIds(g[i])
           /\ Wording(g) \in Seq(STRING)
<1>1. Len(g) \in Nat /\ DOMAIN g = 1 .. Len(g) /\ \A i \in 1 .. Len(g) : g[i] \in Seq(Block)
  OBVIOUS
<1>2. \A i \in 1 .. Len(g) : BlockIds(g[i]) \in Seq(STRING)
  BY <1>1, IdsAreNames
<1> DEFINE w == Wordings(g)
<1>3. w = [i \in 1 .. Len(g) |-> BlockIds(g[i])]
  BY <1>1 DEF Wordings
<1>4. w \in [1 .. Len(g) -> Seq(STRING)] /\ \A i \in 1 .. Len(g) : w[i] = BlockIds(g[i])
  BY <1>2, <1>3
<1> HIDE DEF w
<1>5. w \in Seq(Seq(STRING)) /\ Len(w) = Len(g)
  <2> DEFINE X == Seq(STRING)
             n == Len(g)
  <2>1. w \in [1 .. n -> X] /\ n \in Nat
    BY <1>1, <1>4
  <2> HIDE DEF X, n
  <2>2. w \in Seq(X) /\ Len(w) = n
    BY ONLY <2>1
  <2> QED BY <2>2 DEF X, n
<1>6. FlattenSeq(w) \in Seq(STRING)
  BY <1>5, FlattenIs
<1> QED BY <1>4, <1>5, <1>6 DEF w, Wording

LEMMA WordingFlat ==
    ASSUME NEW g \in Seq(Seq(Block))
    PROVE  Wording(g) = BlockIds(FlattenSeq(g))
<1> DEFINE n == Len(g)
           w == Wordings(g)
<1>1. n \in Nat /\ \A i \in 1 .. n : g[i] \in Seq(Block)
  OBVIOUS
<1>2. w \in Seq(Seq(STRING)) /\ Len(w) = n /\ \A i \in 1 .. n : w[i] = BlockIds(g[i])
  BY WordingsAre
<1>3. PICK a : PutTogether(a, g, Block) /\ FlattenSeq(g) = a[n]
  BY FlattenBy
<1>4. PICK b : PutTogether(b, w, STRING) /\ FlattenSeq(w) = b[n]
  <2> HIDE DEF w
  <2> QED BY <1>2, FlattenBy
<1>5. a \in [0 .. n -> Seq(Block)] /\ a[0] = <<>> /\ \A i \in 1 .. n : a[i] = a[i - 1] \o g[i]
  BY <1>3 DEF PutTogether
<1> HIDE DEF w
<1>6. b[0] = <<>> /\ \A i \in 1 .. n : b[i] = b[i - 1] \o w[i]
  BY <1>2, <1>4 DEF PutTogether
<1> DEFINE S == {i \in 0 .. n : b[i] = BlockIds(a[i])}
<1> HIDE DEF n
<1>7. ASSUME NEW i \in 1 .. n, i - 1 \in S PROVE i \in S
  <2>1. i - 1 \in 0 .. n /\ i \in 0 .. n
    BY <1>1
  <2>2. b[i - 1] = BlockIds(a[i - 1]) /\ a[i - 1] \in Seq(Block)
    BY <1>5, <1>7, <2>1
  <2>3. BlockIds(a[i - 1] \o g[i]) = BlockIds(a[i - 1]) \o BlockIds(g[i])
    BY <1>1, <2>2, IdsJoin
  <2> QED BY <1>2, <1>5, <1>6, <2>1, <2>2, <2>3
<1>8. 0 \in S /\ n \in 0 .. n
  <2>1. BlockIds(<<>>) = <<>>
    BY DEF BlockIds
  <2> QED BY <1>1, <1>5, <1>6, <2>1
<1> HIDE DEF S
<1>9. n \in S
  BY <1>1, <1>7, <1>8, Inductive
<1> QED BY <1>3, <1>4, <1>9 DEF S, Wording, w

-----------------------------------------------------------------------------
(* A piece goes into the chunk in work, or into one of its own. *)
Fits(chunk, p) == Span(chunk) + p.len + Sep <= MaxChars
PutIn(done, p) ==
    IF done # <<>> /\ Fits(Last(done), p)
    THEN [done EXCEPT ![Len(done)] = Append(@, p)] ELSE Append(done, <<p>>)

LEMMA PutInIs ==
    ASSUME NEW T, NEW done \in Seq(Seq(T)), NEW p \in T
    PROVE  /\ PutIn(done, p) \in Seq(Seq(T))
           /\ FlattenSeq(PutIn(done, p)) = FlattenSeq(done) \o <<p>>
           /\ PutIn(done, p) # <<>>
           /\ (\A i \in 1 .. Len(done) : done[i] # <<>>)
                 => \A i \in 1 .. Len(PutIn(done, p)) : PutIn(done, p)[i] # <<>>
<1> DEFINE n == Len(done)
           X == Seq(T)
<1>1. n \in Nat /\ <<p>> \in X /\ \A i \in 1 .. n : done[i] \in X
  OBVIOUS
<1>2. ASSUME NEW front \in Seq(X), NEW x \in X
      PROVE  /\ FlattenSeq(front \o <<x>>) = FlattenSeq(front) \o x
             /\ front \o <<x>> \in Seq(X) /\ front \o <<x>> # <<>>
             /\ Len(front \o <<x>>) = Len(front) + 1 /\ (front \o <<x>>)[Len(front) + 1] = x
             /\ \A i \in 1 .. Len(front) : (front \o <<x>>)[i] = front[i]
  <2>1. <<x>> \in Seq(X) /\ Len(<<x>>) = 1 /\ <<x>>[1] = x
    OBVIOUS
  <2>2. FlattenSeq(front \o <<x>>) = FlattenSeq(front) \o FlattenSeq(<<x>>)
    BY <2>1, FlattenJoin
  <2>3. FlattenSeq(<<x>>) = x
    BY FlattenOne
  <2> HIDE DEF X
  <2>4. /\ front \o <<x>> \in Seq(X) /\ Len(front \o <<x>>) = Len(front) + Len(<<x>>)
        /\ \A i \in 1 .. Len(front) : (front \o <<x>>)[i] = front[i]
        /\ \A i \in 1 .. Len(<<x>>) : (front \o <<x>>)[Len(front) + i] = <<x>>[i]
    BY <2>1, ConcatIs
  <2>5. Len(front) \in Nat
    OBVIOUS
  <2>6. 1 \in 1 .. 1 /\ Len(front) + 1 # 0
    BY <2>5
  <2>7. (front \o <<x>>)[Len(front) + 1] = x /\ Len(front \o <<x>>) = Len(front) + 1
    BY <2>1, <2>4, <2>6
  <2>8. front \o <<x>> # <<>>
    BY <2>6, <2>7
  <2> QED BY <2>2, <2>3, <2>4, <2>7, <2>8
<1>3. CASE done # <<>> /\ Fits(Last(done), p)
  <2> DEFINE front == SubSeq(done, 1, n - 1)
             x == done[n]
             y == Append(x, p)
             new == [done EXCEPT ![n] = Append(@, p)]
  <2>1. n \in 1 .. n /\ x \in X /\ n - 1 \in Nat
    BY <1>1, <1>3
  <2>2. y = x \o <<p>> /\ y \in X /\ y # <<>>
    <3>1. y = x \o <<p>>
      BY <2>1, AppendIsConcat
    <3>2. y \in X /\ y # <<>>
      <4>1. x \in Seq(T)
        BY <2>1
      <4> HIDE DEF x
      <4> QED BY <4>1
    <3> QED BY <3>1, <3>2
  <2>3. front \in Seq(X) /\ Len(front) = n - 1 /\ \A i \in 1 .. n - 1 : front[i] = done[i]
    <3> HIDE DEF X
    <3>1. done \in Seq(X)
      BY DEF X
    <3> QED BY <1>1, <2>1, <3>1
  <2>4. /\ new \in Seq(X) /\ Len(new) = n /\ new[n] = y
        /\ \A i \in 1 .. n - 1 : new[i] = done[i]
    <3> HIDE DEF X
    <3>1. done \in Seq(X)
      BY DEF X
    <3> QED BY <2>1, <2>2, <3>1
  <2> HIDE DEF front, x, y, new, n, X
  <2>0. Len(front) + 1 = n
    BY <2>1, <2>3
  <2>5. /\ front \o <<x>> \in Seq(X) /\ Len(front \o <<x>>) = n
        /\ (front \o <<x>>)[n] = x /\ \A i \in 1 .. n - 1 : (front \o <<x>>)[i] = done[i]
        /\ FlattenSeq(front \o <<x>>) = FlattenSeq(front) \o x
    <3>1. /\ FlattenSeq(front \o <<x>>) = FlattenSeq(front) \o x
          /\ front \o <<x>> \in Seq(X)
          /\ Len(front \o <<x>>) = Len(front) + 1 /\ (front \o <<x>>)[Len(front) + 1] = x
          /\ \A i \in 1 .. Len(front) : (front \o <<x>>)[i] = front[i]
      BY <1>2, <2>1, <2>3
    <3> QED BY <2>0, <2>3, <3>1
  <2>6. /\ front \o <<y>> \in Seq(X) /\ Len(front \o <<y>>) = n
        /\ (front \o <<y>>)[n] = y /\ \A i \in 1 .. n - 1 : (front \o <<y>>)[i] = done[i]
        /\ FlattenSeq(front \o <<y>>) = FlattenSeq(front) \o y
    <3>1. /\ FlattenSeq(front \o <<y>>) = FlattenSeq(front) \o y
          /\ front \o <<y>> \in Seq(X)
          /\ Len(front \o <<y>>) = Len(front) + 1 /\ (front \o <<y>>)[Len(front) + 1] = y
          /\ \A i \in 1 .. Len(front) : (front \o <<y>>)[i] = front[i]
      BY <1>2, <2>2, <2>3
    <3> QED BY <2>0, <2>3, <3>1
  <2>7. \A i \in 1 .. n : i = n \/ i \in 1 .. n - 1
    BY <1>1
  <2>8. done = front \o <<x>>
    <3>1. done \in Seq(X) /\ Len(done) = n /\ done[n] = x
      BY DEF x, n, X
    <3>2. \A i \in 1 .. n : done[i] = (front \o <<x>>)[i]
      BY <2>5, <2>7, <3>1
    <3> QED BY ONLY <2>5, <3>1, <3>2, SeqEqual
  <2>9. new = front \o <<y>>
    BY ONLY <2>4, <2>6, <2>7, SeqEqual
  <2>10. FlattenSeq(front) \in X
    BY <2>3, FlattenIs DEF X
  <2>11. FlattenSeq(new) = FlattenSeq(done) \o <<p>>
    <3>1. (FlattenSeq(front) \o x) \o <<p>> = FlattenSeq(front) \o (x \o <<p>>)
      <4>1. \A a, b, c \in Seq(T) : (a \o b) \o c = a \o (b \o c)
        <5>1. Associates(T)
          BY Regroup
        <5> QED BY <5>1 DEF Associates
      <4> QED BY <1>1, <2>1, <2>10, <4>1 DEF X
    <3> QED BY <2>2, <2>5, <2>6, <2>8, <2>9, <3>1
  <2>12. PutIn(done, p) = new
    BY <1>3 DEF PutIn, new, n
  <2>13. new # <<>>
    BY <2>1, <2>4
  <2>14. ASSUME \A i \in 1 .. n : done[i] # <<>>, NEW i \in 1 .. n PROVE new[i] # <<>>
    BY <2>2, <2>4, <2>7, <2>14
  <2> QED BY <2>4, <2>11, <2>12, <2>13, <2>14 DEF n, X
<1>4. CASE ~(done # <<>> /\ Fits(Last(done), p))
  <2>1. PutIn(done, p) = done \o <<<<p>>>>
    <3>1. PutIn(done, p) = Append(done, <<p>>)
      BY <1>4 DEF PutIn
    <3>2. done \in Seq(X)
      OBVIOUS
    <3> HIDE DEF X
    <3> QED BY <1>1, <3>1, <3>2, AppendIsConcat
  <2> DEFINE new == done \o <<<<p>>>>
  <2>2. /\ FlattenSeq(new) = FlattenSeq(done) \o <<p>>
        /\ new \in Seq(X) /\ new # <<>> /\ Len(new) = n + 1 /\ new[n + 1] = <<p>>
        /\ \A i \in 1 .. n : new[i] = done[i]
    BY <1>1, <1>2
  <2> HIDE DEF new, n, X
  <2>3. ASSUME \A i \in 1 .. n : done[i] # <<>>, NEW i \in 1 .. n + 1 PROVE new[i] # <<>>
    <3>1. i \in 1 .. n \/ i = n + 1
      BY <1>1
    <3>2. <<p>> # <<>>
      OBVIOUS
    <3> QED BY <2>2, <2>3, <3>1, <3>2
  <2> QED BY <2>1, <2>2, <2>3 DEF new, n, X
<1> QED BY <1>3, <1>4

LEMMA PackBy ==
    ASSUME NEW T, NEW pieces \in Seq(T)
    PROVE  /\ Pack(pieces) \in Seq(Seq(T))
           /\ FlattenSeq(Pack(pieces)) = pieces
           /\ \A i \in 1 .. Len(Pack(pieces)) : Pack(pieces)[i] # <<>>
<1> DEFINE n == Len(pieces)
           X == Seq(Seq(T))
           fits(chunk, p) == Span(chunk) + p.len + Sep <= MaxChars
           add(done, p) == IF done # <<>> /\ fits(Last(done), p)
                           THEN [done EXCEPT ![Len(done)] = Append(@, p)]
                           ELSE Append(done, <<p>>)
           next(g, i) == IF i = 0 THEN <<>> ELSE With(g[i - 1], LAMBDA done : add(done, pieces[i]))
           packed == CHOOSE g : g = [i \in 0 .. n |-> next(g, i)]
           step == [i \in 1 .. n |-> [u \in X |-> PutIn(u, pieces[i])]]
<1>1. n \in Nat /\ \A i \in 1 .. n : pieces[i] \in T
  OBVIOUS
<1>2. ASSUME NEW done \in X, NEW p \in T PROVE PutIn(done, p) \in X
  BY PutInIs
<1>3. \A g, i : next(g, i) = IF i = 0 THEN <<>> ELSE PutIn(g[i - 1], pieces[i])
  <2>1. \A done, q : add(done, q) = PutIn(done, q)
    BY DEF PutIn, Fits
  <2> HIDE DEF add
  <2> QED BY <2>1 DEF With
<1>4. <<>> \in X
  OBVIOUS
<1>5. Pack(pieces) = packed[n]
  BY DEF Pack
<1> HIDE DEF n, X, add, next
<1>6. Closed(X, n, step)
  BY <1>1, <1>2 DEF Closed
<1>7. \E g : g = [i \in 0 .. n |-> next(g, i)]
  <2>1. PICK g : Recursive(g, X, n, <<>>, step)
    <3> HIDE DEF step
    <3> QED BY <1>1, <1>4, <1>6, RecursionIs
  <2>2. ASSUME NEW i \in 0 .. n PROVE next(g, i) = g[i]
    <3>1. CASE i = 0
      BY <1>3, <2>1, <3>1 DEF Recursive
    <3>2. CASE i # 0
      <4>1. i - 1 \in 0 .. n /\ i \in 1 .. n
        BY <1>1, <3>2
      <4>2. g[i - 1] \in X
        BY <2>1, <4>1 DEF Recursive
      <4>3. step[i][g[i - 1]] = PutIn(g[i - 1], pieces[i])
        BY <4>1, <4>2
      <4> QED BY <1>3, <2>1, <3>2, <4>1, <4>3 DEF Recursive
    <3> QED BY <3>1, <3>2
  <2> HIDE DEF step
  <2>3. g = [i \in 0 .. n |-> next(g, i)]
    <3>1. g = [i \in 0 .. n |-> g[i]]
      BY <2>1 DEF Recursive
    <3> QED BY <2>2, <3>1
  <2> QED BY <2>3
<1>8. packed = [i \in 0 .. n |-> next(packed, i)]
  BY <1>7
<1> HIDE DEF packed
<1>9. packed[0] = <<>> /\ \A i \in 1 .. n : packed[i] = PutIn(packed[i - 1], pieces[i])
  <2>1. 0 \in 0 .. n /\ \A i \in 1 .. n : i \in 0 .. n /\ i # 0
    BY <1>1
  <2> QED BY <1>3, <1>8, <2>1
<1> DEFINE S == {i \in 0 .. n : /\ packed[i] \in X
                                /\ FlattenSeq(packed[i]) = SubSeq(pieces, 1, i)
                                /\ \A k \in 1 .. Len(packed[i]) : packed[i][k] # <<>>}
<1>10. ASSUME NEW i \in 1 .. n, i - 1 \in S PROVE i \in S
  <2>1. i \in 0 .. n /\ i - 1 + 1 = i /\ pieces[i] \in T
    BY <1>1
  <2>2. /\ packed[i - 1] \in X /\ FlattenSeq(packed[i - 1]) = SubSeq(pieces, 1, i - 1)
        /\ \A k \in 1 .. Len(packed[i - 1]) : packed[i - 1][k] # <<>>
    BY <1>10
  <2>3. /\ packed[i] \in X
        /\ FlattenSeq(packed[i]) = FlattenSeq(packed[i - 1]) \o <<pieces[i]>>
        /\ \A k \in 1 .. Len(packed[i]) : packed[i][k] # <<>>
    <3> DEFINE u == packed[i - 1]
    <3>1. u \in Seq(Seq(T)) /\ packed[i] = PutIn(u, pieces[i])
      BY <1>9, <2>2 DEF X
    <3> HIDE DEF u
    <3>2. /\ PutIn(u, pieces[i]) \in Seq(Seq(T))
          /\ FlattenSeq(PutIn(u, pieces[i])) = FlattenSeq(u) \o <<pieces[i]>>
          /\ (\A k \in 1 .. Len(u) : u[k] # <<>>)
                => \A k \in 1 .. Len(PutIn(u, pieces[i])) : PutIn(u, pieces[i])[k] # <<>>
      BY <2>1, <3>1, PutInIs
    <3> QED BY <2>2, <3>1, <3>2 DEF u, X
  <2>4. SubSeq(pieces, 1, i - 1) \o <<pieces[i]>> = SubSeq(pieces, 1, i)
    <3>1. 1 \in 1 .. Len(pieces) /\ i \in 1 .. Len(pieces)
      BY <1>1 DEF n
    <3> QED BY <3>1, SubSeqRecursiveSecond
  <2> QED BY <2>1, <2>2, <2>3, <2>4
<1>11. 0 \in S /\ n \in 0 .. n
  <2>1. SubSeq(pieces, 1, 0) = <<>> /\ FlattenSeq(<<>>) = <<>>
    <3>1. FlattenSeq(<<>>) = <<>>
      <4>1. <<>> \in Seq({})
        OBVIOUS
      <4> QED BY <4>1, FlattenOne
    <3>2. 1 \in Int /\ 0 \in Int /\ 0 < 1
      OBVIOUS
    <3>3. SubSeq(pieces, 1, 0) = <<>>
      BY ONLY <3>2, SubSeqEmpty
    <3> QED BY <3>1, <3>3
  <2>2. \A k \in 1 .. Len(<<>>) : <<>>[k] # <<>>
    OBVIOUS
  <2>3. /\ packed[0] \in X /\ FlattenSeq(packed[0]) = SubSeq(pieces, 1, 0)
        /\ \A k \in 1 .. Len(packed[0]) : packed[0][k] # <<>>
    BY <1>4, <1>9, <2>1, <2>2, Zenon
  <2> QED BY <1>1, <2>3
<1> HIDE DEF S
<1>12. n \in S
  BY <1>1, <1>10, <1>11, Inductive
<1>13. SubSeq(pieces, 1, n) = pieces
  BY SubSeqFull DEF n
<1> QED BY <1>5, <1>12, <1>13 DEF S, X

-----------------------------------------------------------------------------
(* t copies s from its place a to its place b: it goes through them one by *)
(* one, and may stay at one for a while.                                   *)
BlockName == STRING
Follows(o, t, s, a, b) ==
    /\ Len(t) = 0 => b = a - 1
    /\ Len(t) > 0 => o[1] = a /\ o[Len(t)] = b
    /\ \A k \in 1 .. Len(t) : /\ t[k] = s[o[k]]
                              /\ k > 1 => o[k] \in {o[k - 1], o[k - 1] + 1}
Copies(t, s, a, b) ==
    /\ t \in Seq(BlockName) /\ a \in Nat \ {0} /\ b \in Int
    /\ \E o \in [1 .. Len(t) -> a .. b] : Follows(o, t, s, a, b)

LEMMA CopiesJoin ==
    ASSUME NEW s, NEW t, NEW u, NEW a, NEW b, NEW c, NEW d,
           Copies(t, s, a, b), Copies(u, s, c, d), c \in {b, b + 1},
           c = b => Len(t) > 0 /\ Len(u) > 0
    PROVE  Copies(t \o u, s, a, d)
<1> DEFINE m == Len(t)
           n == Len(u)
<1>1. t \in Seq(BlockName) /\ a \in Nat \ {0} /\ b \in Int /\ u \in Seq(BlockName) /\ d \in Int
  BY DEF Copies
<1>2. PICK p \in [1 .. m -> a .. b] : Follows(p, t, s, a, b)
  BY DEF Copies
<1>3. PICK q \in [1 .. n -> c .. d] : Follows(q, u, s, c, d)
  BY DEF Copies
<1>4. m \in Nat /\ n \in Nat
  BY <1>1
<1>5. CASE m = 0
  <2>1. t = <<>> /\ c = a
    BY <1>1, <1>2, <1>4, <1>5 DEF Follows
  <2>2. t \o u = u
    BY <1>1, <2>1, ConcatEmptySeq
  <2> QED BY <2>1, <2>2
<1>6. CASE n = 0
  <2>1. u = <<>> /\ d = b
    BY <1>1, <1>3, <1>4, <1>6 DEF Follows
  <2>2. t \o u = t
    BY <1>1, <2>1, ConcatEmptySeq
  <2> QED BY <2>1, <2>2
<1>7. CASE m > 0 /\ n > 0
  <2> DEFINE v == t \o u
             o == [k \in 1 .. m + n |-> IF k <= m THEN p[k] ELSE q[k - m]]
  <2>1. /\ v \in Seq(BlockName) /\ Len(v) = m + n
        /\ \A k \in 1 .. m : v[k] = t[k]
        /\ \A k \in m + 1 .. m + n : v[k] = u[k - m] /\ k - m \in 1 .. n
    BY <1>1, ConcatIs
  <2>2. /\ p[1] = a /\ p[m] = b /\ q[1] = c /\ q[n] = d
        /\ \A k \in 1 .. m : t[k] = s[p[k]] /\ (k > 1 => p[k] \in {p[k - 1], p[k - 1] + 1})
        /\ \A k \in 1 .. n : u[k] = s[q[k]] /\ (k > 1 => q[k] \in {q[k - 1], q[k - 1] + 1})
    BY <1>2, <1>3, <1>7 DEF Follows
  <2> HIDE DEF m, n, v
  <2>3. a <= b /\ b <= d /\ a <= c
    <3>1. p[m] \in a .. b /\ q[1] \in c .. d
      BY <1>2, <1>3, <1>4, <1>7
    <3> QED BY <1>1, <2>2, <3>1
  <2>4. \A k \in 1 .. m + n : k \in 1 .. m \/ (k \in m + 1 .. m + n /\ k - m \in 1 .. n)
    BY <1>4
  <2>5. /\ \A k \in 1 .. m : o[k] = p[k] /\ k \in 1 .. m + n
        /\ \A k \in m + 1 .. m + n : o[k] = q[k - m] /\ k \in 1 .. m + n
    BY <1>4
  <2>6. ASSUME NEW k \in 1 .. m + n PROVE o[k] \in a .. d
    <3>1. \A j \in 1 .. m : p[j] \in a .. b
      BY <1>2
    <3>2. \A j \in 1 .. n : q[j] \in c .. d
      BY <1>3
    <3>3. a .. b \subseteq a .. d /\ c .. d \subseteq a .. d
      BY <1>1, <2>3
    <3> HIDE DEF o
    <3> QED BY <2>4, <2>5, <3>1, <3>2, <3>3
  <2>7. o \in [1 .. m + n -> a .. d]
    BY <2>6
  <2> HIDE DEF o
  <2>8. o[1] = a /\ o[m + n] = d
    <3>1. 1 \in 1 .. m /\ m + n \in m + 1 .. m + n /\ m + n - m = n
      BY <1>4, <1>7
    <3>2. o[1] = p[1]
      BY <2>5, <3>1
    <3> DEFINE z == m + n
    <3>3. o[z] = q[z - m] /\ z - m = n
      <4>1. z \in m + 1 .. m + n /\ z - m = n
        BY <1>4, <1>7
      <4> HIDE DEF z
      <4> QED BY <2>5, <4>1
    <3> QED BY <2>2, <3>2, <3>3
  <2>9. ASSUME NEW k \in 1 .. m + n
        PROVE  v[k] = s[o[k]] /\ (k > 1 => o[k] \in {o[k - 1], o[k - 1] + 1})
    <3>1. CASE k \in 1 .. m
      <4>1. k > 1 => k - 1 \in 1 .. m
        BY <1>4, <3>1
      <4> QED BY <2>1, <2>2, <2>5, <3>1, <4>1
    <3>2. CASE k = m + 1
      <4>1. k - m = 1 /\ k - 1 = m /\ m \in 1 .. m /\ 1 \in 1 .. n /\ k \in m + 1 .. m + n
        BY <1>4, <1>7, <3>2
      <4>2. o[k] = c /\ o[k - 1] = b /\ v[k] = s[o[k]]
        <5>1. o[k] = q[1] /\ v[k] = u[1]
          <6>1. o[k] = q[k - m]
            BY <2>5, <4>1
          <6>2. v[k] = u[k - m]
            BY <2>1, <4>1
          <6> QED BY <4>1, <6>1, <6>2
        <5>2. o[k - 1] = p[m]
          BY <2>5, <4>1
        <5>3. u[1] = s[q[1]]
          BY <2>2, <4>1
        <5> QED BY <2>2, <5>1, <5>2, <5>3
      <4> QED BY <4>2
    <3>3. CASE k \in m + 1 .. m + n /\ k # m + 1
      <4>1. /\ k - 1 \in m + 1 .. m + n /\ k - m \in 1 .. n /\ k - m > 1
            /\ k - 1 - m = (k - m) - 1
        BY <1>4, <3>3
      <4>2. o[k] = q[k - m] /\ o[k - 1] = q[(k - m) - 1] /\ v[k] = u[k - m]
        BY <2>1, <2>5, <3>3, <4>1
      <4> QED BY <2>2, <4>1, <4>2
    <3> QED BY <2>4, <3>1, <3>2, <3>3
  <2>10. Follows(o, v, s, a, d)
    BY <1>4, <1>7, <2>1, <2>8, <2>9 DEF Follows
  <2> QED BY <1>1, <2>1, <2>7, <2>10 DEF Copies, v
<1> QED BY <1>4, <1>5, <1>6, <1>7

LEMMA CollapsedIs ==
    ASSUME NEW s \in Seq(BlockName), \A i, j \in DOMAIN s : s[i] = s[j] => i = j,
           NEW t, Copies(t, s, 1, Len(s))
    PROVE  Collapsed(t) = s
<1> DEFINE n == Len(t)
           X == Seq(BlockName)
           put(u, i) == IF i > 1 /\ t[i] = t[i - 1] THEN u ELSE Append(u, t[i])
           next(g, i) == IF i = 0 THEN <<>> ELSE put(g[i - 1], i)
           upto == CHOOSE g : g = [i \in 0 .. n |-> next(g, i)]
           step == [i \in 1 .. n |-> [u \in X |-> put(u, i)]]
<1>1. n \in Nat /\ t \in X /\ \A i \in 1 .. n : t[i] \in BlockName
  BY DEF Copies
<1>2. PICK o \in [1 .. n -> 1 .. Len(s)] : Follows(o, t, s, 1, Len(s))
  BY DEF Copies
<1>3. <<>> \in X
  OBVIOUS
<1>4. Collapsed(t) = upto[n]
  <2>1. \A g, i : next(g, i) = IF i = 0 THEN <<>>
                               ELSE IF i > 1 /\ t[i] = t[i - 1] THEN g[i - 1]
                               ELSE Append(g[i - 1], t[i])
    OBVIOUS
  <2> QED BY <2>1 DEF Collapsed
<1>5. \A i \in 1 .. n : \A u \in X : put(u, i) \in X
  BY <1>1
<1> HIDE DEF n, X, put
<1>6. Closed(X, n, step)
  BY <1>5 DEF Closed
<1>7. \E g : g = [i \in 0 .. n |-> next(g, i)]
  <2>1. PICK g : Recursive(g, X, n, <<>>, step)
    <3> HIDE DEF step
    <3> QED BY <1>1, <1>3, <1>6, RecursionIs
  <2>2. ASSUME NEW i \in 0 .. n PROVE next(g, i) = g[i]
    <3>1. CASE i = 0
      BY <2>1, <3>1 DEF Recursive
    <3>2. CASE i # 0
      <4>1. i - 1 \in 0 .. n /\ i \in 1 .. n
        BY <1>1, <3>2
      <4>2. g[i - 1] \in X
        BY <2>1, <4>1 DEF Recursive
      <4>3. step[i][g[i - 1]] = put(g[i - 1], i)
        BY <4>1, <4>2
      <4> QED BY <2>1, <3>2, <4>1, <4>3 DEF Recursive
    <3> QED BY <3>1, <3>2
  <2> HIDE DEF step, next
  <2>3. g = [i \in 0 .. n |-> next(g, i)]
    <3>1. g = [i \in 0 .. n |-> g[i]]
      BY <2>1 DEF Recursive
    <3> QED BY <2>2, <3>1
  <2> QED BY <2>3
<1>8. upto = [i \in 0 .. n |-> next(upto, i)]
  BY <1>7
<1> HIDE DEF upto
<1>9. upto[0] = <<>> /\ \A i \in 1 .. n : upto[i] = put(upto[i - 1], i)
  <2>1. 0 \in 0 .. n /\ \A i \in 1 .. n : i \in 0 .. n /\ i # 0
    BY <1>1
  <2> QED BY <1>8, <2>1
<1>10. /\ n = 0 => Len(s) = 0
       /\ n > 0 => o[1] = 1 /\ o[n] = Len(s)
       /\ \A k \in 1 .. n : t[k] = s[o[k]] /\ (k > 1 => o[k] \in {o[k - 1], o[k - 1] + 1})
  BY <1>2 DEF Follows, n
<1>11. Len(s) \in Nat /\ DOMAIN s = 1 .. Len(s)
  OBVIOUS
<1>12. ASSUME NEW k \in 1 .. Len(s)
       PROVE  SubSeq(s, 1, k) = Append(SubSeq(s, 1, k - 1), s[k])
  <2>1. 1 \in 1 .. Len(s) /\ k \in 1 .. Len(s) /\ k - 1 \in Int /\ 1 \in Int
    BY <1>11
  <2>2. SubSeq(s, 1, k) = SubSeq(s, 1, k - 1) \o <<s[k]>>
    BY <2>1, SubSeqRecursiveSecond
  <2>3. SubSeq(s, 1, k - 1) \in Seq(BlockName) /\ s[k] \in BlockName
    BY <1>11
  <2> QED BY <2>2, <2>3, AppendIsConcat
<1> DEFINE S == {k \in 0 .. n : k > 0 => upto[k] = SubSeq(s, 1, o[k])}
<1>13. ASSUME NEW k \in 1 .. n, k - 1 \in S PROVE k \in S
  <2>1. o[k] \in 1 .. Len(s) /\ t[k] = s[o[k]]
    BY <1>2, <1>10
  <2>2. CASE k = 1
    <3>1. o[k] = 1 /\ upto[k] = Append(<<>>, t[1])
      <4>1. 1 \in 1 .. n /\ o[1] = 1 /\ 1 - 1 = 0 /\ ~(1 > 1)
        BY <1>1, <1>10, <2>2
      <4>2. upto[1] = put(upto[0], 1)
        BY <1>9, <4>1
      <4>3. upto[1] = Append(upto[0], t[1])
        BY <4>1, <4>2 DEF put
      <4> QED BY <1>9, <2>2, <4>1, <4>3
    <3>2. SubSeq(s, 1, 0) = <<>>
      <4>1. 1 \in Int /\ 0 \in Int /\ 0 < 1
        OBVIOUS
      <4> QED BY ONLY <4>1, SubSeqEmpty
    <3>3. upto[k] = SubSeq(s, 1, o[k])
      BY <1>12, <2>1, <2>2, <3>1, <3>2
    <3> QED BY <1>1, <3>3
  <2>3. CASE k # 1
    <3>1. k - 1 \in 1 .. n /\ k > 1 /\ k - 1 > 0
      BY <1>1, <2>3
    <3>2. upto[k - 1] = SubSeq(s, 1, o[k - 1]) /\ t[k - 1] = s[o[k - 1]]
          /\ o[k - 1] \in 1 .. Len(s)
      BY <1>2, <1>10, <1>13, <3>1
    <3>3. CASE o[k] = o[k - 1]
      <4>1. upto[k] = upto[k - 1]
        BY <1>9, <2>1, <3>1, <3>2, <3>3 DEF put
      <4> QED BY <1>1, <3>2, <3>3, <4>1
    <3>4. CASE o[k] = o[k - 1] + 1
      <4>1. t[k] # t[k - 1]
        BY <1>11, <2>1, <3>2, <3>4
      <4>2. upto[k] = Append(upto[k - 1], s[o[k]])
        BY <1>9, <2>1, <4>1 DEF put
      <4>3. o[k] - 1 = o[k - 1]
        BY <3>2, <3>4
      <4>4. SubSeq(s, 1, o[k]) = Append(SubSeq(s, 1, o[k] - 1), s[o[k]])
        BY <1>12, <2>1
      <4>5. upto[k] = SubSeq(s, 1, o[k])
        BY <3>2, <4>2, <4>3, <4>4
      <4> QED BY <1>1, <4>5
    <3> QED BY <1>10, <3>1, <3>3, <3>4
  <2> QED BY <2>2, <2>3
<1>14. 0 \in S /\ n \in 0 .. n
  BY <1>1
<1> HIDE DEF S
<1>15. n \in S
  BY <1>1, <1>13, <1>14, Inductive
<1>16. upto[n] = s
  <2>1. CASE n = 0
    BY <1>9, <1>10, <1>11, <2>1
  <2>2. CASE n > 0
    <3>1. SubSeq(s, 1, Len(s)) = s
      BY SubSeqFull
    <3> QED BY <1>10, <1>15, <2>2, <3>1 DEF S
  <2> QED BY <1>1, <2>1, <2>2
<1> QED BY <1>4, <1>16

(* Some consecutive blocks of a text, all of them together.                *)
LEMMA CopiesByItem ==
    ASSUME NEW bs \in Seq(Block), NEW t \in Seq(Block), NEW a \in Nat \ {0}, NEW b \in Int,
           b <= Len(bs), NEW o \in [1 .. Len(t) -> a .. b],
           \A k \in 1 .. Len(t) : t[k].id = bs[o[k]].id,
           Len(t) = 0 => b = a - 1,
           Len(t) > 0 => o[1] = a /\ o[Len(t)] = b,
           \A k \in 1 .. Len(t) : k > 1 => o[k] \in {o[k - 1], o[k - 1] + 1}
    PROVE  Copies(BlockIds(t), BlockIds(bs), a, b)
<1> DEFINE x == BlockIds(t)
           y == BlockIds(bs)
           n == Len(t)
<1>1. n \in Nat /\ Len(bs) \in Nat
  OBVIOUS
<1>2. x \in Seq(BlockName) /\ Len(x) = n /\ \A k \in 1 .. n : x[k] = t[k].id
  BY IdsAreNames DEF BlockName
<1>3. \A k \in 1 .. Len(bs) : y[k] = bs[k].id
  BY IdsAreNames
<1> HIDE DEF x, y
<1>4. ASSUME NEW k \in 1 .. n PROVE x[k] = y[o[k]]
  <2>1. o[k] \in a .. b
    OBVIOUS
  <2>2. o[k] \in 1 .. Len(bs)
    BY <1>1, <2>1
  <2> QED BY <1>2, <1>3, <2>2
<1>5. Follows(o, x, y, a, b)
  BY <1>2, <1>4 DEF Follows
<1>6. \E q \in [1 .. Len(x) -> a .. b] : Follows(q, x, y, a, b)
  BY <1>2, <1>5
<1> QED BY <1>2, <1>6 DEF Copies, x, y

(* The places of what is picked, in ascending order.                       *)
PicksBy(o, t, s, at) ==
    /\ o \in [1 .. Len(t) -> at]
    /\ \A k \in 1 .. Len(t) : t[k] = s[o[k]]
    /\ \A i \in at : \E k \in 1 .. Len(t) : o[k] = i
    /\ \A k, l \in 1 .. Len(t) : k <= l <=> o[k] <= o[l]

LEMMA PickedBy ==
    ASSUME NEW T, NEW s \in Seq(T), NEW at \in SUBSET DOMAIN s
    PROVE  Picked(s, at) \in Seq(T) /\ \E o : PicksBy(o, Picked(s, at), s, at)
<1> DEFINE m == Cardinality(at)
           t == Picked(s, at)
<1>1. PICK o \in [1 .. m -> at] : Ascends(o, at) /\ t = [k \in 1 .. m |-> s[o[k]]]
  BY PickedIs
<1>2. IsFiniteSet(at) /\ m \in Nat
  BY PickedIs
<1>3. at \in SUBSET Int
  <2>1. DOMAIN s = 1 .. Len(s) /\ Len(s) \in Nat
    OBVIOUS
  <2> QED BY <2>1
<1>4. /\ \A i \in at : \E k \in 1 .. m : o[k] = i
      /\ \A k, l \in 1 .. m : k <= l <=> o[k] <= o[l]
  BY <1>1, <1>2, <1>3, AscendsIs
<1>5. t \in Seq(T)
  BY PickedType
<1> HIDE DEF m, t
<1>6. Len(t) = m /\ \A k \in 1 .. m : t[k] = s[o[k]]
  BY <1>1, <1>2
<1>7. PicksBy(o, t, s, at)
  BY <1>1, <1>4, <1>6 DEF PicksBy
<1> QED BY <1>5, <1>7 DEF t

LEMMA PickedCopies ==
    ASSUME NEW bs \in Seq(Block), NEW a \in Nat \ {0}, NEW b \in Int,
           a <= b + 1, b <= Len(bs)
    PROVE  /\ Picked(bs, a .. b) \in Seq(Block)
           /\ Copies(BlockIds(Picked(bs, a .. b)), BlockIds(bs), a, b)
           /\ a <= b => Len(Picked(bs, a .. b)) > 0
<1> DEFINE at == a .. b
           t == Picked(bs, at)
           m == Len(t)
<1>1. at \in SUBSET DOMAIN bs /\ at \in SUBSET Int
  <2>1. DOMAIN bs = 1 .. Len(bs) /\ Len(bs) \in Nat
    OBVIOUS
  <2> QED BY <2>1
<1> HIDE DEF at
<1>2. t \in Seq(Block) /\ \E o : PicksBy(o, t, bs, at)
  BY <1>1, PickedBy
<1>3. PICK o : PicksBy(o, t, bs, at)
  BY <1>2
<1>4. /\ o \in [1 .. m -> at] /\ m \in Nat
      /\ \A k \in 1 .. m : t[k] = bs[o[k]]
      /\ \A i \in at : \E k \in 1 .. m : o[k] = i
      /\ \A k, l \in 1 .. m : k <= l <=> o[k] <= o[l]
  BY <1>2, <1>3 DEF PicksBy
<1> HIDE DEF m, t
<1>7. m = 0 => b = a - 1
  <2>1. m = 0 => at = {}
    BY <1>4
  <2> QED BY <2>1 DEF at
<1>8. ASSUME m > 0 PROVE o[1] = a /\ o[m] = b
  <2>1. 1 \in 1 .. m /\ m \in 1 .. m
    BY <1>4, <1>8
  <2>2. o[1] \in a .. b /\ o[m] \in a .. b
    BY <1>4, <2>1 DEF at
  <2>3. a \in at /\ b \in at
    BY <2>2 DEF at
  <2>4. PICK k \in 1 .. m : o[k] = a
    BY <1>4, <2>3
  <2>5. PICK l \in 1 .. m : o[l] = b
    BY <1>4, <2>3
  <2>6. o[1] <= o[k] /\ o[l] <= o[m]
    BY <1>4, <2>1
  <2> QED BY <2>2, <2>4, <2>5, <2>6
<1>9. ASSUME NEW k \in 1 .. m, k > 1 PROVE o[k] = o[k - 1] + 1
  <2>1. k - 1 \in 1 .. m /\ ~(k <= k - 1)
    BY <1>4, <1>9
  <2>2. o[k - 1] \in a .. b /\ o[k] \in a .. b /\ ~(o[k] <= o[k - 1])
    BY <1>4, <2>1 DEF at
  <2>3. o[k - 1] + 1 \in at
    BY <2>2 DEF at
  <2>4. PICK l \in 1 .. m : o[l] = o[k - 1] + 1
    BY <1>4, <2>3
  <2>5. ~(o[l] <= o[k - 1])
    BY <2>2, <2>4
  <2>6. ~(l <= k - 1)
    BY <1>4, <2>1, <2>5
  <2>7. k <= l
    BY <1>4, <2>6
  <2>8. o[k] <= o[l]
    BY <1>4, <2>7
  <2> QED BY <2>2, <2>4, <2>8
<1>10. o \in [1 .. Len(t) -> a .. b]
  BY <1>4 DEF at, m
<1>11. Copies(BlockIds(t), BlockIds(bs), a, b)
  <2>1. \A k \in 1 .. Len(t) : t[k].id = bs[o[k]].id
    BY <1>4 DEF m
  <2>2. Len(t) = 0 => b = a - 1
    BY <1>7 DEF m
  <2>3. Len(t) > 0 => o[1] = a /\ o[Len(t)] = b
    BY <1>8 DEF m
  <2>4. \A k \in 1 .. Len(t) : k > 1 => o[k] \in {o[k - 1], o[k - 1] + 1}
    BY <1>9 DEF m
  <2> QED BY <1>2, <1>10, <2>1, <2>2, <2>3, <2>4, CopiesByItem
<1>12. a <= b => Len(t) > 0
  <2>1. a <= b => m # 0
    BY <1>7
  <2> QED BY <1>4, <2>1 DEF m
<1> QED BY <1>2, <1>11, <1>12 DEF t, at

LEMMA SubCopies ==
    ASSUME NEW bs \in Seq(Block), NEW a \in Nat \ {0}, NEW b \in Int,
           a <= b + 1, b <= Len(bs)
    PROVE  /\ SubSeq(bs, a, b) \in Seq(Block)
           /\ Copies(BlockIds(SubSeq(bs, a, b)), BlockIds(bs), a, b)
<1> DEFINE t == SubSeq(bs, a, b)
           m == b - a + 1
           o == [k \in 1 .. m |-> a + k - 1]
<1>1. Len(bs) \in Nat /\ m \in Nat
  OBVIOUS
<1>2. t \in Seq(Block) /\ Len(t) = m /\ \A k \in 1 .. m : t[k] = bs[a + k - 1]
  OBVIOUS
<1>3. /\ o \in [1 .. m -> a .. b] /\ \A k \in 1 .. m : o[k] = a + k - 1
      /\ m > 0 => 1 \in 1 .. m /\ m \in 1 .. m
  OBVIOUS
<1>4. m = 0 => b = a - 1
  OBVIOUS
<1>5. m > 0 => o[1] = a /\ o[m] = b
  <2> HIDE DEF o
  <2> QED BY <1>3
<1>6. ASSUME NEW k \in 1 .. m, k > 1 PROVE o[k] = o[k - 1] + 1
  <2>1. k - 1 \in 1 .. m
    BY <1>1, <1>6
  <2> HIDE DEF o, m
  <2> QED BY <1>3, <2>1
<1> HIDE DEF t, o, m
<1>7. Copies(BlockIds(t), BlockIds(bs), a, b)
  <2>1. /\ o \in [1 .. Len(t) -> a .. b]
        /\ \A k \in 1 .. Len(t) : t[k].id = bs[o[k]].id
        /\ Len(t) = 0 => b = a - 1
        /\ Len(t) > 0 => o[1] = a /\ o[Len(t)] = b
        /\ \A k \in 1 .. Len(t) : k > 1 => o[k] \in {o[k - 1], o[k - 1] + 1}
    BY <1>2, <1>3, <1>4, <1>5, <1>6
  <2> QED BY <1>2, <2>1, CopiesByItem
<1> QED BY <1>2, <1>7 DEF t

-----------------------------------------------------------------------------
(* The blocks of the chunks, put one after the other.                      *)
Chunked(cs) == IsSeq(cs) /\ \A i \in DOMAIN cs : cs[i].blocks \in Seq(Block)
Bodies(cs) == [i \in DOMAIN cs |-> BlockIds(cs[i].blocks)]
Body(cs) == FlattenSeq(Bodies(cs))
CopyText(cs, bs, a, b) == Chunked(cs) /\ Copies(Body(cs), BlockIds(bs), a, b)

LEMMA BodiesAre ==
    ASSUME NEW cs, Chunked(cs)
    PROVE  /\ Len(cs) \in Nat /\ DOMAIN cs = 1 .. Len(cs)
           /\ Bodies(cs) \in Seq(Seq(BlockName)) /\ Len(Bodies(cs)) = Len(cs)
           /\ \A i \in 1 .. Len(cs) : Bodies(cs)[i] = BlockIds(cs[i].blocks)
           /\ Body(cs) \in Seq(BlockName)
<1> DEFINE n == Len(cs)
           w == Bodies(cs)
           X == Seq(BlockName)
<1>1. n \in Nat /\ DOMAIN cs = 1 .. n
  BY DEF Chunked, IsSeq
<1>2. \A i \in 1 .. n : BlockIds(cs[i].blocks) \in X
  BY <1>1, IdsAreNames DEF Chunked, BlockName
<1>3. w = [i \in 1 .. n |-> BlockIds(cs[i].blocks)]
  BY <1>1 DEF Bodies
<1> HIDE DEF n, w, X
<1>4. w \in Seq(X) /\ Len(w) = n /\ \A i \in 1 .. n : w[i] = BlockIds(cs[i].blocks)
  BY <1>1, <1>2, <1>3
<1>5. FlattenSeq(w) \in X
  BY <1>4, FlattenIs DEF X
<1> QED BY <1>1, <1>4, <1>5 DEF Body, n, w, X

LEMMA BodiesJoin ==
    ASSUME NEW cs, Chunked(cs), NEW ds, Chunked(ds)
    PROVE  Chunked(cs \o ds) /\ Body(cs \o ds) = Body(cs) \o Body(ds)
<1> DEFINE m == Len(cs)
           n == Len(ds)
           es == cs \o ds
           X == Seq(BlockName)
           w == Bodies(es)
           x == Bodies(cs)
           y == Bodies(ds)
           z == x \o y
<1>1. /\ IsSeq(es) /\ m \in Nat /\ n \in Nat /\ DOMAIN cs = 1 .. m /\ DOMAIN ds = 1 .. n
      /\ Len(es) = m + n /\ DOMAIN es = 1 .. m + n
      /\ \A k \in 1 .. m : es[k] = cs[k]
      /\ \A k \in 1 .. n : es[m + k] = ds[k]
  BY JoinedIs DEF Chunked
<1>2. \A k \in 1 .. m + n : k \in 1 .. m \/ (k - m \in 1 .. n /\ k = m + (k - m))
  BY <1>1
<1> HIDE DEF m, n, es
<1>3. Chunked(es)
  <2>1. ASSUME NEW k \in 1 .. m + n PROVE es[k].blocks \in Seq(Block)
    <3>1. CASE k \in 1 .. m
      BY <1>1, <3>1 DEF Chunked
    <3>2. CASE k - m \in 1 .. n /\ k = m + (k - m)
      <4> DEFINE j == k - m
      <4>1. j \in 1 .. n /\ es[k] = ds[j]
        <5>1. j \in 1 .. n /\ k = m + j
          BY <3>2
        <5> HIDE DEF j
        <5> QED BY <1>1, <5>1
      <4> QED BY <1>1, <4>1 DEF Chunked
    <3> QED BY <1>2, <3>1, <3>2
  <2> QED BY <1>1, <2>1 DEF Chunked
<1>4. w \in Seq(X) /\ Len(w) = m + n /\ \A k \in 1 .. m + n : w[k] = BlockIds(es[k].blocks)
  BY <1>1, <1>3, BodiesAre
<1>5. x \in Seq(X) /\ Len(x) = m /\ \A k \in 1 .. m : x[k] = BlockIds(cs[k].blocks)
  BY BodiesAre DEF m
<1>6. y \in Seq(X) /\ Len(y) = n /\ \A k \in 1 .. n : y[k] = BlockIds(ds[k].blocks)
  BY BodiesAre DEF n
<1>7. FlattenSeq(x \o y) = FlattenSeq(x) \o FlattenSeq(y)
  <2> HIDE DEF x, y
  <2> QED BY <1>5, <1>6, FlattenJoin DEF X
<1> HIDE DEF w, x, y, X
<1>8. /\ z \in Seq(X) /\ Len(z) = m + n
      /\ \A k \in 1 .. m : z[k] = x[k]
      /\ \A k \in 1 .. n : z[m + k] = y[k]
  <2>1. x \in Seq(X) /\ y \in Seq(X)
    BY <1>5, <1>6
  <2>2. /\ x \o y \in Seq(X) /\ Len(x \o y) = Len(x) + Len(y)
        /\ \A k \in 1 .. Len(x) : (x \o y)[k] = x[k]
        /\ \A k \in 1 .. Len(y) : (x \o y)[Len(x) + k] = y[k]
    BY ONLY <2>1, ConcatIs
  <2> QED BY <1>5, <1>6, <2>2
<1> HIDE DEF z
<1>9. ASSUME NEW k \in 1 .. m + n PROVE w[k] = z[k]
  <2>1. CASE k \in 1 .. m
    <3>1. w[k] = BlockIds(es[k].blocks) /\ es[k] = cs[k]
      BY <1>1, <1>4, <2>1
    <3>2. z[k] = x[k] /\ x[k] = BlockIds(cs[k].blocks)
      BY <1>5, <1>8, <2>1
    <3> QED BY <3>1, <3>2
  <2>2. CASE k - m \in 1 .. n /\ k = m + (k - m)
    <3> DEFINE j == k - m
    <3>1. j \in 1 .. n /\ k = m + j
      BY <2>2
    <3> HIDE DEF j
    <3>2. es[k] = ds[j] /\ z[k] = y[j]
      BY <1>1, <1>8, <3>1
    <3> QED BY <1>4, <1>6, <3>1, <3>2
  <2> QED BY <1>2, <2>1, <2>2
<1>10. w = z
  BY ONLY <1>4, <1>8, <1>9, SeqEqual
<1> QED BY <1>3, <1>7, <1>10 DEF Body, w, x, y, z, es

LEMMA CopyJoin ==
    ASSUME NEW cs, NEW ds, NEW bs, NEW a, NEW b, NEW d,
           CopyText(cs, bs, a, b), CopyText(ds, bs, b + 1, d)
    PROVE  CopyText(cs \o ds, bs, a, d)
<1>1. Chunked(cs \o ds) /\ Body(cs \o ds) = Body(cs) \o Body(ds)
  BY BodiesJoin DEF CopyText
<1>2. b \in Int
  BY DEF CopyText, Copies
<1>3. b + 1 \in {b, b + 1} /\ b + 1 # b
  BY <1>2
<1>4. Copies(Body(cs), BlockIds(bs), a, b) /\ Copies(Body(ds), BlockIds(bs), b + 1, d)
  BY DEF CopyText
<1>5. Copies(Body(cs) \o Body(ds), BlockIds(bs), a, d)
  BY <1>3, <1>4, CopiesJoin
<1> QED BY <1>1, <1>5 DEF CopyText

LEMMA CopyNothing ==
    ASSUME NEW s, NEW a \in Nat \ {0}
    PROVE  Copies(<<>>, s, a, a - 1)
<1> DEFINE o == [k \in 1 .. 0 |-> a]
           t == <<>>
<1>1. Len(t) = 0 /\ t \in Seq(BlockName) /\ 1 .. Len(t) = {} /\ a - 1 \in Int
  OBVIOUS
<1>2. o \in [1 .. Len(t) -> a .. a - 1]
  BY <1>1
<1> HIDE DEF o, t
<1>3. Follows(o, t, s, a, a - 1)
  BY <1>1 DEF Follows
<1>4. Copies(t, s, a, a - 1)
  BY <1>1, <1>2, <1>3 DEF Copies
<1> QED BY <1>4 DEF t

LEMMA CopyNone ==
    ASSUME NEW bs, NEW a \in Nat \ {0}
    PROVE  CopyText(<<>>, bs, a, a - 1)
<1>1. Chunked(<<>>)
  <2>1. IsSeq(<<>>)
    BY EmptyIsSeq
  <2>2. DOMAIN <<>> = {}
    OBVIOUS
  <2> QED BY <2>1, <2>2 DEF Chunked
<1>2. Body(<<>>) = <<>>
  <2>1. Bodies(<<>>) = <<>>
    BY DEF Bodies
  <2>2. <<>> \in Seq({})
    OBVIOUS
  <2> QED BY <2>1, <2>2, FlattenOne DEF Body
<1> QED BY <1>1, <1>2, CopyNothing DEF CopyText

LEMMA CopyOne ==
    ASSUME NEW c, NEW bs, NEW a, NEW b, c.blocks \in Seq(Block),
           Copies(BlockIds(c.blocks), BlockIds(bs), a, b)
    PROVE  CopyText(<<c>>, bs, a, b)
<1> DEFINE cs == <<c>>
           t == BlockIds(c.blocks)
<1>1. Chunked(cs)
  BY OneIsSeq DEF Chunked
<1>2. t \in Seq(BlockName)
  BY IdsAreNames DEF BlockName
<1>3. Bodies(cs) = <<t>>
  BY DEF Bodies
<1> HIDE DEF t
<1>4. Body(cs) = t
  BY <1>2, <1>3, FlattenOne DEF Body
<1> QED BY <1>1, <1>4 DEF CopyText, t

LEMMA WindowsBody ==
    ASSUME NEW groups \in Seq(Seq(Block)), NEW base, NEW path
    PROVE  /\ Chunked(Windows(groups, base, path))
           /\ Body(Windows(groups, base, path)) = BlockIds(FlattenSeq(groups))
<1> DEFINE w == Windows(groups, base, path)
           n == Len(groups)
<1>1. n \in Nat /\ DOMAIN groups = 1 .. n /\ \A i \in 1 .. n : groups[i] \in Seq(Block)
  OBVIOUS
<1>2. DOMAIN w = 1 .. n /\ \A i \in 1 .. n : w[i].blocks = groups[i]
  BY DEF Windows
<1>3. IsSeq(w)
  <2>1. IsSeq(groups)
    BY DEF IsSeq
  <2> QED BY <2>1, WindowsAre
<1> HIDE DEF w
<1>4. Chunked(w)
  BY <1>1, <1>2, <1>3 DEF Chunked
<1>5. Bodies(w) = Wordings(groups)
  BY <1>1, <1>2 DEF Bodies, Wordings
<1>6. Body(w) = BlockIds(FlattenSeq(groups))
  BY <1>5, WordingFlat DEF Body, Wording
<1> QED BY <1>4, <1>6 DEF w

-----------------------------------------------------------------------------
(* Sections. *)
LEMMA LeastIn ==
    ASSUME NEW n \in Nat, NEW S \in SUBSET (1 .. n), S # {}
    PROVE  Min(S) \in S /\ Max(S) \in S /\ \A x \in S : Min(S) <= x /\ x <= Max(S)
<1>1. IsFiniteSet(1 .. n)
  BY FS_Interval
<1>2. IsFiniteSet(S)
  BY <1>1, FS_Subset
<1>3. S \in SUBSET Int
  OBVIOUS
<1> QED BY <1>2, <1>3, LeastAndGreatest

LEMMA SectionEndBy ==
    ASSUME NEW bs \in Seq(Block), NEW h \in Headings(bs)
    PROVE  /\ SectionEnd(bs, h) \in h .. Len(bs)
           /\ \A i \in Headings(bs) : i > h => SectionEnd(bs, h) < i
           /\ SectionEnd(bs, h) = Len(bs) \/ SectionEnd(bs, h) + 1 \in Headings(bs)
<1> DEFINE later == {i \in Headings(bs) : i > h}
           ends == later \union {Len(bs) + 1}
           e == Min(ends)
<1>1. Len(bs) \in Nat /\ Headings(bs) \in SUBSET (1 .. Len(bs))
  BY DEF Headings
<1>2. ends \in SUBSET (1 .. Len(bs) + 1) /\ ends # {}
  <2>1. Len(bs) + 1 \in 1 .. Len(bs) + 1 /\ 1 .. Len(bs) \in SUBSET (1 .. Len(bs) + 1)
    BY <1>1
  <2> QED BY <1>1, <2>1
<1>3. e \in ends /\ \A x \in ends : e <= x
  <2>1. Len(bs) + 1 \in Nat
    BY <1>1
  <2> HIDE DEF ends
  <2> QED BY <1>2, <2>1, LeastIn
<1>4. SectionEnd(bs, h) = e - 1
  BY DEF SectionEnd
<1> HIDE DEF e
<1>5. e = Len(bs) + 1 \/ (e \in Headings(bs) /\ e > h)
  BY <1>3
<1>6. \A i \in Headings(bs) : i > h => e <= i
  BY <1>3
<1>7. h \in 1 .. Len(bs) /\ \A i \in Headings(bs) : i \in 1 .. Len(bs)
  BY <1>1
<1>8. e \in Int /\ e - 1 + 1 = e
  BY <1>1, <1>5, <1>7
<1>9. e - 1 \in h .. Len(bs)
  BY <1>1, <1>5, <1>7
<1>10. \A i \in Headings(bs) : i > h => e - 1 < i
  BY <1>6, <1>7, <1>8
<1>11. e - 1 = Len(bs) \/ e - 1 + 1 \in Headings(bs)
  BY <1>1, <1>5, <1>8
<1> QED BY <1>4, <1>9, <1>10, <1>11

LEMMA OpenerBy ==
    ASSUME NEW bs \in Seq(Block), NEW c \in Closers(bs)
    PROVE  /\ Opener(bs, c) \in Headings(bs) /\ Opener(bs, c) <= c
           /\ \A d \in Closers(bs) : d < c => d < Opener(bs, c)
           /\ \A h \in Headings(bs) : (\A d \in Closers(bs) : d < c => d < h) => Opener(bs, c) <= h
<1> DEFINE since == {h \in Headings(bs) : \A d \in Closers(bs) : d < c => d < h}
<1>1. Len(bs) \in Nat /\ since \in SUBSET (1 .. Len(bs))
  BY DEF Headings
<1>2. c \in since
  BY DEF Closers
<1>3. Min(since) \in since /\ \A h \in since : Min(since) <= h
  <2> HIDE DEF since
  <2> QED BY <1>1, <1>2, LeastIn
<1>4. Opener(bs, c) = Min(since)
  BY DEF Opener
<1> QED BY <1>2, <1>3, <1>4

LEMMA ClosersAre ==
    ASSUME NEW bs \in Seq(Block)
    PROVE  /\ Len(bs) \in Nat /\ Headings(bs) \in SUBSET (1 .. Len(bs))
           /\ Closers(bs) \in SUBSET Headings(bs)
           /\ Headings(bs) # {} => /\ Max(Headings(bs)) \in Closers(bs)
                                   /\ Min(Headings(bs)) \in Headings(bs)
                                   /\ \A h \in Headings(bs) :
                                        Min(Headings(bs)) <= h /\ h <= Max(Headings(bs))
<1>1. Len(bs) \in Nat /\ Headings(bs) \in SUBSET (1 .. Len(bs))
  BY DEF Headings
<1>2. Closers(bs) \in SUBSET Headings(bs)
  BY DEF Closers
<1>3. ASSUME Headings(bs) # {}
      PROVE  /\ Max(Headings(bs)) \in Headings(bs) /\ Min(Headings(bs)) \in Headings(bs)
             /\ \A h \in Headings(bs) : Min(Headings(bs)) <= h /\ h <= Max(Headings(bs))
  BY <1>1, <1>3, LeastIn
<1>4. Headings(bs) # {} => Max(Headings(bs)) \in Closers(bs)
  BY <1>3 DEF Closers
<1> QED BY <1>1, <1>2, <1>3, <1>4

LEMMA PackedCopies ==
    ASSUME NEW bs \in Seq(Block), NEW a \in Nat \ {0}, NEW b \in Int,
           a <= b + 1, b <= Len(bs), NEW base, NEW path
    PROVE  CopyText(Windows(Pack(SubSeq(bs, a, b)), base, path), bs, a, b)
<1> DEFINE t == SubSeq(bs, a, b)
           w == Windows(Pack(t), base, path)
<1>1. t \in Seq(Block) /\ Copies(BlockIds(t), BlockIds(bs), a, b)
  BY SubCopies
<1> HIDE DEF t
<1>2. Pack(t) \in Seq(Seq(Block)) /\ FlattenSeq(Pack(t)) = t
  BY <1>1, PackBy
<1>3. Chunked(w) /\ Body(w) = BlockIds(t)
  BY <1>2, WindowsBody
<1> HIDE DEF w
<1>4. CopyText(w, bs, a, b)
  BY <1>1, <1>3 DEF CopyText
<1> QED BY <1>4 DEF w, t

LEMMA SectionCopies ==
    ASSUME NEW bs \in Seq(Block), NEW c \in Closers(bs)
    PROVE  CopyText(Section(bs, c), bs, Opener(bs, c), SectionEnd(bs, c))
<1> DEFINE a == Opener(bs, c)
           b == SectionEnd(bs, c)
<1>1. Len(bs) \in Nat /\ c \in Headings(bs) /\ \A h \in Headings(bs) : h \in 1 .. Len(bs)
  BY ClosersAre
<1>2. a \in Headings(bs) /\ a <= c
  BY OpenerBy
<1>3. b \in c .. Len(bs)
  BY <1>1, SectionEndBy
<1> HIDE DEF a, b
<1>4. a \in Nat \ {0} /\ b \in Int /\ a <= b + 1 /\ b <= Len(bs)
  BY <1>1, <1>2, <1>3
<1>5. \A base, path : CopyText(Windows(Pack(SubSeq(bs, a, b)), base, path), bs, a, b)
  BY <1>4, PackedCopies
<1>6. ASSUME NEW x, x.blocks = SubSeq(bs, a, b) PROVE CopyText(<<x>>, bs, a, b)
  BY <1>4, <1>6, SubCopies, CopyOne
<1>7. \A path, from, to :
        CopyText(<<[blocks |-> SubSeq(bs, a, b), path |-> path, start |-> from, end |-> to]>>,
                 bs, a, b)
  BY <1>6
<1> QED BY <1>5, <1>7 DEF Section, a, b

LEMMA PreambleCopies ==
    ASSUME NEW bs \in Seq(Block), Headings(bs) # {}
    PROVE  CopyText(Preamble(bs), bs, 1, Min(Headings(bs)) - 1)
<1> DEFINE first == Min(Headings(bs))
           b == first - 1
<1>1. Len(bs) \in Nat /\ first \in 1 .. Len(bs)
  BY ClosersAre
<1> HIDE DEF first
<1>2. CASE first = 1
  <2>1. CopyText(<<>>, bs, 1, 1 - 1)
    <3>1. 1 \in Nat \ {0}
      OBVIOUS
    <3> QED BY <3>1, CopyNone
  <2>2. Preamble(bs) = <<>>
    BY <1>2 DEF Preamble, first
  <2> QED BY <1>2, <2>1, <2>2 DEF first
<1>3. CASE first # 1
  <2> DEFINE x == [blocks |-> SubSeq(bs, 1, b), path |-> <<>>, start |-> 0,
                   end |-> Offset(bs, first)]
  <2>1. Preamble(bs) = <<x>>
    BY <1>3 DEF Preamble, first
  <2>2. x.blocks = SubSeq(bs, 1, b) /\ 1 \in Nat \ {0} /\ b \in Int /\ 1 <= b + 1 /\ b <= Len(bs)
    BY <1>1
  <2> HIDE DEF x, b
  <2>3. SubSeq(bs, 1, b) \in Seq(Block) /\ Copies(BlockIds(SubSeq(bs, 1, b)), BlockIds(bs), 1, b)
    BY <2>2, SubCopies
  <2>4. CopyText(<<x>>, bs, 1, b)
    BY <2>2, <2>3, CopyOne
  <2> QED BY <2>1, <2>4 DEF b, first
<1> QED BY <1>2, <1>3

-----------------------------------------------------------------------------
(* A text that is cut between its paragraphs and inside the longest ones.  *)
Proper(bs) ==
    /\ bs \in Seq(Block)
    /\ \A i \in DOMAIN bs : bs[i].len > 0
    /\ \A i, j \in DOMAIN bs : bs[i].id = bs[j].id => i = j

LEMMA PiecesCopy ==
    ASSUME NEW bs \in Seq(Block), NEW i \in 1 .. Len(bs), bs[i].len > 0
    PROVE  /\ Pieces(bs[i]) \in Seq(Block)
           /\ Copies(BlockIds(Pieces(bs[i])), BlockIds(bs), i, i)
<1> DEFINE b == bs[i]
           m == (b.len + MaxChars - 1) \div MaxChars
           t == Pieces(b)
           o == [k \in 1 .. m |-> i]
<1>1. MaxChars \in Nat \ {0} /\ b \in Block /\ b.len \in Nat \ {0}
  <2>1. b \in Block
    OBVIOUS
  <2>2. b.len \in Int
    BY <2>1 DEF Block
  <2> QED BY <2>1, <2>2, ContentAssumption
<1> HIDE DEF b
<1>2. m \in Nat \ {0}
  <2>1. m \in Nat /\ b.len <= m * MaxChars
    BY <1>1, WindowCount
  <2> HIDE DEF m
  <2>2. m # 0
    BY <1>1, <2>1
  <2> QED BY <2>1, <2>2
<1>3. \A k \in 1 .. m : Min({MaxChars, b.len - (k - 1) * MaxChars}) \in Int
  <2>1. ASSUME NEW k \in 1 .. m PROVE Min({MaxChars, b.len - (k - 1) * MaxChars}) \in Int
    <3> DEFINE y == b.len - (k - 1) * MaxChars
    <3>1. y \in Int /\ MaxChars \in Int
      BY <1>1, <1>2
    <3> HIDE DEF y
    <3>2. Min({MaxChars, y}) \in {MaxChars, y}
      BY <3>1, OfTwo
    <3> QED BY <3>1, <3>2 DEF y
  <2> QED BY <2>1
<1>4. t = [k \in 1 .. m |-> [b EXCEPT !.len = Min({MaxChars, b.len - (k - 1) * MaxChars})]]
  BY DEF Pieces
<1> HIDE DEF t, m
<1>5. \A k \in 1 .. m : t[k] \in Block /\ t[k].id = b.id
  <2>1. ASSUME NEW x \in Int PROVE [b EXCEPT !.len = x] \in Block /\ [b EXCEPT !.len = x].id = b.id
    BY <1>1 DEF Block
  <2> QED BY <1>3, <1>4, <2>1
<1>6. t \in Seq(Block) /\ Len(t) = m
  <2>1. t = [k \in 1 .. m |-> t[k]]
    BY <1>4
  <2>2. t \in [1 .. m -> Block]
    BY ONLY <1>5, <2>1
  <2>3. m \in Nat
    BY <1>2
  <2> QED BY ONLY <2>2, <2>3
<1>7. /\ o \in [1 .. m -> i .. i] /\ \A k \in 1 .. m : o[k] = i
      /\ 1 \in 1 .. m /\ m \in 1 .. m /\ \A k \in 1 .. m : k > 1 => k - 1 \in 1 .. m
  BY <1>2
<1> HIDE DEF o
<1>8. Copies(BlockIds(t), BlockIds(bs), i, i)
  <2>1. /\ o \in [1 .. Len(t) -> i .. i]
        /\ \A k \in 1 .. Len(t) : t[k].id = bs[o[k]].id
        /\ Len(t) = 0 => i = i - 1
        /\ Len(t) > 0 => o[1] = i /\ o[Len(t)] = i
        /\ \A k \in 1 .. Len(t) : k > 1 => o[k] \in {o[k - 1], o[k - 1] + 1}
    BY <1>2, <1>5, <1>6, <1>7 DEF b
  <2>2. i \in Nat \ {0} /\ i \in Int /\ i <= Len(bs)
    OBVIOUS
  <2> QED BY <1>6, <2>1, <2>2, CopiesByItem
<1> QED BY <1>6, <1>8 DEF t, b

LEMMA RecursiveSplitCopies ==
    ASSUME NEW bs, Proper(bs)
    PROVE  CopyText(RecursiveSplit(bs), bs, 1, Len(bs))
<1> DEFINE n == Len(bs)
           s == [i \in DOMAIN bs |-> Pieces(bs[i])]
           p == FlattenSeq(s)
<1>1. /\ bs \in Seq(Block) /\ n \in Nat /\ DOMAIN bs = 1 .. n
      /\ \A i \in 1 .. n : bs[i].len > 0
  BY DEF Proper
<1>2. \A i \in 1 .. n : /\ Pieces(bs[i]) \in Seq(Block)
                        /\ Copies(BlockIds(Pieces(bs[i])), BlockIds(bs), i, i)
  BY <1>1, PiecesCopy
<1>3. s \in Seq(Seq(Block)) /\ Len(s) = n /\ \A i \in 1 .. n : s[i] = Pieces(bs[i])
  BY <1>1, <1>2
<1> HIDE DEF s, n
<1>4. PICK g : PutTogether(g, s, Block) /\ p = g[n]
  BY <1>3, FlattenBy
<1>5. /\ g \in [0 .. n -> Seq(Block)] /\ g[0] = <<>>
      /\ \A i \in 1 .. n : g[i] = g[i - 1] \o s[i]
  BY <1>3, <1>4 DEF PutTogether
<1> DEFINE S == {i \in 0 .. n : Copies(BlockIds(g[i]), BlockIds(bs), 1, i)}
<1>6. ASSUME NEW i \in 1 .. n, i - 1 \in S PROVE i \in S
  <2>1. i - 1 \in 0 .. n /\ i \in 0 .. n /\ i \in {i - 1, i - 1 + 1} /\ i # i - 1
    BY <1>1
  <2>2. g[i - 1] \in Seq(Block) /\ s[i] \in Seq(Block)
    BY <1>2, <1>3, <1>5, <2>1
  <2>3. BlockIds(g[i]) = BlockIds(g[i - 1]) \o BlockIds(s[i])
    BY <1>5, <2>2, IdsJoin
  <2>4. Copies(BlockIds(g[i - 1]), BlockIds(bs), 1, i - 1)
    BY <1>6
  <2>5. Copies(BlockIds(s[i]), BlockIds(bs), i, i)
    BY <1>2, <1>3
  <2>6. Copies(BlockIds(g[i - 1]) \o BlockIds(s[i]), BlockIds(bs), 1, i)
    BY <2>1, <2>4, <2>5, CopiesJoin
  <2> QED BY <2>1, <2>3, <2>6
<1>7. 0 \in S /\ n \in 0 .. n
  <2>1. BlockIds(<<>>) = <<>>
    BY DEF BlockIds
  <2>2. Copies(<<>>, BlockIds(bs), 1, 1 - 1)
    <3>1. 1 \in Nat \ {0}
      OBVIOUS
    <3> QED BY <3>1, CopyNothing
  <2> QED BY <1>1, <1>5, <2>1, <2>2
<1> HIDE DEF S
<1>8. n \in S
  BY <1>1, <1>6, <1>7, Inductive
<1>9. p \in Seq(Block) /\ Copies(BlockIds(p), BlockIds(bs), 1, n)
  <2>1. n \in 0 .. n
    BY <1>1
  <2> QED BY <1>4, <1>5, <1>8, <2>1 DEF S
<1> HIDE DEF p
<1>10. Pack(p) \in Seq(Seq(Block)) /\ FlattenSeq(Pack(p)) = p
  BY <1>9, PackBy
<1>11. /\ Chunked(Windows(Pack(p), 0, <<>>))
       /\ Body(Windows(Pack(p), 0, <<>>)) = BlockIds(p)
  BY <1>10, WindowsBody
<1>12. RecursiveSplit(bs) = Windows(Pack(p), 0, <<>>)
  BY DEF RecursiveSplit, p, s
<1> QED BY <1>9, <1>11, <1>12 DEF CopyText, n

LEMMA SequencesOfOneKind ==
    ASSUME NEW n \in Nat, NEW s, s = [i \in 1 .. n |-> s[i]], \A i \in 1 .. n : IsSeq(s[i])
    PROVE  \E T : s \in Seq(Seq(T)) /\ Len(s) = n
<1> DEFINE T == UNION {{s[i][k] : k \in DOMAIN s[i]} : i \in 1 .. n}
<1>1. ASSUME NEW i \in 1 .. n PROVE s[i] \in Seq(T)
  <2>1. PICK X : s[i] \in Seq(X)
    BY DEF IsSeq
  <2>2. s[i] = [k \in 1 .. Len(s[i]) |-> s[i][k]] /\ Len(s[i]) \in Nat
        /\ DOMAIN s[i] = 1 .. Len(s[i])
    BY <2>1
  <2>3. \A k \in 1 .. Len(s[i]) : s[i][k] \in T
    BY <2>2
  <2> HIDE DEF T
  <2> QED BY <2>2, <2>3
<1> HIDE DEF T
<1>2. s \in Seq(Seq(T)) /\ Len(s) = n
  BY <1>1
<1> QED BY <1>2

(* The chunks of the sections up to a heading end where the last of them   *)
(* that was closed ends.                                                   *)
ClosedBy(bs, i, e) ==
    \/ e = Min(Headings(bs)) - 1 /\ \A c \in Closers(bs) : i < c
    \/ \E c \in Closers(bs) : /\ c <= i /\ e = SectionEnd(bs, c)
                              /\ \A d \in Closers(bs) : d <= i => d <= c

LEMMA OpensNext ==
    ASSUME NEW bs \in Seq(Block), NEW c \in Closers(bs), NEW e, ClosedBy(bs, c - 1, e)
    PROVE  Opener(bs, c) = e + 1 /\ ClosedBy(bs, c, SectionEnd(bs, c))
<1>1. /\ Len(bs) \in Nat /\ c \in Headings(bs)
      /\ \A h \in Headings(bs) : h \in 1 .. Len(bs)
      /\ \A d \in Closers(bs) : d \in Headings(bs)
      /\ Min(Headings(bs)) \in Headings(bs)
      /\ \A h \in Headings(bs) : Min(Headings(bs)) <= h
  BY ClosersAre
<1> DEFINE a == Opener(bs, c)
<1>2. /\ a \in Headings(bs) /\ a <= c
      /\ \A d \in Closers(bs) : d < c => d < a
      /\ \A h \in Headings(bs) : (\A d \in Closers(bs) : d < c => d < h) => a <= h
  BY OpenerBy
<1> HIDE DEF a
<1>3. ClosedBy(bs, c, SectionEnd(bs, c))
  <2>1. c <= c
    BY <1>1
  <2> QED BY <2>1 DEF ClosedBy
<1>4. CASE e = Min(Headings(bs)) - 1 /\ \A d \in Closers(bs) : c - 1 < d
  <2>1. \A d \in Closers(bs) : ~(d < c)
    BY <1>1, <1>4
  <2>2. a <= Min(Headings(bs)) /\ Min(Headings(bs)) <= a
    BY <1>1, <1>2, <2>1
  <2>3. a \in Int /\ Min(Headings(bs)) \in Int
    BY <1>1, <1>2
  <2> QED BY <1>3, <1>4, <2>2, <2>3 DEF a
<1>5. ASSUME NEW d \in Closers(bs), d <= c - 1, e = SectionEnd(bs, d),
             \A x \in Closers(bs) : x <= c - 1 => x <= d
      PROVE  a = e + 1
  <2>1. /\ e \in d .. Len(bs)
        /\ \A i \in Headings(bs) : i > d => e < i
        /\ e = Len(bs) \/ e + 1 \in Headings(bs)
    BY <1>1, <1>5, SectionEndBy
  <2>2. d < c /\ c \in 1 .. Len(bs) /\ d \in 1 .. Len(bs) /\ a \in 1 .. Len(bs)
    BY <1>1, <1>2, <1>5
  <2>3. e < c
    BY <2>1, <2>2, <1>1
  <2>4. e + 1 \in Headings(bs) /\ e + 1 > d /\ e \in Int
    BY <2>1, <2>2, <2>3
  <2>5. ASSUME NEW x \in Closers(bs), x < c PROVE x < e + 1
    <3>1. x \in 1 .. Len(bs)
      BY <1>1
    <3>2. x <= d
      BY <1>5, <2>2, <2>5, <3>1
    <3> QED BY <2>2, <2>4, <3>1, <3>2
  <2>6. a <= e + 1
    BY <1>2, <2>4, <2>5
  <2>7. d < a
    BY <1>2, <2>2
  <2>8. e < a
    BY <1>2, <2>1, <2>2, <2>7
  <2> QED BY <2>2, <2>4, <2>6, <2>8
<1> QED BY <1>3, <1>4, <1>5 DEF ClosedBy, a

LEMMA SemanticSplitCopies ==
    ASSUME NEW bs, Proper(bs)
    PROVE  CopyText(SemanticSplit(bs), bs, 1, Len(bs))
<1> DEFINE n == Len(bs)
           first == Min(Headings(bs))
           s == [i \in DOMAIN bs |-> IF i \in Closers(bs) THEN Section(bs, i) ELSE <<>>]
<1>1. bs \in Seq(Block) /\ n \in Nat /\ DOMAIN bs = 1 .. n
  BY DEF Proper
<1>2. CASE Headings(bs) = {}
  BY <1>2, RecursiveSplitCopies DEF SemanticSplit
<1>3. CASE Headings(bs) # {}
  <2>1. SemanticSplit(bs) = Preamble(bs) \o FlattenSeq(s)
    BY <1>3 DEF SemanticSplit
  <2>2. /\ Headings(bs) \in SUBSET (1 .. n) /\ Closers(bs) \in SUBSET Headings(bs)
        /\ Max(Headings(bs)) \in Closers(bs) /\ first \in 1 .. n
        /\ \A h \in Headings(bs) : first <= h /\ h <= Max(Headings(bs))
    BY <1>1, <1>3, ClosersAre
  <2>3. /\ s = [i \in 1 .. n |-> s[i]] /\ \A i \in 1 .. n : IsSeq(s[i])
        /\ \A i \in 1 .. n : s[i] = IF i \in Closers(bs) THEN Section(bs, i) ELSE <<>>
    BY <1>1, SectionIs, EmptyIsSeq
  <2> HIDE DEF s, n, first
  <2>4. PICK T : s \in Seq(Seq(T)) /\ Len(s) = n
    BY <1>1, <2>3, SequencesOfOneKind
  <2>5. PICK g : PutTogether(g, s, T) /\ FlattenSeq(s) = g[n]
    BY <2>4, FlattenBy
  <2>6. /\ g \in [0 .. n -> Seq(T)] /\ g[0] = <<>>
        /\ \A i \in 1 .. n : g[i] = g[i - 1] \o s[i]
    BY <2>4, <2>5 DEF PutTogether
  <2> DEFINE S == {i \in 0 .. n : \E e \in Int : ClosedBy(bs, i, e) /\ CopyText(g[i], bs, first, e)}
  <2>7. ASSUME NEW i \in 1 .. n, i - 1 \in S PROVE i \in S
    <3>1. PICK e \in Int : ClosedBy(bs, i - 1, e) /\ CopyText(g[i - 1], bs, first, e)
      BY <2>7
    <3>2. i \in 0 .. n /\ i - 1 \in 0 .. n
      BY <1>1
    <3>3. CASE i \in Closers(bs)
      <4>1. Opener(bs, i) = e + 1 /\ ClosedBy(bs, i, SectionEnd(bs, i))
        BY <1>1, <3>1, <3>3, OpensNext
      <4>2. CopyText(s[i], bs, e + 1, SectionEnd(bs, i))
        BY <1>1, <2>3, <3>3, <4>1, SectionCopies
      <4>3. CopyText(g[i], bs, first, SectionEnd(bs, i))
        BY <2>6, <3>1, <4>2, CopyJoin
      <4>4. SectionEnd(bs, i) \in Int
        BY <1>1, SectionEndIs
      <4> QED BY <3>2, <4>1, <4>3, <4>4
    <3>4. CASE i \notin Closers(bs)
      <4>1. g[i - 1] \o <<>> = g[i - 1]
        BY <2>6, <3>2, ConcatEmptySeq
      <4>2. g[i] = g[i - 1]
        BY <2>3, <2>6, <3>4, <4>1
      <4>3. \A c \in Closers(bs) : (i - 1 < c <=> i < c) /\ (c <= i - 1 <=> c <= i)
        <5>1. \A c \in Closers(bs) : c \in Int /\ c # i
          BY <1>1, <2>2, <3>4
        <5> QED BY <1>1, <5>1
      <4>4. ClosedBy(bs, i, e)
        BY <3>1, <4>3 DEF ClosedBy
      <4> QED BY <3>1, <3>2, <4>2, <4>4
    <3> QED BY <3>3, <3>4
  <2>8. 0 \in S /\ n \in 0 .. n
    <3>1. \A c \in Closers(bs) : 0 < c
      BY <1>1, <2>2
    <3>2. ClosedBy(bs, 0, first - 1)
      BY <3>1 DEF ClosedBy, first
    <3>3. first \in Nat \ {0} /\ first - 1 \in Int
      BY <1>1, <2>2
    <3>4. CopyText(<<>>, bs, first, first - 1)
      BY <3>3, CopyNone
    <3> QED BY <1>1, <2>6, <3>2, <3>3, <3>4
  <2> HIDE DEF S
  <2>9. n \in S
    BY <1>1, <2>7, <2>8, Inductive
  <2>10. PICK e \in Int : ClosedBy(bs, n, e) /\ CopyText(g[n], bs, first, e)
    BY <2>9 DEF S
  <2>11. e = n
    <3> DEFINE last == Max(Headings(bs))
    <3>1. last \in Closers(bs) /\ last \in 1 .. n /\ \A h \in Headings(bs) : h <= last
      BY <2>2
    <3> HIDE DEF last
    <3>2. ~(n < last)
      BY <1>1, <3>1
    <3>3. PICK c \in Closers(bs) : e = SectionEnd(bs, c) /\ \A d \in Closers(bs) : d <= n => d <= c
      BY <2>10, <3>1, <3>2 DEF ClosedBy
    <3>4. c \in Headings(bs) /\ c \in 1 .. n
      BY <2>2
    <3>5. c = last
      BY <1>1, <3>1, <3>3, <3>4
    <3>6. e \in c .. n /\ (e = n \/ e + 1 \in Headings(bs))
      BY <1>1, <3>3, <3>4, SectionEndBy DEF n
    <3>7. e + 1 \in Headings(bs) => e + 1 <= last
      BY <3>1
    <3> QED BY <3>1, <3>5, <3>6, <3>7
  <2>12. CopyText(Preamble(bs), bs, 1, first - 1)
    BY <1>1, <1>3, PreambleCopies DEF first
  <2>13. first - 1 + 1 = first
    BY <1>1, <2>2
  <2>14. CopyText(Preamble(bs) \o FlattenSeq(s), bs, 1, n)
    BY <2>5, <2>10, <2>11, <2>12, <2>13, CopyJoin
  <2> QED BY <2>1, <2>14 DEF n
<1> QED BY <1>2, <1>3

-----------------------------------------------------------------------------
(* Where the blocks of a text end.                                         *)
EndsAt(u, bs) ==
    /\ u \in [0 .. Len(bs) -> Int] /\ u[0] = -Sep
    /\ \A i \in 1 .. Len(bs) : u[i] = u[i - 1] + Sep + bs[i].len

LEMMA SpanBy ==
    ASSUME NEW bs \in Seq(Block)
    PROVE  \E u : EndsAt(u, bs) /\ Span(bs) = IF bs = <<>> THEN 0 ELSE u[Len(bs)]
<1> DEFINE n == Len(bs)
           upto == CHOOSE g : g = [i \in 0 .. n |->
                                      IF i = 0 THEN -Sep ELSE g[i - 1] + Sep + bs[i].len]
           step == [i \in 1 .. n |-> [u \in Int |-> u + Sep + bs[i].len]]
<1>1. n \in Nat /\ \A i \in 1 .. n : bs[i].len \in Int
  <2>1. \A b \in Block : b.len \in Int
    BY DEF Block
  <2> QED BY <2>1
<1>2. Sep \in Int /\ -Sep \in Int
  BY DEF Sep
<1>3. Closed(Int, n, step)
  <2> HIDE DEF n
  <2> QED BY <1>1, <1>2 DEF Closed
<1>4. PICK g : Recursive(g, Int, n, -Sep, step)
  <2> HIDE DEF step, n
  <2> QED BY <1>1, <1>2, <1>3, RecursionIs
<1>5. g \in [0 .. n -> Int] /\ g[0] = -Sep /\ \A i \in 1 .. n : g[i] = g[i - 1] + Sep + bs[i].len
  <2>1. ASSUME NEW i \in 1 .. n PROVE g[i] = g[i - 1] + Sep + bs[i].len
    <3>1. i - 1 \in 0 .. n /\ i \in 1 .. n
      BY <1>1
    <3>2. g[i - 1] \in Int
      BY <1>4, <3>1 DEF Recursive
    <3> QED BY <1>4, <3>1, <3>2 DEF Recursive
  <2> HIDE DEF step
  <2> QED BY <1>4, <2>1 DEF Recursive
<1> HIDE DEF step, n
<1>6. g = [i \in 0 .. n |-> IF i = 0 THEN -Sep ELSE g[i - 1] + Sep + bs[i].len]
  <2>1. g = [i \in 0 .. n |-> g[i]]
    BY <1>5
  <2>2. \A i \in 0 .. n : i # 0 => i \in 1 .. n
    BY <1>1
  <2> QED BY <1>5, <2>1, <2>2
<1>7. upto = [i \in 0 .. n |-> IF i = 0 THEN -Sep ELSE upto[i - 1] + Sep + bs[i].len]
  BY <1>6
<1>8. Span(bs) = IF bs = <<>> THEN 0 ELSE upto[n]
  BY DEF Span, n
<1> HIDE DEF upto
<1>9. upto[0] = -Sep /\ \A i \in 1 .. n : upto[i] = upto[i - 1] + Sep + bs[i].len
  <2>1. 0 \in 0 .. n /\ \A i \in 1 .. n : i \in 0 .. n /\ i # 0
    BY <1>1
  <2> QED BY <1>7, <2>1
<1> DEFINE S == {i \in 0 .. n : upto[i] = g[i]}
<1>10. ASSUME NEW i \in 1 .. n, i - 1 \in S PROVE i \in S
  <2>1. i \in 0 .. n
    BY <1>1
  <2> QED BY <1>5, <1>9, <1>10, <2>1
<1>11. 0 \in S /\ n \in 0 .. n
  BY <1>1, <1>5, <1>9
<1> HIDE DEF S
<1>12. n \in S
  BY <1>1, <1>10, <1>11, Inductive
<1>13. upto[n] = g[n]
  BY <1>12 DEF S
<1> QED BY <1>5, <1>8, <1>13 DEF EndsAt, n

LEMMA EndsFrom ==
    ASSUME NEW bs \in Seq(Block), NEW u, EndsAt(u, bs), NEW i \in 1 .. Len(bs)
    PROVE  Span(SubSeq(bs, 1, i)) = u[i]
<1> DEFINE t == SubSeq(bs, 1, i)
<1>1. t \in Seq(Block) /\ Len(t) = i /\ \A k \in 1 .. i : t[k] = bs[k]
  OBVIOUS
<1>2. i \in Nat \ {0} /\ Len(bs) \in Nat /\ i <= Len(bs)
  OBVIOUS
<1> HIDE DEF t
<1>3. t # <<>>
  BY <1>1, <1>2
<1>4. PICK v : EndsAt(v, t) /\ Span(t) = v[i]
  BY <1>1, <1>3, SpanBy
<1>5. v[0] = -Sep /\ \A k \in 1 .. i : v[k] = v[k - 1] + Sep + bs[k].len
  BY <1>1, <1>4 DEF EndsAt
<1>6. u[0] = -Sep /\ \A k \in 1 .. i : u[k] = u[k - 1] + Sep + bs[k].len
  BY <1>2 DEF EndsAt
<1> DEFINE S == {k \in 0 .. i : u[k] = v[k]}
<1>7. ASSUME NEW k \in 1 .. i, k - 1 \in S PROVE k \in S
  <2>1. k \in 0 .. i
    BY <1>2
  <2> QED BY <1>5, <1>6, <1>7, <2>1
<1>8. 0 \in S /\ i \in 0 .. i
  BY <1>2, <1>5, <1>6
<1> HIDE DEF S
<1>9. i \in S
  BY <1>2, <1>7, <1>8, Inductive
<1> QED BY <1>4, <1>9 DEF S, t

(* The blocks of a text and where each of them starts and ends: one after  *)
(* the other.                                                              *)
LEMMA OffsetsAre ==
    ASSUME NEW bs \in Seq(Block)
    PROVE  \E u : /\ EndsAt(u, bs)
                  /\ Span(bs) = IF Len(bs) = 0 THEN 0 ELSE u[Len(bs)]
                  /\ \A i \in 1 .. Len(bs) : Offset(bs, i) = u[i - 1] + Sep
                  /\ \A i \in 1 .. Len(bs) : Offset(bs, i) + bs[i].len = u[i]
<1>1. PICK u : EndsAt(u, bs) /\ Span(bs) = IF bs = <<>> THEN 0 ELSE u[Len(bs)]
  BY SpanBy
<1>2. Len(bs) \in Nat /\ (Len(bs) = 0 <=> bs = <<>>)
  OBVIOUS
<1>3. /\ u \in [0 .. Len(bs) -> Int] /\ u[0] = -Sep
      /\ \A i \in 1 .. Len(bs) : u[i] = u[i - 1] + Sep + bs[i].len
  BY <1>1 DEF EndsAt
<1>4. ASSUME NEW i \in 1 .. Len(bs)
      PROVE  Offset(bs, i) = u[i - 1] + Sep /\ Offset(bs, i) + bs[i].len = u[i]
  <2>1. Offset(bs, i) = u[i - 1] + Sep
    <3>1. CASE i = 1
      BY <1>3, <3>1 DEF Offset, Sep
    <3>2. CASE i # 1
      <4>1. i - 1 \in 1 .. Len(bs)
        BY <1>2, <3>2
      <4>2. Span(SubSeq(bs, 1, i - 1)) = u[i - 1]
        BY <1>1, <4>1, EndsFrom
      <4> QED BY <3>2, <4>2 DEF Offset
    <3> QED BY <3>1, <3>2
  <2>2. bs[i] \in Block
    OBVIOUS
  <2>3. bs[i].len \in Int /\ i - 1 \in 0 .. Len(bs)
    BY <1>2, <2>2 DEF Block
  <2> QED BY <1>3, <2>1, <2>3 DEF Sep
<1> QED BY <1>1, <1>2, <1>4

(* In a text of no empty block each block starts after the one before it   *)
(* has ended.                                                              *)
LEMMA OffsetsGrow ==
    ASSUME NEW bs, Proper(bs)
    PROVE  /\ Len(bs) \in Nat /\ DOMAIN bs = 1 .. Len(bs) /\ Span(bs) \in Nat
           /\ \A i \in 1 .. Len(bs) : Offset(bs, i) \in Nat /\ bs[i].len \in Nat \ {0}
           /\ \A i, j \in 1 .. Len(bs) : i < j => Offset(bs, i) + bs[i].len < Offset(bs, j)
           /\ \A i \in 1 .. Len(bs) : Offset(bs, i) + bs[i].len <= Span(bs)
           /\ Len(bs) > 0 => /\ Offset(bs, 1) = 0
                             /\ Offset(bs, Len(bs)) + bs[Len(bs)].len = Span(bs)
           /\ Len(bs) = 0 => Span(bs) = 0
<1> DEFINE n == Len(bs)
<1>1. bs \in Seq(Block) /\ n \in Nat /\ DOMAIN bs = 1 .. n
  BY DEF Proper
<1>2. ASSUME NEW i \in 1 .. n PROVE bs[i].len \in Nat \ {0}
  <2>1. bs[i] \in Block /\ bs[i].len > 0
    BY <1>1 DEF Proper
  <2>2. bs[i].len \in Int
    BY <2>1 DEF Block
  <2> QED BY <2>1, <2>2
<1>3. PICK u : /\ EndsAt(u, bs)
               /\ Span(bs) = IF n = 0 THEN 0 ELSE u[n]
               /\ \A i \in 1 .. n : Offset(bs, i) = u[i - 1] + Sep
               /\ \A i \in 1 .. n : Offset(bs, i) + bs[i].len = u[i]
  BY <1>1, OffsetsAre
<1>4. /\ u \in [0 .. n -> Int] /\ u[0] = -2
      /\ \A i \in 1 .. n : u[i] = u[i - 1] + 2 + bs[i].len
      /\ \A i \in 1 .. n : Offset(bs, i) = u[i - 1] + 2
      /\ \A i \in 1 .. n : Offset(bs, i) + bs[i].len = u[i]
  BY <1>3 DEF EndsAt, Sep
<1> DEFINE S == {j \in 0 .. n : u[j] >= -2 /\ \A i \in 0 .. n : i < j => u[i] + 2 < u[j]}
<1> HIDE DEF n
<1>5. ASSUME NEW j \in 1 .. n, j - 1 \in S PROVE j \in S
  <2>1. j - 1 \in 0 .. n /\ j \in 0 .. n
    BY <1>1
  <2>2. u[j - 1] \in Int /\ u[j] = u[j - 1] + 2 + bs[j].len /\ bs[j].len \in Nat \ {0}
    BY <1>2, <1>4, <2>1
  <2>3. u[j - 1] >= -2 /\ \A i \in 0 .. n : i < j - 1 => u[i] + 2 < u[j - 1]
    BY <1>5
  <2>4. u[j - 1] + 2 < u[j] /\ u[j] >= -2
    BY <2>2, <2>3
  <2>5. ASSUME NEW i \in 0 .. n, i < j PROVE u[i] + 2 < u[j]
    <3>1. i = j - 1 \/ i < j - 1
      BY <1>1, <2>5
    <3>2. u[i] \in Int
      BY <1>4
    <3> QED BY <2>2, <2>3, <2>4, <3>1, <3>2
  <2> QED BY <2>1, <2>4, <2>5
<1>6. 0 \in S
  <2>1. 0 \in 0 .. n /\ \A i \in 0 .. n : ~(i < 0)
    BY <1>1
  <2> QED BY <1>4, <2>1
<1> HIDE DEF S
<1>7. \A j \in 0 .. n : j \in S
  BY <1>1, <1>5, <1>6, Inductive
<1>8. \A j \in 0 .. n : u[j] \in Int /\ u[j] >= -2 /\ \A i \in 0 .. n : i < j => u[i] + 2 < u[j]
  BY <1>4, <1>7 DEF S
<1>9. ASSUME NEW i \in 1 .. n PROVE Offset(bs, i) \in Nat
  <2>1. i - 1 \in 0 .. n
    BY <1>1
  <2> QED BY <1>4, <1>8, <2>1
<1>10. ASSUME NEW i \in 1 .. n, NEW j \in 1 .. n, i < j
       PROVE  Offset(bs, i) + bs[i].len < Offset(bs, j)
  <2>1. i \in 0 .. n /\ j - 1 \in 0 .. n /\ (i = j - 1 \/ i < j - 1)
    BY <1>1, <1>10
  <2>2. u[i] < u[j - 1] + 2
    BY <1>8, <2>1
  <2> QED BY <1>4, <2>2
<1>11. ASSUME NEW i \in 1 .. n PROVE Offset(bs, i) + bs[i].len <= Span(bs)
  <2>1. n # 0 /\ i \in 0 .. n /\ n \in 0 .. n /\ (i = n \/ i < n)
    BY <1>1
  <2>2. u[i] <= u[n]
    BY <1>8, <2>1
  <2> QED BY <1>3, <1>4, <2>1, <2>2
<1>12. Span(bs) \in Nat
  <2>1. CASE n = 0
    BY <1>3, <2>1
  <2>2. CASE n # 0
    <3>1. n \in 1 .. n
      BY <1>1, <2>2
    <3>2. Offset(bs, n) \in Nat /\ bs[n].len \in Nat
      BY <1>2, <1>9, <3>1
    <3>3. Span(bs) = Offset(bs, n) + bs[n].len
      BY <1>3, <2>2, <3>1
    <3> QED BY <3>2, <3>3
  <2> QED BY <2>1, <2>2
<1>13. n > 0 => Offset(bs, 1) = 0 /\ Offset(bs, n) + bs[n].len = Span(bs)
  <2>1. n > 0 => 1 \in 1 .. n /\ n \in 1 .. n /\ 1 - 1 = 0 /\ n # 0
    BY <1>1
  <2>2. n > 0 => Offset(bs, 1) = u[0] + 2
    BY <1>4, <2>1
  <2> QED BY <1>3, <1>4, <2>1, <2>2
<1>14. n = 0 => Span(bs) = 0
  BY <1>3
<1> QED BY <1>1, <1>2, <1>9, <1>10, <1>11, <1>12, <1>13, <1>14 DEF n

-----------------------------------------------------------------------------
(* Windows of a fixed size. *)
\* The blocks that start before a place are the first ones.
StartBefore(bs, x, h) == \A i \in 1 .. Len(bs) : Offset(bs, i) < x <=> i <= h
Sliced(bs, k) == {i \in DOMAIN bs : /\ Offset(bs, i) < k * SliceChars
                                    /\ Offset(bs, i) + bs[i].len > (k - 1) * SliceChars}

LEMMA StartsBefore ==
    ASSUME NEW bs, Proper(bs), NEW x \in Int
    PROVE  \E h \in 0 .. Len(bs) : StartBefore(bs, x, h)
<1> DEFINE n == Len(bs)
           A == {i \in 1 .. n : Offset(bs, i) < x}
<1>1. /\ n \in Nat
      /\ \A i \in 1 .. n : Offset(bs, i) \in Nat /\ bs[i].len \in Nat \ {0}
      /\ \A i, j \in 1 .. n : i < j => Offset(bs, i) + bs[i].len < Offset(bs, j)
  BY OffsetsGrow
<1> HIDE DEF n
<1>2. CASE A = {}
  <2>1. \A i \in 1 .. n : Offset(bs, i) < x <=> i <= 0
    BY <1>1, <1>2
  <2>2. 0 \in 0 .. n
    BY <1>1
  <2> QED BY <2>1, <2>2 DEF StartBefore, n
<1>3. CASE A # {}
  <2> DEFINE h == Max(A)
  <2>1. h \in A /\ \A i \in A : i <= h
    <3>1. A \in SUBSET (1 .. n)
      OBVIOUS
    <3> HIDE DEF A
    <3> QED BY <1>1, <1>3, <3>1, LeastIn
  <2> HIDE DEF h
  <2>2. h \in 1 .. n /\ Offset(bs, h) < x
    BY <2>1
  <2>3. ASSUME NEW i \in 1 .. n, i <= h PROVE Offset(bs, i) < x
    <3>1. i = h \/ i < h
      BY <2>2, <2>3
    <3>2. /\ i < h => Offset(bs, i) + bs[i].len < Offset(bs, h)
          /\ Offset(bs, i) \in Nat /\ bs[i].len \in Nat \ {0} /\ Offset(bs, h) \in Nat
      BY <1>1, <2>2
    <3> QED BY <2>2, <3>1, <3>2
  <2>4. \A i \in 1 .. n : Offset(bs, i) < x => i <= h
    BY <2>1
  <2>5. h \in 0 .. n
    BY <1>1, <2>2
  <2> QED BY <2>3, <2>4, <2>5 DEF StartBefore, n
<1> QED BY <1>2, <1>3

LEMMA WithinIs ==
    ASSUME NEW bs, Proper(bs), NEW k \in Nat \ {0},
           NEW h \in 0 .. Len(bs), StartBefore(bs, (k - 1) * SliceChars, h),
           NEW l \in 0 .. Len(bs), StartBefore(bs, k * SliceChars, l)
    PROVE  \E c \in {h, h + 1} : /\ Sliced(bs, k) = c .. l /\ c \in Nat \ {0} /\ c <= l + 1
                                 /\ c = h => c <= l
<1> DEFINE n == Len(bs)
           x == (k - 1) * SliceChars
           y == k * SliceChars
<1>1. /\ n \in Nat /\ DOMAIN bs = 1 .. n
      /\ \A i \in 1 .. n : Offset(bs, i) \in Nat /\ bs[i].len \in Nat \ {0}
      /\ \A i, j \in 1 .. n : i < j => Offset(bs, i) + bs[i].len < Offset(bs, j)
  BY OffsetsGrow
<1>2. x \in Int /\ y \in Int /\ x < y
  <2>1. SliceChars \in Nat \ {0}
    BY ContentAssumption
  <2>2. x \in Int /\ y \in Int /\ y = x + SliceChars
    BY <2>1, Multiples
  <2> HIDE DEF x, y
  <2> QED BY <2>1, <2>2
<1> HIDE DEF n
<1>3. /\ \A i \in 1 .. n : Offset(bs, i) < x <=> i <= h
      /\ \A i \in 1 .. n : Offset(bs, i) < y <=> i <= l
  BY DEF StartBefore, n
<1>4. Sliced(bs, k) = {i \in 1 .. n : Offset(bs, i) < y /\ Offset(bs, i) + bs[i].len > x}
  BY <1>1 DEF Sliced
<1> HIDE DEF x, y
<1>5. h \in 0 .. n /\ l \in 0 .. n
  BY DEF n
<1>6. h <= l
  <2>1. CASE h = 0
    BY <1>1, <1>5, <2>1
  <2>2. CASE h # 0
    <3>1. h \in 1 .. n /\ h <= h
      BY <1>1, <1>5, <2>2
    <3>2. Offset(bs, h) < x /\ Offset(bs, h) \in Nat
      BY <1>1, <1>3, <3>1
    <3>3. Offset(bs, h) < y
      BY <1>2, <3>2
    <3> QED BY <1>3, <3>1, <3>3
  <2> QED BY <2>1, <2>2
<1> DEFINE c == IF h # 0 /\ Offset(bs, h) + bs[h].len > x THEN h ELSE h + 1
<1>7. ASSUME NEW i \in 1 .. n PROVE Offset(bs, i) + bs[i].len > x <=> c <= i
  <2>1. Offset(bs, i) \in Nat /\ bs[i].len \in Nat \ {0}
    BY <1>1
  <2>2. CASE i < h
    <3>1. h \in 1 .. n /\ h <= h
      BY <1>1, <1>5, <2>2
    <3>2. Offset(bs, h) < x /\ Offset(bs, h) \in Nat /\ Offset(bs, i) + bs[i].len < Offset(bs, h)
      BY <1>1, <1>3, <2>2, <3>1
    <3>3. ~(Offset(bs, i) + bs[i].len > x)
      BY <1>2, <2>1, <3>2
    <3>4. ~(c <= i)
      BY <1>1, <1>5, <2>2
    <3> QED BY <3>3, <3>4
  <2>3. CASE i = h
    BY <1>1, <1>5, <2>3
  <2>4. CASE i > h
    <3>1. ~(Offset(bs, i) < x)
      BY <1>1, <1>3, <1>5, <2>4
    <3>2. Offset(bs, i) + bs[i].len > x
      BY <1>2, <2>1, <3>1
    <3>3. c <= i
      BY <1>1, <1>5, <2>4
    <3> QED BY <3>2, <3>3
  <2> QED BY <1>1, <1>5, <2>2, <2>3, <2>4
<1>8. c \in {h, h + 1} /\ c \in Nat \ {0} /\ c <= l + 1 /\ (c = h => c <= l)
  BY <1>1, <1>5, <1>6
<1> HIDE DEF c
<1>9. Sliced(bs, k) = c .. l
  <2>1. \A i \in 1 .. n : i \in Sliced(bs, k) <=> c <= i /\ i <= l
    BY <1>3, <1>4, <1>7
  <2>2. c .. l \in SUBSET (1 .. n)
    BY <1>1, <1>5, <1>8
  <2>3. \A i \in 1 .. n : i \in c .. l <=> c <= i /\ i <= l
    BY <1>1, <1>5, <1>8
  <2>4. Sliced(bs, k) \in SUBSET (1 .. n)
    BY <1>4
  <2> QED BY <2>1, <2>2, <2>3, <2>4
<1> QED BY <1>8, <1>9

LEMMA SlicesCopy ==
    ASSUME NEW bs, Proper(bs)
    PROVE  CopyText(Slices(bs), bs, 1, Len(bs))
<1> DEFINE n == Len(bs)
           m == (Span(bs) + SliceChars - 1) \div SliceChars
           cs == Slices(bs)
           s == BlockIds(bs)
<1>1. /\ bs \in Seq(Block) /\ n \in Nat /\ DOMAIN bs = 1 .. n /\ Span(bs) \in Nat
      /\ SliceChars \in Nat \ {0}
      /\ \A i \in 1 .. n : Offset(bs, i) \in Nat /\ bs[i].len \in Nat \ {0}
      /\ n > 0 => Offset(bs, n) + bs[n].len = Span(bs)
      /\ n = 0 => Span(bs) = 0
  BY OffsetsGrow, ContentAssumption DEF Proper
<1>2. m \in Nat /\ Span(bs) <= m * SliceChars
  BY <1>1, WindowCount
<1>3. DOMAIN cs = 1 .. m /\ \A k \in 1 .. m : cs[k].blocks = Picked(bs, Sliced(bs, k))
  BY DEF Slices, Sliced
<1>4. IsSeq(cs)
  BY <1>1, SlicesAre
<1> HIDE DEF m, cs, n, s
<1>5. \A k \in 1 .. m : Sliced(bs, k) \in SUBSET DOMAIN bs
  BY DEF Sliced
<1>6. Chunked(cs)
  <2>1. ASSUME NEW k \in 1 .. m PROVE cs[k].blocks \in Seq(Block)
    BY <1>1, <1>3, <1>5, PickedType
  <2> QED BY <1>3, <1>4, <2>1 DEF Chunked
<1>7. Len(cs) = m
  <2>1. Len(cs) \in Nat /\ DOMAIN cs = 1 .. Len(cs)
    BY <1>6, BodiesAre
  <2> QED BY <1>2, <1>3, <2>1
<1>8. /\ Bodies(cs) \in Seq(Seq(BlockName)) /\ Len(Bodies(cs)) = m
      /\ \A k \in 1 .. m : Bodies(cs)[k] = BlockIds(Picked(bs, Sliced(bs, k)))
  BY <1>3, <1>6, <1>7, BodiesAre
<1>9. PICK g : PutTogether(g, Bodies(cs), BlockName) /\ Body(cs) = g[m]
  BY <1>8, FlattenBy DEF Body
<1>10. g[0] = <<>> /\ \A k \in 1 .. m : g[k] = g[k - 1] \o BlockIds(Picked(bs, Sliced(bs, k)))
  BY <1>8, <1>9 DEF PutTogether
<1> DEFINE S == {k \in 0 .. m : \E h \in 0 .. n : /\ StartBefore(bs, k * SliceChars, h)
                                                  /\ Copies(g[k], s, 1, h)}
<1>11. ASSUME NEW k \in 1 .. m, k - 1 \in S PROVE k \in S
  <2>1. k \in Nat \ {0} /\ k \in 0 .. m /\ k * SliceChars \in Int
    BY <1>1, <1>2, Multiples
  <2>2. PICK h \in 0 .. n : StartBefore(bs, (k - 1) * SliceChars, h) /\ Copies(g[k - 1], s, 1, h)
    BY <1>11
  <2>3. PICK l \in 0 .. n : StartBefore(bs, k * SliceChars, l)
    BY <2>1, StartsBefore DEF n
  <2>4. PICK c \in {h, h + 1} : /\ Sliced(bs, k) = c .. l /\ c \in Nat \ {0} /\ c <= l + 1
                                /\ c = h => c <= l
    BY <2>1, <2>2, <2>3, WithinIs DEF n
  <2> DEFINE t == Picked(bs, c .. l)
             u == BlockIds(t)
  <2>5. t \in Seq(Block) /\ Copies(u, s, c, l) /\ (c <= l => Len(t) > 0)
    <3>1. l \in Int /\ l <= Len(bs)
      BY <1>1 DEF n
    <3> QED BY <1>1, <2>4, <3>1, PickedCopies DEF s
  <2>6. Len(u) = Len(t)
    BY <2>5, IdsAreNames
  <2>7. g[k] = g[k - 1] \o u
    BY <1>10, <2>4
  <2> HIDE DEF t, u
  <2>8. c = h => Len(g[k - 1]) > 0 /\ Len(u) > 0
    <3>1. g[k - 1] \in Seq(BlockName) /\ (Len(g[k - 1]) = 0 => h = 1 - 1)
      BY <2>2 DEF Copies, Follows
    <3>2. Len(g[k - 1]) \in Nat
      BY <3>1
    <3> QED BY <2>4, <2>5, <2>6, <3>1, <3>2
  <2>9. Copies(g[k], s, 1, l)
    BY <2>2, <2>4, <2>5, <2>7, <2>8, CopiesJoin
  <2> QED BY <2>1, <2>3, <2>9
<1>12. 0 \in S /\ m \in 0 .. m
  <2>1. 0 * SliceChars = 0 /\ 0 \in 0 .. n /\ 0 \in 0 .. m /\ m \in 0 .. m
    BY <1>1, <1>2
  <2>2. StartBefore(bs, 0, 0)
    BY <1>1 DEF StartBefore, n
  <2>3. Copies(<<>>, s, 1, 1 - 1)
    <3>1. 1 \in Nat \ {0}
      OBVIOUS
    <3> QED BY <3>1, CopyNothing
  <2> QED BY <1>10, <2>1, <2>2, <2>3
<1> HIDE DEF S
<1>13. m \in S
  BY <1>2, <1>11, <1>12, Inductive
<1>14. PICK h \in 0 .. n : StartBefore(bs, m * SliceChars, h) /\ Copies(g[m], s, 1, h)
  BY <1>13 DEF S
<1>15. h = n
  <2>1. CASE n = 0
    BY <1>1, <2>1
  <2>2. CASE n # 0
    <3> DEFINE z == m * SliceChars
    <3>1. n \in 1 .. n /\ z \in Int /\ Span(bs) <= z
      BY <1>1, <1>2, <2>2, Multiples
    <3> HIDE DEF z
    <3>2. Offset(bs, n) \in Nat /\ bs[n].len \in Nat \ {0} /\ Offset(bs, n) + bs[n].len = Span(bs)
      BY <1>1, <3>1
    <3>3. Offset(bs, n) < z
      BY <3>1, <3>2, <1>1
    <3>4. n <= h
      BY <1>14, <3>1, <3>3 DEF StartBefore, n, z
    <3> QED BY <1>1, <3>4
  <2> QED BY <2>1, <2>2
<1> QED BY <1>6, <1>9, <1>14, <1>15 DEF CopyText, cs, s, n

-----------------------------------------------------------------------------
(* What is left of a text, and where it was.                               *)
Part(o, t, s) ==
    /\ o \in [1 .. Len(t) -> 1 .. Len(s)]
    /\ \A k \in 1 .. Len(t) : t[k] = s[o[k]]
    /\ \A k, l \in 1 .. Len(t) : k < l => o[k] < o[l]
Left(t, s) == t \in Seq(Block) /\ \E o : Part(o, t, s)

LEMMA LeftOfAll ==
    ASSUME NEW s \in Seq(Block)
    PROVE  Left(s, s)
<1> DEFINE o == [k \in 1 .. Len(s) |-> k]
<1>1. Len(s) \in Nat
  OBVIOUS
<1>2. Part(o, s, s)
  BY <1>1 DEF Part
<1> QED BY <1>2 DEF Left

LEMMA LeftOfLeft ==
    ASSUME NEW r, NEW s \in Seq(Block), NEW t, Left(r, t), Left(t, s)
    PROVE  Left(r, s)
<1>1. PICK p : Part(p, r, t)
  BY DEF Left
<1>2. PICK q : Part(q, t, s)
  BY DEF Left
<1> DEFINE o == [k \in 1 .. Len(r) |-> q[p[k]]]
<1>3. \A k \in 1 .. Len(r) : p[k] \in 1 .. Len(t) /\ r[k] = t[p[k]]
  BY <1>1 DEF Part
<1>4. \A k \in 1 .. Len(t) : q[k] \in 1 .. Len(s) /\ t[k] = s[q[k]]
  BY <1>2 DEF Part
<1>5. o \in [1 .. Len(r) -> 1 .. Len(s)]
  BY <1>3, <1>4
<1>6. \A k \in 1 .. Len(r) : o[k] = q[p[k]] /\ r[k] = s[o[k]]
  BY <1>3, <1>4
<1>7. ASSUME NEW k \in 1 .. Len(r), NEW l \in 1 .. Len(r), k < l PROVE o[k] < o[l]
  <2>1. p[k] < p[l]
    BY <1>1, <1>7 DEF Part
  <2>2. q[p[k]] < q[p[l]]
    BY <1>2, <1>3, <2>1 DEF Part
  <2> QED BY <1>6, <2>2
<1> HIDE DEF o
<1>8. Part(o, r, s)
  BY <1>5, <1>6, <1>7 DEF Part
<1> QED BY <1>8 DEF Left

LEMMA PickedLeft ==
    ASSUME NEW s \in Seq(Block), NEW at \in SUBSET DOMAIN s
    PROVE  Left(Picked(s, at), s)
<1> DEFINE t == Picked(s, at)
<1>1. t \in Seq(Block) /\ \E o : PicksBy(o, t, s, at)
  BY PickedBy
<1>2. PICK o : PicksBy(o, t, s, at)
  BY <1>1
<1>3. Len(t) \in Nat /\ DOMAIN s = 1 .. Len(s) /\ Len(s) \in Nat
  BY <1>1
<1> HIDE DEF t
<1>4. /\ o \in [1 .. Len(t) -> at] /\ \A k \in 1 .. Len(t) : t[k] = s[o[k]]
      /\ \A k, l \in 1 .. Len(t) : k <= l <=> o[k] <= o[l]
  BY <1>2 DEF PicksBy
<1>5. o \in [1 .. Len(t) -> 1 .. Len(s)]
  BY <1>3, <1>4
<1>6. ASSUME NEW k \in 1 .. Len(t), NEW l \in 1 .. Len(t), k < l PROVE o[k] < o[l]
  <2>1. ~(l <= k)
    BY <1>3, <1>6
  <2>2. ~(o[l] <= o[k])
    BY <1>4, <2>1
  <2>3. o[k] \in 1 .. Len(s) /\ o[l] \in 1 .. Len(s)
    BY <1>5
  <2> QED BY <1>3, <2>2, <2>3
<1>7. Part(o, t, s)
  BY <1>4, <1>5, <1>6 DEF Part
<1>8. Left(t, s)
  BY <1>1, <1>7 DEF Left
<1> QED BY <1>8 DEF t

LEMMA StripTocLeft ==
    ASSUME NEW s \in Seq(Block)
    PROVE  Left(StripToc(s), s)
<1>1. CASE StripToc(s) = s
  BY <1>1, LeftOfAll
<1>2. ASSUME NEW a \in 0 .. Len(s), NEW b \in a + 1 .. Len(s) + 1,
             StripToc(s) = SubSeq(s, 1, a) \o SubSeq(s, b, Len(s))
      PROVE  Left(StripToc(s), s)
  <2> DEFINE n == Len(s)
             x == SubSeq(s, 1, a)
             y == SubSeq(s, b, n)
             m == a + (n + 1 - b)
             t == x \o y
             o == [k \in 1 .. m |-> IF k <= a THEN k ELSE b + (k - a) - 1]
  <2>1. n \in Nat /\ a \in Nat /\ b \in Nat \ {0} /\ n + 1 - b \in Nat /\ m \in Nat
    OBVIOUS
  <2>2. x \in Seq(Block) /\ Len(x) = a /\ \A k \in 1 .. a : x[k] = s[k]
    OBVIOUS
  <2>3. y \in Seq(Block) /\ Len(y) = n + 1 - b /\ \A k \in 1 .. n + 1 - b : y[k] = s[b + k - 1]
    OBVIOUS
  <2> HIDE DEF x, y, n
  <2>4. /\ t \in Seq(Block) /\ Len(t) = m
        /\ \A k \in 1 .. a : t[k] = x[k]
        /\ \A k \in a + 1 .. m : t[k] = y[k - a] /\ k - a \in 1 .. n + 1 - b
    <3>1. x \in Seq(Block) /\ y \in Seq(Block)
      BY <2>2, <2>3
    <3>2. /\ x \o y \in Seq(Block) /\ Len(x \o y) = Len(x) + Len(y)
          /\ \A k \in 1 .. Len(x) : (x \o y)[k] = x[k]
          /\ \A k \in Len(x) + 1 .. Len(x \o y) :
                (x \o y)[k] = y[k - Len(x)] /\ k - Len(x) \in 1 .. Len(y)
      BY ONLY <3>1, ConcatIs
    <3> QED BY <2>1, <2>2, <2>3, <3>2
  <2>5. \A k \in 1 .. m : o[k] \in 1 .. n
    BY <2>1 DEF n
  <2>6. ASSUME NEW k \in 1 .. m PROVE t[k] = s[o[k]]
    <3>1. CASE k <= a
      BY <2>1, <2>2, <2>4, <3>1
    <3>2. CASE ~(k <= a)
      <4>1. k \in a + 1 .. m
        BY <2>1, <3>2
      <4>2. k - a \in 1 .. n + 1 - b /\ t[k] = y[k - a]
        BY <2>4, <4>1
      <4>3. y[k - a] = s[b + (k - a) - 1]
        BY <2>3, <4>2
      <4> QED BY <3>2, <4>2, <4>3
    <3> QED BY <3>1, <3>2
  <2>7. \A k, l \in 1 .. m : k < l => o[k] < o[l]
    BY <2>1
  <2>8. o \in [1 .. m -> 1 .. n]
    BY <2>5
  <2> HIDE DEF o, t, m
  <2>9. Part(o, t, s)
    BY <2>4, <2>6, <2>7, <2>8 DEF Part, n
  <2>10. Left(t, s)
    BY <2>4, <2>9 DEF Left
  <2> QED BY <1>2, <2>10 DEF t, x, y, n
<1> QED BY <1>1, <1>2, StripTocCuts

LEMMA CleanLeft ==
    ASSUME NEW s \in Seq(Block)
    PROVE  Left(Clean(s), s)
<1> DEFINE t == StripBoilerplate(s)
<1>1. Left(t, s)
  <2> DEFINE at == {i \in DOMAIN s : s[i].kind # "noise"}
  <2>1. t = Picked(s, at)
    BY DEF StripBoilerplate, Kept, With
  <2>2. at \in SUBSET DOMAIN s
    OBVIOUS
  <2> HIDE DEF at, t
  <2> QED BY <2>1, <2>2, PickedLeft
<1>2. t \in Seq(Block)
  BY <1>1 DEF Left
<1> HIDE DEF t
<1>3. Left(StripToc(t), t)
  BY <1>2, StripTocLeft
<1>4. Left(StripToc(t), s)
  BY <1>1, <1>3, LeftOfLeft
<1> QED BY <1>4 DEF Clean, t

LEMMA LeftIsProper ==
    ASSUME NEW s, Proper(s), NEW t, Left(t, s)
    PROVE  Proper(t)
<1>1. PICK o : Part(o, t, s)
  BY DEF Left
<1>2. /\ t \in Seq(Block) /\ s \in Seq(Block) /\ Len(t) \in Nat /\ Len(s) \in Nat
      /\ DOMAIN t = 1 .. Len(t) /\ DOMAIN s = 1 .. Len(s)
  BY DEF Left, Proper
<1>3. \A k \in 1 .. Len(t) : o[k] \in 1 .. Len(s) /\ t[k] = s[o[k]]
  BY <1>1 DEF Part
<1>4. \A k \in DOMAIN t : t[k].len > 0
  BY <1>2, <1>3 DEF Proper
<1>5. ASSUME NEW k \in 1 .. Len(t), NEW l \in 1 .. Len(t), t[k].id = t[l].id PROVE k = l
  <2>1. o[k] = o[l]
    BY <1>2, <1>3, <1>5 DEF Proper
  <2>2. ~(o[k] < o[l]) /\ ~(o[l] < o[k])
    BY <1>2, <1>3, <2>1
  <2>3. ~(k < l) /\ ~(l < k)
    BY <1>1, <2>2 DEF Part
  <2> QED BY <1>2, <2>3
<1> QED BY <1>2, <1>4, <1>5 DEF Proper

-----------------------------------------------------------------------------
(* The blocks of the pages are told apart over the whole document.         *)
ProperGroups(g) ==
    /\ g \in Seq(Seq(Block))
    /\ \A i \in DOMAIN g : \A k \in DOMAIN g[i] : g[i][k].len > 0
    /\ \A i, j \in DOMAIN g : \A k \in DOMAIN g[i], l \in DOMAIN g[j] :
          g[i][k].id = g[j][l].id => i = j /\ k = l

LEMMA FlatIsProper ==
    ASSUME NEW g, ProperGroups(g)
    PROVE  Proper(FlattenSeq(g))
<1> DEFINE n == Len(g)
<1>1. /\ g \in Seq(Seq(Block)) /\ n \in Nat /\ DOMAIN g = 1 .. n
      /\ \A i \in 1 .. n : g[i] \in Seq(Block)
  BY DEF ProperGroups
<1>2. \A i \in 1 .. n : DOMAIN g[i] = 1 .. Len(g[i]) /\ Len(g[i]) \in Nat
  BY <1>1
<1>3. PICK a : PutTogether(a, g, Block) /\ FlattenSeq(g) = a[n]
  BY <1>1, FlattenBy
<1> HIDE DEF n
<1>4. a \in [0 .. n -> Seq(Block)] /\ a[0] = <<>> /\ \A i \in 1 .. n : a[i] = a[i - 1] \o g[i]
  BY <1>3 DEF PutTogether, n
<1> DEFINE From(i) == \A k \in 1 .. Len(a[i]) : \E j \in 1 .. i : \E l \in 1 .. Len(g[j]) :
                         a[i][k] = g[j][l]
           S == {i \in 0 .. n : Proper(a[i]) /\ From(i)}
<1>5. ASSUME NEW i \in 1 .. n, i - 1 \in S PROVE i \in S
  <2> DEFINE x == a[i - 1]
             y == g[i]
             p == Len(x)
             q == Len(y)
  <2>1. i \in 0 .. n /\ i - 1 \in 0 .. n /\ i \in Nat
    BY <1>1
  <2>2. Proper(x) /\ \A k \in 1 .. p : \E j \in 1 .. i - 1 : \E l \in 1 .. Len(g[j]) : x[k] = g[j][l]
    BY <1>5
  <2>3. /\ x \in Seq(Block) /\ y \in Seq(Block) /\ p \in Nat /\ q \in Nat
        /\ DOMAIN x = 1 .. p /\ DOMAIN y = 1 .. q /\ a[i] = x \o y
    <3>1. x \in Seq(Block)
      BY <1>4, <2>1
    <3>2. y \in Seq(Block)
      BY <1>1
    <3>3. a[i] = x \o y
      BY <1>4
    <3> HIDE DEF x, y
    <3> QED BY <3>1, <3>2, <3>3 DEF p, q
  <2>4. \A j \in 1 .. i - 1 : j \in 1 .. n /\ j # i
    BY <1>1, <2>1
  <2> HIDE DEF x, y, p, q
  <2>5. /\ a[i] \in Seq(Block) /\ Len(a[i]) = p + q
        /\ \A k \in 1 .. p : a[i][k] = x[k]
        /\ \A k \in p + 1 .. p + q : a[i][k] = y[k - p] /\ k - p \in 1 .. q
    <3>1. /\ x \o y \in Seq(Block) /\ Len(x \o y) = Len(x) + Len(y)
          /\ \A k \in 1 .. Len(x) : (x \o y)[k] = x[k]
          /\ \A k \in Len(x) + 1 .. Len(x \o y) :
                (x \o y)[k] = y[k - Len(x)] /\ k - Len(x) \in 1 .. Len(y)
      BY ONLY <2>3, ConcatIs
    <3> QED BY <2>3, <3>1 DEF p, q
  <2>6. \A k \in 1 .. p + q : k \in 1 .. p \/ k \in p + 1 .. p + q
    BY <2>3
  <2>7. \A k \in 1 .. p : x[k].len > 0 /\ \A l \in 1 .. p : x[k].id = x[l].id => k = l
    BY <2>2, <2>3 DEF Proper
  <2>8. \A k \in 1 .. q : y[k].len > 0 /\ \A l \in 1 .. q : y[k].id = y[l].id => k = l
    <3>1. i \in DOMAIN g
      BY <1>1
    <3>2. \A k \in DOMAIN g[i] : g[i][k].len > 0
      BY <3>1 DEF ProperGroups
    <3>3. \A k, l \in DOMAIN g[i] : g[i][k].id = g[i][l].id => k = l
      BY <3>1, Zenon DEF ProperGroups
    <3> QED BY <2>3, <3>2, <3>3 DEF y
  <2>9. ASSUME NEW k \in 1 .. p, NEW l \in 1 .. q PROVE x[k].id # y[l].id
    <3>1. PICK j \in 1 .. i - 1 : \E m \in 1 .. Len(g[j]) : x[k] = g[j][m]
      BY <2>2
    <3>2. PICK m \in 1 .. Len(g[j]) : x[k] = g[j][m]
      BY <3>1
    <3>3. j \in 1 .. n /\ j # i /\ m \in DOMAIN g[j] /\ l \in DOMAIN g[i]
      BY <1>2, <2>3, <2>4, <3>2 DEF y
    <3> QED BY <1>1, <3>2, <3>3 DEF ProperGroups, y
  <2>10. ASSUME NEW k \in 1 .. p + q PROVE a[i][k].len > 0
    BY <2>5, <2>6, <2>7, <2>8
  <2>11. ASSUME NEW k \in 1 .. p + q, NEW l \in 1 .. p + q, a[i][k].id = a[i][l].id PROVE k = l
    <3>1. CASE k \in 1 .. p /\ l \in 1 .. p
      BY <2>5, <2>7, <2>11, <3>1
    <3>2. CASE k \in 1 .. p /\ l \in p + 1 .. p + q
      BY <2>5, <2>9, <2>11, <3>2
    <3>3. CASE k \in p + 1 .. p + q /\ l \in 1 .. p
      BY <2>5, <2>9, <2>11, <3>3
    <3>4. CASE k \in p + 1 .. p + q /\ l \in p + 1 .. p + q
      <4>1. k - p = l - p
        BY <2>5, <2>8, <2>11, <3>4
      <4> QED BY <2>3, <4>1
    <3> QED BY <2>6, <3>1, <3>2, <3>3, <3>4
  <2>12. DOMAIN a[i] = 1 .. p + q
    BY <2>5
  <2>13. Proper(a[i])
    BY <2>5, <2>10, <2>11, <2>12 DEF Proper
  <2>14. ASSUME NEW k \in 1 .. p + q
         PROVE  \E j \in 1 .. i : \E l \in 1 .. Len(g[j]) : a[i][k] = g[j][l]
    <3>1. CASE k \in 1 .. p
      <4>1. PICK j \in 1 .. i - 1 : \E l \in 1 .. Len(g[j]) : x[k] = g[j][l]
        BY <2>2, <3>1
      <4>2. j \in 1 .. i
        BY <2>1
      <4> QED BY <2>5, <3>1, <4>1, <4>2
    <3>2. CASE k \in p + 1 .. p + q
      <4>1. a[i][k] = g[i][k - p] /\ k - p \in 1 .. Len(g[i]) /\ i \in 1 .. i
        BY <2>1, <2>5, <3>2 DEF y, q
      <4> QED BY <4>1
    <3> QED BY <2>6, <3>1, <3>2
  <2> QED BY <2>1, <2>5, <2>13, <2>14
<1>6. 0 \in S /\ n \in 0 .. n
  <2>1. Len(<<>>) = 0 /\ DOMAIN <<>> = {} /\ <<>> \in Seq(Block)
    OBVIOUS
  <2>2. Proper(<<>>)
    BY <2>1 DEF Proper
  <2>3. 0 \in 0 .. n /\ n \in 0 .. n /\ 1 .. 0 = {}
    BY <1>1
  <2> QED BY <1>4, <2>1, <2>2, <2>3
<1> HIDE DEF S
<1>7. n \in S
  BY <1>1, <1>5, <1>6, Inductive
<1>8. Proper(a[n])
  BY <1>7 DEF S
<1> QED BY <1>3, <1>8

(* Pages of which nothing but some blocks, and some pages, is left.        *)
ProperPages(pages) ==
    /\ pages \in Seq(PageOf) /\ Identified(pages) /\ Numbered(pages)
    /\ \A i \in DOMAIN pages : \A k \in DOMAIN pages[i].blocks : pages[i].blocks[k].len > 0

LEMMA PagesAreProper ==
    ASSUME NEW d \in Documents
    PROVE  ProperPages(d.pages)
<1> DEFINE Full == [id : STRING, norm : STRING, len : Nat \ {0}, level : Int, kind : STRING,
                    hint : STRING]
           Paper == [n : Int, score : Int, region : BOOLEAN, blocks : Seq(Full)]
<1>1. d.pages \in Seq(Paper) /\ Identified(d.pages) /\ Numbered(d.pages)
  BY ContentAssumption
<1>2. \A x \in Full : x.len > 0
  OBVIOUS
<1>3. \A x \in Paper : x.blocks \in Seq(Full)
  <2> HIDE DEF Full
  <2> QED OBVIOUS
<1> HIDE DEF Paper, Full
<1>4. ASSUME NEW i \in DOMAIN d.pages, NEW k \in DOMAIN d.pages[i].blocks
      PROVE  d.pages[i].blocks[k].len > 0
  <2> DEFINE x == d.pages[i].blocks
  <2>1. d.pages[i] \in Paper
    BY <1>1
  <2>2. x \in Seq(Full) /\ k \in DOMAIN x
    BY <1>3, <2>1
  <2> HIDE DEF x
  <2>3. x[k] \in Full
    BY <2>2
  <2> QED BY <1>2, <2>3 DEF x
<1> QED BY <1>1, <1>4, PagesAre DEF ProperPages

LEMMA TextPagesAreProper ==
    ASSUME NEW pages, ProperPages(pages)
    PROVE  ProperPages(TextPages(pages))
<1>1. pages \in Seq(PageOf)
  BY DEF ProperPages
<1>2. PICK at : at \in SUBSET DOMAIN pages /\ TextPages(pages) = Picked(pages, at)
  <2> DEFINE visual(i, used) == Visual(pages[i], used, VisualBudget(Len(pages)))
             used[i \in 0 .. Len(pages)] ==
               IF i = 0 THEN 0
               ELSE LET before == used[i - 1] IN IF visual(i, before) THEN before + 1 ELSE before
             at == {i \in DOMAIN pages : ~visual(i, used[i - 1])}
  <2>1. at \in SUBSET DOMAIN pages
    OBVIOUS
  <2>2. TextPages(pages) = Picked(pages, at)
    BY DEF TextPages
  <2> HIDE DEF at
  <2> QED BY <2>1, <2>2
<1> DEFINE t == TextPages(pages)
<1>3. t \in Seq(PageOf) /\ \E o : PicksBy(o, t, pages, at)
  BY <1>1, <1>2, PickedBy
<1>4. PICK o : PicksBy(o, t, pages, at)
  BY <1>3
<1> HIDE DEF t
<1>5. /\ o \in [1 .. Len(t) -> at] /\ \A k \in 1 .. Len(t) : t[k] = pages[o[k]]
      /\ \A k, l \in 1 .. Len(t) : k <= l <=> o[k] <= o[l]
  BY <1>4 DEF PicksBy
<1>6. DOMAIN t = 1 .. Len(t) /\ Len(t) \in Nat /\ DOMAIN pages = 1 .. Len(pages) /\ Len(pages) \in Nat
  BY <1>1, <1>3
<1>7. \A k \in 1 .. Len(t) : o[k] \in DOMAIN pages /\ o[k] \in Int
  BY <1>2, <1>5, <1>6
<1>8. \A k, l \in 1 .. Len(t) : o[k] = o[l] => k = l
  <2>1. \A k, l \in 1 .. Len(t) : o[k] = o[l] => o[k] <= o[l] /\ o[l] <= o[k]
    BY <1>7
  <2>2. \A k, l \in 1 .. Len(t) : k <= l /\ l <= k => k = l
    BY <1>6
  <2> QED BY <1>5, <2>1, <2>2
<1>9. \A k, l \in 1 .. Len(t) : k < l => o[k] < o[l]
  <2>1. ASSUME NEW k \in 1 .. Len(t), NEW l \in 1 .. Len(t), k < l PROVE o[k] < o[l]
    <3>1. ~(l <= k)
      BY <1>6, <2>1
    <3>2. ~(o[l] <= o[k])
      BY <1>5, <3>1
    <3> QED BY <1>7, <3>2
  <2> QED BY <2>1
<1>10. Identified(t)
  BY <1>5, <1>6, <1>7, <1>8 DEF Identified, ProperPages
<1>11. Numbered(t)
  <2>1. ASSUME NEW k \in 1 .. Len(t), NEW l \in 1 .. Len(t), k < l PROVE t[k].n < t[l].n
    <3>1. o[k] < o[l] /\ o[k] \in DOMAIN pages /\ o[l] \in DOMAIN pages
      BY <1>7, <1>9, <2>1
    <3>2. pages[o[k]].n < pages[o[l]].n
      BY <3>1 DEF ProperPages, Numbered
    <3> QED BY <1>5, <3>2
  <2> QED BY <1>6, <2>1 DEF Numbered
<1>12. \A i \in DOMAIN t : \A k \in DOMAIN t[i].blocks : t[i].blocks[k].len > 0
  BY <1>5, <1>6, <1>7 DEF ProperPages
<1> QED BY <1>3, <1>10, <1>11, <1>12 DEF ProperPages, t

\* Pages with some of the blocks of others.
Thinner(t, pages) ==
    /\ t \in Seq(PageOf) /\ Len(t) = Len(pages)
    /\ \A i \in 1 .. Len(t) : t[i].n = pages[i].n /\ Left(t[i].blocks, pages[i].blocks)

LEMMA ThinnerIsProper ==
    ASSUME NEW pages, ProperPages(pages), NEW t, Thinner(t, pages)
    PROVE  ProperPages(t)
<1> DEFINE n == Len(t)
<1>1. /\ t \in Seq(PageOf) /\ pages \in Seq(PageOf) /\ n \in Nat
      /\ DOMAIN t = 1 .. n /\ DOMAIN pages = 1 .. n
      /\ \A i \in 1 .. n : t[i].n = pages[i].n /\ Left(t[i].blocks, pages[i].blocks)
  BY SMTT(20) DEF Thinner, ProperPages
<1> HIDE DEF n
<1> DEFINE Embeds(o, i) ==
             /\ o \in [DOMAIN t[i].blocks -> DOMAIN pages[i].blocks]
             /\ \A k \in DOMAIN t[i].blocks : t[i].blocks[k] = pages[i].blocks[o[k]]
             /\ \A k, l \in DOMAIN t[i].blocks : o[k] = o[l] => k = l
           e == [i \in 1 .. n |-> CHOOSE o : Embeds(o, i)]
<1>2. ASSUME NEW i \in 1 .. n PROVE Embeds(e[i], i)
  <2> DEFINE x == t[i].blocks
             y == pages[i].blocks
  <2>1. x \in Seq(Block) /\ y \in Seq(Block)
    <3>1. t[i] \in PageOf /\ pages[i] \in PageOf
      BY <1>1
    <3> QED BY <3>1 DEF PageOf
  <2>2. Left(x, y)
    BY <1>1
  <2> HIDE DEF x, y
  <2>3. PICK o : Part(o, x, y)
    BY <2>2 DEF Left
  <2>4. DOMAIN x = 1 .. Len(x) /\ DOMAIN y = 1 .. Len(y) /\ Len(x) \in Nat /\ Len(y) \in Nat
    BY <2>1
  <2>5. ASSUME NEW k \in DOMAIN x, NEW l \in DOMAIN x, o[k] = o[l] PROVE k = l
    <3>1. o[k] \in Int /\ o[l] \in Int
      BY <2>3, <2>4 DEF Part
    <3>2. ~(k < l) /\ ~(l < k)
      BY <2>3, <2>4, <2>5, <3>1 DEF Part
    <3> QED BY <2>4, <3>2
  <2>6. /\ o \in [DOMAIN x -> DOMAIN y]
        /\ \A k \in DOMAIN x : x[k] = y[o[k]]
    BY <2>3, <2>4 DEF Part
  <2>7. Embeds(o, i)
    BY <2>5, <2>6 DEF x, y
  <2>8. Embeds(CHOOSE q : Embeds(q, i), i)
    <3> HIDE DEF Embeds
    <3> QED BY <2>7
  <2>9. e[i] = CHOOSE q : Embeds(q, i)
    <3> HIDE DEF Embeds
    <3> QED OBVIOUS
  <2> HIDE DEF e
  <2> QED BY <2>8, <2>9, Zenon
<1> HIDE DEF e
<1>3. ASSUME NEW i \in 1 .. n, NEW j \in 1 .. n,
             NEW k \in DOMAIN t[i].blocks, NEW l \in DOMAIN t[j].blocks,
             t[i].blocks[k].id = t[j].blocks[l].id
      PROVE  i = j /\ k = l
  <2>1. /\ e[i][k] \in DOMAIN pages[i].blocks /\ t[i].blocks[k] = pages[i].blocks[e[i][k]]
        /\ e[j][l] \in DOMAIN pages[j].blocks /\ t[j].blocks[l] = pages[j].blocks[e[j][l]]
    BY <1>2
  <2>2. i = j /\ e[i][k] = e[j][l]
    BY <1>1, <1>3, <2>1 DEF ProperPages, Identified
  <2> QED BY <1>2, <2>2
<1>4. Identified(t)
  BY <1>1, <1>3 DEF Identified
<1>5. Numbered(t)
  BY <1>1 DEF Numbered, ProperPages
<1>6. \A i \in DOMAIN t : \A k \in DOMAIN t[i].blocks : t[i].blocks[k].len > 0
  <2>1. ASSUME NEW i \in 1 .. n, NEW k \in DOMAIN t[i].blocks PROVE t[i].blocks[k].len > 0
    <3>1. e[i][k] \in DOMAIN pages[i].blocks /\ t[i].blocks[k] = pages[i].blocks[e[i][k]]
      BY <1>2
    <3> QED BY <1>1, <3>1 DEF ProperPages
  <2> QED BY <1>1, <2>1
<1> QED BY <1>1, <1>4, <1>5, <1>6 DEF ProperPages

LEMMA StripRepeatedThins ==
    ASSUME NEW pages, ProperPages(pages)
    PROVE  Thinner(StripRepeated(pages), pages)
<1> DEFINE times(norm) == Cardinality({i \in DOMAIN pages : norm \in EdgeNorms(pages[i])})
           repeated == {norm \in UNION {EdgeNorms(pages[i]) : i \in DOMAIN pages} :
                           times(norm) >= Max({2, (35 * Len(pages)) \div 100})}
           at(i) == {k \in DOMAIN pages[i].blocks : pages[i].blocks[k].norm \notin repeated}
           left(i) == [pages[i] EXCEPT !.blocks = Picked(pages[i].blocks, at(i))]
           t == StripRepeated(pages)
<1>1. pages \in Seq(PageOf) /\ DOMAIN pages = 1 .. Len(pages) /\ Len(pages) \in Nat
  BY DEF ProperPages
<1>2. t = [i \in DOMAIN pages |-> left(i)]
  BY DEF StripRepeated, Kept, With
<1> HIDE DEF repeated
<1>3. ASSUME NEW i \in DOMAIN pages
      PROVE  left(i).n = pages[i].n /\ Left(left(i).blocks, pages[i].blocks)
  <2>1. pages[i] \in PageOf
    BY <1>1
  <2>2. pages[i].blocks \in Seq(Block)
    BY <2>1 DEF PageOf
  <2>3. Left(Picked(pages[i].blocks, at(i)), pages[i].blocks)
    <3>1. at(i) \in SUBSET DOMAIN pages[i].blocks
      OBVIOUS
    <3> HIDE DEF at
    <3> QED BY <2>2, <3>1, PickedLeft
  <2> HIDE DEF at
  <2> QED BY <2>1, <2>3 DEF PageOf
<1>4. t \in Seq(PageOf)
  BY <1>1, StripRepeatedIs
<1> HIDE DEF left
<1>5. DOMAIN t = DOMAIN pages /\ \A i \in DOMAIN pages : t[i] = left(i)
  BY <1>2
<1> HIDE DEF t
<1>6. Len(t) = Len(pages)
  BY <1>1, <1>4, <1>5
<1> QED BY <1>1, <1>3, <1>4, <1>5, <1>6 DEF Thinner, t

(* The pages with what the reader erases taken out of them, and their      *)
(* blocks one after the other.                                             *)
Erased(pages, erased) ==
    [i \in DOMAIN pages |->
        [pages[i] EXCEPT !.blocks = Kept(@, LAMBDA b : b.kind \notin erased)]]
BlocksOf(pages) == [i \in DOMAIN pages |-> pages[i].blocks]

LEMMA ErasedThins ==
    ASSUME NEW pages, ProperPages(pages), NEW erased
    PROVE  /\ Thinner(Erased(pages, erased), pages)
           /\ Payload(pages, erased).text = FlattenSeq(BlocksOf(Erased(pages, erased)))
<1> DEFINE at(i) == {k \in DOMAIN pages[i].blocks : pages[i].blocks[k].kind \notin erased}
           left(i) == [pages[i] EXCEPT !.blocks = Picked(pages[i].blocks, at(i))]
           t == Erased(pages, erased)
           flat == [i \in DOMAIN pages |-> Picked(pages[i].blocks, at(i))]
<1>1. pages \in Seq(PageOf) /\ DOMAIN pages = 1 .. Len(pages) /\ Len(pages) \in Nat
  BY DEF ProperPages
<1>2. t = [i \in DOMAIN pages |-> left(i)]
  BY DEF Erased, Kept, With
<1>3. ASSUME NEW i \in DOMAIN pages
      PROVE  /\ left(i) \in PageOf /\ left(i).n = pages[i].n
             /\ left(i).blocks = Picked(pages[i].blocks, at(i))
             /\ Left(left(i).blocks, pages[i].blocks)
  <2>1. pages[i] \in PageOf
    BY <1>1
  <2>2. pages[i].blocks \in Seq(Block)
    BY <2>1 DEF PageOf
  <2>3. Left(Picked(pages[i].blocks, at(i)), pages[i].blocks)
    <3>1. at(i) \in SUBSET DOMAIN pages[i].blocks
      OBVIOUS
    <3> HIDE DEF at
    <3> QED BY <2>2, <3>1, PickedLeft
  <2>4. Picked(pages[i].blocks, at(i)) \in Seq(Block)
    BY <2>3 DEF Left
  <2> HIDE DEF at
  <2> QED BY <2>1, <2>3, <2>4 DEF PageOf
<1>4. Payload(pages, erased).text = FlattenSeq(flat)
  BY DEF Payload, Kept, With
<1> HIDE DEF at
<1>5. t \in Seq(PageOf)
  <2> HIDE DEF left
  <2> QED BY <1>1, <1>2, <1>3
<1>6. DOMAIN t = DOMAIN pages /\ \A i \in DOMAIN pages : t[i] = left(i)
  <2> HIDE DEF left
  <2> QED BY <1>2
<1>7. BlocksOf(t) = flat
  <2> HIDE DEF left, t
  <2> QED BY <1>3, <1>6 DEF BlocksOf
<1> HIDE DEF t, left, flat
<1>8. Len(t) = Len(pages)
  BY <1>1, <1>5, <1>6
<1> QED BY <1>1, <1>3, <1>4, <1>5, <1>6, <1>7, <1>8 DEF Thinner, t

LEMMA FlatPagesAreProper ==
    ASSUME NEW pages, ProperPages(pages)
    PROVE  Proper(FlattenSeq(BlocksOf(pages)))
<1> DEFINE g == BlocksOf(pages)
<1>1. pages \in Seq(PageOf) /\ DOMAIN pages = 1 .. Len(pages) /\ Len(pages) \in Nat
  BY DEF ProperPages
<1>2. \A i \in DOMAIN pages : pages[i].blocks \in Seq(Block)
  <2>1. \A p \in PageOf : p.blocks \in Seq(Block)
    BY DEF PageOf
  <2> QED BY <1>1, <2>1
<1>3. DOMAIN g = DOMAIN pages /\ \A i \in DOMAIN pages : g[i] = pages[i].blocks
  BY DEF BlocksOf
<1>4. g \in Seq(Seq(Block))
  BY <1>1, <1>2 DEF BlocksOf
<1> HIDE DEF g
<1>5. ProperGroups(g)
  <2>1. \A i \in DOMAIN g : \A k \in DOMAIN g[i] : g[i][k].len > 0
    BY <1>3 DEF ProperPages
  <2>2. ASSUME NEW i \in DOMAIN g, NEW j \in DOMAIN g, NEW k \in DOMAIN g[i], NEW l \in DOMAIN g[j],
               g[i][k].id = g[j][l].id
        PROVE  i = j /\ k = l
    <3>1. /\ i \in DOMAIN pages /\ j \in DOMAIN pages
          /\ k \in DOMAIN pages[i].blocks /\ l \in DOMAIN pages[j].blocks
          /\ pages[i].blocks[k].id = pages[j].blocks[l].id
      BY <1>3, <2>2
    <3>2. Identified(pages)
      BY DEF ProperPages
    <3> QED BY ONLY <3>1, <3>2 DEF Identified
  <2> QED BY <1>4, <2>1, <2>2 DEF ProperGroups
<1> QED BY <1>5, FlatIsProper DEF g

LEMMA PayloadIsProper ==
    ASSUME NEW pages, ProperPages(pages), NEW erased
    PROVE  Proper(Payload(pages, erased).text)
<1>1. ProperPages(Erased(pages, erased))
  BY ErasedThins, ThinnerIsProper
<1> QED BY <1>1, ErasedThins, FlatPagesAreProper

LEMMA TextsAreProper ==
    ASSUME doc \in Documents
    PROVE  /\ \A t \in Extractions : Proper(t.text)
           /\ \A t \in ContentReadings : Proper(t.text)
<1>1. ProperPages(doc.pages)
  BY PagesAreProper
<1>2. Proper(RoutedText(doc.pages).text)
  BY <1>1, TextPagesAreProper, PayloadIsProper DEF RoutedText
<1>3. ProperPages(StripRepeated(doc.pages))
  BY <1>1, StripRepeatedThins, ThinnerIsProper
<1>4. Proper(MarkdownText(doc.pages).text) /\ Proper(PlainText(doc.pages).text)
  BY <1>3, PayloadIsProper DEF MarkdownText, PlainText
<1>5. Proper(NoText.text)
  <2>1. <<>> \in Seq(Block) /\ DOMAIN <<>> = {}
    OBVIOUS
  <2> QED BY <2>1 DEF Proper, NoText
<1>6. Proper(OnePage(FlattenSeq([i \in DOMAIN doc.pages |-> doc.pages[i].blocks])).text)
  BY <1>1, FlatPagesAreProper DEF OnePage, BlocksOf
<1>7. \A t \in Extractions : Proper(t.text)
  BY <1>4, <1>5, <1>6 DEF Extractions
<1> QED BY <1>2, <1>7 DEF ContentReadings

-----------------------------------------------------------------------------
(* From the moment a text is cut until its rows are stored, the chunks are *)
(* its blocks, in order and all of them, or those of it before the end     *)
(* that late chunking lost.                                                *)
Cut == {"encoding", "embedding", "saving", "processed"}
Source(d, t) == IF d.strategy = "CONTENT" THEN Clean(t.text) ELSE t.text
Conserved(cs, d, t) == Proper(t.text) /\ CopyText(cs, Source(d, t), 1, Len(Source(d, t)))
Begun(cs, d, t) ==
    Proper(t.text) /\ \E h \in 0 .. Len(Source(d, t)) : CopyText(cs, Source(d, t), 1, h)
CopyInv ==
    /\ phase = "encoding" => doc.strategy = "CONTENT"
    /\ phase \in {"encoding", "embedding"} => Conserved(chunks, doc, text)
    /\ phase \in Cut => Conserved(chunks, doc, text) \/ (EndLost /\ Begun(chunks, doc, text))

LEMMA SourceIsProper ==
    ASSUME NEW d, NEW t, Proper(t.text)
    PROVE  Proper(Source(d, t))
<1>1. t.text \in Seq(Block)
  BY DEF Proper
<1>2. Proper(Clean(t.text))
  BY <1>1, CleanLeft, LeftIsProper
<1> QED BY <1>2 DEF Source

LEMMA CopyInvInit == ContentInit => CopyInv
BY DEF ContentInit, CopyInv, Cut

LEMMA CopyOpened ==
    ASSUME CopyInv, NEW t, NEW cs, Conserved(cs, doc, t), NEW next,
           next = "encoding" => doc.strategy = "CONTENT", Opened(t, cs, next)
    PROVE  CopyInv'
<1>1. CASE Fail
  BY <1>1 DEF Fail, CopyInv, Cut
<1>2. CASE /\ text' = t /\ chunks' = cs /\ phase' = next
           /\ UNCHANGED <<doc, setup, attempt, vectors, todo, rows>>
  BY <1>2 DEF CopyInv
<1> QED BY <1>1, <1>2 DEF Opened

LEMMA CopyRead ==
    ASSUME ContentInv, CopyInv, ReadContent \/ ReadFast \/ ReadPreProcessed
    PROVE  CopyInv'
<1>1. doc \in Documents
  BY DEF ContentInv
<1>2. CASE ReadContent
  <2>1. PICK t \in ContentReadings :
          Opened(t, SemanticSplit(Clean(t.text)), IF setup.skip THEN "embedding" ELSE "encoding")
    BY <1>2 DEF ReadContent
  <2>2. Proper(t.text) /\ doc.strategy = "CONTENT"
    BY <1>1, <1>2, TextsAreProper DEF ReadContent
  <2>3. Proper(Clean(t.text)) /\ Source(doc, t) = Clean(t.text)
    BY <2>2, SourceIsProper DEF Source
  <2>4. Conserved(SemanticSplit(Clean(t.text)), doc, t)
    BY <2>2, <2>3, SemanticSplitCopies DEF Conserved
  <2> QED BY <2>1, <2>2, <2>4, CopyOpened
<1>3. CASE ReadFast
  <2>1. PICK t \in Extractions : Opened(t, Slices(t.text), "embedding")
    BY <1>3 DEF ReadFast
  <2>2. Proper(t.text) /\ doc.strategy = "FAST_CONTENT"
    BY <1>1, <1>3, TextsAreProper DEF ReadFast
  <2>3. Source(doc, t) = t.text
    BY <2>2 DEF Source
  <2>4. Conserved(Slices(t.text), doc, t)
    BY <2>2, <2>3, SlicesCopy DEF Conserved
  <2> QED BY <2>1, <2>4, CopyOpened
<1>4. CASE ReadPreProcessed
  BY <1>4 DEF ReadPreProcessed, Fail, CopyInv, Cut
<1> QED BY <1>2, <1>3, <1>4

(* What is cut off a copy leaves a copy of an earlier part.                *)
LEMMA CopiesCut ==
    ASSUME NEW t \in Seq(BlockName), NEW u \in Seq(BlockName), NEW s, NEW b \in Nat,
           Copies(t \o u, s, 1, b)
    PROVE  \E h \in 0 .. b : Copies(t, s, 1, h)
<1> DEFINE m == Len(t)
           n == Len(u)
           v == t \o u
<1>1. m \in Nat /\ n \in Nat /\ Len(v) = m + n /\ \A k \in 1 .. m : v[k] = t[k]
  BY ConcatIs
<1> HIDE DEF v
<1>2. PICK o \in [1 .. m + n -> 1 .. b] : Follows(o, v, s, 1, b)
  BY <1>1 DEF Copies, v
<1>3. CASE m = 0
  <2>1. Follows([k \in 1 .. 0 |-> 1], t, s, 1, 0)
    BY <1>3 DEF Follows
  <2>2. [k \in 1 .. 0 |-> 1] \in [1 .. Len(t) -> 1 .. 0] /\ 1 \in Nat \ {0} /\ 0 \in Int
    BY <1>3
  <2>3. Copies(t, s, 1, 0)
    BY <2>1, <2>2 DEF Copies
  <2> QED BY <2>3
<1>4. CASE m > 0
  <2> DEFINE p == [k \in 1 .. m |-> o[k]]
  <2>1. /\ \A k \in 1 .. m : k \in 1 .. m + n /\ p[k] = o[k] /\ o[k] \in 1 .. b
        /\ m \in 1 .. m
    BY <1>1, <1>2, <1>4
  <2>2. /\ o[1] = 1
        /\ \A k \in 1 .. m : v[k] = s[o[k]] /\ (k > 1 => o[k] \in {o[k - 1], o[k - 1] + 1})
    BY <1>1, <1>2, <1>4, <2>1 DEF Follows
  <2>3. \A j \in 0 .. m : j > 0 => \A k \in 1 .. j : o[k] <= o[j]
    <3> DEFINE S == {j \in 0 .. m : j > 0 => \A k \in 1 .. j : o[k] <= o[j]}
    <3>1. ASSUME NEW j \in 1 .. m, j - 1 \in S PROVE j \in S
      <4>1. j > 1 => o[j - 1] \in Int /\ o[j] \in Int /\ o[j - 1] <= o[j]
        BY <1>1, <2>1, <2>2
      <4>2. o[j] \in Int /\ \A k \in 1 .. m : o[k] \in Int
        BY <2>1
      <4>3. ASSUME NEW k \in 1 .. j PROVE o[k] <= o[j]
        <5>1. CASE k = j
          BY <4>2, <5>1
        <5>2. CASE k # j
          <6>1. k \in 1 .. j - 1 /\ j - 1 > 0 /\ j > 1 /\ k \in 1 .. m
            BY <1>1, <5>2
          <6>2. o[k] <= o[j - 1]
            BY <3>1, <6>1
          <6> QED BY <4>1, <4>2, <6>1, <6>2
        <5> QED BY <5>1, <5>2
      <4>4. j \in 0 .. m
        BY <1>1
      <4> QED BY <4>3, <4>4
    <3>2. 0 \in S
      BY <1>1
    <3> HIDE DEF S
    <3>3. m \in Nat /\ \A i \in 1 .. m : i - 1 \in S => i \in S
      BY <1>1, <3>1
    <3> HIDE DEF m
    <3>4. \A j \in 0 .. m : j \in S
      BY <3>2, <3>3, Inductive
    <3> QED BY <3>4 DEF S
  <2>4. p \in [1 .. m -> 1 .. o[m]]
    <3>1. \A k \in 1 .. m : o[k] \in 1 .. o[m]
      BY <1>1, <1>4, <2>1, <2>3
    <3> QED BY <2>1, <3>1
  <2>5. Follows(p, t, s, 1, o[m])
    <3>1. 1 \in 1 .. m /\ \A k \in 1 .. m : k > 1 => k - 1 \in 1 .. m
      BY <1>1, <1>4
    <3> HIDE DEF p
    <3>2. p[1] = 1 /\ p[m] = o[m]
      BY <2>1, <2>2, <3>1
    <3>3. \A k \in 1 .. m : t[k] = s[p[k]] /\ (k > 1 => p[k] \in {p[k - 1], p[k - 1] + 1})
      BY <1>1, <2>1, <2>2, <3>1
    <3> HIDE DEF m
    <3> QED BY <1>4, <3>2, <3>3 DEF Follows, m
  <2>6. o[m] \in 0 .. b /\ o[m] \in Int /\ 1 \in Nat \ {0}
    BY <2>1
  <2> HIDE DEF p
  <2>7. Copies(t, s, 1, o[m])
    BY <2>4, <2>5, <2>6 DEF Copies
  <2> QED BY <2>6, <2>7
<1> QED BY <1>1, <1>3, <1>4

(* The first of some chunks copy the beginning of their text.              *)
LEMMA BeginningCopies ==
    ASSUME NEW cs, NEW bs, NEW b \in Nat, CopyText(cs, bs, 1, b), NEW k \in 0 .. Len(cs)
    PROVE  \E h \in 0 .. b : CopyText(SubSeq(cs, 1, k), bs, 1, h)
<1> DEFINE n == Len(cs)
           x == SubSeq(cs, 1, k)
           y == SubSeq(cs, k + 1, n)
<1>1. PICK T : cs \in Seq(T)
  BY DEF CopyText, Chunked, IsSeq
<1>2. n \in Nat /\ DOMAIN cs = 1 .. n /\ k \in 0 .. n
  BY <1>1
<1> HIDE DEF n
<1>3. /\ x \in Seq(T) /\ Len(x) = k /\ DOMAIN x = 1 .. k /\ \A i \in 1 .. k : i \in 1 .. n /\ x[i] = cs[i]
  BY <1>1, <1>2 DEF n
<1>4. /\ y \in Seq(T) /\ DOMAIN y = 1 .. n - k /\ \A i \in 1 .. n - k : k + i \in 1 .. n /\ y[i] = cs[k + i]
  BY <1>1, <1>2 DEF n
<1>5. x \o y = cs
  <2>1. 1 \in 1 .. Len(cs) + 1 /\ k \in 1 - 1 .. Len(cs) /\ Len(cs) \in k .. Len(cs)
    BY <1>2 DEF n
  <2>2. x \o y = SubSeq(cs, 1, Len(cs))
    BY <1>1, <2>1, ConcatAdjacentSubSeq DEF n
  <2> QED BY <1>1, <2>2, SubSeqFull
<1> HIDE DEF x, y
<1>6. Chunked(x) /\ Chunked(y)
  BY <1>2, <1>3, <1>4 DEF CopyText, Chunked, IsSeq
<1>7. Body(cs) = Body(x) \o Body(y) /\ Body(x) \in Seq(BlockName) /\ Body(y) \in Seq(BlockName)
  BY <1>5, <1>6, BodiesJoin, BodiesAre
<1>8. Copies(Body(x) \o Body(y), BlockIds(bs), 1, b)
  BY <1>7 DEF CopyText
<1>9. PICK h \in 0 .. b : Copies(Body(x), BlockIds(bs), 1, h)
  BY <1>7, <1>8, CopiesCut
<1> QED BY <1>6, <1>9 DEF CopyText, x

(* The windows of late chunking are slices with a path of their own.       *)
LEMMA SameBlocks ==
    ASSUME NEW cs, NEW bs, NEW a, NEW b, CopyText(cs, bs, a, b),
           NEW late, DOMAIN late = DOMAIN cs, late = [i \in DOMAIN late |-> late[i]],
           \A i \in DOMAIN cs : late[i].blocks = cs[i].blocks
    PROVE  CopyText(late, bs, a, b)
<1>1. Len(cs) \in Nat /\ DOMAIN cs = 1 .. Len(cs)
  BY BodiesAre DEF CopyText
<1>2. IsSeq(late)
  <2> DEFINE n == Len(cs)
  <2>1. n \in Int /\ DOMAIN late = 1 .. n
    BY <1>1
  <2> HIDE DEF n
  <2>2. late = [i \in 1 .. n |-> late[i]]
    BY <2>1
  <2> QED BY <2>1, <2>2, ByItem
<1>3. Chunked(late) /\ Bodies(late) = Bodies(cs)
  BY <1>2 DEF CopyText, Chunked, Bodies
<1> QED BY <1>3 DEF CopyText, Body

LEMMA HeadedIs ==
    ASSUME NEW i \in DOMAIN CleanSlices
    PROVE  Headed(CleanSlices[i]).blocks = CleanSlices[i].blocks
<1> DEFINE w == CleanSlices[i]
<1>1. \E blocks, path, start, end :
         w = [blocks |-> blocks, path |-> path, start |-> start, end |-> end]
  BY Zenon DEF CleanSlices, Slices
<1> HIDE DEF w
<1>2. PICK blocks, path, start, end :
         w = [blocks |-> blocks, path |-> path, start |-> start, end |-> end]
  BY <1>1
<1>3. \E way : Headed(w) = [w EXCEPT !.path = way]
  BY Zenon DEF Headed
<1>4. Headed(w).blocks = w.blocks
  BY <1>2, <1>3
<1> QED BY <1>4 DEF w

LEMMA CopyAssembled ==
    ASSUME CopyInv, NEW cs, NEW vecs, NEW late, Assemble(cs, vecs, late),
           Conserved(cs, doc, text) \/ (EndLost' /\ Begun(cs, doc, text))
    PROVE  CopyInv'
<1>1. /\ chunks' = cs /\ phase' \in {"failed", "saving"}
      /\ UNCHANGED <<doc, setup, attempt, text, rows>>
  BY Zenon DEF Assemble
<1> QED BY <1>1 DEF CopyInv

LEMMA CopyEncode ==
    ASSUME ContentInv, CopyInv, Encode
    PROVE  CopyInv'
<1>1. /\ phase = "encoding" /\ doc.strategy = "CONTENT" /\ ~setup.skip /\ Conserved(chunks, doc, text)
      /\ text.text \in Seq(Block)
  BY Zenon DEF Encode, CopyInv, ContentInv
<1>2. CASE /\ phase' = "embedding"
           /\ UNCHANGED <<doc, setup, attempt, text, chunks, vectors, todo, rows>>
  BY <1>1, <1>2 DEF CopyInv
<1>3. ASSUME NEW vecs \in LateVectors(Len(CleanSlices)), LateChunks(vecs) # <<>>,
             Assemble(LateChunks(vecs), vecs, TRUE)
      PROVE  CopyInv'
  <2> DEFINE late == LateChunks(vecs)
             n == Len(CleanSlices)
             m == Len(vecs)
             bs == Clean(text.text)
             first == SubSeq(CleanSlices, 1, m)
  <2>1. /\ IsSeq(CleanSlices) /\ IsSeq(late) /\ n \in Nat /\ m \in Nat /\ m \in {n, n - 1}
        /\ DOMAIN late = 1 .. m /\ LateFor(vecs, n)
        /\ \A i \in DOMAIN late : i \in DOMAIN CleanSlices /\ late[i] = Headed(CleanSlices[i])
    BY <1>1, <1>3, LateChunksAre DEF LateFor
  <2>2. Proper(text.text) /\ Source(doc, text) = bs
    BY <1>1 DEF Conserved, Source
  <2>3. Proper(bs)
    BY <2>2, SourceIsProper
  <2>4. CopyText(CleanSlices, bs, 1, Len(bs))
    BY <2>3, SlicesCopy, Zenon DEF CleanSlices
  <2>5. \A i \in DOMAIN late : late[i].blocks = CleanSlices[i].blocks
    BY <2>1, HeadedIs
  <2>6. late = [i \in DOMAIN late |-> late[i]]
    BY DEF LateChunks
  <2>7. Len(bs) \in Nat
    BY <2>3 DEF Proper
  <2> HIDE DEF late, n, bs
  <2>8. m \in 0 .. Len(CleanSlices)
    BY <2>1 DEF n
  <2>9. PICK h \in 0 .. Len(bs) : CopyText(first, bs, 1, h)
    BY <2>4, <2>7, <2>8, BeginningCopies
  <2>10. DOMAIN first = 1 .. m /\ \A i \in 1 .. m : first[i] = CleanSlices[i]
    <3>1. PICK T : CleanSlices \in Seq(T)
      BY <2>1 DEF IsSeq
    <3> QED BY <2>8, <3>1
  <2>11. CASE m = n
    <3>1. first = CleanSlices
      <4>1. PICK T : CleanSlices \in Seq(T)
        BY <2>1 DEF IsSeq
      <4> QED BY <2>11, <4>1, SubSeqFull DEF n
    <3>2. DOMAIN late = DOMAIN CleanSlices
      BY <2>1, <2>10, <3>1
    <3>3. CopyText(late, bs, 1, Len(bs))
      BY <2>4, <2>5, <2>6, <3>2, SameBlocks
    <3>4. Conserved(late, doc, text)
      BY <2>2, <3>3 DEF Conserved
    <3> QED BY <1>3, <3>4, CopyAssembled, Zenon DEF late
  <2>12. CASE m # n
    <3>1. EndLost'
      BY <1>1, <1>3, <2>12, LateEndIsLost DEF n
    <3> HIDE DEF first, m
    <3>2. CopyText(late, bs, 1, h)
      BY <2>1, <2>5, <2>6, <2>9, <2>10, SameBlocks
    <3>3. Begun(late, doc, text)
      BY <2>2, <3>2 DEF Begun
    <3> QED BY <1>3, <3>1, <3>3, CopyAssembled, Zenon DEF late
  <2> QED BY <2>11, <2>12
<1> QED BY <1>2, <1>3, EncodeBy

LEMMA CopyInvStep == ContentInv /\ CopyInv /\ [ContentNext]_contentVars => CopyInv'
<1> SUFFICES ASSUME ContentInv, CopyInv, [ContentNext]_contentVars PROVE CopyInv'
  OBVIOUS
<1>1. CASE UNCHANGED contentVars
  <2>1. UNCHANGED <<doc, setup, attempt, phase, text, chunks, vectors, todo, rows>>
    BY <1>1 DEF contentVars
  <2>2. EndLost' <=> EndLost
    BY <2>1, SameVectors
  <2> QED BY <2>1, <2>2 DEF CopyInv
<1>2. CASE Cleanup
  BY <1>2 DEF Cleanup, Fail, CopyInv, Cut
<1>3. CASE ReadContent \/ ReadFast \/ ReadPreProcessed
  BY <1>3, CopyRead
<1>4. CASE Encode
  BY <1>4, CopyEncode
<1>5. CASE Embed
  <2>1. phase = "embedding" /\ Conserved(chunks, doc, text)
    BY <1>5 DEF Embed, CopyInv, Cut
  <2>2. CASE \E vecs \in Outcomes(Embedded(chunks)) : Assemble(chunks, vecs, FALSE)
    BY <2>1, <2>2, CopyAssembled
  <2>3. CASE Fail
    BY <2>3 DEF Fail, CopyInv, Cut
  <2> QED BY <1>5, <2>2, <2>3 DEF Embed
<1>6. CASE SaveRows
  <2>1. CASE Fail
    BY <2>1 DEF Fail, CopyInv, Cut
  <2>2. CASE phase' \in {"saving", "processed"} /\ UNCHANGED <<doc, setup, attempt, text, chunks, vectors>>
    <3>1. (EndLost' <=> EndLost) /\ phase \in Cut
      BY <1>6, <2>2, SameVectors DEF SaveRows, Cut
    <3> QED BY <2>2, <3>1 DEF CopyInv
  <2>3. \/ Fail
        \/ phase' \in {"saving", "processed"} /\ UNCHANGED <<doc, setup, attempt, text, chunks, vectors>>
    BY <1>6, Zenon DEF SaveRows
  <2> QED BY <2>1, <2>2, <2>3
<1>7. CASE Again
  BY <1>7 DEF Again, CopyInv, Cut
<1> QED BY <1>1, <1>2, <1>3, <1>4, <1>5, <1>6, <1>7 DEF ContentNext

(* What the splitters cut is the text: the chunks of a document, put one   *)
(* after the other, are the blocks of its text in their order, none lost   *)
(* and none repeated but where a long one is cut, whichever way the file   *)
(* was read, the text split and the chunks embedded. Only the end of it is *)
(* lost, when Jina answers late chunking without one of the vectors.       *)
THEOREM ChunksAreTheText == ContentSpec => []TextConserved
<1>1. CopyInv => TextConserved
  <2> SUFFICES ASSUME CopyInv, phase \in Cut
               PROVE  LET kept == Collapsed(Body(chunks))
                          s == BlockIds(Source(doc, text))
                      IN kept = s \/ (EndLost /\ IsPrefix(kept, s))
    BY DEF TextConserved, Cut, Source, Body, Bodies
  <2> DEFINE bs == Source(doc, text)
             s == BlockIds(bs)
  <2>1. /\ Proper(bs)
        /\ \/ CopyText(chunks, bs, 1, Len(bs))
           \/ EndLost /\ \E h \in 0 .. Len(bs) : CopyText(chunks, bs, 1, h)
    BY SourceIsProper DEF CopyInv, Conserved, Begun
  <2>2. bs \in Seq(Block) /\ DOMAIN bs = 1 .. Len(bs) /\ Len(bs) \in Nat
    BY <2>1 DEF Proper
  <2> HIDE DEF bs
  <2>3. s \in Seq(BlockName) /\ Len(s) = Len(bs) /\ \A k \in 1 .. Len(bs) : s[k] = bs[k].id
    BY <2>2, IdsAreNames DEF BlockName
  <2> HIDE DEF s
  <2>4. DOMAIN s = 1 .. Len(bs)
    BY <2>2, <2>3
  <2>5. \A i, j \in DOMAIN s : s[i] = s[j] => i = j
    BY <2>1, <2>2, <2>3, <2>4 DEF Proper
  <2>6. ASSUME NEW h \in 0 .. Len(bs), CopyText(chunks, bs, 1, h)
        PROVE  Collapsed(Body(chunks)) = SubSeq(s, 1, h) /\ IsPrefix(SubSeq(s, 1, h), s)
    <3> DEFINE x == SubSeq(s, 1, h)
    <3>1. /\ x \in Seq(BlockName) /\ Len(x) = h /\ DOMAIN x = 1 .. h
          /\ \A k \in 1 .. h : k \in 1 .. Len(bs) /\ x[k] = s[k]
      BY <2>2, <2>3, <2>6
    <3>2. Copies(Body(chunks), s, 1, h)
      BY <2>6 DEF CopyText, s
    <3>3. IsPrefix(x, s)
      <4>1. SubSeq(x, 1, h) = x
        BY <3>1, SubSeqFull
      <4> QED BY <2>2, <2>3, <3>1, <4>1 DEF IsPrefix
    <3> HIDE DEF x
    <3>4. \A i, j \in DOMAIN x : x[i] = x[j] => i = j
      BY <2>4, <2>5, <3>1
    <3>5. Copies(Body(chunks), x, 1, Len(x))
      <4>1. PICK o \in [1 .. Len(Body(chunks)) -> 1 .. h] : Follows(o, Body(chunks), s, 1, h)
        BY <3>2 DEF Copies
      <4>2. \A k \in 1 .. Len(Body(chunks)) : x[o[k]] = s[o[k]]
        BY <3>1, <4>1
      <4>3. Follows(o, Body(chunks), x, 1, h)
        BY <4>1, <4>2 DEF Follows
      <4> QED BY <3>1, <3>2, <4>1, <4>3 DEF Copies
    <3> QED BY <3>1, <3>3, <3>4, <3>5, CollapsedIs DEF x
  <2>7. CASE CopyText(chunks, bs, 1, Len(bs))
    <3>1. Len(bs) \in 0 .. Len(bs)
      BY <2>2
    <3>2. Collapsed(Body(chunks)) = SubSeq(s, 1, Len(bs))
      BY <2>6, <2>7, <3>1
    <3> QED BY <2>3, <3>2, SubSeqFull DEF s, bs
  <2>8. CASE EndLost /\ \E h \in 0 .. Len(bs) : CopyText(chunks, bs, 1, h)
    <3>1. PICK h \in 0 .. Len(bs) : CopyText(chunks, bs, 1, h)
      BY <2>8
    <3>2. Collapsed(Body(chunks)) = SubSeq(s, 1, h) /\ IsPrefix(SubSeq(s, 1, h), s)
      BY <2>6, <3>1
    <3> QED BY <2>8, <3>2 DEF s, bs
  <2> QED BY <2>1, <2>7, <2>8
<1> QED BY <1>1, CopyInvInit, CopyInvStep, ContentInvariance, PTL DEF ContentSpec

-----------------------------------------------------------------------------
(* What is left of a text starts no later than it did.                     *)
LEMMA OffsetsStep ==
    ASSUME NEW bs, Proper(bs)
    PROVE  /\ \A i \in 1 .. Len(bs) : i + 1 \in 1 .. Len(bs)
                 => Offset(bs, i + 1) = Offset(bs, i) + bs[i].len + Sep
           /\ \A i, j \in 1 .. Len(bs) : i < j => Offset(bs, i) + bs[i].len + Sep <= Offset(bs, j)
<1> DEFINE n == Len(bs)
<1>1. bs \in Seq(Block) /\ n \in Nat
  BY DEF Proper
<1>2. PICK u : /\ EndsAt(u, bs)
               /\ \A i \in 1 .. n : Offset(bs, i) = u[i - 1] + Sep
               /\ \A i \in 1 .. n : Offset(bs, i) + bs[i].len = u[i]
  BY <1>1, OffsetsAre
<1>3. /\ \A i \in 1 .. n : Offset(bs, i) \in Nat /\ bs[i].len \in Nat \ {0}
      /\ \A i, j \in 1 .. n : i < j => Offset(bs, i) + bs[i].len < Offset(bs, j)
  BY OffsetsGrow
<1> HIDE DEF n
<1>4. ASSUME NEW i \in 1 .. n, i + 1 \in 1 .. n
      PROVE  Offset(bs, i + 1) = Offset(bs, i) + bs[i].len + Sep
  <2> DEFINE k == i + 1
  <2>1. k \in 1 .. n /\ k - 1 = i
    BY <1>1, <1>4
  <2> HIDE DEF k
  <2>2. Offset(bs, k) = u[i] + Sep
    BY <1>2, <2>1
  <2> QED BY <1>2, <2>2 DEF k
<1>5. ASSUME NEW i \in 1 .. n, NEW j \in 1 .. n, i < j
      PROVE  Offset(bs, i) + bs[i].len + Sep <= Offset(bs, j)
  <2> DEFINE k == i + 1
  <2>1. k \in 1 .. n /\ (k = j \/ k < j)
    BY <1>1, <1>5
  <2>2. Offset(bs, k) = Offset(bs, i) + bs[i].len + Sep
    BY <1>4, <2>1
  <2> HIDE DEF k
  <2>3. Offset(bs, k) \in Nat /\ bs[k].len \in Nat /\ Offset(bs, j) \in Nat
    BY <1>3, <2>1
  <2>4. k < j => Offset(bs, k) + bs[k].len < Offset(bs, j)
    BY <1>3, <2>1
  <2>5. Offset(bs, k) <= Offset(bs, j)
    BY <2>1, <2>3, <2>4
  <2> QED BY <2>2, <2>5
<1> QED BY <1>4, <1>5 DEF n

LEMMA LeftStartsEarlier ==
    ASSUME NEW s, Proper(s), NEW t \in Seq(Block), NEW o, Part(o, t, s), NEW k \in 1 .. Len(t)
    PROVE  Offset(t, k) <= Offset(s, o[k])
<1> DEFINE n == Len(t)
<1>1. n \in Nat /\ \A i \in 1 .. n : o[i] \in 1 .. Len(s) /\ t[i] = s[o[i]]
  BY DEF Part
<1>2. Proper(t)
  <2>1. Left(t, s)
    BY DEF Left
  <2> QED BY <2>1, LeftIsProper
<1>3. \A i \in 1 .. Len(s) : Offset(s, i) \in Nat /\ s[i].len \in Nat \ {0}
  BY OffsetsGrow
<1>4. \A i \in 1 .. n : Offset(t, i) \in Nat /\ (n > 0 => Offset(t, 1) = 0)
  BY <1>2, OffsetsGrow
<1> HIDE DEF n
<1> DEFINE S == {i \in 0 .. n : i > 0 => Offset(t, i) <= Offset(s, o[i])}
<1>5. ASSUME NEW i \in 1 .. n, i - 1 \in S PROVE i \in S
  <2>1. i \in 0 .. n /\ o[i] \in 1 .. Len(s)
    BY <1>1
  <2>2. CASE i = 1
    <3>1. Offset(t, 1) = 0 /\ Offset(s, o[1]) \in Nat
      BY <1>1, <1>3, <1>4, <2>1, <2>2
    <3> QED BY <2>1, <2>2, <3>1
  <2>3. CASE i # 1
    <3> DEFINE h == i - 1
    <3>1. h \in 1 .. n /\ h > 0 /\ h + 1 = i /\ h < i
      BY <1>1, <2>3
    <3> HIDE DEF h
    <3>2. o[h] < o[i] /\ o[h] \in 1 .. Len(s) /\ t[h] = s[o[h]]
      BY <1>1, <3>1 DEF Part, n
    <3>3. Offset(t, h) <= Offset(s, o[h])
      BY <1>5, <3>1 DEF h
    <3>4. Offset(t, i) = Offset(t, h) + t[h].len + Sep
      BY <1>2, <3>1, OffsetsStep DEF n
    <3>5. Offset(s, o[h]) + s[o[h]].len + Sep <= Offset(s, o[i])
      BY <2>1, <3>2, OffsetsStep
    <3>6. /\ Offset(s, o[h]) \in Nat /\ Offset(s, o[i]) \in Nat /\ s[o[h]].len \in Nat
          /\ Offset(t, h) \in Nat
      BY <1>3, <1>4, <2>1, <3>1, <3>2
    <3>7. Offset(t, i) <= Offset(s, o[i])
      <4> DEFINE x == Offset(t, h)
                 y == Offset(s, o[h])
                 w == s[o[h]].len
      <4>1. Offset(t, i) = x + w + Sep /\ y + w + Sep <= Offset(s, o[i]) /\ x <= y
        BY <3>2, <3>3, <3>4, <3>5
      <4>2. x \in Nat /\ y \in Nat /\ w \in Nat /\ Sep \in Nat
        BY <3>6 DEF Sep
      <4> HIDE DEF x, y, w
      <4> QED BY <3>6, <4>1, <4>2
    <3> QED BY <2>1, <3>7
  <2> QED BY <2>2, <2>3
<1>6. 0 \in S
  BY <1>1
<1> HIDE DEF S
<1>7. \A i \in 0 .. n : i \in S
  BY <1>1, <1>5, <1>6, Inductive
<1>8. k \in 0 .. n /\ k > 0
  BY <1>1 DEF n
<1> QED BY <1>7, <1>8 DEF S

(* Some consecutive blocks span what lies between their offsets.           *)
LEMMA SpanFrom ==
    ASSUME NEW bs, Proper(bs), NEW a \in 1 .. Len(bs), NEW b \in a .. Len(bs)
    PROVE  Offset(bs, a) + Span(SubSeq(bs, a, b)) = Offset(bs, b) + bs[b].len
<1> DEFINE t == SubSeq(bs, a, b)
           m == b - a + 1
<1>1. bs \in Seq(Block) /\ Len(bs) \in Nat /\ a \in Nat \ {0} /\ b \in 1 .. Len(bs) /\ a <= b
  BY DEF Proper
<1>2. t \in Seq(Block) /\ Len(t) = m /\ m \in Nat \ {0} /\ \A k \in 1 .. m : t[k] = bs[a + k - 1]
  BY <1>1
<1>3. PICK u : /\ EndsAt(u, bs)
               /\ \A i \in 1 .. Len(bs) : Offset(bs, i) = u[i - 1] + Sep
               /\ \A i \in 1 .. Len(bs) : Offset(bs, i) + bs[i].len = u[i]
  BY <1>1, OffsetsAre
<1> HIDE DEF t
<1>4. t # <<>>
  BY <1>2
<1>5. PICK v : EndsAt(v, t) /\ Span(t) = v[m]
  BY <1>2, <1>4, SpanBy
<1>6. v[0] = -Sep /\ \A k \in 1 .. m : v[k] = v[k - 1] + Sep + t[k].len /\ v[k - 1] \in Int
  <2>1. \A k \in 1 .. m : k - 1 \in 0 .. m
    BY <1>2
  <2> QED BY <1>2, <1>5, <2>1 DEF EndsAt
<1>7. \A i \in 0 .. Len(bs) : u[i] \in Int
  BY <1>3 DEF EndsAt
<1>8. \A i \in 1 .. Len(bs) : u[i] = u[i - 1] + Sep + bs[i].len
  BY <1>3 DEF EndsAt
<1> DEFINE S == {k \in 0 .. m : v[k] + u[a - 1] + Sep = u[a + k - 1]}
<1>9. ASSUME NEW k \in 1 .. m, k - 1 \in S PROVE k \in S
  <2> DEFINE i == a + k - 1
  <2>1. i \in 1 .. Len(bs) /\ i - 1 = a + (k - 1) - 1 /\ i - 1 \in 0 .. Len(bs) /\ k \in 0 .. m
        /\ a - 1 \in 0 .. Len(bs)
    BY <1>1, <1>2
  <2>2. t[k] = bs[i]
    BY <1>2
  <2> HIDE DEF i, m
  <2>3. u[i] = u[i - 1] + Sep + bs[i].len
    BY <1>8, <2>1
  <2>4. v[k - 1] + u[a - 1] + Sep = u[i - 1]
    BY <1>9, <2>1
  <2>5. bs[i] \in Block
    BY <1>1, <2>1
  <2>6. v[k] = v[k - 1] + Sep + t[k].len /\ v[k - 1] \in Int
    BY <1>6
  <2>7. bs[i].len \in Int
    BY <2>5 DEF Block
  <2>8. v[k] + u[a - 1] + Sep = u[i]
    <3>1. u[i - 1] \in Int /\ u[a - 1] \in Int
      BY <1>7, <2>1
    <3>2. v[k] = v[k - 1] + Sep + bs[i].len /\ v[k - 1] \in Int
      BY <2>2, <2>6
    <3> DEFINE p == v[k - 1]
               q == u[a - 1]
               w == u[i - 1]
               l == bs[i].len
    <3>3. p \in Int /\ q \in Int /\ w \in Int /\ l \in Int /\ p + q + Sep = w
          /\ u[i] = w + Sep + l /\ v[k] = p + Sep + l
      BY <2>3, <2>4, <2>7, <3>1, <3>2
    <3> HIDE DEF p, q, w, l
    <3>4. v[k] + q + Sep = u[i]
      BY <3>3 DEF Sep
    <3> QED BY <3>4 DEF q
  <2> QED BY <2>1, <2>8 DEF i
<1>10. 0 \in S /\ m \in 0 .. m
  <2>1. a - 1 \in 0 .. Len(bs) /\ a + 0 - 1 = a - 1 /\ 0 \in 0 .. m /\ m \in 0 .. m
    BY <1>1, <1>2
  <2>2. u[a - 1] \in Int
    BY <1>7, <2>1
  <2> HIDE DEF m
  <2> QED BY <1>6, <2>1, <2>2 DEF Sep
<1>11. a + m - 1 = b
  BY <1>1
<1> HIDE DEF S, m
<1>12. m \in S
  BY <1>2, <1>9, <1>10, Inductive
<1>13. v[m] + u[a - 1] + Sep = u[b]
  BY <1>11, <1>12 DEF S
<1>14. Offset(bs, a) = u[a - 1] + Sep /\ Offset(bs, b) + bs[b].len = u[b]
  BY <1>1, <1>3
<1>15. v[m] \in Int /\ u[a - 1] \in Int
  <2>1. a - 1 \in 0 .. Len(bs)
    BY <1>1
  <2>2. v[m] \in Int
    BY <1>2, <1>5 DEF EndsAt
  <2> QED BY <1>7, <2>1, <2>2
<1> QED BY <1>5, <1>13, <1>14, <1>15 DEF t, Sep

-----------------------------------------------------------------------------
(* Sequences put one after the other begin with those put together so far. *)
LEMMA Beginnings ==
    ASSUME NEW T, NEW s \in Seq(Seq(T)), NEW g, PutTogether(g, s, T), NEW i \in 0 .. Len(s)
    PROVE  /\ Len(g[i]) <= Len(g[Len(s)])
           /\ \A k \in 1 .. Len(g[i]) : g[i][k] = g[Len(s)][k]
<1> DEFINE n == Len(s)
           whole == g[n]
           Begins(j) == Len(g[j]) <= Len(whole) /\ \A k \in 1 .. Len(g[j]) : g[j][k] = whole[k]
           S == {j \in 0 .. n : Begins(n - j)}
<1>1. /\ n \in Nat /\ \A j \in 1 .. n : s[j] \in Seq(T)
      /\ \A j \in 0 .. n : g[j] \in Seq(T)
      /\ \A j \in 1 .. n : g[j] = g[j - 1] \o s[j]
  <2> DEFINE X == Seq(T)
  <2>1. n \in Nat /\ \A j \in 1 .. n : s[j] \in X
    OBVIOUS
  <2>2. g \in [0 .. n -> X] /\ \A j \in 1 .. n : g[j] = g[j - 1] \o s[j]
    BY DEF PutTogether
  <2> HIDE DEF X, n
  <2>3. \A j \in 0 .. n : g[j] \in X
    BY <2>2
  <2> QED BY <2>1, <2>2, <2>3 DEF X
<1> HIDE DEF n, whole
<1>2. 0 \in S
  <2>1. n - 0 = n /\ 0 \in 0 .. n /\ n \in 0 .. n
    BY <1>1
  <2>2. Len(whole) \in Nat
    BY <1>1, <2>1 DEF whole
  <2>3. Begins(n)
    BY <2>2 DEF whole
  <2> HIDE DEF Begins
  <2> QED BY <2>1, <2>3
<1>3. ASSUME NEW j \in 1 .. n, j - 1 \in S PROVE j \in S
  <2> DEFINE b == n - (j - 1)
             a == n - j
  <2>1. b \in 1 .. n /\ b - 1 = a /\ a \in 0 .. n /\ b \in 0 .. n /\ j \in 0 .. n
    BY <1>1
  <2>2. Begins(b)
    BY <1>3
  <2> HIDE DEF a, b
  <2>3. g[b] = g[a] \o s[b] /\ g[a] \in Seq(T) /\ s[b] \in Seq(T) /\ g[b] \in Seq(T)
    BY <1>1, <2>1
  <2>4. /\ Len(g[a] \o s[b]) = Len(g[a]) + Len(s[b])
        /\ \A k \in 1 .. Len(g[a]) : (g[a] \o s[b])[k] = g[a][k]
    <3> DEFINE x == g[a]
               y == s[b]
    <3>1. x \in Seq(T) /\ y \in Seq(T)
      BY <2>3
    <3> HIDE DEF x, y
    <3>2. Len(x \o y) = Len(x) + Len(y) /\ \A k \in 1 .. Len(x) : (x \o y)[k] = x[k]
      BY ONLY <3>1, ConcatIs
    <3> QED BY <3>2 DEF x, y
  <2>5. Len(g[b]) = Len(g[a]) + Len(s[b]) /\ \A k \in 1 .. Len(g[a]) : g[b][k] = g[a][k]
    BY <2>3, <2>4
  <2>6. Len(g[a]) \in Nat /\ Len(s[b]) \in Nat /\ Len(g[b]) \in Nat /\ Len(whole) \in Nat
    <3>1. n \in 0 .. n
      BY <1>1
    <3>2. whole \in Seq(T)
      BY <1>1, <3>1 DEF whole
    <3>3. \A z \in Seq(T) : Len(z) \in Nat
      OBVIOUS
    <3> QED BY <2>3, <3>2, <3>3
  <2>7. Begins(a)
    <3> DEFINE x == Len(g[a])
               y == Len(s[b])
               z == Len(g[b])
               w == Len(whole)
    <3>1. /\ x \in Nat /\ y \in Nat /\ z \in Nat /\ w \in Nat /\ z = x + y /\ z <= w
          /\ \A k \in 1 .. z : g[b][k] = whole[k]
          /\ \A k \in 1 .. x : g[b][k] = g[a][k]
      BY <2>2, <2>5, <2>6
    <3> HIDE DEF x, y, z, w
    <3>2. x <= w /\ \A k \in 1 .. x : k \in 1 .. z
      BY ONLY <3>1
    <3>3. \A k \in 1 .. x : g[a][k] = whole[k]
      BY <3>1, <3>2
    <3>4. Len(g[a]) <= Len(whole) /\ \A k \in 1 .. Len(g[a]) : g[a][k] = whole[k]
      BY <3>2, <3>3 DEF x, w
    <3> QED BY <3>4
  <2> HIDE DEF Begins
  <2> QED BY <2>1, <2>7 DEF a
<1> HIDE DEF S
<1>4. \A j \in 0 .. n : j \in S
  BY <1>1, <1>2, <1>3, Inductive
<1> DEFINE h == n - i
<1>5. h \in 0 .. n /\ n - h = i
  BY <1>1 DEF n
<1> HIDE DEF h
<1>6. h \in S
  BY <1>4, <1>5
<1>7. Begins(n - h)
  <2> HIDE DEF Begins
  <2> QED BY <1>6 DEF S
<1>8. Begins(i)
  BY <1>5, <1>7
<1> QED BY <1>8 DEF whole, n

LEMMA PieceIs ==
    ASSUME NEW T, NEW s \in Seq(T), NEW a \in 1 .. Len(s), NEW b \in a .. Len(s)
    PROVE  /\ SubSeq(s, a, b) \in Seq(T) /\ Len(SubSeq(s, a, b)) = b - a + 1
           /\ \A k \in 1 .. b - a + 1 : SubSeq(s, a, b)[k] = s[a + k - 1]
OBVIOUS

(* Groups that are, one after the other, consecutive blocks of a text.     *)
LEMMA GroupsAre ==
    ASSUME NEW bs \in Seq(Block), NEW a \in 1 .. Len(bs), NEW b \in a .. Len(bs),
           NEW s \in Seq(Seq(Block)), FlattenSeq(s) = SubSeq(bs, a, b),
           \A i \in 1 .. Len(s) : s[i] # <<>>
    PROVE  \E p \in [1 .. Len(s) -> a .. b] :
             /\ Len(s) > 0 => p[1] = a
             /\ \A i \in 1 .. Len(s) : /\ p[i] + Len(s[i]) - 1 \in p[i] .. b
                                       /\ s[i] = SubSeq(bs, p[i], p[i] + Len(s[i]) - 1)
             /\ \A i \in 1 .. Len(s) : i > 1 => p[i] = p[i - 1] + Len(s[i - 1])
<1> DEFINE n == Len(s)
           t == SubSeq(bs, a, b)
           m == b - a + 1
<1>1. n \in Nat /\ \A i \in 1 .. n : s[i] \in Seq(Block)
  OBVIOUS
<1>2. /\ t \in Seq(Block) /\ Len(t) = m /\ m \in Nat \ {0} /\ \A k \in 1 .. m : t[k] = bs[a + k - 1]
      /\ a \in Nat \ {0} /\ b \in Nat /\ a <= b /\ b <= Len(bs)
  OBVIOUS
<1> HIDE DEF t, n
<1>3. PICK g : PutTogether(g, s, Block) /\ g[n] = t
  BY FlattenBy DEF t, n
<1>4. /\ g \in [0 .. n -> Seq(Block)] /\ g[0] = <<>>
      /\ \A i \in 1 .. n : g[i] = g[i - 1] \o s[i]
  BY <1>3 DEF PutTogether, n
<1>5. ASSUME NEW i \in 0 .. n
      PROVE  /\ g[i] \in Seq(Block) /\ Len(g[i]) \in Nat /\ Len(g[i]) <= m
             /\ \A k \in 1 .. Len(g[i]) : g[i][k] = t[k]
  <2>1. Len(g[i]) <= Len(g[n]) /\ \A k \in 1 .. Len(g[i]) : g[i][k] = g[n][k]
    <3>1. PutTogether(g, s, Block) /\ s \in Seq(Seq(Block)) /\ i \in 0 .. Len(s)
      BY <1>3 DEF n
    <3>2. Len(g[i]) <= Len(g[Len(s)]) /\ \A k \in 1 .. Len(g[i]) : g[i][k] = g[Len(s)][k]
      BY ONLY <3>1, Beginnings
    <3> QED BY <3>2 DEF n
  <2>2. g[i] \in Seq(Block)
    BY <1>4
  <2>3. Len(g[i]) \in Nat
    BY <2>2
  <2> QED BY <1>2, <1>3, <2>1, <2>2, <2>3
<1> DEFINE p == [i \in 1 .. n |-> a + Len(g[i - 1])]
<1>6. ASSUME NEW i \in 1 .. n
      PROVE  /\ p[i] \in a .. b /\ p[i] + Len(s[i]) - 1 \in p[i] .. b
             /\ s[i] = SubSeq(bs, p[i], p[i] + Len(s[i]) - 1)
             /\ Len(g[i]) = Len(g[i - 1]) + Len(s[i])
  <2>1. i - 1 \in 0 .. n /\ i \in 0 .. n
    BY <1>1
  <2> DEFINE x == g[i - 1]
             y == s[i]
             e == Len(x)
             q == a + e
             l == Len(y)
  <2>2. x \in Seq(Block) /\ y \in Seq(Block) /\ y # <<>> /\ g[i] = x \o y /\ p[i] = q
    BY <1>1, <1>4, <1>5, <2>1 DEF n
  <2> HIDE DEF p, x, y
  <2>3. e \in Nat /\ l \in Nat \ {0} /\ y = [k \in 1 .. l |-> y[k]]
    BY <2>2
  <2>4. /\ Len(x \o y) = e + l
        /\ \A k \in 1 .. l : (x \o y)[e + k] = y[k]
    <3>1. x \in Seq(Block) /\ y \in Seq(Block)
      BY <2>2
    <3> QED BY ONLY <3>1, ConcatIs
  <2>5. Len(g[i]) = e + l /\ e + l <= m
    BY <1>5, <2>1, <2>2, <2>4
  <2> HIDE DEF l, e
  <2>6. q \in a .. b /\ q + l - 1 \in q .. b
    <3>1. a \in Nat \ {0} /\ b \in Nat /\ e \in Nat /\ l \in Nat \ {0} /\ e + l <= m
      BY <1>2, <2>3, <2>5
    <3> QED BY <3>1
  <2>7. ASSUME NEW k \in 1 .. l PROVE y[k] = bs[q + k - 1]
    <3>0. a \in Nat \ {0} /\ b \in Nat /\ e \in Nat /\ l \in Nat \ {0} /\ e + l <= m
      BY <1>2, <2>3, <2>5
    <3>1. e + k \in 1 .. e + l /\ e + k \in 1 .. m
      BY <3>0
    <3>2. y[k] = t[e + k]
      <4>1. y[k] = g[i][e + k]
        BY <2>2, <2>4
      <4>2. g[i][e + k] = t[e + k]
        BY <1>5, <2>1, <2>5, <3>1
      <4> QED BY <4>1, <4>2
    <3>3. t[e + k] = bs[a + (e + k) - 1] /\ a + (e + k) - 1 = q + k - 1
      <4> DEFINE r == e + k
      <4>1. t[r] = bs[a + r - 1]
        BY <1>2, <3>1
      <4>2. a + r - 1 = q + k - 1
        BY <3>0
      <4> QED BY <4>1, <4>2
    <3> QED BY <3>2, <3>3
  <2> HIDE DEF q
  <2>8. q \in 1 .. Len(bs) /\ q + l - 1 \in q .. Len(bs) /\ q + l - 1 - q + 1 = l
    <3>1. a \in Nat \ {0} /\ b \in Nat /\ b <= Len(bs) /\ l \in Nat \ {0} /\ Len(bs) \in Nat
      BY <1>2, <2>3
    <3> QED BY ONLY <2>6, <3>1
  <2>9. y = SubSeq(bs, q, q + l - 1)
    <3> DEFINE r == q + l - 1
               z == SubSeq(bs, q, r)
    <3>1. z \in Seq(Block) /\ Len(z) = r - q + 1 /\ \A k \in 1 .. r - q + 1 : z[k] = bs[q + k - 1]
      <4>1. r \in q .. Len(bs)
        BY <2>8
      <4> HIDE DEF r
      <4> QED BY <2>8, <4>1, PieceIs
    <3>2. r - q + 1 = l
      <4>1. q \in Int /\ l \in Int
        BY <2>3, <2>8
      <4> QED BY ONLY <4>1 DEF r
    <3> HIDE DEF z, r
    <3>3. z \in Seq(Block) /\ Len(z) = l /\ \A k \in 1 .. l : z[k] = bs[q + k - 1]
      BY <3>1, <3>2
    <3>4. y \in Seq(Block) /\ Len(y) = l
      BY <2>2 DEF l
    <3>5. y = z
      BY ONLY <2>7, <3>3, <3>4, SeqEqual
    <3> QED BY <3>5 DEF z, r
  <2>10. Len(g[i]) = Len(g[i - 1]) + Len(s[i])
    BY <2>5 DEF x, y, e, l
  <2> QED BY <2>2, <2>6, <2>9, <2>10 DEF y, l
<1>7. n > 0 => p[1] = a
  <2>1. n > 0 => 1 \in 1 .. n
    BY <1>1
  <2>2. 1 - 1 = 0 /\ Len(<<>>) = 0 /\ a + 0 = a
    BY <1>2
  <2> QED BY <1>4, <2>1, <2>2
<1>8. ASSUME NEW i \in 1 .. n, i > 1 PROVE p[i] = p[i - 1] + Len(s[i - 1])
  <2> DEFINE h == i - 1
  <2>1. h \in 1 .. n /\ h - 1 \in 0 .. n
    BY <1>1, <1>8
  <2>2. p[i] = a + Len(g[h])
    OBVIOUS
  <2> HIDE DEF h
  <2>3. p[h] = a + Len(g[h - 1]) /\ Len(g[h]) = Len(g[h - 1]) + Len(s[h])
    BY <1>6, <2>1
  <2>4. Len(g[h - 1]) \in Nat /\ Len(s[h]) \in Nat
    BY <1>1, <1>5, <2>1
  <2> DEFINE x == Len(g[h - 1])
             y == Len(s[h])
             z == Len(g[h])
  <2> HIDE DEF p, x, y, z
  <2>5. p[i] = p[h] + y
    <3>1. p[i] = a + z /\ p[h] = a + x /\ z = x + y /\ x \in Nat /\ y \in Nat /\ a \in Nat
      BY <1>2, <2>2, <2>3, <2>4 DEF x, y, z
    <3> QED BY ONLY <3>1
  <2> QED BY <2>5 DEF h, y
<1>9. p \in [1 .. n -> a .. b]
  BY <1>6
<1> HIDE DEF p
<1> QED BY <1>6, <1>7, <1>8, <1>9 DEF n

(* A chunk that starts with a block of a text is where that block is.      *)
Starts(c, bs) ==
    c.blocks # <<>> /\ \E j \in 1 .. Len(bs) : c.blocks[1] = bs[j] /\ c.start = Offset(bs, j)

LEMMA WindowsStart ==
    ASSUME NEW bs, Proper(bs), NEW a \in 1 .. Len(bs), NEW b \in a .. Len(bs),
           NEW s \in Seq(Seq(Block)), FlattenSeq(s) = SubSeq(bs, a, b),
           \A i \in 1 .. Len(s) : s[i] # <<>>, NEW path
    PROVE  \A i \in DOMAIN Windows(s, Offset(bs, a), path) :
             Starts(Windows(s, Offset(bs, a), path)[i], bs)
<1> DEFINE n == Len(s)
           base == Offset(bs, a)
           w == Windows(s, base, path)
           next(f, i) == IF i = 1 THEN base ELSE f[i - 1] + Span(s[i - 1]) + Sep
           start == CHOOSE f : f = [i \in 1 .. n |-> next(f, i)]
<1>1. bs \in Seq(Block) /\ Len(bs) \in Nat /\ n \in Nat /\ \A i \in 1 .. n : s[i] \in Seq(Block)
  BY DEF Proper
<1>2. PICK p \in [1 .. n -> a .. b] :
             /\ n > 0 => p[1] = a
             /\ \A i \in 1 .. n : /\ p[i] + Len(s[i]) - 1 \in p[i] .. b
                                  /\ s[i] = SubSeq(bs, p[i], p[i] + Len(s[i]) - 1)
             /\ \A i \in 1 .. n : i > 1 => p[i] = p[i - 1] + Len(s[i - 1])
  BY <1>1, GroupsAre
<1> DEFINE at == [i \in 1 .. n |-> Offset(bs, p[i])]
<1>3. DOMAIN w = 1 .. n /\ \A i \in 1 .. n : w[i].blocks = s[i] /\ w[i].start = start[i]
  BY DEF Windows
<1> HIDE DEF w, n, base
<1>4. \A i \in 1 .. n : p[i] \in 1 .. Len(bs)
  <2>1. \A q \in a .. b : q \in 1 .. Len(bs)
    BY <1>1
  <2> QED BY <2>1
<1>5. ASSUME NEW i \in 1 .. n, i > 1 PROVE at[i] = at[i - 1] + Span(s[i - 1]) + Sep
  <2> DEFINE h == i - 1
             q == p[h]
             l == Len(s[h])
             r == q + l - 1
  <2>1. h \in 1 .. n /\ at[i] = Offset(bs, p[i]) /\ at[h] = Offset(bs, q)
    BY <1>1, <1>5
  <2>2. p[i] = q + l /\ p[i] \in 1 .. Len(bs)
    BY <1>2, <1>4, <1>5
  <2> HIDE DEF h, at, l
  <2>3. q \in 1 .. Len(bs) /\ r \in q .. b /\ s[h] = SubSeq(bs, q, r) /\ s[h] \in Seq(Block)
    BY <1>1, <1>2, <1>4, <2>1 DEF l
  <2> HIDE DEF q
  <2>4. l \in Nat /\ Len(bs) \in Nat /\ b \in Int /\ b <= Len(bs) /\ q \in Nat
    <3>1. l \in Nat
      BY <2>3 DEF l
    <3> QED BY <1>1, <2>3, <3>1
  <2>5. r \in q .. Len(bs) /\ r \in 1 .. Len(bs) /\ r + 1 = p[i] /\ r + 1 \in 1 .. Len(bs)
    BY <2>2, <2>3, <2>4
  <2> HIDE DEF r
  <2>6. Offset(bs, q) + Span(SubSeq(bs, q, r)) = Offset(bs, r) + bs[r].len
    BY <2>3, <2>5, SpanFrom
  <2>7. Offset(bs, r + 1) = Offset(bs, r) + bs[r].len + Sep
    BY <2>5, OffsetsStep
  <2>8. at[i] = at[h] + Span(s[h]) + Sep
    BY <2>1, <2>3, <2>5, <2>6, <2>7
  <2> QED BY <2>8 DEF h
<1>6. n > 0 => at[1] = base
  <2>1. n > 0 => 1 \in 1 .. n
    BY <1>1
  <2> QED BY <1>2, <2>1 DEF base
<1>7. at = [i \in 1 .. n |-> next(at, i)]
  <2>1. ASSUME NEW i \in 1 .. n PROVE at[i] = next(at, i)
    <3>1. n > 0 /\ (i = 1 \/ i > 1)
      BY <1>1
    <3> QED BY <1>5, <1>6, <3>1
  <2>2. at = [i \in 1 .. n |-> at[i]]
    OBVIOUS
  <2> HIDE DEF at, next
  <2> QED BY <2>1, <2>2
<1> HIDE DEF at
<1>8. start = [i \in 1 .. n |-> next(start, i)]
  <2> HIDE DEF next
  <2> QED BY <1>7
<1> HIDE DEF start
<1> DEFINE S == {i \in 0 .. n : i > 0 => start[i] = at[i]}
<1>9. ASSUME NEW i \in 1 .. n, i - 1 \in S PROVE i \in S
  <2>1. i \in 0 .. n /\ start[i] = next(start, i)
    <3>1. i \in 0 .. n
      BY <1>1
    <3> HIDE DEF next
    <3> QED BY <1>8, <3>1
  <2>2. CASE i = 1
    <3>1. n > 0
      BY <1>1
    <3> QED BY <1>6, <2>1, <2>2, <3>1
  <2>3. CASE i # 1
    <3>1. i > 1 /\ i - 1 > 0
      BY <2>3
    <3>2. start[i - 1] = at[i - 1]
      BY <1>9, <3>1
    <3> QED BY <1>5, <2>1, <2>3, <3>1, <3>2
  <2> QED BY <2>2, <2>3
<1>10. 0 \in S
  BY <1>1
<1> HIDE DEF S
<1>11. \A i \in 0 .. n : i \in S
  BY <1>1, <1>9, <1>10, Inductive
<1>12. ASSUME NEW i \in 1 .. n PROVE Starts(w[i], bs)
  <2>1. i \in 0 .. n /\ i > 0
    BY <1>1
  <2>2. start[i] = at[i]
    BY <1>11, <2>1 DEF S
  <2>3. w[i].start = Offset(bs, p[i])
    BY <1>3, <2>2 DEF at
  <2> DEFINE q == p[i]
             l == Len(s[i])
             r == q + l - 1
  <2>4. r \in q .. b /\ s[i] = SubSeq(bs, q, r) /\ q \in 1 .. Len(bs)
    BY <1>2, <1>4
  <2> HIDE DEF q, r
  <2>5. r \in q .. Len(bs)
    BY <1>1, <2>4
  <2>6. 1 \in 1 .. r - q + 1 /\ q + 1 - 1 = q
    <3>1. q \in Int /\ r \in Int /\ q <= r
      BY <1>1, <2>4, <2>5
    <3> QED BY ONLY <3>1
  <2>7. SubSeq(bs, q, r)[1] = bs[q + 1 - 1]
    BY <1>1, <2>4, <2>5, <2>6, PieceIs
  <2>8. w[i].blocks # <<>> /\ w[i].blocks[1] = bs[q]
    BY <1>3, <2>4, <2>6, <2>7 DEF n
  <2> QED BY <2>3, <2>4, <2>8 DEF Starts, q
<1> QED BY <1>3, <1>12 DEF w, base

AllStart(cs, bs) == IsSeq(cs) /\ \A i \in DOMAIN cs : Starts(cs[i], bs)

LEMMA NoneStart ==
    ASSUME NEW bs
    PROVE  AllStart(<<>>, bs)
<1>1. IsSeq(<<>>) /\ DOMAIN <<>> = {}
  BY EmptyIsSeq
<1> QED BY <1>1 DEF AllStart

LEMMA StartsJoin ==
    ASSUME NEW cs, NEW ds, NEW bs, AllStart(cs, bs), AllStart(ds, bs)
    PROVE  AllStart(cs \o ds, bs)
<1> DEFINE m == Len(cs)
           n == Len(ds)
           z == cs \o ds
<1>1. IsSeq(cs) /\ IsSeq(ds)
  BY DEF AllStart
<1>2. /\ IsSeq(z) /\ m \in Nat /\ n \in Nat
      /\ DOMAIN cs = 1 .. m /\ DOMAIN ds = 1 .. n /\ DOMAIN z = 1 .. m + n
      /\ \A k \in 1 .. m : z[k] = cs[k]
      /\ \A k \in 1 .. n : z[m + k] = ds[k]
  BY <1>1, JoinedIs
<1> HIDE DEF m, n, z
<1>3. ASSUME NEW k \in 1 .. m + n PROVE Starts(z[k], bs)
  <2> DEFINE j == k - m
  <2>1. k \in 1 .. m \/ (j \in 1 .. n /\ k = m + j)
    BY <1>2
  <2> HIDE DEF j
  <2> QED BY <1>2, <2>1 DEF AllStart
<1>4. AllStart(z, bs)
  BY <1>2, <1>3 DEF AllStart
<1> QED BY <1>4 DEF z

LEMMA StartsFlatten ==
    ASSUME NEW bs, NEW n \in Nat, NEW s, s = [i \in 1 .. n |-> s[i]],
           \A i \in 1 .. n : AllStart(s[i], bs)
    PROVE  AllStart(FlattenSeq(s), bs)
<1>1. PICK T : s \in Seq(Seq(T)) /\ Len(s) = n
  BY SequencesOfOneKind DEF AllStart
<1>2. PICK g : PutTogether(g, s, T) /\ FlattenSeq(s) = g[n]
  BY <1>1, FlattenBy
<1>3. g[0] = <<>> /\ \A i \in 1 .. n : g[i] = g[i - 1] \o s[i]
  BY <1>1, <1>2 DEF PutTogether
<1> DEFINE S == {i \in 0 .. n : AllStart(g[i], bs)}
<1>4. ASSUME NEW i \in 1 .. n, i - 1 \in S PROVE i \in S
  <2>1. AllStart(g[i - 1], bs)
    BY <1>4
  <2>2. AllStart(g[i], bs)
    BY <1>3, <2>1, StartsJoin
  <2> QED BY <2>2
<1>5. 0 \in S /\ n \in 0 .. n
  BY <1>3, NoneStart
<1> HIDE DEF S
<1>6. n \in S
  BY <1>4, <1>5, Inductive
<1>7. AllStart(g[n], bs)
  BY <1>6 DEF S
<1> QED BY <1>2, <1>7

LEMMA OneStarts ==
    ASSUME NEW bs \in Seq(Block), NEW a \in 1 .. Len(bs), NEW b \in a .. Len(bs), NEW c,
           c.blocks = SubSeq(bs, a, b), c.start = Offset(bs, a)
    PROVE  AllStart(<<c>>, bs)
<1> DEFINE t == SubSeq(bs, a, b)
<1>1. /\ t \in Seq(Block) /\ Len(t) = b - a + 1
      /\ \A k \in 1 .. b - a + 1 : t[k] = bs[a + k - 1]
  BY PieceIs
<1>2. b - a + 1 \in Nat \ {0} /\ 1 \in 1 .. b - a + 1 /\ a + 1 - 1 = a
  OBVIOUS
<1> HIDE DEF t
<1>3. t # <<>> /\ t[1] = bs[a]
  BY <1>1, <1>2
<1>4. Starts(c, bs)
  BY <1>3 DEF Starts, t
<1> DEFINE z == <<c>>
<1>5. DOMAIN z = {1} /\ z[1] = c /\ IsSeq(z)
  BY OneIsSeq
<1> HIDE DEF z
<1>6. AllStart(z, bs)
  BY <1>4, <1>5 DEF AllStart
<1> QED BY <1>6 DEF z

LEMMA PackStarts ==
    ASSUME NEW bs, Proper(bs), NEW a \in 1 .. Len(bs), NEW b \in a .. Len(bs), NEW path
    PROVE  AllStart(Windows(Pack(SubSeq(bs, a, b)), Offset(bs, a), path), bs)
<1> DEFINE t == SubSeq(bs, a, b)
           s == Pack(t)
           w == Windows(s, Offset(bs, a), path)
<1>1. bs \in Seq(Block)
  BY DEF Proper
<1>2. t \in Seq(Block)
  BY <1>1, PieceIs
<1> HIDE DEF t
<1>3. s \in Seq(Seq(Block)) /\ FlattenSeq(s) = t /\ \A i \in 1 .. Len(s) : s[i] # <<>>
  BY <1>2, PackBy
<1> HIDE DEF s
<1>4. \A i \in DOMAIN w : Starts(w[i], bs)
  BY <1>3, WindowsStart DEF t
<1>5. IsSeq(w)
  <2>1. IsSeq(s)
    BY <1>3 DEF IsSeq
  <2> QED BY <2>1, WindowsAre
<1> HIDE DEF w
<1>6. AllStart(w, bs)
  BY <1>4, <1>5 DEF AllStart
<1> QED BY <1>6 DEF w, s, t

LEMMA SectionStarts ==
    ASSUME NEW bs, Proper(bs), NEW c \in Closers(bs)
    PROVE  AllStart(Section(bs, c), bs)
<1> DEFINE a == Opener(bs, c)
           b == SectionEnd(bs, c)
<1>1. bs \in Seq(Block) /\ Len(bs) \in Nat /\ c \in Headings(bs)
      /\ \A h \in Headings(bs) : h \in 1 .. Len(bs)
  BY ClosersAre DEF Proper
<1>2. a \in Headings(bs) /\ a <= c
  BY <1>1, OpenerBy
<1>3. b \in c .. Len(bs)
  BY <1>1, SectionEndBy
<1> HIDE DEF a, b
<1>4. a \in 1 .. Len(bs) /\ b \in a .. Len(bs)
  BY <1>1, <1>2, <1>3
<1>5. \A path : AllStart(Windows(Pack(SubSeq(bs, a, b)), Offset(bs, a), path), bs)
  BY <1>4, PackStarts
<1>6. \A path, to :
        AllStart(<<[blocks |-> SubSeq(bs, a, b), path |-> path, start |-> Offset(bs, a),
                    end |-> to]>>, bs)
  BY <1>1, <1>4, OneStarts
<1> QED BY <1>5, <1>6 DEF Section, a, b

LEMMA PreambleStarts ==
    ASSUME NEW bs \in Seq(Block), Headings(bs) # {}
    PROVE  AllStart(Preamble(bs), bs)
<1> DEFINE first == Min(Headings(bs))
           b == first - 1
           x == [blocks |-> SubSeq(bs, 1, b), path |-> <<>>, start |-> 0, end |-> Offset(bs, first)]
<1>1. Len(bs) \in Nat /\ first \in 1 .. Len(bs)
  BY ClosersAre
<1>2. Preamble(bs) = IF first = 1 THEN <<>> ELSE <<x>>
  BY DEF Preamble
<1> HIDE DEF first
<1>3. CASE first = 1
  BY <1>2, <1>3, NoneStart
<1>4. CASE first # 1
  <2>1. 1 \in 1 .. Len(bs) /\ b \in 1 .. Len(bs)
    BY <1>1, <1>4
  <2>2. x.blocks = SubSeq(bs, 1, b) /\ x.start = Offset(bs, 1)
    BY DEF Offset
  <2> HIDE DEF b, x
  <2>3. AllStart(<<x>>, bs)
    BY <2>1, <2>2, OneStarts
  <2> QED BY <1>2, <1>4, <2>3
<1> QED BY <1>3, <1>4

(* No paragraph of a text is too long for a chunk.                         *)
Small(bs) == \A i \in DOMAIN bs : bs[i].len <= MaxChars

LEMMA PiecesOfSmall ==
    ASSUME NEW b \in Block, b.len > 0, b.len <= MaxChars
    PROVE  Pieces(b) = <<b>>
<1> DEFINE m == (b.len + MaxChars - 1) \div MaxChars
           t == Pieces(b)
<1>1. b.len \in Int /\ MaxChars \in Nat \ {0}
  BY ContentAssumption DEF Block
<1>2. m = 1
  <2> DEFINE x == b.len
             y == MaxChars
  <2>1. x \in Int /\ y \in Nat \ {0} /\ x > 0 /\ x <= y
    BY <1>1
  <2> HIDE DEF x, y
  <2>2. (x + y - 1) \div y = 1
    <3> DEFINE r == x - 1
    <3>1. r \in 0 .. y - 1 /\ x + y - 1 = 1 * y + r
      BY <2>1
    <3> HIDE DEF r
    <3>2. (1 * y + r) \div y = 1
      BY ONLY <2>1, <3>1
    <3> QED BY <3>1, <3>2
  <2> QED BY <2>2 DEF x, y
<1>3. t = [k \in 1 .. m |-> [b EXCEPT !.len = Min({MaxChars, b.len - (k - 1) * MaxChars})]]
  BY DEF Pieces
<1> HIDE DEF m, t
<1>4. b.len - (1 - 1) * MaxChars = b.len /\ Min({MaxChars, b.len}) = b.len
  <2> DEFINE x == b.len
  <2>1. x \in Int /\ MaxChars \in Int /\ x <= MaxChars
    BY <1>1
  <2> HIDE DEF x
  <2>2. /\ Min({MaxChars, x}) \in {MaxChars, x}
        /\ Min({MaxChars, x}) <= x /\ Min({MaxChars, x}) <= MaxChars
    BY <2>1, OfTwo
  <2>3. Min({MaxChars, x}) = x /\ x - (1 - 1) * MaxChars = x
    BY <2>1, <2>2
  <2> QED BY <2>3 DEF x
<1>5. [b EXCEPT !.len = b.len] = b
  BY DEF Block
<1>6. t = [k \in 1 .. 1 |-> b]
  <2>1. \A k \in 1 .. 1 : k = 1
    OBVIOUS
  <2>2. DOMAIN t = 1 .. 1 /\ t[1] = b /\ t = [k \in 1 .. 1 |-> t[k]]
    BY <1>2, <1>3, <1>4, <1>5
  <2> QED BY <2>1, <2>2
<1>7. [k \in 1 .. 1 |-> b] = <<b>>
  OBVIOUS
<1> QED BY <1>6, <1>7 DEF t

LEMMA FlattenSingles ==
    ASSUME NEW T, NEW bs \in Seq(T), NEW s, s = [i \in 1 .. Len(bs) |-> <<bs[i]>>]
    PROVE  FlattenSeq(s) = bs
<1> DEFINE n == Len(bs)
<1>1. n \in Nat /\ \A i \in 1 .. n : bs[i] \in T /\ <<bs[i]>> \in Seq(T)
  OBVIOUS
<1>2. s \in Seq(Seq(T)) /\ Len(s) = n /\ \A i \in 1 .. n : s[i] = <<bs[i]>>
  <2> DEFINE X == Seq(T)
  <2>1. n \in Nat /\ \A i \in 1 .. n : <<bs[i]>> \in X
    BY <1>1
  <2> HIDE DEF X, n
  <2>2. s = [i \in 1 .. n |-> <<bs[i]>>]
    BY DEF n
  <2>3. s \in Seq(X) /\ Len(s) = n /\ \A i \in 1 .. n : s[i] = <<bs[i]>>
    BY <2>1, <2>2
  <2> QED BY <2>3 DEF X
<1> HIDE DEF n
<1>3. PICK g : PutTogether(g, s, T) /\ FlattenSeq(s) = g[n]
  BY <1>2, FlattenBy
<1>4. g[0] = <<>> /\ \A i \in 1 .. n : g[i] = g[i - 1] \o <<bs[i]>>
  BY <1>2, <1>3 DEF PutTogether
<1> DEFINE S == {i \in 0 .. n : g[i] = SubSeq(bs, 1, i)}
<1>5. ASSUME NEW i \in 1 .. n, i - 1 \in S PROVE i \in S
  <2> DEFINE x == SubSeq(bs, 1, i - 1)
             y == SubSeq(bs, 1, i)
             z == Append(x, bs[i])
  <2>1. i \in 0 .. n /\ g[i] = x \o <<bs[i]>>
    <3>1. i \in 0 .. n /\ g[i - 1] = x
      BY <1>1, <1>5
    <3> HIDE DEF x
    <3> QED BY <1>4, <3>1
  <2>2. x \in Seq(T) /\ bs[i] \in T
    <3>1. i - 1 \in 0 .. Len(bs)
      BY DEF n
    <3>2. bs[i] \in T
      BY <1>1
    <3> QED BY <3>1, <3>2
  <2>3. x \o <<bs[i]>> = z
    <3> HIDE DEF x
    <3> QED BY <2>2, AppendIsConcat
  <2>4. z = y
    BY SubSeqRecursiveSecond DEF n
  <2> HIDE DEF x, y, z
  <2>5. g[i] = y
    BY <2>1, <2>3, <2>4
  <2> QED BY <2>1, <2>5 DEF y
<1>6. 0 \in S
  <2> DEFINE x == SubSeq(bs, 1, 0)
  <2>1. x = <<>>
    OBVIOUS
  <2> HIDE DEF x
  <2>2. g[0] = x /\ 0 \in 0 .. n
    BY <1>1, <1>4, <2>1
  <2> QED BY <2>2 DEF x
<1> HIDE DEF S
<1>7. n \in 0 .. n /\ \A i \in 0 .. n : i \in S
  <2>1. n \in 0 .. n
    BY <1>1
  <2>2. \A i \in 0 .. n : i \in S
    BY <1>1, <1>5, <1>6, Inductive
  <2> QED BY <2>1, <2>2
<1>8. g[n] = SubSeq(bs, 1, n)
  BY <1>7 DEF S
<1>9. SubSeq(bs, 1, n) = bs
  BY DEF n
<1> QED BY <1>3, <1>8, <1>9

LEMMA RecursiveSplitStarts ==
    ASSUME NEW bs, Proper(bs), Small(bs)
    PROVE  AllStart(RecursiveSplit(bs), bs)
<1> DEFINE n == Len(bs)
           s == [i \in DOMAIN bs |-> Pieces(bs[i])]
           w == Windows(Pack(bs), 0, <<>>)
<1>1. bs \in Seq(Block) /\ n \in Nat /\ DOMAIN bs = 1 .. n
  BY DEF Proper
<1>2. \A i \in 1 .. n : Pieces(bs[i]) = <<bs[i]>>
  BY <1>1, PiecesOfSmall DEF Proper, Small
<1>3. s = [i \in 1 .. n |-> <<bs[i]>>]
  BY <1>1, <1>2
<1> HIDE DEF s
<1>4. FlattenSeq(s) = bs
  BY <1>1, <1>3, FlattenSingles
<1>5. RecursiveSplit(bs) = w
  BY <1>4 DEF RecursiveSplit, s
<1>6. CASE n = 0
  <2>1. bs = <<>>
    BY <1>1, <1>6
  <2>2. Pack(bs) \in Seq(Seq(Block)) /\ FlattenSeq(Pack(bs)) = bs
        /\ \A i \in 1 .. Len(Pack(bs)) : Pack(bs)[i] # <<>>
    BY <1>1, PackBy
  <2> DEFINE q == Pack(bs)
  <2> HIDE DEF q
  <2>3. q \in Seq(Seq(Block)) /\ FlattenSeq(q) = <<>> /\ \A i \in 1 .. Len(q) : q[i] # <<>>
    BY <2>1, <2>2 DEF q
  <2>4. Len(q) = 0
    <3>1. PICK g : PutTogether(g, q, Block) /\ FlattenSeq(q) = g[Len(q)]
      BY <2>3, FlattenBy
    <3>2. Len(q) \in Nat /\ g[Len(q)] = <<>>
      BY <2>3, <3>1
    <3> SUFFICES ASSUME Len(q) # 0 PROVE FALSE
      BY <3>2
    <3>3. 1 \in 1 .. Len(q) /\ 1 \in 0 .. Len(q) /\ 1 - 1 = 0
      BY <3>2
    <3>4. g[0] = <<>> /\ g[1] = g[0] \o q[1] /\ q[1] \in Seq(Block) /\ q[1] # <<>>
      <4>1. g[0] = <<>> /\ g[1] = g[1 - 1] \o q[1]
        BY <3>1, <3>3 DEF PutTogether
      <4>2. q[1] \in Seq(Block) /\ q[1] # <<>>
        BY <2>3, <3>3
      <4> QED BY <3>3, <4>1, <4>2
    <3>5. g[1] = q[1]
      BY <3>4, ConcatEmptySeq
    <3>6. Len(g[1]) <= Len(g[Len(q)])
      BY <2>3, <3>1, <3>3, Beginnings
    <3>7. Len(q[1]) \in Nat \ {0} /\ Len(<<>>) = 0
      BY <3>4
    <3> QED BY <3>2, <3>5, <3>6, <3>7
  <2>5. DOMAIN w = {} /\ IsSeq(w)
    <3>1. IsSeq(q)
      BY <2>3 DEF IsSeq
    <3>2. IsSeq(w)
      BY <3>1, WindowsAre DEF q
    <3>3. DOMAIN w = 1 .. Len(q)
      BY DEF Windows, q
    <3> QED BY <2>4, <3>2, <3>3
  <2> HIDE DEF w
  <2> QED BY <1>5, <2>5 DEF AllStart
<1>7. CASE n # 0
  <2>1. 1 \in 1 .. Len(bs) /\ n \in 1 .. Len(bs) /\ SubSeq(bs, 1, n) = bs /\ Offset(bs, 1) = 0
    BY <1>1, <1>7 DEF Offset
  <2>2. AllStart(Windows(Pack(SubSeq(bs, 1, n)), Offset(bs, 1), <<>>), bs)
    BY <2>1, PackStarts
  <2> QED BY <1>5, <2>1, <2>2
<1> QED BY <1>6, <1>7

(* SemanticHeadingSplitter.split gives every chunk the offset its text     *)
(* starts at.                                                              *)
LEMMA SemanticSplitStarts ==
    ASSUME NEW bs, Proper(bs), Small(bs)
    PROVE  AllStart(SemanticSplit(bs), bs)
<1> DEFINE n == Len(bs)
           s == [i \in DOMAIN bs |-> IF i \in Closers(bs) THEN Section(bs, i) ELSE <<>>]
<1>1. bs \in Seq(Block) /\ n \in Nat /\ DOMAIN bs = 1 .. n
  BY DEF Proper
<1>2. CASE Headings(bs) = {}
  BY <1>2, RecursiveSplitStarts DEF SemanticSplit
<1>3. CASE Headings(bs) # {}
  <2>1. SemanticSplit(bs) = Preamble(bs) \o FlattenSeq(s)
    BY <1>3 DEF SemanticSplit
  <2>2. s = [i \in 1 .. n |-> s[i]] /\ \A i \in 1 .. n : AllStart(s[i], bs)
    BY <1>1, SectionStarts, NoneStart
  <2> HIDE DEF s, n
  <2>3. AllStart(FlattenSeq(s), bs)
    BY <1>1, <2>2, StartsFlatten
  <2>4. AllStart(Preamble(bs), bs)
    BY <1>1, <1>3, PreambleStarts
  <2> QED BY <2>1, <2>3, <2>4, StartsJoin
<1> QED BY <1>2, <1>3

-----------------------------------------------------------------------------
(* The windows of the pages, in order.                                     *)
PageWindow == [page : Int, start : Int, end : Int]
Ordered(map) ==
    /\ map \in Seq(PageWindow)
    /\ \A i, j \in DOMAIN map : i < j => /\ map[i].start <= map[j].start
                                         /\ map[i].page <= map[j].page

(* get_page_number never gives an offset an earlier page than a smaller    *)
(* offset, but for the last page, which is what it gives those it does not *)
(* find.                                                                   *)
LEMMA PageGrows ==
    ASSUME NEW map, Ordered(map), NEW x \in Int, NEW y \in Int, x <= y
    PROVE  \/ PageNumber(x, map) <= PageNumber(y, map)
           \/ PageNumber(x, map) = Last(map).page
<1> DEFINE n == Len(map)
           within(at) == {i \in DOMAIN map : map[i].start <= at /\ at < map[i].end}
<1>1. map \in Seq(PageWindow) /\ n \in Nat /\ DOMAIN map = 1 .. n
  BY DEF Ordered
<1>2. \A i \in 1 .. n : map[i].page \in Int /\ map[i].start \in Int /\ map[i].end \in Int
  <2>1. \A w \in PageWindow : w.page \in Int /\ w.start \in Int /\ w.end \in Int
    BY DEF PageWindow
  <2> QED BY <1>1, <2>1
<1>3. \A at : PageNumber(at, map) = IF map = <<>> THEN 1
                ELSE IF within(at) = {} THEN map[n].page ELSE map[Min(within(at))].page
  BY DEF PageNumber
<1>4. \A at : within(at) \in SUBSET (1 .. n)
  BY <1>1
<1> HIDE DEF within
<1>5. \A at : within(at) # {} => /\ Min(within(at)) \in within(at)
                                 /\ \A i \in within(at) : Min(within(at)) <= i
  BY <1>1, <1>4, LeastIn
<1>6. CASE map = <<>>
  BY <1>3, <1>6
<1>7. CASE map # <<>> /\ within(x) = {}
  <2>1. Last(map) = map[n]
    BY DEF Last
  <2> QED BY <1>3, <1>7, <2>1
<1>8. CASE map # <<>> /\ within(x) # {}
  <2> DEFINE i == Min(within(x))
  <2>1. i \in within(x) /\ i \in 1 .. n /\ \A k \in within(x) : i <= k
    BY <1>4, <1>5, <1>8
  <2>2. PageNumber(x, map) = map[i].page
    BY <1>3, <1>8
  <2> HIDE DEF i
  <2>3. CASE within(y) = {}
    <3>1. PageNumber(y, map) = map[n].page
      BY <1>3, <1>8, <2>3
    <3>2. n \in 1 .. n /\ (i = n \/ i < n)
      <4>1. n \in Nat /\ i \in 1 .. n
        BY <1>1, <2>1
      <4> HIDE DEF n
      <4> QED BY ONLY <4>1
    <3>3. map[i].page <= map[n].page
      <4>1. i < n => map[i].page <= map[n].page
        BY <1>1, <2>1, <3>2, Zenon DEF Ordered
      <4>2. map[i].page \in Int
        BY <1>2, <2>1
      <4> QED BY <3>2, <4>1, <4>2, SMTT(20)
    <3> QED BY <2>2, <3>1, <3>3
  <2>4. CASE within(y) # {}
    <3> DEFINE j == Min(within(y))
    <3>1. j \in within(y) /\ j \in 1 .. n
      BY <1>4, <1>5, <2>4
    <3>2. PageNumber(y, map) = map[j].page
      BY <1>3, <1>8, <2>4
    <3> HIDE DEF j
    <3>3. map[j].start <= y /\ y < map[j].end /\ map[i].start <= x
      BY <2>1, <3>1 DEF within
    <3>4. ASSUME j < i PROVE FALSE
      <4>1. map[j].start <= map[i].start
        BY <1>1, <2>1, <3>1, <3>4 DEF Ordered
      <4>2. map[j].start <= x /\ x < map[j].end
        BY <1>2, <2>1, <3>1, <3>3, <4>1
      <4>3. j \in within(x)
        BY <1>1, <3>1, <4>2 DEF within
      <4> QED BY <2>1, <3>1, <3>4, <4>3
    <3>5. i = j \/ i < j
      BY <1>1, <2>1, <3>1, <3>4
    <3>6. map[i].page <= map[j].page
      <4>1. i < j => map[i].page <= map[j].page
        BY <1>1, <2>1, <3>1 DEF Ordered
      <4>2. map[i].page \in Int
        BY <1>2, <2>1
      <4> QED BY <3>5, <4>1, <4>2
    <3> QED BY <2>2, <3>2, <3>6
  <2> QED BY <2>3, <2>4
<1> QED BY <1>6, <1>7, <1>8

LEMMA PickedOrdered ==
    ASSUME NEW map, Ordered(map), NEW at \in SUBSET DOMAIN map
    PROVE  Ordered(Picked(map, at))
<1> DEFINE t == Picked(map, at)
<1>1. map \in Seq(PageWindow)
  BY DEF Ordered
<1>2. t \in Seq(PageWindow) /\ \E o : PicksBy(o, t, map, at)
  BY <1>1, PickedBy
<1>3. PICK o : PicksBy(o, t, map, at)
  BY <1>2
<1> HIDE DEF t
<1>4. /\ o \in [1 .. Len(t) -> at] /\ \A k \in 1 .. Len(t) : t[k] = map[o[k]]
      /\ \A k, l \in 1 .. Len(t) : k <= l <=> o[k] <= o[l]
  BY <1>3 DEF PicksBy
<1>5. DOMAIN t = 1 .. Len(t) /\ Len(t) \in Nat /\ DOMAIN map = 1 .. Len(map) /\ Len(map) \in Nat
  BY <1>1, <1>2
<1>6. \A k \in 1 .. Len(t) : o[k] \in DOMAIN map /\ o[k] \in Int
  BY <1>4, <1>5
<1>7. ASSUME NEW k \in 1 .. Len(t), NEW l \in 1 .. Len(t), k < l PROVE o[k] < o[l]
  <2>1. ~(l <= k)
    BY <1>5, <1>7
  <2>2. ~(o[l] <= o[k])
    BY <1>4, <2>1
  <2> QED BY <1>6, <2>2
<1>8. \A k, l \in DOMAIN t : k < l => t[k].start <= t[l].start /\ t[k].page <= t[l].page
  BY <1>4, <1>5, <1>6, <1>7 DEF Ordered
<1>9. Ordered(t)
  BY <1>2, <1>8 DEF Ordered
<1> QED BY <1>9 DEF t

(* Where what follows the first blocks of a text starts.                   *)
Till(bs, l) == IF l = 0 THEN 0 ELSE Span(SubSeq(bs, 1, l)) + Sep

LEMMA TillGrows ==
    ASSUME NEW bs, Proper(bs), NEW k \in 0 .. Len(bs), NEW l \in k .. Len(bs)
    PROVE  Till(bs, k) \in Int /\ Till(bs, k) <= Till(bs, l)
<1>1. bs \in Seq(Block) /\ Len(bs) \in Nat
  BY DEF Proper
<1>2. ASSUME NEW i \in 1 .. Len(bs)
      PROVE  /\ Till(bs, i) = Offset(bs, i) + bs[i].len + Sep
             /\ Offset(bs, i) \in Nat /\ bs[i].len \in Nat
  <2>1. 1 \in 1 .. Len(bs) /\ i \in 1 .. Len(bs) /\ i # 0
    BY <1>1
  <2>2. Offset(bs, 1) + Span(SubSeq(bs, 1, i)) = Offset(bs, i) + bs[i].len
    BY <2>1, SpanFrom
  <2>3. Offset(bs, 1) = 0
    BY DEF Offset
  <2>4. SubSeq(bs, 1, i) \in Seq(Block)
    BY <1>1, <2>1, PieceIs
  <2>5. Span(SubSeq(bs, 1, i)) \in Int
    BY <2>4, SpanIs
  <2>6. Span(SubSeq(bs, 1, i)) = Offset(bs, i) + bs[i].len
    BY <2>2, <2>3, <2>5
  <2>7. Offset(bs, i) \in Nat /\ bs[i].len \in Nat
    BY OffsetsGrow
  <2> QED BY <2>1, <2>6, <2>7 DEF Till
<1>3. Till(bs, 0) = 0
  BY DEF Till
<1>4. l \in 0 .. Len(bs) /\ \A i \in 0 .. Len(bs) : i = 0 \/ i \in 1 .. Len(bs)
  BY <1>1
<1>5. \A i \in 0 .. Len(bs) : Till(bs, i) \in Nat
  BY <1>2, <1>3, <1>4 DEF Sep
<1>6. CASE k = 0
  BY <1>3, <1>4, <1>5, <1>6
<1>7. CASE k = l
  BY <1>5, <1>7
<1>8. CASE k # 0 /\ k # l
  <2>1. k \in 1 .. Len(bs) /\ l \in 1 .. Len(bs) /\ k < l
    BY <1>1, <1>8
  <2>2. Offset(bs, k) + bs[k].len + Sep <= Offset(bs, l)
    BY <2>1, OffsetsStep
  <2>3. /\ Till(bs, k) = Offset(bs, k) + bs[k].len + Sep
        /\ Till(bs, l) = Offset(bs, l) + bs[l].len + Sep
        /\ Offset(bs, l) \in Nat /\ bs[l].len \in Nat
    BY <1>2, <2>1
  <2> QED BY <1>5, <2>2, <2>3 DEF Sep
<1> QED BY <1>5, <1>6, <1>7, <1>8

LEMMA FlattenUpto ==
    ASSUME NEW T, NEW s \in Seq(Seq(T)), NEW g, PutTogether(g, s, T), NEW i \in 0 .. Len(s)
    PROVE  FlattenSeq(SubSeq(s, 1, i)) = g[i]
<1> DEFINE X == Seq(T)
           t == SubSeq(s, 1, i)
<1>1. t \in Seq(X) /\ Len(t) = i /\ \A k \in 1 .. i : t[k] = s[k]
  <2>1. s \in Seq(X)
    OBVIOUS
  <2> HIDE DEF X
  <2> QED BY <2>1
<1>2. i \in Nat /\ Len(s) \in Nat /\ i <= Len(s) /\ i \in 0 .. i
  OBVIOUS
<1> HIDE DEF t
<1>3. PICK h : PutTogether(h, t, T) /\ FlattenSeq(t) = h[i]
  BY <1>1, FlattenBy
<1>4. h[0] = <<>> /\ \A k \in 1 .. i : h[k] = h[k - 1] \o s[k]
  BY <1>1, <1>3 DEF PutTogether
<1>5. g[0] = <<>> /\ \A k \in 1 .. i : g[k] = g[k - 1] \o s[k]
  <2>1. \A k \in 1 .. i : k \in 1 .. Len(s)
    BY <1>2
  <2> QED BY <2>1 DEF PutTogether
<1> DEFINE S == {k \in 0 .. i : h[k] = g[k]}
<1>6. ASSUME NEW k \in 1 .. i, k - 1 \in S PROVE k \in S
  <2>1. k \in 0 .. i
    BY <1>2
  <2> QED BY <1>4, <1>5, <1>6, <2>1
<1>7. 0 \in S
  BY <1>2, <1>4, <1>5
<1> HIDE DEF S
<1>8. \A k \in 0 .. i : k \in S
  BY <1>2, <1>6, <1>7, Inductive
<1>9. h[i] = g[i]
  BY <1>2, <1>8 DEF S
<1> QED BY <1>3, <1>9 DEF t

LEMMA TogetherGrows ==
    ASSUME NEW T, NEW s \in Seq(Seq(T)), NEW g, PutTogether(g, s, T),
           NEW i \in 0 .. Len(s), NEW j \in i .. Len(s)
    PROVE  Len(g[i]) <= Len(g[j])
<1> DEFINE n == Len(s)
           X == Seq(T)
           S == {k \in 0 .. n : i <= k => Len(g[i]) <= Len(g[k])}
<1>1. n \in Nat /\ i \in 0 .. n /\ j \in 0 .. n /\ i <= j /\ \A k \in 1 .. n : s[k] \in X
  OBVIOUS
<1>2. \A k \in 0 .. n : g[k] \in X
  <2> HIDE DEF X
  <2> QED BY DEF PutTogether, X
<1>3. \A k \in 1 .. n : g[k] = g[k - 1] \o s[k]
  BY DEF PutTogether
<1>4. \A x \in X : Len(x) \in Nat
  OBVIOUS
<1>5. \A x, y \in X : Len(x \o y) = Len(x) + Len(y)
  <2>1. ASSUME NEW x \in Seq(T), NEW y \in Seq(T) PROVE Len(x \o y) = Len(x) + Len(y)
    BY ONLY <2>1, ConcatIs
  <2> QED BY <2>1
<1> HIDE DEF n, X
<1>6. ASSUME NEW k \in 1 .. n, k - 1 \in S PROVE k \in S
  <2> DEFINE h == k - 1
  <2>1. k \in 0 .. n /\ h \in 0 .. n /\ (i <= k => i <= h \/ i = k)
    BY <1>1
  <2>2. i <= h => Len(g[i]) <= Len(g[h])
    BY <1>6
  <2>3. g[k] = g[h] \o s[k] /\ g[h] \in X /\ s[k] \in X /\ g[i] \in X
    BY <1>1, <1>2, <1>3, <2>1
  <2> HIDE DEF h
  <2>4. Len(g[k]) = Len(g[h]) + Len(s[k])
    BY <1>5, <2>3
  <2>5. Len(g[h]) \in Nat /\ Len(s[k]) \in Nat /\ Len(g[i]) \in Nat
    BY <1>4, <2>3
  <2> DEFINE x == Len(g[i])
             y == Len(g[h])
             z == Len(g[k])
             w == Len(s[k])
  <2>6. z = y + w /\ x \in Nat /\ y \in Nat /\ w \in Nat /\ (i <= h => x <= y) /\ (i = k => x = z)
    BY <2>2, <2>4, <2>5
  <2> HIDE DEF x, y, z, w
  <2>7. i <= k => x <= z
    BY <2>1, <2>6
  <2>8. i <= k => Len(g[i]) <= Len(g[k])
    BY <2>7 DEF x, z
  <2> QED BY <2>1, <2>8
<1>7. 0 \in S
  <2>1. 0 \in 0 .. n /\ (i <= 0 => i = 0)
    BY <1>1
  <2>2. Len(g[0]) \in Nat
    BY <1>2, <1>4, <2>1
  <2> QED BY <2>1, <2>2
<1> HIDE DEF S
<1>8. j \in S
  BY <1>1, <1>6, <1>7, Inductive
<1> QED BY <1>1, <1>8 DEF S

LEMMA BeginningIs ==
    ASSUME NEW T, NEW s \in Seq(Seq(T)), NEW g, PutTogether(g, s, T), NEW i \in 0 .. Len(s)
    PROVE  /\ g[Len(s)] \in Seq(T) /\ Len(g[i]) \in 0 .. Len(g[Len(s)])
           /\ g[i] = SubSeq(g[Len(s)], 1, Len(g[i]))
<1> DEFINE x == g[i]
           y == g[Len(s)]
           l == Len(x)
           z == SubSeq(y, 1, l)
<1>1. x \in Seq(T) /\ y \in Seq(T)
  <2> DEFINE X == Seq(T)
  <2>1. Len(s) \in 0 .. Len(s) /\ i \in 0 .. Len(s)
    OBVIOUS
  <2>2. g \in [0 .. Len(s) -> X]
    BY DEF PutTogether
  <2> HIDE DEF X
  <2>3. g[i] \in X /\ g[Len(s)] \in X
    BY <2>1, <2>2
  <2> QED BY <2>3 DEF X
<1>2. l <= Len(y) /\ \A k \in 1 .. l : x[k] = y[k]
  BY Beginnings
<1> HIDE DEF x, y
<1>3. l \in 0 .. Len(y)
  BY <1>1, <1>2
<1>4. z \in Seq(T) /\ Len(z) = l /\ \A k \in 1 .. l : z[k] = y[k]
  BY <1>1, <1>3
<1> HIDE DEF z
<1>5. x = z
  BY ONLY <1>1, <1>2, <1>4, SeqEqual DEF l
<1> QED BY <1>1, <1>3, <1>5 DEF x, y, z

LEMMA PayloadOrdered ==
    ASSUME NEW pages, ProperPages(pages), NEW erased
    PROVE  Ordered(Payload(pages, erased).map)
<1> DEFINE n == Len(pages)
           at(i) == {k \in DOMAIN pages[i].blocks : pages[i].blocks[k].kind \notin erased}
           flat == [i \in DOMAIN pages |-> Picked(pages[i].blocks, at(i))]
           text1 == Payload(pages, erased).text
           before(i) == FlattenSeq(SubSeq(flat, 1, i - 1))
           start(i) == IF before(i) = <<>> THEN 0 ELSE Span(before(i)) + Sep
           window(i) == [page |-> pages[i].n, start |-> start(i),
                         end |-> start(i) + Span(pages[i].blocks)]
           map == [i \in DOMAIN pages |-> window(i)]
           on == {i \in DOMAIN pages : pages[i].blocks # <<>>}
<1>1. pages \in Seq(PageOf) /\ DOMAIN pages = 1 .. n /\ n \in Nat /\ Proper(text1)
  BY PayloadIsProper DEF ProperPages
<1>2. Payload(pages, erased).map = Picked(map, on) /\ text1 = FlattenSeq(flat)
  BY DEF Payload, Kept, With
<1> HIDE DEF text1
<1>3. \A i \in 1 .. n : pages[i].n \in Int /\ pages[i].blocks \in Seq(Block)
  <2>1. \A p \in PageOf : p.n \in Int /\ p.blocks \in Seq(Block)
    BY DEF PageOf
  <2> QED BY <1>1, <2>1
<1>4. flat \in Seq(Seq(Block)) /\ Len(flat) = n
  <2>1. \A i \in 1 .. n : Picked(pages[i].blocks, at(i)) \in Seq(Block)
    <3>1. \A i \in 1 .. n : at(i) \in SUBSET DOMAIN pages[i].blocks
      OBVIOUS
    <3> HIDE DEF at
    <3> QED BY <1>3, <3>1, PickedType
  <2> HIDE DEF at, n
  <2> QED BY <1>1, <2>1
<1> HIDE DEF at, flat, n
<1>5. PICK g : PutTogether(g, flat, Block) /\ text1 = g[n]
  BY <1>2, <1>4, FlattenBy
<1> DEFINE l(i) == Len(g[i - 1])
<1>6. ASSUME NEW i \in 1 .. n
      PROVE  l(i) \in 0 .. Len(text1) /\ start(i) = Till(text1, l(i))
  <2>1. i - 1 \in 0 .. n
    BY <1>1
  <2>2. before(i) = g[i - 1]
    BY <1>4, <1>5, <2>1, FlattenUpto
  <2>3. /\ text1 \in Seq(Block) /\ l(i) \in 0 .. Len(text1)
        /\ g[i - 1] = SubSeq(text1, 1, l(i))
    BY <1>4, <1>5, <2>1, BeginningIs
  <2>4. l(i) = 0 <=> g[i - 1] = <<>>
    <3>1. SubSeq(text1, 1, l(i)) \in Seq(Block)
      BY <2>3
    <3>2. g[i - 1] \in Seq(Block)
      BY <2>3, <3>1
    <3> QED BY <3>2
  <2> QED BY <2>2, <2>3, <2>4 DEF Till
<1>7. ASSUME NEW i \in 1 .. n, NEW j \in 1 .. n, i < j
      PROVE  start(i) <= start(j) /\ pages[i].n <= pages[j].n
  <2>1. i - 1 \in 0 .. n /\ j - 1 \in i - 1 .. n
    BY <1>1, <1>7
  <2>2. l(i) <= l(j)
    BY <1>4, <1>5, <2>1, TogetherGrows
  <2>3. l(i) \in 0 .. Len(text1) /\ l(j) \in 0 .. Len(text1)
    BY <1>6
  <2> HIDE DEF l, start
  <2>4. l(j) \in l(i) .. Len(text1)
    BY <2>2, <2>3
  <2>5. Till(text1, l(i)) <= Till(text1, l(j))
    BY <1>1, <2>3, <2>4, TillGrows
  <2>6. pages[i].n < pages[j].n
    BY <1>1, <1>7 DEF ProperPages, Numbered
  <2>7. pages[i].n <= pages[j].n
    BY <1>3, <2>6
  <2> QED BY <1>6, <2>5, <2>7
<1>8. \A i \in 1 .. n : start(i) \in Int
  <2> HIDE DEF start, l
  <2>1. \A i \in 1 .. n : l(i) \in l(i) .. Len(text1) /\ Till(text1, l(i)) \in Int
    <3>1. ASSUME NEW i \in 1 .. n PROVE l(i) \in l(i) .. Len(text1) /\ Till(text1, l(i)) \in Int
      <4>1. l(i) \in 0 .. Len(text1)
        BY <1>6
      <4>2. l(i) \in l(i) .. Len(text1)
        BY <4>1
      <4> QED BY <1>1, <4>1, <4>2, TillGrows
    <3> QED BY <3>1
  <2> QED BY <1>6, <2>1
<1> HIDE DEF start
<1>9. ASSUME NEW i \in 1 .. n PROVE window(i) \in PageWindow
  <2>1. Span(pages[i].blocks) \in Int /\ start(i) \in Int /\ pages[i].n \in Int
    BY <1>3, <1>8, SpanIs
  <2> QED BY <2>1 DEF PageWindow
<1>10. Ordered(map)
  <2>1. map \in Seq(PageWindow) /\ DOMAIN map = 1 .. n
    <3> HIDE DEF window
    <3> QED BY <1>1, <1>9
  <2>2. \A i, j \in DOMAIN map : i < j => /\ map[i].start <= map[j].start
                                          /\ map[i].page <= map[j].page
    BY <1>1, <1>7
  <2> HIDE DEF map
  <2> QED BY <2>1, <2>2 DEF Ordered
<1>11. on \in SUBSET DOMAIN map
  OBVIOUS
<1> HIDE DEF map, on
<1> QED BY <1>2, <1>10, <1>11, PickedOrdered

LEMMA MapsAreOrdered ==
    ASSUME doc \in Documents
    PROVE  /\ \A t \in Extractions : Ordered(t.map)
           /\ \A t \in ContentReadings : Ordered(t.map)
<1>1. ProperPages(doc.pages)
  BY PagesAreProper
<1>2. Ordered(RoutedText(doc.pages).map)
  BY <1>1, TextPagesAreProper, PayloadOrdered DEF RoutedText
<1>3. ProperPages(StripRepeated(doc.pages))
  BY <1>1, StripRepeatedThins, ThinnerIsProper
<1>4. Ordered(MarkdownText(doc.pages).map) /\ Ordered(PlainText(doc.pages).map)
  BY <1>3, PayloadOrdered DEF MarkdownText, PlainText
<1>5. Ordered(NoText.map)
  <2>1. <<>> \in Seq(PageWindow) /\ DOMAIN <<>> = {}
    OBVIOUS
  <2> QED BY <2>1 DEF Ordered, NoText
<1>6. Ordered(OnePage(FlattenSeq([i \in DOMAIN doc.pages |-> doc.pages[i].blocks])).map)
  <2> DEFINE all == FlattenSeq([i \in DOMAIN doc.pages |-> doc.pages[i].blocks])
             w == [page |-> 1, start |-> 0, end |-> Span(all)]
  <2>1. Proper(all)
    BY <1>1, FlatPagesAreProper DEF BlocksOf
  <2> HIDE DEF all
  <2>2. Span(all) \in Int
    BY <2>1, SpanIs DEF Proper
  <2>3. w \in PageWindow /\ OnePage(all).map = <<w>>
    BY <2>2 DEF PageWindow, OnePage
  <2> HIDE DEF w
  <2>4. <<w>> \in Seq(PageWindow) /\ DOMAIN <<w>> = {1}
    BY <2>3
  <2>5. Ordered(<<w>>)
    BY <2>4 DEF Ordered
  <2> QED BY <2>3, <2>5 DEF all
<1>7. \A t \in Extractions : Ordered(t.map)
  BY <1>4, <1>5, <1>6 DEF Extractions
<1> QED BY <1>2, <1>7 DEF ContentReadings

(* A chunk of the cleaned text is filed under the page its first block is  *)
(* on, or before it, or under the last page.                               *)
LEMMA SmallLeft ==
    ASSUME NEW s, Small(s), Proper(s), NEW t, Left(t, s)
    PROVE  Small(t)
<1>1. PICK o : Part(o, t, s)
  BY DEF Left
<1>2. DOMAIN t = 1 .. Len(t) /\ DOMAIN s = 1 .. Len(s)
  BY DEF Left, Proper
<1>3. \A k \in 1 .. Len(t) : o[k] \in 1 .. Len(s) /\ t[k] = s[o[k]]
  BY <1>1 DEF Part
<1> QED BY <1>2, <1>3 DEF Small

Where(bs, name) == SelectInSeq(bs, LAMBDA b : b.id = name)

LEMMA FoundWhereItIs ==
    ASSUME NEW bs, Proper(bs), NEW j \in 1 .. Len(bs), NEW name, name = bs[j].id
    PROVE  Where(bs, name) = j
<1> DEFINE I == {i \in 1 .. Len(bs) : bs[i].id = name}
<1>1. Where(bs, name) = IF I # {} THEN Min(I) ELSE 0
  BY DEF SelectInSeq, Where
<1>2. DOMAIN bs = 1 .. Len(bs) /\ Len(bs) \in Nat
  BY DEF Proper
<1>3. I = {j}
  BY <1>2 DEF Proper
<1> HIDE DEF I
<1>4. Min(I) \in I
  BY <1>2, <1>3, LeastIn
<1> QED BY <1>1, <1>3, <1>4

LEMMA FiledRight ==
    ASSUME NEW t, Proper(t.text), Ordered(t.map), NEW c, Starts(c, Clean(t.text)),
           NEW at, at = Offset(t.text, Where(t.text, c.blocks[1].id))
    PROVE  IF Clean(t.text) = t.text THEN PageNumber(c.start, t.map) = PageNumber(at, t.map)
           ELSE \/ PageNumber(c.start, t.map) <= PageNumber(at, t.map)
                \/ PageNumber(c.start, t.map) = Last(t.map).page
<1> DEFINE s == t.text
           bs == Clean(t.text)
           map == t.map
<1>1. s \in Seq(Block) /\ Len(s) \in Nat
  BY DEF Proper
<1>2. Left(bs, s) /\ Proper(bs)
  BY <1>1, CleanLeft, LeftIsProper
<1> HIDE DEF s, bs, map
<1>3. PICK j \in 1 .. Len(bs) : c.blocks[1] = bs[j] /\ c.start = Offset(bs, j)
  BY DEF Starts, bs
<1>4. PICK o : Part(o, bs, s)
  BY <1>2 DEF Left
<1>5. o[j] \in 1 .. Len(s) /\ bs[j] = s[o[j]]
  BY <1>4 DEF Part
<1>6. at = Offset(s, o[j])
  <2> DEFINE name == c.blocks[1].id
  <2>1. Proper(s) /\ name = s[o[j]].id
    BY <1>3, <1>5 DEF s
  <2>2. at = Offset(s, Where(s, name))
    BY DEF s
  <2> HIDE DEF name
  <2>3. Where(s, name) = o[j]
    BY <1>5, <2>1, FoundWhereItIs
  <2> QED BY <2>2, <2>3
<1>7. CASE bs = s
  <2>1. bs[j].id = bs[o[j]].id /\ o[j] \in DOMAIN bs /\ j \in DOMAIN bs
    BY <1>2, <1>3, <1>5, <1>7 DEF Proper
  <2>2. o[j] = j
    BY <1>2, <2>1 DEF Proper
  <2> QED BY <1>3, <1>6, <1>7, <2>2 DEF bs, s
<1>8. CASE bs # s
  <2>1. Offset(bs, j) <= Offset(s, o[j])
    <3>1. Proper(s) /\ bs \in Seq(Block)
      BY <1>2 DEF s, Left
    <3> QED BY <1>4, <3>1, LeftStartsEarlier
  <2>2. Offset(bs, j) \in Int /\ Offset(s, o[j]) \in Int
    <3>1. Offset(bs, j) \in Nat
      BY <1>2, OffsetsGrow
    <3>2. Offset(s, o[j]) \in Nat
      BY <1>5, OffsetsGrow DEF s
    <3> QED BY <3>1, <3>2
  <2>3. Ordered(map)
    BY DEF map
  <2>4. \/ PageNumber(Offset(bs, j), map) <= PageNumber(Offset(s, o[j]), map)
        \/ PageNumber(Offset(bs, j), map) = Last(map).page
    BY <2>1, <2>2, <2>3, PageGrows
  <2> QED BY <1>3, <1>6, <1>8, <2>4 DEF bs, s, map
<1> QED BY <1>7, <1>8

-----------------------------------------------------------------------------
(* Where the rows of this attempt are filed.                               *)
Filed(rs, cs, map, now) ==
    \A i \in DOMAIN rs : rs[i].attempt = now =>
        rs[i].n \in DOMAIN cs /\ rs[i].page = PageNumber(cs[rs[i].n].start, map)
Sections ==
    (doc.strategy = "CONTENT" /\ setup.skip /\ chunks # <<>>) =>
        text \in ContentReadings /\ chunks = SemanticSplit(Clean(text.text))
PageInv ==
    /\ phase \in {"queued", "reading"} => chunks = <<>>
    /\ chunks # <<>> => Filed(rows, chunks, text.map, attempt)
    /\ phase = "saving" => Filed(todo, chunks, text.map, attempt)
    /\ Sections

LEMMA KeptFiled ==
    ASSUME NEW cs, IsSeq(cs), NEW vecs, NEW late
    PROVE  Filed(KeptOf(cs, vecs, late), cs, text.map, attempt)
<1> DEFINE row(n) == RowOf(cs, vecs, late, n)
           all == [n \in DOMAIN cs |-> row(n)]
           at == {n \in DOMAIN cs : Storable(row(n))}
           kept == KeptOf(cs, vecs, late)
<1>1. Len(cs) \in Nat /\ DOMAIN cs = 1 .. Len(cs)
  BY DEF IsSeq
<1>2. kept = Picked(all, at) /\ at \in SUBSET DOMAIN all /\ DOMAIN all = DOMAIN cs
  BY DEF KeptOf
<1>3. \A n : row(n).n = n /\ row(n).page = PageNumber(cs[n].start, text.map)
  <2>1. ASSUME NEW n PROVE row(n).n = n /\ row(n).page = PageNumber(cs[n].start, text.map)
    <3> DEFINE v == VectorOf(cs, vecs, n)
               a == Assembled(cs, n, v, late)
               page == PageNumber(cs[n].start, text.map)
               r == row(n)
    <3>1. \E role : a = [n |-> n, attempt |-> attempt, page |-> page, vec |-> v, role |-> role]
      BY DEF Assembled
    <3>2. PICK role : a = [n |-> n, attempt |-> attempt, page |-> page, vec |-> v, role |-> role]
      BY <3>1
    <3>3. r = IF Unset(a) THEN [a EXCEPT !.vec = NoVector] ELSE a
      BY DEF RowOf, Final
    <3> HIDE DEF a, r, v, page
    <3>4. r.n = n /\ r.page = page
      BY <3>2, <3>3
    <3> QED BY <3>4 DEF r, page
  <2> QED BY <2>1
<1>4. \A n \in DOMAIN cs : all[n] = row(n)
  OBVIOUS
<1>5. all = [n \in DOMAIN cs |-> all[n]]
  OBVIOUS
<1> HIDE DEF all, at, kept, row
<1>6. PICK T : all \in Seq(T)
  <2>1. all = [n \in 1 .. Len(cs) |-> all[n]] /\ Len(cs) \in Int
    BY <1>1, <1>5
  <2>2. IsSeq(all)
    BY <2>1, ByItem
  <2> QED BY <2>2 DEF IsSeq
<1>7. kept \in Seq(T) /\ \E o : PicksBy(o, kept, all, at)
  BY <1>2, <1>6, PickedBy
<1>8. PICK o : PicksBy(o, kept, all, at)
  BY <1>7
<1>9. \A k \in DOMAIN kept : o[k] \in DOMAIN cs /\ kept[k] = row(o[k])
  <2>1. DOMAIN kept = 1 .. Len(kept)
    BY <1>7
  <2> QED BY <1>2, <1>4, <1>8, <2>1 DEF PicksBy
<1>10. Filed(kept, cs, text.map, attempt)
  BY <1>3, <1>9 DEF Filed
<1> QED BY <1>10 DEF kept

LEMMA PageInvInit == ContentInit => PageInv
BY DEF ContentInit, PageInv, Sections

LEMMA PageFail ==
    ASSUME PageInv, Fail, UNCHANGED rows
    PROVE  PageInv'
BY DEF PageInv, Sections, Fail, ContentReadings, Extractions

LEMMA PageCleanup ==
    ASSUME PageInv, Cleanup
    PROVE  PageInv'
<1>1. chunks = <<>> /\ chunks' = <<>> /\ phase' \in {"reading", "failed"}
  BY DEF Cleanup, Fail, PageInv
<1> QED BY <1>1 DEF PageInv, Sections

LEMMA PageOpened ==
    ASSUME ContentInv, PageInv, phase = "reading", NEW t, NEW cs,
           NEW next \in {"encoding", "embedding"},
           doc.strategy = "CONTENT" => t \in ContentReadings /\ cs = SemanticSplit(Clean(t.text)),
           Opened(t, cs, next)
    PROVE  PageInv'
<1>1. CASE Fail /\ UNCHANGED rows
  BY <1>1, PageFail
<1>2. CASE /\ text' = t /\ chunks' = cs /\ phase' = next
           /\ UNCHANGED <<doc, setup, attempt, vectors, todo, rows>>
  <2>1. rows' = <<>> /\ DOMAIN <<>> = {}
    BY <1>2, EmptyIsSeq DEF ContentInv
  <2>2. Filed(rows', chunks', text'.map, attempt')
    BY <2>1 DEF Filed
  <2>3. Sections'
    <3>1. ContentReadings' = ContentReadings
      BY <1>2 DEF ContentReadings, Extractions
    <3> QED BY <1>2, <3>1 DEF Sections
  <2> QED BY <1>2, <2>2, <2>3 DEF PageInv
<1> QED BY <1>1, <1>2 DEF Opened

LEMMA PageRead ==
    ASSUME ContentInv, PageInv, ReadContent \/ ReadFast \/ ReadPreProcessed
    PROVE  PageInv'
<1>1. CASE ReadContent
  <2>1. PICK t \in ContentReadings :
          Opened(t, SemanticSplit(Clean(t.text)), IF setup.skip THEN "embedding" ELSE "encoding")
    BY <1>1 DEF ReadContent
  <2>2. phase = "reading"
    BY <1>1 DEF ReadContent
  <2> QED BY <2>1, <2>2, PageOpened
<1>2. CASE ReadFast
  <2>1. PICK t \in Extractions : Opened(t, Slices(t.text), "embedding")
    BY <1>2 DEF ReadFast
  <2>2. phase = "reading" /\ doc.strategy # "CONTENT"
    BY <1>2 DEF ReadFast
  <2> QED BY <2>1, <2>2, PageOpened
<1>3. CASE ReadPreProcessed
  BY <1>3, PageFail DEF ReadPreProcessed
<1> QED BY <1>1, <1>2, <1>3

LEMMA PageAssembled ==
    ASSUME ContentInv, PageInv, phase \in {"encoding", "embedding"}, NEW cs, IsSeq(cs),
           setup.skip => cs = chunks, NEW vecs, NEW late, Assemble(cs, vecs, late)
    PROVE  PageInv'
<1> DEFINE kept == KeptOf(cs, vecs, late)
<1>1. Filed(kept, cs, text.map, attempt)
  BY KeptFiled
<1>2. /\ chunks' = cs /\ todo' = kept
      /\ phase' = IF kept = <<>> THEN "failed" ELSE "saving"
      /\ UNCHANGED <<doc, setup, attempt, text, rows>>
  BY DEF Assemble, KeptOf, RowOf, VectorOf, PlaceOf, Kept, With
<1> HIDE DEF kept
<1>3. rows' = <<>> /\ DOMAIN <<>> = {}
  BY <1>2, EmptyIsSeq DEF ContentInv
<1>4. Filed(rows', chunks', text'.map, attempt')
  BY <1>3 DEF Filed
<1>5. Filed(todo', chunks', text'.map, attempt')
  BY <1>1, <1>2
<1>6. Sections'
  <2>1. ContentReadings' = ContentReadings
    BY <1>2 DEF ContentReadings, Extractions
  <2> QED BY <1>2, <2>1 DEF PageInv, Sections
<1>7. phase' \notin {"queued", "reading"}
  BY <1>2, Zenon
<1> QED BY <1>4, <1>5, <1>6, <1>7 DEF PageInv

LEMMA PageEncode ==
    ASSUME ContentInv, PageInv, Encode
    PROVE  PageInv'
<1>1. phase = "encoding" /\ ~setup.skip /\ text.text \in Seq(Block)
  BY Zenon DEF Encode, ContentInv
<1>2. CASE /\ phase' = "embedding"
           /\ UNCHANGED <<doc, setup, attempt, text, chunks, vectors, todo, rows>>
  BY <1>1, <1>2 DEF PageInv, Sections
<1>3. ASSUME NEW vecs \in LateVectors(Len(CleanSlices)), Assemble(LateChunks(vecs), vecs, TRUE)
      PROVE  PageInv'
  <2>1. IsSeq(LateChunks(vecs))
    BY <1>1, LateChunksAre
  <2> QED BY <1>1, <1>3, <2>1, PageAssembled
<1> QED BY <1>2, <1>3, EncodeBy

LEMMA PageSave ==
    ASSUME ContentInv, PageInv, SaveRows
    PROVE  PageInv'
<1> DEFINE n == Min({SaveBatch, Len(todo)})
           some == SubSeq(todo, 1, n)
           rest == SubSeq(todo, n + 1, Len(todo))
<1>1. phase = "saving" /\ IsSeq(rows) /\ IsSeq(todo) /\ Filed(todo, chunks, text.map, attempt)
  BY DEF SaveRows, ContentInv, PageInv
<1>2. Len(todo) \in Nat /\ SaveBatch \in Nat
  BY <1>1, ContentAssumption DEF IsSeq
<1>3. n \in 0 .. Len(todo)
  <2>1. n \in {SaveBatch, Len(todo)} /\ n <= Len(todo)
    <3>1. SaveBatch \in Int /\ Len(todo) \in Int
      BY <1>2
    <3> QED BY <3>1, OfTwo, Zenon
  <2> QED BY <1>2, <2>1
<1>4. CASE Fail /\ UNCHANGED rows
  BY <1>4, PageFail
<1>5. CASE /\ rows' = rows \o some /\ todo' = rest
           /\ phase' = IF n = Len(todo) THEN "processed" ELSE "saving"
           /\ UNCHANGED <<doc, setup, attempt, text, chunks, vectors>>
  <2>1. IsSeq(some) /\ \A i \in DOMAIN some : \E j \in DOMAIN todo : some[i] = todo[j]
    <3>1. PICK T : todo \in Seq(T)
      BY <1>1 DEF IsSeq
    <3> HIDE DEF n
    <3>2. DOMAIN todo = 1 .. Len(todo) /\ some \in Seq(T) /\ DOMAIN some = 1 .. n
          /\ \A i \in 1 .. n : i \in 1 .. Len(todo) /\ some[i] = todo[i]
      BY <1>2, <1>3, <3>1
    <3> HIDE DEF some
    <3> QED BY <3>2 DEF IsSeq
  <2>2. \A i \in DOMAIN rest : \E j \in DOMAIN todo : rest[i] = todo[j]
    <3> HIDE DEF n
    <3> QED BY <1>1, <1>3, SuffixIs
  <2> HIDE DEF some, rest, n
  <2>3. Filed(rest, chunks, text.map, attempt) /\ Filed(some, chunks, text.map, attempt)
    BY <1>1, <2>1, <2>2 DEF Filed
  <2> DEFINE now == rows \o some
             l == Len(rows)
             m == Len(some)
  <2>4. /\ DOMAIN rows = 1 .. l /\ DOMAIN some = 1 .. m /\ DOMAIN now = 1 .. l + m
        /\ l \in Nat /\ m \in Nat
        /\ \A k \in 1 .. l : now[k] = rows[k]
        /\ \A k \in 1 .. m : now[l + k] = some[k]
    <3>1. IsSeq(rows) /\ IsSeq(some)
      BY <1>1, <2>1
    <3>2. /\ DOMAIN rows = 1 .. Len(rows) /\ DOMAIN some = 1 .. Len(some)
          /\ DOMAIN (rows \o some) = 1 .. Len(rows) + Len(some)
          /\ Len(rows) \in Nat /\ Len(some) \in Nat
          /\ \A k \in 1 .. Len(rows) : (rows \o some)[k] = rows[k]
          /\ \A k \in 1 .. Len(some) : (rows \o some)[Len(rows) + k] = some[k]
      BY ONLY <3>1, JoinedIs
    <3> QED BY ONLY <3>2 DEF now, l, m
  <2> HIDE DEF now, l, m
  <2>5. ASSUME NEW k \in DOMAIN now
        PROVE  \/ \E i \in DOMAIN rows : now[k] = rows[i]
               \/ \E i \in DOMAIN some : now[k] = some[i]
    <3> DEFINE j == k - l
    <3>1. k \in 1 .. l \/ (j \in 1 .. m /\ k = l + j)
      BY <2>4
    <3> HIDE DEF j
    <3> QED BY <2>4, <3>1
  <2>6. chunks # <<>> => Filed(now, chunks, text.map, attempt)
    <3>1. chunks # <<>> => Filed(rows, chunks, text.map, attempt)
      BY DEF PageInv
    <3> QED BY <2>3, <2>5, <3>1 DEF Filed
  <2>7. chunks' # <<>> => Filed(rows', chunks', text'.map, attempt')
    BY <1>5, <2>6 DEF now
  <2>8. Filed(todo', chunks', text'.map, attempt')
    BY <1>5, <2>3
  <2>9. Sections'
    <3>1. ContentReadings' = ContentReadings
      BY <1>5 DEF ContentReadings, Extractions
    <3> QED BY <1>5, <3>1 DEF PageInv, Sections
  <2>10. phase' \notin {"queued", "reading"}
    BY <1>5
  <2> QED BY <2>7, <2>8, <2>9, <2>10 DEF PageInv
<1> QED BY <1>4, <1>5 DEF SaveRows

LEMMA PageInvStep == ContentInv /\ PageInv /\ [ContentNext]_contentVars => PageInv'
<1> SUFFICES ASSUME ContentInv, PageInv, [ContentNext]_contentVars PROVE PageInv'
  OBVIOUS
<1>1. CASE UNCHANGED contentVars
  BY <1>1 DEF contentVars, PageInv, Sections, ContentReadings, Extractions
<1>2. CASE Cleanup
  BY <1>2, PageCleanup
<1>3. CASE ReadContent \/ ReadFast \/ ReadPreProcessed
  BY <1>3, PageRead
<1>4. CASE Encode
  BY <1>4, PageEncode
<1>5. CASE Embed
  <2>1. phase = "embedding" /\ IsSeq(chunks)
    BY <1>5 DEF Embed, ContentInv
  <2>2. CASE \E vecs \in Outcomes(Embedded(chunks)) : Assemble(chunks, vecs, FALSE)
    BY <2>1, <2>2, PageAssembled
  <2>3. CASE Fail /\ UNCHANGED rows
    BY <2>3, PageFail
  <2> QED BY <1>5, <2>2, <2>3 DEF Embed
<1>6. CASE SaveRows
  BY <1>6, PageSave
<1>7. CASE Again
  BY <1>7 DEF Again, PageInv, Sections
<1> QED BY <1>1, <1>2, <1>3, <1>4, <1>5, <1>6, <1>7 DEF ContentNext

(* The page a chunk is filed under is the page its text starts on, although *)
(* get_page_number is given an offset of the cleaned text and looks it up   *)
(* among the windows of the text before: exact when nothing was cleaned     *)
(* away, never a later page otherwise, but for the last page.               *)
THEOREM ChunksAreOnTheirPage == ContentSpec => []PagesFaithful
<1>1. ContentInv /\ PageInv => PagesFaithful
  <2> SUFFICES ASSUME ContentInv, PageInv, doc.strategy = "CONTENT", setup.skip,
                      \A i \in DOMAIN text.text : text.text[i].len <= MaxChars,
                      NEW i \in DOMAIN rows, rows[i].attempt = attempt, chunks # <<>>
               PROVE  LET c == chunks[rows[i].n]
                      IN IF Clean(text.text) = text.text THEN rows[i].page = Located(c)
                         ELSE rows[i].page <= Located(c) \/ rows[i].page = Last(text.map).page
    BY DEF PagesFaithful
  <2> DEFINE c == chunks[rows[i].n]
             at == Offset(text.text, Where(text.text, c.blocks[1].id))
             bs == Clean(text.text)
  <2>1. rows[i].n \in DOMAIN chunks /\ rows[i].page = PageNumber(c.start, text.map)
    BY DEF PageInv, Filed
  <2>2. text \in ContentReadings /\ chunks = SemanticSplit(bs) /\ doc \in Documents
    BY DEF PageInv, Sections, ContentInv
  <2>3. Proper(text.text) /\ Ordered(text.map)
    BY <2>2, TextsAreProper, MapsAreOrdered
  <2>4. Proper(bs) /\ Small(bs)
    <3>1. Left(bs, text.text) /\ Small(text.text)
      BY <2>3, CleanLeft DEF Proper, Small
    <3> QED BY <2>3, <3>1, LeftIsProper, SmallLeft
  <2>5. AllStart(chunks, bs)
    BY <2>2, <2>4, SemanticSplitStarts
  <2>6. Starts(c, bs)
    BY <2>1, <2>5 DEF AllStart
  <2>7. Located(c) = PageNumber(at, text.map)
    BY DEF Located, Where
  <2> HIDE DEF c, at, bs
  <2>8. IF Clean(text.text) = text.text THEN PageNumber(c.start, text.map) = PageNumber(at, text.map)
        ELSE \/ PageNumber(c.start, text.map) <= PageNumber(at, text.map)
             \/ PageNumber(c.start, text.map) = Last(text.map).page
    BY <2>3, <2>6, FiledRight DEF at, bs
  <2> QED BY <2>1, <2>7, <2>8 DEF c
<1> QED BY <1>1, PageInvInit, PageInvStep, ContentInvariance, PTL DEF ContentSpec
=============================================================================
