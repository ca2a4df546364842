------------------------------ MODULE Publication ------------------------------
(***************************************************************************)
(* What publishing a pipeline promises as long as no statement fails: in   *)
(* one step, at some time between request and answer, the edges callbacks  *)
(* follow become all of a draft the user had saved when she asked, except  *)
(* edges of a task deleted meanwhile; and a request comes to nothing only  *)
(* when a task has been deleted.  PipelineCatalog implements it.           *)
(***************************************************************************)
CONSTANTS Task, Pipeline, Worker, NoPipeline

VARIABLES
  tasks,  \* the tasks there are
  gone,   \* those that have been deleted, be they there again or not
  draft,  \* the links drawn for each pipeline
  edges,  \* the links callbacks follow
  asked,  \* the publications under way: the pipeline, and the links to publish
  sound   \* no statement has failed

catalog == <<tasks, gone, draft, edges, asked, sound>>

Link == Task \X Task
Ends(l) == {l[1], l[2]}

(* No task of a set has all its predecessors in it: there is no circle. *)
Acyclic(links) ==
  \A S \in (SUBSET Task) \ {{}} : \E n \in S : \A m \in S : <<m, n>> \notin links

Nobody == [pipe |-> NoPipeline, plan |-> {}]

Init ==
  /\ tasks = Task /\ gone = {}
  /\ draft = [p \in Pipeline |-> {}]
  /\ edges = [p \in Pipeline |-> {}]
  /\ asked = [w \in Worker |-> Nobody]
  /\ sound = TRUE

(* A user draws a pipeline anew, or throws the drawing away. *)
Draw(p) ==
  /\ \E links \in SUBSET Link : Acyclic(links) /\ draft' = [draft EXCEPT ![p] = links]
  /\ UNCHANGED <<tasks, gone, edges, asked>>

Create(t) ==
  /\ tasks' = tasks \cup {t}
  /\ UNCHANGED <<gone, draft, edges, asked>>

(* A task goes: first its edges, then also the task. *)
Delete(t) ==
  /\ edges' = [p \in Pipeline |-> {l \in edges[p] : t \notin Ends(l)}]
  /\ \/ UNCHANGED <<tasks, gone>>
     \/ tasks' = tasks \ {t} /\ gone' = gone \cup {t}
  /\ UNCHANGED <<draft, asked>>

Ask(w, p) ==
  /\ asked[w] = Nobody
  /\ asked' = [asked EXCEPT ![w] = [pipe |-> p, plan |-> draft[p]]]
  /\ UNCHANGED <<tasks, gone, draft, edges>>

(* The links that may go in, and those that may be left out. *)
Whole(plan, links) ==
  /\ links \subseteq plan
  /\ \A l \in links : Ends(l) \subseteq tasks
  /\ \A l \in plan \ links : Ends(l) \cap gone # {}

Take(w) ==
  /\ asked[w].pipe \in Pipeline
  /\ \E links \in SUBSET asked[w].plan :
       Whole(asked[w].plan, links) /\ edges' = [edges EXCEPT ![asked[w].pipe] = links]
  /\ asked' = [asked EXCEPT ![w] = Nobody]
  /\ UNCHANGED <<tasks, gone, draft>>

Refuse(w) ==
  /\ asked[w] # Nobody /\ gone # {}
  /\ asked' = [asked EXCEPT ![w] = Nobody]
  /\ UNCHANGED <<tasks, gone, draft, edges>>

Act ==
  \/ \E p \in Pipeline : Draw(p) \/ \E w \in Worker : Ask(w, p)
  \/ \E t \in Task : Create(t) \/ Delete(t)
  \/ \E w \in Worker : Take(w) \/ Refuse(w)

(* Once a statement has failed nothing is promised. *)
Next == (Act /\ UNCHANGED sound) \/ ~sound'

Spec == Init /\ [][Next]_catalog
===============================================================================
