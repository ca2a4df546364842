---------------------------- MODULE PipelineCatalog ----------------------------
(***************************************************************************)
(* Tasks, the drafts of pipelines and the edges that callbacks follow.     *)
(*                                                                         *)
(* A draft is validated and saved as one row.  Publishing it takes several *)
(* statements: select, validate, BEGIN and DELETE, one INSERT per edge,    *)
(* COMMIT, none of which has its result looked at, while other workers     *)
(* publish, save, and delete tasks (three statements, no transaction).     *)
(* The database is seen through what it does to these statements: keys,    *)
(* foreign keys with cascade, and row and gap locks held to the COMMIT.    *)
(***************************************************************************)
EXTENDS Naturals, FiniteSets

CONSTANTS
  Task, Pipeline,
  Graph,        \* the sets of edges users draw
  Worker,       \* HTTP workers that handle a publish request
  NoPipeline,
  MaxDbErrors   \* bound: failed statements, deadlock victims included

ASSUME Constants ==
  /\ IsFiniteSet(Task)
  /\ Graph \subseteq SUBSET (Task \X Task)
  /\ NoPipeline \notin Pipeline
  /\ MaxDbErrors \in Nat \ {0}

Link  == Task \X Task
Draft == [saved : BOOLEAN, nodes : SUBSET Task, edges : SUBSET Link]
NoDraft == [saved |-> FALSE, nodes |-> {}, edges |-> {}]

(* plan: the edges of the draft that was read; todo: those not inserted yet; *)
(* txn: a transaction is open; cleared, added: what it has done so far.      *)
Publish == [op : {"idle", "validate", "delete", "insert"},
            pipe : Pipeline \cup {NoPipeline}, nodes : SUBSET Task,
            plan : SUBSET Link, todo : SUBSET Link,
            txn : BOOLEAN, cleared : BOOLEAN, added : SUBSET Link]
Idle == [op |-> "idle", pipe |-> NoPipeline, nodes |-> {}, plan |-> {}, todo |-> {},
         txn |-> FALSE, cleared |-> FALSE, added |-> {}]

VARIABLES
  tasks,      \* table tasks
  draft,      \* table pipelines
  edges,      \* table dag_edges, as committed: the links of each pipeline
  pub,        \* the publish requests being handled
  dropping,   \* tasks whose deletion has got to their edges, and no further
  dbErrors,
  last,       \* history: the plan published last
  gone        \* history: the tasks that have been deleted at some time

history == <<last, gone>>
vars == <<tasks, draft, edges, pub, dropping, dbErrors, last, gone>>

TypeOK ==
  /\ tasks \subseteq Task
  /\ draft \in [Pipeline -> Draft]
  /\ edges \in [Pipeline -> SUBSET Link]
  /\ pub \in [Worker -> Publish]
  /\ \A w \in Worker : pub[w].op = "idle" => pub[w] = Idle
  /\ dropping \subseteq Task
  /\ dbErrors \in 0..MaxDbErrors
  /\ last \in [Pipeline -> SUBSET Link]
  /\ gone \subseteq Task

Init ==
  /\ tasks = Task
  /\ draft = [p \in Pipeline |-> NoDraft]
  /\ edges = [p \in Pipeline |-> {}]
  /\ pub = [w \in Worker |-> Idle]
  /\ dropping = {}
  /\ dbErrors = 0
  /\ last = [p \in Pipeline |-> {}]
  /\ gone = {}

Touching(t) == {l \in Link : t \in {l[1], l[2]}}

-------------------------------------------------------------------------------
(* validate_dag. *)

(* Kahn: what is left after k rounds of taking nodes without predecessors. *)
Kahn(nodes, links) ==
  LET left[k \in 0..Cardinality(nodes)] ==
        IF k = 0 THEN nodes
        ELSE {n \in left[k - 1] : \E m \in left[k - 1] : <<m, n>> \in links}
  IN  left[Cardinality(nodes)] = {}

(* Mutant: loops and cycles are not looked for. *)
ValidOfAnyShape(nodes, links) ==
  /\ nodes \subseteq tasks
  /\ links \subseteq nodes \X nodes
Valid(nodes, links) ==
  /\ nodes \subseteq tasks
  /\ \A l \in links : l[1] # l[2]
  /\ links \subseteq nodes \X nodes
  /\ Kahn(nodes, links)

-------------------------------------------------------------------------------
(* Saving and deleting. *)

(* POST /api/pipelines, PUT /api/pipelines/{id} *)
Save(p) ==
  /\ \E nodes \in SUBSET Task, links \in Graph :
       /\ Valid(nodes, links)
       /\ draft' = [draft EXCEPT ![p] = [saved |-> TRUE, nodes |-> nodes, edges |-> links]]
  /\ UNCHANGED <<tasks, edges, pub, dropping, dbErrors, history>>

(* DELETE /api/pipelines/{id}: the edges stay. *)
DeletePipeline(p) ==
  /\ draft[p].saved
  /\ draft' = [draft EXCEPT ![p] = NoDraft]
  /\ UNCHANGED <<tasks, edges, pub, dropping, dbErrors, history>>

(* POST /api/tasks *)
CreateTask(t) ==
  /\ t \notin tasks
  /\ tasks' = tasks \cup {t}
  /\ UNCHANGED <<draft, edges, pub, dropping, dbErrors, history>>

(* The open transaction of w has removed or added edges of t and locks them. *)
Holds(w, t) ==
  /\ pub[w].txn
  /\ \/ pub[w].added \cap Touching(t) # {}
     \/ pub[w].cleared /\ edges[pub[w].pipe] \cap Touching(t) # {}
Locked(t) == \E w \in Worker : Holds(w, t)

Without(t) == [p \in Pipeline |-> edges[p] \ Touching(t)]

DbFails == dbErrors < MaxDbErrors /\ dbErrors' = dbErrors + 1

(* DELETE /api/tasks/{task_id}: its executions, its edges, *)
DropEdges(t) ==
  /\ t \in tasks /\ t \notin dropping /\ ~Locked(t)
  /\ dropping' = dropping \cup {t}
  /\ \/ edges' = Without(t) /\ UNCHANGED dbErrors
     \/ DbFails /\ UNCHANGED edges
  /\ UNCHANGED <<tasks, draft, pub, history>>

(* and the task itself, which takes edges inserted meanwhile with it. *)
DropTask(t) ==
  /\ t \in dropping /\ ~Locked(t)
  /\ dropping' = dropping \ {t}
  /\ \/ /\ tasks' = tasks \ {t} /\ edges' = Without(t) /\ UNCHANGED dbErrors
        /\ gone' = gone \cup {t}
     \/ DbFails /\ UNCHANGED <<tasks, edges, gone>>
  /\ UNCHANGED <<draft, pub, last>>

-------------------------------------------------------------------------------
(* POST /api/pipelines/{id}/publish. *)

PubSelect(w, p) ==
  /\ pub[w] = Idle /\ draft[p].saved
  /\ pub' = [pub EXCEPT ![w] =
       [Idle EXCEPT !.op = "validate", !.pipe = p,
                    !.nodes = draft[p].nodes, !.plan = draft[p].edges]]
  /\ UNCHANGED <<tasks, draft, edges, dropping, dbErrors, history>>

PubValidate(w) ==
  /\ pub[w].op = "validate"
  /\ \/ /\ pub' = [pub EXCEPT ![w] =
                   IF Valid(pub[w].nodes, pub[w].plan)
                   THEN [pub[w] EXCEPT !.op = "delete"] ELSE Idle]
        /\ UNCHANGED dbErrors
     \/ DbFails /\ pub' = [pub EXCEPT ![w] = Idle]
  /\ UNCHANGED <<tasks, draft, edges, dropping, history>>

(* Another transaction has removed or added edges of the same pipeline. *)
Ahead(w) ==
  {v \in Worker \ {w} : /\ pub[v].txn /\ pub[v].pipe = pub[w].pipe
                       /\ (pub[v].cleared \/ pub[v].added # {})}

Failures(done) == IF done THEN 0 ELSE 1

(* BEGIN, and the DELETE of the pipeline's edges.  It waits for rows that a *)
(* transaction has deleted or inserted; of rows that are not there both     *)
(* lock the gap.  Either statement may fail, and is not missed.             *)
PubDelete(w) ==
  LET p == pub[w].pipe IN
  /\ pub[w].op = "delete"
  /\ \A v \in Ahead(w) : edges[p] = {} /\ pub[v].added = {}
  /\ \E begun, deleted \in BOOLEAN :
       /\ dbErrors' = dbErrors + Failures(begun) + Failures(deleted)
       /\ dbErrors' <= MaxDbErrors
       /\ pub' = [pub EXCEPT ![w] = [pub[w] EXCEPT !.op = "insert", !.todo = pub[w].plan,
                                                  !.txn = begun, !.cleared = begun /\ deleted]]
       /\ edges' = IF deleted /\ ~begun THEN [edges EXCEPT ![p] = {}] ELSE edges
  /\ UNCHANGED <<tasks, draft, dropping, history>>

Tried(w, l, added) ==
  [pub EXCEPT ![w] = [pub[w] EXCEPT !.todo = pub[w].todo \ {l}, !.added = added]]

(* Mutant: each edge is committed by itself. *)
InsertedAlone(w, l) ==
  /\ {l[1], l[2]} \subseteq tasks
  /\ pub' = Tried(w, l, pub[w].added \cup {l})
  /\ edges' = [edges EXCEPT ![pub[w].pipe] = @ \cup {l}]
  /\ UNCHANGED dbErrors
Inserted(w, l) ==
  /\ {l[1], l[2]} \subseteq tasks
  /\ IF pub[w].txn
     THEN pub' = Tried(w, l, pub[w].added \cup {l}) /\ UNCHANGED edges
     ELSE pub' = Tried(w, l, {}) /\ edges' = [edges EXCEPT ![pub[w].pipe] = @ \cup {l}]
  /\ UNCHANGED dbErrors

(* Refused by the foreign keys when a task is gone, or failed.  (Mutant: it *)
(* is tried again.)                                                         *)
Retried(w, l) == UNCHANGED <<pub, edges, dbErrors>>
Missed(w, l) ==
  /\ \/ ~({l[1], l[2]} \subseteq tasks) /\ UNCHANGED dbErrors
     \/ {l[1], l[2]} \subseteq tasks /\ DbFails
  /\ pub' = Tried(w, l, pub[w].added)
  /\ UNCHANGED edges

(* One INSERT; a gap another transaction has locked makes it wait. *)
PubInsert(w) ==
  /\ pub[w].op = "insert" /\ Ahead(w) = {}
  /\ \E l \in pub[w].todo : Inserted(w, l) \/ Missed(w, l)
  /\ UNCHANGED <<tasks, draft, dropping, history>>

(* Two transactions wait for each other's gap, or one for a task whose      *)
(* deletion waits for its edges: the database may roll it back, and the     *)
(* worker goes on inserting, each statement on its own.                     *)
PubVictim(w) ==
  /\ pub[w].op = "insert" /\ pub[w].txn
  /\ \E l \in pub[w].todo :
       /\ \/ \E v \in Ahead(w) : pub[v].todo # {}
          \/ \E t \in dropping : Holds(w, t) /\ l \in Touching(t)
       /\ pub' = [pub EXCEPT ![w] =
            [pub[w] EXCEPT !.todo = pub[w].todo \ {l},
                           !.txn = FALSE, !.cleared = FALSE, !.added = {}]]
  /\ dbErrors' = IF dbErrors < MaxDbErrors THEN dbErrors + 1 ELSE dbErrors
  /\ UNCHANGED <<tasks, draft, edges, dropping, history>>

(* What the transaction of w, if it has one, leaves of its pipeline.        *)
(* (Mutant: the DELETE is left out.)                                        *)
OutcomeUncleared(w) == edges[pub[w].pipe] \cup pub[w].added
Outcome(w) ==
  (IF pub[w].cleared THEN {} ELSE edges[pub[w].pipe]) \cup pub[w].added

(* Mutant: the connection goes back to the pool with its transaction open. *)
PubReturn(w) ==
  /\ pub[w].op = "insert" /\ pub[w].todo = {}
  /\ pub' = [pub EXCEPT ![w].op = "idle"]
  /\ UNCHANGED <<tasks, draft, edges, dropping, dbErrors, history>>
(* COMMIT; when it fails the transaction is gone with the connection. *)
PubCommit(w) ==
  /\ pub[w].op = "insert" /\ pub[w].todo = {}
  /\ \/ /\ edges' = [edges EXCEPT ![pub[w].pipe] = Outcome(w)]
        /\ last' = [last EXCEPT ![pub[w].pipe] = pub[w].plan]
        /\ UNCHANGED dbErrors
     \/ DbFails /\ UNCHANGED <<edges, last>>
  /\ pub' = [pub EXCEPT ![w] = Idle]
  /\ UNCHANGED <<tasks, draft, dropping, gone>>

-------------------------------------------------------------------------------
Step(w) ==
  PubValidate(w) \/ PubDelete(w) \/ PubInsert(w) \/ PubVictim(w) \/ PubCommit(w)

Next ==
  \/ \E p \in Pipeline : Save(p) \/ DeletePipeline(p) \/ \E w \in Worker : PubSelect(w, p)
  \/ \E t \in Task : CreateTask(t) \/ DropEdges(t) \/ DropTask(t)
  \/ \E w \in Worker : Step(w)

Spec == Init /\ [][Next]_vars

(* A worker goes on with its handler; a lock that comes free again and      *)
(* again is got.                                                            *)
FairSpec == Spec /\ \A w \in Worker : SF_vars(Step(w))

-------------------------------------------------------------------------------
(* While no statement has failed, the edges callbacks follow come from one  *)
(* publication: two drafts of a pipeline are never mixed, however publish   *)
(* requests, saves and deletions interleave.                                *)
NoMixture == dbErrors = 0 => \A p \in Pipeline : edges[p] \subseteq last[p]

(* While no statement has failed, a publication is one step that puts all   *)
(* of a saved draft in the place of the edges there were, but for edges of  *)
(* tasks deleted meanwhile, although it takes many statements.              *)
Atomic == INSTANCE Publication WITH
  draft <- [p \in Pipeline |-> draft[p].edges],
  asked <- [w \in Worker |-> [pipe |-> pub[w].pipe, plan |-> pub[w].plan]],
  sound <- dbErrors = 0
ImplementsPublication == Atomic!Spec

(* While no statement has failed, the edges callbacks follow have no circle *)
(* (which is not stated by Kahn's algorithm), so a run of a pipeline comes  *)
(* to an end.                                                               *)
PublishedAcyclic ==
  dbErrors = 0 => \A p \in Pipeline : Atomic!Acyclic(edges[p])

(* A publish request is always answered: waiting for another publication's  *)
(* rows, or for each other's gaps, ends.                                    *)
PublishEnds == \A w \in Worker : pub[w].op # "idle" ~> pub[w].op = "idle"

(* "A transaction ensures atomicity": a publish request leaves the pipeline *)
(* with all edges of its draft between existing tasks, or as it was.        *)
(* Refuted by an INSERT that fails and is not missed.                       *)
PublishIsWhole ==
  [][\A w \in Worker :
       pub[w].op = "insert" /\ pub'[w].op = "idle" =>
         LET p == pub[w].pipe IN
         edges'[p] \in {edges[p], {l \in pub[w].plan : l[1] \in tasks /\ l[2] \in tasks}}]_vars
===============================================================================
