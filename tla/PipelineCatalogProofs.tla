-------------------------- MODULE PipelineCatalogProofs -------------------------
(***************************************************************************)
(* Proofs about PipelineCatalog, for any number of tasks, pipelines,       *)
(* drawings and workers: Kahn's algorithm finds circles, the invariant of  *)
(* the catalogue, and that a publication is one step.                      *)
(***************************************************************************)
EXTENDS PipelineCatalog, WellOrder, FiniteSetTheorems

-------------------------------------------------------------------------------
(* The invariant. *)

Acyclic(links) == Atomic!Acyclic(links)
Ends(l) == Atomic!Ends(l)

(* What validate_dag has looked at, but for the tasks being there. *)
Shaped(nodes, links) ==
  /\ \A l \in links : l[1] # l[2]
  /\ links \subseteq nodes \X nodes
  /\ Acyclic(links)

(* Drawings are kept as they were validated, also by those who publish them.*)
Drawn ==
  /\ \A p \in Pipeline : Shaped(draft[p].nodes, draft[p].edges) /\ Acyclic(last[p])
  /\ \A w \in Worker : /\ Shaped(pub[w].nodes, pub[w].plan)
                       /\ pub[w].op # "idle" => pub[w].pipe \in Pipeline
  /\ Task \ tasks \subseteq gone

(* Until a statement fails, a request that inserts is inside a transaction  *)
(* that has cleared the pipeline and has added nothing but its own plan,    *)
(* between tasks there are, and has left out only links of deleted tasks.   *)
Own(w) ==
  /\ pub[w].todo \subseteq pub[w].plan
  /\ pub[w].added \subseteq pub[w].plan
  /\ pub[w].op = "insert" => pub[w].txn /\ pub[w].cleared
  /\ pub[w].op # "insert" => pub[w].added = {}
  /\ \A l \in pub[w].added : Ends(l) \subseteq tasks
  /\ pub[w].op = "insert" =>
       \A l \in pub[w].plan \ (pub[w].todo \cup pub[w].added) : Ends(l) \cap gone # {}

Clean ==
  /\ \A w \in Worker : Own(w)
  /\ \A p \in Pipeline : edges[p] \subseteq last[p]

Inv == TypeOK /\ Drawn /\ (dbErrors = 0 => Clean)

-------------------------------------------------------------------------------
(* Kahn's algorithm. *)

Later(rest, links) == {n \in rest : \E m \in rest : <<m, n>> \in links}
IsRounds(g, N, nodes, links) ==
  g = [k \in 0..N |-> IF k = 0 THEN nodes ELSE Later(g[k - 1], links)]

LEMMA RoundsExist ==
  ASSUME NEW nodes, NEW links, NEW N \in Nat
  PROVE  \E g : IsRounds(g, N, nodes, links)
<1> DEFINE S == {n \in Nat : \E g : IsRounds(g, n, nodes, links)}
<1>1. 0 \in S
  <2>1. IsRounds([k \in 0..0 |-> nodes], 0, nodes, links)
    BY DEF IsRounds
  <2> QED
    BY <2>1
<1>2. ASSUME NEW n \in 1..N, n - 1 \in S PROVE n \in S
  <2>1. PICK h : IsRounds(h, n - 1, nodes, links)
    BY <1>2
  <2> DEFINE g == [k \in 0..n |-> IF k < n THEN h[k] ELSE Later(h[n - 1], links)]
  <2>2. ASSUME NEW k \in 0..n PROVE g[k] = IF k = 0 THEN nodes ELSE Later(g[k - 1], links)
    <3>1. CASE k = n
      BY <3>1
    <3>2. CASE k < n
      <4>1. k \in 0..(n - 1)
        BY <3>2
      <4>2. h[k] = IF k = 0 THEN nodes ELSE Later(h[k - 1], links)
        BY <2>1, <4>1 DEF IsRounds
      <4> QED
        BY <3>2, <4>2
    <3> QED
      BY <3>1, <3>2
  <2>3. IsRounds(g, n, nodes, links)
    BY <2>2 DEF IsRounds
  <2> QED
    BY <2>3
<1>3. \A k \in 0..N : k \in S
  <2> HIDE DEF S
  <2> QED
    BY <1>1, <1>2, Induction
<1> QED
  BY <1>3

LEMMA KahnRounds ==
  ASSUME NEW nodes, NEW links, IsFiniteSet(nodes)
  PROVE  \E g : /\ IsRounds(g, Cardinality(nodes), nodes, links)
                /\ Kahn(nodes, links) <=> g[Cardinality(nodes)] = {}
<1> DEFINE N == Cardinality(nodes)
           Is(g) == g = [k \in 0..N |->
                      IF k = 0 THEN nodes
                      ELSE {n \in g[k - 1] : \E m \in g[k - 1] : <<m, n>> \in links}]
           left == CHOOSE g : Is(g)
<1>1. N \in Nat
  BY FS_CardinalityType
<1>2. \E g : Is(g)
  <2>1. PICK g : IsRounds(g, N, nodes, links)
    BY <1>1, RoundsExist
  <2>2. Is(g)
    BY <2>1 DEF IsRounds, Later
  <2> QED
    BY <2>2
<1>3. Is(left)
  <2> HIDE DEF Is
  <2> QED
    BY <1>2
<1>4. IsRounds(left, N, nodes, links)
  BY <1>3 DEF IsRounds, Later
<1>5. Kahn(nodes, links) <=> left[N] = {}
  BY DEF Kahn
<1> QED
  BY <1>4, <1>5

LEMMA RoundStep ==
  ASSUME NEW nodes, NEW links, NEW N \in Nat, NEW g, IsRounds(g, N, nodes, links)
  PROVE  /\ g[0] = nodes
         /\ \A k \in 1..N : g[k] = Later(g[k - 1], links)
BY DEF IsRounds

(* A circle of tasks survives every round. *)
LEMMA CircleStays ==
  ASSUME NEW nodes, NEW links, links \subseteq nodes \X nodes, NEW N \in Nat, NEW g,
         IsRounds(g, N, nodes, links),
         NEW S, \A n \in S : \E m \in S : <<m, n>> \in links
  PROVE  \A k \in 0..N : S \subseteq g[k]
<1>r. g[0] = nodes /\ \A k \in 1..N : g[k] = Later(g[k - 1], links)
  BY RoundStep
<1> DEFINE T == {k \in 0..N : S \subseteq g[k]}
<1>1. 0 \in T
  <2>1. S \subseteq nodes
    OBVIOUS
  <2> QED
    BY <1>r, <2>1
<1>2. ASSUME NEW k \in 1..N, k - 1 \in T PROVE k \in T
  <2>1. S \subseteq Later(g[k - 1], links)
    BY <1>2 DEF Later
  <2> QED
    BY <1>r, <2>1
<1>3. \A k \in 0..N : k \in T
  <2> HIDE DEF T
  <2> QED
    BY <1>1, <1>2, Induction
<1> QED
  BY <1>3

(* Without a circle each round takes a node. *)
LEMMA RoundsTake ==
  ASSUME NEW nodes \in SUBSET Task, NEW links, IsFiniteSet(nodes), Acyclic(links),
         NEW N \in Nat, NEW g, IsRounds(g, N, nodes, links)
  PROVE  \A k \in 0..N : /\ g[k] \subseteq nodes
                         /\ g[k] = {} \/ Cardinality(g[k]) <= Cardinality(nodes) - k
<1> DEFINE P(k) == /\ g[k] \subseteq nodes
                   /\ g[k] = {} \/ Cardinality(g[k]) <= Cardinality(nodes) - k
           T == {k \in 0..N : P(k)}
<1>1. Cardinality(nodes) \in Nat
  BY FS_CardinalityType
<1>r. g[0] = nodes /\ \A j \in 1..N : g[j] = Later(g[j - 1], links)
  BY RoundStep
<1>2. 0 \in T
  BY <1>1, <1>r
<1> HIDE DEF P
<1>3. ASSUME NEW k \in 1..N, P(k - 1) PROVE P(k)
  <2> DEFINE L == g[k - 1]
  <2>1. g[k] = Later(L, links)
    BY <1>r
  <2>2. L \subseteq nodes /\ (L = {} \/ Cardinality(L) <= Cardinality(nodes) - (k - 1))
    BY <1>3 DEF P
  <2>3. CASE L = {}
    <3>1. g[k] = {}
      BY <2>1, <2>3 DEF Later
    <3> QED
      BY <3>1 DEF P
  <2>4. CASE L # {}
    <3>1. PICK n \in L : n \notin Later(L, links)
      BY <2>2, <2>4 DEF Acyclic, Atomic!Acyclic, Later
    <3>2. IsFiniteSet(L) /\ Later(L, links) \in SUBSET L /\ Later(L, links) # L
      BY <2>2, <3>1, FS_Subset DEF Later
    <3>3. /\ Cardinality(Later(L, links)) <= Cardinality(L)
          /\ Cardinality(Later(L, links)) # Cardinality(L)
      BY <3>2, FS_Subset
    <3>4. Cardinality(Later(L, links)) \in Nat /\ Cardinality(L) \in Nat
      BY <3>2, FS_Subset, FS_CardinalityType
    <3>5. Cardinality(Later(L, links)) <= Cardinality(nodes) - k
      BY <1>1, <2>2, <2>4, <3>3, <3>4
    <3> QED
      BY <2>1, <2>2, <3>2, <3>5 DEF P
  <2> QED
    BY <2>3, <2>4
<1>4. \A k \in 0..N : k \in T
  <2>1. \A k \in 1..N : k - 1 \in T => k \in T
    BY <1>3
  <2> HIDE DEF T
  <2> QED
    BY <1>2, <2>1, Induction
<1> QED
  BY <1>4 DEF P

(* validate_dag's topological sort finds a circle exactly if there is one. *)
THEOREM KahnFindsCycles ==
  ASSUME NEW nodes \in SUBSET Task, NEW links \in SUBSET (nodes \X nodes)
  PROVE  Kahn(nodes, links) <=> Acyclic(links)
<1>f. IsFiniteSet(nodes)
  BY Constants, FS_Subset
<1> DEFINE N == Cardinality(nodes)
<1>1. N \in Nat
  BY <1>f, FS_CardinalityType
<1>2. PICK g : /\ IsRounds(g, N, nodes, links)
               /\ Kahn(nodes, links) <=> g[N] = {}
  BY <1>f, KahnRounds
<1> HIDE DEF N
<1>3. ASSUME g[N] = {} PROVE Acyclic(links)
  <2> SUFFICES ASSUME NEW S \in (SUBSET Task) \ {{}}, \A n \in S : \E m \in S : <<m, n>> \in links
               PROVE FALSE
    BY DEF Acyclic, Atomic!Acyclic
  <2>1. \A k \in 0..N : S \subseteq g[k]
    BY <1>1, <1>2, CircleStays
  <2> QED
    BY <1>1, <1>3, <2>1
<1>4. ASSUME Acyclic(links) PROVE g[N] = {}
  <2>0. \A k \in 0..N : g[k] \subseteq nodes /\ (g[k] = {} \/ Cardinality(g[k]) <= N - k)
    BY <1>f, <1>1, <1>2, <1>4, RoundsTake DEF N
  <2>1. g[N] \subseteq nodes /\ (g[N] = {} \/ Cardinality(g[N]) <= N - N)
    BY <1>1, <2>0
  <2>2. IsFiniteSet(g[N]) /\ Cardinality(g[N]) \in Nat
    BY <1>f, <2>1, FS_Subset, FS_CardinalityType
  <2> QED
    BY <1>1, <2>1, <2>2, FS_EmptySet
<1> QED
  BY <1>2, <1>3, <1>4

-------------------------------------------------------------------------------
(* Types. *)

USE DEF Link, history

LEMMA IdleTyped == Idle \in Publish
BY DEF Idle, Publish

LEMMA TypeInit == Init => TypeOK
BY Constants, IdleTyped DEF Init, TypeOK, Draft, NoDraft

(* A failed statement is counted, and the count never goes back. *)
LEMMA Counted == ASSUME TypeOK, DbFails PROVE dbErrors' \in 1..MaxDbErrors
BY Constants DEF TypeOK, DbFails

(* What a request looks like after each step of its handler. *)
LEMMA Updated ==
  ASSUME TypeOK, NEW w \in Worker, NEW r \in Publish, r.op = "idle" => r = Idle,
         pub' = [pub EXCEPT ![w] = r]
  PROVE  /\ pub' \in [Worker -> Publish]
         /\ \A v \in Worker : pub'[v].op = "idle" => pub'[v] = Idle
BY DEF TypeOK

LEMMA TriedTyped ==
  ASSUME TypeOK, NEW w \in Worker, pub[w].op = "insert", NEW l, NEW added \in SUBSET Link,
         pub' = Tried(w, l, added)
  PROVE  /\ pub' \in [Worker -> Publish]
         /\ \A v \in Worker : pub'[v].op = "idle" => pub'[v] = Idle
<1> DEFINE r == [pub[w] EXCEPT !.todo = pub[w].todo \ {l}, !.added = added]
<1>1. pub[w] \in Publish
  BY DEF TypeOK
<1>2. r \in Publish /\ r.op = "insert"
  BY <1>1 DEF Publish
<1>3. pub' = [pub EXCEPT ![w] = r]
  BY DEF Tried
<1> QED
  BY <1>2, <1>3, Updated

LEMMA TypeStep == TypeOK /\ [Next]_vars => TypeOK'
<1> SUFFICES ASSUME TypeOK, [Next]_vars PROVE TypeOK'
  OBVIOUS
<1>1. CASE UNCHANGED vars
  BY <1>1 DEF TypeOK, vars
<1>2. ASSUME NEW p \in Pipeline, Save(p) PROVE TypeOK'
  BY <1>2, Constants DEF TypeOK, Save, Draft
<1>3. ASSUME NEW p \in Pipeline, DeletePipeline(p) PROVE TypeOK'
  BY <1>3 DEF TypeOK, DeletePipeline, Draft, NoDraft
<1>4. ASSUME NEW t \in Task, CreateTask(t) \/ DropEdges(t) \/ DropTask(t) PROVE TypeOK'
  BY <1>4, Counted DEF TypeOK, CreateTask, DropEdges, DropTask, Without
<1>5. ASSUME NEW w \in Worker, NEW p \in Pipeline, PubSelect(w, p) PROVE TypeOK'
  BY <1>5 DEF TypeOK, PubSelect, Publish, Idle, Draft
<1>6. ASSUME NEW w \in Worker, PubValidate(w) PROVE TypeOK'
  <2> DEFINE r == [pub[w] EXCEPT !.op = "delete"]
  <2>1. r \in Publish /\ r.op = "delete"
    BY DEF TypeOK, Publish
  <2>2. \/ pub' = [pub EXCEPT ![w] = r]
        \/ pub' = [pub EXCEPT ![w] = Idle]
    BY <1>6 DEF PubValidate
  <2>3. /\ pub' \in [Worker -> Publish]
        /\ \A v \in Worker : pub'[v].op = "idle" => pub'[v] = Idle
    BY <2>1, <2>2, IdleTyped, Updated
  <2>4. dbErrors' \in 0..MaxDbErrors
    BY <1>6, Counted, Constants DEF TypeOK, PubValidate
  <2> QED
    BY <1>6, <2>3, <2>4 DEF TypeOK, PubValidate
<1>7. ASSUME NEW w \in Worker, PubDelete(w) PROVE TypeOK'
  <2>1. PICK begun, deleted \in BOOLEAN :
          /\ dbErrors' = dbErrors + Failures(begun) + Failures(deleted)
          /\ dbErrors' <= MaxDbErrors
          /\ pub' = [pub EXCEPT ![w] = [pub[w] EXCEPT !.op = "insert", !.todo = pub[w].plan,
                                                     !.txn = begun, !.cleared = begun /\ deleted]]
          /\ edges' = IF deleted /\ ~begun THEN [edges EXCEPT ![pub[w].pipe] = {}] ELSE edges
    BY <1>7 DEF PubDelete
  <2> DEFINE r == [pub[w] EXCEPT !.op = "insert", !.todo = pub[w].plan,
                                 !.txn = begun, !.cleared = begun /\ deleted]
  <2>2. pub[w] \in Publish
    BY DEF TypeOK
  <2>3. r \in Publish /\ r.op = "insert"
    BY <2>2 DEF Publish
  <2>4. /\ pub' \in [Worker -> Publish]
        /\ \A v \in Worker : pub'[v].op = "idle" => pub'[v] = Idle
    BY <2>1, <2>3, Updated
  <2>5. dbErrors' \in 0..MaxDbErrors
    BY <2>1, Constants DEF TypeOK, Failures
  <2>6. edges' \in [Pipeline -> SUBSET Link]
    BY <2>1 DEF TypeOK
  <2> QED
    BY <1>7, <2>4, <2>5, <2>6 DEF TypeOK, PubDelete
<1>8. ASSUME NEW w \in Worker, PubInsert(w) PROVE TypeOK'
  <2>1. pub[w] \in Publish /\ pub[w].op = "insert"
    BY <1>8 DEF TypeOK, PubInsert
  <2>2. pub[w].todo \subseteq Link /\ pub[w].added \subseteq Link
    BY <2>1 DEF Publish
  <2>3. PICK l \in pub[w].todo : Inserted(w, l) \/ Missed(w, l)
    BY <1>8 DEF PubInsert
  <2>4. \E added \in SUBSET Link : pub' = Tried(w, l, added)
    BY <2>2, <2>3 DEF Inserted, Missed
  <2>5. /\ pub' \in [Worker -> Publish]
        /\ \A v \in Worker : pub'[v].op = "idle" => pub'[v] = Idle
    BY <2>1, <2>4, TriedTyped
  <2>6. dbErrors' \in 0..MaxDbErrors /\ edges' \in [Pipeline -> SUBSET Link]
    BY <2>2, <2>3, Counted DEF Inserted, Missed, TypeOK
  <2> QED
    BY <1>8, <2>5, <2>6 DEF TypeOK, PubInsert
<1>9. ASSUME NEW w \in Worker, PubVictim(w) PROVE TypeOK'
  <2>1. PICK l \in pub[w].todo :
          pub' = [pub EXCEPT ![w] =
            [pub[w] EXCEPT !.todo = pub[w].todo \ {l}, !.txn = FALSE, !.cleared = FALSE, !.added = {}]]
    BY <1>9 DEF PubVictim
  <2> DEFINE r == [pub[w] EXCEPT !.todo = pub[w].todo \ {l}, !.txn = FALSE, !.cleared = FALSE,
                                 !.added = {}]
  <2>2. pub[w] \in Publish /\ pub[w].op = "insert"
    BY <1>9 DEF TypeOK, PubVictim
  <2>3. r \in Publish /\ r.op = "insert"
    BY <2>2 DEF Publish
  <2>4. pub' = [pub EXCEPT ![w] = r]
    BY <2>1
  <2>5. /\ pub' \in [Worker -> Publish]
        /\ \A v \in Worker : pub'[v].op = "idle" => pub'[v] = Idle
    BY <2>3, <2>4, Updated
  <2> QED
    BY <1>9, <2>5, Constants DEF TypeOK, PubVictim
<1>10. ASSUME NEW w \in Worker, PubCommit(w) PROVE TypeOK'
  <2>1. pub[w] \in Publish
    BY DEF TypeOK
  <2>2. pub[w].plan \subseteq Link /\ pub[w].added \subseteq Link
    BY <2>1 DEF Publish
  <2>4. /\ pub' \in [Worker -> Publish]
        /\ \A v \in Worker : pub'[v].op = "idle" => pub'[v] = Idle
    BY <1>10, IdleTyped, Updated DEF PubCommit
  <2>5. CASE UNCHANGED <<edges, last>> /\ DbFails
    BY <1>10, <2>4, <2>5, Counted DEF TypeOK, PubCommit
  <2>6. CASE /\ edges' = [edges EXCEPT ![pub[w].pipe] = Outcome(w)]
             /\ last' = [last EXCEPT ![pub[w].pipe] = pub[w].plan]
             /\ UNCHANGED dbErrors
    <3>1. CASE pub[w].pipe \in Pipeline
      <4>1. Outcome(w) \subseteq Link
        BY <2>2, <3>1 DEF Outcome, TypeOK
      <4>2. edges' \in [Pipeline -> SUBSET Link] /\ last' \in [Pipeline -> SUBSET Link]
        BY <2>2, <2>6, <4>1 DEF TypeOK
      <4> QED
        BY <1>10, <2>4, <2>6, <4>2 DEF TypeOK, PubCommit
    <3>2. CASE pub[w].pipe \notin Pipeline
      <4>1. edges' = edges /\ last' = last
        BY <2>6, <3>2 DEF TypeOK
      <4> QED
        BY <1>10, <2>4, <2>6, <4>1 DEF TypeOK, PubCommit
    <3> QED
      BY <3>1, <3>2
  <2> QED
    BY <1>10, <2>5, <2>6 DEF PubCommit
<1> QED
  BY <1>1, <1>2, <1>3, <1>4, <1>5, <1>6, <1>7, <1>8, <1>9, <1>10 DEF Next, Step

-------------------------------------------------------------------------------
(* Drawings. *)

LEMMA NothingShaped == Shaped({}, {}) /\ Acyclic({})
BY DEF Shaped, Acyclic, Atomic!Acyclic

LEMMA ValidShaped ==
  ASSUME NEW nodes \in SUBSET Task, NEW links \in SUBSET Link, Valid(nodes, links)
  PROVE  Shaped(nodes, links)
BY KahnFindsCycles DEF Valid, Shaped

LEMMA PartAcyclic ==
  ASSUME NEW links, NEW part \in SUBSET links, Acyclic(links) PROVE Acyclic(part)
BY DEF Acyclic, Atomic!Acyclic

(* What was validated once is refused later only if a task is gone. *)
LEMMA RefusedAsGone ==
  ASSUME NEW nodes \in SUBSET Task, NEW links \in SUBSET Link, Shaped(nodes, links),
         ~Valid(nodes, links)
  PROVE  ~(nodes \subseteq tasks)
BY KahnFindsCycles DEF Valid, Shaped

LEMMA DrawnInit == Init => Drawn
<1> SUFFICES ASSUME Init PROVE Drawn
  OBVIOUS
<1>1. \A p \in Pipeline : draft[p].nodes = {} /\ draft[p].edges = {} /\ last[p] = {}
  BY DEF Init, NoDraft
<1>2. \A w \in Worker : pub[w].op = "idle" /\ pub[w].nodes = {} /\ pub[w].plan = {}
  BY DEF Init, Idle
<1> QED
  BY <1>1, <1>2, NothingShaped DEF Init, Drawn

(* The parts of a request that make the drawing it publishes stay, or the   *)
(* worker is free again.                                                    *)
LEMMA Kept ==
  ASSUME TypeOK, NEW w \in Worker, Step(w)
  PROVE  /\ \A v \in Worker \ {w} : pub'[v] = pub[v]
         /\ \/ pub'[w] = Idle
            \/ /\ pub'[w].pipe = pub[w].pipe /\ pub'[w].nodes = pub[w].nodes
               /\ pub'[w].plan = pub[w].plan /\ pub[w].op # "idle"
<1> DEFINE Keeps(r) == /\ r.pipe = pub[w].pipe /\ r.nodes = pub[w].nodes
                       /\ r.plan = pub[w].plan
<1>1. pub \in [Worker -> Publish] /\ pub[w] \in Publish
  BY DEF TypeOK
<1>2. ASSUME NEW r, pub' = [pub EXCEPT ![w] = r] PROVE pub'[w] = r /\ \A v \in Worker \ {w} : pub'[v] = pub[v]
  BY <1>1, <1>2
<1>3. CASE PubValidate(w)
  <2>1. Keeps([pub[w] EXCEPT !.op = "delete"]) /\ pub[w].op # "idle"
    BY <1>1, <1>3 DEF Publish, PubValidate
  <2> QED
    BY <1>2, <1>3, <2>1 DEF PubValidate
<1>4. CASE PubDelete(w)
  <2>1. PICK begun, deleted \in BOOLEAN :
          pub' = [pub EXCEPT ![w] = [pub[w] EXCEPT !.op = "insert", !.todo = pub[w].plan,
                                                 !.txn = begun, !.cleared = begun /\ deleted]]
    BY <1>4 DEF PubDelete
  <2> DEFINE r == [pub[w] EXCEPT !.op = "insert", !.todo = pub[w].plan,
                                 !.txn = begun, !.cleared = begun /\ deleted]
  <2>2. Keeps(r) /\ pub[w].op # "idle"
    BY <1>1, <1>4 DEF Publish, PubDelete
  <2> QED
    BY <1>2, <2>1, <2>2
<1>5. CASE PubInsert(w)
  <2>1. PICK l, added : pub' = Tried(w, l, added)
    BY <1>5 DEF PubInsert, Inserted, Missed
  <2> DEFINE r == [pub[w] EXCEPT !.todo = pub[w].todo \ {l}, !.added = added]
  <2>2. Keeps(r) /\ pub[w].op # "idle"
    BY <1>1, <1>5 DEF Publish, PubInsert
  <2> QED
    BY <1>2, <2>1, <2>2 DEF Tried
<1>6. CASE PubVictim(w)
  <2>1. PICK l :
          pub' = [pub EXCEPT ![w] =
            [pub[w] EXCEPT !.todo = pub[w].todo \ {l}, !.txn = FALSE, !.cleared = FALSE, !.added = {}]]
    BY <1>6 DEF PubVictim
  <2> DEFINE r == [pub[w] EXCEPT !.todo = pub[w].todo \ {l}, !.txn = FALSE, !.cleared = FALSE,
                                 !.added = {}]
  <2>2. Keeps(r) /\ pub[w].op # "idle"
    BY <1>1, <1>6 DEF Publish, PubVictim
  <2> QED
    BY <1>2, <2>1, <2>2
<1>7. CASE PubCommit(w)
  BY <1>2, <1>7 DEF PubCommit
<1> QED
  BY <1>3, <1>4, <1>5, <1>6, <1>7 DEF Step

LEMMA DrawnStep == TypeOK /\ TypeOK' /\ Drawn /\ [Next]_vars => Drawn'
<1> SUFFICES ASSUME TypeOK, TypeOK', Drawn, [Next]_vars PROVE Drawn'
  OBVIOUS
<1> USE DEF Shaped
<1>1. CASE UNCHANGED vars
  BY <1>1 DEF Drawn, vars
<1>2. ASSUME NEW p \in Pipeline, Save(p) PROVE Drawn'
  <2>1. PICK nodes \in SUBSET Task, links \in Graph :
          /\ Valid(nodes, links)
          /\ draft' = [draft EXCEPT ![p] = [saved |-> TRUE, nodes |-> nodes, edges |-> links]]
    BY <1>2 DEF Save
  <2>2. Shaped(nodes, links)
    BY <2>1, ValidShaped, Constants
  <2>3. draft'[p].nodes = nodes /\ draft'[p].edges = links
    BY <2>1 DEF TypeOK
  <2>4. \A q \in Pipeline \ {p} : draft'[q] = draft[q]
    BY <2>1 DEF TypeOK
  <2> QED
    BY <1>2, <2>2, <2>3, <2>4 DEF Drawn, Save
<1>3. ASSUME NEW p \in Pipeline, DeletePipeline(p) PROVE Drawn'
  <2>1. draft'[p] = NoDraft /\ \A q \in Pipeline \ {p} : draft'[q] = draft[q]
    BY <1>3 DEF TypeOK, DeletePipeline
  <2> QED
    BY <1>3, <2>1, NothingShaped DEF Drawn, DeletePipeline, NoDraft
<1>4. ASSUME NEW t \in Task, CreateTask(t) \/ DropEdges(t) \/ DropTask(t) PROVE Drawn'
  BY <1>4 DEF Drawn, CreateTask, DropEdges, DropTask
<1>5. ASSUME NEW w \in Worker, NEW p \in Pipeline, PubSelect(w, p) PROVE Drawn'
  <2>1. /\ pub'[w].pipe = p /\ pub'[w].nodes = draft[p].nodes /\ pub'[w].plan = draft[p].edges
        /\ \A v \in Worker \ {w} : pub'[v] = pub[v]
    BY <1>5 DEF TypeOK, PubSelect, Idle
  <2> QED
    BY <1>5, <2>1 DEF Drawn, PubSelect
<1>6. ASSUME NEW w \in Worker, Step(w) PROVE Drawn'
  <2>1. /\ \A v \in Worker \ {w} : pub'[v] = pub[v]
        /\ \/ pub'[w] = Idle
           \/ /\ pub'[w].pipe = pub[w].pipe /\ pub'[w].nodes = pub[w].nodes
              /\ pub'[w].plan = pub[w].plan /\ pub[w].op # "idle"
    BY <1>6, Kept
  <2>2. /\ \A v \in Worker : /\ Shaped(pub'[v].nodes, pub'[v].plan)
                             /\ pub'[v].op # "idle" => pub'[v].pipe \in Pipeline
    BY <2>1, NothingShaped DEF Drawn, Idle
  <2>3. \A p \in Pipeline : Acyclic(last'[p])
    <3>1. CASE UNCHANGED last
      BY <3>1 DEF Drawn
    <3>2. CASE last' = [last EXCEPT ![pub[w].pipe] = pub[w].plan]
      BY <3>2 DEF Drawn, TypeOK
    <3> QED
      BY <1>6, <3>1, <3>2 DEF Step, PubValidate, PubDelete, PubInsert, PubVictim, PubCommit
  <2>4. UNCHANGED <<draft, tasks, gone>>
    BY <1>6 DEF Step, PubValidate, PubDelete, PubInsert, PubVictim, PubCommit
  <2> QED
    BY <2>2, <2>3, <2>4 DEF Drawn
<1> QED
  BY <1>1, <1>2, <1>3, <1>4, <1>5, <1>6 DEF Next

-------------------------------------------------------------------------------
(* Publications. *)

LEMMA CleanInit == Init => Clean
BY DEF Init, Clean, Own, Idle

(* A transaction that has added a link of a task holds the task's deletion. *)
LEMMA Unlocked ==
  ASSUME TypeOK, NEW w \in Worker, Own(w), NEW t \in Task, ~Locked(t)
  PROVE  \A l \in pub[w].added : t \notin Ends(l)
<1>1. ~(pub[w].txn /\ pub[w].added \cap Touching(t) # {})
  BY DEF Locked, Holds
<1>2. pub[w] \in Publish /\ (pub[w].op # "insert" => pub[w].added = {})
  BY DEF TypeOK, Own
<1>3. pub[w].added \subseteq Link /\ (pub[w].added # {} => pub[w].txn)
  BY <1>2 DEF Own, Publish
<1> QED
  BY <1>1, <1>3 DEF Touching, Ends, Atomic!Ends

LEMMA CleanStep ==
  ASSUME TypeOK, TypeOK', Drawn, Clean, [Next]_vars, dbErrors' = 0
  PROVE  Clean'
<1>c. ~DbFails
  BY Counted
<1>1. CASE UNCHANGED vars
  BY <1>1 DEF Clean, Own, vars
<1>2. ASSUME NEW p \in Pipeline, Save(p) \/ DeletePipeline(p) PROVE Clean'
  BY <1>2 DEF Clean, Own, Save, DeletePipeline
<1>3. ASSUME NEW t \in Task, CreateTask(t) \/ DropEdges(t) PROVE Clean'
  BY <1>3, <1>c DEF Clean, Own, CreateTask, DropEdges, Without, TypeOK
<1>4. ASSUME NEW t \in Task, DropTask(t) PROVE Clean'
  <2>1. /\ tasks' = tasks \ {t} /\ gone' = gone \cup {t} /\ edges' = Without(t)
        /\ UNCHANGED <<pub, last>> /\ ~Locked(t)
    BY <1>4, <1>c DEF DropTask
  <2>2. ASSUME NEW w \in Worker PROVE Own(w)'
    <3>1. \A l \in pub[w].added : Ends(l) \subseteq tasks'
      BY <2>1, Unlocked DEF Clean, Own
    <3>2. pub[w].op = "insert" =>
            \A l \in pub[w].plan \ (pub[w].todo \cup pub[w].added) : Ends(l) \cap gone' # {}
      BY <2>1 DEF Clean, Own
    <3> QED
      BY <2>1, <3>1, <3>2 DEF Clean, Own
  <2>3. \A p \in Pipeline : edges'[p] \subseteq last'[p]
    BY <2>1 DEF Clean, Without
  <2> QED
    BY <2>2, <2>3 DEF Clean
<1>5. ASSUME NEW w \in Worker, NEW p \in Pipeline, PubSelect(w, p) PROVE Clean'
  BY <1>5 DEF Clean, Own, PubSelect, Idle, TypeOK
<1>6. ASSUME NEW w \in Worker, PubValidate(w) PROVE Clean'
  <2>1. pub[w] \in Publish
    BY DEF TypeOK
  <2>2. PICK r : /\ r = Idle \/ r = [pub[w] EXCEPT !.op = "delete"]
                 /\ pub' = [pub EXCEPT ![w] = r]
    BY <1>6 DEF PubValidate
  <2>3. Own(w)'
    BY <1>6, <2>1, <2>2 DEF Clean, Own, Idle, TypeOK, Publish, PubValidate
  <2> QED
    BY <1>6, <2>1, <2>2, <2>3 DEF Clean, Own, PubValidate, TypeOK
<1>7. ASSUME NEW w \in Worker, PubDelete(w) PROVE Clean'
  <2>1. PICK begun, deleted \in BOOLEAN :
          /\ dbErrors' = dbErrors + Failures(begun) + Failures(deleted)
          /\ pub' = [pub EXCEPT ![w] = [pub[w] EXCEPT !.op = "insert", !.todo = pub[w].plan,
                                                     !.txn = begun, !.cleared = begun /\ deleted]]
          /\ edges' = IF deleted /\ ~begun THEN [edges EXCEPT ![pub[w].pipe] = {}] ELSE edges
    BY <1>7 DEF PubDelete
  <2>2. dbErrors = 0 /\ begun /\ deleted
    BY <2>1 DEF Failures, TypeOK
  <2> DEFINE r == [pub[w] EXCEPT !.op = "insert", !.todo = pub[w].plan,
                                 !.txn = begun, !.cleared = begun /\ deleted]
  <2>3. pub'[w] = r
    BY <2>1 DEF TypeOK
  <2>4. pub[w] \in Publish /\ pub[w].added = {}
    BY <1>7 DEF Clean, Own, TypeOK, PubDelete
  <2>5. r.op = "insert" /\ r.todo = r.plan /\ r.added = {} /\ r.txn /\ r.cleared
    BY <2>2, <2>4 DEF Publish
  <2>6. Own(w)'
    BY <2>3, <2>5 DEF Own
  <2>7. \A v \in Worker \ {w} : pub'[v] = pub[v]
    BY <2>1 DEF TypeOK
  <2> QED
    BY <1>7, <2>1, <2>2, <2>6, <2>7 DEF Clean, Own, PubDelete
<1>8. ASSUME NEW w \in Worker, PubInsert(w) PROVE Clean'
  <2>1. PICK l \in pub[w].todo : Inserted(w, l) \/ Missed(w, l)
    BY <1>8 DEF PubInsert
  <2>2. Own(w) /\ pub[w].op = "insert" /\ pub[w] \in Publish
    BY <1>8 DEF Clean, PubInsert, TypeOK
  <2>3. l \in pub[w].plan /\ pub[w].txn
    BY <2>1, <2>2 DEF Own
  <2>l. l \in Link
    BY <2>2, <2>3 DEF Publish
  <2>4. UNCHANGED edges
    BY <2>1, <2>3 DEF Inserted, Missed
  <2>5. PICK added \in SUBSET pub[w].plan :
          /\ pub' = Tried(w, l, added)
          /\ \/ added = pub[w].added \cup {l} /\ Ends(l) \subseteq tasks
             \/ added = pub[w].added /\ Ends(l) \cap gone # {}
    <3>1. CASE Inserted(w, l)
      BY <2>2, <2>3, <3>1 DEF Inserted, Own, Ends, Atomic!Ends
    <3>2. CASE Missed(w, l)
      <4>1. pub' = Tried(w, l, pub[w].added) /\ ~({l[1], l[2]} \subseteq tasks)
        BY <1>c, <3>2 DEF Missed
      <4>2. Ends(l) \cap gone # {}
        BY <2>l, <4>1 DEF Drawn, Ends, Atomic!Ends
      <4> QED
        BY <2>2, <4>1, <4>2 DEF Own
    <3> QED
      BY <2>1, <3>1, <3>2
  <2> DEFINE r == [pub[w] EXCEPT !.todo = pub[w].todo \ {l}, !.added = added]
  <2>6. /\ pub'[w] = r
        /\ \A v \in Worker \ {w} : pub'[v] = pub[v]
    BY <2>5 DEF Tried, TypeOK
  <2>7. /\ r.todo = pub[w].todo \ {l} /\ r.added = added /\ r.plan = pub[w].plan
        /\ r.op = "insert" /\ r.txn /\ r.cleared = pub[w].cleared
    BY <2>2, <2>3 DEF Publish
  <2>8. UNCHANGED <<tasks, gone, last>>
    BY <1>8 DEF PubInsert
  <2>9. Own(w)'
    <3>1. \A k \in added : Ends(k) \subseteq tasks
      BY <2>2, <2>5 DEF Own
    <3>2. \A k \in pub[w].plan \ ((pub[w].todo \ {l}) \cup added) : Ends(k) \cap gone # {}
      BY <2>2, <2>5 DEF Own
    <3> HIDE DEF r
    <3> QED
      BY <2>2, <2>6, <2>7, <2>8, <3>1, <3>2 DEF Own
  <2> QED
    BY <2>4, <2>6, <2>8, <2>9 DEF Clean, Own
<1>9. ASSUME NEW w \in Worker, PubVictim(w) PROVE Clean'
  <2>1. dbErrors \in Nat /\ MaxDbErrors \in Nat /\ MaxDbErrors > 0
    BY Constants DEF TypeOK
  <2>2. dbErrors' = IF dbErrors < MaxDbErrors THEN dbErrors + 1 ELSE dbErrors
    BY <1>9 DEF PubVictim
  <2> QED
    BY <2>1, <2>2
<1>10. ASSUME NEW w \in Worker, PubCommit(w) PROVE Clean'
  BY <1>10, <1>c DEF Clean, Own, PubCommit, Outcome, Idle, TypeOK, Publish
<1> QED
  BY <1>1, <1>2, <1>3, <1>4, <1>5, <1>6, <1>7, <1>8, <1>9, <1>10 DEF Next, Step

LEMMA InvInit == Init => Inv
BY TypeInit, DrawnInit, CleanInit DEF Inv

(* A statement that failed is not forgotten. *)
LEMMA SoundBefore == ASSUME TypeOK, [Next]_vars, dbErrors' = 0 PROVE dbErrors = 0
<1> dbErrors \in Nat /\ MaxDbErrors \in Nat \ {0}
  BY Constants DEF TypeOK
<1>1. CASE UNCHANGED vars
  BY <1>1 DEF vars
<1>2. ASSUME NEW w \in Worker, PubDelete(w) PROVE dbErrors = 0
  BY <1>2 DEF PubDelete, Failures
<1>3. ASSUME NEW w \in Worker, PubVictim(w) PROVE dbErrors = 0
  <2>1. dbErrors' = IF dbErrors < MaxDbErrors THEN dbErrors + 1 ELSE dbErrors
    BY <1>3 DEF PubVictim
  <2> QED
    BY <2>1
<1>6. ASSUME NEW w \in Worker, PubValidate(w) \/ PubInsert(w) \/ PubCommit(w)
      PROVE  dbErrors = 0
  <2>1. DbFails \/ UNCHANGED dbErrors
    BY <1>6 DEF PubValidate, PubInsert, Inserted, Missed, PubCommit
  <2> QED
    BY <2>1, Counted
<1>4. ASSUME NEW p \in Pipeline,
             Save(p) \/ DeletePipeline(p) \/ \E w \in Worker : PubSelect(w, p)
      PROVE  dbErrors = 0
  BY <1>4 DEF Save, DeletePipeline, PubSelect
<1>5. ASSUME NEW t \in Task, CreateTask(t) \/ DropEdges(t) \/ DropTask(t) PROVE dbErrors = 0
  BY <1>5 DEF CreateTask, DropEdges, DropTask, DbFails
<1> QED
  BY <1>1, <1>2, <1>3, <1>4, <1>5, <1>6 DEF Next, Step

LEMMA InvStep == Inv /\ [Next]_vars => Inv'
BY TypeStep, DrawnStep, CleanStep, SoundBefore DEF Inv

LEMMA Invariance == Spec => []Inv
BY InvInit, InvStep, PTL DEF Spec

(* Every variable keeps its type, and a request that is answered leaves     *)
(* nothing behind in its worker.                                            *)
THEOREM CatalogTypeCorrect == Spec => []TypeOK
<1>1. Inv => TypeOK
  BY DEF Inv
<1> QED
  BY <1>1, Invariance, PTL

(* While no statement has failed, the edges callbacks follow come from one  *)
(* publication of the pipeline.                                             *)
THEOREM NeverMixed == Spec => []NoMixture
<1>1. Inv => NoMixture
  BY DEF Inv, Clean, NoMixture
<1> QED
  BY <1>1, Invariance, PTL

(* While no statement has failed, the edges callbacks follow have no        *)
(* circle: they are some of those of one drawing that Kahn's algorithm has  *)
(* passed, which suffices by KahnFindsCycles.                               *)
THEOREM NeverCircular == Spec => []PublishedAcyclic
<1>1. Inv => PublishedAcyclic
  <2> SUFFICES ASSUME Inv, dbErrors = 0, NEW p \in Pipeline PROVE Acyclic(edges[p])
    BY DEF PublishedAcyclic, Acyclic
  <2>1. edges[p] \subseteq last[p] /\ Acyclic(last[p])
    BY DEF Inv, Clean, Drawn
  <2> QED
    BY <2>1, PartAcyclic
<1> QED
  BY <1>1, Invariance, PTL

-------------------------------------------------------------------------------
(* A publication is one step. *)

Drawings == [p \in Pipeline |-> draft[p].edges]
Asked    == [w \in Worker |-> [pipe |-> pub[w].pipe, plan |-> pub[w].plan]]

LEMMA StartsAlike == Init => Atomic!Init
<1> SUFFICES ASSUME Init PROVE Atomic!Init
  OBVIOUS
<1>1. Drawings = [p \in Pipeline |-> {}]
  BY DEF Init, NoDraft, Drawings
<1>2. \A w \in Worker : pub[w].pipe = NoPipeline /\ pub[w].plan = {}
  BY DEF Init, Idle
<1>3. Asked = [w \in Worker |-> Atomic!Nobody]
  BY <1>2 DEF Asked, Atomic!Nobody
<1> QED
  BY <1>1, <1>3 DEF Init, Atomic!Init, Drawings, Asked

(* A request becomes another one, or none. *)
LEMMA AskedChanges ==
  ASSUME TypeOK, TypeOK', NEW w \in Worker, \A v \in Worker \ {w} : pub'[v] = pub[v]
  PROVE  Asked' = [Asked EXCEPT ![w] = [pipe |-> pub'[w].pipe, plan |-> pub'[w].plan]]
BY DEF Asked, TypeOK

LEMMA AskedStays ==
  ASSUME TypeOK, TypeOK', NEW w \in Worker, \A v \in Worker \ {w} : pub'[v] = pub[v],
         pub'[w].pipe = pub[w].pipe, pub'[w].plan = pub[w].plan
  PROVE  Asked' = Asked
BY DEF Asked, TypeOK

LEMMA DrawingsChange ==
  ASSUME TypeOK, NEW p \in Pipeline, NEW d \in Draft, draft' = [draft EXCEPT ![p] = d]
  PROVE  Drawings' = [Drawings EXCEPT ![p] = d.edges]
BY DEF Drawings, TypeOK

LEMMA EdgesLost ==
  ASSUME TypeOK, NEW t \in Task
  PROVE  Without(t) = [p \in Pipeline |-> {l \in edges[p] : t \notin Atomic!Ends(l)}]
<1>1. ASSUME NEW p \in Pipeline
      PROVE  edges[p] \ Touching(t) = {l \in edges[p] : t \notin Atomic!Ends(l)}
  BY DEF TypeOK, Touching, Atomic!Ends
<1> QED
  BY <1>1 DEF Without

(* A step of the handlers, while no statement fails, is a step of the       *)
(* promised publication, or nothing.                                        *)
Alike == Atomic!Act \/ UNCHANGED <<tasks, gone, Drawings, edges, Asked>>

LEMMA DrawAlike ==
  ASSUME Inv, NEW p \in Pipeline, Save(p) \/ DeletePipeline(p)
  PROVE  Alike
<1>t. TypeOK
  BY DEF Inv
<1>1. PICK d \in Draft : draft' = [draft EXCEPT ![p] = d] /\ Acyclic(d.edges)
  <2>1. CASE Save(p)
    <3>1. PICK nodes \in SUBSET Task, links \in Graph :
            /\ Valid(nodes, links)
            /\ draft' = [draft EXCEPT ![p] = [saved |-> TRUE, nodes |-> nodes, edges |-> links]]
      BY <2>1 DEF Save
    <3>2. Acyclic(links) /\ links \in SUBSET Link
      BY <3>1, ValidShaped, Constants DEF Shaped
    <3> DEFINE d == [saved |-> TRUE, nodes |-> nodes, edges |-> links]
    <3>3. d \in Draft /\ d.edges = links
      BY <3>2 DEF Draft
    <3> QED
      BY <3>1, <3>2, <3>3
  <2>2. CASE DeletePipeline(p)
    <3>1. NoDraft \in Draft /\ NoDraft.edges = {}
      BY DEF NoDraft, Draft
    <3>2. Acyclic(NoDraft.edges)
      BY <3>1, NothingShaped
    <3> QED
      BY <2>2, <3>1, <3>2 DEF DeletePipeline
  <2> QED
    BY <2>1, <2>2
<1>2. Drawings' = [Drawings EXCEPT ![p] = d.edges]
  BY <1>t, <1>1, DrawingsChange
<1>3. d.edges \in SUBSET Link
  BY DEF Draft
<1>4. UNCHANGED <<tasks, gone, edges, pub>>
  BY DEF Save, DeletePipeline
<1>5. UNCHANGED Asked
  BY <1>4 DEF Asked
<1>6. Atomic!Draw(p)
  BY <1>1, <1>2, <1>3, <1>4, <1>5 DEF Atomic!Draw, Atomic!Link, Drawings, Asked, Acyclic
<1> QED
  BY <1>6 DEF Alike, Atomic!Act

LEMMA TasksAlike ==
  ASSUME Inv, ~DbFails, NEW t \in Task, CreateTask(t) \/ DropEdges(t) \/ DropTask(t)
  PROVE  Alike
<1>t. TypeOK
  BY DEF Inv
<1>1. UNCHANGED <<draft, pub>>
  BY DEF CreateTask, DropEdges, DropTask
<1>2. UNCHANGED <<Drawings, Asked>>
  BY <1>1 DEF Drawings, Asked
<1>3. CASE CreateTask(t)
  <2>1. Atomic!Create(t)
    BY <1>2, <1>3 DEF CreateTask, Atomic!Create, Drawings, Asked
  <2> QED
    BY <2>1 DEF Alike, Atomic!Act
<1>4. CASE DropEdges(t) \/ DropTask(t)
  <2>1. edges' = [p \in Pipeline |-> {l \in edges[p] : t \notin Atomic!Ends(l)}]
    BY <1>t, <1>4, EdgesLost DEF DropEdges, DropTask
  <2>2. \/ UNCHANGED <<tasks, gone>>
        \/ tasks' = tasks \ {t} /\ gone' = gone \cup {t}
    BY <1>4 DEF DropEdges, DropTask
  <2>3. Atomic!Delete(t)
    BY <1>2, <2>1, <2>2 DEF Atomic!Delete, Drawings, Asked
  <2> QED
    BY <2>3 DEF Alike, Atomic!Act
<1> QED
  BY <1>3, <1>4

LEMMA AskAlike ==
  ASSUME Inv, Inv', NEW w \in Worker, NEW p \in Pipeline, PubSelect(w, p)
  PROVE  Alike
<1>t. TypeOK /\ TypeOK'
  BY DEF Inv
<1>1. /\ pub'[w].pipe = p /\ pub'[w].plan = draft[p].edges
      /\ \A v \in Worker \ {w} : pub'[v] = pub[v]
  BY <1>t DEF TypeOK, PubSelect, Idle
<1>2. Asked' = [Asked EXCEPT ![w] = [pipe |-> p, plan |-> Drawings[p]]]
  BY <1>t, <1>1, AskedChanges DEF Drawings
<1>3. Asked[w] = Atomic!Nobody
  <2>1. pub[w].pipe = NoPipeline /\ pub[w].plan = {}
    BY DEF PubSelect, Idle
  <2> QED
    BY <2>1 DEF Asked, Atomic!Nobody
<1>4. UNCHANGED <<tasks, gone, Drawings, edges>>
  BY DEF PubSelect, Drawings
<1>5. Atomic!Ask(w, p)
  BY <1>2, <1>3, <1>4 DEF Atomic!Ask, Drawings, Asked
<1> QED
  BY <1>5 DEF Alike, Atomic!Act

LEMMA ValidateAlike ==
  ASSUME Inv, Inv', ~DbFails, NEW w \in Worker, PubValidate(w)
  PROVE  Alike
<1>t. TypeOK /\ TypeOK' /\ pub[w] \in Publish
  BY DEF Inv, TypeOK
<1>1. UNCHANGED <<tasks, gone, Drawings, edges>>
  BY DEF PubValidate, Drawings
<1>2. /\ \A v \in Worker \ {w} : pub'[v] = pub[v]
      /\ pub'[w] = IF Valid(pub[w].nodes, pub[w].plan)
                   THEN [pub[w] EXCEPT !.op = "delete"] ELSE Idle
  BY <1>t DEF PubValidate, TypeOK
<1>3. CASE Valid(pub[w].nodes, pub[w].plan)
  <2>1. pub'[w].pipe = pub[w].pipe /\ pub'[w].plan = pub[w].plan
    BY <1>t, <1>2, <1>3 DEF Publish
  <2>2. UNCHANGED Asked
    BY <1>t, <1>2, <2>1, AskedStays
  <2> QED
    BY <1>1, <2>2 DEF Alike
<1>4. CASE ~Valid(pub[w].nodes, pub[w].plan)
  <2>1. pub[w].nodes \in SUBSET Task /\ pub[w].plan \in SUBSET Link
    BY <1>t DEF Publish
  <2>2. ~(pub[w].nodes \subseteq tasks)
    BY <1>4, <2>1, RefusedAsGone DEF Inv, Drawn
  <2>3. gone # {}
    BY <2>1, <2>2 DEF Inv, Drawn
  <2>4. pub[w].pipe \in Pipeline
    BY DEF Inv, Drawn, PubValidate
  <2>5. Asked[w] # Atomic!Nobody
    BY <2>4, Constants DEF Asked, Atomic!Nobody
  <2>6. [pipe |-> pub'[w].pipe, plan |-> pub'[w].plan] = Atomic!Nobody
    BY <1>2, <1>4 DEF Idle, Atomic!Nobody
  <2>7. Asked' = [Asked EXCEPT ![w] = Atomic!Nobody]
    BY <1>t, <1>2, <2>6, AskedChanges
  <2>8. Atomic!Refuse(w)
    BY <1>1, <2>3, <2>5, <2>7 DEF Atomic!Refuse, Drawings, Asked
  <2> QED
    BY <2>8 DEF Alike, Atomic!Act
<1> QED
  BY <1>3, <1>4

(* BEGIN, DELETE and the INSERTs are not seen by anybody else. *)
LEMMA WorkAlike ==
  ASSUME Inv, Inv', dbErrors = 0, dbErrors' = 0, NEW w \in Worker, PubDelete(w) \/ PubInsert(w)
  PROVE  Alike
<1>t. TypeOK /\ TypeOK' /\ Clean
  BY DEF Inv
<1>1. /\ \A v \in Worker \ {w} : pub'[v] = pub[v]
      /\ \/ pub'[w] = Idle
         \/ pub'[w].pipe = pub[w].pipe /\ pub'[w].plan = pub[w].plan
  BY <1>t, Kept DEF Step
<1>2. pub'[w].op = "insert"
  <2>0. pub \in [Worker -> Publish] /\ pub[w] \in Publish
    BY <1>t DEF TypeOK
  <2>1. CASE PubDelete(w)
    <3>1. PICK begun, deleted :
            pub' = [pub EXCEPT ![w] = [pub[w] EXCEPT !.op = "insert", !.todo = pub[w].plan,
                                                   !.txn = begun, !.cleared = begun /\ deleted]]
      BY <2>1 DEF PubDelete
    <3> QED
      BY <2>0, <3>1 DEF Publish
  <2>2. CASE PubInsert(w)
    <3>1. PICK l, added : pub' = Tried(w, l, added)
      BY <2>2 DEF PubInsert, Inserted, Missed
    <3> QED
      BY <2>0, <2>2, <3>1 DEF PubInsert, Tried, Publish
  <2> QED
    BY <2>1, <2>2
<1>3. UNCHANGED Asked
  BY <1>t, <1>1, <1>2, AskedStays DEF Idle
<1>4. UNCHANGED edges
  <2>1. CASE PubInsert(w)
    <3>1. pub[w].txn
      BY <1>t, <2>1 DEF PubInsert, Clean, Own
    <3> QED
      BY <2>1, <3>1 DEF PubInsert, Inserted, Missed
  <2>2. CASE PubDelete(w)
    <3>1. PICK begun, deleted \in BOOLEAN :
            /\ dbErrors' = dbErrors + Failures(begun) + Failures(deleted)
            /\ edges' = IF deleted /\ ~begun THEN [edges EXCEPT ![pub[w].pipe] = {}] ELSE edges
      BY <2>2 DEF PubDelete
    <3> QED
      BY <3>1 DEF Failures
  <2> QED
    BY <2>1, <2>2
<1>5. UNCHANGED <<tasks, gone, Drawings>>
  BY DEF PubDelete, PubInsert, Drawings
<1> QED
  BY <1>3, <1>4, <1>5 DEF Alike

LEMMA CommitAlike ==
  ASSUME Inv, Inv', dbErrors = 0, dbErrors' = 0, ~DbFails, NEW w \in Worker, PubCommit(w)
  PROVE  Alike
<1>t. TypeOK /\ TypeOK' /\ Clean
  BY DEF Inv
<1> DEFINE plan == pub[w].plan
           added == pub[w].added
<1>1. /\ pub[w].op = "insert" /\ pub[w].todo = {}
      /\ edges' = [edges EXCEPT ![pub[w].pipe] = added]
      /\ UNCHANGED <<tasks, gone, Drawings>>
  BY <1>t DEF PubCommit, Clean, Own, Outcome, Drawings
<1>2. pub[w].pipe \in Pipeline
  BY <1>1 DEF Inv, Drawn
<1>3. /\ added \subseteq plan
      /\ \A l \in added : Ends(l) \subseteq tasks
      /\ \A l \in plan \ added : Ends(l) \cap gone # {}
  BY <1>t, <1>1 DEF Clean, Own
<1>4. Asked[w] = [pipe |-> pub[w].pipe, plan |-> plan]
  BY DEF Asked
<1>5. pub'[w] = Idle /\ \A v \in Worker \ {w} : pub'[v] = pub[v]
  BY <1>t DEF PubCommit, TypeOK
<1>6. [pipe |-> pub'[w].pipe, plan |-> pub'[w].plan] = Atomic!Nobody
  BY <1>5 DEF Idle, Atomic!Nobody
<1>7. Asked' = [Asked EXCEPT ![w] = Atomic!Nobody]
  BY <1>t, <1>5, <1>6, AskedChanges
<1>8. Atomic!Whole(plan, added)
  BY <1>3 DEF Atomic!Whole, Ends
<1>9. Asked[w].pipe = pub[w].pipe /\ Asked[w].plan = plan
  BY <1>4
<1>10. Atomic!Take(w)
  BY <1>1, <1>2, <1>3, <1>7, <1>8, <1>9 DEF Atomic!Take, Drawings, Asked
<1> QED
  BY <1>10 DEF Alike, Atomic!Act

LEMMA StepAlike ==
  ASSUME Inv, Inv', [Next]_vars PROVE [Atomic!Next]_(Atomic!catalog)
<1>t. TypeOK
  BY DEF Inv
<1>1. CASE dbErrors' # 0
  BY <1>1 DEF Atomic!Next
<1>2. CASE dbErrors' = 0
  <2>1. dbErrors = 0 /\ ~DbFails
    BY <1>t, <1>2, SoundBefore, Counted
  <2>2. Alike
    <3>1. CASE UNCHANGED vars
      BY <3>1 DEF vars, Alike, Drawings, Asked
    <3>2. ASSUME NEW w \in Worker, PubVictim(w) PROVE FALSE
      <4>1. dbErrors' = IF dbErrors < MaxDbErrors THEN dbErrors + 1 ELSE dbErrors
        BY <3>2 DEF PubVictim
      <4> QED
        BY <1>2, <2>1, <4>1, Constants
    <3> QED
      BY <1>2, <2>1, <3>1, <3>2, DrawAlike, TasksAlike, AskAlike, ValidateAlike, WorkAlike,
         CommitAlike DEF Next, Step
  <2> QED
    BY <1>2, <2>1, <2>2 DEF Alike, Atomic!Next, Atomic!catalog, Drawings, Asked
<1> QED
  BY <1>1, <1>2

(* As long as no statement fails, publishing a draft, with all its          *)
(* statements and whatever comes between them, puts the whole draft in the  *)
(* place of the edges there were in one step, but for links of deleted      *)
(* tasks.                                                                   *)
THEOREM PublicationIsAtomic == Spec => ImplementsPublication
<1>1. Spec => Atomic!Init
  BY StartsAlike DEF Spec
<1>2. Spec => [][Atomic!Next]_(Atomic!catalog)
  BY Invariance, StepAlike, PTL DEF Spec
<1> QED
  BY <1>1, <1>2, PTL DEF ImplementsPublication, Atomic!Spec
===============================================================================
