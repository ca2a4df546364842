------------------------------ MODULE TaskLedger ------------------------------
(***************************************************************************)
(* What the scheduler promises about the executions it keeps in            *)
(* task_instances, whatever its handlers, agents and background threads    *)
(* interleave to: an execution that was never asked for never runs; one    *)
(* bound to a node runs at most once, and once more for each time it was   *)
(* given away without a note; one is called successful only when its       *)
(* script really exited with 0; a downstream execution exists only because *)
(* an upstream one of the same pipeline exited with 0; and nothing that    *)
(* was handed out is queued again.  TaskDispatch implements it.            *)
(***************************************************************************)
EXTENDS Naturals

CONSTANTS
  Exec,        \* execution ids: records with the fields task and kind
  Bound,       \* tasks with a fixed target node
  Edges,       \* triples <<pipeline, parent task, child task>>
  Line,        \* pipelines, and the line that belongs to none
  ExitCode     \* exit codes of a script; 0 is success

VARIABLES
  status,      \* the verdict on each execution
  line,        \* the pipeline an execution runs for
  runs,        \* how often its script was started
  exits,       \* the exit codes its script ended with
  missed       \* how often it was given away without a note of it

ledger == <<status, line, runs, exits, missed>>

Known(e) == status[e] # "absent"

Init ==
  /\ status = [e \in Exec |-> "absent"]
  /\ line \in [Exec -> Line]
  /\ runs = [e \in Exec |-> 0]
  /\ exits = [e \in Exec |-> {}]
  /\ missed = [e \in Exec |-> 0]

(* A user or the clock asks for an execution of one task. *)
Request(e, l) ==
  /\ ~Known(e)
  /\ e.kind # "dag"
  /\ status' = [status EXCEPT ![e] = "Ready"]
  /\ line' = [line EXCEPT ![e] = l]
  /\ UNCHANGED <<runs, exits, missed>>

(* An execution is given away, and the note of it is lost. *)
Miss(e) ==
  /\ Known(e)
  /\ missed' = [missed EXCEPT ![e] = @ + 1]
  /\ UNCHANGED <<status, line, runs, exits>>

(* An agent starts the script: when the task has one node only once, and    *)
(* once more for each time it was given away without a note.                *)
Start(e) ==
  /\ Known(e)
  /\ e.task \in Bound => runs[e] <= missed[e]
  /\ runs' = [runs EXCEPT ![e] = @ + 1]
  /\ UNCHANGED <<status, line, exits, missed>>

Exit(e, c) ==
  /\ runs[e] > 0
  /\ exits' = [exits EXCEPT ![e] = @ \cup {c}]
  /\ UNCHANGED <<status, line, runs, missed>>

(* The verdict changes, never back to Ready; success has to be earned. *)
Judge(e, v) ==
  /\ Known(e)
  /\ v = "Success" => 0 \in exits[e]
  /\ status' = [status EXCEPT ![e] = v]
  /\ UNCHANGED <<line, runs, exits, missed>>

(* A successful execution p calls a child e along an edge of its pipeline. *)
Trigger(p, e) ==
  /\ 0 \in exits[p]
  /\ p.kind # "incr"
  /\ e.kind = "dag"
  /\ ~Known(e)
  /\ <<line[p], p.task, e.task>> \in Edges
  /\ status' = [status EXCEPT ![e] = "Ready"]
  /\ line' = [line EXCEPT ![e] = line[p]]
  /\ UNCHANGED <<runs, exits, missed>>

Next ==
  \E e \in Exec :
    \/ \E l \in Line : Request(e, l)
    \/ Miss(e)
    \/ Start(e)
    \/ \E c \in ExitCode : Exit(e, c)
    \/ \E v \in {"Running", "Success", "Failed", "Timeout"} : Judge(e, v)
    \/ \E p \in Exec : Trigger(p, e)

Spec == Init /\ [][Next]_ledger
===============================================================================
