----------------------------- MODULE TaskDispatch -----------------------------
(***************************************************************************)
(* The life of a row of task_instances: inserted by a user's run or incr   *)
(* request, by the cron thread or by the callback of an upstream task;     *)
(* handed to an agent by /api/tasks/poll; run by the agent's executor;     *)
(* settled by /api/tasks/callback or by the monitor thread.                *)
(*                                                                         *)
(* Every handler takes the database statements one by one, so a handler is *)
(* split where another thread can come between two of its statements.  The *)
(* HTTP worker that runs it keeps the values read so far in its slot.      *)
(***************************************************************************)
EXTENDS Naturals, FiniteSets

CONSTANTS
  Task, Node, Pipeline,
  Public,      \* the empty target_node_id: any node may take the task
  NoPipeline,  \* "manual" and "cron", the pipeline ids without edges
  Target,      \* target_node_id of each task
  Enabled,     \* the tasks with enabled = 1
  CronTask,    \* the tasks with a cron expression
  Requests,    \* bound: the executions users and the cron thread ask for
  Members,     \* the tasks drawn in each enabled pipeline
  Entries,     \* the entry tasks of each enabled pipeline
  Edges,       \* table dag_edges: <<pipeline, parent, child>>
  Executor,    \* the agents' execution threads: 4 on Linux, 1 on Windows
  Home,        \* the node of each executor
  Worker,      \* the HTTP worker threads of the manager
  NoWorker, NoExec,
  MaxClock,    \* bound: the last second an id is stamped with
  MaxDbErrors, \* bound: how many database statements fail
  MaxCrashes   \* bound: how many crashes of an agent or of the manager

Line == Pipeline \cup {NoPipeline}
Kind == {"manual", "cron", "incr", "dag"}

(* The primary key: task id, what inserted the row, and the second. *)
ExecId == [task : Task, kind : Kind, at : 0..MaxClock]

ASSUME Constants ==
  /\ Target \in [Task -> Node \cup {Public}]
  /\ Enabled \subseteq Task /\ CronTask \subseteq Task
  /\ Requests \subseteq ExecId
  /\ Members \in [Pipeline -> SUBSET Task]
  /\ Entries \in [Pipeline -> SUBSET Task]
  /\ Edges \subseteq Pipeline \X Task \X Task
  /\ Home \in [Executor -> Node]
  /\ Public \notin Node /\ NoPipeline \notin Pipeline
  /\ NoWorker \notin Worker /\ NoExec \notin ExecId
  /\ MaxClock \in Nat /\ MaxDbErrors \in Nat /\ MaxCrashes \in Nat

ExitCode == {0, 1}    \* 1 stands for every code but 0: -1, -2, a script's own
Settled  == {"Success", "Failed", "Timeout"}
Status   == {"absent", "Ready", "Running"} \cup Settled

(* A row of task_instances; overdue: Running since over timeout_sec. *)
Row  == [status : Status, node : Node \cup {Public}, line : Line, overdue : BOOLEAN]
NoRow == [status |-> "absent", node |-> Public, line |-> NoPipeline, overdue |-> FALSE]

(* What a worker is about to do, and what its handler has read. *)
Slot == [op   : {"idle", "pollSelect", "pollClaim", "pollReply", "cbUpdate", "cbSpawn"},
         node : Node \cup {Public},
         exec : ExecId \cup {NoExec},
         exit : ExitCode,
         kids : SUBSET Task]
Idle == [op |-> "idle", node |-> Public, exec |-> NoExec, exit |-> 0, kids |-> {}]

(* What an executor of an agent is doing. *)
Job  == [op : {"free", "running", "done"}, exec : ExecId \cup {NoExec}, exit : ExitCode]
Free == [op |-> "free", exec |-> NoExec, exit |-> 0]

(* A row as the monitor thread saw it when it scanned the Running ones. *)
Sighting == [exec : ExecId, node : Node \cup {Public}, overdue : BOOLEAN]

VARIABLES
  clock,       \* the manager's clock, in seconds
  inst,        \* table task_instances
  slot,        \* the HTTP workers
  call,        \* the worker an agent's poll waits for
  job,         \* the executors
  seen,        \* what the monitor thread has left of its last scan
  dbErrors, crashes,
  starts,      \* history: how often a script was started for a row
  exits,       \* history: the exit codes of these scripts
  missed       \* history: how often the UPDATE that claims a row failed

agentVars   == <<call, job, starts, exits, missed>>
faultVars   == <<dbErrors, crashes>>
vars == <<clock, inst, slot, call, job, seen, dbErrors, crashes, starts, exits, missed>>

TypeOK ==
  /\ clock \in 0..MaxClock
  /\ inst \in [ExecId -> Row]
  /\ slot \in [Worker -> Slot]
  /\ call \in [Node -> Worker \cup {NoWorker}]
  /\ job \in [Executor -> Job]
  /\ seen \subseteq Sighting
  /\ dbErrors \in 0..MaxDbErrors
  /\ crashes \in 0..MaxCrashes
  /\ starts \in [ExecId -> Nat]
  /\ exits \in [ExecId -> SUBSET ExitCode]
  /\ missed \in [ExecId -> Nat]

Init ==
  /\ clock = 0
  /\ inst = [e \in ExecId |-> NoRow]
  /\ slot = [w \in Worker |-> Idle]
  /\ call = [n \in Node |-> NoWorker]
  /\ job = [x \in Executor |-> Free]
  /\ seen = {}
  /\ dbErrors = 0
  /\ crashes = 0
  /\ starts = [e \in ExecId |-> 0]
  /\ exits = [e \in ExecId |-> {}]
  /\ missed = [e \in ExecId |-> 0]

-------------------------------------------------------------------------------
(* Database statements.  A failed one returns false or no rows, and every  *)
(* caller in the manager carries on as if there had been nothing to do.    *)

DbFails == dbErrors < MaxDbErrors /\ dbErrors' = dbErrors + 1

(* UPDATE task_instances ... WHERE exec_id = e, whatever the row is now. *)
Written(e, status, node) ==
  [status |-> status, node |-> node, line |-> inst[e].line, overdue |-> FALSE]

Update(e, status, node) ==
  \/ /\ inst' = [inst EXCEPT ![e] = Written(e, status, node)]
     /\ UNCHANGED dbErrors
  \/ DbFails /\ UNCHANGED inst

(* INSERT of a Ready row: refused when the primary key is taken. *)
Ready(t, l) == [status |-> "Ready", node |-> Target[t], line |-> l, overdue |-> FALSE]

InsertOverwrites(e, l) == inst' = [inst EXCEPT ![e] = Ready(e.task, l)] /\ UNCHANGED dbErrors
Insert(e, l) ==
  IF inst[e].status = "absent"
  THEN \/ inst' = [inst EXCEPT ![e] = Ready(e.task, l)] /\ UNCHANGED dbErrors
       \/ DbFails /\ UNCHANGED inst
  ELSE UNCHANGED <<inst, dbErrors>>

Id(t, k) == [task |-> t, kind |-> k, at |-> clock]

-------------------------------------------------------------------------------
(* What inserts executions: users and the cron thread. *)

(* The only pipeline whose set of tasks holds t, or the fallback. *)
Resolve(tasksOf, t) ==
  LET matches == {p \in Pipeline : t \in tasksOf[p]}
  IN  IF Cardinality(matches) = 1 THEN CHOOSE p \in matches : TRUE ELSE NoPipeline
(* A failed query of the pipelines leads to the fallback as well.  *)
Resolved(tasksOf, t) ==
  {Resolve(tasksOf, t)} \cup (IF MaxDbErrors = 0 THEN {} ELSE {NoPipeline})

(* POST /api/tasks/{t}/run: the body names the pipeline, or none. *)
Run(t) ==
  /\ Id(t, "manual") \in Requests
  /\ \E l \in Pipeline \cup Resolved(Members, t) : Insert(Id(t, "manual"), l)
  /\ UNCHANGED <<clock, slot, agentVars, seen, crashes>>

(* POST /api/tasks/{t}/incr, and the row count of a monitored table. *)
Incr(t) ==
  /\ Id(t, "incr") \in Requests
  /\ Insert(Id(t, "incr"), NoPipeline)
  /\ UNCHANGED <<clock, slot, agentVars, seen, crashes>>

(* The cron thread finds t's expression due. *)
CronFire(t) ==
  /\ t \in CronTask \cap Enabled /\ Id(t, "cron") \in Requests
  /\ \E l \in Resolved(Entries, t) : Insert(Id(t, "cron"), l)
  /\ UNCHANGED <<clock, slot, agentVars, seen, crashes>>

Tick ==
  /\ clock < MaxClock
  /\ clock' = clock + 1
  /\ UNCHANGED <<inst, slot, agentVars, seen, faultVars>>

-------------------------------------------------------------------------------
(* POST /api/tasks/poll. *)

(* An agent's loop polls one request at a time, with an executor free. *)
SendPoll(n, w) ==
  /\ call[n] = NoWorker
  /\ \E x \in Executor : Home[x] = n /\ job[x] = Free
  /\ slot[w] = Idle
  /\ slot' = [slot EXCEPT ![w] = [Idle EXCEPT !.op = "pollSelect", !.node = n]]
  /\ call' = [call EXCEPT ![n] = w]
  /\ UNCHANGED <<clock, inst, job, seen, faultVars, starts, exits, missed>>

(* The agent gives up, after 65 s or on a broken connection, and will poll *)
(* again; the worker does not notice and runs its handler to the end.      *)
PollTimeout(n) ==
  /\ call[n] # NoWorker
  /\ call' = [call EXCEPT ![n] = NoWorker]
  /\ UNCHANGED <<clock, inst, slot, job, seen, faultVars, starts, exits, missed>>

(* The agent, if it still waits for w, goes back to its loop. *)
HangUp(w) == call' = [n \in Node |-> IF call[n] = w THEN NoWorker ELSE call[n]]

(* WHERE (node_id = n OR node_id = '') AND status = 2 *)
OfferedOfAnyNode(n, e) == inst[e].status = "Ready"
OfferedAgain(n, e) ==
  inst[e].node \in {n, Public} /\ inst[e].status \in {"Ready", "Running"}
OfferedOfNodeOnly(n, e) == inst[e].node = n /\ inst[e].status = "Ready"
Offered(n, e) == inst[e].node \in {n, Public} /\ inst[e].status = "Ready"

PollSelect(w) ==
  /\ slot[w].op = "pollSelect"
  /\ \E e \in ExecId :
       /\ Offered(slot[w].node, e)
       /\ slot' = [slot EXCEPT ![w] = [@ EXCEPT !.op = "pollClaim", !.exec = e]]
  /\ UNCHANGED <<clock, inst, agentVars, seen, faultVars>>

PollNone(w) ==
  /\ slot[w].op = "pollSelect"
  /\ \/ (\A e \in ExecId : ~Offered(slot[w].node, e)) /\ UNCHANGED dbErrors
     \/ DbFails
  /\ slot' = [slot EXCEPT ![w] = Idle]
  /\ HangUp(w)
  /\ UNCHANGED <<clock, inst, job, seen, crashes, starts, exits, missed>>

(* status = 0, node_id = n, start_time = now, whatever became of the row *)
(* since it was selected.                                                *)
PollClaim(w) ==
  /\ slot[w].op = "pollClaim"
  /\ Update(slot[w].exec, "Running", slot[w].node)
  /\ missed' = IF dbErrors' = dbErrors THEN missed
               ELSE [missed EXCEPT ![slot[w].exec] = @ + 1]
  /\ slot' = [slot EXCEPT ![w] = [@ EXCEPT !.op = "pollReply"]]
  /\ UNCHANGED <<clock, call, job, seen, crashes, starts, exits>>

(* The reply reaches the agent, which submits the task to an executor. *)
PollReply(w) ==
  /\ slot[w].op = "pollReply"
  /\ call[slot[w].node] = w
  /\ \E x \in Executor :
       /\ Home[x] = slot[w].node /\ job[x] = Free
       /\ job' = [job EXCEPT ![x] = [op |-> "running", exec |-> slot[w].exec, exit |-> 0]]
  /\ starts' = [starts EXCEPT ![slot[w].exec] = @ + 1]
  /\ slot' = [slot EXCEPT ![w] = Idle]
  /\ HangUp(w)
  /\ UNCHANGED <<clock, inst, seen, faultVars, exits, missed>>

(* Nobody waits for the reply any more, or the task's metadata are not *)
(* read and the agent gets an error: the row stays Running.            *)
PollLost(w) ==
  /\ slot[w].op = "pollReply"
  /\ \/ call[slot[w].node] # w /\ UNCHANGED dbErrors
     \/ DbFails
  /\ slot' = [slot EXCEPT ![w] = Idle]
  /\ HangUp(w)
  /\ UNCHANGED <<clock, inst, job, seen, crashes, starts, exits, missed>>

-------------------------------------------------------------------------------
(* The agents' executors. *)

(* The script ends, or is killed after timeout_sec, or does not exist. *)
ScriptExits(x, c) ==
  /\ job[x].op = "running"
  /\ job' = [job EXCEPT ![x] = [@ EXCEPT !.op = "done", !.exit = c]]
  /\ exits' = [exits EXCEPT ![job[x].exec] = @ \cup {c}]
  /\ UNCHANGED <<clock, inst, slot, call, seen, faultVars, starts, missed>>

(* Mutant: an agent that gets no answer reports an error of its own. *)
SendCallbackAgain(x, w) ==
  /\ job[x].op = "done"
  /\ slot[w] = Idle
  /\ slot' = [slot EXCEPT ![w] = [Idle EXCEPT !.op = "cbUpdate", !.exec = job[x].exec,
                                              !.exit = job[x].exit]]
  /\ \/ job' = [job EXCEPT ![x] = Free]
     \/ job[x].exit = 0 /\ job' = [job EXCEPT ![x] = [@ EXCEPT !.exit = 1]]
  /\ UNCHANGED <<clock, inst, call, seen, faultVars, starts, exits, missed>>

(* POST /api/tasks/callback, sent once with a timeout of 10 s.  The answer *)
(* makes no difference to the agent, so the executor is free from here on. *)
SendCallback(x, w) ==
  /\ job[x].op = "done"
  /\ slot[w] = Idle
  /\ slot' = [slot EXCEPT ![w] = [Idle EXCEPT !.op = "cbUpdate", !.exec = job[x].exec,
                                              !.exit = job[x].exit]]
  /\ job' = [job EXCEPT ![x] = Free]
  /\ UNCHANGED <<clock, inst, call, seen, faultVars, starts, exits, missed>>

(* The request is lost, or the Windows agent fails to upload the log first. *)
LoseCallback(x) ==
  /\ job[x].op = "done"
  /\ job' = [job EXCEPT ![x] = Free]
  /\ UNCHANGED <<clock, inst, slot, call, seen, faultVars, starts, exits, missed>>

-------------------------------------------------------------------------------
(* POST /api/tasks/callback. *)

VerdictAlwaysGood(c) == "Success"
VerdictUnlisted(c) == IF c = 0 THEN "Success" ELSE "Killed"
Verdict(c) == IF c = 0 THEN "Success" ELSE "Failed"

(* The tasks to trigger: children of e's task along the edges of e's line. *)
KidsWhateverExit(e, c) == {t \in Task : <<inst[e].line, e.task, t>> \in Edges}
Kids(e, c) ==
  IF c = 0 /\ e.kind # "incr"
  THEN {t \in Task : <<inst[e].line, e.task, t>> \in Edges}
  ELSE {}

(* Mutant: children are triggered of rows only that are Running still. *)
CbUpdateWhenRunning(w) ==
  LET e == slot[w].exec
      c == slot[w].exit
      kids == IF inst[e].status = "Running" THEN Kids(e, c) ELSE {}
  IN  /\ slot[w].op = "cbUpdate"
      /\ \/ /\ Update(e, Verdict(c), inst[e].node)
            /\ slot' = [slot EXCEPT ![w] = IF kids = {} THEN Idle
                                           ELSE [@ EXCEPT !.op = "cbSpawn", !.kids = kids]]
         \/ DbFails /\ slot' = [slot EXCEPT ![w] = Idle] /\ UNCHANGED inst
      /\ UNCHANGED <<clock, agentVars, seen, crashes>>

(* The row, read first, is found (its line never changes), or the SELECT *)
(* fails and the answer is 404.  The log file is not modelled here.      *)
CbUpdate(w) ==
  LET e == slot[w].exec
      c == slot[w].exit
      kids == Kids(e, c)
  IN  /\ slot[w].op = "cbUpdate"
      /\ \/ /\ Update(e, Verdict(c), inst[e].node)
            /\ slot' = [slot EXCEPT ![w] = IF kids = {} THEN Idle
                                           ELSE [@ EXCEPT !.op = "cbSpawn", !.kids = kids]]
         \/ DbFails /\ slot' = [slot EXCEPT ![w] = Idle] /\ UNCHANGED inst
      /\ UNCHANGED <<clock, agentVars, seen, crashes>>

(* One turn of the loop over the edges: an enabled child gets a row of its *)
(* own, stamped with the current second; a refused insert is only logged.  *)
CbSpawn(w) ==
  /\ slot[w].op = "cbSpawn"
  /\ \E t \in slot[w].kids :
       /\ IF t \in Enabled THEN Insert(Id(t, "dag"), inst[slot[w].exec].line)
          ELSE UNCHANGED <<inst, dbErrors>>
       /\ LET left == slot[w].kids \ {t}
          IN  slot' = [slot EXCEPT ![w] = IF left = {} THEN Idle ELSE [@ EXCEPT !.kids = left]]
  /\ UNCHANGED <<clock, agentVars, seen, crashes>>

(* The query of the edges fails, which is taken for a task without any. *)
CbNoEdges(w) ==
  /\ slot[w].op = "cbSpawn" /\ slot[w].kids = Kids(slot[w].exec, 0)
  /\ DbFails
  /\ slot' = [slot EXCEPT ![w] = Idle]
  /\ UNCHANGED <<clock, inst, agentVars, seen, crashes>>

-------------------------------------------------------------------------------
(* The monitor thread. *)

(* Another second takes a Running row over its task's timeout. *)
Elapse(e) ==
  /\ inst[e].status = "Running" /\ ~inst[e].overdue
  /\ inst' = [inst EXCEPT ![e] = [@ EXCEPT !.overdue = TRUE]]
  /\ UNCHANGED <<clock, slot, agentVars, seen, faultVars>>

Running == {e \in ExecId : inst[e].status = "Running"}

(* SELECT ... WHERE status = 0; elapsed time is measured from here. *)
MonitorScan ==
  /\ seen = {}
  /\ seen' = {[exec |-> e, node |-> inst[e].node, overdue |-> inst[e].overdue] : e \in Running}
  /\ UNCHANGED <<clock, inst, slot, agentVars, faultVars>>

(* The status the monitor gives a row it saw, or "keep"; alive: the node's *)
(* heartbeat key is in Redis.                                              *)
RulingRequeues(s, alive) ==
  IF s.overdue THEN "Timeout" ELSE IF alive THEN "keep" ELSE "Ready"
RulingOnOfflineOnly(s, alive) == IF alive THEN "keep" ELSE "Failed"
Ruling(s, alive) ==
  IF s.overdue THEN "Timeout" ELSE IF alive THEN "keep" ELSE "Failed"

(* One turn of the monitor's loop; the row may have changed since the scan. *)
(* (A failed look-up of the task, which makes the timeout 3600 s, is not    *)
(* told apart from a failed UPDATE.)                                        *)
(* The key lives 90 s after a heartbeat: it may be gone for an agent that   *)
(* works (heartbeats lost) and there for one that crashed, so both happen.  *)
MonitorJudge(s) ==
  /\ seen' = seen \ {s}
  /\ \E alive \in BOOLEAN :
       IF Ruling(s, alive) = "keep" THEN UNCHANGED <<inst, dbErrors>>
       ELSE Update(s.exec, Ruling(s, alive), inst[s.exec].node)
  /\ UNCHANGED <<clock, slot, agentVars, crashes>>

-------------------------------------------------------------------------------
(* Crashes.  The table survives; what a process held in memory does not. *)

AgentCrash(n) ==
  /\ crashes < MaxCrashes
  /\ crashes' = crashes + 1
  /\ job' = [x \in Executor |-> IF Home[x] = n THEN Free ELSE job[x]]
  /\ call' = [call EXCEPT ![n] = NoWorker]
  /\ UNCHANGED <<clock, inst, slot, seen, dbErrors, starts, exits, missed>>

ManagerCrash ==
  /\ crashes < MaxCrashes
  /\ crashes' = crashes + 1
  /\ slot' = [w \in Worker |-> Idle]
  /\ call' = [n \in Node |-> NoWorker]
  /\ seen' = {}
  /\ UNCHANGED <<clock, inst, job, dbErrors, starts, exits, missed>>

-------------------------------------------------------------------------------
Poll(w) == PollSelect(w) \/ PollNone(w) \/ PollClaim(w) \/ PollReply(w) \/ PollLost(w)
Callback(w) == CbUpdate(w) \/ CbSpawn(w) \/ CbNoEdges(w)

Next ==
  \/ \E t \in Task : Run(t) \/ Incr(t) \/ CronFire(t)
  \/ Tick
  \/ \E n \in Node : PollTimeout(n) \/ \E w \in Worker : SendPoll(n, w)
  \/ \E w \in Worker : Poll(w) \/ Callback(w)
  \/ \E x \in Executor :
       \/ \E c \in ExitCode : ScriptExits(x, c)
       \/ \E w \in Worker : SendCallback(x, w)
       \/ LoseCallback(x)
  \/ \E n \in Node : AgentCrash(n)
  \/ \E e \in ExecId : Elapse(e)
  \/ MonitorScan
  \/ \E s \in seen : MonitorJudge(s)
  \/ ManagerCrash

Spec == Init /\ [][Next]_vars

(* The threads run: the monitor scans every 10 s, a handler that has begun *)
(* goes on, time passes over a Running row, an agent ends what it runs (it *)
(* kills it after timeout_sec) and polls again; a connection is accepted   *)
(* in turn, so a request that keeps finding a worker idle is served.       *)
Fairness ==
  /\ WF_vars(MonitorScan)
  /\ WF_vars(\E s \in seen : MonitorJudge(s))
  /\ \A e \in ExecId : WF_vars(Elapse(e))
  /\ \A w \in Worker : WF_vars(Poll(w)) /\ WF_vars(Callback(w))
  /\ \A x \in Executor :
       /\ WF_vars(\E c \in ExitCode : ScriptExits(x, c))
       /\ SF_vars((\E w \in Worker : SendCallback(x, w)) \/ LoseCallback(x))
  /\ \A n \in Node : SF_vars(\E w \in Worker : SendPoll(n, w))

FairSpec == Spec /\ Fairness

-------------------------------------------------------------------------------
Bound == {t \in Task : Target[t] # Public}

(* An execution of a task bound to a node is only ever held, handed out or *)
(* run by that node (poll's WHERE clause and the claim's node_id).         *)
TargetRespected ==
  \A e \in ExecId : e.task \in Bound =>
    /\ inst[e].status \in {"Running"} \cup Settled => inst[e].node = Target[e.task]
    /\ \A x \in Executor : job[x].exec = e => Home[x] = Target[e.task]

(* An execution bound to a node starts at most once, and once more for each *)
(* UPDATE that failed to claim it, although poll claims with an             *)
(* unconditional UPDATE: replies to abandoned polls, crashes, lost          *)
(* callbacks and the monitor never lead to another start.                   *)
BoundRunsOnce == \A e \in ExecId : e.task \in Bound => starts[e] <= 1 + missed[e]

(* A row is recorded as Success only if an agent ran its script and the    *)
(* script ended with exit code 0 (callback's status mapping).              *)
SuccessIsEarned ==
  \A e \in ExecId : inst[e].status = "Success" => starts[e] > 0 /\ 0 \in exits[e]

(* An upstream execution p that could trigger the downstream row e. *)
Caller(p, e) ==
  /\ p.kind # "incr"
  /\ 0 \in exits[p]
  /\ inst[p].status # "absent"
  /\ inst[p].line = inst[e].line
  /\ <<inst[p].line, p.task, e.task>> \in Edges

(* A downstream row exists only because an upstream execution of the same  *)
(* pipeline, not started by incr, ended with 0 (callback's DAG part).      *)
ChildNeedsSuccess ==
  \A e \in ExecId : inst[e].status # "absent" /\ e.kind = "dag" =>
    \E p \in ExecId : Caller(p, e)

(* A row once handed out is never queued again: no handler and no thread   *)
(* retries it, whatever a stale UPDATE does to its status.                 *)
NeverRequeued ==
  [][\A e \in ExecId : inst[e].status \notin {"absent", "Ready"} =>
       inst'[e].status \notin {"absent", "Ready"}]_vars

(* A Running row does not stay Running: its callback or, the callback lost *)
(* or its node gone, the monitor settles it.                               *)
RunningSettles ==
  \A e \in ExecId : inst[e].status = "Running" ~> inst[e].status \in Settled

(* A queued row is handed out to some agent in the end, although poll takes *)
(* any matching row and agents drop polls and crash.                        *)
ReadyIsClaimed ==
  \A e \in ExecId : inst[e].status = "Ready" ~> inst[e].status # "Ready"

(* "After it succeeds, its downstream is triggered": when no callback is in  *)
(* its DAG part, a successful execution's enabled children have rows in its  *)
(* pipeline.  Refuted by the second-stamped ids of child rows.              *)
DownstreamTriggered ==
  (\A w \in Worker : slot[w].op # "cbSpawn") =>
    \A e \in ExecId : inst[e].status = "Success" =>
      \A t \in Kids(e, 0) \cap Enabled :
        \E d \in ExecId : d.kind = "dag" /\ d.task = t /\ inst[d].line = inst[e].line

(* The monitor resets zombies: a row recorded as Success is not one, so it   *)
(* keeps its status.  Refuted by the monitor's and poll's stale UPDATEs.     *)
SuccessIsFinal ==
  [][\A e \in ExecId : inst[e].status = "Success" => inst'[e].status = "Success"]_vars

(* What is left of it: a Success goes to a sighting of the monitor, to a     *)
(* claim of a row that was taken for Ready before, or to another run of the  *)
(* same execution, never to a handler that has just read the row.            *)
SuccessLostToStaleReads ==
  [][\A e \in ExecId : inst[e].status = "Success" /\ inst'[e].status # "Success" =>
       \/ \E s \in seen : s.exec = e
       \/ \E w \in Worker : slot[w].op = "pollClaim" /\ slot[w].exec = e
       \/ starts[e] > 1]_vars

(* What is left of the downstream: while no statement fails and nothing      *)
(* crashes, each enabled child that one pipeline only makes a child has its  *)
(* row there or is still to get it, although the status of the parent may    *)
(* have been settled by the monitor before the callback came.                *)
ChildOnly(t, l) == \A edge \in Edges : edge[3] = t => edge[1] = l
Spawning(e, t)  == \E w \in Worker :
                     slot[w].op = "cbSpawn" /\ slot[w].exec = e /\ t \in slot[w].kids
HasRow(t, l)    == \E d \in ExecId : /\ d.kind = "dag" /\ d.task = t
                                     /\ inst[d].status # "absent" /\ inst[d].line = l
OwnChildTriggered ==
  dbErrors = 0 /\ crashes = 0 =>
    \A e \in ExecId : inst[e].status = "Success" =>
      \A t \in Kids(e, 0) \cap Enabled : ChildOnly(t, inst[e].line) =>
        Spawning(e, t) \/ HasRow(t, inst[e].line)

(* The inductive invariant behind these properties, in layers.  Handlers,   *)
(* executors and the monitor hold ids of rows that exist; what an agent runs *)
(* was started.                                                              *)
Polling   == {"pollSelect", "pollClaim", "pollReply"}
Answering == {"cbUpdate", "cbSpawn"}

Busy ==
  /\ \A w \in Worker :
       /\ slot[w].op \in Polling => slot[w].node \in Node
       /\ slot[w].op \notin {"idle", "pollSelect"} =>
            slot[w].exec \in ExecId /\ inst[slot[w].exec].status # "absent"
       /\ slot[w].op \in Answering => starts[slot[w].exec] > 0
  /\ \A x \in Executor : job[x].op # "free" =>
       job[x].exec \in ExecId /\ starts[job[x].exec] > 0
  /\ \A e \in ExecId : starts[e] > 0 => inst[e].status # "absent"
  /\ \A s \in seen : inst[s.exec].status # "absent"

(* A bound task's row, the poll that took it and its script are its node's. *)
RowsPlaced ==
  \A e \in ExecId : e.task \in Bound /\ inst[e].status # "absent" =>
    inst[e].node = Target[e.task]
PollsPlaced ==
  \A w \in Worker, e \in ExecId :
    e.task \in Bound /\ slot[w].op \in Polling /\ slot[w].exec = e =>
      slot[w].node = Target[e.task]
JobsPlaced ==
  \A x \in Executor, e \in ExecId : e.task \in Bound /\ job[x].exec = e =>
    Home[x] = Target[e.task]
Placed == RowsPlaced /\ PollsPlaced /\ JobsPlaced

(* Exit codes that are reported or acted on are those of scripts that ended. *)
JobsCaused ==
  \A x \in Executor : job[x].op = "done" => job[x].exit \in exits[job[x].exec]
SlotCaused(w) ==
  /\ slot[w].op = "cbUpdate" => slot[w].exit \in exits[slot[w].exec]
  /\ slot[w].op = "cbSpawn" =>
       0 \in exits[slot[w].exec] /\ slot[w].kids \subseteq Kids(slot[w].exec, 0)
SlotsCaused == \A w \in Worker : SlotCaused(w)
Caused == JobsCaused /\ SlotsCaused

(* An execution that was started once is run by one executor or reported by *)
(* one callback, and by none any more once it is recorded as Success.       *)
RunBy(x, e)      == job[x].op # "free" /\ job[x].exec = e
ReportedBy(w, e) == slot[w].op = "cbUpdate" /\ slot[w].exec = e
InOneHand(e) ==
  /\ \A x, y \in Executor : RunBy(x, e) /\ RunBy(y, e) => x = y
  /\ \A v, w \in Worker : ReportedBy(v, e) /\ ReportedBy(w, e) => v = w
  /\ \A x \in Executor, w \in Worker : ~(RunBy(x, e) /\ ReportedBy(w, e))
  /\ inst[e].status = "Success" =>
       /\ \A x \in Executor : ~RunBy(x, e)
       /\ \A w \in Worker : ~ReportedBy(w, e)
Single == \A e \in ExecId : starts[e] <= 1 => InOneHand(e)

(* An agent waits for one poll, its own. *)
OwnPoll ==
  \A n \in Node : call[n] # NoWorker =>
    slot[call[n]].op \in Polling /\ slot[call[n]].node = n
(* A bound row on offer was started only where its claim failed, *)
NotOffered ==
  \A e \in ExecId :
    e.task \in Bound /\ inst[e].status = "Ready" => starts[e] <= missed[e]
(* and so was one an agent is about to get: the claim of a row that is on   *)
(* offer still has failed for this very poll.                               *)
FreshPoll ==
  \A n \in Node, e \in ExecId :
    e.task \in Bound /\ call[n] # NoWorker /\ slot[call[n]].op # "pollSelect"
      /\ slot[call[n]].exec = e =>
        /\ starts[e] <= missed[e]
        /\ slot[call[n]].op = "pollReply" /\ inst[e].status = "Ready" =>
             starts[e] < missed[e]
Serial == OwnPoll /\ NotOffered /\ FreshPoll /\ BoundRunsOnce

(* The table, the starts and the exit codes behave as TaskLedger promises. *)
Ledger == INSTANCE TaskLedger WITH
            Exec <- ExecId,
            status <- [e \in ExecId |-> inst[e].status],
            line <- [e \in ExecId |-> inst[e].line],
            runs <- starts
ImplementsLedger == Ledger!Spec
===============================================================================
