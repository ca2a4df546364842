-------------------------- MODULE TaskDispatchProofs --------------------------
(***************************************************************************)
(* Safety of TaskDispatch for any tasks, nodes, pipelines, workers and     *)
(* bounds.                                                                 *)
(***************************************************************************)
EXTENDS TaskDispatch, FiniteSetTheorems, TLAPS

-------------------------------------------------------------------------------
(* The database statements. *)

(* A task is resolved to a pipeline that holds it or to the fallback. *)
LEMMA ResolveType ==
  ASSUME NEW tasksOf, NEW t
  PROVE  Resolved(tasksOf, t) \subseteq Line
<1> DEFINE matches == {p \in Pipeline : t \in tasksOf[p]}
<1>1. CASE Cardinality(matches) = 1
  <2>1. matches # {}
    BY <1>1, FS_EmptySet
  <2>2. (CHOOSE p \in matches : TRUE) \in Pipeline
    BY <2>1
  <2>3. QED
    BY <1>1, <2>2 DEF Resolved, Resolve, Line
<1>2. CASE Cardinality(matches) # 1
  BY <1>2 DEF Resolved, Resolve, Line
<1>3. QED
  BY <1>1, <1>2

(* An INSERT writes a Ready row under a free key, or changes nothing. *)
LEMMA InsertEffect ==
  ASSUME TypeOK, NEW e \in ExecId, NEW l \in Line, Insert(e, l)
  PROVE  /\ inst' \in [ExecId -> Row]
         /\ dbErrors' \in 0..MaxDbErrors
         /\ \/ inst' = inst
            \/ inst[e].status = "absent" /\ inst' = [inst EXCEPT ![e] = Ready(e.task, l)]
<1>1. Ready(e.task, l) \in Row
  BY Constants DEF Ready, Row, Status, Line, ExecId
<1>2. dbErrors' \in 0..MaxDbErrors
  BY Constants DEF TypeOK, Insert, DbFails
<1>3. \/ inst' = inst
      \/ inst[e].status = "absent" /\ inst' = [inst EXCEPT ![e] = Ready(e.task, l)]
  BY DEF Insert, DbFails
<1>4. QED
  BY <1>1, <1>2, <1>3 DEF TypeOK

(* An UPDATE writes one row's status and node, or changes nothing. *)
LEMMA UpdateEffect ==
  ASSUME TypeOK, NEW e \in ExecId, NEW s \in Status, NEW n \in Node \cup {Public},
         Update(e, s, n)
  PROVE  /\ inst' \in [ExecId -> Row]
         /\ dbErrors' \in 0..MaxDbErrors
         /\ \/ inst' = inst
            \/ inst' = [inst EXCEPT ![e] = Written(e, s, n)]
<1>1. Written(e, s, n) \in Row
  BY DEF TypeOK, Row, Written
<1>2. dbErrors' \in 0..MaxDbErrors
  BY Constants DEF TypeOK, Update, DbFails
<1>3. inst' = inst \/ inst' = [inst EXCEPT ![e] = Written(e, s, n)]
  BY DEF Update
<1>4. QED
  BY <1>1, <1>2, <1>3 DEF TypeOK

-------------------------------------------------------------------------------
(* What a step may do to a row: nothing that matters here, insert it as     *)
(* Ready, or give a row that exists a status it had not been queued with.   *)
Moves(e) ==
  \/ UNCHANGED <<inst[e].status, inst[e].node, inst[e].line>>
  \/ inst[e].status = "absent" /\ \E l \in Line : inst'[e] = Ready(e.task, l)
  \/ /\ inst[e].status # "absent"
     /\ inst'[e].status \in {"Running"} \cup Settled
     /\ inst'[e].line = inst[e].line

RowsMove == \A e \in ExecId : Moves(e)

(* The layers that hold whether or not statements fail. *)
TypeInv == TypeOK /\ Busy

LEMMA InsertMoves ==
  ASSUME TypeInv, NEW e \in ExecId, NEW l \in Line, Insert(e, l)
  PROVE  /\ inst' \in [ExecId -> Row] /\ dbErrors' \in 0..MaxDbErrors
         /\ RowsMove
<1>1. /\ inst' \in [ExecId -> Row] /\ dbErrors' \in 0..MaxDbErrors
      /\ \/ inst' = inst
         \/ inst[e].status = "absent" /\ inst' = [inst EXCEPT ![e] = Ready(e.task, l)]
  BY InsertEffect DEF TypeInv
<1>2. QED
  BY <1>1 DEF RowsMove, Moves, TypeInv, TypeOK

LEMMA UpdateMoves ==
  ASSUME TypeInv, NEW e \in ExecId, NEW s \in {"Running"} \cup Settled,
         NEW n \in Node \cup {Public}, Update(e, s, n), inst[e].status # "absent"
  PROVE  /\ inst' \in [ExecId -> Row] /\ dbErrors' \in 0..MaxDbErrors
         /\ RowsMove
<1>1. /\ inst' \in [ExecId -> Row] /\ dbErrors' \in 0..MaxDbErrors
      /\ \/ inst' = inst
         \/ inst' = [inst EXCEPT ![e] = Written(e, s, n)]
  BY UpdateEffect DEF TypeInv, Status
<1>2. QED
  BY <1>1 DEF RowsMove, Moves, Written, TypeInv, TypeOK

(* Rows never disappear, so ids held stay ids of rows that exist. *)
LEMMA RowsStay ==
  ASSUME TypeInv, RowsMove, NEW e \in ExecId, inst[e].status # "absent"
  PROVE  inst'[e].status # "absent" /\ inst'[e].line = inst[e].line
BY DEF RowsMove, Moves, Settled

LEMMA NoMove ==
  ASSUME UNCHANGED inst
  PROVE  RowsMove
BY DEF RowsMove, Moves

(* Actions that change no slot, job or count keep the holders busy. *)
LEMMA BusyHolders ==
  ASSUME TypeInv, RowsMove, seen' \subseteq seen, UNCHANGED <<slot, job, starts>>
  PROVE  Busy'
<1>1. \A e \in ExecId : inst[e].status # "absent" => inst'[e].status # "absent"
  BY RowsStay
<1>2. \A s \in seen' : s.exec \in ExecId /\ inst[s.exec].status # "absent"
  BY DEF TypeInv, TypeOK, Busy, Sighting
<1>3. QED
  BY <1>1, <1>2 DEF TypeInv, Busy

-------------------------------------------------------------------------------
(* Requests. *)
LEMMA RequestStep ==
  ASSUME TypeInv, NEW t \in Task, Run(t) \/ Incr(t) \/ CronFire(t)
  PROVE  TypeOK' /\ Busy' /\ RowsMove
<1>1. \A k \in Kind : Id(t, k) \in ExecId
  BY DEF Id, ExecId, TypeInv, TypeOK
<1>2. \E k \in Kind, l \in Line : Insert(Id(t, k), l)
  BY ResolveType DEF Run, Incr, CronFire, Line, Kind
<1>3. inst' \in [ExecId -> Row] /\ dbErrors' \in 0..MaxDbErrors /\ RowsMove
  BY <1>1, <1>2, InsertMoves
<1>4. UNCHANGED <<clock, slot, call, job, starts, exits, seen, crashes, missed>>
  BY DEF Run, Incr, CronFire, agentVars
<1>5. TypeOK'
  BY <1>3, <1>4 DEF TypeInv, TypeOK
<1>6. QED
  BY <1>3, <1>4, <1>5, BusyHolders

LEMMA TickStep ==
  ASSUME TypeInv, Tick
  PROVE  TypeOK' /\ Busy' /\ RowsMove
<1>1. TypeOK'
  BY Constants DEF Tick, TypeInv, TypeOK, agentVars, faultVars
<1>2. QED
  BY <1>1, NoMove, BusyHolders DEF Tick, agentVars

(* Polls. *)
LEMMA SendPollStep ==
  ASSUME TypeInv, NEW n \in Node, NEW w \in Worker, SendPoll(n, w)
  PROVE  TypeOK' /\ Busy' /\ RowsMove
<1> DEFINE new == [Idle EXCEPT !.op = "pollSelect", !.node = n]
<1>1. new \in Slot /\ new.op = "pollSelect" /\ new.node = n
  BY DEF Idle, Slot, ExitCode
<1>2. slot' = [slot EXCEPT ![w] = new]
  BY DEF SendPoll
<1>3. TypeOK'
  BY <1>1, <1>2 DEF SendPoll, TypeInv, TypeOK, faultVars
<1>4. Busy'
  BY <1>1, <1>2 DEF SendPoll, TypeInv, TypeOK, Busy, Answering
<1>5. QED
  BY <1>3, <1>4, NoMove DEF SendPoll

LEMMA PollTimeoutStep ==
  ASSUME TypeInv, NEW n \in Node, PollTimeout(n)
  PROVE  TypeOK' /\ Busy' /\ RowsMove
<1>1. TypeOK'
  BY DEF PollTimeout, TypeInv, TypeOK, faultVars
<1>2. QED
  BY <1>1, NoMove, BusyHolders DEF PollTimeout

LEMMA PollSelectStep ==
  ASSUME TypeInv, NEW w \in Worker, PollSelect(w)
  PROVE  TypeOK' /\ Busy' /\ RowsMove
<1>1. PICK e \in ExecId :
        /\ Offered(slot[w].node, e)
        /\ slot' = [slot EXCEPT ![w] = [@ EXCEPT !.op = "pollClaim", !.exec = e]]
  BY DEF PollSelect
<1> DEFINE new == [slot[w] EXCEPT !.op = "pollClaim", !.exec = e]
<1>2. new \in Slot /\ new.op = "pollClaim" /\ new.exec = e /\ new.node = slot[w].node
  BY DEF TypeInv, TypeOK, Slot
<1>3. slot' = [slot EXCEPT ![w] = new]
  BY <1>1
<1>4. TypeOK'
  BY <1>2, <1>3 DEF PollSelect, TypeInv, TypeOK, agentVars, faultVars
<1>5. Busy'
  BY <1>1, <1>2, <1>3 DEF PollSelect, Offered, TypeInv, TypeOK, Busy, Polling, Answering, agentVars
<1>6. QED
  BY <1>4, <1>5, NoMove DEF PollSelect

LEMMA PollEndsStep ==
  ASSUME TypeInv, NEW w \in Worker, PollNone(w) \/ PollLost(w)
  PROVE  TypeOK' /\ Busy' /\ RowsMove
<1>1. Idle \in Slot /\ Idle.op = "idle"
  BY DEF Idle, Slot, ExitCode
<1>2. /\ slot' = [slot EXCEPT ![w] = Idle]
      /\ UNCHANGED <<clock, inst, job, seen, crashes, starts, exits, missed>>
      /\ dbErrors' \in 0..MaxDbErrors
      /\ call' \in [Node -> Worker \cup {NoWorker}]
  BY Constants DEF PollNone, PollLost, DbFails, HangUp, TypeInv, TypeOK
<1>3. TypeOK'
  BY <1>1, <1>2 DEF TypeInv, TypeOK
<1>4. Busy'
  BY <1>1, <1>2 DEF TypeInv, TypeOK, Busy, Polling, Answering
<1>5. QED
  BY <1>2, <1>3, <1>4, NoMove

LEMMA PollClaimStep ==
  ASSUME TypeInv, NEW w \in Worker, PollClaim(w)
  PROVE  TypeOK' /\ Busy' /\ RowsMove
<1> DEFINE new == [slot[w] EXCEPT !.op = "pollReply"]
<1>1. new \in Slot /\ new.op = "pollReply" /\ new.exec = slot[w].exec /\ new.node = slot[w].node
  BY DEF TypeInv, TypeOK, Slot
<1>2. slot' = [slot EXCEPT ![w] = new]
  BY DEF PollClaim
<1>3. /\ slot[w].exec \in ExecId
      /\ slot[w].node \in Node
      /\ inst[slot[w].exec].status # "absent"
  BY DEF PollClaim, TypeInv, Busy, Polling
<1>4. inst' \in [ExecId -> Row] /\ dbErrors' \in 0..MaxDbErrors /\ RowsMove
  BY <1>3, UpdateMoves DEF PollClaim
<1>m. missed' \in [ExecId -> Nat]
  BY <1>3 DEF PollClaim, TypeInv, TypeOK
<1>5. TypeOK'
  BY <1>1, <1>2, <1>4, <1>m DEF PollClaim, TypeInv, TypeOK
<1>6. \A e \in ExecId : inst[e].status # "absent" => inst'[e].status # "absent"
  BY <1>4, RowsStay
<1>7. Busy'
  <2>1. \A s \in seen : s.exec \in ExecId
    BY DEF TypeInv, TypeOK, Sighting
  <2>2. UNCHANGED <<job, seen, starts>>
    BY DEF PollClaim
  <2>3. QED
    BY <1>1, <1>2, <1>3, <1>6, <2>1, <2>2 DEF TypeInv, TypeOK, Busy, Polling, Answering
<1>8. QED
  BY <1>4, <1>5, <1>7

LEMMA PollReplyStep ==
  ASSUME TypeInv, NEW w \in Worker, PollReply(w)
  PROVE  TypeOK' /\ Busy' /\ RowsMove
<1> DEFINE new == [op |-> "running", exec |-> slot[w].exec, exit |-> 0]
<1>1. /\ slot[w].exec \in ExecId
      /\ inst[slot[w].exec].status # "absent"
  BY DEF PollReply, TypeInv, Busy
<1>2. Idle \in Slot /\ Idle.op = "idle" /\ new \in Job /\ new.exec = slot[w].exec
  BY <1>1 DEF Idle, Slot, Job, ExitCode
<1>3. PICK x \in Executor : job' = [job EXCEPT ![x] = new]
  BY DEF PollReply
<1>4. /\ slot' = [slot EXCEPT ![w] = Idle]
      /\ starts' = [starts EXCEPT ![slot[w].exec] = @ + 1]
      /\ UNCHANGED <<clock, inst, seen, dbErrors, crashes, exits, missed>>
      /\ call' \in [Node -> Worker \cup {NoWorker}]
  BY DEF PollReply, HangUp, faultVars, TypeInv, TypeOK
<1>5. /\ starts' \in [ExecId -> Nat]
      /\ starts'[slot[w].exec] > 0
      /\ \A e \in ExecId : starts[e] > 0 => starts'[e] > 0
      /\ \A e \in ExecId : starts'[e] > 0 => starts[e] > 0 \/ e = slot[w].exec
  BY <1>1, <1>4 DEF TypeInv, TypeOK
<1>6. TypeOK'
  BY <1>2, <1>3, <1>4, <1>5 DEF TypeInv, TypeOK
<1>7. Busy'
  BY <1>1, <1>2, <1>3, <1>4, <1>5 DEF TypeInv, TypeOK, Busy, Polling, Answering
<1>8. QED
  BY <1>4, <1>6, <1>7, NoMove

(* Executors. *)
LEMMA ScriptExitsStep ==
  ASSUME TypeInv, NEW x \in Executor, NEW c \in ExitCode, ScriptExits(x, c)
  PROVE  TypeOK' /\ Busy' /\ RowsMove
<1> DEFINE new == [job[x] EXCEPT !.op = "done", !.exit = c]
<1>1. new \in Job /\ new.op = "done" /\ new.exec = job[x].exec
  BY DEF TypeInv, TypeOK, Job
<1>2. job' = [job EXCEPT ![x] = new]
  BY DEF ScriptExits
<1>3. exits' \in [ExecId -> SUBSET ExitCode]
  BY DEF ScriptExits, TypeInv, TypeOK
<1>4. TypeOK'
  BY <1>1, <1>2, <1>3 DEF ScriptExits, TypeInv, TypeOK, faultVars
<1>5. Busy'
  BY <1>1, <1>2 DEF ScriptExits, TypeInv, TypeOK, Busy
<1>6. QED
  BY <1>4, <1>5, NoMove DEF ScriptExits

LEMMA LoseCallbackStep ==
  ASSUME TypeInv, NEW x \in Executor, LoseCallback(x)
  PROVE  TypeOK' /\ Busy' /\ RowsMove
<1>1. Free \in Job /\ Free.op = "free"
  BY DEF Free, Job, ExitCode
<1>2. TypeOK'
  BY <1>1 DEF LoseCallback, TypeInv, TypeOK, faultVars
<1>3. Busy'
  BY <1>1 DEF LoseCallback, TypeInv, TypeOK, Busy
<1>4. QED
  BY <1>2, <1>3, NoMove DEF LoseCallback

LEMMA SendCallbackStep ==
  ASSUME TypeInv, NEW x \in Executor, NEW w \in Worker, SendCallback(x, w)
  PROVE  TypeOK' /\ Busy' /\ RowsMove
<1> DEFINE new == [Idle EXCEPT !.op = "cbUpdate", !.exec = job[x].exec, !.exit = job[x].exit]
<1>1. new \in Slot /\ new.op = "cbUpdate" /\ new.exec = job[x].exec /\ new.exit = job[x].exit
  BY DEF Idle, Slot, Job, ExitCode, TypeInv, TypeOK
<1>2. Free \in Job /\ Free.op = "free"
  BY DEF Free, Job, ExitCode
<1>3. slot' = [slot EXCEPT ![w] = new] /\ job' = [job EXCEPT ![x] = Free]
  BY DEF SendCallback
<1>4. /\ job[x].exec \in ExecId
      /\ starts[job[x].exec] > 0
      /\ inst[job[x].exec].status # "absent"
  BY DEF SendCallback, TypeInv, Busy
<1>5. TypeOK'
  BY <1>1, <1>2, <1>3 DEF SendCallback, TypeInv, TypeOK, faultVars
<1>6. Busy'
  BY <1>1, <1>2, <1>3, <1>4 DEF SendCallback, TypeInv, TypeOK, Busy, Polling
<1>7. QED
  BY <1>5, <1>6, NoMove DEF SendCallback

(* Callbacks. *)

(* A callback's step leaves a worker idle or about to spawn e's children. *)
LEMMA AnswerStep ==
  ASSUME TypeInv, RowsMove, NEW w \in Worker, NEW new \in Slot,
         inst' \in [ExecId -> Row], dbErrors' \in 0..MaxDbErrors,
         slot[w].op \in Answering,
         new.op \in {"idle", "cbSpawn"},
         new.op = "cbSpawn" => new.exec = slot[w].exec,
         slot' = [slot EXCEPT ![w] = new],
         UNCHANGED <<clock, agentVars, seen, crashes>>
  PROVE  TypeOK' /\ Busy'
<1>1. UNCHANGED <<clock, call, job, starts, exits, seen, crashes, missed>>
  BY DEF agentVars
<1>2. TypeOK'
  BY <1>1 DEF TypeInv, TypeOK
<1>3. \A e \in ExecId : inst[e].status # "absent" => inst'[e].status # "absent"
  BY RowsStay
<1>4. \A s \in seen : s.exec \in ExecId
  BY DEF TypeInv, TypeOK, Sighting
<1>5. slot[w].exec \in ExecId /\ inst[slot[w].exec].status # "absent" /\ starts[slot[w].exec] > 0
  BY DEF TypeInv, Busy, Answering
<1>6. Busy'
  BY <1>1, <1>3, <1>4, <1>5 DEF TypeInv, TypeOK, Busy, Polling, Answering
<1>7. QED
  BY <1>2, <1>6

LEMMA CbUpdateStep ==
  ASSUME TypeInv, NEW w \in Worker, CbUpdate(w)
  PROVE  TypeOK' /\ Busy' /\ RowsMove
<1> DEFINE e == slot[w].exec
           kids == Kids(e, slot[w].exit)
           spawn == [slot[w] EXCEPT !.op = "cbSpawn", !.kids = kids]
<1>1. slot[w].op \in Answering /\ e \in ExecId /\ inst[e].status # "absent"
  BY DEF CbUpdate, TypeInv, Busy, Answering
<1>2. Idle \in Slot /\ Idle.op = "idle"
  BY DEF Idle, Slot, ExitCode
<1>3. spawn \in Slot /\ spawn.op = "cbSpawn" /\ spawn.exec = e
  BY DEF TypeInv, TypeOK, Slot, Kids
<1>4. slot' = [slot EXCEPT ![w] = Idle] \/ slot' = [slot EXCEPT ![w] = spawn]
  BY DEF CbUpdate
<1>5. inst' \in [ExecId -> Row] /\ dbErrors' \in 0..MaxDbErrors /\ RowsMove
  <2>1. CASE Update(e, Verdict(slot[w].exit), inst[e].node)
    <3>1. Verdict(slot[w].exit) \in Settled /\ inst[e].node \in Node \cup {Public}
      BY <1>1 DEF Verdict, Settled, TypeInv, TypeOK, Row
    <3>2. QED
      BY <1>1, <2>1, <3>1, UpdateMoves
  <2>2. CASE DbFails /\ UNCHANGED inst
    BY <2>2, NoMove, Constants DEF DbFails, TypeInv, TypeOK
  <2>3. QED
    BY <2>1, <2>2 DEF CbUpdate
<1>6. UNCHANGED <<clock, agentVars, seen, crashes>>
  BY DEF CbUpdate
<1>7. TypeOK' /\ Busy'
  BY <1>1, <1>2, <1>3, <1>4, <1>5, <1>6, AnswerStep
<1>8. QED
  BY <1>5, <1>7

LEMMA SlotKids ==
  ASSUME NEW s \in Slot, NEW k \in SUBSET Task
  PROVE  /\ [s EXCEPT !.kids = k] \in Slot
         /\ [s EXCEPT !.kids = k].op = s.op
         /\ [s EXCEPT !.kids = k].exec = s.exec
         /\ [s EXCEPT !.kids = k].kids = k
BY DEF Slot

LEMMA CbSpawnStep ==
  ASSUME TypeInv, NEW w \in Worker, CbSpawn(w)
  PROVE  TypeOK' /\ Busy' /\ RowsMove
<1>1. PICK t \in slot[w].kids :
        /\ IF t \in Enabled THEN Insert(Id(t, "dag"), inst[slot[w].exec].line)
           ELSE UNCHANGED <<inst, dbErrors>>
        /\ LET left == slot[w].kids \ {t}
           IN  slot' = [slot EXCEPT ![w] = IF left = {} THEN Idle ELSE [@ EXCEPT !.kids = left]]
  BY DEF CbSpawn
<1> DEFINE rest == [slot[w] EXCEPT !.kids = slot[w].kids \ {t}]
<1>2. slot[w].op = "cbSpawn" /\ slot[w].op \in Answering /\ slot[w].exec \in ExecId
  BY DEF CbSpawn, TypeInv, Busy, Answering
<1>3. Idle \in Slot /\ Idle.op = "idle"
  BY DEF Idle, Slot, ExitCode
<1>4. rest \in Slot /\ rest.op = "cbSpawn" /\ rest.exec = slot[w].exec
  <2>1. slot[w] \in Slot /\ slot[w].kids \ {t} \in SUBSET Task
    BY DEF TypeInv, TypeOK, Slot
  <2>2. QED
    BY <1>2, <2>1, SlotKids
<1>5. slot' = [slot EXCEPT ![w] = Idle] \/ slot' = [slot EXCEPT ![w] = rest]
  BY <1>1
<1>6. inst' \in [ExecId -> Row] /\ dbErrors' \in 0..MaxDbErrors /\ RowsMove
  <2>1. t \in Task
    BY DEF TypeInv, TypeOK, Slot
  <2>2. Id(t, "dag") \in ExecId
    BY <2>1 DEF Id, ExecId, Kind, TypeInv, TypeOK
  <2>3. inst[slot[w].exec].line \in Line
    BY <1>2 DEF TypeInv, TypeOK, Row
  <2>4. CASE t \in Enabled
    BY <1>1, <2>2, <2>3, <2>4, InsertMoves
  <2>5. CASE t \notin Enabled
    BY <1>1, <2>5, NoMove DEF TypeInv, TypeOK
  <2>6. QED
    BY <2>4, <2>5
<1>7. UNCHANGED <<clock, agentVars, seen, crashes>>
  BY DEF CbSpawn
<1>8. TypeOK' /\ Busy'
  BY <1>2, <1>3, <1>4, <1>5, <1>6, <1>7, AnswerStep
<1>9. QED
  BY <1>6, <1>8

LEMMA CbNoEdgesStep ==
  ASSUME TypeInv, NEW w \in Worker, CbNoEdges(w)
  PROVE  TypeOK' /\ Busy' /\ RowsMove
<1>1. slot[w].op \in Answering
  BY DEF CbNoEdges, Answering
<1>2. Idle \in Slot /\ Idle.op = "idle"
  BY DEF Idle, Slot, ExitCode
<1>3. inst' \in [ExecId -> Row] /\ dbErrors' \in 0..MaxDbErrors /\ RowsMove
  BY NoMove, Constants DEF CbNoEdges, DbFails, TypeInv, TypeOK
<1>4. UNCHANGED <<clock, agentVars, seen, crashes>> /\ slot' = [slot EXCEPT ![w] = Idle]
  BY DEF CbNoEdges
<1>5. QED
  BY <1>1, <1>2, <1>3, <1>4, AnswerStep

(* The monitor thread and crashes. *)
LEMMA ElapseStep ==
  ASSUME TypeInv, NEW e \in ExecId, Elapse(e)
  PROVE  TypeOK' /\ Busy' /\ RowsMove
<1> DEFINE new == [inst[e] EXCEPT !.overdue = TRUE]
<1>1. /\ new \in Row
      /\ new.status = inst[e].status
      /\ new.node = inst[e].node
      /\ new.line = inst[e].line
  BY DEF TypeInv, TypeOK, Row
<1>2. inst' = [inst EXCEPT ![e] = new]
  BY DEF Elapse
<1>3. TypeOK'
  BY <1>1, <1>2 DEF Elapse, TypeInv, TypeOK, agentVars, faultVars
<1>4. RowsMove
  BY <1>1, <1>2 DEF RowsMove, Moves, TypeInv, TypeOK
<1>5. QED
  BY <1>3, <1>4, BusyHolders DEF Elapse, agentVars

LEMMA MonitorScanStep ==
  ASSUME TypeInv, MonitorScan
  PROVE  TypeOK' /\ Busy' /\ RowsMove
<1>1. \A s \in seen' : s \in Sighting /\ inst[s.exec].status # "absent"
  BY DEF MonitorScan, Running, Sighting, TypeInv, TypeOK, Row
<1>2. UNCHANGED <<clock, inst, slot, call, job, starts, exits, dbErrors, crashes, missed>>
  BY DEF MonitorScan, agentVars, faultVars
<1>3. TypeOK'
  BY <1>1, <1>2 DEF TypeInv, TypeOK
<1>4. Busy'
  BY <1>1, <1>2 DEF TypeInv, Busy
<1>5. QED
  BY <1>2, <1>3, <1>4, NoMove

LEMMA MonitorJudgeStep ==
  ASSUME TypeInv, NEW s \in seen, MonitorJudge(s)
  PROVE  TypeOK' /\ Busy' /\ RowsMove
<1>1. s.exec \in ExecId /\ inst[s.exec].status # "absent"
  BY DEF TypeInv, TypeOK, Busy, Sighting
<1>2. inst' \in [ExecId -> Row] /\ dbErrors' \in 0..MaxDbErrors /\ RowsMove
  <2>1. PICK alive \in BOOLEAN :
          IF Ruling(s, alive) = "keep" THEN UNCHANGED <<inst, dbErrors>>
          ELSE Update(s.exec, Ruling(s, alive), inst[s.exec].node)
    BY DEF MonitorJudge
  <2>2. CASE Ruling(s, alive) = "keep"
    BY <2>1, <2>2, NoMove DEF TypeInv, TypeOK
  <2>3. CASE Ruling(s, alive) # "keep"
    <3>1. Ruling(s, alive) \in Settled
      BY <2>3 DEF Ruling, Settled
    <3>2. inst[s.exec].node \in Node \cup {Public}
      BY <1>1 DEF TypeInv, TypeOK, Row
    <3>3. QED
      BY <1>1, <2>1, <2>3, <3>1, <3>2, UpdateMoves
  <2>4. QED
    BY <2>2, <2>3
<1>3. seen' \subseteq seen /\ UNCHANGED <<clock, slot, call, job, starts, exits, crashes, missed>>
  BY DEF MonitorJudge, agentVars
<1>4. TypeOK'
  BY <1>2, <1>3 DEF TypeInv, TypeOK
<1>5. QED
  BY <1>2, <1>3, <1>4, BusyHolders

LEMMA AgentCrashStep ==
  ASSUME TypeInv, NEW n \in Node, AgentCrash(n)
  PROVE  TypeOK' /\ Busy' /\ RowsMove
<1>1. Free \in Job /\ Free.op = "free"
  BY DEF Free, Job, ExitCode
<1>2. TypeOK'
  BY <1>1, Constants DEF AgentCrash, TypeInv, TypeOK
<1>3. Busy'
  BY <1>1 DEF AgentCrash, TypeInv, TypeOK, Busy
<1>4. QED
  BY <1>2, <1>3, NoMove DEF AgentCrash

LEMMA ManagerCrashStep ==
  ASSUME TypeInv, ManagerCrash
  PROVE  TypeOK' /\ Busy' /\ RowsMove
<1>1. Idle \in Slot /\ Idle.op = "idle"
  BY DEF Idle, Slot, ExitCode
<1>2. TypeOK'
  BY <1>1, Constants DEF ManagerCrash, TypeInv, TypeOK
<1>3. Busy'
  BY <1>1 DEF ManagerCrash, TypeInv, TypeOK, Busy, Polling, Answering
<1>4. QED
  BY <1>2, <1>3, NoMove DEF ManagerCrash

LEMMA StutterStep ==
  ASSUME TypeInv, UNCHANGED vars
  PROVE  TypeOK' /\ Busy' /\ RowsMove
<1>1. TypeOK'
  BY DEF TypeInv, TypeOK, vars
<1>2. QED
  BY <1>1, NoMove, BusyHolders DEF vars

LEMMA TypeInvStep ==
  ASSUME TypeInv, [Next]_vars
  PROVE  TypeInv' /\ RowsMove
<1>1. TypeOK' /\ Busy' /\ RowsMove
  BY RequestStep, TickStep, SendPollStep, PollTimeoutStep, PollSelectStep, PollEndsStep,
     PollClaimStep, PollReplyStep, ScriptExitsStep, LoseCallbackStep, SendCallbackStep,
     CbUpdateStep, CbSpawnStep, CbNoEdgesStep, ElapseStep, MonitorScanStep, MonitorJudgeStep,
     AgentCrashStep, ManagerCrashStep, StutterStep
     DEF Next, Poll, Callback
<1>2. QED
  BY <1>1 DEF TypeInv

LEMMA TypeInvInit == Init => TypeInv
<1>1. Init => TypeOK
  BY Constants DEF Init, TypeOK, NoRow, Row, Status, Settled, Line, Idle, Slot, Free, Job,
                   ExitCode
<1>2. Init => Busy
  BY DEF Init, Busy, Idle, Free, Polling, Answering
<1>3. QED
  BY <1>1, <1>2 DEF TypeInv

(* Every value that handlers, agents and threads keep has its type, and ids *)
(* held by a handler, an executor or the monitor are those of rows.         *)
THEOREM TypeInvariant == Spec => []TypeInv
<1>1. TypeInv /\ [Next]_vars => TypeInv'
  BY TypeInvStep
<1>2. QED
  BY TypeInvInit, <1>1, PTL DEF Spec

THEOREM TypeCorrect == Spec => []TypeOK
<1>1. TypeInv => TypeOK
  BY DEF TypeInv
<1>2. QED
  BY TypeInvariant, <1>1, PTL

(* No step queues a row again that was handed out or settled. *)
THEOREM NotRequeued == Spec => NeverRequeued
<1> DEFINE Stays == \A e \in ExecId : inst[e].status \notin {"absent", "Ready"} =>
                      inst'[e].status \notin {"absent", "Ready"}
<1>1. TypeInv /\ [Next]_vars => Stays
  <2> SUFFICES ASSUME TypeInv, [Next]_vars
               PROVE  Stays
    OBVIOUS
  <2>1. RowsMove
    BY TypeInvStep
  <2>2. QED
    BY <2>1 DEF RowsMove, Moves, Settled
<1>2. TypeInv /\ [Next]_vars => [Stays]_vars
  BY <1>1
<1>3. QED
  BY TypeInvariant, <1>2, PTL DEF Spec, NeverRequeued
===============================================================================
