--------------------------- MODULE TaskDispatchSafety ---------------------------
(***************************************************************************)
(* Layers of TaskDispatch's inductive invariant: where executions run, what *)
(* their verdicts rest on, who holds them, what a success leads to.         *)
(***************************************************************************)
EXTENDS TaskDispatchProofs

-------------------------------------------------------------------------------
(* Where executions run. *)

LEMMA BoundTarget ==
  ASSUME NEW e \in ExecId, e.task \in Bound
  PROVE  Target[e.task] \in Node /\ Target[e.task] # Public
BY Constants DEF Bound, ExecId

LEMMA InsertPlaces ==
  ASSUME TypeInv, Placed, NEW e \in ExecId, NEW l \in Line, Insert(e, l)
  PROVE  RowsPlaced'
<1>1. \/ inst' = inst
      \/ inst[e].status = "absent" /\ inst' = [inst EXCEPT ![e] = Ready(e.task, l)]
  BY InsertEffect DEF TypeInv
<1>2. Ready(e.task, l).node = Target[e.task]
  BY DEF Ready
<1>3. QED
  BY <1>1, <1>2 DEF Placed, RowsPlaced, TypeInv, TypeOK

LEMMA UpdatePlaces ==
  ASSUME TypeInv, Placed, NEW e \in ExecId, NEW s \in {"Running"} \cup Settled,
         NEW n \in Node \cup {Public}, Update(e, s, n),
         e.task \in Bound => n = Target[e.task]
  PROVE  RowsPlaced'
<1>1. inst' = inst \/ inst' = [inst EXCEPT ![e] = Written(e, s, n)]
  BY UpdateEffect DEF TypeInv, Status
<1>2. Written(e, s, n).node = n
  BY DEF Written
<1>3. QED
  BY <1>1, <1>2 DEF Placed, RowsPlaced, TypeInv, TypeOK

LEMMA RowsPlacedStep ==
  ASSUME TypeInv, Placed, [Next]_vars
  PROVE  RowsPlaced'
<1>1. ASSUME NEW t \in Task, Run(t) \/ Incr(t) \/ CronFire(t)
      PROVE  RowsPlaced'
  <2>1. \A k \in Kind : Id(t, k) \in ExecId
    BY DEF Id, ExecId, TypeInv, TypeOK
  <2>2. \E k \in Kind, l \in Line : Insert(Id(t, k), l)
    BY <1>1, ResolveType DEF Run, Incr, CronFire, Line, Kind
  <2>3. QED
    BY <2>1, <2>2, InsertPlaces
<1>2. ASSUME NEW w \in Worker, PollClaim(w)
      PROVE  RowsPlaced'
  <2>1. slot[w].exec \in ExecId /\ slot[w].node \in Node /\ slot[w].op \in Polling
    BY <1>2 DEF PollClaim, TypeInv, Busy, Polling
  <2>2. slot[w].exec.task \in Bound => slot[w].node = Target[slot[w].exec.task]
    BY <2>1 DEF Placed, PollsPlaced
  <2>3. QED
    BY <1>2, <2>1, <2>2, UpdatePlaces DEF PollClaim
<1>3. ASSUME NEW w \in Worker, CbUpdate(w)
      PROVE  RowsPlaced'
  <2> DEFINE e == slot[w].exec
  <2>1. e \in ExecId /\ inst[e].status # "absent"
    BY <1>3 DEF CbUpdate, TypeInv, Busy
  <2>2. inst[e].node \in Node \cup {Public} /\ (e.task \in Bound => inst[e].node = Target[e.task])
    BY <2>1 DEF Placed, RowsPlaced, TypeInv, TypeOK, Row
  <2>3. Verdict(slot[w].exit) \in Settled
    BY DEF Verdict, Settled
  <2>4. Update(e, Verdict(slot[w].exit), inst[e].node) \/ UNCHANGED inst
    BY <1>3 DEF CbUpdate
  <2>5. QED
    BY <2>1, <2>2, <2>3, <2>4, UpdatePlaces DEF Placed, RowsPlaced
<1>4. ASSUME NEW w \in Worker, CbSpawn(w)
      PROVE  RowsPlaced'
  <2>1. slot[w].exec \in ExecId /\ inst[slot[w].exec].line \in Line
    BY <1>4 DEF CbSpawn, TypeInv, TypeOK, Busy, Row
  <2>2. \A t \in slot[w].kids : Id(t, "dag") \in ExecId
    BY DEF Id, ExecId, Kind, TypeInv, TypeOK, Slot
  <2>3. QED
    BY <1>4, <2>1, <2>2, InsertPlaces DEF CbSpawn, Placed, RowsPlaced
<1>5. ASSUME NEW e \in ExecId, Elapse(e)
      PROVE  RowsPlaced'
  BY <1>5 DEF Elapse, Placed, RowsPlaced, TypeInv, TypeOK, Row
<1>6. ASSUME NEW s \in seen, MonitorJudge(s)
      PROVE  RowsPlaced'
  <2>1. s.exec \in ExecId /\ inst[s.exec].status # "absent"
    BY DEF TypeInv, TypeOK, Busy, Sighting
  <2>2. /\ inst[s.exec].node \in Node \cup {Public}
        /\ s.exec.task \in Bound => inst[s.exec].node = Target[s.exec.task]
    BY <2>1 DEF Placed, RowsPlaced, TypeInv, TypeOK, Row
  <2>3. \/ UNCHANGED inst
        \/ \E v \in Settled : Update(s.exec, v, inst[s.exec].node)
    BY <1>6 DEF MonitorJudge, Ruling, Settled
  <2>4. QED
    BY <2>1, <2>2, <2>3, UpdatePlaces DEF Placed, RowsPlaced
<1>7. CASE UNCHANGED inst
  BY <1>7 DEF Placed, RowsPlaced
<1>8. QED
  BY <1>1, <1>2, <1>3, <1>4, <1>5, <1>6, <1>7
     DEF Next, Poll, Callback, Tick, SendPoll, PollTimeout, PollSelect, PollNone, PollReply,
         PollLost, ScriptExits, SendCallback, LoseCallback, CbNoEdges, MonitorScan, AgentCrash,
         ManagerCrash, vars

(* These handlers leave no poll in their worker's slot. *)
LEMMA HandlerEnds ==
  ASSUME TypeInv, NEW w \in Worker,
         PollNone(w) \/ PollReply(w) \/ PollLost(w) \/ Callback(w)
  PROVE  /\ slot'[w].op \notin Polling
         /\ \A v \in Worker : v # w => slot'[v] = slot[v]
<1>1. slot \in [Worker -> Slot] /\ slot[w] \in Slot
  BY DEF TypeInv, TypeOK
<1>2. CASE PollNone(w) \/ PollReply(w) \/ PollLost(w) \/ CbNoEdges(w)
  BY <1>1, <1>2 DEF PollNone, PollReply, PollLost, CbNoEdges, Idle, Polling
<1>3. CASE CbUpdate(w)
  <2> DEFINE spawn == [slot[w] EXCEPT !.op = "cbSpawn",
                                      !.kids = Kids(slot[w].exec, slot[w].exit)]
  <2>1. slot' = [slot EXCEPT ![w] = Idle] \/ slot' = [slot EXCEPT ![w] = spawn]
    BY <1>3 DEF CbUpdate
  <2>2. Idle.op \notin Polling /\ spawn.op \notin Polling
    BY <1>1 DEF Idle, Polling, Slot
  <2>3. QED
    BY <1>1, <2>1, <2>2
<1>4. CASE CbSpawn(w)
  <2>1. PICK t \in slot[w].kids :
          LET left == slot[w].kids \ {t}
          IN  slot' = [slot EXCEPT ![w] = IF left = {} THEN Idle ELSE [@ EXCEPT !.kids = left]]
    BY <1>4 DEF CbSpawn
  <2>2. slot[w].op = "cbSpawn"
    BY <1>4 DEF CbSpawn
  <2>3. QED
    BY <1>1, <2>1, <2>2 DEF Idle, Polling, Slot
<1>5. QED
  BY <1>2, <1>3, <1>4 DEF Callback

LEMMA CallbackArrives ==
  ASSUME TypeInv, NEW x \in Executor, NEW w \in Worker, SendCallback(x, w)
  PROVE  /\ slot'[w].op = "cbUpdate" /\ slot'[w].op \notin Polling
         /\ slot'[w].exec = job[x].exec /\ slot'[w].exit = job[x].exit
         /\ \A v \in Worker : v # w => slot'[v] = slot[v]
BY DEF SendCallback, Idle, Polling, TypeInv, TypeOK

LEMMA PollsPlacedStep ==
  ASSUME TypeInv, Placed, [Next]_vars
  PROVE  PollsPlaced'
<1>1. ASSUME NEW n \in Node, NEW w \in Worker, SendPoll(n, w)
      PROVE  PollsPlaced'
  <2>1. NoExec \notin ExecId
    BY Constants
  <2>2. slot' = [slot EXCEPT ![w] = [Idle EXCEPT !.op = "pollSelect", !.node = n]]
    BY <1>1 DEF SendPoll
  <2>3. [Idle EXCEPT !.op = "pollSelect", !.node = n].exec = NoExec
    BY DEF Idle
  <2>4. QED
    BY <2>1, <2>2, <2>3 DEF Placed, PollsPlaced, TypeInv, TypeOK
<1>2. ASSUME NEW w \in Worker, PollSelect(w)
      PROVE  PollsPlaced'
  <2>1. PICK e \in ExecId :
          /\ Offered(slot[w].node, e)
          /\ slot' = [slot EXCEPT ![w] = [@ EXCEPT !.op = "pollClaim", !.exec = e]]
    BY <1>2 DEF PollSelect
  <2>2. e.task \in Bound => slot[w].node = Target[e.task]
    BY <2>1, BoundTarget DEF Offered, Placed, RowsPlaced
  <2>3. QED
    BY <2>1, <2>2 DEF Placed, PollsPlaced, TypeInv, TypeOK, Slot
<1>3. ASSUME NEW w \in Worker, PollClaim(w)
      PROVE  PollsPlaced'
  <2>1. slot[w].op \in Polling /\ slot' = [slot EXCEPT ![w] = [@ EXCEPT !.op = "pollReply"]]
    BY <1>3 DEF PollClaim, Polling
  <2>2. QED
    BY <2>1 DEF Placed, PollsPlaced, TypeInv, TypeOK, Slot
<1>4. ASSUME NEW w \in Worker,
             slot'[w].op \notin Polling,
             \A v \in Worker : v # w => slot'[v] = slot[v]
      PROVE  PollsPlaced'
  BY <1>4 DEF Placed, PollsPlaced
<1>5. ASSUME NEW w \in Worker,
             PollNone(w) \/ PollReply(w) \/ PollLost(w) \/ Callback(w)
      PROVE  PollsPlaced'
  BY <1>4, <1>5, HandlerEnds
<1>6. ASSUME NEW x \in Executor, NEW w \in Worker, SendCallback(x, w)
      PROVE  PollsPlaced'
  BY <1>4, <1>6, CallbackArrives
<1>7. CASE ManagerCrash
  BY <1>7 DEF ManagerCrash, Idle, Polling, PollsPlaced
<1>8. CASE UNCHANGED slot
  BY <1>8 DEF Placed, PollsPlaced
<1>9. QED
  BY <1>1, <1>2, <1>3, <1>5, <1>6, <1>7, <1>8
     DEF Next, Poll, Run, Incr, CronFire, Tick, PollTimeout, ScriptExits, LoseCallback,
         AgentCrash, Elapse, MonitorScan, MonitorJudge, vars

LEMMA JobsPlacedStep ==
  ASSUME TypeInv, Placed, [Next]_vars
  PROVE  JobsPlaced'
<1>1. ASSUME NEW w \in Worker, PollReply(w)
      PROVE  JobsPlaced'
  <2>1. slot[w].exec \in ExecId /\ slot[w].op \in Polling
    BY <1>1 DEF PollReply, TypeInv, Busy, Polling
  <2>2. slot[w].exec.task \in Bound => slot[w].node = Target[slot[w].exec.task]
    BY <2>1 DEF Placed, PollsPlaced
  <2>3. PICK x \in Executor :
          /\ Home[x] = slot[w].node
          /\ job' = [job EXCEPT ![x] = [op |-> "running", exec |-> slot[w].exec, exit |-> 0]]
    BY <1>1 DEF PollReply
  <2>4. QED
    BY <2>2, <2>3 DEF Placed, JobsPlaced, TypeInv, TypeOK
<1>2. ASSUME NEW x \in Executor, NEW c \in ExitCode, ScriptExits(x, c)
      PROVE  JobsPlaced'
  BY <1>2 DEF ScriptExits, Placed, JobsPlaced, TypeInv, TypeOK, Job
<1>3. NoExec \notin ExecId /\ Free.exec = NoExec
  BY Constants DEF Free
<1>4. ASSUME NEW x \in Executor, job' = [job EXCEPT ![x] = Free]
      PROVE  JobsPlaced'
  BY <1>3, <1>4 DEF Placed, JobsPlaced, TypeInv, TypeOK
<1>5. ASSUME NEW n \in Node, AgentCrash(n)
      PROVE  JobsPlaced'
  BY <1>3, <1>5 DEF AgentCrash, Placed, JobsPlaced, TypeInv, TypeOK
<1>6. CASE UNCHANGED job
  BY <1>6 DEF Placed, JobsPlaced
<1>7. QED
  BY <1>1, <1>2, <1>4, <1>5, <1>6
     DEF Next, Poll, Callback, Run, Incr, CronFire, Tick, SendPoll, PollTimeout, PollSelect,
         PollNone, PollClaim, PollLost, SendCallback, LoseCallback, CbUpdate, CbSpawn,
         CbNoEdges, Elapse, MonitorScan, MonitorJudge, ManagerCrash, agentVars, vars

LEMMA PlacedInvariant == Spec => [](TypeInv /\ Placed)
<1>1. Init => Placed
  <2>1. NoExec \notin ExecId
    BY Constants
  <2>2. QED
    BY <2>1 DEF Init, Placed, RowsPlaced, PollsPlaced, JobsPlaced, NoRow, Idle, Free, Polling
<1>2. TypeInv /\ Placed /\ [Next]_vars => Placed'
  BY RowsPlacedStep, PollsPlacedStep, JobsPlacedStep DEF Placed
<1>3. QED
  BY <1>1, <1>2, TypeInvariant, PTL DEF Spec

(* Only its target node holds, gets and runs an execution of a bound task. *)
THEOREM RunsOnTarget == Spec => []TargetRespected
<1>1. TypeInv /\ Placed => TargetRespected
  BY DEF Placed, RowsPlaced, JobsPlaced, TargetRespected, Settled
<1>2. QED
  BY <1>1, PlacedInvariant, PTL

-------------------------------------------------------------------------------
(* What verdicts and downstream rows rest on. *)

LEMMA HistoryGrows ==
  ASSUME TypeInv, [Next]_vars, NEW e \in ExecId
  PROVE  exits[e] \subseteq exits'[e] /\ (starts[e] > 0 => starts'[e] > 0)
<1>1. ASSUME NEW w \in Worker, PollReply(w)
      PROVE  UNCHANGED exits /\ (starts[e] > 0 => starts'[e] > 0)
  BY <1>1 DEF PollReply, TypeInv, TypeOK
<1>2. ASSUME NEW x \in Executor, NEW c \in ExitCode, ScriptExits(x, c)
      PROVE  exits[e] \subseteq exits'[e] /\ UNCHANGED starts
  BY <1>2 DEF ScriptExits, TypeInv, TypeOK
<1>3. CASE UNCHANGED <<starts, exits>>
  BY <1>3
<1>4. QED
  BY <1>1, <1>2, <1>3
     DEF Next, Poll, Callback, Run, Incr, CronFire, Tick, SendPoll, PollTimeout, PollSelect,
         PollNone, PollClaim, PollLost, SendCallback, LoseCallback, CbUpdate, CbSpawn,
         CbNoEdges, Elapse, MonitorScan, MonitorJudge, AgentCrash, ManagerCrash, agentVars, vars

LEMMA JobsCausedStep ==
  ASSUME TypeInv, Caused, [Next]_vars
  PROVE  JobsCaused'
<1>1. ASSUME NEW w \in Worker, PollReply(w)
      PROVE  JobsCaused'
  <2>1. PICK x \in Executor :
          job' = [job EXCEPT ![x] = [op |-> "running", exec |-> slot[w].exec, exit |-> 0]]
    BY <1>1 DEF PollReply
  <2>2. UNCHANGED exits
    BY <1>1 DEF PollReply
  <2>3. QED
    BY <2>1, <2>2 DEF Caused, JobsCaused, TypeInv, TypeOK
<1>2. ASSUME NEW x \in Executor, NEW c \in ExitCode, ScriptExits(x, c)
      PROVE  JobsCaused'
  <2>1. job[x].exec \in ExecId
    BY <1>2 DEF ScriptExits, TypeInv, Busy
  <2>2. job'[x].exec = job[x].exec /\ job'[x].exit = c /\ c \in exits'[job[x].exec]
    BY <1>2, <2>1 DEF ScriptExits, TypeInv, TypeOK, Job
  <2>3. ASSUME NEW y \in Executor, y # x, job'[y].op = "done"
        PROVE  job'[y].exit \in exits'[job'[y].exec]
    <3>1. job'[y] = job[y] /\ job[y].exec \in ExecId
      BY <1>2, <2>3 DEF ScriptExits, TypeInv, TypeOK, Busy
    <3>2. QED
      BY <1>2, <2>3, <3>1, HistoryGrows DEF Caused, JobsCaused, Next
  <2>4. QED
    BY <2>2, <2>3 DEF JobsCaused
<1>3. ASSUME NEW x \in Executor, job' = [job EXCEPT ![x] = Free], UNCHANGED exits
      PROVE  JobsCaused'
  BY <1>3 DEF Free, Caused, JobsCaused, TypeInv, TypeOK
<1>4. ASSUME NEW n \in Node, AgentCrash(n)
      PROVE  JobsCaused'
  BY <1>4 DEF AgentCrash, Free, Caused, JobsCaused
<1>5. CASE UNCHANGED <<job, exits>>
  BY <1>5 DEF Caused, JobsCaused
<1>6. QED
  BY <1>1, <1>2, <1>3, <1>4, <1>5
     DEF Next, Poll, Callback, Run, Incr, CronFire, Tick, SendPoll, PollTimeout, PollSelect,
         PollNone, PollClaim, PollLost, SendCallback, LoseCallback, CbUpdate, CbSpawn,
         CbNoEdges, Elapse, MonitorScan, MonitorJudge, ManagerCrash, agentVars, vars

(* The edges followed for a row stay the same: it keeps its pipeline. *)
LEMMA KidsStay ==
  ASSUME TypeInv, RowsMove, NEW e \in ExecId, inst[e].status # "absent"
  PROVE  \A c \in ExitCode : Kids(e, c)' = Kids(e, c)
BY RowsStay DEF Kids

LEMMA SlotCarries ==
  ASSUME TypeInv, Caused, [Next]_vars, NEW w \in Worker, slot'[w] = slot[w]
  PROVE  SlotCaused(w)'
<1>1. CASE slot[w].op \notin Answering
  BY <1>1 DEF SlotCaused, Answering
<1>2. CASE slot[w].op \in Answering
  <2>1. slot[w].exec \in ExecId /\ inst[slot[w].exec].status # "absent"
    BY <1>2 DEF TypeInv, Busy, Answering
  <2>2. exits[slot[w].exec] \subseteq exits'[slot[w].exec]
    BY <2>1, HistoryGrows
  <2>3. QED
    BY <1>2, <2>1, <2>2, KidsStay, TypeInvStep DEF Caused, SlotsCaused, SlotCaused, ExitCode
<1>3. QED
  BY <1>1, <1>2

LEMMA PollSlots ==
  ASSUME TypeInv, NEW w \in Worker, Poll(w)
  PROVE  /\ slot'[w].op \in {"idle", "pollClaim", "pollReply"}
         /\ \A v \in Worker : v # w => slot'[v] = slot[v]
<1>1. slot \in [Worker -> Slot] /\ slot[w] \in Slot
  BY DEF TypeInv, TypeOK
<1>2. CASE PollSelect(w)
  <2>1. PICK e \in ExecId :
          slot' = [slot EXCEPT ![w] = [@ EXCEPT !.op = "pollClaim", !.exec = e]]
    BY <1>2 DEF PollSelect
  <2>2. QED
    BY <1>1, <2>1 DEF Slot
<1>3. CASE PollClaim(w)
  BY <1>1, <1>3 DEF PollClaim, Slot
<1>4. CASE PollNone(w) \/ PollReply(w) \/ PollLost(w)
  BY <1>1, <1>4 DEF PollNone, PollReply, PollLost, Idle
<1>5. QED
  BY <1>2, <1>3, <1>4 DEF Poll

LEMMA AnswerSlots ==
  ASSUME TypeInv, NEW w \in Worker, Callback(w)
  PROVE  /\ slot[w].op \in Answering
         /\ slot'[w].op \in {"idle", "cbSpawn"}
         /\ \A v \in Worker : v # w => slot'[v] = slot[v]
<1>1. slot \in [Worker -> Slot] /\ slot[w] \in Slot
  BY DEF TypeInv, TypeOK
<1>2. CASE CbNoEdges(w)
  BY <1>1, <1>2 DEF CbNoEdges, Idle, Answering
<1>3. CASE CbUpdate(w)
  <2> DEFINE spawn == [slot[w] EXCEPT !.op = "cbSpawn",
                                      !.kids = Kids(slot[w].exec, slot[w].exit)]
  <2>1. slot' = [slot EXCEPT ![w] = Idle] \/ slot' = [slot EXCEPT ![w] = spawn]
    BY <1>3 DEF CbUpdate
  <2>2. Idle.op = "idle" /\ spawn.op = "cbSpawn"
    BY <1>1 DEF Idle, Slot
  <2>3. slot[w].op \in Answering
    BY <1>3 DEF CbUpdate, Answering
  <2>4. QED
    BY <1>1, <2>1, <2>2, <2>3
<1>4. CASE CbSpawn(w)
  <2>1. PICK t \in slot[w].kids :
          LET left == slot[w].kids \ {t}
          IN  slot' = [slot EXCEPT ![w] = IF left = {} THEN Idle ELSE [@ EXCEPT !.kids = left]]
    BY <1>4 DEF CbSpawn
  <2>2. slot[w].op = "cbSpawn" /\ slot[w].op \in Answering
    BY <1>4 DEF CbSpawn, Answering
  <2>3. QED
    BY <1>1, <2>1, <2>2 DEF Idle, Slot
<1>5. QED
  BY <1>2, <1>3, <1>4 DEF Callback

LEMMA SlotsCausedStep ==
  ASSUME TypeInv, Caused, [Next]_vars
  PROVE  SlotsCaused'
<1>1. ASSUME NEW w \in Worker, SlotCaused(w)', \A v \in Worker : v # w => slot'[v] = slot[v]
      PROVE  SlotsCaused'
  BY <1>1, SlotCarries DEF SlotsCaused
<1>2. ASSUME NEW n \in Node, NEW w \in Worker, SendPoll(n, w)
      PROVE  SlotsCaused'
  <2>1. slot'[w].op = "pollSelect" /\ \A v \in Worker : v # w => slot'[v] = slot[v]
    BY <1>2 DEF SendPoll, Idle, TypeInv, TypeOK
  <2>2. QED
    BY <1>1, <2>1 DEF SlotCaused
<1>3. ASSUME NEW w \in Worker, Poll(w)
      PROVE  SlotsCaused'
  <2>1. slot'[w].op \in {"idle", "pollClaim", "pollReply"}
        /\ \A v \in Worker : v # w => slot'[v] = slot[v]
    BY <1>3, PollSlots
  <2>2. QED
    BY <1>1, <2>1 DEF SlotCaused
<1>4. ASSUME NEW x \in Executor, NEW w \in Worker, SendCallback(x, w)
      PROVE  SlotsCaused'
  <2>1. job[x].op = "done" /\ UNCHANGED exits
    BY <1>4 DEF SendCallback
  <2>2. SlotCaused(w)'
    BY <1>4, <2>1, CallbackArrives DEF SlotCaused, Caused, JobsCaused
  <2>3. QED
    BY <1>1, <1>4, <2>2, CallbackArrives
<1>5. ASSUME NEW w \in Worker, CbUpdate(w)
      PROVE  SlotsCaused'
  <2>1. slot[w].op = "cbUpdate" /\ slot[w].exec \in ExecId /\ inst[slot[w].exec].status # "absent"
    BY <1>5 DEF CbUpdate, TypeInv, Busy
  <2>2. PICK e \in ExecId, c \in ExitCode : e = slot[w].exec /\ c = slot[w].exit
    BY <2>1 DEF TypeInv, TypeOK, Slot
  <2> DEFINE spawn == [slot[w] EXCEPT !.op = "cbSpawn", !.kids = Kids(e, c)]
  <2>3. slot' = [slot EXCEPT ![w] = Idle]
        \/ (Kids(e, c) # {} /\ slot' = [slot EXCEPT ![w] = spawn])
    BY <1>5, <2>2 DEF CbUpdate
  <2>4. c \in exits'[e]
    BY <1>5, <2>1, <2>2 DEF CbUpdate, agentVars, Caused, SlotsCaused, SlotCaused
  <2>5. spawn.op = "cbSpawn" /\ spawn.exec = e /\ spawn.kids = Kids(e, c)
    BY <2>2 DEF TypeInv, TypeOK, Slot
  <2>6. Kids(e, c) # {} => c = 0
    BY DEF Kids
  <2>7. Kids(e, c)' = Kids(e, c)
    BY <2>1, <2>2, KidsStay, TypeInvStep
  <2>8. slot \in [Worker -> Slot]
    BY DEF TypeInv, TypeOK
  <2>9. CASE slot' = [slot EXCEPT ![w] = Idle]
    <3>1. SlotCaused(w)'
      BY <2>8, <2>9 DEF SlotCaused, Idle
    <3>2. QED
      BY <1>1, <2>8, <2>9, <3>1
  <2>10. CASE Kids(e, c) # {} /\ slot' = [slot EXCEPT ![w] = spawn]
    <3>1. slot'[w] = spawn
      BY <2>8, <2>10
    <3>2. SlotCaused(w)'
      BY <2>4, <2>5, <2>6, <2>7, <2>10, <3>1 DEF SlotCaused
    <3>3. QED
      BY <1>1, <2>8, <2>10, <3>2
  <2>11. QED
    BY <2>3, <2>9, <2>10
<1>6. ASSUME NEW w \in Worker, CbSpawn(w)
      PROVE  SlotsCaused'
  <2>1. slot[w].op = "cbSpawn" /\ slot[w].exec \in ExecId /\ inst[slot[w].exec].status # "absent"
    BY <1>6 DEF CbSpawn, TypeInv, Busy
  <2>2. PICK e \in ExecId : e = slot[w].exec
    BY <2>1
  <2>3. PICK t \in slot[w].kids :
          LET left == slot[w].kids \ {t}
          IN  slot' = [slot EXCEPT ![w] = IF left = {} THEN Idle ELSE [@ EXCEPT !.kids = left]]
    BY <1>6 DEF CbSpawn
  <2> DEFINE rest == [slot[w] EXCEPT !.kids = slot[w].kids \ {t}]
  <2>4. slot \in [Worker -> Slot] /\ slot[w] \in Slot /\ slot[w].kids \ {t} \in SUBSET Task
    BY DEF TypeInv, TypeOK, Slot
  <2>5. 0 \in exits'[e] /\ slot[w].kids \subseteq Kids(e, 0)
    BY <1>6, <2>1, <2>2 DEF CbSpawn, agentVars, Caused, SlotsCaused, SlotCaused
  <2>6. Kids(e, 0)' = Kids(e, 0)
    BY <2>1, <2>2, KidsStay, TypeInvStep DEF ExitCode
  <2>7. rest.op = "cbSpawn" /\ rest.exec = e /\ rest.kids \subseteq Kids(e, 0)
    BY <2>1, <2>2, <2>4, <2>5, SlotKids
  <2>8. slot'[w] = Idle \/ slot'[w] = rest
    BY <2>3, <2>4
  <2>9. SlotCaused(w)'
    <3>1. CASE slot'[w] = Idle
      BY <3>1 DEF SlotCaused, Idle
    <3>2. CASE slot'[w].op = "cbSpawn" /\ slot'[w].exec = e /\ slot'[w].kids \subseteq Kids(e, 0)
      BY <2>5, <2>6, <3>2 DEF SlotCaused
    <3>3. QED
      BY <2>7, <2>8, <3>1, <3>2
  <2>10. \A v \in Worker : v # w => slot'[v] = slot[v]
    BY <2>3, <2>4
  <2>11. QED
    BY <1>1, <2>9, <2>10
<1>7. ASSUME NEW w \in Worker, CbNoEdges(w)
      PROVE  SlotsCaused'
  <2>1. slot'[w].op = "idle" /\ \A v \in Worker : v # w => slot'[v] = slot[v]
    BY <1>7 DEF CbNoEdges, Idle, TypeInv, TypeOK
  <2>2. QED
    BY <1>1, <2>1 DEF SlotCaused
<1>8. CASE ManagerCrash
  BY <1>8 DEF ManagerCrash, Idle, SlotsCaused, SlotCaused
<1>9. CASE UNCHANGED slot
  BY <1>9, SlotCarries DEF SlotsCaused
<1>10. QED
  BY <1>2, <1>3, <1>4, <1>5, <1>6, <1>7, <1>8, <1>9
     DEF Next, Callback, Run, Incr, CronFire, Tick, PollTimeout, ScriptExits, LoseCallback,
         Elapse, MonitorScan, MonitorJudge, AgentCrash, vars

(* Only a callback's DAG part inserts a downstream row. *)
LEMMA ChildInserted ==
  ASSUME TypeInv, [Next]_vars, NEW e \in ExecId, e.kind = "dag",
         inst[e].status = "absent", inst'[e].status # "absent"
  PROVE  \E w \in Worker :
           /\ slot[w].op = "cbSpawn" /\ slot[w].exec \in ExecId
           /\ e.task \in slot[w].kids
           /\ inst'[e].line = inst[slot[w].exec].line
           /\ UNCHANGED exits
<1>1. ASSUME NEW d \in ExecId, NEW l \in Line, Insert(d, l)
      PROVE  d = e /\ inst'[e].line = l
  <2>1. \/ inst' = inst
        \/ inst[d].status = "absent" /\ inst' = [inst EXCEPT ![d] = Ready(d.task, l)]
    BY <1>1, InsertEffect DEF TypeInv
  <2>2. QED
    BY <2>1 DEF Ready, TypeInv, TypeOK
<1>2. ASSUME NEW d \in ExecId, NEW s, NEW n, inst[d].status # "absent", Update(d, s, n)
      PROVE  FALSE
  BY <1>2 DEF Update, TypeInv, TypeOK
<1>3. ASSUME NEW t \in Task, Run(t) \/ Incr(t) \/ CronFire(t)
      PROVE  FALSE
  <2>1. \E k \in {"manual", "incr", "cron"}, l \in Line : Insert(Id(t, k), l)
    BY <1>3, ResolveType DEF Run, Incr, CronFire, Line
  <2>2. \A k \in {"manual", "incr", "cron"} : Id(t, k) \in ExecId /\ Id(t, k).kind = k
    BY DEF Id, ExecId, Kind, TypeInv, TypeOK
  <2>3. QED
    BY <1>1, <2>1, <2>2
<1>4. ASSUME NEW w \in Worker, PollClaim(w)
      PROVE  FALSE
  <2>1. slot[w].exec \in ExecId /\ inst[slot[w].exec].status # "absent"
    BY <1>4 DEF PollClaim, TypeInv, Busy
  <2>2. QED
    BY <1>2, <1>4, <2>1 DEF PollClaim
<1>5. ASSUME NEW w \in Worker, CbUpdate(w)
      PROVE  FALSE
  <2>1. slot[w].exec \in ExecId /\ inst[slot[w].exec].status # "absent"
    BY <1>5 DEF CbUpdate, TypeInv, Busy
  <2>2. \/ Update(slot[w].exec, Verdict(slot[w].exit), inst[slot[w].exec].node)
        \/ UNCHANGED inst
    BY <1>5 DEF CbUpdate
  <2>3. QED
    BY <1>2, <2>1, <2>2
<1>6. ASSUME NEW s \in seen, MonitorJudge(s)
      PROVE  FALSE
  <2>1. s.exec \in ExecId /\ inst[s.exec].status # "absent"
    BY DEF TypeInv, TypeOK, Busy, Sighting
  <2>2. UNCHANGED inst \/ \E v : Update(s.exec, v, inst[s.exec].node)
    BY <1>6 DEF MonitorJudge
  <2>3. QED
    BY <1>2, <2>1, <2>2
<1>7. ASSUME NEW d \in ExecId, Elapse(d)
      PROVE  FALSE
  BY <1>7 DEF Elapse, TypeInv, TypeOK
<1>8. ASSUME NEW w \in Worker, CbSpawn(w)
      PROVE  \E v \in Worker :
               /\ slot[v].op = "cbSpawn" /\ slot[v].exec \in ExecId
               /\ e.task \in slot[v].kids
               /\ inst'[e].line = inst[slot[v].exec].line
               /\ UNCHANGED exits
  <2>1. /\ slot[w].op = "cbSpawn" /\ slot[w].exec \in ExecId
        /\ inst[slot[w].exec].line \in Line
        /\ UNCHANGED exits
    BY <1>8 DEF CbSpawn, agentVars, TypeInv, TypeOK, Busy, Row
  <2>2. PICK t \in slot[w].kids : Insert(Id(t, "dag"), inst[slot[w].exec].line)
    BY <1>8 DEF CbSpawn
  <2>3. t \in Task
    BY DEF TypeInv, TypeOK, Slot
  <2>4. Id(t, "dag") \in ExecId /\ Id(t, "dag").task = t
    BY <2>3 DEF Id, ExecId, Kind, TypeInv, TypeOK
  <2>5. Id(t, "dag") = e /\ inst'[e].line = inst[slot[w].exec].line
    BY <1>1, <2>1, <2>2, <2>4
  <2>6. QED
    BY <2>1, <2>4, <2>5
<1>9. CASE UNCHANGED inst
  BY <1>9
<1>10. QED
  BY <1>3, <1>4, <1>5, <1>6, <1>7, <1>8, <1>9
     DEF Next, Poll, Callback, Tick, SendPoll, PollTimeout, PollSelect, PollNone, PollReply,
         PollLost, ScriptExits, SendCallback, LoseCallback, CbNoEdges, MonitorScan, AgentCrash,
         ManagerCrash, vars

LEMMA ChildStep ==
  ASSUME TypeInv, Caused, ChildNeedsSuccess, [Next]_vars
  PROVE  ChildNeedsSuccess'
<1> SUFFICES ASSUME NEW e \in ExecId, inst'[e].status # "absent", e.kind = "dag"
             PROVE  \E p \in ExecId : Caller(p, e)'
  BY DEF ChildNeedsSuccess
<1>1. RowsMove
  BY TypeInvStep
<1>2. CASE inst[e].status # "absent"
  <2>1. PICK p \in ExecId : Caller(p, e)
    BY <1>2 DEF ChildNeedsSuccess
  <2>2. inst'[e].line = inst[e].line /\ inst'[p].line = inst[p].line /\ inst'[p].status # "absent"
    BY <1>1, <1>2, <2>1, RowsStay DEF Caller
  <2>3. exits[p] \subseteq exits'[p]
    BY HistoryGrows
  <2>4. QED
    BY <2>1, <2>2, <2>3 DEF Caller
<1>3. CASE inst[e].status = "absent"
  <2>1. PICK w \in Worker :
          /\ slot[w].op = "cbSpawn" /\ slot[w].exec \in ExecId
          /\ e.task \in slot[w].kids
          /\ inst'[e].line = inst[slot[w].exec].line
          /\ UNCHANGED exits
    BY <1>3, ChildInserted
  <2>2. PICK p \in ExecId : p = slot[w].exec
    BY <2>1
  <2>3. 0 \in exits[p] /\ e.task \in Kids(p, 0) /\ inst[p].status # "absent"
    BY <2>1, <2>2 DEF Caused, SlotsCaused, SlotCaused, TypeInv, Busy
  <2>4. p.kind # "incr" /\ <<inst[p].line, p.task, e.task>> \in Edges
    BY <2>3 DEF Kids
  <2>5. inst'[p].line = inst[p].line /\ inst'[p].status # "absent"
    BY <1>1, <2>3, RowsStay
  <2>6. QED
    BY <2>1, <2>2, <2>3, <2>4, <2>5 DEF Caller
<1>4. QED
  BY <1>2, <1>3

(* Only a callback with exit code 0 records a success. *)
LEMMA SuccessRecorded ==
  ASSUME TypeInv, [Next]_vars, NEW e \in ExecId,
         inst[e].status # "Success", inst'[e].status = "Success"
  PROVE  \E w \in Worker : CbUpdate(w) /\ ReportedBy(w, e) /\ slot[w].exit = 0
<1>1. ASSUME NEW w \in Worker, CbUpdate(w)
      PROVE  ReportedBy(w, e) /\ slot[w].exit = 0
  <2>1. /\ slot[w].op = "cbUpdate"
        /\ slot[w].exec \in ExecId
        /\ \/ Update(slot[w].exec, Verdict(slot[w].exit), inst[slot[w].exec].node)
           \/ UNCHANGED inst
    BY <1>1 DEF CbUpdate, TypeInv, Busy
  <2>2. inst' = [inst EXCEPT ![slot[w].exec] =
                   Written(slot[w].exec, Verdict(slot[w].exit), inst[slot[w].exec].node)]
    BY <2>1 DEF Update
  <2>3. e = slot[w].exec /\ Verdict(slot[w].exit) = "Success"
    BY <2>1, <2>2 DEF Written, TypeInv, TypeOK
  <2>4. slot[w].exit = 0
    BY <2>3 DEF Verdict
  <2>5. QED
    BY <2>1, <2>3, <2>4 DEF ReportedBy
<1>2. ASSUME NEW s \in seen, MonitorJudge(s)
      PROVE  FALSE
  <2>1. \/ UNCHANGED inst
        \/ \E v \in {"Timeout", "Failed"} : Update(s.exec, v, inst[s.exec].node)
    BY <1>2 DEF MonitorJudge, Ruling
  <2>2. QED
    BY <1>2, <2>1 DEF Update, Written, TypeInv, TypeOK
<1>3. ASSUME NEW w \in Worker, PollClaim(w)
      PROVE  FALSE
  BY <1>3 DEF PollClaim, Update, Written, TypeInv, TypeOK
<1>4. ASSUME NEW d \in ExecId, NEW l \in Line, Insert(d, l)
      PROVE  FALSE
  BY <1>4 DEF Insert, Ready, TypeInv, TypeOK
<1>5. ASSUME NEW t \in Task, Run(t) \/ Incr(t) \/ CronFire(t)
      PROVE  FALSE
  <2>1. \A k \in Kind : Id(t, k) \in ExecId
    BY DEF Id, ExecId, TypeInv, TypeOK
  <2>2. \E k \in Kind, l \in Line : Insert(Id(t, k), l)
    BY <1>5, ResolveType DEF Run, Incr, CronFire, Line, Kind
  <2>3. QED
    BY <1>4, <1>5, <2>1, <2>2
<1>6. ASSUME NEW w \in Worker, CbSpawn(w)
      PROVE  FALSE
  <2>1. slot[w].exec \in ExecId /\ inst[slot[w].exec].line \in Line
    BY <1>6 DEF CbSpawn, TypeInv, TypeOK, Busy, Row
  <2>2. \A t \in slot[w].kids : Id(t, "dag") \in ExecId
    BY DEF Id, ExecId, Kind, TypeInv, TypeOK, Slot
  <2>3. UNCHANGED inst
        \/ \E t \in slot[w].kids : Insert(Id(t, "dag"), inst[slot[w].exec].line)
    BY <1>6 DEF CbSpawn
  <2>4. QED
    BY <1>4, <1>6, <2>1, <2>2, <2>3
<1>7. ASSUME NEW d \in ExecId, Elapse(d)
      PROVE  FALSE
  BY <1>7 DEF Elapse, TypeInv, TypeOK, Row
<1>8. CASE UNCHANGED inst
  BY <1>8
<1>9. QED
  BY <1>1, <1>2, <1>3, <1>5, <1>6, <1>7, <1>8
     DEF Next, Poll, Callback, Tick, SendPoll, PollTimeout, PollSelect, PollNone, PollReply,
         PollLost, ScriptExits, SendCallback, LoseCallback, CbNoEdges, MonitorScan, AgentCrash,
         ManagerCrash, vars

LEMMA SuccessStep ==
  ASSUME TypeInv, Caused, SuccessIsEarned, [Next]_vars
  PROVE  SuccessIsEarned'
<1> SUFFICES ASSUME NEW e \in ExecId, inst'[e].status = "Success"
             PROVE  starts'[e] > 0 /\ 0 \in exits'[e]
  BY DEF SuccessIsEarned
<1>1. CASE inst[e].status = "Success"
  BY <1>1, HistoryGrows DEF SuccessIsEarned
<1>2. CASE inst[e].status # "Success"
  <2>1. PICK w \in Worker : ReportedBy(w, e) /\ slot[w].exit = 0
    BY <1>2, SuccessRecorded
  <2>2. starts[e] > 0 /\ 0 \in exits[e]
    BY <2>1 DEF ReportedBy, Answering, TypeInv, Busy, Caused, SlotsCaused, SlotCaused
  <2>3. QED
    BY <2>2, HistoryGrows
<1>3. QED
  BY <1>1, <1>2

CausedInv == TypeInv /\ Caused /\ SuccessIsEarned /\ ChildNeedsSuccess

LEMMA CausedInvariant == Spec => []CausedInv
<1>1. Init => Caused /\ SuccessIsEarned /\ ChildNeedsSuccess
  BY DEF Init, Caused, JobsCaused, SlotsCaused, SlotCaused, SuccessIsEarned,
         ChildNeedsSuccess, Free, Idle, NoRow
<1>2. CausedInv /\ [Next]_vars => CausedInv'
  BY TypeInvStep, JobsCausedStep, SlotsCausedStep, SuccessStep, ChildStep DEF CausedInv, Caused
<1>3. QED
  BY <1>1, <1>2, TypeInvInit, PTL DEF Spec, CausedInv

(* A recorded success is a script that was started and ended with 0. *)
THEOREM SuccessCorrect == Spec => []SuccessIsEarned
BY CausedInvariant, PTL DEF CausedInv

(* A downstream row has a caller in its own pipeline that ended with 0. *)
THEOREM ChildrenCorrect == Spec => []ChildNeedsSuccess
BY CausedInvariant, PTL DEF CausedInv

-------------------------------------------------------------------------------
(* Who holds an execution that was started once. *)

LEMMA SingleStays ==
  ASSUME Single, UNCHANGED starts,
         \A x \in Executor, e \in ExecId : RunBy(x, e)' => RunBy(x, e),
         \A w \in Worker, e \in ExecId : ReportedBy(w, e)' => ReportedBy(w, e),
         \A e \in ExecId : inst'[e].status = "Success" => inst[e].status = "Success"
  PROVE  Single'
<1> SUFFICES ASSUME NEW e \in ExecId, starts[e] <= 1
             PROVE  InOneHand(e)'
  BY DEF Single
<1>1. InOneHand(e)
  BY DEF Single
<1>2. /\ \A x \in Executor : RunBy(x, e)' => RunBy(x, e)
      /\ \A w \in Worker : ReportedBy(w, e)' => ReportedBy(w, e)
      /\ inst'[e].status = "Success" => inst[e].status = "Success"
  OBVIOUS
<1>3. QED
  BY <1>1, <1>2 DEF InOneHand

(* A start is the first one, or one of several. *)
LEMMA SingleStarted ==
  ASSUME TypeInv, SuccessIsEarned, Single, NEW w \in Worker, PollReply(w)
  PROVE  Single'
<1>1. PICK x \in Executor :
        job' = [job EXCEPT ![x] = [op |-> "running", exec |-> slot[w].exec, exit |-> 0]]
  BY DEF PollReply
<1>2. PICK f \in ExecId : f = slot[w].exec
  BY DEF PollReply, TypeInv, Busy
<1>3. /\ \A y \in Executor : y # x => job'[y] = job[y]
      /\ job'[x].op = "running" /\ job'[x].exec = f
  BY <1>1, <1>2 DEF TypeInv, TypeOK
<1>4. slot' = [slot EXCEPT ![w] = Idle] /\ slot \in [Worker -> Slot]
  BY DEF PollReply, TypeInv, TypeOK
<1>5. \A v \in Worker, e \in ExecId : ReportedBy(v, e)' => ReportedBy(v, e)
  BY <1>4 DEF ReportedBy, Idle
<1>6. \A y \in Executor, e \in ExecId : RunBy(y, e)' => RunBy(y, e) \/ (y = x /\ e = f)
  BY <1>3 DEF RunBy
<1>7. /\ UNCHANGED inst /\ starts' = [starts EXCEPT ![f] = @ + 1]
      /\ starts \in [ExecId -> Nat]
  BY <1>2 DEF PollReply, TypeInv, TypeOK
<1> SUFFICES ASSUME NEW e \in ExecId, starts'[e] <= 1
             PROVE  InOneHand(e)'
  BY DEF Single
<1>8. CASE e # f
  <2>1. InOneHand(e)
    BY <1>7, <1>8 DEF Single
  <2>2. /\ \A y \in Executor : RunBy(y, e)' => RunBy(y, e)
        /\ \A v \in Worker : ReportedBy(v, e)' => ReportedBy(v, e)
    BY <1>5, <1>6, <1>8
  <2>3. QED
    BY <1>7, <2>1, <2>2 DEF InOneHand
<1>9. CASE e = f
  <2>1. starts[e] = 0
    BY <1>7, <1>9
  <2>2. \A y \in Executor : ~RunBy(y, e)
    BY <2>1 DEF RunBy, TypeInv, Busy
  <2>3. \A v \in Worker : ~ReportedBy(v, e)
    BY <2>1 DEF ReportedBy, TypeInv, Busy, Answering
  <2>4. inst[e].status # "Success"
    BY <2>1 DEF SuccessIsEarned
  <2>5. /\ \A y \in Executor : RunBy(y, e)' => y = x
        /\ \A v \in Worker : ~ReportedBy(v, e)'
        /\ inst'[e].status # "Success"
    BY <1>5, <1>6, <1>7, <2>2, <2>3, <2>4
  <2>6. QED
    BY <2>5 DEF InOneHand
<1>10. QED
  BY <1>8, <1>9

(* A callback takes the execution over from its executor. *)
LEMMA SingleReported ==
  ASSUME TypeInv, Single, NEW x \in Executor, NEW w \in Worker, SendCallback(x, w)
  PROVE  Single'
<1>1. PICK f \in ExecId : f = job[x].exec /\ RunBy(x, f)
  BY DEF SendCallback, RunBy, TypeInv, Busy
<1>2. job' = [job EXCEPT ![x] = Free] /\ job \in [Executor -> Job]
  BY DEF SendCallback, TypeInv, TypeOK
<1>3. \A y \in Executor, e \in ExecId : RunBy(y, e)' => RunBy(y, e) /\ y # x
  BY <1>2 DEF RunBy, Free
<1>4. \A v \in Worker, e \in ExecId :
        ReportedBy(v, e)' => ReportedBy(v, e) \/ (v = w /\ e = f)
  BY <1>1, CallbackArrives DEF ReportedBy
<1>5. UNCHANGED <<inst, starts>>
  BY DEF SendCallback
<1> SUFFICES ASSUME NEW e \in ExecId, starts[e] <= 1
             PROVE  InOneHand(e)'
  BY <1>5 DEF Single
<1>6. InOneHand(e)
  BY DEF Single
<1>7. CASE e # f
  <2>1. /\ \A y \in Executor : RunBy(y, e)' => RunBy(y, e)
        /\ \A v \in Worker : ReportedBy(v, e)' => ReportedBy(v, e)
    BY <1>3, <1>4, <1>7
  <2>2. QED
    BY <1>5, <1>6, <2>1 DEF InOneHand
<1>8. CASE e = f
  <2>1. /\ \A y \in Executor : RunBy(y, e) => y = x
        /\ \A v \in Worker : ~ReportedBy(v, e)
        /\ inst[e].status # "Success"
    BY <1>1, <1>6, <1>8 DEF InOneHand
  <2>2. /\ \A y \in Executor : ~RunBy(y, e)'
        /\ \A v \in Worker : ReportedBy(v, e)' => v = w
        /\ inst'[e].status # "Success"
    BY <1>3, <1>4, <1>5, <2>1
  <2>3. QED
    BY <2>2 DEF InOneHand
<1>9. QED
  BY <1>7, <1>8

(* The only report there is records the Success. *)
LEMMA SingleSettled ==
  ASSUME TypeInv, Single, NEW w \in Worker, CbUpdate(w)
  PROVE  Single'
<1>1. PICK f \in ExecId : f = slot[w].exec /\ ReportedBy(w, f)
  BY DEF CbUpdate, ReportedBy, TypeInv, Busy
<1>2. UNCHANGED <<job, starts>>
  BY DEF CbUpdate, agentVars
<1>3. \A x \in Executor, e \in ExecId : RunBy(x, e)' => RunBy(x, e)
  BY <1>2 DEF RunBy
<1>4. \A v \in Worker, e \in ExecId : ReportedBy(v, e)' => ReportedBy(v, e) /\ v # w
  BY AnswerSlots DEF ReportedBy, Callback
<1>5. \A e \in ExecId : e # f => inst'[e] = inst[e]
  BY <1>1 DEF CbUpdate, Update, TypeInv, TypeOK
<1> SUFFICES ASSUME NEW e \in ExecId, starts[e] <= 1
             PROVE  InOneHand(e)'
  BY <1>2 DEF Single
<1>6. InOneHand(e)
  BY DEF Single
<1>7. CASE e # f
  <2>1. /\ \A x \in Executor : RunBy(x, e)' => RunBy(x, e)
        /\ \A v \in Worker : ReportedBy(v, e)' => ReportedBy(v, e)
        /\ inst'[e] = inst[e]
    BY <1>3, <1>4, <1>5, <1>7
  <2>2. QED
    BY <1>6, <2>1 DEF InOneHand
<1>8. CASE e = f
  <2>1. /\ \A x \in Executor : ~RunBy(x, e)
        /\ \A v \in Worker : ReportedBy(v, e) => v = w
    BY <1>1, <1>6, <1>8 DEF InOneHand
  <2>2. /\ \A x \in Executor : ~RunBy(x, e)'
        /\ \A v \in Worker : ~ReportedBy(v, e)'
    BY <1>3, <1>4, <2>1
  <2>3. QED
    BY <2>2 DEF InOneHand
<1>9. QED
  BY <1>7, <1>8

LEMMA SingleStep ==
  ASSUME TypeInv, SuccessIsEarned, Single, [Next]_vars
  PROVE  Single'
<1>1. CASE \E w \in Worker : PollReply(w) \/ CbUpdate(w)
  BY <1>1, SingleStarted, SingleSettled
<1>2. CASE \E x \in Executor, w \in Worker : SendCallback(x, w)
  BY <1>2, SingleReported
<1>3. CASE /\ ~ \E w \in Worker : PollReply(w) \/ CbUpdate(w)
           /\ ~ \E x \in Executor, w \in Worker : SendCallback(x, w)
  <2>1. \A e \in ExecId : inst'[e].status = "Success" => inst[e].status = "Success"
    BY <1>3, SuccessRecorded
  <2>2. UNCHANGED starts
    BY <1>3 DEF Next, Poll, Callback, Run, Incr, CronFire, Tick, SendPoll, PollTimeout,
       PollSelect, PollNone, PollClaim, PollLost, ScriptExits, LoseCallback, CbSpawn, CbNoEdges,
       Elapse, MonitorScan, MonitorJudge, AgentCrash, ManagerCrash, agentVars, vars
  <2>3. \A x \in Executor, e \in ExecId : RunBy(x, e)' => RunBy(x, e)
    <3>1. job \in [Executor -> Job] /\ Free.op = "free"
      BY DEF TypeInv, TypeOK, Free
    <3>2. ASSUME NEW x \in Executor, NEW c \in ExitCode, ScriptExits(x, c)
          PROVE  \A y \in Executor, e \in ExecId : RunBy(y, e)' => RunBy(y, e)
      BY <3>1, <3>2 DEF ScriptExits, RunBy, Job
    <3>3. ASSUME NEW x \in Executor, LoseCallback(x)
          PROVE  \A y \in Executor, e \in ExecId : RunBy(y, e)' => RunBy(y, e)
      BY <3>1, <3>3 DEF LoseCallback, RunBy
    <3>4. ASSUME NEW n \in Node, AgentCrash(n)
          PROVE  \A y \in Executor, e \in ExecId : RunBy(y, e)' => RunBy(y, e)
      BY <3>1, <3>4 DEF AgentCrash, RunBy
    <3>5. CASE UNCHANGED job
      BY <3>5 DEF RunBy
    <3>6. QED
      BY <1>3, <3>2, <3>3, <3>4, <3>5 DEF Next, Poll, Callback, Run, Incr, CronFire, Tick,
         SendPoll, PollTimeout, PollSelect, PollNone, PollClaim, PollLost, CbSpawn, CbNoEdges,
         Elapse, MonitorScan, MonitorJudge, ManagerCrash, agentVars, vars
  <2>4. \A w \in Worker, e \in ExecId : ReportedBy(w, e)' => ReportedBy(w, e)
    <3>1. slot \in [Worker -> Slot]
      BY DEF TypeInv, TypeOK
    <3>2. ASSUME NEW n \in Node, NEW w \in Worker, SendPoll(n, w)
          PROVE  \A v \in Worker, e \in ExecId : ReportedBy(v, e)' => ReportedBy(v, e)
      <4>1. slot'[w].op = "pollSelect" /\ \A v \in Worker : v # w => slot'[v] = slot[v]
        BY <3>1, <3>2 DEF SendPoll, Idle
      <4>2. QED
        BY <4>1 DEF ReportedBy
    <3>3. ASSUME NEW w \in Worker, Poll(w)
          PROVE  \A v \in Worker, e \in ExecId : ReportedBy(v, e)' => ReportedBy(v, e)
      BY <3>3, PollSlots DEF ReportedBy
    <3>4. ASSUME NEW w \in Worker, Callback(w)
          PROVE  \A v \in Worker, e \in ExecId : ReportedBy(v, e)' => ReportedBy(v, e)
      BY <3>4, AnswerSlots DEF ReportedBy
    <3>5. CASE ManagerCrash
      BY <3>5 DEF ManagerCrash, ReportedBy, Idle
    <3>6. CASE UNCHANGED slot
      BY <3>6 DEF ReportedBy
    <3>7. QED
      BY <1>3, <3>2, <3>3, <3>4, <3>5, <3>6 DEF Next, Run, Incr, CronFire, Tick, PollTimeout,
         ScriptExits, LoseCallback, Elapse, MonitorScan, MonitorJudge, AgentCrash, vars
  <2>5. QED
    BY <2>1, <2>2, <2>3, <2>4, SingleStays
<1>4. QED
  BY <1>1, <1>2, <1>3

LEMMA SingleInvariant == Spec => [](CausedInv /\ Single)
<1>1. Init => Single
  BY DEF Init, Single, InOneHand, RunBy, ReportedBy, Free, Idle, NoRow
<1>2. CausedInv /\ Single /\ [Next]_vars => Single'
  BY SingleStep DEF CausedInv
<1>3. QED
  BY <1>1, <1>2, CausedInvariant, PTL DEF Spec

(* Besides the monitor and a claim, only a report takes a Success away. *)
LEMMA SuccessOverwritten ==
  ASSUME TypeInv, [Next]_vars, NEW e \in ExecId,
         inst[e].status = "Success", inst'[e].status # "Success"
  PROVE  \/ \E s \in seen : s.exec = e
         \/ \E w \in Worker : slot[w].op = "pollClaim" /\ slot[w].exec = e
         \/ \E w \in Worker : ReportedBy(w, e)
<1>1. ASSUME NEW d \in ExecId, NEW s, NEW n, Update(d, s, n)
      PROVE  d = e
  BY <1>1 DEF Update, TypeInv, TypeOK
<1>2. ASSUME NEW w \in Worker, PollClaim(w)
      PROVE  slot[w].op = "pollClaim" /\ slot[w].exec = e
  <2>1. slot[w].op = "pollClaim" /\ slot[w].exec \in ExecId
    BY <1>2 DEF PollClaim, TypeInv, Busy
  <2>2. QED
    BY <1>1, <1>2, <2>1 DEF PollClaim
<1>3. ASSUME NEW w \in Worker, CbUpdate(w)
      PROVE  ReportedBy(w, e)
  <2>1. /\ slot[w].op = "cbUpdate" /\ slot[w].exec \in ExecId
        /\ \/ Update(slot[w].exec, Verdict(slot[w].exit), inst[slot[w].exec].node)
           \/ UNCHANGED inst
    BY <1>3 DEF CbUpdate, TypeInv, Busy
  <2>2. QED
    BY <1>1, <2>1 DEF ReportedBy
<1>4. ASSUME NEW s \in seen, MonitorJudge(s)
      PROVE  s.exec = e
  <2>1. s.exec \in ExecId
    BY DEF TypeInv, TypeOK, Sighting
  <2>2. UNCHANGED inst \/ \E v : Update(s.exec, v, inst[s.exec].node)
    BY <1>4 DEF MonitorJudge
  <2>3. QED
    BY <1>1, <2>1, <2>2
<1>5. ASSUME NEW d \in ExecId, NEW l \in Line, Insert(d, l)
      PROVE  FALSE
  BY <1>5 DEF Insert, TypeInv, TypeOK
<1>6. ASSUME NEW t \in Task, Run(t) \/ Incr(t) \/ CronFire(t)
      PROVE  FALSE
  <2>1. \A k \in Kind : Id(t, k) \in ExecId
    BY DEF Id, ExecId, TypeInv, TypeOK
  <2>2. \E k \in Kind, l \in Line : Insert(Id(t, k), l)
    BY <1>6, ResolveType DEF Run, Incr, CronFire, Line, Kind
  <2>3. QED
    BY <1>5, <2>1, <2>2
<1>7. ASSUME NEW w \in Worker, CbSpawn(w)
      PROVE  FALSE
  <2>1. slot[w].exec \in ExecId /\ inst[slot[w].exec].line \in Line
    BY <1>7 DEF CbSpawn, TypeInv, TypeOK, Busy, Row
  <2>2. \A t \in slot[w].kids : Id(t, "dag") \in ExecId
    BY DEF Id, ExecId, Kind, TypeInv, TypeOK, Slot
  <2>3. UNCHANGED inst
        \/ \E t \in slot[w].kids : Insert(Id(t, "dag"), inst[slot[w].exec].line)
    BY <1>7 DEF CbSpawn
  <2>4. QED
    BY <1>5, <2>1, <2>2, <2>3
<1>8. ASSUME NEW d \in ExecId, Elapse(d)
      PROVE  FALSE
  BY <1>8 DEF Elapse, TypeInv, TypeOK, Row
<1>9. CASE UNCHANGED inst
  BY <1>9
<1>10. QED
  BY <1>2, <1>3, <1>4, <1>6, <1>7, <1>8, <1>9
     DEF Next, Poll, Callback, Tick, SendPoll, PollTimeout, PollSelect, PollNone, PollReply,
         PollLost, ScriptExits, SendCallback, LoseCallback, CbNoEdges, MonitorScan, AgentCrash,
         ManagerCrash, vars

(* A recorded Success goes only to what was read before it was recorded, or *)
(* to another run: of an execution that was started once, no report is left *)
(* once one of them was a success.                                          *)
THEOREM SuccessLostOnlySo == Spec => SuccessLostToStaleReads
<1> DEFINE Lost == \A e \in ExecId : inst[e].status = "Success" /\ inst'[e].status # "Success" =>
                     \/ \E s \in seen : s.exec = e
                     \/ \E w \in Worker : slot[w].op = "pollClaim" /\ slot[w].exec = e
                     \/ starts[e] > 1
<1>1. CausedInv /\ Single /\ [Next]_vars => Lost
  <2> SUFFICES ASSUME CausedInv, Single, [Next]_vars, NEW e \in ExecId,
                      inst[e].status = "Success", inst'[e].status # "Success"
               PROVE  \/ \E s \in seen : s.exec = e
                      \/ \E w \in Worker : slot[w].op = "pollClaim" /\ slot[w].exec = e
                      \/ starts[e] > 1
    OBVIOUS
  <2>1. starts[e] \in Nat /\ TypeInv
    BY DEF CausedInv, TypeInv, TypeOK
  <2>2. ASSUME NEW w \in Worker, ReportedBy(w, e)
        PROVE  starts[e] > 1
    BY <2>1, <2>2 DEF Single, InOneHand
  <2>3. QED
    BY <2>1, <2>2, SuccessOverwritten
<1>2. CausedInv /\ Single /\ [Next]_vars => [Lost]_vars
  BY <1>1
<1>3. QED
  BY <1>2, SingleInvariant, PTL DEF Spec, SuccessLostToStaleReads

-------------------------------------------------------------------------------
(* What a success leads to. *)

Faultless == dbErrors = 0 /\ crashes = 0

LEMMA FaultsStay ==
  ASSUME TypeInv, [Next]_vars, Faultless'
  PROVE  Faultless /\ UNCHANGED <<dbErrors, crashes>>
<1>1. dbErrors \in Nat /\ crashes \in Nat /\ dbErrors' = 0 /\ crashes' = 0
  BY Constants DEF TypeInv, TypeOK, Faultless
<1>2. dbErrors' = dbErrors \/ dbErrors' = dbErrors + 1
  <2>1. ASSUME NEW e, NEW l, Insert(e, l)
        PROVE  dbErrors' = dbErrors \/ dbErrors' = dbErrors + 1
    BY <2>1 DEF Insert, DbFails
  <2>2. ASSUME NEW e, NEW s, NEW n, Update(e, s, n)
        PROVE  dbErrors' = dbErrors \/ dbErrors' = dbErrors + 1
    BY <2>2 DEF Update, DbFails
  <2>3. ASSUME NEW t \in Task, Run(t) \/ Incr(t) \/ CronFire(t)
        PROVE  dbErrors' = dbErrors \/ dbErrors' = dbErrors + 1
    BY <2>1, <2>3 DEF Run, Incr, CronFire
  <2>4. ASSUME NEW w \in Worker, Poll(w)
        PROVE  dbErrors' = dbErrors \/ dbErrors' = dbErrors + 1
    BY <2>2, <2>4 DEF Poll, PollSelect, PollNone, PollClaim, PollReply, PollLost, DbFails,
                      faultVars
  <2>5. ASSUME NEW w \in Worker, Callback(w)
        PROVE  dbErrors' = dbErrors \/ dbErrors' = dbErrors + 1
    BY <2>1, <2>2, <2>5 DEF Callback, CbUpdate, CbSpawn, CbNoEdges, DbFails
  <2>6. ASSUME NEW s \in seen, MonitorJudge(s)
        PROVE  dbErrors' = dbErrors \/ dbErrors' = dbErrors + 1
    BY <2>2, <2>6 DEF MonitorJudge
  <2>7. CASE UNCHANGED dbErrors
    BY <2>7
  <2>8. QED
    BY <2>3, <2>4, <2>5, <2>6, <2>7
       DEF Next, Tick, SendPoll, PollTimeout, ScriptExits, SendCallback, LoseCallback, Elapse,
           MonitorScan, AgentCrash, ManagerCrash, faultVars, vars
<1>3. crashes' = crashes \/ crashes' = crashes + 1
  BY DEF Next, Poll, Callback, Run, Incr, CronFire, Tick, SendPoll, PollTimeout, PollSelect,
         PollNone, PollClaim, PollReply, PollLost, ScriptExits, SendCallback, LoseCallback,
         CbUpdate, CbSpawn, CbNoEdges, Elapse, MonitorScan, MonitorJudge, AgentCrash,
         ManagerCrash, faultVars, vars
<1>4. QED
  BY <1>1, <1>2, <1>3 DEF Faultless

(* Without faults a handler in its DAG part is left there by its own turns. *)
LEMMA SpawnerStays ==
  ASSUME TypeInv, [Next]_vars, UNCHANGED <<dbErrors, crashes>>,
         NEW w \in Worker, slot[w].op = "cbSpawn", ~CbSpawn(w)
  PROVE  slot'[w] = slot[w]
<1>1. dbErrors \in Nat /\ crashes \in Nat /\ slot \in [Worker -> Slot]
  BY Constants DEF TypeInv, TypeOK
<1>2. ASSUME NEW n \in Node, NEW v \in Worker, SendPoll(n, v)
      PROVE  slot'[w] = slot[w]
  BY <1>1, <1>2 DEF SendPoll, Idle
<1>3. ASSUME NEW v \in Worker, Poll(v)
      PROVE  slot'[w] = slot[w]
  <2>1. slot[v].op \in Polling
    BY <1>3 DEF Poll, PollSelect, PollNone, PollClaim, PollReply, PollLost, Polling
  <2>2. QED
    BY <1>3, <2>1, PollSlots DEF Polling
<1>4. ASSUME NEW v \in Worker, Callback(v)
      PROVE  slot'[w] = slot[w]
  <2>1. CASE v # w
    BY <1>4, <2>1, AnswerSlots
  <2>2. CASE v = w
    BY <1>1, <1>4, <2>2 DEF Callback, CbUpdate, CbNoEdges, DbFails
  <2>3. QED
    BY <2>1, <2>2
<1>5. ASSUME NEW x \in Executor, NEW v \in Worker, SendCallback(x, v)
      PROVE  slot'[w] = slot[w]
  BY <1>1, <1>5 DEF SendCallback, Idle
<1>6. ~ManagerCrash
  BY <1>1 DEF ManagerCrash
<1>7. CASE UNCHANGED slot
  BY <1>7
<1>8. QED
  BY <1>2, <1>3, <1>4, <1>5, <1>6, <1>7
     DEF Next, Run, Incr, CronFire, Tick, PollTimeout, ScriptExits, LoseCallback, Elapse,
         MonitorScan, MonitorJudge, AgentCrash, vars

(* A turn that finds the id of a child taken finds it taken by a row of the *)
(* same pipeline, if no other one has the task as a child.                  *)
LEMMA ChildEntered ==
  ASSUME TypeInv, ChildNeedsSuccess, RowsMove, UNCHANGED dbErrors,
         NEW t \in Task, NEW l \in Line, ChildOnly(t, l), Insert(Id(t, "dag"), l)
  PROVE  HasRow(t, l)'
<1>1. PICK d \in ExecId : d = Id(t, "dag") /\ d.kind = "dag" /\ d.task = t
  BY DEF Id, ExecId, Kind, TypeInv, TypeOK
<1>2. CASE inst[d].status = "absent"
  <2>1. inst' = [inst EXCEPT ![d] = Ready(t, l)]
    BY <1>1, <1>2, Constants DEF Insert, DbFails, TypeInv, TypeOK
  <2>2. inst'[d].status # "absent" /\ inst'[d].line = l
    BY <2>1 DEF Ready, TypeInv, TypeOK
  <2>3. QED
    BY <1>1, <2>2 DEF HasRow
<1>3. CASE inst[d].status # "absent"
  <2>1. PICK p \in ExecId : Caller(p, d)
    BY <1>1, <1>3 DEF ChildNeedsSuccess
  <2>2. <<inst[d].line, p.task, t>> \in Edges
    BY <1>1, <2>1 DEF Caller
  <2>3. inst[d].line = l
    BY <2>2 DEF ChildOnly
  <2>4. inst'[d].status # "absent" /\ inst'[d].line = l
    BY <1>3, <2>3, RowsStay
  <2>5. QED
    BY <1>1, <2>4 DEF HasRow
<1>4. QED
  BY <1>2, <1>3

(* A handler's turn enters the child or leaves it to a later turn. *)
LEMMA SpawnTurn ==
  ASSUME CausedInv, [Next]_vars, UNCHANGED dbErrors,
         NEW w \in Worker, CbSpawn(w), NEW e \in ExecId, slot[w].exec = e,
         NEW l, l = inst[e].line,
         NEW t \in slot[w].kids \cap Enabled, ChildOnly(t, l)
  PROVE  Spawning(e, t)' \/ HasRow(t, l)'
<1>1. PICK k \in slot[w].kids :
        /\ IF k \in Enabled THEN Insert(Id(k, "dag"), inst[slot[w].exec].line)
           ELSE UNCHANGED <<inst, dbErrors>>
        /\ LET left == slot[w].kids \ {k}
           IN  slot' = [slot EXCEPT ![w] = IF left = {} THEN Idle ELSE [@ EXCEPT !.kids = left]]
  BY DEF CbSpawn
<1>2. /\ slot \in [Worker -> Slot] /\ slot[w] \in Slot /\ slot[w].op = "cbSpawn"
      /\ slot[w].kids \in SUBSET Task /\ l \in Line
      /\ TypeInv /\ ChildNeedsSuccess
  BY DEF CbSpawn, CausedInv, TypeInv, TypeOK, Slot, Row
<1>3. CASE k = t
  <2>1. Insert(Id(t, "dag"), l) /\ t \in Task
    BY <1>1, <1>2, <1>3
  <2>2. QED
    BY <1>2, <2>1, ChildEntered, TypeInvStep
<1>4. CASE k # t
  <2> DEFINE left == slot[w].kids \ {k}
  <2>1. left # {} /\ left \in SUBSET Task /\ t \in left
    BY <1>2, <1>4
  <2>2. slot'[w] = [slot[w] EXCEPT !.kids = left]
    BY <1>1, <1>2, <2>1
  <2>3. slot'[w].op = "cbSpawn" /\ slot'[w].exec = e /\ t \in slot'[w].kids
    BY <1>2, <2>1, <2>2, SlotKids
  <2>4. QED
    BY <2>3 DEF Spawning
<1>5. QED
  BY <1>3, <1>4

(* The callback that records a success has all children before it. *)
LEMMA SpawnBegins ==
  ASSUME TypeInv, UNCHANGED dbErrors, NEW w \in Worker, CbUpdate(w),
         NEW e \in ExecId, slot[w].exec = e, slot[w].exit = 0, NEW t \in Kids(e, 0)
  PROVE  Spawning(e, t)'
<1> DEFINE spawn == [slot[w] EXCEPT !.op = "cbSpawn", !.kids = Kids(e, 0)]
<1>1. dbErrors \in Nat /\ slot \in [Worker -> Slot] /\ slot[w] \in Slot
  BY Constants DEF TypeInv, TypeOK
<1>2. ~DbFails
  BY <1>1 DEF DbFails
<1>3. slot' = [slot EXCEPT ![w] = spawn]
  BY <1>2 DEF CbUpdate
<1>4. spawn.op = "cbSpawn" /\ spawn.exec = e /\ spawn.kids = Kids(e, 0)
  BY <1>1 DEF Slot
<1>5. QED
  BY <1>1, <1>3, <1>4 DEF Spawning

LEMMA OwnChildStep ==
  ASSUME CausedInv, OwnChildTriggered, [Next]_vars
  PROVE  OwnChildTriggered'
<1> SUFFICES ASSUME Faultless', NEW e \in ExecId, inst'[e].status = "Success",
                    NEW l, l = inst'[e].line,
                    NEW t \in Kids(e, 0)' \cap Enabled, ChildOnly(t, l)
             PROVE  Spawning(e, t)' \/ HasRow(t, l)'
  BY DEF OwnChildTriggered, Faultless, HasRow
<1>1. TypeInv /\ RowsMove /\ Faultless /\ UNCHANGED <<dbErrors, crashes>>
  BY FaultsStay, TypeInvStep DEF CausedInv
<1>2. CASE inst[e].status # "Success"
  <2>1. PICK w \in Worker : CbUpdate(w) /\ ReportedBy(w, e) /\ slot[w].exit = 0
    BY <1>1, <1>2, SuccessRecorded
  <2>2. inst[e].status # "absent"
    BY <1>1, <2>1 DEF ReportedBy, TypeInv, Busy
  <2>3. t \in Kids(e, 0)
    BY <1>1, <2>2, KidsStay DEF ExitCode
  <2>4. QED
    BY <1>1, <2>1, <2>3, SpawnBegins DEF ReportedBy
<1>3. CASE inst[e].status = "Success"
  <2>1. inst[e].line = l /\ Kids(e, 0)' = Kids(e, 0)
    BY <1>1, <1>3, RowsStay, KidsStay DEF ExitCode
  <2>2. Spawning(e, t) \/ HasRow(t, l)
    BY <1>1, <1>3, <2>1 DEF OwnChildTriggered, Faultless
  <2>3. CASE HasRow(t, l)
    <3>1. PICK d \in ExecId : /\ d.kind = "dag" /\ d.task = t
                              /\ inst[d].status # "absent" /\ inst[d].line = l
      BY <2>3 DEF HasRow
    <3>2. inst'[d].status # "absent" /\ inst'[d].line = l
      BY <1>1, <2>1, <3>1, RowsStay
    <3>3. QED
      BY <3>1, <3>2 DEF HasRow
  <2>4. CASE Spawning(e, t)
    <3>1. PICK w \in Worker : slot[w].op = "cbSpawn" /\ slot[w].exec = e /\ t \in slot[w].kids
      BY <2>4 DEF Spawning
    <3>2. CASE CbSpawn(w)
      BY <1>1, <2>1, <3>1, <3>2, SpawnTurn
    <3>3. CASE ~CbSpawn(w)
      BY <1>1, <3>1, <3>3, SpawnerStays DEF Spawning
    <3>4. QED
      BY <3>2, <3>3
  <2>5. QED
    BY <2>2, <2>3, <2>4
<1>4. QED
  BY <1>2, <1>3

(* While no statement fails and nothing crashes, a success triggers every   *)
(* enabled child that has no parent in another pipeline: of the promise     *)
(* DownstreamTriggered the ids of one second take away those only that have. *)
THEOREM OwnChildrenTriggered == Spec => []OwnChildTriggered
<1>1. Init => OwnChildTriggered
  BY DEF Init, OwnChildTriggered, NoRow
<1>2. CausedInv /\ OwnChildTriggered /\ [Next]_vars => OwnChildTriggered'
  BY OwnChildStep
<1>3. QED
  BY <1>1, <1>2, CausedInvariant, PTL DEF Spec
===============================================================================
