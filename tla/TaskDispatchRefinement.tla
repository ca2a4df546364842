------------------------- MODULE TaskDispatchRefinement -------------------------
(***************************************************************************)
(* Executions bound to a node start at most once, and once more for each   *)
(* failed claim, and TaskDispatch implements TaskLedger: every step is a   *)
(* step of the ledger or leaves it alone, whatever fails.                  *)
(***************************************************************************)
EXTENDS TaskDispatchSafety

SerialInv == TypeInv /\ Placed /\ Serial

-------------------------------------------------------------------------------
(* The poll an agent waits for. *)

(* Who waits for a worker after a step waited for it before, or polls now. *)
LEMMA CallFrom ==
  ASSUME SerialInv, [Next]_vars, NEW n \in Node, call'[n] # NoWorker
  PROVE  \/ call'[n] = call[n]
         \/ SendPoll(n, call'[n]) /\ call'[n] \in Worker
<1>1. ASSUME NEW m \in Node, NEW w \in Worker, SendPoll(m, w)
      PROVE  call'[n] = call[n] \/ (SendPoll(n, call'[n]) /\ call'[n] \in Worker)
  BY <1>1 DEF SendPoll, SerialInv, TypeInv, TypeOK
<1>2. ASSUME NEW w \in Worker, HangUp(w)
      PROVE  call'[n] = call[n]
  BY <1>2 DEF HangUp
<1>3. ASSUME NEW m \in Node, call' = [call EXCEPT ![m] = NoWorker]
      PROVE  call'[n] = call[n]
  BY <1>3 DEF SerialInv, TypeInv, TypeOK
<1>4. CASE ManagerCrash
  BY <1>4 DEF ManagerCrash
<1>5. CASE UNCHANGED call
  BY <1>5
<1>6. QED
  BY <1>1, <1>2, <1>3, <1>4, <1>5
     DEF Next, Poll, Callback, Run, Incr, CronFire, Tick, PollTimeout, PollSelect, PollNone,
         PollClaim, PollReply, PollLost, ScriptExits, SendCallback, LoseCallback, CbUpdate,
         CbSpawn, CbNoEdges, Elapse, MonitorScan, MonitorJudge, AgentCrash, agentVars, vars

(* What a step does to the worker an agent waits for and goes on waiting for. *)
LEMMA CalledSlot ==
  ASSUME SerialInv, [Next]_vars, NEW n \in Node, NEW v \in Worker, call[n] = v, call'[n] = v
  PROVE  slot'[v] = slot[v] \/ PollSelect(v) \/ PollClaim(v)
<1>1. slot[v].op \in Polling /\ slot[v] # Idle
  BY Constants DEF SerialInv, Serial, OwnPoll, Idle, Polling
<1>2. ASSUME NEW w \in Worker, w # v, \A u \in Worker : u # w => slot'[u] = slot[u]
      PROVE  slot'[v] = slot[v]
  BY <1>2
<1>3. ASSUME NEW m \in Node, NEW w \in Worker, SendPoll(m, w)
      PROVE  slot'[v] = slot[v]
  BY <1>1, <1>3 DEF SendPoll, SerialInv, TypeInv, TypeOK
<1>4. ASSUME NEW x \in Executor, NEW w \in Worker, SendCallback(x, w)
      PROVE  slot'[v] = slot[v]
  BY <1>1, <1>4 DEF SendCallback, SerialInv, TypeInv, TypeOK
<1>5. ASSUME NEW w \in Worker, PollNone(w) \/ PollReply(w) \/ PollLost(w)
      PROVE  slot'[v] = slot[v]
  <2>1. call'[n] = IF call[n] = w THEN NoWorker ELSE call[n]
    BY <1>5 DEF PollNone, PollReply, PollLost, HangUp
  <2>2. w # v
    BY <2>1, Constants
  <2>3. QED
    BY <1>5, <2>2, HandlerEnds DEF SerialInv
<1>6. ASSUME NEW w \in Worker, Callback(w)
      PROVE  slot'[v] = slot[v]
  <2>1. slot[w].op \in Answering
    BY <1>6 DEF Callback, CbUpdate, CbSpawn, CbNoEdges, Answering
  <2>2. w # v
    BY <1>1, <2>1 DEF Answering, Polling
  <2>3. QED
    BY <1>6, <2>2, HandlerEnds DEF SerialInv
<1>7. ASSUME NEW w \in Worker, PollSelect(w) \/ PollClaim(w)
      PROVE  slot'[v] = slot[v] \/ PollSelect(v) \/ PollClaim(v)
  <2>1. CASE w = v
    BY <1>7, <2>1
  <2>2. CASE w # v
    BY <1>7, <2>2 DEF PollSelect, PollClaim, SerialInv, TypeInv, TypeOK
  <2>3. QED
    BY <2>1, <2>2
<1>8. CASE ManagerCrash
  BY <1>8, Constants DEF ManagerCrash
<1>9. CASE UNCHANGED slot
  BY <1>9
<1>10. QED
  BY <1>3, <1>4, <1>5, <1>6, <1>7, <1>8, <1>9
     DEF Next, Poll, Run, Incr, CronFire, Tick, PollTimeout, ScriptExits, LoseCallback,
         Elapse, MonitorScan, MonitorJudge, AgentCrash, vars

LEMMA SelectEffect ==
  ASSUME TypeInv, NEW w \in Worker, PollSelect(w)
  PROVE  /\ slot'[w].op = "pollClaim" /\ slot'[w].node = slot[w].node
         /\ slot'[w].exec \in ExecId /\ inst[slot'[w].exec].status = "Ready"
         /\ UNCHANGED <<inst, call, starts, missed>>
<1>1. PICK e \in ExecId :
        /\ Offered(slot[w].node, e)
        /\ slot' = [slot EXCEPT ![w] = [@ EXCEPT !.op = "pollClaim", !.exec = e]]
  BY DEF PollSelect
<1>2. UNCHANGED <<inst, call, starts, missed>>
  BY DEF PollSelect, agentVars
<1>3. QED
  BY <1>1, <1>2 DEF Offered, TypeInv, TypeOK, Slot

(* Either the claimed row is Running, or one more claim of it has failed. *)
LEMMA ClaimEffect ==
  ASSUME TypeInv, NEW w \in Worker, PollClaim(w)
  PROVE  LET e == slot[w].exec
         IN  /\ slot[w].op = "pollClaim" /\ e \in ExecId
             /\ slot'[w].op = "pollReply" /\ slot'[w].node = slot[w].node
             /\ slot'[w].exec = e
             /\ UNCHANGED <<call, starts, exits>>
             /\ \/ /\ inst' = [inst EXCEPT ![e] = Written(e, "Running", slot[w].node)]
                   /\ inst'[e].status = "Running"
                   /\ UNCHANGED missed
                \/ /\ missed' = [missed EXCEPT ![e] = @ + 1]
                   /\ UNCHANGED inst
<1> DEFINE e == slot[w].exec
<1>1. /\ slot[w].op = "pollClaim" /\ e \in ExecId
      /\ slot'[w].op = "pollReply" /\ slot'[w].node = slot[w].node /\ slot'[w].exec = e
      /\ UNCHANGED <<call, starts, exits>>
  BY DEF PollClaim, TypeInv, TypeOK, Busy, Slot
<1>2. \/ /\ inst' = [inst EXCEPT ![e] = Written(e, "Running", slot[w].node)]
         /\ UNCHANGED missed
      \/ /\ missed' = [missed EXCEPT ![e] = @ + 1]
         /\ UNCHANGED inst
  <2>1. CASE UNCHANGED dbErrors
    BY <2>1 DEF PollClaim, Update, DbFails, TypeInv, TypeOK
  <2>2. CASE dbErrors' # dbErrors
    BY <2>2 DEF PollClaim, Update
  <2>3. QED
    BY <2>1, <2>2
<1>3. inst' = [inst EXCEPT ![e] = Written(e, "Running", slot[w].node)] =>
        inst'[e].status = "Running"
  BY <1>1 DEF Written, TypeInv, TypeOK
<1>4. QED
  BY <1>1, <1>2, <1>3

LEMMA NewPoll ==
  ASSUME TypeInv, NEW n \in Node, NEW w \in Worker, SendPoll(n, w)
  PROVE  /\ slot'[w].op = "pollSelect" /\ slot'[w].node = n
         /\ UNCHANGED <<inst, starts, missed>>
BY DEF SendPoll, Idle, TypeInv, TypeOK, faultVars

LEMMA OwnPollStep ==
  ASSUME SerialInv, [Next]_vars
  PROVE  OwnPoll'
<1> SUFFICES ASSUME NEW n \in Node, call'[n] # NoWorker
             PROVE  slot'[call'[n]].op \in Polling /\ slot'[call'[n]].node = n
  BY DEF OwnPoll
<1>1. CASE SendPoll(n, call'[n]) /\ call'[n] \in Worker
  BY <1>1, NewPoll DEF SerialInv, Polling
<1>2. CASE call'[n] = call[n]
  <2>1. PICK v \in Worker : v = call[n]
    BY <1>2 DEF SerialInv, TypeInv, TypeOK
  <2>2. slot[v].op \in Polling /\ slot[v].node = n
    BY <1>2, <2>1 DEF SerialInv, Serial, OwnPoll
  <2>3. slot'[v] = slot[v] \/ PollSelect(v) \/ PollClaim(v)
    BY <1>2, <2>1, CalledSlot
  <2>4. QED
    BY <1>2, <2>1, <2>2, <2>3, SelectEffect, ClaimEffect DEF SerialInv, Polling
<1>3. QED
  BY <1>1, <1>2, CallFrom

-------------------------------------------------------------------------------
(* How often a script starts. *)

LEMMA StartedBy ==
  ASSUME TypeInv, [Next]_vars
  PROVE  UNCHANGED starts \/ \E w \in Worker : PollReply(w)
BY DEF Next, Poll, Callback, Run, Incr, CronFire, Tick, SendPoll, PollTimeout, PollSelect,
       PollNone, PollClaim, PollLost, ScriptExits, SendCallback, LoseCallback, CbUpdate,
       CbSpawn, CbNoEdges, Elapse, MonitorScan, MonitorJudge, AgentCrash, ManagerCrash,
       agentVars, vars

LEMMA ReplyEffect ==
  ASSUME SerialInv, NEW w \in Worker, PollReply(w)
  PROVE  LET e == slot[w].exec
             n == slot[w].node
         IN  /\ e \in ExecId /\ n \in Node
             /\ slot[w].op = "pollReply" /\ inst[e].status # "absent"
             /\ call[n] = w /\ call'[n] = NoWorker
             /\ e.task \in Bound =>
                  /\ n = Target[e.task]
                  /\ starts[e] <= missed[e]
                  /\ inst[e].status = "Ready" => starts[e] < missed[e]
             /\ starts' = [starts EXCEPT ![e] = @ + 1]
             /\ UNCHANGED <<inst, exits, missed>>
<1> DEFINE e == slot[w].exec
           n == slot[w].node
<1>1. /\ slot[w].op = "pollReply" /\ slot[w].op \in Polling
      /\ call[n] = w /\ HangUp(w)
      /\ starts' = [starts EXCEPT ![e] = @ + 1]
      /\ UNCHANGED <<inst, exits, missed>>
  BY DEF PollReply, Polling
<1>2. e \in ExecId /\ inst[e].status # "absent" /\ n \in Node
  BY <1>1 DEF SerialInv, TypeInv, Busy
<1>3. call'[n] = NoWorker
  BY <1>1, <1>2 DEF HangUp
<1>4. e.task \in Bound =>
        starts[e] <= missed[e] /\ (inst[e].status = "Ready" => starts[e] < missed[e])
  BY <1>1, <1>2, Constants DEF SerialInv, Serial, FreshPoll
<1>5. e.task \in Bound => n = Target[e.task]
  BY <1>1, <1>2 DEF SerialInv, Placed, PollsPlaced
<1>6. QED
  BY <1>1, <1>2, <1>3, <1>4, <1>5

(* Failed claims are only ever counted up. *)
LEMMA MissedGrows ==
  ASSUME TypeInv, [Next]_vars, NEW e \in ExecId
  PROVE  missed[e] <= missed'[e] /\ missed[e] \in Nat /\ missed'[e] \in Nat
<1>1. missed \in [ExecId -> Nat]
  BY DEF TypeInv, TypeOK
<1>2. ASSUME NEW w \in Worker, PollClaim(w)
      PROVE  missed[e] <= missed'[e] /\ missed'[e] \in Nat
  BY <1>1, <1>2, ClaimEffect
<1>3. CASE UNCHANGED missed
  BY <1>1, <1>3
<1>4. QED
  BY <1>1, <1>2, <1>3
     DEF Next, Poll, Callback, Run, Incr, CronFire, Tick, SendPoll, PollTimeout, PollSelect,
         PollNone, PollReply, PollLost, ScriptExits, SendCallback, LoseCallback, CbUpdate,
         CbSpawn, CbNoEdges, Elapse, MonitorScan, MonitorJudge, AgentCrash, ManagerCrash,
         agentVars, vars

LEMMA BoundRunsOnceStep ==
  ASSUME SerialInv, [Next]_vars
  PROVE  BoundRunsOnce'
<1> SUFFICES ASSUME NEW e \in ExecId, e.task \in Bound
             PROVE  starts'[e] <= 1 + missed'[e]
  BY DEF BoundRunsOnce
<1>1. missed[e] <= missed'[e] /\ missed[e] \in Nat /\ missed'[e] \in Nat
  BY MissedGrows DEF SerialInv
<1>2. starts \in [ExecId -> Nat] /\ starts[e] <= 1 + missed[e]
  BY DEF SerialInv, TypeInv, TypeOK, Serial, BoundRunsOnce
<1>3. CASE UNCHANGED starts
  BY <1>1, <1>2, <1>3
<1>4. ASSUME NEW w \in Worker, PollReply(w)
      PROVE  starts'[e] <= 1 + missed'[e]
  <2>1. CASE slot[w].exec = e
    <3>1. starts[e] <= missed[e] /\ starts'[e] = starts[e] + 1
      BY <1>2, <1>4, <2>1, ReplyEffect
    <3>2. QED
      BY <1>1, <1>2, <3>1
  <2>2. CASE slot[w].exec # e
    <3>1. starts'[e] = starts[e]
      BY <1>2, <1>4, <2>2, ReplyEffect
    <3>2. QED
      BY <1>1, <1>2, <3>1
  <2>3. QED
    BY <2>1, <2>2
<1>5. QED
  BY <1>3, <1>4, StartedBy DEF SerialInv

-------------------------------------------------------------------------------
(* What is on offer. *)

LEMMA NotReadyStays ==
  ASSUME TypeInv, [Next]_vars, NEW e \in ExecId, inst[e].status \notin {"absent", "Ready"}
  PROVE  inst'[e].status \notin {"absent", "Ready"}
BY TypeInvStep DEF RowsMove, Moves, Settled

LEMMA NotOfferedStep ==
  ASSUME SerialInv, [Next]_vars
  PROVE  NotOffered'
<1> SUFFICES ASSUME NEW e \in ExecId, e.task \in Bound, inst'[e].status = "Ready"
             PROVE  starts'[e] <= missed'[e]
  BY DEF NotOffered
<1>1. missed[e] <= missed'[e] /\ missed[e] \in Nat /\ missed'[e] \in Nat
  BY MissedGrows DEF SerialInv
<1>2. starts \in [ExecId -> Nat]
  BY DEF SerialInv, TypeInv, TypeOK
<1>3. inst[e].status \in {"absent", "Ready"}
  BY NotReadyStays DEF SerialInv
<1>4. starts[e] <= missed[e]
  <2>1. CASE inst[e].status = "absent"
    <3>1. starts[e] = 0
      BY <1>2, <2>1 DEF SerialInv, TypeInv, Busy
    <3>2. QED
      BY <1>1, <3>1
  <2>2. CASE inst[e].status = "Ready"
    BY <2>2 DEF SerialInv, Serial, NotOffered
  <2>3. QED
    BY <1>3, <2>1, <2>2
<1>5. CASE UNCHANGED starts
  BY <1>1, <1>2, <1>4, <1>5
<1>6. ASSUME NEW w \in Worker, PollReply(w)
      PROVE  starts'[e] <= missed'[e]
  <2>1. CASE slot[w].exec = e
    <3>1. inst[e].status = "Ready"
      BY <1>6, ReplyEffect
    <3>2. starts[e] < missed[e] /\ starts'[e] = starts[e] + 1
      BY <1>2, <1>6, <2>1, <3>1, ReplyEffect
    <3>3. QED
      BY <1>1, <1>2, <3>2
  <2>2. CASE slot[w].exec # e
    <3>1. starts'[e] = starts[e]
      BY <1>2, <1>6, <2>2, ReplyEffect
    <3>2. QED
      BY <1>1, <1>2, <1>4, <3>1
  <2>3. QED
    BY <2>1, <2>2
<1>7. QED
  BY <1>5, <1>6, StartedBy DEF SerialInv

(* While an agent waits for a poll of e no other poll of it is answered. *)
LEMMA NotStarted ==
  ASSUME SerialInv, [Next]_vars, NEW n \in Node, NEW v \in Worker, NEW e \in ExecId,
         e.task \in Bound, call[n] = v, call'[n] = v,
         slot'[v].op # "pollSelect", slot'[v].exec = e
  PROVE  starts'[e] = starts[e]
<1>1. slot'[v] = slot[v] \/ PollSelect(v) \/ PollClaim(v)
  BY CalledSlot
<1>2. ASSUME NEW w \in Worker, PollReply(w), slot[w].exec = e
      PROVE  FALSE
  <2>1. slot'[v] = slot[v]
    BY <1>1, <1>2, SelectEffect, ClaimEffect, ReplyEffect DEF SerialInv, TypeInv, TypeOK
  <2>2. slot[v].op \in Polling /\ slot[v].node = n
    BY Constants DEF SerialInv, Serial, OwnPoll
  <2>3. slot[v].node = Target[e.task]
    BY <2>1, <2>2 DEF SerialInv, Placed, PollsPlaced
  <2>4. slot[w].node = n /\ call'[n] = NoWorker
    BY <1>2, <2>2, <2>3, ReplyEffect
  <2>5. QED
    BY <2>4, Constants
<1>3. ASSUME NEW w \in Worker, PollReply(w)
      PROVE  starts'[e] = starts[e]
  <2>1. slot[w].exec # e
    BY <1>2, <1>3
  <2>2. QED
    BY <1>3, <2>1, ReplyEffect DEF SerialInv, TypeInv, TypeOK
<1>4. QED
  BY <1>3, StartedBy DEF SerialInv

LEMMA FreshPollStep ==
  ASSUME SerialInv, [Next]_vars
  PROVE  FreshPoll'
<1> SUFFICES ASSUME NEW n \in Node, NEW e \in ExecId, e.task \in Bound, call'[n] # NoWorker,
                    slot'[call'[n]].op # "pollSelect", slot'[call'[n]].exec = e
             PROVE  /\ starts'[e] <= missed'[e]
                    /\ slot'[call'[n]].op = "pollReply" /\ inst'[e].status = "Ready" =>
                         starts'[e] < missed'[e]
  BY DEF FreshPoll
<1>1. PICK v \in Worker : call[n] = v /\ call'[n] = v
  BY CallFrom, NewPoll DEF SerialInv, TypeInv, TypeOK
<1>2. slot'[v] = slot[v] \/ PollSelect(v) \/ PollClaim(v)
  BY <1>1, CalledSlot
<1>3. starts'[e] = starts[e] /\ starts[e] \in Nat
  BY <1>1, NotStarted DEF SerialInv, TypeInv, TypeOK
<1>4. missed[e] <= missed'[e] /\ missed[e] \in Nat /\ missed'[e] \in Nat
  BY MissedGrows DEF SerialInv
<1>5. CASE slot'[v] = slot[v]
  <2>1. /\ starts[e] <= missed[e]
        /\ slot[v].op = "pollReply" /\ inst[e].status = "Ready" => starts[e] < missed[e]
    BY <1>1, <1>5, Constants DEF SerialInv, Serial, FreshPoll
  <2>2. slot[v].op = "pollReply" /\ inst'[e].status = "Ready" => inst[e].status = "Ready"
    <3>1. slot[v].op = "pollReply" => inst[e].status # "absent"
      BY <1>1, <1>5 DEF SerialInv, TypeInv, Busy
    <3>2. QED
      BY <3>1, NotReadyStays DEF SerialInv
  <2>3. QED
    BY <1>1, <1>3, <1>4, <1>5, <2>1, <2>2
<1>6. CASE PollSelect(v)
  <2>1. slot'[v].op = "pollClaim" /\ inst[e].status = "Ready"
    BY <1>1, <1>6, SelectEffect DEF SerialInv
  <2>2. starts[e] <= missed[e]
    BY <2>1 DEF SerialInv, Serial, NotOffered
  <2>3. QED
    BY <1>1, <1>3, <1>4, <2>1, <2>2
<1>7. CASE PollClaim(v)
  <2>1. slot[v].op = "pollClaim" /\ slot[v].exec = e
    BY <1>1, <1>7, ClaimEffect DEF SerialInv
  <2>2. starts[e] <= missed[e]
    BY <1>1, <2>1, Constants DEF SerialInv, Serial, FreshPoll
  <2>3. inst'[e].status = "Ready" => missed'[e] = missed[e] + 1
    BY <1>7, <2>1, ClaimEffect DEF SerialInv, TypeInv, TypeOK
  <2>4. QED
    BY <1>1, <1>3, <1>4, <2>2, <2>3
<1>8. QED
  BY <1>2, <1>5, <1>6, <1>7

-------------------------------------------------------------------------------

LEMMA SerialInit == Init => Serial
<1>1. NoWorker \notin Worker
  BY Constants
<1>2. QED
  BY <1>1 DEF Init, Serial, OwnPoll, NotOffered, FreshPoll, BoundRunsOnce, Idle, NoRow

LEMMA SerialInvariant == Spec => [](TypeInv /\ Placed /\ Serial)
<1>1. TypeInv /\ Placed /\ Serial /\ [Next]_vars => Serial'
  <2> SUFFICES ASSUME SerialInv, [Next]_vars
               PROVE  Serial'
    BY DEF SerialInv
  <2>1. QED
    BY OwnPollStep, NotOfferedStep, FreshPollStep, BoundRunsOnceStep DEF Serial
<1>2. QED
  BY <1>1, SerialInit, PlacedInvariant, PTL DEF Spec

(* A script bound to a node starts at most once, and once more for each     *)
(* UPDATE that failed to claim its row.                                     *)
THEOREM RunsOnce == Spec => []BoundRunsOnce
<1>1. Serial => BoundRunsOnce
  BY DEF Serial
<1>2. QED
  BY <1>1, SerialInvariant, PTL

-------------------------------------------------------------------------------
(* The ledger. *)

Inv == TypeInv /\ Placed /\ Serial /\ Caused

LedgerStep == Ledger!Next \/ UNCHANGED Ledger!ledger

LEMMA InvParts ==
  ASSUME Inv
  PROVE  TypeInv /\ SerialInv /\ Caused
BY DEF Inv, SerialInv

(* The ledger sees of a written row its status and its line. *)
LEMMA RowWritten ==
  ASSUME TypeInv, NEW e \in ExecId, NEW r, inst' = [inst EXCEPT ![e] = r]
  PROVE  /\ [d \in ExecId |-> inst[d].status]' =
              [[d \in ExecId |-> inst[d].status] EXCEPT ![e] = r.status]
         /\ [d \in ExecId |-> inst[d].line]' =
              [[d \in ExecId |-> inst[d].line] EXCEPT ![e] = r.line]
BY DEF TypeInv, TypeOK

LEMMA NoLedgerChange ==
  ASSUME UNCHANGED <<inst, starts, exits, missed>>
  PROVE  LedgerStep
BY DEF LedgerStep, Ledger!ledger

LEMMA InsertRequests ==
  ASSUME TypeInv, NEW e \in ExecId, NEW l \in Line, Insert(e, l), e.kind # "dag",
         UNCHANGED <<starts, exits, missed>>
  PROVE  LedgerStep
<1>1. CASE inst' = inst
  BY <1>1, NoLedgerChange
<1>2. CASE inst[e].status = "absent" /\ inst' = [inst EXCEPT ![e] = Ready(e.task, l)]
  <2>1. Ready(e.task, l).status = "Ready" /\ Ready(e.task, l).line = l
    BY DEF Ready
  <2>2. /\ [d \in ExecId |-> inst[d].status]' =
             [[d \in ExecId |-> inst[d].status] EXCEPT ![e] = "Ready"]
        /\ [d \in ExecId |-> inst[d].line]' =
             [[d \in ExecId |-> inst[d].line] EXCEPT ![e] = l]
    <3> DEFINE r == Ready(e.task, l)
    <3>1. inst' = [inst EXCEPT ![e] = r]
      BY <1>2
    <3> HIDE DEF r
    <3>2. /\ [d \in ExecId |-> inst[d].status]' =
               [[d \in ExecId |-> inst[d].status] EXCEPT ![e] = r.status]
          /\ [d \in ExecId |-> inst[d].line]' =
               [[d \in ExecId |-> inst[d].line] EXCEPT ![e] = r.line]
      BY <3>1, RowWritten
    <3>3. r.status = "Ready" /\ r.line = l
      BY <2>1 DEF r
    <3>4. QED
      BY <3>2, <3>3
  <2>3. Ledger!Request(e, l)
    BY <1>2, <2>2 DEF Ledger!Request, Ledger!Known
  <2>4. QED
    BY <2>3 DEF LedgerStep, Ledger!Next
<1>3. QED
  BY <1>1, <1>2, InsertEffect DEF TypeInv

LEMMA InsertTriggers ==
  ASSUME TypeInv, NEW e \in ExecId, NEW p \in ExecId,
         e.kind = "dag", p.kind # "incr", 0 \in exits[p],
         <<inst[p].line, p.task, e.task>> \in Edges,
         Insert(e, inst[p].line), inst[p].line \in Line,
         UNCHANGED <<starts, exits, missed>>
  PROVE  LedgerStep
<1> DEFINE l == inst[p].line
<1>1. CASE inst' = inst
  BY <1>1, NoLedgerChange
<1>2. CASE inst[e].status = "absent" /\ inst' = [inst EXCEPT ![e] = Ready(e.task, l)]
  <2>1. Ready(e.task, l).status = "Ready" /\ Ready(e.task, l).line = l
    BY DEF Ready
  <2>2. /\ [d \in ExecId |-> inst[d].status]' =
             [[d \in ExecId |-> inst[d].status] EXCEPT ![e] = "Ready"]
        /\ [d \in ExecId |-> inst[d].line]' =
             [[d \in ExecId |-> inst[d].line] EXCEPT ![e] = l]
    <3> DEFINE r == Ready(e.task, l)
    <3>1. inst' = [inst EXCEPT ![e] = r]
      BY <1>2
    <3> HIDE DEF r
    <3>2. /\ [d \in ExecId |-> inst[d].status]' =
               [[d \in ExecId |-> inst[d].status] EXCEPT ![e] = r.status]
          /\ [d \in ExecId |-> inst[d].line]' =
               [[d \in ExecId |-> inst[d].line] EXCEPT ![e] = r.line]
      BY <3>1, RowWritten
    <3>3. r.status = "Ready" /\ r.line = l
      BY <2>1 DEF r
    <3>4. QED
      BY <3>2, <3>3
  <2>3. Ledger!Trigger(p, e)
    BY <1>2, <2>2 DEF Ledger!Trigger, Ledger!Known
  <2>4. QED
    BY <2>3 DEF LedgerStep, Ledger!Next
<1>3. QED
  BY <1>1, <1>2, InsertEffect DEF TypeInv

LEMMA UpdateJudges ==
  ASSUME TypeInv, NEW e \in ExecId, NEW v \in {"Running", "Success", "Failed", "Timeout"},
         NEW n, Update(e, v, n), inst[e].status # "absent",
         v = "Success" => 0 \in exits[e],
         UNCHANGED <<starts, exits, missed>>
  PROVE  LedgerStep
<1>1. CASE inst' = inst
  BY <1>1, NoLedgerChange
<1>2. CASE inst' = [inst EXCEPT ![e] = Written(e, v, n)]
  <2>1. Written(e, v, n).status = v /\ Written(e, v, n).line = inst[e].line
    BY DEF Written
  <2>2. /\ [d \in ExecId |-> inst[d].status]' =
             [[d \in ExecId |-> inst[d].status] EXCEPT ![e] = v]
        /\ [d \in ExecId |-> inst[d].line]' =
             [[d \in ExecId |-> inst[d].line] EXCEPT ![e] = inst[e].line]
    <3> DEFINE r == Written(e, v, n)
    <3>1. inst' = [inst EXCEPT ![e] = r]
      BY <1>2
    <3> HIDE DEF r
    <3>2. /\ [d \in ExecId |-> inst[d].status]' =
               [[d \in ExecId |-> inst[d].status] EXCEPT ![e] = r.status]
          /\ [d \in ExecId |-> inst[d].line]' =
               [[d \in ExecId |-> inst[d].line] EXCEPT ![e] = r.line]
      BY <3>1, RowWritten
    <3>3. r.status = v /\ r.line = inst[e].line
      BY <2>1 DEF r
    <3>4. QED
      BY <3>2, <3>3
  <2>3. Ledger!Judge(e, v)
    BY <1>2, <2>2 DEF Ledger!Judge, Ledger!Known
  <2>4. QED
    BY <2>3 DEF LedgerStep, Ledger!Next
<1>3. QED
  BY <1>1, <1>2 DEF Update

LEMMA RequestRefines ==
  ASSUME Inv, NEW t \in Task, Run(t) \/ Incr(t) \/ CronFire(t)
  PROVE  LedgerStep
<1>1. \E k \in {"manual", "incr", "cron"}, l \in Line : Insert(Id(t, k), l)
  BY ResolveType DEF Run, Incr, CronFire, Line
<1>2. \A k \in {"manual", "incr", "cron"} : Id(t, k) \in ExecId /\ Id(t, k).kind = k
  BY DEF Inv, Id, ExecId, Kind, TypeInv, TypeOK
<1>3. UNCHANGED <<starts, exits, missed>>
  BY DEF Run, Incr, CronFire, agentVars
<1>4. QED
  BY <1>1, <1>2, <1>3, InsertRequests DEF Inv

LEMMA ClaimRefines ==
  ASSUME Inv, NEW w \in Worker, PollClaim(w)
  PROVE  LedgerStep
<1> DEFINE e == slot[w].exec
<1>1. e \in ExecId /\ inst[e].status # "absent" /\ UNCHANGED <<starts, exits>>
  BY ClaimEffect DEF PollClaim, Inv, TypeInv, Busy
<1>2. CASE UNCHANGED missed /\ inst' = [inst EXCEPT ![e] = Written(e, "Running", slot[w].node)]
  <2>1. Update(e, "Running", slot[w].node)
    BY DEF PollClaim
  <2>2. QED
    BY <1>1, <1>2, <2>1, UpdateJudges DEF Inv
<1>3. CASE missed' = [missed EXCEPT ![e] = @ + 1] /\ UNCHANGED inst
  <2>1. Ledger!Miss(e)
    BY <1>1, <1>3 DEF Ledger!Miss, Ledger!Known
  <2>2. QED
    BY <1>1, <2>1 DEF LedgerStep, Ledger!Next
<1>4. QED
  BY <1>2, <1>3, ClaimEffect DEF Inv

LEMMA ReplyRefines ==
  ASSUME Inv, NEW w \in Worker, PollReply(w)
  PROVE  LedgerStep
<1>1. PICK e \in ExecId :
        /\ inst[e].status # "absent"
        /\ e.task \in Bound => starts[e] <= missed[e]
        /\ starts' = [starts EXCEPT ![e] = @ + 1]
        /\ UNCHANGED <<inst, exits, missed>>
  BY ReplyEffect, InvParts
<1>2. Ledger!Start(e)
  BY <1>1 DEF Ledger!Start, Ledger!Known
<1>3. QED
  BY <1>2 DEF LedgerStep, Ledger!Next

LEMMA ExitRefines ==
  ASSUME Inv, NEW x \in Executor, NEW c \in ExitCode, ScriptExits(x, c)
  PROVE  LedgerStep
<1>1. job[x].exec \in ExecId /\ starts[job[x].exec] > 0
  BY DEF ScriptExits, Inv, TypeInv, Busy
<1>2. Ledger!Exit(job[x].exec, c)
  BY <1>1 DEF ScriptExits, Ledger!Exit
<1>3. QED
  BY <1>1, <1>2 DEF LedgerStep, Ledger!Next

LEMMA CbUpdateRefines ==
  ASSUME Inv, NEW w \in Worker, CbUpdate(w)
  PROVE  LedgerStep
<1> DEFINE e == slot[w].exec
           v == Verdict(slot[w].exit)
<1>1. slot[w].op = "cbUpdate" /\ e \in ExecId /\ inst[e].status # "absent"
  BY DEF CbUpdate, Inv, TypeInv, Busy
<1>2. v \in {"Success", "Failed"} /\ (v = "Success" => 0 \in exits[e])
  BY <1>1 DEF Verdict, Inv, Caused, SlotsCaused, SlotCaused
<1>3. UNCHANGED <<starts, exits, missed>> /\ (Update(e, v, inst[e].node) \/ UNCHANGED inst)
  BY DEF CbUpdate, agentVars
<1>4. QED
  BY <1>1, <1>2, <1>3, UpdateJudges, NoLedgerChange DEF Inv

LEMMA CbSpawnRefines ==
  ASSUME Inv, NEW w \in Worker, CbSpawn(w)
  PROVE  LedgerStep
<1> DEFINE p == slot[w].exec
<1>1. slot[w].op = "cbSpawn" /\ p \in ExecId /\ inst[p].line \in Line
  BY DEF CbSpawn, Inv, TypeInv, TypeOK, Busy, Row
<1>2. 0 \in exits[p] /\ slot[w].kids \subseteq Kids(p, 0)
  BY <1>1 DEF Inv, Caused, SlotsCaused, SlotCaused
<1>3. PICK t \in slot[w].kids :
        IF t \in Enabled THEN Insert(Id(t, "dag"), inst[p].line)
        ELSE UNCHANGED <<inst, dbErrors>>
  BY DEF CbSpawn
<1>4. t \in Task /\ p.kind # "incr" /\ <<inst[p].line, p.task, t>> \in Edges
  BY <1>2 DEF Kids
<1>5. Id(t, "dag") \in ExecId /\ Id(t, "dag").kind = "dag" /\ Id(t, "dag").task = t
  BY <1>4 DEF Id, ExecId, Kind, Inv, TypeInv, TypeOK
<1>6. UNCHANGED <<starts, exits, missed>>
  BY DEF CbSpawn, agentVars
<1>7. CASE t \in Enabled
  BY <1>1, <1>2, <1>3, <1>4, <1>5, <1>6, <1>7, InsertTriggers DEF Inv
<1>8. CASE t \notin Enabled
  BY <1>3, <1>6, <1>8, NoLedgerChange
<1>9. QED
  BY <1>7, <1>8

LEMMA ElapseRefines ==
  ASSUME Inv, NEW e \in ExecId, Elapse(e)
  PROVE  LedgerStep
<1> DEFINE r == [inst[e] EXCEPT !.overdue = TRUE]
<1>1. r.status = inst[e].status /\ r.line = inst[e].line
  BY DEF Inv, TypeInv, TypeOK, Row
<1>2. inst' = [inst EXCEPT ![e] = r] /\ UNCHANGED <<starts, exits, missed>>
  BY DEF Elapse, agentVars
<1>3. \A d \in ExecId : inst'[d].status = inst[d].status /\ inst'[d].line = inst[d].line
  BY <1>1, <1>2 DEF Inv, TypeInv, TypeOK
<1>4. QED
  BY <1>2, <1>3 DEF LedgerStep, Ledger!ledger

LEMMA JudgeRefines ==
  ASSUME Inv, NEW s \in seen, MonitorJudge(s)
  PROVE  LedgerStep
<1>1. s.exec \in ExecId /\ inst[s.exec].status # "absent"
  BY DEF Inv, TypeInv, TypeOK, Busy, Sighting
<1>2. \/ UNCHANGED inst
      \/ \E v \in {"Timeout", "Failed"} : Update(s.exec, v, inst[s.exec].node)
  BY DEF MonitorJudge, Ruling
<1>3. UNCHANGED <<starts, exits, missed>>
  BY DEF MonitorJudge, agentVars
<1>4. QED
  BY <1>1, <1>2, <1>3, UpdateJudges, NoLedgerChange DEF Inv

LEMMA StepRefines ==
  ASSUME Inv, [Next]_vars
  PROVE  LedgerStep
<1>1. CASE UNCHANGED <<inst, starts, exits, missed>>
  BY <1>1, NoLedgerChange
<1>2. QED
  BY <1>1, RequestRefines, ClaimRefines, ReplyRefines, ExitRefines, CbUpdateRefines,
     CbSpawnRefines, ElapseRefines, JudgeRefines
     DEF Next, Poll, Callback, Tick, SendPoll, PollTimeout, PollSelect, PollNone, PollLost,
         SendCallback, LoseCallback, CbNoEdges, MonitorScan, AgentCrash, ManagerCrash,
         agentVars, vars

LEMMA InitRefines == Init => Ledger!Init
BY DEF Init, NoRow, Line, Ledger!Init

(* The table, the starts and the exit codes behave as the ledger promises. *)
THEOREM Refinement == Spec => ImplementsLedger
<1>1. Inv /\ [Next]_vars => [Ledger!Next]_(Ledger!ledger)
  BY StepRefines DEF LedgerStep
<1>2. Spec => []Inv
  <2>1. Spec => [](TypeInv /\ Placed /\ Serial)
    BY SerialInvariant
  <2>2. Spec => []CausedInv
    BY CausedInvariant
  <2>3. TypeInv /\ Placed /\ Serial /\ CausedInv => Inv
    BY DEF Inv, CausedInv
  <2>4. QED
    BY <2>1, <2>2, <2>3, PTL
<1>3. QED
  BY <1>1, <1>2, InitRefines, PTL DEF Spec, ImplementsLedger, Ledger!Spec
===============================================================================
