---------------------------- MODULE UserAdminProofs ----------------------------
(* Proofs about UserAdmin, for any users, workers, roles and bounds.        *)
EXTENDS UserAdmin, TLAPS

(* An administrator can only go by a request that was allowed to another    *)
(* one, who is still an administrator unless the request is stale.          *)
AskedByAdmin ==
  \A w \in Worker : slot[w].op # "idle" /\ ~slot[w].stale => slot[w].by \in Admins

(* Nobody disables or deletes herself; a request has a requester and is     *)
(* about a user.                                                            *)
WellAsked ==
  \A w \in Worker : slot[w].op # "idle" =>
    /\ slot[w].by \in User /\ slot[w].target \in User
    /\ slot[w].op \in {"toggle", "delete"} => slot[w].target # slot[w].by

Kept == ~demoted /\ ~overlapped => AskedByAdmin /\ Admins # {}
Inv  == TypeOK /\ WellAsked /\ Kept

LEMMA InitInv == ASSUME Accounts, Init PROVE Inv
<1>1. TypeOK
  BY DEF Accounts, Init, TypeOK, Account, Slot, Idle, Absent, Role, Status
<1>2. WellAsked
  BY DEF Init, WellAsked, Idle
<1>3. Root \in Admins
  BY DEF Accounts, Init, Admins, Admin
<1> QED
  BY <1>1, <1>2, <1>3 DEF Init, Inv, Kept, AskedByAdmin, Idle

(* A step that leaves the table alone and only moves a request on, answers  *)
(* it, or answers them all, keeps the invariant.                            *)
LEMMA MovesOn ==
  ASSUME Inv, UNCHANGED <<users, requests, demoted, overlapped>>,
         slot' \in [Worker -> Slot], dbErrors' \in Nat,
         \A w \in Worker : \/ slot'[w] = Idle
                           \/ /\ slot'[w].op = slot[w].op /\ slot'[w].by = slot[w].by
                              /\ slot'[w].target = slot[w].target
                              /\ slot'[w].stale = slot[w].stale
  PROVE  Inv'
<1>1. TypeOK'
  BY DEF Inv, TypeOK
<1>2. WellAsked'
  BY DEF Inv, WellAsked, Idle
<1>3. Admins' = Admins
  BY DEF Admins
<1>4. Kept'
  BY <1>3 DEF Inv, Kept, AskedByAdmin, Idle
<1> QED
  BY <1>1, <1>2, <1>4 DEF Inv

LEMMA AskKeeps == ASSUME Accounts, Inv, NEW w \in Worker, Ask(w) PROVE Inv'
<1> USE DEF Inv
<1>1. PICK op \in {"create", "put", "toggle", "delete"}, by \in Admins, u \in User, r \in Grants :
        /\ op \in {"toggle", "delete"} => u # by
        /\ slot' = [slot EXCEPT ![w] = [op |-> op, stage |-> "find", by |-> by, target |-> u,
                                        role |-> r, status |-> "active", stale |-> FALSE]]
  BY DEF Ask
<1>2. by \in User /\ r \in Role
  BY DEF Admins, Accounts
<1>3. TypeOK'
  BY <1>1, <1>2 DEF Ask, TypeOK, Slot, Status
<1>4. WellAsked'
  BY <1>1, <1>2 DEF WellAsked, TypeOK
<1>5. Admins' = Admins
  BY DEF Ask, Admins
<1>6. Kept'
  BY <1>1, <1>5 DEF Ask, Kept, AskedByAdmin, TypeOK
<1> QED
  BY <1>3, <1>4, <1>6

LEMMA FindKeeps == ASSUME Inv, NEW w \in Worker, Find(w) PROVE Inv'
<1> DEFINE s == slot[w]
           a == users[s.target]
           st == IF s.op \in {"toggle", "delete"} /\ Admin(a) THEN "count" ELSE "write"
           on == [s EXCEPT !.stage = st, !.status = Flipped(a)]
<1>1. st \in {"count", "write"} /\ Flipped(a) \in Status
  BY DEF Flipped, Status
<1>2. slot \in [Worker -> Slot] /\ s \in Slot
  BY DEF Inv, TypeOK
<1>3. PICK x \in {Idle, on} : slot' = [slot EXCEPT ![w] = x]
  BY DEF Find
<1>4. Idle \in Slot
  BY DEF Idle, Slot, Role, Status
<1>5. /\ on \in Slot
      /\ on.op = s.op /\ on.by = s.by /\ on.target = s.target /\ on.stale = s.stale
  <2> HIDE DEF s, st
  <2>1. s \in Slot /\ st \in {"count", "write"} /\ Flipped(a) \in Status
    BY <1>1, <1>2
  <2> HIDE DEF a
  <2> QED
    BY <2>1 DEF Slot
<1> HIDE DEF on
<1>6. slot' \in [Worker -> Slot]
  BY <1>2, <1>3, <1>4, <1>5
<1>7. \A v \in Worker : \/ slot'[v] = Idle
                        \/ /\ slot'[v].op = slot[v].op /\ slot'[v].by = slot[v].by
                           /\ slot'[v].target = slot[v].target
                           /\ slot'[v].stale = slot[v].stale
  BY <1>2, <1>3, <1>5
<1>8. UNCHANGED <<users, requests, demoted, overlapped>> /\ dbErrors' \in Nat
  BY DEF Find, Reads, Inv, TypeOK
<1> QED
  BY <1>6, <1>7, <1>8, MovesOn

(* The steps that write nothing: a stage more, an answer, or a crash.       *)
LEMMA RestKeeps ==
  ASSUME Inv, NEW w \in Worker, FindFails(w) \/ Count(w) \/ WriteFails(w) \/ Reply(w)
  PROVE  Inv'
<1>1. Idle \in Slot
  BY DEF Idle, Slot, Role, Status
<1>2. /\ UNCHANGED <<users, requests, demoted, overlapped>> /\ dbErrors' \in Nat
      /\ \/ \E s \in {"write", "reply"} : Stage(w, s)
         \/ Answer(w)
         \/ slot' = [v \in Worker |-> Idle]
  BY DEF FindFails, Count, WriteFails, Reply, Reads, DbFails, Inv, TypeOK
<1>3. CASE \E s \in {"write", "reply"} : Stage(w, s)
  <2>1. PICK s \in {"write", "reply"} : slot' = [slot EXCEPT ![w].stage = s]
    BY <1>3 DEF Stage
  <2>2. slot' \in [Worker -> Slot]
    BY <2>1 DEF Inv, TypeOK, Slot
  <2>3. \A v \in Worker : /\ slot'[v].op = slot[v].op /\ slot'[v].by = slot[v].by
                          /\ slot'[v].target = slot[v].target
                          /\ slot'[v].stale = slot[v].stale
    BY <2>1 DEF Inv, TypeOK, Slot
  <2> QED
    BY <1>2, <2>2, <2>3, MovesOn
<1>4. CASE Answer(w)
  <2>1. slot' \in [Worker -> Slot] /\ \A v \in Worker : slot'[v] = Idle \/ slot'[v] = slot[v]
    BY <1>1, <1>4 DEF Answer, Inv, TypeOK
  <2> QED
    BY <1>2, <2>1, MovesOn
<1>5. CASE slot' = [v \in Worker |-> Idle]
  BY <1>1, <1>2, <1>5, MovesOn
<1> QED
  BY <1>2, <1>3, <1>4, <1>5

LEMMA WrittenType ==
  ASSUME NEW s \in Slot, NEW a \in Account PROVE Written(s, a) \in Account
BY DEF Written, Slot, Account, Absent, Role, Status

(* A request keeps everything of its slot but the stage and staleness.      *)
LEMMA WriteSlots ==
  ASSUME TypeOK, NEW w \in Worker, Write(w)
  PROVE  /\ slot' \in [Worker -> Slot]
         /\ \A v \in Worker : slot'[v].op # "idle" =>
              /\ slot'[v].op = slot[v].op
              /\ slot'[v].by = slot[v].by /\ slot'[v].target = slot[v].target
              /\ ~slot'[v].stale => ~slot[v].stale
              /\ v # w /\ Removes(slot[w]) => slot'[v].stale
<1>1. Removes(slot[w]) \in BOOLEAN
  BY DEF Removes, Admin
<1>2. Idle \in Slot /\ Idle.op = "idle"
  BY DEF Idle, Slot, Role, Status
<1>3. slot \in [Worker -> Slot]
  BY DEF TypeOK
<1>4. \A v \in Worker : v # w =>
        slot'[v] = [slot[v] EXCEPT !.stale = @ \/ (Removes(slot[w]) /\ slot[v].op # "idle")]
  BY DEF Write
<1>5. slot'[w] \in {Idle, [slot[w] EXCEPT !.stage = "reply"]}
  BY DEF Write
<1>6. slot' = [v \in Worker |-> slot'[v]]
  BY DEF Write
<1>7. ASSUME NEW v \in Worker
      PROVE  /\ slot'[v] \in Slot
             /\ slot'[v].op # "idle" =>
                  /\ slot'[v].op = slot[v].op
                  /\ slot'[v].by = slot[v].by /\ slot'[v].target = slot[v].target
                  /\ ~slot'[v].stale => ~slot[v].stale
                  /\ v # w /\ Removes(slot[w]) => slot'[v].stale
  <2>1. CASE v = w
    BY <1>2, <1>3, <1>5, <2>1 DEF Slot
  <2>2. CASE v # w
    <3>1. slot'[v] = [slot[v] EXCEPT !.stale = @ \/ (Removes(slot[w]) /\ slot[v].op # "idle")]
      BY <1>4, <2>2
    <3>2. slot[v] \in Slot
      BY <1>3
    <3> HIDE DEF Removes
    <3> QED
      BY <1>1, <2>2, <3>1, <3>2 DEF Slot
  <2> QED
    BY <2>1, <2>2
<1> QED
  BY <1>6, <1>7

LEMMA WriteKeeps == ASSUME Inv, NEW w \in Worker, Write(w) PROVE Inv'
<1> DEFINE s == slot[w]
           a == users[s.target]
<1>1. s \in Slot /\ s.op # "idle" /\ s.by \in User /\ s.target \in User /\ a \in Account
  BY DEF Inv, TypeOK, Write, WellAsked
<1>2. users' = [users EXCEPT ![s.target] = Written(s, a)]
  BY DEF Write
<1>3. TypeOK'
  <2>1. users' \in [User -> Account]
    BY <1>1, <1>2, WrittenType DEF Inv, TypeOK
  <2>2. demoted' \in BOOLEAN /\ overlapped' \in BOOLEAN /\ requests' \in Nat /\ dbErrors' \in Nat
    BY DEF Write, Inv, TypeOK
  <2> QED
    BY <2>1, <2>2, WriteSlots DEF Inv, TypeOK
<1>4. WellAsked'
  BY WriteSlots DEF Inv, WellAsked
<1>5. CASE ~Removes(s)
  <2>1. Admins \subseteq Admins'
    BY <1>1, <1>2, <1>5 DEF Removes, Admins, Inv, TypeOK
  <2>2. ~demoted' /\ ~overlapped' => ~demoted /\ ~overlapped
    BY DEF Write, Inv, TypeOK
  <2>3. Kept'
    BY <2>1, <2>2, WriteSlots DEF Inv, Kept, AskedByAdmin
  <2> QED
    BY <1>3, <1>4, <2>3 DEF Inv
<1>6. CASE Removes(s)
  <2> SUFFICES ASSUME ~demoted', ~overlapped'
               PROVE  AskedByAdmin' /\ Admins' # {}
    BY <1>3, <1>4 DEF Inv, Kept
  <2>1. ~demoted /\ ~overlapped /\ ~s.stale /\ ~(s.op = "put" /\ s.target = s.by)
    BY <1>6 DEF Write
  <2>2. s.by \in Admins
    BY <1>1, <2>1 DEF Inv, Kept, AskedByAdmin
  <2>3. s.target # s.by
    <3>1. s.op # "create"
      BY <1>1, <1>6 DEF Removes, Written, Admin
    <3> QED
      BY <1>1, <2>1, <3>1 DEF Inv, WellAsked, Slot
  <2>4. s.by \in Admins'
    BY <1>1, <1>2, <2>2, <2>3 DEF Admins, Inv, TypeOK
  <2>5. AskedByAdmin'
    BY <1>6, <2>4, WriteSlots DEF Inv, AskedByAdmin
  <2> QED
    BY <2>4, <2>5
<1> QED
  BY <1>5, <1>6

(* The manager's promise that one enabled administrator is kept holds as    *)
(* long as none takes the role from herself and no removal overtakes        *)
(* another request between its check and its write; for any number of users *)
(* and workers, with statements that fail and a manager that crashes.       *)
THEOREM AdminIsKept == ASSUME Accounts PROVE Spec => [](TypeOK /\ AdminRemains)
<1>1. Init => Inv
  BY InitInv
<1>2. Inv /\ [Next]_vars => Inv'
  <2> SUFFICES ASSUME Inv, [Next]_vars PROVE Inv'
    OBVIOUS
  <2>1. CASE Next
    BY <2>1, AskKeeps, FindKeeps, RestKeeps, WriteKeeps DEF Next, Step
  <2>2. CASE UNCHANGED vars
    BY <2>2 DEF vars, Inv, TypeOK, WellAsked, Kept, AskedByAdmin, Admins
  <2> QED
    BY <2>1, <2>2
<1>3. Inv => TypeOK /\ AdminRemains
  BY DEF Inv, Kept, AdminRemains, LastAdminKept
<1> QED
  BY <1>1, <1>2, <1>3, PTL DEF Spec
===============================================================================
