------------------------------- MODULE UserAdmin -------------------------------
(***************************************************************************)
(* The table users and the four requests that change it.  A request is     *)
(* allowed to an enabled administrator; disabling and deleting refuse to   *)
(* touch the requester and to leave no enabled administrator.  What they   *)
(* check they read with statements of their own, before the one that       *)
(* writes, and without a transaction: between two statements of one        *)
(* request come those of others.                                           *)
(***************************************************************************)
EXTENDS Naturals, FiniteSets

CONSTANTS
  User,        \* user ids; a name belongs to one id
  Root,        \* u_admin, inserted when the manager starts
  NoUser,
  Worker,      \* the HTTP worker threads of the manager
  Grants,      \* the roles that POST and PUT requests ask for
  MaxRequests, \* bound: the requests made
  MaxDbErrors  \* bound: how many database statements fail

Role   == {"admin", "other"}          \* other: operator, researcher
Status == {"active", "disabled", "absent"}
(* What the constants stand for. *)
Accounts == Root \in User /\ Grants \subseteq Role

Account == [role : Role, status : Status]
Absent  == [role |-> "other", status |-> "absent"]

(* A request being handled: its requester, the user it is about, the role   *)
(* that put and create, the status that toggle will write.                  *)
Slot == [op : {"idle", "create", "put", "toggle", "delete"},
         stage : {"find", "count", "write", "reply"},
         by : User \cup {NoUser}, target : User \cup {NoUser},
         role : Role, status : Status,
         stale : BOOLEAN]  \* history: an administrator went since it began
Idle == [op |-> "idle", stage |-> "find", by |-> NoUser, target |-> NoUser,
         role |-> "other", status |-> "active", stale |-> FALSE]

VARIABLES
  users,                \* table users
  slot,                 \* the HTTP workers
  requests, dbErrors,
  demoted,              \* history: PUT took the role from its own requester
  overlapped            \* history: a stale request took an administrator away

vars == <<users, slot, requests, dbErrors, demoted, overlapped>>

TypeOK ==
  /\ users \in [User -> Account]
  /\ slot \in [Worker -> Slot]
  /\ requests \in Nat /\ dbErrors \in Nat
  /\ demoted \in BOOLEAN /\ overlapped \in BOOLEAN

Init ==
  /\ users = [u \in User |-> IF u = Root THEN [role |-> "admin", status |-> "active"]
                                         ELSE Absent]
  /\ slot = [w \in Worker |-> Idle]
  /\ requests = 0 /\ dbErrors = 0
  /\ demoted = FALSE /\ overlapped = FALSE

-------------------------------------------------------------------------------
Admin(a) == a.role = "admin" /\ a.status = "active"
Admins   == {u \in User : Admin(users[u])}

DbFails == dbErrors < MaxDbErrors /\ dbErrors' = dbErrors + 1

(* Another statement of the request follows. *)
Stage(w, s) == slot' = [slot EXCEPT ![w].stage = s]
Answer(w)   == slot' = [slot EXCEPT ![w] = Idle]
Reads       == UNCHANGED <<users, requests, demoted, overlapped>>

(* request_is_admin, and the refusal to disable or to delete oneself. *)
Ask(w) ==
  /\ slot[w].op = "idle" /\ requests < MaxRequests
  /\ \E op \in {"create", "put", "toggle", "delete"}, by \in Admins, u \in User, r \in Grants :
       /\ op \in {"toggle", "delete"} => u # by
       /\ slot' = [slot EXCEPT ![w] = [op |-> op, stage |-> "find", by |-> by, target |-> u,
                                       role |-> r, status |-> "active", stale |-> FALSE]]
  /\ requests' = requests + 1
  /\ UNCHANGED <<users, dbErrors, demoted, overlapped>>

(* The row is read: toggle takes the status it will write from it, toggle   *)
(* and delete decide whether the administrators must be counted.            *)
Flipped(a) == IF a.status = "active" THEN "disabled" ELSE "active"
Find(w) ==
  LET s == slot[w]
      a == users[s.target]
      there == a.status # "absent"
  IN  /\ s.op # "idle" /\ s.stage = "find"
      /\ slot' = [slot EXCEPT ![w] =
           IF there = (s.op = "create") THEN Idle
           ELSE [s EXCEPT !.stage = IF s.op \in {"toggle", "delete"} /\ Admin(a)
                                    THEN "count" ELSE "write",
                          !.status = Flipped(a)]]
      /\ Reads /\ UNCHANGED dbErrors

(* A query that fails returns no row: 404, for a new name it is free. *)
FindFails(w) ==
  /\ slot[w].op # "idle" /\ slot[w].stage = "find" /\ DbFails
  /\ IF slot[w].op = "create" THEN Stage(w, "write") ELSE Answer(w)
  /\ Reads

(* A count that fails is 0, and refuses. *)
Count(w) ==
  /\ slot[w].op # "idle" /\ slot[w].stage = "count"
  /\ \/ UNCHANGED dbErrors /\ Cardinality(Admins) > 1 /\ Stage(w, "write")
     \/ UNCHANGED dbErrors /\ Cardinality(Admins) <= 1 /\ Answer(w)
     \/ DbFails /\ Answer(w)
  /\ Reads

(* The row after INSERT (refused by the primary and the unique key when     *)
(* there is one), UPDATE or DELETE ... WHERE user_id (of no row: nothing).  *)
Written(s, a) ==
  CASE s.op = "create" -> IF a.status = "absent" THEN [role |-> s.role, status |-> "active"] ELSE a
    [] a.status = "absent" -> a
    [] s.op = "put"    -> [a EXCEPT !.role = s.role]
    [] s.op = "toggle" -> [a EXCEPT !.status = s.status]
    [] OTHER           -> Absent

Removes(s) == Admin(users[s.target]) /\ ~Admin(Written(s, users[s.target]))

Write(w) ==
  LET s == slot[w] IN
  /\ s.op # "idle" /\ s.stage = "write"
  /\ users' = [users EXCEPT ![s.target] = Written(s, users[s.target])]
  /\ slot' = [v \in Worker |->
       IF v = w
       THEN IF s.op = "delete" \/ (s.op = "create" /\ users[s.target].status # "absent")
            THEN Idle ELSE [s EXCEPT !.stage = "reply"]
       ELSE [slot[v] EXCEPT !.stale = @ \/ (Removes(s) /\ slot[v].op # "idle")]]
  /\ demoted' = (demoted \/ (Removes(s) /\ s.op = "put" /\ s.target = s.by))
  /\ overlapped' = (overlapped \/ (Removes(s) /\ s.stale))
  /\ UNCHANGED <<requests, dbErrors>>

(* toggle does not look at the result of its UPDATE. *)
WriteFails(w) ==
  /\ slot[w].op # "idle" /\ slot[w].stage = "write" /\ DbFails
  /\ IF slot[w].op = "toggle" THEN Stage(w, "reply") ELSE Answer(w)
  /\ Reads

(* The row is read again and its first result used; where there is none,    *)
(* the reply is whatever that memory holds, or the manager crashes.         *)
Reply(w) ==
  /\ slot[w].op # "idle" /\ slot[w].stage = "reply"
  /\ \/ UNCHANGED dbErrors /\ Answer(w)
     \/ /\ \/ UNCHANGED dbErrors /\ users[slot[w].target].status = "absent"
           \/ DbFails
        /\ slot' = [v \in Worker |-> Idle]
  /\ Reads

Step(w) == Ask(w) \/ Find(w) \/ FindFails(w) \/ Count(w) \/ Write(w) \/ WriteFails(w) \/ Reply(w)
Next == \E w \in Worker : Step(w)
Spec == Init /\ [][Next]_vars

-------------------------------------------------------------------------------
(* What the refusals of toggle and delete promise, "at least one enabled    *)
(* administrator is kept": nobody could create, enable or promote an        *)
(* administrator again through the manager.                                 *)
LastAdminKept == Admins # {}

(* Only two things take the last administrator away: an administrator who   *)
(* takes the role from herself by PUT, which has no such refusal, and a     *)
(* request that an administrator's removal by another one has overtaken     *)
(* between its check and its write.  One request after the other, disabling *)
(* and deleting keep the promise.                                           *)
AdminRemains == ~demoted /\ ~overlapped => LastAdminKept
===============================================================================
