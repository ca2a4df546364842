------------------------------ MODULE DataMonitor ------------------------------
(***************************************************************************)
(* Data monitors: the tables ddb_monitor_group, ddb_monitor and            *)
(* ddb_monitor_snapshot, the manager's requests that edit them and ask for *)
(* counts, and the count script, an execution on an agent that brings the  *)
(* monitors in line with the tables of DolphinDB, counts the rows of a day *)
(* in each and stores a snapshot.                                          *)
(*                                                                         *)
(* There are no foreign keys and no transactions: each statement of a      *)
(* request and of the script is a step of its own wherever something can   *)
(* come in between that the following statements would have noticed.       *)
(*                                                                         *)
(* The script's INSERTs name the column group_name, which the tables of    *)
(* older versions have; on tables the manager has made itself they fail,   *)
(* which here are the steps SkipTable, StoreFails and ScriptDies.          *)
(***************************************************************************)
EXTENDS MonitorRules, FiniteSets

CONSTANTS
  Group, Monitor, Table, Database,
  Home,        \* the database of each table
  Category,    \* the group in which the script puts the tables of a database
  AutoId,      \* the monitor id the script makes from a database and a table
  Existing,    \* table ddb_monitor at the beginning
  Forms,       \* what users submit as a monitor
  Dates,       \* the dates counts are asked for
  Imports,     \* what is loaded into trade_calendar, by hand
  Worker,      \* the HTTP worker threads of the manager
  Counter,     \* the executions of the script
  Nothing,
  MaxRequests, \* bound: requests that change the tables
  MaxDdl,      \* bound: tables created and dropped in DolphinDB
  MaxFaults    \* bound: failed statements and queries, killed scripts, crashes

Config == [table : Table, group : Group, enabled : BOOLEAN, freq : Frequency]

(* A row of ddb_monitor_snapshot; 1 stands for every number of rows but 0. *)
Shot   == [rows : {-1, 0, 1}, status : {"success", "zero", "failed"}]
Failed == [rows |-> -1, status |-> "failed"]

ASSUME Setting ==
  /\ Home \in [Table -> Database] /\ Category \in [Database -> Group]
  /\ AutoId \in [Table -> Monitor]
  /\ Existing \in [Monitor -> Config \cup {Nothing}]
  /\ Forms \subseteq Config
  /\ Dates \subseteq Day /\ Imports \subseteq SUBSET Day
  /\ Nothing \notin Config \cup Group \cup Monitor \cup Table \cup Shot
  /\ MaxRequests \in Nat /\ MaxDdl \in Nat /\ MaxFaults \in Nat

(* The exchange trades on workdays only, and the days go on until the week  *)
(* and the month of every date are over, so far as rows are expected there. *)
ASSUME Trading ==
  /\ \A days \in Imports : \A e \in days : Workday(e)
  /\ \A d \in Dates : /\ \E e \in Day : Week(e) = Week(d) /\ Weekday(e) = Friday
                      /\ \E e \in Day : Month[e] = Month[d] /\ Workday(e)

(* A request that has made its checks and has a statement left. *)
Slot == [op : {"idle", "insert", "update", "dropRow", "dropGroup", "patched"},
         id : Monitor \cup {Nothing}, group : Group \cup {Nothing},
         form : Config \cup {Nothing}]
Idle == [op |-> "idle", id |-> Nothing, group |-> Nothing, form |-> Nothing]

(* What the script holds. *)
Exits  == {"exit0", "exit1", "exit2"}
Script == [pc : {"none", "discover", "existing", "list", "stale", "dropShots", "dropRows",
                 "upsert", "insert", "load", "connect", "count", "noSession", "store"} \cup Exits,
           only   : Monitor \cup {Nothing},          \* --monitor-id, or all
           dates  : SUBSET Dates,
           found  : SUBSET Database,                 \* databases still to be listed
           lost   : SUBSET Database,                 \* with monitors, but not discovered
           db     : Database \cup {Nothing},
           tables : SUBSET Table,                    \* of db, still to be entered
           table  : Table \cup {Nothing},            \* being entered
           stale  : SUBSET Monitor,                  \* of db, to be deleted
           loaded : [Monitor -> Config \cup {Nothing}],
           left   : SUBSET (Dates \X Monitor),       \* still to be counted
           item   : (Dates \X Monitor) \cup {Nothing}, \* being counted
           shot   : Shot]                            \* about to be stored
Unused == [pc |-> "none", only |-> Nothing, dates |-> {}, found |-> {}, lost |-> {},
           db |-> Nothing, tables |-> {}, table |-> Nothing, stale |-> {},
           loaded |-> [m \in Monitor |-> Nothing], left |-> {}, item |-> Nothing, shot |-> Failed]

VARIABLES
  groups, monitors, snaps, calendar,   \* the tables of MySQL
  live,                                \* the tables of DolphinDB
  slot, script,
  requests, ddl, faults,
  raced,    \* history: groups whose deletion overlapped with a write of a member
  gone,     \* history: tables missing at some time since the script began
  removed,  \* history: monitors whose snapshots went since the script loaded them
  touched   \* history: monitors whose expected days may have changed

tables   == <<groups, monitors, snaps>>
bounds   == <<requests, ddl, faults>>
history  == <<raced, gone, removed, touched>>
vars     == <<groups, monitors, snaps, calendar, live, slot, script, requests, ddl, faults,
              raced, gone, removed, touched>>

TypeOK ==
  /\ groups \in [Group -> {"absent", "enabled", "disabled"}]
  /\ monitors \in [Monitor -> Config \cup {Nothing}]
  /\ snaps \in [Monitor -> [Dates -> Shot \cup {Nothing}]]
  /\ calendar \subseteq Day /\ live \subseteq Table
  /\ slot \in [Worker -> Slot] /\ script \in [Counter -> Script]
  /\ requests \in 0..MaxRequests /\ ddl \in 0..MaxDdl /\ faults \in 0..MaxFaults
  /\ raced \subseteq Group /\ touched \subseteq Monitor
  /\ gone \in [Counter -> SUBSET Table] /\ removed \in [Counter -> SUBSET Monitor]

NoShots == [d \in Dates |-> Nothing]

Init ==
  /\ groups = [g \in Group |-> "enabled"]
  /\ monitors = Existing
  /\ snaps = [m \in Monitor |-> NoShots]
  /\ calendar \in {{}} \cup Imports
  /\ live \in SUBSET Table
  /\ slot = [w \in Worker |-> Idle] /\ script = [c \in Counter |-> Unused]
  /\ requests = 0 /\ ddl = 0 /\ faults = 0
  /\ raced = {} /\ touched = {}
  /\ gone = [c \in Counter |-> {}] /\ removed = [c \in Counter |-> {}]

-------------------------------------------------------------------------------
Fault   == faults < MaxFaults /\ faults' = faults + 1
Request == requests < MaxRequests /\ requests' = requests + 1 /\ UNCHANGED <<ddl, faults>>

There(m) == monitors[m] # Nothing

(* Deletions of a group that have counted its members, and writers of a     *)
(* monitor that have seen the group.                                        *)
Dropping(g) == \E w \in Worker : slot[w].op = "dropGroup" /\ slot[w].group = g
Joining(g)  == \/ \E w \in Worker : slot[w].op \in {"insert", "update"} /\ slot[w].form.group = g
               \/ \E c \in Counter : script[c].pc = "insert" /\ Category[script[c].db] = g
Joined(g)   == raced' = raced \cup {h \in {g} : Dropping(h)}

(* The snapshots of the monitors S are deleted. *)
Counting  == {"connect", "count", "noSession", "store"}
Cleared(S) ==
  /\ snaps' = [m \in Monitor |-> IF m \in S THEN NoShots ELSE snaps[m]]
  /\ removed' = [c \in Counter |-> IF script[c].pc \in Counting THEN removed[c] \cup S
                                                                 ELSE removed[c]]

-------------------------------------------------------------------------------
(* Requests.                                                                *)

Begin(w, s) == slot[w].op = "idle" /\ slot' = [slot EXCEPT ![w] = s]
End(w)      == slot' = [slot EXCEPT ![w] = Idle]

(* The primary key settles a race of two. *)
CreateGroup(w, g) ==
  /\ slot[w].op = "idle" /\ groups[g] = "absent" /\ Request
  /\ \E on \in {"enabled", "disabled"} : groups' = [groups EXCEPT ![g] = on]
  /\ UNCHANGED <<monitors, snaps, calendar, live, slot, script, history>>

(* After its UPDATE the request reads the group again. *)
PatchGroup(w, g) ==
  /\ groups[g] # "absent" /\ Request
  /\ \E on \in {"enabled", "disabled"} : groups' = [groups EXCEPT ![g] = on]
  /\ Begin(w, [Idle EXCEPT !.op = "patched", !.group = g])
  /\ UNCHANGED <<monitors, snaps, calendar, live, script, history>>

(* Where the group is gone, the first of no rows is whatever the memory     *)
(* holds, or the end of the manager with all its requests.                  *)
PatchReply(w) ==
  /\ slot[w].op = "patched"
  /\ \/ End(w)
     \/ groups[slot[w].group] = "absent" /\ slot' = [v \in Worker |-> Idle]
  /\ UNCHANGED <<tables, calendar, live, script, bounds, history>>

(* Mutant: monitors that are disabled are not counted. *)
CountMembersEnabled(w, g) ==
  /\ groups[g] # "absent" /\ requests < MaxRequests /\ requests' = requests + 1
  /\ \/ /\ \A m \in Monitor : There(m) => monitors[m].group # g \/ ~monitors[m].enabled
        /\ UNCHANGED <<faults, raced>>
     \/ Fault /\ raced' = raced \cup {g}
  /\ Begin(w, [Idle EXCEPT !.op = "dropGroup", !.group = g])
  /\ UNCHANGED <<tables, calendar, live, script, ddl, gone, removed, touched>>

(* A count that fails is 0. *)
CountMembers(w, g) ==
  /\ groups[g] # "absent" /\ requests < MaxRequests /\ requests' = requests + 1
  /\ \/ /\ \A m \in Monitor : There(m) => monitors[m].group # g
        /\ UNCHANGED <<faults, raced>>
     \/ Fault /\ raced' = raced \cup {g}
  /\ Begin(w, [Idle EXCEPT !.op = "dropGroup", !.group = g])
  /\ UNCHANGED <<tables, calendar, live, script, ddl, gone, removed, touched>>

DropGroup(w) ==
  LET g == slot[w].group IN
  /\ slot[w].op = "dropGroup"
  /\ groups' = [groups EXCEPT ![g] = "absent"]
  /\ raced' = raced \cup {h \in {g} : Joining(h)}
  /\ End(w)
  /\ UNCHANGED <<monitors, snaps, calendar, live, script, bounds, gone, removed, touched>>

CheckNew(w, m, f) ==
  /\ groups[f.group] = "enabled" /\ ~There(m) /\ Request
  /\ Begin(w, [Idle EXCEPT !.op = "insert", !.id = m, !.form = f])
  /\ UNCHANGED <<tables, calendar, live, script, history>>

InsertMonitor(w) ==
  LET s == slot[w] IN
  /\ s.op = "insert"
  /\ \/ ~There(s.id) /\ monitors' = [monitors EXCEPT ![s.id] = s.form] /\ Joined(s.form.group)
     \/ There(s.id) /\ UNCHANGED <<monitors, raced>>
  /\ End(w)
  /\ UNCHANGED <<groups, snaps, calendar, live, script, bounds, gone, removed, touched>>

(* A group that is only disabled may be chosen here. *)
CheckEdit(w, m, f) ==
  /\ groups[f.group] # "absent" /\ There(m) /\ Request
  /\ Begin(w, [Idle EXCEPT !.op = "update", !.id = m, !.form = f])
  /\ UNCHANGED <<tables, calendar, live, script, history>>

UpdateMonitor(w) ==
  LET s == slot[w] IN
  /\ s.op = "update"
  /\ \/ /\ There(s.id) /\ monitors' = [monitors EXCEPT ![s.id] = s.form]
        /\ touched' = touched \cup {m \in {s.id} : monitors[m].freq # s.form.freq}
        /\ Joined(s.form.group)
     \/ ~There(s.id) /\ UNCHANGED <<monitors, touched, raced>>
  /\ End(w)
  /\ UNCHANGED <<groups, snaps, calendar, live, script, bounds, gone, removed>>

SetEnabled(w, m) ==
  /\ slot[w].op = "idle" /\ There(m) /\ Request
  /\ \E on \in BOOLEAN : monitors' = [monitors EXCEPT ![m].enabled = on]
  /\ UNCHANGED <<groups, snaps, calendar, live, slot, script, history>>

(* The result of the first DELETE is not looked at. *)
DeleteShots(w, m) ==
  /\ There(m) /\ requests < MaxRequests /\ requests' = requests + 1
  /\ \/ Cleared({m}) /\ UNCHANGED faults
     \/ Fault /\ UNCHANGED <<snaps, removed>>
  /\ Begin(w, [Idle EXCEPT !.op = "dropRow", !.id = m])
  /\ UNCHANGED <<groups, monitors, calendar, live, script, ddl, raced, gone, touched>>

DeleteMonitor(w) ==
  /\ slot[w].op = "dropRow"
  /\ monitors' = [monitors EXCEPT ![slot[w].id] = Nothing]
  /\ touched' = touched \cup {slot[w].id}
  /\ End(w)
  /\ UNCHANGED <<groups, snaps, calendar, live, script, bounds, raced, gone, removed>>

(* The last statement of a request fails, or the manager crashes. *)
RequestsEnd(w) ==
  /\ slot[w].op # "idle" /\ Fault
  /\ End(w) \/ slot' = [v \in Worker |-> Idle]
  /\ UNCHANGED <<tables, calendar, live, script, requests, ddl, history>>

-------------------------------------------------------------------------------
(* Executions.                                                              *)

Start(c, pc, only, dates) ==
  /\ script[c].pc = "none"
  /\ script' = [script EXCEPT ![c] = [Unused EXCEPT !.pc = pc, !.only = only, !.dates = dates]]
  /\ UNCHANGED <<tables, calendar, live, slot, bounds, raced, removed, touched>>

(* An execution whose parameters have sync_monitors synchronises first.     *)
SyncAndCount(c) ==
  /\ \E days \in (SUBSET Dates) \ {{}} : Start(c, "discover", Nothing, days)
  /\ gone' = [gone EXCEPT ![c] = Table \ live]

(* Those of the schedule as it is installed, and those that recount and     *)
(* recount-batch ask for, do not.                                           *)
CountAll(c) ==
  /\ \E days \in (SUBSET Dates) \ {{}} : Start(c, "load", Nothing, days)
  /\ UNCHANGED gone

Recount(c, m) ==
  /\ There(m) /\ monitors[m].enabled
  /\ \E d \in Dates : Start(c, "load", m, {d})
  /\ UNCHANGED gone

-------------------------------------------------------------------------------
(* The script: first the monitors.                                          *)

At(c, pc) == script[c].pc = pc
On(c, s)  == script' = [script EXCEPT ![c] = s]
Goes(c, pc) == On(c, [script[c] EXCEPT !.pc = pc])
OnlyScript == UNCHANGED <<tables, calendar, live, slot, bounds, history>>

(* A database may be without tables. *)
Discover(c) ==
  /\ At(c, "discover")
  /\ \E dbs \in SUBSET Database :
       /\ {Home[t] : t \in live} \subseteq dbs
       /\ On(c, [script[c] EXCEPT !.pc = "existing", !.found = dbs])
  /\ OnlyScript

FindLost(c) ==
  /\ At(c, "existing")
  /\ On(c, [script[c] EXCEPT !.pc = "list",
       !.lost = {Home[monitors[m].table] : m \in {n \in Monitor : There(n)}} \ script[c].found])
  /\ OnlyScript

ListTables(c) ==
  /\ At(c, "list")
  /\ \E db \in script[c].found :
       On(c, [script[c] EXCEPT !.pc = "stale", !.found = @ \ {db}, !.db = db,
                               !.tables = {t \in live : Home[t] = db}])
  /\ OnlyScript

(* Mutant: a database whose tables cannot be listed is taken to have none. *)
ListFailsEmpty(c) ==
  /\ At(c, "list") /\ Fault
  /\ \E db \in script[c].found :
       On(c, [script[c] EXCEPT !.pc = "stale", !.found = @ \ {db}, !.db = db])
  /\ UNCHANGED <<tables, calendar, live, slot, requests, ddl, history>>

(* A database whose tables cannot be listed is left as it is. *)
ListFails(c) ==
  /\ At(c, "list") /\ Fault
  /\ \E db \in script[c].found : On(c, [script[c] EXCEPT !.found = @ \ {db}])
  /\ UNCHANGED <<tables, calendar, live, slot, requests, ddl, history>>

TakeLost(c) ==
  /\ At(c, "list") /\ script[c].found = {}
  /\ \E db \in script[c].lost :
       On(c, [script[c] EXCEPT !.pc = "stale", !.lost = @ \ {db}, !.db = db,
                               !.tables = {}])
  /\ OnlyScript

SyncDone(c) ==
  /\ At(c, "list") /\ script[c].found = {} /\ script[c].lost = {}
  /\ Goes(c, "load") /\ gone' = [gone EXCEPT ![c] = {}]
  /\ UNCHANGED <<tables, calendar, live, slot, bounds, raced, removed, touched>>

SelectStale(c) ==
  LET s == script[c]
      ids == {m \in Monitor : There(m) /\ Home[monitors[m].table] = s.db
                                       /\ monitors[m].table \notin s.tables}
  IN  /\ At(c, "stale")
      /\ On(c, [s EXCEPT !.pc = IF ids = {} THEN "upsert" ELSE "dropShots", !.stale = ids])
      /\ OnlyScript

DropShots(c) ==
  /\ At(c, "dropShots") /\ Cleared(script[c].stale) /\ Goes(c, "dropRows")
  /\ UNCHANGED <<groups, monitors, calendar, live, slot, bounds, raced, gone, touched>>

DropRows(c) ==
  LET S == script[c].stale IN
  /\ At(c, "dropRows")
  /\ monitors' = [m \in Monitor |-> IF m \in S THEN Nothing ELSE monitors[m]]
  /\ touched' = touched \cup S
  /\ On(c, [script[c] EXCEPT !.pc = "upsert", !.stale = {}])
  /\ UNCHANGED <<groups, snaps, calendar, live, slot, bounds, raced, gone, removed>>

(* The columns of the table are read, and the group is entered unless it is *)
(* there, enabled or not.                                                   *)
EnsureGroup(c) ==
  LET g == Category[script[c].db] IN
  /\ At(c, "upsert")
  /\ \E t \in script[c].tables \cap live :
       On(c, [script[c] EXCEPT !.pc = "insert", !.tables = @ \ {t}, !.table = t])
  /\ groups' = [groups EXCEPT ![g] = IF @ = "absent" THEN "enabled" ELSE @]
  /\ UNCHANGED <<monitors, snaps, calendar, live, slot, bounds, history>>

(* A monitor that is there keeps its frequency and whether it is enabled.   *)
Entered(m, t) ==
  IF There(m) THEN [monitors[m] EXCEPT !.table = t, !.group = Category[Home[t]]]
  ELSE [table |-> t, group |-> Category[Home[t]], enabled |-> TRUE, freq |-> "daily"]

UpsertMonitor(c) ==
  LET t == script[c].table IN
  /\ At(c, "insert")
  /\ monitors' = [monitors EXCEPT ![AutoId[t]] = Entered(AutoId[t], t)]
  /\ Joined(Category[script[c].db])
  /\ On(c, [script[c] EXCEPT !.pc = "upsert", !.table = Nothing])
  /\ UNCHANGED <<groups, snaps, calendar, live, slot, bounds, gone, removed, touched>>

(* A table dropped since, one without a column of dates, or one for which a *)
(* statement fails, is skipped.                                             *)
SkipTable(c) ==
  /\ \/ /\ At(c, "upsert") /\ UNCHANGED faults
        /\ \E t \in script[c].tables : On(c, [script[c] EXCEPT !.tables = @ \ {t}])
     \/ /\ At(c, "insert") /\ Fault
        /\ On(c, [script[c] EXCEPT !.pc = "upsert", !.table = Nothing])
  /\ UNCHANGED <<tables, calendar, live, slot, requests, ddl, history>>

NextDatabase(c) ==
  /\ At(c, "upsert") /\ script[c].tables = {}
  /\ On(c, [script[c] EXCEPT !.pc = "list", !.db = Nothing])
  /\ OnlyScript

-------------------------------------------------------------------------------
(* The script: then the counts.                                             *)

LoadMonitors(c) ==
  LET wanted(m) == /\ There(m) /\ monitors[m].enabled /\ groups[monitors[m].group] = "enabled"
                   /\ script[c].only \in {Nothing, m}
      now == [m \in Monitor |-> IF wanted(m) THEN monitors[m] ELSE Nothing]
  IN  /\ At(c, "load")
      /\ IF \E m \in Monitor : wanted(m)
         THEN On(c, [script[c] EXCEPT !.pc = "connect", !.loaded = now,
                       !.left = script[c].dates \X {m \in Monitor : wanted(m)}])
         ELSE On(c, [Unused EXCEPT !.pc = "exit2"])
      /\ OnlyScript

Connect(c) == At(c, "connect") /\ Goes(c, "count") /\ OnlyScript

ConnectFails(c) ==
  /\ At(c, "connect") /\ Fault /\ Goes(c, "noSession")
  /\ UNCHANGED <<tables, calendar, live, slot, requests, ddl, history>>

(* The next date and monitor. *)
Turn(c, p) == p \in script[c].left /\ \A q \in script[c].left : p[1] <= q[1]

(* Mutant: a missing table has a status of its own. *)
MeasuredMissing(c, d, m) ==
  LET f == script[c].loaded[m] IN
  IF f.table \in live
  THEN {[rows |-> n, status |-> CountStatus(n, IsExpected(calendar, d, f.freq))] : n \in {0, 1}}
  ELSE {[rows |-> -1, status |-> "missing"]}

(* A table that is missing, or a query that fails, is a failed count. *)
Measured(c, d, m) ==
  LET f == script[c].loaded[m] IN
  IF f.table \in live
  THEN {[rows |-> n, status |-> CountStatus(n, IsExpected(calendar, d, f.freq))] : n \in {0, 1}}
  ELSE {Failed}

Counts(c, p, n) == On(c, [script[c] EXCEPT !.pc = "store", !.item = p, !.shot = n])

CountRows(c) ==
  /\ At(c, "count")
  /\ \E p \in script[c].left :
       Turn(c, p) /\ \E n \in Measured(c, p[1], p[2]) : Counts(c, p, n)
  /\ OnlyScript

CountFails(c) ==
  /\ At(c, "count") /\ Fault
  /\ \E p \in script[c].left : Turn(c, p) /\ Counts(c, p, Failed)
  /\ UNCHANGED <<tables, calendar, live, slot, requests, ddl, history>>

Stored(p, n) == snaps' = [snaps EXCEPT ![p[2]][p[1]] = n]

(* Whatever has become of the monitor since. *)
StoreShot(c) ==
  LET s == script[c] IN
  /\ At(c, "store") /\ Stored(s.item, s.shot)
  /\ On(c, [s EXCEPT !.pc = "count", !.left = @ \ {s.item}, !.item = Nothing, !.shot = Failed])
  /\ UNCHANGED <<groups, monitors, calendar, live, slot, bounds, history>>

(* Mutant: a snapshot that cannot be stored is only logged. *)
StoreFailsLogged(c) ==
  /\ At(c, "store") /\ script[c].shot # Failed /\ Fault
  /\ On(c, [script[c] EXCEPT !.pc = "count", !.left = @ \ {script[c].item}, !.item = Nothing])
  /\ UNCHANGED <<tables, calendar, live, slot, requests, ddl, history>>

(* A snapshot that cannot be stored is tried once more, as a failed count.  *)
StoreFails(c) ==
  /\ At(c, "store") /\ script[c].shot # Failed /\ Fault
  /\ On(c, [script[c] EXCEPT !.shot = Failed])
  /\ UNCHANGED <<tables, calendar, live, slot, requests, ddl, history>>

(* Without a session every count is stored as failed. *)
StoreNoSession(c) ==
  /\ At(c, "noSession")
  /\ \E p \in script[c].left :
       Turn(c, p) /\ Stored(p, Failed) /\ On(c, [script[c] EXCEPT !.left = @ \ {p}])
  /\ UNCHANGED <<groups, monitors, calendar, live, slot, bounds, history>>

CountsDone(c) ==
  /\ script[c].pc \in {"count", "noSession"} /\ script[c].left = {}
  /\ On(c, [Unused EXCEPT !.pc = "exit0"])
  /\ removed' = [removed EXCEPT ![c] = {}]
  /\ UNCHANGED <<tables, calendar, live, slot, bounds, raced, gone, touched>>

(* An exception nothing handles, or the agent kills the script.             *)
ScriptDies(c) ==
  /\ script[c].pc \notin {"none"} \cup Exits /\ Fault
  /\ On(c, [Unused EXCEPT !.pc = "exit1"])
  /\ gone' = [gone EXCEPT ![c] = {}] /\ removed' = [removed EXCEPT ![c] = {}]
  /\ UNCHANGED <<tables, calendar, live, slot, requests, ddl, raced, touched>>

-------------------------------------------------------------------------------
(* What happens outside.                                                    *)

ImportCalendar ==
  /\ \E days \in Imports : ~(days \subseteq calendar) /\ calendar' = calendar \cup days
  /\ touched' = Monitor
  /\ UNCHANGED <<tables, live, slot, script, bounds, raced, gone, removed>>

Ddl == ddl < MaxDdl /\ ddl' = ddl + 1 /\ UNCHANGED <<requests, faults>>

CreateTable(t) ==
  /\ t \notin live /\ Ddl /\ live' = live \cup {t}
  /\ UNCHANGED <<tables, calendar, slot, script, history>>

Syncing == {"discover", "existing", "list", "stale", "dropShots", "dropRows", "upsert", "insert"}
DropTable(t) ==
  /\ t \in live /\ Ddl /\ live' = live \ {t}
  /\ gone' = [c \in Counter |-> IF script[c].pc \in Syncing THEN gone[c] \cup {t} ELSE gone[c]]
  /\ UNCHANGED <<tables, calendar, slot, script, raced, removed, touched>>

RequestStep(w) ==
  \/ \E g \in Group : CreateGroup(w, g) \/ PatchGroup(w, g) \/ CountMembers(w, g)
  \/ \E m \in Monitor : SetEnabled(w, m) \/ DeleteShots(w, m)
  \/ \E m \in Monitor, f \in Forms : CheckNew(w, m, f) \/ CheckEdit(w, m, f)
  \/ PatchReply(w) \/ DropGroup(w) \/ InsertMonitor(w) \/ UpdateMonitor(w)
  \/ DeleteMonitor(w) \/ RequestsEnd(w)

Begins(c) == SyncAndCount(c) \/ CountAll(c) \/ \E m \in Monitor : Recount(c, m)

SyncStep(c) ==
  \/ Discover(c) \/ FindLost(c) \/ ListTables(c) \/ ListFails(c) \/ TakeLost(c) \/ SyncDone(c)
  \/ SelectStale(c) \/ DropShots(c) \/ DropRows(c)
  \/ EnsureGroup(c) \/ UpsertMonitor(c) \/ SkipTable(c) \/ NextDatabase(c)

CountStep(c) ==
  \/ LoadMonitors(c) \/ Connect(c) \/ ConnectFails(c) \/ CountRows(c) \/ CountFails(c)
  \/ StoreShot(c) \/ StoreFails(c) \/ StoreNoSession(c) \/ CountsDone(c)

Outside == ImportCalendar \/ \E t \in Table : CreateTable(t) \/ DropTable(t)

Next ==
  \/ \E w \in Worker : RequestStep(w)
  \/ \E c \in Counter : Begins(c) \/ SyncStep(c) \/ CountStep(c) \/ ScriptDies(c)
  \/ Outside

Spec == Init /\ [][Next]_vars

-------------------------------------------------------------------------------
(* A count that ends well has left nothing out: every monitor it loaded has *)
(* a snapshot of every date, be it a failed one, unless the monitor's       *)
(* snapshots were deleted meanwhile.  Whatever fails on the way.            *)
CountComplete ==
  [][\A c \in Counter : ~At(c, "exit0") /\ script'[c].pc = "exit0" =>
       \A m \in Monitor, d \in script[c].dates :
         script[c].loaded[m] # Nothing => snaps[m][d] # Nothing \/ m \in removed[c]]_vars

(* "A failed table listing is not treated as deletion": the script picks a  *)
(* monitor for deletion only when its table was missing at some time since  *)
(* the script began, and a monitor only goes when it was picked or a user   *)
(* deletes it.                                                              *)
OnlyGoneRemoved ==
  [][/\ \A c \in Counter : \A m \in script'[c].stale \ script[c].stale :
          There(m) /\ monitors[m].table \in gone[c]
     /\ \A m \in Monitor : There(m) /\ monitors'[m] = Nothing =>
          \/ \E w \in Worker : slot[w].op = "dropRow" /\ slot[w].id = m
          \/ \E c \in Counter : At(c, "dropRows") /\ m \in script[c].stale]_vars

(* The group of a monitor is there, or no count would ever see the monitor: *)
(* unless the group was deleted by a request that overlapped with the one,  *)
(* or the script, that put the monitor into it, or whose count failed.      *)
GroupKept ==
  \A m \in Monitor : There(m) =>
    groups[monitors[m].group] # "absent" \/ monitors[m].group \in raced

(* What a user sees of a day without rows: never an anomaly on a day on     *)
(* which, by the frequency and the calendar of now, no rows are expected;   *)
(* and an anomaly on a day on which they are, unless the monitor or the     *)
(* calendar has changed.                                                    *)
ShownAsExpected ==
  \A m \in Monitor, d \in Dates :
    There(m) /\ snaps[m][d] # Nothing /\ snaps[m][d].rows = 0 =>
      LET due   == IsExpected(calendar, d, monitors[m].freq)
          shown == EffectiveStatus(snaps[m][d].status, 0, due)
      IN  (shown = "zero" => due) /\ (due /\ shown # "zero" => m \in touched)

(* Of the week and of the month of each date exactly one workday is         *)
(* expected to have rows, however much of it is in the calendar.            *)
OneExpected ==
  \A freq \in {"weekly", "monthly"}, d \in Dates :
    Cardinality({e \in Day : /\ Workday(e) /\ SamePeriod(freq, d, e)
                             /\ IsExpected(calendar, e, freq)}) = 1
===============================================================================
