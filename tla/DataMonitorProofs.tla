--------------------------- MODULE DataMonitorProofs ---------------------------
(* Proofs about DataMonitor, for any groups, monitors, tables and databases,*)
(* any calendar, and any number of requests and executions.                 *)
EXTENDS DataMonitor, WellOrder, FiniteSetTheorems

(* What a request and the script hold at each of their places.              *)
Shaped(s) ==
  /\ s \in Slot
  /\ s.op \in {"insert", "update"} => s.id \in Monitor /\ s.form \in Config
  /\ s.op = "dropRow" => s.id \in Monitor
  /\ s.op \in {"dropGroup", "patched"} => s.group \in Group

InDatabase == {"stale", "dropShots", "dropRows", "upsert", "insert"}
Placed(s) ==
  /\ s \in Script
  /\ s.pc \in InDatabase => s.db \in Database /\ \A t \in s.tables : Home[t] = s.db
  /\ s.pc = "insert" => s.table \in Table /\ Home[s.table] = s.db
  /\ s.pc = "store" => s.item \in s.left

TablesTyped ==
  /\ groups \in [Group -> {"absent", "enabled", "disabled"}]
  /\ monitors \in [Monitor -> Config \cup {Nothing}]
  /\ snaps \in [Monitor -> [Dates -> Shot \cup {Nothing}]]
  /\ calendar \subseteq Day /\ live \subseteq Table
BoundsTyped == requests \in 0..MaxRequests /\ ddl \in 0..MaxDdl /\ faults \in 0..MaxFaults
HistoryTyped ==
  /\ raced \subseteq Group /\ touched \subseteq Monitor
  /\ gone \in [Counter -> SUBSET Table] /\ removed \in [Counter -> SUBSET Monitor]
SlotsShaped == slot \in [Worker -> Slot] /\ \A w \in Worker : Shaped(slot[w])
ScriptsPlaced == script \in [Counter -> Script] /\ \A c \in Counter : Placed(script[c])

Typed == TablesTyped /\ BoundsTyped /\ HistoryTyped /\ SlotsShaped /\ ScriptsPlaced

LEMMA TypedIsTypeOK == Typed => TypeOK
BY DEF Typed, TablesTyped, BoundsTyped, HistoryTyped, SlotsShaped, ScriptsPlaced, TypeOK

LEMMA IdleShaped == Shaped(Idle)
BY DEF Shaped, Idle, Slot

LEMMA UnusedPlaced == Placed(Unused) /\ Failed \in Shot
BY DEF Placed, Unused, Script, InDatabase, Shot, Failed

LEMMA SlotSet ==
  ASSUME SlotsShaped, NEW w \in Worker, NEW s, Shaped(s), slot' = [slot EXCEPT ![w] = s]
  PROVE  SlotsShaped'
BY DEF SlotsShaped, Shaped

LEMMA SlotEnds ==
  ASSUME SlotsShaped, NEW w \in Worker, End(w) \/ slot' = [v \in Worker |-> Idle]
  PROVE  SlotsShaped'
BY IdleShaped DEF SlotsShaped, Shaped, End

LEMMA ScriptSet ==
  ASSUME ScriptsPlaced, NEW c \in Counter, NEW s, Placed(s), On(c, s)
  PROVE  ScriptsPlaced'
BY DEF ScriptsPlaced, Placed, On

LEMMA SlotSame == ASSUME SlotsShaped, UNCHANGED slot PROVE SlotsShaped'
BY DEF SlotsShaped
LEMMA ScriptSame == ASSUME ScriptsPlaced, UNCHANGED script PROVE ScriptsPlaced'
BY DEF ScriptsPlaced

LEMMA ClearedTyped ==
  ASSUME TablesTyped, HistoryTyped, NEW S \in SUBSET Monitor, Cleared(S)
  PROVE  /\ snaps' \in [Monitor -> [Dates -> Shot \cup {Nothing}]]
         /\ removed' \in [Counter -> SUBSET Monitor]
BY DEF TablesTyped, HistoryTyped, Cleared, NoShots

LEMMA InitTyped == ASSUME Setting, Init PROVE Typed
<1> USE Setting DEF Setting
<1>1. TablesTyped
  BY DEF Init, TablesTyped, NoShots
<1>2. BoundsTyped /\ HistoryTyped
  BY DEF Init, BoundsTyped, HistoryTyped
<1>3. SlotsShaped
  BY IdleShaped DEF Init, SlotsShaped, Shaped
<1>4. ScriptsPlaced
  BY UnusedPlaced DEF Init, ScriptsPlaced, Placed
<1> QED
  BY <1>1, <1>2, <1>3, <1>4 DEF Typed

-------------------------------------------------------------------------------
(* Requests.                                                                *)

LEMMA RequestTyped ==
  ASSUME Setting, Typed, NEW w \in Worker, RequestStep(w)
  PROVE  Typed'
<1> USE Setting DEF Typed, tables, bounds, history
<1>1. ASSUME NEW g \in Group, CreateGroup(w, g) PROVE Typed'
  BY <1>1, SlotSame, ScriptSame
     DEF CreateGroup, Request, TablesTyped, BoundsTyped, HistoryTyped, Setting
<1>2. ASSUME NEW g \in Group, PatchGroup(w, g) PROVE Typed'
  <2>1. Shaped([Idle EXCEPT !.op = "patched", !.group = g])
    BY DEF Shaped, Idle, Slot
  <2>2. SlotsShaped'
    BY <1>2, <2>1, SlotSet DEF PatchGroup, Begin
  <2> QED
    BY <1>2, <2>2, ScriptSame
       DEF PatchGroup, Request, TablesTyped, BoundsTyped, HistoryTyped, Setting
<1>3. ASSUME NEW g \in Group, CountMembers(w, g) PROVE Typed'
  <2>1. Shaped([Idle EXCEPT !.op = "dropGroup", !.group = g])
    BY DEF Shaped, Idle, Slot
  <2>2. SlotsShaped'
    BY <1>3, <2>1, SlotSet DEF CountMembers, Begin
  <2> QED
    BY <1>3, <2>2, ScriptSame
       DEF CountMembers, Fault, TablesTyped, BoundsTyped, HistoryTyped, Setting
<1>4. ASSUME NEW m \in Monitor, SetEnabled(w, m) PROVE Typed'
  <2>1. monitors[m] \in Config
    BY <1>4 DEF SetEnabled, There, TablesTyped
  <2>2. ASSUME NEW on \in BOOLEAN, monitors' = [monitors EXCEPT ![m].enabled = on]
        PROVE  monitors' \in [Monitor -> Config \cup {Nothing}]
    <3>1. [monitors[m] EXCEPT !.enabled = on] \in Config
      BY <2>1 DEF Config
    <3> QED
      BY <2>2, <3>1 DEF TablesTyped
  <2>3. monitors' \in [Monitor -> Config \cup {Nothing}]
    BY <1>4, <2>2 DEF SetEnabled
  <2> QED
    BY <1>4, <2>3, SlotSame, ScriptSame
       DEF SetEnabled, Request, TablesTyped, BoundsTyped, HistoryTyped, Setting
<1>5. ASSUME NEW m \in Monitor, DeleteShots(w, m) PROVE Typed'
  <2>1. Shaped([Idle EXCEPT !.op = "dropRow", !.id = m])
    BY DEF Shaped, Idle, Slot
  <2>2. SlotsShaped'
    BY <1>5, <2>1, SlotSet DEF DeleteShots, Begin
  <2>3. /\ snaps' \in [Monitor -> [Dates -> Shot \cup {Nothing}]]
        /\ removed' \in [Counter -> SUBSET Monitor]
    BY <1>5, ClearedTyped DEF DeleteShots, TablesTyped, HistoryTyped
  <2> QED
    BY <1>5, <2>2, <2>3, ScriptSame
       DEF DeleteShots, Fault, TablesTyped, BoundsTyped, HistoryTyped, Setting
<1>6. ASSUME NEW m \in Monitor, NEW f \in Forms, CheckNew(w, m, f) PROVE Typed'
  <2>1. Shaped([Idle EXCEPT !.op = "insert", !.id = m, !.form = f])
    BY DEF Shaped, Idle, Slot, Setting
  <2>2. SlotsShaped'
    BY <1>6, <2>1, SlotSet DEF CheckNew, Begin
  <2> QED
    BY <1>6, <2>2, ScriptSame
       DEF CheckNew, Request, TablesTyped, BoundsTyped, HistoryTyped, Setting
<1>7. ASSUME NEW m \in Monitor, NEW f \in Forms, CheckEdit(w, m, f) PROVE Typed'
  <2>1. Shaped([Idle EXCEPT !.op = "update", !.id = m, !.form = f])
    BY DEF Shaped, Idle, Slot, Setting
  <2>2. SlotsShaped'
    BY <1>7, <2>1, SlotSet DEF CheckEdit, Begin
  <2> QED
    BY <1>7, <2>2, ScriptSame
       DEF CheckEdit, Request, TablesTyped, BoundsTyped, HistoryTyped, Setting
<1>8. ASSUME PatchReply(w) PROVE Typed'
  <2>1. SlotsShaped'
    BY <1>8, SlotEnds DEF PatchReply
  <2> QED
    BY <1>8, <2>1, ScriptSame DEF PatchReply, TablesTyped, BoundsTyped, HistoryTyped
<1>9. ASSUME DropGroup(w) PROVE Typed'
  <2>1. SlotsShaped'
    BY <1>9, SlotEnds DEF DropGroup
  <2>2. slot[w].group \in Group
    BY <1>9 DEF DropGroup, SlotsShaped, Shaped
  <2> QED
    BY <1>9, <2>1, <2>2, ScriptSame DEF DropGroup, TablesTyped, BoundsTyped, HistoryTyped
<1>10. ASSUME InsertMonitor(w) PROVE Typed'
  <2>1. SlotsShaped'
    BY <1>10, SlotEnds DEF InsertMonitor
  <2>2. slot[w].form \in Config /\ slot[w].form.group \in Group
    BY <1>10 DEF InsertMonitor, SlotsShaped, Shaped, Config
  <2> QED
    BY <1>10, <2>1, <2>2, ScriptSame
       DEF InsertMonitor, Joined, TablesTyped, BoundsTyped, HistoryTyped
<1>11. ASSUME UpdateMonitor(w) PROVE Typed'
  <2>1. SlotsShaped'
    BY <1>11, SlotEnds DEF UpdateMonitor
  <2>2. slot[w].id \in Monitor /\ slot[w].form \in Config /\ slot[w].form.group \in Group
    BY <1>11 DEF UpdateMonitor, SlotsShaped, Shaped, Config
  <2> QED
    BY <1>11, <2>1, <2>2, ScriptSame
       DEF UpdateMonitor, Joined, TablesTyped, BoundsTyped, HistoryTyped
<1>12. ASSUME DeleteMonitor(w) PROVE Typed'
  <2>1. SlotsShaped'
    BY <1>12, SlotEnds DEF DeleteMonitor
  <2>2. slot[w].id \in Monitor
    BY <1>12 DEF DeleteMonitor, SlotsShaped, Shaped
  <2> QED
    BY <1>12, <2>1, <2>2, ScriptSame DEF DeleteMonitor, TablesTyped, BoundsTyped, HistoryTyped
<1>13. ASSUME RequestsEnd(w) PROVE Typed'
  <2>1. SlotsShaped'
    BY <1>13, SlotEnds DEF RequestsEnd
  <2> QED
    BY <1>13, <2>1, ScriptSame
       DEF RequestsEnd, Fault, TablesTyped, BoundsTyped, HistoryTyped, Setting
<1> QED
  BY <1>1, <1>2, <1>3, <1>4, <1>5, <1>6, <1>7, <1>8, <1>9, <1>10, <1>11, <1>12, <1>13
     DEF RequestStep
-------------------------------------------------------------------------------
(* The script.                                                              *)

LEMMA BeginsTyped == ASSUME Setting, Typed, NEW c \in Counter, Begins(c) PROVE Typed'
<1> USE DEF Typed, tables, bounds
<1>1. ASSUME NEW pc \in {"discover", "load"}, NEW only \in Monitor \cup {Nothing},
             NEW days \in SUBSET Dates, Start(c, pc, only, days)
      PROVE  ScriptsPlaced' /\ UNCHANGED <<tables, calendar, live, slot, bounds, raced, removed, touched>>
  <2>1. Placed([Unused EXCEPT !.pc = pc, !.only = only, !.dates = days])
    BY UnusedPlaced DEF Placed, Unused, Script, InDatabase
  <2> QED
    BY <1>1, <2>1, ScriptSet DEF Start, On
<1>2. ScriptsPlaced' /\ UNCHANGED <<tables, calendar, live, slot, bounds, raced, removed, touched>>
  <2>1. \E pc \in {"discover", "load"}, only \in Monitor \cup {Nothing}, days \in SUBSET Dates :
          Start(c, pc, only, days)
    <3>1. CASE SyncAndCount(c)
      BY <3>1 DEF SyncAndCount
    <3>2. CASE CountAll(c)
      BY <3>2 DEF CountAll
    <3>3. CASE \E m \in Monitor : Recount(c, m)
      <4>1. PICK m \in Monitor, d \in Dates : Start(c, "load", m, {d})
        BY <3>3 DEF Recount
      <4> QED
        BY <4>1
    <3> QED
      BY <3>1, <3>2, <3>3 DEF Begins
  <2> QED
    BY <1>1, <2>1
<1>3. gone' \in [Counter -> SUBSET Table]
  BY DEF Begins, SyncAndCount, CountAll, Recount, HistoryTyped
<1> QED
  BY <1>2, <1>3, SlotSame DEF TablesTyped, BoundsTyped, HistoryTyped

(* The steps that only change what the script holds.                        *)
LEMMA HoldsTyped ==
  ASSUME Setting, Typed, NEW c \in Counter, NEW s, Placed(s), On(c, s),
         UNCHANGED <<tables, calendar, live, slot, requests, ddl, history>>,
         UNCHANGED faults \/ Fault
  PROVE  Typed'
<1>1. faults' \in 0..MaxFaults
  BY DEF Typed, BoundsTyped, Fault, Setting
<1> QED
  BY <1>1, ScriptSet, SlotSame DEF Typed, TablesTyped, BoundsTyped, HistoryTyped, tables, history

LEMMA GoesPlaced ==
  ASSUME ScriptsPlaced, NEW c \in Counter,
         NEW pc \in {"load", "count", "noSession"}
  PROVE  Placed([script[c] EXCEPT !.pc = pc])
BY DEF ScriptsPlaced, Placed, Script, InDatabase

LEMMA ListStepTyped ==
  ASSUME Setting, Typed, NEW c \in Counter,
         \/ Discover(c) \/ FindLost(c) \/ ListTables(c) \/ ListFails(c) \/ TakeLost(c)
         \/ SelectStale(c) \/ SkipTable(c) \/ NextDatabase(c)
  PROVE  Typed'
<1> DEFINE s == script[c]
<1> USE Setting DEF OnlyScript, bounds
<1>0. s \in Script /\ Placed(s)
  BY DEF Typed, ScriptsPlaced
<1>1. CASE Discover(c)
  <2>1. PICK dbs \in SUBSET Database : On(c, [s EXCEPT !.pc = "existing", !.found = dbs])
    BY <1>1 DEF Discover
  <2>2. Placed([s EXCEPT !.pc = "existing", !.found = dbs])
    BY <1>0 DEF Placed, Script, InDatabase
  <2> QED
    BY <1>1, <2>1, <2>2, HoldsTyped DEF Discover
<1>2. CASE FindLost(c)
  <2> DEFINE l == {Home[monitors[m].table] : m \in {n \in Monitor : There(n)}} \ s.found
  <2>1. l \in SUBSET Database
    BY DEF Typed, TablesTyped, There, Config, Setting
  <2> HIDE DEF l
  <2>2. Placed([s EXCEPT !.pc = "list", !.lost = l])
    BY <1>0, <2>1 DEF Placed, Script, InDatabase
  <2>3. On(c, [s EXCEPT !.pc = "list", !.lost = l])
    BY <1>2 DEF FindLost, l
  <2> QED
    BY <1>2, <2>2, <2>3, HoldsTyped DEF FindLost
<1>3. CASE ListTables(c)
  <2>1. PICK db \in s.found :
          On(c, [s EXCEPT !.pc = "stale", !.found = s.found \ {db}, !.db = db,
                          !.tables = {t \in live : Home[t] = db}])
    BY <1>3 DEF ListTables
  <2>2. {t \in live : Home[t] = db} \in SUBSET Table
    BY DEF Typed, TablesTyped
  <2>3. Placed([s EXCEPT !.pc = "stale", !.found = s.found \ {db}, !.db = db,
                         !.tables = {t \in live : Home[t] = db}])
    BY <1>0, <2>2 DEF Placed, Script, InDatabase
  <2> QED
    BY <1>3, <2>1, <2>3, HoldsTyped DEF ListTables
<1>4. CASE ListFails(c)
  <2>1. PICK db \in s.found : On(c, [s EXCEPT !.found = s.found \ {db}])
    BY <1>4 DEF ListFails
  <2>2. Placed([s EXCEPT !.found = s.found \ {db}])
    BY <1>0 DEF Placed, Script, InDatabase
  <2> QED
    BY <1>4, <2>1, <2>2, HoldsTyped DEF ListFails
<1>5. CASE TakeLost(c)
  <2>1. PICK db \in s.lost :
          On(c, [s EXCEPT !.pc = "stale", !.lost = s.lost \ {db}, !.db = db, !.tables = {}])
    BY <1>5 DEF TakeLost
  <2>2. Placed([s EXCEPT !.pc = "stale", !.lost = s.lost \ {db}, !.db = db, !.tables = {}])
    BY <1>0 DEF Placed, Script, InDatabase
  <2> QED
    BY <1>5, <2>1, <2>2, HoldsTyped DEF TakeLost
<1>6. CASE SelectStale(c)
  <2> DEFINE ids == {m \in Monitor : There(m) /\ Home[monitors[m].table] = s.db
                                              /\ monitors[m].table \notin s.tables}
             pc == IF ids = {} THEN "upsert" ELSE "dropShots"
  <2>1. On(c, [s EXCEPT !.pc = pc, !.stale = ids]) /\ s.pc = "stale"
    BY <1>6 DEF SelectStale, At
  <2>2. ids \in SUBSET Monitor /\ pc \in {"upsert", "dropShots"}
    OBVIOUS
  <2> HIDE DEF ids, pc
  <2>3. Placed([s EXCEPT !.pc = pc, !.stale = ids])
    BY <1>0, <2>1, <2>2 DEF Placed, Script, InDatabase
  <2> QED
    BY <1>6, <2>1, <2>3, HoldsTyped DEF SelectStale
<1>7. CASE SkipTable(c)
  <2>1. \/ \E t \in s.tables : s.pc = "upsert" /\ On(c, [s EXCEPT !.tables = s.tables \ {t}])
        \/ s.pc = "insert" /\ On(c, [s EXCEPT !.pc = "upsert", !.table = Nothing])
    BY <1>7 DEF SkipTable, At
  <2>2. ASSUME NEW t \in s.tables, s.pc = "upsert"
        PROVE  Placed([s EXCEPT !.tables = s.tables \ {t}])
    BY <1>0, <2>2 DEF Placed, Script, InDatabase
  <2>3. s.pc = "insert" => Placed([s EXCEPT !.pc = "upsert", !.table = Nothing])
    BY <1>0 DEF Placed, Script, InDatabase
  <2>4. UNCHANGED faults \/ Fault
    BY <1>7 DEF SkipTable
  <2>5. UNCHANGED <<tables, calendar, live, slot, requests, ddl, history>>
    BY <1>7 DEF SkipTable
  <2> HIDE DEF s
  <2> QED
    BY <2>1, <2>2, <2>3, <2>4, <2>5, HoldsTyped
<1>8. CASE NextDatabase(c)
  <2>1. On(c, [s EXCEPT !.pc = "list", !.db = Nothing])
    BY <1>8 DEF NextDatabase
  <2>2. Placed([s EXCEPT !.pc = "list", !.db = Nothing])
    BY <1>0 DEF Placed, Script, InDatabase
  <2> QED
    BY <1>8, <2>1, <2>2, HoldsTyped DEF NextDatabase
<1> QED
  BY <1>1, <1>2, <1>3, <1>4, <1>5, <1>6, <1>7, <1>8

(* The steps of the script that write to the tables or end it.              *)
LEMMA SyncDoneTyped == ASSUME Setting, Typed, NEW c \in Counter, SyncDone(c) PROVE Typed'
<1>1. ScriptsPlaced'
  BY GoesPlaced, ScriptSet DEF SyncDone, Goes, Typed
<1> QED
  BY <1>1, SlotSame
     DEF SyncDone, Typed, TablesTyped, BoundsTyped, HistoryTyped, tables, bounds

LEMMA DropTyped ==
  ASSUME Setting, Typed, NEW c \in Counter, DropShots(c) \/ DropRows(c)
  PROVE  Typed'
<1> DEFINE s == script[c]
<1> USE DEF bounds, tables
<1>0. s \in Script /\ Placed(s) /\ s.stale \in SUBSET Monitor
  BY DEF Typed, ScriptsPlaced, Script
<1>1. CASE DropShots(c)
  <2>1. On(c, [s EXCEPT !.pc = "dropRows"]) /\ s.pc = "dropShots"
    BY <1>1 DEF DropShots, Goes, At
  <2>2. Placed([s EXCEPT !.pc = "dropRows"])
    BY <1>0, <2>1 DEF Placed, Script, InDatabase
  <2>3. ScriptsPlaced'
    BY <2>1, <2>2, ScriptSet DEF Typed
  <2>4. /\ snaps' \in [Monitor -> [Dates -> Shot \cup {Nothing}]]
        /\ removed' \in [Counter -> SUBSET Monitor]
    BY <1>0, <1>1, ClearedTyped DEF DropShots, Typed
  <2> QED
    BY <1>1, <2>3, <2>4, SlotSame DEF DropShots, Typed, TablesTyped, BoundsTyped, HistoryTyped
<1>2. CASE DropRows(c)
  <2>1. On(c, [s EXCEPT !.pc = "upsert", !.stale = {}]) /\ s.pc = "dropRows"
    BY <1>2 DEF DropRows, At
  <2>2. Placed([s EXCEPT !.pc = "upsert", !.stale = {}])
    BY <1>0, <2>1 DEF Placed, Script, InDatabase
  <2>3. ScriptsPlaced'
    BY <2>1, <2>2, ScriptSet DEF Typed
  <2> QED
    BY <1>0, <1>2, <2>3, SlotSame DEF DropRows, Typed, TablesTyped, BoundsTyped, HistoryTyped
<1> QED
  BY <1>1, <1>2

LEMMA EnterTyped ==
  ASSUME Setting, Typed, NEW c \in Counter, EnsureGroup(c) \/ UpsertMonitor(c)
  PROVE  Typed'
<1> DEFINE s == script[c]
<1> USE DEF bounds, tables, history
<1>0. s \in Script /\ Placed(s)
  BY DEF Typed, ScriptsPlaced
<1>1. CASE EnsureGroup(c)
  <2>1. PICK t \in s.tables \cap live :
          On(c, [s EXCEPT !.pc = "insert", !.tables = s.tables \ {t}, !.table = t])
    BY <1>1 DEF EnsureGroup
  <2>2. s.pc = "upsert"
    BY <1>1 DEF EnsureGroup, At
  <2>3. Placed([s EXCEPT !.pc = "insert", !.tables = s.tables \ {t}, !.table = t])
    BY <1>0, <2>2 DEF Placed, Script, InDatabase
  <2>4. ScriptsPlaced'
    BY <2>1, <2>3, ScriptSet DEF Typed
  <2> QED
    BY <1>1, <2>4, SlotSame DEF EnsureGroup, Typed, TablesTyped, BoundsTyped, HistoryTyped
<1>2. CASE UpsertMonitor(c)
  <2> DEFINE t == s.table
  <2>1. On(c, [s EXCEPT !.pc = "upsert", !.table = Nothing]) /\ s.pc = "insert"
    BY <1>2 DEF UpsertMonitor, At
  <2>2. Placed([s EXCEPT !.pc = "upsert", !.table = Nothing])
    BY <1>0, <2>1 DEF Placed, Script, InDatabase
  <2>3. ScriptsPlaced'
    BY <2>1, <2>2, ScriptSet DEF Typed
  <2>4. t \in Table /\ s.db \in Database /\ Home[t] = s.db /\ AutoId[t] \in Monitor
        /\ Category[s.db] \in Group
    BY <1>0, <2>1 DEF Placed, InDatabase, Setting
  <2>5. Entered(AutoId[t], t) \in Config
    <3>1. CASE There(AutoId[t])
      <4>1. monitors[AutoId[t]] \in Config
        BY <2>4, <3>1 DEF There, Typed, TablesTyped
      <4> QED
        BY <2>4, <3>1, <4>1 DEF Entered, Config
    <3>2. CASE ~There(AutoId[t])
      BY <2>4, <3>2 DEF Entered, Config, Frequency
    <3> QED
      BY <3>1, <3>2
  <2> HIDE DEF s
  <2>6. monitors' \in [Monitor -> Config \cup {Nothing}]
    BY <1>2, <2>4, <2>5 DEF UpsertMonitor, Typed, TablesTyped, s
  <2>7. raced' \subseteq Group
    BY <1>2, <2>4 DEF UpsertMonitor, Joined, Typed, HistoryTyped, s
  <2> QED
    BY <1>2, <2>3, <2>6, <2>7, SlotSame
       DEF UpsertMonitor, Typed, TablesTyped, BoundsTyped, HistoryTyped
<1> QED
  BY <1>1, <1>2

LEMMA LoadTyped ==
  ASSUME Setting, Typed, NEW c \in Counter,
         LoadMonitors(c) \/ Connect(c) \/ ConnectFails(c)
  PROVE  Typed'
<1> DEFINE s == script[c]
<1>0. s \in Script /\ Placed(s)
  BY DEF Typed, ScriptsPlaced
<1>1. CASE LoadMonitors(c)
  <2> DEFINE wanted(m) == /\ There(m) /\ monitors[m].enabled
                          /\ groups[monitors[m].group] = "enabled"
                          /\ s.only \in {Nothing, m}
             now == [m \in Monitor |-> IF wanted(m) THEN monitors[m] ELSE Nothing]
             all == s.dates \X {m \in Monitor : wanted(m)}
  <2>1. now \in [Monitor -> Config \cup {Nothing}]
    BY DEF Typed, TablesTyped
  <2>2. all \in SUBSET (Dates \X Monitor)
    BY <1>0 DEF Script
  <2>3. \/ On(c, [s EXCEPT !.pc = "connect", !.loaded = now, !.left = all])
        \/ On(c, [Unused EXCEPT !.pc = "exit2"])
    BY <1>1 DEF LoadMonitors
  <2> HIDE DEF now, all
  <2>4. Placed([s EXCEPT !.pc = "connect", !.loaded = now, !.left = all])
    BY <1>0, <2>1, <2>2 DEF Placed, Script, InDatabase
  <2>5. Placed([Unused EXCEPT !.pc = "exit2"])
    BY UnusedPlaced DEF Placed, Unused, Script, InDatabase, Exits
  <2>6. UNCHANGED <<tables, calendar, live, slot, requests, ddl, faults, history>>
    BY <1>1 DEF LoadMonitors, OnlyScript, bounds
  <2> QED
    BY <2>3, <2>4, <2>5, <2>6, HoldsTyped
<1>2. CASE Connect(c) \/ ConnectFails(c)
  <2>1. PICK pc \in {"count", "noSession"} : On(c, [s EXCEPT !.pc = pc])
    BY <1>2 DEF Connect, ConnectFails, Goes
  <2>2. Placed([s EXCEPT !.pc = pc])
    BY GoesPlaced DEF Typed
  <2>3. UNCHANGED <<tables, calendar, live, slot, requests, ddl, history>> /\ (UNCHANGED faults \/ Fault)
    BY <1>2 DEF Connect, ConnectFails, OnlyScript, bounds
  <2> QED
    BY <2>1, <2>2, <2>3, HoldsTyped
<1> QED
  BY <1>1, <1>2

(* Rows are counted, successfully or not, or their snapshot is given up.    *)
LEMMA CountTyped ==
  ASSUME Setting, Typed, NEW c \in Counter,
         CountRows(c) \/ CountFails(c) \/ StoreFails(c)
  PROVE  Typed'
<1> DEFINE s == script[c]
<1>0. s \in Script /\ Placed(s)
  BY DEF Typed, ScriptsPlaced
<1>1. ASSUME NEW p \in s.left, NEW n \in Shot, Counts(c, p, n) PROVE ScriptsPlaced'
  <2>1. Placed([s EXCEPT !.pc = "store", !.item = p, !.shot = n])
    BY <1>0 DEF Placed, Script, InDatabase
  <2> QED
    BY <1>1, <2>1, ScriptSet DEF Counts, Typed
<1>2. ASSUME NEW d, NEW m PROVE Measured(c, d, m) \subseteq Shot
  BY UnusedPlaced DEF Measured, CountStatus, Shot
<1>3. ScriptsPlaced'
  <2>1. CASE CountRows(c)
    <3>1. PICK p \in s.left : \E n \in Measured(c, p[1], p[2]) : Counts(c, p, n)
      BY <2>1 DEF CountRows
    <3>2. PICK n \in Measured(c, p[1], p[2]) : Counts(c, p, n)
      BY <3>1
    <3>3. n \in Shot
      BY <1>2, <3>2
    <3> QED
      BY <1>1, <3>2, <3>3
  <2>2. CASE CountFails(c)
    BY <1>1, <2>2, UnusedPlaced DEF CountFails
  <2>3. CASE StoreFails(c)
    <3>1. On(c, [s EXCEPT !.shot = Failed])
      BY <2>3 DEF StoreFails
    <3>2. Placed([s EXCEPT !.shot = Failed])
      BY <1>0, UnusedPlaced DEF Placed, Script, InDatabase
    <3> QED
      BY <3>1, <3>2, ScriptSet DEF Typed
  <2> QED
    BY <2>1, <2>2, <2>3
<1>4. UNCHANGED <<tables, calendar, live, slot, requests, ddl, history>> /\ (UNCHANGED faults \/ Fault)
  BY DEF CountRows, CountFails, StoreFails, OnlyScript, bounds
<1>5. faults' \in 0..MaxFaults
  BY <1>4 DEF Typed, BoundsTyped, Fault, Setting
<1> QED
  BY <1>3, <1>4, <1>5, SlotSame DEF Typed, TablesTyped, BoundsTyped, HistoryTyped, tables, history

LEMMA StoreTyped ==
  ASSUME Setting, Typed, NEW c \in Counter, StoreShot(c) \/ StoreNoSession(c)
  PROVE  Typed'
<1> DEFINE s == script[c]
<1> USE DEF bounds, history
<1>0. s \in Script /\ Placed(s)
  BY DEF Typed, ScriptsPlaced
<1>1. ASSUME NEW p \in Dates \X Monitor, NEW n \in Shot, Stored(p, n)
      PROVE  snaps' \in [Monitor -> [Dates -> Shot \cup {Nothing}]]
  <2>1. p[1] \in Dates /\ p[2] \in Monitor
    OBVIOUS
  <2>2. [snaps[p[2]] EXCEPT ![p[1]] = n] \in [Dates -> Shot \cup {Nothing}]
    BY <2>1 DEF Typed, TablesTyped
  <2> QED
    BY <1>1, <2>1, <2>2 DEF Stored, Typed, TablesTyped
<1>2. CASE StoreShot(c)
  <2>1. s.pc = "store" /\ s.item \in Dates \X Monitor /\ s.shot \in Shot
    BY <1>0, <1>2 DEF StoreShot, At, Placed, Script
  <2>2. snaps' \in [Monitor -> [Dates -> Shot \cup {Nothing}]]
    BY <1>1, <1>2, <2>1 DEF StoreShot
  <2>3. Placed([s EXCEPT !.pc = "count", !.left = s.left \ {s.item}, !.item = Nothing,
                         !.shot = Failed])
    <3>1. s.left \ {s.item} \in SUBSET (Dates \X Monitor) /\ Failed \in Shot
      BY <1>0, UnusedPlaced DEF Script
    <3>2. ASSUME NEW l \in SUBSET (Dates \X Monitor)
          PROVE  Placed([s EXCEPT !.pc = "count", !.left = l, !.item = Nothing, !.shot = Failed])
      BY <1>0, <3>1 DEF Placed, Script, InDatabase
    <3> QED
      BY <3>1, <3>2
  <2>4. ScriptsPlaced'
    BY <1>2, <2>3, ScriptSet DEF StoreShot, Typed
  <2> QED
    BY <1>2, <2>2, <2>4, SlotSame DEF StoreShot, Typed, TablesTyped, BoundsTyped, HistoryTyped
<1>3. CASE StoreNoSession(c)
  <2>1. PICK p \in s.left : Stored(p, Failed) /\ On(c, [s EXCEPT !.left = s.left \ {p}])
    BY <1>3 DEF StoreNoSession
  <2>2. snaps' \in [Monitor -> [Dates -> Shot \cup {Nothing}]]
    <3>1. p \in Dates \X Monitor /\ Failed \in Shot
      BY <1>0, UnusedPlaced DEF Script
    <3> QED
      BY <1>1, <2>1, <3>1
  <2>3. s.pc = "noSession"
    BY <1>3 DEF StoreNoSession, At
  <2>4. Placed([s EXCEPT !.left = s.left \ {p}])
    BY <1>0, <2>3 DEF Placed, Script, InDatabase
  <2>5. ScriptsPlaced'
    BY <2>1, <2>4, ScriptSet DEF Typed
  <2> QED
    BY <1>3, <2>2, <2>5, SlotSame DEF StoreNoSession, Typed, TablesTyped, BoundsTyped, HistoryTyped
<1> QED
  BY <1>2, <1>3

LEMMA EndTyped ==
  ASSUME Setting, Typed, NEW c \in Counter, CountsDone(c) \/ ScriptDies(c)
  PROVE  Typed'
<1>1. PICK pc \in {"exit0", "exit1"} : On(c, [Unused EXCEPT !.pc = pc])
  <2>1. CASE CountsDone(c)
    <3>1. On(c, [Unused EXCEPT !.pc = "exit0"])
      BY <2>1 DEF CountsDone
    <3> QED
      BY <3>1
  <2>2. CASE ScriptDies(c)
    <3>1. On(c, [Unused EXCEPT !.pc = "exit1"])
      BY <2>2 DEF ScriptDies
    <3> QED
      BY <3>1
  <2> QED
    BY <2>1, <2>2
<1>2. Placed([Unused EXCEPT !.pc = pc])
  BY UnusedPlaced DEF Placed, Unused, Script, InDatabase, Exits
<1>3. ScriptsPlaced'
  BY <1>1, <1>2, ScriptSet DEF Typed
<1>4. removed' \in [Counter -> SUBSET Monitor] /\ gone' \in [Counter -> SUBSET Table]
  <2>1. removed \in [Counter -> SUBSET Monitor] /\ gone \in [Counter -> SUBSET Table]
    BY DEF Typed, HistoryTyped
  <2>2. CASE CountsDone(c)
    BY <2>1, <2>2 DEF CountsDone
  <2>3. CASE ScriptDies(c)
    BY <2>1, <2>3 DEF ScriptDies
  <2> QED
    BY <2>2, <2>3
<1>5. UNCHANGED <<tables, calendar, live, slot, requests, ddl, raced, touched>>
  BY DEF CountsDone, ScriptDies, bounds
<1>6. faults' \in 0..MaxFaults
  <2>1. CASE CountsDone(c)
    BY <2>1 DEF CountsDone, bounds, Typed, BoundsTyped
  <2>2. CASE ScriptDies(c)
    BY <2>2, Setting DEF ScriptDies, Fault, Setting, Typed, BoundsTyped
  <2> QED
    BY <2>1, <2>2
<1> QED
  BY <1>3, <1>4, <1>5, <1>6, SlotSame DEF Typed, TablesTyped, BoundsTyped, HistoryTyped, tables

LEMMA OutsideTyped == ASSUME Setting, Typed, Outside PROVE Typed'
<1> USE DEF Typed, TablesTyped, HistoryTyped, tables, bounds, history
<1>1. CASE ImportCalendar
  <2>1. calendar' \subseteq Day
    BY <1>1 DEF ImportCalendar, Setting
  <2> QED
    BY <1>1, <2>1, SlotSame, ScriptSame DEF ImportCalendar, BoundsTyped
<1>2. ASSUME NEW t \in Table, CreateTable(t) PROVE Typed'
  BY <1>2, SlotSame, ScriptSame DEF CreateTable, Ddl, BoundsTyped, Setting
<1>3. ASSUME NEW t \in Table, DropTable(t) PROVE Typed'
  <2>1. gone' \in [Counter -> SUBSET Table] /\ live' \subseteq Table
    BY <1>3 DEF DropTable
  <2> QED
    BY <1>3, <2>1, SlotSame, ScriptSame DEF DropTable, Ddl, BoundsTyped, Setting
<1> QED
  BY <1>1, <1>2, <1>3 DEF Outside

LEMMA NextTyped == ASSUME Setting, Typed, [Next]_vars PROVE Typed'
<1>1. CASE UNCHANGED vars
  BY <1>1, SlotSame, ScriptSame DEF vars, Typed, TablesTyped, BoundsTyped, HistoryTyped
<1>2. ASSUME NEW c \in Counter, SyncStep(c) \/ CountStep(c) \/ ScriptDies(c) PROVE Typed'
  BY <1>2, ListStepTyped, SyncDoneTyped, DropTyped, EnterTyped, LoadTyped, CountTyped,
     StoreTyped, EndTyped DEF SyncStep, CountStep
<1> QED
  BY <1>1, <1>2, RequestTyped, BeginsTyped, OutsideTyped DEF Next

(* Every variable keeps its type; in particular a snapshot stays what the   *)
(* script can have counted, whatever overtakes it.                          *)
THEOREM MonitorTypeCorrect == Spec => []TypeOK
<1>1. Init => Typed
  BY Setting, InitTyped
<1>2. Typed /\ [Next]_vars => Typed'
  BY Setting, NextTyped
<1> QED
  BY <1>1, <1>2, TypedIsTypeOK, PTL DEF Spec

-------------------------------------------------------------------------------
(* What a step does to a count: the snapshots there are stay, unless the    *)
(* deletion of a monitor's is noted; and a date and monitor leave the list  *)
(* of what is still to be counted only with a snapshot.                     *)
Grows(c) ==
  /\ removed[c] \subseteq removed'[c]
  /\ \A m \in Monitor, d \in Dates :
       snaps[m][d] # Nothing => snaps'[m][d] # Nothing \/ m \in removed'[c]

Counted(c) ==
  /\ script'[c].loaded = script[c].loaded /\ script'[c].dates = script[c].dates
  /\ \A m \in Monitor, d \in Dates :
       <<d, m>> \in script[c].left => <<d, m>> \in script'[c].left \/ snaps'[m][d] # Nothing

Loads(c) ==
  \A m \in Monitor, d \in script'[c].dates :
    script'[c].loaded[m] # Nothing => <<d, m>> \in script'[c].left

LEMMA ClearedGrows ==
  ASSUME Typed, NEW S \in SUBSET Monitor, Cleared(S),
         NEW c \in Counter, script[c].pc \in Counting
  PROVE  Grows(c)
BY DEF Typed, TablesTyped, HistoryTyped, Cleared, Grows

LEMMA StoredGrows ==
  ASSUME Setting, Typed, NEW p \in Dates \X Monitor, NEW n \in Shot, Stored(p, n), UNCHANGED removed,
         NEW c \in Counter
  PROVE  Grows(c) /\ snaps'[p[2]][p[1]] # Nothing
<1>1. p[1] \in Dates /\ p[2] \in Monitor /\ n # Nothing
  BY Setting DEF Setting
<1> QED
  BY <1>1 DEF Typed, TablesTyped, Stored, Grows

LEMMA SameGrows ==
  ASSUME NEW c, UNCHANGED <<snaps, removed>> PROVE Grows(c)
BY DEF Grows

LEMMA SameCounted ==
  ASSUME NEW c, script'[c].loaded = script[c].loaded, script'[c].dates = script[c].dates,
         script'[c].left = script[c].left
  PROVE  Counted(c)
BY DEF Counted

LEMMA RequestGrows ==
  ASSUME Typed, NEW w \in Worker, RequestStep(w), NEW c \in Counter, script[c].pc \in Counting
  PROVE  Grows(c) /\ UNCHANGED script
<1> USE DEF tables, bounds, history
<1>1. ASSUME NEW m \in Monitor, DeleteShots(w, m) PROVE Grows(c)
  BY <1>1, ClearedGrows, SameGrows DEF DeleteShots
<1>2. RequestStep(w) /\ ~(\E m \in Monitor : DeleteShots(w, m)) => UNCHANGED <<snaps, removed, script>>
  BY DEF RequestStep, CreateGroup, PatchGroup, CountMembers, SetEnabled, CheckNew, CheckEdit,
         PatchReply, DropGroup, InsertMonitor, UpdateMonitor, DeleteMonitor, RequestsEnd
<1> QED
  BY <1>1, <1>2, SameGrows DEF DeleteShots

(* What an execution of the script changes of the scripts is its own state; *)
(* requests and the outside change none.                                    *)
LEMMA ScriptWrites ==
  ASSUME NEW c \in Counter, Begins(c) \/ SyncStep(c) \/ CountStep(c) \/ ScriptDies(c)
  PROVE  \E s : On(c, s)
BY DEF Begins, SyncAndCount, CountAll, Recount, Start, SyncStep, Discover, FindLost, ListTables,
       ListFails, TakeLost, SyncDone, SelectStale, DropShots, DropRows, EnsureGroup, UpsertMonitor,
       SkipTable, NextDatabase, CountStep, LoadMonitors, Connect, ConnectFails, CountRows, CountFails,
       StoreShot, StoreFails, StoreNoSession, CountsDone, ScriptDies, Counts, Goes, On

LEMMA OthersLeaveScript ==
  ASSUME (\E w \in Worker : RequestStep(w)) \/ Outside
  PROVE  UNCHANGED script
BY DEF RequestStep, CreateGroup, PatchGroup, CountMembers, SetEnabled, CheckNew, CheckEdit,
       PatchReply, DropGroup, InsertMonitor, UpdateMonitor, DeleteMonitor, RequestsEnd, DeleteShots,
       Outside, ImportCalendar, CreateTable, DropTable

(* Where the steps that synchronise, and those that count, lead.            *)
LEMMA SyncPc ==
  ASSUME Typed, NEW a \in Counter, SyncStep(a)
  PROVE  /\ script'[a].pc \in Syncing \cup {"load"}
         /\ script'[a].pc = "insert" => EnsureGroup(a)
<1>0. script[a] \in Script /\ script \in [Counter -> Script]
  BY DEF Typed, ScriptsPlaced
<1>3. CASE Discover(a)
  BY <1>0, <1>3 DEF Discover, On, Goes, At, Syncing, Script
<1>4. CASE FindLost(a)
  BY <1>0, <1>4 DEF FindLost, On, Goes, At, Syncing, Script
<1>5. CASE ListTables(a)
  BY <1>0, <1>5 DEF ListTables, On, Goes, At, Syncing, Script
<1>6. CASE ListFails(a)
  BY <1>0, <1>6 DEF ListFails, On, Goes, At, Syncing, Script
<1>7. CASE TakeLost(a)
  BY <1>0, <1>7 DEF TakeLost, On, Goes, At, Syncing, Script
<1>8. CASE SyncDone(a)
  BY <1>0, <1>8 DEF SyncDone, On, Goes, At, Syncing, Script
<1>9. CASE SelectStale(a)
  BY <1>0, <1>9 DEF SelectStale, On, Goes, At, Syncing, Script
<1>10. CASE DropShots(a)
  BY <1>0, <1>10 DEF DropShots, On, Goes, At, Syncing, Script
<1>11. CASE DropRows(a)
  BY <1>0, <1>11 DEF DropRows, On, Goes, At, Syncing, Script
<1>12. CASE EnsureGroup(a)
  <2>1. PICK t : On(a, [script[a] EXCEPT !.pc = "insert", !.tables = script[a].tables \ {t}, !.table = t])
    BY <1>12 DEF EnsureGroup
  <2>2. script'[a].pc = "insert"
    BY <1>0, <2>1 DEF On, Script
  <2> QED
    BY <1>12, <2>2 DEF Syncing
<1>13. CASE UpsertMonitor(a)
  BY <1>0, <1>13 DEF UpsertMonitor, On, Goes, At, Syncing, Script
<1>14. CASE SkipTable(a)
  <2>1. ASSUME NEW ts, script[a].pc = "upsert", On(a, [script[a] EXCEPT !.tables = ts])
        PROVE  script'[a].pc = "upsert"
    BY <1>0, <2>1 DEF On, Script
  <2>2. ASSUME On(a, [script[a] EXCEPT !.pc = "upsert", !.table = Nothing])
        PROVE  script'[a].pc = "upsert"
    BY <1>0, <2>2 DEF On, Script
  <2> QED
    BY <1>14, <2>1, <2>2 DEF SkipTable, At, Syncing
<1>15. CASE NextDatabase(a)
  BY <1>0, <1>15 DEF NextDatabase, On, Goes, At, Syncing, Script
<1> QED
  BY <1>3, <1>4, <1>5, <1>6, <1>7, <1>8, <1>9, <1>10, <1>11, <1>12, <1>13, <1>14, <1>15
     DEF SyncStep

LEMMA CountPc ==
  ASSUME Typed, NEW a \in Counter, CountStep(a)
  PROVE  (CountsDone(a) /\ script'[a].pc = "exit0") \/ script'[a].pc \in Counting \cup {"exit2"}
<1>0. script[a] \in Script /\ script \in [Counter -> Script]
  BY DEF Typed, ScriptsPlaced
<1>1. CASE LoadMonitors(a)
  <2>1. ASSUME NEW now, NEW all, On(a, [script[a] EXCEPT !.pc = "connect", !.loaded = now, !.left = all])
        PROVE  script'[a].pc = "connect"
    BY <1>0, <2>1 DEF On, Script
  <2>2. ASSUME On(a, [Unused EXCEPT !.pc = "exit2"]) PROVE script'[a].pc = "exit2"
    BY <1>0, <2>2 DEF On, Unused
  <2> QED
    BY <1>1, <2>1, <2>2 DEF LoadMonitors, Counting
<1>2. CASE Connect(a) \/ ConnectFails(a)
  BY <1>0, <1>2 DEF Connect, ConnectFails, Goes, On, Script, Counting
<1>3. CASE CountRows(a) \/ CountFails(a)
  <2>1. PICK p, n : Counts(a, p, n)
    BY <1>3 DEF CountRows, CountFails
  <2> QED
    BY <1>0, <2>1 DEF Counts, On, Script, Counting
<1>4. CASE StoreShot(a)
  BY <1>0, <1>4 DEF StoreShot, On, Script, Counting
<1>5. CASE StoreFails(a)
  BY <1>0, <1>5 DEF StoreFails, At, On, Script, Counting
<1>6. CASE StoreNoSession(a)
  <2>1. PICK p : On(a, [script[a] EXCEPT !.left = script[a].left \ {p}])
    BY <1>6 DEF StoreNoSession
  <2>2. script'[a].pc = script[a].pc
    BY <1>0, <2>1 DEF On, Script
  <2> QED
    BY <1>6, <2>2 DEF StoreNoSession, At, Counting
<1>7. CASE CountsDone(a)
  BY <1>0, <1>7 DEF CountsDone, On, Unused
<1> QED
  BY <1>1, <1>2, <1>3, <1>4, <1>5, <1>6, <1>7 DEF CountStep

LEMMA BeginPc ==
  ASSUME Typed, NEW a \in Counter, Begins(a)
  PROVE  script'[a].pc \in {"discover", "load"}
<1>1. ASSUME NEW pc, NEW only, NEW dates, Start(a, pc, only, dates) PROVE script'[a].pc = pc
  BY <1>1 DEF Start, Unused, Typed, ScriptsPlaced
<1> QED
  BY <1>1 DEF Begins, SyncAndCount, CountAll, Recount

LEMMA DeathPc ==
  ASSUME Typed, NEW a \in Counter, ScriptDies(a) PROVE script'[a].pc = "exit1"
BY DEF ScriptDies, On, Unused, Typed, ScriptsPlaced

LEMMA SyncGrows ==
  ASSUME Typed, NEW a \in Counter, SyncStep(a) \/ Begins(a),
         NEW c \in Counter, script'[c].pc \in Counting
  PROVE  script[c].pc \in Counting /\ Grows(c) /\ Counted(c)
<1> USE DEF tables, bounds, history
<1>1. script[a].pc \notin Counting
  BY DEF SyncStep, Begins, SyncAndCount, CountAll, Recount, Start, Discover, FindLost, ListTables,
         ListFails, TakeLost, SyncDone, SelectStale, DropShots, DropRows, EnsureGroup,
         UpsertMonitor, SkipTable, NextDatabase, At, Counting
<1>2. PICK s : script' = [script EXCEPT ![a] = s] /\ s.pc \notin Counting
  <2>1. ASSUME NEW pc \in {"discover", "load"}, NEW only, NEW dates, Start(a, pc, only, dates)
        PROVE  \E s : script' = [script EXCEPT ![a] = s] /\ s.pc \notin Counting
    <3>1. [Unused EXCEPT !.pc = pc, !.only = only, !.dates = dates].pc \notin Counting
      BY DEF Unused, Counting
    <3> QED
      BY <2>1, <3>1 DEF Start
  <2>2. CASE Begins(a)
    BY <2>1, <2>2 DEF Begins, SyncAndCount, CountAll, Recount
  <2>3. CASE SyncStep(a)
    <3>1. \E s : script' = [script EXCEPT ![a] = s]
      BY <2>3 DEF SyncStep, Discover, FindLost, ListTables, ListFails, TakeLost, SyncDone, SelectStale,
             DropShots, DropRows, EnsureGroup, UpsertMonitor, SkipTable, NextDatabase, On, Goes
    <3>2. script'[a].pc \notin Counting
      BY <2>3, SyncPc DEF Syncing, Counting
    <3> QED
      BY <3>1, <3>2 DEF Typed, ScriptsPlaced
  <2> QED
    BY <2>2, <2>3
<1>3. c # a /\ script'[c] = script[c] /\ script[c].pc \in Counting
  BY <1>2 DEF Typed, ScriptsPlaced
<1>4. Grows(c)
  <2>1. CASE DropShots(a)
    <3>1. script[a].stale \in SUBSET Monitor
      BY DEF Typed, ScriptsPlaced, Script
    <3> QED
      BY <1>3, <2>1, <3>1, ClearedGrows DEF DropShots
  <2>2. CASE ~DropShots(a)
    <3>1. UNCHANGED <<snaps, removed>>
      BY <2>2 DEF SyncStep, Begins, SyncAndCount, CountAll, Recount, Start, Discover, FindLost,
             ListTables, ListFails, TakeLost, SyncDone, SelectStale, DropRows, EnsureGroup,
             UpsertMonitor, SkipTable, NextDatabase, OnlyScript
    <3> QED
      BY <3>1, SameGrows
  <2> QED
    BY <2>1, <2>2
<1> QED
  BY <1>3, <1>4, SameCounted

LEMMA OtherCount ==
  ASSUME Typed, NEW a \in Counter, NEW s, On(a, s), NEW c \in Counter, c # a
  PROVE  script'[c] = script[c] /\ Counted(c)
<1>1. script'[c] = script[c]
  BY DEF Typed, ScriptsPlaced, On
<1> QED
  BY <1>1, SameCounted

(* A step of a count that goes on, by an execution of its own.              *)
LEMMA OwnCount ==
  ASSUME Setting, Typed, NEW c \in Counter, CountStep(c), script'[c].pc \in Counting
  PROVE  Loads(c) \/ (script[c].pc \in Counting /\ Grows(c) /\ Counted(c))
<1> DEFINE s == script[c]
<1> USE DEF history
<1>0. s \in Script /\ script \in [Counter -> Script] /\ Placed(s)
  BY DEF Typed, ScriptsPlaced
<1>1. CASE LoadMonitors(c)
  <2> DEFINE wanted(m) == /\ There(m) /\ monitors[m].enabled /\ groups[monitors[m].group] = "enabled"
                          /\ script[c].only \in {Nothing, m}
             now == [m \in Monitor |-> IF wanted(m) THEN monitors[m] ELSE Nothing]
             all == s.dates \X {m \in Monitor : wanted(m)}
  <2>1. ~On(c, [Unused EXCEPT !.pc = "exit2"])
    BY <1>0 DEF On, Unused, Counting
  <2>2. On(c, [s EXCEPT !.pc = "connect", !.loaded = now, !.left = all])
    BY <1>1, <2>1 DEF LoadMonitors
  <2>3. script'[c].loaded = now /\ script'[c].left = all /\ script'[c].dates = s.dates
    <3> HIDE DEF now, all
    <3> QED
      BY <1>0, <2>2 DEF On, Script
  <2> QED
    BY <2>3 DEF Loads
<1>2. CASE Connect(c) \/ ConnectFails(c)
  <2>1. PICK pc : On(c, [s EXCEPT !.pc = pc])
    BY <1>2 DEF Connect, ConnectFails, Goes
  <2>2. script'[c].loaded = s.loaded /\ script'[c].dates = s.dates /\ script'[c].left = s.left
    BY <1>0, <2>1 DEF On, Script
  <2> QED
    BY <1>2, <2>2, SameCounted, SameGrows DEF Connect, ConnectFails, OnlyScript, tables, At, Counting
<1>3. CASE CountRows(c) \/ CountFails(c)
  <2>1. PICK p, n : Counts(c, p, n)
    BY <1>3 DEF CountRows, CountFails
  <2>2. script'[c].loaded = s.loaded /\ script'[c].dates = s.dates /\ script'[c].left = s.left
    BY <1>0, <2>1 DEF Counts, On, Script
  <2> QED
    BY <1>3, <2>2, SameCounted, SameGrows DEF CountRows, CountFails, OnlyScript, tables, At, Counting
<1>4. ASSUME NEW p \in Dates \X Monitor, NEW n \in Shot, Stored(p, n), UNCHANGED removed,
             script'[c].loaded = s.loaded, script'[c].dates = s.dates, script'[c].left = s.left \ {p}
      PROVE  Grows(c) /\ Counted(c)
  <2>1. Grows(c) /\ snaps'[p[2]][p[1]] # Nothing
    BY <1>4, StoredGrows
  <2> QED
    BY <1>4, <2>1 DEF Counted
<1>5. CASE StoreShot(c)
  <2>1. s.pc = "store" /\ s.item \in Dates \X Monitor /\ s.shot \in Shot
    BY <1>0, <1>5 DEF StoreShot, At, Placed, Script
  <2>2. /\ script'[c].loaded = s.loaded /\ script'[c].dates = s.dates
        /\ script'[c].left = s.left \ {s.item}
    BY <1>0, <1>5 DEF StoreShot, On, Script
  <2> QED
    BY <1>4, <1>5, <2>1, <2>2 DEF StoreShot, Counting
<1>6. CASE StoreFails(c)
  <2>1. script'[c].loaded = s.loaded /\ script'[c].dates = s.dates /\ script'[c].left = s.left
    BY <1>0, <1>6 DEF StoreFails, On, Script
  <2> QED
    BY <1>6, <2>1, SameCounted, SameGrows DEF StoreFails, tables, At, Counting
<1>7. CASE StoreNoSession(c)
  <2>1. PICK p \in s.left : Stored(p, Failed) /\ On(c, [s EXCEPT !.left = s.left \ {p}])
    BY <1>7 DEF StoreNoSession
  <2>2. p \in Dates \X Monitor /\ Failed \in Shot
    BY <1>0, UnusedPlaced DEF Script
  <2>3. /\ script'[c].loaded = s.loaded /\ script'[c].dates = s.dates
        /\ script'[c].left = s.left \ {p}
    BY <1>0, <2>1 DEF On, Script
  <2> QED
    BY <1>4, <1>7, <2>1, <2>2, <2>3 DEF StoreNoSession, At, Counting
<1>8. CASE CountsDone(c)
  <2>1. script'[c].pc = "exit0"
    BY <1>0, <1>8 DEF CountsDone, On, Unused
  <2> QED
    BY <2>1 DEF Counting
<1> QED
  BY <1>1, <1>2, <1>3, <1>5, <1>6, <1>7, <1>8 DEF CountStep

(* While an execution counts, every monitor it loaded is, for every date,   *)
(* still to be counted, or has a snapshot, or lost its snapshots meanwhile. *)
Complete(c) ==
  script[c].pc \in Counting =>
    \A m \in Monitor, d \in script[c].dates :
      script[c].loaded[m] # Nothing =>
        <<d, m>> \in script[c].left \/ snaps[m][d] # Nothing \/ m \in removed[c]

LEMMA CountGoesOn ==
  ASSUME Setting, Typed, [Next]_vars, NEW c \in Counter, script'[c].pc \in Counting
  PROVE  Loads(c) \/ (script[c].pc \in Counting /\ Grows(c) /\ Counted(c))
<1>0. script \in [Counter -> Script]
  BY DEF Typed, ScriptsPlaced
<1>1. ASSUME UNCHANGED <<script, snaps, removed>>
      PROVE  script[c].pc \in Counting /\ Grows(c) /\ Counted(c)
  BY <1>1, SameCounted, SameGrows
<1>2. ASSUME NEW w \in Worker, RequestStep(w)
      PROVE  script[c].pc \in Counting /\ Grows(c) /\ Counted(c)
  <2>1. UNCHANGED script
    BY <1>2, OthersLeaveScript
  <2> QED
    BY <1>2, <2>1, RequestGrows, SameCounted
<1>3. ASSUME NEW a \in Counter, SyncStep(a) \/ Begins(a)
      PROVE  script[c].pc \in Counting /\ Grows(c) /\ Counted(c)
  BY <1>3, SyncGrows
<1>4. ASSUME NEW a \in Counter, CountStep(a) \/ ScriptDies(a), a # c
      PROVE  script[c].pc \in Counting /\ Grows(c) /\ Counted(c)
  <2>1. PICK s : On(a, s)
    BY <1>4 DEF CountStep, LoadMonitors, Connect, ConnectFails, CountRows, CountFails, StoreShot,
           StoreFails, StoreNoSession, CountsDone, ScriptDies, Counts, Goes
  <2>2. script'[c] = script[c] /\ Counted(c)
    BY <1>4, <2>1, OtherCount
  <2>3. Grows(c)
    <3>1. CASE StoreShot(a)
      <4>1. script[a].item \in Dates \X Monitor /\ script[a].shot \in Shot
        BY <3>1 DEF StoreShot, At, Typed, ScriptsPlaced, Placed, Script
      <4> QED
        BY <3>1, <4>1, StoredGrows DEF StoreShot, history
    <3>2. CASE StoreNoSession(a)
      <4>1. PICK p \in script[a].left : Stored(p, Failed)
        BY <3>2 DEF StoreNoSession
      <4>2. p \in Dates \X Monitor /\ Failed \in Shot
        BY UnusedPlaced DEF Typed, ScriptsPlaced, Script
      <4> QED
        BY <3>2, <4>1, <4>2, StoredGrows DEF StoreNoSession, history
    <3>3. CASE CountsDone(a) \/ ScriptDies(a)
      <4>1. UNCHANGED snaps /\ removed' = [removed EXCEPT ![a] = {}]
        BY <3>3 DEF CountsDone, ScriptDies, tables
      <4> QED
        BY <1>4, <4>1 DEF Grows, Typed, HistoryTyped
    <3>4. CASE ~(StoreShot(a) \/ StoreNoSession(a) \/ CountsDone(a) \/ ScriptDies(a))
      <4>1. UNCHANGED <<snaps, removed>>
        BY <1>4, <3>4 DEF CountStep, LoadMonitors, Connect, ConnectFails, CountRows, CountFails,
               StoreFails, OnlyScript, tables, history
      <4> QED
        BY <4>1, SameGrows
    <3> QED
      BY <3>1, <3>2, <3>3, <3>4
  <2> QED
    BY <2>2, <2>3
<1>5. CASE ScriptDies(c)
  BY <1>5, DeathPc DEF Counting
<1>6. CASE Outside \/ UNCHANGED vars
  BY <1>1, <1>6 DEF Outside, ImportCalendar, CreateTable, DropTable, vars, tables, history
<1> QED
  BY <1>2, <1>3, <1>4, <1>5, <1>6, OwnCount DEF Next

LEMMA CompleteKept ==
  ASSUME Setting, Typed, [Next]_vars, NEW c \in Counter, Complete(c)
  PROVE  Complete(c)'
<1> SUFFICES ASSUME script'[c].pc \in Counting,
                    NEW m \in Monitor, NEW d \in script'[c].dates, script'[c].loaded[m] # Nothing
             PROVE  <<d, m>> \in script'[c].left \/ snaps'[m][d] # Nothing \/ m \in removed'[c]
  BY DEF Complete
<1>1. CASE Loads(c)
  BY <1>1 DEF Loads
<1>2. CASE script[c].pc \in Counting /\ Grows(c) /\ Counted(c)
  <2>1. d \in script[c].dates /\ script[c].loaded[m] # Nothing /\ d \in Dates
    BY <1>2 DEF Counted, Typed, ScriptsPlaced, Script
  <2>2. <<d, m>> \in script[c].left \/ snaps[m][d] # Nothing \/ m \in removed[c]
    BY <1>2, <2>1 DEF Complete
  <2> QED
    BY <1>2, <2>1, <2>2 DEF Counted, Grows
<1> QED
  BY <1>1, <1>2, CountGoesOn

(* Only a count with nothing left exits with 0.                             *)
LEMMA ExitIsDone ==
  ASSUME Setting, Typed, Next, NEW c \in Counter, ~At(c, "exit0"), script'[c].pc = "exit0"
  PROVE  CountsDone(c)
<1>0. script \in [Counter -> Script]
  BY DEF Typed, ScriptsPlaced
<1>1. UNCHANGED script => FALSE
  BY DEF At
<1>2. PICK a \in Counter : Begins(a) \/ SyncStep(a) \/ CountStep(a) \/ ScriptDies(a)
  BY <1>1, OthersLeaveScript DEF Next
<1>3. \E s : On(a, s)
  BY <1>2, ScriptWrites
<1>4. a = c
  BY <1>0, <1>3 DEF On, At
<1> QED
  BY <1>2, <1>4, BeginPc, SyncPc, CountPc, DeathPc DEF Syncing, Counting

(* A count that ends well has left nothing out.                             *)
THEOREM CountIsComplete == Spec => CountComplete
<1> DEFINE All == Typed /\ \A c \in Counter : Complete(c)
<1>1. Init => All
  <2>1. Init => \A c \in Counter : script[c].pc \notin Counting
    BY DEF Init, Unused, Counting
  <2> QED
    BY <2>1, Setting, InitTyped DEF Complete
<1>2. All /\ [Next]_vars => All'
  BY Setting, NextTyped, CompleteKept
<1>3. ASSUME All, Next, NEW c \in Counter, ~At(c, "exit0"), script'[c].pc = "exit0",
             NEW m \in Monitor, NEW d \in script[c].dates, script[c].loaded[m] # Nothing
      PROVE  snaps[m][d] # Nothing \/ m \in removed[c]
  <2>1. script[c].pc \in Counting /\ script[c].left = {}
    BY <1>3, ExitIsDone, Setting DEF CountsDone, Counting
  <2> QED
    BY <1>3, <2>1 DEF Complete
<1>4. All /\ [Next]_vars =>
        [\A c \in Counter : ~At(c, "exit0") /\ script'[c].pc = "exit0" =>
           \A m \in Monitor, d \in script[c].dates :
             script[c].loaded[m] # Nothing => snaps[m][d] # Nothing \/ m \in removed[c]]_vars
  BY <1>3
<1> HIDE DEF All
<1> QED
  BY <1>1, <1>2, <1>4, PTL DEF Spec, CountComplete

-------------------------------------------------------------------------------
(* The group of a monitor.  Unless a deletion of the group has overlapped   *)
(* with a write of a member, a group with a member, or with one on its way, *)
(* is there, and one about to be deleted has no member.                     *)
Member(m, g) == There(m) /\ monitors[m].group = g
Related(g) ==
  g \notin raced =>
    /\ \A m \in Monitor : Member(m, g) => groups[g] # "absent"
    /\ Dropping(g) => \A m \in Monitor : ~Member(m, g)
    /\ Joining(g) => groups[g] # "absent"

(* A step that only takes away what Related(g) speaks of.                   *)
Quiet(g) ==
  /\ raced \subseteq raced'
  /\ groups[g] # "absent" => groups'[g] # "absent"
  /\ \A m \in Monitor : Member(m, g)' => Member(m, g)
  /\ Dropping(g)' => Dropping(g)
  /\ Joining(g)' => Joining(g)

LEMMA QuietRelated == ASSUME NEW g, Quiet(g), Related(g) PROVE Related(g)'
BY DEF Quiet, Related

LEMMA SameMembers == ASSUME UNCHANGED monitors PROVE \A m, g : Member(m, g)' <=> Member(m, g)
BY DEF Member, There

LEMMA SlotTaken ==
  ASSUME SlotsShaped, NEW w \in Worker, NEW s, slot' = [slot EXCEPT ![w] = s], UNCHANGED script, NEW g
  PROVE  /\ (s.op = "dropGroup" /\ s.group = g) \/ (Dropping(g)' => Dropping(g))
         /\ (s.op \in {"insert", "update"} /\ s.form.group = g) \/ (Joining(g)' => Joining(g))
BY DEF SlotsShaped, Dropping, Joining

LEMMA SlotGiven ==
  ASSUME SlotsShaped, NEW w \in Worker, End(w) \/ slot' = [v \in Worker |-> Idle], UNCHANGED script,
         NEW g
  PROVE  (Dropping(g)' => Dropping(g)) /\ (Joining(g)' => Joining(g))
BY DEF SlotsShaped, End, Idle, Dropping, Joining

(* A monitor enters a group, by a request or the script, that has seen it.  *)
LEMMA JoinRelated ==
  ASSUME Typed, NEW g \in Group, Related(g), NEW m \in Monitor, NEW f \in Config,
         monitors' = [monitors EXCEPT ![m] = f], UNCHANGED groups, Joined(f.group), Joining(f.group),
         Dropping(g)' => Dropping(g), Joining(g)' => Joining(g)
  PROVE  Related(g)'
<1>1. \A n \in Monitor : Member(n, g)' => Member(n, g) \/ f.group = g
  BY DEF Member, There, Typed, TablesTyped
<1>2. raced \subseteq raced'
  BY DEF Joined
<1>3. CASE f.group # g
  BY <1>1, <1>2, <1>3, QuietRelated DEF Quiet
<1>4. CASE f.group = g /\ g \notin raced'
  <2>1. g \notin raced /\ ~Dropping(g)
    BY <1>4 DEF Joined
  <2>2. groups[g] # "absent"
    BY <1>4, <2>1 DEF Related
  <2> QED
    BY <2>1, <2>2 DEF Related
<1>5. CASE g \in raced'
  BY <1>5 DEF Related
<1> QED
  BY <1>3, <1>4, <1>5

LEMMA RequestRelated ==
  ASSUME Setting, Typed, NEW w \in Worker, RequestStep(w), NEW g \in Group, Related(g)
  PROVE  Related(g)'
<1> USE DEF tables, bounds, history
<1>0. SlotsShaped /\ groups \in [Group -> {"absent", "enabled", "disabled"}]
      /\ monitors \in [Monitor -> Config \cup {Nothing}]
  BY DEF Typed, TablesTyped
<1>1. ASSUME NEW h \in Group, CreateGroup(w, h) PROVE Related(g)'
  <2>1. groups[g] # "absent" => groups'[g] # "absent"
    BY <1>0, <1>1 DEF CreateGroup
  <2>2. UNCHANGED <<slot, script, monitors, raced>>
    BY <1>1 DEF CreateGroup
  <2> QED
    BY <2>1, <2>2, SameMembers, QuietRelated DEF Quiet, Dropping, Joining
<1>2. ASSUME NEW h \in Group, PatchGroup(w, h) PROVE Related(g)'
  <2>1. groups[g] # "absent" => groups'[g] # "absent"
    BY <1>0, <1>2 DEF PatchGroup
  <2>2. (Dropping(g)' => Dropping(g)) /\ (Joining(g)' => Joining(g))
    <3>1. [Idle EXCEPT !.op = "patched", !.group = h].op = "patched"
      BY DEF Idle
    <3> QED
      BY <1>0, <1>2, <3>1, SlotTaken DEF PatchGroup, Begin
  <2> QED
    BY <1>2, <2>1, <2>2, SameMembers, QuietRelated DEF Quiet, PatchGroup
<1>3. ASSUME NEW h \in Group, CountMembers(w, h) PROVE Related(g)'
  <2> DEFINE s == [Idle EXCEPT !.op = "dropGroup", !.group = h]
  <2>1. s.op = "dropGroup" /\ s.group = h
    BY DEF Idle
  <2>2. (g = h \/ (Dropping(g)' => Dropping(g))) /\ (Joining(g)' => Joining(g))
    <3> HIDE DEF s
    <3>1. slot' = [slot EXCEPT ![w] = s]
      BY <1>3 DEF CountMembers, Begin, s
    <3> QED
      BY <1>0, <1>3, <2>1, <3>1, SlotTaken DEF CountMembers
  <2>3. raced \subseteq raced' /\ UNCHANGED <<groups, monitors>>
    BY <1>3 DEF CountMembers
  <2>4. CASE g # h
    BY <2>2, <2>3, <2>4, SameMembers, QuietRelated DEF Quiet
  <2>5. CASE g = h /\ g \notin raced'
    <3>1. \A m \in Monitor : ~Member(m, g)
      BY <1>3, <2>5 DEF CountMembers, Member
    <3> QED
      BY <2>2, <2>3, <2>5, <3>1, SameMembers DEF Related
  <2>6. CASE g \in raced'
    BY <2>6 DEF Related
  <2> QED
    BY <2>4, <2>5, <2>6
<1>4. ASSUME NEW m \in Monitor, SetEnabled(w, m) PROVE Related(g)'
  <2>1. ASSUME NEW n \in Monitor, Member(n, g)' PROVE Member(n, g)
    <3>1. PICK on \in BOOLEAN : monitors' = [monitors EXCEPT ![m].enabled = on]
      BY <1>4 DEF SetEnabled
    <3>2. monitors[m] \in Config /\ monitors[m] # Nothing
      BY <1>0, <1>4 DEF SetEnabled, There
    <3>3. n # m => monitors'[n] = monitors[n]
      BY <1>0, <3>1
    <3>4. monitors'[m].group = monitors[m].group
      BY <1>0, <3>1, <3>2 DEF Config
    <3> QED
      BY <2>1, <3>2, <3>3, <3>4 DEF Member, There
  <2> QED
    BY <1>4, <2>1, QuietRelated DEF Quiet, SetEnabled, Dropping, Joining
<1>5. ASSUME NEW m \in Monitor, DeleteShots(w, m) PROVE Related(g)'
  <2>1. (Dropping(g)' => Dropping(g)) /\ (Joining(g)' => Joining(g))
    <3>1. [Idle EXCEPT !.op = "dropRow", !.id = m].op = "dropRow"
      BY DEF Idle
    <3> QED
      BY <1>0, <1>5, <3>1, SlotTaken DEF DeleteShots, Begin
  <2> QED
    BY <1>5, <2>1, SameMembers, QuietRelated DEF Quiet, DeleteShots
<1>6. ASSUME NEW m \in Monitor, NEW f \in Forms, CheckNew(w, m, f) \/ CheckEdit(w, m, f)
      PROVE  Related(g)'
  <2>1. PICK s \in {[Idle EXCEPT !.op = "insert", !.id = m, !.form = f],
                    [Idle EXCEPT !.op = "update", !.id = m, !.form = f]} :
          slot' = [slot EXCEPT ![w] = s]
    BY <1>6 DEF CheckNew, CheckEdit, Begin
  <2>2. s.op \in {"insert", "update"} /\ s.form = f
    BY <2>1 DEF Idle
  <2>3. groups[f.group] # "absent" /\ UNCHANGED <<groups, monitors, script, raced>>
    BY <1>6 DEF CheckNew, CheckEdit
  <2>4. s.form.group = f.group /\ s.op \in {"insert", "update"}
    BY <2>2
  <2>5. slot' = [slot EXCEPT ![w] = s]
    BY <2>1
  <2>6. Dropping(g)' => Dropping(g)
    BY <1>0, <2>3, <2>4, <2>5, SlotTaken
  <2>7. f.group = g \/ (Joining(g)' => Joining(g))
    BY <1>0, <2>3, <2>4, <2>5, SlotTaken
  <2> QED
    BY <2>3, <2>6, <2>7, SameMembers DEF Related
<1>7. CASE PatchReply(w) \/ RequestsEnd(w)
  <2>1. (Dropping(g)' => Dropping(g)) /\ (Joining(g)' => Joining(g))
    BY <1>0, <1>7, SlotGiven DEF PatchReply, RequestsEnd
  <2> QED
    BY <1>7, <2>1, SameMembers, QuietRelated DEF Quiet, PatchReply, RequestsEnd
<1>8. CASE DropGroup(w)
  <2>1. (Dropping(g)' => Dropping(g)) /\ (Joining(g)' => Joining(g))
    BY <1>0, <1>8, SlotGiven DEF DropGroup
  <2>2. raced \subseteq raced' /\ UNCHANGED monitors
    BY <1>8 DEF DropGroup
  <2>3. CASE slot[w].group # g
    BY <1>0, <1>8, <2>1, <2>2, <2>3, SameMembers, QuietRelated DEF Quiet, DropGroup
  <2>4. CASE slot[w].group = g /\ g \notin raced'
    <3>1. ~Joining(g) /\ g \notin raced
      BY <1>8, <2>4 DEF DropGroup
    <3>2. Dropping(g)
      BY <1>8, <2>4 DEF DropGroup, Dropping
    <3>3. \A m \in Monitor : ~Member(m, g)
      BY <3>1, <3>2 DEF Related
    <3> QED
      BY <2>1, <2>2, <3>1, <3>3, SameMembers DEF Related
  <2>5. CASE g \in raced'
    BY <2>5 DEF Related
  <2> QED
    BY <2>3, <2>4, <2>5
<1>9. CASE InsertMonitor(w) \/ UpdateMonitor(w)
  <2> DEFINE s == slot[w]
  <2>1. (Dropping(g)' => Dropping(g)) /\ (Joining(g)' => Joining(g))
    BY <1>0, <1>9, SlotGiven DEF InsertMonitor, UpdateMonitor
  <2>2. s.op \in {"insert", "update"} /\ s.id \in Monitor /\ s.form \in Config /\ UNCHANGED groups
    BY <1>0, <1>9 DEF InsertMonitor, UpdateMonitor, SlotsShaped, Shaped
  <2>3. CASE UNCHANGED <<monitors, raced>>
    BY <2>1, <2>2, <2>3, SameMembers, QuietRelated DEF Quiet
  <2>4. CASE monitors' = [monitors EXCEPT ![s.id] = s.form] /\ Joined(s.form.group)
    <3>1. Joining(s.form.group)
      BY <2>2 DEF Joining
    <3> QED
      BY <2>1, <2>2, <2>4, <3>1, JoinRelated
  <2> QED
    BY <1>9, <2>3, <2>4 DEF InsertMonitor, UpdateMonitor
<1>10. CASE DeleteMonitor(w)
  <2>1. (Dropping(g)' => Dropping(g)) /\ (Joining(g)' => Joining(g))
    BY <1>0, <1>10, SlotGiven DEF DeleteMonitor
  <2>2. \A m \in Monitor : Member(m, g)' => Member(m, g)
    BY <1>0, <1>10 DEF DeleteMonitor, Member, There
  <2> QED
    BY <1>10, <2>1, <2>2, QuietRelated DEF Quiet, DeleteMonitor
<1> QED
  BY <1>1, <1>2, <1>3, <1>4, <1>5, <1>6, <1>7, <1>8, <1>9, <1>10 DEF RequestStep

(* A step of the script that leaves it at a place other than insert.        *)
LEMMA ScriptTaken ==
  ASSUME ScriptsPlaced, NEW c \in Counter, NEW s, On(c, s), s.pc # "insert", UNCHANGED slot, NEW g
  PROVE  (Dropping(g)' => Dropping(g)) /\ (Joining(g)' => Joining(g))
BY DEF ScriptsPlaced, On, Dropping, Joining

LEMMA EnterRelated ==
  ASSUME Setting, Typed, NEW c \in Counter, NEW g \in Group, Related(g),
         EnsureGroup(c) \/ UpsertMonitor(c)
  PROVE  Related(g)'
<1> DEFINE s == script[c]
           h == Category[s.db]
<1> USE DEF history
<1>0. ScriptsPlaced /\ s \in Script /\ Placed(s) /\ UNCHANGED slot
  BY DEF Typed, ScriptsPlaced, EnsureGroup, UpsertMonitor
<1>1. s.db \in Database /\ h \in Group
  BY <1>0, Setting DEF EnsureGroup, UpsertMonitor, At, Placed, InDatabase, Setting
<1>2. CASE EnsureGroup(c)
  <2>1. /\ groups'[h] # "absent" /\ (groups[g] # "absent" => groups'[g] # "absent")
        /\ UNCHANGED <<monitors, raced>>
    BY <1>1, <1>2 DEF EnsureGroup, Typed, TablesTyped
  <2>2. Dropping(g)' => Dropping(g)
    BY <1>0 DEF Dropping
  <2>3. g = h \/ (Joining(g)' => Joining(g))
    <3>1. PICK t : On(c, [s EXCEPT !.pc = "insert", !.tables = s.tables \ {t}, !.table = t])
      BY <1>2 DEF EnsureGroup
    <3>2. script'[c].db = s.db /\ \A d \in Counter : d # c => script'[d] = script[d]
      BY <1>0, <3>1 DEF On, Script, ScriptsPlaced
    <3> QED
      BY <1>0, <3>2 DEF Joining
  <2> QED
    BY <2>1, <2>2, <2>3, SameMembers DEF Related
<1>3. CASE UpsertMonitor(c)
  <2> DEFINE f == Entered(AutoId[s.table], s.table)
  <2>1. s.table \in Table /\ Home[s.table] = s.db /\ AutoId[s.table] \in Monitor
    BY <1>0, <1>3, Setting DEF UpsertMonitor, At, Placed, Setting
  <2>2. f \in Config /\ f.group = h
    <3>1. monitors[AutoId[s.table]] \in Config \cup {Nothing}
      BY <2>1 DEF Typed, TablesTyped
    <3> QED
      BY <1>1, <2>1, <3>1 DEF Entered, There, Config, Frequency
  <2>3. (Dropping(g)' => Dropping(g)) /\ (Joining(g)' => Joining(g))
    <3>1. [s EXCEPT !.pc = "upsert", !.table = Nothing].pc # "insert"
      BY <1>0 DEF Script
    <3> QED
      BY <1>0, <1>3, <3>1, ScriptTaken DEF UpsertMonitor
  <2>4. Joining(h)
    BY <1>3 DEF UpsertMonitor, At, Joining
  <2>5. monitors' = [monitors EXCEPT ![AutoId[s.table]] = f] /\ UNCHANGED groups /\ Joined(h)
    BY <1>3 DEF UpsertMonitor
  <2> HIDE DEF f
  <2> QED
    BY <2>1, <2>2, <2>3, <2>4, <2>5, JoinRelated
<1> QED
  BY <1>2, <1>3

LEMMA ScriptRelated ==
  ASSUME Setting, Typed, NEW c \in Counter, NEW g \in Group, Related(g),
         Begins(c) \/ SyncStep(c) \/ CountStep(c) \/ ScriptDies(c)
  PROVE  Related(g)'
<1> USE DEF tables, bounds, history
<1>1. CASE EnsureGroup(c) \/ UpsertMonitor(c)
  BY <1>1, EnterRelated
<1>2. CASE ~(EnsureGroup(c) \/ UpsertMonitor(c))
  <2>1. UNCHANGED <<groups, slot, raced>>
    BY <1>2 DEF Begins, SyncAndCount, CountAll, Recount, Start, SyncStep, Discover, FindLost,
           ListTables, ListFails, TakeLost, SyncDone, SelectStale, DropShots, DropRows, SkipTable,
           NextDatabase, CountStep, LoadMonitors, Connect, ConnectFails, CountRows, CountFails,
           StoreShot, StoreFails, StoreNoSession, CountsDone, ScriptDies, OnlyScript
  <2>2. \A m \in Monitor : Member(m, g)' => Member(m, g)
    <3>1. CASE DropRows(c)
      BY <3>1 DEF DropRows, Member, There, Typed, TablesTyped
    <3>2. CASE ~DropRows(c)
      <4>1. UNCHANGED monitors
        BY <1>2, <3>2 DEF Begins, SyncAndCount, CountAll, Recount, Start, SyncStep, Discover, FindLost,
           ListTables, ListFails, TakeLost, SyncDone, SelectStale, DropShots, SkipTable,
           NextDatabase, CountStep, LoadMonitors, Connect, ConnectFails, CountRows, CountFails,
           StoreShot, StoreFails, StoreNoSession, CountsDone, ScriptDies, OnlyScript
      <4> QED
        BY <4>1, SameMembers
    <3> QED
      BY <3>1, <3>2
  <2>3. PICK s : On(c, s)
    BY ScriptWrites
  <2>4. s.pc # "insert"
    <3>1. script'[c].pc # "insert"
      BY <1>2, BeginPc, SyncPc, CountPc, DeathPc DEF Counting
    <3> QED
      BY <2>3, <3>1 DEF On, Typed, ScriptsPlaced
  <2> QED
    BY <2>1, <2>2, <2>3, <2>4, ScriptTaken, QuietRelated DEF Quiet, Typed
<1> QED
  BY <1>1, <1>2

LEMMA RelatedKept ==
  ASSUME Setting, Typed, [Next]_vars, NEW g \in Group, Related(g)
  PROVE  Related(g)'
<1>1. CASE Outside \/ UNCHANGED vars
  <2>1. UNCHANGED <<groups, monitors, slot, script, raced>>
    BY <1>1 DEF Outside, ImportCalendar, CreateTable, DropTable, vars, tables, history
  <2> QED
    BY <2>1, SameMembers, QuietRelated DEF Quiet, Dropping, Joining
<1> QED
  BY <1>1, RequestRelated, ScriptRelated DEF Next

(* A monitor whose group is gone is owed to a deletion that overlapped.     *)
THEOREM GroupIsKept == Spec => []GroupKept
<1> DEFINE All == Typed /\ \A g \in Group : Related(g)
<1>1. Init => All
  <2>1. ASSUME Init, NEW g \in Group PROVE Related(g)
    BY <2>1, Setting DEF Init, Related, Dropping, Joining, Idle, Unused, Setting
  <2> QED
    BY <2>1, Setting, InitTyped
<1>2. All /\ [Next]_vars => All'
  BY Setting, NextTyped, RelatedKept
<1>3. All => GroupKept
  <2>1. ASSUME Typed, NEW m \in Monitor, There(m) PROVE monitors[m].group \in Group
    BY <2>1 DEF Typed, TablesTyped, There, Config
  <2> QED
    BY <2>1 DEF GroupKept, Related, Member
<1> HIDE DEF All
<1> QED
  BY <1>1, <1>2, <1>3, PTL DEF Spec

-------------------------------------------------------------------------------
(* Which tables an execution that synchronises may take to be gone.         *)
Tracked(c) ==
  LET s == script[c]
      IsGone(t) == t \in gone[c]
  IN  /\ s.pc \in Syncing => \A t \in Table : t \notin live => IsGone(t)
      /\ s.pc = "existing" => \A t \in Table : Home[t] \notin s.found => IsGone(t)
      /\ s.pc \in Syncing \ {"discover", "existing"} => \A t \in Table : Home[t] \in s.lost => IsGone(t)
      /\ s.pc = "stale" => \A t \in Table : Home[t] = s.db /\ t \notin s.tables => IsGone(t)

LEMMA SameTracked ==
  ASSUME NEW c \in Counter, Tracked(c), script'[c] = script[c], gone[c] \subseteq gone'[c],
         script[c].pc \in Syncing => \A t \in Table : t \in live /\ t \notin live' => t \in gone'[c]
  PROVE  Tracked(c)'
BY DEF Tracked, Syncing

LEMMA OwnTracked ==
  ASSUME Setting, Typed, NEW c \in Counter, Tracked(c), SyncStep(c)
  PROVE  Tracked(c)'
<1> DEFINE s == script[c]
<1> USE DEF history
<1>0. s \in Script /\ script \in [Counter -> Script]
  BY DEF Typed, ScriptsPlaced
<1>1. s.pc \in Syncing => \A t \in Table : t \notin live => t \in gone[c]
  BY DEF Tracked
<1>2. CASE Discover(c)
  <2>1. PICK dbs : /\ {Home[t] : t \in live} \subseteq dbs
                   /\ On(c, [s EXCEPT !.pc = "existing", !.found = dbs])
    BY <1>2 DEF Discover
  <2>2. script'[c].pc = "existing" /\ script'[c].found = dbs
    BY <1>0, <2>1 DEF On, Script
  <2>3. s.pc \in Syncing /\ UNCHANGED <<live, gone>>
    BY <1>2 DEF Discover, OnlyScript, At, Syncing
  <2> QED
    BY <1>1, <2>1, <2>2, <2>3 DEF Tracked
<1>3. CASE FindLost(c)
  <2> DEFINE lost == {Home[monitors[m].table] : m \in {n \in Monitor : There(n)}} \ s.found
  <2>1. script'[c].pc = "list" /\ script'[c].lost = lost
    BY <1>0, <1>3 DEF FindLost, On, Script
  <2>2. s.pc = "existing" /\ UNCHANGED <<live, gone>>
    BY <1>3 DEF FindLost, OnlyScript, At
  <2> QED
    BY <1>1, <2>1, <2>2 DEF Tracked, Syncing
<1>4. CASE ListTables(c)
  <2>1. PICK db \in s.found :
          On(c, [s EXCEPT !.pc = "stale", !.found = s.found \ {db}, !.db = db,
                          !.tables = {t \in live : Home[t] = db}])
    BY <1>4 DEF ListTables
  <2>2. /\ script'[c].pc = "stale" /\ script'[c].lost = s.lost /\ script'[c].db = db
        /\ script'[c].tables = {t \in live : Home[t] = db}
    BY <1>0, <2>1 DEF On, Script
  <2>3. s.pc = "list" /\ UNCHANGED <<live, gone>>
    BY <1>4 DEF ListTables, OnlyScript, At
  <2> QED
    BY <1>1, <2>2, <2>3 DEF Tracked, Syncing
<1>5. CASE TakeLost(c)
  <2>1. PICK db \in s.lost :
          On(c, [s EXCEPT !.pc = "stale", !.lost = s.lost \ {db}, !.db = db, !.tables = {}])
    BY <1>5 DEF TakeLost
  <2>2. script'[c].pc = "stale" /\ script'[c].lost = s.lost \ {db} /\ script'[c].db = db
    BY <1>0, <2>1 DEF On, Script
  <2>3. s.pc = "list" /\ UNCHANGED <<live, gone>>
    BY <1>5 DEF TakeLost, OnlyScript, At
  <2> QED
    BY <1>1, <2>1, <2>2, <2>3 DEF Tracked, Syncing
<1>6. CASE SyncDone(c)
  <2>1. script'[c].pc = "load"
    BY <1>0, <1>6 DEF SyncDone, Goes, On, Script
  <2> QED
    BY <2>1 DEF Tracked, Syncing
<1>7. ASSUME s.pc \in Syncing \ {"discover", "existing"}, UNCHANGED <<live, gone>>,
             script'[c].lost = s.lost, script'[c].pc \notin {"existing", "stale"}
      PROVE  Tracked(c)'
  BY <1>1, <1>7 DEF Tracked
<1>8. CASE ListFails(c)
  <2>1. PICK db : On(c, [s EXCEPT !.found = s.found \ {db}])
    BY <1>8 DEF ListFails
  <2>2. script'[c].lost = s.lost /\ script'[c].pc = s.pc
    BY <1>0, <2>1 DEF On, Script
  <2> QED
    BY <1>7, <1>8, <2>2 DEF ListFails, At, Syncing
<1>9. CASE SelectStale(c)
  <2>1. PICK ids : On(c, [s EXCEPT !.pc = IF ids = {} THEN "upsert" ELSE "dropShots", !.stale = ids])
    BY <1>9 DEF SelectStale
  <2>2. script'[c].lost = s.lost /\ script'[c].pc \in {"upsert", "dropShots"}
    BY <1>0, <2>1 DEF On, Script
  <2> QED
    BY <1>7, <1>9, <2>2 DEF SelectStale, OnlyScript, At, Syncing
<1>10. CASE DropShots(c)
  <2>1. script'[c].lost = s.lost /\ script'[c].pc = "dropRows"
    BY <1>0, <1>10 DEF DropShots, Goes, On, Script
  <2> QED
    BY <1>7, <1>10, <2>1 DEF DropShots, At, Syncing
<1>11. CASE DropRows(c)
  <2>1. script'[c].lost = s.lost /\ script'[c].pc = "upsert"
    BY <1>0, <1>11 DEF DropRows, On, Script
  <2> QED
    BY <1>7, <1>11, <2>1 DEF DropRows, At, Syncing
<1>12. CASE EnsureGroup(c)
  <2>1. PICK t : On(c, [s EXCEPT !.pc = "insert", !.tables = s.tables \ {t}, !.table = t])
    BY <1>12 DEF EnsureGroup
  <2>2. script'[c].lost = s.lost /\ script'[c].pc = "insert"
    BY <1>0, <2>1 DEF On, Script
  <2> QED
    BY <1>7, <1>12, <2>2 DEF EnsureGroup, At, Syncing
<1>13. CASE UpsertMonitor(c)
  <2>1. script'[c].lost = s.lost /\ script'[c].pc = "upsert"
    BY <1>0, <1>13 DEF UpsertMonitor, On, Script
  <2> QED
    BY <1>7, <1>13, <2>1 DEF UpsertMonitor, At, Syncing
<1>14. CASE SkipTable(c)
  <2>1. ASSUME NEW ts, s.pc = "upsert", On(c, [s EXCEPT !.tables = ts])
        PROVE  script'[c].lost = s.lost /\ script'[c].pc = "upsert"
    BY <1>0, <2>1 DEF On, Script
  <2>2. ASSUME On(c, [s EXCEPT !.pc = "upsert", !.table = Nothing])
        PROVE  script'[c].lost = s.lost /\ script'[c].pc = "upsert"
    BY <1>0, <2>2 DEF On, Script
  <2>3. script'[c].lost = s.lost /\ script'[c].pc = "upsert"
    BY <1>14, <2>1, <2>2 DEF SkipTable, At
  <2> QED
    BY <1>7, <1>14, <2>3 DEF SkipTable, At, Syncing
<1>15. CASE NextDatabase(c)
  <2>1. script'[c].lost = s.lost /\ script'[c].pc = "list"
    BY <1>0, <1>15 DEF NextDatabase, On, Script
  <2> QED
    BY <1>7, <1>15, <2>1 DEF NextDatabase, OnlyScript, At, Syncing
<1> QED
  BY <1>2, <1>3, <1>4, <1>5, <1>6, <1>8, <1>9, <1>10, <1>11, <1>12, <1>13, <1>14, <1>15 DEF SyncStep

LEMMA TrackedKept ==
  ASSUME Setting, Typed, [Next]_vars, NEW c \in Counter, Tracked(c)
  PROVE  Tracked(c)'
<1> USE DEF tables, bounds, history
<1>0. script \in [Counter -> Script] /\ gone \in [Counter -> SUBSET Table]
  BY DEF Typed, ScriptsPlaced, HistoryTyped
<1>1. ASSUME UNCHANGED <<live, gone, script>> PROVE Tracked(c)'
  BY <1>1, SameTracked
<1>2. ASSUME NEW w \in Worker, RequestStep(w) PROVE UNCHANGED <<live, gone, script>>
  BY <1>2 DEF RequestStep, CreateGroup, PatchGroup, CountMembers, SetEnabled, CheckNew, CheckEdit,
       PatchReply, DropGroup, InsertMonitor, UpdateMonitor, DeleteMonitor, RequestsEnd, DeleteShots
<1>3. ASSUME NEW a \in Counter, Begins(a) \/ SyncStep(a) \/ CountStep(a) \/ ScriptDies(a), a # c
      PROVE  Tracked(c)'
  <2>1. PICK s : On(a, s)
    BY <1>3, ScriptWrites
  <2>2. script'[c] = script[c]
    BY <1>0, <1>3, <2>1 DEF On
  <2>3. UNCHANGED live /\ \E ts : gone' = [gone EXCEPT ![a] = ts]
    <3>1. UNCHANGED live
      BY <1>3 DEF Begins, SyncAndCount, CountAll, Recount, Start, SyncStep, Discover, FindLost,
           ListTables, ListFails, TakeLost, SyncDone, SelectStale, DropShots, DropRows, EnsureGroup,
           UpsertMonitor, SkipTable, NextDatabase, CountStep, LoadMonitors, Connect, ConnectFails,
           CountRows, CountFails, StoreShot, StoreFails, StoreNoSession, CountsDone, ScriptDies,
           OnlyScript
    <3>2. CASE SyncAndCount(a) \/ SyncDone(a) \/ ScriptDies(a)
      BY <3>1, <3>2 DEF SyncAndCount, SyncDone, ScriptDies
    <3>3. CASE ~(SyncAndCount(a) \/ SyncDone(a) \/ ScriptDies(a))
      <4>1. UNCHANGED gone
        BY <1>3, <3>3 DEF Begins, CountAll, Recount, SyncStep, Discover, FindLost,
           ListTables, ListFails, TakeLost, SelectStale, DropShots, DropRows, EnsureGroup,
           UpsertMonitor, SkipTable, NextDatabase, CountStep, LoadMonitors, Connect, ConnectFails,
           CountRows, CountFails, StoreShot, StoreFails, StoreNoSession, CountsDone, OnlyScript
      <4>2. gone' = [gone EXCEPT ![a] = gone[a]]
        BY <1>0, <4>1
      <4> QED
        BY <3>1, <4>2
    <3> QED
      BY <3>2, <3>3
  <2>4. gone'[c] = gone[c]
    BY <1>0, <1>3, <2>3
  <2> QED
    BY <2>2, <2>3, <2>4, SameTracked
<1>4. CASE SyncAndCount(c)
  <2>1. PICK days : Start(c, "discover", Nothing, days)
    BY <1>4 DEF SyncAndCount
  <2>2. script'[c].pc = "discover" /\ UNCHANGED live
    BY <1>0, <2>1 DEF Start, Unused
  <2>3. gone'[c] = Table \ live
    BY <1>0, <1>4 DEF SyncAndCount
  <2> QED
    BY <2>2, <2>3 DEF Tracked, Syncing
<1>5. ASSUME script'[c].pc \notin Syncing PROVE Tracked(c)'
  BY <1>5 DEF Tracked, Syncing
<1>6. CASE CountAll(c) \/ \E m \in Monitor : Recount(c, m)
  <2>1. PICK only, days : Start(c, "load", only, days)
    BY <1>6 DEF CountAll, Recount
  <2>2. script'[c].pc = "load"
    BY <1>0, <2>1 DEF Start, Unused
  <2> QED
    BY <1>5, <2>2 DEF Syncing
<1>7. CASE CountStep(c) \/ ScriptDies(c)
  BY <1>5, <1>7, CountPc, DeathPc DEF Counting, Syncing
<1>8. CASE Outside
  <2>1. CASE ImportCalendar
    BY <1>1, <2>1 DEF ImportCalendar
  <2>2. ASSUME NEW t \in Table, CreateTable(t) PROVE Tracked(c)'
    BY <2>2, SameTracked DEF CreateTable
  <2>3. ASSUME NEW t \in Table, DropTable(t) PROVE Tracked(c)'
    <3>1. gone[c] \subseteq gone'[c] /\ (script[c].pc \in Syncing => t \in gone'[c])
      BY <1>0, <2>3 DEF DropTable
    <3> QED
      BY <2>3, <3>1, SameTracked DEF DropTable
  <2> QED
    BY <1>8, <2>1, <2>2, <2>3 DEF Outside
<1>9. CASE UNCHANGED vars
  BY <1>1, <1>9 DEF vars
<1> QED
  BY <1>1, <1>2, <1>3, <1>4, <1>6, <1>7, <1>8, <1>9, OwnTracked DEF Next, Begins

(* A monitor is picked for deletion by its table.                           *)
LEMMA PickedIsGone ==
  ASSUME Setting, Typed, Next, NEW c \in Counter, Tracked(c),
         NEW m \in script'[c].stale, m \notin script[c].stale
  PROVE  There(m) /\ monitors[m].table \in gone[c]
<1> USE DEF tables, bounds, history
<1>0. script[c] \in Script /\ script \in [Counter -> Script]
  BY DEF Typed, ScriptsPlaced
<1>1. SelectStale(c)
  <2>1. UNCHANGED script => FALSE
    OBVIOUS
  <2>2. PICK a \in Counter : Begins(a) \/ SyncStep(a) \/ CountStep(a) \/ ScriptDies(a)
    BY <2>1, OthersLeaveScript DEF Next
  <2>3. \E s : On(a, s)
    BY <2>2, ScriptWrites
  <2>4. a = c
    BY <1>0, <2>3 DEF On
  <2>5. ~Begins(c) /\ ~CountsDone(c) /\ ~ScriptDies(c) /\ ~DropRows(c)
    <3>1. ASSUME NEW pc, NEW only, NEW days, Start(c, pc, only, days) PROVE script'[c].stale = {}
      BY <1>0, <3>1 DEF Start, Unused
    <3>2. CountsDone(c) \/ ScriptDies(c) => script'[c].stale = {}
      BY <1>0 DEF CountsDone, ScriptDies, On, Unused
    <3>3. DropRows(c) => script'[c].stale = {}
      BY <1>0 DEF DropRows, On, Script
    <3> QED
      BY <3>1, <3>2, <3>3 DEF Begins, SyncAndCount, CountAll, Recount
  <2>6. ~CountStep(c)
    <3>1. LoadMonitors(c) => script'[c].stale \in {script[c].stale, {}}
      <4>1. ASSUME NEW x, NEW y, On(c, [script[c] EXCEPT !.pc = "connect", !.loaded = x, !.left = y])
            PROVE  script'[c].stale = script[c].stale
        BY <1>0, <4>1 DEF On, Script
      <4>2. On(c, [Unused EXCEPT !.pc = "exit2"]) => script'[c].stale = {}
        BY <1>0 DEF On, Unused
      <4> QED
        BY <4>1, <4>2 DEF LoadMonitors
    <3>2. Connect(c) \/ ConnectFails(c) => script'[c].stale = script[c].stale
      BY <1>0 DEF Connect, ConnectFails, Goes, On, Script
    <3>3. CountRows(c) \/ CountFails(c) => script'[c].stale = script[c].stale
      <4>1. ASSUME NEW p, NEW n, Counts(c, p, n) PROVE script'[c].stale = script[c].stale
        BY <1>0, <4>1 DEF Counts, On, Script
      <4> QED
        BY <4>1 DEF CountRows, CountFails
    <3>4. StoreShot(c) \/ StoreFails(c) => script'[c].stale = script[c].stale
      <4>1. StoreShot(c) => script'[c].stale = script[c].stale
        BY <1>0 DEF StoreShot, On, Script
      <4>2. StoreFails(c) => script'[c].stale = script[c].stale
        BY <1>0 DEF StoreFails, On, Script
      <4> QED
        BY <4>1, <4>2
    <3>5. StoreNoSession(c) => script'[c].stale = script[c].stale
      <4>1. ASSUME NEW p, On(c, [script[c] EXCEPT !.left = script[c].left \ {p}])
            PROVE  script'[c].stale = script[c].stale
        BY <1>0, <4>1 DEF On, Script
      <4> QED
        BY <4>1 DEF StoreNoSession
    <3> QED
      BY <2>5, <3>1, <3>2, <3>3, <3>4, <3>5 DEF CountStep
  <2>7. ~Discover(c) /\ ~FindLost(c) /\ ~ListTables(c)
    <3>1. ASSUME NEW x, On(c, [script[c] EXCEPT !.pc = "existing", !.found = x])
          PROVE  script'[c].stale = script[c].stale
      BY <1>0, <3>1 DEF On, Script
    <3>2. ASSUME NEW x, On(c, [script[c] EXCEPT !.pc = "list", !.lost = x])
          PROVE  script'[c].stale = script[c].stale
      BY <1>0, <3>2 DEF On, Script
    <3>3. ASSUME NEW x, NEW y, NEW z,
                 On(c, [script[c] EXCEPT !.pc = "stale", !.found = x, !.db = y, !.tables = z])
          PROVE  script'[c].stale = script[c].stale
      BY <1>0, <3>3 DEF On, Script
    <3> QED
      BY <3>1, <3>2, <3>3 DEF Discover, FindLost, ListTables
  <2>8. ~ListFails(c) /\ ~TakeLost(c) /\ ~SyncDone(c) /\ ~DropShots(c)
    <3>1. ASSUME NEW x, On(c, [script[c] EXCEPT !.found = x]) PROVE script'[c].stale = script[c].stale
      BY <1>0, <3>1 DEF On, Script
    <3>2. ASSUME NEW x, NEW y, On(c, [script[c] EXCEPT !.pc = "stale", !.lost = x, !.db = y, !.tables = {}])
          PROVE  script'[c].stale = script[c].stale
      BY <1>0, <3>2 DEF On, Script
    <3>3. ASSUME NEW x, Goes(c, x) PROVE script'[c].stale = script[c].stale
      BY <1>0, <3>3 DEF Goes, On, Script
    <3> QED
      BY <3>1, <3>2, <3>3 DEF ListFails, TakeLost, SyncDone, DropShots
  <2>9. ~EnsureGroup(c) /\ ~UpsertMonitor(c) /\ ~SkipTable(c) /\ ~NextDatabase(c)
    <3>1. ASSUME NEW x, NEW y, On(c, [script[c] EXCEPT !.pc = "insert", !.tables = x, !.table = y])
          PROVE  script'[c].stale = script[c].stale
      BY <1>0, <3>1 DEF On, Script
    <3>2. ASSUME On(c, [script[c] EXCEPT !.pc = "upsert", !.table = Nothing])
          PROVE  script'[c].stale = script[c].stale
      BY <1>0, <3>2 DEF On, Script
    <3>3. ASSUME NEW x, On(c, [script[c] EXCEPT !.tables = x]) PROVE script'[c].stale = script[c].stale
      BY <1>0, <3>3 DEF On, Script
    <3>4. ASSUME On(c, [script[c] EXCEPT !.pc = "list", !.db = Nothing])
          PROVE  script'[c].stale = script[c].stale
      BY <1>0, <3>4 DEF On, Script
    <3> QED
      BY <3>1, <3>2, <3>3, <3>4 DEF EnsureGroup, UpsertMonitor, SkipTable, NextDatabase
  <2> QED
    BY <2>2, <2>4, <2>5, <2>6, <2>7, <2>8, <2>9 DEF SyncStep
<1>2. m \in {n \in Monitor : There(n) /\ Home[monitors[n].table] = script[c].db
                                        /\ monitors[n].table \notin script[c].tables}
  <2> DEFINE ids == {n \in Monitor : There(n) /\ Home[monitors[n].table] = script[c].db
                                              /\ monitors[n].table \notin script[c].tables}
  <2>1. script'[c].stale = ids
    <3>1. On(c, [script[c] EXCEPT !.pc = IF ids = {} THEN "upsert" ELSE "dropShots", !.stale = ids])
      BY <1>1 DEF SelectStale
    <3> HIDE DEF ids
    <3> QED
      BY <1>0, <3>1 DEF On, Script
  <2> QED
    BY <2>1
<1>3. monitors[m].table \in Table
  BY <1>2 DEF Typed, TablesTyped, There, Config
<1> QED
  BY <1>1, <1>2, <1>3 DEF SelectStale, At, Tracked

(* A monitor that goes.                                                     *)
LEMMA GoneIsDeleted ==
  ASSUME Setting, Typed, Next, NEW m \in Monitor, There(m), monitors'[m] = Nothing
  PROVE  \/ \E w \in Worker : slot[w].op = "dropRow" /\ slot[w].id = m
         \/ \E c \in Counter : At(c, "dropRows") /\ m \in script[c].stale
<1> USE DEF tables, bounds, history
<1>0. monitors \in [Monitor -> Config \cup {Nothing}] /\ Nothing \notin Config
  BY Setting DEF Typed, TablesTyped, Setting
<1>1. ASSUME NEW n \in Monitor, NEW f \in Config, monitors' = [monitors EXCEPT ![n] = f] PROVE FALSE
  BY <1>0, <1>1 DEF There
<1>2. UNCHANGED monitors => FALSE
  BY DEF There
<1>3. ASSUME NEW w \in Worker, RequestStep(w)
      PROVE  slot[w].op = "dropRow" /\ slot[w].id = m
  <2>1. ASSUME NEW n \in Monitor, SetEnabled(w, n) PROVE FALSE
    <3>1. PICK on \in BOOLEAN : monitors' = [monitors EXCEPT ![n].enabled = on]
      BY <2>1 DEF SetEnabled
    <3>2. [monitors[n] EXCEPT !.enabled = on] \in Config
      BY <1>0, <2>1 DEF SetEnabled, There, Config
    <3> QED
      BY <1>1, <3>1, <3>2
  <2>2. ASSUME InsertMonitor(w) \/ UpdateMonitor(w) PROVE FALSE
    <3>1. slot[w].id \in Monitor /\ slot[w].form \in Config
      BY <2>2 DEF InsertMonitor, UpdateMonitor, Typed, SlotsShaped, Shaped
    <3> QED
      BY <1>1, <1>2, <2>2, <3>1 DEF InsertMonitor, UpdateMonitor
  <2>3. CASE DeleteMonitor(w)
    BY <1>0, <2>3 DEF DeleteMonitor, There
  <2> QED
    BY <1>2, <1>3, <2>1, <2>2, <2>3 DEF RequestStep, CreateGroup, PatchGroup, CountMembers, CheckNew,
       CheckEdit, PatchReply, DropGroup, RequestsEnd, DeleteShots
<1>4. ASSUME NEW c \in Counter, Begins(c) \/ SyncStep(c) \/ CountStep(c) \/ ScriptDies(c)
      PROVE  At(c, "dropRows") /\ m \in script[c].stale
  <2>1. ASSUME UpsertMonitor(c) PROVE FALSE
    <3> DEFINE s == script[c]
               f == Entered(AutoId[s.table], s.table)
    <3>1. s.table \in Table /\ Home[s.table] \in Database /\ AutoId[s.table] \in Monitor
      BY <2>1, Setting DEF UpsertMonitor, At, Typed, ScriptsPlaced, Placed, Setting
    <3>2. f \in Config
      <4>1. monitors[AutoId[s.table]] \in Config \cup {Nothing} /\ Category[Home[s.table]] \in Group
        BY <1>0, <3>1, Setting DEF Setting
      <4> QED
        BY <3>1, <4>1 DEF Entered, There, Config, Frequency
    <3>3. monitors' = [monitors EXCEPT ![AutoId[s.table]] = f]
      BY <2>1 DEF UpsertMonitor
    <3> HIDE DEF f
    <3> QED
      BY <1>1, <3>1, <3>2, <3>3
  <2>2. CASE DropRows(c)
    BY <1>0, <2>2 DEF DropRows, There
  <2> QED
    BY <1>2, <1>4, <2>1, <2>2 DEF Begins, SyncAndCount, CountAll, Recount, Start, SyncStep, Discover,
       FindLost, ListTables, ListFails, TakeLost, SyncDone, SelectStale, DropShots, EnsureGroup,
       SkipTable, NextDatabase, CountStep, LoadMonitors, Connect, ConnectFails, CountRows, CountFails,
       StoreShot, StoreFails, StoreNoSession, CountsDone, ScriptDies, OnlyScript
<1>5. CASE Outside
  BY <1>2, <1>5 DEF Outside, ImportCalendar, CreateTable, DropTable
<1> QED
  BY <1>3, <1>4, <1>5 DEF Next

(* "A failed table listing is not treated as deletion."                     *)
THEOREM GoneOnlyRemoved == Spec => OnlyGoneRemoved
<1> DEFINE All == Typed /\ \A c \in Counter : Tracked(c)
           Removal ==
             /\ \A c \in Counter : \A m \in script'[c].stale \ script[c].stale :
                  There(m) /\ monitors[m].table \in gone[c]
             /\ \A m \in Monitor : There(m) /\ monitors'[m] = Nothing =>
                  \/ \E w \in Worker : slot[w].op = "dropRow" /\ slot[w].id = m
                  \/ \E c \in Counter : At(c, "dropRows") /\ m \in script[c].stale
<1>1. Init => All
  <2>1. Init => \A c \in Counter : script[c].pc = "none"
    BY DEF Init, Unused
  <2> QED
    BY <2>1, Setting, InitTyped DEF Tracked, Syncing
<1>2. All /\ [Next]_vars => All'
  BY Setting, NextTyped, TrackedKept
<1>3. All /\ [Next]_vars => [Removal]_vars
  BY Setting, PickedIsGone, GoneIsDeleted
<1>4. [][Removal]_vars <=> OnlyGoneRemoved
  BY PTL DEF OnlyGoneRemoved
<1> HIDE DEF All, Removal
<1> QED
  BY <1>1, <1>2, <1>3, <1>4, PTL DEF Spec

-------------------------------------------------------------------------------
(* What a user sees.  A count without rows, stored or held by the script,   *)
(* has the status that the frequency and the calendar of now call for, as   *)
(* long as neither has changed.                                             *)
Right(m, d, n) ==
  n.rows = 0 => /\ There(m)
                /\ n.status = CountStatus(0, IsExpected(calendar, d, monitors[m].freq))
Held(c, m) ==
  LET s == script[c] IN
  s.pc \in Counting =>
    /\ s.loaded[m] # Nothing => There(m) /\ s.loaded[m].freq = monitors[m].freq
    /\ s.pc = "store" /\ s.item[2] = m => Right(m, s.item[1], s.shot)
Fresh(m) ==
  m \notin touched =>
    /\ \A c \in Counter : Held(c, m)
    /\ \A d \in Dates : snaps[m][d] # Nothing => Right(m, d, snaps[m][d])

(* What is still to be counted was loaded.                                  *)
Listed(c) ==
  script[c].pc \in Counting =>
    \A p \in script[c].left : script[c].loaded[p[2]] # Nothing

LEMMA FreqKept ==
  ASSUME Setting, Typed, [Next]_vars, NEW m \in Monitor, m \notin touched'
  PROVE  /\ m \notin touched /\ UNCHANGED calendar
         /\ There(m) => There(m)' /\ monitors'[m].freq = monitors[m].freq
<1> USE DEF tables, bounds, history
<1>0. monitors \in [Monitor -> Config \cup {Nothing}] /\ Nothing \notin Config
  BY Setting DEF Typed, TablesTyped, Setting
<1>1. CASE UNCHANGED <<monitors, touched, calendar>>
  BY <1>1 DEF There
<1>2. ASSUME NEW n \in Monitor, NEW f \in Config, monitors' = [monitors EXCEPT ![n] = f],
             There(n) => f.freq = monitors[n].freq
      PROVE  There(m) => There(m)' /\ monitors'[m].freq = monitors[m].freq
  BY <1>0, <1>2 DEF There
<1>3. ASSUME NEW w \in Worker, RequestStep(w)
      PROVE  /\ m \notin touched /\ UNCHANGED calendar
             /\ There(m) => There(m)' /\ monitors'[m].freq = monitors[m].freq
  <2>1. ASSUME NEW n \in Monitor, SetEnabled(w, n)
        PROVE  There(m) => There(m)' /\ monitors'[m].freq = monitors[m].freq
    <3>1. PICK on \in BOOLEAN : monitors' = [monitors EXCEPT ![n].enabled = on]
      BY <2>1 DEF SetEnabled
    <3>2. [monitors[n] EXCEPT !.enabled = on] \in Config
          /\ [monitors[n] EXCEPT !.enabled = on].freq = monitors[n].freq
      BY <1>0, <2>1 DEF SetEnabled, There, Config
    <3> QED
      BY <1>2, <3>1, <3>2
  <2>2. CASE InsertMonitor(w)
    <3>1. slot[w].id \in Monitor /\ slot[w].form \in Config
      BY <2>2 DEF InsertMonitor, Typed, SlotsShaped, Shaped
    <3> QED
      BY <1>1, <1>2, <2>2, <3>1 DEF InsertMonitor
  <2>3. CASE UpdateMonitor(w)
    <3>1. slot[w].id \in Monitor /\ slot[w].form \in Config
      BY <2>3 DEF UpdateMonitor, Typed, SlotsShaped, Shaped
    <3>2. m \notin touched /\ UNCHANGED calendar
      BY <2>3 DEF UpdateMonitor
    <3>3. CASE slot[w].id = m
      BY <1>0, <1>1, <2>3, <3>1, <3>2, <3>3 DEF UpdateMonitor, There
    <3>4. CASE slot[w].id # m
      BY <1>0, <1>1, <2>3, <3>1, <3>2, <3>4 DEF UpdateMonitor, There
    <3> QED
      BY <3>3, <3>4
  <2>4. CASE DeleteMonitor(w)
    BY <1>0, <2>4 DEF DeleteMonitor, There
  <2> QED
    BY <1>1, <1>3, <2>1, <2>2, <2>3, <2>4 DEF RequestStep, CreateGroup, PatchGroup, CountMembers,
       SetEnabled, CheckNew, CheckEdit, PatchReply, DropGroup, RequestsEnd, DeleteShots
<1>4. ASSUME NEW c \in Counter, Begins(c) \/ SyncStep(c) \/ CountStep(c) \/ ScriptDies(c)
      PROVE  /\ m \notin touched /\ UNCHANGED calendar
             /\ There(m) => There(m)' /\ monitors'[m].freq = monitors[m].freq
  <2>1. CASE UpsertMonitor(c)
    <3> DEFINE s == script[c]
               f == Entered(AutoId[s.table], s.table)
    <3>1. s.table \in Table /\ Home[s.table] \in Database /\ AutoId[s.table] \in Monitor
      BY <2>1, Setting DEF UpsertMonitor, At, Typed, ScriptsPlaced, Placed, Setting
    <3>2. f \in Config /\ (There(AutoId[s.table]) => f.freq = monitors[AutoId[s.table]].freq)
      <4>1. monitors[AutoId[s.table]] \in Config \cup {Nothing} /\ Category[Home[s.table]] \in Group
        BY <1>0, <3>1, Setting DEF Setting
      <4> QED
        BY <3>1, <4>1 DEF Entered, There, Config, Frequency
    <3>3. monitors' = [monitors EXCEPT ![AutoId[s.table]] = f] /\ UNCHANGED <<touched, calendar>>
      BY <2>1 DEF UpsertMonitor
    <3> HIDE DEF f
    <3> QED
      BY <1>2, <3>1, <3>2, <3>3
  <2>2. CASE DropRows(c)
    BY <1>0, <2>2 DEF DropRows, There
  <2> QED
    BY <1>1, <1>4, <2>1, <2>2 DEF Begins, SyncAndCount, CountAll, Recount, Start, SyncStep, Discover,
       FindLost, ListTables, ListFails, TakeLost, SyncDone, SelectStale, DropShots, EnsureGroup,
       SkipTable, NextDatabase, CountStep, LoadMonitors, Connect, ConnectFails, CountRows, CountFails,
       StoreShot, StoreFails, StoreNoSession, CountsDone, ScriptDies, OnlyScript
<1>5. CASE Outside
  BY <1>1, <1>5 DEF Outside, ImportCalendar, CreateTable, DropTable
<1>6. CASE UNCHANGED vars
  BY <1>1, <1>6 DEF vars
<1> QED
  BY <1>3, <1>4, <1>5, <1>6 DEF Next

LEMMA RightKept ==
  ASSUME NEW m, NEW d, NEW n, Right(m, d, n), UNCHANGED calendar,
         There(m) => There(m)' /\ monitors'[m].freq = monitors[m].freq
  PROVE  Right(m, d, n)'
BY DEF Right

LEMMA CountingScript ==
  ASSUME Typed, [Next]_vars, NEW c \in Counter, script'[c].pc \in Counting
  PROVE  script'[c] = script[c] \/ CountStep(c)
<1> USE DEF tables, bounds, history
<1>0. script \in [Counter -> Script]
  BY DEF Typed, ScriptsPlaced
<1>1. ASSUME NEW a \in Counter, Begins(a) \/ SyncStep(a) \/ CountStep(a) \/ ScriptDies(a), a # c
      PROVE  script'[c] = script[c]
  <2>1. \E s : On(a, s)
    BY <1>1, ScriptWrites
  <2> QED
    BY <1>0, <1>1, <2>1 DEF On
<1>2. ~Begins(c) /\ ~SyncStep(c) /\ ~ScriptDies(c)
  BY BeginPc, SyncPc, DeathPc DEF Counting, Syncing
<1>3. CASE (\E w \in Worker : RequestStep(w)) \/ Outside
  BY <1>3, OthersLeaveScript
<1>4. CASE UNCHANGED vars
  BY <1>4 DEF vars
<1> QED
  BY <1>1, <1>2, <1>3, <1>4 DEF Next

(* The steps of a count: it loads; or it goes on with what it loaded, and   *)
(* what it then holds was just counted, or failed.                          *)
LoadsNow(c) ==
  LET s == script'[c] IN
  /\ s.pc = "connect" /\ UNCHANGED monitors
  /\ \A m \in Monitor : s.loaded[m] # Nothing => There(m) /\ s.loaded[m] = monitors[m]
  /\ \A p \in s.left : s.loaded[p[2]] # Nothing
GoesOn(c) ==
  LET s == script[c]
      t == script'[c]
  IN  /\ s.pc \in Counting /\ t.loaded = s.loaded /\ t.left \subseteq s.left
      /\ t.pc = "store" => \/ t.shot.rows # 0
                           \/ t.item \in s.left /\ t.shot \in Measured(c, t.item[1], t.item[2])

LEMMA CountMoves ==
  ASSUME Typed, NEW c \in Counter, CountStep(c), script'[c].pc \in Counting
  PROVE  LoadsNow(c) \/ GoesOn(c)
<1> DEFINE s == script[c]
<1> USE DEF history
<1>0. s \in Script /\ script \in [Counter -> Script] /\ Placed(s) /\ Failed.rows # 0
  BY DEF Typed, ScriptsPlaced, Failed
<1>1. CASE LoadMonitors(c)
  <2> DEFINE wanted(m) == /\ There(m) /\ monitors[m].enabled /\ groups[monitors[m].group] = "enabled"
                          /\ script[c].only \in {Nothing, m}
             now == [m \in Monitor |-> IF wanted(m) THEN monitors[m] ELSE Nothing]
             all == s.dates \X {m \in Monitor : wanted(m)}
  <2>1. ~On(c, [Unused EXCEPT !.pc = "exit2"])
    BY <1>0 DEF On, Unused, Counting
  <2>2. On(c, [s EXCEPT !.pc = "connect", !.loaded = now, !.left = all]) /\ UNCHANGED monitors
    BY <1>1, <2>1 DEF LoadMonitors, OnlyScript, tables
  <2>3. script'[c].loaded = now /\ script'[c].left = all /\ script'[c].pc = "connect"
    <3> HIDE DEF now, all
    <3> QED
      BY <1>0, <2>2 DEF On, Script
  <2>4. \A m \in Monitor : now[m] # Nothing => There(m) /\ now[m] = monitors[m]
    OBVIOUS
  <2>5. \A p \in all : now[p[2]] # Nothing
    <3>1. \A m \in Monitor : wanted(m) => now[m] = monitors[m] /\ now[m] # Nothing
      BY DEF There
    <3> QED
      BY <3>1
  <2> QED
    BY <2>2, <2>3, <2>4, <2>5 DEF LoadsNow
<1>2. CASE Connect(c) \/ ConnectFails(c)
  <2>1. PICK pc \in {"count", "noSession"} : On(c, [s EXCEPT !.pc = pc])
    BY <1>2 DEF Connect, ConnectFails, Goes
  <2>2. script'[c].loaded = s.loaded /\ script'[c].left = s.left /\ script'[c].pc # "store"
    BY <1>0, <2>1 DEF On, Script
  <2> QED
    BY <1>2, <2>2 DEF Connect, ConnectFails, At, Counting, GoesOn
<1>3. CASE CountRows(c) \/ CountFails(c)
  <2>1. PICK p, n : /\ p \in s.left /\ Counts(c, p, n)
                    /\ n \in Measured(c, p[1], p[2]) \/ n = Failed
    BY <1>3 DEF CountRows, CountFails
  <2>2. /\ script'[c].loaded = s.loaded /\ script'[c].left = s.left
        /\ script'[c].item = p /\ script'[c].shot = n
    BY <1>0, <2>1 DEF Counts, On, Script
  <2> QED
    BY <1>0, <1>3, <2>1, <2>2 DEF CountRows, CountFails, At, Counting, GoesOn
<1>4. CASE StoreShot(c)
  <2>1. /\ script'[c].loaded = s.loaded /\ script'[c].left = s.left \ {s.item}
        /\ script'[c].pc = "count"
    BY <1>0, <1>4 DEF StoreShot, On, Script
  <2> QED
    BY <1>4, <2>1 DEF StoreShot, At, Counting, GoesOn
<1>5. CASE StoreFails(c)
  <2>1. /\ script'[c].loaded = s.loaded /\ script'[c].left = s.left
        /\ script'[c].shot = Failed
    BY <1>0, <1>5 DEF StoreFails, On, Script
  <2> QED
    BY <1>0, <1>5, <2>1 DEF StoreFails, At, Counting, GoesOn
<1>6. CASE StoreNoSession(c)
  <2>1. PICK p \in s.left : On(c, [s EXCEPT !.left = s.left \ {p}])
    BY <1>6 DEF StoreNoSession
  <2>2. /\ script'[c].loaded = s.loaded /\ script'[c].left \subseteq s.left
        /\ script'[c].pc = s.pc
    BY <1>0, <2>1 DEF On, Script
  <2> QED
    BY <1>6, <2>2 DEF StoreNoSession, At, Counting, GoesOn
<1>7. CASE CountsDone(c)
  <2>1. script'[c].pc = "exit0"
    BY <1>0, <1>7 DEF CountsDone, On, Unused
  <2> QED
    BY <2>1 DEF Counting
<1> QED
  BY <1>1, <1>2, <1>3, <1>4, <1>5, <1>6, <1>7 DEF CountStep

LEMMA ListedKept ==
  ASSUME Typed, [Next]_vars, NEW c \in Counter, Listed(c)
  PROVE  Listed(c)'
BY CountingScript, CountMoves DEF Listed, LoadsNow, GoesOn

(* A table that is there has been counted by the frequency that was loaded. *)
LEMMA MeasuredRight ==
  ASSUME NEW c, NEW d, NEW m, NEW n \in Measured(c, d, m), n.rows = 0
  PROVE  n.status = CountStatus(0, IsExpected(calendar, d, script[c].loaded[m].freq))
BY DEF Measured, Failed

LEMMA HeldKept ==
  ASSUME Setting, Typed, [Next]_vars, NEW c \in Counter, NEW m \in Monitor, m \notin touched',
         Listed(c), Held(c, m)
  PROVE  Held(c, m)'
<1>0. UNCHANGED calendar /\ (There(m) => There(m)' /\ monitors'[m].freq = monitors[m].freq)
  BY FreqKept
<1> PICK t : t = script'[c]
  OBVIOUS
<1>1. SUFFICES ASSUME t.pc \in Counting
               PROVE  /\ t.loaded[m] # Nothing => There(m)' /\ t.loaded[m].freq = monitors'[m].freq
                      /\ t.pc = "store" /\ t.item[2] = m => Right(m, t.item[1], t.shot)'
  BY DEF Held
<1>2. CASE t = script[c]
  <2>1. t.pc = "store" /\ t.item[2] = m => Right(m, t.item[1], t.shot)
    BY <1>1, <1>2 DEF Held
  <2> QED
    BY <1>0, <1>1, <1>2, <2>1, RightKept DEF Held, Right
<1>3. CASE LoadsNow(c)
  BY <1>0, <1>3 DEF LoadsNow
<1>4. CASE GoesOn(c)
  <2>1. t.loaded[m] # Nothing => There(m) /\ t.loaded[m].freq = monitors[m].freq
    BY <1>4 DEF GoesOn, Held
  <2>2. ASSUME t.pc = "store", t.item[2] = m, t.shot.rows = 0
        PROVE  There(m) /\ t.shot.status = CountStatus(0, IsExpected(calendar, t.item[1], monitors[m].freq))
    <3>1. t.item \in script[c].left /\ t.shot \in Measured(c, t.item[1], m)
      BY <1>4, <2>2 DEF GoesOn
    <3>2. script[c].loaded[m] # Nothing
      BY <1>4, <2>2, <3>1 DEF Listed, GoesOn
    <3> QED
      BY <1>4, <2>2, <3>1, <3>2, MeasuredRight DEF Held, GoesOn
  <2> QED
    BY <1>0, <2>1, <2>2 DEF Right
<1> QED
  BY <1>1, <1>2, <1>3, <1>4, CountingScript, CountMoves

LEMMA SnapsRight ==
  ASSUME Setting, Typed, [Next]_vars, NEW m \in Monitor, m \notin touched',
         \A c \in Counter : Held(c, m),
         NEW d \in Dates, snaps[m][d] # Nothing => Right(m, d, snaps[m][d]),
         snaps'[m][d] # Nothing
  PROVE  Right(m, d, snaps[m][d])'
<1> USE DEF tables, bounds, history
<1>0. /\ UNCHANGED calendar /\ (There(m) => There(m)' /\ monitors'[m].freq = monitors[m].freq)
      /\ snaps \in [Monitor -> [Dates -> Shot \cup {Nothing}]] /\ Failed.rows # 0
  BY FreqKept DEF Typed, TablesTyped, Failed
<1>1. CASE snaps'[m][d] = snaps[m][d]
  BY <1>0, <1>1 DEF Right
<1>2. ASSUME NEW p \in Dates \X Monitor, NEW n, Stored(p, n), snaps'[m][d] # snaps[m][d]
      PROVE  p[1] = d /\ p[2] = m /\ snaps'[m][d] = n
  BY <1>0, <1>2 DEF Stored
<1>3. ASSUME NEW c \in Counter, StoreShot(c) PROVE Right(m, d, snaps[m][d])'
  <2> DEFINE s == script[c]
  <2>1. s.pc = "store" /\ s.item \in Dates \X Monitor
    BY <1>3 DEF StoreShot, At, Typed, ScriptsPlaced, Placed, Script
  <2>2. CASE snaps'[m][d] # snaps[m][d]
    <3>1. s.item[1] = d /\ s.item[2] = m /\ snaps'[m][d] = s.shot
      BY <1>2, <1>3, <2>1, <2>2 DEF StoreShot
    <3>2. Right(m, d, s.shot)
      BY <2>1, <3>1 DEF Held, Counting
    <3> QED
      BY <1>0, <3>1, <3>2 DEF Right
  <2> QED
    BY <1>1, <2>2
<1>4. ASSUME NEW c \in Counter, StoreNoSession(c) PROVE Right(m, d, snaps[m][d])'
  <2>1. PICK p \in script[c].left : Stored(p, Failed)
    BY <1>4 DEF StoreNoSession
  <2>2. p \in Dates \X Monitor
    BY DEF Typed, ScriptsPlaced, Script
  <2>3. snaps'[m][d] # snaps[m][d] => snaps'[m][d].rows # 0
    BY <1>0, <1>2, <2>1, <2>2
  <2> QED
    BY <1>1, <2>3 DEF Right
<1>5. ASSUME NEW S, Cleared(S) PROVE Right(m, d, snaps[m][d])'
  <2>1. snaps'[m] = NoShots \/ snaps'[m] = snaps[m]
    BY <1>0, <1>5 DEF Cleared
  <2> QED
    BY <1>1, <2>1 DEF NoShots
<1>6. ASSUME NEW c \in Counter, Begins(c) \/ SyncStep(c) \/ CountStep(c) \/ ScriptDies(c),
             ~StoreShot(c), ~StoreNoSession(c), ~DropShots(c)
      PROVE  UNCHANGED snaps
  BY <1>6 DEF Begins, SyncAndCount, CountAll, Recount, Start, SyncStep, Discover,
     FindLost, ListTables, ListFails, TakeLost, SyncDone, SelectStale, DropRows, EnsureGroup,
     UpsertMonitor, SkipTable, NextDatabase, CountStep, LoadMonitors, Connect, ConnectFails,
     CountRows, CountFails, StoreFails, CountsDone, ScriptDies, OnlyScript
<1>7. ASSUME NEW w \in Worker, RequestStep(w), ~(\E n \in Monitor : DeleteShots(w, n)) PROVE UNCHANGED snaps
  BY <1>7 DEF RequestStep, CreateGroup, PatchGroup, CountMembers, SetEnabled, CheckNew, CheckEdit,
     PatchReply, DropGroup, InsertMonitor, UpdateMonitor, DeleteMonitor, RequestsEnd
<1>8. CASE Outside \/ UNCHANGED vars
  BY <1>1, <1>8 DEF Outside, ImportCalendar, CreateTable, DropTable, vars
<1> QED
  BY <1>1, <1>3, <1>4, <1>5, <1>6, <1>7, <1>8 DEF Next, DropShots, DeleteShots

(* What a user sees of a day without rows.                                  *)
THEOREM DaysShownAsExpected == Spec => []ShownAsExpected
<1> DEFINE All == Typed /\ (\A c \in Counter : Listed(c)) /\ \A m \in Monitor : Fresh(m)
<1>1. Init => All
  <2>1. Init => \A c \in Counter : script[c].pc \notin Counting
    BY DEF Init, Unused, Counting
  <2>2. Init => \A m \in Monitor, d \in Dates : snaps[m][d] = Nothing
    BY DEF Init, NoShots
  <2> QED
    BY <2>1, <2>2, Setting, InitTyped DEF Listed, Fresh, Held
<1>2. All /\ [Next]_vars => All'
  <2>1. ASSUME All, [Next]_vars, NEW m \in Monitor, m \notin touched'
        PROVE  /\ \A c \in Counter : Held(c, m)'
               /\ \A d \in Dates : snaps'[m][d] # Nothing => Right(m, d, snaps[m][d])'
    <3>1. m \notin touched
      BY <2>1, Setting, FreqKept
    <3>2. /\ \A c \in Counter : Held(c, m)
          /\ \A d \in Dates : snaps[m][d] # Nothing => Right(m, d, snaps[m][d])
      BY <2>1, <3>1 DEF Fresh
    <3> QED
      BY <2>1, <3>2, Setting, HeldKept, SnapsRight
  <2>2. ASSUME All, [Next]_vars, NEW m \in Monitor PROVE Fresh(m)'
    BY <2>1, <2>2 DEF Fresh
  <2> QED
    BY <2>2, Setting, NextTyped, ListedKept
<1>3. All => ShownAsExpected
  BY DEF ShownAsExpected, Fresh, Right, EffectiveStatus, CountStatus
<1> HIDE DEF All
<1> QED
  BY <1>1, <1>2, <1>3, PTL DEF Spec

-------------------------------------------------------------------------------
(* The days on which rows are expected.                                     *)

Due(known, d, freq) ==
  {e \in Day : Workday(e) /\ SamePeriod(freq, d, e) /\ IsExpected(known, e, freq)}
Traded(known, d, freq) == {e \in known : SamePeriod(freq, d, e)}
Workdays == {e \in Day : Workday(e)}

LEMMA DayIsInteger == LastDay \in Nat /\ FirstWeekday \in Int /\ Day \subseteq Nat
BY Calendar DEF Day

(* Two days of a week are a Friday only if they are the same day.           *)
LEMMA OneFriday ==
  ASSUME NEW d \in Day, NEW e \in Day, Week(d) = Week(e),
         Weekday(d) = Friday, Weekday(e) = Friday
  PROVE  d = e
<1> DEFINE a == FirstWeekday + d
           b == FirstWeekday + e
<1>1. a \in Int /\ b \in Int
  BY DayIsInteger
<1>2. a % 7 = 5 /\ b % 7 = 5 /\ (a + 6) \div 7 = (b + 6) \div 7
  BY DEF Week, Weekday, Friday
<1> HIDE DEF a, b
<1>3. a = b
  BY <1>1, <1>2
<1> QED
  BY <1>3, DayIsInteger DEF a, b

LEMMA PeriodShared ==
  ASSUME NEW freq \in {"weekly", "monthly"}, NEW d, NEW e, SamePeriod(freq, d, e), NEW known
  PROVE  Traded(known, e, freq) = Traded(known, d, freq)
BY DEF Traded, SamePeriod

(* In a period with known trading days the last of them is the one.         *)
LEMMA TradedDue ==
  ASSUME NEW known \in SUBSET Workdays, NEW d \in Dates, NEW freq \in {"weekly", "monthly"},
         Traded(known, d, freq) # {}
  PROVE  \E x : Due(known, d, freq) = {x}
<1>1. Traded(known, d, freq) \in SUBSET (0..LastDay)
  BY DEF Traded, Workdays, Day
<1>2. PICK x \in Traded(known, d, freq) : \A y \in Traded(known, d, freq) : y <= x
  BY <1>1, Greatest, DayIsInteger
<1>3. x \in Day /\ Workday(x) /\ SamePeriod(freq, d, x)
  BY DEF Traded, Workdays
<1>4. IsExpected(known, x, freq)
  <2>1. Traded(known, x, freq) = Traded(known, d, freq)
    BY <1>3, PeriodShared
  <2> QED
    BY <1>2, <2>1 DEF IsExpected, Traded
<1>5. ASSUME NEW e \in Due(known, d, freq) PROVE e = x
  <2>1. e \in Day /\ SamePeriod(freq, d, e) /\ IsExpected(known, e, freq)
    BY <1>5 DEF Due
  <2>2. Traded(known, e, freq) = Traded(known, d, freq)
    BY <2>1, PeriodShared
  <2>3. e \in Traded(known, e, freq) /\ \A f \in Traded(known, e, freq) : f <= e
    BY <2>1, <2>2 DEF IsExpected, Traded
  <2> QED
    BY <1>2, <1>3, <2>1, <2>2, <2>3, DayIsInteger
<1> QED
  BY <1>3, <1>4, <1>5 DEF Due

(* In a week without any, its Friday.                                       *)
LEMMA FridayDue ==
  ASSUME NEW known \in SUBSET Workdays, NEW d \in Dates, Traded(known, d, "weekly") = {}
  PROVE  \E x : Due(known, d, "weekly") = {x}
<1>1. PICK x \in Day : Week(x) = Week(d) /\ Weekday(x) = Friday
  BY Trading DEF Trading
<1>2. ASSUME NEW e \in Day, SamePeriod("weekly", d, e)
      PROVE  IsExpected(known, e, "weekly") <=> Weekday(e) = Friday
  <2>1. Traded(known, e, "weekly") = {}
    BY <1>2, PeriodShared
  <2> QED
    BY <2>1 DEF IsExpected, Traded
<1>3. x \in Due(known, d, "weekly")
  BY <1>1, <1>2 DEF Due, SamePeriod, Workday, Friday
<1>4. ASSUME NEW e \in Due(known, d, "weekly") PROVE e = x
  <2>1. e \in Day /\ Week(e) = Week(d) /\ Weekday(e) = Friday
    BY <1>2 DEF Due, SamePeriod
  <2> QED
    BY <1>1, <2>1, OneFriday
<1> QED
  BY <1>3, <1>4

(* In a month without any, its last workday.                                *)
LEMMA MonthEndDue ==
  ASSUME NEW known \in SUBSET Workdays, NEW d \in Dates, Traded(known, d, "monthly") = {}
  PROVE  \E x : Due(known, d, "monthly") = {x}
<1> DEFINE T == {e \in Day : Month[e] = Month[d] /\ Workday(e)}
<1>1. T # {}
  BY Trading DEF Trading
<1>2. T \in SUBSET (0..LastDay)
  BY DEF Day
<1>3. PICK x \in T : \A y \in T : y <= x
  BY <1>1, <1>2, Greatest, DayIsInteger
<1>4. ASSUME NEW e \in T
      PROVE  IsExpected(known, e, "monthly") <=> \A f \in T : f <= e
  <2>1. SamePeriod("monthly", d, e)
    BY DEF SamePeriod
  <2>2. Traded(known, e, "monthly") = {}
    BY <2>1, PeriodShared
  <2>3. IsExpected(known, e, "monthly") <=> IsLastWeekdayOfMonth(e)
    BY <2>2 DEF IsExpected, Traded
  <2>4. IsLastWeekdayOfMonth(e) <=> \A f \in T : f <= e
    BY DayIsInteger DEF IsLastWeekdayOfMonth
  <2> QED
    BY <2>3, <2>4
<1>5. Due(known, d, "monthly") = {e \in T : IsExpected(known, e, "monthly")}
  BY DEF Due, SamePeriod
<1>6. Due(known, d, "monthly") = {e \in T : \A f \in T : f <= e}
  BY <1>4, <1>5
<1>7. T \subseteq Nat
  BY DayIsInteger
<1> HIDE DEF T
<1>8. ASSUME NEW e \in T, \A f \in T : f <= e PROVE e = x
  BY <1>3, <1>7, <1>8
<1> QED
  BY <1>3, <1>6, <1>8

LEMMA OneDue ==
  ASSUME NEW known \in SUBSET Workdays, NEW d \in Dates, NEW freq \in {"weekly", "monthly"}
  PROVE  Cardinality(Due(known, d, freq)) = 1
<1>1. \E x : Due(known, d, freq) = {x}
  <2>1. CASE Traded(known, d, freq) # {}
    BY <2>1, TradedDue
  <2>2. CASE freq = "weekly" /\ Traded(known, d, "weekly") = {}
    BY <2>2, FridayDue
  <2>3. CASE freq = "monthly" /\ Traded(known, d, "monthly") = {}
    BY <2>3, MonthEndDue
  <2> QED
    BY <2>1, <2>2, <2>3
<1>2. PICK x : Due(known, d, freq) = {x}
  BY <1>1
<1>3. Cardinality({x}) = 1
  BY FS_Singleton
<1> QED
  BY <1>2, <1>3

(* OneExpected, for any calendar, days and months: the exchange's calendar  *)
(* changes only by imports, and whichever of them have been made, the rules *)
(* that the manager and the script share name one workday of each week and  *)
(* month.                                                                   *)
THEOREM OneDayExpected == Spec => []OneExpected
<1> DEFINE Inv == calendar \subseteq Workdays
<1>1. ASSUME NEW days \in Imports PROVE days \subseteq Workdays
  BY Setting, Trading DEF Setting, Trading, Workdays
<1>2. Init => Inv
  BY <1>1 DEF Init
<1>3. ASSUME Inv, [Next]_vars PROVE Inv'
  <2>1. CASE ImportCalendar
    BY <1>1, <1>3, <2>1 DEF ImportCalendar
  <2>2. UNCHANGED calendar \/ ImportCalendar
    <3>1. ASSUME NEW w \in Worker, RequestStep(w) PROVE UNCHANGED calendar
      BY <3>1 DEF RequestStep, CreateGroup, PatchGroup, CountMembers, SetEnabled, DeleteShots,
         CheckNew, CheckEdit, PatchReply, DropGroup, InsertMonitor, UpdateMonitor,
         DeleteMonitor, RequestsEnd
    <3>2. ASSUME NEW c \in Counter, Begins(c) PROVE UNCHANGED calendar
      BY <3>2 DEF Begins, SyncAndCount, CountAll, Recount, Start
    <3>3. ASSUME NEW c \in Counter, SyncStep(c) PROVE UNCHANGED calendar
      BY <3>3 DEF SyncStep, Discover, FindLost, ListTables, ListFails, TakeLost, SyncDone,
         SelectStale, DropShots, DropRows, EnsureGroup, UpsertMonitor, SkipTable, NextDatabase,
         OnlyScript
    <3>4. ASSUME NEW c \in Counter, CountStep(c) \/ ScriptDies(c) PROVE UNCHANGED calendar
      BY <3>4 DEF CountStep, LoadMonitors, Connect, ConnectFails, CountRows, CountFails,
         StoreShot, StoreFails, StoreNoSession, CountsDone, OnlyScript, ScriptDies
    <3>5. ASSUME Outside PROVE UNCHANGED calendar \/ ImportCalendar
      BY <3>5 DEF Outside, CreateTable, DropTable
    <3> QED
      BY <1>3, <3>1, <3>2, <3>3, <3>4, <3>5 DEF Next, vars
  <2> QED
    BY <1>3, <2>1, <2>2
<1>4. Inv => OneExpected
  BY OneDue DEF OneExpected, Due
<1> QED
  BY <1>2, <1>3, <1>4, PTL DEF Spec
===============================================================================
