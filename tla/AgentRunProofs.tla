----------------------------- MODULE AgentRunProofs -----------------------------
(* Proofs about AgentRun, for any number of lines, batch size and kept tail.*)
EXTENDS AgentRun, TLAPS

(* A line is written before it is read, taken and sent.                     *)
Ordered ==
  /\ wrote \in [Stream -> 0..MaxLines] /\ read \in [Stream -> 0..MaxLines]
  /\ taken \in [Stream -> 0..MaxLines] /\ sent \in [Stream -> 0..MaxLines]
  /\ \A s \in Stream : sent[s] <= taken[s] /\ taken[s] <= read[s] /\ read[s] <= wrote[s]

(* The process while the agent waits for it, and its code.                  *)
Loop == {"check", "drain", "send", "posting", "clock"}
Lives ==
  /\ agent \in {"linux", "windows"} /\ late \in BOOLEAN /\ due \in BOOLEAN
  /\ pc \in Loop \cup {"start", "lastPost", "wait", "upload", "callback", "idle"}
  /\ proc \in {"none", "alive", "ended", "killed"} /\ cb \in {"none", "sent", "handled", "lost"}
  /\ code \in ScriptCode \cup {Unknown} /\ (code \in ScriptCode <=> proc = "ended")
  /\ pc = "start" => proc = "none"
  /\ pc \in Loop => agent = "linux" /\ proc \in {"alive", "ended"}
  /\ pc = "wait" => agent = "windows" /\ proc \in {"alive", "ended"}
  /\ pc = "upload" => agent = "windows"
  /\ pc = "lastPost" => agent = "linux"
  /\ cb # "none" => pc = "idle"

(* There is a result, and what makes it true.                               *)
Told == pc \in {"lastPost", "upload", "callback"} \/ cb # "none"
Truthful ==
  /\ result.code = Missing => proc = "none"
  /\ result.code = TimedOut => late
  /\ result.code \in ScriptCode => proc = "ended" /\ result.code = code
  /\ result.code # Unknown
Reported ==
  /\ result \in Result
  /\ pc = "start" => result = [code |-> Missing, lines |-> {}]
  /\ Told => Truthful

(* What has been posted, and how often it can get into the file.            *)
Posted(l) == file[l] > 0 \/ \E b \in posts : l \in b
Copies ==
  /\ posts \subseteq SUBSET Line /\ file \in [Line -> 0..2]
  /\ \A b1, b2 \in posts : b1 = b2 \/ b1 \cap b2 = {}
  /\ cb # "handled" => \A l \in Line : file[l] <= 1
  /\ \A b \in posts, l \in Line : l \in b => file[l] <= 1 /\ (cb # "handled" => file[l] = 0)
(* Linux: everything below sent; Windows: nothing before the upload; and    *)
(* the callback carries all of it, unless it carries nothing.               *)
Covered ==
  cb # "handled" =>
    /\ agent = "linux" => \A l \in Line : Posted(l) => l \in Between(Zero, sent)
    /\ pc \in {"start", "wait"} => \A l \in Line : ~Posted(l)
    /\ Told /\ result.lines # {} => \A l \in Line : Posted(l) => l \in result.lines

Inv == Ordered /\ Lives /\ Reported /\ Copies /\ Covered

LEMMA BetweenLines == \A lo, hi : Between(lo, hi) \subseteq Line
BY DEF Between

LEMMA BetweenGrows ==
  ASSUME NEW lo \in [Stream -> Nat], NEW mid \in [Stream -> Nat], NEW hi \in [Stream -> Nat],
         \A s \in Stream : mid[s] <= hi[s]
  PROVE  Between(lo, mid) \subseteq Between(lo, hi)
<1>1. ASSUME NEW l \in Line PROVE l[1] \in Stream /\ l[2] \in Nat
  BY Sizes DEF Line, Sizes
<1> QED
  BY <1>1 DEF Between

(* What lies between two counters does not lie below the first.             *)
LEMMA BetweenApart ==
  ASSUME NEW lo \in [Stream -> Nat], NEW hi \in [Stream -> Nat], NEW l \in Between(lo, hi)
  PROVE  l \notin Between(Zero, lo)
<1>1. l[1] \in Stream /\ l[2] \in Nat
  BY Sizes DEF Between, Line, Sizes
<1> QED
  BY <1>1 DEF Between

LEMMA BetweenZero ==
  ASSUME NEW lo \in [Stream -> Nat], NEW hi \in [Stream -> Nat], \A s \in Stream : lo[s] <= hi[s]
  PROVE  Between(lo, hi) \subseteq Between(Zero, hi)
<1>1. ASSUME NEW l \in Line PROVE l[1] \in Stream /\ l[2] \in Nat
  BY Sizes DEF Line, Sizes
<1> QED
  BY <1>1 DEF Between, Zero

LEMMA Counters ==
  ASSUME Ordered
  PROVE  /\ wrote \in [Stream -> Nat] /\ read \in [Stream -> Nat]
         /\ taken \in [Stream -> Nat] /\ sent \in [Stream -> Nat] /\ Zero \in [Stream -> Nat]
BY Sizes DEF Ordered, Zero, Sizes

LEMMA InitInv == Init => Inv
<1> SUFFICES ASSUME Init PROVE Inv
  OBVIOUS
<1> USE Sizes DEF Sizes
<1>1. Ordered
  BY DEF Init, Ordered, Zero
<1>2. Lives
  BY DEF Init, Lives, Loop, ScriptCode, Unknown
<1>3. Reported
  BY DEF Init, Reported, Told, Result
<1>4. Copies
  BY DEF Init, Copies
<1>5. Covered
  BY DEF Init, Covered, Posted, Told
<1> QED
  BY <1>1, <1>2, <1>3, <1>4, <1>5 DEF Inv

(* Steps that leave the posts, the file and the callback alone.             *)
LEMMA SameCopies ==
  ASSUME Copies, UNCHANGED <<posts, file, cb>> PROVE Copies'
BY DEF Copies

LEMMA SameCovered ==
  ASSUME Covered, UNCHANGED <<posts, file, cb, agent, sent, result>>,
         pc' \in {"start", "wait"} => pc \in {"start", "wait"},
         Told' => Told
  PROVE  Covered'
BY DEF Covered, Posted

-------------------------------------------------------------------------------
(* The script and the time.                                                 *)
LEMMA ScriptInv ==
  ASSUME Inv, (\E s \in Stream : Write(s)) \/ (\E c \in ScriptCode : Exit(c)) \/ Elapse \/ FlushDue
              \/ (\E s \in Stream : ReadLine(s))
  PROVE  Inv'
<1> USE DEF Inv, procVars, lineVars
<1>0. UNCHANGED <<posts, file, cb, agent, sent, result, pc, taken>> /\ (Told' <=> Told)
  BY DEF Write, Exit, Elapse, FlushDue, ReadLine, Told
<1>1. Copies' /\ Covered'
  BY <1>0, SameCopies, SameCovered
<1>2. Ordered'
  <2>1. ASSUME NEW s \in Stream, Write(s) PROVE Ordered'
    BY <2>1, Sizes DEF Write, Ordered, Sizes
  <2>2. ASSUME NEW s \in Stream, ReadLine(s) PROVE Ordered'
    BY <2>2, Sizes DEF ReadLine, Ordered, Sizes
  <2>3. CASE (\E c \in ScriptCode : Exit(c)) \/ Elapse \/ FlushDue
    BY <2>3 DEF Exit, Elapse, FlushDue, Ordered
  <2> QED
    BY <2>1, <2>2, <2>3
<1>3. Lives' /\ Reported'
  <2>1. ASSUME NEW c \in ScriptCode, Exit(c) PROVE Lives' /\ Reported'
    <3>1. Lives'
      BY <2>1 DEF Exit, Lives, Loop
    <3>2. Reported'
      BY <2>1 DEF Exit, Lives, Reported, Told, Truthful, ScriptCode, Missing, TimedOut, Unknown
    <3> QED
      BY <3>1, <3>2
  <2>2. CASE Elapse
    BY <2>2 DEF Elapse, Lives, Reported, Told, Truthful
  <2>3. CASE (\E s \in Stream : Write(s) \/ ReadLine(s)) \/ FlushDue
    BY <2>3 DEF Write, ReadLine, FlushDue, Lives, Reported, Told, Truthful
  <2> QED
    BY <2>1, <2>2, <2>3
<1> QED
  BY <1>1, <1>2, <1>3

-------------------------------------------------------------------------------
(* Both agents.                                                             *)
LEMMA StartInv == ASSUME Inv, Start PROVE Inv'
<1> USE DEF Inv, procVars, lineVars
<1>0. pc = "start" /\ proc = "none" /\ cb = "none" /\ result = [code |-> Missing, lines |-> {}]
  BY DEF Start, Lives, Reported
<1>1. Ordered'
  BY DEF Start, Ordered
<1>2. \A l \in Line : ~Posted(l)
  BY <1>0 DEF Covered
<1>3. CASE UNCHANGED <<posts, result>>
  <2>1. Lives'
    BY <1>0, <1>3 DEF Start, Lives, Loop, ScriptCode, Unknown
  <2>2. Reported'
    BY <1>0, <1>3 DEF Start, Reported, Told, Truthful, Missing, TimedOut, ScriptCode, Unknown
  <2>3. Copies'
    BY <1>3, SameCopies DEF Start
  <2>4. Covered'
    <3>1. \A l \in Line : ~Posted(l)'
      BY <1>2, <1>3 DEF Start, Posted
    <3> QED
      BY <3>1 DEF Covered
  <2> QED
    BY <1>1, <2>1, <2>2, <2>3, <2>4
<1>4. CASE /\ agent = "windows" /\ result' = [code |-> Missing, lines |-> {Note}]
           /\ posts' = {{Note}} /\ pc' = "upload" /\ UNCHANGED proc
  <2>1. Note \in Line
    BY Sizes DEF Note, Line, Stream, Sizes
  <2>2. Lives'
    BY <1>0, <1>4 DEF Start, Lives, Loop
  <2>3. Reported'
    BY <1>0, <1>4, <2>1 DEF Start, Reported, Told, Truthful, Result, Missing, TimedOut, ScriptCode, Unknown
  <2>4. \A l \in Line : file[l] = 0 /\ file' = file
    BY <1>2 DEF Start, Posted, Copies
  <2>5. Copies'
    BY <1>0, <1>4, <2>1, <2>4 DEF Start, Copies
  <2>6. Covered'
    BY <1>4, <2>4 DEF Start, Covered, Posted
  <2> QED
    BY <1>1, <2>2, <2>3, <2>5, <2>6
<1> QED
  BY <1>3, <1>4 DEF Start

LEMMA CallbackInv == ASSUME Inv, Callback PROVE Inv'
<1> USE DEF Inv, procVars, lineVars
<1>0. pc = "callback" /\ cb = "none" /\ Told /\ Told'
  BY DEF Callback, Lives, Told
<1>1. Ordered' /\ Lives'
  BY <1>0 DEF Callback, Ordered, Lives, Loop
<1>2. Reported'
  BY <1>0 DEF Callback, Reported, Truthful
<1>3. Copies'
  BY <1>0 DEF Callback, Copies
<1>4. Covered'
  BY <1>0 DEF Callback, Covered, Posted
<1> QED
  BY <1>1, <1>2, <1>3, <1>4

-------------------------------------------------------------------------------
(* Linux.                                                                   *)
(* A batch is new, and below the counter afterwards.                        *)
LEMMA FlushCopies ==
  ASSUME Inv, agent = "linux", cb = "none", Flush, UNCHANGED <<agent, cb, file, taken>>
  PROVE  Copies' /\ \A l \in Line : Posted(l)' => l \in Between(Zero, sent')
<1> USE DEF Inv
<1>0. \A l \in Line : Posted(l) => l \in Between(Zero, sent)
  BY DEF Covered
<1>1. Batch \subseteq Line /\ \A l \in Batch : ~Posted(l)
  BY <1>0, BetweenLines, Counters, BetweenApart DEF Batch
<1>2. Between(Zero, sent) \subseteq Between(Zero, taken) /\ Batch \subseteq Between(Zero, taken)
  <2>1. \A s \in Stream : sent[s] <= taken[s]
    BY DEF Ordered
  <2> QED
    BY <2>1, Counters, BetweenGrows, BetweenZero DEF Batch
<1>3. posts' = posts \cup {Batch} /\ sent' = taken
  BY DEF Flush
<1>4. Copies'
  <2>1. \A b1 \in posts : b1 \cap Batch = {}
    BY <1>1 DEF Posted, Copies
  <2>2. \A l \in Batch : file[l] = 0
    BY <1>1 DEF Posted, Copies
  <2>3. \A b1, b2 \in posts' : b1 = b2 \/ b1 \cap b2 = {}
    BY <1>3, <2>1 DEF Copies
  <2>4. \A b \in posts', l \in Line : l \in b => file'[l] <= 1 /\ (cb' # "handled" => file'[l] = 0)
    BY <1>3, <2>2 DEF Copies
  <2> QED
    BY <1>1, <1>3, <2>3, <2>4 DEF Copies
<1>5. \A l \in Line : Posted(l)' => Posted(l) \/ l \in Batch
  BY <1>3 DEF Posted
<1> QED
  BY <1>0, <1>2, <1>3, <1>4, <1>5

LEMMA CheckInv == ASSUME Inv, Check PROVE Inv'
<1> USE DEF Inv, procVars, lineVars
<1>0. pc = "check" /\ agent = "linux" /\ cb = "none" /\ UNCHANGED <<agent, cb, file, taken, read, wrote>>
  BY DEF Check, Lives, Loop
<1>1. CASE ~Finished
  <2>1. pc' = "drain" /\ UNCHANGED <<due, sent, posts, result>>
    BY <1>1 DEF Check
  <2>2. Ordered' /\ Lives' /\ Reported'
    BY <1>0, <2>1 DEF Check, Ordered, Lives, Loop, Reported, Told
  <2>3. Copies' /\ Covered'
    BY <1>0, <2>1, SameCopies, SameCovered DEF Told
  <2> QED
    BY <2>2, <2>3
<1>2. CASE Finished
  <2>1. result' = Report /\ proc = "ended" /\ code \in ScriptCode /\ UNCHANGED <<proc, code, late>>
    BY <1>0, <1>2 DEF Check, Finished, Lives, Loop
  <2>2. Reported'
    <3>1. Report \in Result /\ Report.code = code
      BY <2>1, BetweenLines DEF Report, Result
    <3>2. pc' # "start"
      BY <1>2 DEF Check
    <3> QED
      BY <2>1, <3>1, <3>2 DEF Reported, Truthful, ScriptCode, Missing, TimedOut, Unknown
  <2>3. Between(Zero, sent) \subseteq Between(Zero, taken)
    BY Counters, BetweenGrows DEF Ordered
  <2>4. CASE Batch = {}
    <3>1. pc' = "callback" /\ UNCHANGED <<due, sent, posts>>
      BY <1>2, <2>4 DEF Check
    <3>2. Ordered' /\ Lives'
      BY <1>0, <2>1, <3>1 DEF Ordered, Lives, Loop
    <3>3. Copies'
      BY <1>0, <3>1, SameCopies
    <3>4. Covered'
      BY <1>0, <2>1, <2>3, <3>1 DEF Covered, Posted, Report
    <3> QED
      BY <2>2, <3>2, <3>3, <3>4
  <2>5. CASE Batch # {}
    <3>1. pc' = "lastPost" /\ Flush
      BY <1>2, <2>5 DEF Check
    <3>2. Ordered' /\ Lives'
      <4>1. Lives'
        BY <1>0, <2>1, <3>1 DEF Flush, Lives, Loop
      <4>2. Ordered'
        BY <1>0, <3>1 DEF Flush, Ordered
      <4> QED
        BY <4>1, <4>2
    <3>3. Copies' /\ \A l \in Line : Posted(l)' => l \in Between(Zero, sent')
      BY <1>0, <3>1, FlushCopies
    <3>4. Covered'
      BY <1>0, <2>1, <3>1, <3>3 DEF Covered, Report, Flush
    <3> QED
      BY <2>2, <3>2, <3>3, <3>4
  <2> QED
    BY <2>4, <2>5
<1> QED
  BY <1>1, <1>2

LEMMA DrainInv == ASSUME Inv, Drain PROVE Inv'
<1> USE DEF Inv, procVars
<1>0. pc = "drain" /\ pc' = "send" /\ UNCHANGED <<posts, file, cb, agent, sent, result>>
  BY DEF Drain
<1>1. Ordered'
  BY DEF Drain, Ordered
<1>2. Lives' /\ Reported'
  BY <1>0 DEF Drain, Lives, Loop, Reported, Told
<1>3. Copies' /\ Covered'
  BY <1>0, SameCopies, SameCovered DEF Told
<1> QED
  BY <1>1, <1>2, <1>3

LEMMA SendInv == ASSUME Inv, Send PROVE Inv'
<1> USE DEF Inv, procVars
<1>0. pc = "send" /\ agent = "linux" /\ cb = "none" /\ UNCHANGED <<agent, cb, file, taken, read, wrote, result>>
  BY DEF Send, Lives, Loop
<1>1. CASE BatchReady
  <2>1. pc' = "posting" /\ Flush
    BY <1>1 DEF Send
  <2>2. Ordered'
    BY <1>0, <2>1 DEF Flush, Ordered
  <2>3. Lives' /\ Reported'
    BY <1>0, <2>1 DEF Send, Flush, Lives, Loop, Reported, Told
  <2>4. Copies' /\ \A l \in Line : Posted(l)' => l \in Between(Zero, sent')
    BY <1>0, <2>1, FlushCopies
  <2>5. Covered'
    BY <1>0, <2>1, <2>4 DEF Covered, Told
  <2> QED
    BY <2>2, <2>3, <2>4, <2>5
<1>2. CASE ~BatchReady
  <2>1. pc' = "clock" /\ UNCHANGED <<due, sent, posts>>
    BY <1>2 DEF Send
  <2>2. Ordered' /\ Lives' /\ Reported'
    BY <1>0, <2>1 DEF Send, Ordered, Lives, Loop, Reported, Told
  <2>3. Copies' /\ Covered'
    BY <1>0, <2>1, SameCopies, SameCovered DEF Told
  <2> QED
    BY <2>2, <2>3
<1> QED
  BY <1>1, <1>2

LEMMA ProceedInv == ASSUME Inv, Proceed PROVE Inv'
<1> USE DEF Inv, procVars, lineVars
<1>0. UNCHANGED <<posts, file, cb, agent, sent, result>> /\ (Told' <=> Told)
      /\ pc' \in {"clock", "callback"}
  BY DEF Proceed, Told
<1>1. Ordered' /\ Lives' /\ Reported'
  BY <1>0 DEF Proceed, Ordered, Lives, Loop, Reported, Truthful
<1>2. Copies' /\ Covered'
  BY <1>0, SameCopies, SameCovered
<1> QED
  BY <1>1, <1>2

LEMMA ClockInv == ASSUME Inv, Clock PROVE Inv'
<1> USE DEF Inv, lineVars
<1>0. pc = "clock" /\ agent = "linux" /\ cb = "none" /\ UNCHANGED <<agent, cb, file, posts, sent, code, late, due>>
  BY DEF Clock, Lives, Loop
<1>1. Ordered'
  BY DEF Clock, Ordered
<1>2. CASE late
  <2>1. /\ proc' = IF proc = "alive" THEN "killed" ELSE proc
        /\ result' = [code |-> TimedOut, lines |-> Between(Zero, taken)] /\ pc' = "callback"
    BY <1>2 DEF Clock
  <2>2. Lives'
    BY <1>0, <2>1 DEF Lives, Loop
  <2>3. Reported'
    BY <1>0, <1>2, <2>1, BetweenLines
       DEF Reported, Result, Truthful, Missing, TimedOut, ScriptCode, Unknown
  <2>4. Between(Zero, sent) \subseteq Between(Zero, taken)
    BY Counters, BetweenGrows DEF Ordered
  <2>5. Copies'
    BY <1>0, SameCopies
  <2>6. Covered'
    BY <1>0, <2>1, <2>4 DEF Covered, Posted
  <2> QED
    BY <1>1, <2>2, <2>3, <2>5, <2>6
<1>3. CASE ~late
  <2>1. pc' = "check" /\ UNCHANGED <<proc, result>>
    BY <1>3 DEF Clock
  <2>2. Lives' /\ Reported'
    BY <1>0, <2>1 DEF Lives, Loop, Reported, Told
  <2>3. Copies' /\ Covered'
    BY <1>0, <2>1, SameCopies, SameCovered DEF Told
  <2> QED
    BY <1>1, <2>2, <2>3
<1> QED
  BY <1>2, <1>3

-------------------------------------------------------------------------------
(* Windows.                                                                 *)
LEMMA UploadInv ==
  ASSUME Inv, NEW r \in Result, Upload(r), pc = "wait", UNCHANGED <<agent, cb, file, wrote>>
  PROVE  Ordered' /\ Copies' /\ Covered'
<1> USE DEF Inv
<1>0. cb = "none" /\ agent = "windows" /\ (\A l \in Line : ~Posted(l)) /\ \A l \in Line : file[l] = 0
  BY DEF Lives, Covered, Posted, Copies
<1>1. Ordered'
  BY Sizes DEF Upload, Ordered, Sizes
<1>2. r.lines \subseteq Line /\ result' = r /\ (posts' = posts \/ posts' = {r.lines})
  BY DEF Upload, Result
<1>3. \A b \in posts' : b \subseteq r.lines
  <2>1. ASSUME NEW b \in posts PROVE b = {}
    BY <1>0 DEF Posted, Copies
  <2> QED
    BY <1>2, <2>1
<1>4. Copies'
  BY <1>0, <1>2, <1>3 DEF Copies
<1>5. Covered'
  BY <1>0, <1>2, <1>3 DEF Covered, Posted, Upload
<1> QED
  BY <1>1, <1>4, <1>5

LEMMA WindowsInv == ASSUME Inv, Windows PROVE Inv'
<1> USE DEF Inv, procVars, lineVars
<1>1. CASE WinEnds
  <2> DEFINE r == [code |-> code, lines |-> Tail]
  <2>1. r \in Result
    BY <1>1, BetweenLines DEF WinEnds, Lives, Result, Tail, Output
  <2>2. Ordered' /\ Copies' /\ Covered'
    BY <1>1, <2>1, UploadInv DEF WinEnds
  <2>3. Lives'
    BY <1>1 DEF WinEnds, Upload, Lives, Loop
  <2>4. Reported'
    <3>1. result' = r /\ pc' # "start" /\ proc' = "ended" /\ code' = code /\ code \in ScriptCode
      BY <1>1 DEF WinEnds, Upload, Lives
    <3> QED
      BY <2>1, <3>1 DEF Reported, Truthful, Missing, TimedOut, ScriptCode, Unknown
  <2> QED
    BY <2>2, <2>3, <2>4
<1>2. CASE WinTimeout
  <2> DEFINE r == [code |-> TimedOut, lines |-> Output \cup {Note}]
  <2>1. r \in Result
    <3>1. Note \in Line
      BY Sizes DEF Note, Line, Stream, Sizes
    <3> QED
      BY <3>1, BetweenLines DEF Result, Output
  <2>2. Ordered' /\ Copies' /\ Covered'
    BY <1>2, <2>1, UploadInv DEF WinTimeout
  <2>3. Lives'
    BY <1>2 DEF WinTimeout, Upload, Lives, Loop
  <2>4. Reported'
    <3>1. result' = r /\ pc' # "start" /\ late'
      BY <1>2 DEF WinTimeout, Upload
    <3> QED
      BY <2>1, <3>1 DEF Reported, Truthful, Missing, TimedOut, ScriptCode, Unknown
  <2> QED
    BY <2>2, <2>3, <2>4
<1>3. CASE WinUploaded
  <2>1. UNCHANGED <<posts, file, cb, agent, sent, result>> /\ (Told' => Told)
        /\ pc' \in {"callback", "idle"}
    BY <1>3 DEF WinUploaded, Told
  <2>2. Ordered' /\ Lives' /\ Reported'
    BY <1>3, <2>1 DEF WinUploaded, Ordered, Lives, Loop, Reported, Truthful
  <2>3. Copies' /\ Covered'
    BY <2>1, SameCopies, SameCovered
  <2> QED
    BY <2>2, <2>3
<1> QED
  BY <1>1, <1>2, <1>3 DEF Windows

-------------------------------------------------------------------------------
(* The manager.                                                             *)
LEMMA ManagerSame ==
  ASSUME Inv, UNCHANGED <<procVars, pc, due, lineVars, result>>, Told' = Told,
         cb' \in {"none", "sent", "handled", "lost"}, cb' # "none" => cb # "none"
  PROVE  Ordered' /\ Lives' /\ Reported'
BY DEF Inv, procVars, lineVars, Ordered, Lives, Reported, Truthful

LEMMA ManagerInv == ASSUME Inv, Manager PROVE Inv'
<1> USE DEF Inv, procVars, lineVars
<1>1. ASSUME NEW b \in posts, Append(b) PROVE Inv'
  <2>1. Ordered' /\ Lives' /\ Reported'
    BY <1>1, ManagerSame DEF Append, Told, Lives
  <2>2. b \subseteq Line /\ \A l \in b : file[l] <= 1
    BY DEF Copies
  <2>3. \A l \in Line : file'[l] = IF l \in b THEN file[l] + 1 ELSE file[l]
    BY <1>1 DEF Append
  <2>4. file' \in [Line -> 0..2]
    BY <1>1, <2>2 DEF Append, Copies
  <2>5. Copies'
    <3>1. \A x \in posts', l \in Line : l \in x => l \notin b
      BY <1>1 DEF Append, Copies
    <3>2. cb = "handled" \/ \A l \in b : file[l] = 0
      BY DEF Copies
    <3>3. \A x \in posts', l \in Line : l \in x => file'[l] <= 1 /\ (cb' # "handled" => file'[l] = 0)
      BY <1>1, <2>3, <3>1 DEF Append, Copies
    <3>4. cb' # "handled" => \A l \in Line : file'[l] <= 1
      BY <1>1, <2>3, <3>2 DEF Append, Copies
    <3> QED
      BY <1>1, <2>4, <3>3, <3>4 DEF Append, Copies
  <2>6. Covered'
    <3>1. \A l \in Line : Posted(l)' => Posted(l)
      BY <1>1, <2>3 DEF Append, Posted
    <3> QED
      BY <1>1, <3>1 DEF Append, Covered, Told
  <2> QED
    BY <2>1, <2>5, <2>6
<1>2. ASSUME NEW b \in posts, LosePost(b) PROVE Inv'
  <2>1. Ordered' /\ Lives' /\ Reported'
    BY <1>2, ManagerSame DEF LosePost, Told, Lives
  <2>2. Copies'
    BY <1>2 DEF LosePost, Copies
  <2>3. Covered'
    <3>1. \A l \in Line : Posted(l)' => Posted(l)
      BY <1>2 DEF LosePost, Posted
    <3> QED
      BY <1>2, <3>1 DEF LosePost, Covered, Told
  <2> QED
    BY <2>1, <2>2, <2>3
<1>3. CASE HandleCallback
  <2>1. Ordered' /\ Lives' /\ Reported'
    BY <1>3, ManagerSame DEF HandleCallback, Told
  <2>2. file' \in [Line -> 0..2] /\ \A l \in Line : file'[l] <= 1
    BY <1>3 DEF HandleCallback, Overwrite, Copies
  <2>3. Copies' /\ Covered'
    BY <1>3, <2>2 DEF HandleCallback, Copies, Covered
  <2> QED
    BY <2>1, <2>3
<1>4. CASE LoseCallback
  <2>1. Ordered' /\ Lives' /\ Reported'
    BY <1>4, ManagerSame DEF LoseCallback, Told
  <2>2. Copies' /\ Covered'
    BY <1>4 DEF LoseCallback, Copies, Covered, Posted, Told
  <2> QED
    BY <2>1, <2>2
<1> QED
  BY <1>1, <1>2, <1>3, <1>4 DEF Manager

LEMMA NextInv == ASSUME Inv, [Next]_vars PROVE Inv'
<1>1. CASE UNCHANGED vars
  <2>1. Copies' /\ Covered'
    BY <1>1, SameCopies, SameCovered DEF Inv, vars, Told
  <2>2. Ordered' /\ Lives' /\ Reported'
    BY <1>1 DEF Inv, vars, Ordered, Lives, Reported, Told, Truthful
  <2> QED
    BY <2>1, <2>2 DEF Inv
<1> QED
  BY <1>1, ScriptInv, StartInv, CallbackInv, CheckInv, DrainInv, SendInv, ProceedInv, ClockInv,
     WindowsInv, ManagerInv DEF Next, Linux

LEMMA AlwaysInv == Spec => []Inv
BY InitInv, NextInv, PTL DEF Spec

(* The variables keep their types: no more than two copies of a line.       *)
THEOREM AgentTypeCorrect == Spec => []TypeOK
<1>1. Inv => TypeOK
  BY DEF Inv, Ordered, Lives, Loop, Reported, Copies, TypeOK
<1> QED
  BY <1>1, AlwaysInv, PTL

(* The callback's exit code is true.                                        *)
THEOREM ReportsAreTrue == Spec => []ReportIsTrue
<1>1. Inv => ReportIsTrue
  BY DEF Inv, Reported, Told, Truthful, ReportIsTrue
<1> QED
  BY <1>1, AlwaysInv, PTL

(* Before the callback no line is in the file twice.                        *)
THEOREM LinesPostedOnce == Spec => []PostedOnce
<1>1. Inv => PostedOnce
  BY DEF Inv, Copies, PostedOnce
<1> QED
  BY <1>1, AlwaysInv, PTL

(* The callback, which replaces the file, loses nothing that was in it.     *)
THEOREM NothingLost == Spec => LogGrows
<1>1. Inv /\ [Next]_vars => [\A l \in Line : file[l] > 0 => file'[l] > 0]_vars
  <2> SUFFICES ASSUME Inv, Next, NEW l \in Line, file[l] > 0 PROVE file'[l] > 0
    OBVIOUS
  <2>1. file \in [Line -> 0..2]
    BY DEF Inv, Copies
  <2>2. CASE HandleCallback
    <3>1. result.lines # {} => l \in result.lines
      BY <2>2 DEF HandleCallback, Inv, Covered, Told, Posted
    <3> QED
      BY <2>2, <3>1 DEF HandleCallback, Overwrite
  <2>3. ASSUME NEW b \in posts, Append(b) PROVE file'[l] > 0
    BY <2>1, <2>3 DEF Append
  <2>4. CASE ~HandleCallback /\ ~(\E b \in posts : Append(b))
    <3>1. UNCHANGED file
      BY <2>4 DEF Next, Write, ReadLine, Exit, Elapse, FlushDue, Start, Callback, Linux, Check, Drain,
             Send, Proceed, Clock, Windows, WinEnds, WinTimeout, WinUploaded, Manager, LosePost,
             LoseCallback
    <3> QED
      BY <3>1
  <2> QED
    BY <2>2, <2>3, <2>4
<1> QED
  BY <1>1, AlwaysInv, PTL DEF Spec, LogGrows
===============================================================================
