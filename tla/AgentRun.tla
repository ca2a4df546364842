------------------------------- MODULE AgentRun -------------------------------
(***************************************************************************)
(* One execution on an agent and its log at the manager.                   *)
(*                                                                         *)
(* Linux: two reader threads put the script's lines into a queue; a loop   *)
(* drains it, posts batches to /api/tasks/log, notices that the script     *)
(* ended or ran out of time, and calls back with everything it drained.    *)
(* Windows: communicate() returns the whole output, the end of which is    *)
(* uploaded once and then sent again with the callback.                    *)
(*                                                                         *)
(* Lines are numbered per stream.  A line is written to the pipe, read     *)
(* into the queue, taken from it, sent: four counters per stream.          *)
(***************************************************************************)
EXTENDS Naturals, FiniteSets

CONSTANTS
  MaxLines,   \* bound: lines a script writes to one stream
  BatchSize,  \* lines that make a batch go out at once (50)
  Keep        \* what Windows keeps of the end of a stream (20000 characters)

ASSUME Sizes == MaxLines \in Nat /\ BatchSize \in Nat \ {0} /\ Keep \in Nat

Stream == {"stdout", "stderr"}
Line   == Stream \X (0..MaxLines)
(* What Windows itself puts into stderr: timeout expired, script not found. *)
Note   == <<"stderr", 0>>

Missing  == "-1"
TimedOut == "-2"
ScriptCode == {"0", "1"}      \* "1" stands for every code of a script's own but 0
Unknown  == "None"

VARIABLES
  agent,                      \* "linux" or "windows"
  pc,                         \* the thread that executes the task
  proc, code,                 \* the script's process, its returncode
  late,                       \* timeout_sec is over
  due,                        \* 5 s since the last flush (Linux)
  wrote, read, taken, sent,   \* lines of each stream, see above
  posts,                      \* requests to /api/tasks/log on their way
  result,                     \* exit_code, stdout and stderr of the callback
  cb,                         \* the callback request
  file                        \* the log file: how often it holds a line

procVars == <<agent, proc, code, late>>
lineVars == <<wrote, read, taken, sent>>
vars == <<agent, pc, proc, code, late, due, wrote, read, taken, sent, posts, result, cb, file>>

Result == [code : ScriptCode \cup {Missing, TimedOut, Unknown}, lines : SUBSET Line]

(* At most one copy comes with a batch and one with the callback.          *)
TypeOK ==
  /\ agent \in {"linux", "windows"}
  /\ pc \in {"start", "check", "drain", "send", "posting", "clock", "lastPost",
             "wait", "upload", "callback", "idle"}
  /\ proc \in {"none", "alive", "ended", "killed"}
  /\ code \in ScriptCode \cup {Unknown}
  /\ late \in BOOLEAN /\ due \in BOOLEAN
  /\ \A f \in {wrote, read, taken, sent} : f \in [Stream -> 0..MaxLines]
  /\ posts \subseteq SUBSET Line
  /\ result \in Result
  /\ cb \in {"none", "sent", "handled", "lost"}
  /\ file \in [Line -> 0..2]

Zero == [s \in Stream |-> 0]
(* The lines that one counter has passed and the other has not. *)
Between(lo, hi) == {l \in Line : lo[l[1]] < l[2] /\ l[2] <= hi[l[1]]}

Init ==
  /\ agent \in {"linux", "windows"}
  /\ pc = "start"
  /\ proc = "none" /\ code = Unknown
  /\ late = FALSE /\ due = FALSE
  /\ wrote = Zero /\ read = Zero /\ taken = Zero /\ sent = Zero
  /\ posts = {}
  /\ result = [code |-> Missing, lines |-> {}]
  /\ cb = "none"
  /\ file = [l \in Line |-> 0]

-------------------------------------------------------------------------------
(* The script. *)

Write(s) ==
  /\ proc = "alive" /\ wrote[s] < MaxLines
  /\ wrote' = [wrote EXCEPT ![s] = @ + 1]
  /\ UNCHANGED <<procVars, pc, due, read, taken, sent, posts, result, cb, file>>

Exit(c) ==
  /\ proc = "alive"
  /\ proc' = "ended" /\ code' = c
  /\ UNCHANGED <<agent, late, pc, due, lineVars, posts, result, cb, file>>

(* Time passes. *)
Elapse ==
  /\ proc # "none" /\ ~late
  /\ late' = TRUE
  /\ UNCHANGED <<agent, proc, code, pc, due, lineVars, posts, result, cb, file>>

FlushDue ==
  /\ proc # "none" /\ ~due
  /\ due' = TRUE
  /\ UNCHANGED <<procVars, pc, lineVars, posts, result, cb, file>>

-------------------------------------------------------------------------------
(* Both agents. *)

(* The script is started, or is not there, or Popen raises an exception: *)
(* then the thread, or the turn of the Windows loop, is over.            *)
Start ==
  /\ pc = "start"
  /\ \/ /\ proc' = "alive"
        /\ pc' = IF agent = "linux" THEN "check" ELSE "wait"
        /\ UNCHANGED <<posts, result>>
     \/ /\ agent = "linux"
        /\ pc' = "callback"
        /\ UNCHANGED <<proc, posts, result>>
     \/ /\ agent = "windows"
        /\ result' = [code |-> Missing, lines |-> {Note}]
        /\ posts' = {{Note}}
        /\ pc' = "upload"
        /\ UNCHANGED proc
     \/ pc' = "idle" /\ UNCHANGED <<proc, posts, result>>
  /\ UNCHANGED <<agent, code, late, due, lineVars, cb, file>>

(* The callback, sent once whatever becomes of it. *)
Callback ==
  /\ pc = "callback"
  /\ cb' = "sent"
  /\ pc' = "idle"
  /\ UNCHANGED <<procVars, due, lineVars, posts, result, file>>

-------------------------------------------------------------------------------
(* The Linux agent's loop and its reader threads. *)

ReadLine(s) ==
  /\ agent = "linux" /\ read[s] < wrote[s]
  /\ read' = [read EXCEPT ![s] = @ + 1]
  /\ UNCHANGED <<procVars, pc, due, wrote, taken, sent, posts, result, cb, file>>

Batch == Between(sent, taken)

(* flush_logs: the batch is forgotten before its fate is known. *)
FlushKeepingBatch == posts' = posts \cup {Batch} /\ due' = FALSE /\ UNCHANGED sent
Flush == posts' = posts \cup {Batch} /\ due' = FALSE /\ sent' = taken

(* process.poll() is not None and log_queue.empty() and not (a batch is due) *)
FinishedWhenQuiet == read = taken
Finished == proc # "alive" /\ read = taken /\ ~(Batch # {} /\ due)

ReportLastBatch == [code |-> code, lines |-> Batch]
Report == [code |-> code, lines |-> Between(Zero, taken)]

Check ==
  /\ pc = "check"
  /\ IF ~Finished
     THEN pc' = "drain" /\ UNCHANGED <<due, sent, posts, result>>
     ELSE /\ result' = Report
          /\ IF Batch = {}
             THEN pc' = "callback" /\ UNCHANGED <<due, sent, posts>>
             ELSE pc' = "lastPost" /\ Flush
  /\ UNCHANGED <<procVars, wrote, read, taken, cb, file>>

Drain ==
  /\ pc = "drain"
  /\ taken' = read
  /\ pc' = "send"
  /\ UNCHANGED <<procVars, due, wrote, read, sent, posts, result, cb, file>>

BigBatchOnly == Cardinality(Batch) >= BatchSize
BatchReady == Cardinality(Batch) >= BatchSize \/ (Batch # {} /\ due)

Send ==
  /\ pc = "send"
  /\ IF BatchReady THEN pc' = "posting" /\ Flush
     ELSE pc' = "clock" /\ UNCHANGED <<due, sent, posts>>
  /\ UNCHANGED <<procVars, wrote, read, taken, result, cb, file>>

(* The post is answered, fails, or is given up after 5 s: all the same. *)
Proceed ==
  /\ \/ pc = "posting" /\ pc' = "clock"
     \/ pc = "lastPost" /\ pc' = "callback"
  /\ UNCHANGED <<procVars, due, lineVars, posts, result, cb, file>>

(* Once the time is over the script, running or not, counts as timed out,  *)
(* and what is queued or batched is not posted any more.                   *)
Clock ==
  /\ pc = "clock"
  /\ IF late
     THEN /\ proc' = IF proc = "alive" THEN "killed" ELSE proc
          /\ result' = [code |-> TimedOut, lines |-> Between(Zero, taken)]
          /\ pc' = "callback"
     ELSE pc' = "check" /\ UNCHANGED <<proc, result>>
  /\ UNCHANGED <<agent, code, late, due, lineVars, posts, cb, file>>

-------------------------------------------------------------------------------
(* The Windows agent. *)

(* communicate() has the whole output. *)
Output == Between(Zero, wrote)
Tail == {l \in Output : l[2] + Keep > wrote[l[1]]}

(* The log is uploaded when there is one. *)
Upload(r) ==
  /\ result' = r
  /\ taken' = wrote /\ read' = wrote /\ sent' = wrote
  /\ IF r.lines = {} THEN pc' = "callback" /\ UNCHANGED posts
     ELSE pc' = "upload" /\ posts' = {r.lines}

WinEnds ==
  /\ pc = "wait" /\ proc = "ended"
  /\ Upload([code |-> code, lines |-> Tail])
  /\ UNCHANGED <<procVars, due, wrote, cb, file>>

WinTimeout ==
  /\ pc = "wait" /\ proc = "alive" /\ late
  /\ proc' = "killed"
  /\ Upload([code |-> TimedOut, lines |-> Output \cup {Note}])
  /\ UNCHANGED <<agent, code, late, due, wrote, cb, file>>

(* The upload is answered, or an exception drops the callback as well. *)
WinUploaded ==
  /\ pc = "upload"
  /\ \/ result.lines \notin posts /\ pc' = "callback"
     \/ pc' = "idle"
  /\ UNCHANGED <<procVars, due, lineVars, posts, result, cb, file>>

-------------------------------------------------------------------------------
(* The manager. *)

(* POST /api/tasks/log appends, whenever the request is handled. *)
Append(b) ==
  /\ posts' = posts \ {b}
  /\ file' = [l \in Line |-> IF l \in b THEN file[l] + 1 ELSE file[l]]
  /\ UNCHANGED <<procVars, pc, due, lineVars, result, cb>>

(* The request is lost, or the file cannot be opened. *)
LosePost(b) ==
  /\ posts' = posts \ {b}
  /\ UNCHANGED <<procVars, pc, due, lineVars, result, cb, file>>

(* POST /api/tasks/callback: what came with it, if anything, replaces the *)
(* file.                                                                  *)
Overwrite(lines) ==
  IF lines = {} THEN file ELSE [l \in Line |-> IF l \in lines THEN 1 ELSE 0]

HandleCallback ==
  /\ cb = "sent"
  /\ cb' = "handled"
  /\ file' \in {Overwrite(result.lines), file}
  /\ UNCHANGED <<procVars, pc, due, lineVars, posts, result>>

LoseCallback ==
  /\ cb = "sent"
  /\ cb' = "lost"
  /\ UNCHANGED <<procVars, pc, due, lineVars, posts, result, file>>

-------------------------------------------------------------------------------
Linux   == Check \/ Drain \/ Send \/ Proceed \/ Clock
Windows == WinEnds \/ WinTimeout \/ WinUploaded
Manager ==
  \/ \E b \in posts : Append(b) \/ LosePost(b)
  \/ HandleCallback \/ LoseCallback

Next ==
  \/ \E s \in Stream : Write(s) \/ ReadLine(s)
  \/ \E c \in ScriptCode : Exit(c)
  \/ Elapse \/ FlushDue
  \/ Start \/ Callback \/ Linux \/ Windows \/ Manager

Spec == Init /\ [][Next]_vars

(* The threads run, time passes and every post is answered or given up.     *)
(* Nothing is assumed of the script, of timeout_sec or of the manager.      *)
FairSpec ==
  Spec /\ WF_vars(Start \/ Callback \/ Linux \/ Windows)
       /\ WF_vars(FlushDue) /\ \A s \in Stream : WF_vars(ReadLine(s))

-------------------------------------------------------------------------------
(* Nothing that reached the log file is ever lost from it, although the     *)
(* callback replaces the file: what it carries covers every batch before it. *)
LogGrows == [][\A l \in Line : file[l] > 0 => file'[l] > 0]_vars

(* Until the callback is handled no line is in the file twice, although     *)
(* posts are given up while on their way: a batch is never posted again.    *)
PostedOnce == cb # "handled" => \A l \in Line : file[l] <= 1

(* The callback reports the script's own code, or that time had run out, or *)
(* that there was no script: not a code of a script that is still running.  *)
ReportIsTrue ==
  cb # "none" =>
    /\ result.code = Missing => proc = "none"
    /\ result.code = TimedOut => late
    /\ result.code \in ScriptCode => proc = "ended" /\ result.code = code
    /\ result.code # Unknown

(* Once the script ended, or its time is over, the thread is free again: a  *)
(* batch that is due does not keep the Linux loop going round (line 154).   *)
JobEnds == proc = "ended" \/ late ~> pc = "idle"

(* "The process ended and all output was read": a script that was not timed *)
(* out is reported with everything it wrote (Linux).  Refuted: the queue is *)
(* empty as well when the readers have not got to the lines yet.            *)
OutputComplete ==
  cb # "none" /\ agent = "linux" /\ result.code \in ScriptCode =>
    result.lines = Between(Zero, wrote)

(* "Overwrite the live log at the end, lest the same content be appended    *)
(* twice": no line is in the file twice.  Refuted by a post that was given  *)
(* up and is handled after the callback.                                    *)
NoRepeats == \A l \in Line : file[l] <= 1
===============================================================================
