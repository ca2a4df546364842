---------------------------- MODULE MCTaskDispatch ----------------------------
(* TaskDispatch on small instances: "pull" and "clean" are bound to node    *)
(* n1, "load" may run anywhere and follows pull in the pipeline daily and   *)
(* clean in the pipeline weekly.                                            *)
EXTENDS TaskDispatch, TLC

CONSTANTS pull, clean, load, n1, n2, daily, weekly, x1, x2, w1, w2

MCTarget  == [t \in Task |-> IF t = load THEN Public ELSE n1]
\* Pull is drawn in both pipelines (a run that names none belongs to none),
\* but it is an entry of daily only (a cron execution belongs to it).
MCMembers == (daily :> {pull, load}) @@ (weekly :> {pull, clean, load} \cap Task)
MCEntries == (daily :> {pull}) @@ (weekly :> {clean} \cap Task)
MCEdges   == {<<daily, pull, load>>, <<weekly, clean, load>>} \cap (Pipeline \X Task \X Task)
MCHome    == [x \in Executor |-> IF x = x1 THEN n1 ELSE n2]
Ask(t, k, s) == [task |-> t, kind |-> k, at |-> s]
RunPull      == {Ask(pull, "manual", 0)}
CronThenIncr == {Ask(pull, "cron", 0), Ask(pull, "incr", 1)}
RunBoth      == {Ask(pull, "manual", 0), Ask(clean, "manual", 0)}
Symmetry  == Permutations(Worker)
===============================================================================
