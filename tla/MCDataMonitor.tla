----------------------------- MODULE MCDataMonitor -----------------------------
(* DataMonitor on a small instance: one database with two tables and its    *)
(* category, and a second group.  A user has made a weekly monitor of the   *)
(* table trades under the id the script would use, and edits it to a        *)
(* monthly one of the table prices.  Day 0 is a Monday; the first month     *)
(* ends on the Sunday of the first week, the second within the next week.   *)
EXTENDS DataMonitor, TLC

CONSTANTS auto, hand, prices, trades, base, own, db, w1, w2, c1

MCMonth    == [d \in 0..LastDay |-> IF d <= 6 THEN 1 ELSE IF d <= 9 THEN 2 ELSE 3]
MCHome     == [t \in Table |-> db]
MCCategory == [x \in Database |-> base]
MCAutoId   == (prices :> auto) @@ (trades :> hand)
Made(t, f) == [table |-> t, group |-> own, enabled |-> TRUE, freq |-> f]
MCExisting == (auto :> Nothing) @@ (hand :> Made(trades, "weekly"))
MCForms    == {Made(prices, "monthly")}
MCImports  == {{3}}
Symmetry   == Permutations(Worker)
===============================================================================
