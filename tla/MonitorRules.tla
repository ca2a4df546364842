----------------------------- MODULE MonitorRules -----------------------------
(***************************************************************************)
(* The days on which a data monitor expects rows, and what a snapshot is   *)
(* shown as.  The manager and the count script have each written the rule  *)
(* of the expected day, is_expected_monitor_data_day in C++ and            *)
(* is_expected_data_day in Python; the two are the same.                   *)
(*                                                                         *)
(* Days are numbered; a month is a number too.                             *)
(***************************************************************************)
EXTENDS Integers

CONSTANTS
  LastDay,       \* bound: the days are 0..LastDay
  FirstWeekday,  \* the weekday of day 0; 0 is Sunday
  Month          \* the month of each day

Day == 0..LastDay

ASSUME Calendar ==
  /\ LastDay \in Nat /\ FirstWeekday \in 0..6
  /\ Month \in [Day -> Nat]
  /\ \A d, e \in Day : d <= e => Month[d] <= Month[e]

Frequency == {"daily", "weekly", "monthly"}

Weekday(d) == (FirstWeekday + d) % 7
Workday(d) == Weekday(d) \in 1..5
Friday     == 5

(* YEARWEEK(.., 1): a week begins on Monday. *)
Week(d) == (FirstWeekday + d + 6) \div 7

SamePeriod(freq, d, e) == IF freq = "weekly" THEN Week(d) = Week(e) ELSE Month[d] = Month[e]

(* Mutant: the last day of the month, whatever its weekday. *)
IsLastDayOfMonth(d) == \A e \in Day : e > d => Month[e] # Month[d]

(* No workday of the month is left after d. *)
IsLastWeekdayOfMonth(d) == \A e \in Day : e > d /\ Month[e] = Month[d] => ~Workday(e)

(* known: the dates in trade_calendar.  The last known one of the week or   *)
(* month is expected; where there is none, the Friday or the end of month.  *)
IsExpected(known, d, freq) ==
  \/ freq = "daily"
  \/ LET traded == {e \in known : SamePeriod(freq, d, e)} IN
     \/ d \in traded /\ \A e \in traded : e <= d
     \/ /\ traded = {}
        /\ IF freq = "weekly" THEN Weekday(d) = Friday ELSE IsLastWeekdayOfMonth(d)

(* What the script stores for a table it could count. *)
CountStatus(rows, expected) == IF rows > 0 \/ ~expected THEN "success" ELSE "zero"

(* Mutant: what the script has stored. *)
RawStatus(raw, rows, expected) == raw

(* What the manager shows for it. *)
EffectiveStatus(raw, rows, expected) ==
  IF raw = "zero" /\ rows = 0 /\ ~expected THEN "success" ELSE raw
===============================================================================
