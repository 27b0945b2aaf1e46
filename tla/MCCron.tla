------------------------------- MODULE MCCron -------------------------------
(* A reminder of 1 January, "0 0 1 1 *", created in 2023, in seconds, on    *)
(* the calendar of 2023 to 2025.                                            *)
EXTENDS Cron, SequencesExt

VARIABLES last, next   \* the run before, or the creation, and the next run

vars == <<last, next>>

(* 2023 begins on a Sunday; 2024 has a 29 February.                         *)
MonthLengths(year) ==
  <<31, IF year = 2024 THEN 29 ELSE 28, 31, 30, 31, 30, 31, 31, 30, 31, 30, 31>>
AddMonth(days, len, month) ==
  days \o [d \in 1 .. len |->
            [month |-> month, day |-> d, weekday |-> (Len(days) + d - 1) % 7]]
AddYear(days, year) ==
  FoldLeft(LAMBDA c, m : AddMonth(c, MonthLengths(year)[m], m), days,
           [m \in 1 .. 12 |-> m])
MCCalendar == FoldLeft(AddYear, <<>>, <<2023, 2024, 2025>>)

Only(n) == <<[kind |-> "range", from |-> n, to |-> n, step |-> 0]>>
Yearly == [kind |-> "cron",
           cron |-> [fields |-> 5, minute |-> Only(0), hour |-> Only(0), day |-> Only(1),
                     month |-> Only(1), week |-> Star]]

Day == 24 * 60 * Minute
Created == 151 * Day + 10 * 60 * Minute   \* 1 June 2023, 10:00

Init == last = Created /\ next = CalculateNextRun(Yearly, Created)

(* checkDue at the second the reminder is due.                              *)
Run ==
  /\ last' = next
  /\ next' = CalculateNextRun(Yearly, next)

Spec == Init /\ [][Run]_vars

(* internal/proactive/cron.go:27: up to 366 days are tried to find a match, *)
(* so a schedule that matches at some minute of the next 366 days runs at   *)
(* such a minute.                                                           *)
MatchIsFound ==
  LET x == Expand(Yearly.cron) IN
  (\E m \in last \div Minute + 1 .. (last + 366 * Day) \div Minute : Matches(x, m)) =>
    Matches(x, next \div Minute)
=============================================================================
