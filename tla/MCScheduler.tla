----------------------------- MODULE MCScheduler -----------------------------
(* Small instances of Scheduler; and the schedules of Cron, on a calendar   *)
(* of five short months, against a definition of what a schedule means.     *)
EXTENDS Scheduler, Sequences

CONSTANTS A, B, j1, j2

\* j1 recurs and is A's; j2 has no next run and is the other account's.
MCOwner == [j \in Jobs |-> IF j = j2 /\ B \in Accounts THEN B ELSE A]
MCPeriod == [j \in Jobs |-> IF j = j1 THEN 1 ELSE 0]

-----------------------------------------------------------------------------
Days == <<1, 2, 3, 1, 2, 1, 2, 3, 1, 2, 1, 2, 3>>
MonthOfDay == <<1, 1, 1, 2, 2, 1, 1, 1, 2, 2, 1, 1, 1>>
SmallCalendar ==
  [d \in 1 .. 13 |-> [month |-> MonthOfDay[d], day |-> Days[d], weekday |-> d % 3]]

\* Two seconds to the minute, three minutes to the hour, two hours to the day.
C == INSTANCE Cron WITH Minute <- 2, MinutesPerHour <- 3, HoursPerDay <- 2,
       DaysPerWeek <- 3, DaysPerMonth <- 3, MonthsPerYear <- 2,
       Calendar <- SmallCalendar, Horizon <- 40

Every(n) == <<[kind |-> "all", from |-> 0, to |-> 0, step |-> n]>>
Span(a, b, n) == <<[kind |-> "range", from |-> a, to |-> b, step |-> n]>>
Only(n) == Span(n, n, 0)
Bad == <<[kind |-> "bad", from |-> 0, to |-> 0, step |-> 0]>>

Schedules ==
  [fields : {5}, minute : {C!Star, Span(0, 2, 2), Only(0) \o Only(1)},
   hour : {C!Star, Only(1), Every(2), Only(0) \o Bad},
   day : {C!Star, Every(2), Only(2), Span(3, 5, 1)},
   month : {C!Star, Only(2)}, week : {C!Star, Only(0), Span(1, 2, 0)}]

(* The value v is one of those that a field names, lo being the field's     *)
(* least: some part counts up to it.                                        *)
Names(f, v, lo) ==
  /\ \A i \in DOMAIN f : f[i].kind # "bad"
  /\ \E i \in DOMAIN f, k \in 0 .. 5 :
       LET n == IF f[i].step = 0 THEN 1 ELSE f[i].step IN
       IF f[i].kind = "all" THEN v = lo + k * n
                            ELSE v = f[i].from + k * n /\ v <= f[i].to

(* docs/en/api.md:491-503: all fields match, but of two restricted day      *)
(* fields one is enough.                                                    *)
DueAt(s, m) ==
  LET d == SmallCalendar[m \div 6 + 1]
      day == Names(s.day, d.day, 1)
      week == Names(s.week, d.weekday, 0)
  IN /\ Names(s.minute, m % 3, 0) /\ Names(s.hour, (m \div 3) % 2, 0)
     /\ Names(s.month, d.month, 1)
     /\ (day /\ week) \/ (C!Star \notin {s.day, s.week} /\ (day \/ week))

(* The next run is the first minute after now at which the schedule is due, *)
(* and one minute from now when there is none within the horizon; and it    *)
(* lies ahead, as Scheduler takes it to.                                    *)
ASSUME NextRunIsFirstDue ==
  \A s \in Schedules, after \in {0, 1, 7, 30, 47, 70} :
    LET run1 == C!ParseCronExpression(s, after)
        m == after \div 2
        ahead == {k \in m + 1 .. m + 40 : DueAt(s, k)}
    IN /\ run1 > after
       /\ IF ahead = {} THEN run1 = after + 2
          ELSE run1 % 2 = 0 /\ run1 \div 2 \in ahead /\ \A k \in ahead : run1 \div 2 <= k

(* Whatever CalculateNextRun cannot read as a duration has no next run, or  *)
(* one that lies ahead: only a duration may name a time that has passed.    *)
ASSUME OnlyDurationsLookBack ==
  \A after \in 0 .. 20, n \in -3 .. 3, f \in {4, 5, 6} :
    LET cron == [CHOOSE s \in Schedules : TRUE EXCEPT !.fields = f]
        Run(kind) == C!CalculateNextRun([kind |-> kind, every |-> n, cron |-> cron], after)
    IN /\ Run("none") = C!None /\ Run("bad") = C!None /\ Run("cron") > after
       /\ Run("every") <= after <=> n <= 0
=============================================================================
