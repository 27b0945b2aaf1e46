-------------------------------- MODULE Cron --------------------------------
(***************************************************************************)
(* internal/proactive/cron.go: the next run of a five-field cron schedule, *)
(* and CalculateNextRun of scheduler.go, which also knows "@every".        *)
(*                                                                         *)
(* A time is a number of units, Minute of them to the minute, from the     *)
(* first minute of the Calendar; Calendar says of each day what package    *)
(* time does.  A field is a sequence of parts, as its commas separate      *)
(* them, each of them [kind, from, to, step]:                              *)
(*   "all"    *, or with a step not 0 the form "*" followed by /step       *)
(*   "range"  from-to or a single value, with a step or not (0)            *)
(*   "bad"    what strconv.Atoi refuses, or a step that is not positive    *)
(***************************************************************************)
EXTENDS Integers, Sequences, FiniteSetsExt

CONSTANTS
  Minute,          \* units of time in a minute
  MinutesPerHour, HoursPerDay, DaysPerWeek, DaysPerMonth, MonthsPerYear,
  Calendar,        \* of each day: its month, day of the month and weekday
  Horizon          \* the minutes parseCronExpression tries

Star == <<[kind |-> "all", from |-> 0, to |-> 0, step |-> 0]>>
None == -1         \* the zero time.Time: no next run

-----------------------------------------------------------------------------
(* What one part adds to the set that expandField makes of a field.         *)
Part(p, lo, hi) ==
  LET from == IF p.kind = "all" THEN lo ELSE p.from
      to   == IF p.kind = "all" THEN hi ELSE p.to
      step == IF p.step = 0 THEN 1 ELSE p.step
  IN {v \in lo .. hi : from <= v /\ v <= to /\ (v - from) % step = 0}

(* One bad part makes expandField fail; its caller ignores the error, and   *)
(* the field matches nothing.                                               *)
ExpandField(f, lo, hi) ==
  IF \E i \in DOMAIN f : f[i].kind = "bad" THEN {}
  ELSE UNION {Part(f[i], lo, hi) : i \in DOMAIN f}

(* A schedule's fields, expanded.  Only a plain star leaves a day field     *)
(* unrestricted.                                                            *)
Expand(s) ==
  [minute |-> ExpandField(s.minute, 0, MinutesPerHour - 1),
   hour   |-> ExpandField(s.hour, 0, HoursPerDay - 1),
   day    |-> ExpandField(s.day, 1, DaysPerMonth),
   month  |-> ExpandField(s.month, 1, MonthsPerYear),
   week   |-> ExpandField(s.week, 0, DaysPerWeek - 1),
   anyDay |-> s.day = Star, anyWeek |-> s.week = Star]

DayMatches(x, d) ==
  CASE x.anyDay /\ x.anyWeek   -> TRUE
    [] ~x.anyDay /\ x.anyWeek  -> d.day \in x.day
    [] x.anyDay /\ ~x.anyWeek  -> d.weekday \in x.week
    [] ~x.anyDay /\ ~x.anyWeek -> d.day \in x.day \/ d.weekday \in x.week

(* The minute m of the calendar matches.                                    *)
Matches(x, m) ==
  LET d == Calendar[m \div (MinutesPerHour * HoursPerDay) + 1] IN
  /\ m % MinutesPerHour \in x.minute
  /\ (m \div MinutesPerHour) % HoursPerDay \in x.hour
  /\ d.month \in x.month
  /\ DayMatches(x, d)

(* parseCronExpression: the first minute after `after` that matches, of     *)
(* Horizon minutes; without one, or with a number of fields other than      *)
(* five, one minute later.                                                  *)
ParseCronExpression(s, after) ==
  LET x == Expand(s)
      first == after \div Minute + 1
      found == {m \in first .. first + Horizon - 1 : Matches(x, m)}
  IN IF s.fields = 5 /\ found # {} THEN Min(found) * Minute ELSE after + Minute

(* CalculateNextRun: no schedule, a duration (of whatever sign) or one that *)
(* time.ParseDuration refuses, and anything else.                           *)
CalculateNextRun(s, after) ==
  CASE s.kind = "none"  -> None
    [] s.kind = "bad"   -> None
    [] s.kind = "every" -> after + s.every
    [] s.kind = "cron"  -> ParseCronExpression(s.cron, after)
=============================================================================
