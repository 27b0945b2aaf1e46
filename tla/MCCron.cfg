CONSTANTS
  Minute = 60
  MinutesPerHour = 60
  HoursPerDay = 24
  DaysPerWeek = 7
  DaysPerMonth = 31
  MonthsPerYear = 12
  Calendar <- MCCalendar
  Horizon = 526000
SPECIFICATION Spec
INVARIANTS
  MatchIsFound
