SPECIFICATION WalkSpec
CONSTANTS
  NotTheForm = NotTheForm
  MinInt <- MCMinInt
  MaxInt = 300000
  MaxSecs = 2147483647
  FirstDates <- MCFirstDates
  LastDay = 146200
  TimesOfDay <- MCTimesOfDay
  LastTimedDay = 24800
  Judged <- MCJudged
INVARIANTS
  NumberCountsDays
  CalendarsAgree
  ToleranceIsExact
