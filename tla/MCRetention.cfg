SPECIFICATION Spec
CONSTANTS
  MaxTime = 9
  Year <- SmallYear
  Month <- SmallMonth
  Week <- SmallWeek
  Recent = 2
  WeeklyFor = 5
  MonthlyFor = 7
INVARIANTS
  AppliesPolicy
  YearKept
  RecentKept
  WeekCovered
