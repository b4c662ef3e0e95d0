SPECIFICATION FairSpec
CONSTANTS
  t1 = t1
  t2 = t2
  Timers <- MCTimers
  Ids = {1, 2}
  Durations = {0, 2}
  Wrap = 64
  StartTime = 1
  MaxClock = 3
  ClockRuns = TRUE
  MaxDepth = 2
  Horizon = 9
INVARIANTS TypeOK NoReentry NextTimeWhenNoneOverdue
PROPERTIES PeriodIsKept DispatchEnds
