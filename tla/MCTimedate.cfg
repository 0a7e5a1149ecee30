SPECIFICATION Spec
CONSTANTS
  Max <- MCMax
  HoursPerDay = 2
  MinutesPerHour = 2
  TicksPerMinute = 2
  Starts <- MCStarts
  Amounts <- MCAmounts
  Durations <- MCDurations
  MaxCalls = 1
INVARIANTS
  ArithmeticIsRight
  FailureIsClean
