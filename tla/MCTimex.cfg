SPECIFICATION MCSpec
CONSTANTS
  ClockEnd = 14
  Offsets <- MCOffsets
  MaxAdjustments = 1
  Callers = {c1, c2}
  NoCaller = none
  Names <- MCNames
  SystemId <- MCSystemId
  WindowsId <- MCWindowsId
  History <- MCHistory
  Queries <- MCQueries
  MaxIcuSeconds = 15
  MaxSecond = 17
  MaxRequests = 1
  Sleepers = {s1}
  Durations = {0, 1, 3}
  Days = {0, 1, 2, 3}
  MonthStarts = {1, 8}
  Counts = {0, 1, 3, 4}
  TimesOfDay = {0, 1}
  TicksPerDay = 4
  TicksPerMs = 2
  DaysPerWeek = 2
  LastDay = 10
  LastConvertible = 2
  MaxCount = 7
  LongestSleep = 6
  LongestTimer = 4
  MaxInterrupts = 2
  LatestCall = 0
  MaxLag = 1
INVARIANTS
  SelectionHolds
  InfoIsSound
  WakeIsExact
PROPERTIES
  NeverEarly
  CallsEnd
