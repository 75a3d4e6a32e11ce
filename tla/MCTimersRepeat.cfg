SPECIFICATION Spec
CONSTANTS
  Day = 3
  Weekdays = 2
  Settings <- RepeatSettings
  LongestTimeout = 4
  MaxTime = 5
  MaxTimers = 1
  MaxUpdates = 0
INVARIANTS
  TriggeredAreStarted
CHECK_DEADLOCK FALSE
