SPECIFICATION Spec
CONSTANTS
  Day = 3
  Weekdays = 2
  Settings <- MCSettings
  LongestTimeout = 2
  MaxTime = 5
  MaxTimers = 2
  MaxUpdates = 1
INVARIANTS
  NewTimersStartInTime
  OneRecordingPerChannel
  StoppedDoesNotSleep
  TableIsSaved
PROPERTIES
  AddedDoNotOverlap
CHECK_DEADLOCK FALSE
