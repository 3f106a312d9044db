SPECIFICATION Spec
CONSTANTS
  Workers = {w1}
  BatchSize = 2
  MaxAttempts = 2
  MaxLen = 1
  MaxEvents = 2
  MaxFaults = 1
INVARIANT ReplayIsRecorded
