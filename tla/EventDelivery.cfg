SPECIFICATION Spec
CONSTANTS
  Workers = {w1, w2}
  BatchSize = 2
  MaxAttempts = 2
  MaxLen = 1
  MaxEvents = 2
  MaxFaults = 2
INVARIANTS TypeOK NothingIsDropped DeadLetterIsEarned
PROPERTY EventIsSettled
