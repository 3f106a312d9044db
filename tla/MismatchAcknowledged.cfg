SPECIFICATION Spec
CONSTANTS
  Recs = {r1}
  Operators = {op1}
  Principals = {p1, p2}
  MaxIncidents = 2
INVARIANT AcknowledgedStaysOpen
CHECK_DEADLOCK FALSE
