SPECIFICATION Spec
CONSTANTS
  Recs = {r1}
  Operators = {op1}
  Principals = {p1, p2}
  MaxIncidents = 3
INVARIANTS TypeOK FourEyes CaseHasItsRecord
PROPERTIES VerdictIsFinal Reconciled CaseIsFiled ClosureIsNoticed
