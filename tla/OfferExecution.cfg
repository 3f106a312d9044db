SPECIFICATION Spec
CONSTANTS
  Offers = {o1}
  Sessions = {s1, s2}
  ExecTimeout = 2
  TokenTTL = 3
  OfferTTL = 4
  MaxTime = 6
INVARIANTS TypeOK SingleOwner CompletionRecorded AskedOnlyWithConsent
PROPERTIES KeepsThePromise
SYMMETRY Symmetry
CHECK_DEADLOCK FALSE
