SPECIFICATION Spec
CONSTANTS
  Offers = {o1}
  Sessions = {s1}
  ExecTimeout = 2
  TokenTTL = 2
  OfferTTL = 3
  MaxTime = 5
PROPERTY NoClaimUnderContainment

CHECK_DEADLOCK FALSE
