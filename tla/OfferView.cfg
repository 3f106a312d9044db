SPECIFICATION Spec
CONSTANTS
  p1 = p1
  p2 = p2
  Profiles <- MCProfiles
  First = p1
  Stressed = p2
  MaxRuns = 3
  MaxPolls = 2
  MaxChanges = 1
  Slots <- MCSlots
INVARIANTS TypeOK LatestRunOnly ShownToItsOwner AskedByItsOwner TokenOfItsOffer
PROPERTIES ConfirmedAsRead LockIsReleased PollingEnds
CHECK_DEADLOCK FALSE
