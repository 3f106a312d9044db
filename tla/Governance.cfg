SPECIFICATION Spec
CONSTANTS
  Threads = {t1, t2}
  Processes = {n1, n2}
  People = {p1, p2, p3}
  Nobody = Nobody
  Quotas <- MCQuotas
  MaxControls = 3
  MaxArtifacts = 2
  Events = {e1}
  Contents = {good, bad}
SYMMETRY MCSymmetry
INVARIANTS TypeOK ServesApproved LedgerVerifies LedgerTellsTruth ChangesAreRecorded
PROPERTIES ControlsAreGoverned ArtifactsAreGoverned EmergencyHolds
CHECK_DEADLOCK FALSE
