SPECIFICATION Spec
CONSTANTS
  Approvers = {"manager", "officer", "deputy", "contact"}
  Asked <- RuleOrNot
  Bucket <- ByRule
  Manager = "manager"
  Requester = "requester"
  Leavers = {"deputy", "requester"}
  Sessions = {s1, s2}
  Minimums <- TwoAndOne
  Nobody = Nobody
SYMMETRY Symmetry
CHECK_DEADLOCK FALSE
INVARIANTS
  TypeOK
  QuorumBeforeRelease
  ReleasedOnce
  StillDecidable
