SPECIFICATION FairSpec
CONSTANTS
  Assets = {a1}
  Orders <- TwoOrders
  NoOrder = NoOrder
  Users = {u1}
  Workers = {w1}
  Sessions = {s1}
  Strategy = "group_only"
  Policy = "access_only"
  AssignmentModel = "capacity_pooled"
  Handlers <- LeaverHandlers
  MaxCopies = 2
  MaxFaults = 0
  NoAsset = NoAsset
  NoUser = NoUser
CHECK_DEADLOCK FALSE
INVARIANTS
  LeaverLeavesNothing
  RevokedUserIsOut
  AccessIsLogged
PROPERTIES
  LeaverLosesAccess
