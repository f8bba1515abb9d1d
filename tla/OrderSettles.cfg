SPECIFICATION FairSpec
CONSTANTS
  Assets = {a1}
  Orders <- TwoOrders
  NoOrder = NoOrder
  Users = {u1}
  Workers = {w1}
  Sessions = {s1}
  Strategy = "runbook_only"
  Policy = "return_to_pool"
  AssignmentModel = "assigned_personal"
  Handlers <- SettleHandlers
  MaxCopies = 2
  MaxFaults = 1
  NoAsset = NoAsset
  NoUser = NoUser
CHECK_DEADLOCK FALSE
PROPERTIES
  DispatchedSettles
