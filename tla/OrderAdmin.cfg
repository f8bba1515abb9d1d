SPECIFICATION Spec
CONSTANTS
  Assets = {a1}
  Orders <- TwoOrders
  NoOrder = NoOrder
  Users = {u1}
  Workers = {w1}
  Sessions = {s1, s2}
  Strategy = "composite"
  Policy = "return_to_pool_reinstall"
  AssignmentModel = "assigned_personal"
  Handlers <- AdminHandlers
  MaxCopies = 1
  MaxFaults = 0
  NoAsset = NoAsset
  NoUser = NoUser
SYMMETRY Symmetry
CHECK_DEADLOCK FALSE
INVARIANTS
  PoolRowConsistent
