SPECIFICATION Spec
CONSTANTS
  Assets = {a1, a2}
  Orders <- ThreeOrders
  NoOrder = NoOrder
  Users = {u1, u2}
  Workers = {w1, w2}
  Sessions = {s1}
  Strategy = "group_only"
  Policy = "access_only"
  AssignmentModel = "assigned_personal"
  Handlers <- PoolHandlers
  MaxCopies = 1
  MaxFaults = 0
  NoAsset = NoAsset
  NoUser = NoUser
SYMMETRY Symmetry
CHECK_DEADLOCK FALSE
INVARIANTS
  ExclusiveAssignment
