SPECIFICATION Spec
CONSTANTS
  Assets = {a1}
  Orders <- TwoOrders
  NoOrder = NoOrder
  Users = {u1}
  Workers = {w1}
  Sessions = {s1}
  Strategy = "composite"
  Policy = "return_to_pool"
  AssignmentModel = "assigned_personal"
  Handlers <- GateHandlers
  MaxCopies = 1
  MaxFaults = 1
  NoAsset = NoAsset
  NoUser = NoUser
CHECK_DEADLOCK FALSE
INVARIANTS
  TypeOK
  ApprovalGate
