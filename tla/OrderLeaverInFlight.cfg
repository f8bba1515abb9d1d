SPECIFICATION Spec
CONSTANTS
  Assets = {a1}
  Orders <- TwoOrders
  NoOrder = NoOrder
  Users = {u1}
  Workers = {w1, w2}
  Sessions = {s1}
  Strategy = "group_only"
  Policy = "access_only"
  AssignmentModel = "assigned_personal"
  Handlers <- PlaceAndLeave
  MaxCopies = 2
  MaxFaults = 0
  NoAsset = NoAsset
  NoUser = NoUser
CHECK_DEADLOCK FALSE
SYMMETRY Symmetry
INVARIANT LeaverLeavesNothing
