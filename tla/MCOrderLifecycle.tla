-------------------------- MODULE MCOrderLifecycle --------------------------
(***************************************************************************)
(* Instances of OrderLifecycle for TLC.  Order ids are 1..n, the sequence  *)
(* of the orders table; users, assets, workers and sessions are model      *)
(* values.  A .cfg picks one set of handlers and faults for its question.  *)
(***************************************************************************)
EXTENDS OrderLifecycle, TLC

TwoOrders == 1..2
ThreeOrders == 1..3

(* The requests of users and Beat that a correct pool rests on.             *)
PoolHandlers ==
  {"createImmediate", "createScheduled", "createForApproval", "approve",
   "decline", "scheduled", "portalCancel", "expiry", "retry", "targetFault"}

(* Everything a departed user may have under way.                           *)
LeaverHandlers ==
  {"createImmediate", "createScheduled", "createForApproval", "approve",
   "scheduled", "portalCancel", "adminCancel", "change", "leaver",
   "certRevoke", "retry", "recover"}

(* Every way into an approval-gated order, and out of it, with every fault. *)
GateHandlers ==
  {"createImmediate", "createForApproval", "approve", "decline",
   "change", "orderDelete", "leaver", "recover", "crash", "silentDeath",
   "duplicate", "runRaises", "lostPublish"}

(* Operators and Beat working on the rows of the pool.                      *)
AdminHandlers ==
  {"createImmediate", "apiActions", "createScheduled", "scheduled",
   "adminCancel", "adminChange", "revokeAsset", "expiry", "earlyExpiry",
   "poolModules", "runbookFault", "targetFault"}

(* An order, and the departure of its user.                                *)
PlaceAndLeave == {"createImmediate", "leaver"}

(* Runs that are redelivered, raise or fail, but are not lost.              *)
SettleHandlers ==
  {"createImmediate", "leaver", "retry", "crash", "runbookFault"}

Symmetry == Permutations(Workers) \cup Permutations(Users)
              \cup Permutations(Assets) \cup Permutations(Sessions)
=============================================================================
