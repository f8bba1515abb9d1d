----------------------------- MODULE OrderQuotas ----------------------------
(***************************************************************************)
(* What an order must pass before it is placed: the capacity of the pool,  *)
(* the user's own limit and, for a webhook, a reference that was not used  *)
(* before.  Each check is a statement of its own and the insert comes      *)
(* after them all; nothing is locked in between.  Orders are of one asset  *)
(* type, numbered as placed.  (The limit on active users is UserLicence.)  *)
(***************************************************************************)
EXTENDS Naturals, FiniteSets

CONSTANTS
  QuotaUsers, QuotaRequests,
  MaxQuotaOrders, \* bound: orders placed
  PoolCapacity,   \* asset_types.pool_capacity
  MaxPerUser,     \* asset_types.max_per_user, 0 = unbounded
  MaxRetries      \* bound: failed orders retried

ASSUME QuotaAssumption ==
  /\ IsFiniteSet(QuotaRequests) /\ QuotaRequests # {}
  /\ {MaxQuotaOrders, PoolCapacity, MaxPerUser, MaxRetries} \subseteq Nat

VARIABLES
  holder, standing, \* by order: its user, its status ("unused" before)
  ref,            \* orders that carry the ServiceNow reference
  needsApproval,  \* the asset type requires an approval
  retried,        \* orders set to processing again
  req             \* by request: [pc, door, user]

quotaVars == <<holder, standing, ref, needsApproval, retried, req>>
orderVars == <<holder, standing, ref, retried>>

OrderIds == 1..MaxQuotaOrders
Standings == {"waiting", "running", "failed", "ended"}
Doors == {"portal", "api", "webhook"}

(* Mutant of Counted: what awaits approval holds no slot.                   *)
CountedStarted == {"running"}

(* capacity._ACTIVE_STATUSES; portal._ACTIVE_ORDER_STATUSES leaves out what *)
(* awaits approval.                                                         *)
Counted == {"waiting", "running"}
PortalCounted == {"running"}

PoolOrders(statuses) == {o \in OrderIds : standing[o] \in statuses}
OrdersOf(u, statuses) == {o \in PoolOrders(statuses) : holder[o] = u}

-----------------------------------------------------------------------------
(* Requests: portal_create_order, create_order, receive_servicenow_webhook. *)

NoRequest == [pc |-> "idle", door |-> "api", user |-> "-"]
Idle(r) == req[r] = NoRequest

(* A refused or completed request is over.                                  *)
Advance(r, pc) ==
  req' = [req EXCEPT ![r] = IF pc = "idle" THEN NoRequest ELSE [@ EXCEPT !.pc = pc]]

Arrive(r, door, u) ==
  /\ Idle(r)
  /\ req' = [req EXCEPT ![r] = [pc |-> "pool", door |-> door, user |-> u]]
  /\ UNCHANGED <<orderVars, needsApproval>>

(* _get_unavailable_type_ids at the portal, enforce_pool_capacity elsewhere. *)
Full(door) ==
  Cardinality(PoolOrders(IF door = "portal" THEN PortalCounted ELSE Counted)) >= PoolCapacity

CheckPool(r) ==
  /\ req[r].pc = "pool"
  /\ Advance(r, IF Full(req[r].door) THEN "idle" ELSE "user")
  /\ UNCHANGED <<orderVars, needsApproval>>

(* enforce_max_per_user.                                                    *)
CheckUser(r) ==
  /\ req[r].pc = "user"
  /\ Advance(r, IF MaxPerUser > 0 /\ Cardinality(OrdersOf(req[r].user, Counted)) >= MaxPerUser
                THEN "idle" ELSE "ref")
  /\ UNCHANGED <<orderVars, needsApproval>>

(* The look-up of servicenow_ref; the column has an index, not a constraint. *)
RefIsNew(r) == req[r].door = "webhook" => ref = {}

CheckRef(r) ==
  /\ req[r].pc = "ref"
  /\ Advance(r, IF RefIsNew(r) THEN "insert" ELSE "idle")
  /\ UNCHANGED <<orderVars, needsApproval>>

(* Only the portal asks for approvals; the others process at once.          *)
FirstStanding(door) == IF door = "portal" /\ needsApproval THEN "waiting" ELSE "running"

InsertOrder(r, o) ==
  /\ req[r].pc = "insert"
  /\ standing[o] = "unused" /\ \A p \in OrderIds : p < o => standing[p] # "unused"
  /\ holder' = [holder EXCEPT ![o] = req[r].user]
  /\ standing' = [standing EXCEPT ![o] = FirstStanding(req[r].door)]
  /\ ref' = IF req[r].door = "webhook" THEN ref \cup {o} ELSE ref
  /\ Advance(r, "idle")
  /\ UNCHANGED <<needsApproval, retried>>

-----------------------------------------------------------------------------
(* What becomes of the orders.                                              *)

Turn(o, from, to) ==
  /\ standing[o] = from /\ standing' = [standing EXCEPT ![o] = to]
  /\ UNCHANGED <<holder, ref, needsApproval, req>>

ApproveOrder(o) == Turn(o, "waiting", "running") /\ UNCHANGED retried
EndOrder(o) == \E from \in {"waiting", "running"} : Turn(o, from, "ended") /\ UNCHANGED retried
FailOrder(o) == Turn(o, "running", "failed") /\ UNCHANGED retried

(* admin_retry_order: no limit is looked at.                                *)
RetryOrder(o) ==
  /\ retried < MaxRetries /\ retried' = retried + 1
  /\ Turn(o, "failed", "running")

-----------------------------------------------------------------------------
QuotaInit ==
  /\ holder = [o \in OrderIds |-> NoRequest.user]
  /\ standing = [o \in OrderIds |-> "unused"] /\ ref = {}
  /\ needsApproval \in BOOLEAN /\ retried = 0
  /\ req = [r \in QuotaRequests |-> NoRequest]

QuotaNext ==
  \/ \E r \in QuotaRequests :
       \/ \E door \in Doors, u \in QuotaUsers : Arrive(r, door, u)
       \/ CheckPool(r) \/ CheckUser(r) \/ CheckRef(r)
       \/ \E o \in OrderIds : InsertOrder(r, o)
  \/ \E o \in OrderIds : ApproveOrder(o) \/ EndOrder(o) \/ FailOrder(o) \/ RetryOrder(o)

QuotaSpec == QuotaInit /\ [][QuotaNext]_quotaVars

QuotaTypeOK ==
  /\ holder \in [OrderIds -> QuotaUsers \cup {"-"}]
  /\ standing \in [OrderIds -> Standings \cup {"unused"}]
  /\ ref \subseteq OrderIds /\ needsApproval \in BOOLEAN /\ retried \in 0..MaxRetries
  /\ req \in [QuotaRequests -> [pc : {"idle", "pool", "user", "ref", "insert"},
                                door : Doors, user : QuotaUsers \cup {"-"}]]

(* Requests that pass a check at the same moment exceed a limit together,   *)
(* by at most all of them but one.  A retried order was not checked again.  *)
Race == Cardinality(QuotaRequests) - 1 + retried

(* A user's active orders exceed max_per_user by no more than the race.     *)
UserWithinRace ==
  MaxPerUser > 0 =>
    \A u \in QuotaUsers : Cardinality(OrdersOf(u, Counted)) <= MaxPerUser + Race

(* The active orders exceed the pool by no more than the race, for a type   *)
(* that needs no approval.                                                  *)
PoolWithinRace ==
  ~needsApproval => Cardinality(PoolOrders(Counted)) <= PoolCapacity + Race

(* One reference, as many orders as there are requests at once, at most.    *)
RefWithinRace == Cardinality(ref) <= Cardinality(QuotaRequests)

(* No limit is passed by more than the requests that overlap.               *)
QuotasKept == UserWithinRace /\ PoolWithinRace /\ RefWithinRace

=============================================================================
