--------------------------- MODULE OrderLifecycle ---------------------------
(***************************************************************************)
(* An order from its placement to its deprovisioning: the API handlers     *)
(* that write the orders table, the Celery queue, the workers executing    *)
(* dynamic_runner.run step by step, the Beat jobs, and the pool and        *)
(* directory state they act on.                                            *)
(*                                                                         *)
(* A database transaction is one step.  A handler that reads an order and  *)
(* writes it in a later statement is two (XRead, then XCommit), because    *)
(* the sessions run READ COMMITTED without row locks; it keeps what it has *)
(* read in session[s].  A task run is one step per committed step of the   *)
(* runner; it keeps the order row it loaded at its start in run[w].        *)
(***************************************************************************)
EXTENDS AssetPool, Integers, FiniteSets

CONSTANTS
  Users,
  Workers,          \* task slots of the Celery workers
  Sessions,         \* concurrent API requests and Beat jobs
  Strategy,         \* asset_types.automation_strategy
  Policy,           \* asset_types.deprovision_policy
  AssignmentModel,  \* asset_types.assignment_model
  Handlers,         \* the request handlers, Beat jobs and faults of a run
  MaxCopies,        \* bound: copies of one task message in the broker
  MaxFaults,        \* bound: crashes, redeliveries and lost publications
  NoAsset,
  NoUser

Strategies == {"group_only", "runbook_only", "composite"}
Policies == {"access_only", "return_to_pool", "return_to_pool_reinstall",
             "custom_runbook"}

ASSUME LifecycleAssumption ==
  /\ Orders \subseteq Nat
  /\ NoAsset \notin Assets
  /\ NoUser \notin Users
  /\ Strategy \in Strategies
  /\ Policy \in Policies
  /\ AssignmentModel \in {"assigned_personal", "capacity_pooled"}
  /\ MaxCopies \in Nat
  /\ MaxFaults \in Nat

VARIABLES
  status,      \* orders.status ("none": the row does not exist yet)
  action,      \* orders.action
  assigned,    \* orders.assigned_asset_id
  requester,   \* orders.user_email
  undecided,   \* orders with a pending approval whose answer decides them
  stepped,     \* orders with a 'running' row in order_steps
  grants,      \* state of the order's grant row in order_change_log
  member,      \* users that are in the directory groups of the asset type
  queue,       \* copies of run(order) in the broker
  run,         \* the task run each worker slot is executing
  session,     \* the handler each database session is executing
  faults,      \* faults so far (bounded by MaxFaults)
  cleared,     \* history: orders that needed no approval or have got it
  left         \* history: users a leaver event was received for, with no
               \* order of theirs placed, changed or retried since

orderVars == <<status, action, assigned, requester>>
accessVars == <<grants, member>>
historyVars == <<cleared, left>>
vars == <<poolVars, orderVars, undecided, stepped, accessVars, queue, run,
          session, faults, historyVars>>

Statuses == {"none", "pending_approval", "scheduled", "processing",
             "provisioned", "delivered", "revoking", "revoked", "failed",
             "expired", "cancelled", "rejected"}
Actions == {"provision", "modify", "delete"}
GrantStates == {"none", "success", "rolled_back", "failed"}
Steps == {"idle", "reserve", "grant", "log", "busy", "runbook", "guard", "unlink",
          "revoke", "release", "reinstall", "stamp", "postRelease", "sweep"}
Kinds == {"idle", "portalCancel", "adminCancel", "change", "adminChange",
          "orderDelete", "leaver", "certRevoke", "retry", "scheduled",
          "expiry", "revokeAsset"}

IdleRun == [order |-> NoOrder, action |-> "provision", asset |-> NoAsset,
            pc |-> "idle"]
IdleSession == [kind |-> "idle", order |-> NoOrder, asset |-> NoAsset,
                seen |-> "none", user |-> NoUser, many |-> {}]

(* Every row names existing things, every counter is within its bound, and  *)
(* a run or a session holds what it was given by the row it has read.       *)
TypeOK ==
  /\ PoolTypeOK
  /\ status \in [Orders -> Statuses]
  /\ action \in [Orders -> Actions]
  /\ assigned \in [Orders -> Assets \cup {NoAsset}]
  /\ requester \in [Orders -> Users \cup {NoUser}]
  /\ undecided \subseteq Orders
  /\ stepped \subseteq Orders
  /\ grants \in [Orders -> GrantStates]
  /\ member \subseteq Users \cup {NoUser}
  /\ queue \in [Orders -> Nat]
  /\ run \in [Workers -> [order: Orders \cup {NoOrder}, action: Actions,
                          asset: Assets \cup {NoAsset}, pc: Steps]]
  /\ session \in [Sessions -> [kind: Kinds, order: Orders \cup {NoOrder},
                               asset: Assets \cup {NoAsset},
                               seen: Statuses, user: Users \cup {NoUser},
                               many: SUBSET Orders]]
  /\ faults \in Nat
  /\ cleared \subseteq Orders
  /\ left \subseteq Users

Init ==
  /\ PoolInit
  /\ status = [o \in Orders |-> "none"]
  /\ action = [o \in Orders |-> "provision"]
  /\ assigned = [o \in Orders |-> NoAsset]
  /\ requester = [o \in Orders |-> NoUser]
  /\ undecided = {}
  /\ stepped = {}
  /\ grants = [o \in Orders |-> "none"]
  /\ member = {}
  /\ queue = [o \in Orders |-> 0]
  /\ run = [w \in Workers |-> IdleRun]
  /\ session = [s \in Sessions |-> IdleSession]
  /\ faults = 0
  /\ cleared = {}
  /\ left = {}

-----------------------------------------------------------------------------
(* Helpers                                                                  *)

Personal == AssignmentModel = "assigned_personal"
On(h) == h \in Handlers

Fault == faults < MaxFaults /\ faults' = faults + 1

(* Order ids come from the table's sequence.                                *)
Fresh(o) ==
  /\ status[o] = "none"
  /\ \A p \in Orders : p < o => status[p] # "none"

(* _dispatch_runbook after the commit: one task message per order.  A crash *)
(* of the API process between the commit and the send loses messages.       *)
Publish(S) ==
  /\ \A o \in S : queue[o] < MaxCopies
  /\ \E lost \in SUBSET S :
       /\ IF lost = {} THEN UNCHANGED faults ELSE On("lostPublish") /\ Fault
       /\ queue' = [o \in Orders |->
                      IF o \in S \ lost THEN queue[o] + 1 ELSE queue[o]]

NoPublish == UNCHANGED <<queue, faults>>

(* A new row of the orders table.                                           *)
InsertOrder(o, st, act, a, u) ==
  /\ status' = [status EXCEPT ![o] = st]
  /\ action' = [action EXCEPT ![o] = act]
  /\ assigned' = [assigned EXCEPT ![o] = a]
  /\ requester' = [requester EXCEPT ![o] = u]

(* Mutant of ActiveStatuses: one status is left out.                        *)
ActiveButProvisioned ==
  {"pending_approval", "scheduled", "processing", "delivered"}

(* The statuses utils/leaver.py calls active.                               *)
ActiveStatuses == {"pending_approval", "scheduled", "processing",
                   "provisioned", "delivered"}

(* What a handler keeps of the order row it has loaded.                     *)
Loaded(kind, o) ==
  [kind |-> kind, order |-> o, asset |-> assigned[o], seen |-> status[o],
   user |-> requester[o], many |-> {}]

Opens(s, r) ==
  /\ On(r.kind)
  /\ session[s] = IdleSession
  /\ session' = [session EXCEPT ![s] = r]

Read(s, kind, o) ==
  /\ Opens(s, Loaded(kind, o))
  /\ UNCHANGED <<poolVars, orderVars, undecided, stepped, accessVars, queue,
                 run, faults, cleared, left>>

Commits(s, kind) ==
  /\ session[s].kind = kind
  /\ session' = [session EXCEPT ![s] = IdleSession]

-----------------------------------------------------------------------------
(* Placing an order: portal_create_order, the orders API and the ServiceNow *)
(* webhook.                                                                 *)

(* Processed at once.  The API and the webhook also take modify and delete, *)
(* with no asset; the portal only provision.                                *)
CreateImmediate(o, u, act) ==
  /\ On("createImmediate")
  /\ act # "provision" => On("apiActions")
  /\ Fresh(o)
  /\ InsertOrder(o, "processing", act, NoAsset, u)
  /\ Publish({o})
  /\ cleared' = cleared \cup {o}
  /\ left' = left \ {u}
  /\ UNCHANGED <<poolVars, undecided, stepped, accessVars, run, session>>

(* An approval gate applies: order and approval rows, nothing dispatched.   *)
CreateForApproval(o, u) ==
  /\ On("createForApproval")
  /\ Fresh(o)
  /\ InsertOrder(o, "pending_approval", "provision", NoAsset, u)
  /\ undecided' = undecided \cup {o}
  /\ left' = left \ {u}
  /\ NoPublish
  /\ UNCHANGED <<poolVars, stepped, accessVars, run, session, cleared>>

(* A future start date: a personal asset is reserved with the order, in the *)
(* same transaction, or the request is refused.                             *)
CreateScheduled(o, u) ==
  /\ On("createScheduled")
  /\ Fresh(o)
  /\ \/ /\ Personal
        /\ \E a \in Assets :
             /\ ReserveAsset(a, o)
             /\ InsertOrder(o, "scheduled", "provision", a, u)
     \/ /\ ~Personal
        /\ InsertOrder(o, "scheduled", "provision", NoAsset, u)
        /\ UNCHANGED poolVars
  /\ cleared' = cleared \cup {o}
  /\ left' = left \ {u}
  /\ NoPublish
  /\ UNCHANGED <<undecided, stepped, accessVars, run, session>>

-----------------------------------------------------------------------------
(* The decision on an order.  Neither branch looks at orders.status.        *)

(* _post_approval_dispatch, start date reached: dispatch.                   *)
ApproveImmediate(o) ==
  /\ On("approve")
  /\ o \in undecided
  /\ undecided' = undecided \ {o}
  /\ status' = [status EXCEPT ![o] = "processing"]
  /\ Publish({o})
  /\ cleared' = cleared \cup {o}
  /\ UNCHANGED <<poolVars, action, assigned, requester, stepped, accessVars,
                 run, session, left>>

(* _post_approval_dispatch, future start date: a free personal asset is     *)
(* reserved when there is one; without one the order is scheduled anyway.   *)
(* (A change carries the start date of the order it changes, in the past.)  *)
ApproveScheduled(o) ==
  /\ On("approve")
  /\ o \in undecided
  /\ action[o] # "modify"
  /\ undecided' = undecided \ {o}
  /\ status' = [status EXCEPT ![o] = "scheduled"]
  /\ \/ /\ Personal
        /\ \E a \in Assets : /\ ReserveAsset(a, o)
                             /\ assigned' = [assigned EXCEPT ![o] = a]
     \/ /\ Personal => NoFreeAsset
        /\ UNCHANGED <<poolVars, assigned>>
  /\ cleared' = cleared \cup {o}
  /\ NoPublish
  /\ UNCHANGED <<action, requester, stepped, accessVars, run, session, left>>

(* One approver declines; the rows of the others may still be pending.      *)
Decline(o) ==
  /\ On("decline")
  /\ o \in undecided
  /\ undecided' \in {undecided, undecided \ {o}}
  /\ status' = [status EXCEPT ![o] = "rejected"]
  /\ NoPublish
  /\ UNCHANGED <<poolVars, action, assigned, requester, stepped, accessVars,
                 run, session, historyVars>>

-----------------------------------------------------------------------------
(* Requests about an existing order: read, then commit.                     *)

(* A fresh order that deprovisions what the loaded one holds.               *)
InsertDeleteOrder(new, r) ==
  InsertOrder(new, "processing", "delete", r.asset, r.user)

PortalCancelRead(s, o) ==
  /\ status[o] \in {"delivered", "provisioned", "scheduled"}
  /\ Read(s, "portalCancel", o)

PortalCancelScheduled(s) ==
  LET r == session[s] IN
  /\ Commits(s, "portalCancel")
  /\ r.seen = "scheduled"
  /\ IF r.asset = NoAsset THEN UNCHANGED poolVars ELSE ReleaseReserved(r.asset)
  /\ status' = [status EXCEPT ![r.order] = "cancelled"]
  /\ NoPublish
  /\ UNCHANGED <<action, assigned, requester, undecided, stepped, accessVars,
                 run, historyVars>>

PortalCancelActive(s, new) ==
  LET r == session[s] IN
  /\ Commits(s, "portalCancel")
  /\ r.seen # "scheduled"
  /\ Fresh(new)
  /\ status' = [status EXCEPT ![new] = "processing", ![r.order] = "cancelled"]
  /\ action' = [action EXCEPT ![new] = "delete"]
  /\ assigned' = [assigned EXCEPT ![new] = r.asset]
  /\ requester' = [requester EXCEPT ![new] = r.user]
  /\ Publish({new})
  /\ cleared' = cleared \cup {new}
  /\ UNCHANGED <<poolVars, undecided, stepped, accessVars, run, left>>

(* The administrator's cancellation leaves the original order as it is.     *)
AdminCancelRead(s, o) ==
  /\ status[o] \in {"delivered", "provisioned"}
  /\ Read(s, "adminCancel", o)

AdminCancelCommit(s, new) ==
  /\ Commits(s, "adminCancel")
  /\ Fresh(new)
  /\ InsertDeleteOrder(new, session[s])
  /\ Publish({new})
  /\ cleared' = cleared \cup {new}
  /\ UNCHANGED <<poolVars, undecided, stepped, accessVars, run, left>>

(* portal_change_order and admin_change_order; only the second one asks     *)
(* that the asset still is busy, only the first one takes a failed change.  *)
ChangeRead(s, o) ==
  /\ \/ status[o] \in {"delivered", "provisioned"}
     \/ status[o] = "failed" /\ action[o] = "modify"
  /\ Read(s, "change", o)

AdminChangeRead(s, o) ==
  /\ status[o] \in {"delivered", "provisioned"}
  /\ assigned[o] # NoAsset => poolStatus[assigned[o]] = "busy"
  /\ Read(s, "adminChange", o)

ChangeAtOnce(s, new) ==
  LET r == session[s] IN
  /\ Commits(s, "change") \/ Commits(s, "adminChange")
  /\ Fresh(new)
  /\ InsertOrder(new, "processing", "modify", r.asset, r.user)
  /\ Publish({new})
  /\ cleared' = cleared \cup {new}
  /\ left' = left \ {r.user}
  /\ UNCHANGED <<poolVars, undecided, stepped, accessVars, run>>

(* Users were added and the type asks for re-approval (portal only).        *)
ChangeForApproval(s, new) ==
  LET r == session[s] IN
  /\ Commits(s, "change")
  /\ Fresh(new)
  /\ InsertOrder(new, "pending_approval", "modify", r.asset, r.user)
  /\ undecided' = undecided \cup {new}
  /\ left' = left \ {r.user}
  /\ NoPublish
  /\ UNCHANGED <<poolVars, stepped, accessVars, run, cleared>>

(* DELETE /orders/{id}: any status.  An order in use is turned into its own *)
(* deprovisioning; a reserved asset of a scheduled one is left reserved.    *)
OrderDeleteRead(s, o) ==
  /\ status[o] # "none"
  /\ Read(s, "orderDelete", o)

OrderDeleteCommit(s) ==
  LET r == session[s] IN
  /\ Commits(s, "orderDelete")
  /\ status' = [status EXCEPT ![r.order] = "cancelled"]
  /\ \/ /\ r.seen \in {"delivered", "processing", "provisioned"}
        /\ action' = [action EXCEPT ![r.order] = "delete"]
        /\ Publish({r.order})
     \/ /\ r.seen \notin {"delivered", "processing", "provisioned"}
        /\ UNCHANGED action
        /\ NoPublish
  /\ UNCHANGED <<poolVars, assigned, requester, undecided, stepped,
                 accessVars, run, historyVars>>

(* admin_retry_order and retry_batch: the step history goes, and the order  *)
(* is run again from its first step.                                        *)
RetryRead(s, o) ==
  /\ status[o] = "failed"
  /\ Read(s, "retry", o)

RetryCommit(s) ==
  LET r == session[s] IN
  /\ Commits(s, "retry")
  /\ stepped' = stepped \ {r.order}
  /\ status' = [status EXCEPT ![r.order] = "processing"]
  /\ Publish({r.order})
  /\ left' = left \ {r.user}
  /\ UNCHANGED <<poolVars, action, assigned, requester, undecided, accessVars,
                 run, cleared>>

(* A certification review answered "revoke" (portal, external token, admin  *)
(* or its deadline): every path does the same.                              *)
CertRevokeRead(s, o) ==
  /\ status[o] \notin {"none", "revoked", "cancelled", "rejected"}
  /\ Read(s, "certRevoke", o)

(* process_leaver: all the active orders of the user in one transaction.    *)
LeaverRead(s, u) ==
  /\ Opens(s, [IdleSession EXCEPT
                 !.kind = "leaver", !.user = u,
                 !.many = {o \in Orders : requester[o] = u
                                          /\ status[o] \in ActiveStatuses}])
  /\ left' = left \cup {u}
  /\ UNCHANGED <<poolVars, orderVars, undecided, stepped, accessVars, queue,
                 run, faults, cleared>>

(* Mutant of TurnToDelete: the action of the orders stays what it was.      *)
TurnToRevokingOnly(S) ==
  /\ status' = [o \in Orders |-> IF o \in S THEN "revoking" ELSE status[o]]
  /\ Publish(S)
  /\ UNCHANGED <<poolVars, action, assigned, requester, undecided, stepped,
                 accessVars, run, historyVars>>

(* Orders turned into their own deprovisioning, and dispatched.             *)
TurnToDelete(S) ==
  /\ status' = [o \in Orders |-> IF o \in S THEN "revoking" ELSE status[o]]
  /\ action' = [o \in Orders |-> IF o \in S THEN "delete" ELSE action[o]]
  /\ Publish(S)
  /\ UNCHANGED <<poolVars, assigned, requester, undecided, stepped,
                 accessVars, run, historyVars>>

CertRevokeCommit(s) ==
  /\ Commits(s, "certRevoke")
  /\ TurnToDelete({session[s].order})

LeaverCommit(s) ==
  /\ Commits(s, "leaver")
  /\ TurnToDelete(session[s].many)

(* Mutant of RevokeGrants: the rows are marked, the directory is not asked. *)
MarkGrantsOnly(u, F) ==
  LET S == {p \in Orders : requester[p] = u /\ grants[p] = "success"} IN
  /\ F \subseteq S
  /\ F # {} => On("targetFault")
  /\ grants' = [p \in Orders |-> IF p \in F THEN "failed"
                                 ELSE IF p \in S THEN "rolled_back"
                                 ELSE grants[p]]
  /\ UNCHANGED member

(* Revoking the grants of a user: every successful row of the user's orders *)
(* is inverted in the directory and marked; the rows in F fail.             *)
RevokeGrants(u, F) ==
  LET S == {p \in Orders : requester[p] = u /\ grants[p] = "success"} IN
  /\ F \subseteq S
  /\ F # {} => On("targetFault")
  /\ grants' = [p \in Orders |-> IF p \in F THEN "failed"
                                 ELSE IF p \in S THEN "rolled_back"
                                 ELSE grants[p]]
  /\ member' = IF S \ F = {} THEN member ELSE member \ {u}

(* revoke_asset: the administrator frees an asset in use.  The holder's     *)
(* grants go first, when the request asks for it, and its result is only    *)
(* recorded; the orders of the asset are cancelled and unlinked after it.   *)
RevokeAssetRead(s, a) ==
  /\ poolStatus[a] # "Free"
  /\ Opens(s, [IdleSession EXCEPT !.kind = "revokeAsset", !.asset = a])
  /\ \/ UNCHANGED accessVars
     \/ /\ holder[a] # NoOrder
        /\ \E F \in SUBSET Orders : RevokeGrants(requester[holder[a]], F)
  /\ UNCHANGED <<poolVars, orderVars, undecided, stepped, queue, run, faults,
                 historyVars>>

RevokeAssetCommit(s) ==
  LET a == session[s].asset
      keep == {"revoked", "failed", "expired", "cancelled"}
  IN
  /\ Commits(s, "revokeAsset")
  /\ status' = [o \in Orders |-> IF assigned[o] = a /\ status[o] \notin keep
                                 THEN "cancelled" ELSE status[o]]
  /\ assigned' = [o \in Orders |-> IF assigned[o] = a THEN NoAsset
                                   ELSE assigned[o]]
  /\ ReleaseAsset(a)
  /\ NoPublish
  /\ UNCHANGED <<action, requester, undecided, stepped, accessVars, run,
                 historyVars>>

-----------------------------------------------------------------------------
(* Beat jobs.                                                               *)

(* check_scheduled_orders: the row is written by id alone.                  *)
ScheduledRead(s, o) ==
  /\ status[o] = "scheduled"
  /\ Read(s, "scheduled", o)

ScheduledCommit(s) ==
  LET o == session[s].order IN
  /\ Commits(s, "scheduled")
  /\ status' = [status EXCEPT ![o] = "processing"]
  /\ Publish({o})
  /\ UNCHANGED <<poolVars, action, assigned, requester, undecided, stepped,
                 accessVars, run, historyVars>>

(* check_expiring_assets: a busy asset past its date, joined to its holder. *)
(* Dates are not modelled: an asset may be past its date at any moment, but *)
(* while its holder still is being provisioned only with "earlyExpiry".     *)
ExpiryRead(s, a) ==
  /\ poolStatus[a] = "busy"
  /\ holder[a] # NoOrder
  /\ On("earlyExpiry") \/ \A w \in Workers : run[w].order # holder[a]
  /\ status[holder[a]] \notin {"expired", "cancelled", "failed"}
  /\ Opens(s, [Loaded("expiry", holder[a]) EXCEPT !.asset = a])
  /\ UNCHANGED <<poolVars, orderVars, undecided, stepped, accessVars, queue,
                 run, faults, historyVars>>

ExpiryCommit(s, new) ==
  LET r == session[s] IN
  /\ Commits(s, "expiry")
  /\ Fresh(new)
  /\ status' = [status EXCEPT ![new] = "processing", ![r.order] = "expired"]
  /\ action' = [action EXCEPT ![new] = "delete"]
  /\ assigned' = [assigned EXCEPT ![new] = r.asset]
  /\ requester' = [requester EXCEPT ![new] = r.user]
  /\ Publish({new})
  /\ cleared' = cleared \cup {new}
  /\ UNCHANGED <<poolVars, undecided, stepped, accessVars, run, left>>

(* recover_stuck_revoking only sends messages.                              *)
RecoverStuck(o) ==
  /\ On("recover")
  /\ status[o] = "revoking"
  /\ action[o] = "delete"
  /\ o \notin stepped
  /\ Publish({o})
  /\ UNCHANGED <<poolVars, orderVars, undecided, stepped, accessVars, run,
                 session, historyVars>>

-----------------------------------------------------------------------------
(* A task run: dynamic_runner.run, one committed step at a time.            *)

InGroupMode == Strategy \in {"group_only", "composite"}

FirstStep(act) ==
  IF act = "provision" /\ Personal THEN "reserve"
  ELSE IF ~InGroupMode THEN "runbook"
  ELSE CASE act = "provision" -> "grant"
         [] act = "modify"    -> "unlink"
         [] act = "delete"    -> "revoke"

AfterReserve == IF InGroupMode THEN "grant" ELSE "runbook"
AfterGroup == IF Strategy = "composite" THEN "runbook" ELSE "stamp"

At(w, pc) == run[w].pc = pc
Goto(w, pc) == run' = [run EXCEPT ![w].pc = pc]
EndRun(w) == run' = [run EXCEPT ![w] = IdleRun]

SetStatus(o, st) == status' = [status EXCEPT ![o] = st]

runFrame == <<action, requester, undecided, queue, session, historyVars>>

(* The order row is loaded whatever its status is.  The group path writes a *)
(* 'running' step at once, the runbook path with its first runbook step.    *)
Start(w, o) ==
  /\ At(w, "idle")
  /\ queue[o] > 0
  /\ queue' = [queue EXCEPT ![o] = @ - 1]
  /\ run' = [run EXCEPT ![w] = [order |-> o, action |-> action[o],
                                asset |-> assigned[o],
                                pc |-> FirstStep(action[o])]]
  /\ stepped' = IF InGroupMode THEN stepped \cup {o} ELSE stepped
  /\ UNCHANGED <<poolVars, orderVars, undecided, accessVars, session, faults,
                 historyVars>>

(* update_order_status(.., 'failed') and the end of the run.                *)
FailRun(w) ==
  /\ SetStatus(run[w].order, "failed")
  /\ EndRun(w)

(* reserve_asset, or the asset the order row already names.                 *)
ReserveStep(w) ==
  LET r == run[w] IN
  /\ At(w, "reserve")
  /\ \/ /\ r.asset # NoAsset
        /\ Goto(w, AfterReserve)
        /\ UNCHANGED <<poolVars, status, assigned>>
     \/ /\ r.asset = NoAsset
        /\ \E a \in Assets :
             /\ ReserveAsset(a, r.order)
             /\ assigned' = [assigned EXCEPT ![r.order] = a]
             /\ run' = [run EXCEPT ![w] = [@ EXCEPT !.asset = a,
                                                 !.pc = AfterReserve]]
        /\ UNCHANGED status
     \/ /\ r.asset = NoAsset
        /\ NoFreeAsset
        /\ FailRun(w)
        /\ UNCHANGED <<poolVars, assigned>>
  /\ UNCHANGED <<runFrame, stepped, accessVars, faults>>

(* target_executor.grant: the row that says success is looked for, then the *)
(* group membership is written ...                                          *)
AfterGrant(r) ==
  IF r.action = "provision" /\ r.asset # NoAsset THEN "busy" ELSE AfterGroup

GrantStep(w) ==
  LET r == run[w] IN
  /\ At(w, "grant")
  /\ \/ /\ grants[r.order] = "success"
        /\ Goto(w, AfterGrant(r))
        /\ UNCHANGED <<status, accessVars>>
     \/ /\ grants[r.order] # "success"
        /\ member' = member \cup {requester[r.order]}
        /\ Goto(w, "log")
        /\ UNCHANGED <<status, grants>>
     \/ /\ grants[r.order] # "success"
        /\ On("targetFault")
        /\ grants' = [grants EXCEPT ![r.order] = "failed"]
        /\ FailRun(w)
        /\ UNCHANGED member
  /\ UNCHANGED <<runFrame, poolVars, assigned, stepped, faults>>

(* Mutant of LogStep: the row of the change log is not written.             *)
SkipLogStep(w) ==
  LET r == run[w] IN
  /\ At(w, "log")
  /\ Goto(w, AfterGrant(r))
  /\ UNCHANGED <<runFrame, poolVars, status, assigned, stepped, accessVars,
                 faults>>

(* ... and _write_change_log commits the row after it.                      *)
LogStep(w) ==
  LET r == run[w] IN
  /\ At(w, "log")
  /\ grants' = [grants EXCEPT ![r.order] = "success"]
  /\ Goto(w, AfterGrant(r))
  /\ UNCHANGED <<runFrame, poolVars, status, assigned, stepped, member, faults>>

BusyStep(w) ==
  LET r == run[w] IN
  /\ At(w, "busy")
  /\ SetAssetBusy(r.asset, r.order)
  /\ Goto(w, AfterGroup)
  /\ UNCHANGED <<runFrame, status, assigned, stepped, accessVars, faults>>

(* The runbook of the type and the action: its scripts are outside, but its *)
(* steps may use pool.set_asset_busy and pool.release_asset of the registry.*)
RunbookStep(w) ==
  LET r == run[w] IN
  /\ At(w, "runbook")
  /\ stepped' = stepped \cup {r.order}
  /\ \/ /\ Goto(w, IF r.action = "provision" THEN "guard" ELSE "stamp")
        /\ \/ UNCHANGED poolVars
           \/ /\ On("poolModules")
              /\ r.asset # NoAsset
              /\ \/ r.action = "provision" /\ SetAssetBusy(r.asset, r.order)
                 \/ r.action = "delete" /\ ReleaseAsset(r.asset)
        /\ UNCHANGED status
     \/ /\ On("runbookFault")
        /\ FailRun(w)
        /\ UNCHANGED poolVars
  /\ UNCHANGED <<runFrame, assigned, accessVars, faults>>

(* The guard against the leaver: a provision whose order became a delete    *)
(* ends without a final status.                                             *)
GuardStep(w) ==
  LET r == run[w] IN
  /\ At(w, "guard")
  /\ IF action[r.order] = "delete" THEN EndRun(w) ELSE Goto(w, "stamp")
  /\ UNCHANGED <<runFrame, poolVars, status, assigned, stepped, accessVars,
                 faults>>

(* "Revoke old memberships" of a change, whose failure is passed over.      *)
UnlinkStep(w) ==
  LET r == run[w] IN
  /\ At(w, "unlink")
  /\ \E F \in SUBSET Orders : RevokeGrants(requester[r.order], F)
  /\ Goto(w, "grant")
  /\ UNCHANGED <<runFrame, poolVars, status, assigned, stepped, faults>>

(* "Revoke access" of a delete, then the routing by the policy.             *)
AfterRevoke(r) ==
  IF /\ Personal
     /\ r.asset # NoAsset
     /\ Policy \in {"return_to_pool", "return_to_pool_reinstall"}
  THEN "release" ELSE AfterGroup

RevokeStep(w) ==
  LET r == run[w] IN
  /\ At(w, "revoke")
  /\ \/ /\ RevokeGrants(requester[r.order], {})
        /\ Goto(w, AfterRevoke(r))
        /\ UNCHANGED status
     \/ /\ \E F \in (SUBSET Orders) \ {{}} : RevokeGrants(requester[r.order], F)
        /\ FailRun(w)
  /\ UNCHANGED <<runFrame, poolVars, assigned, stepped, faults>>

ReleaseStep(w) ==
  /\ At(w, "release")
  /\ ReleaseAsset(run[w].asset)
  /\ Goto(w, IF Policy = "return_to_pool" THEN AfterGroup ELSE "reinstall")
  /\ UNCHANGED <<runFrame, status, assigned, stepped, accessVars, faults>>

ReinstallStep(w) ==
  /\ At(w, "reinstall")
  /\ MarkReinstall(run[w].asset)
  /\ Goto(w, AfterGroup)
  /\ UNCHANGED <<runFrame, status, assigned, stepped, accessVars, faults>>

(* Mutant of FinalStatus: a change is named after its action.               *)
FinalStatusOfAction(act) ==
  CASE act = "provision" -> "provisioned"
    [] act = "delete"    -> "revoked"
    [] act = "modify"    -> "modified"

(* The final status, and for a delete with an asset the post-DELETE steps.  *)
FinalStatus(act) ==
  CASE act = "provision" -> "provisioned"
    [] act = "delete"    -> "revoked"
    [] act = "modify"    -> "delivered"

AfterStamp(r) ==
  IF r.action # "delete" \/ r.asset = NoAsset THEN "idle"
  ELSE IF Policy = "return_to_pool_reinstall" THEN "sweep"
  ELSE "postRelease"

StampStep(w) ==
  LET r == run[w] IN
  /\ At(w, "stamp")
  /\ SetStatus(r.order, FinalStatus(r.action))
  /\ IF AfterStamp(r) = "idle" THEN EndRun(w) ELSE Goto(w, AfterStamp(r))
  /\ UNCHANGED <<runFrame, poolVars, assigned, stepped, accessVars, faults>>

PostReleaseStep(w) ==
  /\ At(w, "postRelease")
  /\ ReleaseAsset(run[w].asset)
  /\ Goto(w, "sweep")
  /\ UNCHANGED <<runFrame, status, assigned, stepped, accessVars, faults>>

(* Every order that names the asset and is in use becomes revoked.          *)
SweepStep(w) ==
  /\ At(w, "sweep")
  /\ status' = [o \in Orders |->
                  IF /\ assigned[o] = run[w].asset
                     /\ status[o] \in {"delivered", "provisioned"}
                  THEN "revoked" ELSE status[o]]
  /\ EndRun(w)
  /\ UNCHANGED <<runFrame, poolVars, assigned, stepped, accessVars, faults>>

-----------------------------------------------------------------------------
(* Faults of a run, MaxFaults in all.  With task_acks_late a message is     *)
(* acknowledged when its run is over.                                       *)

busyFrame == <<poolVars, action, assigned, requester, undecided, stepped,
               accessVars, session, historyVars>>

(* Mutant of Crash: the message was acknowledged when the run began.        *)
CrashAfterAck(w) ==
  /\ On("crash")
  /\ ~At(w, "idle")
  /\ EndRun(w)
  /\ Fault
  /\ UNCHANGED <<busyFrame, status, queue>>

(* The worker goes down and the broker delivers the message again.          *)
Crash(w) ==
  /\ On("crash")
  /\ ~At(w, "idle")
  /\ queue[run[w].order] < MaxCopies
  /\ queue' = [queue EXCEPT ![run[w].order] = @ + 1]
  /\ EndRun(w)
  /\ Fault
  /\ UNCHANGED <<busyFrame, status>>

(* The task process dies and the message is acknowledged all the same.      *)
SilentDeath(w) ==
  /\ On("silentDeath")
  /\ ~At(w, "idle")
  /\ EndRun(w)
  /\ Fault
  /\ UNCHANGED <<busyFrame, status, queue>>

(* The visibility timeout of the broker passes during a long run.           *)
Redeliver(w) ==
  /\ On("duplicate")
  /\ ~At(w, "idle")
  /\ queue[run[w].order] < MaxCopies
  /\ queue' = [queue EXCEPT ![run[w].order] = @ + 1]
  /\ Fault
  /\ UNCHANGED <<busyFrame, status, run>>

(* The outer exception handler of run.                                      *)
RunRaises(w) ==
  /\ On("runRaises")
  /\ ~At(w, "idle")
  /\ FailRun(w)
  /\ Fault
  /\ UNCHANGED <<busyFrame, queue>>

-----------------------------------------------------------------------------
Place(o) ==
  \/ \E u \in Users, act \in Actions : CreateImmediate(o, u, act)
  \/ \E u \in Users : CreateForApproval(o, u) \/ CreateScheduled(o, u)

Decide(o) == ApproveImmediate(o) \/ ApproveScheduled(o) \/ Decline(o)

ReadRequest(s) ==
  \/ \E o \in Orders :
       \/ PortalCancelRead(s, o) \/ AdminCancelRead(s, o)
       \/ ChangeRead(s, o) \/ AdminChangeRead(s, o) \/ OrderDeleteRead(s, o)
       \/ RetryRead(s, o) \/ CertRevokeRead(s, o) \/ ScheduledRead(s, o)
  \/ \E u \in Users : LeaverRead(s, u)
  \/ \E a \in Assets : RevokeAssetRead(s, a) \/ ExpiryRead(s, a)

CommitRequest(s) ==
  \/ PortalCancelScheduled(s) \/ OrderDeleteCommit(s) \/ RetryCommit(s)
  \/ CertRevokeCommit(s) \/ LeaverCommit(s) \/ RevokeAssetCommit(s)
  \/ ScheduledCommit(s)
  \/ \E new \in Orders :
       \/ PortalCancelActive(s, new) \/ AdminCancelCommit(s, new)
       \/ ChangeAtOnce(s, new) \/ ChangeForApproval(s, new)
       \/ ExpiryCommit(s, new)

RunStep(w) ==
  \/ ReserveStep(w) \/ GrantStep(w) \/ LogStep(w) \/ BusyStep(w)
  \/ RunbookStep(w) \/ GuardStep(w) \/ UnlinkStep(w) \/ RevokeStep(w)
  \/ ReleaseStep(w) \/ ReinstallStep(w) \/ StampStep(w)
  \/ PostReleaseStep(w) \/ SweepStep(w)

RunFault(w) == Crash(w) \/ SilentDeath(w) \/ Redeliver(w) \/ RunRaises(w)

Next ==
  \/ \E o \in Orders : Place(o) \/ Decide(o) \/ RecoverStuck(o)
  \/ \E s \in Sessions : ReadRequest(s) \/ CommitRequest(s)
  \/ \E w \in Workers : RunStep(w) \/ RunFault(w)
  \/ \E w \in Workers, o \in Orders : Start(w, o)

Spec == Init /\ [][Next]_vars

(* A worker goes on with the run it has taken, and the queue is first in,   *)
(* first out: a message in it is delivered again and again unless it is     *)
(* taken, so a worker takes it in the end (strong fairness, per order).  A  *)
(* handler that has read goes on to its commit, and Beat fires.  Nothing is *)
(* assumed of users, administrators and approvers.                          *)
Fairness ==
  /\ \A w \in Workers : WF_vars(RunStep(w))
  /\ \A o \in Orders : SF_vars(\E w \in Workers : Start(w, o))
  /\ \A s \in Sessions : WF_vars(CommitRequest(s))
  /\ \A o \in Orders : WF_vars(RecoverStuck(o))

FairSpec == Spec /\ Fairness

-----------------------------------------------------------------------------
(* Properties.                                                              *)

(* Some request, message or run still has to do with the order.             *)
InFlight(o) ==
  \/ queue[o] > 0
  \/ \E w \in Workers : run[w].order = o
  \/ \E s \in Sessions : session[s].order = o \/ o \in session[s].many

Quiet(u) ==
  /\ \A o \in Orders : requester[o] = u => ~InFlight(o)
  /\ \A s \in Sessions : session[s].user # u

(* Nobody gets into a group on an order that still needs an approval: an    *)
(* order that has ever been granted, or is being granted, was placed        *)
(* without an approval gate or has been approved.  The runner never looks   *)
(* at orders.status, so this rests on who dispatches what with which        *)
(* action (a leaver turns a pending order into a delete before it sends it).*)
ApprovalGate ==
  \A o \in Orders :
    (grants[o] # "none" \/ \E w \in Workers : run[w].order = o /\ At(w, "log"))
      => o \in cleared

(* The asset of a provision order that is scheduled, under way, in use or   *)
(* can be retried is held for that order and no other, unless a delete of   *)
(* that asset is under way: release_asset and set_asset_busy write the row  *)
(* by id without looking at its holder.                                     *)
ExclusiveAssignment ==
  \A o \in Orders :
    /\ action[o] = "provision"
    /\ status[o] \in {"scheduled", "processing", "provisioned", "failed"}
    /\ assigned[o] # NoAsset
    /\ \A w \in Workers :
         ~(run[w].action = "delete" /\ run[w].asset = assigned[o])
    => /\ holder[assigned[o]] = o
       /\ poolStatus[assigned[o]] \in {"reserved", "busy"}

(* lifecycle.md: the leaver process "automatically revokes all their active *)
(* access".  When everything started for a departed user has come to an     *)
(* end, the user is in no group.                                            *)
LeaverLeavesNothing == \A u \in left : Quiet(u) => u \notin member

(* "Only failed orders can be retried", and a retry is a "full re-run": a   *)
(* user whose orders are over, one of them revoked, is in no group.  The    *)
(* revocation goes by the grant rows of the user, not by the directory.     *)
RevokedUserIsOut ==
  \A o \in Orders :
    /\ status[o] = "revoked"
    /\ Quiet(requester[o])
    /\ \A p \in Orders : requester[p] = requester[o]
                         => status[p] \notin ActiveStatuses \cup {"failed"}
    => requester[o] \notin member

(* A membership can be accounted for: some order of the user has a          *)
(* successful grant row, or the run about to write it is at that point.  A  *)
(* revocation finds memberships through these rows only.                    *)
AccessIsLogged ==
  \A u \in member :
    \E o \in Orders :
      /\ requester[o] = u
      /\ grants[o] = "success" \/ \E w \in Workers : run[w].order = o /\ At(w, "log")

(* An order given to the workers leaves 'processing' or 'revoking' again.   *)
DispatchedSettles ==
  \A o \in Orders :
    status[o] \in {"processing", "revoking"}
      ~> status[o] \notin {"processing", "revoking"}

(* A departed user ends up outside the directory groups, or orders again.   *)
LeaverLosesAccess ==
  \A u \in Users : u \in left ~> (u \notin left \/ u \notin member)
=============================================================================
