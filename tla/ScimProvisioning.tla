-------------------------- MODULE ScimProvisioning --------------------------
(***************************************************************************)
(* Onboarding: bundles and assignment rules, and the requests that order   *)
(* or revoke by them for one user: SCIM create, replace and patch (joiner, *)
(* mover, leaver), the first portal login, the catalogue, an administrator *)
(* and the HR webhook.                                                     *)
(*                                                                         *)
(* A request is a sequence of transactions.  The flush of the identity row *)
(* locks it until the next commit, which is the one order_bundle makes     *)
(* after each bundle; nothing else is locked.  Orders are kept as far as   *)
(* these requests touch them: OrderLifecycle and ApprovalDecision have the *)
(* rest of their life.                                                     *)
(***************************************************************************)
EXTENDS Integers, Sequences, FiniteSets

CONSTANTS
  Bundles,
  AssignmentRules,
  BundleItems,       \* bundle |-> the asset types of its positions
  RuleGrants,        \* rule |-> [bundle, when: attribute values it matches]
  ScimTypes,
  ScimApproved,      \* asset types some approval is needed for
  ScimAttributes,    \* attribute values of the user
  ScimSessions,      \* concurrent requests
  JoinerEnabled,     \* scim.joiner_enabled
  FirstLogin,        \* onboarding.eval_on_first_login
  ScimMaxOrders,     \* bound: orders
  ScimMaxRequests,   \* bound: requests
  ScimMaxEdits,      \* bound: edits of bundles and rules
  ScimMaxCrashes     \* bound: crashes of a request

ASSUME ScimAssumption ==
  /\ IsFiniteSet(ScimTypes)
  /\ BundleItems \in [Bundles -> SUBSET ScimTypes]
  /\ RuleGrants \in [AssignmentRules ->
                       [bundle: Bundles, when: SUBSET ScimAttributes]]
  /\ ScimApproved \subseteq ScimTypes
  /\ JoinerEnabled \in BOOLEAN
  /\ FirstLogin \in BOOLEAN
  /\ {ScimMaxOrders, ScimMaxRequests, ScimMaxEdits, ScimMaxCrashes} \subseteq Nat

VARIABLES
  bundle,        \* bundles, with their positions
  assignment,    \* assignment_rules
  identity,      \* the scim_identities row of the user: {} or one record
  scimOrder,     \* the user's orders, oldest first
  scimTask,      \* orders with a dynamic_runner.run message in the broker
  scim,          \* the request each API session is executing
  moverMode,     \* scim.mover_mode
  scimRequests, scimEdits, scimCrashes

scimVars == <<bundle, assignment, identity, scimOrder, scimTask, scim,
              moverMode, scimRequests, scimEdits, scimCrashes>>

MoverModes == {"disabled", "additions_only", "reconcile"}

Origins == {"scim", "rule_based", "bundle_catalog"}

(* The user's orders in these statuses are held, and idempotency skips them.*)
HeldStatuses == {"pending_approval", "processing", "delivered"}

ScimOrders ==
  [type: ScimTypes, origin: Origins, status: HeldStatuses \cup {"revoking", "revoked"},
   action: {"provision", "delete"}, chosen: BOOLEAN]

Identities == [active: BOOLEAN, attrs: ScimAttributes]

IdleScim ==
  [pc |-> "idle", locks |-> FALSE, seen |-> {}, put |-> {}, todo |-> {},
   origin |-> "scim", chosen |-> FALSE, items |-> {}, send |-> {}, drop |-> {}]

ScimTypeOK ==
  /\ bundle \in [Bundles -> [active: BOOLEAN, items: SUBSET ScimTypes]]
  /\ assignment \in [AssignmentRules -> [active: BOOLEAN, bundle: Bundles,
                                         when: SUBSET ScimAttributes]]
  /\ identity \subseteq Identities /\ Cardinality(identity) <= 1
  /\ scimOrder \in Seq(ScimOrders)
  /\ scimTask \subseteq DOMAIN scimOrder
  /\ moverMode \in MoverModes
  /\ \A s \in ScimSessions :
       /\ scim[s].put \subseteq Identities /\ scim[s].seen \subseteq Identities
       /\ scim[s].todo \subseteq Bundles /\ scim[s].items \subseteq ScimTypes
       /\ scim[s].send \cup scim[s].drop \subseteq DOMAIN scimOrder

ScimInit ==
  /\ bundle = [b \in Bundles |-> [active |-> TRUE, items |-> BundleItems[b]]]
  /\ assignment = [r \in AssignmentRules |->
       [active |-> TRUE, bundle |-> RuleGrants[r].bundle, when |-> RuleGrants[r].when]]
  /\ identity = {}
  /\ scimOrder = << >>
  /\ scimTask = {}
  /\ scim = [s \in ScimSessions |-> IdleScim]
  /\ moverMode \in MoverModes
  /\ scimRequests = 0 /\ scimEdits = 0 /\ scimCrashes = 0

-----------------------------------------------------------------------------
(* evaluate_assignment_rules: bundles, active, that an active rule grants.  *)
Matched(attrs) ==
  {b \in Bundles :
     /\ bundle[b].active
     /\ \E r \in AssignmentRules : /\ assignment[r].active /\ assignment[r].bundle = b
                                   /\ attrs \in assignment[r].when}

OrdersIn(statuses) == {o \in DOMAIN scimOrder : scimOrder[o].status \in statuses}

(* The asset types of a bundle the user does not hold yet.                  *)
ResolveItems(b) ==
  bundle[b].items \ {scimOrder[o].type : o \in OrdersIn(HeldStatuses)}

(* Mutant of LockFree: the identity row is not locked.                      *)
LockIgnored == TRUE

LockFree == \A s \in ScimSessions : ~scim[s].locks

(* A flush writes the columns that differ from the row the request read.    *)
Written(s) ==
  IF scim[s].seen = {} \/ identity = {} THEN scim[s].put
  ELSE {[active |-> IF p.active = r.active THEN i.active ELSE p.active,
         attrs |-> IF p.attrs = r.attrs THEN i.attrs ELSE p.attrs] :
          p \in scim[s].put, r \in scim[s].seen, i \in identity}

(* A commit makes the flushed identity row visible and unlocks it.          *)
CommitIdentity(s) ==
  identity' = IF scim[s].locks THEN Written(s) ELSE identity

(* Where a request goes, with its fields g.                                 *)
Goes(s, g) == scim' = [scim EXCEPT ![s] = g]

Requested == scimRequests < ScimMaxRequests /\ scimRequests' = scimRequests + 1

Unadministered == UNCHANGED <<bundle, assignment, moverMode, scimEdits, scimCrashes>>

-----------------------------------------------------------------------------
(* Requests.  kind: post, put; a patch is acted on for a known user only.   *)

ScimRead(s, kind, active, attrs) ==
  /\ scim[s].pc = "idle" /\ Requested
  /\ Goes(s, [IdleScim EXCEPT !.pc = kind, !.seen = identity,
                              !.put = {[active |-> active, attrs |-> attrs]}])
  /\ Unadministered /\ UNCHANGED <<identity, scimOrder, scimTask>>

PatchRead(s, attrs) ==
  /\ scim[s].pc = "idle" /\ Requested
  /\ \E i \in identity :
       /\ i.attrs # attrs
       /\ Goes(s, [IdleScim EXCEPT !.pc = "patch", !.seen = identity,
                                   !.put = {[i EXCEPT !.attrs = attrs]}])
  /\ Unadministered /\ UNCHANGED <<identity, scimOrder, scimTask>>

(* DELETE, PATCH active=false and the HR webhook leave the identity alone.  *)
LeaverRequest(s) ==
  /\ scim[s].pc = "idle" /\ Requested
  /\ Goes(s, [IdleScim EXCEPT !.pc = "leaver"])
  /\ Unadministered /\ UNCHANGED <<identity, scimOrder, scimTask>>

(* Bundles chosen by the user, or by an administrator for the user.         *)
ChooseBundle(s, b, origin) ==
  /\ scim[s].pc = "idle" /\ Requested
  /\ bundle[b].active
  /\ Goes(s, [IdleScim EXCEPT !.pc = "bundles", !.todo = {b}, !.origin = origin,
                              !.chosen = TRUE])
  /\ Unadministered /\ UNCHANGED <<identity, scimOrder, scimTask>>

(* A portal login of a user without any order; attributes come from AD.     *)
LoginOnboarding(s, attrs) ==
  /\ FirstLogin
  /\ scim[s].pc = "idle" /\ Requested
  /\ scimOrder = << >>
  /\ Goes(s, [IdleScim EXCEPT !.pc = "bundles", !.todo = Matched(attrs),
                              !.origin = "rule_based"])
  /\ Unadministered /\ UNCHANGED <<identity, scimOrder, scimTask>>

(* upsert_identity's flush, and what the handler decides from it.           *)
ScimUpsert(s) ==
  LET r == scim[s]
      new == r.seen = {}
      joins == JoinerEnabled /\ \E p \in r.put :
                 p.active /\ (new \/ \E i \in r.seen : ~i.active)
      moves == /\ r.pc = "put" /\ ~new /\ moverMode # "disabled"
               /\ \E p \in r.put, i \in r.seen : i.active /\ p.attrs # i.attrs
      next == IF \E p \in r.put : r.pc = "put" /\ ~p.active THEN "leave"
              ELSE IF joins THEN "bundles" ELSE IF moves THEN "move" ELSE "close"
      flushed == [r EXCEPT !.pc = next, !.locks = TRUE,
                    !.todo = IF joins THEN UNION {Matched(p.attrs) : p \in r.put} ELSE {}]
  IN
  /\ r.pc \in {"post", "put"}
  /\ LockFree
  /\ Goes(s, IF new /\ identity # {} THEN IdleScim ELSE flushed)
  /\ Unadministered /\ UNCHANGED <<identity, scimOrder, scimTask, scimRequests>>

(* The commit of a request, before it goes on to the mover or the leaver.   *)
ScimCommit(s) ==
  LET r == scim[s] IN
  /\ \/ r.pc \in {"leave", "move", "close"}
     \/ r.pc = "patch" /\ LockFree
  /\ identity' = Written(s)
  /\ Goes(s, CASE r.pc = "close" -> IdleScim
               [] r.pc = "leave" -> [IdleScim EXCEPT !.pc = "leaver"]
               [] r.pc = "patch" /\ moverMode = "disabled" -> IdleScim
               [] OTHER -> [IdleScim EXCEPT !.pc = "mover", !.put = r.put])
  /\ Unadministered /\ UNCHANGED <<scimOrder, scimTask, scimRequests>>

(* run_mover: what the new attributes entitle to, and what is held by rule. *)
RevocableOrigins == {"scim", "rule_based"}

MoverHoldings ==
  {o \in OrdersIn(HeldStatuses) : scimOrder[o].origin \in RevocableOrigins}

MoverReads(s) ==
  LET bundles == UNION {Matched(p.attrs) : p \in scim[s].put}
      target == UNION {bundle[b].items : b \in bundles}
      current == {scimOrder[o].type : o \in MoverHoldings}
  IN
  /\ scim[s].pc = "mover"
  /\ Goes(s, [IdleScim EXCEPT
       !.pc = "bundles",
       !.todo = IF target \subseteq current THEN {} ELSE bundles,
       !.drop = IF moverMode = "reconcile"
                THEN {o \in MoverHoldings : scimOrder[o].type \notin target}
                ELSE {}])
  /\ Unadministered
  /\ UNCHANGED <<identity, scimOrder, scimTask, scimRequests>>

(* resolve_bundle_items, for the next bundle; one gone inactive is skipped. *)
BundleResolve(s, b) ==
  /\ scim[s].pc = "bundles" /\ b \in scim[s].todo
  /\ LET items == IF bundle[b].active THEN ResolveItems(b) ELSE {} IN
     Goes(s, [scim[s] EXCEPT !.todo = @ \ {b}, !.items = items,
                             !.pc = IF items = {} THEN "bundles" ELSE "order"])
  /\ Unadministered /\ UNCHANGED <<identity, scimOrder, scimTask, scimRequests>>

(* The orders of one bundle, committed together.                            *)
BundleCommit(s) ==
  LET r == scim[s]
      n == Len(scimOrder)
      new == {q \in [1..Cardinality(r.items) -> r.items] :
                \A i, j \in DOMAIN q : i # j => q[i] # q[j]}
      types == CHOOSE q \in new : TRUE
      Placed(t) ==
        [type |-> t, origin |-> r.origin, action |-> "provision", chosen |-> r.chosen,
         status |-> IF t \in ScimApproved THEN "pending_approval" ELSE "processing"]
      orders == [i \in 1..Cardinality(r.items) |-> Placed(types[i])]
  IN
  /\ r.pc = "order"
  /\ n + Cardinality(r.items) <= ScimMaxOrders
  /\ scimOrder' = scimOrder \o orders
  /\ CommitIdentity(s)
  /\ Goes(s, [r EXCEPT !.pc = "dispatch", !.items = {}, !.locks = FALSE,
                       !.put = {}, !.seen = {},
                       !.send = {n + i : i \in {j \in DOMAIN orders :
                                    orders[j].status = "processing"}}])
  /\ Unadministered /\ UNCHANGED <<scimTask, scimRequests>>

BundleDispatch(s) ==
  /\ scim[s].pc = "dispatch"
  /\ scimTask' = scimTask \cup scim[s].send
  /\ Goes(s, [scim[s] EXCEPT !.pc = "bundles", !.send = {}])
  /\ Unadministered /\ UNCHANGED <<identity, scimOrder, scimRequests>>

(* After the last bundle: the mover's removals, or the end of the request.  *)
BundlesDone(s) ==
  LET r == scim[s] IN
  /\ r.pc = "bundles" /\ r.todo = {}
  /\ CommitIdentity(s)
  /\ Goes(s, IF r.drop = {} THEN IdleScim ELSE
       [IdleScim EXCEPT !.pc = "revoke", !.drop = r.drop \cap OrdersIn(HeldStatuses)])
  /\ Unadministered /\ UNCHANGED <<scimOrder, scimTask, scimRequests>>

-----------------------------------------------------------------------------
(* Revocations.  Both the mover and the leaver read, commit, then dispatch. *)

LeaverReads(s) ==
  /\ scim[s].pc = "leaver"
  /\ Goes(s, [IdleScim EXCEPT !.pc = "revoke", !.origin = "rule_based",
                              !.drop = OrdersIn(HeldStatuses)])
  /\ Unadministered /\ UNCHANGED <<identity, scimOrder, scimTask, scimRequests>>

RevokeCommit(s) ==
  /\ scim[s].pc = "revoke"
  /\ scimOrder' = [o \in DOMAIN scimOrder |->
       IF o \in scim[s].drop
       THEN [scimOrder[o] EXCEPT !.status = "revoking", !.action = "delete"]
       ELSE scimOrder[o]]
  /\ Goes(s, [scim[s] EXCEPT !.pc = "revoked"])
  /\ Unadministered /\ UNCHANGED <<identity, scimTask, scimRequests>>

RevokeDispatch(s) ==
  /\ scim[s].pc = "revoked"
  /\ scimTask' = scimTask \cup scim[s].drop
  /\ Goes(s, IdleScim)
  /\ Unadministered /\ UNCHANGED <<identity, scimOrder, scimRequests>>

(* The process dies: what it flushed is rolled back, what it committed is   *)
(* not; the identity provider may send the request again.                   *)
ScimCrash(s) ==
  /\ scim[s].pc # "idle"
  /\ scimCrashes < ScimMaxCrashes /\ scimCrashes' = scimCrashes + 1
  /\ Goes(s, IdleScim)
  /\ UNCHANGED <<bundle, assignment, identity, scimOrder, scimTask, moverMode,
                 scimRequests, scimEdits>>

-----------------------------------------------------------------------------
(* The orders' other steps.                                                 *)

ScimApprove(o) ==
  /\ scimOrder[o].status = "pending_approval"
  /\ scimOrder' = [scimOrder EXCEPT ![o].status = "processing"]
  /\ scimTask' = scimTask \cup {o}
  /\ Unadministered /\ UNCHANGED <<identity, scim, scimRequests>>

ScimRun(o) ==
  /\ o \in scimTask
  /\ scimTask' = scimTask \ {o}
  /\ scimOrder' = [scimOrder EXCEPT ![o].status =
       IF @ \in {"revoked", "pending_approval"} THEN @
       ELSE IF scimOrder[o].action = "delete" THEN "revoked" ELSE "delivered"]
  /\ Unadministered /\ UNCHANGED <<identity, scim, scimRequests>>

(* Administration: an update replaces all positions; a deletion takes the   *)
(* rules of the bundle with it.                                             *)
Edited ==
  /\ scimEdits < ScimMaxEdits /\ scimEdits' = scimEdits + 1
  /\ UNCHANGED <<identity, scimOrder, scimTask, scim, moverMode, scimRequests,
                 scimCrashes>>

UpdateBundle(b, active, items) ==
  /\ Edited
  /\ bundle' = [bundle EXCEPT ![b] = [active |-> active, items |-> items]]
  /\ UNCHANGED assignment

DeleteBundle(b) ==
  /\ Edited
  /\ bundle' = [bundle EXCEPT ![b] = [active |-> FALSE, items |-> {}]]
  /\ assignment' = [r \in AssignmentRules |->
       [assignment[r] EXCEPT !.active = @ /\ assignment[r].bundle # b]]

UpdateRule(r, active, b) ==
  /\ Edited
  /\ assignment' = [assignment EXCEPT ![r].active = active, ![r].bundle = b]
  /\ UNCHANGED bundle

-----------------------------------------------------------------------------
ScimSession(s) ==
  \/ ScimUpsert(s) \/ ScimCommit(s) \/ MoverReads(s) \/ BundleCommit(s)
  \/ \E b \in Bundles : BundleResolve(s, b)
  \/ BundleDispatch(s) \/ BundlesDone(s)
  \/ LeaverReads(s) \/ RevokeCommit(s) \/ RevokeDispatch(s)

ScimNext ==
  \/ \E s \in ScimSessions :
       \/ \E kind \in {"post", "put"}, active \in BOOLEAN, a \in ScimAttributes :
            ScimRead(s, kind, active, a)
       \/ \E a \in ScimAttributes : PatchRead(s, a) \/ LoginOnboarding(s, a)
       \/ LeaverRequest(s)
       \/ \E b \in Bundles, origin \in {"rule_based", "bundle_catalog"} :
            ChooseBundle(s, b, origin)
       \/ ScimSession(s)
       \/ ScimCrash(s)
  \/ \E o \in DOMAIN scimOrder : ScimApprove(o) \/ ScimRun(o)
  \/ \E b \in Bundles :
       \/ \E active \in BOOLEAN, items \in SUBSET ScimTypes : UpdateBundle(b, active, items)
       \/ DeleteBundle(b)
       \/ \E r \in AssignmentRules, active \in BOOLEAN : UpdateRule(r, active, b)

ScimSpec == ScimInit /\ [][ScimNext]_scimVars

(* A request runs to its end, and the workers take what is in the broker.   *)
ScimFairness ==
  /\ \A s \in ScimSessions : WF_scimVars(ScimSession(s))
  /\ \A o \in 1..ScimMaxOrders : WF_scimVars(o \in scimTask /\ ScimRun(o))

-----------------------------------------------------------------------------
(* With the mover off and one bundle to join, concurrent creates and        *)
(* reactivations never order a type twice: the second waits for the first   *)
(* one's row lock and then sees its orders (scim_provisioning.upsert_       *)
(* identity, flushed before onboarding.resolve_bundle_items reads).         *)
JoinedOnce ==
  [][moverMode = "disabled" =>
       \A o \in DOMAIN scimOrder' \ DOMAIN scimOrder, p \in OrdersIn(HeldStatuses) :
         scimOrder'[o].origin = "scim" /\ scimOrder[p].origin = "scim"
           => scimOrder'[o].type # scimOrder[p].type
    ]_scimVars

(* The mover revokes no order the user placed in the catalogue; only a      *)
(* leaver does (scim_provisioning._REVOCABLE_ORIGINS).                      *)
SelfServiceIsKept ==
  [][\A o \in DOMAIN scimOrder :
       scimOrder[o].origin = "bundle_catalog" /\ scimOrder[o].status \in HeldStatuses
       /\ scimOrder'[o].status = "revoking" =>
         \E s \in ScimSessions : scim[s].pc = "revoke" /\ scim[s].origin = "rule_based"
    ]_scimVars

(* A joiner gets a bundle once, and a mover leaves the user's own orders.   *)
ScimRight == JoinedOnce /\ SelfServiceIsKept

(* Without crashes, a request's orders reach their worker: what it committed *)
(* as processing or revoking does not stay so (bundle_order.order_bundle and *)
(* leaver.process_leaver dispatch after their commit).                       *)
ScimOrderSettles ==
  \A o \in 1..ScimMaxOrders :
    (o \in OrdersIn({"processing", "revoking"})
       ~> o \in OrdersIn({"delivered", "revoked"}) \/ scimCrashes > 0)

=============================================================================
