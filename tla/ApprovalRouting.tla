--------------------------- MODULE ApprovalRouting --------------------------
(***************************************************************************)
(* Who is asked to approve an order, from its placement at the portal to   *)
(* the last answer.  The manager, the owners, the rules and the            *)
(* classification each contribute approvers; an approver who is away is    *)
(* replaced by a delegate; the worker sends each pending approver a signed *)
(* link.  (Quorums and concurrent decisions are ApprovalDecision's: here   *)
(* everybody asked must approve.)                                          *)
(*                                                                         *)
(* One order of an asset type chosen at the start.  The request that       *)
(* places it hands the worker its task before it commits.                  *)
(***************************************************************************)
EXTENDS ApprovalRules

CONSTANTS
  People,
  Manager,       \* the requester's manager
  Officer,       \* {} or {approval.compliance_officer_email}
  RoutingTypes,  \* [manager, owner, owners, rules, classes]
  Policies,      \* approval.classification_policy, by class
  Contexts,      \* the sets of facts an order may have
  LinkLife,      \* how long a link is good
  RoutingEnd,    \* bound: days
  MaxDelegations \* bound: delegations made

ASSUME RoutingAssumption ==
  /\ Manager \in People /\ Officer \subseteq People
  /\ \A t \in RoutingTypes :
       /\ t.owners \in Seq(People) /\ {t.manager, t.owner} \subseteq BOOLEAN
       /\ t.rules \in Seq([condition : Conditions, approvers : Seq(People)])
  /\ {LinkLife, RoutingEnd, MaxDelegations} \subseteq Nat

VARIABLES
  assetType, policy, facts,
  placed,        \* "no" | "flushed" | "pending_approval" | "processing" | "rejected"
  placedOn,      \* day of the placement
  rows,          \* order_approvals: [kind, n, asked, person, status]
  sendTasks,     \* send_approval_requests messages
  links,         \* [row, until]: links sent
  delegations,   \* [by, to, from, until, revoked]
  day

routingVars == <<assetType, policy, facts, placed, placedOn, rows, sendTasks, links,
                 delegations, day>>

NotRevoked == RoutingEnd + 1
RowStatus == {"pending", "approved", "rejected", "superseded"}

Days == 0..RoutingEnd
Delegation == [by : People, to : People, from : Days, until : Days \cup {RoutingEnd + 1},
               revoked : Days \cup {NotRevoked}]

-----------------------------------------------------------------------------
(* Delegations, made by the approver or by an admin.                        *)

Delegate(by, to, from, until) ==
  /\ Cardinality(delegations) < MaxDelegations
  /\ from < until /\ by # to
  /\ delegations' = delegations \cup
       {[by |-> by, to |-> to, from |-> from, until |-> until, revoked |-> NotRevoked]}
  /\ UNCHANGED <<assetType, policy, facts, placed, placedOn, rows, sendTasks, links, day>>

RevokeDelegation(d) ==
  /\ d.revoked = NotRevoked
  /\ delegations' = (delegations \ {d}) \cup {[d EXCEPT !.revoked = day]}
  /\ UNCHANGED <<assetType, policy, facts, placed, placedOn, rows, sendTasks, links, day>>

(* Mutant of InForce: a revoked delegation still holds.                     *)
InWindow(by) == {d \in delegations : d.by = by /\ d.from <= day /\ day < d.until}

(* resolve_active_delegate: not revoked, in its window.                     *)
InForce(by) ==
  {d \in delegations : d.by = by /\ d.revoked = NotRevoked /\ d.from <= day /\ day < d.until}

(* The latest that started; one hop, the delegate's own delegation is not   *)
(* looked at.                                                               *)
RoutedTo(by) ==
  IF InForce(by) = {} THEN {by}
  ELSE {d.to : d \in {e \in InForce(by) : \A f \in InForce(by) : f.from <= e.from}}

-----------------------------------------------------------------------------
(* portal_create_order: the rows in the order they are added.  Owners are   *)
(* added without looking who is asked already; the rules and the            *)
(* classification look at who was asked, not at whom it was routed to.      *)

ManagerAsked == IF assetType.manager THEN {[kind |-> "manager", n |-> 1, asked |-> Manager]} ELSE {}

OwnersAsked ==
  IF ~assetType.owner THEN {}
  ELSE {[kind |-> "application_owner", n |-> i, asked |-> assetType.owners[i]] :
          i \in DOMAIN assetType.owners}

Seen == {a.asked : a \in ManagerAsked \cup OwnersAsked}

RulesAsked ==
  {[kind |-> "rule", n |-> r.rule, asked |-> r.person] :
     r \in {s \in RuleApprovers(assetType.rules, facts) : s.person \notin Seen}}

(* Mutants of ClassAsked: the classification adds nobody when a rule did;   *)
(* it adds who was asked already.                                           *)
ClassIfNoRule ==
  IF RulesAsked # {} THEN {}
  ELSE {[kind |-> ClassPolicy(assetType.classes, policy), n |-> 1, asked |-> p] :
          p \in ClassApprovers(assetType.classes, assetType.owners, policy, Officer) \ Seen}

ClassAlways ==
  {[kind |-> ClassPolicy(assetType.classes, policy), n |-> 1, asked |-> p] :
     p \in ClassApprovers(assetType.classes, assetType.owners, policy, Officer)}

ClassAsked ==
  {[kind |-> ClassPolicy(assetType.classes, policy), n |-> 1, asked |-> p] :
     p \in ClassApprovers(assetType.classes, assetType.owners, policy, Officer)
             \ (Seen \cup {r.asked : r \in RulesAsked})}

Asked == ManagerAsked \cup OwnersAsked \cup RulesAsked \cup ClassAsked

NeedsApproval ==
  \/ assetType.manager \/ assetType.owner
  \/ RuleApprovers(assetType.rules, facts) # {}
  \/ ClassApprovers(assetType.classes, assetType.owners, policy, Officer) # {}

Row(a, person, status) ==
  [kind |-> a.kind, n |-> a.n, asked |-> a.asked, person |-> person, status |-> status]

(* Placed by the manager for a report, the manager's row is approved.       *)
NewRows(selfApproved, route) ==
  {IF selfApproved /\ a.kind = "manager" THEN Row(a, a.asked, "approved")
   ELSE Row(a, route[a.asked], "pending") : a \in Asked}

(* The quorum, when everybody must approve; an order without rows has none. *)
AllGranted(set) == set # {} /\ \A r \in set : r.status = "approved"

Flush(selfApproved) ==
  /\ placed = "no" /\ (selfApproved => assetType.manager)
  /\ \E route \in [{a.asked : a \in Asked} -> People] :
       /\ \A p \in DOMAIN route : route[p] \in RoutedTo(p)
       /\ rows' = NewRows(selfApproved, route)
  /\ placed' = "flushed" /\ placedOn' = day
  /\ sendTasks' = IF NeedsApproval /\ ~AllGranted(rows') THEN sendTasks + 1 ELSE sendTasks
  /\ UNCHANGED <<assetType, policy, facts, links, delegations, day>>

Commit ==
  /\ placed = "flushed"
  /\ placed' = IF NeedsApproval /\ ~AllGranted(rows) THEN "pending_approval" ELSE "processing"
  /\ UNCHANGED <<assetType, policy, facts, placedOn, rows, sendTasks, links, delegations, day>>

-----------------------------------------------------------------------------
(* send_approval_requests: the rows it can see.  A task that finds no order *)
(* is done with.                                                            *)
Committed == placed \notin {"no", "flushed"}

SendRequests ==
  /\ sendTasks > 0 /\ sendTasks' = sendTasks - 1
  /\ links' = IF ~Committed THEN links
              ELSE links \cup {[kind |-> r.kind, n |-> r.n, asked |-> r.asked, until |-> day + LinkLife] :
                                 r \in {s \in rows : s.status = "pending"}}
  /\ UNCHANGED <<assetType, policy, facts, placed, placedOn, rows, delegations, day>>

(* Declined, every other pending row is superseded and the order rejected.  *)
Decide(r, verdict) ==
  LET decided == (rows \ {r}) \cup {[r EXCEPT !.status = verdict]} IN
  /\ r.status = "pending" /\ placed = "pending_approval"
  /\ IF verdict = "approved"
     THEN /\ rows' = decided
          /\ placed' = IF AllGranted(decided) THEN "processing" ELSE placed
     ELSE /\ rows' = {IF s.status = "pending" THEN [s EXCEPT !.status = "superseded"] ELSE s :
                        s \in decided}
          /\ placed' = "rejected"
  /\ UNCHANGED <<assetType, policy, facts, placedOn, sendTasks, links, delegations, day>>

(* approve_post, by the link; portal_decide_approval, by the signed-in      *)
(* approver.                                                                *)
GoodLink(l, r) == l.kind = r.kind /\ l.n = r.n /\ l.asked = r.asked /\ day <= l.until

DecideByLink(r, verdict) == (\E l \in links : GoodLink(l, r)) /\ Decide(r, verdict)
DecideAtPortal(r, verdict) == Decide(r, verdict)

RoutingDay ==
  /\ day < RoutingEnd /\ day' = day + 1
  /\ UNCHANGED <<assetType, policy, facts, placed, placedOn, rows, sendTasks, links, delegations>>

-----------------------------------------------------------------------------
RoutingInit ==
  /\ assetType \in RoutingTypes /\ policy \in Policies /\ facts \in Contexts
  /\ placed = "no" /\ placedOn = 0 /\ rows = {} /\ sendTasks = 0 /\ links = {}
  /\ delegations = {} /\ day = 0

RoutingNext ==
  \/ \E by, to \in People, from \in Days, until \in Days \cup {RoutingEnd + 1} :
       Delegate(by, to, from, until)
  \/ \E d \in delegations : RevokeDelegation(d)
  \/ \E selfApproved \in BOOLEAN : Flush(selfApproved)
  \/ Commit \/ SendRequests \/ RoutingDay
  \/ \E r \in rows, verdict \in {"approved", "rejected"} :
       DecideByLink(r, verdict) \/ DecideAtPortal(r, verdict)

RoutingSpec == RoutingInit /\ [][RoutingNext]_routingVars

RoutingTypeOK ==
  /\ placed \in {"no", "flushed", "pending_approval", "processing", "rejected"}
  /\ \A r \in rows : {r.asked, r.person} \subseteq People /\ r.status \in RowStatus
  /\ delegations \subseteq Delegation
  /\ sendTasks \in 0..1 /\ day \in Days /\ placedOn \in 0..day

(* A condition that is not nested too deep matches the orders it describes. *)
RulesMeanWhatTheySay ==
  \A i \in DOMAIN assetType.rules :
    LET c == assetType.rules[i].condition IN
    Depth[c] <= MaxDepth => (EvalCondition(c, facts, 0) <=> facts \in Meaning(Contexts)[c])

(* Whoever the type, a matching rule or the classification calls for has    *)
(* approved an order that goes on, or the delegate has: whatever the        *)
(* removal of duplicates and the delegations did.                           *)
CalledFor ==
  (IF assetType.manager THEN {Manager} ELSE {})
  \cup (IF assetType.owner THEN ToSet(assetType.owners) ELSE {})
  \cup (UNION {ToSet(assetType.rules[i].approvers) :
                 i \in {j \in DOMAIN assetType.rules :
                          /\ Depth[assetType.rules[j].condition] <= MaxDepth
                          /\ facts \in Meaning(Contexts)[assetType.rules[j].condition]}})
  \cup ClassApprovers(assetType.classes, assetType.owners, policy, Officer)

EveryMechanismApproved ==
  placed = "processing" =>
    \A p \in CalledFor : \E r \in rows : r.asked = p /\ r.status = "approved"

(* Somebody else than the person asked holds a row only by a delegation     *)
(* that was in force on the day of the placement.                           *)
DelegateInForce ==
  \A r \in rows : r.person # r.asked =>
    \E d \in delegations : /\ d.by = r.asked /\ d.to = r.person
                           /\ d.from <= placedOn /\ placedOn < d.until
                           /\ placedOn <= d.revoked

(* An order that waits for approvals has somebody left to decide, unless    *)
(* its type asks for owners and has none.                                   *)
PendingHasApprover ==
  placed = "pending_approval" /\ ~(assetType.owner /\ assetType.owners = <<>>) =>
    \E r \in rows : r.status = "pending"

(* A person who qualifies under several mechanisms gets one request, unless *)
(* it is as an owner: owners are asked whoever was asked before.            *)
OneRequestPerPerson ==
  \A p \in People \ (IF assetType.owner THEN ToSet(assetType.owners) ELSE {}) :
    Cardinality({r \in rows : r.asked = p}) <= 1

(* Who is called for is asked once, decides, and has decided.               *)
RoutingRight ==
  /\ RulesMeanWhatTheySay /\ EveryMechanismApproved /\ DelegateInForce
  /\ PendingHasApprover /\ OneRequestPerPerson

=============================================================================
