-------------------------- MODULE ApprovalDecision --------------------------
(***************************************************************************)
(* The approvals of one order: the rows of order_approvals, the quorum of  *)
(* each bucket, and everything that writes them.  (Orders share no row, so *)
(* one is enough.)                                                         *)
(*                                                                         *)
(* The API sessions run READ COMMITTED, without row locks and without      *)
(* autoflush: a decision is (1) the load of its own row and of the order,  *)
(* (2) for an approval, the tally over all rows, and (3) the commit, which *)
(* writes what was changed in memory, by id and whatever the rows say by   *)
(* then.  session[s] keeps what has been read.                             *)
(***************************************************************************)
EXTENDS Integers, FiniteSets

CONSTANTS
  Approvers,  \* the approvers an order may get, one row each
  Asked,      \* the sets of approvers a new order may ask, as its conditions
              \* decide; the others are the contacts of
              \* approval.escalation_email
  Bucket,     \* "global", or the rule whose own threshold counts the row
  Manager,    \* the approver of type 'manager'
  Requester,  \* orders.user_email
  Leavers,    \* the users a leaver event may come for
  Sessions,   \* concurrent requests and Beat jobs
  Minimums,   \* the configurations tried: min_approvals_required of the
              \* type ("global") and the min_approvals_required of each rule
  Nobody

Initial == UNION Asked
Contacts == Approvers \ Initial
Buckets == {Bucket[x] : x \in Approvers}

ASSUME ApprovalAssumption ==
  /\ IsFiniteSet(Approvers)
  /\ Asked \subseteq SUBSET Approvers /\ {} \notin Asked
  /\ Bucket \in [Approvers -> STRING]
  /\ \A x \in Contacts : Bucket[x] = "global"
  /\ Leavers \subseteq Approvers \cup {Requester}
  /\ Nobody \notin Approvers
  /\ Minimums \subseteq [Buckets \cup {"global"} -> Nat]
  /\ \A m \in Minimums : \A b \in Buckets \ {"global"} : m[b] > 0

VARIABLES
  orderStatus,  \* orders.status
  row,          \* order_approvals.status ("none": no such row)
  minimum,      \* min_approvals_required of the type ("global"), and the
                \* rule_threshold frozen on the rows of each rule (from Minimums)
  session,
  votes,        \* history: approvers whose approval was committed
  released,     \* history: how often the order left the approval gate
  overlapped,   \* history: two sessions were at work at the same time
  gone          \* history: users a leaver event was processed for

vars == <<orderStatus, row, minimum, session, votes, released, overlapped,
          gone>>

OrderStatuses == {"none", "pending_approval", "scheduled", "processing",
                  "rejected", "cancelled", "revoking"}
RowStatuses == {"none", "pending", "approved", "declined", "superseded"}
Kinds == {"idle", "approve", "tallied", "decline", "autoDecline",
          "escalate", "leaver", "cancel"}

NoRows == [x \in Approvers |-> "none"]
IdleSession == [kind |-> "idle", who |-> Nobody, seen |-> "none",
                rows |-> NoRows]

(* Every row, and everything a session remembers, has a value the code      *)
(* writes or reads.                                                         *)
TypeOK ==
  /\ orderStatus \in OrderStatuses
  /\ row \in [Approvers -> RowStatuses]
  /\ minimum \in Minimums
  /\ session \in [Sessions -> [kind: Kinds,
                               who: Approvers \cup {Requester, Nobody},
                               seen: OrderStatuses,
                               rows: [Approvers -> RowStatuses]]]
  /\ votes \subseteq Approvers
  /\ released \in Nat
  /\ overlapped \in BOOLEAN
  /\ gone \subseteq Leavers

Init ==
  /\ orderStatus = "none"
  /\ row = NoRows
  /\ minimum \in Minimums
  /\ session = [s \in Sessions |-> IdleSession]
  /\ votes = {}
  /\ released = 0
  /\ overlapped = FALSE
  /\ gone = {}

-----------------------------------------------------------------------------
(* _compute_bucket_state over the rows r.                                   *)

Members(r, b) == {x \in Approvers : r[x] # "none" /\ Bucket[x] = b}
Approved(r, b) == {x \in Members(r, b) : r[x] = "approved"}
Pending(r) == {x \in Approvers : r[x] = "pending"}

(* Mutant of Threshold: a type that asks for more than it has keeps asking. *)
ThresholdUncoerced(r, b) ==
  LET size == Cardinality(Members(r, b)) IN
  IF minimum[b] = 0 \/ (b # "global" /\ minimum[b] > size) THEN size
  ELSE minimum[b]

(* 0, or more than there are, means all of them.                            *)
Threshold(r, b) ==
  LET size == Cardinality(Members(r, b)) IN
  IF minimum[b] = 0 \/ minimum[b] >= size THEN size ELSE minimum[b]

(* Mutant of Met: an answered row counts, whatever the answer.              *)
MetByAnswers(r, b) ==
  Cardinality(Members(r, b) \ Pending(r)) >= Threshold(r, b)

Met(r, b) == Cardinality(Approved(r, b)) >= Threshold(r, b)

AllMet(r) == \A b \in Buckets : Met(r, b)

(* Mutant of Surplus: the rows that remain when the order is released are   *)
(* left pending.                                                            *)
SurplusOfBucket(r, x) ==
  IF Met(r, Bucket[x]) /\ ~AllMet(r)
  THEN Pending(r) \cap Members(r, Bucket[x]) ELSE {}

(* The rows the approval of x closes: all that is pending when the order is *)
(* released, what is pending in its own bucket when that one is met.        *)
Surplus(r, x) ==
  IF AllMet(r) THEN Pending(r)
  ELSE IF Met(r, Bucket[x]) THEN Pending(r) \cap Members(r, Bucket[x])
  ELSE {}

-----------------------------------------------------------------------------
Idle(s) == session[s] = IdleSession
AllIdle == \A s \in Sessions : Idle(s)

Open(s, kind, who, seen, r) ==
  /\ Idle(s)
  /\ session' = [session EXCEPT ![s] = [kind |-> kind, who |-> who,
                                        seen |-> seen, rows |-> r]]
  /\ overlapped' = (overlapped \/ ~AllIdle)

Close(s) ==
  /\ session' = [session EXCEPT ![s] = IdleSession]
  /\ UNCHANGED overlapped

(* Mutant of Advance: the order is only marked as approved.                 *)
AdvanceToApproved(seen) ==
  /\ orderStatus' = "approved"
  /\ released' = released + 1

(* _post_approval_dispatch: the start date decides between the two.  The    *)
(* session writes the status only when it differs from the one it has read. *)
(* (The task message an immediate order then gets is OrderLifecycle's.)     *)
Advance(seen) ==
  \E st \in {"processing", "scheduled"} :
    /\ orderStatus' = IF st = seen THEN orderStatus ELSE st
    /\ released' = released + 1

(* portal_create_order with an approval gate.  A manager who orders for a   *)
(* report has approved already, which may be all the order needs.           *)
Create ==
  /\ orderStatus = "none"
  /\ \E asked \in Asked : \E auto \in SUBSET (asked \cap {Manager}) :
       LET r == [x \in Approvers |-> IF x \in auto THEN "approved"
                                     ELSE IF x \in asked THEN "pending"
                                     ELSE "none"]
       IN /\ votes' = auto
          /\ \/ /\ ~AllMet(r)
                /\ row' = r
                /\ orderStatus' = "pending_approval"
                /\ UNCHANGED released
             \/ /\ AllMet(r)
                /\ row' = [x \in Approvers |-> IF r[x] = "pending"
                                               THEN "superseded" ELSE r[x]]
                /\ Advance("none")
  /\ UNCHANGED <<minimum, session, overlapped, gone>>

-----------------------------------------------------------------------------
(* A decision, by the approver or by the superadmin for the approver.       *)

DecideRead(s, x, kind) ==
  /\ row[x] = "pending"
  /\ kind \in {"approve", "decline"}
  /\ Open(s, kind, x, orderStatus, NoRows)
  /\ UNCHANGED <<orderStatus, row, minimum, votes, released, gone>>

(* The SELECT of all rows; the session's own one is approved in memory.     *)
Tally(s) ==
  LET r == session[s] IN
  /\ r.kind = "approve"
  /\ session' = [session EXCEPT
                   ![s] = [r EXCEPT !.kind = "tallied",
                                    !.rows = [row EXCEPT ![r.who] = "approved"]]]
  /\ UNCHANGED <<orderStatus, row, minimum, votes, released,
                 overlapped, gone>>

ApproveCommit(s) ==
  LET r == session[s] IN
  /\ r.kind = "tallied"
  /\ row' = [x \in Approvers |->
               IF x = r.who THEN "approved"
               ELSE IF x \in Surplus(r.rows, r.who) THEN "superseded"
               ELSE row[x]]
  /\ votes' = votes \cup {r.who}
  /\ \/ AllMet(r.rows) /\ Advance(r.seen)
     \/ ~AllMet(r.rows) /\ UNCHANGED <<orderStatus, released>>
  /\ Close(s)
  /\ UNCHANGED <<minimum, gone>>

DeclineCommit(s) ==
  LET r == session[s] IN
  /\ r.kind = "decline"
  /\ row' = [row EXCEPT ![r.who] = "declined"]
  /\ orderStatus' = IF r.seen = "rejected" THEN orderStatus ELSE "rejected"
  /\ Close(s)
  /\ UNCHANGED <<minimum, votes, released, gone>>

(* DELETE /orders, for an order of any status: the approvals stay.          *)
CancelRead(s) ==
  /\ orderStatus # "none"
  /\ Open(s, "cancel", Nobody, orderStatus, NoRows)
  /\ UNCHANGED <<orderStatus, row, minimum, votes, released, gone>>

CancelCommit(s) ==
  LET r == session[s] IN
  /\ r.kind = "cancel"
  /\ orderStatus' = IF r.seen = "cancelled" THEN orderStatus ELSE "cancelled"
  /\ Close(s)
  /\ UNCHANGED <<row, minimum, votes, released, gone>>

-----------------------------------------------------------------------------
(* Beat jobs and the leaver: read, then commit.                             *)

(* scan_and_auto_decline: a pending row (the oldest), of an order of any    *)
(* status but rejected and cancelled.                                       *)
AutoDeclineRead(s, x) ==
  /\ row[x] = "pending"
  /\ orderStatus \notin {"rejected", "cancelled"}
  /\ Open(s, "autoDecline", x, "none", NoRows)
  /\ UNCHANGED <<orderStatus, row, minimum, votes, released, gone>>

(* Its first UPDATE looks at the row again, its second one at the order.    *)
AutoDeclineCommit(s) ==
  LET x == session[s].who IN
  /\ session[s].kind = "autoDecline"
  /\ row' = [row EXCEPT ![x] = IF @ = "pending" THEN "declined" ELSE @]
  /\ orderStatus' = IF orderStatus = "cancelled" THEN "cancelled"
                    ELSE "rejected"
  /\ Close(s)
  /\ UNCHANGED <<minimum, votes, released, gone>>

(* scan_and_remind, escalation_assign: a pending row at its last reminder   *)
(* makes every contact that is no approver yet a new, pending one.          *)
EscalateRead(s) ==
  /\ Pending(row) # {}
  /\ \E x \in Contacts : row[x] = "none"
  /\ \A t \in Sessions : session[t].kind # "escalate"
  /\ Open(s, "escalate", Nobody, "none", NoRows)
  /\ UNCHANGED <<orderStatus, row, minimum, votes, released, gone>>

EscalateCommit(s) ==
  /\ session[s].kind = "escalate"
  /\ row' = [x \in Approvers |-> IF x \in Contacts /\ row[x] = "none"
                                 THEN "pending" ELSE row[x]]
  /\ Close(s)
  /\ UNCHANGED <<orderStatus, minimum, votes, released, gone>>

(* process_leaver of an approver or of the requester: the rows and the      *)
(* status it has selected are written by id.                                *)
LeaverRead(s, u) ==
  /\ u \notin gone
  /\ orderStatus # "none"
  /\ Open(s, "leaver", u, IF u = Requester THEN orderStatus ELSE "none",
          [x \in Approvers |-> IF x = u THEN row[x] ELSE "none"])
  /\ UNCHANGED <<orderStatus, row, minimum, votes, released, gone>>

LeaverCommit(s) ==
  LET r == session[s]
      active == {"pending_approval", "scheduled", "processing"}
  IN
  /\ r.kind = "leaver"
  /\ orderStatus' = IF r.who = Requester /\ r.seen \in active
                    THEN "revoking" ELSE orderStatus
  /\ row' = [x \in Approvers |-> IF x = r.who /\ r.rows[x] = "pending"
                                 THEN "superseded" ELSE row[x]]
  /\ gone' = gone \cup {r.who}
  /\ Close(s)
  /\ UNCHANGED <<minimum, votes, released>>

-----------------------------------------------------------------------------
Commit(s) ==
  \/ Tally(s) \/ ApproveCommit(s) \/ DeclineCommit(s) \/ CancelCommit(s)
  \/ AutoDeclineCommit(s) \/ EscalateCommit(s) \/ LeaverCommit(s)

Next ==
  \/ Create
  \/ \E s \in Sessions :
       \/ CancelRead(s) \/ EscalateRead(s) \/ Commit(s)
       \/ \E x \in Approvers :
            \/ \E kind \in {"approve", "decline"} : DecideRead(s, x, kind)
            \/ AutoDeclineRead(s, x)
       \/ \E u \in Leavers : LeaverRead(s, u)

Spec == Init /\ [][Next]_vars

-----------------------------------------------------------------------------
(* Properties.                                                              *)

(* What the order asked for when it was placed, bucket by bucket.           *)
Required(r, b) ==
  LET size == Cardinality(Members(r, b) \ Contacts) IN
  IF minimum[b] = 0 \/ minimum[b] >= size THEN size ELSE minimum[b]

(* "Any N of M configured approvers": no order is released before so many   *)
(* approvers of every bucket have really approved as its creation required, *)
(* however decisions, escalations, supersessions and leavers overlap, each  *)
(* of them with a stale view of the rows.                                   *)
QuorumBeforeRelease ==
  released > 0 =>
    \A b \in Buckets :
      Cardinality({x \in votes : Bucket[x] = b}) >= Required(row, b)

(* As long as no two requests overlap, an order is released once: the rows  *)
(* that are superseded are those that could release it again.               *)
ReleasedOnce == overlapped \/ released <= 1

(* As long as no two requests overlap and no approver leaves, an order that *)
(* waits for approvals waits for somebody: its quorum is not met yet, and   *)
(* the pending rows are enough to meet it.                                  *)
StillDecidable ==
  orderStatus = "pending_approval" /\ AllIdle /\ ~overlapped
      /\ gone \cap Approvers = {}
    => /\ ~AllMet(row)
       /\ \A b \in Buckets :
            Cardinality(Approved(row, b) \cup (Pending(row) \cap Members(row, b)))
              >= Threshold(row, b)
=============================================================================
