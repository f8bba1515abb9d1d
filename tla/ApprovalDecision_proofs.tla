----------------------- MODULE ApprovalDecision_proofs -----------------------
(***************************************************************************)
(* Proofs about ApprovalDecision: its types, that no order is released     *)
(* below the quorum its creation required, and, while no two requests      *)
(* overlap, that it is released once and does not wait for nobody.         *)
(*                                                                         *)
(* The quorum is counted from a copy of the rows that may be out of date   *)
(* when it is used, so QuorumBeforeRelease needs what relates the copies   *)
(* to the rows: an approval a session has seen is a vote by now or the     *)
(* session's own (Counted), and no approver of the creation is missing     *)
(* from a tally (Kept), so that a bucket is never counted too small.       *)
(* Without overlap a copy is the rows (Alone, Current).  A released order  *)
(* has no pending row (Finished), and one that waits has in every bucket   *)
(* either all its members or the approvals asked for (Waits).              *)
(***************************************************************************)
EXTENDS ApprovalDecision, FiniteSetTheorems, TLAPS

(* Before its creation an order has nothing, and nobody works on it.        *)
Opened ==
  orderStatus = "none" =>
    /\ row = NoRows
    /\ released = 0
    /\ \A s \in Sessions : session[s].kind = "idle"

(* A session that decides is an approver's, and a leaver's a leaver's.      *)
Owned ==
  \A s \in Sessions :
    /\ session[s].kind \in {"approve", "tallied", "decline"} =>
         session[s].who \in Approvers
    /\ session[s].kind = "leaver" => session[s].who \in Leavers

(* They work on an existing row of the order; every row a session  *)
(* has seen exists, and a tally has all the rows of the creation.           *)
Kept ==
  \A s \in Sessions :
    /\ session[s].kind \in {"approve", "tallied", "decline"} =>
         row[session[s].who] # "none"
    /\ \A x \in Approvers : session[s].rows[x] # "none" => row[x] # "none"
    /\ session[s].kind = "tallied" =>
         \A x \in Initial : row[x] # "none" => session[s].rows[x] # "none"

(* Approvals are votes, in the table and in every tally.                    *)
Counted ==
  /\ \A x \in Approvers : row[x] = "approved" => x \in votes
  /\ \A s \in Sessions :
       session[s].kind = "tallied" =>
         \A x \in Approvers :
           session[s].rows[x] = "approved" => x \in votes \cup {session[s].who}

IInv == TypeOK /\ Owned /\ Opened /\ Kept /\ Counted /\ QuorumBeforeRelease

-----------------------------------------------------------------------------

(* A bucket that is met by a tally r, with the approvals in voted, has at   *)
(* least as many as were required of the approvers asked, when none of them *)
(* is missing from r.                                                       *)
LEMMA MetIsEnough ==
  ASSUME minimum \in Minimums, NEW r, NEW b \in Buckets,
         NEW voted \in SUBSET Approvers, NEW asked,
         Met(r, b), Approved(r, b) \subseteq voted, asked \subseteq Members(r, b)
  PROVE  Cardinality(voted) >= IF minimum[b] = 0 \/ minimum[b] >= Cardinality(asked)
                               THEN Cardinality(asked) ELSE minimum[b]
<1> DEFINE all == Members(r, b)
           yes == Approved(r, b)
<1>1. IsFiniteSet(Approvers) /\ minimum[b] \in Nat
  BY ApprovalAssumption DEF ApprovalAssumption
<1>2. IsFiniteSet(all) /\ IsFiniteSet(voted)
  BY <1>1, FS_Subset DEF Members
<1>3. /\ IsFiniteSet(yes) /\ IsFiniteSet(asked)
      /\ Cardinality(asked) <= Cardinality(all)
      /\ Cardinality(yes) <= Cardinality(voted)
  BY <1>2, FS_Subset
<1>4. /\ Cardinality(all) \in Nat /\ Cardinality(voted) \in Nat
      /\ Cardinality(yes) \in Nat /\ Cardinality(asked) \in Nat
  BY <1>2, <1>3, FS_CardinalityType
<1>5. Cardinality(yes) >= IF minimum[b] = 0 \/ minimum[b] >= Cardinality(all)
                          THEN Cardinality(all) ELSE minimum[b]
  BY DEF Met, Threshold
<1> HIDE DEF all, yes
<1> QED
  BY <1>1, <1>3, <1>4, <1>5

-----------------------------------------------------------------------------
(* Types.                                                                   *)

SessionType ==
  [kind: Kinds, who: Approvers \cup {Requester, Nobody}, seen: OrderStatuses,
   rows: [Approvers -> RowStatuses]]

LEMMA NoRowsType == NoRows \in [Approvers -> RowStatuses]
BY DEF NoRows, RowStatuses

LEMMA IdleType == IdleSession \in SessionType
BY NoRowsType DEF IdleSession, SessionType, Kinds, OrderStatuses

(* A session that opens gets a well-typed record, one that closes is idle.  *)
LEMMA OpenTypes ==
  ASSUME TypeOK, NEW s \in Sessions, NEW kind \in Kinds,
         NEW who \in Approvers \cup {Requester, Nobody},
         NEW seen \in OrderStatuses, NEW r \in [Approvers -> RowStatuses],
         Open(s, kind, who, seen, r)
  PROVE  session' \in [Sessions -> SessionType] /\ overlapped' \in BOOLEAN
<1>1. [kind |-> kind, who |-> who, seen |-> seen, rows |-> r] \in SessionType
  BY DEF SessionType
<1>2. session' \in [Sessions -> SessionType]
  BY <1>1 DEF TypeOK, Open, SessionType
<1>3. overlapped' \in BOOLEAN
  BY DEF TypeOK, Open
<1> QED
  BY <1>2, <1>3

(* What sessions are opened with.                                           *)
LEMMA ReadTypes ==
  ASSUME TypeOK
  PROVE  /\ {"approve", "decline", "autoDecline", "escalate", "cancel", "leaver"}
              \subseteq Kinds
         /\ orderStatus \in OrderStatuses /\ "none" \in OrderStatuses
         /\ NoRows \in [Approvers -> RowStatuses]
BY NoRowsType DEF TypeOK, Kinds, OrderStatuses

LEMMA CloseTypes ==
  ASSUME TypeOK, NEW s \in Sessions, Close(s)
  PROVE  session' \in [Sessions -> SessionType] /\ overlapped' \in BOOLEAN
<1>1. session \in [Sessions -> SessionType] /\ overlapped \in BOOLEAN
  BY DEF TypeOK, SessionType
<1> QED
  BY <1>1, IdleType DEF Close

LEMMA AdvanceTypes ==
  ASSUME TypeOK, NEW seen, Advance(seen)
  PROVE  /\ orderStatus' \in OrderStatuses /\ released' \in Nat
         /\ orderStatus' \in {"processing", "scheduled"} \cup {seen} \/ orderStatus' = orderStatus
BY DEF TypeOK, Advance, OrderStatuses

LEMMA TypeStep == TypeOK /\ Owned /\ [Next]_vars => TypeOK'
<1> SUFFICES ASSUME TypeOK, Owned, [Next]_vars
             PROVE  TypeOK'
  OBVIOUS
<1> USE DEF SessionType
<1>1. CASE Create
  <2>0. PICK asked \in Asked : \E auto \in SUBSET (asked \cap {Manager}) :
          LET q == [x \in Approvers |-> IF x \in auto THEN "approved"
                                        ELSE IF x \in asked THEN "pending"
                                        ELSE "none"]
          IN /\ votes' = auto
             /\ \/ row' = q /\ orderStatus' = "pending_approval" /\ UNCHANGED released
                \/ /\ row' = [x \in Approvers |-> IF q[x] = "pending"
                                                 THEN "superseded" ELSE q[x]]
                   /\ Advance("none")
    BY <1>1 DEF Create
  <2>1. PICK auto \in SUBSET (asked \cap {Manager}) :
          LET q == [x \in Approvers |-> IF x \in auto THEN "approved"
                                        ELSE IF x \in asked THEN "pending"
                                        ELSE "none"]
          IN /\ votes' = auto
             /\ \/ row' = q /\ orderStatus' = "pending_approval" /\ UNCHANGED released
                \/ /\ row' = [x \in Approvers |-> IF q[x] = "pending"
                                                 THEN "superseded" ELSE q[x]]
                   /\ Advance("none")
    BY <2>0
  <2>2. row' \in [Approvers -> RowStatuses]
    BY <2>1 DEF RowStatuses
  <2>3. orderStatus' \in OrderStatuses /\ released' \in Nat
    BY <2>1, AdvanceTypes DEF OrderStatuses, TypeOK
  <2>4. votes' \subseteq Approvers
    BY <2>1, ApprovalAssumption DEF ApprovalAssumption
  <2> QED
    BY <1>1, <2>2, <2>3, <2>4 DEF Create, TypeOK
<1>2. ASSUME NEW s \in Sessions, NEW x \in Approvers,
             NEW kind \in {"approve", "decline"}, DecideRead(s, x, kind)
      PROVE  TypeOK'
  <2>1. session' \in [Sessions -> SessionType] /\ overlapped' \in BOOLEAN
    BY <1>2, OpenTypes, ReadTypes DEF DecideRead
  <2> QED
    BY <1>2, <2>1 DEF DecideRead, TypeOK
<1>3. ASSUME NEW s \in Sessions, NEW x \in Approvers, AutoDeclineRead(s, x)
      PROVE  TypeOK'
  <2>1. session' \in [Sessions -> SessionType] /\ overlapped' \in BOOLEAN
    BY <1>3, OpenTypes, ReadTypes DEF AutoDeclineRead
  <2> QED
    BY <1>3, <2>1 DEF AutoDeclineRead, TypeOK
<1>4. ASSUME NEW s \in Sessions, EscalateRead(s)
      PROVE  TypeOK'
  <2>1. session' \in [Sessions -> SessionType] /\ overlapped' \in BOOLEAN
    BY <1>4, OpenTypes, ReadTypes DEF EscalateRead
  <2> QED
    BY <1>4, <2>1 DEF EscalateRead, TypeOK
<1>5. ASSUME NEW s \in Sessions, CancelRead(s)
      PROVE  TypeOK'
  <2>1. session' \in [Sessions -> SessionType] /\ overlapped' \in BOOLEAN
    BY <1>5, OpenTypes, ReadTypes DEF CancelRead
  <2> QED
    BY <1>5, <2>1 DEF CancelRead, TypeOK
<1>6. ASSUME NEW s \in Sessions, NEW u \in Leavers, LeaverRead(s, u)
      PROVE  TypeOK'
  <2>1. [x \in Approvers |-> IF x = u THEN row[x] ELSE "none"]
          \in [Approvers -> RowStatuses]
    BY DEF TypeOK, RowStatuses
  <2>2. u \in Approvers \cup {Requester, Nobody}
    BY ApprovalAssumption DEF ApprovalAssumption
  <2>3. (IF u = Requester THEN orderStatus ELSE "none") \in OrderStatuses
    BY DEF TypeOK, OrderStatuses
  <2>4. session' \in [Sessions -> SessionType] /\ overlapped' \in BOOLEAN
    BY <1>6, <2>1, <2>2, <2>3, OpenTypes DEF LeaverRead, Kinds
  <2> QED
    BY <1>6, <2>4 DEF LeaverRead, TypeOK
<1>7. ASSUME NEW s \in Sessions, Tally(s)
      PROVE  TypeOK'
  <2>1. [session[s] EXCEPT !.kind = "tallied",
                           !.rows = [row EXCEPT ![session[s].who] = "approved"]]
          \in SessionType
    BY DEF TypeOK, SessionType, Kinds, RowStatuses
  <2>2. session' \in [Sessions -> SessionType]
    BY <1>7, <2>1 DEF Tally, TypeOK
  <2> QED
    BY <1>7, <2>2 DEF Tally, TypeOK
<1>8. ASSUME NEW s \in Sessions, ApproveCommit(s)
      PROVE  TypeOK'
  <2>0. session[s].who \in Approvers
    BY <1>8 DEF ApproveCommit, Owned
  <2>1. session' \in [Sessions -> SessionType] /\ overlapped' \in BOOLEAN
    BY <1>8, CloseTypes DEF ApproveCommit
  <2>2. row' \in [Approvers -> RowStatuses]
    BY <1>8 DEF ApproveCommit, TypeOK, RowStatuses
  <2>3. orderStatus' \in OrderStatuses /\ released' \in Nat
    BY <1>8, AdvanceTypes DEF ApproveCommit, TypeOK
  <2>4. votes' \subseteq Approvers
    BY <1>8, <2>0 DEF ApproveCommit, TypeOK
  <2> QED
    BY <1>8, <2>1, <2>2, <2>3, <2>4 DEF ApproveCommit, TypeOK
<1>9. ASSUME NEW s \in Sessions, DeclineCommit(s)
      PROVE  TypeOK'
  <2>1. session' \in [Sessions -> SessionType] /\ overlapped' \in BOOLEAN
    BY <1>9, CloseTypes DEF DeclineCommit
  <2>2. row' \in [Approvers -> RowStatuses]
    BY <1>9 DEF DeclineCommit, TypeOK, RowStatuses
  <2>3. orderStatus' \in OrderStatuses
    BY <1>9 DEF DeclineCommit, TypeOK, OrderStatuses
  <2> QED
    BY <1>9, <2>1, <2>2, <2>3 DEF DeclineCommit, TypeOK
<1>10. ASSUME NEW s \in Sessions, CancelCommit(s)
       PROVE  TypeOK'
  <2>1. session' \in [Sessions -> SessionType] /\ overlapped' \in BOOLEAN
    BY <1>10, CloseTypes DEF CancelCommit
  <2>2. row' \in [Approvers -> RowStatuses]
    BY <1>10 DEF CancelCommit, TypeOK, RowStatuses
  <2>3. orderStatus' \in OrderStatuses
    BY <1>10 DEF CancelCommit, TypeOK, OrderStatuses
  <2> QED
    BY <1>10, <2>1, <2>2, <2>3 DEF CancelCommit, TypeOK
<1>11. ASSUME NEW s \in Sessions, AutoDeclineCommit(s)
       PROVE  TypeOK'
  <2>1. session' \in [Sessions -> SessionType] /\ overlapped' \in BOOLEAN
    BY <1>11, CloseTypes DEF AutoDeclineCommit
  <2>2. row' \in [Approvers -> RowStatuses]
    BY <1>11 DEF AutoDeclineCommit, TypeOK, RowStatuses
  <2>3. orderStatus' \in OrderStatuses
    BY <1>11 DEF AutoDeclineCommit, TypeOK, OrderStatuses
  <2> QED
    BY <1>11, <2>1, <2>2, <2>3 DEF AutoDeclineCommit, TypeOK
<1>12. ASSUME NEW s \in Sessions, EscalateCommit(s)
       PROVE  TypeOK'
  <2>1. session' \in [Sessions -> SessionType] /\ overlapped' \in BOOLEAN
    BY <1>12, CloseTypes DEF EscalateCommit
  <2>2. row' \in [Approvers -> RowStatuses]
    BY <1>12 DEF EscalateCommit, TypeOK, RowStatuses
  <2>3. orderStatus' \in OrderStatuses
    BY <1>12 DEF EscalateCommit, TypeOK, OrderStatuses
  <2> QED
    BY <1>12, <2>1, <2>2, <2>3 DEF EscalateCommit, TypeOK
<1>13. ASSUME NEW s \in Sessions, LeaverCommit(s)
       PROVE  TypeOK'
  <2>1. session' \in [Sessions -> SessionType] /\ overlapped' \in BOOLEAN
    BY <1>13, CloseTypes DEF LeaverCommit
  <2>2. row' \in [Approvers -> RowStatuses]
    BY <1>13 DEF LeaverCommit, TypeOK, RowStatuses
  <2>3. orderStatus' \in OrderStatuses
    BY <1>13 DEF LeaverCommit, TypeOK, OrderStatuses
  <2>4. gone' \subseteq Leavers
    BY <1>13 DEF LeaverCommit, Owned, TypeOK
  <2> QED
    BY <1>13, <2>1, <2>2, <2>3, <2>4 DEF LeaverCommit, TypeOK
<1>14. CASE UNCHANGED vars
  BY <1>14 DEF vars, TypeOK
<1> QED
  BY <1>1, <1>2, <1>3, <1>4, <1>5, <1>6, <1>7, <1>8, <1>9, <1>10, <1>11,
     <1>12, <1>13, <1>14 DEF Next, Commit

(* How a step can change the record of a session.                           *)
LEMMA SessionStep ==
  ASSUME TypeOK, [Next]_vars, NEW t \in Sessions
  PROVE  \/ session'[t] = session[t]
         \/ session'[t] = IdleSession
         \/ Tally(t)
         \/ \E x \in Approvers, kind \in {"approve", "decline"} : DecideRead(t, x, kind)
         \/ \E x \in Approvers : AutoDeclineRead(t, x)
         \/ EscalateRead(t) \/ CancelRead(t)
         \/ \E u \in Leavers : LeaverRead(t, u)
<1>1. ASSUME NEW s \in Sessions, NEW rec, session' = [session EXCEPT ![s] = rec]
      PROVE  session'[t] = session[t] \/ (s = t /\ session'[t] = rec)
  BY <1>1 DEF TypeOK
<1>2. ASSUME NEW s \in Sessions, Close(s)
      PROVE  session'[t] = session[t] \/ session'[t] = IdleSession
  BY <1>1, <1>2 DEF Close
<1>3. ASSUME NEW s \in Sessions, NEW kind, NEW who, NEW seen, NEW r,
             Open(s, kind, who, seen, r)
      PROVE  session'[t] = session[t] \/ s = t
  BY <1>1, <1>3 DEF Open
<1>4. ASSUME NEW s \in Sessions, Tally(s)
      PROVE  session'[t] = session[t] \/ s = t
  BY <1>1, <1>4 DEF Tally
<1>5. CASE Create \/ UNCHANGED vars
  BY <1>5 DEF Create, vars
<1>6. ASSUME NEW s \in Sessions, Commit(s)
      PROVE  session'[t] = session[t] \/ session'[t] = IdleSession \/ Tally(t)
  BY <1>2, <1>4, <1>6
     DEF Commit, ApproveCommit, DeclineCommit, CancelCommit, AutoDeclineCommit,
         EscalateCommit, LeaverCommit
<1>7. ASSUME NEW s \in Sessions, NEW x \in Approvers, NEW kind \in {"approve", "decline"},
             DecideRead(s, x, kind)
      PROVE  session'[t] = session[t] \/ DecideRead(t, x, kind)
  BY <1>3, <1>7 DEF DecideRead
<1>8. ASSUME NEW s \in Sessions, NEW x \in Approvers, AutoDeclineRead(s, x)
      PROVE  session'[t] = session[t] \/ AutoDeclineRead(t, x)
  BY <1>3, <1>8 DEF AutoDeclineRead
<1>9. ASSUME NEW s \in Sessions, EscalateRead(s) \/ CancelRead(s)
      PROVE  session'[t] = session[t] \/ EscalateRead(t) \/ CancelRead(t)
  BY <1>3, <1>9 DEF EscalateRead, CancelRead
<1>10. ASSUME NEW s \in Sessions, NEW u \in Leavers, LeaverRead(s, u)
       PROVE  session'[t] = session[t] \/ LeaverRead(t, u)
  BY <1>3, <1>10 DEF LeaverRead
<1> QED
  BY <1>5, <1>6, <1>7, <1>8, <1>9, <1>10 DEF Next

LEMMA OwnedStep == TypeOK /\ Owned /\ [Next]_vars => Owned'
<1> SUFFICES ASSUME TypeOK, Owned, [Next]_vars, NEW t \in Sessions
             PROVE  /\ session'[t].kind \in {"approve", "tallied", "decline"} =>
                         session'[t].who \in Approvers
                    /\ session'[t].kind = "leaver" => session'[t].who \in Leavers
  BY DEF Owned
<1> DEFINE Fine == /\ session'[t].kind \in {"approve", "tallied", "decline"} =>
                        session'[t].who \in Approvers
                   /\ session'[t].kind = "leaver" => session'[t].who \in Leavers
<1>1. CASE session'[t] = session[t]
  BY <1>1 DEF Owned
<1>2. CASE session'[t] = IdleSession
  BY <1>2 DEF IdleSession
<1>3. CASE Tally(t)
  BY <1>3 DEF Tally, Owned, TypeOK
<1>4. ASSUME NEW kind, NEW who, NEW seen, NEW r, Open(t, kind, who, seen, r)
      PROVE  session'[t].kind = kind /\ session'[t].who = who
  BY <1>4 DEF Open, TypeOK
<1>5. ASSUME NEW x \in Approvers, NEW kind \in {"approve", "decline"}, DecideRead(t, x, kind)
      PROVE  Fine
  BY <1>4, <1>5 DEF DecideRead
<1>6. ASSUME NEW x \in Approvers, AutoDeclineRead(t, x)
      PROVE  Fine
  BY <1>4, <1>6 DEF AutoDeclineRead
<1>7. CASE EscalateRead(t) \/ CancelRead(t)
  BY <1>4, <1>7 DEF EscalateRead, CancelRead
<1>8. ASSUME NEW u \in Leavers, LeaverRead(t, u)
      PROVE  Fine
  BY <1>4, <1>8 DEF LeaverRead
<1> QED
  BY <1>1, <1>2, <1>3, <1>5, <1>6, <1>7, <1>8, SessionStep

(* Every row and every session record is well typed in every reachable      *)
(* state, for every set of approvers, buckets, sessions and thresholds.     *)
THEOREM TypeCorrect == Spec => []TypeOK
<1>1. Init => TypeOK /\ Owned
  <2> SUFFICES ASSUME Init PROVE TypeOK /\ Owned
    OBVIOUS
  <2>1. session \in [Sessions -> SessionType]
    BY IdleType DEF Init
  <2> QED
    BY <2>1, NoRowsType
    DEF Init, TypeOK, Owned, OrderStatuses, SessionType, IdleSession
<1>2. TypeOK /\ Owned /\ [Next]_vars => (TypeOK /\ Owned)'
  BY TypeStep, OwnedStep
<1> QED
  BY <1>1, <1>2, PTL DEF Spec
-----------------------------------------------------------------------------
(* The quorum.                                                              *)

(* A row never disappears, and the approvers of the creation get theirs in  *)
(* the creation.                                                            *)
LEMMA RowsStay ==
  ASSUME TypeOK, Opened, Owned, Kept, [Next]_vars, NEW x \in Approvers
  PROVE  /\ row[x] # "none" => row'[x] # "none"
         /\ orderStatus # "none" /\ x \in Initial /\ row[x] = "none" => row'[x] = "none"
<1> DEFINE Fine == /\ row[x] # "none" => row'[x] # "none"
                   /\ x \in Initial /\ row[x] = "none" => row'[x] = "none"
<1>1. CASE row' = row
  BY <1>1
<1>2. ASSUME Create
      PROVE  row[x] = "none" /\ orderStatus = "none"
  BY <1>2 DEF Create, Opened, NoRows
<1>3. ASSUME NEW s \in Sessions, ApproveCommit(s)
      PROVE  Fine
  <2>1. session[s].who \in Approvers /\ row[session[s].who] # "none"
    BY <1>3 DEF ApproveCommit, Owned, Kept
  <2>2. ASSUME x \in Surplus(session[s].rows, session[s].who)
        PROVE  row[x] # "none"
    BY <2>2 DEF Surplus, Pending, Members, Kept
  <2> QED
    BY <1>3, <2>1, <2>2 DEF ApproveCommit, TypeOK
<1>4. ASSUME NEW s \in Sessions, DeclineCommit(s)
      PROVE  Fine
  BY <1>4 DEF DeclineCommit, Owned, Kept, TypeOK
<1>5. ASSUME NEW s \in Sessions, AutoDeclineCommit(s)
      PROVE  Fine
  BY <1>5 DEF AutoDeclineCommit, TypeOK
<1>6. ASSUME NEW s \in Sessions, EscalateCommit(s)
      PROVE  Fine
  BY <1>6 DEF EscalateCommit, TypeOK, Contacts
<1>7. ASSUME NEW s \in Sessions, LeaverCommit(s)
      PROVE  Fine
  BY <1>7 DEF LeaverCommit, TypeOK, Kept
<1>8. CASE \E s \in Sessions : Tally(s) \/ CancelCommit(s) \/ EscalateRead(s) \/ CancelRead(s)
  BY <1>8, <1>1 DEF Tally, CancelCommit, EscalateRead, CancelRead
<1>9. CASE \E s \in Sessions : \E y \in Approvers :
              (\E kind \in {"approve", "decline"} : DecideRead(s, y, kind)) \/ AutoDeclineRead(s, y)
  BY <1>9, <1>1 DEF DecideRead, AutoDeclineRead
<1>10. CASE \E s \in Sessions : \E u \in Leavers : LeaverRead(s, u)
  BY <1>10, <1>1 DEF LeaverRead
<1>11. CASE UNCHANGED vars
  BY <1>11, <1>1 DEF vars
<1> QED
  BY <1>2, <1>3, <1>4, <1>5, <1>6, <1>7, <1>8, <1>9, <1>10, <1>11 DEF Next, Commit

(* No step takes an order back to before its creation.                      *)
LEMMA OpenedStep ==
  TypeOK /\ Opened /\ [Next]_vars => Opened'
<1> SUFFICES ASSUME TypeOK, Opened, [Next]_vars
             PROVE  Opened'
  OBVIOUS
<1>1. CASE UNCHANGED vars
  BY <1>1 DEF vars, Opened, NoRows
<1>2. CASE Create
  BY <1>2 DEF Create, Advance, Opened
<1>3. ASSUME NEW s \in Sessions, session[s].kind # "idle"
      PROVE  orderStatus # "none"
  BY <1>3 DEF Opened
<1>4. ASSUME NEW s \in Sessions, Commit(s)
      PROVE  orderStatus # "none" /\ orderStatus' # "none"
  <2>1. orderStatus # "none"
    BY <1>3, <1>4 DEF Commit, Tally, ApproveCommit, DeclineCommit, CancelCommit,
         AutoDeclineCommit, EscalateCommit, LeaverCommit
  <2> QED
    BY <2>1, <1>4 DEF Commit, Tally, ApproveCommit, Advance, DeclineCommit,
         CancelCommit, AutoDeclineCommit, EscalateCommit, LeaverCommit
<1>5. ASSUME NEW x \in Approvers, row[x] = "pending"
      PROVE  orderStatus # "none"
  BY <1>5 DEF Opened, NoRows
<1>6. CASE \E s \in Sessions :
             \/ \E x \in Approvers :
                  \/ \E kind \in {"approve", "decline"} : DecideRead(s, x, kind)
                  \/ AutoDeclineRead(s, x)
             \/ EscalateRead(s) \/ CancelRead(s)
             \/ \E u \in Leavers : LeaverRead(s, u)
  BY <1>5, <1>6 DEF DecideRead, AutoDeclineRead, EscalateRead, Pending, CancelRead,
       LeaverRead, Opened
<1> QED
  BY <1>1, <1>2, <1>4, <1>6 DEF Next, Opened

LEMMA KeptStep ==
  ASSUME TypeOK, Opened, Owned, Kept, [Next]_vars
  PROVE  Kept'
<1> SUFFICES ASSUME NEW t \in Sessions
             PROVE  /\ session'[t].kind \in {"approve", "tallied", "decline"} =>
                         row'[session'[t].who] # "none"
                    /\ \A x \in Approvers : session'[t].rows[x] # "none" => row'[x] # "none"
                    /\ session'[t].kind = "tallied" =>
                         \A x \in Initial : row'[x] # "none" => session'[t].rows[x] # "none"
  BY DEF Kept
<1> DEFINE Fine == /\ session'[t].kind \in {"approve", "tallied", "decline"} =>
                        row'[session'[t].who] # "none"
                   /\ \A x \in Approvers : session'[t].rows[x] # "none" => row'[x] # "none"
                   /\ session'[t].kind = "tallied" =>
                        \A x \in Initial : row'[x] # "none" => session'[t].rows[x] # "none"
<1>0. Initial \subseteq Approvers
  BY ApprovalAssumption DEF ApprovalAssumption, Initial
<1>1. CASE session'[t] = session[t]
  <2>1. session[t].kind = "tallied" => orderStatus # "none"
    BY DEF Opened
  <2>2. \A x \in Approvers : row[x] # "none" => row'[x] # "none"
    BY RowsStay
  <2>3. session[t].kind = "tallied" =>
          \A x \in Initial : row[x] = "none" => row'[x] = "none"
    BY <1>0, <2>1, RowsStay
  <2>4. session[t].kind \in {"approve", "tallied", "decline"} =>
          row'[session[t].who] # "none"
    BY <2>2 DEF Owned, Kept
  <2> QED
    BY <1>1, <2>2, <2>3, <2>4 DEF Kept
<1>2. CASE session'[t] = IdleSession
  BY <1>2 DEF IdleSession, NoRows
<1>3. CASE Tally(t)
  <2>1. session'[t] = [session[t] EXCEPT !.kind = "tallied",
                         !.rows = [row EXCEPT ![session[t].who] = "approved"]]
    BY <1>3 DEF Tally, TypeOK
  <2>2. row[session[t].who] # "none" /\ session[t].who \in Approvers
    BY <1>3 DEF Tally, Kept, Owned
  <2>3. session'[t].who = session[t].who /\ row' = row
    BY <1>3, <2>1 DEF Tally, TypeOK
  <2>4. session'[t].rows = [row EXCEPT ![session[t].who] = "approved"]
    BY <2>1 DEF TypeOK
  <2> QED
    BY <1>0, <2>2, <2>3, <2>4 DEF TypeOK
<1>4. ASSUME NEW kind, NEW who, NEW seen, NEW r, Open(t, kind, who, seen, r)
      PROVE  session'[t] = [kind |-> kind, who |-> who, seen |-> seen, rows |-> r]
  BY <1>4 DEF Open, TypeOK
<1>5. ASSUME NEW x \in Approvers, NEW kind \in {"approve", "decline"}, DecideRead(t, x, kind)
      PROVE  Fine
  <2>1. session'[t] = [kind |-> kind, who |-> x, seen |-> orderStatus, rows |-> NoRows]
    BY <1>4, <1>5 DEF DecideRead
  <2>2. row[x] = "pending" /\ row' = row
    BY <1>5 DEF DecideRead
  <2> QED
    BY <2>1, <2>2 DEF NoRows
<1>6. ASSUME NEW x \in Approvers, AutoDeclineRead(t, x)
      PROVE  Fine
  <2>1. session'[t] = [kind |-> "autoDecline", who |-> x, seen |-> "none", rows |-> NoRows]
    BY <1>4, <1>6 DEF AutoDeclineRead
  <2> QED
    BY <2>1 DEF NoRows
<1>7. CASE EscalateRead(t) \/ CancelRead(t)
  <2>1. \/ session'[t] = [kind |-> "escalate", who |-> Nobody, seen |-> "none", rows |-> NoRows]
        \/ session'[t] = [kind |-> "cancel", who |-> Nobody, seen |-> orderStatus, rows |-> NoRows]
    BY <1>4, <1>7 DEF EscalateRead, CancelRead
  <2> QED
    BY <2>1 DEF NoRows
<1>8. ASSUME NEW u \in Leavers, LeaverRead(t, u)
      PROVE  Fine
  <2>1. session'[t] = [kind |-> "leaver", who |-> u,
                       seen |-> IF u = Requester THEN orderStatus ELSE "none",
                       rows |-> [x \in Approvers |-> IF x = u THEN row[x] ELSE "none"]]
    BY <1>4, <1>8 DEF LeaverRead
  <2>2. row' = row
    BY <1>8 DEF LeaverRead
  <2> QED
    BY <2>1, <2>2
<1> QED
  BY <1>1, <1>2, <1>3, <1>5, <1>6, <1>7, <1>8, SessionStep

LEMMA CountedStep ==
  ASSUME TypeOK, Opened, Owned, Counted, [Next]_vars
  PROVE  Counted'
<1>1. orderStatus = "none" \/ votes \subseteq votes'
  BY DEF Next, Commit, vars, Create, DecideRead, AutoDeclineRead, EscalateRead, CancelRead,
     LeaverRead, Tally, ApproveCommit, DeclineCommit, CancelCommit, AutoDeclineCommit,
     EscalateCommit, LeaverCommit
<1>2. ASSUME NEW x \in Approvers, row'[x] = "approved"
      PROVE  x \in votes'
  <2>1. CASE Create
    BY <1>2, <2>1 DEF Create
  <2>2. ASSUME NEW s \in Sessions, ApproveCommit(s)
        PROVE  x \in votes'
    BY <1>2, <2>2 DEF ApproveCommit, Counted, TypeOK
  <2>3. CASE ~Create /\ ~(\E s \in Sessions : ApproveCommit(s))
    BY <1>2, <2>3 DEF Next, Commit, vars, DecideRead, AutoDeclineRead, EscalateRead, CancelRead,
       LeaverRead, Tally, DeclineCommit, CancelCommit, AutoDeclineCommit,
       EscalateCommit, LeaverCommit, Counted, TypeOK
  <2> QED
    BY <2>1, <2>2, <2>3
<1>3. ASSUME NEW t \in Sessions, session'[t].kind = "tallied", NEW x \in Approvers,
             session'[t].rows[x] = "approved"
      PROVE  x \in votes' \cup {session'[t].who}
  <2>1. CASE session'[t] = session[t]
    BY <1>1, <1>3, <2>1 DEF Counted, Opened
  <2>2. CASE Tally(t)
    BY <1>3, <2>2 DEF Tally, TypeOK, Counted
  <2>3. CASE session'[t] = IdleSession
    BY <1>3, <2>3 DEF IdleSession
  <2>4. ASSUME NEW kind, NEW who, NEW seen, NEW r, Open(t, kind, who, seen, r)
        PROVE  session'[t].kind = kind
    BY <2>4 DEF Open, TypeOK
  <2> QED
    BY <1>3, <2>1, <2>2, <2>3, <2>4, SessionStep
    DEF DecideRead, AutoDeclineRead, EscalateRead, CancelRead, LeaverRead
<1> QED
  BY <1>2, <1>3 DEF Counted

(* Only a met quorum releases, and what is required and what was voted do   *)
(* not move against each other afterwards.                                  *)
LEMMA QuorumStep ==
  ASSUME IInv, TypeOK', Counted', [Next]_vars
  PROVE  QuorumBeforeRelease'
<1> USE DEF IInv
<1> SUFFICES ASSUME released' > 0, NEW b \in Buckets
             PROVE  Cardinality({x \in votes' : Bucket[x] = b}) >= Required(row, b)'
  BY DEF QuorumBeforeRelease
<1>1. minimum' = minimum /\ minimum \in Minimums
  BY DEF TypeOK, Next, Commit, vars, Create, DecideRead, AutoDeclineRead, EscalateRead, CancelRead,
     LeaverRead, Tally, ApproveCommit, DeclineCommit, CancelCommit, AutoDeclineCommit,
     EscalateCommit, LeaverCommit
<1> DEFINE asked == Members(row', b) \ Contacts
           voted == {x \in votes' : Bucket[x] = b}
<1>2. Required(row, b)' = IF minimum[b] = 0 \/ minimum[b] >= Cardinality(asked)
                          THEN Cardinality(asked) ELSE minimum[b]
  BY <1>1 DEF Required, Members
<1> DEFINE needed == IF minimum[b] = 0 \/ minimum[b] >= Cardinality(asked)
                     THEN Cardinality(asked) ELSE minimum[b]
<1>3. CASE Create
  <2>1. PICK chosen \in Asked : \E auto \in SUBSET (chosen \cap {Manager}) :
          LET q == [x \in Approvers |-> IF x \in auto THEN "approved"
                                        ELSE IF x \in chosen THEN "pending"
                                        ELSE "none"]
          IN /\ votes' = auto
             /\ \/ UNCHANGED released
                \/ AllMet(q) /\ row' = [x \in Approvers |-> IF q[x] = "pending"
                                                            THEN "superseded" ELSE q[x]]
    BY <1>3 DEF Create
  <2>2. PICK auto \in SUBSET (chosen \cap {Manager}) :
          LET q == [x \in Approvers |-> IF x \in auto THEN "approved"
                                        ELSE IF x \in chosen THEN "pending"
                                        ELSE "none"]
          IN /\ votes' = auto
             /\ \/ UNCHANGED released
                \/ AllMet(q) /\ row' = [x \in Approvers |-> IF q[x] = "pending"
                                                            THEN "superseded" ELSE q[x]]
    BY <2>1
  <2> DEFINE q == [x \in Approvers |-> IF x \in auto THEN "approved"
                                       ELSE IF x \in chosen THEN "pending"
                                       ELSE "none"]
  <2>3. released = 0
    BY <1>3 DEF Create, Opened
  <2>4. AllMet(q) /\ row' = [x \in Approvers |-> IF q[x] = "pending"
                                                 THEN "superseded" ELSE q[x]]
    BY <2>2, <2>3
  <2>5. Met(q, b)
    BY <2>4 DEF AllMet
  <2>6. voted \subseteq Approvers /\ Approved(q, b) \subseteq voted
    BY <2>2 DEF Approved, Members, TypeOK
  <2>7. asked \subseteq Members(q, b)
    BY <2>4 DEF Members
  <2> QED
    <3> HIDE DEF asked, voted, q
    <3>1. Cardinality(voted) >= needed
      BY <1>1, <2>5, <2>6, <2>7, MetIsEnough
    <3> QED
      BY <3>1, <1>2 DEF voted
<1>4. ASSUME NEW s \in Sessions, ApproveCommit(s), released' # released
      PROVE  Cardinality(voted) >= needed
  <2> DEFINE r == session[s].rows
  <2>1. session[s].kind = "tallied" /\ AllMet(r) /\ votes' = votes \cup {session[s].who}
    BY <1>4 DEF ApproveCommit
  <2>2. Met(r, b)
    BY <2>1 DEF AllMet
  <2>3. voted \subseteq Approvers /\ Approved(r, b) \subseteq voted
    BY <2>1 DEF Approved, Members, TypeOK, Counted
  <2>4. orderStatus # "none"
    BY <2>1 DEF Opened
  <2>5. ASSUME NEW x \in Initial, x \in Approvers, row'[x] # "none"
        PROVE  r[x] # "none"
    BY <2>1, <2>4, <2>5, RowsStay DEF Kept
  <2>6. asked \subseteq Members(r, b)
    BY <2>5 DEF Members, Contacts
  <2> HIDE DEF asked, voted, r
  <2> QED
    BY <1>1, <2>2, <2>3, <2>6, MetIsEnough
<1>5. CASE released' = released
  <2>1. orderStatus # "none"
    BY <1>5 DEF Opened
  <2>2. votes \subseteq votes' /\ votes' \subseteq Approvers
    BY <2>1 DEF TypeOK, Next, Commit, vars, Create, DecideRead, AutoDeclineRead, EscalateRead,
       CancelRead, LeaverRead, Tally, ApproveCommit, DeclineCommit, CancelCommit,
       AutoDeclineCommit, EscalateCommit, LeaverCommit
  <2>3. asked = Members(row, b) \ Contacts
    BY <2>1, RowsStay DEF Members, Contacts
  <2>4. needed = Required(row, b)
    BY <2>3 DEF Required
  <2>5. Cardinality({x \in votes : Bucket[x] = b}) >= Required(row, b)
    BY <1>5 DEF QuorumBeforeRelease
  <2> DEFINE old == {x \in votes : Bucket[x] = b}
             new == voted
  <2>6. IsFiniteSet(new) /\ IsFiniteSet(old) /\ Cardinality(old) <= Cardinality(new)
    <3>1. IsFiniteSet(new)
      BY <2>2, ApprovalAssumption, FS_Subset DEF ApprovalAssumption
    <3> QED
      BY <3>1, <2>2, FS_Subset
  <2>7. /\ Cardinality(old) \in Nat /\ Cardinality(new) \in Nat
        /\ Required(row, b) \in Nat
    <3>1. IsFiniteSet(Members(row, b) \ Contacts)
      BY ApprovalAssumption, FS_Subset DEF ApprovalAssumption, Members
    <3> QED
      BY <3>1, <1>1, <2>6, FS_CardinalityType, ApprovalAssumption
      DEF Required, ApprovalAssumption
  <2> HIDE DEF old, new
  <2>8. Cardinality(new) >= needed
    BY <2>4, <2>5, <2>6, <2>7 DEF old
  <2> QED
    BY <1>2, <2>8 DEF new
<1>6. released' = released \/ Create \/ \E s \in Sessions : ApproveCommit(s)
  BY DEF Next, Commit, vars, DecideRead, AutoDeclineRead, EscalateRead, CancelRead,
     LeaverRead, Tally, DeclineCommit, CancelCommit, AutoDeclineCommit,
     EscalateCommit, LeaverCommit
<1> QED
  BY <1>2, <1>3, <1>4, <1>5, <1>6

(* An order that was released, by whatever sequence of overlapping          *)
(* decisions, escalations, supersessions, cancellations and leavers, had as *)
(* many approvals in every bucket as its creation required: for every set   *)
(* of approvers, every rule and every number of concurrent requests.        *)
THEOREM QuorumCorrect == Spec => []QuorumBeforeRelease
<1>1. Init => IInv
  <2> SUFFICES ASSUME Init PROVE IInv
    OBVIOUS
  <2>1. TypeOK /\ Owned
    <3>1. session \in [Sessions -> SessionType]
      BY IdleType DEF Init
    <3> QED
      BY <3>1, NoRowsType
      DEF Init, TypeOK, Owned, OrderStatuses, SessionType, IdleSession
  <2>2. Opened /\ Kept /\ Counted
    BY DEF Init, Opened, Kept, Counted, IdleSession, NoRows
  <2>3. QuorumBeforeRelease
    BY DEF Init, QuorumBeforeRelease
  <2> QED
    BY <2>1, <2>2, <2>3 DEF IInv
<1>2. IInv /\ [Next]_vars => IInv'
  <2> SUFFICES ASSUME IInv, [Next]_vars PROVE IInv'
    OBVIOUS
  <2>1. TypeOK' /\ Owned' /\ Opened' /\ Kept' /\ Counted'
    BY TypeStep, OwnedStep, OpenedStep, KeptStep, CountedStep DEF IInv
  <2>2. QuorumBeforeRelease'
    BY <2>1, QuorumStep
  <2> QED
    BY <2>1, <2>2 DEF IInv
<1>3. IInv => QuorumBeforeRelease
  BY DEF IInv
<1> QED
  BY <1>1, <1>2, <1>3, PTL DEF Spec
-----------------------------------------------------------------------------
(* One request at a time.                                                   *)

(* While no two requests have overlapped, at most one is at work, and its   *)
(* tally is the table's.                                                    *)
Alone == ~overlapped => \A s, t \in Sessions : s = t \/ Idle(s) \/ Idle(t)

Current ==
  ~overlapped =>
    \A s \in Sessions :
      session[s].kind = "tallied" =>
        session[s].rows = [row EXCEPT ![session[s].who] = "approved"]

(* Then a released order has nobody left to ask, and no request that would  *)
(* count again or ask somebody else.                                        *)
Finished ==
  ~overlapped /\ released > 0 =>
    /\ released = 1 /\ Pending(row) = {}
    /\ \A s \in Sessions : session[s].kind \notin {"approve", "tallied", "escalate"}

OneInv == TypeOK /\ Owned /\ Opened /\ Alone /\ Current /\ Finished

LEMMA AloneStep == TypeOK /\ Alone /\ [Next]_vars => Alone'
<1> SUFFICES ASSUME TypeOK, Alone, [Next]_vars, ~overlapped',
                    NEW s \in Sessions, NEW t \in Sessions, s # t
             PROVE  Idle(s)' \/ Idle(t)'
  BY DEF Alone
<1>1. ASSUME NEW q \in Sessions, NEW kind, NEW who, NEW seen, NEW r, Open(q, kind, who, seen, r)
      PROVE  Idle(s)' \/ Idle(t)'
  BY <1>1 DEF Open, AllIdle, Idle, TypeOK
<1>2. ASSUME NEW q \in Sessions, Close(q)
      PROVE  Idle(s)' \/ Idle(t)'
  BY <1>2 DEF Close, Idle, TypeOK, Alone
<1>3. ASSUME NEW q \in Sessions, Tally(q)
      PROVE  Idle(s)' \/ Idle(t)'
  <2>1. session[q] # IdleSession /\ ~overlapped
    BY <1>3 DEF Tally, IdleSession
  <2>2. \A p \in Sessions : p # q => Idle(p) /\ Idle(p)'
    BY <1>3, <2>1 DEF Tally, Idle, TypeOK, Alone
  <2> QED
    BY <2>2
<1>4. CASE Create \/ UNCHANGED vars
  BY <1>4 DEF Create, vars, Alone, Idle
<1> QED
  BY <1>1, <1>2, <1>3, <1>4
  DEF Next, Commit, DecideRead, AutoDeclineRead, EscalateRead, CancelRead, LeaverRead,
      ApproveCommit, DeclineCommit, CancelCommit, AutoDeclineCommit, EscalateCommit, LeaverCommit

(* A commit that is not overlapped leaves everybody idle.                   *)
LEMMA ClosesLast ==
  ASSUME TypeOK, Alone, ~overlapped, NEW s \in Sessions, session[s].kind # "idle", Close(s)
  PROVE  \A t \in Sessions : session'[t] = IdleSession
BY DEF Close, Alone, Idle, IdleSession, TypeOK

LEMMA Overlap == [Next]_vars /\ overlapped => overlapped'
BY DEF Next, Commit, vars, Create, Open, Close, DecideRead, AutoDeclineRead, EscalateRead,
   CancelRead, LeaverRead, Tally, ApproveCommit, DeclineCommit, CancelCommit, AutoDeclineCommit,
   EscalateCommit, LeaverCommit

(* Only a commit and the creation write rows.                               *)
LEMMA RowsWritten ==
  ASSUME TypeOK, Opened, Alone, ~overlapped', [Next]_vars, row' # row
  PROVE  \A t \in Sessions : session'[t].kind = "idle"
<1>1. ~overlapped
  BY Overlap
<1>2. CASE Create
  BY <1>2 DEF Create, Opened
<1>3. ASSUME NEW s \in Sessions, Close(s), session[s].kind # "idle"
      PROVE  \A t \in Sessions : session'[t].kind = "idle"
  BY <1>1, <1>3, ClosesLast DEF IdleSession
<1> QED
  BY <1>2, <1>3
  DEF Next, Commit, vars, DecideRead, AutoDeclineRead, EscalateRead, CancelRead, LeaverRead, Tally,
      ApproveCommit, DeclineCommit, CancelCommit, AutoDeclineCommit, EscalateCommit, LeaverCommit

LEMMA CurrentStep == TypeOK /\ Owned /\ Opened /\ Alone /\ Current /\ [Next]_vars => Current'
<1> SUFFICES ASSUME TypeOK, Owned, Opened, Alone, Current, [Next]_vars, ~overlapped',
                    NEW t \in Sessions, session'[t].kind = "tallied"
             PROVE  session'[t].rows = [row' EXCEPT ![session'[t].who] = "approved"]
  BY DEF Current
<1>1. row' = row /\ ~overlapped
  BY RowsWritten, Overlap
<1>2. CASE session'[t] = session[t]
  BY <1>1, <1>2 DEF Current
<1>3. CASE session'[t] = IdleSession
  BY <1>3 DEF IdleSession
<1>4. CASE Tally(t)
  BY <1>1, <1>4 DEF Tally, TypeOK
<1>5. ASSUME NEW kind, NEW who, NEW seen, NEW r, Open(t, kind, who, seen, r)
      PROVE  session'[t].kind = kind
  BY <1>5 DEF Open, TypeOK
<1> QED
  BY <1>2, <1>3, <1>4, <1>5, SessionStep
  DEF DecideRead, AutoDeclineRead, EscalateRead, CancelRead, LeaverRead

(* The release leaves no pending row behind, and so it stays.               *)
LEMMA FinishedStep == OneInv /\ [Next]_vars => Finished'
<1> SUFFICES ASSUME OneInv, [Next]_vars, ~overlapped', released' > 0
             PROVE  /\ released' = 1 /\ Pending(row)' = {}
                    /\ \A s \in Sessions :
                         session'[s].kind \notin {"approve", "tallied", "escalate"}
  BY DEF Finished
<1> USE DEF OneInv
<1>1. ~overlapped
  BY Overlap
<1>2. CASE Create
  <2>1. released = 0 /\ \A s \in Sessions : session'[s].kind = "idle"
    BY <1>2 DEF Create, Opened
  <2>2. Pending(row)' = {} /\ released' = released + 1
    BY <1>2, <2>1 DEF Create, Advance, Pending
  <2> QED
    BY <2>1, <2>2
<1>3. ASSUME NEW s \in Sessions, ApproveCommit(s)
      PROVE  /\ released' = 1 /\ Pending(row)' = {}
             /\ \A t \in Sessions : session'[t].kind \notin {"approve", "tallied", "escalate"}
  <2> DEFINE r == session[s]
  <2>1. r.kind = "tallied" /\ r.who \in Approvers
    BY <1>3 DEF ApproveCommit, Owned
  <2>2. released = 0
    BY <1>1, <2>1 DEF Finished, TypeOK
  <2>3. AllMet(r.rows) /\ released' = 1
    BY <1>3, <2>2 DEF ApproveCommit, Advance
  <2>4. r.rows = [row EXCEPT ![r.who] = "approved"]
    BY <1>1, <2>1 DEF Current
  <2>5. \A x \in Approvers : row'[x] # "pending"
    BY <1>3, <2>1, <2>3, <2>4 DEF ApproveCommit, Surplus, Pending, TypeOK
  <2>6. \A t \in Sessions : session'[t] = IdleSession
    BY <1>1, <1>3, <2>1, ClosesLast DEF ApproveCommit
  <2> QED
    BY <2>3, <2>5, <2>6 DEF Pending, IdleSession
<1>4. CASE ~Create /\ ~(\E s \in Sessions : ApproveCommit(s))
  <2>1. released' = released
    BY <1>4 DEF Next, Commit, vars, DecideRead, AutoDeclineRead, EscalateRead, CancelRead,
       LeaverRead, Tally, DeclineCommit, CancelCommit, AutoDeclineCommit, EscalateCommit, LeaverCommit
  <2>2. /\ released = 1 /\ Pending(row) = {}
        /\ \A s \in Sessions : session[s].kind \notin {"approve", "tallied", "escalate"}
    BY <1>1, <2>1 DEF Finished
  <2>3. \A x \in Approvers : row[x] # "pending"
    BY <2>2 DEF Pending
  <2>4. \A x \in Approvers : row'[x] # "pending"
    BY <1>4, <2>2, <2>3 DEF Next, Commit, vars, DecideRead, AutoDeclineRead, EscalateRead, CancelRead,
       LeaverRead, Tally, DeclineCommit, CancelCommit, AutoDeclineCommit, EscalateCommit, LeaverCommit,
       TypeOK
  <2>5. ASSUME NEW t \in Sessions
        PROVE  session'[t].kind \notin {"approve", "tallied", "escalate"}
    <3>1. session'[t] = session[t] \/ session'[t] = IdleSession
          \/ \E kind \in {"autoDecline", "cancel", "leaver"} : \E who, seen, r : Open(t, kind, who, seen, r)
      BY <2>2, <2>3, SessionStep DEF Tally, DecideRead, AutoDeclineRead, EscalateRead, CancelRead,
         LeaverRead, Pending
    <3>2. ASSUME NEW kind \in {"autoDecline", "cancel", "leaver"}, NEW who, NEW seen, NEW r,
                 Open(t, kind, who, seen, r)
          PROVE  session'[t].kind = kind
      BY <3>2 DEF Open, TypeOK
    <3> QED
      BY <2>2, <3>1, <3>2 DEF IdleSession
  <2> QED
    BY <2>1, <2>2, <2>4, <2>5 DEF Pending
<1> QED
  BY <1>2, <1>3, <1>4

LEMMA OneInvInit == Init => OneInv
<1> SUFFICES ASSUME Init PROVE OneInv
  OBVIOUS
<1>1. TypeOK /\ Owned
  <2>1. session \in [Sessions -> SessionType]
    BY IdleType DEF Init
  <2> QED
    BY <2>1, NoRowsType
    DEF Init, TypeOK, Owned, OrderStatuses, SessionType, IdleSession
<1> QED
  BY <1>1 DEF Init, OneInv, Opened, Alone, Idle, Current, Finished, IdleSession

LEMMA OneInvStep == OneInv /\ [Next]_vars => OneInv'
<1> SUFFICES ASSUME OneInv, [Next]_vars PROVE OneInv'
  OBVIOUS
<1>1. TypeOK' /\ Owned' /\ Opened'
  BY TypeStep, OwnedStep, OpenedStep DEF OneInv
<1> QED
  BY <1>1, AloneStep, CurrentStep, FinishedStep DEF OneInv

(* An order leaves the approval gate once, as long as no two requests       *)
(* overlap: for every set of approvers, every rule and threshold, and every *)
(* sequence of decisions, jobs, leavers and cancellations.                  *)
THEOREM OnceCorrect == Spec => []ReleasedOnce
<1>1. OneInv => ReleasedOnce
  BY DEF OneInv, Finished, ReleasedOnce, TypeOK
<1> QED
  BY <1>1, OneInvInit, OneInvStep, PTL DEF Spec
-----------------------------------------------------------------------------
(* Somebody left to ask.                                                    *)

(* What a session has seen of an order that is beyond its gate is still so. *)
Passed ==
  \A s \in Sessions :
    /\ session[s].seen \notin {"none", "pending_approval"} => orderStatus # "pending_approval"
    /\ session[s].kind = "idle" => session[s].seen = "none"

(* A bucket is whole, or has the approvals its own number asks for: a row   *)
(* is superseded in a bucket that is met by a part of its members only, and *)
(* members that are added later do not change the number.                   *)
WholeOrMet(r, b) ==
  \/ \A x \in Members(r, b) : r[x] # "superseded"
  \/ minimum[b] > 0 /\ Cardinality(Approved(r, b)) >= minimum[b]

Waits ==
  ~overlapped /\ gone \cap Approvers = {} /\ orderStatus = "pending_approval" =>
    /\ ~AllMet(row)
    /\ \A x \in Approvers : row[x] # "declined"
    /\ \A b \in Buckets : WholeOrMet(row, b)

(* The rows of a bucket are finitely many, and thresholds are numbers.      *)
LEMMA BucketNumbers ==
  ASSUME minimum \in Minimums, NEW r, NEW b \in Buckets
  PROVE  /\ IsFiniteSet(Members(r, b)) /\ IsFiniteSet(Approved(r, b))
         /\ Cardinality(Members(r, b)) \in Nat /\ Cardinality(Approved(r, b)) \in Nat
         /\ Cardinality(Approved(r, b)) <= Cardinality(Members(r, b))
         /\ minimum[b] \in Nat
<1>1. IsFiniteSet(Members(r, b)) /\ Approved(r, b) \subseteq Members(r, b)
  BY ApprovalAssumption, FS_Subset DEF ApprovalAssumption, Members, Approved
<1>2. IsFiniteSet(Approved(r, b)) /\ Cardinality(Approved(r, b)) <= Cardinality(Members(r, b))
  BY <1>1, FS_Subset
<1>3. minimum[b] \in Nat
  BY ApprovalAssumption DEF ApprovalAssumption
<1> QED
  BY <1>1, <1>2, <1>3, FS_CardinalityType

(* What is met by all its members has no superseded one.                    *)
LEMMA MetIsWholeOrMet ==
  ASSUME minimum \in Minimums, NEW r, NEW b \in Buckets, Met(r, b)
  PROVE  \/ Approved(r, b) = Members(r, b)
         \/ minimum[b] > 0 /\ Cardinality(Approved(r, b)) >= minimum[b]
<1>1. CASE minimum[b] = 0 \/ minimum[b] >= Cardinality(Members(r, b))
  <2>1. Cardinality(Approved(r, b)) >= Cardinality(Members(r, b))
    BY <1>1 DEF Met, Threshold
  <2>2. Cardinality(Approved(r, b)) = Cardinality(Members(r, b))
    BY <2>1, BucketNumbers
  <2>3. Approved(r, b) \in SUBSET Members(r, b)
    BY DEF Approved
  <2> QED
    BY <2>2, <2>3, BucketNumbers, FS_Subset
<1>2. CASE ~(minimum[b] = 0 \/ minimum[b] >= Cardinality(Members(r, b)))
  BY <1>2, BucketNumbers DEF Met, Threshold
<1> QED
  BY <1>1, <1>2

(* A bucket that grows and gets no approval is not met by that.             *)
LEMMA GrownIsNotMet ==
  ASSUME minimum \in Minimums, NEW r, NEW q, NEW b \in Buckets, ~Met(r, b),
         Approved(q, b) = Approved(r, b), Members(r, b) \subseteq Members(q, b)
  PROVE  ~Met(q, b)
<1> DEFINE old == Cardinality(Members(r, b))
           new == Cardinality(Members(q, b))
           yes == Cardinality(Approved(r, b))
<1>1. old <= new
  BY BucketNumbers, FS_Subset
<1>2. old \in Nat /\ new \in Nat /\ yes \in Nat /\ minimum[b] \in Nat
  BY BucketNumbers
<1>3. ~(yes >= IF minimum[b] = 0 \/ minimum[b] >= old THEN old ELSE minimum[b])
  BY DEF Met, Threshold
<1>4. Met(q, b) <=> yes >= IF minimum[b] = 0 \/ minimum[b] >= new THEN new ELSE minimum[b]
  BY DEF Met, Threshold
<1> HIDE DEF old, new, yes
<1> QED
  BY <1>1, <1>2, <1>3, <1>4

(* One more approval of a bucket keeps it.                                  *)
LEMMA MoreApprovals ==
  ASSUME minimum \in Minimums, NEW r, NEW q, NEW b \in Buckets,
         Approved(r, b) \subseteq Approved(q, b),
         \A x \in Members(q, b) : q[x] = "superseded" => x \in Members(r, b) /\ r[x] = "superseded",
         WholeOrMet(r, b)
  PROVE  WholeOrMet(q, b)
<1>1. CASE \A x \in Members(r, b) : r[x] # "superseded"
  BY <1>1 DEF WholeOrMet
<1>2. CASE minimum[b] > 0 /\ Cardinality(Approved(r, b)) >= minimum[b]
  <2>1. Cardinality(Approved(r, b)) <= Cardinality(Approved(q, b))
    BY BucketNumbers, FS_Subset
  <2>2. Cardinality(Approved(q, b)) >= minimum[b]
    BY <1>2, <2>1, BucketNumbers
  <2> QED
    BY <1>2, <2>2 DEF WholeOrMet
<1> QED
  BY <1>1, <1>2 DEF WholeOrMet

LEMMA PassedStep == TypeOK /\ Opened /\ Passed /\ [Next]_vars => Passed'
<1> SUFFICES ASSUME TypeOK, Opened, Passed, [Next]_vars, NEW t \in Sessions
             PROVE  /\ session'[t].seen \notin {"none", "pending_approval"}
                         => orderStatus' # "pending_approval"
                    /\ session'[t].kind = "idle" => session'[t].seen = "none"
  BY DEF Passed
<1>1. CASE Create
  BY <1>1 DEF Create, Opened, Passed
<1>2. ASSUME NEW kind, NEW who, NEW seen \in {"none", orderStatus}, NEW r,
             Open(t, kind, who, seen, r), kind # "idle"
      PROVE  session'[t].kind # "idle" /\ session'[t].seen \in {"none", orderStatus}
  BY <1>2 DEF Open, TypeOK
<1>3. \/ session'[t].kind = session[t].kind /\ session'[t].seen = session[t].seen
      \/ session'[t].seen = "none"
      \/ session'[t].kind # "idle" /\ session'[t].seen \in {"none", orderStatus, session[t].seen}
  <2>1. CASE session'[t] = session[t] \/ session'[t] = IdleSession
    BY <2>1 DEF IdleSession
  <2>2. CASE Tally(t)
    BY <2>2 DEF Tally, TypeOK
  <2> QED
    BY <1>2, <2>1, <2>2, SessionStep
    DEF DecideRead, AutoDeclineRead, EscalateRead, CancelRead, LeaverRead
<1>4. CASE orderStatus # "pending_approval" /\ ~Create
  <2>1. orderStatus' # "pending_approval"
    BY <1>4 DEF Next, Commit, vars, DecideRead, AutoDeclineRead, EscalateRead, CancelRead,
       LeaverRead, Tally, ApproveCommit, Advance, DeclineCommit, CancelCommit, AutoDeclineCommit,
       EscalateCommit, LeaverCommit
  <2> QED
    BY <1>3, <2>1 DEF Passed
<1>5. CASE orderStatus = "pending_approval"
  BY <1>3, <1>5 DEF Passed
<1> QED
  BY <1>1, <1>4, <1>5

(* An order that waits after a step waited before it, or was created by it. *)
LEMMA StillWaiting ==
  ASSUME TypeOK, Opened, Passed, [Next]_vars, ~Create, orderStatus' = "pending_approval"
  PROVE  /\ orderStatus = "pending_approval"
         /\ \/ row' = row
            \/ \E s \in Sessions : \/ ApproveCommit(s) /\ ~AllMet(session[s].rows)
                                   \/ EscalateCommit(s) \/ LeaverCommit(s)
<1>1. orderStatus = "pending_approval"
  BY DEF Next, Commit, vars, DecideRead, AutoDeclineRead, EscalateRead, CancelRead,
     LeaverRead, Tally, ApproveCommit, Advance, DeclineCommit, CancelCommit, AutoDeclineCommit,
     EscalateCommit, LeaverCommit
<1>2. ASSUME NEW s \in Sessions, ApproveCommit(s)
      PROVE  ~AllMet(session[s].rows)
  BY <1>1, <1>2 DEF ApproveCommit, Advance, Passed
<1>3. ASSUME NEW s \in Sessions, DeclineCommit(s) \/ CancelCommit(s) \/ AutoDeclineCommit(s)
      PROVE  FALSE
  BY <1>1, <1>3 DEF DeclineCommit, CancelCommit, AutoDeclineCommit, Passed
<1>4. CASE UNCHANGED vars
  BY <1>1, <1>4 DEF vars
<1> QED
  BY <1>1, <1>2, <1>3, <1>4
  DEF Next, Commit, DecideRead, AutoDeclineRead, EscalateRead, CancelRead, LeaverRead, Tally

(* The creation leaves an order waiting only when it is not met.            *)
LEMMA CreateWaits == TypeOK /\ Create => Waits'
<1> SUFFICES ASSUME TypeOK, Create, orderStatus' = "pending_approval"
             PROVE  /\ ~AllMet(row)'
                    /\ \A x \in Approvers : row'[x] \notin {"declined", "superseded"}
  BY DEF Waits, WholeOrMet, Members
<1>1. PICK asked \in Asked, auto \in SUBSET Approvers :
        LET r == [x \in Approvers |-> IF x \in auto THEN "approved"
                                     ELSE IF x \in asked THEN "pending" ELSE "none"]
        IN  ~AllMet(r) /\ row' = r
  BY ApprovalAssumption DEF Create, Advance, ApprovalAssumption
<1>2. \A x \in Approvers : row'[x] \in {"approved", "pending", "none"}
  BY <1>1
<1>3. minimum' = minimum
  BY DEF Create
<1> QED
  BY <1>1, <1>2, <1>3 DEF AllMet, Met, Threshold, Members, Approved

(* An approval that does not release: what it closes in its own bucket is   *)
(* met, and nothing else changes.                                           *)
LEMMA ApproveWaits ==
  ASSUME TypeOK, Owned, Alone, Current, Waits, ~overlapped, gone \cap Approvers = {},
         orderStatus = "pending_approval",
         NEW s \in Sessions, ApproveCommit(s), ~AllMet(session[s].rows)
  PROVE  /\ ~AllMet(row')
         /\ \A x \in Approvers : row'[x] # "declined"
         /\ \A b \in Buckets : WholeOrMet(row', b)
<1> DEFINE r == session[s].rows
           who == session[s].who
<1>1. who \in Approvers /\ r = [row EXCEPT ![who] = "approved"]
  BY DEF ApproveCommit, Owned, Current
<1>2. /\ ~AllMet(row) /\ \A x \in Approvers : row[x] # "declined"
      /\ \A b \in Buckets : WholeOrMet(row, b)
  BY DEF Waits
<1>3. row' = [x \in Approvers |-> IF x = who THEN "approved"
                                 ELSE IF x \in Surplus(r, who) THEN "superseded" ELSE row[x]]
  BY DEF ApproveCommit
<1>4. Surplus(r, who) = IF Met(r, Bucket[who]) THEN Pending(r) \cap Members(r, Bucket[who]) ELSE {}
  BY DEF Surplus
<1>5. /\ r \in [Approvers -> RowStatuses] /\ r[who] = "approved"
      /\ \A x \in Approvers : r[x] = IF x = who THEN "approved" ELSE row[x]
  BY <1>1 DEF TypeOK, RowStatuses
<1>6. \A x \in Approvers : row'[x] = IF x \in Surplus(r, who) THEN "superseded" ELSE r[x]
  BY <1>3, <1>4, <1>5 DEF Pending
<1>7. \A x \in Surplus(r, who) : r[x] = "pending" /\ Bucket[x] = Bucket[who] /\ Met(r, Bucket[who])
  BY <1>4 DEF Pending, Members
<1> HIDE DEF r, who
<1>8. ASSUME NEW b \in Buckets
      PROVE  Members(row', b) = Members(r, b) /\ Approved(row', b) = Approved(r, b)
  <2>1. Members(row', b) = Members(r, b)
    BY <1>6, <1>7 DEF Members
  <2> QED
    BY <1>6, <1>7, <2>1 DEF Approved, Members
<1>9. ~AllMet(row')
  BY <1>8 DEF AllMet, Met, Threshold, r
<1>10. ASSUME NEW b \in Buckets
       PROVE  WholeOrMet(row', b)
  <2>1. WholeOrMet(row, b) /\ minimum \in Minimums
    BY <1>2 DEF TypeOK
  <2>2. CASE b = Bucket[who] /\ Met(r, b)
    <3>1. CASE Approved(r, b) = Members(r, b)
      <4>1. \A x \in Members(row', b) : row'[x] = "approved"
        BY <1>8, <3>1 DEF Approved
      <4> QED
        BY <4>1 DEF WholeOrMet
    <3> QED
      BY <1>8, <2>1, <2>2, <3>1, MetIsWholeOrMet DEF WholeOrMet
  <2>3. CASE ~(b = Bucket[who] /\ Met(r, b))
    <3>1. Approved(row, b) \subseteq Approved(r, b)
      BY <1>5 DEF Approved, Members
    <3>2. \A x \in Members(row', b) :
            row'[x] = "superseded" => x \in Members(row, b) /\ row[x] = "superseded"
      BY <1>5, <1>6, <1>7, <2>3 DEF Members
    <3> QED
      BY <1>8, <2>1, <3>1, <3>2, MoreApprovals
  <2> QED
    BY <2>2, <2>3
<1>11. \A x \in Approvers : row'[x] # "declined"
  BY <1>2, <1>5, <1>6
<1> QED
  BY <1>9, <1>10, <1>11

(* Contacts that are added to the order are more to ask.                    *)
LEMMA EscalateWaits ==
  ASSUME TypeOK, Waits, ~overlapped, gone \cap Approvers = {},
         orderStatus = "pending_approval", NEW s \in Sessions, EscalateCommit(s)
  PROVE  /\ ~AllMet(row')
         /\ \A x \in Approvers : row'[x] # "declined"
         /\ \A b \in Buckets : WholeOrMet(row', b)
<1>1. /\ ~AllMet(row) /\ \A x \in Approvers : row[x] # "declined"
      /\ \A b \in Buckets : WholeOrMet(row, b)
  BY DEF Waits
<1>2. \A x \in Approvers : row'[x] = row[x] \/ (row[x] = "none" /\ row'[x] = "pending")
  BY DEF EscalateCommit
<1>3. minimum \in Minimums
  BY DEF TypeOK
<1>4. ASSUME NEW b \in Buckets
      PROVE  Approved(row', b) = Approved(row, b) /\ Members(row, b) \subseteq Members(row', b)
  BY <1>2 DEF Approved, Members
<1>5. ASSUME NEW b \in Buckets
      PROVE  WholeOrMet(row', b)
  <2>1. \A x \in Members(row', b) :
          row'[x] = "superseded" => x \in Members(row, b) /\ row[x] = "superseded"
    BY <1>2 DEF Members
  <2> QED
    BY <1>1, <1>3, <1>4, <2>1, MoreApprovals
<1>6. ~AllMet(row')
  BY <1>1, <1>3, <1>4, GrownIsNotMet DEF AllMet
<1> QED
  BY <1>1, <1>2, <1>5, <1>6

DecideInv == OneInv /\ Passed /\ Waits

LEMMA WaitsStep == DecideInv /\ [Next]_vars => Waits'
<1> SUFFICES ASSUME DecideInv, [Next]_vars, ~overlapped', gone' \cap Approvers = {},
                    orderStatus' = "pending_approval", ~Create
             PROVE  Waits'
  BY CreateWaits DEF DecideInv, OneInv, Waits
<1> USE DEF DecideInv, OneInv
<1>1. ~overlapped /\ orderStatus = "pending_approval"
  BY Overlap, StillWaiting
<1>2. minimum' = minimum /\ gone \subseteq gone'
  BY DEF Next, Commit, vars, DecideRead, AutoDeclineRead, EscalateRead, CancelRead,
     LeaverRead, Tally, ApproveCommit, DeclineCommit, CancelCommit, AutoDeclineCommit,
     EscalateCommit, LeaverCommit
<1>3. gone \cap Approvers = {}
  BY <1>2
<1>4. ASSUME row' = row
      PROVE  Waits'
  BY <1>1, <1>2, <1>3, <1>4
  DEF Waits, AllMet, Met, Threshold, WholeOrMet, Approved, Members
<1>5. ASSUME NEW s \in Sessions, LeaverCommit(s)
      PROVE  row' = row
  <2>1. session[s].who \notin Approvers
    BY <1>5 DEF LeaverCommit
  <2> QED
    BY <1>5, <2>1 DEF LeaverCommit, TypeOK
<1>6. ASSUME /\ ~AllMet(row')
             /\ \A x \in Approvers : row'[x] # "declined"
             /\ \A b \in Buckets : WholeOrMet(row', b)
      PROVE  Waits'
  BY <1>2, <1>6 DEF Waits, AllMet, Met, Threshold, WholeOrMet, Approved, Members
<1> QED
  BY <1>1, <1>3, <1>4, <1>5, <1>6, StillWaiting, ApproveWaits, EscalateWaits

(* An order that waits for approvals waits for somebody, as long as no two  *)
(* requests overlap and no approver leaves: it is not met yet, and in every *)
(* bucket those who are still asked are enough.  For every set of approvers *)
(* and rules, and also when a minimum asks for more than there are.         *)
THEOREM DecidableCorrect == Spec => []StillDecidable
<1>1. Init => DecideInv
  <2>1. Init => OneInv
    BY OneInvInit
  <2> QED
    BY <2>1 DEF Init, DecideInv, Passed, Waits, IdleSession
<1>2. DecideInv /\ [Next]_vars => DecideInv'
  BY OneInvStep, PassedStep, WaitsStep DEF DecideInv, OneInv
<1>3. DecideInv => StillDecidable
  <2> SUFFICES ASSUME DecideInv, orderStatus = "pending_approval", ~overlapped,
                      gone \cap Approvers = {}
               PROVE  /\ ~AllMet(row)
                      /\ \A b \in Buckets :
                           Cardinality(Approved(row, b) \cup (Pending(row) \cap Members(row, b)))
                             >= Threshold(row, b)
    BY DEF StillDecidable
  <2>1. /\ ~AllMet(row) /\ \A x \in Approvers : row[x] # "declined"
        /\ \A b \in Buckets : WholeOrMet(row, b)
    BY DEF DecideInv, Waits
  <2>2. ASSUME NEW b \in Buckets
        PROVE  Cardinality(Approved(row, b) \cup (Pending(row) \cap Members(row, b)))
                 >= Threshold(row, b)
    <3> DEFINE all == Members(row, b)
               open == Approved(row, b) \cup (Pending(row) \cap all)
    <3>1. minimum \in Minimums
      BY DEF DecideInv, OneInv, TypeOK
    <3>2. /\ IsFiniteSet(all) /\ Cardinality(all) \in Nat /\ minimum[b] \in Nat
          /\ Approved(row, b) \subseteq open /\ open \subseteq all
      BY <3>1, BucketNumbers DEF Approved
    <3>3. Threshold(row, b) <= Cardinality(all) /\ (minimum[b] > 0 => Threshold(row, b) <= minimum[b])
      BY <3>2 DEF Threshold
    <3>4. /\ IsFiniteSet(open) /\ Cardinality(open) \in Nat
          /\ Cardinality(Approved(row, b)) \in Nat /\ Threshold(row, b) \in Int
          /\ Cardinality(Approved(row, b)) <= Cardinality(open)
      BY <3>1, <3>2, BucketNumbers, FS_Subset, FS_CardinalityType DEF Threshold
    <3>5. CASE \A x \in all : row[x] # "superseded"
      <4>1. \A x \in all : row[x] \in {"approved", "pending"}
        BY <2>1, <3>5 DEF Members, DecideInv, OneInv, TypeOK, RowStatuses
      <4>2. open = all
        BY <4>1 DEF Approved, Members, Pending
      <4> QED
        BY <3>2, <3>3, <4>2
    <3>6. CASE minimum[b] > 0 /\ Cardinality(Approved(row, b)) >= minimum[b]
      BY <3>2, <3>3, <3>4, <3>6
    <3> QED
      BY <2>1, <3>5, <3>6 DEF WholeOrMet
  <2> QED
    BY <2>1, <2>2
<1> QED
  BY <1>1, <1>2, <1>3, PTL DEF Spec
=============================================================================
