----------------------------- MODULE Access_proofs -----------------------------
(***************************************************************************)
(* Who gets, keeps and loses access, proved for any number of users,       *)
(* orders, requests and workers: the limits on new orders, drift           *)
(* reconciliation, attestations, certification campaigns, onboarding and   *)
(* SCIM, approval routing, and what they promise together.                 *)
(***************************************************************************)
EXTENDS MCAccess, SetInduction, SequenceTheorems

-------------------------------------------------------------------------------
(***************************************************************************)
(* No limit is passed by more than the requests that overlap: QuotasKept.  *)
(* An order and a request that has passed the check and not yet inserted   *)
(* take the same room: an insert turns the one into the other.  At a check *)
(* there is room for at least one order, and all requests may be past it.  *)
(***************************************************************************)
(* Requests that are past the check of a user's limit, of the pool, and of  *)
(* the reference.                                                           *)
PastUser(u) == {r \in QuotaRequests : req[r].pc \in {"ref", "insert"} /\ req[r].user = u}
PastPool == {r \in QuotaRequests : req[r].pc \in {"user", "ref", "insert"}}
PastRef == {r \in QuotaRequests : req[r].pc = "insert" /\ req[r].door = "webhook"}

NobodyWaits == ~needsApproval => \A o \in OrderIds : standing[o] # "waiting"

UserRoom ==
  MaxPerUser > 0 =>
    \A u \in QuotaUsers :
      Cardinality(OrdersOf(u, Counted)) + Cardinality(PastUser(u)) <= MaxPerUser + Race

PoolRoom ==
  ~needsApproval =>
    Cardinality(PoolOrders(Counted)) + Cardinality(PastPool) <= PoolCapacity + Race

RefRoom == Cardinality(ref) + Cardinality(PastRef) <= Cardinality(QuotaRequests)

QuotaInv == QuotaTypeOK /\ NobodyWaits /\ UserRoom /\ PoolRoom /\ RefRoom

-----------------------------------------------------------------------------
(* What is counted is finite.                                               *)
LEMMA Finite ==
  ASSUME NEW T, NEW S, IsFiniteSet(S), T \subseteq S
  PROVE  IsFiniteSet(T) /\ Cardinality(T) \in Nat /\ Cardinality(T) <= Cardinality(S)
BY FS_Subset, FS_CardinalityType

LEMMA OneMore ==
  ASSUME NEW T, NEW S, NEW x, IsFiniteSet(S), T \subseteq S \cup {x}
  PROVE  Cardinality(T) <= Cardinality(S) + 1
<1>1. Cardinality(S) \in Nat
  BY FS_CardinalityType
<1>2. /\ IsFiniteSet(S \cup {x})
      /\ Cardinality(S \cup {x}) = IF x \in S THEN Cardinality(S) ELSE Cardinality(S) + 1
  BY FS_AddElement
<1>3. Cardinality(T) \in Nat /\ Cardinality(T) <= Cardinality(S \cup {x})
  BY <1>2, Finite
<1> QED
  BY <1>1, <1>2, <1>3

LEMMA OneLess ==
  ASSUME NEW T, NEW S, NEW x \in S, IsFiniteSet(S), T \subseteq S \ {x}
  PROVE  Cardinality(T) + 1 <= Cardinality(S)
<1>1. Cardinality(S) \in Nat
  BY FS_CardinalityType
<1>2. IsFiniteSet(S \ {x}) /\ Cardinality(S \ {x}) = Cardinality(S) - 1
  BY FS_RemoveElement
<1>3. Cardinality(T) \in Nat /\ Cardinality(T) <= Cardinality(S \ {x})
  BY <1>2, Finite
<1> QED
  BY <1>1, <1>2, <1>3

LEMMA Requests ==
  Cardinality(QuotaRequests) \in Nat /\ Cardinality(QuotaRequests) >= 1
BY QuotaAssumption, FS_CardinalityType, FS_EmptySet

LEMMA OrdersFinite == IsFiniteSet(OrderIds)
BY QuotaAssumption, FS_Interval DEF OrderIds

(* Room is kept when nothing is added, when a request turns into an order,  *)
(* when an order is added and the room grows by one, and when there is room *)
(* for every request.                                                       *)
LEMMA RoomKept ==
  ASSUME NEW O, NEW O1, NEW P, NEW P1, NEW room \in Int, NEW room1 \in Int,
         O \subseteq OrderIds, O1 \subseteq OrderIds,
         P \subseteq QuotaRequests, P1 \subseteq QuotaRequests,
         Cardinality(O) + Cardinality(P) <= room, room <= room1,
         \/ O1 \subseteq O /\ P1 \subseteq P
         \/ \E o \in OrderIds, r \in P : O1 \subseteq O \cup {o} /\ P1 \subseteq P \ {r}
         \/ \E o \in OrderIds : O1 \subseteq O \cup {o} /\ P1 \subseteq P /\ room1 = room + 1
         \/ O1 \subseteq O /\ Cardinality(O) + Cardinality(QuotaRequests) <= room1
  PROVE  Cardinality(O1) + Cardinality(P1) <= room1
<1> USE OrdersFinite
<1>1. IsFiniteSet(QuotaRequests)
  BY QuotaAssumption
<1>2. /\ IsFiniteSet(O) /\ IsFiniteSet(O1) /\ IsFiniteSet(P) /\ IsFiniteSet(P1)
      /\ Cardinality(O) \in Nat /\ Cardinality(O1) \in Nat
      /\ Cardinality(P) \in Nat /\ Cardinality(P1) \in Nat
      /\ Cardinality(P1) <= Cardinality(QuotaRequests) /\ Cardinality(QuotaRequests) \in Nat
  BY <1>1, Finite, FS_CardinalityType
<1>3. CASE O1 \subseteq O /\ P1 \subseteq P
  <2>1. Cardinality(O1) <= Cardinality(O) /\ Cardinality(P1) <= Cardinality(P)
    BY <1>2, <1>3, Finite
  <2> QED
    BY <1>2, <2>1
<1>4. CASE \E o \in OrderIds, r \in P : O1 \subseteq O \cup {o} /\ P1 \subseteq P \ {r}
  <2>1. Cardinality(O1) <= Cardinality(O) + 1
    BY <1>2, <1>4, OneMore
  <2>2. Cardinality(P1) + 1 <= Cardinality(P)
    BY <1>2, <1>4, OneLess
  <2> QED
    BY <1>2, <2>1, <2>2
<1>5. CASE \E o \in OrderIds : O1 \subseteq O \cup {o} /\ P1 \subseteq P /\ room1 = room + 1
  <2>1. Cardinality(O1) <= Cardinality(O) + 1
    BY <1>2, <1>5, OneMore
  <2>2. Cardinality(P1) <= Cardinality(P)
    BY <1>2, <1>5, Finite
  <2> QED
    BY <1>2, <1>5, <2>1, <2>2
<1>6. CASE O1 \subseteq O /\ Cardinality(O) + Cardinality(QuotaRequests) <= room1
  <2>1. Cardinality(O1) <= Cardinality(O)
    BY <1>2, <1>6, Finite
  <2> QED
    BY <1>2, <1>6, <2>1
<1> QED
  BY <1>3, <1>4, <1>5, <1>6

LEMMA RaceIsNat ==
  ASSUME QuotaTypeOK
  PROVE  Race \in Nat /\ Race = Cardinality(QuotaRequests) - 1 + retried /\ retried \in Nat
BY QuotaAssumption, Requests DEF QuotaTypeOK, Race

-----------------------------------------------------------------------------
THEOREM QuotaTypeCorrect == QuotaSpec => []QuotaTypeOK
<1>1. QuotaInit => QuotaTypeOK
  BY QuotaAssumption DEF QuotaInit, QuotaTypeOK, NoRequest, Doors
<1>2. QuotaTypeOK /\ [QuotaNext]_quotaVars => QuotaTypeOK'
  <2> SUFFICES ASSUME QuotaTypeOK, [QuotaNext]_quotaVars PROVE QuotaTypeOK'
    OBVIOUS
  <2>1. CASE \E r \in QuotaRequests, door \in Doors, u \in QuotaUsers : Arrive(r, door, u)
    BY <2>1 DEF QuotaTypeOK, Arrive, orderVars
  <2>2. CASE \E r \in QuotaRequests : CheckPool(r) \/ CheckUser(r) \/ CheckRef(r)
    BY <2>2 DEF QuotaTypeOK, CheckPool, CheckUser, CheckRef, Advance, NoRequest, Doors, orderVars
  <2>3. CASE \E r \in QuotaRequests, o \in OrderIds : InsertOrder(r, o)
    BY <2>3 DEF QuotaTypeOK, InsertOrder, Advance, NoRequest, Doors, FirstStanding, Standings
  <2>4. CASE \E o \in OrderIds : ApproveOrder(o) \/ EndOrder(o) \/ FailOrder(o)
    BY <2>4 DEF QuotaTypeOK, ApproveOrder, EndOrder, FailOrder, Turn, Standings
  <2>5. CASE \E o \in OrderIds : RetryOrder(o)
    BY <2>5, QuotaAssumption DEF QuotaTypeOK, RetryOrder, Turn, Standings
  <2>6. CASE UNCHANGED quotaVars
    BY <2>6 DEF QuotaTypeOK, quotaVars
  <2> QED
    BY <2>1, <2>2, <2>3, <2>4, <2>5, <2>6 DEF QuotaNext
<1> QED
  BY <1>1, <1>2, PTL DEF QuotaSpec

-----------------------------------------------------------------------------
(* The user's limit.                                                        *)
LEMMA UserRoomKept ==
  ASSUME QuotaTypeOK, QuotaTypeOK', UserRoom, [QuotaNext]_quotaVars
  PROVE  UserRoom'
<1> SUFFICES ASSUME MaxPerUser > 0, NEW u \in QuotaUsers
             PROVE  Cardinality(OrdersOf(u, Counted)') + Cardinality(PastUser(u)')
                      <= MaxPerUser + Race'
  BY DEF UserRoom
<1> DEFINE O == OrdersOf(u, Counted)
           P == PastUser(u)
<1>1. Race \in Nat /\ Race' \in Nat /\ Race >= Cardinality(QuotaRequests) - 1
      /\ Race' = Race + (retried' - retried) /\ MaxPerUser \in Nat
      /\ Cardinality(QuotaRequests) \in Nat /\ retried \in Nat /\ retried' \in Nat
  BY Requests, QuotaAssumption DEF Race, QuotaTypeOK
<1>2. O \subseteq OrderIds /\ O' \subseteq OrderIds
  BY DEF OrdersOf, PoolOrders, OrderIds
<1>3. P \subseteq QuotaRequests /\ P' \subseteq QuotaRequests
  BY DEF PastUser
<1>4. Cardinality(O) + Cardinality(P) <= MaxPerUser + Race
  BY DEF UserRoom
<1> DEFINE Less == O' \subseteq O /\ P' \subseteq P
           Exchange == \E o \in OrderIds, r \in P : O' \subseteq O \cup {o} /\ P' \subseteq P \ {r}
           Retry == \E o \in OrderIds : O' \subseteq O \cup {o} /\ P' \subseteq P
           Checked == O' \subseteq O /\ Cardinality(O) < MaxPerUser
<1>5. \/ retried' = retried /\ (Less \/ Exchange \/ Checked)
      \/ retried' = retried + 1 /\ Retry
  <2>1. ASSUME NEW r \in QuotaRequests, NEW door \in Doors, NEW v \in QuotaUsers,
               Arrive(r, door, v)
        PROVE  retried' = retried /\ Less
    BY <2>1 DEF Arrive, OrdersOf, PoolOrders, PastUser, orderVars, QuotaTypeOK, OrderIds
  <2>2. ASSUME NEW r \in QuotaRequests, CheckPool(r) \/ CheckRef(r)
        PROVE  retried' = retried /\ Less
    BY <2>2 DEF CheckPool, CheckRef, Advance, NoRequest, OrdersOf, PoolOrders, PastUser,
                orderVars, QuotaTypeOK, OrderIds
  <2>3. ASSUME NEW r \in QuotaRequests, CheckUser(r)
        PROVE  retried' = retried /\ (Less \/ Checked)
    <3>1. retried' = retried /\ O' = O
      BY <2>3 DEF CheckUser, OrdersOf, PoolOrders, orderVars
    <3>2. CASE Cardinality(O) < MaxPerUser
      BY <3>1, <3>2
    <3>3. CASE ~(Cardinality(O) < MaxPerUser)
      <4>1. Cardinality(O) >= MaxPerUser
        <5>1. Cardinality(O) \in Nat
          BY <1>2, OrdersFinite, Finite
        <5> HIDE DEF O
        <5> QED
          BY <3>3, <1>1, <5>1
      <4>2. req[r].user = u => Advance(r, "idle")
        BY <2>3, <4>1 DEF CheckUser
      <4>3. P' \subseteq P
        BY <2>3, <4>2 DEF CheckUser, Advance, NoRequest, PastUser, QuotaTypeOK
      <4> QED
        BY <3>1, <4>3
    <3> QED
      BY <3>2, <3>3
  <2>4. ASSUME NEW r \in QuotaRequests, NEW o \in OrderIds, InsertOrder(r, o)
        PROVE  retried' = retried /\ (Less \/ Exchange)
    <3>1. retried' = retried /\ P' \subseteq P \ {r}
      BY <2>4 DEF InsertOrder, Advance, NoRequest, PastUser, QuotaTypeOK
    <3>2. CASE req[r].user = u
      <4>1. r \in P
        BY <2>4, <3>2 DEF InsertOrder, PastUser
      <4>2. O' \subseteq O \cup {o}
        BY <2>4 DEF InsertOrder, OrdersOf, PoolOrders, QuotaTypeOK, OrderIds
      <4> HIDE DEF O, P
      <4> QED
        BY <3>1, <4>1, <4>2
    <3>3. CASE req[r].user # u
      <4>1. O' \subseteq O
        BY <2>4, <3>3 DEF InsertOrder, OrdersOf, PoolOrders, QuotaTypeOK, OrderIds
      <4> QED
        BY <3>1, <4>1
    <3> QED
      BY <3>2, <3>3
  <2>5. ASSUME NEW o \in OrderIds, ApproveOrder(o) \/ EndOrder(o) \/ FailOrder(o)
        PROVE  retried' = retried /\ Less
    BY <2>5 DEF ApproveOrder, EndOrder, FailOrder, Turn, OrdersOf, PoolOrders, Counted,
                PastUser, QuotaTypeOK, OrderIds
  <2>6. ASSUME NEW o \in OrderIds, RetryOrder(o)
        PROVE  retried' = retried + 1 /\ Retry
    BY <2>6 DEF RetryOrder, Turn, OrdersOf, PoolOrders, PastUser, QuotaTypeOK, OrderIds
  <2>7. CASE UNCHANGED quotaVars
    BY <2>7 DEF quotaVars, OrdersOf, PoolOrders, PastUser, OrderIds, QuotaTypeOK
  <2> HIDE DEF Less, Exchange, Retry, Checked
  <2> QED
    BY <2>1, <2>2, <2>3, <2>4, <2>5, <2>6, <2>7 DEF QuotaNext
<1> DEFINE room == MaxPerUser + Race
<1>6. Cardinality(O) + Cardinality(P) <= room /\ room \in Int /\ room' \in Int
  BY <1>1, <1>4
<1> HIDE DEF O, P
<1>7. /\ room <= room'
      /\ \/ Less
         \/ Exchange
         \/ \E o \in OrderIds : O' \subseteq O \cup {o} /\ P' \subseteq P /\ room' = room + 1
         \/ O' \subseteq O /\ Cardinality(O) + Cardinality(QuotaRequests) <= room'
  <2>1. IsFiniteSet(O) /\ Cardinality(O) \in Nat
    BY <1>2, OrdersFinite, Finite
  <2> HIDE DEF Less, Exchange
  <2>2. CASE retried' = retried /\ (Less \/ Exchange)
    BY <1>1, <2>2
  <2>3. CASE retried' = retried /\ Checked
    BY <1>1, <2>1, <2>3
  <2>4. CASE retried' = retried + 1 /\ Retry
    BY <1>1, <2>4
  <2> QED
    BY <1>5, <2>2, <2>3, <2>4
<1> HIDE DEF room
<1>8. Cardinality(O') + Cardinality(P') <= room'
  BY <1>2, <1>3, <1>6, <1>7, RoomKept
<1> QED
  BY <1>8 DEF O, P, room

-----------------------------------------------------------------------------
(* The pool.  A type that needs no approval has no order that waits, so the *)
(* portal counts what the others count.                                     *)
LEMMA NobodyWaitsKept ==
  ASSUME QuotaTypeOK, NobodyWaits, [QuotaNext]_quotaVars
  PROVE  NobodyWaits'
<1> USE DEF NobodyWaits, QuotaTypeOK
<1>1. ASSUME NEW r \in QuotaRequests, NEW door \in Doors, NEW u \in QuotaUsers,
             Arrive(r, door, u)
      PROVE  NobodyWaits'
  BY <1>1 DEF Arrive, orderVars
<1>2. ASSUME NEW r \in QuotaRequests, CheckPool(r) \/ CheckUser(r) \/ CheckRef(r)
      PROVE  NobodyWaits'
  BY <1>2 DEF CheckPool, CheckUser, CheckRef, orderVars
<1>3. ASSUME NEW r \in QuotaRequests, NEW o \in OrderIds, InsertOrder(r, o)
      PROVE  NobodyWaits'
  BY <1>3 DEF InsertOrder, FirstStanding
<1>4. ASSUME NEW o \in OrderIds, ApproveOrder(o) \/ EndOrder(o) \/ FailOrder(o) \/ RetryOrder(o)
      PROVE  NobodyWaits'
  BY <1>4 DEF ApproveOrder, EndOrder, FailOrder, RetryOrder, Turn
<1>5. CASE UNCHANGED quotaVars
  BY <1>5 DEF quotaVars
<1> QED
  BY <1>1, <1>2, <1>3, <1>4, <1>5 DEF QuotaNext

LEMMA PoolRoomKept ==
  ASSUME QuotaTypeOK, QuotaTypeOK', NobodyWaits, PoolRoom, [QuotaNext]_quotaVars
  PROVE  PoolRoom'
<1>0. needsApproval' = needsApproval
  <2>1. ASSUME NEW r \in QuotaRequests,
               \/ \E door \in Doors, u \in QuotaUsers : Arrive(r, door, u)
               \/ CheckPool(r) \/ CheckUser(r) \/ CheckRef(r)
               \/ \E o \in OrderIds : InsertOrder(r, o)
        PROVE  needsApproval' = needsApproval
    BY <2>1 DEF Arrive, CheckPool, CheckUser, CheckRef, InsertOrder
  <2>2. ASSUME NEW o \in OrderIds,
               ApproveOrder(o) \/ EndOrder(o) \/ FailOrder(o) \/ RetryOrder(o)
        PROVE  needsApproval' = needsApproval
    BY <2>2 DEF ApproveOrder, EndOrder, FailOrder, RetryOrder, Turn
  <2> QED
    BY <2>1, <2>2 DEF QuotaNext, quotaVars
<1> SUFFICES ASSUME ~needsApproval
             PROVE  Cardinality(PoolOrders(Counted)') + Cardinality(PastPool')
                      <= PoolCapacity + Race'
  BY <1>0 DEF PoolRoom
<1> DEFINE O == PoolOrders(Counted)
           P == PastPool
           room == PoolCapacity + Race
<1>1. Race \in Nat /\ Race' \in Nat /\ Race >= Cardinality(QuotaRequests) - 1
      /\ Race' = Race + (retried' - retried) /\ PoolCapacity \in Nat
      /\ Cardinality(QuotaRequests) \in Nat /\ retried \in Nat /\ retried' \in Nat
  BY Requests, QuotaAssumption DEF Race, QuotaTypeOK
<1>2. O \subseteq OrderIds /\ O' \subseteq OrderIds
  BY DEF PoolOrders, OrderIds
<1>3. P \subseteq QuotaRequests /\ P' \subseteq QuotaRequests
  BY DEF PastPool
<1>4. Cardinality(O) \in Nat
  BY <1>2, OrdersFinite, Finite
<1> DEFINE Less == O' \subseteq O /\ P' \subseteq P
           Exchange == \E o \in OrderIds, r \in P : O' \subseteq O \cup {o} /\ P' \subseteq P \ {r}
           Retry == \E o \in OrderIds : O' \subseteq O \cup {o} /\ P' \subseteq P
           Checked == O' \subseteq O /\ Cardinality(O) < PoolCapacity
<1>5. \/ retried' = retried /\ (Less \/ Exchange \/ Checked)
      \/ retried' = retried + 1 /\ Retry
  <2>1. ASSUME NEW r \in QuotaRequests, NEW door \in Doors, NEW v \in QuotaUsers,
               Arrive(r, door, v)
        PROVE  retried' = retried /\ Less
    BY <2>1 DEF Arrive, PoolOrders, PastPool, orderVars, QuotaTypeOK
  <2>2. ASSUME NEW r \in QuotaRequests, CheckUser(r) \/ CheckRef(r)
        PROVE  retried' = retried /\ Less
    BY <2>2 DEF CheckUser, CheckRef, Advance, NoRequest, PoolOrders, PastPool,
                orderVars, QuotaTypeOK
  <2>3. ASSUME NEW r \in QuotaRequests, CheckPool(r)
        PROVE  retried' = retried /\ (Less \/ Checked)
    <3>1. retried' = retried /\ O' = O
      BY <2>3 DEF CheckPool, PoolOrders, orderVars
    <3>2. PoolOrders(PortalCounted) = O
      BY DEF NobodyWaits, PoolOrders, PortalCounted, Counted
    <3>3. CASE Cardinality(O) < PoolCapacity
      BY <3>1, <3>3
    <3>4. CASE ~(Cardinality(O) < PoolCapacity)
      <4> HIDE DEF O
      <4>1. Cardinality(O) >= PoolCapacity
        BY <3>4, <1>1, <1>4
      <4> USE DEF O
      <4>2. Full(req[r].door)
        BY <4>1, <3>2 DEF Full
      <4>3. Advance(r, "idle")
        BY <2>3, <4>2 DEF CheckPool
      <4>4. P' \subseteq P
        BY <4>3 DEF Advance, NoRequest, PastPool, QuotaTypeOK
      <4> QED
        BY <3>1, <4>4
    <3> QED
      BY <3>3, <3>4
  <2>4. ASSUME NEW r \in QuotaRequests, NEW o \in OrderIds, InsertOrder(r, o)
        PROVE  retried' = retried /\ (Less \/ Exchange)
    <3>1. retried' = retried /\ P' \subseteq P \ {r}
      BY <2>4 DEF InsertOrder, Advance, NoRequest, PastPool, QuotaTypeOK
    <3>2. r \in P
      BY <2>4 DEF InsertOrder, PastPool
    <3>3. O' \subseteq O \cup {o}
      BY <2>4 DEF InsertOrder, PoolOrders, QuotaTypeOK, OrderIds
    <3> HIDE DEF O, P
    <3> QED
      BY <3>1, <3>2, <3>3
  <2>5. ASSUME NEW o \in OrderIds, ApproveOrder(o) \/ EndOrder(o) \/ FailOrder(o)
        PROVE  retried' = retried /\ Less
    BY <2>5 DEF ApproveOrder, EndOrder, FailOrder, Turn, PoolOrders, Counted, PastPool, QuotaTypeOK
  <2>6. ASSUME NEW o \in OrderIds, RetryOrder(o)
        PROVE  retried' = retried + 1 /\ Retry
    BY <2>6 DEF RetryOrder, Turn, PoolOrders, PastPool, QuotaTypeOK
  <2>7. CASE UNCHANGED quotaVars
    BY <2>7 DEF quotaVars, PoolOrders, PastPool, QuotaTypeOK
  <2> HIDE DEF Less, Exchange, Retry, Checked
  <2> QED
    BY <2>1, <2>2, <2>3, <2>4, <2>5, <2>6, <2>7 DEF QuotaNext
<1>6. Cardinality(O) + Cardinality(P) <= room /\ room \in Int /\ room' \in Int
  BY <1>1 DEF PoolRoom
<1> HIDE DEF O, P
<1>7. /\ room <= room'
      /\ \/ Less
         \/ Exchange
         \/ \E o \in OrderIds : O' \subseteq O \cup {o} /\ P' \subseteq P /\ room' = room + 1
         \/ O' \subseteq O /\ Cardinality(O) + Cardinality(QuotaRequests) <= room'
  <2> HIDE DEF Less, Exchange
  <2>1. CASE retried' = retried /\ (Less \/ Exchange)
    BY <1>1, <2>1
  <2>2. CASE retried' = retried /\ Checked
    BY <1>1, <1>4, <2>2
  <2>3. CASE retried' = retried + 1 /\ Retry
    BY <1>1, <2>3
  <2> QED
    BY <1>5, <2>1, <2>2, <2>3
<1> HIDE DEF room
<1>8. Cardinality(O') + Cardinality(P') <= room'
  BY <1>2, <1>3, <1>6, <1>7, RoomKept
<1> QED
  BY <1>8 DEF O, P, room

-----------------------------------------------------------------------------
(* The reference.                                                           *)
LEMMA RefRoomKept ==
  ASSUME QuotaTypeOK, QuotaTypeOK', RefRoom, [QuotaNext]_quotaVars
  PROVE  RefRoom'
<1> DEFINE P == PastRef
           room == Cardinality(QuotaRequests)
           Less == ref' \subseteq ref /\ P' \subseteq P
           Exchange == \E o \in OrderIds, r \in P : ref' \subseteq ref \cup {o} /\ P' \subseteq P \ {r}
<1>1. P \subseteq QuotaRequests /\ P' \subseteq QuotaRequests
  BY DEF PastRef
<1>2. ref \subseteq OrderIds /\ ref' \subseteq OrderIds
  BY DEF QuotaTypeOK, OrderIds
<1>3. Less \/ Exchange \/ (ref = {} /\ ref' = ref)
  <2>1. ASSUME NEW r \in QuotaRequests, NEW door \in Doors, NEW v \in QuotaUsers,
               Arrive(r, door, v)
        PROVE  Less
    BY <2>1 DEF Arrive, PastRef, orderVars, QuotaTypeOK
  <2>2. ASSUME NEW r \in QuotaRequests, CheckPool(r) \/ CheckUser(r)
        PROVE  Less
    BY <2>2 DEF CheckPool, CheckUser, Advance, NoRequest, PastRef, orderVars, QuotaTypeOK
  <2>3. ASSUME NEW r \in QuotaRequests, CheckRef(r)
        PROVE  Less \/ (ref = {} /\ ref' = ref)
    BY <2>3 DEF CheckRef, RefIsNew, Advance, NoRequest, PastRef, orderVars, QuotaTypeOK
  <2>4. ASSUME NEW r \in QuotaRequests, NEW o \in OrderIds, InsertOrder(r, o)
        PROVE  Less \/ Exchange
    <3>1. P' \subseteq P \ {r}
      BY <2>4 DEF InsertOrder, Advance, NoRequest, PastRef, QuotaTypeOK
    <3>2. CASE req[r].door = "webhook"
      <4>1. r \in P /\ ref' \subseteq ref \cup {o}
        BY <2>4, <3>2 DEF InsertOrder, PastRef
      <4> HIDE DEF P
      <4> QED
        BY <3>1, <4>1
    <3>3. CASE req[r].door # "webhook"
      BY <2>4, <3>1, <3>3 DEF InsertOrder
    <3> QED
      BY <3>2, <3>3
  <2>5. ASSUME NEW o \in OrderIds, ApproveOrder(o) \/ EndOrder(o) \/ FailOrder(o) \/ RetryOrder(o)
        PROVE  Less
    BY <2>5 DEF ApproveOrder, EndOrder, FailOrder, RetryOrder, Turn, PastRef
  <2>6. CASE UNCHANGED quotaVars
    BY <2>6 DEF quotaVars, PastRef
  <2> HIDE DEF Less, Exchange
  <2> QED
    BY <2>1, <2>2, <2>3, <2>4, <2>5, <2>6 DEF QuotaNext
<1>4. Cardinality(ref) + Cardinality(P) <= room /\ room \in Int
  BY Requests DEF RefRoom
<1>5. \/ Less
      \/ Exchange
      \/ ref' \subseteq ref /\ Cardinality(ref) + Cardinality(QuotaRequests) <= room
  <2>1. ref = {} => Cardinality(ref) + Cardinality(QuotaRequests) <= room
    BY Requests, FS_EmptySet
  <2> HIDE DEF Less, Exchange, room
  <2> QED
    BY <1>3, <2>1
<1> HIDE DEF P, room
<1>6. Cardinality(ref') + Cardinality(P') <= room
  BY <1>1, <1>2, <1>4, <1>5, RoomKept
<1> QED
  BY <1>6 DEF RefRoom, P, room

-----------------------------------------------------------------------------
(* No limit is passed by more than the requests that overlap.               *)
THEOREM QuotasCorrect == QuotaSpec => []QuotasKept
<1>1. QuotaInit => QuotaInv
  <2> SUFFICES ASSUME QuotaInit PROVE QuotaInv
    OBVIOUS
  <2>1. QuotaTypeOK /\ NobodyWaits
    BY QuotaAssumption DEF QuotaInit, QuotaTypeOK, NobodyWaits, NoRequest, Doors
  <2>2. ref = {} /\ PoolOrders(Counted) = {} /\ \A u : OrdersOf(u, Counted) = {}
    BY DEF QuotaInit, PoolOrders, OrdersOf, Counted
  <2>3. PastPool = {} /\ PastRef = {} /\ \A u : PastUser(u) = {}
    BY DEF QuotaInit, PastPool, PastRef, PastUser, NoRequest
  <2>4. Cardinality({}) = 0
    BY FS_EmptySet
  <2>5. Race = Cardinality(QuotaRequests) - 1
    BY Requests DEF Race, QuotaInit
  <2>6. UserRoom
    <3> SUFFICES ASSUME MaxPerUser > 0, NEW u \in QuotaUsers
                 PROVE  Cardinality(OrdersOf(u, Counted)) + Cardinality(PastUser(u))
                          <= MaxPerUser + Race
      BY DEF UserRoom
    <3>1. Cardinality(OrdersOf(u, Counted)) = 0 /\ Cardinality(PastUser(u)) = 0
      BY <2>2, <2>3, <2>4
    <3>2. MaxPerUser \in Nat
      BY QuotaAssumption
    <3> QED
      BY <2>5, <3>1, <3>2, Requests
  <2>7. PoolRoom
    <3>1. Cardinality(PoolOrders(Counted)) = 0 /\ Cardinality(PastPool) = 0
      BY <2>2, <2>3, <2>4
    <3>2. PoolCapacity \in Nat
      BY QuotaAssumption
    <3> QED
      BY <2>5, <3>1, <3>2, Requests DEF PoolRoom
  <2>8. RefRoom
    BY <2>2, <2>3, <2>4, Requests DEF RefRoom
  <2> QED
    BY <2>1, <2>6, <2>7, <2>8 DEF QuotaInv
<1>2. QuotaInv /\ QuotaTypeOK' /\ [QuotaNext]_quotaVars => QuotaInv'
  <2> SUFFICES ASSUME QuotaInv, QuotaTypeOK', [QuotaNext]_quotaVars PROVE QuotaInv'
    OBVIOUS
  <2> QED
    BY UserRoomKept, PoolRoomKept, RefRoomKept, NobodyWaitsKept DEF QuotaInv
<1>3. QuotaInv => QuotasKept
  <2> SUFFICES ASSUME QuotaInv PROVE QuotasKept
    OBVIOUS
  <2>1. IsFiniteSet(QuotaRequests) /\ Cardinality(QuotaRequests) \in Nat
    BY QuotaAssumption, Requests
  <2>2. Race \in Nat
    BY RaceIsNat DEF QuotaInv
  <2>3. UserWithinRace
    <3> SUFFICES ASSUME MaxPerUser > 0, NEW u \in QuotaUsers
                 PROVE  Cardinality(OrdersOf(u, Counted)) <= MaxPerUser + Race
      BY DEF UserWithinRace
    <3>1. Cardinality(OrdersOf(u, Counted)) \in Nat
      BY OrdersFinite, Finite DEF OrdersOf, PoolOrders
    <3>2. Cardinality(PastUser(u)) \in Nat
      BY <2>1, Finite DEF PastUser
    <3> QED
      BY <2>2, <3>1, <3>2, QuotaAssumption DEF QuotaInv, UserRoom
  <2>4. PoolWithinRace
    <3>1. Cardinality(PoolOrders(Counted)) \in Nat
      BY OrdersFinite, Finite DEF PoolOrders
    <3>2. Cardinality(PastPool) \in Nat
      BY <2>1, Finite DEF PastPool
    <3>3. PoolCapacity \in Nat
      BY QuotaAssumption
    <3>4. ~needsApproval =>
            Cardinality(PoolOrders(Counted)) + Cardinality(PastPool) <= PoolCapacity + Race
      BY DEF QuotaInv, PoolRoom
    <3> QED
      BY <2>2, <3>1, <3>2, <3>3, <3>4 DEF PoolWithinRace
  <2>5. RefWithinRace
    <3>1. Cardinality(ref) \in Nat
      BY OrdersFinite, Finite DEF QuotaInv, QuotaTypeOK
    <3>2. Cardinality(PastRef) \in Nat
      BY <2>1, Finite DEF PastRef
    <3> QED
      BY <2>1, <3>1, <3>2 DEF QuotaInv, RefRoom, RefWithinRace
  <2> QED
    BY <2>3, <2>4, <2>5 DEF QuotasKept
<1> QED
  BY <1>1, <1>2, <1>3, QuotaTypeCorrect, PTL DEF QuotaSpec

-------------------------------------------------------------------------------
(***************************************************************************)
(* Drift reconciliation: OneOpenFindingRace.  A scan that records a new    *)
(* finding of a divergence has found none open, so at that moment every    *)
(* worker may be about to add one and none is there; from then on a commit *)
(* turns one that is about to be into one that is there.                   *)
(***************************************************************************)
Scans ==
  [at: {"idle", "granted", "listed"}, auto: BOOLEAN, want: SUBSET DriftUsers,
   todo: SUBSET Divergences, rows: SUBSET (Divergences \X FindingIds \X BOOLEAN),
   fixed: SUBSET (Divergences \X FindingIds \X BOOLEAN)]

(* A scan has at most one row for a divergence, and none for one it has yet *)
(* to handle; what it puts right is among its rows.                         *)
OneRow ==
  \A w \in DriftWorkers :
    /\ \A r, q \in scan[w].rows : r[1] = q[1] => r = q
    /\ \A r \in scan[w].rows : r[1] \notin scan[w].todo
    /\ scan[w].fixed \subseteq scan[w].rows
    /\ scan[w].at # "listed" => scan[w].todo = {} /\ scan[w].rows = {}

(* Workers whose scan will add a finding of d when it commits.              *)
Adding(d) == {w \in DriftWorkers : \E r \in scan[w].rows : r[1] = d /\ r[3]}

RaceRoom ==
  \A d \in Divergences :
    Cardinality(open[d]) + Cardinality(Adding(d)) <= Cardinality(DriftWorkers)

ScansTyped == DriftTypeOK /\ scan \in [DriftWorkers -> Scans]

DriftInv == ScansTyped /\ OneRow /\ RaceRoom

-----------------------------------------------------------------------------
LEMMA FewIds == IsFiniteSet(FindingIds) /\ Cardinality(FindingIds) = 2 * Cardinality(DriftWorkers)
<1>1. Cardinality(DriftWorkers) \in Nat
  BY DriftAssumption, FS_CardinalityType
<1>2. 2 * Cardinality(DriftWorkers) \in Nat
  BY <1>1
<1> QED
  BY <1>2, FS_Interval DEF FindingIds

(* A new finding gets a number nobody holds.                                *)
LEMMA FreshId ==
  ASSUME DriftInv, NEW w \in DriftWorkers, NEW d \in scan[w].todo, open[d] = {}
  PROVE  NewRow(d) \in SUBSET (Divergences \X FindingIds \X BOOLEAN)
<1> DEFINE Mine(v) == {r \in scan[v].rows : r[1] = d}
           Id(v) == CHOOSE i \in FindingIds : \E r \in Mine(v) : r[2] = i
           Holders == {v \in DriftWorkers : Mine(v) # {}}
           Ids == {Id(v) : v \in Holders}
<1>0. d \in Divergences /\ scan[w].todo \subseteq Divergences
  BY DEF DriftInv, ScansTyped, Scans
<1>1. Holders \subseteq DriftWorkers \ {w}
  BY DEF DriftInv, OneRow
<1>2. HeldIds(d) \subseteq Ids
  <2> SUFFICES ASSUME NEW v \in DriftWorkers, NEW r \in scan[v].rows, r[1] = d
               PROVE  r[2] \in Ids
    BY DEF HeldIds
  <2>1. r \in Mine(v) /\ v \in Holders
    OBVIOUS
  <2>2. \A q \in Mine(v) : q = r
    BY DEF DriftInv, OneRow
  <2>3. r[2] \in FindingIds
    BY DEF DriftInv, ScansTyped, Scans
  <2>4. Id(v) = r[2]
    BY <2>1, <2>2, <2>3
  <2> QED
    BY <2>1, <2>4
<1>3. /\ IsFiniteSet(DriftWorkers \ {w})
      /\ Cardinality(DriftWorkers \ {w}) = Cardinality(DriftWorkers) - 1
      /\ Cardinality(DriftWorkers) \in Nat
  BY DriftAssumption, FS_RemoveElement, FS_CardinalityType
<1>4. /\ IsFiniteSet(Holders) /\ Cardinality(Holders) \in Nat
      /\ Cardinality(Holders) <= Cardinality(DriftWorkers \ {w})
  BY <1>1, <1>3, FS_Subset, FS_CardinalityType
<1>5. IsFiniteSet(Ids) /\ Cardinality(Ids) \in Nat /\ Cardinality(Ids) <= Cardinality(Holders)
  <2> DEFINE f == [v \in Holders |-> Id(v)]
  <2>1. f \in Surjection(Holders, Ids)
    BY DEF Surjection
  <2> HIDE DEF Holders, Ids, f
  <2> QED
    BY <1>4, <2>1, FS_Surjection, FS_CardinalityType
<1>6. ~ (FindingIds \subseteq HeldIds(d))
  <2> SUFFICES ASSUME FindingIds \subseteq Ids
               PROVE  FALSE
    BY <1>2
  <2>1. Cardinality(FindingIds) <= Cardinality(Ids)
    BY <1>5, FS_Subset
  <2> HIDE DEF Holders, Ids
  <2> QED
    BY <2>1, <1>3, <1>4, <1>5, FewIds
<1>7. (CHOOSE i \in FindingIds : i \notin HeldIds(d)) \in FindingIds
  BY <1>6
<1> HIDE DEF Mine, Id, Holders, Ids
<1>8. PICK i \in FindingIds : NewRow(d) = {<<d, i, TRUE>>}
  BY <1>7 DEF NewRow
<1>9. <<d, i, TRUE>> \in Divergences \X FindingIds \X BOOLEAN
  BY <1>0
<1> QED
  BY <1>8, <1>9

LEMMA RaceKept ==
  ASSUME NEW A, NEW B, IsFiniteSet(A), IsFiniteSet(B), NEW P \in SUBSET A, NEW Q \in SUBSET B,
         NEW n \in Nat, Cardinality(A) + Cardinality(B) <= n
  PROVE  Cardinality(P) + Cardinality(Q) <= n
<1>1. Cardinality(P) <= Cardinality(A) /\ Cardinality(Q) <= Cardinality(B)
  BY FS_Subset
<1>2. /\ Cardinality(A) \in Nat /\ Cardinality(B) \in Nat
      /\ Cardinality(P) \in Nat /\ Cardinality(Q) \in Nat
  BY FS_Subset, FS_CardinalityType
<1> QED
  BY <1>1, <1>2

LEMMA RaceMoves ==
  ASSUME NEW A, NEW B, IsFiniteSet(A), IsFiniteSet(B), NEW x, NEW w \in B,
         NEW P \in SUBSET (A \cup {x}), NEW Q \in SUBSET (B \ {w}),
         NEW n \in Nat, Cardinality(A) + Cardinality(B) <= n
  PROVE  Cardinality(P) + Cardinality(Q) <= n
<1>1. /\ IsFiniteSet(A \cup {x}) /\ Cardinality(A \cup {x}) \in {Cardinality(A), Cardinality(A) + 1}
      /\ IsFiniteSet(B \ {w}) /\ Cardinality(B \ {w}) = Cardinality(B) - 1
  BY FS_AddElement, FS_RemoveElement
<1>2. Cardinality(A) \in Nat /\ Cardinality(B) \in Nat
  BY FS_CardinalityType
<1>3. Cardinality(A \cup {x}) + Cardinality(B \ {w}) <= n
  BY <1>1, <1>2
<1> QED
  BY <1>1, <1>3, RaceKept

LEMMA RaceFinite ==
  ASSUME DriftInv, NEW d \in Divergences
  PROVE  /\ IsFiniteSet(open[d]) /\ IsFiniteSet(Adding(d))
         /\ Cardinality(DriftWorkers) \in Nat
<1>1. open[d] \subseteq FindingIds /\ Adding(d) \subseteq DriftWorkers
  BY DEF DriftInv, ScansTyped, DriftTypeOK, Adding
<1> QED
  BY <1>1, FewIds, FS_Subset, FS_CardinalityType, DriftAssumption

-----------------------------------------------------------------------------
LEMMA DriftInitInv == DriftInit => DriftInv
<1> SUFFICES ASSUME DriftInit PROVE DriftInv
  OBVIOUS
<1>1. ScansTyped
  BY DriftAssumption DEF ScansTyped, DriftInit, DriftTypeOK, Scans, NoScan
<1>2. OneRow
  BY DEF OneRow, DriftInit, NoScan
<1>3. RaceRoom
  <2>1. \A d \in Divergences : Adding(d) = {} /\ open[d] = {}
    BY DEF Adding, DriftInit, NoScan
  <2>2. Cardinality({}) = 0 /\ Cardinality(DriftWorkers) \in Nat
    BY FS_EmptySet, FS_CardinalityType, DriftAssumption
  <2> QED
    BY <2>1, <2>2 DEF RaceRoom
<1> QED
  BY <1>1, <1>2, <1>3 DEF DriftInv

(* A step that records and commits nothing: a scan may start, list or die.  *)
Quiet(w, s) ==
  /\ scan' = [scan EXCEPT ![w] = s]
  /\ s \in Scans /\ s.rows = {} /\ s.fixed = {} /\ (s.at # "listed" => s.todo = {})
  /\ open' = open

LEMMA QuietKeeps ==
  ASSUME DriftInv, NEW w \in DriftWorkers, NEW s, Quiet(w, s),
         grantOf' \in [DriftUsers -> {"none", "adding", "active", "leaving", "gone"}],
         members' \subseteq DriftUsers, fire' \in {"seen", "due", "sending"}
  PROVE  DriftInv'
<1>1. scan' \in [DriftWorkers -> Scans]
  BY DEF DriftInv, ScansTyped, Quiet
<1>2. ScansTyped'
  <2>1. \A v \in DriftWorkers : scan'[v] \in Scans /\ scan'[v].fixed \subseteq scan'[v].rows
    BY <1>1 DEF DriftInv, ScansTyped, OneRow, Quiet
  <2>2. open' \in [Divergences -> SUBSET FindingIds]
    BY DEF DriftInv, ScansTyped, DriftTypeOK, Quiet
  <2> QED
    BY <1>1, <2>1, <2>2 DEF ScansTyped, DriftTypeOK, Scans
<1>3. OneRow'
  BY DEF DriftInv, ScansTyped, OneRow, Quiet
<1>4. RaceRoom'
  <2> SUFFICES ASSUME NEW d \in Divergences
               PROVE  Cardinality(open'[d]) + Cardinality(Adding(d)') <= Cardinality(DriftWorkers)
    BY DEF RaceRoom
  <2>1. Adding(d)' \subseteq Adding(d)
    BY DEF Adding, Quiet, DriftInv, ScansTyped
  <2>2. open'[d] = open[d]
    BY DEF Quiet
  <2> QED
    BY <2>1, <2>2, RaceFinite, RaceKept DEF DriftInv, RaceRoom
<1> QED
  BY <1>2, <1>3, <1>4 DEF DriftInv

(* One row more.                                                            *)
LEMMA HandledKeeps ==
  ASSUME DriftInv, NEW w \in DriftWorkers, NEW d \in scan[w].todo, NEW r \in RowFor(d),
         NEW fixes \in BOOLEAN, scan' = Handled(w, d, r, fixes),
         members' \subseteq DriftUsers, UNCHANGED <<grantOf, open, fire>>
  PROVE  DriftInv'
<1>0. d \in Divergences
  BY DEF DriftInv, ScansTyped, Scans
<1>1. r \in Divergences \X FindingIds \X BOOLEAN /\ r[1] = d
  <2>1. CASE open[d] = {}
    <3>1. r \in NewRow(d) /\ NewRow(d) \in SUBSET (Divergences \X FindingIds \X BOOLEAN)
      BY <2>1, FreshId DEF RowFor
    <3>2. PICK i : r = <<d, i, TRUE>>
      BY <3>1 DEF NewRow
    <3> QED
      BY <3>1, <3>2
  <2>2. CASE open[d] # {}
    <3>1. PICK i \in open[d] : r = <<d, i, FALSE>>
      BY <2>2 DEF RowFor, OpenRow
    <3>2. i \in FindingIds
      BY <1>0 DEF DriftInv, ScansTyped, DriftTypeOK
    <3> QED
      BY <1>0, <3>1, <3>2
  <2> QED
    BY <2>1, <2>2
<1>2. scan[w] \in Scans /\ scan[w].at = "listed"
  BY DEF DriftInv, ScansTyped, OneRow, Scans
<1>3. PICK s : /\ scan' = [scan EXCEPT ![w] = s] /\ s \in Scans /\ s.at = "listed"
               /\ s.todo = scan[w].todo \ {d} /\ s.rows = scan[w].rows \cup {r}
               /\ s.fixed \in {scan[w].fixed, scan[w].fixed \cup {r}}
  <2> DEFINE ss == [scan[w] EXCEPT !.todo = @ \ {d}, !.rows = @ \cup {r},
                                   !.fixed = IF fixes THEN @ \cup {r} ELSE @]
  <2>1. scan' = [scan EXCEPT ![w] = ss]
    BY DEF Handled
  <2>2. /\ ss \in Scans /\ ss.at = "listed" /\ ss.todo = scan[w].todo \ {d}
        /\ ss.rows = scan[w].rows \cup {r}
        /\ ss.fixed \in {scan[w].fixed, scan[w].fixed \cup {r}}
    BY <1>1, <1>2 DEF Scans
  <2> QED
    BY <2>1, <2>2
<1>4. scan' \in [DriftWorkers -> Scans]
  BY <1>3 DEF DriftInv, ScansTyped
<1>5. /\ scan'[w] = s /\ \A v \in DriftWorkers \ {w} : scan'[v] = scan[v]
  BY <1>3 DEF DriftInv, ScansTyped
<1>6. OneRow'
  <2>1. /\ \A q, p \in s.rows : q[1] = p[1] => q = p
        /\ \A q \in s.rows : q[1] \notin s.todo
        /\ s.fixed \subseteq s.rows
    BY <1>1, <1>3 DEF DriftInv, OneRow
  <2> QED
    BY <2>1, <1>3, <1>5 DEF DriftInv, OneRow
<1>7. ScansTyped'
  BY <1>4, <1>6 DEF DriftInv, ScansTyped, DriftTypeOK, OneRow, Scans
<1>8. RaceRoom'
  <2> SUFFICES ASSUME NEW e \in Divergences
               PROVE  Cardinality(open'[e]) + Cardinality(Adding(e)') <= Cardinality(DriftWorkers)
    BY DEF RaceRoom
  <2>1. CASE e = d /\ open[d] = {}
    <3>1. Adding(e)' \subseteq DriftWorkers
      BY DEF Adding
    <3>2. /\ Cardinality(Adding(e)') <= Cardinality(DriftWorkers)
          /\ Cardinality(Adding(e)') \in Nat /\ Cardinality(DriftWorkers) \in Nat
      BY <3>1, FS_Subset, FS_CardinalityType, DriftAssumption
    <3>3. open'[e] = {} /\ Cardinality({}) = 0
      BY <2>1, FS_EmptySet
    <3> QED
      BY <3>2, <3>3
  <2>2. CASE ~ (e = d /\ open[d] = {})
    <3>1. r[1] = e => ~ r[3]
      <4> SUFFICES ASSUME r[1] = e PROVE ~ r[3]
        OBVIOUS
      <4>1. PICK i \in open[d] : r = <<d, i, FALSE>>
        BY <1>1, <2>2 DEF RowFor, OpenRow
      <4> QED
        BY <4>1
    <3>2. Adding(e)' \subseteq Adding(e)
      BY <3>1, <1>3, <1>5 DEF Adding
    <3> QED
      BY <3>2, RaceFinite, RaceKept DEF DriftInv, RaceRoom
  <2> QED
    BY <2>1, <2>2
<1> QED
  BY <1>6, <1>7, <1>8 DEF DriftInv

(* The commit.                                                              *)
LEMMA DriftCommitKeeps ==
  ASSUME DriftInv, NEW w \in DriftWorkers, ScanCommits(w)
  PROVE  DriftInv'
<1>1. /\ scan' \in [DriftWorkers -> Scans] /\ scan'[w] = NoScan
      /\ \A v \in DriftWorkers \ {w} : scan'[v] = scan[v]
  BY DEF DriftInv, ScansTyped, ScanCommits, Scans, NoScan
<1>2. OneRow'
  BY <1>1 DEF DriftInv, OneRow, NoScan
<1>3. open' \in [Divergences -> SUBSET FindingIds]
  <2>1. scan[w].rows \subseteq Divergences \X FindingIds \X BOOLEAN
    BY DEF DriftInv, ScansTyped, Scans
  <2>2. \A d \in Divergences : open[d] \subseteq FindingIds
    BY DEF DriftInv, ScansTyped, DriftTypeOK
  <2> QED
    BY <2>1, <2>2 DEF ScanCommits
<1>4. ScansTyped'
  <2>1. UNCHANGED <<grantOf, members, fire>>
    BY DEF ScanCommits
  <2> QED
    BY <1>1, <1>2, <1>3, <2>1 DEF DriftInv, ScansTyped, DriftTypeOK, OneRow, Scans
<1>5. RaceRoom'
  <2> SUFFICES ASSUME NEW d \in Divergences
               PROVE  Cardinality(open'[d]) + Cardinality(Adding(d)') <= Cardinality(DriftWorkers)
    BY DEF RaceRoom
  <2> DEFINE new == {r[2] : r \in {x \in scan[w].rows : x[1] = d /\ x[3]}}
  <2>1. open'[d] \subseteq open[d] \cup new
    BY DEF ScanCommits
  <2>2. Adding(d)' \subseteq Adding(d) \ {w}
    BY <1>1 DEF Adding, NoScan
  <2>3. CASE w \in Adding(d)
    <3>1. PICK r \in scan[w].rows : r[1] = d /\ r[3]
      BY <2>3 DEF Adding
    <3>2. new \subseteq {r[2]}
      BY <3>1 DEF DriftInv, OneRow
    <3> HIDE DEF new
    <3>3. open'[d] \subseteq open[d] \cup {r[2]}
      BY <2>1, <3>2
    <3>4. Cardinality(open[d]) + Cardinality(Adding(d)) <= Cardinality(DriftWorkers)
      BY DEF DriftInv, RaceRoom
    <3>5. open'[d] \in SUBSET (open[d] \cup {r[2]}) /\ Adding(d)' \in SUBSET (Adding(d) \ {w})
      BY <2>2, <3>3
    <3>6. IsFiniteSet(open[d]) /\ IsFiniteSet(Adding(d)) /\ Cardinality(DriftWorkers) \in Nat
      BY RaceFinite
    <3>7. PICK A, B, P, Q, x : /\ A = open[d] /\ B = Adding(d) /\ P = open'[d]
                               /\ Q = Adding(d)' /\ x = r[2]
      OBVIOUS
    <3>8. Cardinality(P) + Cardinality(Q) <= Cardinality(DriftWorkers)
      <4> HIDE DEF Adding
      <4>1. /\ IsFiniteSet(A) /\ IsFiniteSet(B) /\ w \in B
            /\ P \in SUBSET (A \cup {x}) /\ Q \in SUBSET (B \ {w})
            /\ Cardinality(A) + Cardinality(B) <= Cardinality(DriftWorkers)
        BY <2>3, <3>4, <3>5, <3>6, <3>7
      <4> QED
        BY <3>6, <4>1, RaceMoves
    <3> QED
      BY <3>7, <3>8
  <2>4. CASE w \notin Adding(d)
    <3>1. new = {}
      BY <2>4 DEF Adding
    <3> HIDE DEF new
    <3> QED
      BY <2>1, <2>2, <3>1, RaceFinite, RaceKept DEF DriftInv, RaceRoom
  <2> QED
    BY <2>3, <2>4
<1> QED
  BY <1>2, <1>4, <1>5 DEF DriftInv

LEMMA DriftStep == DriftInv /\ [DriftNext]_driftVars => DriftInv'
<1> SUFFICES ASSUME DriftInv, [DriftNext]_driftVars PROVE DriftInv'
  OBVIOUS
<1>T. /\ scan \in [DriftWorkers -> Scans] /\ members \subseteq DriftUsers
      /\ grantOf \in [DriftUsers -> {"none", "adding", "active", "leaving", "gone"}]
      /\ fire \in {"seen", "due", "sending"}
  BY DEF DriftInv, ScansTyped, DriftTypeOK
<1>S. NoScan \in Scans
  BY DEF NoScan, Scans
<1>1. ASSUME UNCHANGED <<open, scan>>, members' \subseteq DriftUsers,
             grantOf' \in [DriftUsers -> {"none", "adding", "active", "leaving", "gone"}],
             fire' \in {"seen", "due", "sending"}
      PROVE  DriftInv'
  <2>1. RaceRoom' /\ OneRow'
    BY <1>1 DEF DriftInv, RaceRoom, Adding, OneRow
  <2>2. ScansTyped'
    BY <1>1 DEF DriftInv, ScansTyped, DriftTypeOK, Scans
  <2> QED
    BY <2>1, <2>2 DEF DriftInv
<1>2. ASSUME UNCHANGED driftVars PROVE DriftInv'
  BY <1>1, <1>2, <1>T DEF driftVars
<1>3. ASSUME NEW u \in DriftUsers, OrderAdds(u) \/ OrderEnds(u) \/ OrderRemoves(u) \/ Tamper(u)
      PROVE  DriftInv'
  <2>1. UNCHANGED <<open, scan, fire>>
    BY <1>3 DEF OrderAdds, OrderEnds, OrderRemoves, Tamper
  <2>2. members' \subseteq DriftUsers
    BY <1>3, <1>T DEF OrderAdds, OrderEnds, OrderRemoves, Tamper
  <2>3. grantOf' \in [DriftUsers -> {"none", "adding", "active", "leaving", "gone"}]
    <3>1. CASE OrderAdds(u)
      BY <3>1, <1>T DEF OrderAdds
    <3>2. CASE OrderEnds(u)
      <4>1. grantOf' = [grantOf EXCEPT ![u] = IF @ = "adding" THEN "active" ELSE "leaving"]
        BY <3>2 DEF OrderEnds
      <4> QED
        BY <4>1, <1>T
    <3>3. CASE OrderRemoves(u)
      BY <3>3, <1>T DEF OrderRemoves
    <3>4. CASE Tamper(u)
      BY <3>4, <1>T DEF Tamper
    <3> QED
      BY <1>3, <3>1, <3>2, <3>3, <3>4
  <2> QED
    BY <1>1, <1>T, <2>1, <2>2, <2>3
<1>4. ASSUME CronFires \/ CheckSchedule \/ FireMissed \/ SendScan \/ SenderDies
             \/ RunDriftNow \/ SetDriftConfig
      PROVE  DriftInv'
  <2>1. UNCHANGED <<open, scan, members, grantOf>> /\ fire' \in {"seen", "due", "sending"}
    BY <1>4, <1>T DEF CronFires, CheckSchedule, FireMissed, SendScan, SenderDies, RunDriftNow,
                      SetDriftConfig
  <2> QED
    BY <1>1, <1>T, <2>1
<1>5. ASSUME NEW w \in DriftWorkers, ScanReads(w) PROVE DriftInv'
  <2>1. CASE Monitored
    <3> DEFINE s == [NoScan EXCEPT !.at = "granted", !.want = Granted,
                                   !.auto = driftMode = "auto_remediate"]
    <3>1. s \in Scans /\ s.rows = {} /\ s.fixed = {} /\ s.todo = {}
      BY DEF NoScan, Scans, Granted
    <3>2. scan' = [scan EXCEPT ![w] = s] /\ UNCHANGED <<open, members, grantOf, fire>>
      BY <1>5, <2>1 DEF ScanReads
    <3> HIDE DEF s
    <3>3. Quiet(w, s)
      BY <3>1, <3>2 DEF Quiet
    <3> QED
      BY <3>2, <3>3, <1>T, QuietKeeps
  <2>2. CASE ~Monitored
    BY <1>1, <1>5, <1>T, <2>2 DEF ScanReads
  <2> QED
    BY <2>1, <2>2
<1>6. ASSUME NEW w \in DriftWorkers, ScanLists(w) PROVE DriftInv'
  <2> DEFINE todo == (Missing(scan[w].want) \X {"missing_access"})
                        \cup (OutOfBand(scan[w].want) \X {"out_of_band"})
             s == [scan[w] EXCEPT !.at = "listed", !.todo = todo]
  <2>0. scan[w] \in Scans /\ scan[w].rows = {} /\ scan[w].fixed = {}
    BY <1>6, <1>T DEF ScanLists, DriftInv, OneRow
  <2>1. todo \subseteq Divergences
    <3>1. Missing(scan[w].want) \subseteq DriftUsers /\ OutOfBand(scan[w].want) \subseteq DriftUsers
      BY <2>0, <1>T DEF Missing, OutOfBand, Scans
    <3> QED
      BY <3>1 DEF Divergences, Directions
  <2>2. s \in Scans /\ s.rows = {} /\ s.fixed = {} /\ s.at = "listed"
    <3> HIDE DEF todo
    <3> QED
      BY <2>0, <2>1 DEF Scans
  <2>3. scan' = [scan EXCEPT ![w] = s] /\ UNCHANGED <<open, members, grantOf, fire>>
    BY <1>6, <1>T DEF ScanLists
  <2> HIDE DEF s
  <2>4. Quiet(w, s)
    BY <2>2, <2>3 DEF Quiet
  <2> QED
    BY <2>3, <2>4, <1>T, QuietKeeps
<1>7. ASSUME NEW w \in DriftWorkers, ListFails(w) \/ ScanDies(w) PROVE DriftInv'
  <2>1. scan' = [scan EXCEPT ![w] = NoScan] /\ UNCHANGED <<open, members, grantOf, fire>>
    BY <1>7 DEF ListFails, ScanDies
  <2>2. Quiet(w, NoScan)
    BY <2>1, <1>S DEF Quiet, NoScan
  <2> QED
    BY <2>1, <2>2, <1>T, QuietKeeps
<1>8. ASSUME NEW w \in DriftWorkers, NEW d \in Divergences, ScanHandles(w, d) PROVE DriftInv'
  <2>1. PICK r \in RowFor(d) :
          /\ scan' = Handled(w, d, r, PutsRight(w, r))
          /\ members' \in {members, members \cup {d[1]}, members \ {d[1]}}
    BY <1>8 DEF ScanHandles
  <2>2. d \in scan[w].todo /\ UNCHANGED <<grantOf, open, fire>>
    BY <1>8 DEF ScanHandles
  <2>3. members' \subseteq DriftUsers /\ PutsRight(w, r) \in BOOLEAN
    BY <1>T, <2>1 DEF Divergences, PutsRight, Scans
  <2> QED
    BY <2>1, <2>2, <2>3, HandledKeeps
<1>9. ASSUME NEW w \in DriftWorkers, NEW d \in Divergences, RemediationFails(w, d) PROVE DriftInv'
  <2>1. PICK r \in RowFor(d) : scan' = Handled(w, d, r, FALSE)
    BY <1>9 DEF RemediationFails
  <2>2. d \in scan[w].todo /\ UNCHANGED <<grantOf, open, fire, members>>
    BY <1>9 DEF RemediationFails
  <2> QED
    BY <2>1, <2>2, <1>T, HandledKeeps
<1> QED
  BY <1>2, <1>3, <1>4, <1>5, <1>6, <1>7, <1>8, <1>9, DriftCommitKeeps DEF DriftNext, ScanStep

LEMMA DriftInvariant == DriftSpec => []DriftInv
BY DriftInitInv, DriftStep, PTL DEF DriftSpec

(* However many scans run, and whatever fails or dies between, one          *)
(* divergence never has more open findings than there are workers.          *)
THEOREM DriftCorrect == DriftSpec => []OneOpenFindingRace
<1>1. DriftInv => OneOpenFindingRace
  <2> SUFFICES ASSUME DriftInv, NEW d \in Divergences
               PROVE  Cardinality(open[d]) <= Cardinality(DriftWorkers)
    BY DEF OneOpenFindingRace
  <2>1. IsFiniteSet({}) /\ Cardinality({}) = 0
    BY FS_EmptySet
  <2>2. Cardinality(open[d]) \in Nat /\ Cardinality(Adding(d)) \in Nat
    BY RaceFinite, FS_CardinalityType
  <2>3. Cardinality(open[d]) + Cardinality(Adding(d)) <= Cardinality(DriftWorkers)
    BY DEF DriftInv, RaceRoom
  <2> QED
    BY <2>2, <2>3, RaceFinite
<1> QED
  BY <1>1, DriftInvariant, PTL

-------------------------------------------------------------------------------
(***************************************************************************)
(* Attestations: EvidenceStands.  A run that has found no artifact of a    *)
(* kind and not yet inserted its own takes the room of one, so an insert   *)
(* turns the one into the other, and there is always an id left for it.    *)
(***************************************************************************)
Artifacts ==
  {Absent} \cup [kind: {"handover"}, status: {"pending", "acknowledged"}, last: Nat,
                 listed: BOOLEAN]
           \cup [kind: {"revocation"}, status: {"emitted"}, last: Nat, listed: BOOLEAN]

Emitters == [at: {"idle", "start", "insert", "mail"}, kind: {"none"} \cup ArtifactKinds,
             row: {0} \cup ArtifactIds]

AttestTyped ==
  /\ stage \in {"processing", "provisioned", "revoking", "revoked"}
  /\ removed \in BOOLEAN
  /\ artifact \in [ArtifactIds -> Artifacts]
  /\ \A i \in ArtifactIds : artifact[i] # Absent => artifact[i].last <= attestDay
  /\ emitting \in [Runs -> Emitters]
  /\ attestDay \in 0..AttestDays

(* What a run, a form and the reminder have read of an artifact is so.      *)
EmittersRight ==
  \A r \in Runs :
    /\ emitting[r].at # "idle" => emitting[r].kind \in ArtifactKinds
    /\ emitting[r].at # "idle" /\ emitting[r].kind = "revocation" => removed
    /\ emitting[r].at = "mail" =>
         emitting[r].row \in ArtifactIds /\ artifact[emitting[r].row] # Absent

LinksRight ==
  /\ linked \subseteq ArtifactIds /\ \A i \in linked : artifact[i] # Absent
  /\ posting \in [Acknowledgers -> {0} \cup ArtifactIds]
  /\ \A a \in Acknowledgers : posting[a] # 0 => artifact[posting[a]].kind = "handover"

ReminderRight ==
  /\ reminder = {} \/ \E m : reminder = {m}
  /\ \A m \in reminder :
       /\ m = [rows |-> m.rows, mailed |-> m.mailed]
       /\ m.rows \subseteq ArtifactIds
       /\ \A i \in m.rows : artifact[i].kind = "handover" /\ Overdue(i)

(* Runs that are about to insert an artifact of a kind.                     *)
Inserting(k) == {r \in Runs : emitting[r].at = "insert" /\ emitting[r].kind = k}

EvidenceRoom ==
  \A k \in ArtifactKinds : Cardinality(RowsOf(k)) + Cardinality(Inserting(k)) <= Cardinality(Runs)

AttestInv ==
  /\ AttestTyped /\ EmittersRight /\ LinksRight /\ ReminderRight /\ EvidenceRoom
  /\ CertificateListsRemoval

-----------------------------------------------------------------------------
LEMMA ManyIds == 0 \notin ArtifactIds /\ IsFiniteSet(ArtifactIds) /\ Cardinality(Runs) \in Nat
                 /\ Cardinality(ArtifactIds) = 2 * Cardinality(Runs)
<1>1. Cardinality(Runs) \in Nat
  BY AttestAssumption, FS_CardinalityType
<1>2. 2 * Cardinality(Runs) \in Nat
  BY <1>1
<1> QED
  BY <1>1, <1>2, FS_Interval DEF ArtifactIds

LEMMA RowsFinite ==
  ASSUME NEW k
  PROVE  /\ IsFiniteSet(RowsOf(k)) /\ Cardinality(RowsOf(k)) \in Nat
         /\ IsFiniteSet(Inserting(k)) /\ Cardinality(Inserting(k)) \in Nat
<1>1. RowsOf(k) \subseteq ArtifactIds /\ Inserting(k) \subseteq Runs
  BY DEF RowsOf, Inserting
<1> QED
  BY <1>1, ManyIds, AttestAssumption, FS_Subset, FS_CardinalityType

LEMMA TwoSets ==
  ASSUME NEW A, NEW B, IsFiniteSet(A), IsFiniteSet(B)
  PROVE  /\ IsFiniteSet(A \cup B) /\ Cardinality(A \cup B) \in Nat
         /\ Cardinality(A \cup B) <= Cardinality(A) + Cardinality(B)
<1>1. /\ Cardinality(A) \in Nat /\ Cardinality(B) \in Nat /\ IsFiniteSet(A \cap B)
      /\ IsFiniteSet(A \cup B)
  BY FS_Intersection, FS_Union, FS_CardinalityType
<1>2. Cardinality(A \cap B) \in Nat /\ Cardinality(A \cup B) \in Nat
  BY <1>1, FS_CardinalityType
<1>3. Cardinality(A \cup B) = Cardinality(A) + Cardinality(B) - Cardinality(A \cap B)
  BY FS_Union
<1> QED
  BY <1>1, <1>2, <1>3

(* There is an id for what a run inserts.                                   *)
LEMMA IdLeft ==
  ASSUME AttestInv, NEW r \in Runs, emitting[r].at = "insert"
  PROVE  \E i \in ArtifactIds : artifact[i] = Absent
<1> SUFFICES ASSUME \A i \in ArtifactIds : artifact[i] # Absent PROVE FALSE
  OBVIOUS
<1>1. \A i \in ArtifactIds : artifact[i].kind \in ArtifactKinds
  BY DEF AttestInv, AttestTyped, Artifacts, ArtifactKinds
<1>2. ArtifactIds \subseteq RowsOf("handover") \cup RowsOf("revocation")
  BY <1>1 DEF RowsOf, ArtifactKinds
<1>3. /\ IsFiniteSet(RowsOf("handover") \cup RowsOf("revocation"))
      /\ Cardinality(RowsOf("handover") \cup RowsOf("revocation"))
           <= Cardinality(RowsOf("handover")) + Cardinality(RowsOf("revocation"))
      /\ Cardinality(RowsOf("handover") \cup RowsOf("revocation")) \in Nat
  <2>1. /\ IsFiniteSet(RowsOf("handover")) /\ IsFiniteSet(RowsOf("revocation"))
        /\ Cardinality(RowsOf("handover")) \in Nat /\ Cardinality(RowsOf("revocation")) \in Nat
    BY RowsFinite
  <2> QED
    BY <2>1, TwoSets
<1>4. Cardinality(ArtifactIds) <= Cardinality(RowsOf("handover") \cup RowsOf("revocation"))
  BY <1>2, <1>3, FS_Subset
<1>5. PICK k \in ArtifactKinds : r \in Inserting(k)
  BY DEF Inserting, AttestInv, EmittersRight
<1>6. Cardinality(Inserting(k)) >= 1
  <2>1. Cardinality(Inserting(k)) # 0
    BY <1>5, RowsFinite, FS_EmptySet
  <2> QED
    BY <2>1, RowsFinite
<1>7. /\ Cardinality(RowsOf("handover")) + Cardinality(Inserting("handover")) <= Cardinality(Runs)
      /\ Cardinality(RowsOf("revocation")) + Cardinality(Inserting("revocation"))
           <= Cardinality(Runs)
  BY DEF AttestInv, EvidenceRoom, ArtifactKinds
<1>8. /\ Cardinality(RowsOf("handover")) \in Nat /\ Cardinality(RowsOf("revocation")) \in Nat
      /\ Cardinality(Inserting("handover")) \in Nat /\ Cardinality(Inserting("revocation")) \in Nat
  BY RowsFinite
<1>9. k = "handover" \/ k = "revocation"
  BY DEF ArtifactKinds
<1> QED
  BY <1>3, <1>4, <1>6, <1>7, <1>8, <1>9, ManyIds

-----------------------------------------------------------------------------
LEMMA AttestInitInv == AttestInit => AttestInv
<1> SUFFICES ASSUME AttestInit PROVE AttestInv
  OBVIOUS
<1>1. AttestTyped
  <2>1. NotEmitting \in Emitters /\ Absent \in Artifacts
    BY DEF NotEmitting, Emitters, Artifacts
  <2>2. /\ artifact \in [ArtifactIds -> Artifacts] /\ emitting \in [Runs -> Emitters]
        /\ \A i \in ArtifactIds : artifact[i] = Absent
    BY <2>1 DEF AttestInit
  <2> QED
    <3>1. AttestDays \in Nat /\ attestDay = 0
      BY AttestAssumption DEF AttestInit
    <3>2. attestDay \in 0..AttestDays
      BY <3>1
    <3> QED
      BY <2>2, <3>2 DEF AttestTyped, AttestInit
<1>2. EmittersRight /\ LinksRight /\ ReminderRight
  BY DEF EmittersRight, LinksRight, ReminderRight, AttestInit, NotEmitting
<1>3. \A k \in ArtifactKinds : RowsOf(k) = {} /\ Inserting(k) = {}
  BY DEF RowsOf, Inserting, AttestInit, NotEmitting, Absent, ArtifactKinds
<1>4. EvidenceRoom
  <2>1. Cardinality({}) = 0
    BY FS_EmptySet
  <2> QED
    BY <1>3, <2>1, ManyIds DEF EvidenceRoom
<1>5. CertificateListsRemoval
  BY <1>3 DEF CertificateListsRemoval, ArtifactKinds
<1> QED
  BY <1>1, <1>2, <1>4, <1>5 DEF AttestInv

LEMMA FewerKept ==
  ASSUME NEW A, NEW B, NEW C, IsFiniteSet(B), C \subseteq B, NEW n \in Nat,
         Cardinality(A) \in Nat, Cardinality(A) + Cardinality(B) <= n
  PROVE  Cardinality(A) + Cardinality(C) <= n
<1>1. Cardinality(C) <= Cardinality(B) /\ Cardinality(C) \in Nat /\ Cardinality(B) \in Nat
  BY FS_Subset, FS_CardinalityType
<1> QED
  BY <1>1

(* An artifact that is there keeps its kind and what it lists.              *)
SameArtifact(a, b) ==
  \/ a = Absent /\ b = Absent
  \/ a # Absent /\ b # Absent /\ a.kind = b.kind /\ a.listed = b.listed

LEMMA SameRows ==
  ASSUME AttestTyped, artifact' \in [ArtifactIds -> Artifacts],
         \A i \in ArtifactIds : SameArtifact(artifact[i], artifact'[i])
  PROVE  \A k : RowsOf(k)' = RowsOf(k)
BY DEF RowsOf, SameArtifact, AttestTyped

(* The other variables of the composite steps: emitters may leave insert,   *)
(* artifacts keep their kind.                                               *)
LEMMA EvidenceRoomKept ==
  ASSUME AttestInv, artifact' \in [ArtifactIds -> Artifacts],
         \A i \in ArtifactIds : SameArtifact(artifact[i], artifact'[i]),
         \A k \in ArtifactKinds : Inserting(k)' \subseteq Inserting(k)
  PROVE  EvidenceRoom' /\ CertificateListsRemoval'
<1>1. \A k : RowsOf(k)' = RowsOf(k)
  BY SameRows DEF AttestInv
<1>2. EvidenceRoom'
  <2> SUFFICES ASSUME NEW k \in ArtifactKinds
               PROVE  Cardinality(RowsOf(k)') + Cardinality(Inserting(k)') <= Cardinality(Runs)
    BY DEF EvidenceRoom
  <2> QED
    BY <1>1, RowsFinite, ManyIds, FewerKept DEF AttestInv, EvidenceRoom
<1>3. CertificateListsRemoval'
  <2> SUFFICES ASSUME NEW i \in RowsOf("revocation")' PROVE artifact'[i].listed
    BY DEF CertificateListsRemoval
  <2>1. i \in RowsOf("revocation") /\ i \in ArtifactIds
    BY <1>1 DEF RowsOf
  <2>2. artifact[i] # Absent
    BY <2>1 DEF RowsOf, Absent
  <2> QED
    BY <2>1, <2>2 DEF SameArtifact, AttestInv, CertificateListsRemoval
<1> QED
  BY <1>2, <1>3

-----------------------------------------------------------------------------
(* A step of a run that inserts nothing.                                    *)
EmitterMoves(r, e) ==
  /\ emitting' = [emitting EXCEPT ![r] = e]
  /\ e \in Emitters /\ e.at # "insert"
  /\ e.at # "idle" => e.kind \in ArtifactKinds
  /\ e.at # "idle" /\ e.kind = "revocation" => removed
  /\ e.at = "mail" => e.row \in ArtifactIds /\ artifact[e.row] # Absent
  /\ stage' \in {"processing", "provisioned", "revoking", "revoked"}
  /\ linked \subseteq linked' /\ linked' \subseteq linked \cup {i \in ArtifactIds : artifact[i] # Absent}
  /\ UNCHANGED <<removed, artifact, posting, reminder, attestDay>>

LEMMA EmitterMovesKeeps ==
  ASSUME AttestInv, NEW r \in Runs, NEW e, EmitterMoves(r, e)
  PROVE  AttestInv'
<1>1. AttestTyped'
  BY DEF AttestInv, AttestTyped, EmitterMoves
<1>2. EmittersRight'
  BY DEF AttestInv, AttestTyped, EmittersRight, EmitterMoves
<1>3. LinksRight'
  BY DEF AttestInv, LinksRight, EmitterMoves
<1>4. ReminderRight'
  BY DEF AttestInv, ReminderRight, EmitterMoves, Overdue
<1>5. \A k \in ArtifactKinds : Inserting(k)' \subseteq Inserting(k)
  BY DEF Inserting, EmitterMoves, AttestInv, AttestTyped
<1>6. /\ artifact' \in [ArtifactIds -> Artifacts]
      /\ \A i \in ArtifactIds : SameArtifact(artifact[i], artifact'[i])
  BY DEF EmitterMoves, AttestInv, AttestTyped, SameArtifact
<1>7. EvidenceRoom' /\ CertificateListsRemoval'
  BY <1>5, <1>6, EvidenceRoomKept
<1> QED
  BY <1>1, <1>2, <1>3, <1>4, <1>7 DEF AttestInv

(* A step in which runs stand still and artifacts keep their kind.          *)
EmittersStay ==
  /\ UNCHANGED <<emitting, removed>>
  /\ stage' \in {"processing", "provisioned", "revoking", "revoked"}
  /\ artifact' \in [ArtifactIds -> Artifacts]
  /\ \A i \in ArtifactIds : /\ SameArtifact(artifact[i], artifact'[i])
                            /\ artifact[i] # Absent => artifact'[i].last <= attestDay'
  /\ attestDay' \in 0..AttestDays

LEMMA EmittersStayKeeps ==
  ASSUME AttestInv, EmittersStay, LinksRight', ReminderRight'
  PROVE  AttestInv'
<1>1. AttestTyped'
  BY DEF AttestInv, AttestTyped, EmittersStay, SameArtifact
<1>2. EmittersRight'
  BY DEF AttestInv, AttestTyped, EmittersRight, EmittersStay, SameArtifact
<1>3. EvidenceRoom' /\ CertificateListsRemoval'
  <2>1. \A k \in ArtifactKinds : Inserting(k)' \subseteq Inserting(k)
    BY DEF Inserting, EmittersStay
  <2> QED
    BY <2>1, EvidenceRoomKept DEF EmittersStay
<1> QED
  BY <1>1, <1>2, <1>3 DEF AttestInv

(* Links stay right as long as artifacts keep their kind.                   *)
LEMMA LinksStay ==
  ASSUME AttestInv, \A i \in ArtifactIds : SameArtifact(artifact[i], artifact'[i]),
         linked' \subseteq linked \cup {i \in ArtifactIds : artifact[i] # Absent},
         posting' \in [Acknowledgers -> {0} \cup ArtifactIds],
         \A a \in Acknowledgers : posting'[a] # 0 => artifact[posting'[a]].kind = "handover"
  PROVE  LinksRight'
BY DEF AttestInv, LinksRight, SameArtifact

-----------------------------------------------------------------------------
(* The step of a run that has found nothing and is about to insert.         *)
LEMMA EmitCheckKeeps ==
  ASSUME AttestInv, NEW r \in Runs, EmitCheck(r)
  PROVE  AttestInv'
<1>0. emitting[r] \in Emitters /\ emitting[r].at = "start"
  BY DEF AttestInv, AttestTyped, EmitCheck
<1>1. CASE ~ MayEmit(emitting[r].kind)
  <2>1. EmitterMoves(r, NotEmitting)
    <3>1. emitting' = [emitting EXCEPT ![r] = NotEmitting]
      BY <1>1 DEF EmitCheck
    <3> QED
      BY <3>1 DEF EmitterMoves, EmitCheck, NotEmitting, Emitters, AttestInv, AttestTyped
  <2> QED
    BY <2>1, EmitterMovesKeeps
<1>2. CASE MayEmit(emitting[r].kind)
  <2> DEFINE e == [emitting[r] EXCEPT !.at = "insert"]
  <2>1. emitting' = [emitting EXCEPT ![r] = e]
    BY <1>2 DEF EmitCheck
  <2>2. e \in Emitters /\ e.at = "insert" /\ e.kind = emitting[r].kind
    BY <1>0 DEF Emitters
  <2>3. UNCHANGED <<stage, copies, removed, artifact, linked, posting, reminder, attestDay>>
    BY DEF EmitCheck
  <2> HIDE DEF e
  <2>4. emitting' \in [Runs -> Emitters] /\ emitting'[r] = e
        /\ \A q \in Runs \ {r} : emitting'[q] = emitting[q]
    BY <2>1, <2>2 DEF AttestInv, AttestTyped
  <2>5. AttestTyped'
    BY <2>3, <2>4 DEF AttestInv, AttestTyped
  <2>6. EmittersRight'
    BY <1>0, <2>2, <2>3, <2>4 DEF AttestInv, EmittersRight
  <2>7. LinksRight' /\ ReminderRight'
    BY <2>3 DEF AttestInv, LinksRight, ReminderRight, Overdue
  <2>8. \A k : RowsOf(k)' = RowsOf(k)
    BY <2>3 DEF RowsOf
  <2>9. EvidenceRoom'
    <3> SUFFICES ASSUME NEW k \in ArtifactKinds
                 PROVE  Cardinality(RowsOf(k)') + Cardinality(Inserting(k)') <= Cardinality(Runs)
      BY DEF EvidenceRoom
    <3>1. CASE k = emitting[r].kind
      <4>1. RowsOf(k) = {}
        BY <1>2, <3>1 DEF MayEmit
      <4>2. Inserting(k)' \subseteq Runs
        BY DEF Inserting
      <4>3. Cardinality(Inserting(k)') <= Cardinality(Runs) /\ Cardinality(Inserting(k)') \in Nat
        BY <4>2, AttestAssumption, FS_Subset, FS_CardinalityType
      <4> QED
        BY <2>8, <4>1, <4>3, ManyIds, FS_EmptySet
    <3>2. CASE k # emitting[r].kind
      <4>1. Inserting(k)' \subseteq Inserting(k)
        BY <2>2, <2>4, <3>2 DEF Inserting
      <4> QED
        BY <2>8, <4>1, RowsFinite, ManyIds, FewerKept DEF AttestInv, EvidenceRoom
    <3> QED
      BY <3>1, <3>2
  <2>10. CertificateListsRemoval'
    BY <2>3, <2>8 DEF CertificateListsRemoval, AttestInv
  <2> QED
    BY <2>5, <2>6, <2>7, <2>9, <2>10 DEF AttestInv
<1> QED
  BY <1>1, <1>2

(* The insert.                                                              *)
LEMMA EmitInsertAt ==
  ASSUME AttestInv, NEW r \in Runs, EmitInsert(r)
  PROVE  \E i \in ArtifactIds :
           /\ artifact[i] = Absent
           /\ artifact' = [artifact EXCEPT ![i] = NewArtifact(emitting[r].kind)]
           /\ emitting' = [emitting EXCEPT ![r].at = "mail", ![r].row = i]
<1>1. \E i \in ArtifactIds : artifact[i] = Absent
  BY IdLeft DEF EmitInsert
<1> QED
  BY <1>1 DEF EmitInsert

LEMMA NewArtifactTyped ==
  ASSUME AttestInv, NEW k \in ArtifactKinds, k = "revocation" => removed
  PROVE  /\ NewArtifact(k) \in Artifacts /\ NewArtifact(k) # Absent
         /\ NewArtifact(k).kind = k /\ NewArtifact(k).last = attestDay
         /\ k = "revocation" => NewArtifact(k).listed
<1>1. attestDay \in Nat /\ removed \in BOOLEAN
  BY AttestAssumption DEF AttestInv, AttestTyped
<1>2. CASE k = "handover"
  BY <1>1, <1>2 DEF NewArtifact, Artifacts, Absent
<1>3. CASE k = "revocation"
  BY <1>1, <1>3 DEF NewArtifact, Artifacts, Absent
<1> QED
  BY <1>2, <1>3 DEF ArtifactKinds

LEMMA EmitInsertKeeps ==
  ASSUME AttestInv, NEW r \in Runs, EmitInsert(r)
  PROVE  AttestInv'
<1>1. PICK i \in ArtifactIds :
           /\ artifact[i] = Absent
           /\ artifact' = [artifact EXCEPT ![i] = NewArtifact(emitting[r].kind)]
           /\ emitting' = [emitting EXCEPT ![r].at = "mail", ![r].row = i]
  BY EmitInsertAt
<1>2. /\ emitting[r] \in Emitters /\ emitting[r].at = "insert"
      /\ emitting[r].kind \in ArtifactKinds
      /\ emitting[r].kind = "revocation" => removed
  BY DEF AttestInv, AttestTyped, EmittersRight, EmitInsert
<1>3. PICK k, a : /\ k = emitting[r].kind /\ a = NewArtifact(k)
                  /\ a \in Artifacts /\ a # Absent /\ a.kind = k /\ a.last = attestDay
                  /\ k = "revocation" => a.listed
  BY <1>2, NewArtifactTyped
<1>4. UNCHANGED <<stage, copies, removed, linked, posting, reminder, attestDay>>
  BY DEF EmitInsert
<1>5. /\ artifact' \in [ArtifactIds -> Artifacts] /\ artifact'[i] = a
      /\ \A j \in ArtifactIds \ {i} : artifact'[j] = artifact[j]
  BY <1>1, <1>3 DEF AttestInv, AttestTyped
<1>6. PICK e : /\ emitting' = [emitting EXCEPT ![r] = e]
               /\ e \in Emitters /\ e.at = "mail" /\ e.row = i /\ e.kind = k
  <2> DEFINE f == [[emitting[r] EXCEPT !.at = "mail"] EXCEPT !.row = i]
  <2>1. emitting' = [emitting EXCEPT ![r] = f]
    BY <1>1, <1>2 DEF AttestInv, AttestTyped
  <2>2. f \in Emitters /\ f.at = "mail" /\ f.row = i /\ f.kind = k
    BY <1>2, <1>3 DEF Emitters
  <2> QED
    BY <2>1, <2>2
<1>7. /\ emitting' \in [Runs -> Emitters] /\ emitting'[r] = e
      /\ \A q \in Runs \ {r} : emitting'[q] = emitting[q]
  BY <1>6 DEF AttestInv, AttestTyped
<1>8. AttestTyped'
  <2>1. attestDay <= attestDay
    BY DEF AttestInv, AttestTyped
  <2> QED
    BY <1>3, <1>4, <1>5, <1>7, <2>1 DEF AttestInv, AttestTyped
<1>9. EmittersRight'
  BY <1>1, <1>2, <1>3, <1>4, <1>5, <1>6, <1>7 DEF AttestInv, EmittersRight
<1>10. LinksRight'
  <2>1. \A j \in linked : j # i
    BY <1>1 DEF AttestInv, LinksRight
  <2>2. \A b \in Acknowledgers : posting[b] # 0 => posting[b] # i
    BY <1>1 DEF AttestInv, LinksRight, Absent
  <2> QED
    BY <1>3, <1>4, <1>5, <2>1, <2>2 DEF AttestInv, LinksRight
<1>11. ReminderRight'
  <2>1. \A m \in reminder : i \notin m.rows
    BY <1>1 DEF AttestInv, ReminderRight, Absent
  <2> QED
    BY <1>4, <1>5, <2>1 DEF AttestInv, ReminderRight, Overdue
<1>12. /\ RowsOf(k)' = RowsOf(k) \cup {i} /\ i \notin RowsOf(k)
       /\ \A l \in ArtifactKinds \ {k} : RowsOf(l)' = RowsOf(l)
  BY <1>1, <1>3, <1>5, <1>2 DEF RowsOf, Absent, ArtifactKinds
<1>13. /\ Inserting(k)' = Inserting(k) \ {r} /\ r \in Inserting(k)
       /\ \A l \in ArtifactKinds : Inserting(l)' \subseteq Inserting(l)
  BY <1>2, <1>3, <1>6, <1>7 DEF Inserting
<1>14. EvidenceRoom'
  <2> SUFFICES ASSUME NEW l \in ArtifactKinds
               PROVE  Cardinality(RowsOf(l)') + Cardinality(Inserting(l)') <= Cardinality(Runs)
    BY DEF EvidenceRoom
  <2>0. Cardinality(RowsOf(l)) + Cardinality(Inserting(l)) <= Cardinality(Runs)
    BY DEF AttestInv, EvidenceRoom
  <2>1. CASE l = k
    <3>1. Cardinality(RowsOf(k) \cup {i}) = Cardinality(RowsOf(k)) + 1
      BY <1>12, RowsFinite, FS_AddElement
    <3>2. Cardinality(Inserting(k) \ {r}) = Cardinality(Inserting(k)) - 1
      BY <1>13, RowsFinite, FS_RemoveElement
    <3>3. Cardinality(RowsOf(k)) \in Nat /\ Cardinality(Inserting(k)) \in Nat
      BY RowsFinite
    <3> QED
      BY <2>0, <2>1, <3>1, <3>2, <3>3, <1>12, <1>13, ManyIds
  <2>2. CASE l # k
    BY <2>0, <2>2, <1>12, <1>13, RowsFinite, ManyIds, FewerKept
  <2> QED
    BY <2>1, <2>2
<1>15. CertificateListsRemoval'
  <2> SUFFICES ASSUME NEW j \in RowsOf("revocation")' PROVE artifact'[j].listed
    BY DEF CertificateListsRemoval
  <2>1. CASE j = i
    BY <2>1, <1>3, <1>5 DEF RowsOf
  <2>2. CASE j # i
    <3>1. j \in ArtifactIds /\ artifact'[j] = artifact[j] /\ j \in RowsOf("revocation")
      BY <2>2, <1>5 DEF RowsOf
    <3> QED
      BY <3>1 DEF AttestInv, CertificateListsRemoval
  <2> QED
    BY <2>1, <2>2
<1> QED
  BY <1>8, <1>9, <1>10, <1>11, <1>14, <1>15 DEF AttestInv

-----------------------------------------------------------------------------
LEMMA Unmoved ==
  ASSUME AttestInv, UNCHANGED artifact
  PROVE  /\ artifact' \in [ArtifactIds -> Artifacts]
         /\ \A i \in ArtifactIds : /\ SameArtifact(artifact[i], artifact'[i])
                                   /\ artifact[i] # Absent => artifact'[i].last <= attestDay
BY DEF AttestInv, AttestTyped, SameArtifact

LEMMA AckCommitRow ==
  ASSUME AttestInv, NEW a \in Acknowledgers, AckCommit(a)
  PROVE  \E b \in Artifacts :
           /\ posting[a] \in ArtifactIds /\ artifact[posting[a]].kind = "handover"
           /\ artifact' = [artifact EXCEPT ![posting[a]] = b]
           /\ b # Absent /\ b.kind = "handover" /\ b.listed = artifact[posting[a]].listed
           /\ b.last = artifact[posting[a]].last /\ b.status = "acknowledged"
<1>1. posting[a] \in ArtifactIds /\ artifact[posting[a]].kind = "handover"
  BY DEF AttestInv, LinksRight, AckCommit
<1>2. artifact[posting[a]] \in [kind: {"handover"}, status: {"pending", "acknowledged"}, last: Nat,
                                listed: BOOLEAN]
  BY <1>1 DEF AttestInv, AttestTyped, Artifacts, Absent
<1> DEFINE b == [artifact[posting[a]] EXCEPT !.status = "acknowledged"]
<1>3. /\ b \in [kind: {"handover"}, status: {"pending", "acknowledged"}, last: Nat, listed: BOOLEAN]
      /\ b.kind = "handover" /\ b.listed = artifact[posting[a]].listed
      /\ b.last = artifact[posting[a]].last /\ b.status = "acknowledged"
  BY <1>2
<1>4. artifact' = [artifact EXCEPT ![posting[a]] = b]
  BY <1>1 DEF AckCommit, AttestInv, AttestTyped
<1>5. b \in Artifacts /\ b # Absent
  BY <1>3 DEF Artifacts, Absent
<1> QED
  BY <1>1, <1>3, <1>4, <1>5

LEMMA ReminderRows ==
  ASSUME AttestInv, RemindCommit
  PROVE  \E m \in reminder :
           /\ m.rows \subseteq ArtifactIds
           /\ \A i \in ArtifactIds :
                /\ i \in m.rows =>
                     /\ artifact[i] \in Artifacts /\ artifact[i].kind = "handover" /\ Overdue(i)
                     /\ artifact'[i] \in Artifacts /\ artifact'[i] # Absent
                     /\ artifact'[i].kind = "handover"
                     /\ artifact'[i].listed = artifact[i].listed
                     /\ artifact'[i].status = artifact[i].status
                     /\ artifact'[i].last = attestDay
                /\ i \notin m.rows => artifact'[i] = artifact[i]
           /\ DOMAIN artifact' = ArtifactIds /\ artifact' = [i \in ArtifactIds |-> artifact'[i]]
<1>1. PICK m \in reminder :
        artifact' = [i \in ArtifactIds |-> IF i \in m.rows THEN Reminded(i) ELSE artifact[i]]
  BY DEF RemindCommit
<1>2. m.rows \subseteq ArtifactIds /\ \A i \in m.rows : artifact[i].kind = "handover" /\ Overdue(i)
  BY DEF AttestInv, ReminderRight
<1>3. attestDay \in Nat
  BY AttestAssumption DEF AttestInv, AttestTyped
<1>4. ASSUME NEW i \in m.rows
      PROVE  /\ artifact[i] \in Artifacts
             /\ Reminded(i) \in Artifacts /\ Reminded(i) # Absent /\ Reminded(i).kind = "handover"
             /\ Reminded(i).listed = artifact[i].listed
             /\ Reminded(i).status = artifact[i].status /\ Reminded(i).last = attestDay
  <2>1. artifact[i] \in [kind: {"handover"}, status: {"pending", "acknowledged"}, last: Nat,
                         listed: BOOLEAN]
    BY <1>2 DEF AttestInv, AttestTyped, Artifacts, Absent
  <2>2. /\ Reminded(i) \in [kind: {"handover"}, status: {"pending", "acknowledged"}, last: Nat,
                            listed: BOOLEAN]
        /\ Reminded(i).listed = artifact[i].listed
        /\ Reminded(i).status = artifact[i].status /\ Reminded(i).last = attestDay
    BY <2>1, <1>3 DEF Reminded
  <2> QED
    BY <2>1, <2>2 DEF Artifacts, Absent
<1>5. \A i \in ArtifactIds : artifact'[i] = IF i \in m.rows THEN Reminded(i) ELSE artifact[i]
  BY <1>1
<1>6. DOMAIN artifact' = ArtifactIds /\ artifact' = [i \in ArtifactIds |-> artifact'[i]]
  BY <1>1
<1> QED
  BY <1>2, <1>4, <1>5, <1>6

LEMMA FinishRunKeeps ==
  ASSUME AttestInv, NEW r \in Runs, FinishRun(r)
  PROVE  AttestInv'
<1>1. PICK kind \in ArtifactKinds :
        /\ kind = "revocation" => removed
        /\ stage' \in {"provisioned", "revoked"}
        /\ emitting' = [emitting EXCEPT ![r] = [NotEmitting EXCEPT !.at = "start", !.kind = kind]]
  BY DEF FinishRun, RemovedFirst, ArtifactKinds
<1> DEFINE e == [NotEmitting EXCEPT !.at = "start", !.kind = kind]
<1>2. e \in Emitters /\ e.at = "start" /\ e.kind = kind
  BY DEF NotEmitting, Emitters
<1>3. UNCHANGED <<removed, artifact, linked, posting, reminder, attestDay>>
  BY DEF FinishRun
<1>4. emitting' = [emitting EXCEPT ![r] = e]
  BY <1>1
<1> HIDE DEF e
<1>5. EmitterMoves(r, e)
  BY <1>1, <1>2, <1>3, <1>4 DEF EmitterMoves
<1> QED
  BY <1>5, EmitterMovesKeeps

LEMMA EmitMailKeeps ==
  ASSUME AttestInv, NEW r \in Runs, EmitMail(r)
  PROVE  AttestInv'
<1>1. NotEmitting \in Emitters /\ NotEmitting.at = "idle"
  BY DEF NotEmitting, Emitters
<1>2. emitting[r].row \in ArtifactIds /\ artifact[emitting[r].row] # Absent
  BY DEF EmitMail, AttestInv, EmittersRight
<1>3. EmitterMoves(r, NotEmitting)
  BY <1>1, <1>2 DEF EmitterMoves, EmitMail, AttestInv, AttestTyped
<1> QED
  BY <1>3, EmitterMovesKeeps

LEMMA AttestStep == AttestInv /\ [AttestNext]_attestVars => AttestInv'
<1> SUFFICES ASSUME AttestInv, [AttestNext]_attestVars PROVE AttestInv'
  OBVIOUS
<1>T. /\ attestDay \in 0..AttestDays /\ AttestDays \in Nat /\ attestDay \in Nat
      /\ stage \in {"processing", "provisioned", "revoking", "revoked"}
      /\ posting \in [Acknowledgers -> {0} \cup ArtifactIds]
      /\ \A a \in Acknowledgers : posting[a] # 0 => artifact[posting[a]].kind = "handover"
  <2>1. AttestDays \in Nat
    BY AttestAssumption
  <2> QED
    BY <2>1 DEF AttestInv, AttestTyped, LinksRight
<1>1. ASSUME UNCHANGED <<emitting, removed, artifact, attestDay, reminder>>,
             stage' \in {"processing", "provisioned", "revoking", "revoked"},
             LinksRight'
      PROVE  AttestInv'
  <2>1. EmittersStay
    BY <1>1, <1>T, Unmoved DEF EmittersStay
  <2>2. ReminderRight'
    BY <1>1 DEF AttestInv, ReminderRight, Overdue
  <2> QED
    BY <1>1, <2>1, <2>2, EmittersStayKeeps
<1>2. ASSUME UNCHANGED <<artifact, linked, posting>> PROVE LinksRight'
  BY <1>2 DEF AttestInv, LinksRight
<1>3. ASSUME UNCHANGED attestVars PROVE AttestInv'
  BY <1>1, <1>2, <1>3, <1>T DEF attestVars
<1>4. ASSUME NEW r \in Runs, DeliveredAgain(r) PROVE AttestInv'
  BY <1>1, <1>2, <1>4, <1>T DEF DeliveredAgain
<1>5. ASSUME NEW r \in Runs, EmitterDies(r) PROVE AttestInv'
  <2>1. NotEmitting \in Emitters /\ NotEmitting.at = "idle"
    BY DEF NotEmitting, Emitters
  <2>2. EmitterMoves(r, NotEmitting)
    BY <1>5, <1>T, <2>1 DEF EmitterMoves, EmitterDies
  <2> QED
    BY <2>2, EmitterMovesKeeps
<1>6. ASSUME RevokeOrder PROVE AttestInv'
  BY <1>1, <1>2, <1>6 DEF RevokeOrder
<1>7. ASSUME RollBackGrants PROVE AttestInv'
  <2>1. UNCHANGED <<stage, emitting, artifact, linked, posting, reminder, attestDay>> /\ removed' = TRUE
    BY <1>7 DEF RollBackGrants
  <2>2. AttestTyped' /\ EmittersRight'
    BY <2>1 DEF AttestInv, AttestTyped, EmittersRight
  <2>3. LinksRight' /\ ReminderRight'
    BY <1>2, <2>1 DEF AttestInv, ReminderRight, Overdue
  <2>4. EvidenceRoom' /\ CertificateListsRemoval'
    BY <2>1 DEF AttestInv, EvidenceRoom, RowsOf, Inserting, CertificateListsRemoval
  <2> QED
    BY <2>2, <2>3, <2>4 DEF AttestInv
<1>8. ASSUME NEW a \in Acknowledgers, AckCommit(a) PROVE AttestInv'
  <2>1. PICK b \in Artifacts :
           /\ posting[a] \in ArtifactIds /\ artifact[posting[a]].kind = "handover"
           /\ artifact' = [artifact EXCEPT ![posting[a]] = b]
           /\ b # Absent /\ b.kind = "handover" /\ b.listed = artifact[posting[a]].listed
           /\ b.last = artifact[posting[a]].last /\ b.status = "acknowledged"
    BY <1>8, AckCommitRow
  <2>2. UNCHANGED <<emitting, removed, stage, linked, reminder, attestDay>>
        /\ posting' = [posting EXCEPT ![a] = 0]
    BY <1>8 DEF AckCommit
  <2>3. artifact[posting[a]] # Absent
    BY <2>1 DEF Absent
  <2>4. /\ artifact' \in [ArtifactIds -> Artifacts]
        /\ \A i \in ArtifactIds : /\ SameArtifact(artifact[i], artifact'[i])
                                  /\ artifact'[i].last = artifact[i].last
    BY <2>1, <2>3 DEF AttestInv, AttestTyped, SameArtifact
  <2>5. \A i \in ArtifactIds : artifact[i] # Absent => artifact'[i].last <= attestDay
    BY <2>4 DEF AttestInv, AttestTyped
  <2>6. EmittersStay
    BY <2>2, <2>4, <2>5, <1>T DEF EmittersStay
  <2>7. LinksRight'
    <3>1. posting' \in [Acknowledgers -> {0} \cup ArtifactIds]
      BY <2>2, <1>T
    <3>2. \A b1 \in Acknowledgers : posting'[b1] # 0 => artifact[posting'[b1]].kind = "handover"
      BY <2>2, <1>T
    <3>3. linked' \subseteq linked \cup {i \in ArtifactIds : artifact[i] # Absent}
      BY <2>2
    <3> QED
      BY <2>4, <3>1, <3>2, <3>3, LinksStay
  <2>8. ReminderRight'
    <3>1. \A i \in ArtifactIds : artifact[i].kind = "handover" => artifact'[i].kind = "handover"
      BY <2>4, <2>1 DEF SameArtifact
    <3> QED
      BY <2>2, <2>4, <3>1 DEF AttestInv, ReminderRight, Overdue
  <2> QED
    BY <2>6, <2>7, <2>8, EmittersStayKeeps
<1>9. ASSUME NEW a \in Acknowledgers, NEW i \in ArtifactIds, AckLoad(a, i) PROVE AttestInv'
  <2>1. /\ UNCHANGED <<emitting, removed, artifact, linked, attestDay, reminder, stage>>
        /\ posting' = [posting EXCEPT ![a] = i] /\ artifact[i].kind = "handover"
    BY <1>9 DEF AckLoad, MayAcknowledge
  <2>2. LinksRight'
    BY <2>1, <1>T DEF AttestInv, LinksRight
  <2> QED
    BY <1>1, <1>T, <2>1, <2>2
<1>10. ASSUME RemindRead PROVE AttestInv'
  <2> DEFINE due == {i \in ArtifactIds : Waiting(i) /\ Overdue(i)}
  <2>1. /\ reminder' = {[rows |-> due, mailed |-> {}]}
        /\ UNCHANGED <<emitting, removed, artifact, linked, posting, attestDay, stage>>
    BY <1>10 DEF RemindRead
  <2>2. EmittersStay
    BY <2>1, <1>T, Unmoved DEF EmittersStay
  <2>3. ReminderRight'
    <3>1. PICK n : n = [rows |-> due, mailed |-> {}]
      OBVIOUS
    <3>2. reminder' = {n} /\ n.rows = due /\ n = [rows |-> n.rows, mailed |-> n.mailed]
      BY <2>1, <3>1
    <3>3. \A i \in due : i \in ArtifactIds /\ artifact[i].kind = "handover" /\ Overdue(i)
      BY DEF Waiting
    <3> HIDE DEF due
    <3> QED
      BY <2>1, <3>2, <3>3 DEF ReminderRight, Overdue
  <2> QED
    BY <1>2, <2>1, <2>2, <2>3, EmittersStayKeeps
<1>11. ASSUME RemindCommit PROVE AttestInv'
  <2>1. PICK m \in reminder :
           /\ m.rows \subseteq ArtifactIds
           /\ \A i \in ArtifactIds :
                /\ i \in m.rows =>
                     /\ artifact[i] \in Artifacts /\ artifact[i].kind = "handover" /\ Overdue(i)
                     /\ artifact'[i] \in Artifacts /\ artifact'[i] # Absent
                     /\ artifact'[i].kind = "handover"
                     /\ artifact'[i].listed = artifact[i].listed
                     /\ artifact'[i].status = artifact[i].status
                     /\ artifact'[i].last = attestDay
                /\ i \notin m.rows => artifact'[i] = artifact[i]
           /\ DOMAIN artifact' = ArtifactIds /\ artifact' = [i \in ArtifactIds |-> artifact'[i]]
    BY <1>11, ReminderRows
  <2>2. reminder' = {} /\ UNCHANGED <<emitting, removed, linked, posting, attestDay, stage>>
    BY <1>11 DEF RemindCommit
  <2>3. \A i \in ArtifactIds : artifact'[i] \in Artifacts
    BY <2>1 DEF AttestInv, AttestTyped
  <2>4. artifact' \in [ArtifactIds -> Artifacts]
    BY <2>1, <2>3
  <2>5. \A i \in ArtifactIds : SameArtifact(artifact[i], artifact'[i])
    BY <2>1 DEF SameArtifact, Absent
  <2>6. \A i \in ArtifactIds : artifact[i] # Absent => artifact'[i].last <= attestDay
    BY <2>1, <1>T DEF AttestInv, AttestTyped
  <2>7. EmittersStay
    BY <2>2, <2>4, <2>5, <2>6, <1>T DEF EmittersStay
  <2>8. LinksRight'
    BY <2>2, <2>5, <1>T, LinksStay
  <2>9. ReminderRight'
    BY <2>2 DEF ReminderRight
  <2> QED
    BY <2>7, <2>8, <2>9, EmittersStayKeeps
<1>12. ASSUME ReminderDies PROVE AttestInv'
  <2>1. /\ reminder' = {}
        /\ UNCHANGED <<emitting, removed, artifact, linked, posting, attestDay, stage>>
    BY <1>12 DEF ReminderDies
  <2>2. EmittersStay
    BY <2>1, <1>T, Unmoved DEF EmittersStay
  <2>3. ReminderRight'
    BY <2>1 DEF ReminderRight
  <2> QED
    BY <1>2, <2>1, <2>2, <2>3, EmittersStayKeeps
<1>13. ASSUME NextAttestDay PROVE AttestInv'
  <2>1. /\ reminder = {} /\ reminder' = {} /\ attestDay' = attestDay + 1 /\ attestDay < AttestDays
        /\ UNCHANGED <<emitting, removed, artifact, linked, posting, stage>>
    BY <1>13 DEF NextAttestDay
  <2>2. /\ attestDay' \in 0..AttestDays
        /\ \A i \in ArtifactIds : artifact[i] # Absent => artifact[i].last <= attestDay + 1
    <3>1. \A i \in ArtifactIds : artifact[i] # Absent =>
            artifact[i].last \in Nat /\ artifact[i].last <= attestDay
      BY DEF AttestInv, AttestTyped, Artifacts
    <3> QED
      BY <1>T, <2>1, <3>1
  <2>3. EmittersStay
    BY <2>1, <2>2, <1>T, Unmoved DEF EmittersStay
  <2>4. ReminderRight'
    BY <2>1 DEF ReminderRight
  <2> QED
    BY <1>2, <2>1, <2>3, <2>4, EmittersStayKeeps
<1>14. ASSUME NEW i \in ArtifactIds, RemindOne(i) PROVE AttestInv'
  <2>1. PICK m \in reminder : i \in m.rows /\ reminder' = {[m EXCEPT !.mailed = @ \cup {i}]}
    BY <1>14 DEF RemindOne
  <2>2. /\ linked' \in {linked, linked \cup {i}}
        /\ UNCHANGED <<emitting, removed, artifact, posting, attestDay, stage>>
    BY <1>14 DEF RemindOne
  <2>3. artifact[i] # Absent
    BY <2>1 DEF AttestInv, ReminderRight, Absent
  <2>4. EmittersStay
    BY <2>2, <1>T, Unmoved DEF EmittersStay
  <2>5. LinksRight'
    BY <2>2, <2>3 DEF AttestInv, LinksRight
  <2>6. ReminderRight'
    <3>1. m = [rows |-> m.rows, mailed |-> m.mailed]
      BY DEF AttestInv, ReminderRight
    <3>2. PICK n : n = [m EXCEPT !.mailed = @ \cup {i}]
      OBVIOUS
    <3>3. n.rows = m.rows /\ n = [rows |-> n.rows, mailed |-> n.mailed] /\ reminder' = {n}
      BY <2>1, <3>1, <3>2
    <3> QED
      BY <2>2, <3>3 DEF AttestInv, ReminderRight, Overdue
  <2> QED
    BY <2>4, <2>5, <2>6, EmittersStayKeeps
<1> QED
  BY <1>3, <1>4, <1>5, <1>6, <1>7, <1>8, <1>9, <1>10, <1>11, <1>12, <1>13, <1>14,
     FinishRunKeeps, EmitCheckKeeps, EmitInsertKeeps, EmitMailKeeps DEF AttestNext

LEMMA AttestInvariant == AttestSpec => []AttestInv
BY AttestInitInv, AttestStep, PTL DEF AttestSpec

-----------------------------------------------------------------------------
(* What a step does to an artifact that is there.                           *)
LEMMA ArtifactStep ==
  ASSUME AttestInv, [AttestNext]_attestVars, NEW i \in ArtifactIds, artifact[i] # Absent
  PROVE  /\ artifact[i].status = "acknowledged" => artifact'[i].status = "acknowledged"
         /\ artifact'[i].last # artifact[i].last
              => artifact'[i].last > artifact[i].last + ReminderDays
<1>1. ASSUME artifact' = artifact
      PROVE  /\ artifact[i].status = "acknowledged" => artifact'[i].status = "acknowledged"
             /\ artifact'[i].last # artifact[i].last
                  => artifact'[i].last > artifact[i].last + ReminderDays
  BY <1>1
<1>2. ASSUME NEW r \in Runs, EmitInsert(r)
      PROVE  artifact'[i] = artifact[i]
  BY <1>2, EmitInsertAt DEF AttestInv, AttestTyped
<1>3. ASSUME NEW a \in Acknowledgers, AckCommit(a)
      PROVE  /\ artifact[i].status = "acknowledged" => artifact'[i].status = "acknowledged"
             /\ artifact'[i].last = artifact[i].last
  BY <1>3, AckCommitRow DEF AttestInv, AttestTyped
<1>4. ASSUME RemindCommit
      PROVE  /\ artifact'[i].status = artifact[i].status \/ artifact'[i] = artifact[i]
             /\ artifact'[i].last # artifact[i].last
                  => artifact'[i].last > artifact[i].last + ReminderDays
  <2>1. PICK m \in reminder :
           /\ i \in m.rows =>
                     /\ artifact[i] \in Artifacts /\ artifact[i].kind = "handover" /\ Overdue(i)
                     /\ artifact'[i].status = artifact[i].status
                     /\ artifact'[i].last = attestDay
           /\ i \notin m.rows => artifact'[i] = artifact[i]
    BY <1>4, ReminderRows
  <2>2. CASE i \in m.rows
    <3>1. artifact[i].last < attestDay - ReminderDays
      BY <2>1, <2>2 DEF Overdue
    <3>2. artifact[i].last \in Nat /\ attestDay \in Nat /\ ReminderDays \in Nat
      BY AttestAssumption DEF AttestInv, AttestTyped, Artifacts
    <3>3. artifact'[i].last = attestDay /\ artifact'[i].status = artifact[i].status
      BY <2>1, <2>2
    <3> QED
      BY <3>1, <3>2, <3>3
  <2> QED
    BY <2>1, <2>2
<1>5. \/ artifact' = artifact \/ RemindCommit
      \/ \E r \in Runs : EmitInsert(r)
      \/ \E a \in Acknowledgers : AckCommit(a)
  BY DEF AttestNext, attestVars, FinishRun, DeliveredAgain, EmitCheck, EmitMail, EmitterDies,
         RevokeOrder, RollBackGrants, AckLoad, RemindRead, ReminderDies, NextAttestDay, RemindOne
<1> QED
  BY <1>1, <1>2, <1>3, <1>4, <1>5

(* Of each kind an order has no more artifacts than runs can emit at the    *)
(* same time, a certificate lists what was removed, an acknowledgment is    *)
(* never taken back, and a handover is reminded of once in a window.        *)
THEOREM EvidenceCorrect == AttestSpec => EvidenceStands
<1>1. AttestInv => OneArtifactRace /\ CertificateListsRemoval
  <2> SUFFICES ASSUME AttestInv, NEW k \in ArtifactKinds
               PROVE  Cardinality(RowsOf(k)) <= Cardinality(Runs)
    BY DEF OneArtifactRace, AttestInv
  <2>1. Cardinality(RowsOf(k)) + Cardinality(Inserting(k)) <= Cardinality(Runs)
    BY DEF AttestInv, EvidenceRoom
  <2> QED
    BY <2>1, RowsFinite, ManyIds
<1>2. AttestInv /\ [AttestNext]_attestVars =>
        [\A i \in ArtifactIds :
           artifact[i] # Absent /\ artifact[i].status = "acknowledged"
             => artifact'[i].status = "acknowledged"]_attestVars
  BY ArtifactStep
<1>3. AttestInv /\ [AttestNext]_attestVars =>
        [\A i \in ArtifactIds :
           artifact[i] # Absent /\ artifact'[i].last # artifact[i].last
             => artifact'[i].last > artifact[i].last + ReminderDays]_attestVars
  BY ArtifactStep
<1> QED
  BY <1>1, <1>2, <1>3, AttestInvariant, PTL
     DEF AttestSpec, EvidenceStands, AcknowledgmentStands, RemindedOncePerWindow

-------------------------------------------------------------------------------
(***************************************************************************)
(* Certification campaigns: CertRight.  What a request or the daily job    *)
(* means to write to a review is in what it has read, and it has read it   *)
(* as pending; so a review that is decided, and that none of them has      *)
(* read, is not taken up again.                                            *)
(***************************************************************************)
Rows == Campaigns \X CertOrders

CampaignReads ==
  [kind: {"update", "start", "close", "cancel", "delete"}, campaign: Campaigns,
   status: CampaignStatuses, orders: SUBSET CertOrders]
Decisions ==
  [kind: {"decide"}, campaign: Campaigns, order: CertOrders, decision: {"confirmed", "revoked"}]
Dispatches == [kind: {"dispatch"}, order: CertOrders]
Departures == [kind: {"leaver"}, rows: SUBSET Rows]

CertRequests == {NoCertRequest} \cup CampaignReads \cup Decisions \cup Dispatches \cup Departures

DailyScans ==
  [pc: {"next", "revoke"}, day: 0..CertLastDay,
   left: SUBSET [id: Campaigns, due: 0..CertLastDay], rows: SUBSET Rows, reviews: SUBSET Rows,
   orders: SUBSET CertOrders, notices: SUBSET Notices]

CertTyped ==
  /\ CertTypeOK
  /\ certRequest \in [CertSessions -> CertRequests]
  /\ certScan \in {NoCertScan} \cup DailyScans

(* What the job will record as sent when it commits has left.               *)
JobSent == certScan # NoCertScan => certScan.notices \subseteq mailed

CertInv == CertTyped /\ CertNoticesWereSent /\ JobSent

-----------------------------------------------------------------------------
LEMMA CertKinds ==
  ASSUME CertTyped, NEW s \in CertSessions
  PROVE  /\ certRequest[s].kind \in {"update", "start", "close", "cancel", "delete"}
              => certRequest[s] \in CampaignReads
         /\ certRequest[s].kind = "decide" => certRequest[s] \in Decisions
         /\ certRequest[s].kind = "dispatch" => certRequest[s] \in Dispatches
         /\ certRequest[s].kind = "leaver" => certRequest[s] \in Departures
BY DEF CertTyped, CertRequests, CampaignReads, Decisions, Dispatches, Departures, NoCertRequest

LEMMA CertIdle == NoCertRequest \in CertRequests /\ NoCertScan \in {NoCertScan} \cup DailyScans
BY DEF CertRequests

LEMMA CertInitInv == CertInit => CertInv
<1> SUFFICES ASSUME CertInit PROVE CertInv
  OBVIOUS
<1>1. (CHOOSE f \in CertScopes : TRUE) \in CertScopes
  BY CertAssumption
<1>2. 0 \in 0..CertLastDay /\ 0 \in 0..CertMaxCrashes
  BY CertAssumption
<1>3. campaign \in [Campaigns -> [status: CampaignStatuses, scope: CertScopes, due: 0..CertLastDay]]
  BY <1>1, <1>2 DEF CertInit, CampaignStatuses
<1>4. CertTypeOK
  BY <1>2, <1>3 DEF CertInit, CertTypeOK, ReviewStatuses, CertOrderStatuses, CertOver
<1>5. CertTyped
  BY <1>4, CertIdle DEF CertTyped, CertInit
<1> QED
  BY <1>5 DEF CertInv, CertInit, CertNoticesWereSent, JobSent

-----------------------------------------------------------------------------
(* Types.                                                                   *)
Rest == <<certTask, certRun, certScan, notice, mailed, autoRevoke, certToday, certCrashes>>

LEMMA RequestTyped ==
  ASSUME CertTyped, UNCHANGED Rest,
         campaign' \in [Campaigns -> [status: CampaignStatuses, scope: CertScopes,
                                      due: 0..CertLastDay]],
         review' \in [Campaigns -> [CertOrders -> ReviewStatuses]],
         certOrder' \in [CertOrders -> [status: CertOrderStatuses,
                                        action: {"provision", "delete"}]],
         certRequest' \in [CertSessions -> CertRequests]
  PROVE  CertTyped'
BY DEF CertTyped, CertTypeOK, Rest

LEMMA CampaignReadTyped ==
  ASSUME CertTyped, NEW s \in CertSessions, NEW c \in Campaigns,
         NEW kind \in {"update", "start", "close", "cancel", "delete"}, NEW allowed,
         CampaignRead(s, c, kind, allowed)
  PROVE  CertTyped'
<1> DEFINE r == [kind |-> kind, campaign |-> c, status |-> campaign[c].status,
                 orders |-> {o \in CertOrders :
                      /\ certOrder[o].status \in CertActive
                      /\ MatchesScope(campaign[c].scope, o)}]
<1>1. campaign[c].status \in CampaignStatuses
  BY DEF CertTyped, CertTypeOK
<1>2. r \in CampaignReads
  BY <1>1 DEF CampaignReads
<1>3. certRequest' = [certRequest EXCEPT ![s] = r] /\ UNCHANGED <<campaign, review, certOrder, Rest>>
  BY DEF CampaignRead, Rest
<1> HIDE DEF r
<1>4. certRequest' \in [CertSessions -> CertRequests]
  BY <1>2, <1>3 DEF CertTyped, CertRequests
<1> QED
  BY <1>3, <1>4, RequestTyped DEF CertTyped, CertTypeOK

(* A request ends, having written the campaign and its reviews.             *)
LEMMA CampaignCommitTyped ==
  ASSUME CertTyped, NEW s \in CertSessions,
         NEW kind \in {"update", "start", "close", "cancel", "delete"},
         CampaignCommits(s, kind), NEW c \in Campaigns,
         NEW k \in [status: CampaignStatuses, scope: CertScopes, due: 0..CertLastDay],
         campaign' = campaign \/ campaign' = [campaign EXCEPT ![c] = k],
         review' \in [Campaigns -> [CertOrders -> ReviewStatuses]]
  PROVE  CertTyped'
<1>1. certRequest' \in [CertSessions -> CertRequests] /\ UNCHANGED <<certOrder, Rest>>
  BY CertIdle DEF CampaignCommits, CertTyped, Rest
<1>2. campaign' \in [Campaigns -> [status: CampaignStatuses, scope: CertScopes,
                                   due: 0..CertLastDay]]
  BY DEF CertTyped, CertTypeOK
<1> QED
  BY <1>1, <1>2, RequestTyped DEF CertTyped, CertTypeOK

LEMMA CampaignWritesTyped ==
  ASSUME CertTyped, NEW s \in CertSessions,
         \/ \E f \in CertScopes, due \in CertDues : UpdateCampaign(s, f, due)
         \/ StartCampaign(s) \/ CloseCampaign(s) \/ CancelCampaign(s) \/ DeleteCampaign(s)
  PROVE  CertTyped'
<1> DEFINE c == certRequest[s].campaign
           Typed == [status: CampaignStatuses, scope: CertScopes, due: 0..CertLastDay]
<1>1. PICK kind \in {"update", "start", "close", "cancel", "delete"} : CampaignCommits(s, kind)
  BY DEF UpdateCampaign, StartCampaign, CloseCampaign, CancelCampaign, DeleteCampaign
<1>2. certRequest[s] \in CampaignReads
  BY <1>1, CertKinds DEF CampaignCommits
<1>3. c \in Campaigns /\ campaign[c] \in Typed /\ certRequest[s].orders \subseteq CertOrders
  BY <1>2 DEF CampaignReads, CertTyped, CertTypeOK
<1>4. DOMAIN campaign = Campaigns /\ review[c] \in [CertOrders -> ReviewStatuses]
  BY <1>3 DEF CertTyped, CertTypeOK
<1>W. ASSUME NEW k \in Typed, campaign' = [campaign EXCEPT ![c] = k],
             review' \in [Campaigns -> [CertOrders -> ReviewStatuses]]
      PROVE  CertTyped'
  <2>1. PICK x \in Campaigns : x = c
    BY <1>3
  <2>2. campaign' = [campaign EXCEPT ![x] = k]
    BY <1>W, <2>1
  <2> HIDE DEF c
  <2> QED
    BY <1>1, <1>W, <2>2, CampaignCommitTyped
<1>5. ASSUME NEW status \in CampaignStatuses,
             campaign' = [campaign EXCEPT ![c].status = status],
             review' \in [Campaigns -> [CertOrders -> ReviewStatuses]]
      PROVE  CertTyped'
  <2>1. PICK k : k = [campaign[c] EXCEPT !.status = status]
    OBVIOUS
  <2>2. k \in Typed /\ campaign' = [campaign EXCEPT ![c] = k]
    BY <1>3, <1>4, <1>5, <2>1
  <2> QED
    BY <1>5, <2>2, <1>W
<1>6. UNCHANGED review => review' \in [Campaigns -> [CertOrders -> ReviewStatuses]]
  BY DEF CertTyped, CertTypeOK
<1>7. ASSUME NEW f \in CertScopes, NEW due \in CertDues, UpdateCampaign(s, f, due)
      PROVE  CertTyped'
  <2>1. due \in 0..CertLastDay
    BY CertAssumption
  <2>2. CASE campaign' = [campaign EXCEPT ![c].scope = f, ![c].due = due]
    <3>1. PICK k : k = [[campaign[c] EXCEPT !.scope = f] EXCEPT !.due = due]
      OBVIOUS
    <3>2. k \in Typed /\ campaign' = [campaign EXCEPT ![c] = k]
      BY <1>3, <1>4, <2>1, <2>2, <3>1
    <3> QED
      BY <1>6, <1>7, <3>2, <1>W DEF UpdateCampaign
  <2>3. CASE campaign' = [campaign EXCEPT ![c].due = due]
    <3>1. PICK k : k = [campaign[c] EXCEPT !.due = due]
      OBVIOUS
    <3>2. k \in Typed /\ campaign' = [campaign EXCEPT ![c] = k]
      BY <1>3, <1>4, <2>1, <2>3, <3>1
    <3> QED
      BY <1>6, <1>7, <3>2, <1>W DEF UpdateCampaign
  <2> QED
    BY <1>7, <2>2, <2>3 DEF UpdateCampaign
<1>8. ASSUME StartCampaign(s) PROVE CertTyped'
  <2>1. CASE UNCHANGED <<review, campaign>>
    BY <1>1, <1>3, <1>6, <2>1, CampaignCommitTyped
  <2>2. CASE /\ review' = [review EXCEPT ![c] = [o \in CertOrders |->
                             IF o \in certRequest[s].orders THEN "pending" ELSE @[o]]]
             /\ campaign' = [campaign EXCEPT ![c].status = "running"]
    <3>1. [o \in CertOrders |-> IF o \in certRequest[s].orders THEN "pending" ELSE review[c][o]]
            \in [CertOrders -> ReviewStatuses]
      BY <1>4 DEF ReviewStatuses
    <3>2. review' \in [Campaigns -> [CertOrders -> ReviewStatuses]]
      BY <1>4, <2>2, <3>1 DEF CertTyped, CertTypeOK
    <3> QED
      BY <1>5, <2>2, <3>2 DEF CampaignStatuses
  <2> QED
    BY <1>8, <2>1, <2>2 DEF StartCampaign
<1>9. ASSUME CloseCampaign(s) \/ CancelCampaign(s) PROVE CertTyped'
  BY <1>5, <1>6, <1>9 DEF CloseCampaign, CancelCampaign, CampaignStatuses
<1>10. ASSUME DeleteCampaign(s) PROVE CertTyped'
  <2>1. review' \in [Campaigns -> [CertOrders -> ReviewStatuses]]
    BY <1>10 DEF DeleteCampaign, CertTyped, CertTypeOK, ReviewStatuses
  <2> QED
    BY <1>5, <1>10, <2>1 DEF DeleteCampaign, CampaignStatuses
<1> QED
  BY <1>7, <1>8, <1>9, <1>10

LEMMA DecisionTyped ==
  ASSUME CertTyped, NEW s \in CertSessions,
         \/ DecideConfirm(s) \/ DecideRevoke(s) \/ SupersedeReviews(s) \/ RequestFails(s)
  PROVE  CertTyped'
<1>1. ASSUME RequestFails(s) PROVE CertTyped'
  <2>1. certRequest' \in [CertSessions -> CertRequests]
        /\ UNCHANGED <<campaign, review, certOrder, Rest>>
    BY <1>1, CertIdle DEF RequestFails, CertTyped, Rest
  <2> QED
    BY <2>1, RequestTyped DEF CertTyped, CertTypeOK
<1>2. ASSUME DecideConfirm(s) PROVE CertTyped'
  <2>1. certRequest' \in [CertSessions -> CertRequests]
        /\ UNCHANGED <<campaign, certOrder, Rest>>
    BY <1>2, CertIdle DEF DecideConfirm, CertTyped, Rest
  <2>2. review' \in [Campaigns -> [CertOrders -> ReviewStatuses]]
    BY <1>2 DEF DecideConfirm, CertTyped, CertTypeOK, ReviewStatuses
  <2> QED
    BY <2>1, <2>2, RequestTyped DEF CertTyped, CertTypeOK
<1>3. ASSUME DecideRevoke(s) PROVE CertTyped'
  <2>0. certRequest[s] \in Decisions /\ UNCHANGED <<campaign, Rest>>
    BY <1>3, CertKinds DEF DecideRevoke, Rest
  <2>1. certRequest' \in [CertSessions -> CertRequests]
    <3>1. [kind |-> "dispatch", order |-> certRequest[s].order] \in CertRequests
      BY <2>0 DEF Decisions, CertRequests, Dispatches
    <3> QED
      BY <1>3, <3>1, CertIdle DEF DecideRevoke, CertTyped
  <2>2. review' \in [Campaigns -> [CertOrders -> ReviewStatuses]]
    BY <1>3 DEF DecideRevoke, CertTyped, CertTypeOK, ReviewStatuses
  <2>3. certOrder' \in [CertOrders -> [status: CertOrderStatuses, action: {"provision", "delete"}]]
    BY <1>3 DEF DecideRevoke, CertTyped, CertTypeOK, CertOrderStatuses
  <2> QED
    BY <2>0, <2>1, <2>2, <2>3, RequestTyped DEF CertTyped, CertTypeOK
<1>4. ASSUME SupersedeReviews(s) PROVE CertTyped'
  <2>1. certRequest' \in [CertSessions -> CertRequests]
        /\ UNCHANGED <<campaign, certOrder, Rest>>
    BY <1>4, CertIdle DEF SupersedeReviews, CertTyped, Rest
  <2>2. review' \in [Campaigns -> [CertOrders -> ReviewStatuses]]
    BY <1>4 DEF SupersedeReviews, CertTyped, CertTypeOK, ReviewStatuses
  <2> QED
    BY <2>1, <2>2, RequestTyped DEF CertTyped, CertTypeOK
<1> QED
  BY <1>1, <1>2, <1>3, <1>4

LEMMA ReadTyped ==
  ASSUME CertTyped, NEW s \in CertSessions, CertReadRequest(s)
  PROVE  CertTyped'
<1>1. ASSUME NEW who, ReviewerLeaves(s, who) PROVE CertTyped'
  <2>1. PICK taken \in SUBSET Rows :
          certRequest' = [certRequest EXCEPT ![s] = [kind |-> "leaver", rows |-> taken]]
    BY <1>1 DEF ReviewerLeaves, Rows
  <2>2. [kind |-> "leaver", rows |-> taken] \in CertRequests
    BY DEF CertRequests, Departures
  <2>3. certRequest' \in [CertSessions -> CertRequests]
        /\ UNCHANGED <<campaign, review, certOrder, Rest>>
    BY <1>1, <2>1, <2>2 DEF ReviewerLeaves, CertTyped, Rest
  <2> QED
    BY <2>3, RequestTyped DEF CertTyped, CertTypeOK
<1>2. ASSUME NEW c \in Campaigns,
             \/ CertUpdateRead(s, c) \/ StartRead(s, c) \/ CloseRead(s, c)
             \/ CancelRead(s, c) \/ CertDeleteRead(s, c)
      PROVE  CertTyped'
  BY <1>2, CampaignReadTyped
     DEF CertUpdateRead, StartRead, CloseRead, CancelRead, CertDeleteRead
<1>3. ASSUME NEW c \in Campaigns, NEW o \in CertOrders, NEW d \in {"confirmed", "revoked"},
             DecideRead(s, c, o, d)
      PROVE  CertTyped'
  <2>1. [kind |-> "decide", campaign |-> c, order |-> o, decision |-> d] \in CertRequests
    BY DEF CertRequests, Decisions
  <2>2. certRequest' \in [CertSessions -> CertRequests]
        /\ UNCHANGED <<campaign, review, certOrder, Rest>>
    BY <1>3, <2>1 DEF DecideRead, CertTyped, Rest
  <2> QED
    BY <2>2, RequestTyped DEF CertTyped, CertTypeOK
<1> QED
  BY <1>1, <1>2, <1>3 DEF CertReadRequest, DecideByAdmin, CertDecideByLink, DecideByPortal

-----------------------------------------------------------------------------
(* The daily job.                                                           *)
LEMMA NoticesTyped ==
  ASSUME NEW c \in Campaigns, NEW n, NEW to \in SUBSET Reviewers
  PROVE  NoticesDue(c, n, to) \subseteq Notices
BY DEF NoticesDue, Notices

LEMMA ReviewerTyped ==
  ASSUME NEW o \in CertOrders PROVE ResolveReviewer(o) \in Reviewers
<1>1. \E k1 \in {"manager", "owner", "user"} : ResolveReviewer(o) = CertContacts[o][k1]
  BY DEF ResolveReviewer
<1> QED
  BY <1>1 DEF Reviewers

(* What the job is when it is under way, and each step of it.               *)
LEMMA ScanStartKeeps ==
  ASSUME CertInv, ScanStart PROVE CertInv'
<1>1. certToday \in 0..CertLastDay
  BY DEF CertInv, CertTyped, CertTypeOK
<1>2. \A c \in Campaigns : campaign[c].due \in 0..CertLastDay
  BY DEF CertInv, CertTyped, CertTypeOK
<1> DEFINE left == {[id |-> c, due |-> campaign[c].due] :
                      c \in {d \in Campaigns : campaign[d].status = "running"}}
           k == [pc |-> "next", day |-> certToday, left |-> left,
                 rows |-> {}, reviews |-> {}, orders |-> {}, notices |-> {}]
<1>3. left \subseteq [id: Campaigns, due: 0..CertLastDay]
  BY <1>2
<1>4. certScan' = k /\ UNCHANGED <<scanFrame, certTask, notice, mailed, certCrashes>>
  BY DEF ScanStart
<1> HIDE DEF left
<1>5. k \in DailyScans /\ k.notices = {}
  BY <1>1, <1>3 DEF DailyScans
<1> HIDE DEF k
<1> QED
  BY <1>4, <1>5 DEF CertInv, CertTyped, CertTypeOK, scanFrame, CertNoticesWereSent, JobSent

LEMMA ScanCampaignTo ==
  ASSUME CertInv, NEW p \in [id: Campaigns, due: 0..CertLastDay], ScanCampaign(p)
  PROVE  /\ certScan \in DailyScans
         /\ \E sent \in SUBSET Notices :
              /\ mailed' = mailed \cup sent
              /\ certScan' \in DailyScans
              /\ certScan'.notices = certScan.notices \cup sent
              /\ certScan'.reviews = certScan.reviews
              /\ \A x \in certScan'.rows :
                   x \in Rows /\ review[x[1]][x[2]] = "pending"
<1> DEFINE pending == {o \in CertOrders : review[p.id][o] = "pending"}
           due == NoticesDue(p.id, p.due - certScan.day, {ResolveReviewer(o) : o \in pending})
                    \ (notice \cup certScan.notices)
<1>1. certScan \in DailyScans /\ certScan.pc = "next"
  BY DEF ScanCampaign, CertInv, CertTyped, NoCertScan
<1>2. due \subseteq Notices
  <2>1. {ResolveReviewer(o) : o \in pending} \in SUBSET Reviewers
    BY ReviewerTyped
  <2>2. p.id \in Campaigns
    OBVIOUS
  <2> HIDE DEF pending
  <2> QED
    BY <2>1, <2>2, NoticesTyped
<1>3. PICK sent \in SUBSET due :
       /\ mailed' = mailed \cup (IF pending = {} THEN {} ELSE sent)
       /\ certScan' = [certScan EXCEPT
            !.left = @ \ {p},
            !.notices = @ \cup (IF pending = {} THEN {} ELSE sent),
            !.rows = IF p.due < certScan.day /\ autoRevoke
                     THEN {<<p.id, o>> : o \in pending} ELSE {},
            !.pc = IF p.due < certScan.day /\ autoRevoke /\ pending # {}
                   THEN "revoke" ELSE "next"]
  BY DEF ScanCampaign
<1> DEFINE out == IF pending = {} THEN {} ELSE sent
           taken == IF p.due < certScan.day /\ autoRevoke
                   THEN {<<p.id, o>> : o \in pending} ELSE {}
           pc == IF p.due < certScan.day /\ autoRevoke /\ pending # {} THEN "revoke" ELSE "next"
<1>4. \A x \in taken : x \in Rows /\ review[x[1]][x[2]] = "pending"
  BY DEF Rows
<1>5. out \in SUBSET Notices /\ taken \in SUBSET Rows /\ pc \in {"next", "revoke"}
  BY <1>2, <1>3, <1>4
<1>6. /\ mailed' = mailed \cup out
      /\ certScan' = [certScan EXCEPT !.left = @ \ {p}, !.notices = @ \cup out, !.rows = taken,
                                      !.pc = pc]
  BY <1>3
<1> HIDE DEF out, taken, pc, pending, due
<1>7. /\ certScan' \in DailyScans /\ certScan'.notices = certScan.notices \cup out
      /\ certScan'.reviews = certScan.reviews /\ certScan'.rows = taken
  BY <1>1, <1>5, <1>6 DEF DailyScans
<1> QED
  BY <1>1, <1>4, <1>5, <1>6, <1>7

LEMMA ScanCampaignKeeps ==
  ASSUME CertInv, NEW p \in [id: Campaigns, due: 0..CertLastDay], ScanCampaign(p)
  PROVE  CertInv'
<1>1. PICK sent \in SUBSET Notices :
              /\ mailed' = mailed \cup sent
              /\ certScan' \in DailyScans
              /\ certScan'.notices = certScan.notices \cup sent
  BY ScanCampaignTo
<1>2. certScan # NoCertScan
  BY DEF ScanCampaign, NoCertScan
<1>3. UNCHANGED <<scanFrame, certTask, notice, certCrashes>>
  BY DEF ScanCampaign
<1> QED
  BY <1>1, <1>2, <1>3 DEF CertInv, CertTyped, CertTypeOK, scanFrame, CertNoticesWereSent, JobSent

LEMMA ScanRevokeTo ==
  ASSUME CertInv, NEW c \in Campaigns, NEW o \in CertOrders, ScanRevoke(c, o)
  PROVE  /\ certScan \in DailyScans /\ certScan' \in DailyScans
         /\ certScan'.notices = certScan.notices
         /\ certScan'.rows \subseteq certScan.rows
         /\ certScan'.reviews \subseteq certScan.reviews \cup certScan.rows
<1>1. certScan \in DailyScans /\ <<c, o>> \in certScan.rows
  BY DEF ScanRevoke, CertInv, CertTyped, NoCertScan
<1>2. <<c, o>> \in Rows
  BY DEF Rows
<1> DEFINE reviews == IF AutoRevoked(c, o) THEN certScan.reviews \cup {<<c, o>>}
                      ELSE certScan.reviews
           orders == IF certOrder[o].status \in CertOver THEN certScan.orders
                     ELSE certScan.orders \cup {o}
           pc == IF certScan.rows = {<<c, o>>} THEN "next" ELSE "revoke"
<1>3. certScan' = [certScan EXCEPT !.rows = @ \ {<<c, o>>}, !.reviews = reviews,
                                   !.orders = orders, !.pc = pc]
  BY DEF ScanRevoke
<1>4. /\ reviews \in SUBSET Rows /\ orders \in SUBSET CertOrders /\ pc \in {"next", "revoke"}
      /\ reviews \subseteq certScan.reviews \cup certScan.rows
  BY <1>1, <1>2 DEF DailyScans
<1> HIDE DEF reviews, orders, pc
<1> QED
  BY <1>1, <1>3, <1>4 DEF DailyScans

LEMMA ScanRevokeKeeps ==
  ASSUME CertInv, NEW c \in Campaigns, NEW o \in CertOrders, ScanRevoke(c, o)
  PROVE  CertInv'
<1>1. certScan # NoCertScan
  BY DEF ScanRevoke, NoCertScan
<1>2. certTask' \subseteq CertOrders /\ UNCHANGED <<scanFrame, notice, mailed, certCrashes>>
  BY DEF ScanRevoke, CertInv, CertTyped, CertTypeOK
<1> QED
  BY <1>1, <1>2, ScanRevokeTo
     DEF CertInv, CertTyped, CertTypeOK, scanFrame, CertNoticesWereSent, JobSent

LEMMA ScanCommitKeeps ==
  ASSUME CertInv, ScanCommit PROVE CertInv'
<1>1. certScan \in DailyScans /\ certScan # NoCertScan
  BY DEF ScanCommit, CertInv, CertTyped, NoCertScan
<1>2. review' \in [Campaigns -> [CertOrders -> ReviewStatuses]]
  BY DEF ScanCommit, CertInv, CertTyped, CertTypeOK, ReviewStatuses
<1>3. certOrder' \in [CertOrders -> [status: CertOrderStatuses, action: {"provision", "delete"}]]
  BY DEF ScanCommit, CertInv, CertTyped, CertTypeOK, CertOrderStatuses
<1>4. /\ notice' = notice \cup certScan.notices /\ certScan' = NoCertScan
      /\ UNCHANGED <<campaign, certTask, certRun, certRequest, mailed, autoRevoke, certToday,
                     certCrashes>>
  BY DEF ScanCommit
<1>5. notice' \subseteq mailed /\ mailed \subseteq Notices
  BY <1>1, <1>4 DEF CertInv, CertNoticesWereSent, JobSent, CertTyped, CertTypeOK
<1> QED
  BY <1>2, <1>3, <1>4, <1>5
     DEF CertInv, CertTyped, CertTypeOK, CertNoticesWereSent, JobSent

LEMMA CertOtherKeeps ==
  ASSUME CertInv,
         \/ ScanCrash \/ CertTick
         \/ \E o \in CertOrders : TaskStart(o) \/ TaskEnd(o) \/ OrderCancelled(o)
         \/ \E s \in CertSessions : DecideDispatch(s)
         \/ \E c \in Campaigns, f \in CertScopes, due \in CertDues : CreateCampaign(c, f, due)
  PROVE  CertInv'
<1>1. ASSUME ScanCrash PROVE CertInv'
  <2>1. certCrashes' \in 0..CertMaxCrashes
    BY <1>1, CertAssumption DEF ScanCrash, CertCrash, CertInv, CertTyped, CertTypeOK
  <2> QED
    BY <1>1, <2>1 DEF ScanCrash, CertInv, CertTyped, CertTypeOK, scanFrame, CertNoticesWereSent,
       JobSent
<1>2. ASSUME CertTick PROVE CertInv'
  <2>1. certToday' \in 0..CertLastDay
    BY <1>2, CertAssumption DEF CertTick, CertInv, CertTyped, CertTypeOK
  <2> QED
    BY <1>2, <2>1 DEF CertTick, CertInv, CertTyped, CertTypeOK, CertNoticesWereSent, JobSent
<1>3. ASSUME NEW o \in CertOrders, TaskStart(o) PROVE CertInv'
  <2>1. certOrder[o].action \in {"provision", "delete"}
    BY DEF CertInv, CertTyped, CertTypeOK
  <2>2. /\ certRun' \in [CertOrders -> {"none", "provision", "delete"}]
        /\ certTask' \subseteq CertOrders
    BY <1>3, <2>1 DEF TaskStart, CertInv, CertTyped, CertTypeOK
  <2> QED
    BY <1>3, <2>2 DEF TaskStart, CertInv, CertTyped, CertTypeOK, CertNoticesWereSent, JobSent
<1>4. ASSUME NEW o \in CertOrders, TaskEnd(o) PROVE CertInv'
  <2>1. /\ certRun' \in [CertOrders -> {"none", "provision", "delete"}]
        /\ certOrder' \in [CertOrders -> [status: CertOrderStatuses,
                                          action: {"provision", "delete"}]]
    BY <1>4 DEF TaskEnd, CertInv, CertTyped, CertTypeOK, CertOrderStatuses, CertOver
  <2> QED
    BY <1>4, <2>1 DEF TaskEnd, CertInv, CertTyped, CertTypeOK, CertNoticesWereSent, JobSent
<1>5. ASSUME NEW o \in CertOrders, OrderCancelled(o) PROVE CertInv'
  <2>1. certOrder' \in [CertOrders -> [status: CertOrderStatuses, action: {"provision", "delete"}]]
    BY <1>5 DEF OrderCancelled, CertInv, CertTyped, CertTypeOK, CertOrderStatuses, CertOver
  <2> QED
    BY <1>5, <2>1 DEF OrderCancelled, CertInv, CertTyped, CertTypeOK, CertNoticesWereSent, JobSent
<1>6. ASSUME NEW s \in CertSessions, DecideDispatch(s) PROVE CertInv'
  <2>1. certRequest[s].order \in CertOrders
    BY <1>6, CertKinds DEF DecideDispatch, Dispatches, CertInv
  <2>2. /\ certTask' \subseteq CertOrders
        /\ certRequest' \in [CertSessions -> CertRequests]
    BY <1>6, <2>1, CertIdle DEF DecideDispatch, CertInv, CertTyped, CertTypeOK
  <2> QED
    BY <1>6, <2>2 DEF DecideDispatch, CertInv, CertTyped, CertTypeOK, CertNoticesWereSent, JobSent
<1>7. ASSUME NEW c \in Campaigns, NEW f \in CertScopes, NEW due \in CertDues,
             CreateCampaign(c, f, due)
      PROVE  CertInv'
  <2>1. due \in 0..CertLastDay
    BY CertAssumption
  <2>2. campaign' \in [Campaigns -> [status: CampaignStatuses, scope: CertScopes,
                                     due: 0..CertLastDay]]
    BY <1>7, <2>1 DEF CreateCampaign, CertInv, CertTyped, CertTypeOK, CampaignStatuses
  <2> QED
    BY <1>7, <2>2 DEF CreateCampaign, CertInv, CertTyped, CertTypeOK, CertNoticesWereSent, JobSent
<1> QED
  BY <1>1, <1>2, <1>3, <1>4, <1>5, <1>6, <1>7

LEMMA CertStep == CertInv /\ [CertNext]_certVars => CertInv'
<1> SUFFICES ASSUME CertInv, [CertNext]_certVars PROVE CertInv'
  OBVIOUS
<1>1. ASSUME UNCHANGED certVars PROVE CertInv'
  BY <1>1 DEF certVars, CertInv, CertTyped, CertTypeOK, CertNoticesWereSent, JobSent
<1>2. ASSUME CertTyped', UNCHANGED <<notice, mailed, certScan>> PROVE CertInv'
  BY <1>2 DEF CertInv, CertNoticesWereSent, JobSent
<1>3. ASSUME NEW s \in CertSessions, CertReadRequest(s) PROVE CertInv'
  <2>1. UNCHANGED <<notice, mailed, certScan>>
    BY <1>3 DEF CertReadRequest, ReviewerLeaves, CertUpdateRead, StartRead, CloseRead, CancelRead,
       CertDeleteRead, CampaignRead, DecideByAdmin, CertDecideByLink, DecideByPortal, DecideRead
  <2> QED
    BY <1>2, <1>3, <2>1, ReadTyped DEF CertInv
<1>4. ASSUME NEW s \in CertSessions,
             \/ \E f \in CertScopes, due \in CertDues : UpdateCampaign(s, f, due)
             \/ StartCampaign(s) \/ CloseCampaign(s) \/ CancelCampaign(s) \/ DeleteCampaign(s)
      PROVE  CertInv'
  <2>1. UNCHANGED <<notice, mailed, certScan>>
    BY <1>4 DEF UpdateCampaign, StartCampaign, CloseCampaign, CancelCampaign, DeleteCampaign,
       CampaignCommits
  <2> QED
    BY <1>2, <1>4, <2>1, CampaignWritesTyped DEF CertInv
<1>5. ASSUME NEW s \in CertSessions,
             DecideConfirm(s) \/ DecideRevoke(s) \/ SupersedeReviews(s) \/ RequestFails(s)
      PROVE  CertInv'
  <2>1. UNCHANGED <<notice, mailed, certScan>>
    BY <1>5 DEF DecideConfirm, DecideRevoke, SupersedeReviews, RequestFails
  <2> QED
    BY <1>2, <1>5, <2>1, DecisionTyped DEF CertInv
<1> QED
  BY <1>1, <1>3, <1>4, <1>5, CertOtherKeeps, ScanStartKeeps, ScanCampaignKeeps, ScanRevokeKeeps,
     ScanCommitKeeps DEF CertNext, CertCommitRequest, CertScanStep

LEMMA CertInvariant == CertSpec => []CertInv
BY CertInitInv, CertStep, PTL DEF CertSpec

-----------------------------------------------------------------------------
(* A review that is decided and nobody has read as pending.                 *)
Settled(c, o) == Decided(c, o) /\ ~ CertDeciding(c, o)

Stays(c, o) == ~ CertDeciding(c, o)' /\ review'[c][o] \in {review[c][o], "none"}

(* A request that takes up r instead of what it had.                        *)
TakesUp(r, c, o) ==
  \/ r.kind = "decide" /\ r.campaign = c /\ r.order = o
  \/ r.kind = "leaver" /\ <<c, o>> \in r.rows

LEMMA NotTaken ==
  ASSUME CertInv, NEW c, NEW o, ~ CertDeciding(c, o), NEW s \in CertSessions, NEW r,
         certRequest' = [certRequest EXCEPT ![s] = r], certScan' = certScan, ~ TakesUp(r, c, o)
  PROVE  ~ CertDeciding(c, o)'
BY DEF CertDeciding, TakesUp, CertInv, CertTyped

LEMMA NotTakenIdle ==
  ASSUME CertInv, NEW c, NEW o, ~ CertDeciding(c, o), NEW s \in CertSessions,
         certRequest' = [certRequest EXCEPT ![s] = NoCertRequest], certScan' = certScan
  PROVE  ~ CertDeciding(c, o)'
<1>1. ~ TakesUp(NoCertRequest, c, o)
  BY DEF TakesUp, NoCertRequest
<1> QED
  BY <1>1, NotTaken

LEMMA ReadsStay ==
  ASSUME CertInv, NEW c \in Campaigns, NEW o \in CertOrders, Settled(c, o),
         NEW s \in CertSessions, CertReadRequest(s)
  PROVE  Stays(c, o)
<1>1. ASSUME NEW who, ReviewerLeaves(s, who) PROVE Stays(c, o)
  <2> DEFINE taken == {p \in Campaigns \X CertOrders :
                        review[p[1]][p[2]] = "pending" /\ ResolveReviewer(p[2]) = who}
             r == [kind |-> "leaver", rows |-> taken]
  <2>1. <<c, o>> \notin taken
    BY DEF Settled, Decided
  <2> HIDE DEF taken
  <2>2. ~ TakesUp(r, c, o)
    BY <2>1 DEF TakesUp
  <2>3. certRequest' = [certRequest EXCEPT ![s] = r] /\ UNCHANGED <<certScan, review>>
    BY <1>1 DEF ReviewerLeaves, taken
  <2> HIDE DEF r
  <2> QED
    BY <2>2, <2>3, NotTaken DEF Stays, Settled
<1>2. ASSUME NEW d \in Campaigns, NEW kind \in {"update", "start", "close", "cancel", "delete"},
             NEW allowed, CampaignRead(s, d, kind, allowed)
      PROVE  Stays(c, o)
  <2>1. PICK r : /\ r.kind = kind
                 /\ certRequest' = [certRequest EXCEPT ![s] = r] /\ UNCHANGED <<certScan, review>>
    BY <1>2 DEF CampaignRead
  <2>2. ~ TakesUp(r, c, o)
    BY <2>1 DEF TakesUp
  <2> QED
    BY <2>1, <2>2, NotTaken DEF Stays, Settled
<1>3. ASSUME NEW d \in Campaigns, NEW e \in CertOrders, NEW decision, DecideRead(s, d, e, decision)
      PROVE  Stays(c, o)
  <2> DEFINE r == [kind |-> "decide", campaign |-> d, order |-> e, decision |-> decision]
  <2>1. certRequest' = [certRequest EXCEPT ![s] = r] /\ UNCHANGED <<certScan, review>>
    BY <1>3 DEF DecideRead
  <2>2. review[d][e] = "pending"
    BY <1>3 DEF DecideRead
  <2>3. ~ (d = c /\ e = o)
    BY <2>2 DEF Settled, Decided
  <2>4. ~ TakesUp(r, c, o)
    BY <2>3 DEF TakesUp
  <2> HIDE DEF r
  <2> QED
    BY <2>1, <2>4, NotTaken DEF Stays, Settled
<1> QED
  BY <1>1, <1>2, <1>3 DEF CertReadRequest, CertUpdateRead, StartRead, CloseRead, CancelRead,
     CertDeleteRead, DecideByAdmin, CertDecideByLink, DecideByPortal

LEMMA CampaignsStay ==
  ASSUME CertInv, NEW c \in Campaigns, NEW o \in CertOrders, Settled(c, o),
         NEW s \in CertSessions,
         \/ \E f \in CertScopes, due \in CertDues : UpdateCampaign(s, f, due)
         \/ StartCampaign(s) \/ CloseCampaign(s) \/ CancelCampaign(s) \/ DeleteCampaign(s)
         \/ RequestFails(s)
  PROVE  Stays(c, o)
<1>1. certRequest' = [certRequest EXCEPT ![s] = NoCertRequest] /\ certScan' = certScan
  BY DEF UpdateCampaign, StartCampaign, CloseCampaign, CancelCampaign, DeleteCampaign,
         CampaignCommits, RequestFails
<1>2. ~ CertDeciding(c, o)'
  BY <1>1, NotTakenIdle DEF Settled
<1>3. review \in [Campaigns -> [CertOrders -> ReviewStatuses]]
  BY DEF CertInv, CertTyped, CertTypeOK
<1>4. ASSUME StartCampaign(s) PROVE review'[c][o] = review[c][o]
  <2>1. CASE review' = review
    BY <2>1
  <2>2. CASE /\ \A x \in certRequest[s].orders : review[certRequest[s].campaign][x] = "none"
             /\ review' = [review EXCEPT ![certRequest[s].campaign] =
                             [x \in CertOrders |->
                                IF x \in certRequest[s].orders THEN "pending" ELSE @[x]]]
    <3>1. CASE certRequest[s].campaign = c
      <4>1. o \notin certRequest[s].orders
        BY <2>2, <3>1 DEF Settled, Decided
      <4> QED
        BY <1>3, <2>2, <3>1, <4>1
    <3>2. CASE certRequest[s].campaign # c
      BY <1>3, <2>2, <3>2
    <3> QED
      BY <3>1, <3>2
  <2> QED
    BY <1>4, <2>1, <2>2 DEF StartCampaign
<1>5. ASSUME DeleteCampaign(s) PROVE review'[c][o] \in {review[c][o], "none"}
  BY <1>3, <1>5 DEF DeleteCampaign
<1>6. \/ review' = review \/ StartCampaign(s) \/ DeleteCampaign(s)
  BY DEF UpdateCampaign, CloseCampaign, CancelCampaign, RequestFails
<1> QED
  BY <1>2, <1>4, <1>5, <1>6 DEF Stays

LEMMA DecisionsStay ==
  ASSUME CertInv, NEW c \in Campaigns, NEW o \in CertOrders, Settled(c, o),
         NEW s \in CertSessions,
         DecideConfirm(s) \/ DecideRevoke(s) \/ DecideDispatch(s) \/ SupersedeReviews(s)
  PROVE  Stays(c, o)
<1>1. review \in [Campaigns -> [CertOrders -> ReviewStatuses]]
  BY DEF CertInv, CertTyped, CertTypeOK
<1>2. ~ TakesUp(certRequest[s], c, o)
  BY DEF Settled, CertDeciding, TakesUp
<1>3. ASSUME DecideConfirm(s) \/ DecideRevoke(s) PROVE Stays(c, o)
  <2>1. PICK r : /\ r.kind \in {"idle", "dispatch"}
                 /\ certRequest' = [certRequest EXCEPT ![s] = r]
    <3> DEFINE q == [kind |-> "dispatch", order |-> certRequest[s].order]
    <3>1. NoCertRequest.kind = "idle" /\ q.kind = "dispatch"
      BY DEF NoCertRequest
    <3>2. \/ certRequest' = [certRequest EXCEPT ![s] = NoCertRequest]
          \/ certRequest' = [certRequest EXCEPT ![s] = q]
      BY <1>3 DEF DecideConfirm, DecideRevoke
    <3> HIDE DEF q
    <3> QED
      BY <3>1, <3>2
  <2>V. PICK v : review' = [review EXCEPT ![certRequest[s].campaign][certRequest[s].order] = v]
    BY <1>3 DEF DecideConfirm, DecideRevoke
  <2>K. certRequest[s].kind = "decide" /\ certScan' = certScan
    BY <1>3 DEF DecideConfirm, DecideRevoke
  <2>2. ~ (certRequest[s].campaign = c /\ certRequest[s].order = o)
    BY <1>2, <2>K DEF TakesUp
  <2>3. review'[c][o] = review[c][o]
    BY <1>1, <2>V, <2>2
  <2>4. ~ TakesUp(r, c, o)
    BY <2>1 DEF TakesUp
  <2> QED
    BY <2>1, <2>K, <2>3, <2>4, NotTaken DEF Stays, Settled
<1>4. ASSUME DecideDispatch(s) PROVE Stays(c, o)
  BY <1>4, NotTakenIdle DEF DecideDispatch, Stays, Settled
<1>5. ASSUME SupersedeReviews(s) PROVE Stays(c, o)
  <2>1. <<c, o>> \notin certRequest[s].rows
    BY <1>2, <1>5 DEF TakesUp, SupersedeReviews
  <2>2. review'[c][o] = review[c][o]
    BY <1>5, <2>1 DEF SupersedeReviews
  <2> QED
    BY <1>5, <2>2, NotTakenIdle DEF SupersedeReviews, Stays, Settled
<1> QED
  BY <1>3, <1>4, <1>5

LEMMA ScansStay ==
  ASSUME CertInv, NEW c \in Campaigns, NEW o \in CertOrders, Settled(c, o),
         CertScanStep \/ ScanCrash
  PROVE  Stays(c, o)
<1>1. ASSUME certRequest' = certRequest,
             certScan' # NoCertScan => <<c, o>> \notin certScan'.rows \cup certScan'.reviews
      PROVE  ~ CertDeciding(c, o)'
  BY <1>1 DEF Settled, CertDeciding
<1>2. certScan # NoCertScan => <<c, o>> \notin certScan.rows \cup certScan.reviews
  BY DEF Settled, CertDeciding
<1>3. ASSUME ScanStart PROVE Stays(c, o)
  <2>1. certScan'.rows = {} /\ certScan'.reviews = {} /\ UNCHANGED <<review, certRequest>>
    BY <1>3 DEF ScanStart, scanFrame
  <2> QED
    BY <1>1, <2>1 DEF Stays
<1>4. ASSUME NEW p \in [id: Campaigns, due: 0..CertLastDay], ScanCampaign(p) PROVE Stays(c, o)
  <2>1. UNCHANGED <<review, certRequest>> /\ certScan # NoCertScan
    BY <1>4 DEF ScanCampaign, scanFrame, NoCertScan
  <2>2. /\ certScan'.reviews = certScan.reviews
        /\ \A x \in certScan'.rows : review[x[1]][x[2]] = "pending"
    BY <1>4, ScanCampaignTo
  <2>3. <<c, o>> \notin certScan'.rows
    BY <2>2 DEF Settled, Decided
  <2> QED
    BY <1>1, <1>2, <2>1, <2>2, <2>3 DEF Stays
<1>5. ASSUME NEW d \in Campaigns, NEW e \in CertOrders, ScanRevoke(d, e) PROVE Stays(c, o)
  <2>1. UNCHANGED <<review, certRequest>> /\ certScan # NoCertScan
    BY <1>5 DEF ScanRevoke, scanFrame, NoCertScan
  <2>2. /\ certScan'.rows \subseteq certScan.rows
        /\ certScan'.reviews \subseteq certScan.reviews \cup certScan.rows
    BY <1>5, ScanRevokeTo
  <2> QED
    BY <1>1, <1>2, <2>1, <2>2 DEF Stays
<1>6. ASSUME ScanCommit PROVE Stays(c, o)
  <2>1. certScan # NoCertScan /\ certScan' = NoCertScan /\ certRequest' = certRequest
    BY <1>6 DEF ScanCommit, NoCertScan
  <2>2. review'[c][o] = review[c][o]
    BY <1>2, <1>6, <2>1 DEF ScanCommit
  <2> QED
    BY <1>1, <2>1, <2>2 DEF Stays
<1>7. ASSUME ScanCrash PROVE Stays(c, o)
  BY <1>1, <1>7 DEF ScanCrash, scanFrame, Stays
<1> QED
  BY <1>3, <1>4, <1>5, <1>6, <1>7 DEF CertScanStep

LEMMA SettledStays ==
  ASSUME CertInv, [CertNext]_certVars, NEW c \in Campaigns, NEW o \in CertOrders, Settled(c, o)
  PROVE  Stays(c, o)
<1>1. ASSUME UNCHANGED <<review, certRequest, certScan>> PROVE Stays(c, o)
  BY <1>1 DEF Stays, Settled, CertDeciding
<1>2. \/ UNCHANGED certVars \/ CertTick
      \/ \E x \in CertOrders : TaskStart(x) \/ TaskEnd(x) \/ OrderCancelled(x)
      \/ \E x \in Campaigns, f \in CertScopes, due \in CertDues : CreateCampaign(x, f, due)
      => UNCHANGED <<review, certRequest, certScan>>
  BY DEF certVars, CertTick, TaskStart, TaskEnd, OrderCancelled, CreateCampaign
<1> QED
  BY <1>1, <1>2, ReadsStay, CampaignsStay, DecisionsStay, ScansStay DEF CertNext, CertCommitRequest

(* A notice on record was sent, whatever crashes, and a decided review is   *)
(* not taken up again, by whoever decides and whenever the job runs.        *)
THEOREM CertCorrect == CertSpec => CertRight
<1>1. CertInv => CertNoticesWereSent
  BY DEF CertInv
<1>2. CertInv /\ [CertNext]_certVars =>
        [\A c \in Campaigns, o \in CertOrders :
           Decided(c, o) /\ ~CertDeciding(c, o)
             => /\ ~CertDeciding(c, o)'
                /\ review'[c][o] \in {review[c][o], "none"}]_certVars
  BY SettledStays DEF Settled, Stays
<1> QED
  BY <1>1, <1>2, CertInvariant, PTL DEF CertSpec, CertRight, CertDecisionStands

-------------------------------------------------------------------------------
(***************************************************************************)
(* Onboarding and SCIM: ScimRight, when there is one bundle to join.  A    *)
(* request that joins holds the row lock from before it looks at what the  *)
(* user holds until its orders are committed, so what it is about to order *)
(* is not held; and an order that is no longer held never is again.        *)
(***************************************************************************)
ScimPlaces ==
  {"idle", "post", "put", "patch", "leaver", "leave", "move", "close", "mover", "bundles",
   "order", "dispatch", "revoke", "revoked"}

ScimRequestsOf(n) ==
  [pc: ScimPlaces, locks: BOOLEAN, seen: SUBSET Identities, put: SUBSET Identities,
   todo: SUBSET Bundles, origin: Origins, chosen: BOOLEAN, items: SUBSET ScimTypes,
   send: SUBSET (1..n), drop: SUBSET (1..n)]

Single(S) == \A x, y \in S : x = y

ScimTyped ==
  /\ bundle \in [Bundles -> [active: BOOLEAN, items: SUBSET ScimTypes]]
  /\ assignment \in [AssignmentRules -> [active: BOOLEAN, bundle: Bundles,
                                         when: SUBSET ScimAttributes]]
  /\ identity \subseteq Identities /\ Single(identity)
  /\ scimOrder \in Seq(ScimOrders)
  /\ scimTask \subseteq 1..Len(scimOrder)
  /\ moverMode \in MoverModes
  /\ scim \in [ScimSessions -> ScimRequestsOf(Len(scimOrder))]
  /\ \A s \in ScimSessions : Single(scim[s].put) /\ Single(scim[s].seen)

(* An order that is not held is being removed, or is.                       *)
GoneIsGone ==
  \A o \in 1..Len(scimOrder) :
    scimOrder[o].status \notin HeldStatuses => scimOrder[o].action = "delete"

(* Where a request may only have such orders to revoke as came by rule; a   *)
(* leaver's may have any.                                                   *)
ByRule(g) ==
  \/ g.pc \in {"post", "put", "bundles", "order", "dispatch"}
  \/ g.pc = "revoke" /\ g.origin # "rule_based"

(* A mover, a joiner and the catalogue revoke what came by rule.             *)
DropsRight ==
  \A s \in ScimSessions :
    ByRule(scim[s]) => \A o \in scim[s].drop : scimOrder[o].origin \in RevocableOrigins

ScimInv == ScimTyped /\ GoneIsGone /\ DropsRight

-----------------------------------------------------------------------------
(* With one bundle and the mover off: who joins holds the lock until its    *)
(* orders are there, one request at a time, and what it is about to order   *)
(* the user does not hold from a request before.                            *)
OneBundle == \E b : Bundles = {b}

Joins(s) == scim[s].origin = "scim"

JoinLocks ==
  \A s \in ScimSessions :
    /\ scim[s].pc \notin {"move", "mover"}
    /\ scim[s].pc \in {"order", "dispatch"} => scim[s].todo = {}
    /\ Joins(s) /\ scim[s].pc = "bundles" /\ scim[s].todo # {} => scim[s].locks
    /\ Joins(s) /\ scim[s].pc = "order" => scim[s].locks

OneLock == \A s, t \in ScimSessions : scim[s].locks /\ scim[t].locks => s = t

NotHeldYet ==
  \A s \in ScimSessions : \A o \in 1..Len(scimOrder) :
    Joins(s) /\ scim[s].pc = "order" /\ scimOrder[o].origin = "scim"
      /\ scimOrder[o].status \in HeldStatuses
    => scimOrder[o].type \notin scim[s].items

JoinInv == moverMode = "disabled" => JoinLocks /\ OneLock /\ NotHeldYet

-----------------------------------------------------------------------------
LEMMA IdleTyped ==
  ASSUME NEW n \in Nat
  PROVE  /\ IdleScim \in ScimRequestsOf(n) /\ IdleScim.pc = "idle"
         /\ IdleScim.drop = {} /\ IdleScim.put = {} /\ IdleScim.seen = {}
         /\ IdleScim.todo = {} /\ IdleScim.locks = FALSE /\ IdleScim.origin = "scim"
         /\ IdleScim.items = {} /\ IdleScim.send = {} /\ IdleScim.chosen = FALSE
BY DEF IdleScim, ScimRequestsOf, ScimPlaces, Origins

LEMMA ScimInitInv == ScimInit => ScimInv /\ JoinInv
<1> SUFFICES ASSUME ScimInit PROVE ScimInv /\ JoinInv
  OBVIOUS
<1>1. scimOrder = << >> /\ Len(scimOrder) = 0 /\ scimOrder \in Seq(ScimOrders)
  BY DEF ScimInit
<1>2. scim \in [ScimSessions -> ScimRequestsOf(Len(scimOrder))]
  BY <1>1, IdleTyped DEF ScimInit
<1>3. \A s \in ScimSessions : scim[s] = IdleScim
  BY DEF ScimInit
<1>4. bundle \in [Bundles -> [active: BOOLEAN, items: SUBSET ScimTypes]]
  BY ScimAssumption DEF ScimInit
<1>5. assignment \in [AssignmentRules -> [active: BOOLEAN, bundle: Bundles,
                                          when: SUBSET ScimAttributes]]
  BY ScimAssumption DEF ScimInit
<1>6. ScimTyped
  BY <1>1, <1>2, <1>3, <1>4, <1>5, IdleTyped DEF ScimTyped, ScimInit, Single
<1>7. GoneIsGone
  BY <1>1 DEF GoneIsGone
<1>8. DropsRight
  BY <1>1, <1>3, IdleTyped DEF DropsRight, ByRule
<1>9. JoinInv
  BY <1>1, <1>3, IdleTyped DEF JoinInv, JoinLocks, OneLock, NotHeldYet, Joins
<1> QED
  BY <1>6, <1>7, <1>8, <1>9 DEF ScimInv

-----------------------------------------------------------------------------
(* A step of one request, the orders as they were.                          *)
Turns(s, g) ==
  /\ scim' = [scim EXCEPT ![s] = g]
  /\ g \in ScimRequestsOf(Len(scimOrder)) /\ Single(g.put) /\ Single(g.seen)
  /\ ByRule(g) => \A o \in g.drop : scimOrder[o].origin \in RevocableOrigins
  /\ scimOrder' = scimOrder
  /\ identity' \subseteq Identities /\ Single(identity')
  /\ scimTask' \subseteq 1..Len(scimOrder)
  /\ UNCHANGED <<bundle, assignment, moverMode>>

LEMMA TurnsKeeps ==
  ASSUME ScimInv, NEW s \in ScimSessions, NEW g, Turns(s, g)
  PROVE  ScimInv'
<1>1. /\ scim' \in [ScimSessions -> ScimRequestsOf(Len(scimOrder))] /\ scim'[s] = g
      /\ \A t \in ScimSessions \ {s} : scim'[t] = scim[t]
  BY DEF ScimInv, ScimTyped, Turns
<1>2. ScimTyped'
  BY <1>1 DEF ScimInv, ScimTyped, Turns
<1>3. GoneIsGone'
  BY DEF ScimInv, GoneIsGone, Turns
<1>4. DropsRight'
  BY <1>1 DEF ScimInv, DropsRight, Turns
<1> QED
  BY <1>2, <1>3, <1>4 DEF ScimInv

(* What joins by it.                                                        *)
TurnJoins(s, g) ==
  /\ g.pc \notin {"move", "mover"}
  /\ g.pc \in {"order", "dispatch"} => g.todo = {}
  /\ g.origin = "scim" /\ g.pc = "bundles" /\ g.todo # {} => g.locks
  /\ g.origin = "scim" /\ g.pc = "order" => g.locks
  /\ g.locks => scim[s].locks \/ LockFree
  /\ g.origin = "scim" /\ g.pc = "order" =>
       \A o \in 1..Len(scimOrder) :
         scimOrder[o].origin = "scim" /\ scimOrder[o].status \in HeldStatuses
           => scimOrder[o].type \notin g.items

LEMMA TurnsJoin ==
  ASSUME ScimInv, JoinInv, NEW s \in ScimSessions, NEW g, Turns(s, g),
         moverMode = "disabled" => TurnJoins(s, g)
  PROVE  JoinInv'
<1> SUFFICES ASSUME moverMode = "disabled" PROVE (JoinLocks /\ OneLock /\ NotHeldYet)'
  BY DEF JoinInv, Turns
<1>1. /\ scim'[s] = g /\ \A t \in ScimSessions \ {s} : scim'[t] = scim[t]
      /\ scimOrder' = scimOrder
  BY DEF ScimInv, ScimTyped, Turns
<1>2. JoinLocks'
  BY <1>1 DEF JoinInv, JoinLocks, Joins, TurnJoins
<1>3. OneLock'
  BY <1>1 DEF JoinInv, OneLock, TurnJoins, LockFree
<1>4. NotHeldYet'
  BY <1>1 DEF JoinInv, NotHeldYet, Joins, TurnJoins
<1> QED
  BY <1>2, <1>3, <1>4

-----------------------------------------------------------------------------
Frame == <<bundle, assignment, moverMode, scimOrder>>

LEMMA WrittenRight ==
  ASSUME ScimInv, NEW s \in ScimSessions
  PROVE  /\ Written(s) \subseteq Identities /\ Single(Written(s))
         /\ ScimInv /\ CommitIdentity(s) => identity' \subseteq Identities /\ Single(identity')
<1>1. /\ scim[s].put \subseteq Identities /\ Single(scim[s].put)
      /\ scim[s].seen \subseteq Identities /\ Single(scim[s].seen)
      /\ identity \subseteq Identities /\ Single(identity)
  BY DEF ScimInv, ScimTyped, ScimRequestsOf
<1>2. CASE scim[s].seen = {} \/ identity = {}
  BY <1>1, <1>2 DEF Written, CommitIdentity
<1>3. CASE ~ (scim[s].seen = {} \/ identity = {})
  <2> DEFINE W == {[active |-> IF p.active = r.active THEN i.active ELSE p.active,
                    attrs |-> IF p.attrs = r.attrs THEN i.attrs ELSE p.attrs] :
                     p \in scim[s].put, r \in scim[s].seen, i \in identity}
  <2>1. Written(s) = W
    BY <1>3 DEF Written
  <2>2. W \subseteq Identities
    BY <1>1 DEF Identities
  <2>3. Single(W)
    BY <1>1 DEF Single
  <2> HIDE DEF W
  <2> QED
    BY <1>1, <2>1, <2>2, <2>3 DEF CommitIdentity
<1> QED
  BY <1>2, <1>3

LEMMA Lens == ScimInv => Len(scimOrder) \in Nat /\ DOMAIN scimOrder = 1..Len(scimOrder)
BY DEF ScimInv, ScimTyped

LEMMA HeldIn ==
  ASSUME ScimInv, NEW statuses
  PROVE  OrdersIn(statuses) \subseteq 1..Len(scimOrder)
BY Lens DEF OrdersIn

(* Requests that arrive: nothing is joined, ordered or revoked yet.         *)
LEMMA ArrivalKeeps ==
  ASSUME ScimInv, NEW s \in ScimSessions, NEW g \in ScimRequestsOf(Len(scimOrder)),
         scim' = [scim EXCEPT ![s] = g], Single(g.put), Single(g.seen), g.drop = {},
         ~ g.locks, g.items = {},
         g.pc \in {"idle", "post", "put", "patch", "leaver"}
           \/ (g.pc = "bundles" /\ (g.origin # "scim" \/ g.todo = {})),
         UNCHANGED <<Frame, identity, scimTask>>
  PROVE  ScimInv' /\ (JoinInv => JoinInv')
<1>1. Turns(s, g)
  BY DEF Turns, Frame, ScimInv, ScimTyped
<1>2. moverMode = "disabled" => TurnJoins(s, g)
  BY DEF TurnJoins
<1> QED
  BY <1>1, <1>2, TurnsKeeps, TurnsJoin

LEMMA Arrivals ==
  ASSUME ScimInv, NEW s \in ScimSessions,
         \/ \E kind \in {"post", "put"}, active \in BOOLEAN, a \in ScimAttributes :
              ScimRead(s, kind, active, a)
         \/ \E a \in ScimAttributes : PatchRead(s, a) \/ LoginOnboarding(s, a)
         \/ LeaverRequest(s)
         \/ \E b \in Bundles, origin \in {"rule_based", "bundle_catalog"} :
              ChooseBundle(s, b, origin)
         \/ ScimCrash(s)
  PROVE  ScimInv' /\ (JoinInv => JoinInv')
<1> DEFINE n == Len(scimOrder)
<1>N. n \in Nat
  BY Lens
<1>T. /\ identity \subseteq Identities /\ Single(identity)
  BY DEF ScimInv, ScimTyped
<1>1. ASSUME NEW kind \in {"post", "put"}, NEW active \in BOOLEAN, NEW a \in ScimAttributes,
             ScimRead(s, kind, active, a)
      PROVE  ScimInv' /\ (JoinInv => JoinInv')
  <2> DEFINE g == [IdleScim EXCEPT !.pc = kind, !.seen = identity,
                              !.put = {[active |-> active, attrs |-> a]}]
  <2>1. {[active |-> active, attrs |-> a]} \subseteq Identities
    BY DEF Identities
  <2>2. /\ g \in ScimRequestsOf(n) /\ g.put = {[active |-> active, attrs |-> a]} /\ g.seen = identity
        /\ g.drop = {} /\ ~ g.locks /\ g.items = {} /\ g.pc \in {"post", "put"}
    BY <1>T, <2>1 DEF IdleScim, ScimRequestsOf, ScimPlaces, Origins
  <2>3. Single(g.put) /\ Single(g.seen)
    BY <1>T, <2>2 DEF Single
  <2>4. scim' = [scim EXCEPT ![s] = g] /\ UNCHANGED <<Frame, identity, scimTask>>
    BY <1>1 DEF ScimRead, Goes, Unadministered, Frame
  <2> HIDE DEF g
  <2> QED
    BY <2>2, <2>3, <2>4, ArrivalKeeps
<1>2. ASSUME NEW a \in ScimAttributes, PatchRead(s, a) PROVE ScimInv' /\ (JoinInv => JoinInv')
  <2>1. PICK i \in identity :
          scim' = [scim EXCEPT ![s] = [IdleScim EXCEPT !.pc = "patch", !.seen = identity,
                                   !.put = {[i EXCEPT !.attrs = a]}]]
    BY <1>2 DEF PatchRead, Goes
  <2> DEFINE p == [i EXCEPT !.attrs = a]
             g == [IdleScim EXCEPT !.pc = "patch", !.seen = identity, !.put = {p}]
  <2>2. p \in Identities
    BY <1>T DEF Identities
  <2>3. scim' = [scim EXCEPT ![s] = g]
    BY <2>1
  <2> HIDE DEF p
  <2>4. /\ g \in ScimRequestsOf(n) /\ g.put = {p} /\ g.seen = identity
        /\ g.drop = {} /\ ~ g.locks /\ g.items = {} /\ g.pc = "patch"
    BY <1>T, <2>2 DEF IdleScim, ScimRequestsOf, ScimPlaces, Origins
  <2>5. Single(g.put) /\ Single(g.seen)
    BY <1>T, <2>4 DEF Single
  <2>6. UNCHANGED <<Frame, identity, scimTask>>
    BY <1>2 DEF PatchRead, Unadministered, Frame
  <2> HIDE DEF g
  <2> QED
    BY <2>3, <2>4, <2>5, <2>6, ArrivalKeeps
<1>3. ASSUME LeaverRequest(s) PROVE ScimInv' /\ (JoinInv => JoinInv')
  <2> DEFINE g == [IdleScim EXCEPT !.pc = "leaver"]
  <2>1. /\ g \in ScimRequestsOf(n) /\ g.put = {} /\ g.seen = {}
        /\ g.drop = {} /\ ~ g.locks /\ g.items = {} /\ g.pc = "leaver"
    BY DEF IdleScim, ScimRequestsOf, ScimPlaces, Origins
  <2>2. scim' = [scim EXCEPT ![s] = g] /\ UNCHANGED <<Frame, identity, scimTask>>
    BY <1>3 DEF LeaverRequest, Goes, Unadministered, Frame
  <2>3. Single(g.put) /\ Single(g.seen)
    BY <2>1 DEF Single
  <2> HIDE DEF g
  <2> QED
    BY <2>1, <2>2, <2>3, ArrivalKeeps
<1>5. ASSUME NEW b \in Bundles, NEW origin \in {"rule_based", "bundle_catalog"},
             ChooseBundle(s, b, origin)
      PROVE  ScimInv' /\ (JoinInv => JoinInv')
  <2> DEFINE g == [IdleScim EXCEPT !.pc = "bundles", !.todo = {b}, !.origin = origin,
                                   !.chosen = TRUE]
  <2>1. /\ g \in ScimRequestsOf(n) /\ g.put = {} /\ g.seen = {} /\ g.origin = origin
        /\ g.drop = {} /\ ~ g.locks /\ g.items = {} /\ g.pc = "bundles"
    BY DEF IdleScim, ScimRequestsOf, ScimPlaces, Origins
  <2>2. scim' = [scim EXCEPT ![s] = g] /\ UNCHANGED <<Frame, identity, scimTask>>
    BY <1>5 DEF ChooseBundle, Goes, Unadministered, Frame
  <2>3. Single(g.put) /\ Single(g.seen) /\ g.origin # "scim"
    BY <2>1 DEF Single
  <2> HIDE DEF g
  <2> QED
    BY <2>1, <2>2, <2>3, ArrivalKeeps
<1>6. ASSUME NEW a \in ScimAttributes, LoginOnboarding(s, a)
      PROVE  ScimInv' /\ (JoinInv => JoinInv')
  <2> DEFINE g == [IdleScim EXCEPT !.pc = "bundles", !.todo = Matched(a), !.origin = "rule_based"]
  <2>1. Matched(a) \subseteq Bundles
    BY DEF Matched
  <2>2. /\ g \in ScimRequestsOf(n) /\ g.put = {} /\ g.seen = {} /\ g.origin = "rule_based"
        /\ g.drop = {} /\ ~ g.locks /\ g.items = {} /\ g.pc = "bundles"
    BY <2>1 DEF IdleScim, ScimRequestsOf, ScimPlaces, Origins
  <2>3. scim' = [scim EXCEPT ![s] = g] /\ UNCHANGED <<Frame, identity, scimTask>>
    BY <1>6 DEF LoginOnboarding, Goes, Unadministered, Frame
  <2>4. Single(g.put) /\ Single(g.seen) /\ g.origin # "scim"
    BY <2>2 DEF Single
  <2> HIDE DEF g
  <2> QED
    BY <2>2, <2>3, <2>4, ArrivalKeeps
<1>7. ASSUME ScimCrash(s) PROVE ScimInv' /\ (JoinInv => JoinInv')
  <2>1. scim' = [scim EXCEPT ![s] = IdleScim] /\ UNCHANGED <<Frame, identity, scimTask>>
    BY <1>7 DEF ScimCrash, Goes, Frame
  <2>2. IdleScim \in ScimRequestsOf(n)
    BY <1>N, IdleTyped
  <2>3. /\ Single(IdleScim.put) /\ Single(IdleScim.seen) /\ IdleScim.drop = {} /\ ~ IdleScim.locks
        /\ IdleScim.items = {} /\ IdleScim.pc = "idle"
    BY DEF Single, IdleScim
  <2> QED
    BY <2>1, <2>2, <2>3, ArrivalKeeps
<1> QED
  BY <1>1, <1>2, <1>3, <1>5, <1>6, <1>7

-----------------------------------------------------------------------------
(* The steps of a request that place no order.                              *)
LEMMA UpsertKeeps ==
  ASSUME ScimInv, NEW s \in ScimSessions, ScimUpsert(s)
  PROVE  ScimInv' /\ (JoinInv => JoinInv')
<1> DEFINE r == scim[s]
           new == r.seen = {}
           joins == JoinerEnabled /\ \E p \in r.put :
                 p.active /\ (new \/ \E i \in r.seen : ~i.active)
           moves == /\ r.pc = "put" /\ ~new /\ moverMode # "disabled"
                    /\ \E p \in r.put, i \in r.seen : i.active /\ p.attrs # i.attrs
           next == IF \E p \in r.put : r.pc = "put" /\ ~p.active THEN "leave"
              ELSE IF joins THEN "bundles" ELSE IF moves THEN "move" ELSE "close"
           todo == IF joins THEN UNION {Matched(p.attrs) : p \in r.put} ELSE {}
           flushed == [r EXCEPT !.pc = next, !.locks = TRUE, !.todo = todo]
<1>1. r \in ScimRequestsOf(Len(scimOrder)) /\ r.pc \in {"post", "put"} /\ LockFree
  BY DEF ScimInv, ScimTyped, ScimUpsert
<1>2. Single(r.put) /\ Single(r.seen)
  BY DEF ScimInv, ScimTyped
<1>3. \A o \in r.drop : scimOrder[o].origin \in RevocableOrigins
  BY <1>1 DEF ScimInv, DropsRight, ByRule
<1>4. /\ scim' = [scim EXCEPT ![s] = IF new /\ identity # {} THEN IdleScim ELSE flushed]
      /\ UNCHANGED <<Frame, identity, scimTask>>
  BY DEF ScimUpsert, Goes, Unadministered, Frame
<1>5. CASE new /\ identity # {}
  <2>1. scim' = [scim EXCEPT ![s] = IdleScim]
    BY <1>4, <1>5
  <2>2. /\ IdleScim \in ScimRequestsOf(Len(scimOrder)) /\ IdleScim.drop = {}
        /\ Single(IdleScim.put) /\ Single(IdleScim.seen) /\ IdleScim.pc = "idle"
        /\ ~ IdleScim.locks /\ IdleScim.items = {}
    BY Lens, IdleTyped DEF Single
  <2> QED
    BY <1>4, <2>1, <2>2, ArrivalKeeps
<1>6. CASE ~ (new /\ identity # {})
  <2>1. todo \subseteq Bundles
    BY DEF Matched
  <2>2. next \in {"leave", "bundles", "move", "close"} /\ (moverMode = "disabled" => next # "move")
    OBVIOUS
  <2> HIDE DEF joins, moves, next, todo
  <2>3. /\ flushed \in ScimRequestsOf(Len(scimOrder)) /\ flushed.pc = next
        /\ flushed.put = r.put /\ flushed.seen = r.seen /\ flushed.drop = r.drop
        /\ flushed.locks
    BY <1>1, <2>1, <2>2 DEF ScimRequestsOf, ScimPlaces
  <2>4. scim' = [scim EXCEPT ![s] = flushed]
    BY <1>4, <1>6
  <2> HIDE DEF flushed
  <2>5. Turns(s, flushed)
    BY <1>2, <1>3, <1>4, <2>3, <2>4 DEF Turns, Frame, ScimInv, ScimTyped
  <2>6. moverMode = "disabled" => TurnJoins(s, flushed)
    BY <1>1, <2>2, <2>3 DEF TurnJoins
  <2> QED
    BY <2>5, <2>6, TurnsKeeps, TurnsJoin
<1> QED
  BY <1>5, <1>6

LEMMA CommitKeeps ==
  ASSUME ScimInv, NEW s \in ScimSessions, ScimCommit(s)
  PROVE  ScimInv' /\ (JoinInv => JoinInv')
<1> DEFINE r == scim[s]
           gone == [IdleScim EXCEPT !.pc = "leaver"]
           mover == [IdleScim EXCEPT !.pc = "mover", !.put = r.put]
           g == CASE r.pc = "close" -> IdleScim
                  [] r.pc = "leave" -> gone
                  [] r.pc = "patch" /\ moverMode = "disabled" -> IdleScim
                  [] OTHER -> mover
<1>1. r \in ScimRequestsOf(Len(scimOrder)) /\ r.pc \in {"leave", "move", "close", "patch"}
  BY DEF ScimInv, ScimTyped, ScimCommit
<1>2. Single(r.put) /\ r.put \subseteq Identities
  BY <1>1 DEF ScimInv, ScimTyped, ScimRequestsOf
<1>3. /\ scim' = [scim EXCEPT ![s] = g] /\ identity' = Written(s)
      /\ UNCHANGED <<Frame, scimTask>>
  BY DEF ScimCommit, Goes, Unadministered, Frame
<1>4. ASSUME NEW h \in {IdleScim, gone, mover}
      PROVE  /\ h \in ScimRequestsOf(Len(scimOrder)) /\ h.drop = {} /\ h.locks = FALSE
             /\ Single(h.put) /\ Single(h.seen) /\ h.pc \in {"idle", "leaver", "mover"}
  <2>1. /\ h \in ScimRequestsOf(Len(scimOrder)) /\ h.drop = {} /\ h.locks = FALSE
        /\ (h.put = {} \/ h.put = r.put) /\ h.seen = {} /\ h.pc \in {"idle", "leaver", "mover"}
    <3>1. CASE h = IdleScim
      BY <3>1, Lens, IdleTyped
    <3>2. CASE h = gone
      BY <3>2 DEF IdleScim, ScimRequestsOf, ScimPlaces, Origins
    <3>3. CASE h = mover
      BY <1>2, <3>3 DEF IdleScim, ScimRequestsOf, ScimPlaces, Origins
    <3> QED
      BY <1>4, <3>1, <3>2, <3>3
  <2> QED
    BY <1>2, <2>1 DEF Single
<1>5. g \in {IdleScim, gone, mover} /\ (g = mover \/ g # mover)
  OBVIOUS
<1>6. JoinInv /\ moverMode = "disabled" => g \in {IdleScim, gone}
  <2> SUFFICES ASSUME JoinInv, moverMode = "disabled" PROVE g \in {IdleScim, gone}
    OBVIOUS
  <2>1. r.pc # "move"
    BY DEF JoinInv, JoinLocks
  <2> QED
    BY <1>1, <2>1
<1>7. gone.pc = "leaver" /\ IdleScim.pc = "idle"
  BY DEF IdleScim
<1> HIDE DEF g, gone, mover
<1>8. Turns(s, g)
  BY <1>3, <1>4, <1>5, WrittenRight DEF Turns, Frame, ByRule, ScimInv, ScimTyped
<1>9. JoinInv /\ moverMode = "disabled" => TurnJoins(s, g)
  <2> SUFFICES ASSUME JoinInv, moverMode = "disabled" PROVE TurnJoins(s, g)
    OBVIOUS
  <2>1. g.pc \in {"idle", "leaver"} /\ g.locks = FALSE
    BY <1>4, <1>5, <1>6, <1>7
  <2> QED
    BY <2>1 DEF TurnJoins
<1> QED
  BY <1>8, <1>9, TurnsKeeps, TurnsJoin

LEMMA MoverKeeps ==
  ASSUME ScimInv, NEW s \in ScimSessions, MoverReads(s)
  PROVE  ScimInv' /\ (JoinInv => JoinInv')
<1> DEFINE bundles == UNION {Matched(p.attrs) : p \in scim[s].put}
           target == UNION {bundle[b].items : b \in bundles}
           current == {scimOrder[o].type : o \in MoverHoldings}
           todo == IF target \subseteq current THEN {} ELSE bundles
           drop == IF moverMode = "reconcile"
                   THEN {o \in MoverHoldings : scimOrder[o].type \notin target}
                   ELSE {}
           g == [IdleScim EXCEPT !.pc = "bundles", !.todo = todo, !.drop = drop]
<1>1. todo \subseteq Bundles
  BY DEF Matched
<1>2. drop \subseteq 1..Len(scimOrder) /\ \A o \in drop : scimOrder[o].origin \in RevocableOrigins
  BY HeldIn DEF MoverHoldings
<1>3. scim' = [scim EXCEPT ![s] = g] /\ UNCHANGED <<Frame, identity, scimTask>>
  BY DEF MoverReads, Goes, Unadministered, Frame
<1> HIDE DEF todo, drop
<1>4. /\ g \in ScimRequestsOf(Len(scimOrder)) /\ g.drop = drop /\ g.put = {} /\ g.seen = {}
  BY <1>1, <1>2 DEF IdleScim, ScimRequestsOf, ScimPlaces, Origins
<1>5. Single(g.put) /\ Single(g.seen)
  BY <1>4 DEF Single
<1> HIDE DEF g
<1>6. Turns(s, g)
  BY <1>2, <1>3, <1>4, <1>5 DEF Turns, Frame, ScimInv, ScimTyped
<1>7. ~ (JoinInv /\ moverMode = "disabled")
  BY DEF MoverReads, JoinInv, JoinLocks
<1> QED
  BY <1>6, <1>7, TurnsKeeps, TurnsJoin

LEMMA ResolveKeeps ==
  ASSUME ScimInv, NEW s \in ScimSessions, NEW b \in Bundles, BundleResolve(s, b)
  PROVE  ScimInv' /\ (OneBundle /\ JoinInv => JoinInv')
<1> DEFINE items == IF bundle[b].active THEN ResolveItems(b) ELSE {}
           pc == IF items = {} THEN "bundles" ELSE "order"
           g == [scim[s] EXCEPT !.todo = @ \ {b}, !.items = items, !.pc = pc]
<1>1. /\ scim[s] \in ScimRequestsOf(Len(scimOrder)) /\ scim[s].pc = "bundles" /\ b \in scim[s].todo
      /\ Single(scim[s].put) /\ Single(scim[s].seen)
  BY DEF ScimInv, ScimTyped, BundleResolve
<1>2. items \subseteq ScimTypes
  BY DEF ScimInv, ScimTyped, ResolveItems
<1>3. \A o \in 1..Len(scimOrder) :
        scimOrder[o].status \in HeldStatuses => scimOrder[o].type \notin items
  BY Lens DEF ResolveItems, OrdersIn
<1>4. scim' = [scim EXCEPT ![s] = g] /\ UNCHANGED <<Frame, identity, scimTask>>
  BY DEF BundleResolve, Goes, Unadministered, Frame
<1>5. pc \in {"bundles", "order"}
  OBVIOUS
<1> HIDE DEF items, pc
<1>6. /\ g \in ScimRequestsOf(Len(scimOrder)) /\ g.drop = scim[s].drop /\ g.put = scim[s].put
      /\ g.seen = scim[s].seen /\ g.locks = scim[s].locks /\ g.origin = scim[s].origin
      /\ g.items = items /\ g.pc = pc /\ g.todo = scim[s].todo \ {b}
  BY <1>1, <1>2, <1>5 DEF ScimRequestsOf, ScimPlaces
<1> HIDE DEF g
<1>7. \A o \in scim[s].drop : scimOrder[o].origin \in RevocableOrigins
  BY <1>1 DEF ScimInv, DropsRight, ByRule
<1>8. Turns(s, g)
  BY <1>1, <1>4, <1>6, <1>7 DEF Turns, Frame, ScimInv, ScimTyped
<1>9. OneBundle /\ JoinInv /\ moverMode = "disabled" => TurnJoins(s, g)
  <2> SUFFICES ASSUME OneBundle, JoinInv, moverMode = "disabled" PROVE TurnJoins(s, g)
    OBVIOUS
  <2>1. scim[s].todo \subseteq Bundles
    BY <1>1 DEF ScimRequestsOf
  <2>2. g.todo = {}
    BY <1>6, <2>1 DEF OneBundle
  <2>3. scim[s].origin = "scim" => scim[s].locks
    BY <1>1 DEF JoinInv, JoinLocks, Joins
  <2> QED
    BY <1>3, <1>5, <1>6, <2>2, <2>3 DEF TurnJoins
<1> QED
  BY <1>8, <1>9, TurnsKeeps, TurnsJoin

LEMMA DispatchKeeps ==
  ASSUME ScimInv, NEW s \in ScimSessions, BundleDispatch(s)
  PROVE  ScimInv' /\ (JoinInv => JoinInv')
<1> DEFINE g == [scim[s] EXCEPT !.pc = "bundles", !.send = {}]
<1>1. /\ scim[s] \in ScimRequestsOf(Len(scimOrder)) /\ scim[s].pc = "dispatch"
      /\ Single(scim[s].put) /\ Single(scim[s].seen)
  BY DEF ScimInv, ScimTyped, BundleDispatch
<1>2. /\ scim' = [scim EXCEPT ![s] = g] /\ UNCHANGED <<Frame, identity>>
      /\ scimTask' = scimTask \cup scim[s].send
  BY DEF BundleDispatch, Goes, Unadministered, Frame
<1>3. /\ g \in ScimRequestsOf(Len(scimOrder)) /\ g.drop = scim[s].drop /\ g.put = scim[s].put
      /\ g.seen = scim[s].seen /\ g.pc = "bundles" /\ g.todo = scim[s].todo
      /\ g.locks = scim[s].locks
  BY <1>1 DEF ScimRequestsOf, ScimPlaces
<1>4. scim[s].send \subseteq 1..Len(scimOrder)
  BY <1>1 DEF ScimRequestsOf
<1> HIDE DEF g
<1>5. \A o \in scim[s].drop : scimOrder[o].origin \in RevocableOrigins
  BY <1>1 DEF ScimInv, DropsRight, ByRule
<1>6. Turns(s, g)
  BY <1>1, <1>2, <1>3, <1>4, <1>5 DEF Turns, Frame, ScimInv, ScimTyped
<1>7. JoinInv /\ moverMode = "disabled" => TurnJoins(s, g)
  <2> SUFFICES ASSUME JoinInv, moverMode = "disabled" PROVE TurnJoins(s, g)
    OBVIOUS
  <2>1. g.todo = {}
    BY <1>1, <1>3 DEF JoinInv, JoinLocks
  <2> QED
    BY <1>3, <2>1 DEF TurnJoins
<1> QED
  BY <1>6, <1>7, TurnsKeeps, TurnsJoin

(* A request goes on to revoke, or ends.                                    *)
LEMMA EndKeeps ==
  ASSUME ScimInv, NEW s \in ScimSessions, NEW g \in ScimRequestsOf(Len(scimOrder)),
         scim' = [scim EXCEPT ![s] = g], g.put = {}, g.seen = {}, ~ g.locks,
         g.pc \in {"idle", "revoke"}, UNCHANGED Frame,
         identity' \subseteq Identities /\ Single(identity'),
         scimTask' \subseteq 1..Len(scimOrder),
         ByRule(g) => \A o \in g.drop : scimOrder[o].origin \in RevocableOrigins
  PROVE  ScimInv' /\ (JoinInv => JoinInv')
<1>1. Turns(s, g)
  BY DEF Turns, Frame, Single
<1>2. TurnJoins(s, g)
  BY DEF TurnJoins
<1> QED
  BY <1>1, <1>2, TurnsKeeps, TurnsJoin

LEMMA EndsKeep ==
  ASSUME ScimInv, NEW s \in ScimSessions, BundlesDone(s) \/ LeaverReads(s) \/ RevokeDispatch(s)
  PROVE  ScimInv' /\ (JoinInv => JoinInv')
<1>T. /\ identity \subseteq Identities /\ Single(identity) /\ scimTask \subseteq 1..Len(scimOrder)
      /\ scim[s] \in ScimRequestsOf(Len(scimOrder))
  BY DEF ScimInv, ScimTyped
<1>I. /\ IdleScim \in ScimRequestsOf(Len(scimOrder)) /\ IdleScim.put = {} /\ IdleScim.seen = {}
      /\ ~ IdleScim.locks /\ IdleScim.pc = "idle" /\ ~ ByRule(IdleScim)
  BY Lens, IdleTyped DEF ByRule
<1>1. ASSUME BundlesDone(s) PROVE ScimInv' /\ (JoinInv => JoinInv')
  <2> DEFINE drop == scim[s].drop \cap OrdersIn(HeldStatuses)
             g == [IdleScim EXCEPT !.pc = "revoke", !.drop = drop]
  <2>1. /\ scim' = [scim EXCEPT ![s] = IF scim[s].drop = {} THEN IdleScim ELSE g]
        /\ UNCHANGED <<Frame, scimTask>> /\ CommitIdentity(s)
    BY <1>1 DEF BundlesDone, Goes, Unadministered, Frame
  <2>2. drop \subseteq 1..Len(scimOrder) /\ \A o \in drop : scimOrder[o].origin \in RevocableOrigins
    BY <1>1, HeldIn DEF BundlesDone, ScimInv, DropsRight, ByRule
  <2>3. identity' \subseteq Identities /\ Single(identity')
    BY <2>1, WrittenRight
  <2> HIDE DEF drop
  <2>4. /\ g \in ScimRequestsOf(Len(scimOrder)) /\ g.put = {} /\ g.seen = {} /\ ~ g.locks
        /\ g.pc = "revoke" /\ g.drop = drop
    BY <2>2 DEF IdleScim, ScimRequestsOf, ScimPlaces, Origins
  <2> HIDE DEF g
  <2>5. CASE scim[s].drop = {}
    <3>1. scim' = [scim EXCEPT ![s] = IdleScim]
      BY <2>1, <2>5
    <3> QED
      BY <1>I, <1>T, <2>1, <2>3, <3>1, EndKeeps
  <2>6. CASE scim[s].drop # {}
    <3>1. scim' = [scim EXCEPT ![s] = g]
      BY <2>1, <2>6
    <3> QED
      BY <1>T, <2>1, <2>2, <2>3, <2>4, <3>1, EndKeeps
  <2> QED
    BY <2>5, <2>6
<1>2. ASSUME LeaverReads(s) PROVE ScimInv' /\ (JoinInv => JoinInv')
  <2> DEFINE drop == OrdersIn(HeldStatuses)
             g == [IdleScim EXCEPT !.pc = "revoke", !.origin = "rule_based", !.drop = drop]
  <2>1. scim' = [scim EXCEPT ![s] = g] /\ UNCHANGED <<Frame, identity, scimTask>>
    BY <1>2 DEF LeaverReads, Goes, Unadministered, Frame
  <2>2. drop \subseteq 1..Len(scimOrder)
    BY HeldIn
  <2> HIDE DEF drop
  <2>3. /\ g \in ScimRequestsOf(Len(scimOrder)) /\ g.put = {} /\ g.seen = {} /\ ~ g.locks
        /\ g.pc = "revoke" /\ g.origin = "rule_based"
    BY <2>2 DEF IdleScim, ScimRequestsOf, ScimPlaces, Origins
  <2> HIDE DEF g
  <2>4. ~ ByRule(g)
    BY <2>3 DEF ByRule
  <2> QED
    BY <1>T, <2>1, <2>3, <2>4, EndKeeps
<1>3. ASSUME RevokeDispatch(s) PROVE ScimInv' /\ (JoinInv => JoinInv')
  <2>1. /\ scim' = [scim EXCEPT ![s] = IdleScim] /\ UNCHANGED <<Frame, identity>>
        /\ scimTask' = scimTask \cup scim[s].drop
    BY <1>3 DEF RevokeDispatch, Goes, Unadministered, Frame
  <2>2. scimTask' \subseteq 1..Len(scimOrder)
    BY <1>T, <2>1 DEF ScimRequestsOf
  <2> QED
    BY <1>I, <1>T, <2>1, <2>2, EndKeeps
<1> QED
  BY <1>1, <1>2, <1>3

-----------------------------------------------------------------------------
(* A finite set can be listed without repetition.                           *)
LEMMA Listable ==
  ASSUME NEW S, IsFiniteSet(S)
  PROVE  /\ Cardinality(S) \in Nat
         /\ \E q \in [1..Cardinality(S) -> S] : \A i, j \in DOMAIN q : i # j => q[i] # q[j]
<1>1. Cardinality(S) \in Nat /\ ExistsBijection(1..Cardinality(S), S)
  BY FS_CardinalityType
<1>2. PICK q : q \in Bijection(1..Cardinality(S), S)
  BY <1>1 DEF ExistsBijection
<1>3. q \in [1..Cardinality(S) -> S] /\ DOMAIN q = 1..Cardinality(S)
  BY <1>2 DEF Bijection, Injection
<1>4. \A i, j \in DOMAIN q : i # j => q[i] # q[j]
  BY <1>2, <1>3 DEF Bijection, Injection, IsInjective
<1> QED
  BY <1>1, <1>3, <1>4

(* The orders a commit places, after those that are there.                  *)
Places(s, orders) ==
  /\ orders \in Seq(ScimOrders)
  /\ scimOrder' = scimOrder \o orders
  /\ \A i \in 1..Len(orders) :
       /\ orders[i].type \in scim[s].items /\ orders[i].origin = scim[s].origin
       /\ orders[i].status \in HeldStatuses

LEMMA CommitPlaces ==
  ASSUME ScimInv, NEW s \in ScimSessions, BundleCommit(s)
  PROVE  \E orders, send :
           /\ Places(s, orders)
           /\ send \subseteq {Len(scimOrder) + i : i \in 1..Len(orders)}
           /\ scim' = [scim EXCEPT ![s] =
                [scim[s] EXCEPT !.pc = "dispatch", !.items = {}, !.locks = FALSE,
                       !.put = {}, !.seen = {}, !.send = send]]
<1> DEFINE r == scim[s]
           n == Len(scimOrder)
           new == {q \in [1..Cardinality(r.items) -> r.items] :
                \A i, j \in DOMAIN q : i # j => q[i] # q[j]}
           types == CHOOSE q \in new : TRUE
           Placed(t) ==
        [type |-> t, origin |-> r.origin, action |-> "provision", chosen |-> r.chosen,
         status |-> IF t \in ScimApproved THEN "pending_approval" ELSE "processing"]
           orders == [i \in 1..Cardinality(r.items) |-> Placed(types[i])]
           send == {n + i : i \in {j \in DOMAIN orders : orders[j].status = "processing"}}
<1>1. /\ r \in ScimRequestsOf(n) /\ r.items \subseteq ScimTypes
      /\ r.origin \in Origins /\ r.chosen \in BOOLEAN
  BY DEF ScimInv, ScimTyped, ScimRequestsOf
<1>2. IsFiniteSet(r.items)
  BY <1>1, FS_Subset, ScimAssumption
<1>3. Cardinality(r.items) \in Nat /\ new # {}
  <2>1. /\ Cardinality(r.items) \in Nat
        /\ \E q \in [1..Cardinality(r.items) -> r.items] :
             \A i, j \in DOMAIN q : i # j => q[i] # q[j]
    <3>1. PICK S : S = r.items
      OBVIOUS
    <3> QED
      BY <1>2, <3>1, Listable
  <2> QED
    BY <2>1
<1>4. types \in [1..Cardinality(r.items) -> r.items]
  <2>1. types \in new
    BY <1>3
  <2> HIDE DEF types
  <2> QED
    BY <2>1
<1>5. ASSUME NEW t \in r.items
      PROVE  /\ Placed(t) \in ScimOrders /\ Placed(t).type = t /\ Placed(t).origin = r.origin
             /\ Placed(t).status \in HeldStatuses
  BY <1>1, <1>5 DEF ScimOrders, HeldStatuses
<1>6. /\ scimOrder' = scimOrder \o orders
      /\ scim' = [scim EXCEPT ![s] = [scim[s] EXCEPT !.pc = "dispatch", !.items = {},
                    !.locks = FALSE, !.put = {}, !.seen = {}, !.send = send]]
  BY DEF BundleCommit, Goes
<1> HIDE DEF types, Placed
<1>7. /\ orders \in [1..Cardinality(r.items) -> ScimOrders]
      /\ \A i \in 1..Cardinality(r.items) :
           /\ orders[i].type \in r.items /\ orders[i].origin = r.origin
           /\ orders[i].status \in HeldStatuses
  BY <1>4, <1>5
<1>8. orders \in Seq(ScimOrders) /\ Len(orders) = Cardinality(r.items)
  <2> HIDE DEF orders
  <2> QED
    BY <1>3, <1>7
<1>9. send \subseteq {n + i : i \in 1..Len(orders)}
  BY <1>7, <1>8
<1> HIDE DEF orders, send
<1>10. Places(s, orders)
  BY <1>6, <1>7, <1>8 DEF Places
<1> QED
  BY <1>6, <1>9, <1>10

(* What is there stays, and the rest is new.                                *)
LEMMA PlacedAfter ==
  ASSUME ScimInv, NEW s, NEW orders, Places(s, orders)
  PROVE  /\ scimOrder' \in Seq(ScimOrders)
         /\ Len(orders) \in Nat
         /\ Len(scimOrder') = Len(scimOrder) + Len(orders)
         /\ \A o \in 1..Len(scimOrder) : o \in 1..Len(scimOrder') /\ scimOrder'[o] = scimOrder[o]
         /\ \A o \in 1..Len(scimOrder') \ 1..Len(scimOrder) :
              /\ scimOrder'[o].type \in scim[s].items
              /\ scimOrder'[o].origin = scim[s].origin
              /\ scimOrder'[o].status \in HeldStatuses
<1>1. scimOrder \in Seq(ScimOrders) /\ orders \in Seq(ScimOrders) /\ scimOrder' = scimOrder \o orders
  BY DEF ScimInv, ScimTyped, Places
<1>2. /\ scimOrder' \in Seq(ScimOrders) /\ Len(scimOrder') = Len(scimOrder) + Len(orders)
      /\ Len(orders) \in Nat /\ Len(scimOrder) \in Nat
      /\ \A o \in 1..Len(scimOrder) + Len(orders) :
           scimOrder'[o] = IF o <= Len(scimOrder) THEN scimOrder[o]
                           ELSE orders[o - Len(scimOrder)]
  BY <1>1
<1>3. \A o \in 1..Len(scimOrder) : o \in 1..Len(scimOrder') /\ scimOrder'[o] = scimOrder[o]
  BY <1>2
<1>4. ASSUME NEW o \in 1..Len(scimOrder') \ 1..Len(scimOrder)
      PROVE  /\ scimOrder'[o].type \in scim[s].items
             /\ scimOrder'[o].origin = scim[s].origin
             /\ scimOrder'[o].status \in HeldStatuses
  <2>1. o - Len(scimOrder) \in 1..Len(orders) /\ scimOrder'[o] = orders[o - Len(scimOrder)]
    BY <1>2
  <2> QED
    BY <2>1 DEF Places
<1> QED
  BY <1>2, <1>3, <1>4

LEMMA RequestGrows ==
  ASSUME NEW n \in Nat, NEW m \in Nat, n <= m
  PROVE  ScimRequestsOf(n) \subseteq ScimRequestsOf(m)
<1>1. 1..n \subseteq 1..m
  OBVIOUS
<1> QED
  BY <1>1 DEF ScimRequestsOf

LEMMA BundleCommitKeeps ==
  ASSUME ScimInv, NEW s \in ScimSessions, BundleCommit(s)
  PROVE  ScimInv' /\ (JoinInv => JoinInv')
<1>1. PICK orders, send :
           /\ Places(s, orders)
           /\ send \subseteq {Len(scimOrder) + i : i \in 1..Len(orders)}
           /\ scim' = [scim EXCEPT ![s] =
                [scim[s] EXCEPT !.pc = "dispatch", !.items = {}, !.locks = FALSE,
                       !.put = {}, !.seen = {}, !.send = send]]
  BY CommitPlaces
<1>2. /\ scimOrder' \in Seq(ScimOrders) /\ Len(orders) \in Nat /\ Len(scimOrder) \in Nat
      /\ Len(scimOrder') = Len(scimOrder) + Len(orders)
      /\ Len(scimOrder') \in Nat
      /\ 1..Len(scimOrder) \subseteq 1..Len(scimOrder')
      /\ \A o \in 1..Len(scimOrder) : scimOrder'[o] = scimOrder[o]
      /\ \A o \in 1..Len(scimOrder') \ 1..Len(scimOrder) :
              /\ scimOrder'[o].type \in scim[s].items
              /\ scimOrder'[o].origin = scim[s].origin
              /\ scimOrder'[o].status \in HeldStatuses
  BY <1>1, PlacedAfter, Lens
<1>3. send \subseteq 1..Len(scimOrder')
  BY <1>1, <1>2
<1> DEFINE g == [scim[s] EXCEPT !.pc = "dispatch", !.items = {}, !.locks = FALSE,
                       !.put = {}, !.seen = {}, !.send = send]
<1>4. ScimRequestsOf(Len(scimOrder)) \subseteq ScimRequestsOf(Len(scimOrder'))
  BY <1>2, RequestGrows
<1>5. scim[s] \in ScimRequestsOf(Len(scimOrder')) /\ scim[s].pc = "order"
  BY <1>4 DEF ScimInv, ScimTyped, BundleCommit
<1>6. /\ g \in ScimRequestsOf(Len(scimOrder')) /\ g.pc = "dispatch" /\ g.put = {} /\ g.seen = {}
      /\ g.drop = scim[s].drop /\ g.todo = scim[s].todo /\ g.locks = FALSE
  BY <1>3, <1>5 DEF ScimRequestsOf, ScimPlaces
<1>7. scim' = [scim EXCEPT ![s] = g]
  BY <1>1
<1> HIDE DEF g
<1>8. /\ scim' \in [ScimSessions -> ScimRequestsOf(Len(scimOrder'))] /\ scim'[s] = g
      /\ \A t \in ScimSessions \ {s} : scim'[t] = scim[t]
  BY <1>4, <1>6, <1>7 DEF ScimInv, ScimTyped
<1>9. identity' \subseteq Identities /\ Single(identity')
  BY WrittenRight DEF BundleCommit
<1>10. UNCHANGED <<bundle, assignment, moverMode, scimTask>>
  BY DEF BundleCommit, Unadministered
<1>11. ScimTyped'
  <2>1. \A t \in ScimSessions : Single(scim'[t].put) /\ Single(scim'[t].seen)
    BY <1>6, <1>8 DEF ScimInv, ScimTyped, Single
  <2>2. scimTask' \subseteq 1..Len(scimOrder')
    BY <1>2, <1>10 DEF ScimInv, ScimTyped
  <2> QED
    BY <1>2, <1>8, <1>9, <1>10, <2>1, <2>2 DEF ScimInv, ScimTyped
<1>12. GoneIsGone'
  BY <1>2 DEF ScimInv, GoneIsGone
<1>13. DropsRight'
  <2> SUFFICES ASSUME NEW t \in ScimSessions, ByRule(scim'[t]), NEW o \in scim'[t].drop
               PROVE  scimOrder'[o].origin \in RevocableOrigins
    BY DEF DropsRight
  <2>1. o \in scim[t].drop /\ ByRule(scim[t])
    BY <1>5, <1>6, <1>8 DEF ByRule
  <2>2. o \in 1..Len(scimOrder)
    BY <2>1 DEF ScimInv, ScimTyped, ScimRequestsOf
  <2> QED
    BY <1>2, <2>1, <2>2 DEF ScimInv, DropsRight
<1>14. ASSUME JoinInv, moverMode = "disabled" PROVE (JoinLocks /\ OneLock /\ NotHeldYet)'
  <2>1. JoinLocks'
    BY <1>5, <1>6, <1>8, <1>14 DEF JoinInv, JoinLocks, Joins
  <2>2. OneLock'
    BY <1>6, <1>8, <1>14 DEF JoinInv, OneLock
  <2>3. NotHeldYet'
    <3> SUFFICES ASSUME NEW t \in ScimSessions, NEW o \in 1..Len(scimOrder'),
                        scim'[t].origin = "scim", scim'[t].pc = "order",
                        scimOrder'[o].origin = "scim", scimOrder'[o].status \in HeldStatuses
                 PROVE  scimOrder'[o].type \notin scim'[t].items
      BY DEF NotHeldYet, Joins
    <3>1. t # s /\ scim'[t] = scim[t]
      BY <1>6, <1>8
    <3>2. CASE o \in 1..Len(scimOrder)
      BY <1>2, <1>14, <3>1, <3>2 DEF JoinInv, NotHeldYet, Joins
    <3>3. CASE o \notin 1..Len(scimOrder)
      <4>1. scim[s].origin = "scim"
        BY <1>2, <3>3
      <4>2. scim[s].locks /\ scim[t].locks
        BY <1>5, <1>14, <3>1, <4>1 DEF JoinInv, JoinLocks, Joins
      <4> QED
        BY <1>14, <3>1, <4>2 DEF JoinInv, OneLock
    <3> QED
      BY <3>2, <3>3
  <2> QED
    BY <2>1, <2>2, <2>3
<1> QED
  BY <1>10, <1>11, <1>12, <1>13, <1>14 DEF ScimInv, JoinInv

-----------------------------------------------------------------------------
(* Orders go on: none comes into being, none is held again.                 *)
OrdersGoOn ==
  /\ scimOrder' \in Seq(ScimOrders) /\ Len(scimOrder') = Len(scimOrder)
  /\ \A o \in 1..Len(scimOrder) :
       /\ scimOrder'[o].type = scimOrder[o].type /\ scimOrder'[o].origin = scimOrder[o].origin
       /\ scimOrder'[o].status \notin HeldStatuses => scimOrder'[o].action = "delete"
       /\ scimOrder'[o].status \in HeldStatuses => scimOrder[o].status \in HeldStatuses

LEMMA OrdersGoOnKeeps ==
  ASSUME ScimInv, OrdersGoOn, NEW s, NEW g,
         scim' = scim \/ (s \in ScimSessions /\ scim' = [scim EXCEPT ![s] = g]),
         scim' = scim \/ (g \in ScimRequestsOf(Len(scimOrder)) /\ Single(g.put) /\ Single(g.seen)
                           /\ g.pc \in {"revoked"} /\ g.locks = scim[s].locks),
         scimTask' \subseteq 1..Len(scimOrder),
         UNCHANGED <<bundle, assignment, moverMode, identity>>
  PROVE  ScimInv' /\ (JoinInv => JoinInv')
<1>1. ScimTyped'
  BY DEF ScimInv, ScimTyped, OrdersGoOn
<1>2. GoneIsGone'
  BY DEF GoneIsGone, OrdersGoOn
<1>3. \A t \in ScimSessions :
        \/ scim'[t] = scim[t]
        \/ scim'[t].pc = "revoked" /\ scim'[t].locks = scim[t].locks
  BY DEF ScimInv, ScimTyped
<1>4. DropsRight'
  <2> SUFFICES ASSUME NEW t \in ScimSessions, ByRule(scim'[t]), NEW o \in scim'[t].drop
               PROVE  scimOrder'[o].origin \in RevocableOrigins
    BY DEF DropsRight
  <2>1. scim'[t] = scim[t]
    BY <1>3 DEF ByRule
  <2>2. o \in 1..Len(scimOrder)
    BY <2>1 DEF ScimInv, ScimTyped, ScimRequestsOf
  <2> QED
    BY <2>1, <2>2 DEF ScimInv, DropsRight, OrdersGoOn
<1>5. JoinInv => JoinInv'
  BY <1>3 DEF JoinInv, JoinLocks, OneLock, NotHeldYet, Joins, OrdersGoOn
<1> QED
  BY <1>1, <1>2, <1>4, <1>5 DEF ScimInv

LEMMA ScimOrderTyped ==
  ASSUME ScimInv, NEW o \in 1..Len(scimOrder)
  PROVE  scimOrder[o] \in ScimOrders
BY DEF ScimInv, ScimTyped

LEMMA RevokeCommits ==
  ASSUME ScimInv, NEW s \in ScimSessions, RevokeCommit(s)
  PROVE  /\ OrdersGoOn /\ DOMAIN scimOrder' = 1..Len(scimOrder)
         /\ \A o \in 1..Len(scimOrder) : o \notin scim[s].drop => scimOrder'[o] = scimOrder[o]
<1>1. /\ scimOrder' = [o \in 1..Len(scimOrder) |->
           IF o \in scim[s].drop
           THEN [scimOrder[o] EXCEPT !.status = "revoking", !.action = "delete"]
           ELSE scimOrder[o]]
      /\ Len(scimOrder) \in Nat
  BY Lens DEF RevokeCommit
<1>2. ASSUME NEW o \in 1..Len(scimOrder)
      PROVE  /\ scimOrder'[o] \in ScimOrders
             /\ scimOrder'[o].type = scimOrder[o].type /\ scimOrder'[o].origin = scimOrder[o].origin
             /\ scimOrder'[o].status \notin HeldStatuses => scimOrder'[o].action = "delete"
             /\ scimOrder'[o].status \in HeldStatuses => scimOrder[o].status \in HeldStatuses
             /\ o \notin scim[s].drop => scimOrder'[o] = scimOrder[o]
  <2>1. scimOrder[o] \in ScimOrders
    BY ScimOrderTyped
  <2>2. CASE o \in scim[s].drop
    BY <1>1, <2>1, <2>2 DEF ScimOrders, HeldStatuses
  <2>3. CASE o \notin scim[s].drop
    BY <1>1, <2>1, <2>3 DEF ScimInv, GoneIsGone
  <2> QED
    BY <2>2, <2>3
<1>3. scimOrder' \in Seq(ScimOrders) /\ Len(scimOrder') = Len(scimOrder)
  <2>1. PICK n, new : n = Len(scimOrder) /\ new = scimOrder' /\ n \in Nat
    BY <1>1
  <2>2. new \in [1..n -> ScimOrders]
    BY <1>1, <1>2, <2>1
  <2>3. new \in Seq(ScimOrders) /\ Len(new) = n
    BY <2>1, <2>2
  <2> QED
    BY <2>1, <2>3
<1> QED
  BY <1>1, <1>2, <1>3 DEF OrdersGoOn

LEMMA OneGoesOn ==
  ASSUME ScimInv, NEW o \in 1..Len(scimOrder), ScimApprove(o) \/ ScimRun(o)
  PROVE  /\ OrdersGoOn /\ DOMAIN scimOrder' = 1..Len(scimOrder)
         /\ \A p \in 1..Len(scimOrder) :
              scimOrder'[p].status = "revoking" => scimOrder[p].status = "revoking"
<1>1. PICK v :
        /\ scimOrder' = [scimOrder EXCEPT ![o].status = v]
        /\ \/ scimOrder[o].status = "pending_approval" /\ v = "processing"
           \/ v = IF scimOrder[o].status \in {"revoked", "pending_approval"} THEN scimOrder[o].status
                  ELSE IF scimOrder[o].action = "delete" THEN "revoked" ELSE "delivered"
  <2>1. CASE ScimApprove(o)
    BY <2>1 DEF ScimApprove
  <2>2. CASE ScimRun(o)
    <3>1. o \in DOMAIN scimOrder
      BY Lens
    <3> QED
      BY <2>2, <3>1 DEF ScimRun
  <2> QED
    BY <2>1, <2>2
<1>2. scimOrder[o] \in ScimOrders /\ scimOrder \in Seq(ScimOrders)
  BY ScimOrderTyped DEF ScimInv, ScimTyped
<1>3. scimOrder[o].status \notin HeldStatuses => scimOrder[o].action = "delete"
  BY DEF ScimInv, GoneIsGone
<1>4. /\ v \in HeldStatuses \cup {"revoked"}
      /\ v \notin HeldStatuses => scimOrder[o].action = "delete"
      /\ v \in HeldStatuses => scimOrder[o].status \in HeldStatuses
  BY <1>1, <1>2, <1>3 DEF ScimOrders, HeldStatuses
<1>5. PICK r : r = [scimOrder[o] EXCEPT !.status = v]
  OBVIOUS
<1>6. /\ r \in ScimOrders /\ r.type = scimOrder[o].type /\ r.origin = scimOrder[o].origin
      /\ r.status = v /\ r.action = scimOrder[o].action
  BY <1>2, <1>4, <1>5 DEF ScimOrders
<1>7. scimOrder' = [scimOrder EXCEPT ![o] = r]
  BY <1>1, <1>2, <1>5
<1>8. /\ scimOrder' \in Seq(ScimOrders) /\ Len(scimOrder') = Len(scimOrder)
      /\ scimOrder'[o] = r /\ \A p \in 1..Len(scimOrder) \ {o} : scimOrder'[p] = scimOrder[p]
  BY <1>2, <1>6, <1>7
<1>9. OrdersGoOn
  <2> SUFFICES ASSUME NEW p \in 1..Len(scimOrder)
               PROVE  /\ scimOrder'[p].type = scimOrder[p].type
                      /\ scimOrder'[p].origin = scimOrder[p].origin
                      /\ scimOrder'[p].status \notin HeldStatuses => scimOrder'[p].action = "delete"
                      /\ scimOrder'[p].status \in HeldStatuses => scimOrder[p].status \in HeldStatuses
    BY <1>8 DEF OrdersGoOn
  <2>1. CASE p = o
    BY <1>4, <1>6, <1>8, <2>1
  <2>2. CASE p # o
    BY <1>8, <2>2 DEF ScimInv, GoneIsGone
  <2> QED
    BY <2>1, <2>2
<1>10. \A p \in 1..Len(scimOrder) :
         scimOrder'[p].status = "revoking" => scimOrder[p].status = "revoking"
  BY <1>4, <1>6, <1>8 DEF HeldStatuses
<1> QED
  BY <1>8, <1>9, <1>10

LEMMA OrdersKeep ==
  ASSUME ScimInv,
         \/ \E s \in ScimSessions : RevokeCommit(s)
         \/ \E o \in DOMAIN scimOrder : ScimApprove(o) \/ ScimRun(o)
  PROVE  ScimInv' /\ (JoinInv => JoinInv')
<1>1. ASSUME NEW s \in ScimSessions, RevokeCommit(s) PROVE ScimInv' /\ (JoinInv => JoinInv')
  <2> DEFINE g == [scim[s] EXCEPT !.pc = "revoked"]
  <2>1. /\ scim' = [scim EXCEPT ![s] = g] /\ UNCHANGED <<bundle, assignment, moverMode, identity>>
        /\ scimTask' = scimTask
    BY <1>1 DEF RevokeCommit, Goes, Unadministered
  <2>2. /\ scim[s] \in ScimRequestsOf(Len(scimOrder)) /\ Single(scim[s].put) /\ Single(scim[s].seen)
        /\ scimTask \subseteq 1..Len(scimOrder)
    BY DEF ScimInv, ScimTyped
  <2>3. /\ g \in ScimRequestsOf(Len(scimOrder)) /\ g.put = scim[s].put /\ g.seen = scim[s].seen
        /\ g.pc = "revoked" /\ g.locks = scim[s].locks
    BY <2>2 DEF ScimRequestsOf, ScimPlaces
  <2> HIDE DEF g
  <2> QED
    BY <1>1, <2>1, <2>2, <2>3, RevokeCommits, OrdersGoOnKeeps
<1>2. ASSUME NEW o \in DOMAIN scimOrder, ScimApprove(o) \/ ScimRun(o)
      PROVE  ScimInv' /\ (JoinInv => JoinInv')
  <2>1. o \in 1..Len(scimOrder)
    BY Lens
  <2>2. /\ scim' = scim /\ UNCHANGED <<bundle, assignment, moverMode, identity>>
        /\ scimTask' \subseteq 1..Len(scimOrder)
    BY <1>2, <2>1 DEF ScimApprove, ScimRun, Unadministered, ScimInv, ScimTyped
  <2>3. OrdersGoOn
    BY <1>2, <2>1, OneGoesOn
  <2> QED
    BY <2>2, <2>3, OrdersGoOnKeeps
<1> QED
  BY <1>1, <1>2

LEMMA EditsKeep ==
  ASSUME ScimInv, NEW b \in Bundles,
         \/ \E active \in BOOLEAN, items \in SUBSET ScimTypes : UpdateBundle(b, active, items)
         \/ DeleteBundle(b)
         \/ \E r \in AssignmentRules, active \in BOOLEAN : UpdateRule(r, active, b)
  PROVE  ScimInv' /\ (JoinInv => JoinInv')
<1>1. UNCHANGED <<identity, scimOrder, scimTask, scim, moverMode>>
  BY DEF UpdateBundle, DeleteBundle, UpdateRule, Edited
<1>2. bundle' \in [Bundles -> [active: BOOLEAN, items: SUBSET ScimTypes]]
  <2>1. bundle \in [Bundles -> [active: BOOLEAN, items: SUBSET ScimTypes]]
    BY DEF ScimInv, ScimTyped
  <2>2. ASSUME NEW active \in BOOLEAN, NEW items \in SUBSET ScimTypes, UpdateBundle(b, active, items)
        PROVE  bundle' \in [Bundles -> [active: BOOLEAN, items: SUBSET ScimTypes]]
    BY <2>1, <2>2 DEF UpdateBundle
  <2>3. ASSUME DeleteBundle(b)
        PROVE  bundle' \in [Bundles -> [active: BOOLEAN, items: SUBSET ScimTypes]]
    BY <2>1, <2>3 DEF DeleteBundle
  <2>4. ASSUME NEW r \in AssignmentRules, NEW active \in BOOLEAN, UpdateRule(r, active, b)
        PROVE  bundle' \in [Bundles -> [active: BOOLEAN, items: SUBSET ScimTypes]]
    BY <2>1, <2>4 DEF UpdateRule
  <2> QED
    BY <2>2, <2>3, <2>4
<1>3. assignment' \in [AssignmentRules -> [active: BOOLEAN, bundle: Bundles,
                                           when: SUBSET ScimAttributes]]
  <2> DEFINE Rule == [active: BOOLEAN, bundle: Bundles, when: SUBSET ScimAttributes]
  <2>1. assignment \in [AssignmentRules -> Rule]
    BY DEF ScimInv, ScimTyped
  <2>2. ASSUME NEW active \in BOOLEAN, NEW items \in SUBSET ScimTypes, UpdateBundle(b, active, items)
        PROVE  assignment' \in [AssignmentRules -> Rule]
    BY <2>1, <2>2 DEF UpdateBundle
  <2>3. ASSUME DeleteBundle(b) PROVE assignment' \in [AssignmentRules -> Rule]
    <3>1. \A r \in AssignmentRules :
            [assignment[r] EXCEPT !.active = @ /\ assignment[r].bundle # b] \in Rule
      <4> SUFFICES ASSUME NEW r \in AssignmentRules
                   PROVE  [assignment[r] EXCEPT !.active = @ /\ assignment[r].bundle # b] \in Rule
        OBVIOUS
      <4>1. assignment[r] \in Rule
        BY <2>1
      <4>2. PICK a \in BOOLEAN : a = (assignment[r].active /\ assignment[r].bundle # b)
        OBVIOUS
      <4> QED
        BY <4>1, <4>2
    <3> QED
      BY <2>3, <3>1 DEF DeleteBundle
  <2>4. ASSUME NEW r \in AssignmentRules, NEW active \in BOOLEAN, UpdateRule(r, active, b)
        PROVE  assignment' \in [AssignmentRules -> Rule]
    BY <2>1, <2>4 DEF UpdateRule
  <2> QED
    BY <2>2, <2>3, <2>4
<1>4. ScimTyped'
  BY <1>1, <1>2, <1>3 DEF ScimInv, ScimTyped
<1>5. GoneIsGone' /\ DropsRight' /\ (JoinInv => JoinInv')
  BY <1>1 DEF ScimInv, GoneIsGone, DropsRight, JoinInv, JoinLocks, OneLock, NotHeldYet, Joins
<1> QED
  BY <1>4, <1>5 DEF ScimInv

LEMMA ScimStep ==
  ASSUME ScimInv, [ScimNext]_scimVars
  PROVE  ScimInv' /\ (OneBundle /\ JoinInv => JoinInv')
<1>1. ASSUME UNCHANGED scimVars PROVE ScimInv' /\ (JoinInv => JoinInv')
  BY <1>1 DEF scimVars, ScimInv, ScimTyped, GoneIsGone, DropsRight, JoinInv, JoinLocks, OneLock,
     NotHeldYet, Joins
<1> QED
  BY <1>1, Arrivals, UpsertKeeps, CommitKeeps, MoverKeeps, ResolveKeeps, DispatchKeeps, EndsKeep,
     BundleCommitKeeps, OrdersKeep, EditsKeep DEF ScimNext, ScimSession

LEMMA ScimInvariant == ScimSpec => []ScimInv
<1>1. ScimInv /\ [ScimNext]_scimVars => ScimInv'
  BY ScimStep
<1> QED
  BY <1>1, ScimInitInv, PTL DEF ScimSpec

LEMMA ScimWellTyped == ScimInv => ScimTypeOK
<1> SUFFICES ASSUME ScimInv PROVE ScimTypeOK
  OBVIOUS
<1>1. Cardinality(identity) <= 1
  <2>1. CASE identity = {}
    BY <2>1, FS_EmptySet
  <2>2. CASE identity # {}
    <3>1. PICK i \in identity : TRUE
      BY <2>2
    <3>2. identity = {i}
      BY <3>1 DEF ScimInv, ScimTyped, Single
    <3> QED
      BY <3>2, FS_Singleton
  <2> QED
    BY <2>1, <2>2
<1>2. ASSUME NEW s \in ScimSessions
      PROVE  /\ scim[s].put \subseteq Identities /\ scim[s].seen \subseteq Identities
             /\ scim[s].todo \subseteq Bundles /\ scim[s].items \subseteq ScimTypes
             /\ scim[s].send \cup scim[s].drop \subseteq 1..Len(scimOrder)
  BY DEF ScimInv, ScimTyped, ScimRequestsOf
<1> QED
  BY <1>1, <1>2, Lens DEF ScimInv, ScimTyped, ScimTypeOK

-----------------------------------------------------------------------------
(* What a step does to the orders.                                          *)
LEMMA OrderSteps ==
  ASSUME ScimInv, [ScimNext]_scimVars
  PROVE  \/ scimOrder' = scimOrder
         \/ \E s \in ScimSessions : BundleCommit(s) \/ RevokeCommit(s)
         \/ \E o \in 1..Len(scimOrder) : ScimApprove(o) \/ ScimRun(o)
BY Lens DEF ScimNext, ScimSession, scimVars, ScimRead, PatchRead, LoginOnboarding, LeaverRequest,
   ChooseBundle, ScimUpsert, ScimCommit, MoverReads, BundleResolve, BundleDispatch, BundlesDone,
   LeaverReads, RevokeDispatch, ScimCrash, UpdateBundle, DeleteBundle, UpdateRule, Edited

LEMMA JoinsOnce ==
  ASSUME ScimInv, JoinInv, [ScimNext]_scimVars, moverMode = "disabled",
         NEW o \in DOMAIN scimOrder' \ DOMAIN scimOrder, NEW p \in OrdersIn(HeldStatuses),
         scimOrder'[o].origin = "scim", scimOrder[p].origin = "scim"
  PROVE  scimOrder'[o].type # scimOrder[p].type
<1>1. PICK s \in ScimSessions : BundleCommit(s)
  BY OrderSteps, RevokeCommits, OneGoesOn, Lens
<1>2. PICK orders : Places(s, orders)
  BY <1>1, CommitPlaces
<1>3. p \in 1..Len(scimOrder) /\ scimOrder[p].status \in HeldStatuses
  BY Lens DEF OrdersIn
<1>4. o \in 1..Len(scimOrder') \ 1..Len(scimOrder)
  BY <1>2, PlacedAfter, Lens
<1>5. scimOrder'[o].type \in scim[s].items /\ scim[s].origin = "scim"
  BY <1>2, <1>4, PlacedAfter
<1> QED
  BY <1>1, <1>3, <1>5 DEF JoinInv, NotHeldYet, Joins, BundleCommit

LEMMA CatalogKept ==
  ASSUME ScimInv, [ScimNext]_scimVars, NEW o \in DOMAIN scimOrder,
         scimOrder[o].origin = "bundle_catalog", scimOrder[o].status \in HeldStatuses,
         scimOrder'[o].status = "revoking"
  PROVE  \E s \in ScimSessions : scim[s].pc = "revoke" /\ scim[s].origin = "rule_based"
<1>1. o \in 1..Len(scimOrder) /\ scimOrder[o].status # "revoking"
  BY Lens DEF HeldStatuses
<1>2. ASSUME NEW s \in ScimSessions, BundleCommit(s) PROVE FALSE
  <2>1. PICK orders : Places(s, orders)
    BY <1>2, CommitPlaces
  <2> QED
    BY <1>1, <2>1, PlacedAfter
<1>3. PICK s \in ScimSessions : RevokeCommit(s)
  BY <1>1, <1>2, OrderSteps, OneGoesOn
<1>4. o \in scim[s].drop /\ scim[s].pc = "revoke"
  BY <1>1, <1>3, RevokeCommits DEF RevokeCommit
<1>5. "bundle_catalog" \notin RevocableOrigins
  BY DEF RevocableOrigins
<1> QED
  BY <1>4, <1>5 DEF ScimInv, DropsRight, ByRule

(* With one bundle to join and the mover off, nobody is ordered a type      *)
(* twice by requests that overlap; and whatever the bundles and the mover,  *)
(* an order from the catalogue is revoked by a leaver only.                 *)
THEOREM ScimCorrect ==
  ASSUME OneBundle
  PROVE  ScimSpec => ScimRight
<1> DEFINE Inv == ScimInv /\ JoinInv
<1>1. ScimInit => Inv
  BY ScimInitInv
<1>2. Inv /\ [ScimNext]_scimVars => Inv'
  BY ScimStep
<1>3. Inv /\ [ScimNext]_scimVars =>
        [moverMode = "disabled" =>
           \A o \in DOMAIN scimOrder' \ DOMAIN scimOrder, p \in OrdersIn(HeldStatuses) :
             scimOrder'[o].origin = "scim" /\ scimOrder[p].origin = "scim"
               => scimOrder'[o].type # scimOrder[p].type]_scimVars
  BY JoinsOnce
<1>4. Inv /\ [ScimNext]_scimVars =>
        [\A o \in DOMAIN scimOrder :
           scimOrder[o].origin = "bundle_catalog" /\ scimOrder[o].status \in HeldStatuses
           /\ scimOrder'[o].status = "revoking" =>
             \E s \in ScimSessions : scim[s].pc = "revoke" /\ scim[s].origin = "rule_based"]_scimVars
  BY CatalogKept
<1> HIDE DEF Inv
<1> QED
  BY <1>1, <1>2, <1>3, <1>4, PTL DEF ScimSpec, ScimRight, JoinedOnce, SelfServiceIsKept

(* The mover half needs no assumption on the bundles.                       *)
THEOREM CatalogCorrect == ScimSpec => SelfServiceIsKept
<1>1. ScimInv /\ [ScimNext]_scimVars =>
        [\A o \in DOMAIN scimOrder :
           scimOrder[o].origin = "bundle_catalog" /\ scimOrder[o].status \in HeldStatuses
           /\ scimOrder'[o].status = "revoking" =>
             \E s \in ScimSessions : scim[s].pc = "revoke" /\ scim[s].origin = "rule_based"]_scimVars
  BY CatalogKept
<1> QED
  BY <1>1, ScimInvariant, PTL DEF ScimSpec, SelfServiceIsKept

-------------------------------------------------------------------------------
-----------------------------------------------------------------------------
(* The evaluation of conditions.  The functions defined by recursion exist: *)
(* depths are bounded, and conditions are finite trees.                     *)

(* The conditions that hold over those that hold a level deeper.            *)
HoldOver(context, deeper) ==
  {c \in Conditions : IF c.op = "leaf" THEN c.fact \in context ELSE EvalCompound(c, deeper)}

(* What a condition says when its clauses say what meant has.               *)
Says(contexts, meant, c) ==
  CASE c.op = "leaf" -> {x \in contexts : c.fact \in x}
    [] c.op = "not"  -> IF Len(c.clauses) = 1 THEN contexts \ meant[c.clauses[1]] ELSE {}
    [] c.op = "and"  -> {x \in contexts : \A d \in ToSet(c.clauses) : x \in meant[d]}
    [] c.op = "or"   -> {x \in contexts : \E d \in ToSet(c.clauses) : x \in meant[d]}

Over(deep, c) == IF c.clauses = <<>> THEN 0 ELSE 1 + Max({deep[d] : d \in ToSet(c.clauses)})

LEMMA ClausesAre ==
  ASSUME NEW c \in Conditions
  PROVE  /\ ToSet(c.clauses) \subseteq Conditions /\ c.clauses \in Seq(Conditions)
         /\ c.op \in {"leaf", "not", "and", "or"}
         /\ Len(c.clauses) = 1 => ToSet(c.clauses) = {c.clauses[1]}
BY RulesAssumption DEF ToSet, Compounds

LEMMA LeastCondition ==
  ASSUME NEW some \in SUBSET Conditions, some # {}
  PROVE  \E c \in some : ToSet(c.clauses) \cap some = {}
BY RulesAssumption

LEMMA HeldIs ==
  ASSUME NEW context, NEW depth \in 0..MaxDepth + 1
  PROVE  HeldAt(context)[depth] =
           IF TooDeep(depth) THEN {} ELSE HoldOver(context, HeldAt(context)[depth + 1])
<1> DEFINE C == 0..MaxDepth + 1
           V == SUBSET Conditions
           Below == [n \in C |-> {n + 1} \cap C]
           Body == [p \in C \X [C -> V] |->
                      IF TooDeep(p[1]) THEN {} ELSE HoldOver(context, p[2][p[1] + 1])]
<1>1. MaxDepth \in Nat /\ C \subseteq Nat /\ Below \in [C -> SUBSET C] /\ V # {}
  BY RulesAssumption
<1>2. \A S \in SUBSET C : S # {} => \E n \in S : Below[n] \cap S = {}
  <2> SUFFICES ASSUME NEW S \in SUBSET C, S # {} PROVE \E n \in S : Below[n] \cap S = {}
    OBVIOUS
  <2>1. PICK n \in S : \A m \in S : m <= n
    <3>1. S \in SUBSET Nat /\ MaxDepth + 1 \in Nat /\ \A m \in S : m <= MaxDepth + 1
      BY <1>1
    <3> HIDE DEF C
    <3> QED
      BY <3>1, NatGreatest
  <2>2. n + 1 \notin S
    BY <1>1, <2>1
  <2> QED
    BY <2>2
<1>3. Body \in [C \X [C -> V] -> V]
  BY DEF HoldOver
<1>4. \A n \in C : \A f, g \in [C -> V] :
        (\A d \in Below[n] : f[d] = g[d]) => Body[<<n, f>>] = Body[<<n, g>>]
  <2> TAKE n \in C
  <2> TAKE f, g \in [C -> V]
  <2> HAVE \A d \in Below[n] : f[d] = g[d]
  <2>1. ~TooDeep(n) => f[n + 1] = g[n + 1]
    BY <1>1 DEF TooDeep
  <2> QED
    BY <2>1
<1>5. \E f \in [C -> V] : \A n \in C : f[n] = Body[<<n, f>>]
  <2>1. FromBelow(C, Below) /\ AsksBelow(C, Below, V, Body)
    <3> HIDE DEF C, V, Below, Body
    <3> QED
      BY <1>1, <1>2, <1>3, <1>4 DEF FromBelow, AsksBelow
  <2> HIDE DEF C, V, Below, Body
  <2> QED
    BY <1>1, <2>1, ByRecursion
<1>6. PICK f \in [C -> V] : \A n \in C : f[n] = Body[<<n, f>>]
  BY <1>5
<1>7. f = [n \in C |-> IF TooDeep(n) THEN {}
                       ELSE LET deeper == f[n + 1]
                            IN {c \in Conditions : IF c.op = "leaf" THEN c.fact \in context
                                                   ELSE EvalCompound(c, deeper)}]
  BY <1>6 DEF HoldOver
<1>8. HeldAt(context) = [n \in C |-> IF TooDeep(n) THEN {}
                       ELSE LET deeper == HeldAt(context)[n + 1]
                            IN {c \in Conditions : IF c.op = "leaf" THEN c.fact \in context
                                                   ELSE EvalCompound(c, deeper)}]
  BY <1>7 DEF HeldAt
<1> QED
  BY <1>8 DEF HoldOver

LEMMA MeaningIs ==
  ASSUME NEW contexts, NEW c \in Conditions
  PROVE  Meaning(contexts)[c] = Says(contexts, Meaning(contexts), c)
<1> DEFINE V == SUBSET contexts
           Below == [d \in Conditions |-> ToSet(d.clauses)]
           Body == [p \in Conditions \X [Conditions -> V] |-> Says(contexts, p[2], p[1])]
<1>1. Below \in [Conditions -> SUBSET Conditions] /\ V # {}
  BY ClausesAre
<1>2. \A S \in SUBSET Conditions : S # {} => \E d \in S : Below[d] \cap S = {}
  BY LeastCondition
<1>3. Body \in [Conditions \X [Conditions -> V] -> V]
  <2> SUFFICES ASSUME NEW d \in Conditions, NEW f PROVE Says(contexts, f, d) \in V
    OBVIOUS
  <2> QED
    BY ClausesAre DEF Says
<1>4. \A d \in Conditions : \A f, g \in [Conditions -> V] :
        (\A e \in Below[d] : f[e] = g[e]) => Body[<<d, f>>] = Body[<<d, g>>]
  <2> TAKE d \in Conditions
  <2> TAKE f, g \in [Conditions -> V]
  <2> HAVE \A e \in Below[d] : f[e] = g[e]
  <2>1. \A e \in ToSet(d.clauses) : f[e] = g[e]
    OBVIOUS
  <2>2. Len(d.clauses) = 1 => f[d.clauses[1]] = g[d.clauses[1]]
    BY <2>1, ClausesAre
  <2>3. Says(contexts, f, d) = Says(contexts, g, d)
    BY <2>1, <2>2 DEF Says
  <2> QED
    BY <2>3
<1>5. \E f \in [Conditions -> V] : \A d \in Conditions : f[d] = Body[<<d, f>>]
  <2>1. FromBelow(Conditions, Below) /\ AsksBelow(Conditions, Below, V, Body)
    <3> HIDE DEF V, Below, Body
    <3> QED
      BY <1>1, <1>2, <1>3, <1>4 DEF FromBelow, AsksBelow
  <2> HIDE DEF V, Below, Body
  <2> QED
    BY <1>1, <2>1, ByRecursion
<1>6. PICK f \in [Conditions -> V] : \A d \in Conditions : f[d] = Says(contexts, f, d)
  BY <1>5
<1>7. f = [d \in Conditions |->
        CASE d.op = "leaf" -> {x \in contexts : d.fact \in x}
          [] d.op = "not"  -> IF Len(d.clauses) = 1 THEN contexts \ f[d.clauses[1]] ELSE {}
          [] d.op = "and"  -> {x \in contexts : \A e \in ToSet(d.clauses) : x \in f[e]}
          [] d.op = "or"   -> {x \in contexts : \E e \in ToSet(d.clauses) : x \in f[e]}]
  BY <1>6 DEF Says
<1> DEFINE m == Meaning(contexts)
<1>8. m = [d \in Conditions |->
        CASE d.op = "leaf" -> {x \in contexts : d.fact \in x}
          [] d.op = "not"  -> IF Len(d.clauses) = 1 THEN contexts \ m[d.clauses[1]] ELSE {}
          [] d.op = "and"  -> {x \in contexts : \A e \in ToSet(d.clauses) : x \in m[e]}
          [] d.op = "or"   -> {x \in contexts : \E e \in ToSet(d.clauses) : x \in m[e]}]
  BY <1>7 DEF Meaning
<1> QED
  <2> HIDE DEF m
  <2>1. m[c] = Says(contexts, m, c)
    BY <1>8 DEF Says
  <2> QED
    BY <2>1 DEF m

(* The greatest of as many numbers as a sequence has places.                *)
LEMMA MaxOfClauses ==
  ASSUME NEW c \in Conditions, c.clauses # <<>>, NEW f \in [Conditions -> Nat]
  PROVE  LET of == {f[d] : d \in ToSet(c.clauses)}
         IN  Max(of) \in Nat /\ \A d \in ToSet(c.clauses) : f[d] <= Max(of)
<1> DEFINE of == {f[d] : d \in ToSet(c.clauses)}
           n == Len(c.clauses)
           Bounded == {k \in Nat : k <= n =>
                         \E b \in Nat : \A i \in 1..k : f[c.clauses[i]] <= b}
<1>1. n \in Nat /\ \A i \in 1..n : f[c.clauses[i]] \in Nat /\ c.clauses[i] \in ToSet(c.clauses)
  BY ClausesAre DEF ToSet
<1>2. 0 \in Bounded
  OBVIOUS
<1>3. ASSUME NEW k \in Nat, k \in Bounded PROVE k + 1 \in Bounded
  <2> SUFFICES ASSUME k + 1 <= n
               PROVE  \E b \in Nat : \A i \in 1..(k + 1) : f[c.clauses[i]] <= b
    OBVIOUS
  <2>1. PICK b \in Nat : \A i \in 1..k : f[c.clauses[i]] <= b
    BY <1>1, <1>3
  <2>2. f[c.clauses[k + 1]] \in Nat
    BY <1>1
  <2> DEFINE top == IF f[c.clauses[k + 1]] <= b THEN b ELSE f[c.clauses[k + 1]]
  <2>3. top \in Nat /\ b <= top /\ f[c.clauses[k + 1]] <= top
    BY <2>2
  <2>4. \A i \in 1..(k + 1) : f[c.clauses[i]] <= top
    <3> TAKE i \in 1..(k + 1)
    <3>1. f[c.clauses[i]] \in Nat
      BY <1>1
    <3> HIDE DEF top
    <3>2. CASE i = k + 1
      BY <2>3, <3>2
    <3>3. CASE i # k + 1
      <4>1. f[c.clauses[i]] <= b
        BY <2>1, <3>3
      <4> QED
        BY <2>3, <3>1, <4>1
    <3> QED
      BY <3>2, <3>3
  <2> HIDE DEF top
  <2> QED
    BY <2>3, <2>4
<1>4. n \in Bounded
  <2> HIDE DEF Bounded
  <2>1. Nat \subseteq Bounded
    BY <1>2, <1>3, NatAll
  <2> QED
    BY <1>1, <2>1
<1>5. PICK b \in Nat : \A i \in 1..n : f[c.clauses[i]] <= b
  <2>1. n <= n
    BY <1>1
  <2> HIDE DEF n
  <2> QED
    BY <1>4, <2>1
<1>6. of \in SUBSET Nat /\ \A m \in of : m <= b
  <2>1. ToSet(c.clauses) = {c.clauses[i] : i \in 1..n}
    BY ClausesAre DEF ToSet
  <2>2. ToSet(c.clauses) \subseteq Conditions
    BY ClausesAre
  <2> QED
    BY <1>5, <2>1, <2>2
<1>7. of # {}
  <2>1. n # 0
    BY ClausesAre
  <2>2. c.clauses[1] \in ToSet(c.clauses)
    BY <1>1, <2>1
  <2> QED
    BY <2>2
<1>8. PICK m \in of : \A k \in of : k <= m
  <2> HIDE DEF of
  <2> QED
    BY <1>6, <1>7, NatGreatest
<1>9. m \in of /\ \A k \in of : m >= k
  <2> HIDE DEF of
  <2> QED
    BY <1>6, <1>8
<1>10. Max(of) \in of /\ \A k \in of : Max(of) >= k
  <2> HIDE DEF of
  <2> QED
    BY <1>9 DEF Max
<1>11. Max(of) \in Nat /\ \A k \in of : k <= Max(of)
  <2> HIDE DEF of
  <2> QED
    BY <1>6, <1>10
<1> QED
  BY <1>11

LEMMA DepthIs ==
  /\ Depth \in [Conditions -> Nat]
  /\ \A c \in Conditions : Depth[c] = Over(Depth, c)
<1> DEFINE Below == [d \in Conditions |-> ToSet(d.clauses)]
           Body == [p \in Conditions \X [Conditions -> Nat] |-> Over(p[2], p[1])]
<1>1. Below \in [Conditions -> SUBSET Conditions] /\ Nat # {}
  BY ClausesAre
<1>2. \A S \in SUBSET Conditions : S # {} => \E d \in S : Below[d] \cap S = {}
  BY LeastCondition
<1>3. Body \in [Conditions \X [Conditions -> Nat] -> Nat]
  <2> SUFFICES ASSUME NEW d \in Conditions, NEW f \in [Conditions -> Nat]
               PROVE  Over(f, d) \in Nat
    OBVIOUS
  <2>1. CASE d.clauses = <<>>
    BY <2>1 DEF Over
  <2>2. CASE d.clauses # <<>>
    <3>1. Max({f[e] : e \in ToSet(d.clauses)}) \in Nat
      BY <2>2, MaxOfClauses
    <3> QED
      BY <2>2, <3>1 DEF Over
  <2> QED
    BY <2>1, <2>2
<1>4. \A d \in Conditions : \A f, g \in [Conditions -> Nat] :
        (\A e \in Below[d] : f[e] = g[e]) => Body[<<d, f>>] = Body[<<d, g>>]
  <2> TAKE d \in Conditions
  <2> TAKE f, g \in [Conditions -> Nat]
  <2> HAVE \A e \in Below[d] : f[e] = g[e]
  <2>1. {f[e] : e \in ToSet(d.clauses)} = {g[e] : e \in ToSet(d.clauses)}
    OBVIOUS
  <2>2. Over(f, d) = Over(g, d)
    BY <2>1 DEF Over
  <2> QED
    BY <2>2
<1>5. \E f \in [Conditions -> Nat] : \A d \in Conditions : f[d] = Body[<<d, f>>]
  <2>1. FromBelow(Conditions, Below) /\ AsksBelow(Conditions, Below, Nat, Body)
    <3> HIDE DEF Below, Body
    <3> QED
      BY <1>1, <1>2, <1>3, <1>4 DEF FromBelow, AsksBelow
  <2> HIDE DEF Below, Body
  <2> QED
    BY <1>1, <2>1, ByRecursion
<1>6. PICK f \in [Conditions -> Nat] : \A d \in Conditions : f[d] = Over(f, d)
  BY <1>5
<1>7. f = [d \in Conditions |-> IF d.clauses = <<>> THEN 0
                                ELSE 1 + Max({f[e] : e \in ToSet(d.clauses)})]
  BY <1>6 DEF Over
<1>8. Depth = [d \in Conditions |-> IF d.clauses = <<>> THEN 0
                                ELSE 1 + Max({Depth[e] : e \in ToSet(d.clauses)})]
  BY <1>7, Zenon DEF Depth
<1>9. \A d \in Conditions : Depth[d] = Over(Depth, d)
  BY <1>8 DEF Over
<1>10. \A d \in Conditions : Depth[d] \in Nat
  <2> DEFINE Bad == {d \in Conditions : Depth[d] \notin Nat}
  <2> SUFFICES ASSUME Bad # {} PROVE FALSE
    OBVIOUS
  <2>1. PICK d \in Bad : ToSet(d.clauses) \cap Bad = {}
    <3>1. Bad \in SUBSET Conditions
      OBVIOUS
    <3> HIDE DEF Bad
    <3> QED
      BY <3>1, LeastCondition
  <2>2. d \in Conditions /\ d.clauses # <<>> /\ Depth[d] \notin Nat
    <3>1. d \in Conditions /\ Depth[d] \notin Nat
      BY <2>1
    <3>2. Depth[d] = Over(Depth, d)
      BY <1>9, <3>1
    <3>3. d.clauses = <<>> => Depth[d] = 0
      BY <3>2, Zenon DEF Over
    <3> QED
      BY <3>1, <3>3
  <2> DEFINE g == [e \in Conditions |-> IF Depth[e] \in Nat THEN Depth[e] ELSE 0]
  <2>3. \A e \in ToSet(d.clauses) : e \in Conditions /\ Depth[e] \in Nat /\ g[e] = Depth[e]
    BY <2>1, <2>2, ClausesAre
  <2>4. g \in [Conditions -> Nat]
    OBVIOUS
  <2>5. {g[e] : e \in ToSet(d.clauses)} = {Depth[e] : e \in ToSet(d.clauses)}
    <3> HIDE DEF g
    <3> QED
      BY <2>3
  <2>6. Max({g[e] : e \in ToSet(d.clauses)}) \in Nat
    <3> HIDE DEF g
    <3> QED
      BY <2>2, <2>4, MaxOfClauses
  <2>7. Max({Depth[e] : e \in ToSet(d.clauses)}) \in Nat
    BY <2>5, <2>6
  <2>8. Depth[d] = 1 + Max({Depth[e] : e \in ToSet(d.clauses)})
    <3>1. Depth[d] = Over(Depth, d)
      BY <1>9, <2>2
    <3> QED
      BY <2>2, <3>1, Zenon DEF Over
  <2> HIDE DEF Bad
  <2> QED
    BY <2>2, <2>7, <2>8
<1> QED
  BY <1>8, <1>9, <1>10

LEMMA ClauseIsLess ==
  ASSUME NEW c \in Conditions, NEW d \in ToSet(c.clauses)
  PROVE  d \in Conditions /\ Depth[d] \in Nat /\ Depth[c] \in Nat /\ Depth[d] + 1 <= Depth[c]
<1>1. d \in Conditions /\ c.clauses # <<>>
  BY ClausesAre DEF ToSet
<1>2. Depth[d] \in Nat /\ Depth[c] \in Nat /\ Depth[c] = Over(Depth, c)
  BY <1>1, DepthIs
<1>3. /\ Max({Depth[e] : e \in ToSet(c.clauses)}) \in Nat
      /\ Depth[d] <= Max({Depth[e] : e \in ToSet(c.clauses)})
  BY <1>1, DepthIs, MaxOfClauses
<1> QED
  BY <1>1, <1>2, <1>3 DEF Over

(* A condition that is not nested too deep for where it stands holds in the *)
(* contexts it describes.                                                   *)
LEMMA EvaluatesRight ==
  ASSUME NEW context \in Contexts
  PROVE  \A c \in Conditions : \A depth \in 0..MaxDepth :
           depth + Depth[c] <= MaxDepth =>
             (c \in HeldAt(context)[depth] <=> context \in Meaning(Contexts)[c])
<1> DEFINE Right(c) == \A depth \in 0..MaxDepth :
             depth + Depth[c] <= MaxDepth =>
               (c \in HeldAt(context)[depth] <=> context \in Meaning(Contexts)[c])
           Wrong == {c \in Conditions : ~Right(c)}
<1> SUFFICES ASSUME Wrong # {} PROVE FALSE
  OBVIOUS
<1>1. PICK c \in Wrong : ToSet(c.clauses) \cap Wrong = {}
  <2>1. Wrong \in SUBSET Conditions
    OBVIOUS
  <2> HIDE DEF Wrong
  <2> QED
    BY <2>1, LeastCondition
<1>2. c \in Conditions /\ ~Right(c)
  BY <1>1
<1>3. PICK depth \in 0..MaxDepth :
        /\ depth + Depth[c] <= MaxDepth
        /\ ~ (c \in HeldAt(context)[depth] <=> context \in Meaning(Contexts)[c])
  BY <1>2
<1> DEFINE deeper == HeldAt(context)[depth + 1]
           meant == Meaning(Contexts)
<1>4. MaxDepth \in Nat /\ Depth[c] \in Nat
  BY <1>2, DepthIs, RulesAssumption
<1>5. \A d \in ToSet(c.clauses) : d \in deeper <=> context \in meant[d]
  <2> TAKE d \in ToSet(c.clauses)
  <2>1. d \in Conditions /\ Depth[d] \in Nat /\ Depth[d] + 1 <= Depth[c]
    BY <1>2, ClauseIsLess
  <2>2. Right(d)
    BY <1>1, <2>1
  <2>3. depth + 1 \in 0..MaxDepth /\ (depth + 1) + Depth[d] <= MaxDepth
    BY <1>3, <1>4, <2>1
  <2> QED
    BY <2>2, <2>3
<1>6. c \in HeldAt(context)[depth] <=> c \in HoldOver(context, deeper)
  <2>1. depth \in 0..MaxDepth + 1 /\ ~TooDeep(depth)
    BY <1>4 DEF TooDeep
  <2> QED
    BY <2>1, HeldIs
<1>7. context \in meant[c] <=> context \in Says(Contexts, meant, c)
  BY <1>2, MeaningIs
<1>8. c \in HoldOver(context, deeper) <=> context \in Says(Contexts, meant, c)
  <2> HIDE DEF deeper, meant
  <2>1. c.op \in {"leaf", "not", "and", "or"}
    BY <1>2, ClausesAre
  <2>2. CASE c.op = "leaf"
    BY <1>2, <2>2 DEF HoldOver, Says
  <2>3. CASE c.op = "not"
    <3>1. Len(c.clauses) = 1 => c.clauses[1] \in ToSet(c.clauses)
      BY <1>2, ClausesAre
    <3>2. c \in HoldOver(context, deeper) <=> Len(c.clauses) = 1 /\ c.clauses[1] \notin deeper
      BY <1>2, <2>3 DEF HoldOver, EvalCompound, Negated
    <3>3. Says(Contexts, meant, c) =
            IF Len(c.clauses) = 1 THEN Contexts \ meant[c.clauses[1]] ELSE {}
      BY <2>3 DEF Says
    <3> QED
      BY <1>5, <3>1, <3>2, <3>3
  <2>4. CASE c.op = "and"
    <3>1. c \in HoldOver(context, deeper) <=> ToSet(c.clauses) \subseteq deeper
      BY <1>2, <2>4 DEF HoldOver, EvalCompound
    <3>2. Says(Contexts, meant, c) =
            {x \in Contexts : \A d \in ToSet(c.clauses) : x \in meant[d]}
      BY <2>4 DEF Says
    <3> QED
      BY <1>5, <3>1, <3>2
  <2>5. CASE c.op = "or"
    <3>1. c \in HoldOver(context, deeper) <=> ToSet(c.clauses) \cap deeper # {}
      BY <1>2, <2>5 DEF HoldOver, EvalCompound
    <3>2. Says(Contexts, meant, c) =
            {x \in Contexts : \E d \in ToSet(c.clauses) : x \in meant[d]}
      BY <2>5 DEF Says
    <3> QED
      BY <1>5, <3>1, <3>2
  <2> QED
    BY <2>1, <2>2, <2>3, <2>4, <2>5
<1> QED
  BY <1>3, <1>6, <1>7, <1>8

-----------------------------------------------------------------------------
(* Who is asked.                                                            *)
OwnersCalled == IF assetType.owner THEN ToSet(assetType.owners) ELSE {}

LEMMA TypesAre ==
  ASSUME assetType \in RoutingTypes
  PROVE  /\ ToSet(assetType.owners) \subseteq People
         /\ \A i \in DOMAIN assetType.rules :
              /\ assetType.rules[i].condition \in Conditions
              /\ ToSet(assetType.rules[i].approvers) \subseteq People
         /\ assetType.manager \in BOOLEAN /\ assetType.owner \in BOOLEAN
         /\ assetType.owners \in Seq(People)
<1>1. /\ assetType.owners \in Seq(People)
      /\ assetType.rules \in Seq([condition : Conditions, approvers : Seq(People)])
      /\ assetType.manager \in BOOLEAN /\ assetType.owner \in BOOLEAN
  BY RoutingAssumption
<1>2. ToSet(assetType.owners) \subseteq People
  BY <1>1 DEF ToSet
<1>3. ASSUME NEW i \in DOMAIN assetType.rules
      PROVE  /\ assetType.rules[i].condition \in Conditions
             /\ ToSet(assetType.rules[i].approvers) \subseteq People
  <2>1. assetType.rules[i] \in [condition : Conditions, approvers : Seq(People)]
    <3> DEFINE rules == assetType.rules
               R == [condition : Conditions, approvers : Seq(People)]
    <3>1. rules \in Seq(R) /\ i \in DOMAIN rules
      BY <1>1
    <3>2. rules[i] \in R
      <4> HIDE DEF rules, R
      <4> QED
        BY <3>1
    <3> QED
      BY <3>2
  <2>2. assetType.rules[i].condition \in Conditions /\ assetType.rules[i].approvers \in Seq(People)
    BY <2>1
  <2> QED
    BY <2>2 DEF ToSet
<1> QED
  BY <1>1, <1>2, <1>3

LEMMA NamedOnce ==
  ASSUME NEW rules, NEW context
  PROVE  /\ \A a, b \in RuleApprovers(rules, context) : a.person = b.person => a = b
         /\ \A i \in Matching(rules, context) : \A p \in ToSet(rules[i].approvers) :
              \E a \in RuleApprovers(rules, context) : a.person = p
         /\ \A a \in RuleApprovers(rules, context) :
              \E i \in DOMAIN rules : a.person \in ToSet(rules[i].approvers)
<1>1. \A a, b \in RuleApprovers(rules, context) : a.person = b.person => a = b
  BY DEF RuleApprovers
<1>2. ASSUME NEW i \in Matching(rules, context), NEW p \in ToSet(rules[i].approvers)
      PROVE  \E a \in RuleApprovers(rules, context) : a.person = p
  <2>1. i \in DOMAIN rules /\ p \in NamedIn(rules)
    BY DEF Matching, NamedIn
  <2>2. i \in NamedBy(rules, context, p)
    BY DEF NamedBy
  <2> DEFINE a == [person |-> p, rule |-> Min(NamedBy(rules, context, p))]
  <2>3. a \in RuleApprovers(rules, context)
    BY <2>1, <2>2 DEF RuleApprovers
  <2> QED
    BY <2>3
<1>3. ASSUME NEW a \in RuleApprovers(rules, context)
      PROVE  \E i \in DOMAIN rules : a.person \in ToSet(rules[i].approvers)
  BY DEF RuleApprovers, NamedIn
<1> QED
  BY <1>1, <1>2, <1>3

(* Who qualifies is asked.                                                  *)
LEMMA QualifiedAreAsked ==
  /\ assetType.manager => \E a \in Asked : a.asked = Manager
  /\ assetType.owner => \A p \in ToSet(assetType.owners) : \E a \in Asked : a.asked = p
  /\ \A r \in RuleApprovers(assetType.rules, facts) : \E a \in Asked : a.asked = r.person
  /\ \A p \in ClassApprovers(assetType.classes, assetType.owners, policy, Officer) :
       \E a \in Asked : a.asked = p
<1>1. assetType.manager => \E a \in Asked : a.asked = Manager
  <2> DEFINE a == [kind |-> "manager", n |-> 1, asked |-> Manager]
  <2>1. assetType.manager => a \in Asked
    BY DEF Asked, ManagerAsked
  <2> QED
    BY <2>1
<1>2. ASSUME assetType.owner, NEW p \in ToSet(assetType.owners)
      PROVE  \E a \in Asked : a.asked = p
  <2>1. PICK i \in DOMAIN assetType.owners : p = assetType.owners[i]
    BY DEF ToSet
  <2>2. [kind |-> "application_owner", n |-> i, asked |-> assetType.owners[i]] \in OwnersAsked
    BY <1>2 DEF OwnersAsked
  <2> QED
    BY <2>1, <2>2 DEF Asked
<1>3. \A p \in Seen : \E a \in Asked : a.asked = p
  BY DEF Seen, Asked
<1>4. ASSUME NEW r \in RuleApprovers(assetType.rules, facts)
      PROVE  \E a \in Asked : a.asked = r.person
  <2>1. CASE r.person \in Seen
    BY <1>3, <2>1
  <2>2. CASE r.person \notin Seen
    <3>1. [kind |-> "rule", n |-> r.rule, asked |-> r.person] \in RulesAsked
      BY <2>2 DEF RulesAsked
    <3> QED
      BY <3>1 DEF Asked
  <2> QED
    BY <2>1, <2>2
<1>5. ASSUME NEW p \in ClassApprovers(assetType.classes, assetType.owners, policy, Officer)
      PROVE  \E a \in Asked : a.asked = p
  <2>1. CASE p \in Seen
    BY <1>3, <2>1
  <2>2. CASE p \in {r.asked : r \in RulesAsked}
    BY <2>2 DEF Asked
  <2>3. CASE p \notin Seen \cup {r.asked : r \in RulesAsked}
    <3>1. [kind |-> ClassPolicy(assetType.classes, policy), n |-> 1, asked |-> p] \in ClassAsked
      BY <2>3 DEF ClassAsked
    <3> QED
      BY <3>1 DEF Asked
  <2> QED
    BY <2>1, <2>2, <2>3
<1> QED
  BY <1>1, <1>2, <1>4, <1>5

(* Who is called for is asked; who is asked makes an approval necessary.    *)
LEMMA CalledAreAsked ==
  ASSUME assetType \in RoutingTypes, facts \in Contexts
  PROVE  \A p \in CalledFor : \E a \in Asked : a.asked = p
<1> SUFFICES ASSUME NEW p \in CalledFor PROVE \E a \in Asked : a.asked = p
  OBVIOUS
<1> DEFINE Meant == {j \in DOMAIN assetType.rules :
                       /\ Depth[assetType.rules[j].condition] <= MaxDepth
                       /\ facts \in Meaning(Contexts)[assetType.rules[j].condition]}
<1>1. \/ assetType.manager /\ p = Manager
      \/ assetType.owner /\ p \in ToSet(assetType.owners)
      \/ \E i \in Meant : p \in ToSet(assetType.rules[i].approvers)
      \/ p \in ClassApprovers(assetType.classes, assetType.owners, policy, Officer)
  <2> DEFINE A == IF assetType.manager THEN {Manager} ELSE {}
             B == IF assetType.owner THEN ToSet(assetType.owners) ELSE {}
             R == UNION {ToSet(assetType.rules[i].approvers) : i \in Meant}
             C == ClassApprovers(assetType.classes, assetType.owners, policy, Officer)
  <2>1. CalledFor = A \cup B \cup R \cup C
    BY DEF CalledFor
  <2>2. p \in R => \E i \in Meant : p \in ToSet(assetType.rules[i].approvers)
    <3> HIDE DEF Meant
    <3> QED
      BY Zenon
  <2>3. p \in A => assetType.manager /\ p = Manager
    OBVIOUS
  <2>4. p \in B => assetType.owner /\ p \in ToSet(assetType.owners)
    OBVIOUS
  <2>5. p \in A \/ p \in B \/ p \in R \/ p \in C
    <3> HIDE DEF A, B, R, C
    <3> QED
      BY <2>1
  <2> HIDE DEF R
  <2> QED
    BY <2>2, <2>3, <2>4, <2>5
<1>2. ASSUME NEW i \in Meant, p \in ToSet(assetType.rules[i].approvers)
      PROVE  \E a \in Asked : a.asked = p
  <2> DEFINE c == assetType.rules[i].condition
  <2>1. c \in Conditions /\ i \in DOMAIN assetType.rules
    BY TypesAre
  <2>2. Depth[c] \in Nat /\ MaxDepth \in Nat
    BY <2>1, DepthIs, RulesAssumption
  <2>3. 0 \in 0..MaxDepth /\ 0 + Depth[c] <= MaxDepth
    BY <2>2
  <2>4. c \in HeldAt(facts)[0]
    <3> HIDE DEF c
    <3>1. facts \in Meaning(Contexts)[c]
      BY DEF c
    <3> QED
      BY <2>1, <2>3, <3>1, EvaluatesRight
  <2>5. i \in Matching(assetType.rules, facts)
    BY <2>1, <2>4 DEF Matching, EvalCondition
  <2>6. PICK r \in RuleApprovers(assetType.rules, facts) : r.person = p
    BY <1>2, <2>5, NamedOnce
  <2> QED
    BY <2>6, QualifiedAreAsked
<1> HIDE DEF Meant
<1> QED
  BY <1>1, <1>2, QualifiedAreAsked

LEMMA AskedAreNeeded == Asked # {} => NeedsApproval
<1>1. ManagerAsked # {} => assetType.manager
  BY DEF ManagerAsked
<1>2. OwnersAsked # {} => assetType.owner
  BY DEF OwnersAsked
<1>3. RulesAsked # {} => RuleApprovers(assetType.rules, facts) # {}
  BY DEF RulesAsked
<1>4. ClassAsked # {} =>
        ClassApprovers(assetType.classes, assetType.owners, policy, Officer) # {}
  BY DEF ClassAsked
<1> QED
  BY <1>1, <1>2, <1>3, <1>4 DEF Asked, NeedsApproval

LEMMA NeededAreAsked ==
  ASSUME assetType \in RoutingTypes, NeedsApproval, Asked = {}
  PROVE  assetType.owner /\ assetType.owners = <<>>
<1>1. assetType.owner
  BY QualifiedAreAsked DEF NeedsApproval
<1>2. assetType.owners # <<>> => assetType.owners[1] \in ToSet(assetType.owners)
  BY TypesAre DEF ToSet
<1> QED
  BY <1>1, <1>2, QualifiedAreAsked

LEMMA AskedAre ==
  ASSUME assetType \in RoutingTypes
  PROVE  /\ \A a \in Asked : /\ a = [kind |-> a.kind, n |-> a.n, asked |-> a.asked]
                             /\ a.asked \in People
         /\ \A a, b \in Asked : a.asked = b.asked /\ a.asked \notin OwnersCalled => a = b
<1>1. \A a \in ManagerAsked : a = [kind |-> "manager", n |-> 1, asked |-> Manager]
  BY DEF ManagerAsked
<1>2. \A a \in OwnersAsked : /\ a = [kind |-> a.kind, n |-> a.n, asked |-> a.asked]
                             /\ a.asked \in OwnersCalled /\ a.asked \in People
  <2> TAKE a \in OwnersAsked
  <2>1. PICK i \in DOMAIN assetType.owners :
          assetType.owner
          /\ a = [kind |-> "application_owner", n |-> i, asked |-> assetType.owners[i]]
    BY DEF OwnersAsked
  <2>2. a.asked \in ToSet(assetType.owners)
    BY <2>1 DEF ToSet
  <2> QED
    BY <2>1, <2>2, TypesAre DEF OwnersCalled
<1>3. \A a \in RulesAsked :
        /\ a = [kind |-> a.kind, n |-> a.n, asked |-> a.asked]
        /\ a.asked \notin Seen /\ a.asked \in People
  <2> TAKE a \in RulesAsked
  <2>1. PICK r \in RuleApprovers(assetType.rules, facts) :
          r.person \notin Seen /\ a = [kind |-> "rule", n |-> r.rule, asked |-> r.person]
    BY DEF RulesAsked
  <2>2. r.person \in People
    BY NamedOnce, TypesAre
  <2> QED
    BY <2>1, <2>2
<1>4. \A a, b \in RulesAsked : a.asked = b.asked => a = b
  <2> TAKE a, b \in RulesAsked
  <2>1. PICK r \in RuleApprovers(assetType.rules, facts) :
          a = [kind |-> "rule", n |-> r.rule, asked |-> r.person]
    BY DEF RulesAsked
  <2>2. PICK s \in RuleApprovers(assetType.rules, facts) :
          b = [kind |-> "rule", n |-> s.rule, asked |-> s.person]
    BY DEF RulesAsked
  <2>3. r.person = s.person => r = s
    BY NamedOnce
  <2> QED
    BY <2>1, <2>2, <2>3
<1>5. \A a \in ClassAsked :
        /\ a = [kind |-> ClassPolicy(assetType.classes, policy), n |-> 1, asked |-> a.asked]
        /\ a.asked \notin Seen /\ \A r \in RulesAsked : a.asked # r.asked
        /\ a.asked \in People
  <2> TAKE a \in ClassAsked
  <2>1. PICK p \in ClassApprovers(assetType.classes, assetType.owners, policy, Officer) :
          /\ p \notin Seen /\ \A r \in RulesAsked : p # r.asked
          /\ a = [kind |-> ClassPolicy(assetType.classes, policy), n |-> 1, asked |-> p]
    BY DEF ClassAsked
  <2>2. p \in People
    BY TypesAre, RoutingAssumption DEF ClassApprovers
  <2> QED
    BY <2>1, <2>2
<1>6. \A a \in ManagerAsked \cup OwnersAsked : a.asked \in Seen
  BY DEF Seen
<1>7. \A a \in Asked : /\ a = [kind |-> a.kind, n |-> a.n, asked |-> a.asked]
                       /\ a.asked \in People
  <2>1. \A a \in ManagerAsked : /\ a = [kind |-> a.kind, n |-> a.n, asked |-> a.asked]
                                /\ a.asked \in People
    BY <1>1, RoutingAssumption
  <2>2. \A a \in ClassAsked : a = [kind |-> a.kind, n |-> a.n, asked |-> a.asked]
    BY <1>5
  <2> QED
    BY <2>1, <2>2, <1>2, <1>3, <1>5 DEF Asked
<1>8. ASSUME NEW a \in Asked, NEW b \in Asked, a.asked = b.asked, a.asked \notin OwnersCalled
      PROVE  a = b
  <2>1. a \notin OwnersAsked /\ b \notin OwnersAsked
    BY <1>2, <1>8
  <2>2. ASSUME a \in ManagerAsked PROVE a = b
    BY <1>1, <1>3, <1>5, <1>6, <1>8, <2>1, <2>2 DEF Asked
  <2>3. ASSUME a \in RulesAsked PROVE a = b
    BY <1>3, <1>4, <1>5, <1>6, <1>8, <2>1, <2>3 DEF Asked
  <2>4. ASSUME a \in ClassAsked PROVE a = b
    <3>1. b \in ClassAsked
      BY <1>5, <1>6, <1>8, <2>1, <2>4 DEF Asked
    <3> QED
      BY <1>5, <1>8, <2>4, <3>1
  <2> QED
    BY <2>1, <2>2, <2>3, <2>4 DEF Asked
<1> QED
  BY <1>7, <1>8

-----------------------------------------------------------------------------
(* The rows are those of who was asked, each once.                          *)
RowsOfAsked ==
  /\ \A r \in rows : \E a \in Asked : \E person \in People : \E st \in RowStatus :
       r = Row(a, person, st)
  /\ \A r, s \in rows : r.kind = s.kind /\ r.n = s.n /\ r.asked = s.asked => r = s
  /\ placed # "no" => \A a \in Asked : \E r \in rows : r.asked = a.asked

RoutingTyped ==
  /\ assetType \in RoutingTypes /\ facts \in Contexts
  /\ placed \in {"no", "flushed", "pending_approval", "processing", "rejected"}
  /\ delegations \subseteq Delegation
  /\ day \in Days /\ placedOn \in 0..day
  /\ sendTasks \in 0..1 /\ (placed = "no" => rows = {} /\ sendTasks = 0)

(* An order goes on when it needs no approval or has them all.              *)
GoesOnRight ==
  /\ placed \in {"flushed", "pending_approval"} =>
       \A r \in rows : r.status \in {"pending", "approved"}
  /\ placed = "pending_approval" => NeedsApproval /\ ~AllGranted(rows)
  /\ placed = "processing" => ~NeedsApproval \/ AllGranted(rows)

RoutingInv == RoutingTyped /\ RowsOfAsked /\ GoesOnRight /\ DelegateInForce

LEMMA RoutingInvGivesType == RoutingInv => RoutingTypeOK
<1> SUFFICES ASSUME RoutingInv PROVE RoutingTypeOK
  OBVIOUS
<1>1. \A r \in rows : {r.asked, r.person} \subseteq People /\ r.status \in RowStatus
  <2> TAKE r \in rows
  <2>1. PICK a \in Asked, person \in People, st \in RowStatus : r = Row(a, person, st)
    BY DEF RoutingInv, RowsOfAsked
  <2>2. r.asked = a.asked /\ r.person = person /\ r.status = st
    BY <2>1 DEF Row
  <2>3. a.asked \in People
    BY AskedAre DEF RoutingInv, RoutingTyped
  <2> QED
    BY <2>2, <2>3
<1> QED
  BY <1>1 DEF RoutingInv, RoutingTyped, RoutingTypeOK

LEMMA RoutingInvGivesRight == RoutingInv => RoutingRight
<1> SUFFICES ASSUME RoutingInv PROVE RoutingRight
  OBVIOUS
<1>0. assetType \in RoutingTypes /\ facts \in Contexts
  BY DEF RoutingInv, RoutingTyped
<1>1. RulesMeanWhatTheySay
  <2> SUFFICES ASSUME NEW i \in DOMAIN assetType.rules
               PROVE  LET c == assetType.rules[i].condition IN
                      Depth[c] <= MaxDepth =>
                        (EvalCondition(c, facts, 0) <=> facts \in Meaning(Contexts)[c])
    BY DEF RulesMeanWhatTheySay
  <2> DEFINE c == assetType.rules[i].condition
  <2>1. c \in Conditions
    BY <1>0, TypesAre
  <2> HIDE DEF c
  <2>2. Depth[c] \in Nat /\ MaxDepth \in Nat
    BY <2>1, DepthIs, RulesAssumption
  <2>3. ASSUME Depth[c] <= MaxDepth
        PROVE  c \in HeldAt(facts)[0] <=> facts \in Meaning(Contexts)[c]
    <3>1. 0 \in 0..MaxDepth /\ 0 + Depth[c] <= MaxDepth
      BY <2>2, <2>3
    <3> QED
      BY <1>0, <2>1, <3>1, EvaluatesRight
  <2> QED
    BY <2>3 DEF c, EvalCondition
<1>2. EveryMechanismApproved
  <2> SUFFICES ASSUME placed = "processing", NEW p \in CalledFor
               PROVE  \E r \in rows : r.asked = p /\ r.status = "approved"
    BY DEF EveryMechanismApproved
  <2>1. PICK a \in Asked : a.asked = p
    BY <1>0, CalledAreAsked
  <2>2. AllGranted(rows)
    BY <2>1, AskedAreNeeded DEF RoutingInv, GoesOnRight
  <2>3. PICK r \in rows : r.asked = p
    BY <2>1 DEF RoutingInv, RowsOfAsked
  <2> QED
    BY <2>2, <2>3 DEF AllGranted
<1>3. DelegateInForce
  BY DEF RoutingInv
<1>4. PendingHasApprover
  <2> SUFFICES ASSUME placed = "pending_approval", ~(assetType.owner /\ assetType.owners = <<>>)
               PROVE  \E r \in rows : r.status = "pending"
    BY DEF PendingHasApprover
  <2>1. NeedsApproval /\ ~AllGranted(rows) /\ \A r \in rows : r.status \in {"pending", "approved"}
    BY DEF RoutingInv, GoesOnRight
  <2>2. PICK a : a \in Asked
    BY <1>0, <2>1, NeededAreAsked
  <2>3. rows # {}
    BY <2>2 DEF RoutingInv, RowsOfAsked
  <2> QED
    BY <2>1, <2>3 DEF AllGranted
<1>5. OneRequestPerPerson
  <2> SUFFICES ASSUME NEW p \in People, p \notin OwnersCalled
               PROVE  Cardinality({r \in rows : r.asked = p}) <= 1
    BY DEF OneRequestPerPerson, OwnersCalled
  <2> DEFINE one == {r \in rows : r.asked = p}
  <2>1. \A r, s \in one : r = s
    <3> TAKE r, s \in one
    <3>1. PICK a \in Asked, person \in People, st \in RowStatus : r = Row(a, person, st)
      BY DEF RoutingInv, RowsOfAsked
    <3>2. PICK b \in Asked, other \in People, st2 \in RowStatus : s = Row(b, other, st2)
      BY DEF RoutingInv, RowsOfAsked
    <3>3. r.asked = a.asked /\ r.kind = a.kind /\ r.n = a.n
      BY <3>1 DEF Row
    <3>4. s.asked = b.asked /\ s.kind = b.kind /\ s.n = b.n
      BY <3>2 DEF Row
    <3>5. a = b
      BY <1>0, <3>3, <3>4, AskedAre
    <3> QED
      BY <3>3, <3>4, <3>5 DEF RoutingInv, RowsOfAsked
  <2>2. one = {} \/ \E r : one = {r}
    BY <2>1
  <2> HIDE DEF one
  <2>3. Cardinality(one) <= 1
    <3>1. CASE one = {}
      BY <3>1, FS_EmptySet
    <3>2. CASE \E r : one = {r}
      <4>1. PICK r : one = {r}
        BY <3>2
      <4>2. Cardinality({r}) = 1
        BY FS_Singleton
      <4> QED
        BY <4>1, <4>2
    <3> QED
      BY <2>2, <3>1, <3>2
  <2> QED
    BY <2>3 DEF one
<1> QED
  BY <1>1, <1>2, <1>3, <1>4, <1>5 DEF RoutingRight

-----------------------------------------------------------------------------
LEMMA RoutingInitInv == RoutingInit => RoutingInv
<1> SUFFICES ASSUME RoutingInit PROVE RoutingInv
  OBVIOUS
<1>1. RoutingTyped
  BY RoutingAssumption DEF RoutingInit, RoutingTyped, Days
<1> QED
  BY <1>1 DEF RoutingInit, RoutingInv, RowsOfAsked, GoesOnRight, DelegateInForce

(* Who is asked depends on what does not change.                            *)
LEMMA AskedStays ==
  ASSUME UNCHANGED <<assetType, policy, facts>>
  PROVE  Asked' = Asked /\ (NeedsApproval' <=> NeedsApproval)
<1>1. ManagerAsked' = ManagerAsked
  BY DEF ManagerAsked
<1>2. OwnersAsked' = OwnersAsked
  BY DEF OwnersAsked
<1>3. Seen' = Seen
  BY <1>1, <1>2 DEF Seen
<1>4. RulesAsked' = RulesAsked
  BY <1>3 DEF RulesAsked
<1>5. ClassAsked' = ClassAsked
  BY <1>3, <1>4 DEF ClassAsked
<1> QED
  BY <1>1, <1>2, <1>4, <1>5 DEF Asked, NeedsApproval

LEMMA RowIs ==
  ASSUME NEW a, NEW person, NEW st
  PROVE  /\ Row(a, person, st).kind = a.kind /\ Row(a, person, st).n = a.n
         /\ Row(a, person, st).asked = a.asked /\ Row(a, person, st).person = person
         /\ Row(a, person, st).status = st
         /\ \A other : [Row(a, person, st) EXCEPT !.status = other] = Row(a, person, other)
BY DEF Row

(* Steps that leave the rows and the order as they are.                     *)
LEMMA RowsStay ==
  ASSUME RoutingInv, UNCHANGED <<assetType, policy, facts, rows, placedOn>>, RoutingTyped',
         DelegateInForce', placed' = placed
  PROVE  RoutingInv'
<1>1. Asked' = Asked /\ (NeedsApproval' <=> NeedsApproval)
  BY AskedStays
<1>2. RowsOfAsked'
  BY <1>1 DEF RoutingInv, RowsOfAsked
<1>3. GoesOnRight'
  BY <1>1 DEF RoutingInv, GoesOnRight, AllGranted
<1> QED
  BY <1>2, <1>3 DEF RoutingInv

LEMMA DelegateKeeps ==
  ASSUME RoutingInv, NEW by \in People, NEW to \in People, NEW from \in Days,
         NEW until \in Days \cup {RoutingEnd + 1}, Delegate(by, to, from, until)
  PROVE  RoutingInv'
<1> DEFINE d == [by |-> by, to |-> to, from |-> from, until |-> until, revoked |-> NotRevoked]
<1>1. d \in Delegation
  BY DEF Delegation, NotRevoked
<1>2. RoutingTyped'
  BY <1>1 DEF RoutingInv, RoutingTyped, Delegate
<1>3. DelegateInForce'
  <2> DEFINE Covers(r) == \E e \in delegations : /\ e.by = r.asked /\ e.to = r.person
                                   /\ e.from <= placedOn /\ placedOn < e.until
                                   /\ placedOn <= e.revoked
  <2>1. \A r \in rows : r.person # r.asked => Covers(r)
    BY DEF RoutingInv, DelegateInForce
  <2>2. rows' = rows /\ placedOn' = placedOn /\ delegations \subseteq delegations'
    BY DEF Delegate
  <2> QED
    BY <2>1, <2>2 DEF DelegateInForce
<1> QED
  BY <1>2, <1>3, RowsStay DEF Delegate

LEMMA RevokeKeeps ==
  ASSUME RoutingInv, NEW d \in delegations, RevokeDelegation(d)
  PROVE  RoutingInv'
<1> DEFINE e == [d EXCEPT !.revoked = day]
<1>1. d \in Delegation /\ day \in Days /\ placedOn \in 0..day /\ RoutingEnd \in Nat
  BY RoutingAssumption DEF RoutingInv, RoutingTyped
<1>2. /\ e \in Delegation /\ e.by = d.by /\ e.to = d.to /\ e.from = d.from /\ e.until = d.until
      /\ e.revoked = day
  BY <1>1 DEF Delegation
<1>3. delegations' = (delegations \ {d}) \cup {e}
  BY DEF RevokeDelegation
<1> HIDE DEF e
<1>4. RoutingTyped'
  BY <1>2, <1>3 DEF RoutingInv, RoutingTyped, RevokeDelegation
<1>5. DelegateInForce'
  <2> SUFFICES ASSUME NEW r \in rows, r.person # r.asked
               PROVE  \E f \in delegations' : /\ f.by = r.asked /\ f.to = r.person
                                   /\ f.from <= placedOn /\ placedOn < f.until
                                   /\ placedOn <= f.revoked
    BY DEF DelegateInForce, RevokeDelegation
  <2>1. PICK f \in delegations : /\ f.by = r.asked /\ f.to = r.person
                                 /\ f.from <= placedOn /\ placedOn < f.until
                                 /\ placedOn <= f.revoked
    BY DEF RoutingInv, DelegateInForce
  <2>2. CASE f # d
    BY <1>3, <2>1, <2>2
  <2>3. CASE f = d
    <3>1. placedOn <= e.revoked
      BY <1>1, <1>2
    <3> QED
      BY <1>2, <1>3, <2>1, <2>3, <3>1
  <2> QED
    BY <2>2, <2>3
<1> QED
  BY <1>4, <1>5, RowsStay DEF RevokeDelegation

LEMMA FlushKeeps ==
  ASSUME RoutingInv, NEW selfApproved \in BOOLEAN, Flush(selfApproved)
  PROVE  RoutingInv'
<1>1. PICK route \in [{a.asked : a \in Asked} -> People] :
        /\ \A p \in DOMAIN route : route[p] \in RoutedTo(p)
        /\ rows' = NewRows(selfApproved, route)
  BY DEF Flush
<1> DEFINE New(a) == IF selfApproved /\ a.kind = "manager" THEN Row(a, a.asked, "approved")
                     ELSE Row(a, route[a.asked], "pending")
<1>2. rows' = {New(a) : a \in Asked}
  BY <1>1 DEF NewRows
<1>3. Asked' = Asked /\ (NeedsApproval' <=> NeedsApproval)
  BY AskedStays DEF Flush
<1>4. assetType \in RoutingTypes
  BY DEF RoutingInv, RoutingTyped
<1>5. \A a \in Asked : route[a.asked] \in People /\ route[a.asked] \in RoutedTo(a.asked)
                       /\ a.asked \in People
  BY <1>1, <1>4, AskedAre
<1>6. \A a \in Asked : /\ New(a).kind = a.kind /\ New(a).n = a.n /\ New(a).asked = a.asked
                       /\ New(a).status \in {"pending", "approved"}
                       /\ New(a).person \in {a.asked, route[a.asked]}
  BY RowIs
<1>7. \A a \in Asked : \E person \in People : \E st \in RowStatus : New(a) = Row(a, person, st)
  BY <1>5 DEF RowStatus
<1> HIDE DEF New
<1>8. RowsOfAsked'
  <2>1. \A r \in rows' : \E a \in Asked : \E person \in People : \E st \in RowStatus :
          r = Row(a, person, st)
    BY <1>2, <1>7
  <2>2. \A r, s \in rows' : r.kind = s.kind /\ r.n = s.n /\ r.asked = s.asked => r = s
    <3> TAKE r, s \in rows'
    <3> HAVE r.kind = s.kind /\ r.n = s.n /\ r.asked = s.asked
    <3>1. PICK a \in Asked : r = New(a)
      BY <1>2
    <3>2. PICK b \in Asked : s = New(b)
      BY <1>2
    <3>3. a.kind = b.kind /\ a.n = b.n /\ a.asked = b.asked
      BY <1>6, <3>1, <3>2
    <3>4. a = b
      BY <1>4, <3>3, AskedAre
    <3> QED
      BY <3>1, <3>2, <3>4
  <2>3. \A a \in Asked : \E r \in rows' : r.asked = a.asked
    BY <1>2, <1>6
  <2> QED
    BY <1>3, <2>1, <2>2, <2>3 DEF RowsOfAsked
<1>9. RoutingTyped'
  <2>1. day \in 0..day /\ sendTasks' \in 0..1
    BY RoutingAssumption DEF RoutingInv, RoutingTyped, Flush, Days
  <2> QED
    BY <2>1 DEF RoutingInv, RoutingTyped, Flush
<1>10. GoesOnRight'
  BY <1>2, <1>6 DEF GoesOnRight, Flush
<1>11. DelegateInForce'
  <2> SUFFICES ASSUME NEW r \in rows', r.person # r.asked
               PROVE  \E d \in delegations : /\ d.by = r.asked /\ d.to = r.person
                                   /\ d.from <= day /\ day < d.until /\ day <= d.revoked
    BY DEF DelegateInForce, Flush
  <2>1. PICK a \in Asked : r = New(a)
    BY <1>2
  <2>2. r.asked = a.asked /\ r.person = route[a.asked] /\ route[a.asked] # a.asked
    BY <1>6, <2>1
  <2>3. route[a.asked] \in RoutedTo(a.asked)
    BY <1>5
  <2>4. PICK d \in InForce(a.asked) : d.to = route[a.asked]
    BY <2>2, <2>3 DEF RoutedTo
  <2>5. d \in delegations /\ d.by = a.asked /\ d.revoked = NotRevoked /\ d.from <= day /\ day < d.until
    BY DEF InForce
  <2>6. day <= NotRevoked
    BY RoutingAssumption DEF RoutingInv, RoutingTyped, Days, NotRevoked
  <2> QED
    BY <2>2, <2>4, <2>5, <2>6
<1> QED
  BY <1>8, <1>9, <1>10, <1>11 DEF RoutingInv

LEMMA CommitKeepsRouting ==
  ASSUME RoutingInv, Commit
  PROVE  RoutingInv'
<1>1. Asked' = Asked /\ (NeedsApproval' <=> NeedsApproval) /\ rows' = rows
  BY AskedStays DEF Commit
<1>2. RowsOfAsked'
  BY <1>1 DEF RoutingInv, RowsOfAsked, Commit
<1>3. RoutingTyped'
  BY DEF RoutingInv, RoutingTyped, Commit
<1>4. GoesOnRight'
  BY <1>1 DEF RoutingInv, GoesOnRight, Commit
<1>5. DelegateInForce'
  BY DEF RoutingInv, DelegateInForce, Commit
<1> QED
  BY <1>2, <1>3, <1>4, <1>5 DEF RoutingInv

(* A row with another status is a row of the same person asked.             *)
LEMMA DecideKeeps ==
  ASSUME RoutingInv, NEW r \in rows, NEW verdict \in {"approved", "rejected"}, Decide(r, verdict)
  PROVE  RoutingInv'
<1> DEFINE q == [r EXCEPT !.status = verdict]
           decided == (rows \ {r}) \cup {q}
           Ended(s) == IF s.status = "pending" THEN [s EXCEPT !.status = "superseded"] ELSE s
<1>1. Asked' = Asked /\ (NeedsApproval' <=> NeedsApproval)
  BY AskedStays DEF Decide
<1>2. \A s \in rows : \E a \in Asked : \E person \in People : \E st \in RowStatus :
        s = Row(a, person, st)
  BY DEF RoutingInv, RowsOfAsked
<1>3. /\ \E a \in Asked : \E person \in People : \E st \in RowStatus : q = Row(a, person, st)
      /\ q.kind = r.kind /\ q.n = r.n /\ q.asked = r.asked /\ q.person = r.person
      /\ q.status = verdict
  <2>1. PICK a \in Asked, person \in People, st \in RowStatus : r = Row(a, person, st)
    BY <1>2
  <2>2. q = Row(a, person, verdict)
    BY <2>1, RowIs
  <2> HIDE DEF q
  <2> QED
    BY <2>1, <2>2, RowIs DEF RowStatus
<1> HIDE DEF q
<1>4. /\ \A s \in decided : \E a \in Asked : \E person \in People : \E st \in RowStatus :
           s = Row(a, person, st)
      /\ \A s, t \in decided : s.kind = t.kind /\ s.n = t.n /\ s.asked = t.asked => s = t
      /\ \A s \in rows : \E t \in decided : t.asked = s.asked /\ t.person = s.person
      /\ \A t \in decided : \E s \in rows : t.asked = s.asked /\ t.person = s.person
  <2>1. \A s, t \in rows : s.kind = t.kind /\ s.n = t.n /\ s.asked = t.asked => s = t
    BY DEF RoutingInv, RowsOfAsked
  <2>2. \A s \in decided : \E a \in Asked : \E person \in People : \E st \in RowStatus :
           s = Row(a, person, st)
    BY <1>2, <1>3
  <2>3. \A s, t \in decided : s.kind = t.kind /\ s.n = t.n /\ s.asked = t.asked => s = t
    BY <1>3, <2>1
  <2>4. \A s \in rows : \E t \in decided : t.asked = s.asked /\ t.person = s.person
    BY <1>3
  <2>5. \A t \in decided : \E s \in rows : t.asked = s.asked /\ t.person = s.person
    BY <1>3
  <2> QED
    BY <2>2, <2>3, <2>4, <2>5
<1>5. \A s \in decided : /\ \E a \in Asked : \E person \in People : \E st \in RowStatus :
                              Ended(s) = Row(a, person, st)
                         /\ Ended(s).kind = s.kind /\ Ended(s).n = s.n
                         /\ Ended(s).asked = s.asked /\ Ended(s).person = s.person
  <2> TAKE s \in decided
  <2>1. PICK a \in Asked, person \in People, st \in RowStatus : s = Row(a, person, st)
    BY <1>4
  <2>2. [s EXCEPT !.status = "superseded"] = Row(a, person, "superseded")
    BY <2>1, RowIs
  <2>3. Ended(s) = Row(a, person, "superseded") \/ Ended(s) = Row(a, person, st)
    BY <2>1, <2>2
  <2> HIDE DEF Ended, decided
  <2> QED
    BY <2>1, <2>3, RowIs DEF RowStatus
<1>6. \/ rows' = decided \/ rows' = {Ended(s) : s \in decided}
  BY DEF Decide, q
<1> HIDE DEF decided, Ended
<1>7. /\ \A s \in rows' : \E a \in Asked : \E person \in People : \E st \in RowStatus :
           s = Row(a, person, st)
      /\ \A s, t \in rows' : s.kind = t.kind /\ s.n = t.n /\ s.asked = t.asked => s = t
      /\ \A s \in rows : \E t \in rows' : t.asked = s.asked /\ t.person = s.person
      /\ \A t \in rows' : \E s \in rows : t.asked = s.asked /\ t.person = s.person
  <2>1. CASE rows' = decided
    BY <1>4, <2>1
  <2>2. CASE rows' = {Ended(s) : s \in decided}
    <3>1. \A s \in rows' : \E a \in Asked : \E person \in People : \E st \in RowStatus :
           s = Row(a, person, st)
      BY <1>5, <2>2
    <3>2. \A s, t \in rows' : s.kind = t.kind /\ s.n = t.n /\ s.asked = t.asked => s = t
      <4> TAKE s, t \in rows'
      <4> HAVE s.kind = t.kind /\ s.n = t.n /\ s.asked = t.asked
      <4>1. PICK x \in decided : s = Ended(x)
        BY <2>2
      <4>2. PICK y \in decided : t = Ended(y)
        BY <2>2
      <4>3. x.kind = y.kind /\ x.n = y.n /\ x.asked = y.asked
        BY <1>5, <4>1, <4>2
      <4>4. x = y
        BY <1>4, <4>3
      <4> QED
        BY <4>1, <4>2, <4>4
    <3>3. \A s \in rows : \E t \in rows' : t.asked = s.asked /\ t.person = s.person
      BY <1>4, <1>5, <2>2
    <3>4. \A t \in rows' : \E s \in rows : t.asked = s.asked /\ t.person = s.person
      BY <1>4, <1>5, <2>2
    <3> QED
      BY <3>1, <3>2, <3>3, <3>4
  <2> QED
    BY <1>6, <2>1, <2>2
<1>8. placed = "pending_approval" /\ placed' \in {"pending_approval", "processing", "rejected"}
  BY DEF Decide
<1>9. RowsOfAsked'
  <2>1. \A a \in Asked : \E t \in rows' : t.asked = a.asked
    BY <1>7, <1>8 DEF RoutingInv, RowsOfAsked
  <2> QED
    BY <1>1, <1>7, <2>1 DEF RowsOfAsked
<1>10. RoutingTyped'
  <2>1. UNCHANGED <<assetType, policy, facts, placedOn, sendTasks, links, delegations, day>>
    BY DEF Decide
  <2> QED
    BY <1>8, <2>1 DEF RoutingInv, RoutingTyped
<1>11. DelegateInForce'
  <2>1. placedOn' = placedOn /\ delegations' = delegations
    BY DEF Decide
  <2> QED
    BY <1>7, <2>1 DEF RoutingInv, DelegateInForce
<1>12. GoesOnRight'
  <2>1. CASE verdict = "approved"
    <3>1. rows' = decided /\ placed' = IF AllGranted(decided) THEN "processing" ELSE placed
      BY <2>1 DEF Decide, decided, q
    <3>2. NeedsApproval /\ \A s \in rows : s.status \in {"pending", "approved"}
      BY <1>8 DEF RoutingInv, GoesOnRight
    <3>3. \A s \in decided : s.status \in {"pending", "approved"}
      BY <1>3, <2>1, <3>2 DEF decided
    <3> QED
      BY <1>1, <1>8, <3>1, <3>2, <3>3 DEF GoesOnRight
  <2>2. CASE verdict = "rejected"
    BY <2>2 DEF Decide, GoesOnRight
  <2> QED
    BY <2>1, <2>2
<1> QED
  BY <1>9, <1>10, <1>11, <1>12 DEF RoutingInv

LEMMA RoutingStep == RoutingInv /\ [RoutingNext]_routingVars => RoutingInv'
<1> SUFFICES ASSUME RoutingInv, [RoutingNext]_routingVars PROVE RoutingInv'
  OBVIOUS
<1>1. ASSUME NEW by \in People, NEW to \in People, NEW from \in Days,
             NEW until \in Days \cup {RoutingEnd + 1}, Delegate(by, to, from, until)
      PROVE  RoutingInv'
  BY <1>1, DelegateKeeps
<1>2. ASSUME NEW d \in delegations, RevokeDelegation(d) PROVE RoutingInv'
  BY <1>2, RevokeKeeps
<1>3. ASSUME NEW selfApproved \in BOOLEAN, Flush(selfApproved) PROVE RoutingInv'
  BY <1>3, FlushKeeps
<1>4. CASE Commit
  BY <1>4, CommitKeepsRouting
<1>5. CASE SendRequests
  <2>1. RoutingTyped'
    BY <1>5 DEF RoutingInv, RoutingTyped, SendRequests
  <2>2. DelegateInForce'
    BY <1>5 DEF RoutingInv, DelegateInForce, SendRequests
  <2> QED
    BY <1>5, <2>1, <2>2, RowsStay DEF SendRequests
<1>6. CASE RoutingDay
  <2>1. RoutingTyped'
    BY <1>6, RoutingAssumption DEF RoutingInv, RoutingTyped, RoutingDay, Days
  <2>2. DelegateInForce'
    BY <1>6 DEF RoutingInv, DelegateInForce, RoutingDay
  <2> QED
    BY <1>6, <2>1, <2>2, RowsStay DEF RoutingDay
<1>7. ASSUME NEW r \in rows, NEW verdict \in {"approved", "rejected"},
             DecideByLink(r, verdict) \/ DecideAtPortal(r, verdict)
      PROVE  RoutingInv'
  BY <1>7, DecideKeeps DEF DecideByLink, DecideAtPortal
<1>8. CASE UNCHANGED routingVars
  <2>1. RoutingTyped' /\ DelegateInForce'
    BY <1>8 DEF RoutingInv, RoutingTyped, DelegateInForce, routingVars
  <2> QED
    BY <1>8, <2>1, RowsStay DEF routingVars
<1> QED
  BY <1>1, <1>2, <1>3, <1>4, <1>5, <1>6, <1>7, <1>8 DEF RoutingNext

LEMMA RoutingInvariant == RoutingSpec => []RoutingInv
BY RoutingInitInv, RoutingStep, PTL DEF RoutingSpec

(* Whoever the type, a rule that matches or a data class calls for has      *)
(* approved, or the delegate in force has; an order waits for somebody;     *)
(* nobody but an owner is asked twice; and rules mean what they say.        *)
THEOREM RoutingCorrect == RoutingSpec => []RoutingRight
BY RoutingInvariant, RoutingInvGivesRight, PTL

-------------------------------------------------------------------------------
(* The composition.  The components share no state, so that a behaviour of  *)
(* all of them is one of each.                                              *)

LEMMA EachInit ==
  AccessInit => QuotaInit /\ RoutingInit /\ ScimInit /\ CertInit /\ DriftInit /\ AttestInit
BY DEF AccessInit

LEMMA EachNext ==
  [AccessNext]_accessVars =>
    /\ [QuotaNext]_quotaVars /\ [RoutingNext]_routingVars /\ [ScimNext]_scimVars
    /\ [CertNext]_certVars /\ [DriftNext]_driftVars /\ [AttestNext]_attestVars
BY DEF AccessNext, accessVars

(* What is proved of a component holds of it where all of them are.         *)
THEOREM AccessIsEach ==
  AccessSpec => QuotaSpec /\ RoutingSpec /\ ScimSpec /\ CertSpec /\ DriftSpec /\ AttestSpec
BY EachInit, EachNext, PTL
DEF AccessSpec, QuotaSpec, RoutingSpec, ScimSpec, CertSpec, DriftSpec, AttestSpec

LEMMA EvidenceTyped == AttestInv => AttestTypeOK
<1> SUFFICES ASSUME AttestInv PROVE AttestTypeOK
  OBVIOUS
<1>1. Cardinality(reminder) <= 1
  <2>1. CASE reminder = {}
    BY <2>1, FS_EmptySet
  <2>2. CASE \E m : reminder = {m}
    <3>1. PICK m : reminder = {m}
      BY <2>2
    <3>2. Cardinality({m}) = 1
      BY FS_Singleton
    <3> QED
      BY <3>1, <3>2
  <2> QED
    BY <2>1, <2>2 DEF AttestInv, ReminderRight
<1>2. ASSUME NEW i \in ArtifactIds, artifact[i] # Absent
      PROVE  /\ artifact[i].kind \in ArtifactKinds
             /\ artifact[i].status \in (IF artifact[i].kind = "handover"
                                        THEN {"pending", "acknowledged"} ELSE {"emitted"})
             /\ artifact[i].last \in 0..attestDay
  <2>1. artifact[i] \in Artifacts /\ artifact[i].last <= attestDay
    BY <1>2 DEF AttestInv, AttestTyped
  <2>2. attestDay \in Nat
    BY AttestAssumption DEF AttestInv, AttestTyped
  <2> QED
    BY <1>2, <2>1, <2>2 DEF Artifacts, ArtifactKinds
<1>3. \A r \in Runs : emitting[r].at \in {"idle", "start", "insert", "mail"}
  BY DEF AttestInv, AttestTyped, Emitters
<1> QED
  BY <1>1, <1>2, <1>3 DEF AttestInv, AttestTyped, LinksRight, AttestTypeOK

(* Every component keeps its state well formed.                             *)
THEOREM AccessTyped == AccessSpec => []AccessTypeOK
<1>1. RoutingSpec => []RoutingTypeOK
  BY RoutingInvariant, RoutingInvGivesType, PTL
<1>2. ScimSpec => []ScimTypeOK
  BY ScimInvariant, ScimWellTyped, PTL
<1>3. CertSpec => []CertTypeOK
  <2>1. CertInv => CertTypeOK
    BY DEF CertInv, CertTyped
  <2> QED
    BY <2>1, CertInvariant, PTL
<1>4. DriftSpec => []DriftTypeOK
  <2>1. DriftInv => DriftTypeOK
    BY DEF DriftInv, ScansTyped
  <2> QED
    BY <2>1, DriftInvariant, PTL
<1>5. AttestSpec => []AttestTypeOK
  BY AttestInvariant, EvidenceTyped, PTL
<1> QED
  BY <1>1, <1>2, <1>3, <1>4, <1>5, QuotaTypeCorrect, AccessIsEach, PTL DEF AccessTypeOK

(* All that these components promise, with one bundle to join.              *)
THEOREM AccessCorrect ==
  ASSUME OneBundle
  PROVE  AccessSpec => /\ [](QuotasKept /\ RoutingRight /\ OneOpenFindingRace)
                       /\ ScimRight /\ CertRight /\ EvidenceStands
BY AccessIsEach, QuotasCorrect, RoutingCorrect, DriftCorrect, ScimCorrect, CertCorrect,
   EvidenceCorrect, PTL
===============================================================================
