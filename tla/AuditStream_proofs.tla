------------------------- MODULE AuditStream_proofs -------------------------
(***************************************************************************)
(* Proof that the cursor of the SIEM streamer passes no row it should have *)
(* forwarded, and that the streamer implements the abstract feed.          *)
(*                                                                         *)
(* A batch is used long after it was read, so the invariant speaks of the  *)
(* batches as well as of the cursor: each of them is gapless up to its     *)
(* last id (Gapless), and stays so because a row that becomes visible      *)
(* below it is by definition overtaken; that needs the ids of batches and  *)
(* cursor to be of rows that have been visible (Seen), and the rows of an  *)
(* open transaction not to have been (Pending).                            *)
(***************************************************************************)
EXTENDS AuditStream, FiniteSetTheorems, TLAPS

Types ==
  /\ lastId \in 0..MaxId
  /\ rowState \in [Ids -> RowStates]
  /\ txn \in [Writers -> SUBSET Ids]
  /\ cursor \in Int
  /\ tick \in [Streamers -> [phase: {"idle", "fetched", "accepted"},
                             batch: SUBSET Ids]]
  /\ delivered \subseteq Ids
  /\ overtaken \subseteq Ids

(* The rows of open transactions are uncommitted, and each is in only one.  *)
Pending ==
  /\ \A r \in Ids : r > lastId => rowState[r] = "unused"
  /\ \A w \in Writers : \A r \in txn[w] : rowState[r] = "uncommitted"
  /\ \A w, v \in Writers : w # v => txn[w] \cap txn[v] = {}

(* What has been read was visible then.                                     *)
Seen ==
  /\ cursor \in Ids => rowState[cursor] \in {"visible", "pruned"}
  /\ cursor = 0 \/ cursor \in Ids
  /\ \A s \in Streamers : \A r \in tick[s].batch : rowState[r] \in {"visible", "pruned"}

(* Up to its last id a batch has every row that is not delivered yet.       *)
Gapless ==
  \A s \in Streamers : \A b \in tick[s].batch : \A r \in Visible :
    r <= b /\ r \notin overtaken => r \in tick[s].batch \/ r \in delivered

Accepted ==
  \A s \in Streamers : tick[s].phase = "accepted" => tick[s].batch \subseteq delivered

Inv == Types /\ Pending /\ Seen /\ Gapless /\ Accepted /\ ForwardedBehindCursor

LEMMA IdsType == Ids \subseteq Int /\ 0 \notin Ids /\ IsFiniteSet(Ids)
BY AuditAssumption, FS_Interval DEF AuditAssumption, Ids

(* The batch of a fetch is closed downwards among the rows past the cursor. *)
LEMMA BatchIsPrefix ==
  ASSUME NEW batch \in Outstanding, NEW b \in batch, NEW r \in Visible,
         r > cursor, r <= b
  PROVE  r \in batch
<1> DEFINE new == {q \in Visible : q > cursor}
           upTo(x) == {q \in new : q <= x}
           first == {x \in new : Cardinality(upTo(x)) <= BatchSize}
<1>1. batch = first
  <2>1. Outstanding = IF new = {} THEN {} ELSE {first}
    BY DEF Outstanding
  <2> HIDE DEF new, first
  <2> QED
    BY <2>1
<1>2. b \in Ids /\ r \in Ids /\ new \subseteq Ids
  BY <1>1 DEF Visible
<1>3. upTo(r) \subseteq upTo(b)
  <2>1. \A q \in new : q \in Int
    BY <1>2, IdsType
  <2>2. r \in Int /\ b \in Int
    BY <1>2, IdsType
  <2> HIDE DEF new
  <2>3. \A q \in new : q <= r => q <= b
    BY <2>1, <2>2
  <2> QED
    BY <2>3
<1>4. IsFiniteSet(upTo(b)) /\ Cardinality(upTo(r)) <= Cardinality(upTo(b))
      /\ IsFiniteSet(upTo(r))
  <2>1. upTo(b) \subseteq Ids
    BY <1>2
  <2>2. IsFiniteSet(upTo(b))
    BY <2>1, IdsType, FS_Subset
  <2> QED
    BY <2>2, <1>3, FS_Subset
<1>5. Cardinality(upTo(b)) \in Nat /\ Cardinality(upTo(r)) \in Nat
  BY <1>4, FS_CardinalityType
<1>6. Cardinality(upTo(b)) <= BatchSize
  BY <1>1
<1>7. Cardinality(upTo(r)) <= BatchSize
  BY <1>4, <1>5, <1>6, AuditAssumption DEF AuditAssumption
<1> QED
  BY <1>1, <1>7

LEMMA InvInit == Init => Inv
<1> SUFFICES ASSUME Init PROVE Inv
  OBVIOUS
<1>1. Types /\ Pending /\ Seen
  BY AuditAssumption, IdsType
  DEF AuditAssumption, Init, Types, Pending, Seen, IdleTick, RowStates, Ids
<1>2. Gapless /\ Accepted /\ ForwardedBehindCursor
  BY DEF Init, Gapless, Accepted, ForwardedBehindCursor, IdleTick, Visible
<1> QED
  BY <1>1, <1>2 DEF Inv

(* The writers' steps leave cursor, batches and deliveries alone.           *)
LEMMA InsertStep ==
  ASSUME Inv, NEW w \in Writers, Insert(w)
  PROVE  Inv'
<1> USE DEF Inv
<1>1. lastId + 1 \in Ids /\ lastId' = lastId + 1 /\ lastId' \in 0..MaxId
  BY AuditAssumption DEF AuditAssumption, Insert, Types, Ids
<1>2. rowState[lastId + 1] = "unused"
  BY <1>1 DEF Pending, Types
<1>3. Types'
  BY <1>1 DEF Insert, Types, RowStates
<1>4. \A r \in Ids : r # lastId + 1 => rowState'[r] = rowState[r]
  BY DEF Insert, Types
<1>5. Pending'
  <2>1. \A r \in Ids : r > lastId' => rowState'[r] = "unused"
    BY <1>1, <1>4, IdsType DEF Pending, Types
  <2>2. \A v \in Writers : lastId + 1 \notin txn[v]
    BY <1>2 DEF Pending
  <2>3. \A v \in Writers : txn'[v] = IF v = w THEN txn[v] \cup {lastId + 1} ELSE txn[v]
    BY DEF Insert, Types
  <2>4. rowState'[lastId + 1] = "uncommitted"
    BY <1>1 DEF Insert, Types
  <2>5. \A v \in Writers : \A r \in txn'[v] : rowState'[r] = "uncommitted"
    <3> SUFFICES ASSUME NEW v \in Writers, NEW r \in txn'[v]
                 PROVE  rowState'[r] = "uncommitted"
      OBVIOUS
    <3>1. r \in txn[v] \/ r = lastId + 1
      BY <2>3
    <3>2. CASE r \in txn[v]
      <4>1. r \in Ids /\ r # lastId + 1
        BY <2>2, <3>2 DEF Types
      <4> QED
        BY <1>4, <3>2, <4>1 DEF Pending
    <3> QED
      BY <2>4, <3>1, <3>2
  <2>6. \A v, u \in Writers : v # u => txn'[v] \cap txn'[u] = {}
    <3> SUFFICES ASSUME NEW v \in Writers, NEW u \in Writers, v # u,
                        NEW r \in txn'[v], r \in txn'[u]
                 PROVE  FALSE
      OBVIOUS
    <3>1. txn[v] \cap txn[u] = {}
      BY DEF Pending
    <3>2. r \in txn[v] \/ (v = w /\ r = lastId + 1)
      BY <2>3
    <3>3. r \in txn[u] \/ (u = w /\ r = lastId + 1)
      BY <2>3
    <3> QED
      BY <2>2, <3>1, <3>2, <3>3
  <2> QED
    BY <2>1, <2>5, <2>6 DEF Pending
<1>6. Visible' = Visible
  BY <1>1, <1>2, <1>4 DEF Visible, Insert, Types
<1>7. Seen'
  BY <1>2, <1>4 DEF Seen, Insert, Types
<1>8. Gapless' /\ Accepted' /\ ForwardedBehindCursor'
  BY <1>6 DEF Gapless, Accepted, ForwardedBehindCursor, Insert
<1> QED
  BY <1>3, <1>5, <1>7, <1>8

LEMMA EndStep ==
  ASSUME Inv, NEW w \in Writers, Commit(w) \/ Rollback(w)
  PROVE  Inv'
<1> USE DEF Inv
<1>1. PICK state \in {"visible", "rolledBack"} : EndTransaction(w, state)
  BY DEF Commit, Rollback
<1>2. \A r \in Ids : rowState'[r] = IF r \in txn[w] THEN state ELSE rowState[r]
  BY <1>1 DEF EndTransaction
<1>3. \A r \in txn[w] : r \in Ids /\ rowState[r] = "uncommitted"
  BY DEF Pending, Types
<1>4. \A v \in Writers : txn'[v] = IF v = w THEN {} ELSE txn[v]
  BY <1>1 DEF EndTransaction, Types
<1>5. Types'
  <2>1. overtaken' \subseteq Ids
    BY <1>3 DEF Commit, Rollback, Types
  <2> QED
    BY <1>1, <2>1 DEF EndTransaction, Types, RowStates
<1>6. Pending'
  BY <1>1, <1>2, <1>3, <1>4 DEF Pending, Types, EndTransaction
<1>7. \A r \in Ids : rowState[r] \in {"visible", "pruned"} => rowState'[r] = rowState[r]
  BY <1>2, <1>3
<1>8. Seen'
  BY <1>1, <1>7 DEF Seen, EndTransaction, Types
<1>9. ASSUME NEW r \in Ids, rowState'[r] = "visible", r \notin overtaken'
      PROVE  /\ rowState[r] = "visible" /\ r \notin overtaken
             \/ \A b \in Ids : rowState[b] \in {"visible", "pruned"} => ~(r <= b)
  <2>1. CASE r \notin txn[w]
    BY <1>2, <1>9, <2>1 DEF Commit, Rollback
  <2>2. CASE r \in txn[w]
    <3>1. Commit(w)
      BY <1>2, <1>9, <2>2 DEF Commit, Rollback, EndTransaction
    <3>2. \A b \in Ids : rowState[b] \in {"visible", "pruned"} => ~(b > r)
      BY <1>9, <2>2, <3>1 DEF Commit
    <3>3. rowState[r] = "uncommitted"
      BY <1>3, <2>2
    <3> QED
      BY <3>2, <3>3, IdsType
  <2> QED
    BY <2>1, <2>2
<1>10. UNCHANGED <<cursor, tick, delivered>>
  BY <1>1 DEF EndTransaction
<1>11. Gapless'
  BY <1>9, <1>10 DEF Gapless, Visible, Seen, Types
<1>12. Accepted'
  BY <1>10 DEF Accepted
<1>13. ForwardedBehindCursor'
  <2> SUFFICES ASSUME NEW r \in Ids, rowState'[r] = "visible", r <= cursor, r \notin overtaken'
               PROVE  r \in delivered
    BY <1>10 DEF ForwardedBehindCursor, Visible
  <2>1. cursor \in Ids
    BY IdsType, AuditAssumption DEF Seen, AuditAssumption, Ids
  <2> QED
    BY <1>9, <2>1 DEF ForwardedBehindCursor, Visible, Seen
<1> QED
  BY <1>5, <1>6, <1>8, <1>11, <1>12, <1>13

LEMMA FetchStep ==
  ASSUME Inv, NEW s \in Streamers, Fetch(s)
  PROVE  Inv'
<1> USE DEF Inv
<1>1. PICK batch \in Outstanding :
        tick' = [tick EXCEPT ![s] = [phase |-> "fetched", batch |-> batch]]
  BY DEF Fetch
<1>2. batch \subseteq Visible
  BY DEF Outstanding
<1>3. Types' /\ Pending' /\ Seen'
  BY <1>1, <1>2 DEF Types, Pending, Seen, Fetch, rowVars, Visible
<1>4. \A t \in Streamers : tick'[t] = tick[t] \/ tick'[t] = [phase |-> "fetched", batch |-> batch]
  BY <1>1 DEF Types
<1>5. Visible' = Visible /\ UNCHANGED <<cursor, delivered, overtaken>>
  BY DEF Fetch, rowVars, Visible
<1>6. ASSUME NEW b \in batch, NEW r \in Visible, r <= b, r \notin overtaken
      PROVE  r \in batch \/ r \in delivered
  <2>1. r \in Ids /\ cursor \in Int
    BY DEF Visible, Types
  <2>2. CASE r <= cursor
    BY <1>6, <2>2 DEF ForwardedBehindCursor
  <2>3. CASE r > cursor
    BY <1>6, <2>3, BatchIsPrefix
  <2> QED
    BY <2>1, <2>2, <2>3, IdsType
<1>7. Gapless'
  BY <1>4, <1>5, <1>6 DEF Gapless
<1>8. Accepted' /\ ForwardedBehindCursor'
  BY <1>4, <1>5 DEF Accepted, ForwardedBehindCursor
<1> QED
  BY <1>3, <1>7, <1>8

LEMMA PostStep ==
  ASSUME Inv, NEW s \in Streamers, Post(s) \/ PostFails(s) \/ SaveCursor(s) \/ Crash(s)
  PROVE  Inv'
<1> USE DEF Inv
<1>1. /\ UNCHANGED rowVars /\ Visible' = Visible
      /\ UNCHANGED <<lastId, rowState, txn, overtaken>>
  BY DEF Post, PostFails, SaveCursor, Crash, rowVars, Visible
<1>2. delivered \subseteq delivered'
  BY DEF Post, PostFails, SaveCursor, Crash
<1>3. \A t \in Streamers : tick'[t].batch \in {{}, tick[t].batch}
        /\ (tick'[t].phase = "accepted" => tick'[t].batch \subseteq delivered')
  BY DEF Post, PostFails, SaveCursor, Crash, Types, IdleTick, Accepted
<1>4. cursor' = cursor \/ (SaveCursor(s) /\ cursor' \in tick[s].batch)
  BY DEF Post, PostFails, SaveCursor, Crash, Last
<1>5. Types'
  <2>1. cursor' \in Int
    BY <1>4, IdsType DEF Types
  <2>2. tick' \in [Streamers -> [phase: {"idle", "fetched", "accepted"}, batch: SUBSET Ids]]
    BY DEF Post, PostFails, SaveCursor, Crash, Types, IdleTick
  <2>3. delivered' \subseteq Ids
    BY DEF Post, PostFails, SaveCursor, Crash, Types
  <2> QED
    BY <1>1, <2>1, <2>2, <2>3 DEF Types
<1>6. Pending' /\ Seen'
  BY <1>1, <1>3, <1>4 DEF Pending, Seen, Types
<1>7. Gapless' /\ Accepted'
  BY <1>1, <1>2, <1>3 DEF Gapless, Accepted
<1>8. ForwardedBehindCursor'
  <2>1. CASE cursor' = cursor
    BY <1>1, <1>2, <2>1 DEF ForwardedBehindCursor
  <2>2. CASE SaveCursor(s) /\ cursor' \in tick[s].batch
    BY <1>1, <1>2, <2>2 DEF ForwardedBehindCursor, Gapless, Accepted, SaveCursor
  <2> QED
    BY <1>4, <2>1, <2>2
<1> QED
  BY <1>5, <1>6, <1>7, <1>8

LEMMA PruneStep ==
  ASSUME Inv, NEW c, Prune(c)
  PROVE  Inv'
<1> USE DEF Inv
<1>1. UNCHANGED <<lastId, txn, cursor, tick, delivered, overtaken>>
  BY DEF Prune
<1>2. \A r \in Ids : rowState'[r] = rowState[r]
                      \/ (rowState[r] = "visible" /\ rowState'[r] = "pruned")
  BY DEF Prune, Visible
<1>3. Visible' \subseteq Visible
  BY <1>2 DEF Visible
<1>4. Types'
  BY <1>1 DEF Prune, Types, RowStates, Visible
<1>5. Pending' /\ Seen'
  BY <1>1, <1>2 DEF Pending, Seen, Types
<1>6. Gapless' /\ Accepted' /\ ForwardedBehindCursor'
  BY <1>1, <1>3 DEF Gapless, Accepted, ForwardedBehindCursor
<1> QED
  BY <1>4, <1>5, <1>6

LEMMA InvNext == Inv /\ [Next]_vars => Inv'
<1> SUFFICES ASSUME Inv, [Next]_vars PROVE Inv'
  OBVIOUS
<1>1. CASE UNCHANGED vars
  BY <1>1 DEF vars, Inv, Types, Pending, Seen, Gapless, Accepted, ForwardedBehindCursor, Visible
<1> QED
  BY <1>1, InsertStep, EndStep, FetchStep, PostStep, PruneStep DEF Next

(* Nothing is left undelivered behind siem.last_id but rows that became     *)
(* visible after a greater id: for every number of writers, of overlapping  *)
(* runs and of rows, every batch size and every retention policy.           *)
THEOREM CursorCorrect == Spec => []ForwardedBehindCursor
<1>1. Inv => ForwardedBehindCursor
  BY DEF Inv
<1> QED
  BY <1>1, InvInit, InvNext, PTL DEF Spec

(* Every reachable state is well typed: cursor and batches are ids that the *)
(* sequence has given (siem_streamer reads them back from the table).       *)
THEOREM TypeCorrect == Spec => []TypeOK
<1>1. Inv => TypeOK
  <2> SUFFICES ASSUME Inv PROVE TypeOK
    OBVIOUS
  <2>1. \A r \in Ids : rowState[r] \in {"visible", "pruned"} => r \in 1..lastId
    BY AuditAssumption DEF Inv, Pending, Types, Ids, AuditAssumption
  <2>2. cursor \in 0..lastId
    BY <2>1, AuditAssumption DEF Inv, Seen, Types, AuditAssumption
  <2>3. \A s \in Streamers : tick[s].batch \subseteq 1..lastId
    BY <2>1 DEF Inv, Seen, Types
  <2>4. tick \in [Streamers -> [phase: {"idle", "fetched", "accepted"},
                               batch: SUBSET (1..lastId)]]
    BY <2>3 DEF Inv, Types
  <2> QED
    BY <2>2, <2>4 DEF Inv, Types, TypeOK
<1> QED
  BY <1>1, InvInit, InvNext, PTL DEF Spec

-----------------------------------------------------------------------------
(* The refinement.  A commit is the feed's Log, an accepted batch its       *)
(* Arrive, retention its Expire; the only step the invariant is needed for  *)
(* is the cursor's.                                                         *)

Expired == {r \in Ids : rowState[r] = "pruned"}

LEMMA CommitLogs ==
  ASSUME Inv, NEW w \in Writers, Commit(w)
  PROVE  Feed!Log(txn[w]) /\ txn[w] \subseteq Ids
<1>1. \A r \in txn[w] : r \in Ids /\ rowState[r] = "uncommitted"
  BY DEF Inv, Pending, Types
<1>2. \A r \in Ids : rowState'[r] = IF r \in txn[w] THEN "visible" ELSE rowState[r]
  BY DEF Commit, EndTransaction
<1>3. Visible' = Visible \cup txn[w] /\ Expired' = Expired
  BY <1>1, <1>2 DEF Visible, Expired
<1>4. txn[w] \cap (Visible \cup Expired) = {}
  BY <1>1 DEF Visible, Expired
<1>5. overtaken' = overtaken \cup {r \in txn[w] : \E h \in Visible \cup Expired : h > r}
  BY DEF Commit, Visible, Expired
<1>6. UNCHANGED <<delivered, cursor>>
  BY DEF Commit, EndTransaction
<1> QED
  BY <1>1, <1>3, <1>4, <1>5, <1>6 DEF Feed!Log, Feed!Logged, Expired

(* What has been posted can be read, or could be until it was pruned.       *)
LEMMA PostArrives ==
  ASSUME Inv, NEW s \in Streamers, delivered' = delivered \cup tick[s].batch,
         UNCHANGED rowVars, UNCHANGED cursor
  PROVE  Feed!Arrive(tick[s].batch) /\ tick[s].batch \subseteq Ids
<1>1. tick[s].batch \subseteq Visible \cup Expired /\ tick[s].batch \subseteq Ids
  BY DEF Inv, Seen, Types, Visible, Expired
<1>2. Visible' = Visible /\ Expired' = Expired /\ overtaken' = overtaken
  BY DEF rowVars, Visible, Expired
<1> QED
  BY <1>1, <1>2 DEF Feed!Arrive, Feed!Logged, Expired

LEMMA SaveSetsMark ==
  ASSUME Inv, NEW s \in Streamers, SaveCursor(s)
  PROVE  Feed!SetMark(cursor') /\ cursor' \in Ids
<1>1. cursor' \in tick[s].batch /\ tick[s].batch \subseteq delivered
  BY DEF Inv, Accepted, SaveCursor, Last
<1>2. \A q \in Visible : q <= cursor' => q \in delivered \cup overtaken
  BY <1>1 DEF Inv, Gapless
<1>3. UNCHANGED <<rowState, overtaken, delivered>> /\ Visible' = Visible
  BY DEF SaveCursor, rowVars, Visible
<1>4. cursor' \in Ids
  BY <1>1 DEF Inv, Types
<1> QED
  BY <1>1, <1>2, <1>3, <1>4 DEF Feed!SetMark

LEMMA PruneExpires ==
  ASSUME Inv, NEW c, Prune(c)
  PROVE  \E old \in SUBSET Ids : Feed!Expire(old)
<1>1. PICK youngest \in Visible :
        rowState' = [r \in Ids |-> IF r \in Visible /\ r <= youngest /\ Class[r] = c
                                  THEN "pruned" ELSE rowState[r]]
  BY DEF Prune
<1> DEFINE old == {r \in Visible : r <= youngest /\ Class[r] = c}
<1>2. Visible' = Visible \ old /\ Expired' = Expired \cup old
  BY <1>1 DEF Visible, Expired
<1>3. UNCHANGED <<overtaken, delivered, cursor>>
  BY DEF Prune
<1>4. old \subseteq Visible /\ old \in SUBSET Ids
  BY DEF Visible
<1> HIDE DEF old
<1> QED
  BY <1>2, <1>3, <1>4 DEF Feed!Expire, Expired

LEMMA StepRefines == Inv /\ [Next]_vars => [Feed!FeedNext]_(Feed!feedVars)
<1> SUFFICES ASSUME Inv, [Next]_vars
             PROVE  Feed!FeedNext \/ UNCHANGED Feed!feedVars
  OBVIOUS
<1>1. ASSUME NEW w \in Writers, Insert(w) PROVE UNCHANGED Feed!feedVars
  <2>1. lastId + 1 \in Ids /\ rowState[lastId + 1] = "unused"
    BY <1>1, AuditAssumption DEF AuditAssumption, Insert, Inv, Types, Pending, Ids
  <2>2. \A r \in Ids : rowState'[r] = IF r = lastId + 1 THEN "uncommitted" ELSE rowState[r]
    BY <1>1 DEF Insert, Inv, Types
  <2>3. Visible' = Visible /\ Expired' = Expired
    BY <2>1, <2>2 DEF Visible, Expired
  <2> QED
    BY <1>1, <2>3 DEF Insert, Feed!feedVars, Expired
<1>2. ASSUME NEW w \in Writers, Rollback(w) PROVE UNCHANGED Feed!feedVars
  <2>1. \A r \in txn[w] : r \in Ids /\ rowState[r] = "uncommitted"
    BY DEF Inv, Pending, Types
  <2>2. \A r \in Ids : rowState'[r] = IF r \in txn[w] THEN "rolledBack" ELSE rowState[r]
    BY <1>2 DEF Rollback, EndTransaction
  <2>3. Visible' = Visible /\ Expired' = Expired
    BY <2>1, <2>2 DEF Visible, Expired
  <2> QED
    BY <1>2, <2>3 DEF Rollback, EndTransaction, Feed!feedVars, Expired
<1>3. ASSUME NEW w \in Writers, Commit(w) PROVE Feed!FeedNext
  BY <1>3, CommitLogs DEF Feed!FeedNext
<1>4. ASSUME NEW s \in Streamers, Fetch(s) \/ Crash(s) PROVE UNCHANGED Feed!feedVars
  BY <1>4 DEF Fetch, Crash, rowVars, Visible, Feed!feedVars
<1>5. ASSUME NEW s \in Streamers, Post(s) \/ PostFails(s)
      PROVE  Feed!FeedNext \/ UNCHANGED Feed!feedVars
  <2>1. UNCHANGED rowVars /\ UNCHANGED cursor
    BY <1>5 DEF Post, PostFails
  <2>2. CASE delivered' = delivered \cup tick[s].batch
    BY <2>1, <2>2, PostArrives DEF Feed!FeedNext
  <2>3. CASE delivered' = delivered
    BY <2>1, <2>3 DEF rowVars, Visible, Feed!feedVars
  <2> QED
    BY <1>5, <2>2, <2>3 DEF Post, PostFails
<1>6. ASSUME NEW s \in Streamers, SaveCursor(s) PROVE Feed!FeedNext
  BY <1>6, SaveSetsMark DEF Feed!FeedNext
<1>7. ASSUME NEW c, Prune(c) PROVE Feed!FeedNext
  BY <1>7, PruneExpires DEF Feed!FeedNext
<1>8. CASE UNCHANGED vars
  BY <1>8 DEF vars, Visible, Feed!feedVars
<1> QED
  BY <1>1, <1>2, <1>3, <1>4, <1>5, <1>6, <1>7, <1>8 DEF Next

(* The streamer with its overlapping runs, the writers' transactions and    *)
(* retention is an implementation of the feed: its cursor is a mark that is *)
(* only ever set to a row everything before which has arrived.              *)
THEOREM StreamerImplementsFeed == Spec => ImplementsFeed
<1>1. Init => Feed!FeedInit
  BY DEF Init, Feed!FeedInit, Visible
<1> QED
  BY <1>1, InvInit, InvNext, StepRefines, PTL DEF Spec, ImplementsFeed, Feed!FeedSpec
=============================================================================
