---------------------------- MODULE AuditStream ----------------------------
(***************************************************************************)
(* The audit log between those who write it, the Beat task that forwards   *)
(* it to the SIEM, and the one that prunes it.                             *)
(*                                                                         *)
(* A row gets its id from the sequence when its transaction inserts it and *)
(* becomes visible when that transaction commits, so rows may become       *)
(* visible in another order than that of their ids.  The streamer knows    *)
(* only the greatest id it has forwarded, siem.last_id.                    *)
(***************************************************************************)
EXTENDS Integers, FiniteSets

CONSTANTS
  Writers,    \* transactions of the API and of the workers that may be open
  Streamers,  \* runs of stream_audit_log that may overlap
  MaxId,      \* bound: ids the sequence gives
  BatchSize,  \* siem.batch_size
  Class,      \* audit_log.classification of the row that gets an id
  Windows     \* the classes retention has a window for

Ids == 1..MaxId
Classes == {Class[r] : r \in Ids}

ASSUME AuditAssumption ==
  /\ MaxId \in Nat
  /\ BatchSize \in Nat \ {0}

VARIABLES
  lastId,     \* the sequence of audit_log.id
  rowState,   \* of each id
  txn,        \* the rows an open transaction has inserted
  cursor,     \* app_config siem.last_id
  tick,       \* a run of stream_audit_log, and the ids of its batch
  delivered,  \* the ids the SIEM has
  overtaken   \* history: ids that became visible after a greater one

vars == <<lastId, rowState, txn, cursor, tick, delivered, overtaken>>
rowVars == <<lastId, rowState, txn, overtaken>>

RowStates == {"unused", "uncommitted", "visible", "rolledBack", "pruned"}
IdleTick == [phase |-> "idle", batch |-> {}]

(* Every row has one state, and cursor and batches are ids the sequence has *)
(* given.                                                                   *)
TypeOK ==
  /\ lastId \in 0..MaxId
  /\ rowState \in [Ids -> RowStates]
  /\ txn \in [Writers -> SUBSET Ids]
  /\ cursor \in 0..lastId
  /\ tick \in [Streamers -> [phase: {"idle", "fetched", "accepted"},
                             batch: SUBSET (1..lastId)]]
  /\ delivered \subseteq Ids
  /\ overtaken \subseteq Ids

Init ==
  /\ lastId = 0
  /\ rowState = [r \in Ids |-> "unused"]
  /\ txn = [w \in Writers |-> {}]
  /\ cursor = 0
  /\ tick = [s \in Streamers |-> IdleTick]
  /\ delivered = {}
  /\ overtaken = {}

Visible == {r \in Ids : rowState[r] = "visible"}

-----------------------------------------------------------------------------
(* aaudit and waudit write into the caller's transaction.                   *)

Insert(w) ==
  /\ lastId < MaxId
  /\ lastId' = lastId + 1
  /\ rowState' = [rowState EXCEPT ![lastId + 1] = "uncommitted"]
  /\ txn' = [txn EXCEPT ![w] = @ \cup {lastId + 1}]
  /\ UNCHANGED <<cursor, tick, delivered, overtaken>>

(* The caller's commit or rollback.                                         *)
EndTransaction(w, state) ==
  /\ txn[w] # {}
  /\ rowState' = [r \in Ids |-> IF r \in txn[w] THEN state ELSE rowState[r]]
  /\ txn' = [txn EXCEPT ![w] = {}]
  /\ UNCHANGED <<lastId, cursor, tick, delivered>>

Commit(w) ==
  /\ EndTransaction(w, "visible")
  /\ overtaken' = overtaken \cup
       {r \in txn[w] : \E h \in Ids : h > r /\ rowState[h] \in {"visible", "pruned"}}

Rollback(w) == EndTransaction(w, "rolledBack") /\ UNCHANGED overtaken

-----------------------------------------------------------------------------
(* stream_audit_log.  Nothing keeps two of its runs apart: Beat sends one   *)
(* every minute, and a batch may take longer than that to post.             *)

(* Mutant of Outstanding: WHERE id > :last without ORDER BY.                *)
OutstandingUnordered ==
  {S \in SUBSET {r \in Visible : r > cursor} : S # {} /\ Cardinality(S) <= BatchSize}

(* WHERE id > :last ORDER BY id ASC LIMIT :limit, as a set of batches with  *)
(* one element, or none when there is nothing to forward.                   *)
Outstanding ==
  LET new == {r \in Visible : r > cursor}
      first == {r \in new : Cardinality({q \in new : q <= r}) <= BatchSize}
  IN IF new = {} THEN {} ELSE {first}

Fetch(s) ==
  /\ tick[s] = IdleTick
  /\ \E batch \in Outstanding :
       tick' = [tick EXCEPT ![s] = [phase |-> "fetched", batch |-> batch]]
  /\ UNCHANGED <<rowVars, cursor, delivered>>

(* The endpoint answers 2xx.                                                *)
Post(s) ==
  /\ tick[s].phase = "fetched"
  /\ delivered' = delivered \cup tick[s].batch
  /\ tick' = [tick EXCEPT ![s].phase = "accepted"]
  /\ UNCHANGED <<rowVars, cursor>>

(* events[-1]["id"] of a batch, as a set with one element.                   *)
Last(batch) == {r \in batch : \A q \in batch : q <= r}

(* Mutant of PostFails: siem.last_id is advanced all the same.              *)
PostFailsForGood(s) ==
  /\ tick[s].phase = "fetched"
  /\ tick' = [tick EXCEPT ![s] = IdleTick]
  /\ cursor' \in Last(tick[s].batch)
  /\ UNCHANGED <<rowVars, delivered>>

(* It refuses, or its answer is lost after it has taken the batch.          *)
PostFails(s) ==
  /\ tick[s].phase = "fetched"
  /\ delivered' \in {delivered, delivered \cup tick[s].batch}
  /\ tick' = [tick EXCEPT ![s] = IdleTick]
  /\ UNCHANGED <<rowVars, cursor>>

(* Mutant of SaveCursor: the next id to read instead of the last one read.  *)
SaveNextId(s) ==
  /\ tick[s].phase = "accepted"
  /\ \E r \in Last(tick[s].batch) : cursor' = r + 1
  /\ tick' = [tick EXCEPT ![s] = IdleTick]
  /\ UNCHANGED <<rowVars, delivered>>

(* Mutant of SaveCursor: the greatest id in the table by now.               *)
SaveNewest(s) ==
  /\ tick[s].phase = "accepted"
  /\ cursor' \in Last(Visible \cup tick[s].batch)
  /\ tick' = [tick EXCEPT ![s] = IdleTick]
  /\ UNCHANGED <<rowVars, delivered>>

(* The last id of the batch, whatever siem.last_id says by now.             *)
SaveCursor(s) ==
  /\ tick[s].phase = "accepted"
  /\ cursor' \in Last(tick[s].batch)
  /\ tick' = [tick EXCEPT ![s] = IdleTick]
  /\ UNCHANGED <<rowVars, delivered>>

(* The worker dies with its batch fetched or posted.                        *)
Crash(s) ==
  /\ tick[s] # IdleTick
  /\ tick' = [tick EXCEPT ![s] = IdleTick]
  /\ UNCHANGED <<rowVars, cursor, delivered>>

-----------------------------------------------------------------------------
(* prune_old_rows, one pass: the rows of one class up to some age (which    *)
(* the order of ids stands for), forwarded or not.                          *)
Prune(c) ==
  /\ c \in Windows
  /\ \E youngest \in Visible :
       rowState' = [r \in Ids |->
                      IF r \in Visible /\ r <= youngest /\ Class[r] = c
                      THEN "pruned" ELSE rowState[r]]
  /\ UNCHANGED <<lastId, txn, cursor, tick, delivered, overtaken>>

-----------------------------------------------------------------------------
Next ==
  \/ \E w \in Writers : Insert(w) \/ Commit(w) \/ Rollback(w)
  \/ \E s \in Streamers :
       Fetch(s) \/ Post(s) \/ PostFails(s) \/ SaveCursor(s) \/ Crash(s)
  \/ \E c \in Classes : Prune(c)

Spec == Init /\ [][Next]_vars

(* Beat keeps sending the task, the SIEM accepts a batch now and then, and  *)
(* a worker does not die every time after that.                             *)
FairSpec ==
  /\ Spec
  /\ \A s \in Streamers :
       WF_vars(Fetch(s)) /\ SF_vars(Post(s)) /\ SF_vars(SaveCursor(s))

-----------------------------------------------------------------------------
(* Properties.                                                              *)

(* The cursor passes nothing: a row that is still in the table and behind   *)
(* siem.last_id has been forwarded, however runs overlap, crash or fail, if *)
(* it did not become visible after a row with a greater id.                 *)
ForwardedBehindCursor ==
  \A r \in Visible : r <= cursor /\ r \notin overtaken => r \in delivered

(* The streamer, its writers and retention implement the feed: whatever is  *)
(* in flight, the cursor is the feed's mark.                                *)
Feed == INSTANCE AuditFeed WITH
  Rows <- Ids, table <- Visible, expired <- {r \in Ids : rowState[r] = "pruned"},
  late <- overtaken, arrived <- delivered, mark <- cursor

ImplementsFeed == Feed!FeedSpec

(* Every such row is forwarded in the end, unless retention is faster.      *)
EveryRowForwarded ==
  \A r \in Ids :
    (r \in Visible /\ r \notin overtaken) ~> (r \in delivered \/ rowState[r] = "pruned")
=============================================================================
