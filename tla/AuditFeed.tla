----------------------------- MODULE AuditFeed -----------------------------
(***************************************************************************)
(* What forwarding the audit log promises, without ids that are handed     *)
(* out, transactions, batches, runs or crashes: rows come into the table,  *)
(* arrive at the SIEM any number of times, and expire; the mark is only    *)
(* set to a row that has arrived, with every row before it that was there  *)
(* in time.                                                                *)
(***************************************************************************)
EXTENDS Integers

CONSTANT Rows  \* numbers: a row is in order of its number

VARIABLES
  table,    \* the rows that can be read
  expired,  \* those that were pruned
  late,     \* those that came after one with a greater number
  arrived,  \* those the SIEM has
  mark      \* the last row forwarded

feedVars == <<table, expired, late, arrived, mark>>

Logged == table \cup expired

FeedInit == table = {} /\ expired = {} /\ late = {} /\ arrived = {} /\ mark = 0

(* A transaction's rows become visible together.                            *)
Log(new) ==
  /\ new \cap Logged = {}
  /\ table' = table \cup new
  /\ late' = late \cup {r \in new : \E h \in Logged : h > r}
  /\ UNCHANGED <<expired, arrived, mark>>

Arrive(batch) ==
  /\ batch \subseteq Logged
  /\ arrived' = arrived \cup batch
  /\ UNCHANGED <<table, expired, late, mark>>

(* The mark may also go back: rows after it then arrive again.              *)
SetMark(r) ==
  /\ r \in arrived
  /\ \A q \in table : q <= r => q \in arrived \cup late
  /\ mark' = r
  /\ UNCHANGED <<table, expired, late, arrived>>

Expire(old) ==
  /\ old \subseteq table
  /\ table' = table \ old
  /\ expired' = expired \cup old
  /\ UNCHANGED <<late, arrived, mark>>

FeedNext ==
  \/ \E set \in SUBSET Rows : Log(set) \/ Arrive(set) \/ Expire(set)
  \/ \E r \in Rows : SetMark(r)

FeedSpec == FeedInit /\ [][FeedNext]_feedVars
=============================================================================
