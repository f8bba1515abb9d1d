--------------------------- MODULE DriftReconcile ---------------------------
(***************************************************************************)
(* Reconciling one directory group with what orders granted: a scheduler   *)
(* enqueues scans, a scan reads what active orders have granted, lists the *)
(* members of the group, records every divergence as a finding and, in     *)
(* auto_remediate mode, puts it right in the directory.  Its findings are  *)
(* committed once, at the end; the directory changes as it goes.  Orders   *)
(* and people change the same group meanwhile.                             *)
(***************************************************************************)
EXTENDS Integers, FiniteSets

CONSTANTS
  DriftUsers,     \* people who are in the directory
  WrittenAs,      \* per person: the id an order names them by, mail, upn or sam
  Mailed,         \* people with a mail attribute; a listing shows others' upn
  BindUsers,      \* the account the worker binds with (ad.username)
  DriftWorkers,   \* worker processes that may run a scan
  MaxTampers,     \* bound: direct changes of the group by somebody else
  MaxAdFailures,  \* bound: directory calls of scans that fail
  MaxDriftCrashes,\* bound: deaths of a worker
  MaxDriftEdits   \* bound: edits of drift.enabled and drift.remediation_mode

ASSUME DriftAssumption ==
  /\ WrittenAs \in [DriftUsers -> {"mail", "upn", "sam"}]
  /\ Mailed \subseteq DriftUsers /\ BindUsers \subseteq DriftUsers
  /\ IsFiniteSet(DriftWorkers) /\ DriftWorkers # {}

VARIABLES
  grantOf,        \* per person: how far the order that grants the group is
  members,        \* the group as the directory has it
  open,           \* per person and direction: ids of drift_findings with status open
  scan,           \* per worker: the scan it runs
  queued,         \* reconcile_drift waits in the queue
  fire,           \* the last cron fire: due, being enqueued, or seen to
  driftOn,        \* drift.enabled
  driftMode,      \* drift.remediation_mode
  driftBudget     \* what the bounds still allow

driftVars == <<grantOf, members, open, scan, queued, fire, driftOn, driftMode, driftBudget>>

Directions == {"missing_access", "out_of_band"}
Divergences == DriftUsers \X Directions
FindingIds == 1..(2 * Cardinality(DriftWorkers))
NoScan == [at |-> "idle", auto |-> FALSE, want |-> {}, todo |-> {}, rows |-> {}, fixed |-> {}]

DriftTypeOK ==
  /\ grantOf \in [DriftUsers -> {"none", "adding", "active", "leaving", "gone"}]
  /\ members \subseteq DriftUsers
  /\ open \in [Divergences -> SUBSET FindingIds]
  /\ \A w \in DriftWorkers :
       /\ scan[w].at \in {"idle", "granted", "listed"}
       /\ scan[w].want \cup members \subseteq DriftUsers
       /\ scan[w].fixed \subseteq scan[w].rows
       /\ scan[w].rows \subseteq Divergences \X FindingIds \X BOOLEAN
  /\ fire \in {"seen", "due", "sending"}

DriftInit ==
  /\ grantOf = [u \in DriftUsers |-> "none"]
  /\ members = BindUsers
  /\ open = [d \in Divergences |-> {}]
  /\ scan = [w \in DriftWorkers |-> NoScan]
  /\ queued = FALSE /\ fire = "seen"
  /\ driftOn = TRUE /\ driftMode \in {"detect_only", "auto_remediate"}
  /\ driftBudget = [tampers |-> MaxTampers, failures |-> MaxAdFailures,
                    crashes |-> MaxDriftCrashes, edits |-> MaxDriftEdits]

Spend(what) ==
  /\ driftBudget[what] > 0
  /\ driftBudget' = [driftBudget EXCEPT ![what] = @ - 1]

-----------------------------------------------------------------------------
(* Orders, as far as this group sees them: the runner adds the person, then *)
(* the order becomes active; it stops being active before it is removed.    *)
Granted == {u \in DriftUsers : grantOf[u] = "active"}

OrderAdds(u) ==
  /\ grantOf[u] = "none" /\ grantOf' = [grantOf EXCEPT ![u] = "adding"]
  /\ members' = members \cup {u}
  /\ UNCHANGED <<open, scan, queued, fire, driftOn, driftMode, driftBudget>>

OrderEnds(u) ==
  /\ grantOf[u] \in {"adding", "active"}
  /\ grantOf' = [grantOf EXCEPT ![u] = IF @ = "adding" THEN "active" ELSE "leaving"]
  /\ UNCHANGED <<members, open, scan, queued, fire, driftOn, driftMode, driftBudget>>

OrderRemoves(u) ==
  /\ grantOf[u] = "leaving" /\ grantOf' = [grantOf EXCEPT ![u] = "gone"]
  /\ members' = members \ {u}
  /\ UNCHANGED <<open, scan, queued, fire, driftOn, driftMode, driftBudget>>

(* Somebody edits the group in the directory itself.                        *)
Tamper(u) ==
  /\ Spend("tampers")
  /\ members' = IF u \in members THEN members \ {u} ELSE members \cup {u}
  /\ UNCHANGED <<grantOf, open, scan, queued, fire, driftOn, driftMode>>

-----------------------------------------------------------------------------
(* check_drift_schedule: a fire is only noticed in the minute that follows  *)
(* it, and drift.last_run is committed before the task is sent.             *)
CronFires ==
  /\ fire = "seen" /\ fire' = "due"
  /\ UNCHANGED <<grantOf, members, open, scan, queued, driftOn, driftMode, driftBudget>>

CheckSchedule ==
  /\ fire = "due" /\ driftOn /\ fire' = "sending"
  /\ UNCHANGED <<grantOf, members, open, scan, queued, driftOn, driftMode, driftBudget>>

FireMissed ==
  /\ fire = "due" /\ fire' = "seen"
  /\ UNCHANGED <<grantOf, members, open, scan, queued, driftOn, driftMode, driftBudget>>

SendScan ==
  /\ fire = "sending" /\ fire' = "seen" /\ queued' = TRUE
  /\ UNCHANGED <<grantOf, members, open, scan, driftOn, driftMode, driftBudget>>

SenderDies ==
  /\ fire = "sending" /\ fire' = "seen" /\ Spend("crashes")
  /\ UNCHANGED <<grantOf, members, open, scan, queued, driftOn, driftMode>>

(* run_drift_now, whatever drift.enabled says, and set_drift_config.        *)
RunDriftNow ==
  /\ ~queued /\ Spend("edits") /\ queued' = TRUE
  /\ UNCHANGED <<grantOf, members, open, scan, fire, driftOn, driftMode>>

SetDriftConfig ==
  /\ Spend("edits")
  /\ \/ driftOn' = ~driftOn /\ UNCHANGED driftMode
     \/ driftMode' \in {"detect_only", "auto_remediate"} \ {driftMode} /\ UNCHANGED driftOn
  /\ UNCHANGED <<grantOf, members, open, scan, queued, fire>>

-----------------------------------------------------------------------------
(* A group is monitored while an active order has granted it.               *)
Monitored == Granted # {}

ScanReads(w) ==
  /\ scan[w].at = "idle" /\ queued /\ queued' = FALSE
  /\ scan' = IF Monitored
             THEN [scan EXCEPT ![w] = [NoScan EXCEPT !.at = "granted", !.want = Granted,
                                         !.auto = driftMode = "auto_remediate"]]
             ELSE scan
  /\ UNCHANGED <<grantOf, members, open, fire, driftOn, driftMode, driftBudget>>

(* list_ad_group_members shows the mail, or the upn of who has none, and    *)
(* the sam name.                                                            *)
Listed(u) == IF u \in Mailed THEN "mail" ELSE "upn"

Missing(want) == {u \in want : u \notin members \/ WrittenAs[u] \notin {Listed(u), "sam"}}

OutOfBand(want) ==
  {u \in members \ BindUsers : ~(u \in want /\ WrittenAs[u] = Listed(u))}

ScanLists(w) ==
  /\ scan[w].at = "granted"
  /\ scan' = [scan EXCEPT ![w].at = "listed",
                          ![w].todo = (Missing(scan[w].want) \X {"missing_access"})
                                      \cup (OutOfBand(scan[w].want) \X {"out_of_band"})]
  /\ UNCHANGED <<grantOf, members, open, queued, fire, driftOn, driftMode, driftBudget>>

(* A directory that does not answer: the group is skipped.                  *)
ListFails(w) ==
  /\ scan[w].at = "granted" /\ Spend("failures")
  /\ scan' = [scan EXCEPT ![w] = NoScan]
  /\ UNCHANGED <<grantOf, members, open, queued, fire, driftOn, driftMode>>

(* _record_finding: the open row of this divergence, or a new one that      *)
(* others see at the commit.                                                *)
HeldIds(d) == open[d] \cup {r[2] : r \in {x \in UNION {scan[w].rows : w \in DriftWorkers} : x[1] = d}}
NewRow(d) == {<<d, CHOOSE i \in FindingIds : i \notin HeldIds(d), TRUE>>}
OpenRow(d) == {<<d, i, FALSE>> : i \in open[d]}

(* Mutant of RowFor: an open row is not looked for.                         *)
AlwaysNew(d) == NewRow(d)

RowFor(d) == IF open[d] # {} THEN OpenRow(d) ELSE NewRow(d)

(* Mutant of PutsRight: only what is new is put right.                      *)
OnlyNew(w, r) == scan[w].auto /\ r[3]

PutsRight(w, r) == scan[w].auto

InOrder(w, d) == d[2] = "out_of_band" => \A e \in scan[w].todo : e[2] = "out_of_band"

Handled(w, d, r, fixes) ==
  [scan EXCEPT ![w].todo = @ \ {d}, ![w].rows = @ \cup {r},
               ![w].fixed = IF fixes THEN @ \cup {r} ELSE @]

(* One divergence: recorded, and in auto mode granted again or revoked.     *)
ScanHandles(w, d) ==
  /\ d \in scan[w].todo /\ InOrder(w, d)
  /\ \E r \in RowFor(d) :
       /\ scan' = Handled(w, d, r, PutsRight(w, r))
       /\ members' = IF ~PutsRight(w, r) THEN members
                     ELSE IF d[2] = "missing_access" THEN members \cup {d[1]}
                     ELSE members \ {d[1]}
  /\ UNCHANGED <<grantOf, open, queued, fire, driftOn, driftMode, driftBudget>>

RemediationFails(w, d) ==
  /\ d \in scan[w].todo /\ InOrder(w, d) /\ scan[w].auto /\ Spend("failures")
  /\ \E r \in RowFor(d) : scan' = Handled(w, d, r, FALSE)
  /\ UNCHANGED <<grantOf, members, open, queued, fire, driftOn, driftMode>>

ScanCommits(w) ==
  /\ scan[w].at = "listed" /\ scan[w].todo = {}
  /\ open' = [d \in Divergences |->
                (open[d] \cup {r[2] : r \in {x \in scan[w].rows : x[1] = d /\ x[3]}})
                \ {r[2] : r \in {x \in scan[w].fixed : x[1] = d}}]
  /\ scan' = [scan EXCEPT ![w] = NoScan]
  /\ UNCHANGED <<grantOf, members, queued, fire, driftOn, driftMode, driftBudget>>

(* The findings of a scan that dies are rolled back, what it did in the     *)
(* directory is not; the message is delivered again.                        *)
ScanDies(w) ==
  /\ scan[w].at # "idle" /\ Spend("crashes")
  /\ scan' = [scan EXCEPT ![w] = NoScan] /\ queued' = TRUE
  /\ UNCHANGED <<grantOf, members, open, fire, driftOn, driftMode>>

ScanStep(w) ==
  ScanReads(w) \/ ScanLists(w) \/ ScanCommits(w) \/ \E d \in Divergences : ScanHandles(w, d)

DriftNext ==
  \/ \E u \in DriftUsers : OrderAdds(u) \/ OrderEnds(u) \/ OrderRemoves(u) \/ Tamper(u)
  \/ CronFires \/ CheckSchedule \/ FireMissed \/ SendScan \/ SenderDies
  \/ RunDriftNow \/ SetDriftConfig
  \/ \E w \in DriftWorkers :
       \/ ScanStep(w) \/ ListFails(w) \/ ScanDies(w)
       \/ \E d \in Divergences : RemediationFails(w, d)

(* The cron fires again and again, beat calls the check every minute, so a  *)
(* fire is not missed for ever, and a worker goes on with what it runs.     *)
DriftFairness ==
  /\ WF_driftVars(CronFires) /\ SF_driftVars(CheckSchedule)
  /\ WF_driftVars(SendScan)
  /\ \A w \in DriftWorkers : WF_driftVars(ScanStep(w))

DriftSpec == DriftInit /\ [][DriftNext]_driftVars

-----------------------------------------------------------------------------
(* Of one divergence there are never more open findings than scans that can *)
(* have looked for one at the same time: a scan finds what an earlier one   *)
(* recorded, however many runs there are, and failures and deaths between.  *)
OneOpenFindingRace ==
  \A d \in Divergences : Cardinality(open[d]) <= Cardinality(DriftWorkers)

(* A divergence of a monitored group that lasts is on record in the end, in *)
(* either mode, if it is not put right: lost fires, scans that die and a    *)
(* directory that does not answer only delay it.                            *)
Unseen(d) ==
  /\ driftOn /\ Monitored /\ open[d] = {}
  /\ IF d[2] = "missing_access" THEN d[1] \in Granted \ members
     ELSE d[1] \in members \ (Granted \cup BindUsers)

DivergenceIsReported == \A d \in Divergences : Unseen(d) ~> ~Unseen(d)

(* In auto_remediate mode a monitored group ends as its orders have it,     *)
(* whatever scans that overlap did with what they had read before.          *)
DriftSettles ==
  <>[](driftOn /\ driftMode = "auto_remediate" /\ Monitored
         => members \ BindUsers = Granted \ BindUsers)

=============================================================================
