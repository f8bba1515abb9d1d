---------------------------- MODULE Attestations ----------------------------
(***************************************************************************)
(* Evidence about one order: a handover for the recipient to acknowledge   *)
(* when it is provisioned and a certificate when it is revoked.  The       *)
(* runner emits them after it has committed the status, and nothing it     *)
(* does about them can fail the order; the link is mailed after the row is *)
(* committed, and a daily task reminds of handovers that wait.             *)
(***************************************************************************)
EXTENDS Integers, FiniteSets

CONSTANTS
  Runs,            \* deliveries of the runner's message that may overlap
  Acknowledgers,   \* who may post the form behind the link
  ReminderDays,    \* attestation.handover_reminder_days
  Reminding,       \* attestation.handover_reminder_enabled
  AttestDays,      \* bound: the last day, after which nothing waits any longer
  MaxAttestCrashes \* bound: deaths of a worker and second deliveries

ASSUME AttestAssumption ==
  /\ IsFiniteSet(Runs) /\ Reminding \in BOOLEAN
  /\ {ReminderDays, AttestDays, MaxAttestCrashes} \subseteq Nat

VARIABLES
  stage,       \* the order: processing, provisioned, revoking, revoked
  copies,      \* messages of the order that wait for a worker
  removed,     \* order_change_log: what the revocation has rolled back
  emitting,    \* by run: where it is in emit_attestation_for_order
  artifact,    \* attestation_artifacts: by id, absent or a row
  linked,      \* ids whose link has been mailed at least once
  posting,     \* by acknowledger: the row the request has loaded, still pending
  reminder,    \* the reminder run: {} or {[rows, mailed]}
  attestDay, attestCrashes

attestVars == <<stage, copies, removed, emitting, artifact, linked, posting, reminder,
                attestDay, attestCrashes>>

ArtifactKinds == {"handover", "revocation"}
ArtifactIds == 1..(2 * Cardinality(Runs))
Absent == [kind |-> "none"]
NotEmitting == [at |-> "idle", kind |-> "none", row |-> 0]
RowsOf(kind) == {i \in ArtifactIds : artifact[i].kind = kind}

AttestTypeOK ==
  /\ stage \in {"processing", "provisioned", "revoking", "revoked"}
  /\ \A i \in ArtifactIds : artifact[i] # Absent =>
       /\ artifact[i].kind \in ArtifactKinds
       /\ artifact[i].status \in (IF artifact[i].kind = "handover"
                                  THEN {"pending", "acknowledged"} ELSE {"emitted"})
       /\ artifact[i].last \in 0..attestDay
  /\ \A i \in linked : artifact[i] # Absent
  /\ \A r \in Runs : emitting[r].at \in {"idle", "start", "insert", "mail"}
  /\ Cardinality(reminder) <= 1
  /\ attestDay \in 0..AttestDays

AttestInit ==
  /\ stage = "processing" /\ copies = 1 /\ removed = FALSE
  /\ emitting = [r \in Runs |-> NotEmitting]
  /\ artifact = [i \in ArtifactIds |-> Absent]
  /\ linked = {}
  /\ posting = [a \in Acknowledgers |-> 0]
  /\ reminder = {}
  /\ attestDay = 0 /\ attestCrashes = 0

-----------------------------------------------------------------------------
(* The runner loads the order whatever its status is, acts on the action    *)
(* the row has by then, sets the final status, and only then emits.         *)
RemovedFirst == removed

FinishRun(r) ==
  /\ emitting[r].at = "idle" /\ copies > 0 /\ copies' = copies - 1
  /\ \E kind \in ArtifactKinds :
       /\ IF kind = "handover" THEN stage \in {"processing", "provisioned"}
                               ELSE stage \in {"revoking", "revoked"} /\ RemovedFirst
       /\ stage' = IF kind = "handover" THEN "provisioned" ELSE "revoked"
       /\ emitting' = [emitting EXCEPT ![r] = [NotEmitting EXCEPT !.at = "start", !.kind = kind]]
  /\ UNCHANGED <<removed, artifact, linked, posting, reminder, attestDay, attestCrashes>>

RevokeOrder ==
  /\ stage = "provisioned" /\ stage' = "revoking" /\ copies' = copies + 1
  /\ UNCHANGED <<removed, emitting, artifact, linked, posting, reminder,
                 attestDay, attestCrashes>>

RollBackGrants ==
  /\ stage = "revoking" /\ ~removed /\ removed' = TRUE
  /\ UNCHANGED <<stage, copies, emitting, artifact, linked, posting, reminder,
                 attestDay, attestCrashes>>

MayEmit(kind) == RowsOf(kind) = {}

EmitCheck(r) ==
  /\ emitting[r].at = "start"
  /\ emitting' = [emitting EXCEPT ![r] = IF MayEmit(@.kind)
                                         THEN [@ EXCEPT !.at = "insert"] ELSE NotEmitting]
  /\ UNCHANGED <<stage, copies, removed, artifact, linked, posting, reminder,
                 attestDay, attestCrashes>>

NewArtifact(kind) ==
  [kind |-> kind, status |-> IF kind = "handover" THEN "pending" ELSE "emitted",
   last |-> attestDay, listed |-> kind = "revocation" /\ removed]

EmitInsert(r) ==
  /\ emitting[r].at = "insert"
  /\ LET i == CHOOSE j \in ArtifactIds : artifact[j] = Absent
     IN /\ artifact' = [artifact EXCEPT ![i] = NewArtifact(emitting[r].kind)]
        /\ emitting' = [emitting EXCEPT ![r].at = "mail", ![r].row = i]
  /\ UNCHANGED <<stage, copies, removed, linked, posting, reminder, attestDay, attestCrashes>>

(* _email_link: what the mail server says is not asked for.                 *)
EmitMail(r) ==
  /\ emitting[r].at = "mail"
  /\ linked' \in {linked, linked \cup {emitting[r].row}}
  /\ emitting' = [emitting EXCEPT ![r] = NotEmitting]
  /\ UNCHANGED <<stage, copies, removed, artifact, posting, reminder, attestDay, attestCrashes>>

(* A worker that goes down gives its message back; a task process that is   *)
(* killed does not; and a message may be delivered twice.                   *)
Faults == attestCrashes < MaxAttestCrashes /\ attestCrashes' = attestCrashes + 1

EmitterDies(r) ==
  /\ emitting[r].at # "idle" /\ Faults
  /\ emitting' = [emitting EXCEPT ![r] = NotEmitting]
  /\ copies' \in {copies, copies + 1}
  /\ UNCHANGED <<stage, removed, artifact, linked, posting, reminder, attestDay>>

DeliveredAgain(r) ==
  /\ emitting[r].at # "idle" /\ Faults
  /\ copies' = copies + 1
  /\ UNCHANGED <<stage, removed, emitting, artifact, linked, posting, reminder, attestDay>>

-----------------------------------------------------------------------------
(* attestation_post: loads the row, then writes it.                         *)
(* Mutant of MayAcknowledge: of any kind.                                   *)
AcknowledgesAny(i) == artifact[i].status # "acknowledged"

MayAcknowledge(i) == artifact[i].kind = "handover" /\ artifact[i].status = "pending"

AckLoad(a, i) ==
  /\ posting[a] = 0 /\ i \in linked /\ MayAcknowledge(i)
  /\ posting' = [posting EXCEPT ![a] = i]
  /\ UNCHANGED <<stage, copies, removed, emitting, artifact, linked, reminder,
                 attestDay, attestCrashes>>

AckCommit(a) ==
  /\ posting[a] # 0 /\ posting' = [posting EXCEPT ![a] = 0]
  /\ artifact' = [artifact EXCEPT ![posting[a]].status = "acknowledged"]
  /\ UNCHANGED <<stage, copies, removed, emitting, linked, reminder, attestDay, attestCrashes>>

-----------------------------------------------------------------------------
(* check_overdue_handovers: one transaction, mails as it goes.              *)
Overdue(i) == artifact[i].last < attestDay - ReminderDays

Waiting(i) == artifact[i].kind = "handover" /\ artifact[i].status = "pending"

RemindRead ==
  /\ Reminding /\ reminder = {}
  /\ LET due == {i \in ArtifactIds : Waiting(i) /\ Overdue(i)}
     IN due # {} /\ reminder' = {[rows |-> due, mailed |-> {}]}
  /\ UNCHANGED <<stage, copies, removed, emitting, artifact, linked, posting,
                 attestDay, attestCrashes>>

(* The mail goes to who has the order, whatever has become of it; a mail    *)
(* that fails counts as sent.                                               *)
RemindOne(i) ==
  /\ \E m \in reminder :
       i \in m.rows \ m.mailed /\ reminder' = {[m EXCEPT !.mailed = @ \cup {i}]}
  /\ linked' \in {linked, linked \cup {i}}
  /\ UNCHANGED <<stage, copies, removed, emitting, artifact, posting, attestDay, attestCrashes>>

(* Mutant of Reminded: the row is written as it was read.                   *)
RemindedStale(i) == [artifact[i] EXCEPT !.last = attestDay, !.status = "pending"]

Reminded(i) == [artifact[i] EXCEPT !.last = attestDay]

RemindCommit ==
  /\ \E m \in reminder :
       /\ m.mailed = m.rows
       /\ artifact' = [i \in ArtifactIds |-> IF i \in m.rows THEN Reminded(i)
                                                ELSE artifact[i]]
  /\ reminder' = {}
  /\ UNCHANGED <<stage, copies, removed, emitting, linked, posting, attestDay, attestCrashes>>

ReminderDies ==
  /\ reminder # {} /\ reminder' = {} /\ Faults
  /\ UNCHANGED <<stage, copies, removed, emitting, artifact, linked, posting, attestDay>>

NextAttestDay ==
  /\ attestDay < AttestDays /\ reminder = {} /\ attestDay' = attestDay + 1
  /\ UNCHANGED <<stage, copies, removed, emitting, artifact, linked, posting, reminder,
                 attestCrashes>>

AttestNext ==
  \/ \E r \in Runs : \/ FinishRun(r) \/ DeliveredAgain(r) \/ EmitCheck(r) \/ EmitInsert(r)
                     \/ EmitMail(r) \/ EmitterDies(r)
  \/ RevokeOrder \/ RollBackGrants
  \/ \E a \in Acknowledgers : AckCommit(a) \/ \E i \in ArtifactIds : AckLoad(a, i)
  \/ RemindRead \/ RemindCommit \/ ReminderDies \/ NextAttestDay
  \/ \E i \in ArtifactIds : RemindOne(i)

AttestSpec == AttestInit /\ [][AttestNext]_attestVars

-----------------------------------------------------------------------------
(* At most one artifact of each kind for every run that emits at the same   *)
(* time: a retry, a redelivery or the next run finds what is there.         *)
OneArtifactRace == \A k \in ArtifactKinds : Cardinality(RowsOf(k)) <= Cardinality(Runs)

(* An acknowledgment stands: a reminder run that had read the handover as   *)
(* still pending, or a second form that was open, does not take it back.    *)
AcknowledgmentStands ==
  [][\A i \in ArtifactIds :
       artifact[i] # Absent /\ artifact[i].status = "acknowledged"
         => artifact'[i].status = "acknowledged"]_attestVars

(* A handover is reminded of at most once in a window, however the runs     *)
(* fall, and never once the acknowledgment was there to be read.            *)
RemindedOncePerWindow ==
  [][\A i \in ArtifactIds :
       artifact[i] # Absent /\ artifact'[i].last # artifact[i].last
         => artifact'[i].last > artifact[i].last + ReminderDays]_attestVars

(* A certificate lists what was removed.                                    *)
CertificateListsRemoval ==
  \A i \in RowsOf("revocation") : artifact[i].listed

(* Evidence is what it says, and stays so.                                  *)
EvidenceStands ==
  [](OneArtifactRace /\ CertificateListsRemoval) /\ AcknowledgmentStands /\ RemindedOncePerWindow

=============================================================================
