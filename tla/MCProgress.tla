----------------------------- MODULE MCProgress -----------------------------
(***************************************************************************)
(* What must happen in the end in the components that have no run of their *)
(* own, for TLC: certification campaigns, SCIM, API tokens, backups and    *)
(* drift reconciliation, with crashes, and retried orders under the        *)
(* limits.  They share no state here, so a behaviour is one of one of      *)
(* them: component says of which, and fairness is asked of that one.       *)
(***************************************************************************)
EXTENDS CertificationCampaigns, ScimProvisioning, ApiTokens, Backups, DriftReconcile,
        OrderQuotas, TLC

OneItem == [b \in Bundles |-> {"vm"}]
SalesOnly == [r \in AssignmentRules |-> [bundle |-> "b1", when |-> {"sales"}]]
OneFact ==
  [o \in CertOrders |-> [asset_type_ids |-> "vm", cost_centers |-> "it",
                         departments |-> "sales", requester_emails |-> "u"]]
OneContact == [o \in CertOrders |-> [manager |-> "m", owner |-> NoReviewer, user |-> "u"]]
OneScope == {[departments |-> {"sales"}, cost_centers |-> {}]}
ByMail == [u \in DriftUsers |-> "mail"]

CONSTANT Components

VARIABLE component

progressVars ==
  <<component, certVars, scimVars, tokenVars, backupVars, driftVars, quotaVars>>

(* What an idle component starts with does not matter: one value each.      *)
IdleOnce ==
  /\ component # "certification" => autoRevoke
  /\ component # "scim" => moverMode = "disabled"
  /\ component # "drift" => driftMode = "detect_only"
  /\ component # "quotas" => needsApproval

ProgressInit ==
  /\ component \in Components
  /\ CertInit /\ ScimInit /\ TokenInit /\ BackupInit /\ DriftInit /\ QuotaInit
  /\ IdleOnce

ProgressNext ==
  /\ UNCHANGED component
  /\ IF component = "certification" THEN CertNext ELSE UNCHANGED certVars
  /\ IF component = "scim" THEN ScimNext ELSE UNCHANGED scimVars
  /\ IF component = "tokens" THEN TokenNext ELSE UNCHANGED tokenVars
  /\ IF component = "backups" THEN BackupNext ELSE UNCHANGED backupVars
  /\ IF component = "drift" THEN DriftNext ELSE UNCHANGED driftVars
  /\ IF component = "quotas" THEN QuotaNext ELSE UNCHANGED quotaVars

(* CertFairness, ScimFairness, TokenFairness, BackupFairness, DriftFairness. *)
On(name) == component = name

ProgressFairness ==
  /\ WF_certVars(On("certification") /\ CertScanStep)
  /\ \A s \in CertSessions : WF_certVars(On("certification") /\ CertCommitRequest(s))
  /\ \A o \in CertOrders : /\ WF_certVars(On("certification") /\ TaskStart(o))
                          /\ WF_certVars(On("certification") /\ TaskEnd(o))
  /\ \A s \in ScimSessions : WF_scimVars(On("scim") /\ ScimSession(s))
  /\ \A o \in 1..ScimMaxOrders : WF_scimVars(On("scim") /\ o \in scimTask /\ ScimRun(o))
  /\ WF_tokenVars(On("tokens") /\ PurgeRead) /\ WF_tokenVars(On("tokens") /\ PurgeCommit)
  /\ WF_tokenVars(On("tokens") /\ NextTokenDay)
  /\ \A i \in TokenIds : /\ WF_tokenVars(On("tokens") /\ TokenRevokeCommit(i))
                         /\ WF_tokenVars(On("tokens") /\ HardDeleteCommit(i))
  /\ \A f \in Files : /\ WF_backupVars(On("backups") /\ BackupStep(f))
                      /\ WF_backupVars(On("backups") /\ RestoreStep(f))
  /\ WF_driftVars(On("drift") /\ CronFires) /\ SF_driftVars(On("drift") /\ CheckSchedule)
  /\ WF_driftVars(On("drift") /\ SendScan)
  /\ \A w \in DriftWorkers : WF_driftVars(On("drift") /\ ScanStep(w))

ProgressSpec == ProgressInit /\ [][ProgressNext]_progressVars /\ ProgressFairness

(* Access that was decided upon or ordered comes to its end.                *)
AccessIsDecided == CertRevokeCarriedOut /\ CertOverdueIsDecided /\ ScimOrderSettles

(* The jobs over tokens and backups finish what they have begun.            *)
HousekeepingEnds == DeadTokensAreGone /\ BackupSettles

(* Drift is seen, and put right where that is asked for.                    *)
DriftEnds == DivergenceIsReported /\ DriftSettles
=============================================================================
