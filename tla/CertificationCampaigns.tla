----------------------- MODULE CertificationCampaigns -----------------------
(***************************************************************************)
(* Access certification: campaigns, the review rows their kickoff creates, *)
(* the three entries that decide a review (administrator, signed link,     *)
(* portal), and the daily job that reminds, escalates and auto-revokes.    *)
(*                                                                         *)
(* A request reads its rows, then commits; nothing locks what was read.    *)
(* The daily job is one transaction over all running campaigns: what it    *)
(* writes is seen, and unlocked, only at its end, while the mails and task *)
(* messages it sends leave at once.  Orders are kept as far as reviews     *)
(* touch them; their whole life is in OrderLifecycle.                      *)
(***************************************************************************)
EXTENDS Integers, FiniteSets

CONSTANTS
  Campaigns,
  CertOrders,
  CertFacts,        \* order |-> what _matches_scope looks at, by scope key
  CertContacts,     \* order |-> [manager, owner, user], NoReviewer if absent
  CertScopes,       \* the scope filters administrators use
  NoReviewer,
  CertAdmins,       \* concurrent requests of administrators,
  CertReviewers,    \* and of reviewers, by their address
  CertOffsets,      \* certification.reminder_days
  CertDues,         \* the due dates administrators use
  CertEscalates,    \* certification.escalation_email is set
  CertLastDay,      \* bound: days
  CertMaxCrashes    \* bound: crashes of the job and the API process

ASSUME CertAssumption ==
  /\ \A o \in CertOrders :
       /\ DOMAIN CertFacts[o] = {"asset_type_ids", "cost_centers",
                                 "departments", "requester_emails"}
       /\ DOMAIN CertContacts[o] = {"manager", "owner", "user"}
       /\ CertContacts[o].user # NoReviewer
  /\ CertOffsets \subseteq Nat \ {0}
  /\ CertScopes # {}
  /\ CertEscalates \in BOOLEAN
  /\ CertLastDay \in Nat
  /\ CertDues \subseteq 1..CertLastDay
  /\ CertMaxCrashes \in Nat

VARIABLES
  campaign,     \* certification_campaigns: [status, scope, due]
  review,       \* certification_reviews.status, by campaign and order
  certOrder,    \* orders: [status, action]
  certTask,     \* orders with a dynamic_runner.run message in the broker
  certRun,      \* action a task run has loaded with the order, or "none"
  certRequest,  \* the request each API session is executing
  certScan,         \* the scan_and_remind transaction
  notice,       \* audit rows that say a notice was sent
  mailed,       \* notices that did leave
  autoRevoke,   \* certification.auto_revoke_on_overdue
  certToday,
  certCrashes

certVars == <<campaign, review, certOrder, certTask, certRun, certRequest,
              certScan, notice, mailed, autoRevoke, certToday, certCrashes>>

CertSessions == CertAdmins \cup CertReviewers

CampaignStatuses == {"none", "draft", "running", "closed", "cancelled", "deleted"}
ReviewStatuses == {"none", "pending", "confirmed", "revoked", "auto_revoked",
                   "superseded"}
CertOver == {"revoked", "cancelled", "rejected"}
CertOrderStatuses == CertOver \cup {"delivered", "provisioned", "revoking"}

(* _ACTIVE_ORDER_STATUSES, of the statuses kept here.                       *)
CertActive == {"provisioned", "delivered"}

Reviewers ==
  {CertContacts[o][k] : o \in CertOrders, k \in {"manager", "owner", "user"}}

Notices ==
  [campaign: Campaigns, kind: {"reminder", "overdue", "escalation"},
   offset: CertOffsets \cup {0}, to: Reviewers \cup {NoReviewer}]

NoCertRequest == [kind |-> "idle"]
NoCertScan == [pc |-> "idle"]

CertTypeOK ==
  /\ campaign \in [Campaigns -> [status: CampaignStatuses, scope: CertScopes,
                                 due: 0..CertLastDay]]
  /\ review \in [Campaigns -> [CertOrders -> ReviewStatuses]]
  /\ certOrder \in [CertOrders -> [status: CertOrderStatuses,
                                   action: {"provision", "delete"}]]
  /\ certTask \subseteq CertOrders
  /\ certRun \in [CertOrders -> {"none", "provision", "delete"}]
  /\ notice \subseteq Notices
  /\ mailed \subseteq Notices
  /\ autoRevoke \in BOOLEAN
  /\ certToday \in 0..CertLastDay
  /\ certCrashes \in 0..CertMaxCrashes

CertInit ==
  /\ campaign = [c \in Campaigns |-> [status |-> "none", due |-> 0,
                                       scope |-> CHOOSE f \in CertScopes : TRUE]]
  /\ review = [c \in Campaigns |-> [o \in CertOrders |-> "none"]]
  /\ certOrder = [o \in CertOrders |-> [status |-> "delivered", action |-> "provision"]]
  /\ certTask = {}
  /\ certRun = [o \in CertOrders |-> "none"]
  /\ certRequest = [s \in CertSessions |-> NoCertRequest]
  /\ certScan = NoCertScan
  /\ notice = {}
  /\ mailed = {}
  /\ autoRevoke \in BOOLEAN
  /\ certToday = 0
  /\ certCrashes = 0

-----------------------------------------------------------------------------
(* AND across keys, OR within; an empty or missing key is a wildcard.       *)
MatchesScope(scope, o) ==
  \A key \in DOMAIN scope : scope[key] = {} \/ CertFacts[o][key] \in scope[key]

(* The manager on file, else the owner, else the user.                      *)
ResolveReviewer(o) ==
  LET k == CertContacts[o] IN
  IF k.manager # NoReviewer THEN k.manager
  ELSE IF k.owner # NoReviewer THEN k.owner ELSE k.user

Decided(c, o) == review[c][o] \notin {"none", "pending"}

(* Rows the open transaction of the job has written are locked.             *)
LockedReviews == IF certScan.pc = "idle" THEN {} ELSE certScan.reviews
LockedOrders == IF certScan.pc = "idle" THEN {} ELSE certScan.orders

CertCrash ==
  certCrashes < CertMaxCrashes /\ certCrashes' = certCrashes + 1

-----------------------------------------------------------------------------
(* Administration of campaigns.                                             *)

CreateCampaign(c, scope, due) ==
  /\ campaign[c].status = "none"
  /\ due > certToday
  /\ campaign' = [campaign EXCEPT ![c] = [status |-> "draft", scope |-> scope,
                                          due |-> due]]
  /\ UNCHANGED <<review, certOrder, certTask, certRun, certRequest, certScan,
                 notice, mailed, autoRevoke, certToday, certCrashes>>

(* A request that has loaded the campaign (for a start: its orders, too).   *)
CampaignRead(s, c, kind, allowed) ==
  /\ certRequest[s] = NoCertRequest
  /\ campaign[c].status \in allowed
  /\ certRequest' = [certRequest EXCEPT ![s] =
       [kind |-> kind, campaign |-> c, status |-> campaign[c].status,
        orders |-> {o \in CertOrders :
                      /\ certOrder[o].status \in CertActive
                      /\ MatchesScope(campaign[c].scope, o)}]]
  /\ UNCHANGED <<campaign, review, certOrder, certTask, certRun, certScan, notice,
                 mailed, autoRevoke, certToday, certCrashes>>

CertUpdateRead(s, c) == CampaignRead(s, c, "update", {"draft", "running"})
StartRead(s, c) == CampaignRead(s, c, "start", {"draft"})
CloseRead(s, c) == CampaignRead(s, c, "close", {"running"})
CancelRead(s, c) == CampaignRead(s, c, "cancel", {"draft", "running"})
CertDeleteRead(s, c) == CampaignRead(s, c, "delete", {"draft", "closed", "cancelled"})

CampaignCommits(s, kind) ==
  /\ certRequest[s].kind = kind
  /\ certRequest' = [certRequest EXCEPT ![s] = NoCertRequest]
  /\ campaign[certRequest[s].campaign].status # "deleted"
  /\ UNCHANGED <<certOrder, certTask, certRun, certScan, notice, mailed, autoRevoke, certToday,
                 certCrashes>>

(* Only the due date may change once the campaign was read as running.      *)
UpdateCampaign(s, scope, due) ==
  LET r == certRequest[s] IN
  /\ CampaignCommits(s, "update")
  /\ due > certToday
  /\ \/ /\ r.status = "draft"
        /\ campaign' = [campaign EXCEPT ![r.campaign].scope = scope,
                                        ![r.campaign].due = due]
     \/ /\ r.status = "running"
        /\ campaign' = [campaign EXCEPT ![r.campaign].due = due]
  /\ UNCHANGED review

(* The insert of a second review for a campaign and an order violates their *)
(* unique constraint, and the whole transaction is rolled back.             *)
StartCampaign(s) ==
  LET r == certRequest[s] IN
  /\ CampaignCommits(s, "start")
  /\ IF \A o \in r.orders : review[r.campaign][o] = "none"
     THEN /\ review' = [review EXCEPT ![r.campaign] =
                          [o \in CertOrders |-> IF o \in r.orders THEN "pending"
                                                ELSE @[o]]]
          /\ campaign' = [campaign EXCEPT ![r.campaign].status = "running"]
     ELSE UNCHANGED <<review, campaign>>

CloseCampaign(s) ==
  /\ CampaignCommits(s, "close")
  /\ campaign' = [campaign EXCEPT ![certRequest[s].campaign].status = "closed"]
  /\ UNCHANGED review

CancelCampaign(s) ==
  /\ CampaignCommits(s, "cancel")
  /\ campaign' = [campaign EXCEPT ![certRequest[s].campaign].status = "cancelled"]
  /\ UNCHANGED review

(* The reviews go with the campaign.                                        *)
DeleteCampaign(s) ==
  LET c == certRequest[s].campaign IN
  /\ CampaignCommits(s, "delete")
  /\ \A o \in CertOrders : <<c, o>> \notin LockedReviews
  /\ campaign' = [campaign EXCEPT ![c].status = "deleted"]
  /\ review' = [review EXCEPT ![c] = [o \in CertOrders |-> "none"]]

(* The row is gone: the commit fails and nothing is written.                *)
RequestFails(s) ==
  /\ certRequest[s].kind \in {"update", "start", "close", "cancel", "delete", "decide"}
  /\ campaign[certRequest[s].campaign].status = "deleted"
  /\ certRequest' = [certRequest EXCEPT ![s] = NoCertRequest]
  /\ UNCHANGED <<campaign, review, certOrder, certTask, certRun, certScan, notice,
                 mailed, autoRevoke, certToday, certCrashes>>

-----------------------------------------------------------------------------
(* A decision: decide_review (administrator), review_post (signed link),    *)
(* api_decide_review (portal).  They differ in who is let in; all three     *)
(* read the review and its campaign, and write what they have read over.    *)

(* Mutant of DecideRead: a decided review may be decided again.             *)
DecideAnyReview(s, c, o, decision) ==
  /\ certRequest[s] = NoCertRequest
  /\ review[c][o] # "none"
  /\ campaign[c].status = "running"
  /\ certRequest' = [certRequest EXCEPT ![s] =
       [kind |-> "decide", campaign |-> c, order |-> o, decision |-> decision]]
  /\ UNCHANGED <<campaign, review, certOrder, certTask, certRun, certScan, notice,
                 mailed, autoRevoke, certToday, certCrashes>>

DecideRead(s, c, o, decision) ==
  /\ certRequest[s] = NoCertRequest
  /\ review[c][o] = "pending"
  /\ campaign[c].status = "running"
  /\ certRequest' = [certRequest EXCEPT ![s] =
       [kind |-> "decide", campaign |-> c, order |-> o, decision |-> decision]]
  /\ UNCHANGED <<campaign, review, certOrder, certTask, certRun, certScan, notice,
                 mailed, autoRevoke, certToday, certCrashes>>

(* An administrator stands in for anybody; whoever holds the signed link    *)
(* decides; the portal asks that the session is the reviewer's own.         *)
DecideByAdmin(s, c, o, decision) ==
  s \in CertAdmins /\ DecideRead(s, c, o, decision)

CertDecideByLink(s, c, o, decision) ==
  s \in CertReviewers /\ DecideRead(s, c, o, decision)

DecideByPortal(s, c, o, decision) ==
  s = ResolveReviewer(o) /\ DecideRead(s, c, o, decision)

DecideConfirm(s) ==
  LET r == certRequest[s] IN
  /\ r.kind = "decide"
  /\ r.decision = "confirmed"
  /\ campaign[r.campaign].status # "deleted"
  /\ <<r.campaign, r.order>> \notin LockedReviews
  /\ review' = [review EXCEPT ![r.campaign][r.order] = "confirmed"]
  /\ certRequest' = [certRequest EXCEPT ![s] = NoCertRequest]
  /\ UNCHANGED <<campaign, certOrder, certTask, certRun, certScan, notice, mailed,
                 autoRevoke, certToday, certCrashes>>

(* The order, unless it is over, is turned into its deprovisioning in the   *)
(* transaction of the review; the message is sent after the commit.         *)
DecideRevoke(s) ==
  LET r == certRequest[s] IN
  /\ r.kind = "decide"
  /\ r.decision = "revoked"
  /\ campaign[r.campaign].status # "deleted"
  /\ <<r.campaign, r.order>> \notin LockedReviews
  /\ r.order \notin LockedOrders
  /\ review' = [review EXCEPT ![r.campaign][r.order] = "revoked"]
  /\ IF certOrder[r.order].status \in CertOver
     THEN /\ certRequest' = [certRequest EXCEPT ![s] = NoCertRequest]
          /\ UNCHANGED certOrder
     ELSE /\ certRequest' = [certRequest EXCEPT ![s] =
                               [kind |-> "dispatch", order |-> r.order]]
          /\ certOrder' = [certOrder EXCEPT ![r.order] =
                             [status |-> "revoking", action |-> "delete"]]
  /\ UNCHANGED <<campaign, certTask, certRun, certScan, notice, mailed, autoRevoke, certToday,
                 certCrashes>>

(* Mutant of DecideDispatch: nothing is sent.                               *)
DispatchForgotten(s) ==
  /\ certRequest[s].kind = "dispatch"
  /\ certRequest' = [certRequest EXCEPT ![s] = NoCertRequest]
  /\ UNCHANGED <<campaign, review, certOrder, certTask, certRun, certScan, notice, mailed,
                 autoRevoke, certToday, certCrashes>>

DecideDispatch(s) ==
  /\ certRequest[s].kind = "dispatch"
  /\ certTask' = certTask \cup {certRequest[s].order}
  /\ certRequest' = [certRequest EXCEPT ![s] = NoCertRequest]
  /\ UNCHANGED <<campaign, review, certOrder, certRun, certScan, notice, mailed,
                 autoRevoke, certToday, certCrashes>>

(* _supersede_pending_reviews: a reviewer has left the organisation.        *)
ReviewerLeaves(s, who) ==
  LET rows == {p \in Campaigns \X CertOrders :
                 review[p[1]][p[2]] = "pending" /\ ResolveReviewer(p[2]) = who}
  IN
  /\ certRequest[s] = NoCertRequest
  /\ rows # {}
  /\ certRequest' = [certRequest EXCEPT ![s] = [kind |-> "leaver", rows |-> rows]]
  /\ UNCHANGED <<campaign, review, certOrder, certTask, certRun, certScan, notice,
                 mailed, autoRevoke, certToday, certCrashes>>

SupersedeReviews(s) ==
  /\ certRequest[s].kind = "leaver"
  /\ certRequest[s].rows \cap LockedReviews = {}
  /\ review' = [c \in Campaigns |-> [o \in CertOrders |->
                  IF <<c, o>> \in certRequest[s].rows /\ review[c][o] # "none"
                  THEN "superseded" ELSE review[c][o]]]
  /\ certRequest' = [certRequest EXCEPT ![s] = NoCertRequest]
  /\ UNCHANGED <<campaign, certOrder, certTask, certRun, certScan, notice, mailed,
                 autoRevoke, certToday, certCrashes>>

-----------------------------------------------------------------------------
(* scan_and_remind, for the running campaigns it has selected, one by one.  *)

scanFrame == <<campaign, review, certOrder, certRun, certRequest, autoRevoke, certToday>>

ScanStart ==
  /\ certScan = NoCertScan
  /\ \E c \in Campaigns : campaign[c].status = "running"
  /\ certScan' = [pc |-> "next", day |-> certToday,
              left |-> {[id |-> c, due |-> campaign[c].due] :
                          c \in {d \in Campaigns : campaign[d].status = "running"}},
              rows |-> {}, reviews |-> {}, orders |-> {}, notices |-> {}]
  /\ UNCHANGED <<scanFrame, certTask, notice, mailed, certCrashes>>

(* The notices due on a day with so many days left: the reminder of the     *)
(* first offset reached, offsets taken from the largest; past the due date  *)
(* one mail per reviewer and one escalation for the campaign.               *)
NoticesDue(c, daysLeft, to) ==
  LET reached == {n \in CertOffsets : daysLeft > 0 /\ daysLeft <= n}
      first == {n \in reached : \A m \in reached : m <= n}
  IN  [campaign: {c}, kind: {"reminder"}, offset: first, to: to]
      \cup (IF daysLeft < 0
            THEN [campaign: {c}, kind: {"overdue"}, offset: {0}, to: to]
                 \cup (IF CertEscalates
                       THEN {[campaign |-> c, kind |-> "escalation", offset |-> 0,
                              to |-> NoReviewer]} ELSE {})
            ELSE {})

(* One campaign: a notice whose mail fails is not recorded and so comes     *)
(* again; then the rows to auto-revoke are selected.                        *)
ScanCampaign(p) ==
  LET pending == {o \in CertOrders : review[p.id][o] = "pending"}
      due == NoticesDue(p.id, p.due - certScan.day, {ResolveReviewer(o) : o \in pending})
               \ (notice \cup certScan.notices)
  IN
  /\ certScan.pc = "next"
  /\ p \in certScan.left
  /\ \E sent \in SUBSET due :
       /\ mailed' = mailed \cup (IF pending = {} THEN {} ELSE sent)
       /\ certScan' = [certScan EXCEPT
            !.left = @ \ {p},
            !.notices = @ \cup (IF pending = {} THEN {} ELSE sent),
            !.rows = IF p.due < certScan.day /\ autoRevoke
                     THEN {<<p.id, o>> : o \in pending} ELSE {},
            !.pc = IF p.due < certScan.day /\ autoRevoke /\ pending # {}
                   THEN "revoke" ELSE "next"]
  /\ UNCHANGED <<scanFrame, certTask, notice, certCrashes>>

AutoRevoked(c, o) == review[c][o] = "pending"

(* One row.  The review is written only if it still is pending, its order   *)
(* in any case; the message leaves before the transaction ends.             *)
ScanRevoke(c, o) ==
  /\ certScan.pc = "revoke"
  /\ <<c, o>> \in certScan.rows
  /\ certScan' = [certScan EXCEPT
       !.rows = @ \ {<<c, o>>},
       !.reviews = IF AutoRevoked(c, o) THEN @ \cup {<<c, o>>} ELSE @,
       !.orders = IF certOrder[o].status \in CertOver THEN @ ELSE @ \cup {o},
       !.pc = IF certScan.rows = {<<c, o>>} THEN "next" ELSE "revoke"]
  /\ certTask' = certTask \cup {o}
  /\ UNCHANGED <<scanFrame, notice, mailed, certCrashes>>

ScanCommit ==
  /\ certScan.pc = "next"
  /\ certScan.left = {}
  /\ review' = [c \in Campaigns |-> [o \in CertOrders |->
                  IF <<c, o>> \in certScan.reviews THEN "auto_revoked" ELSE review[c][o]]]
  /\ certOrder' = [o \in CertOrders |->
                     IF o \in certScan.orders
                     THEN [status |-> "revoking", action |-> "delete"]
                     ELSE certOrder[o]]
  /\ notice' = notice \cup certScan.notices
  /\ certScan' = NoCertScan
  /\ UNCHANGED <<campaign, certTask, certRun, certRequest, mailed, autoRevoke, certToday,
                 certCrashes>>

(* The job dies: the transaction is rolled back, what was sent stays sent.  *)
ScanCrash ==
  /\ certScan # NoCertScan
  /\ CertCrash
  /\ certScan' = NoCertScan
  /\ UNCHANGED <<scanFrame, certTask, notice, mailed>>

-----------------------------------------------------------------------------
(* The worker, as far as the messages of this module go: a run loads the    *)
(* order and ends with the status of the action it has loaded.              *)

TaskStart(o) ==
  /\ o \in certTask
  /\ certRun[o] = "none"
  /\ certTask' = certTask \ {o}
  /\ certRun' = [certRun EXCEPT ![o] = certOrder[o].action]
  /\ UNCHANGED <<campaign, review, certOrder, certRequest, certScan, notice,
                 mailed, autoRevoke, certToday, certCrashes>>

TaskEnd(o) ==
  /\ certRun[o] # "none"
  /\ o \notin LockedOrders
  /\ certOrder' = [certOrder EXCEPT ![o].status =
                     IF certRun[o] = "delete" THEN "revoked" ELSE "provisioned"]
  /\ certRun' = [certRun EXCEPT ![o] = "none"]
  /\ UNCHANGED <<campaign, review, certTask, certRequest, certScan, notice,
                 mailed, autoRevoke, certToday, certCrashes>>

(* The order is cancelled: portal_cancel_order leaves its action as it was. *)
OrderCancelled(o) ==
  /\ certOrder[o].status \in CertActive
  /\ o \notin LockedOrders
  /\ certOrder' = [certOrder EXCEPT ![o].status = "cancelled"]
  /\ UNCHANGED <<campaign, review, certTask, certRun, certRequest, certScan,
                 notice, mailed, autoRevoke, certToday, certCrashes>>

CertTick ==
  /\ certToday < CertLastDay
  /\ certToday' = certToday + 1
  /\ UNCHANGED <<campaign, review, certOrder, certTask, certRun, certRequest,
                 certScan, notice, mailed, autoRevoke, certCrashes>>

-----------------------------------------------------------------------------
CertReadRequest(s) ==
  \/ /\ s \in CertAdmins
     /\ \E who \in Reviewers : ReviewerLeaves(s, who)
  \/ \E c \in Campaigns :
    \/ /\ s \in CertAdmins
       /\ \/ CertUpdateRead(s, c) \/ StartRead(s, c) \/ CloseRead(s, c)
          \/ CancelRead(s, c) \/ CertDeleteRead(s, c)
    \/ \E o \in CertOrders, d \in {"confirmed", "revoked"} :
         \/ DecideByAdmin(s, c, o, d) \/ CertDecideByLink(s, c, o, d)
         \/ DecideByPortal(s, c, o, d)

CertCommitRequest(s) ==
  \/ StartCampaign(s) \/ CloseCampaign(s) \/ CancelCampaign(s)
  \/ DeleteCampaign(s) \/ RequestFails(s)
  \/ DecideConfirm(s) \/ DecideRevoke(s) \/ DecideDispatch(s)
  \/ SupersedeReviews(s)

CertScanStep ==
  \/ ScanStart \/ ScanCommit
  \/ \E p \in [id: Campaigns, due: 0..CertLastDay] : ScanCampaign(p)
  \/ \E c \in Campaigns, o \in CertOrders : ScanRevoke(c, o)

CertNext ==
  \/ \E c \in Campaigns, f \in CertScopes, due \in CertDues :
       CreateCampaign(c, f, due)
  \/ \E s \in CertSessions : CertReadRequest(s) \/ CertCommitRequest(s)
  \/ \E s \in CertSessions, f \in CertScopes, due \in CertDues :
       UpdateCampaign(s, f, due)
  \/ CertScanStep \/ ScanCrash
  \/ \E o \in CertOrders : TaskStart(o) \/ TaskEnd(o) \/ OrderCancelled(o)
  \/ CertTick

CertSpec == CertInit /\ [][CertNext]_certVars

(* Beat fires the job every day, requests and task runs come to their end.  *)
(* Nobody has to decide anything.                                           *)
CertFairness ==
  /\ WF_certVars(CertScanStep)
  /\ \A s \in CertSessions : WF_certVars(CertCommitRequest(s))
  /\ \A o \in CertOrders : WF_certVars(TaskStart(o)) /\ WF_certVars(TaskEnd(o))

-----------------------------------------------------------------------------
(* A notice recorded as sent has been sent, whatever crashes: the record    *)
(* keeps the reminder from ever being sent again.                           *)
CertNoticesWereSent == notice \subseteq mailed

CertDeciding(c, o) ==
  \/ \E s \in CertSessions :
       LET r == certRequest[s] IN
       \/ r.kind = "decide" /\ r.campaign = c /\ r.order = o
       \/ r.kind = "leaver" /\ <<c, o>> \in r.rows
  \/ certScan # NoCertScan /\ <<c, o>> \in certScan.rows \cup certScan.reviews

(* A decision stands: when a review is decided and nobody who has read it   *)
(* as pending is still under way, nobody takes it up again, and it changes  *)
(* only with the deletion of its campaign.  (While deciders overlap, the    *)
(* last commit wins.)                                                       *)
CertDecisionStands ==
  [][\A c \in Campaigns, o \in CertOrders :
       Decided(c, o) /\ ~CertDeciding(c, o)
         => /\ ~CertDeciding(c, o)'
            /\ review'[c][o] \in {review[c][o], "none"}]_certVars

(* Notices are not lost to their own record, nor decisions to the job.      *)
CertRight == []CertNoticesWereSent /\ CertDecisionStands

(* "Commit FIRST so the row is visible to the worker before dispatch": an   *)
(* order some reviewer has revoked is deprovisioned.                        *)
CertRevokeCarriedOut ==
  \A c \in Campaigns, o \in CertOrders :
    (review[c][o] = "revoked" /\ ~autoRevoke) ~> certOrder[o].status \in CertOver

(* With auto-revoke on, no review of a running campaign stays pending past  *)
(* the due date for ever.                                                   *)
CertOverdueIsDecided ==
  \A c \in Campaigns, o \in CertOrders :
    (autoRevoke /\ campaign[c].status = "running" /\ campaign[c].due < certToday
       /\ review[c][o] = "pending")
      ~> (review[c][o] # "pending" \/ campaign[c].status # "running"
            \/ campaign[c].due >= certToday)
=============================================================================
