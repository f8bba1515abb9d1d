------------------------------ MODULE MCAccess ------------------------------
(***************************************************************************)
(* The components that decide who gets, keeps and loses access, for TLC:   *)
(* limits on new orders, approval routing, SCIM and onboarding bundles,    *)
(* certification campaigns, drift reconciliation and attestations.  They   *)
(* share no state here, so a behaviour is one of one of them: component    *)
(* says of which.                                                          *)
(***************************************************************************)
EXTENDS OrderQuotas, ApprovalRouting, ScimProvisioning, CertificationCampaigns,
        DriftReconcile, Attestations, TLC

(* Approval routing: types with a manager, an owner, owners by name, rules  *)
(* and data classes, alone and together.                                    *)
Long == Leaf("long")
Sales == Leaf("sales")
NotSales == Compound("not", <<Sales>>)
LongNotSales == Compound("and", <<Long, NotSales>>)
SalesOrLong == Compound("or", <<Sales, Long>>)
NotTwo == Compound("not", <<Long, Sales>>)
Always == Compound("and", <<>>)
SalesAfterAll == Compound("not", <<NotSales>>)
TooNested == Compound("not", <<SalesAfterAll>>)
SomeConditions == {Long, Sales, NotSales, LongNotSales, SalesOrLong, NotTwo, Always,
                   SalesAfterAll, TooNested}

RuleOf(c, a) == [condition |-> c, approvers |-> a]
Type(m, o, os, rs, cl) ==
  [manager |-> m, owner |-> o, owners |-> os, rules |-> rs, classes |-> cl]
SomeTypes ==
  {Type(TRUE, FALSE, <<"x">>, <<RuleOf(LongNotSales, <<"m">>), RuleOf(SalesOrLong, <<"y", "m">>)>>,
        {"pci"}),
   Type(FALSE, TRUE, <<>>, <<>>, {}),
   Type(TRUE, TRUE, <<"x">>, <<>>, {"pii", "phi"}),
   Type(FALSE, FALSE, <<>>, <<RuleOf(NotTwo, <<"y">>), RuleOf(TooNested, <<"m">>),
                              RuleOf(Always, <<"x">>)>>, {})}
OnePolicy == {[pci |-> "owner_of_record", phi |-> "compliance_officer", pii |-> "none"]}
SomeContexts == {{}, {"long"}, {"long", "sales"}}

(* One bundle of one type, for the sales department.                        *)
OneItem == [b \in Bundles |-> {"vm"}]
SalesOnly == [r \in AssignmentRules |-> [bundle |-> "b1", when |-> {"sales"}]]

(* One order to certify: its user's manager is asked, its owner is not set. *)
OneFact ==
  [o \in CertOrders |-> [asset_type_ids |-> "vm", cost_centers |-> "it",
                         departments |-> "sales", requester_emails |-> "u"]]
OneContact == [o \in CertOrders |-> [manager |-> "m", owner |-> NoReviewer, user |-> "u"]]
OneScope == {[departments |-> {"sales"}, cost_centers |-> {}]}

ByMail == [u \in DriftUsers |-> "mail"]

AccessSymmetry == Permutations(QuotaUsers) \cup Permutations(QuotaRequests)

CONSTANT Components

VARIABLE component

accessVars ==
  <<component, quotaVars, routingVars, scimVars, certVars, driftVars, attestVars>>

(* What an idle component starts with does not matter: one value each.      *)
IdleOnce ==
  /\ component # "routing" => /\ assetType = CHOOSE t \in RoutingTypes : TRUE
                              /\ facts = CHOOSE c \in Contexts : TRUE
                              /\ policy = CHOOSE p \in Policies : TRUE
  /\ component # "quotas" => needsApproval
  /\ component # "scim" => moverMode = "disabled"
  /\ component # "certification" => autoRevoke
  /\ component # "drift" => driftMode = "detect_only"

AccessInit ==
  /\ component \in Components
  /\ QuotaInit /\ RoutingInit /\ ScimInit /\ CertInit /\ DriftInit /\ AttestInit
  /\ IdleOnce

AccessNext ==
  /\ UNCHANGED component
  /\ IF component = "quotas" THEN QuotaNext ELSE UNCHANGED quotaVars
  /\ IF component = "routing" THEN RoutingNext ELSE UNCHANGED routingVars
  /\ IF component = "scim" THEN ScimNext ELSE UNCHANGED scimVars
  /\ IF component = "certification" THEN CertNext ELSE UNCHANGED certVars
  /\ IF component = "drift" THEN DriftNext ELSE UNCHANGED driftVars
  /\ IF component = "attestations" THEN AttestNext ELSE UNCHANGED attestVars

AccessSpec == AccessInit /\ [][AccessNext]_accessVars

(* Every component keeps its state well formed.                             *)
AccessTypeOK ==
  /\ QuotaTypeOK /\ RoutingTypeOK /\ ScimTypeOK /\ CertTypeOK /\ DriftTypeOK /\ AttestTypeOK
=============================================================================
