------------------------- MODULE MCApprovalDecision -------------------------
(***************************************************************************)
(* Instances of ApprovalDecision for TLC: a manager, two approvers of a    *)
(* conditional rule, and a contact for escalations, who counts with the    *)
(* manager.                                                                *)
(***************************************************************************)
EXTENDS ApprovalDecision, TLC

ByRule ==
  [x \in Approvers |-> IF x \in {"officer", "deputy"} THEN "rule" ELSE "global"]

(* The rule applies to the order or not.                                    *)
RuleOrNot == {{"manager"}, {"manager", "officer", "deputy"}}

(* Two of the type's own approvers, which is more than the manager alone    *)
(* and all once there is a contact; one of the rule's two.                  *)
TwoAndOne == {[b \in {"global", "rule"} |-> IF b = "rule" THEN 1 ELSE 2]}

Symmetry == Permutations(Sessions)
=============================================================================
