---------------------------- MODULE ApprovalRules ---------------------------
(***************************************************************************)
(* The conditions of approval rules and the approvers they contribute, and *)
(* the approvers that the classification of an asset type's attributes     *)
(* adds.                                                                   *)
(*                                                                         *)
(* A condition is [op, fact, clauses].  A leaf compares a field of the     *)
(* order with a value: it is the name of a fact, and the context of an     *)
(* order is the set of facts that hold of it.  A leaf with an unknown      *)
(* field or operator is a fact that holds of no order.                     *)
(***************************************************************************)
EXTENDS Naturals, Sequences, SequencesExt

CONSTANTS
  MaxDepth,    \* _MAX_DEPTH
  Conditions   \* what an administrator may write, with its clauses

Compounds == {"not", "and", "or"}

(* Conditions are finite trees: among any of them there is one that has     *)
(* none of the others as a clause.                                          *)
ASSUME RulesAssumption ==
  /\ MaxDepth \in Nat
  /\ \A c \in Conditions : /\ c.op \in Compounds \cup {"leaf"}
                           /\ c.clauses \in Seq(Conditions)
  /\ \A some \in SUBSET Conditions :
       some # {} => \E c \in some : ToSet(c.clauses) \cap some = {}

Leaf(fact) == [op |-> "leaf", fact |-> fact, clauses |-> <<>>]
Compound(op, clauses) == [op |-> op, fact |-> "-", clauses |-> clauses]

TooDeep(depth) == depth > MaxDepth

(* not takes exactly one clause.                                            *)
Negated(c, held) == Len(c.clauses) = 1 /\ c.clauses[1] \notin held

(* held: the conditions that hold a level deeper.                           *)
EvalCompound(c, held) ==
  \/ c.op = "not" /\ Negated(c, held)
  \/ c.op = "and" /\ ToSet(c.clauses) \subseteq held
  \/ c.op = "or"  /\ ToSet(c.clauses) \cap held # {}

(* By depth, the conditions that hold where they are nested that deep.      *)
HeldAt(facts) ==
  LET at[depth \in 0..MaxDepth + 1] ==
        IF TooDeep(depth) THEN {}
        ELSE LET deeper == at[depth + 1]
             IN {c \in Conditions : IF c.op = "leaf" THEN c.fact \in facts
                                    ELSE EvalCompound(c, deeper)}
  IN at

EvalCondition(c, facts, depth) == c \in HeldAt(facts)[depth]

(* What conditions say: the contexts each holds in.                         *)
Meaning(contexts) ==
  LET meant[c \in Conditions] ==
        CASE c.op = "leaf" -> {x \in contexts : c.fact \in x}
          [] c.op = "not"  -> IF Len(c.clauses) = 1 THEN contexts \ meant[c.clauses[1]] ELSE {}
          [] c.op = "and"  -> {x \in contexts : \A d \in ToSet(c.clauses) : x \in meant[d]}
          [] c.op = "or"   -> {x \in contexts : \E d \in ToSet(c.clauses) : x \in meant[d]}
  IN meant

(* How deep conditions are nested.                                          *)
Depth[c \in Conditions] ==
  IF c.clauses = <<>> THEN 0 ELSE 1 + Max({Depth[d] : d \in ToSet(c.clauses)})

-----------------------------------------------------------------------------
(* evaluate_rules: every rule that matches adds its approvers; a person     *)
(* named twice is added by the first.                                       *)

Matching(rules, facts) ==
  {i \in DOMAIN rules : EvalCondition(rules[i].condition, facts, 0)}

NamedIn(rules) == UNION {ToSet(rules[i].approvers) : i \in DOMAIN rules}
NamedBy(rules, facts, p) == {i \in Matching(rules, facts) : p \in ToSet(rules[i].approvers)}

RuleApprovers(rules, facts) ==
  {[person |-> p, rule |-> Min(NamedBy(rules, facts, p))] :
     p \in {q \in NamedIn(rules) : NamedBy(rules, facts, q) # {}}}

(* classification_approvers: the strictest class with a policy decides,     *)
(* even when its policy then names nobody.                                  *)
StrictFirst == <<"pci", "phi", "pii">>

ClassPolicy(classes, policy) ==
  LET ruled == SelectSeq(StrictFirst, LAMBDA c : c \in classes /\ policy[c] # "none")
  IN IF ruled = <<>> THEN "none" ELSE policy[Head(ruled)]

ClassApprovers(classes, owners, policy, officer) ==
  CASE ClassPolicy(classes, policy) = "compliance_officer" -> officer
    [] ClassPolicy(classes, policy) = "owner_of_record"    -> ToSet(owners)
    [] OTHER                                               -> {}

=============================================================================
