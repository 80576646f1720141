--------------------------- MODULE ApprovalPolicy ---------------------------
(***************************************************************************)
(* The configurable approval policy of the gateway (ADR-027): an ordered   *)
(* list of rules; the first rule that matches a call decides it.           *)
(*                                                                         *)
(* A call is abstract.  A rule is a record                                 *)
(*   scope    - the calls its tool, scenario and risk fields select,       *)
(*   args     - its argument conditions, of which Outcome tells how each   *)
(*              call's argument tests,                                     *)
(*   decision - auto_approve, require_human or deny.                       *)
(***************************************************************************)
EXTENDS Integers, Sequences, FiniteSets

CONSTANTS
  Calls,           \* the (session, tool, arguments) triples a client may send
  Risk,            \* [Calls -> RiskLevels]: gateway.policy.classify of the tool
  Conditions,      \* conditions on one argument
  Outcome,         \* [Conditions -> [Calls -> ArgOutcome]]: Test of that argument
  RequireApproval  \* risk levels listed in tool_policy.yaml's require_approval

RiskLevels   == {"read", "write", "destructive"}
RuleDecision == {"auto_approve", "require_human", "deny"}
ArgOutcome   == {"holds", "fails", "unclear"}   \* a missing argument fails

ASSUME PolicyAssumption ==
  /\ Risk \in [Calls -> RiskLevels]
  /\ Outcome \in [Conditions -> [Calls -> ArgOutcome]]
  /\ RequireApproval \subseteq RiskLevels

Rule == [scope : SUBSET Calls, args : SUBSET Conditions, decision : RuleDecision]

(* Rule.match: one failing condition refutes the match, whatever else is   *)
(* unclear.                                                                *)
Match(rule, c) ==
  IF c \notin rule.scope \/ \E a \in rule.args : Outcome[a][c] = "fails" THEN "no"
  ELSE IF \E a \in rule.args : Outcome[a][c] = "unclear" THEN "unclear"
  ELSE "yes"

First(S) == CHOOSE i \in S : \A j \in S : i <= j

NumericOps == {"lt", "lte", "gt", "gte", "eq", "ne"}

Compare(op, x, bound) ==
  CASE op = "lt" -> x < bound  [] op = "lte" -> x <= bound
    [] op = "gt" -> x > bound  [] op = "gte" -> x >= bound
    [] op = "eq" -> x = bound  [] op = "ne" -> x # bound

(* One operator of a condition on a value [kind, val]: a value of another  *)
(* kind than the bound cannot be compared.                                 *)
TestOperator(o, v) ==
  IF o.op \in NumericOps
  THEN IF v.kind # "number" THEN "unclear"
       ELSE IF Compare(o.op, v.val, o.bound) THEN "holds" ELSE "fails"
  ELSE IF v.kind \notin {w.kind : w \in o.items} THEN "unclear"
       ELSE IF (o.op = "in") = (v \in o.items) THEN "holds" ELSE "fails"

(* Condition.test of Rule.match on an argument that may be missing: the    *)
(* first operator that does not hold decides.                              *)
Test(condition, v) ==
  LET stops == {i \in DOMAIN condition : TestOperator(condition[i], v) # "holds"}
  IN IF v.kind = "missing" THEN "fails"
     ELSE IF stops = {} THEN "holds"
     ELSE TestOperator(condition[First(stops)], v)

(* Mutant: an unclear argument counts as a match for every rule. *)
MatchedLoosely(rule, c) == Match(rule, c) # "no"

(* An argument that cannot be compared counts as a match only for a rule   *)
(* that restricts.                                                         *)
Matched(rule, c) ==
  \/ Match(rule, c) = "yes"
  \/ Match(rule, c) = "unclear" /\ rule.decision # "auto_approve"

(* Mutant: no guard. *)
Unguarded(rule, c) == FALSE

(* The destructive guard: an auto_approve rule is passed over.             *)
Guarded(rule, c) == rule.decision = "auto_approve" /\ Risk[c] = "destructive"

(* The rules that would decide c; the first of them does.                  *)
Deciders(rules, c) ==
  {i \in DOMAIN rules : Matched(rules[i], c) /\ ~Guarded(rules[i], c)}

NeedsByDefault(c) == Risk[c] \in {"write", "destructive"} \cup RequireApproval

(* ApprovalPolicy.evaluate: the decision of the first decider, or the      *)
(* default of the risk level.                                              *)
Evaluate(rules, c) ==
  IF Deciders(rules, c) # {} THEN rules[First(Deciders(rules, c))].decision
  ELSE IF NeedsByDefault(c) THEN "require_human"
  ELSE "allow"

(* Verdict.needs_token                                                     *)
NeedsToken(rules, c) ==
  \/ Evaluate(rules, c) = "require_human"
  \/ Evaluate(rules, c) = "auto_approve" /\ NeedsByDefault(c)
=============================================================================
