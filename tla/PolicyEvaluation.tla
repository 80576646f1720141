-------------------------- MODULE PolicyEvaluation --------------------------
(***************************************************************************)
(* ApprovalPolicy.evaluate, rule by rule: the loop the gateway runs for    *)
(* one call, against the definition of the first decider.                  *)
(***************************************************************************)
EXTENDS ApprovalPolicy

CONSTANT RuleLists     \* the policy files that may be loaded
ASSUME RuleListsAssumption == RuleLists \subseteq Seq(Rule)

VARIABLES rules, c,    \* the loaded rules and the call
          i,           \* the rule the loop is at
          guard,       \* the last rule the destructive guard skipped (0: none)
          decision, needsToken   \* the verdict
vars == <<rules, c, i, guard, decision, needsToken>>

Outcomes == {"allow"} \cup RuleDecision

TypeOK == /\ rules \in Seq(Rule) /\ c \in Calls
          /\ i \in 1..(Len(rules) + 1) /\ guard \in 0..Len(rules)
          /\ decision \in Outcomes \cup {"pending"} /\ needsToken \in BOOLEAN

Init == /\ rules \in RuleLists /\ c \in Calls
        /\ i = 1 /\ guard = 0
        /\ decision = "pending" /\ needsToken = FALSE

Pass == /\ decision = "pending" /\ i <= Len(rules)
        /\ ~Matched(rules[i], c)
        /\ i' = i + 1
        /\ UNCHANGED <<rules, c, guard, decision, needsToken>>

(* The guard skips the rule and the loop goes on: a later deny applies.    *)
PassGuarded ==
  /\ decision = "pending" /\ i <= Len(rules)
  /\ Matched(rules[i], c) /\ Guarded(rules[i], c)
  /\ i' = i + 1 /\ guard' = i
  /\ UNCHANGED <<rules, c, decision, needsToken>>

(* Mutant: the guard is not consulted. *)
DecideUnguarded ==
  /\ decision = "pending" /\ i <= Len(rules)
  /\ Matched(rules[i], c)
  /\ decision' = rules[i].decision
  /\ needsToken' = (\/ rules[i].decision = "require_human"
                    \/ rules[i].decision = "auto_approve" /\ NeedsByDefault(c))
  /\ UNCHANGED <<rules, c, i, guard>>

Decide ==
  /\ decision = "pending" /\ i <= Len(rules)
  /\ Matched(rules[i], c) /\ ~Guarded(rules[i], c)
  /\ decision' = rules[i].decision
  /\ needsToken' = (\/ rules[i].decision = "require_human"
                    \/ rules[i].decision = "auto_approve" /\ NeedsByDefault(c))
  /\ UNCHANGED <<rules, c, i, guard>>

Default ==
  /\ decision = "pending" /\ i > Len(rules)
  /\ decision' = IF NeedsByDefault(c) THEN "require_human" ELSE "allow"
  /\ needsToken' = NeedsByDefault(c)
  /\ UNCHANGED <<rules, c, i, guard>>

Next == Pass \/ PassGuarded \/ Decide \/ Default
Spec == Init /\ [][Next]_vars

-----------------------------------------------------------------------------
(* The loop's verdict is that of the first rule that matches and is not    *)
(* passed over, or of the risk level's default.                            *)
DecidesAsDefined ==
  decision # "pending" =>
    /\ decision = Evaluate(rules, c)
    /\ needsToken = NeedsToken(rules, c)

(* d is a call like x whose arguments could all be compared.               *)
ClearerThan(x) ==
  {d \in Calls :
     /\ Risk[d] = Risk[x]
     /\ \A k \in DOMAIN rules :
          /\ d \in rules[k].scope <=> x \in rules[k].scope
          /\ \A a \in rules[k].args : /\ Outcome[a][x] \in {"unclear", Outcome[a][d]}
                                      /\ Outcome[a][d] # "unclear"}

(* An argument that could not be compared never waives the person that a   *)
(* comparable one would have needed.                                       *)
UncertaintyNeverWaivesAPerson ==
  decision \in {"allow", "auto_approve"} =>
    \A d \in ClearerThan(c) : Evaluate(rules, d) \in {"allow", "auto_approve"}
=============================================================================
