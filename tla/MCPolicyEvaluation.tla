------------------------- MODULE MCPolicyEvaluation -------------------------
(* Calls of six tools with one argument (small, large, a string, or none), *)
(* under every list of at most MaxRules rules on it.                       *)
EXTENDS GovernedCalls, TLC

CONSTANT MaxRules

MCConfig == [
  verbs |-> [read |-> {"get", "find"}, write |-> {"set"}, destructive |-> {"drop"}],
  unknown_default |-> "write",
  overrides |-> (<<"any", "purge_old">> :> "write") @@ (<<"shop", "purge_old">> :> "read") ]
Named(name, words, scenario, method) ==
  [name |-> name, words |-> words, scenario |-> scenario, method |-> method]
(* A plain read and write; a route that deletes under a harmless name; a   *)
(* harmless route with a destructive verb; two tools a person classified.  *)
MCTool == [
  get   |-> Named("get_item", {"get", "item"}, "shop", "GET"),
  sync  |-> Named("sync", {"sync"}, "shop", "none"),
  leave |-> Named("find_exit", {"find", "exit"}, "shop", "DELETE"),
  drop  |-> Named("get_drop", {"get", "drop"}, "shop", "POST"),
  purge |-> Named("purge_old", {"purge", "drop"}, "shop", "DELETE"),
  clean |-> Named("purge_old", {"purge", "drop"}, "bank", "DELETE") ]

Number(n) == [kind |-> "number", val |-> n]
Text(n)   == [kind |-> "str", val |-> n]
Missing   == [kind |-> "missing", val |-> 0]

MCArg == [one |-> Number(1), nine |-> Number(9), text |-> Text(0), none |-> Missing]
MCCalls == (DOMAIN MCTool) \X (DOMAIN MCArg)
MCToolOf == [x \in MCCalls |-> MCTool[x[1]]]
MCRisk == [x \in MCCalls |-> Classify(MCToolOf[x], MCConfig)]
MCCondition == [
  small |-> <<[op |-> "lte", bound |-> 2]>>,
  large |-> <<[op |-> "gt", bound |-> 5], [op |-> "not_in", items |-> {Number(7)}]>>,
  listed |-> <<[op |-> "in", items |-> {Text(0), Number(9)}]>> ]
MCConditions == DOMAIN MCCondition
MCOutcome == [q \in MCConditions |-> [x \in MCCalls |-> Test(MCCondition[q], MCArg[x[2]])]]

MCWrites == {x \in MCCalls : MCRisk[x] = "write"}
MCRules == [scope : {MCCalls}, args : {{}} \cup {{q} : q \in MCConditions}, decision : RuleDecision]
           \cup [scope : {MCWrites}, args : {{}}, decision : RuleDecision]
MCRuleLists == UNION {[1..n -> MCRules] : n \in 0..MaxRules}
=============================================================================
