--------------------------- MODULE GovernedCalls ---------------------------
(***************************************************************************)
(* The policy over calls of tools whose risk level the gateway computes    *)
(* itself, from what it knows of the tool (policy.py: classify, when a     *)
(* session is registered; then ApprovalPolicy.evaluate at each call).      *)
(***************************************************************************)
EXTENDS PolicyEvaluation, ToolRisk

CONSTANTS ToolOf,      \* [Calls -> tools]: the tool a call names
          Config       \* tool_policy.yaml

ASSUME CallsAreClassified ==
  /\ Risk = [x \in Calls |-> Classify(ToolOf[x], Config)]
  /\ Config.unknown_default \in RiskLevels

HasVerb(tool, level) == tool.words \cap Config.verbs[level] # {}

(* What runs without a person is, unless a person set its risk level, no   *)
(* route that deletes and no tool with a destructive verb, however         *)
(* harmless its other words, and whatever the rules say; and without any   *)
(* approval not even a route or a verb that writes (policy.py: "raised to  *)
(* the HTTP-method floor", with the guard of approval_policy.py).          *)
UnattendedIsMild ==
  LET tool == ToolOf[c]
  IN Overriding(tool, Config) = {} =>
       /\ decision \in {"allow", "auto_approve"} =>
            tool.method # "DELETE" /\ ~HasVerb(tool, "destructive")
       /\ decision \in {"allow", "auto_approve"} /\ ~needsToken =>
            tool.method \notin DOMAIN MethodFloor /\ ~HasVerb(tool, "write")
=============================================================================
