\* Every list of up to three of fifteen rules, every one of 24 calls.
SPECIFICATION Spec
CONSTANTS
  Calls <- MCCalls
  Risk <- MCRisk
  ToolOf <- MCToolOf
  Config <- MCConfig
  Conditions <- MCConditions
  Outcome <- MCOutcome
  RequireApproval = {}
  RuleLists <- MCRuleLists
  MaxRules = 3
INVARIANTS DecidesAsDefined UncertaintyNeverWaivesAPerson UnattendedIsMild
CHECK_DEADLOCK FALSE
