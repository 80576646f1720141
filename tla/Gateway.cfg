\* Two concurrent calls, two tokens, one preview record, one change of key;
\* two tokens in a bucket, so that a token can be presented twice in time.
SPECIFICATION Spec
CONSTANTS
  None = None
  Calls <- MCCalls
  Risk <- MCRisk
  Conditions = {}
  Outcome <- MCOutcome
  RequireApproval = {}
  Sessions = {"s"}
  Session <- MCSession
  Allowlists <- MCAllowlists
  Tools = {"t"}
  Tool <- MCTool
  Rows <- MCRows
  Adds <- MCAdds
  Dels <- MCDels
  Rules <- MCRules
  RequirePreview = {"destructive"}
  Requests = {r1, r2}
  Nonces = {n1, n2}
  PreviewIds = {p1}
  PreviewsKept = 1
  TTL = 0
  MaxTime = 1
  Capacity = 2
  Refill = 1
  FixedSecret = FALSE
  MaxKeys = 1
  Answers <- SomeAnswers
INVARIANTS TypeOK SingleUse RunsAsApproved 
PROPERTIES LedgerSpec
SYMMETRY MCSymmetry
