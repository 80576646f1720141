\* Every operation: two environments compete for one slot and two ports.
SPECIFICATION Spec
CONSTANTS
  None = None
  supervisor = supervisor
  client = client
  e1 = e1
  e2 = e2
  e3 = e3
  Handles = {e1, e2}
  Sids = {e1, e2}
  SidOf <- Distinct
  Ports = {8101, 8102}
  MaxEnvs = 1
  Stoppers = {supervisor, client}
  Jobs <- AllJobs
  Checkers = {c1}
  MaxChecks = 1
  MayFail = {"build", "launch", "meta", "cancel"}
INVARIANTS LiveIsListed NothingLeaks
CHECK_DEADLOCK FALSE
