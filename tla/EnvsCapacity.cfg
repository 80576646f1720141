\* A client and the supervisor stop the same environment.
SPECIFICATION Spec
CONSTANTS
  None = None
  supervisor = supervisor
  client = client
  e1 = e1
  e2 = e2
  e3 = e3
  Handles = {e1, e2, e3}
  Sids = {e1, e2, e3}
  SidOf <- Distinct
  Ports = {8101, 8102, 8103}
  MaxEnvs = 1
  Stoppers = {supervisor, client}
  Jobs <- AllJobs
  Checkers = {}
  MaxChecks = 0
  MayFail = {}
INVARIANT ConcurrencyIsBounded
CHECK_DEADLOCK FALSE
