\* One preview, whose timeout may arrive in a health request.
SPECIFICATION PreviewsFair
CONSTANTS
  None = None
  e1 = e1
  e2 = e2
  v1 = v1
  v2 = v2
  Handles = {e1}
  Sids = {e1}
  SidOf <- Distinct
  Ports = {8101, 8102}
  MaxEnvs = 1
  Stoppers = {}
  Jobs <- NoJobs
  Checkers = {}
  MaxChecks = 0
  MayFail = {}
  Shadows = {v1}
  MaxPreviews = 1
  Causes = {"timeout"}
  Troubles = {"copy", "launch", "call"}
  Tables = {"cart"}
  Keys = {1, 2}
  Columns = {"qty", "at"}
  Values = {0, 1}
  MaxRows = 1
PROPERTY PreviewsEnd
CHECK_DEADLOCK FALSE
