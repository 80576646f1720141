\* Two previews, one at a time, while a second environment starts or fails.
SPECIFICATION PreviewsSpec
CONSTANTS
  None = None
  e1 = e1
  e2 = e2
  v1 = v1
  v2 = v2
  Handles = {e1, e2}
  Sids = {e1, e2}
  SidOf <- Distinct
  Ports = {8101, 8102}
  MaxEnvs = 1
  Stoppers = {}
  Jobs <- NoJobs
  Checkers = {}
  MaxChecks = 0
  MayFail = {}
  Shadows = {v1, v2}
  MaxPreviews = 1
  Causes = {"timeout", "cancel"}
  Troubles = {"copy", "launch", "call"}
  Tables = {"cart"}
  Keys = {1, 2}
  Columns = {"qty", "at"}
  Values = {0, 1}
  MaxRows = 1
SYMMETRY Symmetry
INVARIANTS CallsStayInShadow LeasesAreOwned 
PROPERTIES ListedChangesAreSound
CHECK_DEADLOCK FALSE
