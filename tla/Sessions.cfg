\* Two sessions, three messages or decisions, every fault of a remote manager.
SPECIFICATION FairSpec
CONSTANTS
  None = None
  s1 = s1
  s2 = s2
  r1 = r1
  r2 = r2
  r3 = r3
  Sids = {s1, s2}
  Requests = {r1, r2, r3}
  MaxSessions = 1
  MaxCards = 2
  Faults = {"start", "stop", "touch"}
INVARIANTS OneTurn BusyIsHeld 
PROPERTIES CardsNeedDecisions BusyEnds
CHECK_DEADLOCK FALSE
