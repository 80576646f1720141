\* Two turns of one thread, four steps each, two reads and an approved write.
SPECIFICATION FairSpec
CONSTANTS
  None = None
  read = read
  look = look
  write = write
  Calls = {read, look, write}
  NeedsPerson <- MCNeedsPerson
  MaxSteps = 4
  RepeatThreshold = 3
  NoChangeThreshold = 2
  TokenBudget = 8
  PlanRetries = 1
  MaxTurns = 2
  MaxCrashes = 1
INVARIANTS InvocationsAreShort CallsArePaced PersonApproves ContextIsWhole TurnsAnswer
PROPERTIES TurnsEnd
CHECK_DEADLOCK FALSE
