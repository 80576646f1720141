\* Three steps, the first two with a request; three commands under changing limits.
SPECIFICATION FairSpec
CONSTANTS
  None = None
  q1 = q1
  q2 = q2
  Reqs = {q1, q2}
  Keys = {q1, q2}
  Key <- OwnKey
  Tries = 2
  MaxFaults = 1
  N = 3
  StepOf <- OneEach
  Appending = {2}
  Budgets = {None, 1}
  Limits = {0, 1}
  MaxCommands = 3
INVARIANTS SoundCommand  PaidOnce
PROPERTIES CommandsEnd 
CHECK_DEADLOCK FALSE
