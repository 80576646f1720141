\* Two episodes, one or both at a time, in two commands.
SPECIFICATION FairSpec
CONSTANTS
  Episodes = {1, 2}
  Concurrencies = {1, 2}
  RetryPasses = 2
  MaxCommands = 2
  MaxSignals = 2
  MaxCrashes = 1
  TasksOf <- MCTasksOf
INVARIANTS ResultsAreComplete NoEnvLeft
PROPERTIES FinishedStay OwnOutcome CommandsEnd 
CHECK_DEADLOCK FALSE
