\* Two events of one object, two requests at a time: safety and liveness.
SPECIFICATION FairSpec
CONSTANTS
  h1 = h1  h2 = h2
  Events <- MCEvents
  Handlers <- MCHandlers
  MaxFaults = 1
INVARIANTS
  ProcessedIsExplained
  AnsweredIsDone
  RunsAreExplained
  NewestWins
PROPERTIES
  EveryEventSettles
CHECK_DEADLOCK FALSE
