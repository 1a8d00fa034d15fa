\* The dispute's refund alone: safety, every attempt ends, and every call.
SPECIFICATION FairSpec
CONSTANTS
  r1 = r1  r2 = r2  h1 = h1  h2 = h2  Sweeper = Sweeper  NoRefund = NoRefund
  Refunds <- MCOneRefund
  DisputeRefunds <- MCDispute
  Asked <- MCOneAsked
  Amount = 2
  Threshold = 2
  Handlers <- MCHandlers
  MaxTries = 2
  MaxFaults = 1
CONSTRAINT FewAtOnce
INVARIANTS
  QueuedRequestMovesNothing
PROPERTIES
  SettledIsFinal
  EveryAttemptEnds
  EveryCallEnds
CHECK_DEADLOCK FALSE
