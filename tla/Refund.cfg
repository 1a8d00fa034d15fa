\* A large refund of a dispute next to a request for all that is left.
SPECIFICATION Spec
CONSTANTS
  r1 = r1  r2 = r2  h1 = h1  h2 = h2  Sweeper = Sweeper  NoRefund = NoRefund
  Refunds <- MCRefunds
  DisputeRefunds <- MCDispute
  Asked <- MCMixedAsked
  Amount = 3
  Threshold = 2
  Handlers <- MCOneHandler
  MaxTries = 1
  MaxFaults = 1
CONSTRAINT OrphanAlone
INVARIANTS
  StatusIsExplained
  LedgerMatchesAttempts
  RefundedIsExplained
PROPERTIES
  PromiseKept
CHECK_DEADLOCK FALSE
