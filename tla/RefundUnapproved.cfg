\* The job against refunds that wait for an approval.
SPECIFICATION Spec
CONSTANTS
  r1 = r1  r2 = r2  h1 = h1  h2 = h2  Sweeper = Sweeper  NoRefund = NoRefund
  Refunds <- MCRefunds
  DisputeRefunds <- MCDispute
  Asked <- MCDisputeAsked
  Amount = 2
  Threshold = 2
  Handlers <- MCHandlers
  MaxTries = 1
  MaxFaults = 1
PROPERTIES
  UnapprovedMovesNothing
CHECK_DEADLOCK FALSE
