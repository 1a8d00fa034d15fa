\* A price reduced before the server knows that the card is authorized.
SPECIFICATION ChargesSpec
CONSTANTS
  MaxHolds = 3
  MaxPrice = 2
  MaxIntents = 3
  AgreedPrices <- MCHighPrice
  MaxTurns = 1
  MaxFaults = 0
INVARIANTS
  ReauthorizedForNewPrice
CHECK_DEADLOCK FALSE
