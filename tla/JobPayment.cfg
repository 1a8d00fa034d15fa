\* One job whose price, rail and status change while money is held for it.
SPECIFICATION ChargesSpec
CONSTANTS
  MaxHolds = 3
  MaxPrice = 2
  MaxIntents = 3
  AgreedPrices <- MCAgreedPrices
  MaxTurns = 2
  MaxFaults = 1
CONSTRAINT FewTurns
INVARIANTS
  ChargedOnce
  HoldHasItsRow
  ReservedIsTheHold
  HeldRowIffCreditRail
  CapturedIsTaken
  
  IncreaseIsFlagged
  NoForgottenAuthorization
PROPERTIES
  CapturedIsFinal
CHECK_DEADLOCK FALSE
