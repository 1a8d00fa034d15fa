\* Safety of the in-house rail, all interleavings.
SPECIFICATION Spec
CONSTANTS
  r1 = r1  r2 = r2  w1 = w1  w2 = w2  t1 = t1  t2 = t2  t3 = t3
  d1 = d1  a1 = a1  a2 = a2
  Requests <- MCRequests
  Amount <- MCAmount
  OpeningBalance = 3
  Movements <- MCMovements
  MaxBalance = 4
  Destinations <- MCDestinations
  DestOf <- MCDestOf
  Workers <- MCWorkers
  Tokens <- MCTokens
  NoToken = NoToken
  MaxSubmitAttempts = 1
  Admins <- MCAdmins
  NoAdmin = NoAdmin
SYMMETRY Symmetry
INVARIANTS
  TypeOK
  ReserveBacked
  OpenIffReserved
  PaidIffPosted
  InstructionMatchesRequest
  TwoPersonRule
  CoolingOffRespected
PROPERTIES
  PromiseKept
