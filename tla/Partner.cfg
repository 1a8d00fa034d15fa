\* External partner that may be switched off and on; two requests can be open
\* once the helper has earned more.
SPECIFICATION SteadySpec
CONSTANTS
  r1 = r1  r2 = r2  w1 = w1  w2 = w2  t1 = t1  t2 = t2  t3 = t3
  d1 = d1
  Requests <- MCRequests
  Amount <- MCAmount
  OpeningBalance = 3
  Movements <- MCMovements
  MaxBalance = 4
  Destinations <- MCDestinations
  DestOf <- MCDestOf
  Workers <- MCWorkers
  Tokens <- MCTokens
  NoToken = NoToken
  MaxSubmitAttempts = 1
SYMMETRY Symmetry
CONSTRAINT Usable
INVARIANTS
  SettledAsPartnerSays
  SteadyNoMoneyBack
PROPERTIES
  PromiseKept
