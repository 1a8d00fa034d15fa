\* Liveness of the queue: no symmetry, one request, two processes.
SPECIFICATION LiveSpec
CONSTANTS
  r1 = r1  r2 = r2  w1 = w1  w2 = w2  t1 = t1  t2 = t2  t3 = t3
  d1 = d1  a1 = a1  a2 = a2
  Requests = {r1}
  Amount <- MCAmount
  OpeningBalance = 2
  Movements = {}
  MaxBalance = 2
  Destinations <- MCDestinations
  DestOf <- MCDestOf
  Workers <- MCWorkers
  Tokens = {t1, t2, t3}
  NoToken = NoToken
  MaxSubmitAttempts = 2
  Admins <- MCAdmins
  NoAdmin = NoAdmin
PROPERTIES
  QueueDrains
