\* Safety of the job event outbox, two workers.
SPECIFICATION Spec
CONSTANTS
  w1 = w1  w2 = w2  t1 = t1  t2 = t2  t3 = t3  t4 = t4  t5 = t5
  Workers <- MCWorkers
  Tokens <- MCTokens
  NoToken = NoToken
  MaxAttempts = 3
  MaxRevision = 2
SYMMETRY Symmetry
INVARIANTS
  NoEditForgotten
  SentIsAnnounced
CHECK_DEADLOCK FALSE
