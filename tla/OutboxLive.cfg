\* Liveness of the job event outbox: one worker that may crash, no symmetry.
SPECIFICATION LiveSpec
CONSTANTS
  w1 = w1  w2 = w2  t1 = t1  t2 = t2  t3 = t3  t4 = t4  t5 = t5
  Workers = {w1}
  Tokens = {t1,t2,t3}
  NoToken = NoToken
  MaxAttempts = 2
  MaxRevision = 2
PROPERTIES
  EveryEditSettles
CHECK_DEADLOCK FALSE
