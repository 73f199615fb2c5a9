\* Optimistic versions do not serialize two workers.
SPECIFICATION Spec
CONSTANTS
  m1 = m1
  m2 = m2
  m3 = m3
  m4 = m4
  m5 = m5
  t1 = t1
  t2 = t2
  w1 = w1
  w2 = w2
  Messages = {m1, m2, m3, m5}
  Text <- MCText
  Tutors = {t1, t2}
  Limit = 2
  Website = TRUE
  Workers = {w1, w2}
  NoMessage = NoMessage
  MaxAttempts = 2
INVARIANT TurnsSerialized
CHECK_DEADLOCK FALSE
