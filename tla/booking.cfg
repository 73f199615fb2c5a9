\* Two workers on one conversation; two demos that compete for one tutor.
SPECIFICATION BookingSpec
CONSTANTS
  m1 = m1
  m2 = m2
  m3 = m3
  m4 = m4
  m5 = m5
  t1 = t1
  t2 = t2
  w1 = w1
  w2 = w2
  Messages = {m1, m2, m3, m4, m5}
  Text <- MCText
  Tutors = {t1, t2}
  Limit = 2
  Website = TRUE
  Workers = {w1, w2}
  NoMessage = NoMessage
  MaxAttempts = 2
  d1 = d1
  d2 = d2
  Demos = {d1, d2}
  Starts <- MCStarts
  Availability <- MCAvailability
  Duration = 2
  BufferBefore = 1
  BufferAfter = 0
  HoldTtl = 2
  ConfirmationTtl = 1
  MinimumLeadTime = 1
  MaximumOptions = 2
  RequiredConfirmations = {"tutor"}
  MaxTime = 2
  MaxHolds = 1
  MaxRuns = 2
SYMMETRY BookingSymmetry
INVARIANTS TypeOK SerialTurnsAgree SchedulingTypeOK SlotsApart LinksExplained
PROPERTIES CaseCreatedOnce FreshTurnRepairs ExpiredForGood
\* A conversation nobody continues, or a demo that is scheduled or given up.
CHECK_DEADLOCK FALSE
