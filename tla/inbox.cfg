\* Two workers, two events with one key, crashes, redeliveries and replays.
SPECIFICATION FairSpec
CONSTANTS
  e1 = e1
  e2 = e2
  w1 = w1
  w2 = w2
  Events = {e1, e2}
  Key <- MCKey
  Keyed = {e1}
  Pausable = {e2}
  Workers = {w1, w2}
  NoWorker = NoWorker
  NoEvent = NoEvent
  MaxAttempts = 3
  MaxReplays = 2
INVARIANTS EffectsMatch IngressSound
PROPERTY EventSettles
CHECK_DEADLOCK FALSE
