\* Two sessions one after the other, beside start-up, a retry and configurations.
SPECIFICATION SpecOneAtATime
CONSTANTS
  Session = {s1, s2}
  Watched = s2
  InitJob = {j1, j2}
  BootJob = j1
  d1 = d1
  NoDeck = NoDeck
  n1 = n1
  n2 = n2
  NoNote = NoNote
  Deck = {d1}
  Note <- MCNote
  Cards <- MCCards
  Sample <- MCSample
  SessionSize = {1}
  DefaultSize = 2
  Heard = {}
INVARIANTS
  TypeOK
  InOrder
  FinishedMeansDone
  NoIndexFault
PROPERTIES
  ImplementsReviewSession
CHECK_DEADLOCK FALSE
