\* Two sessions that may overlap, on the two sample cards.
SPECIFICATION SpecReady
CONSTANTS
  Session = {s1, s2}
  InitJob = {j1}
  BootJob = j1
  d1 = d1
  NoDeck = NoDeck
  n1 = n1
  m1 = m1
  m2 = m2
  NoNote = NoNote
  Deck = {d1}
  Note <- MCNote
  Cards <- EmptyDeckCards
  Sample <- MCSample
  SessionSize = {2}
  DefaultSize = 2
  Heard = {}
INVARIANTS
  NoteHeld
  OneLateGrade
PROPERTIES
  GradesTheNoteAsked
  SessionEnds
CHECK_DEADLOCK FALSE
