\* Two initialisations, two sessions of two utterances each, two speeds.
SPECIFICATION Spec
CONSTANTS
  InitCall = {i1, i2}
  Session = {x, y}
  Utterance = {u, v}
  None = None
  Speed = {10, 15}
  Normal = 10
SYMMETRY Symmetry
INVARIANTS
  TracksBounded
  LateUtterances
  ReadySpeaks
  PlaysAtSpeed
CHECK_DEADLOCK FALSE
