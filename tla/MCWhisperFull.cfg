\* A context of 12 tokens, two decoders at the higher of three temperatures,
\* audio of almost four windows.
SPECIFICATION Spec
CONSTANTS
  TextCtx = 12
  InitLens = {1, 3}
  BestOf = 2
  Temperatures = 3
  Cutoff = 2
  Window = 3
  DeltaMin = 1
  ShortRest = 2
  MaxInitial = 1
  EntropyLen = 1
  Padding = 2
  Lengths = {0, 11}
INVARIANTS
  TypeOK
  PositionsFit
  SlotFound
  SeesOwnHistory
  BestDecodedNow
  ResultInTokens
PROPERTY
  TranscribeReturns
CHECK_DEADLOCK FALSE
