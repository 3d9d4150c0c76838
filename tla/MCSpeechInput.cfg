\* One session: two listen calls, one after the other; two initialisations, one release.
SPECIFICATION SpecOneSession
CONSTANTS
  InitCall = {i1, i2}
  ListenCall = {l1, l2}
  None = None
  MaxChunk = 2
INVARIANTS
  HearsOnlyItself
  MicrophoneFree
  NoUseAfterFree
  NothingLeaked
PROPERTY
  ListenEnds
CHECK_DEADLOCK FALSE
