\* The calls the ViewModel makes: two threads on one context.
SPECIFICATION Spec
CONSTANTS
  InitCall = {i1, i2, i3}
  ListenCall = {l1, l2, l3}
  None = None
INVARIANT
  OneThreadPerContext
CHECK_DEADLOCK FALSE
