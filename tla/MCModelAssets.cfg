\* Two ViewModels copy the same model; kills and full storage.
SPECIFICATION Spec
CONSTANTS
  Loader = {v1, v2}
  Chunks = 4
  MaxKills = 2
INVARIANT
  SettlesWhole
PROPERTY
  RetryHelps
CHECK_DEADLOCK FALSE
