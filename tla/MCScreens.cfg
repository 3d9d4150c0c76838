\* Two decks, two sizes, two syncs; "discover" stands for the tabs.
SPECIFICATION Spec
CONSTANTS
  Deck = {d1, d2}
  NoDeck = NoDeck
  Tab = {"discover"}
  Size = {1, 2}
  DefaultSize = 3
  SyncJob = {j1, j2}
INVARIANTS
  ShownWithAccess
  SessionWasSetUp
PROPERTY
  RefreshEnds
