CONSTANTS
  Prices = {1, 2, 3}
  MaxLevels = 6
SPECIFICATION Spec
INVARIANTS TypeOK RootIsLowest
PROPERTIES TracksBest
CHECK_DEADLOCK FALSE
