CONSTANTS
  Instance = {p1, p2}
  Nobody = nobody
  Restarts = 2
SPECIFICATION AppSpec
INVARIANTS OneUser WholeUnlessCut
PROPERTIES UserStays ComesUpOrEnds
CHECK_DEADLOCK FALSE
