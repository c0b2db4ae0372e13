SPECIFICATION Spec
CONSTANTS
  p1 = p1
  p2 = p2
  w1 = w1
  NoBatch = NoBatch
  Path = {p1, p2}
  WatchLoop = {w1}
  HomeOf <- OneLoop
  Housekeeper = {"reaper"}
  EventCap = 2
  AlertCap = 1
  MaxBatch = 1
  MaxTrips = 3
  Modes = {"foreground"}
PROPERTIES StopsWhenTold
CHECK_DEADLOCK FALSE
