SPECIFICATION Spec
CONSTANTS
  p1 = p1
  p2 = p2
  w1 = w1
  NoBatch = NoBatch
  Path = {p1, p2}
  WatchLoop = {w1}
  HomeOf <- OneLoop
  Housekeeper = {"reaper"}
  EventCap = 1
  AlertCap = 1
  MaxBatch = 1
  MaxTrips = 1
  Modes = {"foreground", "service"}
INVARIANTS TypeOK EveryBatchInOnePlace NoPauseAlertLost AnalyzerOutlivesHandler
PROPERTIES LinesAreProcessed PauseIsExecuted OnlyFullChannelHangs
CHECK_DEADLOCK FALSE
