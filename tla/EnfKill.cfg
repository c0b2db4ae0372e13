SPECIFICATION Spec
CONSTANTS
  s1 = s1
  s2 = s2
  c1 = c1
  c2 = c2
  project = project
  storage = storage
  NoSession = NoSession
  NoDir = NoDir
  Session = {s1}
  Client = {c1}
  Dir = {project}
  FoundDir <- InProject
  AutoDir <- InProject
  Writable = {project}
  SentinelFallback = TRUE
  AlertCap = 2
  MaxInc = 1
  Environment = {"kill"}
PROPERTIES KillEnds
CHECK_DEADLOCK FALSE
