SPECIFICATION Spec
CONSTANTS
  s1 = s1
  s2 = s2
  c1 = c1
  c2 = c2
  project = project
  storage = storage
  NoSession = NoSession
  NoDir = NoDir
  Session = {s1}
  Client = {c1, c2}
  Dir = {project}
  FoundDir <- InProject
  AutoDir <- InProject
  Writable = {project}
  SentinelFallback = FALSE
  AlertCap = 1
  MaxInc = 2
  Environment = {"late_start", "agent_exit", "daemon_stop", "resume", "kill"}
SYMMETRY SymmetricRequests
INVARIANTS TypeOK PausesOnlyUnpaused PausedIsKnown
 
VIEW WithoutHistory
CHECK_DEADLOCK FALSE
