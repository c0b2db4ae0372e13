SPECIFICATION Spec
CONSTANTS
  callA = callA
  callB = callB
  errX = errX
  errY = errY
  opus = opus
  NoText = NoText
  NoModel = NoModel
  Unstamped = Unstamped
  Call = {callA, callB}
  ErrorText = {errX, errY, NoText}
  Event <- Log
  ContextWindow <- Windows
  FallbackContextWindow = 20
  RepeatedCalls = 2
  ErrorEcho = 2
  StallMinutes = 2
  CostVelocityPerMin = 1
  ContextFillPercent = 85
  WindowSize = 3
  VelocitySpan = 2
  Start = 10
  MaxEvents = 6
INVARIANTS TypeOK VelocityIsMeasured
PROPERTIES ToolWindow ErrorWindow
CHECK_DEADLOCK FALSE
