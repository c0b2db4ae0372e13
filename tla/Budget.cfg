SPECIFICATION Spec
CONSTANTS
  s1 = s1
  s2 = s2
  NoLimit = NoLimit
  Session = {s1, s2}
  Cost = {1, 2}
  Limits <- SomeLimits
  WarnAt = 75
  Hour = 1
  Day = 2
  MaxTime = 3
  MaxCharges = 4
  MaxReloads = 1
INVARIANTS TypeOK TotalsAgree OverspendPauses 
PROPERTIES OverspendIsSeen
CHECK_DEADLOCK FALSE
