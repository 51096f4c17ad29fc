SPECIFICATION FairSpec
CONSTANTS
  s1 = s1
  s2 = s2
  c1 = c1
  c2 = c2
  c3 = c3
  c4 = c4
  NoSession = NoSession
  Hole = Hole
  Calls = {c1, c2, c3, c4}
  Sessions = {s1, s2}
  Configs <- Scenarios
  SendCap = 1
CHECK_DEADLOCK FALSE
INVARIANTS Notified ListedElsewhen RaceNeedsPop CloseUnsubscribes
PROPERTIES CallEnds
