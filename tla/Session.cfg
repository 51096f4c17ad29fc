SPECIFICATION FairSpec
CONSTANTS
  m1 = m1
  m2 = m2
  m3 = m3
  Messages = {m1, m2, m3}
  Configs <- AllConfigs
  SendCap = 1
  DoneCap = 1
CHECK_DEADLOCK FALSE
INVARIANTS TypeOK WrittenOnce InOrderInline ClosedForAReason
PROPERTIES CloseHandledUnlessStuck AnsweredOrClosed
