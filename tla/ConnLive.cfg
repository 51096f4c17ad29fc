SPECIFICATION FairSpec
CONSTANTS
  Transports = {"ws"}
  u1 = u1
  u2 = u2
  Users = {u1, u2}
  UserOp <- WatchAndAny
  MaxConns = 1
  MaxLosses = 1
  MayCancel = TRUE
CHECK_DEADLOCK FALSE
INVARIANT DeliberateClose
PROPERTIES LostReleased CancelCloses WaitReturns
