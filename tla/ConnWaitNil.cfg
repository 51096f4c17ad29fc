SPECIFICATION Spec
CONSTANTS
  Transports = {"ws"}
  u1 = u1
  u2 = u2
  Users = {u1}
  UserOp <- AllWatch
  MaxConns = 1
  MaxLosses = 1
  MayCancel = FALSE
CHECK_DEADLOCK FALSE
INVARIANT WaitReportsLoss
