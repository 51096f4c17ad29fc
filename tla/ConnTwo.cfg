SPECIFICATION Spec
CONSTANTS
  Transports = {"ws", "h2"}
  u1 = u1
  u2 = u2
  Users = {u1, u2}
  UserOp <- AllSend
  MaxConns = 2
  MaxLosses = 1
  MayCancel = FALSE
CHECK_DEADLOCK FALSE
VIEW LiveView
SYMMETRY SameUsers
INVARIANTS TypeOK WrittenOnce StrayLoopCanceled DecoderKept
PROPERTY DialOnlyWhenDown
