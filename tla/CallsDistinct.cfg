SPECIFICATION FairSpec
CONSTANTS
  c1 = c1
  c2 = c2
  c3 = c3
  push = push
  NoCall = NoCall
  IdValues <- Values
  Calls <- TwoCalls
  ReqId <- DistinctReqIds
  Uuid <- Uuids
  Follows <- NobodyFollows
  SendCap = 1
  MaxConns = 2
  MaxLosses = 2
  Pushes <- OnePush
  HasMessageHandler = TRUE
CHECK_DEADLOCK FALSE
INVARIANTS OwnAnswer LateRepliesOnly
PROPERTIES ImplementsRpcCalls 
