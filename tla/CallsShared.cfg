SPECIFICATION FairSpec
CONSTANTS
  c1 = c1
  c2 = c2
  c3 = c3
  push = push
  NoCall = NoCall
  IdValues <- Values
  Calls <- ThreeCalls
  ReqId <- SharedReqIds
  Uuid <- Uuids
  Follows <- NobodyFollows
  SendCap = 1
  MaxConns = 1
  MaxLosses = 1
  Pushes = {}
  HasMessageHandler = TRUE
CHECK_DEADLOCK FALSE
INVARIANTS AtMostOneResult AnswerMatchesWireId
PROPERTY CallReturnsUnlessStuck
