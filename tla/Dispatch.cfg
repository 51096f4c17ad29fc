SPECIFICATION ExchangeSpec
CONSTANTS
  top = top
  left = left
  right = right
  deep = deep
  Nobody = Nobody
  Actors = {top, left, right, deep}
  Root = top
  Methods = {"m", "n"}
  Registrations <- MayRegister
  Links <- MayLink
  MissingAt = {top, left}
  Asked <- AllAsked
  Unions <- AllUnions
  Others <- AllOthers
  Signatures <- AllSignatures
  CloseAt = {top, left, deep}
CHECK_DEADLOCK FALSE
INVARIANTS ArrivesAsMeant AnswerFits SentOnUnchanged HandledByFirst SchemaGuards ClosedEverywhere
