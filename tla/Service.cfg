SPECIFICATION Spec
CONSTANTS
  top = top
  left = left
  m = m
  r1 = r1
  r2 = r2
  jwt = jwt
  key = key
  Nobody = Nobody
  NoRequest = NoRequest
  Actors = {top, left}
  Root = top
  Methods = {m}
  Registrations <- MayRegister
  Links <- MayLink
  MissingAt = {top}
  CloseAt = {}
  Requests = {r1, r2}
  Inputs <- Traffic
  Insecure = FALSE
  Tokens = {jwt, key}
  Claims <- ClaimsOf
  AuthConfigs <- Configurations
  Outcomes <- MayHappen
  Codes = {"200", "aborted"}
  Bodies = {"none", "method not found"}
  CacheCap = 1
  MaxTime = 2
CHECK_DEADLOCK FALSE
INVARIANTS EntitledOnly  PanicsOnlyWithCallback
