SPECIFICATION CarefulSpec
CONSTANTS
  s1 = s1
  s2 = s2
  s3 = s3
  s4 = s4
  A = A
  B = B
  Unknown = Unknown
  scope = scope
  mark = mark
  timer = timer
  log = log
  limit = limit
  NoScope = NoScope
  NoTask = NoTask
  None = None
  CmdTypes <- MCTypes
  HandlerMetas = {A, B}
  Scopes = {scope}
  Sends <- MCSends4
  TypeOf <- MCTypeOf4
  ScopeArg <- MCOneScope
  MethodMetas = {A}
  PreGuards = {timer}
  PostGuards = {log}
  ClassGuards = {limit}
  GlobalGuards <- MCGlobalPost
  GuardMapping <- MCApartGuards
PROPERTIES
  Pipelined
