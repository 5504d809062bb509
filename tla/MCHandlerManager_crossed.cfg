SPECIFICATION Spec
CONSTANTS
  s1 = s1
  s2 = s2
  s3 = s3
  s4 = s4
  A = A
  B = B
  Unknown = Unknown
  scope = scope
  mark = mark
  timer = timer
  log = log
  limit = limit
  NoScope = NoScope
  NoTask = NoTask
  None = None
  CmdTypes <- MCTypes
  HandlerMetas = {A, B}
  Scopes = {scope}
  Sends <- MCSends2
  TypeOf <- MCTypeOf2
  ScopeArg <- MCOwnScopes
  MethodMetas = {}
  PreGuards = {mark}
  PostGuards = {}
  ClassGuards = {}
  GlobalGuards <- MCGlobalPre
  GuardMapping <- MCUnguarded
INVARIANTS
  HandledByItsType
