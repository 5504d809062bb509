SPECIFICATION Spec
CONSTANTS
  AnyType = AnyType
  MISSING = MISSING
  Command = Command
  Create = Create
  Grant = Grant
  CreateAdmin = CreateAdmin
  Created = Created
  users = users
  audit = audit
  feed = feed
  on_create = on_create
  mixed = mixed
  Service = Service
  check = check
  trace = trace
  obj = obj
  Types <- MCTypes
  Bases <- MCBases
  FirstTypes <- MCFirstTypes
  Registries = {users, audit, feed}
  CommandBase <- MCCommandBase
  EventBase <- MCEventBase
  Registees = {on_create, mixed, Service}
  Classes = {Service}
  Signatures <- MCSignatures
  Guards = {check, trace, obj}
  Instances = {obj}
  GuardTarget <- MCGuardTarget
  RegisterCalls <- MCRegisterCalls
  GuardCalls <- MCGuardCalls
  MaxCalls = 4
INVARIANTS
  TypeOK
  LastHandlerWins
  ListenersInOrder
  GuardsInOrder
  LastIncludeWins
  RaisesForWhatIsLost
CHECK_DEADLOCK FALSE
