SPECIFICATION AnywiseSpec
CONSTANTS
  AnyType = AnyType
  MISSING = MISSING
  Create = Create
  Created = Created
  users = users
  plugin = plugin
  Service = Service
  on_create = on_create
  on_created = on_created
  trace = trace
  s1 = s1
  p1 = p1
  Types <- MCTypes
  Bases <- MCBases
  FirstTypes <- MCTypes
  Registries = {users, plugin}
  CommandBase <- MCCommandBase
  EventBase <- MCEventBase
  Registees = {Service, on_create, on_created}
  Classes = {Service}
  Signatures <- MCSignatures
  Guards = {trace}
  Instances = {}
  GuardTarget <- MCGuardTarget
  RegisterCalls <- MCRegisterCalls
  GuardCalls <- MCGuardCalls
  MaxCalls = 4
  Sends = {s1}
  Publishes = {p1}
  MessageType <- MCMessageType
INVARIANTS
  MessagesOK
  GuardsOfOneMoment
  ToldIsKept
CHECK_DEADLOCK FALSE
