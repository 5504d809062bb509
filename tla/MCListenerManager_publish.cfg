SPECIFICATION FairSpec
CONSTANTS
  e1 = e1
  e2 = e2
  e3 = e3
  Paid = Paid
  Unheard = Unheard
  mail = mail
  audit = audit
  save = save
  Publishes <- MCPublishes
  EventTypes <- MCEventTypes
  Listeners = {mail, audit, save}
  AsyncListeners = {mail, save}
  MethodListeners = {save}
  TypeOf <- MCTypeOf
  ListenerMetas <- MCListenerMetas
  Publisher <- MCPublisher
INVARIANTS
  TypeOK
  OneAfterAnother
  NoneLeftBehind
  FailureNotLost
PROPERTIES
  Terminates
  Delivers
