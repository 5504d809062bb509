SPECIFICATION Spec
CONSTANTS
  e1 = e1
  e2 = e2
  e3 = e3
  e4 = e4
  todo1 = todo1
  todo2 = todo2
  Created = Created
  Retitled = Retitled
  Renamed = Renamed
  title = title
  entity_id = entity_id
  event_id = event_id
  timestamp = timestamp
  None = None
  Events = {e4}
  Entities = {todo1, todo2}
  EntityOf <- MCEntityOf
  EventClasses = {Created, Retitled, Renamed}
  ClassOf <- MCClassOf
  StoredId <- MCStoredId
  TypeId <- MCTypeId
  Version <- MCVersion
  Imported = {Created, Renamed}
  Fields <- MCFields
  BaseFields = {entity_id, event_id, timestamp}
  MaxTries <- MCTries
  MaxRestarts = 1
PROPERTIES
  StreamIsOfVersion
CHECK_DEADLOCK FALSE
