SPECIFICATION Spec
CONSTANTS
  c1 = c1
  c2 = c2
  c3 = c3
  r1 = r1
  r2 = r2
  l1 = l1
  milk = milk
  bread = bread
  old = old
  new = new
  newer = newer
  None = None
  title_field = title_field
  content_field = content_field
  entity_id = entity_id
  event_id = event_id
  timestamp = timestamp
  EventClasses = {"TodoCreated", "TodoRetitled"}
  BaseFields = {entity_id, event_id, timestamp}
  Fields <- MCFieldsPydantic
  Requests = {c1, c2, c3, r1, r2, l1}
  Kind <- MCKind
  Todos = {milk, bread}
  TodoOf <- MCTodoOf
  Titles = {old, new, newer}
  TitleOf <- MCTitleOf
  MaxFaults = 0
INVARIANTS
  TodosListed
CHECK_DEADLOCK FALSE
