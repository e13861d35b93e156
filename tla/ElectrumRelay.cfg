CONSTANTS
  Requests = {r1, r2, r3}
  Batches = {r2}
  Broadcasts = {r3}
  Servers = {v1, v2}
  Slots = 2
  Batch = 2
  None = None
  r1 = r1
  r2 = r2
  r3 = r3
  v1 = v1
  v2 = v2
SPECIFICATION Spec
INVARIANTS SlotsCounted AnswersAreItsOwn BroadcastOnce
PROPERTIES RequestsEnd
CHECK_DEADLOCK FALSE
