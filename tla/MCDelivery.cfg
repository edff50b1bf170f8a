CONSTANTS
  Call = {c1, c2}
  Thread = {app, poll}
  dispatcher = dispatcher
  None = None
  OPERATIONS = 5
SPECIFICATION Spec
INVARIANT Consistent
PROPERTY EverythingDelivered
CHECK_DEADLOCK FALSE
