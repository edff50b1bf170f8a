SPECIFICATION Spec
CONSTANTS
  ROUTES = 1
  CANCEL_RETRIES = 1
  MAX_GENERATION = 1
INVARIANT HungUpIsPursued
CHECK_DEADLOCK FALSE
