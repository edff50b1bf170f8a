SPECIFICATION Spec
CONSTANTS
  PUSHES = 2
  ACCEPTS = 1
  MAX_WATCHES = 3
  Environments = {{}}
INVARIANT OneEnded
CHECK_DEADLOCK FALSE
