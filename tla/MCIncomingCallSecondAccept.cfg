SPECIFICATION FairSpec
CONSTANTS
  PUSHES = 1
  ACCEPTS = 2
  MAX_WATCHES = 3
  Environments = {{"lost_reply"}}
PROPERTY NeverLeftConnected
CHECK_DEADLOCK FALSE
