SPECIFICATION FairSpec
CONSTANTS
  PUSHES = 1
  ACCEPTS = 1
  MAX_WATCHES = 2
  Environments = {{"other_device"}}
PROPERTY AnsweredElsewhereIsReported
CHECK_DEADLOCK FALSE
