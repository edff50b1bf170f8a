SPECIFICATION FairSpec
CONSTANTS
  PUSHES = 1
  ACCEPTS = 2
  MAX_WATCHES = 3
  Environments = {{"other_device", "expiry"}, {"last_reply_lost", "other_device", "expiry"}}
INVARIANTS Consistent ConnectedIsShown
PROPERTIES ImplementsContract CancelIsReported NeverLeftConnected
CHECK_DEADLOCK FALSE
