SPECIFICATION FairSpec
CONSTANTS
  ROUTES = 2
  CANCEL_RETRIES = 2
  MAX_GENERATION = 1
INVARIANTS Consistent OnlySilentRejectionForgets NoHangupAfterCancel
PROPERTIES HangupReleasesDial NotLeftUp
CHECK_DEADLOCK FALSE
