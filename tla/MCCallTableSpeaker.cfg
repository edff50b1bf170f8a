SPECIFICATION Spec
CONSTANTS
  Incoming = {i1}
  Outgoing = {o1}
  i1 = i1
  o1 = o1
  MAX_LIVE_CALLS = 2
  USED_OUTGOING_IDS = 2

INVARIANT SpeakerNotShared
CHECK_DEADLOCK FALSE
