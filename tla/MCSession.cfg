SPECIFICATION FairSpec
CONSTANTS
  Poll = {"p1"}
  Beat = {"b1", "b2"}
  Push = {"t1", "t2"}
  MAX_GENERATION = 1
INVARIANTS AskedOncePerToken OneHeartbeat RegistrationAgrees IndInv
PROPERTIES OnlyCurrentTokenAsked RejectionIsReported ChangeIsServed
CHECK_DEADLOCK FALSE
