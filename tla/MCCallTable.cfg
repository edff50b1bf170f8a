SPECIFICATION Spec
CONSTANTS
  Incoming = {i1, i2}
  Outgoing = {o1}
  i1 = i1
  i2 = i2
  o1 = o1
  MAX_LIVE_CALLS = 2
  USED_OUTGOING_IDS = 2
SYMMETRY Symmetric
INVARIANTS LiveCap OneOffHold ShownMatchesTable AudioOwned NoSlotLeaked IndInv
PROPERTY ImplementsContract
CHECK_DEADLOCK FALSE
