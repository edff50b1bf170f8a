CONSTANTS
  h1 = h1
  h2 = h2
  Instance = {h1, h2}
  Zones <- MCZones
  SRV_TTL = 2
  A_TTL = 1
  CHANGES = 1
  Dial = {d1, d2}
  Incoming = {i1}
  Base = Base
  None = None
  MAX_LIVE_CALLS = 2
SPECIFICATION Spec
SYMMETRY Symmetry
INVARIANTS Consistent DialsTogether
PROPERTY TargetsAreRecent
