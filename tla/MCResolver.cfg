CONSTANTS
  h1 = h1
  h2 = h2
  Instance = {h1, h2}
  Zones <- MCZones
  SRV_TTL = 4
  A_TTL = 2
  CHANGES = 3
SPECIFICATION ResolverSpec
PROPERTY TargetsAreRecent
