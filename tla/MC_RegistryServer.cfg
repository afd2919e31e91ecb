SPECIFICATION Spec
CONSTANTS
  c1 = c1
  c2 = c2
  c3 = c3
  h1 = h1
  h2 = h2
  Conns = {c1, c2, c3}
  Methods = {m1, m2}
  Hosts = {h1, h2}
  AccessAddr <- MCAccessAddr
INVARIANTS
  TypeOK
  LiveProviderListed
  DiscoverersUpToDate
PROPERTY ImplementsDirectory
CHECK_DEADLOCK FALSE
