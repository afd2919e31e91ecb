SPECIFICATION FairSpec
CONSTANTS
  c1 = c1
  c2 = c2
  m1 = m1
  m2 = m2
  h1 = h1
  h2 = h2
  one = one
  again = again
  other = other
  None = None
  Calls = {c1, c2}
  Methods = {m1, m2}
  Hosts = {h1, h2}
  Providers <- MCProviders
  Service <- MCService
  AccessAddr <- MCAccessAddr
  MaxRepeats <- MCMaxRepeats
INVARIANTS
  TypeOK
  ChooseFromSome
  CallGoesToProvider
  CacheCoherent
  WaitersServed
PROPERTIES
  PooledClientStays
  ImplementsResolver
  DiscoveryConcludes
CHECK_DEADLOCK FALSE
