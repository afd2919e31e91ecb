SPECIFICATION FairSpec
CONSTANTS
  s1 = s1
  s2 = s2
  c1 = c1
  h1 = h1
  m1 = m1
  d1 = d1
  d2 = d2
  k1 = k1
  k2 = k2
  None = None
  Servers = {s1, s2}
  Clients = {c1}
  Methods = {m1}
  Hosts = {h1}
  AccessAddr <- MCAccessAddr
  Describes = {d1, d2}
  ServerOf <- MCServerOf
  MethodOf <- MCMethodOf
  ParamsDesc <- MCParamsDesc
  ReturnType <- MCReturnType
  BeforeStart = {d1}
  Calls = {k1, k2}
  ClientOf <- MCClientOf
  Params <- MCParams
  Results = {"int"}
INVARIANTS
  TypeOK
  AnnouncedIsServed
  ServedByOne
  RcodeTells
  RegisteredIsListed
PROPERTY CallIsAnswered
CHECK_DEADLOCK FALSE
