SPECIFICATION FairSpec
CONSTANTS
  c1 = c1
  c2 = c2
  t1 = t1
  th1 = th1
  th2 = th2
  th3 = th3
  None = None
  Clients = {c1, c2}
  Topics = {t1}
  Threads = {th1, th2, th3}
  ClientOf <- MCClientOf
  Allowed <- MCAllowed
  MaxChannel = 1
INVARIANTS
  TypeOK
  NoDeafSubscriber
  PublicationFindsCallback
  CancelledIsQuiet
  WaitersServed
PROPERTY OperationReturns
CHECK_DEADLOCK FALSE
