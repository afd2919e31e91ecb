SPECIFICATION Spec
CONSTANTS
  Conns = {c1, c2, c3}
  Topics = {t1, t2}
INVARIANTS
  TypeOK
  SubscriptionsIndexed
PROPERTY ImplementsPubSub
CHECK_DEADLOCK FALSE
