SPECIFICATION FairSpec
CONSTANTS
  None = None
  c1 = c1
  c2 = c2
  t1 = t1
  t2 = t2
  t3 = t3
  Clients = {c1, c2}
  Transponders = {t1, t2, t3}
  UntypedTransponders = {t3}
INVARIANTS
  LockedMeansTuned
  NoSilentRetune
  LockIsAnnounced
PROPERTIES
  OrderlyCallsReturn
  RequestsAreTried
  CloseEndsThread
CHECK_DEADLOCK FALSE
