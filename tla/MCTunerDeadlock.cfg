SPECIFICATION FairSpec
CONSTANTS
  None = None
  c1 = c1
  c2 = c2
  t1 = t1
  Clients = {c1, c2}
  Transponders = {t1}
  UntypedTransponders = {}
PROPERTIES
  CallsReturn
CHECK_DEADLOCK FALSE
