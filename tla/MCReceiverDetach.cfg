CONSTANTS
  Clients = {c1}
  Receivers = {r1, r2}
  PsiReceivers = {r1}
  Pids = {p1}
  Tids = {t1}
  AnyTid = AnyTid
  NoReceiver = NoReceiver
  NoPid = NoPid
  MaxChanges = 3
  MaxStarts = 1
SPECIFICATION Spec
PROPERTY DetachReceiverDetaches
CHECK_DEADLOCK FALSE
