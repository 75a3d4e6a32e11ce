CONSTANTS
  Clients = {c1, c2}
  Receivers = {r1, r2}
  PsiReceivers = {r1}
  Pids = {p1}
  Tids = {t1}
  AnyTid = AnyTid
  NoReceiver = NoReceiver
  NoPid = NoPid
  MaxChanges = 3
  MaxStarts = 2
SPECIFICATION FairSpec
INVARIANTS
  NoForgottenChange
  FlagMatchesTable
PROPERTIES
  NothingAfterClear
  ImplementsChangeBarrier
  WaitersReturnIfRunning
  ChangesAppliedIfRunning
CHECK_DEADLOCK FALSE
