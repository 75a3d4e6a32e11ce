SPECIFICATION FairSpec
CONSTANTS
  MaxConnections = 2
  MaxSessions = 2
  Resources = {"RESOURCE_MANAGER", "CONDITIONAL_ACCESS_SUPPORT"}
  CamOpens <- MCCamOpens
  AliveTicks = 2
  ResetTicks = 2
  QueryWaitTicks = 1
  QueryReplyTicks = 2
  MaxFaults = 2
  None = None
INVARIANTS
  TypeOK
  CreatedWithoutSessions
PROPERTIES
  ReadyIsKept
  Connected
  PulledIsDisconnected
  IdleIsGivenUp
  QueryEnds
