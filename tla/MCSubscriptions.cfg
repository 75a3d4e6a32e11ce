SPECIFICATION Spec
CONSTANTS
  None = None
  rec = rec
  live = live
  epg = epg
  t1 = t1
  t2 = t2
  Recorders = {rec}
  Viewers = {live}
  ChannelScanners = {}
  EpgScanners = {epg}
  Transponders = {t1, t2}
SYMMETRY Symmetry
INVARIANTS
  RegisteredUntilTold
  LaterIsHigherPriority
  RegisteredAreSubscribed
  HoldersAreServed
  UnusedIsUntuned
