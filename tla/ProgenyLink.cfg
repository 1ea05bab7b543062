SPECIFICATION FairLink
CONSTANTS
  MaxConns = 5
  MaxDrops = 2
  MaxRefusals = 1
  MaxTicks = 2
  FrameTypes <- MCFrameTypes
INVARIANTS
  LinkInvariant
  NeverStranded
  ListensWhereItTalks
PROPERTIES
  LinkRecovers
CHECK_DEADLOCK FALSE
