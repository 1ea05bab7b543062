SPECIFICATION LinkSpec
CONSTANTS
  MaxConns = 3
  MaxDrops = 1
  MaxRefusals = 0
  MaxTicks = 3
  FrameTypes <- MCGoodFrames
PROPERTY
  DropsOnlyWhenDisconnected
CHECK_DEADLOCK FALSE
