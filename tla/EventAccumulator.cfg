SPECIFICATION Spec
CONSTANTS
  ann = ann
  bob = bob
  Agents <- MCAgents
  Scenes <- MCScenes
  Places <- MCPlaces
  Unknown = Unknown
  Shapes <- MCShapes
  VerbatimMax = 2
  MaxEvents = 4
  MaxPackages = 3
INVARIANTS
  BuffersInvariant
  EachEventInOneTurn
  ResetForgetsTheSession
  TimelinesAgree
CHECK_DEADLOCK FALSE
