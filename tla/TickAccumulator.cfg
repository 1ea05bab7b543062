SPECIFICATION FairSpec
CONSTANTS
  n1 = n1
  n2 = n2
  h1 = h1
  NpcNames <- MCNpcNames
  NoNpc = NoNpc
  Voicetypes = {"maleeventoned"}
  NoVoice = NoVoice
  Handlers <- MCHandlers
  Loop = Loop
  NoPackage = NoPackage
  MaxPushes = 3
  MaxClock = 1
INVARIANTS
  TypeOK
  NothingLostNothingTwice
  RegistrySinceReset
  IntervalCoversEvents
PROPERTIES
  EverythingShipped
  ImplementsFeed
