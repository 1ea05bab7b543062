SPECIFICATION PartsSpec
CONSTANTS
  eve = eve
  fox = fox
  Npcs <- Characters
  MaxFacts = 2
  MaxTold = 2
  ann = ann
  bob = bob
  cid = cid
  Party <- Trio
  Scenes <- ListsOfActive
  Infos <- Knowledge
  Cadence <- Cadences
  MaxAgents = 2
  MaxSlots = 1
  MaxTurns = 6
  NumGoals = 3
  NoParent = NoParent
  Parent <- Alternatives
  Levels <- Activations
  CandidateAt = 4
  CommitAt = 7
  CommitTicks = 2
  Margin = 2
  MaxRaw = 3
  MaxArcs = 2
  MaxVersions = 1
  ScrollLimit = 2
  FinalLimit = 3
  Fails = TRUE
  m1 = m1
  m2 = m2
  Sources <- Memories
  RawKey <- FromBothEnds
  MaxKey = 4
  TopK = 2
  ScanLimit = 8
  Threshold = 2
  Hysteresis = 1
  MaxDrift = 1
  MaxNights = 4
  ScansFail = FALSE
  WritesFail = TRUE
  Crashes = TRUE
  lydia = lydia
  belethor = belethor
  Talkers <- Pair
  Rooms <- Visits
  Earshots <- Overheard
  VerbatimMax = 2
  CompressedMax = 1
  KeywordsMax = 1
  MinChanges = 2
  MaxLines = 5
INVARIANTS
  PoolInvariant
  NoBeliefVanishes
  PartsInvariant
  CadenceHonoured
  GoalInvariant
  BundleInvariant
  NightsInvariant
  OldestOut
PROPERTIES
  NobodyForgets
CHECK_DEADLOCK FALSE
