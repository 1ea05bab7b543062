SPECIFICATION FairDispatch
CONSTANTS
  ann = ann
  bob = bob
  cid = cid
  NoOne = NoOne
  Npcs <- MCNpcs
  Scenes <- MCScenes
  Infos <- MCInfos
  Cadence <- MCCadence
  MaxAgents = 3
  MaxSlots = 1
  MaxTurns = 2
  Inputs <- MCInputs
  Curvatures = {0, 16}
  Replies <- MCReplies
  Retries = 1
INVARIANTS
  RosterAnswered
  PromptsShrink
PROPERTIES
  TurnsEnd
CHECK_DEADLOCK FALSE
