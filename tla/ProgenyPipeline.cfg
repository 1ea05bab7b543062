SPECIFICATION FairSpec
CONSTANTS
  ann = ann
  bob = bob
  Npcs <- MCNpcs
  Kinds <- MCKinds
  MaxTicks = 3
  MaxConns = 2
  Crashes = TRUE
  LinkDrops = TRUE
INVARIANTS
  RemindedByTheTurnBefore
  SerialTurns
  AnswersInOrder
PROPERTIES
  EveryTickSettles
CHECK_DEADLOCK FALSE
