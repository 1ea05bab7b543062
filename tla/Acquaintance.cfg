SPECIFICATION Spec
CONSTANTS
  ann = ann
  bob = bob
  cid = cid
  none = none
  Npcs <- MCNpcs
  NoOne = none
  Seeded <- MCSeeded
  Conversations <- MCTalk
  MaxPackages = 4
  PackagesLost = TRUE
  WritesFail = FALSE
  ReadsFail = FALSE
  Restarts = TRUE
INVARIANTS
  TypeOK
  IntroducedForGood
  OnlyLossMakesStrangers
CHECK_DEADLOCK FALSE
