SPECIFICATION RelaySpec
CONSTANTS
  Streams <- MCStreams
  Typed <- MCTyped
  Says <- MCSays
  QueueMax = 2
  SendSuspends = TRUE
  LoopsOverlap = TRUE
  LinkFails = TRUE
  ClientsLeave = TRUE
INVARIANTS
  RelayInvariant
  SpokenOnce
PROPERTIES
  OnlyATurnReleases
CHECK_DEADLOCK FALSE
