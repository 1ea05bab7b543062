SPECIFICATION FairRelay
CONSTANTS
  Streams <- MCStreams
  Typed <- MCTyped
  Says <- MCSays
  QueueMax = 2
  SendSuspends = TRUE
  LoopsOverlap = TRUE
  LinkFails = FALSE
  ClientsLeave = FALSE
PROPERTIES
  StreamAnswered
CHECK_DEADLOCK FALSE
