SPECIFICATION Spec
CONSTANTS
  me = me
  s1 = s1
  s2 = s2
  nobody = nobody
  Me <- me
  Subjects <- MCSubjects
  Scenes <- MCScenes
  Unreadable <- MCUnreadable
  NoOne <- nobody
  Unit = 240
  Warmths <- MCWarmths
  Resonances <- MCResonances
  HysteresisK = 3
  TopK = 2
  CandidateAt = 4
  CommitAt = 7
  CommitTicks = 2
  Stores <- MCStores
  MaxEncounters = 2
INVARIANTS
  StrangersAreBlank
  RecalledForSomeone
  EstimateIsFelt
CHECK_DEADLOCK FALSE
