SPECIFICATION HandSpec
CONSTANTS
  W = 8
  K = 4
  Elements = {e1, e2}
  Posters = {"jack", "main"}
  SemMax = 3
PROPERTIES
  ImplementsFifo
  ImplementsSemaphore
  PacketsTaken
INVARIANTS
  NeverAsleepOnCount
  PacketsCounted
