SPECIFICATION FairSpec
CONSTANTS
  Npack = 2
  PackqSize = 3
  TimeqSize = 1
  InfoqSize = 4
  SecCycles = 1
  StampInit = {0}
  PollCycles = 1
  NetKeepsUp = FALSE
  ThreadRefused = TRUE
  SemMax = 2
  StampMax = 1
INVARIANTS TypeOK NoLostWakeup SuspendAnnounced
PROPERTIES WholePeriods SuspendSent FatalEnds MissingThreadEnds GoodbyeSent
