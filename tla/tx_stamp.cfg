SPECIFICATION Spec
CONSTANTS
  Npack = 2
  PackqSize = 2
  TimeqSize = 2
  InfoqSize = 1
  SecCycles = 4
  StampInit = {0, 9}
  PollCycles = 2
  NetKeepsUp = TRUE
  ThreadRefused = FALSE
  SemMax = 3
  StampMax = 3
PROPERTY StampsPeriodic
