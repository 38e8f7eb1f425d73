SPECIFICATION FairSpec
CONSTANTS
  ThreadRefused = TRUE
  CommqSize = 4
  TimeqSize = 2
  InfoqSize = 6
  Ppsec = 16
  SettleSecs = 1
  RestartSecs = 2
  DryLimit = 2
  Skips = {0, 1}
  PacketLag = 2
  PollCycles = 3
  DrainCycles = 3
  QuitCycles = 1
  Packets = {"timed", "plain", "SUSP", "TERM", "FAIL"}
  FreewheelAt = {}
  ResizeAt = {}
  ShutdownAt = {2, 3, 4, 5, 6, 7}
  SigintAt = {1, 3, 4, 5, 6, 7, 8, 9}
INVARIANTS TypeOK CommandsInOrder JackWillNotice QueuesAlive TimesFresh
PROPERTIES QuietReset EndReported FatalStops SilenceNoticed
