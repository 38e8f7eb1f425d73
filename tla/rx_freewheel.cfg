SPECIFICATION LiveSpec
CONSTANTS
  ThreadRefused = FALSE
  CommqSize = 4
  TimeqSize = 2
  InfoqSize = 6
  Ppsec = 16
  SettleSecs = 1
  RestartSecs = 2
  DryLimit = 2
  Skips = {0, 1}
  PacketLag = 2
  PollCycles = 3
  DrainCycles = 3
  QuitCycles = 1
  Packets = {"timed", "plain", "SUSP"}
  FreewheelAt = {2, 3, 4, 5, 6, 7}
  ResizeAt = {3, 4, 5, 6, 7}
  ShutdownAt = {3, 4, 5, 6, 7}
  SigintAt = {}
PROPERTIES QuietReset FatalStops WaitEnds SyncCompletes
