SPECIFICATION Spec
CONSTANTS
  ThreadRefused = FALSE
  CommqSize = 4
  TimeqSize = 2
  InfoqSize = 6
  Ppsec = 16
  SettleSecs = 1
  RestartSecs = 2
  DryLimit = 2
  Skips = {0, 1}
  PacketLag = 2
  PollCycles = 3
  DrainCycles = 3
  QuitCycles = 1
  Packets = {"timed", "plain"}
  FreewheelAt = {1}
  ResizeAt = {}
  ShutdownAt = {}
  SigintAt = {}
INVARIANT QueuesAlive
