SPECIFICATION PathSpec
CONSTANTS
  Periods = {3, 4, 5}
  PacketSizes = {36, 38}
  SampleBytes = {2, 3, 4}
  Channels = {1, 2, 3}
  Byte = 16
  Grain = 4
  MAXCHAN = 4
  Texts <- MCTexts
  MaxPort = 3
  Groups <- MCGroups
  Devices = {"eth0"}
  Wishes <- MCWishes
  W = 64
  Clock = 64
  MinQueue = 8
  Sessions <- MCSessions
  Late = 1
  Jitter = 1
  Skips = {2}
  MaxFaults = 1
  MCTime = 19
INVARIANTS SplitFits SplitEven ListExact InTime Uninterrupted DelayKept TimesUndisturbed SocketsMeet
CHECK_DEADLOCK FALSE
